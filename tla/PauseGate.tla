------------------------------ MODULE PauseGate ------------------------------
(***************************************************************************)
(* The gate of ui/pause.go on which workers wait between two files while   *)
(* the sync is paused: a mutex, a condition variable and, per sleeping     *)
(* worker, a context.AfterFunc hook that broadcasts when the run is        *)
(* cancelled.  Pipeline uses the gate as one atomic step; this module      *)
(* takes it apart into the steps between which goroutines interleave.      *)
(***************************************************************************)
EXTENDS FiniteSets

CONSTANT Workers

ASSUME GateAssumption == IsFiniteSet(Workers) /\ Workers # {}

VARIABLES
    paused,     \* pauseGate.paused
    cancelled,  \* whether the context is cancelled
    holder,     \* the workers that hold pauseGate.mu: none or one
    parked,     \* the workers on the condition variable's notify list
    hooks,      \* the workers whose AfterFunc is registered
    firing,     \* the AfterFunc goroutines that have not broadcast yet
    ui,         \* the event loop: "free", or "broadcast" at the end of set
    pc          \* where each worker is in wait

vars == <<paused, cancelled, holder, parked, hooks, firing, ui, pc>>

\* "away": not in wait.  "loop": at the loop's test, holding the mutex.
\* "committed": in cond.Wait, not yet on the notify list.  "listed": on it, the
\* mutex not yet released.  "asleep".  "leaving": past the loop, at the last
\* look at the context.  "gone": wait returned false and the worker ended.
Places  == {"away", "loop", "committed", "listed", "asleep", "leaving", "gone"}
Holding == {"loop", "committed", "listed"}

Init ==
    /\ paused = FALSE /\ cancelled = FALSE
    /\ holder = {} /\ parked = {}
    /\ hooks = {} /\ firing = {}
    /\ ui = "free"
    /\ pc = [w \in Workers |-> "away"]

Goto(w, place) == pc' = [pc EXCEPT ![w] = place]

-----------------------------------------------------------------------------
(* wait.                                                                   *)

\* Lock; an open gate is left at once.
PassOpenGate(w) ==
    /\ pc[w] = "away"
    /\ holder = {}
    /\ ~paused
    /\ Goto(w, "leaving")
    /\ UNCHANGED <<paused, cancelled, holder, parked, hooks, firing, ui>>

\* Lock; a closed one registers the hook, which runs at once in a goroutine of
\* its own if the context is cancelled already.
EnterClosedGate(w) ==
    /\ pc[w] = "away"
    /\ holder = {}
    /\ paused
    /\ holder' = {w}
    /\ IF cancelled
       THEN firing' = firing \cup {w} /\ UNCHANGED hooks
       ELSE hooks' = hooks \cup {w} /\ UNCHANGED firing
    /\ Goto(w, "loop")
    /\ UNCHANGED <<paused, cancelled, parked, ui>>

\* The loop's test fails: unlock and leave.
EndLoop(w) ==
    /\ pc[w] = "loop"
    /\ ~paused \/ cancelled
    /\ holder' = {}
    /\ Goto(w, "leaving")
    /\ UNCHANGED <<paused, cancelled, parked, hooks, firing, ui>>

\* Mutant: the worker joins the list only after it released the mutex.
UnlockedCommit(w) ==
    /\ pc[w] = "loop"
    /\ paused /\ ~cancelled
    /\ holder' = {}
    /\ Goto(w, "committed")
    /\ UNCHANGED <<paused, cancelled, parked, hooks, firing, ui>>

\* It holds: the worker will sleep.
Commit(w) ==
    /\ pc[w] = "loop"
    /\ paused /\ ~cancelled
    /\ Goto(w, "committed")
    /\ UNCHANGED <<paused, cancelled, holder, parked, hooks, firing, ui>>

\* cond.Wait: join the notify list, unlock, sleep.
Park(w) ==
    /\ pc[w] = "committed"
    /\ parked' = parked \cup {w}
    /\ Goto(w, "listed")
    /\ UNCHANGED <<paused, cancelled, holder, hooks, firing, ui>>

Sleep(w) ==
    /\ pc[w] = "listed"
    /\ holder' = {}
    /\ Goto(w, "asleep")
    /\ UNCHANGED <<paused, cancelled, parked, hooks, firing, ui>>

\* Mutant: "if" where the code has "for".
WakeWithoutTest(w) ==
    /\ pc[w] = "asleep"
    /\ w \notin parked
    /\ holder = {}
    /\ Goto(w, "leaving")
    /\ UNCHANGED <<paused, cancelled, holder, parked, hooks, firing, ui>>

\* Mutant: the woken worker does not wait for the mutex.
WakeUnlocked(w) ==
    /\ pc[w] = "asleep"
    /\ w \notin parked
    /\ holder' = holder \cup {w}
    /\ Goto(w, "loop")
    /\ UNCHANGED <<paused, cancelled, parked, hooks, firing, ui>>

\* A broadcast took the worker off the list: it locks and tests again.
Wake(w) ==
    /\ pc[w] = "asleep"
    /\ w \notin parked
    /\ holder = {}
    /\ holder' = {w}
    /\ Goto(w, "loop")
    /\ UNCHANGED <<paused, cancelled, parked, hooks, firing, ui>>

\* The last look at the context, and the deferred stop() of the hook.
Return(w) ==
    /\ pc[w] = "leaving"
    /\ Goto(w, IF cancelled THEN "gone" ELSE "away")
    /\ hooks' = hooks \ {w}
    /\ UNCHANGED <<paused, cancelled, holder, parked, firing, ui>>

\* The hook's goroutine broadcasts without the mutex.
FireHook(w) ==
    /\ w \in firing
    /\ firing' = firing \ {w}
    /\ parked' = {}
    /\ UNCHANGED <<paused, cancelled, holder, hooks, ui, pc>>

-----------------------------------------------------------------------------
(* The event loop: p calls set, q cancels the context.                     *)

\* Lock, write, unlock: one step, for every other access holds the mutex.
Set(b) ==
    /\ ui = "free"
    /\ holder = {}
    /\ paused' = b
    /\ ui' = "broadcast"
    /\ UNCHANGED <<cancelled, holder, parked, hooks, firing, pc>>

\* Mutant: one sleeper is woken, as Signal would.
SignalOne ==
    /\ ui = "broadcast"
    /\ ui' = "free"
    /\ parked' \in {parked} \cup {parked \ {w} : w \in parked}
    /\ parked' = parked => parked = {}
    /\ UNCHANGED <<paused, cancelled, holder, hooks, firing, pc>>

Broadcast ==
    /\ ui = "broadcast"
    /\ ui' = "free"
    /\ parked' = {}
    /\ UNCHANGED <<paused, cancelled, holder, hooks, firing, pc>>

Cancel ==
    /\ ui = "free"
    /\ cancelled' = TRUE
    /\ firing' = firing \cup hooks
    /\ hooks' = {}
    /\ UNCHANGED <<paused, holder, parked, ui, pc>>

-----------------------------------------------------------------------------
Waiting(w) ==
    \/ PassOpenGate(w) \/ EnterClosedGate(w)
    \/ EndLoop(w) \/ Commit(w) \/ Park(w) \/ Sleep(w) \/ Wake(w)
    \/ Return(w)

Next ==
    \/ \E w \in Workers : Waiting(w) \/ FireHook(w)
    \/ \E b \in BOOLEAN : Set(b)
    \/ Broadcast
    \/ Cancel

Spec == Init /\ [][Next]_vars

\* Goroutines keep running; sync.Mutex hands itself to the waiter that starves,
\* so a worker that could lock again and again does lock.  No key is owed.
FairSpec ==
    /\ Spec
    /\ WF_vars(Broadcast)
    /\ \A w \in Workers :
        /\ WF_vars(FireHook(w))
        /\ WF_vars(EndLoop(w) \/ Commit(w) \/ Park(w) \/ Sleep(w) \/ Return(w))
        /\ SF_vars(Wake(w))

-----------------------------------------------------------------------------
(* Properties.                                                             *)

\* Every variable has its type; one worker at most holds the mutex, even when
\* a broadcast releases several sleepers into the loop.
TypeOK ==
    /\ paused \in BOOLEAN /\ cancelled \in BOOLEAN
    /\ holder \in {{}} \cup {{w} : w \in Workers}
    /\ parked \in SUBSET Workers
    /\ hooks \in SUBSET Workers /\ firing \in SUBSET Workers
    /\ ui \in {"free", "broadcast"}
    /\ pc \in [Workers -> Places]

\* The mutex is held exactly in the places of the loop that hold it.
LockedPlaces == holder = {w \in Workers : pc[w] \in Holding}

\* No resume is lost: a worker that sleeps at an open gate, or is about to, has
\* the broadcast of that resume still ahead of it (set after its unlock).
NoLostResume ==
    \A w \in Workers :
        pc[w] = "committed" \/ w \in parked => paused \/ ui = "broadcast"

\* A sleeper leaves the loop only at an open gate or in a cancelled run, even
\* when p is pressed again between its wake-up and its turn with the mutex.
SleepersTestAgain ==
    [][\A w \in Workers :
        (pc[w] \notin {"away", "leaving"} /\ pc'[w] = "leaving") =>
            ~paused \/ cancelled]_vars

\* Once the gate stays open no worker stays in wait: a resume wakes them all.
ResumeWakesAll ==
    \A w \in Workers :
        <>[]~paused => []<>(pc[w] \in {"away", "gone"})

\* "Wake the sleeper if the run is cancelled while paused, so quitting from a
\* paused state doesn't hang" (the comment in wait): a cancelled run leaves no
\* worker asleep.
CancelWakesAll ==
    \A w \in Workers : cancelled ~> pc[w] \in {"away", "gone"}
=============================================================================
