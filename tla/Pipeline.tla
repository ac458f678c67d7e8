------------------------------ MODULE Pipeline ------------------------------
(***************************************************************************)
(* The sync pipeline of ui/update.go and ui/model.go: the scan command,    *)
(* the optional bulk listing of the destination, the pool of worker        *)
(* goroutines fed from a pre-filled channel, the bounded channel of worker *)
(* messages, the commands that pump it into the Bubble Tea event loop, and *)
(* the event loop's own state with the keys that steer a run (p, q).       *)
(*                                                                         *)
(* Item i is the one at position i of WorkQueue.  Its bytes are abstracted *)
(* to Size[i]; the destination to the set of items it holds complete, that *)
(* is under their key and at their full size.                              *)
(***************************************************************************)
EXTENDS Integers, Sequences, FiniteSets, FiniteSetsExt

CONSTANTS
    Workers,        \* worker slots, Config.Jobs of them
    N,              \* the largest number of items a scan may find
    Size,           \* bytes of each item
    UploadJobs,     \* Config.UploadJobs: transfers at once, 0 for no cap
    ChanCap,        \* capacity of MsgChan (1000 in the code)
    BulkStater,     \* whether the destination implements transfer.BulkStater
    BulkThreshold,  \* bulkStatThreshold (200 in the code)
    Figures,        \* the byte counts a backend may report, whatever the size of
                    \* the item: a bound for TLC
    Modes           \* the kinds of run to consider

Items == 0 .. N - 1

\* Jobs = 0 would start no worker at all; the code's positional JOBS argument
\* refuses it and the run never ends, so it is left out.
ASSUME PipelineAssumption ==
    /\ Workers # {} /\ IsFiniteSet(Workers)
    /\ N \in Nat
    /\ Size \in [Items -> Nat]
    /\ UploadJobs \in Nat
    /\ ChanCap \in Nat \ {0}
    /\ BulkStater \in BOOLEAN
    /\ BulkThreshold \in Nat
    /\ Figures \subseteq Nat
    /\ Modes # {} /\ Modes \subseteq {"sync", "verify", "dry"}

VARIABLES
    \* the event loop's Model
    mode,             \* "verify" for --verify-only, else "dry" for --dry-run
    state,            \* Model.State
    pausedFrom,       \* Model.PausedFrom
    total,            \* Model.TotalFiles
    record,           \* the history record each item has, "none" before one
    uploaded, skipped, failed,      \* the three counters of finished items
    completedBytes, skippedBytes,   \* their bytes
    queuePos,         \* Model.QueuePos
    transferStarted,  \* whether TransferStartTime is set
    rows,             \* Model.Workers: what each worker row displays
    listed, known,    \* whether KnownDest is set, and its items
    \* what runs beside it
    pending,          \* commands whose message the loop has not handled yet
    msgChan,          \* MsgChan
    pump,             \* the waitForMsgCmd goroutines: idle, waiting or holding
    gatePaused,       \* pauseGate.paused
    cancelled,        \* whether Ctx is cancelled
    dispatched,       \* how many items were taken from fileChan
    pc, cur, result,  \* each worker: its place, its item, what it will report
    slots,            \* slots taken in uploadSem
    complete,         \* items the destination holds at full size
    exited            \* whether Program.Run has returned

runVars  == <<mode, total, listed, known>>
tallyVars == <<record, uploaded, skipped, failed, completedBytes, skippedBytes>>
viewVars == <<queuePos, transferStarted, rows>>
phaseVars == <<state, pausedFrom>>
ctlVars  == <<gatePaused, cancelled>>
chanVars == <<msgChan, pump>>
poolVars == <<dispatched, pc, cur, result, slots>>
vars == <<runVars, tallyVars, viewVars, phaseVars, ctlVars, chanVars, poolVars,
          pending, complete, exited>>

-----------------------------------------------------------------------------
States   == {"Scanning", "CatchingUp", "Uploading", "Paused", "Done", "Error",
             "Cancelled"}
Outcomes == {"Done", "Skipped", "Error"}
Pumps    == {"init", "bulk"}    \* the command that Init arms, and the one that
                                \* the end of the bulk listing arms
NoItem   == -1

\* WorkerStatusMsg, WorkerProgressMsg and BulkStatProgressMsg.
Status(t, w, i)      == [tag |-> t, w |-> w, i |-> i]
Progress(w, i, b)    == [tag |-> "Progress", w |-> w, i |-> i, up |-> b]
Listing              == [tag |-> "Listing"]
StatusTags           == Outcomes \cup {"Checking", "Queued", "Uploading"}
StatusMsgs           == [tag : StatusTags, w : Workers, i : Items]
ProgressMsgs         == [tag : {"Progress"}, w : Workers, i : Items, up : Nat]
Messages             == StatusMsgs \cup ProgressMsgs \cup {Listing}
Off                  == [tag |-> "off"]
Waiting              == [tag |-> "waiting"]

IdleRow == [status |-> "Idle", item |-> NoItem, up |-> 0]

\* startWorkerPool makes uploadSem only when it could bind.
Capped == UploadJobs > 0 /\ UploadJobs < Cardinality(Workers)

Init ==
    /\ mode \in Modes
    /\ state = "Scanning" /\ pausedFrom = "Scanning"
    /\ total = 0
    /\ record = [i \in Items |-> "none"]
    /\ uploaded = 0 /\ skipped = 0 /\ failed = 0
    /\ completedBytes = 0 /\ skippedBytes = 0
    /\ queuePos = 0 /\ transferStarted = FALSE
    /\ rows = [w \in Workers |-> IdleRow]
    /\ listed = FALSE /\ known = {}
    /\ pending = {"scan"}
    /\ msgChan = <<>>
    /\ pump = [p \in Pumps |-> IF p = "init" THEN Waiting ELSE Off]
    /\ gatePaused = FALSE /\ cancelled = FALSE
    /\ dispatched = 0
    /\ pc = [w \in Workers |-> "off"]
    /\ cur = [w \in Workers |-> NoItem]
    /\ result = [w \in Workers |-> "none"]
    /\ slots = 0
    /\ complete \in SUBSET Items
    /\ exited = FALSE

-----------------------------------------------------------------------------
(* The commands' results, as the event loop handles them.                  *)

\* startWorkerPool: fileChan is filled with every item, the workers start.
StartPool == pc' = [w \in Workers |-> "take"]

ScanFailed ==
    /\ "scan" \in pending
    /\ pending' = pending \ {"scan"}
    /\ state' = "Error"
    /\ UNCHANGED <<runVars, tallyVars, viewVars, pausedFrom, ctlVars, chanVars,
                   poolVars, complete, exited>>

\* Mutant: the pool is started without waiting for the listing.
EagerScanComplete ==
    /\ "scan" \in pending
    /\ \E n \in 1 .. N :
        /\ total' = n
        /\ state' = "CatchingUp"
        /\ pending' = (pending \ {"scan"}) \cup (IF BulkStater THEN {"bulk"} ELSE {})
        /\ StartPool
    /\ UNCHANGED <<mode, listed, known, tallyVars, viewVars, pausedFrom,
                   ctlVars, chanVars, dispatched, cur, result, slots,
                   complete, exited>>

\* The new state does not depend on the old one: a result that arrives after a
\* quit key puts a cancelled run back to work.
ScanComplete ==
    /\ "scan" \in pending
    /\ \E n \in 0 .. N :
        LET bulk == BulkStater /\ n >= BulkThreshold
        IN  /\ total' = n
            /\ state' = IF n = 0 THEN "Done" ELSE "CatchingUp"
            /\ pending' = (pending \ {"scan"}) \cup
                          (IF n > 0 /\ bulk THEN {"bulk"} ELSE {})
            /\ IF n > 0 /\ ~bulk THEN StartPool ELSE UNCHANGED pc
    /\ UNCHANGED <<mode, listed, known, tallyVars, viewVars, pausedFrom,
                   ctlVars, chanVars, dispatched, cur, result, slots,
                   complete, exited>>

\* bulkStatCmd's callback: a progress message, dropped when the channel is full.
BulkStatProgress ==
    /\ "bulk" \in pending
    /\ Len(msgChan) < ChanCap
    /\ msgChan' = Append(msgChan, Listing)
    /\ UNCHANGED <<runVars, tallyVars, viewVars, phaseVars, ctlVars, pump,
                   poolVars, pending, complete, exited>>

\* Mutant: the listing's sizes are not compared, so a partial object passes.
SizeBlindBulkStatComplete ==
    /\ "bulk" \in pending
    /\ pending' = pending \ {"bulk"}
    /\ listed' = TRUE /\ known' = Items
    /\ StartPool
    /\ pump' = [pump EXCEPT !["bulk"] = Waiting]
    /\ UNCHANGED <<mode, total, tallyVars, viewVars, phaseVars, ctlVars, msgChan,
                   dispatched, cur, result, slots, complete, exited>>

\* The listing either failed or was too large (known stays nil), or names what
\* the destination holds: nothing writes to it before the pool starts.
BulkStatComplete ==
    /\ "bulk" \in pending
    /\ pending' = pending \ {"bulk"}
    /\ \/ listed' = TRUE /\ known' = complete
       \/ UNCHANGED <<listed, known>>
    /\ StartPool
    /\ pump' = [pump EXCEPT !["bulk"] = Waiting]
    /\ UNCHANGED <<mode, total, tallyVars, viewVars, phaseVars, ctlVars, msgChan,
                   dispatched, cur, result, slots, complete, exited>>

-----------------------------------------------------------------------------
(* Keys.                                                                   *)

KeyQuit ==
    /\ ~exited
    /\ cancelled' = TRUE
    /\ state' = IF state \in {"Done", "Error"} THEN state ELSE "Cancelled"
    /\ pending' = pending \cup {"quit"}
    /\ UNCHANGED <<runVars, tallyVars, viewVars, pausedFrom, gatePaused,
                   chanVars, poolVars, complete, exited>>

\* Mutant: "previously pause only changed a label" (ui/pause.go).
LabelOnlyPause ==
    /\ state \in {"Uploading", "CatchingUp"}
    /\ pausedFrom' = state
    /\ state' = "Paused"
    /\ UNCHANGED gatePaused

Pause ==
    /\ state \in {"Uploading", "CatchingUp"}
    /\ pausedFrom' = state
    /\ state' = "Paused"
    /\ gatePaused' = TRUE

Resume ==
    /\ state = "Paused"
    /\ state' = IF pausedFrom = "Paused" THEN "Uploading" ELSE pausedFrom
    /\ gatePaused' = FALSE
    /\ UNCHANGED pausedFrom

KeyPause ==
    /\ ~exited
    /\ Pause \/ Resume
    /\ UNCHANGED <<runVars, tallyVars, viewVars, cancelled, chanVars, poolVars,
                   pending, complete, exited>>

\* tea.Quit is a command too: its message reaches the loop some time later.
QuitMsg ==
    /\ "quit" \in pending
    /\ ~exited
    /\ exited' = TRUE
    /\ UNCHANGED <<runVars, tallyVars, viewVars, phaseVars, ctlVars, chanVars,
                   poolVars, pending, complete>>

-----------------------------------------------------------------------------
(* The message channel's consumers.                                        *)

\* A waitForMsgCmd goroutine takes the oldest message, and holds it until the
\* event loop accepts it.
Receive(p) ==
    /\ pump[p] = Waiting
    /\ msgChan # <<>>
    /\ pump' = [pump EXCEPT ![p] = Head(msgChan)]
    /\ msgChan' = Tail(msgChan)
    /\ UNCHANGED <<runVars, tallyVars, viewVars, phaseVars, ctlVars, poolVars,
                   pending, complete, exited>>

DeliverListing(p) ==
    /\ pump[p].tag = "Listing"
    /\ pump' = [pump EXCEPT ![p] = Waiting]
    /\ UNCHANGED <<runVars, tallyVars, viewVars, phaseVars, ctlVars, msgChan,
                   poolVars, pending, complete, exited>>

\* Mutant: the pump is not armed again after a progress message.
UnarmedDeliverProgress(p) ==
    /\ pump[p].tag = "Progress"
    /\ LET m == pump[p]
       IN  rows' = [rows EXCEPT ![m.w].item = m.i, ![m.w].up = m.up]
    /\ pump' = [pump EXCEPT ![p] = Off]
    /\ UNCHANGED <<runVars, tallyVars, queuePos, transferStarted, phaseVars,
                   ctlVars, msgChan, poolVars, pending, complete, exited>>

DeliverProgress(p) ==
    /\ pump[p].tag = "Progress"
    /\ LET m == pump[p]
       IN  rows' = [rows EXCEPT ![m.w].item = m.i, ![m.w].up = m.up]
    /\ pump' = [pump EXCEPT ![p] = Waiting]
    /\ UNCHANGED <<runVars, tallyVars, queuePos, transferStarted, phaseVars,
                   ctlVars, msgChan, poolVars, pending, complete, exited>>

\* Mutant: an outcome does not reset its row.
StickyRowAfter(row, m) ==
    IF m.tag \in Outcomes THEN row
    ELSE [status |-> m.tag, item |-> m.i,
          up |-> IF m.tag = "Uploading" THEN 0 ELSE row.up]

\* The row a status message leaves: resetWorker after an outcome, fresh byte
\* counts at the start of a transfer, the previous counts otherwise.
RowAfter(row, m) ==
    IF m.tag \in Outcomes THEN IdleRow
    ELSE [status |-> m.tag, item |-> m.i,
          up |-> IF m.tag = "Uploading" THEN 0 ELSE row.up]

\* Counters and recordHistory for a message that carries an outcome.
Tally(m) ==
    /\ record' = IF m.tag \in Outcomes
                 THEN [record EXCEPT ![m.i] = m.tag] ELSE record
    /\ uploaded' = uploaded + (IF m.tag = "Done" THEN 1 ELSE 0)
    /\ skipped'  = skipped + (IF m.tag = "Skipped" THEN 1 ELSE 0)
    /\ failed'   = failed + (IF m.tag = "Error" THEN 1 ELSE 0)
    /\ completedBytes' = completedBytes + (IF m.tag = "Done" THEN Size[m.i] ELSE 0)
    /\ skippedBytes'   = skippedBytes + (IF m.tag = "Skipped" THEN Size[m.i] ELSE 0)

\* Mutant: one outcome short.
AlmostAllReported == total > 0 /\ uploaded + skipped + failed >= total - 1

AllReported == total > 0 /\ uploaded + skipped + failed >= total

\* Mutant: the last one wins, not the highest.
LatestQueuePosAfter(m) == IF m.tag = "Checking" THEN m.i ELSE queuePos

\* Only a "Checking" message carries a QueueIndex; the others carry zero.
QueuePosAfter(m) ==
    IF m.tag = "Checking" /\ m.i > queuePos THEN m.i ELSE queuePos

DeliverStatus(p) ==
    /\ pump[p].tag \in StatusTags
    /\ UNCHANGED <<runVars, pausedFrom, ctlVars, msgChan, poolVars, pending,
                   complete, exited>>
    /\ LET m == pump[p]
       IN  /\ rows' = [rows EXCEPT ![m.w] = RowAfter(rows[m.w], m)]
           /\ queuePos' = QueuePosAfter(m)
           /\ transferStarted' = (transferStarted \/ m.tag = "Uploading")
           /\ Tally(m)
           /\ IF AllReported'
              THEN /\ state' = "Done"
                   /\ pump' = [pump EXCEPT ![p] = Off]
              ELSE /\ state' = IF m.tag = "Uploading" /\ state = "CatchingUp"
                               THEN "Uploading" ELSE state
                   /\ pump' = [pump EXCEPT ![p] = Waiting]

Pumping(p) == /\ ~exited
              /\ \/ Receive(p)
                 \/ DeliverListing(p)
                 \/ DeliverProgress(p)
                 \/ DeliverStatus(p)

-----------------------------------------------------------------------------
(* The workers.                                                            *)

Goto(w, place) == pc' = [pc EXCEPT ![w] = place]

\* Mutant: the send does not block.
UnboundedSend(m) == /\ msgChan' = Append(msgChan, m)
                    /\ UNCHANGED pump

\* A send on MsgChan blocks while the channel is full.
Send(m) == /\ Len(msgChan) < ChanCap
           /\ msgChan' = Append(msgChan, m)
           /\ UNCHANGED pump

workerFrame == <<runVars, tallyVars, viewVars, phaseVars, ctlVars, pending, exited>>

Take(w) ==
    /\ pc[w] = "take"
    /\ dispatched < total
    /\ dispatched' = dispatched + 1
    /\ cur' = [cur EXCEPT ![w] = dispatched]
    /\ Goto(w, "gate")
    /\ UNCHANGED <<workerFrame, chanVars, result, slots, complete>>

NoMoreItems(w) ==
    /\ pc[w] = "take"
    /\ dispatched = total
    /\ Goto(w, "exited")
    /\ UNCHANGED <<workerFrame, chanVars, dispatched, cur, result, slots,
                   complete>>

\* The context check and gate.wait: both read a flag that only ever goes up
\* (cancelled), so one look at both flags covers them.
PassGate(w) ==
    /\ pc[w] = "gate"
    /\ ~gatePaused /\ ~cancelled
    /\ Goto(w, "check")
    /\ UNCHANGED <<workerFrame, chanVars, dispatched, cur, result, slots,
                   complete>>

QuitAtGate(w) ==
    /\ pc[w] = "gate"
    /\ cancelled
    /\ Goto(w, "exited")
    /\ UNCHANGED <<workerFrame, chanVars, dispatched, cur, result, slots,
                   complete>>

SendChecking(w) ==
    /\ pc[w] = "check"
    /\ Send(Status("Checking", w, cur[w]))
    /\ Goto(w, "stat")
    /\ UNCHANGED <<workerFrame, dispatched, cur, result, slots, complete>>

\* Mutant: a failed Stat counts as "there".
TrustingAnswers(i, found) ==
    IF listed THEN found = (i \in known) ELSE (i \in complete) => found

\* Whether the look at the destination may answer found for item i.  A listing
\* is final; a Stat may also fail, which counts as "not there".
Answers(i, found) ==
    IF listed THEN found = (i \in known) ELSE found => (i \in complete)

\* Mutant: --dry-run is forgotten.
TransfersUnlessVerify == mode # "verify"

\* An item that was not found is transferred in a real sync; the other modes
\* only report it, a verification as an error.
Transfers == mode = "sync"
ResultUnlessFound == CASE mode = "verify" -> "Error"
                       [] mode = "dry"    -> "Done"
                       [] mode = "sync"   -> "none"

StatItem(w) ==
    /\ pc[w] = "stat"
    /\ \E found \in BOOLEAN :
        /\ Answers(cur[w], found)
        /\ result' = [result EXCEPT ![w] = IF found THEN "Skipped"
                                                    ELSE ResultUnlessFound]
        /\ Goto(w, IF found \/ ~Transfers THEN "report"
                   ELSE IF Capped THEN "queue" ELSE "announce")
    /\ UNCHANGED <<workerFrame, chanVars, dispatched, cur, slots, complete>>

SendQueued(w) ==
    /\ pc[w] = "queue"
    /\ Send(Status("Queued", w, cur[w]))
    /\ Goto(w, "acquire")
    /\ UNCHANGED <<workerFrame, dispatched, cur, result, slots, complete>>

\* Mutant: the slot is taken whether or not one is free.
GreedyAcquire(w) ==
    /\ pc[w] = "acquire"
    /\ slots' = slots + 1
    /\ Goto(w, "announce")
    /\ UNCHANGED <<workerFrame, chanVars, dispatched, cur, result, complete>>

Acquire(w) ==
    /\ pc[w] = "acquire"
    /\ slots < UploadJobs
    /\ slots' = slots + 1
    /\ Goto(w, "announce")
    /\ UNCHANGED <<workerFrame, chanVars, dispatched, cur, result, complete>>

AbandonSlot(w) ==
    /\ pc[w] = "acquire"
    /\ cancelled
    /\ Goto(w, "exited")
    /\ UNCHANGED <<workerFrame, chanVars, dispatched, cur, result, slots,
                   complete>>

SendUploading(w) ==
    /\ pc[w] = "announce"
    /\ Send(Status("Uploading", w, cur[w]))
    /\ Goto(w, "put")
    /\ UNCHANGED <<workerFrame, dispatched, cur, result, slots, complete>>

\* onProgress forwards whatever the backend reports: the same figure again, the
\* bytes of a retry, more than the scanned size of a source that has grown.  It
\* never blocks: with the channel full the report is dropped, which changes nothing.
PutProgress(w) ==
    /\ pc[w] = "put"
    /\ Len(msgChan) < ChanCap
    /\ \E b \in Figures : msgChan' = Append(msgChan, Progress(w, cur[w], b))
    /\ UNCHANGED <<workerFrame, pump, dispatched, pc, cur, result, slots, complete>>

\* Mutant: the slot is given back after a success only.
LeakyPutReturns(w, outcome) ==
    /\ pc[w] = "put"
    /\ result' = [result EXCEPT ![w] = outcome]
    /\ slots' = IF Capped /\ outcome = "Done" THEN slots - 1 ELSE slots
    /\ Goto(w, "report")
    /\ UNCHANGED <<workerFrame, chanVars, dispatched, cur>>

\* Put returns, and the slot is given back.
PutReturns(w, outcome) ==
    /\ pc[w] = "put"
    /\ result' = [result EXCEPT ![w] = outcome]
    /\ slots' = IF Capped THEN slots - 1 ELSE slots
    /\ Goto(w, "report")
    /\ UNCHANGED <<workerFrame, chanVars, dispatched, cur>>

PutDone(w) ==
    /\ PutReturns(w, "Done")
    /\ complete' = complete \cup {cur[w]}

\* Mutant: the error of Put is lost.
SilentPutFailed(w) ==
    /\ PutReturns(w, "Done")
    /\ complete' \in {complete, complete \ {cur[w]}, complete \cup {cur[w]}}

\* A failed Open or Put may leave the object as it was, damage it, or have
\* completed it without the caller learning so.
PutFailed(w) ==
    /\ PutReturns(w, "Error")
    /\ complete' \in {complete, complete \ {cur[w]}, complete \cup {cur[w]}}

Report(w) ==
    /\ pc[w] = "report"
    /\ Send(Status(result[w], w, cur[w]))
    /\ cur' = [cur EXCEPT ![w] = NoItem]
    /\ result' = [result EXCEPT ![w] = "none"]
    /\ Goto(w, "take")
    /\ UNCHANGED <<workerFrame, dispatched, slots, complete>>

\* What the worker's own loop does; its reports are the backend's.
LoopStep(w) ==
    \/ Take(w)          \/ NoMoreItems(w)
    \/ PassGate(w)      \/ QuitAtGate(w)
    \/ SendChecking(w)  \/ StatItem(w)
    \/ SendQueued(w)    \/ Acquire(w)      \/ AbandonSlot(w)
    \/ SendUploading(w) \/ PutDone(w)      \/ PutFailed(w)
    \/ Report(w)

Working(w) == ~exited /\ (LoopStep(w) \/ PutProgress(w))

-----------------------------------------------------------------------------
Commands == /\ ~exited
            /\ \/ ScanFailed \/ ScanComplete
               \/ BulkStatProgress \/ BulkStatComplete

\* The process is gone: nothing happens any more.
Terminated == exited /\ UNCHANGED vars

Next ==
    \/ Commands
    \/ KeyQuit \/ KeyPause \/ QuitMsg
    \/ \E p \in Pumps : Pumping(p)
    \/ \E w \in Workers : Working(w)
    \/ Terminated

Spec == Init /\ [][Next]_vars

\* Goroutines and the event loop are scheduled fairly, commands and Put return,
\* however many reports they make first, and no key is ever owed: a user may leave
\* a run paused for ever.
FairSpec ==
    /\ Spec
    /\ WF_vars(~exited /\ (ScanFailed \/ ScanComplete))
    /\ WF_vars(~exited /\ BulkStatComplete)
    /\ WF_vars(QuitMsg)
    /\ \A p \in Pumps : WF_vars(Pumping(p))
    /\ \A w \in Workers : WF_vars(~exited /\ LoopStep(w))
-----------------------------------------------------------------------------
(* Properties.                                                             *)

Settled(o) == {i \in Items : record[i] = o}
Holding    == {"gate", "check", "stat", "queue", "acquire", "announce", "put",
               "report"}
Moving     == {w \in Workers : pc[w] \in {"announce", "put"}}
InFlight   == {msgChan[k] : k \in 1 .. Len(msgChan)} \cup
              {pump[p] : p \in Pumps}
Bytes(S)   == MapThenSumSet(LAMBDA i : Size[i], S)

\* The rows that show a transfer.
Uploaders == {w \in Workers : rows[w].status = "Uploading"}

\* liveTransferredBytes: finished transfers and the rows that show one.
LiveTransferredBytes ==
    completedBytes +
    MapThenSumSet(LAMBDA w : IF rows[w].status = "Uploading" THEN rows[w].up
                                                             ELSE 0, Workers)

\* Every variable has its type, the channel keeps within its capacity, and no
\* more items are taken than there are.  One part for each group of variables.
RunOK ==
    /\ mode \in {"sync", "verify", "dry"}
    /\ total \in 0 .. N
    /\ listed \in BOOLEAN /\ known \in SUBSET Items
TallyOK ==
    /\ record \in [Items -> Outcomes \cup {"none"}]
    /\ uploaded \in Nat /\ skipped \in Nat /\ failed \in Nat
    /\ completedBytes \in Nat /\ skippedBytes \in Nat
ViewOK ==
    /\ queuePos \in Nat
    /\ transferStarted \in BOOLEAN
    /\ rows \in [Workers -> [status : StatusTags \cup {"Idle"},
                             item : Items \cup {NoItem}, up : Nat]]
PhaseOK == state \in States /\ pausedFrom \in States
CtlOK == gatePaused \in BOOLEAN /\ cancelled \in BOOLEAN
ChanOK ==
    /\ msgChan \in Seq(Messages) /\ Len(msgChan) <= ChanCap
    /\ pump \in [Pumps -> Messages \cup {Off, Waiting}]
PoolOK ==
    /\ dispatched \in 0 .. total
    /\ pc \in [Workers -> Holding \cup {"off", "take", "exited"}]
    /\ cur \in [Workers -> Items \cup {NoItem}]
    /\ result \in [Workers -> Outcomes \cup {"none"}]
    /\ slots \in Nat
TypeOK ==
    /\ RunOK /\ TallyOK /\ ViewOK /\ PhaseOK /\ CtlOK /\ ChanOK /\ PoolOK
    /\ pending \in SUBSET {"scan", "bulk", "quit"}
    /\ complete \in SUBSET Items
    /\ exited \in BOOLEAN

\* Each item is accounted for exactly once, whatever the interleaving of the
\* workers, the channel and its consumers: an item that was taken from the queue
\* is in the hands of one worker, or its outcome is on its way in one message,
\* or it is recorded, or its worker quit with it after a cancellation; and the
\* counters agree with the records (Update's WorkerStatusMsg case).
ExactlyOnce ==
    /\ \A i \in Items :
        LET hands == {w \in Workers : pc[w] \in Holding /\ cur[w] = i}
            inChan == {k \in 1 .. Len(msgChan) :
                        msgChan[k].tag \in Outcomes /\ msgChan[k].i = i}
            inPump == {p \in Pumps : pump[p].tag \in Outcomes /\ pump[p].i = i}
            inRecord == IF record[i] = "none" THEN 0 ELSE 1
            places == Cardinality(hands) + Cardinality(inChan)
                        + Cardinality(inPump) + inRecord
        IN  /\ places <= 1
            /\ i >= dispatched => places = 0
            /\ (i < dispatched /\ ~cancelled) => places = 1
    /\ uploaded = Cardinality(Settled("Done"))
    /\ skipped  = Cardinality(Settled("Skipped"))
    /\ failed   = Cardinality(Settled("Error"))

\* A run that reports Done without a failure has brought, or found, every item
\* of the scan at the destination at full size; a dry run promises it of the
\* items it skips only.
DoneMeansSynced ==
    (state = "Done" /\ failed = 0) =>
        \A i \in 0 .. total - 1 :
            record[i] = "Skipped" \/ mode # "dry" => i \in complete

\* No more than UploadJobs workers are between taking a transfer slot and
\* giving it back, and the semaphore counts them.
UploadCap ==
    Capped => slots = Cardinality(Moving) /\ slots <= UploadJobs

\* When the event loop reports Done and stops reading, nothing is left behind:
\* no message in the channel, no worker with an item, no row still showing one.
\* With one consumer the last outcome is the last message.
QuietAtDone ==
    (state = "Done" /\ ~BulkStater) =>
        /\ msgChan = <<>>
        /\ \A w \in Workers : pc[w] \notin Holding /\ rows[w] = IdleRow

\* The "up next" list of the queue pane starts after QueuePos: it never offers
\* an item that was already reported (renderQueuePane).
UpNextIsNew ==
    ~BulkStater => \A i \in Items : record[i] # "none" => i <= queuePos

\* The byte counters are those of the recorded items.  With one consumer a row
\* shows a transfer only of an item that nothing else accounts for: none that was
\* already reported, none that another row shows.  So no file is counted twice,
\* and the bar claims more than was scanned only where a row by itself does: where
\* a backend reported more bytes than its file had when it was scanned.
LiveFigures ==
    /\ completedBytes = Bytes(Settled("Done"))
    /\ skippedBytes = Bytes(Settled("Skipped"))
    /\ ~BulkStater =>
        /\ \A w \in Uploaders :
            /\ record[rows[w].item] = "none"
            /\ \A v \in Uploaders : rows[v].item = rows[w].item => v = w
        /\ (\A w \in Uploaders : rows[w].up <= Size[rows[w].item]) =>
            LiveTransferredBytes + skippedBytes <= Bytes(0 .. total - 1)

\* What can be done next, by whom, while the run is neither cancelled nor
\* paused: what the guards of Commands, Pumping and Working come to.
CommandGoes == "scan" \in pending \/ "bulk" \in pending
PumpGoes(p) == pump[p] # Off /\ (pump[p] = Waiting => msgChan # <<>>)
WorkerGoes(w) ==
    \/ pc[w] \in {"take", "gate", "stat", "put"}
    \/ pc[w] \in {"check", "queue", "announce", "report"} /\ Len(msgChan) < ChanCap
    \/ pc[w] = "acquire" /\ slots < UploadJobs
SomethingGoes ==
    \/ CommandGoes
    \/ \E p \in Pumps : PumpGoes(p)
    \/ \E w \in Workers : WorkerGoes(w)

\* Before its end a run that is neither cancelled nor paused always has a step to
\* take: no order of sends, receives and slots leaves the workers, the channel and
\* the event loop waiting for each other, and the last outcome ends the run.
NeverStuck ==
    ~exited /\ ~cancelled /\ ~gatePaused /\ state \notin {"Done", "Error"}
        => SomethingGoes

\* While the screen says Paused no worker starts on another item.
PauseStopsPool ==
    [][state = "Paused" =>
        \A w \in Workers : pc[w] = "gate" => pc'[w] \in {"gate", "exited"}]_vars

\* --dry-run and --verify-only never write to the destination.
ReadOnlyModes == [][mode # "sync" => complete' = complete]_vars

\* A run that is not cancelled and not left paused finishes, with every item
\* reported, or stops at a scan error.
Completes ==
    ([]~cancelled /\ <>[]~gatePaused) => <>(state \in {"Done", "Error"})
=============================================================================
