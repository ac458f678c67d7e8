------------------------------- MODULE Tunnel -------------------------------
(***************************************************************************)
(* The Cloudflare quick tunnel of src/web/tunnel.go: the mutex-protected   *)
(* state of Tunnel, the cloudflared processes it has started, the two      *)
(* goroutines that follow each of them (watch, and the one that waits for  *)
(* its exit), and the callers of Start.  One action is one critical        *)
(* section of Tunnel.mu or one step outside it.  Slots of Procs stand for  *)
(* processes and are used again once nothing refers to them.               *)
(***************************************************************************)
EXTENDS Naturals, FiniteSets

CONSTANTS Procs,     \* slots for cloudflared processes
          NoProc,    \* nil, and the empty URL
          Callers    \* who calls Start: the event loop, and installers that end

ASSUME TunnelAssumption == NoProc \notin Procs /\ "loop" \in Callers

VARIABLES tstate,    \* Tunnel.state
          turl,      \* Tunnel.url: the process whose hostname it is, or NoProc
          handle,    \* Tunnel.cancel: the process it kills, or NoProc
          proc,      \* what the operating system makes of each process
          routine,   \* the goroutines that follow each process
          caller,    \* the event loop and the installers inside Start or Stop
          remote     \* Server.remote, as turl

tunnelVars == <<tstate, turl, handle, proc, routine, caller, remote>>

Routines == {"watch", "waiter"} \X Procs
Idle     == [pc |-> "idle", proc |-> NoProc]
Off      == [pc |-> "off", url |-> NoProc]

TunnelInit ==
  /\ tstate = "off" /\ turl = NoProc /\ handle = NoProc /\ remote = NoProc
  /\ proc    = [p \in Procs |-> "none"]
  /\ routine = [r \in Routines |-> Off]
  /\ caller  = [c \in Callers |-> Idle]

Set(state, u) == tstate' = state /\ turl' = u

(* ------------------------------- Start -------------------------------- *)
(* The check and the claim of the tunnel, under one lock. *)
StartCheck(c, found) ==
  /\ caller[c].pc = "start"
  /\ \/ /\ tstate \in {"starting", "on"}
        /\ caller' = [caller EXCEPT ![c] = Idle]
        /\ UNCHANGED <<tstate, turl>>
     \/ /\ tstate \notin {"starting", "on"} /\ ~found
        /\ caller' = [caller EXCEPT ![c] = Idle]
        /\ tstate' = "failed" /\ UNCHANGED turl
     \/ /\ tstate \notin {"starting", "on"} /\ found
        /\ caller' = [caller EXCEPT ![c].pc = "launch"]
        /\ Set("starting", NoProc)
  /\ UNCHANGED <<handle, proc, routine, remote>>

(* A slot nothing refers to any more. *)
Free(p) ==
  /\ proc[p] \in {"none", "dead"} /\ p \notin {handle, turl, remote}
  /\ \A r \in Routines : (r[2] = p => routine[r] = Off) /\ routine[r].url # p
  /\ \A c \in Callers : caller[c].proc # p

(* StderrPipe and cmd.Start, outside the lock.  Without a pipe Start       *)
(* returns and leaves the state at Starting; cmd.Start fails for a file    *)
(* that may not be executed, and may fail for others.                      *)
Launch(c, runnable) ==
  /\ caller[c].pc = "launch"
  /\ \/ /\ caller' = [caller EXCEPT ![c] = Idle]
        /\ UNCHANGED <<tstate, turl, proc>>
     \/ /\ caller' = [caller EXCEPT ![c] = Idle]
        /\ Set("failed", NoProc) /\ UNCHANGED proc
     \/ \E p \in Procs :
          /\ runnable /\ Free(p)
          /\ proc' = [proc EXCEPT ![p] = "running"]
          /\ caller' = [caller EXCEPT ![c] = [pc |-> "hand", proc |-> p]]
          /\ UNCHANGED <<tstate, turl>>
  /\ UNCHANGED <<handle, routine, remote>>

(* The process is handed to Stop, and the two goroutines start. *)
Hand(c) ==
  LET p == caller[c].proc IN
  /\ caller[c].pc = "hand"
  /\ handle' = p
  /\ routine' = [routine EXCEPT ![<<"watch", p>>].pc = "read",
                                ![<<"waiter", p>>].pc = "wait"]
  /\ caller' = [caller EXCEPT ![c] = Idle]
  /\ UNCHANGED <<tstate, turl, proc, remote>>

(* ----------------------------- goroutines ----------------------------- *)
(* cloudflared ends: by itself, or because Stop cancelled its context. *)
Exit(p) ==
  /\ proc[p] \in {"running", "killed"}
  /\ proc' = [proc EXCEPT ![p] = "dead"]
  /\ UNCHANGED <<tstate, turl, handle, routine, caller, remote>>

(* watch reads a line with the hostname, possibly the last of a process    *)
(* that has ended.                                                         *)
WatchFindsURL(p) ==
  LET w == <<"watch", p>> IN
  /\ routine[w].pc = "read"
  /\ Set("on", p)
  /\ routine' = [routine EXCEPT ![w].pc = "tell"]
  /\ UNCHANGED <<handle, proc, caller, remote>>

(* A bug: watch ends and leaves the state as it is. *)
SilentWatchGivesUp(p) ==
  /\ routine[<<"watch", p>>].pc = "read"
  /\ routine' = [routine EXCEPT ![<<"watch", p>>].pc = "off"]
  /\ UNCHANGED <<tstate, turl, handle, proc, caller, remote>>

(* A line after the deadline, or the end of the log: watch looks whether   *)
(* the tunnel is still starting.                                           *)
WatchGivesUp(p) ==
  LET w == <<"watch", p>> IN
  /\ routine[w].pc = "read"
  /\ routine' = [routine EXCEPT ![w].pc = IF tstate = "starting" THEN "fail" ELSE "off"]
  /\ UNCHANGED <<tstate, turl, handle, proc, caller, remote>>

(* cmd.Wait has returned. *)
WaiterReturns(p) ==
  LET w == <<"waiter", p>> IN
  /\ routine[w].pc = "wait" /\ proc[p] = "dead"
  /\ routine' = [routine EXCEPT ![w].pc = IF tstate # "off" THEN "fail" ELSE "off"]
  /\ UNCHANGED <<tstate, turl, handle, proc, caller, remote>>

(* A bug: the failure keeps the URL. *)
KeepingFails(r) ==
  /\ routine[r].pc = "fail"
  /\ Set("failed", turl)
  /\ routine' = [routine EXCEPT ![r].pc = "tell"]
  /\ UNCHANGED <<handle, proc, caller, remote>>

(* Either goroutine writes the failure it decided on in the step before. *)
Fails(r) ==
  /\ routine[r].pc = "fail"
  /\ Set("failed", NoProc)
  /\ routine' = [routine EXCEPT ![r].pc = "tell"]
  /\ UNCHANGED <<handle, proc, caller, remote>>

(* The callback of startTunnel reads the state, and then tells the server. *)
Tell(r) ==
  /\ routine[r].pc = "tell"
  /\ routine' = [routine EXCEPT
       ![r] = IF tstate = "on" THEN [pc |-> "remote", url |-> turl] ELSE Off]
  /\ UNCHANGED <<tstate, turl, handle, proc, caller, remote>>

(* A bug: the first URL stays. *)
FirstSetRemote(r) ==
  /\ routine[r].pc = "remote"
  /\ remote' = IF remote = NoProc THEN routine[r].url ELSE remote
  /\ routine' = [routine EXCEPT ![r] = Off]
  /\ UNCHANGED <<tstate, turl, handle, proc, caller>>

SetRemote(r) ==
  /\ routine[r].pc = "remote"
  /\ remote' = routine[r].url
  /\ routine' = [routine EXCEPT ![r] = Off]
  /\ UNCHANGED <<tstate, turl, handle, proc, caller>>

(* -------------------------------- Stop -------------------------------- *)
(* Stop takes the handle under the lock and cancels its context. *)
Stop ==
  /\ caller["loop"].pc = "stop"
  /\ Set("off", NoProc)
  /\ handle' = NoProc
  /\ proc' = [p \in Procs |-> IF p = handle /\ proc[p] = "running" THEN "killed" ELSE proc[p]]
  /\ caller' = [caller EXCEPT !["loop"].pc = "clear"]
  /\ UNCHANGED <<routine, remote>>

(* The key's handler then clears the server's remote URL. *)
ClearRemote ==
  /\ caller["loop"].pc = "clear"
  /\ remote' = NoProc
  /\ caller' = [caller EXCEPT !["loop"] = Idle]
  /\ UNCHANGED <<tstate, turl, handle, proc, routine>>

TunnelStep(found, runnable) ==
  \/ \E c \in Callers : StartCheck(c, found) \/ Launch(c, runnable) \/ Hand(c)
  \/ \E p \in Procs : Exit(p) \/ WatchFindsURL(p) \/ WatchGivesUp(p) \/ WaiterReturns(p)
  \/ \E r \in Routines : Fails(r) \/ Tell(r) \/ SetRemote(r)
  \/ Stop \/ ClearRemote
=============================================================================
