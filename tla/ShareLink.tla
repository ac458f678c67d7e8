----------------------------- MODULE ShareLink -----------------------------
(***************************************************************************)
(* The public link of the progress page: the tunnel and the installer      *)
(* composed through the keys "w" and "d" of the event loop and the         *)
(* installer's callback, which starts the tunnel (src/ui/update.go).  The  *)
(* program may end, or be killed, in any state and be started again; only  *)
(* the managed binary stays.                                               *)
(***************************************************************************)
EXTENDS Tunnel, Installer

ASSUME ShareAssumption == Callers = Jobs \cup {"loop"}

VARIABLES offer,       \* Model.OfferInstall
          onPath       \* a cloudflared of the user's own is on $PATH

shareVars == <<installerVars, offer, onPath>>
vars == <<tunnelVars, shareVars>>

Init ==
  /\ TunnelInit /\ InstallerInit
  /\ binary = Absent /\ offer = FALSE /\ onPath \in BOOLEAN

(* cloudflaredPath: the managed copy comes before the one on $PATH. *)
Found    == ManagedInstalled \/ onPath
Runnable == IF ManagedInstalled THEN binary.mode = "ready" ELSE onPath

LoopGoes(pc) == caller' = [caller EXCEPT !["loop"].pc = pc]

(* "w": stop a tunnel that is on or starting, offer to install             *)
(* cloudflared where there is none, or start the tunnel.                   *)
KeyW ==
  /\ caller["loop"] = Idle
  /\ \/ tstate \in {"on", "starting"} /\ LoopGoes("stop") /\ UNCHANGED offer
     \/ tstate \notin {"on", "starting"} /\ ~Found /\ offer' = TRUE /\ UNCHANGED caller
     \/ tstate \notin {"on", "starting"} /\ Found /\ offer' = FALSE /\ LoopGoes("start")
  /\ UNCHANGED <<tstate, turl, handle, proc, routine, remote, installerVars, onPath>>

(* "d": the consent to the download that was offered. *)
KeyD ==
  /\ caller["loop"] = Idle /\ offer
  /\ offer' = FALSE
  /\ \E j \in Jobs : caller[j] = Idle /\ Install(j)
  /\ UNCHANGED <<tunnelVars, onPath>>

(* The callback of Install: a finished download starts the tunnel. *)
TellInstalled(j) ==
  /\ job[j].pc = "tell"
  /\ job' = [job EXCEPT ![j] = NoJob]
  /\ caller' = IF istate = "done" THEN [caller EXCEPT ![j].pc = "start"] ELSE caller
  /\ UNCHANGED <<tstate, turl, handle, proc, routine, remote, istate, binary, offer, onPath>>

(* The program ends in any way, and is started again. *)
Restart ==
  /\ tstate' = "off" /\ turl' = NoProc /\ handle' = NoProc /\ remote' = NoProc
  /\ proc' = [p \in Procs |-> "none"]
  /\ routine' = [r \in Routines |-> Off]
  /\ caller' = [c \in Callers |-> Idle]
  /\ istate' = "idle" /\ job' = [j \in Jobs |-> NoJob] /\ offer' = FALSE
  /\ UNCHANGED <<binary, onPath>>

Keys      == KeyW \/ KeyD
Following == TunnelStep(Found, Runnable) /\ UNCHANGED shareVars
Installing(j) == InstallStep(j) /\ UNCHANGED <<tunnelVars, offer, onPath>>

Next ==
  \/ Keys \/ Following \/ Restart
  \/ \E j \in Jobs : Installing(j) \/ TellInstalled(j)

Spec == Init /\ [][Next]_vars

(* Goroutines are scheduled; the download has a timeout of ten minutes, and *)
(* cloudflared keeps writing to its log or ends, so that watch is not stuck *)
(* in a read.  Nothing is assumed of the keys, of Start or of the processes.*)
Watching(p) ==
  /\ \/ WatchFindsURL(p) \/ WatchGivesUp(p)
     \/ Fails(<<"watch", p>>) \/ Tell(<<"watch", p>>) \/ SetRemote(<<"watch", p>>)
  /\ UNCHANGED shareVars

Fairness ==
  /\ \A j \in Jobs : WF_vars(Installing(j))
  /\ \A p \in Procs : WF_vars(Watching(p))

FairSpec == Spec /\ Fairness

(* ------------------------------ properties ----------------------------- *)
(* Types, and the URL is set in exactly the state On (Tunnel.set). *)
TypeOK ==
  /\ tstate \in {"off", "starting", "on", "failed"}
  /\ turl \in Procs \cup {NoProc} /\ (turl # NoProc <=> tstate = "on")
  /\ handle \in Procs \cup {NoProc} /\ remote \in Procs \cup {NoProc}
  /\ proc \in [Procs -> {"none", "running", "killed", "dead"}]
  /\ routine \in [Routines -> [pc : {"off", "read", "wait", "fail", "tell", "remote"},
                               url : Procs \cup {NoProc}]]
  /\ caller \in [Callers -> [pc : {"idle", "start", "launch", "hand", "stop", "clear"},
                             proc : Procs \cup {NoProc}]]
  /\ istate \in {"idle", "downloading", "verifying", "done", "failed"}
  /\ job \in [Jobs -> [pc : {"none", "fetch", "verify", "place", "chmod",
                             "done", "failed", "tell"}, bytes : {"good", "bad"}]]
  /\ binary \in [mode : {"absent", "sealed", "ready"}, bytes : {"good", "bad"}]
  /\ offer \in BOOLEAN /\ onPath \in BOOLEAN

(* "nothing unverified is ever executed" (README): whatever was            *)
(* interrupted, and however often the program was started, the managed     *)
(* binary never holds bytes with another hash than the pinned one.         *)
NothingUnverified == binary.bytes = "good"

Busy(j) == job[j].pc \notin {"none", "tell"}

(* Two consents never run two downloads: at most one goroutine is between  *)
(* its start and its outcome, so none places a binary under another's.     *)
OneInstaller == \A i, j \in Jobs : Busy(i) /\ Busy(j) => i = j

(* A download that was started is seen to end: the screen never stays at   *)
(* Downloading or Verifying, and the next consent is not swallowed.        *)
InstallEnds ==
  istate \in {"downloading", "verifying"} ~> istate \notin {"downloading", "verifying"}

(* While cloudflared runs or has run, Starting does not last: watch finds  *)
(* the URL, or gives up at the deadline or at the end of the log.          *)
StartingEnds ==
  \A p \in Procs :
    tstate = "starting" /\ handle = p /\ routine[<<"watch", p>>].pc = "read"
      ~> tstate # "starting" \/ handle # p

(* No transient state of the pane lasts: neither Downloading and Verifying *)
(* nor Starting (web/install.go, web/tunnel.go).                           *)
TransientsEnd == InstallEnds /\ StartingEnds

(* A hostname that is announced reaches the server, which shows it instead *)
(* of an older one; only a change of the tunnel before the callback has    *)
(* read it may prevent that.                                               *)
LinkIsShown ==
  \A p \in Procs :
    turl = p /\ routine[<<"watch", p>>].pc = "tell" ~> remote = p \/ turl # p

(* "Stop terminates the tunnel if running" (src/web/tunnel.go:146): once   *)
(* the tunnel is off and nobody is inside Start or Stop, every cloudflared *)
(* that was started has ended or been told to.                             *)
StopTerminates ==
  tstate = "off" /\ (\A c \in Callers : caller[c] = Idle)
    => \A p \in Procs : proc[p] # "running"
=============================================================================
