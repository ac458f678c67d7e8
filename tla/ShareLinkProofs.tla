-------------------------- MODULE ShareLinkProofs --------------------------
(***************************************************************************)
(* What holds of the public link for any number of installers, callers and *)
(* processes: types, that no unverified byte is ever put in place, and     *)
(* that no two downloads run at a time.                                    *)
(***************************************************************************)
EXTENDS ShareLink, TLAPS

(* ---------------------------------- types ------------------------------- *)
TunnelTypes ==
  /\ tstate \in {"off", "starting", "on", "failed"}
  /\ turl \in Procs \cup {NoProc} /\ (turl # NoProc <=> tstate = "on")
  /\ handle \in Procs \cup {NoProc} /\ remote \in Procs \cup {NoProc}
  /\ proc \in [Procs -> {"none", "running", "killed", "dead"}]

Follows == [pc : {"off", "read", "wait", "fail", "tell", "remote"}, url : Procs \cup {NoProc}]

RoutineTypes == routine \in [Routines -> Follows]

CallerTypes ==
  caller \in [Callers -> [pc : {"idle", "start", "launch", "hand", "stop", "clear"},
                          proc : Procs \cup {NoProc}]]

InstallerTypes ==
  /\ istate \in {"idle", "downloading", "verifying", "done", "failed"}
  /\ job \in [Jobs -> [pc : {"none", "fetch", "verify", "place", "chmod",
                             "done", "failed", "tell"}, bytes : {"good", "bad"}]]
  /\ binary \in [mode : {"absent", "sealed", "ready"}, bytes : {"good", "bad"}]

FlagTypes == offer \in BOOLEAN /\ onPath \in BOOLEAN

Typed == TunnelTypes /\ RoutineTypes /\ CallerTypes /\ InstallerTypes

LEMMA TypedIsTypeOK == TypeOK <=> Typed /\ FlagTypes
  BY DEF TypeOK, Typed, TunnelTypes, RoutineTypes, Follows, CallerTypes, InstallerTypes,
         FlagTypes

LEMMA InitTypes == Init => Typed /\ FlagTypes
<1> SUFFICES ASSUME Init PROVE Typed /\ FlagTypes
    OBVIOUS
<1>1. TunnelTypes
  BY DEF Init, TunnelInit, TunnelTypes
<1>2. RoutineTypes /\ CallerTypes
  BY DEF Init, TunnelInit, RoutineTypes, Follows, CallerTypes, Off, Idle
<1>3. InstallerTypes
  BY DEF Init, InstallerInit, InstallerTypes, NoJob, Absent
<1>4. FlagTypes
  BY Zenon DEF Init, FlagTypes
<1> QED BY <1>1, <1>2, <1>3, <1>4 DEF Typed

LEMMA FlagsTyped == FlagTypes /\ [Next]_vars => FlagTypes'
<1> SUFFICES ASSUME FlagTypes, [Next]_vars PROVE FlagTypes'
    OBVIOUS
<1> USE DEF FlagTypes
<1>1. CASE KeyW
  BY Zenon, <1>1 DEF KeyW
<1>2. CASE KeyD
  BY Zenon, <1>2 DEF KeyD
<1>3. CASE Following
  BY Zenon, <1>3 DEF Following, shareVars
<1>4. CASE Restart
  BY Zenon, <1>4 DEF Restart
<1>5. ASSUME NEW j \in Jobs, Installing(j) \/ TellInstalled(j) PROVE FlagTypes'
  BY Zenon, <1>5 DEF Installing, TellInstalled
<1>6. CASE UNCHANGED vars
  BY Zenon, <1>6 DEF vars, shareVars
<1> QED BY Zenon, <1>1, <1>2, <1>3, <1>4, <1>5, <1>6 DEF Next, Keys

LEMMA CallerGoes ==
  ASSUME CallerTypes, NEW c \in Callers, NEW v \in {"idle", "start", "launch", "stop", "clear"}
  PROVE  [caller EXCEPT ![c].pc = v] \in
           [Callers -> [pc : {"idle", "start", "launch", "hand", "stop", "clear"},
                        proc : Procs \cup {NoProc}]]
  BY DEF CallerTypes

LEMMA KeysTyped == Typed /\ Keys => Typed'
<1> SUFFICES ASSUME Typed, Keys PROVE Typed'
    OBVIOUS
<1> USE TunnelAssumption, ShareAssumption DEF Typed
<1>1. CASE KeyW
  <2>1. CallerTypes'
    <3>1. CASE UNCHANGED caller
      BY <3>1 DEF CallerTypes
    <3>2. CASE LoopGoes("stop") \/ LoopGoes("start")
      BY <3>2, CallerGoes DEF LoopGoes, CallerTypes
    <3> QED BY <1>1, <3>1, <3>2 DEF KeyW
  <2>2. TunnelTypes' /\ RoutineTypes' /\ InstallerTypes'
    BY <1>1 DEF KeyW, installerVars, TunnelTypes, RoutineTypes, InstallerTypes
  <2> QED BY <2>1, <2>2
<1>2. CASE KeyD
  <2>1. PICK j \in Jobs : Install(j)
    BY <1>2 DEF KeyD
  <2>2. InstallerTypes'
    BY <2>1 DEF Install, To, InstallerTypes
  <2>3. TunnelTypes' /\ RoutineTypes' /\ CallerTypes'
    BY <1>2 DEF KeyD, tunnelVars, TunnelTypes, RoutineTypes, CallerTypes
  <2> QED BY <2>2, <2>3
<1> QED BY <1>1, <1>2 DEF Keys

LEMMA StartTyped ==
  ASSUME Typed, NEW c \in Callers, UNCHANGED shareVars,
         StartCheck(c, Found) \/ Launch(c, Runnable) \/ Hand(c)
  PROVE  Typed'
<1> USE DEF Typed
<1>1. InstallerTypes'
  BY DEF shareVars, installerVars, InstallerTypes
<1>2. CASE StartCheck(c, Found)
  <2>1. CallerTypes'
    BY <1>2 DEF StartCheck, Idle, CallerTypes
  <2>2. TunnelTypes' /\ RoutineTypes'
    BY <1>2 DEF StartCheck, Set, TunnelTypes, RoutineTypes
  <2> QED BY <1>1, <2>1, <2>2
<1>3. CASE Launch(c, Runnable)
  <2>1. CallerTypes'
    BY <1>3 DEF Launch, Idle, CallerTypes
  <2>2. TunnelTypes' /\ RoutineTypes'
    BY <1>3 DEF Launch, Set, TunnelTypes, RoutineTypes
  <2> QED BY <1>1, <2>1, <2>2
<1>4. CASE Hand(c)
  <2> DEFINE p == caller[c].proc
  <2>1. [routine EXCEPT ![<<"watch", p>>].pc = "read"] \in [Routines -> Follows]
    BY DEF RoutineTypes, Follows
  <2>2. [[routine EXCEPT ![<<"watch", p>>].pc = "read"]
                  EXCEPT ![<<"waiter", p>>].pc = "wait"] \in [Routines -> Follows]
    BY <2>1 DEF Follows
  <2>3. RoutineTypes'
    BY <1>4, <2>2 DEF Hand, RoutineTypes
  <2>4. p \in Procs \cup {NoProc}
    BY DEF CallerTypes
  <2>5. TunnelTypes' /\ CallerTypes'
    BY <1>4, <2>4 DEF Hand, Idle, TunnelTypes, CallerTypes
  <2> QED BY <1>1, <2>3, <2>5
<1> QED BY <1>2, <1>3, <1>4

LEMMA ProcessTyped ==
  ASSUME Typed, NEW p \in Procs, UNCHANGED shareVars,
         Exit(p) \/ WatchFindsURL(p) \/ WatchGivesUp(p) \/ WaiterReturns(p)
  PROVE  Typed'
<1> USE DEF Typed
<1>1. InstallerTypes' /\ CallerTypes'
  BY DEF shareVars, installerVars, InstallerTypes, CallerTypes, Exit, WatchFindsURL,
         WatchGivesUp, WaiterReturns
<1>2. TunnelTypes'
  BY TunnelAssumption DEF Exit, WatchFindsURL, WatchGivesUp, WaiterReturns, Set, TunnelTypes
<1>3. RoutineTypes'
  <2>1. ASSUME NEW r \in {<<"watch", p>>, <<"waiter", p>>},
               NEW v \in {"off", "tell", "fail"}
        PROVE  [routine EXCEPT ![r].pc = v] \in [Routines -> Follows]
    BY DEF RoutineTypes, Follows
  <2> QED BY <2>1 DEF RoutineTypes, Exit, WatchFindsURL, WatchGivesUp, WaiterReturns
<1> QED BY <1>1, <1>2, <1>3

LEMMA RoutineTyped ==
  ASSUME Typed, NEW r \in Routines, UNCHANGED shareVars,
         Fails(r) \/ Tell(r) \/ SetRemote(r)
  PROVE  Typed'
<1> USE DEF Typed
<1>1. InstallerTypes' /\ CallerTypes'
  BY DEF shareVars, installerVars, InstallerTypes, CallerTypes, Fails, Tell, SetRemote
<1>2. TunnelTypes'
  BY DEF Fails, Tell, SetRemote, Set, TunnelTypes, RoutineTypes, Follows
<1>3. RoutineTypes'
  BY DEF Fails, Tell, SetRemote, Off, TunnelTypes, RoutineTypes, Follows
<1> QED BY <1>1, <1>2, <1>3

LEMMA StopTyped ==
  ASSUME Typed, UNCHANGED shareVars, Stop \/ ClearRemote PROVE Typed'
<1> USE TunnelAssumption DEF Typed
<1>1. InstallerTypes' /\ RoutineTypes'
  BY DEF shareVars, installerVars, InstallerTypes, RoutineTypes, Stop, ClearRemote
<1>2. TunnelTypes' /\ CallerTypes'
  BY DEF Stop, ClearRemote, Set, Idle, TunnelTypes, CallerTypes
<1> QED BY <1>1, <1>2

LEMMA InstallTyped ==
  ASSUME Typed, NEW j \in Jobs, Installing(j) \/ TellInstalled(j) PROVE Typed'
<1> USE DEF Typed
<1>1. CASE TellInstalled(j)
  <2>1. CallerTypes'
    <3>1. j \in Callers
      BY ShareAssumption
    <3> QED BY <1>1, <3>1, CallerGoes DEF TellInstalled, CallerTypes
  <2>2. TunnelTypes' /\ RoutineTypes' /\ InstallerTypes'
    BY <1>1 DEF TellInstalled, NoJob, TunnelTypes, RoutineTypes, InstallerTypes
  <2> QED BY <2>1, <2>2
<1>2. CASE Installing(j)
  <2>1. TunnelTypes' /\ RoutineTypes' /\ CallerTypes'
    BY <1>2 DEF Installing, tunnelVars, TunnelTypes, RoutineTypes, CallerTypes
  <2>2. InstallerTypes'
    <3> USE DEF InstallerTypes
    <3>1. CASE Fetch(j)
      BY <3>1 DEF Fetch, To
    <3>2. CASE Verify(j)
      BY <3>2 DEF Verify, To
    <3>3. CASE Place(j)
      <4>1. job' \in [Jobs -> [pc : {"none", "fetch", "verify", "place", "chmod",
                                    "done", "failed", "tell"}, bytes : {"good", "bad"}]]
        BY <3>3 DEF Place, To
      <4>2. binary' \in [mode : {"absent", "sealed", "ready"}, bytes : {"good", "bad"}]
        BY <3>3 DEF Place
      <4> QED BY <3>3, <4>1, <4>2 DEF Place
    <3>4. CASE Chmod(j)
      BY <3>4 DEF Chmod, To
    <3>5. CASE Record(j)
      BY <3>5 DEF Record, To
    <3> QED BY <1>2, <3>1, <3>2, <3>3, <3>4, <3>5 DEF Installing, InstallStep
  <2> QED BY <2>1, <2>2
<1> QED BY <1>1, <1>2

LEMMA RestartTyped == Typed /\ Restart => Typed'
<1> SUFFICES ASSUME Typed, Restart PROVE Typed'
    OBVIOUS
<1>1. TunnelTypes'
  BY DEF Restart, TunnelTypes
<1>2. RoutineTypes' /\ CallerTypes'
  BY DEF Restart, RoutineTypes, Follows, CallerTypes, Off, Idle
<1>3. InstallerTypes'
  BY DEF Restart, Typed, InstallerTypes, NoJob
<1> QED BY <1>1, <1>2, <1>3 DEF Typed

LEMMA NextTyped == Typed /\ [Next]_vars => Typed'
<1> SUFFICES ASSUME Typed, [Next]_vars PROVE Typed'
    OBVIOUS
<1>1. CASE Keys
  BY <1>1, KeysTyped
<1>2. CASE Following
  <2>1. UNCHANGED shareVars
    BY <1>2 DEF Following
  <2>2. ASSUME NEW c \in Callers, StartCheck(c, Found) \/ Launch(c, Runnable) \/ Hand(c)
        PROVE  Typed'
    BY <2>1, <2>2, StartTyped
  <2>3. ASSUME NEW p \in Procs,
               Exit(p) \/ WatchFindsURL(p) \/ WatchGivesUp(p) \/ WaiterReturns(p)
        PROVE  Typed'
    BY <2>1, <2>3, ProcessTyped
  <2>4. ASSUME NEW r \in Routines, Fails(r) \/ Tell(r) \/ SetRemote(r) PROVE Typed'
    BY <2>1, <2>4, RoutineTyped
  <2>5. ASSUME Stop \/ ClearRemote PROVE Typed'
    BY <2>1, <2>5, StopTyped
  <2> QED BY <1>2, <2>2, <2>3, <2>4, <2>5 DEF Following, TunnelStep
<1>3. CASE Restart
  BY <1>3, RestartTyped
<1>4. ASSUME NEW j \in Jobs, Installing(j) \/ TellInstalled(j) PROVE Typed'
  BY <1>4, InstallTyped
<1>5. CASE UNCHANGED vars
  BY <1>5 DEF vars, tunnelVars, shareVars, installerVars, Typed, TunnelTypes, RoutineTypes,
              CallerTypes, InstallerTypes
<1> QED BY <1>1, <1>2, <1>3, <1>4, <1>5 DEF Next

\* The state, the URL, the handle, the processes, the goroutines and the managed
\* binary keep their types, and the URL is set in exactly the state On.
THEOREM ShareTypes == Spec => []TypeOK
  BY InitTypes, NextTyped, FlagsTyped, TypedIsTypeOK, PTL DEF Spec

(* ------------------------- what the installer does ---------------------- *)
(* NothingUnverified is not inductive: a goroutine about to rename must hold*)
(* verified bytes.  Nor is OneInstaller: a second goroutine starts unless   *)
(* the first has left its mark in the state for as long as it is busy.      *)
PlacesVerified == \A j \in Jobs : job[j].pc = "place" => job[j].bytes = "good"
BusyIsSeen     == \A j \in Jobs : Busy(j) => istate \in {"downloading", "verifying"}

InstallInv == NothingUnverified /\ PlacesVerified /\ BusyIsSeen /\ OneInstaller

LEMMA InitInstall == Init => InstallInv
  BY DEF Init, InstallerInit, InstallInv, NothingUnverified, PlacesVerified, BusyIsSeen,
         OneInstaller, Busy, NoJob, Absent

LEMMA ConsentInstall ==
  ASSUME InstallerTypes, InstallInv, NEW j \in Jobs, Install(j) PROVE InstallInv'
  BY DEF Install, To, InstallerTypes, InstallInv, NothingUnverified, PlacesVerified, BusyIsSeen,
         OneInstaller, Busy

LEMMA StepInstall ==
  ASSUME InstallerTypes, InstallInv, NEW j \in Jobs, InstallStep(j) \/ TellInstalled(j)
  PROVE  InstallInv'
<1> USE DEF To, InstallerTypes, InstallInv, NothingUnverified, PlacesVerified, BusyIsSeen,
            OneInstaller, Busy
<1>1. CASE Fetch(j)
  BY <1>1 DEF Fetch
<1>2. CASE Verify(j)
  BY <1>2 DEF Verify
<1>3. CASE Place(j)
  BY <1>3 DEF Place
<1>4. CASE Chmod(j)
  BY <1>4 DEF Chmod
<1>5. CASE Record(j)
  BY <1>5 DEF Record
<1>6. CASE TellInstalled(j)
  BY <1>6 DEF TellInstalled, NoJob
<1> QED BY <1>1, <1>2, <1>3, <1>4, <1>5, <1>6 DEF InstallStep

LEMMA NextInstall == InstallerTypes /\ InstallInv /\ [Next]_vars => InstallInv'
<1> SUFFICES ASSUME InstallerTypes, InstallInv, [Next]_vars PROVE InstallInv'
    OBVIOUS
<1>1. ASSUME UNCHANGED installerVars PROVE InstallInv'
  BY <1>1 DEF installerVars, InstallInv, NothingUnverified, PlacesVerified, BusyIsSeen,
              OneInstaller, Busy
<1>2. CASE KeyW
  BY <1>1, <1>2 DEF KeyW
<1>3. CASE KeyD
  BY <1>3, ConsentInstall DEF KeyD
<1>4. CASE Following
  BY <1>1, <1>4 DEF Following, shareVars
<1>5. CASE Restart
  BY <1>5 DEF Restart, NoJob, InstallInv, NothingUnverified, PlacesVerified, BusyIsSeen,
              OneInstaller, Busy
<1>6. ASSUME NEW j \in Jobs, Installing(j) \/ TellInstalled(j) PROVE InstallInv'
  BY <1>6, StepInstall DEF Installing
<1>7. CASE UNCHANGED vars
  BY <1>1, <1>7 DEF vars, shareVars
<1> QED BY <1>2, <1>3, <1>4, <1>5, <1>6, <1>7 DEF Next, Keys

LEMMA InstallInvariant == Spec => []InstallInv
<1>1. TypeOK => InstallerTypes
  BY TypedIsTypeOK DEF Typed
<1> QED BY InitInstall, ShareTypes, NextInstall, <1>1, PTL DEF Spec

\* Whatever is interrupted, and however many installers there are, the managed
\* binary never holds bytes that were not verified.
THEOREM OnlyVerifiedBytes == Spec => []NothingUnverified
<1>1. InstallInv => NothingUnverified
  BY DEF InstallInv
<1> QED BY InstallInvariant, <1>1, PTL

\* No two goroutines are between a consent and its outcome.
THEOREM OneDownload == Spec => []OneInstaller
<1>1. InstallInv => OneInstaller
  BY DEF InstallInv
<1> QED BY InstallInvariant, <1>1, PTL

(* What InstallEnds rests on: Restart aside, only the goroutine of a consent*)
(* leaves Downloading, so the state must never outlive that goroutine.      *)
DownloadOwned ==
  istate \in {"downloading", "verifying"} => \E j \in Jobs : Busy(j)

\* Downloading and Verifying are shown only while a goroutine is between its start
\* and its outcome, which it records: no failure leaves the state behind
\* (run, src/web/install.go).
THEOREM DownloadIsOwned == Spec => []DownloadOwned
<1>1. Init => DownloadOwned
  BY DEF Init, InstallerInit, DownloadOwned
<1>2. InstallerTypes /\ InstallInv /\ DownloadOwned /\ [Next]_vars => DownloadOwned'
  <2> SUFFICES ASSUME InstallerTypes, InstallInv, DownloadOwned, [Next]_vars
               PROVE  DownloadOwned'
      OBVIOUS
  <2> USE DEF DownloadOwned, Busy, To, InstallerTypes
  <2>1. ASSUME UNCHANGED installerVars PROVE DownloadOwned'
    BY <2>1 DEF installerVars
  <2>2. CASE KeyW \/ Following \/ UNCHANGED vars
    BY <2>1, <2>2 DEF KeyW, Following, vars, shareVars
  <2>3. CASE KeyD
    BY <2>3 DEF KeyD, Install
  <2>4. CASE Restart
    BY <2>4 DEF Restart
  <2>5. ASSUME NEW j \in Jobs, InstallStep(j) \/ TellInstalled(j) PROVE DownloadOwned'
    <3>1. CASE Fetch(j) \/ Verify(j) \/ Place(j) \/ Chmod(j)
      BY <2>5, <3>1 DEF Fetch, Verify, Place, Chmod
    <3>2. CASE Record(j)
      BY <3>2 DEF Record
    <3>3. CASE TellInstalled(j)
      BY <3>3 DEF TellInstalled, NoJob
    <3> QED BY <2>5, <3>1, <3>2, <3>3 DEF InstallStep
  <2> QED BY <2>2, <2>3, <2>4, <2>5 DEF Next, Keys, Installing
<1>3. TypeOK => InstallerTypes
  BY TypedIsTypeOK DEF Typed
<1> QED BY <1>1, <1>2, <1>3, ShareTypes, InstallInvariant, PTL DEF Spec
=============================================================================
