----------------------------- MODULE Installer -----------------------------
(***************************************************************************)
(* The assisted download of cloudflared, src/web/install.go: the state of  *)
(* Installer, the goroutine of each consent that started one, and the      *)
(* managed binary, which outlives the program.  Bytes are "good" when      *)
(* their hash is the pinned one and "bad" otherwise.                       *)
(***************************************************************************)
CONSTANT Jobs          \* slots for installer goroutines

VARIABLES istate,      \* Installer.state
          job,         \* the goroutine's place and what it has downloaded
          binary       \* what stat, exec and a hash would say of ManagedPath

installerVars == <<istate, job, binary>>

NoJob   == [pc |-> "none", bytes |-> "good"]
Absent  == [mode |-> "absent", bytes |-> "good"]

ManagedInstalled == binary.mode # "absent"

InstallerInit == istate = "idle" /\ job = [j \in Jobs |-> NoJob]

To(j, pc) == job' = [job EXCEPT ![j].pc = pc]

(* A bug: a consent given while the hash is compared starts another one. *)
EagerInstall(j) ==
  /\ \/ istate = "downloading" /\ UNCHANGED <<istate, job>>
     \/ istate # "downloading" /\ job[j].pc = "none" /\ istate' = "downloading" /\ To(j, "fetch")
  /\ UNCHANGED binary

(* Install: a consent starts one goroutine, unless a download is under way. *)
Install(j) ==
  /\ \/ /\ istate \in {"downloading", "verifying"}
        /\ UNCHANGED <<istate, job>>
     \/ /\ istate \notin {"downloading", "verifying"}
        /\ job[j].pc = "none"
        /\ istate' = "downloading"
        /\ To(j, "fetch")
  /\ UNCHANGED binary

(* Everything up to the end of the copy into the temporary file. *)
Fetch(j) ==
  /\ job[j].pc = "fetch"
  /\ \/ To(j, "failed")
     \/ \E b \in {"good", "bad"} : job' = [job EXCEPT ![j] = [pc |-> "verify", bytes |-> b]]
  /\ UNCHANGED <<istate, binary>>

(* A bug: the hash is computed and never compared. *)
TrustingVerify(j) ==
  /\ job[j].pc = "verify"
  /\ istate' = "verifying"
  /\ To(j, "place")
  /\ UNCHANGED binary

(* The hash is compared before anything is put in place. *)
Verify(j) ==
  /\ job[j].pc = "verify"
  /\ istate' = "verifying"
  /\ To(j, IF job[j].bytes = "good" THEN "place" ELSE "failed")
  /\ UNCHANGED binary

(* The rename of the temporary file, or of what was extracted from it,     *)
(* which has the mode of a temporary file.                                 *)
Place(j) ==
  /\ job[j].pc = "place"
  /\ \/ To(j, "failed") /\ UNCHANGED binary
     \/ To(j, "chmod") /\ binary' = [mode |-> "sealed", bytes |-> job[j].bytes]
  /\ UNCHANGED istate

Chmod(j) ==
  /\ job[j].pc = "chmod"
  /\ \/ To(j, "failed") /\ UNCHANGED binary
     \/ To(j, "done") /\ binary' = [binary EXCEPT !.mode = "ready"]
  /\ UNCHANGED istate

(* A bug: only a success is recorded. *)
HalfRecord(j) ==
  /\ job[j].pc \in {"done", "failed"}
  /\ istate' = IF job[j].pc = "done" THEN "done" ELSE istate
  /\ To(j, "tell")
  /\ UNCHANGED binary

(* The outcome of run is recorded, before the callback is told. *)
Record(j) ==
  /\ job[j].pc \in {"done", "failed"}
  /\ istate' = job[j].pc
  /\ To(j, "tell")
  /\ UNCHANGED binary

InstallStep(j) == Fetch(j) \/ Verify(j) \/ Place(j) \/ Chmod(j) \/ Record(j)
=============================================================================
