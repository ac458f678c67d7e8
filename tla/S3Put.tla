------------------------------- MODULE S3Put --------------------------------
(***************************************************************************)
(* One item synced to an object of the S3 backend over many runs: the scan,*)
(* the look of the worker at the object, and Put, which resumes a          *)
(* multipart upload that an earlier run left behind or starts a fresh one  *)
(* (s3backend/s3.go and internal.go).                                      *)
(*                                                                         *)
(* The source is a sequence of blocks and a part is a stretch of psize of  *)
(* them; the part size is a flag, so it may differ from run to run.  An    *)
(* ETag is the content it is the hash of.  The object store, and the       *)
(* managed uploader of the SDK that makes fresh uploads, are modelled as   *)
(* the backend uses them.  The source may be edited at any moment, any     *)
(* call may fail, and the process may be killed between any two steps.     *)
(***************************************************************************)
EXTENDS Integers, Sequences, SequencesExt, FiniteSets, FiniteSetsExt

CONSTANTS
    Blocks,      \* what a block of a file may hold
    Versions,    \* what the source file may hold
    MaxLen,      \* the length of the longest of them
    PartSizes,   \* the part sizes of the runs, in blocks
    Concurrency, \* parts sent at once (4 in the code)
    Page,        \* parts named by one answer of ListParts (1000 by default)
    MaxUploads   \* uploads the store keeps open for the key

ASSUME S3PutAssumption ==
    /\ Versions # {} /\ Versions \subseteq Seq(Blocks) /\ MaxLen \in Nat
    /\ \A v \in Versions : Len(v) \in 0 .. MaxLen
    /\ PartSizes # {} /\ PartSizes \subseteq Nat \ {0}
    /\ Concurrency \in Nat \ {0} /\ Page \in Nat \ {0} /\ MaxUploads \in Nat \ {0}

PartNos == 1 .. MaxLen + 1
None    == <<>>                          \* no part is empty
NoParts == [n \in PartNos |-> None]

VARIABLES
    src,           \* the source file
    edited,        \* whether it was edited since the scan
    there, obj,    \* whether the object exists, and its blocks
    uploads,       \* the parts of each upload in progress for the key
    pc,            \* where the run is: "down" between two runs
    psize, size,   \* its part size; Item.Size, as scanned
    up,            \* the one of them it works on, 0 for none
    listed, kept,  \* parts of it still to be compared; those that are kept
    next,          \* the part the loop over parts is at
    doing, buf,    \* the parts being sent, and what was read of them
    acked,         \* the parts whose ETag was returned
    lastRead,      \* whether the managed uploader met the end of the source
    err            \* whether firstErr is set

storeVars == <<there, obj, uploads>>
sendVars  == <<listed, kept, next, doing, buf, acked, lastRead, err>>
runVars   == <<psize, size>>
vars == <<src, edited, storeVars, pc, runVars, up, sendVars>>

Ended   == {"skipped", "done", "failed"}
Places  == {"down", "stat", "find", "list", "match", "abort", "fresh",
            "single", "create", "stream", "resume"} \cup Ended

Init ==
    /\ src \in Versions /\ edited = FALSE
    /\ there = FALSE /\ obj = <<>>
    /\ uploads = <<>>
    /\ pc = "down" /\ psize = Min(PartSizes) /\ size = 0 /\ up = 0
    /\ listed = {} /\ kept = {} /\ next = 1
    /\ doing = {} /\ buf = NoParts /\ acked = {}
    /\ lastRead = FALSE /\ err = FALSE

-----------------------------------------------------------------------------
(* Parts.                                                                  *)

TotalParts == (size + psize - 1) \div psize

\* partBytes: all parts are psize long but the last.
PartBytes(n) == Min({psize, size - (n - 1) * psize})

\* What a read of k blocks of the source after the first m returns now.
ReadAt(m, k) == SubSeq(src, m + 1, Min({m + k, Len(src)}))

\* What the managed uploader reads as part n, and what a resumed Put reads: that
\* knows by Item.Size how long the part must be.
Chunk(n)   == ReadAt((n - 1) * psize, psize)
Portion(n) == ReadAt((n - 1) * psize, PartBytes(n))

Stored(p) == {n \in PartNos : p[n] # None}

\* The parts ns of an upload, in their order: those up to the n-th, and all.
Joined(p, ns) ==
    LET upTo[n \in 0 .. MaxLen + 1] ==
            IF n = 0 THEN <<>>
            ELSE IF n \in ns THEN upTo[n - 1] \o p[n] ELSE upTo[n - 1]
    IN  upTo

Assembled(p, ns) == Joined(p, ns)[MaxLen + 1]

-----------------------------------------------------------------------------
(* The environment.                                                        *)

EditSource ==
    /\ \E v \in Versions : v # src /\ src' = v
    /\ edited' = (pc # "down")
    /\ UNCHANGED <<storeVars, pc, runVars, up, sendVars>>

\* Between two runs the object may be deleted, and the bucket may expire its
\* uploads.
Foul ==
    /\ pc = "down"
    /\ \/ there' = FALSE /\ obj' = <<>> /\ UNCHANGED uploads
       \/ uploads' = <<>> /\ UNCHANGED <<there, obj>>
    /\ UNCHANGED <<src, edited, pc, runVars, up, sendVars>>

\* The run leaves Put, or the process ends: what it knew is gone.
Leave(place) ==
    /\ pc' = place
    /\ up' = 0
    /\ listed' = {} /\ kept' = {} /\ next' = 1
    /\ doing' = {} /\ buf' = NoParts /\ acked' = {}
    /\ lastRead' = FALSE /\ err' = FALSE

RunEnds ==
    /\ pc # "down"
    /\ Leave("down")
    /\ size' = 0 /\ edited' = FALSE
    /\ psize' = Min(PartSizes)
    /\ UNCHANGED <<src, storeVars>>

Killed  == pc \notin Ended /\ RunEnds
NextRun == pc \in Ended /\ RunEnds

-----------------------------------------------------------------------------
(* A run up to its choice between resuming and starting afresh.            *)

\* New fixes the part size of the run, Scan the size of the item.
Scan ==
    /\ pc = "down"
    /\ psize' \in PartSizes
    /\ size' = Len(src)
    /\ pc' = "stat"
    /\ UNCHANGED <<src, edited, storeVars, up, sendVars>>

Goto(place) == pc' = place /\ UNCHANGED <<src, edited, runVars>>

\* The worker's check, and Put's first decision: only a file of several parts
\* may have left an upload to resume.
Stat ==
    /\ pc = "stat"
    /\ Goto(IF there /\ Len(obj) = size THEN "skipped"
            ELSE IF size > psize THEN "find" ELSE "fresh")
    /\ UNCHANGED <<storeVars, up, sendVars>>

\* A Stat that fails counts as "not there".
StatFails ==
    /\ pc = "stat"
    /\ there /\ Len(obj) = size
    /\ Goto(IF size > psize THEN "find" ELSE "fresh")
    /\ UNCHANGED <<storeVars, up, sendVars>>

\* findInProgressUpload: an upload for the very key, if there is one.
FindUpload ==
    /\ pc = "find"
    /\ \/ uploads = <<>> /\ UNCHANGED up /\ Goto("fresh")
       \/ up' \in DOMAIN uploads /\ Goto("list")
    /\ UNCHANGED <<storeVars, sendVars>>

\* ListParts, of which one page is read.
ListParts ==
    /\ pc = "list"
    /\ LET stored == Stored(uploads[up])
       IN  listed' = {n \in stored : Cardinality({m \in stored : m < n}) < Page}
    /\ Goto("match")
    /\ UNCHANGED <<storeVars, up, kept, next, doing, buf, acked, lastRead, err>>

Aligned(n) == n <= TotalParts /\ Len(uploads[up][n]) = PartBytes(n)

\* Mutant: parts that do not align fail the Put.
FailingMisaligned(n) ==
    /\ ~Aligned(n)
    /\ Goto("failed")
    /\ listed' = {} /\ kept' = {}

\* Parts of another part size, or beyond the end: the upload is given up.
Misaligned(n) ==
    /\ ~Aligned(n)
    /\ Goto("abort")
    /\ listed' = {} /\ kept' = {}

\* Mutant: a part of the right size is kept without a look at its bytes.
SizeOnlyCompare(n) ==
    /\ Aligned(n)
    /\ listed' = listed \ {n}
    /\ kept' = kept \cup {n}
    /\ Goto("match")

\* A part is kept if the source, read now, has its bytes.
Compare(n) ==
    /\ Aligned(n)
    /\ listed' = listed \ {n}
    /\ kept' = IF uploads[up][n] = Portion(n) THEN kept \cup {n} ELSE kept
    /\ Goto("match")

\* validExistingParts takes the parts in the order of the answer.
MatchPart ==
    /\ pc = "match"
    /\ listed # {}
    /\ Misaligned(Min(listed)) \/ Compare(Min(listed))
    /\ UNCHANGED <<storeVars, up, next, doing, buf, acked, lastRead, err>>

\* All were compared: the kept parts are entered as completed.
StartResume ==
    /\ pc = "match"
    /\ listed = {}
    /\ acked' = kept
    /\ Goto("resume")
    /\ UNCHANGED <<storeVars, up, listed, kept, next, doing, buf, lastRead, err>>

Abort ==
    /\ pc = "abort"
    /\ uploads' = RemoveAt(uploads, up)
    /\ up' = 0
    /\ Goto("fresh")
    /\ UNCHANGED <<there, obj, sendVars>>

\* The error of the abort is ignored.
AbortFails ==
    /\ pc = "abort"
    /\ up' = 0
    /\ Goto("fresh")
    /\ UNCHANGED <<storeVars, sendVars>>

-----------------------------------------------------------------------------
(* A fresh upload by the SDK's managed uploader: it reads one part; if that*)
(* is not a full one the object is put at once, else in parts.             *)

ReadFirst ==
    /\ pc = "fresh"
    /\ buf' = [buf EXCEPT ![1] = Chunk(1)]
    /\ Goto(IF Len(Chunk(1)) < psize THEN "single" ELSE "create")
    /\ UNCHANGED <<storeVars, up, listed, kept, next, doing, acked, lastRead, err>>

\* The request announces Item.Size, and fails if the body is of another.
PutObject ==
    /\ pc = "single"
    /\ IF Len(buf[1]) = size
       THEN there' = TRUE /\ obj' = buf[1] /\ Leave("done")
       ELSE UNCHANGED <<there, obj>> /\ Leave("failed")
    /\ UNCHANGED <<src, edited, runVars, uploads>>

\* With MaxUploads of them open, the bucket expires the oldest.
CreateUpload ==
    /\ pc = "create"
    /\ LET others == IF Len(uploads) = MaxUploads THEN Tail(uploads) ELSE uploads
       IN  /\ uploads' = Append(others, NoParts)
           /\ up' = Len(others) + 1
    /\ doing' = {1}
    /\ next' = 2
    /\ Goto("stream")
    /\ UNCHANGED <<there, obj, listed, kept, buf, acked, lastRead, err>>

\* Parts are read one after the other and sent side by side.
ReadNext ==
    /\ pc = "stream"
    /\ ~lastRead /\ ~err
    /\ Cardinality(doing) < Concurrency
    /\ lastRead' = (Len(Chunk(next)) < psize)
    /\ IF Chunk(next) = None
       THEN UNCHANGED <<next, doing, buf>>
       ELSE /\ doing' = doing \cup {next}
            /\ buf' = [buf EXCEPT ![next] = Chunk(next)]
            /\ next' = next + 1
    /\ UNCHANGED <<src, edited, storeVars, pc, runVars, up, listed, kept, acked,
                   err>>

-----------------------------------------------------------------------------
(* uploadMissingParts.                                                     *)

\* Mutant: parts that are kept are sent again.
EveryPart == next .. TotalParts

\* The parts the loop still has to start; those that are kept it passes over.
Remaining == (next .. TotalParts) \ kept

\* The next of them is handed to a goroutine once the semaphore admits one.
\* firstErr is read here without synchronisation, so that of a part that failed
\* may not be seen yet.
Spawn ==
    /\ pc = "resume"
    /\ Remaining # {}
    /\ Cardinality(doing) < Concurrency
    /\ doing' = doing \cup {Min(Remaining)}
    /\ next' = Min(Remaining) + 1
    /\ UNCHANGED <<src, edited, storeVars, pc, runVars, up, listed, kept, buf,
                   acked, lastRead, err>>

\* The error is seen: no further part is started.
StopSpawning ==
    /\ pc = "resume"
    /\ err /\ Remaining # {}
    /\ next' = TotalParts + 1
    /\ UNCHANGED <<src, edited, storeVars, pc, runVars, up, listed, kept, doing,
                   buf, acked, lastRead, err>>

\* A goroutine reads its part in full; a source that is now too short for it is
\* an error.
ReadPart(n) ==
    /\ pc = "resume"
    /\ n \in doing /\ buf[n] = None
    /\ IF Len(Portion(n)) = PartBytes(n)
       THEN /\ buf' = [buf EXCEPT ![n] = Portion(n)]
            /\ UNCHANGED <<doing, err>>
       ELSE doing' = doing \ {n} /\ err' = TRUE /\ UNCHANGED buf
    /\ UNCHANGED <<src, edited, storeVars, pc, runVars, up, listed, kept, next,
                   acked, lastRead>>

\* Mutant: the ETag is entered one place too far.
ShiftedSendPart(n) ==
    /\ n \in doing /\ buf[n] # None
    /\ pc \in {"stream", "resume"}
    /\ uploads' = [uploads EXCEPT ![up][n] = buf[n]]
    /\ acked' = acked \cup {n + 1}
    /\ doing' = doing \ {n}
    /\ buf' = [buf EXCEPT ![n] = None]
    /\ UNCHANGED <<src, edited, there, obj, pc, runVars, up, listed, kept,
                   next, lastRead, err>>

\* The store takes a part and its ETag is returned.
SendPart(n) ==
    /\ n \in doing /\ buf[n] # None
    /\ pc \in {"stream", "resume"}
    /\ uploads' = [uploads EXCEPT ![up][n] = buf[n]]
    /\ acked' = acked \cup {n}
    /\ doing' = doing \ {n}
    /\ buf' = [buf EXCEPT ![n] = None]
    /\ UNCHANGED <<src, edited, there, obj, pc, runVars, up, listed, kept,
                   next, lastRead, err>>

\* It could not be read or sent, or only the answer was lost.
PartFails(n) ==
    /\ n \in doing
    /\ pc \in {"stream", "resume"}
    /\ \/ UNCHANGED uploads
       \/ buf[n] # None /\ uploads' = [uploads EXCEPT ![up][n] = buf[n]]
    /\ doing' = doing \ {n}
    /\ buf' = [buf EXCEPT ![n] = None]
    /\ err' = TRUE
    /\ UNCHANGED <<src, edited, there, obj, pc, runVars, up, listed, kept,
                   next, acked, lastRead>>

\* The context is cancelled: the loop notes it as its first error.
LoopCancelled ==
    /\ pc = "resume"
    /\ ~err /\ Remaining # {}
    /\ err' = TRUE
    /\ UNCHANGED <<src, edited, storeVars, pc, runVars, up, listed, kept, next,
                   doing, buf, acked, lastRead>>

AllRead == \/ pc = "resume" /\ Remaining = {}
           \/ pc = "stream" /\ (lastRead \/ err)

\* All goroutines are done and one failed: the upload stays for another run.
GiveUp ==
    /\ AllRead /\ doing = {}
    /\ err
    /\ Leave("failed")
    /\ UNCHANGED <<src, edited, storeVars, runVars>>

\* Mutant: complete is called whether or not a part failed.
CompleteAnyway ==
    /\ AllRead /\ doing = {}
    /\ there' = TRUE
    /\ obj' = Assembled(uploads[up], acked)
    /\ uploads' = RemoveAt(uploads, up)

\* CompleteMultipartUpload: the object is the listed parts, in order.
Complete ==
    /\ AllRead /\ doing = {}
    /\ ~err
    /\ there' = TRUE
    /\ obj' = Assembled(uploads[up], acked)
    /\ uploads' = RemoveAt(uploads, up)

CompleteUpload ==
    /\ Complete
    /\ Leave("done")
    /\ UNCHANGED <<src, edited, runVars>>

\* It fails, or only its answer is lost.
CompleteFails ==
    /\ AllRead /\ doing = {} /\ ~err
    /\ Complete \/ UNCHANGED storeVars
    /\ Leave("failed")
    /\ UNCHANGED <<src, edited, runVars>>

\* Any other call may fail; that of PutObject may have had its effect.
CallFails ==
    /\ pc \in {"find", "list", "match", "fresh", "single", "create"}
    /\ \/ UNCHANGED storeVars
       \/ /\ pc = "single" /\ Len(buf[1]) = size
          /\ there' = TRUE /\ obj' = buf[1] /\ UNCHANGED uploads
    /\ Leave("failed")
    /\ UNCHANGED <<src, edited, runVars>>

Disturbance ==
    \/ EditSource \/ Foul \/ Killed
    \/ StatFails \/ AbortFails \/ CompleteFails \/ CallFails \/ LoopCancelled
    \/ \E n \in PartNos : PartFails(n)

Progressing ==
    \/ Scan \/ Stat \/ FindUpload \/ ListParts \/ MatchPart \/ StartResume
    \/ Abort \/ ReadFirst \/ PutObject \/ CreateUpload \/ ReadNext
    \/ Spawn \/ StopSpawning
    \/ \E n \in PartNos : ReadPart(n) \/ SendPart(n)
    \/ GiveUp \/ CompleteUpload
    \/ NextRun

Next == Disturbance \/ Progressing

Spec == Init /\ [][Next]_vars

\* A run goes on when nothing disturbs it, and the user starts it again.
FairSpec == Spec /\ WF_vars(Progressing)

-----------------------------------------------------------------------------
\* Every variable has its type; no more parts are on their way than Concurrency
\* allows, and the table of completed parts, made for TotalParts of them, is
\* never written out of its bounds.
TypeOK ==
    /\ src \in Versions /\ edited \in BOOLEAN
    /\ there \in BOOLEAN /\ obj \in Seq(Blocks) /\ Len(obj) <= MaxLen
    /\ uploads \in Seq([PartNos -> Seq(Blocks)]) /\ Len(uploads) <= MaxUploads
    /\ buf \in [PartNos -> Seq(Blocks)]
    /\ \A n \in PartNos :
        /\ Len(buf[n]) <= MaxLen
        /\ \A k \in DOMAIN uploads : Len(uploads[k][n]) <= MaxLen
    /\ pc \in Places
    /\ psize \in PartSizes /\ size \in 0 .. MaxLen
    /\ up \in 0 .. Len(uploads)
    /\ listed \cup kept \cup doing \cup acked \subseteq PartNos
    /\ Cardinality(doing) <= Concurrency
    /\ pc = "resume" => acked \subseteq 1 .. TotalParts
    /\ next \in 1 .. MaxLen + 2
    /\ lastRead \in BOOLEAN /\ err \in BOOLEAN

\* Whatever earlier runs left in an upload, a Put that succeeds leaves exactly
\* the source in the object, if nobody edited it during the run.
CopyIsExact == (pc = "done" /\ ~edited) => there /\ obj = src

\* The object is never seen half written: nothing a run does changes it but to
\* the whole source, be it a Put that fails, is killed, or whose answer is lost.
ObjectIsWhole == [][(pc # "down" /\ ~edited) =>
                        <<there', obj'>> \in {<<there, obj>>, <<TRUE, src>>}]_vars

\* "S3 verifies each existing multipart part by checksum and re-uploads only the
\* missing or altered ones" (README): a part that the upload holds with the
\* source's bytes is not sent again.
OnlyMissingSent ==
    (pc = "resume" /\ ~edited) =>
        \A n \in doing : uploads[up][n] # Portion(n)

\* Whatever object and uploads are left over, once nothing disturbs the runs
\* any more they end with an object of the right size.
Heals ==
    <>[][~Disturbance]_vars => <>[](there /\ Len(obj) = Len(src))
=============================================================================
