------------------------------ MODULE FilePut -------------------------------
(***************************************************************************)
(* One item synced to a file by the local and the SFTP backend, over many  *)
(* runs of the program: the scan, the look of the worker at the            *)
(* destination, and Put with its resume of a partial file, which keeps the *)
(* partial only if its bytes are those of the source.                      *)
(*                                                                         *)
(* A file is the sequence of its blocks.  The source may be edited at any  *)
(* moment; between two runs anything may happen to the destination file;   *)
(* and the program may be killed between any two steps.                    *)
(***************************************************************************)
EXTENDS Integers, Sequences

CONSTANTS
    Values,   \* what a block may hold
    MaxLen    \* the length of the longest file

ASSUME FilePutAssumption == Values # {} /\ MaxLen \in Nat

Contents == UNION {[1 .. n -> Values] : n \in 0 .. MaxLen}

VARIABLES
    backend,    \* which of the two backends: "local" or "sftp"
    src,        \* the source file
    there, dst, \* whether the destination file exists, and its blocks
    pc,         \* where the run is: "down" between two runs
    size,       \* Item.Size, as scanned
    start,      \* Put's start
    pos,        \* blocks of the source that were compared, or copied
    same,       \* whether the compared blocks agree so far
    reported,   \* the last count given to progress
    edited,     \* whether the source was edited since the scan
    readError   \* whether Put failed to look at the partial file

vars == <<backend, src, there, dst, pc, size, start, pos, same, reported,
          edited, readError>>
fileVars == <<src, there, dst>>

Putting == {"inspect", "compare", "open", "openSource", "copy"}
Ended   == {"skipped", "done", "failed"}

Init ==
    /\ backend \in {"local", "sftp"}
    /\ src \in Contents
    /\ there \in BOOLEAN /\ dst \in Contents
    /\ ~there => dst = <<>>
    /\ pc = "down"
    /\ size = 0 /\ start = 0 /\ pos = 0 /\ reported = 0
    /\ same = FALSE /\ edited = FALSE /\ readError = FALSE

-----------------------------------------------------------------------------
(* The environment.                                                        *)

EditSource ==
    /\ \E c \in Contents : c # src /\ src' = c
    /\ edited' = TRUE
    /\ UNCHANGED <<backend, there, dst, pc, size, start, pos, same, reported,
                   readError>>

\* What another program, or a disk, does to the destination between two runs.
Foul ==
    /\ pc = "down"
    /\ \/ there' = TRUE /\ dst' \in Contents
       \/ there' = FALSE /\ dst' = <<>>
    /\ UNCHANGED <<backend, src, pc, size, start, pos, same, reported, edited,
                   readError>>

\* The run is over, or killed: what it knew is gone, the files stay.
RunEnds ==
    /\ pc # "down"
    /\ pc' = "down"
    /\ size' = 0 /\ start' = 0 /\ pos' = 0 /\ reported' = 0
    /\ same' = FALSE /\ edited' = FALSE /\ readError' = FALSE
    /\ UNCHANGED <<backend, fileVars>>

Killed  == pc \notin Ended /\ RunEnds
NextRun == pc \in Ended /\ RunEnds

-----------------------------------------------------------------------------
(* A run.                                                                  *)

Scan ==
    /\ pc = "down"
    /\ size' = Len(src)
    /\ edited' = FALSE
    /\ pc' = "stat"
    /\ UNCHANGED <<backend, fileVars, start, pos, same, reported, readError>>

\* The worker's check: a file of the right size is taken for the source.
Stat ==
    /\ pc = "stat"
    /\ pc' = IF there /\ Len(dst) = size THEN "skipped" ELSE "inspect"
    /\ UNCHANGED <<backend, fileVars, size, start, pos, same, reported, edited,
                   readError>>

\* A Stat that fails counts as "not there".
StatFails ==
    /\ pc = "stat"
    /\ there /\ Len(dst) = size
    /\ pc' = "inspect"
    /\ UNCHANGED <<backend, fileVars, size, start, pos, same, reported, edited,
                   readError>>

\* Put looks at what is there: only a shorter file that is not empty is a
\* partial one.
Inspect ==
    /\ pc = "inspect"
    /\ pc' = IF there /\ Len(dst) > 0 /\ Len(dst) < size THEN "compare" ELSE "open"
    /\ same' = TRUE
    /\ UNCHANGED <<backend, fileVars, size, start, pos, reported, edited, readError>>

\* Mutant: the bytes are hashed but the sums not compared.
UncheckedCompareBlock ==
    /\ pc = "compare"
    /\ pos < Len(dst)
    /\ pos' = pos + 1
    /\ UNCHANGED <<backend, fileVars, pc, size, start, same, reported, edited,
                   readError>>

\* partialMatches, block by block: a source that has become shorter than the
\* partial ends the comparison with an error, which counts as a mismatch.
CompareBlock ==
    /\ pc = "compare"
    /\ pos < Len(dst)
    /\ same' = (same /\ pos < Len(src) /\ dst[pos + 1] = src[pos + 1])
    /\ pos' = pos + 1
    /\ UNCHANGED <<backend, fileVars, pc, size, start, reported, edited, readError>>

\* Mutant: a partial that matches is not resumed.
RestartingCompared ==
    /\ pc = "compare"
    /\ pos = Len(dst)
    /\ start' = 0
    /\ pos' = 0
    /\ pc' = "open"
    /\ UNCHANGED <<backend, fileVars, size, same, reported, edited, readError>>

Compared ==
    /\ pc = "compare"
    /\ pos = Len(dst)
    /\ start' = IF same THEN Len(dst) ELSE 0
    /\ pos' = 0
    /\ pc' = "open"
    /\ UNCHANGED <<backend, fileVars, size, same, reported, edited, readError>>

\* The look at the partial fails: Put starts from the beginning.
LookFails ==
    /\ pc \in {"inspect", "compare"}
    /\ pc' = "open"
    /\ start' = 0 /\ pos' = 0
    /\ readError' = TRUE
    /\ UNCHANGED <<backend, fileVars, size, same, reported, edited>>

\* Mutant: the file is never truncated.
OverwritingOpenDest ==
    /\ pc = "open"
    /\ there' = TRUE
    /\ dst' = dst
    /\ pc' = "openSource"
    /\ UNCHANGED <<backend, src, size, start, pos, same, reported, edited, readError>>

\* The destination is opened, and truncated unless a partial is resumed.
OpenDest ==
    /\ pc = "open"
    /\ there' = TRUE
    /\ dst' = IF start > 0 THEN dst ELSE <<>>
    /\ pc' = "openSource"
    /\ UNCHANGED <<backend, src, size, start, pos, same, reported, edited, readError>>

OpenSource ==
    /\ pc = "openSource"
    /\ pos' = start
    /\ pc' = "copy"
    /\ UNCHANGED <<backend, fileVars, size, start, same, reported, edited, readError>>

\* The file with block v written at offset at, as the SFTP backend does; the
\* local one appends.
Written(file, at, v) ==
    IF backend = "local" \/ at = Len(file) THEN Append(file, v)
                                           ELSE [file EXCEPT ![at + 1] = v]

\* A block is counted, reported and written.
CopyBlock ==
    /\ pc = "copy"
    /\ pos < Len(src)
    /\ dst' = Written(dst, pos, src[pos + 1])
    /\ pos' = pos + 1
    /\ reported' = pos + 1
    /\ UNCHANGED <<backend, src, there, pc, size, start, same, edited, readError>>

\* Mutant: the copy stops one block early.
ShortCopyEnds ==
    /\ pc = "copy"
    /\ pos >= Len(src) - 1
    /\ reported' = size
    /\ pc' = "done"
    /\ UNCHANGED <<backend, fileVars, size, start, pos, same, edited, readError>>

\* The source ends, wherever it ends by now.
CopyEnds ==
    /\ pc = "copy"
    /\ pos >= Len(src)
    /\ reported' = size
    /\ pc' = "done"
    /\ UNCHANGED <<backend, fileVars, size, start, pos, same, edited, readError>>

\* Any other step of Put may return its error.
PutFails ==
    /\ pc \in {"inspect", "open", "openSource", "copy"}
    /\ pc' = "failed"
    /\ UNCHANGED <<backend, fileVars, size, start, pos, same, reported, edited,
                   readError>>

Disturbance ==
    EditSource \/ Foul \/ Killed \/ StatFails \/ LookFails \/ PutFails
Progressing == \/ Scan \/ Stat \/ Inspect \/ CompareBlock \/ Compared
               \/ OpenDest \/ OpenSource \/ CopyBlock \/ CopyEnds \/ NextRun

Next == Disturbance \/ Progressing

Spec == Init /\ [][Next]_vars

\* A run goes on when nothing disturbs it, and the user starts it again.
FairSpec == Spec /\ WF_vars(Progressing)

-----------------------------------------------------------------------------
TypeOK ==
    /\ backend \in {"local", "sftp"}
    /\ src \in Contents
    /\ there \in BOOLEAN /\ dst \in Contents
    /\ pc \in {"down", "stat"} \cup Putting \cup Ended
    /\ size \in 0 .. MaxLen /\ start \in 0 .. MaxLen
    /\ pos \in 0 .. MaxLen /\ reported \in 0 .. MaxLen
    /\ same \in BOOLEAN /\ edited \in BOOLEAN /\ readError \in BOOLEAN

Prefix(s, t) == Len(s) <= Len(t) /\ \A k \in 1 .. Len(s) : s[k] = t[k]

\* "A corrupt/divergent partial can't silently produce a bad file" (Put of both
\* backends): whatever an interrupted run, or anything else, left at the
\* destination, a Put that succeeds leaves exactly the source there, if nobody
\* edited the source during the run.
CopyIsExact == (pc = "done" /\ ~edited) => there /\ dst = src

\* A partial that agrees with the source is never thrown away, unless it could
\* not be read (Put of both backends: start is its length).
GoodPartialKept ==
    [][(there /\ Len(dst) \in 1 .. size - 1 /\ Prefix(dst, src) /\ pc # "down"
            /\ ~edited /\ ~readError) => Len(dst') >= Len(dst)]_vars

\* However the destination was left, once nothing disturbs the runs any more
\* they end with a file of the right size there.
Heals ==
    <>[][~Disturbance]_vars => <>[](there /\ Len(dst) = Len(src))
=============================================================================
