--------------------------- MODULE FilePutProofs ----------------------------
(***************************************************************************)
(* For every alphabet of blocks and every length: a Put that succeeds      *)
(* leaves the source at the destination, and a good partial is kept.       *)
(*                                                                         *)
(* The invariant follows a run: what was compared agrees with the source   *)
(* exactly when "same" says so (Comparing), so a partial is resumed exactly*)
(* when it is a prefix of the source (Deciding), and the copy extends a    *)
(* prefix of the source at its end (Copying), wherever it began.           *)
(***************************************************************************)
EXTENDS FilePut, SequenceTheorems, TLAPS

Partial == there /\ Len(dst) \in 1 .. size - 1

Missing == ~there => dst = <<>>

Scanned == (pc # "down" /\ ~edited) => size = Len(src)

Fresh == pc \in {"down", "stat", "inspect", "compare"} => start = 0
Unread == pc \in {"down", "stat", "inspect"} => pos = 0 /\ ~readError

Comparing == pc = "compare" =>
    /\ Partial /\ ~readError
    /\ pos <= Len(dst)
    /\ ~edited => (same <=> \A k \in 1 .. pos : dst[k] = src[k])

Deciding == pc = "open" =>
    /\ start > 0 => there /\ start = Len(dst) /\ (~edited => Prefix(dst, src))
    /\ (Partial /\ ~edited /\ ~readError /\ Prefix(dst, src)) => start = Len(dst)

Opened == pc = "openSource" =>
    there /\ Len(dst) = start /\ (~edited => Prefix(dst, src))

Copying == pc = "copy" =>
    there /\ Len(dst) = pos /\ (~edited => Prefix(dst, src))

Copied == pc = "done" => there /\ (~edited => dst = src)

IInv ==
    /\ TypeOK /\ Missing /\ Scanned /\ Fresh /\ Unread
    /\ Comparing /\ Deciding /\ Opened /\ Copying /\ Copied

-----------------------------------------------------------------------------
\* A file is a sequence of at most MaxLen blocks.
LEMMA ContentsAreSequences ==
    Contents = {s \in Seq(Values) : Len(s) <= MaxLen}
<1>1. ASSUME NEW s \in Contents
      PROVE  s \in Seq(Values) /\ Len(s) <= MaxLen
  <2>1. PICK n \in 0 .. MaxLen : s \in [1 .. n -> Values]
    BY <1>1 DEF Contents
  <2>2. s \in Seq(Values)
    BY <2>1
  <2>3. Len(s) = n
    BY <2>1, <2>2
  <2> QED
    BY <2>1, <2>2, <2>3, FilePutAssumption
<1>2. ASSUME NEW s \in Seq(Values), Len(s) <= MaxLen
      PROVE  s \in Contents
  <2>1. s \in [1 .. Len(s) -> Values] /\ Len(s) \in 0 .. MaxLen
    BY <1>2, FilePutAssumption, LenProperties
  <2> QED
    BY <2>1 DEF Contents
<1> QED
  BY <1>1, <1>2

\* A write at the end of the file, by either backend, appends a block.
LEMMA WrittenAtEnd ==
    ASSUME NEW file \in Seq(Values), NEW v \in Values
    PROVE  Written(file, Len(file), v) = Append(file, v)
BY DEF Written

\* A prefix of a sequence, extended by the next element, is a prefix of it.
LEMMA PrefixGrows ==
    ASSUME NEW s \in Seq(Values), NEW t \in Seq(Values),
           Prefix(s, t), Len(s) < Len(t)
    PROVE  Prefix(Append(s, t[Len(s) + 1]), t)
<1> DEFINE u == Append(s, t[Len(s) + 1])
<1>1. t[Len(s) + 1] \in Values
  BY ElementOfSeq
<1>2. Len(u) = Len(s) + 1 /\ \A k \in 1 .. Len(u) : k <= Len(s) => u[k] = s[k]
  BY <1>1, AppendProperties
<1>3. u[Len(s) + 1] = t[Len(s) + 1]
  BY <1>1, AppendProperties
<1>4. ASSUME NEW k \in 1 .. Len(u) PROVE u[k] = t[k]
  <2>1. CASE k <= Len(s)
    BY <1>2, <2>1 DEF Prefix
  <2>2. CASE k = Len(s) + 1
    BY <1>3, <2>2
  <2> QED
    BY <1>2, <2>1, <2>2
<1> QED
  BY <1>2, <1>4 DEF Prefix

\* A prefix as long as the sequence is the sequence.
LEMMA FullPrefix ==
    ASSUME NEW s \in Seq(Values), NEW t \in Seq(Values),
           Prefix(s, t), Len(s) >= Len(t)
    PROVE  s = t
<1>1. Len(s) = Len(t) /\ \A k \in 1 .. Len(s) : s[k] = t[k]
  BY DEF Prefix
<1> QED
  BY <1>1, SeqEqual

LEMMA EmptyPrefix ==
    ASSUME NEW t \in Seq(Values)
    PROVE  Prefix(<<>>, t) /\ Len(<<>>) = 0 /\ <<>> \in Seq(Values)
BY EmptySeq DEF Prefix

-----------------------------------------------------------------------------
LEMMA Initially == Init => IInv
<1> SUFFICES ASSUME Init PROVE IInv
  OBVIOUS
<1>1. TypeOK
  <2>1. size \in 0 .. MaxLen /\ start \in 0 .. MaxLen
        /\ pos \in 0 .. MaxLen /\ reported \in 0 .. MaxLen
    BY FilePutAssumption DEF Init
  <2>2. same \in BOOLEAN /\ edited \in BOOLEAN /\ readError \in BOOLEAN
    BY Zenon DEF Init
  <2> QED
    BY <2>1, <2>2 DEF Init, TypeOK
<1> QED
  BY <1>1 DEF Init, IInv, Missing, Scanned, Fresh, Unread, Comparing,
              Deciding, Opened, Copying, Copied

\* Every step of a run, and of what disturbs it, preserves the invariant.
LEMMA Inductive == IInv /\ [Next]_vars => IInv'
<1> SUFFICES ASSUME IInv, [Next]_vars PROVE IInv'
  OBVIOUS
<1> USE FilePutAssumption DEF fileVars
<1>t. /\ TypeOK
      /\ src \in Seq(Values) /\ Len(src) <= MaxLen /\ Len(src) \in Nat
      /\ dst \in Seq(Values) /\ Len(dst) <= MaxLen /\ Len(dst) \in Nat
      /\ <<>> \in Contents
  BY ContentsAreSequences, EmptyPrefix, LenProperties DEF IInv, TypeOK
<1>1. CASE EditSource
  BY <1>t, <1>1
     DEF IInv, TypeOK, Missing, Scanned, Fresh, Unread, Comparing, Deciding,
         Opened, Copying, Copied, Partial, Putting, Ended, EditSource
<1>2. CASE Foul
  <2>1. TypeOK'
    <3>1. /\ backend' \in {"local", "sftp"} /\ src' \in Contents
          /\ there' \in BOOLEAN /\ dst' \in Contents
      BY <1>t, <1>2 DEF TypeOK, Foul
    <3>2. /\ pc' \in {"down", "stat"} \cup Putting \cup Ended
          /\ size' \in 0 .. MaxLen /\ start' \in 0 .. MaxLen
          /\ pos' \in 0 .. MaxLen /\ reported' \in 0 .. MaxLen
      BY <1>t, <1>2 DEF TypeOK, Foul
    <3>3. same' \in BOOLEAN /\ edited' \in BOOLEAN /\ readError' \in BOOLEAN
      BY <1>t, <1>2, Zenon DEF TypeOK, Foul
    <3> QED
      BY <3>1, <3>2, <3>3 DEF TypeOK
  <2>2. (Missing /\ Scanned /\ Fresh /\ Unread)'
    BY <1>t, <1>2 DEF IInv, TypeOK, Missing, Scanned, Fresh, Unread, Foul
  <2>3. (Comparing /\ Deciding /\ Opened /\ Copying /\ Copied)'
    BY <1>2 DEF Comparing, Deciding, Opened, Copying, Copied, Foul
  <2> QED
    BY <2>1, <2>2, <2>3 DEF IInv
<1>3. CASE RunEnds
  <2>1. TypeOK'
    <3>1. /\ backend' \in {"local", "sftp"} /\ src' \in Contents
          /\ there' \in BOOLEAN /\ dst' \in Contents
      BY <1>t, <1>3 DEF TypeOK, RunEnds
    <3>2. /\ pc' \in {"down", "stat"} \cup Putting \cup Ended
          /\ size' \in 0 .. MaxLen /\ start' \in 0 .. MaxLen
          /\ pos' \in 0 .. MaxLen /\ reported' \in 0 .. MaxLen
      BY <1>t, <1>3 DEF TypeOK, RunEnds
    <3>3. same' \in BOOLEAN /\ edited' \in BOOLEAN /\ readError' \in BOOLEAN
      BY <1>t, <1>3, Zenon DEF TypeOK, RunEnds
    <3> QED
      BY <3>1, <3>2, <3>3 DEF TypeOK
  <2>2. (Missing /\ Scanned /\ Fresh /\ Unread)'
    BY <1>t, <1>3 DEF IInv, TypeOK, Missing, Scanned, Fresh, Unread, RunEnds
  <2>3. (Comparing /\ Deciding /\ Opened /\ Copying /\ Copied)'
    BY <1>3 DEF Comparing, Deciding, Opened, Copying, Copied, RunEnds
  <2> QED
    BY <2>1, <2>2, <2>3 DEF IInv
<1>4. CASE Scan
  <2>1. TypeOK'
    <3>1. /\ backend' \in {"local", "sftp"} /\ src' \in Contents
          /\ there' \in BOOLEAN /\ dst' \in Contents
      BY <1>t, <1>4 DEF TypeOK, Scan
    <3>2. /\ pc' \in {"down", "stat"} \cup Putting \cup Ended
          /\ size' \in 0 .. MaxLen /\ start' \in 0 .. MaxLen
          /\ pos' \in 0 .. MaxLen /\ reported' \in 0 .. MaxLen
      BY <1>t, <1>4 DEF TypeOK, Scan
    <3>3. same' \in BOOLEAN /\ edited' \in BOOLEAN /\ readError' \in BOOLEAN
      BY <1>t, <1>4, Zenon DEF TypeOK, Scan
    <3> QED
      BY <3>1, <3>2, <3>3 DEF TypeOK
  <2>2. (Missing /\ Scanned /\ Fresh /\ Unread)'
    BY <1>t, <1>4 DEF IInv, TypeOK, Missing, Scanned, Fresh, Unread, Scan
  <2>3. (Comparing /\ Deciding /\ Opened /\ Copying /\ Copied)'
    BY <1>4 DEF Comparing, Deciding, Opened, Copying, Copied, Scan
  <2> QED
    BY <2>1, <2>2, <2>3 DEF IInv
<1>5. CASE Stat
  BY <1>t, <1>5
     DEF IInv, TypeOK, Missing, Scanned, Fresh, Unread, Comparing, Deciding,
         Opened, Copying, Copied, Partial, Putting, Ended, Stat
<1>6. CASE StatFails
  BY <1>t, <1>6
     DEF IInv, TypeOK, Missing, Scanned, Fresh, Unread, Comparing, Deciding,
         Opened, Copying, Copied, Partial, Putting, Ended, StatFails
<1>7. CASE Inspect
  BY <1>t, <1>7
     DEF IInv, TypeOK, Missing, Scanned, Fresh, Unread, Comparing, Deciding,
         Opened, Copying, Copied, Partial, Putting, Ended, Inspect
<1>8. CASE CompareBlock
  BY <1>t, <1>8
     DEF IInv, TypeOK, Missing, Scanned, Fresh, Unread, Comparing, Deciding,
         Opened, Copying, Copied, Partial, Putting, Ended, CompareBlock
<1>9. CASE Compared
  <2>1. ~edited => (same <=> Prefix(dst, src))
    BY <1>t, <1>9 DEF IInv, TypeOK, Scanned, Comparing, Partial, Prefix, Compared
  <2> QED
    BY <1>t, <1>9, <2>1
       DEF IInv, TypeOK, Missing, Scanned, Fresh, Unread, Comparing, Deciding,
           Opened, Copying, Copied, Partial, Putting, Ended, Compared
<1>10. CASE LookFails
  BY <1>t, <1>10
     DEF IInv, TypeOK, Missing, Scanned, Fresh, Unread, Comparing, Deciding,
         Opened, Copying, Copied, Partial, Putting, Ended, LookFails
<1>11. CASE OpenDest
  <2>1. Prefix(<<>>, src) /\ Len(<<>>) = 0
    BY <1>t, EmptyPrefix
  <2> QED
    BY <1>t, <1>11, <2>1
       DEF IInv, TypeOK, Missing, Scanned, Fresh, Unread, Comparing, Deciding,
           Opened, Copying, Copied, Partial, Putting, Ended, OpenDest
<1>12. CASE OpenSource
  BY <1>t, <1>12
     DEF IInv, TypeOK, Missing, Scanned, Fresh, Unread, Comparing, Deciding,
         Opened, Copying, Copied, Partial, Putting, Ended, OpenSource
<1>13. CASE CopyBlock
  <2>1. src[pos + 1] \in Values
    BY <1>t, <1>13, ElementOfSeq DEF IInv, TypeOK, CopyBlock
  <2>2. there /\ Len(dst) = pos /\ dst' = Append(dst, src[pos + 1])
    BY <1>t, <1>13, <2>1, WrittenAtEnd DEF IInv, Copying, CopyBlock
  <2>3. dst' \in Seq(Values) /\ Len(dst') = pos + 1
    BY <1>t, <2>1, <2>2, AppendProperties
  <2>4. dst' \in Contents
    BY <1>t, <1>13, <2>2, <2>3, ContentsAreSequences DEF CopyBlock
  <2>5. ~edited => Prefix(dst', src)
    BY <1>t, <1>13, <2>2, PrefixGrows DEF IInv, Copying, CopyBlock
  <2> QED
    BY <1>t, <1>13, <2>2, <2>3, <2>4, <2>5
       DEF IInv, TypeOK, Missing, Scanned, Fresh, Unread, Comparing, Deciding,
           Opened, Copying, Copied, Partial, Putting, Ended, CopyBlock
<1>14. CASE CopyEnds
  <2>1. there /\ (~edited => dst = src)
    BY <1>t, <1>14, FullPrefix DEF IInv, Copying, CopyEnds
  <2> QED
    BY <1>t, <1>14, <2>1
       DEF IInv, TypeOK, Missing, Scanned, Fresh, Unread, Comparing, Deciding,
           Opened, Copying, Copied, Partial, Putting, Ended, CopyEnds
<1>15. CASE PutFails
  BY <1>t, <1>15
     DEF IInv, TypeOK, Missing, Scanned, Fresh, Unread, Comparing, Deciding,
         Opened, Copying, Copied, Partial, Putting, Ended, PutFails
<1>16. CASE UNCHANGED vars
  BY <1>16 DEF vars, IInv, TypeOK, Missing, Scanned, Fresh, Unread, Comparing,
               Deciding, Opened, Copying, Copied, Partial, Prefix
<1> QED
  BY <1>1, <1>2, <1>3, <1>4, <1>5, <1>6, <1>7, <1>8, <1>9, <1>10, <1>11, <1>12, <1>13, <1>14, <1>15, <1>16 DEF Next, Disturbance,
     Progressing, Killed, NextRun

LEMMA Invariant == Spec => []IInv
<1> QED
  BY Initially, Inductive, PTL DEF Spec

\* The state of a Put keeps its types: in particular the destination never
\* grows beyond the longest file.
THEOREM PutTypes == Spec => []TypeOK
<1>1. IInv => TypeOK
  BY DEF IInv
<1> QED
  BY <1>1, Invariant, PTL

\* "A corrupt/divergent partial can't silently produce a bad file": a Put that
\* succeeds leaves exactly the source, whatever was there before, for files of
\* any length and over any number of interrupted runs.
THEOREM PutCopiesExactly == Spec => []CopyIsExact
<1>1. IInv => CopyIsExact
  BY DEF IInv, Copied, CopyIsExact
<1> QED
  BY <1>1, Invariant, PTL

\* The bytes an interrupted run transferred are not sent again: while a run
\* lasts the destination only loses blocks that do not agree with the source.
THEOREM PartialsAreKept == Spec => GoodPartialKept
<1> DEFINE Good == /\ there /\ Len(dst) \in 1 .. size - 1 /\ Prefix(dst, src)
                   /\ pc # "down" /\ ~edited /\ ~readError
<1>1. ASSUME IInv, [Next]_vars, Good PROVE Len(dst') >= Len(dst)
  <2>1. dst \in Seq(Values) /\ src \in Seq(Values) /\ Len(dst) \in Nat
    BY <1>1, ContentsAreSequences, LenProperties DEF IInv, TypeOK
  <2>2. CASE OpenDest
    BY <1>1, <2>1, <2>2 DEF IInv, Deciding, Partial, OpenDest
  <2>3. CASE CopyBlock
    <3>1. src[pos + 1] \in Values
      BY <1>1, <2>1, <2>3, ElementOfSeq, LenProperties
         DEF IInv, TypeOK, CopyBlock
    <3>2. dst' = Append(dst, src[pos + 1])
      BY <1>1, <2>1, <2>3, <3>1, WrittenAtEnd DEF IInv, Copying, CopyBlock
    <3> QED
      BY <2>1, <3>1, <3>2, AppendProperties
  <2>4. CASE ~OpenDest /\ ~CopyBlock
    <3>1. dst' = dst
      BY <1>1, <2>4
         DEF Next, Disturbance, Progressing, Killed, NextRun, vars, fileVars,
             EditSource, Foul, RunEnds, Scan, Stat, StatFails, Inspect,
             CompareBlock, Compared, LookFails, OpenSource, CopyEnds, PutFails
    <3> QED
      BY <2>1, <3>1
  <2> QED
    BY <2>2, <2>3, <2>4
<1>2. IInv /\ [Next]_vars => [Good => Len(dst') >= Len(dst)]_vars
  BY <1>1
<1> QED
  BY <1>2, Invariant, PTL DEF Spec, GoodPartialKept
=============================================================================
