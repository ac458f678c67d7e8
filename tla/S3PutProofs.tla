----------------------------- MODULE S3PutProofs ------------------------------
(***************************************************************************)
(* For every alphabet of blocks, every length and all part sizes: a Put to *)
(* S3 that succeeds leaves exactly the source in the object, whatever      *)
(* earlier runs left in the bucket, and nobody sees a half-written object. *)
(*                                                                         *)
(* The invariant follows a part from the read to its ETag: what is entered *)
(* as completed is, in the upload, the part of the source (Resuming,       *)
(* Streaming), and without an error the completed parts are all of them.   *)
(* That these, joined, are the source is by induction over the parts       *)
(* (JoinedExact), which WFMin gives: the first part where it fails is none.*)
(***************************************************************************)
EXTENDS S3Put, SequenceTheorems, FiniteSetTheorems, WellFoundedInduction, TLAPS

Scanned == (pc # "down" /\ ~edited) => size = Len(src)

Working == pc \in {"list", "match", "abort", "stream", "resume"} <=> up # 0

Unstarted == pc \notin {"stream", "resume"} =>
    next = 1 /\ doing = {} /\ acked = {} /\ lastRead = FALSE /\ err = FALSE

Unlisted ==
    /\ pc # "match" => listed = {}
    /\ pc \notin {"match", "resume"} => kept = {}

\* The parts an upload may hold: each was cut with one of the part sizes.
AnyParts == {p \in [PartNos -> Seq(Blocks)] : \A n \in PartNos :
    /\ Len(p[n]) <= MaxLen
    /\ p[n] # None => \E q \in PartSizes : (n - 1) * q < MaxLen}

FlagTypes   == {edited, there, lastRead, err} \subseteq BOOLEAN
FileTypes   == src \in Versions /\ obj \in Seq(Blocks) /\ Len(obj) <= MaxLen
RunTypes    == /\ pc \in Places /\ psize \in PartSizes /\ size \in 0 .. MaxLen
               /\ next \in 1 .. MaxLen + 2
UploadTypes == /\ uploads \in Seq(AnyParts) /\ Len(uploads) <= MaxUploads
               /\ up \in 0 .. Len(uploads)
PartTypes   == /\ listed \cup kept \cup doing \cup acked \subseteq PartNos
               /\ Cardinality(doing) <= Concurrency
BufferTypes == /\ buf \in [PartNos -> Seq(Blocks)]
               /\ \A n \in PartNos : Len(buf[n]) <= MaxLen
               /\ \A n \in PartNos : buf[n] # None =>
                    /\ (n - 1) * psize < MaxLen
                    /\ n \in doing \/ (n = 1 /\ pc \in {"single", "create"})

Types == FlagTypes /\ FileTypes /\ RunTypes /\ UploadTypes /\ PartTypes /\ BufferTypes

\* One answer of ListParts names every part.
OnePage == \A n \in PartNos, q \in PartSizes : (n - 1) * q < MaxLen => n <= Page

First ==
    /\ pc = "single" => Len(buf[1]) < psize /\ (~edited => buf[1] = src)
    /\ pc = "create" => Len(buf[1]) = psize /\ (~edited => buf[1] = Chunk(1))

\* b is what a resumed Put sends or keeps as part n.
IsPortion(n, b) == Len(b) = PartBytes(n) /\ (~edited => b = Portion(n))

\* Nothing that matches the source is to be sent.
Differ(ns) == (OnePage /\ ~edited) => \A n \in ns : uploads[up][n] # Portion(n)

Matching == pc = "match" =>
    /\ kept \subseteq 1 .. TotalParts
    /\ \A n \in kept : IsPortion(n, uploads[up][n])
    /\ Differ((1 .. TotalParts) \ (listed \cup kept))

Resuming == pc = "resume" =>
    /\ next <= TotalParts + 1 /\ acked \subseteq 1 .. TotalParts
    /\ kept \subseteq acked /\ acked \subseteq kept \cup (1 .. next - 1)
    /\ doing \subseteq (1 .. next - 1)
    /\ ~err => 1 .. next - 1 \subseteq doing \cup acked
    /\ \A n \in acked : IsPortion(n, uploads[up][n])
    /\ \A n \in doing : buf[n] # None => IsPortion(n, buf[n])
    /\ Differ(doing \cup Remaining)

\* b is what the managed uploader sends as part n: a full part but the last.
IsChunk(n, b) ==
    /\ Len(b) \in 1 .. psize /\ (n - 1) * psize + Len(b) <= MaxLen
    /\ (n < next - 1 \/ ~lastRead) => Len(b) = psize
    /\ ~edited => b = Chunk(n)

Streaming == pc = "stream" =>
    /\ next >= 2 /\ (next - 2) * psize < MaxLen
    /\ doing \cup acked \subseteq 1 .. next - 1
    /\ ~err => 1 .. next - 1 \subseteq doing \cup acked
    /\ \A n \in acked : IsChunk(n, uploads[up][n])
    /\ \A n \in doing : IsChunk(n, buf[n])
    /\ (lastRead /\ ~edited) => (next - 1) * psize >= Len(src)

IInv ==
    /\ Types /\ Scanned /\ Working /\ Unstarted /\ Unlisted
    /\ First /\ Matching /\ Resuming /\ Streaming /\ CopyIsExact

-----------------------------------------------------------------------------

\* Induction over the numbers up to m: the first one outside S is none.
LEMMA Climb ==
    ASSUME NEW m \in Nat, NEW S, 0 \in S,
           \A n \in 0 .. m : (n > 0 /\ n - 1 \in S) => n \in S
    PROVE  \A n \in 0 .. m : n \in S
<1> SUFFICES ASSUME (0 .. m) \ S # {} PROVE FALSE
  OBVIOUS
<1>1. PICK x \in (0 .. m) \ S : \A y \in (0 .. m) \ S : ~ (<<y, x>> \in OpToRel(<, Nat))
  <2>1. (0 .. m) \ S \subseteq Nat
    OBVIOUS
  <2> QED
    BY <2>1, NatLessThanWellFounded, WFMin
<1>2. \A y \in (0 .. m) \ S : ~(y < x)
  <2> SUFFICES ASSUME NEW y \in (0 .. m) \ S, y < x PROVE FALSE
    OBVIOUS
  <2>1. y \in Nat /\ x \in Nat
    OBVIOUS
  <2>2. <<y, x>> \in OpToRel(<, Nat)
    BY <2>1 DEF OpToRel
  <2> QED
    BY <1>1, <2>2
<1>3. x # 0 /\ x \in Nat
  OBVIOUS
<1>4. x - 1 \in 0 .. m /\ x - 1 < x
  BY <1>3
<1> QED
  BY <1>2, <1>3, <1>4

LEMMA Min2 ==
    ASSUME NEW a \in Int, NEW b \in Int
    PROVE  Min({a, b}) = IF a <= b THEN a ELSE b
<1> DEFINE x == IF a <= b THEN a ELSE b
<1>1. x \in {a, b} /\ \A y \in {a, b} : x =< y
  OBVIOUS
<1>2. \A z \in {a, b} : (\A y \in {a, b} : z =< y) => z = x
  OBVIOUS
<1>3. Min({a, b}) \in {a, b} /\ \A y \in {a, b} : Min({a, b}) =< y
  BY <1>1 DEF Min
<1> QED
  BY <1>2, <1>3

LEMMA MinIs ==
    ASSUME NEW S \in SUBSET Nat, S # {}
    PROVE  Min(S) \in S /\ \A y \in S : Min(S) =< y
<1>1. PICK x \in S : \A y \in S : ~ (<<y, x>> \in OpToRel(<, Nat))
  BY NatLessThanWellFounded, WFMin
<1>2. \A y \in S : x =< y
  <2> SUFFICES ASSUME NEW y \in S, y < x PROVE FALSE
    OBVIOUS
  <2>2. <<y, x>> \in OpToRel(<, Nat)
    BY DEF OpToRel
  <2> QED
    BY <1>1, <2>2
<1> QED
  BY <1>2 DEF Min

-----------------------------------------------------------------------------
(* What is joined, part by part.                                           *)

Steps == 0 .. MaxLen + 1

TakesUp(f, p, ns) ==
    f = [n \in Steps |-> IF n = 0 THEN <<>>
            ELSE IF n \in ns THEN f[n - 1] \o p[n] ELSE f[n - 1]]

\* A function that takes up the parts one by one exists up to any of them.
LEMMA JoinExists ==
    ASSUME NEW p \in [PartNos -> Seq(Blocks)], NEW ns
    PROVE  \E f : TakesUp(f, p, ns)
<1> DEFINE Fits(f, m) == \A n \in 0 .. m : f[n] = IF n = 0 THEN <<>>
                    ELSE IF n \in ns THEN f[n - 1] \o p[n] ELSE f[n - 1]
           S == {m \in Steps : \E f \in [Steps -> Seq(Blocks)] : Fits(f, m)}
<1>0. MaxLen + 1 \in Nat
  BY S3PutAssumption
<1>1. 0 \in S
  <2>1. [n \in Steps |-> <<>>] \in [Steps -> Seq(Blocks)]
    BY EmptySeq
  <2>2. 0 \in Steps
    BY <1>0 DEF Steps
  <2>3. Fits([n \in Steps |-> <<>>], 0)
    BY <2>2
  <2> HIDE DEF Fits
  <2> QED
    BY <2>1, <2>2, <2>3
<1>2. ASSUME NEW m \in 0 .. MaxLen + 1, m > 0, m - 1 \in S
      PROVE  m \in S
  <2>1. PICK f \in [Steps -> Seq(Blocks)] : Fits(f, m - 1)
    BY <1>2
  <2> DEFINE v == IF m \in ns THEN f[m - 1] \o p[m] ELSE f[m - 1]
             g == [f EXCEPT ![m] = v]
  <2>2. m \in PartNos /\ m \in Steps /\ m - 1 \in Steps
    BY <1>0, <1>2 DEF PartNos, Steps
  <2>3. f[m - 1] \in Seq(Blocks) /\ p[m] \in Seq(Blocks)
    BY <2>1, <2>2
  <2>4. f[m - 1] \o p[m] \in Seq(Blocks)
    BY <2>3, ConcatProperties
  <2>5. g \in [Steps -> Seq(Blocks)]
    BY <2>2, <2>3, <2>4
  <2>6. g[m] = v /\ \A n \in Steps : n # m => g[n] = f[n]
    BY <2>1, <2>2
  <2>7. ASSUME NEW n \in 0 .. m
        PROVE  g[n] = IF n = 0 THEN <<>>
                    ELSE IF n \in ns THEN g[n - 1] \o p[n] ELSE g[n - 1]
    <3>1. CASE n = m
      <4>1. g[m - 1] = f[m - 1] /\ m # 0
        BY <1>2, <2>2, <2>6
      <4> QED
        BY <3>1, <4>1, <2>6
    <3>2. CASE n # m
      <4>1. n \in 0 .. m - 1 /\ n \in Steps /\ n - 1 # m /\ (n # 0 => n - 1 \in Steps)
        BY <1>0, <1>2, <3>2 DEF Steps
      <4>2. g[n] = f[n] /\ (n # 0 => g[n - 1] = f[n - 1])
        BY <2>6, <4>1, <3>2
      <4>3. f[n] = IF n = 0 THEN <<>>
                    ELSE IF n \in ns THEN f[n - 1] \o p[n] ELSE f[n - 1]
        BY <2>1, <4>1
      <4> QED
        BY <4>2, <4>3
    <3> QED
      BY <3>1, <3>2
  <2> HIDE DEF g
  <2> QED
    BY <2>2, <2>5, <2>7
<1> HIDE DEF S
<1>3. MaxLen + 1 \in S
  <2>1. \A n \in 0 .. MaxLen + 1 : n \in S
    BY <1>0, <1>1, <1>2, Climb
  <2> QED
    BY <1>0, <2>1
<1>4. PICK f \in [Steps -> Seq(Blocks)] : Fits(f, MaxLen + 1)
  BY <1>3 DEF S
<1>5. f = [n \in Steps |-> f[n]]
  OBVIOUS
<1>6. \A n \in Steps : f[n] = IF n = 0 THEN <<>>
                    ELSE IF n \in ns THEN f[n - 1] \o p[n] ELSE f[n - 1]
  BY <1>4 DEF Steps
<1>7. TakesUp(f, p, ns)
  BY <1>5, <1>6 DEF TakesUp
<1> QED
  BY <1>7

\* Joined takes up the parts ns one after the other.
LEMMA JoinedIs ==
    ASSUME NEW p \in [PartNos -> Seq(Blocks)], NEW ns
    PROVE  /\ Joined(p, ns)[0] = <<>>
           /\ \A n \in PartNos :
                Joined(p, ns)[n] = IF n \in ns THEN Joined(p, ns)[n - 1] \o p[n]
                                   ELSE Joined(p, ns)[n - 1]
           /\ \A n \in Steps : Joined(p, ns)[n] \in Seq(Blocks)
<1> DEFINE J == Joined(p, ns)
<1>0. MaxLen + 1 \in Nat
  BY S3PutAssumption
<1>1. J = CHOOSE f : TakesUp(f, p, ns)
  BY DEF Joined, Steps, TakesUp
<1> HIDE DEF J
<1>2. TakesUp(J, p, ns)
  BY <1>1, JoinExists
<1>3. J[0] = <<>> /\ \A n \in PartNos : J[n] = IF n \in ns THEN J[n - 1] \o p[n] ELSE J[n - 1]
  <2>1. 0 \in Steps /\ PartNos \subseteq Steps /\ 0 \notin PartNos
    BY <1>0 DEF Steps, PartNos
  <2> QED
    BY <1>2, <2>1 DEF TakesUp
<1> DEFINE S == {n \in Steps : J[n] \in Seq(Blocks)}
<1>4. 0 \in S
  <2>1. 0 \in Steps /\ <<>> \in Seq(Blocks)
    BY <1>0, EmptySeq DEF Steps
  <2> QED
    BY <1>3, <2>1
<1>5. ASSUME NEW n \in 0 .. MaxLen + 1, n > 0, n - 1 \in S
      PROVE  n \in S
  <2>1. n \in PartNos /\ n \in Steps
    BY <1>0, <1>5 DEF PartNos, Steps
  <2>2. J[n - 1] \in Seq(Blocks) /\ p[n] \in Seq(Blocks)
    BY <1>5, <2>1
  <2>3. J[n - 1] \o p[n] \in Seq(Blocks)
    BY <2>2, ConcatProperties
  <2> QED
    BY <1>3, <2>1, <2>2, <2>3
<1> HIDE DEF S
<1>6. \A n \in 0 .. MaxLen + 1 : n \in S
  BY <1>0, <1>4, <1>5, Climb
<1> QED
  BY <1>3, <1>6 DEF S, J, Steps

\* The parts 1 .. m joined are what is joined when the m-th is taken up.
LEMMA JoinedEnd ==
    ASSUME NEW p \in [PartNos -> Seq(Blocks)], NEW m \in Steps
    PROVE  /\ Assembled(p, 1 .. m) = Joined(p, 1 .. m)[m]
           /\ Assembled(p, 1 .. m) \in Seq(Blocks)
<1> DEFINE J == Joined(p, 1 .. m)
           S == {n \in Steps : n >= m => J[n] = J[m]}
<1>0. MaxLen + 1 \in Nat /\ m \in 0 .. MaxLen + 1
  BY S3PutAssumption DEF Steps
<1>1. /\ J[0] = <<>>
      /\ \A n \in PartNos : J[n] = IF n \in 1 .. m THEN J[n - 1] \o p[n]
                                   ELSE J[n - 1]
      /\ \A n \in Steps : J[n] \in Seq(Blocks)
  BY JoinedIs
<1> HIDE DEF J
<1>2. 0 \in S
  BY <1>0 DEF Steps
<1>3. ASSUME NEW n \in 0 .. MaxLen + 1, n > 0, n - 1 \in S
      PROVE  n \in S
  <2>1. n \in PartNos /\ n \in Steps
    BY <1>0, <1>3 DEF PartNos, Steps
  <2>2. CASE n <= m
    BY <1>0, <2>1, <2>2
  <2>3. CASE n > m
    <3>1. n \notin 1 .. m /\ n - 1 >= m
      BY <1>0, <2>3
    <3> QED
      BY <1>1, <1>3, <2>1, <3>1
  <2> QED
    BY <1>0, <2>2, <2>3
<1> HIDE DEF S
<1>4. \A n \in 0 .. MaxLen + 1 : n \in S
  BY <1>0, <1>2, <1>3, Climb
<1>5. MaxLen + 1 \in Steps /\ MaxLen + 1 >= m /\ MaxLen + 1 \in S
  BY <1>0, <1>4 DEF Steps
<1> QED
  BY <1>1, <1>5 DEF S, Assembled, J

\* The length of full parts and a last one.
LEMMA JoinedLength ==
    ASSUME NEW p \in [PartNos -> Seq(Blocks)], NEW m \in PartNos, NEW q \in Nat,
           \A n \in 1 .. m - 1 : Len(p[n]) = q
    PROVE  Len(Assembled(p, 1 .. m)) = (m - 1) * q + Len(p[m])
<1> DEFINE J == Joined(p, 1 .. m)
           S == {n \in 0 .. m - 1 : Len(J[n]) = n * q}
<1>0. MaxLen + 1 \in Nat /\ m \in 1 .. MaxLen + 1 /\ m - 1 \in Nat
  BY S3PutAssumption DEF PartNos
<1>1. /\ J[0] = <<>>
      /\ \A n \in PartNos : n \in 1 .. m => J[n] = J[n - 1] \o p[n]
      /\ \A n \in Steps : J[n] \in Seq(Blocks)
  BY JoinedIs
<1> HIDE DEF J
<1>2. ASSUME NEW n \in 1 .. m
      PROVE  Len(J[n]) = Len(J[n - 1]) + Len(p[n])
  <2>1. n \in PartNos /\ n - 1 \in Steps
    BY <1>0 DEF PartNos, Steps
  <2>2. J[n - 1] \in Seq(Blocks) /\ p[n] \in Seq(Blocks)
    BY <1>1, <2>1
  <2> QED
    BY <1>1, <2>1, <2>2, ConcatProperties
<1>3. 0 \in S
  BY <1>0, <1>1, EmptySeq
<1>4. ASSUME NEW n \in 0 .. m - 1, n > 0, n - 1 \in S
      PROVE  n \in S
  <2>1. n \in 1 .. m /\ n \in 1 .. m - 1 /\ n \in Nat
    BY <1>0, <1>4
  <2>2. Len(J[n]) = (n - 1) * q + q
    BY <1>2, <1>4, <2>1
  <2>3. (n - 1) * q + q = n * q
    BY <2>1
  <2> QED
    BY <2>1, <2>2, <2>3
<1> HIDE DEF S
<1>5. \A n \in 0 .. m - 1 : n \in S
  BY <1>0, <1>3, <1>4, Climb
<1>6. Len(J[m - 1]) = (m - 1) * q
  BY <1>0, <1>5 DEF S
<1>7. m \in 1 .. m /\ m \in Steps
  BY <1>0 DEF Steps
<1>8. Len(J[m]) = (m - 1) * q + Len(p[m])
  BY <1>2, <1>6, <1>7
<1> QED
  BY <1>7, <1>8, JoinedEnd DEF J

\* Part n of the sequence s, cut into parts of q blocks.
Cut(s, n, q) == SubSeq(s, (n - 1) * q + 1, Min({(n - 1) * q + q, Len(s)}))

\* A sequence cut into parts and joined again is that sequence.
LEMMA JoinedExact ==
    ASSUME NEW p \in [PartNos -> Seq(Blocks)], NEW s \in Seq(Blocks),
           NEW m \in Steps, NEW q \in Nat, m * q >= Len(s),
           \A n \in 1 .. m : p[n] = Cut(s, n, q)
    PROVE  Assembled(p, 1 .. m) = s
<1> DEFINE J == Joined(p, 1 .. m)
           upTo(k) == IF k <= Len(s) THEN k ELSE Len(s)
           S == {n \in 0 .. m : J[n] = SubSeq(s, 1, upTo(n * q))}
<1>0. MaxLen + 1 \in Nat /\ m \in 0 .. MaxLen + 1 /\ m \in Nat /\ Len(s) \in Nat
  BY S3PutAssumption, LenProperties DEF Steps
<1>1. /\ J[0] = <<>>
      /\ \A n \in PartNos : n \in 1 .. m => J[n] = J[n - 1] \o p[n]
      /\ \A n \in Steps : J[n] \in Seq(Blocks)
  BY JoinedIs
<1> HIDE DEF J
<1>3. 0 \in S
  <2>1. SubSeq(s, 1, 0) = <<>>
    BY SubSeqEmpty
  <2>2. upTo(0 * q) = 0 /\ 0 \in 0 .. m
    BY <1>0
  <2> QED
    BY <1>1, <2>1, <2>2
<1>4. ASSUME NEW n \in 0 .. m, n > 0, n - 1 \in S
      PROVE  n \in S
  <2> DEFINE lo == (n - 1) * q
  <2>1. n \in 1 .. m /\ n \in PartNos /\ n - 1 \in Nat /\ n \in Steps /\ n - 1 \in Steps
    BY <1>0, <1>4 DEF PartNos, Steps
  <2>2. lo \in Nat /\ n * q = lo + q
    BY <2>1
  <2>3. p[n] = SubSeq(s, lo + 1, upTo(lo + q))
    <3>1. lo + q \in Int /\ Len(s) \in Int
      BY <1>0, <2>2
    <3>2. Min({lo + q, Len(s)}) = upTo(lo + q)
      BY <3>1, Min2
    <3> QED
      BY <2>1, <3>2 DEF Cut
  <2>4. J[n - 1] = SubSeq(s, 1, upTo(lo))
    BY <1>4
  <2>5. J[n] = J[n - 1] \o p[n]
    BY <1>1, <2>1
  <2> HIDE DEF lo
  <2>6. CASE lo <= Len(s)
    <3>1. upTo(lo) = lo /\ upTo(lo + q) \in lo .. Len(s) /\ lo \in 0 .. Len(s)
      BY <1>0, <2>2, <2>6
    <3>2. SubSeq(s, 1, lo) \o SubSeq(s, lo + 1, upTo(lo + q)) = SubSeq(s, 1, upTo(lo + q))
      <4> HIDE DEF upTo
      <4>1. 1 \in 1 .. Len(s) + 1 /\ lo \in 1 - 1 .. Len(s)
        BY <1>0, <3>1
      <4> QED
        BY <3>1, <4>1, ConcatAdjacentSubSeq
    <3> QED
      BY <2>1, <2>2, <2>3, <2>4, <2>5, <3>1, <3>2
  <2>7. CASE lo > Len(s)
    <3>1. upTo(lo) = Len(s) /\ upTo(lo + q) = Len(s)
      BY <1>0, <2>2, <2>7
    <3>2. SubSeq(s, lo + 1, Len(s)) = <<>>
      BY <1>0, <2>2, <2>7, SubSeqEmpty
    <3>3. J[n - 1] \o <<>> = J[n - 1]
      BY <1>1, <2>1, ConcatEmptySeq
    <3> QED
      BY <2>1, <2>2, <2>3, <2>4, <2>5, <3>1, <3>2, <3>3
  <2> QED
    BY <1>0, <2>2, <2>6, <2>7
<1> HIDE DEF S
<1>5. \A n \in 0 .. m : n \in S
  BY <1>0, <1>3, <1>4, Climb
<1>6. J[m] = SubSeq(s, 1, upTo(m * q))
  BY <1>0, <1>5 DEF S
<1>7. upTo(m * q) = Len(s)
  BY <1>0
<1>8. J[m] = s
  BY <1>6, <1>7, SubSeqFull
<1> QED
  BY <1>8, JoinedEnd DEF J

-----------------------------------------------------------------------------
(* Sizes and reads.                                                        *)

\* A read of k blocks after the first m: as many of them as there are.
LEMMA ReadIs ==
    ASSUME src \in Seq(Blocks), NEW m \in Nat, NEW k \in Nat
    PROVE  /\ ReadAt(m, k) \in Seq(Blocks)
           /\ m + k <= Len(src) => Len(ReadAt(m, k)) = k
           /\ (m + k > Len(src) /\ m <= Len(src)) => Len(ReadAt(m, k)) = Len(src) - m
           /\ m > Len(src) => Len(ReadAt(m, k)) = 0
<1> DEFINE top == IF m + k <= Len(src) THEN m + k ELSE Len(src)
<1>1. Len(src) \in Nat
  BY LenProperties
<1>2. ReadAt(m, k) = SubSeq(src, m + 1, top)
  <2>1. Min({m + k, Len(src)}) = top
    BY <1>1, Min2
  <2> QED
    BY <2>1 DEF ReadAt
<1>3. top \in Int /\ m + 1 \in Int /\ top <= Len(src)
  BY <1>1
<1>4. \A i \in m + 1 .. top : src[i] \in Blocks
  BY <1>1, <1>3, ElementOfSeq
<1>5. /\ SubSeq(src, m + 1, top) \in Seq(Blocks)
      /\ Len(SubSeq(src, m + 1, top)) = IF m + 1 <= top THEN top - (m + 1) + 1 ELSE 0
  <2> HIDE DEF top
  <2> QED
    BY <1>3, <1>4, SubSeqProperties
<1> QED
  BY <1>1, <1>2, <1>5

\* A read of all that is left, from the beginning, is the source.
LEMMA WholeRead ==
    ASSUME src \in Seq(Blocks), NEW k \in Nat, k >= Len(src)
    PROVE  ReadAt(0, k) = src
<1>1. Len(src) \in Nat
  BY LenProperties
<1>2. Min({0 + k, Len(src)}) = Len(src)
  BY <1>1, Min2
<1>3. SubSeq(src, 1, Len(src)) = src
  BY SubSeqFull
<1> QED
  BY <1>2, <1>3 DEF ReadAt

\* Where a part begins and ends.
LEMMA PartBegins ==
    ASSUME NEW n \in Nat \ {0}, NEW q \in Nat \ {0}
    PROVE  /\ (n - 1) * q \in Nat /\ n * q = (n - 1) * q + q
           /\ (n - 1) * q >= n - 1
<1>1. n - 1 \in Nat
  OBVIOUS
<1>2. \A a \in Nat : a * q \in Nat /\ a * q >= a /\ (a + 1) * q = a * q + q
  OBVIOUS
<1> QED
  BY <1>1, <1>2

\* TotalParts parts cover the size, and fewer do not.
LEMMA PartsOf ==
    ASSUME size \in Nat, psize \in Nat \ {0}
    PROVE  /\ TotalParts \in 0 .. size
           /\ TotalParts * psize >= size
           /\ \A n \in 1 .. TotalParts : (n - 1) * psize < size
           /\ \A n \in 1 .. TotalParts - 1 : (n - 1) * psize + psize <= size
<1> DEFINE T == TotalParts
<1>1. T \in Int /\ T * psize <= size + psize - 1 /\ size + psize - 1 < T * psize + psize
  BY DEF TotalParts
<1> HIDE DEF T
<1>2. T >= 0
  BY <1>1
<1>3. \A a, b \in Nat : a <= b => a * psize <= b * psize
  OBVIOUS
<1>4. T * psize >= size
  BY <1>1
<1>5. T <= size
  <2>1. CASE size = 0
    BY <1>1, <1>2, <2>1
  <2>2. CASE size > 0 /\ T > size
    <3>1. (size + 1) * psize <= T * psize
      BY <1>1, <1>3, <2>2
    <3>2. size + psize <= (size + 1) * psize
      <4>1. size <= size * psize /\ (size + 1) * psize = size * psize + psize
        OBVIOUS
      <4> QED
        BY <4>1
    <3> QED
      BY <1>1, <3>1, <3>2
  <2> QED
    BY <1>1, <2>1, <2>2
<1>6. ASSUME NEW n \in 1 .. T
      PROVE  (n - 1) * psize < size
  <2>1. n * psize <= T * psize /\ n * psize = (n - 1) * psize + psize
    BY <1>1, <1>2, <1>3, PartBegins
  <2> QED
    BY <1>1, <2>1
<1>7. ASSUME NEW n \in 1 .. T - 1
      PROVE  (n - 1) * psize + psize <= size
  <2>1. (n + 1 - 1) * psize < size
    BY <1>1, <1>6
  <2>2. n * psize = (n - 1) * psize + psize
    BY <1>1, PartBegins
  <2> QED
    BY <2>1, <2>2
<1> QED
  BY <1>1, <1>2, <1>4, <1>5, <1>6, <1>7 DEF T

\* All parts are full but the last, which is what is left.
LEMMA PartBytesIs ==
    ASSUME size \in Nat, psize \in Nat \ {0}, NEW n \in 1 .. TotalParts
    PROVE  /\ PartBytes(n) \in 1 .. psize
           /\ n < TotalParts => PartBytes(n) = psize
           /\ n = TotalParts => PartBytes(n) = size - (n - 1) * psize
           /\ (n - 1) * psize \in Nat
           /\ (n - 1) * psize + PartBytes(n) <= size
           /\ PartBytes(n) = Min({psize, size - (n - 1) * psize})
<1> DEFINE lo == (n - 1) * psize
<1>1. TotalParts \in Nat /\ n \in Nat \ {0}
  BY PartsOf
<1>2. lo \in Nat /\ lo < size /\ n * psize = lo + psize
  BY <1>1, PartsOf, PartBegins
<1>3. n < TotalParts => lo + psize <= size
  BY <1>1, PartsOf
<1>4. n = TotalParts => lo + psize >= size
  BY <1>1, <1>2, PartsOf
<1> HIDE DEF lo
<1>5. PartBytes(n) = IF psize <= size - lo THEN psize ELSE size - lo
  BY <1>2, Min2 DEF PartBytes, lo
<1> QED
  BY <1>1, <1>2, <1>3, <1>4, <1>5 DEF lo, PartBytes

\* A source of the scanned size has every part in full, and a resumed Put reads
\* what the managed uploader would.
LEMMA PortionIs ==
    ASSUME src \in Seq(Blocks), psize \in Nat \ {0}, size = Len(src),
           NEW n \in 1 .. TotalParts
    PROVE  /\ Portion(n) = Cut(src, n, psize)
           /\ Len(Portion(n)) = PartBytes(n)
           /\ Portion(n) # None
<1> DEFINE lo == (n - 1) * psize
<1>1. size \in Nat
  BY LenProperties
<1>2. PartBytes(n) \in 1 .. psize /\ lo \in Nat /\ lo + PartBytes(n) <= Len(src)
  BY <1>1, PartBytesIs
<1>3. Len(Portion(n)) = PartBytes(n)
  <2>1. Portion(n) = ReadAt(lo, PartBytes(n)) /\ PartBytes(n) \in Nat
    BY <1>2 DEF Portion
  <2> HIDE DEF lo
  <2> QED
    BY <1>2, <2>1, ReadIs
<1>4. Min({lo + PartBytes(n), Len(src)}) = Min({lo + psize, Len(src)})
  <2>1. PartBytes(n) = IF psize <= size - lo THEN psize ELSE size - lo
    <3>1. PartBytes(n) = Min({psize, size - lo})
      BY DEF PartBytes
    <3> HIDE DEF lo
    <3>2. psize \in Int /\ size - lo \in Int
      BY <1>1, <1>2
    <3> QED
      BY <3>1, <3>2, Min2
  <2> HIDE DEF lo
  <2>2. Min({lo + PartBytes(n), Len(src)}) = lo + PartBytes(n)
    BY <1>1, <1>2, Min2
  <2>3. Min({lo + psize, Len(src)}) = IF lo + psize <= Len(src) THEN lo + psize ELSE Len(src)
    BY <1>1, <1>2, Min2
  <2> QED
    BY <1>1, <1>2, <2>1, <2>2, <2>3
<1>5. Portion(n) = Cut(src, n, psize)
  BY <1>4 DEF Portion, ReadAt, Cut
<1>6. Len(<<>>) = 0
  OBVIOUS
<1> QED
  BY <1>2, <1>3, <1>5, <1>6 DEF None

\* What the managed uploader reads as part n.
LEMMA ChunkIs ==
    ASSUME src \in Seq(Blocks), psize \in Nat \ {0}, NEW n \in Nat \ {0}
    PROVE  /\ Chunk(n) \in Seq(Blocks) /\ Chunk(n) = Cut(src, n, psize)
           /\ Len(Chunk(n)) \in 0 .. psize
           /\ Len(Chunk(n)) < psize => n * psize > Len(src)
           /\ Chunk(n) # None =>
                Len(Chunk(n)) \in 1 .. psize /\ (n - 1) * psize + Len(Chunk(n)) <= Len(src)
           /\ Chunk(n) = None => (n - 1) * psize >= Len(src)
<1> DEFINE lo == (n - 1) * psize
<1>1. lo \in Nat /\ n * psize = lo + psize /\ Len(src) \in Nat
  BY PartBegins, LenProperties
<1>2. Chunk(n) = ReadAt(lo, psize) /\ Chunk(n) = Cut(src, n, psize)
  BY DEF Chunk, ReadAt, Cut
<1>3. /\ Chunk(n) \in Seq(Blocks)
      /\ lo + psize <= Len(src) => Len(Chunk(n)) = psize
      /\ (lo + psize > Len(src) /\ lo <= Len(src)) => Len(Chunk(n)) = Len(src) - lo
      /\ lo > Len(src) => Len(Chunk(n)) = 0
  BY <1>1, <1>2, ReadIs
<1>4. Chunk(n) = None <=> Len(Chunk(n)) = 0
  BY <1>3, EmptySeq DEF None
<1> HIDE DEF lo
<1> QED
  BY <1>1, <1>2, <1>3, <1>4 DEF lo

-----------------------------------------------------------------------------
(* The types.                                                              *)

\* The constants and the run's sizes, as the proofs use them.
LEMMA Given ==
    ASSUME FileTypes, RunTypes
    PROVE  /\ src \in Seq(Blocks) /\ Len(src) \in 0 .. MaxLen
           /\ psize \in Nat \ {0} /\ size \in Nat /\ size <= MaxLen
           /\ MaxLen \in Nat /\ 1 \in PartNos
           /\ PartNos \subseteq Nat \ {0}
BY S3PutAssumption DEF FileTypes, RunTypes, PartNos

LEMMA NothingRead ==
    /\ None \in Seq(Blocks) /\ Len(None) = 0
    /\ NoParts \in AnyParts /\ NoParts \in [PartNos -> Seq(Blocks)]
    /\ \A n \in PartNos : NoParts[n] = None
<1>1. None \in Seq(Blocks) /\ Len(None) = 0
  BY EmptySeq DEF None
<1>2. NoParts \in [PartNos -> Seq(Blocks)] /\ \A n \in PartNos : NoParts[n] = None
  BY <1>1 DEF NoParts
<1>3. NoParts \in AnyParts
  BY <1>1, <1>2, S3PutAssumption DEF AnyParts
<1> QED
  BY <1>1, <1>2, <1>3

LEMMA PartNosFinite ==
    ASSUME NEW S, S \subseteq PartNos
    PROVE  IsFiniteSet(S) /\ Cardinality(S) \in Nat
<1>1. IsFiniteSet(PartNos)
  BY S3PutAssumption, FS_Interval DEF PartNos
<1> QED
  BY <1>1, FS_Subset, FS_CardinalityType

\* The types that are followed imply those that are claimed.
LEMMA TypesSuffice == IInv => TypeOK
<1> SUFFICES ASSUME IInv PROVE TypeOK
  OBVIOUS
<1>1. /\ edited \in BOOLEAN /\ there \in BOOLEAN
      /\ lastRead \in BOOLEAN /\ err \in BOOLEAN
  BY DEF IInv, Types, FlagTypes
<1>2. uploads \in Seq([PartNos -> Seq(Blocks)]) /\ Len(uploads) <= MaxUploads
  <2>1. AnyParts \subseteq [PartNos -> Seq(Blocks)]
    BY DEF AnyParts
  <2> QED
    BY <2>1, SeqMonotonic DEF IInv, Types, UploadTypes
<1>3. \A n \in PartNos, k \in DOMAIN uploads : Len(uploads[k][n]) <= MaxLen
  <2>1. \A k \in DOMAIN uploads : uploads[k] \in AnyParts
    BY LenProperties, ElementOfSeq DEF IInv, Types, UploadTypes
  <2> QED
    BY <2>1 DEF AnyParts
<1>4. pc = "resume" => acked \subseteq 1 .. TotalParts
  BY DEF IInv, Resuming
<1> QED
  BY <1>1, <1>2, <1>3, <1>4
     DEF IInv, Types, FileTypes, RunTypes, UploadTypes, PartTypes, BufferTypes, TypeOK

\* Writing a part into an upload.
LEMMA Stores ==
    ASSUME UploadTypes, BufferTypes, RunTypes, FileTypes, up # 0,
           NEW n \in PartNos, buf[n] # None,
           NEW u, u = [uploads EXCEPT ![up][n] = buf[n]]
    PROVE  /\ u \in Seq(AnyParts) /\ Len(u) = Len(uploads)
           /\ u[up][n] = buf[n]
           /\ \A m \in PartNos : m # n => u[up][m] = uploads[up][m]
<1>1. up \in 1 .. Len(uploads) /\ uploads \in Seq(AnyParts)
  BY DEF UploadTypes
<1>2. uploads[up] \in AnyParts
  BY <1>1, ElementOfSeq
<1> DEFINE p == [uploads[up] EXCEPT ![n] = buf[n]]
<1>3. p \in [PartNos -> Seq(Blocks)] /\ p[n] = buf[n]
      /\ \A m \in PartNos : m # n => p[m] = uploads[up][m]
  BY <1>2 DEF AnyParts, BufferTypes
<1>4. p \in AnyParts
  <2>1. \E q \in PartSizes : (n - 1) * q < MaxLen
    BY DEF BufferTypes, RunTypes
  <2>2. Len(buf[n]) <= MaxLen
    BY DEF BufferTypes
  <2> HIDE DEF p
  <2>3. ASSUME NEW m \in PartNos
        PROVE  Len(p[m]) <= MaxLen /\ (p[m] # None => \E q \in PartSizes : (m - 1) * q < MaxLen)
    BY <1>2, <1>3, <2>1, <2>2 DEF AnyParts
  <2> QED
    BY <1>3, <2>3 DEF AnyParts
<1>5. u = [uploads EXCEPT ![up] = p]
  OBVIOUS
<1> HIDE DEF p
<1>6. u \in Seq(AnyParts) /\ Len(u) = Len(uploads) /\ u[up] = p
  BY <1>1, <1>4, <1>5, ExceptSeq
<1> QED
  BY <1>3, <1>6

\* Dropping an upload, and opening one.
LEMMA Drops ==
    ASSUME UploadTypes, up # 0
    PROVE  /\ RemoveAt(uploads, up) \in Seq(AnyParts)
           /\ Len(RemoveAt(uploads, up)) = Len(uploads) - 1
<1> DEFINE a == SubSeq(uploads, 1, up - 1)
           b == SubSeq(uploads, up + 1, Len(uploads))
<1>1. up \in 1 .. Len(uploads) /\ uploads \in Seq(AnyParts) /\ Len(uploads) \in Nat
  BY LenProperties DEF UploadTypes
<1>2. a \in Seq(AnyParts) /\ Len(a) = up - 1
  <2>1. \A i \in 1 .. up - 1 : uploads[i] \in AnyParts
    BY <1>1, ElementOfSeq
  <2>2. 1 \in Int /\ up - 1 \in Int
    BY <1>1
  <2>3. a \in Seq(AnyParts) /\ Len(a) = IF 1 <= up - 1 THEN up - 1 - 1 + 1 ELSE 0
    BY <2>1, <2>2, SubSeqProperties
  <2> QED
    BY <1>1, <2>3
<1>3. b \in Seq(AnyParts) /\ Len(b) = Len(uploads) - up
  <2>1. \A i \in up + 1 .. Len(uploads) : uploads[i] \in AnyParts
    BY <1>1, ElementOfSeq
  <2>2. up + 1 \in Int /\ Len(uploads) \in Int
    BY <1>1
  <2>3. b \in Seq(AnyParts)
        /\ Len(b) = IF up + 1 <= Len(uploads) THEN Len(uploads) - (up + 1) + 1 ELSE 0
    BY <2>1, <2>2, SubSeqProperties
  <2> QED
    BY <1>1, <2>3
<1> HIDE DEF a, b
<1>4. a \o b \in Seq(AnyParts) /\ Len(a \o b) = Len(a) + Len(b)
  BY <1>2, <1>3, ConcatProperties
<1>5. RemoveAt(uploads, up) = a \o b
  BY DEF RemoveAt, a, b
<1>6. Len(a \o b) = Len(uploads) - 1
  BY <1>1, <1>2, <1>3, <1>4
<1> QED
  BY <1>4, <1>5, <1>6

LEMMA Opens ==
    ASSUME UploadTypes,
           NEW others, others = IF Len(uploads) = MaxUploads THEN Tail(uploads) ELSE uploads
    PROVE  /\ others \in Seq(AnyParts) /\ Len(others) \in Nat
           /\ Append(others, NoParts) \in Seq(AnyParts)
           /\ Len(Append(others, NoParts)) = Len(others) + 1
           /\ Len(others) + 1 <= MaxUploads
<1>1. uploads \in Seq(AnyParts) /\ Len(uploads) \in Nat /\ Len(uploads) <= MaxUploads
  BY LenProperties DEF UploadTypes
<1>2. MaxUploads \in Nat \ {0}
  BY S3PutAssumption
<1>3. others \in Seq(AnyParts) /\ Len(others) \in Nat /\ Len(others) + 1 <= MaxUploads
  <2>1. CASE Len(uploads) = MaxUploads
    <3>1. uploads # <<>>
      BY <1>2, <2>1
    <3>2. Tail(uploads) \in Seq(AnyParts) /\ Len(Tail(uploads)) = Len(uploads) - 1
      BY <1>1, <3>1, HeadTailProperties
    <3> QED
      BY <1>1, <1>2, <2>1, <3>2
  <2>2. CASE Len(uploads) # MaxUploads
    BY <1>1, <1>2, <2>2
  <2> QED
    BY <2>1, <2>2
<1> QED
  BY <1>3, NothingRead, AppendProperties

\* While source and run stay, so does what the parts are.
LEMMA PartsStay ==
    ASSUME UNCHANGED <<src, psize, size>>
    PROVE  /\ TotalParts' = TotalParts
           /\ \A n : PartBytes(n)' = PartBytes(n)
           /\ \A n : Portion(n)' = Portion(n)
           /\ \A n : Chunk(n)' = Chunk(n)
BY DEF TotalParts, PartBytes, Portion, Chunk, ReadAt

LEMMA Initially == Init => IInv
<1> SUFFICES ASSUME Init PROVE IInv
  OBVIOUS
<1>1. Types
  <2>1. Min(PartSizes) \in PartSizes
    BY S3PutAssumption, MinIs
  <2>2. FlagTypes
    BY DEF Init, FlagTypes
  <2>3. FileTypes /\ RunTypes
    BY <2>1, S3PutAssumption, EmptySeq DEF Init, FileTypes, RunTypes, Places
  <2>4. UploadTypes
    BY S3PutAssumption, EmptySeq DEF Init, UploadTypes
  <2>5. PartTypes
    BY S3PutAssumption, FS_EmptySet DEF Init, PartTypes
  <2>6. BufferTypes
    BY S3PutAssumption, NothingRead DEF Init, BufferTypes
  <2> QED
    BY <2>2, <2>3, <2>4, <2>5, <2>6 DEF Types
<1>2. /\ Scanned /\ Working /\ Unstarted /\ Unlisted /\ First
      /\ Matching /\ Resuming /\ Streaming /\ CopyIsExact
  BY DEF Init, Scanned, Working, Unstarted, Unlisted, First, Matching, Resuming,
         Streaming, CopyIsExact
<1> QED
  BY <1>1, <1>2 DEF IInv

\* The source may be edited.
LEMMA EditSourceKeeps == ASSUME IInv, EditSource PROVE IInv'
<1>1. Types'
  <2>1. FlagTypes'
    <3>1. edited' \in BOOLEAN
      BY Zenon DEF EditSource
    <3> QED
      BY <3>1 DEF IInv, Types, FlagTypes, EditSource, storeVars, sendVars
  <2> QED
    BY <2>1 DEF IInv, Types, FileTypes, RunTypes, UploadTypes, PartTypes, BufferTypes,
         EditSource, storeVars, runVars, sendVars
<1>2. pc' = pc /\ (pc # "down" => edited' = TRUE)
  BY DEF EditSource
<1>3. /\ Scanned' /\ Working' /\ Unstarted' /\ Unlisted' /\ First' /\ CopyIsExact'
  BY <1>2 DEF IInv, Scanned, Working, Unstarted, Unlisted, First, CopyIsExact,
         EditSource, storeVars, runVars, sendVars
<1>4. TotalParts' = TotalParts /\ \A n : PartBytes(n)' = PartBytes(n)
  BY DEF EditSource, runVars, TotalParts, PartBytes
<1>5. Matching' /\ Resuming' /\ Streaming'
  BY <1>2, <1>4 DEF IInv, Matching, Resuming, Streaming, IsPortion, IsChunk, Differ,
         EditSource, storeVars, runVars, sendVars
<1> QED
  BY <1>1, <1>3, <1>5 DEF IInv

\* A run that is over knows nothing.
LEMMA LeaveKeeps ==
    ASSUME IInv, NEW place \in {"down", "done", "failed"}, Leave(place),
           pc # "down", src' = src, FlagTypes', size' \in 0 .. MaxLen, psize' \in PartSizes,
           place # "down" => UNCHANGED <<edited, size>>,
           obj' \in Seq(Blocks), Len(obj') <= MaxLen,
           uploads' \in Seq(AnyParts), Len(uploads') <= MaxUploads,
           CopyIsExact'
    PROVE  IInv'
<1>1. FileTypes' /\ RunTypes'
  BY S3PutAssumption DEF IInv, Types, FileTypes, RunTypes, Leave, Places, Ended
<1>2. UploadTypes' /\ PartTypes'
  BY S3PutAssumption, LenProperties, FS_EmptySet DEF UploadTypes, PartTypes, Leave
<1>3. BufferTypes'
  BY S3PutAssumption, NothingRead DEF BufferTypes, Leave
<1>4. /\ Scanned' /\ Working' /\ Unstarted' /\ Unlisted' /\ First'
      /\ Matching' /\ Resuming' /\ Streaming'
  BY DEF IInv, Scanned, Working, Unstarted, Unlisted, First, Matching, Resuming,
         Streaming, Leave
<1> QED
  BY <1>1, <1>2, <1>3, <1>4 DEF IInv, Types

\* The choices of a run before it sends anything.
LEMMA ChoicesKeep ==
    ASSUME IInv, Scan \/ Stat \/ StatFails \/ FindUpload \/ AbortFails
    PROVE  IInv'
<1> USE DEF storeVars, runVars, sendVars, Goto
<1>1. UNCHANGED <<src, edited, there, obj, uploads, sendVars>>
  BY DEF Scan, Stat, StatFails, FindUpload, AbortFails
<1>2. FlagTypes' /\ FileTypes' /\ PartTypes'
  BY <1>1 DEF IInv, Types, FlagTypes, FileTypes, PartTypes
<1>3. size' \in 0 .. MaxLen /\ psize' \in PartSizes /\ pc' \in Places
  BY Given DEF IInv, Types, RunTypes, Places, Ended, Scan, Stat, StatFails, FindUpload,
         AbortFails
<1>4. RunTypes'
  BY <1>1, <1>3 DEF IInv, Types, RunTypes
<1>5. UploadTypes'
  <2>1. up' \in 0 .. Len(uploads)
    BY LenProperties DEF IInv, Types, UploadTypes, Scan, Stat, StatFails, FindUpload, AbortFails
  <2> QED
    BY <1>1, <2>1 DEF IInv, Types, UploadTypes
<1>6. BufferTypes'
  <2>1. pc \notin {"single", "create", "stream", "resume"}
    BY DEF Scan, Stat, StatFails, FindUpload, AbortFails
  <2>2. \A n \in PartNos : buf[n] = None
    BY <2>1 DEF IInv, Types, BufferTypes, Unstarted
  <2> QED
    BY <1>1, <2>2 DEF IInv, Types, BufferTypes
<1>7. /\ Scanned' /\ Working' /\ Unstarted' /\ Unlisted' /\ First'
      /\ Matching' /\ Resuming' /\ Streaming' /\ CopyIsExact'
  <2>1. pc' \in {"stat", "skipped", "find", "fresh", "list"}
    BY DEF Scan, Stat, StatFails, FindUpload, AbortFails
  <2>2. Scanned' /\ Working'
    BY Given, LenProperties DEF IInv, Types, UploadTypes, Scanned, Working,
         Scan, Stat, StatFails, FindUpload, AbortFails
  <2>3. Unstarted' /\ Unlisted'
    BY <1>1, <2>1 DEF IInv, Unstarted, Unlisted, Scan, Stat, StatFails, FindUpload, AbortFails
  <2> QED
    BY <2>1, <2>2, <2>3 DEF First, Matching, Resuming, Streaming, CopyIsExact
<1> QED
  BY <1>2, <1>4, <1>5, <1>6, <1>7 DEF IInv, Types

LEMMA AbortKeeps == ASSUME IInv, Abort PROVE IInv'
<1> USE DEF storeVars, runVars, sendVars, Goto
<1>1. /\ UNCHANGED <<src, edited, there, obj, psize, size, sendVars>>
      /\ pc = "abort" /\ pc' = "fresh" /\ up' = 0
      /\ uploads' = RemoveAt(uploads, up)
  BY DEF Abort
<1>2. FlagTypes' /\ FileTypes' /\ PartTypes' /\ RunTypes' /\ BufferTypes'
  BY <1>1 DEF IInv, Types, FlagTypes, FileTypes, PartTypes, RunTypes, BufferTypes, Places
<1>3. UploadTypes'
  <2>1. up # 0 /\ UploadTypes
    BY <1>1 DEF IInv, Types, Working
  <2>2. uploads' \in Seq(AnyParts) /\ Len(uploads') = Len(uploads) - 1
    BY <1>1, <2>1, Drops
  <2> QED
    BY <1>1, <2>1, <2>2, LenProperties, S3PutAssumption DEF UploadTypes
<1>4. Scanned' /\ Working' /\ Unstarted' /\ Unlisted' /\ First'
      /\ Matching' /\ Resuming' /\ Streaming' /\ CopyIsExact'
  BY <1>1 DEF IInv, Scanned, Working, Unstarted, Unlisted, First, Matching, Resuming,
         Streaming, CopyIsExact
<1> QED
  BY <1>2, <1>3, <1>4 DEF IInv, Types

\* The page that ListParts reads.
LEMMA ListPartsKeeps == ASSUME IInv, ListParts PROVE IInv'
<1> USE DEF storeVars, runVars, Goto
<1>1. /\ UNCHANGED <<src, edited, there, obj, uploads, psize, size, up, kept, next,
                     doing, buf, acked, lastRead, err>>
      /\ pc = "list" /\ pc' = "match"
  BY DEF ListParts
<1>2. /\ listed' \subseteq PartNos
      /\ \A n \in PartNos : uploads[up][n] # None /\ n \notin listed' =>
            ~(Cardinality({m \in Stored(uploads[up]) : m < n}) < Page)
  BY DEF ListParts, Stored
<1>3. FlagTypes' /\ FileTypes' /\ RunTypes' /\ UploadTypes' /\ PartTypes' /\ BufferTypes'
  BY <1>1, <1>2 DEF IInv, Types, FlagTypes, FileTypes, PartTypes, RunTypes, UploadTypes,
         BufferTypes, Places
<1>4. Scanned' /\ Working' /\ Unstarted' /\ Unlisted' /\ First'
      /\ Resuming' /\ Streaming' /\ CopyIsExact'
  BY <1>1 DEF IInv, Scanned, Working, Unstarted, Unlisted, First, Resuming,
         Streaming, CopyIsExact
<1>5. Matching'
  <2>1. kept = {}
    BY <1>1 DEF IInv, Unlisted
  <2>2. /\ src \in Seq(Blocks) /\ Len(src) <= MaxLen /\ psize \in Nat \ {0} /\ size \in Nat
        /\ size <= MaxLen /\ MaxLen \in Nat
    BY Given DEF IInv, Types
  <2>3. TotalParts \in 0 .. size
    BY <2>2, PartsOf
  <2>4. ASSUME OnePage, ~edited, NEW n \in (1 .. TotalParts) \ listed'
        PROVE  uploads[up][n] # Portion(n)
    <3>1. n \in PartNos
      BY <2>2, <2>3 DEF PartNos
    <3>2. Portion(n) # None
      <4>1. size = Len(src)
        BY <1>1, <2>4 DEF IInv, Scanned
      <4> QED
        BY <2>2, <4>1, PortionIs
    <3>3. ASSUME uploads[up][n] # None PROVE FALSE
      <4>1. uploads[up] \in AnyParts
        BY <1>1, ElementOfSeq DEF IInv, Types, UploadTypes, Working
      <4>2. n <= Page
        BY <2>4, <3>1, <3>3, <4>1 DEF AnyParts, OnePage
      <4> DEFINE before == {m \in Stored(uploads[up]) : m < n}
      <4>3. before \subseteq 1 .. n - 1
        BY DEF Stored, PartNos
      <4>4. Cardinality(before) <= n - 1
        <5>1. n - 1 \in Nat
          BY <3>1, Given DEF IInv, Types
        <5>2. IsFiniteSet(1 .. n - 1) /\ Cardinality(1 .. n - 1) = n - 1
          BY <5>1, FS_Interval
        <5> QED
          BY <4>3, <5>2, FS_Subset
      <4>5. Cardinality(before) \in Nat
        BY PartNosFinite DEF Stored
      <4>6. ~(Cardinality(before) < Page)
        BY <1>2, <2>4, <3>1, <3>3
      <4> HIDE DEF before
      <4> QED
        BY <3>1, <4>2, <4>4, <4>5, <4>6, S3PutAssumption DEF PartNos
    <3> QED
      BY <3>2, <3>3
  <2>5. /\ TotalParts' = TotalParts
        /\ \A n : Portion(n)' = Portion(n)
    BY <1>1, PartsStay
  <2> QED
    BY <1>1, <2>1, <2>4, <2>5 DEF Matching, Differ
<1> QED
  BY <1>3, <1>4, <1>5 DEF IInv, Types

\* One comparison: a part that differs is left out, one that agrees is kept.
LEMMA MatchPartKeeps == ASSUME IInv, MatchPart PROVE IInv'
<1> DEFINE x == Min(listed)
<1> USE DEF storeVars, runVars, Goto
<1>1. /\ UNCHANGED <<src, edited, there, obj, uploads, psize, size, up, next,
                     doing, buf, acked, lastRead, err>>
      /\ pc = "match" /\ listed # {}
  BY DEF MatchPart, Misaligned, Compare
<1>2. x \in listed /\ x \in PartNos /\ listed \subseteq PartNos
  <2>1. listed \subseteq PartNos /\ listed \in SUBSET Nat
    BY Given DEF IInv, Types, PartTypes
  <2> QED
    BY <1>1, <2>1, MinIs
<1> HIDE DEF x
<1>3. \/ pc' = "abort" /\ listed' = {} /\ kept' = {}
      \/ /\ pc' = "match" /\ Aligned(x) /\ listed' = listed \ {x}
         /\ kept' = IF uploads[up][x] = Portion(x) THEN kept \cup {x} ELSE kept
  BY DEF MatchPart, Misaligned, Compare, x
<1>4. FlagTypes' /\ FileTypes' /\ RunTypes' /\ UploadTypes' /\ PartTypes' /\ BufferTypes'
  BY <1>1, <1>2, <1>3 DEF IInv, Types, FlagTypes, FileTypes, PartTypes, RunTypes, UploadTypes,
         BufferTypes, Places
<1>5. Scanned' /\ Working' /\ Unstarted' /\ Unlisted' /\ First'
      /\ Resuming' /\ Streaming' /\ CopyIsExact'
  BY <1>1, <1>3 DEF IInv, Scanned, Working, Unstarted, Unlisted, First, Resuming,
         Streaming, CopyIsExact
<1>6. Matching'
  <2>1. CASE pc' = "abort"
    BY <2>1 DEF Matching
  <2>2. CASE pc' = "match"
    <3>1. /\ Aligned(x) /\ listed' = listed \ {x}
          /\ kept' = IF uploads[up][x] = Portion(x) THEN kept \cup {x} ELSE kept
      BY <1>3, <2>2
    <3>2. /\ TotalParts' = TotalParts
          /\ \A n : PartBytes(n)' = PartBytes(n)
          /\ \A n : Portion(n)' = Portion(n)
      BY <1>1, PartsStay
    <3>3. kept' \subseteq 1 .. TotalParts
      <4>1. x \in 1 .. TotalParts
        BY <1>2, <3>1, Given, PartsOf DEF Aligned, IInv, Types
      <4> QED
        BY <1>1, <3>1, <4>1 DEF IInv, Matching
    <3>4. \A n \in kept' : IsPortion(n, uploads[up][n])
      BY <1>1, <3>1 DEF IInv, Matching, IsPortion, Aligned
    <3>5. Differ((1 .. TotalParts) \ (listed' \cup kept'))
      BY <1>1, <3>1 DEF IInv, Matching, Differ
    <3> QED
      BY <1>1, <3>2, <3>3, <3>4, <3>5 DEF Matching, IsPortion, Differ
  <2> QED
    BY <1>3, <2>1, <2>2
<1> QED
  BY <1>4, <1>5, <1>6 DEF IInv, Types

\* The kept parts are the first completed ones.
LEMMA StartResumeKeeps == ASSUME IInv, StartResume PROVE IInv'
<1> USE DEF storeVars, runVars, Goto
<1>1. /\ UNCHANGED <<src, edited, there, obj, uploads, psize, size, up, listed, kept,
                     next, doing, buf, lastRead, err>>
      /\ pc = "match" /\ pc' = "resume" /\ listed = {} /\ acked' = kept
  BY DEF StartResume
<1>2. FlagTypes' /\ FileTypes' /\ RunTypes' /\ UploadTypes' /\ PartTypes' /\ BufferTypes'
  BY <1>1 DEF IInv, Types, FlagTypes, FileTypes, PartTypes, RunTypes, UploadTypes,
         BufferTypes, Places
<1>3. Scanned' /\ Working' /\ Unstarted' /\ Unlisted' /\ First'
      /\ Matching' /\ Streaming' /\ CopyIsExact'
  BY <1>1 DEF IInv, Scanned, Working, Unstarted, Unlisted, First, Matching,
         Streaming, CopyIsExact
<1>4. Resuming'
  <2>1. next = 1 /\ doing = {}
    BY <1>1 DEF IInv, Unstarted
  <2>2. TotalParts \in Nat
    BY Given, PartsOf DEF IInv, Types
  <2>3. /\ TotalParts' = TotalParts
        /\ \A n : PartBytes(n)' = PartBytes(n)
        /\ \A n : Portion(n)' = Portion(n)
    BY <1>1, PartsStay
  <2>4. /\ kept \subseteq 1 .. TotalParts
        /\ \A n \in kept : IsPortion(n, uploads[up][n])
        /\ Differ((1 .. TotalParts) \ kept)
    BY <1>1 DEF IInv, Matching
  <2>5. Remaining' = (1 .. TotalParts) \ kept
    BY <1>1, <2>1, <2>3 DEF Remaining
  <2> QED
    BY <1>1, <2>1, <2>2, <2>3, <2>4, <2>5 DEF Resuming, IsPortion, Differ
<1> QED
  BY <1>2, <1>3, <1>4 DEF IInv, Types

\* The managed uploader reads a first part.
LEMMA ReadFirstKeeps == ASSUME IInv, ReadFirst PROVE IInv'
<1> USE DEF storeVars, runVars, Goto
<1>1. /\ UNCHANGED <<src, edited, there, obj, uploads, psize, size, up, listed, kept,
                     next, doing, acked, lastRead, err>>
      /\ pc = "fresh" /\ buf' = [buf EXCEPT ![1] = Chunk(1)]
      /\ pc' = IF Len(Chunk(1)) < psize THEN "single" ELSE "create"
  BY DEF ReadFirst
<1>2. /\ src \in Seq(Blocks) /\ psize \in Nat \ {0} /\ 1 \in PartNos
      /\ Len(src) \in 0 .. MaxLen /\ MaxLen \in Nat /\ PartNos \subseteq Nat \ {0}
  BY Given DEF IInv, Types
<1>3. /\ Chunk(1) \in Seq(Blocks) /\ Len(Chunk(1)) \in 0 .. psize
      /\ Chunk(1) # None => Len(Chunk(1)) \in 1 .. psize /\ Len(Chunk(1)) <= MaxLen
      /\ Len(Chunk(1)) < psize => psize > Len(src)
  <2>1. (1 - 1) * psize = 0 /\ 1 * psize = psize /\ 1 \in Nat \ {0}
    BY <1>2
  <2>2. /\ Chunk(1) \in Seq(Blocks) /\ Len(Chunk(1)) \in 0 .. psize
        /\ Len(Chunk(1)) < psize => 1 * psize > Len(src)
        /\ Chunk(1) # None =>
            Len(Chunk(1)) \in 1 .. psize /\ (1 - 1) * psize + Len(Chunk(1)) <= Len(src)
    BY <1>2, <2>1, ChunkIs
  <2> QED
    BY <1>2, <2>1, <2>2
<1>4. pc' = "single" => Chunk(1) = src
  <2>1. ASSUME pc' = "single" PROVE Chunk(1) = src
    <3>1. psize >= Len(src) /\ psize \in Nat
      BY <1>1, <1>2, <1>3, <2>1
    <3>2. Chunk(1) = ReadAt(0, psize)
      BY <1>2 DEF Chunk
    <3> QED
      BY <1>2, <3>1, <3>2, WholeRead
  <2> QED
    BY <2>1
<1>5. buf \in [PartNos -> Seq(Blocks)] /\ \A n \in PartNos : buf[n] = None
  BY <1>1 DEF IInv, Types, BufferTypes, Unstarted
<1>6. buf'[1] = Chunk(1) /\ \A n \in PartNos : n # 1 => buf'[n] = None
  BY <1>1, <1>2, <1>5
<1>7. BufferTypes'
  <2>1. buf' \in [PartNos -> Seq(Blocks)]
    BY <1>1, <1>3, <1>5
  <2>2. \A n \in PartNos : Len(buf'[n]) <= MaxLen
    BY <1>2, <1>3, <1>6, NothingRead
  <2>3. ASSUME Chunk(1) # None PROVE (1 - 1) * psize < MaxLen
    <3>1. (1 - 1) * psize = 0
      BY <1>2
    <3> QED
      BY <1>2, <1>3, <2>3, <3>1
  <2> QED
    BY <1>1, <1>6, <2>1, <2>2, <2>3 DEF BufferTypes
<1>8. FlagTypes' /\ FileTypes' /\ RunTypes' /\ UploadTypes' /\ PartTypes'
  BY <1>1 DEF IInv, Types, FlagTypes, FileTypes, PartTypes, RunTypes, UploadTypes, Places
<1>9. Scanned' /\ Working' /\ Unstarted' /\ Unlisted'
      /\ Matching' /\ Resuming' /\ Streaming' /\ CopyIsExact'
  BY <1>1 DEF IInv, Scanned, Working, Unstarted, Unlisted, Matching, Resuming,
         Streaming, CopyIsExact
<1>10. First'
  <2>1. Chunk(1)' = Chunk(1)
    BY <1>1, PartsStay
  <2> QED
    BY <1>1, <1>2, <1>3, <1>4, <1>6, <2>1 DEF First
<1> QED
  BY <1>7, <1>8, <1>9, <1>10 DEF IInv, Types

LEMMA PutObjectKeeps == ASSUME IInv, PutObject PROVE IInv'
<1> USE DEF runVars
<1>1. /\ UNCHANGED <<src, edited, psize, size, uploads>> /\ pc = "single"
      /\ \/ Len(buf[1]) = size /\ there' = TRUE /\ obj' = buf[1] /\ Leave("done")
         \/ UNCHANGED <<there, obj>> /\ Leave("failed")
  BY DEF PutObject
<1>2. /\ obj' \in Seq(Blocks) /\ Len(obj') <= MaxLen
      /\ uploads' \in Seq(AnyParts) /\ Len(uploads') <= MaxUploads
      /\ size' \in 0 .. MaxLen /\ psize' \in PartSizes
  BY <1>1, Given DEF IInv, Types, FileTypes, UploadTypes, BufferTypes, RunTypes
<1>3. FlagTypes'
  <2>1. {edited, there'} \subseteq BOOLEAN
    BY <1>1 DEF IInv, Types, FlagTypes
  <2> QED
    BY <1>1, <2>1 DEF FlagTypes, Leave
<1>4. CopyIsExact'
  BY <1>1 DEF IInv, First, CopyIsExact, Leave
<1>5. \E place \in {"done", "failed"} : Leave(place)
  BY <1>1
<1> QED
  BY <1>1, <1>2, <1>3, <1>4, <1>5, LeaveKeeps

\* What ends a run without completing an upload, and what happens between two.
LEMMA EndsKeep ==
    ASSUME IInv, Foul \/ Killed \/ NextRun \/ GiveUp \/ CallFails
    PROVE  IInv'
<1> USE DEF storeVars, runVars
<1>1. CASE Foul
  <2>1. /\ UNCHANGED <<src, edited, pc, psize, size, up, sendVars>> /\ pc = "down"
        /\ \/ there' = FALSE /\ obj' = <<>> /\ UNCHANGED uploads
           \/ uploads' = <<>> /\ UNCHANGED <<there, obj>>
    BY <1>1 DEF Foul
  <2>2. up = 0 /\ up' = 0
    BY <2>1 DEF IInv, Working
  <2>3. FlagTypes'
    BY <2>1 DEF IInv, Types, FlagTypes, sendVars
  <2>4. FileTypes' /\ UploadTypes'
    <3>1. /\ <<>> \in Seq(Blocks) /\ Len(<<>>) <= MaxLen
          /\ <<>> \in Seq(AnyParts) /\ Len(<<>>) <= MaxUploads
      BY EmptySeq, S3PutAssumption
    <3>5. obj' \in {obj, <<>>} /\ uploads' \in {uploads, <<>>}
      BY <2>1
    <3>2. obj' \in Seq(Blocks) /\ Len(obj') <= MaxLen
      BY <3>1, <3>5 DEF IInv, Types, FileTypes
    <3>3. uploads' \in Seq(AnyParts) /\ Len(uploads') <= MaxUploads
      BY <3>1, <3>5 DEF IInv, Types, UploadTypes
    <3>4. Len(uploads') \in Nat
      BY <3>3, LenProperties
    <3> QED
      BY <2>1, <2>2, <3>2, <3>3, <3>4 DEF IInv, Types, FileTypes, UploadTypes
  <2>5. RunTypes' /\ PartTypes' /\ BufferTypes'
    BY <2>1 DEF IInv, Types, RunTypes, PartTypes, BufferTypes, sendVars
  <2>6. Scanned' /\ Working' /\ Unstarted' /\ Unlisted' /\ First'
        /\ Matching' /\ Resuming' /\ Streaming' /\ CopyIsExact'
    BY <2>1, <2>2 DEF IInv, Scanned, Working, Unstarted, Unlisted, First, Matching,
       Resuming, Streaming, CopyIsExact, sendVars
  <2> QED
    BY <2>3, <2>4, <2>5, <2>6 DEF IInv, Types
<1>2. CASE Killed \/ NextRun
  <2>1. /\ UNCHANGED <<src, there, obj, uploads>> /\ pc # "down" /\ Leave("down")
        /\ size' = 0 /\ edited' = FALSE /\ psize' = Min(PartSizes)
    BY <1>2 DEF Killed, NextRun, RunEnds
  <2>2. psize' \in PartSizes
    BY <2>1, S3PutAssumption, MinIs
  <2>3. FlagTypes'
    BY <2>1 DEF IInv, Types, FlagTypes, Leave
  <2>4. size' \in 0 .. MaxLen
    BY <2>1, S3PutAssumption
  <2>5. CopyIsExact'
    BY <2>1 DEF CopyIsExact, Leave
  <2> QED
    BY <2>1, <2>2, <2>3, <2>4, <2>5, LeaveKeeps
       DEF IInv, Types, FileTypes, UploadTypes
<1>3. CASE GiveUp \/ CallFails
  <2>1. /\ UNCHANGED <<src, edited, psize, size, uploads>> /\ pc # "down" /\ Leave("failed")
        /\ \/ UNCHANGED <<there, obj>>
           \/ pc = "single" /\ there' = TRUE /\ obj' = buf[1]
    BY <1>3 DEF GiveUp, AllRead, CallFails
  <2>2. obj' \in Seq(Blocks) /\ Len(obj') <= MaxLen
    BY <2>1, Given DEF IInv, Types, FileTypes, BufferTypes
  <2>3. FlagTypes'
    BY <2>1 DEF IInv, Types, FlagTypes, Leave
  <2>4. CopyIsExact'
    BY <2>1 DEF CopyIsExact, Leave
  <2>5. size' \in 0 .. MaxLen /\ psize' \in PartSizes
        /\ uploads' \in Seq(AnyParts) /\ Len(uploads') <= MaxUploads
    BY <2>1 DEF IInv, Types, RunTypes, UploadTypes
  <2> QED
    BY <2>1, <2>2, <2>3, <2>4, <2>5, LeaveKeeps
<1> QED
  BY <1>1, <1>2, <1>3

-----------------------------------------------------------------------------
(* The managed uploader.                                                   *)

LEMMA CreateUploadKeeps == ASSUME IInv, CreateUpload PROVE IInv'
<1> DEFINE others == IF Len(uploads) = MaxUploads THEN Tail(uploads) ELSE uploads
<1> USE DEF Goto, runVars
<1>1. /\ UNCHANGED <<src, edited, there, obj, psize, size, listed, kept, buf, acked,
                     lastRead, err>>
      /\ pc = "create" /\ pc' = "stream" /\ doing' = {1} /\ next' = 2
      /\ uploads' = Append(others, NoParts) /\ up' = Len(others) + 1
  BY DEF CreateUpload
<1>2. /\ others \in Seq(AnyParts) /\ Len(others) \in Nat
      /\ Append(others, NoParts) \in Seq(AnyParts)
      /\ Len(Append(others, NoParts)) = Len(others) + 1
      /\ Len(others) + 1 <= MaxUploads
  <2>1. UploadTypes
    BY DEF IInv, Types
  <2>2. others = IF Len(uploads) = MaxUploads THEN Tail(uploads) ELSE uploads
    OBVIOUS
  <2> HIDE DEF others
  <2> QED
    BY <2>1, <2>2, Opens
<1> HIDE DEF others
<1>3. /\ psize \in Nat \ {0} /\ 1 \in PartNos /\ MaxLen \in Nat
      /\ PartNos \subseteq Nat \ {0}
  BY Given DEF IInv, Types
<1>4. FlagTypes' /\ FileTypes' /\ UploadTypes'
  BY <1>1, <1>2 DEF IInv, Types, FlagTypes, FileTypes, UploadTypes
<1>5. RunTypes'
  <2>1. 2 \in 1 .. MaxLen + 2
    BY <1>3
  <2> QED
    BY <1>1, <2>1 DEF IInv, Types, RunTypes, Places
<1>6. PartTypes'
  <2>1. Cardinality({1}) = 1
    BY FS_Singleton
  <2> QED
    BY <1>1, <1>3, <2>1, S3PutAssumption DEF IInv, Types, PartTypes
<1>7. BufferTypes'
  BY <1>1, <1>3 DEF IInv, Types, BufferTypes, Unstarted
<1>8. Scanned' /\ Working' /\ Unstarted' /\ Unlisted' /\ First'
      /\ Matching' /\ Resuming' /\ CopyIsExact'
  BY <1>1, <1>2 DEF IInv, Scanned, Working, Unstarted, Unlisted, First, Matching, Resuming,
         CopyIsExact
<1>9. Streaming'
  <2>1. acked = {} /\ ~lastRead
    BY <1>1 DEF IInv, Unstarted
  <2>2. Len(buf[1]) = psize /\ (~edited => buf[1] = Chunk(1)) /\ Len(buf[1]) <= MaxLen
    BY <1>1, <1>3 DEF IInv, First, Types, BufferTypes
  <2>3. (2 - 2) * psize = 0 /\ (1 - 1) * psize = 0 /\ 2 - 1 = 1
    BY <1>3
  <2>4. Chunk(1)' = Chunk(1)
    BY <1>1, PartsStay
  <2>5. IsChunk(1, buf[1])'
    BY <1>1, <1>3, <2>1, <2>2, <2>3, <2>4 DEF IsChunk
  <2>6. 1 .. next' - 1 = {1}
    BY <1>1
  <2>7. (next' - 2) * psize' < MaxLen
    BY <1>1, <1>3, <2>2, <2>3
  <2> QED
    BY <1>1, <2>1, <2>5, <2>6, <2>7 DEF Streaming
<1> QED
  BY <1>4, <1>5, <1>6, <1>7, <1>8, <1>9 DEF IInv, Types

\* It reads a further part, or finds that there is none.
LEMMA ReadNextKeeps == ASSUME IInv, ReadNext PROVE IInv'
<1> USE DEF runVars, storeVars
<1>1. /\ UNCHANGED <<src, edited, there, obj, uploads, pc, psize, size, up, listed, kept,
                     acked, err>>
      /\ pc = "stream" /\ ~lastRead /\ ~err
      /\ Cardinality(doing) < Concurrency
  BY DEF ReadNext
<1>2. \/ Chunk(next) = None /\ UNCHANGED <<next, doing, buf>>
      \/ /\ Chunk(next) # None
         /\ doing' = doing \cup {next} /\ buf' = [buf EXCEPT ![next] = Chunk(next)]
         /\ next' = next + 1
  BY DEF ReadNext
<1>3. /\ src \in Seq(Blocks) /\ psize \in Nat \ {0} /\ 1 \in PartNos /\ MaxLen \in Nat
      /\ PartNos \subseteq Nat \ {0} /\ Len(src) \in 0 .. MaxLen
  BY Given DEF IInv, Types
<1>4. /\ next \in Nat \ {0} /\ next >= 2 /\ (next - 2) * psize < MaxLen
      /\ doing \cup acked \subseteq 1 .. next - 1
      /\ 1 .. next - 1 \subseteq doing \cup acked
      /\ \A n \in acked : IsChunk(n, uploads[up][n])
      /\ \A n \in doing : IsChunk(n, buf[n])
  BY <1>1, <1>3 DEF IInv, Types, RunTypes, Streaming
<1>5. /\ Chunk(next) \in Seq(Blocks) /\ Len(Chunk(next)) \in 0 .. psize
      /\ Len(Chunk(next)) < psize => next * psize > Len(src)
      /\ Chunk(next) # None => /\ Len(Chunk(next)) \in 1 .. psize
                               /\ (next - 1) * psize + Len(Chunk(next)) <= Len(src)
      /\ Chunk(next) = None => (next - 1) * psize >= Len(src)
  BY <1>3, <1>4, ChunkIs
<1>6. (next - 1) * psize \in Nat /\ (next - 1) * psize >= next - 1
  BY <1>3, <1>4, PartBegins
<1>7. lastRead' \in BOOLEAN /\ (lastRead' <=> Len(Chunk(next)) < psize)
  <2>1. lastRead' \in BOOLEAN
    <3>1. (Len(Chunk(next)) < psize) \in BOOLEAN
      OBVIOUS
    <3>2. lastRead' = (Len(Chunk(next)) < psize)
      BY Zenon DEF ReadNext
    <3> QED
      BY <3>1, <3>2, Zenon
  <2>2. lastRead' => Len(Chunk(next)) < psize
    BY Zenon DEF ReadNext
  <2>3. Len(Chunk(next)) < psize => lastRead'
    BY Zenon DEF ReadNext
  <2> QED
    BY <2>1, <2>2, <2>3
<1>8. \A n : Chunk(n)' = Chunk(n)
  BY <1>1, PartsStay
<1>9. FlagTypes' /\ FileTypes' /\ UploadTypes'
  BY <1>1, <1>7 DEF IInv, Types, FlagTypes, FileTypes, UploadTypes
<1>10. Scanned' /\ Working' /\ Unstarted' /\ Unlisted' /\ First'
      /\ Matching' /\ Resuming' /\ CopyIsExact'
  BY <1>1 DEF IInv, Scanned, Working, Unstarted, Unlisted, First, Matching, Resuming,
         CopyIsExact
<1>11. CASE Chunk(next) = None
  <2>1. UNCHANGED <<next, doing, buf>>
    BY <1>2, <1>11
  <2>2. RunTypes' /\ PartTypes' /\ BufferTypes'
    BY <1>1, <2>1 DEF IInv, Types, RunTypes, PartTypes, BufferTypes
  <2>3. \A n, b : IsChunk(n, b) => IsChunk(n, b)'
    BY <1>1, <1>8, <2>1 DEF IsChunk
  <2>4. (next - 1) * psize >= Len(src)
    BY <1>5, <1>11
  <2>5. Streaming'
    BY <1>1, <1>4, <2>1, <2>3, <2>4 DEF Streaming
  <2> QED
    BY <1>9, <1>10, <2>2, <2>5 DEF IInv, Types
<1>12. CASE Chunk(next) # None
  <2>1. /\ doing' = doing \cup {next} /\ buf' = [buf EXCEPT ![next] = Chunk(next)]
        /\ next' = next + 1
    BY <1>2, <1>12
  <2>2. next - 1 < MaxLen /\ next \in PartNos /\ next \notin doing /\ next \notin acked
    BY <1>3, <1>4, <1>5, <1>6, <1>12 DEF PartNos
  <2>3. RunTypes'
    BY <1>1, <1>3, <1>4, <2>1, <2>2 DEF IInv, Types, RunTypes
  <2>4. PartTypes'
    <3>1. IsFiniteSet(doing) /\ Cardinality(doing) \in Nat
      BY PartNosFinite DEF IInv, Types, PartTypes
    <3>2. Cardinality(doing \cup {next}) = Cardinality(doing) + 1
      BY <2>2, <3>1, FS_AddElement
    <3> QED
      BY <1>1, <2>1, <2>2, <3>1, <3>2, S3PutAssumption DEF IInv, Types, PartTypes
  <2>5. buf' \in [PartNos -> Seq(Blocks)] /\ buf'[next] = Chunk(next)
        /\ \A n \in PartNos : n # next => buf'[n] = buf[n]
    BY <1>5, <2>1, <2>2 DEF IInv, Types, BufferTypes
  <2>6. Len(Chunk(next)) <= MaxLen /\ (next - 1) * psize < MaxLen
    BY <1>3, <1>5, <1>6, <1>12
  <2>7. BufferTypes'
    BY <1>1, <2>1, <2>5, <2>6 DEF IInv, Types, BufferTypes
  <2>8. \A n, b : IsChunk(n, b) => IsChunk(n, b)'
    BY <1>1, <1>8 DEF IsChunk
  <2>9. PICK k \in PartNos : k = next
    BY <2>2
  <2>10. PICK b \in Seq(Blocks) : b = Chunk(next)
    BY <1>5
  <2>11. IsChunk(k, b)'
    <3>1. (k - 1) * psize + Len(b) <= MaxLen /\ Len(b) \in 1 .. psize
      BY <1>3, <1>5, <1>6, <1>12, <2>9, <2>10
    <3>2. ~lastRead' => Len(b) = psize
      BY <1>3, <1>7, <2>10, <3>1
    <3>3. ~(k < next' - 1)
      BY <1>4, <2>1, <2>9
    <3> QED
      BY <1>1, <1>8, <2>9, <2>10, <3>1, <3>2, <3>3 DEF IsChunk
  <2>16. (\A n \in doing : IsChunk(n, buf[n]))'
    BY <1>4, <2>1, <2>2, <2>5, <2>8, <2>9, <2>10, <2>11 DEF IInv, Types, PartTypes
  <2>17. (\A n \in acked : IsChunk(n, uploads[up][n]))'
    BY <1>1, <1>4, <2>8
  <2>12. /\ doing' \cup acked' \subseteq 1 .. next' - 1
         /\ 1 .. next' - 1 \subseteq doing' \cup acked'
    BY <1>1, <1>4, <2>1
  <2>13. (next' - 2) * psize' < MaxLen /\ next' >= 2
    <3>1. next' - 2 = next - 1 /\ psize' = psize
      BY <1>1, <1>4, <2>1
    <3> QED
      BY <1>4, <2>1, <2>6, <3>1
  <2>14. lastRead' => (next' - 1) * psize' >= Len(src')
    <3>1. next' - 1 = next /\ psize' = psize /\ src' = src
      BY <1>1, <1>4, <2>1
    <3>2. next * psize \in Nat
      BY <1>3, <1>4
    <3> QED
      BY <1>3, <1>5, <1>7, <3>1, <3>2
  <2>15. Streaming'
    BY <1>1, <2>16, <2>17, <2>12, <2>13, <2>14 DEF Streaming
  <2> QED
    BY <1>9, <1>10, <2>3, <2>4, <2>7, <2>15 DEF IInv, Types
<1> QED
  BY <1>11, <1>12

-----------------------------------------------------------------------------
(* uploadMissingParts.                                                     *)

\* What all steps of a resumed upload, and the sending of parts, leave alone.
LEMMA SendingKeeps ==
    ASSUME IInv, pc \in {"stream", "resume"},
           UNCHANGED <<src, edited, there, obj, pc, psize, size, up, listed, kept>>,
           err' \in BOOLEAN, lastRead' \in BOOLEAN,
           next' \in 1 .. MaxLen + 2,
           uploads' \in Seq(AnyParts), Len(uploads') = Len(uploads),
           doing' \cup acked' \subseteq PartNos, Cardinality(doing') <= Concurrency,
           BufferTypes',
           Resuming', Streaming'
    PROVE  IInv'
<1>1. FlagTypes' /\ FileTypes' /\ RunTypes'
  BY DEF IInv, Types, FlagTypes, FileTypes, RunTypes
<1>2. UploadTypes' /\ PartTypes'
  BY DEF IInv, Types, UploadTypes, PartTypes
<1>3. Scanned' /\ Working' /\ Unstarted' /\ Unlisted' /\ First'
      /\ Matching' /\ CopyIsExact'
  BY DEF IInv, Scanned, Working, Unstarted, Unlisted, First, Matching, CopyIsExact
<1> QED
  BY <1>1, <1>2, <1>3 DEF IInv, Types

\* The parts that are left are parts; the first of them comes next.
LEMMA RemainingIs ==
    ASSUME IInv, pc = "resume"
    PROVE  /\ TotalParts \in Nat /\ TotalParts <= MaxLen
           /\ 1 .. TotalParts \subseteq PartNos
           /\ next \in Nat \ {0}
           /\ Remaining \subseteq next .. TotalParts
           /\ Remaining # {} =>
                /\ Min(Remaining) \in Remaining
                /\ next .. Min(Remaining) - 1 \subseteq kept
<1>1. size \in Nat /\ size <= MaxLen /\ MaxLen \in Nat /\ psize \in Nat \ {0}
  BY Given DEF IInv, Types
<1>2. TotalParts \in 0 .. size
  BY <1>1, PartsOf
<1>3. next \in Nat \ {0}
  BY <1>1 DEF IInv, Types, RunTypes
<1>4. Remaining = (next .. TotalParts) \ kept
  BY DEF Remaining
<1>5. ASSUME Remaining # {}
      PROVE  Min(Remaining) \in Remaining /\ next .. Min(Remaining) - 1 \subseteq kept
  <2>1. Remaining \in SUBSET Nat
    BY <1>2, <1>3, <1>4
  <2>2. Min(Remaining) \in Remaining /\ \A y \in Remaining : Min(Remaining) =< y
    BY <1>5, <2>1, MinIs
  <2>3. ASSUME NEW n \in next .. Min(Remaining) - 1, n \notin kept PROVE FALSE
    <3>1. n \in Remaining /\ ~(Min(Remaining) =< n)
      BY <1>2, <1>3, <1>4, <2>2, <2>3
    <3> QED
      BY <2>2, <3>1
  <2> QED
    BY <2>2, <2>3
<1>6. TotalParts \in Nat /\ TotalParts <= MaxLen
  BY <1>1, <1>2
<1>7. 1 .. TotalParts \subseteq PartNos
  BY <1>1, <1>6 DEF PartNos
<1> QED
  BY <1>3, <1>4, <1>5, <1>6, <1>7

LEMMA SpawnKeeps == ASSUME IInv, Spawn PROVE IInv'
<1> DEFINE x == Min(Remaining)
<1> USE DEF storeVars, runVars
<1>1. /\ UNCHANGED <<src, edited, there, obj, uploads, pc, psize, size, up, listed, kept,
                     buf, acked, lastRead, err>>
      /\ pc = "resume" /\ Remaining # {} /\ Cardinality(doing) < Concurrency
      /\ doing' = doing \cup {x} /\ next' = x + 1
  BY DEF Spawn
<1>2. /\ TotalParts \in Nat /\ TotalParts <= MaxLen /\ 1 .. TotalParts \subseteq PartNos
      /\ next \in Nat \ {0} /\ Remaining \subseteq next .. TotalParts
      /\ x \in Remaining /\ next .. x - 1 \subseteq kept
  BY <1>1, RemainingIs
<1> HIDE DEF x
<1>3. /\ x \in PartNos /\ x \in Nat /\ next <= x /\ x <= TotalParts /\ x \notin kept
      /\ MaxLen \in Nat
  BY <1>2, Given DEF Remaining, IInv, Types
<1>4. /\ kept \subseteq acked /\ acked \subseteq kept \cup (1 .. next - 1)
      /\ acked \subseteq 1 .. TotalParts /\ doing \subseteq (1 .. next - 1)
      /\ ~err => 1 .. next - 1 \subseteq doing \cup acked
      /\ \A n \in acked : IsPortion(n, uploads[up][n])
      /\ \A n \in doing : buf[n] # None => IsPortion(n, buf[n])
      /\ Differ(doing \cup Remaining)
  BY <1>1 DEF IInv, Resuming
<1>5. doing \subseteq PartNos /\ x \notin doing
  BY <1>2, <1>3, <1>4 DEF IInv, Types, PartTypes
<1>6. Cardinality(doing') <= Concurrency
  <2>1. IsFiniteSet(doing) /\ Cardinality(doing) \in Nat
    BY <1>5, PartNosFinite
  <2>2. Cardinality(doing \cup {x}) = Cardinality(doing) + 1
    BY <1>5, <2>1, FS_AddElement
  <2> QED
    BY <1>1, <2>1, <2>2, S3PutAssumption
<1>7. buf[x] = None
  BY <1>1, <1>3, <1>5 DEF IInv, Types, BufferTypes
<1>8. BufferTypes'
  BY <1>1 DEF IInv, Types, BufferTypes
<1>9. /\ TotalParts' = TotalParts
      /\ \A n : PartBytes(n)' = PartBytes(n)
      /\ \A n : Portion(n)' = Portion(n)
  BY <1>1, PartsStay
<1>10. \A n, b : IsPortion(n, b)' <=> IsPortion(n, b)
  BY <1>1, <1>9 DEF IsPortion
<1>11. Remaining' \subseteq Remaining
  BY <1>1, <1>2, <1>3, <1>9 DEF Remaining
<1>12. Resuming'
  <2>1. Differ(doing \cup Remaining)'
    BY <1>1, <1>2, <1>4, <1>9, <1>11 DEF Differ
  <2>2. (\A n \in acked : IsPortion(n, uploads[up][n]))'
    BY <1>1, <1>4, <1>10
  <2>3. (\A n \in doing : buf[n] # None => IsPortion(n, buf[n]))'
    BY <1>1, <1>4, <1>7, <1>10
  <2>4. /\ doing' \subseteq (1 .. next' - 1)
        /\ acked' \subseteq kept' \cup (1 .. next' - 1)
        /\ next' <= TotalParts' + 1
    BY <1>1, <1>2, <1>3, <1>4, <1>9
  <2>5. ~err' => 1 .. next' - 1 \subseteq doing' \cup acked'
    BY <1>1, <1>2, <1>3, <1>4
  <2> QED
    BY <1>1, <1>4, <1>9, <2>1, <2>2, <2>3, <2>4, <2>5 DEF Resuming
<1>13. Streaming'
  BY <1>1 DEF Streaming
<1>14. next' \in 1 .. MaxLen + 2 /\ doing' \cup acked' \subseteq PartNos
  BY <1>1, <1>2, <1>3, <1>5 DEF IInv, Types, PartTypes
<1>15. err' \in BOOLEAN /\ lastRead' \in BOOLEAN
  BY <1>1 DEF IInv, Types, FlagTypes
<1> QED
  BY <1>1, <1>6, <1>8, <1>12, <1>13, <1>14, <1>15, SendingKeeps
     DEF IInv, Types, UploadTypes

\* An error, of a part or of the context, stops the loop over the parts.
LEMMA StoppingKeeps == ASSUME IInv, StopSpawning \/ LoopCancelled PROVE IInv'
<1> USE DEF storeVars, runVars
<1>1. /\ UNCHANGED <<src, edited, there, obj, uploads, pc, psize, size, up, listed, kept,
                     doing, buf, acked, lastRead>>
      /\ pc = "resume" /\ err' = TRUE /\ next' \in {next, TotalParts + 1}
      /\ Remaining # {}
  <2>1. CASE StopSpawning
    <3>1. err = TRUE
      BY <2>1 DEF StopSpawning, IInv, Types, FlagTypes
    <3> QED
      BY <2>1, <3>1 DEF StopSpawning
  <2>2. CASE LoopCancelled
    BY <2>2 DEF LoopCancelled
  <2> QED
    BY <2>1, <2>2
<1>2. /\ TotalParts \in Nat /\ TotalParts <= MaxLen /\ next \in Nat \ {0}
      /\ MaxLen \in Nat
  BY <1>1, RemainingIs, Given DEF IInv, Types
<1>3. /\ next <= TotalParts + 1 /\ next' \in Nat /\ next' >= next
      /\ next' <= TotalParts + 1 /\ next' \in 1 .. MaxLen + 2
  BY <1>1, <1>2 DEF IInv, Resuming
<1>4. /\ TotalParts' = TotalParts
      /\ \A n : PartBytes(n)' = PartBytes(n)
      /\ \A n : Portion(n)' = Portion(n)
  BY <1>1, PartsStay
<1>5. Remaining' \subseteq Remaining
  BY <1>1, <1>2, <1>3, <1>4 DEF Remaining
<1>6. \A n, b : IsPortion(n, b)' <=> IsPortion(n, b)
  BY <1>1, <1>4 DEF IsPortion
<1>7. Resuming'
  <2>1. Differ(doing \cup Remaining)'
    BY <1>1, <1>4, <1>5 DEF Differ, IInv, Resuming
  <2>2. (\A n \in acked : IsPortion(n, uploads[up][n]))'
        /\ (\A n \in doing : buf[n] # None => IsPortion(n, buf[n]))'
    BY <1>1, <1>6 DEF IInv, Resuming
  <2>3. /\ doing' \subseteq (1 .. next' - 1)
        /\ acked' \subseteq kept' \cup (1 .. next' - 1)
    BY <1>1, <1>2, <1>3 DEF IInv, Resuming
  <2> QED
    BY <1>1, <1>3, <1>4, <2>1, <2>2, <2>3 DEF Resuming, IInv
<1>8. Streaming' /\ BufferTypes'
  BY <1>1 DEF Streaming, IInv, Types, BufferTypes
<1>9. err' \in BOOLEAN /\ lastRead' \in BOOLEAN
  BY <1>1 DEF IInv, Types, FlagTypes
<1> QED
  BY <1>1, <1>3, <1>7, <1>8, <1>9, SendingKeeps DEF IInv, Types, UploadTypes, PartTypes

\* A part less is under way.
LEMMA OneLess ==
    ASSUME NEW S, S \subseteq PartNos, NEW n, Cardinality(S) <= Concurrency
    PROVE  Cardinality(S \ {n}) <= Concurrency
<1>1. IsFiniteSet(S) /\ Cardinality(S) \in Nat /\ Cardinality(S \ {n}) \in Nat
  BY PartNosFinite
<1>2. Cardinality(S \ {n}) <= Cardinality(S)
  BY <1>1, FS_Subset
<1> QED
  BY <1>1, <1>2, S3PutAssumption

\* A goroutine reads its part, or fails to.
LEMMA ReadPartKeeps ==
    ASSUME IInv, NEW n \in PartNos, ReadPart(n)
    PROVE  IInv'
<1> USE DEF storeVars, runVars
<1>1. /\ UNCHANGED <<src, edited, there, obj, uploads, pc, psize, size, up, listed, kept,
                     next, acked, lastRead>>
      /\ pc = "resume" /\ n \in doing /\ buf[n] = None
      /\ \/ /\ Len(Portion(n)) = PartBytes(n) /\ UNCHANGED <<doing, err>>
            /\ buf' = [buf EXCEPT ![n] = Portion(n)]
         \/ doing' = doing \ {n} /\ err' = TRUE /\ UNCHANGED buf
  BY DEF ReadPart
<1>2. /\ TotalParts' = TotalParts
      /\ \A m : PartBytes(m)' = PartBytes(m)
      /\ \A m : Portion(m)' = Portion(m)
  BY <1>1, PartsStay
<1>3. \A m, b : IsPortion(m, b)' <=> IsPortion(m, b)
  BY <1>1, <1>2 DEF IsPortion
<1>4. /\ next <= TotalParts + 1 /\ kept \subseteq acked
      /\ acked \subseteq kept \cup (1 .. next - 1)
      /\ acked \subseteq 1 .. TotalParts /\ doing \subseteq (1 .. next - 1)
      /\ ~err => 1 .. next - 1 \subseteq doing \cup acked
      /\ \A m \in acked : IsPortion(m, uploads[up][m])
      /\ \A m \in doing : buf[m] # None => IsPortion(m, buf[m])
      /\ Differ(doing \cup Remaining)
  BY <1>1 DEF IInv, Resuming
<1>5. Remaining' = Remaining
  BY <1>1, <1>2 DEF Remaining
<1>6. Differ(doing \cup Remaining)'
  BY <1>1, <1>2, <1>4, <1>5 DEF Differ
<1>7. (\A m \in acked : IsPortion(m, uploads[up][m]))'
  BY <1>1, <1>3, <1>4
<1>8. Streaming'
  BY <1>1 DEF Streaming
<1>9. doing \subseteq PartNos /\ acked \subseteq PartNos /\ Cardinality(doing) <= Concurrency
      /\ err \in BOOLEAN /\ lastRead \in BOOLEAN
      /\ buf \in [PartNos -> Seq(Blocks)] /\ next \in 1 .. MaxLen + 2
  BY DEF IInv, Types, PartTypes, FlagTypes, BufferTypes, RunTypes
<1>10. doing' \subseteq doing /\ Cardinality(doing') <= Concurrency /\ err' \in BOOLEAN
  BY <1>1, <1>9, OneLess
<1>11. CASE UNCHANGED <<doing, err>> /\ buf' = [buf EXCEPT ![n] = Portion(n)]
            /\ Len(Portion(n)) = PartBytes(n)
  <2>1. /\ src \in Seq(Blocks) /\ Len(src) \in 0 .. MaxLen /\ MaxLen \in Nat
        /\ psize \in Nat \ {0} /\ size \in Nat /\ size <= MaxLen
    BY Given DEF IInv, Types
  <2>2. TotalParts \in Nat /\ next \in Nat
    BY <1>1, RemainingIs
  <2>3. n \in 1 .. TotalParts
    BY <1>1, <1>4, <2>2
  <2> DEFINE lo == (n - 1) * psize
  <2>4. lo \in Nat /\ PartBytes(n) \in 1 .. psize /\ lo + PartBytes(n) <= size
    BY <2>1, <2>3, PartBytesIs
  <2> HIDE DEF lo
  <2>5. Portion(n) \in Seq(Blocks) /\ lo < MaxLen /\ Len(Portion(n)) <= MaxLen
    <3>1. Portion(n) = ReadAt(lo, PartBytes(n))
      BY DEF Portion, lo
    <3>2. Portion(n) \in Seq(Blocks)
      BY <2>1, <2>4, <3>1, ReadIs
    <3> QED
      BY <1>11, <2>1, <2>4, <3>2
  <2>6. /\ buf' \in [PartNos -> Seq(Blocks)] /\ buf'[n] = Portion(n)
        /\ \A m \in PartNos : m # n => buf'[m] = buf[m]
    BY <1>9, <1>11, <2>5
  <2>7. BufferTypes'
    <3>1. \A m \in PartNos : Len(buf'[m]) <= MaxLen
      BY <2>5, <2>6 DEF IInv, Types, BufferTypes
    <3>2. (n - 1) * psize < MaxLen
      BY <2>5 DEF lo
    <3> QED
      BY <1>1, <1>11, <2>6, <3>1, <3>2 DEF IInv, Types, BufferTypes
  <2>8. (\A m \in doing : buf[m] # None => IsPortion(m, buf[m]))'
    <3>1. \A b : b = Portion(n) => IsPortion(n, b)
      BY <1>11 DEF IsPortion
    <3> QED
      BY <1>3, <1>4, <1>9, <1>11, <2>6, <3>1
  <2>9. Resuming'
    BY <1>1, <1>2, <1>4, <1>6, <1>7, <1>11, <2>8 DEF Resuming
  <2> QED
    BY <1>1, <1>8, <1>9, <1>10, <2>7, <2>9, SendingKeeps DEF IInv, Types, UploadTypes
<1>12. CASE doing' = doing \ {n} /\ err' = TRUE /\ UNCHANGED buf
  <2>1. BufferTypes'
    BY <1>1, <1>12 DEF IInv, Types, BufferTypes
  <2>2. (\A m \in doing : buf[m] # None => IsPortion(m, buf[m]))'
    BY <1>3, <1>4, <1>12
  <2>3. Resuming'
    BY <1>1, <1>2, <1>4, <1>6, <1>7, <1>10, <1>12, <2>2 DEF Resuming
  <2> QED
    BY <1>1, <1>8, <1>9, <1>10, <2>1, <2>3, SendingKeeps DEF IInv, Types, UploadTypes
<1> QED
  BY <1>1, <1>11, <1>12

\* The store takes a part, and its ETag is entered or something failed.
LEMMA PartEndsKeeps ==
    ASSUME IInv, NEW n \in PartNos, SendPart(n) \/ PartFails(n)
    PROVE  IInv'
<1> USE DEF storeVars, runVars
<1>1. /\ UNCHANGED <<src, edited, there, obj, pc, psize, size, up, listed, kept,
                     next, lastRead>>
      /\ pc \in {"stream", "resume"} /\ n \in doing
      /\ doing' = doing \ {n} /\ buf' = [buf EXCEPT ![n] = None]
  BY DEF SendPart, PartFails
<1>2. \/ uploads' = uploads
      \/ buf[n] # None /\ uploads' = [uploads EXCEPT ![up][n] = buf[n]]
  BY DEF SendPart, PartFails
<1>3. \/ acked' = acked /\ err' = TRUE
      \/ /\ acked' = acked \cup {n} /\ err' = err
         /\ buf[n] # None /\ uploads' = [uploads EXCEPT ![up][n] = buf[n]]
  BY DEF SendPart, PartFails
<1>4. doing \subseteq PartNos /\ acked \subseteq PartNos /\ Cardinality(doing) <= Concurrency
      /\ err \in BOOLEAN /\ lastRead \in BOOLEAN
      /\ buf \in [PartNos -> Seq(Blocks)] /\ next \in 1 .. MaxLen + 2
      /\ up # 0 /\ UploadTypes /\ BufferTypes /\ RunTypes /\ FileTypes
  BY <1>1 DEF IInv, Types, PartTypes, FlagTypes, BufferTypes, RunTypes, Working
<1>5. /\ uploads' \in Seq(AnyParts) /\ Len(uploads') = Len(uploads)
      /\ \A m \in PartNos : m # n => uploads'[up][m] = uploads[up][m]
      /\ uploads'[up][n] \in {uploads[up][n], buf[n]}
      /\ uploads'[up][n] # uploads[up][n] => buf[n] # None
      /\ acked' # acked => uploads'[up][n] = buf[n] /\ buf[n] # None
  <2>1. UploadTypes /\ BufferTypes /\ RunTypes /\ FileTypes /\ up # 0
    BY <1>4
  <2>2. ASSUME buf[n] # None, uploads' = [uploads EXCEPT ![up][n] = buf[n]]
        PROVE  /\ uploads' \in Seq(AnyParts) /\ Len(uploads') = Len(uploads)
               /\ uploads'[up][n] = buf[n]
               /\ \A m \in PartNos : m # n => uploads'[up][m] = uploads[up][m]
    BY <2>1, <2>2, Stores
  <2>3. acked' # acked =>
            buf[n] # None /\ uploads' = [uploads EXCEPT ![up][n] = buf[n]]
    BY <1>3
  <2>4. acked' # acked => uploads'[up][n] = buf[n] /\ buf[n] # None
    BY <2>2, <2>3
  <2>5. CASE uploads' = uploads
    BY <2>4, <2>5 DEF IInv, Types, UploadTypes
  <2>6. CASE buf[n] # None /\ uploads' = [uploads EXCEPT ![up][n] = buf[n]]
    BY <2>2, <2>4, <2>6
  <2> QED
    BY <1>2, <2>5, <2>6
<1>6. /\ buf' \in [PartNos -> Seq(Blocks)] /\ buf'[n] = None
      /\ \A m \in PartNos : m # n => buf'[m] = buf[m]
  BY <1>1, <1>4, NothingRead
<1>7. BufferTypes'
  <2>1. \A m \in PartNos : Len(buf'[m]) <= MaxLen
    BY <1>4, <1>6, NothingRead, S3PutAssumption DEF BufferTypes
  <2> QED
    BY <1>1, <1>4, <1>6, <2>1 DEF BufferTypes
<1>8. doing' \cup acked' \subseteq PartNos /\ Cardinality(doing') <= Concurrency
  BY <1>1, <1>3, <1>4, OneLess
<1>9. err' \in BOOLEAN
  BY <1>3, <1>4
<1>10. /\ TotalParts' = TotalParts
       /\ \A m : PartBytes(m)' = PartBytes(m)
       /\ \A m : Portion(m)' = Portion(m)
       /\ \A m : Chunk(m)' = Chunk(m)
  BY <1>1, PartsStay
<1>11. /\ \A m, b : IsPortion(m, b)' <=> IsPortion(m, b)
       /\ \A m, b : IsChunk(m, b)' <=> IsChunk(m, b)
  BY <1>1, <1>10 DEF IsPortion, IsChunk
<1>12. acked \subseteq acked' /\ acked' \subseteq acked \cup {n}
       /\ (~err' => acked' = acked \cup {n} /\ ~err)
  BY <1>3
<1>13. Resuming'
  <2> SUFFICES ASSUME pc = "resume" PROVE Resuming'
    BY <1>1 DEF Resuming
  <2>1. /\ next <= TotalParts + 1 /\ kept \subseteq acked
        /\ acked \subseteq kept \cup (1 .. next - 1)
        /\ acked \subseteq 1 .. TotalParts /\ doing \subseteq (1 .. next - 1)
        /\ ~err => 1 .. next - 1 \subseteq doing \cup acked
        /\ \A m \in acked : IsPortion(m, uploads[up][m])
        /\ \A m \in doing : buf[m] # None => IsPortion(m, buf[m])
        /\ Differ(doing \cup Remaining)
    BY DEF IInv, Resuming
  <2>2. /\ TotalParts \in Nat /\ 1 .. TotalParts \subseteq PartNos /\ next \in Nat
        /\ Remaining \subseteq next .. TotalParts
    BY RemainingIs
  <2>3. Remaining' = Remaining
    BY <1>1, <1>10 DEF Remaining
  <2>4. \A m \in doing' \cup Remaining : m \in PartNos /\ m # n /\ m \in doing \cup Remaining
    BY <1>1, <1>4, <2>1, <2>2
  <2>5. Differ(doing \cup Remaining)'
    BY <1>1, <1>5, <1>10, <2>1, <2>3, <2>4 DEF Differ
  <2>6. (\A m \in acked : IsPortion(m, uploads[up][m]))'
    <3>1. \A m \in acked' : IsPortion(m, uploads'[up][m])
      BY <1>1, <1>4, <1>5, <1>12, <2>1
    <3> QED
      BY <1>1, <1>11, <3>1
  <2>7. (\A m \in doing : buf[m] # None => IsPortion(m, buf[m]))'
    BY <1>1, <1>4, <1>6, <1>11, <2>1
  <2>8. n \in 1 .. next - 1 /\ n \in 1 .. TotalParts
    BY <1>1, <2>1, <2>2
  <2>9. /\ doing' \subseteq (1 .. next - 1) /\ kept \subseteq acked'
        /\ acked' \subseteq kept \cup (1 .. next - 1)
        /\ acked' \subseteq 1 .. TotalParts
    BY <1>1, <1>12, <2>1, <2>8
  <2>10. ~err' => 1 .. next - 1 \subseteq doing' \cup acked'
    BY <1>1, <1>12, <2>1
  <2> QED
    BY <1>1, <1>10, <2>1, <2>5, <2>6, <2>7, <2>9, <2>10 DEF Resuming
<1>14. Streaming'
  <2> SUFFICES ASSUME pc = "stream" PROVE Streaming'
    BY <1>1 DEF Streaming
  <2>1. /\ next >= 2 /\ (next - 2) * psize < MaxLen
        /\ doing \cup acked \subseteq 1 .. next - 1
        /\ ~err => 1 .. next - 1 \subseteq doing \cup acked
        /\ \A m \in acked : IsChunk(m, uploads[up][m])
        /\ \A m \in doing : IsChunk(m, buf[m])
        /\ (lastRead /\ ~edited) => (next - 1) * psize >= Len(src)
    BY DEF IInv, Streaming
  <2>2. (\A m \in acked : IsChunk(m, uploads[up][m]))'
    <3>1. \A m \in acked' : IsChunk(m, uploads'[up][m])
      BY <1>1, <1>4, <1>5, <1>12, <2>1
    <3> QED
      BY <1>1, <1>11, <3>1
  <2>3. (\A m \in doing : IsChunk(m, buf[m]))'
    BY <1>1, <1>4, <1>6, <1>11, <2>1
  <2>4. /\ doing' \cup acked' \subseteq 1 .. next - 1
        /\ ~err' => 1 .. next - 1 \subseteq doing' \cup acked'
    BY <1>1, <1>12, <2>1
  <2> QED
    BY <1>1, <2>1, <2>2, <2>3, <2>4 DEF Streaming
<1> QED
  BY <1>1, <1>4, <1>5, <1>7, <1>8, <1>9, <1>13, <1>14, SendingKeeps

-----------------------------------------------------------------------------
(* The upload is completed.                                                *)

\* What is completed is all parts: the source, if it was not edited.
LEMMA CompleteIs ==
    ASSUME IInv, AllRead, doing = {}, ~err
    PROVE  /\ Assembled(uploads[up], acked) \in Seq(Blocks)
           /\ Len(Assembled(uploads[up], acked)) <= MaxLen
           /\ ~edited => Assembled(uploads[up], acked) = src
<1> DEFINE p == uploads[up]
<1>1. pc \in {"stream", "resume"} /\ up \in 1 .. Len(uploads)
  BY DEF AllRead, IInv, Working, Types, UploadTypes
<1>2. p \in [PartNos -> Seq(Blocks)]
  <2>1. p \in AnyParts
    BY <1>1, ElementOfSeq DEF IInv, Types, UploadTypes
  <2> QED
    BY <2>1 DEF AnyParts
<1>3. /\ src \in Seq(Blocks) /\ psize \in Nat \ {0} /\ size \in Nat /\ size <= MaxLen
      /\ MaxLen \in Nat /\ PartNos \subseteq Nat \ {0} /\ Len(src) \in Nat
  BY Given DEF IInv, Types
<1>4. ~edited => size = Len(src)
  BY <1>1 DEF IInv, Scanned
<1>5. CASE pc = "resume"
  <2> DEFINE m == TotalParts
  <2>1. Remaining = {}
    BY <1>5 DEF AllRead
  <2>2. m \in Nat /\ m <= MaxLen /\ 1 .. m \subseteq PartNos /\ next \in Nat \ {0}
    BY <1>5, RemainingIs
  <2>3. acked = 1 .. m
    <3>1. /\ acked \subseteq 1 .. m /\ kept \subseteq acked
          /\ 1 .. next - 1 \subseteq acked
      BY <1>5 DEF IInv, Resuming
    <3>2. next .. m \subseteq kept
      BY <2>1 DEF Remaining
    <3>3. \A n \in 1 .. m : n \in 1 .. next - 1 \/ n \in next .. m
      BY <2>2
    <3> QED
      BY <3>1, <3>2, <3>3
  <2>4. \A n \in 1 .. m : IsPortion(n, p[n])
    BY <1>5, <2>3 DEF IInv, Resuming
  <2>5. m \in Steps /\ m * psize >= size
    BY <1>3, <2>2, PartsOf DEF Steps
  <2>6. Assembled(p, acked) \in Seq(Blocks)
    BY <1>2, <2>3, <2>5, JoinedEnd
  <2>7. Len(Assembled(p, acked)) <= MaxLen
    <3>1. CASE m = 0
      <4>1. Assembled(p, 1 .. m) = <<>>
        BY <1>2, <2>5, <3>1, JoinedEnd, JoinedIs
      <4> QED
        BY <1>3, <2>3, <4>1
    <3>2. CASE m # 0
      <4>1. m \in 1 .. m /\ m \in PartNos
        BY <2>2, <3>2
      <4>2. ASSUME NEW n \in 1 .. m - 1 PROVE Len(p[n]) = psize
        <5>1. n \in 1 .. TotalParts /\ n < TotalParts
          BY <2>2
        <5>2. PartBytes(n) = psize
          BY <1>3, <5>1, PartBytesIs
        <5> QED
          BY <2>4, <5>1, <5>2 DEF IsPortion
      <4>3. Len(p[m]) = size - (m - 1) * psize /\ (m - 1) * psize \in Nat
        BY <1>3, <2>4, <4>1, PartBytesIs DEF IsPortion
      <4> HIDE DEF m
      <4>4. Len(Assembled(p, 1 .. m)) = (m - 1) * psize + Len(p[m])
        BY <1>2, <1>3, <4>1, <4>2, JoinedLength
      <4> QED
        BY <1>3, <2>3, <4>3, <4>4
    <3> QED
      BY <3>1, <3>2
  <2>8. ASSUME ~edited PROVE Assembled(p, acked) = src
    <3>1. \A n \in 1 .. m : p[n] = Cut(src, n, psize)
      BY <1>3, <1>4, <2>4, <2>8, PortionIs DEF IsPortion
    <3>2. m * psize >= Len(src) /\ psize \in Nat
      BY <1>3, <1>4, <2>5, <2>8
    <3> HIDE DEF p, m
    <3>3. Assembled(p, 1 .. m) = src
      BY <1>2, <1>3, <2>5, <3>1, <3>2, JoinedExact
    <3> QED
      BY <2>3, <3>3
  <2> QED
    BY <2>6, <2>7, <2>8
<1>6. CASE pc = "stream"
  <2> DEFINE m == next - 1
  <2>1. lastRead
    BY <1>6 DEF AllRead
  <2>2. /\ next >= 2 /\ (next - 2) * psize < MaxLen /\ acked = 1 .. m
        /\ \A n \in 1 .. m : IsChunk(n, p[n])
        /\ ~edited => m * psize >= Len(src)
    BY <1>6, <2>1 DEF IInv, Streaming
  <2>3. m \in PartNos /\ m \in Steps /\ m \in Nat \ {0} /\ m \in 1 .. m
    <3>1. next \in Nat
      BY <1>3 DEF IInv, Types, RunTypes
    <3>2. next - 1 \in Nat \ {0}
      BY <2>2, <3>1
    <3>3. (next - 1 - 1) * psize >= next - 1 - 1
      BY <1>3, <3>2, PartBegins
    <3>4. next - 1 - 1 = next - 2
      BY <3>1
    <3>5. (next - 2) * psize \in Int
      BY <1>3, <3>1
    <3> QED
      BY <1>3, <2>2, <3>1, <3>2, <3>3, <3>4, <3>5 DEF PartNos, Steps
  <2>4. Assembled(p, acked) \in Seq(Blocks)
    BY <1>2, <2>2, <2>3, JoinedEnd
  <2>5. Len(Assembled(p, acked)) <= MaxLen
    <3>1. \A n \in 1 .. m - 1 : Len(p[n]) = psize
      BY <2>2, <2>3 DEF IsChunk
    <3>2. (m - 1) * psize + Len(p[m]) <= MaxLen
      BY <2>2, <2>3 DEF IsChunk
    <3> HIDE DEF m, p
    <3>3. Len(Assembled(p, 1 .. m)) = (m - 1) * psize + Len(p[m])
      BY <1>2, <1>3, <2>3, <3>1, JoinedLength
    <3> QED
      BY <2>2, <3>2, <3>3
  <2>6. ASSUME ~edited PROVE Assembled(p, acked) = src
    <3>1. ASSUME NEW n \in 1 .. m PROVE p[n] = Cut(src, n, psize)
      <4>1. n \in Nat \ {0}
        BY <2>3
      <4>2. p[n] = Chunk(n)
        BY <2>2, <2>6 DEF IsChunk
      <4> QED
        BY <1>3, <4>1, <4>2, ChunkIs
    <3>2. m * psize >= Len(src) /\ psize \in Nat
      BY <1>3, <2>2, <2>6
    <3> HIDE DEF p, m
    <3>3. Assembled(p, 1 .. m) = src
      BY <1>2, <1>3, <2>3, <3>1, <3>2, JoinedExact
    <3> QED
      BY <2>2, <3>3
  <2> QED
    BY <2>4, <2>5, <2>6
<1> QED
  BY <1>1, <1>5, <1>6

LEMMA CompletesKeep == ASSUME IInv, CompleteUpload \/ CompleteFails PROVE IInv'
<1> USE DEF runVars, storeVars
<1>1. /\ UNCHANGED <<src, edited, psize, size>> /\ AllRead /\ doing = {} /\ ~err
      /\ \/ there' = TRUE /\ obj' = Assembled(uploads[up], acked)
            /\ uploads' = RemoveAt(uploads, up)
         \/ UNCHANGED <<there, obj, uploads>>
  BY DEF CompleteUpload, CompleteFails, Complete
<1>2. \/ Leave("done") /\ there' = TRUE /\ obj' = Assembled(uploads[up], acked)
      \/ Leave("failed")
  BY DEF CompleteUpload, CompleteFails, Complete
<1>3. /\ Assembled(uploads[up], acked) \in Seq(Blocks)
      /\ Len(Assembled(uploads[up], acked)) <= MaxLen
      /\ ~edited => Assembled(uploads[up], acked) = src
  BY <1>1, CompleteIs
<1>4. obj' \in Seq(Blocks) /\ Len(obj') <= MaxLen
  BY <1>1, <1>3 DEF IInv, Types, FileTypes
<1>5. uploads' \in Seq(AnyParts) /\ Len(uploads') <= MaxUploads
  <2>1. up # 0 /\ UploadTypes
    BY <1>1 DEF AllRead, IInv, Working, Types
  <2>2. RemoveAt(uploads, up) \in Seq(AnyParts) /\ Len(RemoveAt(uploads, up)) = Len(uploads) - 1
        /\ Len(uploads) \in Nat
    BY <2>1, Drops, LenProperties DEF UploadTypes
  <2> QED
    BY <1>1, <2>1, <2>2, S3PutAssumption DEF UploadTypes
<1>6. FlagTypes'
  <2>1. there' \in BOOLEAN /\ edited' \in BOOLEAN
    BY <1>1 DEF IInv, Types, FlagTypes
  <2> QED
    BY <1>2, <2>1 DEF FlagTypes, Leave
<1>7. CopyIsExact'
  BY <1>1, <1>2, <1>3 DEF CopyIsExact, Leave
<1>8. pc # "down" /\ size' \in 0 .. MaxLen /\ psize' \in PartSizes
  BY <1>1 DEF AllRead, IInv, Types, RunTypes
<1>9. \E place \in {"done", "failed"} : Leave(place)
  BY <1>2
<1> QED
  BY <1>1, <1>4, <1>5, <1>6, <1>7, <1>8, <1>9, LeaveKeeps

-----------------------------------------------------------------------------
LEMMA Inductive == IInv /\ [Next]_vars => IInv'
<1> SUFFICES ASSUME IInv, [Next]_vars PROVE IInv'
  OBVIOUS
<1>1. CASE UNCHANGED vars
  <2> USE <1>1 DEF vars, storeVars, runVars, sendVars
  <2>1. Types'
    BY DEF IInv, Types, FlagTypes, FileTypes, RunTypes, UploadTypes, PartTypes, BufferTypes
  <2>2. Scanned' /\ Working' /\ Unstarted' /\ Unlisted' /\ First' /\ CopyIsExact'
    BY DEF IInv, Scanned, Working, Unstarted, Unlisted, First, CopyIsExact, Chunk, ReadAt
  <2>3. /\ TotalParts' = TotalParts
        /\ \A n : PartBytes(n)' = PartBytes(n)
        /\ \A n : Portion(n)' = Portion(n)
        /\ \A n : Chunk(n)' = Chunk(n)
    BY PartsStay
  <2>4. Matching' /\ Resuming' /\ Streaming'
    BY <2>3 DEF IInv, Matching, Resuming, Streaming, IsPortion, IsChunk, Differ, Remaining
  <2> QED
    BY <2>1, <2>2, <2>4 DEF IInv
<1>2. CASE Disturbance
  <2>1. CASE \E n \in PartNos : PartFails(n)
    BY <2>1, PartEndsKeeps
  <2> QED
    BY <1>2, <2>1, EditSourceKeeps, EndsKeep, ChoicesKeep, CompletesKeep, StoppingKeeps
       DEF Disturbance
<1>3. CASE Progressing
  <2>1. CASE \E n \in PartNos : ReadPart(n) \/ SendPart(n)
    BY <2>1, ReadPartKeeps, PartEndsKeeps
  <2>2. CASE Scan \/ Stat \/ FindUpload \/ ListParts \/ MatchPart \/ StartResume \/ Abort
    BY <2>2, ChoicesKeep, ListPartsKeeps, MatchPartKeeps, StartResumeKeeps, AbortKeeps
  <2>3. CASE ReadFirst \/ PutObject \/ CreateUpload \/ ReadNext \/ Spawn \/ StopSpawning
    BY <2>3, ReadFirstKeeps, PutObjectKeeps, CreateUploadKeeps, ReadNextKeeps,
       SpawnKeeps, StoppingKeeps
  <2>4. CASE GiveUp \/ CompleteUpload \/ NextRun
    BY <2>4, EndsKeep, CompletesKeep
  <2> QED
    BY <1>3, <2>1, <2>2, <2>3, <2>4 DEF Progressing
<1> QED
  BY <1>1, <1>2, <1>3 DEF Next

LEMMA Invariant == Spec => []IInv
BY Initially, Inductive, PTL DEF Spec

\* The types, for all part sizes, files and numbers of uploads and goroutines:
\* never more parts under way than the semaphore admits, and no ETag written
\* beyond the table of completed parts.
THEOREM PutTypes == Spec => []TypeOK
BY Invariant, TypesSuffice, PTL

\* A Put that succeeds leaves exactly the source in the object, whatever earlier
\* runs left in the bucket and whatever failed before, in parts of any size sent
\* by any number of goroutines, if nobody edited the source during the run.
THEOREM ExactCopy == Spec => []CopyIsExact
<1>1. IInv => CopyIsExact
  BY DEF IInv
<1> QED
  BY <1>1, Invariant, PTL

\* A part that the upload holds with the source's bytes is not sent again, if
\* one answer of ListParts names every part a run may have left.
THEOREM MissingSent == OnePage => (Spec => []OnlyMissingSent)
<1> SUFFICES ASSUME OnePage PROVE Spec => []OnlyMissingSent
  OBVIOUS
<1>1. IInv => OnlyMissingSent
  BY DEF IInv, Resuming, Differ, OnlyMissingSent
<1> QED
  BY <1>1, Invariant, PTL

\* Nobody sees a half-written object: a step of a run on a source that was not
\* edited leaves the object alone or makes it the source.
THEOREM WholeObject == Spec => ObjectIsWhole
<1> DEFINE Whole == (pc # "down" /\ ~edited) =>
                        <<there', obj'>> \in {<<there, obj>>, <<TRUE, src>>}
<1>1. IInv /\ [Next]_vars => [Whole]_vars
  <2> SUFFICES ASSUME IInv, Next, pc # "down", ~edited
               PROVE  <<there', obj'>> \in {<<there, obj>>, <<TRUE, src>>}
    OBVIOUS
  <2> USE DEF storeVars, runVars, sendVars, Goto
  <2>1. CASE Disturbance
    <3>1. CASE EditSource \/ Foul \/ Killed \/ StatFails \/ AbortFails \/ LoopCancelled
      BY <3>1 DEF EditSource, Foul, Killed, RunEnds, StatFails, AbortFails, LoopCancelled
    <3>2. CASE CompleteFails
      BY <3>2, CompleteIs DEF CompleteFails, Complete
    <3>3. CASE CallFails
      BY <3>3 DEF CallFails, IInv, First
    <3>4. CASE \E n \in PartNos : PartFails(n)
      BY <3>4 DEF PartFails
    <3> QED
      BY <2>1, <3>1, <3>2, <3>3, <3>4 DEF Disturbance
  <2>2. CASE Progressing
    <3>1. CASE Scan \/ Stat \/ FindUpload \/ ListParts \/ MatchPart \/ StartResume \/ Abort
      BY <3>1 DEF Scan, Stat, FindUpload, ListParts, MatchPart, Misaligned, Compare,
         StartResume, Abort
    <3>2. CASE ReadFirst \/ CreateUpload \/ ReadNext \/ Spawn \/ StopSpawning \/ GiveUp \/ NextRun
      BY <3>2 DEF ReadFirst, CreateUpload, ReadNext, Spawn, StopSpawning, GiveUp, NextRun,
         RunEnds
    <3>3. CASE \E n \in PartNos : ReadPart(n) \/ SendPart(n)
      BY <3>3 DEF ReadPart, SendPart
    <3>4. CASE PutObject
      BY <3>4 DEF PutObject, IInv, First
    <3>5. CASE CompleteUpload
      BY <3>5, CompleteIs DEF CompleteUpload, Complete
    <3> QED
      BY <2>2, <3>1, <3>2, <3>3, <3>4, <3>5 DEF Progressing
  <2> QED
    BY <2>1, <2>2 DEF Next
<1> QED
  BY <1>1, Invariant, PTL DEF Spec, ObjectIsWhole
=============================================================================
