------------------------- MODULE ProgressPageProofs -------------------------
(***************************************************************************)
(* What holds of an upload's figures, from the counters to the browser, for*)
(* any number of parts, of requests at a time and of attempts.             *)
(***************************************************************************)
EXTENDS ProgressPage, FiniteSetTheorems, TLAPS

(* ---------------------------------- types ------------------------------- *)
UploadTypes ==
  /\ committed \in Nat /\ wire \in Nat /\ buffered \in Nat /\ seed \in Nat
  /\ kept \subseteq stored /\ stored \subseteq Parts
  /\ part \in [Parts -> {"kept", "todo", "reading", "attempt", "sent", "done", "noetag", "failed"}]
  /\ tries \in [Parts -> 0..MaxTries]
  /\ ticker \in [at : {"idle", "wire", "buffered"}, c : Nat, w : Nat]
  /\ put \in {"parts", "stopOk", "stopErr", "final", "done", "error", "over", "failed"}

PageTypes ==
  /\ store \in Snapshots /\ frame \in Snapshots /\ shown \in Snapshots
  /\ publisher \in {"idle", "wake"}
  /\ handler \in {"closed", "greet", "write", "loop"}
  /\ row \in [c : Nat, w : Nat, b : Nat] /\ done \in {0, Size}
  /\ pumps \in {1, 2} /\ announced \in BOOLEAN
  /\ late \subseteq [c : Nat, w : Nat, b : Nat] /\ \A q, r \in late : q = r

WakeTypes == pending \in BOOLEAN /\ dirty \in BOOLEAN /\ (pending => Subscribed)

\* How many attempts a part's request can have had by the place of its goroutine;
\* without it the types of the attempts are not inductive.
Attempts ==
  \A p \in Parts :
    /\ part[p] \in {"kept", "todo", "reading"} => tries[p] = 0
    /\ part[p] = "attempt" => tries[p] < MaxTries
    /\ part[p] \in {"sent", "done", "noetag"} => tries[p] > 0

LEMMA TypesSplit == TypeOK <=> UploadTypes /\ PageTypes /\ WakeTypes
  BY DEF TypeOK, Figures, UploadTypes, PageTypes, WakeTypes

LEMMA SizeIsNat == Size \in Nat /\ \A S \in SUBSET Parts :
                     IsFiniteSet(S) /\ Cardinality(S) \in 0..Size
<1>1. IsFiniteSet(Parts) /\ Size \in Nat
  BY ProgressAssumption, FS_CardinalityType DEF Size
<1>2. ASSUME NEW S \in SUBSET Parts
      PROVE  IsFiniteSet(S) /\ Cardinality(S) \in 0..Size
  <2>1. IsFiniteSet(S) /\ Cardinality(S) <= Size
    BY <1>1, FS_Subset DEF Size
  <2>2. Cardinality(S) \in Nat
    BY <2>1, FS_CardinalityType
  <2> QED BY <1>1, <2>1, <2>2
<1> QED BY <1>1, <1>2

LEMMA InitTypes == Init => UploadTypes /\ PageTypes /\ WakeTypes /\ Attempts
<1> SUFFICES ASSUME Init PROVE UploadTypes /\ PageTypes /\ WakeTypes /\ Attempts
    OBVIOUS
<1> USE ProgressAssumption, SizeIsNat DEF Init, ProgressInit, FeedInit
<1>1. UploadTypes
  BY DEF UploadTypes, NoTick
<1>2. PageTypes
  BY DEF PageTypes, Snapshots, NothingYet, Zero
<1>3. WakeTypes
  BY DEF WakeTypes
<1>4. Attempts
  BY DEF Attempts
<1> QED BY <1>1, <1>2, <1>3, <1>4

LEMMA PartTypes ==
  ASSUME UploadTypes, Attempts, NEW p \in Parts, PartStep(p)
  PROVE  UploadTypes' /\ Attempts'
<1> USE ProgressAssumption DEF UploadTypes, Attempts, PartTo, counters
<1>1. CASE StartPart(p)
  BY <1>1 DEF StartPart
<1>2. CASE ReadPart(p)
  BY <1>2 DEF ReadPart
<1>3. CASE Transmit(p)
  BY <1>3 DEF Transmit
<1>4. CASE Answer(p)
  BY <1>4 DEF Answer
<1>5. CASE NoAnswer(p)
  <2>1. kept \subseteq stored' /\ stored' \subseteq Parts
    BY <1>5 DEF NoAnswer
  <2>2. \/ tries[p] < MaxTries /\ PartTo(p, "attempt")
        \/ PartTo(p, "failed")
    BY <1>5 DEF NoAnswer
  <2>3. UNCHANGED <<counters, kept, seed, tries, ticker, put>>
    BY <1>5 DEF NoAnswer
  <2> QED BY <2>1, <2>2, <2>3
<1> QED BY <1>1, <1>2, <1>3, <1>4, <1>5 DEF PartStep

LEMMA UploadStepTypes ==
  ASSUME UploadTypes, Attempts, UploadStep PROVE UploadTypes' /\ Attempts'
<1> USE DEF UploadTypes, Attempts, counters
<1>1. CASE Seed
  BY <1>1 DEF Seed
<1>2. CASE PartsEnd
  <2>1. put' \in {"stopOk", "stopErr"}
    BY <1>2 DEF PartsEnd
  <2>2. UNCHANGED <<counters, kept, seed, part, tries, stored, ticker>>
    BY <1>2 DEF PartsEnd
  <2> QED BY <2>1, <2>2
<1>3. CASE LoadCommitted
  BY <1>3 DEF LoadCommitted
<1>4. CASE LoadWire
  BY <1>4 DEF LoadWire
<1>5. CASE Join
  BY <1>5 DEF Join
<1>6. ASSUME NEW p \in Parts, PartStep(p) PROVE UploadTypes' /\ Attempts'
  BY <1>6, PartTypes
<1> QED BY <1>1, <1>2, <1>3, <1>4, <1>5, <1>6 DEF UploadStep

LEMMA NextUploadTypes == UploadTypes /\ Attempts /\ [Next]_vars => UploadTypes' /\ Attempts'
<1> SUFFICES ASSUME UploadTypes, Attempts, [Next]_vars PROVE UploadTypes' /\ Attempts'
    OBVIOUS
<1>1. CASE Transfer
  BY <1>1, UploadStepTypes DEF Transfer
<1>2. ASSUME UNCHANGED progressVars PROVE UploadTypes' /\ Attempts'
  BY <1>2 DEF progressVars, UploadTypes, Attempts
<1>3. CASE ProgressReport
  BY <1>3 DEF ProgressReport, Reported, counters, UploadTypes, Attempts, NoTick
<1>4. CASE FinalReport
  BY <1>4 DEF FinalReport, counters, UploadTypes, Attempts
<1>5. CASE Outcome
  BY <1>5 DEF Outcome, counters, UploadTypes, Attempts
<1>6. CASE HandleLate \/ Announce \/ SpinnerTick \/ Feed \/ UNCHANGED vars
  BY <1>2, <1>6 DEF HandleLate, Announce, SpinnerTick, Feed, vars
<1> QED BY <1>1, <1>3, <1>4, <1>5, <1>6 DEF Next

LEMMA NextPageTypes == UploadTypes /\ PageTypes /\ [Next]_vars => PageTypes'
<1> SUFFICES ASSUME UploadTypes, PageTypes, [Next]_vars PROVE PageTypes'
    OBVIOUS
<1> USE SizeIsNat DEF PageTypes
<1>1. Size' = Size /\ Snapshots' = Snapshots
  BY DEF Size, Snapshots
<1>2. CASE Transfer \/ UNCHANGED vars
  BY <1>1, <1>2 DEF Transfer, vars, rowVars, feedVars
<1>3. CASE ProgressReport
  <2>1. Report \in [c : Nat, w : Nat, b : Nat]
    BY DEF Report, UploadTypes
  <2> QED BY <1>1, <1>3, <2>1 DEF ProgressReport, Sent, HeldBack, Handled, feedVars
<1>4. CASE FinalReport
  <2>1. [c |-> Size, w |-> Size, b |-> Size] \in [c : Nat, w : Nat, b : Nat]
    OBVIOUS
  <2> QED BY <1>1, <1>4, <2>1 DEF FinalReport, Sent, HeldBack, Handled, feedVars
<1>5. CASE Outcome
  BY <1>1, <1>5 DEF Outcome, Zero, feedVars
<1>6. CASE SpinnerTick
  <2>1. Snapshot \in Snapshots
    <3>1. done + (IF Uploading THEN row.w ELSE 0) \in Nat /\ row.c \in Nat
      OBVIOUS
    <3> QED BY <3>1 DEF Snapshot, Snapshots
  <2> QED BY <1>1, <1>6, <2>1 DEF SpinnerTick, PublishSet, rowVars
<1>7. CASE Feed
  BY <1>1, <1>7 DEF Feed, FeedStep, PublishWake, Accept, HandlerStep, Greet, Tick, TakeUpdate,
                   Written, Heartbeat, Disconnect, Send, rowVars
<1>8. CASE HandleLate
  BY <1>1, <1>8 DEF HandleLate, Handled, feedVars
<1>9. CASE Announce
  BY <1>1, <1>9 DEF Announce, Handled, Zero, feedVars
<1> QED BY <1>2, <1>3, <1>4, <1>5, <1>6, <1>7, <1>8, <1>9 DEF Next

LEMMA NextWakeTypes == WakeTypes /\ [Next]_vars => WakeTypes'
<1> SUFFICES ASSUME WakeTypes, [Next]_vars PROVE WakeTypes'
    OBVIOUS
<1> USE DEF WakeTypes, Subscribed
<1>1. ASSUME UNCHANGED feedVars PROVE WakeTypes'
  BY <1>1 DEF feedVars
<1>2. CASE SpinnerTick
  BY <1>2 DEF SpinnerTick, PublishSet
<1>3. CASE Feed
  <2>1. CASE PublishWake
    BY <2>1 DEF PublishWake
  <2>2. CASE Accept
    BY <2>2 DEF Accept
  <2>3. CASE Greet \/ Tick \/ Heartbeat
    BY <2>3 DEF Greet, Tick, Heartbeat, Send
  <2>4. CASE TakeUpdate \/ Written
    BY <2>4 DEF TakeUpdate, Written
  <2>5. CASE Disconnect
    BY <2>5 DEF Disconnect
  <2> QED BY <1>3, <2>1, <2>2, <2>3, <2>4, <2>5 DEF Feed, FeedStep, HandlerStep
<1>4. CASE \/ Transfer \/ ProgressReport \/ FinalReport \/ Outcome
           \/ HandleLate \/ Announce \/ UNCHANGED vars
  BY <1>1, <1>4 DEF Transfer, ProgressReport, FinalReport, Outcome, HandleLate, Announce, vars
<1> QED BY <1>2, <1>3, <1>4 DEF Next

Typed == UploadTypes /\ PageTypes /\ Attempts

LEMMA AlwaysTyped == Spec => [](Typed /\ WakeTypes)
<1>1. Init => Typed /\ WakeTypes
  BY InitTypes DEF Typed
<1>2. Typed /\ WakeTypes /\ [Next]_vars => (Typed /\ WakeTypes)'
  BY NextUploadTypes, NextPageTypes, NextWakeTypes DEF Typed
<1> QED BY <1>1, <1>2, PTL DEF Spec

\* The figures are natural numbers, the places of the goroutines are those of the
\* code, and a wake-up is pending only for a connection that is subscribed.
THEOREM ProgressTypes == Spec => []TypeOK
<1>1. Typed /\ WakeTypes => TypeOK
  BY TypesSplit DEF Typed
<1> QED BY AlwaysTyped, <1>1, PTL

(* ------------------------- what is committed is stored ------------------ *)
DoneParts == {p \in Parts : part[p] \in {"done", "noetag"}}

\* The counter is what was added for kept parts, so far, and for answered ones.
Counted ==
  /\ kept = {p \in Parts : part[p] = "kept"}
  /\ DoneParts \subseteq stored
  /\ seed <= 3 * Cardinality(kept)
  /\ 3 * (committed - Cardinality(DoneParts)) <= seed + 2
  /\ put \in {"stopOk", "final", "done", "over"} => stored = Parts

InStore == Cardinality(stored)

\* The figure on its way: in the ticker, the report held back, the row, and every
\* snapshot.
\* The ticker has stopped before the final report and the outcome.
LateStored == \A r \in late : r.c <= InStore

OnTheWay ==
  /\ put \notin {"parts", "stopOk", "stopErr"} => ticker.at = "idle"
  /\ done = 0 \/ put = "over"
  /\ ticker.c <= InStore /\ row.c <= InStore /\ LateStored
  /\ store.committed <= InStore /\ frame.committed <= InStore /\ shown.committed <= InStore

LEMMA DoneOf == DoneParts \in SUBSET Parts
  BY DEF DoneParts

LEMMA CommittedIsStored ==
  ASSUME UploadTypes, Counted PROVE committed <= InStore
<1>1. kept \in SUBSET Parts /\ stored \in SUBSET Parts /\ DoneParts \in SUBSET Parts
  BY DEF UploadTypes, DoneParts
<1>2. /\ IsFiniteSet(kept) /\ IsFiniteSet(DoneParts) /\ IsFiniteSet(stored)
      /\ Cardinality(kept) \in Nat /\ Cardinality(DoneParts) \in Nat /\ InStore \in Nat
  BY <1>1, SizeIsNat DEF InStore
<1>3. kept \cap DoneParts = {}
  BY DEF Counted, DoneParts
<1>4. Cardinality(kept \cup DoneParts) = Cardinality(kept) + Cardinality(DoneParts)
  <2>1. Cardinality(kept \cap DoneParts) = 0
    BY <1>3, FS_EmptySet
  <2>2. Cardinality(kept \cup DoneParts)
          = Cardinality(kept) + Cardinality(DoneParts) - Cardinality(kept \cap DoneParts)
    BY <1>2, FS_Union
  <2> QED BY <1>2, <2>1, <2>2
<1>5. kept \cup DoneParts \in SUBSET stored
  BY DEF Counted, UploadTypes
<1>6. Cardinality(kept \cup DoneParts) <= InStore
  BY <1>2, <1>5, FS_Subset DEF InStore
<1>7. 3 * (committed - Cardinality(DoneParts)) <= 3 * Cardinality(kept) + 2
  BY <1>2 DEF Counted, UploadTypes
<1> QED BY <1>2, <1>4, <1>6, <1>7 DEF UploadTypes

LEMMA StoredGrows ==
  ASSUME UploadTypes, UploadTypes', stored \subseteq stored'
  PROVE  InStore \in Nat /\ InStore' \in Nat /\ InStore <= InStore' /\ InStore <= Size
<1>1. stored \in SUBSET Parts /\ stored' \in SUBSET Parts
  BY DEF UploadTypes
<1>2. IsFiniteSet(stored') /\ InStore \in 0..Size /\ InStore' \in 0..Size
  BY <1>1, SizeIsNat DEF InStore
<1>3. InStore <= InStore'
  BY <1>2, FS_Subset DEF InStore
<1> QED BY <1>2, <1>3, SizeIsNat

\* One part more is done, or none.
LEMMA OneMoreDone ==
  ASSUME UploadTypes, NEW p \in Parts, part[p] = "sent",
         PartTo(p, "done") \/ PartTo(p, "noetag")
  PROVE  Cardinality(DoneParts') = Cardinality(DoneParts) + 1
<1>1. DoneParts' = DoneParts \cup {p}
  BY DEF DoneParts, UploadTypes, PartTo
<1>2. p \notin DoneParts /\ IsFiniteSet(DoneParts)
  BY DoneOf, SizeIsNat DEF DoneParts
<1> QED BY <1>1, <1>2, FS_AddElement

LEMMA InitCounted == Init => Counted /\ OnTheWay
<1> SUFFICES ASSUME Init PROVE Counted /\ OnTheWay
    OBVIOUS
<1> USE DEF Init, ProgressInit, FeedInit
<1>1. kept \in SUBSET Parts /\ IsFiniteSet(kept) /\ Cardinality(kept) \in Nat
  BY SizeIsNat
<1>2. DoneParts = {}
  BY DEF DoneParts
<1>3. Cardinality(DoneParts) = 0
  BY <1>2, FS_EmptySet
<1>4. kept = {p \in Parts : part[p] = "kept"}
  BY <1>1
<1>5. Counted
  BY <1>1, <1>2, <1>3, <1>4 DEF Counted
<1>6. OnTheWay
  BY <1>1 DEF OnTheWay, LateStored, InStore, NoTick, Zero, NothingYet
<1> QED BY <1>5, <1>6

LEMMA PartCounted ==
  ASSUME UploadTypes, Counted, NEW p \in Parts, PartStep(p) PROVE Counted' /\ stored \subseteq stored'
<1> USE DEF UploadTypes
<1>1. Cardinality(kept) \in Nat /\ Cardinality(DoneParts) \in Nat
  BY SizeIsNat, DoneOf
<1>2. ASSUME NEW pc \in {"reading", "attempt", "sent", "failed"}, PartTo(p, pc),
             part[p] \notin {"kept", "done", "noetag"}, stored \subseteq stored',
             UNCHANGED <<kept, seed, committed>>,
             put \in {"stopOk", "final", "done", "over"} => stored = Parts,
             put' = put, stored' \subseteq Parts
      PROVE  Counted'
  <2>1. DoneParts' = DoneParts /\ kept' = {q \in Parts : part'[q] = "kept"}
    BY <1>2 DEF PartTo, DoneParts, Counted
  <2> QED BY <1>2, <2>1 DEF Counted
<1>3. CASE StartPart(p)
  BY <1>2, <1>3 DEF StartPart, counters, Counted
<1>4. CASE ReadPart(p)
  BY <1>2, <1>4 DEF ReadPart, Counted
<1>5. CASE Transmit(p)
  BY <1>2, <1>5 DEF Transmit, Counted
<1>6. CASE NoAnswer(p)
  <2>1. stored' \subseteq Parts /\ stored \subseteq stored'
    BY <1>6 DEF NoAnswer
  <2> QED BY <1>2, <1>6, <2>1 DEF NoAnswer, counters, Counted
<1>7. CASE Answer(p)
  <2>1. Cardinality(DoneParts') = Cardinality(DoneParts) + 1
    BY <1>7, OneMoreDone DEF Answer
  <2>2. DoneParts' = DoneParts \cup {p} /\ kept' = {q \in Parts : part'[q] = "kept"}
    BY <1>7 DEF Answer, PartTo, DoneParts, Counted
  <2>3. 3 * (committed' - Cardinality(DoneParts')) <= seed' + 2
    BY <1>1, <1>7, <2>1 DEF Answer, Counted
  <2> QED BY <1>7, <2>2, <2>3 DEF Answer, Counted
<1> QED BY <1>3, <1>4, <1>5, <1>6, <1>7
        DEF PartStep, StartPart, ReadPart, Transmit, NoAnswer, Answer

LEMMA UploadCounted ==
  ASSUME UploadTypes, Counted, UploadStep PROVE Counted' /\ stored \subseteq stored'
<1> USE DEF UploadTypes
<1>1. Cardinality(kept) \in Nat /\ Cardinality(DoneParts) \in Nat
  BY SizeIsNat, DoneOf
<1>2. ASSUME UNCHANGED <<kept, part, stored>>
      PROVE  DoneParts' = DoneParts /\ kept' = {p \in Parts : part'[p] = "kept"} <=>
             kept = {p \in Parts : part[p] = "kept"}
  BY <1>2 DEF DoneParts
<1>3. CASE Seed
  <2>1. DoneParts' = DoneParts /\ seed' <= 3 * Cardinality(kept)
    BY <1>1, <1>3 DEF Seed, DoneParts
  <2>2. 3 * (committed' - Cardinality(DoneParts)) <= seed' + 2
    <3> DEFINE n == committed - Cardinality(DoneParts)
    <3>1. n \in Int /\ 3 * n <= seed + 2
      BY <1>1 DEF Counted
    <3>2. seed % 3 = 0 => 3 * n <= seed
      <4> HIDE DEF n
      <4> QED BY <3>1
    <3>3. CASE seed % 3 = 0
      BY <1>1, <1>3, <3>2, <3>3 DEF Seed
    <3>4. CASE seed % 3 # 0
      BY <1>1, <1>3, <3>1, <3>4 DEF Seed
    <3> QED BY <3>3, <3>4
  <2> QED BY <1>3, <2>1, <2>2 DEF Seed, Counted
<1>4. CASE PartsEnd
  <2>1. DoneParts' = DoneParts
    BY <1>4 DEF PartsEnd, DoneParts
  <2>2. put' = "stopOk" => stored = Parts
    <3>1. put' = "stopOk" => \A p \in Parts : part[p] \in {"kept", "done"}
      BY <1>4 DEF PartsEnd
    <3> QED BY <3>1 DEF Counted, DoneParts
  <2>3. put' \in {"stopOk", "stopErr"} /\ UNCHANGED <<counters, kept, seed, part, stored>>
    BY <1>4 DEF PartsEnd
  <2> QED BY <2>1, <2>2, <2>3 DEF Counted, counters
<1>5. CASE LoadCommitted \/ LoadWire \/ Join
  <2>1. DoneParts' = DoneParts
    BY <1>5 DEF LoadCommitted, LoadWire, Join, DoneParts
  <2> QED BY <1>5, <2>1 DEF LoadCommitted, LoadWire, Join, Counted, counters
<1>6. ASSUME NEW p \in Parts, PartStep(p) PROVE Counted' /\ stored \subseteq stored'
  BY <1>6, PartCounted
<1> QED BY <1>3, <1>4, <1>5, <1>6 DEF UploadStep

LEMMA NextCounted == Typed /\ Counted /\ [Next]_vars => Counted' /\ stored \subseteq stored'
<1> SUFFICES ASSUME UploadTypes, Counted, [Next]_vars PROVE Counted' /\ stored \subseteq stored'
    BY DEF Typed
<1>1. CASE Transfer
  BY <1>1, UploadCounted DEF Transfer
<1>2. ASSUME UNCHANGED <<counters, kept, seed, part, stored>>,
             put' \in {"stopOk", "final", "done", "over"} => stored = Parts
      PROVE  Counted' /\ stored \subseteq stored'
  <2>1. DoneParts' = DoneParts
    BY <1>2 DEF DoneParts
  <2> QED BY <1>2, <2>1 DEF Counted, counters
<1>3. CASE ProgressReport
  BY <1>2, <1>3 DEF ProgressReport, Reported, Counted
<1>4. CASE FinalReport
  BY <1>2, <1>4 DEF FinalReport, Counted
<1>5. CASE Outcome
  BY <1>2, <1>5 DEF Outcome, Counted
<1>6. CASE HandleLate \/ Announce \/ SpinnerTick \/ Feed \/ UNCHANGED vars
  BY <1>2, <1>6 DEF HandleLate, Announce, SpinnerTick, Feed, vars, progressVars, counters,
                   Counted
<1> QED BY <1>1, <1>3, <1>4, <1>5, <1>6 DEF Next

LEMMA NextOnTheWay ==
  ASSUME Typed, Typed', Counted, stored \subseteq stored', OnTheWay, [Next]_vars
  PROVE  OnTheWay'
<1> USE DEF Typed
<1>1. /\ InStore \in Nat /\ InStore' \in Nat /\ InStore <= InStore' /\ InStore <= Size
      /\ Size \in Nat /\ committed <= InStore
  BY StoredGrows, CommittedIsStored, SizeIsNat
<1>2. /\ ticker \in [at : {"idle", "wire", "buffered"}, c : Nat, w : Nat]
      /\ row \in [c : Nat, w : Nat, b : Nat] /\ committed \in Nat /\ done \in Nat
      /\ store.committed \in Nat /\ frame.committed \in Nat /\ shown.committed \in Nat
  BY <1>1 DEF UploadTypes, PageTypes, Snapshots
<1>13. ASSUME late' \subseteq late PROVE LateStored'
  <2>1. \A r \in late : r.c \in Nat
    BY DEF PageTypes
  <2> QED BY <1>1, <1>13, <2>1 DEF LateStored, OnTheWay
<1> USE DEF OnTheWay
<1>3. CASE Transfer
  <2>1. UNCHANGED <<row, done, store, frame, shown>> /\ LateStored'
    BY <1>13, <1>3 DEF Transfer, feedVars, rowVars
  <2>2. CASE LoadCommitted
    BY <1>1, <1>2, <2>1, <2>2 DEF LoadCommitted
  <2>3. CASE LoadWire
    BY <1>1, <1>2, <2>1, <2>3 DEF LoadWire
  <2>4. CASE Seed \/ PartsEnd \/ Join \/ \E p \in Parts : PartStep(p)
    <3>1. /\ ticker' = ticker
          /\ put' \in {"parts", "stopOk", "stopErr"} \/ ticker.at = "idle"
      BY <2>4 DEF Seed, PartsEnd, Join, PartStep, StartPart, ReadPart, Transmit, Answer,
                  NoAnswer
    <3>2. put \in {"parts", "stopOk", "stopErr"} \/ put' = put
      BY <2>4 DEF Seed, PartsEnd, Join, PartStep, StartPart, ReadPart, Transmit, Answer,
                  NoAnswer
    <3> QED BY <1>1, <1>2, <2>1, <3>1, <3>2
  <2> QED BY <1>3, <2>2, <2>3, <2>4 DEF Transfer, UploadStep
<1>4. CASE ProgressReport
  <2>1. put \in {"parts", "stopOk", "stopErr"} /\ done = 0 /\ put' = put /\ ticker' = NoTick
    BY <1>4 DEF ProgressReport, Reported
  <2>2. row' \in {Report, row} /\ late' \in {{Report}, late}
    BY <1>4 DEF ProgressReport, Sent, HeldBack, Handled
  <2>3. Report.c <= InStore /\ Report.c \in Nat
    BY <1>1, <1>2, <2>1 DEF Report
  <2>4. row'.c <= InStore' /\ row'.c \in Nat
    BY <1>1, <1>2, <2>2, <2>3
  <2>5. LateStored'
    <3>1. CASE late' = {Report}
      BY <1>1, <2>3, <3>1 DEF LateStored
    <3> QED BY <1>13, <2>2, <3>1
  <2> QED BY <1>1, <1>2, <1>4, <2>1, <2>4, <2>5 DEF ProgressReport, NoTick, feedVars
<1>5. CASE FinalReport
  <2>1. put = "final" /\ put' = "done" /\ InStore = Size
    BY <1>5 DEF FinalReport, Counted, InStore, Size
  <2> DEFINE r0 == [c |-> Size, w |-> Size, b |-> Size]
  <2>3. row' \in {r0, row} /\ late' \in {{r0}, late}
    BY <1>5 DEF FinalReport, Sent, HeldBack, Handled
  <2>2. row'.c <= InStore' /\ row'.c \in Nat
    BY <1>1, <1>2, <2>1, <2>3
  <2>4. LateStored'
    <3>1. CASE late' = {r0}
      BY <1>1, <2>1, <3>1 DEF LateStored
    <3> QED BY <1>13, <2>3, <3>1
  <2> HIDE DEF r0
  <2> QED BY <1>1, <1>2, <1>5, <2>1, <2>2, <2>4 DEF FinalReport, feedVars
<1>6. CASE Outcome
  <2>1. row'.c = 0 /\ done = 0 /\ ticker' = ticker /\ ticker.at = "idle"
    BY <1>6 DEF Outcome, Zero
  <2>2. \/ put' = "over" /\ done' = Size /\ InStore = Size
        \/ put' = "failed" /\ done' = 0
    BY <1>6, <2>1 DEF Outcome, Counted, InStore, Size
  <2>3. LateStored'
    BY <1>6, <1>13 DEF Outcome
  <2> QED BY <1>1, <1>2, <1>6, <2>1, <2>2, <2>3 DEF Outcome, feedVars
<1>7. CASE SpinnerTick
  <2>1. Snapshot.committed <= InStore
    BY DEF Snapshot
  <2>2. UNCHANGED <<put, ticker, row, done, frame, shown>> /\ store' = Snapshot
    BY <1>7 DEF SpinnerTick, PublishSet, progressVars, rowVars
  <2>3. LateStored'
    BY <1>7, <1>13 DEF SpinnerTick, rowVars
  <2> QED BY <1>1, <1>2, <2>1, <2>2, <2>3 DEF Snapshot
<1>8. CASE Feed
  <2>1. UNCHANGED <<put, ticker, row, done, store>> /\ LateStored'
    BY <1>8, <1>13 DEF Feed, progressVars, rowVars, FeedStep, PublishWake, Accept, HandlerStep, Greet, Tick,
                TakeUpdate, Written, Heartbeat, Disconnect, Send
  <2>2. frame' \in {store, frame, shown} /\ shown' \in {frame, shown}
    BY <1>8 DEF Feed, FeedStep, PublishWake, Accept, HandlerStep, Greet, Tick,
                TakeUpdate, Written, Heartbeat, Disconnect, Send
  <2> QED BY <1>1, <1>2, <2>1, <2>2
<1>9. CASE UNCHANGED vars
  BY <1>1, <1>2, <1>9, <1>13 DEF vars, progressVars, feedVars, rowVars
<1>10. CASE HandleLate \/ Announce
  <2>1. UNCHANGED <<put, ticker, done, store, frame, shown>>
    BY <1>10 DEF HandleLate, Announce, progressVars, feedVars
  <2>2. row'.c <= InStore /\ late' \subseteq late
    BY <1>1, <1>10 DEF HandleLate, Announce, Handled, Zero, LateStored
  <2>3. row'.c <= InStore' /\ LateStored'
    <3>1. row'.c \in Nat
      BY DEF PageTypes
    <3> QED BY <1>1, <1>13, <2>2, <3>1
  <2> QED BY <1>1, <1>2, <2>1, <2>3
<1> QED BY <1>3, <1>4, <1>5, <1>6, <1>7, <1>8, <1>9, <1>10 DEF Next

LEMMA AlwaysOnTheWay == Spec => [](Counted /\ OnTheWay)
<1>1. Typed /\ Typed' /\ Counted /\ OnTheWay /\ [Next]_vars => (Counted /\ OnTheWay)'
  BY NextCounted, NextOnTheWay
<1> QED BY InitCounted, AlwaysTyped, <1>1, PTL DEF Spec

\* However many parts, attempts, lost answers, dropped messages and reconnections:
\* the bytes a browser shows as committed are in the store.
THEOREM CommittedHolds == Spec => []CommittedIsTrue
<1>1. Counted /\ OnTheWay => CommittedIsTrue
  BY DEF OnTheWay, InStore, CommittedIsTrue
<1> QED BY AlwaysOnTheWay, <1>1, PTL

(* ------------------------ the nesting of the figures -------------------- *)
Tried == {p \in Parts : tries[p] > 0}
Held  == {p \in Parts : part[p] = "attempt" \/ tries[p] > 0}

\* The condition under which the figures are nested: no part was kept, and no
\* request was repeated.  It was true before if it is true now.
Plain == kept = {} /\ ~Retried

\* Every counter is the number of parts that have come so far; the sets are nested
\* because a part is read before its request is sent, and sent before it is answered.
CountersCount ==
  Plain => /\ committed = Cardinality(DoneParts)
           /\ wire = Cardinality(Tried)
           /\ buffered = Cardinality(Held)

\* The counters grow between the ticker's loads, so what is loaded first stays below.
LoadsNested ==
  Plain => /\ ticker.at = "wire" => ticker.c <= wire
           /\ ticker.at = "buffered" => ticker.c <= ticker.w /\ ticker.w <= buffered

LateNested ==
  Plain => \A r \in late : r.c <= r.w /\ r.w <= r.b /\ r.b <= Size

NestInv == CountersCount /\ LoadsNested /\ LateNested /\ Nested

LEMMA RetriedStays == UploadTypes /\ UploadTypes' /\ [Next]_vars /\ Retried => Retried'
<1> SUFFICES ASSUME UploadTypes, UploadTypes', [Next]_vars PROVE Retried => Retried'
    OBVIOUS
<1> USE DEF Retried, UploadTypes
<1>1. ASSUME NEW p \in Parts, Transmit(p) PROVE Retried => Retried'
  <2>1. \A q \in Parts : tries'[q] >= tries[q]
    BY <1>1, ProgressAssumption DEF Transmit
  <2>2. \A q \in Parts : tries[q] \in Nat /\ tries'[q] \in Nat
    BY ProgressAssumption
  <2> QED BY <2>1, <2>2
<1>2. tries' = tries \/ \E p \in Parts : Transmit(p)
  BY DEF Next, vars, progressVars, Transfer, UploadStep, PartStep, Seed, PartsEnd, LoadCommitted,
         LoadWire, Join, StartPart, ReadPart, Answer, NoAnswer, ProgressReport,
         Reported, FinalReport, Outcome, HandleLate, Announce, SpinnerTick, Feed
<1> QED BY <1>1, <1>2

LEMMA PlainWasPlain == Typed /\ Typed' /\ [Next]_vars /\ Plain' => Plain
<1>1. [Next]_vars => kept' = kept
  BY DEF Next, vars, progressVars, Transfer, UploadStep, PartStep, Seed, PartsEnd, LoadCommitted,
         LoadWire, Join, StartPart, ReadPart, Transmit, Answer, NoAnswer, ProgressReport,
         Reported, FinalReport, Outcome, HandleLate, Announce, SpinnerTick, Feed
<1> QED BY <1>1, RetriedStays DEF Plain, Typed

LEMMA CountersNested ==
  ASSUME Typed, CountersCount, Plain
  PROVE  committed <= wire /\ wire <= buffered /\ buffered <= Size
<1>1. DoneParts \subseteq Tried /\ Tried \subseteq Held /\ Held \subseteq Parts
  BY DEF DoneParts, Tried, Held, Typed, Attempts
<1>2. IsFiniteSet(Tried) /\ IsFiniteSet(Held) /\ Cardinality(Held) \in 0..Size
  BY <1>1, SizeIsNat
<1>3. Cardinality(DoneParts) <= Cardinality(Tried)
  BY <1>1, <1>2, FS_Subset
<1>4. Cardinality(Tried) <= Cardinality(Held)
  BY <1>1, <1>2, FS_Subset
<1> QED BY <1>2, <1>3, <1>4, SizeIsNat DEF CountersCount

LEMMA OneMore ==
  ASSUME NEW S \in SUBSET Parts, NEW p \in Parts, p \notin S
  PROVE  Cardinality(S \cup {p}) = Cardinality(S) + 1
  BY SizeIsNat, FS_AddElement

LEMMA InitNest == Init => NestInv
<1> SUFFICES ASSUME Init PROVE NestInv
    OBVIOUS
<1> USE DEF Init, ProgressInit
<1>1. DoneParts = {} /\ Tried = {} /\ Held = {}
  BY DEF DoneParts, Tried, Held
<1>2. CountersCount
  BY <1>1, FS_EmptySet DEF CountersCount
<1>3. LoadsNested
  BY DEF LoadsNested, NoTick
<1>4. Nested
  BY SizeIsNat DEF Nested, Zero
<1>5. LateNested
  BY DEF LateNested
<1> QED BY <1>2, <1>3, <1>4, <1>5 DEF NestInv

LEMMA PartCounters ==
  ASSUME Typed, Counted, CountersCount, Plain, Plain', NEW p \in Parts, PartStep(p)
  PROVE  CountersCount' /\ wire <= wire' /\ buffered <= buffered'
<1> USE DEF Typed, UploadTypes, Attempts
<1>1. DoneParts \in SUBSET Parts /\ Tried \in SUBSET Parts /\ Held \in SUBSET Parts
  BY DEF DoneParts, Tried, Held
<1>2. /\ Cardinality(DoneParts) \in Nat /\ Cardinality(Tried) \in Nat
      /\ Cardinality(Held) \in Nat
  BY <1>1, SizeIsNat
<1>3. committed = Cardinality(DoneParts) /\ wire = Cardinality(Tried) /\ buffered = Cardinality(Held)
  BY DEF CountersCount
<1>4. CASE StartPart(p)
  <2>1. DoneParts' = DoneParts /\ Tried' = Tried /\ Held' = Held
    BY <1>4 DEF StartPart, PartTo, DoneParts, Tried, Held
  <2> QED BY <1>2, <1>3, <1>4, <2>1 DEF StartPart, counters, CountersCount
<1>5. CASE ReadPart(p)
  <2>1. DoneParts' = DoneParts /\ Tried' = Tried
    BY <1>5 DEF ReadPart, PartTo, DoneParts, Tried
  <2>2. CASE PartTo(p, "attempt") /\ buffered' = buffered + 1
    <3>1. Held' = Held \cup {p} /\ p \notin Held
      BY <1>5, <2>2 DEF ReadPart, PartTo, Held
    <3>2. Cardinality(Held') = Cardinality(Held) + 1
      BY <1>1, <3>1, OneMore
    <3> QED BY <1>2, <1>3, <1>5, <2>1, <2>2, <3>2 DEF ReadPart, CountersCount
  <2>3. CASE PartTo(p, "failed") /\ buffered' = buffered
    <3>1. Held' = Held
      BY <1>5, <2>3 DEF ReadPart, PartTo, Held
    <3> QED BY <1>2, <1>3, <1>5, <2>1, <2>3, <3>1 DEF ReadPart, CountersCount
  <2> QED BY <1>5, <2>2, <2>3 DEF ReadPart
<1>6. CASE Transmit(p)
  <2>1. tries[p] = 0
    <3>1. tries'[p] = tries[p] + 1 /\ ~(tries'[p] > 1) /\ tries[p] \in Nat
      BY <1>6, ProgressAssumption DEF Transmit, Plain, Retried
    <3> QED BY <3>1
  <2>2. Tried' = Tried \cup {p} /\ p \notin Tried
    BY <1>6, <2>1 DEF Transmit, Tried
  <2>3. DoneParts' = DoneParts /\ Held' = Held
    BY <1>6, <2>1 DEF Transmit, PartTo, DoneParts, Held
  <2>4. Cardinality(Tried') = Cardinality(Tried) + 1
    BY <1>1, <2>2, OneMore
  <2> QED BY <1>2, <1>3, <1>6, <2>3, <2>4 DEF Transmit, CountersCount
<1>7. CASE Answer(p)
  <2>1. DoneParts' = DoneParts \cup {p} /\ p \notin DoneParts
    BY <1>7 DEF Answer, PartTo, DoneParts
  <2>2. Tried' = Tried /\ Held' = Held
    BY <1>7 DEF Answer, PartTo, Tried, Held
  <2>3. Cardinality(DoneParts') = Cardinality(DoneParts) + 1
    BY <1>1, <2>1, OneMore
  <2> QED BY <1>2, <1>3, <1>7, <2>2, <2>3 DEF Answer, CountersCount
<1>8. CASE NoAnswer(p)
  <2>1. PartTo(p, "attempt") \/ PartTo(p, "failed")
    BY <1>8 DEF NoAnswer
  <2>2. DoneParts' = DoneParts /\ Tried' = Tried /\ Held' = Held
    BY <1>8, <2>1 DEF NoAnswer, PartTo, DoneParts, Tried, Held
  <2> QED BY <1>2, <1>3, <1>8, <2>2 DEF NoAnswer, counters, CountersCount
<1> QED BY <1>4, <1>5, <1>6, <1>7, <1>8 DEF PartStep

LEMMA NextNest ==
  ASSUME Typed, Typed', Counted, NestInv, [Next]_vars PROVE NestInv'
<1>1. ASSUME ~Plain' PROVE NestInv'
  BY <1>1 DEF NestInv, CountersCount, LoadsNested, LateNested, Nested, Plain
<1>2. ASSUME Plain' PROVE NestInv'
  <2>1. Plain
    BY <1>2, PlainWasPlain
  <2>2. committed <= wire /\ wire <= buffered /\ buffered <= Size
    BY <2>1, CountersNested DEF NestInv
  <2>3. /\ ticker \in [at : {"idle", "wire", "buffered"}, c : Nat, w : Nat]
        /\ committed \in Nat /\ wire \in Nat /\ buffered \in Nat /\ Size \in Nat
        /\ wire' \in Nat /\ buffered' \in Nat /\ Size' = Size
        /\ row \in [c : Nat, w : Nat, b : Nat]
    BY SizeIsNat DEF Typed, UploadTypes, PageTypes, Size
  <2>4. /\ ticker.at = "wire" => ticker.c <= wire
        /\ ticker.at = "buffered" => ticker.c <= ticker.w /\ ticker.w <= buffered
    BY <2>1 DEF NestInv, LoadsNested
  <2>5. row.c <= row.w /\ row.w <= row.b /\ row.b <= Size
    BY <2>1 DEF NestInv, Nested, Plain
  <2>6. ASSUME UNCHANGED <<counters, part, tries>> PROVE CountersCount'
    <3>1. DoneParts' = DoneParts /\ Tried' = Tried /\ Held' = Held
      BY <2>6 DEF DoneParts, Tried, Held
    <3> QED BY <2>1, <2>6, <3>1 DEF NestInv, CountersCount, counters
  <2>7. ASSUME row' = row PROVE Nested'
    BY <2>3, <2>5, <2>7 DEF Nested
  <2>14. ASSUME late' \subseteq late PROVE LateNested'
    BY <2>1, <2>3, <2>14 DEF NestInv, LateNested
  <2>8. ASSUME UNCHANGED <<counters, part, tries, row>>, ticker' = ticker,
               late' \subseteq late
        PROVE  NestInv'
    <3>1. LateNested' /\ CountersCount' /\ Nested'
      BY <2>6, <2>7, <2>8, <2>14
    <3> QED BY <2>4, <2>8, <3>1 DEF NestInv, LoadsNested, counters
  <2>9. CASE Transfer
    <3>1. row' = row /\ late' = late
      BY <2>9 DEF Transfer, rowVars
    <3>7. LateNested'
      BY <2>14, <3>1
    <3>2. CASE Seed
      <4>1. Cardinality(kept) = 0
        BY <2>1, FS_EmptySet DEF Plain
      <4>2. seed < 0 /\ seed \in Nat
        BY <3>2, <4>1 DEF Seed, Typed, UploadTypes
      <4> QED BY <4>2
    <3>3. CASE PartsEnd \/ Join
      BY <2>8, <3>1, <3>3 DEF PartsEnd, Join
    <3>4. CASE LoadCommitted
      BY <2>2, <2>3, <2>6, <2>7, <3>1, <3>4, <3>7 DEF LoadCommitted, counters, NestInv, LoadsNested
    <3>5. CASE LoadWire
      BY <2>2, <2>3, <2>4, <2>6, <2>7, <3>1, <3>5, <3>7 DEF LoadWire, counters, NestInv, LoadsNested
    <3>6. ASSUME NEW p \in Parts, PartStep(p) PROVE NestInv'
      <4>1. CountersCount' /\ wire <= wire' /\ buffered <= buffered'
        BY <1>2, <2>1, <3>6, PartCounters DEF NestInv
      <4>2. ticker' = ticker
        BY <3>6 DEF PartStep, StartPart, ReadPart, Transmit, Answer, NoAnswer
      <4>3. LoadsNested'
        BY <2>3, <2>4, <4>1, <4>2 DEF LoadsNested
      <4> QED BY <2>7, <3>1, <3>7, <4>1, <4>3 DEF NestInv
    <3> QED BY <2>9, <3>2, <3>3, <3>4, <3>5, <3>6 DEF Transfer, UploadStep
  <2>10. CASE ProgressReport
    <3>1. /\ UNCHANGED <<counters, part, tries>> /\ ticker' = NoTick
          /\ ticker.at = "buffered" /\ row' \in {row, Report} /\ late' \in {late, {Report}}
      BY <2>10 DEF ProgressReport, Reported, Sent, HeldBack, Handled
    <3>2. Report.c <= Report.w /\ Report.w <= Report.b /\ Report.b <= Size
      BY <2>2, <2>4, <3>1 DEF Report
    <3>3. Nested'
      BY <2>3, <2>5, <3>1, <3>2 DEF Nested
    <3>4. LateNested'
      <4>1. CASE late' = {Report}
        BY <2>3, <3>2, <4>1 DEF LateNested
      <4> QED BY <2>14, <3>1, <4>1
    <3> QED BY <2>6, <3>1, <3>3, <3>4 DEF NestInv, LoadsNested, NoTick
  <2>11. CASE FinalReport
    <3>1. UNCHANGED <<counters, part, tries>> /\ ticker' = ticker
      BY <2>11 DEF FinalReport
    <3> DEFINE r0 == [c |-> Size, w |-> Size, b |-> Size]
    <3>2. row' \in {row, r0} /\ late' \in {late, {r0}}
      BY <2>11 DEF FinalReport, Sent, HeldBack, Handled
    <3>3. Nested'
      BY <2>3, <2>5, <3>2 DEF Nested
    <3>4. LateNested'
      <4>1. CASE late' = {r0}
        BY <2>3, <4>1 DEF LateNested
      <4> QED BY <2>14, <3>2, <4>1
    <3> QED BY <2>4, <2>6, <3>1, <3>3, <3>4 DEF NestInv, LoadsNested, counters
  <2>12. CASE Outcome
    <3>1. UNCHANGED <<counters, part, tries>> /\ ticker' = ticker /\ row' = Zero
      BY <2>12 DEF Outcome
    <3>2. Nested'
      BY <2>3, <3>1 DEF Nested, Zero
    <3>3. LateNested'
      BY <2>12, <2>14 DEF Outcome
    <3> QED BY <2>4, <2>6, <3>1, <3>2, <3>3 DEF NestInv, LoadsNested, counters
  <2>13. CASE SpinnerTick \/ Feed \/ UNCHANGED vars
    BY <2>8, <2>13 DEF SpinnerTick, Feed, vars, progressVars, counters, rowVars
  <2>15. CASE HandleLate \/ Announce
    <3>1. UNCHANGED <<counters, part, tries>> /\ ticker' = ticker /\ late' \subseteq late
      BY <2>15 DEF HandleLate, Announce, progressVars, counters
    <3>2. PICK r \in late \cup {Zero} : row' = r
      BY <2>15 DEF HandleLate, Announce, Handled
    <3>3. r.c <= r.w /\ r.w <= r.b /\ r.b <= Size
      BY <2>1, <2>3 DEF NestInv, LateNested, Zero
    <3>4. Nested'
      BY <2>3, <3>2, <3>3 DEF Nested
    <3>5. LateNested' /\ CountersCount'
      BY <2>6, <2>14, <3>1
    <3> QED BY <2>4, <3>1, <3>4, <3>5 DEF NestInv, LoadsNested, counters
  <2> QED BY <2>9, <2>10, <2>11, <2>12, <2>13, <2>15 DEF Next
<1> QED BY <1>1, <1>2

\* As long as nothing was kept and no request repeated, what a row shows is nested,
\* whenever the ticker's three loads happen.
THEOREM FiguresNest == Spec => []Nested
<1>1. Typed /\ Typed' /\ Counted /\ NestInv /\ [Next]_vars => NestInv'
  BY NextNest
<1>2. NestInv => Nested
  BY DEF NestInv
<1> QED BY InitNest, AlwaysTyped, AlwaysOnTheWay, <1>1, <1>2, PTL DEF Spec

(* --------------------------- the bytes sent ----------------------------- *)
Smooth == pumps = 1 /\ ~Retried /\ put # "failed"

\* One pump has nothing to overtake: the item was announced, no report is late.
InTurn == pumps = 1 => announced /\ late = {}

\* What SentBytes would be in a snapshot taken now.
SentNow == done + (IF Uploading THEN row.w ELSE 0)

\* Without repeated requests the bytes on the wire are the size at most, the row
\* never shows more than was loaded since, and the browser never more than the row.
WireCount == ~Retried => 3 * (wire - Cardinality(Tried)) <= seed + 1

SentGrows ==
  Smooth => /\ row.w <= Size
            /\ put \in {"parts", "stopOk", "stopErr"} => row.w <= wire
            /\ ticker.at = "buffered" => row.w <= ticker.w /\ ticker.w <= wire
            /\ shown.sent <= frame.sent /\ frame.sent <= store.sent /\ store.sent <= SentNow

LEMMA SmoothWasSmooth == Typed /\ Typed' /\ [Next]_vars /\ Smooth' => Smooth
<1>1. [Next]_vars => pumps' = pumps /\ (put = "failed" => put' = "failed")
  BY DEF Next, vars, progressVars, Transfer, UploadStep, PartStep, Seed, PartsEnd, LoadCommitted,
         LoadWire, Join, StartPart, ReadPart, Transmit, Answer, NoAnswer, ProgressReport,
         Reported, FinalReport, Outcome, HandleLate, Announce, SpinnerTick, Feed, rowVars
<1> QED BY <1>1, RetriedStays DEF Smooth, Typed

LEMMA AlwaysInTurn == Spec => []InTurn
<1>1. Init => InTurn
  BY DEF Init, InTurn
<1>2. InTurn /\ [Next]_vars => InTurn'
  BY DEF InTurn, Next, vars, rowVars, Transfer, ProgressReport, FinalReport, Outcome, Sent,
         HeldBack, HandleLate, Announce, SpinnerTick, Feed
<1> QED BY <1>1, <1>2, PTL DEF Spec

LEMMA WireIsBounded ==
  ASSUME Typed, Counted, WireCount, ~Retried PROVE wire <= Size
<1>1. kept \in SUBSET Parts /\ Tried \in SUBSET Parts
  BY DEF Typed, UploadTypes, Tried
<1>2. /\ IsFiniteSet(kept) /\ IsFiniteSet(Tried)
      /\ Cardinality(kept) \in Nat /\ Cardinality(Tried) \in Nat
  BY <1>1, SizeIsNat
<1>3. kept \cap Tried = {}
  BY DEF Counted, Tried, Typed, Attempts
<1>4. Cardinality(kept \cap Tried) = 0
  BY <1>3, FS_EmptySet
<1>5. Cardinality(kept \cup Tried)
        = Cardinality(kept) + Cardinality(Tried) - Cardinality(kept \cap Tried)
  BY <1>2, FS_Union
<1>6. Cardinality(kept \cup Tried) \in 0..Size
  BY <1>1, SizeIsNat
<1>7. 3 * (wire - Cardinality(Tried)) <= 3 * Cardinality(kept) + 1
  BY <1>2 DEF WireCount, Counted, Typed, UploadTypes
<1> QED BY <1>2, <1>4, <1>5, <1>6, <1>7, SizeIsNat DEF Typed, UploadTypes

LEMMA InitSent == Init => WireCount /\ SentGrows
<1> SUFFICES ASSUME Init PROVE WireCount /\ SentGrows
    OBVIOUS
<1> USE DEF Init, ProgressInit, FeedInit
<1>1. Tried = {}
  BY DEF Tried
<1>2. WireCount
  BY <1>1, FS_EmptySet DEF WireCount
<1>3. SentGrows
  BY SizeIsNat DEF SentGrows, SentNow, Uploading, NoTick, Zero, NothingYet
<1> QED BY <1>2, <1>3

LEMMA NextWireCount ==
  ASSUME Typed, Typed', Counted, WireCount, [Next]_vars PROVE WireCount' /\ wire <= wire'
<1> USE DEF Typed, UploadTypes, WireCount
<1>1. Tried \in SUBSET Parts /\ Cardinality(Tried) \in Nat /\ Cardinality(kept) \in Nat
  BY SizeIsNat DEF Tried
<1>2. Retried => Retried'
  BY RetriedStays
<1>3. ASSUME UNCHANGED <<wire, tries, seed>> PROVE WireCount' /\ wire <= wire'
  BY <1>3 DEF Tried, Retried
<1>4. CASE Seed
  <2> DEFINE m == wire - Cardinality(Tried)
  <2>1. Tried' = Tried /\ (Retried' <=> Retried)
    BY <1>4 DEF Seed, Tried, Retried
  <2>2. wire' \in {wire, wire + 1} /\ (wire' # wire => seed % 3 = 1) /\ seed' = seed + 1
    BY <1>4 DEF Seed
  <2>3. m \in Int /\ (~Retried => 3 * m <= seed + 1)
    BY <1>1
  <2>4. (~Retried /\ seed % 3 = 1) => 3 * m <= seed - 1
    <3> HIDE DEF m
    <3> QED BY <2>3
  <2> QED BY <1>1, <2>1, <2>2, <2>3, <2>4
<1>5. ASSUME NEW p \in Parts, Transmit(p) PROVE WireCount' /\ wire <= wire'
  <2>1. ASSUME ~Retried' PROVE 3 * (wire' - Cardinality(Tried')) <= seed' + 1
    <3>1. tries'[p] = tries[p] + 1 /\ ~(tries'[p] > 1) /\ tries[p] \in Nat
      BY <1>5, <2>1, ProgressAssumption DEF Transmit, Retried
    <3>2. Tried' = Tried \cup {p} /\ p \notin Tried
      BY <1>5, <3>1 DEF Transmit, Tried
    <3>3. Cardinality(Tried') = Cardinality(Tried) + 1
      BY <1>1, <3>2, OneMore
    <3> QED BY <1>1, <1>2, <1>5, <2>1, <3>3 DEF Transmit
  <2> QED BY <1>5, <2>1 DEF Transmit
<1>6. CASE Transfer
  <2>1. UNCHANGED <<wire, tries, seed>> \/ Seed \/ \E p \in Parts : Transmit(p)
    BY <1>6 DEF Transfer, UploadStep, PartStep, PartsEnd, LoadCommitted, LoadWire, Join,
                StartPart, ReadPart, Answer, NoAnswer, counters
  <2> QED BY <1>3, <1>4, <1>5, <2>1
<1>7. CASE ~Transfer
  <2>1. UNCHANGED <<wire, tries, seed>>
    BY <1>7 DEF Next, vars, progressVars, ProgressReport, Reported, FinalReport, Outcome,
                HandleLate, Announce, SpinnerTick, Feed, counters
  <2> QED BY <1>3, <2>1
<1> QED BY <1>6, <1>7

LEMMA NextSent ==
  ASSUME Typed, Typed', Counted, OnTheWay, InTurn, WireCount, wire <= wire', SentGrows,
         [Next]_vars
  PROVE  SentGrows'
<1>1. SUFFICES ASSUME Smooth' PROVE SentGrows'
  BY DEF SentGrows
<1>2. Smooth
  BY <1>1, SmoothWasSmooth
<1>3. /\ row.w <= Size
      /\ put \in {"parts", "stopOk", "stopErr"} => row.w <= wire
      /\ ticker.at = "buffered" => row.w <= ticker.w /\ ticker.w <= wire
      /\ shown.sent <= frame.sent /\ frame.sent <= store.sent /\ store.sent <= SentNow
  BY <1>2 DEF SentGrows
<1>12. announced /\ late = {} /\ ~(pumps = 2)
  BY <1>2 DEF Smooth, InTurn
<1>13. announced'
  BY <1>12 DEF Next, vars, rowVars, Transfer, ProgressReport, FinalReport, Outcome,
               HandleLate, Announce, SpinnerTick, Feed
<1>4. wire <= Size
  BY <1>2, WireIsBounded DEF Smooth
<1>5. /\ ticker \in [at : {"idle", "wire", "buffered"}, c : Nat, w : Nat]
      /\ row \in [c : Nat, w : Nat, b : Nat] /\ Size \in Nat /\ Size' = Size
      /\ wire \in Nat /\ wire' \in Nat /\ done \in Nat /\ SentNow \in Nat
      /\ store.sent \in Nat /\ frame.sent \in Nat /\ shown.sent \in Nat
  BY SizeIsNat DEF Typed, UploadTypes, PageTypes, Snapshots, Size, SentNow
<1>6. ASSUME UNCHANGED <<store, frame, shown>>, SentNow <= SentNow', SentNow' \in Nat
      PROVE  /\ shown'.sent <= frame'.sent /\ frame'.sent <= store'.sent
             /\ store'.sent <= SentNow'
  BY <1>3, <1>5, <1>6
<1>7. CASE Transfer
  <2>1. UNCHANGED <<row, done, store, frame, shown>>
    BY <1>7 DEF Transfer, feedVars, rowVars
  <2>2. \/ put' = put
        \/ /\ put \in {"parts", "stopOk", "stopErr"}
           /\ put' \in {"stopOk", "stopErr", "final", "error"}
    BY <1>7 DEF Transfer, UploadStep, PartStep, Seed, PartsEnd, LoadCommitted, LoadWire, Join,
                StartPart, ReadPart, Transmit, Answer, NoAnswer
  <2>3. SentNow' = SentNow
    BY <1>12, <1>13, <2>1, <2>2 DEF SentNow, Uploading, Over
  <2>4. put' \in {"parts", "stopOk", "stopErr"} => put \in {"parts", "stopOk", "stopErr"}
    BY <2>2
  <2>5. ticker' = ticker \/ LoadCommitted \/ LoadWire
    BY <1>7 DEF Transfer, UploadStep, PartStep, Seed, PartsEnd, Join, StartPart, ReadPart,
                Transmit, Answer, NoAnswer
  <2>6. LoadWire => put \in {"parts", "stopOk", "stopErr"} /\ wire' = wire
    BY DEF LoadWire, OnTheWay, counters
  <2>7. ticker'.at = "buffered" => row.w <= ticker'.w /\ ticker'.w <= wire'
    <3>1. CASE ticker' = ticker
      BY <1>3, <1>5, <3>1
    <3>2. CASE LoadCommitted
      BY <1>5, <3>2 DEF LoadCommitted
    <3>3. CASE LoadWire
      BY <1>3, <1>5, <2>6, <3>3 DEF LoadWire
    <3> QED BY <2>5, <3>1, <3>2, <3>3
  <2> QED BY <1>3, <1>5, <1>6, <2>1, <2>3, <2>4, <2>7 DEF SentGrows
<1>8. CASE ProgressReport
  <2>1. /\ UNCHANGED <<put, wire, done, store, frame, shown>> /\ ticker' = NoTick
        /\ ticker.at = "buffered" /\ row' \in {row, Report}
    BY <1>8, <1>12 DEF ProgressReport, Reported, Sent, HeldBack, Handled, counters, feedVars
  <2>2. row'.w \in Nat /\ row.w <= row'.w /\ row'.w <= wire
    BY <1>3, <1>5, <2>1 DEF Report
  <2>3. SentNow <= SentNow' /\ SentNow' \in Nat
    BY <1>5, <1>12, <1>13, <2>1, <2>2 DEF SentNow, Uploading, Over
  <2> QED BY <1>4, <1>5, <1>6, <2>1, <2>2, <2>3 DEF SentGrows, NoTick
<1>9. CASE FinalReport
  <2>1. /\ put = "final" /\ put' = "done" /\ UNCHANGED <<wire, done, ticker, store, frame, shown>>
        /\ row' \in {row, [c |-> Size, w |-> Size, b |-> Size]} /\ ticker.at = "idle"
    BY <1>9, <1>12 DEF FinalReport, Sent, HeldBack, Handled, counters, feedVars, OnTheWay
  <2>2. row'.w \in Nat /\ row.w <= row'.w /\ row'.w <= Size
    BY <1>3, <1>5, <2>1
  <2>3. SentNow <= SentNow' /\ SentNow' \in Nat
    BY <1>5, <1>12, <1>13, <2>1, <2>2 DEF SentNow, Uploading, Over
  <2> QED BY <1>5, <1>6, <2>1, <2>2, <2>3 DEF SentGrows
<1>10. CASE Outcome
  <2>1. /\ put = "done" /\ put' = "over" /\ done' = Size /\ row' = Zero
        /\ UNCHANGED <<ticker, store, frame, shown>> /\ done = 0 /\ ticker.at = "idle"
    BY <1>1, <1>10 DEF Outcome, Smooth, feedVars, OnTheWay
  <2>2. SentNow <= SentNow' /\ SentNow' \in Nat
    BY <1>3, <1>5, <1>12, <1>13, <2>1 DEF SentNow, Uploading, Over, Zero
  <2> QED BY <1>5, <1>6, <2>1, <2>2 DEF SentGrows, Zero
<1>11. CASE SpinnerTick \/ Feed \/ UNCHANGED vars
  <2>1. UNCHANGED <<put, wire, done, ticker, row>>
    BY <1>11 DEF SpinnerTick, Feed, vars, progressVars, rowVars
  <2>2. SentNow' = SentNow
    BY <1>12, <1>13, <2>1 DEF SentNow, Uploading, Over
  <2>3. \/ store' = Snapshot /\ frame' = frame /\ shown' = shown
        \/ store' = store /\ frame' = store /\ shown' = shown
        \/ store' = store /\ frame' = frame /\ shown' \in {frame, shown}
        \/ store' = store /\ frame' = shown /\ shown' = shown
    BY <1>11 DEF SpinnerTick, PublishSet, vars, feedVars, Feed, FeedStep, PublishWake, Accept,
                 HandlerStep, Greet, Tick, TakeUpdate, Written, Heartbeat, Disconnect, Send
  <2>4. Snapshot.sent = SentNow
    BY DEF Snapshot, SentNow
  <2>5. /\ shown'.sent <= frame'.sent /\ frame'.sent <= store'.sent
        /\ store'.sent <= SentNow'
    BY <1>3, <1>5, <2>2, <2>3, <2>4
  <2> QED BY <1>3, <1>5, <2>1, <2>5 DEF SentGrows
<1>14. ~HandleLate /\ ~Announce
  BY <1>12 DEF HandleLate, Announce
<1> QED BY <1>7, <1>8, <1>9, <1>10, <1>11, <1>14 DEF Next

LEMMA AlwaysSent == Spec => [](WireCount /\ SentGrows)
<1>1. /\ Typed /\ Typed' /\ Counted /\ OnTheWay /\ InTurn /\ WireCount /\ SentGrows
      /\ [Next]_vars
      => (WireCount /\ SentGrows)'
  BY NextWireCount, NextSent
<1> QED BY InitSent, AlwaysTyped, AlwaysOnTheWay, AlwaysInTurn, <1>1, PTL DEF Spec

\* With one message pump, and while no request is repeated and the item does not fail,
\* no step takes back bytes that a browser shows as sent.
THEOREM SentHolds == Spec => SentNeverGoesBack
<1>1. Typed /\ SentGrows /\ [Next]_vars =>
        \/ pumps = 2 \/ Retried \/ put = "failed" \/ put' = "failed"
        \/ shown'.sent >= shown.sent
  <2> SUFFICES ASSUME Typed, SentGrows, [Next]_vars, Smooth PROVE shown'.sent >= shown.sent
      BY DEF Smooth, Typed, PageTypes
  <2>1. shown' \in {frame, shown}
    BY DEF Next, vars, feedVars, Transfer, ProgressReport, FinalReport, Outcome, HandleLate,
           Announce, SpinnerTick, PublishSet, Feed, FeedStep, PublishWake, Accept, HandlerStep, Greet, Tick,
           TakeUpdate, Written, Heartbeat, Disconnect, Send
  <2>2. shown.sent \in Nat /\ frame.sent \in Nat /\ shown.sent <= frame.sent
    BY DEF Typed, PageTypes, Snapshots, SentGrows
  <2> QED BY <2>1, <2>2
<1> QED BY AlwaysTyped, AlwaysSent, <1>1, PTL DEF Spec, SentNeverGoesBack

(* ------------------------- no wake-up is lost --------------------------- *)
(* What PageCatchesUp rests on: a connection that is behind the store has   *)
(* something left that will make it send.  A frame being written is judged  *)
(* by what it holds, since the browser shows that next.                     *)
WakeLeft == pending \/ dirty \/ publisher = "wake"
Behind   == \/ handler = "loop" /\ shown # store
            \/ handler = "write" /\ frame # store

\* Whenever a snapshot is published, before, while or after a frame is written, a
\* connection that has not sent it has a wake-up in its channel or its flag, or is
\* about to be woken (Publish and handleEvents, src/web/server.go).
THEOREM NoWakeLost == Spec => [](Behind => WakeLeft)
<1>1. Init => (Behind => WakeLeft)
  BY DEF Init, FeedInit, Behind
<1>2. (Behind => WakeLeft) /\ [Next]_vars => (Behind => WakeLeft)'
  <2> SUFFICES ASSUME Behind => WakeLeft, [Next]_vars PROVE (Behind => WakeLeft)'
      OBVIOUS
  <2> USE DEF Behind, WakeLeft
  <2>1. ASSUME UNCHANGED feedVars PROVE (Behind => WakeLeft)'
    BY <2>1 DEF feedVars
  <2>2. CASE SpinnerTick
    BY <2>2 DEF SpinnerTick, PublishSet
  <2>3. CASE PublishWake
    BY <2>3 DEF PublishWake, Subscribed
  <2>4. CASE Accept \/ Disconnect
    BY <2>4 DEF Accept, Disconnect
  <2>5. CASE Greet \/ Tick \/ Heartbeat
    BY <2>5 DEF Greet, Tick, Heartbeat, Send
  <2>6. CASE TakeUpdate \/ Written
    BY <2>6 DEF TakeUpdate, Written
  <2>7. CASE \/ Transfer \/ ProgressReport \/ FinalReport \/ Outcome
             \/ HandleLate \/ Announce \/ UNCHANGED vars
    BY <2>1, <2>7 DEF Transfer, ProgressReport, FinalReport, Outcome, HandleLate, Announce,
                      vars
  <2> QED BY <2>2, <2>3, <2>4, <2>5, <2>6, <2>7 DEF Next, Feed, FeedStep, HandlerStep
<1> QED BY <1>1, <1>2, PTL DEF Spec
=============================================================================
