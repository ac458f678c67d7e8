--------------------------- MODULE PipelineProofs ---------------------------
(***************************************************************************)
(* Safety of the sync pipeline, for any finite pool of workers, any number *)
(* and sizes of items, any channel capacity and any cap on transfers.  The *)
(* invariant is built in layers, each proved from the ones before it; the  *)
(* refinement, the action properties and the absence of a deadlock follow. *)
(***************************************************************************)
EXTENDS PipelineLedger, FiniteSetTheorems, TLAPS

-----------------------------------------------------------------------------
(* Layer 1: types, which workers have an item, and the transfer slots.     *)

\* TypeOK is not inductive by itself.  A worker sends its item and its result,
\* so those are an item and an outcome while it has them; the pool does not run
\* before the scan and the listing are over, so total never moves under it; and
\* slots never falls below zero because it counts the workers that hold one.
HasItem == \A w \in Workers : pc[w] \in Holding => cur[w] \in Items
HasOutcome == \A w \in Workers : pc[w] = "report" => result[w] \in Outcomes
PoolWaits ==
    /\ "scan" \in pending => total = 0 /\ "bulk" \notin pending
    /\ ("scan" \in pending \/ "bulk" \in pending) =>
            dispatched = 0 /\ \A w \in Workers : pc[w] = "off"
SlotsCounted == slots = IF Capped THEN Cardinality(Moving) ELSE 0
QueueCapped == \A w \in Workers : pc[w] \in {"queue", "acquire"} => Capped
UnderCap == Capped => slots <= UploadJobs
SlotInv == SlotsCounted /\ QueueCapped /\ UnderCap

Inv1 == TypeOK /\ HasItem /\ HasOutcome /\ PoolWaits

\* What a consumer holds, by its tag.
LEMMA StatusMsg ==
    ASSUME NEW m \in Messages \cup {Off, Waiting}, m.tag \in StatusTags
    PROVE  m \in StatusMsgs
BY DEF Messages, StatusMsgs, ProgressMsgs, Listing, Off, Waiting, StatusTags,
       Outcomes

LEMMA ProgressMsg ==
    ASSUME NEW m \in Messages \cup {Off, Waiting}, m.tag = "Progress"
    PROVE  m \in ProgressMsgs
BY DEF Messages, StatusMsgs, ProgressMsgs, Listing, Off, Waiting, StatusTags,
       Outcomes

\* A worker's messages are messages.
LEMMA WorkerMsg ==
    ASSUME NEW w \in Workers, NEW i \in Items
    PROVE  /\ \A t \in StatusTags : Status(t, w, i) \in StatusMsgs
           /\ \A b \in Nat : Progress(w, i, b) \in ProgressMsgs
BY DEF Status, Progress, StatusMsgs, ProgressMsgs

\* Appending one to the channel.
LEMMA SendOK ==
    ASSUME ChanOK, NEW m \in Messages, Len(msgChan) < ChanCap,
           msgChan' = Append(msgChan, m), UNCHANGED pump
    PROVE  ChanOK'
BY PipelineAssumption DEF ChanOK

\* A worker leaves the event loop's variables and the commands alone.
FrameOK == RunOK /\ TallyOK /\ ViewOK /\ PhaseOK /\ CtlOK

LEMMA FrameKept == FrameOK /\ UNCHANGED workerFrame => FrameOK'
<1> SUFFICES ASSUME FrameOK, UNCHANGED workerFrame PROVE FrameOK'
  OBVIOUS
<1> USE DEF workerFrame, FrameOK
<1>1. RunOK'
  BY DEF RunOK, runVars, Items
<1>2. TallyOK'
  BY DEF TallyOK, tallyVars, Items
<1>3. ViewOK'
  BY DEF ViewOK, viewVars, Items
<1>4. PhaseOK' /\ CtlOK'
  BY DEF PhaseOK, CtlOK, phaseVars, ctlVars
<1>5. QED
  BY <1>1, <1>2, <1>3, <1>4

LEMMA InitInv1 == Init => Inv1
<1> SUFFICES ASSUME Init PROVE Inv1
  OBVIOUS
<1>1. TypeOK
  <2>1. msgChan \in Seq(Messages) /\ Len(msgChan) <= ChanCap
    BY PipelineAssumption DEF Init
  <2>2. pump \in [Pumps -> Messages \cup {Off, Waiting}]
    BY DEF Init
  <2>3. rows \in [Workers -> [status : StatusTags \cup {"Idle"},
                              item : Items \cup {NoItem}, up : Nat]]
    BY DEF Init, IdleRow
  <2>4. mode \in {"sync", "verify", "dry"} /\ total \in 0 .. N
    BY PipelineAssumption DEF Init
  <2>5. /\ record \in [Items -> Outcomes \cup {"none"}]
        /\ cur \in [Workers -> Items \cup {NoItem}]
        /\ result \in [Workers -> Outcomes \cup {"none"}]
        /\ pc \in [Workers -> Holding \cup {"off", "take", "exited"}]
    BY DEF Init
  <2>6. state \in States /\ pausedFrom \in States
    BY DEF Init, States
  <2>7. dispatched \in 0 .. total
    BY DEF Init
  <2>8. QED
    BY <2>1, <2>2, <2>3, <2>4, <2>5, <2>6, <2>7
       DEF Init, TypeOK, RunOK, TallyOK, ViewOK, PhaseOK, CtlOK, ChanOK, PoolOK
<1>2. HasItem /\ HasOutcome /\ PoolWaits
  BY DEF Init, HasItem, HasOutcome, PoolWaits, Holding
<1>3. QED
  BY <1>1, <1>2 DEF Inv1

\* A worker in Put holds a slot, so there is one to give back.
LEMMA SlotHeld ==
    ASSUME SlotsCounted, Capped, NEW w \in Workers, pc[w] = "put"
    PROVE  slots >= 1
<1>1. IsFiniteSet(Moving)
  BY PipelineAssumption, FS_Subset DEF Moving
<1>2. w \in Moving
  BY DEF Moving
<1>3. Cardinality(Moving) \in Nat /\ Cardinality(Moving) # 0
  BY <1>1, <1>2, FS_EmptySet, FS_CardinalityType
<1>4. QED
  BY <1>3 DEF SlotsCounted

\* The steps of the workers.
LEMMA WorkingInv1 ==
    ASSUME Inv1, SlotsCounted, NEW w \in Workers, Working(w) PROVE Inv1'
<1> USE DEF Inv1
<1>1. UNCHANGED workerFrame
  BY DEF Working, LoopStep, Take, NoMoreItems, PassGate, QuitAtGate, SendChecking,
     StatItem, SendQueued, Acquire, AbandonSlot, SendUploading, PutProgress,
     PutDone, PutFailed, PutReturns, Report
<1>2. FrameOK'
  BY <1>1, FrameKept DEF FrameOK, TypeOK
<1>3. ChanOK'
  <2> USE DEF TypeOK
  <2>1. CASE UNCHANGED chanVars
    BY <2>1 DEF ChanOK, chanVars
  <2>2. CASE \E t \in StatusTags : pc[w] \in Holding /\ Send(Status(t, w, cur[w]))
    <3>1. cur[w] \in Items
      BY <2>2 DEF HasItem
    <3>2. QED
      BY <2>2, <3>1, WorkerMsg, SendOK DEF Send, Messages
  <2>3. CASE PutProgress(w)
    <3>1. cur[w] \in Items
      BY <2>3 DEF HasItem, PutProgress, Holding
    <3>2. PICK b \in Figures : msgChan' = Append(msgChan, Progress(w, cur[w], b))
      BY <2>3 DEF PutProgress
    <3>3. b \in Nat
      BY PipelineAssumption
    <3>4. QED
      BY <2>3, <3>1, <3>2, <3>3, WorkerMsg, SendOK DEF PutProgress, Messages
  <2>4. CASE SendChecking(w) \/ SendQueued(w) \/ SendUploading(w) \/ Report(w)
    BY <2>2, <2>4
       DEF SendChecking, SendQueued, SendUploading, Report, Holding, StatusTags,
           HasOutcome
  <2>5. QED
    BY <2>1, <2>3, <2>4
       DEF Working, LoopStep, Take, NoMoreItems, PassGate, QuitAtGate, StatItem, Acquire,
           AbandonSlot, PutDone, PutFailed, PutReturns
<1>4. UNCHANGED <<total, pending, exited>>
  BY <1>1 DEF workerFrame, runVars
<1> DEFINE PoolInv == /\ PoolOK /\ HasItem /\ HasOutcome
                     /\ complete \in SUBSET Items
<1>5. PoolInv'
  <2> USE <1>4 DEF TypeOK, PoolOK, HasItem, HasOutcome, Goto
  <2>1. CASE Take(w)
    BY <2>1, PipelineAssumption DEF Take, Holding, Items, RunOK
  <2>2. CASE NoMoreItems(w)
    BY <2>2 DEF NoMoreItems, Holding
  <2>3. CASE PassGate(w)
    BY <2>3 DEF PassGate, Holding
  <2>4. CASE QuitAtGate(w)
    BY <2>4 DEF QuitAtGate, Holding
  <2>5. CASE SendChecking(w)
    BY <2>5 DEF SendChecking, Holding
  <2>6. CASE StatItem(w)
    BY <2>6 DEF StatItem, Holding, Outcomes, ResultUnlessFound, Transfers, RunOK
  <2>7. CASE SendQueued(w)
    BY <2>7 DEF SendQueued, Holding
  <2>8. CASE Acquire(w)
    BY <2>8 DEF Acquire, Holding
  <2>9. CASE AbandonSlot(w)
    BY <2>9 DEF AbandonSlot, Holding
  <2>10. CASE SendUploading(w)
    BY <2>10 DEF SendUploading, Holding
  <2>11. CASE PutProgress(w)
    BY <2>11 DEF PutProgress, Holding
  <2>12. CASE PutDone(w)
    BY <2>12, SlotHeld DEF PutDone, Holding, PutReturns, Outcomes
  <2>13. CASE PutFailed(w)
    BY <2>13, SlotHeld DEF PutFailed, Holding, PutReturns, Outcomes
  <2>14. CASE Report(w)
    BY <2>14 DEF Report, Holding
  <2>15. QED
    BY <2>1, <2>2, <2>3, <2>4, <2>5, <2>6, <2>7, <2>8, <2>9, <2>10, <2>11, <2>12, <2>13, <2>14 DEF Working, LoopStep
<1>6. PoolWaits'
  <2>1. pc[w] # "off"
    BY DEF Working, LoopStep, Take, NoMoreItems, PassGate, QuitAtGate, SendChecking,
       StatItem, SendQueued, Acquire, AbandonSlot, SendUploading, PutProgress,
       PutDone, PutFailed, PutReturns, Report
  <2>2. QED
    BY <2>1, <1>4 DEF PoolWaits
<1>7. QED
  BY <1>2, <1>3, <1>4, <1>5, <1>6 DEF FrameOK, TypeOK

\* The steps of the consumers.
LEMMA PumpingInv1 ==
    ASSUME Inv1, NEW p \in Pumps, Pumping(p) PROVE Inv1'
<1> USE DEF Inv1, TypeOK
<1>1. UNCHANGED <<runVars, pausedFrom, ctlVars, poolVars, pending, complete, exited>>
  BY DEF Pumping, Receive, DeliverListing, DeliverProgress, DeliverStatus,
     phaseVars
<1>2. RunOK' /\ CtlOK' /\ PoolOK'
  BY <1>1 DEF RunOK, CtlOK, PoolOK, runVars, ctlVars, poolVars, Items
<1>3. HasItem' /\ HasOutcome' /\ PoolWaits'
  BY <1>1 DEF HasItem, HasOutcome, PoolWaits, Items, runVars, poolVars
<1>4. ChanOK'
  <2>1. CASE Receive(p)
    <3>1. /\ Head(msgChan) \in Messages
          /\ Tail(msgChan) \in Seq(Messages)
          /\ Len(Tail(msgChan)) <= ChanCap
      BY <2>1, PipelineAssumption DEF ChanOK, Receive
    <3>2. QED
      BY <2>1, <3>1 DEF ChanOK, Receive
  <2>2. CASE DeliverListing(p) \/ DeliverProgress(p) \/ DeliverStatus(p)
    BY <2>2 DEF ChanOK, DeliverListing, DeliverProgress, DeliverStatus
  <2>3. QED
    BY <2>1, <2>2 DEF Pumping
<1>5. CASE Receive(p) \/ DeliverListing(p)
  <2>1. TallyOK' /\ ViewOK' /\ PhaseOK'
    BY <1>5 DEF Receive, DeliverListing, TallyOK, ViewOK, PhaseOK, tallyVars,
       viewVars, phaseVars, Items
  <2>2. QED
    BY <1>1, <1>2, <1>3, <1>4, <2>1
<1>6. CASE DeliverProgress(p)
  <2> DEFINE m == pump[p]
  <2>1. m \in ProgressMsgs
    BY <1>6, ProgressMsg DEF DeliverProgress, ChanOK
  <2>2. ViewOK'
    BY <1>6, <2>1 DEF DeliverProgress, ViewOK, ProgressMsgs
  <2>3. TallyOK' /\ PhaseOK'
    BY <1>6 DEF DeliverProgress, TallyOK, PhaseOK, tallyVars, phaseVars, Items
  <2>4. QED
    BY <1>1, <1>2, <1>3, <1>4, <2>2, <2>3
<1>7. CASE DeliverStatus(p)
  <2> DEFINE m == pump[p]
  <2>1. m \in StatusMsgs /\ m.w \in Workers /\ m.i \in Items /\ m.tag \in StatusTags
    BY <1>7, StatusMsg DEF DeliverStatus, ChanOK, StatusMsgs
  <2>2. RowAfter(rows[m.w], m) \in [status : StatusTags \cup {"Idle"},
                                    item : Items \cup {NoItem}, up : Nat]
    <3>1. rows[m.w] \in [status : StatusTags \cup {"Idle"},
                         item : Items \cup {NoItem}, up : Nat]
      BY <2>1 DEF ViewOK
    <3>2. QED
      BY <2>1, <3>1 DEF RowAfter, IdleRow
  <2>3. ViewOK'
    <3>1. queuePos' \in Nat
      BY <1>7, <2>1 DEF DeliverStatus, QueuePosAfter, ViewOK, Items
    <3>2. rows' = [rows EXCEPT ![m.w] = RowAfter(rows[m.w], m)]
      BY <1>7 DEF DeliverStatus
    <3>3. transferStarted' \in BOOLEAN
      BY <1>7 DEF DeliverStatus
    <3>4. QED
      BY <2>1, <2>2, <3>1, <3>2, <3>3 DEF ViewOK, Items
  <2>4. TallyOK'
    <3>1. Size[m.i] \in Nat
      BY <2>1, PipelineAssumption
    <3>2. QED
      BY <1>7, <2>1, <3>1 DEF DeliverStatus, Tally, TallyOK, Items
  <2>5. PhaseOK'
    BY <1>7 DEF DeliverStatus, PhaseOK, States
  <2>6. QED
    BY <1>1, <1>2, <1>3, <1>4, <2>3, <2>4, <2>5
<1>8. QED
  BY <1>5, <1>6, <1>7 DEF Pumping

\* The results of commands, and the keys.
LEMMA CommandInv1 ==
    ASSUME Inv1, Commands \/ KeyQuit \/ KeyPause \/ QuitMsg PROVE Inv1'
<1> USE PipelineAssumption DEF Inv1, TypeOK
<1>1. UNCHANGED <<mode, tallyVars, viewVars, complete>>
  BY DEF Commands, ScanFailed, ScanComplete, BulkStatProgress, BulkStatComplete,
     KeyQuit, KeyPause, QuitMsg, runVars
<1>2. TallyOK' /\ ViewOK' /\ complete' \in SUBSET Items
  BY <1>1 DEF TallyOK, ViewOK, tallyVars, viewVars, Items
<1>3. RunOK'
  BY <1>1 DEF RunOK, runVars, Items, Commands, ScanFailed, ScanComplete,
     BulkStatProgress, BulkStatComplete, KeyQuit, KeyPause, QuitMsg
<1>4. PhaseOK' /\ CtlOK'
  BY DEF PhaseOK, CtlOK, phaseVars, ctlVars, States, Commands, ScanFailed,
     ScanComplete, BulkStatProgress, BulkStatComplete, KeyQuit, KeyPause, Pause,
     Resume, QuitMsg
<1>5. ChanOK'
  <2>1. CASE BulkStatProgress
    <3>1. Listing \in Messages
      BY DEF Messages
    <3>2. QED
      BY <2>1, <3>1, SendOK DEF BulkStatProgress
  <2>2. CASE BulkStatComplete
    BY <2>2 DEF BulkStatComplete, ChanOK, Pumps
  <2>3. CASE UNCHANGED chanVars
    BY <2>3 DEF ChanOK, chanVars
  <2>4. QED
    BY <2>1, <2>2, <2>3 DEF Commands, ScanFailed, ScanComplete, KeyQuit, KeyPause,
       QuitMsg
<1>6. PoolOK' /\ HasItem' /\ HasOutcome'
  <2>1. CASE UNCHANGED <<total, poolVars>>
    BY <2>1 DEF PoolOK, HasItem, HasOutcome, poolVars, Items
  <2>2. CASE ScanComplete \/ BulkStatComplete
    <3>1. dispatched = 0 /\ \A w \in Workers : pc[w] = "off"
      BY <2>2 DEF ScanComplete, BulkStatComplete, PoolWaits
    <3>2. total' \in Nat
      BY <1>3 DEF RunOK
    <3>3. UNCHANGED <<dispatched, cur, result, slots>>
      BY <2>2 DEF ScanComplete, BulkStatComplete
    <3>4. pc' = [w \in Workers |-> "take"] \/ UNCHANGED pc
      BY <2>2 DEF ScanComplete, BulkStatComplete, StartPool
    <3>5. QED
      BY <3>1, <3>2, <3>3, <3>4 DEF PoolOK, HasItem, HasOutcome, Holding
  <2>3. QED
    BY <2>1, <2>2 DEF Commands, ScanFailed, BulkStatProgress, KeyQuit, KeyPause,
       QuitMsg, runVars, poolVars
<1>7. PoolWaits'
  BY DEF PoolWaits, Commands, ScanFailed, ScanComplete, StartPool,
     BulkStatProgress, BulkStatComplete, KeyQuit, KeyPause, QuitMsg, runVars,
     poolVars
<1>8. pending' \in SUBSET {"scan", "bulk", "quit"} /\ exited' \in BOOLEAN
  BY DEF Commands, ScanFailed, ScanComplete, BulkStatProgress, BulkStatComplete,
     KeyQuit, KeyPause, QuitMsg
<1>9. QED
  BY <1>2, <1>3, <1>4, <1>5, <1>6, <1>7, <1>8

LEMMA StutterInv1 == Inv1 /\ UNCHANGED vars => Inv1'
<1> SUFFICES ASSUME Inv1, UNCHANGED vars PROVE Inv1'
  OBVIOUS
<1>1. UNCHANGED <<workerFrame, chanVars, poolVars, complete>>
  BY DEF vars, workerFrame
<1>2. FrameOK'
  BY <1>1, FrameKept DEF FrameOK, Inv1, TypeOK
<1>3. ChanOK' /\ PoolOK'
  BY <1>1 DEF Inv1, TypeOK, ChanOK, PoolOK, workerFrame, chanVars, poolVars,
     runVars, Items
<1>4. HasItem' /\ HasOutcome' /\ PoolWaits'
  BY <1>1 DEF Inv1, HasItem, HasOutcome, PoolWaits, workerFrame, poolVars,
     runVars, Items
<1>5. QED
  BY <1>1, <1>2, <1>3, <1>4 DEF Inv1, TypeOK, FrameOK, workerFrame, Items

LEMMA NextInv1 == Inv1 /\ SlotsCounted /\ [Next]_vars => Inv1'
BY WorkingInv1, PumpingInv1, CommandInv1, StutterInv1 DEF Next, Terminated

LEMMA InitSlotInv == Init => SlotInv
<1> SUFFICES ASSUME Init PROVE SlotInv
  OBVIOUS
<1>1. Moving = {}
  BY DEF Init, Moving
<1>2. slots = 0 /\ QueueCapped
  BY DEF Init, QueueCapped
<1>3. QED
  BY <1>1, <1>2, FS_EmptySet, PipelineAssumption
     DEF SlotInv, SlotsCounted, UnderCap, Capped

\* A step that moves no worker in or out of the places that hold a slot.
LEMMA SlotsKept ==
    ASSUME SlotsCounted, UnderCap, Moving' = Moving, slots' = slots
    PROVE  SlotsCounted' /\ UnderCap'
BY DEF SlotsCounted, UnderCap, Capped

LEMMA WorkingSlotInv ==
    ASSUME Inv1, SlotInv, NEW w \in Workers, Working(w) PROVE SlotInv'
<1> USE DEF SlotInv, Goto
<1>1. pc \in [Workers -> Holding \cup {"off", "take", "exited"}] /\ slots \in Nat
  BY DEF Inv1, TypeOK, PoolOK
<1>2. IsFiniteSet(Moving) /\ Cardinality(Moving) \in Nat
  BY PipelineAssumption, FS_Subset, FS_CardinalityType DEF Moving
<1>3. QueueCapped'
  BY <1>1 DEF QueueCapped, Capped, Working, LoopStep, Take, NoMoreItems, PassGate,
     QuitAtGate, SendChecking, StatItem, SendQueued, Acquire, AbandonSlot,
     SendUploading, PutProgress, PutDone, PutFailed, PutReturns, Report
<1>4. CASE \/ Take(w) \/ NoMoreItems(w) \/ PassGate(w) \/ QuitAtGate(w)
           \/ SendChecking(w) \/ SendQueued(w) \/ AbandonSlot(w)
           \/ SendUploading(w) \/ PutProgress(w) \/ Report(w)
  <2>1. Moving' = Moving /\ slots' = slots
    BY <1>1, <1>4 DEF Moving, Take, NoMoreItems, PassGate, QuitAtGate,
       SendChecking, SendQueued, AbandonSlot, SendUploading, PutProgress, Report
  <2>2. QED
    BY <1>3, <2>1, SlotsKept
<1>5. CASE StatItem(w)
  <2>1. CASE Capped
    <3>1. Moving' = Moving /\ slots' = slots
      BY <1>1, <1>5, <2>1 DEF Moving, StatItem
    <3>2. QED
      BY <1>3, <3>1, SlotsKept
  <2>2. CASE ~Capped
    BY <1>3, <1>5, <2>2 DEF StatItem, SlotsCounted, UnderCap, Capped
  <2>3. QED
    BY <2>1, <2>2
<1>6. CASE Acquire(w)
  <2>1. Capped
    BY <1>6 DEF Acquire, QueueCapped
  <2>2. w \notin Moving /\ Moving' = Moving \cup {w}
    BY <1>1, <1>6 DEF Acquire, Moving
  <2>3. Cardinality(Moving') = Cardinality(Moving) + 1
    BY <1>2, <2>2, FS_AddElement
  <2>4. slots < UploadJobs /\ slots' = slots + 1
    BY <1>6 DEF Acquire
  <2>5. Capped'
    BY <2>1 DEF Capped
  <2>6. QED
    BY <1>1, <1>3, <2>1, <2>3, <2>4, <2>5, PipelineAssumption
       DEF SlotsCounted, UnderCap
<1>7. CASE PutDone(w) \/ PutFailed(w)
  <2>1. w \in Moving /\ Moving' = Moving \ {w}
    BY <1>1, <1>7 DEF PutDone, PutFailed, PutReturns, Moving
  <2>2. Cardinality(Moving') = Cardinality(Moving) - 1
    BY <1>2, <2>1, FS_RemoveElement
  <2>3. slots' = IF Capped THEN slots - 1 ELSE slots
    BY <1>7 DEF PutDone, PutFailed, PutReturns
  <2>4. Capped' = Capped
    BY DEF Capped
  <2>5. QED
    BY <1>1, <1>3, <2>2, <2>3, <2>4, PipelineAssumption
       DEF SlotsCounted, UnderCap
<1>8. QED
  BY <1>4, <1>5, <1>6, <1>7 DEF Working, LoopStep

LEMMA NextSlotInv == Inv1 /\ SlotInv /\ [Next]_vars => SlotInv'
<1> SUFFICES ASSUME Inv1, SlotInv, [Next]_vars PROVE SlotInv'
  OBVIOUS
<1>1. ASSUME UNCHANGED <<pc, slots>> PROVE SlotInv'
  BY <1>1 DEF SlotInv, SlotsCounted, QueueCapped, UnderCap, Capped, Moving
<1>2. CASE ScanComplete \/ BulkStatComplete
  <2>1. \A w \in Workers : pc[w] = "off"
    BY <1>2 DEF Inv1, PoolWaits, ScanComplete, BulkStatComplete
  <2>2. /\ slots' = slots
        /\ UNCHANGED pc \/ pc' = [w \in Workers |-> "take"]
    BY <1>2 DEF ScanComplete, BulkStatComplete, StartPool
  <2>3. Moving' = Moving
    BY <2>1, <2>2 DEF Moving
  <2>4. QueueCapped'
    BY <2>1, <2>2 DEF QueueCapped
  <2>5. QED
    BY <2>2, <2>3, <2>4, SlotsKept DEF SlotInv
<1>3. CASE \E w \in Workers : Working(w)
  BY <1>3, WorkingSlotInv
<1>4. CASE \E p \in Pumps : Pumping(p)
  BY <1>1, <1>4 DEF Pumping, Receive, DeliverListing, DeliverProgress,
     DeliverStatus, poolVars
<1>5. CASE \/ ScanFailed \/ BulkStatProgress \/ KeyQuit \/ KeyPause \/ QuitMsg
           \/ UNCHANGED vars
  BY <1>1, <1>5 DEF ScanFailed, BulkStatProgress, KeyQuit, KeyPause, QuitMsg,
     poolVars, vars
<1>6. QED
  BY <1>2, <1>3, <1>4, <1>5 DEF Next, Commands, Terminated

LEMMA Layer1 == Spec => [](Inv1 /\ SlotInv)
<1>1. Init => Inv1 /\ SlotInv
  BY InitInv1, InitSlotInv
<1>2. Inv1 /\ SlotInv /\ [Next]_vars => Inv1' /\ SlotInv'
  BY NextInv1, NextSlotInv DEF SlotInv
<1>3. QED
  BY <1>1, <1>2, PTL DEF Spec

\* Every variable keeps its type, and the channel its capacity.
THEOREM PipelineTypes == Spec => []TypeOK
<1>1. Inv1 => TypeOK
  BY DEF Inv1
<1>2. QED
  BY <1>1, Layer1, PTL

\* The cap on transfers holds: the semaphore counts exactly the workers between
\* taking a slot and giving it back, on every path out of a transfer.
THEOREM TransfersCapped == Spec => []UploadCap
<1>1. SlotInv => UploadCap
  BY DEF SlotInv, SlotsCounted, UnderCap, UploadCap
<1>2. QED
  BY <1>1, Layer1, PTL

-----------------------------------------------------------------------------
(* Layer 2: each item is in one place.                                     *)

Hand(w, i) == pc[w] \in Holding /\ cur[w] = i
Carries(m, i) == m.tag \in Outcomes /\ m.i = i
InChan(k, i) == Carries(msgChan[k], i)
InPump(p, i) == Carries(pump[p], i)
Slots == 1 .. Len(msgChan)

\* ExactlyOnce's counting of places, as facts about pairs of places.
OneHand == \A i \in Items : \A v, w \in Workers :
                Hand(v, i) /\ Hand(w, i) => v = w
OneSlot == \A i \in Items : \A j, k \in Slots :
                InChan(j, i) /\ InChan(k, i) => j = k
OnePump == \A i \in Items : \A p, q \in Pumps :
                InPump(p, i) /\ InPump(q, i) => p = q
HandOrSlot == \A i \in Items, w \in Workers, k \in Slots :
                ~(Hand(w, i) /\ InChan(k, i))
HandOrPump == \A i \in Items, w \in Workers, p \in Pumps :
                ~(Hand(w, i) /\ InPump(p, i))
SlotOrPump == \A i \in Items, k \in Slots, p \in Pumps :
                ~(InChan(k, i) /\ InPump(p, i))
RecordedLast == \A i \in Items : record[i] # "none" =>
                /\ \A w \in Workers : ~Hand(w, i)
                /\ \A k \in Slots : ~InChan(k, i)
                /\ \A p \in Pumps : ~InPump(p, i)
TakenFirst == \A i \in Items : i >= dispatched =>
                /\ record[i] = "none"
                /\ \A w \in Workers : ~Hand(w, i)
                /\ \A k \in Slots : ~InChan(k, i)
                /\ \A p \in Pumps : ~InPump(p, i)

Tracked == /\ OneHand /\ OneSlot /\ OnePump
           /\ HandOrSlot /\ HandOrPump /\ SlotOrPump
           /\ RecordedLast /\ TakenFirst

LEMMA InitTracked == Init => Tracked
<1> SUFFICES ASSUME Init PROVE Tracked
  OBVIOUS
<1>1. /\ \A w \in Workers : pc[w] = "off"
      /\ Len(msgChan) = 0
      /\ \A p \in Pumps : pump[p].tag \in {"off", "waiting"}
      /\ \A i \in Items : record[i] = "none"
  BY DEF Init, Waiting, Off
<1>2. QED
  BY <1>1 DEF Tracked, OneHand, OneSlot, OnePump, HandOrSlot, HandOrPump,
     SlotOrPump, RecordedLast, TakenFirst, Hand, InChan, InPump, Carries, Slots,
     Holding, Outcomes

\* A step that puts no item anywhere: hands may only be emptied, and a consumer
\* may only drop what it held.
NoNewHand == \A v \in Workers : pc'[v] \in Holding =>
                pc[v] \in Holding /\ cur'[v] = cur[v]
NoNewHeld == \A p \in Pumps : pump'[p].tag \in Outcomes => pump'[p] = pump[p]

LEMMA NothingNew ==
    ASSUME Tracked, NoNewHand, NoNewHeld, UNCHANGED <<msgChan, record, dispatched>>
    PROVE  Tracked'
BY DEF NoNewHand, NoNewHeld, Tracked, OneHand, OneSlot, OnePump, HandOrSlot,
   HandOrPump, SlotOrPump, RecordedLast, TakenFirst, Hand, InChan, InPump,
   Carries, Slots, Items

\* The channel after a send.
LEMMA Appended ==
    ASSUME NEW m \in Messages, msgChan \in Seq(Messages),
           msgChan' = Append(msgChan, m)
    PROVE  /\ Slots' = Slots \cup {Len(msgChan) + 1}
           /\ Len(msgChan) + 1 \notin Slots
           /\ \A k \in Slots : msgChan'[k] = msgChan[k]
           /\ msgChan'[Len(msgChan) + 1] = m
BY DEF Slots

\* A message that carries no outcome.
LEMMA PlainSend ==
    ASSUME Tracked, NoNewHand, NEW m \in Messages, m.tag \notin Outcomes,
           msgChan \in Seq(Messages), msgChan' = Append(msgChan, m),
           UNCHANGED <<pump, record, dispatched>>
    PROVE  Tracked'
<1>1. \A k \in Slots', i \in Items : InChan(k, i)' => k \in Slots /\ InChan(k, i)
  BY Appended DEF InChan, Carries, Outcomes
<1>2. QED
  BY <1>1 DEF NoNewHand, Tracked, OneHand, OneSlot, OnePump, HandOrSlot,
     HandOrPump, SlotOrPump, RecordedLast, TakenFirst, Hand, InPump, Carries,
     Items

\* A worker takes an item that was nowhere.
LEMMA TakeTracked ==
    ASSUME Inv1, Tracked, NEW w \in Workers, Take(w) PROVE Tracked'
<1> USE DEF Take, Inv1, TypeOK, PoolOK, RunOK
<1>1. /\ \A v \in Workers, i \in Items :
            Hand(v, i)' => Hand(v, i) \/ (v = w /\ i = dispatched)
      /\ dispatched \in Items
  BY PipelineAssumption DEF Hand, Goto, Items, Holding
<1>2. /\ \A k, i : InChan(k, i)' = InChan(k, i)
      /\ \A p, i : InPump(p, i)' = InPump(p, i)
      /\ Slots' = Slots
      /\ record' = record
  BY DEF InChan, InPump, Slots, chanVars, workerFrame, tallyVars
<1>3. \A i \in Items : i >= dispatched' => i >= dispatched /\ i # dispatched
  BY DEF Items
<1>4. TakenFirst /\ RecordedLast
  BY DEF Tracked
<1>5. dispatched >= dispatched
  OBVIOUS
<1>6. OneHand' /\ HandOrSlot' /\ HandOrPump'
  BY <1>1, <1>2, <1>4, <1>5
     DEF Tracked, OneHand, HandOrSlot, HandOrPump, TakenFirst, Items
<1>7. OneSlot' /\ OnePump' /\ SlotOrPump'
  BY <1>2 DEF Tracked, OneSlot, OnePump, SlotOrPump, Items
<1>8. RecordedLast' /\ TakenFirst'
  BY <1>1, <1>2, <1>3, <1>4, <1>5 DEF RecordedLast, TakenFirst, Items
<1>9. QED
  BY <1>6, <1>7, <1>8 DEF Tracked

\* A worker hands its outcome to the channel.
LEMMA ReportTracked ==
    ASSUME Inv1, Tracked, NEW w \in Workers, Report(w) PROVE Tracked'
<1> USE DEF Report, Inv1, TypeOK, PoolOK, ChanOK
<1> DEFINE last == Len(msgChan) + 1
           it == cur[w]
           m == Status(result[w], w, it)
<1>1. it \in Items /\ result[w] \in Outcomes /\ Hand(w, it)
  BY DEF HasItem, HasOutcome, Hand, Holding
<1>2. m \in Messages /\ m.i = it /\ m.tag \in Outcomes
  BY <1>1, WorkerMsg DEF Messages, Status, StatusTags
<1>3. /\ Slots' = Slots \cup {last} /\ last \notin Slots
      /\ \A k \in Slots : msgChan'[k] = msgChan[k]
      /\ msgChan'[last] = m
  BY <1>2, Appended DEF Send
<1> HIDE DEF m
<1>4. \A k \in Slots', i \in Items : InChan(k, i)' =>
            (k \in Slots /\ InChan(k, i)) \/ (k = last /\ i = it)
  BY <1>2, <1>3 DEF InChan, Carries
<1>5. \A v \in Workers, i \in Items : Hand(v, i)' => Hand(v, i) /\ v # w
  BY DEF Hand, Goto, Holding
<1>6. /\ \A p, i : InPump(p, i)' = InPump(p, i)
      /\ record' = record /\ dispatched' = dispatched
  BY DEF InPump, Send, workerFrame, tallyVars
<1> HIDE DEF last, it
<1>7. OneHand' /\ HandOrPump' /\ OnePump'
  BY <1>5, <1>6 DEF Tracked, OneHand, HandOrPump, OnePump, Items
<1>8. OneSlot'
  BY <1>1, <1>4 DEF Tracked, OneSlot, HandOrSlot, Items
<1>9. HandOrSlot'
  BY <1>1, <1>4, <1>5 DEF Tracked, OneHand, HandOrSlot, Items
<1>10. SlotOrPump'
  BY <1>1, <1>4, <1>6 DEF Tracked, HandOrPump, SlotOrPump, Items
<1>11. RecordedLast'
  BY <1>1, <1>4, <1>5, <1>6 DEF Tracked, RecordedLast, Items
<1>12. TakenFirst'
  BY <1>1, <1>4, <1>5, <1>6 DEF Tracked, TakenFirst, Items
<1>13. QED
  BY <1>7, <1>8, <1>9, <1>10, <1>11, <1>12 DEF Tracked

\* A consumer takes the head of the channel.
LEMMA ReceiveTracked ==
    ASSUME Inv1, Tracked, NEW p \in Pumps, Receive(p) PROVE Tracked'
<1> USE DEF Receive, Inv1, TypeOK, PoolOK, ChanOK
<1>1. /\ Slots' = 1 .. Len(msgChan) - 1
      /\ \A k \in Slots' : k + 1 \in Slots /\ msgChan'[k] = msgChan[k + 1]
      /\ 1 \in Slots /\ Head(msgChan) = msgChan[1]
  BY DEF Slots
<1>2. \A k \in Slots', i \in Items : InChan(k, i)' =>
            k + 1 \in Slots /\ InChan(k + 1, i) /\ k + 1 # 1
  BY <1>1 DEF InChan, Slots
<1>3. \A q \in Pumps, i \in Items : InPump(q, i)' =>
            \/ q # p /\ InPump(q, i)
            \/ q = p /\ 1 \in Slots /\ InChan(1, i)
  BY <1>1 DEF InPump, InChan
<1>4. /\ \A v, i : Hand(v, i)' = Hand(v, i)
      /\ record' = record /\ dispatched' = dispatched
  BY DEF Hand, poolVars, tallyVars
<1>5. \A j, k \in Slots' : j \in Int /\ k \in Int
  BY <1>1
<1>6. OneHand' /\ HandOrSlot' /\ HandOrPump'
  BY <1>2, <1>3, <1>4 DEF Tracked, OneHand, HandOrSlot, HandOrPump, Items
<1>7. OneSlot'
  <2> SUFFICES ASSUME NEW i \in Items, NEW j \in Slots', NEW k \in Slots',
                      InChan(j, i)', InChan(k, i)'
               PROVE  j = k
    BY DEF OneSlot, Items
  <2>1. j + 1 = k + 1
    BY <1>2 DEF Tracked, OneSlot
  <2>2. QED
    BY <2>1, <1>5
<1>8. OnePump' /\ SlotOrPump'
  BY <1>2, <1>3 DEF Tracked, OnePump, SlotOrPump, OneSlot, Items
<1>9. RecordedLast' /\ TakenFirst'
  BY <1>2, <1>3, <1>4 DEF Tracked, RecordedLast, TakenFirst, Items
<1>10. QED
  BY <1>6, <1>7, <1>8, <1>9 DEF Tracked

\* The event loop records an outcome.
LEMMA DeliverTracked ==
    ASSUME Inv1, Tracked, NEW p \in Pumps, DeliverStatus(p) PROVE Tracked'
<1> USE DEF DeliverStatus, Inv1, TypeOK, ChanOK, TallyOK
<1> DEFINE m == pump[p]
<1>1. m \in StatusMsgs /\ m.i \in Items
  BY StatusMsg DEF StatusMsgs
<1>2. \A q \in Pumps, i \in Items : InPump(q, i)' => q # p /\ InPump(q, i)
  BY DEF InPump, Carries, Off, Waiting, Outcomes
<1>3. \A i \in Items : record'[i] # "none" =>
            record[i] # "none" \/ (InPump(p, i) /\ m.i = i)
  BY <1>1 DEF Tally, InPump, Carries
<1>4. /\ \A k, i : InChan(k, i)' = InChan(k, i)
      /\ \A v, i : Hand(v, i)' = Hand(v, i)
      /\ Slots' = Slots /\ dispatched' = dispatched
  BY DEF InChan, Hand, Slots, poolVars
<1> HIDE DEF m
<1>5. OneHand' /\ OneSlot' /\ OnePump'
  BY <1>2, <1>4 DEF Tracked, OneHand, OneSlot, OnePump, Items
<1>6. HandOrSlot' /\ HandOrPump' /\ SlotOrPump'
  BY <1>2, <1>4 DEF Tracked, HandOrSlot, HandOrPump, SlotOrPump, Items
<1>7. RecordedLast'
  BY <1>2, <1>3, <1>4
     DEF Tracked, RecordedLast, HandOrPump, SlotOrPump, OnePump, Items
<1>8. TakenFirst'
  BY <1>2, <1>3, <1>4 DEF Tracked, TakenFirst, Items, TallyOK
<1>9. QED
  BY <1>5, <1>6, <1>7, <1>8 DEF Tracked

\* A worker's other steps.
LEMMA WorkingTracked ==
    ASSUME Inv1, Tracked, NEW w \in Workers, Working(w) PROVE Tracked'
<1> USE DEF Working, LoopStep
<1>1. CASE Take(w)
  BY <1>1, TakeTracked
<1>2. CASE Report(w)
  BY <1>2, ReportTracked
<1>3. CASE SendChecking(w) \/ SendQueued(w) \/ SendUploading(w)
  <2>1. /\ pc[w] \in {"check", "queue", "announce"}
        /\ cur' = cur /\ \E place : Goto(w, place)
        /\ UNCHANGED <<pump, record, dispatched>>
    BY <1>3 DEF SendChecking, SendQueued, SendUploading, Send, workerFrame,
       tallyVars
  <2>2. NoNewHand
    BY <2>1 DEF NoNewHand, Goto, Holding, Inv1, TypeOK, PoolOK
  <2>3. PICK t \in {"Checking", "Queued", "Uploading"} : Send(Status(t, w, cur[w]))
    BY <1>3 DEF SendChecking, SendQueued, SendUploading
  <2>4. Status(t, w, cur[w]) \in Messages /\ Status(t, w, cur[w]).tag \notin Outcomes
    BY <2>1, WorkerMsg DEF Inv1, HasItem, Holding, Messages, StatusTags, Status,
       Outcomes
  <2>5. QED
    BY <2>1, <2>2, <2>3, <2>4, PlainSend DEF Send, Inv1, TypeOK, ChanOK
<1>4. CASE PutProgress(w)
  <2>1. NoNewHand
    BY <1>4 DEF PutProgress, NoNewHand
  <2>2. cur[w] \in Items
    BY <1>4 DEF PutProgress, Inv1, HasItem, Holding
  <2>3. \A b \in Figures : b \in Nat
    BY PipelineAssumption
  <2>4. PICK b \in Figures : msgChan' = Append(msgChan, Progress(w, cur[w], b))
    BY <1>4 DEF PutProgress
  <2>5. /\ Progress(w, cur[w], b) \in Messages
        /\ Progress(w, cur[w], b).tag \notin Outcomes
    BY <2>2, <2>3, WorkerMsg DEF Messages, Progress, Outcomes
  <2>6. UNCHANGED <<pump, record, dispatched>>
    BY <1>4 DEF PutProgress, workerFrame, tallyVars
  <2>7. QED
    BY <2>1, <2>4, <2>5, <2>6, PlainSend DEF Inv1, TypeOK, ChanOK
<1>5. CASE \/ NoMoreItems(w) \/ PassGate(w) \/ QuitAtGate(w) \/ StatItem(w)
           \/ Acquire(w) \/ AbandonSlot(w) \/ PutDone(w) \/ PutFailed(w)
  <2>1. /\ cur' = cur
        /\ \E place : Goto(w, place) /\ (place \in Holding => pc[w] \in Holding)
        /\ UNCHANGED <<msgChan, pump, record, dispatched>>
    BY <1>5 DEF NoMoreItems, PassGate, QuitAtGate, StatItem, Acquire,
       AbandonSlot, PutDone, PutFailed, PutReturns, workerFrame, tallyVars,
       chanVars, Holding
  <2>2. NoNewHand /\ NoNewHeld
    BY <2>1 DEF NoNewHand, NoNewHeld, Goto, Inv1, TypeOK, PoolOK
  <2>3. QED
    BY <2>1, <2>2, NothingNew
<1>6. QED
  BY <1>1, <1>2, <1>3, <1>4, <1>5

LEMMA NextTracked == Inv1 /\ Tracked /\ [Next]_vars => Tracked'
<1> SUFFICES ASSUME Inv1, Tracked, [Next]_vars PROVE Tracked'
  OBVIOUS
<1>1. CASE \E w \in Workers : Working(w)
  BY <1>1, WorkingTracked
<1>2. CASE \E p \in Pumps : Pumping(p)
  <2>1. PICK p \in Pumps : Pumping(p)
    BY <1>2
  <2>2. CASE DeliverListing(p) \/ DeliverProgress(p)
    <3>1. /\ NoNewHand
          /\ UNCHANGED <<msgChan, record, dispatched>>
          /\ pump' = [pump EXCEPT ![p] = Waiting]
      BY <2>2 DEF DeliverListing, DeliverProgress, NoNewHand, poolVars, tallyVars
    <3>2. NoNewHeld
      BY <3>1 DEF NoNewHeld, Waiting, Outcomes, Inv1, TypeOK, ChanOK
    <3>3. QED
      BY <3>1, <3>2, NothingNew
  <2>3. QED
    BY <2>1, <2>2, ReceiveTracked, DeliverTracked DEF Pumping
<1>3. CASE BulkStatProgress
  <2>1. Listing \in Messages /\ Listing.tag \notin Outcomes
    BY DEF Messages, Listing, Outcomes
  <2>2. NoNewHand /\ UNCHANGED <<pump, record, dispatched>>
    BY <1>3 DEF BulkStatProgress, NoNewHand, poolVars, tallyVars
  <2>3. QED
    BY <1>3, <2>1, <2>2, PlainSend DEF BulkStatProgress, Inv1, TypeOK, ChanOK
<1>4. CASE ScanComplete \/ BulkStatComplete
  <2>1. NoNewHand /\ UNCHANGED <<msgChan, record, dispatched>>
    BY <1>4 DEF ScanComplete, BulkStatComplete, StartPool, NoNewHand, Holding,
       tallyVars, chanVars
  <2>2. UNCHANGED pump \/ pump' = [pump EXCEPT !["bulk"] = Waiting]
    BY <1>4 DEF ScanComplete, BulkStatComplete, chanVars
  <2>3. NoNewHeld
    BY <2>2 DEF NoNewHeld, Waiting, Outcomes, Inv1, TypeOK, ChanOK
  <2>4. QED
    BY <2>1, <2>3, NothingNew
<1>5. CASE ScanFailed \/ KeyQuit \/ KeyPause \/ QuitMsg \/ UNCHANGED vars
  <2>1. UNCHANGED <<msgChan, pump, record, dispatched, pc, cur>>
    BY <1>5 DEF ScanFailed, KeyQuit, KeyPause, QuitMsg, vars, poolVars,
       chanVars, tallyVars
  <2>2. QED
    BY <2>1, NothingNew DEF NoNewHand, NoNewHeld
<1>6. QED
  BY <1>1, <1>2, <1>3, <1>4, <1>5 DEF Next, Commands, Terminated

-----------------------------------------------------------------------------
(* Layer 3: what is claimed of an item is true of the destination.         *)

TrueOf(t, i) == /\ t = "Skipped" => i \in complete
                /\ t = "Done" => mode = "dry" \/ (mode = "sync" /\ i \in complete)

\* Where a worker has decided to transfer its item.
Sending == {"queue", "acquire", "announce", "put"}

TrueHands   == \A w \in Workers : pc[w] = "report" => TrueOf(result[w], cur[w])
TrueSlots   == \A k \in Slots, i \in Items : InChan(k, i) => TrueOf(msgChan[k].tag, i)
TruePumps   == \A p \in Pumps, i \in Items : InPump(p, i) => TrueOf(pump[p].tag, i)
TrueRecords == \A i \in Items : TrueOf(record[i], i)
SyncSends   == \A w \in Workers : pc[w] \in Sending => mode = "sync"
ListedHeld  == listed => known \subseteq complete
UnlistedSends == listed => \A w \in Workers : pc[w] \in Sending => cur[w] \notin known

Honest == /\ TrueHands /\ TrueSlots /\ TruePumps /\ TrueRecords
          /\ SyncSends /\ ListedHeld /\ UnlistedSends

LEMMA InitHonest == Init => Honest
<1> SUFFICES ASSUME Init PROVE Honest
  OBVIOUS
<1>1. /\ \A w \in Workers : pc[w] = "off"
      /\ Len(msgChan) = 0
      /\ \A p \in Pumps : pump[p].tag \in {"off", "waiting"}
      /\ \A i \in Items : record[i] = "none"
      /\ ~listed
  BY DEF Init, Waiting, Off
<1>2. QED
  BY <1>1 DEF Honest, TrueHands, TrueSlots, TruePumps, TrueRecords, SyncSends,
     ListedHeld, UnlistedSends, TrueOf, InChan, InPump, Carries, Slots, Sending,
     Outcomes

\* Steps after which no worker claims or transfers what it did not before.
NoNewClaim == \A v \in Workers :
    /\ pc'[v] = "report" =>
            pc[v] = "report" /\ cur'[v] = cur[v] /\ result'[v] = result[v]
    /\ pc'[v] \in Sending => pc[v] \in Sending /\ cur'[v] = cur[v]
SameFacts == UNCHANGED <<mode, complete, listed, known>>

LEMMA HandsHonest ==
    ASSUME Honest, NoNewClaim, SameFacts
    PROVE  TrueHands' /\ SyncSends' /\ ListedHeld' /\ UnlistedSends'
BY DEF NoNewClaim, SameFacts, Honest, TrueHands, SyncSends, ListedHeld,
   UnlistedSends, TrueOf

LEMMA QuietHonest ==
    ASSUME Honest, NoNewClaim, SameFacts, NoNewHeld, UNCHANGED <<msgChan, record>>
    PROVE  Honest'
<1>1. TrueSlots' /\ TrueRecords'
  BY DEF Honest, TrueSlots, TrueRecords, TrueOf, InChan, Carries, Slots, Items,
     SameFacts
<1>2. TruePumps'
  BY DEF Honest, TruePumps, TrueOf, InPump, Carries, Items, SameFacts, NoNewHeld
<1>3. QED
  BY <1>1, <1>2, HandsHonest DEF Honest

LEMMA SendHonest ==
    ASSUME Honest, NoNewClaim, SameFacts, NEW m \in Messages,
           msgChan \in Seq(Messages), msgChan' = Append(msgChan, m),
           \A i \in Items : Carries(m, i) => TrueOf(m.tag, i),
           UNCHANGED <<pump, record>>
    PROVE  Honest'
<1>1. TruePumps' /\ TrueRecords'
  BY DEF Honest, TruePumps, TrueRecords, TrueOf, InPump, Carries, Items, SameFacts
<1>2. TrueSlots'
  <2> SUFFICES ASSUME NEW k \in Slots', NEW i \in Items, InChan(k, i)'
               PROVE  TrueOf(msgChan[k].tag, i)'
    BY DEF TrueSlots, Items
  <2>1. CASE k \in Slots
    <3>1. msgChan'[k] = msgChan[k] /\ InChan(k, i)
      BY <2>1, Appended DEF InChan, Carries
    <3>2. TrueOf(msgChan[k].tag, i)
      BY <2>1, <3>1 DEF Honest, TrueSlots
    <3>3. QED
      BY <3>1, <3>2 DEF TrueOf, SameFacts
  <2>2. CASE k = Len(msgChan) + 1
    BY <2>2, Appended DEF InChan, Carries, TrueOf, SameFacts
  <2>3. QED
    BY <2>1, <2>2, Appended
<1>3. QED
  BY <1>1, <1>2, HandsHonest DEF Honest

\* The look at the destination, and the answer of the other modes.
LEMMA StatHonest ==
    ASSUME Inv1, Honest, NEW w \in Workers, StatItem(w) PROVE Honest'
<1> USE DEF StatItem, Inv1, TypeOK, PoolOK
<1>1. SameFacts /\ UNCHANGED <<msgChan, pump, record, cur>> /\ cur[w] \in Items
  BY DEF SameFacts, workerFrame, runVars, tallyVars, chanVars, HasItem, Holding
<1>2. PICK found \in BOOLEAN :
        /\ Answers(cur[w], found)
        /\ result' = [result EXCEPT ![w] = IF found THEN "Skipped"
                                                    ELSE ResultUnlessFound]
        /\ Goto(w, IF found \/ ~Transfers THEN "report"
                   ELSE IF Capped THEN "queue" ELSE "announce")
  OBVIOUS
<1>3. found => cur[w] \in complete
  BY <1>2 DEF Answers, Honest, ListedHeld
<1>4. ~found /\ mode = "verify" => ResultUnlessFound = "Error"
  BY DEF ResultUnlessFound
<1>5. ~found /\ listed => cur[w] \notin known
  BY <1>2 DEF Answers
<1>6. /\ \A v \in Workers : v # w =>
            pc'[v] = pc[v] /\ result'[v] = result[v] /\ cur'[v] = cur[v]
      /\ pc'[w] = "report" => found \/ mode # "sync"
      /\ pc'[w] \in Sending => ~found /\ mode = "sync"
      /\ result'[w] = IF found THEN "Skipped" ELSE ResultUnlessFound
  BY <1>1, <1>2 DEF Goto, Transfers, Sending
<1>7. TrueHands'
  <2>1. TrueOf(result[w], cur[w])' \/ pc'[w] # "report"
    <3>1. CASE found
      BY <3>1, <1>1, <1>3, <1>6 DEF TrueOf, SameFacts
    <3>2. CASE ~found /\ mode = "verify"
      BY <3>2, <1>1, <1>4, <1>6 DEF TrueOf, SameFacts
    <3>3. CASE ~found /\ mode = "dry"
      <4>1. ResultUnlessFound = "Done"
        BY <3>3 DEF ResultUnlessFound
      <4>2. QED
        BY <3>3, <4>1, <1>1, <1>6 DEF TrueOf, SameFacts
    <3>4. QED
      BY <1>6, <3>1, <3>2, <3>3 DEF RunOK
  <2>2. QED
    BY <2>1, <1>1, <1>6 DEF Honest, TrueHands, TrueOf, SameFacts
<1>8. SyncSends' /\ ListedHeld' /\ UnlistedSends'
  BY <1>1, <1>5, <1>6 DEF Honest, SyncSends, ListedHeld, UnlistedSends, SameFacts
<1>9. TrueSlots' /\ TruePumps' /\ TrueRecords'
  BY <1>1 DEF Honest, TrueSlots, TruePumps, TrueRecords, TrueOf, InChan, InPump,
     Carries, Slots, Items, SameFacts
<1>10. QED
  BY <1>7, <1>8, <1>9 DEF Honest

\* Put changes the object of one item, of which nothing is claimed elsewhere.
LEMMA PutHonest ==
    ASSUME Inv1, Tracked, Honest, NEW w \in Workers, PutDone(w) \/ PutFailed(w)
    PROVE  Honest'
<1> USE DEF PutDone, PutFailed, PutReturns, Inv1, TypeOK, PoolOK
<1>a. PICK it \in Items : it = cur[w]
  BY DEF HasItem, Holding
<1>1. Hand(w, it) /\ mode = "sync" /\ pc[w] = "put"
  BY <1>a DEF HasItem, Holding, Hand, Honest, SyncSends, Sending
<1>2. /\ UNCHANGED <<mode, listed, known, msgChan, pump, record, cur>>
      /\ \A v \in Workers : v # w => pc'[v] = pc[v] /\ result'[v] = result[v]
      /\ pc'[w] = "report"
      /\ result'[w] = "Error" \/ (result'[w] = "Done" /\ it \in complete')
  BY <1>a DEF workerFrame, runVars, tallyVars, chanVars, Goto
<1>3. \A i : i # it /\ i \in complete => i \in complete'
  BY <1>a
<1>4. \A t, i : i # it /\ TrueOf(t, i) => TrueOf(t, i)'
  BY <1>2, <1>3 DEF TrueOf
<1>5. TrueHands'
  <2>1. TrueOf(result[w], cur[w])'
    BY <1>a, <1>1, <1>2 DEF TrueOf
  <2>2. \A v \in Workers : v # w /\ pc[v] = "report" => cur[v] # it
    BY <1>a, <1>1 DEF Tracked, OneHand, Hand, Holding
  <2>3. \A v \in Workers : v # w /\ pc[v] = "report" => TrueOf(result[v], cur[v])'
    BY <1>2, <1>4, <2>2 DEF Honest, TrueHands
  <2>4. QED
    BY <1>2, <2>1, <2>3 DEF TrueHands
<1>6. TrueSlots'
  BY <1>1, <1>2, <1>4 DEF Honest, Tracked, HandOrSlot, TrueSlots, InChan, Carries,
     Slots, Items
<1>7. TruePumps'
  BY <1>1, <1>2, <1>4 DEF Honest, Tracked, HandOrPump, TruePumps, InPump, Carries,
     Items
<1>8. TrueRecords'
  <2>1. TrueOf(record[it], it)'
    BY <1>1, <1>2 DEF Tracked, RecordedLast, TrueOf
  <2>2. QED
    BY <2>1, <1>2, <1>4 DEF Honest, TrueRecords, Items
<1>9. ListedHeld'
  BY <1>a, <1>1, <1>2, <1>3 DEF Honest, ListedHeld, UnlistedSends, Sending
<1>10. SyncSends' /\ UnlistedSends'
  BY <1>2 DEF Honest, SyncSends, UnlistedSends, Sending
<1>11. QED
  BY <1>5, <1>6, <1>7, <1>8, <1>9, <1>10 DEF Honest

LEMMA ReportHonest ==
    ASSUME Inv1, Honest, NEW w \in Workers, Report(w) PROVE Honest'
<1> USE DEF Report, Inv1, TypeOK, PoolOK, ChanOK
<1>1. /\ NoNewClaim /\ SameFacts /\ UNCHANGED <<pump, record>>
  BY DEF NoNewClaim, Goto, Sending, SameFacts, workerFrame, runVars, tallyVars, Send
<1> DEFINE m == Status(result[w], w, cur[w])
<1>2. m \in Messages
  BY WorkerMsg DEF HasItem, HasOutcome, Holding, Messages, StatusTags
<1>3. \A i \in Items : Carries(m, i) => TrueOf(m.tag, i)
  BY DEF Carries, Status, Honest, TrueHands
<1>4. msgChan' = Append(msgChan, m)
  BY DEF Send
<1> HIDE DEF m
<1>5. QED
  BY <1>1, <1>2, <1>3, <1>4, SendHonest

LEMMA WorkingHonest ==
    ASSUME Inv1, Tracked, Honest, NEW w \in Workers, Working(w) PROVE Honest'
<1> USE DEF Working, LoopStep, Inv1, TypeOK, PoolOK
<1>1. CASE SendChecking(w) \/ SendQueued(w) \/ SendUploading(w)
  <2>1. PICK t \in {"Checking", "Queued", "Uploading"} : Send(Status(t, w, cur[w]))
    BY <1>1 DEF SendChecking, SendQueued, SendUploading
  <2>2. /\ Status(t, w, cur[w]) \in Messages
        /\ Status(t, w, cur[w]).tag \notin Outcomes
    BY <1>1, WorkerMsg DEF HasItem, Holding, Messages, StatusTags, Status,
       Outcomes, SendChecking, SendQueued, SendUploading
  <2>3. NoNewClaim /\ SameFacts /\ UNCHANGED <<pump, record>>
    BY <1>1 DEF SendChecking, SendQueued, SendUploading, Send, NoNewClaim, Goto,
       Sending, SameFacts, workerFrame, runVars, tallyVars
  <2>4. QED
    BY <2>1, <2>2, <2>3, SendHonest DEF Send, ChanOK, Carries
<1>2. CASE PutProgress(w)
  <2>1. cur[w] \in Items
    BY <1>2 DEF PutProgress, HasItem, Holding
  <2>2. \A b \in Figures : b \in Nat
    BY PipelineAssumption
  <2>3. PICK b \in Figures : msgChan' = Append(msgChan, Progress(w, cur[w], b))
    BY <1>2 DEF PutProgress
  <2>4. /\ Progress(w, cur[w], b) \in Messages
        /\ Progress(w, cur[w], b).tag \notin Outcomes
    BY <2>1, <2>2, WorkerMsg DEF Messages, Progress, Outcomes
  <2>5. NoNewClaim /\ SameFacts /\ UNCHANGED <<pump, record>>
    BY <1>2 DEF PutProgress, NoNewClaim, SameFacts, workerFrame, runVars, tallyVars
  <2>6. QED
    BY <2>3, <2>4, <2>5, SendHonest DEF ChanOK, Carries
<1>3. CASE \/ Take(w) \/ NoMoreItems(w) \/ PassGate(w) \/ QuitAtGate(w)
           \/ Acquire(w) \/ AbandonSlot(w)
  <2>1. NoNewClaim /\ SameFacts /\ UNCHANGED <<msgChan, pump, record>>
    BY <1>3 DEF Take, NoMoreItems, PassGate, QuitAtGate, Acquire, AbandonSlot,
       NoNewClaim, Goto, Sending, SameFacts, workerFrame, runVars, tallyVars,
       chanVars
  <2>2. QED
    BY <2>1, QuietHonest DEF NoNewHeld
<1>4. QED
  BY <1>1, <1>2, <1>3, StatHonest, PutHonest, ReportHonest

LEMMA PumpingHonest ==
    ASSUME Inv1, Honest, NEW p \in Pumps, Pumping(p) PROVE Honest'
<1> USE DEF Pumping, Inv1, TypeOK, ChanOK
<1>1. NoNewClaim /\ SameFacts
  BY DEF Receive, DeliverListing, DeliverProgress, DeliverStatus, NoNewClaim,
     SameFacts, poolVars, runVars
<1>2. CASE Receive(p)
  <2>1. /\ Slots' = 1 .. Len(msgChan) - 1
        /\ \A k \in Slots' : k + 1 \in Slots /\ msgChan'[k] = msgChan[k + 1]
        /\ 1 \in Slots /\ Head(msgChan) = msgChan[1]
    BY <1>2 DEF Receive, Slots
  <2>2. \A t, i : TrueOf(t, i)' = TrueOf(t, i)
    BY <1>1 DEF TrueOf, SameFacts
  <2>3. TrueSlots'
    BY <2>1, <2>2 DEF Honest, TrueSlots, InChan, Items
  <2>4. TruePumps'
    BY <1>2, <2>1, <2>2 DEF Receive, Honest, TrueSlots, TruePumps, InChan,
       InPump, Items
  <2>5. TrueRecords'
    BY <1>2, <2>2 DEF Receive, Honest, TrueRecords, tallyVars, Items
  <2>6. QED
    BY <1>1, <2>3, <2>4, <2>5, HandsHonest DEF Honest
<1>3. CASE DeliverListing(p) \/ DeliverProgress(p)
  <2>1. /\ UNCHANGED <<msgChan, record>>
        /\ pump' = [pump EXCEPT ![p] = Waiting]
    BY <1>3 DEF DeliverListing, DeliverProgress, tallyVars
  <2>2. NoNewHeld
    BY <2>1 DEF NoNewHeld, Waiting, Outcomes
  <2>3. QED
    BY <1>1, <2>1, <2>2, QuietHonest
<1>4. CASE DeliverStatus(p)
  <2>1. pump[p] \in StatusMsgs
    BY <1>4, StatusMsg DEF DeliverStatus
  <2>2. \A t, i : TrueOf(t, i)' = TrueOf(t, i)
    BY <1>1 DEF TrueOf, SameFacts
  <2>3. TrueSlots'
    BY <1>4, <2>2 DEF DeliverStatus, Honest, TrueSlots, InChan, Slots, Carries, Items
  <2>4. TruePumps'
    BY <1>4, <2>2 DEF DeliverStatus, Honest, TruePumps, InPump, Carries, Waiting,
       Off, Outcomes, Items
  <2>5. \A i \in Items : record'[i] = record[i] \/
            (InPump(p, i) /\ record'[i] = pump[p].tag)
    BY <1>4, <2>1 DEF DeliverStatus, Tally, TallyOK, StatusMsgs, InPump, Carries
  <2>6. TrueRecords'
    BY <2>2, <2>5 DEF Honest, TrueRecords, TruePumps, Items
  <2>7. QED
    BY <1>1, <2>3, <2>4, <2>6, HandsHonest DEF Honest
<1>5. QED
  BY <1>2, <1>3, <1>4

LEMMA NextHonest == Inv1 /\ Tracked /\ Honest /\ [Next]_vars => Honest'
<1> SUFFICES ASSUME Inv1, Tracked, Honest, [Next]_vars PROVE Honest'
  OBVIOUS
<1>1. CASE BulkStatProgress
  <2>1. Listing \in Messages /\ Listing.tag \notin Outcomes
    BY DEF Messages, Listing, Outcomes
  <2>2. NoNewClaim /\ SameFacts /\ UNCHANGED <<pump, record>>
    BY <1>1 DEF BulkStatProgress, NoNewClaim, SameFacts, poolVars, tallyVars, runVars
  <2>3. QED
    BY <1>1, <2>1, <2>2, SendHonest
       DEF BulkStatProgress, Inv1, TypeOK, ChanOK, Carries
<1>2. CASE ScanComplete
  <2>1. NoNewClaim /\ SameFacts /\ UNCHANGED <<msgChan, pump, record>>
    BY <1>2 DEF ScanComplete, StartPool, NoNewClaim, Sending, SameFacts,
       tallyVars, chanVars
  <2>2. QED
    BY <2>1, QuietHonest DEF NoNewHeld
<1>3. CASE BulkStatComplete
  <2>1. /\ \A v \in Workers : pc'[v] = "take"
        /\ UNCHANGED <<mode, complete, msgChan, record>>
        /\ pump' = [pump EXCEPT !["bulk"] = Waiting]
        /\ (listed' /\ known' = complete) \/ UNCHANGED <<listed, known>>
    BY <1>3 DEF BulkStatComplete, StartPool, tallyVars
  <2>2. TrueHands' /\ SyncSends' /\ ListedHeld' /\ UnlistedSends'
    BY <2>1 DEF Honest, TrueHands, SyncSends, ListedHeld, UnlistedSends, Sending
  <2>3. \A t, i : TrueOf(t, i)' = TrueOf(t, i)
    BY <2>1 DEF TrueOf
  <2>4. TrueSlots' /\ TrueRecords'
    BY <2>1, <2>3 DEF Honest, TrueSlots, TrueRecords, InChan, Slots, Carries, Items
  <2>5. TruePumps'
    BY <2>1, <2>3 DEF Honest, TruePumps, InPump, Carries, Waiting, Outcomes,
       Items, Inv1, TypeOK, ChanOK
  <2>6. QED
    BY <2>2, <2>4, <2>5 DEF Honest
<1>4. CASE ScanFailed \/ KeyQuit \/ KeyPause \/ QuitMsg \/ UNCHANGED vars
  <2>1. NoNewClaim /\ SameFacts /\ UNCHANGED <<msgChan, pump, record>>
    BY <1>4 DEF ScanFailed, KeyQuit, KeyPause, QuitMsg, vars, poolVars,
       chanVars, tallyVars, runVars, NoNewClaim, SameFacts
  <2>2. QED
    BY <2>1, QuietHonest DEF NoNewHeld
<1>5. QED
  BY <1>1, <1>2, <1>3, <1>4, WorkingHonest, PumpingHonest
     DEF Next, Commands, Terminated

-----------------------------------------------------------------------------
(* Layer 4: no item is lost unless the run is cancelled.                   *)

Somewhere(i) == \/ \E w \in Workers : Hand(w, i)
                \/ \E k \in Slots : InChan(k, i)
                \/ \E p \in Pumps : InPump(p, i)
                \/ record[i] # "none"
Accounted == ~cancelled => \A i \in Items : i < dispatched => Somewhere(i)

LEMMA InitAccounted == Init => Accounted
BY DEF Init, Accounted, Items

\* Steps that leave every item where it is.
HandsStay == \A w \in Workers : pc[w] \in Holding =>
                pc'[w] \in Holding /\ cur'[w] = cur[w]
HeldStay  == \A p \in Pumps : pump[p].tag \in Outcomes => pump'[p] = pump[p]

LEMMA StayAccounted ==
    ASSUME Accounted, ~cancelled, HandsStay, HeldStay,
           UNCHANGED <<record, dispatched>>,
           \A k \in Slots : k \in Slots' /\ msgChan'[k] = msgChan[k]
    PROVE  Accounted'
BY DEF Accounted, HandsStay, HeldStay, Somewhere, Hand, InChan, InPump, Carries,
   Items

LEMMA WorkingAccounted ==
    ASSUME Inv1, Accounted, ~cancelled, NEW w \in Workers, Working(w)
    PROVE  Accounted'
<1> USE DEF Working, LoopStep, Inv1, TypeOK, PoolOK, ChanOK
<1>1. CASE Take(w)
  <2>1. \A i \in Items : i < dispatched' => i < dispatched \/ i = dispatched
    BY <1>1 DEF Take, Items
  <2>2. /\ UNCHANGED <<msgChan, pump, record>>
        /\ \A v \in Workers, i \in Items : Hand(v, i) => Hand(v, i)'
        /\ \A i \in Items : i = dispatched => Hand(w, i)'
    BY <1>1 DEF Take, Hand, Goto, Holding, chanVars, workerFrame, tallyVars
  <2>3. \A i \in Items : Somewhere(i) => Somewhere(i)'
    BY <2>2 DEF Somewhere, InChan, InPump, Slots, Carries, Items
  <2>4. \A i \in Items : i = dispatched => Somewhere(i)'
    BY <2>2 DEF Somewhere
  <2>5. QED
    BY <2>1, <2>3, <2>4 DEF Accounted, Items
<1>2. CASE Report(w)
  <2> DEFINE m == Status(result[w], w, cur[w])
  <2>1. m \in Messages /\ m.i = cur[w] /\ m.tag \in Outcomes
    BY <1>2, WorkerMsg DEF Report, HasItem, HasOutcome, Holding, Messages,
       StatusTags, Status
  <2>2. /\ \A k \in Slots : k \in Slots' /\ msgChan'[k] = msgChan[k]
        /\ Len(msgChan) + 1 \in Slots' /\ msgChan'[Len(msgChan) + 1] = m
    BY <1>2, <2>1, Appended DEF Report, Send
  <2> HIDE DEF m
  <2>3. /\ UNCHANGED <<pump, record, dispatched>>
        /\ \A v \in Workers : \A i :
            Hand(v, i) => Hand(v, i)' \/ (v = w /\ i = cur[w])
    BY <1>2 DEF Report, Send, Hand, Goto, workerFrame, tallyVars
  <2>4. \A i \in Items : i = cur[w] => Somewhere(i)'
    BY <2>1, <2>2 DEF Somewhere, InChan, Carries
  <2>5. \A i \in Items : Somewhere(i) => Somewhere(i)'
    BY <2>2, <2>3, <2>4 DEF Somewhere, InChan, InPump, Carries, Items
  <2>6. QED
    BY <2>3, <2>5 DEF Accounted, Items
<1>3. CASE SendChecking(w) \/ SendQueued(w) \/ SendUploading(w) \/ PutProgress(w)
  <2>1. HandsStay /\ HeldStay /\ UNCHANGED <<record, dispatched>>
    BY <1>3 DEF SendChecking, SendQueued, SendUploading, PutProgress, Send,
       HandsStay, HeldStay, Goto, Holding, workerFrame, tallyVars
  <2>2. \E m : msgChan' = Append(msgChan, m)
    BY <1>3 DEF SendChecking, SendQueued, SendUploading, PutProgress, Send
  <2>3. \A k \in Slots : k \in Slots' /\ msgChan'[k] = msgChan[k]
    BY <2>2 DEF Slots
  <2>4. QED
    BY <2>1, <2>3, StayAccounted
<1>4. CASE \/ NoMoreItems(w) \/ PassGate(w) \/ StatItem(w) \/ Acquire(w)
           \/ PutDone(w) \/ PutFailed(w)
  <2>1. HandsStay /\ HeldStay /\ UNCHANGED <<record, dispatched, msgChan>>
    BY <1>4 DEF NoMoreItems, PassGate, StatItem, Acquire, PutDone, PutFailed,
       PutReturns, HandsStay, HeldStay, Goto, Holding, workerFrame, tallyVars,
       chanVars
  <2>2. QED
    BY <2>1, StayAccounted DEF Slots
<1>5. CASE QuitAtGate(w) \/ AbandonSlot(w)
  BY <1>5 DEF QuitAtGate, AbandonSlot
<1>6. QED
  BY <1>1, <1>2, <1>3, <1>4, <1>5

LEMMA PumpingAccounted ==
    ASSUME Inv1, Accounted, ~cancelled, NEW p \in Pumps, Pumping(p)
    PROVE  Accounted'
<1> USE DEF Pumping, Inv1, TypeOK, ChanOK, TallyOK
<1>1. /\ \A v \in Workers : \A i : Hand(v, i)' = Hand(v, i)
      /\ dispatched' = dispatched /\ cancelled' = cancelled
  BY DEF Receive, DeliverListing, DeliverProgress, DeliverStatus, Hand,
     poolVars, ctlVars
<1>2. CASE Receive(p)
  <2>1. /\ \A k \in Slots : k = 1 \/ (k - 1 \in Slots' /\ msgChan'[k - 1] = msgChan[k])
        /\ Head(msgChan) = msgChan[1]
    BY <1>2 DEF Receive, Slots
  <2>2. /\ \A q \in Pumps : q # p => pump'[q] = pump[q]
        /\ pump[p] = Waiting /\ pump'[p] = Head(msgChan)
        /\ record' = record
    BY <1>2 DEF Receive, tallyVars
  <2>3. \A i \in Items : \A q \in Pumps : InPump(q, i) => InPump(q, i)'
    BY <2>2 DEF InPump, Carries, Waiting, Outcomes
  <2>4. \A i \in Items : \A k \in Slots : InChan(k, i) =>
            InPump(p, i)' \/ (k - 1 \in Slots' /\ InChan(k - 1, i)')
    BY <2>1, <2>2 DEF InPump, InChan, Carries, Items
  <2>5. \A i \in Items : Somewhere(i) => Somewhere(i)'
    BY <1>1, <2>2, <2>3, <2>4 DEF Somewhere
  <2>6. QED
    BY <1>1, <2>5 DEF Accounted, Items
<1>3. CASE DeliverListing(p) \/ DeliverProgress(p)
  <2>1. HandsStay /\ UNCHANGED <<msgChan, record>>
    BY <1>3 DEF DeliverListing, DeliverProgress, HandsStay, poolVars, tallyVars
  <2>2. HeldStay
    BY <1>3 DEF DeliverListing, DeliverProgress, HeldStay, Outcomes
  <2>3. QED
    BY <1>1, <2>1, <2>2, StayAccounted DEF Slots
<1>4. CASE DeliverStatus(p)
  <2>1. pump[p].tag \in StatusTags /\ pump[p] \in StatusMsgs
    BY <1>4, StatusMsg DEF DeliverStatus
  <2>2. /\ msgChan' = msgChan
        /\ \A q \in Pumps : q # p => pump'[q] = pump[q]
        /\ record' = IF pump[p].tag \in Outcomes
                     THEN [record EXCEPT ![pump[p].i] = pump[p].tag] ELSE record
    BY <1>4 DEF DeliverStatus, Tally
  <2>3. \A i \in Items : record[i] # "none" => record'[i] # "none"
    BY <2>2 DEF Outcomes
  <2>4. \A i \in Items : InPump(p, i) => record'[i] # "none"
    BY <2>2 DEF InPump, Carries, Outcomes
  <2>5. \A i \in Items : Somewhere(i) => Somewhere(i)'
    BY <1>1, <2>2, <2>3, <2>4 DEF Somewhere, InChan, InPump, Slots, Carries, Items
  <2>6. QED
    BY <1>1, <2>5 DEF Accounted, Items
<1>5. QED
  BY <1>2, <1>3, <1>4

LEMMA NextAccounted == Inv1 /\ Accounted /\ [Next]_vars => Accounted'
<1> SUFFICES ASSUME Inv1, Accounted, [Next]_vars PROVE Accounted'
  OBVIOUS
<1> USE DEF Inv1, TypeOK, ChanOK, PoolOK
<1>1. cancelled => cancelled'
  BY DEF Next, Commands, KeyQuit, KeyPause, Pause, Resume, QuitMsg, Terminated,
     Pumping, Receive, DeliverListing, DeliverProgress, DeliverStatus, Working, LoopStep,
     Take, NoMoreItems, PassGate, QuitAtGate, SendChecking, StatItem,
     SendQueued, Acquire, AbandonSlot, SendUploading, PutProgress, PutDone,
     PutFailed, PutReturns, Report, ScanFailed, ScanComplete, BulkStatProgress,
     BulkStatComplete, workerFrame, ctlVars, vars
<1>2. CASE cancelled'
  BY <1>2 DEF Accounted
<1>3. CASE ~cancelled'
  <2>0. ~cancelled
    BY <1>1, <1>3
  <2>1. CASE BulkStatProgress
    <3>1. HandsStay /\ HeldStay /\ UNCHANGED <<record, dispatched>>
      BY <2>1 DEF BulkStatProgress, HandsStay, HeldStay, poolVars, tallyVars
    <3>2. \A k \in Slots : k \in Slots' /\ msgChan'[k] = msgChan[k]
      BY <2>1 DEF BulkStatProgress, Slots
    <3>3. QED
      BY <2>0, <3>1, <3>2, StayAccounted
  <2>2. CASE ScanComplete \/ BulkStatComplete
    <3>1. dispatched' = 0
      BY <2>2 DEF ScanComplete, BulkStatComplete, PoolWaits
    <3>2. QED
      BY <3>1 DEF Accounted, Items
  <2>3. CASE ScanFailed \/ KeyQuit \/ KeyPause \/ QuitMsg \/ UNCHANGED vars
    <3>1. HandsStay /\ HeldStay /\ UNCHANGED <<record, dispatched, msgChan>>
      BY <2>3 DEF ScanFailed, KeyQuit, KeyPause, QuitMsg, HandsStay, HeldStay,
         vars, poolVars, chanVars, tallyVars
    <3>2. QED
      BY <2>0, <3>1, StayAccounted DEF Slots
  <2>4. QED
    BY <2>0, <2>1, <2>2, <2>3, WorkingAccounted, PumpingAccounted
       DEF Next, Commands, Terminated
<1>4. QED
  BY <1>2, <1>3

-----------------------------------------------------------------------------
(* Layer 5: the counters, and what the state Done stands for.              *)

Counted == /\ uploaded = Cardinality(Settled("Done"))
           /\ skipped  = Cardinality(Settled("Skipped"))
           /\ failed   = Cardinality(Settled("Error"))
AllRecorded == \A i \in 0 .. total - 1 : record[i] # "none"
Reached     == uploaded + skipped + failed >= total
EndsRight   == AllReported => state = "Done"
DoneIsAll   == state = "Done" => AllRecorded
NotYetDone  == ("scan" \in pending => state # "Done") /\ pausedFrom # "Done"

EndInv == Counted /\ EndsRight /\ DoneIsAll /\ NotYetDone

LEMMA FiniteItems == \A S \in SUBSET Items : IsFiniteSet(S)
<1>1. IsFiniteSet(Items)
  BY PipelineAssumption, FS_Interval DEF Items
<1>2. QED
  BY <1>1, FS_Subset

\* The counters add up to the number of recorded items, which are items of the
\* run; so they reach the total exactly when every item is recorded.
LEMMA CountRecords ==
    Inv1 /\ Tracked /\ Counted => (Reached <=> AllRecorded)
<1> SUFFICES ASSUME Inv1, Tracked, Counted PROVE Reached <=> AllRecorded
  OBVIOUS
<1> USE DEF Inv1, TypeOK, RunOK, TallyOK, PoolOK
<1> DEFINE D == Settled("Done")
           S == Settled("Skipped")
           E == Settled("Error")
           R == D \cup S \cup E
           T == 0 .. total - 1
<1>1. D \in SUBSET Items /\ S \in SUBSET Items /\ E \in SUBSET Items
  BY DEF Settled
<1>2. D \cap S = {} /\ (D \cup S) \cap E = {}
  BY DEF Settled
<1>3. /\ IsFiniteSet(D) /\ IsFiniteSet(S) /\ IsFiniteSet(E)
      /\ IsFiniteSet(D \cup S)
  BY <1>1, FiniteItems
<1>4. R = {i \in Items : record[i] # "none"}
  BY DEF Settled, Outcomes
<1>5. R \subseteq T
  BY <1>4, PipelineAssumption DEF Tracked, TakenFirst, Items
<1>6. IsFiniteSet(T) /\ Cardinality(T) = total
  <2>1. total \in Nat /\ total - 1 \in Int
    BY PipelineAssumption
  <2>2. /\ IsFiniteSet(0 .. total - 1)
        /\ Cardinality(0 .. total - 1) =
                IF 0 > total - 1 THEN 0 ELSE (total - 1) - 0 + 1
    BY <2>1, FS_Interval
  <2>3. QED
    BY <2>1, <2>2
<1>7. T \subseteq Items
  BY PipelineAssumption DEF Items
<1>8. AllRecorded <=> R = T
  BY <1>4, <1>5, <1>7 DEF AllRecorded
<1> HIDE DEF D, S, E, T
<1>9. Cardinality({}) = 0
  BY FS_EmptySet
<1>10. Cardinality(D \cup S) = Cardinality(D) + Cardinality(S) - 0
  BY <1>2, <1>3, <1>9, FS_Union
<1>11. Cardinality(R) = Cardinality(D \cup S) + Cardinality(E) - 0
  BY <1>2, <1>3, <1>9, FS_Union
<1>12. uploaded + skipped + failed = Cardinality(R)
  BY <1>10, <1>11 DEF Counted, D, S, E
<1>13. /\ IsFiniteSet(R) /\ Cardinality(R) \in Nat
       /\ Cardinality(R) <= Cardinality(T)
       /\ Cardinality(T) = Cardinality(R) => T = R
  BY <1>5, <1>6, FS_Subset, FS_CardinalityType
<1> HIDE DEF R
<1>14. total \in Nat
  BY PipelineAssumption
<1>15. AllRecorded => Cardinality(R) = total
  BY <1>6, <1>8
<1>16. Cardinality(R) >= total => AllRecorded
  BY <1>6, <1>8, <1>13, <1>14
<1>17. QED
  BY <1>12, <1>13, <1>14, <1>15, <1>16 DEF Reached

LEMMA InitEnd == Init => EndInv
<1> SUFFICES ASSUME Init PROVE EndInv
  OBVIOUS
<1>1. \A o \in Outcomes : Settled(o) = {}
  BY DEF Init, Settled, Outcomes
<1>2. Counted
  BY <1>1, FS_EmptySet DEF Init, Counted, Outcomes
<1>3. EndsRight /\ DoneIsAll /\ NotYetDone
  BY DEF Init, EndsRight, AllReported, DoneIsAll, NotYetDone
<1>4. QED
  BY <1>2, <1>3 DEF EndInv

\* The step that records one.
LEMMA DeliverCounted ==
    ASSUME Inv1, Tracked, Counted, NEW p \in Pumps, DeliverStatus(p)
    PROVE  Counted'
<1> USE DEF Inv1, TypeOK, TallyOK, ChanOK
<1> DEFINE m == pump[p]
<1>1. Tally(m) /\ m \in StatusMsgs /\ m.i \in Items
  BY StatusMsg DEF DeliverStatus, StatusMsgs
<1>2. CASE m.tag \notin Outcomes
  <2>1. UNCHANGED <<record, uploaded, skipped, failed>>
    BY <1>1, <1>2 DEF Tally, Outcomes
  <2>2. QED
    BY <2>1 DEF Counted, Settled
<1>3. CASE m.tag \in Outcomes
  <2>1. record[m.i] = "none"
    BY <1>1, <1>3 DEF Tracked, RecordedLast, InPump, Carries
  <2>2. \A o \in Outcomes :
            /\ Settled(o)' = IF o = m.tag THEN Settled(o) \cup {m.i} ELSE Settled(o)
            /\ m.i \notin Settled(o)
    BY <1>1, <1>3, <2>1 DEF Tally, Settled, Outcomes
  <2>3. \A o \in Outcomes : IsFiniteSet(Settled(o))
    BY FiniteItems DEF Settled
  <2>4. \A o \in Outcomes : Cardinality(Settled(o) \cup {m.i})
                                = Cardinality(Settled(o)) + 1
    BY <2>2, <2>3, FS_AddElement
  <2>5. /\ uploaded' = uploaded + (IF m.tag = "Done" THEN 1 ELSE 0)
        /\ skipped'  = skipped + (IF m.tag = "Skipped" THEN 1 ELSE 0)
        /\ failed'   = failed + (IF m.tag = "Error" THEN 1 ELSE 0)
    BY <1>1 DEF Tally
  <2> DEFINE Now(o)  == Settled(o)'
             More(o) == Cardinality(Now(o)) =
                            Cardinality(Settled(o)) + (IF o = m.tag THEN 1 ELSE 0)
  <2>6. \A o \in Outcomes : Cardinality(Settled(o)) \in Nat
    BY <2>3, FS_CardinalityType
  <2>7. \A o \in Outcomes : More(o)
    BY <2>2, <2>4, <2>6
  <2>8. More("Done") /\ More("Skipped") /\ More("Error")
    BY <2>7 DEF Outcomes
  <2>9. QED
    BY <2>5, <2>8 DEF Counted
<1>4. QED
  BY <1>2, <1>3

\* Steps that neither record nor count anything.
LEMMA QuietEnd ==
    ASSUME EndInv, UNCHANGED <<total, record, uploaded, skipped, failed>>,
           state' = "Done" <=> state = "Done", NotYetDone'
    PROVE  EndInv'
BY DEF EndInv, Counted, Settled, EndsRight, DoneIsAll, AllReported, AllRecorded

LEMMA DeliverEnd ==
    ASSUME Inv1, SlotInv, Tracked, EndInv, NEW p \in Pumps, Pumping(p),
           DeliverStatus(p)
    PROVE  EndInv'
<1> USE DEF Inv1, TypeOK, TallyOK, PhaseOK, RunOK
<1>1. Counted'
  BY DeliverCounted DEF EndInv
<1>2. Inv1' /\ Tracked'
  BY PumpingInv1, DeliverTracked DEF SlotInv
<1>3. Reached' <=> AllRecorded'
  BY <1>1, <1>2, CountRecords, PTL
<1>4. AllRecorded => AllRecorded'
  <2>1. /\ \A i \in Items : record[i] # "none" => record'[i] # "none"
        /\ total' = total
    BY DEF DeliverStatus, Tally, Outcomes, runVars
  <2>2. QED
    BY <2>1, PipelineAssumption DEF AllRecorded, Items
<1>5. /\ AllReported' => state' = "Done"
      /\ ~AllReported' /\ state' = "Done" => state = "Done"
  BY DEF DeliverStatus
<1>6. EndsRight'
  BY <1>5 DEF EndsRight
<1>7. DoneIsAll'
  <2>1. AllReported' => AllRecorded'
    BY <1>3 DEF AllReported, Reached
  <2>2. QED
    BY <1>4, <1>5, <2>1 DEF EndInv, DoneIsAll
<1>8. NotYetDone'
  <2>1. "scan" \in pending => ~AllReported'
    <3>1. "scan" \in pending => total' = 0
      BY DEF DeliverStatus, PoolWaits, runVars
    <3>2. QED
      BY <3>1 DEF AllReported
  <2>2. UNCHANGED <<pending, pausedFrom>>
    BY DEF DeliverStatus
  <2>3. QED
    BY <1>5, <2>1, <2>2 DEF EndInv, NotYetDone
<1>9. QED
  BY <1>1, <1>6, <1>7, <1>8 DEF EndInv

LEMMA NextEnd == Inv1 /\ SlotInv /\ Tracked /\ EndInv /\ [Next]_vars => EndInv'
<1> SUFFICES ASSUME Inv1, SlotInv, Tracked, EndInv, [Next]_vars PROVE EndInv'
  OBVIOUS
<1> USE DEF NotYetDone
<1>1. CASE ScanComplete
  <2>1. PICK n \in 0 .. N :
            /\ total' = n
            /\ state' = IF n = 0 THEN "Done" ELSE "CatchingUp"
            /\ "scan" \notin pending'
    BY <1>1 DEF ScanComplete
  <2>2. UNCHANGED <<record, uploaded, skipped, failed, pausedFrom>>
    BY <1>1 DEF ScanComplete, tallyVars
  <2>3. /\ dispatched = 0 /\ \A i \in Items : record[i] = "none"
    BY <1>1 DEF ScanComplete, Inv1, PoolWaits, Tracked, TakenFirst, Items
  <2>4. Counted'
    BY <2>2 DEF EndInv, Counted, Settled
  <2>5. ~AllReported'
    <3>1. \A o \in Outcomes : Settled(o) = {}
      BY <2>3 DEF Settled, Outcomes
    <3>2. uploaded = 0 /\ skipped = 0 /\ failed = 0
      BY <3>1, FS_EmptySet DEF EndInv, Counted, Outcomes
    <3>3. QED
      BY <2>1, <2>2, <3>2 DEF AllReported
  <2>6. DoneIsAll'
    BY <2>1 DEF DoneIsAll, AllRecorded
  <2>7. QED
    BY <2>1, <2>2, <2>4, <2>5, <2>6 DEF EndInv, EndsRight
<1>2. CASE ScanFailed
  <2>1. /\ UNCHANGED <<total, record, uploaded, skipped, failed, pausedFrom>>
        /\ state' = "Error" /\ "scan" \in pending /\ "scan" \notin pending'
    BY <1>2 DEF ScanFailed, tallyVars, runVars
  <2>2. QED
    BY <2>1, QuietEnd DEF EndInv
<1>3. CASE BulkStatProgress \/ BulkStatComplete \/ QuitMsg \/ UNCHANGED vars
  <2>1. /\ UNCHANGED <<total, record, uploaded, skipped, failed, pausedFrom, state>>
        /\ "scan" \in pending' => "scan" \in pending
    BY <1>3 DEF BulkStatProgress, BulkStatComplete, QuitMsg, tallyVars, runVars,
       phaseVars, vars
  <2>2. QED
    BY <2>1, QuietEnd DEF EndInv
<1>4. CASE KeyQuit \/ KeyPause
  <2>1. /\ UNCHANGED <<total, record, uploaded, skipped, failed>>
        /\ "scan" \in pending' => "scan" \in pending
        /\ state' = "Done" <=> state = "Done"
        /\ pausedFrom' # "Done"
    BY <1>4 DEF KeyQuit, KeyPause, Pause, Resume, tallyVars, runVars, EndInv
  <2>2. QED
    BY <2>1, QuietEnd DEF EndInv
<1>5. CASE \E p \in Pumps : Pumping(p)
  <2>1. PICK p \in Pumps : Pumping(p)
    BY <1>5
  <2>2. CASE Receive(p) \/ DeliverListing(p) \/ DeliverProgress(p)
    <3>1. UNCHANGED <<total, record, uploaded, skipped, failed, state,
                      pausedFrom, pending>>
      BY <2>2 DEF Receive, DeliverListing, DeliverProgress, tallyVars, runVars,
         phaseVars
    <3>2. QED
      BY <3>1, QuietEnd DEF EndInv
  <2>3. QED
    BY <2>1, <2>2, DeliverEnd DEF Pumping
<1>6. CASE \E w \in Workers : Working(w)
  <2>1. UNCHANGED workerFrame
    BY <1>6 DEF Working, LoopStep, Take, NoMoreItems, PassGate, QuitAtGate, SendChecking,
       StatItem, SendQueued, Acquire, AbandonSlot, SendUploading, PutProgress,
       PutDone, PutFailed, PutReturns, Report
  <2>2. UNCHANGED <<total, record, uploaded, skipped, failed, state, pausedFrom,
                    pending>>
    BY <2>1 DEF workerFrame, tallyVars, runVars, phaseVars
  <2>3. QED
    BY <2>2, QuietEnd DEF EndInv
<1>7. QED
  BY <1>1, <1>2, <1>3, <1>4, <1>5, <1>6 DEF Next, Commands, Terminated

-----------------------------------------------------------------------------
(* The invariant, and what follows from it.                                *)

IInv == Inv1 /\ SlotInv /\ Tracked /\ Accounted /\ Honest /\ EndInv

LEMMA Inductive == Spec => []IInv
<1>1. Init => IInv
  BY InitInv1, InitSlotInv, InitTracked, InitAccounted, InitHonest, InitEnd
     DEF IInv
<1>2. IInv /\ [Next]_vars => IInv'
  BY NextInv1, NextSlotInv, NextTracked, NextAccounted, NextHonest, NextEnd
     DEF IInv, SlotInv
<1>3. QED
  BY <1>1, <1>2, PTL DEF Spec

\* Done, with no failure, means that every item of the run is at the
\* destination, or in a dry run is skipped only if it is.
THEOREM DoneIsSynced == Spec => []DoneMeansSynced
<1>1. IInv => DoneMeansSynced
  <2> SUFFICES ASSUME IInv, state = "Done", failed = 0,
                      NEW i \in 0 .. total - 1,
                      record[i] = "Skipped" \/ mode # "dry"
               PROVE  i \in complete
    BY DEF DoneMeansSynced
  <2>1. i \in Items /\ record[i] # "none"
    BY PipelineAssumption DEF IInv, EndInv, DoneIsAll, AllRecorded, Items, Inv1,
       TypeOK, RunOK
  <2>2. Settled("Error") = {}
    <3>1. Settled("Error") \in SUBSET Items
      BY DEF Settled
    <3>2. IsFiniteSet(Settled("Error"))
      BY <3>1, FiniteItems
    <3>3. QED
      BY <3>2, FS_EmptySet DEF IInv, EndInv, Counted
  <2>3. record[i] \in {"Done", "Skipped"}
    BY <2>1, <2>2 DEF IInv, Inv1, TypeOK, TallyOK, Outcomes, Settled
  <2>4. QED
    BY <2>1, <2>3 DEF IInv, Honest, TrueRecords, TrueOf
<1>2. QED
  BY <1>1, Inductive, PTL

\* A set whose elements are all equal has none or one of them.
LEMMA AtMostOne ==
    ASSUME NEW S, \A x, y \in S : x = y
    PROVE  Cardinality(S) = IF S = {} THEN 0 ELSE 1
<1>1. CASE S = {}
  BY <1>1, FS_EmptySet
<1>2. CASE S # {}
  <2>1. PICK x \in S : TRUE
    BY <1>2
  <2>2. S = {x}
    BY <2>1
  <2>3. QED
    BY <2>2, FS_Singleton
<1>3. QED
  BY <1>1, <1>2

\* Every item that was taken is in one place, whatever the interleaving, and
\* the counters count the records.
THEOREM CountedOnce == Spec => []ExactlyOnce
<1>1. IInv => ExactlyOnce
  <2> SUFFICES ASSUME IInv PROVE ExactlyOnce
    OBVIOUS
  <2> USE DEF IInv
  <2>1. ASSUME NEW i \in Items
        PROVE  LET hands == {w \in Workers : pc[w] \in Holding /\ cur[w] = i}
                   inChan == {k \in 1 .. Len(msgChan) :
                        msgChan[k].tag \in Outcomes /\ msgChan[k].i = i}
                   inPump == {p \in Pumps : pump[p].tag \in Outcomes /\ pump[p].i = i}
                   inRecord == IF record[i] = "none" THEN 0 ELSE 1
                   places == Cardinality(hands) + Cardinality(inChan)
                        + Cardinality(inPump) + inRecord
               IN  /\ places <= 1
                   /\ i >= dispatched => places = 0
                   /\ (i < dispatched /\ ~cancelled) => places = 1
    <3> DEFINE hands == {w \in Workers : Hand(w, i)}
               inChan == {k \in Slots : InChan(k, i)}
               inPump == {p \in Pumps : InPump(p, i)}
               inRecord == IF record[i] = "none" THEN 0 ELSE 1
    <3>1. /\ Cardinality(hands) = IF hands = {} THEN 0 ELSE 1
          /\ Cardinality(inChan) = IF inChan = {} THEN 0 ELSE 1
          /\ Cardinality(inPump) = IF inPump = {} THEN 0 ELSE 1
      <4>1. \A v, w \in hands : v = w
        BY DEF Tracked, OneHand
      <4>2. \A j, k \in inChan : j = k
        BY DEF Tracked, OneSlot
      <4>3. \A p, q \in inPump : p = q
        BY DEF Tracked, OnePump
      <4> HIDE DEF hands, inChan, inPump
      <4>4. QED
        BY <4>1, <4>2, <4>3, AtMostOne
    <3>2. /\ hands # {} => inChan = {} /\ inPump = {} /\ record[i] = "none"
          /\ inChan # {} => inPump = {} /\ record[i] = "none"
          /\ inPump # {} => record[i] = "none"
      BY DEF Tracked, HandOrSlot, HandOrPump, SlotOrPump, RecordedLast
    <3>3. i >= dispatched =>
            hands = {} /\ inChan = {} /\ inPump = {} /\ record[i] = "none"
      BY DEF Tracked, TakenFirst
    <3>4. i < dispatched /\ ~cancelled =>
            hands # {} \/ inChan # {} \/ inPump # {} \/ record[i] # "none"
      BY DEF Accounted, Somewhere
    <3>5. /\ hands = {w \in Workers : pc[w] \in Holding /\ cur[w] = i}
          /\ inChan = {k \in 1 .. Len(msgChan) :
                        msgChan[k].tag \in Outcomes /\ msgChan[k].i = i}
          /\ inPump = {p \in Pumps : pump[p].tag \in Outcomes /\ pump[p].i = i}
      BY DEF Hand, InChan, InPump, Carries, Slots
    <3> HIDE DEF hands, inChan, inPump
    <3>6. QED
      BY <3>1, <3>2, <3>3, <3>4, <3>5
  <2>2. QED
    BY <2>1 DEF ExactlyOnce, EndInv, Counted
<1>2. QED
  BY <1>1, Inductive, PTL

\* A step that the ledger does not see.
LEMMA LedgerStutter ==
    ASSUME UNCHANGED <<mode, total, record, complete>>,
           state' = "Done" <=> state = "Done"
    PROVE  UNCHANGED Ledger!vars
BY DEF Ledger!vars

\* The scan's result is the ledger's.
LEMMA LedgerScan ==
    ASSUME IInv, ScanComplete
    PROVE  \E found \in SUBSET Items : Ledger!Scan(found)
<1>1. PICK n \in 0 .. N :
        /\ total' = n
        /\ state' = IF n = 0 THEN "Done" ELSE "CatchingUp"
  BY DEF ScanComplete
<1>2. total = 0 /\ state # "Done"
  BY DEF ScanComplete, IInv, Inv1, PoolWaits, EndInv, NotYetDone
<1>3. /\ 0 .. total - 1 = {}
      /\ (0 .. total - 1)' = 0 .. n - 1
      /\ 0 .. n - 1 \in SUBSET Items
      /\ 0 .. n - 1 = {} <=> n = 0
  BY <1>1, <1>2, PipelineAssumption DEF Items
<1>4. (state = "Done")' = (0 .. n - 1 = {})
  BY <1>1, <1>3
<1>5. UNCHANGED <<mode, record, complete>>
  BY DEF ScanComplete, tallyVars
<1>6. Ledger!Scan(0 .. n - 1)
  BY <1>2, <1>3, <1>4, <1>5 DEF Ledger!Scan
<1>7. QED
  BY <1>3, <1>6

\* The end of a transfer writes one item that nothing was settled of.
LEMMA LedgerWrite ==
    ASSUME IInv, NEW w \in Workers, PutDone(w) \/ PutFailed(w)
    PROVE  (\E i \in Items : Ledger!Write(i)) \/ UNCHANGED Ledger!vars
<1> USE DEF IInv, Inv1, TypeOK
<1>1. PICK i \in Items : i = cur[w] /\ Hand(w, i) /\ mode = "sync"
  BY DEF PutDone, PutFailed, PutReturns, HasItem, Holding, Hand, Honest,
     SyncSends, Sending
<1>2. record[i] = "none" /\ ~(i >= dispatched)
  BY <1>1 DEF Tracked, RecordedLast, TakenFirst
<1>3. i \in 0 .. total - 1
  BY <1>2, PipelineAssumption DEF Items, PoolOK, RunOK
<1>4. /\ UNCHANGED <<mode, total, record, state>>
      /\ complete' \in {complete, complete \cup {i}, complete \ {i}}
  BY <1>1 DEF PutDone, PutFailed, PutReturns, workerFrame, runVars, tallyVars,
     phaseVars
<1>5. CASE complete' = complete
  BY <1>4, <1>5, LedgerStutter
<1>6. CASE complete' \in {complete \cup {i}, complete \ {i}}
  <2>1. Ledger!Write(i)
    BY <1>1, <1>2, <1>3, <1>4, <1>6 DEF Ledger!Write, Ledger!Unsettled
  <2>2. QED
    BY <2>1
<1>7. QED
  BY <1>4, <1>5, <1>6

\* An outcome that reaches the event loop settles its item.
LEMMA LedgerSettle ==
    ASSUME IInv, IInv', NEW p \in Pumps, DeliverStatus(p)
    PROVE  \/ \E i \in Items, o \in {"Done", "Skipped", "Error"} : Ledger!Settle(i, o)
           \/ UNCHANGED Ledger!vars
<1> USE DEF IInv, Inv1, TypeOK, TallyOK, ChanOK
<1> DEFINE m == pump[p]
<1>1. Tally(m) /\ m \in StatusMsgs /\ m.i \in Items
  BY StatusMsg DEF DeliverStatus, StatusMsgs
<1>2. UNCHANGED <<mode, total, complete>>
  BY DEF DeliverStatus, runVars
<1>3. /\ AllReported' => state' = "Done"
      /\ ~AllReported' /\ state' = "Done" => state = "Done"
      /\ ~AllReported' /\ state = "Done" => state' = "Done"
  BY DEF DeliverStatus
<1>4. CASE m.tag \notin Outcomes
  <2>1. UNCHANGED <<record, uploaded, skipped, failed>>
    BY <1>1, <1>4 DEF Tally, Outcomes
  <2>2. AllReported' = AllReported
    BY <1>2, <2>1 DEF AllReported
  <2>3. state' = "Done" <=> state = "Done"
    BY <1>3, <2>2 DEF EndInv, EndsRight
  <2>4. QED
    BY <1>2, <2>1, <2>3, LedgerStutter
<1>5. CASE m.tag \in Outcomes
  <2>1. PICK i \in Items, o \in Outcomes : i = m.i /\ o = m.tag
    BY <1>1, <1>5
  <2>2. record[i] = "none" /\ TrueOf(o, i) /\ ~(i >= dispatched)
    BY <2>1 DEF Tracked, RecordedLast, TakenFirst, Honest, TruePumps, InPump, Carries
  <2>3. i \in 0 .. total - 1 /\ total \in Nat /\ total > 0
    BY <2>2, PipelineAssumption DEF Items, PoolOK, RunOK
  <2>4. record' = [record EXCEPT ![i] = o]
    BY <1>1, <1>5, <2>1 DEF Tally
  <2>5. state' = "Done" <=> AllRecorded'
    <3>1. Inv1' /\ Tracked' /\ Counted'
      BY DEF EndInv
    <3>2. Reached' <=> AllRecorded'
      BY <3>1, CountRecords, PTL
    <3>3. AllReported' <=> AllRecorded'
      BY <1>2, <2>3, <3>2 DEF AllReported, Reached
    <3>4. state # "Done"
      BY <2>2, <2>3 DEF EndInv, DoneIsAll, AllRecorded
    <3>5. QED
      BY <1>3, <3>3, <3>4
  <2>6. AllRecorded' <=> {j \in 0 .. total - 1 : record[j] = "none"} = {i}
    <3>1. /\ \A j \in 0 .. total - 1 : j \in Items
          /\ AllRecorded' <=> \A j \in 0 .. total - 1 : record'[j] # "none"
      BY <1>2, PipelineAssumption DEF AllRecorded, RunOK, Items
    <3>2. \A j \in Items : record'[j] = IF j = i THEN o ELSE record[j]
      BY <2>4
    <3>3. o # "none"
      BY DEF Outcomes
    <3>4. QED
      BY <3>1, <3>2, <3>3, <2>2, <2>3
  <2>7. (state = "Done")' = ({j \in 0 .. total - 1 : record[j] = "none"} = {i})
    BY <2>5, <2>6
  <2>8. Ledger!Settle(i, o)
    BY <1>2, <2>2, <2>3, <2>4, <2>7 DEF Ledger!Settle, Ledger!Unsettled, TrueOf
  <2>9. QED
    BY <2>8 DEF Outcomes
<1>6. QED
  BY <1>4, <1>5

\* Every behaviour of the pipeline is one of the ledger.
THEOREM PipelineImplementsLedger == Spec => LedgerSpec
<1>1. Init => Ledger!Init
  <2>1. 0 .. 0 - 1 = {}
    OBVIOUS
  <2>2. QED
    BY <2>1 DEF Init, Ledger!Init
<1>2. IInv /\ IInv' /\ [Next]_vars => [Ledger!Next]_(Ledger!vars)
  <2> SUFFICES ASSUME IInv, IInv', [Next]_vars
               PROVE  Ledger!Next \/ UNCHANGED Ledger!vars
    OBVIOUS
  <2>1. CASE ScanComplete
    BY <2>1, LedgerScan DEF Ledger!Next
  <2>2. CASE ScanFailed
    <3>1. /\ UNCHANGED <<mode, total, record, complete>>
          /\ state # "Done" /\ state' # "Done"
      BY <2>2 DEF ScanFailed, IInv, EndInv, NotYetDone, runVars, tallyVars
    <3>2. QED
      BY <3>1, LedgerStutter
  <2>3. CASE BulkStatProgress \/ BulkStatComplete \/ QuitMsg \/ UNCHANGED vars
    <3>1. UNCHANGED <<mode, total, record, complete, state>>
      BY <2>3 DEF BulkStatProgress, BulkStatComplete, QuitMsg, vars, runVars,
         tallyVars, phaseVars
    <3>2. QED
      BY <3>1, LedgerStutter
  <2>4. CASE KeyQuit \/ KeyPause
    <3>1. /\ UNCHANGED <<mode, total, record, complete>>
          /\ state' = "Done" <=> state = "Done"
      BY <2>4 DEF KeyQuit, KeyPause, Pause, Resume, runVars, tallyVars, IInv,
         EndInv, NotYetDone
    <3>2. QED
      BY <3>1, LedgerStutter
  <2>5. CASE \E p \in Pumps : Pumping(p)
    <3>1. PICK p \in Pumps : Pumping(p)
      BY <2>5
    <3>2. CASE Receive(p) \/ DeliverListing(p) \/ DeliverProgress(p)
      <4>1. UNCHANGED <<mode, total, record, complete, state>>
        BY <3>2 DEF Receive, DeliverListing, DeliverProgress, runVars,
           tallyVars, phaseVars
      <4>2. QED
        BY <4>1, LedgerStutter
    <3>3. QED
      BY <3>1, <3>2, LedgerSettle DEF Pumping, Ledger!Next
  <2>6. CASE \E w \in Workers : Working(w)
    <3>1. PICK w \in Workers : Working(w)
      BY <2>6
    <3>2. CASE PutDone(w) \/ PutFailed(w)
      BY <3>2, LedgerWrite DEF Ledger!Next
    <3>3. CASE ~(PutDone(w) \/ PutFailed(w))
      <4>1. UNCHANGED <<workerFrame, complete>>
        BY <3>1, <3>3 DEF Working, LoopStep, Take, NoMoreItems, PassGate, QuitAtGate,
           SendChecking, StatItem, SendQueued, Acquire, AbandonSlot,
           SendUploading, PutProgress, Report
      <4>2. UNCHANGED <<mode, total, record, complete, state>>
        BY <4>1 DEF workerFrame, runVars, tallyVars, phaseVars
      <4>3. QED
        BY <4>2, LedgerStutter
    <3>4. QED
      BY <3>2, <3>3
  <2>7. QED
    BY <2>1, <2>2, <2>3, <2>4, <2>5, <2>6 DEF Next, Commands, Terminated
<1>3. QED
  BY <1>1, <1>2, Inductive, PTL DEF Spec, LedgerSpec, Ledger!Spec

\* A dry run and a verification never write.
THEOREM NothingWritten == Spec => ReadOnlyModes
<1>1. IInv /\ [Next]_vars => [mode # "sync" => complete' = complete]_vars
  <2> SUFFICES ASSUME IInv, Next, mode # "sync" PROVE complete' = complete
    BY DEF vars
  <2>1. \A w \in Workers : ~PutDone(w) /\ ~PutFailed(w)
    BY DEF IInv, Honest, SyncSends, Sending, PutDone, PutFailed, PutReturns
  <2>2. QED
    BY <2>1 DEF Next, Commands, KeyQuit, KeyPause, QuitMsg, Terminated, vars,
       ScanFailed, ScanComplete, BulkStatProgress, BulkStatComplete, Pumping,
       Receive, DeliverListing, DeliverProgress, DeliverStatus, Working, LoopStep, Take,
       NoMoreItems, PassGate, QuitAtGate, SendChecking, StatItem, SendQueued,
       Acquire, AbandonSlot, SendUploading, PutProgress, Report
<1>2. QED
  BY <1>1, Inductive, PTL DEF ReadOnlyModes, Spec

\* A paused screen means a closed gate.
GateShut == state = "Paused" => gatePaused

LEMMA GateShutAlways == Spec => []GateShut
<1>1. Init => GateShut
  BY DEF Init, GateShut
<1>2. IInv /\ GateShut /\ [Next]_vars => GateShut'
  <2> SUFFICES ASSUME IInv, GateShut, [Next]_vars PROVE GateShut'
    OBVIOUS
  <2>1. CASE KeyQuit \/ KeyPause
    BY <2>1 DEF KeyQuit, KeyPause, Pause, Resume, GateShut
  <2>2. CASE UNCHANGED gatePaused /\ (state' = state \/ state' # "Paused")
    BY <2>2 DEF GateShut
  <2>3. CASE Commands \/ QuitMsg \/ UNCHANGED vars
    BY <2>2, <2>3 DEF Commands, QuitMsg, vars, ScanFailed, ScanComplete,
       BulkStatProgress, BulkStatComplete, ctlVars, phaseVars
  <2>4. CASE \E p \in Pumps : Pumping(p)
    BY <2>2, <2>4 DEF Pumping, Receive, DeliverListing, DeliverProgress,
       DeliverStatus, ctlVars, phaseVars
  <2>5. CASE \E w \in Workers : Working(w)
    BY <2>2, <2>5 DEF Working, LoopStep, Take, NoMoreItems, PassGate, QuitAtGate,
       SendChecking, StatItem, SendQueued, Acquire, AbandonSlot, SendUploading,
       PutProgress, PutDone, PutFailed, PutReturns, Report, workerFrame,
       ctlVars, phaseVars
  <2>6. QED
    BY <2>1, <2>3, <2>4, <2>5 DEF Next, Terminated
<1>3. QED
  BY <1>1, <1>2, Inductive, PTL DEF Spec

\* While the screen says Paused, no worker at the gate goes on to its item.
THEOREM PausedPoolWaits == Spec => PauseStopsPool
<1> DEFINE Stops == state = "Paused" =>
                \A w \in Workers : pc[w] = "gate" => pc'[w] \in {"gate", "exited"}
<1>1. IInv /\ GateShut /\ [Next]_vars => [Stops]_vars
  <2> SUFFICES ASSUME IInv, GateShut, Next, state = "Paused",
                      NEW w \in Workers, pc[w] = "gate"
               PROVE  pc'[w] \in {"gate", "exited"}
    BY DEF vars
  <2> USE DEF IInv, Inv1, TypeOK, PoolOK
  <2>1. CASE \E v \in Workers : Working(v)
    BY <2>1 DEF GateShut, Working, LoopStep, Take, NoMoreItems, PassGate, QuitAtGate,
       SendChecking, StatItem, SendQueued, Acquire, AbandonSlot, SendUploading,
       PutProgress, PutDone, PutFailed, PutReturns, Report, Goto
  <2>2. CASE Commands
    <3>1. ~ScanComplete /\ ~BulkStatComplete
      BY DEF ScanComplete, BulkStatComplete, PoolWaits
    <3>2. QED
      BY <2>2, <3>1 DEF Commands, ScanFailed, BulkStatProgress, poolVars
  <2>3. CASE \/ KeyQuit \/ KeyPause \/ QuitMsg \/ Terminated
             \/ \E p \in Pumps : Pumping(p)
    BY <2>3 DEF KeyQuit, KeyPause, QuitMsg, Terminated, vars, Pumping, Receive,
       DeliverListing, DeliverProgress, DeliverStatus, poolVars
  <2>4. QED
    BY <2>1, <2>2, <2>3 DEF Next
<1>2. QED
  BY <1>1, Inductive, GateShutAlways, PTL DEF PauseStopsPool, Spec

-----------------------------------------------------------------------------
(* The run goes on: before its end someone can always take a step.         *)

\* Why something can always be done.  Between the scan and the end the pool has
\* been started; the first consumer stops for good only at the end; and a worker
\* that was not cancelled leaves only when there is nothing to take.
Ended == state \in {"Done", "Error"}
Started == CommandGoes \/ Ended \/ (total > 0 /\ \A w \in Workers : pc[w] # "off")
Armed == pump["init"] = Off => state = "Done"
Drained == \A w \in Workers : pc[w] = "exited" /\ ~cancelled => dispatched = total
Listable == "bulk" \in pending => total > 0
Lively == Started /\ Armed /\ Drained /\ Listable

LEMMA NextLively ==
    ASSUME Inv1, EndInv, Lively, [Next]_vars PROVE Lively'
<1> USE DEF Inv1, TypeOK, PoolOK, ChanOK
<1>1. CASE \E w \in Workers : Working(w)
  <2>1. PICK w \in Workers : Working(w)
    BY <1>1
  <2>2. UNCHANGED <<state, pending, total, cancelled, pump>>
    BY <2>1 DEF Working, LoopStep, Take, NoMoreItems, PassGate, QuitAtGate, SendChecking,
       StatItem, SendQueued, Acquire, AbandonSlot, SendUploading, PutProgress,
       PutDone, PutFailed, PutReturns, Report, Send, workerFrame, runVars,
       phaseVars, ctlVars, chanVars
  <2>3. /\ \A v \in Workers : v # w => pc'[v] = pc[v]
        /\ pc'[w] = "off" => pc[w] = "off"
        /\ pc'[w] = "exited" => cancelled \/ dispatched' = total
    BY <2>1 DEF Working, LoopStep, Take, NoMoreItems, PassGate, QuitAtGate, SendChecking,
       StatItem, SendQueued, Acquire, AbandonSlot, SendUploading, PutProgress,
       PutDone, PutFailed, PutReturns, Report, Goto
  <2>4. dispatched' = dispatched \/ dispatched < total
    BY <2>1 DEF Working, LoopStep, Take, NoMoreItems, PassGate, QuitAtGate, SendChecking,
       StatItem, SendQueued, Acquire, AbandonSlot, SendUploading, PutProgress,
       PutDone, PutFailed, PutReturns, Report
  <2>5. Started' /\ Armed'
    BY <2>2, <2>3 DEF Lively, Started, Armed, CommandGoes, Ended
  <2>6. Drained'
    BY <2>2, <2>3, <2>4 DEF Lively, Drained, RunOK
  <2>7. QED
    BY <2>2, <2>5, <2>6 DEF Lively, Listable
<1>2. CASE \E p \in Pumps : Pumping(p)
  <2>1. PICK p \in Pumps : Pumping(p)
    BY <1>2
  <2>2. UNCHANGED <<pending, total, cancelled, dispatched, pc>>
    BY <2>1 DEF Pumping, Receive, DeliverListing, DeliverProgress, DeliverStatus,
       runVars, ctlVars, poolVars
  <2>3. (Ended => Ended') /\ (state = "Done" => state' = "Done")
    BY <2>1 DEF Pumping, Receive, DeliverListing, DeliverProgress, DeliverStatus,
       phaseVars, Ended
  <2>4. pump'["init"] = Off => pump["init"] = Off \/ state' = "Done"
    <3>0. Waiting # Off /\ "init" \in Pumps
      BY DEF Waiting, Off, Pumps
    <3>1. CASE Receive(p)
      <4>1. Head(msgChan) \in Messages /\ Off \notin Messages
        BY <3>1 DEF Receive, Off, Messages, StatusMsgs, ProgressMsgs, Listing,
           StatusTags, Outcomes
      <4>2. QED
        BY <3>1, <4>1 DEF Receive
    <3>2. CASE DeliverListing(p) \/ DeliverProgress(p)
      <4>1. pump' = [pump EXCEPT ![p] = Waiting]
        BY <3>2 DEF DeliverListing, DeliverProgress
      <4>2. QED
        BY <3>0, <4>1
    <3>3. CASE DeliverStatus(p)
      <4>1. pump' = [pump EXCEPT ![p] = Waiting] \/ state' = "Done"
        BY <3>3 DEF DeliverStatus
      <4>2. QED
        BY <3>0, <4>1
    <3>4. QED
      BY <2>1, <3>1, <3>2, <3>3 DEF Pumping
  <2>5. QED
    BY <2>2, <2>3, <2>4 DEF Lively, Started, Armed, Drained, CommandGoes, Listable
<1>3. CASE ScanFailed
  <2>1. state # "Done"
    BY <1>3 DEF ScanFailed, EndInv, NotYetDone
  <2>2. Started' /\ pump["init"] # Off
    BY <1>3, <2>1 DEF ScanFailed, Lively, Started, Armed, Ended
  <2>3. QED
    BY <1>3, <2>2 DEF ScanFailed, Lively, Armed, Drained, Listable, runVars,
       ctlVars, chanVars, poolVars
<1>4. CASE ScanComplete
  <2>1. state # "Done" /\ \A w \in Workers : pc[w] = "off"
    BY <1>4 DEF ScanComplete, EndInv, NotYetDone, PoolWaits
  <2>2. Armed'
    BY <1>4, <2>1 DEF ScanComplete, Lively, Armed, chanVars
  <2>3. Drained'
    BY <1>4, <2>1 DEF ScanComplete, Drained, StartPool
  <2>4. Started'
    BY <1>4 DEF ScanComplete, Started, CommandGoes, Ended, StartPool
  <2>5. Listable'
    BY <1>4 DEF ScanComplete, Listable, PoolWaits
  <2>6. QED
    BY <2>2, <2>3, <2>4, <2>5 DEF Lively
<1>5. CASE BulkStatComplete
  <2>1. \A w \in Workers : pc'[w] = "take"
    BY <1>5 DEF BulkStatComplete, StartPool
  <2>2. UNCHANGED <<state, total>> /\ pump'["init"] = pump["init"]
    BY <1>5 DEF BulkStatComplete, phaseVars, Pumps
  <2>3. total > 0
    BY <1>5 DEF BulkStatComplete, Lively, Listable
  <2>4. QED
    BY <1>5, <2>1, <2>2, <2>3 DEF BulkStatComplete, Lively, Started, Armed, Drained,
       Listable, Ended
<1>6. CASE BulkStatProgress \/ KeyQuit \/ KeyPause \/ QuitMsg \/ UNCHANGED vars
  <2>1. /\ UNCHANGED <<total, dispatched, pc, pump>>
        /\ CommandGoes' = CommandGoes /\ ("bulk" \in pending' <=> "bulk" \in pending)
        /\ (cancelled => cancelled')
        /\ (Ended => Ended') /\ (state = "Done" => state' = "Done")
    BY <1>6 DEF BulkStatProgress, KeyQuit, KeyPause, Pause, Resume, QuitMsg, vars,
       runVars, poolVars, chanVars, ctlVars, phaseVars, Ended, CommandGoes
  <2>2. QED
    BY <2>1 DEF Lively, Started, Armed, Drained, Listable
<1>7. QED
  BY <1>1, <1>2, <1>3, <1>4, <1>5, <1>6 DEF Next, Commands, Terminated

LEMMA LivelyGoes ==
    ASSUME IInv, Lively, ~cancelled, ~gatePaused, ~Ended, ~SomethingGoes
    PROVE  FALSE
<1> USE DEF Inv1, TypeOK, PoolOK, ChanOK
<1>1. total > 0 /\ \A w \in Workers : pc[w] # "off"
  BY DEF Lively, Started, SomethingGoes
<1>2. /\ msgChan = <<>>
      /\ \A p \in Pumps : pump[p] \in {Off, Waiting}
  <2>1. pump["init"] # Off /\ "init" \in Pumps
    BY DEF Lively, Armed, Ended, Pumps
  <2>2. msgChan = <<>>
    BY <2>1 DEF SomethingGoes, PumpGoes
  <2>3. QED
    BY <2>2 DEF SomethingGoes, PumpGoes
<1>3. \A w \in Workers : pc[w] \in {"acquire", "exited"}
  <2>1. Len(msgChan) < ChanCap
    BY <1>2, PipelineAssumption
  <2>2. \A w \in Workers : pc[w] \in Holding \cup {"take", "exited"}
    BY <1>1 DEF IInv
  <2>3. QED
    BY <2>1, <2>2 DEF SomethingGoes, WorkerGoes, Holding
<1>4. \A w \in Workers : pc[w] = "exited"
  <2> SUFFICES ASSUME NEW w \in Workers, pc[w] = "acquire" PROVE FALSE
    BY <1>3
  <2>1. Capped
    BY DEF IInv, SlotInv, QueueCapped
  <2>2. Moving = {}
    BY <1>3 DEF Moving
  <2>3. slots = 0 /\ UploadJobs > 0
    BY <2>1, <2>2, FS_EmptySet DEF IInv, SlotInv, SlotsCounted, Capped
  <2>4. QED
    BY <2>3 DEF SomethingGoes, WorkerGoes
<1>5. dispatched = total
  BY <1>4, PipelineAssumption DEF Lively, Drained
<1>6. AllRecorded
  <2> SUFFICES ASSUME NEW i \in 0 .. total - 1 PROVE record[i] # "none"
    BY DEF AllRecorded
  <2>1. i \in Items /\ i < dispatched
    BY <1>5, PipelineAssumption DEF IInv, RunOK, Items
  <2>2. Somewhere(i)
    BY <2>1 DEF IInv, Accounted
  <2>3. ~ \E w \in Workers : Hand(w, i)
    BY <1>4 DEF Hand, Holding
  <2>4. ~ \E k \in Slots : InChan(k, i)
    BY <1>2 DEF Slots
  <2>5. ~ \E p \in Pumps : InPump(p, i)
    BY <1>2 DEF InPump, Carries, Off, Waiting, Outcomes
  <2>6. QED
    BY <2>2, <2>3, <2>4, <2>5 DEF Somewhere
<1>7. Reached
  BY <1>6, CountRecords DEF IInv, EndInv
<1>8. state = "Done"
  BY <1>1, <1>7 DEF IInv, EndInv, EndsRight, AllReported, Reached
<1>9. QED
  BY <1>8 DEF Ended

\* A run that is neither cancelled nor paused and has not come to its end always
\* has a step to take: no order of sends, receives and slots leaves everyone
\* waiting for everyone, and the last outcome is not missed.
THEOREM RunGoesOn == Spec => []NeverStuck
<1>1. Init => Lively
  BY DEF Init, Lively, Started, Armed, Drained, Listable, CommandGoes, Waiting, Off, Pumps
<1>2. IInv => Inv1 /\ EndInv
  BY DEF IInv
<1>3. Spec => []Lively
  BY <1>1, <1>2, Inductive, NextLively, PTL DEF Spec
<1>4. IInv /\ Lively => NeverStuck
  BY LivelyGoes DEF NeverStuck, Ended
<1>5. QED
  BY <1>3, <1>4, Inductive, PTL
=============================================================================
