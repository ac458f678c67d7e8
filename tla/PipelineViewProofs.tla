------------------------ MODULE PipelineViewProofs -------------------------
(***************************************************************************)
(* What the screen shows of a run, for any instance: the queue pane never  *)
(* offers what was reported, nothing is left when the run is done, and no  *)
(* byte is counted twice.  Where one consumer reads the channel, the       *)
(* messages reach the screen in the order they were sent.  And what is left*)
(* of a run to do gets less with every step.                               *)
(***************************************************************************)
EXTENDS PipelineProofs, NaturalsInduction, WellFoundedInduction

-----------------------------------------------------------------------------
(* Layer 6: the messages on their way, oldest first, when one consumer     *)
(* reads the channel: what it holds, then what waits in the channel.       *)

Solo == ~BulkStater =>
    /\ pump["bulk"] = Off /\ "bulk" \notin pending
    /\ pump["init"].tag # "Listing"
    /\ \A k \in Slots : msgChan[k].tag # "Listing"

Carried == StatusMsgs \cup ProgressMsgs
Line == IF pump["init"].tag \in {"off", "waiting"} THEN msgChan
        ELSE <<pump["init"]>> \o msgChan
Places == 1 .. Len(Line)

\* The three ways in which a step moves the line.
Grown(m) ==
    /\ Places' = Places \cup {Len(Line) + 1} /\ Len(Line)' = Len(Line) + 1
    /\ \A k \in Places : Line'[k] = Line[k]
    /\ Line'[Len(Line) + 1] = m
Popped(m) ==
    /\ 1 \in Places /\ Line[1] = m /\ Len(Line) = Len(Line)' + 1
    /\ \A k \in Places' : k + 1 \in Places /\ Line'[k] = Line[k + 1]
    /\ \A k \in Places : k # 1 => k - 1 \in Places'

LEMMA InitSolo == Init => Solo
BY DEF Init, Solo, Waiting, Off, Slots, Pumps

LEMMA NextSolo == Inv1 /\ Solo /\ [Next]_vars => Solo'
<1> SUFFICES ASSUME Inv1, Solo, ~BulkStater, [Next]_vars PROVE Solo'
  BY DEF Solo
<1> USE DEF Inv1, TypeOK, ChanOK
<1>1. ASSUME UNCHANGED <<msgChan, pump, pending>> PROVE Solo'
  BY <1>1 DEF Solo, Slots
<1>2. CASE Commands
  <2>1. ~BulkStatProgress /\ ~BulkStatComplete
    BY DEF Solo, BulkStatProgress, BulkStatComplete
  <2>2. "bulk" \notin pending' /\ UNCHANGED <<msgChan, pump>>
    BY <1>2, <2>1 DEF Commands, ScanFailed, ScanComplete, Solo, chanVars
  <2>3. QED
    BY <2>2 DEF Solo, Slots
<1>3. CASE KeyQuit \/ KeyPause \/ QuitMsg \/ UNCHANGED vars
  <2>1. "bulk" \notin pending' /\ UNCHANGED <<msgChan, pump>>
    BY <1>3 DEF KeyQuit, KeyPause, QuitMsg, vars, Solo, chanVars
  <2>2. QED
    BY <2>1 DEF Solo, Slots
<1>4. CASE \E p \in Pumps : Pumping(p)
  <2>1. PICK p \in Pumps : Pumping(p)
    BY <1>4
  <2>2. pending' = pending /\ pump[p] # Off
    BY <2>1 DEF Pumping, Receive, DeliverListing, DeliverProgress, DeliverStatus,
       Off, Waiting, StatusTags, Outcomes
  <2>3. p = "init"
    BY <2>2 DEF Solo, Pumps
  <2>4. CASE Receive(p)
    <3>1. /\ \A k \in Slots' : k + 1 \in Slots /\ msgChan'[k] = msgChan[k + 1]
          /\ 1 \in Slots /\ Head(msgChan) = msgChan[1]
      BY <2>4 DEF Receive, Slots
    <3>2. pump' = [pump EXCEPT !["init"] = Head(msgChan)] /\ "init" \in Pumps
      BY <2>3, <2>4 DEF Receive, Pumps
    <3>3. pump'["bulk"] = pump["bulk"] /\ pump'["init"] = msgChan[1]
      BY <3>1, <3>2 DEF Pumps
    <3>4. QED
      BY <2>2, <3>1, <3>3 DEF Solo
  <2>5. CASE ~Receive(p)
    <3>1. msgChan' = msgChan
      BY <2>1, <2>5 DEF Pumping, DeliverListing, DeliverProgress, DeliverStatus
    <3>2. /\ pump'["bulk"] = pump["bulk"]
          /\ pump'["init"] = Waiting \/ pump'["init"] = Off
      BY <2>1, <2>3, <2>5 DEF Pumping, DeliverListing, DeliverProgress,
         DeliverStatus, Pumps
    <3>3. QED
      BY <2>2, <3>1, <3>2 DEF Solo, Slots, Off, Waiting
  <2>6. QED
    BY <2>4, <2>5
<1>5. CASE \E w \in Workers : Working(w)
  <2>1. PICK w \in Workers : Working(w)
    BY <1>5
  <2>2. /\ UNCHANGED <<pump, pending>>
        /\ \/ msgChan' = msgChan
           \/ \E t \in StatusTags : /\ msgChan' = Append(msgChan, Status(t, w, cur[w]))
                                    /\ pc[w] \in Holding
           \/ \E b \in Nat : /\ msgChan' = Append(msgChan, Progress(w, cur[w], b))
                             /\ pc[w] \in Holding
    <3>1. CASE PutProgress(w)
      <4>1. PICK b \in Figures : msgChan' = Append(msgChan, Progress(w, cur[w], b))
        BY <3>1 DEF PutProgress
      <4>2. cur[w] \in Items /\ pc[w] \in Holding
        BY <3>1 DEF PutProgress, HasItem, Holding
      <4>3. b \in Nat
        BY PipelineAssumption
      <4>4. QED
        BY <3>1, <4>1, <4>2, <4>3 DEF PutProgress, workerFrame
    <3>2. CASE Report(w)
      <4>1. result[w] \in StatusTags
        BY <3>2 DEF Report, HasOutcome, StatusTags
      <4>2. QED
        BY <3>2, <4>1 DEF Report, Send, workerFrame, Holding
    <3>3. CASE ~PutProgress(w) /\ ~Report(w)
      BY <2>1, <3>3 DEF Working, LoopStep, Take, NoMoreItems, PassGate, QuitAtGate,
         SendChecking, StatItem, SendQueued, Acquire, AbandonSlot, SendUploading,
         PutDone, PutFailed, PutReturns, Send, workerFrame, chanVars, StatusTags,
         Holding
    <3>4. QED
      BY <3>1, <3>2, <3>3
  <2>3. CASE msgChan' = msgChan
    BY <1>1, <2>2, <2>3
  <2>4. CASE msgChan' # msgChan
    <3>1. pc[w] \in Holding /\ cur[w] \in Items
      BY <2>2, <2>4 DEF HasItem
    <3>2. PICK m \in StatusMsgs \cup ProgressMsgs : msgChan' = Append(msgChan, m)
      BY <2>2, <2>4, <3>1, WorkerMsg
    <3>3. m \in Messages /\ m.tag # "Listing"
      BY DEF Messages, StatusMsgs, ProgressMsgs, StatusTags, Outcomes
    <3>4. \A k \in Slots' : msgChan'[k].tag # "Listing"
      BY <3>2, <3>3, Appended DEF Solo
    <3>5. QED
      BY <2>2, <3>4 DEF Solo
  <2>5. QED
    BY <2>3, <2>4
<1>6. QED
  BY <1>2, <1>3, <1>4, <1>5 DEF Next, Terminated

\* What one consumer leaves to be said of the line.
LEMMA LineType ==
    ASSUME Inv1, Solo, ~BulkStater
    PROVE  /\ Line \in Seq(Carried)
           /\ \A k \in Places : Line[k] \in Carried
<1> USE DEF Inv1, TypeOK, ChanOK
<1>1. \A m \in Messages \cup {Off, Waiting} :
        m.tag \notin {"off", "waiting", "Listing"} => m \in Carried
  BY DEF Messages, Carried, Off, Waiting, Listing
<1>2. \A k \in Slots : msgChan[k] \in Messages
  BY DEF Slots
<1>3. \A m \in Messages : m.tag \notin {"off", "waiting"}
  BY DEF Messages, StatusMsgs, ProgressMsgs, StatusTags, Outcomes, Listing
<1>4. \A k \in Slots : msgChan[k] \in Carried
  BY <1>1, <1>2, <1>3 DEF Solo
<1>5. msgChan \in Seq(Carried)
  BY <1>4 DEF Slots
<1>6. CASE pump["init"].tag \in {"off", "waiting"}
  <2>1. Line = msgChan
    BY <1>6 DEF Line
  <2>2. QED
    BY <1>4, <1>5, <2>1 DEF Places, Slots
<1>7. CASE pump["init"].tag \notin {"off", "waiting"}
  <2>1. pump["init"] \in Carried
    BY <1>1, <1>7 DEF Solo, Pumps
  <2>2. Line = <<pump["init"]>> \o msgChan
    BY <1>7 DEF Line
  <2>3. Line \in Seq(Carried)
    BY <1>5, <2>1, <2>2
  <2>4. QED
    BY <2>3 DEF Places
<1>8. QED
  BY <1>6, <1>7

LEMMA LineSent ==
    ASSUME Inv1, Inv1', Solo, Solo', ~BulkStater, NEW m \in Messages,
           msgChan' = Append(msgChan, m), UNCHANGED pump
    PROVE  Grown(m)
<1>1. msgChan \in Seq(Messages)
  BY DEF Inv1, TypeOK, ChanOK
<1>2. CASE pump["init"].tag \in {"off", "waiting"}
  <2>1. Line = msgChan /\ Line' = Append(msgChan, m)
    BY <1>2 DEF Line
  <2>2. QED
    BY <1>1, <2>1 DEF Grown, Places
<1>3. CASE pump["init"].tag \notin {"off", "waiting"}
  <2>1. PICK h : h = pump["init"]
    OBVIOUS
  <2>2. /\ Line = <<h>> \o msgChan
        /\ Line' = <<h>> \o Append(msgChan, m)
    BY <1>3, <2>1 DEF Line
  <2>3. Line' = Append(Line, m) /\ Line \in Seq({h} \cup Messages)
    BY <1>1, <2>2
  <2>4. QED
    BY <2>3 DEF Grown, Places
<1>4. QED
  BY <1>2, <1>3

LEMMA LineReceived ==
    ASSUME Inv1, Inv1', Solo, Solo', ~BulkStater, NEW p \in Pumps, Receive(p)
    PROVE  Line' = Line
<1> USE DEF Inv1, TypeOK, ChanOK
<1>1. p = "init"
  BY DEF Solo, Receive, Pumps, Off, Waiting
<1>2. /\ pump["init"] = Waiting /\ pump'["init"] = Head(msgChan)
      /\ msgChan' = Tail(msgChan) /\ msgChan # <<>>
  BY <1>1 DEF Receive, Pumps
<1>3. Head(msgChan) \in Messages
  BY <1>2
<1>4. \A m \in Messages : m.tag \notin {"off", "waiting"}
  BY DEF Messages, StatusMsgs, ProgressMsgs, StatusTags, Outcomes, Listing
<1>5. Line = msgChan
  BY <1>2 DEF Line, Waiting
<1>6. Line' = <<Head(msgChan)>> \o Tail(msgChan)
  BY <1>2, <1>3, <1>4 DEF Line
<1>7. QED
  BY <1>2, <1>5, <1>6

LEMMA LineDelivered ==
    ASSUME Inv1, Inv1', Solo, Solo', ~BulkStater, NEW p \in Pumps,
           DeliverProgress(p) \/ DeliverStatus(p)
    PROVE  p = "init" /\ pump[p] \in Carried /\ Popped(pump[p])
<1> USE DEF Inv1, TypeOK, ChanOK
<1>1. p = "init" /\ pump["init"].tag \notin {"off", "waiting"}
  BY DEF Solo, DeliverProgress, DeliverStatus, Pumps, Off, StatusTags, Outcomes
<1>2. /\ msgChan' = msgChan
      /\ pump'["init"] = Off \/ pump'["init"] = Waiting
  BY <1>1 DEF DeliverProgress, DeliverStatus, Pumps
<1>3. PICK m : m = pump["init"]
  OBVIOUS
<1>4. Line = <<m>> \o msgChan /\ Line' = msgChan
  BY <1>1, <1>2, <1>3 DEF Line, Off, Waiting
<1>5. Len(Line) = Len(msgChan) + 1 /\ Line[1] = m
      /\ \A k \in Slots : Line[k + 1] = msgChan[k]
  BY <1>4 DEF Slots
<1>6. Popped(m)
  BY <1>4, <1>5 DEF Popped, Places, Slots
<1>7. pump[p] \in Carried
  BY <1>1, StatusMsg, ProgressMsg
     DEF DeliverProgress, DeliverStatus, Carried
<1>8. QED
  BY <1>1, <1>3, <1>6, <1>7

\* Layer 2 speaks of the line: the place in it that carries an item's outcome.
LEMMA LineTracked ==
    ASSUME Inv1, Solo, ~BulkStater, Tracked, NEW k \in Places, NEW i \in Items,
           Carries(Line[k], i)
    PROVE  /\ record[i] = "none" /\ i < dispatched
           /\ \A w \in Workers : ~Hand(w, i)
           /\ \A j \in Places : Carries(Line[j], i) => j = k
<1> USE DEF Inv1, TypeOK, ChanOK
<1>1. dispatched \in Nat /\ i \in Nat
  BY PipelineAssumption DEF PoolOK, RunOK, Items
<1>2. CASE pump["init"].tag \in {"off", "waiting"}
  <2>1. Line = msgChan /\ Places = Slots
    BY <1>2 DEF Line, Places, Slots
  <2>2. InChan(k, i)
    BY <2>1 DEF InChan
  <2>3. \A j \in Places : Carries(Line[j], i) => InChan(j, i)
    BY <2>1 DEF InChan
  <2>4. QED
    BY <1>1, <2>1, <2>2, <2>3 DEF Tracked, RecordedLast, TakenFirst, HandOrSlot,
       OneSlot
<1>3. CASE pump["init"].tag \notin {"off", "waiting"}
  <2>1. PICK m : m = pump["init"]
    OBVIOUS
  <2>2. Line = <<m>> \o msgChan
    BY <1>3, <2>1 DEF Line
  <2>3. \A j \in Places : IF j = 1 THEN Line[j] = m
                          ELSE j - 1 \in Slots /\ Line[j] = msgChan[j - 1]
    BY <2>2 DEF Places, Slots
  <2>4. \A j \in Places : Carries(Line[j], i) =>
            IF j = 1 THEN InPump("init", i) ELSE j - 1 \in Slots /\ InChan(j - 1, i)
    BY <2>1, <2>3 DEF InChan, InPump
  <2>5. "init" \in Pumps
    BY DEF Pumps
  <2>6. CASE k = 1
    <3>1. InPump("init", i)
      BY <2>4, <2>6
    <3>2. \A j \in Places : Carries(Line[j], i) => j = 1
      BY <2>4, <2>5, <3>1 DEF Tracked, SlotOrPump
    <3>3. QED
      BY <1>1, <2>5, <2>6, <3>1, <3>2 DEF Tracked, RecordedLast, TakenFirst,
         HandOrPump
  <2>7. CASE k # 1
    <3>1. k - 1 \in Slots /\ InChan(k - 1, i)
      BY <2>4, <2>7
    <3>2. \A j \in Places : Carries(Line[j], i) => j # 1 /\ j - 1 = k - 1
      BY <2>4, <2>5, <3>1 DEF Tracked, SlotOrPump, OneSlot
    <3>3. \A j \in Places : Carries(Line[j], i) => j = k
      BY <3>2 DEF Places
    <3>4. QED
      BY <1>1, <3>1, <3>3 DEF Tracked, RecordedLast, TakenFirst, HandOrSlot
  <2>8. QED
    BY <2>6, <2>7
<1>4. QED
  BY <1>2, <1>3

-----------------------------------------------------------------------------
(* The steps, by what they do to the line and to the workers' items.       *)

Checked == {"stat", "queue", "acquire", "announce", "put", "report"}

SameView == UNCHANGED <<rows, queuePos, record>>

Resting ==
    /\ SameView /\ Line' = Line
    /\ UNCHANGED <<cur, dispatched>>
    /\ \A w \in Workers : pc'[w] = pc[w] \/ (pc[w] = "off" /\ pc'[w] = "take")
Takes(w) ==
    /\ SameView /\ Line' = Line
    /\ pc[w] = "take" /\ pc' = [pc EXCEPT ![w] = "gate"]
    /\ cur' = [cur EXCEPT ![w] = dispatched] /\ dispatched \in Items
    /\ dispatched' = dispatched + 1
Shifts(w) ==
    /\ SameView /\ Line' = Line
    /\ UNCHANGED <<cur, dispatched>>
    /\ \E place : /\ pc' = [pc EXCEPT ![w] = place]
                  /\ place \notin {"off", "take"}
                  /\ place \in Checked => pc[w] \in Checked
Says(w, m) ==
    /\ SameView /\ Grown(m)
    /\ UNCHANGED <<cur, dispatched>>
    /\ m.w = w /\ m.i = cur[w] /\ m.tag \notin Outcomes
    /\ pc[w] \in Checked \/ m.tag = "Checking"
    /\ \E place \in Checked : pc' = [pc EXCEPT ![w] = place]
Reports(w, m) ==
    /\ SameView /\ Grown(m)
    /\ UNCHANGED dispatched
    /\ m.w = w /\ m.i = cur[w] /\ m.tag \in Outcomes /\ pc[w] = "report"
    /\ cur' = [cur EXCEPT ![w] = NoItem]
    /\ pc' = [pc EXCEPT ![w] = "take"]
Shows(m) ==
    /\ Popped(m)
    /\ UNCHANGED <<pc, cur, dispatched, queuePos, record>>
    /\ m.tag = "Progress"
    /\ rows' = [rows EXCEPT ![m.w].item = m.i, ![m.w].up = m.up]
Settles(m) ==
    /\ Popped(m)
    /\ UNCHANGED <<pc, cur, dispatched>>
    /\ m.tag \in StatusTags
    /\ rows' = [rows EXCEPT ![m.w] = RowAfter(rows[m.w], m)]
    /\ queuePos' = QueuePosAfter(m)
    /\ record' = IF m.tag \in Outcomes
                 THEN [record EXCEPT ![m.i] = m.tag] ELSE record

Moves ==
    \/ Resting
    \/ \E w \in Workers : \/ Takes(w) \/ Shifts(w)
                          \/ \E m \in Carried : Says(w, m) \/ Reports(w, m)
    \/ \E m \in Carried : Shows(m) \/ Settles(m)

LEMMA CarriedIs ==
    ASSUME NEW m \in Carried
    PROVE  /\ m.w \in Workers /\ m.i \in Items
           /\ m.tag = "Progress" => m.up \in Nat
           /\ m.tag # "Progress" => m.tag \in StatusTags
           /\ m \in Messages
BY DEF Carried, StatusMsgs, ProgressMsgs, StatusTags, Outcomes, Messages

LEMMA WorkerMoves ==
    ASSUME Inv1, Inv1', Solo, Solo', ~BulkStater, NEW w \in Workers, Working(w)
    PROVE  \/ Takes(w) \/ Shifts(w)
           \/ \E m \in Carried : Says(w, m) \/ Reports(w, m)
<1> USE DEF Inv1, TypeOK, PoolOK
<1>1. SameView
  BY DEF Working, LoopStep, Take, NoMoreItems, PassGate, QuitAtGate, SendChecking,
     StatItem, SendQueued, Acquire, AbandonSlot, SendUploading, PutProgress,
     PutDone, PutFailed, PutReturns, Report, workerFrame, viewVars, tallyVars,
     SameView
<1>2. CASE Take(w)
  <2>1. Line' = Line
    BY <1>2 DEF Take, chanVars, Line
  <2>2. dispatched \in Items
    BY <1>2, PipelineAssumption DEF Take, Items, RunOK
  <2>3. QED
    BY <1>1, <1>2, <2>1, <2>2 DEF Take, Takes, Goto
<1>3. CASE \/ NoMoreItems(w) \/ PassGate(w) \/ QuitAtGate(w) \/ StatItem(w)
           \/ Acquire(w) \/ AbandonSlot(w) \/ PutDone(w) \/ PutFailed(w)
  <2>1. Line' = Line
    BY <1>3 DEF NoMoreItems, PassGate, QuitAtGate, StatItem, Acquire,
       AbandonSlot, PutDone, PutFailed, PutReturns, chanVars, Line
  <2>2. UNCHANGED <<cur, dispatched>>
    BY <1>3 DEF NoMoreItems, PassGate, QuitAtGate, StatItem, Acquire,
       AbandonSlot, PutDone, PutFailed, PutReturns
  <2>3. \E place : /\ pc' = [pc EXCEPT ![w] = place]
                   /\ place \notin {"off", "take"}
                   /\ place \in Checked => pc[w] \in Checked
    BY <1>3 DEF NoMoreItems, PassGate, QuitAtGate, StatItem, Acquire,
       AbandonSlot, PutDone, PutFailed, PutReturns, Goto, Checked
  <2>4. QED
    BY <1>1, <2>1, <2>2, <2>3 DEF Shifts
<1>4. ASSUME NEW t \in StatusTags \ Outcomes, Send(Status(t, w, cur[w])),
             UNCHANGED <<cur, dispatched>>, pc[w] \in Holding,
             pc[w] \in Checked \/ t = "Checking",
             \E place \in Checked : pc' = [pc EXCEPT ![w] = place]
      PROVE  \E m \in Carried : Says(w, m)
  <2>1. cur[w] \in Items
    BY <1>4 DEF HasItem
  <2>2. PICK m : m = Status(t, w, cur[w])
    OBVIOUS
  <2>3. m \in StatusMsgs /\ m \in Carried /\ m \in Messages
    BY <2>1, <2>2, WorkerMsg DEF Carried, Messages
  <2>4. m.w = w /\ m.i = cur[w] /\ m.tag = t /\ t # "Progress"
    BY <2>2 DEF Status, StatusTags, Outcomes
  <2>5. Grown(m)
    BY <1>4, <2>2, <2>3, LineSent DEF Send
  <2>6. Says(w, m)
    BY <1>1, <1>4, <2>4, <2>5 DEF Says
  <2>7. QED
    BY <2>3, <2>6
<1>5. CASE SendChecking(w)
  BY <1>4, <1>5 DEF SendChecking, Goto, Checked, Holding, StatusTags, Outcomes
<1>6. CASE SendQueued(w)
  BY <1>4, <1>6 DEF SendQueued, Goto, Checked, Holding, StatusTags, Outcomes
<1>7. CASE SendUploading(w)
  BY <1>4, <1>7 DEF SendUploading, Goto, Checked, Holding, StatusTags, Outcomes
<1>8. CASE PutProgress(w)
  <2>1. cur[w] \in Items
    BY <1>8 DEF PutProgress, HasItem, Holding
  <2>2. PICK b \in Figures : msgChan' = Append(msgChan, Progress(w, cur[w], b))
    BY <1>8 DEF PutProgress
  <2>3. b \in Nat
    BY PipelineAssumption
  <2>4. PICK m : m = Progress(w, cur[w], b)
    OBVIOUS
  <2>5. m \in ProgressMsgs /\ m \in Carried /\ m \in Messages
    BY <2>1, <2>3, <2>4, WorkerMsg DEF Carried, Messages
  <2>6. m.w = w /\ m.i = cur[w] /\ m.tag = "Progress" /\ m.up = b
    BY <2>4 DEF Progress
  <2>7. Grown(m)
    BY <1>8, <2>2, <2>4, <2>5, LineSent DEF PutProgress
  <2>8. pc[w] = "put" /\ pc' = [pc EXCEPT ![w] = "put"]
    BY <1>8 DEF PutProgress
  <2>9. Says(w, m)
    BY <1>1, <1>8, <2>3, <2>6, <2>7, <2>8 DEF Says, PutProgress, Checked, Outcomes
  <2>10. QED
    BY <2>5, <2>9
<1>9. CASE Report(w)
  <2>1. cur[w] \in Items /\ result[w] \in Outcomes
    BY <1>9 DEF Report, HasItem, HasOutcome, Holding
  <2>2. PICK m : m = Status(result[w], w, cur[w])
    OBVIOUS
  <2>3. m \in StatusMsgs /\ m \in Carried /\ m \in Messages
    BY <2>1, <2>2, WorkerMsg DEF Carried, Messages, StatusTags
  <2>4. m.w = w /\ m.i = cur[w] /\ m.tag = result[w]
    BY <2>2 DEF Status
  <2>5. Grown(m)
    BY <1>9, <2>2, <2>3, LineSent DEF Report, Send
  <2>6. Reports(w, m)
    BY <1>1, <1>9, <2>1, <2>4, <2>5 DEF Reports, Report, Goto
  <2>7. QED
    BY <2>3, <2>6
<1>10. QED
  BY <1>2, <1>3, <1>5, <1>6, <1>7, <1>8, <1>9 DEF Working, LoopStep

LEMMA NextMoves ==
    ASSUME Inv1, Inv1', Solo, Solo', ~BulkStater, [Next]_vars PROVE Moves
<1>1. CASE \/ ScanFailed \/ BulkStatProgress \/ BulkStatComplete
           \/ KeyQuit \/ KeyPause \/ QuitMsg \/ UNCHANGED vars
  <2>1. ~BulkStatProgress /\ ~BulkStatComplete
    BY DEF Solo, BulkStatProgress, BulkStatComplete
  <2>2. /\ UNCHANGED <<rows, queuePos, record, msgChan, pump>>
        /\ UNCHANGED <<cur, dispatched, pc>>
    BY <1>1, <2>1 DEF ScanFailed, KeyQuit, KeyPause, QuitMsg, vars, viewVars,
       tallyVars, chanVars, poolVars
  <2>3. Resting
    BY <2>2 DEF Resting, SameView, Line
  <2>4. QED
    BY <2>3 DEF Moves
<1>2. CASE ScanComplete
  <2>1. \A w \in Workers : pc[w] = "off"
    BY <1>2 DEF ScanComplete, Inv1, PoolWaits
  <2>2. pc' = [w \in Workers |-> "take"] \/ UNCHANGED pc
    BY <1>2 DEF ScanComplete, StartPool
  <2>3. UNCHANGED <<rows, queuePos, record, msgChan, pump, cur, dispatched>>
    BY <1>2 DEF ScanComplete, viewVars, tallyVars, chanVars
  <2>4. Resting
    BY <2>1, <2>2, <2>3 DEF Resting, SameView, Line
  <2>5. QED
    BY <2>4 DEF Moves
<1>3. CASE \E p \in Pumps : Pumping(p)
  <2>1. PICK p \in Pumps : Pumping(p)
    BY <1>3
  <2>2. CASE Receive(p)
    <3>1. Line' = Line
      BY <2>2, LineReceived
    <3>2. Resting
      BY <2>2, <3>1 DEF Receive, Resting, SameView, viewVars, tallyVars, poolVars
    <3>3. QED
      BY <3>2 DEF Moves
  <2>3. ~DeliverListing(p)
    BY DEF DeliverListing, Solo, Pumps, Off
  <2>4. CASE DeliverProgress(p)
    <3>1. pump[p] \in Carried /\ Popped(pump[p])
      BY <2>4, LineDelivered
    <3>2. Shows(pump[p])
      BY <2>4, <3>1 DEF DeliverProgress, Shows, poolVars, tallyVars
    <3>3. QED
      BY <3>1, <3>2 DEF Moves
  <2>5. CASE DeliverStatus(p)
    <3>1. pump[p] \in Carried /\ Popped(pump[p])
      BY <2>5, LineDelivered
    <3>2. Settles(pump[p])
      BY <2>5, <3>1 DEF DeliverStatus, Settles, poolVars, Tally
    <3>3. QED
      BY <3>1, <3>2 DEF Moves
  <2>6. QED
    BY <2>1, <2>2, <2>3, <2>4, <2>5 DEF Pumping
<1>4. CASE \E w \in Workers : Working(w)
  BY <1>4, WorkerMoves DEF Moves
<1>5. QED
  BY <1>1, <1>2, <1>3, <1>4 DEF Next, Commands, Terminated

-----------------------------------------------------------------------------
(* What the view knows of the items: whose they are, and where they are    *)
(* announced, reported and shown.                                          *)

Opens(m, i)   == m.tag = "Checking" /\ m.i = i
Ends(m, w, i) == m.tag \in Outcomes /\ m.w = w /\ m.i = i

\* A worker owes an outcome for the item it took, even after it quit with it:
\* until it sends one nobody reports that item.
Owing ==
    /\ \A w \in Workers : pc[w] \in {"off", "take"} => cur[w] = NoItem
    /\ \A w \in Workers : cur[w] \in Items =>
            cur[w] < dispatched /\ record[cur[w]] = "none"
    /\ \A w \in Workers, k \in Places :
            Line[k].tag \in Outcomes => Line[k].i # cur[w]
    /\ \A v, w \in Workers : cur[v] = cur[w] /\ cur[v] \in Items => v = w

\* An item's "Checking" message comes before its outcome, all the way.
HandsOpened ==
    \A w \in Workers : pc[w] \in Checked =>
        cur[w] <= queuePos \/ \E j \in Places : Opens(Line[j], cur[w])
LineOpened ==
    \A k \in Places : Line[k].tag \in Outcomes =>
        \/ Line[k].i <= queuePos
        \/ \E j \in Places : j < k /\ Opens(Line[j], Line[k].i)
RecordsOpened == \A i \in Items : record[i] # "none" => i <= queuePos
Opened == HandsOpened /\ LineOpened /\ RecordsOpened

\* After every message there is an outcome to come, and the same for every row
\* that shows an item.
Followed ==
    \A k \in Places : Line[k].tag \notin Outcomes =>
        \/ cur[Line[k].w] = Line[k].i
        \/ \E j \in Places : j > k /\ Ends(Line[j], Line[k].w, Line[k].i)
RowsOwed ==
    \A w \in Workers : rows[w] # IdleRow =>
        /\ rows[w].item \in Items
        /\ \/ cur[w] = rows[w].item
           \/ \E j \in Places : Ends(Line[j], w, rows[w].item)

ViewInv == Owing /\ Opened /\ Followed /\ RowsOwed

LEMMA InitView == Init /\ ~BulkStater => ViewInv
<1> SUFFICES ASSUME Init, ~BulkStater PROVE ViewInv
  OBVIOUS
<1>1. Line = <<>> /\ Places = {}
  BY DEF Init, Line, Places, Pumps, Waiting
<1>2. Owing
  BY <1>1 DEF Init, Owing, NoItem, Items
<1>3. Opened /\ Followed
  BY <1>1 DEF Init, Opened, HandsOpened, LineOpened, RecordsOpened, Followed, Checked
<1>4. RowsOwed
  BY <1>1 DEF Init, RowsOwed, IdleRow
<1>5. QED
  BY <1>2, <1>3, <1>4 DEF ViewInv

LEMMA NextOwing ==
    ASSUME Inv1, Inv1', Solo, Solo', ~BulkStater, Tracked, HasItem, Owing, Moves
    PROVE  Owing'
<1>0. /\ pc \in [Workers -> Holding \cup {"off", "take", "exited"}]
      /\ cur \in [Workers -> Items \cup {NoItem}]
      /\ record \in [Items -> Outcomes \cup {"none"}]
  BY DEF Inv1, TypeOK, PoolOK, TallyOK
<1>1. CASE Resting
  <2>1. Places' = Places /\ Line' = Line
    BY <1>1 DEF Resting, Places
  <2>2. QED
    BY <1>0, <1>1, <2>1 DEF Resting, SameView, Owing
<1>2. ASSUME NEW w \in Workers, Takes(w) PROVE Owing'
  <2>1. Places' = Places /\ Line' = Line /\ record' = record
    BY <1>2 DEF Takes, Places, SameView
  <2>2. /\ cur'[w] = dispatched /\ dispatched' = dispatched + 1
        /\ \A v \in Workers : v # w => cur'[v] = cur[v]
        /\ pc'[w] = "gate" /\ \A v \in Workers : v # w => pc'[v] = pc[v]
    BY <1>0, <1>2 DEF Takes
  <2>3. dispatched \in Items /\ record[dispatched] = "none"
    BY <1>2 DEF Takes, Tracked, TakenFirst, Items
  <2>4. \A k \in Places : Line[k].tag \in Outcomes => Line[k].i # dispatched
    <3> SUFFICES ASSUME NEW k \in Places, Line[k].tag \in Outcomes,
                        Line[k].i = dispatched
                 PROVE  FALSE
      OBVIOUS
    <3>1. Carries(Line[k], dispatched)
      BY DEF Carries
    <3>2. dispatched < dispatched
      BY <2>3, <3>1, LineTracked
    <3>3. QED
      BY <2>3, <3>2 DEF Items
  <2>5. \A v \in Workers : cur[v] # dispatched
    BY <2>3 DEF Owing, Items
  <2>6. \A v \in Workers : pc'[v] \in {"off", "take"} => cur'[v] = NoItem
    BY <2>2 DEF Owing
  <2>7. \A v \in Workers : cur'[v] \in Items =>
            cur'[v] < dispatched' /\ record'[cur'[v]] = "none"
    <3> SUFFICES ASSUME NEW v \in Workers, cur'[v] \in Items
                 PROVE  cur'[v] < dispatched' /\ record'[cur'[v]] = "none"
      OBVIOUS
    <3>1. CASE v = w
      <4>1. dispatched < dispatched + 1
        BY <2>3 DEF Items
      <4>2. QED
        BY <2>1, <2>2, <2>3, <3>1, <4>1
    <3>2. CASE v # w
      <4>1. cur'[v] = cur[v] /\ cur[v] < dispatched /\ record[cur[v]] = "none"
        BY <2>2, <3>2 DEF Owing
      <4>2. QED
        BY <2>1, <2>2, <2>3, <4>1 DEF Items
    <3>3. QED
      BY <3>1, <3>2
  <2>8. \A v \in Workers, k \in Places' : Line'[k].tag \in Outcomes => Line'[k].i # cur'[v]
    BY <2>1, <2>2, <2>4 DEF Owing
  <2>9. \A u, v \in Workers : cur'[u] = cur'[v] /\ cur'[u] \in Items => u = v
    BY <2>2, <2>5 DEF Owing
  <2>10. QED
    BY <2>6, <2>7, <2>8, <2>9 DEF Owing
<1>3. ASSUME NEW w \in Workers, Shifts(w) PROVE Owing'
  <2>1. Places' = Places /\ Line' = Line /\ UNCHANGED <<record, cur, dispatched>>
    BY <1>3 DEF Shifts, Places, SameView
  <2>2. \A v \in Workers : pc'[v] \in {"off", "take"} => pc[v] \in {"off", "take"}
    BY <1>0, <1>3 DEF Shifts
  <2>3. QED
    BY <2>1, <2>2 DEF Owing
<1>4. ASSUME NEW w \in Workers, NEW m \in Carried, Says(w, m) PROVE Owing'
  <2>1. /\ UNCHANGED <<record, cur, dispatched>>
        /\ \A k \in Places' : Line'[k].tag \in Outcomes =>
                k \in Places /\ Line'[k] = Line[k]
    BY <1>4 DEF Says, Grown, SameView
  <2>2. \A v \in Workers : pc'[v] \in {"off", "take"} => pc[v] \in {"off", "take"}
    BY <1>0, <1>4 DEF Says, Checked
  <2>3. QED
    BY <2>1, <2>2 DEF Owing
<1>5. ASSUME NEW w \in Workers, NEW m \in Carried, Reports(w, m) PROVE Owing'
  <2>1. /\ UNCHANGED <<record, dispatched>>
        /\ Places' = Places \cup {Len(Line) + 1}
        /\ \A k \in Places : Line'[k] = Line[k]
        /\ Line'[Len(Line) + 1] = m
        /\ m.i = cur[w]
    BY <1>5 DEF Reports, Grown, SameView
  <2>2. /\ cur'[w] = NoItem /\ pc'[w] = "take"
        /\ \A v \in Workers : v # w => cur'[v] = cur[v] /\ pc'[v] = pc[v]
    BY <1>0, <1>5 DEF Reports
  <2>3. cur[w] \in Items /\ NoItem \notin Items
    BY <1>5, CarriedIs DEF Reports, Items, NoItem
  <2>4. \A v \in Workers : v # w => cur[v] # cur[w]
    BY <2>3 DEF Owing
  <2>5. \A k \in Places : Line[k].tag \in Outcomes => Line[k].i # NoItem
    BY <2>3, LineType, CarriedIs
  <2>6. \A v \in Workers, k \in Places' :
            Line'[k].tag \in Outcomes => Line'[k].i # cur'[v]
    <3> SUFFICES ASSUME NEW v \in Workers, NEW k \in Places',
                        Line'[k].tag \in Outcomes
                 PROVE  Line'[k].i # cur'[v]
      OBVIOUS
    <3>1. CASE k \in Places
      <4>1. Line'[k] = Line[k] /\ Line[k].i # cur[v] /\ Line[k].i # NoItem
        BY <2>1, <2>5, <3>1 DEF Owing
      <4>2. QED
        BY <2>2, <4>1
    <3>2. CASE k \notin Places
      <4>1. Line'[k].i = cur[w]
        BY <2>1, <3>2
      <4>2. cur'[v] # cur[w]
        BY <2>2, <2>3, <2>4
      <4>3. QED
        BY <4>1, <4>2
    <3>3. QED
      BY <3>1, <3>2
  <2>7. \A v \in Workers : cur'[v] \in Items => v # w
    BY <2>2, <2>3
  <2>8. \A v \in Workers : pc'[v] \in {"off", "take"} => cur'[v] = NoItem
    BY <2>2 DEF Owing
  <2>9. \A v \in Workers : cur'[v] \in Items =>
            cur'[v] < dispatched' /\ record'[cur'[v]] = "none"
    BY <2>1, <2>2, <2>7 DEF Owing
  <2>10. \A u, v \in Workers : cur'[u] = cur'[v] /\ cur'[u] \in Items => u = v
    BY <2>2, <2>7 DEF Owing
  <2>11. QED
    BY <2>6, <2>8, <2>9, <2>10 DEF Owing
<1>6. ASSUME NEW m \in Carried, Shows(m) PROVE Owing'
  <2>1. /\ UNCHANGED <<record, cur, dispatched, pc>>
        /\ \A k \in Places' : k + 1 \in Places /\ Line'[k] = Line[k + 1]
    BY <1>6 DEF Shows, Popped
  <2>2. QED
    BY <2>1 DEF Owing
<1>7. ASSUME NEW m \in Carried, Settles(m) PROVE Owing'
  <2>1. /\ UNCHANGED <<cur, dispatched, pc>>
        /\ \A k \in Places' : k + 1 \in Places /\ Line'[k] = Line[k + 1]
        /\ 1 \in Places /\ Line[1] = m
    BY <1>7 DEF Settles, Popped
  <2>2. record' = IF m.tag \in Outcomes
                  THEN [record EXCEPT ![m.i] = m.tag] ELSE record
    BY <1>7 DEF Settles
  <2>3. \A w \in Workers : cur[w] \in Items =>
            record'[cur[w]] = record[cur[w]]
    BY <1>0, <2>1, <2>2 DEF Owing
  <2>4. QED
    BY <2>1, <2>3 DEF Owing
<1>8. QED
  BY <1>1, <1>2, <1>3, <1>4, <1>5, <1>6, <1>7 DEF Moves

LEMMA NextOpened ==
    ASSUME Inv1, Inv1', Solo, Solo', ~BulkStater, Owing, Opened, Moves
    PROVE  Opened'
<1>0. /\ queuePos \in Nat /\ HasItem
      /\ pc \in [Workers -> Holding \cup {"off", "take", "exited"}]
      /\ cur \in [Workers -> Items \cup {NoItem}]
      /\ record \in [Items -> Outcomes \cup {"none"}]
  BY DEF Inv1, TypeOK, PoolOK, TallyOK, ViewOK
<1>1. CASE Resting
  <2>1. Places' = Places /\ Line' = Line
    BY <1>1 DEF Resting, Places
  <2>2. QED
    BY <1>0, <1>1, <2>1 DEF Resting, SameView, Opened, HandsOpened, LineOpened,
       RecordsOpened, Checked
<1>2. ASSUME NEW w \in Workers, Takes(w) \/ Shifts(w) PROVE Opened'
  <2>1. Places' = Places /\ Line' = Line /\ UNCHANGED <<queuePos, record>>
    BY <1>2 DEF Takes, Shifts, Places, SameView
  <2>2. \A v \in Workers : pc'[v] \in Checked => pc[v] \in Checked /\ cur'[v] = cur[v]
    BY <1>0, <1>2 DEF Takes, Shifts, Checked
  <2>3. QED
    BY <2>1, <2>2 DEF Opened, HandsOpened, LineOpened, RecordsOpened
<1>3. ASSUME NEW w \in Workers, NEW m \in Carried, Says(w, m) PROVE Opened'
  <2>1. /\ UNCHANGED <<queuePos, record, cur>>
        /\ Places' = Places \cup {Len(Line) + 1}
        /\ \A k \in Places : Line'[k] = Line[k]
        /\ Line'[Len(Line) + 1] = m
    BY <1>3 DEF Says, Grown, SameView
  <2>2. \A v \in Workers : v # w => pc'[v] = pc[v]
    BY <1>0, <1>3 DEF Says
  <2>3. m.tag \notin Outcomes /\ (pc[w] \in Checked \/ Opens(m, cur[w]))
    BY <1>3 DEF Says, Opens
  <2>4. HandsOpened'
    BY <2>1, <2>2, <2>3 DEF Opened, HandsOpened
  <2>5. LineOpened'
    BY <2>1, <2>3 DEF Opened, LineOpened
  <2>6. QED
    BY <2>1, <2>4, <2>5 DEF Opened, RecordsOpened
<1>4. ASSUME NEW w \in Workers, NEW m \in Carried, Reports(w, m) PROVE Opened'
  <2>1. /\ UNCHANGED <<queuePos, record>>
        /\ Places' = Places \cup {Len(Line) + 1}
        /\ \A k \in Places : Line'[k] = Line[k]
        /\ Line'[Len(Line) + 1] = m
        /\ m.i = cur[w] /\ pc[w] \in Checked
    BY <1>4 DEF Reports, Grown, SameView, Checked
  <2>2. /\ \A v \in Workers : v # w => pc'[v] = pc[v] /\ cur'[v] = cur[v]
        /\ pc'[w] \notin Checked
    BY <1>0, <1>4 DEF Reports, Checked
  <2>3. \A j \in Places : j < Len(Line) + 1
    BY LineType DEF Places
  <2>4. HandsOpened'
    BY <2>1, <2>2 DEF Opened, HandsOpened
  <2>5. ASSUME NEW k \in Places', Line'[k].tag \in Outcomes
        PROVE  \/ Line'[k].i <= queuePos
               \/ \E j \in Places' : j < k /\ Opens(Line'[j], Line'[k].i)
    <3>1. CASE k \in Places
      <4>1. Line'[k] = Line[k] /\ Places \subseteq Places'
        BY <2>1, <3>1
      <4>2. QED
        BY <2>1, <2>5, <3>1, <4>1 DEF Opened, LineOpened
    <3>2. CASE k \notin Places
      <4>1. k = Len(Line) + 1 /\ Line'[k] = m /\ Places \subseteq Places'
        BY <2>1, <3>2
      <4>2. cur[w] <= queuePos \/ \E j \in Places : Opens(Line[j], cur[w])
        BY <2>1 DEF Opened, HandsOpened
      <4>3. QED
        BY <2>1, <2>3, <4>1, <4>2
    <3>3. QED
      BY <3>1, <3>2
  <2>6. LineOpened'
    BY <2>1, <2>5 DEF LineOpened
  <2>7. QED
    BY <2>1, <2>4, <2>6 DEF Opened, RecordsOpened
<1>5. ASSUME NEW m \in Carried, Popped(m), UNCHANGED <<pc, cur>>,
             queuePos' \in Nat, queuePos <= queuePos',
             m.tag = "Checking" => m.i <= queuePos'
      PROVE  HandsOpened' /\ LineOpened'
  <2>1. /\ 1 \in Places /\ Line[1] = m
        /\ \A k \in Places' : k + 1 \in Places /\ Line'[k] = Line[k + 1]
        /\ \A k \in Places : k # 1 => k - 1 \in Places'
        /\ Places \subseteq Int /\ Places' \subseteq Int
    <3>1. Places \subseteq Int /\ Places' \subseteq Int
      BY DEF Places
    <3>2. QED
      BY <1>5, <3>1 DEF Popped
  <2>2. \A k \in Places : Line[k].i \in Items
    BY LineType, CarriedIs
  <2>3. \A i \in Items, j \in Places : Opens(Line[j], i) =>
            i <= queuePos' \/ (j # 1 /\ j - 1 \in Places' /\ Opens(Line'[j - 1], i))
    BY <1>5, <2>1 DEF Opens
  <2>4. HandsOpened'
    <3> SUFFICES ASSUME NEW w \in Workers, pc[w] \in Checked
                 PROVE  cur[w] <= queuePos' \/ \E j \in Places' : Opens(Line'[j], cur[w])
      BY <1>5 DEF HandsOpened
    <3>1. cur[w] \in Items
      BY <1>0 DEF HasItem, Checked, Holding
    <3>2. CASE cur[w] <= queuePos
      BY <1>0, <1>5, <3>1, <3>2 DEF Items
    <3>3. CASE \E j \in Places : Opens(Line[j], cur[w])
      BY <2>3, <3>1, <3>3
    <3>4. QED
      BY <3>2, <3>3 DEF Opened, HandsOpened
  <2>5. LineOpened'
    <3> SUFFICES ASSUME NEW k \in Places', Line'[k].tag \in Outcomes
                 PROVE  \/ Line'[k].i <= queuePos'
                        \/ \E j \in Places' : j < k /\ Opens(Line'[j], Line'[k].i)
      BY DEF LineOpened
    <3>1. k + 1 \in Places /\ Line'[k] = Line[k + 1] /\ Line[k + 1].i \in Items
      BY <2>1, <2>2
    <3>2. CASE Line[k + 1].i <= queuePos
      BY <1>0, <1>5, <3>1, <3>2 DEF Items
    <3>3. CASE \E j \in Places : j < k + 1 /\ Opens(Line[j], Line[k + 1].i)
      <4>1. PICK j \in Places : j < k + 1 /\ Opens(Line[j], Line[k + 1].i)
        BY <3>3
      <4>2. CASE j # 1 /\ j - 1 \in Places' /\ Opens(Line'[j - 1], Line[k + 1].i)
        <5>1. j - 1 < k
          BY <2>1, <4>1
        <5>2. QED
          BY <3>1, <4>2, <5>1
      <4>3. QED
        BY <2>3, <3>1, <4>1, <4>2
    <3>4. QED
      BY <3>1, <3>2, <3>3 DEF Opened, LineOpened
  <2>6. QED
    BY <2>4, <2>5
<1>6. ASSUME NEW m \in Carried, Shows(m) PROVE Opened'
  <2>1. Popped(m) /\ UNCHANGED <<pc, cur, queuePos, record>> /\ m.tag # "Checking"
    BY <1>6 DEF Shows
  <2>2. QED
    BY <1>0, <1>5, <2>1 DEF Opened, RecordsOpened
<1>7. ASSUME NEW m \in Carried, Settles(m) PROVE Opened'
  <2>1. Popped(m) /\ UNCHANGED <<pc, cur>> /\ queuePos' = QueuePosAfter(m)
    BY <1>7 DEF Settles
  <2>2. m.i \in Items
    BY CarriedIs
  <2>3. /\ queuePos' \in Nat /\ queuePos <= queuePos'
        /\ m.tag = "Checking" => m.i <= queuePos'
    BY <1>0, <2>1, <2>2 DEF QueuePosAfter, Items
  <2>4. RecordsOpened'
    <3>1. 1 \in Places /\ Line[1] = m
      BY <2>1 DEF Popped
    <3>2. m.tag \in Outcomes => m.i <= queuePos
      BY <3>1, <2>2 DEF Opened, LineOpened, Places
    <3>3. \A i \in Items : record'[i] # "none" =>
                record[i] # "none" \/ (m.tag \in Outcomes /\ i = m.i)
      BY <1>0, <1>7 DEF Settles
    <3>4. QED
      BY <1>0, <2>2, <2>3, <3>2, <3>3 DEF Opened, RecordsOpened, Items
  <2>5. QED
    BY <1>5, <2>1, <2>3, <2>4 DEF Opened
<1>8. QED
  BY <1>1, <1>2, <1>3, <1>4, <1>6, <1>7 DEF Moves

LEMMA NextFollowed ==
    ASSUME Inv1, Inv1', Solo, Solo', ~BulkStater, Owing, Followed, Moves
    PROVE  Followed'
<1>0. cur \in [Workers -> Items \cup {NoItem}]
  BY DEF Inv1, TypeOK, PoolOK
<1>1. CASE Resting
  <2>1. Places' = Places /\ Line' = Line /\ cur' = cur
    BY <1>1 DEF Resting, Places
  <2>2. QED
    BY <2>1 DEF Followed
<1>2. ASSUME NEW w \in Workers, Shifts(w) PROVE Followed'
  <2>1. Places' = Places /\ Line' = Line /\ cur' = cur
    BY <1>2 DEF Shifts, Places
  <2>2. QED
    BY <2>1 DEF Followed
<1>3. ASSUME NEW w \in Workers, Takes(w) PROVE Followed'
  <2>1. Places' = Places /\ Line' = Line
    BY <1>3 DEF Takes, Places
  <2>2. \A v \in Workers : cur[v] \in Items => cur'[v] = cur[v]
    BY <1>0, <1>3 DEF Takes, Owing, NoItem, Items
  <2>3. \A k \in Places : Line[k].w \in Workers /\ Line[k].i \in Items
    BY LineType, CarriedIs
  <2>4. QED
    BY <2>1, <2>2, <2>3 DEF Followed
<1>4. ASSUME NEW w \in Workers, NEW m \in Carried, Says(w, m) PROVE Followed'
  <2>1. /\ cur' = cur
        /\ Places' = Places \cup {Len(Line) + 1}
        /\ \A k \in Places : Line'[k] = Line[k]
        /\ Line'[Len(Line) + 1] = m
        /\ m.w = w /\ m.i = cur[w]
    BY <1>4 DEF Says, Grown
  <2>2. ASSUME NEW k \in Places', Line'[k].tag \notin Outcomes
        PROVE  \/ cur'[Line'[k].w] = Line'[k].i
               \/ \E j \in Places' : j > k /\ Ends(Line'[j], Line'[k].w, Line'[k].i)
    <3>1. CASE k \in Places
      BY <2>1, <2>2, <3>1 DEF Followed
    <3>2. CASE k \notin Places
      BY <2>1, <3>2
    <3>3. QED
      BY <3>1, <3>2
  <2>3. QED
    BY <2>2 DEF Followed
<1>5. ASSUME NEW w \in Workers, NEW m \in Carried, Reports(w, m) PROVE Followed'
  <2>1. /\ Places' = Places \cup {Len(Line) + 1}
        /\ \A k \in Places : Line'[k] = Line[k]
        /\ Line'[Len(Line) + 1] = m
        /\ m.tag \in Outcomes /\ m.w = w /\ m.i = cur[w]
        /\ \A v \in Workers : v # w => cur'[v] = cur[v]
    BY <1>0, <1>5 DEF Reports, Grown
  <2>2. \A k \in Places : /\ k < Len(Line) + 1
                          /\ Line[k].w \in Workers /\ Line[k].i \in Items
    BY LineType, CarriedIs DEF Places
  <2>3. ASSUME NEW k \in Places', Line'[k].tag \notin Outcomes
        PROVE  \/ cur'[Line'[k].w] = Line'[k].i
               \/ \E j \in Places' : j > k /\ Ends(Line'[j], Line'[k].w, Line'[k].i)
    <3>1. k \in Places /\ Line'[k] = Line[k]
      BY <2>1, <2>3
    <3>2. CASE cur[Line[k].w] = Line[k].i
      <4>1. CASE Line[k].w = w
        <5>1. Ends(m, Line[k].w, Line[k].i)
          BY <2>1, <3>2, <4>1 DEF Ends
        <5>2. Len(Line) + 1 \in Places' /\ Len(Line) + 1 > k
          BY <2>1, <2>2, <3>1 DEF Places
        <5>3. QED
          BY <2>1, <3>1, <5>1, <5>2
      <4>2. CASE Line[k].w # w
        BY <2>1, <2>2, <3>1, <3>2, <4>2
      <4>3. QED
        BY <4>1, <4>2
    <3>3. CASE \E j \in Places : j > k /\ Ends(Line[j], Line[k].w, Line[k].i)
      BY <2>1, <3>1, <3>3
    <3>4. QED
      BY <2>3, <3>1, <3>2, <3>3 DEF Followed
  <2>4. QED
    BY <2>3 DEF Followed
<1>6. ASSUME NEW m \in Carried, Popped(m), cur' = cur PROVE Followed'
  <2>1. /\ 1 \in Places /\ Line[1] = m
        /\ \A k \in Places' : k + 1 \in Places /\ Line'[k] = Line[k + 1]
        /\ \A k \in Places : k # 1 => k - 1 \in Places'
    BY <1>6 DEF Popped
  <2>2. /\ Places \subseteq Int /\ Places' \subseteq Int
        /\ \A k \in Places' : k >= 1
    BY DEF Places
  <2>3. ASSUME NEW k \in Places', Line'[k].tag \notin Outcomes
        PROVE  \/ cur'[Line'[k].w] = Line'[k].i
               \/ \E j \in Places' : j > k /\ Ends(Line'[j], Line'[k].w, Line'[k].i)
    <3>1. k + 1 \in Places /\ Line'[k] = Line[k + 1]
      BY <2>1
    <3>2. CASE \E j \in Places : j > k + 1 /\ Ends(Line[j], Line[k + 1].w, Line[k + 1].i)
      <4>1. PICK j \in Places : j > k + 1 /\ Ends(Line[j], Line[k + 1].w, Line[k + 1].i)
        BY <3>2
      <4>2. j - 1 \in Places' /\ j - 1 > k /\ (j - 1) + 1 = j
        BY <2>1, <2>2, <4>1
      <4>3. Line'[j - 1] = Line[j]
        BY <2>1, <4>2
      <4>4. QED
        BY <3>1, <4>1, <4>2, <4>3
    <3>3. CASE cur[Line[k + 1].w] = Line[k + 1].i
      BY <1>6, <3>1, <3>3
    <3>4. QED
      BY <2>3, <3>1, <3>2, <3>3 DEF Followed
  <2>4. QED
    BY <2>3 DEF Followed
<1>7. QED
  BY <1>1, <1>2, <1>3, <1>4, <1>5, <1>6 DEF Moves, Shows, Settles

\* A row, before and after a message of its worker.
LEMMA RowOf ==
    ASSUME Inv1, Solo, ~BulkStater, RowsOwed, NEW m \in Carried,
           Shows(m) \/ Settles(m), NEW w \in Workers
    PROVE  /\ w # m.w => rows'[w] = rows[w]
           /\ (w = m.w /\ rows'[w] # IdleRow) =>
                    rows'[w].item = m.i /\ m.tag \notin Outcomes
<1>0. rows \in [Workers -> [status : StatusTags \cup {"Idle"},
                              item : Items \cup {NoItem}, up : Nat]]
  BY DEF Inv1, TypeOK, ViewOK
<1>1. m.w \in Workers
  BY CarriedIs
<1>2. CASE Shows(m)
  <2>1. rows' = [rows EXCEPT ![m.w].item = m.i, ![m.w].up = m.up]
    BY <1>2 DEF Shows
  <2>2. m.tag \notin Outcomes
    BY <1>2 DEF Shows, Outcomes
  <2>3. w = m.w => rows'[w].item = m.i
    BY <1>0, <1>1, <2>1
  <2>4. w # m.w => rows'[w] = rows[w]
    BY <1>0, <2>1
  <2>5. QED
    BY <2>2, <2>3, <2>4
<1>3. CASE Settles(m)
  <2>1. rows' = [rows EXCEPT ![m.w] = RowAfter(rows[m.w], m)]
    BY <1>3 DEF Settles
  <2>2. w = m.w => rows'[w] = RowAfter(rows[m.w], m)
    BY <1>0, <1>1, <2>1
  <2>3. QED
    BY <2>1, <2>2 DEF RowAfter
<1>4. QED
  BY <1>2, <1>3

LEMMA NextRows ==
    ASSUME Inv1, Inv1', Solo, Solo', ~BulkStater, Owing, Followed, RowsOwed, Moves
    PROVE  RowsOwed'
<1>0. cur \in [Workers -> Items \cup {NoItem}]
  BY DEF Inv1, TypeOK, PoolOK
<1>1. CASE Resting \/ \E w \in Workers : Shifts(w)
  <2>1. Places' = Places /\ Line' = Line /\ cur' = cur /\ rows' = rows
    BY <1>1 DEF Resting, Shifts, Places, SameView
  <2>2. QED
    BY <2>1 DEF RowsOwed
<1>2. ASSUME NEW w \in Workers, Takes(w) PROVE RowsOwed'
  <2>1. Places' = Places /\ Line' = Line /\ rows' = rows
    BY <1>2 DEF Takes, Places, SameView
  <2>2. \A v \in Workers : cur[v] \in Items => cur'[v] = cur[v]
    BY <1>0, <1>2 DEF Takes, Owing, NoItem, Items
  <2>3. QED
    BY <2>1, <2>2 DEF RowsOwed
<1>3. ASSUME NEW w \in Workers, NEW m \in Carried, Says(w, m) PROVE RowsOwed'
  <2>1. /\ cur' = cur /\ rows' = rows
        /\ Places \subseteq Places' /\ \A k \in Places : Line'[k] = Line[k]
    BY <1>3 DEF Says, Grown, SameView
  <2>2. QED
    BY <2>1 DEF RowsOwed
<1>4. ASSUME NEW w \in Workers, NEW m \in Carried, Reports(w, m) PROVE RowsOwed'
  <2>1. /\ rows' = rows
        /\ Places \subseteq Places' /\ \A k \in Places : Line'[k] = Line[k]
        /\ Len(Line) + 1 \in Places' /\ Line'[Len(Line) + 1] = m
        /\ Ends(m, w, cur[w])
        /\ \A v \in Workers : v # w => cur'[v] = cur[v]
    BY <1>0, <1>4 DEF Reports, Grown, SameView, Ends
  <2>2. ASSUME NEW v \in Workers, rows[v] # IdleRow
        PROVE  /\ rows[v].item \in Items
               /\ \/ cur'[v] = rows[v].item
                  \/ \E j \in Places' : Ends(Line'[j], v, rows[v].item)
    <3>1. CASE v = w /\ cur[w] = rows[w].item
      BY <2>1, <2>2, <3>1 DEF RowsOwed
    <3>2. CASE v # w /\ cur[v] = rows[v].item
      BY <2>1, <2>2, <3>2 DEF RowsOwed
    <3>3. CASE cur[v] # rows[v].item
      BY <2>1, <2>2, <3>3 DEF RowsOwed
    <3>4. QED
      BY <3>1, <3>2, <3>3
  <2>3. QED
    BY <2>1, <2>2 DEF RowsOwed
<1>5. ASSUME NEW m \in Carried, Shows(m) \/ Settles(m) PROVE RowsOwed'
  <2>1. /\ 1 \in Places /\ Line[1] = m /\ cur' = cur
        /\ \A k \in Places' : k + 1 \in Places /\ Line'[k] = Line[k + 1]
        /\ \A k \in Places : k # 1 => k - 1 \in Places'
        /\ Places \subseteq Int
    BY <1>5 DEF Shows, Settles, Popped, Places
  <2>2. ASSUME NEW w \in Workers, NEW i \in Items, NEW j \in Places, j # 1,
               Ends(Line[j], w, i)
        PROVE  \E k \in Places' : Ends(Line'[k], w, i)
    <3>1. j - 1 \in Places' /\ (j - 1) + 1 = j
      BY <2>1, <2>2
    <3>2. Line'[j - 1] = Line[j]
      BY <2>1, <3>1
    <3>3. QED
      BY <2>2, <3>1, <3>2
  <2>3. ASSUME NEW w \in Workers, rows'[w] # IdleRow
        PROVE  /\ rows'[w].item \in Items
               /\ \/ cur[w] = rows'[w].item
                  \/ \E k \in Places' : Ends(Line'[k], w, rows'[w].item)
    <3>1. CASE w # m.w
      <4>1. rows'[w] = rows[w]
        BY <1>5, <3>1, RowOf
      <4>2. ~Ends(m, w, rows[w].item)
        BY <3>1 DEF Ends
      <4>3. QED
        BY <2>1, <2>2, <2>3, <4>1, <4>2 DEF RowsOwed
    <3>2. CASE w = m.w
      <4>1. rows'[w].item = m.i /\ m.tag \notin Outcomes /\ m.i \in Items
        BY <1>5, <2>3, <3>2, RowOf, CarriedIs
      <4>2. cur[w] = m.i \/ \E j \in Places : j > 1 /\ Ends(Line[j], w, m.i)
        BY <2>1, <3>2, <4>1 DEF Followed
      <4>3. QED
        BY <2>2, <4>1, <4>2
    <3>3. QED
      BY <3>1, <3>2
  <2>4. QED
    BY <2>1, <2>3 DEF RowsOwed
<1>6. QED
  BY <1>1, <1>2, <1>3, <1>4, <1>5 DEF Moves

LEMMA ViewAlways == Spec => []((Solo /\ (~BulkStater => ViewInv)))
<1> DEFINE V == ~BulkStater => ViewInv
<1>1. Init => Solo /\ V
  BY InitSolo, InitView
<1>2. IInv /\ IInv' /\ Solo /\ V /\ [Next]_vars => Solo' /\ V'
  <2> SUFFICES ASSUME IInv, IInv', Solo, V, [Next]_vars PROVE Solo' /\ V'
    OBVIOUS
  <2>1. Inv1 /\ Inv1' /\ Tracked /\ HasItem
    BY DEF IInv, Inv1
  <2>2. Solo'
    BY <2>1, NextSolo
  <2>3. ASSUME ~BulkStater PROVE ViewInv'
    <3>1. Moves /\ ViewInv
      BY <2>1, <2>2, <2>3, NextMoves
    <3>2. QED
      BY <2>1, <2>2, <2>3, <3>1, NextOwing, NextOpened, NextFollowed, NextRows
         DEF ViewInv
  <2>4. QED
    BY <2>2, <2>3
<1>3. QED
  BY <1>1, <1>2, Inductive, PTL DEF Spec

\* With one consumer, an item's "Checking" message moves QueuePos before its
\* outcome is recorded, so the "up next" list never offers a reported item.
THEOREM QueueIsNew == Spec => []UpNextIsNew
<1>1. Solo /\ (~BulkStater => ViewInv) => UpNextIsNew
  BY DEF ViewInv, Opened, RecordsOpened, UpNextIsNew
<1>2. QED
  BY <1>1, ViewAlways, PTL

\* With one consumer, a run that reads Done left no message behind, no worker
\* with an item and no row that shows one: whoever was not recorded still owed
\* an outcome, and Done means that all are recorded.
THEOREM DoneIsQuiet == Spec => []QuietAtDone
<1>1. IInv /\ Solo /\ (~BulkStater => ViewInv) => QuietAtDone
  <2> SUFFICES ASSUME IInv, Solo, ViewInv, state = "Done", ~BulkStater
               PROVE  /\ msgChan = <<>>
                      /\ \A w \in Workers : pc[w] \notin Holding /\ rows[w] = IdleRow
    BY DEF QuietAtDone
  <2> USE DEF IInv, Inv1, TypeOK, PoolOK, RunOK
  <2>1. \A i \in Items : i < dispatched => record[i] # "none"
    BY PipelineAssumption DEF EndInv, DoneIsAll, AllRecorded, Items
  <2>2. \A w \in Workers : cur[w] \notin Items
    BY <2>1 DEF ViewInv, Owing
  <2>3. \A k \in Places : Line[k].tag \notin Outcomes
    <3> SUFFICES ASSUME NEW k \in Places, Line[k].tag \in Outcomes PROVE FALSE
      OBVIOUS
    <3>1. Line[k].i \in Items /\ Carries(Line[k], Line[k].i)
      BY LineType, CarriedIs DEF Carries
    <3>2. record[Line[k].i] = "none" /\ Line[k].i < dispatched
      BY <3>1, LineTracked
    <3>3. QED
      BY <2>1, <3>1, <3>2
  <2>4. Places = {}
    <3> SUFFICES ASSUME NEW k \in Places PROVE FALSE
      OBVIOUS
    <3>1. Line[k].w \in Workers /\ Line[k].i \in Items
      BY LineType, CarriedIs
    <3>2. QED
      BY <2>2, <2>3, <3>1 DEF ViewInv, Followed, Ends
  <2>5. msgChan = <<>>
    <3>1. Len(Line) = 0 /\ msgChan \in Seq(Messages)
      <4>1. Len(Line) \in Nat /\ 1 \notin 1 .. Len(Line)
        BY <2>4, LineType DEF Places
      <4>2. QED
        BY <4>1 DEF ChanOK
    <3>2. Line = msgChan \/ Line = <<pump["init"]>> \o msgChan
      BY DEF Line
    <3>3. PICK m : m = pump["init"]
      OBVIOUS
    <3>4. Line = <<m>> \o msgChan => Len(Line) = 1 + Len(msgChan)
      BY <3>1
    <3>5. QED
      BY <3>1, <3>2, <3>3, <3>4
  <2>6. QED
    BY <2>2, <2>4, <2>5 DEF ViewInv, RowsOwed, HasItem
<1>2. QED
  BY <1>1, Inductive, ViewAlways, PTL

-----------------------------------------------------------------------------
(* Sums over finite sets, as MapThenSumSet computes them: one element at a *)
(* time, in the order of CHOOSE.                                           *)

Any(s) == CHOOSE x \in s : TRUE
Adds(iter, f, S) ==
    iter = [s \in SUBSET S |-> IF s = {} THEN 0
                               ELSE f[Any(s)] + iter[s \ {Any(s)}]]
Sums(f, S)  == CHOOSE iter : Adds(iter, f, S)
Total(f, S) == Sums(f, S)[S]

\* What holds of a finite set whenever it holds of all smaller ones.
LEMMA SizeClimb ==
    ASSUME NEW D, IsFiniteSet(D), NEW Q,
           \A s \in SUBSET D :
                (\A t \in SUBSET D : Cardinality(t) < Cardinality(s) => t \in Q)
                    => s \in Q
    PROVE  \A s \in SUBSET D : s \in Q
<1> SUFFICES ASSUME (SUBSET D) \ Q # {} PROVE FALSE
  OBVIOUS
<1> DEFINE bad == (SUBSET D) \ Q
           sizes == {Cardinality(s) : s \in bad}
<1>1. \A s \in SUBSET D : Cardinality(s) \in Nat
  BY FS_Subset, FS_CardinalityType
<1>2. sizes \subseteq Nat /\ sizes # {}
  BY <1>1
<1> HIDE DEF sizes
<1>3. PICK n \in sizes : \A m \in sizes : ~ (<<m, n>> \in OpToRel(<, Nat))
  BY <1>2, NatLessThanWellFounded, WFMin
<1>4. \A m \in sizes : ~(m < n)
  <2> SUFFICES ASSUME NEW m \in sizes, m < n PROVE FALSE
    OBVIOUS
  <2>1. <<m, n>> \in OpToRel(<, Nat)
    BY <1>2 DEF OpToRel
  <2>2. QED
    BY <1>3, <2>1
<1>5. PICK s \in bad : Cardinality(s) = n
  BY DEF sizes
<1>6. \A t \in SUBSET D : Cardinality(t) < Cardinality(s) => t \in Q
  BY <1>4, <1>5 DEF sizes
<1>7. QED
  BY <1>5, <1>6

LEMMA Smaller ==
    ASSUME NEW s, IsFiniteSet(s), s # {}
    PROVE  /\ Any(s) \in s
           /\ Cardinality(s \ {Any(s)}) < Cardinality(s)
<1>1. Any(s) \in s
  BY DEF Any
<1>2. Cardinality(s \ {Any(s)}) = Cardinality(s) - 1 /\ Cardinality(s) \in Nat
  BY <1>1, FS_RemoveElement, FS_CardinalityType
<1>3. QED
  BY <1>1, <1>2

\* Two ways of adding up agree where both are defined.
LEMMA AddsSame ==
    ASSUME NEW D, IsFiniteSet(D), NEW f, NEW S, NEW T \in SUBSET D, T \subseteq S,
           NEW g, Adds(g, f, S), NEW h, Adds(h, f, T)
    PROVE  g[T] = h[T]
<1> DEFINE Q == {s \in SUBSET T : g[s] = h[s]}
<1>1. IsFiniteSet(T)
  BY FS_Subset
<1>2. ASSUME NEW s \in SUBSET T,
             \A t \in SUBSET T : Cardinality(t) < Cardinality(s) => t \in Q
      PROVE  s \in Q
  <2>1. CASE s = {}
    BY <2>1 DEF Adds
  <2>2. CASE s # {}
    <3>1. IsFiniteSet(s)
      BY <1>1, FS_Subset
    <3>2. Any(s) \in s /\ Cardinality(s \ {Any(s)}) < Cardinality(s)
      BY <2>2, <3>1, Smaller
    <3>3. g[s \ {Any(s)}] = h[s \ {Any(s)}]
      BY <1>2, <3>2
    <3>4. /\ g[s] = f[Any(s)] + g[s \ {Any(s)}]
          /\ h[s] = f[Any(s)] + h[s \ {Any(s)}]
      BY <2>2 DEF Adds
    <3>5. QED
      BY <3>3, <3>4
  <2>3. QED
    BY <2>1, <2>2
<1> HIDE DEF Q
<1>3. T \in Q
  BY <1>1, <1>2, SizeClimb
<1>4. QED
  BY <1>3 DEF Q

\* There is a sum, and it is a natural number.
LEMMA AddsExists ==
    ASSUME NEW D, IsFiniteSet(D), NEW f \in [D -> Nat]
    PROVE  \A S \in SUBSET D : Adds(Sums(f, S), f, S) /\ Total(f, S) \in Nat
<1> DEFINE Q == {S \in SUBSET D : Adds(Sums(f, S), f, S) /\ Total(f, S) \in Nat}
<1>1. ASSUME NEW S \in SUBSET D,
             \A t \in SUBSET D : Cardinality(t) < Cardinality(S) => t \in Q
      PROVE  S \in Q
  <2>1. IsFiniteSet(S)
    BY FS_Subset
  <2> DEFINE h == [s \in SUBSET S |->
                    IF s = {} THEN 0 ELSE f[Any(s)] + Total(f, s \ {Any(s)})]
  <2>2. ASSUME NEW s \in SUBSET S, s # {}
        PROVE  /\ Any(s) \in s
               /\ Cardinality(s \ {Any(s)}) < Cardinality(S)
               /\ s \ {Any(s)} \in Q
    <3>1. IsFiniteSet(s) /\ Cardinality(s) <= Cardinality(S)
      BY <2>1, FS_Subset
    <3>2. Any(s) \in s /\ Cardinality(s \ {Any(s)}) < Cardinality(s)
      BY <2>2, <3>1, Smaller
    <3>3. /\ Cardinality(s) \in Nat /\ Cardinality(S) \in Nat
          /\ Cardinality(s \ {Any(s)}) \in Nat
      BY <2>1, <3>1, FS_Subset, FS_CardinalityType
    <3>4. Cardinality(s \ {Any(s)}) < Cardinality(S)
      BY <3>1, <3>2, <3>3
    <3>5. QED
      BY <1>1, <3>2, <3>4
  <2>3. ASSUME NEW s \in SUBSET S, s # {}
        PROVE  h[s \ {Any(s)}] = Total(f, s \ {Any(s)})
    <3> DEFINE t == s \ {Any(s)}
    <3>1. t \in SUBSET S /\ Adds(Sums(f, t), f, t)
      BY <2>2, <2>3
    <3>2. CASE t = {}
      <4>1. Total(f, t) = 0
        BY <3>1, <3>2 DEF Total, Adds
      <4>2. QED
        BY <3>1, <3>2, <4>1
    <3>3. CASE t # {}
      <4> DEFINE u == t \ {Any(t)}
      <4>1. u \in SUBSET t /\ u \in SUBSET D /\ Adds(Sums(f, u), f, u)
        BY <2>2, <3>1, <3>3
      <4>2. Total(f, t) = f[Any(t)] + Sums(f, t)[u]
        BY <3>1, <3>3 DEF Total, Adds
      <4>3. Sums(f, t)[u] = Total(f, u)
        BY <3>1, <4>1, AddsSame DEF Total
      <4>4. h[t] = f[Any(t)] + Total(f, u)
        BY <3>1, <3>3
      <4>5. QED
        BY <4>2, <4>3, <4>4
    <3>4. QED
      BY <3>2, <3>3
  <2>4. \A s \in SUBSET S : h[s] = IF s = {} THEN 0 ELSE f[Any(s)] + h[s \ {Any(s)}]
    BY <2>3
  <2>5. h[S] \in Nat
    <3>1. CASE S = {}
      BY <3>1
    <3>2. CASE S # {}
      <4>1. f[Any(S)] \in Nat /\ Total(f, S \ {Any(S)}) \in Nat
        BY <2>2, <3>2
      <4>2. QED
        BY <3>2, <4>1
    <3>3. QED
      BY <3>1, <3>2
  <2>6. h = [s \in SUBSET S |-> h[s]]
    OBVIOUS
  <2> HIDE DEF h
  <2>7. Adds(h, f, S)
    BY <2>4, <2>6 DEF Adds
  <2>8. Adds(Sums(f, S), f, S)
    BY <2>7 DEF Sums
  <2>9. Sums(f, S)[S] = h[S]
    BY <2>1, <2>7, <2>8, AddsSame
  <2>10. QED
    BY <2>5, <2>8, <2>9 DEF Total
<1> HIDE DEF Q
<1>2. \A S \in SUBSET D : S \in Q
  BY <1>1, SizeClimb
<1>3. QED
  BY <1>2 DEF Q

LEMMA TotalStep ==
    ASSUME NEW D, IsFiniteSet(D), NEW f \in [D -> Nat], NEW S \in SUBSET D
    PROVE  /\ Total(f, S) \in Nat /\ Total(f, {}) = 0
           /\ S # {} => /\ Any(S) \in S
                        /\ Total(f, S) = f[Any(S)] + Total(f, S \ {Any(S)})
<1>1. Total(f, S) \in Nat
  BY AddsExists
<1>2. Total(f, {}) = 0
  <2>1. Adds(Sums(f, {}), f, {})
    BY AddsExists
  <2>2. QED
    BY <2>1 DEF Adds, Total
<1>3. ASSUME S # {}
      PROVE  Any(S) \in S /\ Total(f, S) = f[Any(S)] + Total(f, S \ {Any(S)})
  <2> DEFINE t == S \ {Any(S)}
  <2>1. Adds(Sums(f, S), f, S) /\ Adds(Sums(f, t), f, t)
    BY AddsExists
  <2>2. Sums(f, S)[t] = Total(f, t)
    BY <2>1, AddsSame DEF Total
  <2>3. Sums(f, S)[S] = f[Any(S)] + Sums(f, S)[t]
    BY <1>3, <2>1 DEF Adds
  <2>4. QED
    BY <1>3, <2>2, <2>3 DEF Total, Any
<1>4. QED
  BY <1>1, <1>2, <1>3

\* One element more, whichever it is.
LEMMA TotalAdd ==
    ASSUME NEW D, IsFiniteSet(D), NEW f \in [D -> Nat], NEW x \in D,
           NEW S \in SUBSET D, x \notin S
    PROVE  Total(f, S \cup {x}) = Total(f, S) + f[x]
<1> DEFINE Holds(s, y) == Total(f, s \cup {y}) = Total(f, s) + f[y]
           Q == {s \in SUBSET D : \A y \in D : y \notin s => Holds(s, y)}
<1>1. ASSUME NEW s \in SUBSET D,
             \A t \in SUBSET D : Cardinality(t) < Cardinality(s) => t \in Q
      PROVE  s \in Q
  <2> SUFFICES ASSUME NEW y \in D, y \notin s PROVE Holds(s, y)
    OBVIOUS
  <2>0. PICK U : U = s \cup {y}
    OBVIOUS
  <2>1. U \in SUBSET D /\ U # {}
    BY <2>0
  <2>2. PICK z \in U : Total(f, U) = f[z] + Total(f, U \ {z})
    <3>1. Any(U) \in U /\ Total(f, U) = f[Any(U)] + Total(f, U \ {Any(U)})
      BY <2>1, TotalStep
    <3>2. QED
      BY <3>1
  <2>3. f[y] \in Nat /\ f[z] \in Nat /\ Total(f, s) \in Nat
    BY <2>1, <2>2, TotalStep
  <2>4. CASE z = y
    <3>1. U \ {z} = s
      BY <2>0, <2>4
    <3>2. Total(f, U) = f[y] + Total(f, s)
      BY <2>2, <2>4, <3>1
    <3>3. Total(f, U) = Total(f, s) + f[y]
      BY <2>3, <3>2
    <3>4. QED
      BY <2>0, <3>3
  <2>5. CASE z # y
    <3> DEFINE t == s \ {z}
    <3>1. z \in s /\ t \in SUBSET D /\ y \notin t /\ z \notin t
      BY <2>0, <2>2, <2>5
    <3>2. /\ U \ {z} = t \cup {y}
          /\ t \cup {z} = s
      BY <2>0, <2>5, <3>1
    <3>3. Cardinality(t) < Cardinality(s)
      <4>1. IsFiniteSet(s)
        BY FS_Subset
      <4>2. Cardinality(t) = Cardinality(s) - 1 /\ Cardinality(s) \in Nat
        BY <3>1, <4>1, FS_RemoveElement, FS_CardinalityType
      <4>3. QED
        BY <4>2
    <3>4. t \in Q
      BY <1>1, <3>1, <3>3
    <3> HIDE DEF t
    <3>5. Holds(t, y) /\ Holds(t, z)
      BY <3>1, <3>4
    <3>6. Total(f, t) \in Nat
      BY <3>1, TotalStep
    <3>7. Total(f, U) = f[z] + (Total(f, t) + f[y]) /\ Total(f, s) = Total(f, t) + f[z]
      BY <2>2, <3>2, <3>5
    <3>8. QED
      BY <2>0, <2>3, <3>6, <3>7
  <2>6. QED
    BY <2>4, <2>5
<1> HIDE DEF Q
<1>2. S \in Q
  BY <1>1, SizeClimb
<1>3. QED
  BY <1>2 DEF Q

\* The sum over two sets that have nothing in common.
LEMMA TotalUnion ==
    ASSUME NEW D, IsFiniteSet(D), NEW f \in [D -> Nat], NEW S \in SUBSET D,
           NEW T \in SUBSET D, S \cap T = {}
    PROVE  Total(f, S \cup T) = Total(f, S) + Total(f, T)
<1> DEFINE Q == {t \in SUBSET D :
                    S \cap t = {} => Total(f, S \cup t) = Total(f, S) + Total(f, t)}
<1>1. ASSUME NEW s \in SUBSET D,
             \A t \in SUBSET D : Cardinality(t) < Cardinality(s) => t \in Q
      PROVE  s \in Q
  <2> SUFFICES ASSUME S \cap s = {}
               PROVE  Total(f, S \cup s) = Total(f, S) + Total(f, s)
    OBVIOUS
  <2>1. Total(f, S) \in Nat /\ Total(f, {}) = 0
    BY TotalStep
  <2>2. CASE s = {}
    <3>1. S \cup s = S
      BY <2>2
    <3>2. QED
      BY <2>1, <2>2, <3>1
  <2>3. CASE s # {}
    <3>1. PICK x : x \in s
      BY <2>3
    <3>2. PICK t : t = s \ {x}
      OBVIOUS
    <3>3. /\ t \in SUBSET D /\ x \in D /\ x \notin t /\ x \notin S \cup t
          /\ S \cap t = {} /\ S \cup t \in SUBSET D
          /\ s = t \cup {x} /\ S \cup s = (S \cup t) \cup {x}
      BY <3>1, <3>2
    <3>4. t \in Q
      <4>1. IsFiniteSet(s)
        BY FS_Subset
      <4>2. Cardinality(t) = Cardinality(s) - 1 /\ Cardinality(s) \in Nat
        BY <3>1, <3>2, <4>1, FS_RemoveElement, FS_CardinalityType
      <4>3. QED
        BY <1>1, <3>3, <4>2
    <3>5. /\ Total(f, s) = Total(f, t) + f[x]
          /\ Total(f, S \cup s) = Total(f, S \cup t) + f[x]
      BY <3>3, TotalAdd
    <3>6. Total(f, S \cup t) = Total(f, S) + Total(f, t)
      BY <3>3, <3>4
    <3>7. f[x] \in Nat /\ Total(f, t) \in Nat
      BY <3>3, TotalStep
    <3>8. QED
      BY <2>1, <3>5, <3>6, <3>7
  <2>4. QED
    BY <2>2, <2>3
<1> HIDE DEF Q
<1>2. T \in Q
  BY <1>1, SizeClimb
<1>3. QED
  BY <1>2 DEF Q

-----------------------------------------------------------------------------
(* Layer 7: the byte counters and the figures made of them.                *)

RowBytes == [w \in Workers |-> IF rows[w].status = "Uploading" THEN rows[w].up
                                                              ELSE 0]
CountedBytes ==
    /\ completedBytes = Total(Size, Settled("Done"))
    /\ skippedBytes   = Total(Size, Settled("Skipped"))

\* The model's sums are these.
LEMMA BytesTotal == ASSUME NEW S PROVE Bytes(S) = Total(Size, S)
BY DEF Bytes, MapThenSumSet, MapThenFoldSet, Total, Sums, Adds, Any

LEMMA LiveTotal == LiveTransferredBytes = completedBytes + Total(RowBytes, Workers)
BY DEF LiveTransferredBytes, MapThenSumSet, MapThenFoldSet, Total, Sums, Adds,
   Any, RowBytes

LEMMA InitBytes == Init => CountedBytes
<1> SUFFICES ASSUME Init PROVE CountedBytes
  OBVIOUS
<1>1. Settled("Done") = {} /\ Settled("Skipped") = {}
  BY DEF Init, Settled
<1>2. IsFiniteSet(Items) /\ Size \in [Items -> Nat]
  BY FiniteItems, PipelineAssumption
<1>3. Total(Size, {}) = 0
  BY <1>2, TotalStep
<1>4. QED
  BY <1>1, <1>3 DEF Init, CountedBytes

LEMMA NextBytes ==
    Inv1 /\ Tracked /\ CountedBytes /\ [Next]_vars => CountedBytes'
<1> SUFFICES ASSUME Inv1, Tracked, CountedBytes, [Next]_vars
             PROVE  CountedBytes'
  OBVIOUS
<1> USE DEF Inv1, TypeOK, TallyOK, ChanOK
<1>1. CASE UNCHANGED <<record, completedBytes, skippedBytes>>
  BY <1>1 DEF CountedBytes, Settled
<1>2. ASSUME NEW p \in Pumps, DeliverStatus(p) PROVE CountedBytes'
  <2>1. PICK m : m = pump[p]
    OBVIOUS
  <2>2. Tally(m) /\ m \in StatusMsgs /\ m.i \in Items
    BY <1>2, <2>1, StatusMsg DEF DeliverStatus, StatusMsgs
  <2>3. CASE m.tag \notin Outcomes
    BY <1>1, <2>2, <2>3 DEF Tally, Outcomes
  <2>4. CASE m.tag \in Outcomes
    <3>1. record[m.i] = "none"
      BY <2>1, <2>2, <2>4 DEF Tracked, RecordedLast, InPump, Carries
    <3>2. record' = [record EXCEPT ![m.i] = m.tag]
      BY <2>2, <2>4 DEF Tally
    <3>3. \A o \in Outcomes :
            /\ Settled(o)' = IF o = m.tag THEN Settled(o) \cup {m.i} ELSE Settled(o)
            /\ m.i \notin Settled(o) /\ Settled(o) \in SUBSET Items
      BY <2>2, <2>4, <3>1, <3>2 DEF Settled, Outcomes
    <3>4. IsFiniteSet(Items) /\ Size \in [Items -> Nat]
      BY FiniteItems, PipelineAssumption
    <3>5. \A o \in Outcomes : Total(Size, Settled(o) \cup {m.i})
                                = Total(Size, Settled(o)) + Size[m.i]
      BY <2>2, <3>3, <3>4, TotalAdd
    <3>6. /\ completedBytes' = completedBytes
                + (IF m.tag = "Done" THEN Size[m.i] ELSE 0)
          /\ skippedBytes' = skippedBytes
                + (IF m.tag = "Skipped" THEN Size[m.i] ELSE 0)
      BY <2>2 DEF Tally
    <3>7. "Done" \in Outcomes /\ "Skipped" \in Outcomes /\ Size[m.i] \in Nat
      BY <2>2, <3>4 DEF Outcomes
    <3>8. completedBytes' = Total(Size, Settled("Done")')
      <4>1. CASE m.tag = "Done"
        <5>1. Settled("Done")' = Settled("Done") \cup {m.i}
          BY <3>3, <3>7, <4>1
        <5>2. completedBytes' = completedBytes + Size[m.i]
          BY <3>6, <4>1
        <5>3. Total(Size, Settled("Done") \cup {m.i})
                    = Total(Size, Settled("Done")) + Size[m.i]
          BY <3>5, <3>7
        <5>4. QED
          BY <5>1, <5>2, <5>3 DEF CountedBytes
      <4>2. CASE m.tag # "Done"
        <5>1. Settled("Done")' = Settled("Done")
          BY <3>3, <3>7, <4>2
        <5>2. completedBytes' = completedBytes
          BY <3>6, <4>2
        <5>3. QED
          BY <5>1, <5>2 DEF CountedBytes
      <4>3. QED
        BY <4>1, <4>2
    <3>9. skippedBytes' = Total(Size, Settled("Skipped")')
      <4>1. CASE m.tag = "Skipped"
        <5>1. Settled("Skipped")' = Settled("Skipped") \cup {m.i}
          BY <3>3, <3>7, <4>1
        <5>2. skippedBytes' = skippedBytes + Size[m.i]
          BY <3>6, <4>1
        <5>3. Total(Size, Settled("Skipped") \cup {m.i})
                    = Total(Size, Settled("Skipped")) + Size[m.i]
          BY <3>5, <3>7
        <5>4. QED
          BY <5>1, <5>2, <5>3 DEF CountedBytes
      <4>2. CASE m.tag # "Skipped"
        <5>1. Settled("Skipped")' = Settled("Skipped")
          BY <3>3, <3>7, <4>2
        <5>2. skippedBytes' = skippedBytes
          BY <3>6, <4>2
        <5>3. QED
          BY <5>1, <5>2 DEF CountedBytes
      <4>3. QED
        BY <4>1, <4>2
    <3>10. Total(Size, Settled("Done"))' = Total(Size, Settled("Done")') /\
           Total(Size, Settled("Skipped"))' = Total(Size, Settled("Skipped")')
      BY DEF Total, Sums, Adds, Any
    <3>11. QED
      BY <3>8, <3>9, <3>10 DEF CountedBytes
  <2>5. QED
    BY <2>3, <2>4
<1>3. CASE Commands \/ KeyQuit \/ KeyPause \/ QuitMsg \/ UNCHANGED vars
  BY <1>1, <1>3 DEF Commands, ScanFailed, ScanComplete, BulkStatProgress,
     BulkStatComplete, KeyQuit, KeyPause, QuitMsg, vars, tallyVars
<1>4. CASE \E w \in Workers : Working(w)
  <2>1. PICK w \in Workers : Working(w)
    BY <1>4
  <2>2. UNCHANGED tallyVars
    BY <2>1 DEF Working, LoopStep, Take, NoMoreItems, PassGate, QuitAtGate,
       SendChecking, StatItem, SendQueued, Acquire, AbandonSlot, SendUploading,
       PutProgress, PutDone, PutFailed, PutReturns, Report, workerFrame
  <2>3. QED
    BY <1>1, <2>2 DEF tallyVars
<1>5. CASE \E p \in Pumps : Pumping(p)
  <2>1. PICK p \in Pumps : Pumping(p)
    BY <1>5
  <2>2. CASE ~DeliverStatus(p)
    BY <1>1, <2>1, <2>2 DEF Pumping, Receive, DeliverListing, DeliverProgress,
       tallyVars
  <2>3. QED
    BY <1>2, <2>2
<1>6. QED
  BY <1>3, <1>4, <1>5 DEF Next, Terminated

\* The rows that show a transfer show different items, none of them settled.
Shown(W)  == {rows[w].item : w \in W \cap Uploaders}

LEMMA RowsApart ==
    ASSUME IInv, Solo, ~BulkStater, ViewInv
    PROVE  /\ \A w \in Uploaders : /\ rows[w].item \in Items
                                   /\ record[rows[w].item] = "none"
                                   /\ rows[w].item < dispatched
           /\ \A v, w \in Uploaders : rows[v].item = rows[w].item => v = w
<1> USE DEF IInv, Inv1
<1>1. ASSUME NEW w \in Uploaders
      PROVE  /\ rows[w].item \in Items
             /\ \/ cur[w] = rows[w].item
                \/ \E j \in Places : Ends(Line[j], w, rows[w].item)
  BY <1>1 DEF ViewInv, RowsOwed, Uploaders, IdleRow
<1>2. ASSUME NEW w \in Workers, NEW j \in Places, NEW i \in Items, Ends(Line[j], w, i)
      PROVE  /\ record[i] = "none" /\ i < dispatched
             /\ Line[j].tag \in Outcomes /\ Line[j].i = i /\ Line[j].w = w
             /\ \A k \in Places : Carries(Line[k], i) => k = j
  <2>1. Carries(Line[j], i)
    BY <1>2 DEF Ends, Carries
  <2>2. QED
    BY <1>2, <2>1, LineTracked DEF Ends
<1>3. ASSUME NEW w \in Uploaders
      PROVE  record[rows[w].item] = "none" /\ rows[w].item < dispatched
  <2>1. w \in Workers
    BY DEF Uploaders
  <2>2. QED
    BY <1>1, <1>2, <2>1 DEF ViewInv, Owing
<1>4. ASSUME NEW v \in Uploaders, NEW w \in Uploaders, NEW i \in Items,
             rows[v].item = i, rows[w].item = i
      PROVE  v = w
  <2>1. v \in Workers /\ w \in Workers
    BY DEF Uploaders
  <2>2. CASE cur[v] = i /\ cur[w] = i
    BY <2>1, <2>2 DEF ViewInv, Owing
  <2>3. ASSUME NEW a \in Workers, NEW b \in Workers, cur[a] = i,
               NEW j \in Places, Ends(Line[j], b, i)
        PROVE  FALSE
    BY <2>3, <1>2 DEF ViewInv, Owing
  <2>4. ASSUME NEW j \in Places, Ends(Line[j], v, i),
               NEW k \in Places, Ends(Line[k], w, i)
        PROVE  v = w
    <3>1. Carries(Line[k], i) /\ Carries(Line[j], i)
      BY <2>4 DEF Ends, Carries
    <3>2. k = j
      BY <1>2, <2>1, <2>4, <3>1
    <3>3. QED
      BY <2>4, <3>2 DEF Ends
  <2>5. QED
    BY <1>1, <1>4, <2>1, <2>2, <2>3, <2>4
<1>5. QED
  BY <1>1, <1>3, <1>4

\* Where no row shows more than its item has, the rows show together no more than
\* the sizes of the items they show.
RowsFit == \A w \in Uploaders : rows[w].up <= Size[rows[w].item]

LEMMA RowsWithin ==
    ASSUME IInv, Solo, ~BulkStater, ViewInv, RowsFit
    PROVE  /\ Total(RowBytes, Workers) \in Nat
           /\ Total(RowBytes, Workers) <= Total(Size, Shown(Workers))
<1>1. IsFiniteSet(Workers) /\ IsFiniteSet(Items) /\ Size \in [Items -> Nat]
  BY PipelineAssumption, FiniteItems
<1>2. PICK f \in [Workers -> Nat] : f = RowBytes
  BY DEF RowBytes, IInv, Inv1, TypeOK, ViewOK
<1>3. \A w \in Uploaders : /\ f[w] <= Size[rows[w].item] /\ rows[w].item \in Items
                           /\ w \in Workers
  BY <1>2, RowsApart DEF RowBytes, RowsFit, Uploaders
<1>4. \A w \in Workers : w \notin Uploaders => f[w] = 0
  BY <1>2 DEF RowBytes, Uploaders
<1> DEFINE Q == {W \in SUBSET Workers : Total(f, W) <= Total(Size, Shown(W))}
<1>5. ASSUME NEW W \in SUBSET Workers,
             \A T \in SUBSET Workers : Cardinality(T) < Cardinality(W) => T \in Q
      PROVE  W \in Q
  <2>1. \A T \in SUBSET Workers : Shown(T) \in SUBSET Items
    BY <1>3 DEF Shown
  <2>2. CASE W = {}
    <3>1. Total(f, W) = 0
      BY <1>1, <1>2, <2>2, TotalStep
    <3>2. Total(Size, Shown(W)) \in Nat
      BY <1>1, <2>1, TotalStep
    <3>3. QED
      BY <3>1, <3>2
  <2>3. CASE W # {}
    <3>1. PICK w \in W : Total(f, W) = f[w] + Total(f, W \ {w})
      <4>1. Any(W) \in W /\ Total(f, W) = f[Any(W)] + Total(f, W \ {Any(W)})
        <5>1. f \in [Workers -> Nat]
          OBVIOUS
        <5>2. QED
          BY <1>1, <2>3, <5>1, TotalStep
      <4>2. QED
        BY <4>1
    <3>2. PICK T : T = W \ {w}
      OBVIOUS
    <3>3. T \in SUBSET Workers /\ w \in Workers /\ w \notin T
      BY <3>1, <3>2
    <3>4. T \in Q
      <4>1. IsFiniteSet(W)
        BY <1>1, FS_Subset
      <4>2. Cardinality(T) = Cardinality(W) - 1 /\ Cardinality(W) \in Nat
        BY <3>1, <3>2, <4>1, FS_RemoveElement, FS_CardinalityType
      <4>3. QED
        BY <1>5, <3>3, <4>2
    <3>5. /\ Total(f, T) <= Total(Size, Shown(T))
          /\ Total(f, T) \in Nat /\ f[w] \in Nat
          /\ Shown(T) \in SUBSET Items /\ Total(Size, Shown(T)) \in Nat
      BY <1>1, <1>2, <2>1, <3>3, <3>4, TotalStep
    <3>6. CASE w \notin Uploaders
      <4>1. Shown(W) = Shown(T)
        BY <3>2, <3>6 DEF Shown
      <4>2. QED
        BY <1>4, <3>1, <3>2, <3>3, <3>5, <3>6, <4>1
    <3>7. CASE w \in Uploaders
      <4>1. PICK i \in Items : i = rows[w].item /\ f[w] <= Size[i]
        BY <1>3, <3>7
      <4>2. i \notin Shown(T)
        BY <3>3, <3>7, <4>1, RowsApart DEF Shown
      <4>3. Shown(W) = Shown(T) \cup {i}
        BY <3>1, <3>2, <3>7, <4>1 DEF Shown
      <4>4. Total(Size, Shown(W)) = Total(Size, Shown(T)) + Size[i]
        BY <1>1, <3>5, <4>1, <4>2, <4>3, TotalAdd
      <4>5. Size[i] \in Nat
        BY <1>1
      <4>6. Total(f, W) = f[w] + Total(f, T)
        BY <3>1, <3>2
      <4>7. QED
        BY <3>5, <4>1, <4>4, <4>5, <4>6
    <3>8. QED
      BY <3>6, <3>7
  <2>4. QED
    BY <2>2, <2>3
<1> HIDE DEF Q
<1>6. Workers \in Q
  BY <1>1, <1>5, SizeClimb
<1>7. Total(f, Workers) \in Nat
  BY <1>1, <1>2, TotalStep
<1>8. QED
  BY <1>2, <1>6, <1>7 DEF Q

\* The figures on the screen: the byte counters are those of the recorded items,
\* and with one consumer the live figure counts no file twice, so that it passes
\* the bytes of the scan only where a row by itself passes its item's size.
THEOREM FiguresAdd == Spec => []LiveFigures
<1>1. IInv /\ CountedBytes /\ Solo /\ (~BulkStater => ViewInv) => LiveFigures
  <2> SUFFICES ASSUME IInv, CountedBytes, Solo, ~BulkStater => ViewInv
               PROVE  LiveFigures
    OBVIOUS
  <2> USE DEF IInv, Inv1, TypeOK, TallyOK, RunOK, PoolOK
  <2>1. /\ completedBytes = Bytes(Settled("Done"))
        /\ skippedBytes = Bytes(Settled("Skipped"))
    BY BytesTotal DEF CountedBytes
  <2>2. ASSUME ~BulkStater, NEW w \in Uploaders
        PROVE  /\ record[rows[w].item] = "none"
               /\ \A v \in Uploaders : rows[v].item = rows[w].item => v = w
    BY <2>2, RowsApart
  <2>3. ASSUME ~BulkStater, RowsFit
        PROVE  LiveTransferredBytes + skippedBytes <= Bytes(0 .. total - 1)
    <3> DEFINE D == Settled("Done")
               K == Settled("Skipped")
               R == Shown(Workers)
               T == 0 .. total - 1
               rest == T \ ((D \cup K) \cup R)
    <3>1. IsFiniteSet(Items) /\ Size \in [Items -> Nat]
      BY PipelineAssumption, FiniteItems
    <3>2. /\ D \in SUBSET Items /\ K \in SUBSET Items /\ R \in SUBSET Items
          /\ D \cap K = {} /\ (D \cup K) \cap R = {}
      BY <2>3, RowsApart DEF Settled, Shown
    <3>3. \A i \in Items : i < dispatched => i \in T
      BY PipelineAssumption DEF Items
    <3>4. \A i \in D \cup K : i < dispatched
      BY PipelineAssumption DEF Settled, Tracked, TakenFirst, Items
    <3>5. \A i \in R : i < dispatched
      BY <2>3, RowsApart DEF Shown
    <3>6. /\ (D \cup K) \cup R \subseteq T /\ T \in SUBSET Items
          /\ rest \in SUBSET Items
      BY <3>2, <3>3, <3>4, <3>5, PipelineAssumption DEF Items
    <3>7. ((D \cup K) \cup R) \cap rest = {} /\ ((D \cup K) \cup R) \cup rest = T
      BY <3>6
    <3> HIDE DEF D, K, R, T, rest
    <3>8. Total(Size, D \cup K) = Total(Size, D) + Total(Size, K)
      BY <3>1, <3>2, TotalUnion
    <3>9. Total(Size, (D \cup K) \cup R) = Total(Size, D \cup K) + Total(Size, R)
      BY <3>1, <3>2, TotalUnion
    <3>10. Total(Size, ((D \cup K) \cup R) \cup rest)
                = Total(Size, (D \cup K) \cup R) + Total(Size, rest)
      BY <3>1, <3>2, <3>6, <3>7, TotalUnion
    <3>11. /\ Total(Size, D) \in Nat /\ Total(Size, K) \in Nat
           /\ Total(Size, R) \in Nat /\ Total(Size, rest) \in Nat
      BY <3>1, <3>2, <3>6, TotalStep
    <3>12. Total(Size, T) = Total(Size, D) + Total(Size, K) + Total(Size, R)
                                + Total(Size, rest)
      BY <3>7, <3>8, <3>9, <3>10, <3>11
    <3>13. /\ Total(RowBytes, Workers) \in Nat
           /\ Total(RowBytes, Workers) <= Total(Size, R)
      BY <2>3, RowsWithin DEF R
    <3>14. completedBytes = Total(Size, D) /\ skippedBytes = Total(Size, K)
      BY DEF CountedBytes, D, K
    <3>15. completedBytes + Total(RowBytes, Workers) + skippedBytes <= Total(Size, T)
      BY <3>11, <3>12, <3>13, <3>14
    <3>16. Bytes(0 .. total - 1) = Total(Size, T)
      BY BytesTotal DEF T
    <3>17. QED
      BY <3>15, <3>16, LiveTotal
  <2>4. QED
    BY <2>1, <2>2, <2>3 DEF LiveFigures, RowsFit
<1>2. Spec => []CountedBytes
  <2>1. Init => CountedBytes
    BY InitBytes
  <2>2. IInv /\ CountedBytes /\ [Next]_vars => CountedBytes'
    BY NextBytes DEF IInv
  <2>3. QED
    BY <2>1, <2>2, Inductive, PTL DEF Spec
<1>3. QED
  BY <1>1, <1>2, Inductive, ViewAlways, PTL

-----------------------------------------------------------------------------
(* Layer 8: the run comes nearer to its end.                               *)

\* What is left to do, counted in steps that are not a report's.  A status message
\* in the channel is received and delivered, so a place before a send is worth three
\* more than the place after it.
Ahead == [off |-> 1, take |-> 1, gate |-> 17, check |-> 16, stat |-> 13,
          queue |-> 12, acquire |-> 9, announce |-> 8, put |-> 5, report |-> 4,
          exited |-> 0]
Unread  == {k \in Slots : msgChan[k].tag \in StatusTags}
Held(p) == IF pump[p].tag \in StatusTags THEN 1 ELSE 0
Commanded == (IF "scan" \in pending THEN 2 ELSE 0)
                + (IF "bulk" \in pending THEN 1 ELSE 0)
ToTake  == 18 * (N - dispatched)
InHands == MapThenSumSet(LAMBDA w : Ahead[pc[w]], Workers)
Work    == ToTake + InHands + 2 * Cardinality(Unread) + Held("init") + Held("bulk")
            + Commanded

\* The sum depends on what is added up only.
LEMMA TotalSame ==
    ASSUME NEW D, IsFiniteSet(D), NEW f \in [D -> Nat], NEW g \in [D -> Nat],
           NEW S \in SUBSET D, \A x \in S : f[x] = g[x]
    PROVE  Total(f, S) = Total(g, S)
<1> DEFINE Q == {s \in SUBSET D :
                    (\A x \in s : f[x] = g[x]) => Total(f, s) = Total(g, s)}
<1>1. ASSUME NEW s \in SUBSET D,
             \A t \in SUBSET D : Cardinality(t) < Cardinality(s) => t \in Q
      PROVE  s \in Q
  <2> SUFFICES ASSUME \A x \in s : f[x] = g[x] PROVE Total(f, s) = Total(g, s)
    OBVIOUS
  <2>1. CASE s = {}
    <3>1. Total(f, {}) = 0 /\ Total(g, {}) = 0
      BY TotalStep
    <3>2. QED
      BY <2>1, <3>1
  <2>2. CASE s # {}
    <3>1. PICK t : t = s \ {Any(s)}
      OBVIOUS
    <3>2. /\ Any(s) \in s /\ Total(f, s) = f[Any(s)] + Total(f, t)
          /\ Total(g, s) = g[Any(s)] + Total(g, t)
      BY <2>2, <3>1, TotalStep
    <3>3. t \in Q
      <4>1. IsFiniteSet(s)
        BY FS_Subset
      <4>2. Cardinality(t) < Cardinality(s)
        BY <2>2, <3>1, <4>1, Smaller
      <4>3. QED
        BY <1>1, <3>1, <4>2
    <3>4. Total(f, t) = Total(g, t)
      BY <3>1, <3>3
    <3>5. QED
      BY <3>2, <3>4
  <2>3. QED
    BY <2>1, <2>2
<1> HIDE DEF Q
<1>2. S \in Q
  BY <1>1, SizeClimb
<1>3. QED
  BY <1>2 DEF Q

\* One term less, and one term changed.
LEMMA TotalRemove ==
    ASSUME NEW D, IsFiniteSet(D), NEW f \in [D -> Nat], NEW S \in SUBSET D,
           NEW x \in S
    PROVE  /\ Total(f, S) = Total(f, S \ {x}) + f[x]
           /\ Total(f, S \ {x}) \in Nat /\ f[x] \in Nat
<1>1. PICK t : t = S \ {x}
  OBVIOUS
<1>2. t \in SUBSET D /\ x \in D /\ x \notin t /\ S = t \cup {x}
  BY <1>1
<1>3. Total(f, t \cup {x}) = Total(f, t) + f[x]
  BY <1>2, TotalAdd
<1>4. Total(f, t) \in Nat
  BY <1>2, TotalStep
<1>5. QED
  BY <1>1, <1>2, <1>3, <1>4

LEMMA TotalChange ==
    ASSUME NEW D, IsFiniteSet(D), NEW f \in [D -> Nat], NEW g \in [D -> Nat],
           NEW x \in D, \A y \in D : y # x => g[y] = f[y]
    PROVE  /\ Total(g, D) + f[x] = Total(f, D) + g[x]
           /\ Total(g, D) \in Nat /\ Total(f, D) \in Nat
<1>1. PICK t : t = D \ {x}
  OBVIOUS
<1>2. /\ Total(f, D) = Total(f, t) + f[x] /\ Total(f, t) \in Nat /\ f[x] \in Nat
      /\ Total(g, D) = Total(g, t) + g[x] /\ Total(g, t) \in Nat /\ g[x] \in Nat
  BY <1>1, TotalRemove
<1>3. Total(f, t) = Total(g, t)
  BY <1>1, TotalSame
<1>4. QED
  BY <1>2, <1>3

\* What the workers have before them, as a sum of natural numbers.
Ranks == [w \in Workers |-> Ahead[pc[w]]]

LEMMA HandsAre ==
    InHands = Total(Ranks, Workers) /\ InHands' = Total(Ranks', Workers)
<1>1. InHands = Total(Ranks, Workers)
  BY DEF InHands, MapThenSumSet, MapThenFoldSet, Total, Sums, Adds, Any, Ranks
<1>2. InHands' = Total(Ranks', Workers)
  BY DEF InHands, MapThenSumSet, MapThenFoldSet, Total, Sums, Adds, Any, Ranks
<1>3. QED
  BY <1>1, <1>2

\* The parts of Work are natural numbers.
LEMMA PartsType ==
    ASSUME Inv1
    PROVE  /\ Ranks \in [Workers -> Nat] /\ IsFiniteSet(Workers) /\ InHands \in Nat
           /\ IsFiniteSet(Unread) /\ Cardinality(Unread) \in Nat
           /\ ToTake \in Nat
           /\ \A p \in Pumps : Held(p) \in Nat
           /\ Commanded \in Nat
<1> USE DEF Inv1, TypeOK
<1>1. Ranks \in [Workers -> Nat] /\ IsFiniteSet(Workers)
  BY PipelineAssumption DEF Ranks, Ahead, PoolOK, Holding
<1>2. InHands \in Nat
  <2>1. PICK f \in [Workers -> Nat] : f = Ranks
    BY <1>1
  <2>2. Total(f, Workers) \in Nat
    BY <1>1, TotalStep
  <2>3. QED
    BY <2>1, <2>2, HandsAre
<1>3. IsFiniteSet(Unread) /\ Cardinality(Unread) \in Nat
  <2>1. Unread \in SUBSET Slots /\ Len(msgChan) \in Nat
    BY DEF Unread, ChanOK
  <2>2. IsFiniteSet(Slots)
    BY <2>1, FS_Interval DEF Slots
  <2>3. QED
    BY <2>1, <2>2, FS_Subset, FS_CardinalityType
<1>4. ToTake \in Nat
  BY PipelineAssumption DEF ToTake, PoolOK, RunOK
<1>5. QED
  BY <1>1, <1>2, <1>3, <1>4 DEF Held, Commanded

LEMMA PartsNext ==
    ASSUME Inv1'
    PROVE  /\ Ranks' \in [Workers -> Nat] /\ InHands' \in Nat
           /\ Cardinality(Unread)' \in Nat /\ IsFiniteSet(Unread') /\ ToTake' \in Nat
           /\ \A p \in Pumps : Held(p)' \in Nat
           /\ Commanded' \in Nat
<1>1. (Inv1 => /\ Ranks \in [Workers -> Nat] /\ InHands \in Nat
               /\ Cardinality(Unread) \in Nat /\ IsFiniteSet(Unread) /\ ToTake \in Nat
               /\ \A p \in Pumps : Held(p) \in Nat
               /\ Commanded \in Nat)'
  BY PartsType, PTL
<1>2. QED
  BY <1>1

LEMMA WorkType == Inv1 => Work \in Nat
<1> SUFFICES ASSUME Inv1 PROVE Work \in Nat
  OBVIOUS
<1>1. PICK a, b, k, u, t, h \in Nat :
           /\ a = Held("init") /\ b = Held("bulk") /\ k = Commanded
           /\ u = Cardinality(Unread) /\ t = ToTake /\ h = InHands
  BY PartsType DEF Pumps
<1>2. Work = t + h + 2 * u + a + b + k
  BY <1>1 DEF Work
<1>3. QED
  BY <1>2

LEMMA WorkNext == Inv1' => Work' \in Nat
<1>1. (Inv1 => Work \in Nat)'
  BY WorkType, PTL
<1>2. QED
  BY <1>1

\* The status messages in the channel, after a send and after a receive.
LEMMA UnreadSent ==
    ASSUME Inv1, NEW m \in Messages, msgChan' = Append(msgChan, m)
    PROVE  Cardinality(Unread)' = Cardinality(Unread)
                                    + IF m.tag \in StatusTags THEN 1 ELSE 0
<1>1. PICK n : n = Len(msgChan) + 1
  OBVIOUS
<1>2. /\ Slots' = Slots \cup {n} /\ n \notin Slots /\ msgChan'[n] = m
      /\ \A k \in Slots : msgChan'[k] = msgChan[k]
  BY <1>1, Appended DEF Inv1, TypeOK, ChanOK
<1>3. Unread' = {k \in Slots' : msgChan'[k].tag \in StatusTags}
  BY DEF Unread
<1>4. n \notin Unread /\ IsFiniteSet(Unread) /\ Cardinality(Unread) \in Nat
  BY <1>2, PartsType DEF Unread
<1>5. CASE m.tag \in StatusTags
  <2>1. Unread' = Unread \cup {n}
    BY <1>2, <1>3, <1>5 DEF Unread
  <2>2. Cardinality(Unread \cup {n}) = Cardinality(Unread) + 1
    BY <1>4, FS_AddElement
  <2>3. QED
    BY <1>5, <2>1, <2>2
<1>6. CASE m.tag \notin StatusTags
  <2>1. Unread' = Unread
    BY <1>2, <1>3, <1>6 DEF Unread
  <2>2. QED
    BY <1>4, <1>6, <2>1
<1>7. QED
  BY <1>5, <1>6

LEMMA UnreadReceived ==
    ASSUME Inv1, Inv1', msgChan # <<>>, msgChan' = Tail(msgChan)
    PROVE  Cardinality(Unread)' + (IF Head(msgChan).tag \in StatusTags THEN 1 ELSE 0)
                <= Cardinality(Unread)
<1>1. /\ \A k \in Slots' : k + 1 \in Slots /\ msgChan'[k] = msgChan[k + 1] /\ k # 0
      /\ 1 \in Slots /\ Head(msgChan) = msgChan[1] /\ Slots' \subseteq Int
  BY DEF Slots, Inv1, TypeOK, ChanOK
<1>2. PICK S : S = Unread'
  OBVIOUS
<1>3. PICK T : T = Unread \ {1}
  OBVIOUS
<1>4. S = {k \in Slots' : msgChan'[k].tag \in StatusTags}
  BY <1>2 DEF Unread
<1>5. PICK f : f = [k \in S |-> k + 1]
  OBVIOUS
<1>6. f \in [S -> T]
  <2> SUFFICES ASSUME NEW k \in S PROVE k + 1 \in T
    BY <1>5
  <2>1. k \in Int /\ k # 0 /\ k + 1 \in Slots /\ msgChan[k + 1].tag \in StatusTags
    BY <1>1, <1>4
  <2>2. QED
    BY <2>1, <1>3 DEF Unread
<1>7. f \in Injection(S, T)
  <2>1. \A j, k \in S : j \in Int /\ k \in Int /\ f[j] = j + 1 /\ f[k] = k + 1
    BY <1>1, <1>4, <1>5
  <2>2. \A j, k \in S : f[j] = f[k] => j = k
    BY <2>1
  <2>3. QED
    BY <1>6, <2>2 DEF Injection, IsInjective
<1>8. /\ IsFiniteSet(T) /\ Cardinality(Unread) \in Nat
      /\ Cardinality(T) = IF 1 \in Unread THEN Cardinality(Unread) - 1
                                          ELSE Cardinality(Unread)
  BY <1>3, PartsType, FS_RemoveElement
<1>9. Cardinality(S) <= Cardinality(T) /\ Cardinality(S) \in Nat
  BY <1>2, <1>7, <1>8, FS_Injection, PartsNext
<1>10. 1 \in Unread <=> Head(msgChan).tag \in StatusTags
  BY <1>1 DEF Unread
<1>11. QED
  BY <1>2, <1>8, <1>9, <1>10

\* One worker steps: it has s status messages more in the channel and d items fewer
\* to take.
LEMMA OneSteps ==
    ASSUME Inv1, Inv1', NEW w \in Workers,
           \A v \in Workers : v # w => UNCHANGED pc[v],
           NEW s \in Nat, Cardinality(Unread)' = Cardinality(Unread) + s,
           NEW d \in Nat, dispatched' = dispatched + d,
           UNCHANGED <<pump, pending>>
    PROVE  /\ Work \in Nat /\ Ahead[pc[w]] \in Nat /\ Ahead[pc'[w]] \in Nat
           /\ Work' = Work + Ahead[pc'[w]] + 2 * s - Ahead[pc[w]] - 18 * d
<1>1. /\ Ranks \in [Workers -> Nat] /\ Ranks' \in [Workers -> Nat]
      /\ IsFiniteSet(Workers)
  BY PartsType, PartsNext
<1>2. /\ Ranks[w] = Ahead[pc[w]] /\ Ranks'[w] = Ahead[pc'[w]]
      /\ \A v \in Workers : v # w => Ranks'[v] = Ranks[v]
  BY DEF Ranks
<1>3. PICK f, g \in [Workers -> Nat] : f = Ranks /\ g = Ranks'
  BY <1>1
<1>4. Total(g, Workers) + f[w] = Total(f, Workers) + g[w]
  BY <1>1, <1>2, <1>3, TotalChange
<1>5. PICK a, b \in Nat : a = Ahead[pc[w]] /\ b = Ahead[pc'[w]] /\ a = f[w] /\ b = g[w]
  BY <1>2, <1>3
<1>6. PICK h, i \in Nat : h = InHands /\ i = InHands'
  BY PartsType, PartsNext
<1>7. i + a = h + b
  BY <1>3, <1>4, <1>5, <1>6, HandsAre
<1>8. /\ Held("init")' = Held("init") /\ Held("bulk")' = Held("bulk")
      /\ Commanded' = Commanded
  BY DEF Held, Commanded
<1>9. PICK x, y, z, u, t \in Nat :
           /\ x = Held("init") /\ y = Held("bulk") /\ z = Commanded
           /\ u = Cardinality(Unread) /\ t = ToTake
  BY PartsType DEF Pumps
<1>10. ToTake' = t - 18 * d
  <2>1. N \in Nat /\ dispatched \in Nat
    BY PipelineAssumption DEF Inv1, TypeOK, PoolOK, RunOK
  <2>2. t = 18 * (N - dispatched) /\ ToTake' = 18 * (N - (dispatched + d))
    BY <1>9 DEF ToTake
  <2>3. QED
    BY <2>1, <2>2
<1>11. /\ Work = t + h + 2 * u + x + y + z
       /\ Work' = (t - 18 * d) + i + 2 * (u + s) + x + y + z
  BY <1>6, <1>8, <1>9, <1>10 DEF Work
<1>12. QED
  <2>1. Work' = Work + b + 2 * s - a - 18 * d /\ Work \in Nat
    BY <1>7, <1>11
  <2>2. QED
    BY <1>5, <2>1

\* The worker's part: what it gains in place, it has left over after its message.
LEMMA LoopWorks ==
    ASSUME Inv1, Inv1', NEW w \in Workers, LoopStep(w)
    PROVE  Work' < Work
<1> USE DEF Inv1, TypeOK, PoolOK
<1>1. /\ UNCHANGED <<pump, pending>>
      /\ \A v \in Workers : v # w => UNCHANGED pc[v]
  BY DEF LoopStep, Take, NoMoreItems, PassGate, QuitAtGate, SendChecking, StatItem,
     SendQueued, Acquire, AbandonSlot, SendUploading, PutDone, PutFailed,
     PutReturns, Report, Send, Goto, workerFrame, chanVars
<1>2. dispatched \in Nat /\ Cardinality(Unread) \in Nat
  BY PartsType DEF RunOK
<1>3. ASSUME NEW s \in Nat, Cardinality(Unread)' = Cardinality(Unread) + s,
             NEW d \in Nat, dispatched' = dispatched + d,
             Ahead[pc'[w]] + 2 * s < Ahead[pc[w]] + 18 * d
      PROVE  Work' < Work
  <2>1. /\ Work \in Nat /\ Ahead[pc[w]] \in Nat /\ Ahead[pc'[w]] \in Nat
        /\ Work' = Work + Ahead[pc'[w]] + 2 * s - Ahead[pc[w]] - 18 * d
    BY <1>1, <1>3, OneSteps
  <2>2. PICK a, b, x \in Nat : a = Ahead[pc[w]] /\ b = Ahead[pc'[w]] /\ x = Work
    BY <2>1
  <2>3. QED
    BY <1>3, <2>1, <2>2
<1>4. CASE Take(w)
  <2>1. /\ dispatched' = dispatched + 1 /\ UNCHANGED msgChan
        /\ pc[w] = "take" /\ pc'[w] = "gate"
    BY <1>4 DEF Take, Goto, chanVars
  <2>2. Cardinality(Unread)' = Cardinality(Unread) + 0
    BY <1>2, <2>1 DEF Unread, Slots
  <2>3. Ahead[pc'[w]] + 2 * 0 < Ahead[pc[w]] + 18 * 1
    BY <2>1 DEF Ahead
  <2>4. QED
    BY <1>3, <2>1, <2>2, <2>3
<1>5. CASE \/ NoMoreItems(w) \/ PassGate(w) \/ QuitAtGate(w) \/ StatItem(w)
           \/ Acquire(w) \/ AbandonSlot(w) \/ PutDone(w) \/ PutFailed(w)
  <2>1. UNCHANGED <<msgChan, dispatched>>
    BY <1>5 DEF NoMoreItems, PassGate, QuitAtGate, StatItem, Acquire, AbandonSlot,
       PutDone, PutFailed, PutReturns, chanVars
  <2>2. \/ pc[w] = "take" /\ pc'[w] = "exited"
        \/ pc[w] = "gate" /\ pc'[w] \in {"check", "exited"}
        \/ pc[w] = "stat" /\ pc'[w] \in {"report", "queue", "announce"}
        \/ pc[w] = "acquire" /\ pc'[w] \in {"announce", "exited"}
        \/ pc[w] = "put" /\ pc'[w] = "report"
    BY <1>5 DEF NoMoreItems, PassGate, QuitAtGate, StatItem, Acquire, AbandonSlot,
       PutDone, PutFailed, PutReturns, Goto
  <2>3. /\ Cardinality(Unread)' = Cardinality(Unread) + 0
        /\ dispatched' = dispatched + 0
    BY <1>2, <2>1 DEF Unread, Slots
  <2>4. Ahead[pc'[w]] + 2 * 0 < Ahead[pc[w]] + 18 * 0
    BY <2>2 DEF Ahead
  <2>5. QED
    BY <1>3, <2>3, <2>4
<1>6. CASE SendChecking(w) \/ SendQueued(w) \/ SendUploading(w) \/ Report(w)
  <2>1. \/ pc[w] = "check" /\ pc'[w] = "stat"
        \/ pc[w] = "queue" /\ pc'[w] = "acquire"
        \/ pc[w] = "announce" /\ pc'[w] = "put"
        \/ pc[w] = "report" /\ pc'[w] = "take"
    BY <1>6 DEF SendChecking, SendQueued, SendUploading, Report, Goto
  <2>2. PICK t \in StatusTags : Send(Status(t, w, cur[w]))
    BY <1>6 DEF SendChecking, SendQueued, SendUploading, Report, StatusTags,
       HasOutcome
  <2>3. cur[w] \in Items
    BY <2>1 DEF HasItem, Holding
  <2>4. PICK m : m = Status(t, w, cur[w])
    OBVIOUS
  <2>5. m \in Messages /\ m.tag \in StatusTags
    BY <2>3, <2>4, WorkerMsg DEF Messages, Status
  <2>6. msgChan' = Append(msgChan, m)
    BY <2>2, <2>4 DEF Send
  <2>7. Cardinality(Unread)' = Cardinality(Unread) + 1
    BY <2>5, <2>6, UnreadSent
  <2>8. dispatched' = dispatched + 0
    BY <1>2, <1>6 DEF SendChecking, SendQueued, SendUploading, Report
  <2>9. Ahead[pc'[w]] + 2 * 1 < Ahead[pc[w]] + 18 * 0
    BY <2>1 DEF Ahead
  <2>10. QED
    BY <1>3, <2>7, <2>8, <2>9
<1>7. QED
  BY <1>4, <1>5, <1>6 DEF LoopStep

\* Everyone but a pump stands still while messages are received and handled.
LEMMA StillHands ==
    ASSUME \A w \in Workers : pc'[w] = pc[w] \/ (pc[w] = "off" /\ pc'[w] = "take"),
           UNCHANGED dispatched
    PROVE  ToTake' = ToTake /\ InHands' = InHands
<1>1. \A w \in Workers : Ahead[pc'[w]] = Ahead[pc[w]]
  BY DEF Ahead
<1>2. Ranks' = Ranks
  <2>1. Ranks' = [w \in Workers |-> Ahead[pc'[w]]]
    BY DEF Ranks
  <2>2. QED
    BY <1>1, <2>1 DEF Ranks
<1>3. QED
  BY <1>2, HandsAre DEF ToTake

\* A report of a transfer or of the listing: it is put into the channel, received
\* or handled.
ReportStep ==
    \/ BulkStatProgress
    \/ \E w \in Workers : PutProgress(w)
    \/ \E p \in Pumps : \/ Receive(p) /\ Head(msgChan).tag \notin StatusTags
                        \/ DeliverListing(p)
                        \/ DeliverProgress(p)

\* The messages alone make the difference.
LEMMA MessagesMove ==
    ASSUME Inv1, Inv1', UNCHANGED <<pc, dispatched, pending>>,
           NEW x \in Nat, NEW y \in Nat,
           x = 2 * Cardinality(Unread) + Held("init") + Held("bulk"),
           y = 2 * Cardinality(Unread)' + Held("init")' + Held("bulk")'
    PROVE  (y <= x => Work' <= Work) /\ (y < x => Work' < Work)
<1>1. ToTake' = ToTake /\ InHands' = InHands /\ Commanded' = Commanded
  BY StillHands DEF Commanded
<1>2. PICK t, h, k \in Nat : t = ToTake /\ h = InHands /\ k = Commanded
  BY PartsType
<1>3. PICK u, a, b \in Nat : u = Cardinality(Unread) /\ a = Held("init") /\ b = Held("bulk")
  BY PartsType DEF Pumps
<1>4. PICK v, c, d \in Nat :
           v = Cardinality(Unread)' /\ c = Held("init")' /\ d = Held("bulk")'
  BY PartsNext DEF Pumps
<1>5. Work = t + h + 2 * u + a + b + k /\ x = 2 * u + a + b
  BY <1>2, <1>3 DEF Work
<1>6. Work' = t + h + 2 * v + c + d + k /\ y = 2 * v + c + d
  BY <1>1, <1>2, <1>4 DEF Work
<1>7. QED
  BY <1>5, <1>6

LEMMA PumpWorks ==
    ASSUME Inv1, Inv1', NEW p \in Pumps, Pumping(p)
    PROVE  Work' <= Work /\ (Work' < Work \/ ReportStep)
<1> USE DEF Inv1, TypeOK, ChanOK
<1>1. UNCHANGED <<pc, dispatched, pending>>
  BY DEF Pumping, Receive, DeliverListing, DeliverProgress, DeliverStatus, poolVars
<1>2. PICK q \in Pumps : q # p /\ Pumps = {p, q}
  BY DEF Pumps
<1>3. PICK a, b, u \in Nat : a = Held(p) /\ b = Held(q) /\ u = Cardinality(Unread)
  BY PartsType
<1>4. PICK c, v \in Nat : c = Held(p)' /\ v = Cardinality(Unread)'
  BY PartsNext
<1>5. Held(q)' = b
  BY <1>2, <1>3 DEF Pumping, Receive, DeliverListing, DeliverProgress,
     DeliverStatus, Held
<1>6. /\ 2 * v + c <= 2 * u + a
      /\ 2 * v + c < 2 * u + a \/ ReportStep
  <2>1. CASE Receive(p)
    <3>1. PICK m \in Messages : m = Head(msgChan)
      BY <2>1 DEF Receive
    <3>2. v + (IF m.tag \in StatusTags THEN 1 ELSE 0) <= u
      BY <1>3, <1>4, <2>1, <3>1, UnreadReceived DEF Receive
    <3>3. a = 0 /\ c = IF m.tag \in StatusTags THEN 1 ELSE 0
      BY <1>3, <1>4, <2>1, <3>1 DEF Receive, Held, Waiting, StatusTags, Outcomes
    <3>4. m.tag \notin StatusTags => ReportStep
      BY <2>1, <3>1 DEF ReportStep
    <3>5. QED
      BY <3>2, <3>3, <3>4
  <2>2. CASE DeliverListing(p) \/ DeliverProgress(p) \/ DeliverStatus(p)
    <3>1. v = u
      BY <1>3, <1>4, <2>2 DEF DeliverListing, DeliverProgress, DeliverStatus,
         Unread, Slots
    <3>2. c = 0
      <4>1. pump'[p] = Waiting \/ pump'[p] = Off
        BY <2>2 DEF DeliverListing, DeliverProgress, DeliverStatus
      <4>2. QED
        BY <1>4, <4>1 DEF Held, Waiting, Off, StatusTags, Outcomes
    <3>3. DeliverStatus(p) => a = 1
      BY <1>3 DEF DeliverStatus, Held
    <3>4. DeliverListing(p) \/ DeliverProgress(p) => ReportStep
      BY DEF ReportStep
    <3>5. QED
      BY <2>2, <3>1, <3>2, <3>3, <3>4
  <2>3. QED
    BY <2>1, <2>2 DEF Pumping
<1>7. PICK x, y \in Nat : x = 2 * u + a + b /\ y = 2 * v + c + b
  OBVIOUS
<1>8. /\ x = 2 * Cardinality(Unread) + Held("init") + Held("bulk")
      /\ y = 2 * Cardinality(Unread)' + Held("init")' + Held("bulk")'
  <2>1. CASE p = "init" /\ q = "bulk"
    BY <1>3, <1>4, <1>5, <1>7, <2>1
  <2>2. CASE p = "bulk" /\ q = "init"
    <3>1. b = Held("init") /\ b = Held("init")' /\ a = Held("bulk") /\ c = Held("bulk")'
      BY <1>3, <1>4, <1>5, <2>2
    <3>2. x = 2 * u + b + a /\ y = 2 * v + b + c
      BY <1>7
    <3>3. QED
      BY <1>3, <1>4, <3>1, <3>2
  <2>3. QED
    BY <1>2, <2>1, <2>2 DEF Pumps
<1>9. (y <= x => Work' <= Work) /\ (y < x => Work' < Work)
  BY <1>1, <1>8, MessagesMove
<1>10. QED
  BY <1>6, <1>7, <1>9

\* A report is put into the channel.
LEMMA ReportWorks ==
    ASSUME Inv1, Inv1', BulkStatProgress \/ \E w \in Workers : PutProgress(w)
    PROVE  Work' <= Work
<1> USE DEF Inv1, TypeOK, ChanOK
<1>1. UNCHANGED <<pc, dispatched, pending, pump>>
  BY DEF BulkStatProgress, PutProgress, poolVars, workerFrame
<1>2. PICK m \in Messages : msgChan' = Append(msgChan, m) /\ m.tag \notin StatusTags
  <2>1. CASE BulkStatProgress
    BY <2>1 DEF BulkStatProgress, Listing, Messages, StatusTags, Outcomes
  <2>2. ASSUME NEW w \in Workers, PutProgress(w)
        PROVE  \E m \in Messages : msgChan' = Append(msgChan, m) /\ m.tag \notin StatusTags
    <3>1. PICK b \in Figures : msgChan' = Append(msgChan, Progress(w, cur[w], b))
      BY <2>2 DEF PutProgress
    <3>2. cur[w] \in Items /\ b \in Nat
      BY <2>2, PipelineAssumption DEF PutProgress, HasItem, Holding
    <3>3. PICK m : m = Progress(w, cur[w], b)
      OBVIOUS
    <3>4. m \in Messages /\ m.tag = "Progress"
      BY <3>2, <3>3, WorkerMsg DEF Messages, Progress
    <3>5. QED
      BY <3>1, <3>3, <3>4 DEF StatusTags, Outcomes
  <2>3. QED
    BY <2>1, <2>2
<1>3. Cardinality(Unread)' = Cardinality(Unread)
  <2>1. Cardinality(Unread)' = Cardinality(Unread) + 0
    BY <1>2, UnreadSent
  <2>2. QED
    BY <2>1, PartsType
<1>4. Held("init")' = Held("init") /\ Held("bulk")' = Held("bulk")
  BY <1>1 DEF Held
<1>5. PICK x \in Nat : x = 2 * Cardinality(Unread) + Held("init") + Held("bulk")
  BY PartsType DEF Pumps
<1>6. x <= x => Work' <= Work
  BY <1>1, <1>3, <1>4, <1>5, MessagesMove
<1>7. QED
  BY <1>6

LEMMA CommandWorks ==
    ASSUME Inv1, Inv1', ScanFailed \/ ScanComplete \/ BulkStatComplete
    PROVE  Work' < Work
<1> USE DEF Inv1, TypeOK, ChanOK
<1>1. ToTake' = ToTake /\ InHands' = InHands
  <2>1. ScanComplete \/ BulkStatComplete => \A w \in Workers : pc[w] = "off"
    BY DEF PoolWaits, ScanComplete, BulkStatComplete
  <2>2. /\ UNCHANGED dispatched
        /\ \A w \in Workers : pc'[w] = pc[w] \/ (pc[w] = "off" /\ pc'[w] = "take")
    BY <2>1 DEF ScanFailed, ScanComplete, BulkStatComplete, StartPool, poolVars
  <2>3. QED
    BY <2>2, StillHands
<1>2. Commanded' < Commanded
  <2>1. CASE ScanFailed \/ BulkStatComplete
    BY <2>1 DEF ScanFailed, BulkStatComplete, Commanded
  <2>2. CASE ScanComplete
    <3>1. "bulk" \notin pending /\ "scan" \in pending /\ "scan" \notin pending'
      BY <2>2 DEF ScanComplete, PoolWaits
    <3>2. QED
      BY <3>1 DEF Commanded
  <2>3. QED
    BY <2>1, <2>2
<1>3. msgChan' = msgChan /\ (pump' = pump \/ pump' = [pump EXCEPT !["bulk"] = Waiting])
  BY DEF ScanFailed, ScanComplete, BulkStatComplete, chanVars
<1>4. Unread' = Unread /\ Held("init")' = Held("init") /\ Held("bulk")' <= Held("bulk")
  BY <1>3 DEF Unread, Slots, Held, Pumps, Waiting, StatusTags, Outcomes
<1>5. PICK a, b, k, u, t, h \in Nat :
           /\ a = Held("init") /\ b = Held("bulk") /\ k = Commanded
           /\ u = Cardinality(Unread) /\ t = ToTake /\ h = InHands
  BY PartsType DEF Pumps
<1>6. PICK c, j \in Nat : c = Held("bulk")' /\ j = Commanded'
  BY PartsNext DEF Pumps
<1>7. c <= b /\ j < k
  BY <1>2, <1>4, <1>5, <1>6
<1>8. Work = t + h + 2 * u + a + b + k /\ Work' = t + h + 2 * u + a + c + j
  BY <1>1, <1>4, <1>5, <1>6 DEF Work
<1>9. QED
  BY <1>7, <1>8

LEMMA OthersWork ==
    ASSUME Inv1, KeyQuit \/ KeyPause \/ QuitMsg PROVE Work' <= Work
<1>1. UNCHANGED <<msgChan, pump, dispatched, pc>>
  BY DEF KeyQuit, KeyPause, QuitMsg, chanVars, poolVars
<1>2. "scan" \in pending' <=> "scan" \in pending
  BY DEF KeyQuit, KeyPause, QuitMsg
<1>3. "bulk" \in pending' <=> "bulk" \in pending
  BY DEF KeyQuit, KeyPause, QuitMsg
<1>4. ToTake' = ToTake /\ InHands' = InHands
  BY <1>1, StillHands
<1>5. /\ Held("init")' = Held("init") /\ Held("bulk")' = Held("bulk")
      /\ Commanded' = Commanded /\ Unread' = Unread
  BY <1>1, <1>2, <1>3 DEF Held, Commanded, Unread, Slots
<1>6. Work' = Work
  BY <1>1, <1>4, <1>5 DEF Work
<1>7. QED
  BY <1>6, WorkType

\* No step of the pipeline takes it away from its end, and every one takes it nearer,
\* except a report and a key.  Of reports a transfer and the listing may make any
\* number: that these return in the end is assumed, here as in FairSpec.
Nearer ==
    /\ Work' <= Work
    /\ Work' < Work \/ ReportStep \/ KeyQuit \/ KeyPause \/ QuitMsg

\* What is left of a run to do is a natural number that shows how far it is: no step
\* of workers, pumps, commands or keys makes it grow, and all but reports and keys
\* make it smaller, so that a run takes only so many of those (startWorkerPool and
\* Update).
THEOREM RunShrinks == Spec => [](Work \in Nat) /\ [][Nearer]_vars
<1>1. IInv => Inv1
  BY DEF IInv
<1>2. Inv1 /\ Inv1' /\ [Next]_vars => [Nearer]_vars
  <2> SUFFICES ASSUME Inv1, Inv1', Next, ~UNCHANGED vars
               PROVE  Nearer
    OBVIOUS
  <2>1. ASSUME NEW w \in Workers, LoopStep(w) PROVE Nearer
    <3>1. Work' < Work
      BY <2>1, LoopWorks
    <3>2. QED
      BY <3>1, WorkType, WorkNext DEF Nearer
  <2>2. ASSUME NEW p \in Pumps, Pumping(p) PROVE Nearer
    BY <2>2, PumpWorks DEF Nearer
  <2>3. CASE ScanFailed \/ ScanComplete \/ BulkStatComplete
    <3>1. Work' < Work
      BY <2>3, CommandWorks
    <3>2. QED
      BY <3>1, WorkType, WorkNext DEF Nearer
  <2>4. CASE BulkStatProgress \/ \E w \in Workers : PutProgress(w)
    BY <2>4, ReportWorks DEF Nearer, ReportStep
  <2>5. CASE KeyQuit \/ KeyPause \/ QuitMsg
    BY <2>5, OthersWork DEF Nearer
  <2>6. QED
    BY <2>1, <2>2, <2>3, <2>4, <2>5 DEF Next, Commands, Terminated, Working
<1>3. QED
  BY <1>1, <1>2, Inductive, WorkType, PTL DEF Spec
=============================================================================
