--------------------------- MODULE PauseGateProofs ---------------------------
(* Safety of the pause gate, for any finite set of workers. *)
EXTENDS PauseGate, TLAPS

\* NoLostResume alone is not inductive.  A worker that is about to park has seen
\* the gate closed and has held the mutex since, so no set can have opened it in
\* between: that takes knowing exactly who holds the mutex.
CommittedClosed == \A w \in Workers : pc[w] = "committed" => paused

GateInv ==
    /\ TypeOK
    /\ LockedPlaces
    /\ CommittedClosed
    /\ NoLostResume

LEMMA InitGateInv == Init => GateInv
BY DEF Init, GateInv, TypeOK, LockedPlaces, CommittedClosed, NoLostResume,
       Places, Holding

LEMMA NextGateInv == GateInv /\ [Next]_vars => GateInv'
<1> SUFFICES ASSUME GateInv, [Next]_vars PROVE GateInv'
  OBVIOUS
<1> USE DEF GateInv, TypeOK, LockedPlaces, CommittedClosed, NoLostResume,
            Places, Holding, Goto
<1>1. ASSUME NEW w \in Workers, PassOpenGate(w) PROVE GateInv'
  BY <1>1 DEF PassOpenGate
<1>2. ASSUME NEW w \in Workers, EnterClosedGate(w) PROVE GateInv'
  BY <1>2 DEF EnterClosedGate
<1>3. ASSUME NEW w \in Workers, EndLoop(w) PROVE GateInv'
  BY <1>3 DEF EndLoop
<1>4. ASSUME NEW w \in Workers, Commit(w) PROVE GateInv'
  BY <1>4 DEF Commit
<1>5. ASSUME NEW w \in Workers, Park(w) PROVE GateInv'
  BY <1>5 DEF Park
<1>6. ASSUME NEW w \in Workers, Sleep(w) PROVE GateInv'
  BY <1>6 DEF Sleep
<1>7. ASSUME NEW w \in Workers, Wake(w) PROVE GateInv'
  BY <1>7 DEF Wake
<1>8. ASSUME NEW w \in Workers, Return(w) PROVE GateInv'
  BY <1>8 DEF Return
<1>9. ASSUME NEW w \in Workers, FireHook(w) PROVE GateInv'
  BY <1>9 DEF FireHook
<1>10. ASSUME NEW b \in BOOLEAN, Set(b) PROVE GateInv'
  BY <1>10 DEF Set
<1>11. CASE Broadcast
  BY <1>11 DEF Broadcast
<1>12. CASE Cancel
  BY <1>12 DEF Cancel
<1>13. CASE UNCHANGED vars
  BY <1>13 DEF vars
<1>14. QED
  BY <1>1, <1>2, <1>3, <1>4, <1>5, <1>6, <1>7, <1>8, <1>9, <1>10, <1>11,
     <1>12, <1>13 DEF Next, Waiting

LEMMA GateInvariant == Spec => []GateInv
BY InitGateInv, NextGateInv, PTL DEF Spec

\* The variables keep their types, and the mutex its single holder.
THEOREM GateTypes == Spec => []TypeOK
<1>1. GateInv => TypeOK
  BY DEF GateInv
<1>2. QED
  BY <1>1, GateInvariant, PTL

\* A resume is never lost, however set, wait, the hooks and further presses of
\* p interleave: any worker on the notify list of an open gate still has the
\* broadcast that will take it off ahead of it.
THEOREM ResumeIsNotLost == Spec => []NoLostResume
<1>1. GateInv => NoLostResume
  BY DEF GateInv
<1>2. QED
  BY <1>1, GateInvariant, PTL

\* No worker slips through a gate that was closed again before its turn.
THEOREM SleepersTest == Spec => SleepersTestAgain
<1> DEFINE Tested ==
      \A w \in Workers :
        (pc[w] \notin {"away", "leaving"} /\ pc'[w] = "leaving") =>
            ~paused \/ cancelled
<1>1. GateInv /\ [Next]_vars => [Tested]_vars
  <2> SUFFICES ASSUME GateInv, [Next]_vars, NEW v \in Workers,
                      pc[v] \notin {"away", "leaving"}, pc'[v] = "leaving"
               PROVE  ~paused \/ cancelled
    OBVIOUS
  <2> USE DEF GateInv, TypeOK, Goto
  <2>1. CASE \E w \in Workers : EndLoop(w)
    BY <2>1 DEF EndLoop
  <2>2. CASE \E w \in Workers : PassOpenGate(w) \/ EnterClosedGate(w) \/ Commit(w)
                                \/ Park(w) \/ Sleep(w) \/ Wake(w) \/ Return(w)
    BY <2>2 DEF PassOpenGate, EnterClosedGate, Commit, Park, Sleep, Wake, Return
  <2>3. CASE \/ \E w \in Workers : FireHook(w)
             \/ \E b \in BOOLEAN : Set(b)
             \/ Broadcast \/ Cancel \/ UNCHANGED vars
    BY <2>3 DEF FireHook, Set, Broadcast, Cancel, vars
  <2>4. QED
    BY <2>1, <2>2, <2>3 DEF Next, Waiting
<1>2. QED
  BY <1>1, GateInvariant, PTL DEF Spec, SleepersTestAgain
=============================================================================
