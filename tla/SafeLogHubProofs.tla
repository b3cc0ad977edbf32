------------------------- MODULE SafeLogHubProofs --------------------------
(* Proofs about SafeLogHub, for every finite set of publishers, every      *)
(* limit and every size of the queue.                                      *)
EXTENDS SafeLogHub, FiniteSetTheorems, TLAPS

-----------------------------------------------------------------------------
(* Typing.                                                                 *)

LEMMA InitTypeOK == Init => TypeOK
<1> SUFFICES ASSUME Init PROVE TypeOK
  OBVIOUS
<1>1. pc \in [Publishers -> {"idle", "limit", "queue"}]
  BY DEF Init
<1>2. count \in [Fields -> Nat] /\ seen \in [Fields -> Nat]
  BY DEF Init, Zero
<1>3. tick \in BOOLEAN
  BY Zenon DEF Init
<1>4. 0 \in 0 .. Buf
  BY HubAssumption
<1> QED
  BY <1>1, <1>2, <1>3, <1>4 DEF Init, TypeOK

LEMMA NextTypeOK == TypeOK /\ [Next]_vars => TypeOK'
<1> SUFFICES ASSUME TypeOK, [Next]_vars PROVE TypeOK'
  OBVIOUS
<1> USE HubAssumption DEF TypeOK, Fields, Goto, Add, rateVars, loopVars, statVars
<1>1. ASSUME NEW p \in Publishers, Begin(p) PROVE TypeOK'
  BY <1>1 DEF Begin
<1>2. ASSUME NEW p \in Publishers, LetThrough(p) PROVE TypeOK'
  BY <1>2 DEF LetThrough
<1>3. ASSUME NEW p \in Publishers, Refuse(p) PROVE TypeOK'
  BY <1>3 DEF Refuse
<1>4. ASSUME NEW p \in Publishers, Enqueue(p) PROVE TypeOK'
  BY <1>4 DEF Enqueue
<1>5. ASSUME NEW p \in Publishers, Drop(p) PROVE TypeOK'
  BY <1>5 DEF Drop
<1>6. CASE Tick
  BY <1>6 DEF Tick
<1>7. CASE NewWindow
  BY <1>7 DEF NewWindow
<1>8. CASE Receive
  BY <1>8 DEF Receive
<1>9. CASE Forward
  BY <1>9 DEF Forward
<1>10. CASE LoopEnds
  BY <1>10 DEF LoopEnds
<1>11. CASE CloseBegins
  BY <1>11 DEF CloseBegins
<1>12. CASE CloseReturns
  BY <1>12 DEF CloseReturns
<1>13. CASE ReadField
  <2>1. ReadOrder[reading] \in Fields
    BY DEF ReadOrder
  <2>2. seen' \in [Fields -> Nat]
    BY <1>13, <2>1 DEF ReadField, Zero
  <2> QED
    BY <1>13, <2>2 DEF ReadField
<1>14. CASE UNCHANGED vars
  BY <1>14 DEF vars
<1> QED
  BY <1>1, <1>2, <1>3, <1>4, <1>5, <1>6, <1>7, <1>8, <1>9, <1>10, <1>11,
     <1>12, <1>13, <1>14 DEF Next, Publishing, Loop

(* Every reachable state of the hub is well typed.                         *)
THEOREM TypeCorrect == Spec => []TypeOK
  BY InitTypeOK, NextTypeOK, PTL DEF Spec

-----------------------------------------------------------------------------
(* The account of all records.                                             *)

LEMMA PublishersFinite ==
  /\ IsFiniteSet(InPublish)
  /\ Cardinality(InPublish) \in Nat /\ Cardinality(Publishers) \in Nat
  /\ Cardinality(InPublish) <= Cardinality(Publishers)
  BY HubAssumption, FS_Subset, FS_CardinalityType DEF InPublish

LEMMA InitAccounted == Init => Accounted
<1> SUFFICES ASSUME Init PROVE Accounted
  OBVIOUS
<1>1. InPublish = {}
  BY DEF Init, InPublish
<1>2. Cardinality(InPublish) = 0
  BY <1>1, FS_EmptySet
<1> QED
  BY <1>2 DEF Init, Accounted, Zero, Fields, Losses, InHand

LEMMA NextAccounted == TypeOK /\ Accounted /\ [Next]_vars => Accounted'
<1> SUFFICES ASSUME TypeOK, Accounted, [Next]_vars PROVE Accounted'
  OBVIOUS
<1> USE DEF Fields, Goto, Add, Losses, InHand, rateVars, loopVars, statVars
<1> DEFINE N == Cardinality(InPublish)
<1>a. N \in Nat /\ count \in [Fields -> Nat] /\ queued \in Nat
  BY PublishersFinite, HubAssumption DEF TypeOK
<1>1. ASSUME NEW p \in Publishers, Begin(p) PROVE Accounted'
  <2>1. InPublish' = InPublish \cup {p} /\ p \notin InPublish
    BY <1>1 DEF Begin, InPublish, TypeOK
  <2>2. N' = N + 1
    BY <2>1, PublishersFinite, FS_AddElement
  <2> QED
    BY <1>1, <1>a, <2>2 DEF Begin, Accounted
<1>2. ASSUME NEW p \in Publishers, LetThrough(p) PROVE Accounted'
  <2>1. InPublish' = InPublish
    BY <1>2 DEF LetThrough, InPublish, TypeOK
  <2> QED
    BY <1>2, <2>1 DEF LetThrough, Accounted
<1>3. ASSUME NEW p \in Publishers, Refuse(p) \/ Enqueue(p) \/ Drop(p)
      PROVE  Accounted'
  <2>1. InPublish' = InPublish \ {p} /\ p \in InPublish
    BY <1>3 DEF Refuse, Enqueue, Drop, InPublish, TypeOK
  <2>2. N' = N - 1
    BY <2>1, PublishersFinite, FS_RemoveElement
  <2> QED
    BY <1>3, <1>a, <2>2 DEF Refuse, Enqueue, Drop, Accounted
<1>4. CASE Receive
  <2>1. InPublish' = InPublish
    BY <1>4 DEF Receive, InPublish
  <2> QED
    BY <1>4, <1>a, <2>1 DEF Receive, Accounted
<1>5. CASE Forward
  <2>1. InPublish' = InPublish
    BY <1>5 DEF Forward, InPublish
  <2> QED
    BY <1>5, <1>a, <2>1 DEF Forward, Accounted
<1>6. CASE LoopEnds
  <2>1. InPublish' = InPublish
    BY <1>6 DEF LoopEnds, InPublish
  <2> QED
    BY <1>6, <2>1 DEF LoopEnds, Accounted
<1>7. CASE UNCHANGED <<pc, count, queued, loop>>
  <2>1. InPublish' = InPublish
    BY <1>7 DEF InPublish
  <2> QED
    BY <1>7, <2>1 DEF Accounted
<1> QED
  BY <1>1, <1>2, <1>3, <1>4, <1>5, <1>6, <1>7
  DEF Next, Publishing, Loop, vars, Tick, NewWindow, CloseBegins, CloseReturns,
      ReadField

(* Every record ever published is forwarded, counted as dropped, in the    *)
(* queue, in the hand of the loop or with its publisher.                   *)
THEOREM NothingLost == Spec => []Accounted
  BY InitTypeOK, NextTypeOK, InitAccounted, NextAccounted, PTL DEF Spec

-----------------------------------------------------------------------------
(* The limit.  What passed in this window was counted in it.               *)

RateInv == passed <= rateNow /\ passed <= RateMax

LEMMA NextRateInv == TypeOK /\ RateInv /\ [Next]_vars => RateInv'
<1> SUFFICES ASSUME TypeOK, RateInv, [Next]_vars PROVE RateInv'
  OBVIOUS
<1> USE HubAssumption DEF TypeOK, RateInv, rateVars
<1>1. ASSUME NEW p \in Publishers, LetThrough(p) \/ Refuse(p) PROVE RateInv'
  BY <1>1 DEF LetThrough, Refuse
<1>2. CASE NewWindow
  BY <1>2 DEF NewWindow
<1>3. CASE UNCHANGED rateVars
  BY <1>3
<1> QED
  BY <1>1, <1>2, <1>3
  DEF Next, Publishing, Loop, vars, Begin, Enqueue, Drop, Tick, Receive,
      Forward, LoopEnds, CloseBegins, CloseReturns, ReadField

(* No window lets more than rateMax records through.                       *)
THEOREM LimitHolds == Spec => []RateRespected
<1>1. Init => RateInv
  BY HubAssumption DEF Init, RateInv
<1>2. RateInv => RateRespected
  BY DEF RateInv, RateRespected
<1> QED
  BY <1>1, <1>2, InitTypeOK, NextTypeOK, NextRateInv, PTL DEF Spec

-----------------------------------------------------------------------------
(* Stats.  Between two reads the total read first is bounded by the fields *)
(* already read and the present values of the others, which only grow.     *)

Slack == Buf + 1 + Cardinality(Publishers)

StatsInv ==
  /\ reading = 1 => seen["total"] <= seen["forwarded"] + seen["droppedRate"]
                                       + seen["droppedQueue"] + Slack
  /\ reading = 2 => seen["total"] <= count["forwarded"] + count["droppedRate"]
                                       + count["droppedQueue"] + Slack
  /\ reading = 3 => seen["total"] <= seen["forwarded"] + count["droppedRate"]
                                       + count["droppedQueue"] + Slack
  /\ reading = 4 => seen["total"] <= seen["forwarded"] + seen["droppedRate"]
                                       + count["droppedQueue"] + Slack

LEMMA InitStatsInv == Init => StatsInv
  BY HubAssumption, PublishersFinite DEF Init, StatsInv, Zero, Slack, Fields

(* No step of the hub makes a counter smaller.                             *)
LEMMA CountersGrow ==
  ASSUME TypeOK, [Next]_vars
  PROVE  \A f \in Fields : count'[f] >= count[f]
<1> USE DEF TypeOK, Add, Fields
<1>1. ASSUME NEW p \in Publishers, Begin(p) \/ Publishing(p)
      PROVE  \A f \in Fields : count'[f] >= count[f]
  BY <1>1 DEF Begin, Publishing, LetThrough, Refuse, Enqueue, Drop
<1>2. CASE Forward
  BY <1>2 DEF Forward
<1>3. CASE UNCHANGED count
  BY <1>3
<1> QED
  BY <1>1, <1>2, <1>3
  DEF Next, Loop, vars, Tick, NewWindow, Receive, LoopEnds, CloseBegins,
      CloseReturns, ReadField

LEMMA NextStatsInv == TypeOK /\ Accounted /\ StatsInv /\ [Next]_vars => StatsInv'
<1> SUFFICES ASSUME TypeOK, Accounted, StatsInv, [Next]_vars PROVE StatsInv'
  OBVIOUS
<1>a. /\ Slack \in Nat /\ Slack' = Slack
      /\ count \in [Fields -> Nat] /\ seen \in [Fields -> Nat]
      /\ count' \in [Fields -> Nat]
  BY HubAssumption, PublishersFinite, NextTypeOK DEF Slack, TypeOK
<1>1. CASE ReadField
  <2>1. UNCHANGED count
    BY <1>1 DEF ReadField
  <2>2. CASE reading = 1
    <3>1. count["total"] <= count["forwarded"] + count["droppedRate"]
                              + count["droppedQueue"] + Slack
      BY PublishersFinite, HubAssumption
      DEF Accounted, Losses, InHand, Slack, TypeOK, Fields
    <3>2. seen' = [Zero EXCEPT !["total"] = count["total"]] /\ reading' = 2
      BY <1>1, <2>2 DEF ReadField, ReadOrder
    <3>3. seen'["total"] = count["total"]
      BY <3>2 DEF Zero, Fields
    <3> QED
      BY <1>a, <2>1, <3>1, <3>2, <3>3 DEF StatsInv, Fields
  <2>3. CASE reading = 2
    <3>1. /\ seen' = [seen EXCEPT !["forwarded"] = count["forwarded"]]
          /\ reading' = 3
      BY <1>1, <2>3 DEF ReadField, ReadOrder
    <3> QED
      BY <1>a, <2>1, <2>3, <3>1 DEF StatsInv, Fields
  <2>4. CASE reading = 3
    <3>1. /\ seen' = [seen EXCEPT !["droppedRate"] = count["droppedRate"]]
          /\ reading' = 4
      BY <1>1, <2>4 DEF ReadField, ReadOrder
    <3> QED
      BY <1>a, <2>1, <2>4, <3>1 DEF StatsInv, Fields
  <2>5. CASE reading = 4
    <3>1. /\ seen' = [seen EXCEPT !["droppedQueue"] = count["droppedQueue"]]
          /\ reading' = 1
      BY <1>1, <2>5 DEF ReadField, ReadOrder
    <3> QED
      BY <1>a, <2>1, <2>5, <3>1 DEF StatsInv, Fields
  <2> QED
    BY <2>2, <2>3, <2>4, <2>5 DEF TypeOK
<1>2. CASE UNCHANGED statVars
  <2>1. /\ count'["forwarded"] >= count["forwarded"]
        /\ count'["droppedRate"] >= count["droppedRate"]
        /\ count'["droppedQueue"] >= count["droppedQueue"]
    BY CountersGrow DEF Fields
  <2> QED
    BY <1>2, <1>a, <2>1 DEF StatsInv, statVars, Fields
<1> QED
  BY <1>1, <1>2
  DEF Next, Publishing, Loop, vars, Begin, LetThrough, Refuse, Enqueue, Drop,
      Tick, NewWindow, Receive, Forward, LoopEnds, CloseBegins, CloseReturns

(* What is missing in the sum of a report fits the queue, the hand of the  *)
(* loop and the publishers: Stats hides no loss.                           *)
THEOREM ReportTrue == Spec => []StatsHideNoLoss
<1>1. TypeOK /\ StatsInv => StatsHideNoLoss
  BY PublishersFinite, HubAssumption
  DEF StatsInv, StatsHideNoLoss, Slack, Losses, TypeOK, Fields
<1> QED
  BY <1>1, InitTypeOK, NextTypeOK, InitAccounted, NextAccounted, InitStatsInv,
     NextStatsInv, PTL DEF Spec
=============================================================================
