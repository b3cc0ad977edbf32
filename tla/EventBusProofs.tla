--------------------------- MODULE EventBusProofs ---------------------------
(***************************************************************************)
(* Proofs about EventBus, for every number of subscriptions, publishers,   *)
(* topics and messages and every capacity of the channels.                 *)
(***************************************************************************)
EXTENDS EventBus, TLAPS

-----------------------------------------------------------------------------
(* The buffers.                                                            *)

LEMMA HeadOfBuffer ==
  ASSUME NEW S, NEW g \in Seq(S), NEW c \in Seq(S), c # <<>>
  PROVE  /\ Head(c) \in S /\ Tail(c) \in Seq(S) /\ Len(Tail(c)) = Len(c) - 1
         /\ Append(g, Head(c)) \in Seq(S)
         /\ Append(g, Head(c)) \o Tail(c) = g \o c
<1>1. Head(c) \in S /\ Tail(c) \in Seq(S) /\ Len(Tail(c)) = Len(c) - 1
  OBVIOUS
<1>2. Append(g, Head(c)) \in Seq(S)
  BY <1>1
<1>3. Append(g, Head(c)) \o Tail(c) = g \o c
  OBVIOUS
<1> QED
  BY <1>1, <1>2, <1>3

LEMMA EndOfBuffer ==
  ASSUME NEW S, NEW g \in Seq(S), NEW c \in Seq(S), NEW m \in S
  PROVE  /\ Append(c, m) \in Seq(S) /\ Len(Append(c, m)) = Len(c) + 1
         /\ g \o Append(c, m) = Append(g \o c, m)
OBVIOUS

-----------------------------------------------------------------------------
(* Typing.                                                                 *)

(* A Publish that still has copies has begun a message: the other half of  *)
(* the types' invariant, since what it sends must have a number.           *)
Numbered == \A p \in Pubs : copies[p] # {} => sent[p] > 0

LEMMA InitTypeOK == Init => TypeOK /\ Numbered
BY BoundsAssumption DEF Init, TypeOK, Numbered

LEMMA MessageIsNumbered ==
  ASSUME TypeOK, Numbered, NEW p \in Pubs, NEW s \in copies[p]
  PROVE  Message(p) \in Msgs
<1>1. sent[p] \in 0 .. MaxMsgs /\ sent[p] > 0
  BY DEF TypeOK, Numbered
<1>2. sent[p] \in 1 .. MaxMsgs
  BY <1>1, BoundsAssumption
<1> QED
  BY <1>2 DEF Message, Msgs

(* Where the loop of Publish goes on, it is well typed.                    *)
LEMMA ServedTypeOK ==
  ASSUME TypeOK, NEW p \in Pubs, NEW s \in Subs, Served(p, s),
         chan' \in [Subs -> Seq(Msgs)], \A t \in Subs : Len(chan'[t]) <= Capacity
  PROVE  TypeOK'
BY DEF Served, TypeOK, subVars

LEMMA NextTypeOK == TypeOK /\ Numbered /\ [Next]_vars => TypeOK'
<1> SUFFICES ASSUME TypeOK, Numbered, [Next]_vars PROVE TypeOK'
  OBVIOUS
<1>1. ASSUME NEW s \in Subs, NEW t \in Topics, Subscribe(s, t) PROVE TypeOK'
  BY <1>1 DEF Subscribe, TypeOK, pubVars
<1>2. ASSUME NEW s \in Subs, Cancel(s) PROVE TypeOK'
  BY <1>2 DEF Cancel, TypeOK, pubVars
<1>3. ASSUME NEW s \in Subs, Receive(s) PROVE TypeOK'
  <2>1. /\ chan[s] \in Seq(Msgs) /\ got[s] \in Seq(Msgs) /\ chan[s] # <<>>
        /\ got' = [got EXCEPT ![s] = Append(got[s], Head(chan[s]))]
        /\ chan' = [chan EXCEPT ![s] = Tail(chan[s])]
    BY <1>3 DEF Receive, TypeOK
  <2>2. /\ Append(got[s], Head(chan[s])) \in Seq(Msgs) /\ Tail(chan[s]) \in Seq(Msgs)
        /\ Len(Tail(chan[s])) = Len(chan[s]) - 1 /\ Len(chan[s]) \in Nat
    BY <2>1, HeadOfBuffer
  <2>3. got' \in [Subs -> Seq(Msgs)] /\ chan' \in [Subs -> Seq(Msgs)]
    BY <2>1, <2>2 DEF TypeOK
  <2>4. \A t \in Subs : Len(chan'[t]) <= Capacity
    BY <2>1, <2>2, BoundsAssumption DEF TypeOK
  <2> QED
    BY <1>3, <2>3, <2>4 DEF Receive, TypeOK, subVars, pubVars
<1>4. ASSUME NEW p \in Pubs, ContextDone(p) PROVE TypeOK'
  BY <1>4 DEF ContextDone, TypeOK, subVars
<1>5. ASSUME NEW p \in Pubs, NEW t \in Topics, BeginPublish(p, t) PROVE TypeOK'
  <2>1. sent[p] + 1 \in 0 .. MaxMsgs
    BY <1>5, BoundsAssumption DEF BeginPublish, TypeOK
  <2>2. sent' \in [Pubs -> 0 .. MaxMsgs]
    BY <1>5, <2>1 DEF BeginPublish, TypeOK
  <2>3. pc' \in [Pubs -> {"idle", "sending", "panicked"}] /\ copies' \in [Pubs -> SUBSET Subs]
    BY <1>5 DEF BeginPublish, TypeOK
  <2> QED
    BY <1>5, <2>2, <2>3 DEF BeginPublish, TypeOK, subVars
<1>6. ASSUME NEW p \in Pubs, NEW s \in Subs, Send(p, s) PROVE TypeOK'
  <2>0. Message(p) \in Msgs
    BY <1>6, MessageIsNumbered DEF Send
  <2>1. chan[s] \in Seq(Msgs) /\ Len(chan[s]) \in Nat /\ Len(chan[s]) < Capacity
    BY <1>6 DEF Send, CanSend, TypeOK
  <2>2. /\ Append(chan[s], Message(p)) \in Seq(Msgs)
        /\ Len(Append(chan[s], Message(p))) = Len(chan[s]) + 1
    BY <2>0, <2>1
  <2>3. chan' = [chan EXCEPT ![s] = Append(chan[s], Message(p))]
    BY <1>6 DEF Send
  <2>4. chan' \in [Subs -> Seq(Msgs)]
    BY <2>2, <2>3 DEF TypeOK
  <2>5. \A t \in Subs : Len(chan'[t]) <= Capacity
    BY <2>1, <2>2, <2>3, BoundsAssumption DEF TypeOK
  <2> QED
    BY <1>6, <2>4, <2>5, ServedTypeOK DEF Send
<1>7. ASSUME NEW p \in Pubs, NEW s \in Subs, Drop(p, s) PROVE TypeOK'
  BY <1>7, ServedTypeOK DEF Drop, TypeOK
<1>8. ASSUME NEW p \in Pubs, NEW s \in Subs, SendOnClosed(p, s) PROVE TypeOK'
  BY <1>8 DEF SendOnClosed, TypeOK, subVars
<1>9. ASSUME NEW p \in Pubs, GiveUp(p) PROVE TypeOK'
  BY <1>9 DEF GiveUp, TypeOK, subVars
<1>10. CASE UNCHANGED vars
  BY <1>10 DEF vars, TypeOK, subVars, pubVars
<1> QED
  BY <1>1, <1>2, <1>3, <1>4, <1>5, <1>6, <1>7, <1>8, <1>9, <1>10
  DEF Next, Publishing

LEMMA NextNumbered == TypeOK /\ Numbered /\ [Next]_vars => Numbered'
<1> SUFFICES ASSUME TypeOK, Numbered, [Next]_vars PROVE Numbered'
  OBVIOUS
<1>1. ASSUME NEW p \in Pubs, NEW t \in Topics, BeginPublish(p, t) PROVE Numbered'
  BY <1>1 DEF BeginPublish, TypeOK, Numbered
<1>2. ASSUME NEW p \in Pubs, NEW s, Served(p, s) PROVE Numbered'
  BY <1>2 DEF Served, TypeOK, Numbered
<1>3. ASSUME NEW p \in Pubs, GiveUp(p) PROVE Numbered'
  BY <1>3 DEF GiveUp, TypeOK, Numbered
<1>4. CASE UNCHANGED <<copies, sent>>
  BY <1>4 DEF Numbered
<1>5. ASSUME NEW s \in Subs, \/ Cancel(s) \/ Receive(s)
                             \/ \E t \in Topics : Subscribe(s, t)
      PROVE  Numbered'
  BY <1>4, <1>5 DEF Cancel, Receive, Subscribe, pubVars
<1>6. ASSUME NEW p \in Pubs, NEW s \in Subs, ContextDone(p) \/ SendOnClosed(p, s)
      PROVE  Numbered'
  BY <1>4, <1>6 DEF ContextDone, SendOnClosed
<1>7. ASSUME NEW p \in Pubs, ContextDone(p) PROVE Numbered'
  BY <1>4, <1>7 DEF ContextDone
<1>8. CASE UNCHANGED vars
  BY <1>4, <1>8 DEF vars, pubVars
<1> QED
  BY <1>1, <1>2, <1>3, <1>5, <1>6, <1>7, <1>8 DEF Next, Publishing, Send, Drop

LEMMA TypedAndNumbered == Spec => [](TypeOK /\ Numbered)
  BY InitTypeOK, NextTypeOK, NextNumbered, PTL DEF Spec

(* Every reachable state of the bus is well typed; no buffer holds more    *)
(* than its capacity.                                                      *)
THEOREM TypeCorrect == Spec => []TypeOK
  BY TypedAndNumbered, PTL

-----------------------------------------------------------------------------
(* The subscriptions.                                                      *)

(* The map holds exactly the subscriptions that are created and not        *)
(* closed, each under one topic.                                           *)
MapExact ==
  /\ open \cup closed = born /\ open \cap closed = {}
  /\ \A t, u \in Topics : t # u => subs[t] \cap subs[u] = {}

LEMMA SubscribeOpens ==
  ASSUME TypeOK, MapExact, NEW s \in Subs, NEW t \in Topics, Subscribe(s, t)
  PROVE  s \notin open \cup closed /\ open' = open \cup {s} /\ closed' = closed /\ MapExact'
<1>1. /\ s \notin open \cup closed /\ born' = born \cup {s} /\ closed' = closed
      /\ subs' = [subs EXCEPT ![t] = subs[t] \cup {s}]
  BY DEF Subscribe, MapExact
<1>2. \A u \in Topics : s \notin subs[u]
  BY <1>1 DEF open
<1>3. open' = open \cup {s}
  BY <1>1 DEF open, TypeOK
<1>4. \A u, v \in Topics : u # v => subs'[u] \cap subs'[v] = {}
  BY <1>1, <1>2 DEF MapExact, TypeOK
<1> QED
  BY <1>1, <1>3, <1>4 DEF MapExact

LEMMA CancelCloses ==
  ASSUME TypeOK, MapExact, NEW s \in Subs, Cancel(s)
  PROVE  s \in open /\ open' = open \ {s} /\ closed' = closed \cup {s} /\ MapExact'
<1>1. PICK t \in Topics : /\ s \in subs[t] /\ closed' = closed \cup {s} /\ born' = born
                          /\ subs' = [subs EXCEPT ![t] = subs[t] \ {s}]
  BY DEF Cancel
<1>2. \A u \in Topics \ {t} : s \notin subs[u]
  BY <1>1 DEF MapExact
<1>3. open' = open \ {s} /\ s \in open
  BY <1>1, <1>2 DEF open, TypeOK
<1>4. \A u, v \in Topics : u # v => subs'[u] \cap subs'[v] = {}
  BY <1>1 DEF MapExact, TypeOK
<1> QED
  BY <1>1, <1>3, <1>4 DEF MapExact

-----------------------------------------------------------------------------
(* What is delivered.                                                      *)

LEMMA DeliveredTypeOK == TypeOK => delivered \in [Subs -> Seq(Msgs)]
BY DEF TypeOK, delivered

(* Receiving moves a message from the buffer and delivers nothing.         *)
LEMMA ReceiveDelivers ==
  ASSUME TypeOK, NEW s \in Subs, Receive(s)
  PROVE  delivered' = delivered
<1>1. /\ chan[s] \in Seq(Msgs) /\ got[s] \in Seq(Msgs) /\ chan[s] # <<>>
      /\ got' = [got EXCEPT ![s] = Append(got[s], Head(chan[s]))]
      /\ chan' = [chan EXCEPT ![s] = Tail(chan[s])]
  BY DEF Receive, TypeOK
<1>2. got'[s] \o chan'[s] = got[s] \o chan[s]
  BY <1>1, HeadOfBuffer DEF TypeOK
<1>3. \A t \in Subs : got'[t] \o chan'[t] = got[t] \o chan[t]
  BY <1>1, <1>2 DEF TypeOK
<1> QED
  BY <1>3 DEF delivered

LEMMA SendDelivers ==
  ASSUME TypeOK, Numbered, NEW p \in Pubs, NEW s \in Subs, Send(p, s)
  PROVE  /\ delivered' = [delivered EXCEPT ![s] = Append(delivered[s], Message(p))]
         /\ Message(p) \in Msgs
<1>1. Message(p) \in Msgs
  BY MessageIsNumbered DEF Send
<1>2. chan[s] \in Seq(Msgs) /\ got[s] \in Seq(Msgs)
  BY DEF TypeOK
<1>3. chan' = [chan EXCEPT ![s] = Append(chan[s], Message(p))] /\ got' = got
  BY DEF Send, Served
<1>4. got'[s] \o chan'[s] = Append(got[s] \o chan[s], Message(p))
  BY <1>1, <1>2, <1>3, EndOfBuffer DEF TypeOK
<1>5. \A t \in Subs \ {s} : got'[t] \o chan'[t] = got[t] \o chan[t]
  BY <1>3 DEF TypeOK
<1>6. \A t \in Subs :
        got'[t] \o chan'[t] =
          IF t = s THEN Append(got[s] \o chan[s], Message(p)) ELSE got[t] \o chan[t]
  BY <1>4, <1>5
<1> QED
  BY <1>1, <1>6 DEF delivered

(* A delivery adds one message to what one subscription was given.         *)
LEMMA GivenOne ==
  ASSUME TypeOK, NEW s \in Subs, NEW m \in Msgs,
         delivered' = [delivered EXCEPT ![s] = Append(delivered[s], m)]
  PROVE  \A t \in Subs :
           B!Given(t)' = IF t = s THEN B!Given(t) \cup {m} ELSE B!Given(t)
<1>1. delivered \in [Subs -> Seq(Msgs)]
  BY DeliveredTypeOK
<1>2. /\ DOMAIN Append(delivered[s], m) = DOMAIN delivered[s] \cup {Len(delivered[s]) + 1}
      /\ \A k \in DOMAIN delivered[s] : Append(delivered[s], m)[k] = delivered[s][k]
      /\ Append(delivered[s], m)[Len(delivered[s]) + 1] = m
  BY <1>1
<1>3. {Append(delivered[s], m)[k] : k \in DOMAIN Append(delivered[s], m)}
        = B!Given(s) \cup {m}
  BY <1>2 DEF B!Given
<1>4. \A t \in Subs : delivered'[t] =
        IF t = s THEN Append(delivered[s], m) ELSE delivered[t]
  BY <1>1
<1>5. B!Given(s)' = B!Given(s) \cup {m}
  <2>1. delivered'[s] = Append(delivered[s], m)
    BY <1>4
  <2> QED
    BY <2>1, <1>3 DEF B!Given
<1>6. ASSUME NEW t \in Subs, t # s PROVE B!Given(t)' = B!Given(t)
  <2>1. delivered'[t] = delivered[t]
    BY <1>4, <1>6
  <2> QED
    BY <2>1 DEF B!Given
<1> QED
  BY <1>5, <1>6

(* Nothing is delivered that was not published yet; and what a Publish has *)
(* still to send, nobody in its copies has.                                *)
NothingEarly ==
  \A s \in Subs : \A m \in B!Given(s) : m.no <= sent[m.pub]

CopiesUnserved ==
  \A p \in Pubs : \A s \in copies[p] : s \in born /\ Message(p) \notin B!Given(s)

BusInv == TypeOK /\ Numbered /\ MapExact /\ NothingEarly /\ CopiesUnserved

LEMMA BusInit == Init => BusInv /\ B!Init
<1> SUFFICES ASSUME Init PROVE BusInv /\ B!Init
  OBVIOUS
<1>1. open = {} /\ closed = {} /\ born = {} /\ \A t \in Topics : subs[t] = {}
  BY DEF Init, open
<1>2. delivered = [s \in Subs |-> <<>>]
  BY DEF Init, delivered
<1>3. \A s \in Subs : B!Given(s) = {}
  <2>1. DOMAIN <<>> = {}
    OBVIOUS
  <2> QED
    BY <1>2, <2>1 DEF B!Given
<1>4. \A p \in Pubs : copies[p] = {}
  BY DEF Init
<1>5. BusInv
  BY <1>1, <1>3, <1>4, InitTypeOK DEF BusInv, MapExact, NothingEarly, CopiesUnserved
<1> QED
  BY <1>1, <1>2, <1>5 DEF B!Init, Init

(* A step of a subscriber or of a publisher is a step of Bus or none.      *)
LEMMA BusStep == BusInv /\ [Next]_vars => BusInv' /\ [B!Next]_B!vars
<1> SUFFICES ASSUME BusInv, [Next]_vars
             PROVE  /\ MapExact' /\ NothingEarly' /\ CopiesUnserved'
                    /\ B!Next \/ UNCHANGED <<open, closed, delivered, sent>>
  BY NextTypeOK, NextNumbered DEF BusInv, B!vars
<1> USE DEF BusInv
<1>0. /\ \A s \in Subs : \A m \in B!Given(s) : m \in Msgs
      /\ \A p \in Pubs : copies[p] \subseteq Subs /\ sent[p] \in Nat
  BY DeliveredTypeOK DEF B!Given, TypeOK
(* Steps that deliver nothing and begin no message.                        *)
<1>1. ASSUME UNCHANGED <<delivered, sent>>, born \subseteq born',
             \A p \in Pubs : copies'[p] \subseteq copies[p]
      PROVE  NothingEarly' /\ CopiesUnserved'
  BY <1>1 DEF NothingEarly, CopiesUnserved, Message, B!Given
<1>2. ASSUME UNCHANGED subVars PROVE MapExact' /\ open' = open /\ closed' = closed
  BY <1>2 DEF subVars, MapExact, open
<1>3. ASSUME UNCHANGED <<chan, got>> PROVE delivered' = delivered
  BY <1>3 DEF delivered
<1>4. ASSUME NEW s \in Subs, NEW t \in Topics, Subscribe(s, t)
      PROVE  MapExact' /\ NothingEarly' /\ CopiesUnserved' /\ B!Next
  <2>1. MapExact' /\ B!Open(s)
    BY <1>3, <1>4, SubscribeOpens DEF Subscribe, pubVars, B!Open
  <2> QED
    BY <1>1, <1>3, <1>4, <2>1 DEF Subscribe, pubVars, B!Next
<1>5. ASSUME NEW s \in Subs, Cancel(s)
      PROVE  MapExact' /\ NothingEarly' /\ CopiesUnserved' /\ B!Next
  <2>1. UNCHANGED <<born, chan, got, copies, sent>>
    BY <1>5 DEF Cancel, pubVars
  <2>2. MapExact' /\ B!Close(s)
    BY <1>3, <1>5, <2>1, CancelCloses DEF B!Close
  <2> QED
    BY <1>1, <1>3, <2>1, <2>2 DEF B!Next
<1>6. ASSUME NEW s \in Subs, Receive(s)
      PROVE  /\ MapExact' /\ NothingEarly' /\ CopiesUnserved'
             /\ UNCHANGED <<open, closed, delivered, sent>>
  <2>1. UNCHANGED <<delivered, sent, born, copies>>
    BY <1>6, ReceiveDelivers DEF Receive, subVars, pubVars
  <2> QED
    BY <1>1, <1>2, <1>6, <2>1 DEF Receive
<1>7. ASSUME UNCHANGED <<subVars, chan, got, sent>>,
             \A p \in Pubs : copies'[p] \subseteq copies[p]
      PROVE  /\ MapExact' /\ NothingEarly' /\ CopiesUnserved'
             /\ UNCHANGED <<open, closed, delivered, sent>>
  BY <1>1, <1>2, <1>3, <1>7 DEF subVars
<1>8. ASSUME NEW p \in Pubs, NEW t \in Topics, BeginPublish(p, t)
      PROVE  MapExact' /\ NothingEarly' /\ CopiesUnserved' /\ B!Next
  <2>1. /\ UNCHANGED <<subVars, chan, got>> /\ t \in Topics
        /\ sent' = [sent EXCEPT ![p] = sent[p] + 1]
        /\ copies' = [copies EXCEPT ![p] = subs[t]]
    BY <1>8 DEF BeginPublish
  <2>2. delivered' = delivered /\ born' = born /\ MapExact' /\ open' = open
        /\ closed' = closed
    BY <1>2, <1>3, <2>1 DEF subVars
  <2>3. \A s \in Subs : B!Given(s)' = B!Given(s)
    BY <2>2 DEF B!Given
  <2>4. \A q \in Pubs : sent'[q] = IF q = p THEN sent[p] + 1 ELSE sent[q]
    BY <2>1 DEF TypeOK
  <2>5. NothingEarly'
    <3> SUFFICES ASSUME NEW s \in Subs, NEW m \in B!Given(s) PROVE m.no <= sent'[m.pub]
      BY <2>3 DEF NothingEarly
    <3>1. m.pub \in Pubs /\ m.no \in Nat /\ m.no <= sent[m.pub]
      BY <1>0 DEF Msgs, NothingEarly
    <3> QED
      BY <1>0, <2>4, <3>1
  <2>6. CopiesUnserved'
    <3> SUFFICES ASSUME NEW q \in Pubs, NEW s \in copies'[q]
                 PROVE  s \in born /\ Message(q)' \notin B!Given(s)
      BY <1>0, <2>1, <2>2, <2>3 DEF CopiesUnserved, TypeOK
    <3>1. CASE q = p
      <4>1. s \in subs[t]
        BY <2>1, <3>1 DEF TypeOK
      <4>2. s \in born /\ s \in Subs
        BY <4>1 DEF MapExact, open, TypeOK
      <4>3. ASSUME NEW m \in B!Given(s) PROVE m # Message(q)'
        <5>1. m.pub = p => m.no <= sent[p] /\ m.no \in Nat
          BY <1>0, <4>2 DEF NothingEarly, Msgs
        <5>2. Message(q)' = [pub |-> p, no |-> sent[p] + 1]
          BY <2>4, <3>1 DEF Message
        <5> QED
          BY <1>0, <5>1, <5>2
      <4> QED
        BY <4>2, <4>3
    <3>2. CASE q # p
      <4>1. copies'[q] = copies[q] /\ Message(q)' = Message(q)
        BY <2>1, <2>4, <3>2 DEF TypeOK, Message
      <4> QED
        BY <4>1 DEF CopiesUnserved
    <3> QED
      BY <3>1, <3>2
  <2> QED
    BY <2>1, <2>2, <2>5, <2>6 DEF B!Next, B!Publish
<1>9. ASSUME NEW p \in Pubs, NEW s \in Subs, Send(p, s)
      PROVE  MapExact' /\ NothingEarly' /\ CopiesUnserved' /\ B!Next
  <2>1. /\ s \in copies[p] /\ s \notin closed
        /\ UNCHANGED <<subVars, sent>>
        /\ copies' = [copies EXCEPT ![p] = copies[p] \ {s}]
    BY <1>9 DEF Send, CanSend, Served
  <2>2. /\ delivered' = [delivered EXCEPT ![s] = Append(delivered[s], Message(p))]
        /\ Message(p) \in Msgs /\ open' = open /\ closed' = closed /\ MapExact'
    BY <1>2, <1>9, <2>1, SendDelivers
  <2>3. \A t \in Subs :
          B!Given(t)' = IF t = s THEN B!Given(t) \cup {Message(p)} ELSE B!Given(t)
    BY <2>2, GivenOne
  <2>4. NothingEarly'
    BY <1>0, <2>1, <2>3 DEF NothingEarly, Message
  <2>5. CopiesUnserved'
    <3> SUFFICES ASSUME NEW q \in Pubs, NEW t \in copies'[q]
                 PROVE  t \in born /\ Message(q) \notin B!Given(t)'
      BY <2>1 DEF CopiesUnserved, Message, subVars
    <3>1. t \in copies[q] /\ t \in Subs /\ ~ (q = p /\ t = s)
      BY <1>0, <2>1 DEF TypeOK
    <3>2. t \in born /\ Message(q) \notin B!Given(t)
      BY <3>1 DEF CopiesUnserved
    <3>3. t = s => Message(q) # Message(p)
      BY <3>1 DEF Message
    <3> QED
      BY <2>3, <3>1, <3>2, <3>3
  <2>6. B!Deliver(p, s)
    <3>1. s \in open /\ Message(p) \notin B!Given(s)
      BY <2>1 DEF MapExact, CopiesUnserved
    <3>2. sent[p] > 0
      BY <2>1 DEF Numbered
    <3> QED
      BY <2>1, <2>2, <3>1, <3>2 DEF B!Deliver, Message
  <2> QED
    BY <2>2, <2>4, <2>5, <2>6 DEF B!Next
<1>10. ASSUME NEW p \in Pubs, NEW s \in Subs, Drop(p, s) \/ SendOnClosed(p, s)
       PROVE  /\ UNCHANGED <<subVars, chan, got, sent>>
              /\ \A q \in Pubs : copies'[q] \subseteq copies[q]
  BY <1>10 DEF Drop, SendOnClosed, Served, TypeOK
<1>11. ASSUME NEW p \in Pubs, GiveUp(p) \/ ContextDone(p)
       PROVE  /\ UNCHANGED <<subVars, chan, got, sent>>
              /\ \A q \in Pubs : copies'[q] \subseteq copies[q]
  BY <1>11 DEF GiveUp, ContextDone, TypeOK
<1>12. CASE UNCHANGED vars
  BY <1>7, <1>12 DEF vars, pubVars
<1> QED
  BY <1>4, <1>5, <1>6, <1>7, <1>8, <1>9, <1>10, <1>11, <1>12 DEF Next, Publishing

LEMMA BusAlways == Spec => []BusInv
  BY BusInit, BusStep, PTL DEF Spec

(* The locks, the copies taken under them and the buffers keep what the    *)
(* port promises, however Publish, Subscribe, cancel and the readers       *)
(* interleave: every step of the bus is a step of Bus or changes nothing   *)
(* that Bus sees.                                                          *)
THEOREM RefinesBus == Spec => ImplementsBus
  BY BusInit, BusStep, PTL DEF Spec, ImplementsBus, B!Spec

-----------------------------------------------------------------------------
(* The order of what is delivered.                                         *)

(* A delivery appends the message its publisher is publishing: all that    *)
(* the subscription was given of that publisher before is older.           *)
LEMMA DeliverInOrder ==
  ASSUME BusInv, B!AtMostOnceInOrder, NEW s \in Subs, NEW p \in Pubs, B!Deliver(p, s)
  PROVE  B!AtMostOnceInOrder'
<1> DEFINE m == [pub |-> p, no |-> sent[p]]
           old == delivered[s]
<1>1. delivered \in [Subs -> Seq(Msgs)] /\ old \in Seq(Msgs) /\ sent[p] \in Nat
  BY DeliveredTypeOK DEF BusInv, TypeOK
<1>2. delivered' = [delivered EXCEPT ![s] = Append(old, m)] /\ m \notin B!Given(s)
  BY DEF B!Deliver
<1>3. /\ \A t \in Subs \ {s} : delivered'[t] = delivered[t]
      /\ delivered'[s] = Append(old, m)
  BY <1>1, <1>2
<1>4. /\ Len(old) \in Nat
      /\ DOMAIN old = 1 .. Len(old) /\ DOMAIN Append(old, m) = 1 .. Len(old) + 1
      /\ \A k \in 1 .. Len(old) : Append(old, m)[k] = old[k] /\ old[k] \in Msgs
      /\ Append(old, m)[Len(old) + 1] = m
  BY <1>1
<1>5. \A k \in 1 .. Len(old) : old[k].pub = p => old[k].no < sent[p]
  <2> SUFFICES ASSUME NEW k \in 1 .. Len(old), old[k].pub = p
               PROVE  old[k].no < sent[p]
    OBVIOUS
  <2>1. old[k] \in B!Given(s)
    BY <1>4 DEF B!Given
  <2>2. old[k] \in Msgs /\ old[k].no <= sent[p] /\ old[k] # m
    BY <1>2, <1>4, <2>1 DEF BusInv, NothingEarly
  <2>3. old[k].no # sent[p] /\ old[k].no \in Nat
    BY <2>2 DEF Msgs
  <2> QED
    BY <1>1, <2>2, <2>3
<1> SUFFICES ASSUME NEW t \in Subs, NEW j \in DOMAIN delivered'[t],
                    NEW k \in DOMAIN delivered'[t],
                    j < k, delivered'[t][j].pub = delivered'[t][k].pub
             PROVE  delivered'[t][j].no < delivered'[t][k].no
  BY DEF B!AtMostOnceInOrder
<1>6. CASE t # s
  BY <1>3, <1>6 DEF B!AtMostOnceInOrder
<1>7. CASE t = s /\ k <= Len(old)
  <2>1. /\ j \in DOMAIN old /\ k \in DOMAIN old
        /\ delivered'[s][j] = old[j] /\ delivered'[s][k] = old[k]
    BY <1>3, <1>4, <1>7
  <2> QED
    BY <1>7, <2>1 DEF B!AtMostOnceInOrder
<1>8. CASE t = s /\ k = Len(old) + 1
  <2>1. j \in 1 .. Len(old) /\ delivered'[s][j] = old[j] /\ delivered'[s][k] = m
    BY <1>3, <1>4, <1>8
  <2> QED
    BY <1>5, <1>8, <2>1
<1> QED
  BY <1>3, <1>4, <1>6, <1>7, <1>8

LEMMA OrderStep ==
  BusInv /\ B!AtMostOnceInOrder /\ [B!Next]_B!vars => B!AtMostOnceInOrder'
<1> SUFFICES ASSUME BusInv, B!AtMostOnceInOrder, B!Next \/ UNCHANGED B!vars
             PROVE  B!AtMostOnceInOrder'
  OBVIOUS
<1>1. ASSUME delivered' = delivered PROVE B!AtMostOnceInOrder'
  BY <1>1 DEF B!AtMostOnceInOrder
<1>2. ASSUME NEW s \in Subs, NEW p \in Pubs, B!Deliver(p, s) PROVE B!AtMostOnceInOrder'
  BY <1>2, DeliverInOrder
<1> QED
  BY <1>1, <1>2 DEF B!Next, B!Open, B!Close, B!Publish, B!vars

LEMMA OrderInit == Init => B!AtMostOnceInOrder
<1> SUFFICES ASSUME Init PROVE \A s \in Subs : DOMAIN delivered[s] = {}
  BY DEF B!AtMostOnceInOrder
<1>1. delivered = [s \in Subs |-> <<>>]
  BY DEF Init, delivered
<1>2. DOMAIN <<>> = {}
  OBVIOUS
<1> QED
  BY <1>1, <1>2

(* "EventBus - in-memory, at-most-once" (platform/ports/ports.go:13): what *)
(* a subscriber receives, with what is left for it in its channel, holds   *)
(* no message twice and those of one publisher in the order they were      *)
(* published, although copies of a topic outlive its subscriptions.        *)
THEOREM AtMostOnce == Spec => []B!AtMostOnceInOrder
  BY OrderInit, OrderStep, BusInit, BusStep, PTL DEF Spec

-----------------------------------------------------------------------------
(* The copies a Publish begins with.                                       *)

(* Under the read lock the map holds no closed subscription, so none is in *)
(* the copies taken there; no other step begins a message.                 *)
LEMMA BeginOpen ==
  ASSUME TypeOK, MapExact, NEW p \in Pubs, NEW t \in Topics, BeginPublish(p, t)
  PROVE  \A q \in Pubs : sent'[q] # sent[q] => copies'[q] \cap closed' = {}
<1>1. /\ sent' = [sent EXCEPT ![p] = sent[p] + 1]
      /\ copies' = [copies EXCEPT ![p] = subs[t]]
      /\ closed' = closed
  BY DEF BeginPublish, subVars
<1>2. subs[t] \subseteq open /\ open \cap closed = {}
  BY DEF MapExact, open, TypeOK
<1>3. copies'[p] \cap closed' = {}
  BY <1>1, <1>2 DEF TypeOK
<1>4. \A q \in Pubs : q # p => sent'[q] = sent[q]
  BY <1>1 DEF TypeOK
<1> QED
  BY <1>3, <1>4

(* Every Publish begins with subscribers that are all open: where a send   *)
(* panics, the cancel came between the copy and the send.                  *)
THEOREM PublishBeginsOpen == Spec => BeginsOpen
<1> DEFINE Opens == \A p \in Pubs : sent'[p] # sent[p] => copies'[p] \cap closed' = {}
<1>1. BusInv /\ [Next]_vars => Opens
  <2> SUFFICES ASSUME BusInv, [Next]_vars PROVE Opens
    OBVIOUS
  <2>1. ASSUME NEW p \in Pubs, NEW t \in Topics, BeginPublish(p, t) PROVE Opens
    BY <2>1, BeginOpen DEF BusInv
  <2>2. CASE UNCHANGED sent
    BY <2>2
  <2> QED
    BY <2>1, <2>2 DEF Next, Publishing, vars, pubVars, Subscribe, Cancel, Receive,
                      ContextDone, Send, Drop, Served, SendOnClosed, GiveUp
<1>2. BusInv /\ [Next]_vars => [Opens]_vars
  BY <1>1
<1> QED
  BY <1>2, BusAlways, PTL DEF Spec, BeginsOpen
=============================================================================
