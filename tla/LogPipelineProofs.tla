------------------------- MODULE LogPipelineProofs -------------------------
(***************************************************************************)
(* Proofs about LogPipeline, for every choice of the forwarder's topics    *)
(* and of the client's scope, every capacity of the channels and every     *)
(* number of records.                                                      *)
(***************************************************************************)
EXTENDS LogPipeline, Integers, FiniteSetTheorems, TLAPS

-----------------------------------------------------------------------------
(* Counting the records of a set in a buffer.                              *)

Places(q, S) == {k \in DOMAIN q : q[k] \in S}
Count(q, S) == Cardinality(Places(q, S))

(* One, if it is so.                                                       *)
One(b) == IF b THEN 1 ELSE 0

LEMMA CountType ==
  ASSUME NEW q \in Seq(Msgs), NEW S
  PROVE  Count(q, S) \in Nat /\ IsFiniteSet(Places(q, S))
<1>1. IsFiniteSet(1 .. Len(q))
  BY FS_Interval
<1>2. Places(q, S) \in SUBSET (1 .. Len(q))
  BY DEF Places
<1>3. IsFiniteSet(Places(q, S))
  BY <1>1, <1>2, FS_Subset
<1> QED
  BY <1>3, FS_CardinalityType DEF Count

LEMMA CountEmpty == \A S : Count(<<>>, S) = 0
<1> TAKE S
<1>1. DOMAIN <<>> = {}
  OBVIOUS
<1>2. Places(<<>>, S) = {}
  BY <1>1 DEF Places
<1> QED
  BY <1>2, FS_EmptySet DEF Count

LEMMA CountAppend ==
  ASSUME NEW q \in Seq(Msgs), NEW m \in Msgs, NEW S
  PROVE  Count(Append(q, m), S) = Count(q, S) + One(m \in S)
<1> DEFINE r == Append(q, m)  n == Len(q) + 1
<1>1. /\ Len(q) \in Nat /\ DOMAIN q = 1 .. Len(q) /\ DOMAIN r = 1 .. n
      /\ \A k \in 1 .. Len(q) : r[k] = q[k]
      /\ r[n] = m
  OBVIOUS
<1> HIDE DEF r
<1>2. n \notin Places(q, S)
  BY <1>1 DEF Places
<1>3. Places(r, S) = IF m \in S THEN Places(q, S) \cup {n} ELSE Places(q, S)
  BY <1>1 DEF Places
<1>4. CASE m \in S
  <2>1. Cardinality(Places(q, S) \cup {n}) = Count(q, S) + 1
    BY <1>2, CountType, FS_AddElement DEF Count
  <2> QED
    BY <2>1, <1>3, <1>4 DEF Count, One, r
<1>5. CASE m \notin S
  <2>1. Count(r, S) = Count(q, S)
    BY <1>3, <1>5 DEF Count
  <2> QED
    BY <2>1, <1>5, CountType DEF One, r
<1> QED
  BY <1>4, <1>5

(* The places behind the first are those of the tail, moved by one.        *)
LEMMA CountTail ==
  ASSUME NEW q \in Seq(Msgs), q # <<>>, NEW S
  PROVE  Count(q, S) = Count(Tail(q), S) + One(Head(q) \in S)
<1> DEFINE r == Tail(q)  A == Places(q, S) \ {1}  B == Places(r, S)
<1>1. /\ r \in Seq(Msgs) /\ Len(q) \in Nat /\ Len(q) > 0
      /\ DOMAIN q = 1 .. Len(q) /\ DOMAIN r = 1 .. Len(q) - 1
      /\ \A k \in 1 .. Len(q) - 1 : r[k] = q[k + 1]
      /\ Head(q) = q[1]
  OBVIOUS
<1> HIDE DEF r
<1>2. ExistsBijection(B, A)
  <2> DEFINE f == [k \in B |-> k + 1]
  <2>1. \A k \in B : k \in Nat /\ k + 1 \in A
    BY <1>1 DEF Places
  <2>2. \A k \in A : k - 1 \in B /\ (k - 1) + 1 = k
    BY <1>1 DEF Places
  <2>3. f \in [B -> A] /\ \A j, k \in B : f[j] = f[k] => j = k
    BY <2>1
  <2>4. \A k \in A : \E j \in B : f[j] = k
    BY <2>2
  <2> HIDE DEF f, A, B
  <2>5. f \in Bijection(B, A)
    BY <2>3, <2>4 DEF Bijection, Injection, Surjection, IsInjective
  <2> QED
    BY <2>5 DEF ExistsBijection
<1>3. Cardinality(A) = Count(r, S)
  BY <1>1, <1>2, CountType, FS_Bijection DEF Count
<1>4. 1 \in Places(q, S) <=> Head(q) \in S
  BY <1>1 DEF Places
<1>5. Cardinality(A) = IF 1 \in Places(q, S) THEN Count(q, S) - 1 ELSE Count(q, S)
  BY CountType, FS_RemoveElement DEF Count
<1> QED
  BY <1>1, <1>3, <1>4, <1>5, CountType DEF One, r

-----------------------------------------------------------------------------
(* The buffers.                                                            *)

LEMMA TakeFirst ==
  ASSUME NEW q \in Seq(Msgs), q # <<>>
  PROVE  Head(q) \in Msgs /\ Tail(q) \in Seq(Msgs) /\ Len(Tail(q)) = Len(q) - 1
         /\ Len(q) \in Nat /\ DOMAIN q = 1 .. Len(q) /\ 1 \in DOMAIN q /\ Head(q) = q[1]
         /\ DOMAIN Tail(q) = 1 .. Len(q) - 1
         /\ \A k \in 1 .. Len(q) - 1 : Tail(q)[k] = q[k + 1] /\ k + 1 \in DOMAIN q
OBVIOUS

LEMMA PutType ==
  ASSUME NEW q \in Seq(Msgs), NEW cap \in Nat, Len(q) <= cap, NEW m \in Msgs
  PROVE  /\ Put(q, cap, m) \in Seq(Msgs) /\ Len(Put(q, cap, m)) <= cap
         /\ \A S : Count(Put(q, cap, m), S) <= Count(q, S) + One(m \in S)
<1>1. Append(q, m) \in Seq(Msgs) /\ Len(Append(q, m)) = Len(q) + 1 /\ Len(q) \in Nat
  OBVIOUS
<1>2. CASE Len(q) < cap
  BY <1>1, <1>2, CountAppend, CountType DEF Put, One
<1>3. CASE ~ (Len(q) < cap)
  BY <1>3, CountType DEF Put, One
<1> QED
  BY <1>2, <1>3

LEMMA PublishedType ==
  ASSUME NEW q \in Seq(Msgs), Len(q) <= ChanCap, NEW m \in Msgs, NEW bus, NEW topic, NEW c
  PROVE  /\ Published(bus, topic, m, c, q) \in Seq(Msgs)
         /\ Len(Published(bus, topic, m, c, q)) <= ChanCap
BY PutType, BoundsAssumption DEF Published

ChansTyped == chan \in [Chans -> Seq(Msgs)] /\ \A c \in Chans : Len(chan[c]) <= ChanCap

LEMMA TeeLogType ==
  ASSUME ChansTyped, NEW m \in Msgs, TeeLog(m)
  PROVE  ChansTyped'
<1>1. ASSUME NEW c \in Chans
      PROVE  chan'[c] \in Seq(Msgs) /\ Len(chan'[c]) <= ChanCap
  <2> DEFINE all == Published(OnDomainBus, "all", m, c, chan[c])
  <2>1. all \in Seq(Msgs) /\ Len(all) <= ChanCap
    BY PublishedType DEF ChansTyped
  <2>2. chan'[c] = Published(OnDomainBus, m.scope, m, c, all)
    BY DEF TeeLog
  <2> HIDE DEF all
  <2> QED
    BY <2>1, <2>2, PublishedType
<1> QED
  BY <1>1 DEF ChansTyped, TeeLog

LEMMA HubPublishType ==
  ASSUME ChansTyped, NEW m \in Msgs, HubPublish(m)
  PROVE  ChansTyped'
<1>1. ASSUME NEW c \in Chans
      PROVE  chan'[c] \in Seq(Msgs) /\ Len(chan'[c]) <= ChanCap
  <2> DEFINE all == Published(OnRootBus, "all", m, c, chan[c])
             root == Published(OnRootBus, "root", m, c, all)
  <2>1. all \in Seq(Msgs) /\ Len(all) <= ChanCap
    BY PublishedType DEF ChansTyped
  <2>2. root \in Seq(Msgs) /\ Len(root) <= ChanCap
    <3> HIDE DEF all
    <3> QED
      BY <2>1, PublishedType
  <2>3. chan'[c] = Published(OnRootBus, m.scope, m, c, root)
    BY DEF HubPublish
  <2> HIDE DEF root
  <2> QED
    BY <2>2, <2>3, PublishedType
<1> QED
  BY <1>1 DEF ChansTyped, HubPublish

(* What the forwarder and the domain log, and what the gateway makes of a  *)
(* record, are records.                                                    *)
LEMMA WarningType == [id |-> 0, scope |-> "domain", relayed |-> FALSE] \in Msgs
BY TopicsAssumption, BoundsAssumption DEF Msgs

LEMMA RecordType ==
  ASSUME logged \in 0 .. MaxLogs, logged < MaxLogs, NEW s \in Scopes
  PROVE  /\ logged + 1 \in 1 .. MaxLogs
         /\ [id |-> logged + 1, scope |-> s, relayed |-> FALSE] \in Msgs
<1>1. logged + 1 \in 1 .. MaxLogs /\ logged + 1 \in 0 .. MaxLogs
  BY BoundsAssumption
<1> QED
  BY <1>1 DEF Msgs

LEMMA FromProtoType ==
  ASSUME NEW m \in Msgs, shared \in BOOLEAN
  PROVE  /\ FromProto(m) \in Msgs
         /\ FromProto(m).id = m.id /\ FromProto(m).scope = m.scope
<1> DEFINE b == shared /\ m.id # 0
<1>1. b \in BOOLEAN
  OBVIOUS
<1>2. FromProto(m) = [m EXCEPT !.relayed = b]
  BY DEF FromProto
<1> HIDE DEF b
<1> QED
  BY <1>1, <1>2 DEF Msgs

-----------------------------------------------------------------------------
(* Typing.                                                                 *)

(* The goroutine that sends ends before Run dials again; without it, one   *)
(* started by OpenOK could find a record in the hands of the last.         *)
OneSender == main \in {"dial", "open", "backoff"} => sender = "off"

(* The guard of the forwarder: no record of the root is sent to the root.  *)
NoRoot(q) == \A k \in DOMAIN q : q[k].scope # "root"

PipeInv == TypeOK /\ OneSender /\ NoRoot(hand) /\ NoRoot(wire)

LEMMA NoRootOps ==
  ASSUME NEW q \in Seq(Msgs), NoRoot(q)
  PROVE  /\ NoRoot(<<>>)
         /\ \A m \in Msgs : m.scope # "root" => NoRoot(<<m>>) /\ NoRoot(Append(q, m))
         /\ q # <<>> => NoRoot(Tail(q)) /\ Head(q).scope # "root"
<1>1. NoRoot(<<>>)
  <2>1. DOMAIN <<>> = {}
    OBVIOUS
  <2> QED
    BY <2>1 DEF NoRoot
<1>2. ASSUME NEW m \in Msgs, m.scope # "root"
      PROVE  NoRoot(<<m>>) /\ NoRoot(Append(q, m))
  <2>1. DOMAIN <<m>> = {1} /\ <<m>>[1] = m
    OBVIOUS
  <2>2. /\ Len(q) \in Nat /\ DOMAIN q = 1 .. Len(q)
        /\ DOMAIN Append(q, m) = 1 .. Len(q) + 1
        /\ \A k \in 1 .. Len(q) : Append(q, m)[k] = q[k]
        /\ Append(q, m)[Len(q) + 1] = m
    OBVIOUS
  <2> QED
    BY <1>2, <2>1, <2>2 DEF NoRoot
<1>3. q # <<>> => NoRoot(Tail(q)) /\ Head(q).scope # "root"
  BY TakeFirst DEF NoRoot
<1> QED
  BY <1>1, <1>2, <1>3

LEMMA InitPipeInv == Init => PipeInv
<1> SUFFICES ASSUME Init PROVE PipeInv
  OBVIOUS
<1>1. shared \in BOOLEAN /\ done \in BOOLEAN /\ stuck \in BOOLEAN /\ ~ stuck /\ sse \in BOOLEAN
  BY Zenon DEF Init
<1>2. <<>> \in Seq(Msgs) /\ Len(<<>>) = 0 /\ DOMAIN <<>> = {}
  OBVIOUS
<1>3. logged \in 0 .. MaxLogs /\ shown \in [1 .. MaxLogs -> 0 .. MaxShown]
  BY BoundsAssumption DEF Init
<1>4. ChansTyped /\ Len(in) <= InCap /\ Len(wire) <= WireCap
  BY <1>2, BoundsAssumption DEF Init, ChansTyped
<1> QED
  BY <1>1, <1>2, <1>3, <1>4 DEF Init, PipeInv, TypeOK, ChansTyped, OneSender, NoRoot

(* What the domain logs, and the collecting goroutines.                    *)
LEMMA CollectPipeInv ==
  ASSUME PipeInv,
         \/ \E s \in Scopes : Log(s)
         \/ \E t \in FwdTopics : Collecting(t) \/ Unsubscribe(t)
  PROVE  PipeInv'
<1> USE DEF PipeInv, OneSender
<1>0. UNCHANGED <<shared, main, sender, hand, done, conn, wire, stuck, sse, shown>>
  BY DEF Log, Collecting, Collect, CollectEnds, Unsubscribe, busVars, fwdVars, netVars,
         sseVars
<1>1. CASE \E s \in Scopes : Log(s)
  <2>1. PICK s \in Scopes : Log(s)
    BY <1>1
  <2>2. ChansTyped'
    BY <2>1, RecordType, TeeLogType DEF Log, TypeOK, ChansTyped
  <2>3. logged' \in 0 .. MaxLogs /\ UNCHANGED <<subscribed, collecting, in>>
    BY <2>1, BoundsAssumption DEF Log, collectVars, TypeOK
  <2> QED
    BY <1>0, <2>2, <2>3 DEF TypeOK, ChansTyped, NoRoot
<1>2. CASE \E t \in FwdTopics : Collect(t)
  <2>1. PICK t \in FwdTopics : Collect(t)
    BY <1>2
  <2>2. /\ chan[t] # <<>> /\ in' = Put(in, InCap, Head(chan[t]))
        /\ chan' = [chan EXCEPT ![t] = Tail(@)]
        /\ UNCHANGED <<logged, subscribed, collecting>>
    BY <2>1 DEF Collect, busVars
  <2>3. t \in Chans /\ chan[t] \in Seq(Msgs) /\ Len(chan[t]) <= ChanCap
    BY DEF Chans, TypeOK
  <2>4. /\ Head(chan[t]) \in Msgs /\ Tail(chan[t]) \in Seq(Msgs)
        /\ Len(Tail(chan[t])) <= ChanCap
    BY <2>2, <2>3, TakeFirst, BoundsAssumption
  <2>5. ChansTyped'
    BY <2>2, <2>3, <2>4 DEF TypeOK, ChansTyped
  <2>6. in' \in Seq(Msgs) /\ Len(in') <= InCap
    BY <2>2, <2>4, PutType, BoundsAssumption DEF TypeOK
  <2> QED
    BY <1>0, <2>2, <2>5, <2>6 DEF TypeOK, ChansTyped, NoRoot
<1>3. CASE \E t \in FwdTopics : CollectEnds(t) \/ Unsubscribe(t)
  <2>1. /\ subscribed' \subseteq collecting' /\ collecting' \subseteq collecting
        /\ UNCHANGED <<logged, in, chan>>
    BY <1>3 DEF CollectEnds, Unsubscribe, busVars, TypeOK
  <2> QED
    BY <1>0, <2>1 DEF TypeOK, NoRoot
<1> QED
  BY <1>1, <1>2, <1>3 DEF Collecting

(* The loop of Run.                                                        *)
LEMMA RunningPipeInv ==
  ASSUME PipeInv, ContextDone \/ Running
  PROVE  PipeInv'
<1> USE DEF PipeInv, OneSender
<1>0. UNCHANGED <<shared, logged, subscribed, collecting, in, hand, sse, shown>>
  BY DEF ContextDone, Running, Dialing, Opening, DialOK, DialFails, OpenOK, OpenFails,
         Reconnect, RunReturns, BackoffElapsed, BackoffCancelled, busVars, collectVars,
         sseVars
<1>1. CASE DialOK \/ BackoffElapsed \/ BackoffCancelled
  <2>1. /\ main \in {"dial", "backoff"} /\ main' \in {"open", "dial", "ended"}
        /\ UNCHANGED <<chan, sender, done, conn, wire, stuck>>
    BY <1>1 DEF DialOK, BackoffElapsed, BackoffCancelled, netVars
  <2> QED
    BY <1>0, <2>1 DEF TypeOK, NoRoot
<1>2. CASE DialFails \/ OpenFails
  <2>1. /\ main \in {"dial", "open"} /\ main' = "backoff" /\ Warn
        /\ UNCHANGED <<sender, done, conn, wire, stuck>>
    BY <1>2 DEF DialFails, OpenFails, netVars
  <2>2. ChansTyped'
    BY <2>1, WarningType, TeeLogType DEF Warn, TypeOK, ChansTyped
  <2> QED
    BY <1>0, <2>1, <2>2 DEF TypeOK, ChansTyped, NoRoot
<1>3. CASE OpenOK \/ RunReturns
  <2>1. /\ \/ main = "open" /\ main' = "stream" /\ sender' = "recv"
           \/ main' = "ended" /\ sender' = sender
        /\ conn' \in {"none", "up"} /\ wire' = <<>>
        /\ UNCHANGED <<chan, done>>
    BY <1>3 DEF OpenOK, RunReturns
  <2>2. stuck' \in BOOLEAN /\ ~ stuck'
    BY <1>3, Zenon DEF OpenOK, RunReturns
  <2>3. wire' \in Seq(Msgs) /\ Len(wire') <= WireCap /\ NoRoot(wire')
    BY <2>1, NoRootOps, BoundsAssumption DEF TypeOK
  <2> QED
    BY <1>0, <2>1, <2>2, <2>3 DEF TypeOK, NoRoot
<1>4. CASE Reconnect
  <2>1. /\ main' = "backoff" /\ sender = "failed" /\ sender' = "off"
        /\ conn' = "none" /\ wire' = <<>> /\ Warn /\ UNCHANGED done
    BY <1>4 DEF Reconnect
  <2>2. stuck' \in BOOLEAN /\ ~ stuck'
    BY <1>4, Zenon DEF Reconnect
  <2>3. wire' \in Seq(Msgs) /\ Len(wire') <= WireCap /\ NoRoot(wire')
    BY <2>1, NoRootOps, BoundsAssumption DEF TypeOK
  <2>4. ChansTyped'
    BY <2>1, WarningType, TeeLogType DEF Warn, TypeOK, ChansTyped
  <2> QED
    BY <1>0, <2>1, <2>2, <2>3, <2>4 DEF TypeOK, ChansTyped, NoRoot
<1>5. CASE ContextDone
  <2>1. done' \in BOOLEAN
    BY <1>5, Zenon DEF ContextDone
  <2>2. UNCHANGED <<chan, main, sender, conn, wire, stuck>>
    BY <1>5 DEF ContextDone, netVars
  <2> QED
    BY <1>0, <2>1, <2>2 DEF TypeOK, NoRoot
<1> QED
  BY <1>1, <1>2, <1>3, <1>4, <1>5 DEF Running, Dialing, Opening

(* A buffer of one record, behind another buffer.                          *)
LEMMA OneInHand ==
  ASSUME NEW q \in Seq(Msgs), NEW h \in Seq(Msgs), Len(h) = 1
  PROVE  /\ h[1] \in Msgs /\ h = <<h[1]>> /\ 1 \in DOMAIN h
         /\ q \o h = Append(q, h[1])
<1>1. h[1] \in Msgs /\ 1 \in DOMAIN h
  OBVIOUS
<1>2. h = <<h[1]>>
  <2> DEFINE r == <<h[1]>>
  <2>1. r \in Seq(Msgs) /\ Len(r) = 1 /\ r[1] = h[1]
    BY <1>1
  <2> HIDE DEF r
  <2>2. h = r
    BY <2>1
  <2> QED
    BY <2>2 DEF r
<1>3. q \o <<h[1]>> = Append(q, h[1])
  BY <1>1
<1> QED
  BY <1>1, <1>2, <1>3

LEMMA SendingPipeInv ==
  ASSUME PipeInv, Sending \/ SenderSeesDone
  PROVE  PipeInv'
<1> USE DEF PipeInv, OneSender
<1>0. UNCHANGED <<shared, logged, subscribed, collecting, chan, main, done, conn, stuck, sse,
                  shown>>
  BY DEF Sending, SkipRoot, Take, SendOK, SendFails, SenderSeesDone, busVars, collectVars,
         fwdVars, netVars, sseVars
<1>1. CASE SkipRoot \/ Take
  <2>1. /\ sender = "recv" /\ in # <<>> /\ in' = Tail(in) /\ UNCHANGED wire
        /\ \/ UNCHANGED <<sender, hand>>
           \/ Head(in).scope # "root" /\ hand' = <<Head(in)>> /\ sender' = "send"
    BY <1>1 DEF SkipRoot, Take, fwdVars, netVars
  <2>2. in \in Seq(Msgs) /\ Len(in) <= InCap
    BY DEF TypeOK
  <2>3. Head(in) \in Msgs /\ Tail(in) \in Seq(Msgs) /\ Len(Tail(in)) <= InCap
    BY <2>1, <2>2, TakeFirst, BoundsAssumption
  <2>4. <<Head(in)>> \in Seq(Msgs) /\ Len(<<Head(in)>>) = 1
    BY <2>3
  <2>5. Head(in).scope # "root" => NoRoot(<<Head(in)>>)
    BY <2>3, NoRootOps DEF TypeOK
  <2>6. NoRoot(hand') /\ NoRoot(wire')
    BY <2>1, <2>5
  <2> QED
    BY <1>0, <2>1, <2>3, <2>4, <2>6 DEF TypeOK, NoRoot
<1>2. CASE SendOK
  <2>1. /\ sender = "send" /\ Len(wire) < WireCap /\ wire' = wire \o hand
        /\ hand' = <<>> /\ sender' = "recv" /\ UNCHANGED in
    BY <1>2 DEF SendOK, collectVars
  <2>2. wire \in Seq(Msgs) /\ hand \in Seq(Msgs) /\ Len(hand) = 1
    BY <2>1 DEF TypeOK
  <2>3. hand[1] \in Msgs /\ hand[1].scope # "root" /\ wire' = Append(wire, hand[1])
    BY <2>1, <2>2, OneInHand DEF NoRoot
  <2>4. wire' \in Seq(Msgs) /\ Len(wire') <= WireCap
    BY <2>1, <2>2, <2>3, BoundsAssumption
  <2>5. NoRoot(wire') /\ NoRoot(hand')
    BY <2>1, <2>2, <2>3, NoRootOps
  <2>6. hand' \in Seq(Msgs) /\ Len(hand') = 0
    BY <2>1
  <2> QED
    BY <1>0, <2>1, <2>4, <2>5, <2>6 DEF TypeOK, NoRoot
<1>3. CASE SendFails
  <2>1. sender' = "failed" /\ sender = "send" /\ hand' = <<>> /\ UNCHANGED <<in, wire>>
    BY <1>3 DEF SendFails, collectVars, netVars
  <2>2. hand' \in Seq(Msgs) /\ Len(hand') = 0 /\ NoRoot(hand')
    BY <2>1, NoRootOps DEF TypeOK
  <2> QED
    BY <1>0, <2>1, <2>2 DEF TypeOK, NoRoot
<1>4. CASE SenderSeesDone
  <2>1. sender = "recv" /\ sender' = "closed" /\ UNCHANGED <<in, hand, wire>>
    BY <1>4 DEF SenderSeesDone, collectVars, netVars
  <2> QED
    BY <1>0, <2>1 DEF TypeOK, NoRoot
<1> QED
  BY <1>1, <1>2, <1>3, <1>4 DEF Sending

(* The network, the gateway and the SSE stream.                            *)
LEMMA RootPipeInv ==
  ASSUME PipeInv, Break \/ Relay \/ SseOpen \/ SseClose \/ \E c \in SseChans : SseRead(c)
  PROVE  PipeInv'
<1> USE DEF PipeInv, OneSender
<1>0. UNCHANGED <<shared, logged, subscribed, collecting, in, main, sender, hand, done>>
  BY DEF Break, Relay, SseOpen, SseClose, SseRead, busVars, collectVars, fwdVars
<1>1. CASE Break
  <2>1. conn' = "broken" /\ wire' = <<>> /\ UNCHANGED <<chan, sse, shown>>
    BY <1>1 DEF Break, sseVars
  <2>2. stuck' \in BOOLEAN /\ ~ stuck'
    BY <1>1, Zenon DEF Break
  <2>3. wire' \in Seq(Msgs) /\ Len(wire') <= WireCap /\ NoRoot(wire')
    BY <2>1, NoRootOps, BoundsAssumption DEF TypeOK
  <2> QED
    BY <1>0, <2>1, <2>2, <2>3 DEF TypeOK, NoRoot
<1>2. CASE Relay
  <2>1. /\ conn = "up" /\ wire # <<>> /\ wire' = Tail(wire)
        /\ HubPublish(FromProto(Head(wire)))
        /\ UNCHANGED <<conn, sse, shown>>
    BY <1>2 DEF Relay, sseVars
  <2>2. stuck' \in BOOLEAN
    BY <1>2, Zenon DEF Relay
  <2>3. wire \in Seq(Msgs) /\ Len(wire) <= WireCap /\ shared \in BOOLEAN /\ ChansTyped
    BY DEF TypeOK, ChansTyped
  <2>4. Head(wire) \in Msgs /\ wire' \in Seq(Msgs) /\ Len(wire') <= WireCap
    BY <2>1, <2>3, TakeFirst, BoundsAssumption
  <2>5. NoRoot(wire')
    BY <2>1, <2>3, NoRootOps
  <2>6. ChansTyped'
    BY <2>1, <2>3, <2>4, FromProtoType, HubPublishType
  <2> QED
    BY <1>0, <2>1, <2>2, <2>4, <2>5, <2>6 DEF TypeOK, ChansTyped, NoRoot
<1>3. CASE SseOpen \/ SseClose
  <2>1. UNCHANGED <<conn, wire, stuck, shown>>
    BY <1>3 DEF SseOpen, SseClose, netVars
  <2>2. sse' \in BOOLEAN
    BY <1>3, Zenon DEF SseOpen, SseClose
  <2>3. ChansTyped'
    <3>1. <<>> \in Seq(Msgs) /\ Len(<<>>) <= ChanCap
      BY BoundsAssumption
    <3> QED
      BY <3>1, <1>3 DEF SseOpen, SseClose, TypeOK, ChansTyped
  <2> QED
    BY <1>0, <2>1, <2>2, <2>3 DEF TypeOK, ChansTyped, NoRoot
<1>4. CASE \E c \in SseChans : SseRead(c)
  <2>1. PICK c \in SseChans : SseRead(c)
    BY <1>4
  <2>2. /\ chan[c] # <<>> /\ chan' = [chan EXCEPT ![c] = Tail(@)]
        /\ UNCHANGED <<conn, wire, stuck, sse>>
    BY <2>1 DEF SseRead, netVars
  <2>3. c \in Chans /\ chan[c] \in Seq(Msgs) /\ Len(chan[c]) <= ChanCap
    BY DEF Chans, TypeOK
  <2>4. Tail(chan[c]) \in Seq(Msgs) /\ Len(Tail(chan[c])) <= ChanCap
    BY <2>2, <2>3, TakeFirst, BoundsAssumption
  <2>5. ChansTyped'
    BY <2>2, <2>3, <2>4 DEF TypeOK, ChansTyped
  <2>6. shown' \in [1 .. MaxLogs -> 0 .. MaxShown]
    <3> DEFINE h == Head(chan[c])
    <3>1. shown' = [i \in DOMAIN shown |->
                      IF ~ shared /\ i = h.id /\ Matches(h) /\ shown[i] < MaxShown
                      THEN shown[i] + 1 ELSE shown[i]]
      BY <2>1 DEF SseRead
    <3> HIDE DEF h
    <3>2. shown \in [1 .. MaxLogs -> 0 .. MaxShown] /\ MaxShown \in Nat
      BY BoundsAssumption DEF TypeOK
    <3> QED
      BY <3>1, <3>2
  <2> QED
    BY <1>0, <2>2, <2>5, <2>6 DEF TypeOK, ChansTyped, NoRoot
<1> QED
  BY <1>1, <1>2, <1>3, <1>4

LEMMA NextPipeInv == PipeInv /\ [Next]_vars => PipeInv'
<1> SUFFICES ASSUME PipeInv, [Next]_vars PROVE PipeInv'
  OBVIOUS
<1>1. CASE \/ \E s \in Scopes : Log(s)
           \/ \E t \in FwdTopics : Collecting(t) \/ Unsubscribe(t)
  BY <1>1, CollectPipeInv
<1>2. CASE ContextDone \/ Running
  BY <1>2, RunningPipeInv
<1>3. CASE Sending \/ SenderSeesDone
  BY <1>3, SendingPipeInv
<1>4. CASE Break \/ Relay \/ SseOpen \/ SseClose \/ \E c \in SseChans : SseRead(c)
  BY <1>4, RootPipeInv
<1>5. CASE UNCHANGED vars
  BY <1>5 DEF vars, busVars, collectVars, fwdVars, netVars, sseVars, PipeInv, TypeOK,
              OneSender, NoRoot
<1> QED
  BY <1>1, <1>2, <1>3, <1>4, <1>5 DEF Next

LEMMA PipeTyped == Spec => []PipeInv
BY InitPipeInv, NextPipeInv, PTL DEF Spec

(* The pipeline has its types: no channel and no buffer of the forwarder,  *)
(* of a subscription or of the client ever holds more than its capacity,   *)
(* and the goroutine that sends holds a record only while it sends.        *)
THEOREM TypeCorrect == Spec => []TypeOK
<1>1. PipeInv => TypeOK
  BY DEF PipeInv
<1> QED
  BY <1>1, PipeTyped, PTL

-----------------------------------------------------------------------------
(* The copies of a record.                                                 *)

Copy(i) == {m \in Msgs : m.id = i}
Visible(i) == {m \in Copy(i) : Matches(m)}

(* Those the client may be shown of one the gateway has yet to publish.    *)
Factor(n) == IF SseScope = NoScope THEN n ELSE n + n

(* The copies in a subscription of the forwarder, in all of them, further  *)
(* on up to the gateway, and behind it.                                    *)
AtTopic(t, i) == IF t \in FwdTopics THEN Count(chan[t], Copy(i)) ELSE 0

Collectable(i) ==
  AtTopic("all", i) + AtTopic("root", i) + AtTopic("domain", i) + AtTopic("function", i)

Carried(i) == Count(in, Copy(i)) + Count(hand, Copy(i)) + Count(wire, Copy(i))

Behind(i) ==
  Count(chan["sse"], Visible(i))
    + (IF SseScope = NoScope THEN 0 ELSE Count(chan["sseScope"], Visible(i)))

Weight(i) == Factor(Collectable(i) + Carried(i)) + Behind(i) + shown[i]

(* What a record can still make of itself, and has: nothing before it is   *)
(* logged, and never more than two copies on their way, or what the client *)
(* is shown of them.                                                       *)
CopiesCounted ==
  ~ shared => \A i \in 1 .. MaxLogs : Weight(i) <= IF i <= logged THEN Factor(2) ELSE 0

LEMMA CopiesAreNumbers ==
  ASSUME TypeOK, NEW i \in 1 .. MaxLogs
  PROVE  /\ \A t \in Topics : AtTopic(t, i) \in Nat
         /\ Count(in, Copy(i)) \in Nat /\ Count(hand, Copy(i)) \in Nat
         /\ Count(wire, Copy(i)) \in Nat
         /\ Collectable(i) \in Nat /\ Carried(i) \in Nat /\ Behind(i) \in Nat
         /\ shown[i] \in Nat
         /\ \A c \in Chans : \A S : Count(chan[c], S) \in Nat
<1>1. \A c \in Chans : chan[c] \in Seq(Msgs)
  BY DEF TypeOK
<1>2. \A c \in Chans : \A S : Count(chan[c], S) \in Nat
  BY <1>1, CountType
<1>3. \A t \in Topics : AtTopic(t, i) \in Nat
  BY <1>2 DEF AtTopic, Chans
<1>4. /\ Count(in, Copy(i)) \in Nat /\ Count(hand, Copy(i)) \in Nat
      /\ Count(wire, Copy(i)) \in Nat
  BY CountType DEF TypeOK
<1>5. shown[i] \in Nat
  BY BoundsAssumption DEF TypeOK
<1>6. Collectable(i) \in Nat
  BY <1>3 DEF Collectable, Topics
<1>7. Carried(i) \in Nat
  BY <1>4 DEF Carried
<1>8. Behind(i) \in Nat
  BY <1>2 DEF Behind, Chans, SseChans
<1> QED
  BY <1>2, <1>3, <1>4, <1>5, <1>6, <1>7, <1>8

(* A subscription of the client is none of the forwarder's.                *)
LEMMA ChansApart ==
  /\ \A c \in SseChans : c \notin FwdTopics /\ c \in Chans
  /\ \A t \in FwdTopics : t \in Chans /\ t \in Topics /\ TopicOf(t) = t
  /\ "all" \notin Scopes
BY TopicsAssumption DEF Topics, SseChans, Chans, TopicOf

LEMMA PublishedCount ==
  ASSUME NEW q \in Seq(Msgs), Len(q) <= ChanCap, NEW m \in Msgs, NEW bus, NEW topic, NEW c,
         NEW S
  PROVE  /\ Count(Published(bus, topic, m, c, q), S) \in Nat
         /\ Count(Published(bus, topic, m, c, q), S) <= Count(q, S) + 1
         /\ ~ (c \in bus /\ topic = TopicOf(c) /\ m \in S) =>
              Count(Published(bus, topic, m, c, q), S) <= Count(q, S)
<1>1. Count(q, S) \in Nat /\ Count(Published(bus, topic, m, c, q), S) \in Nat
  BY CountType, PublishedType
<1>2. CASE c \in bus /\ topic = TopicOf(c)
  BY <1>1, <1>2, PutType, BoundsAssumption DEF Published, One
<1>3. CASE ~ (c \in bus /\ topic = TopicOf(c))
  BY <1>1, <1>3 DEF Published, One
<1> QED
  BY <1>2, <1>3

(* On the bus of a domain in a process of its own a record is published on *)
(* two topics, so that it is in at most two of the forwarder's channels;   *)
(* the client is on another bus.                                           *)
LEMMA TeeLogCopies ==
  ASSUME TypeOK, ~ shared, NEW m \in Msgs, TeeLog(m), NEW i \in 1 .. MaxLogs
  PROVE  /\ Collectable(i)' <= Collectable(i) + IF m.id = i THEN 2 ELSE 0
         /\ Collectable(i)' \in Nat
         /\ \A c \in SseChans : chan'[c] = chan[c]
<1>1. OnDomainBus \subseteq FwdTopics
  BY DEF OnDomainBus, TypeOK
<1>2. ASSUME NEW c \in SseChans PROVE chan'[c] = chan[c]
  BY <1>1, ChansApart DEF TeeLog, Published
<1>3. m \in Copy(i) <=> m.id = i
  BY DEF Copy
<1>4. ASSUME NEW t \in FwdTopics
      PROVE  /\ Count(chan'[t], Copy(i)) <= Count(chan[t], Copy(i))
                  + One(t \in {"all", m.scope} /\ m.id = i)
             /\ Count(chan'[t], Copy(i)) \in Nat
  <2> DEFINE all == Published(OnDomainBus, "all", m, t, chan[t])
  <2>1. /\ t \in Chans /\ TopicOf(t) = t /\ m.scope # "all"
        /\ chan[t] \in Seq(Msgs) /\ Len(chan[t]) <= ChanCap
    BY ChansApart DEF TypeOK, Msgs
  <2>2. /\ all \in Seq(Msgs) /\ Len(all) <= ChanCap
        /\ Count(all, Copy(i)) <= Count(chan[t], Copy(i)) + 1
        /\ ~ (t = "all" /\ m.id = i) => Count(all, Copy(i)) <= Count(chan[t], Copy(i))
    <3>1. all \in Seq(Msgs) /\ Len(all) <= ChanCap
      BY <2>1, PublishedType
    <3>2. /\ Count(all, Copy(i)) <= Count(chan[t], Copy(i)) + 1
          /\ ~ (t \in OnDomainBus /\ "all" = TopicOf(t) /\ m \in Copy(i)) =>
               Count(all, Copy(i)) <= Count(chan[t], Copy(i))
      BY <2>1, PublishedCount
    <3> QED
      BY <1>3, <2>1, <3>1, <3>2
  <2>3. chan'[t] = Published(OnDomainBus, m.scope, m, t, all)
    BY <2>1 DEF TeeLog
  <2> HIDE DEF all
  <2>4. /\ chan'[t] \in Seq(Msgs)
        /\ Count(chan'[t], Copy(i)) <= Count(all, Copy(i)) + 1
        /\ ~ (t = m.scope /\ m.id = i) => Count(chan'[t], Copy(i)) <= Count(all, Copy(i))
    <3> DEFINE r == Published(OnDomainBus, m.scope, m, t, all)
    <3>1. r \in Seq(Msgs)
      BY <2>2, PublishedType
    <3>2. /\ Count(r, Copy(i)) <= Count(all, Copy(i)) + 1
          /\ ~ (t \in OnDomainBus /\ m.scope = TopicOf(t) /\ m \in Copy(i)) =>
               Count(r, Copy(i)) <= Count(all, Copy(i))
      BY <2>2, PublishedCount
    <3>3. chan'[t] = r
      BY <2>3
    <3> HIDE DEF r
    <3> QED
      BY <1>3, <2>1, <3>1, <3>2, <3>3
  <2>5. /\ Count(chan[t], Copy(i)) \in Nat /\ Count(all, Copy(i)) \in Nat
        /\ Count(chan'[t], Copy(i)) \in Nat
    BY <2>1, <2>2, <2>4, CountType
  <2> QED
    BY <2>1, <2>2, <2>4, <2>5 DEF One
<1>5. ASSUME NEW t \in Topics
      PROVE  /\ AtTopic(t, i)' <= AtTopic(t, i) + One(t \in {"all", m.scope} /\ m.id = i)
             /\ AtTopic(t, i)' \in Nat
  BY <1>4 DEF AtTopic, One
<1>6. m.scope \in {"root", "domain", "function"}
  BY TopicsAssumption DEF Msgs, Topics
<1>7. \A t \in Topics : AtTopic(t, i) \in Nat
  BY CopiesAreNumbers
<1>8. Collectable(i)' \in Nat
  BY <1>5 DEF Collectable, Topics
<1>9. Collectable(i)' <= Collectable(i) + IF m.id = i THEN 2 ELSE 0
  <2>1. CASE m.id = i
    <3>1. /\ AtTopic("all", i)' <= AtTopic("all", i) + 1
          /\ AtTopic("root", i)' <= AtTopic("root", i) + One(m.scope = "root")
          /\ AtTopic("domain", i)' <= AtTopic("domain", i) + One(m.scope = "domain")
          /\ AtTopic("function", i)' <= AtTopic("function", i) + One(m.scope = "function")
      BY <1>5, <2>1 DEF Topics, One
    <3> QED
      BY <1>5, <1>6, <1>7, <2>1, <3>1 DEF Collectable, Topics, One
  <2>2. CASE m.id # i
    <3>1. \A t \in Topics : AtTopic(t, i)' <= AtTopic(t, i)
      BY <1>5, <1>7, <2>2 DEF One
    <3> QED
      BY <1>5, <1>7, <2>2, <3>1 DEF Collectable, Topics
  <2> QED
    BY <2>1, <2>2
<1> QED
  BY <1>2, <1>8, <1>9

(* On the bus of the root a record of another scope is published on three  *)
(* topics, of which a subscription has one.                                *)
LEMMA HubPublishCopies ==
  ASSUME TypeOK, ~ shared, NEW m \in Msgs, m.scope # "root", HubPublish(m),
         NEW i \in 1 .. MaxLogs
  PROVE  /\ Behind(i)' <= Behind(i) + IF m.id = i THEN Factor(1) ELSE 0
         /\ Behind(i)' \in Nat
         /\ \A t \in FwdTopics : chan'[t] = chan[t]
<1>1. OnRootBus \subseteq SseChans
  BY DEF OnRootBus, SseSubscribed
<1>2. ASSUME NEW t \in FwdTopics PROVE chan'[t] = chan[t]
  BY <1>1, ChansApart DEF HubPublish, Published
<1>3. m \in Visible(i) => m.id = i
  BY DEF Visible, Copy
<1>4. m.scope # "all"
  BY ChansApart DEF Msgs
<1>5. ASSUME NEW c \in SseChans
      PROVE  /\ Count(chan'[c], Visible(i)) \in Nat
             /\ Count(chan'[c], Visible(i)) <= Count(chan[c], Visible(i)) + 1
             /\ m.id # i => Count(chan'[c], Visible(i)) <= Count(chan[c], Visible(i))
  <2> DEFINE Pub(topic, q) == Published(OnRootBus, topic, m, c, q)
             all == Pub("all", chan[c])  root == Pub("root", all)
             last == Pub(m.scope, root)
  <2>1. c \in Chans /\ chan[c] \in Seq(Msgs) /\ Len(chan[c]) <= ChanCap
    BY ChansApart DEF TypeOK
  <2>2. chan'[c] = last
    BY <2>1 DEF HubPublish
  <2>3. \A topic, q : topic # TopicOf(c) => Pub(topic, q) = q
    BY DEF Published
  <2>4. PICK topic : last = Pub(topic, chan[c])
    <3> HIDE DEF Pub
    <3>1. CASE TopicOf(c) = "all"
      BY <3>1, <2>3, <1>4
    <3>2. CASE TopicOf(c) = "root"
      BY <3>2, <2>3
    <3>3. CASE TopicOf(c) \notin {"all", "root"}
      BY <3>3, <2>3
    <3> QED
      BY <3>1, <3>2, <3>3
  <2> HIDE DEF last
  <2>5. /\ Count(Pub(topic, chan[c]), Visible(i)) \in Nat
        /\ Count(Pub(topic, chan[c]), Visible(i)) <= Count(chan[c], Visible(i)) + 1
        /\ m \notin Visible(i) =>
             Count(Pub(topic, chan[c]), Visible(i)) <= Count(chan[c], Visible(i))
    BY <2>1, PublishedCount
  <2> QED
    BY <1>3, <2>2, <2>4, <2>5
<1>6. \A c \in Chans : Count(chan[c], Visible(i)) \in Nat
  BY CopiesAreNumbers
<1>7. "sse" \in SseChans /\ (SseScope # NoScope => "sseScope" \in SseChans)
  BY DEF SseChans
<1>8. Behind(i)' \in Nat
  BY <1>5, <1>7 DEF Behind
<1>9. Behind(i)' <= Behind(i) + IF m.id = i THEN Factor(1) ELSE 0
  <2>1. CASE SseScope = NoScope
    BY <1>5, <1>6, <1>7, <2>1, ChansApart DEF Behind, Factor
  <2>2. CASE SseScope # NoScope
    BY <1>5, <1>6, <1>7, <2>2, ChansApart DEF Behind, Factor
  <2> QED
    BY <2>1, <2>2
<1> QED
  BY <1>2, <1>8, <1>9

-----------------------------------------------------------------------------
(* No step but Log adds to the weight of a record.                         *)

WeightsNumbers ==
  \A i \in 1 .. MaxLogs :
    Collectable(i) \in Nat /\ Carried(i) \in Nat /\ Behind(i) \in Nat /\ shown[i] \in Nat

LEMMA WeightsAreNumbers == TypeOK => WeightsNumbers
BY CopiesAreNumbers DEF WeightsNumbers

LEMMA WeightsStayNumbers == TypeOK' => WeightsNumbers'
BY WeightsAreNumbers, PTL

LEMMA SameChans ==
  ASSUME TypeOK, NEW i \in 1 .. MaxLogs, \A t \in FwdTopics : chan'[t] = chan[t]
  PROVE  Collectable(i)' = Collectable(i)
BY DEF Collectable, AtTopic

LEMMA SameClient ==
  ASSUME TypeOK, NEW i \in 1 .. MaxLogs, \A c \in SseChans : chan'[c] = chan[c]
  PROVE  Behind(i)' = Behind(i)
BY DEF Behind, SseChans

LEMMA NotHeavier ==
  ASSUME TypeOK, TypeOK', NEW i \in 1 .. MaxLogs,
         Collectable(i)' + Carried(i)' <= Collectable(i) + Carried(i),
         Behind(i)' <= Behind(i), shown'[i] = shown[i]
  PROVE  Weight(i)' <= Weight(i)
<1>1. /\ Collectable(i) \in Nat /\ Carried(i) \in Nat /\ Behind(i) \in Nat
      /\ shown[i] \in Nat
  BY WeightsAreNumbers DEF WeightsNumbers
<1>2. Collectable(i)' \in Nat /\ Carried(i)' \in Nat /\ Behind(i)' \in Nat
  BY WeightsStayNumbers DEF WeightsNumbers
<1> QED
  BY <1>1, <1>2 DEF Weight, Factor

LEMMA CountOne == \A m \in Msgs : \A S : Count(<<m>>, S) = One(m \in S)
<1> TAKE m \in Msgs
<1> TAKE S
<1>1. <<>> \in Seq(Msgs) /\ Append(<<>>, m) = <<m>>
  OBVIOUS
<1>2. Count(Append(<<>>, m), S) = Count(<<>>, S) + One(m \in S)
  BY <1>1, CountAppend
<1> QED
  BY <1>1, <1>2, CountEmpty DEF One

(* The loop of Run loses what is in transit, and its warnings are no       *)
(* records of the domain.                                                  *)
LEMMA RunningWeight ==
  ASSUME PipeInv, PipeInv', ~ shared, NEW i \in 1 .. MaxLogs, ContextDone \/ Running
  PROVE  Weight(i)' <= Weight(i)
<1>1. /\ UNCHANGED <<in, hand, shown>> /\ (wire' = wire \/ wire' = <<>>)
      /\ chan' = chan \/ Warn
  BY DEF ContextDone, Running, Dialing, Opening, DialOK, DialFails, OpenOK, OpenFails,
         Reconnect, RunReturns, BackoffElapsed, BackoffCancelled, collectVars, netVars,
         sseVars
<1>2. TypeOK /\ TypeOK'
  BY DEF PipeInv
<1>3. Carried(i)' <= Carried(i)
  <2>1. /\ Count(in, Copy(i)) \in Nat /\ Count(hand, Copy(i)) \in Nat
        /\ Count(wire, Copy(i)) \in Nat
    BY <1>2, CopiesAreNumbers
  <2> QED
    BY <1>1, <2>1, CountEmpty DEF Carried
<1>4. Collectable(i)' <= Collectable(i) /\ Behind(i)' = Behind(i)
  <2>1. Collectable(i) \in Nat
    BY <1>2, WeightsAreNumbers DEF WeightsNumbers
  <2>2. CASE chan' = chan
    BY <1>2, <2>1, <2>2, SameChans, SameClient
  <2>3. CASE Warn
    <3> DEFINE m == [id |-> 0, scope |-> "domain", relayed |-> FALSE]
    <3>1. m \in Msgs /\ m.id = 0 /\ TeeLog(m)
      BY <2>3, WarningType DEF Warn
    <3> HIDE DEF m
    <3>2. m.id # i
      BY <3>1
    <3>3. /\ Collectable(i)' <= Collectable(i) + 0
          /\ \A c \in SseChans : chan'[c] = chan[c]
      BY <1>2, <3>1, <3>2, TeeLogCopies
    <3> QED
      BY <1>2, <2>1, <3>3, SameClient, WeightsStayNumbers DEF WeightsNumbers
  <2> QED
    BY <1>1, <2>2, <2>3
<1>5. /\ Collectable(i) \in Nat /\ Carried(i) \in Nat /\ Behind(i) \in Nat
      /\ Collectable(i)' \in Nat /\ Carried(i)' \in Nat
  BY <1>2, WeightsAreNumbers, WeightsStayNumbers DEF WeightsNumbers
<1>6. Collectable(i)' + Carried(i)' <= Collectable(i) + Carried(i) /\ Behind(i)' <= Behind(i)
  BY <1>3, <1>4, <1>5
<1> QED
  BY <1>1, <1>2, <1>6, NotHeavier

(* The goroutine that sends hands a record on, once, or loses it.          *)
LEMMA SendingWeight ==
  ASSUME PipeInv, PipeInv', ~ shared, NEW i \in 1 .. MaxLogs, Sending \/ SenderSeesDone
  PROVE  Weight(i)' <= Weight(i)
<1>1. UNCHANGED <<chan, shown>>
  BY DEF Sending, SkipRoot, Take, SendOK, SendFails, SenderSeesDone, sseVars
<1>2. TypeOK /\ TypeOK'
  BY DEF PipeInv
<1>3. in \in Seq(Msgs) /\ hand \in Seq(Msgs) /\ wire \in Seq(Msgs)
  BY <1>2 DEF TypeOK
<1> DEFINE N(q) == Count(q, Copy(i))
<1>4. \A q \in Seq(Msgs) : N(q) \in Nat
  BY CountType
<1>5. N(in') + N(hand') + N(wire') <= N(in) + N(hand) + N(wire)
  <2>1. CASE SkipRoot
    <3>1. in # <<>> /\ in' = Tail(in) /\ UNCHANGED <<hand, wire>>
      BY <2>1 DEF SkipRoot, fwdVars, netVars
    <3>2. N(in) = N(in') + One(Head(in) \in Copy(i)) /\ in' \in Seq(Msgs)
      BY <1>3, <3>1, CountTail, TakeFirst
    <3>3. N(hand') = N(hand) /\ N(wire') = N(wire)
      BY <3>1
    <3>4. N(in) \in Nat /\ N(in') \in Nat /\ N(hand) \in Nat /\ N(wire) \in Nat
      BY <1>3, <1>4, <3>2
    <3> HIDE DEF N
    <3> QED
      BY <3>2, <3>3, <3>4 DEF One
  <2>2. CASE Take
    <3>1. /\ sender = "recv" /\ in # <<>> /\ in' = Tail(in) /\ hand' = <<Head(in)>>
          /\ UNCHANGED wire
      BY <2>2 DEF Take, netVars
    <3>2. N(in) = N(in') + One(Head(in) \in Copy(i)) /\ in' \in Seq(Msgs) /\ Head(in) \in Msgs
      BY <1>3, <3>1, CountTail, TakeFirst
    <3>3. N(hand') = One(Head(in) \in Copy(i))
      BY <3>1, <3>2, CountOne
    <3> HIDE DEF N
    <3> QED
      BY <1>3, <1>4, <3>1, <3>2, <3>3 DEF One
  <2>3. CASE SendOK
    <3>1. sender = "send" /\ wire' = wire \o hand /\ hand' = <<>> /\ UNCHANGED in
      BY <2>3 DEF SendOK, collectVars
    <3>2. Len(hand) = 1
      BY <1>2, <3>1 DEF TypeOK
    <3>3. hand[1] \in Msgs /\ hand = <<hand[1]>> /\ wire' = Append(wire, hand[1])
      BY <1>3, <3>1, <3>2, OneInHand
    <3>4. N(wire') = N(wire) + One(hand[1] \in Copy(i))
      BY <1>3, <3>3, CountAppend
    <3>5. N(hand) = One(hand[1] \in Copy(i))
      BY <3>3, CountOne
    <3>6. N(hand') = 0
      BY <3>1, CountEmpty
    <3> HIDE DEF N
    <3> QED
      BY <1>3, <1>4, <3>1, <3>4, <3>5, <3>6 DEF One
  <2>4. CASE SendFails \/ SenderSeesDone
    <3>1. (hand' = <<>> \/ hand' = hand) /\ UNCHANGED <<in, wire>>
      BY <2>4 DEF SendFails, SenderSeesDone, collectVars, netVars
    <3>2. N(<<>>) = 0
      BY CountEmpty
    <3> HIDE DEF N
    <3> QED
      BY <1>3, <1>4, <3>1, <3>2
  <2> QED
    BY <2>1, <2>2, <2>3, <2>4 DEF Sending
<1>6. Carried(i)' <= Carried(i)
  BY <1>5 DEF Carried
<1>7. Collectable(i)' = Collectable(i) /\ Behind(i)' = Behind(i)
  BY <1>1, <1>2, SameChans, SameClient
<1>8. /\ Collectable(i) \in Nat /\ Carried(i) \in Nat /\ Behind(i) \in Nat
      /\ Carried(i)' \in Nat
  BY <1>2, WeightsAreNumbers, WeightsStayNumbers DEF WeightsNumbers
<1>9. Collectable(i)' + Carried(i)' <= Collectable(i) + Carried(i) /\ Behind(i)' <= Behind(i)
  BY <1>6, <1>7, <1>8
<1> QED
  BY <1>1, <1>2, <1>9, NotHeavier

(* A collecting goroutine moves a record, or drops it.                     *)
LEMMA CollectWeight ==
  ASSUME PipeInv, PipeInv', ~ shared, NEW i \in 1 .. MaxLogs,
         NEW t \in FwdTopics, Collecting(t) \/ Unsubscribe(t)
  PROVE  Weight(i)' <= Weight(i)
<1>1. UNCHANGED <<hand, wire, shown>>
  BY DEF Collecting, Collect, CollectEnds, Unsubscribe, fwdVars, netVars, sseVars
<1>2. TypeOK /\ TypeOK'
  BY DEF PipeInv
<1>3. /\ Collectable(i) \in Nat /\ Carried(i) \in Nat /\ Behind(i) \in Nat
      /\ Collectable(i)' \in Nat /\ Carried(i)' \in Nat
  BY <1>2, WeightsAreNumbers, WeightsStayNumbers DEF WeightsNumbers
<1>4. CASE CollectEnds(t) \/ Unsubscribe(t)
  <2>1. UNCHANGED <<chan, in>>
    BY <1>4 DEF CollectEnds, Unsubscribe
  <2>2. Collectable(i)' = Collectable(i) /\ Behind(i)' = Behind(i)
    BY <1>2, <2>1, SameChans, SameClient
  <2>3. Carried(i)' = Carried(i)
    BY <1>1, <2>1 DEF Carried
  <2>4. Collectable(i)' + Carried(i)' <= Collectable(i) + Carried(i) /\ Behind(i)' <= Behind(i)
    BY <1>3, <2>2, <2>3
  <2> QED
    BY <1>1, <1>2, <2>4, NotHeavier
<1>5. CASE Collect(t)
  <2> DEFINE h == Head(chan[t])  moved == One(h \in Copy(i))
  <2>1. /\ chan[t] # <<>> /\ in' = Put(in, InCap, h)
        /\ chan' = [chan EXCEPT ![t] = Tail(@)]
    BY <1>5 DEF Collect
  <2>2. /\ t \in Chans /\ t \in Topics /\ chan[t] \in Seq(Msgs)
        /\ in \in Seq(Msgs) /\ Len(in) <= InCap
        /\ chan \in [Chans -> Seq(Msgs)]
    BY <1>2, ChansApart DEF TypeOK
  <2>3. h \in Msgs
    BY <2>1, <2>2, TakeFirst
  <2>4. Count(in', Copy(i)) <= Count(in, Copy(i)) + moved
    BY <2>1, <2>2, <2>3, PutType, BoundsAssumption
  <2>5. Count(chan[t], Copy(i)) = Count(Tail(chan[t]), Copy(i)) + moved
    BY <2>1, <2>2, CountTail
  <2>6. moved \in {0, 1}
    BY DEF One
  <2> HIDE DEF h, moved
  <2>7. chan'[t] = Tail(chan[t]) /\ \A c \in Chans : c # t => chan'[c] = chan[c]
    BY <2>1, <2>2
  <2>8. AtTopic(t, i) = AtTopic(t, i)' + moved
    BY <2>5, <2>7 DEF AtTopic
  <2>9. \A u \in Topics : u # t => AtTopic(u, i)' = AtTopic(u, i)
    BY <2>7, ChansApart DEF AtTopic
  <2>10. \A u \in Topics : AtTopic(u, i) \in Nat
    BY <1>2, CopiesAreNumbers
  <2>11. AtTopic(t, i)' \in Int
    <3>1. chan'[t] \in Seq(Msgs)
      BY <1>2, <2>2 DEF TypeOK
    <3> QED
      BY <3>1, CountType DEF AtTopic
  <2>12. Collectable(i) = Collectable(i)' + moved
    <3>1. t \in {"all", "root", "domain", "function"}
      BY <2>2 DEF Topics
    <3> QED
      BY <3>1, <2>6, <2>8, <2>9, <2>10, <2>11 DEF Collectable, Topics
  <2>13. Carried(i)' <= Carried(i) + moved
    <3>1. /\ Count(in, Copy(i)) \in Nat /\ Count(hand, Copy(i)) \in Nat
          /\ Count(wire, Copy(i)) \in Nat
      BY <1>2, CopiesAreNumbers
    <3>2. Count(in', Copy(i)) \in Nat
      BY <1>2, CountType DEF TypeOK
    <3> QED
      BY <1>1, <2>4, <2>6, <3>1, <3>2 DEF Carried
  <2>14. Behind(i)' = Behind(i)
    BY <1>2, <2>7, ChansApart, SameClient
  <2>15. Collectable(i)' + Carried(i)' <= Collectable(i) + Carried(i) /\ Behind(i)' <= Behind(i)
    BY <1>3, <2>6, <2>12, <2>13, <2>14
  <2> QED
    BY <1>1, <1>2, <2>15, NotHeavier
<1> QED
  BY <1>4, <1>5 DEF Collecting

(* The gateway turns a record on the wire into what Factor allows; the     *)
(* client is shown a record that was waiting for it.                       *)
LEMMA RelayWeight ==
  ASSUME PipeInv, PipeInv', ~ shared, NEW i \in 1 .. MaxLogs, Relay
  PROVE  Weight(i)' <= Weight(i)
<1> DEFINE h == Head(wire)  m == FromProto(h)  moved == One(h.id = i)
<1>1. /\ wire # <<>> /\ wire' = Tail(wire) /\ HubPublish(m)
      /\ UNCHANGED <<in, hand, shown>>
  BY DEF Relay, collectVars, fwdVars, sseVars
<1>2. TypeOK /\ TypeOK' /\ wire \in Seq(Msgs) /\ NoRoot(wire) /\ shared \in BOOLEAN
  BY DEF PipeInv, TypeOK
<1>3. h \in Msgs /\ h.scope # "root"
  BY <1>1, <1>2, TakeFirst, NoRootOps
<1>4. m \in Msgs /\ m.id = h.id /\ m.scope # "root"
  BY <1>2, <1>3, FromProtoType
<1>5. Count(wire, Copy(i)) = Count(wire', Copy(i)) + moved
  <2>1. h \in Copy(i) <=> h.id = i
    BY <1>3 DEF Copy
  <2> QED
    BY <1>1, <1>2, <2>1, CountTail DEF One
<1> HIDE DEF h, m
<1>6. /\ Behind(i)' <= Behind(i) + IF h.id = i THEN Factor(1) ELSE 0
      /\ \A t \in FwdTopics : chan'[t] = chan[t]
  BY <1>1, <1>2, <1>4, HubPublishCopies
<1>7. /\ Collectable(i) \in Nat /\ Carried(i) \in Nat /\ Behind(i) \in Nat /\ shown[i] \in Nat
      /\ Carried(i)' \in Nat /\ Behind(i)' \in Nat
  BY <1>2, WeightsAreNumbers, WeightsStayNumbers DEF WeightsNumbers
<1>8. Carried(i) = Carried(i)' + moved
  <2>1. /\ Count(in, Copy(i)) \in Nat /\ Count(hand, Copy(i)) \in Nat
        /\ Count(wire, Copy(i)) \in Nat
    BY <1>2, CopiesAreNumbers
  <2>2. Count(wire', Copy(i)) \in Nat /\ moved \in {0, 1}
    BY <1>2, CountType DEF TypeOK, One
  <2> HIDE DEF moved
  <2> QED
    BY <1>1, <1>5, <2>1, <2>2 DEF Carried
<1>9. Collectable(i)' = Collectable(i)
  BY <1>2, <1>6, SameChans
<1>10. shown'[i] = shown[i]
  BY <1>1
<1> QED
  BY <1>6, <1>7, <1>8, <1>9, <1>10 DEF Weight, Factor, One

LEMMA ClientWeight ==
  ASSUME PipeInv, PipeInv', ~ shared, NEW i \in 1 .. MaxLogs,
         Break \/ SseOpen \/ SseClose \/ \E c \in SseChans : SseRead(c)
  PROVE  Weight(i)' <= Weight(i)
<1>1. UNCHANGED <<in, hand>> /\ (wire' = wire \/ wire' = <<>>)
  BY DEF Break, SseOpen, SseClose, SseRead, collectVars, fwdVars, netVars
<1>2. TypeOK /\ TypeOK'
  BY DEF PipeInv
<1>3. /\ Collectable(i) \in Nat /\ Carried(i) \in Nat /\ Behind(i) \in Nat /\ shown[i] \in Nat
      /\ Carried(i)' \in Nat /\ Behind(i)' \in Nat /\ shown'[i] \in Nat
  BY <1>2, WeightsAreNumbers, WeightsStayNumbers DEF WeightsNumbers
<1>4. Carried(i)' <= Carried(i)
  <2>1. /\ Count(in, Copy(i)) \in Nat /\ Count(hand, Copy(i)) \in Nat
        /\ Count(wire, Copy(i)) \in Nat
    BY <1>2, CopiesAreNumbers
  <2> QED
    BY <1>1, <2>1, CountEmpty DEF Carried
<1>5. \A t \in FwdTopics : chan'[t] = chan[t]
  BY <1>2, ChansApart DEF Break, SseOpen, SseClose, SseRead, TypeOK
<1>6. Collectable(i)' = Collectable(i)
  BY <1>2, <1>5, SameChans
<1>7. Behind(i)' + shown'[i] <= Behind(i) + shown[i]
  <2>1. CASE Break \/ SseOpen
    <3>1. chan' = chan /\ shown' = shown
      BY <2>1 DEF Break, SseOpen, sseVars
    <3> QED
      BY <1>2, <1>3, <3>1, SameClient
  <2>2. CASE SseClose
    <3>1. shown' = shown /\ \A c \in SseChans : chan'[c] = <<>>
      BY <2>2, ChansApart DEF SseClose
    <3>2. Behind(i)' = 0
      BY <3>1, CountEmpty DEF Behind, SseChans
    <3> QED
      BY <1>3, <3>1, <3>2
  <2>3. CASE \E c \in SseChans : SseRead(c)
    <3>1. PICK c \in SseChans : SseRead(c)
      BY <2>3
    <3> DEFINE h == Head(chan[c])  read == One(h \in Visible(i))
    <3>2. /\ chan[c] # <<>> /\ chan' = [chan EXCEPT ![c] = Tail(@)]
          /\ shown' = [j \in DOMAIN shown |->
                          IF ~ shared /\ j = h.id /\ Matches(h) /\ shown[j] < MaxShown
                          THEN shown[j] + 1 ELSE shown[j]]
      BY <3>1 DEF SseRead
    <3>3. c \in Chans /\ chan \in [Chans -> Seq(Msgs)] /\ chan[c] \in Seq(Msgs)
      BY <1>2, ChansApart DEF TypeOK
    <3>4. h \in Msgs /\ (h \in Visible(i) <=> i = h.id /\ Matches(h))
      BY <3>2, <3>3, TakeFirst DEF Visible, Copy
    <3>5. Count(chan[c], Visible(i)) = Count(Tail(chan[c]), Visible(i)) + read
      BY <3>2, <3>3, CountTail
    <3>6. read \in {0, 1}
      BY DEF One
    <3>7. shown'[i] <= shown[i] + read
      <4>1. i \in DOMAIN shown
        BY <1>2 DEF TypeOK
      <4> QED
        BY <1>3, <3>2, <3>4, <4>1 DEF One
    <3> HIDE DEF h, read
    <3>8. chan'[c] = Tail(chan[c]) /\ \A d \in Chans : d # c => chan'[d] = chan[d]
      BY <3>2, <3>3
    <3>9. \A d \in Chans : Count(chan[d], Visible(i)) \in Nat
      BY <1>2, CopiesAreNumbers
    <3>10. Tail(chan[c]) \in Seq(Msgs) /\ Count(Tail(chan[c]), Visible(i)) \in Nat
      BY <3>2, <3>3, TakeFirst, CountType
    <3>11. Behind(i) = Behind(i)' + read
      <4>1. CASE SseScope = NoScope
        <5>1. c = "sse"
          BY <4>1 DEF SseChans
        <5> QED
          BY <4>1, <5>1, <3>3, <3>5, <3>6, <3>8, <3>9, <3>10 DEF Behind
      <4>2. CASE SseScope # NoScope
        <5>1. c \in {"sse", "sseScope"} /\ "sse" \in Chans /\ "sseScope" \in Chans
          BY <4>2 DEF SseChans, Chans
        <5> QED
          BY <4>2, <5>1, <3>5, <3>6, <3>8, <3>9, <3>10 DEF Behind
      <4> QED
        BY <4>1, <4>2
    <3> QED
      BY <1>3, <3>6, <3>7, <3>11
  <2> QED
    BY <2>1, <2>2, <2>3
<1> QED
  BY <1>3, <1>4, <1>6, <1>7 DEF Weight, Factor

-----------------------------------------------------------------------------
(* A new record has the weight of its two copies.                          *)

LEMMA LogWeight ==
  ASSUME PipeInv, PipeInv', ~ shared, NEW i \in 1 .. MaxLogs, NEW s \in Scopes, Log(s)
  PROVE  /\ logged' = logged + 1
         /\ Weight(i)' <= Weight(i) + IF i = logged + 1 THEN Factor(2) ELSE 0
<1> DEFINE m == [id |-> logged + 1, scope |-> s, relayed |-> FALSE]
<1>1. /\ logged < MaxLogs /\ logged' = logged + 1 /\ TeeLog(m)
      /\ UNCHANGED <<in, hand, wire, shown>>
  BY DEF Log, collectVars, fwdVars, netVars, sseVars
<1>2. TypeOK /\ TypeOK' /\ logged \in 0 .. MaxLogs
  BY DEF PipeInv, TypeOK
<1>3. m \in Msgs /\ m.id = logged + 1
  BY <1>1, <1>2, RecordType
<1> HIDE DEF m
<1>4. /\ Collectable(i)' <= Collectable(i) + IF m.id = i THEN 2 ELSE 0
      /\ \A c \in SseChans : chan'[c] = chan[c]
  BY <1>1, <1>2, <1>3, TeeLogCopies
<1>5. /\ Collectable(i) \in Nat /\ Carried(i) \in Nat /\ Behind(i) \in Nat /\ shown[i] \in Nat
      /\ Collectable(i)' \in Nat
  BY <1>2, WeightsAreNumbers, WeightsStayNumbers DEF WeightsNumbers
<1>6. Carried(i)' = Carried(i) /\ shown'[i] = shown[i]
  BY <1>1 DEF Carried
<1>7. Behind(i)' = Behind(i)
  BY <1>2, <1>4, SameClient
<1> QED
  BY <1>1, <1>3, <1>4, <1>5, <1>6, <1>7 DEF Weight, Factor

LEMMA InitCopiesCounted == Init => CopiesCounted
<1> SUFFICES ASSUME Init, NEW i \in 1 .. MaxLogs
             PROVE  Weight(i) <= IF i <= logged THEN Factor(2) ELSE 0
  BY DEF CopiesCounted
<1>0. ~ (i <= logged)
  BY BoundsAssumption DEF Init
<1>1. \A c \in Chans : chan[c] = <<>>
  BY DEF Init
<1>2. \A t \in Topics : AtTopic(t, i) = 0
  BY <1>1, CountEmpty DEF AtTopic, Chans
<1>3. Collectable(i) = 0
  BY <1>2 DEF Collectable, Topics
<1>4. Carried(i) = 0
  BY CountEmpty DEF Carried, Init
<1>5. Behind(i) = 0
  BY <1>1, CountEmpty DEF Behind, Chans, SseChans
<1>6. shown[i] = 0
  BY DEF Init
<1> QED
  BY <1>0, <1>3, <1>4, <1>5, <1>6 DEF Weight, Factor

(* Only Log counts a record, and no process becomes another.               *)
LEMMA OnlyLogLogs ==
  ASSUME [Next]_vars
  PROVE  shared' = shared /\ (logged' = logged \/ \E s \in Scopes : Log(s))
BY DEF Next, Log, Collecting, Collect, CollectEnds, Unsubscribe, ContextDone, Running,
       Dialing, Opening, DialOK, DialFails, OpenOK, OpenFails, Reconnect, RunReturns,
       BackoffElapsed, BackoffCancelled, Sending, SkipRoot, Take, SendOK, SendFails,
       SenderSeesDone, Break, Relay, SseOpen, SseClose, SseRead, busVars, vars

LEMMA NextCopiesCounted ==
  PipeInv /\ PipeInv' /\ CopiesCounted /\ [Next]_vars => CopiesCounted'
<1> SUFFICES ASSUME PipeInv, PipeInv', CopiesCounted, [Next]_vars, ~ shared',
                    NEW i \in 1 .. MaxLogs
             PROVE  Weight(i)' <= IF i <= logged' THEN Factor(2) ELSE 0
  BY DEF CopiesCounted, Factor
<1>1. ~ shared
  BY OnlyLogLogs
<1>2. Weight(i) <= IF i <= logged THEN Factor(2) ELSE 0
  BY <1>1 DEF CopiesCounted
<1>3. Weight(i) \in Nat /\ Weight(i)' \in Nat /\ logged \in Nat
  <2>1. WeightsNumbers /\ WeightsNumbers'
    BY WeightsAreNumbers, WeightsStayNumbers DEF PipeInv
  <2>2. Weight(i) \in Nat
    BY <2>1 DEF WeightsNumbers, Weight, Factor
  <2>3. Weight(i)' \in Nat
    BY <2>1 DEF WeightsNumbers, Weight, Factor
  <2>4. logged \in Nat
    BY BoundsAssumption DEF PipeInv, TypeOK
  <2> QED
    BY <2>2, <2>3, <2>4
<1>4. CASE \E s \in Scopes : Log(s)
  <2>1. /\ logged' = logged + 1
        /\ Weight(i)' <= Weight(i) + IF i = logged + 1 THEN Factor(2) ELSE 0
    BY <1>1, <1>4, LogWeight
  <2> QED
    BY <1>2, <1>3, <2>1 DEF Factor
<1>5. CASE ~ \E s \in Scopes : Log(s)
  <2>1. logged' = logged
    BY <1>5, OnlyLogLogs
  <2>2. Weight(i)' <= Weight(i)
    <3>1. CASE \E t \in FwdTopics : Collecting(t) \/ Unsubscribe(t)
      BY <1>1, <3>1, CollectWeight
    <3>2. CASE ContextDone \/ Running
      BY <1>1, <3>2, RunningWeight
    <3>3. CASE Sending \/ SenderSeesDone
      BY <1>1, <3>3, SendingWeight
    <3>4. CASE Break \/ SseOpen \/ SseClose \/ \E c \in SseChans : SseRead(c)
      BY <1>1, <3>4, ClientWeight
    <3>5. CASE Relay
      BY <1>1, <3>5, RelayWeight
    <3>6. CASE UNCHANGED vars
      <4>1. UNCHANGED <<chan, in, hand, wire, shown>>
        BY <3>6 DEF vars, collectVars, fwdVars, netVars, sseVars
      <4>2. Weight(i)' = Weight(i)
        BY <4>1 DEF Weight, Collectable, AtTopic, Carried, Behind
      <4> QED
        BY <1>3, <4>2
    <3> QED
      BY <1>5, <3>1, <3>2, <3>3, <3>4, <3>5, <3>6 DEF Next
  <2> QED
    BY <1>2, <1>3, <2>1, <2>2 DEF Factor
<1> QED
  BY <1>4, <1>5

(* A domain in a process of its own: whatever streams break, whatever is   *)
(* dropped and however often the client comes back, it is shown a record   *)
(* at most twice, and at most four times when it asks for a scope.         *)
THEOREM CopiesAreBounded == Spec => []CopiesBounded
<1>1. PipeInv /\ CopiesCounted => CopiesBounded
  <2> SUFFICES ASSUME PipeInv, CopiesCounted, ~ shared, NEW i \in 1 .. MaxLogs
               PROVE  shown[i] <= Factor(2)
    BY DEF CopiesBounded, Factor
  <2>1. /\ Collectable(i) \in Nat /\ Carried(i) \in Nat /\ Behind(i) \in Nat
        /\ shown[i] \in Nat
    BY WeightsAreNumbers DEF PipeInv, WeightsNumbers
  <2>2. Weight(i) \in Nat
    BY <2>1 DEF Weight, Factor
  <2>3. Weight(i) <= Factor(2)
    BY <2>2 DEF CopiesCounted, Factor
  <2> QED
    BY <2>1, <2>3 DEF Weight, Factor
<1> QED
  BY <1>1, PipeTyped, InitCopiesCounted, NextCopiesCounted, PTL DEF Spec
=============================================================================
