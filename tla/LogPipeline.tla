---------------------------- MODULE LogPipeline ----------------------------
(***************************************************************************)
(* The way of a log record: the tee logger of a domain                     *)
(* (platform/ports/tee_logger_gen.go) publishes it on the domain's bus,    *)
(* the forwarder (kernels/infra/log-forwarder) sends it over a gRPC stream *)
(* to the gateway of the root kernel, whose hub publishes it on the root's *)
(* bus, where an SSE stream of the admin server reads it.  A domain of     *)
(* mode inproc lives in the root's process and both buses are one: shared. *)
(*                                                                         *)
(* The bus is taken as EventBus shows it to be: it never waits, and a      *)
(* subscription whose buffer is full misses the message.  A Log, and a     *)
(* Publish of the hub, is one step although it calls Publish once for each *)
(* topic: every topic fills channels of its own.  gRPC is a stream that    *)
(* keeps the order and may break at any time, losing what it holds.        *)
(***************************************************************************)
EXTENDS Naturals, Sequences

CONSTANTS
  Scopes,     (* the scopes of the kernels that log                         *)
  FwdTopics,  (* f.topics                                                   *)
  SseScope,   (* the scope an SSE client asks for, or NoScope               *)
  NoScope,
  ChanCap,    (* buffer of a subscription, 16 in the code                   *)
  InCap,      (* of the forwarder's channel in, 256 in the code             *)
  WireCap,    (* bound of the model: records in transit                     *)
  MaxLogs,    (* bound of the model: records logged by the domain           *)
  MaxShown    (* bound of the model: from here on copies are not counted    *)

Topics == {"all", "root", "domain", "function"}
SseChans == {"sse"} \cup IF SseScope = NoScope THEN {} ELSE {"sseScope"}
Chans == FwdTopics \cup SseChans

ASSUME TopicsAssumption ==
  /\ "domain" \in Scopes /\ Scopes \subseteq Topics \ {"all"}
  /\ FwdTopics \subseteq Topics
  /\ SseScope \in Scopes \cup {NoScope} /\ NoScope \notin Scopes

ASSUME BoundsAssumption ==
  /\ ChanCap \in Nat \ {0} /\ InCap \in Nat \ {0} /\ WireCap \in Nat \ {0}
  /\ MaxLogs \in Nat /\ MaxShown \in Nat

(* A record is named by its number; 0 are the warnings of the forwarder.   *)
(* relayed is history, kept for the records of a shared process: the       *)
(* gateway has published this copy.                                        *)
Msgs == [id : 0 .. MaxLogs, scope : Scopes, relayed : BOOLEAN]

VARIABLES
  shared,      (* the domain and the root are one process                   *)
  logged,      (* how many records the domain has logged                    *)
  subscribed,  (* the topics the forwarder is subscribed to                 *)
  collecting,  (* the topics whose collecting goroutine has not ended       *)
  chan,        (* the buffers of all subscriptions                          *)
  in,          (* the channel the collecting goroutines fill                *)
  main,        (* where Run of the forwarder stands                         *)
  sender,      (* where the goroutine that sends stands                     *)
  hand,        (* the record it holds, if any                               *)
  done,        (* the context of Run is done                                *)
  conn,        (* the stream: none, up or broken                            *)
  wire,        (* the records in transit                                    *)
  stuck,       (* PushLogs waits to send an acknowledgement                 *)
  sse,         (* an SSE client is connected                                *)
  shown        (* history, kept for a domain in a process of its own: how   *)
               (* many copies of a record the client was shown              *)

busVars == <<logged, shared>>
collectVars == <<subscribed, collecting, in>>
fwdVars == <<main, sender, hand, done>>
netVars == <<conn, wire, stuck>>
sseVars == <<sse, shown>>
vars == <<busVars, collectVars, chan, fwdVars, netVars, sseVars>>

TypeOK ==
  /\ shared \in BOOLEAN /\ logged \in 0 .. MaxLogs
  /\ subscribed \subseteq collecting /\ collecting \subseteq FwdTopics
  /\ chan \in [Chans -> Seq(Msgs)]
  /\ \A c \in Chans : Len(chan[c]) <= ChanCap
  /\ in \in Seq(Msgs) /\ Len(in) <= InCap
  /\ main \in {"dial", "open", "stream", "backoff", "ended"}
  /\ sender \in {"off", "recv", "send", "failed", "closed"}
  /\ hand \in Seq(Msgs) /\ Len(hand) = IF sender = "send" THEN 1 ELSE 0
  /\ done \in BOOLEAN
  /\ conn \in {"none", "up", "broken"}
  /\ wire \in Seq(Msgs) /\ Len(wire) <= WireCap
  /\ stuck \in BOOLEAN /\ (stuck => conn = "up")
  /\ sse \in BOOLEAN
  /\ shown \in [1 .. MaxLogs -> 0 .. MaxShown]

Init ==
  /\ shared \in BOOLEAN /\ logged = 0
  /\ subscribed = FwdTopics /\ collecting = FwdTopics
  /\ chan = [c \in Chans |-> <<>>]
  /\ in = <<>>
  /\ main = "dial" /\ sender = "off" /\ hand = <<>> /\ done = FALSE
  /\ conn = "none" /\ wire = <<>> /\ stuck = FALSE
  /\ sse = FALSE
  /\ shown = [i \in 1 .. MaxLogs |-> 0]

-----------------------------------------------------------------------------
(* The bus.                                                                *)

(* A send with a default case, which drops when the buffer is full.        *)
Put(q, cap, m) == IF Len(q) < cap THEN Append(q, m) ELSE q

TopicOf(c) ==
  CASE c = "sse" -> "all" [] c = "sseScope" -> SseScope [] OTHER -> c

(* The subscriptions on the domain's bus and on the root's.                *)
SseSubscribed == IF sse THEN SseChans ELSE {}
OnDomainBus == subscribed \cup IF shared THEN SseSubscribed ELSE {}
OnRootBus == SseSubscribed \cup IF shared THEN subscribed ELSE {}

(* What Publish of a bus on one topic makes of the buffer q of c.          *)
Published(bus, topic, m, c, q) ==
  IF c \in bus /\ topic = TopicOf(c) THEN Put(q, ChanCap, m) ELSE q

(* teeLogger.Log: the general topic, and that of the scope.                *)
TeeLog(m) ==
  chan' = [c \in Chans |->
             LET all == Published(OnDomainBus, "all", m, c, chan[c])
             IN  Published(OnDomainBus, m.scope, m, c, all)]

(* Records of the scope of the root are logged in its process only.        *)
Log(scope) ==
  /\ logged < MaxLogs
  /\ scope = "root" => shared
  /\ logged' = logged + 1
  /\ TeeLog([id |-> logged + 1, scope |-> scope, relayed |-> FALSE])
  /\ UNCHANGED <<shared, collectVars, fwdVars, netVars, sseVars>>

(* f.log: the forwarder logs through the logger of the domain.             *)
Warn == TeeLog([id |-> 0, scope |-> "domain", relayed |-> FALSE])

-----------------------------------------------------------------------------
(* The forwarder collects.                                                 *)

(* Faults: a collecting goroutine that waits for room; one that never      *)
(* drops.                                                                  *)
CollectWaits(t) ==
  /\ t \in collecting /\ chan[t] # <<>> /\ Len(in) < InCap
  /\ in' = Append(in, Head(chan[t]))
  /\ chan' = [chan EXCEPT ![t] = Tail(@)]
  /\ UNCHANGED <<busVars, subscribed, collecting, fwdVars, netVars, sseVars>>

CollectUnbounded(t) ==
  /\ t \in collecting /\ chan[t] # <<>>
  /\ in' = Append(in, Head(chan[t]))
  /\ chan' = [chan EXCEPT ![t] = Tail(@)]
  /\ UNCHANGED <<busVars, subscribed, collecting, fwdVars, netVars, sseVars>>

Collect(t) ==
  /\ t \in collecting /\ chan[t] # <<>>
  /\ in' = Put(in, InCap, Head(chan[t]))
  /\ chan' = [chan EXCEPT ![t] = Tail(@)]
  /\ UNCHANGED <<busVars, subscribed, collecting, fwdVars, netVars, sseVars>>

(* The subscription is cancelled, by the bus when the context is done or   *)
(* by the deferred calls of Run, and its channel closed ...                *)
Unsubscribe(t) ==
  /\ t \in subscribed /\ (done \/ main = "ended")
  /\ subscribed' = subscribed \ {t}
  /\ UNCHANGED <<busVars, collecting, in, chan, fwdVars, netVars, sseVars>>

(* ... and its range loop ends behind the last message.                    *)
CollectEnds(t) ==
  /\ t \in collecting \ subscribed /\ chan[t] = <<>>
  /\ collecting' = collecting \ {t}
  /\ UNCHANGED <<busVars, subscribed, in, chan, fwdVars, netVars, sseVars>>

-----------------------------------------------------------------------------
(* The forwarder connects: the loop of Run.                                *)

ContextDone ==
  /\ ~ done
  /\ done' = TRUE
  /\ UNCHANGED <<busVars, collectVars, chan, main, sender, hand, netVars, sseVars>>

DialOK ==
  /\ main = "dial"
  /\ main' = "open"
  /\ UNCHANGED <<busVars, collectVars, chan, sender, hand, done, netVars, sseVars>>

DialFails ==
  /\ main = "dial"
  /\ main' = "backoff"
  /\ Warn
  /\ UNCHANGED <<busVars, collectVars, sender, hand, done, netVars, sseVars>>

(* The stream opens and the goroutine that sends starts.                   *)
OpenOK ==
  /\ main = "open"
  /\ main' = "stream"
  /\ sender' = "recv"
  /\ conn' = "up" /\ wire' = <<>> /\ stuck' = FALSE
  /\ UNCHANGED <<busVars, collectVars, chan, hand, done, sseVars>>

OpenFails ==
  /\ main = "open"
  /\ main' = "backoff"
  /\ Warn
  /\ UNCHANGED <<busVars, collectVars, sender, hand, done, netVars, sseVars>>

(* sendErr holds an error: reconnect.  What is in transit is lost.         *)
Reconnect ==
  /\ main = "stream" /\ sender = "failed"
  /\ main' = "backoff"
  /\ sender' = "off"
  /\ conn' = "none" /\ wire' = <<>> /\ stuck' = FALSE
  /\ Warn
  /\ UNCHANGED <<busVars, collectVars, hand, done, sseVars>>

(* The context is done, or sendErr was closed without an error.            *)
RunReturns ==
  /\ main = "stream" /\ (done \/ sender = "closed")
  /\ main' = "ended"
  /\ conn' = "none" /\ wire' = <<>> /\ stuck' = FALSE
  /\ UNCHANGED <<busVars, collectVars, chan, sender, hand, done, sseVars>>

BackoffElapsed ==
  /\ main = "backoff"
  /\ main' = "dial"
  /\ UNCHANGED <<busVars, collectVars, chan, sender, hand, done, netVars, sseVars>>

(* Fault: a plain sleep.                                                   *)
BackoffSleeps == main = "backoff" /\ done /\ FALSE

BackoffCancelled ==
  /\ main = "backoff" /\ done
  /\ main' = "ended"
  /\ UNCHANGED <<busVars, collectVars, chan, sender, hand, done, netVars, sseVars>>

-----------------------------------------------------------------------------
(* The forwarder sends.                                                    *)

SenderSeesDone ==
  /\ sender = "recv" /\ done
  /\ sender' = "closed"
  /\ UNCHANGED <<busVars, collectVars, chan, main, hand, done, netVars, sseVars>>

(* Records of the root are not sent back to the root.  The guard has a     *)
(* second half, for the KernelID "rk": that is the id of the root kernel,  *)
(* whose records bear the scope "root" as well, so the scope stands for    *)
(* both while no domain is given that id.                                  *)
SkipRoot ==
  /\ sender = "recv" /\ in # <<>> /\ Head(in).scope = "root"
  /\ in' = Tail(in)
  /\ UNCHANGED <<busVars, subscribed, collecting, chan, fwdVars, netVars, sseVars>>

Take ==
  /\ sender = "recv" /\ in # <<>> /\ Head(in).scope # "root"
  /\ in' = Tail(in)
  /\ hand' = <<Head(in)>>
  /\ sender' = "send"
  /\ UNCHANGED <<busVars, subscribed, collecting, chan, main, done, netVars, sseVars>>

(* Fault: the record is kept for a retry although it was sent.             *)
SendKeeps ==
  /\ sender = "send" /\ conn = "up" /\ Len(wire) < WireCap
  /\ wire' = wire \o hand
  /\ UNCHANGED <<busVars, collectVars, chan, fwdVars, conn, stuck, sseVars>>

(* stream.Send waits while the stream has no room.                         *)
SendOK ==
  /\ sender = "send" /\ conn = "up" /\ Len(wire) < WireCap
  /\ wire' = wire \o hand
  /\ hand' = <<>>
  /\ sender' = "recv"
  /\ UNCHANGED <<busVars, collectVars, chan, main, done, conn, stuck, sseVars>>

(* Fault: the goroutine returns without a word.                            *)
SendFailsSilently ==
  /\ sender = "send" /\ (conn # "up" \/ done)
  /\ hand' = <<>>
  /\ sender' = "off"
  /\ UNCHANGED <<busVars, collectVars, chan, main, done, netVars, sseVars>>

(* The stream is broken, closed or cancelled with the context: the record  *)
(* is lost, the error waits in sendErr, which has room for it.             *)
SendFails ==
  /\ sender = "send" /\ (conn # "up" \/ done)
  /\ hand' = <<>>
  /\ sender' = "failed"
  /\ UNCHANGED <<busVars, collectVars, chan, main, done, netVars, sseVars>>

-----------------------------------------------------------------------------
(* The network and the root.                                               *)

Break ==
  /\ conn = "up"
  /\ conn' = "broken" /\ wire' = <<>> /\ stuck' = FALSE
  /\ UNCHANGED <<busVars, collectVars, chan, fwdVars, sseVars>>

(* LogHub.Publish: the general topic, that of the root, that of the scope. *)
HubPublish(m) ==
  chan' = [c \in Chans |->
             LET all  == Published(OnRootBus, "all", m, c, chan[c])
                 root == Published(OnRootBus, "root", m, c, all)
             IN  Published(OnRootBus, m.scope, m, c, root)]

(* ToProto and FromProto keep the scope and all that names a record.       *)
FromProto(m) == [m EXCEPT !.relayed = shared /\ m.id # 0]

(* One round of PushLogs of the gateway: Recv, Publish of the hub and,     *)
(* when a second has passed, an acknowledgement.  The forwarder receives   *)
(* none of them: one of them finds the window of the stream full, and      *)
(* PushLogs waits until the stream ends.                                   *)
Relay ==
  /\ conn = "up" /\ wire # <<>> /\ ~ stuck
  /\ wire' = Tail(wire)
  /\ HubPublish(FromProto(Head(wire)))
  /\ stuck' \in BOOLEAN
  /\ UNCHANGED <<busVars, collectVars, fwdVars, conn, sseVars>>

-----------------------------------------------------------------------------
(* The SSE stream.                                                         *)

SseOpen ==
  /\ ~ sse
  /\ sse' = TRUE
  /\ UNCHANGED <<busVars, collectVars, chan, fwdVars, netVars, shown>>

(* The request ends: both subscriptions are cancelled and forgotten.       *)
SseClose ==
  /\ sse
  /\ sse' = FALSE
  /\ chan' = [c \in Chans |-> IF c \in SseChans THEN <<>> ELSE chan[c]]
  /\ UNCHANGED <<busVars, collectVars, fwdVars, netVars, shown>>

(* LogFilter.MatchV2, as far as the scope goes.                            *)
Matches(m) == SseScope \in {NoScope, m.scope}

SseRead(c) ==
  /\ chan[c] # <<>>
  /\ chan' = [chan EXCEPT ![c] = Tail(@)]
  /\ LET m == Head(chan[c])
     IN  shown' = [i \in DOMAIN shown |->
                     IF ~ shared /\ i = m.id /\ Matches(m) /\ shown[i] < MaxShown
                     THEN shown[i] + 1 ELSE shown[i]]
  /\ UNCHANGED <<busVars, collectVars, fwdVars, netVars, sse>>

-----------------------------------------------------------------------------
Dialing == DialOK \/ DialFails
Opening == OpenOK \/ OpenFails
Running ==
  \/ Dialing \/ Opening \/ Reconnect \/ RunReturns
  \/ BackoffElapsed \/ BackoffCancelled

Sending == SkipRoot \/ Take \/ SendOK \/ SendFails

Collecting(t) == Collect(t) \/ CollectEnds(t)

Next ==
  \/ \E s \in Scopes : Log(s)
  \/ \E t \in FwdTopics : Collecting(t) \/ Unsubscribe(t)
  \/ ContextDone \/ Running \/ Sending \/ SenderSeesDone
  \/ Break \/ Relay
  \/ SseOpen \/ SseClose \/ \E c \in SseChans : SseRead(c)

Spec == Init /\ [][Next]_vars

(* The goroutines of the forwarder and of its subscriptions are scheduled, *)
(* and dialling, the backoff and a Send on a dead stream come to an end.   *)
(* Nothing is assumed of the root, of the network or of the loggers.  The  *)
(* selects on the context pick it in the end: the sender though in has     *)
(* more, the backoff since its timer has only begun.                       *)
Fairness ==
  /\ \A t \in FwdTopics : WF_vars(Collecting(t)) /\ WF_vars(Unsubscribe(t))
  /\ WF_vars(Running)
  /\ WF_vars(Sending)
  /\ SF_vars(BackoffCancelled)
  /\ SF_vars(SenderSeesDone)

FairSpec == Spec /\ Fairness

(* A root that can be reached, now and then.                               *)
RootReachable == SF_vars(DialOK) /\ SF_vars(OpenOK)

-----------------------------------------------------------------------------
(* A domain in a process of its own: the two topics a record is published  *)
(* on are all that multiplies it on the way to the root, whatever breaks   *)
(* and reconnects, and the hub's topics all that does behind it.  The      *)
(* "at-most-once" of Run (forwarder_gen.go:60) is about each copy: what is *)
(* taken off the channel is given to Send once, without a retry.  Of a     *)
(* record that comes by both topics there are two, and both are sent.      *)
CopiesBounded ==
  ~ shared =>
    \A i \in 1 .. MaxLogs : shown[i] <= IF SseScope = NoScope THEN 2 ELSE 4

(* A root that cannot be reached, or does not read, never holds up the bus *)
(* of the domain: the forwarder keeps taking from its subscriptions and    *)
(* drops (forwarder_gen.go:75).                                            *)
BusNeverHeldUp ==
  \A t \in FwdTopics : Len(chan[t]) = ChanCap ~> Len(chan[t]) < ChanCap

(* After the end of the context Run returns, and none of the goroutines it *)
(* started is left behind, wherever each of them stood.                    *)
ForwarderEnds ==
  done ~> (main = "ended" /\ collecting = {} /\ sender \notin {"recv", "send"})

(* A send that fails on a broken stream leads to a new stream, once the    *)
(* root can be reached.                                                    *)
SendingResumes ==
  RootReachable =>
    ((sender = "send" /\ conn = "broken") ~> (conn = "up" \/ done))

(* A root that is reachable and runs takes what is sent to it.  Not for    *)
(* ever: the acknowledgements that nobody reads hold it up in the end.     *)
SendingGoesOn ==
  RootReachable /\ WF_vars(Relay) =>
    (sender = "send" ~> (sender # "send" \/ done))

(* "A simple protection from cycles": no record that the gateway has       *)
(* already published is sent to the gateway again (forwarder_gen.go:141).  *)
NoLoop == \A k \in DOMAIN wire : ~ wire[k].relayed
=============================================================================
