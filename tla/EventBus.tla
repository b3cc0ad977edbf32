------------------------------ MODULE EventBus ------------------------------
(***************************************************************************)
(* The in-memory bus of cmd/rk/event_bus_gen.go.  Publish copies the       *)
(* subscribers of a topic under the read lock and sends to them after it   *)
(* has released it; cancel closes the channel of its subscription under    *)
(* the write lock, so a Publish may hold a copy that is closed meanwhile.  *)
(*                                                                         *)
(* Publishers are goroutines that publish one message after another under  *)
(* a context of their own.  A message is named by its publisher and its    *)
(* number.  The map iteration fixes no order of the copies.                *)
(***************************************************************************)
EXTENDS Naturals, Sequences

CONSTANTS
  Subs,      (* the subscriptions Subscribe can create                      *)
  Pubs,      (* the goroutines that call Publish                            *)
  Topics,
  Capacity,  (* of a subscriber channel, 16 in the code                     *)
  MaxMsgs    (* bound of the model: messages of one publisher               *)

ASSUME BoundsAssumption == Capacity \in Nat \ {0} /\ MaxMsgs \in Nat

Msgs == [pub : Pubs, no : 1 .. MaxMsgs]

VARIABLES
  subs,     (* b.subs: the subscriptions of a topic                         *)
  born,     (* the subscriptions created so far                             *)
  closed,   (* the subscriptions whose channel is closed                    *)
  chan,     (* the buffer of a channel                                      *)
  got,      (* what the subscriber has received                             *)
  pc,       (* where a publisher stands                                     *)
  copies,   (* copies: the subscribers a Publish has yet to send to         *)
  sent,     (* how many messages a publisher has begun to publish           *)
  done      (* the publishers whose context is done                         *)

subVars == <<subs, born, closed>>
pubVars == <<pc, copies, sent, done>>
vars == <<subVars, chan, got, pubVars>>

TypeOK ==
  /\ subs \in [Topics -> SUBSET Subs]
  /\ born \subseteq Subs /\ closed \subseteq Subs
  /\ chan \in [Subs -> Seq(Msgs)]
  /\ \A s \in Subs : Len(chan[s]) <= Capacity
  /\ got \in [Subs -> Seq(Msgs)]
  /\ pc \in [Pubs -> {"idle", "sending", "panicked"}]
  /\ copies \in [Pubs -> SUBSET Subs]
  /\ sent \in [Pubs -> 0 .. MaxMsgs]
  /\ done \subseteq Pubs

Init ==
  /\ subs = [t \in Topics |-> {}]
  /\ born = {} /\ closed = {}
  /\ chan = [s \in Subs |-> <<>>]
  /\ got = [s \in Subs |-> <<>>]
  /\ pc = [p \in Pubs |-> "idle"]
  /\ copies = [p \in Pubs |-> {}]
  /\ sent = [p \in Pubs |-> 0]
  /\ done = {}

-----------------------------------------------------------------------------
(* Subscribers.                                                            *)

Subscribe(s, t) ==
  /\ s \notin born
  /\ born' = born \cup {s}
  /\ subs' = [subs EXCEPT ![t] = @ \cup {s}]
  /\ UNCHANGED <<closed, chan, got, pubVars>>

(* Fault: the subscription stays in the map.                               *)
CancelKeepsEntry(s) ==
  \E t \in Topics :
    /\ s \in subs[t]
    /\ closed' = closed \cup {s}
    /\ UNCHANGED <<subs, born, chan, got, pubVars>>

(* cancel, called by the subscriber or by the goroutine that waits for its *)
(* context: only the first call finds the subscription.                    *)
Cancel(s) ==
  \E t \in Topics :
    /\ s \in subs[t]
    /\ subs' = [subs EXCEPT ![t] = @ \ {s}]
    /\ closed' = closed \cup {s}
    /\ UNCHANGED <<born, chan, got, pubVars>>

Receive(s) ==
  /\ chan[s] # <<>>
  /\ got' = [got EXCEPT ![s] = Append(@, Head(chan[s]))]
  /\ chan' = [chan EXCEPT ![s] = Tail(@)]
  /\ UNCHANGED <<subVars, pubVars>>

-----------------------------------------------------------------------------
(* Publishers.                                                             *)

ContextDone(p) ==
  /\ p \notin done
  /\ done' = done \cup {p}
  /\ UNCHANGED <<subVars, chan, got, pc, copies, sent>>

Message(p) == [pub |-> p, no |-> sent[p]]

(* Publish, under the read lock.                                           *)
BeginPublish(p, t) ==
  /\ pc[p] = "idle" /\ sent[p] < MaxMsgs
  /\ sent' = [sent EXCEPT ![p] = @ + 1]
  /\ copies' = [copies EXCEPT ![p] = subs[t]]
  /\ pc' = [pc EXCEPT ![p] = IF subs[t] = {} THEN "idle" ELSE "sending"]
  /\ UNCHANGED <<subVars, chan, got, done>>

(* The loop goes on to the next copy, or Publish returns.                  *)
Served(p, s) ==
  /\ copies' = [copies EXCEPT ![p] = @ \ {s}]
  /\ pc' = [pc EXCEPT ![p] = IF copies[p] = {s} THEN "idle" ELSE "sending"]
  /\ UNCHANGED <<subVars, got, sent, done>>

(* Fault: a channel without bound.                                         *)
CanSendAlways(s) == s \notin closed

CanSend(s) == s \notin closed /\ Len(chan[s]) < Capacity

Send(p, s) ==
  /\ pc[p] = "sending" /\ s \in copies[p]
  /\ CanSend(s)
  /\ chan' = [chan EXCEPT ![s] = Append(@, Message(p))]
  /\ Served(p, s)

(* Fault: a select without default blocks.                                 *)
DropNever(p, s) == pc[p] = "sending" /\ s \in copies[p] /\ FALSE

(* The default case: taken only when no other case is ready.               *)
Drop(p, s) ==
  /\ pc[p] = "sending" /\ s \in copies[p]
  /\ s \notin closed /\ ~ CanSend(s) /\ p \notin done
  /\ Served(p, s)
  /\ UNCHANGED chan

(* A send on a closed channel, when the select comes to it.  The others go *)
(* on: a worker of the supervisor and a request handler recover the panic. *)
SendOnClosed(p, s) ==
  /\ pc[p] = "sending" /\ s \in copies[p]
  /\ s \in closed
  /\ pc' = [pc EXCEPT ![p] = "panicked"]
  /\ UNCHANGED <<subVars, chan, got, copies, sent, done>>

(* The context is done: Publish returns its error, the rest of the copies  *)
(* gets nothing.                                                           *)
GiveUp(p) ==
  /\ pc[p] = "sending" /\ p \in done
  /\ pc' = [pc EXCEPT ![p] = "idle"]
  /\ copies' = [copies EXCEPT ![p] = {}]
  /\ UNCHANGED <<subVars, chan, got, sent, done>>

Publishing(p) ==
  \/ \E s \in Subs : Send(p, s) \/ Drop(p, s) \/ SendOnClosed(p, s)
  \/ GiveUp(p)

Next ==
  \/ \E s \in Subs : Cancel(s) \/ Receive(s) \/ \E t \in Topics : Subscribe(s, t)
  \/ \E p \in Pubs : \/ ContextDone(p)
                     \/ Publishing(p)
                     \/ \E t \in Topics : BeginPublish(p, t)

Spec == Init /\ [][Next]_vars

(* A goroutine inside Publish is scheduled; a subscriber need not read.    *)
FairPublishers == \A p \in Pubs : WF_vars(Publishing(p))
FairSpec == Spec /\ FairPublishers

-----------------------------------------------------------------------------
(* What a subscriber was given is what it has received or will find in the *)
(* buffer, closed or not.                                                  *)
open == UNION {subs[t] : t \in Topics}
delivered == [s \in Subs |-> got[s] \o chan[s]]

B == INSTANCE Bus WITH open <- open, over <- closed, delivered <- delivered

(* The locks, the copies taken under them and the buffers keep what Bus    *)
(* promises: a channel is closed once and with its entry in the map gone,  *)
(* and what a Publish still has in its copies never reaches a subscriber   *)
(* behind the end of its subscription, twice or after a later message      *)
(* (AtMostOnceInOrder of Bus).                                             *)
ImplementsBus == B!Spec

(* A Publish begins with subscribers none of which is closed: a send on a  *)
(* closed channel takes a cancel that comes while this Publish goes on,    *)
(* and no other Publish ends that way.                                     *)
BeginsOpen ==
  [][\A p \in Pubs : sent'[p] # sent[p] => copies'[p] \cap closed' = {}]_vars

(* A cancel function may be called at any time (ports.EventBus hands it to *)
(* the subscriber without a condition): no Publish panics because of it.   *)
NoPanic == \A p \in Pubs : pc[p] # "panicked"

(* A subscriber that does not read cannot hold Publish up.                 *)
PublishReturns ==
  \A p \in Pubs : pc[p] = "sending" ~> pc[p] \in {"idle", "panicked"}
=============================================================================
