-------------------------------- MODULE Bus --------------------------------
(***************************************************************************)
(* What a subscriber may rely on: the abstract specification of the port   *)
(* EventBus (platform/ports/ports.go, "at-most-once"), which the module    *)
(* EventBus implements.                                                    *)
(*                                                                         *)
(* A subscription is opened once and closed once.  While it is open, the   *)
(* message a publisher is publishing may be delivered to it, once, or be   *)
(* dropped; nothing older, and nothing once it is closed.  There are no    *)
(* locks, no copies and no buffers: when each of these things happens is   *)
(* up to the implementation.                                               *)
(***************************************************************************)
EXTENDS Naturals, Sequences

CONSTANTS Subs, Pubs

VARIABLES
  open, over,  (* the subscriptions that are, and that were                 *)
  delivered,   (* what a subscription was given, in order                   *)
  sent         (* how many messages a publisher has begun to publish        *)

vars == <<open, over, delivered, sent>>

Init ==
  /\ open = {} /\ over = {}
  /\ delivered = [s \in Subs |-> <<>>]
  /\ sent = [p \in Pubs |-> 0]

Open(s) ==
  /\ s \notin open \cup over
  /\ open' = open \cup {s}
  /\ UNCHANGED <<over, delivered, sent>>

Close(s) ==
  /\ s \in open
  /\ open' = open \ {s} /\ over' = over \cup {s}
  /\ UNCHANGED <<delivered, sent>>

Publish(p) ==
  /\ sent' = [sent EXCEPT ![p] = @ + 1]
  /\ UNCHANGED <<open, over, delivered>>

Given(s) == {delivered[s][k] : k \in DOMAIN delivered[s]}

Deliver(p, s) ==
  LET m == [pub |-> p, no |-> sent[p]]
  IN  /\ s \in open /\ m.no > 0 /\ m \notin Given(s)
      /\ delivered' = [delivered EXCEPT ![s] = Append(@, m)]
      /\ UNCHANGED <<open, over, sent>>

Next ==
  \/ \E s \in Subs : Open(s) \/ Close(s) \/ \E p \in Pubs : Deliver(p, s)
  \/ \E p \in Pubs : Publish(p)

Spec == Init /\ [][Next]_vars

-----------------------------------------------------------------------------
(* "At most once": no subscription gets a message twice, and it gets the   *)
(* messages of one publisher in the order they were published, with gaps   *)
(* where some were dropped.                                                *)
AtMostOnceInOrder ==
  \A s \in Subs :
    \A j, k \in DOMAIN delivered[s] :
      (j < k /\ delivered[s][j].pub = delivered[s][k].pub) =>
        delivered[s][j].no < delivered[s][k].no
=============================================================================
