---------------------------- MODULE SafeLogHub -----------------------------
(***************************************************************************)
(* The guarded log hub of platform/telemetry/loghub_safe_gen.go.           *)
(* Publishers count a record, try the limit of the window and then the     *)
(* queue, each by an atomic operation of its own; the loop goroutine       *)
(* forwards, opens a new window at each tick and ends when the hub is      *)
(* closed; Stats reads the counters one after another.                     *)
(*                                                                         *)
(* Records and topics are left out: the queue is its length.  Options keep *)
(* rateMax and the size of the queue positive.                             *)
(***************************************************************************)
EXTENDS Naturals, FiniteSets

CONSTANTS
  Publishers,  (* the goroutines that call Publish                          *)
  RateMax,     (* h.rateMax                                                 *)
  Buf,         (* h.buf                                                     *)
  MaxTotal     (* bound of the model: records ever published                *)

ASSUME HubAssumption ==
  /\ IsFiniteSet(Publishers)
  /\ RateMax \in Nat \ {0} /\ Buf \in Nat \ {0} /\ MaxTotal \in Nat

Fields == {"total", "forwarded", "droppedRate", "droppedQueue"}

Zero == [f \in Fields |-> 0]

VARIABLES
  pc,       (* where a publisher stands in Publish                          *)
  count,    (* the four counters of the hub                                 *)
  rateNow,  (* h.rateNow                                                    *)
  passed,   (* history: records the limit let through in this window        *)
  queued,   (* len(h.in)                                                    *)
  tick,     (* a tick waits in h.rateTick.C                                 *)
  loop,     (* where the loop goroutine stands                              *)
  closing,  (* where the owner stands in Close                              *)
  seen,     (* what Stats has read                                          *)
  reading   (* the place of the field it reads next, 1 between two calls    *)

rateVars == <<rateNow, passed>>
loopVars == <<tick, loop>>
statVars == <<seen, reading>>
vars == <<pc, count, rateVars, queued, loopVars, closing, statVars>>

TypeOK ==
  /\ pc \in [Publishers -> {"idle", "limit", "queue"}]
  /\ count \in [Fields -> Nat]
  /\ rateNow \in Nat /\ passed \in Nat
  /\ queued \in 0 .. Buf
  /\ tick \in BOOLEAN
  /\ loop \in {"select", "forward", "done"}
  /\ closing \in {"open", "waiting", "closed"}
  /\ seen \in [Fields -> Nat]
  /\ reading \in 1 .. 4

Init ==
  /\ pc = [p \in Publishers |-> "idle"]
  /\ count = Zero
  /\ rateNow = 0 /\ passed = 0
  /\ queued = 0
  /\ tick = FALSE /\ loop = "select"
  /\ closing = "open"
  /\ seen = Zero /\ reading = 1

Goto(p, place) == pc' = [pc EXCEPT ![p] = place]
Add(field) == count' = [count EXCEPT ![field] = @ + 1]

-----------------------------------------------------------------------------
(* Publish.                                                                *)

Begin(p) ==
  /\ pc[p] = "idle" /\ count["total"] < MaxTotal
  /\ Add("total")
  /\ Goto(p, "limit")
  /\ UNCHANGED <<rateVars, queued, loopVars, closing, statVars>>

(* Fault: the limit is tried with the count before this record.            *)
LetThroughOneMore(p) ==
  /\ pc[p] = "limit"
  /\ rateNow' = rateNow + 1
  /\ rateNow <= RateMax
  /\ passed' = passed + 1
  /\ Goto(p, "queue")
  /\ UNCHANGED <<count, queued, loopVars, closing, statVars>>

LetThrough(p) ==
  /\ pc[p] = "limit"
  /\ rateNow' = rateNow + 1
  /\ rateNow' <= RateMax
  /\ passed' = passed + 1
  /\ Goto(p, "queue")
  /\ UNCHANGED <<count, queued, loopVars, closing, statVars>>

(* A refused record raises the counter of the window, too.                 *)
Refuse(p) ==
  /\ pc[p] = "limit"
  /\ rateNow' = rateNow + 1
  /\ rateNow' > RateMax
  /\ Add("droppedRate")
  /\ Goto(p, "idle")
  /\ UNCHANGED <<passed, queued, loopVars, closing, statVars>>

(* Fault: a buffer that is never full.                                     *)
EnqueueAlways(p) ==
  /\ pc[p] = "queue"
  /\ queued' = queued + 1
  /\ Goto(p, "idle")
  /\ UNCHANGED <<count, rateVars, loopVars, closing, statVars>>

(* Publish answers true, also when nobody reads the queue any more.        *)
Enqueue(p) ==
  /\ pc[p] = "queue" /\ queued < Buf
  /\ queued' = queued + 1
  /\ Goto(p, "idle")
  /\ UNCHANGED <<count, rateVars, loopVars, closing, statVars>>

(* Fault: a full queue is no loss to count.                                *)
DropUncounted(p) ==
  /\ pc[p] = "queue" /\ queued = Buf
  /\ Goto(p, "idle")
  /\ UNCHANGED <<count, queued, rateVars, loopVars, closing, statVars>>

Drop(p) ==
  /\ pc[p] = "queue" /\ queued = Buf
  /\ Add("droppedQueue")
  /\ Goto(p, "idle")
  /\ UNCHANGED <<queued, rateVars, loopVars, closing, statVars>>

-----------------------------------------------------------------------------
(* The loop.                                                               *)

(* The ticker, whose channel holds one tick.                               *)
Tick ==
  /\ ~ tick /\ closing # "closed"
  /\ tick' = TRUE
  /\ UNCHANGED <<pc, count, rateVars, queued, loop, closing, statVars>>

NewWindow ==
  /\ loop = "select" /\ tick
  /\ tick' = FALSE
  /\ rateNow' = 0 /\ passed' = 0
  /\ UNCHANGED <<pc, count, queued, loop, closing, statVars>>

Receive ==
  /\ loop = "select" /\ queued > 0
  /\ queued' = queued - 1
  /\ loop' = "forward"
  /\ UNCHANGED <<pc, count, rateVars, tick, closing, statVars>>

(* forward: every topic, then the counter.                                 *)
Forward ==
  /\ loop = "forward"
  /\ Add("forwarded")
  /\ loop' = "select"
  /\ UNCHANGED <<pc, rateVars, queued, tick, closing, statVars>>

(* Fault: a break, which leaves the select and not the loop.               *)
LoopBreaks ==
  /\ loop = "select" /\ closing # "open"
  /\ UNCHANGED vars

(* h.stop is closed: what is still queued stays there.                     *)
LoopEnds ==
  /\ loop = "select" /\ closing # "open"
  /\ loop' = "done"
  /\ UNCHANGED <<pc, count, rateVars, queued, tick, closing, statVars>>

-----------------------------------------------------------------------------
(* Close, which its owner calls once.                                      *)

CloseBegins ==
  /\ closing = "open"
  /\ closing' = "waiting"
  /\ UNCHANGED <<pc, count, rateVars, queued, loopVars, statVars>>

(* h.wg.Wait() returns, the ticker is stopped.                             *)
CloseReturns ==
  /\ closing = "waiting" /\ loop = "done"
  /\ closing' = "closed"
  /\ UNCHANGED <<pc, count, rateVars, queued, loopVars, statVars>>

-----------------------------------------------------------------------------
(* Stats.                                                                  *)

(* Fault: the losses before the total.                                     *)
ReadOrderTotalLast == <<"forwarded", "droppedRate", "droppedQueue", "total">>

ReadOrder == <<"total", "forwarded", "droppedRate", "droppedQueue">>

(* A call starts from an empty answer.                                     *)
ReadField ==
  /\ LET answer == IF reading = 1 THEN Zero ELSE seen
         field == ReadOrder[reading]
     IN  seen' = [answer EXCEPT ![field] = count[field]]
  /\ reading' = IF reading = 4 THEN 1 ELSE reading + 1
  /\ UNCHANGED <<pc, count, rateVars, queued, loopVars, closing>>

-----------------------------------------------------------------------------
Publishing(p) == LetThrough(p) \/ Refuse(p) \/ Enqueue(p) \/ Drop(p)
Loop == NewWindow \/ Receive \/ Forward \/ LoopEnds

Next ==
  \/ \E p \in Publishers : Begin(p) \/ Publishing(p)
  \/ Tick \/ Loop
  \/ CloseBegins \/ CloseReturns
  \/ ReadField

Spec == Init /\ [][Next]_vars

(* Goroutines are scheduled, the ticker ticks, and the select of the loop  *)
(* picks among the ready cases at random: each of them in the end.         *)
Fairness ==
  /\ \A p \in Publishers : WF_vars(Publishing(p))
  /\ WF_vars(Tick) /\ WF_vars(Forward) /\ WF_vars(CloseReturns)
  /\ SF_vars(NewWindow) /\ SF_vars(Receive) /\ SF_vars(LoopEnds)

FairSpec == Spec /\ Fairness

-----------------------------------------------------------------------------
InPublish == {p \in Publishers : pc[p] # "idle"}
InHand == IF loop = "forward" THEN 1 ELSE 0
Losses(c) == c["droppedRate"] + c["droppedQueue"]

(* Every record that was ever published is somewhere: forwarded, dropped   *)
(* and counted as such, in the queue, in the hand of the loop or with its  *)
(* publisher.                                                              *)
Accounted ==
  count["total"] =
    count["forwarded"] + Losses(count) + queued + InHand + Cardinality(InPublish)

(* The rate limit: however publishers and the reset interleave, no window  *)
(* lets more than rateMax records through.                                 *)
RateRespected == passed <= RateMax

(* Stats is not a snapshot, but since it reads the total first it never    *)
(* makes a record look lost: what is missing in its sum fits the queue,    *)
(* the hand of the loop and the publishers.                                *)
StatsHideNoLoss ==
  reading = 1 =>
    seen["total"] <=
      seen["forwarded"] + Losses(seen) + Buf + 1 + Cardinality(Publishers)

(* An accepted record is forwarded, unless the hub is closed: while the    *)
(* queue holds any the loop takes the next one, ticks or not.              *)
AcceptedForwarded ==
  queued > 0 ~> (loop = "forward" \/ closing # "open")

(* Close returns, though a full queue and ticks compete with it.           *)
CloseEnds == closing = "waiting" ~> closing = "closed"

(* One select serves the queue, the ticks and the end, and starves none.   *)
LoopServesAll == AcceptedForwarded /\ CloseEnds
=============================================================================
