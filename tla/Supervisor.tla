----------------------------- MODULE Supervisor -----------------------------
(***************************************************************************)
(* The worker supervisor of platform/runtime/supervisor_gen.go, with the   *)
(* shutdown its owner performs (kernels/examples/site/site_domain_gen.go,  *)
(* OnStop: StopAll, then Wait).                                            *)
(*                                                                         *)
(* A worker object is created by a successful Start and runs in one        *)
(* goroutine.  That goroutine loops: test the context of the supervisor,   *)
(* call Fn, decide by the restart policy, sleep for the backoff.  Start    *)
(* and Stop are called by any goroutine at any time; the event handler is  *)
(* called outside the mutex, so what a handler calls back is one of these  *)
(* calls.  Events, error values and durations are data no property here    *)
(* tells apart: a panic is an error once recovered, and the durations are  *)
(* the subject of the module Backoff.                                      *)
(***************************************************************************)
EXTENDS Integers, FiniteSets

CONSTANTS
  Workers,     (* the worker objects Start can create, each used once       *)
  Names,       (* WorkerSpec.Name                                           *)
  NoWorker,    (* an absent key of the map s.workers                        *)
  MaxAttempts  (* bound of the model: the counter w.attempts stops there    *)

ASSUME WorkersAssumption == IsFiniteSet(Workers) /\ NoWorker \notin Workers
ASSUME AttemptsAssumption == MaxAttempts \in Nat \ {0}

VARIABLES
  workers,   (* s.workers: the map from a name to its worker                *)
  pc,        (* where the goroutine of a worker stands                      *)
  name,      (* w.spec.Name                                                 *)
  policy,    (* w.spec.Policy                                               *)
  attempts,  (* w.attempts                                                  *)
  failed,    (* the last call of Fn returned an error or panicked           *)
  stopped,   (* w.stopped; set together with the cancellation of w.ctx      *)
  wg,        (* the counter of the WaitGroup s.wg                           *)
  shutdown   (* where the owner stands in StopAll(); Wait()                 *)

vars == <<workers, pc, name, policy, attempts, failed, stopped, wg, shutdown>>

specVars == <<name, policy>>

Policies == {"permanent", "transient", "temporary"}

(* unborn: Start has not created it; check: before the select on s.ctx;    *)
(* starting: past that select, before Fn; running: inside Fn; decide: Fn   *)
(* has returned; backoff: in the second select; leaving: about to run the  *)
(* deferred wg.Done; gone: the goroutine has ended.                        *)
Stages == {"unborn", "check", "starting", "running", "decide", "backoff",
           "leaving", "gone"}

TypeOK ==
  /\ workers \in [Names -> Workers \cup {NoWorker}]
  /\ pc \in [Workers -> Stages]
  /\ name \in [Workers -> Names]
  /\ policy \in [Workers -> Policies]
  /\ attempts \in [Workers -> 0 .. MaxAttempts]
  /\ failed \in [Workers -> BOOLEAN]
  /\ stopped \in [Workers -> BOOLEAN]
  /\ wg \in Nat
  /\ shutdown \in {"open", "cancelled", "waiting", "returned"}

(* s.ctx is cancelled by the first statement of StopAll and by nothing     *)
(* else; w.ctx is a child of s.ctx.                                        *)
SupDone == shutdown # "open"
CtxDone(w) == stopped[w] \/ SupDone

Live == {w \in Workers : pc[w] \notin {"unborn", "gone"}}

Init ==
  /\ workers = [n \in Names |-> NoWorker]
  /\ pc = [w \in Workers |-> "unborn"]
  /\ name \in [Workers -> Names]
  /\ policy \in [Workers -> Policies]
  /\ attempts = [w \in Workers |-> 0]
  /\ failed = [w \in Workers |-> FALSE]
  /\ stopped = [w \in Workers |-> FALSE]
  /\ wg = 0
  /\ shutdown = "open"

Goto(w, stage) == pc' = [pc EXCEPT ![w] = stage]

-----------------------------------------------------------------------------
(* Operations of the supervisor, called from outside.                      *)

(* Fault: the WaitGroup is not told.                                       *)
StartWithoutAdd(w) ==
  /\ pc[w] = "unborn"
  /\ workers[name[w]] = NoWorker
  /\ workers' = [workers EXCEPT ![name[w]] = w]
  /\ Goto(w, "check")
  /\ UNCHANGED <<specVars, attempts, failed, stopped, wg, shutdown>>

(* Start on a name that is free; on a name in use it returns an error and  *)
(* changes nothing.  It does not ask whether the supervisor was stopped.   *)
Start(w) ==
  /\ pc[w] = "unborn"
  /\ workers[name[w]] = NoWorker
  /\ workers' = [workers EXCEPT ![name[w]] = w]
  /\ wg' = wg + 1
  /\ Goto(w, "check")
  /\ UNCHANGED <<specVars, attempts, failed, stopped, shutdown>>

(* Fault: Stop also frees the name.                                        *)
StopAndDelete(n) ==
  /\ workers[n] # NoWorker
  /\ workers' = [workers EXCEPT ![n] = NoWorker]
  /\ stopped' = [stopped EXCEPT ![workers[n]] = TRUE]
  /\ UNCHANGED <<pc, specVars, attempts, failed, wg, shutdown>>

(* Stop(n): marks the worker and cancels w.ctx, once.                      *)
Stop(n) ==
  /\ workers[n] # NoWorker
  /\ ~ stopped[workers[n]]
  /\ stopped' = [stopped EXCEPT ![workers[n]] = TRUE]
  /\ UNCHANGED <<workers, pc, specVars, attempts, failed, wg, shutdown>>

(* StopAll, first statement: s.cancel(), before the mutex is taken.        *)
StopAllCancel ==
  /\ shutdown = "open"
  /\ shutdown' = "cancelled"
  /\ UNCHANGED <<workers, pc, specVars, attempts, failed, stopped, wg>>

(* StopAll, under the mutex: mark and cancel whatever the map holds.       *)
StopAllMark ==
  /\ shutdown = "cancelled"
  /\ shutdown' = "waiting"
  /\ stopped' = [w \in Workers |-> stopped[w] \/ \E n \in Names : workers[n] = w]
  /\ UNCHANGED <<workers, pc, specVars, attempts, failed, wg>>

(* Wait returns once the counter is zero.                                  *)
WaitReturn ==
  /\ shutdown = "waiting"
  /\ wg = 0
  /\ shutdown' = "returned"
  /\ UNCHANGED <<workers, pc, specVars, attempts, failed, stopped, wg>>

-----------------------------------------------------------------------------
(* The goroutine runWorker(w).                                             *)

(* Fault: no select at the top of the loop.                                *)
CheckNothing(w) ==
  /\ pc[w] = "check"
  /\ Goto(w, "starting")
  /\ UNCHANGED <<workers, specVars, attempts, failed, stopped, wg, shutdown>>

(* Top of the loop: leave when s.ctx is done, otherwise go on to call Fn.  *)
Check(w) ==
  /\ pc[w] = "check"
  /\ Goto(w, IF SupDone THEN "leaving" ELSE "starting")
  /\ UNCHANGED <<workers, specVars, attempts, failed, stopped, wg, shutdown>>

CallFn(w) ==
  /\ pc[w] = "starting"
  /\ Goto(w, "running")
  /\ UNCHANGED <<workers, specVars, attempts, failed, stopped, wg, shutdown>>

(* Fn returns nil (err = FALSE), an error, or panics and is recovered.     *)
FnReturns(w, err) ==
  /\ pc[w] = "running"
  /\ failed' = [failed EXCEPT ![w] = err]
  /\ attempts' = [attempts EXCEPT ![w] = IF @ = MaxAttempts THEN @ ELSE @ + 1]
  /\ Goto(w, "decide")
  /\ UNCHANGED <<workers, specVars, stopped, wg, shutdown>>

(* Fault: a clean return is final.                                         *)
RestartsFailures(w) == policy[w] # "temporary" /\ failed[w]

(* The decision by the policy of the worker.                               *)
Restarts(w) ==
  \/ policy[w] = "permanent"
  \/ policy[w] = "transient" /\ failed[w]

(* No restart: the worker is removed from the map by its name.             *)
Remove(w) ==
  /\ pc[w] = "decide"
  /\ ~ Restarts(w)
  /\ workers' = [workers EXCEPT ![name[w]] = NoWorker]
  /\ Goto(w, "leaving")
  /\ UNCHANGED <<specVars, attempts, failed, stopped, wg, shutdown>>

Restart(w) ==
  /\ pc[w] = "decide"
  /\ Restarts(w)
  /\ Goto(w, "backoff")
  /\ UNCHANGED <<workers, specVars, attempts, failed, stopped, wg, shutdown>>

(* The second select: the timer fires, or s.ctx is done; w.ctx is not one  *)
(* of its cases.                                                           *)
BackoffElapsed(w) ==
  /\ pc[w] = "backoff"
  /\ Goto(w, "check")
  /\ UNCHANGED <<workers, specVars, attempts, failed, stopped, wg, shutdown>>

(* Fault: this return without the deferred Done.                           *)
BackoffCancelledNoDone(w) ==
  /\ pc[w] = "backoff"
  /\ SupDone
  /\ Goto(w, "gone")
  /\ UNCHANGED <<workers, specVars, attempts, failed, stopped, wg, shutdown>>

BackoffCancelled(w) ==
  /\ pc[w] = "backoff"
  /\ SupDone
  /\ Goto(w, "leaving")
  /\ UNCHANGED <<workers, specVars, attempts, failed, stopped, wg, shutdown>>

(* The deferred wg.Done().                                                 *)
Leave(w) ==
  /\ pc[w] = "leaving"
  /\ wg' = wg - 1
  /\ Goto(w, "gone")
  /\ UNCHANGED <<workers, specVars, attempts, failed, stopped, shutdown>>

-----------------------------------------------------------------------------
(* The steps of runWorker that depend on nobody else.                      *)
Loop(w) ==
  \/ Check(w) \/ CallFn(w)
  \/ Remove(w) \/ Restart(w)
  \/ BackoffElapsed(w) \/ BackoffCancelled(w)
  \/ Leave(w)

Next ==
  \/ \E w \in Workers : Start(w) \/ Loop(w)
  \/ \E w \in Workers, err \in BOOLEAN : FnReturns(w, err)
  \/ \E n \in Names : Stop(n)
  \/ StopAllCancel \/ StopAllMark \/ WaitReturn

(* A goroutine that can run is scheduled, a timer fires, and Fn ends once  *)
(* its context is cancelled: the contract of WorkerFunc.  Nothing forces a *)
(* caller to call Start, Stop or StopAll; a shutdown once begun goes on.   *)
Fairness ==
  /\ \A w \in Workers : WF_vars(Loop(w))
  /\ \A w \in Workers : WF_vars(CtxDone(w) /\ \E err \in BOOLEAN : FnReturns(w, err))
  /\ WF_vars(StopAllMark)
  /\ WF_vars(WaitReturn)

Spec == Init /\ [][Next]_vars
FairSpec == Spec /\ Fairness

-----------------------------------------------------------------------------
(* Safety.                                                                 *)

(* Every worker whose goroutine has not left the loop is the one the map   *)
(* holds under its name, so two goroutines never run under one name and    *)
(* delete(s.workers, name) removes the entry of the deleter only.          *)
MapHoldsLoop ==
  \A w \in Workers :
    pc[w] \in {"check", "starting", "running", "decide", "backoff"} =>
      workers[name[w]] = w

(* The WaitGroup counts exactly the goroutines that have not ended: Wait   *)
(* cannot return over a live worker and the counter never goes negative.   *)
WaitGroupCountsLive == wg = Cardinality(Live)

(* Once StopAll and Wait have returned to OnStop, no worker function runs  *)
(* or will be called, not even for a worker started afterwards.            *)
NoWorkAfterShutdown ==
  shutdown = "returned" =>
    \A w \in Workers : pc[w] \in {"unborn", "check", "leaving", "gone"}

(* A worker is in the loop a second time only if its policy asks for it:   *)
(* never for Temporary, after an error only for Transient.                 *)
RestartsByPolicy ==
  \A w \in Workers :
    (attempts[w] > 0 /\ pc[w] \in {"backoff", "check", "starting", "running"}) =>
      \/ policy[w] = "permanent"
      \/ policy[w] = "transient" /\ failed[w]

(* What the inductive proof of RestartsByPolicy needs besides: a worker    *)
(* that was not created has not been counted.                              *)
UnbornFresh == \A w \in Workers : pc[w] = "unborn" => attempts[w] = 0

(* A name becomes free again only by the exit of the worker that held it:  *)
(* neither Stop nor StopAll frees a name.                                  *)
NameFreedByItsWorker ==
  [][\A n \in Names :
       (workers[n] # NoWorker /\ workers'[n] # workers[n]) =>
         /\ workers'[n] = NoWorker
         /\ pc'[workers[n]] = "leaving"
         /\ policy[workers[n]] # "permanent"]_vars

(* How many steps at most a goroutine still takes once s.ctx is done.      *)
StepsLeft == [starting |-> 6, running |-> 5, decide |-> 4, backoff |-> 3,
              check |-> 2, leaving |-> 1, gone |-> 0]

(* After s.cancel() no worker goes round the loop again, whatever its      *)
(* policy, the other calls and the timers do: each of its steps brings it  *)
(* closer to its end, so that Fn is called once more at most.              *)
NoMoreRounds ==
  [][SupDone =>
       \A w \in Workers :
         (pc[w] # "unborn" /\ pc'[w] # pc[w]) =>
           StepsLeft[pc'[w]] < StepsLeft[pc[w]]]_vars

-----------------------------------------------------------------------------
(* Liveness, under FairSpec.                                               *)

(* OnStop returns: after s.cancel() every goroutine leaves the loop, from  *)
(* wherever it stands, and Wait returns.                                   *)
ShutdownCompletes == shutdown = "cancelled" ~> shutdown = "returned"

(* A Permanent worker that has returned, with or without an error, runs    *)
(* again unless the supervisor is shut down.                               *)
PermanentRunsAgain ==
  \A w \in Workers :
    (pc[w] = "decide" /\ policy[w] = "permanent") ~> (pc[w] = "running" \/ SupDone)

(* "Stop stops the worker by name (soft stop)": a worker that was stopped  *)
(* ends.  Stop is honoured by Fn but not by the loop around it.            *)
StopEndsWorker == \A w \in Workers : stopped[w] ~> pc[w] = "gone"
=============================================================================
