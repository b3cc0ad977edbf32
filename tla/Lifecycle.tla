----------------------------- MODULE Lifecycle -----------------------------
(***************************************************************************)
(* What the FSM of platform/runtime/fsm_gen.go promises of every kernel    *)
(* instance, whoever drives it: the abstract specification that the module *)
(* Domains implements.                                                     *)
(*                                                                         *)
(* An instance goes load, init, configure, start, ready; it is drained     *)
(* before it is stopped and stopped once; whatever fails before ready is   *)
(* final; its workers live exactly from a successful OnStart to a          *)
(* successful OnStop.  Run, Drain and Stop of the code write the state     *)
(* unconditionally: that they are called in this order is a promise of     *)
(* their callers, not of the FSM.                                          *)
(***************************************************************************)
CONSTANT Instances   (* the kernel instances, each with an FSM of its own   *)

VARIABLES
  state,  (* f.state; "unborn" before NewFSM                                *)
  live    (* instances whose workers run                                    *)

vars == <<state, live>>

States == {"unborn", "load", "init", "configure", "start", "ready",
           "draining", "failed", "stopped"}

TypeOK ==
  /\ state \in [Instances -> States]
  /\ live \subseteq Instances

Init ==
  /\ state = [n \in Instances |-> "unborn"]
  /\ live = {}

Becomes(n, from, to) ==
  /\ state[n] \in from
  /\ state' = [state EXCEPT ![n] = to]

(* NewFSM, then the hooks OnLoad, OnInit and OnConfigure.                  *)
Prepare(n) ==
  /\ \/ Becomes(n, {"unborn"}, "load")
     \/ Becomes(n, {"load"}, "init")
     \/ Becomes(n, {"init"}, "configure")
     \/ Becomes(n, {"configure"}, "start")
  /\ UNCHANGED live

FailToStart(n) ==
  /\ Becomes(n, {"load", "init", "configure", "start"}, "failed")
  /\ UNCHANGED live

GetReady(n) ==
  /\ Becomes(n, {"start"}, "ready")
  /\ live' = live \cup {n}

BeginDrain(n) ==
  /\ Becomes(n, {"ready"}, "draining")
  /\ UNCHANGED live

(* OnDrain fails, or OnStop does.                                          *)
FailToEnd(n) ==
  /\ n \in live
  /\ Becomes(n, {"draining", "failed"}, "failed")
  /\ UNCHANGED live

End(n) ==
  /\ n \in live
  /\ Becomes(n, {"draining", "failed"}, "stopped")
  /\ live' = live \ {n}

Next ==
  \E n \in Instances :
    \/ Prepare(n) \/ FailToStart(n) \/ GetReady(n)
    \/ BeginDrain(n) \/ FailToEnd(n) \/ End(n)

Spec == Init /\ [][Next]_vars
=============================================================================
