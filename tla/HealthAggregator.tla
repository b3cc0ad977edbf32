-------------------------- MODULE HealthAggregator --------------------------
(***************************************************************************)
(* The health summary of the root kernel: AggregateHealth of               *)
(* cmd/rk/discovery_registry_gen.go, run by the ticker goroutine of        *)
(* cmd/rk/health_aggregator_gen.go, which caches the result for            *)
(* /admin/health.                                                          *)
(*                                                                         *)
(* AggregateHealth walks a Go map, so the kernels come in any order; it    *)
(* holds the read lock of the registry, so no writer runs meanwhile.  The  *)
(* times (Since) are left out.  The summary is also published on the bus,  *)
(* where nobody subscribes to that topic.                                  *)
(***************************************************************************)
EXTENDS Discovery

VARIABLES
  walking,  (* AggregateHealth holds the read lock                          *)
  todo,     (* the kernels the walk has not visited                         *)
  status,   (* summary.Status                                               *)
  reason,   (* the kernel and the status the reason string names, or None   *)
  last      (* h.last, the cached summary                                   *)

walkVars == <<walking, todo, status, reason>>
vars == <<discoveryVars, walkVars, last>>

ASSUME NoneNotAReason ==
  \A i \in Ids, h \in Unhealthy : None # [kernel |-> i, status |-> h]

Reasons == [kernel : Ids, status : Unhealthy] \cup {None}

TypeOK ==
  /\ DiscoveryTypeOK
  /\ walking \in BOOLEAN
  /\ todo \subseteq Ids
  /\ status \in Unhealthy \cup {"ready"}
  /\ reason \in Reasons
  /\ last \in [status : Unhealthy \cup {"ready"}, reason : Reasons]

Init ==
  /\ DiscoveryInit
  /\ walking = FALSE
  /\ todo = {}
  /\ status = "ready"
  /\ reason = None
  /\ last = [status |-> "ready", reason |-> None]

-----------------------------------------------------------------------------
(* Fault: the status of the walk before is not reset.                      *)
BeginKeepsStatus ==
  /\ ~ walking
  /\ walking' = TRUE
  /\ todo' = kernels
  /\ reason' = None
  /\ UNCHANGED <<discoveryVars, status, last>>

(* The ticker fires: AggregateHealth takes the read lock and starts from   *)
(* a ready summary.                                                        *)
Begin ==
  /\ ~ walking
  /\ walking' = TRUE
  /\ todo' = kernels
  /\ status' = "ready"
  /\ reason' = None
  /\ UNCHANGED <<discoveryVars, last>>

(* Faults: an unknown status replaces ready; draining replaces degraded.   *)
OverridesUnknown(h) ==
  CASE h = "failed"   -> Unhealthy \cup {"ready"}
    [] h = "degraded" -> {"ready", "stopped", "draining", "degraded"}
    [] h = "draining" -> {"ready", "stopped", "draining"}
    [] OTHER          -> {"ready"}

OverridesDegraded(h) ==
  CASE h = "failed"   -> Unhealthy \cup {"ready"}
    [] h = "degraded" -> {"ready", "stopped", "draining", "degraded"}
    [] h = "draining" -> {"ready", "stopped", "draining", "degraded"}
    [] h = "stopped"  -> {"ready"}
    [] OTHER          -> {}

(* The statuses a summary must have for status h to replace it.            *)
Overrides(h) ==
  CASE h = "failed"   -> Unhealthy \cup {"ready"}
    [] h = "degraded" -> {"ready", "stopped", "draining", "degraded"}
    [] h = "draining" -> {"ready", "stopped", "draining"}
    [] h = "stopped"  -> {"ready"}
    [] OTHER          -> {}

(* One kernel of the walk; the first reason given stays.                   *)
VisitKernel(i) ==
  /\ walking
  /\ i \in todo
  /\ todo' = todo \ {i}
  /\ IF status \in Overrides(health[i])
       THEN /\ status' = health[i]
            /\ reason' = IF reason = None
                           THEN [kernel |-> i, status |-> health[i]]
                           ELSE reason
       ELSE UNCHANGED <<status, reason>>
  /\ UNCHANGED <<discoveryVars, walking, last>>

(* The read lock is released and the summary stored.                       *)
End ==
  /\ walking
  /\ todo = {}
  /\ walking' = FALSE
  /\ last' = [status |-> status, reason |-> reason]
  /\ UNCHANGED <<discoveryVars, todo, status, reason>>

Aggregate == Begin \/ (\E i \in Ids : VisitKernel(i)) \/ End

Next ==
  \/ Aggregate
  \/ ~ walking /\ Writers /\ UNCHANGED <<walkVars, last>>

Spec == Init /\ [][Next]_vars
FairSpec == Spec /\ WF_vars(Aggregate)

-----------------------------------------------------------------------------
Rank(h) ==
  CASE h = "failed"   -> 4
    [] h = "degraded" -> 3
    [] h = "draining" -> 2
    [] h = "stopped"  -> 1
    [] OTHER          -> 0

Visited == kernels \ todo

(* Whatever the order of the walk, the summary is the worst of the         *)
(* statuses seen so far, so at the end the worst of the registry.          *)
WorstSoFar ==
  walking =>
    /\ \A i \in Visited : Rank(health[i]) <= Rank(status)
    /\ status = "ready" \/ \E i \in Visited : health[i] = status

(* The registry does not change under the walk: the other part of the      *)
(* inductive invariant.                                                    *)
WalkWithinRegistry == walking => todo \subseteq kernels

(* A summary that is not ready gives a reason, and the kernel the reason   *)
(* names really has the status it names.                                   *)
ReasonIsReal ==
  walking =>
    /\ reason = None <=> status = "ready"
    /\ reason # None =>
         reason.kernel \in Visited /\ health[reason.kernel] = reason.status

(* "Health: status, reason, since": the reason of a report explains its    *)
(* status.  It does not when the worst kernel is not the first bad one.    *)
ReasonExplainsStatus ==
  last.reason # None => last.reason.status = last.status

WorstIs(s) ==
  /\ \A i \in kernels : Rank(health[i]) <= Rank(s)
  /\ s = "ready" \/ \E i \in kernels : health[i] = s

(* /admin/health answers from a cache: when the worst status of the        *)
(* registry stays the same, although kernels come and go, the cache shows  *)
(* it for good.  A failure is reported, one that is over is forgotten.     *)
CacheFollows ==
  \A s \in {"ready", "stopped", "draining", "degraded", "failed"} :
    (<>[]WorstIs(s)) => <>[](last.status = s)
=============================================================================
