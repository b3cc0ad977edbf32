----------------------------- MODULE Discovery -----------------------------
(***************************************************************************)
(* The registry of kernels of cmd/rk/discovery_registry_gen.go and the     *)
(* callers that write it: the boot of the root kernel, which registers     *)
(* itself; the domain manager, which registers a domain when it launches   *)
(* it and unregisters it when it stops it; the launch by factory, which    *)
(* only registers; and the admin handler, which overwrites the health of   *)
(* any id it is asked about.                                               *)
(*                                                                         *)
(* Every operation runs under the mutex of the registry and is one action. *)
(* Boot launches what the file lists and ends; only then come the reloads  *)
(* and the requests to the admin server.                                   *)
(* Of a KernelRecord the health status and the exports are kept; the       *)
(* exports are named by the launch that registered them.  The record of an *)
(* id that is not in the map holds the zero values; the zero value of the  *)
(* health status, the empty string, is written "unset".                    *)
(***************************************************************************)
EXTENDS Naturals

CONSTANTS
  Ids,         (* the kernel ids; the code sorts by them                    *)
  Root,        (* the id of the root kernel, "rk"                           *)
  Domains,     (* the ids of the domains in the configuration               *)
  Reported,    (* the statuses KernelModule.Health() may report at launch   *)
  None,        (* nil exports                                               *)
  MaxLaunches  (* bound of the model: launches of one id                    *)

Unhealthy == {"degraded", "failed", "draining", "stopped"}
Statuses == Unhealthy \cup {"ready", "unset"}

ASSUME IdsAssumption == Ids \subseteq Nat /\ Root \in Ids /\ Domains \subseteq Ids
ASSUME ReportedAssumption == Reported \subseteq Statuses
ASSUME LaunchesAssumption == MaxLaunches \in Nat
ASSUME NoneAssumption == None \notin Nat

VARIABLES
  booting,   (* the boot loop has not ended                                 *)
  kernels,   (* the keys of r.kernels                                       *)
  health,    (* rec.Health.Status                                           *)
  exports,   (* rec.Exports                                                 *)
  running,   (* ids the domain manager holds a run for (m.runs)             *)
  launches   (* how many times an id was launched                           *)

registryVars == <<kernels, health, exports>>
managerVars == <<booting, running, launches>>
discoveryVars == <<registryVars, managerVars>>

Launches == 1 .. MaxLaunches
Exports == Launches \cup {None}

DiscoveryTypeOK ==
  /\ booting \in BOOLEAN
  /\ kernels \subseteq Ids
  /\ health \in [Ids -> Statuses]
  /\ exports \in [Ids -> Exports]
  /\ \A i \in Ids \ kernels : exports[i] = None
  /\ running \subseteq Ids
  /\ launches \in [Ids -> 0 .. MaxLaunches]

(* The root kernel has registered itself, ready and without exports; no    *)
(* domain is launched before the registry and its readers exist.           *)
DiscoveryInit ==
  /\ booting = TRUE
  /\ kernels = {Root}
  /\ health = [i \in Ids |-> IF i = Root THEN "ready" ELSE "unset"]
  /\ exports = [i \in Ids |-> None]
  /\ running = {}
  /\ launches = [i \in Ids |-> 0]

-----------------------------------------------------------------------------
(* Register stores a new record, with the exports and the health of a new  *)
(* instance, over whatever the map holds under that id.                    *)
Register(i) ==
  /\ launches[i] < MaxLaunches
  /\ launches' = [launches EXCEPT ![i] = @ + 1]
  /\ kernels' = kernels \cup {i}
  /\ \E h \in Reported : health' = [health EXCEPT ![i] = h]
  /\ exports' = [exports EXCEPT ![i] = launches[i] + 1]

(* launchInproc, its last part: the record, then the run.  The boot loop   *)
(* calls it for every entry of the file, so for an id listed twice over a  *)
(* running domain; Reload calls it when it finds no run.                   *)
Launch(i) ==
  /\ booting \/ i \notin running
  /\ Register(i)
  /\ running' = running \cup {i}
  /\ UNCHANGED booting

(* LaunchDomainWithFactory, its last part: a record and no run.  Only the  *)
(* boot loop calls it, for an id listed twice over an earlier record.      *)
LaunchByFactory(i) ==
  /\ booting
  /\ Register(i)
  /\ UNCHANGED <<booting, running>>

BootDone ==
  /\ booting
  /\ booting' = FALSE
  /\ UNCHANGED <<registryVars, running, launches>>

(* stop, called by Reload: the run is forgotten, the record unregistered.  *)
StopDomain(i) ==
  /\ ~ booting
  /\ i \in running
  /\ running' = running \ {i}
  /\ kernels' = kernels \ {i}
  /\ health' = [health EXCEPT ![i] = "unset"]
  /\ exports' = [exports EXCEPT ![i] = None]
  /\ UNCHANGED <<booting, launches>>

(* UpdateHealth: an unknown id gets a record of its own, without exports.  *)
UpdateHealth(i, h) ==
  /\ kernels' = kernels \cup {i}
  /\ health' = [health EXCEPT ![i] = h]
  /\ UNCHANGED <<exports, managerVars>>

(* Fault: no test whether the id is in the map.                            *)
SetExportsAlways(i, ex) == exports' = [exports EXCEPT ![i] = ex]

(* SetExports: nothing happens when the id is not in the map.              *)
SetExports(i, ex) ==
  exports' = IF i \in kernels THEN [exports EXCEPT ![i] = ex] ELSE exports

(* POST /admin/kernels/{id}/restart and /drain: they only set the health.  *)
(* The admin server starts behind the boot loop.                           *)
AdminRestart(i) == ~ booting /\ UpdateHealth(i, "ready")
AdminDrain(i) == ~ booting /\ UpdateHealth(i, "draining")

Writers ==
  \/ \E i \in Domains : Launch(i) \/ LaunchByFactory(i) \/ StopDomain(i)
  \/ \E i \in Ids : AdminRestart(i) \/ AdminDrain(i)
  \/ BootDone
=============================================================================
