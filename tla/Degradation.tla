---------------------------- MODULE Degradation ----------------------------
(***************************************************************************)
(* The degradation policy of cmd/rk/degradation_policy_gen.go: a goroutine *)
(* that hides the exports of unhealthy kernels from discovery and puts     *)
(* them back when the kernel is ready again.                               *)
(*                                                                         *)
(* Every tick takes one copy of the registry (List, under its read lock)   *)
(* and then acts on the entries of that copy, in the order of their ids,   *)
(* while the writers of the registry go on.  Visiting an entry is one      *)
(* action: it writes the registry once, and p.snapshot belongs to this     *)
(* goroutine alone.                                                        *)
(***************************************************************************)
EXTENDS Discovery

VARIABLES
  snapshot,  (* p.snapshot: the exports kept for an id, None when absent    *)
  entries    (* the entries of the copy not visited yet                     *)

policyVars == <<snapshot, entries>>
degradationVars == <<discoveryVars, policyVars>>

DegradationTypeOK ==
  /\ DiscoveryTypeOK
  /\ snapshot \in [Ids -> Exports]
  /\ DOMAIN entries \subseteq Ids
  /\ \A i \in DOMAIN entries : entries[i] \in [health : Statuses, exports : Exports]

NothingToDo == [i \in {} |-> None]

DegradationInit ==
  /\ DiscoveryInit
  /\ snapshot = [i \in Ids |-> None]
  /\ entries = NothingToDo

-----------------------------------------------------------------------------
Tick ==
  /\ DOMAIN entries = {}
  /\ entries' = [i \in kernels |-> [health |-> health[i], exports |-> exports[i]]]
  /\ UNCHANGED <<discoveryVars, snapshot>>

(* The entry of i is the next one of the sorted copy; it is visited.       *)
Visit(i) ==
  /\ i \in DOMAIN entries
  /\ \A j \in DOMAIN entries : i <= j
  /\ entries' = [j \in DOMAIN entries \ {i} |-> entries[j]]
  /\ UNCHANGED <<kernels, health, managerVars>>

Restore(i) ==
  /\ Visit(i)
  /\ entries[i].health = "ready" /\ snapshot[i] # None
  /\ SetExports(i, snapshot[i])
  /\ snapshot' = [snapshot EXCEPT ![i] = None]

(* Faults: what is hidden already is hidden again; draining is forgotten.  *)
HideAgain(i) ==
  /\ Visit(i)
  /\ entries[i].health \in Unhealthy
  /\ snapshot' = [snapshot EXCEPT ![i] = entries[i].exports]
  /\ SetExports(i, None)

HideNotDraining(i) ==
  /\ Visit(i)
  /\ entries[i].health \in Unhealthy \ {"draining"} /\ entries[i].exports # None
  /\ snapshot' = [snapshot EXCEPT ![i] = IF @ = None THEN entries[i].exports ELSE @]
  /\ SetExports(i, None)

(* The exports kept first stay: a second hiding does not overwrite them.   *)
Hide(i) ==
  /\ Visit(i)
  /\ entries[i].health \in Unhealthy /\ entries[i].exports # None
  /\ snapshot' = [snapshot EXCEPT ![i] = IF @ = None THEN entries[i].exports ELSE @]
  /\ SetExports(i, None)

LeaveAlone(i) ==
  /\ Visit(i)
  /\ entries[i].health = "ready" => snapshot[i] = None
  /\ entries[i].health \in Unhealthy => entries[i].exports = None
  /\ UNCHANGED <<exports, snapshot>>

Policy == Tick \/ \E i \in Ids : Restore(i) \/ Hide(i) \/ LeaveAlone(i)

DegradationNext ==
  \/ Policy
  \/ Writers /\ UNCHANGED policyVars

(* The ticker of Run fires for ever; nothing obliges the writers.          *)
DegradationSpec == DegradationInit /\ [][DegradationNext]_degradationVars
FairDegradationSpec == DegradationSpec /\ WF_degradationVars(Policy)

-----------------------------------------------------------------------------
(* What the manager runs is in the registry, whoever else writes it.       *)
RunningListed == running \subseteq kernels

(* The exports of the present launch are visible or kept.                  *)
OwnHeld(i) == launches[i] \in {exports[i], snapshot[i]}

(* The launches of i before the present one; whether the policy still has  *)
(* exports of one of them in its hands.                                    *)
Earlier(i) == 1 .. launches[i] - 1

Leftover(i) ==
  \/ snapshot[i] \in Earlier(i)
  \/ i \in DOMAIN entries /\ entries[i].exports \in Earlier(i)

(* While a domain runs, hiding and restoring, which work on a copy that    *)
(* may be stale, lose the exports of its present launch in one case only:  *)
(* the policy visits i with exports of an earlier launch of i in its       *)
(* hands, kept or in the entry.  A snapshot is not overwritten, so it then *)
(* stays instead of them, or replaces them when they are visible: the      *)
(* domain is not without exports, but has those of the earlier launch.     *)
LostToLeftoverOnly ==
  [][\A i \in running \cap running' :
       OwnHeld(i) /\ ~ OwnHeld(i)' =>
         /\ Leftover(i)
         /\ exports'[i] \in Earlier(i) \/ snapshot'[i] \in Earlier(i)]_degradationVars

(* "Restore the exports if they were hidden": exports that are visible are *)
(* replaced by other ones by a launch only, never by the policy.           *)
RestoreOnlyHidden ==
  [][\A i \in Ids :
       (exports[i] # None /\ exports'[i] \notin {exports[i], None}) =>
         launches'[i] # launches[i]]_degradationVars

(* Only a launch puts a kernel into the registry.  The admin handler does  *)
(* so, too, for any id it is asked about, and the policy may give such a   *)
(* record the exports of a domain that was stopped.                        *)
NoGhosts ==
  [][\A i \in kernels' \ kernels : launches'[i] # launches[i]]_degradationVars

(* A kernel that stays unhealthy is hidden from some moment on, although a *)
(* stale entry may show it again after it was hidden.                      *)
HiddenEventually ==
  \A i \in Ids :
    (<>[](i \in kernels /\ health[i] \in Unhealthy)) => <>[](exports[i] = None)

(* A running domain that stays ready shows exports from some moment on,    *)
(* although a stale entry may hide them after it became ready.  They are   *)
(* its own, or those of an earlier launch (LostToLeftoverOnly).            *)
RestoredEventually ==
  \A i \in Ids :
    (<>[](i \in running /\ health[i] = "ready")) => <>[](exports[i] # None)

(* The policy catches up with the health of a kernel, in both directions.  *)
PolicyCatchesUp == HiddenEventually /\ RestoredEventually
=============================================================================
