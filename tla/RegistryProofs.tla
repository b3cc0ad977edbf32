--------------------------- MODULE RegistryProofs ---------------------------
(***************************************************************************)
(* Proofs about the registry of kernels and the two goroutines that read   *)
(* it, for every set of kernel ids, every set of statuses a kernel may     *)
(* report and every number of launches: what the writers keep, whoever     *)
(* reads; the aggregator; the degradation policy.                          *)
(***************************************************************************)
EXTENDS Degradation, HealthAggregator, TLAPS

-----------------------------------------------------------------------------
(* The registry.                                                           *)

LEMMA DiscoveryInitTypeOK == DiscoveryInit => DiscoveryTypeOK
<1>1. None \in Exports
  BY DEF Exports
<1> QED
  BY <1>1, LaunchesAssumption, IdsAssumption DEF DiscoveryInit, DiscoveryTypeOK, Statuses

(* A new record has the exports of a new launch and a health the kernel    *)
(* may report; who runs is left to the caller.                             *)
LEMMA RegisterTypeOK ==
  ASSUME DiscoveryTypeOK, NEW i \in Ids, Register(i), running' \subseteq Ids,
         booting' = booting
  PROVE  DiscoveryTypeOK'
<1>0. None \in Exports /\ \A n \in Launches : n \in Exports
  BY DEF Exports
<1> USE <1>0 DEF DiscoveryTypeOK
<1>1. launches[i] \in 0 .. MaxLaunches /\ launches[i] < MaxLaunches
  BY DEF Register
<1>2. launches[i] + 1 \in Launches
  BY <1>1, LaunchesAssumption DEF Launches
<1>3. launches' \in [Ids -> 0 .. MaxLaunches]
  BY <1>2, LaunchesAssumption DEF Register, Launches
<1>4. health' \in [Ids -> Statuses] /\ exports' \in [Ids -> Exports]
  BY <1>2, ReportedAssumption DEF Register
<1> QED
  BY <1>3, <1>4 DEF Register

(* Every writer of the registry keeps it well typed.                       *)
LEMMA WritersTypeOK == DiscoveryTypeOK /\ Writers => DiscoveryTypeOK'
<1> SUFFICES ASSUME DiscoveryTypeOK, NEW i \in Ids,
                    \/ Launch(i) \/ LaunchByFactory(i) \/ StopDomain(i)
                    \/ AdminRestart(i) \/ AdminDrain(i) \/ BootDone
             PROVE  DiscoveryTypeOK'
  BY IdsAssumption DEF Writers
<1>1. CASE Launch(i) \/ LaunchByFactory(i)
  <2>1. running' \subseteq Ids /\ booting' = booting
    BY <1>1 DEF Launch, LaunchByFactory, DiscoveryTypeOK
  <2> QED
    BY <1>1, <2>1, RegisterTypeOK DEF Launch, LaunchByFactory
<1>2. CASE StopDomain(i)
  <2>1. None \in Exports
    BY DEF Exports
  <2> QED
    BY <1>2, <2>1 DEF StopDomain, DiscoveryTypeOK, Statuses
<1>3. CASE AdminRestart(i) \/ AdminDrain(i)
  BY <1>3 DEF AdminRestart, AdminDrain, UpdateHealth, managerVars,
              DiscoveryTypeOK, Statuses, Unhealthy
<1>4. CASE BootDone
  BY <1>4 DEF BootDone, registryVars, DiscoveryTypeOK
<1> QED
  BY <1>1, <1>2, <1>3, <1>4

-----------------------------------------------------------------------------
(* The health aggregator.  Its two switches over a status first.            *)

LEMMA RankValues ==
  /\ Rank("failed") = 4 /\ Rank("degraded") = 3 /\ Rank("draining") = 2
  /\ Rank("stopped") = 1 /\ Rank("ready") = 0 /\ Rank("unset") = 0
  BY DEF Rank

LEMMA OverridesValues ==
  /\ Overrides("failed") = Unhealthy \cup {"ready"}
  /\ Overrides("degraded") = {"ready", "stopped", "draining", "degraded"}
  /\ Overrides("draining") = {"ready", "stopped", "draining"}
  /\ Overrides("stopped") = {"ready"}
  /\ Overrides("ready") = {} /\ Overrides("unset") = {}
  BY DEF Overrides

(* The switch is a maximum: a status replaces the summary only by one at   *)
(* least as bad, and is kept only when it is at least as bad.              *)
LEMMA OverridesIsMax ==
  ASSUME NEW h \in Statuses, NEW s \in Unhealthy \cup {"ready"}
  PROVE  /\ Rank(h) \in Nat /\ Rank(s) \in Nat
         /\ s \in Overrides(h) => h \in Unhealthy /\ Rank(s) <= Rank(h)
         /\ s \notin Overrides(h) => Rank(h) <= Rank(s)
         /\ s = "ready" /\ s \notin Overrides(h) => h \notin Unhealthy
  BY RankValues, OverridesValues DEF Statuses, Unhealthy

-----------------------------------------------------------------------------
(* Typing.                                                                 *)

LEMMA InitTypeOK == Init => TypeOK
<1> SUFFICES ASSUME Init PROVE TypeOK
  OBVIOUS
<1>1. None \in Reasons
  BY DEF Reasons
<1>2. DiscoveryTypeOK
  BY DiscoveryInitTypeOK DEF Init
<1>3. last \in [status : Unhealthy \cup {"ready"}, reason : Reasons]
  BY <1>1 DEF Init
<1> QED
  BY <1>1, <1>2, <1>3 DEF Init, TypeOK

LEMMA NextTypeOK == TypeOK /\ [Next]_vars => TypeOK'
<1> SUFFICES ASSUME TypeOK, [Next]_vars PROVE TypeOK'
  OBVIOUS
<1> USE DEF TypeOK
<1>1. CASE Begin
  <2>1. None \in Reasons
    BY DEF Reasons
  <2>2. DiscoveryTypeOK'
    BY <1>1 DEF Begin, DiscoveryTypeOK, discoveryVars, registryVars, managerVars
  <2>3. kernels \subseteq Ids
    BY DEF DiscoveryTypeOK
  <2> QED
    BY <1>1, <2>1, <2>2, <2>3 DEF Begin
<1>2. ASSUME NEW i \in Ids, VisitKernel(i) PROVE TypeOK'
  <2>1. DiscoveryTypeOK' /\ kernels' = kernels /\ health[i] \in Statuses
    BY <1>2 DEF VisitKernel, DiscoveryTypeOK, discoveryVars, registryVars, managerVars
  <2>2. status \in Overrides(health[i]) =>
          health[i] \in Unhealthy /\ [kernel |-> i, status |-> health[i]] \in Reasons
    BY <2>1, OverridesIsMax DEF Reasons
  <2>3. status' \in Unhealthy \cup {"ready"} /\ reason' \in Reasons
    BY <1>2, <2>2 DEF VisitKernel
  <2> QED
    BY <1>2, <2>1, <2>3 DEF VisitKernel
<1>3. CASE End
  <2>1. DiscoveryTypeOK'
    BY <1>3 DEF End, DiscoveryTypeOK, discoveryVars, registryVars, managerVars
  <2> QED
    BY <1>3, <2>1 DEF End
<1>4. CASE ~ walking /\ Writers /\ UNCHANGED <<walkVars, last>>
  BY <1>4, WritersTypeOK DEF walkVars
<1>5. CASE UNCHANGED vars
  BY <1>5 DEF vars, walkVars, discoveryVars, registryVars, managerVars, DiscoveryTypeOK
<1> QED
  BY <1>1, <1>2, <1>3, <1>4, <1>5 DEF Next, Aggregate

(* Every reachable state of the aggregator is well typed.                  *)
THEOREM TypeCorrect == Spec => []TypeOK
  BY InitTypeOK, NextTypeOK, PTL DEF Spec

-----------------------------------------------------------------------------
(* The walk computes a maximum.                                            *)

IInv == WalkWithinRegistry /\ WorstSoFar /\ ReasonIsReal

(* Only VisitKernel needs work: the registry is locked while walking, so   *)
(* what was true of the kernels visited before stays true.                 *)
LEMMA NextIInv == TypeOK /\ IInv /\ [Next]_vars => IInv'
<1> SUFFICES ASSUME TypeOK, IInv, [Next]_vars PROVE IInv'
  OBVIOUS
<1>1. CASE Begin
  BY <1>1 DEF Begin, IInv, WalkWithinRegistry, WorstSoFar, ReasonIsReal, Visited,
              discoveryVars, registryVars
<1>2. ASSUME NEW i \in Ids, VisitKernel(i) PROVE IInv'
  <2> DEFINE h == health[i]
  <2>1. /\ walking /\ walking' /\ kernels' = kernels /\ health' = health
        /\ i \in kernels /\ todo' = todo \ {i} /\ Visited' = Visited \cup {i}
    BY <1>2 DEF VisitKernel, IInv, WalkWithinRegistry, Visited, discoveryVars, registryVars
  <2>2. h \in Statuses /\ status \in Unhealthy \cup {"ready"}
    BY DEF TypeOK, DiscoveryTypeOK
  <2>3. \A j \in Visited : health[j] \in Statuses
    BY DEF Visited, TypeOK, DiscoveryTypeOK
  <2>4. CASE status \in Overrides(h)
    <3>1. status' = h /\ h \in Unhealthy /\ Rank(status) <= Rank(h)
      BY <1>2, <2>2, <2>4, OverridesIsMax DEF VisitKernel
    <3>2. reason' = IF reason = None THEN [kernel |-> i, status |-> h] ELSE reason
      BY <1>2, <2>4 DEF VisitKernel
    <3>3. \A j \in Visited' : Rank(health[j]) <= Rank(h)
      BY <2>1, <2>2, <2>3, <3>1, OverridesIsMax DEF IInv, WorstSoFar
    <3>4. WorstSoFar'
      BY <2>1, <3>1, <3>3 DEF WorstSoFar
    <3>5. [kernel |-> i, status |-> h] # None
      BY <2>2, NoneNotAReason, <3>1
    <3>6. ReasonIsReal'
      BY <2>1, <3>1, <3>2, <3>5 DEF IInv, ReasonIsReal, Unhealthy
    <3> QED
      BY <2>1, <3>4, <3>6 DEF IInv, WalkWithinRegistry
  <2>5. CASE status \notin Overrides(h)
    <3>1. status' = status /\ reason' = reason /\ Rank(h) <= Rank(status)
      BY <1>2, <2>2, <2>5, OverridesIsMax DEF VisitKernel
    <3>2. WorstSoFar'
      BY <2>1, <3>1 DEF IInv, WorstSoFar
    <3>3. ReasonIsReal'
      BY <2>1, <3>1 DEF IInv, ReasonIsReal
    <3> QED
      BY <2>1, <3>2, <3>3 DEF IInv, WalkWithinRegistry
  <2> QED
    BY <2>4, <2>5
<1>3. CASE End \/ (~ walking /\ Writers /\ UNCHANGED <<walkVars, last>>)
  BY <1>3 DEF End, walkVars, IInv, WalkWithinRegistry, WorstSoFar, ReasonIsReal
<1>4. CASE UNCHANGED vars
  BY <1>4 DEF vars, walkVars, discoveryVars, registryVars, IInv,
              WalkWithinRegistry, WorstSoFar, ReasonIsReal, Visited
<1> QED
  BY <1>1, <1>2, <1>3, <1>4 DEF Next, Aggregate

LEMMA InitIInv == Init => IInv
  BY DEF Init, IInv, WalkWithinRegistry, WorstSoFar, ReasonIsReal

(* In whatever order the kernels are walked, the summary is the worst of   *)
(* the statuses seen, so the order of the map does not change it.          *)
THEOREM SummaryIsWorst == Spec => []WorstSoFar
<1>1. IInv => WorstSoFar
  BY DEF IInv
<1> QED
  BY <1>1, TypeCorrect, InitIInv, NextIInv, PTL DEF Spec

(* The reason of a summary is a fact about the registry.                   *)
THEOREM ReasonTrue == Spec => []ReasonIsReal
<1>1. IInv => ReasonIsReal
  BY DEF IInv
<1> QED
  BY <1>1, TypeCorrect, InitIInv, NextIInv, PTL DEF Spec

-----------------------------------------------------------------------------
(* The degradation policy: typing.                                         *)

LEMMA DegradationInitTypeOK == DegradationInit => DegradationTypeOK
<1> SUFFICES ASSUME DegradationInit PROVE DegradationTypeOK
  OBVIOUS
<1>1. DiscoveryTypeOK
  BY DiscoveryInitTypeOK DEF DegradationInit
<1>2. DOMAIN entries = {}
  BY DEF DegradationInit, NothingToDo
<1> QED
  BY <1>1, <1>2 DEF DegradationInit, DegradationTypeOK, Exports

(* Visiting an entry takes it off the copy and leaves the others alone.    *)
LEMMA DegradationNextTypeOK == DegradationTypeOK /\ [DegradationNext]_degradationVars => DegradationTypeOK'
<1> SUFFICES ASSUME DegradationTypeOK, [DegradationNext]_degradationVars PROVE DegradationTypeOK'
  OBVIOUS
<1>1. CASE Writers /\ UNCHANGED policyVars
  BY <1>1, WritersTypeOK DEF DegradationTypeOK, policyVars
<1>2. CASE Tick
  BY <1>2 DEF Tick, DegradationTypeOK, DiscoveryTypeOK, discoveryVars, registryVars,
              managerVars
<1>3. ASSUME NEW i \in Ids, Visit(i),
             exports' \in [Ids -> Exports], snapshot' \in [Ids -> Exports],
             \A j \in Ids \ kernels : exports'[j] = None
      PROVE  DegradationTypeOK'
  BY <1>3 DEF Visit, DegradationTypeOK, DiscoveryTypeOK, managerVars
<1>4. ASSUME NEW i \in Ids, Restore(i) PROVE DegradationTypeOK'
  <2>1. exports' \in [Ids -> Exports] /\ snapshot' \in [Ids -> Exports]
    BY <1>4 DEF Restore, SetExports, DegradationTypeOK, DiscoveryTypeOK, Exports
  <2>2. \A j \in Ids \ kernels : exports'[j] = None
    BY <1>4 DEF Restore, SetExports, DegradationTypeOK, DiscoveryTypeOK
  <2> QED
    BY <1>3, <1>4, <2>1, <2>2 DEF Restore
<1>5. ASSUME NEW i \in Ids, Hide(i) PROVE DegradationTypeOK'
  <2>1. entries[i].exports \in Exports
    BY <1>5 DEF Hide, Visit, DegradationTypeOK
  <2>2. exports' \in [Ids -> Exports] /\ snapshot' \in [Ids -> Exports]
    BY <1>5, <2>1 DEF Hide, SetExports, DegradationTypeOK, DiscoveryTypeOK, Exports
  <2>3. \A j \in Ids \ kernels : exports'[j] = None
    BY <1>5 DEF Hide, SetExports, DegradationTypeOK, DiscoveryTypeOK
  <2> QED
    BY <1>3, <1>5, <2>2, <2>3 DEF Hide
<1>6. ASSUME NEW i \in Ids, LeaveAlone(i) PROVE DegradationTypeOK'
  BY <1>3, <1>6 DEF LeaveAlone, DegradationTypeOK, DiscoveryTypeOK
<1>7. CASE UNCHANGED degradationVars
  BY <1>7
  DEF degradationVars, DegradationTypeOK, DiscoveryTypeOK, discoveryVars, registryVars,
      managerVars, policyVars
<1> QED
  BY <1>1, <1>2, <1>4, <1>5, <1>6, <1>7 DEF DegradationNext, Policy

(* Every reachable state of the registry and the policy is well typed.     *)
THEOREM DegradationTypeCorrect == DegradationSpec => []DegradationTypeOK
  BY DegradationInitTypeOK, DegradationNextTypeOK, PTL DEF DegradationSpec

-----------------------------------------------------------------------------
(* What the policy keeps, and what it loses.                               *)

(* Nobody holds exports of a launch that is still to come.                 *)
OfPastLaunches ==
  \A i \in Ids :
    /\ exports[i] \in 1 .. launches[i] \cup {None}
    /\ snapshot[i] \in 1 .. launches[i] \cup {None}
    /\ i \in DOMAIN entries => entries[i].exports \in 1 .. launches[i] \cup {None}

(* A running domain has exports, of whichever launch, visible or kept.     *)
SomeExportsHeld == \A i \in running : exports[i] = None => snapshot[i] # None

KeepInv == RunningListed /\ SomeExportsHeld /\ OfPastLaunches

(* A launch registers its own exports and makes all others earlier ones.   *)
LEMMA RegisterKeepsPast ==
  ASSUME DegradationTypeOK, OfPastLaunches, NEW i \in Ids, Register(i), UNCHANGED policyVars
  PROVE  /\ OfPastLaunches'
         /\ exports' = [exports EXCEPT ![i] = launches'[i]] /\ launches'[i] # None
<1>1. launches[i] \in Nat /\ launches' = [launches EXCEPT ![i] = launches[i] + 1]
  BY LaunchesAssumption DEF Register, DegradationTypeOK, DiscoveryTypeOK
<1>2. launches'[i] = launches[i] + 1 /\ exports' = [exports EXCEPT ![i] = launches[i] + 1]
  BY <1>1 DEF Register, DegradationTypeOK, DiscoveryTypeOK
<1>3. \A j \in Ids : launches[j] \in Nat /\ launches'[j] \in Nat /\ launches[j] <= launches'[j]
  BY <1>1, LaunchesAssumption DEF DegradationTypeOK, DiscoveryTypeOK
<1>4. \A j \in Ids : 1 .. launches[j] \subseteq 1 .. launches'[j]
  BY <1>3
<1>5. launches[i] + 1 \in 1 .. launches'[i]
  BY <1>1, <1>2
<1>6. ASSUME NEW j \in Ids PROVE exports'[j] \in 1 .. launches'[j] \cup {None}
  BY <1>2, <1>4, <1>5 DEF OfPastLaunches, DegradationTypeOK, DiscoveryTypeOK
<1>7. snapshot' = snapshot /\ entries' = entries
  BY DEF policyVars
<1>8. OfPastLaunches'
  BY <1>4, <1>6, <1>7 DEF OfPastLaunches
<1>9. launches[i] + 1 # None
  BY <1>1, NoneAssumption
<1> QED
  BY <1>2, <1>8, <1>9

(* Restore empties the snapshot only as it puts the exports back: the      *)
(* record is there because a running kernel is listed.                     *)
LEMMA NextKeepInv == DegradationTypeOK /\ KeepInv /\ [DegradationNext]_degradationVars => KeepInv'
<1> SUFFICES ASSUME DegradationTypeOK, KeepInv, [DegradationNext]_degradationVars PROVE KeepInv'
  OBVIOUS
<1> USE DEF DegradationTypeOK, DiscoveryTypeOK, KeepInv, RunningListed, SomeExportsHeld
<1>1. ASSUME NEW i \in Ids, Launch(i) \/ LaunchByFactory(i), UNCHANGED policyVars
      PROVE  KeepInv'
  <2>1. Register(i) /\ running' \subseteq running \cup {i} /\ kernels' = kernels \cup {i}
    BY <1>1 DEF Launch, LaunchByFactory, Register
  <2>2. /\ OfPastLaunches'
        /\ exports' = [exports EXCEPT ![i] = launches'[i]] /\ launches'[i] # None
    BY <1>1, <2>1, RegisterKeepsPast
  <2> QED
    BY <1>1, <2>1, <2>2 DEF policyVars
<1>2. ASSUME NEW i \in Ids, StopDomain(i), UNCHANGED policyVars PROVE KeepInv'
  BY <1>2 DEF StopDomain, policyVars, OfPastLaunches
<1>3. ASSUME NEW i \in Ids, AdminRestart(i) \/ AdminDrain(i) \/ BootDone, UNCHANGED policyVars
      PROVE  KeepInv'
  BY <1>3 DEF AdminRestart, AdminDrain, UpdateHealth, BootDone, registryVars, managerVars,
              policyVars, OfPastLaunches
<1>4. CASE Tick
  BY <1>4 DEF Tick, discoveryVars, registryVars, managerVars, OfPastLaunches
<1>5. ASSUME NEW i \in Ids, Restore(i) PROVE KeepInv'
  BY <1>5 DEF Restore, Visit, SetExports, managerVars, OfPastLaunches
<1>6. ASSUME NEW i \in Ids, Hide(i) PROVE KeepInv'
  BY <1>6 DEF Hide, Visit, SetExports, managerVars, OfPastLaunches
<1>7. ASSUME NEW i \in Ids, LeaveAlone(i) PROVE KeepInv'
  BY <1>7 DEF LeaveAlone, Visit, managerVars, OfPastLaunches
<1>8. CASE UNCHANGED degradationVars
  BY <1>8 DEF degradationVars, discoveryVars, registryVars, managerVars, policyVars,
              OfPastLaunches
<1> QED
  BY <1>1, <1>2, <1>3, <1>4, <1>5, <1>6, <1>7, <1>8, IdsAssumption
  DEF DegradationNext, Policy, Writers

LEMMA InitKeepInv == DegradationInit => KeepInv
  BY DEF DegradationInit, DiscoveryInit, NothingToDo, KeepInv, RunningListed,
         SomeExportsHeld, OfPastLaunches

(* What is not of the present launch is of an earlier one.                 *)
LEMMA EarlierThanPresent ==
  ASSUME DegradationTypeOK, NEW i \in Ids, NEW x \in 1 .. launches[i] \cup {None},
         x # None, x # launches[i]
  PROVE  x \in Earlier(i)
<1>1. launches[i] \in Nat
  BY LaunchesAssumption DEF DegradationTypeOK, DiscoveryTypeOK
<1>2. x \in 1 .. launches[i]
  OBVIOUS
<1> QED
  BY <1>1, <1>2 DEF Earlier

(* Only Restore and Hide can lose the exports of the present launch: by a  *)
(* snapshot that is of an earlier launch, or by an entry that is.          *)
LEMMA StepLosesToLeftover ==
  ASSUME DegradationTypeOK, KeepInv, DegradationTypeOK', KeepInv', DegradationNext,
         NEW i \in running, i \in running', OwnHeld(i), ~ OwnHeld(i)'
  PROVE  Leftover(i) /\ (exports'[i] \in Earlier(i) \/ snapshot'[i] \in Earlier(i))
<1>1. i \in Ids /\ i \in kernels /\ exports \in [Ids -> Exports] /\ snapshot \in [Ids -> Exports]
  BY DEF DegradationTypeOK, DiscoveryTypeOK, KeepInv, RunningListed
<1>2. CASE Writers /\ UNCHANGED policyVars
  <2> SUFFICES ASSUME NEW j \in Ids,
                      \/ Launch(j) \/ LaunchByFactory(j) \/ StopDomain(j)
                      \/ AdminRestart(j) \/ AdminDrain(j) \/ BootDone
               PROVE  OwnHeld(i)'
    BY <1>2, IdsAssumption DEF Writers
  <2>1. CASE Launch(j) \/ LaunchByFactory(j)
    <3>1. Register(j)
      BY <2>1 DEF Launch, LaunchByFactory
    <3>2. exports' = [exports EXCEPT ![j] = launches'[j]]
      BY <1>2, <3>1, RegisterKeepsPast DEF KeepInv
    <3>3. i # j => launches'[i] = launches[i]
      BY <1>1, <3>1 DEF Register, DegradationTypeOK, DiscoveryTypeOK
    <3>4. snapshot' = snapshot
      BY <1>2 DEF policyVars
    <3> QED
      BY <1>1, <3>2, <3>3, <3>4 DEF OwnHeld
  <2>2. CASE StopDomain(j)
    BY <1>1, <1>2, <2>2 DEF StopDomain, policyVars, OwnHeld
  <2>3. CASE AdminRestart(j) \/ AdminDrain(j) \/ BootDone
    BY <1>2, <2>3 DEF AdminRestart, AdminDrain, UpdateHealth, BootDone, registryVars,
                      managerVars, policyVars, OwnHeld
  <2> QED
    BY <2>1, <2>2, <2>3
<1>3. ASSUME launches' = launches PROVE exports'[i] \in Earlier(i) \/ snapshot'[i] \in Earlier(i)
  <2>1. /\ exports'[i] # None \/ snapshot'[i] # None
        /\ exports'[i] \in 1 .. launches[i] \cup {None}
        /\ snapshot'[i] \in 1 .. launches[i] \cup {None}
    BY <1>1, <1>3 DEF KeepInv, SomeExportsHeld, OfPastLaunches
  <2>2. exports'[i] # launches[i] /\ snapshot'[i] # launches[i]
    BY <1>3 DEF OwnHeld
  <2> QED
    BY <1>1, <2>1, <2>2, EarlierThanPresent
<1>4. ASSUME NEW j \in Ids, Restore(j) \/ Hide(j) \/ LeaveAlone(j)
      PROVE  Leftover(i) /\ launches' = launches
  <2>1. launches' = launches /\ j \in DOMAIN entries
    BY <1>4 DEF Restore, Hide, LeaveAlone, Visit, managerVars
  <2>2. i = j /\ ~ LeaveAlone(j)
    BY <1>1, <1>4, <2>1 DEF Restore, Hide, LeaveAlone, SetExports, OwnHeld
  <2>3. /\ snapshot[i] \in 1 .. launches[i] \cup {None}
        /\ entries[i].exports \in 1 .. launches[i] \cup {None}
    BY <1>1, <2>1, <2>2 DEF KeepInv, OfPastLaunches
  <2>4. CASE Restore(i)
    <3>1. snapshot[i] # None /\ exports'[i] = snapshot[i]
      BY <1>1, <2>4 DEF Restore, SetExports
    <3>2. snapshot[i] # launches[i]
      BY <2>1, <3>1 DEF OwnHeld
    <3> QED
      BY <1>1, <2>1, <2>3, <3>1, <3>2, EarlierThanPresent DEF Leftover
  <2>5. CASE Hide(i)
    <3>1. /\ entries[i].exports # None
          /\ snapshot'[i] = IF snapshot[i] = None THEN entries[i].exports ELSE snapshot[i]
      BY <1>1, <2>5 DEF Hide
    <3>2. snapshot'[i] # launches[i]
      BY <2>1 DEF OwnHeld
    <3>3. CASE snapshot[i] = None
      BY <1>1, <2>1, <2>2, <2>3, <3>1, <3>2, <3>3, EarlierThanPresent DEF Leftover
    <3>4. CASE snapshot[i] # None
      BY <1>1, <2>1, <2>3, <3>1, <3>2, <3>4, EarlierThanPresent DEF Leftover
    <3> QED
      BY <3>3, <3>4
  <2> QED
    BY <1>4, <2>1, <2>2, <2>4, <2>5
<1>5. ~ Tick
  BY DEF Tick, discoveryVars, registryVars, managerVars, OwnHeld
<1> QED
  BY <1>2, <1>3, <1>4, <1>5 DEF DegradationNext, Policy

(* The exports of the present launch of a running domain stay visible or   *)
(* kept, unless the policy visits the domain with exports of an earlier    *)
(* launch in its hands, which then take their place.                       *)
THEOREM LostOnlyToEarlier == DegradationSpec => LostToLeftoverOnly
<1>1. DegradationTypeOK /\ KeepInv /\ DegradationTypeOK' /\ KeepInv' /\ [DegradationNext]_degradationVars =>
        [\A i \in running \cap running' :
           OwnHeld(i) /\ ~ OwnHeld(i)' =>
             /\ Leftover(i)
             /\ exports'[i] \in Earlier(i) \/ snapshot'[i] \in Earlier(i)]_degradationVars
  BY StepLosesToLeftover
<1> QED
  BY <1>1, DegradationTypeCorrect, InitKeepInv, DegradationInitTypeOK, DegradationNextTypeOK,
     NextKeepInv, PTL DEF DegradationSpec, LostToLeftoverOnly

(* A domain that is launched once never loses its exports: as long as it   *)
(* runs, discovery shows them or the policy keeps them to be restored.     *)
THEOREM FirstLaunchKept ==
  DegradationSpec => [](\A i \in running : launches[i] = 1 => OwnHeld(i))
<1>1. DegradationTypeOK /\ KeepInv => \A i \in running : launches[i] = 1 => OwnHeld(i)
  <2> SUFFICES ASSUME DegradationTypeOK, KeepInv, NEW i \in running, launches[i] = 1
               PROVE  OwnHeld(i)
    OBVIOUS
  <2>1. i \in Ids /\ (exports[i] # None \/ snapshot[i] # None)
    BY DEF DegradationTypeOK, DiscoveryTypeOK, KeepInv, SomeExportsHeld
  <2>2. exports[i] \in 1 .. 1 \cup {None} /\ snapshot[i] \in 1 .. 1 \cup {None}
    BY <2>1 DEF KeepInv, OfPastLaunches
  <2> QED
    BY <2>1, <2>2 DEF OwnHeld
<1> QED
  BY <1>1, DegradationTypeCorrect, InitKeepInv, NextKeepInv, PTL DEF DegradationSpec
=============================================================================
