-------------------------- MODULE SupervisorProofs --------------------------
(* Proofs about Supervisor, for every finite set of workers, every set of  *)
(* names and every bound of the attempt counter, and about Backoff, by     *)
(* which its workers sleep.                                                *)
EXTENDS Supervisor, Backoff, FiniteSetTheorems, TLAPS

-----------------------------------------------------------------------------
(* Typing and the WaitGroup.  That the counter never goes negative is part *)
(* of the type, and holds because it counts the live goroutines: the two   *)
(* are one inductive invariant.                                            *)

LEMMA InitTypeOK == Init => TypeOK
  BY AttemptsAssumption DEF Init, TypeOK, Policies, Stages

(* The goroutines alive are finitely many.                                 *)
LEMMA LiveFinite == IsFiniteSet(Live) /\ Cardinality(Live) \in Nat
  BY WorkersAssumption, FS_Subset, FS_CardinalityType DEF Live

(* One case per action; the goroutine's own steps move pc within Stages.   *)
LEMMA NextTypeOK == TypeOK /\ WaitGroupCountsLive /\ [Next]_vars => TypeOK'
<1> SUFFICES ASSUME TypeOK, WaitGroupCountsLive, [Next]_vars PROVE TypeOK'
  OBVIOUS
<1> USE AttemptsAssumption DEF TypeOK, Stages, Policies, specVars, Goto
<1>1. ASSUME NEW w \in Workers, Start(w) PROVE TypeOK'
  BY <1>1 DEF Start
<1>2. ASSUME NEW n \in Names, Stop(n) PROVE TypeOK'
  BY <1>2 DEF Stop
<1>3. CASE StopAllCancel
  BY <1>3 DEF StopAllCancel
<1>4. CASE StopAllMark
  BY <1>4 DEF StopAllMark
<1>5. CASE WaitReturn
  BY <1>5 DEF WaitReturn
<1>6. ASSUME NEW w \in Workers, Check(w) PROVE TypeOK'
  BY <1>6 DEF Check
<1>7. ASSUME NEW w \in Workers, CallFn(w) PROVE TypeOK'
  BY <1>7 DEF CallFn
<1>8. ASSUME NEW w \in Workers, NEW err \in BOOLEAN, FnReturns(w, err) PROVE TypeOK'
  <2>1. attempts' \in [Workers -> 0 .. MaxAttempts]
    BY <1>8 DEF FnReturns
  <2>2. failed' \in [Workers -> BOOLEAN]
    BY <1>8, Zenon DEF FnReturns
  <2>3. pc' \in [Workers -> Stages]
    BY <1>8 DEF FnReturns
  <2>4. UNCHANGED <<workers, name, policy, stopped, wg, shutdown>>
    BY <1>8 DEF FnReturns
  <2> QED
    BY <2>1, <2>2, <2>3, <2>4
<1>9. ASSUME NEW w \in Workers, Remove(w) PROVE TypeOK'
  BY <1>9 DEF Remove
<1>10. ASSUME NEW w \in Workers, Restart(w) PROVE TypeOK'
  BY <1>10 DEF Restart
<1>11. ASSUME NEW w \in Workers, BackoffElapsed(w) PROVE TypeOK'
  BY <1>11 DEF BackoffElapsed
<1>12. ASSUME NEW w \in Workers, BackoffCancelled(w) PROVE TypeOK'
  BY <1>12 DEF BackoffCancelled
<1>13. ASSUME NEW w \in Workers, Leave(w) PROVE TypeOK'
  <2>1. wg - 1 \in Nat
    <3>1. w \in Live
      BY <1>13 DEF Leave, Live
    <3>2. Cardinality(Live) # 0
      BY <3>1, LiveFinite, FS_EmptySet
    <3> QED
      BY <3>2, LiveFinite DEF WaitGroupCountsLive
  <2> QED
    BY <1>13, <2>1 DEF Leave
<1>14. CASE UNCHANGED vars
  BY <1>14 DEF vars
<1> QED
  BY <1>1, <1>2, <1>3, <1>4, <1>5, <1>6, <1>7, <1>8, <1>9, <1>10, <1>11,
     <1>12, <1>13, <1>14 DEF Next, Loop

(* Only Start adds to the live workers and only Leave takes from them.     *)
LEMMA NextWaitGroup ==
  TypeOK /\ WaitGroupCountsLive /\ [Next]_vars => WaitGroupCountsLive'
<1> SUFFICES ASSUME TypeOK, WaitGroupCountsLive, [Next]_vars
             PROVE  WaitGroupCountsLive'
  OBVIOUS
<1> USE DEF TypeOK, WaitGroupCountsLive, Goto
<1>1. ASSUME NEW w \in Workers, Start(w) PROVE WaitGroupCountsLive'
  <2>1. Live' = Live \cup {w} /\ w \notin Live
    BY <1>1 DEF Start, Live
  <2> QED
    BY <1>1, <2>1, LiveFinite, FS_AddElement DEF Start
<1>2. ASSUME NEW w \in Workers, Leave(w) PROVE WaitGroupCountsLive'
  <2>1. Live' = Live \ {w} /\ w \in Live
    BY <1>2 DEF Leave, Live
  <2> QED
    BY <1>2, <2>1, LiveFinite, FS_RemoveElement DEF Leave
<1>3. ASSUME NEW w \in Workers,
             \/ Check(w) \/ CallFn(w) \/ Remove(w) \/ Restart(w)
             \/ BackoffElapsed(w) \/ BackoffCancelled(w)
      PROVE  WaitGroupCountsLive'
  <2>1. Live' = Live /\ wg' = wg
    BY <1>3 DEF Check, CallFn, Remove, Restart, BackoffElapsed,
                BackoffCancelled, Live
  <2> QED
    BY <2>1
<1>4. ASSUME NEW w \in Workers, NEW err \in BOOLEAN, FnReturns(w, err)
      PROVE  WaitGroupCountsLive'
  <2>1. Live' = Live /\ wg' = wg
    BY <1>4 DEF FnReturns, Live
  <2> QED
    BY <2>1
<1>5. CASE UNCHANGED <<pc, wg>>
  <2>1. Live' = Live /\ wg' = wg
    BY <1>5 DEF Live
  <2> QED
    BY <2>1
<1> QED
  BY <1>1, <1>2, <1>3, <1>4, <1>5
  DEF Next, Loop, vars, Stop, StopAllCancel, StopAllMark, WaitReturn

LEMMA InitWaitGroup == Init => WaitGroupCountsLive
<1> SUFFICES ASSUME Init PROVE Cardinality(Live) = 0
  BY DEF Init, WaitGroupCountsLive
<1>1. Live = {}
  BY DEF Init, Live
<1> QED
  BY <1>1, FS_EmptySet

LEMMA TypeAndWaitGroup == Spec => [](TypeOK /\ WaitGroupCountsLive)
  BY InitTypeOK, NextTypeOK, InitWaitGroup, NextWaitGroup, PTL DEF Spec

(* Every reachable state of the supervisor is well typed.                  *)
THEOREM TypeCorrect == Spec => []TypeOK
  BY TypeAndWaitGroup, PTL

(* The counter of the WaitGroup is the number of goroutines not ended.     *)
THEOREM WaitGroupExact == Spec => []WaitGroupCountsLive
  BY TypeAndWaitGroup, PTL

-----------------------------------------------------------------------------
(* The map of workers.                                                     *)

(* Start takes a free name and Remove frees the name of the remover; no    *)
(* other action moves a worker into the loop or touches the map.           *)
LEMMA NextMapHoldsLoop ==
  TypeOK /\ MapHoldsLoop /\ [Next]_vars => MapHoldsLoop'
<1> SUFFICES ASSUME TypeOK, MapHoldsLoop, [Next]_vars PROVE MapHoldsLoop'
  OBVIOUS
<1> USE WorkersAssumption DEF TypeOK, MapHoldsLoop, specVars, Goto
<1>1. ASSUME NEW w \in Workers, Start(w) PROVE MapHoldsLoop'
  BY <1>1 DEF Start
<1>2. ASSUME NEW n \in Names, Stop(n) PROVE MapHoldsLoop'
  BY <1>2 DEF Stop
<1>3. CASE StopAllCancel \/ StopAllMark \/ WaitReturn
  BY <1>3 DEF StopAllCancel, StopAllMark, WaitReturn
<1>4. ASSUME NEW w \in Workers, Remove(w) PROVE MapHoldsLoop'
  BY <1>4 DEF Remove
<1>5. ASSUME NEW w \in Workers, NEW err \in BOOLEAN, FnReturns(w, err)
      PROVE  MapHoldsLoop'
  BY <1>5 DEF FnReturns
<1>6. ASSUME NEW w \in Workers,
             \/ Check(w) \/ CallFn(w) \/ Restart(w)
             \/ BackoffElapsed(w) \/ BackoffCancelled(w) \/ Leave(w)
      PROVE  MapHoldsLoop'
  BY <1>6 DEF Check, CallFn, Restart, BackoffElapsed, BackoffCancelled, Leave
<1>7. CASE UNCHANGED vars
  BY <1>7 DEF vars
<1> QED
  BY <1>1, <1>2, <1>3, <1>4, <1>5, <1>6, <1>7 DEF Next, Loop

LEMMA InitMapHoldsLoop == Init => MapHoldsLoop
  BY DEF Init, MapHoldsLoop

(* A goroutine in the loop owns the map entry of its name.                 *)
THEOREM LoopOwnsName == Spec => []MapHoldsLoop
  BY TypeCorrect, InitMapHoldsLoop, NextMapHoldsLoop, PTL DEF Spec

(* A name is freed by the exit of its holder and by nothing else.          *)
THEOREM NameFreedOnlyByExit == Spec => NameFreedByItsWorker
<1> DEFINE Freed ==
      \A n \in Names :
        (workers[n] # NoWorker /\ workers'[n] # workers[n]) =>
          /\ workers'[n] = NoWorker
          /\ pc'[workers[n]] = "leaving"
          /\ policy[workers[n]] # "permanent"
<1>1. TypeOK /\ MapHoldsLoop /\ [Next]_vars => Freed
  <2> SUFFICES ASSUME TypeOK, MapHoldsLoop, [Next]_vars PROVE Freed
    OBVIOUS
  <2>1. ASSUME NEW w \in Workers, Start(w) PROVE Freed
    BY <2>1 DEF Start, TypeOK
  <2>2. ASSUME NEW w \in Workers, Remove(w) PROVE Freed
    <3>1. workers[name[w]] = w
      BY <2>2 DEF Remove, MapHoldsLoop
    <3>2. policy[w] # "permanent" /\ pc'[w] = "leaving"
      BY <2>2 DEF Remove, Restarts, Goto, TypeOK
    <3> QED
      BY <2>2, <3>1, <3>2 DEF Remove, TypeOK
  <2>3. CASE UNCHANGED workers
    BY <2>3
  <2> QED
    BY <2>1, <2>2, <2>3
    DEF Next, Loop, vars, Stop, StopAllCancel, StopAllMark, WaitReturn, Check,
        CallFn, FnReturns, Restart, BackoffElapsed, BackoffCancelled, Leave
<1>2. TypeOK /\ MapHoldsLoop /\ [Next]_vars => [Freed]_vars
  BY <1>1
<1> QED
  BY <1>2, TypeCorrect, LoopOwnsName, PTL DEF Spec, NameFreedByItsWorker

-----------------------------------------------------------------------------
(* The restart policies.                                                   *)

(* RestartsByPolicy is inductive together with UnbornFresh: without it a   *)
(* worker could be born with attempts already counted.                     *)
LEMMA NextRestartsByPolicy ==
  TypeOK /\ UnbornFresh /\ RestartsByPolicy /\ [Next]_vars
    => UnbornFresh' /\ RestartsByPolicy'
<1> SUFFICES ASSUME TypeOK, UnbornFresh, RestartsByPolicy, [Next]_vars
             PROVE  UnbornFresh' /\ RestartsByPolicy'
  OBVIOUS
<1> USE DEF TypeOK, UnbornFresh, RestartsByPolicy, specVars, Goto
<1>1. ASSUME NEW w \in Workers, Start(w)
      PROVE  UnbornFresh' /\ RestartsByPolicy'
  BY <1>1 DEF Start
<1>2. CASE UNCHANGED <<pc, name, policy, attempts, failed>>
  BY <1>2
<1>3. ASSUME NEW w \in Workers, Check(w) \/ CallFn(w) \/ BackoffElapsed(w)
      PROVE  UnbornFresh' /\ RestartsByPolicy'
  BY <1>3 DEF Check, CallFn, BackoffElapsed
<1>4. ASSUME NEW w \in Workers, Remove(w) \/ BackoffCancelled(w) \/ Leave(w)
      PROVE  UnbornFresh' /\ RestartsByPolicy'
  BY <1>4 DEF Remove, BackoffCancelled, Leave
<1>5. ASSUME NEW w \in Workers, Restart(w)
      PROVE  UnbornFresh' /\ RestartsByPolicy'
  BY <1>5 DEF Restart, Restarts
<1>6. ASSUME NEW w \in Workers, NEW err \in BOOLEAN, FnReturns(w, err)
      PROVE  UnbornFresh' /\ RestartsByPolicy'
  BY <1>6 DEF FnReturns
<1> QED
  BY <1>1, <1>2, <1>3, <1>4, <1>5, <1>6
  DEF Next, Loop, vars, Stop, StopAllCancel, StopAllMark, WaitReturn

LEMMA InitRestartsByPolicy == Init => UnbornFresh /\ RestartsByPolicy
  BY DEF Init, UnbornFresh, RestartsByPolicy

(* A worker goes round the loop again only when its policy says so.        *)
THEOREM PolicyObeyed == Spec => []RestartsByPolicy
  BY TypeCorrect, InitRestartsByPolicy, NextRestartsByPolicy, PTL DEF Spec

-----------------------------------------------------------------------------
(* The shutdown.                                                           *)

(* Wait returns over no live goroutine, and after it Check lets none pass. *)
LEMMA NextNoWork ==
  TypeOK /\ WaitGroupCountsLive /\ NoWorkAfterShutdown /\ [Next]_vars
    => NoWorkAfterShutdown'
<1> SUFFICES ASSUME TypeOK, WaitGroupCountsLive, NoWorkAfterShutdown, [Next]_vars
             PROVE  NoWorkAfterShutdown'
  OBVIOUS
<1> USE DEF TypeOK, NoWorkAfterShutdown, Goto
<1>1. CASE WaitReturn
  <2>1. Live = {}
    BY <1>1, LiveFinite, FS_EmptySet DEF WaitReturn, WaitGroupCountsLive
  <2> QED
    BY <1>1, <2>1 DEF WaitReturn, Live
<1>2. CASE StopAllCancel \/ StopAllMark
  BY <1>2 DEF StopAllCancel, StopAllMark
<1>3. ASSUME NEW w \in Workers, Start(w) \/ Check(w) \/ CallFn(w)
      PROVE  NoWorkAfterShutdown'
  BY <1>3 DEF Start, Check, CallFn, SupDone
<1>4. ASSUME NEW w \in Workers,
             \/ Remove(w) \/ Restart(w) \/ BackoffElapsed(w)
             \/ BackoffCancelled(w) \/ Leave(w)
      PROVE  NoWorkAfterShutdown'
  BY <1>4 DEF Remove, Restart, BackoffElapsed, BackoffCancelled, Leave
<1>5. ASSUME NEW w \in Workers, NEW err \in BOOLEAN, FnReturns(w, err)
      PROVE  NoWorkAfterShutdown'
  BY <1>5 DEF FnReturns
<1>6. CASE UNCHANGED <<pc, shutdown>>
  BY <1>6
<1> QED
  BY <1>1, <1>2, <1>3, <1>4, <1>5, <1>6 DEF Next, Loop, vars, Stop

LEMMA InitNoWork == Init => NoWorkAfterShutdown
  BY DEF Init, NoWorkAfterShutdown

(* After StopAll and Wait no worker function runs or will run.             *)
THEOREM ShutdownIsFinal == Spec => []NoWorkAfterShutdown
  BY TypeCorrect, WaitGroupExact, InitNoWork, NextNoWork, PTL DEF Spec

(* Once s.ctx is cancelled every step of a goroutine shortens its way to   *)
(* the end: the select at the top of the loop lets none begin again, and   *)
(* no call of Start or Stop moves a goroutine that is in the loop.         *)
THEOREM NobodyGoesRound == Spec => NoMoreRounds
<1> DEFINE Sooner(w) ==
             (pc[w] # "unborn" /\ pc'[w] # pc[w]) =>
               StepsLeft[pc'[w]] < StepsLeft[pc[w]]
           Shortens == SupDone => \A w \in Workers : Sooner(w)
<1>1. TypeOK /\ [Next]_vars => Shortens
  <2> SUFFICES ASSUME TypeOK, [Next]_vars, SupDone, NEW v \in Workers
               PROVE  Sooner(v)
    OBVIOUS
  <2> USE DEF TypeOK, Goto
  <2>1. ASSUME NEW w \in Workers, Start(w) PROVE Sooner(v)
    BY <2>1 DEF Start
  <2>2. ASSUME NEW w \in Workers, Check(w) PROVE Sooner(v)
    BY <2>2 DEF Check, StepsLeft
  <2>3. ASSUME NEW w \in Workers, CallFn(w) PROVE Sooner(v)
    BY <2>3 DEF CallFn, StepsLeft
  <2>4. ASSUME NEW w \in Workers, NEW err \in BOOLEAN, FnReturns(w, err)
        PROVE  Sooner(v)
    BY <2>4 DEF FnReturns, StepsLeft
  <2>5. ASSUME NEW w \in Workers, Remove(w) \/ Restart(w) PROVE Sooner(v)
    BY <2>5 DEF Remove, Restart, StepsLeft
  <2>6. ASSUME NEW w \in Workers, BackoffElapsed(w) \/ BackoffCancelled(w)
        PROVE  Sooner(v)
    BY <2>6 DEF BackoffElapsed, BackoffCancelled, StepsLeft
  <2>7. ASSUME NEW w \in Workers, Leave(w) PROVE Sooner(v)
    BY <2>7 DEF Leave, StepsLeft
  <2>8. CASE UNCHANGED pc
    BY <2>8
  <2> HIDE DEF Sooner
  <2> QED
    BY <2>1, <2>2, <2>3, <2>4, <2>5, <2>6, <2>7, <2>8
    DEF Next, Loop, vars, Stop, StopAllCancel, StopAllMark, WaitReturn
<1>2. TypeOK /\ [Next]_vars => [Shortens]_vars
  BY <1>1
<1> QED
  BY <1>2, TypeCorrect, PTL DEF Spec, NoMoreRounds

-----------------------------------------------------------------------------
(* The bounds of a delay for every policy, every width of a Duration and   *)
(* every attempt.  Nothing is needed about the exponential: the clamps     *)
(* keep the bounds whatever it evaluates to.                               *)

Effective(b) ==
  /\ b.min \in Duration /\ b.min > 0
  /\ b.max \in Duration /\ b.max > 0
  /\ b.jitter \in 0 .. 4

LEMMA DefaultsAreEffective ==
  ASSUME NEW b \in BackoffPolicies PROVE Effective(WithDefaults(b))
<1>1. /\ b.min \in Duration /\ b.max \in Duration /\ b.jitter \in Int
  BY BackoffPoliciesAssumption
<1>2. /\ WithDefaults(b).min = IF b.min <= 0 THEN DefaultMin ELSE b.min
      /\ WithDefaults(b).max = IF b.max <= 0 THEN DefaultMax ELSE b.max
      /\ WithDefaults(b).jitter =
           IF b.jitter < 0 THEN 0 ELSE IF b.jitter > 4 THEN 4 ELSE b.jitter
  BY DEF WithDefaults
<1>3. DefaultMin \in Duration /\ DefaultMax \in Duration
  BY DefaultsAssumption, WidthAssumption DEF Duration
<1>4. WithDefaults(b).min \in Duration /\ WithDefaults(b).min > 0
  BY <1>1, <1>2, <1>3, DefaultsAssumption, WidthAssumption DEF Duration
<1>5. WithDefaults(b).max \in Duration /\ WithDefaults(b).max > 0
  BY <1>1, <1>2, <1>3, DefaultsAssumption, WidthAssumption DEF Duration
<1>6. WithDefaults(b).jitter \in 0 .. 4
  BY <1>1, <1>2
<1> QED
  BY <1>4, <1>5, <1>6 DEF Effective

LEMMA ToDurationType ==
  ASSUME NEW x, NEW d \in ToDuration(x) PROVE d \in Duration
  BY DefaultsAssumption, WidthAssumption DEF ToDuration, Duration

LEMMA AtMostBound ==
  ASSUME NEW d \in Duration, NEW high \in Duration, high > 0
  PROVE  AtMost(d, high) \in Duration /\ AtMost(d, high) <= high
  BY WidthAssumption DEF AtMost, Duration

(* The two clamps, in this order, after a sum that may have wrapped.       *)
LEMMA ClampBounds ==
  ASSUME NEW w \in Int, NEW low \in Duration, NEW high \in Duration,
         low > 0, high > 0
  PROVE  /\ AtMost(AtLeast(w, low), high) \in Duration
         /\ AtMost(AtLeast(w, low), high) <= high
         /\ low <= high => AtMost(AtLeast(w, low), high) >= low
  BY WidthAssumption DEF AtMost, AtLeast, Duration

(* Every duration that duration() may return is within the bounds.         *)
LEMMA DurationBounds ==
  ASSUME NEW b, Effective(b), NEW n, NEW s \in Durations(b, n)
  PROVE  /\ s \in Duration
         /\ s <= b.max
         /\ b.jitter > 0 /\ b.min <= b.max => s >= b.min
<1> DEFINE capped == {AtMost(d, b.max) : d \in ToDuration(Exponential(b, n))}
<1>1. ASSUME NEW d \in capped PROVE d \in Duration /\ d <= b.max
  <2>1. PICK e \in ToDuration(Exponential(b, n)) : d = AtMost(e, b.max)
    OBVIOUS
  <2> QED
    BY <2>1, ToDurationType, AtMostBound DEF Effective
<1>2. CASE b.jitter = 0
  BY <1>1, <1>2 DEF Durations, Effective
<1>3. CASE b.jitter # 0
  <2>1. PICK d \in capped : s \in Jittered(b, d)
    BY <1>3 DEF Durations
  <2>2. PICK k \in -b.jitter .. b.jitter :
          \E delta \in ToDuration(Quarters(d, k)) :
            s = AtMost(AtLeast(Wrap(d + delta), b.min), b.max)
    BY <2>1 DEF Jittered
  <2> PICK delta \in ToDuration(Quarters(d, k)) :
          s = AtMost(AtLeast(Wrap(d + delta), b.min), b.max)
    BY <2>2
  <2>3. d \in Duration /\ delta \in Duration
    BY <1>1, <2>1, <2>2, ToDurationType
  <2>4. Wrap(d + delta) \in Int
    BY <2>3, WidthAssumption DEF Wrap, Duration
  <2> QED
    BY <2>4, ClampBounds DEF Effective
<1> QED
  BY <1>2, <1>3

-----------------------------------------------------------------------------
BackoffInv == BackoffTypeOK /\ NeverAboveMax /\ JitterWithinBounds

LEMMA InitBackoffInv == BackoffInit => BackoffInv
<1> SUFFICES ASSUME BackoffInit PROVE BackoffInv
  OBVIOUS
<1>1. Effective(backoff)
  BY DefaultsAreEffective DEF BackoffInit
<1>2. sleep = AtMost(backoff.min, backoff.max) /\ attempt = 0
  BY DEF BackoffInit
<1>3. /\ sleep \in Duration /\ sleep <= backoff.max
      /\ backoff.min <= backoff.max => sleep >= backoff.min
  BY <1>1, <1>2, WidthAssumption DEF Effective, AtMost, Duration
<1>4. attempt \in 0 .. MaxRetries
  BY <1>2, WidthAssumption
<1> QED
  BY <1>3, <1>4 DEF BackoffInit, BackoffInv, BackoffTypeOK, NeverAboveMax, JitterWithinBounds

LEMMA NextBackoffInv == BackoffInv /\ [BackoffNext]_backoffVars => BackoffInv'
<1> SUFFICES ASSUME BackoffInv, [BackoffNext]_backoffVars PROVE BackoffInv'
  OBVIOUS
<1>1. CASE Retry
  <2>1. Effective(backoff)
    BY DefaultsAreEffective DEF BackoffInv, BackoffTypeOK
  <2>2. backoff' = backoff /\ sleep' \in Durations(backoff, attempt')
    BY <1>1 DEF Retry
  <2>3. /\ sleep' \in Duration /\ sleep' <= backoff.max
        /\ backoff.jitter > 0 /\ backoff.min <= backoff.max => sleep' >= backoff.min
    BY <2>1, <2>2, DurationBounds
  <2>4. attempt' \in 0 .. MaxRetries
    BY <1>1, WidthAssumption DEF Retry, BackoffInv, BackoffTypeOK
  <2> QED
    BY <2>2, <2>3, <2>4 DEF BackoffInv, BackoffTypeOK, NeverAboveMax, JitterWithinBounds
<1>2. CASE Reset
  <2>1. attempt' \in 0 .. MaxRetries
    BY <1>2, WidthAssumption DEF Reset
  <2> QED
    BY <1>2, <2>1 DEF Reset, BackoffInv, BackoffTypeOK, NeverAboveMax, JitterWithinBounds
<1>3. CASE UNCHANGED backoffVars
  BY <1>3 DEF backoffVars, BackoffInv, BackoffTypeOK, NeverAboveMax, JitterWithinBounds
<1> QED
  BY <1>1, <1>2, <1>3 DEF BackoffNext

LEMMA BackoffInvariance == BackoffSpec => []BackoffInv
  BY InitBackoffInv, NextBackoffInv, PTL DEF BackoffSpec

(* What duration() returns is a Duration, although the exponential is not. *)
THEOREM BackoffTypeCorrect == BackoffSpec => []BackoffTypeOK
<1>1. BackoffInv => BackoffTypeOK
  BY DEF BackoffInv
<1> QED
  BY <1>1, BackoffInvariance, PTL

(* A delay never exceeds Max and, with jitter, never falls below Min,      *)
(* whatever overflows on the way.                                          *)
THEOREM BoundsHold == BackoffSpec => []WithinBounds
<1>1. BackoffInv => WithinBounds
  BY DEF BackoffInv, WithinBounds
<1> QED
  BY <1>1, BackoffInvariance, PTL
=============================================================================
