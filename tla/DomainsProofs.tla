--------------------------- MODULE DomainsProofs ---------------------------
(* Proofs about Domains, for every set of ids, every set of files, every   *)
(* set of hooks that may fail and every number of edits and signals.       *)
EXTENDS Domains, TLAPS

-----------------------------------------------------------------------------
(* The index of Reload.                                                    *)

LEMMA IndexOfFile ==
  ASSUME NEW f \in Readable
  PROVE  /\ IndexOf(f) \subseteq Specs
         /\ \A d, e \in IndexOf(f) : d.id = e.id => d = e
<1>1. f \in Seq(Specs)
  BY SpecsAssumption
<1>2. DOMAIN f = 1 .. Len(f) /\ Len(f) \in Nat
  BY <1>1
<1>3. ASSUME NEW j \in DOMAIN f, NEW k \in DOMAIN f, f[j].id = f[k].id,
             \A m \in DOMAIN f : m > j => f[m].id # f[j].id,
             \A m \in DOMAIN f : m > k => f[m].id # f[k].id
      PROVE  j = k
  BY <1>2, <1>3
<1>4. IndexOf(f) \subseteq Specs
  BY <1>1, <1>2 DEF IndexOf
<1> QED
  BY <1>3, <1>4 DEF IndexOf

(* The index keeps what is listed under an id that is listed once.         *)
LEMMA IndexOfOnce ==
  ASSUME NEW f \in Readable, NEW k \in DOMAIN f, ~ ListedTwice(f, f[k].id)
  PROVE  f[k] \in IndexOf(f)
<1>1. f \in Seq(Specs)
  BY SpecsAssumption
<1>2. DOMAIN f = 1 .. Len(f) /\ Len(f) \in Nat
  BY <1>1
<1> QED
  BY <1>2 DEF ListedTwice, IndexOf

LEMMA NoRunNotAnInstance == NoRun \notin Instances
BY BoundsAssumption DEF NoRun, Instances

-----------------------------------------------------------------------------
(* Typing.                                                                 *)

(* What the goroutine in charge works on is there: the other half of the   *)
(* types' invariant, since NoRun has neither a state nor a spec.           *)
Held ==
  /\ stage \in {"launch", "drain", "stop"} => cur \in Instances
  /\ \A i \in removing : runs[i] # NoRun

LEMMA InitTypeOK == Init => TypeOK /\ Held
<1> SUFFICES ASSUME Init PROVE TypeOK /\ Held
  OBVIOUS
<1>1. (CHOOSE d \in Specs : TRUE) \in Specs
  BY SpecsAssumption
<1>2. file \in Seq(Specs)
  BY SpecsAssumption DEF Init
<1>3. file \in Files
  BY DEF Init, Readable
<1>4. /\ spec \in [Instances -> Specs]
      /\ state \in [Instances -> LC!States] /\ live \subseteq Instances
  BY <1>1 DEF Init, LC!Init, LC!States
<1>5. edits \in 0 .. MaxEdits /\ signals \in 0 .. MaxSignals
  BY BoundsAssumption DEF Init
<1>6. /\ runs \in [Ids -> Instances \cup {NoRun}]
      /\ registered \in [Ids -> Instances \cup {NoRun}]
      /\ managed \in [Instances -> BOOLEAN]
  BY DEF Init
<1>7. /\ stage = "boot" /\ hup \in 0 .. 1
      /\ applied \in Readable /\ queue = file /\ cur = NoRun
      /\ removing = {} /\ pending = {}
  BY DEF Init
<1>8. booting \in BOOLEAN /\ asked \in BOOLEAN
  BY Zenon DEF Init
<1> QED
  BY <1>2, <1>3, <1>4, <1>5, <1>6, <1>7, <1>8 DEF TypeOK, Held

(* The new instance of a launch is typed.                                  *)
LEMMA BeginLaunchTypeOK ==
  ASSUME TypeOK, NEW d \in Specs, NEW by \in BOOLEAN, BeginLaunch(d, by)
  PROVE  /\ cur' \in Instances
         /\ spec' \in [Instances -> Specs]
         /\ managed' \in [Instances -> BOOLEAN]
         /\ state' \in [Instances -> LC!States]
         /\ live' = live /\ stage' = "launch"
<1>1. PICK n \in Instances :
        /\ cur' = n
        /\ spec' = [spec EXCEPT ![n] = d]
        /\ managed' = [managed EXCEPT ![n] = by]
        /\ state' = [state EXCEPT ![n] = "load"]
        /\ stage' = "launch" /\ live' = live
  BY DEF BeginLaunch
<1> QED
  BY <1>1 DEF TypeOK, LC!States

LEMMA BootLaunches ==
  ASSUME TypeOK, BootNext, HasFactory(Head(queue))
  PROVE  \E d \in Specs, by \in BOOLEAN : d = Head(queue) /\ BeginLaunch(d, by)
<1> DEFINE d == Head(queue)
           by == d.mode = "inproc"
<1>1. BeginLaunch(d, by)
  BY DEF BootNext
<1>2. d \in Specs
  BY DEF BootNext, TypeOK
<1>3. by \in BOOLEAN
  OBVIOUS
<1> HIDE DEF by
<1> QED
  BY <1>1, <1>2, <1>3

LEMMA NextTypeOK == TypeOK /\ Held /\ [Next]_vars => TypeOK'
<1> SUFFICES ASSUME TypeOK, Held, [Next]_vars PROVE TypeOK'
  OBVIOUS
<1>1. CASE Edit
  <2>1. edits' \in 0 .. MaxEdits
    BY <1>1, BoundsAssumption DEF Edit, TypeOK
  <2>2. file' \in Files /\ asked' = FALSE
    BY <1>1 DEF Edit
  <2> QED
    BY <1>1, <2>1, <2>2 DEF Edit, TypeOK, fsmVars
<1>2. CASE Signal
  BY <1>2, BoundsAssumption DEF Signal, TypeOK, fsmVars
<1>3. CASE BootNext
  <2>1. Head(queue) \in Specs /\ Tail(queue) \in Seq(Specs)
    BY <1>3 DEF BootNext, TypeOK
  <2>2. UNCHANGED <<file, asked, hup, edits, signals, applied, booting, removing,
                    pending, runs, registered>>
    BY <1>3 DEF BootNext, operatorVars
  <2>3. CASE HasFactory(Head(queue))
    <3>1. queue' = Tail(queue)
      BY <1>3 DEF BootNext
    <3> QED
      BY <1>3, <2>1, <2>2, <2>3, <3>1, BootLaunches, BeginLaunchTypeOK DEF TypeOK
  <2>4. CASE ~ HasFactory(Head(queue))
    BY <1>3, <2>1, <2>2, <2>4 DEF BootNext, TypeOK, fsmVars
  <2> QED
    BY <2>3, <2>4
<1>4. CASE BootDone
  BY <1>4 DEF BootDone, TypeOK, operatorVars, fsmVars
<1>5. CASE HookSucceeds
  <2>1. NextState[state[cur]] \in LC!States
    BY <1>5 DEF HookSucceeds, NextState, LC!States
  <2>2. state' \in [Instances -> LC!States]
    BY <1>5, <2>1 DEF HookSucceeds, TypeOK
  <2>3. live' \subseteq Instances
    BY <1>5 DEF HookSucceeds, TypeOK, Held
  <2> QED
    BY <1>5, <2>2, <2>3 DEF HookSucceeds, TypeOK, operatorVars
<1>6. CASE HookFails
  BY <1>6 DEF HookFails, Resume, TypeOK, LC!States, operatorVars
<1>7. CASE Launched
  BY <1>7 DEF Launched, Resume, TypeOK, operatorVars, fsmVars
<1>8. CASE Drained
  BY <1>8 DEF Drained, TypeOK, LC!States, operatorVars
<1>9. CASE Stopped
  BY <1>9 DEF Stopped, TypeOK, LC!States, operatorVars
<1>10. CASE ReloadBegin
  <2>1. UNCHANGED <<file, asked, edits, signals, booting, queue, cur, runs, spec,
                    managed, fsmVars, registered>> /\ hup' = 0
    BY <1>10 DEF ReloadBegin
  <2>2. CASE file = Unreadable
    BY <1>10, <2>1, <2>2 DEF ReloadBegin, TypeOK, fsmVars
  <2>3. CASE file # Unreadable
    <3>1. file \in Readable
      BY <2>3 DEF TypeOK, Readable
    <3>2. IndexOf(file) \subseteq Specs
      BY <3>1, IndexOfFile
    <3>3. removing' \subseteq Ids /\ pending' \subseteq Specs /\ applied' \in Readable
          /\ stage' = "reload"
      BY <1>10, <2>3, <3>1, <3>2 DEF ReloadBegin
    <3> QED
      BY <2>1, <3>3 DEF TypeOK, fsmVars
  <2> QED
    BY <2>2, <2>3
<1>11. CASE ReloadDone
  BY <1>11 DEF ReloadDone, TypeOK, operatorVars, fsmVars
<1>12. ASSUME NEW i \in Ids, RemoveNext(i) PROVE TypeOK'
  BY <1>12 DEF RemoveNext, BeginStop, TypeOK, LC!States, operatorVars
<1>13. ASSUME NEW d \in Specs, ApplyNew(d) PROVE TypeOK'
  <2>1. UNCHANGED <<file, asked, hup, edits, signals, applied, booting, queue,
                    removing, runs, registered>> /\ pending' = pending \ {d}
    BY <1>13 DEF ApplyNew, operatorVars
  <2>2. CASE HasFactory(d)
    BY <1>13, <2>1, <2>2, BeginLaunchTypeOK DEF ApplyNew, TypeOK
  <2>3. CASE ~ HasFactory(d)
    BY <1>13, <2>1, <2>3 DEF ApplyNew, TypeOK, fsmVars
  <2> QED
    BY <2>2, <2>3
<1>14. ASSUME NEW d \in Specs, ApplyChanged(d) PROVE TypeOK'
  BY <1>14, SpecsAssumption
  DEF ApplyChanged, BeginStop, TypeOK, LC!States, operatorVars
<1>15. ASSUME NEW d \in Specs, ApplySame(d) PROVE TypeOK'
  BY <1>15 DEF ApplySame, TypeOK, operatorVars, fsmVars
<1>16. CASE UNCHANGED vars
  BY <1>16 DEF vars, TypeOK, operatorVars, fsmVars
<1> QED
  BY <1>1, <1>2, <1>3, <1>4, <1>5, <1>6, <1>7, <1>8, <1>9, <1>10, <1>11, <1>12,
     <1>13, <1>14, <1>15, <1>16 DEF Next, Manager

LEMMA NextHeld == TypeOK /\ Held /\ [Next]_vars => Held'
<1> SUFFICES ASSUME TypeOK, Held, [Next]_vars PROVE Held'
  OBVIOUS
<1>0. \A i \in Ids : runs[i] # NoRun => runs[i] \in Instances
  BY DEF TypeOK
<1>1. CASE Edit \/ Signal
  BY <1>1 DEF Edit, Signal, Held
<1>2. CASE BootNext
  <2>1. UNCHANGED <<removing, runs>>
    BY <1>2 DEF BootNext
  <2>2. stage' # "launch" \/ cur' \in Instances
    BY <1>2 DEF BootNext, BeginLaunch
  <2>3. stage' \in {"launch", "boot"}
    BY <1>2 DEF BootNext, BeginLaunch
  <2> QED
    BY <2>1, <2>2, <2>3 DEF Held
<1>3. CASE BootDone \/ HookSucceeds \/ ReloadDone
  BY <1>3 DEF BootDone, HookSucceeds, ReloadDone, Held, operatorVars
<1>4. CASE HookFails
  BY <1>4 DEF HookFails, Resume, Held
<1>5. CASE Launched
  BY <1>5, NoRunNotAnInstance DEF Launched, Resume, Held, TypeOK
<1>6. CASE Drained
  BY <1>6 DEF Drained, Held
<1>7. CASE Stopped
  BY <1>7 DEF Stopped, Held, TypeOK
<1>8. CASE ReloadBegin
  BY <1>8 DEF ReloadBegin, Held
<1>9. ASSUME NEW i \in Ids, RemoveNext(i) PROVE Held'
  BY <1>0, <1>9 DEF RemoveNext, BeginStop, Held
<1>10. ASSUME NEW d \in Specs, ApplyNew(d) PROVE Held'
  <2>1. UNCHANGED <<removing, runs>> /\ stage = "reload"
    BY <1>10 DEF ApplyNew, Visits
  <2>2. stage' = "reload" \/ (stage' = "launch" /\ cur' \in Instances)
    BY <1>10, <2>1 DEF ApplyNew, BeginLaunch
  <2> QED
    BY <2>1, <2>2 DEF Held
<1>11. ASSUME NEW d \in Specs, ApplyChanged(d) PROVE Held'
  <2>1. d.id \in Ids
    BY SpecsAssumption
  <2> QED
    BY <1>0, <1>11, <2>1 DEF ApplyChanged, BeginStop, Held
<1>12. ASSUME NEW d \in Specs, ApplySame(d) PROVE Held'
  BY <1>12 DEF ApplySame, Held
<1>13. CASE UNCHANGED vars
  BY <1>13 DEF vars, Held
<1> QED
  BY <1>1, <1>2, <1>3, <1>4, <1>5, <1>6, <1>7, <1>8, <1>9, <1>10, <1>11, <1>12,
     <1>13 DEF Next, Manager

LEMMA TypedAndHeld == Spec => [](TypeOK /\ Held)
  BY InitTypeOK, NextTypeOK, NextHeld, PTL DEF Spec

(* Every reachable state of the manager and of the goroutine that drives   *)
(* it is well typed; the signal channel holds one signal at most.          *)
THEOREM TypeCorrect == Spec => []TypeOK
  BY TypedAndHeld, PTL

-----------------------------------------------------------------------------
(* The life cycle of the instances.                                        *)

(* The instance in charge stands where the stage says.                     *)
CurByStage ==
  /\ stage = "launch" =>
       state[cur] \in {"load", "init", "configure", "start", "ready"}
  /\ stage = "drain" => state[cur] = "draining"
  /\ stage = "stop" => state[cur] \in {"draining", "failed"}
  /\ stage \in {"drain", "stop"} => cur \in live /\ runs[spec[cur].id] = cur

(* What m.runs holds is ready, but for the one that is being stopped.      *)
RunsReady ==
  \A i \in Ids : runs[i] # NoRun =>
    /\ spec[runs[i]].id = i /\ managed[runs[i]]
    /\ state[runs[i]] = "ready" \/ (stage \in {"drain", "stop"} /\ runs[i] = cur)

LiveByState ==
  \A n \in Instances :
    /\ state[n] \in {"unborn", "load", "init", "configure", "start"} => n \notin live
    /\ state[n] = "ready" => n \in live

LifeInv == TypeOK /\ Held /\ CurByStage /\ RunsReady /\ LiveByState

(* A launch takes an instance that nobody has.                             *)
LEMMA BeginLaunchLife ==
  ASSUME LifeInv, NEW d \in Specs, NEW by \in BOOLEAN, BeginLaunch(d, by),
         stage \notin {"launch", "drain", "stop"}, UNCHANGED runs
  PROVE  CurByStage' /\ RunsReady' /\ LiveByState'
<1>1. PICK n \in Instances :
        /\ state[n] = "unborn" /\ cur' = n
        /\ spec' = [spec EXCEPT ![n] = d]
        /\ managed' = [managed EXCEPT ![n] = by]
        /\ state' = [state EXCEPT ![n] = "load"]
        /\ stage' = "launch" /\ live' = live
  BY DEF BeginLaunch
<1>2. \A i \in Ids : runs[i] # NoRun => runs[i] \in Instances \ {n}
  BY <1>1 DEF LifeInv, TypeOK, RunsReady
<1>3. CurByStage'
  BY <1>1 DEF CurByStage, LifeInv, TypeOK
<1>4. RunsReady'
  BY <1>1, <1>2 DEF RunsReady, LifeInv, TypeOK
<1>5. LiveByState'
  BY <1>1 DEF LiveByState, LifeInv, TypeOK
<1> QED
  BY <1>3, <1>4, <1>5

(* Only an instance that is ready is drained, and no other run holds it.   *)
LEMMA BeginStopLife ==
  ASSUME LifeInv, NEW i \in Ids, runs[i] # NoRun, BeginStop(i),
         stage \notin {"launch", "drain", "stop"}, UNCHANGED runs
  PROVE  /\ state[runs[i]] = "ready" /\ runs[i] \in Instances
         /\ CurByStage' /\ RunsReady' /\ LiveByState'
<1> DEFINE n == runs[i]
<1>1. n \in Instances /\ state[n] = "ready" /\ spec[n].id = i /\ n \in live
  BY DEF LifeInv, TypeOK, RunsReady, LiveByState
<1>2. /\ cur' = n /\ stage' = "drain" /\ state' = [state EXCEPT ![n] = "draining"]
      /\ spec' = spec /\ managed' = managed /\ live' = live
  BY DEF BeginStop
<1>3. \A j \in Ids \ {i} : runs[j] # NoRun => runs[j] \in Instances \ {n}
  BY <1>1 DEF LifeInv, TypeOK, RunsReady
<1>4. CurByStage'
  BY <1>1, <1>2 DEF CurByStage, LifeInv, TypeOK
<1>5. RunsReady'
  BY <1>1, <1>2, <1>3 DEF RunsReady, LifeInv, TypeOK
<1>6. LiveByState'
  BY <1>1, <1>2 DEF LiveByState, LifeInv, TypeOK
<1> QED
  BY <1>1, <1>4, <1>5, <1>6

LEMMA LifeInit == Init => LifeInv
<1> SUFFICES ASSUME Init PROVE LifeInv
  OBVIOUS
<1>1. TypeOK /\ Held
  BY InitTypeOK
<1>2. \A n \in Instances : state[n] = "unborn" /\ n \notin live
  BY DEF Init, LC!Init
<1>3. stage = "boot" /\ \A i \in Ids : runs[i] = NoRun
  BY DEF Init
<1> QED
  BY <1>1, <1>2, <1>3 DEF LifeInv, CurByStage, RunsReady, LiveByState

LEMMA LifeStep == LifeInv /\ [Next]_vars => LifeInv'
<1> SUFFICES ASSUME LifeInv, [Next]_vars PROVE LifeInv'
  OBVIOUS
<1> USE DEF LifeInv
<1>0. /\ TypeOK' /\ Held'
      /\ \A i \in Ids : runs[i] # NoRun => runs[i] \in Instances
  BY NextTypeOK, NextHeld DEF TypeOK
<1> SUFFICES CurByStage' /\ RunsReady' /\ LiveByState'
  BY <1>0
<1>1. CASE Edit \/ Signal
  BY <1>1 DEF Edit, Signal, fsmVars, CurByStage, RunsReady, LiveByState
<1>2. CASE BootNext
  <2>1. CASE HasFactory(Head(queue))
    <3>1. \E d \in Specs, by \in BOOLEAN : BeginLaunch(d, by)
      BY <1>2, <2>1, BootLaunches
    <3> QED
      BY <1>2, <3>1, BeginLaunchLife DEF BootNext
  <2>2. CASE ~ HasFactory(Head(queue))
    BY <1>2, <2>2 DEF BootNext, fsmVars, CurByStage, RunsReady, LiveByState
  <2> QED
    BY <2>1, <2>2
<1>3. CASE BootDone \/ ReloadDone \/ ReloadBegin
  BY <1>3 DEF BootDone, ReloadDone, ReloadBegin, fsmVars,
              CurByStage, RunsReady, LiveByState
<1>4. CASE HookSucceeds
  <2>1. /\ cur \in Instances /\ stage = "launch" /\ stage' = stage
        /\ state[cur] \in {"load", "init", "configure", "start"}
        /\ state' = [state EXCEPT ![cur] = NextState[state[cur]]]
        /\ live' = IF state[cur] = "start" THEN live \cup {cur} ELSE live
        /\ UNCHANGED <<cur, runs, spec, managed>>
    BY <1>4 DEF HookSucceeds, Held, NextState
  <2>2. /\ NextState[state[cur]] \in {"init", "configure", "start", "ready"}
        /\ NextState[state[cur]] = "ready" <=> state[cur] = "start"
    BY <2>1 DEF NextState
  <2>3. \A i \in Ids : runs[i] # NoRun => runs[i] # cur
    BY <2>1 DEF RunsReady
  <2>4. CurByStage' /\ RunsReady'
    BY <1>0, <2>1, <2>2, <2>3 DEF CurByStage, RunsReady, TypeOK
  <2>5. LiveByState'
    BY <2>1, <2>2 DEF LiveByState, TypeOK
  <2> QED
    BY <2>4, <2>5
<1>5. CASE HookFails
  <2>1. /\ cur \in Instances /\ stage = "launch" /\ stage' \in {"boot", "reload"}
        /\ state[cur] \in {"load", "init", "configure", "start"}
        /\ state' = [state EXCEPT ![cur] = "failed"]
        /\ UNCHANGED <<live, runs, spec, managed>>
    BY <1>5 DEF HookFails, Resume, Held, NextState
  <2>2. \A i \in Ids : runs[i] # NoRun => runs[i] # cur
    BY <2>1 DEF RunsReady
  <2> QED
    BY <1>0, <2>1, <2>2 DEF CurByStage, RunsReady, LiveByState, TypeOK
<1>6. CASE Launched
  <2>1. /\ cur \in Instances /\ stage = "launch" /\ stage' \in {"boot", "reload"}
        /\ state[cur] = "ready" /\ spec[cur].id \in Ids
        /\ runs' = IF managed[cur] THEN [runs EXCEPT ![spec[cur].id] = cur] ELSE runs
        /\ UNCHANGED <<live, state, spec, managed>>
    BY <1>6, SpecsAssumption DEF Launched, Resume, Held, TypeOK, fsmVars
  <2> QED
    BY <1>0, <2>1 DEF CurByStage, RunsReady, LiveByState, TypeOK
<1>7. CASE Drained
  <2>1. /\ cur \in Instances /\ stage = "drain" /\ stage' = "stop"
        /\ state' \in {state, [state EXCEPT ![cur] = "failed"]}
        /\ UNCHANGED <<cur, live, runs, spec, managed>>
    BY <1>7 DEF Drained, Held
  <2> QED
    BY <1>0, <2>1 DEF CurByStage, RunsReady, LiveByState, TypeOK
<1>8. CASE Stopped
  <2>1. /\ cur \in Instances /\ stage = "stop" /\ stage' = "reload"
        /\ spec[cur].id \in Ids /\ runs[spec[cur].id] = cur
        /\ \/ state' = [state EXCEPT ![cur] = "stopped"] /\ live' = live \ {cur}
           \/ state' = [state EXCEPT ![cur] = "failed"] /\ live' = live
        /\ runs' = [runs EXCEPT ![spec[cur].id] = NoRun]
        /\ UNCHANGED <<cur, spec, managed>>
    BY <1>8, SpecsAssumption DEF Stopped, Held, CurByStage, TypeOK
  <2>2. \A i \in Ids \ {spec[cur].id} : runs[i] # NoRun => runs[i] # cur
    BY <2>1 DEF RunsReady
  <2>3. RunsReady'
    BY <1>0, <2>1, <2>2 DEF RunsReady, TypeOK
  <2> QED
    BY <2>1, <2>3 DEF CurByStage, LiveByState, TypeOK
<1>9. ASSUME NEW i \in Ids, RemoveNext(i) PROVE CurByStage' /\ RunsReady' /\ LiveByState'
  BY <1>9, BeginStopLife DEF RemoveNext, Held
<1>10. ASSUME NEW d \in Specs, ApplyNew(d)
       PROVE  CurByStage' /\ RunsReady' /\ LiveByState'
  <2>1. stage = "reload" /\ UNCHANGED runs
    BY <1>10 DEF ApplyNew, Visits
  <2>2. CASE HasFactory(d)
    BY <1>10, <2>1, <2>2, BeginLaunchLife DEF ApplyNew
  <2>3. CASE ~ HasFactory(d)
    BY <1>10, <2>1, <2>3 DEF ApplyNew, fsmVars, CurByStage, RunsReady, LiveByState
  <2> QED
    BY <2>2, <2>3
<1>11. ASSUME NEW d \in Specs, ApplyChanged(d)
       PROVE  CurByStage' /\ RunsReady' /\ LiveByState'
  BY <1>11, BeginStopLife, SpecsAssumption DEF ApplyChanged, Visits
<1>12. ASSUME NEW d \in Specs, ApplySame(d)
       PROVE  CurByStage' /\ RunsReady' /\ LiveByState'
  BY <1>12 DEF ApplySame, fsmVars, CurByStage, RunsReady, LiveByState
<1>13. CASE UNCHANGED vars
  BY <1>13 DEF vars, fsmVars, CurByStage, RunsReady, LiveByState
<1> QED
  BY <1>1, <1>2, <1>3, <1>4, <1>5, <1>6, <1>7, <1>8, <1>9, <1>10, <1>11, <1>12,
     <1>13 DEF Next, Manager

LEMMA LifeAlways == Spec => []LifeInv
  BY LifeInit, LifeStep, PTL DEF Spec

LEMMA LifecycleInit == Init => LC!Init
BY DEF Init

(* Every step of the manager is a step of one instance in its life cycle   *)
(* or leaves all of them alone.                                            *)
LEMMA LifecycleStep == LifeInv /\ [Next]_vars => [LC!Next]_LC!vars
<1> SUFFICES ASSUME LifeInv, [Next]_vars
             PROVE  LC!Next \/ UNCHANGED <<state, live>>
  BY DEF LC!vars
<1> USE DEF LifeInv
<1>1. CASE UNCHANGED fsmVars
  BY <1>1 DEF fsmVars
<1>2. ASSUME NEW d, NEW by, BeginLaunch(d, by) PROVE LC!Next
  BY <1>2 DEF BeginLaunch, LC!Next, LC!Prepare, LC!Becomes
<1>3. ASSUME NEW i \in Ids, runs[i] # NoRun, BeginStop(i), stage = "reload", UNCHANGED runs
      PROVE  LC!Next
  <2>1. state[runs[i]] = "ready" /\ runs[i] \in Instances
    BY <1>3, BeginStopLife
  <2> QED
    BY <1>3, <2>1 DEF BeginStop, LC!Next, LC!BeginDrain, LC!Becomes
<1>4. CASE HookSucceeds
  <2>1. /\ cur \in Instances
        /\ state[cur] \in {"load", "init", "configure", "start"}
        /\ state' = [state EXCEPT ![cur] = NextState[state[cur]]]
        /\ live' = IF state[cur] = "start" THEN live \cup {cur} ELSE live
    BY <1>4 DEF HookSucceeds, Held, NextState
  <2>2. CASE state[cur] = "start"
    <3>1. NextState["start"] = "ready"
      BY DEF NextState
    <3>2. LC!GetReady(cur)
      BY <2>1, <2>2, <3>1 DEF LC!GetReady, LC!Becomes
    <3> QED
      BY <2>1, <3>2 DEF LC!Next
  <2>3. CASE state[cur] # "start"
    <3>1. /\ NextState["load"] = "init" /\ NextState["init"] = "configure"
          /\ NextState["configure"] = "start"
      BY DEF NextState
    <3>2. LC!Prepare(cur)
      BY <2>1, <2>3, <3>1 DEF LC!Prepare, LC!Becomes
    <3> QED
      BY <2>1, <3>2 DEF LC!Next
  <2> QED
    BY <2>2, <2>3
<1>5. CASE HookFails
  <2>1. /\ cur \in Instances
        /\ state[cur] \in {"load", "init", "configure", "start"}
        /\ state' = [state EXCEPT ![cur] = "failed"] /\ live' = live
    BY <1>5 DEF HookFails, Held, NextState
  <2>2. LC!FailToStart(cur)
    BY <2>1 DEF LC!FailToStart, LC!Becomes
  <2> QED
    BY <2>1, <2>2 DEF LC!Next
<1>6. CASE Drained
  <2>1. /\ cur \in Instances /\ cur \in live /\ state[cur] = "draining" /\ live' = live
        /\ state' = state \/ state' = [state EXCEPT ![cur] = "failed"]
    BY <1>6 DEF Drained, Held, CurByStage
  <2> QED
    BY <2>1 DEF LC!Next, LC!FailToEnd, LC!Becomes
<1>7. CASE Stopped
  <2>1. /\ cur \in Instances /\ cur \in live /\ state[cur] \in {"draining", "failed"}
        /\ \/ state' = [state EXCEPT ![cur] = "stopped"] /\ live' = live \ {cur}
           \/ state' = [state EXCEPT ![cur] = "failed"] /\ live' = live
    BY <1>7 DEF Stopped, Held, CurByStage
  <2>2. LC!End(cur) \/ LC!FailToEnd(cur)
    BY <2>1 DEF LC!End, LC!FailToEnd, LC!Becomes
  <2> QED
    BY <2>1, <2>2 DEF LC!Next
<1>8. CASE Edit \/ Signal \/ BootDone \/ Launched \/ ReloadBegin \/ ReloadDone
  BY <1>1, <1>8 DEF Edit, Signal, BootDone, Launched, ReloadBegin, ReloadDone
<1>9. CASE BootNext
  BY <1>1, <1>2, <1>9 DEF BootNext
<1>10. ASSUME NEW i \in Ids, RemoveNext(i) PROVE LC!Next
  BY <1>3, <1>10 DEF RemoveNext, Held
<1>11. ASSUME NEW d \in Specs, ApplyNew(d) PROVE LC!Next \/ UNCHANGED fsmVars
  BY <1>2, <1>11 DEF ApplyNew
<1>12. ASSUME NEW d \in Specs, ApplyChanged(d) PROVE LC!Next
  BY <1>3, <1>12, SpecsAssumption DEF ApplyChanged, Visits
<1>13. ASSUME NEW d \in Specs, ApplySame(d) PROVE UNCHANGED fsmVars
  BY <1>13 DEF ApplySame
<1>14. CASE UNCHANGED vars
  BY <1>1, <1>14 DEF vars
<1> QED
  BY <1>1, <1>4, <1>5, <1>6, <1>7, <1>8, <1>9, <1>10, <1>11, <1>12, <1>13, <1>14
  DEF Next, Manager

(* However launches, hooks that fail, reloads, edits and signals follow    *)
(* one another, every instance goes through the life cycle of the FSM: it  *)
(* is drained before it is stopped, and stopped once.                      *)
THEOREM ImplementsLifecycle == Spec => ObeysLifecycle
<1>1. Init => LC!Init
  BY LifecycleInit
<1>2. LifeInv /\ [Next]_vars => [LC!Next]_LC!vars
  BY LifecycleStep
<1> QED
  BY <1>1, <1>2, LifeAlways, PTL DEF Spec, ObeysLifecycle, LC!Spec

-----------------------------------------------------------------------------
(* What the boot loop and a reload have still to do.                       *)

StageByBoot ==
  /\ booting => stage \in {"boot", "launch"} /\ removing = {} /\ pending = {}
  /\ stage = "boot" => booting
  /\ stage = "idle" => removing = {} /\ pending = {}

(* The specs a reload visits are those of its index, each id once; what it *)
(* removes is not among them, and what it stops is one or the other.       *)
ReloadOfIndex ==
  /\ pending \subseteq IndexOf(applied)
  /\ \A i \in removing : i \notin IdsOf(IndexOf(applied))
  /\ stage \in {"drain", "stop"} =>
       spec[cur].id \in removing \/ \E d \in pending : d.id = spec[cur].id

ReloadInv == LifeInv /\ StageByBoot /\ ReloadOfIndex

LEMMA ReloadInit == Init => ReloadInv
<1> SUFFICES ASSUME Init PROVE StageByBoot /\ ReloadOfIndex
  BY LifeInit DEF ReloadInv
<1>1. stage = "boot" /\ booting /\ removing = {} /\ pending = {}
  BY DEF Init
<1> QED
  BY <1>1 DEF StageByBoot, ReloadOfIndex

LEMMA ReloadStep == ReloadInv /\ [Next]_vars => ReloadInv'
<1> SUFFICES ASSUME ReloadInv, [Next]_vars PROVE StageByBoot' /\ ReloadOfIndex'
  BY LifeStep DEF ReloadInv
<1> USE DEF ReloadInv
<1>0. /\ TypeOK /\ Held /\ CurByStage /\ applied \in Readable /\ booting \in BOOLEAN
      /\ pending \subseteq Specs /\ removing \subseteq Ids
  BY DEF LifeInv, TypeOK
<1>1. CASE Edit \/ Signal \/ HookSucceeds
  BY <1>1 DEF Edit, Signal, HookSucceeds, operatorVars, StageByBoot, ReloadOfIndex
<1>2. CASE BootNext
  <2>1. stage' \in {"boot", "launch"}
    BY <1>2 DEF BootNext, BeginLaunch
  <2>2. UNCHANGED <<applied, booting, removing, pending>> /\ stage = "boot"
    BY <1>2 DEF BootNext
  <2> QED
    BY <2>1, <2>2 DEF StageByBoot, ReloadOfIndex
<1>3. CASE BootDone \/ ReloadDone
  BY <1>3 DEF BootDone, ReloadDone, StageByBoot, ReloadOfIndex
<1>4. CASE HookFails \/ Launched
  <2>1. /\ stage = "launch" /\ stage' = IF booting THEN "boot" ELSE "reload"
        /\ UNCHANGED <<applied, booting, removing, pending>>
    BY <1>4 DEF HookFails, Launched, Resume
  <2> QED
    BY <2>1 DEF StageByBoot, ReloadOfIndex
<1>5. CASE Drained
  BY <1>5 DEF Drained, StageByBoot, ReloadOfIndex
<1>6. CASE Stopped
  <2>1. /\ stage = "stop" /\ stage' = "reload" /\ removing' \subseteq removing
        /\ UNCHANGED <<applied, booting, pending>>
    BY <1>6 DEF Stopped
  <2> QED
    BY <2>1 DEF StageByBoot, ReloadOfIndex
<1>7. CASE ReloadBegin
  <2>1. CASE file = Unreadable
    BY <1>7, <2>1 DEF ReloadBegin, StageByBoot, ReloadOfIndex
  <2>2. CASE file # Unreadable
    <3>1. /\ stage = "idle" /\ stage' = "reload" /\ applied' = file
          /\ pending' = IndexOf(file) /\ booting' = booting
          /\ \A i \in removing' : i \notin IdsOf(IndexOf(file))
      BY <1>7, <2>2 DEF ReloadBegin
    <3> QED
      BY <3>1 DEF StageByBoot, ReloadOfIndex
  <2> QED
    BY <2>1, <2>2
<1>8. ASSUME NEW i \in Ids, RemoveNext(i) PROVE StageByBoot' /\ ReloadOfIndex'
  <2>1. /\ stage = "reload" /\ stage' = "drain" /\ cur' = runs[i] /\ i \in removing
        /\ UNCHANGED <<applied, booting, removing, pending, spec>>
    BY <1>8 DEF RemoveNext, BeginStop
  <2>2. spec[runs[i]].id = i
    BY <2>1 DEF Held, LifeInv, RunsReady
  <2> QED
    BY <2>1, <2>2 DEF StageByBoot, ReloadOfIndex
<1>9. ASSUME NEW d \in Specs, ApplyNew(d) PROVE StageByBoot' /\ ReloadOfIndex'
  <2>1. /\ stage = "reload" /\ stage' \in {"reload", "launch"}
        /\ pending' = pending \ {d} /\ UNCHANGED <<applied, booting, removing>>
    BY <1>9 DEF ApplyNew, Visits, BeginLaunch
  <2> QED
    BY <2>1 DEF StageByBoot, ReloadOfIndex
<1>10. ASSUME NEW d \in Specs, ApplyChanged(d) PROVE StageByBoot' /\ ReloadOfIndex'
  <2>1. /\ stage = "reload" /\ stage' = "drain" /\ cur' = runs[d.id] /\ d \in pending
        /\ runs[d.id] # NoRun /\ d.id \in Ids
        /\ UNCHANGED <<applied, booting, removing, pending, spec>>
    BY <1>10, SpecsAssumption DEF ApplyChanged, Visits, BeginStop
  <2>2. spec[runs[d.id]].id = d.id
    BY <2>1 DEF LifeInv, RunsReady
  <2> QED
    BY <2>1, <2>2 DEF StageByBoot, ReloadOfIndex
<1>11. ASSUME NEW d \in Specs, ApplySame(d) PROVE StageByBoot' /\ ReloadOfIndex'
  <2>1. /\ stage = "reload" /\ stage' = stage
        /\ pending' = pending \ {d} /\ UNCHANGED <<applied, booting, removing>>
    BY <1>11 DEF ApplySame, Visits
  <2> QED
    BY <2>1 DEF StageByBoot, ReloadOfIndex
<1>12. CASE UNCHANGED vars
  BY <1>12 DEF vars, StageByBoot, ReloadOfIndex
<1> QED
  BY <1>1, <1>2, <1>3, <1>4, <1>5, <1>6, <1>7, <1>8, <1>9, <1>10, <1>11, <1>12
  DEF Next, Manager

LEMMA ReloadAlways == Spec => []ReloadInv
  BY ReloadInit, ReloadStep, PTL DEF Spec

(* Only a run that the new file does not list as it is gets drained.       *)
LEMMA DrainsOutdated ==
  ASSUME ReloadInv, [Next]_vars, NEW n \in Instances,
         state[n] = "ready", state'[n] = "draining"
  PROVE  spec[n] \notin IndexOf(applied)
<1> USE DEF ReloadInv
<1>0. TypeOK /\ Held /\ applied \in Readable
  BY DEF LifeInv, TypeOK
<1>1. ASSUME NEW i \in Ids, RemoveNext(i) PROVE spec[n] \notin IndexOf(applied)
  <2>1. n = runs[i] /\ i \in removing
    BY <1>0, <1>1 DEF RemoveNext, BeginStop, TypeOK, Held
  <2>2. spec[n].id = i
    BY <1>0, <2>1 DEF Held, LifeInv, RunsReady
  <2> QED
    BY <2>1, <2>2 DEF ReloadOfIndex, IdsOf
<1>2. ASSUME NEW d \in Specs, ApplyChanged(d) PROVE spec[n] \notin IndexOf(applied)
  <2>1. d.id \in Ids /\ runs[d.id] # NoRun /\ spec[runs[d.id]] # d /\ d \in pending
    BY <1>2, SpecsAssumption DEF ApplyChanged, Visits
  <2>2. n = runs[d.id]
    BY <1>0, <1>2, <2>1 DEF ApplyChanged, BeginStop, TypeOK
  <2>3. spec[n].id = d.id /\ d \in IndexOf(applied)
    BY <2>1, <2>2 DEF LifeInv, RunsReady, ReloadOfIndex
  <2> QED
    BY <1>0, <2>1, <2>2, <2>3, IndexOfFile
<1>3. ASSUME \/ state' = state
             \/ \E m \in Instances : \E x :
                  x # "draining" /\ state' = [state EXCEPT ![m] = x]
      PROVE  FALSE
  BY <1>0, <1>3 DEF TypeOK
<1>4. ASSUME NEW d, NEW by, BeginLaunch(d, by) PROVE FALSE
  BY <1>3, <1>4 DEF BeginLaunch
<1>5. CASE HookSucceeds
  <2>1. cur \in Instances /\ NextState[state[cur]] # "draining"
    BY <1>0, <1>5 DEF HookSucceeds, NextState, Held
  <2> QED
    BY <1>3, <1>5, <2>1 DEF HookSucceeds
<1>6. CASE HookFails \/ Drained \/ Stopped
  <2>1. cur \in Instances
    BY <1>0, <1>6 DEF HookFails, Drained, Stopped, Held
  <2>2. state' \in {state, [state EXCEPT ![cur] = "failed"], [state EXCEPT ![cur] = "stopped"]}
    BY <1>6 DEF HookFails, Drained, Stopped
  <2> QED
    BY <1>3, <2>1, <2>2
<1>7. CASE Edit \/ Signal \/ BootDone \/ Launched \/ ReloadBegin \/ ReloadDone
  BY <1>3, <1>7 DEF Edit, Signal, BootDone, Launched, ReloadBegin, ReloadDone, fsmVars
<1>8. CASE BootNext
  BY <1>3, <1>4, <1>8 DEF BootNext, fsmVars
<1>9. ASSUME NEW d \in Specs, ApplyNew(d) \/ ApplySame(d) PROVE FALSE
  BY <1>3, <1>4, <1>9 DEF ApplyNew, ApplySame, fsmVars
<1>10. CASE UNCHANGED vars
  BY <1>3, <1>10 DEF vars, fsmVars
<1> QED
  BY <1>1, <1>2, <1>5, <1>6, <1>7, <1>8, <1>9, <1>10 DEF Next, Manager

(* "Reload ... starts, restarts, stops": a domain the new file lists as it *)
(* runs is never restarted, in whatever order the map gives the others.    *)
THEOREM UnchangedUntouched == Spec => UnchangedKeepsRunning
<1>1. ReloadInv /\ [Next]_vars =>
        [\A n \in Instances :
           (state[n] = "ready" /\ state'[n] = "draining") =>
             spec[n] \notin IndexOf(applied)]_vars
  BY DrainsOutdated
<1> QED
  BY <1>1, ReloadAlways, PTL DEF Spec, UnchangedKeepsRunning

(* A launch finds the place in m.runs free, but where the boot loop has    *)
(* launched a domain of the same id before; the boot loop alone launches   *)
(* by the factory.                                                         *)
LaunchFresh ==
  /\ stage = "launch" =>
       \/ runs[spec[cur].id] = NoRun
       \/ booting /\ ListedTwice(applied, spec[cur].id)
  /\ stage = "launch" /\ ~ managed[cur] => booting
  /\ booting =>
       \A k \in DOMAIN queue :
         \/ ListedTwice(applied, queue[k].id)
         \/ /\ runs[queue[k].id] = NoRun
            /\ stage = "launch" => queue[k].id # spec[cur].id
            /\ \A j \in DOMAIN queue : queue[j].id = queue[k].id => j = k

LeakInv == ReloadInv /\ LaunchFresh

(* What a step may lose, and beside what it may start an instance.         *)
LossesKnown ==
  /\ \A n \in Forgotten' \ Forgotten :
       \/ booting /\ (~ managed'[n] \/ ListedTwice(applied, spec'[n].id))
       \/ /\ stage = "stop" /\ n = cur /\ state'[n] = "failed"
          /\ "stop" \in FailingHooks
  /\ \A n \in live' \ live, m \in live :
       spec[m].id = spec[n].id =>
         m \in Forgotten \/ (booting /\ ListedTwice(applied, spec[n].id))

LEMMA TailOfQueue ==
  ASSUME NEW q \in Seq(Specs), q # <<>>
  PROVE  /\ 1 \in DOMAIN q /\ Head(q) = q[1]
         /\ \A k \in DOMAIN Tail(q) :
              k + 1 \in DOMAIN q /\ k + 1 # 1 /\ Tail(q)[k] = q[k + 1]
         /\ \A j, k \in DOMAIN Tail(q) : j + 1 = k + 1 => j = k
OBVIOUS

LEMMA LeakInit == Init => LeakInv
<1> SUFFICES ASSUME Init PROVE LaunchFresh
  BY ReloadInit DEF LeakInv
<1>1. /\ file \in Readable /\ queue = file /\ applied = file /\ stage = "boot"
      /\ \A i \in Ids : runs[i] = NoRun
  BY DEF Init
<1>2. \A k \in DOMAIN file : file[k] \in Specs /\ file[k].id \in Ids
  BY <1>1, SpecsAssumption DEF Specs
<1>3. file \in Seq(Specs) /\ DOMAIN file = 1 .. Len(file) /\ Len(file) \in Nat
  BY <1>1, SpecsAssumption
<1>4. ASSUME NEW k \in DOMAIN file, ~ ListedTwice(file, file[k].id)
      PROVE  \A j \in DOMAIN file : file[j].id = file[k].id => j = k
  BY <1>3, <1>4 DEF ListedTwice
<1> QED
  BY <1>1, <1>2, <1>4 DEF LaunchFresh

LEMMA FreshStep == ReloadInv /\ LaunchFresh /\ [Next]_vars => LaunchFresh'
<1> SUFFICES ASSUME ReloadInv, LaunchFresh, [Next]_vars PROVE LaunchFresh'
  OBVIOUS
<1> USE DEF ReloadInv
<1>0. /\ TypeOK /\ Held
      /\ stage \notin {"boot", "launch"} => ~ booting
      /\ stage = "boot" => booting
      /\ \A k \in DOMAIN queue : queue[k] \in Specs /\ queue[k].id \in Ids
      /\ \A n \in Instances : spec[n] \in Specs /\ spec[n].id \in Ids
  BY SpecsAssumption DEF LifeInv, TypeOK, StageByBoot
<1>1. CASE Edit \/ Signal \/ HookSucceeds
  BY <1>1 DEF Edit, Signal, HookSucceeds, operatorVars, fsmVars, LaunchFresh
<1>2. CASE BootNext
  <2>1. /\ stage = "boot" /\ booting /\ queue \in Seq(Specs) /\ queue # <<>>
        /\ queue' = Tail(queue) /\ UNCHANGED <<runs, booting, applied>>
    BY <1>0, <1>2 DEF BootNext, TypeOK
  <2>2. /\ runs[Head(queue).id] = NoRun \/ ListedTwice(applied, Head(queue).id)
        /\ \A k \in DOMAIN queue' :
             \/ ListedTwice(applied, queue'[k].id)
             \/ /\ runs[queue'[k].id] = NoRun /\ queue'[k].id # Head(queue).id
                /\ \A j \in DOMAIN queue' : queue'[j].id = queue'[k].id => j = k
    BY <2>1, TailOfQueue DEF LaunchFresh
  <2>3. stage' = "boot" \/ (stage' = "launch" /\ spec'[cur'] = Head(queue))
    BY <1>0, <1>2 DEF BootNext, BeginLaunch, TypeOK
  <2> QED
    BY <2>1, <2>2, <2>3 DEF LaunchFresh
<1>3. CASE BootDone \/ ReloadDone \/ ReloadBegin
  BY <1>0, <1>3 DEF BootDone, ReloadDone, ReloadBegin, LaunchFresh
<1>4. CASE HookFails
  BY <1>4 DEF HookFails, Resume, LaunchFresh
<1>5. CASE Launched
  <2>1. /\ stage = "launch" /\ stage' \in {"boot", "reload"} /\ cur \in Instances
        /\ runs' \in {runs, [runs EXCEPT ![spec[cur].id] = cur]}
        /\ UNCHANGED <<queue, booting, applied>>
    BY <1>0, <1>5 DEF Launched, Resume, Held
  <2>2. \A i \in Ids \ {spec[cur].id} : runs'[i] = runs[i]
    BY <1>0, <2>1 DEF TypeOK
  <2> QED
    BY <1>0, <2>1, <2>2 DEF LaunchFresh
<1>6. CASE Drained \/ Stopped
  BY <1>0, <1>6 DEF Drained, Stopped, LaunchFresh
<1>7. ASSUME NEW i \in Ids, RemoveNext(i) PROVE LaunchFresh'
  BY <1>0, <1>7 DEF RemoveNext, BeginStop, LaunchFresh
<1>8. ASSUME NEW d \in Specs, ApplyNew(d) PROVE LaunchFresh'
  <2>1. /\ stage = "reload" /\ runs[d.id] = NoRun /\ UNCHANGED <<runs, booting>>
    BY <1>8 DEF ApplyNew, Visits
  <2>2. \/ stage' = "reload"
        \/ stage' = "launch" /\ spec'[cur'] = d /\ managed'[cur']
    BY <1>0, <1>8, <2>1 DEF ApplyNew, BeginLaunch, TypeOK
  <2> QED
    BY <1>0, <2>1, <2>2 DEF LaunchFresh
<1>9. ASSUME NEW d \in Specs, ApplyChanged(d) \/ ApplySame(d) PROVE LaunchFresh'
  BY <1>0, <1>9 DEF ApplyChanged, ApplySame, Visits, BeginStop, LaunchFresh
<1>10. CASE UNCHANGED vars
  BY <1>10 DEF vars, LaunchFresh
<1> QED
  BY <1>1, <1>2, <1>3, <1>4, <1>5, <1>6, <1>7, <1>8, <1>9, <1>10 DEF Next, Manager

(* A launch of a new instance loses none.                                  *)
LEMMA BeginLaunchKeepsAll ==
  ASSUME LeakInv, NEW d, NEW by, BeginLaunch(d, by), stage # "launch", UNCHANGED runs
  PROVE  /\ Forgotten' \subseteq Forgotten /\ live' = live
         /\ \A m \in live : managed'[m] = managed[m]
<1> USE DEF LeakInv, ReloadInv, LifeInv
<1>1. PICK n \in Instances :
        /\ state[n] = "unborn" /\ cur' = n
        /\ spec' = [spec EXCEPT ![n] = d]
        /\ managed' = [managed EXCEPT ![n] = by]
        /\ live' = live
  BY DEF BeginLaunch
<1>2. n \notin live /\ live \subseteq Instances
  BY <1>1 DEF LiveByState, TypeOK
<1>3. \A m \in live : spec'[m] = spec[m] /\ managed'[m] = managed[m]
  BY <1>1, <1>2 DEF TypeOK
<1> QED
  BY <1>1, <1>3 DEF Forgotten, Found

(* Where the goroutine goes on without a launch, what is lost depends on   *)
(* the instances and on m.runs alone.                                      *)
LEMMA NoLaunchKeepsAll ==
  ASSUME stage # "launch", stage' # "launch", UNCHANGED <<runs, spec, managed, live>>
  PROVE  LossesKnown
BY DEF LossesKnown, Forgotten, Found

(* The steps that can lose an instance are the start of its workers, the   *)
(* place in m.runs given to another, and the end of stop.                  *)
LEMMA LossStep == LeakInv /\ [Next]_vars => LossesKnown
<1> SUFFICES ASSUME LeakInv, [Next]_vars PROVE LossesKnown
  OBVIOUS
<1> USE DEF LeakInv, ReloadInv, LifeInv
<1>0. /\ TypeOK /\ Held /\ live \subseteq Instances
      /\ \A n \in Instances : spec[n] \in Specs /\ spec[n].id \in Ids
  BY SpecsAssumption DEF TypeOK
<1>a. ASSUME Forgotten' \subseteq Forgotten, live' \subseteq live PROVE LossesKnown
  BY <1>a DEF LossesKnown
<1>1. CASE Edit \/ Signal \/ UNCHANGED vars
  <2>1. UNCHANGED <<stage, cur, runs, spec, managed, live>>
    BY <1>1 DEF Edit, Signal, vars, fsmVars
  <2> QED
    BY <2>1, <1>a DEF Forgotten, Found
<1>2. CASE BootDone \/ ReloadDone \/ ReloadBegin
  BY <1>2, NoLaunchKeepsAll DEF BootDone, ReloadDone, ReloadBegin, fsmVars
<1>3. CASE BootNext
  <2>1. CASE HasFactory(Head(queue))
    BY <1>3, <2>1, <1>a, BeginLaunchKeepsAll DEF BootNext
  <2>2. CASE ~ HasFactory(Head(queue))
    BY <1>3, <2>2, NoLaunchKeepsAll DEF BootNext, fsmVars
  <2> QED
    BY <2>1, <2>2
<1>4. CASE HookSucceeds
  <2>1. /\ cur \in Instances /\ stage = "launch" /\ live' \subseteq live \cup {cur}
        /\ UNCHANGED <<stage, cur, runs, spec, managed>>
    BY <1>0, <1>4 DEF HookSucceeds, Held
  <2>2. ASSUME NEW n \in Forgotten' \ Forgotten PROVE booting /\ ~ managed'[n]
    BY <2>1, <2>2 DEF Forgotten, Found, LaunchFresh
  <2>3. ASSUME NEW n \in live' \ live, NEW m \in live, spec[m].id = spec[n].id
        PROVE  m \in Forgotten \/ (booting /\ ListedTwice(applied, spec[n].id))
    <3>1. n = cur /\ m # cur /\ m # NoRun
      BY <1>0, <2>1, <2>3, NoRunNotAnInstance
    <3> QED
      BY <2>1, <2>3, <3>1 DEF Forgotten, Found, LaunchFresh
  <2> QED
    BY <2>2, <2>3 DEF LossesKnown
<1>5. CASE HookFails
  <2>1. /\ cur \in Instances /\ stage = "launch" /\ live' = live
        /\ state[cur] \in {"load", "init", "configure", "start"}
        /\ stage' \in {"boot", "reload"} /\ UNCHANGED <<runs, spec, managed>>
    BY <1>0, <1>5 DEF HookFails, Resume, NextState, Held
  <2>2. cur \notin live
    BY <2>1 DEF LiveByState
  <2> QED
    BY <2>1, <2>2, <1>a DEF Forgotten, Found
<1>6. CASE Launched
  <2>1. /\ cur \in Instances /\ stage = "launch" /\ stage' \in {"boot", "reload"}
        /\ runs' = IF managed[cur] THEN [runs EXCEPT ![spec[cur].id] = cur] ELSE runs
        /\ UNCHANGED <<spec, managed, live>>
    BY <1>0, <1>6 DEF Launched, Resume, Held, fsmVars
  <2>2. ASSUME NEW m \in Forgotten' \ Forgotten
        PROVE  booting /\ ListedTwice(applied, spec'[m].id)
    <3>1. m \in Instances /\ runs'[spec[m].id] # m
      BY <1>0, <2>1, <2>2 DEF Forgotten, Found
    <3>2. m # cur
      BY <1>0, <2>1, <2>2, <3>1 DEF Forgotten, Found, TypeOK
    <3>3. runs[spec[m].id] = m
      BY <2>1, <2>2, <3>2 DEF Forgotten, Found
    <3>4. spec[m].id = spec[cur].id
      BY <1>0, <2>1, <3>1, <3>3 DEF TypeOK
    <3> QED
      BY <2>1, <3>1, <3>3, <3>4, NoRunNotAnInstance DEF LaunchFresh
  <2> QED
    BY <2>1, <2>2 DEF LossesKnown
<1>7. CASE Drained
  BY <1>7, NoLaunchKeepsAll DEF Drained
<1>8. CASE Stopped
  <2>1. /\ cur \in Instances /\ stage = "stop" /\ stage' = "reload"
        /\ runs[spec[cur].id] = cur /\ live' \subseteq live
        /\ \/ cur \notin live'
           \/ "stop" \in FailingHooks /\ state' = [state EXCEPT ![cur] = "failed"]
        /\ runs' = [runs EXCEPT ![spec[cur].id] = NoRun]
        /\ UNCHANGED <<spec, managed>>
    BY <1>0, <1>8 DEF Stopped, Held, CurByStage
  <2>2. ASSUME NEW m \in Forgotten' \ Forgotten
        PROVE  m = cur /\ state'[m] = "failed" /\ "stop" \in FailingHooks
    <3>1. m \in live' /\ m \in Instances /\ runs[spec[m].id] = m /\ runs'[spec[m].id] # m
      BY <1>0, <2>1, <2>2 DEF Forgotten, Found
    <3>2. m = cur
      BY <1>0, <2>1, <3>1 DEF TypeOK
    <3> QED
      BY <1>0, <2>1, <3>1, <3>2 DEF TypeOK
  <2> QED
    BY <2>1, <2>2 DEF LossesKnown
<1>9. ASSUME NEW i \in Ids, RemoveNext(i) PROVE LossesKnown
  BY <1>9, NoLaunchKeepsAll DEF RemoveNext, BeginStop
<1>10. ASSUME NEW d \in Specs, ApplyNew(d) PROVE LossesKnown
  <2>1. CASE HasFactory(d)
    BY <1>10, <2>1, <1>a, BeginLaunchKeepsAll DEF ApplyNew, Visits
  <2>2. CASE ~ HasFactory(d)
    BY <1>10, <2>2, NoLaunchKeepsAll DEF ApplyNew, Visits, fsmVars
  <2> QED
    BY <2>1, <2>2
<1>11. ASSUME NEW d \in Specs, ApplyChanged(d) \/ ApplySame(d) PROVE LossesKnown
  BY <1>11, NoLaunchKeepsAll DEF ApplyChanged, ApplySame, Visits, BeginStop, fsmVars
<1> QED
  BY <1>1, <1>2, <1>3, <1>4, <1>5, <1>6, <1>7, <1>8, <1>9, <1>10, <1>11 DEF Next, Manager

(* How an instance was launched is never forgotten.                        *)
LEMMA ManagedStays == LeakInv /\ [Next]_vars => \A n \in live : managed'[n] = managed[n]
<1> SUFFICES ASSUME LeakInv, [Next]_vars PROVE \A n \in live : managed'[n] = managed[n]
  OBVIOUS
<1>1. CASE BootNext
  BY <1>1, BeginLaunchKeepsAll DEF BootNext
<1>2. ASSUME NEW d \in Specs, ApplyNew(d) PROVE \A n \in live : managed'[n] = managed[n]
  BY <1>2, BeginLaunchKeepsAll DEF ApplyNew, Visits
<1>3. CASE \/ Edit \/ Signal \/ BootDone \/ HookSucceeds \/ HookFails \/ Launched
           \/ Drained \/ Stopped \/ ReloadBegin \/ ReloadDone \/ UNCHANGED vars
           \/ \E i \in Ids : RemoveNext(i)
           \/ \E d \in Specs : ApplyChanged(d) \/ ApplySame(d)
  BY <1>3 DEF Edit, Signal, BootDone, HookSucceeds, HookFails, Launched, Drained, Stopped,
              ReloadBegin, ReloadDone, RemoveNext, ApplyChanged, ApplySame, BeginStop, vars
<1> QED
  BY <1>1, <1>2, <1>3 DEF Next, Manager

LEMMA LeakAlways == Spec => []LeakInv
<1>1. LeakInv /\ [Next]_vars => LeakInv'
  BY ReloadStep, FreshStep DEF LeakInv
<1> QED
  BY <1>1, LeakInit, PTL DEF Spec

(* Of all the instances that live one is lost only when the boot loop      *)
(* launches it by the factory, or launches another under its id, listed    *)
(* twice, or when its OnStop fails; two of one domain live at a time only  *)
(* in that boot loop or beside one that was lost.                          *)
THEOREM LossesAreKnown == Spec => OnlyKnownLosses
<1>1. LeakInv /\ [Next]_vars =>
        [/\ \A n \in Forgotten' \ Forgotten :
              \/ booting /\ (~ managed'[n] \/ ListedTwice(applied, spec'[n].id))
              \/ stage = "stop" /\ n = cur /\ state'[n] = "failed"
         /\ \A n \in live' \ live, m \in live :
              spec[m].id = spec[n].id =>
                m \in Forgotten \/ (booting /\ ListedTwice(applied, spec[n].id))]_vars
  BY LossStep DEF LossesKnown
<1> QED
  BY <1>1, LeakAlways, PTL DEF Spec, OnlyKnownLosses

(* Where no file lists an id twice and OnStop never fails, the manager can *)
(* stop every live instance that launchInproc made, and of two that live   *)
(* in one domain the factory launched one.                                 *)
THEOREM InprocFoundAndAlone ==
  ASSUME \A f \in Readable, i \in Ids : ~ ListedTwice(f, i),
         "stop" \notin FailingHooks
  PROVE  Spec => [](/\ \A n \in live : managed[n] => Found(n)
                    /\ \A m, n \in live :
                         m # n /\ spec[m].id = spec[n].id => ~ managed[m] \/ ~ managed[n])
<1> DEFINE AllFound == \A n \in live : managed[n] => Found(n)
           OneEach == \A m, n \in live :
                        m # n /\ spec[m].id = spec[n].id => ~ managed[m] \/ ~ managed[n]
<1>1. Init => AllFound
  BY DEF Init, LC!Init
<1>2. AllFound /\ LeakInv /\ [Next]_vars => AllFound'
  <2> SUFFICES ASSUME AllFound, LeakInv, [Next]_vars, NEW n \in live', managed'[n], ~ Found(n)'
               PROVE  FALSE
    OBVIOUS
  <2>1. TypeOK /\ TypeOK'
    BY NextTypeOK DEF LeakInv, ReloadInv, LifeInv
  <2>2. n \in Instances /\ applied \in Readable /\ spec'[n].id \in Ids
    BY <2>1, SpecsAssumption DEF TypeOK
  <2>3. n \in Forgotten'
    BY DEF Forgotten
  <2>4. CASE n \in Forgotten
    BY <2>4, ManagedStays DEF Forgotten
  <2>5. CASE n \notin Forgotten
    BY <2>2, <2>3, <2>5, LossStep DEF LossesKnown
  <2> QED
    BY <2>4, <2>5
<1>3. AllFound /\ LeakInv => OneEach
  <2> SUFFICES ASSUME AllFound, LeakInv, NEW m \in live, NEW n \in live, m # n,
                      spec[m].id = spec[n].id, managed[m], managed[n]
               PROVE  FALSE
    OBVIOUS
  <2>1. TypeOK
    BY DEF LeakInv, ReloadInv, LifeInv
  <2>2. /\ m \in Instances /\ n \in Instances /\ m # NoRun /\ n # NoRun
        /\ applied \in Readable /\ spec[m].id \in Ids
    BY <2>1, SpecsAssumption, NoRunNotAnInstance DEF TypeOK
  <2>3. Found(m) /\ Found(n)
    OBVIOUS
  <2> QED
    BY <2>2, <2>3 DEF Found, LeakInv, LaunchFresh
<1>4. AllFound /\ LeakInv =>
        /\ \A n \in live : managed[n] => Found(n)
        /\ \A m, n \in live :
             m # n /\ spec[m].id = spec[n].id => ~ managed[m] \/ ~ managed[n]
  BY <1>3
<1> QED
  BY <1>1, <1>2, <1>4, LeakAlways, PTL DEF Spec

-----------------------------------------------------------------------------
(* What is applied when the goroutine is idle.                             *)

(* d has its run, or a launch of it has failed, or the factory has it.     *)
Done(d) ==
  \/ runs[d.id] # NoRun
  \/ \E n \in Instances : spec[n] = d /\ state[n] = "failed"
  \/ \E n \in live : spec[n] = d /\ ~ managed[n]

ToDo(d) ==
  \/ booting /\ \E k \in DOMAIN queue : queue[k] = d
  \/ d \in pending
  \/ stage = "launch" /\ spec[cur] = d

(* What may run: what the index holds and, from the boot to the first      *)
(* reload, whatever the file lists under an id it lists twice.             *)
Wanted(d) ==
  \/ d \in IndexOf(applied)
  \/ /\ booting \/ stage = "idle"
     /\ ListedTwice(applied, d.id)
     /\ \E k \in DOMAIN applied : d = applied[k]

(* Only what the file lists is launched.                                   *)
LaunchListed ==
  /\ booting => \A k \in DOMAIN queue : Wanted(queue[k])
  /\ stage = "launch" => Wanted(spec[cur])

(* A run the file does not list as it is will still be looked at.          *)
RunsListed ==
  \A i \in Ids : runs[i] # NoRun =>
    \/ i \in removing
    \/ \E d \in pending : d.id = i
    \/ Wanted(spec[runs[i]])

NoneMissing == \A d \in IndexOf(applied) : HasFactory(d) => ToDo(d) \/ Done(d)

ApplyInv == ReloadInv /\ LaunchListed /\ RunsListed /\ NoneMissing

LEMMA ApplyInit == Init => ApplyInv
<1> SUFFICES ASSUME Init PROVE LaunchListed /\ RunsListed /\ NoneMissing
  BY ReloadInit DEF ApplyInv
<1>1. /\ file \in Readable /\ queue = file /\ applied = file /\ stage = "boot"
      /\ booting /\ \A i \in Ids : runs[i] = NoRun
  BY DEF Init
<1>2. \A k \in DOMAIN file : Wanted(file[k])
  BY <1>1, IndexOfOnce DEF Wanted
<1>3. \A d \in IndexOf(file) : \E k \in DOMAIN file : file[k] = d
  BY DEF IndexOf
<1> QED
  BY <1>1, <1>2, <1>3 DEF LaunchListed, RunsListed, NoneMissing, ToDo

(* What a new launch leaves as it was: nobody's run, failure or factory    *)
(* launch is the instance it takes.                                        *)
LEMMA BeginLaunchApplies ==
  ASSUME ApplyInv, NEW e \in Specs, NEW by \in BOOLEAN, BeginLaunch(e, by), UNCHANGED runs
  PROVE  /\ stage' = "launch" /\ spec'[cur'] = e
         /\ \A i \in Ids : runs[i] # NoRun => spec'[runs[i]] = spec[runs[i]]
         /\ \A d \in Specs : Done(d) => Done(d)'
<1> USE DEF ApplyInv, ReloadInv, LifeInv
<1>1. PICK n \in Instances :
        /\ state[n] = "unborn" /\ cur' = n
        /\ spec' = [spec EXCEPT ![n] = e]
        /\ managed' = [managed EXCEPT ![n] = by]
        /\ state' = [state EXCEPT ![n] = "load"]
        /\ stage' = "launch" /\ live' = live
  BY DEF BeginLaunch
<1>2. \A i \in Ids : runs[i] # NoRun => runs[i] \in Instances \ {n}
  BY <1>1 DEF TypeOK, RunsReady, CurByStage
<1>3. n \notin live /\ live \subseteq Instances
  BY <1>1 DEF LiveByState, TypeOK
<1>4. ASSUME NEW d \in Specs, Done(d) PROVE Done(d)'
  BY <1>1, <1>3, <1>4 DEF Done, TypeOK
<1> QED
  BY <1>1, <1>2, <1>4 DEF TypeOK

(* Draining an instance that is ready takes nothing from what is done.     *)
LEMMA BeginStopApplies ==
  ASSUME ApplyInv, NEW i \in Ids, runs[i] # NoRun, BeginStop(i), stage = "reload",
         UNCHANGED <<applied, booting, queue, removing, pending, runs>>
  PROVE  LaunchListed' /\ RunsListed' /\ NoneMissing'
<1> USE DEF ApplyInv, ReloadInv, LifeInv
<1>1. /\ state' = [state EXCEPT ![runs[i]] = "draining"] /\ stage' = "drain"
      /\ UNCHANGED <<live, spec, managed>>
  BY DEF BeginStop
<1>2. state[runs[i]] = "ready" /\ runs[i] \in Instances
  BY BeginStopLife
<1>3. ASSUME NEW d, Done(d) PROVE Done(d)'
  BY <1>1, <1>2, <1>3 DEF Done, TypeOK
<1>4. ASSUME NEW d, ToDo(d) PROVE ToDo(d)'
  BY <1>1, <1>4 DEF ToDo
<1>5. NoneMissing'
  BY <1>3, <1>4 DEF NoneMissing, HasFactory
<1>6. \A d : Wanted(d) => Wanted(d)'
  <2>1. applied' = applied /\ booting' = booting /\ stage # "idle"
    OBVIOUS
  <2> QED
    BY <2>1 DEF Wanted
<1> QED
  BY <1>1, <1>5, <1>6 DEF LaunchListed, RunsListed

LEMMA WantedStays ==
  ASSUME UNCHANGED applied,
         booting \/ stage = "idle" => booting' \/ stage' = "idle"
  PROVE  \A d : Wanted(d) => Wanted(d)'
BY DEF Wanted

LEMMA ApplyStep == ApplyInv /\ [Next]_vars => ApplyInv'
<1> SUFFICES ASSUME ApplyInv, [Next]_vars
             PROVE  LaunchListed' /\ RunsListed' /\ NoneMissing'
  BY ReloadStep DEF ApplyInv
<1> USE DEF ApplyInv, ReloadInv
<1>0. /\ TypeOK /\ Held /\ live \subseteq Instances
      /\ \A n \in Instances : spec[n] \in Specs /\ spec[n].id \in Ids
      /\ applied \in Readable /\ IndexOf(applied) \subseteq Specs
      /\ \A d, e \in IndexOf(applied) : d.id = e.id => d = e
      /\ stage = "reload" => ~ booting
      /\ \A i \in Ids : runs[i] # NoRun => runs[i] \in Instances
  BY SpecsAssumption, IndexOfFile DEF LifeInv, TypeOK, StageByBoot
<1>1. CASE Edit \/ Signal \/ UNCHANGED vars
  BY <1>1 DEF Edit, Signal, vars, fsmVars, LaunchListed, RunsListed, NoneMissing, ToDo,
              Done, HasFactory, Wanted
<1>2. CASE BootDone \/ ReloadDone
  <2>1. /\ stage' # "launch" /\ stage # "launch"
        /\ UNCHANGED <<applied, queue, removing, pending, runs, spec, managed, state, live>>
    BY <1>2 DEF BootDone, ReloadDone, fsmVars
  <2>2. booting' => booting
    BY <1>2 DEF BootDone, ReloadDone
  <2>3. booting => booting' \/ queue = <<>>
    BY <1>2 DEF BootDone, ReloadDone
  <2>4. ASSUME NEW d, Done(d) PROVE Done(d)'
    BY <2>1, <2>4 DEF Done
  <2>5. ASSUME NEW d, ToDo(d) PROVE ToDo(d)'
    BY <2>1, <2>3, <2>5 DEF ToDo
  <2>6. \A d : Wanted(d) => Wanted(d)'
    BY <2>1, <1>2, WantedStays DEF BootDone, ReloadDone
  <2> QED
    BY <2>1, <2>2, <2>4, <2>5, <2>6 DEF LaunchListed, RunsListed, NoneMissing, HasFactory
<1>3. CASE BootNext
  <2>1. /\ stage = "boot" /\ booting /\ queue \in Seq(Specs) /\ queue # <<>>
        /\ queue' = Tail(queue)
        /\ UNCHANGED <<applied, booting, removing, pending, runs>>
    BY <1>0, <1>3 DEF BootNext, TypeOK, LifeInv, StageByBoot
  <2>2. /\ Wanted(Head(queue))
        /\ \A k \in DOMAIN queue' : Wanted(queue'[k])
    BY <2>1, TailOfQueue DEF LaunchListed
  <2>3. ASSUME NEW k \in DOMAIN queue, queue[k] # Head(queue)
        PROVE  \E j \in DOMAIN queue' : queue'[j] = queue[k]
    <3>1. k \in 2 .. Len(queue)
      BY <2>1, <2>3
    <3>2. k - 1 \in DOMAIN queue' /\ queue'[k - 1] = queue[k]
      BY <2>1, <3>1
    <3> QED
      BY <3>2
  <2>4. CASE HasFactory(Head(queue))
    <3>1. /\ stage' = "launch" /\ spec'[cur'] = Head(queue)
          /\ \A i \in Ids : runs[i] # NoRun => spec'[runs[i]] = spec[runs[i]]
          /\ \A d \in Specs : Done(d) => Done(d)'
      BY <1>0, <1>3, <2>1, <2>4, BootLaunches, BeginLaunchApplies
    <3>2. ASSUME NEW d, ToDo(d) PROVE ToDo(d)'
      BY <2>1, <2>3, <3>1, <3>2 DEF ToDo
    <3>3. \A d : Wanted(d) => Wanted(d)'
      BY <2>1, WantedStays
    <3> QED
      BY <1>0, <2>1, <2>2, <3>1, <3>2, <3>3
      DEF LaunchListed, RunsListed, NoneMissing, HasFactory
  <2>5. CASE ~ HasFactory(Head(queue))
    <3>1. UNCHANGED <<cur, spec, managed, state, live, stage>>
      BY <1>3, <2>5 DEF BootNext, fsmVars
    <3>2. ASSUME NEW d, ToDo(d), d # Head(queue) PROVE ToDo(d)'
      BY <2>1, <2>3, <3>1, <3>2 DEF ToDo
    <3>3. ASSUME NEW d, Done(d) PROVE Done(d)'
      BY <2>1, <3>1, <3>3 DEF Done
    <3>4. \A d : Wanted(d) => Wanted(d)'
      BY <2>1, WantedStays
    <3> QED
      BY <2>1, <2>2, <2>5, <3>1, <3>2, <3>3, <3>4
      DEF LaunchListed, RunsListed, NoneMissing, HasFactory
  <2> QED
    BY <2>4, <2>5
<1>4. CASE HookSucceeds
  <2>1. /\ cur \in Instances /\ stage = "launch"
        /\ state[cur] \in {"load", "init", "configure", "start"}
        /\ state' = [state EXCEPT ![cur] = NextState[state[cur]]]
        /\ live \subseteq live'
        /\ UNCHANGED <<applied, stage, booting, queue, removing, pending, cur, runs, spec,
                       managed>>
    BY <1>0, <1>4 DEF HookSucceeds, NextState, Held
  <2>2. ASSUME NEW d, Done(d) PROVE Done(d)'
    BY <1>0, <2>1, <2>2 DEF Done, TypeOK
  <2>3. ASSUME NEW d, ToDo(d) PROVE ToDo(d)'
    BY <2>1, <2>3 DEF ToDo
  <2>4. \A d : Wanted(d) => Wanted(d)'
    BY <2>1, WantedStays
  <2> QED
    BY <2>1, <2>2, <2>3, <2>4 DEF LaunchListed, RunsListed, NoneMissing, HasFactory
<1>5. CASE HookFails
  <2>1. /\ cur \in Instances /\ stage = "launch" /\ stage' \in {"boot", "reload"}
        /\ state' = [state EXCEPT ![cur] = "failed"]
        /\ UNCHANGED <<applied, booting, queue, removing, pending, runs, spec, managed,
                       live>>
    BY <1>0, <1>5 DEF HookFails, Resume, Held
  <2>2. ASSUME NEW d, Done(d) PROVE Done(d)'
    BY <1>0, <2>1, <2>2 DEF Done, TypeOK
  <2>3. ASSUME NEW d, ToDo(d) PROVE ToDo(d)' \/ Done(d)'
    BY <1>0, <2>1, <2>3 DEF ToDo, Done, TypeOK
  <2>4. \A d : Wanted(d) => Wanted(d)'
    BY <2>1, WantedStays
  <2> QED
    BY <2>1, <2>2, <2>3, <2>4 DEF LaunchListed, RunsListed, NoneMissing, HasFactory
<1>6. CASE Launched
  <2>1. /\ cur \in Instances /\ stage = "launch" /\ stage' \in {"boot", "reload"}
        /\ state[cur] = "ready" /\ spec[cur].id \in Ids
        /\ runs' = IF managed[cur] THEN [runs EXCEPT ![spec[cur].id] = cur] ELSE runs
        /\ UNCHANGED <<applied, booting, queue, removing, pending, spec, managed, state,
                       live>>
    BY <1>0, <1>6 DEF Launched, Resume, Held, fsmVars
  <2>2. \A i \in Ids : runs'[i] = runs[i] \/ (i = spec[cur].id /\ runs'[i] = cur)
    BY <1>0, <2>1 DEF TypeOK
  <2>3. ASSUME NEW d \in IndexOf(applied), Done(d) PROVE Done(d)'
    <3>1. d.id \in Ids
      BY <1>0, SpecsAssumption
    <3> QED
      BY <2>1, <2>2, <2>3, <3>1, NoRunNotAnInstance DEF Done
  <2>4. ASSUME NEW d \in IndexOf(applied), ToDo(d) PROVE ToDo(d)' \/ Done(d)'
    <3>1. CASE d = spec[cur]
      <4>1. CASE managed[cur]
        <5>1. runs'[d.id] = cur
          BY <1>0, <2>1, <3>1, <4>1 DEF TypeOK
        <5> QED
          BY <2>1, <5>1, NoRunNotAnInstance DEF Done
      <4>2. CASE ~ managed[cur]
        <5>1. cur \in live
          BY <2>1 DEF LifeInv, LiveByState
        <5> QED
          BY <2>1, <3>1, <4>2, <5>1 DEF Done
      <4> QED
        BY <4>1, <4>2
    <3>2. CASE d # spec[cur]
      BY <2>1, <2>4, <3>2 DEF ToDo
    <3> QED
      BY <3>1, <3>2
  <2>5. \A d : Wanted(d) => Wanted(d)'
    BY <2>1, WantedStays
  <2>6. RunsListed'
    BY <2>1, <2>2, <2>5 DEF RunsListed, LaunchListed
  <2> QED
    BY <2>1, <2>3, <2>4, <2>5, <2>6 DEF LaunchListed, NoneMissing, HasFactory
<1>7. CASE Drained
  <2>1. /\ cur \in Instances /\ stage = "drain" /\ stage' = "stop"
        /\ state' \in {state, [state EXCEPT ![cur] = "failed"]}
        /\ UNCHANGED <<applied, booting, queue, removing, pending, runs, spec, managed,
                       live>>
    BY <1>0, <1>7 DEF Drained, Held
  <2>2. ASSUME NEW d, Done(d) PROVE Done(d)'
    BY <1>0, <2>1, <2>2 DEF Done, TypeOK
  <2>3. ASSUME NEW d, ToDo(d) PROVE ToDo(d)'
    BY <2>1, <2>3 DEF ToDo
  <2>4. \A d : Wanted(d) => Wanted(d)'
    BY <2>1, WantedStays
  <2> QED
    BY <2>1, <2>2, <2>3, <2>4 DEF LaunchListed, RunsListed, NoneMissing, HasFactory
<1>8. CASE Stopped
  <2> DEFINE i == spec[cur].id
  <2>1. /\ cur \in Instances /\ stage = "stop" /\ stage' = "reload" /\ i \in Ids
        /\ runs[i] = cur /\ live \ {cur} \subseteq live'
        /\ \E x : state' = [state EXCEPT ![cur] = x]
        /\ runs' = [runs EXCEPT ![i] = NoRun] /\ removing' = removing \ {i}
        /\ UNCHANGED <<applied, booting, queue, pending, spec, managed>>
    BY <1>0, <1>8 DEF Stopped, Held, LifeInv, CurByStage
  <2>2. managed[cur]
    BY <2>1, NoRunNotAnInstance DEF LifeInv, RunsReady
  <2>3. ASSUME NEW d, ToDo(d) PROVE ToDo(d)'
    BY <2>1, <2>3 DEF ToDo
  <2>4. ASSUME NEW d \in IndexOf(applied), Done(d), d.id # i PROVE Done(d)'
    <3>1. d.id \in Ids
      BY <1>0, SpecsAssumption
    <3> QED
      BY <1>0, <2>1, <2>2, <2>4, <3>1 DEF Done, TypeOK
  <2>5. ASSUME NEW d \in IndexOf(applied), d.id = i PROVE ToDo(d)
    <3>1. i \in IdsOf(IndexOf(applied))
      BY <2>5 DEF IdsOf
    <3>2. \E e \in pending : e.id = i
      BY <2>1, <3>1 DEF ReloadOfIndex
    <3> QED
      BY <1>0, <2>5, <3>2 DEF ReloadOfIndex, ToDo
  <2>6. NoneMissing'
    BY <2>1, <2>3, <2>4, <2>5 DEF NoneMissing, HasFactory
  <2>7. \A d : Wanted(d) => Wanted(d)'
    BY <2>1, WantedStays
  <2>8. RunsListed'
    BY <1>0, <2>1, <2>7 DEF RunsListed, TypeOK
  <2> QED
    BY <2>1, <2>6, <2>7, <2>8 DEF LaunchListed
<1>9. CASE ReloadBegin
  <2>1. /\ stage = "idle" /\ ~ booting
        /\ UNCHANGED <<booting, queue, cur, runs, spec, managed, state, live>>
    BY <1>9 DEF ReloadBegin, fsmVars, StageByBoot
  <2>2. CASE file = Unreadable
    <3>1. UNCHANGED <<applied, stage, removing, pending>>
      BY <1>9, <2>2 DEF ReloadBegin
    <3>2. \A d : Wanted(d) => Wanted(d)'
      BY <2>1, <3>1, WantedStays
    <3> QED
      BY <2>1, <3>1, <3>2 DEF LaunchListed, RunsListed, NoneMissing, ToDo, Done, HasFactory
  <2>3. CASE file # Unreadable
    <3>1. /\ applied' = file /\ stage' = "reload" /\ pending' = IndexOf(file)
          /\ removing' = {i \in Ids : runs[i] # NoRun} \ IdsOf(IndexOf(file))
      BY <1>9, <2>3 DEF ReloadBegin
    <3>2. NoneMissing'
      BY <3>1 DEF NoneMissing, ToDo
    <3>3. RunsListed'
      BY <2>1, <3>1 DEF RunsListed, IdsOf
    <3> QED
      BY <2>1, <3>1, <3>2, <3>3 DEF LaunchListed
  <2> QED
    BY <2>2, <2>3
<1>10. ASSUME NEW i \in Ids, RemoveNext(i)
       PROVE  LaunchListed' /\ RunsListed' /\ NoneMissing'
  BY <1>0, <1>10, BeginStopApplies DEF RemoveNext, Held
<1>11. ASSUME NEW e \in Specs, ApplyNew(e)
       PROVE  LaunchListed' /\ RunsListed' /\ NoneMissing'
  <2>1. /\ stage = "reload" /\ runs[e.id] = NoRun /\ e \in pending
        /\ pending' = pending \ {e}
        /\ UNCHANGED <<applied, booting, queue, removing, runs>>
    BY <1>11 DEF ApplyNew, Visits
  <2>2. e \in IndexOf(applied) /\ ~ booting
    BY <1>0, <2>1 DEF ReloadOfIndex
  <2>3. CASE HasFactory(e)
    <3>1. /\ stage' = "launch" /\ spec'[cur'] = e
          /\ \A i \in Ids : runs[i] # NoRun => spec'[runs[i]] = spec[runs[i]]
          /\ \A d \in Specs : Done(d) => Done(d)'
      BY <1>11, <2>1, <2>3, BeginLaunchApplies DEF ApplyNew
    <3>2. ASSUME NEW d, ToDo(d) PROVE ToDo(d)'
      BY <2>1, <3>1, <3>2 DEF ToDo
    <3>3. Wanted(e)' /\ \A d : Wanted(d) => Wanted(d)'
      BY <2>1, <2>2, WantedStays DEF Wanted
    <3>4. LaunchListed' /\ RunsListed'
      BY <2>1, <2>2, <3>1, <3>3 DEF LaunchListed, RunsListed
    <3>5. NoneMissing'
      BY <1>0, <2>1, <3>1, <3>2 DEF NoneMissing, HasFactory
    <3> QED
      BY <3>4, <3>5
  <2>4. CASE ~ HasFactory(e)
    <3>1. UNCHANGED <<spec, managed, state, live, stage>>
      BY <1>11, <2>4 DEF ApplyNew, fsmVars
    <3>2. ASSUME NEW d, ToDo(d), d # e PROVE ToDo(d)'
      BY <2>1, <3>1, <3>2 DEF ToDo
    <3>3. ASSUME NEW d, Done(d) PROVE Done(d)'
      BY <2>1, <3>1, <3>3 DEF Done
    <3>4. \A d : Wanted(d) => Wanted(d)'
      BY <2>1, WantedStays
    <3> QED
      BY <2>1, <2>2, <2>4, <3>1, <3>2, <3>3, <3>4
      DEF LaunchListed, RunsListed, NoneMissing, HasFactory
  <2> QED
    BY <2>3, <2>4
<1>12. ASSUME NEW e \in Specs, ApplyChanged(e)
       PROVE  LaunchListed' /\ RunsListed' /\ NoneMissing'
  BY <1>12, SpecsAssumption, BeginStopApplies DEF ApplyChanged, Visits
<1>13. ASSUME NEW e \in Specs, ApplySame(e)
       PROVE  LaunchListed' /\ RunsListed' /\ NoneMissing'
  <2>1. /\ stage = "reload" /\ runs[e.id] # NoRun /\ spec[runs[e.id]] = e /\ e \in pending
        /\ pending' = pending \ {e}
        /\ UNCHANGED <<applied, stage, booting, queue, removing, cur, runs, spec, managed,
                       state, live>>
    BY <1>13 DEF ApplySame, Visits, fsmVars
  <2>2. e \in IndexOf(applied)
    BY <2>1 DEF ReloadOfIndex
  <2>3. ASSUME NEW d, Done(d) PROVE Done(d)'
    BY <2>1, <2>3 DEF Done
  <2>4. ASSUME NEW d, ToDo(d) PROVE ToDo(d)' \/ Done(d)'
    BY <2>1, <2>4 DEF ToDo, Done
  <2>5. Wanted(e)' /\ \A d : Wanted(d) => Wanted(d)'
    BY <2>1, <2>2, WantedStays DEF Wanted
  <2>6. LaunchListed' /\ RunsListed'
    BY <2>1, <2>5 DEF LaunchListed, RunsListed
  <2>7. NoneMissing'
    BY <2>1, <2>3, <2>4 DEF NoneMissing, HasFactory
  <2> QED
    BY <2>6, <2>7
<1> QED
  BY <1>1, <1>2, <1>3, <1>4, <1>5, <1>6, <1>7, <1>8, <1>9, <1>10, <1>11, <1>12,
     <1>13 DEF Next, Manager

LEMMA ApplyIdle == ApplyInv => IdleRunsApplied
<1> SUFFICES ASSUME ApplyInv, stage = "idle" PROVE IdleRunsApplied
  BY DEF IdleRunsApplied
<1>1. ~ booting /\ pending = {} /\ removing = {}
  BY DEF ApplyInv, ReloadInv, StageByBoot
<1>2. \A i \in Ids : runs[i] # NoRun => Wanted(spec[runs[i]]) /\ spec[runs[i]].id = i
  BY <1>1 DEF ApplyInv, RunsListed, ReloadInv, LifeInv, RunsReady
<1>3. \A d \in IndexOf(applied) : HasFactory(d) => Done(d)
  BY <1>1 DEF ApplyInv, NoneMissing, ToDo
<1> QED
  BY <1>2, <1>3 DEF Wanted, Done, UpToDate, IdleRunsApplied

LEMMA ApplyAlways == Spec => []ApplyInv
BY ApplyInit, ApplyStep, PTL DEF Spec

(* A reload leaves the runs that its file lists and no other, in whatever  *)
(* order it visits them and whichever hook fails; and so does the boot,    *)
(* but that it may leave a run of an id listed twice that the last of the  *)
(* launches should have replaced.                                          *)
THEOREM ReloadApplies == Spec => []IdleRunsApplied
BY ApplyAlways, ApplyIdle, PTL

(* That, too, is put right by the first reload.                            *)
THEOREM ReloadRepairs == Spec => ReloadCorrects
<1>1. ApplyInv /\ [Next]_vars =>
        [(stage = "reload" /\ stage' = "idle") => \A i \in Ids : UpToDate(i)']_vars
  <2> SUFFICES ASSUME ApplyInv, Next, stage = "reload", stage' = "idle"
               PROVE  \A i \in Ids : UpToDate(i)'
    OBVIOUS
  <2>1. ReloadDone
    BY DEF Next, Manager, Edit, Signal, BootNext, BootDone, HookSucceeds, HookFails,
           Launched, Drained, Stopped, ReloadBegin, RemoveNext, BeginStop, ApplyNew,
           BeginLaunch, ApplyChanged, ApplySame
  <2>2. removing = {} /\ pending = {} /\ UNCHANGED <<runs, spec, applied>>
    BY <2>1 DEF ReloadDone
  <2>3. ~ booting
    BY DEF ApplyInv, ReloadInv, StageByBoot
  <2>4. \A i \in Ids : runs[i] # NoRun => spec[runs[i]] \in IndexOf(applied)
    BY <2>2, <2>3 DEF ApplyInv, RunsListed, Wanted
  <2> QED
    BY <2>2, <2>4 DEF UpToDate
<1> QED
  BY <1>1, ApplyAlways, PTL DEF Spec, ReloadCorrects
=============================================================================
