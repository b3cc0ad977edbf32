------------------------------ MODULE Domains ------------------------------
(***************************************************************************)
(* The domains of the root kernel: the boot loop and the SIGHUP goroutine  *)
(* of cmd/rk/root_kernel_gen.go, the domain manager                        *)
(* (domain_manager_gen.go), the launch by factory (domain_factory_gen.go)  *)
(* and, of every kernel it launches, the FSM of platform/runtime/fsm_gen.go*)
(* with the calls of its hooks.                                            *)
(*                                                                         *)
(* One goroutine at a time drives the domains: the boot loop, and after it *)
(* the reload goroutine.  Around it the operator edits the configuration   *)
(* file and sends SIGHUP.  Every hook is a step of its own, since a signal *)
(* or an edit may come while it runs.                                      *)
(*                                                                         *)
(* A DomainSpec is a record: its id, its mode, its kind and, as config,    *)
(* the fields whose change makes Reload restart the domain.                *)
(***************************************************************************)
EXTENDS Naturals, Sequences

CONSTANTS
  Ids,           (* DomainSpec.ID                                           *)
  Files,         (* the contents the configuration file may have: sequences *)
                 (* of DomainSpec, or Unreadable                            *)
  Unreadable,    (* a content LoadConfig returns an error for               *)
  Factories,     (* the kinds with an entry in domainFactories              *)
  FailingHooks,  (* the hooks that may return an error                      *)
  MaxInstances,  (* bound of the model: kernel instances ever created       *)
  MaxEdits,      (* bound of the model: edits of the file                   *)
  MaxSignals     (* bound of the model: SIGHUPs sent                        *)

Instances == 1 .. MaxInstances
NoRun == 0

Readable == Files \ {Unreadable}
Specs == UNION {{f[k] : k \in DOMAIN f} : f \in Readable}

ASSUME BoundsAssumption == MaxInstances \in Nat /\ MaxEdits \in Nat /\ MaxSignals \in Nat
ASSUME SpecsAssumption ==
  /\ Specs # {} /\ \A d \in Specs : d.id \in Ids
  /\ \A f \in Readable : f \in Seq(Specs)

(* LoadConfig does not refuse a file that lists an id twice.               *)
ListedTwice(f, i) == \E j, k \in DOMAIN f : j < k /\ f[j].id = i /\ f[k].id = i

VARIABLES
  file,      (* the content of the configuration file                       *)
  asked,     (* SIGHUP was sent since the last edit                         *)
  hup,       (* how many signals the channel of capacity 1 holds            *)
  applied,   (* the content the domains were last booted or reloaded from   *)
  stage,     (* what the goroutine in charge does                           *)
  booting,   (* the boot loop has not ended                                 *)
  queue,     (* boot: the specs still to launch                             *)
  removing,  (* reload: the ids still to stop because they left the file    *)
  pending,   (* reload: the specs of the index still to visit               *)
  cur,       (* the instance being launched or stopped                      *)
  runs,      (* m.runs: the instance of an id, or NoRun                     *)
  spec,      (* the spec of an instance, m.runs[id].spec when it has a run  *)
  managed,   (* the instance was launched by launchInproc                   *)
  state,     (* the state of the FSM of an instance                         *)
  live,      (* instances whose OnStart succeeded and OnStop did not yet    *)
  registered,(* the instance whose record discovery holds, or NoRun         *)
  edits, signals

operatorVars == <<file, asked, hup, edits, signals>>
fsmVars == <<state, live>>
vars == <<operatorVars, applied, stage, booting, queue, removing, pending,
          cur, runs, spec, managed, fsmVars, registered>>

LC == INSTANCE Lifecycle WITH Instances <- Instances, state <- state, live <- live

TypeOK ==
  /\ file \in Files
  /\ asked \in BOOLEAN
  /\ hup \in 0 .. 1
  /\ applied \in Readable
  /\ stage \in {"boot", "idle", "reload", "launch", "drain", "stop"}
  /\ booting \in BOOLEAN
  /\ queue \in Seq(Specs)
  /\ removing \subseteq Ids
  /\ pending \subseteq Specs
  /\ cur \in Instances \cup {NoRun}
  /\ runs \in [Ids -> Instances \cup {NoRun}]
  /\ spec \in [Instances -> Specs]
  /\ managed \in [Instances -> BOOLEAN]
  /\ state \in [Instances -> LC!States]
  /\ live \subseteq Instances
  /\ registered \in [Ids -> Instances \cup {NoRun}]
  /\ edits \in 0 .. MaxEdits
  /\ signals \in 0 .. MaxSignals

(* LoadConfig has read the file: the boot loop starts.                     *)
Init ==
  /\ file \in Readable
  /\ asked = FALSE /\ hup = 0
  /\ applied = file
  /\ stage = "boot" /\ booting = TRUE
  /\ queue = file
  /\ removing = {} /\ pending = {}
  /\ cur = NoRun
  /\ runs = [i \in Ids |-> NoRun]
  /\ spec = [n \in Instances |-> CHOOSE d \in Specs : TRUE]
  /\ managed = [n \in Instances |-> FALSE]
  /\ LC!Init
  /\ registered = [i \in Ids |-> NoRun]
  /\ edits = 0 /\ signals = 0

-----------------------------------------------------------------------------
(* The operator.                                                           *)

Edit ==
  /\ edits < MaxEdits
  /\ edits' = edits + 1
  /\ file' \in Files \ {file}
  /\ asked' = FALSE
  /\ UNCHANGED <<hup, signals, applied, stage, booting, queue, removing, pending, cur,
                 runs, spec, managed, fsmVars, registered>>

(* Faults: a channel without bound; a channel without a buffer, so that a  *)
(* signal is dropped unless the goroutine waits for it.                    *)
SignalCounted ==
  /\ signals < MaxSignals
  /\ ~ booting
  /\ signals' = signals + 1
  /\ hup' = hup + 1
  /\ asked' = TRUE
  /\ UNCHANGED <<file, edits, applied, stage, booting, queue, removing, pending, cur,
                 runs, spec, managed, fsmVars, registered>>

SignalUnbuffered ==
  /\ signals < MaxSignals
  /\ ~ booting
  /\ signals' = signals + 1
  /\ hup' = IF stage = "idle" THEN 1 ELSE hup
  /\ asked' = TRUE
  /\ UNCHANGED <<file, edits, applied, stage, booting, queue, removing, pending, cur,
                 runs, spec, managed, fsmVars, registered>>

(* The runtime puts SIGHUP into the channel, or drops it when it is full.  *)
(* Before signal.Notify, that is during the boot loop, SIGHUP would end    *)
(* the process.                                                            *)
Signal ==
  /\ signals < MaxSignals
  /\ ~ booting
  /\ signals' = signals + 1
  /\ hup' = 1
  /\ asked' = TRUE
  /\ UNCHANGED <<file, edits, applied, stage, booting, queue, removing, pending, cur,
                 runs, spec, managed, fsmVars, registered>>

-----------------------------------------------------------------------------
(* Launching and stopping one domain.                                      *)

(* The lookup in domainFactories, the same for every way to launch.        *)
HasFactory(d) == d.kind \in Factories

(* NewFSM for a new instance of domain d; by is TRUE for launchInproc.     *)
BeginLaunch(d, by) ==
  \E n \in Instances :
    /\ state[n] = "unborn" /\ \A m \in Instances : m < n => state[m] # "unborn"
    /\ cur' = n
    /\ spec' = [spec EXCEPT ![n] = d]
    /\ managed' = [managed EXCEPT ![n] = by]
    /\ state' = [state EXCEPT ![n] = "load"]
    /\ stage' = "launch"
    /\ UNCHANGED live

(* Where the goroutine goes on once cur is done with.                      *)
Resume ==
  /\ cur' = NoRun
  /\ stage' = IF booting THEN "boot" ELSE "reload"

NextState == [load |-> "init", init |-> "configure", configure |-> "start",
              start |-> "ready"]

(* FSM.Run: one hook succeeds; OnStart starts the workers.                 *)
HookSucceeds ==
  /\ stage = "launch"
  /\ state[cur] \in DOMAIN NextState
  /\ state' = [state EXCEPT ![cur] = NextState[@]]
  /\ live' = IF state[cur] = "start" THEN live \cup {cur} ELSE live
  /\ UNCHANGED <<operatorVars, applied, stage, booting, queue, removing, pending, cur,
                 runs, spec, managed, registered>>

(* FSM.Run: one hook fails; the launch is given up, its error is logged.   *)
HookFails ==
  /\ stage = "launch"
  /\ state[cur] \in DOMAIN NextState \cap FailingHooks
  /\ state' = [state EXCEPT ![cur] = "failed"]
  /\ Resume
  /\ UNCHANGED <<operatorVars, applied, booting, queue, removing, pending, runs, spec,
                 managed, live, registered>>

(* FSM.Run has returned: the domain is registered; only launchInproc keeps *)
(* it in m.runs.                                                           *)
Launched ==
  /\ stage = "launch"
  /\ state[cur] = "ready"
  /\ registered' = [registered EXCEPT ![spec[cur].id] = cur]
  /\ runs' = IF managed[cur] THEN [runs EXCEPT ![spec[cur].id] = cur] ELSE runs
  /\ Resume
  /\ UNCHANGED <<operatorVars, applied, booting, queue, removing, pending, spec,
                 managed, fsmVars>>

(* Fault: OnStop without a drain before it.                                *)
BeginStopUndrained(i) ==
  /\ cur' = runs[i]
  /\ stage' = "stop"
  /\ UNCHANGED <<spec, managed, fsmVars>>

(* stop(id): FSM.Drain sets Draining and calls OnDrain.                    *)
BeginStop(i) ==
  /\ cur' = runs[i]
  /\ state' = [state EXCEPT ![runs[i]] = "draining"]
  /\ stage' = "drain"
  /\ UNCHANGED <<spec, managed, live>>

(* OnDrain returns; its error makes the state Failed and is ignored.       *)
Drained ==
  /\ stage = "drain"
  /\ stage' = "stop"
  /\ \/ UNCHANGED state
     \/ "drain" \in FailingHooks /\ state' = [state EXCEPT ![cur] = "failed"]
  /\ UNCHANGED <<operatorVars, applied, booting, queue, removing, pending, cur, runs,
                 spec, managed, live, registered>>

(* FSM.Stop calls OnStop; with or without an error the run is deleted and  *)
(* the record unregistered.  A domain stopped because it changed is        *)
(* launched again at once, one that left the file is not.                  *)
Stopped ==
  LET i == spec[cur].id
  IN /\ stage = "stop"
     /\ \/ state' = [state EXCEPT ![cur] = "stopped"] /\ live' = live \ {cur}
        \/ /\ "stop" \in FailingHooks
           /\ state' = [state EXCEPT ![cur] = "failed"] /\ UNCHANGED live
     /\ runs' = [runs EXCEPT ![i] = NoRun]
     /\ registered' = [registered EXCEPT ![i] = NoRun]
     /\ removing' = removing \ {i}
     /\ stage' = "reload"
     /\ UNCHANGED <<operatorVars, applied, booting, queue, pending, cur, spec, managed>>

-----------------------------------------------------------------------------
(* The boot loop: by the manager when the mode is inproc, by the factory   *)
(* otherwise; a kind without a factory is an error in the log.             *)
BootNext ==
  LET d == Head(queue)
  IN /\ stage = "boot" /\ queue # <<>>
     /\ queue' = Tail(queue)
     /\ IF HasFactory(d)
          THEN BeginLaunch(d, d.mode = "inproc")
          ELSE UNCHANGED <<cur, spec, managed, fsmVars, stage>>
     /\ UNCHANGED <<operatorVars, applied, booting, removing, pending, runs,
                   registered>>

BootDone ==
  /\ stage = "boot" /\ queue = <<>>
  /\ stage' = "idle" /\ booting' = FALSE
  /\ UNCHANGED <<operatorVars, applied, queue, removing, pending, cur, runs,
                 spec, managed, fsmVars, registered>>

(* The index of Reload: of several specs with one id the last one stays.   *)
IndexOf(f) ==
  {f[k] : k \in {j \in DOMAIN f : \A m \in DOMAIN f : m > j => f[m].id # f[j].id}}

IdsOf(specs) == {d.id : d \in specs}

(* Fault: what left the file is not stopped.                               *)
ReloadBeginKeepsAll ==
  /\ stage = "idle" /\ hup = 1
  /\ hup' = 0
  /\ IF file = Unreadable
       THEN UNCHANGED <<applied, stage, pending>>
       ELSE /\ applied' = file
            /\ stage' = "reload"
            /\ pending' = IndexOf(file)
  /\ UNCHANGED <<file, asked, edits, signals, booting, queue, removing, cur,
                 runs, spec, managed, fsmVars, registered>>

(* The goroutine receives a signal and loads the file.                     *)
ReloadBegin ==
  /\ stage = "idle" /\ hup = 1
  /\ hup' = 0
  /\ IF file = Unreadable
       THEN UNCHANGED <<applied, stage, removing, pending>>
       ELSE /\ applied' = file
            /\ stage' = "reload"
            /\ pending' = IndexOf(file)
            /\ removing' = {i \in Ids : runs[i] # NoRun} \ IdsOf(IndexOf(file))
  /\ UNCHANGED <<file, asked, edits, signals, booting, queue, cur, runs, spec, managed,
                 fsmVars, registered>>

(* The first loop of Reload, in any order of the map.                      *)
RemoveNext(i) ==
  /\ stage = "reload" /\ i \in removing
  /\ BeginStop(i)
  /\ UNCHANGED <<operatorVars, applied, booting, queue, removing, pending, runs, registered>>

(* The domain whose restart Stopped has left half done.                    *)
Restarting == IF cur = NoRun THEN {} ELSE {d \in pending : d.id = spec[cur].id}

(* Whether d may be visited now: any spec of the map, but the launch that  *)
(* completes a restart comes before everything else.                       *)
Visits(d) ==
  /\ stage = "reload" /\ removing = {}
  /\ d \in pending
  /\ Restarting # {} => d \in Restarting

(* Fault: a domain that has a run is launched beside it.                   *)
ApplyNewBeside(d) ==
  /\ Visits(d)
  /\ pending' = pending \ {d}
  /\ BeginLaunch(d, TRUE)
  /\ UNCHANGED <<operatorVars, applied, booting, queue, removing, runs, registered>>

(* The second loop, a domain without a run: launched whatever its mode.    *)
ApplyNew(d) ==
  /\ Visits(d) /\ runs[d.id] = NoRun
  /\ pending' = pending \ {d}
  /\ IF HasFactory(d)
       THEN BeginLaunch(d, TRUE)
       ELSE cur' = NoRun /\ UNCHANGED <<spec, managed, fsmVars, stage>>
  /\ UNCHANGED <<operatorVars, applied, booting, queue, removing, runs, registered>>

(* Fault: the fields are not compared.                                     *)
ApplyChangedAlways(d) ==
  /\ Visits(d) /\ runs[d.id] # NoRun
  /\ BeginStop(d.id)
  /\ UNCHANGED <<operatorVars, applied, booting, queue, removing, pending, runs,
                 registered>>

(* A domain whose run has another mode, kind or configuration.             *)
ApplyChanged(d) ==
  /\ Visits(d) /\ runs[d.id] # NoRun
  /\ spec[runs[d.id]] # d
  /\ BeginStop(d.id)
  /\ UNCHANGED <<operatorVars, applied, booting, queue, removing, pending, runs, registered>>

ApplySame(d) ==
  /\ Visits(d) /\ runs[d.id] # NoRun
  /\ spec[runs[d.id]] = d
  /\ pending' = pending \ {d}
  /\ UNCHANGED <<operatorVars, applied, stage, booting, queue, removing, cur, runs,
                 spec, managed, fsmVars, registered>>

ReloadDone ==
  /\ stage = "reload" /\ removing = {} /\ pending = {}
  /\ stage' = "idle"
  /\ cur' = NoRun
  /\ UNCHANGED <<operatorVars, applied, booting, queue, removing, pending, runs, spec,
                 managed, fsmVars, registered>>

-----------------------------------------------------------------------------
Manager ==
  \/ BootNext \/ BootDone
  \/ HookSucceeds \/ HookFails \/ Launched
  \/ Drained \/ Stopped
  \/ ReloadBegin \/ ReloadDone
  \/ \E i \in Ids : RemoveNext(i)
  \/ \E d \in Specs : ApplyNew(d) \/ ApplyChanged(d) \/ ApplySame(d)

Next == Manager \/ Edit \/ Signal

(* The goroutine is scheduled and its hooks return; the operator may stop  *)
(* editing and signalling at any time.                                     *)
Spec == Init /\ [][Next]_vars
FairSpec == Spec /\ WF_vars(Manager)

-----------------------------------------------------------------------------
(* The manager can stop the instance: it is in m.runs, or launchInproc is  *)
(* about to put it there.                                                  *)
Found(n) ==
  \/ runs[spec[n].id] = n
  \/ stage = "launch" /\ n = cur /\ managed[n]

(* The workers of such an instance go on and nobody can stop them: the     *)
(* context launchInproc makes is not theirs (NewSupervisor has its own).   *)
Forgotten == {n \in live : ~ Found(n)}

(* Of all the instances that live the manager forgets one in three ways    *)
(* only: the boot loop launches it by the factory, which keeps no run;     *)
(* the boot loop launches another one under its id, listed twice; OnStop   *)
(* fails, an error stop ignores.  And no instance starts beside another    *)
(* of the same domain but in that boot loop, or beside one already         *)
(* forgotten, which the next launch of the domain then runs a second time. *)
OnlyKnownLosses ==
  [][/\ \A n \in Forgotten' \ Forgotten :
          \/ booting /\ (~ managed'[n] \/ ListedTwice(applied, spec'[n].id))
          \/ stage = "stop" /\ n = cur /\ state'[n] = "failed"
     /\ \A n \in live' \ live, m \in live :
          spec[m].id = spec[n].id =>
            m \in Forgotten \/ (booting /\ ListedTwice(applied, spec[n].id))]_vars

(* A run that is the one the file asks for.                                *)
UpToDate(i) == runs[i] # NoRun => spec[runs[i]] \in IndexOf(applied)

(* Between two reloads the runs are those of the file last applied: no run *)
(* is left over or outdated, but one the boot loop launched under an id    *)
(* listed twice, and none is missing unless a hook failed or the boot loop *)
(* launched the domain by its factory.                                     *)
IdleRunsApplied ==
  stage = "idle" =>
    /\ \A i \in Ids :
         \/ UpToDate(i)
         \/ /\ ListedTwice(applied, i)
            /\ \E k \in DOMAIN applied : spec[runs[i]] = applied[k]
    /\ \A d \in IndexOf(applied) :
         HasFactory(d) =>
           \/ runs[d.id] # NoRun
           \/ \E n \in Instances : spec[n] = d /\ state[n] = "failed"
           \/ \E n \in live : spec[n] = d /\ ~ managed[n]

(* A reload corrects what the boot has left: when it ends, every run is    *)
(* the one the file asks for, the last of those it lists under the id.     *)
ReloadCorrects ==
  [][(stage = "reload" /\ stage' = "idle") => \A i \in Ids : UpToDate(i)']_vars

(* A reload does not touch a domain whose spec it finds unchanged.         *)
UnchangedKeepsRunning ==
  [][\A n \in Instances :
       (state[n] = "ready" /\ state'[n] = "draining") =>
         spec[n] \notin IndexOf(applied)]_vars

(* Every instance obeys the life cycle of the FSM.                         *)
ObeysLifecycle == LC!Spec

(* "Reload applies a new list of domains: it starts, restarts, stops": the *)
(* domains that live after it are those of the list.                       *)
LiveDomainsApplied ==
  stage = "idle" => \A n \in live : spec[n].id \in IdsOf(IndexOf(applied))

(* A signal sent after the last edit is enough for the file to be applied, *)
(* even when it comes in the middle of a reload and shares the one place   *)
(* of the channel with others.                                             *)
SignalApplied ==
  \A f \in Readable :
    (asked /\ file = f) ~> (~ asked \/ (applied = f /\ stage = "idle"))
=============================================================================
