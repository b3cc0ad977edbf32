# Verification of rassberry

TLA+ models of the micro-kernel platform of this repository: the root kernel
`rk` (`cmd/rk`), the runtime it uses (`platform/runtime`), the example domain
`site` and the log forwarder (`kernels`). TLC checks every model on small
instances; TLAPS proves for all values of the constants every invariant and
every action property the passing runs check, and both refinements. Liveness is
model-checked only.

The models follow the code as it is written. At this commit the Go workspace
does not build as a whole (two types named `BackoffPolicy` and two functions
named `WithOnEvent` in package `runtime`, helpers that are called and not
defined, two `main` functions in `cmd/rk`); nothing modelled here depends on
how that is resolved.

## 1. Inventory

`->` is a call, `~>` a message or an event.

| Part | State | Operations | Interacts with |
|---|---|---|---|
| Supervisor, `platform/runtime/supervisor_gen.go` | `workers`, the context, the WaitGroup; per worker `attempts`, `stopped` | `Start`, `Stop`, `StopAll`, `Wait`; one goroutine `runWorker` per worker | `site` -> it in `OnStart` and `OnStop` |
| Backoff, the same file, `process_runner_gen.go`, `forwarder_gen.go` | policy, attempt counter | `withDefaults`, `duration` | `runWorker` and the forwarder sleep by it |
| Discovery registry, `cmd/rk/discovery_registry*_gen.go` | `kernels`: health and exports by id | `RegisterKernel`, `Register`, `Unregister`, `UpdateHealth`, `SetExports`, `List`, `AggregateHealth` | manager, factory, policy, aggregator, admin server -> it |
| Degradation policy, `degradation_policy_gen.go` | `snapshot`: exports kept by id | ticker loop `Run` | -> registry (`List`, `SetExports`) |
| Health aggregator, `health_aggregator_gen.go` | `last`: the cached summary | ticker loop `Run`, `Snapshot` | -> registry, ~> bus; admin server -> it |
| Event bus, `event_bus_gen.go` | `subs` by topic, channels of 16 | `Publish`, `Subscribe`, `cancel` | loggers, gateway, aggregator ~> it ~> forwarder, SSE handler |
| FSM, `platform/runtime/fsm_gen.go` | the state of one kernel | `Run`, `Drain`, `Stop` | manager, factory -> it -> hooks of the domain |
| Domain manager and factory, `domain_manager_gen.go`, `domain_factory_gen.go` | `runs` by id | `launchInproc`, `stop`, `Reload`, `LaunchDomainWithFactory` | root kernel -> it -> FSM, registry |
| Root kernel, `root_kernel_gen.go`, `config_gen.go` | the signal channel | boot loop, SIGHUP goroutine | -> manager, factory; starts every other part |
| Log pipeline: tee logger, log hub, gateway, forwarder, SSE stream | channels, streams, the records in them | `Log`, `Publish`, `PushLogs`, `Run` | bus ~> forwarder ~> gateway ~> hub ~> bus |
| SafeLogHub, `platform/telemetry/loghub_safe_gen.go` | queue, window counter, statistics | `Publish`, `loop`, `Close`, `Stats` | nobody in the repository |
| ProcessRunner, `process_runner_gen.go` | process, log channel, `ready` | `Start`, `WaitReady`, `Stop`, the readers of the pipes | nobody in the repository |
| Servers: admin (`http_admin_*_gen.go`), hello of site (`site_domain_gen.go`), gateway (`log_gateway_server_gen.go`) | the server, its goroutine and its open requests | `Start`, the Fn of a worker, `StartLogGatewayServer`; handlers | root kernel, supervisor -> them -> registry, aggregator, bus |
| Host, contracts, ports, telemetry types, rkctl, entry points, stubs | none | data, getters, input and output | |

What is hard, and what makes each part correct:

* **Supervisor.** Stop, StopAll and Start come at any point of a worker's loop.
  Two goroutines never run under one name, a worker's exit frees its own name
  only, the policy decides every restart, Wait waits for exactly the live
  goroutines, nothing runs after a shutdown, and a shutdown ends.
* **Backoff.** Arithmetic on a bounded integer after an unbounded exponential:
  a delay stays between Min and Max.
* **Registry, degradation, aggregation.** The policy works on stale copies
  while others write: the exports of a running domain give way to those of an
  earlier launch only, never to nothing, and the policy catches up in the end. The summary is computed in the order of a map:
  it is the worst status whatever the order, and the cache follows.
* **Bus.** Publish works on a copy of the subscribers outside the lock: at most
  once and in order, no double close, no waiting for a slow subscriber.
* **Log pipeline.** Two buses, a bounded channel and a stream that breaks: a
  root that does not answer never holds up a domain, the copies of a record are
  bounded, nothing the forwarder started is left behind, and nothing circles.
* **SafeLogHub.** Separate atomic counters: every record is accounted for, the
  limit holds in every window, a report never makes a record look lost.
* **ProcessRunner.** Two readers and the goroutine that waits share a channel
  that one of them closes: what Logs() gives has no gap, nothing hangs behind the
  process, a READY that was printed is seen, and WaitReady always answers.
* **Servers.** The end of the context races with listening and serving, and
  open requests with the shutdown: no call returns while it holds its address,
  and nothing is left behind.
* **Manager and root kernel.** A restart takes many steps that may fail, while
  edits and signals go on: the runs are those of the file, a live instance is
  forgotten, and a domain run twice, in a few known ways only, every instance
  obeys the life cycle, no edit stays unapplied after a signal.

`PROJECT.json` lists the hazards line by line with the properties that answer
them, and those nothing answers yet.

## 2. Modules

| Module | Models | State and actions |
|---|---|---|
| `Supervisor` | supervisor and `Domain.OnStop` | `workers` is `s.workers`; `pc` is where a goroutine stands in `runWorker`; `wg` is the WaitGroup; `shutdown` is where the owner stands in `StopAll(); Wait()`. `Start`, `Stop`, `StopAllCancel`, `StopAllMark`, `WaitReturn` are the calls; `Check`, `CallFn`, `FnReturns`, `Remove`, `Restart`, `BackoffElapsed`, `BackoffCancelled`, `Leave` the loop |
| `Backoff` | `BackoffPolicy` | `WithDefaults`, `Durations` as sets of possible results; `Retry` and `Reset` are the two ways the attempt counter moves |
| `Discovery` | registry and its writers | `kernels`, `health`, `exports` are the records; `running` is the keys of `m.runs`; until `BootDone` an id may be launched over a running domain, since the file may list it twice, and only then come reloads and requests. The exports of a record are named by the launch that registered them |
| `Degradation` | policy, EXTENDS `Discovery` | `entries` is the rest of the copy `List` returned; `Tick`, then `Restore`, `Hide` or `LeaveAlone` for each entry in the order of the ids |
| `HealthAggregator` | aggregation, EXTENDS `Discovery` | `Begin`, `VisitKernel` in any order, `End`; writers wait while the read lock is held |
| `EventBus` | bus | `BeginPublish` copies, then one of `Send`, `Drop`, `SendOnClosed`, `GiveUp` for each copy; `Cancel` closes; `B!Spec` is a property (`open` is the union of the map, `delivered` what was received and what is in the buffer) |
| `Bus` | what the port `EventBus` promises | the abstract specification: subscriptions opened and closed once, the message being published delivered at most once |
| `LogPipeline` | tee logger, forwarder, gateway, `LogHub`, SSE stream | `chan` are the buffers of the subscriptions, `in` the channel they fill, `wire` the stream. `Log`; `Collect`, `Unsubscribe`, `CollectEnds` of the collecting goroutines; `DialOK` to `BackoffCancelled` of `Run`; `Take`, `SkipRoot`, `SendOK`, `SendFails`, `SenderSeesDone` of the one that sends; `Relay` is a round of `PushLogs`, `stuck` its Send of an acknowledgement nobody reads; `SseRead` |
| `SafeLogHub` | the guarded hub | `pc` is where a publisher stands, `count` the four counters; `Begin`, `LetThrough`, `Refuse`, `Enqueue`, `Drop`; the loop's `NewWindow`, `Receive`, `Forward`, `LoopEnds`; `CloseBegins`, `CloseReturns`; `ReadField` is one read of `Stats` |
| `Lifecycle` | what the FSM promises | the abstract specification: order of the states, drained before stopped, workers live from start to stop |
| `Domains` | boot loop, SIGHUP goroutine, manager, factory, FSM | `stage` is what the goroutine in charge does, `cur` the instance it works on; every hook of the FSM is a step; `LC!Spec` is a property |
| `ProcessRunner` | the runner of an external kernel | `written` and `taken` number the lines of a pipe, `reader` is where `readPipe` stands, `waiter` the goroutine behind `cmd.Wait`, `caller` `WaitReady`. `Start`, `StartReturns` (the event is emitted between them), `TakeLine`, `SendLog`, `Mark`, `ScanEnds`, `SendOnClosed`, `WaitReturns`, `CloseLogs`, `Tick`, `ProbeOK`, `ProbeKO`, `GiveUp`. Once a reader has panicked (`Crashed`) the program is gone and there is no step more |
| `Servers` | the admin server, the HTTP worker of site, the gateway | `kind` says which; `serve` is where ListenAndServe (or net.Listen and Serve) stands, `stopper` who calls Shutdown or GracefulStop, `orphans` those of earlier calls of the worker's Fn, `handler` where a request stands. `BeginListen`, `Bind`, `BeginServe`, `ServeReturns`; `BeginStop`, `StopEnds`, `Expire`; `StartReturns`, `ServeResult`; `Restart` by the supervisor |

`MC*` modules instantiate a module for TLC, one `.cfg` for each run.
`*Proofs` modules hold the theorems. An operator under a comment that begins
with *Fault* is a mutated form of the operator after it: the mutants of
`PROJECT.json` replace the one by the other to show that a property can fail.
No specification uses them.

Abstractions that hold everywhere: log texts, events for observers, times and
errors' texts are left out; a name, an id, a message or the exports of a launch
are atoms; a mutex-protected method that calls nothing is one step. The panic of
a reader, which nothing recovers, ends the program in `ProcessRunner`; that of a
Publish ends its goroutine only in `EventBus`, since the callers in a worker or a
request handler have it recovered (by `runWorker`, by net/http) and the rest goes
on. `NoPanic` of each states that it does not come.

## 3. Runs

| Run | Instance | What it shows |
|---|---|---|
| `Supervisor` | 2 workers, 2 names, attempts to 2 | names, WaitGroup and shutdown agree in every interleaving; a shutdown ends; Permanent comes back |
| `Supervisor_stop` *(violation)* | 1 worker | Stop does not end a Permanent worker |
| `Backoff` | 150 policies, 10-bit durations, 12 attempts | the bounds that hold past the overflow |
| `Degradation` | root and 2 domains, 2 launches each | the exports of a running domain's present launch are lost only to those of an earlier launch the policy still holds; hidden and restored in the end |
| `HealthAggregator` | root and 2 domains, 2 launches each, all statuses | worst status in every order; the cache follows in both directions |
| `EventBus` | 2 publishers of 2 messages each, 2 subscriptions, capacity 1 | the bus implements `Bus`; Publish never waits for a reader |
| `Domains` | 5 files over 2 ids, one of which lists an id twice, 2 edits, 2 signals, 6 instances | runs are those of the file; of all live instances one is forgotten only by a factory launch or a second listing in the boot, or by a failed OnStop, and none starts beside another of its domain except there or beside a forgotten one; a reload corrects the runs; every instance obeys `Lifecycle`; a signal after the last edit is enough |
| `LogPipeline` | 1 record of the domain or the root, 2 topics, a client of all records, one process or two | at most two copies of a record reach a client of a root elsewhere; the bus of the domain is never held up; `Run` leaves no goroutine behind; a lost stream is replaced |
| `LogPipeline_loop` *(violation)* | 1 record, 1 topic | in one process a record is sent again |
| `SafeLogHub` | 2 publishers, 5 records, limit 2, queue of 1 | every record accounted for; the limit in every window; an honest report; accepted records forwarded; Close returns |
| `ProcessRunner` | 2 lines a pipe, READY in either or in none, one place in a pipe, two in the channel | no gap in the lines; nothing hangs behind the process although nobody reads: all ends, or the close under a waiting reader ends the program; a READY is seen; WaitReady answers |
| `Servers` | each of the three, 2 clients, 2 restarts, an address others may hold | the address is free when the call returns; admin and hello end with their context; nothing is left |

**Bounds.** `MaxAttempts` of `Supervisor` caps a counter no guard reads. Two
workers under two names are enough for two to run side by side, for a name to be
reused, and for one to be started during or after the shutdown of the other;
three under two names were checked for safety as well (750 658 states up to
symmetry, no violation). A 10-bit Duration with defaults 3 and 60 keeps the
order of 100 ms, 30 s and the 64-bit limit; all factors above 1 overflow within
12 attempts. Two launches of an id are enough for a copy of the registry, or a
kept snapshot, to outlive the record it came from, and for an id listed twice to
be launched over a running domain. One place in a channel is the
smallest that is neither always full nor never; two messages each let every
publisher send before and after one of the other. Two edits and two signals let one pair come
while the first reload runs; six instances are all that the boot and two reloads
of two ids can launch, so no launch is cut off. In `LogPipeline` one place in
each channel makes every one of them fill up with a single record, its copies
and the warnings of the forwarder; `MaxShown` is one above the bound claimed. Its
client asks for no scope, so TLC checks the bound of two; the bound of four, for a
client that asks for one, is proved only. In
`ProcessRunner` a pipe of one line and a channel of two make the process, the
readers and the closing wait for one another with two lines a pipe, while lines
of both pipes, or two of one, are in the channel. In
`Servers` two clients let one leave and one stay; two restarts of the worker
leave two goroutines behind.
The five records of `SafeLogHub` are one more than the queue, the loop and both
publishers hold together, so that a report can be wrong.

**Fairness.** `Supervisor`: a goroutine that can run is scheduled and a timer
fires; `Fn` ends once its context is done, which is the contract written at
`WorkerFunc`; StopAll and Wait, once begun, go on. `Degradation` and
`HealthAggregator`: their ticker fires for ever. `EventBus`: a goroutine inside
Publish is scheduled; nothing is assumed of readers. `Domains`: the goroutine in
charge is scheduled and hooks return. `LogPipeline`: the goroutines of the
forwarder are scheduled, dialling and the backoff end, and a select that finds
its context done again and again picks it in the end (Go chooses at random);
that the root can be reached is a premise of `SendingResumes` and of nothing
else. `SafeLogHub`: publishers and loop are scheduled, the ticker ticks, and the
select of the loop picks each ready case in the end. `ProcessRunner`: handlers
return, goroutines are scheduled, a done context kills the process (os/exec
does), timers expire and a probe ends, since its request carries a timeout; that
somebody reads the logs, or that the process heeds SIGTERM, is a premise where it
is needed, and a program that has crashed owes nothing. `Servers`: goroutines are
scheduled, the five seconds pass, a handler whose client has left ends; that the
clients leave is a premise of the second
half of `ShutsDown`. Its first half is what `Supervisor` assumes of `Fn`,
`ForwarderEnds` is the same for the other worker. Callers of the public
operations, the operator, the network and the admin's clients are never obliged
to act.

**Deadlock** is checked where the system never stops. `Supervisor` stops after
its shutdown; the messages of `EventBus`, the edits and signals of `Domains` and
the records of `LogPipeline` are bounded; a process and a server end.

## 4. What the violations show

1. **Stop is not honoured by the loop** (`supervisor_gen.go:249-275`). A
   Permanent worker that was stopped is started again with a context that is
   already cancelled, for ever. The same for a Transient one that returns
   `ctx.Err()`. A Temporary worker is never restarted, so Stop is enough for it.
2. **Forwarded records circle** (`forwarder_gen.go:142`). The forwarder of site
   reads the bus of the root's process, on which the hub publishes what the
   forwarder has sent, and the guard lets the scope of a domain pass. (Its other
   half, the KernelID `rk`, is that of the root, whose records have the scope of
   the root as well; `SkipRoot` keeps the scope for both.)

What the properties that hold still admit:

* `LostToLeftoverOnly`. With the snapshot of an earlier launch in its hands, the
  policy hides the exports of the present one without keeping them (Hide does not
  overwrite a snapshot), or shows the old ones instead of them. The domain is never
  left without any, and one that was launched once never loses its own
  (`FirstLaunchKept`).
* `OnlyKnownLosses`. Three ways for a live instance to be in no `m.runs`: the boot
  loop launches it by its factory; the boot loop launches another one under its id,
  since `LoadConfig` takes a file that lists an id twice; its OnStop fails, and
  `stop` ignores the error and deletes the run (OnStop of site never fails). Each
  of them lives on beside the next instance, if any, of its domain. In no other way is one
  lost, or started beside one that the manager knows (`InprocFoundAndAlone` for the
  files and hooks that exclude the last two).
* `IdleRunsApplied`. When the second of two launches under one id fails in the boot,
  the first stays, although the index of a reload would hold the second, until there
  is a reload (`ReloadCorrects`). No document says what such a file should mean.
* `EndsOrCrashes`. When nobody reads the logs and a reader waits for room, it ends
  by the crash only (`NoPanic` below). `cmd.Wait` also closes the pipes under the
  readers, so the last lines may be lost; `LogsInOrder` shows that it is a tail that
  is lost.
* `CopiesBounded`. "At-most-once" (`forwarder_gen.go:60`) says that a Send that
  failed is not retried, and it is not: what is taken off the channel is given to
  Send once. A record that the tee logger has published on two topics is taken
  twice, so two copies are sent.

More properties are stated in the modules and do not hold; no run checks them.
Named in the configuration of their module's run, as a PROPERTY those marked
so and as an INVARIANT the others, each yields a trace:

* `RestoreOnlyHidden` in `Degradation` (PROPERTY): "restore the exports, if they
  were hidden" (`degradation_policy_gen.go:60`) asks whether there is a snapshot, not
  whether anything is hidden. A snapshot outlives its record, and the exports of an
  old launch replace the visible ones of the present launch.
* `LiveDomainsApplied` in `Domains`: Reload does not know the domains of the
  factory (`domain_manager_gen.go:89`), so a domain of mode `process` outlives its
  removal from the file; and a reload of the very same file launches it a second
  time, through the manager (`domain_manager_gen.go:96`).
* `NoPanic` in `ProcessRunner`: the log channel is closed under its senders
  (`process_runner_gen.go:215,228`). A reader that holds a line when the process
  ends, or waits for room because nobody reads, sends on a closed channel: a panic
  that nobody recovers, and the end of the whole program.
* `NoPanic` in `EventBus`: a cancel between the copy and the send, and Publish
  sends on a closed channel (`event_bus_gen.go:38`), which panics. `Bus` does not
  see it, since nothing is delivered. A missing close `Bus` does not see either:
  that is what `ForwarderEnds` is for.
* `NoGhosts` in `Degradation` (PROPERTY): the admin handler makes a record for any
  id (`discovery_registry_gen.go:87`), and the policy may fill it with the exports
  of a domain that was stopped.
* `NeverBelowMin` in `Backoff`: the conversion comes before the cap
  (`supervisor_gen.go:67-71`). From attempt 38 on, with the defaults, the
  conversion of the exponential is the least Duration on amd64, the cap lets it
  pass, and without jitter the sleep is negative: the worker spins. With jitter
  the last two clamps repair it (`JitterWithinBounds`). The comments there also
  give a default of 0.2 and a width of 50% for the jitter; the code has neither.
* `SendingGoesOn` in `LogPipeline` (PROPERTY): once the acknowledgements that the
  forwarder never receives fill the window of the stream, PushLogs waits, and the
  forwarder for it, until the stream breaks (`log_gateway_server_gen.go:41`). The
  domain goes on, as `BusNeverHeldUp` and `ForwarderEnds` show.
* `GatewayEnds` in `Servers` (PROPERTY): GracefulStop waits for the streams of the
  forwarders, and that of site has a context of its own
  (`log_gateway_server_gen.go:73`). The root kernel does not wait for it.
* `ReasonExplainsStatus` in `HealthAggregator`: the reason of a summary may
  belong to a better status than the one reported
  (`discovery_registry_gen.go:156`).

## 5. Proofs

Proved by TLAPS for all values of the constants that satisfy the assumptions in
the modules (a finite set of workers; ids that are numbers, since the code sorts
them; values of the policies within a Duration; capacities above zero). The
bounds of the models are constants, too, so that a theorem holds for every bound.

| Module | Theorem | States |
|---|---|---|
| `SupervisorProofs` | `TypeCorrect`, `WaitGroupExact`, `LoopOwnsName`, `NameFreedOnlyByExit`, `PolicyObeyed`, `ShutdownIsFinal`, `NobodyGoesRound` | the names, the WaitGroup, the policies and the shutdown of the supervisor |
| | `BackoffTypeCorrect`, `BoundsHold` | the bounds of a delay |
| `RegistryProofs` | `DegradationTypeCorrect`, `LostOnlyToEarlier`, `FirstLaunchKept` | the exports of a running domain give way to those of an earlier launch only |
| | `TypeCorrect`, `SummaryIsWorst`, `ReasonTrue` | the summary is the worst status, and its reason a true one |
| `EventBusProofs` | `TypeCorrect`, `RefinesBus`, `AtMostOnce`, `PublishBeginsOpen` | the bus implements `Bus`; at most once, in order; no Publish begins with a closed subscription |
| `DomainsProofs` | `TypeCorrect`, `ImplementsLifecycle`, `UnchangedUntouched` | the life cycle of every instance |
| | `LossesAreKnown`, `InprocFoundAndAlone`, `ReloadApplies`, `ReloadRepairs` | what boot and reload leave running |
| `LogPipelineProofs` | `TypeCorrect`, `CopiesAreBounded` | the copies a client is shown |
| `SafeLogHubProofs` | `TypeCorrect`, `NothingLost`, `LimitHolds`, `ReportTrue` | the guarded hub |
| `ProcessRunnerProofs` | `TypeCorrect`, `LogsHaveNoGap`, `LogsEndBehindProcess`, `ReadersEnd` | the lines of the pipes, and their end |
| `ServersProofs` | `TypeCorrect`, `Released` | the address is free when the call returns |

How they go:

* **Supervisor.** The type invariant together with `WaitGroupCountsLive`
  is one inductive invariant, since that the counter is a natural number holds
  because it counts a finite set; from it `LoopOwnsName`, and with that
  `NameFreedOnlyByExit`, an action property: `Remove` deletes the entry of its
  own name because the invariant says who holds it. `PolicyObeyed` needs
  `UnbornFresh`, without which a worker could be born with attempts counted.
  `ShutdownIsFinal` uses that Wait returns over a counter of zero, hence over no
  live goroutine. `NobodyGoesRound` is the variant behind `ShutdownCompletes`:
  after the cancellation every step of a goroutine lowers `StepsLeft`, so that the
  WaitGroup falls to zero if the goroutines get their turn and their `Fn` ends.
* **Backoff.** Whatever the exponential is, the conversion, the cap and the two
  clamps keep the bounds; `Pow` is never unfolded.
* **Registry.** `LostToLeftoverOnly` goes through the actions with three facts
  about the state: what the manager runs is listed (`RunningListed`), without which
  `Restore` could drop a snapshot into a record that is gone; a running domain has
  some exports visible or kept (`SomeExportsHeld`); and nobody holds exports of a
  launch still to come (`OfPastLaunches`), so that whatever is held instead of the
  present launch's is of an earlier one. For a domain launched once there is no
  earlier one, hence `FirstLaunchKept`.
  The switch over a status is a maximum (`OverridesIsMax`);
  with `WalkWithinRegistry` the invariant of the walk follows.
* **Event bus.** Every step of `EventBus` is shown to be a step of `Bus` or a
  stutter. That a `Send` is a delivery the abstract bus allows needs what the
  copy of the subscribers says about the rest of the state: a publisher's copies
  were subscribed (`MapExact`, which also keeps the map and the closed channels
  apart), the message being published is in no channel of the copies it has yet
  to serve (`CopiesUnserved`), and no message is delivered that its publisher has
  not begun (`NothingEarly`). `AtMostOnceInOrder` is inductive on the abstract
  side and comes back through the refinement. `PublishBeginsOpen` follows from
  `MapExact`: the copy is taken of a map in which nothing is closed, so that a
  Publish panics only where a cancel comes between the copy and the send.
* **Domains.** The types are inductive only with what each stage of the goroutine
  in charge says about the instance it holds: `CurByStage`, `Held` (there is an
  instance where the stage works on one, and what is marked for removal still
  runs), `RunsReady` and `LiveByState` (workers live exactly in the states
  between start and stop). The refinement of `Lifecycle` follows from these;
  `UnchangedKeepsRunning` from `StageByBoot` and `ReloadOfIndex`, which tie the
  stage to the file being applied. `OnlyKnownLosses` goes through
  the actions: `Launched` puts an instance into a place of `m.runs` that is free
  unless the boot loop found the id a second time (`LaunchFresh`), so that the
  manager knows no other instance of that id; `Stopped` gives one up that is dead
  unless OnStop failed; and no other action takes one out.
  `InprocFoundAndAlone` is the corollary, with its hypotheses in the statement, for
  files that list an id once and an OnStop that does not fail.
  `ReloadApplies` and `ReloadRepairs` have no hypothesis. They add that what is
  launched, and what runs, is wanted (`LaunchListed`, `RunsListed`), and that
  nothing listed was passed over (`NoneMissing`); `Wanted` is what the index of the
  file holds and, between the boot and the first reload, whatever the file lists
  under an id it lists twice.
* **Log pipeline.** `TypeOK` is inductive with `OneSender`: the goroutine that
  sends ends before Run dials again. `CopiesBounded` follows from a weight of each
  record: the copies in front of the gateway, each counted as many times as the
  client can be shown it behind it, those behind it, and those shown
  (`CopiesCounted`). Only `Log` adds to the weight, two copies to a record that had
  none; every other step keeps or lowers it, since it moves, drops or loses copies.
  `HubPublish` may publish on one topic twice when the scope is that of the root,
  so the guard of the forwarder is part of the invariant (`NoRoot`).
* **SafeLogHub.** `Accounted` is inductive with the types, since each step
  moves one record between two of the places it sums up. `RateRespected` needs
  `passed <= rateNow`: what was let through was counted. `StatsHideNoLoss` needs
  one conjunct for each place of the read: the total read so far never exceeds
  what is read now plus what has still to be read as it stands now, by
  `Accounted` and because counters only grow.
* **ProcessRunner.** `LogsInOrder` says that the lines of a pipe in the channel
  are exactly those between the last one received and the last one sent, and
  stand in order. It is inductive with `ReadersPlaced`: before the goroutines
  start there is no reader, one that sends has a line, and one that marks has sent
  the line that carries the prefix. `AppendNos` and `TailNos` say what sending and
  receiving do to the set of numbers. `LogsOutliveProcess` is not inductive: that
  the process is gone when the channel is closed is known by where the goroutine
  that waits stands (`ExitSeen`). `ReadersRunDry` is the variant behind `EndsOrCrashes`:
  behind the exit nothing is written, and each step of a reader lowers its
  `StepsLeft`, whether or not anybody takes the lines.
* **Servers.** `PortReleased` is inductive with the types, with
  `ReturnedIsServed` (the call returns behind Serve) and `StoppedIsClosed`: Serve
  leaves the address as it is when it returns, and is right to, because a server
  that was told to stop while it served has lost its listener and one that was
  told before does not come to serve.

These theorems state properties that are proved and need no run: `LoopOwnsName`,
`PolicyObeyed`, `NobodyGoesRound`, `BackoffTypeCorrect`, `ReasonTrue`,
`FirstLaunchKept`, `AtMostOnce`, `PublishBeginsOpen`, `InprocFoundAndAlone`,
`LogsEndBehindProcess` and `ReadersEnd`. TLC was run on `MapHoldsLoop`, `RestartsByPolicy`, `NoMoreRounds`,
`BackoffTypeOK`, `BeginsOpen`, `LogsOutliveProcess` and `ReadersRunDry` at the bounds
of section 3 before they were proved; named in the configuration of their module's
run they hold.

Only model-checked: all liveness, under the fairness of section 3, since the
prover has no rule for it: `ShutdownCompletes`, `PermanentRunsAgain`,
`PolicyCatchesUp`, `CacheFollows`, `PublishReturns`, `SignalApplied`,
`BusNeverHeldUp`, `ForwarderEnds`, `SendingResumes`, `LoopServesAll`,
`EndsOrCrashes`, `ReadySeen`, `ShutsDown`. That `Exponential` is what the loop of `pow` computes
is its definition, not a theorem.

## 6. Not modelled, and the plan

Not modelled because there is no behaviour to check: the host (getters over
values given once), contracts, ports, record types, entry points, rkctl (one
HTTP request a call, then printing), the stubs of third-party code, the
end-to-end test. Not modelled because its effect is not a state: a SIGHUP before
`signal.Notify` and the exit of the root kernel, which both end the process; the
root kernel does not wait for the servers, so `Servers` says what their own calls
do, in a program that gives them the time.

gRPC is modelled as its documentation has it, since the forwarder uses a client
that the stub in `third_party` does not have; the stub's server accepts no stream
and its Serve returns at GracefulStop.

The pipeline takes the bus as `Bus` states it (at most once, in order) and as
`PublishReturns` of `EventBus` shows it (never waiting) instead of composing the
two modules; of a record it keeps its scope, and of the SSE filter the scope.
`Servers` keeps of a stream only that it is open.

Left to do, in the order of what it would say about the system:

1. The liveness proofs of which `NobodyGoesRound` and `ReadersEnd` are the
   variants. The prover has no rule for fairness, so they wait for one.
2. The pipeline on top of `EventBus` instead of what `RefinesBus` and
   `PublishReturns` say of it.
3. The exit of the root kernel as a state, with the servers and the domains it does
   not wait for.
