# ChaosProxy in TLA+

ChaosProxy is an HTTP proxy that injects faults into the traffic it forwards.
Rules and scenarios say which requests get which faults; a configuration file
holds them and is reloaded when it is saved; a control plane toggles rules,
resets sequences and streams one event per request to dashboards.

This directory specifies the concurrent core of the program, the life of its
process, and the pure algorithms whose edge cases matter. TLC checks the
specifications on small instances; TLAPS proves the safety properties of the seven
components, the two refinements, and what the matcher, the validation, the labels of directives and
the readers of bodies promise, for every value of the constants and inputs of every size. Line numbers refer to the
sources beside this directory; `README.md:544` in a comment is the repository's
own README.

To check a module, `tlc -config X.cfg M` for each row of the table under
"What the runs check", and `tlapm M_proofs.tla` for each module of proofs.

## 1. Inventory

`PROJECT.json` lists every component with its files and status, and every hazard
with its line. The components, by how they interact:

    editor ── saves ──> Config watcher ── Update ──────┐
    control API ── PUT /api/rules/{name} ─ SetRuleEnabled ──> Runtime snapshot
                ── POST /api/reset, /api/scenarios/{name}/reset ──> Decision counters
                ── GET /api/events ──> Event bus                        ^
    client ── request ──> pipeline: captures the snapshot, matches, draws an index ┘
                                    runs faults, forwards, publishes one event
                                      └──> Event bus, Recorder ── stopRun ──> run
    signal, --max-requests, --exit-on-error, failed server ──> run: shuts down
                          both servers, then report and exit code

| Component | State | Operations | What is hard about it | What makes it correct |
|---|---|---|---|---|
| Runtime snapshot (`proxy/runtime.go`, `runtime_control.go`) | `Handler.current`, an atomic pointer to an immutable snapshot of file and overrides | `NewHandler`, `Update`, `SetRuleEnabled`, `CurrentConfig` | two optimistic loops without a lock; overrides carried over from a snapshot another writer replaced | no lost update, overrides only where they contradict the file, toggles kept as documented, invalid files never active |
| Decision sequences (`proxy/scenario.go`, `override.go`) | two `sync.Map`s of atomic counters | `nextIndex`, `step`, `selectFaults`, `Reset`, `ResetScenario`, `restartChangedScenarios` | Load, LoadOrStore and Add are three steps; restarts between any two; snapshot and counter are read one after the other | indexes neither repeat nor skip, a restarted sequence does not continue, definitions do not mix |
| Request pipeline (`proxy/handler.go`, `observability.go`, `logging.go`) | a context, metrics and a status writer per request | `ServeHTTP`, `BeginShutdown`, faults before and after | client cancel, shutdown and fault racing; hijacked connections | one event per request, truthful status, injected faults are no errors |
| Event bus (`events/`) | ring, subscriptions, counters under a mutex; a channel per subscription | `Publish`, `Subscribe`, `Reset`, `Close`, `Snapshot` | readers receive without the mutex while publishing and draining go on | order, bounded loss that is counted, publishing never waits |
| Control plane (`control/`) | `stopping` | toggle, reset, stream, state | streams against shutdown; a reset of two parts | streams end, a reset resets all |
| Config watcher (`config/watcher.go`) | timer, timer channel, fsnotify queue | `NewWatcher`, `Run`, `reload` | saves during a reload, timer reuse, partially written files | no save forgotten, last valid file active |
| Configuration (`config/`) | none | `Load`, `Validate`, `Clone`, directives | rules on combinations of fields | what validates compiles |
| Process lifecycle (`cmd/chaosproxy/`) | contexts and result channels | `run`, shutdown, stop reason | one deadline for two servers; several reasons to stop | every goroutine ends; report and exit code agree |
| Run report (`report/`) | recorder under a mutex | `Publish`, `Report`, `ErrorCount` | the limit reached by parallel requests, events after the report | limit fires once, counts agree with events |
| Rule matching (`rules/`) | none | `Match`, path globs | several wildcards, empty segments | first match, globs as documented |
| Faults (`faults/`) | none, or a body reader's position | `Before`, `After`, `Read`, `Close` | waits that are cancelled; readers closed while sleeping | order, bytes before the fault, release exactly once |
| CORS, profiles, loopback, dashboard, npm wrapper | dashboard: last event ID | | the dashboard's last ID across resets | shows every event it received |

## 2. Modules and what they model

### RuntimeControl, and what it implements: RuleToggles

`current` is the snapshot behind `Handler.current`: the file configuration and
the overrides set through the API. A caller (the watcher's goroutine, or one
serving `PUT /api/rules/{name}`) goes through `pc`: it is called, reads the
pointer and compiles (`Update`, `SetRuleEnabled`), and publishes with
`CompareAndSwap` or starts over (`CompareAndSwapFails`).
Pointers are compared by identity, which a value cannot show: two snapshots may
be equal and have different addresses. `replaced` is the set of callers whose
loaded pointer is not the current one any more. Compilation is abstracted to
what it is made from and whether it succeeds, because a snapshot is a function
of its base and its overrides and is never changed after it is published.

`RuleToggles` is the sequential promise of README.md:544: switches and calls that
take effect in one step. `ImplementsRuleToggles` says the loops are
linearizable with it. The abstraction `effective <- Effective(current)` forgets
overrides, pointers and retries.

### DecisionCounters

The `sync.Map` of atomic counters and `nextIndex`, at the granularity of its
three accesses. `counters[k]` has every counter ever made for a key: one that was
removed from the map lives on in the requests that hold its pointer, and the
model can tell it from its successor. `Restart(S)` is `Delete` of a key or
`Clear` of a map. `sync.Map` is assumed linearizable. `restarts`, `born`,
`since` and `draws` are history variables.

### DataPlane

Composes the two: `INSTANCE RuntimeControl` and `INSTANCE DecisionCounters`. A
request captures the snapshot and selects a scenario or rule with it (`Arrive`),
walks through `nextIndex` (`Lookup`) and plays the step its index stands for
(`Play`); meanwhile the watcher publishes and only then restarts the changed
scenarios one by one (`RestartChanged`), the reset endpoint clears the two maps
one after the other, and `ResetScenario` looks a name up before it deletes its
counter. `step` and `ChangedScenarios` translate scenario.go:54-70 and :104-110.
What a request does with its step is left out: it changes no shared state of
this module. `floor` remembers, for each sequence, the resets that have returned, of one
scenario and of all. Requests that match nothing, and those with an `X-Chaos` header,
draw no index.

### RequestPipeline

One request, from the capture to its event. `pc` is where `ServeHTTP` is: `before` and
`after` walk through the fault chain (`todo`), `wait`, `hang` and `pause` are the
waits of latency, of hang and of a stalled or throttled body, `forward` to `copy` is
the reverse proxy, and `finish` runs the deferred `finishRequest`. Three contexts
matter: the request's own (`client = "gone"`), the shutdown's (`stopping`), and
the one `withShutdownCancel` makes for the faults, which `context.AfterFunc`
cancels a moment later (`cancelled`). That the request forwarded has the first and
the faults' waits have the last is what `ForwardContextDone` and
`FaultContextDone` say. The server learns that a client left by reading from its
connection: by itself once the request's body was read, before that only when the
transport reads more of it (`upload`, `ReadUpload`, `RequestContextDone`); on HTTP/2 an abort
is noticed at once. A client that leaves in the middle of its upload
ends the wait for the API either by the context (`Abandon`) or by the failure to read the
body (`UploadFails`), and only the first is what `eventError` filters. `status` is what `statusResponseWriter` recorded and
`wire` what net/http sent: they are two variables because they differ, see findings. A probability is a choice, and so is what the API does.

`httputil.ReverseProxy` is not in the repository. The module says what the handler
relies on: interim responses go through `WriteHeader`, errors go to
`handleProxyError`, a body that cannot be copied ends in a panic, a 101 is written
on the hijacked connection and needs a body that can be written to; when the client is gone
by then, `handleProxyError` runs after the hijack (`SwitchFails`). An API that breaks its response while it
is copied is among `failures` (`Broken`), and the event has no error: the code records
none there. `ErrorsAreProxyFailures` names this as the only failure an event leaves out, and an
upload that its client aborted as the only error without a failure.

Requests share `stopping` and the counters of DataPlane only, so one is enough. Since a
fault that is there may trigger or not, one chain with all faults stands for every
chain that has less of them; latency and bandwidth always trigger and are there or
not.

### EventBus, and what it implements: EventFeed

The bus at the granularity of channel operations: `holder` is what the goroutine
with the mutex does (visiting subscriptions to publish or to drain), and a
stream's `Receive` interleaves with it. `Offer`, `Evict` and `Retry` are the
three selects of `publishTo`, `Drain` a receive of `drain`. An operation without a
channel operation is one step, since the mutex hides it from everybody. A
stream is at `replay`, `live` or `leaving` of `streamEvents`. The event's content is
its ID, with the number of resets before it.

`EventFeed` has no ring, no channel and no mutex: publishing reaches every
listener at once, a buffer that overflows loses its oldest event unless the
client catches up first, and a reset discards what was published before it.

### ConfigWatcher

`Run` and `reload` against an editor, a clock and a signal. The select's cases are the
actions `HandleEvent`, `Fire` and `Return`, in any order when several are ready;
`Load` and `Apply` are the two halves of `reload`, between which the file may be
saved again. `fsnotify` and the timer are not in the repository: the module says
how the code uses them (an event per change while watched; a timer that is
stopped, running or expired) and assumes that the kernel's queue does not
overflow. `NewWatcher` is an action, since a save before it raises no event.

### Lifecycle

The process from `run` to the exit code. `stage` is where `main`'s goroutine is: the
`select` over the three ways to stop, `Shutdown` of one server and then of the
other (`turn`), the collection of results, then `stopReason`, the report, the
write and the exit code, each a step of its own, because handlers may still run.
The goroutines of the servers, of `RegisterOnShutdown`, of the watcher, of the
requests and of a dashboard's stream are actions beside it. A request is abstracted to what decides
its end: it waits for the API (`forwarded`), in an injected wait that the
shutdown cancels (`waiting`), or on a connection `Shutdown` does not
track (`hijacked`: a reset or an upgrade, of the requests in *Upgrades*). `record` and `Notify` are
`Recorder.Publish`: under its mutex, and the callbacks after it. `HandlerEnds` takes from
RequestPipeline which ends are errors, the upgrade that fails on a hijacked connection
included. `Expire` is the single deadline
of both shutdowns; it passes only when a peer is what `Shutdown` waits for
(`Slow`).

### The algorithms: PathGlobs, FaultDirectives, BodyReaders, BodyMutation

Pure functions, each compared with a
reference that is stated another way. *Algorithms* has an input of the first three as
its state and one action per kind of input; its constants say which rules,
directives, files and bodies there are, and its assumptions that they are what the decoder of a
file, `strings.Split` and the API's body can yield. MCAlgorithms makes the constants small sets, and
adds the mutations, whose operators are recursive.

- *PathGlobs* translates the compilation of patterns, the matching of segments
  with its backtracking and the choice of the rule. The reference maps the items
  of the path to those of the pattern.
- *FaultDirectives* has `Validate` for rules and scenarios with the defaults that
  precede it, `ParseFaults` for headers and steps, `describeFaults`,
  and what `Build` makes of either. `Playable` says what each fault's code relies on.
- *BodyMutation* has `apply` of mutate.go on a heap: objects and arrays are
  references, which the code changes in place. The reference says what the
  document looks like afterwards, place by place.
- *BodyReaders* nests the readers of truncate, stall and bandwidth as `Build` does and
  reads them as `httputil` does. The reference says how many bytes arrive, and
  when, whatever the sizes of buffers and chunks.

### Mutants

A definition whose comment begins "Mutant of X" is a form of X with a plausible
bug. Nothing else uses it: put in the place of X it makes TLC report the property
that `PROJECT.json` pairs it with, which shows that the property depends on that
part of the code.

## 3. What the runs check

| Configuration | Module | Properties | Shows |
|---|---|---|---|
| MCRuntimeControl | MCRuntimeControl | OverridesContradictFile, ActiveConfigCompiles, SwapsWhatItRead, SwitchesAreKept, ImplementsRuleToggles, SomeCallFinishes | a reload and two toggles racing lose no update, behave like atomic calls, and are lock-free |
| MCDecisionCounters | MCDecisionCounters | NoRestartedSequenceContinues, IndexesAdvance, NoIndexSkipped | three requests, two sequences, restarts at any step |
| MCDataPlaneReload | MCDataPlane | TypeOK, QuietSequencesAreNotMixed, StepsFollowEachOther | reloads that redefine, drop and bring back a scenario under way |
| MCDataPlaneToggle | MCDataPlane | NoSequenceSurvivesReset | reloads that retry because of a toggle, `POST /api/reset` and the reset of one scenario, at once: neither leaves a sequence going on |
| MCDataPlaneStartOver | MCDataPlane | RedefinedScenariosStartOver | *violated*, see findings |
| MCRequestPipeline | MCRequestPipeline | TypeOK, OneEventPerRequest, ErrorsAreProxyFailures, ShortCircuitsStayLocal, ForwardedRequestsDrain, InjectedWaitsEnd, AbandonedRequestsEnd | any faults, with the client leaving before or after its body was read, the API failing and the shutdown beginning at any step |
| MCRequestPipelineHints | MCRequestPipeline | ResponsesPassThrough | *violated*, see findings |
| MCEventBus | MCEventBus | ChannelsInUseAreOpen, EvictionMakesRoom, LossesAreCounted, StreamsAreOrdered, ImplementsEventFeed, MutexIsReleased | two streams of any pace, evictions, a reset; the mutex is never held for a stream |
| MCConfigWatcher | MCConfigWatcher | NoSaveIsForgotten, OnlyNewerValidEditsAreApplied, SavedEditsAreApplied | saves in bursts, of valid and invalid contents, during a reload |
| MCConfigWatcherTarget | MCConfigWatcher | AcceptableEditsAreApplied | *violated*, see findings |
| MCLifecycle | MCLifecycle | TypeOK, ReportIsComplete, StopReasonIsTrue, ReportExplainsExitCode, OnlySlowPeersAreCut, RunEnds | every reason to stop, in every order, with requests and a stream that may not end |
| MCAlgorithms | MCAlgorithms | RulesMatchAsDocumented, ValidFilesArePlayable, LabelsMeanTheirDirectives, MutationsActOnEachPlace, BodiesArrive | every bounded input of the pure parts |

Every safety property of the table down to MCLifecycle's, and every type invariant, is also
a theorem, see section 5; so are four of the algorithms' five, for inputs of every size. TypeOK stays in the runs that had it before its proof.

### Bounds, and why they are enough

- *RuntimeControl* needs no bound: callers call again and again and the state
  space is finite. One watcher, because the program has one; two clients, so
  that a toggle can be overtaken by a toggle and by a reload. Two rules: one whose
  switch the two files disagree about, and one that the second file lacks.
- *MaxDraws* and *MaxRestarts* bound the history in DecisionCounters and DataPlane.
  Three requests with three draws let two of them race to make a counter while a third
  holds the one before; one restart per key is what separates a counter from its
  successor, and the reload run allows two, so that a definition is replaced and comes
  back. The definitions of DataPlane have one or two steps, so that a sequence goes
  past its last step: "repeat" and "last" do in the reload run, "last" and
  "passthrough" in the toggle run. `Quota` stops calls when a key's restarts are used
  up, never a call in progress.
- *RequestPipeline* needs no bound either. The API answers 404, which no part of the
  proxy makes up, or switches protocols, and may send interim responses first;
  status faults send 503, the code of a rejection, or an interim code. *Uploads*: a body that came
  with its header, or is still to be read. *HijackResults*: HTTP/1, which hijacks, and HTTP/2,
  which cannot.
- *HistoryCapacity* is 2 and *SubscriberBuffer* 1, against 500 and 128, with three
  events between resets: the ring wraps with a start that is not its end, and a
  buffer overflows, is emptied by its reader between the three selects, and
  overflows again. Two streams make a publisher visit one while the other moves.
- *MaxSaves* is 3: one to start the timer, one during the debounce or the reload,
  one more to start over. `Touch` keeps the queue as short.
- *Lifecycle* has two requests, so that one stops the run while the other is at any
  step, and limits of none and of one, so that the limit can be passed. One of the two, *Upgrades*, may leave its
  connection hijacked, so that the other is one `Shutdown` waits for. `NothingFailed`
  lets one server or the watcher fail by itself, and signals after the
  select are left out because `signal.NotifyContext` swallows them. One stream: it is either
  read or not.
- *MCAlgorithms*: patterns and paths of up to three segments, with every arrangement
  of wildcards in a segment and over segments, since a fourth repeats what three
  show; pairs of rules; settings at, below and above each bound that `Validate` has;
  lists of up to two directives of all values and of up to four that parse, enough
  for a repetition after another fault; documents of up to four levels with paths as long and lists of
  two operations, the second with a path as long after an `inflate`, so that it reaches what was
  repeated; bodies of up to five bytes with *MaxBuffered* 3 for 1 MiB,
  and buffers and chunks smaller than, as large as and larger than both.

Configurations with `CHECK_DEADLOCK FALSE` stop where the bound or the program
says so: draws and restarts are used up (DecisionCounters, DataPlane), or `Run`
has returned and the saves are used up (ConfigWatcher), or the request is done
(RequestPipeline), or the input was picked (MCAlgorithms). The other runs check
deadlock; for Lifecycle, whose `Done` is the only step of a program that has exited, that says
the shutdown never waits on itself.

Symmetry is used for interchangeable requests and streams, and in no run
with a liveness property.

### Fairness

- `RuntimeControl!FairSpec`: every goroutine that can take a step takes one some
  day; the Go scheduler is preemptive. No caller is assumed to win its
  compare-and-swap.
- `EventBus` needs none. `MutexIsReleased` says that whoever holds the mutex can take his next
  step in every state, whatever the streams do, and that each of his steps leaves
  less to do.
- `Lifecycle!FairSpec`: goroutines that have something to do do it, and the
  deadline passes. Nothing is assumed of peers: the API may never answer, a
  client may neither read nor leave.
- `RequestPipeline!FairSpec`: the handler takes the steps that wait for nothing (`Handle`),
  and the goroutine of `context.AfterFunc` runs. Nothing is assumed of the API, of
  the client, or of the length of a wait, nor that the transport reads the body
  (`ReadUpload`): `InjectedWaitsEnd` and `AbandonedRequestsEnd` start from the moment
  the request's context is cancelled, which is when the server can know. What is read from or written to a
  connection whose request was cancelled returns, which is net/http's promise.
- `ConfigWatcher!FairSpec`: the timer expires, the goroutine runs, and a case of the
  select that stays ready is taken. The saves pause, which the bound on them
  provides: a debounce that is restarted for ever never ends.

## 4. Findings

1. *A redefined scenario may not start over* (run `scenario_start_over`).
   `Update` publishes the snapshot and deletes the counters of changed scenarios
   afterwards (runtime_control.go:22-24). A request that captured the old snapshot
   before, and draws after the deletion, makes the counter anew and plays the
   old first step at index 0. The first request with the new definition, sent after
   the reload has returned, gets index 1 and plays the second step. README.md:491
   says such a scenario starts over. What does hold is `QuietSequencesAreNotMixed`.
2. *Hot reload rejects a file that relies on --target* (run
   `reload_with_target_flag`). `reload` validates the file before `apply` sets the
   target (watcher.go:144-152, main.go:82-85), while at the start the
   override comes first (options.go:115-149). A program started with
   `--config` and `--target`, from a file without `target`, applies no edit.
3. *A response behind Early Hints loses its status* (run `early_hints`). The API's 103
   goes through `statusResponseWriter.WriteHeader`, which then drops the final
   status (logging.go:31): a 404 reaches the client as 200, and the event says 103.
   A status fault with a code from 100 to 199, which validate.go:224 allows, takes the
   same way: the code goes out as an interim response, the body makes net/http
   answer 200. `OneEventPerRequest` leaves the status of such requests out.

Seen on the way, with no run of its own:

- An upload that its client aborts counts as an error. `eventError` filters `context.Canceled`
  only (logging.go:79). When the client leaves with part of its body unsent, `RoundTrip` may fail with
  the error of reading it, which handler.go:213 records; the event, the report and
  `--exit-on-error` then count it, although logging.go:77 and
  docs/progress/task-12-ci-integrations.md:30-31 say that client cancellations never count.
  `ErrorsAreProxyFailures` names it as the one error without a failure of the proxy, the API or the
  header.
- An upgrade under a body fault (stall, truncate, bandwidth) fails with 502 and counts as
  an error, because the wrapped body cannot be written to, although README.md:550
  says that injected faults never count. An upgrade whose client is gone when the 101 is to be sent
  records an error on the hijacked connection (handler.go:211-217), which may come between the report and
  the exit code. `ErrorsAreProxyFailures` leaves upgrades out, and Lifecycle's properties name
  the case.
- An API that breaks a response while it is copied leaves no error in the event, only a
  client with half a body. `ErrorsAreProxyFailures` says so.
- A hang or a latency of a request whose body was not read is not ended when its client
  leaves, since net/http does not watch the connection yet (handler.go:138 waits for a context that
  nobody cancels before shutdown). `InjectedWaitsEnd` says what holds.
- An upgrade that succeeds is written past the status writer, so its event has status 0,
  which the tally calls "aborted" (tally.go:71: "when no response started").
  `OneEventPerRequest` leaves it out.
- A dashboard that stops reading keeps `streamEvents` in a write (sse.go:41), where it
  does not see the shutdown. The deadline cuts it, `run` returns an error, and the
  program exits with 1 after a signal. `OnlySlowPeersAreCut` says that nothing
  else is cut.
- The deadline is one for both servers (server.go:120): when a slow request uses it up, the
  control plane is given none, and streams that would have ended at once are cut.
- A request on a hijacked connection (reset, upgrade) is not waited for, and its
  event may come after the report. `ReportIsComplete` leaves it out.
- When a request fails, or the limit is reached, while the program drains after
  a signal, the report names that as the reason (`stopReason` asks the cause first).
  `StopReasonIsTrue` says that the reason happened, not that it came first.
- `inflate` repeats references to objects and arrays, and a later operation changes them in place
  (mutate.go:207): a place its path does not select changes with the one it does (`nullify` at
  `a.0.b`), and a `*` acts once per reference (`stretch` applies its factor several times, `drop`
  at `a.*.b.0` removes several elements). `MutationsActOnEachPlace` speaks of operations on
  documents that are trees, which one is until objects or arrays were inflated.
- A `max_bytes` of 2^63 - 1 passes `Validate`, and `maxBytes + 1` overflows
  (mutate.go:66): the mutation then reads nothing. The models' integers are unbounded.
- After a stall longer than its bytes take, `bandwidth` owes nothing and the next
  bytes come in a burst, up to the average rate; `BodiesArrive` states the bound that holds.
- The dashboard drops events with an ID it has seen (app.js:92), so after another
  client's reset it ignores events until the IDs have caught up.

## 5. What is proved

All for every set of rules, files, callers, keys, requests and contents, and for
every bound.

**RuntimeControl_proofs**, from `ConfigsAssumption`, `CallersAssumption` and
`NoneAssumption`. The inductive invariant is TypeOK, the three invariants of the
table, and `CallOfStep`: a caller's step and the arguments of its call belong
together, and a caller at `swap` holds a loaded snapshot, publishes a file that
compiles, or toggles a rule that the loaded file has. `SwapsWhatItRead` makes the
others inductive: without it a swap could publish overrides computed from another
file. From the invariant follow
`TypeCorrect`, `NoLostUpdate`, `OverridesAlwaysContradictFile`,
`ActiveConfigAlwaysCompiles`, the action property `TogglesSurviveReloads`, and
`Linearizable`: initial states map to initial states of RuleToggles, and each step
to a step or a stutter, `CompareAndSwap` to `ApplyReload` or `ApplyToggle`.

**DecisionCounters_proofs**, from `BoundsAssumption` and `KeysAssumption`. The
invariant orders the counters of a key by the restarts they were made after
(`EpochsOfCounters`: at most one between two restarts, and the one in the map after the
last), says that a request holds a counter made after the restarts it knew
of when it was called (`EpochsOfRequests`), and that indexes were drawn in order
from counters that exist (`EpochsOfDraws`, `OrderOfDraws`). From it follow
`TypeCorrect`, `RestartedSequencesEnd`, `IndexesAlwaysAdvance` and
`NoIndexIsEverSkipped`.

**ConfigWatcher_proofs**, from the module's three assumptions. `NoSaveIsForgotten`
is inductive together with TypeOK and `ReloadIsCurrent`: the version in force is not
newer than the one read last, which is the candidate's while it is applied. From it
follow `TypeCorrect`, `NoSaveIsEverForgotten` and `LastValidConfigStaysActive`.

**DataPlane_proofs**, from `PartsAssumption`, which is what its two parts assume,
and `FilesAssumption`, which is what validate.go:45-60 requires of a scenario. The proofs of the
parts are taken over, not repeated: a step of DataPlane is a step of RuntimeControl and
a step of DecisionCounters or leaves a part alone, so it keeps their inductive
invariants (`Writers!IInv`, `Drawing!IInv`). What is added relates the two.
`FloorsAreOld`: the counter in the map was made after every reset that has returned, of its
scenario or of all.
`DrawnInForce`: when the counter in the map was drawn from under the definition then in force,
that definition still is in force, or a reload has still to restart the scenario. `ArrivedInForce`:
a request that arrived at a quiet time, and can reach the counter of such a draw made
before, captured the definition of that draw. Follow `TypeCorrect`, `ResetsEndSequences`,
`QuietRequestsContinueTheirOwn`, and `StepsAlwaysFollow`, which needs besides that
indexes do not skip, and that quotient and rest of a division are unique.

**EventBus_proofs**, from `CapacityAssumption`, `BoundsAssumption` and `NoneAssumption`,
for any capacity of the ring and of a channel. The parts of the invariant: what the holder
of the mutex has left to do (`HolderKnows`), the ring has the latest events at their slots
(`RingHoldsLatest`), a stream that is not connected has nothing (`IdleStreamsAreEmpty`), what a
stream received comes before what it is still to replay, and that before its channel
(`OrderOfStreams`), nothing in a channel is ahead of the next event (`NothingIsAhead`), a
channel has nothing of before a reset but what that reset is to drain
(`ChannelsAreCurrent`), and every event since the subscription is received, to be
replayed, in the channel, counted as lost, or in the hands of the holder
(`EveryEventCounts`). The last is what makes `LossesAreCounted` inductive: between `Evict`
and `Retry` an event is in neither place. Follow `TypeCorrect`, `NoSendToClosedChannel`,
`RetryFindsRoom`, `NoSilentLoss`, `OrderedDelivery`, and `BusImplementsFeed`: every step
maps to one of EventFeed or to a stutter.

**RequestPipeline_proofs**, from `InputsAssumption` and `NoneAssumption`, for every
chain and status. The invariant says what a request has been through at each `pc` (`Phases`,
`TodoOfPhase`), that errors and failures account for each other as `ErrorsAreProxyFailures` says, once the request
ends (`ErrorsAreAccounted`), and that there are none before (`ErrorsSoFar`), that the status the
writer keeps is the one sent (`StatusIsSent`, but for the finding about interim
responses), that a response is cut only by a fault on its body or
a client that left (`CutsHaveReasons`), and that the event says what is so at the end (`EventIsFinal`).
Follow `TypeCorrect`, `EveryRequestIsReported`, `ErrorsAreFailures`, `AnsweredLocally`
and `ShutdownDrains`.

**Lifecycle_proofs**, from `OptionsAssumption` and `NamesAssumption`, for any number of
requests and any limits. The invariant follows main's goroutine through its stages
(`StagesOfShutdown`), a server's result is in the channel at most once
(`ResultsAreOnce`), main left its select for a reason (`SelectHadReason`), the recorder
has the requests that published (`RequestsAreRecorded`), its callbacks ran for what it
has (`RecorderIsRight`), the data plane has drained unless its deadline passed
(`DataPlaneIsDrained`), only what waits for a peer is left when the deadline passes (`OnlySlowIsLeft`), the
report is of what the recorder had (`ReportIsOfRecorder`), and the exit code of the errors
(`ExitCodeIsOfErrors`). What fails on a hijacked connection (`HijackedFailures`) is told apart
throughout: it may grow after the drain. Follow `TypeCorrect`, `NoRequestIsMissing`, `ReasonIsBorneOut`,
`ExitCodeIsExplained` and the action property `NothingQuickIsCut`.

**Algorithms_proofs**, for rules, paths, settings and lists of any size. What a loop or a
recursion computes is no induction here, but a table: a function with the value of
every corner. `EndsIsTable` shows that the corners from which the rest of a text can be matched
are a table the code could compute, so that one exists (`TableExists`), and `OneTable` that two
tables agree, by the first corner at which they do not (`Least`). So
`MatchString` decides the same as the reference, which maps the letters of a text to
those of the pattern in order, and `matchesSegments` the same for segments and "**";
`GlobsMatchAsDocumented` is the README's rule for the choice of the rule. On validation,
from `NaNAssumption`: `ValidRulesPlay` (after `DefaultsAreSettings`: the defaults leave
settings of a file), `ValidNamesAreUnique`, and `ParsedDirectivesPlay` for headers and
steps, which pass by `Validate`. A label is built fault by fault (`LabelsOneMore`): it names what was
asked for, once and in the order of the chain (`NamesOfLabel`, `LabelFollowsChain`), each of its
directives has the settings it was made from, and so it parses to the same faults and to itself
(`LabelsParseBack`), `off` included (`OffIsOff`). For the readers of
a body, from `BufferAssumption`: a Read keeps it so that the three counts of bytes agree and that the
clock shows the later of rate and pause (`Kept`, `ReadKeeps`), returns a byte unless it ends,
and does not pass the byte a pause comes after; so the log of a copy has the moment
the pause begins (`LogKept`, `LongerIsKept`), ends by the Read after the last
byte, and `BodiesArriveInFull` follows for all bodies, faults and buffers. The theorems say this of
every input of Algorithms, from its assumptions on the constants (`RulesAssumption` to
`CopiesAssumption`): `RulesAlwaysMatch`, `ValidFilesPlay`, `LabelsAlwaysMeanTheirDirectives` and
`BodiesAlwaysArrive`.

Only model-checked, because it is out of the prover's reach: all liveness
(`SomeCallFinishes`, `SavedEditsAreApplied`, `InjectedWaitsEnd`,
`AbandonedRequestsEnd`, `RunEnds`), `MutexIsReleased` for its ENABLED,
and `MutationsActOnEachPlace`, whose code is recursive over documents: what it computes
would take an induction over them. These are the seven properties of the runs without a theorem.

## 6. Plan

Built: RuntimeControl with RuleToggles, DecisionCounters, DataPlane (the
composition), RequestPipeline, EventBus with EventFeed, ConfigWatcher, Lifecycle, and the
four modules of algorithms, with the proofs of the first seven and of three of the
four, by way of Algorithms. Left, in this order:

1. `POST /api/reset` over EventBus and DecisionCounters, and the
   dashboard's feed on EventBus, with reconnects and another client's resets.
2. The classes of the tally and the percentiles of the report.

## 7. What is not modelled

YAML and JSON encoding, logging, the dashboard's rendering, CORS headers, loopback
addresses, profiles and the npm wrapper have no state that steps of several actors
share. The seeded random decisions are left out: which draw a request makes (its
index) is modelled, the distribution that turns it into a decision is out of
TLC's reach. Of the configuration, the URLs of `target` and `cors_origins` are
left out, which is the parsing of URLs, and so are the line numbers of errors.
Of the characters of a path the star alone is told apart: that a pattern's "?" is
an error, and that a star in a segment stops at a line feed, is left out.
The parser of flags is formatting around the defaults that Lifecycle and ConfigWatcher
have as constants. The tally's classes and percentiles are counts and sorts of
one list under one mutex.

`net/http`, `fsnotify`, `sync.Map`, timers and channels are modelled as
the code uses them and assumed to keep their documentation.
