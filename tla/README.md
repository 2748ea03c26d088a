# A TLA+ model of the featured.io operator

featured.io is a Kubernetes operator.  For every `FeatureFlag` it sees to it that the
ConfigMap named in the flag's spec exists, owned by the flag.  This directory holds the TLA+
modules that model the operator, the TLC runs that check them on small instances, and the
theorems TLAPS proves about them for all instances.  Paths below are relative to `src/`.

1. [The system](#1-the-system)
2. [The modules](#2-the-modules)
3. [The runs](#3-the-runs)
4. [Fairness](#4-fairness)
5. [What is proved](#5-what-is-proved)
6. [Where code, comments and tests disagree](#6-where-code-comments-and-tests-disagree)
7. [What is left out](#7-what-is-left-out)
8. [Plan](#8-plan)

## 1. The system

| Component | Code | State it keeps | Operations | Modelled in |
|---|---|---|---|---|
| FeatureFlag controller | `pkg/controllers/feature/controller.go` | work queue, what each worker has read | event handlers, `processNextWorkItem`, `syncHandler`, `updateFeatureFlagStatus` | `FeatureController` |
| Informers | client-go, set up in `pkg/generated/informers` | cache, pending watch events, pending notifications | list, watch, notify, resync | `Informer` |
| Work queue | client-go, used at `controller.go:87-244,345-356` | queue, dirty and processing sets, delayed keys, failure counts | Add, Get, Done, AddRateLimited, Forget | `WorkQueue` |
| API server, users, garbage collector | external | FeatureFlags and ConfigMaps | create, edit, delete, collect | `Cluster` |
| ConfigMapControl | `pkg/controllers/feature/config_control.go` | nothing but its caller's object | Create, Update, CreateOrUpdate, Delete | `ConfigMapControl`, `ConfigStore` |
| Operator process | `cmd/main.go`, `cmd/app`, `FeatureController.Run` | stage of start-up, stop channel, signal channel, goroutines | start, signals, shutdown | `OperatorLifecycle` |
| Role of the chart | `helm/featured-operator/templates/rbac.yaml` | rules | what the start-up may list and watch | `OperatorLifecycle` |
| Informer factory | `pkg/generated/informers/externalversions/factory.go` | maps of informers and started informers, a mutex | InformerFor, Start, WaitForCacheSync | `InformerFactory` |
| FeatureFlag clientset, list and watch | `pkg/generated/clientset/versioned/typed`, `pkg/generated/informers/.../featureflag.go` | the clients' copies, the informer's cache | Get, Create, Update, UpdateStatus, Patch, Delete, DeleteCollection, List, Watch | `FeatureFlagAPI` |
| Listers, API types, deep copies | `pkg/generated/listers`, `pkg/apis/feature/v1alpha1` | shared objects in memory | Get, List, DeepCopy | `SharedObjects`, `ValueCache` |
| Test summary | `test-summary.go` | counts, failed tests, collected output | read `go test -json` events, report, exit | `TestSummary` |
| Acceptance test library | `acceptance_test/testing` | namespaces and releases in a cluster | create, nuke, clean up | no |
| Metrics | `pkg/controllers/feature/metrics.go` | counters nothing increments | register | no |
| Clientset construction, fakes, scheme, scripts, CI | `pkg/generated/clientset`, `hack` | none | none | no |

How they interact:

    users ──► API server ──watch──► informer cache ──notification──► event handlers
                 ▲   ▲                    │ lister                        │ Add
    collector ───┘   │                    ▼                               ▼
                     └── requests ── workers (syncHandler) ◄──Get── work queue
                                          └──AddRateLimited──► back-off ──┘

Every arrow is a delay in which something else can happen.  A worker decides from caches
that are behind the API server; an event handler resolves the owner of a ConfigMap in the
cache of the *other* informer; a request may take effect although its answer is lost; a
second worker may be given a key while the first one still holds its flag; and the process
may die between any two of these steps with nothing persisted.  The status update writes the
whole object back as the Go types have it, and the event it causes enqueues the flag again.
The event handlers know objects by name while the API server knows them by UID and resource
version.

What makes the components correct:

- **Controller.** A flag is processed by one worker at a time; a failed key is retried; a
  flag without its ConfigMap is never forgotten; what users set of a flag and write of a
  ConfigMap survives; its own writes do not keep it busy; the cluster converges when users and
  faults leave it alone.
- **Work queue.** Nothing added is lost or handed out twice at once, and nothing starves.
- **ConfigMapControl.** Each call is atomic towards other writers, and success means the
  call took effect.
- **Process.** Workers start on synced caches only; the operator comes to serve; a signal
  ends it whatever the goroutines do.
- **Informer factory.** All who ask share one informer per type; it runs once however often
  `Start` is called; waiting for the caches covers all of them and blocks nobody else.
- **Clientset, list and watch.** No request on a stale copy undoes somebody's edit; the
  cache, filled object by object, follows the versions of the store and misses none that
  stays; the lister never returns an older version of an object than before.
- **Listers and deep copies.** Shared pointers behave like values to all who change only
  deep copies.
- **Test summary.** However the events of packages and tests interleave, the exit code, the
  counts and the report tell of every failed test.

`PROJECT.json` lists the hazards with the line where each bites and the property that
covers it.

## 2. The modules

| Module | What it is | Extends / instantiates |
|---|---|---|
| `Cluster` | FeatureFlags and ConfigMaps of one namespace, users, garbage collector | |
| `Informer` | one shared informer: API server → cache → handler, with relist and resync | |
| `WorkQueue` | the rate-limiting work queue | |
| `FeatureController` | handlers and workers, and their composition with the above | extends `Cluster`, `WorkQueue`; two instances of `Informer` |
| `ConfigStore` | the abstract specification of `ConfigMapControl`: atomic calls | |
| `ConfigMapControl` | clients calling it, request by request | instantiates `ConfigStore` |
| `OperatorLifecycle` | the process from start to exit, under the Role it is given | |
| `InformerFactory` | goroutines calling one factory, its mutex and its informers | |
| `FeatureFlagAPI` | the requests of the clientset, and the reflector of the flags' informer | |
| `ValueCache` | the abstract specification of lister and deep copies: flags are values | |
| `SharedObjects` | memory cells, pointers and the generated deep copies | instantiates `ValueCache` |
| `TestSummary` | `test-summary.go` reading the events of `go test` | |
| `MC...` | small instances for TLC | the module of the name |
| `...Proofs` | lemmas and theorems | the module of the name, `TLAPS` |

A definition named `X_Suffix` before a definition `X` is a mutant: `X` with a plausible bug.
No specification uses it.  It shows that the property listed with it in `PROJECT.json` can be
broken by the code, by substituting it for `X`.

### FeatureController

| Code | Model |
|---|---|
| `NewFeatureController`, event handlers `controller.go:117-148` | `HandleFlag`, `HandleConfigMap` with `enqueueFeatureFlag`, `handleObject` |
| `Run` `controller.go:157-181`, `operator.go:74-92` | `Start`, `StartWorkers`; `Crash` for the end of the process |
| `processNextWorkItem` `controller.go:193-244` | `GetItem`, and after `syncHandler` `Requeue` or `ForgetItem`, then `FinishItem` (the deferred Done) |
| `syncHandler` `controller.go:249-329` | `LookupFlag`, `LookupConfigMap`, `CreateConfigMap`, `RequestFails` |
| `updateFeatureFlagStatus` `controller.go:331-343` | `updateFeatureFlagStatus` |
| `newConfigMap` and `IsControlledBy` | `RefTo`, `IsControlledBy` |
| list, watch and resync of the factories | `ListFlags`, `PopFlag`, `ResyncFlags`, ... |

`pc[w]` is the place of worker `w` between two accesses to shared state: a step reads one
cache, sends one request or calls the queue once.  `item[w]` is the key it holds and
`flag[w]` the flag as its lister had it.  A FeatureFlag is its UID, its version and the
ConfigMap name of its spec; a ConfigMap is its controller owner reference, the only part of it
the controller looks at or decides.  `revision` numbers the versions of all flags, and the
number of its creation is a flag's UID.

The controller's PUT (`controller.go:335-341`) sends the Go struct.  Of a flag that a user has
created from a manifest (`docs/examples/example-featureflags.yaml`) it is not what is stored:
`status` and `replicas` are added, for their tags have no `omitempty` (`types.go:32,38,43`) and
the chart's CRD has no status subresource, and fields of the spec that `FeatureFlagSpec` does
not have are dropped.  `raw` says that a stored flag is not in this form: users create flags
raw and may make them raw again (`"fields"` in `Disturbances`); the PUT stores it with `raw` FALSE, as
a new version with an event.  A PUT of what is stored already has neither.

### Informer

Two hops: `Pop` moves a change from the watch into the cache and produces a notification,
`Notified` is the handler's run.  So handlers lag behind the cache and the cache behind the
API server, each informer on its own, which is where the ordering hazards come from.  Streams
are kept per object because client-go orders deltas per object.  `List` also models a lost
watch: what it had not delivered is never seen.  It takes what was queued for the cache as
drained when the list comes; `FeatureFlagAPI` models that queue.  `Resync` hands out every cached object again.

### ConfigMapControl

Each client owns an object (a `*corev1.ConfigMap`), calls a method
and goes through its requests: `GetConfigMap`, then `CreateConfigMap` or `UpdateConfigMap`.
The API server refuses a create of an existing name or of an object with a resource version,
and an update of an outdated one.  A request can fail, or take effect and have its answer
lost.  The property `AtomicCalls` is the specification of `ConfigStore` under the
refinement mapping in the module: contents without versions, the call a client is in, and the
set of clients whose request has taken effect.  The controller itself calls `CreateConfigMap`
only, each time with a new object from `newConfigMap`; that call is the action
`CreateConfigMap` of `FeatureController`.

### OperatorLifecycle

`main` is the next step of the main goroutine, `handler` of the signal goroutine, `informer`
and `worker` of the others.  `SetupSignalHandler` comes after the configuration is read, so a
signal before it kills the process.  The channel holds two signals.  `WaitForCacheSync` looks
at the caches once before it looks at the stop channel (client-go's `PollImmediateUntil`), and
at both from then on.  Workers loop in `wait.Until`, which looks at the stop channel before
each `runWorker`.  The work queue is a set of keys here; after `ShutDown` it takes nothing in
and hands out what it still holds.

`Rules` is what the Role grants: `ChartRules` is the chart's, `TestedRules` adds what the
acceptance test `rbac_test.go` asks for, `configmaps` and `featureflags` without an API group.
A list the Role does not grant is never answered, so `CacheFilled` needs `Permitted`.

### InformerFactory

| Code | Model |
|---|---|
| `InformerFor` `factory.go:147-166` | `Lookup`, then `Create` under the mutex when there is none |
| `Start` `factory.go:111-121` | `BeginStart`, `StartOne` per informer in any order, `EndStart` |
| `WaitForCacheSync` `factory.go:124-143` | `Snapshot` under the mutex; `Check`, `Poll`, `EndWait` without it |
| the informers' `Run` and `HasSynced` | `Inform` |

A caller is a goroutine with one call at a time, a stop channel or a type as its argument.
An informer is named by its type and its maker, so that a second one for the same type would
be another one.  `handed`, `promised` and `due` are history variables: the informers
that were handed out, those handed out before a `Start` that has returned, and what was handed out
or promised when a call began.

### FeatureFlagAPI

`history` has the store after every write, so that a version is an index into it and a list may
come from a server that is behind.  Of the contents of a flag only the set of clients whose edit
it holds is kept.  A client reads a flag, edits its copy and sends it; the answer may be lost.
`Update` is a PUT with the version of the copy; `Patch` is applied to what is stored;
`DeleteCollection` is one request, on which the server lists and then deletes one by one
(`DeleteNext`).  The chart's CRD has no status
subresource, so `UpdateStatus` finds nothing (the controller uses `Update` for that reason,
`controller.go:337-341`).  The contents of a flag are the fields its Go type has; that a typed
`Update` drops all others is left to `FeatureController`.

The reflector lists through `ListFunc` and watches through `WatchFunc`, which pass its options
on: a list is not older than the version last seen, and a watch starts from it unless the
server has forgotten it (`Compact`).  What it learns goes into a queue with one entry per
object, in which younger deltas replace older ones (`queued`), and from there object by object,
in any order, into the cache the lister reads (`Pop`).  So the lister may return one flag as of
version 3 and another as of version 1.  A list is compared with the cached objects only
(`Replace`; client-go v0.18.1 of `go.mod:17`, `DeltaFIFO.Replace` with the indexer as its known
objects): an object that was queued but not yet cached, and is gone when the next list comes,
is put into the cache and stays there until the next list, or event of its name.  `missed` are these
objects, and `CacheFollowsOneVersion` and `CacheCatchesUp` except them.  `Pop` takes
all deltas of an object at once; that the lister may be asked between two of them is left out.

### SharedObjects and ValueCache

Memory is a sequence of cells that only grows.  A cell has room for one flag and for the
`Parts` it may point to: the int32 of `Spec.Replicas`, and the maps and slices of `ObjectMeta`
(labels, annotations, owner references), which `ObjectMeta.DeepCopyInto` copies and which are
taken as one.  `at[p]` is the address of the cell that has part `p`, so that a copy of the struct
alone would share it.  `Reach` is what a pointer leads to.  `Store`
is the informer replacing the indexer's pointer; `Get` and `List` are the lister's and return
the indexer's pointers; `Copy` is the deep copy of a flag or of a list; `Modify` writes through a copy.
`ActsLikeValues` maps this to `ValueCache`, where there are no pointers.  That is what
`FeatureController` assumes when it keeps the flag of a worker as a value, and what
"NEVER modify objects from the store" (`controller.go:332`) is for.

### TestSummary

`go test` is a part of the model: packages and tests start, print and end side by side, and a
package process may die with tests still running.  Every event is handled as `run` does:
collected output is keyed by package and test, counts leave out the verdicts of packages but not their
skips, and the end of the input decides exit code and report.

## 3. The runs

| Run | Instance | Checks |
|---|---|---|
| `flag_schedule` | 1 flag, 2 names, 2 workers, 3 user requests on flags and ConfigMaps, no fault, lag 1 | `TypeOK`, `SyncInv`, `NoConcurrentSync`, `BackOffIsScheduled`, `StaleCreateIsInFlight`, `WorkScheduled`, `OneWritePerRequest`, `UserSpecPreserved`, `ConfigMapsNotOverwritten` |
| `recovery` | 1 flag that has its ConfigMap, 1 worker, 2 user requests more, 1 fault of any kind, lag 2 | `StaleCreateIsInFlight`, `BackOffIsScheduled`, `UserSpecPreserved`, `Converges` |
| `takeover` | 2 flags naming 1 ConfigMap, 1 worker, 1 user request more, lag 2 | `WorkScheduled`, `NoStarvation`, `Converges` |
| `config_map_calls` | 2 clients, 1 name, 2 contents, 4 calls, 1 fault | `TypeOK`, `AtomicCalls`, `ReplacesWhatWasFound` |
| `config_map_reuse` | the same | `CreatesWhenMissing`, violated |
| `lifecycle` | 2 workers, 2 keys, 3 signals, the Role as tested | `TypeOK`, `WorkersSeeSyncedCaches`, `ComesToServe`, `SignalEndsProcess`, `ServingStopsCleanly` |
| `shutdown_during_work` | the same | `WorkersFinish`, violated |
| `role_of_chart` | the same with the chart's Role | `ComesToServe`, violated |
| `informer_factory` | 2 goroutines, 2 types, 2 stop channels, 4 calls | `TypeOK`, `OneInformerPerType`, `StartedOnce`, `WaitCoversStarted`, `CallsReturn` |
| `flag_api` | 2 clients, 2 names, 3 writes, 1 fault | `TypeOK`, `CacheFollowsOneVersion`, `EditsSurvive`, `ListersGoForward`, `CacheCatchesUp` |
| `object_copies` | 2 readers, 2 flags, 4 cells | `CopiesAreApart`, `ActsLikeValues` |
| `test_summary` | 2 packages of 2 tests, 2 lines each, 2 failures listed | `ExitTellsOfFailedTests`, `CountsAreExact`, `FailuresShowTheirOutput`, `FailuresAreReported` |

What they show:

- `NoConcurrentSync` holds although handlers and back-offs add a key while it is processed:
  the queue's dirty set and the deferred `Done` are both needed (mutant: `Done` right after
  `Get`).
- `StaleCreateIsInFlight`: a create that the API server would refuse as `AlreadyExists` is sent
  only when the ConfigMap is on its way into the cache, so the retry sees it.  This needs
  *both* caches to be synced before the workers start; `recovery` checks it across a crash.
- `WorkScheduled`: in every reachable state a cached flag whose ConfigMap is missing in the
  cache is queued, held, in back-off, or about to be enqueued by a notification.  Its runs
  leave out lost watches and removed owner references, because there it is false: such a
  deletion produces no event that names the flag, and only the periodic resync finds it.
  `recovery` checks that it does.
- `Converges` in `takeover`: the flag that lost the race for a ConfigMap gets it when the
  owner goes away, through the garbage collector and its own back-off.
- `OneWritePerRequest`: the first PUT of a raw flag is an event, the event enqueues the flag and
  the next sync PUTs it again.  That this comes to an end, also when two workers, stale caches and
  resyncs add syncs of their own, rests on the PUT being the same as before (mutant: it writes
  something new each time, as a heartbeat in the status would).
- `UserSpecPreserved` rests on the resource version in the PUT (mutant: a forced write).  It is
  about the fields `FeatureFlagSpec` has, and about flags not coming back; other fields
  the PUT does drop (section 6).  It and
  `BackOffIsScheduled` are checked with two workers and no fault, and with one worker and faults;
  the theorems of section 5 cover both at once.
- `AtomicCalls`: a `CreateOrUpdateConfigMap` whose two requests are separated by another
  client's write either fails or takes effect at one moment, like one atomic call.
- `CallsReturn`: a goroutine waiting for caches does not keep others out of the factory
  (mutant: the mutex is held while waiting), and waits for started informers only (mutant: for all
  requested ones).  The exception in it is real: an informer stopped before it synced is not run
  again by a later `Start`, and who waits for it with a channel that stays open waits for ever.
- `EditsSurvive` rests on the resource version in `Update`; `ListersGoForward` and
  `CacheFollowsOneVersion` on `ListFunc` and `WatchFunc` passing the reflector's options on
  (mutants: they do not).  Neither says that the lister returns one state of the store: it does not.
- `ActsLikeValues` and `CopiesAreApart` need the deep copies of the replicas and of the metadata:
  without one of them a worker writes into the cache of all others.
- `ExitTellsOfFailedTests`: the exit code counts failed tests, not failed packages.  A package
  whose process dies between tests does not show in it; the property says so.

Bounds, all of them constants in the `.cfg`: `MaxUserWrites` (requests of users),
`MaxFaults`, `MaxLag` (notifications of one object its listener may be behind),
`MaxCalls`, `MaxSignals`, `MaxVersion` (writes), `MaxCells` (allocations), `MaxLines` (lines of
output), `MaxReported` (10 in the code), and the sets.  They are large enough for the cases
that matter: three user requests create, rename and delete a flag, or delete and create it
again under a new UID while an event of the old one is pending; two workers are enough for two
to meet, and the properties relate at most two.  The `takeover` run starts from the conflict itself
(`ConflictInit`: the first flag owns the ConfigMap, the second is in back-off), a state that
three requests lead to: both flags are created, the second under another ConfigMap's name that
is then changed.  The `recovery` run starts from a flag that has its
ConfigMap (`OwnedInit`, one request), so that two more can remove the owner reference
and then delete the ConfigMap, or delete the flag and create it again.  Both begin with the requests
so far counted.
The temporal runs need a `MaxLag` of 2: with 1 the periodic resync could keep the notification
slot of an object full and the bound, not the code, would stop the cache.  `MaxSignals` exceeds
the channel's buffer, so that a signal is dropped too.  Four calls of the factory let two goroutines
ask for types, start and wait in all orders, or start again after a stop.  Three writes create,
delete and create a flag again, or edit it twice, or leave two flags at different versions in
the cache.  One fault loses an answer, or ends a watch, so that the reflector watches again from
where it was or lists again, perhaps behind; or it forgets the version a first watch would start from.
(With two faults the same properties hold, in three times the time.)  Four cells hold
two flags and a list's copies of both, or a flag, its new version and copies of
two readers; the API server sends flags without, with one and with both of their parts
(`Received`).  Two listed failures of four tests reach the limit and pass it.
Symmetry (of workers, readers, clients, names and contents) is used in runs without liveness
properties only.

Deadlock checking is off where the model may really stop: users, calls and faults are
bounded, the process of `OperatorLifecycle` ends, and so does the input of the summary.

## 4. Fairness

Weak fairness is assumed of what the code or the platform runs on its own: each goroutine is
scheduled (workers, handlers, reflectors, the main and signal goroutines), the API server
answers lists and requests and delivers watches, back-off timers fire, the garbage collector
collects, Kubernetes restarts a dead process (`Start`), and the flags' informer resyncs every
ten minutes (`operator.go:73`).  Nothing is assumed of users, signals or faults.  No strong
fairness is used: the queue is first in, first out, so a worker that keeps taking items comes
to every key, which is what `NoStarvation` checks.

In `InformerFactory` a goroutine inside a call goes on, and lists of running informers are
answered; nobody owes a call, and nobody owes the closing of a stop channel.  In
`FeatureFlagAPI` the reflector runs and the server answers it (`WF_vars(Reflect)`), and the
informer takes each queued object in the end (`WF_vars(Pop(n))`); clients owe nothing, and watches may end as long as faults are left.

A request that fails is a bounded fault; a controller whose every request fails for ever
does not converge and is not claimed to.

## 5. What is proved

For any sets of flags, names, workers, clients, goroutines and so on, and any bounds, from the
`ASSUME`s of the modules alone (`None` and its like are distinct from real values, bounds are
natural numbers):

| Module | Theorem | States |
|---|---|---|
| `FeatureControllerProofs` | `TypeCorrect` | `Spec => []TypeOK` |
| | `SyncInvariant` | `Spec => []SyncInv` |
| | `WorkersExcludeEachOther` | `Spec => []NoConcurrentSync` |
| | `FailedKeysAreRetried` | `Spec => []BackOffIsScheduled` |
| | `RetriesSeeTheConfigMap` | `Spec => []StaleCreateIsInFlight` |
| | `NoFlagIsForgotten` | `Spec => []WorkScheduled`, under `Lossless` |
| | `UsersKeepTheirEdits` | `Spec => UserSpecPreserved` |
| | `SyncsSettle` | `Spec => []OneWritePerRequest` |
| | `ConfigMapsAreKept` | `Spec => ConfigMapsNotOverwritten` |
| `ConfigMapControlProofs` | `TypeCorrect` | `Spec => []TypeOK` |
| | `CallsAreAtomic` | `Spec => AtomicCalls`, the refinement of `ConfigStore` |
| | `UpdatesReplaceWhatWasFound` | `Spec => ReplacesWhatWasFound` |
| `OperatorLifecycleProofs` | `TypeCorrect` | `Spec => []TypeOK` |
| | `WorkersStartSynced` | `Spec => []WorkersSeeSyncedCaches` |
| `InformerFactoryProofs` | `TypeCorrect` | `Spec => []TypeOK` |
| | `InformersAreShared` | `Spec => []OneInformerPerType` |
| | `InformersRunOnce` | `Spec => []StartedOnce` |
| | `WaitingCoversStarted` | `Spec => WaitCoversStarted` |
| `FeatureFlagAPIProofs` | `TypeCorrect` | `Spec => []TypeOK` |
| | `ListersFollow` | `Spec => []CacheFollowsOneVersion` |
| | `NoLostEdits` | `Spec => EditsSurvive` |
| | `VersionsInOrder` | `Spec => ListersGoForward` |
| `SharedObjectsProofs` | `CopiesShareNothing` | `Spec => []CopiesAreApart` |
| | `PointersActLikeValues` | `Spec => ActsLikeValues`, the refinement of `ValueCache` |
| `TestSummaryProofs` | `ExitCodeIsTrue` | `Spec => []ExitTellsOfFailedTests` |
| | `EveryTestCountsOnce` | `Spec => []CountsAreExact` |
| | `FailuresAreShown` | `Spec => []FailuresShowTheirOutput` |
| | `NoFailureIsHidden` | `Spec => []FailuresAreReported` |

These are all the invariants, action properties and refinements of the passing runs.

**Controller.** None of the properties is inductive alone.  `SyncInv` adds what they need:

- `QueueInv` (the queue holds the dirty keys that are not processed, each once) and `HeldKeys`
  (the processing keys are exactly those the workers hold).  Without them nothing stops `Get`
  from handing out a key that a second worker has.
- `Settled`: a worker about to call `Done` has forgotten its key or scheduled it.  Without it
  `Done` could take the last place that still knows a failing key.
- `VersionsAreUnique`: of all copies of a flag (stored, on the watch, cached, read by a
  worker) two with one version are equal.  With it a PUT whose version is the stored one
  writes the stored object back, but for its form (`PutChangesTheForm`), which is why a stale
  worker cannot undo an edit.  `SyncsSettle` counts with it: each request of a user pays for a
  version of its own and for one PUT that brings the flag into the form of the typed clientset
  (`WritesArePaidFor`), after which a PUT writes nothing until the next request.
- `WorkersAreSynced` and `FollowsStore`: workers run on caches that have listed, and a listed
  cache holds what is stored, or the last change on its watch does.  A create that finds the
  ConfigMap stored therefore finds it in the cache or on the watch: `StaleCreateIsInFlight`.
- `UidsAreUnique` and `RefsAreOld`: a UID belongs to one flag, and the ConfigMaps that carry
  it in their owner reference name that flag.  `handleObject` enqueues by the name in the
  reference while `IsControlledBy` compares the UID; without this the deletion of a ConfigMap
  that a worker accepted as the flag's could enqueue another flag.
- `FlagIsCurrent` and `DeletesAreOfTheGone`: a worker in the middle of `syncHandler` has the
  cached flag, or its key will be processed again; and a deletion is never the last a handler
  is told of a flag that is cached.  A worker on an old spec thus never ends the attention that the
  new spec needs.
- `NothingForgotten`, with `NoneReplaced`: a cached flag is pending, or in a worker that has yet
  to look at its ConfigMap, or `Guarded`: its ConfigMap is cached, on the watch or in a pending
  notification under an owner reference to it, so that the deletion will be told to a handler
  that knows whom to enqueue.  `NoneReplaced` says that the watch shows a deletion before it
  shows a successor, for else the successor's update would hide whose ConfigMap went.

The last part holds under `Lossless`: no watch breaks and nobody removes owner
references.  That is the condition on which the code itself can promise `WorkScheduled`, and
`NoFlagIsForgotten` states it as its assumption.  `flag_schedule` and `takeover` run
under it; `recovery` does not, and checks that the resync repairs what got lost.  All other parts of
`SyncInv` hold with every disturbance, crashes included.

The argument is by kind of step: `StepKinds` sorts the actions of `Next` by what they do to
queue and workers, `NextCopies` shows that a step makes no copy of a flag other than
by copying or with a version of its own, and one lemma per part of the invariant follows.
`OwnSteps` separates the steps of one worker from what the others see, and `QueueKeeps`,
`PendingStays` and `GuardedStays` say that a step may end the attention to a flag only by
replacing it with another kind.  `InformerProofs` holds the facts about an informer, stated once
and instantiated for both; those about the queue come first in `FeatureControllerProofs`.

**ConfigMapControl.** `ControlInv` says what a client's place in its call implies: the request
it is about to send is the one its call asks for, and a ConfigMap it has found had the version it
now sends.  `StepImplementsStore` then maps each step to a step of `ConfigStore` or to none: the
request that takes effect is where the call takes effect, the others change nothing a caller
could tell.  An update that the server accepts met the version that was found, so that nobody
had come between.

**Operator process.** `LifecycleInv` ties the stages together: no handler before
`SetupSignalHandler`, synced caches at the launch of the workers, and workers only while `Run`
serves or after it.  Since an informer that has synced stays so, workers see synced caches whatever
signals come and whatever the Role grants.

**Informer factory.** `FactoryInv` adds to the properties what each caller knows inside a call:
who is about to make an informer found none and holds the mutex (`LockedInv`), who starts informers
still has to visit those that are due, and who waits has an answer, or one to come, for each
that is due (`WaitInv`).  `RunInv` counts the runs of an informer exactly.

**Clientset, list and watch.** `HistoryInv`: each write changes one flag, a version of a
flag is the write that left it, and the flag is the same in all versions since.
`CopyInv`: what a client holds has lost nothing of the version it names.  So a PUT that
the server accepts holds all edits of the stored flag: `RequestSteps` shows that every request
is a creation, an addition of edits, or no write, and `DeletionSteps` that the others delete
(`Legal`).  `CacheInv` has for each object (`Followed`) that cache and queue add up to the
version seen, and that what is queued is cached already or younger than all the lister has returned.  An
event keeps it because it carries the one flag in which two successive versions differ
(`EventChangesOne`), a list because a flag that is not younger than the version last seen is
the one that was seen then (`OldState`).

**Listers and deep copies.** `MemoryInv`: two flags in memory never point to one part
(`PartsAreApart`), two names never have one flag (`NamesAreApart`), and the pointer to a copy
is given out once and is not the indexer's (`CopiesAreOwned`).  Together they are
`CopiesAreApart`.  The refinement follows because a write goes to a cell only the writer
reaches (`ModifyIsModify`), and because what is allocated leaves the value of all older pointers
alone.

**Test summary.** `SummaryInv` adds that the collected output of a test is what it has said
(`CollectsEverything`), and that the list of failures has each failed test once
(`FailuresAreListed`).  Of the sets that are counted the invariant says that they are finite, so
that no bound on packages or tests is assumed: they grow by one with each event.

Only model-checked: the liveness properties (`Converges`, `NoStarvation`, `CallsReturn`,
`CacheCatchesUp`, `ComesToServe`, `SignalEndsProcess`, `ServingStopsCleanly`), which are out of
the prover's reach.  TLC checks `SyncInv` in `flag_schedule`; on the instances of their
runs `MemoryInv` and `SummaryInv` hold too, without being listed there.

## 6. Where code, comments and tests disagree

- `config_map_reuse`: `CreateOrUpdateConfigMap` writes the stored resource version into the
  object of its caller (`config_control.go:92`).  Called again with that object after the
  ConfigMap was deleted, it finds none and creates it, with a resource version, which the API
  server refuses.  The comment at line 81 says "If no resource we need to create.", and the
  unit test creates an object with a resource version, which its fake client lets pass.
- `shutdown_during_work`: the comment of `Run` (`controller.go:153-156`) says it waits "for
  workers to finish processing their current work items".  It shuts the queue down and returns,
  and the process exits with workers in the middle of an item.  The next process repairs what is
  left (`recovery`).
- `role_of_chart`: the chart's Role (`rbac.yaml:9`) grants `configmaps` in the API group of the
  FeatureFlags.  ConfigMaps belong to the core group, so the operator may not list them: its
  cache never syncs and it never serves.  `rbac_test.go` requires that the account may list
  core ConfigMaps.  With the Role as the test expects it the operator comes to serve
  (`lifecycle`).

Three remarks without a run.  The PUT of `updateFeatureFlagStatus` removes from the stored flag
the fields its Go type does not have, such as the `spec.appSelector` that
`docs/examples/crd.yaml:18` declares, although the comments around it are about the status only
("we update the status block", `controller.go:320`; "ensuring nothing other than resource
status has been updated", lines 337-340); a user's edit of such a field lasts until the next
sync.  In the model that is `raw` becoming FALSE, and `UserSpecPreserved` does not claim it.

A first signal during the cache sync makes `Run` return an error,
and `app.Run` ends in `log.Fatalf` with exit code 1, although `operator.go:51` promises to
"handle the first shutdown signal gracefully"; `SignalEndsProcess` allows it.  The
counters of `metrics.go` are registered and served, but nothing increments them.

## 7. What is left out

- Several namespaces: keys are `namespace/name` and nothing in the code relates two namespaces.
- The branches of `processNextWorkItem` and `syncHandler` for malformed keys and of
  `handleObject` for foreign types and tombstones without an object: the handlers enqueue only
  keys `MetaNamespaceKeyFunc` made, and the typed informers deliver only their type.
- Durations: a back-off or resync happens at any time.
- Events, log lines, metrics, label and data contents of ConfigMaps.
- Requests of a crashed process that reach the API server after its crash, and a second
  replica of the operator: the chart runs one, and the code elects no leader.
- Renaming `Spec.ConfigMapName` leaves the old ConfigMap behind, owned by a live flag.  The
  code never deletes a ConfigMap and nothing says that it should.
- `ForResource` (a typed wrapper of `InformerFor`), list options, selectors and encodings of the
  clientset, and the registration of the API types.
- The metrics server (its error is ignored, `operator.go:49`), and values of command line flags.
- The acceptance test library: it formats command lines for helm, kubectl and docker and
  runs them; what it keeps is in the cluster.  Clientset construction, fakes, scripts and CI have
  no behaviour of their own to check.
- What `test-summary.go` echoes with `-verbose` and `-progress`, and the wording of its report.

## 8. Plan

Done: all modules of section 2 and the proofs of section 5.

What would come next:

1. An abstract queue (a set of keys handed out one holder at a time) that `WorkQueue` implements,
   and an abstract reconciler that `FeatureController` implements.
2. `TestNamespaces`: concurrent acceptance test runs that create, nuke and clean up namespaces
   (`test_helper.go`).
