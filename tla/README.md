# A TLA+ verification of the config-sync operator

The repository holds Helm charts and manifests of third-party software and one
program of its own: the operator in `src/operators/config-sync-zyql`, which
copies Secrets and ConfigMaps from a source namespace into target namespaces.
This project models that operator, checks it with TLC and proves most of its
safety with TLAPS.

## The system

| Part | Source | State it keeps | Operations |
|---|---|---|---|
| ConfigSync resource | `api/v1/configsync_types.go` | spec, status, finalizer, deletion timestamp (in the API server) | – |
| ConfigSyncReconciler | `controllers/configsync_controller.go` | one worker, its queue and timers | add the finalizer; prune and copy, once per period; clean up on deletion |
| SecretReconciler, ConfigMapReconciler | `secret_controller.go`, `configmap_controller.go` | a queue and a worker each | a changed source: stamp an annotation on the ConfigSyncs that want it; a deleted one: delete its copies |
| NamespaceReconciler | `namespace_controller.go` | a queue and a worker | a new namespace: stamp the ConfigSyncs that name it |
| Webhooks | `webhook.go` | none | refuse updates and deletions of copies by users |
| Manager | `main.go` | the process | wires the above together, one worker per controller |
| API server, informers (external) | – | objects with versions, watches, caches | reads come from caches, writes go to the server |
| Namespace controller (external) | – | namespaces being terminated | deletes what a namespace holds, then the namespace |
| Users (external) | – | – | create, edit and delete sources, copies and ConfigSyncs; create and delete namespaces |

How they interact. The controllers never call one another. They share the API
server: a watcher wakes the main controller by *writing* to a ConfigSync, which
is an event for the main controller. Every read comes from an informer cache
that may lag behind the server; every write is checked against the version
read, except `Delete`, which carries no precondition, and `Create`, which
needs a free slot. Returning an error puts the object back on the queue;
`RequeueAfter` sets a timer.

Hard behaviour, and what makes it correct:

* four workers, their caches and the users interleave at every call. Stale
  reads must not damage objects of users, undo edits, or resurrect copies;
* errors of single items are logged and dropped, errors of the loop are
  retried: copies must converge all the same, and the loop must never die;
* two processes run side by side while a deployment is rolled out (leader
  election is off), each with caches of its own;
* a namespace that ends is emptied by a controller the webhook knows nothing of;
* the process may crash between any two calls; nothing it has in memory
  survives, and events it has not seen are not sent again;
* deletion runs through a finalizer: copies are made only under one, cleaned
  up before it goes, and it must go in the end.

`PROJECT.json` lists each hazard at its line, under `hazards`.

## Modules

| Module | Models |
|---|---|
| `ConfigSyncApi` | the resources, and the decisions the controllers take from them: selection, targets, pruning, wake-up tests, intervals, comparison of payloads |
| `AdmissionWebhook` | the decision of the two validators, and a webhook that is switched off |
| `ApiServer` | the server, its watches and the caches; the requests of users; the namespace controller (external) |
| `ConfigSyncReconciler` | the main controller: `Reconcile`, pruning, copying, cleanup |
| `Watchers` | the Secret, ConfigMap and Namespace controllers and their event filters |
| `Operator` | the composition: informers, workers, timers, crash and restart, users, fairness |
| `SyncLifecycle` | the abstract specification: the life of a ConfigSync and the owner of a slot |
| `OperatorProperties` | what is checked, and the refinement mapping to `SyncLifecycle` |
| `OperatorHistory` | two history variables beside `Operator`, the slots nobody has written since they were seen empty (`blank`) and the specs each ConfigSync was given (`given`), and the properties that need them |
| `TwoOperators` | two processes: `Operator` and a second instance of it, with its theorems, that shares the API server |
| `MCOperator`, `MCHistory`, `MCTwoOperators` | values of the constants for TLC |
| `OperatorTypes` | proofs: the type invariant |
| `OperatorSafety` | proofs: versions of objects read and stored, and what follows |
| `ConfigSyncSafety` | proofs: the same for ConfigSyncs, with what the workers hold of them |
| `ContentSafety` | proofs: what copies are labelled with, what they hold and where they lie |
| `FinalizerSafety` | proofs: the order in which news of a ConfigSync arrives, what it says of the finalizer, the periodic loop, and that `Operator` implements `SyncLifecycle` |
| `CleanupProofs` | proofs: what a cleanup leaves when what it reads is not behind |
| `NamespaceProofs` | proofs: a namespace that is created is filled at once |
| `TwoOperatorsSafety` | proofs: what two processes still promise |

`ConfigSyncReconciler` and `Watchers` extend `ApiServer` and are composed by
`Operator`; `TwoOperators` takes a second operator by `INSTANCE ... WITH`, all of
whose memory is renamed and whose server variables are the same. It is an
instance of `FinalizerSafety`, the last proof module it needs, so that every
lemma up to there can be cited for the second process too. Each proof module
extends the one above it in the table, except `TwoOperatorsSafety`, which extends
`TwoOperators` and `FinalizerSafety`.

### State and code

* `store`, `cs`, `nss` are the objects, ConfigSyncs and namespaces in the API
  server; `cache`, `csCache`, `nsCache` what the informers show; `watch`,
  `csWatch`, `nsWatch` the changes on their way. A slot of the server is a
  *cell*: a version and an object, or nothing.
* `csQueue`, `objQueue`, `nsQueue` are the work queues (sets: the queue
  deduplicates, and the order it serves is left open); `timers` the pending
  `RequeueAfter`.
* The main worker is `pc` (`idle`, `prune`, `sync`, `clean`) with the local
  variables of `Reconcile`: `cur` and `snap` (the ConfigSync as read at line
  44), `targets`, `report` (`namespaceStatuses`), and its loops: `work` (the
  listings still to make), `dels` and `items` (what the last listing left to
  delete or copy). Payloads in `items` are those of the listing, as in the
  code.
* `okey`, `odels`, `otrig` and `nkey`, `ntrig` are the same for the watchers: the
  object at hand, the copies left to delete, the ConfigSyncs left to stamp *as
  they were listed*.

Each call to the API server is an action, with everything decided from it.
`ReconcileSync` takes the ConfigSync and computes the targets; `PruneList` and
`PruneDelete` are `cleanupRemovedNamespaces`; `SyncList` and `SyncItem` the loop at
lines 124-175 with `syncSecret` and `syncConfigMap`; `SyncDone` writes the status
and sets the timer; `ReconcileDeleted`, `CleanList`, `CleanDelete` and `CleanDone`
are the deletion; `ReconcileFails`, `ListFails`, `CleanListFails`, `SyncListFails`
and the third disjunct of `Delete` are the error paths. The filters of the watchers
run in `DeliverObj`, whose second disjunct is the `List` of `matchesAnyConfigSync`
that fails and drops the event.

The second process of `TwoOperators` has the same variables with a `2`. The
server tells both of every write: a step of one is a step in which the other
`Hears` (in `Operator`) of the one object, ConfigSync or namespace it changes, and
has its memory left alone.

The history variables of `OperatorHistory` are set in every step from what the step
does and guard nothing: `HistSpec` has the behaviours of `Spec`, and `FreshHistSpec`
those of `FreshSpec`. A slot is in `blank` from the creation of its namespace, or the
start of the process, if it is then empty and the informer shows it so, until
somebody writes it.

`SyncLifecycle` sees of all this `life`, how far a ConfigSync is (`absent`, `new`,
`bound` by the finalizer, `leaving`), and `owner`, whose each slot is (nobody's, a
user's, a ConfigSync's).

### What is abstracted

* A `Get` from the cache that the code follows at once by the write it decides
  is one action with that write; so are two `Get`s in a row. The cache may be
  arbitrarily behind anyway, so the pair can be taken at the moment of the
  first read or with the write refused.
* Versions count per slot instead of per cluster: they are only ever compared
  for equality with versions of the same slot.
* A payload is the namespace it was written in and a small map. Annotations,
  messages, conditions and times are left out, except that a status carries
  the second it was written in: such a write may change the object though
  nothing else changed (`TickRV` bounds how often).
* The events an informer makes of what exists when the process starts are filtered
  in one step with the restart, in which no `List` fails; every ConfigSync is synced
  then anyway.
* A timer has no length: it fires at any time, or never when the interval,
  multiplied out in the width of a `time.Duration`, is not positive. `Second` and
  `MaxDuration` make the width a parameter; TLC takes 2 and 1023, so that an
  interval of 600 overflows as one of 9.3 * 10^9 seconds does in the code.
* Lists of namespaces are sets. A namespace listed twice would be synced twice.
* Users create objects without the sync labels. They may update any object
  within what the webhook lets through, rewriting it without those labels or
  changing its data only (cluster-admins: also a copy's). A request refused by
  the webhook changes nothing.
* A namespace is there, ending, or gone. While it ends nothing can be created
  in it and it stays in the caches; the informers see the change as an update,
  which every controller filters out.
* `Init` is a cluster in which the operator has been deployed and has looked at
  what exists; ConfigSyncs are made later, by users. A restart is one step: users
  act while the process is down as they do while its caches are behind. With
  the webhook unreachable they could do less, never more.

## Runs

Runs are of `MCOperator`; `namespaces`, with a property that needs history, is of
`MCHistory`, and the two with two processes are of `MCTwoOperators`. All have one
object name. `CHECK_DEADLOCK` is off in all of them: a cluster in which users are
done and no ConfigSync is left really stops.

| Run | Shows |
|---|---|
| `core` | safety: types, the periodic loop, where copies lie and whose data they carry, objects of users, edits of users, copies only under a finalizer, the refinement of `SyncLifecycle` |
| `fresh_cleanup` | when what the main worker may delete is listed from caches that are not behind (`FreshSpec`), no copy outlives its ConfigSync, edits of the spec and a crash included, unless one of the specs leads away from the copy |
| `two_syncs` | two ConfigSyncs with one source and target, edited and deleted: the cleanup of either is complete and spares the other's copies (`FreshSpec`) |
| `live` | copies converge, strays go, deletions complete, under fairness; the periodic loop survives failing calls |
| `namespaces` | a target that is deleted and created again: the new one is filled without waiting for a period, the old one held only by copies still targeted; edits survive, and the operator comes to rest |
| `rollout` | two processes: no object of a user is adopted and no edit of a ConfigSync undone |
| `cascade`, `cleanup_stale`, `cleanup_edited`, `user_object`, `stuck_namespace`, `two_processes` | statements of the documentation or of comments that the code does not keep, each with a shortest counterexample |

### Bounds

* `core`: a source, a target and a system namespace; two specs that swap source
  and target, the one listing the system namespace as a target and the other
  with an interval that overflows, and one with a selector that does not parse;
  two payloads, three requests of users. Failing calls are left to `live` (a
  refused update takes the same paths), crashes to `fresh_cleanup`; the proofs
  have both. Three requests are what the worst cases need: make a ConfigSync,
  change something, and change it again or delete it while a worker still holds
  the old reading. `MaxRV = 6` is above what three requests, their stamps and the
  writes of the worker need on most paths; beyond it the server refuses
  writes, which the controllers handle as errors.
* `fresh_cleanup`: one kind, three requests: make a ConfigSync, edit it between a
  list of targets and all namespaces, which lead to the same slot, and delete it;
  one crash anywhere. The kinds are listed one by one in the same way; `two_syncs`
  has both.
* `two_syncs`: both kinds, two ConfigSyncs that are interchangeable (symmetry:
  no property here is temporal, no name of theirs is used), three requests:
  make both, or make one and switch its Secrets off or on, then delete it.
* `live`: a ConfigSync is made, then its spec, its source or, by a cluster-admin,
  its copy changes or it is deleted; specs that target the namespace or exclude
  it; a label the source may gain or lose, which the selector asks for; the target
  namespace may be deleted and created again; one failing call. `MaxRV = 16` is
  never reached. No symmetry.
* `namespaces`: four requests: make a ConfigSync, delete the target namespace,
  create it again, and one more, such as excluding it from the targets. `TickRV = 4`
  lets the clock tick between the first status writes, `MaxRV = 18` is never reached.
* `rollout`: a ConfigSync is made and deleted, or a user takes the slot of its
  copy; two requests, `MaxRV = 4`: with two processes at the same ConfigSync the
  versions are those of its creation, its finalizer, its deletion and one more
  write.
* The violations use the smallest instance that shows them.

### Fairness

`Fairness` is weak fairness of each goroutine of the process: the main worker, the
worker of each watcher, each informer, and each timer. Goroutines are scheduled
and informers reconnect, so each goes on as long as it has something to do. The
namespace controller of the cluster is a control loop of the same sort and gets
weak fairness too. Nothing is assumed of users, failures or crashes, or of the
order in which a queue is served. Users make finitely many requests and finitely
many calls fail in the bounds, so `<>[]` states what holds once they stop.

## Properties

* `UserObjectNeverAdopted`: the operator never turns an object without the
  synced-from label into a copy, though it looks for the label in a cache.
* `UserEditsSurvive`: five code paths write whole ConfigSyncs from old reads; no
  spec and no deletion request of a user is ever undone.
* `CopiesMadeUnderFinalizer`: a copy is made or renewed only while its
  ConfigSync exists and holds the finalizer, however old the reading. Holds for
  one process, fails for two.
* `KeepsLifecycle`: the steps of the operator, seen as `life` and `owner`, are
  those of `SyncLifecycle`.
* `PeriodicLoopAlive`: a ConfigSync that exists is queued, timed, being worked on,
  or has an event on its way, unless its interval overflows. This is what every
  `return` must preserve.
* `CopyProvenance`: edits of the spec in the middle of a sync never produce a
  copy in its own source or a system namespace, or with data of a third one.
* `NoCopyOutlivesItsSync`: a copy that every spec in use leads to does not outlive
  its ConfigSync; holds with fresh listings and no failing call, fails with stale
  ones. `NothingLeftBehind` in `OperatorHistory` is the stronger form for the specs
  that this ConfigSync was given; it is proved and not among the runs.
* `CleanupComplete`: when a ConfigSync is let go of, none of the copies its last
  spec leads to is left. `CleanupTakesAll` asks it of all its copies, as the comment
  at the cleanup says, and fails.
* `CleanupSparesOthers`: no cleanup or pruning removes a copy that another
  ConfigSync has taken over.
* `NewNamespaceServed`: the creation of a namespace is stamped on the ConfigSyncs that
  list it, and the stamp leads the worker there, whatever it was doing: once all is
  quiet no slot asked for is blank. This is of namespaces created again as well. Two
  things are left out: ConfigSyncs for all namespaces, which nothing wakes, and slots
  that the cache still showed filled when their namespace came back.
* `ComesToRest`: a status write is an event for the controller that made it, so each
  sync that changes the status starts one more; among the syncs of a ConfigSync there
  is always one that changes nothing and leaves the next to the timer. A second status
  of the same second is the same and makes no event; syncs that all take longer than
  a second would go on without a pause, which `TickRV` excludes.
* `Converged`, `EventuallyPruned`, `DeletionCompletes`, `EndingNamespaceFreed`: see
  `OperatorProperties`.

### Disagreements found

1. `cascade`: a sync under way recreates a copy whose source was just deleted
   (README.md:24), and nothing removes it later: pruning looks at namespaces.
2. `cleanup_stale`: the cleanup trusts a stale listing (README.md:590).
3. `user_object`: the deletes of the cleanup and of the pruning carry no version
   (ARCHITECTURE.md:263).
4. `cleanup_edited`: the cleanup asks the last spec where to look, so copies of a kind
   that was switched off before are left (configsync_controller.go:417, README.md:590).
5. `stuck_namespace`: the webhook refuses the namespace controller of the cluster
   the copies in a namespace that ends (webhook.go:129).
6. `two_processes`: with leader election off a second process copies for a
   ConfigSync the first has cleaned up after (main.go:62).

Met while modelling and not kept as runs:

* an item whose update meets a stale cache is logged and dropped, so the change
  waits for the next period (README.md:23 says real-time);
* `dataEqual` takes a missing key for an empty value, so a ConfigMap key with an
  empty value can be replaced by another key unnoticed
  (configmap_controller.go:220, 249); the model compares payloads the same way;
* a ConfigSync for all namespaces is not woken by a new one
  (ARCHITECTURE.md:217, namespace_controller.go:65);
* two ConfigSyncs with the same source and target take a copy from each other at
  every sync (ARCHITECTURE.md:262, configsync_controller.go:344).

## Proofs

TLAPS proves these for all values of the constants that satisfy the named
assumptions (`ApiAssumption`, `NoObjAssumption`, `WebhookAssumption`,
`BoundsAssumption`, `InitAssumption`): any number of namespaces, objects,
ConfigSyncs, requests, failures and crashes.

* `OperatorTypes!TypeCorrect`: `Spec => []TypeOK`. `TypeOK` is not inductive: a
  worker that goes on needs to know what it is at, or it would write
  `None` into a queue. `Busy` says that a worker with work left has a
  ConfigSync, object or namespace in hand; `TypeInv` is `TypeOK /\ Busy`
  (`WorkersKnowTheirWork`). One lemma per group of actions, `NextTypes` puts
  them together.
* `OperatorSafety!UserObjectsSafe`: `Spec => UserObjectNeverAdopted`. The
  invariant is `ObjVersions`: whatever an informer has delivered or will
  deliver of an object is either older than what the server holds, or *is* what
  it holds. `ObjSteps` says what a step can do to the objects: nothing, one
  write, a delivery or a restart; `WriteVersions` and `DeliverVersions` that
  none of them breaks the invariant. An update accepted for the version read
  is then an update of the very object that was read, and that one had the
  label; a create finds the slot empty.
* `ConfigSyncSafety!UserEditsKept`: `Spec => UserEditsSurvive`. The invariant
  `CsInv` says the same of ConfigSyncs, over everything that has been read of them:
  the cache, the watch, and the registers in which the workers keep a reading
  between two calls (`snap`, `otrig`, `ntrig`). `HeldSteps` shows that registers are
  only filled from the cache. Its second part, `SnapFits`, is what lets the
  worker drop a finalizer: it cleans up only for a ConfigSync it has read as
  deleted, and copies only for one it has read under the finalizer. `CsSteps`
  goes through the writes: each is refused, or puts back what is there
  (`Preserves`), or removes a ConfigSync that is being deleted.
* `FinalizerSafety!CopiesUnderFinalizer`: `Spec => CopiesMadeUnderFinalizer`. The
  worker that copies has read the finalizer, but how long ago? The invariant
  `FinInv` orders what is known of a ConfigSync: its events arrive in the order of
  their versions (`NewsInOrder`), the reading of the worker is not newer than the
  cache (`SnapBehind`), and from the first reading with the finalizer on, it is on
  in everything later until the worker itself takes it off (`FinalizerHolds`).
  There is one worker, so nobody takes it off behind its back; with two processes
  this last step fails, and so does the property.
* `FinalizerSafety!ImplementsLifecycle`: `Spec => KeepsLifecycle`. `LifeInv` adds
  `Labelled` (every copy names a ConfigSync) to the invariants above; the step
  lemmas give, for each action, the step of `SyncLifecycle` it is.
* `FinalizerSafety!PeriodicLoopNeverDies`: `Spec => []PeriodicLoopAlive`. By itself the
  property is not inductive: that a ConfigSync read as gone, or as deleted and
  clean, may be dropped from the queue needs that the last event of a ConfigSync
  says what the server holds (`NewsComplete`), that one being deleted has its
  finalizer (`DeletingHasFinalizer`), and that an idle worker is at nothing
  (`IdleHasNone`).
* `ContentSafety!CopiesHoldTheirSource`: with the webhook on and no cluster-admin
  among the users (`Protected`), `Spec => []CopyProvenance`. `ContentInv` says of
  every version of an object, wherever it is kept, that what users wrote carries
  data of its own namespace and a copy the data of its source (`HomeMade`), and
  of the worker that what it holds goes where its targets allow (`Routed`).
  Without the premise the theorem is false: a cluster-admin may edit a copy.
* `CleanupProofs` is about `FreshSpec`: the main worker lists the namespaces when it
  takes up a ConfigSync, and the objects it may delete, while no change of them is on
  its way to its caches; everything else may be as old as ever, the ConfigSyncs and
  what a sync copies included. `NewsInv` is what this buys: the
  last news of an object, or of a namespace, is what there is
  (`ObjNewsComplete`, `NsNewsComplete`), so a cache with none to come shows it.
  * `OthersKeepTheirCopies`: `FreshSpec => CleanupSparesOthers`, by `DelsOurs`: what
    is left to delete is still, in the server, a copy of the ConfigSync at hand or
    no copy at all. Little is behind it, as only the worker itself relabels copies,
    and it does not say that the cleanup takes nothing else: an object that has lost
    its labels since it was listed is no copy any more, and is deleted (`user_object`).
  * `CleanupLeavesNothing`: `FreshSpec => CleanupComplete` if no call fails
    (`MaxFaults = 0`: a `Delete` that fails is only logged, so the property is
    false without this). `Found` says of every copy that the spec leads to: it is
    still to be listed, or among what is left to delete.
  * `NothingOutlives`: `FreshHistSpec => [](NothingLeftBehind /\ NoCopyOutlivesItsSync)`
    if no call fails. Specs may be edited at any time, and lead anywhere: what is said
    is of the copies that every spec in `given` leads to. `Rooted` says that such a
    copy belongs to a ConfigSync that is there and has its finalizer. The worker takes
    the finalizer off only when `Found` leaves it nothing that the spec it read leads
    to; that spec is the one the server has, for the write is refused otherwise, and is
    in `given` (`SpecsGiven`). What is in `given` is one of `Specs` (`SpecsKnown`), so a
    copy that all of `Specs` lead to is covered too: that is the form the run checks.
    The two premises are what the code needs: `cleanup_stale` shows
    copies left when a cache is behind, and a `Delete` that fails is only logged.
* `NamespaceProofs!NewNamespacesServed`: `HistSpec => []NewNamespaceServed` if no call
  fails (`MaxFaults = 0`) and users write anywhere but in the namespaces that specs
  copy from (`SourcesAlone`). The property speaks of quiet states only; the
  invariant `NothingForgotten` says what holds of all others. A blank slot that is
  asked for is `Due`, and then something is under way: the event of its namespace, its
  place on the queue or a stamp not yet made (`Announced`); an event of the ConfigSync
  or its place on the queue (`Heard`); or the worker, which will come by the slot, or
  has read an old version and will be refused at the end (`AtWork`). Each link hands
  over to the next (`AnnouncedSteps`, `HeardSteps`, `AtWorkSteps`), and a slot becomes
  due only by a change that is news (`DueSteps`): it becomes blank with its namespace,
  whose event is on its way, or with the process, which takes up every ConfigSync.
  That no link is lost rests on the last news being what there is
  (`NewsComplete`, `NsNewsComplete`), so that a stamp that is skipped for an old
  cache is made up for, and on sources and blank slots being seen as they are
  (`Untouched`, `BlankSeen`). The premises are needed. A call that fails while a
  namespace is copied to only marks it `Failed` in the status until the next period.
  An update of a source that changes nothing but labels passes no filter, so a
  ConfigSync that selects by label learns of it with the next period too. A slot that
  the cache shows filled by the copy of a namespace that is gone gets an update, which
  the server refuses: it is not blank, and waits for the next period.
* `TwoOperatorsSafety` is about `TwoSpec`. Every invariant above splits into what
  is known of the server and what one process holds. Its own steps keep both. A
  step of the other process, whatever it is, is seen as a move of the server
  (`Moves`: whatever changes gets a new version, and one ConfigSync at most) of
  which the process hears, and the lemmas `HearsSteps`, `HearsContent` and `HearsLoop`
  keep the process's part through any such step.
  * `TwoNeverAdopt`, `TwoKeepEdits`: `TwoSpec => UserObjectNeverAdopted` and
    `TwoSpec => UserEditsSurvive`, which the `rollout` run checks.
  * `TwoLoopsNeverDie`: `PeriodicLoopAlive` of either process, though the other
    binds, stamps, cleans up and removes the same ConfigSyncs.
  * `TwoCopyFromTheirSource`: `CopyProvenance`, under `Protected` as above.

  `CopiesMadeUnderFinalizer` and the refinement of `SyncLifecycle` are not among
  them: they are false for two processes (`two_processes`). Where their proofs
  fail is `FinalizerHolds`, which needs that nobody else takes a finalizer off.

Only model-checked: liveness (`Converged`, `EventuallyPruned`, `DeletionCompletes`,
`EndingNamespaceFreed`, `ComesToRest`), which is beyond the prover, and what the runs that
expect a violation refute. Every safety property of the passing runs is proved.
Nothing here is recursive: payloads are functions compared with quantifiers.

One thing the proofs brought up: `FreshSpec` once asked for object caches only. A
cleanup that lists no targets (`targets` empty: all namespaces) goes by the list of
namespaces in its cache, and when that is behind it misses the copies in a
namespace it does not show yet. The invariant `Found` could not be proved until
the premise had the namespaces in it.

## Not modelled

* The Helm charts and manifests: no program of this repository.
* The GitLab runner scripts: a bounded retry around one command and a probe,
  sequential and without shared state.
* Generated deep copies: no behaviour of their own.
* Annotations, conditions, messages, metrics, probes, flags other than
  `--enable-webhook`.
* A webhook that is down for longer than a restart: users can do less then, and
  the operator's own writes fail and are retried as any failed call.
* Finalizers taken off by hand, as README.md:608-615 of the operator advises to keep
  the copies when it is uninstalled: `CopiesMadeUnderFinalizer` and what rests on it
  suppose that nobody but the operator does.
* Two Secret types in one run: an update that would change a type is refused in
  the model, but no run has a property that turns on it.
* Time: periods have no length, so nothing is said of how long anything takes.
