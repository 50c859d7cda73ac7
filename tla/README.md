# Juju: notification, leases, guarded workers, unit agents, migration

TLA+ specifications of mechanisms a Juju controller and its agents lean on:
how a committed write reaches every client that watches it; how leases give one
holder at a time the right to act; the fortress that keeps workers out while
something else needs a place for itself; two users of it, the drain of the
object store from files to S3 and the migration of a model to another
controller; and the operation loop of the unit agent. They are distributed (one
instance in each controller, sharing one Dqlite database, or two controllers
with a connection that breaks), concurrent (goroutines, channels, timers) and
must survive restarts of any part.

`PROJECT.json` lists components, runs, mutants, the map from definitions to
source lines, hazards and theorems. Run a model with
`tlc -config <cfg> <module>`, check proofs with `tlapm <module>.tla`.

## 1. The system and its parts

A Juju controller agent is a tree of workers held together by a dependency
engine. State lives in Dqlite databases (one for the controller, one for each
model); domain services (`domain/`) change it in transactions, workers
(`internal/worker/`) react to changes and drive clouds and machines, the API
server (`apiserver/`, `rpc/`) serves clients and agents. The change stream and
the leases tie the workers together, fortresses keep them apart.

| Part | State | Operations | Hard about it |
|---|---|---|---|
| change log, pruner (`domain/schema/*/sql/*changelog.sql`, `domain/changestream`, `worker/changestreampruner`) | tables `change_log`, `change_log_witness` | triggers append rows, `Prune` deletes what all witnesses passed | several controllers; stale witnesses after a restart |
| change stream (`internal/changestream/stream`) | watermark buffer, last recorded view, the term in hand | create and update the witness, poll, coalesce, send a term, wait for it | commits that fail after memory changed; full buffer; aborted terms; timeouts |
| event multiplexer (`internal/changestream/eventmultiplexer`) | subscriptions and their filters, the dispatch under way | subscribe, route, dispatch in parallel, mark the term done, clean up | slow and dying subscribers; shutdown in the middle of a term |
| watchable database (`worker/changestream/watchabledb.go`) | a catacomb with one stream and one multiplexer | start, kill | the two die one after the other |
| watchers (`core/watcher/eventsource`) | in/out mode, what is pending | subscribe, initial query, read, dispatch | a change between subscribing and the query |
| lease tables (`domain/lease`) | tables `lease_type`, `lease`, `lease_pin` | claim, extend, revoke, pin, unpin, export, delete | whole-second time; pins against expiry |
| lease expiry (`worker/leaseexpiry`) | none | delete expired, unpinned leases | runs in each controller at any time |
| lease manager (`worker/lease`) | timer, blocks, goroutines of claims and revokes | claim, revoke, wait until expired, check, pin | look-up and act in two transactions; retries; a timer that must not be lost; shutdown |
| fortress (`worker/fortress`) | the gate, a wait group of visits, tickets in flight | visit, occupy, unlock, lockdown | aborted lockdowns that leave a waiter; a worker that comes up after `Occupy` gave up; shutdown |
| object store (`internal/objectstore`, `domain/objectstore`, `worker/objectstore*`) | metadata rows, files on each controller, the S3 bucket, the drain's phase and the backends' life | put, remove, prune, fetch; drain, guard, flush | requests inside while the drain begins; blobs on other controllers; controllers that have already switched; a primary that moves |
| unit agent (`worker/uniter`) | the saved operation state, the remote state's snapshot, the charm directory and its gate | resolve, prepare, execute, commit; retry; terminate | a crash between any two steps; changes during a hook; reboots; hook errors and conflicts |
| model migration (`core/migration`, `domain/modelmigration`, `internal/migration`, `worker/migrationmaster`, `worker/migrationminion`) | the export's phase and reports, the import claim, the model's rows and database on the target, each agent's configuration, fortresses on both sides | the master's steps, Import, Activate, AdoptResources, Abort, the minions' reports and moves | two controllers, lost answers and handlers that go on without a caller; the point of no return; restarts everywhere |

Interaction: *writer -> trigger -> change_log -> stream -> (terms channel) ->
multiplexer -> (subscription channel) -> watcher -> (out channel) -> client*,
with `Term.Done` going back from the multiplexer to the stream and the witness
table going from the streams to the pruner. For leases: *caller -> (request
channel) -> manager loop -> goroutine -> store transactions*, with the expiry
worker and the other controllers' managers working on the same tables. The
fortress is used by its contract: the object store facade visits, the drainer
and the guard lock down; the model's workers occupy, the migration master locks
down on the source and the minion on each agent. Unit agents learn of the
controller through watchers (one source at a time, in any order) and keep their
operation state there. In a migration the master calls the target's API; the
minions read the phase from whichever controller they are connected to.

What makes each part correct: the log keeps what some stream has still to
read; a stream's reads neither repeat nor skip; a term is answered once, after
its last dispatch; a watcher's client is never left with old knowledge; a
granted lease lasts as promised and a pinned one stays; every caller of the
manager gets an answer; waiters are released, soon after and only after the
lease is gone; a successful lockdown means an empty fortress; no blob is lost in
a drain, which ends; hooks run in order, actions at most once, changes arrive,
and a dying unit ends; a model has one owner through its migration, its agents
follow it, and the migration ends. The hazards that threaten these, line by
line, are in `PROJECT.json`.

Other parts (leadership tracker, database upgrade, removal, database accessor,
API server, provisioners...) are listed there too with the reason they are not
modelled, or their place in the plan.

## 2. Modules

| Module | Models | Extends |
|---|---|---|
| `ChangeStream` | log, witness table, pruner, one stream for each controller | |
| `EventMultiplexer` | multiplexer and subscriptions (halves of channel operations) | |
| `EventSource` | `NamespaceWatcher`, `NotifyWatcher` and their clients | `EventMultiplexer` |
| `ChangeNotification` | the composition in a `WatchableDB` | `ChangeStream`, `EventSource` |
| `LeaseStore` | lease tables, expiry, migration export | |
| `LeaseManager` | lease managers on the store | `LeaseStore` |
| `GuardedAccess` | what a fortress promises | |
| `Fortress` | the fortress and `Occupy`; implements `GuardedAccess` | instance of `GuardedAccess` |
| `ObjectStore` | stores, drainer and guards of all controllers | |
| `Uniter` | one unit agent with its controller, operator and machine | |
| `Migration` | one model, its source and target controllers and its agents | |
| `ChangeStreamProofs`, `LeaseStoreProofs`, `FortressProofs`, `ObjectStoreProofs`, `UniterProofs`, `MigrationProofs` | theorems | the module of their name, `TLAPS` |
| `ChangeNotificationProofs`, `LeaseManagerProofs` | theorems on the compositions | the module of their name and the proofs of the part below, `ChangeStreamProofs` and `LeaseStoreProofs` |
| `MC*` | symmetry sets and constant functions for TLC | |

Definitions named "Mutant of ..." are faulty variants of the definition that
follows; nothing uses them but the mutation checks.

### Change notification

`phase[c]` is where `Stream.loop` stands: before `createWatermark`
("starting"), at its select ("loop"), in the inner loop of the block file
("blocked"), offering a term ("send"), waiting for it ("wait"), or not running
("down"). `watermarks`, `lastRecorded` and `term` are the fields and locals of
the loop, lost when it dies. A row of the log is a key (namespace and changed
value) and an edit type. `ReadChanges` is one poll: the rows after `UpperBound`,
one event per key, with the bounds of the coalesced rows. `UpdateWatermark` is
the watermark timer with a commit that succeeds. `UpdateWatermarkLost` is the
same with a commit that fails: `processWatermark` pops the head inside the
function that `StdTxn` runs, so the pop stays; the retry finds a short buffer
and commits nothing. A failure before the pop changes nothing. `born` is history:
the value of the id sequence when the witness row was ensured.

The multiplexer is in "select", "dispatch" (goroutines of `dispatchSet` running)
or "finish" (in `Term.Done`); `changeSet[w]` is what is still to be dispatched
to subscription *w*. Cleaning up dead subscriptions belongs to the step that
returns to the top of the loop. Channel operations are joint actions of
`ChangeNotification`: `HandTerm`, `Deliver`, `FinishTerm`. A dispatch ends by
delivery, by the subscription dying, or by its time-out, which kills the
subscription. `killed` is the dying catacomb: the multiplexer and the stream
follow in any order, `AbortTerm` is `Term.Done` seeing the abort channel together
with the stream's noticing it, and `NewWatchableDB` starts a new pair.

Watchers subscribe, then run the initial query (`WatcherInitial`); a
`NotifyWatcher` instead drains one pending dispatch (`WatcherDrain`) and offers
its first notification. The namespace watcher reads only when it has nothing to
send; the notify watcher reads always. A mapper that drops events acts like a
narrower filter and is part of `Filter`. Clients are external: they read the
database at the moment they are told of a key, the least favourable moment, and
make a new watcher when theirs died.

### Leases

The clock has `SecondTicks` ticks to a second; the tables see whole seconds.
Each transaction is one action. `TypedKeys` are the keys whose namespace has a
row in `lease_type`: `ClaimLease` inserts by a SELECT from that table, so a claim
of any other key inserts nothing, and succeeds all the same. `until` is history:
until when the row last written for a holder grants it the key; a revocation or
the deletion with the model withdraws it.
`GetApplicationLeadershipForModel` is the export's query, which compares an
expiry with the beginning of the day (`DaySeconds`).

A request of the manager goes through "sent", "lookup", the store call it
decided on ("claim", "extend", "revoke") and "end" (a revoke first tells the
loop, "notify"). Look-up and call are separate steps. Store calls succeed, meet
`ErrHeld` or `ErrInvalid`, fail retryably *with or without having been
committed*, or fail fatally, which kills the manager. `last` is what `err` and
`success` of `retryingClaim` and `retryingRevoke` amount to when the retry loop
is stopped by a dying manager, before its first attempt or between two. The
retry package is external: no attempt is made once its stop channel is closed.
Answers to a caller that has seen the manager stop are lost. The goroutines may
outlive the manager (`maxShutdownWait`). A manager restarts when the callers of
its former life have been answered.

The loop's timer fires when the clock has passed `nextTimeout` (a timer that
fires within the tick of it is heard in the next one); `TimerFires` and
`ExpireDone` read the leases, `CheckBlocks` uses what was read. `LmTick` waits
for a loop that has something due: the loop is assumed to keep up with the
clock, the goroutines and the store are not. `absent` is history: since when,
and if ever, a waiter's lease was gone during the wait.

### Fortress

A ticket is one call of `Visit`: "offered" to the loop, "accepted" (the loop has
counted it and `complete` runs), "inside" (the visit itself), "finishing" (the
visitor has its result, `Done` is still to come). The guard's call is "offering"
its ticket or "completing" it. Each Lockdown starts a goroutine in
`WaitGroup.Wait` (`waiter`); one whose call was aborted stays, and the rule of
the wait group, that a released waiter must be back before the counter leaves
zero again, is kept: breaking it is `panicked`, the end of the process.
`occ` is the worker inside an occupier's visit and `caller` what `Occupy` has
returned. `sealed` is history: the guard was told that a Lockdown succeeded and
no Unlock was taken since. The refinement maps the guests of `GuardedAccess` to
the visits the wait group counts.

### Object store

One model's store in each controller: at most one store worker, of files or of
S3, one request in its loop (`req`, with where it is in `at`), a fortress
(`gate`; its contract is that of `GuardedAccess`), and a worker that follows the
drain (`sync`), the drainer on the primary and the guard elsewhere. Put writes
the blob, then the row; remove deletes the row, looks whether another row has
the hash, then deletes the blob; prune reads the rows, lists the blobs, deletes
what no row names; each is a step of its own. Writes visit the fortress, prunes
and fetches do not. A caller may leave while its request goes on. The drainer
locks down, lists, copies row by row, flushes, and completes; an attempt that
fails starts from a new list, the last one sets the error phase.
`WorkerRestarts` kills either worker anywhere and may change its role, with an
old and a new drainer side by side. `early` is history: rows from before the
drain that are still there; `acked` is whose file store acknowledged a path.

The lock on a hash is left out as a guard because it is none: it is a lease in
the namespace `object-store`, which has no row in `lease_type`, so that a claim
of it writes nothing and always succeeds (section 3). `Fetch` may bring a file
whose row has gone since it was looked at; it lets in any hash another controller
has. A failure of `completeDraining` sets the error phase without a new attempt.

### Unit agent

`st` is `operation.State`, `op` the operation the executor is running and at
which step ("prepare" is saving what Prepare returned, then "execute", "save",
"commit"; "finish" tells the controller how an action ended). `NextOp` is the
whole resolver: the resolvers in their order (`FirstOp`), by kind of saved
state. An operation takes its charm, version and configuration from the snapshot
`w` when it is made, as the wrappers of `opfactory.go` do. `Watch` copies one
source of the controller's record (`ctl`) to the snapshot. A new watcher finds
the pending tasks in any order (the query sorts their ids as text); a task that
ends leaves the list at its first place. `Crash` loses all but `st`, the charm
directory and what the controller knows; it may be a reboot of the machine. The
event of a task is taken to come while the task is pending (section 5).
`lost` is history: the windows in which the code is known to lose something
(below), by what it loses ("action", "charm", "config" or "start"), so that the
properties can say "unless".

### Migration

`phase`, `attempt` and `reports` are the export's rows on the source; `master`
is where `Worker.run` is. `tgt` is what the target has of the model: the claim
and whose it is, the model row, its namespace, the import gate, its data, a
staged deletion. A call to the target is a handler there in its own slot of
`call`; the live one is slot `lost`. When the connection breaks, or the master
dies, the source sees an error, `lost` grows, and the handler goes on as an
orphan whose answer goes nowhere. Each transaction of a handler is a step, with
the fence of `import_guard.go` where the code has it; only `AbortStage` joins
two, of which the second looks again at what the first saw. A minion whose
report of SUCCESS is lost writes its configuration and starts over, so that it
may report again (`Unreported`). `agent[a]` is an agent's
configuration, the controller it is connected to, its fortress, and its minion.
`Fault` counts failures: an unreachable target, a failing handler, a dying
master or minion, an agent or a model's workers that restart with a new
fortress (which starts locked).

## 3. Runs

| Run | Bounds | Shows |
|---|---|---|
| `changestream` | 2 controllers, 2 keys, buffer of 2, 4 rows | `UnreadNeverPruned`, `TermCoversKeys`, `ViewsAdvance`, `UpperBoundMonotone` |
| `notification` | 1 controller, 2 keys, 3 edit types, buffer of 1, 2 rows, one watcher of each kind with different filters and masks | `NoLostUpdate`, `TermHandshake`, `WatchedIsRegistered` |
| `notification_live` | as above with 1 key | `EventuallyInformed` under fairness |
| `leasestore` | 2 keys and 1 without a type, 2 holders, 1 entity, durations of 2 and 4 ticks, 3 ticks to a second, a day of 4 seconds, 5 seconds | `PromiseKept`, `ExportCoversHolders`, `PinnedKeepsHolder` |
| `lease_claims` | 1 manager, 2 requests, 2 holders, durations 1 and 3, 2 attempts | `ClaimKept` |
| `lease_waits` | 1 manager, 1 request, 1 waiter, 1 entity that pins, 1 token check, 2 attempts, 4 seconds, `MaxSleep` 1 | `TimerArmed`, `PromptRelease`, `ReleasedMeansGone`; `EveryRequestAnswered` under fairness |
| `untyped_claim` | 1 manager, 1 request, a key with a type and one without | violation of `ClaimGuaranteed` |
| `fortress` | a plain visitor, an occupier, 2 waiters | `ImplementsAccess`, `LockdownEnds`, `UnclaimedWorkerEnds` |
| `objectstore` | 2 controllers, 1 path, 1 blob, 2 attempts, 1 request, 1 restart or move of the primary | `EarlyRowsKept`, `DrainListsOwnWrites`, `DrainSettles` |
| `uniter` | 1 action, 2 changes, 1 crash or reboot, 1 failed hook or conflict | `HookOrder`, `CharmDirShut`, `ChangesDelivered`, `ActionsEndOnce`, `DyingUnitEnds` |
| `migration` | 1 agent, 1 migration, 1 failure, 2 lost answers | `CommitAgreed`, `AgentsFollow`, `SoleOwner`, `ImportClaimed`, `MigrationEnds` |
| `reap_failed` | 1 agent, 2 failures | violation of `MigratedStaysShut` |

Why the bounds are enough for the cases that matter. Four rows on two keys make
two terms with coalescing, fill a buffer of two, cut it, pop it, lose a commit
and leave rows to read after a restart; two controllers are what the pruner
needs to have a wrong minimum. A buffer of one in the composed runs lets every
term become a watermark at once, so the pruner follows as closely as it ever
can; two rows give a change before and one after each step of a subscription.
Durations that are not multiples of a second, three ticks to a second, reach
all rounding cases of `LeaseDuration`; the proofs cover the rest. Two requests
are the smallest race of look-up and act, and two attempts the smallest retry.
Four seconds hold a claim of three up to its expiry, or its earlier end (revoked,
deleted with its model) and the release after it, up to the bound of
`PromptRelease` without a check of a missing lease; with checks the theorem has
it. In that run one request is enough for its answer to be owed: what another
one could do to it, change the lease or stop the manager, the store steps and
`Kill` do, but for a lease taken between look-up and claim, which is answered at
once (`ActHeld`). `MaxChanges`, `MaxSeconds`, `MaxChecks` are bounds of the
models, not of the code. One manager is enough for the second controller's
part in the lease runs because the store steps (expiry, deletion) happen on
their own, and a request's goroutine left over from a killed manager acts on the
store like one of another controller's.

A visitor and an occupier are all the kinds of visit there are, and the second
waiter is the one of a Lockdown that follows an aborted one; the refinement is
proved for any number. One path and one blob are enough for the object store
because rows meet only through a shared hash: the two controllers then contend
for the same blob with a put, a remove or a prune (of what a failed put left),
next to a drain with a retry and a second drainer; the proof covers more. The
run starts with both controllers at work. Two changes and a crash and a
failure are what it takes to change something during a hook that fails and be
interrupted in its retry. Two lost answers give two orphans beside a live
handler (Import, then Abort, while a second Abort runs), and a failure on top.
A second agent takes the migration run beyond five minutes; agents do not meet
except in the reports, of which one missing or failing is all the master
distinguishes. `MaxMigrations` is one for a reason given below.

Deadlock is checked where the system always has a next step: the notification
and lease runs and the fortress. A store that has been drained, a unit that is
dead and a model that has moved may stop.

**Fairness.** `FairSysSpec`: goroutines of stream, multiplexer and watchers run
(weak fairness of their next step), the dispatch ends by one of its three ways
because its context has a deadline, and a worker that failed takes its catacomb
down, as the catacomb does. Nothing is assumed of clients, writers, the pruner
or the operator; hence the exception for a blocked stream in
`EventuallyInformed`. `FairLmSpec`: goroutines run and each store call ends
somehow (a context bounds it); callers see a closed stop channel; strong fairness
of `Accept` because Go's select picks among ready cases at random, so a request
that is offered again and again while other work arrives is taken.
`Fortress`: goroutines run, a worker's start returns and so does its Wait once
it was killed, a plain visit returns; nobody has to call, cancel or kill, and a
worker that was handed over may live for ever. `ObjectStore`: the drainer or
guard of each controller goes on (an attempt that cannot copy a blob fails), and
a request in a store ends, if only in failure. `Uniter`: an agent that has
something to do, is told something, or has a retry timer running does not stop
for good; it is started again when it dies. `Migration`: the master, each
minion and each handler go on, time-outs pass, and the undertaker drops staged
databases. Faults, operators and lost connections are never owed.

### Disagreements between contract and code

`reap_failed` states what `migrationmaster` says of a model that has moved: the
master "should no longer be running", so the source's fortress stays closed.
`MarkModelAsGone` may fail, the phase becomes REAPFAILED and the master is
uninstalled. When the model's workers then restart, the new master asks
`Service.Migration`, which reads active exports only and answers NONE; the
`modelHasMigrated` branch of `waitForActiveMigration` cannot be taken, and the
fortress is opened, beside the target that runs the model. `SoleOwner` has this
one exception.

`untyped_claim` states what `core/lease.Claimer` says of every claim: "If it
succeeds, the holder is guaranteed to keep the lease until at least duration
after the *start* of the call." `State.ClaimLease` looks the namespace up in
`lease_type` within its INSERT and never at the number of rows inserted. Of the
four namespaces that `internal/lease` registers, `lease_type` has three;
`object-store` is missing. The object store claims its locks there: every claim
succeeds, no row is written, and nobody is kept out. `PromiseKept` and
`ClaimKept` are the guarantee of the namespaces that have a type.

Met while modelling, and stated by no run; each is either what the models do or
an exception named in a property.

*Change stream.* The witness of a restarted stream can move back (it reads the
log from the start), although a comment of `recordTermView` has the pruner see
only higher numbers; no code deletes witness rows, although a comment of
`locateLowestWatermark` speaks of pruned ones. Neither breaks
`UnreadNeverPruned`, as the proof shows for the first.

*Leases.* The leadership export includes leases that expired earlier the same
day; pinning a lease nobody holds is forgotten, where `core/lease.Pinner`
promises it to the next claimant; a shorter second claim cuts the guarantee of
the first (`ClaimKept` is the guarantee of holders that do not do so); of two
concurrent claims by one holder one is answered `ErrClaimDenied` although the
holder then has the lease; a revoke whose manager is killed before the first
attempt can be answered with success.

*Fortress.* The goroutine left by an aborted Lockdown may still be in `Wait`
when the gate opens and the counter is used again; Go's wait group panics on
that. The comment in `fortress.loop` knows of the rule. The model takes it as
the end of the process, with a new fortress after it.

*Object store.* A worker that became the drainer by a move of the primary opens
its fortress without flushing its stores, so `DrainSettles` speaks of the
guards' stores only. `prune` deletes without looking at the rows again once it
has the lock. `withLock` goes on extending for a moment after its end.

*Unit agent.* A crash between telling the controller of the new charm and
saving the upgrade loses the upgrade; a reboot's start hook, or the upgrade that
the loop begins with, replaces a saved upgrade or action; a crash after a task
was begun and before that was saved leaves the task running, as does one during
an action run in a hook error; one after an action finished and before its
commit leaves a state no resolver has an operation for (`Wedged`); one after
config-changed ran lets the recovery commit a configuration the hook has not
seen. `FinishTask` overwrites an earlier result: the watcher of tasks does not look at
their status, so that a late event of a task that has completed makes the agent
report it as failed. A leader-elected the operator
skips still makes the unit leader. The charm directory is open to others while
an upgrade is being deployed. `CancelTask` cannot succeed: its statement names a
column its type lacks. A conflict that is resolved deploys the charm it was for
even when a newer one is set.

One more was found by the proof of `HookOrder`, and lies beyond the run's single
crash. A machine reboots while a unit that has stopped waits to be removed; the
reboot resolver runs its start hook again, and the agent dies before that is
saved. The hook is then taken for one in error, an action is run in that error,
and a second crash leaves a saved state of kind run-action that records the
hook. The upgrade that `Loop` begins with takes its place, and
`deploy.interruptedHook` (`operation/deploy.go`) keeps the hook of run-hook and
upgrade states only. The agent has forgotten that start ran, and the unit is
removed without another stop. `HookOrder` names this window ("start" in `lost`)
and holds otherwise.

*Migration.* `GetActiveExport` hides terminal phases from the minions too: they
never see REAPFAILED or DONE. `ReportMinion` records a report for whichever
migration is active. A delayed Import may claim, after an abort released it, a
model that the source keeps, and leave it importing. The deletions of
`removeOnAbortImport` are not fenced by the claim, and `FinalizeAbortedImport`
does not look at the namespace: an Abort that was delayed may release the claim
between another's removal of the rows and its staging of the database, which
then stays behind. No worker re-drives an abandoned abort, though comments speak
of one. `activate.go:248-250` has a v8 import leave `model.activated` false,
`ImportModel` sets it. With two migrations of a model an Abort of the first that
arrives late aborts the claim of the second after its SUCCESS, which
`commitActivation` calls unreachable; the run is bound to one migration, and
says nothing of a second attempt while calls of the first are under way. A
migration started after REAPFAILED, with the master uninstalled, stays in
QUIESCE until the model's workers restart.

## 4. Proofs

`ChangeStreamProofs` proves `TypeCorrect`, `PruneSafe`
(`Spec => []UnreadNeverPruned`) and `BoundNeverMovesBack`
(`Spec => UpperBoundMonotone`) for any controllers, keys, buffer size and
number of rows, from `NumTermWatermarksAssumption` and `MaxChangesAssumption`.
`UnreadNeverPruned` is not inductive: the pruner looks at witness rows, the
property at streams. `IInv` joins them. Every witness is below the next id. For
each stream, its buffered views and its term are below the next id and its
buffered lower bounds do not exceed its upper bound (`BufferBounded`,
`TermBounded`), so a view that becomes the witness is behind what the stream has
completed. While it streams its witness is below `born` or not above its upper
bound (`WitnessBehind`), which covers the old row a restart finds. The pruner
then deletes only what is before `born` or completed. `LocalStep` carries the
invariant over the steps of one stream for all others, and
`RecordTermViewFacts` says what the cut buffer holds. The same invariant gives
the action property: popping a watermark keeps the newest view
(`PopKeepsUpperBound`), and a completed term lies above the bound it replaces
(`TermBounded`).

`LeaseStoreProofs` proves `StoreTypeCorrect`, `PromiseAlwaysKept`,
`ExportComplete` and `PinnedNeverLost` for any clock resolution and any durations, from
the assumptions `LeaseStore` makes of its constants.
`PromiseKept`, which speaks of the namespaces with a type, needs `Backed`: a promise is over, or its lease is held and the
promise ends before the second after the expiry does. That is the arithmetic of
the code: rounding up (`LeaseDurationLongEnough`) and the strict comparison of
the expiry worker (`SecondsPassed`) together make up for the truncated now
(`PromiseWithinExpiry`). The same invariant gives `ExportComplete`: a promise
that still runs has its lease with an expiry not before the present second,
and so not before the day began (`DayBegun`).

`FortressProofs` proves `FortressTypeCorrect` and `FortressImplementsAccess`,
`Spec => ImplementsAccess`, for any tickets, occupiers and waiters. That a
sealed fortress is empty (`SealedEmpty`) is not inductive, because the guard is
told of success some steps after the last visit ended: `PendingShut` adds that
while a Lockdown completes the gate is shut, and that its channel is closed only
when nobody is left inside. `StepImplements` maps each step to one of
`GuardedAccess` or to a stutter.

`ObjectStoreProofs` proves `ObjectStoreTypeCorrect` and `EarlyRowsAreKept`,
`Spec => []EarlyRowsKept`, for any controllers, paths, blobs, attempts and
restarts, from `ObjectStoreAssumption`. The invariant adds three facts. Before
the drain no store is on S3 and nobody drains (`NotStarted`), so every row that
counts is there when a list is made. A drainer past its list has each early row
still to copy or already in S3 (`ListCovers`), for each of several drainers. No
S3 store is about to delete an early row's blob (`EarlySpared`): a remove
deletes a blob only when no row named its hash, and rows from before the drain
never come back; a prune's list holds every early hash until it is turned into
the blobs to delete.

`DrainListsWrites` is an action property, `Spec => DrainListsOwnWrites`: the
step that completes the drain finds in its list what its own file store
acknowledged. It needs the fence (`FenceInv`): what was acknowledged has its row,
and a drainer from the end of its Lockdown on has its gate shut, from its list
on nobody inside, and in the list every write of its own store. A write of
another controller may be missing; the property does not claim it.

`ViewsAdvanceAlways` and `TermsCoverKeys` of `ChangeStreamProofs` take the
invariant further (`DeliveryInv`). The buffered views are ordered, and of the
term in hand every row up to its upper bound, and above the stream's, has its
key in the term with a change as new. What a poll puts into a term is the
greatest id of each key, which exists because a log is finite (`FiniteMax`).

`ChangeNotificationProofs` proves `SystemTypes`, `HandshakeHolds`,
`LiveSubscriptionServed` and `NoUpdateLost` (`SysSpec => []NoLostUpdate`) for any
keys, watchers, filters, masks and buffer length, on one controller
(`OneControllerAssumption`, which is how the composition is stated; see section
5). Each step of the system is a step of `ChangeStream` or leaves it alone
(`SysStepIsStreamStep`), so the stream's invariants carry over as they are.
`NoLostUpdate` speaks of some row ahead of the stream, which the pruner might
take or a later row make obsolete. `AheadInv` names the row: it is the newest of
its key (`latest`), beyond what the stream has read *or handed on* (`ReadBound`:
a term in the multiplexer's hands counts as read), and beyond the witness, so
that no prune removes it. When the term is handed over, `TermsCoverKeys` puts
the key of every such row into the dispatch; while it is dispatched
`TermHandshake` keeps the stream from completing it; when a dispatch ends, the
client is told or the subscription dies.

`LeaseManagerProofs` proves `ManagerTypes`, `ManagerWakesUp`,
`ReleaseJustified`, `ReleasePrompt` and `GrantedClaimKept` for any managers,
requests, waiters, durations and limits. Each step is a transaction of
`LeaseStore`, the passing of time, or leaves the tables alone, so the store's
invariant carries over. A manager between its timer's firing and its
`setNextTimeout` has no running timer: `LoopInv` adds that the timeout is then in
the past, so that the early return of `setNextTimeout` cannot leave the timer
off. For the waiters, `BlockInv` says that the loop knows all of them, `GoneInv`
that a key missing from what `checkBlocks` has read was free during the wait
of everyone who is waiting, and `DelayInv` that the timeout is set before the
bound of `PromptRelease`. `Covered` is what backs a granted claim in a namespace with a type: the promise in
the store is at least as long as the claim, or was withdrawn, through look-ups
that are stale, retries of what had been committed, and answers that arrive
after the manager died.

`UniterProofs` proves `UniterTypes`, `HooksInOrder`, `DirShut`, `ChangesReach` and
`ActionsRunOnce` for any number of actions, changes, crashes and failures, with
no assumption on the constants. Two things carry it. One is what the saved state
says of the world (`StateInv`, `CharmInv`, `RunInv`, `ConfigInv`): a start hook
that has run is committed, recorded or lost; the charm directory holds what the
controller was told unless a deployment is under way; a running task is the
operation's, the state's, or lost. The other is that every operation the
resolvers return fits that state (`NextAnswer`): the chains of `FirstOp` are
reduced to nested choices (`FirstOfTwo` and so on), and each resolver's answer is
shown to fit by itself. A crash then keeps the first part, and the steps of an
operation keep both. `ChangesReach` and the second half of `ActionsRunOnce`
follow from asking what it means that the resolvers return nothing
(`SettledAgrees`). The invariant was checked on two instances before it was
proved: the run's, and one with three crashes and no failure.

`MigrationProofs` proves, for any finite set of agents and any number of
failures, restarts and handlers left behind, `MigrationTypes` and
`AgentsQuiesced` for every migration of a model, and `PointOfNoReturn`,
`AgentsFollowPhase`, `SingleOwner` and `ClaimCovers` (`CommitAgreed`,
`AgentsFollow`, `SoleOwner`, `ImportClaimed`) under `FirstMigration`: until a
second export is made. The hypothesis is needed: a late Abort of the first
migration aborts the claim of a second, and a migration after REAPFAILED begins
with the model still committed on the target (section 3). The invariant follows
the source's phase. `MasterInv` says where the master may be in each phase and
that the source's fortress is shut from the export on; `AgentInv` that agents
which reported QUIESCE stay quiet until the phase lets them go; `TargetInv`, for
each phase, which calls can be running on the target, live or late
(`CallsOfPhase`), and what of the model they can find there (`Untouched`,
`DuringImport`, `DuringValidation`, `AfterSuccess`, `AfterAbort`). The fences of
`import_guard.go` are what makes it inductive: a late Import stops at each
transaction whose claim is no longer its own.

Only model-checked. Liveness is out of the prover's reach: `EventuallyInformed`,
`EveryRequestAnswered`, `LockdownEnds`, `UnclaimedWorkerEnds`, `DrainSettles`,
`DyingUnitEnds`, `MigrationEnds`. Every invariant and every action property
of the passing runs is stated by a theorem. Where the proof needs a set's
greatest or least element (the newest row of a key, the earliest expiry, the
first operation of a chain) it is taken from finiteness or well-foundedness; no
recursive definition is involved.

## 5. What is not modelled, and the plan

Left out on purpose: metrics, reports, traces, back-off times, the warning about
the pruner's window, formatting of errors. A transaction is atomic and
serialisable, as Dqlite's are. The case of the database runner that reports
success for a commit cut off by a cancelled context is covered where it matters
by calls that fail or die. A subscription accepted before a *new* controller's
first witness row exists is only in the one-controller composition, where no
other controller prunes.

Of the unit agent, relations, storage, secrets, run-commands, workload events
and update-status are left out: they follow the same pattern of resolver and
operation, each with a state of its own that would multiply this one. The event
of a task that arrives after the task has ended is left out too. Of a
migration, what prechecks and the envelope contain, the older import path, and
the provider. Of the object store, reads, temporary files, hash checks and S3 to
S3. Providers and clouds behave as no code here defines; facades and the RPC
server are mostly I/O and authorisation; the domain services hold most of the
repository's lines, as SQL statements over single transactions whose correctness
is a matter of the schema rather than of steps and interleavings.

Next modules, in order:

1. `LeadershipTracker` on `LeaseManager`'s contract (tickets, leader and minion
   transitions, renewal against expiry), with an abstract `Leadership`
   specification and the singular flag worker beside it.
2. The database upgrade's agreement of the controllers, and removal jobs.
3. The database accessor: node start-up, handover, trackers.
4. Relations in `Uniter`; a second migration attempt in `Migration`.

Abstract specifications worth stating: a lossless notification register per
client that `ChangeNotification` implements, an exclusive, timed lock that
`LeaseStore` implements, and a hand-over of one owner that `Migration` does.

Next theorems: that `ChangeNotification`, `LeaseStore` and `Migration` implement
those specifications, from the invariants proved here; what does hold of a second
migration of the same model, with the late calls of the first named; and the
contract of a leadership ticket once its module exists.
