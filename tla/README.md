# A verification model of Symphonia

Symphonia is a self-hosted hub for music libraries: it imports playlists from streaming providers,
keeps a local library projection, and copies playlists from one provider to another.
Everything that takes time is a *durable operation*: a row of a SQLite table which polling workers
claim under a lease.
This directory models that core and its edges (provider requests, the dashboard, backups) in TLA+, checks the
models with TLC, and proves with TLAPS, for every value of the constants, the safety properties that the passing runs check:
of the repository, the copy and its contract, imports and the library, the reading of playlists, the account and plan
stores, the provider adapter, the dashboard, the backup and the staging tool.

Paths below are relative to `src/symphonia/` in the repository.
Each TLA+ definition is tied to its source lines in `PROJECT.json` ("map").

## Inventory

| Component | State it keeps | Operations | What is hard | What must hold |
|---|---|---|---|---|
| Operation repository, `infrastructure/sqlite_operation*.py` | tables `operations`, `operation_events` | create, claim, claim_next, renew_lease, checkpoint, schedule_retry, schedule_rate_limit, cancel, resume, resolve_cancelled_outcome | several processes share the file; clock samples are taken before the write lock is; cancellation meets leases | an owner exactly while running; finished is final; a live lease is not stolen; a cancelled operation with an uncertain step ends only by resolution; the audit trail agrees |
| Queue summary, `infrastructure/sqlite_operation_diagnostics.py` | none | count what is eligible, expired, to be recovered | it repeats the claim conditions in SQL of its own | it counts what `claim_next` would take |
| Runner and worker, `application/operation_runner.py`, `operation_worker.py` | none (worker process) | poll, dispatch, fail on exception or without a handler, stop | handler and row out of step; exceptions at any point | a claimed row never stays behind; the loop survives lost leases |
| Copy execution, `application/copy_execution*.py`, `copy_checkpoint.py` | the checkpoint of its row; an in-memory copy | ensure target, copy entry, reconcile, confirm, reject, retry, wait | crash or stall around a provider write; writes carried out late; takeover | each step at most once, in plan order; confirmed means written; the plan comes to an end |
| Import execution, `application/library_import*.py` | checkpoint; snapshot of one playlist | collect pages, publish, complete | cancellation and takeover while reading; publication in another table | nothing is published without the lease; a published import is reported as such |
| Library projections, `infrastructure/sqlite_library.py`, `sqlite_publication_guard.py` | snapshots, current pointers | publish, read | out-of-order publication | the pointer moves only forwards; a snapshot is immutable |
| Page collection, `providers/importing.py` and the readers | pages so far | read a page, stop | duplicates, cursors that repeat, limits | no page twice, completeness reported truthfully |
| Provider connections, `infrastructure/sqlite_connections.py` | connections with probe results | create, record_probe, disconnect | a probe's result arrives after a disconnect | a disconnected connection stays so |
| Authorization attempts, `infrastructure/sqlite_authorization.py` | attempts | create, consume, deny, expire, fail | two callbacks at once | an attempt is consumed at most once |
| Copy plans, `infrastructure/sqlite_plans.py`, `application/copy_workflow.py` | plans | save, accept, enqueue | repeated submission | a plan is immutable and runs once |
| Resolutions, matching, identity | user decisions; none | record; normalise and score | pure data | – |
| Provider adapters, `providers/*.py` | none | HTTP calls, error mapping | an answer that is late, lost, broken off or not from the provider | an outcome that is not known is called unknown |
| Backup, `runtime/backup.py` | a temporary file, the destination | check, copy, validate, replace | failures and crashes between the steps, concurrent backups, a runtime that writes on | the destination is never half written nor unsound |
| Runtime, HTTP, dashboard, `runtime/*.py`, `ui/src` | the view and snapshot in the browser; open connections | attach, refresh, cancel, serve, time out | answers that arrive after a newer read or a removal; clients that block a single-threaded server | a late answer changes nothing; a refresh ends |
| App staging tool, `tools/stage_ha_local_app.py` | a managed directory and its manifest | stage | interruption between files and directories; a tree that changes between runs, files into directories and back included; files of others | a staging can be resumed where nothing changes its kind; no file of the tool is orphaned |
| Other tools, `tools/*.py` | none | run once | – | – |

How they interact: every repository opens the same SQLite file and writes in `BEGIN IMMEDIATE`
transactions, so a repository call is atomic and the calls of several processes are serialised.
A worker claims a row, reads it back in a second transaction, and hands it to a handler; the handler
calls the provider and the repository alternately. Users act on the same rows through `cancel`,
`resume` and `resolve_cancelled_outcome`. Nothing but the row tells a worker that it lost its lease.

## Modules

| Module | Models | Composed with |
|---|---|---|
| `SqlNull`, `WallClock` | the constant NULL; the host's clock and the samples callers hold | shared |
| `OperationRules` | what each transaction does to one operation row, as state-free operators | used by all operation modules |
| `OperationStore` | the table, its newest audit event and the clock under arbitrary callers | `OperationRules` |
| `OperationLife` | what the repository promises about one operation, without states, leases and clocks | refined by `OperationStore`, once for each operation |
| `QueueDiagnostics` | the queue summary | `OperationStore` |
| `OperationStoreProofs` | inductive invariant and action properties of the table; its operations live as promised; the summary agrees with `claim_next` | `QueueDiagnostics` |
| `CopyCheckpoint` | the copy checkpoint: validation and the edits a run makes | `OperationRules` |
| `CopyExecution` | workers, direct callers, runner, copy handler, provider and users around one operation row | `CopyCheckpoint` |
| `CopyContract` | what a copy promises, without workers | refined by `CopyExecution` |
| `CopyCheckpointProofs`, `CopyProofs` | what the edits of a checkpoint preserve; the invariant of a copy, its properties and its contract | `CopyExecution` |
| `LibraryProjections` | snapshots and the current pointer of a playlist: publish, and what may replace what | `SqlNull` |
| `ImportExecution` | workers, runner, import handler, publication guard and users around one import, beside other imports of the playlist | `OperationRules`, `LibraryProjections` |
| `ImportContract` | what an import promises its user and the library, without workers, leases and pages | refined by `ImportExecution` |
| `ImportProofs` | the invariant of an import and of the library, what follows from it, and the contract | `ImportExecution` |
| `PageCollection` | the collector's loop over the pages of a read, and the definition of a whole reading | |
| `PageReading` | the adapters' paging loops against honest, edited and wrong providers | `PageCollection` |
| `PageProofs` | the collector's loop invariant; quiet readings; what runs down in every reading | `PageReading` |
| `WriterContract` | what the copy relies on when it calls a writer | refined by `ProviderRequests` |
| `ProviderRequests` | one write through the Spotify adapter | `WriterContract` |
| `DashboardStore` | the browser's store, the component and the server they read from | `SqlNull` |
| `EdgeProofs` | the adapter implements its contract; the dashboard is fenced; types of the joint instance | `MCEdges`, `PageProofs` |
| `StoreBackup` | concurrent backups beside a live runtime | `SqlNull` |
| `AppStaging` | the staging tool, interrupted anywhere | |
| `ProviderConnections` | registration, probes and disconnects | `WallClock` |
| `AuthorizationAttempts` | attempts and the callbacks that settle them | `WallClock` |
| `CopyPlans` | building, saving, accepting and submitting plans, `execute` included up to its claim | `WallClock`, `OperationRules` |
| `StoreProofs` | the promises of connections, attempts, plans, backups and stagings; types of the joint instance | `MCStores` |
| `MC*` | instances for TLC; `MCStores` joins connections, attempts, plans, backup and staging, `MCEdges` page reading, provider requests and the dashboard | |

### OperationStore

A row is a record with the columns of `operations` that decide anything; idempotency key and payload
are left out (the identifier stands for the key: a second `create` changes nothing), and so is
`updated_at`, which no decision reads. A checkpoint is reduced to the step in doubt, the
reconciliation flag and an abstract amount of confirmed progress. Each method is one action; its
guard is the condition under which the method writes. Calls that raise or return early are stutters.
`Samples` are the clock values a caller may be holding: up to `MaxStaleness` old. `claim_next` may
quarantine one row *and* claim another in the same transaction, with the code's two orders, and only
the claim honours the type filter.

`OperationLife` is the view of a user who knows nothing of leases: an operation exists, somebody may hold it, a
cancellation may be pending, a step may be in doubt, something is confirmed, and it may have ended. `LivesAsPromised`
instantiates it for every row at once (`claim_next` moves two). `Cancel` there may end an operation in
doubt if nobody holds it, because the code does; the specification disagrees, see `copy_cancelled_in_doubt`.

`QueueDiagnostics` adds no state: its operators are the queries of the summary, compared with the sets
`claim_next` chooses from.

### CopyExecution

One operation, several workers. A worker is at a *point*, named for the call it makes next, and holds
the checkpoint dictionary the handler has in memory. Every repository transaction and every provider
call is an action, so crashes, stalls, takeovers and user interventions fall between any two.
`renew_or_stop`, `checkpoint_running`, `finish` and `schedule_*` are `Renew`, `Save`, `Schedule`; a
`LeaseConflict` ends the run and the worker polls again. The two steps that look alike in the code,
`ensure_target` and `_copy_entry`, are one set of actions; step 0 is the target.

Workers in `Callers` may also be called: `ClaimDirectly` and `LoadDirectly` are `execute`, which goes on with the
record that `claim` read back without asking who owns it, and whose exceptions are its caller's matter. Workers in
`Outdated` may run without the copy handler (`Unhandled`). `Stop` is the stop event of the polling loop.

Time is relative: the clock is always 0, leases and wait times are what is left of them, and `Tick`
ages both down to `-MaxStaleness`, below which no sample can tell them apart. This keeps the state
space finite without stopping the clock, which liveness needs.

The provider is external. `Send` puts a request under way; it may be carried out while the worker
waits (`Apply`), be refused, or be given up by a timeout, an exception or a crash, after which it is
lost or carried out at any later time (`ApplyLate`). The only facts taken from the write contract in
`providers/writing.py` (`WriterContract`) are that a success was carried out and that `RETRYABLE`, `RATE_LIMITED` and
`PERMANENT_FAILURE` mean it never will be. Reconciliation answers "found" only if the step was
carried out, and may always fail to find it, as Spotify's does.
A resolution is assumed to be established by the operator (`Established`).

### LibraryProjections and ImportExecution

A playlist has a set of possible snapshots, each with the revision its reader observed first; the
pointer names the current one. `Publish` is one transaction: insert or find the snapshot bound to the
same content, then move the pointer if `Supersedes` allows. Content is compared as a whole.

`ImportExecution` uses the workers and the relative time of `CopyExecution`. Until the first page a run uses the time of
dispatch, at which its lease is fresh: the first renewal extends nothing (`Open`), and a cancellation or an unusable counter
found there, or the runner's failure, is saved whether or not the lease has run out since (`SaveAtDispatch`), as long as the row
is still its own. Later calls sample the clock. A run renews before each
page, reads it, looks at cancellation, renews once more, publishes under the guard (`MayPublish` looks at the
row again, inside the publishing transaction), reads the current snapshot back, and records the end in a
*separate* transaction. `PublishOther` is the direct import of another caller, without an operation.
Readings are complete or not; a playlist that changes is observed under another content (`ChangePlaylist`).

`ImportContract` sees a shelf of snapshots, the one shown, whether somebody is at work (the row is running), whether a
cancellation is pending (its flag) and the outcome. It says what the publication, the cancellation and the outcome owe
each other. It does not say that a published import succeeds, because the code does not keep that: see `import_unrecorded`.

### PageCollection and PageReading

`PageCollection` is the loop of `collect_playlist_pages`, page by page and entry by entry, with its two sets of
seen cursors; `Whole` is the reference: what a list of pages must look like for the result to be complete.
`PageReading` produces the pages the way the adapters do (`ReadOffset`: Spotify and Apple Music,
`ReadToken`: YouTube, `ReadAny`: any implementation of the port) from a provider that answers honestly for a
playlist a user may edit between two requests, or wrongly. `Constructed` is what the constructors of pages and
entries demand: the pages of an arbitrary adapter are chosen among those that pass, and those of the two readers are
shown to pass. The items of a playlist are its occurrences, so they are distinct.

### ProviderConnections

`RecordProbe` is a compare-and-set against the row that `BeginProbe` read; the provider's answer, other probes
and disconnects fall in between. The service and the repository read the row twice, the second time only to
refuse early; the conditional update decides, so the two are one action. `overtaken` is a history variable.
An expiry is never set by a caller and is left out.

### AuthorizationAttempts

A callback is two transactions, `ResolveCallback` and `CompleteCallback`, with one time, that of its receipt.
`consume`, `deny` and `expire` by identifier are actions of their own. Tokens are fresh, so an attempt stands for
its token. `told` records what callers were told.

### CopyPlans

A plan is its own digest (SHA-256 over all its fields). `accept`, `enqueue_accepted_plan` and `execute` read and
check the plan (`ReadPlan`) and act in later transactions. `Create` inserts under a new identifier or returns
what the key is bound to; here, unlike in `OperationStore`, identifiers and keys are different things.
`Elsewhere` stands for `CopyExecution`.

### WriterContract and ProviderRequests

One write of the Spotify adapter: checks, the token, the HTTP exchange, and the classification of the answer
(`OfSuccess`, `OfError`, `Outcome`). The provider carries the request out or drops it at any time, also after the
client gave up, and answers with any status and body that is `Truthful`: a client error means a dropped request, a
201 with an identity a carried one; redirects, server errors and other successes mean nothing. Exceptions that the
client does not classify (a body that breaks off in an error answer, a blank error code) are a verdict of their
own. `CopyExecution` relies on `WriterContract` alone: the verdicts there are the answers its provider gives.

### DashboardStore

The `generation` counter fences answers; `Aborted` is `AbortController.abort`, which rejects a fetch that has no
answer yet and leaves one that has. A step of the store runs to its `await`. The server takes one connection after
another; `DropStranger` is the per-socket timeout. A restart resets what is in its backlog.

### StoreBackup

`create_backup` is one action per step, with the live database committing and possibly being damaged in between.
A temporary file belongs to its backup, because its name is unique. `CopyStore` holds the transactions of one
moment, as SQLite's backup in a single read does. A crash is a `FailBackup` that leaves the file.

### AppStaging

Paths lie below each other (`Above`), and a path may be a file in one source tree and a directory in the next; the tree
to stage is chosen anew in each run. `Admitted` is all that `_managed_files` and `_validate_managed_paths` refuse: a manifest
that does not parse, a file where a managed or new path needs a directory, a new path that is there already, be it a
directory. Every file written or removed, and every directory that `_remove_empty_parents` tries to remove, is a
step; the directories of a file are made with it, unless the run dies in between (`InterruptMkdir`). `EmptyManifest` and
`WriteManifest` are the two halves of `Path.write_text`. `PutFile` and `Take` are somebody else at work in the
directory, `ClearDirectory` is the way out of a refusal; the history variable `alone` records that nobody else was.

## Runs

| Run | Question | Bounds |
|---|---|---|
| `store` | do the invariants and action properties of the repository hold under any calls, does each operation refine `OperationLife`, and does the queue summary agree with `claim_next`? | 2 operations, 2 workers, lease 1, clock to 2, samples 1 old, 1 step, progress 0..1 |
| `copy` | is the copy safe under takeovers and faults, and does it refine `CopyContract`? | 2 entries and the target, 2 workers, both also callers and possibly without the handler, lease 1, samples 1 old, 1 retry, 2 faults |
| `copy_liveness` | does it settle, from whatever checkpoint, does a cancellation take effect for good, and is a contradictory checkpoint left alone? | 2 entries, 448 stored checkpoints, 2 workers of which one is reliable, 2 faults |
| `import` | is only a live, uncancelled owner's reading published, does the import refine `ImportContract`, by which the library only advances, and does it settle? | 1 page, 2 workers of which one is reliable, 1 fault, lease 2, samples 1 old, 1 change of the playlist, 1 other import observed later |
| `pages` | is a reading complete when it is called so, faithful when nobody edits, and finite? does the adapter keep the writer's contract? do late answers leave the dashboard alone, and does a refresh end? | playlists of up to 7 items, pages of 2, at most 3 pages of arbitrary adapters, 1 edit; one write; 3 reads, 2 changes of the data, 1 silent client, 1 restart |
| `stores` | do connections, attempts, plans, backups and stagings keep their promises under concurrent calls, failures and crashes? | 2 connections, accounts and probers; 2 attempts, providers and callbacks, 1 second to live; 8 plans, 2 stored, 2 users; clock to 2, samples 1 old; 2 backups, 2 commits; 4 paths to stage on three levels, of which two may be files or directories |
| `copy_cancelled_in_doubt`, `copy_failed_in_doubt`, `copy_late_failure`, `copy_fenced_worker`, `import_unrecorded`, `staging_not_resumed` | do six statements of the documentation and of comments hold? They do not; see below | smallest that shows it |

Why these bounds are enough to be interesting: with a lease of one tick and samples one tick old a
claim can be made on a lease that is expired in real time, renewals race with takeovers, and both
workers can be at any two points of the handler at once, so takeovers happen without spending a
fault. Two entries and the target make plan order, prefixes and "the step after the confirmed one"
visible. Two faults allow a crash of the successor after a stall of the owner. One retry reaches both
the wait and the exhausted budget.
An import of one page passes every point of the handler; a second page repeats the first ones (what more
pages add is `pages`' matter). Its lease is two ticks long so that samples may be one tick old and a run can still end.
Three pages of an arbitrary adapter are enough for an overlap, a cycle and a gap that is closed again.
Three levels of paths let a run die between two directories, and a path change its kind above and below another.
In `stores` the parts share at most the clock, and in `pages` nothing, so one of them acts in a behaviour and the
state spaces add up. Three reads of the dashboard are one that is shown, one that is late and one that overtakes it;
two backups and two commits let the older backup replace the destination last. One plan in eight can be accepted there; calls for different plans do not meet.

`CancellationTakesEffect` says more than that the operation settles again: from some point on it has ended or waits for its
resolution, for good; a retry or a resumption that carried a pending cancellation would break it and settle all the same.

Fairness of the workers (`copy_liveness`, `import`): a worker that is up takes its next step, and time passes. Steps end
because provider calls have timeouts (`providers/http_json.py`). Nobody is assumed to restart a worker;
instead one worker suffers no fault. A tick that would end the lease of a worker at work counts as a
fault of that worker, since a timely worker renews before each call. The clock samples of `copy_liveness` are
current: with samples as old as a lease is long, every claim would be void and nothing could ever be
done.

Fairness of the dashboard (`pages`): the server's loop takes the next connection, a silent client is dropped by the
timeout every connection has, and the continuation of a settled promise runs. Nobody is assumed to press a button or
to attach the component. Not covered: a client that sends a byte now and then, which a timeout per socket call does
not end, and a fetch whose answer never comes although its server lives; the browser sets no timeout of its own.

### What the violation runs show

* `copy_cancelled_in_doubt`: wait for the user with a step in doubt, resume, cancel before a worker
  claims: the row is queued, so `cancel` ends it as `cancelled`, with `unknown_step` in place and
  without the reconciliation flag. The specification excludes a terminal `cancelled` with an unresolved outcome.
* `copy_failed_in_doubt`: any exception but `LeaseConflict`, a transient store error for example, makes the
  runner fail the operation with the step still marked. A failed operation is never resumed, although the
  specification lets it resume after the store is healthy.
* `copy_late_failure`: that failure is saved with the time of dispatch, so the expiry check of `checkpoint`
  cannot refuse it.
* `copy_fenced_worker`: the row is read back after the claim was committed. If it was taken over by another
  process in between, the handler raises `ValueError` rather than `LeaseConflict`, and `run_forever` ends.
* `import_unrecorded`: the publication commits, the lease runs out before the final checkpoint, and another
  worker or a user's cancellation ends the import as `cancelled` although its snapshot is published. By the same gap
  an import can end as `failed` although it published: the successor reads changed content, which the bound snapshot
  refuses, or reading the current snapshot back raises.
* `staging_not_resumed`: "Record the union first so an interrupted stage can be safely resumed", says the tool. A run
  that stages `a/b` is interrupted before it makes the directory, the next one stages `a` as a file and is interrupted
  too. The manifest now names both, and every later run is refused ("staged parent is not a directory"), whatever it
  stages, until someone empties the directory.

## Proofs

Each proof module states one inductive invariant per component, shows that every action keeps it, and derives the
properties from it. The theorems a reader should know of are listed in `PROJECT.json` ("theorems").

### The operation repository

`OperationStoreProofs` proves `StoreInv`, the conjunction of type correctness, row shape, quarantine flag and
agreement of the audit trail, inductive for all constants: any sets of operations, workers and steps, any
lease length and clock staleness. The conjuncts need each other: a claim clears `nextRun` only on a row
whose shape says which columns are set; a cancellation keeps the flag only because no other state
carries it. One lemma per transaction says what it does to a row that satisfies `RowInv`; a step then
changes at most one row (`claim_next`: two). The second part characterises one step from the point of view of one
row (`StepByRow`) and derives the five action properties; `TerminalNeverChanges` is one that no run checks by itself,
because `LivesAsPromised` says more of an ended operation's outcome.
`OperationsLiveAsPromised` is the refinement of `OperationLife`, for every operation at once: one lemma per
transaction names the abstract step it is (`LifeOfClaim` a `Take`, `LifeOfUser` a `Cancel`, a `Resolve` or none, and so on).
`StoreInv` is needed there: that a running row has an owner makes a checkpoint a `Record`, that a row which waits for the user
under a cancellation has none makes an answer a `Resolve`, and that the flag goes with such a row keeps `cancel`
from parking it twice. `FreshInv` (a row that does not exist is empty) makes a creation a `Submit`.
The third part (`SummaryCorrect`) shows that the sets the summary's queries select are the sets
`claim_next` chooses from. Only the recovery count needs `StoreInv`: an operation cancelled while it waits for
the user carries the flag that a resolution demands.

### The copy

`CopyProofs` is about any number of workers (outdated ones and direct callers among them), entries and faults, any
retry budget and clock staleness. Its invariant `CopyInv` has four parts besides types:

* `RowInv`: the shape of the row, and that a row which succeeded or waits for a retry has a readable checkpoint.
* `EffectsInv`: no step was carried out twice, and whatever was carried out is recorded as done or is the step in
  doubt, until the operation is finished.
* `OwnersInv`: what the owner of the row holds at each point of the handler: the row's own checkpoint; from `step` on
  one that parses; while a request is near, the next step in plan order is the one in doubt; at a point that follows
  a refusal, nothing was carried out and nothing is under way; at one that follows a success, it was carried out.
* `RequestsInv`: at most one request may still reach the provider, whether its sender still owns the row, has lost it,
  or has given up and left it to be carried out late; it is for the step in doubt, which was not carried out yet.

Of a worker that lost the row nothing is said but the last part, and that is why the last part is needed: `AtMostOnce` by
itself is not inductive, because a fenced worker may be at any point with any checkpoint. What makes it so is that the
intent stays durable (`IntentStaysDurable`): the mark cannot be taken back, nor the step sent again, while a request for it is
alive, since a success, a refusal or a reconciliation that found it was told of that very request, and a resolution is
established by the operator.
`CopyCheckpointProofs` has what the proof needs to know of checkpoints: which edit keeps `Parses`, what it adds to the
steps done, that the processed entries are a prefix of the plan, and that a step in doubt is the next one.

From the invariant follow `NothingIsWrittenTwice`, `FinishedCopyIsQuiet`, and `GoodStep`, which says how one step may change row
and effects together (`RecordStep`, `EndStep`). `GoodStep` is what the rest is derived from:

* `ContractKept`: the copy refines `CopyContract`, initial states and step by step; a step of the copy is one step of the
  contract or a stutter. The contract starts with an empty account, so this is for a row that starts fresh, the way `enqueue`
  creates it (`Stored \subseteq {FreshCheckpoint}`).
* `ContradictionStops`: for whatever was stored.
* `ProgressStaysReadable` and `CopyTypeCorrect`: from stored checkpoints that the parser accepts, respectively that
  are within the plan and the retry budget. Other checkpoints are what `copy_liveness` starts from to see the copy stop;
  the code keeps them as they are, and the conclusions are false of them at once. The run `copy`, which checks these
  properties, starts from a fresh checkpoint, which satisfies the hypotheses.

### Imports and the library

The invariant of `ImportProofs` says of the row that a success was told of a published snapshot; of every run, whether it owns the
row or not, that it publishes whole readings only and is past publication only if the snapshot is there; and of the
library that the current snapshot is newest. The part about the runs need not mention ownership: a published
snapshot stays, so what a stalled run learned stays true. `CurrentSnapshotIsNewest`, `SuccessIsPublished`, `LibraryNeverGoesBack`,
`OnlyOwnerPublishes` and `NothingPartialIsPublished` are the safety properties of the run `import`, except that
`LibraryOnlyAdvances` is checked there as part of the contract.

`ImportKeepsContract` is the refinement of `ImportContract`. It needs `AskedInv` beside the invariant: a pending cancellation is
found only in a row that is running or waits for the user, a row that needs reconciliation has one, and a run that is about
to record a cancellation and owns the row has seen one there. The last part cannot do without the ownership: for a run
that lost its lease the row may have ended since, and its flag with it. One lemma per transaction
(`CheckpointedPromise`, `ScheduledPromise` and so on) names the step of the contract it is, `RowMovesAsPromised` and
`PublishAdds` carry it over to the contract's variables, and `StepPromised` takes every action of the import through them.

### Reading a playlist

`PageProofs` proves `CompleteReadingIsWhole` for any number of pages of any length, from any adapter. `LoopInv` says what
a pass up to entry `k` of page `p` has established: the tables hold the cursors seen, the result is still complete
exactly if nothing seen so far keeps the pages from being whole (`WholeSoFar`), and then it holds exactly the entries
taken. The last step is `InPlaceMeansWhole`: positions of distinct entries that number as many as there are entries and fill `0..n-1` are
positions without a repetition and without a gap; it rests on the cardinality theorems for finite sets.
`QuietReading` adds `QuietInv`: a reading that nobody disturbs has the entries of the first `Offset` items, its pages form a chain
whose cursors grow, and the position that the reader counts is the provider's offset; so it is refused only at the page limit.
`ReadingTypeCorrect` shows that the pages the two readers build pass the constructors.
`ReadingRunsDown` is as much of `ReadEnds` as can be proved here: four numbers, compared in order (stages left, pages that may
still be read, pages to collect, entries to take on this one), are natural throughout, every step of a reader or of the
collector makes them smaller, and an edit of the playlist leaves them alone. That a step is taken at all is fairness and stays with TLC.

### The stores

`StoreProofs` proves `OneCallerIsToldAlways` for attempts (`told` has at most one entry, and it is what the row
says) and, for connections, `DisconnectIsTheEnd` and `NewerObservationWins`. The latter two rest on what
holds of the row a probe has read (`Watched`): it is disconnected by now, or not older than what was read, and
strictly newer once `overtaken` is set; the compare-and-set then refuses.
For plans, `AdmissionCorrect` and `FirstAcceptanceStands` follow a plan through a call (`CallsFollow`): what the first
transaction checked stays true until the second acts on it, since a plan is stored under its content and an acceptance is never
withdrawn; `OperationsFollow` then gives one operation for each accepted plan.

### The edges and the files

`AdapterKeepsContract` (`EdgeProofs`) is a refinement: initial states map to initial states, every step to
a step of `WriterContract` or a stutter. Its invariant is needed because the answer and the verdict come apart: an
answer stays true of its request, since what was carried out stays so and what was dropped stays dropped.
`DashboardIsFenced`: off the page no read counts; the one that counts is the newest; its
answer was served after what is shown, and the stored data only grow. Without the third part a late answer could be
older than the snapshot.

`BackupIsWhole` (`StoreProofs`) follows a temporary file from its copy to the replacement: never older than the
start of its backup, and sound from its validation on.
`StagingCanResume` says for each part of a run which files the tool may have left: those of the
old manifest before the removals, old and new during them, the new ones after; the union recorded first covers all.
In a directory nobody else touches (`AloneInv`) there is more to say: all files are the tool's, and a directory in the place
of a managed file lies above another managed file (`Turned`). Where the paths fit together there is no such
directory, so nothing the tool left behind refuses the next run or stops the current one.

### The joint instances

The proofs above are about the specification of one component, the runs `stores` and `pages` about several that act side by
side. `JointRunsTheStores` and `JointRunsTheEdges` close the gap: a behaviour of `MCStores` is a behaviour of every part,
and one of `MCEdges` is one of the request and of the dashboard, and of the reading if that is what acts (where it does not,
it is over from the start, which is no initial state of a reading). `StoresTypeCorrect` and `EdgesTypeCorrect` are the type
invariants of the two runs, from the invariants of the parts; the dashboard's needed `PageInv` beside what the fencing rests on.

### Assumptions, and what is only model-checked

The proofs assume the named `ASSUME`s of the modules and nothing else, apart from the three hypotheses on `Stored` above.
Times and bounds are natural numbers, `NULL` is none of the values it stands beside, a fresh value is fresh, a stored
checkpoint is one a JSON document can decode to and is not flagged for reconciliation (the row starts queued), and the
pages of an arbitrary adapter pass their constructors. TLC evaluates each of them in a run.

Every safety property that a passing run checks is proved for all values of the constants, as a theorem of the same
specification or of the component's. Only model-checked are the liveness properties: `AlwaysSettlesAgain`, `CancellationTakesEffect`,
`ReadEnds` and `DashboardSettles`. They rest on fairness, and the prover has no rules for `ENABLED`. Of `ReadEnds` the
variant is proved. The violation runs show a counterexample each and are no matter for a proof.

## Not modelled

See "components" in `PROJECT.json`. Abstracted everywhere: JSON encoding and its validation, audit payloads,
redaction, wording. A stored import payload is assumed to parse, since `enqueue_playlist` writes it.

Left out, with the reason:

* Match resolutions (one insertion each, into a table nobody updates), matching and identity (pure text
  normalisation and scoring).
* The error mapping of reads and reads other than those of playlist pages: `ImportExecution` lets a read fail
  in every way an import tells apart (retry, rate limit, for good), whichever error is behind it. Spotify is the only adapter that writes.
* Opening and closing the repositories, the other routes and the rendering: sequential code without shared state.
* A container laboratory, a linter and two experiments under `tools/`: scripts that run once.
* Symbolic links, and empty directories that somebody else makes, in the staging tool.

Some things are modelled and deliberately carry no property. Two edits that fall between two page requests can give a
reading that is complete and mixed; the code cannot tell and promises nothing. A callback received in time may
consume its attempt long after the deadline, with the time of its receipt, by design of the interface. A manifest that
a crash left half written stops every later staging until someone empties the directory; `StagingResumes` excludes it.
A source tree that turns a managed file into a directory, or the reverse, is refused even after a staging that finished; a tree
without that path has to be staged in between, so `StagingResumes` speaks of trees that keep the kinds (`KeepsKinds`).
A crash between two removals of empty directories leaves one that no later run removes; it may stand in the way of a
new file of that name. A disconnected row keeps its account, which therefore cannot be registered again under any
identifier, although the specification speaks of a new, independent setup (`Taken` of `ProviderConnections` models the refusal).
`CompetingObservationWins` tells two writes of a connection apart by their time; three observations at one time that
lead back to the row a slow probe read would not be noticed by the code either.

## Plan

Done: models, runs and proofs of safety for the operation repository and its summary, copy execution with both entries and its
contract, import execution with the library, page reading, provider requests, connections, attempts and plans, backups,
the dashboard and staging.

Refinements: the copy, the adapter's write, the operations of the repository and the import, each of its contract.

Next: the error mapping of the reading adapters, so that `ImportExecution` can rely on a contract of readers as
`CopyExecution` does on one of writers.
