# reroll-sync: TLA+ models, checks and proofs

reroll-sync is a daemon that mirrors the metadata of PyPI's wheels and converts
it to conda repodata. It polls PyPI's index, reconciles each changed project
into a SQLite table of wheels, downloads each wheel's METADATA, appends it to an
archive of compressed segments and converts it. Everything runs in one process
with many threads, one SQLite writer thread, and a crash model: what is not
committed, and the segment that is not sealed, is lost.

This directory models the parts of the daemon where threads, failures and
restarts meet. Line numbers and names refer to `src/reroll_sync/` in the
repository.

## 1. Inventory

| Component | State | Operations | Talks to | What is hard |
|---|---|---|---|---|
| Writer (`writer.py`) | bounded queue, batch, `change_seq`, stop flags | `submit`, `submit_and_wait`, `stop`, the thread's loop, upkeep pragmas, `_fail_fatally` | every other component submits write ops | callers against stop, one op of a batch failing, a failing COMMIT, a full queue, restart of the counter |
| Dispatcher (`dispatcher.py`) | in-flight sets, claim cursors; tables `wheels`, `work`, `skips`, `wheel_repodata` | `claim`, `release`, `apply_outcome`, `reprocess` | all stages | outcomes applied to rows that changed since they were claimed |
| Project sync (`ingest.py`, `stages/project_sync.py`) | pending names, project backoff | `sync_project`, `apply_project_outcome`, `ingest_stale_projects` | index poll, breaker, writer | a plan made from rows read earlier; failed projects |
| Index poll (`stages/index_poll.py`) | etag | `poll_index` | project sync's pending set, the same breaker | a 304 that hides work not yet done |
| Fetch stage (`stages/fetch.py`, `fetch.py`) | the batch, the byte-budgeted queue | `iterate`, `fetch_one`, `put`/`get`/`release`/`close` | dispatcher, archive thread, breaker, disk guard | backpressure, shutdown in mid-batch, in-flight bookkeeping over two threads |
| Archive (`archive/`, `ArchiveHandoff`) | segment files, `segments` and `blobs` rows | `add`, `_maybe_seal`, startup recovery, `verify_archive` | writer, convert stage | two stores that are not updated atomically |
| Convert stage (`stages/convert.py`, `convert.py`) | fed queue, futures | `on_archived`, `iterate`, `claim_batch` | dispatcher, archive reader | futures complete in any order, a wheel converted twice |
| Circuit breaker (`circuit_breaker.py`) | state, failures, trial slot | `allow`, `record_*` | two stages share one breaker | a trial that is never resolved, late verdicts |
| Rate limiter (`ratelimit.py`) | token buckets, penalties, a condition | `acquire`, `penalize` | every HTTP request | waits computed from state that others change |
| Disk guard (`disk_guard.py`) | the paused flag | `check`, `is_paused` | fetch stage, archive thread | a flag older than its use, hysteresis |
| Daemon (`service.py`, `stage_loop.py`) | threads, shutdown event | `start`, `shutdown`, signals, pause, resume | all | a shutdown at any moment of start-up, the order in which threads end, the grace period |
| Control socket (`control.py`, `control_client.py`, `cli.py`) | listening socket, accept thread, worker pool, status-only flag, the socket file | accept, read a request, `status`, `pause`, `resume`, `drain`, `reprocess`, `shutdown`, `stop`; the liveness probe of `run` | daemon, writer, clients in other processes | a command that runs while the daemon stops, a worker that waits for itself, a second `run` on the same database |
| Campaigns (`dispatcher.reprocess`, `unquarantine.py`) | a keyset, or none | select a chunk, write a chunk | dispatcher's tables | selection and write are two transactions, and the order of the rows changes under the keyset |
| fsck (`fsck.py`) | - | one chunked scan per rule | all tables, read while others write them | rows that move while they are counted; rules that correct histories break |
| health, metrics, gc, rest of the CLI, config, PyPI client, schema creation | see section 8 | | | |

What makes each correct: an answer to a writer's caller tells the truth and
always comes; `change_seq` never repeats; a wheel's row obeys fsck's rules under
every interleaving and settles; the archive gives back what its index names and
never loses a sealed blob; the sync catches up with PyPI; the queue keeps to its
budget and a shutdown ends; the limiter grants no more than its rate and sleeps
neither too long nor not at all; a scan reports what was there all the time, and
nothing twice; a control client is told the truth and is always answered; a
shutdown that begins when the daemon is up ends the process; no second daemon
recovers an archive that the first still writes. The hazards, each with its line and the
properties aimed at it, are in `PROJECT.json`.

## 2. Modules

| Module | Models | State and actions |
|---|---|---|
| `WriterLog` | what the writer promises: a log that grows by whole batches and truthful answers | `log`, `reply`; `Commit`, `Tell` |
| `Writer` | `writer.py` | callers (`Call`, `Refuse`, `Acquire`, `Put`, `Return`), `stop()` (`StopBegin`, `StopSet`, `StopJoin`), the thread (`Get`, `Flush`, `ApplyOp`, `CommitBatch`, `Upkeep`, `Resolve`, `CheckStop`, ...), failures, `Restart` |
| `Pipeline` | a project's rows under project sync, fetch, archive, convert and the admin commands | one action per read and per write op; ops are atomic because `Writer` makes them so |
| `BlobStore` | what the archive promises: a blob is absent, at risk or safe | `Add`, `Link`, `Seal`, `Lose` |
| `Archive` | segments, rows and recovery, one action per file operation and per commit | `Take` ... `LinkWheel`, `Crash`, `Start`, `Truncate`, `RecoverChunk` |
| `Breaker` | the circuit breaker as operators on a record | used by `Sync` and `Handoff` |
| `Sync` | index poll and project sync with their shared breaker | `PollStart` ... `PollDone`, `Drain` ... `SyncFinish`, faults, `Restart` |
| `Handoff` | fetch stage, byte-budgeted queue, archive thread, convert's bounded queue, disk guard, shutdown | composes the threads of the download path with `Breaker` |
| `RateLimit` | `HierarchicalLimiter` in discrete time | `Enter`, `TakeOwn`, `Borrow`, `Sleep`, `Rollback`, `Wake`, `Penalize`, `Tick` |
| `Fsck` (extends `Pipeline`) | fsck's rules over the rows of `Pipeline`, each as the set its query matches, and `Report` | no state of its own |
| `Scan` | every table scan that is paged beside live writers: fsck's `_chunked_scan` and rule 17, `reprocess` by project, state and version, `unquarantine` | `ReadPage`, `Judge`, `WriteChunk`, `WriteFails`, and `OtherWrite` for everybody else |
| `Daemon` | start-up, stage loops, control socket, clients, signals, shutdown and a second `run` | one action per step of `start()`, of `shutdown()` and of `ControlServer`, and per command handler |
| `MC*` | instances for TLC | constants, and symmetry where no liveness property is checked |
| `*Proofs` | TLAPS proofs about `Writer`, `Pipeline` with `Fsck` (`PipelineProofs`), `Archive`, `Sync`, `Handoff`, `RateLimit`, `Scan` and `Daemon` | |

Definitions whose comment begins with "Wrong variant" are deliberate mistakes:
no specification uses them. Each is the definition that follows it (or, in
`Writer`, the action of that name) with one plausible bug, and the property
listed beside it in `PROJECT.json` must notice it.

Abstractions. In `Pipeline` METADATA bytes are their own hash, one project
stands for all, and a backoff deadline is "some later claim". The bulk import of
`specs/13` is an external script that runs while the daemon is stopped; `Init` holds
what it left in `unlinked_blobs` (`Imports`), with blobs in sealed segments, and ingest
links it and deletes the row (`NewWheel`, `PlannedBlob`, `ApplyPlan`). In `Archive` a
document is a short sequence of bytes, so that offsets and block boundaries are
real, and a footer is the set of its records. In `Handoff` a wheel is a number
in claim order with a size; whether a retry was the last one is a free choice. Of the
convert stage there remains the queue of `FedMax` items that the archive thread waits
for with its bytes still charged; `leaked` is a ghost, the claims that an exception has
left in `_in_flight`.
In `RateLimit` time is a counter and tokens are integers; penalties, refill and
the sibling gate are computed as in the code. `Sync` keeps of a project only its
serial. The breaker's clock is one flag, "the recovery timeout has passed". In
`Scan` a row is a key in table order that the query matches or not, with its
lane; `OtherWrite` is free to do to it whatever some writer may. In `Daemon` a
stage's loop reads the shutdown event (`StageDue`), then the pause flag under the lock
(`StageChecks`), and iterates without it (`StageBegins`): three steps, with every other
thread in between. An iteration is one interval that may never end, a campaign is its
chunks, and the writer is up or stopped; what the threads work on is in the
other modules.

Bounds, all named constants: `MaxOps`, `MaxCrashes`, `MaxRevs`, `MaxAdmin`,
`MaxSegs`, `MaxFaults`, `MaxSerial`, `MaxStarts`, `MaxPenalties`, `MaxTime`,
`MaxWrites`, `MaxSignals`. They limit how often the environment acts (a crash, a
page change, a fault, a signal) and never what the code does in response. In `Handoff`
a fault that may strand a wheel (`HardFaults`) counts twice against `MaxFaults`.
`Histories` says which troubles and commands occur together in one life of the
daemon, so that each trouble meets the commands it can get in the way of without
the product of all of them.

## 3. What the runs check

Passing runs:

| Run | Shows | Bounds |
|---|---|---|
| `writer_safety` | answers agree with the database; `change_seq` strictly increases; nobody waits on a thread that has left; `Writer` implements `WriterLog`; `stop()` returns, and a call on a living thread returns unless the writer jams (`OneCallReturns`; `Jammed` is the full queue behind a failed COMMIT that `writer_fullqueue` is about; the callers are interchangeable, so one stands for all) | 3 callers, batches of 2, a queue of 1 that can be full behind a batch, failing ops, COMMITs and pragmas, a restart: the smallest with a batch that is split, a caller outside it, and a number drawn before and after a crash |
| `pipeline_safety` | fsck's rules 5, 6 and 7a never match (`FsckHolds`), a live row's blob resolves, one linked from an import too, and a tombstone that no thread holds is taken up by none until its file is back (`TombstoneRests`), through stale plans, late outcomes, corruption, admin chunks and a crash | 1 wheel, 2 contents, either or neither of them imported for it, each file with its hash announced, 3 page changes: appear, change, vanish or revert |
| `pipeline_live` | every pending wheel settles; READY repodata was made from the bytes the row names; as long as the page was published once, no sealed blob is corrupt and reprocess selects archived wheels, fsck reports only the five noisy rules (`CalmFsck`; a wheel that waits for conversion and has no blob would be rule 2) | 2 wheels whose sidecars hold the same bytes, one of them perhaps imported with other bytes, files with and without sidecar, no announced hash, 1 page change, a crash, a reprocess of READY or SKIPPED |
| `archive_safety` | links resolve and segment ids are fresh (`ArchiveInv`), what the index names can be read back, `verify_archive` reports no loss (no missing file, no wrong bytes, no row without its record: `VerifyFindsNoLoss`), `Archive` implements `BlobStore`, items and recoveries end | 3 documents over blocks of 2 bytes (two share a block, one is longer), 3 segments, 2 crashes at any step, so that one can hit a recovery |
| `sync_safety` | a stored serial is never ahead of a page that was served and no name is queued twice (`SyncInv`); nothing is lost between poll and sync, also when the breaker refuses; without failures the mirror catches up | 2 projects, batches of 1, 3 changes, 2 faults of any kind, a restart |
| `handoff_safety` | claims are exact up to those an exception leaves, which are named (`ClaimsExact`), no wheel is in two places and what is committed is archived (`HandoffInv`), bytes keep to the budget, nothing dropped before the grace period ends, a shutdown ends (dead archive thread, paused guard, either queue full), and skips, throttling, pauses and restarts strand no wheel; no deadlock | 3 wheels, one larger than the budget, a convert queue of 1, one hard fault (download, append, database, volume) or two soft ones, a second process |
| `ratelimit_safety` | grants stay within burst and rate over any window, a child's reserve too; a sleeper wakes no later than it could take and is not told to wait zero seconds except in the case of section 4 (`WaitIsRight`) | 2 callers, 2 children, one penalty |
| `scan_safety` | a row that matches for as long as a scan runs is counted, and none twice (by state: at most twice, see section 4); fsck reads exactly the pages it needs; a scan with a keyset ends however much is written meanwhile, one without as long as rows come back finitely often | 3 keys, pages of 2: nothing, a page not full, just full, and full with a successor, and a row that moves from behind the cursor to ahead of it |
| `daemon_safety` | answers are true: "ok" to a reprocess means every chunk; behind a confirmed pause or drain no stage gets past its check (`PauseHolds`); when a second daemon goes on to recovery this one has no thread left; a shutdown leaves no handler, no running writer and no socket file, and ends the process although iterations hang; every client is answered or hung up on | 2 clients, 2 stages of which one needs the other, 1 worker, 2 chunks, 2 signals, 8 histories |

Some of these are promises the code keeps only up to a point, and the property
says where it ends: `OneCallReturns` excepts a thread killed by its own upkeep and a
jammed writer, `TombstoneRests` a tombstone that was held when it was written,
`PauseHolds` an iteration that has passed the check, `VerifyFindsNoLoss` records without
a row (section 4 for all three),
`NothingDropped` and `CatchesUpUnharmed` end with the first failed page,
`EveryWheelLeaves` with the first failed download, append or database access or full
volume, and `ReadyIsCurrent` and `CalmFsck` with the second version of a page. `RecoveryAlone` asks that the
second `run` probed after the first had bound its socket, and that no shutdown
began inside `start()` or outlived its grace period; `ShutdownEnds` and
`CleanExit`, that the shutdown began after `start()`; `EveryClientAnswered`, that
`accept` has not failed.

Runs that end in a counterexample, each quoting in `PROJECT.json` the sentence it
contradicts:

| Run | The code |
|---|---|
| `writer_fullqueue` | a failed COMMIT with a caller blocked on the full queue hangs the writer and everybody else |
| `sync_dropped` | a project whose request failed waits until some project changes |
| `handoff_trial` | a half-open trial that ends without a verdict blocks the breaker for ever |

Deadlock checking is off where the model may come to rest (everything settled,
all bounds used up), and in `Writer`, where an abandoned caller is a violation of
`EveryCallReturns`; `Handoff`'s runs check it.

## 4. Further observations

Met while modelling, each reached by the models above and read back in the code;
no run of its own is kept for them.

Where the code does something else than the repository's own text says. No property of
a passing run takes the code's side in these; what the properties claim stops short of
them.

- `specs/11-health-and-fsck.md:157`: "`work.attempts <= max_attempts`, and
  `attempts = max_attempts` ⟹ quarantined". `_retry_op` (`dispatcher.py:587`)
  quarantines at `attempts > max_attempts` and stores `max_attempts + 1`: fsck's rule
  12a reports every quarantined wheel and 12b every wheel that is at its last retry, so
  fsck fails in ordinary operation. `FsckHolds` says nothing of rule 12.
- `dispatcher.py:368`: a DELETED wheel "is a permanent tombstone", and
  `dispatcher.py:381`: "a tombstoned wheel must never be dragged back into the live
  queue by any selector". The selectors exclude DELETED when a chunk is selected; the
  chunk's op (`dispatcher.py:888`) updates by id only, so a wheel that ingest tombstones
  between the two becomes NEED_CONVERT. A fetch or convert outcome of a wheel that was
  claimed before (`dispatcher.py:508`) brings it back as well. `TombstoneRests` is about
  the tombstones that nobody held when they were written.
- `specs/02-archive-segments.md:213`: "Every footer record has a `blobs` row." and
  `:278`: "`verify-archive` on a clean store reports nothing." Content that is added to
  a second segment is appended again while its row is ignored (`archive/store.py:95`),
  so `verify_archive` reports a record without a row although nothing is wrong with the
  store. `VerifyFindsNoLoss` is about its other reports.
- `daemon/stage_loop.py:163`: "A paused stage claims nothing: `iterate` is not called at
  all". `run_once` reads the flag under the lock and calls `_iterate` after it let go of
  it (`daemon/stage_loop.py:166-174`): a pause that is confirmed in between is followed
  by one more iteration, which claims. `PauseHolds` says that there is no other.
- `writer.py:251`, `specs/08` and `specs/10` are the subjects of the three runs above.

Of the writer, the rows and the archive:

- A pragma that raises after COMMIT (`writer.py:221`) kills the thread with a
  committed batch whose callers are never told.
- An outcome of old bytes makes a wheel READY after its hash changed
  (`dispatcher.py:508`), and a plan read before it keeps it so (`ingest.py:735`).
- Recovery (`fetch.py:687`) leaves a tombstone's `blob_sha256` naming a deleted
  blobs row, and gives a quarantined wheel NEED_METADATA while its `work` row
  still says quarantined, so no claim returns it. A quarantined wheel that
  vanishes and reappears is stranded in the same way (`ingest.py:838`).
- A reprocess chunk writes NEED_CONVERT to a wheel whose blob ingest has cleared
  since the selection (`dispatcher.py:888`); bulk convert then claims and drops it
  for ever.
- A plan read from NEED_METADATA deletes the repodata of a wheel that became READY
  meanwhile, after an unquarantine (`ingest.py:774`).
- The skip of a corrupt blob is neither permanent nor versioned (`fetch.py:618`).
- A wheel that ingest links to an imported body has bytes that nobody compared with
  the hash of the page (`ingest.py:670`): the next change of the page that announces
  another hash sends it back to the fetch, an unchanged page never does. The link trusts
  `unlinked_blobs` without a look at `blobs`; recovery (`fetch.py:687`) deletes blobs
  rows and leaves `unlinked_blobs` alone, so an import that had left its segment
  unsealed would end in a row whose blob does not resolve. `Init` assumes that it has
  not.
- A crash between rename and `sealed_at` leaves a sealed file with an open row
  (`fetch.py:480`); an old segment that receives nothing more is never sealed
  (`fetch.py:476`).
- A project that left the listing is never enqueued, so its 404 is never seen
  (`ingest.py:569`).
- The breaker's trial is also left unresolved in `project_sync.py:85` and
  `index_poll.py:82`, and a late failure of an older call frees the slot for a
  second trial (`circuit_breaker.py:111`).
- One failed append, or the guard pausing between two looks (`service.py:761`),
  ends the archive thread; an append trusts the guard's flag, not the disk
  (`service.py:760`).
- Two refused callers of the limiter wake each other over and over
  (`ratelimit.py:254`). A penalised child whose siblings are idle is told to wait
  zero seconds, over and over, until its penalty is served (`ratelimit.py:298`;
  `tests/test_ratelimit.py:469` rules out the busy loop for a child without one).
- An exception between `claim` and `apply_outcome` leaves its items in `_in_flight`:
  in `_load_rows` the whole batch (`daemon/stages/fetch.py:103`), in the outcome of one
  item the items after it (`daemon/stages/fetch.py:157`), in a put on a closed queue the
  item and those after it, in an append the item. Nobody claims them again before the next process
  (`leaked`).
- The archive thread waits in `on_archived` for room in convert's queue
  (`daemon/stages/convert.py:77`). When a shutdown has ended the convert loop and that
  queue is full, only the end of the grace period ends the wait.

Of fsck and the campaigns:

- Rules 1b, 10 and 11 too can match after a correct history; once a page changes
  under an outcome in flight, 1a, 7b, 9b and 13 can as well. 1b also counts the
  tombstones with repodata that rule 20 calls informational.
- `reprocess` of a state sorts by lane and moves what it requeues to lane 1, ahead
  of its keyset, so it may requeue and count a wheel twice (`MaxTimes`).
- A campaign by version and `unquarantine` have no keyset and end because the rows
  they have written no longer match. Versions are compared as text
  (`dispatcher.py:783`), so for some targets ('0.9.0', running '0.10.0') what was
  just converted matches again; `ScanEnds` holds because writers, in the model, put
  back only finitely many rows.
- fsck's docstring says that a match of 1000 rows in chunks of 1000 takes "exactly 10
  read transactions" (`fsck.py:195`); it takes one (`PagesExact`).
- A `health` snapshot is put together from several statements, each with its own
  view of the database.

Of the daemon:

- A signal before `handoff_queue` exists starts a shutdown thread that raises; only
  a second signal ends the process. During stage start-up a shutdown can raise on a
  thread that has not been started, or on the dictionary that grows.
- A drain during start-up does not reach the stages that are started later.
- A client that connects and sends nothing holds a worker, and `stop` waits for it
  without a bound.
- An `OSError` of `accept` ends the accept loop: later clients connect, wait for
  their own read timeout, and when the backlog is full the probe calls the daemon
  dead. Closing the listening socket does not wake `accept`, so `stop` uses up its
  join timeout, and a probe meanwhile still says "live".
- `stop` unlinks the path whoever it belongs to by then; two `run`s that both probe
  before either binds both start.
- A failing metrics server ends a process whose stages are running and leaves its
  socket file.
- A client's timeout does not end its command.

## 5. Fairness

- `Writer`: the thread, a caller inside `submit_and_wait` and a `stop()` that has
  begun keep running. `Flush` is strongly fair: `batch_deadline` is fixed when the
  first op arrives and the clock passes it.
- `Pipeline`: each stage thread keeps running. Claiming and answering a fetch are
  strongly fair per wheel, because the claim cursor comes round (checked in
  `Handoff`) and PyPI does not throttle one wheel for ever. Nothing makes a page
  change, an admin act or a segment fill.
- `Archive`: the process goes on with startup and with the item it has; time passes.
- `Sync`: both stages run on their triggers, cool-downs and the recovery timeout end.
- `Handoff`: threads run, downloads end, the operator frees space and resumes a
  paused stage, a stopped process is started again. Failures are never fair.

- `Scan`: the scanning thread runs; nothing is asked of the other writers.
- `Daemon`: the threads of the process run (`Progress`), but an iteration of a stage
  need not end: the grace period is what ends the wait for it. That a client which
  has connected sends or leaves is an assumption about the client. Signals,
  failures and the second `run` are free.

## 6. Proofs

TLAPS proves these for every value of the constants, from the assumptions named
in the modules (`ASSUME`, evaluated by TLC in every run). Every safety invariant
and every action property that the passing runs check is the statement of a theorem,
and both refinements are.

The assumptions are the types of the constants and what the code gives: limits,
rates, chunk and batch sizes are positive; the sets of wheels, projects, callers and
rate limit domains that a proof counts or takes a maximum over are finite; the stages
are started in an order that names none twice (`_start_stages`); and a page
announces a hash only for a file that has METADATA (`EntryAssumption`,
`pypi_client.py:289`).

`WriterProofs`. `WriterInv` is inductive. `ChangeSeqStrict` alone is not: that
the next number is larger than everything in the log needs `SeqCovers` (the
counter covers log and open transaction) and `TxnAboveLog` (the transaction lies
above the log). `NobodyLeftBehind` needs `PutUnderLock` (who is about to put holds
the lifecycle lock, and the writer has not been stopped), `StopOrder` (the stop
event comes after the flag) and `WaiterIsHeld`. `Aligned` ties outcomes to the
batch. `RepliesAreTrue` speaks of an answer and of the log, and between the two are a
queue, a batch, a transaction and a list of outcomes: `ReplyInv` says that an op is in
one of these places, once (`OnePlace`), that nothing of it is in the database before
(`NotYetWritten`), and that the outcomes are exactly those of the open or of the
committed transaction (`OutcomesOfTxn`, `OutcomesOfFlushed`), which is what makes an
answer true whether the COMMIT succeeds, fails or is cut short. `ImplementsLog` follows
step by step: COMMIT is the abstract `Commit`, each answer is a `Tell`, all else
stutters. Theorems: `WriterInvariant`, `WriterTypes`, `WriterChangeSeq`,
`WriterNobodyLeftBehind`, `WriterReplyInvariant`, `WriterRepliesAreTrue`,
`WriterImplementsLog`.

`PipelineProofs`, in three parts. `PipelineInv` strengthens the row rules with what is
in flight: bytes that the archive thread is about to link are in the blobs table
(`LinkIsStored`), a queued download has a body (`QueuedHasBody`), an imported body that
is not linked yet is in a sealed segment and a plan links nothing else
(`UnlinkedStored`), nothing runs
while recovery deletes blobs (`QuietInRecovery`), and every blob that a live row
or a plan about to be applied holds resolves (`HeldBlobResolves`). Without the last one
`BlobResolves` is not inductive: a tombstone revived by a plan would carry its old
blob. Theorems: `PipelineInvariant`, `PipelineTypes`, `PipelineBlobResolves`.

`FsckHolds` follows from `PipelineInv`. `TombstoneRests` needs more: `AbsentIsFree` (no
thread holds a wheel that was never ingested) and `PlanFits` (a plan about to be applied
inserts or links only absent wheels and refetches or promotes no tombstone). Then a step
makes nobody hold a wheel that is DELETED (`HeldGrows`: claims, selections and diffs
look at the state), and whoever writes a state without looking holds the wheel
(`TombstoneStays`). Theorems: `FsckClean`,
`TombstoneKept`.

`ReadyIsCurrent` and `CalmFsck` fail once a page changes under an outcome in flight
(section 4), so both are proved of the time before: `OnceInv` says what is true as long
as the page was published at most once. Until then nothing is there (`Unpublished`); the
one diff inserts every file, once (`PageOnce`); every row says what the page says
(`RowOfPage`). The rest asks that reprocess selects archived states only, because a
reprocess of the whole project sends wheels to convert that have no bytes. `CalmRows`: a
wheel past the fetch has its blob, one before it, or being fetched, has none, so that no
late link can replace a blob that a conversion was made from. `BytesOfRow`: what is on
its way to a conversion, fed or claimed in bulk, linked or fetched, is what the row
names. `NoRot` adds for fsck that without corruption no skip is unversioned. Theorems: `OnceInvariant`, `ReadyFromPage`, `FsckCalm`.

`ArchiveProofs`. `ArchiveInd` follows a document from the buffer to a sealed file. A
location that `add` handed out leads to its bytes, in a block of the file or in the
buffer that is yet to be one (`LocsRight`); a row of a sealed file is in its footer and
right (`BlobsRight`), and so is every record, whose content has a row in a sealed file,
this or an earlier one (`FootersRight`). So `verify_archive` reports no loss
(`VerifyFindsNoLoss`). `WriterPlaced` says at which steps the writer has a file and in which
state, `StaleIsOpen` that recovery works on exactly the files that were left open.
`NextSegmentIdIsFree` proves that the id for a new file is above every row and every
file, whatever a crash left of either. For `ImplementsBlobStore` the state of a blob is
read off the index and the files (`Status`); a chunk of recovery is the abstract `Lose`,
and that it takes no sealed blob with it, nor any other step, is what the invariant is
for. Theorems:
`ArchiveInvariant`, `ArchiveReferences`, `ArchiveReadsBack`, `ArchiveVerify`,
`ArchiveImplementsBlobStore`.

`SyncProofs`. `SerialNotAhead` and `NothingDropped` both depend on a page that was
fetched earlier and is applied later. `Pages` relates a page in hand to the serials
around it: it is never older than what is stored, and newer than PyPI only when the
project has gone since. `Kept` says where a project that the etag passes over is at
each step: stale, queued, drained, being asked for, or answered with the current page.
The queue holds no name twice, although the poll appends while the stage sends a batch
back (`EnqueuedIs`, `RequeuedIs`). Theorems: `SyncInvariant`, `SyncSerials`,
`SyncNothingDropped`.

`ScanProofs`. `ScanCounts` for every table size, chunk size and mix of kinds.
`ScanInv` says why: a lasting row not yet seen is ahead of the cursor or on the page
being worked on (`LastingIsAhead`); with a keyset over columns that do not change,
what was seen is behind the cursor (`SeenIsBehind`); in a campaign by state, seen
means lane 1 and seen twice means behind the cursor there (`RequeuedIsLane1`).
`PagesExact` counts: until the last page every page was full, so the rows behind the
cursor are pages times chunk, and there is a row to read next (`PagesFull`). Theorems:
`ScanSeesAll`, `ScanPagesExact`.

`HandoffProofs`. `OnePlace` needs `ClaimsExact`, that the in-flight set is exactly what
is in somebody's hands and what an exception has leaked, the two apart, so that a claim
can take neither; the archive thread has let go of its claim once the outcome is applied,
while the bytes are still charged (`Applied`). And it needs that the old batch is gone
when a new one is claimed (`FetchPhase`). `DoneIsArchived` needs that what is about to be
committed was appended (`ArchivePhase`), `DropsOnlyWhenLate` the order in which a
shutdown closes the queue (`CloseOrder`). `BudgetHeld` needs all of this: an item is
charged once and given back while it is still charged; the rest is about sums over sets
(`WeightTakeOut`: the order in which `MapThenSumSet` takes the elements does not
matter). Theorems: `HandoffInvariant`, `HandoffPlaces`, `HandoffDropsLate`,
`HandoffBudget`.

`DaemonProofs`. An answer has to stay true on its way from handler to client
(`ReplyInHand`), which needs to know where a request is (`RequestPlace`) and that a
restricted socket means a shutdown (`StatusIsShutdown`). `CleanExit` is built up while
`shutdown()` runs (`ShutdownOrder`), and `start()` cannot undo it because it is over
(`StartIsOver`). `PauseHolds` needs that what a command has paused by the time it answers
stays paused, and that a drain counts only stages that exist (`Pauses`); the one step
that takes a stage past its check reads the flag (`OnlyUnpausedPasses`). For `RecoveryAlone` the
probe of the second `run` has to mean something later: from `Bind` on the socket answers
until `shutdown()` closes it (`Reachable`), by then the threads that `shutdown()` joined
have ended (`Joined`), and a probe that found nobody remains right (`ProbeIsRight`).
Theorems: `DaemonInvariant`, `DaemonTellsTruth`, `DaemonCleanExit`, `DaemonPauseHolds`,
`DaemonRecoveryAlone`.

`RateLimitProofs`. `LimitInv` adds to the types two accounts: tokens in a bucket
plus what was granted since the start of the window is at most the burst plus the
refill, for the global bucket (`GlobalAccount`) and for every child
(`OwnAccount`). `WaitIsRight` says only that a sleeper cannot be served now; that he
cannot be one tick later either needs the reason for his wait and how long it lasts:
the penalty, the global bucket, or the reserve together with one busy sibling (`Held`).
What the others do meanwhile makes a reason last longer, never shorter. Theorems:
`LimiterInvariant`, `LimiterTypes`, `LimiterGrants`, `LimiterReserves`, `LimiterWaits`.

Induction over data. The library's induction theorems take an operator as a parameter
and cannot be instantiated here, but well-foundedness can be cited as a fact: a set of
naturals has a least element (`LeastNat`), a family of sets of items a smallest one
(`SmallestSet`). A claim about every number or every finite set is then proved on the
least counterexample, and the same argument shows that a function defined by recursion
exists, which is what makes its definition usable. This gives the largest of finitely
many waits (`LargestOfFinite`), the next free segment id, what a batch that is sent back
leaves in the queue (`RequeuedIs`), and sums over sets (`SumsExist`, `SumsAgree`).

Only model-checked: the liveness properties (`OneCallReturns`, `StopReturns`,
`EveryWheelSettles`, `WorkCompletes`, `CatchesUpUnharmed`, `ShutdownCompletes`,
`EveryWheelLeaves`, `ScanEnds`, `ShutdownEnds`, `EveryClientAnswered`) and deadlock
freedom, which rest on fairness and ENABLED. `BlobStore` and `WriterLog` are refined in
what they do, not in what must happen. The inductive invariants were model-checked on
the runs' instances before they were proved.

## 7. Plan

Done: inventory; all modules of section 2; a theorem for every safety and action
property, and the two refinements.

Next, in this order:

1. Proofs beyond the runs' properties: which rows may disagree with the page once it
   has changed (today `ReadyIsCurrent` and `CalmFsck` are proved until then), and how
   long; the non-temporal half of the liveness arguments (whoever holds an item has an
   action whose guard is true).
2. `TokenBucket.acquire` and the limiter with timeouts; the read-transaction budget.
3. The convert stage's futures as threads, beside what `Pipeline` says of its outcomes
   and `Handoff` of its queue.

## 8. Not modelled

- PyPI client, health, metrics, configuration, logging: parsing, reading and
  formatting; their results are inputs of the models.
- The command line, except the probe of `run` and the control clients: it reads and
  prints.
- fsck's rules 8, 9a and 19 (columns the models do not keep), 14 and 15 (rules over
  segments, which `Archive` states as its invariants), 18 (`Writer`'s counter).
- Schema creation and validation: before any thread runs.
- gc stage: deletes old rows of `errors`, which the pipeline never reads.
- The reroll conversion itself: a choice among its outcomes.
- The byte format of a segment (zstd, varints, checksums).
- SQLite's own locking between the archive connection and the writer's: both wait up
  to a `busy_timeout` of 5 s (`db.py:73`, `service.py:813`), and the models assume that
  it is enough.
- `_GuardedConnection`: rejects a write op that tries to commit; no op does.
