# AXPIndexerNG in TLA+

AXPIndexerNG indexes folders of a workstation into one SQLite catalog and
answers searches and questions from it. Three processes share the catalog and a
runtime directory: the *daemon* scans and writes, the *client* (a local HTTP
server) reads, and the *tray* supervises both and lets users edit sources. This
project models the parts of that system whose order of steps matters, checks
them with TLC on small instances, and proves the main safety results with
TLAPS for instances of every size.

Paths below are relative to the repository. `PROJECT.json` maps every definition
to the lines it models.

## The system

| Component | State | Operations | Where it is hard | What makes it correct |
|---|---|---|---|---|
| Source scan (`daemon/axp_daemon/indexer.py`, `scanner.py`) | rows of `documents` and `chunks`, the scan's locals and counters, a batch of prepared documents | walk, stat, hash, extract, embed, write, reconcile, report | files change between two steps; failures of one file, one batch, one volume; stop, disable and remove while scanning; crashes with an open transaction | what is skipped is current, documents are committed whole, nothing that was there is deleted, the catalog comes to agree with the disk |
| Sources (`shared/axp_core/sources.py`) | table `sources`: path, enabled, status | add, enable, disable, update, remove | written by three processes | no two enabled sources overlap unless confirmed; a disabled source keeps its content |
| Daemon control (`daemon/axp_daemon/service.py`) | `control.json`, `daemon_state.json`, stop/paused/requested flags | `send_control`, `poll`, the cycle of `run_daemon`, reindex, remove | one-slot mailbox, requests meant for an earlier instance, commands read in the middle of a scan | a command is obeyed once, by the daemon it was sent to, and soon |
| Process lock (`shared/axp_core/locking.py`) | an OS file lock per catalog | acquire, release, probe | the probe itself takes the lock for a moment | one daemon per catalog |
| Tray (`tray/axp_tray/app.py`, `process.py`, `state.py`) | desired state, the watchdog's attempts, the registry of owned processes | start, stop, restart, exit, launch, watchdog, recovery | decisions taken on a state file that is already old, five threads at once | a wanted daemon comes back, a healthy one is left alone, an exit ends all |
| Reader pool (`shared/axp_core/database.py`) | idle connections, reserved slots, closed | acquire, return, close | threads, failing opens, cancellation at any span, close while lent | loans are exclusive, slots come back |
| Identity cache (`shared/axp_core/identity_cache.py`) | entries, single-flight builds | hit, miss, publish, give back | a commit between the snapshot and the publication, a cancelled builder | no entry of an older generation is served, no key stays claimed |
| Retrieval (`client/axp_client/search.py`, `rag/coordinator.py`, `rag/retrieval.py`) | a request's documents and passages | identity, scope, global search, drill, expansion, context | a dozen statements, each of which sees other commits | budgets hold as a whole, evidence is content |
| Traces (`shared/axp_core/tracing.py`) | spans, a cancelled event, the registry of requests | span, cancel, snapshot | concurrent children, bounded registry | exclusive times add up, a live request stays cancellable |
| Client (`client/axp_client/server.py`) | runtime stage, current catalog, RAG service | start, search, ask, cancel, shut down | shutdown and cancellation against running requests | no request uses a closed pool, shutdown ends |
| RAG service (`rag/service.py`, `operations.py`) | the generation lane, the native executor, the loaded model | ask, cancel, retry, warm-up, run when idle | one lane for many askers, observers that leave, clients that hang up at any write | jobs start under the lane and one at a time, the lane comes back, a cancel hits its target |
| Model manager (`rag/model_manager.py`, `benchmark.py`, `qualification.py`) | part files, models, manifests, downloads, trials, the selection | download, activate, set device, remove, benchmark, qualify | one step of several fails or the process dies; two requests on one model | only verified files are installed, file and controller agree, what was displaced comes back |
| Runtime manager and Intel backend (`rag/runtime_manager.py`, `intel_sycl_backend.py`) | the current backend, its sidecar process and log reader | load, generate, cancel, close, recover | a process that dies or loses its device, five threads that close | no close and no reload loses a sidecar, a job ends |
| Settings and runtime files (`shared/axp_core/runtime.py`) | JSON files and a backup | load, save, atomic replace | crash between backup and replace, concurrent writers | a reader finds the old or the new settings |
| Skills and rich documents (`client/axp_client/skills`, `rich_documents.py`) | JSON files, a render cache | save, delete, render | stale cache entries | a rendering belongs to the file as it is |
| Ranking, chunking, extraction | none | pure functions | floating point, parsing | chunks cover the text |

The components meet in four places. The **catalog file**: SQLite's write lock
and transactions order the daemon's scan, the edits of the Sources window and
the command line, and the client's read-only connections. The **runtime
directory**: `control.json`, `daemon_state.json`, `desired_state.json`,
`processes.json` and the health probe are replaced as whole files, the last
writer wins, and each reader has a copy that may be old. The **process lock**:
an operating-system lock that a daemon keeps for its life and that everybody
else probes by taking it. The **HTTP interface** of the client, whose handler
threads share the reader pool, the traces and the generation lane.

## The modules

| Module | What it models |
|---|---|
| `CatalogScan` | one catalog, its sources and files, and `scan_source` with everything that may happen around it |
| `MCCatalogScan` | file kinds and source trees for TLC |
| `CatalogScan_proofs` | types, deletion safety, the reach of a scan, the counters, whole and current rows |
| `DaemonControl` | `control.json`, the poll points and the main loop of the daemon, through restarts |
| `DaemonControl_proofs` | the invariant of the control protocol and its four safety results |
| `Supervision` | tray threads, daemon processes, their lock, state file and registry |
| `Supervision_proofs` | one owner of the catalog, and whom a recovery may end |
| `SearchReaderPool` | `SearchReaderPool.acquire()` and `close()` with cancellation |
| `SearchReaderPool_proofs` | the invariants of the pool |
| `GenerationLane` | the abstract specification: one owner of the lane, one native job |
| `RagService` | Ask with its streams, the executor, the backend, startup and administration |
| `RagService_proofs` | that `RagService` implements `GenerationLane`, and its safety properties |
| `ModelManager`, `ModelManager_proofs` | models on disk, the selection, the transactions that change them |
| `IntelSidecar` | the Intel runtime: backends, sidecars, closes, the one recovery |
| `SearchRetrieval`, `SearchRetrieval_proofs` | searches and questions over a catalog that changes, with the identity cache |
| `MCSearchRetrieval` | catalogs, documents and shapes of requests for TLC |

The three modules of the daemon look at it from different distances.
`CatalogScan` has one scan in full and reduces the main loop to "each cycle
reaches every source"; `DaemonControl` has the main loop in full and reduces a
scan to its poll points (entry, hold, file, end); `Supervision` reduces the
daemon to its stages and adds the processes around it. What one assumes of the
next is stated below with the fairness. They are not composed into one
specification: the interface between them is a stop flag, and the product of
their state spaces is beyond TLC.

### CatalogScan

A file has a stamp (its size and mtime) and a content; the content of version 3
is the number 3. A row of `documents` is a record with its source, path, stamp,
digest and mode, and `text`, the version its chunks were made from; the empty
chunk list is 0. `docs` is what the scanner's connection sees, `saved` what is
committed, `txn` whether a transaction is open and `mark` the savepoint
`document_write`. The locals of the loop body (`cur`, `stat`, `old`, `digest`)
are variables because they survive an iteration. `pc` names the place in
`scan_source` between two calls that another process or the file system can
come between:

    idle -> walk -> stat -> hash -> extract -> (walk | embed)
    embed -> write <-> chunks, write -> (walk | close) -> report -> idle

`NextEntry` is the head of the loop, `StatFile`, `HashFile`, `TouchRow` and
`Extract` its body, `FailFile(n)` its except clause with the number of failures
the step counts, `EmbedBatch`, `WriteRow`,
`WriteChunks`, `WriteFails`, `RowRefused` and `CommitBatch` are `_flush`,
`Reconcile` and the `Report...` actions the end. `SetEnabled`, `RemoveSource`
and `Reindex` come from the tray, the CLI and the daemon's cycle.
The bisection of `_embed_group` is represented by its outcome: any subset of
the batch may fail alone, and when a later half meets the failure of the whole
backend (`BackendFails`), those that failed before are counted and stay in the
batch. `EditKinds` and `FaultKinds` select what a run allows;
`MaxEdits` and `MaxFaults` bound how often.

Abstractions: two versions with equal size and mtime do not occur (the code
cannot tell them apart either); a batch is full after `BatchSize` documents
instead of chunks; SQLite's busy timeout is the guard `~WriteLocked`; a source
keeps its path and its id is not used again. Details the model keeps because
the code has them: a touched row's UPDATE leaves the transaction open until the
next commit, so a crash undoes it; RELEASE of a savepoint outside a transaction
commits the document by itself; a scan may begin of a source that was disabled
after the cycle's list was made.

### DaemonControl

The senders (`Compose`, `Deliver`) read `daemon_state.json`, compose a request
that names the instance they saw and replace `control.json`. `pc` is the place
of the worker thread; at every poll point (`load`, `retry`, `head`, `idleHold`,
`cycle`, `entry`, `hold`, `cycleEnd`, `wait`) the action contains `Look`, the
whole of `DaemonControl.poll()`: unread and not obsolete means obeyed, and the
flags and the published state change with it. `sent` of a request counts the
daemons started so far: it stands for `requested_monotonic`, which the code
compares with the daemon's own start only when the request names no instance.
`Publish` is the heartbeat thread, `Close` the end of the publisher, `Crash` the
end of the process; flags do not outlive it (`Fresh`), the two files do. The
ghosts `obeyed` and `filesAfterStop` count what the properties speak of.

### Supervision

A daemon process goes through `unborn -> booting -> up -> serving -> stopping ->
gone`: started, past the lock, reading commands, obeying a stop, over. `hung`
tells what no longer answers, the worker or the whole process. The tray has four
threads, `ui` (the poll and the watchdog's verdict), `recovery`, `restart` and
`exit`; `cli` is a stop from the command line. Each thread is a list of labels in
`pc`, one action per label. `Probe` takes the lock and `Release` gives it back in
the next step, so a daemon that starts in between ends with `already_running`,
as in `daemon_instance_running()`; `after` says where the probe returns to.
`register_process` reads the registry in one step and writes it in the next, so
two starts may lose an entry; `verified_owned_processes` is one step.
`Challenge`, `Spare` and `Deadline` are the health probe: the worker's answer
ends a recovery, and so does the publisher's when only the heartbeat was stale;
a deadline that passes although nothing hangs counts as a fault.

Left open: how long the watchdog waits (`Decline` may happen at any verdict) and
which symptom a healthy daemon shows (`LooksLike`). Not modelled: the
scheduled-task mode, in which Windows starts the daemon, the client process,
which the same registry lists, and the preferences that switch the automatic
start or restart off.

### SearchReaderPool

Each `with self._condition` block is one action and everything between two
blocks interleaves. `pc[r]` says where a request is, `held[r]` is its local
`con`, `created` the slot counter. `lost` is a ghost that counts the slots
nobody can return any more; only the reuse path of a cancelled request raises
it. Connections have identities so that a connection lent twice is visible.

### GenerationLane and RagService

`GenerationLane` is what the service promises: `Take`, `Give`, `Start`,
`Finish`. `RagService` implements it (`LaneSpec`, with `owner` for `lane` and
`job` for the operation of the executor). The difference between the two
variables is the point: the observer of a native operation may leave, the lane
is released, and the operation goes on; the next owner must not start another.

`pc[u]` is the place of `ask()` for each handler thread, `told` the terminal
event of its stream and `line` who still reads; a write to a client that hung
up raises in `WriteFails` at whatever place the request writes. `run[t]` is
where a thread is inside the backend (loading, starting, streaming, over); four
kinds of threads get there: the executor, the startup thread, the thread of a
citation repair and the runner of a qualification. `model` and `loader` are
`_model_state` and `_load_lock`; a failed load stays failed until Retry.
`AdminTakes` and `AdminDoes` are `run_when_idle`. The ghost `aimed` remembers
whose generation ran when a cancellation was accepted.

### ModelManager

Per model there are a part file, the installed file and its manifest; of the
content the model keeps whether it is a prefix of the right file, whole, bad, or
the tail that a resumed download writes when its part was unlinked under it.
`Download(j)` runs through the stages of `_download`, with the transfer's
outcome and each check as choices, `Trial(i)` through a benchmark or a
qualification, and `Transaction` through an activation or a change of device:
write the backup, replace the file, reconfigure, and undo in the reverse order.
`settings` and `running` are kept apart, because keeping them equal is the
purpose of that code. `Crash` and `Boot` end and start the client at any point;
`TrayToggle` saves what the tray read when it started; `outside` is a ghost that
excuses the steps by which somebody else changes one of the two.

### IntelSidecar

`w` is the one native job the lane allows; its labels are the places of
`InferenceRuntimeManager.generate`, `ensure_loaded` and `_generate` between two
calls. `shut[c]` is `close()` as each of the threads runs it that may: it takes
the process out of the fields under the lock, kills it, joins the log reader.
`ses[s]` is a sidecar: it announces the offload, serves, loses the device or
dies when it likes, and its reader sees the log later, line by line. `be[b]` are
the fields of a backend object, which outlives its place as `current`: a job
that began on it goes on with it. Three parties can close a sidecar: a `close()`
that has taken it, the manager, as long as its backend is `current` and the
client runs (`Managed`), and the job that works on the backend (`WorkedOn`). A
sidecar with none of the three is a `Stray` one. The code does leave such
sidecars, when a job ends on a backend that was replaced or after the shutdown
began; `OnlyAJobLeavesASidecar` says that nothing else does.

### SearchRetrieval

A request is a record: its place, its snapshot while it resolves an identity,
the documents it chose, the hits and rows of the drill. Every label is one SQL
statement or one block under the cache's condition, so a commit of the indexer
(`Write`) falls anywhere between two of them; only `IdentityEnter` to
`IdentityLeave` read one snapshot, because of the savepoint. `rank` and
`inside` are all that the resolution reads of a document; `Bump` says which
updates raise the generation, as the triggers do. The drill reads hits first and
rows afterwards: `DrillFails` is the KeyError of a hit that has lost its row.
Ranking, the sufficiency of evidence and time budgets are choices. The lexical
and vector statements of one drill are one step, and all requests ask the same
question, the case in which they meet in the cache.
## The runs

| Run | Instance | Distinct states | What it shows |
|---|---|---|---|
| `pool` | 2 cancellable searches, 3 Ask requests, 2 slots, 3 connections, fair | 227,109 | loans are exclusive, slots accounted for, every request ends unless cancellations have lost every slot |
| `scan_faults` | text and Office file, 3 edits, 2 faults | 3,668,784 | what a scan skips is current, documents are committed whole, deletion is safe |
| `scan_nested` | 2 nested sources, 3 kinds of file, 2 edits, 1 fault | 821,720 | a scan touches its own files only, the counters add up at every moment |
| `scan_converges` | text, metadata-only and Office file, 2 edits, 1 fault, fair | 1,220,478 | the catalog comes to agree with the disk, but for the rows two defects hold |
| `control` | 1 sender of 2 commands, 2 daemons, a crash, fair | 282,861 | commands are obeyed once and by the right daemon, pause and stop hold, what is read is done |
| `supervision` | 2 daemon processes, 1 fault, 1 order of the user, fair | 664,925 | one owner of the catalog, a recovery aims at it, the service returns |
| `ask` | 2 streamed Asks, the startup thread, 1 swap, 1 cancellation, 1 retry, fair | 233,719 | the service implements the lane, gives it back, answers everyone, cancels whom it should and replaces no backend under a request |
| `models` | 2 models, 2 requests, 2 downloads, 2 trials, 1 fault, fair | 431,481 | only verified files are installed, file and controller agree between transactions, downloads and restores end |
| `sidecar` | 2 backends, 2 sidecars, 1 job, 1 act of another thread, fair | 520,039 | only the end of a job on a backend given up leaves a sidecar to nobody, a cancel is not swallowed, a job ends |
| `search` | 1 document search and 1 search or question, 2 documents, 1 commit, fair | 532,287 | the cache is current, its keys have owners, a question keeps its budgets, every request ends |
| `scan_isolation` | metadata and Office file, stat failures | | **violation**: a failed file takes over another document |
| `search_metadata` | 1 question, documents with metadata only | | **violation**: an answer rests on no content |

### Why the bounds are enough

*Pool.* Five requests on two slots: two Asks open and return a reader each, two
cancelled searches lose both, and a third Ask finds no slot left. So the run
reaches the state that `EveryRequestEnds` excepts (`AllSlotsLost`), in which an
Ask waits for ever; TLC finds the property violated without the exception. With
fewer cancellable searches than slots the state does not occur
(`SomeSlotIsLeft`, proved). Every interleaving of two critical sections and a
close occurs.

*Scan.* Two files make a batch of two, a flush inside the loop and one at its
end, and a row that survives while another one changes. Three edits reach the
sequences "written, scanned, touched or written again, lost"; two faults reach
a failure during the repair of a failure, and a crash after either. Three files
in two nested sources are one file per kind and one file outside the inner root.
`scan_converges` has one file of each kind and every kind of edit and fault, so
both defects that `Convergence` excepts occur in it.

*Control.* Two requests fill the slot, overwrite each other and repeat; two
instances are one restart, after a stop as well as after a crash. A third
instance would only repeat the relation of the second to the first: the code
compares a request with the running instance and with nothing else.

*Supervision.* Two processes are the one that runs and the one that is started
for it; the ghosts of earlier ones are dead and compare equal. One fault or late
answer, and one order of the user next to it, already interleave the watchdog
with a recovery, a restart and an exit. When the processes are used up
(`Exhausted`) the liveness property claims nothing; no cycle of the run that
matters needs a third.

*Ask.* Two requests are the one in the lane and the one that wants it; the
startup thread, an activation and a cancellation are each a third party beside
both. A second cancellation or swap would meet the same situations again: what
they leave behind (`cancel`, `backend`) is compared with the present only.

*Models.* Two requests interleave on the same model or on two; two downloads
share the cancel event and, for one model, the part file; a trial next to an
activation reaches the stale restore. One fault is a crash in any stage, or the
write that fails, and the restart after it.

*Sidecar.* The second backend is the replacement or the recovery, the second
sidecar the reload: a recovery is tried once, so no job needs a third.

*Search.* One place in the cache and one builder make eviction and the refused
claim happen; a single commit between any two statements is what makes a
candidate, a hit or an entry stale. One primary document makes the budgets bind;
`BestOf` then has nothing to choose from (it has with `Primary = 2`, where TLC
also finds no error, in 628,347 states). The proofs lift all of these bounds.

The deadlock check is off where the program may really stop: all requests of the
pool have ended, the daemons or the edits are used up, the user has exited.

### The violations

Two runs state a sentence of the repository and find a behaviour of the code
that breaks it; `PROJECT.json` quotes the sentence.

- `scan_isolation`: when `stat()` of an Office file raises, the handler
  (`indexer.py:287`) uses `stat` and `old` of an earlier file.  The row of a
  metadata-only file then has another path and no chunk, its stamp and mode are
  right, and every later scan counts it as unchanged.
- `search_metadata`: documents chosen by identity or by a scope are drilled
  whatever their ingestion mode (`retrieval.py:221`), and their synthetic
  chunk becomes the evidence of an answer.

### Disagreements met while modelling

The following statements are definitions of the modules, below the heading "What
the repository says and the code does not keep". TLC finds each violated when it
is put into a configuration of its own; they are not among the runs, which keep
to the two above.

| Statement | Module | What the code does | What the repository says |
|---|---|---|---|
| `SlotsReturn` | `SearchReaderPool` | the span around a reused reader (`database.py:293`) checks the trace before the `try` that gives the reader back: a cancelled search loses a slot, and when all are lost an Ask waits for ever | no sentence; every other way out of `acquire()` gives the slot back |
| `BackendFailureIsNobodys` | `CatalogScan` | the per-file handler (`indexer.py:285`) also catches the failure of the whole backend in the flush it did itself | `embedding_backends/factory.py:13`: "must not be treated as a bad document" |
| `DisabledKeepsContent` | `CatalogScan` | `reindex` (`service.py:372`) deletes the documents first, and then the scan finds the source disabled | `ARCHITECTURE.md:69`: disabling keeps the indexed content |
| `RemovalSentIsDone` | `DaemonControl` | `control.json` and `remove_source_id` (`service.py:181`) hold one request each | `sources_window.py:341` reports every removal as under way |
| `LaunchStartsDaemon` | `Supervision` | `DaemonWatchdog.reason` (`state.py:78`) trusts a state "stopping" of a daemon that was killed | `MANUAL_ACCEPTANCE.md:18`: a launched tray starts the daemon |
| `OneGeneration` | `RagService` | the lane is released between an answer and its citation repair (`service.py:595`) | `docs/rag.md:104`: one generation at a time |
| `RetryReopensAsk` | `RagService` | Retry reloads the model, and the startup state stays "failed", which refuses every Ask | `docs/rag.md:149`: Retry lets the next Ask attempt a fresh load |
| `AdministrationIsSerialized` | `RagService` | the restore at the end of a qualification replaces the backend outside the lane | `service.py:104` |
| `RecoveredSettingsStick` | `ModelManager` | a complete backup read in place of a malformed file is not written back (`runtime.py:188`), so the next load finds no file and starts from defaults | `tests/test_pr41_production_hardening.py:51` |
| `ActiveIsKept` | `ModelManager` | `remove` checks the selection and unlinks later (`model_manager.py:456`) | `docs/local-models.md:41`: the active model is not removed |
| `LostDeviceNeverAnswers` | `IntelSidecar` | a loss that the log reader notes after the check of `intel_sycl_backend.py:547` does not stop the answer | the comment at line 265 |
| `RetiredStaysClosed` | `IntelSidecar` | a load under way on a replaced backend spawns its sidecar after the close, and nobody refers to it when the job has ended | `test_model_switch_does_not_resurrect_stale_backend` |

Others were met while reading and have no statement of their own:

- A document deleted or indexed anew between two statements of a question is a
  `KeyError` (`retrieval.py:237`, `DrillFails`) or a `TypeError`
  (`coordinator.py:147`, `Alternate`); `docs/alpha4-search-diagnostics.md:40`
  and the comment at `coordinator.py:49` expect it to be passed over.
- Ids of documents and chunks are given anew after a deletion (no
  AUTOINCREMENT), so a stale candidate may be read as another document. The
  evidence is judged on the passages as drilled, the prompt is built from rows
  read again.
- `_diagnostic` looks at the last twenty lines of the sidecar's log and may
  report an old device loss again. A backend closed between
  `runtime_manager.py:180` and its generation spawns a sidecar that no manager
  owns. A load by the startup thread is not waited for at shutdown.
- A part file that is complete makes every later download fail with 416
  (`model_manager.py:356`). The tray saves the whole settings it read at its
  start (`tray/app.py:192`), and `docs/rag.md:55` promises an effective device
  `none` that `runtime_manager.health` (lines 222 to 224) never reports.
- A recovery under way, or the start of a daemon, sets the desired state back to
  "running" after an exit or a stop has set it (`process.py:187`,
  `service.py:328`); the lock probe makes a daemon that boots at that moment end
  (`locking.py:76`); two starts at once may lose an entry of the registry
  (`process.py:64`); an answer after the last look of a challenge is not seen
  (`process.py:289`).

`Convergence` does not hold without its two exceptions: the metadata row taken
over by a failed Office file (`TakenOver`, see `scan_isolation`), and a file that
returns to an old content between its hash and its extraction and back again
(`Misfiled`; the digest in the row is right, so `indexer.py:253` takes the text
for right). TLC finds it violated in `scan_converges` when either is left out;
`SkippedRowsAreCurrent` excludes both by its hypotheses.

Hazards of smaller weight that no property covers and the list leaves out: a removal that the database refuses after its request was
cleared (`service.py:364`), and the window of the watchdog's attempts
(`state.py:83`).

## Fairness

`pool`: every step of a request is weakly fair. The steps are statements of a
running thread, and the wait for the condition ends after 50 ms at the latest.

`scan_converges`: a started scan goes on (weak); the daemon begins a scan of
each source again and again (strong: the cycle's list of sources is made when
the source may be disabled for a moment); a stopped daemon is started again
(that is `Supervision`) and a lost volume comes back (weak). Nothing makes
edits or faults happen or stop happening: they are bounded.

`control`: a sender that composed a request writes it; the worker goes on, which
includes that the embedding model, once it can be loaded, is loaded or refused
in the end; the heartbeat thread publishes; a walk returns finitely many
entries (strong fairness of `EntriesEnd`, the loop over entries is otherwise
unbounded in the model); the interval between two cycles ends.

`supervision`: processes and threads go on unless they hang, a wait of a thread
ends, the UI polls, and the watchdog does not decline for ever (strong fairness
of `RecoverAbsent` and `RecoverUnhealthy`: its cooldowns and graces are all
finite). `ServiceReturns` assumes that from some moment on the tray is up, the
daemon is wanted, the published state is not "stopping", every live daemon is
registered, and the second probe of a recovery does not meet another probe each
time. The last three are what the code does not guarantee; the hazards list
where they bite, and `LaunchStartsDaemon` is the first of them.

`ask`: every thread goes on and a native call returns; users need not hang up,
cancel or retry. `EveryAskEnds` starts at the search, because a request that has
not begun owes nothing.

`models`: threads are scheduled, and a transfer ends, at the latest by its
timeout. Nothing makes a user ask, the client start again or a fault happen.

`sidecar`: the native job, the closes and the log readers run, with their
timeouts (the start of a sidecar, the stream, the join of a reader). A sidecar
itself need never do anything, and yet `JobsEnd` holds.

`search`: each request's thread goes on. A waiter of the cache polls its
condition; that the key it waits for is given back is what is checked.

## What is proved

All theorems hold for every value of the constants that satisfies the module's
named assumption: any number of files, sources, requests, processes, faults and
orders. The provers are given no unproved lemma. Six theorems have a hypothesis
of their own, each one needed: `UncancelledSlotsReturn` (no cancellable
request), `SomeSlotIsLeft` (fewer cancellable requests than slots), `CountersAddUp` (the embedding backend as a whole does not fail),
`ContentRowsAreCurrent` (no file returns to an earlier content),
`SkippedRowsAreCurrent` (the same, and no Office files or no metadata-only
files) and `OtherKindsAreIsolated` (no Office files). The paragraphs below say
what the code does without them.

| Module | Theorems | Argument |
|---|---|---|
| `SearchReaderPool_proofs` | `PoolInvariant`, `BorrowIsExclusive`, `SlotsAreAccountedFor`, `ReadersAreBounded`, `ClosedPoolIsEmpty`, `LossIsBounded`, `SomeSlotIsLeft`, `UncancelledSlotsReturn` | `PoolInv` |
| `CatalogScan_proofs` | `TypeCorrect` | the type invariant is inductive with the locals it ties to `pc` |
| | `OnlyGoneFilesAreDeleted`, `ScanStaysBelowItsRoot` | `DeletionInv`, `LocalInv` |
| | `NoFileIsLostFromTheCount`, `CountersAddUp` | `CountInv` |
| | `FailuresAfterStatAreIsolated`, `OtherKindsAreIsolated` | `IsolationInv` |
| | `ContentIsCommittedWhole`, `ContentRowsAreCurrent`, `SkippedRowsAreCurrent` | `WholeInv`, `CurrentInv` |
| `DaemonControl_proofs` | `ControlInvariant`, `TypeCorrect`, `RequestsObeyedOnce`, `CommandsDieWithTheirDaemon`, `PauseHolds`, `StopWithinOneFile` | `ControlInv` |
| `IntelSidecar_proofs` | `TypesHold`, `OnlyJobsLeaveSidecars`, `CancelIsNotSwallowed` | `OwnInv`, `CancelsStay` |
| `RagService_proofs` | `Refinement`, `Invariance`, `TypesHold`, `LaneIsHeldByWorkers`, `CancelAim`, `SwapsSpareAsks` | `LaneInv`, `RunInv`, `JobInv`, `CancelInv` |
| `ModelManager_proofs` | `TypesHold`, `PublishedIsVerified`, `SelectionHolds` | `Shape`, `PartsAgree`, `AgreeInv` |
| `SearchRetrieval_proofs` | `InvariantHolds`, `TypeCorrect`, `CacheIsCurrent`, `SingleFlight`, `RetrievalIsGoverned` | `GenInv`, `LocalInv` |
| `Supervision_proofs` | `Invariance`, `TypesHold`, `OneDaemonHolds`, `RecoveryAimHolds` | `SupervisionInv` |

**Pool.** `SlotAccount` equates `created` with the cardinality of three sets, so
the strengthening says which requests stand for a reserved slot, that the sets
are finite and disjoint, and that a request holds a connection exactly at the
labels after the pop or the open. `LossNeedsCancel` counts the losses against the
searches that have ended: the only step that loses a slot ends a cancelled one.

**Deletion.** `KeepWhatWasThere` is about one step, but why the step is safe
lies many steps back: reconciliation deletes a row when its file was not
yielded. `DeletionInv` says that the walk owes exactly what it has not yielded
or seen missing (`Covered`, `Drained`, `RowsStay`), that the file in hand and
the batch were yielded by this scan (`OwnHand`, `OwnRows`), and that an open
transaction contains nothing but what the scan may do (`NothingOpen`, `RowInv`,
`WalkInv`), so that a crash or a rollback restores committed rows only.

**Reach.** A scan may file a document under the variables of another one, since
the handler of a failed `stat` uses what an earlier turn of the loop left.
`DeletionInv` says that what the scan keeps of a file (the one in hand, the
remembered `old`, the batch) was walked below the root of its source, and
`Local` adds that the open transaction and its savepoint differ from the
committed rows below that root only.

**Counters.** Put `Surplus` for what the completed files, the file in hand and
the batch exceed the files seen. When the flush that a file itself caused meets
the failure of the whole backend, the per-file handler counts the file as
completed and leaves it in the batch (`BackendFailureIsNobodys`, above), as it
does with the documents `_embed_group` isolated before the failure: the surplus
grows. `CountInv` says that it is never negative, so no file is lost from the
count, and that it is zero when no backend failure is among the kinds of fault,
which is `CountersAddUp`.

**Rows.** That committed rows are whole and that they are current is one
argument with two measures. `FitInv(fit)` says of every row (committed, in the
open transaction, and the ones the batch will become) that it is among the rows
`fit`; `Supplies(fit)` is what a prepared file must provide for it, and the
lemmas `ScanStepFits` and `StepFits` show for any `fit` that each step keeps it.
With `WholeRows` this gives `CommittedWhole`, where the savepoint carries the
proof: a row without its chunks exists in the open transaction only between the
two statements of a flush. With `CurrentRows` it gives `UnchangedMeansCurrent`,
where the order of the reads does: the size and time are taken before the digest
and the text (`HandInv`), and contents are numbered as they come, so the digest
of a row is of no later content than its text, and a row whose stamp is still
that of the file has the text of the file. If an old content may return, a
file can hold its old content when it is hashed and another when it is
extracted, and the row keeps the digest of the one with the text of the other;
TLC finds this when `UnchangedMeansCurrent` is added to `scan_nested`, whose
edits include such a return. If Office
and metadata-only files are mixed, a failed Office file takes the row of another
document (`scan_isolation`), which is stale at once; `ContentRowsAreCurrent`
shows that content rows are spared even then.

**Isolation.** The run `scan_isolation` finds a failure that touches the document
of another file. Two theorems say how far that goes. `IsolationInv` has that
after a `stat()` that succeeded, `old` is the row of the file in hand or nothing:
so a file that fails while it is hashed or extracted touches no other document
(`FailuresAfterStatAreIsolated`, without hypotheses), and the handler writes at
all for Office files only (`OtherKindsAreIsolated`).

**Sidecar.** `OnlyAJobLeavesASidecar` rests on `NamedOrTaken`: a sidecar that
runs is in the field `_process` of its backend or has been taken by a `close()`.
That alone would not say much, for the backend may be one that nobody refers to
any more; it is the step that makes it so that the property is about. It is not
inductive either: a spawn overwrites the field, so one must know that the field
is empty by then. `Emptied` says so for the load, from the close it did before,
and `ClosesInTurn` that a thread inside `ensure_loaded` or a recovery has ended
the close it began. Then each step is asked two things. What it does to the
processes (`HandsPassed`): a backend keeps its own or gives it up to a close,
and the close keeps it until it is dead. And who lets go of a backend
(`WorkerKeepsHold`, `OthersKeepHold`): the manager only in a step that also
empties it, the job only when it recovers, which empties it too, or ends.
`CancelsStay` has every backend in it, loading or not: a cancel that found a
load sets `_load_cancel` in the same step, and the event is cleared only before
the next load is announced.

**Control.** `ControlInv` orders the request ids: what is in the file, in a
draft and in `lastId` grows (`FilesAged`, `DraftsNew`), so an id that was obeyed
is never unread again (`ObeyedOnce`, `NotAgain`). A pause can be read only at a
label from which no file starts (`NoFileWhilePaused`), and after a stop only
labels that lead out remain (`OnTheWayOut`), which bounds `filesAfterStop`.

**Supervision.** `OneDaemon` needs that a thread in its probe owns the lock
(`Probing`), or `Release` would free the lock of a daemon. `RecoveryEndsTheHolder`
needs that the state file and every copy of it name only daemons that have held
the lock (`Named`), that a challenge under way has such a target (`Aim`) and
that a probe returns only where its caller continues (`Returns`). Lemmas per
kind of step (`StepKeeps`, `ProbeKeeps`, `ReleaseKeeps`, `StartKeeps`,
`EndsKeep`) serve the actions of all five threads.

**Lane.** `LaneInv` reads off every thread's place who has the lane, `RunInv`
who may be inside the backend, and `JobInv` that a job of the executor has an
owner. Then each step of `RagService` is a step of `GenerationLane` or leaves
`lane` and `job` alone (`Refinement`), and a backend is made only where
`run_when_idle` has found both free. A cancellation needs `CancelInv`: while the
event is set, whoever streams was streaming when it was set.

**Models.** `InstalledIsVerified` is not inductive, because a file is published
some steps after it was hashed: `PartsAgree` says what a download that passed
its checks still knows of its part file, and `Shape` that only the latest
download is at work. `AgreeInv` follows a transaction through its stages and its
undoing, and says at each what `settings` and `running` are.

**Cache.** `CachedIsCurrent` speaks of two times, the snapshot and the present.
`GenInv` connects them: two snapshots of one generation agree in all that the
resolution reads (`Agree`), also with the catalog while its generation is the
same. `AgreeResolve` turns agreement into equal results, and
`WriteChangesTheGeneration` shows that a commit either raises the generation or
leaves a catalog that agrees with the old one. That a resolution names at most
its limit is `ResolveIsBounded`, by numbering the result; the budgets of a
question follow from `Governed`, a statement about each label.

Only model-checked: the liveness properties (`EveryRequestEnds`, `Convergence`,
`StopEnds`, `EveryCommandIsRead`, `RemovalReadIsDone`, `ServiceReturns`,
`EveryAskEnds`, `LaneComesBack`, `WorkEnds`, `JobsEnd`, `RequestsEnd`), because
TLAPS does not prove liveness under fairness. Every invariant and every action
property of a passing run is stated by a theorem. The assumption of a temporal
property (that a thread goes on, that a transfer ends) is in "Fairness" above.

## What is not modelled

- Extraction, chunking, embedding, ranking, inference: numbers and formats. Only
  their outcome (text, a set of documents, an exception) appears.
- Adding a source and changing its path, with the overlap rules.
- Pause inside `CatalogScan` (it is in `DaemonControl`) and the order in which a
  walk streams nested directories.
- SQLite itself: a transaction, a savepoint and the write lock are taken as
  documented. The same file system moment is read by one `stat`.
- A file that is changed while it is hashed or read: hash and extraction are one
  step each. A change between them is modelled.
- The watchdog's arithmetic, the scheduled-task mode, the client process as the
  tray sees it.
- Prompts, token budgets, citation rules and skills' templates: each is a choice
  among its outcomes.
- Installing and removing the accelerator runtime, and what a benchmark or a
  qualification measures.
- The start of the search in the client, the diagnostics refresher, the
  migrations of the catalog, the span accounting of traces.

## Plan

1. `CatalogMirror`, an abstract catalog in which a document is absent, current or
   stale, and `CatalogScan` shown to implement it.
2. **Watchdog**: 60 seconds between attempts, at most three in 900, a grace of
   180 after a start, cooldowns that double. A timed module, with proofs.
3. **Client runtime**: startup of the search and shutdown against running
   requests, composed with `SearchReaderPool`.
4. **Accelerator runtime**: its download and removal under `ModelManager`.
5. **Sources**: add and update against the overlap rule, by three processes.
6. **Traces**: exclusive times and the bounded registry.
