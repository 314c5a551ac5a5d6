# MediaHub-AI-Node in TLA+

The repository holds two programs a MediaHub server works with, and code they
share:

* the **AI node** (`app/`): a FastAPI service with an SQLite database, a worker
  thread, plugins, an analysis and a knowledge part;
* the **compute node** (`windows_compute_node/`): a Windows program with a
  `ThreadingHTTPServer`, jobs in memory, plugins that do the work, a tray;
* `shared/node_activity.py`: the controller that puts the plugins of either node
  to sleep and wakes them.

This directory models the parts of them in which several threads, requests,
files and a restart meet, checks the models with TLC and proves what matters
most with TLAPS. `PROJECT.json` lists the runs, the mutants that show each
property can fail, the code lines of each definition, the hazards and the
theorems.

## 1. Inventory

| Component | State it keeps | Operations | Interacts with |
|---|---|---|---|
| Node activity, `shared/node_activity.py` | `_sleeping`, `_waking`, `_active_jobs`, `_last_mediahub_activity`, `_last_error`, the watcher thread | `mediahub_heartbeat`, `wake`, `begin_job`, `end_job`, `check_idle`, `sleep`, `start_watcher`, `stop_watcher`, `status` | callbacks into the plugin managers; called by every request and by the workers |
| Compute: `JobQueue`, `JobDispatcher`, `JobInputCleanup`, HTTP API | jobs in a dict under a lock; `job_inputs/` on disk | create, input upload, execute, cancel, cleanup at start | worker registry, node activity, `reload_plugins` |
| Compute: `WorkerRegistry`, `PluginLoader` | registered workers, loaded modules | load, enable, disable, `find_for_job` | dispatcher, installer |
| Compute: `PluginInstaller`, dependency plan, install plans of the API | plugin folders, backups, staging; plans in memory with an expiry | plan, confirm, cancel, install, update, uninstall with dependants | loader, activity |
| Compute: pairing, token, identity, settings | one file each; one pairing code in memory | create, validate, consume, save | HTTP API, tray |
| AI: plan store and its endpoints | `_plans` in memory, one folder per plan on disk | create, execute, confirm, cancel, load at start | installer, plugin manager |
| AI: plugin installer | installed folders, staging, `.before-update` | install, update, remove, rollback | plan store, manager |
| AI: plugin manager, loader, registry, worker bridge | plugin state, contributed handlers and providers | refresh, enable, disable, load, register | job worker, activity |
| AI: job table, endpoints, worker | `jobs` rows in SQLite, `job_inputs/` | create, upload, the worker's loop | handlers, activity |
| AI: knowledge, `app/knowledge/` | entries, aliases, relations in SQLite | create, alias, relation, import, relation import, merge and its preview, search, graph, migration of types | endpoints, knowledge jobs |
| AI: references, `app/references/`, and their jobs | profiles in SQLite: content, version, uuid | create, update, delete, compare; `reference.create`, `reference.compare` | job worker, analyzers |
| AI: analyzers, `app/analyzer/` | none; the data of one pipeline | ffprobe, mediainfo, fingerprint, quality, one after the other | reference and media jobs |
| AI: cache, providers | rows in SQLite | get, set, purge; execute | job handlers, endpoints |
| Both: migrations, build, release, installation, pages, tray | none that outlives a call | | |

What is hard in this code:

* **Threads without a common lock.** The compute node answers each request in
  a thread of its own; sync endpoints of FastAPI run in a thread pool; both
  nodes have a watcher, the AI node a worker. `JobQueue` and
  `NodeActivityController` lock single operations; sequences of them (test the
  status, then set it; `get()`, then `pop()`) are not atomic. `PluginPlanStore`
  has no lock at all.
* **State read before an `await`, a callback or pip, used after.** The upload
  endpoint of the AI node tests the status of a row it loaded before the body
  arrived. `sleep()` acts on an age read before its callback. `update_plan()`
  puts back a plan that may have been confirmed during minutes of pip.
* **Crashes.** The plan folder, `plan.json`, the input files and the job table
  survive a restart; the memory that explains them does not.
* **Reads and writes of one request with others between them.** Each endpoint of
  the AI node has a database session of its own; what it writes was worked out
  from rows it read before, foreign keys are not enforced, and SQLite gives a new
  row the id of a deleted one.
* **Thresholds.** Matches, scores, ranks and tolerances decide what is a duplicate,
  better or complete; two of them that disagree at an edge contradict each other.
* **One step of several failing.** A raising commit leaves an SQLAlchemy session
  that refuses the commit that would record the failure; a rename succeeds and
  the row is not written; Windows refuses to delete an open file.

The properties that make each component correct are in section 3; `hazards` in
`PROJECT.json` ties each difficulty to its line and to the property about it.

## 2. Modules

| Module | Models | Kind |
|---|---|---|
| `NodeActivity` | `shared/node_activity.py` | component |
| `JobLifecycle` | what a client relies on from a job of either node | abstract specification |
| `ComputeJobs` | `jobs/queue.py`, `workers/dispatcher.py`, `jobs/input_cleanup.py`, the job routes of `service/api_server.py` | component; implements `JobLifecycle` |
| `PlanStore` | `app/plugins/plan_store.py`, `app/api/plugin_plans.py`, `app/api/plugin_plan_execution.py` | component |
| `PiJobs` | `app/services/job_service.py`, `app/api/jobs.py`, `app/jobs/worker.py` | component; implements `JobLifecycle` |
| `PiInstaller` | `app/plugins/installer.py`, `app/plugins/managed_install.py`, the endpoints of `app/api/plugins.py` that call them | component |
| `WinPlugins` | install plans of `service/api_server.py`, `plugins/dependency_plan.py`, `plugins/installer.py`, `load_all` of `plugins/loader.py` | component |
| `KnowledgeMatch` | `app/knowledge/matcher.py`, the decision of `importer.py` | operators |
| `KnowledgeGraph` | `app/knowledge/graph.py` | operators, extends `KnowledgeMatch` |
| `Knowledge` | `app/knowledge/service.py`, `importer.py`, `relation_importer.py`, `merge.py`, their endpoints, `migrations/normalize_knowledge_relations.py` | component, extends `KnowledgeGraph` |
| `MediaProbe` | what `ffprobe.py`, `mediainfo.py` and `quality_fingerprint.py` of `app/analyzer/` report | operators |
| `MediaQuality` | `app/analyzer/quality.py`, `quality_profiles.py` | operators, extends `MediaProbe` |
| `FingerprintCompare` | `app/references/fingerprint_compare.py` | operators, extends `MediaProbe` |
| `QualityCompare` | `app/references/compare.py` | operators, extends both |
| `References` | `app/references/service.py`, its endpoints, `app/jobs/reference_create.py`, `reference_compare.py`, `app/analyzer/manager.py` | component, extends `QualityCompare` |
| `NodeActivityProofs`, `ComputeJobsProofs`, `PiJobsProofs`, `PlanStoreProofs`, `PiInstallerProofs`, `WinPluginsProofs`, `KnowledgeProofs`, `ReferencesProofs` | theorems about the module they extend | proofs |
| `MC...` | constants of an instance for TLC | model checking |

### NodeActivity

Each block under `self._lock` is one action; `pc[t]` says which block client `t`
executes next. `WakeClaim`, `WakeCallback` / `WakeCallbackRaises`, `WakeAwake` /
`WakeError` and `WakeFinally` are `wake()`; `BeginJob` and `EndJob` the counter;
`CheckIdle`, `CompareIdle`, `SleepCheck`, `SleepCallback...`, `SleepCommit` /
`SleepError` are the watcher's round through `check_idle()` and `sleep()`. The
callbacks themselves are abstracted to what they do to `pluginsLoaded`, with an
exception before or after the effect. Time is the age of the last activity, in
ticks, up to `IdleTimeout`.

### ComputeJobs

`pc[t]` is the place of request thread `t` in the upload handler, in
`JobDispatcher.execute` or in a cancellation. One action is one operation on the
locked queue, one file operation, or one call out of the dispatcher
(`find_for_job`, `begin_job`, the handler, `end_job`). A Windows file that
another thread has open is neither deleted nor renamed (`InUse`); a folder
`rmtree` gave up on is remembered in `leftovers`. `CompleteJob` stores the status before it copies
the result; one that cannot be copied raises past the cleanup (`unstored`). `ReloadBegin` / `ReloadEnd` are
the two writes of `reload_plugins()` between which a dispatcher has no activity
controller. `Restart` empties the queue and runs `cleanup_orphans()`. Worker
handlers are reduced to "returned" or "raised", the worker registry to "has a
worker" or "has none".

### PlanStore

One action is one operation on `_plans` or on a file of a plan's folder: the copy
and its end, opening, writing and renaming `plan.tmp`, each unlink of `rmtree`
and its rmdir. `consume()` is two actions (`ConsumeGet`, `ConsumePop`), as it is
in the code. The text of a file is `empty`, `damaged`, or the plan's content,
which is `pending` or `ready`: that is what confirm tells apart. A file another
writer has open follows its rename (`Renamed`). Installation is its two outcomes
and the `finally` that deletes the package. Any plan may expire at any time.

### PiJobs

The table is SQLite, so rows survive `Restart`; the worker and the uploads do
not. An upload is a coroutine: other uploads run only while it waits for its body
(`LoopFree`), the worker thread at any time. `DbRaises` lets a commit raise, or the
reading back of the row after a commit, at most `MaxErrors` times. After a commit that raised
`mark_job_failed` is refused by the session (`MarkFailedRefused`) and the job is stranded; a
row that is committed and cannot be read back stays as it is, while the caller goes on as if it were
not (`undone`: an upload, `revised`: a completed job, both histories). `MarkCompleted` has a third outcome,
a result that cannot be serialized after `progress = 100` was set. Files are
functions of job and name; a file still open in an upload carries that upload.

### PiInstaller

The folders of one plugin id: the installed one, the hidden ones (staging and
the version set aside, for an update and for a rollback), the backups. A folder is
a version, whole or not, and the call that is filling or emptying it. `copytree`
and `rmtree` are two actions each (`CopyBegins`/`CopyEnds`,
`BackupBegins`/`BackupEnds`, `Cleanup`/`Cleaned`, `Discard`/`Discarded`,
`Remove`/`Removed`), a rename is one. `call[c].op` is the request and `fn` the function
under way: an installation that was activated and does not load goes on, in
`verify_activated_plugin`, with a rollback, or with a removal where there was
nothing before (`Verify`, `GivesUp`, `Leave`). Every file operation may raise
(`Fault`), and the process may end between any two (`Crash`). The package is
valid and what it requires is there; a backup's name is a timestamp and never
taken twice.

### WinPlugins

`lock` is `_install_plan_lock`: creating, cancelling and confirming a plan hold it,
uninstalling does not. `Accept` starts `resolve()` over the catalog as it is then. Its recursive
`walk` runs in small steps: `visiting` holds its calls that have not returned, each with the need
it comes to next, `done` and `ordered` are the code's; `Visit` takes one need, `Return` appends a
package, `PlanEnds` stores the plan, `PlanBreaks` is a file operation that raises. What waits
in the plan is what the confirmation installs, one step after the other, each with `InstallCheck`, `PrepareRuntime`/`MakeRuntime`,
`PrepareModel`/`FetchModel`, `MoveOld`, `MoveNew`, `MoveBack` and `Reload`. Versions
are sequences of numbers and compared the two ways the code does (`Compatible` fills up
with zeros, `Older` does not). A folder is whole, or what a broken move or deletion
left: with `plugin.json` or without. `loads` is what `load_all` made of each plugin: a need that is not
met (`"unmet"`), a failure of its own (`"failed"`: no managed Python, no worker, an exception of
its import or of `register()`), or `"loaded"`; the plugins that may fail on their own are
`Fragile`. Not in the model: the checksums (a package is
itself), how the managed Python of `mediahub.python_runtime` comes to be ready, the managers GLiNER,
SmolVLM2 and CUDA speech bring along, and two threads in `reload_plugins()` at
once (`ComputeJobs` has the reload beside jobs).

### KnowledgeMatch, KnowledgeGraph, Knowledge

A request is two steps (`Read`, then `Write` or `Rollback`): the SELECTs run outside of any
transaction, and from the first flush to the commit SQLite's write lock is held. What it
read becomes a plan, the rows and columns it will write; `Write` applies it to
the tables as they are then. An UPDATE of a row that is gone fails (`Stale`), a repeated
alias or a repeated relation with an order type is refused (`Refused`), a DELETE of a missing
row does nothing, an attribute set to its own value is no UPDATE. `MergePlan` walks the
duplicate's relations one at a time over a session that does not flush;
`PreviewRelations` is the separate code of the preview. `Migrate` is the migration with
its rollback. Titles are model values with a table of their normal forms (`Norm`,
`Text`, which may be nothing), their order, who contains whom (`Like`) and similarity in
thousandths (`Ratio`): what `normalize_title` and `SequenceMatcher` compute of real text is left
out, all that is decided from it is not, the limits on candidates and matches (`MaxCandidates`,
`ImportMatches`, `ReferenceMatches`) included. External ids are kept as they were written, a
value per spelling of a key; `NormExt` is `normalize_external_ids`, which an import stores, the
matcher compares, and a merge does without. The traversal and the path search keep the code's queue, and the ordered list its loop over
the sorted relations; `TraversalIsExact`, `PathIsShortest` and `OrderIsKept` state what they
should compute without them. Left out: metadata
dictionaries, null and blank values and the order of keys in a JSON object, limits on the
length of the answers of searches, timestamps, and what the node may commit between the
SELECT of the migration script and its first flush.

### MediaProbe, MediaQuality, FingerprintCompare, QualityCompare, References

A file is its tracks in their order, its container's bit rate and the frames that can be read, for
each sampling: of the options in a job's payload the analyzers read the number and the width of
the pictures, and `payload.sampling` stands for both;
`Probe`, `Summary` and `Aggregate` are what the analyzers make of it. `Details` and
`Score` are the five parts of the quality score with their ladders, `QualityLevel` and
`Recommendation` the profile's thresholds. `CompareFile` is a comparison with a
profile: the scores, nine categories, the fingerprints with their context rules. Ratios are
hundredths of a percent, as the code rounds them. `References` has the table,
the threads of the routes between their SELECT and their COMMIT (`Begin`, `CommitUpdate`,
`CommitDelete`), and the worker's job, one analyzer per step (`Analyze`), each of which may
fail while the pipeline goes on. A new row may get the id of a deleted one.

### The history variable `overlapped`

Several promises of the code hold for a client that waits for the answer to a
request about a job or a plan before it sends the next one, and fail for one that
does not: `MediaHub` itself behaves that way. `overlapped` records the jobs or
plans for which two requests were under way at once. Properties say which of them
they need: those that quantify over all jobs or plans hold whatever clients do;
those over `Jobs \ overlapped` are the promise to a client that waits. The state
space contains both.

## 3. Runs and what they show

| Run | Instance | Result |
|---|---|---|
| `activity` | 2 clients, timeout of 2 ticks, watcher | 31 000 states, holds |
| `activity_heartbeat_wakes` | 1 client | `HeartbeatWakes` violated |
| `compute_jobs` | 2 threads, 1 job, 1 restart | 256 000 states, holds |
| `compute_cancelled_stays` | 2 threads, 1 job | `CancelledStaysCancelled` violated |
| `plan_store` | 2 threads, 1 plan, 1 restart | 255 000 states, holds |
| `plan_used_once_across_restart` | 1 thread, 1 plan, 1 restart | `ConfirmedOnce` violated |
| `pi_jobs` | 2 uploads, 2 jobs, 1 file name, 1 restart, 1 database error | 359 000 states, holds |
| `pi_queued_only_from_preparing` | 2 uploads, 1 job, 2 file names | `QueuedOnlyFromPreparing` violated |
| `pi_installer` | 2 callers, 2 calls, 2 versions, 3 backups, 2 faults, 1 crash | 189 000 states, holds |
| `win_plugins` | 2 callers, 4 calls, 7 packages of 3 plugins, 2 plans, 2 faults or crashes, 1 fragile plugin | 1 230 000 states, holds |
| `knowledge` | 2 sessions, 3 of 17 requests, 5 entries, 6 relations, limits of 3 and 2, the migration | 16 500 states, holds |
| `references` | 2 clients, 3 calls, 2 jobs, 2 rows, 8 files in 2 samplings, 48 more pictures | 515 000 states, holds |

`Consistent` gathers, in each module that has one, the type invariant and the
properties it names in its definition. In `NodeActivity`, `ComputeJobs` and `PiJobs` the type
invariant, `CallbacksExclusive` and `OutcomeRecorded` are proved (section 4) and need no run.

**activity.** `WakeOwnership`: `_waking` has exactly one owner, and
`_sleeping` only the values that owner leaves; so the two callbacks, which rebuild
the same registry without the lock, never run at once. `ReadyMeansLoaded`: a node that
reports ready has its plugins, also after a callback that raised half way.
`JobsCounted`: `max(0, n - 1)` never hides a wrong count. `IdleNodeSleeps`: an idle node
eventually sleeps, is active again, or reports an error.

**compute_jobs.** `RunningIsOwned`: no job stays `running` with no thread to finish
it. `ActivityPaired`: `begin_job` and `end_job` are
paired on every path. The count is the number of executions that owe an `end_job`, each of them is
at a place that leads to it, and a handler runs uncounted only for a request that came during a
reload. `InputsReleased`: once the requests are
over no input file of a finished or lost job is left, unless Windows refused a
deletion or the result could not be copied. `JobsFinish`: a started job reaches a final status. `KeepsLifecycle`: the
node implements `JobLifecycle` for jobs whose requests never overlapped.

**plan_store.** `RemovedIsFinal`: once any request has finished deleting a plan its
package never exists again, whatever `update_plan()` puts back. `NoPackageLeaks`: every
package on disk belongs to a plan in memory, to a request that will deal with it,
or to a `create()` that raised. `Consistent`: a plan that can be confirmed has
its complete package (`OfferedIsWhole`), and without overlapping requests it is activated once
per run of the service (`UsedOncePerRun`). `OfferedSurvivesRestart`: then a plan at rest
survives a restart, also one while `plan.json` is written.

**pi_jobs.** `RunningIsOwned`: a running job is the worker's, or was stranded by a
crash, by a failing `mark_job_failed`, or by an error after the commit of `mark_job_running`.
`InputIsWhole`: a job that needs an input is queued, run and
finished with the complete file, unless the upload's commit could not be read back. `ProgressAgrees`: progress and status tell a client the
same story. `QueuedIsFinished`: every queued job is finished or stranded.
`KeepsLifecycle` as above.

**pi_installer.** `Consistent`, with `InstalledIsWhole`: while calls do not overlap, what stands in
the plugin's place is complete, whatever fails or crashes, unless somebody is deleting it, or a
rollback took an incomplete backup; and `NothingLeftBehind`: calls that do not overlap, with no
failing operation, leave no hidden folder, which would refuse the next one. `VersionsSurvive`: then the version last activated is
installed, set aside or in a backup until a client gives it up, and with two
overlapping calls the last whole version is not lost; with three it can be.
`FailureKeepsAVersion`: a call that failed leaves a version installed where there
was one. `AnswerIsTrue`: what was answered is what
is on disk.

**win_plugins.** `Consistent`, with `DependenciesHold`: the checks of plan, installation and
uninstallation together never leave a plugin without what it needs; only
replacing a plugin by an older version does; with `DirectoriesAreOwned`: no package outlives
its plan. `UpdateKeepsPlugin`: an update that fails
keeps the plugin, unless a move broke off half-way or the process ended between
the two moves. `PlanIsInstallable`: an approved plan nothing has changed for is not
refused, with the exceptions below. `InstalledAsApproved`: "installed" means that every step is
in place, in the version that was approved, and that no step stays unloaded for what it needs. A plugin
may still fail to load on its own: the answer says `installed: True` also then.

**knowledge.** `Consistent`: as long as no request wrote on top of another's commit, no alias
and no relation names an entry that is gone (`NothingDangles`). The next four are about
every step that is not overtaken: `MergeKeepsKnowledge`, the primary answers to every name
of both entries, with the ids, relations, notes and positions of both; `ImportKeepsValues`,
an import without `overwrite_existing` takes nothing away, and keeps for every external id the
value the matcher reads; `CreateMeansNew`, it adds an entry
only when its search finds none of that kind, year and title, or when so many others sort before
it that the limit cuts it off; `MigrationKeepsRelations`, no
relation is lost, and no conflict means no old type left. `PreviewIsWhatMergeDoes` and
`GraphAnswersAreExact` compare two pieces of code, or code and definition, in every
database reached, also one with dangling rows and cycles.

**references.** `AnswerNamesWhatItCompared`: the uuid and version an answer names had the
content the file was compared with, whatever happened to the row during the analysis.
`MadeReferenceWorks`: a profile a job stored can be compared with, whichever analyzers
failed, and a file is similar to the reference made from it: neither better nor worse in any area when
both jobs sampled it alike, and otherwise in none but its pictures. `DeletedStaysDeleted`: an update
under way does not bring a deleted profile back. `TypeOK` includes the unique names and uuids.
`RatingsAgree`, `NeverBetterBothWays` and `BlurIsNoImprovement` are about the operators alone:
they are evaluated in the initial state over all files, profiles and pictures of the instance.

**The violation runs** each contradict a line of the repository, quoted in
`findings`: a heartbeat during the sleep callback does not wake the node
(`CHANGELOG.md:18`); an execution under way overwrites a cancellation
(`tests/windows_compute_node/test_job_dispatcher.py:223` tests the sequential
case); a crash between `consume()` and `finalize_consumed()` offers an installed
plan again (`docs/PERSISTENT_PLUGIN_PLANS.md:37`); a slow second upload puts a
running or finished job back into the queue although
`app/services/job_service.py:114` means to refuse it.

Consequences of the same mechanisms that have no run of their own: two
overlapping execute requests call the handler twice; two overlapping
confirmations install a package twice (`consume()` is `get()` and then `pop()` with
a default); a node can fall asleep right after new activity; expired packages are
deleted only when a request comes, and `cleanup()` does not see the folder of a
`create()` that raised. They are why the properties above speak of
`overlapped`, `broken` and "per run".

Likewise for the installers, and written into their properties as exceptions. On
the AI node an install that meets another one's staging folder ends in a `finally`
that deletes it, and the first one may then activate an emptied folder and
answer "ok"; a backup copy that broke off stays in the list, and a rollback to it
installs it; a crash inside a rollback leaves `.restoring`, which refuses every later
one, also the one that would undo an update that does not load. On the compute node the plan fills
versions up with zeros, `install()` and the loader do not, so a plan that counts
"1.0" for "1.0.0" is approved and then refused; a plugin needed twice is compared
with the catalog the second time, not with what is installed; a folder without
`plugin.json` is no plugin for the plan and one for `install()`; a crash leaves the
package directories of all plans, as the plans are in memory; an update whose Python
dependencies changed is always refused, as the environment that is there is
never rebuilt. In the AI node's table a commit that succeeds and cannot be read back makes an upload
delete the file of the job it queued, and turns a completed job into a failed one.

And for the two database parts, again as exceptions in the properties or outside of what they
claim. Two overlapping merges of one pair in opposite directions delete both entries, and a
relation or an alias added during a merge is left dangling. A title reaches the matcher
only through a `LIKE` filter on its spelling, so "Alien-3" is not found by "Alien 3"; an
exact title without a year scores 0.93, below the threshold, and is imported again;
`POST /relations` without an order type adds the same row twice. The migration's rollback
undoes the rows changed before a conflict, and its last lines still count them. The importer says
that it does not overwrite without leave (`importer.py:81`), but the first import that adds an id
rewrites all stored ids of the entry, lower case and one per key: of several spellings of a key, which
`POST /knowledge/items` and a merge store as they come, only the last one stays. The
matcher has always read just that one, so nothing becomes unrecognisable. A preview announces one
alias too many when the duplicate's original title becomes the primary's. Among more than 100 entries whose
titles contain the imported one, an exact match that sorts later is cut off and a duplicate
created, and an import whose title has no Latin letter or digit always creates one. Nothing
compares the samplings of two fingerprints, so a file may be called worse than itself in its pictures. Two updates of one
profile that overlap give one version two contents; an update or deletion may land on a
new profile that got the id. A good file with one remaining problem is told to look for a
better version, so a lenient profile may recommend worse than a strict one. Labels outside of the rank
tables ("4K UHD", the `_surround` classes) compare as "different"; the visual verdict "similar" is
in no list of `category_summary`; clipped white that goes from 0 to one ten-thousandth is alone enough for
"worse"; a higher resolution at the same bit rate can score less, and an unknown bit
rate more than a low one.

### Bounds, and why they are enough

* Two clients, threads or uploads: all races found in the code are between two
  requests (or one and the watcher or worker), and the models have these besides.
  The invariants of `NodeActivity`, `ComputeJobs` and `PiJobs` are proved for any
  number.
* One job or plan where nothing couples jobs or plans: they share no state
  except the activity counter, the pool of threads and `cleanup()`'s loop, which
  calls the operation of a single one. `PiJobs` has two jobs since the worker
  takes them in order.
* One restart: `Restart` forgets everything that is not on disk, so a second one
  starts from a state of the same kind as the first. `UsedOncePerRun` counts them.
* `MaxErrors = 1`, a commit that raises or a row that cannot be read back: the session of a second
  error is a new one.
* Two calls for `PiInstaller`: every overlap of two, a call after a crash, a rollback after
  an update. Two faults: an operation and the one that should undo it.
* Four calls for `WinPlugins`: a plan and its confirmation twice, so that an update, a
  retry after a failure and two plans that wait at once occur; one plugin that others need may fail
on its own; the packages have every
  kind of need: met, met by a longer version only, missing, nested, cyclic.
* Three requests for `Knowledge`: one that makes a state the others meet, and two that
  overlap; five entries leave room for two new ones, and for one that gets a deleted one's id. Three
candidates and two matches are few enough that both limits cut something off. The requests were chosen so
  that every branch of the decision, the merge and the refusals is taken.
* Two rows and two jobs for `References`: a reused id, a taken name, a reference made by one job
  and compared with by the next, in the same sampling or another, while a client edits. The files sit on both sides of each
  ladder's and tolerance's edge that the properties are about.
* `IdleTimeout = 2` ticks: fresh, older, and old enough are told apart.

### Fairness

Weak fairness of each client's, thread's or upload's next step once its request
was accepted, of the watcher and of the worker: threads are scheduled, callbacks,
handlers, pip and file operations return, a client sends its body or closes the
connection (the servers have timeouts or the socket breaks). No fairness for
requests, expiry, restarts, raising commits, or for `ReportProgress`, a handler's own
choice, nor in the modules without a liveness property (`PlanStore`, `PiInstaller`,
`WinPlugins`, `Knowledge`, `References`). A choice between success and an exception is never fair: the liveness
properties hold whichever happens.

## 4. Proofs

`tlapm` checks every proof to the leaves, from the assumptions named in the
modules (`ClientsAssumption`, `ThreadsAssumption`: finite sets; the bounds are natural numbers; an
upload is not named like a file state; clients choose neither the uuid nor the version of a
reference and store a score within 0 .. 100, `DraftAssumption`, `ChangeAssumption`; a job's file is
one of the files, `PayloadAssumption`; row ids are positive, `RouteAssumption`; the tools report
numbers or nothing, `MediaAssumption`, `PrintAssumption`; a backup has a folder of its own, `BackupsAssumption`; a plugin
package has a version of natural numbers and a list of needs with least versions,
`ManifestsAssumption`; and the compute node starts with one version of each plugin, each with what
it needs, `WorldsAssumption`, which is what the installer leaves; the knowledge database starts with
rows that have the keys their tables ask for and name entries there are, `TablesAssumption`; requests
are what the schemas and the importers' own checks let through, `RequestsAssumption`; titles with one
`Text` have one `Norm`, and a title contains itself, `TextAssumption`; normalising a key or a value of
an id twice changes nothing more, `KeyAssumption`; the limits are positive, `LimitAssumption`; a ratio is between 0 and 1000,
`NumberAssumption`; and normalising a relation type twice changes nothing more, `RelationAssumption`,
which holds of all texts with a letter or a digit) for every value of the constants.

**NodeActivityProofs.** `TypeCorrect`; `WakeOwnershipInvariant`: which client or the
watcher holds `_waking` and what `_sleeping` and `pluginsLoaded` may be at each
place; this is inductive with the type invariant. `CallbacksNeverOverlap` and
`ReadyNodeIsLoaded` follow from it. `JobsCountedInvariant` argues by the
cardinality of the set of clients between `BeginJob` and `EndJob`.

**ComputeJobsProofs.** `TypeCorrect`; `JobInvariant`: `RunningIsOwned`,
`QueuedIsUntouched` and `OutcomeRecorded` are inductive only together with
`UnknownIsUntouched` (nobody works on a job that was not created or was lost) and
`CallsAreCounted` (a thread at or behind its handler was counted in `calls`). `FilesInvariant`:
every input file has a thread that will remove it or a job that is not over; this
gives `InputsAreReleased`. `ActivityIsPaired` relates the counter to the set of
counted threads and these to the places of the program (`ActivityPlaces`), which needs that a
thread holding the dispatcher that is being set up got its request during that reload. `LifecycleIsKept` is the refinement of `JobLifecycle`: its step case needs to
know, for a job whose requests never overlapped, how far the one thread that works on it
is, which is `LoneRequests`.

**PiJobsProofs.** `TypeCorrect`; `RowsInvariant`: `RunningIsOwned` and
`OutcomeRecorded` are inductive with `HandlersAreCounted`, whatever uploads do.
`OwnersInvariant`: an upload that met no other one about its job owns the job's
status and its two files (`UploadOwnsJob`), and the worker's job has the status the
worker's place says (`WorkerOwnsJob`); `InputsAreWhole` and `ProgressAlwaysAgrees`
need both, because a finalization or a start that came at another moment would
break them. `LifecycleIsKept` is again the refinement of `JobLifecycle`; `CallsAgree` adds
that the worker's calls and the row of its job agree.

**PlanStoreProofs.** Each theorem rests on those before it. `ControlInvariant`: one thread
creates, and nothing exists of a plan nobody made. `MakersWorkAlone`: the request that makes a
plan is the only one that knows it, so its files say how far it is. `RemovalInvariant`:
an incomplete package is its maker's only, and a deletion under way has the package on its
list; hence `RemovalIsFinal`, whatever threads write meanwhile, and `PackagesDoNotLeak`.
`OfferInvariant` adds the plans that `update_plan()` is about to put back (`UpdatedIsWhole`),
`UseInvariant` that a used plan is out of memory and stays so (`UsedIsGone`); together they
are `StoreIsConsistent`. `OffersAreLoadable`: while requests do not overlap, `plan.json` is
readable at every moment between the writing and the renaming of `plan.tmp`, so
`OffersSurvive`.

**PiInstallerProofs.** `TypeCorrect` and, for each step,
a lemma that says what the step does to the calls and to the folders and nothing more, so
that the arguments about folders need not open the actions again. As long as no two calls
have overlapped there is one call at a time (`Alone`). Of that call `FoldersInvariant` says how
it leaves the folders at each of its places: `Sound`, that what is installed, saved and staged
has no holes, which needs that the copy under way is of a whole folder nobody else writes; and
`Tidy`, that each hidden folder is one the call will still take away. Both parts together are
inductive; `RunsWholeVersions`, `LeavesNothing` and with the types `IsConsistent`
follow from it, for every number of callers, backups, failing operations and crashes.
`AnswersInvariant` is about the version last activated and about what callers are told. `CurrentInv`:
the version is in one of the places the call is not about to remove (`Safe`), at each of its
places. `TruthInv`: what the call remembers of the plugin it found, its backup included, is still
so (`Found`), also while it is taken back (`TakesBack`), and a failure leaves a version
(`KeepsVersion`). `VersionStays`, `FailuresKeepAVersion` and `AnswersAreTrue` follow.

`RaceInvariant` is about the first two calls when they do overlap, and can then empty, exchange or
refill any folder under each other. A whole backup is lost only to a client's deletion, so what
remains is the case without one (`Bare`). Then an installation sets aside only a
folder with holes, since its backup of a whole one, made just before, would be whole; and a rollback, which
has only a backup with holes to copy, gives the version up (`Careful`). Hence nothing whole ever
stands where it may be discarded (`NoneHidden`). What keeps the two calls out of each other's way
is that `makedirs` refuses a folder that exists: one of them at a time uses the staging folder, or holds what a
rollback set aside, and a backup has a folder of its own (`Apart`). Every action
is looked at once with its own call and once with any other one (`StepOfTwo`), which needs no case
for each pair of places. `VersionsRemain` follows, with `VersionStays` for calls that do not overlap.

**WinPluginsProofs.** `TypeCorrect`, whose `Fits` says which steps and positions a request has at
each of its places. `PlansInvariant`: one request works with a plan nobody else is offered
(`Owned`), so `DirectoriesAreOwned`; and a plan is `Ordered`: each package once, after all it
needs, in a version that will do for all of the list. That is an invariant of the walk,
`Walking`: each need looked at is settled, or is what the next frame of the stack is about; a walk
that refuses cycles therefore ends in an ordered list. `FoldersInvariant`: the steps behind the
current one stand, with what they need (`Stand`), because in an ordered list no later step
touches a plugin an earlier one needs; `PluginsSurvive` and `InstallationsAreComplete` follow, the
latter for any set of plugins that fail on their own.
`FreshInvariant` keeps, from the walk to the last step, why each need was taken for met
(`Fresh`), as long as nobody else changed a folder; hence `PlansAreInstallable`, where the
exceptions the property names are the only ways to be refused. `DependsInvariant` adds that the
version set aside would still serve everyone (`Serves`): a newer version serves whom the old one
did, which needs that comparing tuples is transitive (`NewerThanNewer`). With the types it
gives `PluginsAreConsistent`.

**KnowledgeProofs.** `Invariant` is about the tables and the plans together. A plan is made of
what a request read, and is written later to whatever the tables have become. So the
invariant says of every plan that has not been overtaken what it promises of the tables as they
are (`Promise`): that it leaves nothing dangling, that a merge keeps all of both entries, that an
import takes nothing and adds nothing that is known. A commit, whosever it is, overtakes all other
plans, which then need not promise any more (`OvertakenHolds`); until then the promise is one of unchanged tables.
Most of the work is that each kind of plan keeps its promise when it is made (`PlanOfHolds`).
For a merge that is an invariant of the loop over the duplicate's relations (`MergeInv`), number
by number: the rows in memory cover (`Covers`: same key, at least the notes, no later a
position) those of the table, and those taken care of so far are deleted for a twin that covers them, moved, or
relations of an entry to itself. Since the loop compares with the rows of the table, not with what it has
changed so far, this also says what the preview says. The names are a matter of two loops over the
same words with different titles to begin with: what the second skips is what the primary takes
over; together this is `PreviewIsExact`. For an import
it is that an entry of the same kind, year and title is among the candidates unless the limit cuts
it off (`FirstOfIs`: a limit keeps what fewer than that many sort before), scores as an exact match, and so
forbids the decision "create", whatever the second limit leaves of the other matches, as the best
one always stays (`CreatedIsNew`). That no id is lost is that normalising twice is normalising
once (`KeyAssumption`). `WriteHolds`, and `MergeCommitted` and
`ImportCommitted` for the action properties, then only say what writing such a plan does.
The migration has a loop invariant of its own (`MigrateInv`): a conflict puts every row back.
Loops are functions of the ids up to `MaxRelation`; what is said of all their steps
follows from a least counterexample (`Upward`), which needs no induction over operators.

The same way `GraphIsExact` follows from loop invariants of the searches, for every depth up to
the limit and any relation types (`AnswersAreExact`). `Searching` is the one of the turns: the
depths in the queue never fall and differ by at most one, an entry's depth is the first ball
around the start that holds it, entries that left the queue have had their relations followed,
and each entry was reached over a relation from one depth less. Its key is `NearOnesSeen`: as
long as no queued entry is nearer than k, the search has seen the whole ball k, so a new
neighbour of the head cannot be any nearer than it is told to be. Each turn takes one entry out
for good, so the turns the model gives the loop are enough. A path is read back one depth per
step (`WayBack`). In an ordered list an entry's number is the least of the positions entered so
far (`Entered`), and taking the first of what is left lists a set in its order (`InOrderIs`).

**ReferencesProofs.** `InvariantHolds`: the uuids given out (`UuidsGiven`), the row as the
latest of its versions (`RowsAreLatest`), one content per uuid and version
(`VersionNamesContent`) and what a job compared with as something that was committed
(`ComparedWasCommitted`) are inductive together. `AnswersNameTheirReference` and
`DeletionIsFinal` follow. `TypesAreKept` needs `Typed`: nobody has read a version above the
number of calls, and the job at work is one a client submitted. `MadeReferencesWork` rests on
`MadeAsSaid`: until an update gives it version 2, a reference that was made holds what was found of its
file in its job's sampling, and the answer what was found of the file compared; a file then compares
with itself as similar, in every area whatever the samplings but for the pictures
(`OwnIsSimilar`).

The other three are about every file and print, whatever the tools report. `RatingsAlwaysAgree`: each part of
a score is a rung of a ladder (`RungReached`) or a capped sum, so the clamp of the total hides
nothing; and of two profiles the stricter one has the higher thresholds (`StricterLevels`) and
finds no fewer problems (`FewerProblems`). `BlurNeverImproves`: a quarter of the sharpness lost is a strong loss of detail,
and the context rules, in the order they are applied in, leave no better `Lower` metric and no
better verdict. `BetterOneWayOnly`: in an area because a share of
a number is monotone; between two pictures because a metric that gained by more than its tolerance one way
has lost by more the other way (`Directed`), but the ratios are rounded and are shares of
different values, so that two
gains and two losses do not cancel: the weighted sums are bounded metric by metric, and a
difference in sharpness alone decides where the sums could both be positive (`SharperGain`).

**Only model-checked:** the liveness properties (`IdleNodeSleeps`,
`JobsFinish`, `QueuedIsFinished`), because fairness and ENABLED are out of
the prover's reach. Every safety invariant and every action property of a passing run is also a
theorem.

## 5. Not modelled, and the plan

In this order; each item is a component with its run, its proofs where its
invariants deserve them:

1. `PiPlugins` (manager, loader, registry, bridge, handler registry): a refresh, the wake
   and the sleep callback in three threads without a lock. It is where two hazards
   without a property belong: the worker looks the handler up before `begin_job()` wakes the
   plugins, and a plugin's own `unregister` compares a field the public copy of a worker
   does not have. A plugin that fails when it is loaded a second time also stays marked as loaded.
2. `WinWorkers` (registration, scoring) and `Pairing` (one-time codes): small, with one
   check-then-act each.
3. `CacheService`, `Providers`: the rows several requests share; plan actions and the release
   steps as algorithms against a reference definition.

The abstract specification worth stating next is that of an installed plugin: in
exactly one whole version or not at all, replaced in one step; both installers
implement it between overlaps and crashes.

Left out for good, with the reason in `PROJECT.json`: pages and tray (presentation),
hardware detection, the metrics of a single frame and the parsing of file names
(conversions), build and shell scripts (sequential I/O), migrations that only add columns.
