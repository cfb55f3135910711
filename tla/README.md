# DevOps Cockpit: a TLA+ model of its background work

DevOps Cockpit (`src/`) is a FastAPI server with one SQLite database. People and
webhooks talk to it over HTTP; it runs *pipelines*: lists of steps (pull a
repository, run a command, apply a manifest, ...) that execute on background
threads of the same process. The pages and managers are mostly forms over rows
and calls of other programs. What is hard to get right, and nearly impossible to
test, is what happens when threads, requests, deletions, restarts, files and
processes of the operating system meet. That is what is modelled here.

Paths are relative to `src/app/`, and `engine` is `modules/pipeline_engine.py`.

## 1. Inventory

| Component | State it keeps | Operations | Hard behaviour | Correct when |
|---|---|---|---|---|
| Pipeline run lifecycle (engine 68-135, 713-887; `routes/pipeline_routes.py`) | rows of `pipeline_runs`; `_cancel_events`, `_pipeline_locks`; a thread and a session per run | launch, execute, cancel, delete the pipeline, recover at start-up | races of launch, cancel, delete and the worker; cached rows; reused row ids; failing commits; crashes | runs of one pipeline exclude each other; every queued run ends; locks and events are given back; a cancellation reaches its run |
| Local shell step (engine 373-427) | a process group, its stdout pipe, a watchdog thread | spawn, read, cancel, time out, kill | exit, kill and end of file in any order; children that outlive the shell or ignore SIGTERM | the reported outcome is what happened; cancelling stops the command |
| Cron scheduler (engine 576-615, 892-944) | `schedule_cron`, `schedule_enabled`, `last_scheduled_at`; the tick's copies of the rows | tick, change the schedule | a tick against settings that commit late, deletions, expressions that never fire, other launches and crashes | a cron time leads to at most one run; a due pipeline is served |
| Pipeline steps, settings, webhooks (engine 430-571, 587-708; routes) | `steps_json`, `webhook_token`, `webhook_branch`; the event loop that coroutines share | create, duplicate, delete; add, update, remove, move a step; change a token; deliver a payload | two editors; pages that are out of date; coroutines against threads; deletion against launch; five forges, two routes | no edit is lost to another coroutine, no step is doubled, old URLs stay dead, runs belong to their pipeline, a push starts a run when the filter lets it |
| Run log and live status (engine 68-135, 373-709; routes 335-364; `templates/*/run.html`) | `log_text`, `vars_json`, the context's buffer and variables, the page's offset | write, flush, poll, re-run | a status saved before the log is; time-outs and waits without one; steps that raise under a running command; failing commits; offsets in other units | a page that stops shows the log, once and in order; success has waited; polling ends |
| Git repositories (`modules/git_mgr.py`) | rows, checkouts on disk or on a server, `.git/config` | register and clone, pull, check out, delete | two pipelines in one checkout; the credential in the remote's URL during a pull; clean-ups that fail; commands that go on after their time-out | a run builds what it pulled; the URL is clean after every pull; the row matches the disk |
| Accounts and access (`auth.py`, `routes/auth_routes.py`, `users_routes.py`, `account_routes.py`) | `users`, `pipeline_access`, the session cookie | first-run setup, login, add and delete a user, change the password | two setups or two deletions at once | there is always an administrator |
| Login throttle (`login_throttle.py`) | a counter, a level and a ban per client | check, failure, success | lost updates of the counter; expiry of a ban | guesses are bounded; bans grow and end |
| Ansible runs (`modules/ansible_mgr.py`) | rows of `ansible_runs`, a directory with decrypted keys | launch, execute | exceptions that set no status; restarts | the keys are removed |
| Export and import (`modules/config_io.py`) | the whole database | export, import with or without overwrite | failure half-way; edits in between; references by local ids | items stay whole, credentials survive, a new cockpit gets what was exported |
| Backup, restore, migrations (`cli.py`, `migrations.py`, `database.py`, `src/cockpit`) | the database file, kubeconfigs, clones, `secret.key`, `.env`, archives | backup, restore, start | order of copying and replacement; failures and interruption; a server outside the PID file; another cockpit's key and paths | the parts fit together; nothing is cleared unsaved |
| SSH, Docker, Kubernetes, Jenkins managers | registries of rows; kubeconfig files; clients of other servers | forms, remote calls | failures and time-outs of the other side | as steps (run log), as rows (import), as files (backup) |
| Settings, encryption, middleware, dashboard, pages | configuration; nothing else | read | - | - |

How they interact. HTTP routes run in a thread pool, each with a session of its
own; they call `launch_run` (run, rerun, deploy, the three webhook routes) and
`cancel_run`, and `delete_pipeline` calls `cancel_run` for every run of the
pipeline. `launch_run` starts one worker thread per run. A worker shares with
the requests the database rows, the registry of cancel events (under
`_registry_lock`) and, with the other workers, a lock per pipeline id. The
scheduler thread reads and writes pipeline rows in its own session and calls
`launch_run`. A local shell step starts a watchdog thread that shares the
process handle, the cancel event and a small dictionary with the step. At
start-up `lifespan` (main.py) settles the rows a dead process left and then
starts the scheduler. SQLite does not enforce foreign keys here and reuses the
highest row id after it is deleted. `async def` handlers run on the event loop
and exclude each other between two awaits; all others overlap. Steps of a run
work in the checkouts that pages pull and switch. `./cockpit` is a shell script
that stops and starts the server and calls `app/cli.py` beside it.

## 2. Modules

| Module | What it is |
|---|---|
| `PipelineRuns` | the run lifecycle: workers, requests, registry, locks, rows, crash and restart |
| `RunBoard` | the abstract specification of the runs table; `PipelineRuns` implements it |
| `ShellStep` | one local shell step: its thread, its watchdog, its process group |
| `Scheduler` | the cron scheduler against settings, deletions, launches, restarts |
| `PipelineEdits` | the pipelines table: builder, settings, webhook tokens and payloads, deletion, launches |
| `LiveRuns` | the inside of a run: steps of every kind, log, variables, the page that polls, re-runs; Ansible runs |
| `LogStream` | the abstract specification of a page and its log; `LiveRuns` implements it |
| `GitRepos` | repositories: rows, checkouts here and on a server, credentials in URLs, runs that build there |
| `Access` | accounts, grants, logins and the login throttle |
| `Transfer` | export and import of the configuration, with the managers' rows |
| `Backup` | archives, restore, start-up: what must fit together in the data directory |
| `MC...` | one per module that is checked: symmetry sets and definitions for TLC |
| `...Proofs` | theorems about the module of that name (`EngineThreadsProofs`: about `ShellStep` and, as `Cron`, `Scheduler`) |

How they compose. `PipelineRuns` takes steps as abstract; `LiveRuns` is one run
with its steps, without the locks; `ShellStep` is one step of `LiveRuns` with its
processes. `Scheduler` and `PipelineEdits` are the callers of `launch_run`; they
count or list runs and do not follow them. `GitRepos` has the pipeline lock of
`PipelineRuns` and the two kinds of steps that work in a checkout. `RunBoard` is
instantiated in `PipelineRuns` and `LogStream` in `LiveRuns`, each with a
refinement mapping.

### PipelineRuns

A *worker* is a slot for one call of `launch_run` and the thread it starts:
`pc` goes through `insert`, `register` (launch_run), `load`, `acquire`,
`timedout` (_execute), `start`, `prepare`, `loop`, `step`, `flush`
(_run_steps), `release`, `pop` (the finally blocks) and back to `idle`. The
steps between two labels are those between two commits, lock operations or
looks at the event, in the order of the code. A *request* is a cancellation or a
deletion in progress: `lookup` is before the look into the registry, `mark`
between it and the fallback; `todo` are the runs of `pipeline.runs` still to
cancel, `runs` the collection as it was loaded, `cache` what the session read of
the rows and `expired` whether a commit has made it forget that.

`status` and `pipeline_id` are the runs table, by id, and a new row takes the
highest id plus one, as `INTEGER PRIMARY KEY` does: after a deletion the next run
can get the id of a run whose worker is alive. `orphaned` remembers which
workers that has happened to. `Unwind` is an exception on its way out: it passes
exactly the finally blocks the code has. It is taken when a row a worker needs
is gone (`RowGone`) and when a commit fails (`DbError`).

A step is abstract: it ends, fails, or notices the cancellation. With
`continue_on_error` a failed step is one that ended. The number of steps is
chosen when `get_steps` reads it.

### ShellStep

Three parties: the step's thread, its watchdog, and the process group. A
process may have the stdout pipe open (`holding`) and ignore SIGTERM
(`stubborn`). The reader gets its end of file when nobody holds the pipe;
`proc.poll` and `proc.wait` are about the shell alone. `OutputFails` is any
exception of the read loop. A process that leaves the group by a session of its
own, or whose pid is reused, is not modelled.

### Scheduler

`BeginTick` reads all enabled pipelines into the session; `copy` is used until
the first commit of the tick expires it, the row itself afterwards (`Seen`).
`Claim` is the assignment to `last_scheduled_at` with its commit, `FoundIdle`
and `LaunchScheduled` are separate because they are separate transactions.
A schedule change reads row and clock in one action (`ChangeSchedule`, or
`ImportSchedule`, which sets the time always) and writes in another
(`CommitChange`), with the time it has read; `again` remembers the claimed times
that such a commit gives back, and `backdated` that the tick under way saw one. A cron
expression is the set of times it fires at; the empty set is one like `0 0 30 2 *`,
which `croniter.is_valid` accepts and `get_next` raises for. `TickFails` is the
exception, of that or of a deleted row. Runs are counted here and not followed.

### PipelineEdits

A request loads a pipeline in one action and commits in another. `add` and
`update` of a step are coroutines without an await in between, so one of them
holds `loop`; removal, move, settings, tokens, duplication and deletion run on
threads and may come in between. A step is a record of which one it is (`id`) and
which edit wrote it (`text`). A page of the builder is a request, too: it has the
steps it was rendered with, and saving one of them (`SaveStep`) sends that copy,
its `id` with it, to an index of the list that is there by now; `astray` marks a
step that was written over another one. Ids are reused;
`born` says which pipeline a row is, and a run remembers it. A webhook delivery is
a push (of a branch or tag, created or deleted; for Bitbucket of one or two; or a
plain call), in JSON or as a form, turned into the headers and fields one of the
forges sends (`Delivery`, external), decoded by the route it comes to (`Payload`),
read by `ParseWebhook` and compared with what the settings ask for (`Wanted`).

### LiveRuns

A log only grows, so it is the number of its lines: `written` in the buffer of
the worker's context, `saved` in the row. Any write may flush (the half-second
interval), and takes along whatever the status of the worker's object is. Steps are of
seven kinds by what they wait for: a shell command, a Docker stream, a command of
the cockpit's own host with a time limit (`cli`), a pull, a command on a server
(`ssh`), a Jenkins build, and one request (`k8s_rollout_restart`). `StepRaises` is
every way in which a step ends by an exception whatever its command does: output
that cannot be decoded in the read loop, a time limit, a lost connection. The
command is then in `left`, and may go on. A commit that fails takes the worker
with it (`CommitFails`), and `delete_pipeline` the row (`Delete`); `lost` says which.
`Waiting` is what the code waits for without a limit.
`page` is the text a browser has and its offset, which it counts in
other units than the server: one odd line may make it wrong by one. An Ansible
run is a worker without steps, whose inventory has decrypted keys in it.

As a `LogStream` the stream is what is saved in the row, and the page is its
reader. What the server writes without saving, flushes together with a status or
leaves behind at a restart does not show there; a page that misses an answer for
good, that was opened on an odd line, or whose run was marked cancelled before its
event was registered is a reader that has left.

### GitRepos

A repository is its name, which is unique in the table and is the directory.
Each git command, each write of `.git/config` and each commit is an action. A
credential gets into the URL of the remote by a clone, and by a pull or a push
until it ends; `leak` records the paths by which it stays, `fault` those by
which row and checkout come apart, so that both properties name every exception.
A clone, pull or `rm` on a server whose answer does not come in time goes on there,
and a git command here outlives a crash: `orphans` are these commands, which hold no
lock. Clean-up and removal on a server go over a connection of their own, and may
fail or be half done without anybody noticing.

### Access

Forms and logins are requests with a read and a commit of their own. `form` keeps
who asks and what was read. The throttle's row is that of one client, and time
is what is left of its ban. Logins in flight have each read the row as it was
then: `bans` counts the bans that began since none was in flight, and `cleared`
says that a success has deleted the row since.

### Transfer

One item of each section, with its credential; the scripts of the server with
their ids; one pipeline whose step refers to a script. An import commits item by
item, and threads edit and delete in between; coroutines do not. The file may be
malformed at any item (`bad`) and the same file may be taken to a new cockpit
(`Move`). `calm` says that nothing was edited meanwhile.

### Backup

The data directory is a database (how new it is, which keys its credentials
are encrypted with, whether it has a cluster and where its path points),
a kubeconfig and a key; `.env` may have another key. A backup copies the database
first and the files afterwards. A restore is the sequence of `cmd_restore` in
`src/cockpit`, with what `cli.py` does in between, and may be interrupted after
every part. A server may have been started by systemd (`outside`), and `cmd_stop`
leaves that one up; a server holds the key it has loaded when it started (`holds`),
whatever the files say since. Archives are this cockpit's, its safety archive, or one from a
cockpit with its own key and paths, which may be torn.

## 3. Runs

Twelve runs. A "violation" run checks one statement that a comment or a document
makes and the code does not keep. States and times are for two workers of TLC.

| Run | Configuration | Shows |
|---|---|---|
| `runs_keep` | 2 workers, 1 request, 2 runs, 1 crash, pipelines are kept | one running row per pipeline (`OneRunningRow`); every active row has a live thread (`ActiveRunIsOwned`), which a cancellation can reach (`WorkerIsReachable`); the table is a `RunBoard` (`ImplementsBoard`); every queued run ends (`QueuedRunEnds`); cancelling a waiting run wins over its lock (`CancelQueuedWins`) |
| `runs_delete` | 2 workers, 2 requests, 1 row id, 1 pipeline id, deletion, 1 database error | exclusion (`Serialised`), no lock left locked (`LockHeldInside`), no dead event (`EventsAreLive`), with deletion and reuse of ids |
| `runs_reused_id` | 2 workers, 1 request, 1 row id | **violated**: a RunContext writes for one run (engine:69) |
| `shell_any` | a shell and 2 children, any of them stubborn | `KillIsExplained`, `ShellIsReaped`, `CancelStopsShell`, `GroupDies` |
| `schedule_any` | 2 pipelines, 3 cron expressions (one never fires), clock 0..2, 1 change, 1 crash | `OncePerSlot`, `DueIsServed` |
| `edits_any` | 2 requests or pages, 2 ids, 2 births, 2 tokens, 1 run, 4 edits, 1 branch name | `NoStepTwice`, `LoopEditsLoseNothing`, `DeadTokensStayDead`, `RunsBelong`, `PushesAreUnderstood` |
| `live_any` | a run of up to 2 steps of 7 kinds, 3 lines, 1 failing commit or deletion, 1 crash, 1 re-run | `PageEndsComplete`, `SuccessAwaitsCommands`, `KeysAreCleared`, `RerunRepeats`, `PollingEnds`; the page reads a `LogStream` (`ImplementsStream`) |
| `git_any` | 3 actors, 2 pipelines, 1 repository, 1 crash, 1 command at a time that goes on alone; local or remote, https or key | `BuildsOwnPull`, `CredentialIsExplained`, `RowMatchesCheckout` |
| `access_any` | 2 forms, 2 logins, 2 users, 2 failures per ban, 2 levels | `AdminRemains`, `GuessesBounded`, `BansOnlyGrow`, `BanEnds` |
| `transfer_any` | 2 script names, 2 edits, any number of exports and imports | `ItemsStayWhole`, `RoundTrip`, `StepsKeepTheirScript`, `CredentialsSurvive` |
| `import_credential` | 1 script name, no edits | **violated**: credentials are exported so that another cockpit can import them (config_io.py:7-10) |
| `backup_any` | 2 commits, 2 restores, servers of either kind | `DataFitsTogether`, `SafetyHolds` |

Each takes at most about three minutes; the largest, `backup_any`, has 6.3
million states.

Bounds. Two workers are enough for every conflict in the code: locks, events and
rows are contended pairwise, and workers are reused. One id for rows and for
pipelines makes reuse happen at once instead of after filling the id space. One
crash and one error are enough because recovery leaves nothing that depends on
how often it ran. Two times of the clock after 0 let one expression fire twice
and the other once. Two requests are the smallest number that overlap; git has
three actors because a run, another pipeline's run and a page meet in one
checkout. Four edits are two steps added, an edit that moves or removes one, and one
from a page that was open before it. One command at a time that goes on alone is
enough to end in a directory that somebody else has begun to fill or to build in. Two steps
are a step that leaves something behind and one that follows it. Two restores are
one that is interrupted and the one that repairs it, and two commits let a
database with a credential change during a backup or a restore. Two failures trip a ban in the model and three in the code; the bound
`GuessesBounded` states is a formula in that number and the number of logins, and it
is proved for all of both. Two logins cannot break
`BansOnlyGrow` without its exceptions, three can; it is proved for any number.
Every bound is a CONSTANT
with its name in the module, and some actions say "Bound:" where the model leaves
something out: a page is not opened on a re-run, `./cockpit` commands do not
overlap, an archive is one that `./cockpit backup` has made.

Deadlock is checked except where the system really stops: `shell_any`,
`edits_any` and `live_any`. Symmetry is used only in runs without liveness
properties.

Fairness. Worker threads and requests are weakly fair: the operating system
schedules them and the server runs a request to its end. Acquiring the lock is
*not* assumed to be strongly fair; `QueuedRunEnds` needs no more because
launches are bounded: whoever overtakes is used up. With launches without end a
queued run could be overtaken for ever, since `threading.Lock` keeps no queue.
Steps are assumed to end in `PipelineRuns`; what that rests on is in `ShellStep`
and `LiveRuns`. `Restart` is weakly fair because the compose file says `restart:
unless-stopped`. The scheduler's thread is weakly fair: it wakes every
`INTERVAL` seconds. In `ShellStep` the two threads are fair and the command is
not; the deadline comes only in `TimedSpec`. In `LiveRuns` the worker, the restart
and the open page are fair, and so are commands that have a time limit: a shell
command and those of kind `cli`. Nothing is assumed of what has none (`Waiting`):
the lock while another run has it, a pull, a build or push, a server that keeps
sending, Jenkins, Kubernetes, the end of a shell's output while a process it left
behind holds the pipe. `PollingEnds` names all of it. Playbooks have no limit,
either. In `Access` logins and the clock
are fair.

## 4. What the checks found

Two findings have runs of their own, which TLC finds violated:

1. After a deletion the next run can have the id of a run that is still
   executing; the old worker's updates go to the new row (`runs_reused_id`).
2. An import passes the credential of a repository in the place of its user name
   (`config_io.py:291` against `git_mgr.py:225-232`), so a private repository
   is not cloned and a public one has no credential (`import_credential`).

Five more are exceptions that a property names, because the code does what its text
or its purpose excludes; the run passes, and without the exception it would not:

3. `update_settings` takes the time at engine:604 and commits it at 615. A tick that
   claims a slot and launches in between is overwritten, and the slot runs twice,
   although "enabling a schedule never fires for past slots" (`again` in
   `OncePerSlot`). An import does the same (`config_io.py:324`, 330).
4. The docstring of `git_mgr.py` (20-22) says a credential is "never written to
   .git/config". Every clone over https leaves it there until the next pull, and so
   does a failed push (`leak` in `CredentialIsExplained`).
5. The signed webhook route reads JSON only and goes on without a payload: a
   form-encoded push, which the other route decodes, passes the branch filter and the
   check for deletions (`PushesAreUnderstood`).
6. A step saved from a page that is out of date goes to an index: another step is
   overwritten and the edited one doubled (`astray` in `NoStepTwice`).
7. A server that systemd started is "Not running" for `./cockpit stop`. A restore
   replaces the data under it, and it keeps the old key, also for new credentials
   (`halfway` in `DataFitsTogether`).

The following happen in the models, too, and are the named exceptions of the
properties or what they leave open:

* Runs. A cancellation between the commit of the row and the registration of its
  event marks the run `cancelled`, and the run then executes. A run that ends
  while its cancellation is on the way gets its outcome overwritten. A worker
  whose commit fails leaves its row active until somebody cancels it or the
  process restarts. `ActiveRunIsOwned`, `OneRunningRow` and `RunBoard` are therefore
  promises for pipelines that are kept (`KeepSpec`) until a commit fails;
  `WorkerIsReachable` is one for pipelines that are kept, whatever fails. A run of a
  pipeline without steps that is cancelled while it waits, and gets the lock before
  it looks at the event, succeeds: the next look is the one before a step
  (engine:792), and there is none.
* Shell steps. A child that outlives the shell and holds its output keeps the
  step waiting, with the watchdog gone: neither cancel nor time-out ends it. An
  exception in the read loop ends the step while the command runs on; the
  watchdog still stops it when it was cancelled in time or times out, but once the
  run is over its event is forgotten and no later cancellation reaches it. A child
  that ignores SIGTERM survives when the shell does not.
* Scheduler. A launch between `has_active_run` and `launch_run` makes a scheduled
  run start although another one is going. A tick can move `last_scheduled_at`
  back behind a change of the schedule. An expression that is accepted and never
  fires raises in every tick (engine:931): the pipelines behind it are never served
  (`Blocked` in `DueIsServed`).
* Edits. A removal or a move overlapping an edit loses one of the two. A run
  launched during the deletion of its pipeline stays behind without one. Of a push
  of several branches only the first one counts (engine:644-652), for the filter
  and for deletion.
* Live pages. A page of an Ansible run stops for ever at the first answer it does
  not get, and polls for ever when the cockpit was restarted during the playbook.
  An odd character in the log when the page is opened repeats or drops one
  later on. A re-run of a re-run has no overrides any more. A command whose step
  raised (undecodable output, a time limit, a lost connection) and a Jenkins build
  nobody waited for go on; a run can succeed over the former when the step is
  allowed to fail. A commit that fails leaves the run active with nobody at work until
  it is cancelled or the cockpit restarts, and the page of a deleted run asks for
  ever and gets a 404 (`run.html:42-45`).
* Git. The credential stays in `.git/config` after every clone over https, after
  a failed push and after a crash. Two registrations of one name, a deletion
  that scripts refuse, a server that does not answer or was deleted, a clean-up
  (`git_mgr.py:219`) or removal that fails with nobody looking, and a crash
  let row and checkout disagree. Another pipeline, a page, or a pull that goes on at
  the server after its time-out (`git_mgr.py:474`) moves a checkout under a run.
* Access. Two administrators can delete each other when their requests overlap.
  Two overlapping wrong passwords may count as one, within `GuessesBounded`. An
  earlier form of that bound, a power of the number of logins, is wrong for one
  failure per ban and two logins; TLC had checked it with two failures only, and
  the proof asked for the rest. When
  more than two overlap, one that read the row before two bans began writes the level
  and the ban it computed from that read, shorter than what is there
  (`login_throttle.py:47-64`); likewise one that read it before a success deleted
  it. The attempt to prove an earlier `BansOnlyGrow`, which TLC had passed with two
  logins, showed this; the property now names both. A ban is lifted in no case.
* Import. The kubeconfig of an existing cluster outlives the roll-back of its row.
  A server that has scripts cannot be deleted.
* Restore. When the safety backup fails the script exits (`die` in
  `cmd_backup`), so "Safety backup failed; continuing" is not reached by a failure of the
  backup; the pruning of old archives (`src/cockpit:308`) may return non-zero when the
  archive is complete, and then the message is wrong in the other way. What
  is committed between the safety archive and the stop of the server is lost. A
  restore interrupted before `.env` is replaced may leave a database whose
  credentials cannot be decrypted; restoring again repairs it. A cockpit that is
  restored next to the one it comes from uses and deletes the other's files.

## 5. Proofs

All for any set of workers, requests and processes and any bounds.

`PipelineRunsProofs`, with deletion, reuse of ids, errors and crashes:

* `TypeCorrect`: `Spec => []TypeOK`. `TypeOK` alone is not inductive: `EndStep`
  takes one off `left`, so the invariant adds that a worker in a step has a step
  left (`StepsLeft`).
* `MutualExclusion`: `Spec => []Serialised`, and `LocksAreHeldInside`:
  `Spec => []LockHeldInside`. Both follow from `LockInv`: a worker inside the
  critical section holds the lock of its pipeline id, a lock that is held is
  held by a worker inside for that id, and a worker's pipeline id is set from
  the moment it waits. Exclusion then needs no argument about pairs of workers: the
  lock names one. The interesting steps are `Load` (the id is read before
  waiting), `Unwind` (every way out passes `release`) and `Crash` (locks and
  workers go together).
* `EventsAlwaysLive`: `Spec => []EventsAreLive`, inductive once the types are known.

* `HoldersAlwaysAdvance`: every step of a worker that holds its pipeline's lock
  takes it down the order of its labels (`Stage`) or, in the loop over the steps,
  lowers a number (`Rest`); `Unwind` jumps ahead; nobody else moves it, and a crash
  takes the lock along. With weak fairness every lock is released, for any number
  of steps: the part of `QueuedRunEnds` that is about the code.

In the same module, for pipelines that are kept (without that the statements are
false, see section 4), any number of workers, requests, runs, pipelines, crashes and
failing commits:

* `OneRunningRowAlways` (`KeepSpec => [](dbErrors = 0 => OneRunningRow)`) and
  `ActiveRunsAreOwned`: until a commit fails.
* `WorkersAreReachable` (`KeepSpec => []WorkerIsReachable`): whatever fails. A failed
  commit leaves the row active but unwinds the worker past `pop`. The invariant is
  smaller (`ReachInv`): workers have rows, each its own.
* `RunsImplementBoard` (`KeepSpec /\ [](dbErrors = 0) => ImplementsBoard`).
* `CancelsAlwaysCarry`, while no commit fails and if every pipeline has steps: a run that
  is cancelled while it waits for its lock is bound to end as cancelled
  (`EndsCancelled`), since its event is set before its first step is reached. It stays
  bound until it has ended so or the process dies, whoever else runs, and each step of
  its worker lowers a number that starts at no more than ten (`Ahead`).

The first two and the refinement need more. `RowInv` ties rows to threads while no commit
has failed: a started worker has
a row (`RowsExist`) that no other worker has (`RunsApart`), whose pipeline exists
(`PipesKept`) and is the one it locks (`LoadedPipe`); the row's status follows the
worker's label, but for `cancelled` (`RowMatches`); an active row has a worker
(`ActiveHasWorker`); and while the process is down there are no workers
(`WhileDown`). A running row therefore has a worker inside its pipeline's lock,
and `LockInv` says there is one of those: that is `OneRunning`, and it is also
why `Start` is a `Begin` of the board. With `RowInv` nothing a worker needs is
ever gone, so no exception but a failing commit unwinds it (`NoUnwinding`). `OwnStep` treats the
fourteen steps by which a worker moves its label and writes its own row at once.

`LiveRunsProofs`, for any number of steps, lines, restarts and re-runs. The first
five theorems rest on one invariant, `RunInv`:

* `PagesEndComplete` and the refinement `PagesReadAStream`
  (`Spec => ImplementsStream`). What is saved is a part of what is written and all
  of it once the worker is gone (`LogInv`); a status that is final is saved only
  when nothing is left to write, unless the run was marked (`EndInv`); a page has
  a prefix of what is saved and its offset is the end of that prefix (`PageInv`).
  The first two make every action of the worker a `Write` of the stream that stops
  when it is over, the third makes a poll a `Read` of all of it.
* `SuccessesAwaitCommands`. A run that left behind a command it had to wait for can
  no longer succeed, although its status says so only later (`LeftInv`): a Jenkins
  build, or the command of a step that may fail, is not one of those. The ten
  ways in which a step is over are reduced to two (`Over`): the run goes on, or ends.
* `KeysAreAlwaysCleared`, and `RerunsRepeat`, since a variable has the value the
  run was given or one a step has set (`VarsInv`).
* `ActiveRunsAreWorked` (`Spec => []ActiveIsWorked`): while the cockpit is up, a
  pipeline run that its row shows as active has a worker, unless a commit of it has
  failed or the row was deleted (`lost`); and `RunsAlwaysMoveOn`: each
  step of that worker or of the command it waits for brings the run to a later
  phase, a later step, of which there are at most `MaxSteps`, or a later place in
  its step, and nothing takes it back. Together they are what `PollingEnds` rests on.
* `TypeCorrect`: the types of all variables. Those of the log, the page and the
  variables are parts of `RunInv`; `WorkerTypes` adds the worker's.

`EngineThreadsProofs`, about the threads beside the workers:

* `TypeCorrect`, `KillsAreExplained` and `ShellsAreReaped` of `ShellStep`, from an
  invariant that orders the watchdog's reason before its signal, ties a report to a
  dead shell, and uses that a shell is started once.
* `ShellsAreWatched`: a shell that runs has a watchdog, even when the step's thread
  has left, and a group of which nobody is stubborn is gone once the signal was sent:
  a fork needs a parent that lives. `WatchdogsAlwaysAdvance`: after the cancellation
  the watchdog has at most four steps to take, each is one fewer, and when there are none
  the shell is dead. They are what `GroupDies` and `CancelStopsShell` rest on.
* `SlotsRunOnce` (`Cron!Spec => Cron!OncePerSlot`). What has run and was not given back
  is not after `last_scheduled_at` (`RanIsPast`), nor after the copy of it in a tick that
  has still to look at the pipeline (`CopiesCover`); and since nothing is counted from
  the future (`NothingAhead`), a claim that moves `last_scheduled_at` back behind a
  change does not move it back behind what has run. A restart keeps the row. Its
  assumption `CronsAreTimes` is the one `Scheduler` makes of its expressions.
* `ScheduleTypeCorrect` (`Cron!Spec => []Cron!TypeOK`), and `TicksAlwaysServe`: a tick
  leaves nothing due that was due at its time, of the whole list when it comes to its
  end, and otherwise up to the pipeline it fails at, which is a deleted one or one
  whose expression has no next time. What it has passed is not due, and what it has
  still to look at is as it was read or counts from a change made since (`ScanInv`);
  a change that was committed during the tick with an earlier time (`backdated`) is for
  the next one. `DueIsServed` rests on it.

`GitReposProofs`:

* `TypeCorrect`, and `RunsBuildTheirPull` (`Spec => []BuildsOwnPull`). A run that
  has pulled holds its pipeline's lock until it ends, and only a holder of that lock
  moves a checkout for that pipeline.
* `CredentialsAreExplained`: a URL with a credential in it is one of an https
  repository where it was left behind (`leak`), or somebody is at work in the
  checkout at a label between putting it there and taking it out (`CredInv`).
* `RowsMatchCheckouts`. While somebody is at work row and checkout may differ, so
  the invariant (`RowInv`) says by whom: a row without its checkout is being
  deleted, a checkout without a row is about to get one, a part of a checkout is
  being cloned or cleaned up. It needs that a directory being filled has its clone
  at work (`ClonerInv`), that a deletion which has not lost its row has one
  (`DeletesInv`), and that a clone or `rm` that goes on alone belongs to a repository
  with a fault recorded (`OrphanInv`).

`AccessProofs`:

* `TypeCorrect`, and `AnAdminRemains` (`Spec => []AdminRemains`): a request that is
  past its check belongs to an administrator who still is one, or a deletion has
  crossed it; the one that deletes is not the one deleted.
* `BansAlwaysGrow` (`Spec => BansOnlyGrow`). What a login writes is computed from
  what it read, so the invariant (`ReadsAreClose`) bounds how old that can be:
  until a second ban begins among the logins in flight, each has read the level of
  the row or the one below it. At the step that trips a ban the level it writes is
  therefore not below the row's, and no ban in progress is longer than its level.
* `GuessesAlwaysBounded` (`Spec => []GuessesBounded`). A login in flight stands for
  guesses: its own and those let through when it writes back a count it read earlier
  (`LetThrough`). `GuessInv` says that the guesses made and those the logins stand
  for never exceed what the logins can stand for at all. The sum over the logins
  is the size of a set of tokens, so that the library's facts about finite sets
  replace an induction.
* `BansAlwaysWearOff`: while a client is banned each step of a login leaves the
  logins fewer calls, and without one in flight the clock shortens the ban:
  what `BanEnds` rests on.

`PipelineEditsProofs`:

* `CoroutinesLoseNothing` and `OldUrlsStayDead`, from an invariant that says what
  a request under way has read: a coroutine has the event loop, and the steps it
  read are those in the row unless it was crossed; the tokens in rows and requests
  are at most `minted`.
* `NoStepIsDoubled` (`Spec => []NoStepTwice`): every list, in a row, on a page or read
  by a request, has ids of steps added so far, each once but for steps that went
  astray (`ListsSound`), and a request works at a place of the list it read
  (`PlacesExist`). The lemmas are about lists: appending, replacing, removing and
  swapping keep them sound. That an update replaces the step its page showed, unless
  the page was crossed, is `PagesFresh`, the other half of `CoroutinesLoseNothing`.
* `RunsAlwaysBelong` (`Spec => []RunsBelong`): what a deletion has not read was
  launched too late to belong (`DeletesTakeAll`), so nothing is left for the row
  that gets its id next.
* `PushesAlwaysUnderstood`: for every push of every forge, either route and encoding, and
  every pattern. An earlier
  form of the model's `EventOf` had overlapping arms in a CASE, of which TLC takes
  the first; the proof asks for all of them, and they are disjoint now.

`BackupProofs`:

* `TypeCorrect`.
* `NothingClearedUnsaved` (`Spec => SafetyHolds`), from `SafetyInv`: until the
  server is stopped its database is the one the restore began with or a newer
  one, a safety archive in progress and the finished one are so, too, and none of
  the two is given up unless the restore is.
* `DataFitsAlways` (`Spec => []DataFitsTogether`), from `FitInv`: every archive
  fits together, and so does one in progress with the files that are still to be
  added to it. That lasts while it is in progress: a file that is deleted then
  is noted as such in both, and a key changes only in a start, and only when there
  was none (and hence nothing encrypted). A server that is up holds the key of the
  files, unless a restore has gone on under it (`halfway`).

`TransferProofs`:

* `ImportsKeepCredentials` (`Spec => CredentialsSurvive`). A file which is not
  sealed has no credentials in it, in the making and when it is made; the rest is
  that what an import writes has the credential of the row or one of the entry.
* `ItemsAreWhole`, `NothingIsLostOnTheWay` (`Spec => []RoundTrip`) and
  `StepsKeepScripts`, from `TransferInv`. What an import relies on is well formed
  (`RowsFit`, and `FileFits` for the file). While nothing else happens (`calm`), the
  sections it has not come to are as they were (`Untouched`), those it has passed
  are as in the file if the cockpit was empty (`Restored`), and the ids it looked up
  are still those of the scripts (`LookedUp`). The next id of SQLite, the largest
  plus one, exists by a lemma that needs the well-ordering of the naturals.

Assumptions: only those the modules name (`NoWorkerAssumption`,
`BoundsAssumption`, `StepCountsAssumption`, `LeaderAssumption`, `LoginsAssumption`,
...), which TLC evaluates in every run. The theorems about `Scheduler` repeat its two as
hypotheses, because the module instantiates it.

Only model-checked is liveness: `QueuedRunEnds`, `CancelQueuedWins`,
`CancelStopsShell`, `GroupDies`, `DueIsServed`, `BanEnds`, `PollingEnds`. The provers
used have no reasoning about ENABLED or fairness, and no induction over a measure. What
the code itself contributes to them is proved for each: that
there always is somebody whose step comes next, and that each such step comes nearer
to the end (`HoldersAlwaysAdvance`, `CancelsAlwaysCarry`, `ShellsAreWatched`,
`WatchdogsAlwaysAdvance`, `TicksAlwaysServe`, `BansAlwaysWearOff`, `ActiveRunsAreWorked`, `RunsAlwaysMoveOn`).
That these steps are enabled, and are taken, is what the runs add.

## 6. Not modelled

* The web terminals and live log streams (`docker_routes.py`, `k8s_routes.py`,
  `ssh_routes.py`): bytes passed between two peers, ended by whichever closes;
  what could go wrong (a thread of the pool per stream, a client that is not
  closed) is in asyncio, paramiko and the Docker client rather than in state this
  code keeps.
* Pages that list and act on what an external daemon keeps (containers, pods,
  jobs), and the dashboard, diagnostics and metrics: read-only, or one call.
* Playbooks, inventories and the playbook wizard: text that is generated or edited
  by one form each. Password changes and settings of one row, likewise.
* `_auto_migrate` and the table checks around it: each statement looks at the
  table it changes first, and one process runs them. `migrations.upgrade` is
  called by nothing; `migrate` prints what `init_db` returns, which is nothing.
* Merges, commits and conflicts inside git; several items of one section in an
  exported file; ids of rows other than scripts in the steps of an imported
  pipeline, which are written as they are.
* Archives without a `.env` of their own, which `python -m app.cli backup` makes when it
  is called without `./cockpit` (a restore of one keeps the `.env` that is there,
  `src/cockpit:339`), and links inside clones, which a restore drops (`cli.py:163`).
* The text of steps, variables and logs, encryption, templates and styles.

## 7. Plan

Several items of one section in `Transfer`, and with them `RoundTrip` again.
