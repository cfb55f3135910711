---------------------------- MODULE PipelineRuns ----------------------------
(***************************************************************************)
(* The life of pipeline runs: launch_run, the worker thread that executes  *)
(* a run, cancel_run, delete_pipeline, and the recovery at start-up        *)
(* (src/app/modules/pipeline_engine.py, src/app/routes/pipeline_routes.py).*)
(*                                                                         *)
(* A worker slot w stands for one launch: the thread that calls launch_run *)
(* and then the daemon thread it starts.  The database is the part of the  *)
(* state a crash keeps; registry, locks, workers and requests are lost.    *)
(* One action is one database commit, one lock operation, or one check of  *)
(* the cancel event, so every interleaving between them is explored.       *)
(***************************************************************************)
EXTENDS Naturals, FiniteSets

CONSTANTS
  Workers,      \* slots: launches and the worker threads they start
  Requests,     \* HTTP request threads that cancel a run or delete a pipeline
  NoWorker,     \* an absent registry entry, a free lock
  MaxRuns,      \* bound: run ids are 1..MaxRuns
  MaxPipes,     \* bound: pipeline ids are 1..MaxPipes
  StepCounts,   \* the numbers of steps a pipeline may have when a run reads it
  MaxCrashes,   \* bound: crashes of the cockpit process
  MaxDbErrors   \* bound: commits or reads that fail ("database is locked")

ASSUME NoWorkerAssumption == NoWorker \notin Workers
ASSUME BoundsAssumption == /\ MaxRuns \in Nat \ {0}
                           /\ MaxPipes \in Nat \ {0}
                           /\ MaxCrashes \in Nat
                           /\ MaxDbErrors \in Nat
ASSUME StepCountsAssumption == StepCounts \subseteq Nat

RunIds == 1..MaxRuns
PipeIds == 1..MaxPipes

VARIABLES
  \* the database
  status,       \* pipeline_runs.status by run id, "none" where there is no row
  pipeline_id,  \* pipeline_runs.pipeline_id by run id, 0 where there is no row
  pipes,        \* ids of the rows of the pipelines table
  \* the process
  up,           \* is the cockpit process serving?
  registry,     \* _cancel_events: whose event is registered for a run id
  lock,         \* _pipeline_locks: the holder of each pipeline's lock
  \* a worker slot
  pc, run, pid, \* where it is, its run id, its pipeline id
  cancelled,    \* cancel_event.is_set()
  left,         \* steps still to run
  out,          \* the status _run_steps has decided, before it is committed
  orphaned,     \* history: the row this launch inserted has been deleted
  \* a cancel or delete request
  req,
  \* bounds
  crashes, dbErrors

db == <<status, pipeline_id, pipes>>
memory == <<registry, lock>>
worker == <<pc, run, pid, cancelled, left, out, orphaned>>
bounds == <<crashes, dbErrors>>
vars == <<status, pipeline_id, pipes, up, registry, lock, pc, run, pid,
          cancelled, left, out, orphaned, req, crashes, dbErrors>>

ActiveStatuses == {"queued", "running"}
FinalStatuses == {"success", "failed", "cancelled"}
Statuses == ActiveStatuses \union FinalStatuses

Labels == {"idle", "insert", "register", "load", "acquire", "timedout",
           "start", "prepare", "loop", "step", "flush", "release", "pop"}
InsideLabels == {"start", "prepare", "loop", "step", "flush", "release"}

\* A request between two calls: nothing read, nothing to do.
NoRequest == [at |-> "idle", pid |-> 0, todo |-> {}, runs |-> {},
              cache |-> [r \in RunIds |-> "none"], run |-> 0, expired |-> FALSE]

HasRow(r) == status[r] # "none"
RunsOf(p) == {r \in RunIds : HasRow(r) /\ pipeline_id[r] = p}

\* SQLite gives a new row the largest id in use plus one: the tables are
\* INTEGER PRIMARY KEY without AUTOINCREMENT, so ids of deleted rows return.
NextId(i, used) == /\ \A j \in used : j < i
                   /\ i = 1 \/ i - 1 \in used

Goto(w, l) == pc' = [pc EXCEPT ![w] = l]

-----------------------------------------------------------------------------
(* launch_run, called by the run, rerun, deploy and webhook routes.        *)

\* The route has read its pipeline (or, for a rerun, the old run's row).
Launch(w, p) ==
  /\ up /\ pc[w] = "idle"
  /\ p \in pipes \/ RunsOf(p) # {}
  /\ Goto(w, "insert")
  /\ pid' = [pid EXCEPT ![w] = p]
  /\ UNCHANGED <<db, up, memory, run, cancelled, left, out, orphaned, req, bounds>>

\* db.add(run); db.commit().  Foreign keys are not enforced by SQLite here.
InsertRow(w) ==
  /\ pc[w] = "insert"
  /\ \E r \in RunIds :
       /\ NextId(r, {i \in RunIds : HasRow(i)})
       /\ status' = [status EXCEPT ![r] = "queued"]
       /\ pipeline_id' = [pipeline_id EXCEPT ![r] = pid[w]]
       /\ run' = [run EXCEPT ![w] = r]
  /\ Goto(w, "register")
  /\ UNCHANGED <<pipes, up, memory, pid, cancelled, left, out, orphaned, req, bounds>>

\* Fault: the event is never registered.
RegisterNothing(w) ==
  /\ pc[w] = "register" /\ HasRow(run[w])
  /\ Goto(w, "load")
  /\ UNCHANGED <<db, up, memory, run, pid, cancelled, left, out, orphaned, req, bounds>>

\* run.id re-reads the row the commit expired; then the event is registered
\* and the worker thread started.
Register(w) ==
  /\ pc[w] = "register" /\ HasRow(run[w])
  /\ registry' = [registry EXCEPT ![run[w]] = w]
  /\ Goto(w, "load")
  /\ UNCHANGED <<db, up, lock, run, pid, cancelled, left, out, orphaned, req, bounds>>

-----------------------------------------------------------------------------
(* _execute and _run_steps, on the worker thread.                          *)

\* db.get(run) and run.pipeline: without either the thread ends at once.
Load(w) ==
  /\ pc[w] = "load"
  /\ IF HasRow(run[w]) /\ pipeline_id[run[w]] \in pipes
       THEN /\ pid' = [pid EXCEPT ![w] = pipeline_id[run[w]]]
            /\ Goto(w, "acquire")
       ELSE Goto(w, "pop") /\ UNCHANGED pid
  /\ UNCHANGED <<db, up, memory, run, cancelled, left, out, orphaned, req, bounds>>

\* Fault: the worker goes on although acquire timed out.
AcquireAnyway(w) ==
  /\ pc[w] = "acquire"
  /\ lock' = [lock EXCEPT ![pid[w]] = w]
  /\ Goto(w, "start")
  /\ UNCHANGED <<db, up, registry, run, pid, cancelled, left, out, orphaned, req, bounds>>

Acquire(w) ==
  /\ pc[w] = "acquire" /\ lock[pid[w]] = NoWorker
  /\ lock' = [lock EXCEPT ![pid[w]] = w]
  /\ Goto(w, "start")
  /\ UNCHANGED <<db, up, registry, run, pid, cancelled, left, out, orphaned, req, bounds>>

\* lock.acquire(timeout=1) returned False.
TimeOut(w) ==
  /\ pc[w] = "acquire" /\ lock[pid[w]] # NoWorker
  /\ Goto(w, "timedout")
  /\ UNCHANGED <<db, up, memory, run, pid, cancelled, left, out, orphaned, req, bounds>>

WaitAgain(w) ==
  /\ pc[w] = "timedout" /\ ~cancelled[w]
  /\ Goto(w, "acquire")
  /\ UNCHANGED <<db, up, memory, run, pid, cancelled, left, out, orphaned, req, bounds>>

CancelWhileQueued(w) ==
  /\ pc[w] = "timedout" /\ cancelled[w] /\ HasRow(run[w])
  /\ status' = [status EXCEPT ![run[w]] = "cancelled"]
  /\ Goto(w, "pop")
  /\ UNCHANGED <<pipeline_id, pipes, up, memory, run, pid, cancelled, left, out, orphaned, req, bounds>>

\* run.status = "running"; db.commit().  The row's status is not looked at.
Start(w) ==
  /\ pc[w] = "start" /\ HasRow(run[w])
  /\ status' = [status EXCEPT ![run[w]] = "running"]
  /\ Goto(w, "prepare")
  /\ UNCHANGED <<pipeline_id, pipes, up, memory, run, pid, cancelled, left, out, orphaned, req, bounds>>

\* RunContext(...) and get_steps(pipeline) re-read both rows.
Prepare(w) ==
  /\ pc[w] = "prepare" /\ HasRow(run[w]) /\ pid[w] \in pipes
  /\ \E n \in StepCounts : left' = [left EXCEPT ![w] = n]
  /\ Goto(w, "loop")
  /\ UNCHANGED <<db, up, memory, run, pid, cancelled, out, orphaned, req, bounds>>

\* Fault: one step more than the pipeline has.
BeginStepPastEnd(w) ==
  /\ pc[w] = "loop" /\ left[w] >= 0 /\ ~cancelled[w]
  /\ Goto(w, "step")
  /\ UNCHANGED <<db, up, memory, run, pid, cancelled, left, out, orphaned, req, bounds>>

\* Fault: no ctx.check() before a step.
BeginStepUnchecked(w) ==
  /\ pc[w] = "loop" /\ left[w] > 0
  /\ Goto(w, "step")
  /\ UNCHANGED <<db, up, memory, run, pid, cancelled, left, out, orphaned, req, bounds>>

BeginStep(w) ==
  /\ pc[w] = "loop" /\ left[w] > 0 /\ ~cancelled[w]
  /\ Goto(w, "step")
  /\ UNCHANGED <<db, up, memory, run, pid, cancelled, left, out, orphaned, req, bounds>>

\* The step succeeded, or failed with continue_on_error.
EndStep(w) ==
  /\ pc[w] = "step"
  /\ left' = [left EXCEPT ![w] = @ - 1]
  /\ Goto(w, "loop")
  /\ UNCHANGED <<db, up, memory, run, pid, cancelled, out, orphaned, req, bounds>>

Settle(w, s) ==
  /\ out' = [out EXCEPT ![w] = s]
  /\ left' = [left EXCEPT ![w] = 0]
  /\ Goto(w, "flush")
  /\ UNCHANGED <<db, up, memory, run, pid, cancelled, orphaned, req, bounds>>

FailStep(w) == pc[w] = "step" /\ Settle(w, "failed")

\* RunCancelled, raised by the check before a step or by one inside it.
StopCancelled(w) ==
  /\ cancelled[w]
  /\ pc[w] = "step" \/ (pc[w] = "loop" /\ left[w] > 0)
  /\ Settle(w, "cancelled")

Succeed(w) == pc[w] = "loop" /\ left[w] = 0 /\ Settle(w, "success")

\* The ctx.write after the decision flushes when the last flush is 0.5 s old:
\* the status is committed before finished_at.
FlushEarly(w) ==
  /\ pc[w] = "flush" /\ out[w] # "none" /\ HasRow(run[w])
  /\ status' = [status EXCEPT ![run[w]] = out[w]]
  /\ out' = [out EXCEPT ![w] = "none"]
  /\ UNCHANGED <<pipeline_id, pipes, up, memory, pc, run, pid, cancelled, left, orphaned, req, bounds>>

\* The final ctx.flush() commits the status unless that is already done.
Flush(w) ==
  /\ pc[w] = "flush" /\ HasRow(run[w])
  /\ status' = IF out[w] = "none" THEN status ELSE [status EXCEPT ![run[w]] = out[w]]
  /\ out' = [out EXCEPT ![w] = "none"]
  /\ Goto(w, "release")
  /\ UNCHANGED <<pipeline_id, pipes, up, memory, run, pid, cancelled, left, orphaned, req, bounds>>

\* Fault: lock.release() forgotten.
ReleaseNothing(w) ==
  /\ pc[w] = "release"
  /\ Goto(w, "pop")
  /\ UNCHANGED <<db, up, memory, run, pid, cancelled, left, out, orphaned, req, bounds>>

Release(w) ==
  /\ pc[w] = "release"
  /\ lock' = [lock EXCEPT ![pid[w]] = NoWorker]
  /\ Goto(w, "pop")
  /\ UNCHANGED <<db, up, registry, run, pid, cancelled, left, out, orphaned, req, bounds>>

\* The slot is free again, with the values it had before the launch.
Clear(w) ==
  /\ Goto(w, "idle")
  /\ run' = [run EXCEPT ![w] = 0]
  /\ pid' = [pid EXCEPT ![w] = 0]
  /\ cancelled' = [cancelled EXCEPT ![w] = FALSE]
  /\ left' = [left EXCEPT ![w] = 0]
  /\ out' = [out EXCEPT ![w] = "none"]
  /\ orphaned' = [orphaned EXCEPT ![w] = FALSE]

\* Fault: the event stays in the registry.
PopNothing(w) ==
  /\ pc[w] = "pop"
  /\ Clear(w)
  /\ UNCHANGED <<db, up, memory, req, bounds>>

\* _cancel_events.pop(run_id, None), whoever's event is there.
Pop(w) ==
  /\ pc[w] = "pop"
  /\ registry' = [registry EXCEPT ![run[w]] = NoWorker]
  /\ Clear(w)
  /\ UNCHANGED <<db, up, lock, req, bounds>>

\* Fault: lock.release() is not in a finally block.
UnwindLocked(w) ==
  \/ pc[w] = "register" /\ Clear(w)
  \/ /\ pc[w] \in {"load", "timedout", "start", "prepare", "loop", "step", "flush"}
     /\ Goto(w, "pop")
     /\ UNCHANGED <<run, pid, cancelled, left, out, orphaned>>

\* An exception leaves the code at pc[w]: launch_run's caller gets it, or
\* _execute logs it after the finally blocks it passes.  A session whose
\* commit failed refuses every later one, so nothing more is written.
Unwind(w) ==
  \/ pc[w] = "register" /\ Clear(w)
  \/ /\ pc[w] \in {"load", "timedout"}
     /\ Goto(w, "pop")
     /\ UNCHANGED <<run, pid, cancelled, left, out, orphaned>>
  \/ /\ pc[w] \in {"start", "prepare", "loop", "step", "flush"}
     /\ Goto(w, "release")
     /\ left' = [left EXCEPT ![w] = 0]
     /\ out' = [out EXCEPT ![w] = "none"]
     /\ UNCHANGED <<run, pid, cancelled, orphaned>>

\* UPDATE or re-read of a deleted row: StaleDataError, ObjectDeletedError.
\* Log writes are throttled, so between steps it may come later.
RowGone(w) ==
  /\ \/ pc[w] \in {"register", "start", "prepare", "loop", "step", "flush"} /\ ~HasRow(run[w])
     \/ pc[w] = "timedout" /\ cancelled[w] /\ ~HasRow(run[w])
     \/ pc[w] = "prepare" /\ pid[w] \notin pipes
  /\ Unwind(w)
  /\ UNCHANGED <<db, up, memory, req, bounds>>

DbError(w) ==
  /\ dbErrors < MaxDbErrors
  /\ dbErrors' = dbErrors + 1
  /\ pc[w] = "timedout" => cancelled[w]
  /\ Unwind(w)
  /\ UNCHANGED <<db, up, memory, req, crashes>>

-----------------------------------------------------------------------------
(* cancel_run, from the cancel route and from delete_pipeline's loop.      *)

\* The cancel route: db.get(run) leaves the row it read in the session.
CancelRequest(q, r) ==
  /\ up /\ req[q].at = "idle" /\ HasRow(r)
  /\ req' = [req EXCEPT ![q] = [@ EXCEPT !.at = "lookup", !.todo = {r}, !.cache[r] = status[r]]]
  /\ UNCHANGED <<db, up, memory, worker, bounds>>

\* delete_pipeline: pipeline.runs is read once.
DeleteRequest(q, p) ==
  /\ up /\ req[q].at = "idle" /\ p \in pipes
  /\ req' = [req EXCEPT ![q] =
       [NoRequest EXCEPT !.at = "lookup", !.pid = p, !.todo = RunsOf(p), !.runs = RunsOf(p),
          !.cache = [r \in RunIds |-> IF r \in RunsOf(p) THEN status[r] ELSE "none"]]]
  /\ UNCHANGED <<db, up, memory, worker, bounds>>

\* The request is through with run r.
Done(q, r) == [req[q] EXCEPT !.at = "lookup", !.run = 0, !.todo = @ \ {r}, !.cache[r] = "none"]

\* The event is there: set it, whoever registered it.
SetEvent(q, r) ==
  /\ req[q].at = "lookup" /\ r \in req[q].todo /\ registry[r] # NoWorker
  /\ req[q].expired => HasRow(r)
  /\ cancelled' = [cancelled EXCEPT ![registry[r]] = TRUE]
  /\ req' = [req EXCEPT ![q] = Done(q, r)]
  /\ UNCHANGED <<db, up, memory, pc, run, pid, left, out, orphaned, bounds>>

\* No event: the row will be marked.  In the loop, run.id re-reads a row that
\* an earlier mark's commit expired.
MissEvent(q, r) ==
  /\ req[q].at = "lookup" /\ r \in req[q].todo /\ registry[r] = NoWorker
  /\ req[q].expired => HasRow(r)
  /\ req' = [req EXCEPT ![q] = [@ EXCEPT !.at = "mark", !.run = r,
                         !.cache[r] = IF req[q].expired THEN status[r] ELSE req[q].cache[r]]]
  /\ UNCHANGED <<db, up, memory, worker, bounds>>

\* `if run and run.status in ACTIVE_STATUSES`, on the session's copy of the row.
Mark(q) ==
  LET r == req[q].run IN
  /\ req[q].at = "mark"
  /\ \/ /\ req[q].cache[r] \in ActiveStatuses /\ HasRow(r)
        /\ status' = [status EXCEPT ![r] = "cancelled"]
        /\ req' = [req EXCEPT ![q] = [Done(q, r) EXCEPT !.expired = TRUE,
                                                        !.cache = NoRequest.cache]]
     \/ /\ req[q].cache[r] \notin ActiveStatuses
        /\ req' = [req EXCEPT ![q] = Done(q, r)]
        /\ UNCHANGED status
  /\ UNCHANGED <<pipeline_id, pipes, up, memory, worker, bounds>>

\* A row this request needs has been deleted: the request ends with an error.
RequestFails(q) ==
  /\ \/ req[q].at = "lookup" /\ req[q].expired /\ \E r \in req[q].todo : ~HasRow(r)
     \/ req[q].at = "mark" /\ req[q].cache[req[q].run] \in ActiveStatuses /\ ~HasRow(req[q].run)
     \/ req[q].at = "lookup" /\ req[q].expired /\ req[q].pid # 0 /\ req[q].todo = {}
        /\ req[q].pid \notin pipes
  /\ req' = [req EXCEPT ![q] = NoRequest]
  /\ UNCHANGED <<db, up, memory, worker, bounds>>

CancelReturns(q) ==
  /\ req[q].at = "lookup" /\ req[q].pid = 0 /\ req[q].todo = {}
  /\ req' = [req EXCEPT ![q] = NoRequest]
  /\ UNCHANGED <<db, up, memory, worker, bounds>>

\* The rows db.delete(pipeline) cascades to: pipeline.runs as it was loaded,
\* or loaded again if a mark's commit expired it.
Doomed(q) == IF req[q].expired THEN RunsOf(req[q].pid) ELSE req[q].runs

DeletePipeline(q) ==
  /\ req[q].at = "lookup" /\ req[q].pid # 0 /\ req[q].todo = {}
  /\ req[q].expired => req[q].pid \in pipes
  /\ status' = [r \in RunIds |-> IF r \in Doomed(q) THEN "none" ELSE status[r]]
  /\ pipeline_id' = [r \in RunIds |-> IF r \in Doomed(q) THEN 0 ELSE pipeline_id[r]]
  /\ pipes' = pipes \ {req[q].pid}
  /\ orphaned' = [w \in Workers |-> orphaned[w] \/ run[w] \in Doomed(q)]
  /\ req' = [req EXCEPT ![q] = NoRequest]
  /\ UNCHANGED <<up, memory, pc, run, pid, cancelled, left, out, bounds>>

CreatePipeline ==
  /\ up
  /\ \E p \in PipeIds : NextId(p, pipes) /\ pipes' = pipes \union {p}
  /\ UNCHANGED <<status, pipeline_id, up, memory, worker, req, bounds>>

-----------------------------------------------------------------------------
(* The process: a crash loses all but the database; start-up recovers it.  *)

Crash ==
  /\ up /\ crashes < MaxCrashes
  /\ up' = FALSE
  /\ crashes' = crashes + 1
  /\ registry' = [r \in RunIds |-> NoWorker]
  /\ lock' = [p \in PipeIds |-> NoWorker]
  /\ pc' = [w \in Workers |-> "idle"]
  /\ run' = [w \in Workers |-> 0]
  /\ pid' = [w \in Workers |-> 0]
  /\ cancelled' = [w \in Workers |-> FALSE]
  /\ left' = [w \in Workers |-> 0]
  /\ out' = [w \in Workers |-> "none"]
  /\ orphaned' = [w \in Workers |-> FALSE]
  /\ req' = [q \in Requests |-> NoRequest]
  /\ UNCHANGED <<db, dbErrors>>

\* Fault: serving begins without recovery.
RestartOnly ==
  /\ ~up
  /\ up' = TRUE
  /\ UNCHANGED <<db, memory, worker, req, bounds>>

\* lifespan: recover_interrupted_runs commits before anything is served.
Restart ==
  /\ ~up
  /\ up' = TRUE
  /\ status' = [r \in RunIds |-> IF status[r] \in ActiveStatuses THEN "failed" ELSE status[r]]
  /\ UNCHANGED <<pipeline_id, pipes, memory, worker, req, bounds>>

-----------------------------------------------------------------------------
Init ==
  /\ status = [r \in RunIds |-> "none"]
  /\ pipeline_id = [r \in RunIds |-> 0]
  /\ pipes = {}
  /\ up = TRUE
  /\ registry = [r \in RunIds |-> NoWorker]
  /\ lock = [p \in PipeIds |-> NoWorker]
  /\ pc = [w \in Workers |-> "idle"]
  /\ run = [w \in Workers |-> 0]
  /\ pid = [w \in Workers |-> 0]
  /\ cancelled = [w \in Workers |-> FALSE]
  /\ left = [w \in Workers |-> 0]
  /\ out = [w \in Workers |-> "none"]
  /\ orphaned = [w \in Workers |-> FALSE]
  /\ req = [q \in Requests |-> NoRequest]
  /\ crashes = 0
  /\ dbErrors = 0

\* A launch in progress; it does not wait for anyone but the lock's holder.
WorkerStep(w) ==
  \/ InsertRow(w) \/ Register(w)
  \/ Load(w) \/ Acquire(w) \/ TimeOut(w) \/ WaitAgain(w) \/ CancelWhileQueued(w)
  \/ Start(w) \/ Prepare(w) \/ BeginStep(w) \/ EndStep(w) \/ FailStep(w)
  \/ StopCancelled(w) \/ Succeed(w) \/ FlushEarly(w) \/ Flush(w)
  \/ Release(w) \/ Pop(w) \/ RowGone(w)

CancelStep(q) ==
  \/ \E r \in RunIds : SetEvent(q, r) \/ MissEvent(q, r)
  \/ Mark(q) \/ CancelReturns(q) \/ RequestFails(q)

\* Everything but the deletion of pipelines.
CoreNext ==
  \/ \E w \in Workers : WorkerStep(w) \/ DbError(w) \/ \E p \in PipeIds : Launch(w, p)
  \/ \E q \in Requests : CancelStep(q) \/ \E r \in RunIds : CancelRequest(q, r)
  \/ CreatePipeline \/ Crash \/ Restart

DeleteNext ==
  \E q \in Requests : DeletePipeline(q) \/ \E p \in PipeIds : DeleteRequest(q, p)

Next == CoreNext \/ DeleteNext

Spec == Init /\ [][Next]_vars

\* Runs of pipelines that nobody deletes.
KeepSpec == Init /\ [][CoreNext]_vars

\* Threads the operating system schedules, requests the server runs to their
\* end, and docker's `restart: unless-stopped`.  Steps are assumed to end;
\* waiting for the lock is not assumed to succeed.
Fairness ==
  /\ \A w \in Workers : WF_vars(WorkerStep(w))
  /\ \A q \in Requests : WF_vars(CancelStep(q) \/ DeletePipeline(q))
  /\ WF_vars(Restart)

FairKeepSpec == KeepSpec /\ Fairness

-----------------------------------------------------------------------------
RequestRecords ==
  [at : {"idle", "lookup", "mark"}, pid : PipeIds \union {0}, run : RunIds \union {0},
   todo : SUBSET RunIds, runs : SUBSET RunIds,
   cache : [RunIds -> Statuses \union {"none"}], expired : BOOLEAN]

TypeOK ==
  /\ status \in [RunIds -> Statuses \union {"none"}]
  /\ pipeline_id \in [RunIds -> PipeIds \union {0}]
  /\ pipes \subseteq PipeIds
  /\ up \in BOOLEAN
  /\ registry \in [RunIds -> Workers \union {NoWorker}]
  /\ lock \in [PipeIds -> Workers \union {NoWorker}]
  /\ pc \in [Workers -> Labels]
  /\ run \in [Workers -> RunIds \union {0}]
  /\ pid \in [Workers -> PipeIds \union {0}]
  /\ cancelled \in [Workers -> BOOLEAN]
  /\ left \in [Workers -> Nat]
  /\ out \in [Workers -> FinalStatuses \union {"none"}]
  /\ orphaned \in [Workers -> BOOLEAN]
  /\ req \in [Requests -> RequestRecords]
  /\ crashes \in 0..MaxCrashes
  /\ dbErrors \in 0..MaxDbErrors

Inside(w) == pc[w] \in InsideLabels

\* A thread of this process owes run r an outcome.
Owned(r) == \E w \in Workers : run[w] = r /\ pc[w] # "idle"

-----------------------------------------------------------------------------
(* Safety.  The first three hold whatever is deleted, lost or crashed; the *)
(* others are about KeepSpec, and but for WorkerIsReachable they are about *)
(* a run of the system in which no commit has failed.                      *)

\* README.md:155, at the level of threads: at most one worker is between
\* lock.acquire and lock.release for a pipeline, even while ids are reused.
Serialised ==
  \A w1, w2 \in Workers : Inside(w1) /\ Inside(w2) /\ pid[w1] = pid[w2] => w1 = w2

\* A pipeline's lock is never left locked: whatever exception ends a run, the
\* lock is held only by a worker that is still inside the run it was taken for.
LockHeldInside ==
  \A p \in PipeIds : lock[p] # NoWorker => Inside(lock[p]) /\ pid[lock[p]] = p

\* _cancel_events keeps no event of a worker that has ended, so setting the
\* event found under a run id always reaches a thread that executes that id.
EventsAreLive ==
  \A r \in RunIds : registry[r] # NoWorker =>
     run[registry[r]] = r /\ pc[registry[r]] \notin {"idle", "insert", "register"}

\* While the pipeline is kept, a worker's event stays registered until the
\* worker's last statement: from its first one on, cancel_run reaches it.
WorkerIsReachable ==
  \A w \in Workers : pc[w] \notin {"idle", "insert", "register"} => registry[run[w]] = w

\* README.md:155, at the level of rows: at most one run of a pipeline has the
\* status running, across crashes, restarts and late cancellations.
OneRunningRow ==
  \A r1, r2 \in RunIds : status[r1] = "running" /\ status[r2] = "running"
     /\ pipeline_id[r1] = pipeline_id[r2] => r1 = r2

\* No run is queued or running for ever: while the process is up, each active
\* row is owed an outcome by a thread of this process.
ActiveRunIsOwned ==
  up => \A r \in RunIds : status[r] \in ActiveStatuses => Owned(r)

\* The runs table behaves as RunBoard promises.
Board == INSTANCE RunBoard
  WITH RunIds <- RunIds, PipeIds <- PipeIds, status <- status, pipeline_id <- pipeline_id
ImplementsBoard == Board!Spec

-----------------------------------------------------------------------------
(* Liveness, under FairKeepSpec.                                           *)

\* github-webhooks.md:311-313: queued runs execute one after another, so every
\* run that was queued ends, if only as interrupted by a crash.
QueuedRunEnds == \A r \in RunIds : status[r] = "queued" ~> status[r] \in FinalStatuses

\* Cancelling a run that waits for the lock wins: however the run gets on, by
\* a timeout or by the lock, it ends cancelled (or the process crashes).  This is
\* about pipelines with steps: a run without any has no check, and succeeds.
CancelQueuedWins ==
  \A w \in Workers, r \in RunIds :
    run[w] = r /\ cancelled[w] /\ pc[w] \in {"load", "acquire", "timedout", "start", "prepare"}
      ~> \/ status[r] = "cancelled" /\ pc[w] = "idle"
         \/ ~up

-----------------------------------------------------------------------------
(* What the code says of itself, and a run refutes.                        *)

\* A RunContext writes "for one run" (pipeline_engine.py:69): once that run's
\* row is deleted, its worker changes no other row.
WritesItsOwnRun ==
  [][\A w \in Workers :
       orphaned[w] /\ (pc'[w] # pc[w] \/ out'[w] # out[w]) => UNCHANGED status]_vars

=============================================================================
