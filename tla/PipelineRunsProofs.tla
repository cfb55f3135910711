------------------------- MODULE PipelineRunsProofs -------------------------
(***************************************************************************)
(* Theorems about PipelineRuns for every set of workers and requests and   *)
(* every value of the bounds, with pipelines deleted, ids reused, database *)
(* errors and crashes.                                                     *)
(***************************************************************************)
EXTENDS PipelineRuns, TLAPS

\* What the type invariant needs to be inductive: a step runs only while
\* steps are left.
StepsLeft == \A w \in Workers : pc[w] = "step" => left[w] > 0

TypeInv == TypeOK /\ StepsLeft

USE DEF RunIds, PipeIds, Labels, InsideLabels, Statuses, ActiveStatuses, FinalStatuses

LEMMA TypeInit == Init => TypeInv
  BY BoundsAssumption DEF Init, TypeInv, TypeOK, StepsLeft, NoRequest, RequestRecords

LEMMA ExceptType ==
  ASSUME NEW S, NEW T, NEW f \in [S -> T], NEW x \in S, NEW v \in T
  PROVE  [f EXCEPT ![x] = v] \in [S -> T]
  OBVIOUS

\* A cleared slot is typed like the one it was.
LEMMA ClearTypes ==
  ASSUME TypeInv, NEW w \in Workers, Clear(w)
  PROVE  /\ pc' \in [Workers -> Labels] /\ run' \in [Workers -> RunIds \union {0}]
         /\ pid' \in [Workers -> PipeIds \union {0}] /\ cancelled' \in [Workers -> BOOLEAN]
         /\ left' \in [Workers -> Nat] /\ out' \in [Workers -> FinalStatuses \union {"none"}]
         /\ orphaned' \in [Workers -> BOOLEAN]
         /\ pc' = [pc EXCEPT ![w] = "idle"] /\ left' = [left EXCEPT ![w] = 0]
  <1> USE DEF TypeInv, TypeOK, Clear, Goto
  <1>1. cancelled' \in [Workers -> BOOLEAN]
    BY ExceptType
  <1>2. orphaned' \in [Workers -> BOOLEAN]
    BY ExceptType
  <1>3. run' \in [Workers -> RunIds \union {0}] /\ pid' \in [Workers -> PipeIds \union {0}]
    OBVIOUS
  <1>4. /\ left' \in [Workers -> Nat]
        /\ out' \in [Workers -> FinalStatuses \union {"none"}]
        /\ pc' \in [Workers -> Labels]
    OBVIOUS
  <1> QED
    BY <1>1, <1>2, <1>3, <1>4

\* Wherever an exception leads, the types are kept.
LEMMA TypeUnwind ==
  ASSUME TypeInv, NEW w \in Workers, Unwind(w), UNCHANGED <<db, up, memory, req, crashes>>,
         dbErrors' \in 0..MaxDbErrors
  PROVE  TypeInv'
  <1> USE DEF TypeInv, TypeOK, StepsLeft, db, memory
  <1>1. CASE pc[w] = "register" /\ Clear(w)
    BY <1>1, ClearTypes
  <1>2. CASE /\ pc[w] \in {"load", "timedout"}
             /\ Goto(w, "pop")
             /\ UNCHANGED <<run, pid, cancelled, left, out, orphaned>>
    BY <1>2 DEF Goto
  <1>3. CASE /\ pc[w] \in {"start", "prepare", "loop", "step", "flush"}
             /\ Goto(w, "release")
             /\ left' = [left EXCEPT ![w] = 0]
             /\ out' = [out EXCEPT ![w] = "none"]
             /\ UNCHANGED <<run, pid, cancelled, orphaned>>
    BY <1>3 DEF Goto
  <1> QED
    BY <1>1, <1>2, <1>3 DEF Unwind

\* A step of a worker changes only its own slot, and keeps the types.
LEMMA TypeWorkerStep ==
  ASSUME TypeInv, NEW w \in Workers, WorkerStep(w)
  PROVE  TypeInv'
  <1> USE DEF TypeInv, TypeOK, StepsLeft, Goto, db, memory, worker, bounds
  <1>1. CASE InsertRow(w)
    BY <1>1 DEF InsertRow
  <1>2. CASE Register(w)
    BY <1>2 DEF Register
  <1>3. CASE Load(w)
    BY <1>3 DEF Load
  <1>4. CASE Acquire(w)
    BY <1>4 DEF Acquire
  <1>5. CASE TimeOut(w)
    BY <1>5 DEF TimeOut
  <1>6. CASE WaitAgain(w)
    BY <1>6 DEF WaitAgain
  <1>7. CASE CancelWhileQueued(w)
    BY <1>7 DEF CancelWhileQueued
  <1>8. CASE Start(w)
    BY <1>8 DEF Start
  <1>9. CASE Prepare(w)
    BY <1>9, StepCountsAssumption DEF Prepare
  <1>10. CASE BeginStep(w)
    BY <1>10 DEF BeginStep
  <1>11. CASE EndStep(w)
    BY <1>11 DEF EndStep
  <1>12. CASE FailStep(w)
    BY <1>12 DEF FailStep, Settle
  <1>13. CASE StopCancelled(w)
    BY <1>13 DEF StopCancelled, Settle
  <1>14. CASE Succeed(w)
    BY <1>14 DEF Succeed, Settle
  <1>15. CASE Flush(w) \/ FlushEarly(w)
    BY <1>15 DEF Flush, FlushEarly
  <1>16. CASE Release(w)
    BY <1>16 DEF Release
  <1>17. CASE Pop(w)
    BY <1>17, ClearTypes DEF Pop
  <1>18. CASE RowGone(w)
    BY <1>18, TypeUnwind DEF RowGone
  <1> QED
    BY <1>1, <1>2, <1>3, <1>4, <1>5, <1>6, <1>7, <1>8, <1>9, <1>10, <1>11,
       <1>12, <1>13, <1>14, <1>15, <1>16, <1>17, <1>18 DEF WorkerStep

LEMMA NoRequestType == NoRequest \in RequestRecords
  BY DEF NoRequest, RequestRecords

LEMMA DoneType ==
  ASSUME TypeOK, NEW q \in Requests, NEW r
  PROVE  Done(q, r) \in RequestRecords
  <1>1. req[q] \in RequestRecords
    BY DEF TypeOK
  <1>2. [req[q].cache EXCEPT ![r] = "none"] \in [RunIds -> Statuses \union {"none"}]
    BY <1>1 DEF RequestRecords
  <1>3. req[q].todo \ {r} \in SUBSET RunIds
    BY <1>1 DEF RequestRecords
  <1> QED
    BY <1>1, <1>2, <1>3 DEF Done, RequestRecords

\* A request may keep any status for a run it works on.
LEMMA CachedType ==
  ASSUME TypeOK, NEW q \in Requests, NEW r \in RunIds, NEW s \in Statuses \union {"none"}
  PROVE  /\ [req[q] EXCEPT !.at = "mark", !.run = r, !.cache[r] = s] \in RequestRecords
         /\ [req[q] EXCEPT !.at = "lookup", !.todo = {r}, !.cache[r] = s] \in RequestRecords
  <1>1. req[q] \in RequestRecords
    BY DEF TypeOK
  <1>2. [req[q].cache EXCEPT ![r] = s] \in [RunIds -> Statuses \union {"none"}]
    BY <1>1 DEF RequestRecords
  <1> QED
    BY <1>1, <1>2 DEF RequestRecords

\* A request changes its own record, a row's status, an event, or deletes.
LEMMA TypeRequestStep ==
  ASSUME TypeInv, NEW q \in Requests,
         \/ CancelStep(q)
         \/ \E r \in RunIds : CancelRequest(q, r)
         \/ DeletePipeline(q)
         \/ \E p \in PipeIds : DeleteRequest(q, p)
  PROVE  TypeInv'
  <1> USE DEF TypeInv, TypeOK, StepsLeft, db, memory, worker, bounds
  <1>1. ASSUME NEW r \in RunIds, SetEvent(q, r)
        PROVE  TypeInv'
    <2>1. req' \in [Requests -> RequestRecords]
      BY <1>1, DoneType, ExceptType DEF SetEvent
    <2>2. cancelled' \in [Workers -> BOOLEAN]
      BY <1>1, ExceptType DEF SetEvent
    <2> QED
      BY <1>1, <2>1, <2>2 DEF SetEvent
  <1>2. ASSUME NEW r \in RunIds, MissEvent(q, r)
        PROVE  TypeInv'
    <2> DEFINE s == IF req[q].expired THEN status[r] ELSE req[q].cache[r]
    <2>0. req[q] \in RequestRecords
      OBVIOUS
    <2>1. s \in Statuses \union {"none"}
      BY <2>0 DEF RequestRecords
    <2>2. [req[q] EXCEPT !.at = "mark", !.run = r, !.cache[r] = s] \in RequestRecords
      BY <2>1, CachedType
    <2>3. req' = [req EXCEPT ![q] = [req[q] EXCEPT !.at = "mark", !.run = r, !.cache[r] = s]]
      BY <1>2 DEF MissEvent
    <2>4. req' \in [Requests -> RequestRecords]
      BY <2>2, <2>3, ExceptType
    <2> QED
      BY <1>2, <2>4 DEF MissEvent
  <1>3. CASE Mark(q)
    <2> DEFINE r == req[q].run
               marked == [Done(q, r) EXCEPT !.expired = TRUE, !.cache = NoRequest.cache]
    <2>1. Done(q, r) \in RequestRecords
      BY DoneType
    <2>2. marked \in RequestRecords
      BY <2>1 DEF RequestRecords, NoRequest
    <2>3. req' = [req EXCEPT ![q] = marked] \/ req' = [req EXCEPT ![q] = Done(q, r)]
      BY <1>3 DEF Mark
    <2>5. req' \in [Requests -> RequestRecords]
      BY <2>1, <2>2, <2>3, ExceptType
    <2>4. status' \in [RunIds -> Statuses \union {"none"}]
      BY <1>3 DEF Mark
    <2> QED
      BY <1>3, <2>4, <2>5 DEF Mark
  <1>4. CASE CancelReturns(q)
    BY <1>4, NoRequestType DEF CancelReturns
  <1>5. CASE RequestFails(q)
    BY <1>5, NoRequestType DEF RequestFails
  <1>6. ASSUME NEW r \in RunIds, CancelRequest(q, r)
        PROVE  TypeInv'
    <2>1. [req[q] EXCEPT !.at = "lookup", !.todo = {r}, !.cache[r] = status[r]] \in RequestRecords
      BY CachedType
    <2>2. req' \in [Requests -> RequestRecords]
      BY <1>6, <2>1, ExceptType DEF CancelRequest
    <2> QED
      BY <1>6, <2>2 DEF CancelRequest
  <1>7. CASE DeletePipeline(q)
    BY <1>7, NoRequestType DEF DeletePipeline
  <1>8. ASSUME NEW p \in PipeIds, DeleteRequest(q, p)
        PROVE  TypeInv'
    BY <1>8 DEF DeleteRequest, NoRequest, RunsOf, RequestRecords
  <1> QED
    BY <1>1, <1>2, <1>3, <1>4, <1>5, <1>6, <1>7, <1>8 DEF CancelStep

LEMMA TypeOtherStep ==
  ASSUME TypeInv,
         \/ \E w \in Workers : DbError(w) \/ \E p \in PipeIds : Launch(w, p)
         \/ CreatePipeline \/ Crash \/ Restart
  PROVE  TypeInv'
  <1> USE DEF TypeInv, TypeOK, StepsLeft, db, memory, worker, bounds
  <1>1. ASSUME NEW w \in Workers, DbError(w)
        PROVE  TypeInv'
    <2>1. dbErrors' \in 0..MaxDbErrors
      BY <1>1, BoundsAssumption DEF DbError
    <2> QED
      BY <1>1, <2>1, TypeUnwind DEF DbError
  <1>2. ASSUME NEW w \in Workers, NEW p \in PipeIds, Launch(w, p)
        PROVE  TypeInv'
    BY <1>2 DEF Launch, Goto
  <1>3. CASE CreatePipeline
    BY <1>3 DEF CreatePipeline
  <1>4. CASE Crash
    <2>1. req' \in [Requests -> RequestRecords]
      BY <1>4, NoRequestType DEF Crash
    <2>2. cancelled' \in [Workers -> BOOLEAN] /\ orphaned' \in [Workers -> BOOLEAN]
      BY <1>4 DEF Crash
    <2>3. crashes' \in 0..MaxCrashes
      BY <1>4, BoundsAssumption DEF Crash
    <2> QED
      BY <1>4, <2>1, <2>2, <2>3 DEF Crash
  <1>5. CASE Restart
    BY <1>5 DEF Restart
  <1> QED
    BY <1>1, <1>2, <1>3, <1>4, <1>5

LEMMA TypeNext == TypeInv /\ [Next]_vars => TypeInv'
  <1> SUFFICES ASSUME TypeInv, [Next]_vars PROVE TypeInv'
    OBVIOUS
  <1>1. CASE UNCHANGED vars
    BY <1>1 DEF vars, TypeInv, TypeOK, StepsLeft
  <1>2. CASE CoreNext
    BY <1>2, TypeWorkerStep, TypeRequestStep, TypeOtherStep DEF CoreNext
  <1>3. CASE DeleteNext
    BY <1>3, TypeRequestStep DEF DeleteNext
  <1> QED
    BY <1>1, <1>2, <1>3 DEF Next

\* Every state the program reaches is of the declared types: in particular a
\* run never executes more steps than the pipeline had when they were read.
THEOREM TypeCorrect == Spec => []TypeOK
  <1>1. TypeInv => TypeOK
    BY DEF TypeInv
  <1> QED
    BY <1>1, TypeInit, TypeNext, PTL DEF Spec

-----------------------------------------------------------------------------
(* Mutual exclusion.  A worker inside holds the lock of the pipeline it    *)
(* loaded, and a lock is held by a worker inside: neither half is          *)
(* inductive alone, since Release frees whatever lock pid[w] names.        *)

LockInv ==
  /\ \A w \in Workers : pc[w] \in {"acquire", "timedout"} \union InsideLabels => pid[w] \in PipeIds
  /\ \A w \in Workers : Inside(w) => lock[pid[w]] = w
  /\ LockHeldInside

LEMMA LockInit == Init => LockInv
  BY DEF Init, LockInv, LockHeldInside, Inside

LEMMA LockUnwind ==
  ASSUME TypeInv, LockInv, NEW w \in Workers, Unwind(w), UNCHANGED lock
  PROVE  LockInv'
  <1> USE NoWorkerAssumption DEF TypeInv, TypeOK, LockInv, LockHeldInside, Inside
  <1>1. CASE pc[w] = "register" /\ Clear(w)
    BY <1>1 DEF Clear, Goto
  <1>2. CASE pc[w] \in {"load", "timedout"} /\ Goto(w, "pop") /\ UNCHANGED pid
    BY <1>2 DEF Goto
  <1>3. CASE /\ pc[w] \in {"start", "prepare", "loop", "step", "flush"}
             /\ Goto(w, "release") /\ UNCHANGED pid
    BY <1>3 DEF Goto
  <1> QED
    BY <1>1, <1>2, <1>3 DEF Unwind

LEMMA LockWorkerStep ==
  ASSUME TypeInv, LockInv, NEW w \in Workers, WorkerStep(w)
  PROVE  LockInv'
  <1> USE NoWorkerAssumption DEF TypeInv, TypeOK, LockInv, LockHeldInside, Inside, Goto, memory
  <1>1. CASE InsertRow(w)
    BY <1>1 DEF InsertRow
  <1>2. CASE Register(w)
    BY <1>2 DEF Register
  <1>3. CASE Load(w)
    <2> pc[w] = "load" /\ UNCHANGED lock
      BY <1>3 DEF Load
    <2>1. ASSUME NEW p \in PipeIds, lock[p] = w
          PROVE  FALSE
      BY <2>1
    <2>2. ASSUME NEW p \in PipeIds, pc' = [pc EXCEPT ![w] = "acquire"],
                 pid' = [pid EXCEPT ![w] = p]
          PROVE  LockInv'
      <3>1. \A w2 \in Workers : pc'[w2] \in {"acquire", "timedout"} \union InsideLabels => pid'[w2] \in PipeIds
        BY <2>2
      <3>2. \A w2 \in Workers : pc'[w2] \in InsideLabels => lock[pid'[w2]] = w2
        BY <2>2
      <3>3. ASSUME NEW p2 \in PipeIds, lock[p2] # NoWorker
            PROVE  pc'[lock[p2]] \in InsideLabels /\ pid'[lock[p2]] = p2
        <4>1. lock[p2] \in Workers /\ lock[p2] # w
          BY <2>1, <3>3
        <4> QED
          BY <2>2, <3>3, <4>1
      <3> QED
        BY <3>1, <3>2, <3>3
    <2>3. CASE pc' = [pc EXCEPT ![w] = "pop"] /\ UNCHANGED pid
      BY <1>3, <2>1, <2>3 DEF Load
    <2>4. \/ pc' = [pc EXCEPT ![w] = "pop"] /\ UNCHANGED pid
          \/ /\ pc' = [pc EXCEPT ![w] = "acquire"]
             /\ pid' = [pid EXCEPT ![w] = pipeline_id[run[w]]]
             /\ pipeline_id[run[w]] \in PipeIds
      BY <1>3 DEF Load
    <2> QED
      BY <2>2, <2>3, <2>4
  <1>4. CASE Acquire(w)
    BY <1>4 DEF Acquire
  <1>5. CASE TimeOut(w)
    BY <1>5 DEF TimeOut
  <1>6. CASE WaitAgain(w)
    BY <1>6 DEF WaitAgain
  <1>7. CASE CancelWhileQueued(w)
    BY <1>7 DEF CancelWhileQueued
  <1>8. CASE Start(w)
    BY <1>8 DEF Start
  <1>9. CASE Prepare(w)
    BY <1>9 DEF Prepare
  <1>10. CASE BeginStep(w)
    BY <1>10 DEF BeginStep
  <1>11. CASE EndStep(w)
    BY <1>11 DEF EndStep
  <1>12. CASE FailStep(w)
    BY <1>12 DEF FailStep, Settle
  <1>13. CASE StopCancelled(w)
    BY <1>13 DEF StopCancelled, Settle
  <1>14. CASE Succeed(w)
    BY <1>14 DEF Succeed, Settle
  <1>15. CASE Flush(w)
    BY <1>15 DEF Flush
  <1>19. CASE FlushEarly(w)
    BY <1>19 DEF FlushEarly
  <1>16. CASE Release(w)
    BY <1>16 DEF Release
  <1>17. CASE Pop(w)
    BY <1>17 DEF Pop, Clear
  <1>18. CASE RowGone(w)
    BY <1>18, LockUnwind DEF RowGone
  <1> QED
    BY <1>1, <1>2, <1>3, <1>4, <1>5, <1>6, <1>7, <1>8, <1>9, <1>10, <1>11,
       <1>12, <1>13, <1>14, <1>15, <1>16, <1>17, <1>18, <1>19 DEF WorkerStep

\* Nothing but a worker's own steps and a crash touches labels and locks.
LEMMA LockNext == TypeInv /\ LockInv /\ [Next]_vars => LockInv'
  <1> SUFFICES ASSUME TypeInv, LockInv, [Next]_vars PROVE LockInv'
    OBVIOUS
  <1>1. CASE UNCHANGED <<lock, pc, pid>>
    BY <1>1 DEF LockInv, LockHeldInside, Inside
  <1>2. ASSUME NEW q \in Requests,
               CancelStep(q) \/ DeletePipeline(q) \/ (\E r \in RunIds : CancelRequest(q, r))
                 \/ \E p \in PipeIds : DeleteRequest(q, p)
        PROVE  UNCHANGED <<lock, pc, pid>>
    BY <1>2 DEF CancelStep, SetEvent, MissEvent, Mark, CancelReturns, RequestFails,
                CancelRequest, DeletePipeline, DeleteRequest, memory, worker
  <1>3. ASSUME NEW w \in Workers, DbError(w)
        PROVE  LockInv'
    BY <1>3, LockUnwind DEF DbError, memory
  <1>4. ASSUME NEW w \in Workers, NEW p \in PipeIds, Launch(w, p)
        PROVE  LockInv'
    BY <1>4, NoWorkerAssumption
       DEF Launch, Goto, memory, TypeInv, TypeOK, LockInv, LockHeldInside, Inside
  <1>5. CASE Crash
    BY <1>5 DEF Crash, LockInv, LockHeldInside, Inside
  <1>6. CASE CreatePipeline \/ Restart
    BY <1>1, <1>6 DEF CreatePipeline, Restart, memory, worker
  <1> QED
    BY <1>1, <1>2, <1>3, <1>4, <1>5, <1>6, LockWorkerStep DEF Next, CoreNext, DeleteNext, vars

LEMMA LockAlways == Spec => [](TypeInv /\ LockInv)
  BY TypeInit, TypeNext, LockInit, LockNext, PTL DEF Spec

\* README.md:155 at the level of threads: the per-pipeline lock admits one
\* worker at a time, whatever rows and ids do underneath it.
THEOREM MutualExclusion == Spec => []Serialised
  <1>1. LockInv => Serialised
    BY DEF LockInv, Serialised
  <1> QED
    BY <1>1, LockAlways, PTL

\* No exception, no deletion and no database error leaves a pipeline locked.
THEOREM LocksAreHeldInside == Spec => []LockHeldInside
  <1>1. LockInv => LockHeldInside
    BY DEF LockInv
  <1> QED
    BY <1>1, LockAlways, PTL

-----------------------------------------------------------------------------
(* The registry.  A worker is registered under the id of its run once it   *)
(* is past the registration, and its last statement removes what is there, *)
(* so the invariant is inductive as it stands.                             *)

\* A slot that is cleared before it was registered is not in the registry.
LEMMA EventsUnwind ==
  ASSUME TypeInv, EventsAreLive, NEW w \in Workers, Unwind(w), UNCHANGED registry
  PROVE  EventsAreLive'
  <1> USE NoWorkerAssumption DEF TypeInv, TypeOK, EventsAreLive, Goto
  <1>1. CASE pc[w] = "register" /\ Clear(w)
    BY <1>1 DEF Clear
  <1>2. CASE /\ pc[w] \in {"load", "timedout", "start", "prepare", "loop", "step", "flush"}
             /\ Goto(w, "pop") \/ Goto(w, "release")
             /\ UNCHANGED run
    <2>1. pc' \in [Workers -> Labels] /\ \A v \in Workers : v # w => pc'[v] = pc[v]
      BY <1>2
    <2>2. pc'[w] \in {"pop", "release"}
      BY <1>2
    <2> QED
      BY <1>2, <2>1, <2>2
  <1> QED
    BY <1>1, <1>2 DEF Unwind

LEMMA EventsWorkerStep ==
  ASSUME TypeInv, EventsAreLive, NEW w \in Workers, WorkerStep(w)
  PROVE  EventsAreLive'
  <1> USE NoWorkerAssumption DEF TypeInv, TypeOK, EventsAreLive, Goto, memory
  <1>1. CASE InsertRow(w)
    BY <1>1 DEF InsertRow
  <1>2. CASE Register(w)
    BY <1>2 DEF Register
  <1>3. CASE Load(w)
    BY <1>3 DEF Load
  <1>4. ASSUME NEW l \in Labels \ {"idle", "insert", "register"},
               pc[w] \notin {"idle", "insert", "register"},
               pc' = [pc EXCEPT ![w] = l], UNCHANGED <<registry, run>>
        PROVE  EventsAreLive'
    BY <1>4
  <1>5. CASE Acquire(w) \/ TimeOut(w) \/ WaitAgain(w) \/ CancelWhileQueued(w) \/ Start(w)
    BY <1>4, <1>5 DEF Acquire, TimeOut, WaitAgain, CancelWhileQueued, Start
  <1>6. CASE \/ Prepare(w) \/ BeginStep(w) \/ EndStep(w) \/ Flush(w) \/ Release(w)
            \/ FailStep(w) \/ StopCancelled(w) \/ Succeed(w)
    BY <1>4, <1>6
       DEF Prepare, BeginStep, EndStep, Flush, Release, FailStep, StopCancelled, Succeed, Settle
  <1>7. CASE FlushEarly(w)
    BY <1>7 DEF FlushEarly
  <1>8. CASE Pop(w)
    BY <1>8 DEF Pop, Clear
  <1>9. CASE RowGone(w)
    BY <1>9, EventsUnwind DEF RowGone
  <1> QED
    BY <1>1, <1>2, <1>3, <1>4, <1>5, <1>6, <1>7, <1>8, <1>9 DEF WorkerStep

LEMMA EventsNext == TypeInv /\ EventsAreLive /\ [Next]_vars => EventsAreLive'
  <1> SUFFICES ASSUME TypeInv, EventsAreLive, [Next]_vars PROVE EventsAreLive'
    OBVIOUS
  <1>1. CASE UNCHANGED <<registry, pc, run>>
    BY <1>1 DEF EventsAreLive
  <1>2. ASSUME NEW q \in Requests,
               CancelStep(q) \/ DeletePipeline(q) \/ (\E r \in RunIds : CancelRequest(q, r))
                 \/ \E p \in PipeIds : DeleteRequest(q, p)
        PROVE  UNCHANGED <<registry, pc, run>>
    BY <1>2 DEF CancelStep, SetEvent, MissEvent, Mark, CancelReturns, RequestFails,
                CancelRequest, DeletePipeline, DeleteRequest, memory, worker
  <1>3. ASSUME NEW w \in Workers, DbError(w)
        PROVE  EventsAreLive'
    BY <1>3, EventsUnwind DEF DbError, memory
  <1>4. ASSUME NEW w \in Workers, NEW p \in PipeIds, Launch(w, p)
        PROVE  EventsAreLive'
    BY <1>4, NoWorkerAssumption DEF Launch, Goto, memory, TypeInv, TypeOK, EventsAreLive
  <1>5. CASE Crash
    BY <1>5 DEF Crash, EventsAreLive
  <1>6. CASE CreatePipeline \/ Restart
    BY <1>1, <1>6 DEF CreatePipeline, Restart, memory, worker
  <1> QED
    BY <1>1, <1>2, <1>3, <1>4, <1>5, <1>6, EventsWorkerStep DEF Next, CoreNext, DeleteNext, vars

\* An event found under a run id belongs to a thread that executes that id,
\* even while pipelines are deleted and ids reused: setting it is never lost.
THEOREM EventsAlwaysLive == Spec => []EventsAreLive
  <1>1. Init => EventsAreLive
    BY DEF Init, EventsAreLive
  <1> QED
    BY <1>1, TypeInit, TypeNext, EventsNext, PTL DEF Spec

-----------------------------------------------------------------------------
(* What QueuedRunEnds rests on: nobody stays inside a critical section for *)
(* want of anything but its own steps, of which finitely many are left.    *)

Stage(l) == CASE l = "start" -> 5
              [] l = "prepare" -> 4
              [] l \in {"loop", "step"} -> 3
              [] l = "flush" -> 2
              [] l = "release" -> 1

\* Within a stage: two labels for each step that is left, two for the last flush.
Rest(w) == CASE pc[w] = "loop" -> 2 * left[w]
             [] pc[w] = "step" -> 2 * left[w] - 1
             [] pc[w] = "flush" /\ out[w] # "none" -> 1
             [] OTHER -> 0

Advances(w) ==
  Inside(w)' => \/ Stage(pc'[w]) < Stage(pc[w])
                \/ Stage(pc'[w]) = Stage(pc[w]) /\ Rest(w)' < Rest(w)

Stays(w) == pc'[w] = pc[w] /\ Rest(w)' = Rest(w)

LEMMA RestIsNat ==
  ASSUME TypeInv, NEW w \in Workers
  PROVE  Rest(w) \in Nat
  BY DEF TypeInv, TypeOK, StepsLeft, Rest

LEMMA UnwindAdvances ==
  ASSUME TypeInv, NEW w \in Workers, Inside(w), Unwind(w)
  PROVE  Advances(w)
  BY DEF TypeInv, TypeOK, Inside, InsideLabels, Unwind, Goto, Advances, Stage

LEMMA OwnStepAdvances ==
  ASSUME TypeInv, TypeInv', NEW w \in Workers, Inside(w), WorkerStep(w) \/ DbError(w)
  PROVE  Advances(w)
  <1> USE DEF TypeInv, TypeOK, Inside, InsideLabels
  <1>1. CASE RowGone(w) \/ DbError(w)
    BY <1>1, UnwindAdvances DEF RowGone, DbError
  <1>2. CASE Start(w)
    BY <1>2 DEF Start, Goto, Advances, Stage
  <1>3. CASE Prepare(w)
    BY <1>3 DEF Prepare, Goto, Advances, Stage
  <1>4. CASE BeginStep(w)
    BY <1>4 DEF BeginStep, Goto, Advances, Stage, Rest
  <1>5. CASE EndStep(w)
    BY <1>5 DEF EndStep, StepsLeft, Goto, Advances, Stage, Rest
  <1>6. CASE FailStep(w) \/ StopCancelled(w) \/ Succeed(w)
    BY <1>6 DEF FailStep, StopCancelled, Succeed, Settle, Goto, Advances, Stage
  <1>7. CASE FlushEarly(w)
    BY <1>7 DEF FlushEarly, Advances, Stage, Rest
  <1>8. CASE Flush(w)
    BY <1>8 DEF Flush, Goto, Advances, Stage
  <1>9. CASE Release(w)
    BY <1>9 DEF Release, Goto, Advances
  <1> QED
    BY <1>1, <1>2, <1>3, <1>4, <1>5, <1>6, <1>7, <1>8, <1>9
    DEF WorkerStep, InsertRow, Register, Load, Acquire, TimeOut, WaitAgain, CancelWhileQueued, Pop

\* Nobody else moves a worker that is inside, but a crash.
LEMMA OthersLeaveInside ==
  ASSUME TypeInv, NEW w \in Workers, Inside(w), [Next]_vars, ~WorkerStep(w), ~DbError(w)
  PROVE  Stays(w) \/ ~Inside(w)'
  <1> USE DEF TypeInv, TypeOK, Inside, InsideLabels
  <1>0. pc'[w] = pc[w] /\ left'[w] = left[w] /\ out'[w] = out[w] => Stays(w)
    BY DEF Stays, Rest
  <1>1. ASSUME NEW w2 \in Workers, w2 # w, Unwind(w2)
        PROVE  pc'[w] = pc[w] /\ left'[w] = left[w] /\ out'[w] = out[w]
    BY <1>1 DEF Unwind, Clear, Goto
  <1>2. ASSUME NEW w2 \in Workers, w2 # w, WorkerStep(w2) \/ DbError(w2)
        PROVE  pc'[w] = pc[w] /\ left'[w] = left[w] /\ out'[w] = out[w]
    BY <1>1, <1>2 DEF WorkerStep, DbError, InsertRow, Register, Load, Acquire, TimeOut, WaitAgain,
       CancelWhileQueued, Start, Prepare, BeginStep, EndStep, FailStep, StopCancelled, Succeed,
       Settle, FlushEarly, Flush, Release, Pop, Clear, RowGone, Goto, worker
  <1>3. ASSUME NEW w2 \in Workers, NEW p \in PipeIds, Launch(w2, p)
        PROVE  pc'[w] = pc[w] /\ left'[w] = left[w] /\ out'[w] = out[w]
    BY <1>3 DEF Launch, Goto
  <1>4. ASSUME NEW q \in Requests,
               \/ CancelStep(q) \/ DeletePipeline(q)
               \/ \E r \in RunIds : CancelRequest(q, r)
               \/ \E p \in PipeIds : DeleteRequest(q, p)
        PROVE  UNCHANGED <<pc, left, out>>
    BY <1>4 DEF CancelStep, SetEvent, MissEvent, Mark, CancelReturns, RequestFails, CancelRequest,
       DeleteRequest, DeletePipeline, worker
  <1>5. CreatePipeline \/ Restart \/ UNCHANGED vars => UNCHANGED <<pc, left, out>>
    BY DEF CreatePipeline, Restart, worker, vars
  <1>6. Crash => ~Inside(w)'
    BY DEF Crash
  <1> QED
    BY <1>0, <1>2, <1>3, <1>4, <1>5, <1>6 DEF Next, CoreNext, DeleteNext

\* Every step of a worker that holds its pipeline's lock, a failing one included,
\* takes it nearer to the release, and no step of anyone else takes it back: with
\* weak fairness of workers alone every lock is released.
HoldersAdvance ==
  [][\A w \in Workers : Inside(w) =>
       /\ WorkerStep(w) \/ DbError(w) => Advances(w)
       /\ Stays(w) \/ Advances(w)]_vars

\* What is left to a worker inside is a number that its steps make smaller: it
\* comes to lock.release() after finitely many of them (_execute's finally).
THEOREM HoldersAlwaysAdvance ==
  Spec => HoldersAdvance /\ [](\A w \in Workers : Rest(w) \in Nat)
  <1>1. TypeInv /\ [Next]_vars =>
          \A w \in Workers : Inside(w) => /\ WorkerStep(w) \/ DbError(w) => Advances(w)
                                          /\ Stays(w) \/ Advances(w)
    BY TypeNext, OwnStepAdvances, OthersLeaveInside DEF Advances
  <1>2. TypeInv => \A w \in Workers : Rest(w) \in Nat
    BY RestIsNat
  <1> QED
    BY <1>1, <1>2, TypeInit, TypeNext, PTL DEF Spec, HoldersAdvance

-----------------------------------------------------------------------------
(* Theorems about KeepSpec: pipelines that nobody deletes, cancellations   *)
(* at any moment and any number of crashes.  Until a commit fails,         *)
(* what the rows say is what the threads do.                               *)

\* The worker has inserted its row.
Started(w) == pc[w] \notin {"idle", "insert"}
Waits(w) == pc[w] \in {"register", "load", "acquire", "timedout", "start"}
Executes(w) == pc[w] \in {"prepare", "loop", "step", "flush"}
Settled(w) == pc[w] = "flush" /\ out[w] = "none"

RowsExist == \A w \in Workers : Started(w) => run[w] \in RunIds /\ HasRow(run[w])

RunsApart == \A w1, w2 \in Workers : Started(w1) /\ Started(w2) /\ run[w1] = run[w2] => w1 = w2

PipesKept ==
  /\ \A r \in RunIds : HasRow(r) => pipeline_id[r] \in pipes
  /\ \A w \in Workers : pc[w] = "insert" => pid[w] \in pipes

LoadedPipe ==
  \A w \in Workers : pc[w] \in {"acquire", "timedout"} \union InsideLabels =>
    pid[w] = pipeline_id[run[w]]

\* The row's status follows the worker's progress, but for cancellations.
RowMatches ==
  \A w \in Workers :
    /\ Waits(w) => status[run[w]] \in {"queued", "cancelled"}
    /\ Executes(w) /\ ~Settled(w) => status[run[w]] \in {"running", "cancelled"}
    /\ Settled(w) \/ pc[w] \in {"release", "pop"} => status[run[w]] \in FinalStatuses

ActiveHasWorker ==
  up => \A r \in RunIds : status[r] \in ActiveStatuses =>
          \E w \in Workers : Started(w) /\ run[w] = r

WhileDown == ~up => OneRunningRow /\ \A w \in Workers : pc[w] = "idle"

RowInv ==
  /\ RowsExist /\ RunsApart /\ PipesKept /\ LoadedPipe /\ RowMatches
  /\ ActiveHasWorker /\ WhileDown /\ WorkerIsReachable

KeepInv == TypeInv /\ LockInv /\ RowInv

LEMMA RowInit == Init => RowInv
  BY DEF Init, RowInv, RowsExist, RunsApart, PipesKept, LoadedPipe, RowMatches,
         ActiveHasWorker, WhileDown, WorkerIsReachable, OneRunningRow,
         Started, Waits, Executes, Settled, HasRow

\* A running row has a worker inside its pipeline's lock, so there is one.
LEMMA OneRunning == KeepInv => OneRunningRow
  <1> SUFFICES ASSUME KeepInv, up,
                      NEW r1 \in RunIds, NEW r2 \in RunIds,
                      status[r1] = "running", status[r2] = "running",
                      pipeline_id[r1] = pipeline_id[r2]
               PROVE  r1 = r2
    BY DEF KeepInv, RowInv, WhileDown, OneRunningRow
  <1>1. ASSUME NEW r \in RunIds, status[r] = "running"
        PROVE  \E w \in Workers : Inside(w) /\ run[w] = r /\ pid[w] = pipeline_id[r]
    <2>1. PICK w \in Workers : Started(w) /\ run[w] = r
      BY <1>1 DEF KeepInv, RowInv, ActiveHasWorker
    <2>2. Executes(w)
      BY <1>1, <2>1 DEF KeepInv, TypeInv, TypeOK, RowInv, RowMatches, Started, Waits, Executes, Settled
    <2> QED
      BY <2>1, <2>2 DEF KeepInv, RowInv, LoadedPipe, Executes, Inside
  <1>2. PICK w1 \in Workers : Inside(w1) /\ run[w1] = r1 /\ pid[w1] = pipeline_id[r1]
    BY <1>1
  <1>3. PICK w2 \in Workers : Inside(w2) /\ run[w2] = r2 /\ pid[w2] = pipeline_id[r2]
    BY <1>1
  <1>4. w1 = w2
    BY <1>2, <1>3 DEF KeepInv, LockInv
  <1> QED
    BY <1>2, <1>3, <1>4

\* Nothing a worker needs is ever gone.
LEMMA NoUnwinding ==
  ASSUME KeepInv, NEW w \in Workers
  PROVE  ~RowGone(w)
  BY DEF RowGone, KeepInv, RowInv, RowsExist, PipesKept, LoadedPipe, Started

\* Failed commits are counted: if none has failed by the end of a step, none had
\* before it, and the step was not one.
LEMMA NoErrorYet ==
  ASSUME TypeOK, [Next]_vars, dbErrors' = 0
  PROVE  dbErrors = 0 /\ \A w \in Workers : ~DbError(w)
  <1>1. ASSUME NEW w \in Workers, DbError(w)
        PROVE  dbErrors' # 0
    BY <1>1 DEF DbError, TypeOK
  <1>2. ASSUME NEW w \in Workers, WorkerStep(w)
        PROVE  dbErrors' = dbErrors
    BY <1>2 DEF WorkerStep, InsertRow, Register, Load, Acquire, TimeOut, WaitAgain,
       CancelWhileQueued, Start, Prepare, BeginStep, EndStep, FailStep, StopCancelled, Succeed,
       Settle, FlushEarly, Flush, Release, Pop, RowGone, bounds
  <1>3. ASSUME NEW q \in Requests, CancelStep(q) \/ DeletePipeline(q)
        PROVE  dbErrors' = dbErrors
    BY <1>3 DEF CancelStep, SetEvent, MissEvent, Mark, CancelReturns, RequestFails,
       DeletePipeline, bounds
  <1>4. ASSUME NEW q \in Requests,
               (\E r \in RunIds : CancelRequest(q, r)) \/ \E p \in PipeIds : DeleteRequest(q, p)
        PROVE  dbErrors' = dbErrors
    BY <1>4 DEF CancelRequest, DeleteRequest, bounds
  <1>5. ASSUME NEW w \in Workers, NEW p \in PipeIds, Launch(w, p)
        PROVE  dbErrors' = dbErrors
    BY <1>5 DEF Launch, bounds
  <1>6. CreatePipeline \/ Crash \/ Restart \/ UNCHANGED vars => dbErrors' = dbErrors
    BY DEF CreatePipeline, Crash, Restart, bounds, vars
  <1> QED
    BY <1>1, <1>2, <1>3, <1>4, <1>5, <1>6 DEF Next, CoreNext, DeleteNext

\* What a started worker does to its own row and its own label.
OwnMove(w) ==
  /\ Started(w) /\ pc[w] # "register"
  /\ UNCHANGED <<pipeline_id, pipes, up, registry, run, pid>>
  /\ \E l \in Labels \ {"idle", "insert", "register"} : pc' = [pc EXCEPT ![w] = l]
  /\ \E o \in FinalStatuses \union {"none"} : out' = [out EXCEPT ![w] = o]
  /\ pc'[w] \in {"acquire", "timedout"} \union InsideLabels =>
       pc[w] \in {"acquire", "timedout"} \union InsideLabels

LEMMA OwnStep ==
  ASSUME KeepInv, up, NEW w \in Workers, OwnMove(w),
         NEW s \in Statuses, status' = [status EXCEPT ![run[w]] = s],
         Waits(w)' => s \in {"queued", "cancelled"},
         Executes(w)' /\ ~Settled(w)' => s \in {"running", "cancelled"},
         Settled(w)' \/ pc'[w] \in {"release", "pop"} => s \in FinalStatuses
  PROVE  RowInv'
  <1> USE DEF KeepInv, TypeInv, TypeOK
  <1> USE DEF OwnMove
  <1> run[w] \in RunIds /\ HasRow(run[w])
    BY DEF RowInv, RowsExist
  <1>0. \A w2 \in Workers : /\ Started(w2)' <=> Started(w2)
                            /\ w2 # w => pc'[w2] = pc[w2] /\ out'[w2] = out[w2]
    BY DEF Started
  <1>1. \A r \in RunIds : (HasRow(r)' <=> HasRow(r)) /\ (r # run[w] => status'[r] = status[r])
    BY DEF HasRow
  <1>2. RowsExist'
    BY <1>0, <1>1 DEF RowInv, RowsExist
  <1>3. RunsApart'
    BY <1>0 DEF RowInv, RunsApart
  <1>4. PipesKept'
    BY <1>1 DEF RowInv, PipesKept
  <1>5. LoadedPipe'
    BY DEF RowInv, LoadedPipe
  <1>6. RowMatches'
    <2>1. ASSUME NEW w2 \in Workers, w2 # w, Started(w2)
          PROVE  status'[run'[w2]] = status[run[w2]]
      BY <1>1, <2>1 DEF RowInv, RunsApart, RowsExist
    <2>2. ASSUME NEW w2 \in Workers, w2 # w
          PROVE  /\ Waits(w2)' => status'[run'[w2]] \in {"queued", "cancelled"}
                 /\ Executes(w2)' /\ ~Settled(w2)' => status'[run'[w2]] \in {"running", "cancelled"}
                 /\ Settled(w2)' \/ pc'[w2] \in {"release", "pop"} => status'[run'[w2]] \in FinalStatuses
      BY <1>0, <2>1, <2>2 DEF RowInv, RowMatches, Waits, Executes, Settled, Started
    <2>3. /\ Waits(w)' => status'[run'[w]] \in {"queued", "cancelled"}
          /\ Executes(w)' /\ ~Settled(w)' => status'[run'[w]] \in {"running", "cancelled"}
          /\ Settled(w)' \/ pc'[w] \in {"release", "pop"} => status'[run'[w]] \in FinalStatuses
      BY DEF Waits, Executes, Settled
    <2> QED
      BY <2>2, <2>3 DEF RowMatches
  <1>7. ActiveHasWorker'
    BY <1>0, <1>1 DEF RowInv, ActiveHasWorker
  <1>8. WhileDown'
    BY DEF WhileDown
  <1>9. WorkerIsReachable'
    BY <1>0 DEF RowInv, WorkerIsReachable, Started
  <1> QED
    BY <1>2, <1>3, <1>4, <1>5, <1>6, <1>7, <1>8, <1>9 DEF RowInv

\* The same when the row is left alone.
LEMMA OwnLabelStep ==
  ASSUME KeepInv, up, NEW w \in Workers, OwnMove(w), UNCHANGED status,
         Waits(w)' => Waits(w),
         Executes(w)' /\ ~Settled(w)' => Executes(w) /\ ~Settled(w),
         Settled(w)' \/ pc'[w] \in {"release", "pop"} => Settled(w) \/ pc[w] \in {"release", "pop"}
  PROVE  RowInv'
  <1> DEFINE s == status[run[w]]
  <1>1. run[w] \in RunIds /\ s \in Statuses
    BY DEF OwnMove, KeepInv, RowInv, RowsExist, HasRow, TypeInv, TypeOK
  <1>2. status' = [status EXCEPT ![run[w]] = s]
    BY <1>1 DEF KeepInv, TypeInv, TypeOK
  <1>3. /\ Waits(w) => s \in {"queued", "cancelled"}
        /\ Executes(w) /\ ~Settled(w) => s \in {"running", "cancelled"}
        /\ Settled(w) \/ pc[w] \in {"release", "pop"} => s \in FinalStatuses
    BY DEF KeepInv, RowInv, RowMatches
  <1> HIDE DEF s
  <1> QED
    BY <1>1, <1>2, <1>3, OwnStep

\* The new row is queued and belongs to the worker alone.
LEMMA RowInsert ==
  ASSUME KeepInv, up, NEW w \in Workers, InsertRow(w)
  PROVE  RowInv'
  <1> USE DEF KeepInv, TypeInv, TypeOK, Goto
  <1>0. PICK r \in RunIds :
          /\ ~HasRow(r)
          /\ status' = [status EXCEPT ![r] = "queued"]
          /\ pipeline_id' = [pipeline_id EXCEPT ![r] = pid[w]]
          /\ run' = [run EXCEPT ![w] = r]
    <2>1. PICK r \in RunIds :
            /\ NextId(r, {i \in RunIds : HasRow(i)})
            /\ status' = [status EXCEPT ![r] = "queued"]
            /\ pipeline_id' = [pipeline_id EXCEPT ![r] = pid[w]]
            /\ run' = [run EXCEPT ![w] = r]
      BY DEF InsertRow
    <2>2. HasRow(r) => r < r
      BY <2>1 DEF NextId
    <2>3. ~HasRow(r)
      BY <2>2, BoundsAssumption
    <2> QED
      BY <2>1, <2>3
  <1>1. /\ pc[w] = "insert" /\ pc' = [pc EXCEPT ![w] = "register"]
        /\ UNCHANGED <<pipes, up, registry, pid, out>>
    BY DEF InsertRow, memory
  <1>2. \A w2 \in Workers : /\ w2 # w => /\ Started(w2)' <=> Started(w2)
                                         /\ run'[w2] = run[w2] /\ pc'[w2] = pc[w2]
                                         /\ Started(w2) => run[w2] # r
    BY <1>0, <1>1 DEF RowInv, RowsExist, Started
  <1>3. run'[w] = r /\ pc'[w] = "register" /\ status'[r] = "queued" /\ pipeline_id'[r] = pid[w]
    BY <1>0, <1>1
  <1>4. \A r2 \in RunIds : r2 # r => status'[r2] = status[r2] /\ pipeline_id'[r2] = pipeline_id[r2]
    BY <1>0
  <1>5. RowsExist'
    BY <1>1, <1>2, <1>3, <1>4 DEF RowInv, RowsExist, HasRow, Started
  <1>6. RunsApart'
    BY <1>2, <1>3 DEF RowInv, RunsApart
  <1>7. PipesKept'
    BY <1>1, <1>2, <1>3, <1>4 DEF RowInv, PipesKept, HasRow
  <1>8. LoadedPipe'
    <2>1. ASSUME NEW w2 \in Workers, pc'[w2] \in {"acquire", "timedout"} \union InsideLabels
          PROVE  pid'[w2] = pipeline_id'[run'[w2]]
      <3>1. w2 # w /\ pc[w2] = pc'[w2] /\ Started(w2)
        BY <1>2, <1>3, <2>1 DEF Started
      <3>2. run[w2] \in RunIds /\ run[w2] # r /\ run'[w2] = run[w2]
        BY <1>2, <3>1 DEF RowInv, RowsExist
      <3> QED
        BY <1>1, <1>4, <2>1, <3>1, <3>2 DEF RowInv, LoadedPipe
    <2> QED
      BY <2>1 DEF LoadedPipe
  <1>9. RowMatches'
    <2>1. ASSUME NEW w2 \in Workers, w2 # w, Started(w2)
          PROVE  status'[run'[w2]] = status[run[w2]]
      BY <1>2, <1>4, <2>1 DEF RowInv, RowsExist
    <2>2. \A w2 \in Workers : w2 # w => pc'[w2] = pc[w2] /\ out'[w2] = out[w2]
      BY <1>1
    <2>3. RowMatches
      BY DEF RowInv
    <2> HIDE DEF KeepInv, TypeInv, TypeOK
    <2> SUFFICES ASSUME NEW w2 \in Workers
                 PROVE  /\ Waits(w2)' => status'[run'[w2]] \in {"queued", "cancelled"}
                        /\ Executes(w2)' /\ ~Settled(w2)' => status'[run'[w2]] \in {"running", "cancelled"}
                        /\ Settled(w2)' \/ pc'[w2] \in {"release", "pop"} => status'[run'[w2]] \in FinalStatuses
      BY DEF RowMatches
    <2>4. CASE w2 = w
      BY <1>3, <2>4 DEF Waits, Executes, Settled
    <2>5. CASE w2 # w /\ Started(w2)
      <3>1. /\ pc'[w2] = pc[w2] /\ out'[w2] = out[w2]
            /\ status'[run'[w2]] = status[run[w2]]
        BY <2>1, <2>2, <2>5
      <3> QED
        BY <2>3, <3>1 DEF RowMatches, Waits, Executes, Settled
    <2>6. CASE w2 # w /\ ~Started(w2)
      BY <2>2, <2>6 DEF Waits, Executes, Settled, Started
    <2> QED
      BY <2>4, <2>5, <2>6
  <1>10. ActiveHasWorker'
    <2>1. ASSUME NEW r2 \in RunIds, status'[r2] \in ActiveStatuses, r2 # r
          PROVE  \E w2 \in Workers : Started(w2)' /\ run'[w2] = r2
      <3>1. PICK w2 \in Workers : Started(w2) /\ run[w2] = r2
        BY <1>4, <2>1 DEF RowInv, ActiveHasWorker
      <3>2. w2 # w
        BY <1>1, <3>1 DEF Started
      <3> QED
        BY <1>2, <3>1, <3>2
    <2>2. Started(w)' /\ run'[w] = r
      BY <1>3 DEF Started
    <2> QED
      BY <2>1, <2>2 DEF ActiveHasWorker
  <1>11. WhileDown'
    BY <1>1 DEF WhileDown
  <1>12. WorkerIsReachable'
    BY <1>1, <1>2, <1>3 DEF RowInv, WorkerIsReachable
  <1> QED
    BY <1>5, <1>6, <1>7, <1>8, <1>9, <1>10, <1>11, <1>12 DEF RowInv

\* From the registration on, the worker can be reached; no one else's event
\* is overwritten, because runs are apart.
LEMMA RowRegister ==
  ASSUME KeepInv, up, NEW w \in Workers, Register(w)
  PROVE  RowInv'
  <1> USE DEF KeepInv, TypeInv, TypeOK
  <1>1. /\ pc[w] = "register" /\ pc' = [pc EXCEPT ![w] = "load"]
        /\ registry' = [registry EXCEPT ![run[w]] = w]
        /\ UNCHANGED <<status, pipeline_id, pipes, up, run, pid, out>>
    BY DEF Register, Goto, db
  <1>2. \A w2 \in Workers : /\ Started(w2)' <=> Started(w2)
                            /\ w2 # w => pc'[w2] = pc[w2]
    BY <1>1 DEF Started
  <1>3. RowsExist' /\ RunsApart'
    BY <1>1, <1>2 DEF RowInv, RowsExist, RunsApart, HasRow
  <1>4. PipesKept' /\ LoadedPipe' /\ WhileDown'
    BY <1>1 DEF RowInv, PipesKept, LoadedPipe, WhileDown, HasRow
  <1>5. RowMatches'
    BY <1>1 DEF RowInv, RowMatches, Waits, Executes, Settled
  <1>6. ActiveHasWorker'
    BY <1>1, <1>2 DEF RowInv, ActiveHasWorker
  <1>7. WorkerIsReachable'
    <2>1. run[w] \in RunIds
      BY <1>1 DEF RowInv, RowsExist, Started
    <2>2. ASSUME NEW w2 \in Workers, w2 # w, pc[w2] \notin {"idle", "insert", "register"}
          PROVE  registry'[run'[w2]] = w2
      <3>1. run[w2] # run[w] /\ run[w2] \in RunIds
        BY <1>1, <2>2 DEF RowInv, RunsApart, RowsExist, Started
      <3> QED
        BY <1>1, <2>1, <2>2, <3>1 DEF RowInv, WorkerIsReachable
    <2> QED
      BY <1>1, <1>2, <2>1, <2>2 DEF WorkerIsReachable
  <1> QED
    BY <1>3, <1>4, <1>5, <1>6, <1>7 DEF RowInv

\* The row and its pipeline are there, so the thread goes on to its lock.
LEMMA RowLoad ==
  ASSUME KeepInv, up, NEW w \in Workers, Load(w)
  PROVE  RowInv'
  <1> USE DEF KeepInv, TypeInv, TypeOK
  <1>0. HasRow(run[w]) /\ pipeline_id[run[w]] \in pipes
    BY DEF Load, RowInv, RowsExist, PipesKept, Started
  <1>1. /\ pc[w] = "load" /\ pc' = [pc EXCEPT ![w] = "acquire"]
        /\ pid' = [pid EXCEPT ![w] = pipeline_id[run[w]]]
        /\ UNCHANGED <<status, pipeline_id, pipes, up, registry, run, out>>
    BY <1>0 DEF Load, Goto, db, memory
  <1>2. \A w2 \in Workers : Started(w2)' <=> Started(w2)
    BY <1>1 DEF Started
  <1>3. RowsExist' /\ RunsApart'
    BY <1>1, <1>2 DEF RowInv, RowsExist, RunsApart, HasRow
  <1>4. PipesKept' /\ LoadedPipe' /\ WhileDown'
    BY <1>1 DEF RowInv, PipesKept, LoadedPipe, WhileDown, HasRow
  <1>5. RowMatches'
    BY <1>1 DEF RowInv, RowMatches, Waits, Executes, Settled
  <1>6. ActiveHasWorker'
    BY <1>1, <1>2 DEF RowInv, ActiveHasWorker
  <1>7. WorkerIsReachable'
    BY <1>1 DEF RowInv, WorkerIsReachable
  <1> QED
    BY <1>3, <1>4, <1>5, <1>6, <1>7 DEF RowInv

\* The worker's row has its outcome, and only its own event goes.
LEMMA RowPop ==
  ASSUME KeepInv, up, NEW w \in Workers, Pop(w)
  PROVE  RowInv'
  <1> USE DEF KeepInv, TypeInv, TypeOK
  <1>1. /\ pc[w] = "pop" /\ pc' = [pc EXCEPT ![w] = "idle"]
        /\ run' = [run EXCEPT ![w] = 0] /\ pid' = [pid EXCEPT ![w] = 0]
        /\ out' = [out EXCEPT ![w] = "none"]
        /\ registry' = [registry EXCEPT ![run[w]] = NoWorker]
        /\ UNCHANGED <<status, pipeline_id, pipes, up>>
    BY DEF Pop, Clear, Goto, db
  <1>2. \A w2 \in Workers : w2 # w => /\ Started(w2)' <=> Started(w2)
                                      /\ pc'[w2] = pc[w2] /\ run'[w2] = run[w2]
                                      /\ pid'[w2] = pid[w2] /\ out'[w2] = out[w2]
                                      /\ Started(w2) => run[w2] # run[w]
    BY <1>1 DEF Started, RowInv, RunsApart
  <1>3. ~Started(w)' /\ pc'[w] = "idle"
    BY <1>1 DEF Started
  <1>4. RowsExist'
    <2>1. ASSUME NEW w2 \in Workers, Started(w2)'
          PROVE  run'[w2] \in RunIds /\ HasRow(run[w2])'
      BY <1>1, <1>2, <1>3, <2>1 DEF RowInv, RowsExist, HasRow
    <2> QED
      BY <2>1 DEF RowsExist
  <1>9. RunsApart'
    <2>1. ASSUME NEW w1 \in Workers, NEW w2 \in Workers, Started(w1)', Started(w2)', run'[w1] = run'[w2]
          PROVE  w1 = w2
      BY <1>2, <1>3, <2>1 DEF RowInv, RunsApart
    <2> QED
      BY <2>1 DEF RunsApart
  <1>5. PipesKept' /\ LoadedPipe' /\ WhileDown'
    BY <1>1, <1>2, <1>3 DEF RowInv, PipesKept, LoadedPipe, WhileDown, HasRow
  <1>6. RowMatches'
    BY <1>1, <1>2, <1>3 DEF RowInv, RowMatches, Waits, Executes, Settled
  <1>7. ActiveHasWorker'
    <2>1. status[run[w]] \in FinalStatuses
      BY <1>1 DEF RowInv, RowMatches
    <2>2. ASSUME NEW r \in RunIds, status[r] \in ActiveStatuses
          PROVE  \E w2 \in Workers : Started(w2)' /\ run'[w2] = r
      <3>1. PICK w2 \in Workers : Started(w2) /\ run[w2] = r
        BY <2>2 DEF RowInv, ActiveHasWorker
      <3>2. w2 # w
        BY <2>1, <2>2, <3>1
      <3> QED
        BY <1>2, <3>1, <3>2
    <2> QED
      BY <1>1, <2>2 DEF ActiveHasWorker
  <1>8. WorkerIsReachable'
    BY <1>1, <1>2, <1>3 DEF RowInv, WorkerIsReachable, RowsExist, Started
  <1> QED
    BY <1>4, <1>5, <1>6, <1>7, <1>8, <1>9 DEF RowInv

\* The steps that move the worker on without a look at its row ...
LEMMA RowLabelSteps ==
  ASSUME KeepInv, up, NEW w \in Workers,
         \/ Acquire(w) \/ TimeOut(w) \/ WaitAgain(w) \/ Prepare(w) \/ BeginStep(w) \/ EndStep(w)
         \/ FailStep(w) \/ StopCancelled(w) \/ Succeed(w) \/ Release(w)
  PROVE  RowInv'
  <1>1. /\ pc \in [Workers -> Labels] /\ out \in [Workers -> FinalStatuses \union {"none"}]
        /\ UNCHANGED out => out' = [out EXCEPT ![w] = out[w]]
    BY DEF KeepInv, TypeInv, TypeOK
  <1>2. OwnMove(w)
    BY <1>1 DEF OwnMove, Started, Acquire, TimeOut, WaitAgain, Prepare, BeginStep, EndStep,
       FailStep, StopCancelled, Succeed, Settle, Release, Goto, db, memory, worker, bounds
  <1>3. /\ UNCHANGED status
        /\ Waits(w)' => Waits(w)
        /\ Executes(w)' /\ ~Settled(w)' => Executes(w) /\ ~Settled(w)
        /\ Settled(w)' \/ pc'[w] \in {"release", "pop"} => Settled(w) \/ pc[w] \in {"release", "pop"}
    BY <1>1 DEF Waits, Executes, Settled, Acquire, TimeOut, WaitAgain, Prepare, BeginStep, EndStep,
       FailStep, StopCancelled, Succeed, Settle, Release, Goto, db, memory, worker, bounds
  <1> QED
    BY <1>2, <1>3, OwnLabelStep

\* ... and those that write its status.
LEMMA RowStatusSteps ==
  ASSUME KeepInv, up, NEW w \in Workers,
         CancelWhileQueued(w) \/ Start(w) \/ FlushEarly(w) \/ (Flush(w) /\ out[w] # "none")
  PROVE  RowInv'
  <1>1. /\ pc \in [Workers -> Labels] /\ out \in [Workers -> FinalStatuses \union {"none"}]
        /\ UNCHANGED out => out' = [out EXCEPT ![w] = out[w]]
        /\ UNCHANGED pc => pc' = [pc EXCEPT ![w] = pc[w]]
    BY DEF KeepInv, TypeInv, TypeOK
  <1>2. OwnMove(w)
    BY <1>1 DEF OwnMove, Started, CancelWhileQueued, Start, FlushEarly, Flush, Goto, memory, bounds
  <1>3. \E s \in Statuses :
          /\ status' = [status EXCEPT ![run[w]] = s]
          /\ Waits(w)' => s \in {"queued", "cancelled"}
          /\ Executes(w)' /\ ~Settled(w)' => s \in {"running", "cancelled"}
          /\ Settled(w)' \/ pc'[w] \in {"release", "pop"} => s \in FinalStatuses
    BY <1>1 DEF Waits, Executes, Settled, CancelWhileQueued, Start, FlushEarly, Flush, Goto,
       memory, bounds
  <1> QED
    BY <1>2, <1>3, OwnStep

LEMMA RowFlushSettled ==
  ASSUME KeepInv, up, NEW w \in Workers, Flush(w), out[w] = "none"
  PROVE  RowInv'
  <1>1. pc \in [Workers -> Labels] /\ out \in [Workers -> FinalStatuses \union {"none"}]
    BY DEF KeepInv, TypeInv, TypeOK
  <1>2. OwnMove(w) /\ UNCHANGED status /\ Settled(w) /\ pc'[w] = "release"
    BY <1>1 DEF OwnMove, Started, Settled, Flush, Goto, memory, bounds
  <1> QED
    BY <1>2, OwnLabelStep DEF Waits, Executes, Settled

LEMMA RowWorkerStep ==
  ASSUME KeepInv, NEW w \in Workers, WorkerStep(w)
  PROVE  RowInv'
  <1>1. ~RowGone(w)
    BY NoUnwinding
  <1>2. up
    <2>1. pc[w] # "idle"
      BY <1>1 DEF WorkerStep, InsertRow, Register, Load, Acquire, TimeOut, WaitAgain,
         CancelWhileQueued, Start, Prepare, BeginStep, EndStep, FailStep, StopCancelled,
         Succeed, FlushEarly, Flush, Release, Pop
    <2> QED
      BY <2>1 DEF KeepInv, RowInv, WhileDown
  <1> QED
    BY <1>1, <1>2, RowInsert, RowRegister, RowLoad, RowPop, RowLabelSteps, RowStatusSteps,
       RowFlushSettled DEF WorkerStep

\* A cancellation touches no row but an active or stale one, and no label.
LEMMA RowRequestStep ==
  ASSUME KeepInv, NEW q \in Requests, CancelStep(q) \/ \E r \in RunIds : CancelRequest(q, r)
  PROVE  RowInv'
  <1>1. CASE UNCHANGED <<status, pipeline_id, pipes, up, registry, pc, run, pid, out>>
    BY <1>1 DEF KeepInv, RowInv, RowsExist, RunsApart, PipesKept, LoadedPipe, RowMatches,
       ActiveHasWorker, WhileDown, WorkerIsReachable, OneRunningRow,
       Started, Waits, Executes, Settled, HasRow
  <1>2. CASE Mark(q) /\ ~UNCHANGED status
    <2>1. PICK r \in RunIds : HasRow(r) /\ status' = [status EXCEPT ![r] = "cancelled"]
      <3>1. HasRow(req[q].run) /\ status' = [status EXCEPT ![req[q].run] = "cancelled"]
        BY <1>2 DEF Mark
      <3>2. req[q].run \in RunIds
        BY <1>2, <3>1 DEF KeepInv, TypeInv, TypeOK
      <3> QED
        BY <3>1, <3>2
    <2>2. UNCHANGED <<pipeline_id, pipes, up, registry, pc, run, pid, out>>
      BY <1>2 DEF Mark, memory, worker
    <2>3. \A r2 \in RunIds : /\ HasRow(r2)' <=> HasRow(r2)
                             /\ status'[r2] = status[r2] \/ status'[r2] = "cancelled"
      BY <2>1 DEF HasRow, KeepInv, TypeInv, TypeOK
    <2>4. RowsExist' /\ PipesKept'
      BY <2>2, <2>3 DEF KeepInv, RowInv, RowsExist, PipesKept, Started
    <2>5. RunsApart' /\ LoadedPipe' /\ WorkerIsReachable'
      BY <2>2 DEF KeepInv, RowInv, RunsApart, LoadedPipe, WorkerIsReachable, Started
    <2>6. RowMatches'
      <3>1. \A w \in Workers : Started(w) => run[w] \in RunIds
        BY DEF KeepInv, RowInv, RowsExist
      <3> QED
        BY <2>2, <2>3, <3>1 DEF KeepInv, RowInv, RowMatches, Started, Waits, Executes, Settled
    <2>7. ActiveHasWorker'
      BY <2>2, <2>3 DEF KeepInv, RowInv, ActiveHasWorker, Started
    <2>8. WhileDown'
      BY <2>2, <2>3 DEF KeepInv, RowInv, WhileDown, OneRunningRow
    <2> QED
      BY <2>4, <2>5, <2>6, <2>7, <2>8 DEF RowInv
  <1>3. UNCHANGED <<pipeline_id, pipes, up, registry, pc, run, pid, out>>
    BY DEF CancelStep, SetEvent, MissEvent, Mark, CancelReturns, RequestFails, CancelRequest,
       db, memory, worker
  <1>4. UNCHANGED status \/ Mark(q)
    BY DEF CancelStep, SetEvent, MissEvent, CancelReturns, RequestFails, CancelRequest, db
  <1> QED
    BY <1>1, <1>2, <1>3, <1>4

LEMMA RowOtherStep ==
  ASSUME KeepInv,
         \/ \E w \in Workers, p \in PipeIds : Launch(w, p)
         \/ CreatePipeline \/ Crash \/ Restart
  PROVE  RowInv'
  <1>1. ASSUME NEW w \in Workers, NEW p \in PipeIds, Launch(w, p)
        PROVE  RowInv'
    <2> USE DEF KeepInv, TypeInv, TypeOK
    <2>1. /\ pc[w] = "idle" /\ pc' = [pc EXCEPT ![w] = "insert"]
          /\ pid' = [pid EXCEPT ![w] = p] /\ up
          /\ UNCHANGED <<status, pipeline_id, pipes, up, registry, run, out>>
      BY <1>1 DEF Launch, Goto, db, memory
    <2>2. p \in pipes
      BY <1>1 DEF Launch, RunsOf, RowInv, PipesKept
    <2>3. \A w2 \in Workers : Started(w2)' <=> Started(w2)
      BY <2>1 DEF Started
    <2>4. RowsExist' /\ RunsApart'
      BY <2>1, <2>3 DEF RowInv, RowsExist, RunsApart, HasRow
    <2>5. PipesKept' /\ LoadedPipe' /\ WhileDown'
      BY <2>1, <2>2 DEF RowInv, PipesKept, LoadedPipe, WhileDown, HasRow
    <2>6. RowMatches'
      BY <2>1 DEF RowInv, RowMatches, Waits, Executes, Settled
    <2>7. ActiveHasWorker'
      BY <2>1, <2>3 DEF RowInv, ActiveHasWorker
    <2>8. WorkerIsReachable'
      BY <2>1 DEF RowInv, WorkerIsReachable
    <2> QED
      BY <2>4, <2>5, <2>6, <2>7, <2>8 DEF RowInv
  <1>2. CASE CreatePipeline
    BY <1>2 DEF CreatePipeline, memory, worker, KeepInv, RowInv, RowsExist, RunsApart, PipesKept,
       LoadedPipe, RowMatches, ActiveHasWorker, WhileDown, WorkerIsReachable, OneRunningRow,
       Started, Waits, Executes, Settled, HasRow
  <1>3. CASE Crash
    <2>1. OneRunningRow
      BY OneRunning
    <2> QED
      BY <1>3, <2>1 DEF Crash, db, KeepInv, RowInv, RowsExist, RunsApart, PipesKept,
         LoadedPipe, RowMatches, ActiveHasWorker, WhileDown, WorkerIsReachable, OneRunningRow,
         Started, Waits, Executes, Settled, HasRow
  <1>4. CASE Restart
    <2>1. /\ \A w \in Workers : pc[w] = "idle" /\ pc'[w] = "idle"
          /\ up' = TRUE /\ UNCHANGED <<pipeline_id, pipes>>
      BY <1>4 DEF Restart, KeepInv, RowInv, WhileDown, worker
    <2>2. \A r \in RunIds : status'[r] \notin ActiveStatuses /\ (HasRow(r)' <=> HasRow(r))
      BY <1>4 DEF Restart, HasRow
    <2> QED
      BY <2>1, <2>2 DEF KeepInv, RowInv, RowsExist, RunsApart, PipesKept,
         LoadedPipe, RowMatches, ActiveHasWorker, WhileDown, WorkerIsReachable,
         Started, Waits, Executes, Settled
  <1> QED
    BY <1>1, <1>2, <1>3, <1>4

LEMMA KeepNext ==
  ASSUME KeepInv, [CoreNext]_vars, dbErrors' = 0
  PROVE  KeepInv'
  <1>1. TypeInv' /\ LockInv'
    BY TypeNext, LockNext DEF KeepInv, Next
  <1>2. CASE UNCHANGED vars
    BY <1>1, <1>2 DEF vars, KeepInv, RowInv, RowsExist, RunsApart, PipesKept,
       LoadedPipe, RowMatches, ActiveHasWorker, WhileDown, WorkerIsReachable, OneRunningRow,
       Started, Waits, Executes, Settled, HasRow
  <1>3. CASE CoreNext
    <2>1. \A w \in Workers : ~DbError(w)
      BY NoErrorYet DEF KeepInv, TypeInv, Next
    <2>2. RowInv'
      BY <1>3, <2>1, RowWorkerStep, RowRequestStep, RowOtherStep DEF CoreNext
    <2> QED
      BY <1>1, <2>2 DEF KeepInv
  <1> QED
    BY <1>1, <1>2, <1>3 DEF KeepInv

LEMMA KeepAlways == KeepSpec => [](dbErrors = 0 => KeepInv)
  <1> DEFINE Good == dbErrors = 0 => KeepInv
  <1>1. Init => TypeInv /\ Good
    BY TypeInit, LockInit, RowInit DEF KeepInv
  <1>2. TypeInv /\ Good /\ [CoreNext]_vars => TypeInv' /\ Good'
    BY TypeNext, KeepNext, NoErrorYet DEF TypeInv, Next
  <1> QED
    BY <1>1, <1>2, PTL DEF KeepSpec

\* README.md:155 at the level of rows: whatever is cancelled and whenever the
\* process crashes, until a commit fails at most one run of a pipeline is shown
\* as running.
THEOREM OneRunningRowAlways == KeepSpec => [](dbErrors = 0 => OneRunningRow)
  <1> QED
    BY KeepAlways, OneRunning, PTL

\* No row waits for a thread that does not exist: until a commit fails, every
\* queued or running run belongs to a live worker, from its insertion to its
\* last commit.
THEOREM ActiveRunsAreOwned == KeepSpec => [](dbErrors = 0 => ActiveRunIsOwned)
  <1>1. KeepInv => ActiveRunIsOwned
    BY DEF KeepInv, RowInv, ActiveHasWorker, ActiveRunIsOwned, Owned, Started
  <1> QED
    BY <1>1, KeepAlways, PTL

-----------------------------------------------------------------------------
(* Whatever fails, a worker of a kept pipeline can be cancelled.           *)

ReachInv == RowsExist /\ RunsApart /\ WorkerIsReachable

\* An exception takes the worker to its last statements, with its row and its
\* event, or out of launch_run before it has one.
LEMMA ReachUnwind ==
  ASSUME TypeInv, ReachInv, NEW w \in Workers, Unwind(w),
         UNCHANGED <<status, pipeline_id, pipes, registry>>
  PROVE  ReachInv'
  <1> USE DEF TypeInv, TypeOK, ReachInv
  <1>1. /\ \A w2 \in Workers : w2 # w => pc'[w2] = pc[w2] /\ run'[w2] = run[w2]
        /\ Started(w) /\ (Started(w)' => run'[w] = run[w])
        /\ pc'[w] \notin {"idle", "insert", "register"} =>
             pc[w] \notin {"idle", "insert", "register"} /\ run'[w] = run[w]
    BY DEF Unwind, Clear, Goto, Started
  <1>2. \A w2 \in Workers : Started(w2)' => Started(w2) /\ run'[w2] = run[w2]
    BY <1>1 DEF Started
  <1>3. RowsExist'
    BY <1>2 DEF RowsExist, HasRow
  <1>4. RunsApart'
    BY <1>2 DEF RunsApart
  <1>5. WorkerIsReachable'
    BY <1>1 DEF WorkerIsReachable
  <1> QED
    BY <1>3, <1>4, <1>5

\* The id SQLite gives to the new row is no other worker's.
LEMMA ReachInsert ==
  ASSUME TypeInv, ReachInv, NEW w \in Workers, InsertRow(w)
  PROVE  ReachInv'
  <1> USE DEF TypeInv, TypeOK, ReachInv
  <1>1. PICK r \in RunIds : /\ NextId(r, {i \in RunIds : HasRow(i)})
                            /\ status' = [status EXCEPT ![r] = "queued"]
                            /\ run' = [run EXCEPT ![w] = r]
    BY DEF InsertRow
  <1>2. ~HasRow(r)
    <2>1. HasRow(r) => r < r
      BY <1>1 DEF NextId
    <2> QED
      BY <2>1, BoundsAssumption DEF RunIds
  <1>3. /\ pc[w] = "insert" /\ pc' = [pc EXCEPT ![w] = "register"] /\ registry' = registry
    BY DEF InsertRow, Goto, memory
  <1>4. \A w2 \in Workers : /\ w2 # w => pc'[w2] = pc[w2] /\ run'[w2] = run[w2]
                            /\ w2 # w /\ Started(w2) => run[w2] # r
                            /\ Started(w2)' <=> w2 = w \/ Started(w2)
    BY <1>1, <1>2, <1>3 DEF RowsExist, Started
  <1>5. run'[w] = r
    BY <1>1
  <1>6. RowsExist'
    <2>1. \A i \in RunIds : i = r \/ HasRow(i) => HasRow(i)'
      BY <1>1 DEF HasRow
    <2> QED
      BY <1>4, <1>5, <2>1 DEF RowsExist
  <1>7. RunsApart'
    BY <1>4, <1>5 DEF RunsApart
  <1>8. WorkerIsReachable'
    BY <1>3, <1>4 DEF WorkerIsReachable
  <1> QED
    BY <1>6, <1>7, <1>8

LEMMA ReachRegister ==
  ASSUME TypeInv, ReachInv, NEW w \in Workers, Register(w)
  PROVE  ReachInv'
  <1> USE DEF TypeInv, TypeOK, ReachInv
  <1>1. /\ pc[w] = "register" /\ pc' = [pc EXCEPT ![w] = "load"]
        /\ registry' = [registry EXCEPT ![run[w]] = w]
        /\ UNCHANGED <<status, run>>
    BY DEF Register, Goto, db
  <1>2. \A w2 \in Workers : /\ Started(w2)' <=> Started(w2)
                            /\ w2 # w => pc'[w2] = pc[w2]
                            /\ w2 # w /\ Started(w2) => run[w2] # run[w]
    BY <1>1 DEF Started, RunsApart
  <1>3. run[w] \in RunIds
    BY <1>1 DEF RowsExist, Started
  <1>4. RowsExist' /\ RunsApart'
    BY <1>1, <1>2 DEF RowsExist, RunsApart, HasRow
  <1>5. WorkerIsReachable'
    BY <1>1, <1>2, <1>3 DEF WorkerIsReachable, RowsExist, Started
  <1> QED
    BY <1>4, <1>5

\* A worker that ends takes its own event with it and no other.
LEMMA ReachPop ==
  ASSUME TypeInv, ReachInv, NEW w \in Workers, Pop(w)
  PROVE  ReachInv'
  <1> USE DEF TypeInv, TypeOK, ReachInv
  <1>1. /\ pc[w] = "pop" /\ pc' = [pc EXCEPT ![w] = "idle"]
        /\ run' = [run EXCEPT ![w] = 0]
        /\ registry' = [registry EXCEPT ![run[w]] = NoWorker]
        /\ UNCHANGED status
    BY DEF Pop, Clear, Goto, db
  <1>2. \A w2 \in Workers :
          /\ Started(w2)' => w2 # w /\ Started(w2)
          /\ w2 # w => pc'[w2] = pc[w2] /\ run'[w2] = run[w2]
          /\ w2 # w /\ Started(w2) => run[w2] # run[w]
    BY <1>1 DEF Started, RunsApart
  <1>3. RowsExist' /\ RunsApart'
    BY <1>1, <1>2 DEF RowsExist, RunsApart, HasRow
  <1>4. WorkerIsReachable'
    BY <1>1, <1>2 DEF WorkerIsReachable, RowsExist, Started
  <1> QED
    BY <1>3, <1>4

\* Every other step of a worker leaves its run and the events alone, and takes no
\* row away.
LEMMA ReachWorkerStep ==
  ASSUME TypeInv, ReachInv, NEW w \in Workers, WorkerStep(w)
  PROVE  ReachInv'
  <1> USE DEF TypeInv, TypeOK, ReachInv
  <1>1. CASE RowGone(w)
    BY <1>1, ReachUnwind DEF RowGone, db, memory
  <1>2. ASSUME /\ UNCHANGED <<registry, run>>
               /\ Started(w) /\ pc[w] # "register"
               /\ \E l \in Labels \ {"idle", "insert", "register"} : pc' = [pc EXCEPT ![w] = l]
               /\ \A r \in RunIds : HasRow(r) => HasRow(r)'
        PROVE  ReachInv'
    <2>1. \A w2 \in Workers : /\ Started(w2)' <=> Started(w2)
                              /\ w2 # w => pc'[w2] = pc[w2]
      BY <1>2 DEF Started
    <2>2. RowsExist' /\ RunsApart'
      BY <1>2, <2>1 DEF RowsExist, RunsApart
    <2>3. WorkerIsReachable'
      BY <1>2, <2>1 DEF WorkerIsReachable, Started
    <2> QED
      BY <2>2, <2>3
  <1>3. CASE \/ Load(w) \/ Acquire(w) \/ TimeOut(w) \/ WaitAgain(w) \/ Prepare(w)
             \/ BeginStep(w) \/ EndStep(w) \/ FailStep(w) \/ StopCancelled(w) \/ Succeed(w)
             \/ Release(w)
    <2>1. UNCHANGED <<status, registry, run>> /\ Started(w) /\ pc[w] # "register"
      BY <1>3 DEF Load, Acquire, TimeOut, WaitAgain, Prepare, BeginStep, EndStep, FailStep,
         StopCancelled, Succeed, Settle, Release, Started, db, memory
    <2>2. \E l \in Labels \ {"idle", "insert", "register"} : pc' = [pc EXCEPT ![w] = l]
      BY <1>3 DEF Load, Acquire, TimeOut, WaitAgain, Prepare, BeginStep, EndStep, FailStep,
         StopCancelled, Succeed, Settle, Release, Goto, Labels
    <2> QED
      BY <1>2, <2>1, <2>2 DEF HasRow
  <1>4. CASE CancelWhileQueued(w) \/ Start(w) \/ FlushEarly(w) \/ Flush(w)
    <2>1. UNCHANGED <<registry, run>> /\ Started(w) /\ pc[w] # "register"
      BY <1>4 DEF CancelWhileQueued, Start, FlushEarly, Flush, Started, memory
    <2>2. \E l \in Labels \ {"idle", "insert", "register"} : pc' = [pc EXCEPT ![w] = l]
      BY <1>4 DEF CancelWhileQueued, Start, FlushEarly, Flush, Goto, Labels
    <2>3. \A r \in RunIds : HasRow(r) => HasRow(r)'
      BY <1>4 DEF CancelWhileQueued, Start, FlushEarly, Flush, HasRow, FinalStatuses
    <2> QED
      BY <1>2, <2>1, <2>2, <2>3
  <1> QED
    BY <1>1, <1>3, <1>4, ReachInsert, ReachRegister, ReachPop DEF WorkerStep

LEMMA ReachNext ==
  ASSUME TypeInv, ReachInv, [CoreNext]_vars
  PROVE  ReachInv'
  <1> USE DEF TypeInv, TypeOK, ReachInv
  <1>1. ASSUME UNCHANGED <<registry, run>>,
               \A w \in Workers : pc'[w] # pc[w] => pc[w] = "idle" /\ pc'[w] = "insert",
               \A r \in RunIds : HasRow(r) => HasRow(r)'
        PROVE  ReachInv'
    <2>1. \A w \in Workers : Started(w)' <=> Started(w)
      BY <1>1 DEF Started
    <2> QED
      BY <1>1, <2>1 DEF RowsExist, RunsApart, WorkerIsReachable
  <1>2. ASSUME NEW w \in Workers, DbError(w)
        PROVE  ReachInv'
    BY <1>2, ReachUnwind DEF DbError, db, memory
  <1>3. ASSUME NEW w \in Workers, NEW p \in PipeIds, Launch(w, p)
        PROVE  ReachInv'
    BY <1>1, <1>3 DEF Launch, Goto, HasRow, db, memory
  <1>4. ASSUME NEW q \in Requests, CancelStep(q) \/ \E r \in RunIds : CancelRequest(q, r)
        PROVE  ReachInv'
    <2>1. UNCHANGED <<registry, run, pc>>
      BY <1>4 DEF CancelStep, SetEvent, MissEvent, Mark, CancelReturns, RequestFails,
         CancelRequest, memory, worker
    <2>2. UNCHANGED status \/ Mark(q)
      BY <1>4 DEF CancelStep, SetEvent, MissEvent, CancelReturns, RequestFails, CancelRequest, db
    <2>3. Mark(q) => \A r \in RunIds : HasRow(r) => HasRow(r)'
      BY DEF Mark, HasRow
    <2> QED
      BY <1>1, <2>1, <2>2, <2>3 DEF HasRow
  <1>5. CASE CreatePipeline \/ UNCHANGED vars
    BY <1>1, <1>5 DEF CreatePipeline, memory, worker, vars, HasRow
  <1>6. CASE Restart
    <2>1. \A r \in RunIds : HasRow(r) => HasRow(r)'
      BY <1>6 DEF Restart, HasRow
    <2> QED
      BY <1>1, <1>6, <2>1 DEF Restart, memory, worker
  <1>7. CASE Crash
    BY <1>7 DEF Crash, RowsExist, RunsApart, WorkerIsReachable, Started
  <1> QED
    BY <1>2, <1>3, <1>4, <1>5, <1>6, <1>7, ReachWorkerStep DEF CoreNext

\* Every worker can be cancelled, whatever its commits and reads run into: its
\* own event is the one registered for its run from the moment its thread exists
\* until it ends.
THEOREM WorkersAreReachable == KeepSpec => []WorkerIsReachable
  <1>1. Init => TypeInv /\ ReachInv
    BY TypeInit DEF Init, ReachInv, RowsExist, RunsApart, WorkerIsReachable, Started
  <1>2. TypeInv /\ ReachInv /\ [CoreNext]_vars => TypeInv' /\ ReachInv'
    BY TypeNext, ReachNext DEF Next
  <1>3. ReachInv => WorkerIsReachable
    BY DEF ReachInv
  <1> QED
    BY <1>1, <1>2, <1>3, PTL DEF KeepSpec

-----------------------------------------------------------------------------
(* The runs table implements RunBoard.                                     *)

LEMMA BoardWorkerStep ==
  ASSUME KeepInv, KeepInv', NEW w \in Workers, WorkerStep(w)
  PROVE  [Board!Next]_Board!vars
  <1> USE DEF Board!vars, Board!Become, Board!Ended, HasRow
  <1>0. ~RowGone(w)
    BY NoUnwinding
  <1>1. CASE UNCHANGED <<status, pipeline_id>>
    BY <1>1
  <1>2. CASE InsertRow(w)
    <2>1. PICK r \in RunIds :
            /\ NextId(r, {i \in RunIds : HasRow(i)})
            /\ status' = [status EXCEPT ![r] = "queued"]
            /\ pipeline_id' = [pipeline_id EXCEPT ![r] = pid[w]]
      BY <1>2 DEF InsertRow
    <2>2. HasRow(r) => r < r
      BY <2>1 DEF NextId
    <2>3. ~HasRow(r)
      BY <2>2, BoundsAssumption
    <2>4. pid[w] \in PipeIds
      BY <1>2 DEF InsertRow, KeepInv, RowInv, PipesKept, TypeInv, TypeOK
    <2>5. Board!Queue(r, pid[w])
      BY <2>1, <2>3 DEF Board!Queue
    <2> QED
      BY <2>4, <2>5 DEF Board!Next
  <1>3. CASE CancelWhileQueued(w)
    <2>1. run[w] \in RunIds /\ Board!MarkCancelled(run[w])
      BY <1>3 DEF CancelWhileQueued, Board!MarkCancelled, KeepInv, RowInv, RowsExist, Started
    <2> QED
      BY <2>1 DEF Board!Next
  <1>4. CASE Start(w)
    <2>1. run[w] \in RunIds /\ status[run[w]] \in {"queued", "cancelled"}
      BY <1>4 DEF Start, KeepInv, RowInv, RowsExist, RowMatches, Started, Waits
    <2>2. ASSUME NEW r2 \in RunIds, status[r2] = "running", pipeline_id[r2] = pipeline_id[run[w]]
          PROVE  FALSE
      <3>1. r2 # run[w]
        BY <2>1, <2>2
      <3>2. status'[r2] = "running" /\ status'[run[w]] = "running" /\ UNCHANGED pipeline_id
        BY <1>4, <2>1, <2>2, <3>1 DEF Start, KeepInv, TypeInv, TypeOK
      <3>3. OneRunningRow'
        BY OneRunning, PTL
      <3> QED
        BY <2>1, <2>2, <3>1, <3>2, <3>3 DEF OneRunningRow
    <2>3. Board!Begin(run[w])
      BY <1>4, <2>1, <2>2 DEF Start, Board!Begin
    <2> QED
      BY <2>1, <2>3 DEF Board!Next
  <1>5. CASE (FlushEarly(w) \/ Flush(w)) /\ ~UNCHANGED status
    <2>1. out[w] \in FinalStatuses
      BY <1>5 DEF FlushEarly, Flush, KeepInv, TypeInv, TypeOK
    <2>2. run[w] \in RunIds /\ status[run[w]] \in {"running", "cancelled"}
      BY <1>5, <2>1 DEF FlushEarly, Flush, KeepInv, RowInv, RowsExist, RowMatches,
         Started, Executes, Settled
    <2>3. Board!End(run[w], out[w])
      BY <1>5, <2>1, <2>2 DEF FlushEarly, Flush, Board!End
    <2> QED
      BY <2>1, <2>2, <2>3 DEF Board!Next
  <1>6. UNCHANGED pipeline_id \/ InsertRow(w)
    BY <1>0 DEF WorkerStep, Register, Load, Acquire, TimeOut, WaitAgain, CancelWhileQueued, Start,
       Prepare, BeginStep, EndStep, FailStep, StopCancelled, Succeed, Settle, FlushEarly, Flush,
       Release, Pop, db
  <1>7. \/ UNCHANGED status
        \/ InsertRow(w) \/ CancelWhileQueued(w) \/ Start(w) \/ FlushEarly(w) \/ Flush(w)
    BY <1>0 DEF WorkerStep, Register, Load, Acquire, TimeOut, WaitAgain, Prepare, BeginStep,
       EndStep, FailStep, StopCancelled, Succeed, Settle, Release, Pop, db
  <1> QED
    BY <1>1, <1>2, <1>3, <1>4, <1>5, <1>6, <1>7

LEMMA BoardNext ==
  ASSUME KeepInv, KeepInv', [CoreNext]_vars, dbErrors' = 0
  PROVE  [Board!Next]_Board!vars
  <1> USE DEF Board!vars
  <1>1. CASE UNCHANGED vars
    BY <1>1 DEF vars
  <1>2. ASSUME NEW w \in Workers, WorkerStep(w) \/ DbError(w)
        PROVE  [Board!Next]_Board!vars
    BY <1>2, BoardWorkerStep, NoErrorYet DEF KeepInv, TypeInv, Next
  <1>3. ASSUME NEW q \in Requests, CancelStep(q)
        PROVE  [Board!Next]_Board!vars
    <2>1. CASE UNCHANGED status
      BY <1>3, <2>1 DEF CancelStep, SetEvent, MissEvent, Mark, CancelReturns, RequestFails, db
    <2>2. CASE Mark(q) /\ ~UNCHANGED status
      <3>1. HasRow(req[q].run) /\ status' = [status EXCEPT ![req[q].run] = "cancelled"]
        BY <2>2 DEF Mark
      <3>2. req[q].run \in RunIds
        BY <2>2, <3>1 DEF KeepInv, TypeInv, TypeOK
      <3>3. Board!MarkCancelled(req[q].run)
        BY <2>2, <3>1 DEF Mark, HasRow, Board!MarkCancelled, Board!Become
      <3> QED
        BY <3>2, <3>3 DEF Board!Next
    <2>3. UNCHANGED status \/ Mark(q)
      BY <1>3 DEF CancelStep, SetEvent, MissEvent, CancelReturns, RequestFails, db
    <2> QED
      BY <2>1, <2>2, <2>3
  <1>4. ASSUME NEW w \in Workers, NEW p \in PipeIds, Launch(w, p)
        PROVE  [Board!Next]_Board!vars
    BY <1>4 DEF Launch, db
  <1>5. ASSUME NEW q \in Requests, NEW r \in RunIds, CancelRequest(q, r)
        PROVE  [Board!Next]_Board!vars
    BY <1>5 DEF CancelRequest, db
  <1>6. CASE CreatePipeline \/ Crash
    BY <1>6 DEF CreatePipeline, Crash, db
  <1>7. CASE Restart
    BY <1>7 DEF Restart, Board!Next, Board!Interrupt, Board!Active
  <1> QED
    BY <1>1, <1>2, <1>3, <1>4, <1>5, <1>6, <1>7 DEF CoreNext

\* While no commit fails, the threads, locks, events and requests, with their
\* crashes, implement the runs table that RunBoard describes.
THEOREM RunsImplementBoard == KeepSpec /\ [](dbErrors = 0) => ImplementsBoard
  <1>1. Init => Board!Init
    BY DEF Init, Board!Init
  <1>2. KeepInv /\ KeepInv' /\ [CoreNext]_vars /\ (dbErrors = 0)' => [Board!Next]_Board!vars
    BY BoardNext
  <1> QED
    BY <1>1, <1>2, KeepAlways, PTL DEF KeepSpec, ImplementsBoard, Board!Spec

-----------------------------------------------------------------------------
(* What CancelQueuedWins rests on: a cancellation that came while the run  *)
(* waited is carried through every label to the row.                       *)

\* The worker will see its cancellation at its next look, and a look lies ahead;
\* or it has seen it, and the row says so or is about to.
CancelBinds(w) ==
  /\ cancelled[w]
  /\ \/ pc[w] \in {"load", "acquire", "timedout", "start", "prepare"}
     \/ pc[w] = "loop" /\ left[w] > 0
     \/ pc[w] = "flush" /\ out[w] = "cancelled"
     \/ (Settled(w) \/ pc[w] \in {"release", "pop"}) /\ status[run[w]] = "cancelled"

EndsCancelled(w) == pc'[w] = "idle" /\ status'[run[w]] = "cancelled"

\* The steps such a worker has before it, with the lock taken or a timeout first.
Ahead(w) == CASE pc[w] = "load" -> 10
              [] pc[w] = "acquire" -> 9
              [] pc[w] = "timedout" -> 8
              [] pc[w] = "start" -> 7
              [] pc[w] = "prepare" -> 6
              [] pc[w] = "loop" -> 5
              [] pc[w] = "flush" /\ out[w] # "none" -> 4
              [] pc[w] = "flush" /\ out[w] = "none" -> 3
              [] pc[w] = "release" -> 2
              [] pc[w] = "pop" -> 1
              [] OTHER -> 0

\* Until it has ended as cancelled, or the process has, the cancellation binds the
\* worker; each of its steps is one of the last ten, and nobody gives it more.
CancelsCarry ==
  [][\A w \in Workers : CancelBinds(w) =>
       /\ CancelBinds(w)' \/ EndsCancelled(w) \/ ~up'
       /\ WorkerStep(w) => Ahead(w)' < Ahead(w)
       /\ Ahead(w)' <= Ahead(w)]_vars

LEMMA BoundStep ==
  ASSUME KeepInv, 0 \notin StepCounts, NEW w \in Workers, CancelBinds(w), WorkerStep(w)
  PROVE  (CancelBinds(w)' \/ EndsCancelled(w)) /\ Ahead(w)' < Ahead(w)
  <1> USE DEF KeepInv, TypeInv, TypeOK, CancelBinds, Settled
  <1>0. ~RowGone(w) /\ run[w] \in RunIds
    BY NoUnwinding DEF RowInv, RowsExist, Started
  <1>1. CASE Load(w)
    <2>1. HasRow(run[w]) /\ pipeline_id[run[w]] \in pipes
      BY <1>1 DEF Load, RowInv, RowsExist, PipesKept, Started
    <2>2. pc[w] = "load" /\ pc'[w] = "acquire" /\ UNCHANGED cancelled
      BY <1>1, <2>1 DEF Load, Goto
    <2> QED
      BY <2>2 DEF Ahead
  <1>2. CASE Acquire(w) \/ TimeOut(w)
    <2>1. pc[w] = "acquire" /\ pc'[w] \in {"timedout", "start"} /\ UNCHANGED cancelled
      BY <1>2 DEF Acquire, TimeOut, Goto
    <2> QED
      BY <2>1 DEF Ahead
  <1>3. CASE CancelWhileQueued(w)
    <2>1. /\ pc[w] = "timedout" /\ pc'[w] = "pop" /\ UNCHANGED <<cancelled, run>>
          /\ status'[run[w]] = "cancelled"
      BY <1>0, <1>3 DEF CancelWhileQueued, Goto
    <2> QED
      BY <2>1 DEF Ahead
  <1>4. CASE Start(w)
    <2>1. pc[w] = "start" /\ pc'[w] = "prepare" /\ UNCHANGED cancelled
      BY <1>4 DEF Start, Goto
    <2> QED
      BY <2>1 DEF Ahead
  <1>5. CASE Prepare(w)
    <2>1. pc[w] = "prepare" /\ pc'[w] = "loop" /\ UNCHANGED cancelled
      BY <1>5 DEF Prepare, Goto
    <2>2. left'[w] > 0
      BY <1>5, StepCountsAssumption DEF Prepare
    <2> QED
      BY <2>1, <2>2 DEF Ahead
  <1>6. CASE StopCancelled(w)
    <2>1. pc[w] = "loop" /\ pc'[w] = "flush" /\ out'[w] = "cancelled" /\ UNCHANGED cancelled
      BY <1>6 DEF StopCancelled, Settle, Goto
    <2> QED
      BY <2>1 DEF Ahead
  <1>7. CASE FlushEarly(w)
    <2>1. /\ pc[w] = "flush" /\ out[w] = "cancelled" /\ out'[w] = "none"
          /\ UNCHANGED <<pc, cancelled, run>> /\ status'[run[w]] = "cancelled"
      BY <1>0, <1>7 DEF FlushEarly
    <2> QED
      BY <2>1 DEF Ahead
  <1>8. CASE Flush(w)
    <2>1. pc[w] = "flush" /\ pc'[w] = "release" /\ UNCHANGED <<cancelled, run>>
      BY <1>8 DEF Flush, Goto
    <2>2. status'[run[w]] = "cancelled"
      BY <1>0, <1>8 DEF Flush
    <2> QED
      BY <2>1, <2>2 DEF Ahead
  <1>9. CASE Release(w)
    <2>1. pc[w] = "release" /\ pc'[w] = "pop" /\ UNCHANGED <<cancelled, run, status>>
      BY <1>9 DEF Release, Goto, db
    <2> QED
      BY <2>1 DEF Ahead
  <1>10. CASE Pop(w)
    <2>1. pc[w] = "pop" /\ pc'[w] = "idle" /\ UNCHANGED status
      BY <1>10 DEF Pop, Clear, Goto, db
    <2> QED
      BY <2>1 DEF Ahead, EndsCancelled
  <1>11. ~( \/ InsertRow(w) \/ Register(w) \/ WaitAgain(w) \/ BeginStep(w) \/ EndStep(w)
            \/ FailStep(w) \/ Succeed(w))
    BY DEF InsertRow, Register, WaitAgain, BeginStep, EndStep, FailStep, Succeed
  <1> QED
    BY <1>0, <1>1, <1>2, <1>3, <1>4, <1>5, <1>6, <1>7, <1>8, <1>9, <1>10, <1>11 DEF WorkerStep

\* Another worker writes to another row, and a request writes "cancelled".
LEMMA BoundByOthers ==
  ASSUME KeepInv, NEW w \in Workers, CancelBinds(w), [CoreNext]_vars, ~WorkerStep(w),
         \A w2 \in Workers : ~DbError(w2)
  PROVE  (CancelBinds(w)' \/ ~up') /\ Ahead(w)' <= Ahead(w)
  <1> USE DEF KeepInv, TypeInv, TypeOK
  <1>0. Started(w) /\ run[w] \in RunIds
    BY DEF CancelBinds, Settled, Started, RowInv, RowsExist
  <1>1. ASSUME pc'[w] = pc[w], left'[w] = left[w], out'[w] = out[w], run'[w] = run[w],
               cancelled'[w] = TRUE, status'[run[w]] \in {status[run[w]], "cancelled"}
        PROVE  CancelBinds(w)' /\ Ahead(w)' <= Ahead(w)
    <2>1. Ahead(w)' = Ahead(w) /\ Ahead(w) \in Nat
      BY <1>1 DEF Ahead
    <2>2. CancelBinds(w)'
      BY <1>1 DEF CancelBinds, Settled
    <2> QED
      BY <2>1, <2>2
  <1>2. ASSUME NEW w2 \in Workers, w2 # w, WorkerStep(w2)
        PROVE  CancelBinds(w)' /\ Ahead(w)' <= Ahead(w)
    <2>0. ~RowGone(w2)
      BY NoUnwinding
    <2>1. /\ pc'[w] = pc[w] /\ left'[w] = left[w] /\ out'[w] = out[w] /\ run'[w] = run[w]
          /\ cancelled'[w] = cancelled[w]
      BY <1>2, <2>0 DEF WorkerStep, InsertRow, Register, Load, Acquire, TimeOut, WaitAgain,
         CancelWhileQueued, Start, Prepare, BeginStep, EndStep, FailStep, StopCancelled, Succeed,
         Settle, FlushEarly, Flush, Release, Pop, Clear, Goto
    <2>2. CASE InsertRow(w2)
      <3>1. PICK r \in RunIds : /\ NextId(r, {i \in RunIds : HasRow(i)})
                                /\ status' = [status EXCEPT ![r] = "queued"]
        BY <2>2 DEF InsertRow
      <3>2. HasRow(r) => r < r
        BY <3>1 DEF NextId
      <3>3. run[w] # r
        BY <1>0, <3>2, BoundsAssumption DEF RunIds, RowInv, RowsExist
      <3> QED
        BY <1>1, <2>1, <3>1, <3>3 DEF CancelBinds
    <2>3. CASE CancelWhileQueued(w2) \/ Start(w2) \/ FlushEarly(w2) \/ Flush(w2)
      <3>1. Started(w2)
        BY <2>3 DEF CancelWhileQueued, Start, FlushEarly, Flush, Started
      <3>2. run[w2] # run[w]
        BY <1>0, <1>2, <3>1 DEF RowInv, RunsApart
      <3>3. status'[run[w]] = status[run[w]]
        BY <1>0, <2>3, <3>2 DEF CancelWhileQueued, Start, FlushEarly, Flush
      <3> QED
        BY <1>1, <2>1, <3>3 DEF CancelBinds
    <2>4. UNCHANGED status \/ InsertRow(w2) \/ CancelWhileQueued(w2) \/ Start(w2)
            \/ FlushEarly(w2) \/ Flush(w2)
      BY <1>2, <2>0 DEF WorkerStep, Register, Load, Acquire, TimeOut, WaitAgain, Prepare, BeginStep,
         EndStep, FailStep, StopCancelled, Succeed, Settle, Release, Pop, db
    <2> QED
      BY <1>1, <2>1, <2>2, <2>3, <2>4 DEF CancelBinds
  <1>3. ASSUME NEW w2 \in Workers, NEW p \in PipeIds, Launch(w2, p)
        PROVE  CancelBinds(w)' /\ Ahead(w)' <= Ahead(w)
    <2>1. w2 # w
      BY <1>0, <1>3 DEF Launch, Started
    <2> QED
      BY <1>1, <1>3, <2>1 DEF Launch, Goto, CancelBinds, db
  <1>4. ASSUME NEW q \in Requests, CancelStep(q) \/ \E r \in RunIds : CancelRequest(q, r)
        PROVE  CancelBinds(w)' /\ Ahead(w)' <= Ahead(w)
    <2>1. UNCHANGED <<pc, left, out, run>>
      BY <1>4 DEF CancelStep, SetEvent, MissEvent, Mark, CancelReturns, RequestFails, CancelRequest,
         worker
    <2>2. cancelled'[w] = TRUE
      BY <1>4 DEF CancelStep, SetEvent, MissEvent, Mark, CancelReturns, RequestFails, CancelRequest,
         worker, CancelBinds
    <2>3. status'[run[w]] \in {status[run[w]], "cancelled"}
      BY <1>0, <1>4 DEF CancelStep, SetEvent, MissEvent, Mark, CancelReturns, RequestFails,
         CancelRequest, db
    <2> QED
      BY <1>1, <2>1, <2>2, <2>3
  <1>5. CASE CreatePipeline \/ UNCHANGED vars
    BY <1>1, <1>5 DEF CreatePipeline, worker, vars, CancelBinds
  <1>6. CASE Crash
    <2>1. pc'[w] = "idle" /\ ~up'
      BY <1>6 DEF Crash
    <2> QED
      BY <2>1 DEF Ahead
  <1>7. ~Restart
    BY <1>0 DEF Restart, RowInv, WhileDown, Started
  <1> QED
    BY <1>2, <1>3, <1>4, <1>5, <1>6, <1>7 DEF CoreNext

\* A run of a pipeline with steps that was cancelled while it waited can only end
\* cancelled, by a timeout or by the lock, unless the process dies or a commit fails,
\* and within ten steps of its worker (_execute, RunContext.check).
THEOREM CancelsAlwaysCarry ==
  ASSUME 0 \notin StepCounts
  PROVE  KeepSpec /\ [](dbErrors = 0) => CancelsCarry
  <1>1. KeepInv /\ [CoreNext]_vars /\ (dbErrors = 0)' =>
          [\A w \in Workers : CancelBinds(w) =>
             /\ CancelBinds(w)' \/ EndsCancelled(w) \/ ~up'
             /\ WorkerStep(w) => Ahead(w)' < Ahead(w)
             /\ Ahead(w)' <= Ahead(w)]_vars
    <2> SUFFICES ASSUME KeepInv, [CoreNext]_vars, dbErrors' = 0, NEW w \in Workers, CancelBinds(w)
                 PROVE  /\ CancelBinds(w)' \/ EndsCancelled(w) \/ ~up'
                        /\ WorkerStep(w) => Ahead(w)' < Ahead(w)
                        /\ Ahead(w)' <= Ahead(w)
      OBVIOUS
    <2>1. \A w2 \in Workers : ~DbError(w2)
      BY NoErrorYet DEF KeepInv, TypeInv, Next
    <2>2. CASE WorkerStep(w)
      <3>1. Ahead(w) \in Nat /\ Ahead(w)' \in Nat
        BY DEF Ahead
      <3> QED
        BY <2>2, <3>1, BoundStep
    <2>3. CASE ~WorkerStep(w)
      BY <2>1, <2>3, BoundByOthers
    <2> QED
      BY <2>2, <2>3
  <1> QED
    BY <1>1, KeepAlways, PTL DEF KeepSpec, CancelsCarry

=============================================================================
