------------------------------ MODULE Scheduler ------------------------------
(***************************************************************************)
(* The cron scheduler thread (Scheduler.tick and _loop), the schedule      *)
(* settings it races with (update_settings, import_config), and the other  *)
(* launches it looks out for (has_active_run);                             *)
(* src/app/modules/pipeline_engine.py, config_io.py.                       *)
(*                                                                         *)
(* A cron expression is the set of times it fires at.  It fires again and  *)
(* again or never: the empty set is an expression like `0 0 30 2 *`, which *)
(* is accepted and has no next time.  Runs are only counted here;          *)
(* PipelineRuns models what happens to them.                               *)
(***************************************************************************)
EXTENDS Naturals, FiniteSets

CONSTANTS
  Pipes,        \* pipelines, by id
  NoPipe,       \* no pipeline
  Crons,        \* cron expressions, each the set of times it fires at
  MaxTime,      \* bound: the clock stops there
  MaxActive,    \* bound: active runs of one pipeline
  MaxEdits,     \* bound: schedule changes, imports included
  MaxCrashes    \* bound: crashes

ASSUME NoPipeAssumption == Pipes \subseteq Nat /\ NoPipe \notin Pipes
ASSUME CronsAssumption == Crons \subseteq SUBSET Nat
ASSUME BoundsAssumption == {MaxTime, MaxActive, MaxEdits, MaxCrashes} \subseteq Nat

VARIABLES
  now,
  \* the database
  pipes,                \* pipelines that exist
  cron, enabled, last,  \* schedule_cron, schedule_enabled, last_scheduled_at
  active,               \* rows of pipeline_runs that are queued or running
  changes,              \* schedule changes that are about to be committed
  \* the scheduler thread
  at,                   \* "sleep", "scan", "check", "launch"
  tick,                 \* utcnow() at the start of the tick
  todo,                 \* pipelines of the query not looked at yet
  copy,                 \* what the query read of them
  expired,              \* has a commit made the session forget those copies?
  cur, slots,           \* the pipeline that fires, and the cron times it fires for
  \* history and bounds
  ran,                  \* cron times that have led to a run
  again,                \* claimed cron times that a late commit gave back
  backdated,            \* pipelines with a commit since the tick began that counts from before it
  edits, crashes

vars == <<now, pipes, cron, enabled, last, active, changes, at, tick, todo, copy, expired,
          cur, slots, ran, again, backdated, edits, crashes>>
schedule == <<cron, enabled, changes, again, edits>>
session == <<tick, todo, copy, expired, backdated>>

\* next_fire_time(cron, base) <= t: some firing is later than base and not after t.
Due(c, base, t) == {f \in c : base < f /\ f <= t}

NoCopy == [p \in Pipes |-> [cron |-> {}, last |-> 0]]

\* Between ticks, and after a restart, the thread remembers nothing.
Sleep == /\ at' = "sleep" /\ tick' = 0 /\ todo' = {} /\ copy' = NoCopy
         /\ expired' = FALSE /\ cur' = NoPipe /\ slots' = {} /\ backdated' = {}

-----------------------------------------------------------------------------
(* One tick.                                                               *)

\* The query of enabled pipelines, loaded into the session.
BeginTick ==
  /\ at = "sleep"
  /\ at' = "scan"
  /\ tick' = now
  /\ todo' = {p \in pipes : enabled[p]}
  /\ copy' = [p \in Pipes |-> [cron |-> cron[p], last |-> last[p]]]
  /\ expired' = FALSE /\ backdated' = {}
  /\ UNCHANGED <<now, pipes, schedule, last, active, cur, slots, ran, crashes>>

Seen(p) == IF expired THEN [cron |-> cron[p], last |-> last[p]] ELSE copy[p]

\* The loop takes the pipelines in the order of their ids.
Looks(p) == at = "scan" /\ p \in todo /\ \A q \in todo : p <= q

SeenDue(p) == Due(Seen(p).cron, Seen(p).last, tick)

NotDue(p) ==
  /\ Looks(p) /\ (expired => p \in pipes)
  /\ Seen(p).cron # {} /\ SeenDue(p) = {}
  /\ todo' = todo \ {p}
  /\ UNCHANGED <<now, pipes, schedule, last, active, at, tick, copy, expired, backdated, cur, slots, ran, crashes>>

\* Fault: last_scheduled_at is not committed before the launch.
ClaimUnsaved(p) ==
  /\ Looks(p) /\ p \in pipes /\ SeenDue(p) # {}
  /\ cur' = p /\ slots' = SeenDue(p)
  /\ todo' = todo \ {p}
  /\ expired' = TRUE
  /\ at' = "check"
  /\ UNCHANGED <<now, pipes, schedule, last, active, tick, copy, backdated, ran, crashes>>

\* p.last_scheduled_at = now; db.commit().
Claim(p) ==
  /\ Looks(p) /\ p \in pipes /\ SeenDue(p) # {}
  /\ last' = [last EXCEPT ![p] = tick]
  /\ cur' = p /\ slots' = SeenDue(p)
  /\ todo' = todo \ {p}
  /\ expired' = TRUE
  /\ at' = "check"
  /\ UNCHANGED <<now, pipes, schedule, active, tick, copy, backdated, ran, crashes>>

\* has_active_run(db, p.id)
SkipActive ==
  /\ at = "check" /\ cur \in pipes /\ active[cur] > 0
  /\ at' = "scan" /\ cur' = NoPipe /\ slots' = {}
  /\ UNCHANGED <<now, pipes, schedule, last, active, session, ran, crashes>>

FoundIdle ==
  /\ at = "check" /\ cur \in pipes /\ active[cur] = 0
  /\ at' = "launch"
  /\ UNCHANGED <<now, pipes, schedule, last, active, session, cur, slots, ran, crashes>>

\* launch_run inserts the row without looking at the pipeline again.
LaunchScheduled ==
  /\ at = "launch"
  /\ active' = [active EXCEPT ![cur] = @ + 1]
  /\ ran' = [ran EXCEPT ![cur] = @ \union slots]
  /\ at' = "scan" /\ cur' = NoPipe /\ slots' = {}
  /\ UNCHANGED <<now, pipes, schedule, last, session, crashes>>

\* What raises out of the loop: the session looks for a row that has been
\* deleted, or croniter for the next time of an expression that has none.
Raises ==
  \/ \E p \in todo :
       /\ Looks(p)
       /\ \/ p \notin pipes /\ (expired \/ SeenDue(p) # {})
          \/ (expired => p \in pipes) /\ Seen(p).cron = {}
  \/ at = "check" /\ cur \notin pipes

\* Fault: _loop does not catch the exception and the thread ends.
TickKillsThread ==
  /\ Raises
  /\ at' = "ended"
  /\ UNCHANGED <<now, pipes, schedule, last, active, session, cur, slots, ran, crashes>>

\* _loop logs the exception; the pipelines not looked at wait for the next tick.
TickFails ==
  /\ Raises
  /\ Sleep
  /\ UNCHANGED <<now, pipes, schedule, last, active, ran, crashes>>

EndTick ==
  /\ at = "scan" /\ todo = {}
  /\ Sleep
  /\ UNCHANGED <<now, pipes, schedule, last, active, ran, crashes>>

-----------------------------------------------------------------------------
(* Everybody else.                                                         *)

\* A request reads the row and the clock: the count is to start from now.
Reads(p, c, e) ==
  /\ p \in pipes /\ edits < MaxEdits
  /\ changes' = changes \union
       {[pipe |-> p, cron |-> c, enabled |-> e, at |-> now,
         \* its UPDATE sets what differs from the row it read
         newCron |-> c # cron[p], newEnabled |-> e # enabled[p]]}
  /\ edits' = edits + 1
  /\ UNCHANGED <<now, pipes, cron, enabled, last, active, at, session, cur, slots, ran, again, crashes>>

\* update_settings counts from now when the schedule changes, an import always.
ChangeSchedule(p, c, e) == <<c, e>> # <<cron[p], enabled[p]>> /\ Reads(p, c, e)
ImportSchedule(p, c, e) == Reads(p, c, e)

\* Its db.commit() writes the time it has read, whatever was claimed since.
CommitChange(ch) ==
  /\ ch \in changes /\ ch.pipe \in pipes
  /\ changes' = changes \ {ch}
  /\ cron' = [cron EXCEPT ![ch.pipe] = IF ch.newCron THEN ch.cron ELSE @]
  /\ enabled' = [enabled EXCEPT ![ch.pipe] = IF ch.newEnabled THEN ch.enabled ELSE @]
  /\ last' = [last EXCEPT ![ch.pipe] = ch.at]
  /\ again' = [again EXCEPT ![ch.pipe] = @ \union (ch.at + 1)..last[ch.pipe]]
  /\ backdated' = IF at # "sleep" /\ ch.at < tick THEN backdated \union {ch.pipe} ELSE backdated
  /\ UNCHANGED <<now, pipes, active, at, tick, todo, copy, expired, cur, slots, ran, edits, crashes>>

\* The commit fails, for a pipeline that has been deleted or a database that is busy.
DropChange(ch) ==
  /\ ch \in changes
  /\ changes' = changes \ {ch}
  /\ UNCHANGED <<now, pipes, cron, enabled, last, active, at, session, cur, slots, ran, again, edits, crashes>>

\* A webhook or a user launches a run; a run ends.
LaunchOther(p) ==
  /\ p \in pipes /\ active[p] < MaxActive
  /\ active' = [active EXCEPT ![p] = @ + 1]
  /\ UNCHANGED <<now, pipes, schedule, last, at, session, cur, slots, ran, crashes>>

RunEnds(p) ==
  /\ active[p] > 0
  /\ active' = [active EXCEPT ![p] = @ - 1]
  /\ UNCHANGED <<now, pipes, schedule, last, at, session, cur, slots, ran, crashes>>

DeletePipeline(p) ==
  /\ p \in pipes
  /\ pipes' = pipes \ {p}
  /\ active' = [active EXCEPT ![p] = 0]
  /\ UNCHANGED <<now, schedule, last, at, session, cur, slots, ran, crashes>>

Time ==
  /\ now < MaxTime
  /\ now' = now + 1
  /\ UNCHANGED <<pipes, schedule, last, active, at, session, cur, slots, ran, crashes>>

\* Crash and start-up: recovery fails every active row, then the scheduler starts.
Restart ==
  /\ crashes < MaxCrashes
  /\ crashes' = crashes + 1
  /\ active' = [p \in Pipes |-> 0]
  /\ changes' = {}
  /\ Sleep
  /\ UNCHANGED <<now, pipes, cron, enabled, edits, last, ran, again>>

-----------------------------------------------------------------------------
Init ==
  /\ now = 0
  /\ pipes = Pipes
  /\ cron \in [Pipes -> Crons]
  /\ enabled = [p \in Pipes |-> TRUE]
  /\ last = [p \in Pipes |-> 0]
  /\ active = [p \in Pipes |-> 0]
  /\ at = "sleep" /\ tick = 0 /\ todo = {} /\ expired = FALSE
  /\ copy = NoCopy
  /\ cur = NoPipe /\ slots = {}
  /\ changes = {} /\ backdated = {}
  /\ ran = [p \in Pipes |-> {}] /\ again = [p \in Pipes |-> {}]
  /\ edits = 0 /\ crashes = 0

Tick ==
  \/ BeginTick \/ EndTick \/ TickFails
  \/ SkipActive \/ FoundIdle \/ LaunchScheduled
  \/ \E p \in Pipes : NotDue(p) \/ Claim(p)

Next ==
  \/ Tick \/ Time \/ Restart
  \/ \E p \in Pipes : LaunchOther(p) \/ RunEnds(p) \/ DeletePipeline(p)
                        \/ \E c \in Crons, e \in BOOLEAN : ChangeSchedule(p, c, e) \/ ImportSchedule(p, c, e)
  \/ \E ch \in changes : CommitChange(ch) \/ DropChange(ch)

Spec == Init /\ [][Next]_vars

\* The thread wakes up every INTERVAL seconds for as long as the process runs.
FairSpec == Spec /\ WF_vars(Tick)

-----------------------------------------------------------------------------
Times == 0..MaxTime

TypeOK ==
  /\ now \in Times /\ tick \in Times
  /\ pipes \subseteq Pipes /\ todo \subseteq Pipes
  /\ cron \in [Pipes -> Crons] /\ enabled \in [Pipes -> BOOLEAN]
  /\ last \in [Pipes -> Times]
  /\ active \in [Pipes -> 0..MaxActive + 1]
  /\ at \in {"sleep", "scan", "check", "launch"}
  /\ copy \in [Pipes -> [cron : Crons \union {{}}, last : Times]]
  /\ expired \in BOOLEAN /\ backdated \subseteq Pipes
  /\ changes \subseteq [pipe : Pipes, cron : Crons, enabled : BOOLEAN, at : Times,
                         newCron : BOOLEAN, newEnabled : BOOLEAN]
  /\ cur \in Pipes \union {NoPipe} /\ (at \in {"check", "launch"} => cur \in Pipes)
  /\ slots \subseteq Times /\ \A p \in Pipes : ran[p] \union again[p] \subseteq Times
  /\ edits \in 0..MaxEdits /\ crashes \in 0..MaxCrashes

\* A cron time leads to at most one run, across crashes, restarts, schedule changes
\* and changes back: it is claimed durably before the launch.  The exception is a
\* cron time between the moment a change read the clock and a claim that was made
\* before the change was committed: the commit gives it back (update_settings).
OncePerSlot == [][LaunchScheduled => slots \intersect ran[cur] \subseteq again[cur]]_vars

IsDue(p) == p \in pipes /\ enabled[p] /\ Due(cron[p], last[p], now) # {}

\* Every tick stops short of p at an enabled pipeline whose expression has no next time.
Blocked(p) == \E q \in pipes : q < p /\ enabled[q] /\ cron[q] = {}

\* A due pipeline does not stay due: some tick claims it, even when other pipelines
\* are deleted under the tick and make it fail; but for a pipeline behind one whose
\* expression never fires, which makes every tick fail (Scheduler.tick).
DueIsServed == \A p \in Pipes : IsDue(p) ~> ~IsDue(p) \/ Blocked(p)

=============================================================================
