------------------------------ MODULE ShellStep ------------------------------
(***************************************************************************)
(* One local shell step (_step_shell and _kill_process_group,              *)
(* src/app/modules/pipeline_engine.py:373-427): the step's thread reads    *)
(* the command's output, a watchdog thread kills the command's process     *)
(* group on cancellation or timeout, and the group itself runs, forks,     *)
(* and dies.  The thread and the group meet only in the stdout pipe, which *)
(* every process of the group may hold, and in the exit of the leader, the *)
(* shell.                                                                  *)
(***************************************************************************)
EXTENDS Naturals, FiniteSets

CONSTANTS
  Procs,        \* the processes that may ever be in the group
  Leader,       \* the shell itself: proc.pid, the group's id
  OutputMayFail \* can reading or logging a line raise?

ASSUME LeaderAssumption == Leader \in Procs
ASSUME OutputMayFailAssumption == OutputMayFail \in BOOLEAN

VARIABLES
  alive,        \* processes of the group that run
  holding,      \* processes that have the stdout pipe open
  unborn,       \* processes not started yet
  stubborn,     \* those that ignore SIGTERM, whenever they are started
  code,         \* the leader's exit status: "none", "zero", "nonzero", "signal"
  reader,       \* the step's thread: "start", "reading", "waiting", "left"
  outcome,      \* how the thread left the step
  watchdog,     \* "off", "poll", "wait", "kill", "grace", "ended"
  reason,       \* stopped.get("reason")
  cancel,       \* ctx.cancel_event
  late          \* the deadline has passed

vars == <<alive, holding, unborn, stubborn, code, reader, outcome, watchdog, reason, cancel, late>>
group == <<alive, holding, unborn, stubborn, code>>
threads == <<reader, outcome, watchdog, reason>>

Init ==
  /\ alive = {} /\ holding = {} /\ unborn = Procs
  /\ stubborn \in SUBSET Procs
  /\ code = "none"
  /\ reader = "start" /\ outcome = "none"
  /\ watchdog = "off" /\ reason = "none"
  /\ cancel = FALSE /\ late = FALSE

-----------------------------------------------------------------------------
(* The process group: the operating system and whatever the command does.  *)

\* A process starts another one, which inherits the pipe unless redirected.
Fork(k) ==
  /\ alive # {} /\ k \in unborn \ {Leader}
  /\ alive' = alive \union {k}
  /\ unborn' = unborn \ {k}
  /\ \/ holding' = holding
     \/ holding # {} /\ holding' = holding \union {k}
  /\ UNCHANGED <<stubborn, code, threads, cancel, late>>

Die(ks, c) ==
  /\ alive' = alive \ ks
  /\ holding' = holding \ ks
  /\ code' = IF Leader \in ks THEN c ELSE code

Exit(k) ==
  /\ k \in alive
  /\ \E c \in {"zero", "nonzero"} : Die({k}, c)
  /\ UNCHANGED <<unborn, stubborn, threads, cancel, late>>

\* A running process closes the pipe (`exec >/dev/null`).
Redirect(k) ==
  /\ k \in holding
  /\ holding' = holding \ {k}
  /\ UNCHANGED <<alive, unborn, stubborn, code, threads, cancel, late>>

-----------------------------------------------------------------------------
(* The step's thread.                                                      *)

\* ctx.log checks the event, Popen starts the shell in its own session, and
\* the watchdog thread is started.
Spawn ==
  /\ reader = "start"
  /\ IF cancel
       THEN /\ reader' = "left" /\ outcome' = "cancelled"
            /\ UNCHANGED <<group, watchdog>>
       ELSE /\ alive' = {Leader} /\ holding' = {Leader} /\ unborn' = unborn \ {Leader}
            /\ reader' = "reading" /\ watchdog' = "poll"
            /\ UNCHANGED <<stubborn, code, outcome>>
  /\ UNCHANGED <<reason, cancel, late>>

\* ctx.log's flush or Popen raises (no such cwd): nothing was started.
SpawnFails ==
  /\ reader = "start"
  /\ reader' = "left" /\ outcome' = "broken"
  /\ UNCHANGED <<group, watchdog, reason, cancel, late>>

\* A line is not valid UTF-8 (text=True), or ctx.output flushes the log and
\* the database raises: the exception leaves the loop, past proc.wait().
OutputFails ==
  /\ OutputMayFail /\ reader = "reading"
  /\ reader' = "left" /\ outcome' = "broken"
  /\ UNCHANGED <<group, watchdog, reason, cancel, late>>

\* End of file: nobody holds the pipe any more.
ReadToEnd ==
  /\ reader = "reading" /\ holding = {}
  /\ reader' = "waiting"
  /\ UNCHANGED <<group, outcome, watchdog, reason, cancel, late>>

\* Fault: no proc.wait().
FinishAtEof ==
  /\ reader = "waiting"
  /\ reader' = "left"
  /\ outcome' = IF reason # "none" THEN reason ELSE IF code = "zero" THEN "ok" ELSE "exited"
  /\ UNCHANGED <<group, watchdog, reason, cancel, late>>

\* proc.wait() returned; the reason decides, then the exit status.
Finish ==
  /\ reader = "waiting" /\ Leader \notin alive
  /\ reader' = "left"
  /\ outcome' = IF reason # "none" THEN reason ELSE IF code = "zero" THEN "ok" ELSE "exited"
  /\ UNCHANGED <<group, watchdog, reason, cancel, late>>

-----------------------------------------------------------------------------
(* The watchdog thread.                                                    *)

Poll ==
  /\ watchdog = "poll"
  /\ watchdog' = IF Leader \in alive THEN "wait" ELSE "ended"
  /\ UNCHANGED <<group, reader, outcome, reason, cancel, late>>

\* Fault: stopped["reason"] is set after the kill, too late for Finish.
WaitNoReason ==
  /\ watchdog = "wait"
  /\ watchdog' = IF cancel \/ late THEN "kill" ELSE "poll"
  /\ UNCHANGED <<group, reader, outcome, reason, cancel, late>>

\* cancel_event.wait(0.5), then the deadline.
Wait ==
  /\ watchdog = "wait"
  /\ reason' = IF cancel THEN "cancelled" ELSE IF late THEN "timeout" ELSE reason
  /\ watchdog' = IF cancel \/ late THEN "kill" ELSE "poll"
  /\ UNCHANGED <<group, reader, outcome, cancel, late>>

\* Fault: proc.terminate() in place of os.killpg.
TerminateLeader ==
  /\ watchdog = "kill"
  /\ Die({Leader} \ stubborn, "signal")
  /\ watchdog' = IF alive = {} THEN "ended" ELSE "grace"
  /\ UNCHANGED <<unborn, stubborn, reader, outcome, reason, cancel, late>>

\* os.killpg(SIGTERM), to whatever is left of the group.
Terminate ==
  /\ watchdog = "kill"
  /\ Die(alive \ stubborn, "signal")
  /\ watchdog' = IF alive = {} THEN "ended" ELSE "grace"
  /\ UNCHANGED <<unborn, stubborn, reader, outcome, reason, cancel, late>>

\* proc.wait(timeout=5) returned: the leader is dead.
LeaderGone ==
  /\ watchdog = "grace" /\ Leader \notin alive
  /\ watchdog' = "ended"
  /\ UNCHANGED <<group, reader, outcome, reason, cancel, late>>

\* Fault: no SIGKILL after the grace period.
GiveUp ==
  /\ watchdog = "grace" /\ Leader \in alive
  /\ watchdog' = "ended"
  /\ UNCHANGED <<group, reader, outcome, reason, cancel, late>>

\* It raised TimeoutExpired: SIGKILL for the whole group.
KillGroup ==
  /\ watchdog = "grace" /\ Leader \in alive
  /\ Die(alive, "signal")
  /\ watchdog' = "ended"
  /\ UNCHANGED <<unborn, stubborn, reader, outcome, reason, cancel, late>>

-----------------------------------------------------------------------------
\* cancel_run sets the event; time passes.
Cancel == ~cancel /\ cancel' = TRUE /\ UNCHANGED <<group, threads, late>>
Deadline == reader # "start" /\ ~late /\ late' = TRUE /\ UNCHANGED <<group, threads, cancel>>

Reader == Spawn \/ ReadToEnd \/ Finish
Watchdog == Poll \/ Wait \/ Terminate \/ LeaderGone \/ KillGroup

Next ==
  \/ \E k \in Procs : Fork(k) \/ Exit(k) \/ Redirect(k)
  \/ Reader \/ SpawnFails \/ OutputFails \/ Watchdog
  \/ Cancel \/ Deadline

\* Both threads are scheduled; the command itself need never do anything.
Spec == Init /\ [][Next]_vars /\ WF_vars(Reader) /\ WF_vars(Watchdog)

\* The timeout is real: the deadline comes.
TimedSpec == Spec /\ WF_vars(Deadline)

-----------------------------------------------------------------------------
TypeOK ==
  /\ alive \subseteq Procs /\ holding \subseteq alive /\ unborn \subseteq Procs \ alive
  /\ stubborn \subseteq Procs
  /\ code \in {"none", "zero", "nonzero", "signal"}
  /\ reader \in {"start", "reading", "waiting", "left"}
  /\ outcome \in {"none", "cancelled", "timeout", "broken", "ok", "exited"}
  /\ watchdog \in {"off", "poll", "wait", "kill", "grace", "ended"}
  /\ reason \in {"none", "cancelled", "timeout"}
  /\ cancel \in BOOLEAN /\ late \in BOOLEAN

\* A command the watchdog killed is reported as cancelled or timed out, never
\* as one that failed by itself: stopped["reason"] is set before the signal.
KillIsExplained ==
  code = "signal" /\ outcome \notin {"none", "broken"} => outcome \in {"cancelled", "timeout"}

\* A step that ended by reading its command's output to the end leaves no
\* shell behind (proc.wait()), and its exit status is the one reported.
ShellIsReaped ==
  outcome \notin {"none", "broken"} => Leader \notin alive /\ (outcome = "ok" => code = "zero")

\* Cancelling stops the shell, even one that ignores SIGTERM, and even when
\* the step's thread has left with an exception.
CancelStopsShell == cancel /\ Leader \in alive ~> Leader \notin alive

\* When no process resists SIGTERM, a cancelled or timed out step is rid of
\* its whole group: the signal goes to the group, not to the shell.
GroupDies == stubborn = {} /\ outcome \in {"cancelled", "timeout"} ~> alive = {}

=============================================================================
