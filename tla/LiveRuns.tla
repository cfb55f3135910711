------------------------------- MODULE LiveRuns -------------------------------
(***************************************************************************)
(* One run as its worker executes it and a browser watches it: a pipeline  *)
(* run (RunContext, the step executors and _run_steps of src/app/modules/  *)
(* pipeline_engine.py) or an Ansible run (src/app/modules/ansible_mgr.py), *)
(* with the page that polls its log, cancellation, a restart of the        *)
(* cockpit and re-runs.                                                    *)
(*                                                                         *)
(* A log only grows, so it is the number of its lines; framing lines that  *)
(* follow each other count as one.  The worker's buffer has written lines, *)
(* the first saved of them are in the row.  A commit may fail, and a run   *)
(* may be deleted with its pipeline.  Locks, reused ids and shells that    *)
(* outlive their run are in PipelineRuns and ShellStep.                    *)
(***************************************************************************)
EXTENDS Naturals, Sequences

CONSTANTS
  MaxSteps,    \* bound: steps of the pipeline
  MaxText,     \* bound: commands print no more when the log has so many lines
  MaxCrashes,  \* bound: restarts of the cockpit
  MaxRuns      \* bound: a run and its re-runs

ASSUME BoundsAssumption ==
  MaxSteps \in Nat /\ MaxText \in Nat /\ MaxCrashes \in Nat /\ MaxRuns \in Nat

\* A variable that the user may override, and the one that git_pull sets.
Names == {"TAG", "GIT_COMMIT"}

\* The page counts in other units than the server: a character outside the BMP
\* twice, and the carriage return of a line end, which HTML drops, not at all.
\* At most one line is odd like that, and it makes the offset wrong by one.
NoOdd == [line |-> 0, page |-> 1]

VARIABLES
  kind,        \* "pipeline" or "ansible"
  trigger,     \* "manual", "rerun" or "webhook"
  status,      \* row: status
  saved,       \* row: length of log_text
  given,       \* row: vars_json when the run was launched, 0 for a missing name
  final,       \* row: vars_json
  written,     \* the worker's buffer: lines
  odd,         \* the odd line, and the units it has in the page
  vars,        \* the worker's variables; 2 was set by a step
  outcome,     \* the status of the worker's object
  pc, step,    \* where the worker is, and in which step
  cmd,         \* the command of the step
  cancel,      \* the run's cancel event
  runDir,      \* does the inventory with the decrypted keys exist?
  page,        \* the page of the run
  up, crashes, runsLeft,
  lost,        \* "no", "commit": a commit of the worker has failed, "row": the run was deleted
  left,        \* history: the steps whose commands were not waited for
  marked,      \* history: cancelled before the event was registered
  leftBehind   \* history: the cockpit died during a playbook

row == <<kind, trigger, given, final, runsLeft>>
worker == <<vars, outcome, pc, step, cmd, left, runDir, leftBehind>>
allVars == <<kind, trigger, status, saved, given, final, written, odd, vars, outcome, pc, step, cmd, cancel,
             runDir, page, up, crashes, runsLeft, lost, left, marked, leftBehind>>

Active == {"queued", "running"}
NoStep == [n |-> 0, kind |-> "none", cont |-> FALSE]
NoPage == [at |-> "closed", shown |-> <<>>, offset |-> 0, odd |-> FALSE]

Others == <<row, cancel, page, up, crashes, lost, marked>>

-----------------------------------------------------------------------------
(* RunContext: the log and the variables of a run.                         *)

\* write: append to the buffer; every half second the buffer and the status
\* go to the row.
Write(st) ==
  /\ written' = written + 1
  /\ \/ saved' = written' /\ status' = st
     \/ UNCHANGED <<saved, status>>

\* Once the page is open it makes no difference which lines are odd.
MaybeOdd == IF odd = NoOdd /\ page.at = "closed"
            THEN odd' \in {NoOdd} \union [line : {written'}, page : {0, 2}]
            ELSE UNCHANGED odd

\* output: any line of a command may be a ::set.
Sets(n, v) == vars' \in {vars, [vars EXCEPT ![n] = v]}

\* Fault: the status is committed before the last line is written.
ConcludeEarly(o) ==
  /\ pc' = "final" /\ outcome' = o /\ step' = NoStep /\ cmd' = "none"
  /\ status' = o /\ written' = written + 1
  /\ UNCHANGED <<saved, odd, vars, runDir, leftBehind>>

\* The run is over: its last line is written with the status it ends with.
Conclude(o) ==
  /\ pc' = "final" /\ outcome' = o /\ step' = NoStep /\ cmd' = "none"
  /\ Write(o)
  /\ UNCHANGED <<odd, vars, runDir, leftBehind>>

Leave == left' = left \union {[kind |-> step.kind, cont |-> step.cont]}

NextStep ==
  /\ pc' = "head" /\ step' = [NoStep EXCEPT !.n = step.n] /\ cmd' = "none"
  /\ Write("running")
  /\ UNCHANGED <<odd, outcome, runDir, leftBehind>>

StepOk == NextStep /\ UNCHANGED vars

\* A step failed; the next one follows if the step continues on errors.
StepFails == IF step.cont THEN StepOk ELSE Conclude("failed")

\* Its command has ended, unless it was killed because of a cancellation.
StepEnds ==
  CASE cmd = "ok" -> StepOk
    [] cmd = "bad" -> StepFails
    [] cmd = "killed" -> Conclude("cancelled")

-----------------------------------------------------------------------------
(* _execute and _run_steps.                                                *)

\* The thread ends, and with it its memory; its event is forgotten.
Ends ==
  /\ pc' = "gone" /\ step' = NoStep /\ cmd' = "none"
  /\ vars' = given /\ outcome' = "queued" /\ cancel' = FALSE

Register ==
  /\ pc = "launched"
  /\ pc' = "queued"
  /\ UNCHANGED <<Others, status, saved, written, odd, vars, outcome, step, cmd, left, runDir, leftBehind>>

CancelWhileQueued ==
  /\ pc = "queued" /\ cancel
  /\ Ends /\ status' = "cancelled"
  /\ written' = written + 1 /\ saved' = written'
  /\ UNCHANGED <<row, page, up, crashes, lost, marked, odd, left, runDir, leftBehind>>

Start ==
  /\ pc = "queued"
  /\ pc' = "head" /\ outcome' = "running" /\ vars' = given
  /\ status' = "running"
  /\ written' = written + 1 /\ saved' \in {saved, written'}
  /\ UNCHANGED <<Others, odd, step, cmd, left, runDir, leftBehind>>

\* cli: commands of the cockpit's own host that have a time limit (stack_deploy,
\* compose_up, k8s_apply, scripts of a local clone); ssh: what a server runs;
\* request: k8s_rollout_restart.
StepKinds == {"shell", "docker", "cli", "pull", "ssh", "jenkins", "request"}

\* check, the framing lines, and the step's own check before its command.
BeginStep(k, cont) ==
  /\ pc = "head" /\ ~cancel /\ step.n < MaxSteps
  /\ pc' = "framed" /\ step' = [n |-> step.n + 1, kind |-> k, cont |-> cont]
  /\ Write("running")
  /\ UNCHANGED <<Others, odd, vars, outcome, cmd, left, runDir, leftBehind>>

\* The first line of the step's executor checks for a cancellation, after it
\* has looked up what the step names.
StartCommand ==
  /\ pc = "framed" /\ ~cancel
  /\ pc' = "running" /\ cmd' = "running"
  /\ UNCHANGED <<Others, status, saved, written, odd, vars, outcome, step, left, runDir, leftBehind>>

RefuseStep == pc = "framed" /\ StepFails /\ UNCHANGED <<Others, left>>

NoticeCancel ==
  /\ pc \in {"head", "framed", "printed"} /\ cancel
  /\ Conclude("cancelled")
  /\ UNCHANGED <<Others, left>>

NoMoreSteps ==
  /\ pc = "head" /\ ~cancel
  /\ Conclude("success")
  /\ UNCHANGED <<Others, left>>

\* The last flush, with finished_at and the variables.
Finish ==
  /\ pc = "final"
  /\ Ends /\ status' = outcome /\ saved' = written /\ final' = vars
  /\ UNCHANGED <<kind, trigger, given, runsLeft, page, up, crashes, lost, marked>>
  /\ UNCHANGED <<written, odd, left, runDir, leftBehind>>

\* The worker ends without another change of the row, whose status is the one
\* that was committed last.
Vanish ==
  /\ Ends /\ written' = saved
  /\ odd' = IF odd.line > saved THEN NoOdd ELSE odd
  /\ UNCHANGED <<row, status, saved, page, up, crashes, left, runDir, marked, leftBehind>>

\* A commit fails ("database is locked"), and so does the last flush, in the
\* same session; _execute logs the exception and forgets the event.
CommitFails ==
  /\ pc \in {"queued", "head", "framed", "running", "printed", "final"}
  /\ Vanish /\ lost' = "commit"

\* delete_pipeline: the row is gone, so whatever the worker still does is not
\* seen.  Bound: a page is watching; otherwise nothing would be left to see.
Delete ==
  /\ up /\ kind = "pipeline" /\ lost # "row" /\ page.at = "polling"
  /\ Vanish /\ lost' = "row"

-----------------------------------------------------------------------------
(* The step executors.                                                     *)

CommandEnds(result) ==
  /\ pc = "running" /\ cmd = "running"
  /\ cmd' = result
  /\ UNCHANGED <<Others, status, saved, written, odd, vars, outcome, pc, step, left, runDir, leftBehind>>

\* shell: lines are logged as they come, without a check.
ShellPrints ==
  /\ pc = "running" /\ step.kind = "shell" /\ written < MaxText
  /\ Write("running") /\ MaybeOdd /\ Sets("TAG", 2)
  /\ UNCHANGED <<Others, outcome, pc, step, cmd, left, runDir, leftBehind>>

\* The watchdog kills the shell after a cancellation or the timeout.
KillShell ==
  /\ pc = "running" /\ step.kind = "shell" /\ cmd = "running"
  /\ cmd' = IF cancel THEN "killed" ELSE "bad"
  /\ UNCHANGED <<Others, status, saved, written, odd, vars, outcome, pc, step, left, runDir, leftBehind>>

\* docker_build, docker_push: every line is logged after a check.
DockerPrints ==
  /\ pc = "running" /\ step.kind = "docker" /\ ~cancel /\ written < MaxText
  /\ Write("running") /\ MaybeOdd
  /\ UNCHANGED <<Others, vars, outcome, pc, step, cmd, left, runDir, leftBehind>>

DockerCancelled ==
  /\ pc = "running" /\ step.kind = "docker" /\ cancel
  /\ Conclude("cancelled")
  /\ IF cmd = "running" THEN Leave ELSE UNCHANGED left
  /\ UNCHANGED Others

\* The end of a shell, and of a build or push whose last lines were logged.
StreamEnds ==
  /\ pc = "running" /\ step.kind \in {"shell", "docker"} /\ cmd # "running"
  /\ StepEnds
  /\ UNCHANGED <<Others, left>>

\* The others log the output when the command has ended, and then check; a
\* command without output ends without a check.  A pull that fails has none.
Batch == {"cli", "pull", "ssh"}

BatchPrints ==
  /\ pc = "running" /\ step.kind \in Batch /\ cmd # "running" /\ (step.kind = "pull" => cmd = "ok")
  /\ pc' = "printed" /\ Write("running") /\ MaybeOdd
  /\ IF step.kind = "pull" THEN UNCHANGED vars ELSE Sets("TAG", 2)
  /\ UNCHANGED <<Others, outcome, step, cmd, left, runDir, leftBehind>>

BatchSilent ==
  /\ pc = "running" /\ step.kind \in Batch /\ cmd # "running" /\ (step.kind = "pull" => cmd = "bad")
  /\ StepEnds
  /\ UNCHANGED <<Others, left>>

\* git_pull goes on to record the commit, also when it fails to read it.
BatchChecked ==
  /\ pc = "printed" /\ ~cancel
  /\ IF step.kind = "pull"
       THEN /\ Sets("GIT_COMMIT", 2)
            /\ NextStep
       ELSE StepEnds
  /\ UNCHANGED <<Others, left>>

\* Fault: what was printed until then is taken for the result.
StepRaisesOk ==
  /\ pc = "running"
  /\ StepOk
  /\ IF cmd = "running" THEN Leave ELSE UNCHANGED left
  /\ UNCHANGED Others

\* The step raises, whatever its command does: a line or an answer that cannot
\* be decoded, a time limit (subprocess.run, run_command), a lost connection.
\* It does not stop the command, or only the shell or client it has started.
StepRaises ==
  /\ pc = "running"
  /\ StepFails
  /\ IF cmd = "running" THEN Leave ELSE UNCHANGED left
  /\ UNCHANGED Others

\* A Jenkins build that does not start in 30 s or end in 10 min is not waited
\* for; one that is cancelled here goes on at Jenkins.
JenkinsGivesUp ==
  /\ pc = "running" /\ step.kind = "jenkins" /\ cmd = "running"
  /\ IF cancel THEN Conclude("cancelled") ELSE StepOk
  /\ Leave
  /\ UNCHANGED Others

\* The result is logged after a check; a failed request has none.
RequestEnds ==
  /\ pc = "running" /\ step.kind \in {"jenkins", "request"} /\ cmd # "running"
  /\ IF cancel /\ (step.kind = "request" => cmd = "ok") THEN Conclude("cancelled") ELSE StepEnds
  /\ UNCHANGED <<Others, left>>

-----------------------------------------------------------------------------
(* Ansible: every line is committed; only an AnsibleError sets a status.   *)

\* execute_run up to the start of ansible-playbook: inventory and keys are
\* written to a directory of their own.
StartPlaybook ==
  /\ pc = "scheduled"
  /\ pc' = "playing" /\ runDir' = TRUE
  /\ written' = written + 1 /\ saved' = written'
  /\ UNCHANGED <<Others, odd, status, vars, outcome, step, cmd, left, leftBehind>>

PlaybookPrints ==
  /\ pc = "playing" /\ written < MaxText
  /\ written' = written + 1 /\ saved' = written' /\ MaybeOdd
  /\ UNCHANGED <<Others, status, worker>>

\* Fault: the keys are removed after a success only.
PlaybookEndsDirty(o) ==
  /\ pc = "playing" \/ (pc = "scheduled" /\ o = "failed")
  /\ pc' = "gone" /\ runDir' = (runDir /\ o # "success") /\ status' = o
  /\ written' = written + 1 /\ saved' = written'
  /\ UNCHANGED <<Others, odd, vars, outcome, step, cmd, left, leftBehind>>

\* No server matches, or the playbook ended.
PlaybookEnds(o) ==
  /\ pc = "playing" \/ (pc = "scheduled" /\ o = "failed")
  /\ pc' = "gone" /\ runDir' = FALSE /\ status' = o
  /\ written' = written + 1 /\ saved' = written'
  /\ UNCHANGED <<Others, odd, vars, outcome, step, cmd, left, leftBehind>>

\* Any other exception ends the task and leaves the status.
PlaybookRaises ==
  /\ pc \in {"scheduled", "playing"}
  /\ pc' = "gone" /\ runDir' = FALSE
  /\ UNCHANGED <<Others, status, saved, written, odd, vars, outcome, step, cmd, left, leftBehind>>

-----------------------------------------------------------------------------
(* Cancellation, restarts, re-runs.                                        *)

\* cancel_run: the event, or the row when there is none.
Cancel ==
  /\ up /\ kind = "pipeline" /\ status \in Active /\ lost # "row"
  /\ IF pc \in {"launched", "gone"}
       THEN /\ status' = "cancelled" /\ UNCHANGED cancel
            /\ marked' = IF pc = "launched" THEN TRUE ELSE marked
       ELSE cancel' = TRUE /\ UNCHANGED <<status, marked>>
  /\ UNCHANGED <<row, worker, saved, written, odd, page, up, crashes, lost>>

Crash ==
  /\ up /\ crashes < MaxCrashes
  /\ up' = FALSE /\ crashes' = crashes + 1
  /\ written' = saved /\ odd' = IF odd.line > saved THEN NoOdd ELSE odd
  /\ Ends
  /\ leftBehind' = (leftBehind \/ pc = "playing")
  /\ UNCHANGED <<row, status, saved, left, runDir, page, lost, marked>>

\* Fault: runs that were queued when the cockpit died are not ended.
RestartForgets ==
  /\ ~up
  /\ up' = TRUE
  /\ IF kind = "pipeline" /\ status = "running" /\ lost # "row"
       THEN status' = "failed" /\ lost' = "no" /\ written' = written + 1 /\ saved' = written'
       ELSE UNCHANGED <<status, lost, written, saved>>
  /\ UNCHANGED <<row, worker, odd, cancel, page, crashes, marked>>

\* Start-up, with recover_interrupted_runs, which knows only pipelines.
Restart ==
  /\ ~up
  /\ up' = TRUE
  /\ IF kind = "pipeline" /\ status \in Active /\ lost # "row"
       THEN status' = "failed" /\ lost' = "no" /\ written' = written + 1 /\ saved' = written'
       ELSE UNCHANGED <<status, lost, written, saved>>
  /\ UNCHANGED <<row, worker, odd, cancel, page, crashes, marked>>

\* The names in the trigger_info of a run with overrides.
Overridden == IF trigger = "manual" THEN {n \in Names : given[n] # 0} ELSE {}

\* Fault: a re-run gets all the variables that the run ended with.
AllFinal == final

NewOverrides == [n \in Names |-> IF n \in Overridden THEN final[n] ELSE 0]

\* pipeline_run_rerun: a new row, with its own page.
Rerun ==
  /\ up /\ kind = "pipeline" /\ pc = "gone" /\ lost # "row" /\ runsLeft > 0
  /\ runsLeft' = runsLeft - 1 /\ lost' = "no"
  /\ trigger' = "rerun" /\ given' = NewOverrides /\ final' = NewOverrides
  /\ status' = "queued" /\ saved' = 0 /\ written' = 0 /\ odd' = NoOdd /\ pc' = "launched"
  /\ vars' = NewOverrides /\ outcome' = "queued" /\ step' = NoStep /\ cmd' = "none" /\ left' = {}
  /\ cancel' = FALSE /\ page' = NoPage /\ marked' = FALSE
  /\ UNCHANGED <<kind, runDir, up, crashes, leftBehind>>

-----------------------------------------------------------------------------
(* The page.                                                               *)

Width(n) == IF odd.line \in 1..n THEN n - 1 + odd.page ELSE n
Positions(a, b) == [i \in 1..(b - a) |-> a + i]

\* run.html: the log so far is part of the page, and its length in the
\* browser is the first offset.  odd is history: did the log contain a
\* character that the browser counts differently?
Open ==
  /\ up /\ page.at = "closed" /\ trigger # "rerun"   \* bound: its page is like the first one's
  /\ page' = [at |-> IF status \in Active THEN "polling" ELSE "stopped",
              shown |-> Positions(0, saved), offset |-> Width(saved),
              odd |-> kind = "pipeline" /\ odd.line \in 1..saved]
  /\ odd' = NoOdd
  /\ UNCHANGED <<row, worker, status, saved, written, cancel, up, crashes, lost, marked>>

\* Fault: the offset does not follow what the page shows.
PollAgain ==
  /\ up /\ page.at = "polling"
  /\ page' = [page EXCEPT !.at = IF status \in Active THEN "polling" ELSE "stopped",
                          !.shown = IF kind = "ansible" THEN Positions(0, saved)
                                    ELSE page.shown \o Positions(page.offset, saved)]
  /\ UNCHANGED <<row, worker, status, saved, written, odd, cancel, up, crashes, lost, marked>>

\* pipeline_run_status answers with the rest of the log, or with all of it
\* when the offset is not one; ansible_run_status always with all of it.
Poll ==
  /\ up /\ page.at = "polling" /\ lost # "row"
  /\ page' = [page EXCEPT !.at = IF status \in Active THEN "polling" ELSE "stopped",
                          !.shown = IF kind = "ansible" \/ page.offset > saved THEN Positions(0, saved)
                                    ELSE page.shown \o Positions(page.offset, saved),
                          !.offset = saved]
  /\ UNCHANGED <<row, worker, status, saved, written, odd, cancel, up, crashes, lost, marked>>

\* No answer, or a 404: the page of a pipeline run tries again, the other one stops.
PollFails ==
  /\ page.at = "polling" /\ kind = "ansible"
  /\ page' = [page EXCEPT !.at = "lost"]
  /\ UNCHANGED <<row, worker, status, saved, written, odd, cancel, up, crashes, lost, marked>>

-----------------------------------------------------------------------------
\* A run that was launched by hand, with a variable or without, or by a push,
\* or an Ansible run that start_run has committed.
Init ==
  /\ kind \in {"pipeline", "ansible"}
  /\ trigger \in IF kind = "pipeline" THEN {"manual", "webhook"} ELSE {"manual"}
  /\ given \in {[n \in Names |-> IF n \in S THEN 1 ELSE 0] : S \in SUBSET Names}
  /\ given["TAG"] = 1 => kind = "pipeline" /\ trigger = "manual"
  /\ given["GIT_COMMIT"] = 1 <=> trigger = "webhook"
  /\ final = given /\ vars = given
  /\ status = (IF kind = "pipeline" THEN "queued" ELSE "running")
  /\ pc = (IF kind = "pipeline" THEN "launched" ELSE "scheduled")
  /\ saved = 0 /\ written = 0 /\ odd = NoOdd /\ outcome = status
  /\ step = NoStep /\ cmd = "none" /\ cancel = FALSE /\ runDir = FALSE
  /\ page = NoPage /\ up = TRUE /\ crashes = 0 /\ runsLeft = MaxRuns /\ lost = "no"
  /\ left = {} /\ marked = FALSE /\ leftBehind = FALSE

\* Commands end, or are not waited for.
CommandSteps ==
  \/ \E r \in {"ok", "bad"} : CommandEnds(r)
  \/ KillShell \/ StepRaises \/ JenkinsGivesUp

WorkerSteps ==
  \/ Register \/ CancelWhileQueued \/ Start
  \/ \E k \in StepKinds, cont \in BOOLEAN : BeginStep(k, cont)
  \/ StartCommand \/ RefuseStep \/ NoticeCancel \/ NoMoreSteps \/ Finish
  \/ BatchPrints \/ DockerCancelled \/ StreamEnds \/ BatchSilent \/ BatchChecked \/ RequestEnds

Prints == ShellPrints \/ DockerPrints \/ PlaybookPrints

PlaybookSteps == StartPlaybook \/ (\E o \in {"success", "failed"} : PlaybookEnds(o)) \/ PlaybookRaises

Next ==
  \/ CommandSteps \/ WorkerSteps \/ Prints \/ PlaybookSteps
  \/ Cancel \/ CommitFails \/ Delete \/ Crash \/ Restart \/ Rerun
  \/ Open \/ Poll \/ PollFails

Spec == Init /\ [][Next]_allVars

\* What a worker waits for without a limit: the lock, while another run has it;
\* a pull, a build or push, a server, Jenkins or Kubernetes, which all may stay
\* silent; and the end of a shell's output, while a process it left behind
\* holds the pipe.
Waiting ==
  \/ pc = "queued" /\ ~cancel
  \/ pc = "running" /\ IF cmd = "running" THEN step.kind \notin {"shell", "cli"} ELSE step.kind = "shell"

\* Threads go on, and so do commands with a time limit; the cockpit is started
\* again (systemd and Docker do it), and a page that is open keeps asking.
\* Nothing is assumed of playbooks, which have no limit.
FairSpec ==
  /\ Spec
  /\ WF_allVars((CommandSteps \/ WorkerSteps) /\ ~Waiting) /\ WF_allVars(Restart) /\ WF_allVars(Poll)

-----------------------------------------------------------------------------
\* When a page stops polling it shows the whole log, each character once and
\* in order (run.html, pipeline_run_status), whatever was flushed when and
\* wherever the cockpit was restarted.  Two exceptions: a run that was marked
\* cancelled before its launch was registered and starts nevertheless, and a
\* log that contained an odd character when the page was opened.
PageEndsComplete ==
  page.at = "stopped" /\ ~marked /\ ~page.odd =>
    page.shown = Positions(0, written)

\* A run that succeeded has waited for every command it started, except for
\* Jenkins builds and for the commands of steps that failed and were allowed to.
SuccessAwaitsCommands ==
  status = "success" => \A s \in left : s.kind = "jenkins" \/ s.cont

\* A re-run gets the variables that the run was given by hand, and no other:
\* not the commit that it pulled.  Only what a step has set in the meantime
\* replaces what was given.
RerunRepeats ==
  [][Rerun => \A n \in Names : IF n \notin Overridden THEN given'[n] = 0
                               ELSE given'[n] \in {given[n], 2}]_allVars

\* Decrypted keys stay in the data directory only if the cockpit was stopped
\* in the middle of a playbook.
KeysAreCleared == runDir => pc = "playing" \/ leftBehind

\* The page as a reader of the saved log.  A page that misses an answer for
\* good, and the two exceptions of PageEndsComplete, have left.
Gone == page.at # "closed" /\ (page.at = "lost" \/ page.odd \/ marked)

Reader == IF page.at = "closed" THEN "away" ELSE IF Gone THEN "left" ELSE page.at
Shown == IF Gone THEN <<>> ELSE page.shown
IsOver == status \notin Active /\ ~marked

Stream == INSTANCE LogStream WITH length <- saved, over <- IsOver, reader <- Reader, shown <- Shown

\* The page is always a growing prefix of the log, whatever the worker has
\* flushed and wherever offset and log were counted, and it stops exactly when
\* it has the log of a run that is over; such a log never changes again.
ImplementsStream == Stream!Spec

\* A page of a pipeline run polls for ever only if from some moment on the run
\* waits for something that has no time limit, or its worker's commit failed
\* and nobody has cancelled the run or restarted the cockpit since, or it was
\* deleted: the run ends, or the next start of the cockpit ends it.
PollingEnds == <>[](kind = "pipeline" /\ page.at = "polling") => <>[](Waiting \/ lost # "no")

=============================================================================
