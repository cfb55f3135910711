---------------------------- MODULE LiveRunsProofs ----------------------------
(***************************************************************************)
(* Proofs about LiveRuns, for any number of steps, lines, restarts and     *)
(* re-runs: what a success has waited for, what a page shows when it stops *)
(* asking, that decrypted keys are removed, what a re-run is given, that   *)
(* the page implements LogStream, and that a run moves on to its end.      *)
(***************************************************************************)
EXTENDS LiveRuns, SequenceTheorems, TLAPS

Ended == {"success", "failed", "cancelled"}

\* The log and the status as a step of the worker leaves them.  What is saved
\* is a part of what is written, and all of it once the worker is gone; only
\* the worker of a pipeline run has anything that is not saved.
LogInv ==
  /\ kind \in {"pipeline", "ansible"}
  /\ saved \in Nat /\ written \in Nat /\ saved <= written /\ odd \in [line : Nat, page : 0..2]
  /\ pc = "gone" => saved = written
  /\ kind = "ansible" => saved = written /\ pc \in {"scheduled", "playing", "gone"}
  /\ kind = "pipeline" => pc \notin {"scheduled", "playing"}
  /\ ~up => pc = "gone"
  /\ pc = "running" => cmd \in {"running", "ok", "bad", "killed"}
  /\ pc = "printed" => cmd \in {"ok", "bad", "killed"}

\* A run that is over stays over, and its log is complete, unless it was
\* marked cancelled before its event was registered.
EndInv ==
  /\ status \in Active \union Ended
  /\ pc = "final" => outcome \in Ended
  /\ status = "success" => pc \in {"final", "gone"}
  /\ status \in Ended /\ ~marked => pc = "gone" \/ (pc = "final" /\ saved = written)
  /\ kind = "ansible" => ~marked

\* Commands that may be left running although the run succeeds.
Allowed(s) == s.kind = "jenkins" \/ s.cont

\* A run that has left any other command is bound not to succeed.
LeftInv ==
  (\E s \in left : ~Allowed(s)) =>
    /\ status # "success"
    /\ pc = "gone" \/ (pc = "final" /\ outcome # "success")

\* The page has a prefix of what is saved, and its offset is the end of it; a
\* page that has stopped has all of it.
PageInv ==
  /\ page \in [at : {"closed", "polling", "stopped", "lost"}, shown : Seq(Nat), offset : Nat, odd : BOOLEAN]
  /\ page.at = "polling" /\ ~page.odd =>
       \E n \in 0..saved : page.shown = Positions(0, n) /\ (kind = "pipeline" => page.offset = n)
  /\ page.at = "stopped" /\ ~marked /\ ~page.odd =>
       status \in Ended /\ page.shown = Positions(0, saved)

\* Variables have the value they were given or one that a step has set.
VarsInv ==
  /\ given \in [Names -> 0..2] /\ final \in [Names -> 0..2] /\ vars \in [Names -> 0..2]
  /\ \A n \in Names : final[n] \in {given[n], 2} /\ vars[n] \in {given[n], 2}

-----------------------------------------------------------------------------
(* The ten ways in which a step is over are two: the run goes on, or ends.  *)

\* The run goes on with its next step.
Ahead ==
  /\ pc' = "head" /\ cmd' = "none" /\ Write("running")
  /\ UNCHANGED <<odd, outcome, runDir, leftBehind>>

\* A variable has been set, or none.
MaySet == vars' = vars \/ \E n \in Names : vars' = [vars EXCEPT ![n] = 2]

\* A run ends with a success only where there is no step left, and a step whose
\* command it leaves is the last one unless that is allowed.
Over ==
  /\ pc \in {"head", "framed", "running", "printed"}
  /\ UNCHANGED Others /\ MaySet
  /\ \/ Ahead
     \/ \E o \in Ended : Conclude(o) /\ (o = "success" => pc = "head" /\ UNCHANGED left)
  /\ \/ UNCHANGED left
     \/ Leave /\ (Ahead => Allowed(step))

LEMMA NextStepAhead ==
  ASSUME NextStep
  PROVE Ahead
  BY DEF NextStep, Ahead

LEMMA StepOkAhead ==
  ASSUME StepOk
  PROVE Ahead /\ UNCHANGED vars
  BY NextStepAhead DEF StepOk

LEMMA ConcludeVars ==
  ASSUME NEW o, Conclude(o)
  PROVE UNCHANGED vars /\ pc' = "final"
  BY DEF Conclude

LEMMA StepFailsIs ==
  ASSUME StepFails
  PROVE (step.cont /\ StepOk) \/ Conclude("failed")
  BY DEF StepFails

LEMMA StepEndsIs ==
  ASSUME StepEnds, cmd \in {"ok", "bad", "killed"}
  PROVE StepOk \/ Conclude("failed") \/ Conclude("cancelled")
<1>1. CASE cmd = "ok"
  BY <1>1 DEF StepEnds
<1>2. CASE cmd = "bad"
  BY <1>2, StepFailsIs DEF StepEnds
<1>3. CASE cmd = "killed"
  BY <1>3 DEF StepEnds
<1> QED
  BY <1>1, <1>2, <1>3

LEMMA StepIsOver ==
  ASSUME LogInv,
         \/ RefuseStep \/ NoticeCancel \/ NoMoreSteps \/ DockerCancelled \/ StreamEnds
         \/ BatchSilent \/ BatchChecked \/ RequestEnds \/ StepRaises \/ JenkinsGivesUp
  PROVE Over
<1> USE ConcludeVars, StepOkAhead DEF MaySet
<1>a. Ahead => pc' = "head"
  BY DEF Ahead
<1>1. CASE RefuseStep
  BY <1>1, StepFailsIs DEF RefuseStep, Over, Ended
<1>2. CASE NoticeCancel
  BY <1>2 DEF NoticeCancel, Over, Ended
<1>3. CASE NoMoreSteps
  BY <1>3 DEF NoMoreSteps, Over, Ended
<1>4. CASE DockerCancelled
  BY <1>4, <1>a DEF DockerCancelled, Over, Ended
<1>5. CASE StreamEnds
  <2>1. cmd \in {"ok", "bad", "killed"}
    BY <1>5 DEF StreamEnds, LogInv
  <2> QED
    BY <1>5, <2>1, StepEndsIs DEF StreamEnds, Over, Ended
<1>6. CASE BatchSilent
  <2>1. cmd \in {"ok", "bad", "killed"}
    BY <1>6 DEF BatchSilent, LogInv
  <2> QED
    BY <1>6, <2>1, StepEndsIs DEF BatchSilent, Over, Ended
<1>7. CASE BatchChecked
  <2>1. cmd \in {"ok", "bad", "killed"}
    BY <1>7 DEF BatchChecked, LogInv
  <2>2. CASE step.kind = "pull"
    BY <1>7, <2>2, NextStepAhead DEF BatchChecked, Over, Sets, Names
  <2>3. CASE step.kind # "pull"
    BY <1>7, <2>1, <2>3, StepEndsIs DEF BatchChecked, Over, Ended
  <2> QED
    BY <2>2, <2>3
<1>8. CASE RequestEnds
  <2>1. cmd \in {"ok", "bad", "killed"}
    BY <1>8 DEF RequestEnds, LogInv
  <2> QED
    BY <1>8, <2>1, StepEndsIs DEF RequestEnds, Over, Ended
<1>9. CASE StepRaises
  BY <1>9, <1>a, StepFailsIs DEF StepRaises, Over, Ended, Allowed
<1>10. CASE JenkinsGivesUp
  BY <1>10, <1>a DEF JenkinsGivesUp, Over, Ended, Allowed
<1> QED
  BY <1>1, <1>2, <1>3, <1>4, <1>5, <1>6, <1>7, <1>8, <1>9, <1>10

-----------------------------------------------------------------------------
LEMMA RunInit ==
  ASSUME Init
  PROVE LogInv /\ EndInv /\ LeftInv /\ KeysAreCleared /\ PageInv
  BY DEF Init, KeysAreCleared, LogInv, EndInv, LeftInv, PageInv, Active, Ended, NoPage, NoOdd

LEMMA RunStep ==
  ASSUME LogInv, EndInv, LeftInv, KeysAreCleared, [Next]_allVars
  PROVE LogInv' /\ EndInv' /\ LeftInv' /\ KeysAreCleared'
<1> USE DEF KeysAreCleared, LogInv, EndInv, LeftInv, Allowed, Others, row, worker, Active, Ended,
            NoOdd, MaybeOdd
<1>1. CASE Over
  BY <1>1 DEF Over, Ahead, Conclude, Write, Leave
<1>2. CASE Register
  BY <1>2 DEF Register
<1>3. CASE CancelWhileQueued
  BY <1>3 DEF CancelWhileQueued, Ends
<1>4. CASE Start
  BY <1>4 DEF Start
<1>5. CASE \E k \in StepKinds, cont \in BOOLEAN : BeginStep(k, cont)
  BY <1>5 DEF BeginStep, Write
<1>6. CASE StartCommand
  BY <1>6 DEF StartCommand
<1>7. CASE Finish
  BY <1>7 DEF Finish, Ends
<1>8. CASE BatchPrints
  BY <1>8 DEF BatchPrints, Write
<1>9. CASE \E r \in {"ok", "bad"} : CommandEnds(r)
  BY <1>9 DEF CommandEnds
<1>10. CASE KillShell
  BY <1>10 DEF KillShell
<1>11. CASE Prints
  BY <1>11 DEF Prints, ShellPrints, DockerPrints, PlaybookPrints, Write
<1>12. CASE StartPlaybook
  BY <1>12 DEF StartPlaybook
<1>13. CASE \E o \in {"success", "failed"} : PlaybookEnds(o)
  BY <1>13 DEF PlaybookEnds
<1>14. CASE PlaybookRaises
  BY <1>14 DEF PlaybookRaises
<1>15. CASE Cancel
  BY <1>15 DEF Cancel
<1>16. CASE Crash
  <2>1. KeysAreCleared'
    BY <1>16 DEF Crash, Ends
  <2>2. LogInv' /\ EndInv' /\ LeftInv'
    BY <1>16 DEF Crash, Ends
  <2> QED
    BY <2>1, <2>2
<1>17. CASE Restart
  BY <1>17 DEF Restart
<1>18. CASE Rerun
  BY <1>18 DEF Rerun
<1>19. CASE Open \/ Poll \/ PollFails
  BY <1>19 DEF Open, Poll, PollFails
<1>20. CASE UNCHANGED allVars
  BY <1>20 DEF allVars
<1>21. CASE CommitFails \/ Delete
  BY <1>21 DEF CommitFails, Delete, Vanish, Ends
<1> QED
  BY <1>1, <1>2, <1>3, <1>4, <1>5, <1>6, <1>7, <1>8, <1>9, <1>10, <1>11, <1>12, <1>13, <1>14,
     <1>15, <1>16, <1>17, <1>18, <1>19, <1>20, <1>21, StepIsOver
  DEF Next, CommandSteps, WorkerSteps, PlaybookSteps

LEMMA VarsStep ==
  ASSUME VarsInv, LogInv, [Next]_allVars
  PROVE VarsInv'
<1> USE DEF VarsInv, Others, row, worker, Sets, MaySet
<1>1. CASE Over
  BY <1>1 DEF Over, Ahead, Conclude, Write
<1>2. CASE Register
  BY <1>2 DEF Register
<1>3. CASE CancelWhileQueued
  BY <1>3 DEF CancelWhileQueued, Ends
<1>4. CASE Start
  BY <1>4 DEF Start
<1>5. CASE \E k \in StepKinds, cont \in BOOLEAN : BeginStep(k, cont)
  BY <1>5 DEF BeginStep, Write
<1>6. CASE StartCommand
  BY <1>6 DEF StartCommand
<1>7. CASE Finish
  BY <1>7 DEF Finish, Ends
<1>8. CASE BatchPrints
  BY <1>8 DEF BatchPrints, Write
<1>9. CASE \E r \in {"ok", "bad"} : CommandEnds(r)
  BY <1>9 DEF CommandEnds
<1>10. CASE KillShell
  BY <1>10 DEF KillShell
<1>11. CASE Prints
  BY <1>11 DEF Prints, ShellPrints, DockerPrints, PlaybookPrints, Write
<1>12. CASE StartPlaybook
  BY <1>12 DEF StartPlaybook
<1>13. CASE \E o \in {"success", "failed"} : PlaybookEnds(o)
  BY <1>13 DEF PlaybookEnds
<1>14. CASE PlaybookRaises
  BY <1>14 DEF PlaybookRaises
<1>15. CASE Cancel
  BY <1>15 DEF Cancel
<1>16. CASE Crash
  BY <1>16 DEF Crash, Ends
<1>17. CASE Restart
  BY <1>17 DEF Restart
<1>18. CASE Rerun
  <2>1. NewOverrides \in [Names -> 0..2]
    BY DEF NewOverrides
  <2> QED
    BY <1>18, <2>1 DEF Rerun
<1>19. CASE Open \/ Poll \/ PollFails
  BY <1>19 DEF Open, Poll, PollFails
<1>20. CASE UNCHANGED allVars
  BY <1>20 DEF allVars
<1>21. CASE CommitFails \/ Delete
  BY <1>21 DEF CommitFails, Delete, Vanish, Ends
<1> QED
  BY <1>1, <1>2, <1>3, <1>4, <1>5, <1>6, <1>7, <1>8, <1>9, <1>10, <1>11, <1>12, <1>13, <1>14,
     <1>15, <1>16, <1>17, <1>18, <1>19, <1>20, <1>21, StepIsOver
  DEF Next, CommandSteps, WorkerSteps, PlaybookSteps

-----------------------------------------------------------------------------
\* What the run does to a page that is open: nothing; and the log that the page
\* reads only grows, and is finished when the status says so.
Behind ==
  /\ page' = page /\ kind' = kind
  /\ saved' \in Nat /\ saved <= saved'
  /\ ~marked' => ~marked
  /\ marked' /\ ~marked => status \in Active /\ saved' = saved
  /\ status \in Ended /\ ~marked => status' \in Ended /\ saved' = saved

LEMMA RunIsBehind ==
  ASSUME LogInv, EndInv, [Next]_allVars, ~Rerun, ~Open, ~Poll, ~PollFails
  PROVE Behind
<1> USE DEF Behind, LogInv, EndInv, Others, row, worker, Active, Ended
<1>1. CASE Over
  BY <1>1 DEF Over, Ahead, Conclude, Write
<1>2. CASE Register
  BY <1>2 DEF Register
<1>3. CASE CancelWhileQueued
  BY <1>3 DEF CancelWhileQueued, Ends
<1>4. CASE Start
  BY <1>4 DEF Start
<1>5. CASE \E k \in StepKinds, cont \in BOOLEAN : BeginStep(k, cont)
  BY <1>5 DEF BeginStep, Write
<1>6. CASE StartCommand
  BY <1>6 DEF StartCommand
<1>7. CASE Finish
  BY <1>7 DEF Finish, Ends
<1>8. CASE BatchPrints
  BY <1>8 DEF BatchPrints, Write
<1>9. CASE \E r \in {"ok", "bad"} : CommandEnds(r)
  BY <1>9 DEF CommandEnds
<1>10. CASE KillShell
  BY <1>10 DEF KillShell
<1>11. CASE Prints
  BY <1>11 DEF Prints, ShellPrints, DockerPrints, PlaybookPrints, Write
<1>12. CASE StartPlaybook
  BY <1>12 DEF StartPlaybook
<1>13. CASE \E o \in {"success", "failed"} : PlaybookEnds(o)
  BY <1>13 DEF PlaybookEnds
<1>14. CASE PlaybookRaises
  BY <1>14 DEF PlaybookRaises
<1>15. CASE Cancel
  <2>1. CASE pc = "launched"
    BY <1>15, <2>1 DEF Cancel
  <2>2. CASE pc # "launched"
    <3>1. marked' = marked /\ UNCHANGED <<kind, page, saved>> /\ status \in Active
      BY <1>15, <2>2 DEF Cancel
    <3> QED
      BY <3>1
  <2> QED
    BY <2>1, <2>2
<1>16. CASE Crash
  BY <1>16 DEF Crash, Ends
<1>17. CASE Restart
  BY <1>17 DEF Restart
<1>18. CASE UNCHANGED allVars
  BY <1>18 DEF allVars
<1>19. CASE CommitFails \/ Delete
  BY <1>19 DEF CommitFails, Delete, Vanish, Ends
<1> QED
  BY <1>1, <1>2, <1>3, <1>4, <1>5, <1>6, <1>7, <1>8, <1>9, <1>10, <1>11, <1>12, <1>13, <1>14,
     <1>15, <1>16, <1>17, <1>18, <1>19, StepIsOver
  DEF Next, CommandSteps, WorkerSteps, PlaybookSteps

\* An answer is what follows the page's offset.
LEMMA PositionsAppend ==
  ASSUME NEW a \in Nat, NEW b \in Nat, a <= b
  PROVE Positions(0, a) \o Positions(a, b) = Positions(0, b)
<1> DEFINE p == Positions(0, a)
           q == Positions(a, b)
<1>1. p \in Seq(Nat) /\ Len(p) = a /\ \A i \in 1..a : p[i] = i
  BY DEF Positions
<1>2. q \in Seq(Nat) /\ Len(q) = b - a /\ \A i \in 1..(b - a) : q[i] = a + i
  BY DEF Positions
<1>3. p \o q \in Seq(Nat) /\ Len(p \o q) = b
  BY <1>1, <1>2, ConcatProperties
<1>4. \A i \in 1..b : (p \o q)[i] = i
  BY <1>1, <1>2, ConcatProperties
<1>5. Positions(0, b) \in Seq(Nat) /\ Len(Positions(0, b)) = b /\ \A i \in 1..b : Positions(0, b)[i] = i
  BY DEF Positions
<1> QED
  BY <1>3, <1>4, <1>5, SeqEqual

LEMMA PositionsSeq ==
  ASSUME NEW a \in Nat, NEW b \in Nat
  PROVE Positions(a, b) \in Seq(Nat)
<1> DEFINE n == IF a <= b THEN b - a ELSE 0
<1>1. n \in Nat /\ 1..(b - a) = 1..n
  OBVIOUS
<1>2. \A i \in 1..n : a + i \in Nat
  OBVIOUS
<1>3. Positions(a, b) = [i \in 1..n |-> a + i]
  BY <1>1 DEF Positions
<1> QED
  BY <1>1, <1>2, <1>3

LEMMA PollShowsAll ==
  ASSUME LogInv, PageInv, Poll, ~page.odd
  PROVE page'.shown = Positions(0, saved)
<1>1. CASE kind = "ansible" \/ page.offset > saved
  BY <1>1, SMT DEF Poll, PageInv
<1>2. CASE kind = "pipeline" /\ ~(page.offset > saved)
  <2>1. PICK n \in 0..saved : page.shown = Positions(0, n) /\ page.offset = n
    BY <1>2 DEF Poll, PageInv
  <2>2. page'.shown = page.shown \o Positions(page.offset, saved)
    BY <1>2, SMT DEF Poll, PageInv
  <2>3. n \in Nat /\ saved \in Nat /\ n <= saved
    BY DEF LogInv
  <2>4. Positions(0, n) \o Positions(n, saved) = Positions(0, saved)
    BY <2>3, PositionsAppend
  <2> QED
    BY <2>1, <2>2, <2>4
<1> QED
  BY <1>1, <1>2 DEF LogInv

LEMMA PageStep ==
  ASSUME LogInv, EndInv, PageInv, [Next]_allVars
  PROVE PageInv'
<1>1. CASE Rerun
  BY <1>1 DEF Rerun, PageInv, NoPage
<1>2. CASE Open
  <2>1. page.at' \in {"polling", "stopped"} /\ (page.at' = "stopped" => status \notin Active)
    BY <1>2 DEF Open
  <2>2. page'.shown = Positions(0, saved)
    BY <1>2 DEF Open
  <2>3. ~page'.odd /\ kind = "pipeline" => page'.offset = saved
    BY <1>2 DEF Open, Width
  <2>4. UNCHANGED <<kind, status, saved, marked>>
    BY <1>2 DEF Open, row
  <2>5. Width(saved) \in Nat
    BY DEF Width, LogInv
  <2>6. page' \in [at : {"closed", "polling", "stopped", "lost"}, shown : Seq(Nat), offset : Nat, odd : BOOLEAN]
    BY <1>2, <2>5, PositionsSeq DEF Open, LogInv
  <2> QED
    BY <2>1, <2>2, <2>3, <2>4, <2>6 DEF PageInv, LogInv, EndInv
<1>3. CASE Poll
  <2>1. page'.at = "stopped" => status \in Ended
    BY <1>3 DEF Poll, EndInv
  <2>2. page'.odd = page.odd /\ page'.offset = saved
    BY <1>3 DEF Poll
  <2>3. ~page.odd => page'.shown = Positions(0, saved)
    BY <1>3, PollShowsAll
  <2>4. UNCHANGED <<kind, status, saved, marked>>
    BY <1>3 DEF Poll, row
  <2>5. Positions(0, saved) \in Seq(Nat) /\ page.shown \o Positions(page.offset, saved) \in Seq(Nat)
    BY PositionsSeq, ConcatProperties DEF LogInv, PageInv
  <2>6. page' \in [at : {"closed", "polling", "stopped", "lost"}, shown : Seq(Nat), offset : Nat, odd : BOOLEAN]
    BY <1>3, <2>5 DEF Poll, LogInv, PageInv
  <2> QED
    BY <2>1, <2>2, <2>3, <2>4, <2>6 DEF PageInv, LogInv, EndInv
<1>4. CASE PollFails
  BY <1>4 DEF PollFails, PageInv
<1>5. CASE Behind
  BY <1>5 DEF Behind, PageInv, LogInv
<1> QED
  BY <1>1, <1>2, <1>3, <1>4, <1>5, RunIsBehind

LEMMA VarsInit ==
  ASSUME Init
  PROVE VarsInv
<1>1. PICK S \in SUBSET Names : given = [n \in Names |-> IF n \in S THEN 1 ELSE 0]
  BY DEF Init
<1>2. given \in [Names -> 0..2]
  BY <1>1
<1> QED
  BY <1>2 DEF Init, VarsInv

-----------------------------------------------------------------------------
RunInv == LogInv /\ EndInv /\ LeftInv /\ KeysAreCleared /\ PageInv /\ VarsInv

LEMMA RunInvAlways == Spec => []RunInv
<1>1. Init => RunInv
  BY RunInit, VarsInit DEF RunInv
<1>2. RunInv /\ [Next]_allVars => RunInv'
  BY RunStep, PageStep, VarsStep DEF RunInv
<1> QED
  BY <1>1, <1>2, PTL DEF Spec

\* A page that has stopped asking shows the whole log, once and in order.
THEOREM PagesEndComplete == Spec => []PageEndsComplete
<1>1. RunInv => PageEndsComplete
  BY DEF RunInv, PageInv, EndInv, LogInv, Ended, PageEndsComplete
<1> QED
  BY <1>1, RunInvAlways, PTL

\* A run that succeeded has waited for its commands, but for Jenkins builds and
\* for the commands of steps that were allowed to fail (_run_steps, _step_shell).
THEOREM SuccessesAwaitCommands == Spec => []SuccessAwaitsCommands
<1>1. RunInv => SuccessAwaitsCommands
  BY DEF RunInv, LeftInv, Allowed, SuccessAwaitsCommands
<1> QED
  BY <1>1, RunInvAlways, PTL

\* Decrypted keys are removed, unless the cockpit dies during a playbook.
THEOREM KeysAreAlwaysCleared == Spec => []KeysAreCleared
<1>1. RunInv => KeysAreCleared
  BY DEF RunInv
<1> QED
  BY <1>1, RunInvAlways, PTL

\* A re-run gets what its run was given by hand, or what a step made of it.
THEOREM RerunsRepeat == Spec => RerunRepeats
<1>1. RunInv /\ [Next]_allVars =>
        [Rerun => \A n \in Names : IF n \notin Overridden THEN given'[n] = 0
                                  ELSE given'[n] \in {given[n], 2}]_allVars
  <2>1. ASSUME RunInv, Rerun, NEW n \in Names
        PROVE IF n \notin Overridden THEN given'[n] = 0 ELSE given'[n] \in {given[n], 2}
    BY <2>1 DEF Rerun, NewOverrides, RunInv, VarsInv
  <2> QED
    BY <2>1
<1> QED
  BY <1>1, RunInvAlways, PTL DEF Spec, RerunRepeats

-----------------------------------------------------------------------------
(* The page is a reader of a stream, as LogStream describes it.            *)

LEMMA StreamStays ==
  ASSUME saved' = saved, IsOver' = IsOver, Reader' = Reader, Shown' = Shown
  PROVE Stream!vars' = Stream!vars
  BY DEF Stream!vars, IsOver, Reader, Shown

LEMMA BeginningIs ==
  ASSUME NEW n \in Nat
  PROVE Positions(0, n) = Stream!Beginning(n)
  BY DEF Positions, Stream!Beginning

LEMMA StreamInit == Init => Stream!Init
<1> SUFFICES ASSUME Init PROVE Stream!Init
  OBVIOUS
<1>1. page.at = "closed" /\ page.shown = <<>> /\ saved = 0 /\ status \in Active
  BY DEF Init, NoPage, Active
<1>2. ~Gone
  BY <1>1 DEF Gone
<1> QED
  BY <1>1, <1>2 DEF Stream!Init, IsOver, Reader, Shown

\* The worker, a cancellation and a restart either write or make a page leave
\* that may be misled.
LEMMA BehindStreams ==
  ASSUME LogInv, EndInv, PageInv, Behind
  PROVE [Stream!Next]_(Stream!vars)
<1>1. page' = page /\ saved \in Nat /\ saved' \in Nat /\ saved <= saved'
  BY DEF Behind, LogInv
<1>2. CASE ~marked /\ marked'
  <2>1. status \in Active /\ saved' = saved /\ IsOver = FALSE /\ IsOver' = FALSE
    BY <1>2 DEF Behind, IsOver
  <2>2. CASE page.at = "closed" \/ Gone
    <3>1. Reader' = Reader /\ Shown' = Shown
      BY <1>1, <1>2, <2>2 DEF Reader, Shown, Gone
    <3> QED
      BY <2>1, <3>1, StreamStays
  <2>3. CASE page.at # "closed" /\ ~Gone
    <3>1. page.at = "polling"
      BY <1>2, <2>1, <2>3 DEF PageInv, Gone, Active, Ended
    <3>2. Reader = "polling" /\ Reader' = "left" /\ Shown' = <<>>
      BY <1>1, <1>2, <2>3, <3>1 DEF Reader, Shown, Gone
    <3>3. Stream!Leave
      BY <2>1, <3>2 DEF Stream!Leave, Reader, Shown, IsOver
    <3> QED
      BY <3>3 DEF Stream!Next
  <2> QED
    BY <2>2, <2>3
<1>3. CASE (marked => marked') /\ (marked' => marked)
  <2>1. Reader' = Reader /\ Shown' = Shown
    BY <1>1, <1>3 DEF Reader, Shown, Gone
  <2>2. CASE IsOver
    <3>1. saved' = saved /\ IsOver'
      BY <1>3, <2>2 DEF Behind, EndInv, IsOver, Active, Ended
    <3>2. IsOver' = IsOver
      BY <2>2, <3>1 DEF IsOver
    <3> QED
      BY <2>1, <3>1, <3>2, StreamStays
  <2>3. CASE ~IsOver
    <3>1. Stream!Write
      BY <1>1, <2>1, <2>3 DEF Stream!Write, Reader, Shown, IsOver
    <3> QED
      BY <3>1 DEF Stream!Next
  <2> QED
    BY <2>2, <2>3
<1> QED
  BY <1>2, <1>3 DEF Behind

\* A page that is opened, and one that gets an answer, reads, or has left.
LEMMA PageStreams ==
  ASSUME LogInv, EndInv, PageInv, Open \/ Poll \/ PollFails
  PROVE [Stream!Next]_(Stream!vars)
<1>1. UNCHANGED <<saved, status, marked, kind>> /\ saved \in Nat
  BY DEF Open, Poll, PollFails, row, LogInv
<1>2. IsOver' = IsOver /\ saved' = saved
  BY <1>1 DEF IsOver
<1>3. Positions(0, saved) = Stream!Beginning(saved)
  BY <1>1, BeginningIs
<1>4. ASSUME Reader \in {"away", "polling"}, page'.at # "closed", Gone'
      PROVE Stream!Leave
  <2>1. Reader' = "left" /\ Shown' = <<>>
    BY <1>4 DEF Reader, Shown
  <2> QED
    BY <1>2, <1>4, <2>1 DEF Stream!Leave, Reader, Shown, IsOver
<1>5. ASSUME Reader \in {"away", "polling"}, ~Gone', ~marked, page'.shown = Positions(0, saved),
             page'.at = IF status \in Active THEN "polling" ELSE "stopped"
      PROVE Stream!Read
  <2>1. Reader' = page'.at /\ Shown' = Stream!Beginning(saved)
    BY <1>3, <1>5 DEF Reader, Shown
  <2>2. Reader' = IF IsOver THEN "stopped" ELSE "polling"
    BY <1>5, <2>1 DEF IsOver
  <2> QED
    BY <1>2, <1>5, <2>1, <2>2 DEF Stream!Read, Reader, Shown, IsOver
<1>6. CASE Open
  <2>1. Reader = "away"
    BY <1>6 DEF Open, Reader
  <2>2. /\ page'.at = IF status \in Active THEN "polling" ELSE "stopped"
        /\ page'.shown = Positions(0, saved)
    BY <1>6 DEF Open
  <2>3. page'.at # "closed" /\ (~Gone' => ~marked)
    BY <1>1, <2>2 DEF Gone
  <2> QED
    BY <1>4, <1>5, <2>1, <2>2, <2>3 DEF Stream!Next
<1>7. CASE Poll
  <2>1. /\ page.at = "polling" /\ page'.odd = page.odd
        /\ page'.at = IF status \in Active THEN "polling" ELSE "stopped"
    BY <1>7 DEF Poll, PageInv
  <2>2. CASE Gone
    <3>1. Gone'
      BY <1>1, <2>1, <2>2 DEF Gone
    <3>2. Reader' = Reader /\ Shown' = Shown
      BY <2>1, <2>2, <3>1 DEF Reader, Shown
    <3> QED
      BY <1>2, <3>2, StreamStays
  <2>3. CASE ~Gone
    <3>1. Reader = "polling" /\ ~Gone' /\ ~marked /\ ~page.odd
      BY <1>1, <2>1, <2>3 DEF Gone, Reader
    <3>2. page'.shown = Positions(0, saved)
      BY <1>7, <3>1, PollShowsAll
    <3> QED
      BY <1>5, <2>1, <3>1, <3>2 DEF Stream!Next
  <2> QED
    BY <2>2, <2>3
<1>8. CASE PollFails
  <2>1. page.at = "polling" /\ page'.at = "lost"
    BY <1>8 DEF PollFails, PageInv
  <2>2. Gone' /\ page'.at # "closed"
    BY <2>1 DEF Gone
  <2>3. CASE Gone
    <3>1. Reader' = Reader /\ Shown' = Shown
      BY <2>1, <2>2, <2>3 DEF Reader, Shown
    <3> QED
      BY <1>2, <3>1, StreamStays
  <2>4. CASE ~Gone
    <3>1. Reader = "polling"
      BY <2>1, <2>4 DEF Reader
    <3> QED
      BY <1>4, <2>2, <3>1 DEF Stream!Next
  <2> QED
    BY <2>3, <2>4
<1> QED
  BY <1>6, <1>7, <1>8

LEMMA RerunStreams ==
  ASSUME Rerun
  PROVE Stream!Anew
<1>1. page'.at = "closed" /\ page'.shown = <<>> /\ saved' = 0 /\ status' \in Active
  BY DEF Rerun, NoPage, Active
<1>2. ~Gone'
  BY <1>1 DEF Gone
<1> QED
  BY <1>1, <1>2 DEF Stream!Anew, IsOver, Reader, Shown

\* Whatever the worker has flushed and wherever the cockpit was restarted, the
\* page of a run is a reader of a stream that only grows, as LogStream has it.
THEOREM PagesReadAStream == Spec => ImplementsStream
<1>1. RunInv /\ [Next]_allVars => [Stream!Next]_(Stream!vars)
  <2>1. RunInv /\ Rerun => [Stream!Next]_(Stream!vars)
    BY RerunStreams DEF Stream!Next
  <2> QED
    BY <2>1, RunIsBehind, BehindStreams, PageStreams DEF RunInv
<1> QED
  BY <1>1, StreamInit, RunInvAlways, PTL DEF Spec, ImplementsStream, Stream!Spec

-----------------------------------------------------------------------------
(* What PollingEnds rests on: a run that a page waits for has a worker,    *)
(* and the worker and the commands it waits for come to an end.            *)

\* While the cockpit is up no pipeline run is shown as active that nobody works
\* on, unless a commit of its worker failed and nobody has started the cockpit
\* again since, or it was deleted: its last flush, or the next start, ends it.
ActiveIsWorked == kind = "pipeline" /\ up /\ status \in Active /\ lost = "no" => pc # "gone"

WorkedInv ==
  /\ ActiveIsWorked /\ step.n \in 0..MaxSteps
  /\ pc \notin {"head", "framed", "running", "printed"} => step.n = 0

LEMMA WorkedStep ==
  ASSUME LogInv, EndInv, WorkedInv, [Next]_allVars
  PROVE WorkedInv'
<1> USE BoundsAssumption
    DEF WorkedInv, ActiveIsWorked, EndInv, LogInv, Others, row, worker, Active, Ended, NoStep
<1>1. CASE \/ RefuseStep \/ NoticeCancel \/ NoMoreSteps \/ DockerCancelled \/ StreamEnds
           \/ BatchSilent \/ BatchChecked \/ RequestEnds \/ StepRaises \/ JenkinsGivesUp
  <2>1. pc' \in {"head", "final"} /\ UNCHANGED <<kind, up>>
    BY <1>1, StepIsOver DEF Over, Ahead, Conclude
  <2>2. IF pc' = "head" THEN step'.n = step.n ELSE step'.n = 0
    BY <1>1, StepEndsIs
    DEF RefuseStep, NoticeCancel, NoMoreSteps, DockerCancelled, StreamEnds, BatchSilent, BatchChecked,
        RequestEnds, StepRaises, JenkinsGivesUp, StepFails, StepOk, NextStep, Conclude
  <2> QED
    BY <2>1, <2>2
<1>2. CASE Register \/ Start \/ StartCommand \/ Finish \/ CancelWhileQueued
  BY <1>2 DEF Register, Start, StartCommand, Finish, CancelWhileQueued, Ends
<1>3. CASE \E k \in StepKinds, cont \in BOOLEAN : BeginStep(k, cont)
  BY <1>3 DEF BeginStep
<1>4. CASE BatchPrints \/ Prints \/ KillShell \/ \E r \in {"ok", "bad"} : CommandEnds(r)
  BY <1>4 DEF BatchPrints, Prints, ShellPrints, DockerPrints, PlaybookPrints, KillShell, CommandEnds, Write
<1>5. CASE PlaybookSteps
  BY <1>5 DEF PlaybookSteps, StartPlaybook, PlaybookEnds, PlaybookRaises
<1>6. CASE Crash \/ Restart \/ Rerun
  BY <1>6 DEF Crash, Restart, Rerun, Ends
<1>9. CASE Cancel
  <2>1. UNCHANGED <<kind, up, lost, pc, step>> /\ status' \in {status, "cancelled"}
    BY <1>9 DEF Cancel
  <2> QED
    BY <2>1
<1>7. CASE Open \/ Poll \/ PollFails \/ UNCHANGED allVars
  BY <1>7 DEF Open, Poll, PollFails, allVars
<1>8. CASE CommitFails \/ Delete
  BY <1>8 DEF CommitFails, Delete, Vanish, Ends
<1> QED
  BY <1>1, <1>2, <1>3, <1>4, <1>5, <1>6, <1>7, <1>8, <1>9 DEF Next, CommandSteps, WorkerSteps

LEMMA WorkedAlways == Spec => [](LogInv /\ EndInv /\ WorkedInv)
<1>1. Init => WorkedInv
  BY BoundsAssumption DEF Init, WorkedInv, ActiveIsWorked, NoStep
<1>2. Init => LogInv /\ EndInv
  BY RunInit
<1>3. RunInv => LogInv /\ EndInv
  BY DEF RunInv
<1>4. LogInv /\ EndInv /\ WorkedInv /\ [Next]_allVars => WorkedInv'
  BY WorkedStep
<1> QED
  BY <1>1, <1>2, <1>3, <1>4, RunInvAlways, PTL DEF Spec

\* A pipeline run that a page shows as active has a worker while the cockpit is
\* up, but for a failed commit and a deleted row (_execute's last commit,
\* recover_interrupted_runs).
THEOREM ActiveRunsAreWorked == Spec => []ActiveIsWorked
<1>1. WorkedInv => ActiveIsWorked
  BY DEF WorkedInv
<1> QED
  BY <1>1, WorkedAlways, PTL

\* How far a run is: in which phase, ...
Phase == CASE pc = "launched" -> 4
           [] pc = "queued" -> 3
           [] pc \in {"head", "framed", "running", "printed"} -> 2
           [] pc = "final" -> 1
           [] OTHER -> 0

\* ... and where in its step.
Place == CASE pc = "framed" -> 5
           [] pc = "running" /\ cmd = "running" -> 4
           [] pc = "running" /\ cmd # "running" -> 3
           [] pc = "printed" -> 2
           [] pc = "head" -> 1
           [] OTHER -> 0

\* The run is in a later phase, or a later step of it, or further in that step.
MovesOn ==
  \/ Phase' < Phase
  \/ Phase' = Phase /\ step.n < step'.n /\ step'.n <= MaxSteps
  \/ Phase' = Phase /\ step'.n = step.n /\ Place' < Place

StaysPut == Phase' = Phase /\ step'.n = step.n /\ Place' = Place

\* The ten ways in which a step is over take the run to its next step or its end.
LEMMA OverMovesOn ==
  ASSUME LogInv,
         \/ RefuseStep \/ NoticeCancel \/ NoMoreSteps \/ DockerCancelled \/ StreamEnds
         \/ BatchSilent \/ BatchChecked \/ RequestEnds \/ StepRaises \/ JenkinsGivesUp
  PROVE MovesOn
<1>1. /\ pc \in {"head", "framed", "running", "printed"} /\ pc' \in {"head", "final"}
      /\ pc' = "head" => pc # "head" /\ step'.n = step.n
  <2>1. pc \in {"head", "framed", "running", "printed"} /\ pc' \in {"head", "final"}
    BY StepIsOver DEF Over, Ahead, Conclude
  <2>2. pc' = "head" => pc # "head" /\ step'.n = step.n
    BY StepEndsIs
    DEF RefuseStep, NoticeCancel, NoMoreSteps, DockerCancelled, StreamEnds, BatchSilent, BatchChecked,
        RequestEnds, StepRaises, JenkinsGivesUp, StepFails, StepOk, NextStep, NoStep, Conclude, LogInv
  <2> QED
    BY <2>1, <2>2
<1> QED
  BY <1>1 DEF MovesOn, Phase, Place

LEMMA StepMovesOn ==
  ASSUME LogInv, WorkedInv, CommandSteps \/ WorkerSteps
  PROVE MovesOn
<1>1. CASE Register \/ CancelWhileQueued \/ Start \/ Finish
  BY <1>1 DEF Register, CancelWhileQueued, Start, Finish, Ends, MovesOn, Phase
<1>2. CASE \E k \in StepKinds, cont \in BOOLEAN : BeginStep(k, cont)
  BY <1>2, BoundsAssumption DEF BeginStep, WorkedInv, MovesOn, Phase
<1>3. CASE StartCommand \/ BatchPrints
  BY <1>3 DEF StartCommand, BatchPrints, MovesOn, Phase, Place
<1>4. CASE KillShell \/ \E r \in {"ok", "bad"} : CommandEnds(r)
  BY <1>4 DEF KillShell, CommandEnds, MovesOn, Phase, Place
<1> QED
  BY <1>1, <1>2, <1>3, <1>4, OverMovesOn DEF CommandSteps, WorkerSteps

LEMMA OthersStayPut ==
  ASSUME LogInv, WorkedInv, [Next]_allVars, ~CommandSteps, ~WorkerSteps, ~Rerun
  PROVE StaysPut \/ MovesOn
<1>1. UNCHANGED <<pc, cmd, step>> => StaysPut
  BY DEF StaysPut, Phase, Place
<1>2. CASE Prints \/ Cancel \/ Restart \/ Open \/ Poll \/ PollFails \/ UNCHANGED allVars
  BY <1>1, <1>2
  DEF Prints, ShellPrints, DockerPrints, PlaybookPrints, Cancel, Restart, Open, Poll, PollFails, Others,
      worker, allVars
<1>3. CASE PlaybookSteps
  BY <1>3 DEF PlaybookSteps, StartPlaybook, PlaybookEnds, PlaybookRaises, StaysPut, Phase, Place
<1>4. CASE Crash \/ CommitFails \/ Delete
  <2>1. pc' = "gone" /\ step'.n = 0
    BY <1>4 DEF Crash, CommitFails, Delete, Vanish, Ends, NoStep
  <2> QED
    BY <2>1 DEF MovesOn, StaysPut, Phase, Place, WorkedInv
<1> QED
  BY <1>2, <1>3, <1>4 DEF Next

\* Whatever the worker of a pipeline run and its commands do, they come nearer to
\* the end of the run, through phases, at most MaxSteps steps and the places in
\* a step; and nobody takes it back: output, cancellations, pages and restarts do not,
\* a re-run is a new row.
RunsMoveOn ==
  [][/\ CommandSteps \/ WorkerSteps => MovesOn
     /\ MovesOn \/ StaysPut \/ Rerun]_allVars

\* The worker of a run comes nearer to its last flush with each of its steps
\* (_run_steps), whatever is printed, cancelled or polled in between.
THEOREM RunsAlwaysMoveOn == Spec => RunsMoveOn
<1>1. LogInv /\ WorkedInv /\ [Next]_allVars =>
        [/\ CommandSteps \/ WorkerSteps => MovesOn
         /\ MovesOn \/ StaysPut \/ Rerun]_allVars
  BY StepMovesOn, OthersStayPut
<1> QED
  BY <1>1, WorkedAlways, PTL DEF Spec, RunsMoveOn

-----------------------------------------------------------------------------
(* The types of all variables.                                             *)

Labels == {"launched", "queued", "head", "framed", "running", "printed", "final", "gone",
           "scheduled", "playing"}
StepRecords == [n : 0..MaxSteps, kind : StepKinds \union {"none"}, cont : BOOLEAN]
LeftRecords == [kind : StepKinds \union {"none"}, cont : BOOLEAN]

\* What the other invariants do not say: the worker and the bounds.
WorkerTypes ==
  /\ trigger \in {"manual", "rerun", "webhook"} /\ outcome \in Active \union Ended
  /\ pc \in Labels /\ step \in StepRecords /\ left \subseteq LeftRecords
  /\ cmd \in {"none", "running", "ok", "bad", "killed"} /\ lost \in {"no", "commit", "row"}
  /\ {cancel, runDir, up, marked, leftBehind} \subseteq BOOLEAN
  /\ crashes \in 0..MaxCrashes /\ runsLeft \in 0..MaxRuns

TypeOK ==
  /\ kind \in {"pipeline", "ansible"} /\ status \in Active \union Ended
  /\ saved \in Nat /\ written \in Nat /\ odd \in [line : Nat, page : 0..2]
  /\ given \in [Names -> 0..2] /\ final \in [Names -> 0..2] /\ vars \in [Names -> 0..2]
  /\ page \in [at : {"closed", "polling", "stopped", "lost"}, shown : Seq(Nat), offset : Nat, odd : BOOLEAN]
  /\ WorkerTypes

LEMMA NoStepTyped ==
  NoStep \in StepRecords /\ \A s \in StepRecords : [NoStep EXCEPT !.n = s.n] \in StepRecords
<1>1. NoStep \in StepRecords
  BY BoundsAssumption DEF NoStep, StepRecords
<1>2. ASSUME NEW s \in StepRecords PROVE [NoStep EXCEPT !.n = s.n] \in StepRecords
  BY <1>2 DEF NoStep, StepRecords
<1> QED
  BY <1>1, <1>2

LEMMA TypesStep ==
  ASSUME LogInv, EndInv, WorkerTypes, [Next]_allVars
  PROVE WorkerTypes'
<1> USE NoStepTyped DEF WorkerTypes, LogInv, EndInv, Labels, Others, row, worker, Active, Ended
<1>1. CASE \/ RefuseStep \/ NoticeCancel \/ NoMoreSteps \/ DockerCancelled \/ StreamEnds
           \/ BatchSilent \/ BatchChecked \/ RequestEnds \/ StepRaises \/ JenkinsGivesUp
  <2>1. Over
    BY <1>1, StepIsOver
  <2>2. /\ pc' \in {"head", "final"} /\ cmd' = "none" /\ outcome' \in Active \union Ended
        /\ UNCHANGED <<runDir, leftBehind, trigger, cancel, up, marked, crashes, runsLeft, lost>>
        /\ left' \subseteq left \union {[kind |-> step.kind, cont |-> step.cont]}
    BY <2>1 DEF Over, Ahead, Conclude, Leave
  <2>3. step' \in {[NoStep EXCEPT !.n = step.n], NoStep}
    BY <1>1, StepEndsIs
    DEF RefuseStep, NoticeCancel, NoMoreSteps, DockerCancelled, StreamEnds, BatchSilent, BatchChecked,
        RequestEnds, StepRaises, JenkinsGivesUp, StepFails, StepOk, NextStep, Conclude
  <2>4. [kind |-> step.kind, cont |-> step.cont] \in LeftRecords
    BY DEF StepRecords, LeftRecords
  <2> QED
    BY <2>2, <2>3, <2>4
<1>2. CASE Register \/ Start \/ StartCommand \/ Finish \/ CancelWhileQueued
  <2> HIDE DEF LogInv, EndInv
  <2>1. CASE Register \/ Start \/ StartCommand
    BY <2>1 DEF Register, Start, StartCommand
  <2>2. CASE Finish \/ CancelWhileQueued
    BY <2>2 DEF Finish, CancelWhileQueued, Ends
  <2> QED
    BY <1>2, <2>1, <2>2
<1>3. ASSUME NEW k \in StepKinds, NEW cont \in BOOLEAN, BeginStep(k, cont)
      PROVE WorkerTypes'
  <2>1. [n |-> step.n + 1, kind |-> k, cont |-> cont] \in StepRecords
    BY <1>3, BoundsAssumption DEF BeginStep, StepRecords
  <2> QED
    BY <1>3, <2>1 DEF BeginStep
<1>4. CASE BatchPrints \/ Prints \/ KillShell \/ \E r \in {"ok", "bad"} : CommandEnds(r)
  BY <1>4 DEF BatchPrints, Prints, ShellPrints, DockerPrints, PlaybookPrints, KillShell, CommandEnds, Write
<1>5. CASE PlaybookSteps
  <2> HIDE DEF LogInv, EndInv
  <2> QED
    BY <1>5 DEF PlaybookSteps, StartPlaybook, PlaybookEnds, PlaybookRaises
<1>6. CASE Cancel
  <2> HIDE DEF LogInv, EndInv
  <2> QED
    BY <1>6 DEF Cancel
<1>9. CASE Restart
  <2> HIDE DEF LogInv, EndInv
  <2> QED
    BY <1>9 DEF Restart
<1>7. CASE Crash \/ Rerun
  <2>1. crashes' \in 0..MaxCrashes /\ runsLeft' \in 0..MaxRuns
    BY <1>7, BoundsAssumption DEF Crash, Rerun
  <2>2. {cancel', runDir', up', marked', leftBehind'} \subseteq BOOLEAN
    BY <1>7 DEF Crash, Rerun, Ends
  <2>3. /\ trigger' \in {"manual", "rerun", "webhook"} /\ outcome' = "queued"
        /\ pc' \in {"gone", "launched"} /\ step' = NoStep /\ cmd' = "none" /\ left' \in {left, {}}
        /\ lost' \in {"no", lost}
    BY <1>7 DEF Crash, Rerun, Ends
  <2> HIDE DEF LogInv, EndInv
  <2> QED
    BY <2>1, <2>2, <2>3
<1>8. CASE Open \/ Poll \/ PollFails \/ UNCHANGED allVars
  BY <1>8 DEF Open, Poll, PollFails, allVars
<1>10. CASE CommitFails \/ Delete
  BY <1>10 DEF CommitFails, Delete, Vanish, Ends
<1> QED
  BY <1>1, <1>2, <1>3, <1>4, <1>5, <1>6, <1>7, <1>8, <1>9, <1>10 DEF Next, CommandSteps, WorkerSteps

\* Every variable of a run and its page always has its type; the counters stay
\* within their bounds.
THEOREM TypeCorrect == Spec => []TypeOK
<1>1. Init => WorkerTypes
  <2> SUFFICES ASSUME Init PROVE WorkerTypes
    OBVIOUS
  <2>1. crashes \in 0..MaxCrashes /\ runsLeft \in 0..MaxRuns
    BY BoundsAssumption DEF Init
  <2>2. {cancel, runDir, up, marked, leftBehind} \subseteq BOOLEAN
    BY DEF Init
  <2>3. /\ trigger \in {"manual", "rerun", "webhook"} /\ outcome \in {"queued", "running"}
        /\ pc \in {"launched", "scheduled"} /\ step = NoStep /\ cmd = "none" /\ left = {}
        /\ lost = "no"
    BY DEF Init
  <2> QED
    BY <2>1, <2>2, <2>3, NoStepTyped DEF WorkerTypes, Labels, Active
<1>2. RunInv => LogInv /\ EndInv
  BY DEF RunInv
<1>3. LogInv /\ EndInv /\ WorkerTypes /\ [Next]_allVars => WorkerTypes'
  BY TypesStep
<1>4. RunInv /\ WorkerTypes => TypeOK
  BY DEF RunInv, LogInv, EndInv, PageInv, VarsInv, TypeOK
<1> QED
  BY <1>1, <1>2, <1>3, <1>4, RunInvAlways, PTL DEF Spec

=============================================================================
