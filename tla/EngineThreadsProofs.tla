-------------------------- MODULE EngineThreadsProofs --------------------------
(***************************************************************************)
(* Proofs about the two threads the engine runs beside its workers.  About *)
(* ShellStep, the step and its watchdog, for any set of processes, any of  *)
(* which may ignore SIGTERM, and whether or not reading the output may     *)
(* fail: a kill has its reason, a reported shell is dead, and one that     *)
(* runs is watched.  About Scheduler, for any pipelines, cron expressions  *)
(* and bounds: a cron time leads to at most one run, and a tick that ends  *)
(* has served what was due, across stale copies of the rows, changes of    *)
(* the schedule, deletions and restarts.                                   *)
(***************************************************************************)
EXTENDS ShellStep, TLAPS

-----------------------------------------------------------------------------
(* The step and its watchdog.                                              *)

\* The inductive invariant.  A signal is preceded by its reason; the step's
\* thread leaves with a report only over a dead shell; and the shell, once
\* dead, is never started again, so that the report stays true.
Inv ==
  /\ watchdog \in {"kill", "grace"} => reason # "none"
  /\ code = "signal" => reason # "none"
  /\ reader = "start" => Leader \notin alive /\ outcome = "none"
  /\ outcome # "none" => reader = "left"
  /\ outcome \notin {"none", "broken"} => Leader \notin alive
  /\ outcome = "ok" => code = "zero"
  /\ outcome = "exited" => code # "signal"

LEMMA InitInv == Init => Inv
  BY DEF Init, Inv

LEMMA GroupInv ==
  ASSUME Inv, NEW k \in Procs, Fork(k) \/ Exit(k) \/ Redirect(k)
  PROVE Inv'
<1>1. CASE Fork(k)
  BY <1>1 DEF Fork, Inv, threads
<1>2. CASE Exit(k)
  BY <1>2 DEF Exit, Die, Inv, threads
<1>3. CASE Redirect(k)
  BY <1>3 DEF Redirect, Inv, threads
<1> QED
  BY <1>1, <1>2, <1>3

LEMMA ReaderInv ==
  ASSUME Inv, TypeOK, Reader \/ SpawnFails \/ OutputFails
  PROVE Inv'
<1>1. CASE Spawn
  BY <1>1 DEF Spawn, Inv, group
<1>2. CASE SpawnFails
  BY <1>2 DEF SpawnFails, Inv, group
<1>3. CASE OutputFails
  BY <1>3 DEF OutputFails, Inv, group
<1>4. CASE ReadToEnd
  BY <1>4 DEF ReadToEnd, Inv, group
<1>5. CASE Finish
  BY <1>5 DEF Finish, Inv, TypeOK, group
<1> QED
  BY <1>1, <1>2, <1>3, <1>4, <1>5 DEF Reader

LEMMA WatchdogInv ==
  ASSUME Inv, Watchdog
  PROVE Inv'
<1>1. CASE Poll
  BY <1>1 DEF Poll, Inv, group
<1>2. CASE Wait
  BY <1>2 DEF Wait, Inv, group
<1>3. CASE Terminate
  BY <1>3 DEF Terminate, Die, Inv
<1>4. CASE LeaderGone
  BY <1>4 DEF LeaderGone, Inv, group
<1>5. CASE KillGroup
  BY <1>5 DEF KillGroup, Die, Inv
<1> QED
  BY <1>1, <1>2, <1>3, <1>4, <1>5 DEF Watchdog

-----------------------------------------------------------------------------
LEMMA TypeInit == Init => TypeOK
  BY DEF Init, TypeOK

LEMMA TypeStep ==
  ASSUME TypeOK, [Next]_vars
  PROVE TypeOK'
<1> USE LeaderAssumption DEF TypeOK, group, threads
<1>1. ASSUME NEW k \in Procs, Fork(k) PROVE TypeOK'
  BY <1>1 DEF Fork
<1>2. ASSUME NEW k \in Procs, Exit(k) PROVE TypeOK'
  BY <1>2 DEF Exit, Die
<1>7. ASSUME NEW k \in Procs, Redirect(k) PROVE TypeOK'
  BY <1>7 DEF Redirect
<1>3. CASE Reader \/ SpawnFails \/ OutputFails
  BY <1>3 DEF Reader, Spawn, ReadToEnd, Finish, SpawnFails, OutputFails
<1>4. CASE Watchdog
  <2>1. CASE Poll \/ Wait \/ LeaderGone
    BY <2>1 DEF Poll, Wait, LeaderGone
  <2>2. CASE Terminate \/ KillGroup
    BY <2>2 DEF Terminate, KillGroup, Die
  <2> QED
    BY <1>4, <2>1, <2>2 DEF Watchdog
<1>5. CASE Cancel \/ Deadline
  BY <1>5 DEF Cancel, Deadline
<1>6. CASE UNCHANGED vars
  BY <1>6 DEF vars
<1> QED
  BY <1>1, <1>2, <1>3, <1>4, <1>5, <1>6, <1>7 DEF Next

\* The state of a step always has its type.
THEOREM TypeCorrect == Spec => []TypeOK
<1>1. Init => TypeOK
  BY TypeInit
<1>2. TypeOK /\ [Next]_vars => TypeOK'
  BY TypeStep
<1> QED
  BY <1>1, <1>2, PTL DEF Spec

LEMMA InvStep ==
  ASSUME Inv, TypeOK, [Next]_vars
  PROVE Inv'
<1>1. ASSUME NEW k \in Procs, Fork(k) \/ Exit(k) \/ Redirect(k) PROVE Inv'
  BY <1>1, GroupInv
<1>2. CASE Reader \/ SpawnFails \/ OutputFails
  BY <1>2, ReaderInv
<1>3. CASE Watchdog
  BY <1>3, WatchdogInv
<1>4. CASE Cancel \/ Deadline
  BY <1>4 DEF Cancel, Deadline, Inv, group, threads
<1>5. CASE UNCHANGED vars
  BY <1>5 DEF vars, Inv
<1> QED
  BY <1>1, <1>2, <1>3, <1>4, <1>5 DEF Next

LEMMA InvAlways == Spec => []Inv
<1>1. Init => Inv
  BY InitInv
<1>2. Inv /\ TypeOK /\ [Next]_vars => Inv'
  BY InvStep
<1> QED
  BY <1>1, <1>2, TypeCorrect, PTL DEF Spec

\* A command that the watchdog killed is never reported as a command that
\* failed by itself (_step_shell's stopped["reason"] and its tests after wait).
THEOREM KillsAreExplained == Spec => []KillIsExplained
<1>1. Inv /\ TypeOK => KillIsExplained
  BY DEF Inv, TypeOK, KillIsExplained
<1> QED
  BY <1>1, InvAlways, TypeCorrect, PTL

\* A step that reports how its command ended has no shell left, and a success
\* is the shell's own exit status 0.
THEOREM ShellsAreReaped == Spec => []ShellIsReaped
<1>1. Inv => ShellIsReaped
  BY DEF Inv, ShellIsReaped
<1> QED
  BY <1>1, InvAlways, PTL

-----------------------------------------------------------------------------
(* What CancelStopsShell and GroupDies rest on.                            *)

\* The watchdog does not leave before the shell has, not even when the step's
\* thread does with an exception: a cancellation finds somebody on duty.
ShellIsWatched == Leader \in alive => watchdog \in {"poll", "wait", "kill", "grace"}

\* Once the watchdog has a reason, and is past its signal, a group of which nobody
\* ignores SIGTERM is gone, and nobody is left who could fork another process.
TermReachesAll == reason # "none" /\ stubborn = {} /\ watchdog # "kill" => alive = {}

WatchInv ==
  /\ ShellIsWatched /\ TermReachesAll
  /\ reader = "start" => watchdog = "off"
  /\ reason # "none" => watchdog \in {"kill", "grace", "ended"}

LEMMA WatchStep ==
  ASSUME TypeOK, Inv, WatchInv, [Next]_vars
  PROVE WatchInv'
<1> USE DEF TypeOK, Inv, WatchInv, ShellIsWatched, TermReachesAll, group, threads
<1>1. ASSUME NEW k \in Procs, Fork(k) \/ Exit(k) \/ Redirect(k) PROVE WatchInv'
  BY <1>1 DEF Fork, Exit, Redirect, Die
<1>2. CASE Spawn
  BY <1>2 DEF Spawn
<1>3. CASE SpawnFails \/ OutputFails \/ ReadToEnd \/ Finish
  BY <1>3 DEF SpawnFails, OutputFails, ReadToEnd, Finish
<1>4. CASE Poll \/ Wait \/ LeaderGone
  BY <1>4 DEF Poll, Wait, LeaderGone
<1>5. CASE Terminate
  BY <1>5 DEF Terminate, Die
<1>6. CASE KillGroup
  BY <1>6 DEF KillGroup, Die
<1>7. CASE Cancel \/ Deadline \/ UNCHANGED vars
  BY <1>7 DEF Cancel, Deadline, vars
<1> QED
  BY <1>1, <1>2, <1>3, <1>4, <1>5, <1>6, <1>7 DEF Next, Reader, Watchdog

\* A shell that runs has a watchdog until it is dead, and a group of which nobody
\* resists does not survive the watchdog's signal (_kill_process_group).
THEOREM ShellsAreWatched == Spec => []ShellIsWatched /\ []TermReachesAll
<1>1. Init => WatchInv
  BY LeaderAssumption DEF Init, WatchInv, ShellIsWatched, TermReachesAll
<1>2. TypeOK /\ Inv /\ WatchInv /\ [Next]_vars => WatchInv'
  BY WatchStep
<1>3. WatchInv => ShellIsWatched /\ TermReachesAll
  BY DEF WatchInv
<1> QED
  BY <1>1, <1>2, <1>3, TypeCorrect, InvAlways, PTL DEF Spec

\* The calls the watchdog of a cancelled step has before it: the wait for the
\* event, the signal, the grace period.
Duty == CASE watchdog = "poll" -> 4
          [] watchdog = "wait" -> 3
          [] watchdog = "kill" -> 2
          [] watchdog = "grace" -> 1
          [] OTHER -> 0

\* Once the event is set each of its steps takes the watchdog nearer to the last
\* of them, and nothing else moves it; when none is left, the shell is dead.
WatchdogAdvances ==
  [][cancel => /\ Watchdog => Duty' < Duty
               /\ Duty' <= Duty
               /\ Duty' = 0 => Leader \notin alive']_vars

\* A cancelled shell is dead after at most four steps of its watchdog, whoever
\* holds its output and even if the step's thread has left (_step_shell's watch).
THEOREM WatchdogsAlwaysAdvance == Spec => WatchdogAdvances
<1>1. TypeOK /\ Inv /\ WatchInv /\ WatchInv' /\ [Next]_vars =>
        [cancel => /\ Watchdog => Duty' < Duty
                   /\ Duty' <= Duty
                   /\ Duty' = 0 => Leader \notin alive']_vars
  <2> SUFFICES ASSUME TypeOK, WatchInv, WatchInv', Next, cancel
               PROVE  /\ Watchdog => Duty' < Duty
                      /\ Duty' <= Duty
                      /\ Duty' = 0 => Leader \notin alive'
    OBVIOUS
  <2>1. ASSUME Watchdog PROVE Duty' < Duty
    <3>1. CASE Poll
      <4>1. watchdog = "poll" /\ watchdog' \in {"wait", "ended"}
        BY <3>1 DEF Poll
      <4> QED
        BY <4>1 DEF Duty
    <3>2. CASE Wait
      <4>1. watchdog = "wait" /\ watchdog' = "kill"
        BY <3>2 DEF Wait
      <4> QED
        BY <4>1 DEF Duty
    <3>3. CASE Terminate
      <4>1. watchdog = "kill" /\ watchdog' \in {"grace", "ended"}
        BY <3>3 DEF Terminate
      <4> QED
        BY <4>1 DEF Duty
    <3>4. CASE LeaderGone \/ KillGroup
      <4>1. watchdog = "grace" /\ watchdog' = "ended"
        BY <3>4 DEF LeaderGone, KillGroup
      <4> QED
        BY <4>1 DEF Duty
    <3> QED
      BY <2>1, <3>1, <3>2, <3>3, <3>4 DEF Watchdog
  <2>2. Watchdog => Duty' <= Duty
    BY <2>1, SMT DEF Duty
  <2>3. ~Watchdog => Duty' <= Duty
    <3>1. ~Watchdog => UNCHANGED watchdog
      BY DEF Next, Reader, Fork, Exit, Redirect, Spawn, ReadToEnd, Finish, SpawnFails, OutputFails,
             Cancel, Deadline, group, threads
    <3> QED
      BY <3>1 DEF Duty
  <2>4. Duty' = 0 => Leader \notin alive'
    BY DEF WatchInv, ShellIsWatched, Duty
  <2> QED
    BY <2>1, <2>2, <2>3, <2>4
<1>2. Init => WatchInv
  BY LeaderAssumption DEF Init, WatchInv, ShellIsWatched, TermReachesAll
<1>3. TypeOK /\ Inv /\ WatchInv /\ [Next]_vars => WatchInv'
  BY WatchStep
<1> QED
  BY <1>1, <1>2, <1>3, TypeCorrect, InvAlways, PTL DEF Spec, WatchdogAdvances

-----------------------------------------------------------------------------
(* The scheduler, beside the shell step: its constants and variables.      *)

CONSTANTS Pipes, NoPipe, Crons, MaxTime, MaxActive, MaxEdits, MaxCrashes

VARIABLES now, pipes, cron, enabled, last, active, changes, at, tick, todo, copy, expired, cur, slots,
          ran, again, backdated, edits, crashes

Cron == INSTANCE Scheduler

\* What Scheduler assumes of its expressions and bounds.
CronsAreTimes == Crons \subseteq SUBSET Nat /\ Pipes \subseteq Nat
BoundsAreNumbers == {MaxTime, MaxActive, MaxEdits, MaxCrashes} \subseteq Nat

\* The types of what the argument is about.
SlotTypes ==
  /\ now \in Nat /\ tick \in Nat
  /\ cron \in [Pipes -> SUBSET Nat]
  /\ last \in [Pipes -> Nat]
  /\ pipes \subseteq Pipes /\ todo \subseteq Pipes /\ cur \in Pipes \union {NoPipe}
  /\ copy \in [Pipes -> [cron : SUBSET Nat, last : Nat]]
  /\ expired \in BOOLEAN
  /\ slots \subseteq Nat /\ ran \in [Pipes -> SUBSET Nat] /\ again \in [Pipes -> SUBSET Nat]
  /\ changes \subseteq [pipe : Pipes, cron : SUBSET Nat, enabled : BOOLEAN, at : Nat,
                         newCron : BOOLEAN, newEnabled : BOOLEAN]

\* Nothing is counted from the future, so a claim never moves a schedule back
\* behind what has run.
NothingAhead ==
  /\ tick <= now
  /\ \A p \in Pipes : last[p] <= now /\ copy[p].last <= tick
  /\ \A ch \in changes : ch.at <= now

\* What has run was claimed, and no later claim or change has gone back before it
\* without giving it back.
RanIsPast == \A p \in Pipes : \A f \in ran[p] : f <= last[p] \/ f \in again[p]

\* A pipeline that the tick has still to look at has not run since it was read.
CopiesCover ==
  at # "sleep" => \A p \in todo : \A f \in ran[p] : f <= copy[p].last \/ f \in again[p]

\* The cron times of a claim have not run, unless they were given back, and the
\* claim is in the row.
ClaimIsNew ==
  at \in {"check", "launch"} =>
    /\ cur \in Pipes \ todo
    /\ slots \intersect ran[cur] \subseteq again[cur]
    /\ \A f \in slots : f <= last[cur] \/ f \in again[cur]

SlotInv == SlotTypes /\ NothingAhead /\ RanIsPast /\ CopiesCover /\ ClaimIsNew

LEMMA SlotInit ==
  ASSUME CronsAreTimes, Cron!Init
  PROVE  SlotInv
  <1>1. SlotTypes
    BY DEF CronsAreTimes, Cron!Init, SlotTypes, Cron!NoCopy
  <1> QED
    BY <1>1 DEF Cron!Init, SlotInv, NothingAhead, RanIsPast, CopiesCover, ClaimIsNew, Cron!NoCopy

\* What the tick sees of a pipeline covers what has run, and is not ahead of it.
LEMMA SeenCovers ==
  ASSUME SlotInv, at # "sleep", NEW p \in todo
  PROVE  /\ Cron!Seen(p).cron \subseteq Nat /\ Cron!Seen(p).last \in Nat
         /\ \A f \in ran[p] : f <= Cron!Seen(p).last \/ f \in again[p]
         /\ \A f \in ran[p] : f <= tick \/ f \in again[p]
  <1>1. p \in Pipes /\ copy[p].cron \subseteq Nat /\ copy[p].last \in Nat /\ cron[p] \subseteq Nat
        /\ last[p] \in Nat /\ ran[p] \subseteq Nat /\ tick \in Nat
    BY DEF SlotInv, SlotTypes
  <1>2. /\ copy[p].last <= tick
        /\ \A f \in ran[p] : (f <= copy[p].last /\ f <= last[p]) \/ f \in again[p]
    BY <1>1 DEF SlotInv, NothingAhead, CopiesCover, RanIsPast
  <1> QED
    BY <1>1, <1>2 DEF Cron!Seen

LEMMA SleepKeeps ==
  ASSUME SlotInv, Cron!Sleep, UNCHANGED <<now, pipes, cron, last, ran, again>>, changes' \subseteq changes
  PROVE  SlotInv'
  <1>1. /\ at' = "sleep" /\ tick' = 0 /\ todo' = {} /\ expired' = FALSE /\ cur' = NoPipe /\ slots' = {}
        /\ copy' = [p \in Pipes |-> [cron |-> {}, last |-> 0]]
    BY DEF Cron!Sleep, Cron!NoCopy
  <1>2. SlotTypes'
    BY <1>1 DEF SlotInv, SlotTypes
  <1> QED
    BY <1>1, <1>2 DEF SlotInv, SlotTypes, NothingAhead, RanIsPast, CopiesCover, ClaimIsNew

LEMMA TickStep ==
  ASSUME SlotInv, Cron!Tick
  PROVE  SlotInv'
  <1>1. CASE Cron!BeginTick
    <2>1. SlotTypes'
      BY <1>1 DEF Cron!BeginTick, Cron!schedule, SlotInv, SlotTypes
    <2>2. \A p \in Pipes : copy'[p].last = last[p] /\ tick' = now
      BY <1>1 DEF Cron!BeginTick
    <2> QED
      BY <1>1, <2>1, <2>2
      DEF Cron!BeginTick, Cron!schedule, SlotInv, SlotTypes, NothingAhead, RanIsPast, CopiesCover, ClaimIsNew
  <1>2. CASE Cron!EndTick \/ Cron!TickFails
    BY <1>2, SleepKeeps DEF Cron!EndTick, Cron!TickFails, Cron!schedule
  <1>3. CASE Cron!SkipActive \/ Cron!FoundIdle
    BY <1>3
    DEF Cron!SkipActive, Cron!FoundIdle, Cron!schedule, Cron!session, SlotInv, SlotTypes, NothingAhead,
        RanIsPast, CopiesCover, ClaimIsNew
  <1>4. CASE Cron!LaunchScheduled
    <2>1. /\ at = "launch" /\ at' = "scan" /\ cur' = NoPipe /\ slots' = {}
          /\ ran' = [ran EXCEPT ![cur] = @ \union slots]
          /\ UNCHANGED <<now, pipes, tick, cron, last, todo, copy, expired, changes, again>>
      BY <1>4 DEF Cron!LaunchScheduled, Cron!schedule, Cron!session
    <2>2. cur \in Pipes \ todo /\ \A f \in slots : f <= last[cur] \/ f \in again[cur]
      BY <2>1 DEF SlotInv, ClaimIsNew
    <2>3. SlotTypes' /\ NothingAhead' /\ ClaimIsNew'
      BY <2>1, <2>2 DEF SlotInv, SlotTypes, NothingAhead, ClaimIsNew
    <2>4. RanIsPast' /\ CopiesCover'
      BY <2>1, <2>2 DEF SlotInv, SlotTypes, RanIsPast, CopiesCover
    <2> QED
      BY <2>3, <2>4 DEF SlotInv
  <1>5. ASSUME NEW p \in Pipes, Cron!NotDue(p) PROVE SlotInv'
    BY <1>5
    DEF Cron!NotDue, Cron!Looks, Cron!schedule, SlotInv, SlotTypes, NothingAhead, RanIsPast, CopiesCover, ClaimIsNew
  <1>6. ASSUME NEW p \in Pipes, Cron!Claim(p) PROVE SlotInv'
    <2>1. /\ at = "scan" /\ p \in todo /\ at' = "check" /\ cur' = p /\ todo' = todo \ {p}
          /\ last' = [last EXCEPT ![p] = tick] /\ slots' = Cron!Due(Cron!Seen(p).cron, Cron!Seen(p).last, tick)
          /\ expired' = TRUE /\ UNCHANGED <<now, pipes, tick, cron, copy, ran, changes, again>>
      BY <1>6 DEF Cron!Claim, Cron!Looks, Cron!SeenDue, Cron!schedule
    <2>2. \A f \in ran[p] : (f <= tick /\ f <= Cron!Seen(p).last) \/ f \in again[p]
      BY <2>1, SeenCovers
    <2>3. \A f \in slots' : f \in Nat /\ f <= tick /\ Cron!Seen(p).last < f
      BY <2>1, SeenCovers DEF Cron!Due
    <2>4. SlotTypes'
      BY <2>1, <2>3 DEF SlotInv, SlotTypes
    <2>5. NothingAhead'
      BY <2>1 DEF SlotInv, SlotTypes, NothingAhead
    <2>6. RanIsPast' /\ CopiesCover'
      BY <2>1, <2>2 DEF SlotInv, SlotTypes, RanIsPast, CopiesCover
    <2>7. \A f \in slots' : f \in ran[p] => f \in again[p]
      BY <2>1, <2>2, <2>3, SeenCovers
    <2>8. ClaimIsNew'
      BY <2>1, <2>3, <2>7 DEF SlotInv, SlotTypes, ClaimIsNew
    <2> QED
      BY <2>4, <2>5, <2>6, <2>8 DEF SlotInv
  <1> QED
    BY <1>1, <1>2, <1>3, <1>4, <1>5, <1>6 DEF Cron!Tick

LEMMA OthersStep ==
  ASSUME CronsAreTimes, SlotInv, Cron!Next, ~Cron!Tick
  PROVE  SlotInv'
  <1>1. CASE Cron!Time
    BY <1>1
    DEF Cron!Time, Cron!schedule, Cron!session, SlotInv, SlotTypes, NothingAhead, RanIsPast, CopiesCover,
        ClaimIsNew
  <1>2. CASE Cron!Restart
    BY <1>2, SleepKeeps DEF Cron!Restart, Cron!schedule
  <1>3. ASSUME NEW p \in Pipes, Cron!LaunchOther(p) \/ Cron!RunEnds(p) \/ Cron!DeletePipeline(p) PROVE SlotInv'
    <2>1. /\ pipes' \subseteq pipes
          /\ UNCHANGED <<now, cron, last, at, tick, todo, copy, expired, cur, slots, ran, changes, again>>
      BY <1>3 DEF Cron!LaunchOther, Cron!RunEnds, Cron!DeletePipeline, Cron!schedule, Cron!session
    <2> QED
      BY <2>1 DEF SlotInv, SlotTypes, NothingAhead, RanIsPast, CopiesCover, ClaimIsNew
  <1>4. ASSUME NEW p \in Pipes, NEW c \in Crons, NEW e \in BOOLEAN,
               Cron!ChangeSchedule(p, c, e) \/ Cron!ImportSchedule(p, c, e)
        PROVE  SlotInv'
    <2> DEFINE ch == [pipe |-> p, cron |-> c, enabled |-> e, at |-> now,
                      newCron |-> c # cron[p], newEnabled |-> e # enabled[p]]
    <2>1. /\ changes' = changes \union {ch} /\ c \subseteq Nat
          /\ UNCHANGED <<now, pipes, cron, last, at, tick, todo, copy, expired, cur, slots, ran, again>>
      BY <1>4
      DEF CronsAreTimes, Cron!ChangeSchedule, Cron!ImportSchedule, Cron!Reads, Cron!session
    <2>2. ch \in [pipe : Pipes, cron : SUBSET Nat, enabled : BOOLEAN, at : Nat,
                  newCron : BOOLEAN, newEnabled : BOOLEAN] /\ ch.at <= now
      BY <2>1 DEF SlotInv, SlotTypes
    <2> HIDE DEF ch
    <2>3. SlotTypes' /\ NothingAhead'
      BY <2>1, <2>2 DEF SlotInv, SlotTypes, NothingAhead
    <2> QED
      BY <2>1, <2>3 DEF SlotInv, RanIsPast, CopiesCover, ClaimIsNew
  <1>5. ASSUME NEW ch \in changes, Cron!CommitChange(ch) PROVE SlotInv'
    <2> DEFINE p == ch.pipe
    <2>1. /\ p \in Pipes /\ ch.cron \subseteq Nat /\ ch.at \in Nat /\ ch.at <= now
          /\ cron[p] \subseteq Nat /\ last[p] \in Nat /\ again[p] \subseteq Nat
      BY DEF SlotInv, SlotTypes, NothingAhead
    <2>2. /\ changes' = changes \ {ch}
          /\ cron' = [cron EXCEPT ![p] = IF ch.newCron THEN ch.cron ELSE @]
          /\ last' = [last EXCEPT ![p] = ch.at]
          /\ again' = [again EXCEPT ![p] = @ \union (ch.at + 1)..last[p]]
          /\ UNCHANGED <<now, pipes, at, tick, todo, copy, expired, cur, slots, ran>>
      BY <1>5 DEF Cron!CommitChange
    <2> HIDE DEF p
    <2>3. /\ last' \in [Pipes -> Nat] /\ cron' \in [Pipes -> SUBSET Nat] /\ again' \in [Pipes -> SUBSET Nat]
          /\ \A q \in Pipes : again[q] \subseteq again'[q]
      BY <2>1, <2>2 DEF SlotInv, SlotTypes
    <2>4. \A q \in Pipes : \A f \in Nat : f <= last[q] => f <= last'[q] \/ f \in again'[q]
      <3> SUFFICES ASSUME NEW q \in Pipes, NEW f \in Nat, f <= last[q], ~(f <= last'[q])
                   PROVE  f \in again'[q]
        OBVIOUS
      <3>1. q = p /\ ~(f <= ch.at)
        BY <2>1, <2>2 DEF SlotInv, SlotTypes
      <3>2. f \in (ch.at + 1)..last[p]
        BY <2>1, <3>1
      <3> QED
        BY <2>1, <2>2, <3>1, <3>2 DEF SlotInv, SlotTypes
    <2>5. SlotTypes'
      BY <2>2, <2>3 DEF SlotInv, SlotTypes
    <2>6. NothingAhead'
      BY <2>1, <2>2 DEF SlotInv, SlotTypes, NothingAhead
    <2>7. RanIsPast' /\ CopiesCover'
      BY <2>2, <2>3, <2>4 DEF SlotInv, SlotTypes, RanIsPast, CopiesCover
    <2>8. ClaimIsNew'
      BY <2>2, <2>3, <2>4 DEF SlotInv, SlotTypes, ClaimIsNew
    <2> QED
      BY <2>5, <2>6, <2>7, <2>8 DEF SlotInv
  <1>6. ASSUME NEW ch \in changes, Cron!DropChange(ch) PROVE SlotInv'
    <2>1. /\ changes' \subseteq changes
          /\ UNCHANGED <<now, pipes, cron, last, at, tick, todo, copy, expired, cur, slots, ran, again>>
      BY <1>6 DEF Cron!DropChange, Cron!session
    <2> QED
      BY <2>1 DEF SlotInv, SlotTypes, NothingAhead, RanIsPast, CopiesCover, ClaimIsNew
  <1> QED
    BY <1>1, <1>2, <1>3, <1>4, <1>5, <1>6 DEF Cron!Next

\* A cron time leads to at most one run, but for those a late commit of
\* update_settings gave back: what a launch adds was claimed from a view of the row
\* that covers all else that has run.
THEOREM SlotsRunOnce ==
  ASSUME CronsAreTimes
  PROVE  Cron!Spec => Cron!OncePerSlot
  <1>0. Cron!Init => SlotInv
    BY SlotInit
  <1>1. SlotInv /\ [Cron!Next]_(Cron!vars) => SlotInv'
    <2>1. SlotInv /\ Cron!Next => SlotInv'
      BY TickStep, OthersStep
    <2>2. SlotInv /\ UNCHANGED Cron!vars => SlotInv'
      BY DEF Cron!vars, SlotInv, SlotTypes, NothingAhead, RanIsPast, CopiesCover, ClaimIsNew
    <2> QED
      BY <2>1, <2>2
  <1>2. SlotInv /\ [Cron!Next]_(Cron!vars) => [Cron!LaunchScheduled => slots \intersect ran[cur] \subseteq again[cur]]_(Cron!vars)
    BY DEF SlotInv, ClaimIsNew, Cron!LaunchScheduled
  <1> QED
    BY <1>1, <1>2, <1>0, PTL DEF Cron!Spec, Cron!OncePerSlot

-----------------------------------------------------------------------------
(* The scheduler's types, and what DueIsServed rests on.                   *)

\* A tick that is about to launch found its pipeline idle, and other launches
\* stay below their bound.
CronTypes ==
  /\ Cron!TypeOK /\ ran \in [Pipes -> SUBSET (0..MaxTime)] /\ again \in [Pipes -> SUBSET (0..MaxTime)]
  /\ at = "launch" => active[cur] <= MaxActive

LEMMA CronTypesInit ==
  ASSUME BoundsAreNumbers, Cron!Init
  PROVE  CronTypes
  <1> USE DEF BoundsAreNumbers
  <1>1. copy \in [Pipes -> [cron : Crons \union {{}}, last : 0..MaxTime]]
    BY DEF Cron!Init, Cron!NoCopy
  <1>2. /\ ran \in [Pipes -> SUBSET (0..MaxTime)] /\ again \in [Pipes -> SUBSET (0..MaxTime)]
        /\ changes = {} /\ backdated = {} /\ active \in [Pipes -> 0..(MaxActive + 1)]
    BY DEF Cron!Init
  <1>3. /\ now \in 0..MaxTime /\ tick \in 0..MaxTime /\ last \in [Pipes -> 0..MaxTime]
        /\ cron \in [Pipes -> Crons] /\ enabled \in [Pipes -> BOOLEAN]
        /\ pipes = Pipes /\ todo = {} /\ slots = {} /\ cur = NoPipe /\ at = "sleep" /\ expired = FALSE
        /\ edits \in 0..MaxEdits /\ crashes \in 0..MaxCrashes
    BY DEF Cron!Init
  <1> QED
    BY <1>1, <1>2, <1>3 DEF CronTypes, Cron!TypeOK, Cron!Times

LEMMA CronTypesSleep ==
  ASSUME BoundsAreNumbers, CronTypes, Cron!Sleep,
         UNCHANGED <<now, pipes, cron, enabled, last, ran, again, edits>>, changes' \subseteq changes,
         crashes' \in 0..MaxCrashes, active' \in [Pipes -> 0..(MaxActive + 1)]
  PROVE  CronTypes'
  <1>1. Cron!NoCopy \in [Pipes -> [cron : Crons \union {{}}, last : 0..MaxTime]]
    BY DEF BoundsAreNumbers, Cron!NoCopy
  <1>2. /\ at' = "sleep" /\ tick' \in 0..MaxTime /\ todo' = {} /\ expired' = FALSE /\ backdated' = {}
        /\ cur' = NoPipe /\ slots' = {} /\ copy' \in [Pipes -> [cron : Crons \union {{}}, last : 0..MaxTime]]
    BY <1>1 DEF BoundsAreNumbers, Cron!Sleep
  <1> QED
    BY <1>2 DEF CronTypes, Cron!TypeOK, Cron!Times

LEMMA CronTypesTick ==
  ASSUME CronsAreTimes, BoundsAreNumbers, CronTypes, Cron!Tick
  PROVE  CronTypes'
  <1> USE DEF BoundsAreNumbers, CronTypes, Cron!TypeOK, Cron!Times, Cron!schedule, Cron!session
  <1>1. CASE Cron!BeginTick
    BY <1>1 DEF Cron!BeginTick
  <1>2. CASE Cron!EndTick \/ Cron!TickFails
    BY <1>2, CronTypesSleep DEF Cron!EndTick, Cron!TickFails
  <1>3. CASE Cron!SkipActive
    BY <1>3 DEF Cron!SkipActive
  <1>4. CASE Cron!FoundIdle
    BY <1>4 DEF Cron!FoundIdle
  <1>5. CASE Cron!LaunchScheduled
    <2>1. active'[cur] = active[cur] + 1 /\ active'[cur] \in 0..(MaxActive + 1)
      BY <1>5 DEF Cron!LaunchScheduled
    <2>2. active' \in [Pipes -> 0..(MaxActive + 1)]
      BY <1>5, <2>1 DEF Cron!LaunchScheduled
    <2>3. ran' \in [Pipes -> SUBSET (0..MaxTime)]
      BY <1>5 DEF Cron!LaunchScheduled
    <2> QED
      BY <1>5, <2>2, <2>3 DEF Cron!LaunchScheduled
  <1>6. ASSUME NEW p \in Pipes, Cron!NotDue(p) PROVE CronTypes'
    BY <1>6 DEF Cron!NotDue, Cron!Looks
  <1>7. ASSUME NEW p \in Pipes, Cron!Claim(p) PROVE CronTypes'
    <2>1. slots' \subseteq 0..MaxTime
      <3>1. \A f \in slots' : f \in Nat /\ f <= tick
        <4>1. Cron!Seen(p).cron \subseteq Nat
          <5>1. p \in Pipes /\ cron[p] \in Crons /\ copy[p].cron \in Crons \union {{}}
            BY <1>7 DEF Cron!Claim, Cron!Looks
          <5> QED
            BY <5>1 DEF Cron!Seen, CronsAreTimes
        <4> QED
          BY <1>7, <4>1 DEF Cron!Claim, Cron!SeenDue, Cron!Due
      <3> QED
        BY <3>1
    <2> QED
      BY <1>7, <2>1 DEF Cron!Claim, Cron!Looks
  <1> QED
    BY <1>1, <1>2, <1>3, <1>4, <1>5, <1>6, <1>7 DEF Cron!Tick

LEMMA CronTypesOthers ==
  ASSUME BoundsAreNumbers, CronTypes, Cron!Next, ~Cron!Tick
  PROVE  CronTypes'
  <1> USE DEF BoundsAreNumbers, CronTypes, Cron!TypeOK, Cron!Times, Cron!schedule, Cron!session
  <1>1. CASE Cron!Time
    BY <1>1 DEF Cron!Time
  <1>2. CASE Cron!Restart
    BY <1>2, CronTypesSleep DEF Cron!Restart
  <1>3. ASSUME NEW p \in Pipes, Cron!LaunchOther(p) \/ Cron!RunEnds(p) PROVE CronTypes'
    <2>1. /\ active' \in [Pipes -> 0..(MaxActive + 1)]
          /\ \A q \in Pipes : active[q] <= MaxActive => active'[q] <= MaxActive
      <3>1. CASE Cron!LaunchOther(p)
        BY <3>1 DEF Cron!LaunchOther
      <3>2. CASE Cron!RunEnds(p)
        BY <3>2 DEF Cron!RunEnds
      <3> QED
        BY <1>3, <3>1, <3>2
    <2> QED
      BY <1>3, <2>1 DEF Cron!LaunchOther, Cron!RunEnds
  <1>4. ASSUME NEW p \in Pipes, Cron!DeletePipeline(p) PROVE CronTypes'
    BY <1>4 DEF Cron!DeletePipeline
  <1>5. ASSUME NEW p \in Pipes, NEW c \in Crons, NEW e \in BOOLEAN,
               Cron!ChangeSchedule(p, c, e) \/ Cron!ImportSchedule(p, c, e)
        PROVE  CronTypes'
    <2>1. edits' \in 0..MaxEdits
      BY <1>5 DEF Cron!ChangeSchedule, Cron!ImportSchedule, Cron!Reads
    <2>2. UNCHANGED <<now, pipes, cron, enabled, last, active, at, tick, todo, copy, expired, backdated, cur,
                      slots, ran, again, crashes>>
      BY <1>5 DEF Cron!ChangeSchedule, Cron!ImportSchedule, Cron!Reads
    <2>3. changes' \subseteq [pipe : Pipes, cron : Crons, enabled : BOOLEAN, at : 0..MaxTime,
                              newCron : BOOLEAN, newEnabled : BOOLEAN]
      <3> DEFINE ch == [pipe |-> p, cron |-> c, enabled |-> e, at |-> now,
                        newCron |-> c # cron[p], newEnabled |-> e # enabled[p]]
      <3>1. changes' = changes \union {ch}
        BY <1>5 DEF Cron!ChangeSchedule, Cron!ImportSchedule, Cron!Reads
      <3>2. ch \in [pipe : Pipes, cron : Crons, enabled : BOOLEAN, at : 0..MaxTime,
                    newCron : BOOLEAN, newEnabled : BOOLEAN]
        OBVIOUS
      <3> HIDE DEF ch
      <3> QED
        BY <3>1, <3>2
    <2> QED
      BY <2>1, <2>2, <2>3
  <1>6. ASSUME NEW ch \in changes, Cron!CommitChange(ch) PROVE CronTypes'
    <2> DEFINE p == ch.pipe
    <2>1. /\ p \in Pipes /\ ch.cron \in Crons /\ ch.enabled \in BOOLEAN /\ ch.at \in 0..MaxTime
          /\ last[p] \in 0..MaxTime
      OBVIOUS
    <2>2. (ch.at + 1)..last[p] \subseteq 0..MaxTime
      BY <2>1
    <2>3. again' \in [Pipes -> SUBSET (0..MaxTime)]
      BY <1>6, <2>1, <2>2 DEF Cron!CommitChange
    <2>4. cron' \in [Pipes -> Crons] /\ enabled' \in [Pipes -> BOOLEAN] /\ last' \in [Pipes -> 0..MaxTime]
      BY <1>6, <2>1 DEF Cron!CommitChange
    <2>5. backdated' \subseteq Pipes /\ changes' \subseteq changes
      BY <1>6, <2>1 DEF Cron!CommitChange
    <2> QED
      BY <1>6, <2>3, <2>4, <2>5 DEF Cron!CommitChange
  <1>7. ASSUME NEW ch \in changes, Cron!DropChange(ch) PROVE CronTypes'
    BY <1>7 DEF Cron!DropChange
  <1> QED
    BY <1>1, <1>2, <1>3, <1>4, <1>5, <1>6, <1>7 DEF Cron!Next

\* Every variable of Scheduler keeps its type: a cron time that fires is one the
\* clock has reached, and a scheduled launch adds at most one run to the others'.
THEOREM ScheduleTypeCorrect ==
  ASSUME CronsAreTimes, BoundsAreNumbers
  PROVE  Cron!Spec => []Cron!TypeOK
  <1>1. Cron!Init => CronTypes
    BY CronTypesInit
  <1>2. CronTypes /\ [Cron!Next]_(Cron!vars) => CronTypes'
    <2>1. CronTypes /\ Cron!Next => CronTypes'
      BY CronTypesTick, CronTypesOthers
    <2>2. CronTypes /\ UNCHANGED Cron!vars => CronTypes'
      BY DEF Cron!vars, CronTypes, Cron!TypeOK
    <2> QED
      BY <2>1, <2>2
  <1>3. CronTypes => Cron!TypeOK
    BY DEF CronTypes
  <1> QED
    BY <1>1, <1>2, <1>3, PTL DEF Cron!Spec

\* Is the row of p done with, as far as this tick is concerned?
Served(p) == enabled[p] /\ p \notin backdated => Cron!Due(cron[p], last[p], tick) = {}

\* What the tick is through with is not due.  What it has still to look at is as
\* it was read, or counts from a change made since: then nothing is due in it.
ScanInv ==
  at # "sleep" =>
    /\ \A p \in pipes \ todo : Served(p)
    /\ \A p \in todo : \/ copy[p] = [cron |-> cron[p], last |-> last[p]]
                        \/ tick <= last[p] \/ p \in backdated

LEMMA CountedFrom ==
  ASSUME NEW c \in SUBSET Nat, NEW b \in Nat, NEW t \in Nat, t <= b
  PROVE  Cron!Due(c, b, t) = {}
  <1> SUFFICES ASSUME NEW f \in c, b < f, f <= t PROVE FALSE
    BY DEF Cron!Due
  <1> f \in Nat
    OBVIOUS
  <1> QED
    OBVIOUS

LEMMA ScanTick ==
  ASSUME SlotInv, enabled \in [Pipes -> BOOLEAN], ScanInv, Cron!Tick
  PROVE  ScanInv'
  <1> USE DEF SlotInv, SlotTypes, ScanInv, Cron!schedule, Cron!session
  <1>1. CASE Cron!BeginTick
    BY <1>1 DEF Cron!BeginTick, Served
  <1>2. CASE Cron!EndTick \/ Cron!TickFails
    BY <1>2 DEF Cron!EndTick, Cron!TickFails, Cron!Sleep
  <1>3. CASE Cron!SkipActive \/ Cron!FoundIdle \/ Cron!LaunchScheduled
    BY <1>3 DEF Cron!SkipActive, Cron!FoundIdle, Cron!LaunchScheduled, Served
  <1>4. ASSUME NEW p \in Pipes, Cron!NotDue(p) PROVE ScanInv'
    <2>1. /\ at = "scan" /\ p \in todo /\ todo' = todo \ {p}
          /\ Cron!Due(Cron!Seen(p).cron, Cron!Seen(p).last, tick) = {}
          /\ UNCHANGED <<pipes, cron, enabled, last, at, tick, copy, backdated>>
      BY <1>4 DEF Cron!NotDue, Cron!Looks, Cron!SeenDue
    <2>2. p \in backdated \/ Cron!Due(cron[p], last[p], tick) = {}
      <3>1. CASE tick <= last[p]
        BY <3>1, CountedFrom
      <3>2. CASE copy[p] = [cron |-> cron[p], last |-> last[p]]
        BY <2>1, <3>2 DEF Cron!Seen
      <3> QED
        BY <2>1, <3>1, <3>2
    <2> QED
      BY <2>1, <2>2 DEF Served
  <1>5. ASSUME NEW p \in Pipes, Cron!Claim(p) PROVE ScanInv'
    <2>1. /\ at = "scan" /\ p \in todo /\ todo' = todo \ {p}
          /\ last' = [last EXCEPT ![p] = tick]
          /\ UNCHANGED <<pipes, cron, enabled, tick, copy, backdated>>
      BY <1>5 DEF Cron!Claim, Cron!Looks
    <2>2. Cron!Due(cron[p], tick, tick) = {}
      BY CountedFrom
    <2> QED
      BY <2>1, <2>2 DEF Served
  <1> QED
    BY <1>1, <1>2, <1>3, <1>4, <1>5 DEF Cron!Tick

LEMMA ScanOthers ==
  ASSUME CronsAreTimes, SlotInv, enabled \in [Pipes -> BOOLEAN], ScanInv, Cron!Next, ~Cron!Tick
  PROVE  ScanInv'
  <1> USE DEF SlotInv, SlotTypes, ScanInv, Cron!schedule, Cron!session
  <1>1. CASE Cron!Time
    BY <1>1 DEF Cron!Time, Served
  <1>2. CASE Cron!Restart
    BY <1>2 DEF Cron!Restart, Cron!Sleep
  <1>3. ASSUME NEW p \in Pipes, Cron!LaunchOther(p) \/ Cron!RunEnds(p) \/ Cron!DeletePipeline(p)
        PROVE  ScanInv'
    BY <1>3 DEF Cron!LaunchOther, Cron!RunEnds, Cron!DeletePipeline, Served
  <1>4. ASSUME NEW p \in Pipes, NEW c \in Crons, NEW e \in BOOLEAN,
               Cron!ChangeSchedule(p, c, e) \/ Cron!ImportSchedule(p, c, e)
        PROVE  ScanInv'
    BY <1>4 DEF Cron!ChangeSchedule, Cron!ImportSchedule, Cron!Reads, Served
  <1>5. ASSUME NEW ch \in changes, Cron!CommitChange(ch) PROVE ScanInv'
    <2> DEFINE p == ch.pipe
    <2>1. /\ p \in Pipes /\ ch.at \in Nat /\ ch.cron \subseteq Nat /\ tick \in Nat /\ cron[p] \subseteq Nat
      OBVIOUS
    <2>2. /\ cron' = [cron EXCEPT ![p] = IF ch.newCron THEN ch.cron ELSE @]
          /\ enabled' = [enabled EXCEPT ![p] = IF ch.newEnabled THEN ch.enabled ELSE @]
          /\ last' = [last EXCEPT ![p] = ch.at]
          /\ backdated' = IF at # "sleep" /\ ch.at < tick THEN backdated \union {p} ELSE backdated
          /\ UNCHANGED <<pipes, at, tick, todo, copy>>
      BY <1>5 DEF Cron!CommitChange
    <2> HIDE DEF p
    <2>3. at # "sleep" => p \in backdated' \/ tick <= last'[p]
      BY <2>1, <2>2
    <2>4. tick <= last'[p] => Cron!Due(cron'[p], last'[p], tick) = {}
      BY <2>1, <2>2, CountedFrom
    <2>5. at # "sleep" => Served(p)'
      BY <2>2, <2>3, <2>4 DEF Served
    <2>6. \A q \in Pipes \ {p} : /\ cron'[q] = cron[q] /\ enabled'[q] = enabled[q] /\ last'[q] = last[q]
                                /\ q \in backdated' <=> q \in backdated
      BY <2>2
    <2>7. \A q \in Pipes \ {p} : Served(q) => Served(q)'
      BY <2>2, <2>6 DEF Served
    <2> QED
      BY <2>2, <2>3, <2>5, <2>6, <2>7
  <1>6. ASSUME NEW ch \in changes, Cron!DropChange(ch) PROVE ScanInv'
    BY <1>6 DEF Cron!DropChange, Served
  <1> HIDE DEF SlotInv, SlotTypes, ScanInv
  <1> QED
    BY <1>1, <1>2, <1>3, <1>4, <1>5, <1>6 DEF Cron!Next

\* A tick leaves nothing behind, up to where it ends, that was due when it began,
\* although it worked from copies of the rows that others changed meanwhile; what
\* a change made due that read the clock before the tick did, is for the next one.
\* It ends early only at a pipeline that was deleted under it or whose
\* expression has no next time.
EveryTickServes ==
  [][/\ Cron!EndTick \/ Cron!TickFails => \A p \in pipes \ todo : Served(p)
     /\ Cron!EndTick => todo = {}
     /\ Cron!TickFails =>
          \/ cur \in Pipes \ pipes
          \/ \E p \in todo : /\ \A q \in todo : p <= q
                            /\ p \in pipes => Cron!Seen(p).cron = {}]_(Cron!vars)

\* Scheduler.tick, from whatever copies of the rows its session holds, serves
\* every pipeline that was due when it began and comes before the one it fails at.
THEOREM TicksAlwaysServe ==
  ASSUME CronsAreTimes, BoundsAreNumbers
  PROVE  Cron!Spec => EveryTickServes
  <1> DEFINE All == SlotInv /\ CronTypes /\ ScanInv
  <1> DEFINE Ends == /\ Cron!EndTick \/ Cron!TickFails => \A p \in pipes \ todo : Served(p)
                     /\ Cron!EndTick => todo = {}
                     /\ Cron!TickFails =>
                          \/ cur \in Pipes \ pipes
                          \/ \E p \in todo : /\ \A q \in todo : p <= q
                                            /\ p \in pipes => Cron!Seen(p).cron = {}
  <1>1. Cron!Init => All
    BY SlotInit, CronTypesInit DEF Cron!Init, ScanInv
  <1>2. All /\ [Cron!Next]_(Cron!vars) => All'
    <2>1. CronTypes => enabled \in [Pipes -> BOOLEAN]
      BY DEF CronTypes, Cron!TypeOK
    <2>2. All /\ Cron!Next => All'
      BY <2>1, TickStep, OthersStep, CronTypesTick, CronTypesOthers, ScanTick, ScanOthers
    <2>3. All /\ UNCHANGED Cron!vars => All'
      BY DEF Cron!vars, SlotInv, SlotTypes, NothingAhead, RanIsPast, CopiesCover, ClaimIsNew,
             CronTypes, Cron!TypeOK, ScanInv, Served
    <2> QED
      BY <2>2, <2>3
  <1>3. All /\ [Cron!Next]_(Cron!vars) => [Ends]_(Cron!vars)
    <2>1. ASSUME All, Cron!EndTick PROVE Ends
      BY <2>1 DEF ScanInv, Cron!EndTick, Cron!TickFails, Cron!Raises
    <2>2. ASSUME All, Cron!TickFails PROVE Ends
      <3>1. at \in {"scan", "check"}
        BY <2>2 DEF Cron!TickFails, Cron!Raises, Cron!Looks
      <3>2. \A p \in pipes \ todo : Served(p)
        BY <2>2, <3>1 DEF ScanInv
      <3>3. CASE at = "check" /\ cur \notin pipes
        BY <2>2, <3>2, <3>3 DEF SlotInv, ClaimIsNew, Cron!EndTick
      <3>4. ASSUME NEW p \in todo, Cron!Looks(p), p \in pipes => Cron!Seen(p).cron = {} PROVE Ends
        BY <2>2, <3>2, <3>4 DEF Cron!Looks, Cron!EndTick
      <3> QED
        BY <2>2, <3>3, <3>4 DEF Cron!TickFails, Cron!Raises
    <2> QED
      BY <2>1, <2>2
  <1> QED
    BY <1>1, <1>2, <1>3, PTL DEF Cron!Spec, EveryTickServes

=============================================================================
