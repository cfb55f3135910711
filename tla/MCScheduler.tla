----------------------------- MODULE MCScheduler -----------------------------
(* Scheduler with three cron expressions: see ScheduleAny.cfg.             *)
EXTENDS Scheduler

\* One fires at every time, one at every other time, one never.
MCCrons == {1..MaxTime, {t \in 1..MaxTime : t % 2 = 0}, {}}

=============================================================================
