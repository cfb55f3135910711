------------------------------ MODULE LogStream ------------------------------
(***************************************************************************)
(* What the page of a run promises, without the worker, its buffer and the *)
(* offsets behind it: the log is a stream that only grows until the run is *)
(* over; a reader always has a beginning of it, every line once and in     *)
(* order, never has less than before, and stops exactly when the run is    *)
(* over and the reader has it all.  A reader may also leave.               *)
(***************************************************************************)
EXTENDS Naturals

VARIABLES
  length,  \* lines of the log
  over,    \* has the run ended?
  reader,  \* "away", "polling", "stopped", "left"
  shown    \* what the reader has: numbers of lines

vars == <<length, over, reader, shown>>

Beginning(n) == [i \in 1..n |-> i]

Init == length = 0 /\ over = FALSE /\ reader = "away" /\ shown = <<>>

\* The worker, or the recovery of an interrupted run.
Write == /\ ~over
         /\ length' \in Nat /\ length' >= length /\ over' \in BOOLEAN
         /\ UNCHANGED <<reader, shown>>

Read == /\ reader \in {"away", "polling"}
        /\ shown' = Beginning(length)
        /\ reader' = IF over THEN "stopped" ELSE "polling"
        /\ UNCHANGED <<length, over>>

Leave == /\ reader \in {"away", "polling"}
         /\ reader' = "left" /\ shown' = <<>>
         /\ UNCHANGED <<length, over>>

\* A re-run has a log and a page of its own.
Anew == length' = 0 /\ over' = FALSE /\ reader' = "away" /\ shown' = <<>>

Next == Write \/ Read \/ Leave \/ Anew

Spec == Init /\ [][Next]_vars

=============================================================================
