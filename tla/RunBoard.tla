------------------------------ MODULE RunBoard ------------------------------
(***************************************************************************)
(* What the runs table promises to whoever reads it, without the threads,  *)
(* locks and events behind it: runs of a pipeline that is kept are         *)
(* queued, begin one at a time, end once, and an interrupted process       *)
(* leaves none of them active.                                             *)
(*                                                                         *)
(* A cancellation may arrive at an awkward moment.  The board then allows  *)
(* what the code does: a run marked cancelled before its end may go on,    *)
(* and a run that has ended may still be marked cancelled.  It never       *)
(* allows a run that succeeded or failed to begin again or to get the      *)
(* other outcome, and never two running runs of one pipeline.              *)
(***************************************************************************)
CONSTANTS RunIds, PipeIds

VARIABLES status, pipeline_id

vars == <<status, pipeline_id>>

Active == {"queued", "running"}
Ended == {"success", "failed", "cancelled"}

Init == /\ status = [r \in RunIds |-> "none"]
        /\ pipeline_id = [r \in RunIds |-> 0]

Become(r, s) == /\ status' = [status EXCEPT ![r] = s]
                /\ UNCHANGED pipeline_id

Queue(r, p) == /\ status[r] = "none"
               /\ status' = [status EXCEPT ![r] = "queued"]
               /\ pipeline_id' = [pipeline_id EXCEPT ![r] = p]

Begin(r) == /\ status[r] \in {"queued", "cancelled"}
            /\ \A r2 \in RunIds : status[r2] = "running" => pipeline_id[r2] # pipeline_id[r]
            /\ Become(r, "running")

End(r, s) == status[r] \in {"running", "cancelled"} /\ Become(r, s)

\* A cancellation that stopped no worker: it only marks the row.
MarkCancelled(r) == status[r] # "none" /\ Become(r, "cancelled")

Interrupt == /\ status' = [r \in RunIds |-> IF status[r] \in Active THEN "failed" ELSE status[r]]
             /\ UNCHANGED pipeline_id

Next == \/ \E r \in RunIds, p \in PipeIds : Queue(r, p)
        \/ \E r \in RunIds : Begin(r) \/ MarkCancelled(r) \/ \E s \in Ended : End(r, s)
        \/ Interrupt

Spec == Init /\ [][Next]_vars

=============================================================================
