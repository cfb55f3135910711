------------------------------ MODULE MCLiveRuns ------------------------------
(* LiveRuns on small instances: see LiveAny.cfg.                           *)
EXTENDS LiveRuns

=============================================================================
