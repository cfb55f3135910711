------------------------------- MODULE MCAccess -------------------------------
(* Access on small instances: see AccessAny.cfg.                           *)
EXTENDS Access

=============================================================================
