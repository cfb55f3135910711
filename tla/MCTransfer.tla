------------------------------ MODULE MCTransfer ------------------------------
(* Transfer on small instances: see TransferAny.cfg, ImportCredential.cfg. *)
EXTENDS Transfer, TLC

Symmetry == Permutations(ScriptNames)

=============================================================================
