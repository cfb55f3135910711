----------------------------- MODULE MCShellStep -----------------------------
(* ShellStep with a shell and two children: see the .cfg files Shell*.cfg. *)
EXTENDS ShellStep

=============================================================================
