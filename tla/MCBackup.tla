------------------------------- MODULE MCBackup -------------------------------
(* Backup on small instances: see BackupAny.cfg.                           *)
EXTENDS Backup

=============================================================================
