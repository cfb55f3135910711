-------------------------------- MODULE Backup --------------------------------
(***************************************************************************)
(* Backup and restore: ./cockpit backup and restore (src/cockpit), the     *)
(* commands they run (src/app/cli.py), and what the next start does with   *)
(* the data directory (init_db, relocate_data_paths, the encryption key).  *)
(*                                                                         *)
(* The data directory is the database, the kubeconfig of the one cluster   *)
(* (a clone of a repository is like it), and secret.key.  Archives contain *)
(* also .env, which may set COCKPIT_ENCRYPTION_KEY.                        *)
(***************************************************************************)
EXTENDS Naturals

CONSTANTS
  MaxChanges,  \* bound: commits to the database
  MaxRestores  \* bound: restores that were begun

ASSUME BoundsAssumption == MaxChanges \in Nat /\ MaxRestores \in Nat

\* Encryption keys: of this cockpit's .env, of the .env that came with an
\* archive from elsewhere, and those that a start has generated here or there.
NoKey == "none"
Keys == {"env", "otherEnv", "file", "otherFile", "newFile"}

\* stamp is the number of its last commit; cluster says whether there is one, and place where its
\* kubeconfig_path points: to this data directory or to that of the archive's
\* cockpit; sealedBy are the keys that credentials are encrypted with.
NoDb == [stamp |-> 0, cluster |-> FALSE, place |-> "here", sealedBy |-> {}]
NoArchive == [db |-> NoDb, kube |-> FALSE, key |-> NoKey, env |-> NoKey, whole |-> FALSE,
              lost |-> FALSE, halfway |-> FALSE]

VARIABLES
  up,          \* is the cockpit running?
  outside,     \* was the running one not started by ./cockpit start, but by systemd?
  holds,       \* the encryption key it has loaded
  db, kube, key,   \* the data directory: database, kubeconfig, secret.key
  env,         \* COCKPIT_ENCRYPTION_KEY in .env
  oldDir,      \* does the archive's cockpit exist on this machine, elsewhere?
  backup,      \* the backup that is going on: for whom, and the archive so far
  archive,     \* the archive of ./cockpit backup, or one brought here
  safety,      \* the last pre-restore archive
  from,        \* the archive that is being restored
  restore,     \* where ./cockpit restore is
  restores,
  commits,     \* of all databases that this cockpit had
  needed,      \* history: the database and the commits when the restore began
  halfway,     \* history: a restore cleared the directory and stopped there, or a
               \* server outlived it
  lost         \* history: the kubeconfig was deleted, its row not yet, or never

vars == <<up, outside, holds, db, kube, key, env, oldDir, backup, archive, safety, from, restore, restores,
          commits, needed, halfway, lost>>
data == <<db, kube, key>>
server == <<up, outside, holds>>
restoring == <<restore, restores, from, needed, halfway>>

NoBackup == [for |-> "none", a |-> NoArchive]
Effective == IF env # NoKey THEN env ELSE key

-----------------------------------------------------------------------------
(* The cockpit.                                                            *)

\* The database is created when it is missing, a key when there is none, and
\* a path is repointed when it leads nowhere and the file is here.
StartUp ==
  /\ key' = IF env = NoKey /\ key = NoKey THEN "newFile" ELSE key
  /\ db' = [db EXCEPT !.place = IF @ = "there" /\ ~oldDir /\ kube THEN "here" ELSE @]

\* The key is loaded once.
Serve ==
  /\ up' = TRUE
  /\ holds' = IF env # NoKey THEN env ELSE key'

\* ./cockpit start, or the unit of deploy/systemd.
Start ==
  /\ ~up /\ restore = "idle"
  /\ StartUp /\ Serve /\ outside' \in BOOLEAN
  /\ UNCHANGED <<commits, kube, env, oldDir, backup, archive, safety, restoring, lost>>

\* ./cockpit stop, or systemctl stop.
Stop ==
  /\ up /\ restore = "idle"
  /\ up' = FALSE /\ outside' = FALSE /\ holds' = NoKey
  /\ UNCHANGED <<commits, data, env, oldDir, backup, archive, safety, restoring, lost>>

\* While the database is missing, a server that is up writes to the deleted file.
Commit == up /\ restore # "extract" /\ commits < MaxChanges /\ commits' = commits + 1

\* Any form with a credential.
SaveCredential ==
  /\ Commit
  /\ db' = [db EXCEPT !.stamp = commits', !.sealedBy = @ \union {holds}]
  /\ UNCHANGED <<server, kube, key, env, oldDir, backup, archive, safety, restoring, lost>>

\* save_cluster: the file, then the row.
SaveCluster ==
  /\ Commit /\ ~db.cluster
  /\ kube' = TRUE /\ lost' = FALSE
  /\ db' = [db EXCEPT !.stamp = commits', !.cluster = TRUE, !.place = "here"]
  /\ UNCHANGED <<server, key, env, oldDir, backup, archive, safety, restoring>>

\* delete_cluster: the file, then the row.
DeleteFile ==
  /\ up /\ restore # "extract" /\ db.cluster /\ ~lost
  /\ kube' = (kube /\ db.place = "there") /\ lost' = TRUE
  /\ backup' = [backup EXCEPT !.a.lost = backup.for # "none"]
  /\ UNCHANGED <<commits, server, db, key, env, oldDir, archive, safety, restoring>>

DeleteRow ==
  /\ Commit /\ db.cluster /\ lost
  /\ db' = [db EXCEPT !.stamp = commits', !.cluster = FALSE]
  /\ lost' = FALSE
  /\ UNCHANGED <<server, kube, key, env, oldDir, backup, archive, safety, restoring>>

-----------------------------------------------------------------------------
(* Backup.                                                                 *)

\* .env is piped in, and SQLite copies a consistent database.  Bound: one
\* ./cockpit command at a time.
Snapshot(for) ==
  /\ backup = NoBackup
  /\ restore = IF for = "safety" THEN "safety" ELSE "idle"
  /\ backup' = [for |-> for, a |-> [NoArchive EXCEPT !.db = db, !.env = env, !.whole = TRUE,
                                                      !.lost = lost, !.halfway = halfway]]
  /\ UNCHANGED <<commits, server, data, env, oldDir, archive, safety, restoring, lost>>

\* The other files, as they are now; only then the archive gets its name.
ArchiveFiles ==
  /\ backup.for # "none"
  /\ LET a == [backup.a EXCEPT !.kube = kube, !.key = key]
     IN IF backup.for = "safety" THEN safety' = a /\ restore' = "stop" /\ UNCHANGED archive
        ELSE archive' = a /\ UNCHANGED <<safety, restore>>
  /\ backup' = NoBackup
  /\ UNCHANGED <<commits, server, data, env, oldDir, from, restores, needed, halfway, lost>>

\* Fault: what the message says, "Safety backup failed; continuing".
BackupFailsGoesOn ==
  /\ backup.for # "none"
  /\ backup' = NoBackup
  /\ restore' = IF backup.for = "safety" THEN "stop" ELSE restore
  /\ UNCHANGED <<commits, server, data, env, oldDir, archive, safety, from, restores, needed, halfway, lost>>

\* die exits the script, the restore with it.
BackupFails ==
  /\ backup.for # "none"
  /\ backup' = NoBackup
  /\ restore' = IF backup.for = "safety" THEN "idle" ELSE restore
  /\ UNCHANGED <<commits, server, data, env, oldDir, archive, safety, from, restores, needed, halfway, lost>>

-----------------------------------------------------------------------------
(* Restore.                                                                *)

\* Either archive: to restore the pre-restore one is how a restore is undone.
BeginRestore ==
  /\ restore = "idle" /\ backup = NoBackup /\ restores < MaxRestores
  /\ from' \in {archive, safety} \ {NoArchive}
  /\ restore' = "safety" /\ restores' = restores + 1 /\ needed' = [db |-> db, commits |-> commits]
  /\ UNCHANGED <<commits, server, data, env, oldDir, backup, archive, safety, halfway, lost>>

\* cmd_stop ends the server that ./cockpit start has started; to any other one
\* it says "Not running", and the restore goes on beside it.
StopForRestore ==
  /\ restore = "stop"
  /\ restore' = "clear"
  /\ IF outside THEN UNCHANGED server ELSE up' = FALSE /\ holds' = NoKey /\ UNCHANGED outside
  /\ UNCHANGED <<commits, data, env, oldDir, backup, archive, safety, from, restores, needed, halfway, lost>>

\* The archive is read to its end before anything is deleted.
Refuse ==
  /\ restore = "clear" /\ ~from.whole
  /\ restore' = "idle"
  /\ UNCHANGED <<commits, server, data, env, oldDir, backup, archive, safety, from, restores, needed, halfway, lost>>

Clear ==
  /\ restore = "clear" /\ from.whole
  /\ restore' = "extract" /\ halfway' = TRUE
  /\ db' = NoDb /\ kube' = FALSE /\ key' = NoKey
  /\ UNCHANGED <<commits, server, env, oldDir, backup, archive, safety, from, restores, needed, lost>>

Extract ==
  /\ restore = "extract"
  /\ restore' = "env"
  /\ db' = from.db /\ kube' = from.kube /\ key' = from.key /\ lost' = from.lost
  /\ UNCHANGED <<commits, server, env, oldDir, backup, archive, safety, from, restores, needed, halfway>>

\* Fault: only a missing .env is restored.
RestoreEnvIfMissing ==
  /\ restore = "env"
  /\ restore' = "start" /\ halfway' = (from.halfway \/ up)
  /\ env' = IF env = NoKey THEN from.env ELSE env
  /\ UNCHANGED <<commits, server, data, oldDir, backup, archive, safety, from, restores, needed, lost>>

RestoreEnv ==
  /\ restore = "env"
  /\ restore' = "start" /\ halfway' = (from.halfway \/ up)
  /\ env' = from.env
  /\ UNCHANGED <<commits, server, data, oldDir, backup, archive, safety, from, restores, needed, lost>>

\* Beside a server that runs, the new one prepares the data and finds the port
\* in use.
StartAfterRestore ==
  /\ restore = "start"
  /\ StartUp
  /\ IF up THEN UNCHANGED server ELSE Serve /\ UNCHANGED outside
  /\ restore' = "idle"
  /\ UNCHANGED <<commits, kube, env, oldDir, backup, archive, safety, from, restores, needed, halfway, lost>>

\* A full disk, Ctrl-C, a power cut.
Interrupt ==
  /\ restore \in {"stop", "clear", "extract", "env", "start"}
  /\ restore' = "idle"
  /\ UNCHANGED <<commits, server, data, env, oldDir, backup, archive, safety, from, restores, needed, halfway, lost>>

-----------------------------------------------------------------------------
\* An archive from another cockpit that has a cluster and a credential.
Foreign(e, whole) ==
  [db |-> [stamp |-> 0, cluster |-> TRUE, place |-> "there", sealedBy |-> {IF e = NoKey THEN "otherFile" ELSE e}],
   kube |-> TRUE, key |-> IF e = NoKey THEN "otherFile" ELSE NoKey, env |-> e, whole |-> whole,
   lost |-> FALSE, halfway |-> FALSE]

Init ==
  /\ env \in {NoKey, "env"}
  /\ key = IF env = NoKey THEN "file" ELSE NoKey
  /\ up = TRUE /\ outside \in BOOLEAN /\ holds = Effective /\ db = NoDb /\ kube = FALSE
  /\ oldDir \in BOOLEAN
  /\ archive \in {NoArchive} \union {Foreign(e, w) : e \in {NoKey, "otherEnv"}, w \in BOOLEAN}
  /\ safety = NoArchive /\ backup = NoBackup /\ from = NoArchive
  /\ restore = "idle" /\ restores = 0 /\ needed = [db |-> NoDb, commits |-> 0] /\ commits = 0
  /\ halfway = FALSE /\ lost = FALSE

Next ==
  \/ Start \/ Stop
  \/ SaveCredential \/ SaveCluster \/ DeleteFile \/ DeleteRow
  \/ \E for \in {"archive", "safety"} : Snapshot(for)
  \/ ArchiveFiles \/ BackupFails
  \/ BeginRestore \/ StopForRestore \/ Refuse \/ Clear \/ Extract \/ RestoreEnv \/ StartAfterRestore
  \/ Interrupt

Spec == Init /\ [][Next]_vars

-----------------------------------------------------------------------------
\* A running cockpit has what its database needs: it holds the key of every
\* credential, and has the kubeconfig of the cluster, in its own directory.  Four
\* exceptions: a restore that was interrupted before it had replaced .env, or
\* that a server outlived which ./cockpit does not know (or the archive of such
\* a state), a cluster that was being deleted, then or during the backup, and a
\* cockpit that was restored next to the one it comes from, whose files it goes
\* on using.
DataFitsTogether ==
  up /\ ~halfway =>
    /\ db.sealedBy \subseteq {holds}
    /\ db.cluster /\ ~lost => kube /\ (db.place = "here" \/ oldDir)

\* A restore deletes nothing before there is a whole archive of the database
\* as it was when the restore began, or newer ("A safety backup of the current
\* state is taken first", src/cockpit:331).
SafetyHolds ==
  [][Clear => safety.whole /\ (safety.db = needed.db \/ safety.db.stamp > needed.commits)]_vars

=============================================================================
