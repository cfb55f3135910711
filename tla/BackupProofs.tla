----------------------------- MODULE BackupProofs -----------------------------
(* Theorems about Backup.                                                  *)
EXTENDS Backup, TLAPS

Dbs == [stamp : Nat, cluster : BOOLEAN, place : {"here", "there"}, sealedBy : SUBSET (Keys \union {NoKey})]
Archives == [db : Dbs, kube : BOOLEAN, key : Keys \union {NoKey}, env : Keys \union {NoKey},
             whole : BOOLEAN, lost : BOOLEAN, halfway : BOOLEAN]

ServerTypes ==
  /\ up \in BOOLEAN /\ outside \in BOOLEAN /\ holds \in Keys \union {NoKey}
  /\ oldDir \in BOOLEAN /\ halfway \in BOOLEAN /\ lost \in BOOLEAN
  /\ db \in Dbs /\ kube \in BOOLEAN
  /\ key \in Keys \union {NoKey} /\ env \in Keys \union {NoKey}

RestoreTypes ==
  /\ backup \in [for : {"none", "archive", "safety"}, a : Archives]
  /\ archive \in Archives /\ safety \in Archives /\ from \in Archives
  /\ restore \in {"idle", "safety", "stop", "clear", "extract", "env", "start"}
  /\ restores \in Nat /\ commits \in Nat
  /\ needed \in [db : Dbs, commits : Nat]

TypeOK == ServerTypes /\ RestoreTypes

-----------------------------------------------------------------------------
(* The safety archive.                                                     *)

\* What a database must be for its archive to make up for the clearing.
Recent(d) == d = needed.db \/ d.stamp > needed.commits

SafetyInv ==
  /\ needed.commits <= commits
  /\ backup.for = "safety" => restore = "safety" /\ backup.a.whole /\ Recent(backup.a.db)
  /\ restore = "safety" => Recent(db)
  /\ restore \in {"stop", "clear"} => safety.whole /\ Recent(safety.db)

-----------------------------------------------------------------------------
(* What fits together.                                                     *)

KeyOf(e, k) == IF e # NoKey THEN e ELSE k

Fits(d, hasKube, k, e, isLost) ==
  /\ d.sealedBy \subseteq {KeyOf(e, k)} \ {NoKey}
  /\ d.cluster /\ ~isLost => hasKube

ArchiveFits(a) == a.whole /\ ~a.halfway => Fits(a.db, a.kube, a.key, a.env, a.lost)

\* The cockpit and all archives fit; so does an archive in progress with the
\* files that are still to be added; a cockpit that is up holds the key and
\* has looked for its kubeconfig.  A server that a restore did not stop does so
\* only until the directory is cleared.
FitInv ==
  /\ ~halfway => Fits(db, kube, key, env, lost)
  /\ ArchiveFits(archive) /\ ArchiveFits(safety) /\ ArchiveFits(from)
  /\ backup.for # "none" => backup.a.env = env /\ restore \in {"idle", "safety"}
  /\ backup.for # "none" /\ ~backup.a.halfway => Fits(backup.a.db, kube, key, env, backup.a.lost)
  /\ up /\ ~halfway => KeyOf(env, key) # NoKey /\ holds = KeyOf(env, key)
  /\ up /\ ~halfway /\ db.cluster /\ ~lost => db.place = "here" \/ oldDir
  /\ restore \in {"extract", "env"} => halfway /\ from.whole
  /\ restore = "start" /\ up => halfway
  /\ restore = "env" /\ ~up => db = from.db /\ kube = from.kube /\ key = from.key /\ lost = from.lost

-----------------------------------------------------------------------------
(* Types.                                                                  *)

LEMMA NoDbType == NoDb \in Dbs
  BY DEF NoDb, Dbs

LEMMA NoArchiveType == NoArchive \in Archives
  BY NoDbType DEF NoArchive, Archives

LEMMA ForeignType == \A e \in {NoKey, "otherEnv"}, w \in BOOLEAN : Foreign(e, w) \in Archives
<1>. TAKE e \in {NoKey, "otherEnv"}, w \in BOOLEAN
<1>1. {IF e = NoKey THEN "otherFile" ELSE e} \in SUBSET (Keys \union {NoKey})
  BY DEF Keys, NoKey
<1>2. [stamp |-> 0, cluster |-> TRUE, place |-> "there", sealedBy |-> {IF e = NoKey THEN "otherFile" ELSE e}] \in Dbs
  BY <1>1 DEF Dbs
<1>3. (IF e = NoKey THEN "otherFile" ELSE NoKey) \in Keys \union {NoKey} /\ e \in Keys \union {NoKey}
  BY DEF Keys, NoKey
<1>. QED
  BY <1>2, <1>3 DEF Foreign, Archives

LEMMA TypeInit == Init => TypeOK
<1>. SUFFICES ASSUME Init PROVE TypeOK
  OBVIOUS
<1>1. archive \in Archives
  BY ForeignType, NoArchiveType DEF Init
<1>2. backup \in [for : {"none", "archive", "safety"}, a : Archives]
  BY NoArchiveType DEF Init, NoBackup
<1>3. key \in Keys \union {NoKey} /\ env \in Keys \union {NoKey}
  BY DEF Init, Keys, NoKey
<1>4. needed \in [db : Dbs, commits : Nat]
  BY NoDbType DEF Init
<1>5. up /\ outside \in BOOLEAN /\ ~halfway /\ ~lost /\ ~kube /\ oldDir \in BOOLEAN
  BY DEF Init
<1>7. holds \in Keys \union {NoKey}
  BY <1>3 DEF Init, Effective
<1>6. db \in Dbs /\ safety \in Archives /\ from \in Archives
  BY NoDbType, NoArchiveType DEF Init
<1>. QED
  BY <1>1, <1>2, <1>3, <1>4, <1>5, <1>6, <1>7 DEF Init, TypeOK, ServerTypes, RestoreTypes

LEMMA TypeStep == TypeOK /\ [Next]_vars => TypeOK'
<1>. SUFFICES ASSUME TypeOK, [Next]_vars PROVE TypeOK'
  OBVIOUS
<1>. USE BoundsAssumption DEF TypeOK, ServerTypes, RestoreTypes, data, restoring, server
<1>a. ASSUME StartUp PROVE key' \in Keys \union {NoKey} /\ db' \in Dbs
  <2>1. db' \in Dbs
    BY <1>a DEF StartUp, Dbs
  <2>. QED
    BY <1>a, <2>1 DEF StartUp, Keys
<1>b. ASSUME Serve, key' \in Keys \union {NoKey} PROVE up' \in BOOLEAN /\ holds' \in Keys \union {NoKey}
  BY <1>b DEF Serve
<1>1. CASE Start
  BY <1>1, <1>a, <1>b DEF Start
<1>2. CASE Stop
  BY <1>2 DEF Stop
<1>3. CASE SaveCredential
  <2>2. commits' \in Nat
    BY <1>3 DEF SaveCredential, Commit
  <2>3. [db EXCEPT !.stamp = commits', !.sealedBy = @ \union {holds}] \in Dbs
    BY <2>2 DEF Dbs
  <2>. QED
    BY <1>3, <2>2, <2>3 DEF SaveCredential
<1>4. CASE SaveCluster
  <2>1. commits' \in Nat
    BY <1>4 DEF SaveCluster, Commit
  <2>2. [db EXCEPT !.stamp = commits', !.cluster = TRUE, !.place = "here"] \in Dbs
    BY <2>1 DEF Dbs
  <2>3. ServerTypes'
    BY <1>4, <2>2 DEF SaveCluster
  <2>4. RestoreTypes'
    BY <1>4, <2>1 DEF SaveCluster
  <2>. QED
    BY <2>3, <2>4
<1>5. CASE DeleteFile
  <2>1. backup' \in [for : {"none", "archive", "safety"}, a : Archives]
    BY <1>5 DEF DeleteFile, Archives
  <2>. QED
    BY <1>5, <2>1 DEF DeleteFile
<1>6. CASE DeleteRow
  <2>1. commits' \in Nat
    BY <1>6 DEF DeleteRow, Commit
  <2>2. [db EXCEPT !.stamp = commits', !.cluster = FALSE] \in Dbs
    BY <2>1 DEF Dbs
  <2>3. ServerTypes'
    BY <1>6, <2>2 DEF DeleteRow
  <2>4. RestoreTypes'
    BY <1>6, <2>1 DEF DeleteRow
  <2>. QED
    BY <2>3, <2>4
<1>7. ASSUME NEW for \in {"archive", "safety"}, Snapshot(for) PROVE TypeOK'
  <2>1. backup'.a \in Archives /\ backup' = [for |-> for, a |-> backup'.a]
    BY <1>7, NoArchiveType DEF Snapshot, Archives
  <2>. QED
    BY <1>7, <2>1 DEF Snapshot
<1>8. CASE ArchiveFiles
  <2>1. [backup.a EXCEPT !.kube = kube, !.key = key] \in Archives
    BY DEF Archives
  <2>. QED
    BY <1>8, <2>1, NoArchiveType DEF ArchiveFiles, NoBackup
<1>9. CASE BackupFails
  BY <1>9, NoArchiveType DEF BackupFails, NoBackup
<1>10. CASE BeginRestore
  BY <1>10 DEF BeginRestore
<1>11. CASE StopForRestore
  BY <1>11 DEF StopForRestore
<1>12. CASE Refuse
  BY <1>12 DEF Refuse
<1>13. CASE Clear
  BY <1>13, NoDbType DEF Clear
<1>14. CASE Extract
  <2>1. from.db \in Dbs /\ from.kube \in BOOLEAN /\ from.key \in Keys \union {NoKey} /\ from.lost \in BOOLEAN
    BY DEF Archives
  <2>. QED
    BY <1>14, <2>1 DEF Extract
<1>15. CASE RestoreEnv
  <2>1. from.env \in Keys \union {NoKey} /\ from.halfway \in BOOLEAN
    BY DEF Archives
  <2>. QED
    BY <1>15, <2>1 DEF RestoreEnv
<1>16. CASE StartAfterRestore
  BY <1>16, <1>a, <1>b DEF StartAfterRestore
<1>17. CASE Interrupt
  BY <1>17 DEF Interrupt
<1>18. CASE UNCHANGED vars
  BY <1>18 DEF data, restoring, server, vars
<1>. QED
  BY <1>1, <1>2, <1>3, <1>4, <1>5, <1>6, <1>7, <1>8, <1>9, <1>10, <1>11, <1>12, <1>13, <1>14, <1>15, <1>16, <1>17, <1>18 DEF Next

\* The variables keep their types.
THEOREM TypeCorrect == Spec => []TypeOK
  BY TypeInit, TypeStep, PTL DEF Spec

-----------------------------------------------------------------------------
LEMMA SafetyInit == Init => SafetyInv
  BY DEF Init, SafetyInv, NoBackup, NoArchive, NoDb, Recent

LEMMA SafetyStep == TypeOK /\ SafetyInv /\ [Next]_vars => SafetyInv'
<1>. SUFFICES ASSUME TypeOK, SafetyInv, [Next]_vars PROVE SafetyInv'
  OBVIOUS
<1>. USE BoundsAssumption DEF TypeOK, ServerTypes, RestoreTypes, Archives, Dbs, SafetyInv, Recent
<1>1. CASE Start
  BY <1>1 DEF Start, data, restoring, server, StartUp, Serve
<1>2. CASE Stop
  BY <1>2 DEF Stop, data, restoring, server
<1>3. CASE SaveCredential
  BY <1>3 DEF SaveCredential, data, restoring, server, Commit
<1>4. CASE SaveCluster
  BY <1>4 DEF SaveCluster, data, restoring, server, Commit
<1>5. CASE DeleteFile
  BY <1>5 DEF DeleteFile, data, restoring, server
<1>6. CASE DeleteRow
  BY <1>6 DEF DeleteRow, data, restoring, server, Commit
<1>7. ASSUME NEW for \in {"archive", "safety"}, Snapshot(for) PROVE SafetyInv'
  BY <1>7 DEF Snapshot, data, restoring, server, NoArchive, NoDb, NoBackup
<1>8. CASE ArchiveFiles
  <2>1. CASE backup.for = "safety"
    <3>a. safety' = [backup.a EXCEPT !.kube = kube, !.key = key] /\ restore' = "stop"
      BY <1>8, <2>1 DEF ArchiveFiles
    <3>1. safety'.whole = backup.a.whole /\ safety'.db = backup.a.db /\ restore' = "stop"
      BY <3>a
    <3>2. backup'.for = "none" /\ UNCHANGED <<needed, commits>>
      BY <1>8 DEF ArchiveFiles, NoBackup
    <3>3. backup.a.whole /\ Recent(backup.a.db) /\ needed.commits <= commits
      BY <2>1
    <3>. QED
      BY <3>1, <3>2, <3>3
  <2>2. CASE backup.for # "safety"
    BY <1>8, <2>2 DEF ArchiveFiles, data, restoring, server, NoBackup, NoArchive, NoDb
  <2>. QED
    BY <2>1, <2>2
<1>9. CASE BackupFails
  BY <1>9 DEF BackupFails, data, restoring, server, NoBackup, NoArchive, NoDb
<1>10. CASE BeginRestore
  BY <1>10 DEF BeginRestore, data, restoring, server, NoArchive, NoDb, NoBackup
<1>11. CASE StopForRestore
  BY <1>11 DEF StopForRestore, data, restoring, server
<1>12. CASE Refuse
  BY <1>12 DEF Refuse, data, restoring, server
<1>13. CASE Clear
  BY <1>13 DEF Clear, data, restoring, server, NoDb
<1>14. CASE Extract
  BY <1>14 DEF Extract, data, restoring, server
<1>15. CASE RestoreEnv
  BY <1>15 DEF RestoreEnv, data, restoring, server
<1>16. CASE StartAfterRestore
  BY <1>16 DEF StartAfterRestore, data, restoring, server, StartUp, Serve
<1>17. CASE Interrupt
  BY <1>17 DEF Interrupt, data, restoring, server
<1>18. CASE UNCHANGED vars
  BY <1>18 DEF data, restoring, server, vars
<1>. QED
  BY <1>1, <1>2, <1>3, <1>4, <1>5, <1>6, <1>7, <1>8, <1>9, <1>10, <1>11, <1>12, <1>13, <1>14, <1>15, <1>16, <1>17, <1>18 DEF Next

\* A restore clears the data directory only when the archive of its database,
\* as it was or newer, is complete.
THEOREM NothingClearedUnsaved == Spec => SafetyHolds
<1>1. SafetyInv => [Clear => safety.whole /\ (safety.db = needed.db \/ safety.db.stamp > needed.commits)]_vars
  BY DEF SafetyInv, Recent, Clear
<1>. QED
  BY <1>1, TypeCorrect, SafetyInit, SafetyStep, PTL DEF Spec, SafetyHolds

-----------------------------------------------------------------------------
LEMMA FitInit == Init => FitInv
  BY DEF Init, FitInv, Fits, ArchiveFits, KeyOf, Foreign, NoBackup, NoArchive, NoDb, NoKey, Effective

LEMMA FitStep == TypeOK /\ FitInv /\ [Next]_vars => FitInv'
<1>. SUFFICES ASSUME TypeOK, FitInv, [Next]_vars PROVE FitInv'
  OBVIOUS
<1>. USE BoundsAssumption DEF TypeOK, ServerTypes, RestoreTypes, Archives, Dbs, FitInv, Fits, ArchiveFits, KeyOf, NoKey, Keys
<1>1. CASE Start
  BY <1>1 DEF Start, data, restoring, server, StartUp, Serve
<1>2. CASE Stop
  BY <1>2 DEF Stop, data, restoring, server
<1>3. CASE SaveCredential
  BY <1>3 DEF SaveCredential, data, restoring, server, Commit
<1>4. CASE SaveCluster
  <2>1. db'.sealedBy = db.sealedBy /\ db'.cluster /\ db'.place = "here"
    BY <1>4 DEF SaveCluster, Commit
  <2>2. UNCHANGED <<backup, key, env, up, holds, oldDir, archive, safety, from, restore, halfway>> /\ kube' /\ up
    BY <1>4 DEF SaveCluster, Commit, restoring, server
  <2>3. ~halfway' => Fits(db', kube', key', env', lost')
    BY <2>1, <2>2
  <2>4. backup'.for # "none" /\ ~backup'.a.halfway => Fits(backup'.a.db, kube', key', env', backup'.a.lost)
    BY <2>1, <2>2
  <2>. HIDE DEF Fits, ArchiveFits
  <2>. QED
    BY <2>1, <2>2, <2>3, <2>4
<1>5. CASE DeleteFile
  <2>1. /\ backup'.for = backup.for /\ backup'.a.env = backup.a.env /\ backup'.a.db = backup.a.db
        /\ backup'.a.halfway = backup.a.halfway /\ (backup.for # "none" => backup'.a.lost)
    BY <1>5 DEF DeleteFile
  <2>2. UNCHANGED <<db, key, env, up, holds, oldDir, archive, safety, from, restore, halfway>> /\ lost' = TRUE /\ up = TRUE
    BY <1>5 DEF DeleteFile, restoring, server
  <2>3. ~halfway' => Fits(db', kube', key', env', lost')
    BY <2>2
  <2>4. backup'.for # "none" /\ ~backup'.a.halfway => Fits(backup'.a.db, kube', key', env', backup'.a.lost)
    BY <2>1, <2>2
  <2>5. /\ backup'.for # "none" => backup'.a.env = env' /\ restore' \in {"idle", "safety"}
        /\ lost'
    BY <2>1, <2>2
  <2>6. ~halfway' => KeyOf(env', key') # NoKey /\ holds' = KeyOf(env', key')
    BY <2>2
  <2>. HIDE DEF Fits, ArchiveFits
  <2>7. ArchiveFits(archive') /\ ArchiveFits(safety') /\ ArchiveFits(from')
    BY <2>2
  <2>. QED
    BY <2>2, <2>3, <2>4, <2>5, <2>6, <2>7
<1>6. CASE DeleteRow
  BY <1>6 DEF DeleteRow, data, restoring, server, Commit
<1>7. ASSUME NEW for \in {"archive", "safety"}, Snapshot(for) PROVE FitInv'
  <2>1. /\ backup'.for = for /\ backup'.a.env = env /\ backup'.a.db = db
        /\ backup'.a.halfway = halfway /\ backup'.a.lost = lost
    BY <1>7 DEF Snapshot, NoArchive
  <2>. QED
    BY <1>7, <2>1 DEF Snapshot, data, restoring, server
<1>8. CASE ArchiveFiles
  <2>. DEFINE a == [backup.a EXCEPT !.kube = kube, !.key = key]
  <2>1. /\ a.kube = kube /\ a.key = key /\ a.env = backup.a.env /\ a.db = backup.a.db
        /\ a.lost = backup.a.lost /\ a.halfway = backup.a.halfway
    OBVIOUS
  <2>2. ArchiveFits(a)
    BY <1>8, <2>1 DEF ArchiveFiles
  <2>3. IF backup.for = "safety" THEN safety' = a /\ restore' = "stop" /\ archive' = archive
                                 ELSE archive' = a /\ safety' = safety /\ restore' = restore
    BY <1>8 DEF ArchiveFiles
  <2>4. ArchiveFits(archive') /\ ArchiveFits(safety')
    <3>. HIDE DEF a, ArchiveFits
    <3>1. ArchiveFits(archive) /\ ArchiveFits(safety)
      BY DEF FitInv
    <3>. QED
      BY <2>2, <2>3, <3>1
  <2>5. backup'.for = "none"
    BY <1>8 DEF ArchiveFiles, NoBackup
  <2>. QED
    BY <1>8, <2>3, <2>4, <2>5 DEF ArchiveFiles, data, server
<1>9. CASE BackupFails
  BY <1>9 DEF BackupFails, data, restoring, server, NoBackup, NoArchive, NoDb
<1>10. CASE BeginRestore
  BY <1>10 DEF BeginRestore, data, restoring, server, NoArchive, NoDb, NoBackup
<1>11. CASE StopForRestore
  BY <1>11 DEF StopForRestore, data, restoring, server
<1>12. CASE Refuse
  BY <1>12 DEF Refuse, data, restoring, server
<1>13. CASE Clear
  BY <1>13 DEF Clear, data, restoring, server, NoDb
<1>14. CASE Extract
  BY <1>14 DEF Extract, data, restoring, server
<1>15. CASE RestoreEnv
  BY <1>15 DEF RestoreEnv, data, restoring, server
<1>16. CASE StartAfterRestore
  BY <1>16 DEF StartAfterRestore, data, restoring, server, StartUp, Serve
<1>17. CASE Interrupt
  BY <1>17 DEF Interrupt, data, restoring, server
<1>18. CASE UNCHANGED vars
  BY <1>18 DEF data, restoring, server, vars
<1>. QED
  BY <1>1, <1>2, <1>3, <1>4, <1>5, <1>6, <1>7, <1>8, <1>9, <1>10, <1>11, <1>12, <1>13, <1>14, <1>15, <1>16, <1>17, <1>18 DEF Next

\* A running cockpit can decrypt its credentials and has its kubeconfig.
THEOREM DataFitsAlways == Spec => []DataFitsTogether
<1>1. FitInv => DataFitsTogether
  BY DEF FitInv, Fits, KeyOf, DataFitsTogether
<1>. QED
  BY <1>1, TypeCorrect, FitInit, FitStep, PTL DEF Spec

=============================================================================
