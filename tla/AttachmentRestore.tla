-------------------------- MODULE AttachmentRestore --------------------------
(***************************************************************************)
(* The attachment volume under backup and restore.  backup-attachments.sh  *)
(* archives the directory tree while the API runs, entry after entry, and  *)
(* publishes the archive and its checksum as two links; a restore needs    *)
(* both.  restore-attachments.sh unpacks beside the volume, empties it and *)
(* moves the unpacked tree in.  The names are the old ones, the files are  *)
(* new ones.  The database is backed up separately and restored into       *)
(* another database, so its rows stay.  The operator stops the API for a   *)
(* restore (infra/README.md asks to quiesce writes), and what is unpacked  *)
(* is taken to be on the disk.                                             *)
(***************************************************************************)
EXTENDS AttachmentStorage

CONSTANTS MaxRestores    \* bound

ASSUME RestoreAssumption == MaxRestores \in Nat

VARIABLES
  backup,     \* the last backup
  restoring,  \* the volume has been emptied and not yet filled
  restores    \* how often the volume has been replaced

restoreVars == <<vars, backup, restoring, restores>>

\* openVerifiedAttachmentStream: the file under the row's name is the one the row remembers.
Opens(a) == row[a].identified /\ live[a].final = "own"

Downloadable(a) == row[a].state = "ACTIVE" /\ Opens(a)

\* "read" are the attachments whose entries the archive has, "names" those entries;
\* "active" are those that could be downloaded when the backup began.
Backups ==
  [pc : {"none", "reading", "written", "archive", "orphan", "pair"},
   read : SUBSET Attachments, names : [Attachments -> SUBSET Names],
   active : SUBSET Attachments]

NoBackup ==
  [pc |-> "none", read |-> {}, names |-> [a \in Attachments |-> {}], active |-> {}]

RestoreTypeOK ==
  /\ TypeOK
  /\ backup \in Backups
  /\ restoring \in BOOLEAN
  /\ restores \in 0..MaxRestores

Running == backup.pc \in {"reading", "written", "archive"}

\* Every backup has an id of its own; the model keeps the last one, while it can still
\* be restored.
BeginBackup ==
  /\ restores < MaxRestores /\ ~Running /\ ~restoring
  /\ backup' = [NoBackup EXCEPT !.pc = "reading",
                  !.active = {a \in Attachments : Downloadable(a)}]
  /\ UNCHANGED <<vars, restoring, restores>>

ArchiveEntry(a) ==
  /\ backup.pc = "reading" /\ a \notin backup.read
  /\ backup' = [backup EXCEPT !.read = @ \cup {a},
                  !.names[a] = {n \in Names : live[a][n] # "none"}]
  /\ UNCHANGED <<vars, restoring, restores>>

\* Mutant: the archive is taken as it is, also when tar stopped early.
ArchiveEndsEarly ==
  /\ backup.pc = "reading"
  /\ backup' = [backup EXCEPT !.pc = "written"]
  /\ UNCHANGED <<vars, restoring, restores>>

\* tar has succeeded; the checksum of the archive is taken.
ArchiveEnds ==
  /\ backup.pc = "reading" /\ backup.read = Attachments
  /\ backup' = [backup EXCEPT !.pc = "written"]
  /\ UNCHANGED <<vars, restoring, restores>>

PublishArchive ==
  /\ backup.pc = "written"
  /\ backup' = [backup EXCEPT !.pc = "archive"]
  /\ UNCHANGED <<vars, restoring, restores>>

PublishChecksum ==
  /\ backup.pc = "archive"
  /\ backup' = [backup EXCEPT !.pc = "pair"]
  /\ UNCHANGED <<vars, restoring, restores>>

\* A statement of the script fails: set -e, the trap and the rm after the second link.
BackupFails ==
  /\ Running
  /\ backup' = NoBackup
  /\ UNCHANGED <<vars, restoring, restores>>

\* The script is killed: the archive stays without its checksum.
BackupLost ==
  /\ backup.pc = "archive"
  /\ backup' = [backup EXCEPT !.pc = "orphan"]
  /\ UNCHANGED <<vars, restoring, restores>>

\* open_verified_backup_snapshot: both files are there and the checksum is the archive's.
Restorable == backup.pc = "pair"

EmptyVolume ==
  /\ restores < MaxRestores /\ Restorable /\ ~restoring
  /\ restoring' = TRUE
  /\ live' = NoFiles
  /\ disk' = live'
  /\ shard' = FALSE
  /\ anchored' = FALSE /\ former' = NoFiles
  /\ StartAgain
  /\ UNCHANGED <<row, whole, backup, restores>>

FillVolume ==
  /\ restoring /\ restores < MaxRestores
  /\ restoring' = FALSE
  /\ restores' = restores + 1
  /\ live' = [a \in Attachments |->
       [n \in Names |-> IF n \in backup.names[a] THEN "other" ELSE "none"]]
  /\ disk' = live'
  /\ shard' \in BOOLEAN    \* an archive may hold the empty directory, too
  /\ (\E a \in Attachments : backup.names[a] # {}) => shard'
  /\ anchored' = shard' /\ former' = NoFiles
  /\ backup' = IF restores' < MaxRestores THEN backup ELSE NoBackup
  /\ UNCHANGED <<row, whole, job, phase, queue>>

\* The restore is lost in between, and the API is started on the empty volume.
RestoreLost ==
  /\ restoring /\ restoring' = FALSE
  /\ UNCHANGED <<vars, backup, restores>>

RestoreInit ==
  /\ Init
  /\ backup = NoBackup
  /\ restoring = FALSE
  /\ restores = 0

\* A backup under way goes down with the host; without its checksum it cannot be restored.
RestoreNext ==
  \/ /\ ~restoring /\ Next
     /\ backup' = IF Running /\ HostFails THEN NoBackup ELSE backup
     /\ UNCHANGED <<restoring, restores>>
  \/ BeginBackup \/ ArchiveEnds \/ PublishArchive \/ PublishChecksum
  \/ \E a \in Attachments : ArchiveEntry(a)
  \/ BackupFails \/ BackupLost
  \/ EmptyVolume \/ FillVolume \/ RestoreLost

RestoreSpec == RestoreInit /\ [][RestoreNext]_restoreVars

-----------------------------------------------------------------------------
(***************************************************************************)
(* Properties.                                                             *)
(***************************************************************************)

\* A file the row does not remember is never moved, removed or replaced by an upload, a
\* reconciliation or a clean-up, however they are interrupted.
ForeignFileIsLeftAlone ==
  [][restoring' = restoring =>
       \A a \in Attachments, n \in Names : live[a][n] = "other" => live'[a][n] = "other"]_restoreVars

\* Nor does a row become downloadable through such a file: what is activated is a file
\* that was uploaded with the row.
ActivatedFileIsOwn ==
  [][\A a \in Attachments :
       row[a].state = "PENDING" /\ row'[a].state = "ACTIVE" => Downloadable(a)']_restoreVars

\* A backup taken while files come and go, and published under crashes, brings back what
\* it is for: a restore that comes to its end has a file for each attachment that could
\* be downloaded when the backup began and has not been archived since.
BackedUpIsRestored ==
  [][restores' # restores =>
       \A a \in backup.active : row[a].state = "ACTIVE" => live'[a].final # "none"]_restoreVars

\* Claimed by restore-attachments.sh, which replaces the volume from a backup: what has
\* been restored can be used, so an attachment whose file is there can be downloaded.
RestoredIsReadable ==
  \A a \in Attachments :
    row[a].state = "ACTIVE" /\ live[a].final # "none" => Downloadable(a)
=============================================================================
