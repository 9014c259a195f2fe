-------------------------- MODULE AttachmentStorage --------------------------
(***************************************************************************)
(* AttachmentsService: how the file of an attachment reaches its place and *)
(* leaves it, next to the row that describes it.  An upload inserts a      *)
(* PENDING row, writes a temporary file, links it to its final name, marks *)
(* the row published and activates it.  An archived attachment is moved to *)
(* a quarantine name and removed.  What a lost process leaves behind is    *)
(* taken up once by the next start, a bounded number of times per row.     *)
(*                                                                         *)
(* The attachments share one shard directory.  A directory entry exists in *)
(* the file system (live) and, from the next fsync of the directory on,    *)
(* also on the disk.  Content is written and fsynced before it is linked.  *)
(* The parent of the shard is never fsynced: the kernel writes the entry   *)
(* of the shard itself to the disk in its own time.                        *)
(***************************************************************************)
EXTENDS Naturals, FiniteSets

CONSTANTS
  Attachments,       \* identifiers: one upload each
  Contracts,         \* those that are customer contracts; the others belong to work logs
  Workers,           \* requests the API process serves at the same time
  CleanupAttempts,   \* a row is given up after so many recorded failures
  BatchSize,         \* rows one start looks at
  PowerLoss          \* the host may fail, not only the process

ASSUME StorageAssumption ==
  /\ Contracts \subseteq Attachments
  /\ CleanupAttempts \in Nat \ {0}
  /\ BatchSize \in Nat \ {0}
  /\ PowerLoss \in BOOLEAN

VARIABLES
  row,     \* row[a]: the attachments row
  live,    \* live[a]: the directory entries of a
  disk,    \* disk[a]: those that survive the loss of the host, when the shard does
  whole,   \* whole[a]: the content of a's file is complete and synced
  shard,   \* the shard directory exists
  anchored, \* so it does on the disk: its parent there leads to it
  former,  \* former[a]: the entries of a removed shard to which the parent on the disk leads
  job,     \* job[w]: what a worker is doing
  phase,   \* "up", or what the starting process reconciles
  queue    \* rows the starting process has still to look at

vars == <<row, live, disk, whole, shard, anchored, former, job, phase, queue>>

(***************************************************************************)
(* An entry refers to the file whose device and inode the row remembers    *)
(* ("own") or to another one.  DELETED: there is no row any more, and the  *)
(* identifier is not used again.                                           *)
(***************************************************************************)
Names == {"temp", "final", "quarantine"}
NoEntries == [n \in Names |-> "none"]
NoFiles == [a \in Attachments |-> NoEntries]

AttachmentRow ==
  [state : {"ABSENT", "PENDING", "ACTIVE", "ARCHIVED", "DELETED"}, identified : BOOLEAN,
   published : BOOLEAN, removed : BOOLEAN, attempts : 0..CleanupAttempts]
NoRow == [state |-> "ABSENT", identified |-> FALSE, published |-> FALSE, removed |-> FALSE,
          attempts |-> 0]

Unpublished == {"up.anchor", "up.temp", "up.stale", "up.write", "up.identify"}
Publishing == {"up.link", "up.sync", "up.mark", "up.untemp", "up.settle"}
Recovering == {"rec.check", "rec.sync", "rec.temp", "rec.settle", "rec.activate"}
Cleaning == {"cln.old", "cln.move", "cln.drop", "cln.rmdir", "cln.mark"}

Idle == [pc |-> "idle"]
Jobs ==
  [pc : Unpublished \cup Publishing \cup Recovering \cup Cleaning
        \cup {"up.activate", "undo.temp", "undo.row", "arc.update"}, on : Attachments]

TypeOK ==
  /\ row \in [Attachments -> AttachmentRow]
  /\ live \in [Attachments -> [Names -> {"none", "own", "other"}]]
  /\ disk \in [Attachments -> [Names -> {"none", "own", "other"}]]
  /\ whole \in [Attachments -> BOOLEAN]
  /\ shard \in BOOLEAN
  /\ anchored \in BOOLEAN
  /\ former \in [Attachments -> [Names -> {"none", "own", "other"}]]
  /\ job \in [Workers -> {Idle} \cup Jobs]
  /\ phase \in {"up", "pending", "archived"}
  /\ queue \subseteq Attachments

At(w, pc) == job[w].pc = pc
Begin(w, pc, a) == job' = [job EXCEPT ![w] = [pc |-> pc, on |-> a]]
GoTo(w, pc) == job' = [job EXCEPT ![w].pc = pc]
Done(w) == job' = [job EXCEPT ![w] = Idle]
AllIdle == \A w \in Workers : job[w] = Idle

parent == <<anchored, former>>
files == <<live, disk, whole, shard, parent>>
boot == <<phase, queue>>

\* fsync of the shard directory, the next statement being pc.
SyncDirectory(w, pc) ==
  /\ disk' = live
  /\ GoTo(w, pc)
  /\ UNCHANGED <<row, live, whole, shard, parent, boot>>

\* One entry of a appears or disappears, the next statement being pc.
SetEntry(w, name, target, pc) ==
  /\ live' = [live EXCEPT ![job[w].on][name] = target]
  /\ GoTo(w, pc)
  /\ UNCHANGED <<row, disk, whole, shard, parent, boot>>

\* Mutant: lte instead of lt.
RetryableOnceMore(a, state) ==
  row[a].state = state /\ ~row[a].removed /\ row[a].attempts <= CleanupAttempts

\* The condition under which a row is retried and its failures are counted.
Retryable(a, state) ==
  row[a].state = state /\ ~row[a].removed /\ row[a].attempts < CleanupAttempts

\* recordStorageCleanupFailure, which may itself fail.
RecordFailure(a, state) ==
  \/ UNCHANGED row
  \/ /\ Retryable(a, state)
     /\ row' = [row EXCEPT ![a].attempts = @ + 1]

(***************************************************************************)
(* storeAttachmentFile and the activation by its callers.                  *)
(***************************************************************************)
UploadInsert(w, a) ==
  /\ phase = "up"
  /\ job[w] = Idle
  /\ row[a] = NoRow
  /\ row' = [row EXCEPT ![a].state = "PENDING"]
  /\ Begin(w, "up.anchor", a)
  /\ UNCHANGED <<files, boot>>

\* openEntityDirectoryChain: the shard is made when it is missing, and its parent not synced.
OpenShard(w) ==
  /\ At(w, "up.anchor")
  /\ shard' = TRUE
  /\ GoTo(w, "up.temp")
  /\ UNCHANGED <<row, live, disk, whole, parent, boot>>

OpenTemp(w) == At(w, "up.temp") /\ SetEntry(w, "temp", "own", "up.write")

WriteTemp(w) ==
  /\ At(w, "up.write")
  /\ whole' = [whole EXCEPT ![job[w].on] = TRUE]
  /\ GoTo(w, "up.identify")
  /\ UNCHANGED <<row, live, disk, shard, parent, boot>>

RecordIdentity(w) ==
  /\ At(w, "up.identify")
  /\ row' = [row EXCEPT ![job[w].on].identified = TRUE]
  /\ GoTo(w, "up.link")
  /\ UNCHANGED <<files, boot>>

\* Mutant: the directory is not synced before the row is marked.
LinkUnsynced(w) ==
  /\ At(w, "up.link")
  /\ live[job[w].on].final = "none"
  /\ SetEntry(w, "final", "own", "up.mark")

LinkFinal(w) ==
  /\ At(w, "up.link")
  /\ live[job[w].on].final = "none"
  /\ SetEntry(w, "final", "own", "up.sync")

SyncFinal(w) == At(w, "up.sync") /\ SyncDirectory(w, "up.mark")

MarkPublished(w) ==
  /\ At(w, "up.mark")
  /\ row' = [row EXCEPT ![job[w].on].published = TRUE]
  /\ GoTo(w, "up.untemp")
  /\ UNCHANGED <<files, boot>>

RemoveTemp(w) == At(w, "up.untemp") /\ SetEntry(w, "temp", "none", "up.settle")

SyncRemoval(w) == At(w, "up.settle") /\ SyncDirectory(w, "up.activate")

Activate(w) ==
  /\ At(w, "up.activate")
  /\ row[job[w].on].state = "PENDING" /\ row[job[w].on].published
  /\ row' = [row EXCEPT ![job[w].on].state = "ACTIVE", ![job[w].on].attempts = 0]
  /\ Done(w)
  /\ UNCHANGED <<files, boot>>

(***************************************************************************)
(* handlePendingUploadFailure.  Before the link the temporary file and     *)
(* then the row are removed; from the attempt to link on, both are kept    *)
(* for reconciliation.  A refused activation is recorded for contracts.    *)
(***************************************************************************)
\* Mutant: a failed upload is undone after the link, too.
UndoLinked(w) ==
  /\ job[w].pc \in Unpublished \cup Publishing
  /\ GoTo(w, "undo.temp")
  /\ UNCHANGED <<row, files, boot>>

UploadFails(w) ==
  \/ /\ job[w].pc \in Unpublished
     /\ GoTo(w, "undo.temp")
     /\ UNCHANGED <<row, files, boot>>
  \/ /\ job[w].pc \in Publishing \/ At(w, "up.activate")
     /\ IF At(w, "up.activate") /\ job[w].on \notin Contracts
        THEN UNCHANGED row ELSE RecordFailure(job[w].on, "PENDING")
     /\ Done(w)
     /\ UNCHANGED <<files, boot>>

\* Mutant: the row is deleted although its temporary file could not be removed.
UndoKeepsTemp(w) ==
  /\ At(w, "undo.temp")
  /\ GoTo(w, "undo.row")
  /\ UNCHANGED <<row, files, boot>>

UndoTemp(w) == At(w, "undo.temp") /\ SetEntry(w, "temp", "none", "undo.row")

UndoRow(w) ==
  /\ At(w, "undo.row")
  /\ row' = [row EXCEPT ![job[w].on] = [NoRow EXCEPT !.state = "DELETED"]]
  /\ Done(w)
  /\ UNCHANGED <<files, boot>>

UndoFails(w) ==
  /\ \/ At(w, "undo.temp") /\ RecordFailure(job[w].on, "PENDING")
     \/ At(w, "undo.row") /\ UNCHANGED row
  /\ Done(w)
  /\ UNCHANGED <<files, boot>>

(***************************************************************************)
(* archive: one conditional update.  A contract's file is cleaned up by    *)
(* the same request, a work log's by the next start.                       *)
(***************************************************************************)
ArchiveRead(w, a) ==
  /\ phase = "up"
  /\ job[w] = Idle
  /\ row[a].state = "ACTIVE"
  /\ Begin(w, "arc.update", a)
  /\ UNCHANGED <<row, files, boot>>

ArchiveUpdate(w) ==
  LET a == job[w].on IN
  /\ At(w, "arc.update")
  /\ row[a].state = "ACTIVE"
  /\ row' = [row EXCEPT ![a].state = "ARCHIVED", ![a].removed = FALSE, ![a].attempts = 0]
  /\ IF a \in Contracts THEN GoTo(w, "cln.old") ELSE Done(w)
  /\ UNCHANGED <<files, boot>>

ArchiveRefused(w) ==
  /\ At(w, "arc.update")
  /\ Done(w)
  /\ UNCHANGED <<row, files, boot>>

(***************************************************************************)
(* cleanupPublishedFile and markStorageDeleted.  Only entries of the file  *)
(* the row remembers are moved and removed.  The directory is removed when *)
(* that was its last entry: an upload that has opened it, but has no file  *)
(* in it yet, finds it stale.                                              *)
(***************************************************************************)
\* Mutant: a file is moved and removed by its name alone.
MayCleanByName(a, name) == row[a].identified /\ live[a][name] # "none"

MayClean(a, name) == row[a].identified /\ live[a][name] = "own"

RemoveOld(w) ==
  LET a == job[w].on IN
  /\ At(w, "cln.old")
  /\ live[a].quarantine = "none" \/ MayClean(a, "quarantine")
  /\ SetEntry(w, "quarantine", "none", IF shard THEN "cln.move" ELSE "cln.mark")

\* moveStoragePathNoReplace: mv -nT renames the file unless its new name is taken.
MoveNoReplace(a) ==
  /\ live[a].quarantine = "none"
  /\ live' = [live EXCEPT ![a].final = "none", ![a].quarantine = live[a].final]

MoveFinal(w) ==
  LET a == job[w].on IN
  /\ At(w, "cln.move")
  /\ IF live[a].final = "none"
     THEN GoTo(w, "cln.rmdir") /\ UNCHANGED live
     ELSE /\ MayClean(a, "final")
          /\ MoveNoReplace(a)
          /\ GoTo(w, "cln.drop")
  /\ UNCHANGED <<row, disk, whole, shard, parent, boot>>

DropQuarantine(w) == At(w, "cln.drop") /\ SetEntry(w, "quarantine", "none", "cln.rmdir")

RemoveShard(w) ==
  /\ At(w, "cln.rmdir")
  /\ \/ /\ live = NoFiles
        /\ shard' = FALSE /\ anchored' = FALSE
        /\ disk' = NoFiles
        /\ former' = IF anchored THEN disk ELSE former
     \/ UNCHANGED <<disk, shard, parent>>    \* not empty, or the call failed, which is ignored
  /\ job' = [v \in Workers |->
               IF v = w THEN [job[w] EXCEPT !.pc = "cln.mark"]
               ELSE IF At(v, "up.temp") /\ ~shard' THEN [job[v] EXCEPT !.pc = "up.stale"]
               ELSE job[v]]
  /\ UNCHANGED <<row, live, whole, boot>>

MarkDeleted(w) ==
  /\ At(w, "cln.mark")
  /\ row[job[w].on].state = "ARCHIVED"
  /\ row' = [row EXCEPT ![job[w].on].removed = TRUE]
  /\ Done(w)
  /\ UNCHANGED <<files, boot>>

\* A call of the clean-up fails, or it finds another file in the place of its own.
CleaningFails(w) ==
  /\ job[w].pc \in Cleaning
  /\ RecordFailure(job[w].on, "ARCHIVED")
  /\ Done(w)
  /\ UNCHANGED <<files, boot>>

(***************************************************************************)
(* onApplicationBootstrap: reconcilePendingUploads, then                   *)
(* reconcileStorageCleanup, each row by row over one batch.                *)
(***************************************************************************)
Unfinished(state) == {a \in Attachments : Retryable(a, state)}

Batches(state) ==
  {batch \in SUBSET Unfinished(state) :
     \/ batch = Unfinished(state)
     \/ Cardinality(batch) = BatchSize /\ Cardinality(Unfinished(state)) > BatchSize}

TakeUp(w, a) ==
  /\ AllIdle
  /\ a \in queue
  /\ queue' = queue \ {a}
  /\ Begin(w, IF phase = "pending" THEN "rec.check" ELSE "cln.old", a)
  /\ UNCHANGED <<row, files, phase>>

EndBatch ==
  /\ AllIdle
  /\ queue = {}
  /\ \/ phase = "pending" /\ phase' = "archived" /\ queue' \in Batches("ARCHIVED")
     \/ phase = "archived" /\ phase' = "up" /\ UNCHANGED queue
  /\ UNCHANGED <<row, files, job>>

\* Mutant: the identity of the final file is not compared.
CanRecoverByName(a) ==
  /\ shard
  /\ row[a].identified
  /\ row[a].published
  /\ live[a].final # "none"
  /\ live[a].temp # "other"

\* recoverPendingUpload: the marker, the identity and both entries must agree.
CanRecover(a) ==
  /\ shard
  /\ row[a].identified
  /\ row[a].published
  /\ live[a].final = "own"
  /\ live[a].temp # "other"

RecoverCheck(w) ==
  /\ At(w, "rec.check")
  /\ CanRecover(job[w].on)
  /\ GoTo(w, "rec.sync")
  /\ UNCHANGED <<row, files, boot>>

RecoverSync(w) ==
  /\ At(w, "rec.sync")
  /\ SyncDirectory(w, IF live[job[w].on].temp = "none" THEN "rec.activate" ELSE "rec.temp")

RecoverRemoveTemp(w) == At(w, "rec.temp") /\ SetEntry(w, "temp", "none", "rec.settle")

RecoverSyncRemoval(w) == At(w, "rec.settle") /\ SyncDirectory(w, "rec.activate")

RecoverActivate(w) ==
  /\ At(w, "rec.activate")
  /\ row[job[w].on].state = "PENDING" /\ row[job[w].on].published
  /\ row' = [row EXCEPT ![job[w].on].state = "ACTIVE", ![job[w].on].attempts = 0]
  /\ Done(w)
  /\ UNCHANGED <<files, boot>>

RecoverFails(w) ==
  /\ \/ At(w, "rec.check") /\ ~CanRecover(job[w].on)
     \/ job[w].pc \in Recovering
  /\ RecordFailure(job[w].on, "PENDING")
  /\ Done(w)
  /\ UNCHANGED <<files, boot>>

(***************************************************************************)
(* The process is lost and started again.  When the host fails, too, each  *)
(* entry changed since the last fsync is found as before or as after: in   *)
(* the shard if it is anchored, or else in the directory to which its      *)
(* parent on the disk leads, the shard, a former one or none.              *)
(***************************************************************************)
StartAgain ==
  /\ job' = [w \in Workers |-> Idle]
  /\ phase' = "pending"
  /\ queue' \in Batches("PENDING")

Crash == StartAgain /\ UNCHANGED <<row, files>>

\* The kernel writes the parent of the shard back.
WriteBack ==
  /\ PowerLoss
  /\ anchored # shard \/ former # NoFiles
  /\ anchored' = shard
  /\ former' = NoFiles
  /\ UNCHANGED <<row, live, disk, whole, shard, job, boot>>

\* What is found of entries that were old on the disk and have become new.
Found(old, new) ==
  {[a \in Attachments |-> [n \in Names |-> IF <<a, n>> \in lost THEN old[a][n] ELSE new[a][n]]] :
     lost \in SUBSET {e \in Attachments \X Names : old[e[1]][e[2]] # new[e[1]][e[2]]}}

HostFails ==
  /\ PowerLoss
  /\ \E kept \in {anchored, shard} :    \* only a shard that is not anchored may be lost
       /\ live' \in IF kept THEN Found(disk, live) ELSE Found(former, NoFiles)
       /\ shard' \in {kept, TRUE}
       /\ live' # NoFiles => shard'
  /\ disk' = live'
  /\ anchored' = shard'
  /\ former' = NoFiles
  /\ StartAgain
  /\ UNCHANGED <<row, whole>>

-----------------------------------------------------------------------------
Init ==
  /\ row = [a \in Attachments |-> NoRow]
  /\ live = NoFiles
  /\ disk = NoFiles
  /\ whole = [a \in Attachments |-> FALSE]
  /\ shard = FALSE
  /\ anchored = FALSE
  /\ former = NoFiles
  /\ job = [w \in Workers |-> Idle]
  /\ phase = "up"
  /\ queue = {}

Upload(w) ==
  \/ \E a \in Attachments : UploadInsert(w, a)
  \/ OpenShard(w) \/ OpenTemp(w) \/ WriteTemp(w) \/ RecordIdentity(w)
  \/ LinkFinal(w) \/ SyncFinal(w) \/ MarkPublished(w) \/ RemoveTemp(w) \/ SyncRemoval(w)
  \/ Activate(w)
  \/ UploadFails(w) \/ UndoTemp(w) \/ UndoRow(w) \/ UndoFails(w)

Archive(w) ==
  \/ \E a \in Attachments : ArchiveRead(w, a)
  \/ ArchiveUpdate(w) \/ ArchiveRefused(w)

Clean(w) ==
  RemoveOld(w) \/ MoveFinal(w) \/ DropQuarantine(w) \/ RemoveShard(w) \/ MarkDeleted(w)
    \/ CleaningFails(w)

Recover(w) ==
  \/ \E a \in Attachments : TakeUp(w, a)
  \/ RecoverCheck(w) \/ RecoverSync(w) \/ RecoverRemoveTemp(w) \/ RecoverSyncRemoval(w)
  \/ RecoverActivate(w) \/ RecoverFails(w)

Next ==
  \/ \E w \in Workers : Upload(w) \/ Archive(w) \/ Clean(w) \/ Recover(w)
  \/ EndBatch
  \/ Crash \/ WriteBack \/ HostFails

Spec == Init /\ [][Next]_vars

-----------------------------------------------------------------------------
(***************************************************************************)
(* Properties.                                                             *)
(***************************************************************************)

\* A row that is marked published and not archived has its complete file in place, and on
\* the disk as surely as the shard is, unless all its entries have gone with the shard; and
\* one that can be downloaded has nothing beside its file.
PublishedFileIsSafe ==
  \A a \in Attachments :
    /\ row[a].published /\ row[a].state \in {"PENDING", "ACTIVE"}
         => /\ whole[a] /\ row[a].identified
            /\ \/ live[a].final = "own" /\ disk[a].final = "own"
               \/ live[a] = NoEntries /\ disk[a] = NoEntries
    /\ row[a].state = "ACTIVE"
         => /\ row[a].published
            /\ live[a] \in {NoEntries, [NoEntries EXCEPT !.final = "own"]} /\ disk[a] = live[a]

\* Entries that no row accounts for: there is none, or it says that they are removed.
Stray(a) ==
  (row[a].state \in {"ABSENT", "DELETED"} \/ row[a].removed) /\ live[a] # NoEntries

\* However uploads fail and processes are lost, no file is left behind: only with the host
\* can a removed entry come back to a row that does not account for it.
NoStrayFile == [][\A a \in Attachments : Stray(a)' => Stray(a) \/ HostFails]_vars

\* Once the final link exists it is kept with its row until the attachment is archived: no
\* failed upload, reconciliation or clean-up of another row removes them.  Only with the
\* host can a link be lost: one that was not yet synced and marked, or, as nobody syncs the
\* parent of the shard, any one in a shard that is not anchored.
LinkedIsRetained ==
  [][\A a \in Attachments :
       live[a].final = "own" /\ row[a].state # "ARCHIVED"
         => /\ row'[a].state \in {"PENDING", "ACTIVE", "ARCHIVED"}
            /\ live'[a].final = "own" \/ (HostFails /\ ~(row[a].published /\ anchored))]_vars
=============================================================================
