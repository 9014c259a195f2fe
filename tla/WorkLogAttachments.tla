------------------------- MODULE WorkLogAttachments -------------------------
(***************************************************************************)
(* Attachments of work logs, composed with the requests of WorkLogs: the   *)
(* upload and the archiving of a draft's attachments, the rebinding of     *)
(* attachments inside submit, the loss of the API process, and what it     *)
(* does when it starts again: finish the uploads, then remove the files of *)
(* the archived attachments.                                               *)
(*                                                                         *)
(* Each attachment identifier is used by one upload; its job is that       *)
(* upload and, later, a request that archives it.  The file behind a row   *)
(* is abstracted to `published'.  One API process serves the project, and  *)
(* it accepts requests only after reconciliation (onApplicationBootstrap). *)
(***************************************************************************)
EXTENDS WorkLogs

CONSTANTS
  Attachments,       \* identifiers of attachments rows
  CleanupAttempts,   \* reconciliation gives a row up after so many failures
  NotYet             \* the rebinding statement of a submit has not run

ASSUME AttachmentsAssumption == CleanupAttempts \in Nat \ {0}

VARIABLES
  att,        \* att[a]: the attachments row
  job,        \* job[a]: the upload of a, or the request archiving it
  rebound,    \* rebound[p]: rows rebound by p's uncommitted submit, NotYet before
  boot        \* rows the starting API has yet to look at; {} when it is up

attVars == <<att, job, rebound, boot>>
allVars == <<vars, attVars>>

\* bound: the version of resourceType WORK_LOG_VERSION, 0 for resourceType WORK_LOG.
\* removed: storageDeletedAt is set.
AttachmentRow ==
  [state : {"ABSENT", "PENDING", "ACTIVE", "ARCHIVED"}, log : Logs, user : Users,
   published : BOOLEAN, bound : 0..MaxVersion, attempts : 0..CleanupAttempts,
   removed : BOOLEAN]
NoAttachment == [state |-> "ABSENT"]

AttachmentJob ==
  [pc : {"upload.insert", "upload.publish", "upload.activate", "archive.write"},
   user : Users, log : Logs]

AttTypeOK ==
  /\ TypeOK
  /\ att \in [Attachments -> {NoAttachment} \cup AttachmentRow]
  /\ job \in [Attachments -> {Idle} \cup AttachmentJob]
  /\ rebound \in [Requests -> {NotYet} \cup SUBSET Attachments]
  /\ boot \subseteq Attachments

Up == boot = {}
JobDone(a) == job' = [job EXCEPT ![a] = Idle]

\* a was rebound by a submit that has not committed: its row is locked.
RowLocked(a) == \E p \in Requests : rebound[p] # NotYet /\ a \in rebound[p]

Unbound(l) == {a \in Attachments : /\ att[a].state = "ACTIVE"
                                   /\ att[a].log = l
                                   /\ att[a].bound = 0}
BoundTo(l, n) == {a \in Attachments : /\ att[a].state = "ACTIVE"
                                      /\ att[a].log = l
                                      /\ att[a].bound = n}

\* What list and download show of a log (visibleAttachmentFilter).
Visible(l) == Unbound(l) \cup BoundTo(l, log[l].current)

(***************************************************************************)
(* upload: the draft is checked, the row inserted PENDING, the file stored *)
(* and marked published, the row activated if the log still is a draft of  *)
(* the same author.  A failure before publication deletes the row.         *)
(***************************************************************************)
UploadRead(a, u, l) ==
  /\ Up
  /\ att[a] = NoAttachment /\ job[a] = Idle
  /\ Owned(u, l, "DRAFT")
  /\ job' = [job EXCEPT ![a] = [pc |-> "upload.insert", user |-> u, log |-> l]]
  /\ UNCHANGED <<vars, att, rebound, boot>>

UploadInsert(a) ==
  /\ job[a].pc = "upload.insert"
  /\ att' = [att EXCEPT ![a] =
       [state |-> "PENDING", log |-> job[a].log, user |-> job[a].user, published |-> FALSE,
        bound |-> 0, attempts |-> 0, removed |-> FALSE]]
  /\ job' = [job EXCEPT ![a].pc = "upload.publish"]
  /\ UNCHANGED <<vars, rebound, boot>>

UploadPublish(a) ==
  /\ job[a].pc = "upload.publish"
  /\ att' = [att EXCEPT ![a].published = TRUE]
  /\ job' = [job EXCEPT ![a].pc = "upload.activate"]
  /\ UNCHANGED <<vars, rebound, boot>>

ActivateWhere(a) ==
  /\ att[a].state = "PENDING"
  /\ att[a].published
  /\ Owned(att[a].user, att[a].log, "DRAFT")

UploadActivate(a) ==
  /\ job[a].pc = "upload.activate"
  /\ ActivateWhere(a)
  /\ att' = [att EXCEPT ![a].state = "ACTIVE"]
  /\ JobDone(a)
  /\ UNCHANGED <<vars, rebound, boot>>

\* The request of a ends in an error.  Before publication the row is deleted; a clean-up
\* that fails, or an error once the file is linked, counts an attempt on a row that stays.
\* A refused activation leaves row and file to reconciliation.
UploadFails(a) ==
  /\ job[a] # Idle
  /\ \/ UNCHANGED att
     \/ job[a].pc = "upload.publish" /\ att' = [att EXCEPT ![a] = NoAttachment]
     \/ job[a].pc \in {"upload.publish", "upload.activate"} /\ att' = [att EXCEPT ![a].attempts = 1]
  /\ JobDone(a)
  /\ UNCHANGED <<vars, rebound, boot>>

(***************************************************************************)
(* archive: the draft is checked, then one conditional update.             *)
(***************************************************************************)
ArchiveRead(a, u, l) ==
  /\ Up
  /\ job[a] = Idle
  /\ Owned(u, l, "DRAFT")
  /\ a \in Unbound(l)
  /\ job' = [job EXCEPT ![a] = [pc |-> "archive.write", user |-> u, log |-> l]]
  /\ UNCHANGED <<vars, att, rebound, boot>>

\* Mutant: bound attachments can be archived, too.
ArchiveWhereBound(a) == att[a].state = "ACTIVE" /\ att[a].log = job[a].log

ArchiveWhere(a) == att[a].state = "ACTIVE" /\ att[a].log = job[a].log /\ att[a].bound = 0

ArchiveCommit(a) ==
  /\ job[a].pc = "archive.write"
  /\ ~RowLocked(a)
  /\ ArchiveWhere(a)
  /\ att' = [att EXCEPT ![a].state = "ARCHIVED", ![a].attempts = 0]
  /\ JobDone(a)
  /\ UNCHANGED <<vars, rebound, boot>>

(***************************************************************************)
(* submit, with the statement that rebinds the draft's attachments.  Its   *)
(* snapshot holds the rows that are ACTIVE when it starts.                 *)
(***************************************************************************)
\* Mutant: the rebinding runs outside the transaction of submit.
SubmitRebindAtOnce(p) ==
  /\ At(p, "submit.commit")
  /\ rebound[p] = NotYet
  /\ rebound' = [rebound EXCEPT ![p] = {}]
  /\ att' = [a \in Attachments |-> IF a \in Unbound(req[p].log)
                                   THEN [att[a] EXCEPT !.bound = req[p].current] ELSE att[a]]
  /\ UNCHANGED <<vars, job, boot>>

SubmitRebind(p) ==
  /\ At(p, "submit.commit")
  /\ rebound[p] = NotYet
  /\ rebound' = [rebound EXCEPT ![p] = Unbound(req[p].log)]
  /\ UNCHANGED <<vars, att, job, boot>>

SubmitCommitBound(p) ==
  /\ rebound[p] # NotYet
  /\ SubmitCommit(p)
  /\ att' = [a \in Attachments |->
               IF a \in rebound[p] THEN [att[a] EXCEPT !.bound = req[p].current] ELSE att[a]]
  /\ rebound' = [rebound EXCEPT ![p] = NotYet]
  /\ UNCHANGED <<job, boot>>

RequestRollsBack(p) ==
  /\ RequestFails(p)
  /\ rebound' = [rebound EXCEPT ![p] = NotYet]
  /\ UNCHANGED <<att, job, boot>>

(***************************************************************************)
(* The API process is lost with everything in flight.  When it starts it   *)
(* tries, once each, to finish every upload that is still PENDING, and     *)
(* after that to remove the file of every ARCHIVED row that still has one. *)
(***************************************************************************)
\* Mutant: rows that have been given up are tried again.
UnfinishedForEver == {a \in Attachments : att[a].state = "PENDING"}

Unfinished == {a \in Attachments : /\ att[a].state = "PENDING"
                                   /\ att[a].attempts < CleanupAttempts}

Unremoved == {a \in Attachments : /\ att[a].state = "ARCHIVED"
                                  /\ ~att[a].removed
                                  /\ att[a].attempts < CleanupAttempts}

Restart ==
  /\ req' = [p \in Requests |-> Idle]
  /\ job' = [a \in Attachments |-> Idle]
  /\ rebound' = [p \in Requests |-> NotYet]
  /\ boot' = Unfinished \cup Unremoved
  /\ UNCHANGED <<accessVars, log, version, approval, att>>

Recover(a) ==
  /\ a \in boot
  /\ ActivateWhere(a)
  /\ att' = [att EXCEPT ![a].state = "ACTIVE", ![a].attempts = 0]
  /\ boot' = boot \ {a}
  /\ UNCHANGED <<vars, job, rebound>>

Remove(a) ==
  /\ a \in boot
  /\ \A b \in boot : att[b].state = "ARCHIVED"
  /\ att' = [att EXCEPT ![a].removed = TRUE]
  /\ boot' = boot \ {a}
  /\ UNCHANGED <<vars, job, rebound>>

\* Not published, no draft of its author any more, or a storage error: an attempt is counted,
\* unless the database refuses that too.
StartFails(a) ==
  /\ a \in boot
  /\ att[a].state = "PENDING" \/ \A b \in boot : att[b].state = "ARCHIVED"
  /\ UNCHANGED att \/ att' = [att EXCEPT ![a].attempts = @ + 1]
  /\ boot' = boot \ {a}
  /\ UNCHANGED <<vars, job, rebound>>

(***************************************************************************)
(* The composition.                                                        *)
(***************************************************************************)
AttInit ==
  /\ Init
  /\ att = [a \in Attachments |-> NoAttachment]
  /\ job = [a \in Attachments |-> Idle]
  /\ rebound = [p \in Requests |-> NotYet]
  /\ boot = {}

LogStep ==
  /\ Up
  /\ \/ \E p \in Requests, u \in Users : Accept(p, u)
     \/ \E p \in Requests : Statement(p)
     \/ AccessStep
  /\ UNCHANGED attVars

AttachmentStep(a) ==
  \/ \E u \in Users, l \in Logs : UploadRead(a, u, l) \/ ArchiveRead(a, u, l)
  \/ UploadInsert(a) \/ UploadPublish(a) \/ UploadActivate(a) \/ UploadFails(a)
  \/ ArchiveCommit(a)
  \/ Recover(a) \/ Remove(a) \/ StartFails(a)

AttNext ==
  \/ LogStep
  \/ \E p \in Requests : SubmitRebind(p) \/ SubmitCommitBound(p) \/ RequestRollsBack(p)
  \/ \E a \in Attachments : AttachmentStep(a)
  \/ Restart

AttSpec == AttInit /\ [][AttNext]_allVars

-----------------------------------------------------------------------------
(***************************************************************************)
(* Properties.                                                             *)
(***************************************************************************)

\* The evidence of a submission is closed with it: the attachments bound to a version that
\* has an approval request are the same ever after, whatever is uploaded, archived,
\* resubmitted or reconciled.
EvidenceIsClosed ==
  [][\A l \in Logs, n \in Numbers :
       approval[l][n].status # "NONE" => BoundTo(l, n)' = BoundTo(l, n)]_allVars

\* An attachment is bound only to a version of its own log that was really submitted.
BoundToSubmittedVersion ==
  \A a \in Attachments :
    att[a] # NoAttachment /\ att[a].bound # 0
      => /\ version[att[a].log][att[a].bound].frozen
         /\ approval[att[a].log][att[a].bound].status # "NONE"

\* What its author has archived, or reconciliation has given up, is not shown again, whatever
\* the next starts do to its row: they may only mark its file removed or count an attempt.
NoResurrection ==
  [][\A a \in Attachments :
       /\ att[a].state = "ARCHIVED" =>
            /\ att'[a].state = "ARCHIVED" /\ att'[a].bound = att[a].bound
            /\ att[a].removed => att'[a] = att[a]
       /\ att[a].state = "PENDING" /\ att[a].attempts = CleanupAttempts
            => att'[a].state # "ACTIVE"]_allVars

\* Claimed by the comment at the activation in upload: a submission during the upload
\* leaves no visible attachment.
SubmittedLogShowsBoundOnly ==
  \A l \in Logs : log[l].status = "SUBMITTED" => Visible(l) \subseteq BoundTo(l, log[l].current)
=============================================================================
