------------------------------ MODULE WorkLogs ------------------------------
(***************************************************************************)
(* Work logs and their approval: the rows of work_logs, work_log_versions, *)
(* approval_requests and approval_decisions of one project, and the API    *)
(* requests that read and write them.                                      *)
(*                                                                         *)
(* The rows hold committed state only.  A request is a sequence of         *)
(* statements; what it has read so far is in req[p].  Every statement that *)
(* reads without a lock is a step of its own, so anything may commit       *)
(* between two of them (PostgreSQL, READ COMMITTED).  From its first row   *)
(* write on a transaction holds the row's lock, so the write, what follows *)
(* it and the commit are one step; submit keeps two (SubmitCas locks,      *)
(* SubmitCommit publishes), because attachments are rebound in between.    *)
(* A request that is refused, meets a database error or loses its API      *)
(* process leaves no row behind: RequestFails.                             *)
(***************************************************************************)
EXTENDS ProjectAccess

CONSTANTS
  Logs,               \* identifiers of work_logs rows
  Requests,           \* API requests in flight at the same time
  Texts,              \* contents of a version (date, hours, completion, note)
  Decider,            \* users whose system roles grant approval:decide
  VisibilityManager,  \* users whose system roles grant worklog:manage
  NoOne, NoText,      \* absent user, absent version row
  MaxVersion,         \* bound: versions of one log
  MaxToken            \* bound: work_logs.version, the concurrency token

ASSUME WorkLogsAssumption ==
  /\ Decider \subseteq Users
  /\ VisibilityManager \subseteq Users
  /\ NoOne \notin Users
  /\ NoText \notin Texts
  /\ MaxVersion \in Nat \ {0}
  /\ MaxToken \in Nat \ {0}

VARIABLES
  log,        \* log[l]: the work_logs row
  version,    \* version[l][n]: the work_log_versions row with versionNumber n
  approval,   \* approval[l][n]: the approval_requests row of that version
  req         \* req[p]: what request p is doing and what it has read

logVars == <<log, version, approval, req>>
vars == <<roles, projectOpen, log, version, approval, req>>

Numbers == 1..MaxVersion
Tokens == 1..MaxToken
Verdicts == {"APPROVED", "RETURNED", "REJECTED"}
Visibilities == {"PRIVATE", "PROJECT_VISIBLE"}

LogRow ==
  [status : {"ABSENT", "DRAFT", "SUBMITTED"} \cup Verdicts, author : Users \cup {NoOne},
   current : 0..MaxVersion, token : 0..MaxToken, visibility : Visibilities]
VersionRow == [text : Texts \cup {NoText}, frozen : BOOLEAN]
\* outcomes: how many times a decision row, a notification and a mail were written
ApprovalRow ==
  [status : {"NONE", "PENDING"} \cup Verdicts, approver : Users \cup {NoOne}, outcomes : Nat]

NoLog == [status |-> "ABSENT", author |-> NoOne, current |-> 0, token |-> 0,
          visibility |-> "PRIVATE"]
NoVersion == [text |-> NoText, frozen |-> FALSE]
NoApproval == [status |-> "NONE", approver |-> NoOne, outcomes |-> 0]

(***************************************************************************)
(* A request in flight, by the statement it executes next.                 *)
(***************************************************************************)
Idle == [pc |-> "idle"]

CreateJob == [pc : {"create"}, user : Users, text : Texts, visibility : Visibilities]

EditJob == [pc : {"edit.member", "edit.write"}, user : Users, log : Logs,
            current : Numbers, token : Tokens, text : Texts]

VisibilityJob == [pc : {"visibility.write"}, user : Users, log : Logs, token : Tokens,
                  visibility : Visibilities]

ReviseJob == [pc : {"revise.snapshot", "revise.write", "revise.error"}, user : Users, log : Logs,
              current : Numbers, token : 0..MaxToken, number : 0..MaxVersion, text : Texts]

SubmitJob == [pc : {"submit.approver", "submit.author", "submit.cas", "submit.commit"},
              user : Users, log : Logs, current : Numbers, approver : Users]

DecideJob == [pc : {"decide.access", "decide.recheck", "decide.commit"}, user : Users,
              log : Logs, current : Numbers, token : Tokens, verdict : Verdicts,
              capable : BOOLEAN]

Jobs == CreateJob \cup EditJob \cup VisibilityJob \cup ReviseJob \cup SubmitJob \cup DecideJob

TypeOK ==
  /\ AccessTypeOK
  /\ log \in [Logs -> LogRow]
  /\ version \in [Logs -> [Numbers -> VersionRow]]
  /\ approval \in [Logs -> [Numbers -> ApprovalRow]]
  /\ req \in [Requests -> {Idle} \cup Jobs]

Begin(p, job) == req[p] = Idle /\ req' = [req EXCEPT ![p] = job]
At(p, pc) == req[p].pc = pc
GoTo(p, pc) == req' = [req EXCEPT ![p].pc = pc]
Finish(p) == req' = [req EXCEPT ![p] = Idle]

\* Mutant: the CAS of submit runs outside its transaction, no lock is kept.
RowFreeNoLock(l) == TRUE

\* No submit holds the lock of the row, and the token has room for one more write.
RowFree(l) == \A p \in Requests : At(p, "submit.commit") => req[p].log # l
Writable(l) == RowFree(l) /\ log[l].token < MaxToken

NumbersOf(l) == {n \in Numbers : version[l][n] # NoVersion}
Owned(u, l, status) == log[l].author = u /\ log[l].status = status

CanSetVisibility(u) ==
  CanAccess(u) /\ ("PROJECT_MANAGER" \in roles[u] \/ u \in VisibilityManager)
CanApprove(u) == CanAccess(u) /\ ("APPROVER" \in roles[u] \/ u \in Decider)

(***************************************************************************)
(* createDraft: access check, then one transaction inserts the log in      *)
(* DRAFT, version 1 and the pointer to it.  l is the fresh identifier.     *)
(***************************************************************************)
CreateRead(p, u, text, visibility) ==
  /\ CanAccess(u)
  /\ visibility = "PROJECT_VISIBLE" => CanSetVisibility(u)
  /\ Begin(p, [pc |-> "create", user |-> u, text |-> text, visibility |-> visibility])
  /\ UNCHANGED <<accessVars, log, version, approval>>

\* Mutant: the pointer to version 1 is not set.
CreateCommitNoCurrent(p, l) ==
  /\ At(p, "create")
  /\ log[l] = NoLog
  /\ log' = [log EXCEPT ![l] = [status |-> "DRAFT", author |-> req[p].user, current |-> 0,
                                token |-> 1, visibility |-> req[p].visibility]]
  /\ version' = [version EXCEPT ![l][1] = [text |-> req[p].text, frozen |-> FALSE]]
  /\ Finish(p)
  /\ UNCHANGED <<accessVars, approval>>

CreateCommit(p, l) ==
  /\ At(p, "create")
  /\ log[l] = NoLog
  /\ log' = [log EXCEPT ![l] = [status |-> "DRAFT", author |-> req[p].user, current |-> 1,
                                token |-> 1, visibility |-> req[p].visibility]]
  /\ version' = [version EXCEPT ![l][1] = [text |-> req[p].text, frozen |-> FALSE]]
  /\ Finish(p)
  /\ UNCHANGED <<accessVars, approval>>

(***************************************************************************)
(* updateDraft.  `token' is the version the client sends with its PATCH.   *)
(***************************************************************************)
EditRead(p, u, l, text, token) ==
  /\ Owned(u, l, "DRAFT")
  /\ Begin(p, [pc |-> "edit.member", user |-> u, log |-> l, current |-> log[l].current,
               token |-> token, text |-> text])
  /\ UNCHANGED <<accessVars, log, version, approval>>

EditMember(p) ==
  /\ At(p, "edit.member")
  /\ CanAccess(req[p].user)
  /\ GoTo(p, "edit.write")
  /\ UNCHANGED <<accessVars, log, version, approval>>

\* Mutant: the update does not compare the token.
EditWhereAnyToken(p) ==
  Owned(req[p].user, req[p].log, "DRAFT") /\ log[req[p].log].current = req[p].current

EditWhere(p) ==
  LET row == log[req[p].log] IN
  /\ Owned(req[p].user, req[p].log, "DRAFT")
  /\ row.current = req[p].current
  /\ row.token = req[p].token

EditCommit(p) ==
  LET l == req[p].log IN
  /\ At(p, "edit.write")
  /\ Writable(l)
  /\ EditWhere(p)
  /\ log' = [log EXCEPT ![l].token = @ + 1]
  /\ version' = [version EXCEPT ![l][req[p].current].text = req[p].text]
  /\ Finish(p)
  /\ UNCHANGED <<accessVars, approval>>

(***************************************************************************)
(* setVisibility: any status, the client's token.                          *)
(***************************************************************************)
VisibilityRead(p, u, l, visibility, token) ==
  /\ log[l] # NoLog
  /\ CanSetVisibility(u)
  /\ Begin(p, [pc |-> "visibility.write", user |-> u, log |-> l, token |-> token,
               visibility |-> visibility])
  /\ UNCHANGED <<accessVars, log, version, approval>>

VisibilityWhere(p) == log[req[p].log].token = req[p].token

\* Mutant: a visibility change does not raise the token.
VisibilityCommitKeepsToken(p) ==
  /\ At(p, "visibility.write")
  /\ Writable(req[p].log)
  /\ VisibilityWhere(p)
  /\ log' = [log EXCEPT ![req[p].log].visibility = req[p].visibility]
  /\ Finish(p)
  /\ UNCHANGED <<accessVars, version, approval>>

VisibilityCommit(p) ==
  LET l == req[p].log IN
  /\ At(p, "visibility.write")
  /\ Writable(l)
  /\ VisibilityWhere(p)
  /\ log' = [log EXCEPT ![l].visibility = req[p].visibility, ![l].token = @ + 1]
  /\ Finish(p)
  /\ UNCHANGED <<accessVars, version, approval>>

(***************************************************************************)
(* addVersion, SERIALIZABLE: membership and highest number are read from   *)
(* one snapshot; the version is inserted, where the insert trigger looks   *)
(* at the status in that snapshot; then the row is updated, its WHERE      *)
(* clause evaluated in the snapshot too.  The commit succeeds only if the  *)
(* row is still the one of the snapshot (else P2034) and the number is     *)
(* still free (else P2002).  Both, and a WHERE that does not hold, end in  *)
(* a 409.  The trigger's 23514 is not mapped: that request is kept, at     *)
(* "revise.error", until it ends in a 500.                                 *)
(***************************************************************************)
\* Mutant: the status is not looked at before the transaction.
ReviseReadAnyStatus(p, u, l, text) ==
  /\ log[l] # NoLog /\ log[l].author = u
  /\ Begin(p, [pc |-> "revise.snapshot", user |-> u, log |-> l, current |-> log[l].current,
               token |-> 0, number |-> 0, text |-> text])
  /\ UNCHANGED <<accessVars, log, version, approval>>

ReviseRead(p, u, l, text) ==
  /\ Owned(u, l, "RETURNED")
  /\ Begin(p, [pc |-> "revise.snapshot", user |-> u, log |-> l, current |-> log[l].current,
               token |-> 0, number |-> 0, text |-> text])
  /\ UNCHANGED <<accessVars, log, version, approval>>

\* work_log_version_insert_guard.
InsertGuardPasses(l) == log[l].status \in {"DRAFT", "RETURNED"}

ReviseRefused(p) ==
  /\ At(p, "revise.snapshot")
  /\ CanAccess(req[p].user)
  /\ ~InsertGuardPasses(req[p].log)
  /\ GoTo(p, "revise.error")
  /\ UNCHANGED <<accessVars, log, version, approval>>

NextNumber(l, n) == n - 1 \in NumbersOf(l) /\ \A m \in NumbersOf(l) : m < n

ReviseWhere(p) ==
  /\ Owned(req[p].user, req[p].log, "RETURNED")
  /\ log[req[p].log].current = req[p].current

ReviseSnapshot(p) ==
  LET l == req[p].log IN
  /\ At(p, "revise.snapshot")
  /\ CanAccess(req[p].user)
  /\ InsertGuardPasses(l)
  /\ ReviseWhere(p)
  /\ \E n \in Numbers :
       /\ NextNumber(l, n)
       /\ req' = [req EXCEPT ![p].pc = "revise.write", ![p].number = n,
                             ![p].token = log[l].token]
  /\ UNCHANGED <<accessVars, log, version, approval>>

ReviseSerializable(p) ==
  LET l == req[p].log IN
  /\ log[l].token = req[p].token
  /\ req[p].number \notin NumbersOf(l)

ReviseCommit(p) ==
  LET l == req[p].log IN
  /\ At(p, "revise.write")
  /\ Writable(l)
  /\ ReviseSerializable(p)
  /\ version' = [version EXCEPT ![l][req[p].number] = [text |-> req[p].text, frozen |-> FALSE]]
  /\ log' = [log EXCEPT ![l].status = "DRAFT", ![l].current = req[p].number,
                        ![l].token = @ + 1]
  /\ Finish(p)
  /\ UNCHANGED <<accessVars, approval>>

(***************************************************************************)
(* submit: the approver's and the author's membership are read in the      *)
(* transaction but without a lock; the status moves under a CAS on status  *)
(* and currentVersionId (not on the token); the unfrozen versions are      *)
(* frozen (by the service and by the trigger); the request is inserted.    *)
(***************************************************************************)
SubmitRead(p, u, l, approver) ==
  /\ approver # u
  /\ Owned(u, l, "DRAFT")
  /\ Begin(p, [pc |-> "submit.approver", user |-> u, log |-> l,
               current |-> log[l].current, approver |-> approver])
  /\ UNCHANGED <<accessVars, log, version, approval>>

SubmitApprover(p) ==
  /\ At(p, "submit.approver")
  /\ CanApprove(req[p].approver)
  /\ GoTo(p, "submit.author")
  /\ UNCHANGED <<accessVars, log, version, approval>>

SubmitAuthor(p) ==
  /\ At(p, "submit.author")
  /\ CanAccess(req[p].user)
  /\ GoTo(p, "submit.cas")
  /\ UNCHANGED <<accessVars, log, version, approval>>

SubmitWhere(p) ==
  /\ Owned(req[p].user, req[p].log, "DRAFT")
  /\ log[req[p].log].current = req[p].current

SubmitCas(p) ==
  /\ At(p, "submit.cas")
  /\ Writable(req[p].log)
  /\ SubmitWhere(p)
  /\ GoTo(p, "submit.commit")
  /\ UNCHANGED <<accessVars, log, version, approval>>

\* Mutant: the submitted version itself is left out.
FreezeEarlier(l) ==
  [n \in Numbers |-> IF version[l][n] = NoVersion \/ n >= log[l].current THEN version[l][n]
                     ELSE [version[l][n] EXCEPT !.frozen = TRUE]]

Freeze(l) ==
  [n \in Numbers |-> IF version[l][n] = NoVersion THEN NoVersion
                     ELSE [version[l][n] EXCEPT !.frozen = TRUE]]

SubmitCommit(p) ==
  LET l == req[p].log
      n == req[p].current
  IN
  /\ At(p, "submit.commit")
  /\ approval[l][n] = NoApproval          \* unique(workLogVersionId)
  /\ log' = [log EXCEPT ![l].status = "SUBMITTED", ![l].token = @ + 1]
  /\ version' = [version EXCEPT ![l] = Freeze(l)]
  /\ approval' = [approval EXCEPT ![l][n] = [status |-> "PENDING",
                                             approver |-> req[p].approver, outcomes |-> 0]]
  /\ Finish(p)
  /\ UNCHANGED accessVars

(***************************************************************************)
(* decide.  The request and its log are read by consecutive queries; what  *)
(* passes the checks also passes them all in the state of the last query,  *)
(* so they are one step.  `capable' is what assertStillEligibleApprover    *)
(* returns: FALSE for an APPROVER, whatever permissions the user has.      *)
(***************************************************************************)
DecideRead(p, u, l, n, verdict) ==
  /\ approval[l][n].approver = u
  /\ log[l].author # u
  /\ approval[l][n].status = "PENDING"
  /\ log[l].status = "SUBMITTED"
  /\ log[l].current = n
  /\ Begin(p, [pc |-> "decide.access", user |-> u, log |-> l, current |-> n,
               token |-> log[l].token, verdict |-> verdict, capable |-> FALSE])
  /\ UNCHANGED <<accessVars, log, version, approval>>

DecideAccess(p) ==
  LET u == req[p].user IN
  /\ At(p, "decide.access")
  /\ CanApprove(u)
  /\ req' = [req EXCEPT ![p].pc = "decide.recheck", ![p].capable = "APPROVER" \notin roles[u]]
  /\ UNCHANGED <<accessVars, log, version, approval>>

\* Mutant: only the role is read again, not the access to the project.
DecideRecheckRoleOnly(p) ==
  /\ At(p, "decide.recheck")
  /\ "APPROVER" \in roles[req[p].user] \/ req[p].capable
  /\ GoTo(p, "decide.commit")
  /\ UNCHANGED <<accessVars, log, version, approval>>

DecideRecheck(p) ==
  LET u == req[p].user IN
  /\ At(p, "decide.recheck")
  /\ CanAccess(u)
  /\ "APPROVER" \in roles[u] \/ req[p].capable
  /\ GoTo(p, "decide.commit")
  /\ UNCHANGED <<accessVars, log, version, approval>>

\* WHERE of the update of approval_requests, then of work_logs.
ClaimWhere(p) ==
  LET row == approval[req[p].log][req[p].current] IN
  row.approver = req[p].user /\ row.status = "PENDING"

AdvanceWhere(p) ==
  LET row == log[req[p].log] IN
  /\ row.status = "SUBMITTED"
  /\ row.current = req[p].current
  /\ row.token = req[p].token

\* Mutant: both rows are updated by their identifier alone.
DecideCommitById(p) ==
  LET l == req[p].log
      n == req[p].current
  IN
  /\ At(p, "decide.commit")
  /\ Writable(l)
  /\ approval' = [approval EXCEPT ![l][n].status = req[p].verdict, ![l][n].outcomes = @ + 1]
  /\ log' = [log EXCEPT ![l].status = req[p].verdict, ![l].token = @ + 1]
  /\ Finish(p)
  /\ UNCHANGED <<accessVars, version>>

DecideCommit(p) ==
  LET l == req[p].log
      n == req[p].current
  IN
  /\ At(p, "decide.commit")
  /\ Writable(l)
  /\ ClaimWhere(p)
  /\ AdvanceWhere(p)
  /\ approval' = [approval EXCEPT ![l][n].status = req[p].verdict, ![l][n].outcomes = @ + 1]
  /\ log' = [log EXCEPT ![l].status = req[p].verdict, ![l].token = @ + 1]
  /\ Finish(p)
  /\ UNCHANGED <<accessVars, version>>

(***************************************************************************)
(* Refusal, a WHERE that does not hold, database error, deadlock victim,   *)
(* lost API process: the transaction rolls back and nothing of the request *)
(* remains.                                                                *)
(***************************************************************************)
RequestFails(p) ==
  /\ req[p] # Idle
  /\ Finish(p)
  /\ UNCHANGED <<accessVars, log, version, approval>>

(***************************************************************************)
(* The specification.                                                      *)
(***************************************************************************)
LogInit ==
  /\ log = [l \in Logs |-> NoLog]
  /\ version = [l \in Logs |-> [n \in Numbers |-> NoVersion]]
  /\ approval = [l \in Logs |-> [n \in Numbers |-> NoApproval]]
  /\ req = [p \in Requests |-> Idle]

Init == AccessInit /\ LogInit

Accept(p, u) ==
  \/ \E text \in Texts, visibility \in Visibilities : CreateRead(p, u, text, visibility)
  \/ \E l \in Logs, text \in Texts, token \in Tokens : EditRead(p, u, l, text, token)
  \/ \E l \in Logs, visibility \in Visibilities, token \in Tokens :
       VisibilityRead(p, u, l, visibility, token)
  \/ \E l \in Logs, text \in Texts : ReviseRead(p, u, l, text)
  \/ \E l \in Logs, approver \in Users : SubmitRead(p, u, l, approver)
  \/ \E l \in Logs, n \in Numbers, verdict \in Verdicts : DecideRead(p, u, l, n, verdict)

\* The next statement of an accepted request, up to the commit of a submission.
Statement(p) ==
  \/ \E l \in Logs : CreateCommit(p, l)
  \/ EditMember(p) \/ EditCommit(p)
  \/ VisibilityCommit(p)
  \/ ReviseSnapshot(p) \/ ReviseRefused(p) \/ ReviseCommit(p)
  \/ SubmitApprover(p) \/ SubmitAuthor(p) \/ SubmitCas(p)
  \/ DecideAccess(p) \/ DecideRecheck(p) \/ DecideCommit(p)

AccessStep == AccessNext /\ UNCHANGED logVars

Next ==
  \/ \E p \in Requests, u \in Users : Accept(p, u)
  \/ \E p \in Requests : Statement(p) \/ SubmitCommit(p) \/ RequestFails(p)
  \/ AccessStep

Spec == Init /\ [][Next]_vars

-----------------------------------------------------------------------------
(***************************************************************************)
(* Properties.                                                             *)
(***************************************************************************)

\* The rows of the three tables tell one story.  The versions of a log are numbered
\* without a gap up to the current one.  Every earlier version was submitted, frozen and
\* returned; the current one has a request exactly when the log has left DRAFT, and that
\* request is pending while the log is SUBMITTED and carries the log's verdict after.
RequestStatus(status) ==
  IF status = "DRAFT" THEN "NONE" ELSE IF status = "SUBMITTED" THEN "PENDING" ELSE status

VersionsMatchStatus(l) ==
  LET now == log[l].current IN
  /\ now \in NumbersOf(l)
  /\ NumbersOf(l) = 1..now
  /\ \A n \in Numbers :
       /\ version[l][n].frozen <=> (n < now \/ (n = now /\ log[l].status # "DRAFT"))
       /\ n < now => approval[l][n].status = "RETURNED"
       /\ n > now => approval[l][n] = NoApproval
  /\ approval[l][now].status = RequestStatus(log[l].status)

RowsAgree(l) ==
  IF log[l] = NoLog
  THEN NumbersOf(l) = {} /\ \A n \in Numbers : approval[l][n] = NoApproval
  ELSE log[l].status # "ABSENT" /\ log[l].token # 0 /\ VersionsMatchStatus(l)

\* All of this, of every log.
ReviewHistory == \A l \in Logs : RowsAgree(l)

\* A decided request has exactly one decision row, notification and mail, an undecided one
\* none, whatever requests raced; and the approver of a request never is the log's author.
OneOutcomePerRequest ==
  \A l \in Logs, n \in Numbers :
    LET row == approval[l][n] IN
    /\ row.outcomes = IF row.status \in Verdicts THEN 1 ELSE 0
    /\ row.status # "NONE" => row.approver \in Users \ {log[l].author}

\* What a request has checked still holds when it writes, as far as a row lock or an
\* unchanged token says so: a submission that holds its row finds the draft it locked, alone;
\* a new version is numbered after the current, returned one unless the row has moved on; and
\* a revision the insert trigger has refused was overtaken: its version is no longer current.
SubmitHoldsRow(p) ==
  At(p, "submit.commit") =>
    /\ Owned(req[p].user, req[p].log, "DRAFT")
    /\ log[req[p].log].current = req[p].current
    /\ log[req[p].log].token < MaxToken
    /\ \A q \in Requests : At(q, "submit.commit") /\ req[q].log = req[p].log => q = p

SnapshotHolds(p) ==
  At(p, "revise.write") =>
    /\ req[p].token <= log[req[p].log].token
    /\ req[p].token = log[req[p].log].token =>
         /\ Owned(req[p].user, req[p].log, "RETURNED")
         /\ req[p].number = log[req[p].log].current + 1

RevisionOvertaken(p) ==
  req[p].pc \in {"revise.snapshot", "revise.write", "revise.error"} =>
    LET l == req[p].log
        n == req[p].current
    IN
    /\ approval[l][n].status = "RETURNED"
    /\ n <= log[l].current
    /\ At(p, "revise.error") => n < log[l].current

NoSelfSubmission(p) ==
  req[p].pc \in {"submit.approver", "submit.author", "submit.cas", "submit.commit"}
    => req[p].approver # req[p].user

\* All of this, of every request in flight.
InFlight ==
  \A p \in Requests :
    SubmitHoldsRow(p) /\ SnapshotHolds(p) /\ RevisionOvertaken(p) /\ NoSelfSubmission(p)

\* The triggers on work_logs and work_log_versions are a second line of defence: nothing
\* the services commit is refused by one.  Version rows are not deleted, frozen ones not
\* changed; a status changes along the product's state machine only; a log starts in DRAFT;
\* a version is added, and the current version repointed, only in DRAFT or RETURNED.
LegalTransition(from, to) ==
  \/ from = to
  \/ <<from, to>> \in {<<"ABSENT", "DRAFT">>, <<"DRAFT", "SUBMITTED">>, <<"RETURNED", "DRAFT">>}
  \/ from = "SUBMITTED" /\ to \in Verdicts

VersionGuardPasses(l, n) ==
  /\ version[l][n] # NoVersion => version'[l][n] # NoVersion
  /\ version[l][n].frozen => version'[l][n] = version[l][n]
  /\ version[l][n] = NoVersion /\ version'[l][n] # NoVersion
       => log[l].status \in {"ABSENT", "DRAFT", "RETURNED"}

LogGuardPasses(l) ==
  /\ LegalTransition(log[l].status, log'[l].status)
  /\ log'[l].current # log[l].current => log'[l].status \in {"DRAFT", "RETURNED"}

\* The one statement a trigger does refuse is the insert of an addVersion that was overtaken
\* after its first look at the log: another addVersion of its author has committed a newer
\* version, which was submitted.
RefusedNow(p) == ~At(p, "revise.error") /\ req'[p].pc = "revise.error"

Overtaken(p) ==
  /\ approval[req[p].log][req[p].current].status = "RETURNED"
  /\ req[p].current < log[req[p].log].current
  /\ log[req[p].log].status \in {"SUBMITTED", "APPROVED", "REJECTED"}

\* No step is one that a trigger would refuse, but for that.
TriggersRefuseOnlyOvertaken ==
  [][/\ \A l \in Logs : LogGuardPasses(l) /\ \A n \in Numbers : VersionGuardPasses(l, n)
     /\ \A p \in Requests : RefusedNow(p) => Overtaken(p)]_vars

\* The token identifies what a client has seen of a log: whatever changes its row or its
\* current text raises the token by exactly one, and the author never changes.
Seen(l) == <<log[l], IF log[l].current = 0 THEN NoText ELSE version[l][log[l].current].text>>

TokenIdentifiesState ==
  [][\A l \in Logs : Seen(l)' # Seen(l) =>
       /\ log'[l].token = log[l].token + 1
       /\ log[l] # NoLog => log'[l].author = log[l].author]_vars

\* A write based on a stale token changes nothing: an edit, a visibility change, a new
\* version or a decision whose token is no longer the row's ends without an effect.
Stale(p) ==
  /\ req[p].pc \in {"edit.write", "visibility.write", "revise.write", "decide.commit"}
  /\ req[p].token # log[req[p].log].token

\* Such a request can only end, and leaves the rows as they are.
StaleWriterChangesNothing ==
  [][\A p \in Requests : Stale(p) /\ req'[p] # req[p] => UNCHANGED <<log, version, approval>>]_vars

\* The services implement the record of a review: see ReviewRecord.
Decided(l) == {n \in Numbers : approval[l][n].status \in Verdicts}

Record == INSTANCE ReviewRecord WITH
  stage <- [l \in Logs |-> log[l].status],
  text <- [l \in Logs |-> IF log[l].current = 0 THEN NoText
                          ELSE version[l][log[l].current].text],
  history <- [l \in Logs |->
                [n \in 1..Cardinality(Decided(l)) |->
                   [text |-> version[l][n].text, verdict |-> approval[l][n].status]]]

\* Every behaviour of the services is one of the review record.
ImplementsReviewRecord == Record!Spec

\* An archived project becomes read-only: once the requests that passed their access check
\* before the archive have ended, nothing about its logs changes any more, although members
\* and their pending requests are still there.
PastAccessCheck ==
  {"create", "edit.write", "visibility.write", "revise.write", "submit.cas",
   "submit.commit", "decide.commit"}

Drained == ~projectOpen /\ \A p \in Requests : req[p].pc \notin PastAccessCheck

\* Once drained, it stays so and its logs do not change.
ArchivedProjectDrains == [][Drained => Drained' /\ UNCHANGED <<log, version, approval>>]_vars
=============================================================================
