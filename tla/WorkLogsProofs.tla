--------------------------- MODULE WorkLogsProofs ---------------------------
(***************************************************************************)
(* Proofs about WorkLogs and WorkLogAttachments, for every set of users,   *)
(* logs, requests, texts and attachments and for every bound.  The         *)
(* inductive invariant of the logs is IInv, that of the composition with   *)
(* the attachments AttIInv.  The order: shapes of a step, types, rows,     *)
(* requests, theorems about the logs, the refinement of ReviewRecord, the  *)
(* attachments.                                                            *)
(***************************************************************************)
EXTENDS WorkLogAttachments, Sequences, FiniteSetTheorems, TLAPS

AllJobs == {Idle} \cup Jobs

IInv == TypeOK /\ ReviewHistory /\ OneOutcomePerRequest /\ InFlight

-----------------------------------------------------------------------------
(***************************************************************************)
(* The steps that write rows, and all others.                              *)
(***************************************************************************)
Writes(p) ==
  \/ \E l \in Logs : CreateCommit(p, l)
  \/ EditCommit(p) \/ VisibilityCommit(p) \/ ReviseCommit(p) \/ SubmitCommit(p)
  \/ DecideCommit(p)

\* A step of the system writes rows, moves one request, or changes who is a member.
LEMMA StepShape ==
  ASSUME [Next]_vars
  PROVE  \/ \E p \in Requests : Writes(p)
         \/ UNCHANGED <<log, version, approval>>
<1>1. CASE \E p \in Requests, u \in Users : Accept(p, u)
  <2>1. PICK p \in Requests, u \in Users : Accept(p, u)
    BY <1>1
  <2>2. \A text, visibility : CreateRead(p, u, text, visibility) => UNCHANGED <<log, version, approval>>
    BY DEF CreateRead
  <2>3. \A l, text, token : EditRead(p, u, l, text, token) => UNCHANGED <<log, version, approval>>
    BY DEF EditRead
  <2>4. \A l, visibility, token :
          VisibilityRead(p, u, l, visibility, token) => UNCHANGED <<log, version, approval>>
    BY DEF VisibilityRead
  <2>5. \A l, text : ReviseRead(p, u, l, text) => UNCHANGED <<log, version, approval>>
    BY DEF ReviseRead
  <2>6. \A l, approver : SubmitRead(p, u, l, approver) => UNCHANGED <<log, version, approval>>
    BY DEF SubmitRead
  <2>7. \A l, n, verdict : DecideRead(p, u, l, n, verdict) => UNCHANGED <<log, version, approval>>
    BY DEF DecideRead
  <2> QED
    BY <2>1, <2>2, <2>3, <2>4, <2>5, <2>6, <2>7 DEF Accept
<1>2. CASE \E p \in Requests : Statement(p) \/ SubmitCommit(p) \/ RequestFails(p)
  <2>1. PICK p \in Requests : Statement(p) \/ SubmitCommit(p) \/ RequestFails(p)
    BY <1>2
  <2> QED
    BY <2>1 DEF Statement, Writes, RequestFails, EditMember, ReviseSnapshot, ReviseRefused,
                SubmitApprover, SubmitAuthor, SubmitCas, DecideAccess, DecideRecheck
<1>3. CASE AccessStep
  BY <1>3 DEF AccessStep, logVars
<1>4. CASE UNCHANGED vars
  BY <1>4 DEF vars
<1> QED
  BY <1>1, <1>2, <1>3, <1>4 DEF Next

\* What a request is doing determines the fields of its record.
LEMMA JobKinds ==
  ASSUME NEW j \in AllJobs
  PROVE  /\ j.pc = "idle" <=> j = Idle
         /\ j.pc = "create" => j \in CreateJob
         /\ j.pc \in {"edit.member", "edit.write"} => j \in EditJob
         /\ j.pc = "visibility.write" => j \in VisibilityJob
         /\ j.pc \in {"revise.snapshot", "revise.write", "revise.error"} => j \in ReviseJob
         /\ j.pc \in {"submit.approver", "submit.author", "submit.cas", "submit.commit"}
              => j \in SubmitJob
         /\ j.pc \in {"decide.access", "decide.recheck", "decide.commit"} => j \in DecideJob
BY DEF AllJobs, Idle, Jobs, CreateJob, EditJob, VisibilityJob, ReviseJob, SubmitJob, DecideJob

\* The same of a request in flight, by its program counter.
LEMMA JobOf ==
  ASSUME TypeOK, NEW p \in Requests
  PROVE  /\ req[p] \in AllJobs
         /\ At(p, "idle") <=> req[p] = Idle
         /\ At(p, "create") => req[p] \in CreateJob
         /\ At(p, "edit.member") \/ At(p, "edit.write") => req[p] \in EditJob
         /\ At(p, "visibility.write") => req[p] \in VisibilityJob
         /\ At(p, "revise.snapshot") \/ At(p, "revise.write") \/ At(p, "revise.error")
              => req[p] \in ReviseJob
         /\ \/ At(p, "submit.approver") \/ At(p, "submit.author")
            \/ At(p, "submit.cas") \/ At(p, "submit.commit")
            => req[p] \in SubmitJob
         /\ At(p, "decide.access") \/ At(p, "decide.recheck") \/ At(p, "decide.commit")
              => req[p] \in DecideJob
<1>1. req[p] \in AllJobs
  BY DEF TypeOK, AllJobs
<1> QED
  BY <1>1, JobKinds DEF At

-----------------------------------------------------------------------------
(***************************************************************************)
(* Types.                                                                  *)
(***************************************************************************)
\* The initial state is well typed.
LEMMA InitTypeOK == Init => TypeOK
BY ProjectAccessAssumption, WorkLogsAssumption
DEF Init, AccessInit, LogInit, TypeOK, AccessTypeOK, Roles, LogRow, NoLog, VersionRow, NoVersion,
    ApprovalRow, NoApproval, Visibilities, Numbers

\* A commit that finds the token below its bound can raise it.
LEMMA TokenFits ==
  ASSUME TypeOK, NEW l \in Logs, log[l].token < MaxToken
  PROVE  log[l].token + 1 \in 0..MaxToken
<1>1. log[l].token \in 0..MaxToken
  BY DEF TypeOK, LogRow
<1> QED
  BY <1>1, WorkLogsAssumption

\* A commit ends the request, so only the rows are of interest.
LEMMA CommitTypeOK ==
  ASSUME TypeOK, NEW p, Finish(p), UNCHANGED accessVars,
         log' \in [Logs -> LogRow],
         version' \in [Logs -> [Numbers -> VersionRow]],
         approval' \in [Logs -> [Numbers -> ApprovalRow]]
  PROVE  TypeOK'
BY DEF TypeOK, Finish, AccessTypeOK, accessVars

\* A step that only moves a request keeps the types if the new record is a job.
LEMMA MoveTypeOK ==
  ASSUME TypeOK, NEW p, NEW j \in AllJobs, req' = [req EXCEPT ![p] = j],
         UNCHANGED <<accessVars, log, version, approval>>
  PROVE  TypeOK'
BY DEF TypeOK, AllJobs, AccessTypeOK, accessVars

\* A log that exists has a current version and a token; so the records built from it are jobs.
LEMMA Live ==
  ASSUME IInv, NEW l \in Logs, log[l].status # "ABSENT"
  PROVE  /\ log[l] # NoLog
         /\ log[l].current \in Numbers
         /\ log[l].token \in Tokens
         /\ VersionsMatchStatus(l)
<1>1. log[l] # NoLog
  BY DEF NoLog
<1>2. VersionsMatchStatus(l) /\ log[l].token # 0
  BY <1>1 DEF IInv, ReviewHistory, RowsAgree
<1>3. log[l].current \in Numbers
  BY <1>2 DEF VersionsMatchStatus, NumbersOf
<1>4. log[l].token \in Tokens
  BY <1>2, WorkLogsAssumption DEF IInv, TypeOK, LogRow, Tokens
<1> QED
  BY <1>1, <1>2, <1>3, <1>4

\* A request is accepted with a record of the right type.
LEMMA AcceptTypeOK ==
  ASSUME IInv, NEW p \in Requests, NEW u \in Users, Accept(p, u)
  PROVE  TypeOK'
<1> TypeOK
  BY DEF IInv
<1>1. ASSUME NEW text \in Texts, NEW visibility \in Visibilities, CreateRead(p, u, text, visibility)
      PROVE  TypeOK'
  <2>1. [pc |-> "create", user |-> u, text |-> text, visibility |-> visibility] \in AllJobs
    BY DEF AllJobs, Jobs, CreateJob
  <2> QED
    BY <1>1, <2>1, MoveTypeOK DEF CreateRead, Begin
<1>2. ASSUME NEW l \in Logs, NEW text \in Texts, NEW token \in Tokens, EditRead(p, u, l, text, token)
      PROVE  TypeOK'
  <2>1. log[l].current \in Numbers
    BY <1>2, Live DEF EditRead, Owned
  <2>2. [pc |-> "edit.member", user |-> u, log |-> l, current |-> log[l].current,
         token |-> token, text |-> text] \in AllJobs
    BY <2>1 DEF AllJobs, Jobs, EditJob
  <2> QED
    BY <1>2, <2>2, MoveTypeOK DEF EditRead, Begin
<1>3. ASSUME NEW l \in Logs, NEW visibility \in Visibilities, NEW token \in Tokens,
             VisibilityRead(p, u, l, visibility, token)
      PROVE  TypeOK'
  <2>1. [pc |-> "visibility.write", user |-> u, log |-> l, token |-> token,
         visibility |-> visibility] \in AllJobs
    BY DEF AllJobs, Jobs, VisibilityJob
  <2> QED
    BY <1>3, <2>1, MoveTypeOK DEF VisibilityRead, Begin
<1>4. ASSUME NEW l \in Logs, NEW text \in Texts, ReviseRead(p, u, l, text)
      PROVE  TypeOK'
  <2>1. log[l].current \in Numbers
    BY <1>4, Live DEF ReviseRead, Owned
  <2>2. 0 \in 0..MaxToken /\ 0 \in 0..MaxVersion
    BY WorkLogsAssumption
  <2>3. [pc |-> "revise.snapshot", user |-> u, log |-> l, current |-> log[l].current,
         token |-> 0, number |-> 0, text |-> text] \in AllJobs
    BY <2>1, <2>2 DEF AllJobs, Jobs, ReviseJob
  <2> QED
    BY <1>4, <2>3, MoveTypeOK DEF ReviseRead, Begin
<1>5. ASSUME NEW l \in Logs, NEW approver \in Users, SubmitRead(p, u, l, approver)
      PROVE  TypeOK'
  <2>1. log[l].current \in Numbers
    BY <1>5, Live DEF SubmitRead, Owned
  <2>2. [pc |-> "submit.approver", user |-> u, log |-> l, current |-> log[l].current,
         approver |-> approver] \in AllJobs
    BY <2>1 DEF AllJobs, Jobs, SubmitJob
  <2> QED
    BY <1>5, <2>2, MoveTypeOK DEF SubmitRead, Begin
<1>6. ASSUME NEW l \in Logs, NEW n \in Numbers, NEW verdict \in Verdicts,
             DecideRead(p, u, l, n, verdict)
      PROVE  TypeOK'
  <2>1. log[l].token \in Tokens
    BY <1>6, Live DEF DecideRead
  <2>2. [pc |-> "decide.access", user |-> u, log |-> l, current |-> n,
         token |-> log[l].token, verdict |-> verdict, capable |-> FALSE] \in AllJobs
    BY <2>1 DEF AllJobs, Jobs, DecideJob
  <2> QED
    BY <1>6, <2>2, MoveTypeOK DEF DecideRead, Begin
<1> QED
  BY <1>1, <1>2, <1>3, <1>4, <1>5, <1>6 DEF Accept

\* The statements that only move a request on.
LEMMA MovesTypeOK ==
  ASSUME TypeOK, NEW p \in Requests,
         \/ EditMember(p) \/ ReviseSnapshot(p) \/ ReviseRefused(p)
         \/ SubmitApprover(p) \/ SubmitAuthor(p) \/ SubmitCas(p)
         \/ DecideAccess(p) \/ DecideRecheck(p) \/ RequestFails(p)
  PROVE  TypeOK'
<1>0. req \in [Requests -> AllJobs]
  BY DEF TypeOK, AllJobs
<1>1. CASE EditMember(p)
  <2>1. [req[p] EXCEPT !.pc = "edit.write"] \in AllJobs
    BY <1>1, JobOf DEF EditMember, EditJob, AllJobs, Jobs
  <2> QED
    BY <1>0, <1>1, <2>1, MoveTypeOK DEF EditMember, GoTo
<1>2. CASE ReviseSnapshot(p)
  <2> DEFINE l == req[p].log
  <2>1. req[p] \in ReviseJob
    BY <1>2, JobOf DEF ReviseSnapshot
  <2>2. PICK n \in Numbers :
          req' = [req EXCEPT ![p].pc = "revise.write", ![p].number = n, ![p].token = log[l].token]
    BY <1>2 DEF ReviseSnapshot
  <2>3. log[l].token \in 0..MaxToken /\ n \in 0..MaxVersion
    BY <2>1, WorkLogsAssumption DEF ReviseJob, TypeOK, LogRow, Numbers
  <2> DEFINE j == [req[p] EXCEPT !.pc = "revise.write", !.number = n, !.token = log[l].token]
  <2>4. j \in AllJobs
    BY <2>1, <2>3 DEF ReviseJob, AllJobs, Jobs
  <2>5. req' = [req EXCEPT ![p] = j]
    BY <1>0, <2>2
  <2> QED
    BY <1>2, <2>4, <2>5, MoveTypeOK DEF ReviseSnapshot
<1>3. CASE SubmitApprover(p)
  <2>1. [req[p] EXCEPT !.pc = "submit.author"] \in AllJobs
    BY <1>3, JobOf DEF SubmitApprover, SubmitJob, AllJobs, Jobs
  <2> QED
    BY <1>0, <1>3, <2>1, MoveTypeOK DEF SubmitApprover, GoTo
<1>4. CASE SubmitAuthor(p)
  <2>1. [req[p] EXCEPT !.pc = "submit.cas"] \in AllJobs
    BY <1>4, JobOf DEF SubmitAuthor, SubmitJob, AllJobs, Jobs
  <2> QED
    BY <1>0, <1>4, <2>1, MoveTypeOK DEF SubmitAuthor, GoTo
<1>5. CASE SubmitCas(p)
  <2>1. [req[p] EXCEPT !.pc = "submit.commit"] \in AllJobs
    BY <1>5, JobOf DEF SubmitCas, SubmitJob, AllJobs, Jobs
  <2> QED
    BY <1>0, <1>5, <2>1, MoveTypeOK DEF SubmitCas, GoTo
<1>6. CASE DecideAccess(p)
  <2> DEFINE may == "APPROVER" \notin roles[req[p].user]
             j == [req[p] EXCEPT !.pc = "decide.recheck", !.capable = may]
  <2>1. j \in AllJobs
    BY <1>6, JobOf DEF DecideAccess, DecideJob, AllJobs, Jobs
  <2>2. req' = [req EXCEPT ![p] = j]
    BY <1>0, <1>6 DEF DecideAccess
  <2> QED
    BY <1>6, <2>1, <2>2, MoveTypeOK DEF DecideAccess
<1>7. CASE DecideRecheck(p)
  <2>1. [req[p] EXCEPT !.pc = "decide.commit"] \in AllJobs
    BY <1>7, JobOf DEF DecideRecheck, DecideJob, AllJobs, Jobs
  <2> QED
    BY <1>0, <1>7, <2>1, MoveTypeOK DEF DecideRecheck, GoTo
<1>8. CASE RequestFails(p)
  BY <1>8, MoveTypeOK DEF RequestFails, Finish, AllJobs
<1>9. CASE ReviseRefused(p)
  <2>1. [req[p] EXCEPT !.pc = "revise.error"] \in AllJobs
    BY <1>9, JobOf DEF ReviseRefused, ReviseJob, AllJobs, Jobs
  <2> QED
    BY <1>0, <1>9, <2>1, MoveTypeOK DEF ReviseRefused, GoTo
<1> QED
  BY <1>1, <1>2, <1>3, <1>4, <1>5, <1>6, <1>7, <1>8, <1>9

-----------------------------------------------------------------------------
(***************************************************************************)
(* The rows of one log: r of work_logs, v of work_log_versions, a of       *)
(* approval_requests.  Good(r, v, a) is what ReviewHistory and             *)
(* OneOutcomePerRequest say of them; each write keeps it.                  *)
(***************************************************************************)
Present(v) == {n \in Numbers : v[n] # NoVersion}

Chain(r, v, a) ==
  /\ r.current \in Present(v)
  /\ Present(v) = 1..r.current
  /\ \A n \in Numbers :
       /\ v[n].frozen <=> (n < r.current \/ (n = r.current /\ r.status # "DRAFT"))
       /\ n < r.current => a[n].status = "RETURNED"
       /\ n > r.current => a[n] = NoApproval
  /\ a[r.current].status = RequestStatus(r.status)

Agree(r, v, a) ==
  IF r = NoLog
  THEN Present(v) = {} /\ \A n \in Numbers : a[n] = NoApproval
  ELSE r.status # "ABSENT" /\ r.token # 0 /\ Chain(r, v, a)

Outcomes(r, a) ==
  \A n \in Numbers :
    /\ a[n].outcomes = IF a[n].status \in Verdicts THEN 1 ELSE 0
    /\ a[n].status # "NONE" => a[n].approver \in Users \ {r.author}

Typed(r, v, a) ==
  /\ r \in LogRow
  /\ v \in [Numbers -> VersionRow]
  /\ a \in [Numbers -> ApprovalRow]

Good(r, v, a) == Typed(r, v, a) /\ Agree(r, v, a) /\ Outcomes(r, a)

\* The invariant, read as a statement about the rows of one log.
LEMMA GoodRows ==
  ASSUME IInv, NEW l \in Logs
  PROVE  Good(log[l], version[l], approval[l])
<1>1. Typed(log[l], version[l], approval[l])
  BY DEF IInv, TypeOK, Typed
<1>2. Agree(log[l], version[l], approval[l])
  BY DEF IInv, ReviewHistory, RowsAgree, VersionsMatchStatus, NumbersOf, Agree, Chain, Present
<1>3. Outcomes(log[l], approval[l])
  BY DEF IInv, OneOutcomePerRequest, Outcomes
<1> QED
  BY <1>1, <1>2, <1>3 DEF Good

\* What every commit does: it replaces the rows of one log by good ones, raises its token
\* by one, ends its request, and no submission of another request holds that log.
CommitOn(p, l) ==
  /\ l \in Logs
  /\ Good(log'[l], version'[l], approval'[l])
  /\ log' = [log EXCEPT ![l] = log'[l]]
  /\ version' = [version EXCEPT ![l] = version'[l]]
  /\ approval' = [approval EXCEPT ![l] = approval'[l]]
  /\ log'[l].token = log[l].token + 1
  /\ \A q \in Requests : At(q, "submit.commit") /\ req[q].log = l => q = p
  /\ Finish(p) /\ UNCHANGED accessVars

\* A commit that makes good rows of good ones keeps what is said of all rows.
LEMMA CommitKeepsRows ==
  ASSUME IInv, NEW p, NEW l, CommitOn(p, l)
  PROVE  TypeOK' /\ ReviewHistory' /\ OneOutcomePerRequest'
<1>1. \A k \in Logs : Good(log'[k], version'[k], approval'[k])
  BY GoodRows DEF CommitOn, IInv, TypeOK
<1>2. TypeOK'
  <2>1. log' \in [Logs -> LogRow]
    BY <1>1 DEF CommitOn, IInv, TypeOK, Good, Typed
  <2>2. version' \in [Logs -> [Numbers -> VersionRow]]
    BY <1>1 DEF CommitOn, IInv, TypeOK, Good, Typed
  <2>3. approval' \in [Logs -> [Numbers -> ApprovalRow]]
    BY <1>1 DEF CommitOn, IInv, TypeOK, Good, Typed
  <2> QED
    BY <2>1, <2>2, <2>3, CommitTypeOK DEF CommitOn, IInv
<1>3. ReviewHistory'
  BY <1>1 DEF Good, ReviewHistory, RowsAgree, VersionsMatchStatus, NumbersOf, Agree, Chain, Present
<1>4. OneOutcomePerRequest'
  BY <1>1 DEF Good, OneOutcomePerRequest, Outcomes
<1> QED
  BY <1>2, <1>3, <1>4

\* The writes, on the rows of one log.
Bumped(r) == [r EXCEPT !.token = @ + 1]

\* createDraft: a log starts with one unfrozen version and no request for approval.
LEMMA GoodCreate ==
  ASSUME NEW v, NEW a, Good(NoLog, v, a), NEW u \in Users, NEW text \in Texts,
         NEW visibility \in Visibilities,
         NEW r, r = [status |-> "DRAFT", author |-> u, current |-> 1, token |-> 1,
                     visibility |-> visibility]
  PROVE  Good(r, [v EXCEPT ![1] = [text |-> text, frozen |-> FALSE]], a)
<1> DEFINE row == [text |-> text, frozen |-> FALSE]
           w == [v EXCEPT ![1] = row]
<1>1. 1 \in Numbers /\ 1 \in 0..MaxVersion /\ 1 \in 0..MaxToken
  BY WorkLogsAssumption DEF Numbers
<1>2. Typed(r, w, a)
  BY <1>1 DEF Good, Typed, LogRow, VersionRow
<1>3. r # NoLog
  BY DEF NoLog
<1>4. Present(v) = {} /\ \A n \in Numbers : a[n] = NoApproval
  BY DEF Good, Agree
<1>5. row # NoVersion /\ \A n \in Numbers : w[n] = IF n = 1 THEN row ELSE NoVersion
  BY <1>1, <1>4, WorkLogsAssumption DEF Present, NoVersion, Good, Typed
<1>6. Present(w) = 1..1
  BY <1>1, <1>5 DEF Present, Numbers
<1>7. Chain(r, w, a)
  <2>1. r.status = "DRAFT" /\ r.current = 1
    OBVIOUS
  <2>2. \A n \in Numbers : w[n].frozen = FALSE
    <3>1. TAKE n \in Numbers
    <3>2. w[n] = row \/ w[n] = NoVersion
      BY <1>5
    <3>3. row.frozen = FALSE /\ NoVersion.frozen = FALSE
      BY DEF NoVersion
    <3> HIDE DEF w, row
    <3> QED
      BY <3>2, <3>3
  <2>4. \A n \in Numbers : ~(n < 1)
    BY DEF Numbers
  <2>3. a[1].status = "NONE"
    BY <1>1, <1>4 DEF NoApproval
  <2>5. \A n \in Numbers :
          w[n].frozen <=> (n < r.current \/ (n = r.current /\ r.status # "DRAFT"))
    <3> HIDE DEF w
    <3> QED
      BY <2>1, <2>2, <2>4
  <2>6. \A n \in Numbers : (n < r.current => a[n].status = "RETURNED") /\ a[n] = NoApproval
    BY <1>4, <2>1, <2>4
  <2>7. a[r.current].status = RequestStatus(r.status)
    BY <2>1, <2>3 DEF RequestStatus
  <2>8. r.current \in Present(w) /\ Present(w) = 1..r.current
    <3>1. 1 \in 1..1
      OBVIOUS
    <3> HIDE DEF w
    <3> QED
      BY <1>6, <2>1, <3>1
  <2> HIDE DEF w
  <2> QED
    BY <2>5, <2>6, <2>7, <2>8 DEF Chain
<1>8. Outcomes(r, a)
  BY <1>4 DEF Outcomes, NoApproval, Verdicts
<1> QED
  BY <1>2, <1>3, <1>7, <1>8 DEF Good, Agree

\* updateDraft replaces the text of the current version, which is not frozen.
LEMMA GoodEdit ==
  ASSUME NEW r, NEW v, NEW a, Good(r, v, a), r.status = "DRAFT", r.token < MaxToken,
         NEW text \in Texts
  PROVE  Good(Bumped(r), [v EXCEPT ![r.current] = [@ EXCEPT !.text = text]], a)
<1> DEFINE s == Bumped(r)
           n == r.current
           row == [v[n] EXCEPT !.text = text]
           w == [v EXCEPT ![n] = row]
<1>1. r # NoLog /\ r.token # 0 /\ Chain(r, v, a)
  BY DEF Good, Agree, NoLog
<1>2. n \in Numbers /\ v[n] \in VersionRow /\ r.token \in 0..MaxToken
  BY <1>1 DEF Good, Typed, Chain, Present, LogRow
<1>3. Typed(s, w, a)
  BY <1>2, WorkLogsAssumption DEF Good, Typed, LogRow, VersionRow, Bumped
<1>4. row # NoVersion /\ row.frozen = v[n].frozen
  BY <1>2, WorkLogsAssumption DEF NoVersion, VersionRow
<1>5. v[n] # NoVersion
  BY <1>1 DEF Chain, Present
<1>6. Present(w) = Present(v)
  BY <1>2, <1>4, <1>5 DEF Present, Good, Typed
<1>7. /\ s.status = r.status /\ s.current = r.current /\ s.author = r.author
      /\ s.token # 0 /\ s # NoLog
  BY <1>2, WorkLogsAssumption DEF Good, Typed, LogRow, Bumped, NoLog
<1>8. Chain(s, w, a)
  BY <1>1, <1>2, <1>4, <1>6, <1>7 DEF Chain, Good, Typed
<1>9. Outcomes(s, a)
  BY <1>7 DEF Good, Outcomes
<1> QED
  BY <1>3, <1>7, <1>8, <1>9 DEF Good, Agree

\* setVisibility leaves status, versions and requests alone.
LEMMA GoodVisibility ==
  ASSUME NEW r, NEW v, NEW a, Good(r, v, a), r # NoLog, r.token < MaxToken,
         NEW visibility \in Visibilities
  PROVE  Good([r EXCEPT !.visibility = visibility, !.token = @ + 1], v, a)
<1> DEFINE s == [r EXCEPT !.visibility = visibility, !.token = @ + 1]
<1>1. r.token # 0 /\ r.status # "ABSENT" /\ Chain(r, v, a)
  BY DEF Good, Agree
<1>2. r \in LogRow /\ r.token + 1 \in 0..MaxToken /\ r.token + 1 # 0
  BY WorkLogsAssumption DEF Good, Typed, LogRow
<1>3. s \in LogRow
  BY <1>2 DEF LogRow
<1>4. /\ s.status = r.status /\ s.current = r.current /\ s.author = r.author
      /\ s.token # 0 /\ s # NoLog
  BY <1>1, <1>2 DEF LogRow, NoLog
<1> HIDE DEF s
<1>5. Chain(s, v, a)
  BY <1>1, <1>4 DEF Chain
<1>6. Outcomes(s, a)
  BY <1>4 DEF Good, Outcomes
<1>7. Good(s, v, a)
  BY <1>1, <1>3, <1>4, <1>5, <1>6 DEF Good, Typed, Agree
<1> QED
  BY <1>7 DEF s

\* Every version up to the current one is present and was returned, so the next number
\* extends the chain by one unfrozen version without a request.
LEMMA GoodRevise ==
  ASSUME NEW r, NEW v, NEW a, Good(r, v, a), r.status = "RETURNED", r.token < MaxToken,
         NEW n \in Numbers, n = r.current + 1, NEW text \in Texts
  PROVE  Good([r EXCEPT !.status = "DRAFT", !.current = n, !.token = @ + 1],
              [v EXCEPT ![n] = [text |-> text, frozen |-> FALSE]], a)
<1> DEFINE s == [r EXCEPT !.status = "DRAFT", !.current = n, !.token = @ + 1]
           row == [text |-> text, frozen |-> FALSE]
           w == [v EXCEPT ![n] = row]
<1>1. r.token # 0 /\ Chain(r, v, a)
  BY DEF Good, Agree, NoLog
<1>2. /\ r \in LogRow /\ r.current \in 0..MaxVersion /\ n \in 0..MaxVersion
      /\ r.token + 1 \in 0..MaxToken /\ r.token + 1 # 0
  BY WorkLogsAssumption DEF Good, Typed, LogRow, Numbers
<1>3. /\ s.status = "DRAFT" /\ s.current = n /\ s.author = r.author
      /\ s.token # 0 /\ s # NoLog
  BY <1>1, <1>2 DEF LogRow, NoLog
<1>4. s \in LogRow /\ w \in [Numbers -> VersionRow]
  BY <1>2 DEF Good, Typed, LogRow, VersionRow
<1>5. row # NoVersion /\ row.frozen = FALSE
  BY WorkLogsAssumption DEF NoVersion
<1>6. \A m \in Numbers : w[m] = IF m = n THEN row ELSE v[m]
  BY DEF Good, Typed
<1> HIDE DEF s, row, w
<1>7. Present(w) = Present(v) \cup {n}
  BY <1>5, <1>6 DEF Present
<1>8. Present(w) = 1..n /\ n \in Present(w)
  BY <1>1, <1>2, <1>7, WorkLogsAssumption DEF Chain, Numbers
<1>9. \A m \in Numbers : w[m].frozen <=> m < n
  <2>1. TAKE m \in Numbers
  <2>2. CASE m = n
    BY <1>5, <1>6, <2>2 DEF Numbers
  <2>3. CASE m < n
    <3>1. v[m].frozen
      BY <1>1, <1>2, <2>3 DEF Chain, Numbers
    <3> QED
      BY <1>6, <2>3, <3>1 DEF Numbers
  <2>4. CASE m > n
    <3>1. ~v[m].frozen
      BY <1>1, <1>2, <2>4 DEF Chain, Numbers
    <3> QED
      BY <1>6, <2>4, <3>1 DEF Numbers
  <2> QED
    BY <2>2, <2>3, <2>4 DEF Numbers
<1>10. a[r.current].status = "RETURNED"
  BY <1>1 DEF Chain, RequestStatus
<1>11. \A m \in Numbers : (m < n => a[m].status = "RETURNED") /\ (m > n => a[m] = NoApproval)
  BY <1>1, <1>2, <1>10 DEF Chain, Numbers
<1>12. a[n].status = "NONE"
  BY <1>1, <1>2 DEF Chain, NoApproval, Numbers
<1>13. Chain(s, w, a)
  BY <1>3, <1>8, <1>9, <1>11, <1>12 DEF Chain, RequestStatus
<1>14. Outcomes(s, a)
  BY <1>3 DEF Good, Outcomes
<1>15. Good(s, w, a)
  BY <1>3, <1>4, <1>13, <1>14 DEF Good, Typed, Agree
<1> QED
  BY <1>15 DEF s, row, w

\* Freezing the draft and inserting its request turns the last version into a submitted one.
Frozen(v) ==
  [m \in Numbers |-> IF v[m] = NoVersion THEN NoVersion ELSE [v[m] EXCEPT !.frozen = TRUE]]

\* submit freezes the versions of the draft and opens the request of the current one.
LEMMA GoodSubmit ==
  ASSUME NEW r, NEW v, NEW a, Good(r, v, a), r.status = "DRAFT", r.token < MaxToken,
         NEW approver \in Users, approver # r.author
  PROVE  Good([r EXCEPT !.status = "SUBMITTED", !.token = @ + 1], Frozen(v),
              [a EXCEPT ![r.current] = [status |-> "PENDING", approver |-> approver,
                                        outcomes |-> 0]])
<1> DEFINE s == [r EXCEPT !.status = "SUBMITTED", !.token = @ + 1]
           n == r.current
           w == Frozen(v)
           request == [status |-> "PENDING", approver |-> approver, outcomes |-> 0]
           b == [a EXCEPT ![n] = request]
<1>1. r.token # 0 /\ Chain(r, v, a)
  BY DEF Good, Agree, NoLog
<1>2. /\ r \in LogRow /\ r.token + 1 \in 0..MaxToken /\ r.token + 1 # 0
      /\ v \in [Numbers -> VersionRow] /\ a \in [Numbers -> ApprovalRow]
  BY WorkLogsAssumption DEF Good, Typed, LogRow
<1>3. n \in Numbers /\ n \in Nat
  BY <1>1 DEF Chain, Present, Numbers
<1>4. /\ s.status = "SUBMITTED" /\ s.current = n /\ s.author = r.author
      /\ s.token # 0 /\ s # NoLog
  BY <1>1, <1>2 DEF LogRow, NoLog
<1>5. s \in LogRow
  BY <1>2 DEF LogRow
<1>6. request \in ApprovalRow /\ b \in [Numbers -> ApprovalRow]
  BY <1>2 DEF ApprovalRow
<1>7. \A m \in Numbers : /\ w[m] \in VersionRow
                         /\ v[m] = NoVersion => w[m] = NoVersion
                         /\ v[m] # NoVersion => w[m] # NoVersion /\ w[m].frozen = TRUE
  BY <1>2 DEF VersionRow, NoVersion, Frozen
<1>8. \A m \in Numbers : b[m] = IF m = n THEN request ELSE a[m]
  BY <1>2
<1>9. w \in [Numbers -> VersionRow]
  BY <1>7 DEF Frozen
<1> HIDE DEF s, request, b, n, w
<1>10. Present(w) = Present(v)
  BY <1>7 DEF Present
<1>11. Present(w) = 1..n /\ n \in Present(w)
  BY <1>1, <1>10 DEF Chain, n
<1>12. \A m \in Numbers : w[m].frozen <=> m <= n
  <2>1. TAKE m \in Numbers
  <2>2. m \in Present(v) <=> m <= n
    BY <1>1, <1>3 DEF Chain, Numbers, n
  <2>3. CASE m <= n
    BY <1>7, <2>2, <2>3 DEF Present
  <2>4. CASE ~(m <= n)
    <3>1. w[m] = NoVersion
      BY <1>7, <2>2, <2>4 DEF Present
    <3> QED
      BY <2>4, <3>1 DEF NoVersion
  <2> QED
    BY <2>3, <2>4
<1>13. \A m \in Numbers : (m < n => b[m].status = "RETURNED") /\ (m > n => b[m] = NoApproval)
  BY <1>1, <1>3, <1>8 DEF Chain, Numbers, n
<1>14. b[n].status = "PENDING"
  BY <1>3, <1>8 DEF request
<1>15. \A m \in Numbers : w[m].frozen <=> (m < n \/ (m = n /\ s.status # "DRAFT"))
  BY <1>3, <1>4, <1>12 DEF Numbers
<1>16. Chain(s, w, b)
  BY <1>4, <1>11, <1>13, <1>14, <1>15 DEF Chain, RequestStatus
<1>17. Outcomes(s, b)
  <2> USE DEF Outcomes
  <2>1. TAKE m \in Numbers
  <2>2. CASE m = n
    BY <1>4, <1>8, <2>2 DEF request, Verdicts
  <2>3. CASE m # n
    BY <1>4, <1>8, <2>3 DEF Good, Outcomes
  <2> QED
    BY <2>2, <2>3
<1>18. Good(s, w, b)
  BY <1>4, <1>5, <1>6, <1>9, <1>16, <1>17 DEF Good, Typed, Agree
<1> QED
  BY <1>18 DEF s, b, n, request, w

\* The decided request: the verdict, one outcome, the same approver.
Decision(row, verdict) == [row EXCEPT !.status = verdict, !.outcomes = @ + 1]

\* A request that is decided has its verdict and its first outcome.
LEMMA DecidedRow ==
  ASSUME NEW row \in ApprovalRow, row.outcomes = 0, NEW verdict \in Verdicts
  PROVE  LET decided == Decision(row, verdict) IN
         /\ decided \in ApprovalRow /\ decided.status = verdict
         /\ decided.outcomes = 1 /\ decided.approver = row.approver
<1> DEFINE decided == Decision(row, verdict)
<1>1. row.outcomes + 1 = 1 /\ 1 \in Nat /\ verdict \in {"NONE", "PENDING"} \cup Verdicts
  OBVIOUS
<1>2. decided = [row EXCEPT !.status = verdict, !.outcomes = 1]
  BY <1>1 DEF Decision
<1> HIDE DEF decided
<1>3. /\ decided.status = verdict /\ decided.outcomes = 1
      /\ decided.approver = row.approver
  BY <1>2 DEF ApprovalRow
<1>4. decided \in ApprovalRow
  BY <1>1, <1>2 DEF ApprovalRow
<1> QED
  BY <1>3, <1>4 DEF decided

\* The verdict passes from the pending request to the log, and is counted once.
LEMMA GoodDecide ==
  ASSUME NEW r, NEW v, NEW a, Good(r, v, a), r.status = "SUBMITTED", r.token < MaxToken,
         NEW verdict \in Verdicts
  PROVE  Good([r EXCEPT !.status = verdict, !.token = @ + 1], v,
              [a EXCEPT ![r.current] = Decision(@, verdict)])
<1> DEFINE s == [r EXCEPT !.status = verdict, !.token = @ + 1]
           n == r.current
           request == Decision(a[n], verdict)
           b == [a EXCEPT ![n] = request]
<1>1. r.token # 0 /\ Chain(r, v, a)
  BY DEF Good, Agree, NoLog
<1>2. /\ r \in LogRow /\ r.token + 1 \in 0..MaxToken /\ r.token + 1 # 0
      /\ v \in [Numbers -> VersionRow] /\ a \in [Numbers -> ApprovalRow]
  BY WorkLogsAssumption DEF Good, Typed, LogRow
<1>3. n \in Numbers /\ n \in Nat /\ a[n] \in ApprovalRow
  BY <1>1, <1>2 DEF Chain, Present, Numbers
<1>4. s.current = n /\ s.author = r.author /\ s.token # 0 /\ s # NoLog
  BY <1>1, <1>2 DEF LogRow, NoLog
<1>5. s.status = verdict /\ verdict \notin {"ABSENT", "DRAFT", "SUBMITTED", "NONE"}
  BY <1>2 DEF LogRow, Verdicts
<1>6. s \in LogRow
  BY <1>2 DEF LogRow
<1>7. a[n].status = "PENDING"
  BY <1>1 DEF Chain, RequestStatus
<1>8. a[n].outcomes = 0 /\ a[n].approver \in Users \ {r.author}
  BY <1>3, <1>7 DEF Good, Outcomes, Verdicts
<1>9. /\ request \in ApprovalRow /\ request.status = verdict
      /\ request.outcomes = 1 /\ request.approver = a[n].approver
  <2>1. a[n] \in ApprovalRow /\ a[n].outcomes = 0
    BY <1>3, <1>8
  <2> HIDE DEF n
  <2> QED
    BY <2>1, DecidedRow DEF request
<1>10. b \in [Numbers -> ApprovalRow] /\ \A m \in Numbers : b[m] = IF m = n THEN request ELSE a[m]
  BY <1>2, <1>9
<1> HIDE DEF s, b, n, request
<1>11. Chain(s, v, b)
  <2>1. n \in Present(v) /\ Present(v) = 1..n
    BY <1>1 DEF Chain, n
  <2>2. \A m \in Numbers :
          /\ v[m].frozen <=> (m < n \/ (m = n /\ s.status # "DRAFT"))
          /\ m < n => b[m].status = "RETURNED"
          /\ m > n => b[m] = NoApproval
    BY <1>1, <1>3, <1>5, <1>10 DEF Chain, Numbers, n
  <2>3. b[n].status = RequestStatus(s.status)
    BY <1>3, <1>5, <1>9, <1>10 DEF RequestStatus
  <2> QED
    BY <1>4, <2>1, <2>2, <2>3 DEF Chain
<1>12. Outcomes(s, b)
  <2> USE DEF Outcomes
  <2>1. TAKE m \in Numbers
  <2>2. CASE m = n
    <3>1. b[m] = request
      BY <1>10, <2>2
    <3>2. request.approver \in Users \ {s.author}
      BY <1>4, <1>8, <1>9
    <3> QED
      BY <1>9, <3>1, <3>2
  <2>3. CASE m # n
    BY <1>4, <1>10, <2>3 DEF Good, Outcomes
  <2> QED
    BY <2>2, <2>3
<1>13. Good(s, v, b)
  BY <1>4, <1>5, <1>6, <1>10, <1>11, <1>12 DEF Good, Typed, Agree
<1> QED
  BY <1>13 DEF s, b, n, request

-----------------------------------------------------------------------------
(***************************************************************************)
(* The commits.                                                            *)
(***************************************************************************)
\* createDraft writes the rows of one log.
LEMMA CreateCommits ==
  ASSUME IInv, NEW p \in Requests, NEW l \in Logs, CreateCommit(p, l)
  PROVE  CommitOn(p, l)
<1> DEFINE r == [status |-> "DRAFT", author |-> req[p].user, current |-> 1, token |-> 1,
                 visibility |-> req[p].visibility]
           v == [version[l] EXCEPT ![1] = [text |-> req[p].text, frozen |-> FALSE]]
<1>1. /\ log = [k \in Logs |-> log[k]] /\ version = [k \in Logs |-> version[k]]
      /\ approval = [k \in Logs |-> approval[k]]
  BY DEF IInv, TypeOK
<1>2. req[p] \in CreateJob
  BY JobOf DEF IInv, CreateCommit
<1>3. log'[l] = r /\ version'[l] = v /\ approval'[l] = approval[l]
  BY <1>1 DEF CreateCommit
<1>4. Good(r, v, approval[l])
  BY <1>2, GoodRows, GoodCreate DEF CreateCommit, CreateJob
<1>5. log'[l].token = log[l].token + 1
  BY <1>3 DEF CreateCommit, NoLog
<1>6. \A q \in Requests : At(q, "submit.commit") => req[q].log # l
  BY DEF IInv, InFlight, SubmitHoldsRow, Owned, CreateCommit, NoLog
<1>7. /\ log' = [log EXCEPT ![l] = log'[l]] /\ version' = [version EXCEPT ![l] = version'[l]]
      /\ approval' = [approval EXCEPT ![l] = approval'[l]]
  BY <1>1, <1>3 DEF CreateCommit
<1> QED
  BY <1>3, <1>4, <1>5, <1>6, <1>7 DEF CommitOn, CreateCommit

\* updateDraft writes the rows of one log.
LEMMA EditCommits ==
  ASSUME IInv, NEW p \in Requests, EditCommit(p)
  PROVE  CommitOn(p, req[p].log)
<1> DEFINE l == req[p].log
           n == req[p].current
           row == [version[l][n] EXCEPT !.text = req[p].text]
           v == [version[l] EXCEPT ![n] = row]
<1>1. /\ log = [k \in Logs |-> log[k]] /\ version = [k \in Logs |-> version[k]]
      /\ approval = [k \in Logs |-> approval[k]]
  BY DEF IInv, TypeOK
<1>2. req[p] \in EditJob
  BY JobOf DEF IInv, EditCommit
<1>3. l \in Logs /\ n \in Numbers /\ req[p].text \in Texts
  BY <1>2 DEF EditJob
<1>4. log[l].status = "DRAFT" /\ log[l].current = n /\ log[l].token < MaxToken
  BY DEF EditCommit, EditWhere, Owned, Writable
<1>5. log' = [log EXCEPT ![l] = Bumped(log[l])]
  BY <1>1 DEF EditCommit, Bumped
<1>6. version' = [version EXCEPT ![l] = v]
  BY <1>1 DEF EditCommit
<1>7. log'[l] = Bumped(log[l]) /\ version'[l] = v /\ approval' = approval
  BY <1>1, <1>3, <1>5, <1>6 DEF EditCommit
<1>8. Good(Bumped(log[l]), v, approval[l])
  <2>1. Good(log[l], version[l], approval[l])
    BY <1>3, GoodRows
  <2> QED
    BY <1>3, <1>4, <2>1, GoodEdit
<1>9. log'[l].token = log[l].token + 1
  BY <1>3, <1>7 DEF IInv, TypeOK, LogRow, Bumped
<1>10. \A q \in Requests : At(q, "submit.commit") => req[q].log # l
  BY DEF EditCommit, Writable, RowFree
<1>11. approval' = [approval EXCEPT ![l] = approval'[l]]
  BY <1>1, <1>7
<1>12. Finish(p) /\ UNCHANGED accessVars
  BY DEF EditCommit
<1> HIDE DEF l, v
<1> QED
  BY <1>3, <1>5, <1>6, <1>7, <1>8, <1>9, <1>10, <1>11, <1>12 DEF CommitOn, l

\* setVisibility writes the rows of one log.
LEMMA VisibilityCommits ==
  ASSUME IInv, NEW p \in Requests, VisibilityCommit(p)
  PROVE  CommitOn(p, req[p].log)
<1> DEFINE l == req[p].log
           r == [log[l] EXCEPT !.visibility = req[p].visibility, !.token = @ + 1]
<1>1. /\ log = [k \in Logs |-> log[k]] /\ version = [k \in Logs |-> version[k]]
      /\ approval = [k \in Logs |-> approval[k]]
  BY DEF IInv, TypeOK
<1>2. req[p] \in VisibilityJob
  BY JobOf DEF IInv, VisibilityCommit
<1>3. l \in Logs /\ req[p].visibility \in Visibilities /\ req[p].token \in Tokens
  BY <1>2 DEF VisibilityJob
<1>4. log[l] # NoLog /\ log[l].token < MaxToken
  BY <1>3 DEF VisibilityCommit, VisibilityWhere, Writable, NoLog, Tokens
<1>5. log' = [log EXCEPT ![l] = r]
  BY <1>1 DEF VisibilityCommit
<1>6. log'[l] = r /\ version' = version /\ approval' = approval
  BY <1>1, <1>3, <1>5 DEF VisibilityCommit
<1>7. Good(r, version[l], approval[l])
  <2>1. Good(log[l], version[l], approval[l])
    BY <1>3, GoodRows
  <2> QED
    BY <1>3, <1>4, <2>1, GoodVisibility
<1>8. log'[l].token = log[l].token + 1
  BY <1>3, <1>6 DEF IInv, TypeOK, LogRow
<1>9. \A q \in Requests : At(q, "submit.commit") => req[q].log # l
  BY DEF VisibilityCommit, Writable, RowFree
<1>10. version' = [version EXCEPT ![l] = version'[l]] /\ approval' = [approval EXCEPT ![l] = approval'[l]]
  BY <1>1, <1>6
<1>11. Finish(p) /\ UNCHANGED accessVars
  BY DEF VisibilityCommit
<1> HIDE DEF l, r
<1> QED
  BY <1>3, <1>5, <1>6, <1>7, <1>8, <1>9, <1>10, <1>11 DEF CommitOn, l

\* addVersion writes the rows of one log.
LEMMA ReviseCommits ==
  ASSUME IInv, NEW p \in Requests, ReviseCommit(p)
  PROVE  CommitOn(p, req[p].log)
<1> DEFINE l == req[p].log
           n == req[p].number
           r == [log[l] EXCEPT !.status = "DRAFT", !.current = n, !.token = @ + 1]
           v == [version[l] EXCEPT ![n] = [text |-> req[p].text, frozen |-> FALSE]]
<1>1. /\ log = [k \in Logs |-> log[k]] /\ version = [k \in Logs |-> version[k]]
      /\ approval = [k \in Logs |-> approval[k]]
  BY DEF IInv, TypeOK
<1>2. req[p] \in ReviseJob
  BY JobOf DEF IInv, ReviseCommit
<1>3. l \in Logs /\ n \in 0..MaxVersion /\ req[p].text \in Texts
  BY <1>2 DEF ReviseJob
<1>4. log[l].status = "RETURNED" /\ n = log[l].current + 1 /\ log[l].token < MaxToken
  BY DEF ReviseCommit, ReviseSerializable, IInv, InFlight, SnapshotHolds, Owned, Writable
<1>5. n \in Numbers
  BY <1>3, <1>4, WorkLogsAssumption DEF IInv, TypeOK, LogRow, Numbers
<1>6. log' = [log EXCEPT ![l] = r] /\ version' = [version EXCEPT ![l] = v]
  BY <1>1 DEF ReviseCommit
<1>7. log'[l] = r /\ version'[l] = v /\ approval' = approval
  BY <1>1, <1>3, <1>6 DEF ReviseCommit
<1>8. Good(r, v, approval[l])
  <2>1. Good(log[l], version[l], approval[l])
    BY <1>3, GoodRows
  <2> QED
    BY <1>3, <1>4, <1>5, <2>1, GoodRevise
<1>9. log'[l].token = log[l].token + 1
  BY <1>3, <1>7 DEF IInv, TypeOK, LogRow
<1>10. \A q \in Requests : At(q, "submit.commit") => req[q].log # l
  BY DEF ReviseCommit, Writable, RowFree
<1>11. approval' = [approval EXCEPT ![l] = approval'[l]]
  BY <1>1, <1>7
<1>12. Finish(p) /\ UNCHANGED accessVars
  BY DEF ReviseCommit
<1> HIDE DEF l, r, v
<1> QED
  BY <1>3, <1>6, <1>7, <1>8, <1>9, <1>10, <1>11, <1>12 DEF CommitOn, l

\* submit writes the rows of one log.
LEMMA SubmitCommits ==
  ASSUME IInv, NEW p \in Requests, SubmitCommit(p)
  PROVE  CommitOn(p, req[p].log)
<1> DEFINE l == req[p].log
           n == req[p].current
           request == [status |-> "PENDING", approver |-> req[p].approver, outcomes |-> 0]
           r == [log[l] EXCEPT !.status = "SUBMITTED", !.token = @ + 1]
           a == [approval[l] EXCEPT ![n] = request]
<1>1. /\ log = [k \in Logs |-> log[k]] /\ version = [k \in Logs |-> version[k]]
      /\ approval = [k \in Logs |-> approval[k]]
  BY DEF IInv, TypeOK
<1>2. req[p] \in SubmitJob
  BY JobOf DEF IInv, SubmitCommit
<1>3. l \in Logs /\ n \in Numbers /\ req[p].approver \in Users
  BY <1>2 DEF SubmitJob
<1>4. At(p, "submit.commit")
  BY DEF SubmitCommit
<1>5. SubmitHoldsRow(p) /\ NoSelfSubmission(p)
  BY DEF IInv, InFlight
<1>6. /\ log[l].status = "DRAFT" /\ log[l].current = n /\ log[l].token < MaxToken
      /\ log[l].author # req[p].approver
  BY <1>4, <1>5 DEF SubmitHoldsRow, NoSelfSubmission, Owned, At
<1>7. log' = [log EXCEPT ![l] = r] /\ version' = [version EXCEPT ![l] = Freeze(l)]
  BY <1>1 DEF SubmitCommit
<1>8. approval' = [approval EXCEPT ![l] = a]
  BY <1>1 DEF SubmitCommit
<1>9. log'[l] = r /\ version'[l] = Freeze(l) /\ approval'[l] = a
  BY <1>1, <1>3, <1>7, <1>8
<1>10. Good(r, Freeze(l), a)
  <2>1. Good(log[l], version[l], approval[l])
    BY <1>3, GoodRows
  <2>2. Freeze(l) = Frozen(version[l])
    BY DEF Freeze, Frozen
  <2>3. Good(r, Frozen(version[l]), [approval[l] EXCEPT ![log[l].current] = request])
    <3>1. req[p].approver # log[l].author
      BY <1>6
    <3> HIDE DEF l
    <3> QED
      BY <1>3, <1>6, <2>1, <3>1, GoodSubmit
  <2> QED
    BY <1>6, <2>2, <2>3
<1>11. log'[l].token = log[l].token + 1
  BY <1>3, <1>9 DEF IInv, TypeOK, LogRow
<1>12. \A q \in Requests : At(q, "submit.commit") /\ req[q].log = l => q = p
  BY <1>4, <1>5 DEF SubmitHoldsRow
<1>13. Finish(p) /\ UNCHANGED accessVars
  BY DEF SubmitCommit
<1> HIDE DEF l, r, a
<1> QED
  BY <1>3, <1>7, <1>8, <1>9, <1>10, <1>11, <1>12, <1>13 DEF CommitOn, l

\* decide writes the rows of one log.
LEMMA DecideCommits ==
  ASSUME IInv, NEW p \in Requests, DecideCommit(p)
  PROVE  CommitOn(p, req[p].log)
<1> DEFINE l == req[p].log
           n == req[p].current
           r == [log[l] EXCEPT !.status = req[p].verdict, !.token = @ + 1]
           a == [approval[l] EXCEPT ![n] = Decision(@, req[p].verdict)]
<1>1. /\ log = [k \in Logs |-> log[k]] /\ version = [k \in Logs |-> version[k]]
      /\ approval = [k \in Logs |-> approval[k]]
      /\ \A k \in Logs : approval[k] \in [Numbers -> ApprovalRow]
  BY DEF IInv, TypeOK
<1>2. req[p] \in DecideJob
  BY JobOf DEF IInv, DecideCommit
<1>3. l \in Logs /\ n \in Numbers /\ req[p].verdict \in Verdicts
  BY <1>2 DEF DecideJob
<1>4. log[l].status = "SUBMITTED" /\ log[l].current = n /\ log[l].token < MaxToken
  BY DEF DecideCommit, AdvanceWhere, Writable
<1>5. log' = [log EXCEPT ![l] = r]
  BY <1>1 DEF DecideCommit
<1>6. approval' = [approval EXCEPT ![l] = a]
  BY <1>1, <1>3 DEF DecideCommit, Decision
<1>7. log'[l] = r /\ version' = version /\ approval'[l] = a
  BY <1>1, <1>3, <1>5, <1>6 DEF DecideCommit
<1>8. Good(r, version[l], a)
  <2>1. Good(log[l], version[l], approval[l])
    BY <1>3, GoodRows
  <2> QED
    BY <1>3, <1>4, <2>1, GoodDecide
<1>9. log'[l].token = log[l].token + 1
  BY <1>3, <1>7 DEF IInv, TypeOK, LogRow
<1>10. \A q \in Requests : At(q, "submit.commit") => req[q].log # l
  BY DEF DecideCommit, Writable, RowFree
<1>11. version' = [version EXCEPT ![l] = version'[l]]
  BY <1>1, <1>7
<1>12. Finish(p) /\ UNCHANGED accessVars
  BY DEF DecideCommit
<1> HIDE DEF l, r, a
<1> QED
  BY <1>3, <1>5, <1>6, <1>7, <1>8, <1>9, <1>10, <1>11, <1>12 DEF CommitOn, l

\* Every step that writes rows is a commit on one log.
LEMMA WritesCommit ==
  ASSUME IInv, NEW p \in Requests, Writes(p)
  PROVE  \E l : CommitOn(p, l)
BY CreateCommits, EditCommits, VisibilityCommits, ReviseCommits, SubmitCommits, DecideCommits
DEF Writes

-----------------------------------------------------------------------------
(***************************************************************************)
(* Requests in flight.                                                     *)
(***************************************************************************)

\* The number of the current version only grows.
LEMMA CurrentGrows ==
  ASSUME IInv, NEW p \in Requests, Writes(p), NEW l \in Logs
  PROVE  log[l].current <= log'[l].current
<1>0. log \in [Logs -> LogRow] /\ log[l].current \in Nat
  BY WorkLogsAssumption DEF IInv, TypeOK, LogRow
<1>1. ASSUME NEW k \in Logs, CreateCommit(p, k)
      PROVE  log[l].current <= log'[l].current
  BY <1>0, <1>1 DEF CreateCommit, NoLog
<1>2. CASE EditCommit(p) \/ VisibilityCommit(p) \/ SubmitCommit(p) \/ DecideCommit(p)
  <2>1. CASE EditCommit(p)
    BY <1>0, <2>1 DEF EditCommit, LogRow
  <2>2. CASE VisibilityCommit(p)
    BY <1>0, <2>2 DEF VisibilityCommit, LogRow
  <2>3. CASE SubmitCommit(p)
    BY <1>0, <2>3 DEF SubmitCommit, LogRow
  <2>4. CASE DecideCommit(p)
    <3>1. req[p] \in DecideJob
      BY <2>4, JobOf DEF DecideCommit, IInv
    <3>2. req[p].log \in Logs
      BY <3>1 DEF DecideJob
    <3>3. log' = [log EXCEPT ![req[p].log] = [log[req[p].log] EXCEPT
                    !.status = req[p].verdict, !.token = log[req[p].log].token + 1]]
      BY <1>0, <2>4, <3>2 DEF DecideCommit
    <3> QED
      BY <1>0, <3>2, <3>3 DEF LogRow
  <2> QED
    BY <1>2, <2>1, <2>2, <2>3, <2>4
<1>3. CASE ReviseCommit(p)
  <2>1. req[p].number = log[req[p].log].current + 1
    BY <1>3 DEF ReviseCommit, ReviseSerializable, IInv, InFlight, SnapshotHolds
  <2>2. log'[l].current = IF l = req[p].log THEN req[p].number ELSE log[l].current
    BY <1>0, <1>3 DEF ReviseCommit, LogRow
  <2> QED
    BY <1>0, <2>1, <2>2
<1> QED
  BY <1>1, <1>2, <1>3 DEF Writes

\* A returned version stays returned.
LEMMA ReturnedStays ==
  ASSUME IInv, NEW p \in Requests, Writes(p), NEW l \in Logs, NEW n \in Numbers,
         approval[l][n].status = "RETURNED"
  PROVE  approval'[l][n] = approval[l][n]
<1>0. approval \in [Logs -> [Numbers -> ApprovalRow]]
  BY DEF IInv, TypeOK
<1>1. CASE SubmitCommit(p)
  <2>1. approval[req[p].log][req[p].current] # approval[l][n]
    BY <1>1 DEF SubmitCommit, NoApproval
  <2> QED
    BY <1>0, <1>1, <2>1 DEF SubmitCommit
<1>2. CASE DecideCommit(p)
  <2>1. approval[req[p].log][req[p].current] # approval[l][n]
    BY <1>2 DEF DecideCommit, ClaimWhere
  <2> QED
    BY <1>0, <1>2, <2>1 DEF DecideCommit
<1>3. CASE approval' = approval
  BY <1>3
<1> QED
  BY <1>1, <1>2, <1>3 DEF Writes, CreateCommit, EditCommit, VisibilityCommit, ReviseCommit

\* Other requests survive a commit: a submission holds another log, and a snapshot of this
\* log is out of date from now on, because tokens only grow.
LEMMA InFlightAfterCommit ==
  ASSUME IInv, NEW p \in Requests, Writes(p), NEW l, CommitOn(p, l)
  PROVE  InFlight'
<1>1. \A q \in Requests : req'[q] = IF q = p THEN Idle ELSE req[q]
  BY DEF CommitOn, Finish, IInv, TypeOK
<1>2. \A k \in Logs : k # l => log'[k] = log[k]
  BY DEF CommitOn, IInv, TypeOK
<1>3. \A q \in Requests : InFlight => /\ SubmitHoldsRow(q) /\ SnapshotHolds(q)
                                     /\ RevisionOvertaken(q) /\ NoSelfSubmission(q)
  BY DEF InFlight
<1>4. ASSUME NEW q \in Requests, q = p
      PROVE  /\ SubmitHoldsRow(q)' /\ SnapshotHolds(q)'
             /\ RevisionOvertaken(q)' /\ NoSelfSubmission(q)'
  BY <1>1, <1>4 DEF SubmitHoldsRow, SnapshotHolds, RevisionOvertaken, NoSelfSubmission, At, Idle
<1>5. ASSUME NEW q \in Requests, q # p
      PROVE  SubmitHoldsRow(q)'
  <2>1. SUFFICES ASSUME At(q, "submit.commit")'
                 PROVE  /\ Owned(req[q].user, req[q].log, "DRAFT")'
                        /\ log'[req[q].log].current = req[q].current
                        /\ log'[req[q].log].token < MaxToken
                        /\ \A o \in Requests :
                             At(o, "submit.commit")' /\ req'[o].log = req[q].log => o = q
    BY <1>1, <1>5 DEF SubmitHoldsRow, Owned
  <2>2. At(q, "submit.commit")
    BY <1>1, <1>5, <2>1 DEF At
  <2>3. req[q].log \in Logs /\ req[q].log # l
    BY <1>5, <2>2, JobOf DEF CommitOn, SubmitJob, IInv
  <2>4. log'[req[q].log] = log[req[q].log]
    BY <1>2, <2>3
  <2>5. SubmitHoldsRow(q)
    BY <1>3 DEF IInv
  <2>6. req'[q] = req[q]
    BY <1>1, <1>5
  <2>7. \A o \in Requests : At(o, "submit.commit")' /\ req'[o].log = req[q].log => o = q
    BY <1>1, <2>2, <2>5 DEF SubmitHoldsRow, At, Idle
  <2> QED
    BY <2>2, <2>4, <2>5, <2>6, <2>7 DEF SubmitHoldsRow, Owned
<1>6. ASSUME NEW q \in Requests, q # p
      PROVE  SnapshotHolds(q)'
  <2>1. SUFFICES ASSUME At(q, "revise.write")'
                 PROVE  SnapshotHolds(q)'
    BY DEF SnapshotHolds
  <2>2. req'[q] = req[q] /\ At(q, "revise.write")
    BY <1>1, <1>6, <2>1 DEF At
  <2>3. req[q] \in ReviseJob
    BY <2>2, JobOf DEF IInv
  <2>4. req[q].log \in Logs /\ req[q].token \in Nat /\ log[req[q].log].token \in Nat
    <3>1. req[q].log \in Logs /\ req[q].token \in 0..MaxToken
      BY <2>3 DEF ReviseJob
    <3>2. log[req[q].log].token \in 0..MaxToken
      BY <3>1 DEF IInv, TypeOK, LogRow
    <3> QED
      BY <3>1, <3>2
  <2>5. SnapshotHolds(q)
    BY <1>3 DEF IInv
  <2>6. CASE req[q].log = l
    <3>1. log'[l].token = log[l].token + 1
      BY DEF CommitOn
    <3>2. req[q].token <= log[l].token
      BY <2>2, <2>5, <2>6 DEF SnapshotHolds
    <3> QED
      BY <2>2, <2>4, <2>6, <3>1, <3>2 DEF SnapshotHolds
  <2>7. CASE req[q].log # l
    BY <1>2, <2>2, <2>4, <2>5, <2>7 DEF SnapshotHolds, Owned
  <2> QED
    BY <2>6, <2>7
<1>7. ASSUME NEW q \in Requests, q # p
      PROVE  NoSelfSubmission(q)'
  BY <1>1, <1>3, <1>7 DEF NoSelfSubmission, IInv
<1>8. ASSUME NEW q \in Requests, q # p
      PROVE  RevisionOvertaken(q)'
  <2>1. SUFFICES ASSUME req[q].pc \in {"revise.snapshot", "revise.write", "revise.error"}
                 PROVE  RevisionOvertaken(q)'
    BY <1>1, <1>8 DEF RevisionOvertaken
  <2> DEFINE k == req[q].log
             n == req[q].current
  <2>2. k \in Logs /\ n \in Numbers
    BY <2>1, JobOf DEF IInv, At, ReviseJob
  <2>3. approval[k][n].status = "RETURNED" /\ n <= log[k].current
        /\ (At(q, "revise.error") => n < log[k].current)
    BY <1>3, <2>1 DEF IInv, RevisionOvertaken
  <2>4. approval'[k][n].status = "RETURNED"
    BY <2>2, <2>3, ReturnedStays
  <2>5. log[k].current <= log'[k].current
    BY <2>2, <2>3, CurrentGrows
  <2>6. n \in Nat /\ log[k].current \in Nat /\ log'[k].current \in Nat
    BY <2>2, CommitKeepsRows, WorkLogsAssumption DEF IInv, TypeOK, LogRow, Numbers
  <2>7. n <= log'[k].current /\ (At(q, "revise.error") => n < log'[k].current)
    BY <2>3, <2>5, <2>6
  <2> QED
    BY <1>1, <1>8, <2>4, <2>7 DEF RevisionOvertaken, At
<1> QED
  BY <1>4, <1>5, <1>6, <1>7, <1>8 DEF InFlight

\* What a request must have established when it moves to a later statement.
Entitled(j) ==
  /\ j.pc = "submit.commit" =>
       /\ Owned(j.user, j.log, "DRAFT")
       /\ log[j.log].current = j.current
       /\ log[j.log].token < MaxToken
       /\ RowFree(j.log)
  /\ j.pc = "revise.write" =>
       /\ j.token = log[j.log].token
       /\ log[j.log].token \in Nat
       /\ Owned(j.user, j.log, "RETURNED")
       /\ j.number = log[j.log].current + 1
  /\ j.pc \in {"revise.snapshot", "revise.write", "revise.error"} =>
       /\ approval[j.log][j.current].status = "RETURNED"
       /\ j.current <= log[j.log].current
       /\ j.pc = "revise.error" => j.current < log[j.log].current
  /\ j.pc \in {"submit.approver", "submit.author", "submit.cas", "submit.commit"}
       => j.approver # j.user

\* A step that writes no row and leaves its request entitled keeps InFlight.
LEMMA InFlightAfterMove ==
  ASSUME IInv, NEW p \in Requests, NEW j, Entitled(j), req' = [req EXCEPT ![p] = j],
         UNCHANGED <<log, version, approval>>
  PROVE  InFlight'
<1>1. \A q \in Requests : req'[q] = IF q = p THEN j ELSE req[q]
  BY DEF IInv, TypeOK
<1>2. log' = log /\ approval' = approval
  OBVIOUS
<1>3. \A q \in Requests : /\ SubmitHoldsRow(q) /\ SnapshotHolds(q)
                         /\ RevisionOvertaken(q) /\ NoSelfSubmission(q)
  BY DEF IInv, InFlight
<1>4. \A q \in Requests : SubmitHoldsRow(q)'
  <2>1. SUFFICES ASSUME NEW q \in Requests, req'[q].pc = "submit.commit"
                 PROVE  SubmitHoldsRow(q)'
    BY DEF SubmitHoldsRow, At
  <2>2. CASE q = p
    <3>1. req'[q] = j /\ j.pc = "submit.commit"
      BY <1>1, <2>1, <2>2
    <3>2. RowFree(j.log) /\ Owned(j.user, j.log, "DRAFT")
          /\ log[j.log].current = j.current /\ log[j.log].token < MaxToken
      BY <3>1 DEF Entitled
    <3>3. \A o \in Requests : At(o, "submit.commit")' /\ req'[o].log = j.log => o = p
      BY <1>1, <3>2 DEF RowFree, At
    <3> QED
      BY <1>2, <2>2, <3>1, <3>2, <3>3 DEF SubmitHoldsRow, Owned
  <2>3. CASE q # p
    <3>1. req'[q] = req[q] /\ At(q, "submit.commit") /\ SubmitHoldsRow(q)
      BY <1>1, <1>3, <2>1, <2>3 DEF At
    <3>2. \A o \in Requests : At(o, "submit.commit")' /\ req'[o].log = req[q].log => o = q
      <4>1. TAKE o \in Requests
      <4>2. CASE o = p
        BY <1>1, <3>1, <4>2 DEF Entitled, RowFree, At
      <4>3. CASE o # p
        BY <1>1, <3>1, <4>3 DEF SubmitHoldsRow, At
      <4> QED
        BY <4>2, <4>3
    <3> QED
      BY <1>2, <3>1, <3>2 DEF SubmitHoldsRow, Owned
  <2> QED
    BY <2>2, <2>3
<1>5. \A q \in Requests : SnapshotHolds(q)'
  <2>1. TAKE q \in Requests
  <2>2. CASE q = p
    BY <1>1, <1>2, <2>2 DEF SnapshotHolds, Entitled, Owned, At
  <2>3. CASE q # p
    BY <1>1, <1>2, <1>3, <2>3 DEF SnapshotHolds, Owned, At
  <2> QED
    BY <2>2, <2>3
<1>6. \A q \in Requests : NoSelfSubmission(q)'
  BY <1>1, <1>3 DEF NoSelfSubmission, Entitled
<1>7. \A q \in Requests : RevisionOvertaken(q)'
  BY <1>1, <1>2, <1>3 DEF RevisionOvertaken, Entitled, At
<1> QED
  BY <1>4, <1>5, <1>6, <1>7 DEF InFlight

\* A request that has just been accepted holds neither a row lock nor a snapshot.
LEMMA AcceptInFlight ==
  ASSUME IInv, NEW p \in Requests, NEW u \in Users, Accept(p, u)
  PROVE  InFlight'
<1>1. ASSUME NEW text \in Texts, NEW visibility \in Visibilities, CreateRead(p, u, text, visibility)
      PROVE  InFlight'
  <2> DEFINE j == [pc |-> "create", user |-> u, text |-> text, visibility |-> visibility]
  <2>1. Entitled(j)
    BY DEF Entitled
  <2>2. req' = [req EXCEPT ![p] = j]
    BY <1>1 DEF CreateRead, Begin
  <2> HIDE DEF j
  <2> QED
    BY <1>1, <2>1, <2>2, InFlightAfterMove DEF CreateRead
<1>2. ASSUME NEW l \in Logs, NEW text \in Texts, NEW token \in Tokens, EditRead(p, u, l, text, token)
      PROVE  InFlight'
  <2> DEFINE j == [pc |-> "edit.member", user |-> u, log |-> l, current |-> log[l].current,
                   token |-> token, text |-> text]
  <2>1. Entitled(j)
    BY DEF Entitled
  <2>2. req' = [req EXCEPT ![p] = j]
    BY <1>2 DEF EditRead, Begin
  <2> HIDE DEF j
  <2> QED
    BY <1>2, <2>1, <2>2, InFlightAfterMove DEF EditRead
<1>3. ASSUME NEW l \in Logs, NEW visibility \in Visibilities, NEW token \in Tokens,
             VisibilityRead(p, u, l, visibility, token)
      PROVE  InFlight'
  <2> DEFINE j == [pc |-> "visibility.write", user |-> u, log |-> l, token |-> token,
                   visibility |-> visibility]
  <2>1. Entitled(j)
    BY DEF Entitled
  <2>2. req' = [req EXCEPT ![p] = j]
    BY <1>3 DEF VisibilityRead, Begin
  <2> HIDE DEF j
  <2> QED
    BY <1>3, <2>1, <2>2, InFlightAfterMove DEF VisibilityRead
<1>4. ASSUME NEW l \in Logs, NEW text \in Texts, ReviseRead(p, u, l, text)
      PROVE  InFlight'
  <2> DEFINE j == [pc |-> "revise.snapshot", user |-> u, log |-> l, current |-> log[l].current,
                   token |-> 0, number |-> 0, text |-> text]
  <2>0. VersionsMatchStatus(l) /\ log[l].current \in Numbers /\ log[l].status = "RETURNED"
    BY <1>4, Live DEF ReviseRead, Owned
  <2>1. Entitled(j)
    BY <2>0 DEF Entitled, VersionsMatchStatus, RequestStatus, Numbers
  <2>2. req' = [req EXCEPT ![p] = j]
    BY <1>4 DEF ReviseRead, Begin
  <2> HIDE DEF j
  <2> QED
    BY <1>4, <2>1, <2>2, InFlightAfterMove DEF ReviseRead
<1>5. ASSUME NEW l \in Logs, NEW approver \in Users, SubmitRead(p, u, l, approver)
      PROVE  InFlight'
  <2> DEFINE j == [pc |-> "submit.approver", user |-> u, log |-> l,
                   current |-> log[l].current, approver |-> approver]
  <2>1. Entitled(j)
    BY <1>5 DEF SubmitRead, Entitled
  <2> QED
    BY <1>5, <2>1, InFlightAfterMove DEF SubmitRead, Begin
<1>6. ASSUME NEW l \in Logs, NEW n \in Numbers, NEW verdict \in Verdicts,
             DecideRead(p, u, l, n, verdict)
      PROVE  InFlight'
  <2> DEFINE j == [pc |-> "decide.access", user |-> u, log |-> l, current |-> n,
                   token |-> log[l].token, verdict |-> verdict, capable |-> FALSE]
  <2>1. Entitled(j)
    BY DEF Entitled
  <2>2. req' = [req EXCEPT ![p] = j]
    BY <1>6 DEF DecideRead, Begin
  <2> HIDE DEF j
  <2> QED
    BY <1>6, <2>1, <2>2, InFlightAfterMove DEF DecideRead
<1> QED
  BY <1>1, <1>2, <1>3, <1>4, <1>5, <1>6 DEF Accept

\* The insert trigger refuses an addVersion only if a later version has become current: as
\* long as the version it has read is current, a returned one, the log is RETURNED.
LEMMA RefusedIsOvertaken ==
  ASSUME IInv, NEW p \in Requests, ReviseRefused(p)
  PROVE  Overtaken(p)
<1> DEFINE l == req[p].log
           n == req[p].current
<1>1. l \in Logs /\ n \in Numbers
  BY JobOf DEF ReviseRefused, IInv, ReviseJob
<1>2. approval[l][n].status = "RETURNED" /\ n <= log[l].current
  BY DEF IInv, InFlight, RevisionOvertaken, ReviseRefused, At
<1>3. log[l].status \notin {"DRAFT", "RETURNED"}
  BY DEF ReviseRefused, InsertGuardPasses
<1>4. log[l].status # "ABSENT"
  BY <1>1, <1>2 DEF IInv, ReviewHistory, RowsAgree, NoLog, NoApproval
<1>5. log[l].status \in {"SUBMITTED", "APPROVED", "REJECTED"}
  BY <1>1, <1>3, <1>4 DEF IInv, TypeOK, LogRow, Verdicts
<1>6. VersionsMatchStatus(l)
  BY <1>1, <1>4, Live
<1>7. n # log[l].current
  BY <1>2, <1>5, <1>6 DEF VersionsMatchStatus, RequestStatus
<1>8. n \in Nat /\ log[l].current \in Nat
  BY <1>1, WorkLogsAssumption DEF Numbers, IInv, TypeOK, LogRow
<1> QED
  BY <1>2, <1>5, <1>7, <1>8 DEF Overtaken

\* The statements before a commit establish what InFlight says of their request.
LEMMA MovesInFlight ==
  ASSUME IInv, NEW p \in Requests,
         \/ EditMember(p) \/ ReviseSnapshot(p) \/ ReviseRefused(p)
         \/ SubmitApprover(p) \/ SubmitAuthor(p) \/ SubmitCas(p)
         \/ DecideAccess(p) \/ DecideRecheck(p) \/ RequestFails(p)
  PROVE  InFlight'
<1>0. req = [q \in Requests |-> req[q]] /\ NoSelfSubmission(p) /\ RevisionOvertaken(p)
  BY DEF IInv, TypeOK, InFlight
<1>1. CASE EditMember(p)
  <2> DEFINE j == [req[p] EXCEPT !.pc = "edit.write"]
  <2>1. req[p] \in EditJob
    BY <1>1, JobOf DEF EditMember, IInv
  <2>2. Entitled(j)
    BY <2>1 DEF EditJob, Entitled
  <2>3. req' = [req EXCEPT ![p] = j]
    BY <1>0, <1>1 DEF EditMember, GoTo
  <2> QED
    BY <1>1, <2>2, <2>3, InFlightAfterMove DEF EditMember
<1>2. CASE ReviseSnapshot(p)
  <2> DEFINE l == req[p].log
  <2>1. req[p] \in ReviseJob
    BY <1>2, JobOf DEF ReviseSnapshot, IInv
  <2>2. PICK n \in Numbers :
          /\ NextNumber(l, n)
          /\ req' = [req EXCEPT ![p].pc = "revise.write", ![p].number = n, ![p].token = log[l].token]
    BY <1>2 DEF ReviseSnapshot
  <2> DEFINE j == [req[p] EXCEPT !.pc = "revise.write", !.number = n, !.token = log[l].token]
  <2>3. req' = [req EXCEPT ![p] = j]
    BY <1>0, <2>2
  <2>4. l \in Logs /\ Owned(req[p].user, l, "RETURNED")
    BY <1>2, <2>1 DEF ReviseSnapshot, ReviseWhere, ReviseJob
  <2>5. VersionsMatchStatus(l) /\ log[l].current \in Numbers /\ log[l].token \in Tokens
    BY <2>4, Live DEF Owned
  <2>6. n = log[l].current + 1
    <3>1. n - 1 \in 1..log[l].current /\ log[l].current < n
      BY <2>2, <2>5 DEF NextNumber, VersionsMatchStatus
    <3> QED
      BY <2>5, <3>1 DEF Numbers
  <2>7. j.pc = "revise.write" /\ j.user = req[p].user /\ j.log = l /\ j.number = n
        /\ j.token = log[l].token /\ j.log = l /\ j.current = req[p].current
    BY <2>1 DEF ReviseJob
  <2>9. approval[l][req[p].current].status = "RETURNED" /\ req[p].current <= log[l].current
    BY <1>0, <1>2 DEF ReviseSnapshot, At, RevisionOvertaken
  <2>8. Entitled(j)
    BY <2>4, <2>5, <2>6, <2>7, <2>9 DEF Entitled, Tokens
  <2> QED
    BY <1>2, <2>3, <2>8, InFlightAfterMove DEF ReviseSnapshot
<1>3. CASE SubmitApprover(p) \/ SubmitAuthor(p)
  <2>1. PICK pc \in {"submit.author", "submit.cas"} : GoTo(p, pc)
    BY <1>3 DEF SubmitApprover, SubmitAuthor
  <2> DEFINE j == [req[p] EXCEPT !.pc = pc]
  <2>2. req[p] \in SubmitJob
    BY <1>3, JobOf DEF SubmitApprover, SubmitAuthor, IInv
  <2>3. req[p].approver # req[p].user
    BY <1>0, <1>3 DEF SubmitApprover, SubmitAuthor, NoSelfSubmission, At
  <2>4. Entitled(j)
    BY <2>2, <2>3 DEF SubmitJob, Entitled
  <2>5. req' = [req EXCEPT ![p] = j]
    BY <1>0, <2>1 DEF GoTo
  <2> QED
    BY <1>3, <2>4, <2>5, InFlightAfterMove DEF SubmitApprover, SubmitAuthor
<1>4. CASE SubmitCas(p)
  <2> DEFINE j == [req[p] EXCEPT !.pc = "submit.commit"]
  <2>1. req[p] \in SubmitJob
    BY <1>4, JobOf DEF SubmitCas, IInv
  <2>2. req[p].approver # req[p].user
    BY <1>0, <1>4 DEF SubmitCas, NoSelfSubmission, At
  <2>3. j.pc = "submit.commit" /\ j.user = req[p].user /\ j.log = req[p].log
        /\ j.current = req[p].current /\ j.approver = req[p].approver
    BY <2>1 DEF SubmitJob
  <2>4. Entitled(j)
    BY <1>4, <2>2, <2>3 DEF Entitled, SubmitCas, SubmitWhere, Writable
  <2>5. req' = [req EXCEPT ![p] = j]
    BY <1>0, <1>4 DEF SubmitCas, GoTo
  <2> QED
    BY <1>4, <2>4, <2>5, InFlightAfterMove DEF SubmitCas
<1>5. CASE DecideAccess(p)
  <2> DEFINE may == "APPROVER" \notin roles[req[p].user]
             j == [req[p] EXCEPT !.pc = "decide.recheck", !.capable = may]
  <2>1. req[p] \in DecideJob
    BY <1>5, JobOf DEF DecideAccess, IInv
  <2>2. j.pc = "decide.recheck"
    BY <2>1 DEF DecideJob
  <2>3. req' = [req EXCEPT ![p] = j]
    BY <1>0, <1>5 DEF DecideAccess
  <2> HIDE DEF j
  <2>4. Entitled(j)
    BY <2>2 DEF Entitled
  <2> QED
    BY <1>5, <2>3, <2>4, InFlightAfterMove DEF DecideAccess
<1>6. CASE DecideRecheck(p)
  <2> DEFINE j == [req[p] EXCEPT !.pc = "decide.commit"]
  <2>1. req[p] \in DecideJob
    BY <1>6, JobOf DEF DecideRecheck, IInv
  <2>2. Entitled(j)
    BY <2>1 DEF DecideJob, Entitled
  <2>3. req' = [req EXCEPT ![p] = j]
    BY <1>0, <1>6 DEF DecideRecheck, GoTo
  <2> QED
    BY <1>6, <2>2, <2>3, InFlightAfterMove DEF DecideRecheck
<1>7. CASE RequestFails(p)
  <2>1. Entitled(Idle)
    BY DEF Entitled, Idle
  <2> QED
    BY <1>7, <2>1, InFlightAfterMove DEF RequestFails, Finish
<1>8. CASE ReviseRefused(p)
  <2> DEFINE j == [req[p] EXCEPT !.pc = "revise.error"]
  <2>1. req[p] \in ReviseJob
    BY <1>8, JobOf DEF ReviseRefused, IInv
  <2>2. j.pc = "revise.error" /\ j.log = req[p].log /\ j.current = req[p].current
    BY <2>1 DEF ReviseJob
  <2>3. Overtaken(p)
    BY <1>8, RefusedIsOvertaken
  <2>4. req[p].current \in Nat /\ log[req[p].log].current \in Nat
    BY <2>1, WorkLogsAssumption DEF ReviseJob, Numbers, IInv, TypeOK, LogRow
  <2> HIDE DEF j
  <2>5. Entitled(j)
    BY <2>2, <2>3, <2>4 DEF Entitled, Overtaken
  <2>6. req' = [req EXCEPT ![p] = j]
    BY <1>0, <1>8 DEF ReviseRefused, GoTo, j
  <2> QED
    BY <1>8, <2>5, <2>6, InFlightAfterMove DEF ReviseRefused
<1> QED
  BY <1>1, <1>2, <1>3, <1>4, <1>5, <1>6, <1>7, <1>8

-----------------------------------------------------------------------------
(***************************************************************************)
(* Theorems.                                                               *)
(***************************************************************************)
\* The invariant holds initially.
LEMMA InitIInv == Init => IInv
<1>1. Init => ReviewHistory
  BY DEF Init, LogInit, ReviewHistory, RowsAgree, NumbersOf, NoLog
<1>2. Init => OneOutcomePerRequest
  BY DEF Init, LogInit, OneOutcomePerRequest, NoApproval, Verdicts
<1>3. Init => InFlight
  BY DEF Init, LogInit, InFlight, SubmitHoldsRow, SnapshotHolds, RevisionOvertaken,
         NoSelfSubmission, At, Idle
<1> QED
  BY <1>1, <1>2, <1>3, InitTypeOK DEF IInv

\* Rows that do not change keep what is said of them alone.
LEMMA SameRows ==
  ASSUME IInv, UNCHANGED <<log, version, approval>>
  PROVE  ReviewHistory' /\ OneOutcomePerRequest'
BY DEF IInv, ReviewHistory, RowsAgree, VersionsMatchStatus, NumbersOf, OneOutcomePerRequest

\* A change of membership, or the archive, keeps the types.
LEMMA AccessKeepsTypes ==
  ASSUME AccessTypeOK, AccessNext
  PROVE  AccessTypeOK'
<1>1. ASSUME NEW u \in Users, NEW granted \in Assignable[u], ChangeMembership(u, granted)
      PROVE  AccessTypeOK'
  BY <1>1, ProjectAccessAssumption DEF ChangeMembership, AccessTypeOK
<1>2. CASE ArchiveProject
  BY <1>2 DEF ArchiveProject, AccessTypeOK
<1> QED
  BY <1>1, <1>2 DEF AccessNext

\* The invariant is preserved by every step.
LEMMA NextIInv ==
  ASSUME IInv, [Next]_vars
  PROVE  IInv'
<1>1. ASSUME NEW p \in Requests, Writes(p)
      PROVE  IInv'
  BY <1>1, WritesCommit, CommitKeepsRows, InFlightAfterCommit DEF IInv
<1>2. ASSUME NEW p \in Requests, NEW u \in Users, Accept(p, u)
      PROVE  IInv'
  <2>1. UNCHANGED <<log, version, approval>>
    BY <1>2 DEF Accept, CreateRead, EditRead, VisibilityRead, ReviseRead, SubmitRead, DecideRead
  <2> QED
    BY <1>2, <2>1, SameRows, AcceptTypeOK, AcceptInFlight DEF IInv
<1>3. ASSUME NEW p \in Requests,
             \/ EditMember(p) \/ ReviseSnapshot(p) \/ ReviseRefused(p)
             \/ SubmitApprover(p) \/ SubmitAuthor(p) \/ SubmitCas(p)
             \/ DecideAccess(p) \/ DecideRecheck(p) \/ RequestFails(p)
      PROVE  IInv'
  <2>1. UNCHANGED <<log, version, approval>>
    BY <1>3 DEF EditMember, ReviseSnapshot, ReviseRefused, SubmitApprover, SubmitAuthor,
                SubmitCas, DecideAccess, DecideRecheck, RequestFails
  <2> QED
    BY <1>3, <2>1, SameRows, MovesTypeOK, MovesInFlight DEF IInv
<1>4. CASE AccessStep
  <2>1. AccessTypeOK' /\ UNCHANGED <<log, version, approval, req>>
    BY <1>4, AccessKeepsTypes DEF AccessStep, logVars, IInv, TypeOK
  <2>2. TypeOK'
    BY <2>1 DEF IInv, TypeOK
  <2>3. InFlight'
    BY <2>1 DEF IInv, InFlight, SubmitHoldsRow, SnapshotHolds, RevisionOvertaken,
                NoSelfSubmission, At, Owned
  <2> QED
    BY <2>1, <2>2, <2>3, SameRows DEF IInv
<1>5. CASE UNCHANGED vars
  BY <1>5 DEF vars, IInv, TypeOK, AccessTypeOK, ReviewHistory, RowsAgree, VersionsMatchStatus,
              NumbersOf, OneOutcomePerRequest, InFlight, SubmitHoldsRow, SnapshotHolds,
              RevisionOvertaken, NoSelfSubmission, At, Owned
<1> QED
  BY <1>1, <1>2, <1>3, <1>4, <1>5 DEF Next, Statement, Writes

\* The inductive invariant holds in every reachable state.
THEOREM Invariance == Spec => []IInv
<1>1. IInv /\ [Next]_vars => IInv'
  BY NextIInv
<1> QED
  BY <1>1, InitIInv, PTL DEF Spec

\* Every variable has its type, whatever the users, logs, requests and bounds.
THEOREM TypeCorrectness == Spec => []TypeOK
<1>1. IInv => TypeOK
  BY DEF IInv
<1> QED
  BY <1>1, Invariance, PTL

\* The log, its versions and their requests tell one story (createDraft, updateDraft,
\* addVersion, submit, decide and setVisibility in any interleaving).
THEOREM HistoryIsConsistent == Spec => []ReviewHistory
<1>1. IInv => ReviewHistory
  BY DEF IInv
<1> QED
  BY <1>1, Invariance, PTL

\* A request for approval is decided at most once, with one decision row, notification and
\* mail, and its approver is a user other than the author.
THEOREM DecidedOnce == Spec => []OneOutcomePerRequest
<1>1. IInv => OneOutcomePerRequest
  BY DEF IInv
<1> QED
  BY <1>1, Invariance, PTL

\* What the row lock of submit and the snapshot of addVersion protect still holds when the
\* request writes.
THEOREM ChecksStillHold == Spec => []InFlight
<1>1. IInv => InFlight
  BY DEF IInv
<1> QED
  BY <1>1, Invariance, PTL

-----------------------------------------------------------------------------
(***************************************************************************)
(* What a step may never do.                                               *)
(***************************************************************************)

\* A stale writer ends without having changed a row.
LEMMA StaleStep ==
  ASSUME IInv, [Next]_vars, NEW p \in Requests, Stale(p), req'[p] # req[p]
  PROVE  UNCHANGED <<log, version, approval>>
<1>1. SUFFICES ASSUME NEW q \in Requests, Writes(q)
               PROVE  FALSE
  BY StepShape
<1>2. req' = [req EXCEPT ![q] = Idle]
  BY <1>1 DEF Writes, CreateCommit, EditCommit, VisibilityCommit, ReviseCommit, SubmitCommit,
              DecideCommit, Finish
<1>3. q = p
  BY <1>2 DEF IInv, TypeOK
<1>4. /\ req[p].pc \in {"edit.write", "visibility.write", "revise.write", "decide.commit"}
      /\ req[p].token # log[req[p].log].token
  BY DEF Stale
<1>5. ~EditCommit(p) /\ ~VisibilityCommit(p) /\ ~ReviseCommit(p) /\ ~DecideCommit(p)
  BY <1>4 DEF EditCommit, EditWhere, VisibilityCommit, VisibilityWhere, ReviseCommit,
              ReviseSerializable, DecideCommit, AdvanceWhere
<1>6. ~SubmitCommit(p) /\ \A l : ~CreateCommit(p, l)
  BY <1>4 DEF SubmitCommit, CreateCommit, At
<1> QED
  BY <1>1, <1>3, <1>5, <1>6 DEF Writes

\* An edit, visibility change, new version or decision whose token is stale ends without
\* having changed a row: each commit compares the token it holds with the row's.
THEOREM StaleWritersAreRefused == Spec => StaleWriterChangesNothing
<1>1. IInv /\ [Next]_vars =>
        [\A p \in Requests :
           Stale(p) /\ req'[p] # req[p] => UNCHANGED <<log, version, approval>>]_vars
  BY StaleStep
<1> QED
  BY <1>1, Invariance, PTL DEF Spec, StaleWriterChangesNothing

\* A step from a drained project.
LEMMA DrainedStep ==
  ASSUME IInv, [Next]_vars, Drained
  PROVE  Drained' /\ UNCHANGED <<log, version, approval>>
<1>1. ~projectOpen /\ (\A q \in Requests : req[q].pc \notin PastAccessCheck)
      /\ \A u : ~CanAccess(u)
  BY DEF Drained, CanAccess
<1>2. \A q \in Requests : ~Writes(q)
  BY <1>1 DEF PastAccessCheck, Writes, CreateCommit, EditCommit, VisibilityCommit, ReviseCommit,
              SubmitCommit, DecideCommit, At
<1>3. UNCHANGED <<log, version, approval>>
  BY <1>2, StepShape
<1>4. \A p \in Requests : \A j :
        req' = [req EXCEPT ![p] = j] /\ j.pc \notin PastAccessCheck /\ UNCHANGED projectOpen
          => Drained'
  BY <1>1 DEF Drained, IInv, TypeOK
<1>5. ASSUME NEW p \in Requests, NEW u \in Users, Accept(p, u)
      PROVE  Drained'
  BY <1>1, <1>4, <1>5
  DEF Accept, CreateRead, EditRead, VisibilityRead, ReviseRead, SubmitRead, DecideRead, Begin,
      CanSetVisibility, PastAccessCheck, accessVars
<1>6. ASSUME NEW p \in Requests, Statement(p) \/ SubmitCommit(p) \/ RequestFails(p)
      PROVE  Drained'
  <2>1. RequestFails(p)
    BY <1>1, <1>2, <1>6
    DEF Statement, Writes, EditMember, ReviseSnapshot, ReviseRefused, SubmitApprover,
        SubmitAuthor, SubmitCas, DecideAccess, DecideRecheck, CanApprove, PastAccessCheck, At
  <2> QED
    BY <1>4, <2>1 DEF RequestFails, Finish, Idle, PastAccessCheck, accessVars
<1>7. CASE AccessStep
  BY <1>7 DEF AccessStep, AccessNext, ChangeMembership, ArchiveProject, Drained, logVars
<1>8. CASE UNCHANGED vars
  BY <1>8 DEF vars, Drained
<1>9. Drained'
  BY <1>5, <1>6, <1>7, <1>8 DEF Next
<1> QED
  BY <1>3, <1>9

\* Once the project is archived and no request is past its access check, none ever is
\* again, and the rows stay as they are.
THEOREM ArchiveDrains == Spec => ArchivedProjectDrains
<1>1. IInv /\ [Next]_vars => [Drained => Drained' /\ UNCHANGED <<log, version, approval>>]_vars
  BY DrainedStep
<1> QED
  BY <1>1, Invariance, PTL DEF Spec, ArchivedProjectDrains

\* What the commits do to the status, the author and the frozen versions of a log.
LEMMA CommitRespectsGuards ==
  ASSUME IInv, NEW p \in Requests, Writes(p), NEW l \in Logs
  PROVE  /\ LogGuardPasses(l)
         /\ \A n \in Numbers : VersionGuardPasses(l, n)
         /\ log[l] # NoLog => log'[l].author = log[l].author
<1> USE DEF LogGuardPasses, VersionGuardPasses, LegalTransition
<1>0. /\ log \in [Logs -> LogRow] /\ version \in [Logs -> [Numbers -> VersionRow]]
      /\ \A k \in Logs : log[k] = NoLog => NumbersOf(k) = {}
  BY DEF IInv, TypeOK, ReviewHistory, RowsAgree
<1>1. ASSUME NEW k \in Logs, CreateCommit(p, k)
      PROVE  /\ LogGuardPasses(l)
             /\ \A n \in Numbers : VersionGuardPasses(l, n)
             /\ log[l] # NoLog => log'[l].author = log[l].author
  <2>1. CASE k # l
    BY <1>0, <1>1, <2>1 DEF CreateCommit
  <2>2. CASE k = l
    <3>1. log[l].status = "ABSENT" /\ log'[l].status = "DRAFT"
      BY <1>0, <1>1, <2>2 DEF CreateCommit, NoLog
    <3>2. \A n \in Numbers : version[l][n] = NoVersion
      BY <1>0, <1>1, <2>2 DEF CreateCommit, NumbersOf
    <3>3. \A n \in Numbers : version[l][n].frozen = FALSE
      BY <3>2 DEF NoVersion
    <3> QED
      BY <1>1, <2>2, <3>1, <3>2, <3>3 DEF CreateCommit
  <2> QED
    BY <2>1, <2>2
<1>2. CASE EditCommit(p)
  <2> DEFINE k == req[p].log
             n == req[p].current
  <2>1. log[k].status = "DRAFT" /\ log[k].current = n /\ req[p] \in EditJob
    BY <1>2, JobOf DEF EditCommit, EditWhere, Owned, IInv
  <2>2. k \in Logs /\ n \in Numbers /\ req[p].text \in Texts
    BY <2>1 DEF EditJob
  <2>3. version[k][n].frozen = FALSE
    BY <1>0, <2>1, <2>2, Live DEF VersionsMatchStatus, VersionRow, Numbers
  <2> DEFINE row == [version[k][n] EXCEPT !.text = req[p].text]
  <2>4. row # NoVersion
    BY <1>0, <2>2, WorkLogsAssumption DEF VersionRow, NoVersion
  <2>5. version' = [version EXCEPT ![k] = [version[k] EXCEPT ![n] = row]]
    BY <1>0, <1>2 DEF EditCommit
  <2>6. log' = [log EXCEPT ![k] = Bumped(log[k])]
    BY <1>0, <1>2 DEF EditCommit, Bumped
  <2>7. log'[l].status = log[l].status /\ log'[l].current = log[l].current
        /\ log'[l].author = log[l].author
    BY <1>0, <2>2, <2>6 DEF Bumped, LogRow
  <2> HIDE DEF row
  <2>8. \A m \in Numbers : version'[l][m] = IF l = k /\ m = n THEN row ELSE version[l][m]
    BY <1>0, <2>2, <2>5
  <2>9. \A m \in Numbers : VersionGuardPasses(l, m)
    BY <2>1, <2>3, <2>4, <2>8
  <2> QED
    BY <2>7, <2>9
<1>3. CASE VisibilityCommit(p)
  BY <1>0, <1>3 DEF VisibilityCommit, LogRow
<1>4. CASE ReviseCommit(p)
  <2> DEFINE k == req[p].log
             n == req[p].number
             row == [text |-> req[p].text, frozen |-> FALSE]
  <2>1. /\ log[k].status = "RETURNED" /\ req[p] \in ReviseJob
        /\ n \notin NumbersOf(k)
    BY <1>4, JobOf DEF ReviseCommit, ReviseSerializable, IInv, InFlight, SnapshotHolds, Owned
  <2>2. k \in Logs /\ req[p].text \in Texts
    BY <2>1 DEF ReviseJob
  <2>3. row # NoVersion
    BY WorkLogsAssumption, <2>2 DEF NoVersion
  <2>4. version' = [version EXCEPT ![k] = [version[k] EXCEPT ![n] = row]]
    BY <1>0, <1>4 DEF ReviseCommit
  <2>5. \A m \in Numbers : m = n => version[k][m] = NoVersion /\ version[k][m].frozen = FALSE
    BY <2>1 DEF NumbersOf, NoVersion
  <2> HIDE DEF row
  <2>6. \A m \in Numbers : version'[l][m] = IF l = k /\ m = n THEN row ELSE version[l][m]
    BY <1>0, <2>2, <2>4
  <2>7. \A m \in Numbers : VersionGuardPasses(l, m)
    BY <2>1, <2>3, <2>5, <2>6
  <2>8. LogGuardPasses(l) /\ log'[l].author = log[l].author
    BY <1>0, <1>4, <2>1, <2>2 DEF ReviseCommit, LogRow
  <2> QED
    BY <2>7, <2>8
<1>5. CASE SubmitCommit(p)
  <2> DEFINE k == req[p].log
  <2>1. log[k].status = "DRAFT" /\ req[p] \in SubmitJob
    BY <1>5, JobOf DEF SubmitCommit, IInv, InFlight, SubmitHoldsRow, Owned
  <2>2. k \in Logs
    BY <2>1 DEF SubmitJob
  <2>3. \A m \in Numbers : /\ version[k][m] # NoVersion => Freeze(k)[m] # NoVersion
                           /\ version[k][m] = NoVersion => Freeze(k)[m] = NoVersion
                           /\ version[k][m].frozen => Freeze(k)[m] = version[k][m]
    BY <1>0, <2>2 DEF Freeze, VersionRow, NoVersion
  <2>4. \A m \in Numbers : version'[l][m] = IF l = k THEN Freeze(k)[m] ELSE version[l][m]
    BY <1>0, <1>5, <2>2 DEF SubmitCommit
  <2>5. \A m \in Numbers : VersionGuardPasses(l, m)
    BY <2>3, <2>4
  <2>6. LogGuardPasses(l) /\ log'[l].author = log[l].author
    BY <1>0, <1>5, <2>1, <2>2 DEF SubmitCommit, LogRow
  <2> QED
    BY <2>5, <2>6
<1>6. CASE DecideCommit(p)
  <2>1. req[p] \in DecideJob /\ log[req[p].log].status = "SUBMITTED"
    BY <1>6, JobOf DEF DecideCommit, AdvanceWhere, IInv
  <2> QED
    BY <1>0, <1>6, <2>1 DEF DecideCommit, DecideJob, LogRow
<1> QED
  BY <1>1, <1>2, <1>3, <1>4, <1>5, <1>6 DEF Writes

\* A request gets to "revise.error" by ReviseRefused alone.
LEMMA RefusedStep ==
  ASSUME IInv, [Next]_vars, NEW p \in Requests, RefusedNow(p)
  PROVE  ReviseRefused(p)
<1>0. /\ req \in [Requests -> AllJobs] /\ req' # req /\ req'[p] # req[p]
      /\ req'[p].pc = "revise.error"
  BY DEF RefusedNow, At, IInv, TypeOK, AllJobs
<1>1. \A q \in Requests : \A j : req' = [req EXCEPT ![q] = j] => q = p /\ j.pc = "revise.error"
  BY <1>0
<1>2. \A q \in Requests : ~Finish(q)
  <2>1. Idle.pc # "revise.error"
    BY DEF Idle
  <2> QED
    BY <1>1, <2>1 DEF Finish
<1>3. \A q \in Requests, u \in Users : ~Accept(q, u)
  <2>1. \A q \in Requests : \A j : Begin(q, j) => j.pc = "revise.error"
    BY <1>1 DEF Begin
  <2>2. \A q \in Requests : \A u, text, visibility : ~CreateRead(q, u, text, visibility)
    BY <2>1 DEF CreateRead
  <2>3. \A q \in Requests : \A u, l, text, token : ~EditRead(q, u, l, text, token)
    BY <2>1 DEF EditRead
  <2>4. \A q \in Requests : \A u, l, visibility, token : ~VisibilityRead(q, u, l, visibility, token)
    BY <2>1 DEF VisibilityRead
  <2>5. \A q \in Requests : \A u, l, text : ~ReviseRead(q, u, l, text)
    BY <2>1 DEF ReviseRead
  <2>6. \A q \in Requests : \A u, l, approver : ~SubmitRead(q, u, l, approver)
    BY <2>1 DEF SubmitRead
  <2>7. \A q \in Requests : \A u, l, n, verdict : ~DecideRead(q, u, l, n, verdict)
    BY <2>1 DEF DecideRead
  <2> QED
    BY <2>2, <2>3, <2>4, <2>5, <2>6, <2>7 DEF Accept
<1>4. \A q \in Requests, pc \in {"edit.write", "submit.author", "submit.cas", "submit.commit",
                                "decide.commit"} : ~GoTo(q, pc)
  BY <1>0 DEF GoTo, AllJobs, Idle, Jobs, CreateJob, EditJob, VisibilityJob, ReviseJob,
              SubmitJob, DecideJob
<1>5. \A q \in Requests : ~ReviseSnapshot(q) /\ ~DecideAccess(q)
  <2>1. ASSUME NEW q \in Requests, ReviseSnapshot(q)
        PROVE  FALSE
    <3>1. PICK n \in Numbers :
            req' = [req EXCEPT ![q].pc = "revise.write", ![q].number = n,
                               ![q].token = log[req[q].log].token]
      BY <2>1 DEF ReviseSnapshot
    <3>2. q = p
      BY <1>0, <3>1
    <3>3. req[p] \in ReviseJob
      BY <2>1, <3>2, JobOf DEF IInv, ReviseSnapshot
    <3>4. req'[p] = [req[p] EXCEPT !.pc = "revise.write", !.number = n,
                                   !.token = log[req[p].log].token]
      BY <1>0, <3>1, <3>2
    <3> QED
      BY <1>0, <3>3, <3>4 DEF ReviseJob
  <2>2. ASSUME NEW q \in Requests, DecideAccess(q)
        PROVE  FALSE
    <3> DEFINE may == "APPROVER" \notin roles[req[q].user]
    <3>1. req' = [req EXCEPT ![q].pc = "decide.recheck", ![q].capable = may]
      BY <2>2 DEF DecideAccess
    <3> HIDE DEF may
    <3>2. q = p
      BY <1>0, <3>1
    <3>3. req[p] \in DecideJob
      BY <2>2, <3>2, JobOf DEF IInv, DecideAccess
    <3>4. req'[p] = [req[p] EXCEPT !.pc = "decide.recheck", !.capable = may]
      BY <1>0, <3>1, <3>2
    <3> QED
      BY <1>0, <3>3, <3>4 DEF DecideJob
  <2> QED
    BY <2>1, <2>2
<1>6. PICK q \in Requests : Statement(q) \/ SubmitCommit(q) \/ RequestFails(q)
  BY <1>0, <1>3 DEF Next, AccessStep, logVars, vars
<1>7. ReviseRefused(q)
  BY <1>2, <1>4, <1>5, <1>6
  DEF Statement, SubmitCommit, RequestFails, CreateCommit, EditMember, EditCommit,
      VisibilityCommit, ReviseCommit, SubmitApprover, SubmitAuthor, SubmitCas, DecideRecheck,
      DecideCommit
<1>8. q = p
  BY <1>0, <1>7 DEF ReviseRefused, GoTo
<1> QED
  BY <1>7, <1>8

\* No step runs into a trigger, but for the insert of an addVersion that was overtaken.
LEMMA TriggersStep ==
  ASSUME IInv, [Next]_vars
  PROVE  /\ \A l \in Logs : LogGuardPasses(l) /\ \A n \in Numbers : VersionGuardPasses(l, n)
         /\ \A p \in Requests : RefusedNow(p) => Overtaken(p)
<1>1. \A l \in Logs : LogGuardPasses(l) /\ \A n \in Numbers : VersionGuardPasses(l, n)
  <2>1. CASE \E p \in Requests : Writes(p)
    BY <2>1, CommitRespectsGuards
  <2>2. CASE UNCHANGED <<log, version, approval>>
    BY <2>2 DEF LogGuardPasses, VersionGuardPasses, LegalTransition
  <2> QED
    BY <2>1, <2>2, StepShape
<1>2. \A p \in Requests : RefusedNow(p) => Overtaken(p)
  BY RefusedStep, RefusedIsOvertaken
<1> QED
  BY <1>1, <1>2

\* Nothing the services commit is refused by a trigger of work_logs or work_log_versions; an
\* addVersion one does refuse was overtaken by a newer version that has been submitted.
THEOREM TriggersMeetTheOvertaken == Spec => TriggersRefuseOnlyOvertaken
<1>1. IInv /\ [Next]_vars =>
        [/\ \A l \in Logs : LogGuardPasses(l) /\ \A n \in Numbers : VersionGuardPasses(l, n)
         /\ \A p \in Requests : RefusedNow(p) => Overtaken(p)]_vars
  BY TriggersStep
<1> QED
  BY <1>1, Invariance, PTL DEF Spec, TriggersRefuseOnlyOvertaken

\* What changes what a client has seen of a log raises its token by one.
LEMMA TokenStep ==
  ASSUME IInv, [Next]_vars, NEW l \in Logs, Seen(l)' # Seen(l)
  PROVE  /\ log'[l].token = log[l].token + 1
         /\ log[l] # NoLog => log'[l].author = log[l].author
<1>1. ASSUME NEW p \in Requests, Writes(p)
      PROVE  /\ log'[l].token = log[l].token + 1
             /\ log[l] # NoLog => log'[l].author = log[l].author
  <2>1. PICK k : CommitOn(p, k)
    BY <1>1, WritesCommit
  <2>2. l = k
    BY <2>1 DEF CommitOn, Seen, IInv, TypeOK
  <2> QED
    BY <1>1, <2>1, <2>2, CommitRespectsGuards DEF CommitOn
<1>2. CASE UNCHANGED <<log, version, approval>>
  BY <1>2 DEF Seen
<1> QED
  BY <1>1, <1>2, StepShape

\* Whatever changes what a client has seen of a log raises its token by one and leaves its
\* author alone.
THEOREM TokenIdentifies == Spec => TokenIdentifiesState
<1>1. IInv /\ [Next]_vars =>
        [\A l \in Logs : Seen(l)' # Seen(l) =>
           /\ log'[l].token = log[l].token + 1
           /\ log[l] # NoLog => log'[l].author = log[l].author]_vars
  BY TokenStep
<1> QED
  BY <1>1, Invariance, PTL DEF Spec, TokenIdentifiesState

-----------------------------------------------------------------------------
(***************************************************************************)
(* The review record.  What the refinement mapping says of one log depends *)
(* on its rows alone; in good rows the decided versions are the first      *)
(* ones, so the history is a sequence that a commit keeps or extends.      *)
(***************************************************************************)
StageOf == [l \in Logs |-> log[l].status]

TextIn(r, v) == IF r.current = 0 THEN NoText ELSE v[r.current].text
TextOf == [l \in Logs |-> TextIn(log[l], version[l])]

HistoryIn(v, a) ==
  [n \in 1..Cardinality({m \in Numbers : a[m].status \in Verdicts}) |->
     [text |-> v[n].text, verdict |-> a[n].status]]
HistoryOf == [l \in Logs |-> HistoryIn(version[l], approval[l])]

\* How many versions of a log have been decided.
Closed(r) ==
  IF r.current = 0 THEN 0 ELSE IF r.status \in Verdicts THEN r.current ELSE r.current - 1

\* In good rows the decided versions are the first Closed(r) ones.
LEMMA ClosedVersions ==
  ASSUME NEW r, NEW v, NEW a, Good(r, v, a)
  PROVE  /\ Closed(r) \in Nat
         /\ 1..Closed(r) \subseteq Numbers
         /\ {m \in Numbers : a[m].status \in Verdicts} = 1..Closed(r)
<1> DEFINE now == r.current
<1>1. CASE r = NoLog
  <2>1. Closed(r) = 0
    BY <1>1 DEF Closed, NoLog
  <2>2. \A m \in Numbers : a[m].status \notin Verdicts
    BY <1>1 DEF Good, Agree, NoApproval, Verdicts
  <2> QED
    BY <2>1, <2>2
<1>2. CASE r # NoLog
  <2>1. Chain(r, v, a) /\ r.status # "ABSENT" /\ r \in LogRow
    BY <1>2 DEF Good, Agree, Typed
  <2>2. now \in Numbers /\ now \in Nat /\ now # 0
    BY <2>1 DEF Chain, Present, Numbers
  <2>3. \A m \in Numbers : /\ m \in Nat
                           /\ m < now => a[m].status \in Verdicts
                           /\ m > now => a[m].status \notin Verdicts
    BY <2>1 DEF Chain, NoApproval, Verdicts, Numbers
  <2>4. a[now].status \in Verdicts <=> r.status \in Verdicts
    BY <2>1 DEF Chain, RequestStatus, Verdicts, LogRow
  <2> HIDE DEF now
  <2>5. Closed(r) = IF r.status \in Verdicts THEN now ELSE now - 1
    BY <2>2 DEF Closed, now
  <2>6. Closed(r) \in Nat /\ Closed(r) <= now
    BY <2>2, <2>5
  <2>7. 1..Closed(r) \subseteq Numbers
    BY <2>2, <2>6, WorkLogsAssumption DEF Numbers
  <2>8. \A m \in Numbers : a[m].status \in Verdicts <=> m \in 1..Closed(r)
    <3>1. TAKE m \in Numbers
    <3>2. CASE m = now
      BY <2>2, <2>3, <2>4, <2>5, <3>2 DEF Numbers
    <3>3. CASE m < now
      BY <2>2, <2>3, <2>5, <3>3 DEF Numbers
    <3>4. CASE m > now
      BY <2>2, <2>3, <2>5, <3>4 DEF Numbers
    <3> QED
      BY <2>2, <3>2, <3>3, <3>4 DEF Numbers
  <2> QED
    BY <2>6, <2>7, <2>8
<1> QED
  BY <1>1, <1>2

\* So the history is a sequence of that length.
Entries == [text : Texts \cup {NoText}, verdict : Verdicts]

LEMMA HistoryIsSequence ==
  ASSUME NEW r, NEW v, NEW a, Good(r, v, a)
  PROVE  /\ HistoryIn(v, a) \in Seq(Entries)
         /\ Len(HistoryIn(v, a)) = Closed(r)
         /\ \A n \in 1..Closed(r) :
              HistoryIn(v, a)[n] = [text |-> v[n].text, verdict |-> a[n].status]
<1> DEFINE k == Closed(r)
           h == [n \in 1..k |-> [text |-> v[n].text, verdict |-> a[n].status]]
<1>1. /\ k \in Nat /\ 1..k \subseteq Numbers
      /\ {m \in Numbers : a[m].status \in Verdicts} = 1..k
  BY ClosedVersions
<1>2. Cardinality(1..k) = k
  BY <1>1, FS_Interval
<1>3. HistoryIn(v, a) = h
  BY <1>1, <1>2 DEF HistoryIn
<1>4. \A n \in 1..k : [text |-> v[n].text, verdict |-> a[n].status] \in Entries
  <2>1. TAKE n \in 1..k
  <2>2. v[n].text \in Texts \cup {NoText}
    BY <1>1 DEF Good, Typed, VersionRow
  <2>3. a[n].status \in Verdicts
    BY <1>1
  <2> QED
    BY <2>2, <2>3 DEF Entries
<1> HIDE DEF k
<1>5. h \in [1..k -> Entries]
  BY <1>4
<1>6. h \in Seq(Entries) /\ Len(h) = k
  <2> HIDE DEF h
  <2> QED
    BY <1>1, <1>5
<1> QED
  BY <1>3, <1>6 DEF k

\* Rows that agree on the decided versions have the same history.
LEMMA SameHistory ==
  ASSUME NEW r, NEW v, NEW a, Good(r, v, a), NEW s, NEW w, NEW b, Good(s, w, b),
         Closed(s) = Closed(r),
         \A n \in 1..Closed(r) : w[n].text = v[n].text /\ b[n].status = a[n].status
  PROVE  HistoryIn(w, b) = HistoryIn(v, a)
<1> DEFINE k == Closed(r)
<1>1. {m \in Numbers : a[m].status \in Verdicts} = 1..k
  BY ClosedVersions
<1>2. {m \in Numbers : b[m].status \in Verdicts} = 1..k
  BY ClosedVersions
<1>3. Cardinality(1..k) = k /\ k \in Nat
  BY ClosedVersions, FS_Interval
<1> QED
  BY <1>1, <1>2, <1>3 DEF HistoryIn

\* One more decided version extends the history.
LEMMA LongerHistory ==
  ASSUME NEW r, NEW v, NEW a, Good(r, v, a), NEW s, NEW w, NEW b, Good(s, w, b),
         Closed(s) = Closed(r) + 1,
         \A n \in 1..Closed(r) : w[n].text = v[n].text /\ b[n].status = a[n].status
  PROVE  HistoryIn(w, b) = Append(HistoryIn(v, a), [text |-> w[Closed(s)].text,
                                                   verdict |-> b[Closed(s)].status])
<1> DEFINE k == Closed(r)
           g == HistoryIn(v, a)
           h == HistoryIn(w, b)
           e == [text |-> w[Closed(s)].text, verdict |-> b[Closed(s)].status]
<1>1. /\ k \in Nat /\ g \in Seq(Entries) /\ Len(g) = k
      /\ \A n \in 1..k : g[n] = [text |-> v[n].text, verdict |-> a[n].status]
  <2>1. k \in Nat
    BY ClosedVersions
  <2> QED
    BY <2>1, HistoryIsSequence
<1>2. /\ h \in Seq(Entries) /\ Len(h) = k + 1
      /\ \A n \in 1..(k + 1) : h[n] = [text |-> w[n].text, verdict |-> b[n].status]
  BY HistoryIsSequence
<1>3. h[k + 1] = e /\ e \in Entries
  <2>1. k + 1 \in 1..(k + 1)
    BY <1>1
  <2>2. h[k + 1] \in Entries
    BY <1>2, <2>1
  <2> QED
    BY <1>2, <2>1, <2>2
<1>4. \A n \in 1..k : h[n] = g[n]
  BY <1>1, <1>2
<1> HIDE DEF g, h, e, k
<1>5. h = Append(g, e)
  BY <1>1, <1>2, <1>3, <1>4
<1> QED
  BY <1>5 DEF g, h, e

\* A commit on one log changes what the record says of that log only.
LEMMA MappedCommit ==
  ASSUME IInv, NEW p, NEW l, CommitOn(p, l)
  PROVE  /\ StageOf' = [StageOf EXCEPT ![l] = log'[l].status]
         /\ TextOf' = [TextOf EXCEPT ![l] = TextIn(log'[l], version'[l])]
         /\ HistoryOf' = [HistoryOf EXCEPT ![l] = HistoryIn(version'[l], approval'[l])]
<1>1. \A k \in Logs : k # l => /\ log'[k] = log[k]
                               /\ version'[k] = version[k]
                               /\ approval'[k] = approval[k]
  BY DEF CommitOn, IInv, TypeOK
<1>2. StageOf' = [StageOf EXCEPT ![l] = log'[l].status]
  BY <1>1 DEF StageOf
<1>3. TextOf' = [TextOf EXCEPT ![l] = TextIn(log'[l], version'[l])]
  <2>1. \A k \in Logs : TextOf[k] = TextIn(log[k], version[k])
    BY DEF TextOf
  <2>2. TextOf' = [k \in Logs |-> TextIn(log'[k], version'[k])]
    BY DEF TextOf, TextIn
  <2>3. TextOf' = [k \in Logs |-> IF k = l THEN TextIn(log'[l], version'[l]) ELSE TextOf[k]]
    BY <1>1, <2>1, <2>2
  <2> QED
    BY <2>3 DEF TextOf
<1>4. HistoryOf' = [HistoryOf EXCEPT ![l] = HistoryIn(version'[l], approval'[l])]
  <2>1. \A k \in Logs : HistoryOf[k] = HistoryIn(version[k], approval[k])
    BY DEF HistoryOf
  <2>2. HistoryOf' = [k \in Logs |-> HistoryIn(version'[k], approval'[k])]
    BY DEF HistoryOf, HistoryIn
  <2>3. HistoryOf' = [k \in Logs |-> IF k = l THEN HistoryIn(version'[l], approval'[l])
                                     ELSE HistoryOf[k]]
    BY <1>1, <2>1, <2>2
  <2> QED
    BY <2>3 DEF HistoryOf
<1> QED
  BY <1>2, <1>3, <1>4

\* The names of the record, written out.
LEMMA RecordNames ==
  /\ \A l \in Logs : \A from, t :
       Record!Write(l, from, t) <=>
         /\ StageOf[l] = from
         /\ StageOf' = [StageOf EXCEPT ![l] = "DRAFT"]
         /\ TextOf' = [TextOf EXCEPT ![l] = t]
         /\ HistoryOf' = HistoryOf
  /\ \A l \in Logs :
       Record!Submit(l) <=>
         /\ StageOf[l] = "DRAFT"
         /\ StageOf' = [StageOf EXCEPT ![l] = "SUBMITTED"]
         /\ TextOf' = TextOf /\ HistoryOf' = HistoryOf
  /\ \A l \in Logs, verdict \in Verdicts :
       Record!Decide(l, verdict) <=>
         /\ StageOf[l] = "SUBMITTED"
         /\ StageOf' = [StageOf EXCEPT ![l] = verdict]
         /\ HistoryOf' = [HistoryOf EXCEPT
              ![l] = Append(@, [text |-> TextOf[l], verdict |-> verdict])]
         /\ TextOf' = TextOf
  /\ (UNCHANGED Record!recordVars) <=> UNCHANGED <<StageOf, TextOf, HistoryOf>>
BY DEF Record!Write, Record!Submit, Record!Decide, Record!recordVars, StageOf, TextOf, TextIn,
       HistoryOf, HistoryIn, Decided

\* A commit that leaves a draft with its history: the author has written.
LEMMA RecordWrites ==
  ASSUME IInv, NEW p, NEW l, CommitOn(p, l), log'[l].status = "DRAFT",
         HistoryIn(version'[l], approval'[l]) = HistoryIn(version[l], approval[l])
  PROVE  \A from, t : from = log[l].status /\ t = TextIn(log'[l], version'[l])
                       => Record!Write(l, from, t)
<1>1. l \in Logs /\ StageOf[l] = log[l].status
  BY DEF CommitOn, StageOf
<1>2. HistoryOf' = HistoryOf
  <2>1. HistoryOf' = [HistoryOf EXCEPT ![l] = HistoryIn(version[l], approval[l])]
    BY MappedCommit
  <2> QED
    BY <1>1, <2>1 DEF HistoryOf
<1> QED
  BY <1>1, <1>2, MappedCommit, RecordNames

\* createDraft is Create: nothing has been decided yet.
LEMMA CreateIsCreate ==
  ASSUME IInv, NEW p \in Requests, NEW l \in Logs, CreateCommit(p, l)
  PROVE  \E t \in Texts : Record!Create(l, t)
<1>1. CommitOn(p, l)
  BY CreateCommits
<1>2. PICK t \in Texts : t = req[p].text
  BY JobOf DEF IInv, CreateCommit, CreateJob
<1>3. /\ log[l] = NoLog /\ log'[l].status = "DRAFT" /\ log'[l].current = 1
      /\ version'[l][1] = [text |-> t, frozen |-> FALSE]
  <2>1. 1 \in Numbers
    BY WorkLogsAssumption DEF Numbers
  <2> QED
    BY <1>2, <2>1 DEF CreateCommit, IInv, TypeOK
<1>4. Closed(log[l]) = 0 /\ Closed(log'[l]) = 0
  BY <1>3 DEF Closed, NoLog, Verdicts
<1>5. HistoryIn(version'[l], approval'[l]) = HistoryIn(version[l], approval[l])
  <2>1. Good(log[l], version[l], approval[l]) /\ Good(log'[l], version'[l], approval'[l])
    BY <1>1, GoodRows DEF CommitOn
  <2> QED
    BY <1>4, <2>1, SameHistory
<1>6. TextIn(log'[l], version'[l]) = t /\ log[l].status = "ABSENT"
  BY <1>3 DEF TextIn, NoLog
<1>7. Record!Write(l, "ABSENT", t)
  BY <1>1, <1>3, <1>5, <1>6, RecordWrites
<1> QED
  BY <1>7 DEF Record!Create

\* updateDraft is Edit: the decided versions are before the current one.
LEMMA EditIsEdit ==
  ASSUME IInv, NEW p \in Requests, EditCommit(p)
  PROVE  \E l \in Logs, t \in Texts : Record!Edit(l, t)
<1>1. req[p] \in EditJob
  BY JobOf DEF IInv, EditCommit
<1>2. PICK l \in Logs, n \in Numbers, t \in Texts :
        l = req[p].log /\ n = req[p].current /\ t = req[p].text
  BY <1>1 DEF EditJob
<1>3. CommitOn(p, l) /\ n \in Nat /\ n # 0
  BY <1>2, EditCommits DEF Numbers
<1>4. /\ log[l].status = "DRAFT" /\ log[l].current = n
      /\ log'[l].status = "DRAFT" /\ log'[l].current = n
  BY <1>2, <1>3 DEF EditCommit, EditWhere, Owned, IInv, TypeOK, LogRow
<1>5. /\ version'[l][n].text = t
      /\ \A m \in Numbers : m # n => version'[l][m] = version[l][m]
      /\ approval' = approval
  BY <1>2, <1>3 DEF EditCommit, IInv, TypeOK, VersionRow
<1>6. Good(log[l], version[l], approval[l]) /\ Good(log'[l], version'[l], approval'[l])
  BY <1>3, GoodRows DEF CommitOn
<1>7. Closed(log[l]) = n - 1 /\ Closed(log'[l]) = n - 1
  BY <1>3, <1>4 DEF Closed, Verdicts
<1>8. HistoryIn(version'[l], approval'[l]) = HistoryIn(version[l], approval[l])
  <2>1. \A m \in 1..(n - 1) : m \in Numbers /\ m # n
    BY <1>3, WorkLogsAssumption DEF Numbers
  <2> QED
    BY <1>5, <1>6, <1>7, <2>1, SameHistory
<1>9. TextIn(log'[l], version'[l]) = t
  BY <1>3, <1>4, <1>5 DEF TextIn
<1>10. Record!Write(l, "DRAFT", t)
  BY <1>3, <1>4, <1>8, <1>9, RecordWrites
<1> QED
  BY <1>10 DEF Record!Edit

\* addVersion is Revise: the returned version stays in the history, the draft is not in it.
LEMMA ReviseIsRevise ==
  ASSUME IInv, NEW p \in Requests, ReviseCommit(p)
  PROVE  \E l \in Logs, t \in Texts : Record!Revise(l, t)
<1>1. req[p] \in ReviseJob /\ SnapshotHolds(p)
  BY JobOf DEF IInv, InFlight, ReviseCommit
<1>2. PICK l \in Logs, n \in 0..MaxVersion, t \in Texts :
        l = req[p].log /\ n = req[p].number /\ t = req[p].text
  BY <1>1 DEF ReviseJob
<1>3. CommitOn(p, l)
  BY <1>2, ReviseCommits
<1>4. log[l].status = "RETURNED" /\ n = log[l].current + 1
  BY <1>1, <1>2 DEF ReviseCommit, ReviseSerializable, SnapshotHolds, Owned
<1>5. Good(log[l], version[l], approval[l]) /\ Good(log'[l], version'[l], approval'[l])
  BY <1>3, GoodRows DEF CommitOn
<1>6. log'[l].status = "DRAFT" /\ log'[l].current = n
  BY <1>2, <1>3 DEF ReviseCommit, IInv, TypeOK, LogRow
<1>7. n \in Numbers /\ log[l].current \in Numbers /\ n \in Nat /\ n > 1
  <2>1. log'[l].current \in Numbers
    <3>1. log'[l] # NoLog
      BY <1>6 DEF NoLog
    <3> QED
      BY <1>5, <3>1 DEF Good, Agree, Chain, Present
  <2>2. log[l].current \in Numbers
    BY <1>3, <1>4, Live
  <2> QED
    BY <1>4, <1>6, <2>1, <2>2 DEF Numbers
<1>8. /\ version'[l][n] = [text |-> t, frozen |-> FALSE]
      /\ \A m \in Numbers : m # n => version'[l][m] = version[l][m]
      /\ approval' = approval
  BY <1>2, <1>3, <1>7 DEF ReviseCommit, IInv, TypeOK
<1>9. Closed(log[l]) = n - 1 /\ Closed(log'[l]) = n - 1
  BY <1>4, <1>6, <1>7 DEF Closed, Verdicts, Numbers
<1>10. HistoryIn(version'[l], approval'[l]) = HistoryIn(version[l], approval[l])
  <2>1. \A m \in 1..(n - 1) : m \in Numbers /\ m # n
    BY <1>7, WorkLogsAssumption DEF Numbers
  <2> QED
    BY <1>5, <1>8, <1>9, <2>1, SameHistory
<1>11. TextIn(log'[l], version'[l]) = t
  BY <1>6, <1>7, <1>8 DEF TextIn
<1>12. Record!Write(l, "RETURNED", t)
  BY <1>3, <1>4, <1>6, <1>10, <1>11, RecordWrites
<1> QED
  BY <1>12 DEF Record!Revise

\* submit is Submit: freezing changes no text, and the new request is undecided.
LEMMA SubmitIsSubmit ==
  ASSUME IInv, NEW p \in Requests, SubmitCommit(p)
  PROVE  \E l \in Logs : Record!Submit(l)
<1> DEFINE l == req[p].log
           n == req[p].current
<1>1. CommitOn(p, l)
  BY SubmitCommits
<1>2. req[p] \in SubmitJob /\ SubmitHoldsRow(p) /\ At(p, "submit.commit")
  BY JobOf DEF IInv, InFlight, SubmitCommit
<1>3. l \in Logs /\ n \in Numbers /\ n \in Nat /\ n # 0
  BY <1>2 DEF SubmitJob, Numbers
<1>4. log[l].status = "DRAFT" /\ log[l].current = n
  BY <1>2 DEF SubmitHoldsRow, Owned
<1>5. log'[l].status = "SUBMITTED" /\ log'[l].current = n
  BY <1>3, <1>4 DEF SubmitCommit, IInv, TypeOK, LogRow
<1>6. \A m \in Numbers : version'[l][m].text = version[l][m].text
  <2>1. version'[l] = Freeze(l)
    BY <1>3 DEF SubmitCommit, IInv, TypeOK
  <2> QED
    BY <1>3, <2>1 DEF Freeze, IInv, TypeOK, VersionRow
<1>7. \A m \in Numbers : m # n => approval'[l][m] = approval[l][m]
  BY <1>3 DEF SubmitCommit, IInv, TypeOK
<1>8. Good(log[l], version[l], approval[l]) /\ Good(log'[l], version'[l], approval'[l])
  BY <1>1, GoodRows DEF CommitOn
<1> HIDE DEF l, n
<1>9. Closed(log[l]) = n - 1 /\ Closed(log'[l]) = n - 1
  BY <1>3, <1>4, <1>5 DEF Closed, Verdicts
<1>10. HistoryIn(version'[l], approval'[l]) = HistoryIn(version[l], approval[l])
  <2>1. \A m \in 1..(n - 1) : m \in Numbers /\ m # n
    BY <1>3, WorkLogsAssumption DEF Numbers
  <2> QED
    BY <1>6, <1>7, <1>8, <1>9, <2>1, SameHistory
<1>11. HistoryOf' = HistoryOf
  <2>1. HistoryOf' = [HistoryOf EXCEPT ![l] = HistoryIn(version[l], approval[l])]
    BY <1>1, <1>10, MappedCommit DEF l
  <2> QED
    BY <1>3, <2>1 DEF HistoryOf
<1>12. TextOf' = TextOf
  <2>1. TextIn(log'[l], version'[l]) = TextOf[l]
    BY <1>3, <1>4, <1>5, <1>6 DEF TextIn, TextOf
  <2>2. TextOf' = [TextOf EXCEPT ![l] = TextOf[l]]
    BY <1>1, <2>1, MappedCommit DEF l
  <2> QED
    BY <1>3, <2>2 DEF TextOf
<1>13. StageOf' = [StageOf EXCEPT ![l] = "SUBMITTED"] /\ StageOf[l] = "DRAFT"
  BY <1>1, <1>3, <1>4, <1>5, MappedCommit DEF l, StageOf
<1> QED
  BY <1>3, <1>11, <1>12, <1>13, RecordNames

\* decide is Decide: the history gets the text that was submitted, with the verdict.
LEMMA DecideIsDecide ==
  ASSUME IInv, NEW p \in Requests, DecideCommit(p)
  PROVE  \E l \in Logs, verdict \in Verdicts : Record!Decide(l, verdict)
<1> DEFINE l == req[p].log
           n == req[p].current
           verdict == req[p].verdict
<1>1. CommitOn(p, l)
  BY DecideCommits
<1>2. req[p] \in DecideJob
  BY JobOf DEF IInv, DecideCommit
<1>3. l \in Logs /\ n \in Numbers /\ n \in Nat /\ n # 0 /\ verdict \in Verdicts
  BY <1>2 DEF DecideJob, Numbers
<1>4. log[l].status = "SUBMITTED" /\ log[l].current = n
  BY DEF DecideCommit, AdvanceWhere
<1>5. log'[l].status = verdict /\ log'[l].current = n
  BY <1>3, <1>4 DEF DecideCommit, IInv, TypeOK, LogRow
<1>6. version' = version
  BY DEF DecideCommit
<1>7. /\ \A m \in Numbers : m # n => approval'[l][m] = approval[l][m]
      /\ approval'[l][n].status = verdict
  BY <1>3 DEF DecideCommit, IInv, TypeOK, ApprovalRow
<1>8. Good(log[l], version[l], approval[l]) /\ Good(log'[l], version'[l], approval'[l])
  BY <1>1, GoodRows DEF CommitOn
<1> HIDE DEF l, n, verdict
<1>9. Closed(log[l]) = n - 1 /\ Closed(log'[l]) = n
  BY <1>3, <1>4, <1>5 DEF Closed, Verdicts
<1> DEFINE entry == [text |-> TextOf[l], verdict |-> verdict]
<1>10. HistoryIn(version'[l], approval'[l]) = Append(HistoryIn(version[l], approval[l]), entry)
  <2>1. \A m \in 1..(n - 1) : m \in Numbers /\ m # n
    BY <1>3, WorkLogsAssumption DEF Numbers
  <2>2. n = (n - 1) + 1
    BY <1>3
  <2>3. HistoryIn(version'[l], approval'[l])
          = Append(HistoryIn(version[l], approval[l]),
                   [text |-> version'[l][n].text, verdict |-> approval'[l][n].status])
    <3>1. \A m \in 1..Closed(log[l]) : /\ version'[l][m].text = version[l][m].text
                                       /\ approval'[l][m].status = approval[l][m].status
      BY <1>6, <1>7, <1>9, <2>1
    <3> QED
      BY <1>8, <1>9, <2>2, <3>1, LongerHistory
  <2>4. TextOf[l] = version[l][n].text
    BY <1>3, <1>4 DEF TextOf, TextIn
  <2> QED
    BY <1>6, <1>7, <2>3, <2>4
<1>11. HistoryOf' = [HistoryOf EXCEPT ![l] = Append(@, entry)]
  <2>1. HistoryOf' = [HistoryOf EXCEPT ![l] = HistoryIn(version'[l], approval'[l])]
    BY <1>1, MappedCommit DEF l
  <2>2. HistoryOf[l] = HistoryIn(version[l], approval[l])
    BY <1>3 DEF HistoryOf
  <2> HIDE DEF entry
  <2> QED
    BY <1>10, <2>1, <2>2
<1>12. TextOf' = TextOf
  <2>1. TextIn(log'[l], version'[l]) = TextOf[l]
    BY <1>3, <1>4, <1>5, <1>6 DEF TextIn, TextOf
  <2>2. TextOf' = [TextOf EXCEPT ![l] = TextOf[l]]
    BY <1>1, <2>1, MappedCommit DEF l
  <2> QED
    BY <1>3, <2>2 DEF TextOf
<1>13. StageOf' = [StageOf EXCEPT ![l] = verdict] /\ StageOf[l] = "SUBMITTED"
  BY <1>1, <1>3, <1>4, <1>5, MappedCommit DEF l, StageOf
<1> QED
  BY <1>3, <1>11, <1>12, <1>13, RecordNames

\* setVisibility leaves the record alone.
LEMMA VisibilityIsSilent ==
  ASSUME IInv, NEW p \in Requests, VisibilityCommit(p)
  PROVE  UNCHANGED <<StageOf, TextOf, HistoryOf>>
<1>1. \A l \in Logs : log'[l].status = log[l].status /\ log'[l].current = log[l].current
  BY DEF VisibilityCommit, IInv, TypeOK, LogRow
<1>2. UNCHANGED <<version, approval>>
  BY DEF VisibilityCommit
<1> QED
  BY <1>1, <1>2 DEF StageOf, TextOf, TextIn, HistoryOf, HistoryIn

LEMMA RecordInit == Init => Record!Init
<1>1. SUFFICES ASSUME Init PROVE Record!Init
  OBVIOUS
<1>2. \A l \in Logs : log[l] = NoLog
  BY <1>1 DEF Init, LogInit
<1>3. \A l \in Logs : Decided(l) = {}
  BY <1>1 DEF Init, LogInit, Decided, NoApproval, Verdicts
<1>4. \A l \in Logs : [n \in 1..Cardinality(Decided(l)) |->
                         [text |-> version[l][n].text, verdict |-> approval[l][n].status]] = <<>>
  <2>1. Cardinality({}) = 0 /\ 1..0 = {}
    BY FS_EmptySet
  <2> QED
    BY <1>3, <2>1
<1> QED
  BY <1>2, <1>4 DEF Record!Init, NoLog

\* What leaves the rows alone leaves the record alone.
LEMMA SameRowsSameRecord ==
  ASSUME UNCHANGED <<log, version, approval>>
  PROVE  UNCHANGED <<StageOf, TextOf, HistoryOf>>
BY DEF StageOf, TextOf, TextIn, HistoryOf, HistoryIn

LEMMA RecordStep ==
  ASSUME IInv, [Next]_vars
  PROVE  [Record!Next]_(Record!recordVars)
<1>1. ASSUME NEW p \in Requests, Writes(p)
      PROVE  Record!Next \/ UNCHANGED <<StageOf, TextOf, HistoryOf>>
  BY <1>1, CreateIsCreate, EditIsEdit, VisibilityIsSilent, ReviseIsRevise, SubmitIsSubmit,
     DecideIsDecide
  DEF Writes, Record!Next, Record!Verdicts, Verdicts
<1> QED
  BY <1>1, SameRowsSameRecord, StepShape, RecordNames

\* Every behaviour of the services is one of the review record: the initial states are its
\* initial states, and each step is one of its steps or changes nothing of it.
THEOREM ServicesKeepTheRecord == Spec => ImplementsReviewRecord
<1>1. IInv /\ [Next]_vars => [Record!Next]_(Record!recordVars)
  BY RecordStep
<1> QED
  BY <1>1, RecordInit, Invariance, PTL DEF Spec, ImplementsReviewRecord, Record!Spec

-----------------------------------------------------------------------------
(***************************************************************************)
(* Attachments.  What the requests and jobs in flight rely on: a locked    *)
(* row stays as the submission found it, the row of an upload is there and *)
(* untried, and while the API starts nothing else is going on.             *)
(***************************************************************************)
FullRow ==
  {r \in AttachmentRow : r.state # "ABSENT" /\ (r.state # "ACTIVE" => r.bound = 0)}

AttTypes ==
  /\ att \in [Attachments -> {NoAttachment} \cup FullRow]
  /\ job \in [Attachments -> {Idle} \cup AttachmentJob]
  /\ rebound \in [Requests -> {NotYet} \cup SUBSET Attachments]
  /\ boot \subseteq Attachments

JobMatchesRow(j, r) ==
  /\ j.pc = "upload.insert" => r = NoAttachment
  /\ j.pc \in {"upload.publish", "upload.activate"} => r.state = "PENDING" /\ r.attempts = 0

JobsMatchRows == \A a \in Attachments : JobMatchesRow(job[a], att[a])

StartIsQuiet ==
  /\ \A a \in boot : /\ att[a].state = "PENDING" \/ (att[a].state = "ARCHIVED" /\ ~att[a].removed)
                     /\ att[a].attempts < CleanupAttempts
  /\ ~Up => /\ \A p \in Requests : req[p] = Idle
            /\ \A a \in Attachments : job[a] = Idle

ReboundIsLocked ==
  \A p \in Requests : rebound[p] # NotYet =>
    At(p, "submit.commit") /\ rebound[p] \subseteq Unbound(req[p].log)

AttIInv ==
  /\ IInv
  /\ AttTypes
  /\ JobsMatchRows
  /\ StartIsQuiet
  /\ ReboundIsLocked
  /\ BoundToSubmittedVersion

\* Every step of the composition is a step of WorkLogs on its variables, or a restart.
LEMMA AttStepShape ==
  ASSUME [AttNext]_allVars
  PROVE  [Next]_vars \/ Restart
<1>1. CASE LogStep
  BY <1>1 DEF LogStep, Next
<1>2. ASSUME NEW p \in Requests, SubmitRebind(p) \/ SubmitCommitBound(p) \/ RequestRollsBack(p)
      PROVE  [Next]_vars
  BY <1>2 DEF SubmitRebind, SubmitCommitBound, RequestRollsBack, Next
<1>3. ASSUME NEW a \in Attachments, AttachmentStep(a)
      PROVE  UNCHANGED vars
  BY <1>3 DEF AttachmentStep, UploadRead, ArchiveRead, UploadInsert, UploadPublish,
              UploadActivate, UploadFails, ArchiveCommit, Recover, Remove, StartFails
<1>4. CASE UNCHANGED allVars
  BY <1>4 DEF allVars
<1> QED
  BY <1>1, <1>2, <1>3, <1>4 DEF AttNext

\* What is said of the logs survives: a restart only drops the requests.
LEMMA AttKeepsIInv ==
  ASSUME IInv, [AttNext]_allVars
  PROVE  IInv'
<1>1. CASE Restart
  <2>1. UNCHANGED <<accessVars, log, version, approval>> /\ req' = [p \in Requests |-> Idle]
    BY <1>1 DEF Restart
  <2>2. TypeOK'
    BY <2>1 DEF IInv, TypeOK, AccessTypeOK, accessVars
  <2>3. InFlight'
    BY <2>1 DEF InFlight, SubmitHoldsRow, SnapshotHolds, RevisionOvertaken, NoSelfSubmission,
                At, Idle
  <2> QED
    BY <2>1, <2>2, <2>3, SameRows DEF IInv
<1> QED
  BY <1>1, NextIInv, AttStepShape

\* A version that was submitted stays so.
LEMMA SubmittedStays ==
  ASSUME IInv, [AttNext]_allVars, NEW l \in Logs, NEW n \in Numbers
  PROVE  /\ version[l][n].frozen => version'[l][n].frozen
         /\ approval[l][n].status # "NONE" => approval'[l][n].status # "NONE"
<1>1. CASE UNCHANGED <<log, version, approval>>
  BY <1>1
<1>2. ASSUME NEW p \in Requests, Writes(p)
      PROVE  /\ version[l][n].frozen => version'[l][n].frozen
             /\ approval[l][n].status # "NONE" => approval'[l][n].status # "NONE"
  <2>1. version[l][n].frozen => version'[l][n].frozen
    BY <1>2, CommitRespectsGuards DEF VersionGuardPasses
  <2>2. CASE SubmitCommit(p)
    <3>1. approval'[l][n] = approval[l][n] \/ approval'[l][n].status = "PENDING"
      BY <2>2 DEF SubmitCommit, IInv, TypeOK
    <3> QED
      BY <2>1, <3>1
  <2>3. CASE DecideCommit(p)
    <3>1. req[p].verdict \in Verdicts
      BY <2>3, JobOf DEF DecideCommit, IInv, DecideJob
    <3>2. CASE l = req[p].log /\ n = req[p].current
      <4>1. approval'[l][n].status = req[p].verdict
        BY <2>3, <3>2 DEF DecideCommit, IInv, TypeOK, ApprovalRow
      <4> QED
        BY <2>1, <3>1, <4>1 DEF Verdicts
    <3>3. CASE ~(l = req[p].log /\ n = req[p].current)
      BY <2>1, <2>3, <3>3 DEF DecideCommit, IInv, TypeOK
    <3> QED
      BY <3>2, <3>3
  <2>4. CASE approval' = approval
    BY <2>1, <2>4
  <2> QED
    BY <1>2, <2>2, <2>3, <2>4
    DEF Writes, CreateCommit, EditCommit, VisibilityCommit, ReviseCommit
<1>3. CASE Restart
  BY <1>3 DEF Restart
<1> QED
  BY <1>1, <1>2, <1>3, AttStepShape, StepShape

\* A step of one attachment replaces its row and its job.  It does not touch a row that is
\* locked or bound, binds none, activates none that is archived or has been given up, and
\* leaves an archived one whose file is removed as it is.
RowStep(a, r, j) ==
  /\ att' = [att EXCEPT ![a] = r] /\ r \in {NoAttachment} \cup FullRow
  /\ job' = [job EXCEPT ![a] = j] /\ j \in {Idle} \cup AttachmentJob
  /\ JobMatchesRow(j, r)
  /\ r = att[a] \/ ~RowLocked(a)
  /\ r # NoAttachment /\ r.bound # 0 => r = att[a]
  /\ att[a].state = "ACTIVE" /\ att[a].bound # 0 => r = att[a]
  /\ att[a].state = "ARCHIVED" =>
       /\ r.state = "ARCHIVED" /\ r.bound = att[a].bound
       /\ att[a].removed => r = att[a]
  /\ att[a].state = "PENDING" /\ att[a].attempts = CleanupAttempts => r.state # "ACTIVE"
  /\ UNCHANGED <<vars, rebound>>

\* Such a step keeps everything but, perhaps, what is said of the start.
LEMMA RowStepKeeps ==
  ASSUME AttIInv, [AttNext]_allVars, NEW a \in Attachments, NEW r, NEW j, RowStep(a, r, j),
         boot' \subseteq boot
  PROVE  IInv' /\ AttTypes' /\ JobsMatchRows' /\ ReboundIsLocked' /\ BoundToSubmittedVersion'
<1>1. \A b \in Attachments : /\ att'[b] = IF b = a THEN r ELSE att[b]
                             /\ job'[b] = IF b = a THEN j ELSE job[b]
  BY DEF RowStep, AttIInv, AttTypes
<1>2. IInv'
  BY AttKeepsIInv DEF AttIInv
<1>3. AttTypes'
  BY DEF RowStep, AttIInv, AttTypes
<1>4. JobsMatchRows'
  BY <1>1 DEF RowStep, AttIInv, JobsMatchRows
<1>5. ReboundIsLocked'
  <2>1. SUFFICES ASSUME NEW p \in Requests, rebound[p] # NotYet, NEW b \in rebound[p]
                 PROVE  At(p, "submit.commit") /\ b \in Attachments /\ att'[b] = att[b]
    BY DEF ReboundIsLocked, RowStep, AttIInv, vars, At, Unbound
  <2>2. b \in Attachments /\ At(p, "submit.commit")
    BY <2>1 DEF AttIInv, AttTypes, ReboundIsLocked
  <2>3. RowLocked(b)
    BY <2>1 DEF RowLocked
  <2> QED
    BY <1>1, <2>2, <2>3 DEF RowStep
<1>6. BoundToSubmittedVersion'
  BY <1>1 DEF RowStep, AttIInv, BoundToSubmittedVersion, vars
<1> QED
  BY <1>2, <1>3, <1>4, <1>5, <1>6

\* What the actions of an attachment do to its row and its job; only a start that is
\* under way keeps its list, and only a recovery shortens it.
AttachmentEffect(a) ==
  /\ \E r, j : RowStep(a, r, j)
  /\ \/ boot' = boot /\ job[a] # Idle
     \/ boot' = boot /\ Up
     \/ boot' = boot \ {a} /\ job' = job /\ ~Up

LEMMA AttachmentSteps ==
  ASSUME AttIInv, NEW a \in Attachments, AttachmentStep(a)
  PROVE  AttachmentEffect(a)
<1>0. /\ att[a] \in {NoAttachment} \cup FullRow /\ job[a] \in {Idle} \cup AttachmentJob
      /\ JobMatchesRow(job[a], att[a])
      /\ att = [b \in Attachments |-> att[b]] /\ job = [b \in Attachments |-> job[b]]
      /\ NoAttachment.state = "ABSENT" /\ Idle.pc = "idle"
  BY DEF AttIInv, AttTypes, JobsMatchRows, NoAttachment, Idle
<1>1. ASSUME NEW r, NEW j, RowStep(a, r, j),
             \/ boot' = boot /\ job[a] # Idle
             \/ boot' = boot /\ Up
             \/ boot' = boot \ {a} /\ job' = job /\ ~Up
      PROVE  AttachmentEffect(a)
  BY <1>1 DEF AttachmentEffect
<1>2. att[a].state # "ACTIVE" => ~RowLocked(a)
  BY DEF RowLocked, AttIInv, ReboundIsLocked, Unbound
<1>3. ASSUME NEW u \in Users, NEW l \in Logs, UploadRead(a, u, l)
      PROVE  AttachmentEffect(a)
  <2> DEFINE j == [pc |-> "upload.insert", user |-> u, log |-> l]
  <2>1. j \in AttachmentJob /\ JobMatchesRow(j, att[a])
    BY <1>3 DEF AttachmentJob, JobMatchesRow, UploadRead
  <2>2. RowStep(a, att[a], j)
    BY <1>0, <1>3, <2>1 DEF UploadRead, RowStep
  <2> QED
    BY <1>1, <1>3, <2>2 DEF UploadRead
<1>4. ASSUME NEW u \in Users, NEW l \in Logs, ArchiveRead(a, u, l)
      PROVE  AttachmentEffect(a)
  <2> DEFINE j == [pc |-> "archive.write", user |-> u, log |-> l]
  <2>1. j \in AttachmentJob /\ JobMatchesRow(j, att[a])
    BY DEF AttachmentJob, JobMatchesRow
  <2>2. RowStep(a, att[a], j)
    BY <1>0, <1>4, <2>1 DEF ArchiveRead, RowStep
  <2> QED
    BY <1>1, <1>4, <2>2 DEF ArchiveRead
<1>5. CASE UploadInsert(a)
  <2> DEFINE r == [state |-> "PENDING", log |-> job[a].log, user |-> job[a].user,
                   published |-> FALSE, bound |-> 0, attempts |-> 0, removed |-> FALSE]
             j == [job[a] EXCEPT !.pc = "upload.publish"]
  <2>1. job[a] \in AttachmentJob /\ job[a] # Idle /\ att[a] = NoAttachment
    BY <1>0, <1>5 DEF UploadInsert, JobMatchesRow
  <2>2. j \in AttachmentJob
    BY <2>1 DEF AttachmentJob
  <2>3. r \in FullRow
    BY <2>1, WorkLogsAssumption, AttachmentsAssumption DEF AttachmentJob, FullRow, AttachmentRow
  <2>4. JobMatchesRow(j, r)
    BY <2>1 DEF JobMatchesRow, AttachmentJob
  <2>5. ~RowLocked(a)
    BY <1>0, <1>2, <2>1
  <2>6. RowStep(a, r, j)
    BY <1>0, <1>5, <2>1, <2>2, <2>3, <2>4, <2>5 DEF UploadInsert, RowStep
  <2> QED
    BY <1>1, <1>5, <2>1, <2>6 DEF UploadInsert
<1>6. CASE UploadPublish(a)
  <2> DEFINE r == [att[a] EXCEPT !.published = TRUE]
             j == [job[a] EXCEPT !.pc = "upload.activate"]
  <2>1. job[a] \in AttachmentJob /\ job[a] # Idle
        /\ att[a].state = "PENDING" /\ att[a].attempts = 0 /\ att[a] \in FullRow
    BY <1>0, <1>6 DEF UploadPublish, JobMatchesRow
  <2>2. j \in AttachmentJob
    BY <2>1 DEF AttachmentJob
  <2>3. r \in FullRow /\ r.state = "PENDING" /\ r.attempts = 0 /\ r.bound = 0
    BY <2>1 DEF FullRow, AttachmentRow
  <2>4. JobMatchesRow(j, r)
    BY <2>1, <2>3 DEF JobMatchesRow, AttachmentJob
  <2>5. ~RowLocked(a)
    BY <1>2, <2>1
  <2>6. RowStep(a, r, j)
    BY <1>0, <1>6, <2>2, <2>3, <2>4, <2>5 DEF UploadPublish, RowStep
  <2> QED
    BY <1>1, <1>6, <2>1, <2>6 DEF UploadPublish
<1>7. CASE UploadActivate(a)
  <2> DEFINE r == [att[a] EXCEPT !.state = "ACTIVE"]
  <2>1. /\ job[a] # Idle /\ att[a].state = "PENDING" /\ att[a] \in FullRow /\ att[a].bound = 0
        /\ att[a].attempts # CleanupAttempts
    BY <1>0, <1>7, AttachmentsAssumption DEF UploadActivate, JobMatchesRow, FullRow
  <2>2. r \in FullRow /\ r.bound = 0
    BY <2>1 DEF FullRow, AttachmentRow
  <2>3. JobMatchesRow(Idle, r)
    BY <1>0 DEF JobMatchesRow
  <2>4. RowStep(a, r, Idle)
    BY <1>0, <1>2, <1>7, <2>1, <2>2, <2>3 DEF UploadActivate, RowStep, JobDone
  <2> QED
    BY <1>1, <1>7, <2>1, <2>4 DEF UploadActivate
<1>8. CASE UploadFails(a)
  <2>1. JobMatchesRow(Idle, att[a]) /\ JobMatchesRow(Idle, NoAttachment)
    BY <1>0 DEF JobMatchesRow
  <2>2. CASE UNCHANGED att
    <3>1. RowStep(a, att[a], Idle)
      BY <1>0, <1>8, <2>1, <2>2 DEF UploadFails, RowStep, JobDone
    <3> QED
      BY <1>1, <1>8, <3>1 DEF UploadFails
  <2>3. CASE job[a].pc = "upload.publish" /\ att' = [att EXCEPT ![a] = NoAttachment]
    <3>1. ~RowLocked(a) /\ att[a].state = "PENDING"
      BY <1>0, <1>2, <2>3 DEF JobMatchesRow
    <3>2. RowStep(a, NoAttachment, Idle)
      BY <1>0, <1>8, <2>1, <2>3, <3>1 DEF UploadFails, RowStep, JobDone
    <3> QED
      BY <1>1, <1>8, <3>2 DEF UploadFails
  <2>4. CASE /\ job[a].pc \in {"upload.publish", "upload.activate"}
             /\ att' = [att EXCEPT ![a].attempts = 1]
    <3> DEFINE r == [att[a] EXCEPT !.attempts = 1]
    <3>1. att[a].state = "PENDING" /\ att[a] \in FullRow
      BY <1>0, <2>4 DEF JobMatchesRow
    <3>2. r \in FullRow /\ r.bound = 0 /\ r.state = "PENDING"
      BY <3>1, AttachmentsAssumption DEF FullRow, AttachmentRow
    <3>3. JobMatchesRow(Idle, r) /\ ~RowLocked(a)
      BY <1>0, <1>2, <3>1 DEF JobMatchesRow
    <3>4. RowStep(a, r, Idle)
      BY <1>0, <1>8, <2>4, <3>1, <3>2, <3>3 DEF UploadFails, RowStep, JobDone
    <3> QED
      BY <1>1, <1>8, <3>4 DEF UploadFails
  <2> QED
    BY <1>8, <2>2, <2>3, <2>4 DEF UploadFails
<1>9. CASE ArchiveCommit(a)
  <2> DEFINE r == [[att[a] EXCEPT !.state = "ARCHIVED"] EXCEPT !.attempts = 0]
  <2>1. job[a] # Idle /\ att[a].state = "ACTIVE" /\ att[a] \in FullRow /\ att[a].bound = 0
    BY <1>0, <1>9 DEF ArchiveCommit, ArchiveWhere
  <2>2. r \in FullRow /\ r.bound = 0
    <3>1. 0 \in 0..CleanupAttempts
      BY AttachmentsAssumption
    <3>2. /\ r \in AttachmentRow /\ r.state = "ARCHIVED" /\ r.bound = att[a].bound
      BY <2>1, <3>1 DEF FullRow, AttachmentRow
    <3> QED
      BY <2>1, <3>2 DEF FullRow
  <2>3. JobMatchesRow(Idle, r)
    BY <1>0 DEF JobMatchesRow
  <2>4. att' = [att EXCEPT ![a] = r]
    BY <1>0, <1>9 DEF ArchiveCommit
  <2>5. RowStep(a, r, Idle)
    BY <1>0, <1>9, <2>1, <2>2, <2>3, <2>4 DEF ArchiveCommit, RowStep, JobDone
  <2> QED
    BY <1>1, <1>9, <2>1, <2>5 DEF ArchiveCommit
<1>10. ASSUME a \in boot
       PROVE  /\ att[a].state = "PENDING" \/ (att[a].state = "ARCHIVED" /\ ~att[a].removed)
              /\ att[a] \in FullRow /\ att[a].bound = 0 /\ att[a].state # "ACTIVE"
              /\ att[a].attempts < CleanupAttempts /\ att[a].attempts # CleanupAttempts
              /\ ~Up /\ job[a] = Idle /\ ~RowLocked(a) /\ job = [job EXCEPT ![a] = Idle]
  <2>1. /\ att[a].state = "PENDING" \/ (att[a].state = "ARCHIVED" /\ ~att[a].removed)
        /\ att[a].attempts < CleanupAttempts /\ ~Up
    BY <1>10 DEF AttIInv, StartIsQuiet, Up
  <2>2. att[a] \in FullRow /\ att[a].state # "ACTIVE"
    BY <1>0, <2>1
  <2> QED
    BY <1>0, <1>2, <2>1, <2>2, AttachmentsAssumption
    DEF AttIInv, StartIsQuiet, FullRow, AttachmentRow
<1>11. CASE Recover(a)
  <2> DEFINE r == [[att[a] EXCEPT !.state = "ACTIVE"] EXCEPT !.attempts = 0]
  <2>1. a \in boot /\ att[a].state = "PENDING"
    BY <1>11 DEF Recover, ActivateWhere
  <2>2. r \in FullRow /\ r.bound = 0
    <3>1. 0 \in 0..CleanupAttempts
      BY AttachmentsAssumption
    <3>2. /\ r \in AttachmentRow /\ r.state = "ACTIVE" /\ r.bound = att[a].bound
      BY <1>10, <2>1, <3>1 DEF FullRow, AttachmentRow
    <3> QED
      BY <1>10, <2>1, <3>2 DEF FullRow
  <2>3. JobMatchesRow(Idle, r)
    BY <1>0 DEF JobMatchesRow
  <2>4. att' = [att EXCEPT ![a] = r]
    BY <1>0, <1>11 DEF Recover
  <2>5. RowStep(a, r, Idle)
    BY <1>10, <1>11, <2>1, <2>2, <2>3, <2>4 DEF Recover, RowStep
  <2> QED
    BY <1>1, <1>10, <1>11, <2>1, <2>5 DEF Recover
<1>12. CASE StartFails(a)
  <2> DEFINE r == [att[a] EXCEPT !.attempts = @ + 1]
  <2>1. a \in boot
    BY <1>12 DEF StartFails
  <2>2. r \in FullRow /\ r.bound = 0 /\ r.state = att[a].state
    <3>1. att[a].attempts + 1 \in 0..CleanupAttempts
      BY <1>10, <2>1, AttachmentsAssumption DEF FullRow, AttachmentRow
    <3> QED
      BY <1>10, <2>1, <3>1 DEF FullRow, AttachmentRow
  <2>3. JobMatchesRow(Idle, r) /\ JobMatchesRow(Idle, att[a])
    BY <1>0 DEF JobMatchesRow
  <2>4. CASE att' = att
    <3>1. att' = [att EXCEPT ![a] = att[a]]
      BY <1>0, <2>4
    <3>2. RowStep(a, att[a], Idle)
      BY <1>10, <1>12, <2>1, <2>3, <3>1 DEF StartFails, RowStep
    <3> QED
      BY <1>1, <1>10, <1>12, <2>1, <3>2 DEF StartFails
  <2>5. CASE att' = [att EXCEPT ![a] = r]
    <3>1. RowStep(a, r, Idle)
      BY <1>10, <1>12, <2>1, <2>2, <2>3, <2>5 DEF StartFails, RowStep
    <3> QED
      BY <1>1, <1>10, <1>12, <2>1, <3>1 DEF StartFails
  <2>6. att' = att \/ att' = [att EXCEPT ![a] = r]
    BY <1>0, <1>12 DEF StartFails
  <2> QED
    BY <2>4, <2>5, <2>6
<1>13. CASE Remove(a)
  <2> DEFINE r == [att[a] EXCEPT !.removed = TRUE]
  <2>1. a \in boot /\ att[a].state = "ARCHIVED"
    BY <1>13 DEF Remove
  <2>2. r \in FullRow /\ r.bound = 0 /\ r.state = "ARCHIVED"
    BY <1>10, <2>1 DEF FullRow, AttachmentRow
  <2>3. JobMatchesRow(Idle, r)
    BY <1>0 DEF JobMatchesRow
  <2>4. att' = [att EXCEPT ![a] = r]
    BY <1>0, <1>13 DEF Remove
  <2>5. RowStep(a, r, Idle)
    BY <1>10, <1>13, <2>1, <2>2, <2>3, <2>4 DEF Remove, RowStep
  <2> QED
    BY <1>1, <1>10, <1>13, <2>1, <2>5 DEF Remove
<1> QED
  BY <1>3, <1>4, <1>5, <1>6, <1>7, <1>8, <1>9, <1>11, <1>12, <1>13
  DEF AttachmentStep

\* What a step of an attachment keeps includes the start.
LEMMA AttachmentStepKeeps ==
  ASSUME AttIInv, NEW a \in Attachments, AttachmentStep(a)
  PROVE  AttIInv'
<1>1. AttachmentEffect(a)
  BY AttachmentSteps
<1>2. PICK r, j : RowStep(a, r, j)
  BY <1>1 DEF AttachmentEffect
<1>3. boot' \subseteq boot
  BY <1>1 DEF AttachmentEffect
<1>4. IInv' /\ AttTypes' /\ JobsMatchRows' /\ ReboundIsLocked' /\ BoundToSubmittedVersion'
  BY <1>2, <1>3, RowStepKeeps DEF AttNext
<1>5. StartIsQuiet'
  <2>1. CASE boot' = boot /\ Up
    BY <2>1 DEF Up, StartIsQuiet
  <2>2. CASE boot' = boot /\ job[a] # Idle
    BY <2>1, <2>2 DEF AttIInv, StartIsQuiet
  <2>3. CASE boot' = boot \ {a} /\ job' = job /\ ~Up
    <3>1. \A b \in boot' : b # a /\ b \in boot /\ att'[b] = att[b]
      BY <1>2, <2>3 DEF RowStep, AttIInv, AttTypes
    <3> QED
      BY <1>2, <2>3, <3>1 DEF RowStep, AttIInv, StartIsQuiet, vars
  <2> QED
    BY <1>1, <2>1, <2>2, <2>3 DEF AttachmentEffect
<1> QED
  BY <1>4, <1>5 DEF AttIInv

\* Rows that do not change stay bound to what was submitted.
LEMMA SameRowsBound ==
  ASSUME AttIInv, [AttNext]_allVars, NEW a \in Attachments, att'[a] = att[a],
         att[a] # NoAttachment, att[a].bound # 0
  PROVE  /\ version'[att[a].log][att[a].bound].frozen
         /\ approval'[att[a].log][att[a].bound].status # "NONE"
<1>1. att[a] \in FullRow
  BY DEF AttIInv, AttTypes
<1>2. att[a].log \in Logs /\ att[a].bound \in Numbers
  BY <1>1, WorkLogsAssumption DEF FullRow, AttachmentRow, Numbers
<1> QED
  BY <1>2, SubmittedStays DEF AttIInv, BoundToSubmittedVersion

\* Accepting a request, or a statement of one, leaves a submission with its lock alone.
LEMMA LogStepKeepsLocks ==
  ASSUME AttIInv, LogStep, NEW p \in Requests, At(p, "submit.commit")
  PROVE  req'[p] = req[p]
<1>0. req = [q \in Requests |-> req[q]] /\ req[p] # Idle
  BY DEF AttIInv, IInv, TypeOK, At, Idle
<1>1. ASSUME NEW q \in Requests, NEW u \in Users, Accept(q, u)
      PROVE  req'[p] = req[p]
  BY <1>0, <1>1
  DEF Accept, CreateRead, EditRead, VisibilityRead, ReviseRead, SubmitRead, DecideRead, Begin
<1>2. ASSUME NEW q \in Requests, Statement(q)
      PROVE  req'[p] = req[p]
  <2>1. ~At(q, "submit.commit")
    BY <1>2 DEF Statement, CreateCommit, EditMember, EditCommit, VisibilityCommit, ReviseSnapshot,
                ReviseRefused, ReviseCommit, SubmitApprover, SubmitAuthor, SubmitCas,
                DecideAccess, DecideRecheck, DecideCommit, At
  <2> QED
    BY <1>0, <1>2, <2>1
    DEF Statement, CreateCommit, EditMember, EditCommit, VisibilityCommit, ReviseSnapshot,
        ReviseRefused, ReviseCommit, SubmitApprover, SubmitAuthor, SubmitCas, DecideAccess,
        DecideRecheck, DecideCommit, GoTo, Finish
<1>3. CASE AccessStep
  BY <1>3 DEF AccessStep, logVars
<1> QED
  BY <1>1, <1>2, <1>3 DEF LogStep

\* The commit of a submission binds the rows it holds to the version it has just frozen.
LEMMA SubmitCommitBinds ==
  ASSUME AttIInv, NEW p \in Requests, SubmitCommitBound(p)
  PROVE  AttIInv'
<1> DEFINE l == req[p].log
           n == req[p].current
           bind(a) == [att[a] EXCEPT !.bound = n]
<1>1. [AttNext]_allVars
  BY DEF AttNext
<1>2. IInv'
  BY <1>1, AttKeepsIInv DEF AttIInv
<1>3. /\ At(p, "submit.commit") /\ rebound[p] \subseteq Unbound(l) /\ rebound[p] # NotYet
      /\ Owned(req[p].user, l, "DRAFT") /\ log[l].current = n
      /\ \A q \in Requests : At(q, "submit.commit") /\ req[q].log = l => q = p
  BY DEF SubmitCommitBound, AttIInv, ReboundIsLocked, IInv, InFlight, SubmitHoldsRow
<1>4. req[p] # Idle /\ req[p] \in SubmitJob
  BY <1>3, JobOf DEF AttIInv, IInv, At, Idle
<1>5. l \in Logs /\ n \in Numbers /\ n \in 0..MaxVersion
  BY <1>4, WorkLogsAssumption DEF SubmitJob, Numbers
<1>6. \A a \in Attachments : att'[a] = IF a \in rebound[p] THEN bind(a) ELSE att[a]
  BY DEF SubmitCommitBound
<1>7. \A a \in rebound[p] :
        /\ a \in Attachments /\ att[a].state = "ACTIVE" /\ att[a].log = l /\ att[a].bound = 0
        /\ att[a] \in FullRow /\ att[a] # NoAttachment
  BY <1>3 DEF Unbound, AttIInv, AttTypes, NoAttachment
<1>8. ASSUME NEW a \in rebound[p]
      PROVE  /\ bind(a) \in FullRow /\ bind(a).state = "ACTIVE" /\ bind(a) # NoAttachment
             /\ bind(a).log = l /\ bind(a).bound = n
  <2>1. att[a] \in FullRow /\ att[a].state = "ACTIVE" /\ att[a].log = l
    BY <1>7
  <2>2. bind(a) \in AttachmentRow /\ bind(a).state = "ACTIVE" /\ bind(a).log = l
        /\ bind(a).bound = n
    BY <1>5, <2>1 DEF FullRow, AttachmentRow
  <2> QED
    BY <2>2 DEF FullRow, NoAttachment
<1>9. Up /\ UNCHANGED <<job, boot>> /\ rebound' = [rebound EXCEPT ![p] = NotYet]
      /\ req' = [req EXCEPT ![p] = Idle]
  BY <1>4 DEF SubmitCommitBound, SubmitCommit, Finish, AttIInv, StartIsQuiet
<1> HIDE DEF bind
<1>10. AttTypes'
  <2>1. att' \in [Attachments -> {NoAttachment} \cup FullRow]
    BY <1>6, <1>8 DEF SubmitCommitBound, AttIInv, AttTypes, bind
  <2> QED
    BY <1>9, <2>1 DEF AttIInv, AttTypes
<1>11. JobsMatchRows'
  <2>1. SUFFICES ASSUME NEW a \in Attachments
                 PROVE  JobMatchesRow(job[a], att'[a])
    BY <1>9 DEF JobsMatchRows
  <2>2. JobMatchesRow(job[a], att[a])
    BY DEF AttIInv, JobsMatchRows
  <2>3. CASE a \in rebound[p]
    BY <1>7, <2>2, <2>3 DEF JobMatchesRow
  <2> QED
    BY <1>6, <2>2, <2>3
<1>12. StartIsQuiet'
  BY <1>9 DEF StartIsQuiet, Up
<1>13. ReboundIsLocked'
  <2>1. SUFFICES ASSUME NEW q \in Requests, rebound'[q] # NotYet
                 PROVE  req'[q].pc = "submit.commit"
                        /\ \A a \in rebound'[q] : /\ a \in Attachments /\ att'[a].state = "ACTIVE"
                                                  /\ att'[a].log = req'[q].log
                                                  /\ att'[a].bound = 0
    BY <1>10 DEF ReboundIsLocked, At, Unbound
  <2>2. q # p /\ rebound'[q] = rebound[q] /\ req'[q] = req[q]
    BY <1>9, <2>1 DEF AttIInv, AttTypes, IInv, TypeOK
  <2>3. At(q, "submit.commit") /\ rebound[q] \subseteq Unbound(req[q].log) /\ req[q].log # l
    BY <1>3, <2>1, <2>2 DEF AttIInv, ReboundIsLocked
  <2>4. ASSUME NEW a \in rebound[q]
        PROVE  /\ a \in Attachments /\ att'[a].state = "ACTIVE"
               /\ att'[a].log = req'[q].log /\ att'[a].bound = 0
    <3>1. a \in Unbound(req[q].log) /\ a \notin rebound[p]
      BY <1>7, <2>3, <2>4 DEF Unbound
    <3>2. a \in Attachments /\ att'[a] = att[a]
      BY <1>6, <3>1 DEF Unbound
    <3> QED
      BY <2>2, <3>1, <3>2 DEF Unbound
  <2> QED
    BY <2>2, <2>3, <2>4 DEF At
<1>14. BoundToSubmittedVersion'
  <2>1. version'[l][n].frozen /\ approval'[l][n].status # "NONE"
    <3>1. n \in NumbersOf(l)
      BY <1>3, <1>5, Live DEF AttIInv, VersionsMatchStatus, Owned
    <3>2. version[l][n] # NoVersion /\ version[l][n] \in VersionRow
      BY <1>5, <3>1 DEF NumbersOf, AttIInv, IInv, TypeOK
    <3>3. version'[l][n].frozen
      BY <1>5, <3>2 DEF SubmitCommitBound, SubmitCommit, Freeze, AttIInv, IInv, TypeOK, VersionRow
    <3>4. approval'[l][n].status = "PENDING"
      BY <1>5 DEF SubmitCommitBound, SubmitCommit, AttIInv, IInv, TypeOK
    <3> QED
      BY <3>3, <3>4
  <2>2. SUFFICES ASSUME NEW a \in Attachments, att'[a] # NoAttachment, att'[a].bound # 0
                 PROVE  /\ version'[att'[a].log][att'[a].bound].frozen
                        /\ approval'[att'[a].log][att'[a].bound].status # "NONE"
    BY DEF BoundToSubmittedVersion
  <2>3. CASE a \in rebound[p]
    BY <1>6, <1>8, <2>1, <2>3
  <2>4. CASE a \notin rebound[p]
    BY <1>1, <1>6, <2>2, <2>4, SameRowsBound
  <2> QED
    BY <2>3, <2>4
<1> QED
  BY <1>2, <1>10, <1>11, <1>12, <1>13, <1>14 DEF AttIInv

\* Every step of the composition keeps the invariant.
LEMMA NextAttIInv ==
  ASSUME AttIInv, [AttNext]_allVars
  PROVE  AttIInv'
<1>1. IInv'
  BY AttKeepsIInv DEF AttIInv
<1>2. ASSUME UNCHANGED att PROVE BoundToSubmittedVersion'
  BY <1>2, SameRowsBound DEF BoundToSubmittedVersion
<1>3. CASE LogStep
  <2>1. UNCHANGED <<att, job, rebound, boot>> /\ Up
    BY <1>3 DEF LogStep, attVars
  <2>2. AttTypes' /\ JobsMatchRows' /\ StartIsQuiet'
    BY <2>1 DEF AttIInv, AttTypes, JobsMatchRows, StartIsQuiet, Up
  <2>3. ReboundIsLocked'
    BY <1>3, <2>1, LogStepKeepsLocks DEF AttIInv, ReboundIsLocked, Unbound, At
  <2> QED
    BY <1>1, <1>2, <2>1, <2>2, <2>3 DEF AttIInv
<1>4. ASSUME NEW p \in Requests, SubmitRebind(p)
      PROVE  AttIInv'
  <2>1. /\ UNCHANGED <<vars, att, job, boot>> /\ At(p, "submit.commit")
        /\ rebound' = [rebound EXCEPT ![p] = Unbound(req[p].log)]
        /\ Unbound(req[p].log) \subseteq Attachments
    BY <1>4 DEF SubmitRebind, Unbound
  <2>2. AttTypes' /\ JobsMatchRows'
    BY <2>1 DEF AttIInv, AttTypes, JobsMatchRows
  <2>3. StartIsQuiet'
    BY <2>1 DEF AttIInv, StartIsQuiet, Up, vars
  <2>4. ReboundIsLocked'
    BY <2>1 DEF AttIInv, AttTypes, ReboundIsLocked, Unbound, At, vars
  <2> QED
    BY <1>1, <1>2, <2>1, <2>2, <2>3, <2>4 DEF AttIInv
<1>5. ASSUME NEW p \in Requests, RequestRollsBack(p)
      PROVE  AttIInv'
  <2>1. /\ UNCHANGED <<att, job, boot>> /\ req[p] # Idle
        /\ req' = [req EXCEPT ![p] = Idle]
        /\ rebound' = [rebound EXCEPT ![p] = NotYet]
    BY <1>5 DEF RequestRollsBack, RequestFails, Finish
  <2>2. AttTypes' /\ JobsMatchRows'
    BY <2>1 DEF AttIInv, AttTypes, JobsMatchRows
  <2>3. StartIsQuiet'
    BY <2>1 DEF AttIInv, StartIsQuiet, Up
  <2>4. \A q \in Requests :
          rebound'[q] # NotYet => rebound'[q] = rebound[q] /\ req'[q] = req[q]
    BY <2>1 DEF AttIInv, AttTypes, IInv, TypeOK
  <2>5. ReboundIsLocked'
    BY <2>1, <2>4 DEF AttIInv, ReboundIsLocked, Unbound, At
  <2> QED
    BY <1>1, <1>2, <2>1, <2>2, <2>3, <2>5 DEF AttIInv
<1>6. CASE Restart
  <2>1. /\ UNCHANGED <<att>> /\ req' = [p \in Requests |-> Idle] /\ boot' = Unfinished \cup Unremoved
        /\ job' = [a \in Attachments |-> Idle] /\ rebound' = [p \in Requests |-> NotYet]
    BY <1>6 DEF Restart
  <2>2. AttTypes' /\ JobsMatchRows'
    BY <2>1 DEF AttIInv, AttTypes, JobsMatchRows, JobMatchesRow, Idle, Unfinished, Unremoved
  <2>3. StartIsQuiet' /\ ReboundIsLocked'
    BY <2>1 DEF StartIsQuiet, ReboundIsLocked, Unfinished, Unremoved
  <2> QED
    BY <1>1, <1>2, <2>1, <2>2, <2>3 DEF AttIInv
<1>7. CASE UNCHANGED allVars
  BY <1>1, <1>2, <1>7 DEF allVars, attVars, vars, AttIInv, AttTypes, JobsMatchRows, StartIsQuiet,
                          ReboundIsLocked, Unbound, Up, At
<1> QED
  BY <1>3, <1>4, <1>5, <1>6, <1>7, SubmitCommitBinds, AttachmentStepKeeps DEF AttNext

\* The composition satisfies the invariant, and with it everything proved of IInv.
THEOREM AttachmentInvariance == AttSpec => []AttIInv
<1>1. AttInit => AttIInv
  <2> SUFFICES ASSUME AttInit PROVE AttIInv
    OBVIOUS
  <2>1. IInv
    BY InitIInv DEF AttInit
  <2>2. AttTypes /\ JobsMatchRows /\ StartIsQuiet
    BY DEF AttInit, AttTypes, JobsMatchRows, JobMatchesRow, StartIsQuiet, Idle, Up
  <2>3. ReboundIsLocked /\ BoundToSubmittedVersion
    BY DEF AttInit, ReboundIsLocked, BoundToSubmittedVersion
  <2> QED
    BY <2>1, <2>2, <2>3 DEF AttIInv
<1>2. AttIInv /\ [AttNext]_allVars => AttIInv'
  BY NextAttIInv
<1> QED
  BY <1>1, <1>2, PTL DEF AttSpec

\* Rows and jobs have their types, whatever the bounds.
THEOREM AttachmentTypes == AttSpec => []AttTypeOK
<1>1. AttIInv => AttTypeOK
  BY DEF AttIInv, AttTypes, AttTypeOK, IInv, FullRow
<1> QED
  BY <1>1, AttachmentInvariance, PTL

\* Only a submission binds an attachment, and only to the version it froze.
THEOREM BoundToSubmitted == AttSpec => []BoundToSubmittedVersion
<1>1. AttIInv => BoundToSubmittedVersion
  BY DEF AttIInv
<1> QED
  BY <1>1, AttachmentInvariance, PTL

\* How a step changes the row of an attachment at all.
LEMMA RowChanges ==
  ASSUME AttIInv, [AttNext]_allVars, NEW a \in Attachments, att'[a] # att[a]
  PROVE  \/ \E r, j : RowStep(a, r, j)
         \/ \E p \in Requests : SubmitCommitBound(p) /\ a \in rebound[p]
<1>1. ASSUME NEW b \in Attachments, AttachmentStep(b)
      PROVE  \E r, j : RowStep(a, r, j)
  <2>1. PICK r, j : RowStep(b, r, j)
    BY <1>1, AttachmentSteps DEF AttachmentEffect
  <2>2. a = b
    BY <2>1 DEF RowStep, AttIInv, AttTypes
  <2> QED
    BY <2>1, <2>2
<1>2. ASSUME NEW p \in Requests, SubmitCommitBound(p)
      PROVE  a \in rebound[p]
  BY <1>2 DEF SubmitCommitBound
<1> QED
  BY <1>1, <1>2
  DEF AttNext, LogStep, SubmitRebind, RequestRollsBack, Restart, allVars, attVars

\* Evidence is closed with its submission: the attachments of a version with a request for
\* approval never change again (upload, archive, submit, reconciliation).
THEOREM EvidenceCloses == AttSpec => EvidenceIsClosed
<1>1. ASSUME AttIInv, [AttNext]_allVars, NEW l \in Logs, NEW n \in Numbers,
             approval[l][n].status # "NONE"
      PROVE  BoundTo(l, n)' = BoundTo(l, n)
  <2>1. n # 0
    BY WorkLogsAssumption DEF Numbers
  <2>2. SUFFICES ASSUME NEW a \in Attachments, att'[a] # att[a]
                 PROVE  a \in BoundTo(l, n)' <=> a \in BoundTo(l, n)
    BY DEF BoundTo
  <2>3. ASSUME NEW r, NEW j, RowStep(a, r, j)
        PROVE  a \in BoundTo(l, n)' <=> a \in BoundTo(l, n)
    <3>1. att'[a] = r
      BY <1>1, <2>3 DEF RowStep, AttIInv, AttTypes
    <3> QED
      BY <2>1, <2>2, <2>3, <3>1 DEF RowStep, BoundTo, NoAttachment
  <2>4. ASSUME NEW p \in Requests, SubmitCommitBound(p), a \in rebound[p]
        PROVE  a \in BoundTo(l, n)' <=> a \in BoundTo(l, n)
    <3>1. a \in Unbound(req[p].log) /\ att[a] \in FullRow
      BY <1>1, <2>4 DEF SubmitCommitBound, AttIInv, ReboundIsLocked, AttTypes, Unbound, NoAttachment
    <3>2. att'[a] = [att[a] EXCEPT !.bound = req[p].current]
      BY <2>4 DEF SubmitCommitBound
    <3>3. att'[a].bound = req[p].current /\ att'[a].log = req[p].log
      BY <3>1, <3>2 DEF FullRow, AttachmentRow, Unbound
    <3>4. approval[req[p].log][req[p].current].status = "NONE"
      BY <2>4 DEF SubmitCommitBound, SubmitCommit, NoApproval
    <3> QED
      BY <1>1, <2>1, <3>1, <3>3, <3>4 DEF BoundTo, Unbound
  <2> QED
    BY <1>1, <2>2, <2>3, <2>4, RowChanges
<1>2. AttIInv /\ [AttNext]_allVars =>
        [\A l \in Logs, n \in Numbers :
           approval[l][n].status # "NONE" => BoundTo(l, n)' = BoundTo(l, n)]_allVars
  BY <1>1
<1> QED
  BY <1>2, AttachmentInvariance, PTL DEF AttSpec, EvidenceIsClosed

\* What was archived is not shown again, whatever the starts of the API do to its row, and
\* what reconciliation has given up is not activated.
THEOREM NothingComesBack == AttSpec => NoResurrection
<1>1. ASSUME AttIInv, [AttNext]_allVars, NEW a \in Attachments
      PROVE  /\ att[a].state = "ARCHIVED" =>
                  /\ att'[a].state = "ARCHIVED" /\ att'[a].bound = att[a].bound
                  /\ att[a].removed => att'[a] = att[a]
             /\ att[a].state = "PENDING" /\ att[a].attempts = CleanupAttempts
                  => att'[a].state # "ACTIVE"
  <2>1. CASE att'[a] = att[a]
    BY <2>1
  <2>2. ASSUME NEW r, NEW j, RowStep(a, r, j)
        PROVE  att'[a] = r
    BY <1>1, <2>2 DEF RowStep, AttIInv, AttTypes
  <2>3. ASSUME NEW p \in Requests, SubmitCommitBound(p), a \in rebound[p]
        PROVE  att[a].state = "ACTIVE"
    BY <1>1, <2>3 DEF SubmitCommitBound, AttIInv, ReboundIsLocked, Unbound
  <2>4. CASE att'[a] # att[a]
    BY <1>1, <2>2, <2>3, <2>4, RowChanges DEF RowStep
  <2> QED
    BY <2>1, <2>4
<1>2. AttIInv /\ [AttNext]_allVars =>
        [\A a \in Attachments :
           /\ att[a].state = "ARCHIVED" =>
                /\ att'[a].state = "ARCHIVED" /\ att'[a].bound = att[a].bound
                /\ att[a].removed => att'[a] = att[a]
           /\ att[a].state = "PENDING" /\ att[a].attempts = CleanupAttempts
                => att'[a].state # "ACTIVE"]_allVars
  BY <1>1
<1> QED
  BY <1>2, AttachmentInvariance, PTL DEF AttSpec, NoResurrection

-----------------------------------------------------------------------------
(***************************************************************************)
(* The logs of the composition: uploads and archiving in flight, requests  *)
(* cut off by a restart and the rebinding of submit take nothing away from *)
(* what holds of the requests of WorkLogs alone.                           *)
(***************************************************************************)

\* A restart changes no row of a log, and leaves no request.
LEMMA RestartDropsRequests ==
  ASSUME Restart
  PROVE  /\ UNCHANGED <<accessVars, log, version, approval>>
         /\ \A p \in Requests : req'[p] = Idle
BY DEF Restart

\* The tables of the logs agree, requests are decided once and what they have checked still
\* holds, restarts or not.
THEOREM LogsSurviveRestarts == AttSpec => [](ReviewHistory /\ OneOutcomePerRequest /\ InFlight)
<1>1. AttIInv => ReviewHistory /\ OneOutcomePerRequest /\ InFlight
  BY DEF AttIInv, IInv
<1> QED
  BY <1>1, AttachmentInvariance, PTL

\* With attachments and restarts, too, stale writers change nothing, an archived project
\* drains, no trigger refuses anything but an overtaken addVersion, and a token identifies
\* what a client has seen.
THEOREM RestartsRespectGuards ==
  AttSpec => /\ StaleWriterChangesNothing /\ ArchivedProjectDrains
             /\ TriggersRefuseOnlyOvertaken /\ TokenIdentifiesState
<1>1. ASSUME AttIInv, [AttNext]_allVars, NEW p \in Requests, Stale(p), req'[p] # req[p]
      PROVE  UNCHANGED <<log, version, approval>>
  BY <1>1, AttStepShape, StaleStep, RestartDropsRequests DEF AttIInv
<1>2. ASSUME AttIInv, [AttNext]_allVars, Drained
      PROVE  Drained' /\ UNCHANGED <<log, version, approval>>
  <2>1. CASE Restart
    <3>1. Drained'
      BY <1>2, <2>1, RestartDropsRequests DEF Drained, PastAccessCheck, Idle, accessVars
    <3> QED
      BY <2>1, <3>1, RestartDropsRequests
  <2>2. CASE [Next]_vars
    BY <1>2, <2>2, DrainedStep DEF AttIInv
  <2> QED
    BY <1>2, <2>1, <2>2, AttStepShape
<1>3. ASSUME AttIInv, [AttNext]_allVars
      PROVE  /\ \A l \in Logs : LogGuardPasses(l) /\ \A n \in Numbers : VersionGuardPasses(l, n)
             /\ \A p \in Requests : RefusedNow(p) => Overtaken(p)
  <2>1. CASE Restart
    <3>1. UNCHANGED <<log, version, approval>> /\ \A p \in Requests : req'[p] = Idle
      BY <2>1, RestartDropsRequests
    <3> QED
      BY <3>1 DEF LogGuardPasses, VersionGuardPasses, LegalTransition, RefusedNow, Idle
  <2>2. CASE [Next]_vars
    BY <1>3, <2>2, TriggersStep DEF AttIInv
  <2> QED
    BY <1>3, <2>1, <2>2, AttStepShape
<1>4. ASSUME AttIInv, [AttNext]_allVars, NEW l \in Logs, Seen(l)' # Seen(l)
      PROVE  /\ log'[l].token = log[l].token + 1
             /\ log[l] # NoLog => log'[l].author = log[l].author
  <2>1. ~Restart
    BY <1>4, RestartDropsRequests DEF Seen
  <2> QED
    BY <1>4, <2>1, AttStepShape, TokenStep DEF AttIInv
<1>5. AttIInv /\ [AttNext]_allVars =>
        /\ [\A p \in Requests :
              Stale(p) /\ req'[p] # req[p] => UNCHANGED <<log, version, approval>>]_vars
        /\ [Drained => Drained' /\ UNCHANGED <<log, version, approval>>]_vars
        /\ [/\ \A l \in Logs : LogGuardPasses(l) /\ \A n \in Numbers : VersionGuardPasses(l, n)
            /\ \A p \in Requests : RefusedNow(p) => Overtaken(p)]_vars
        /\ [\A l \in Logs : Seen(l)' # Seen(l) =>
              /\ log'[l].token = log[l].token + 1
              /\ log[l] # NoLog => log'[l].author = log[l].author]_vars
  BY <1>1, <1>2, <1>3, <1>4
<1> QED
  BY <1>5, AttachmentInvariance, PTL
  DEF AttSpec, StaleWriterChangesNothing, ArchivedProjectDrains, TriggersRefuseOnlyOvertaken,
      TokenIdentifiesState

\* The composition implements the review record: losing the API process with everything in
\* flight neither loses nor repeats an entry of it.
THEOREM RestartsKeepTheRecord == AttSpec => ImplementsReviewRecord
<1>1. AttInit => Record!Init
  BY RecordInit DEF AttInit
<1>2. ASSUME AttIInv, [AttNext]_allVars
      PROVE  [Record!Next]_(Record!recordVars)
  <2>1. CASE Restart
    BY <2>1, RestartDropsRequests, SameRowsSameRecord, RecordNames
  <2>2. CASE [Next]_vars
    BY <1>2, <2>2, RecordStep DEF AttIInv
  <2> QED
    BY <1>2, <2>1, <2>2, AttStepShape
<1> QED
  BY <1>1, <1>2, AttachmentInvariance, PTL DEF AttSpec, ImplementsReviewRecord, Record!Spec
=============================================================================
