--------------------------- MODULE AccountsProofs ---------------------------
(***************************************************************************)
(* Proofs about Accounts, for every set of addresses, invitations,         *)
(* sessions, codes and requests, and every limit.                          *)
(***************************************************************************)
EXTENDS Accounts, FiniteSetTheorems, TLAPS

DataTypeOK ==
  /\ users \in [Emails -> UserRows \cup {None}]
  /\ invitations \in [Invitations -> InvitationRows \cup {None}]
  /\ sessions \in [Sessions -> SessionRows \cup {None}]
  /\ codes \in [Codes -> CodeRows \cup {None}]

Accepted(e) ==
  {i \in Invitations : invitations[i] # None /\ invitations[i].email = e
                         /\ invitations[i].status = "ACCEPTED"}

\* An address has an account when exactly one of its invitations is accepted.
OneAccepted ==
  \A e \in Emails :
    IF users[e] = None THEN Accepted(e) = {} ELSE \E i \in Invitations : Accepted(e) = {i}

SessionOps == {"verify", "recover"} \cup Guarded

\* The rows that a request has found are there in the tables us, is, ss and cs, and belong to
\* its user.
Found(j, us, is, ss, cs) ==
  /\ j \in Jobs
  /\ j.op = "accept" => is[j.invitation] # None /\ is[j.invitation].email = j.user
  /\ j.op = "login" => us[j.user] # None
  /\ j.op \in SessionOps => ss[j.session] # None /\ ss[j.session].user = j.user
  /\ j.op \in SessionOps /\ j.pc = "consume" =>
       cs[j.code] # None /\ cs[j.code].user = j.user

GoodJob(j) == Found(j, users, invitations, sessions, codes)

SessionsHaveUsers == \A s \in Sessions : sessions[s] # None => users[sessions[s].user] # None

IInv ==
  /\ DataTypeOK
  /\ OneAccepted
  /\ SessionsHaveUsers
  /\ job = [t \in Requests |-> job[t]]
  /\ \A t \in Requests : job[t] = None \/ GoodJob(job[t])

-----------------------------------------------------------------------------
(***************************************************************************)
(* Requests, by operation.                                                 *)
(***************************************************************************)
SessionSteps ==
  {"check", "verify", "find", "count", "lock", "reset", "upgrade",
   "begin", "store", "erase", "clear", "turnOn", "revoke"}

LEMMA JobFields ==
  ASSUME NEW j \in Jobs
  PROVE  /\ j # None /\ j.user \in Emails
         /\ j.op \in {"invite", "accept", "login"} \cup SessionOps
         /\ j.op = "accept" => j.invitation \in Invitations
         /\ j.op = "accept" /\ j.pc = "create" => j.account \in Names
         /\ j.op = "login" => j.status \in {"PENDING_MFA", "ACTIVE"}
         /\ j.op \in SessionOps => j.session \in Sessions
         /\ j.op \in SessionOps /\ j.pc = "consume" => j.code \in Codes /\ j.op = "recover"
         /\ j.op \in SessionOps /\ j.pc = "codes" =>
              j.left \in 1..CodeCount /\ j.op \in {"enable", "rotate"}
         /\ j.op \in SessionOps => j.pc \in SessionSteps \cup {"consume", "codes"}
<1>1. j # None
  BY NoneAssumption
<1> QED
  BY <1>1 DEF Jobs, SessionOps, Guarded, SessionSteps

\* The next statement of a request that keeps what it remembers.
LEMMA GotoOf ==
  ASSUME NEW j \in Jobs, NEW p, NEW k, k = [j EXCEPT !.pc = p],
         \/ j.op = "invite" /\ p \in {"readUser", "readInvitation", "insert"}
         \/ j.op = "login" /\ p \in {"count", "lock", "reset", "open"}
         \/ j.op \in SessionOps /\ j.pc \in SessionSteps /\ p \in SessionSteps
  PROVE  /\ k \in Jobs /\ k.op = j.op /\ k.user = j.user /\ k.pc = p
         /\ j.op \in SessionOps => k.session = j.session
<1>1. CASE j.op = "invite"
  BY <1>1 DEF Jobs, SessionOps, Guarded
<1>2. CASE j.op = "login"
  BY <1>2 DEF Jobs, SessionOps, Guarded
<1>3. CASE j.op \in SessionOps
  <2>1. j \in [op : SessionOps, user : Emails, session : Sessions, pc : SessionSteps]
    BY <1>3 DEF Jobs, SessionOps, Guarded, SessionSteps
  <2>2. k \in [op : SessionOps, user : Emails, session : Sessions, pc : SessionSteps]
        /\ k.op = j.op /\ k.user = j.user /\ k.pc = p /\ k.session = j.session
    BY <1>3, <2>1 DEF SessionOps, Guarded
  <2> QED
    BY <2>2 DEF Jobs, SessionOps, SessionSteps
<1> QED
  BY <1>1, <1>2, <1>3

LEMMA Busy ==
  ASSUME IInv, NEW t \in Requests, job[t] # None
  PROVE  GoodJob(job[t]) /\ job[t] \in Jobs
BY DEF IInv, GoodJob, Found

-----------------------------------------------------------------------------
(***************************************************************************)
(* Rows stay, and stay their owners'.                                      *)
(***************************************************************************)
RowsStay ==
  /\ \A e \in Emails : users[e] # None => users'[e] # None
  /\ \A i \in Invitations : invitations[i] # None =>
       invitations'[i] # None /\ invitations'[i].email = invitations[i].email
  /\ \A s \in Sessions : sessions[s] # None =>
       sessions'[s] # None /\ sessions'[s].user = sessions[s].user
  /\ \A c \in Codes : codes[c] # None =>
       codes'[c] # None /\ codes'[c].user = codes[c].user

\* A statement that replaces the record of its request.
LEMMA StatementKeepsIInv ==
  ASSUME IInv, RowsStay, DataTypeOK', OneAccepted', SessionsHaveUsers',
         NEW t \in Requests, NEW new, job' = [job EXCEPT ![t] = new],
         new = None \/ GoodJob(new)
  PROVE  IInv'
<1>1. ASSUME NEW u \in Requests, job'[u] # None
      PROVE  Found(job'[u], users', invitations', sessions', codes')
  <2>1. Found(job'[u], users, invitations, sessions, codes) /\ job'[u] \in Jobs
    BY <1>1 DEF IInv, GoodJob, Found
  <2> QED
    BY <2>1, JobFields DEF RowsStay, Found
<1> QED
  BY <1>1 DEF IInv, GoodJob

LEMMA MoveKeepsIInv ==
  ASSUME IInv, NEW t \in Requests, NEW new, job' = [job EXCEPT ![t] = new],
         new = None \/ GoodJob(new), UNCHANGED tables
  PROVE  IInv'
BY StatementKeepsIInv
DEF tables, IInv, DataTypeOK, OneAccepted, Accepted, SessionsHaveUsers, RowsStay

-----------------------------------------------------------------------------
(***************************************************************************)
(* The statements that only read.                                          *)
(***************************************************************************)
LEMMA ArriveKeepsIInv ==
  ASSUME IInv, NEW t \in Requests, Arrive(t)
  PROVE  IInv'
<1>1. ASSUME NEW e \in Emails, RequestInvitation(t, e)
      PROVE  IInv'
  <2> DEFINE j == [op |-> "invite", pc |-> "readBoth", user |-> e]
  <2>1. j \in Jobs /\ j.op = "invite"
    BY DEF Jobs
  <2>2. GoodJob(j)
    BY <2>1 DEF GoodJob, Found, SessionOps, Guarded
  <2>3. job' = [job EXCEPT ![t] = j] /\ UNCHANGED tables
    BY <1>1 DEF RequestInvitation, Start
  <2> QED
    BY <2>2, <2>3, MoveKeepsIInv
<1>2. ASSUME NEW e \in Emails, Login(t, e)
      PROVE  IInv'
  <2>1. PICK privileged \in BOOLEAN, pc \in {"reset"} \cup {"count" : f \in Mistaken \cap {"password"}} :
          Start(t, [op |-> "login", pc |-> pc, user |-> e,
                    status |-> IF users[e].enabled \/ privileged THEN "PENDING_MFA" ELSE "ACTIVE"])
    BY <1>2 DEF Login
  <2> DEFINE j == [op |-> "login", pc |-> pc, user |-> e,
                   status |-> IF users[e].enabled \/ privileged THEN "PENDING_MFA" ELSE "ACTIVE"]
  <2>2. j \in Jobs /\ j.op = "login" /\ j.user = e
    BY DEF Jobs
  <2>3. GoodJob(j)
    BY <1>2, <2>2 DEF Login, GoodJob, Found, SessionOps, Guarded
  <2>4. job' = [job EXCEPT ![t] = j] /\ UNCHANGED tables
    BY <1>2, <2>1 DEF Login, Start
  <2> HIDE DEF j
  <2> QED
    BY <2>3, <2>4, MoveKeepsIInv
<1>3. ASSUME NEW i \in Invitations, RequestAcceptance(t, i)
      PROVE  IInv'
  <2> DEFINE j == [op |-> "accept", pc |-> "derive", user |-> invitations[i].email, invitation |-> i]
  <2>1. invitations[i] # None /\ invitations[i].email \in Emails
    BY <1>3 DEF RequestAcceptance, IInv, DataTypeOK, InvitationRows
  <2>2. j \in Jobs /\ j.op = "accept" /\ j.user = invitations[i].email /\ j.invitation = i
    BY <2>1 DEF Jobs
  <2>3. GoodJob(j)
    BY <2>1, <2>2 DEF GoodJob, Found, SessionOps, Guarded
  <2>4. job' = [job EXCEPT ![t] = j] /\ UNCHANGED tables
    BY <1>3 DEF RequestAcceptance, Start
  <2> HIDE DEF j
  <2> QED
    BY <2>3, <2>4, MoveKeepsIInv
<1>4. ASSUME NEW s \in Sessions, FindPendingSession(t, s) \/ Admit(t, s)
      PROVE  IInv'
  <2>1. sessions[s] # None /\ sessions[s].user \in Emails
    BY <1>4
    DEF FindPendingSession, Admit, InForce, Usable, IInv, DataTypeOK, SessionRows
  <2>2. PICK op \in SessionOps, pc \in {"check", "revoke", "begin"} :
          job' = [job EXCEPT ![t] =
            [op |-> op, pc |-> pc, user |-> sessions[s].user, session |-> s]]
    <3>1. CASE FindPendingSession(t, s)
      BY <3>1 DEF FindPendingSession, Start, SessionOps
    <3>2. CASE Admit(t, s)
      <4>1. PICK op \in Guarded :
              Start(t, [op |-> op, user |-> sessions[s].user, session |-> s,
                        pc |-> IF op = "revoke" THEN "revoke" ELSE "begin"])
        BY <3>2 DEF Admit
      <4> QED
        BY <4>1 DEF Start, SessionOps
    <3> QED
      BY <1>4, <3>1, <3>2
  <2> DEFINE j == [op |-> op, pc |-> pc, user |-> sessions[s].user, session |-> s]
  <2>3. j \in Jobs /\ j.op \in SessionOps /\ j.pc # "consume"
        /\ j.user = sessions[s].user /\ j.session = s
    BY <2>1 DEF Jobs, SessionOps
  <2>4. GoodJob(j)
    BY <2>1, <2>3 DEF GoodJob, Found, SessionOps, Guarded
  <2>5. UNCHANGED tables
    BY <1>4 DEF FindPendingSession, Admit
  <2> HIDE DEF j
  <2>6. job' = [job EXCEPT ![t] = j]
    BY <2>2 DEF j
  <2> QED
    BY <2>4, <2>5, <2>6, MoveKeepsIInv
<1> QED
  BY <1>1, <1>2, <1>3, <1>4 DEF Arrive

\* A request that goes on with what it remembers stays entitled to it.
LEMMA GoodGoto ==
  ASSUME IInv, NEW t \in Requests, job[t] # None, NEW p, NEW new, new = [job[t] EXCEPT !.pc = p],
         \/ job[t].op = "invite" /\ p \in {"readUser", "readInvitation", "insert"}
         \/ job[t].op = "login" /\ p \in {"count", "lock", "reset", "open"}
         \/ job[t].op \in SessionOps /\ job[t].pc \in SessionSteps /\ p \in SessionSteps
  PROVE  GoodJob(new)
<1>1. GoodJob(job[t]) /\ job[t] \in Jobs
  BY Busy
<1>2. /\ new \in Jobs /\ new.op = job[t].op /\ new.user = job[t].user /\ new.pc = p
      /\ job[t].op \in SessionOps => new.session = job[t].session
  BY <1>1, GotoOf
<1>3. new.op # "accept" /\ (new.op \in SessionOps => new.pc # "consume")
  BY <1>2 DEF SessionOps, Guarded, SessionSteps
<1> QED
  BY <1>1, <1>2, <1>3 DEF GoodJob, Found

LEMMA GotoKeepsIInv ==
  ASSUME IInv, NEW t \in Requests, job[t] # None, NEW p, Goto(t, p), UNCHANGED tables,
         \/ job[t].op = "invite" /\ p \in {"readUser", "readInvitation", "insert"}
         \/ job[t].op \in SessionOps /\ job[t].pc \in SessionSteps /\ p \in SessionSteps
  PROVE  IInv'
<1> DEFINE new == [job[t] EXCEPT !.pc = p]
<1>1. GoodJob(new)
  BY GoodGoto
<1>2. job' = [job EXCEPT ![t] = new]
  BY DEF Goto
<1> QED
  BY <1>1, <1>2, MoveKeepsIInv

LEMMA GoodNewCodes ==
  ASSUME IInv, NEW t \in Requests, job[t] # None, job[t].op \in {"enable", "rotate"}
  PROVE  GoodJob(NewCodes(t))
<1>1. GoodJob(job[t]) /\ job[t] \in Jobs /\ job[t].op \in SessionOps
  BY Busy DEF SessionOps, Guarded
<1>2. NewCodes(t) \in Jobs /\ NewCodes(t).op = job[t].op /\ NewCodes(t).pc = "codes"
      /\ NewCodes(t).user = job[t].user /\ NewCodes(t).session = job[t].session
  BY <1>1, JobFields, AccountsAssumption DEF NewCodes, Jobs
<1> QED
  BY <1>1, <1>2 DEF GoodJob, Found

LEMMA ReadKeepsIInv ==
  ASSUME IInv, NEW t \in Requests,
         ReadUser(t) \/ ReadInvitation(t) \/ AssertMfaNotLocked(t) \/ NoCode(t) \/ ReadFactor(t)
  PROVE  IInv'
<1>1. \E p : /\ Goto(t, p)
             /\ \/ job[t].op = "invite" /\ p \in {"readUser", "readInvitation", "insert"}
                \/ job[t].op \in SessionOps /\ job[t].pc \in SessionSteps /\ p \in SessionSteps
  <2>1. CASE ReadUser(t) \/ ReadInvitation(t)
    BY <2>1 DEF ReadUser, ReadInvitation, At
  <2>2. CASE AssertMfaNotLocked(t) \/ NoCode(t)
    BY <2>2 DEF AssertMfaNotLocked, NoCode, At, SessionOps, SessionSteps
  <2>3. CASE ReadFactor(t)
    BY <2>3 DEF ReadFactor, At, SessionOps, SessionSteps, Guarded
  <2> QED
    BY <2>1, <2>2, <2>3
<1>2. job[t] # None /\ UNCHANGED tables
  BY DEF ReadUser, ReadInvitation, AssertMfaNotLocked, NoCode, ReadFactor, At
<1> QED
  BY <1>1, <1>2, GotoKeepsIInv

LEMMA VerifyCodeKeepsIInv ==
  ASSUME IInv, NEW t \in Requests, VerifyCode(t)
  PROVE  IInv'
<1>1. job[t] # None /\ job[t].op \in {"verify", "enable", "rotate", "disable"}
      /\ job[t].pc = "verify" /\ UNCHANGED tables
  BY DEF VerifyCode, At
<1>2. job[t].op \in SessionOps /\ job[t].pc \in SessionSteps
  BY <1>1 DEF SessionOps, SessionSteps, Guarded
<1>3. CASE job[t].op = "enable"
  <2>1. job' = [job EXCEPT ![t] = NewCodes(t)]
    BY <1>3 DEF VerifyCode
  <2> QED
    BY <1>1, <1>3, <2>1, GoodNewCodes, MoveKeepsIInv
<1>4. CASE job[t].op # "enable"
  <2>1. \E p \in {"reset", "erase", "clear", "count"} : Goto(t, p)
    BY <1>1, <1>4 DEF VerifyCode
  <2> QED
    BY <1>1, <1>2, <2>1, GotoKeepsIInv DEF SessionSteps
<1> QED
  BY <1>3, <1>4

LEMMA FindCodeKeepsIInv ==
  ASSUME IInv, NEW t \in Requests, NEW c \in Codes, FindCode(t, c)
  PROVE  IInv'
<1> DEFINE j == job[t]
           new == [op |-> "recover", pc |-> "consume", user |-> j.user, session |-> j.session,
                   code |-> c]
<1>1. job[t] # None /\ j.op = "recover" /\ codes[c] = [user |-> j.user, state |-> "unused"]
      /\ job' = [job EXCEPT ![t] = new] /\ UNCHANGED tables
  BY DEF FindCode, At, IInv
<1>2. GoodJob(j) /\ j \in Jobs /\ j.op \in SessionOps
  BY <1>1, Busy DEF SessionOps
<1>3. new \in Jobs
  BY <1>2, JobFields DEF Jobs
<1>4. codes[c] # None /\ codes[c].user = j.user
  <2>1. codes[c] \in CodeRows
    BY <1>1, <1>2, JobFields DEF CodeRows
  <2> QED
    BY <1>1, <2>1, NoneAssumption
<1>5. GoodJob(new)
  BY <1>2, <1>3, <1>4 DEF GoodJob, Found
<1> QED
  BY <1>1, <1>5, MoveKeepsIInv

LEMMA DeriveKeepsIInv ==
  ASSUME IInv, NEW t \in Requests, DeriveUniqueAccount(t)
  PROVE  IInv'
<1> DEFINE j == job[t]
           e == j.user
           name == IF NameTaken(Local[e]) THEN e ELSE Local[e]
           new == [op |-> "accept", pc |-> "create", user |-> e, invitation |-> j.invitation,
                   account |-> name]
<1>1. job[t] # None /\ j.op = "accept" /\ job' = [job EXCEPT ![t] = new] /\ UNCHANGED tables
  BY DEF DeriveUniqueAccount, At, IInv
<1>2. GoodJob(j) /\ j \in Jobs
  BY <1>1, Busy
<1>3. name \in Names
  BY <1>2, JobFields DEF Names
<1> HIDE DEF name
<1>4. new \in Jobs
  BY <1>1, <1>2, <1>3, JobFields DEF Jobs
<1>5. GoodJob(new)
  BY <1>1, <1>2, <1>4 DEF GoodJob, Found, SessionOps, Guarded
<1> QED
  BY <1>1, <1>5, MoveKeepsIInv

-----------------------------------------------------------------------------
(***************************************************************************)
(* The writes of accounts.                                                 *)
(***************************************************************************)
\* An account keeps the counter and the lock of its second factor.
MfaKept(old, new) ==
  new.failed["mfa"] = old.failed["mfa"] /\ new.locked["mfa"] = old.locked["mfa"]

StepTwo == {"verify", "recover"}

LEMMA UserWriteKeepsIInv ==
  ASSUME IInv, NEW t \in Requests, NEW e \in Emails, users[e] # None,
         NEW row \in UserRows, users' = [users EXCEPT ![e] = row],
         UNCHANGED <<invitations, sessions>>, codes' = codes \/ codes' = WithoutCodes(e),
         NEW new, job' = [job EXCEPT ![t] = new], new = None \/ GoodJob(new)
  PROVE  IInv'
<1>1. row # None
  BY NoneAssumption
<1>2. codes' \in [Codes -> CodeRows \cup {None}]
      /\ \A c \in Codes : codes[c] # None => codes'[c] # None /\ codes'[c].user = codes[c].user
  <2>1. CASE codes' = codes
    BY <2>1 DEF IInv, DataTypeOK
  <2>2. CASE codes' = WithoutCodes(e)
    <3>1. ASSUME NEW c \in Codes, codes[c] # None
          PROVE  /\ [codes[c] EXCEPT !.state = "deleted"] \in CodeRows
                 /\ [codes[c] EXCEPT !.state = "deleted"].user = codes[c].user
      BY <3>1 DEF IInv, DataTypeOK, CodeRows
    <3> QED
      BY <2>2, <3>1, NoneAssumption DEF WithoutCodes, IInv, DataTypeOK
  <2> QED
    BY <2>1, <2>2
<1>3. DataTypeOK' /\ RowsStay
  BY <1>1, <1>2 DEF IInv, DataTypeOK, RowsStay
<1>4. OneAccepted' /\ SessionsHaveUsers'
  BY <1>1 DEF IInv, DataTypeOK, OneAccepted, Accepted, SessionsHaveUsers, SessionRows
<1> QED
  BY <1>3, <1>4, StatementKeepsIInv

\* A request on an account finds it.
LEMMA UserOf ==
  ASSUME IInv, NEW t \in Requests, job[t] # None, job[t].op \in {"login"} \cup SessionOps
  PROVE  /\ job[t].user \in Emails /\ users[job[t].user] \in UserRows
         /\ users[job[t].user] # None /\ GoodJob(job[t]) /\ job[t] \in Jobs
         /\ job[t].op \in SessionOps => job[t].session \in Sessions
<1>1. GoodJob(job[t]) /\ job[t] \in Jobs
  BY Busy
<1>2. /\ job[t].user \in Emails
      /\ job[t].op \in SessionOps => job[t].session \in Sessions
      /\ users[job[t].user] # None
  BY <1>1, JobFields DEF GoodJob, Found, IInv, SessionsHaveUsers
<1> QED
  BY <1>1, <1>2 DEF IInv, DataTypeOK

LEMMA CountFailureKeepsIInv ==
  ASSUME IInv, NEW t \in Requests, CountFailure(t)
  PROVE  /\ IInv'
         /\ \E row \in UserRows :
              /\ users' = [users EXCEPT ![job[t].user] = row]
              /\ job[t].op \notin StepTwo => MfaKept(users[job[t].user], row)
<1> DEFINE j == job[t]
           e == j.user
           f == Factor(j.op)
           n == users[e].failed[f] + 1
           row == [users[e] EXCEPT !.failed[f] = n]
<1>1. job[t] # None /\ j.op \in {"login", "verify", "recover"} /\ j.pc = "count"
      /\ users' = [users EXCEPT ![e] = row] /\ n <= MaxCount
      /\ UNCHANGED <<invitations, sessions, codes>>
      /\ (Goto(t, "lock") \/ Finish(t))
  BY DEF CountFailure, At
<1>2. j.op \in {"login"} \cup SessionOps /\ f \in Factors
  BY <1>1 DEF SessionOps, Factor, Factors
<1>3. e \in Emails /\ users[e] \in UserRows /\ users[e] # None /\ j \in Jobs
  BY <1>1, <1>2, UserOf
<1>4. users[e].failed[f] \in 0..MaxCount /\ users[e].failed \in [Factors -> 0..MaxCount]
  BY <1>2, <1>3 DEF UserRows
<1>5. n \in 0..MaxCount
  BY <1>1, <1>4, AccountsAssumption
<1> HIDE DEF n
<1>6. row \in UserRows /\ row.failed = [users[e].failed EXCEPT ![f] = n]
      /\ row.locked = users[e].locked
  BY <1>2, <1>3, <1>5 DEF UserRows
<1> HIDE DEF row
<1>7. j.op \notin StepTwo => MfaKept(users[e], row)
  BY <1>1, <1>2, <1>4, <1>6 DEF MfaKept, StepTwo, Factor, Factors
<1>8. PICK new : job' = [job EXCEPT ![t] = new] /\ (new = None \/ GoodJob(new))
  <2>1. CASE Finish(t)
    BY <2>1 DEF Finish
  <2>2. CASE Goto(t, "lock")
    <3> DEFINE k == [job[t] EXCEPT !.pc = "lock"]
    <3>1. GoodJob(k)
      BY <1>1, <1>2, GoodGoto DEF SessionSteps
    <3> QED
      BY <2>2, <3>1 DEF Goto
  <2> QED
    BY <1>1, <2>1, <2>2
<1> QED
  BY <1>1, <1>3, <1>6, <1>7, <1>8, UserWriteKeepsIInv

LEMMA LockFactorKeepsIInv ==
  ASSUME IInv, NEW t \in Requests, LockFactor(t)
  PROVE  /\ IInv'
         /\ \E row \in UserRows :
              /\ users' = [users EXCEPT ![job[t].user] = row]
              /\ job[t].op \notin StepTwo => MfaKept(users[job[t].user], row)
<1> DEFINE j == job[t]
           e == j.user
           f == Factor(j.op)
           row == [users[e] EXCEPT !.locked[f] = TRUE]
<1>1. job[t] # None /\ j.op \in {"login", "verify", "recover"}
      /\ users' = [users EXCEPT ![e] = row]
      /\ UNCHANGED <<invitations, sessions, codes>> /\ job' = [job EXCEPT ![t] = None]
  BY DEF LockFactor, At, Finish
<1>2. j.op \in {"login"} \cup SessionOps /\ f \in Factors
  BY <1>1 DEF SessionOps, Factor, Factors
<1>3. e \in Emails /\ users[e] \in UserRows /\ users[e] # None
  BY <1>1, <1>2, UserOf
<1>4. row \in UserRows /\ row.failed = users[e].failed
      /\ row.locked = [users[e].locked EXCEPT ![f] = TRUE]
      /\ users[e].locked \in [Factors -> BOOLEAN]
  BY <1>2, <1>3 DEF UserRows
<1> HIDE DEF row
<1>5. j.op \notin StepTwo => MfaKept(users[e], row)
  BY <1>1, <1>2, <1>4 DEF MfaKept, StepTwo, Factor, Factors
<1> QED
  BY <1>1, <1>3, <1>4, <1>5, UserWriteKeepsIInv

LEMMA ResetFactorKeepsIInv ==
  ASSUME IInv, NEW t \in Requests, ResetFactor(t)
  PROVE  /\ IInv'
         /\ \E row \in UserRows :
              /\ users' = [users EXCEPT ![job[t].user] = row]
              /\ job[t].op \notin StepTwo => MfaKept(users[job[t].user], row)
<1> DEFINE j == job[t]
           e == j.user
           f == Factor(j.op)
           row == [[users[e] EXCEPT !.failed[f] = 0] EXCEPT !.locked[f] = FALSE]
<1>1. job[t] # None /\ j.op \in {"login", "verify", "recover"} /\ j.pc = "reset"
      /\ UNCHANGED <<invitations, sessions, codes>>
  BY DEF ResetFactor, At
<1>2. j.op \in {"login"} \cup SessionOps /\ f \in Factors
  BY <1>1 DEF SessionOps, Factor, Factors
<1>3. e \in Emails /\ users[e] \in UserRows /\ users[e] # None /\ j \in Jobs
  BY <1>1, <1>2, UserOf
<1>4. users' = [users EXCEPT ![e] = row]
  BY <1>3 DEF ResetFactor, IInv, DataTypeOK
<1>5. row \in UserRows /\ row.failed = [users[e].failed EXCEPT ![f] = 0]
      /\ row.locked = [users[e].locked EXCEPT ![f] = FALSE]
  <2> DEFINE some == [users[e] EXCEPT !.failed[f] = 0]
  <2>1. 0 \in 0..MaxCount
    BY AccountsAssumption
  <2>2. some \in UserRows /\ some.failed = [users[e].failed EXCEPT ![f] = 0]
        /\ some.locked = users[e].locked
    BY <1>2, <1>3, <2>1 DEF UserRows
  <2> HIDE DEF some
  <2>3. [some EXCEPT !.locked[f] = FALSE] \in UserRows
        /\ [some EXCEPT !.locked[f] = FALSE].failed = some.failed
        /\ [some EXCEPT !.locked[f] = FALSE].locked = [some.locked EXCEPT ![f] = FALSE]
    BY <1>2, <2>2 DEF UserRows
  <2> QED
    BY <2>2, <2>3 DEF some
<1>6. users[e].failed \in [Factors -> 0..MaxCount] /\ users[e].locked \in [Factors -> BOOLEAN]
  BY <1>3 DEF UserRows
<1> HIDE DEF row
<1>7. j.op \notin StepTwo => MfaKept(users[e], row)
  BY <1>1, <1>2, <1>5, <1>6 DEF MfaKept, StepTwo, Factor, Factors
<1>8. PICK new : job' = [job EXCEPT ![t] = new] /\ (new = None \/ GoodJob(new))
  <2>1. CASE j.op = "recover"
    BY <2>1 DEF ResetFactor, Finish
  <2>2. CASE j.op = "login"
    <3> DEFINE k == [job[t] EXCEPT !.pc = "open"]
    <3>1. GoodJob(k)
      BY <1>1, <2>2, GoodGoto
    <3> QED
      BY <2>2, <3>1 DEF ResetFactor, Goto
  <2>3. CASE j.op = "verify"
    <3> DEFINE k == [job[t] EXCEPT !.pc = "upgrade"]
    <3>1. GoodJob(k)
      BY <1>1, <1>2, <2>3, GoodGoto DEF SessionSteps, SessionOps
    <3> QED
      BY <2>3, <3>1 DEF ResetFactor, Goto
  <2> QED
    BY <1>1, <2>1, <2>2, <2>3
<1> QED
  BY <1>1, <1>3, <1>4, <1>5, <1>7, <1>8, UserWriteKeepsIInv

\* The second factor is set up, turned on and disabled; the counters and the locks stay.
LEMMA FactorWriteKeepsIInv ==
  ASSUME IInv, NEW t \in Requests, StoreSecret(t) \/ TurnOn(t) \/ DisableFactor(t)
  PROVE  /\ IInv'
         /\ \E row \in UserRows :
              /\ users' = [users EXCEPT ![job[t].user] = row]
              /\ job[t].op \notin StepTwo => MfaKept(users[job[t].user], row)
<1> DEFINE j == job[t]
           e == j.user
<1>1. job[t] # None /\ j.op \in SessionOps /\ j.pc \in SessionSteps
      /\ UNCHANGED <<invitations, sessions>> /\ (codes' = codes \/ codes' = WithoutCodes(e))
  BY DEF StoreSecret, TurnOn, DisableFactor, At, SessionOps, SessionSteps, Guarded
<1>2. e \in Emails /\ users[e] \in UserRows /\ users[e] # None
  BY <1>1, UserOf
<1>3. PICK row \in UserRows :
        users' = [users EXCEPT ![e] = row]
        /\ row.failed = users[e].failed /\ row.locked = users[e].locked
  <2>1. CASE StoreSecret(t)
    <3>1. [users[e] EXCEPT !.secret = TRUE] \in UserRows
          /\ [users[e] EXCEPT !.secret = TRUE].failed = users[e].failed
          /\ [users[e] EXCEPT !.secret = TRUE].locked = users[e].locked
      BY <1>2 DEF UserRows
    <3> QED
      BY <2>1, <3>1 DEF StoreSecret
  <2>2. CASE TurnOn(t)
    <3>1. [users[e] EXCEPT !.enabled = TRUE] \in UserRows
          /\ [users[e] EXCEPT !.enabled = TRUE].failed = users[e].failed
          /\ [users[e] EXCEPT !.enabled = TRUE].locked = users[e].locked
      BY <1>2 DEF UserRows
    <3> QED
      BY <2>2, <3>1 DEF TurnOn
  <2>3. CASE DisableFactor(t)
    <3> DEFINE row == [[users[e] EXCEPT !.enabled = FALSE] EXCEPT !.secret = FALSE]
    <3>1. row \in UserRows /\ row.failed = users[e].failed /\ row.locked = users[e].locked
      BY <1>2 DEF UserRows
    <3>2. users' = [users EXCEPT ![e] = row]
      BY <1>2, <2>3 DEF DisableFactor, IInv, DataTypeOK
    <3> QED
      BY <3>1, <3>2
  <2> QED
    BY <2>1, <2>2, <2>3
<1>4. MfaKept(users[e], row)
  BY <1>3 DEF MfaKept
<1>5. PICK new : job' = [job EXCEPT ![t] = new] /\ (new = None \/ GoodJob(new))
  <2>1. CASE StoreSecret(t) \/ DisableFactor(t)
    BY <2>1 DEF StoreSecret, DisableFactor, Finish
  <2>2. CASE TurnOn(t)
    <3> DEFINE k == [job[t] EXCEPT !.pc = "upgrade"]
    <3>1. GoodJob(k)
      BY <1>1, GoodGoto DEF SessionSteps
    <3> QED
      BY <2>2, <3>1 DEF TurnOn, Goto
  <2> QED
    BY <2>1, <2>2
<1> QED
  BY <1>1, <1>2, <1>3, <1>4, <1>5, UserWriteKeepsIInv

-----------------------------------------------------------------------------
(***************************************************************************)
(* The writes of invitations, sessions and codes.                          *)
(***************************************************************************)
LEMMA InsertInvitationKeepsIInv ==
  ASSUME IInv, NEW t \in Requests, NEW i \in Invitations, InsertInvitation(t, i)
  PROVE  IInv'
<1> DEFINE row == [email |-> job[t].user, status |-> "PENDING"]
<1>1. job[t] \in Jobs /\ invitations[i] = None
      /\ invitations' = [invitations EXCEPT ![i] = row]
      /\ UNCHANGED <<users, sessions, codes>> /\ job' = [job EXCEPT ![t] = None]
  BY Busy DEF InsertInvitation, At, Finish
<1>2. row \in InvitationRows
  BY <1>1, JobFields DEF InvitationRows
<1>3. DataTypeOK' /\ RowsStay /\ SessionsHaveUsers'
  BY <1>1, <1>2, NoneAssumption DEF IInv, DataTypeOK, RowsStay, SessionsHaveUsers
<1>4. \A e \in Emails : Accepted(e)' = Accepted(e)
  BY <1>1 DEF IInv, DataTypeOK, Accepted
<1>5. OneAccepted'
  BY <1>1, <1>4 DEF IInv, OneAccepted
<1> QED
  BY <1>1, <1>3, <1>5, StatementKeepsIInv

\* The account and the acceptance come together.
LEMMA CreateUserKeepsIInv ==
  ASSUME IInv, NEW t \in Requests, CreateUser(t)
  PROVE  IInv'
<1> DEFINE j == job[t]
<1>0. PICK e, i : e = j.user /\ i = j.invitation
  OBVIOUS
<1> DEFINE row == [invitations[i] EXCEPT !.status = "ACCEPTED"]
           user == NewUser(j.account)
<1>1. job[t] # None /\ j.op = "accept" /\ j.pc = "create" /\ users[e] = None
      /\ users' = [users EXCEPT ![e] = user] /\ invitations' = [invitations EXCEPT ![i] = row]
      /\ UNCHANGED <<sessions, codes>> /\ job' = [job EXCEPT ![t] = None]
  BY <1>0 DEF CreateUser, At, Finish
<1>2. e \in Emails /\ i \in Invitations /\ j.account \in Names
      /\ invitations[i] \in InvitationRows /\ invitations[i].email = e
  BY <1>0, <1>1, Busy, JobFields DEF GoodJob, Found, IInv, DataTypeOK
<1>3. row \in InvitationRows /\ row.email = e /\ row.status = "ACCEPTED" /\ row # None
  <2>1. row \in InvitationRows /\ row.email = e /\ row.status = "ACCEPTED"
    BY <1>2 DEF InvitationRows
  <2> QED
    BY <2>1, NoneAssumption
<1>4. user \in UserRows /\ user # None
  <2>1. 0 \in 0..MaxCount
    BY AccountsAssumption
  <2>2. user \in UserRows
    BY <1>2, <2>1 DEF NewUser, UserRows
  <2> QED
    BY <2>2, NoneAssumption
<1> HIDE DEF row, user
<1>5. DataTypeOK' /\ RowsStay /\ SessionsHaveUsers'
  BY <1>1, <1>2, <1>3, <1>4
  DEF IInv, DataTypeOK, RowsStay, SessionsHaveUsers, SessionRows
<1>6. Accepted(e)' = {i}
  <2>1. Accepted(e) = {}
    BY <1>1, <1>2 DEF IInv, OneAccepted
  <2>2. invitations'[i] = row /\ (\A k \in Invitations \ {i} : invitations'[k] = invitations[k])
    BY <1>1, <1>2 DEF IInv, DataTypeOK
  <2>3. i \in Accepted(e)'
    BY <1>2, <1>3, <2>2 DEF Accepted
  <2>4. \A k \in Invitations \ {i} : k \in Accepted(e)' => k \in Accepted(e)
    BY <2>2 DEF Accepted
  <2>5. Accepted(e)' \subseteq Invitations
    BY DEF Accepted
  <2> QED
    BY <2>1, <2>3, <2>4, <2>5
<1>7. \A d \in Emails \ {e} : Accepted(d)' = Accepted(d) /\ users'[d] = users[d]
  BY <1>1, <1>2, <1>3 DEF Accepted, IInv, DataTypeOK
<1>8. OneAccepted'
  <2>1. users'[e] # None
    BY <1>1, <1>2, <1>4 DEF IInv, DataTypeOK
  <2>2. ASSUME NEW d \in Emails
        PROVE  IF users'[d] = None THEN Accepted(d)' = {}
               ELSE \E k \in Invitations : Accepted(d)' = {k}
    <3>1. CASE d = e
      BY <1>2, <1>6, <2>1, <3>1
    <3>2. CASE d # e
      BY <1>7, <3>2 DEF OneAccepted, IInv
    <3> QED
      BY <3>1, <3>2
  <2> QED
    BY <2>2 DEF OneAccepted
<1> QED
  BY <1>1, <1>5, <1>8, StatementKeepsIInv

\* A step on sessions and codes.
LEMMA SessionWriteKeepsIInv ==
  ASSUME IInv, NEW t \in Requests, NEW new, job' = [job EXCEPT ![t] = new],
         new = None \/ GoodJob(new), UNCHANGED <<users, invitations>>,
         sessions' \in [Sessions -> SessionRows \cup {None}],
         codes' \in [Codes -> CodeRows \cup {None}],
         \A s \in Sessions : IF sessions[s] = None
                             THEN sessions'[s] # None => users[sessions'[s].user] # None
                             ELSE sessions'[s] # None /\ sessions'[s].user = sessions[s].user,
         \A c \in Codes : codes[c] # None => codes'[c] # None /\ codes'[c].user = codes[c].user
  PROVE  IInv'
<1>1. DataTypeOK' /\ RowsStay
  BY DEF IInv, DataTypeOK, RowsStay
<1>2. OneAccepted' /\ SessionsHaveUsers'
  BY DEF IInv, OneAccepted, Accepted, SessionsHaveUsers
<1> QED
  BY <1>1, <1>2, StatementKeepsIInv

LEMMA OpenSessionKeepsIInv ==
  ASSUME IInv, NEW t \in Requests, NEW s \in Sessions, OpenSession(t, s)
  PROVE  IInv'
<1> DEFINE j == job[t]
           row == [user |-> j.user, status |-> j.status, fresh |-> TRUE, revoked |-> FALSE]
<1>1. j # None /\ j.op = "login" /\ sessions[s] = None
      /\ sessions' = [sessions EXCEPT ![s] = row]
      /\ UNCHANGED <<users, invitations, codes>> /\ job' = [job EXCEPT ![t] = None]
  BY DEF OpenSession, At, Finish
<1>2. users[j.user] # None /\ j.user \in Emails /\ j.status \in {"PENDING_MFA", "ACTIVE"}
  BY <1>1, UserOf, JobFields
<1>3. row \in SessionRows /\ row.user = j.user
  BY <1>2 DEF SessionRows
<1> HIDE DEF row
<1> QED
  BY <1>1, <1>2, <1>3, SessionWriteKeepsIInv DEF IInv, DataTypeOK

\* An upgrade makes a session active and fresh; whether it is revoked stays.
LEMMA UpgradedRow ==
  ASSUME DataTypeOK, NEW s \in Sessions, sessions[s] # None
  PROVE  /\ Upgraded(sessions, s) \in [Sessions -> SessionRows \cup {None}]
         /\ Upgraded(sessions, s)[s].status = "ACTIVE" /\ Upgraded(sessions, s)[s].fresh
         /\ \A r \in Sessions : sessions[r] # None =>
              /\ Upgraded(sessions, s)[r] # None
              /\ Upgraded(sessions, s)[r].user = sessions[r].user
              /\ Upgraded(sessions, s)[r].revoked = sessions[r].revoked
         /\ \A r \in Sessions : sessions[r] = None => Upgraded(sessions, s)[r] = None
<1> DEFINE row == [[sessions[s] EXCEPT !.status = "ACTIVE"] EXCEPT !.fresh = TRUE]
<1>1. Upgraded(sessions, s) = [sessions EXCEPT ![s] = row]
  BY DEF Upgraded, DataTypeOK
<1>2. row \in SessionRows /\ row.user = sessions[s].user /\ row.revoked = sessions[s].revoked
      /\ row.status = "ACTIVE" /\ row.fresh
  BY DEF DataTypeOK, SessionRows
<1>3. row # None
  BY <1>2, NoneAssumption
<1> HIDE DEF row
<1> QED
  BY <1>1, <1>2, <1>3 DEF DataTypeOK

LEMMA UpgradeSessionKeepsIInv ==
  ASSUME IInv, NEW t \in Requests, UpgradeSession(t)
  PROVE  IInv'
<1>1. job[t] # None /\ job[t].op \in SessionOps
      /\ sessions' = Upgraded(sessions, job[t].session)
      /\ UNCHANGED <<users, invitations, codes>> /\ job' = [job EXCEPT ![t] = None]
  BY DEF UpgradeSession, At, Finish, SessionOps, Guarded
<1>2. job[t].session \in Sessions /\ sessions[job[t].session] # None
  BY <1>1, UserOf DEF GoodJob, Found
<1>3. DataTypeOK
  BY DEF IInv
<1> QED
  BY <1>1, <1>2, <1>3, UpgradedRow, SessionWriteKeepsIInv DEF DataTypeOK

LEMMA ConsumeCodeKeepsIInv ==
  ASSUME IInv, NEW t \in Requests, ConsumeCode(t)
  PROVE  /\ IInv'
         /\ job[t].code \in Codes /\ job[t].session \in Sessions
         /\ codes[job[t].code].user = job[t].user
         /\ sessions[job[t].session] # None /\ sessions[job[t].session].user = job[t].user
         /\ sessions' = Upgraded(sessions, job[t].session)
<1> DEFINE j == job[t]
           new == [op |-> "recover", pc |-> "reset", user |-> j.user, session |-> j.session]
           row == [codes[j.code] EXCEPT !.state = "used"]
<1>1. j # None /\ j.op = "recover" /\ j.op \in SessionOps /\ j.pc = "consume"
      /\ codes' = [codes EXCEPT ![j.code] = row]
      /\ sessions' = Upgraded(sessions, j.session)
      /\ UNCHANGED <<users, invitations>> /\ job' = [job EXCEPT ![t] = new]
  BY DEF ConsumeCode, At, SessionOps, IInv
<1>2. /\ j.session \in Sessions /\ sessions[j.session] # None /\ sessions[j.session].user = j.user
      /\ j.code \in Codes /\ codes[j.code] # None /\ codes[j.code].user = j.user
      /\ j.user \in Emails
  BY <1>1, UserOf, JobFields DEF GoodJob, Found
<1>3. row \in CodeRows /\ row.user = j.user
  BY <1>2 DEF IInv, DataTypeOK, CodeRows
<1>4. new \in Jobs
  BY <1>2 DEF Jobs
<1>5. GoodJob(new)
  BY <1>2, <1>4 DEF GoodJob, Found
<1>6. row # None
  BY <1>3, NoneAssumption
<1>7. DataTypeOK
  BY DEF IInv
<1> HIDE DEF row, new
<1>8. codes' \in [Codes -> CodeRows \cup {None}]
      /\ \A c \in Codes : codes[c] # None => codes'[c] # None /\ codes'[c].user = codes[c].user
  BY <1>1, <1>2, <1>3, <1>6, <1>7 DEF DataTypeOK
<1>9. /\ sessions' \in [Sessions -> SessionRows \cup {None}]
      /\ \A s \in Sessions : IF sessions[s] = None
                              THEN sessions'[s] # None => users[sessions'[s].user] # None
                              ELSE sessions'[s] # None /\ sessions'[s].user = sessions[s].user
  <2>1. sessions' = Upgraded(sessions, j.session)
    BY <1>1
  <2> HIDE DEF j
  <2> QED
    BY <1>2, <1>7, <2>1, UpgradedRow
<1>10. job' = [job EXCEPT ![t] = new] /\ UNCHANGED <<users, invitations>>
  BY <1>1
<1> HIDE DEF j
<1>11. IInv'
  BY <1>5, <1>8, <1>9, <1>10, SessionWriteKeepsIInv
<1> USE DEF j
<1> QED
  BY <1>1, <1>2, <1>11

\* The codes of a set are written, or all codes of an account erased.
LEMMA CreateCodeKeepsIInv ==
  ASSUME IInv, NEW t \in Requests, NEW c \in Codes, CreateCode(t, c)
  PROVE  IInv'
<1> DEFINE j == job[t]
           new == AfterCode(j)
           row == [user |-> j.user, state |-> "unused"]
<1>1. j # None /\ j.op \in {"enable", "rotate"} /\ j.op \in SessionOps /\ j.pc = "codes"
      /\ codes[c] = None /\ codes' = [codes EXCEPT ![c] = row]
      /\ UNCHANGED <<users, invitations, sessions>> /\ job' = [job EXCEPT ![t] = new]
  BY DEF CreateCode, At, SessionOps, Guarded, IInv
<1>2. j \in Jobs /\ GoodJob(j) /\ j.user \in Emails /\ j.session \in Sessions
      /\ j.left \in 1..CodeCount
  BY <1>1, UserOf, JobFields
<1>3. row \in CodeRows
  BY <1>2 DEF CodeRows
<1>4. new = None \/ GoodJob(new)
  <2>1. CASE j.left > 1
    <3> DEFINE k == [j EXCEPT !.left = j.left - 1]
    <3>1. new = k
      BY <2>1 DEF AfterCode
    <3>2. j.left - 1 \in 1..CodeCount
      BY <1>2, <2>1, AccountsAssumption
    <3>3. k \in Jobs /\ k.op = j.op /\ k.user = j.user /\ k.session = j.session /\ k.pc = "codes"
      BY <1>1, <1>2, <3>2 DEF Jobs
    <3>4. GoodJob(k)
      BY <1>1, <1>2, <3>3 DEF GoodJob, Found
    <3> QED
      BY <3>1, <3>4
  <2>2. CASE j.left = 1 /\ j.op = "rotate"
    BY <2>2 DEF AfterCode
  <2>3. CASE j.left = 1 /\ j.op = "enable"
    <3> DEFINE k == [op |-> "enable", pc |-> "turnOn", user |-> j.user, session |-> j.session]
    <3>1. new = k
      BY <2>3 DEF AfterCode
    <3>2. k \in Jobs
      BY <1>2 DEF Jobs, Guarded
    <3>3. GoodJob(k)
      BY <1>1, <1>2, <3>2 DEF GoodJob, Found
    <3> QED
      BY <3>1, <3>3
  <2> QED
    BY <1>1, <1>2, <2>1, <2>2, <2>3, AccountsAssumption
<1> HIDE DEF new, row
<1> QED
  BY <1>1, <1>3, <1>4, SessionWriteKeepsIInv DEF IInv, DataTypeOK

LEMMA EraseCodesKeepsIInv ==
  ASSUME IInv, NEW t \in Requests, EraseCodes(t)
  PROVE  IInv'
<1>1. job[t] # None /\ job[t].op = "rotate" /\ codes' = WithoutCodes(job[t].user)
      /\ UNCHANGED <<users, invitations, sessions>> /\ job' = [job EXCEPT ![t] = NewCodes(t)]
  BY DEF EraseCodes, At
<1>2. GoodJob(NewCodes(t))
  BY <1>1, GoodNewCodes
<1>3. ASSUME NEW c \in Codes, codes[c] # None
      PROVE  /\ [codes[c] EXCEPT !.state = "deleted"] \in CodeRows
             /\ [codes[c] EXCEPT !.state = "deleted"].user = codes[c].user
  BY <1>3 DEF IInv, DataTypeOK, CodeRows
<1>4. codes' \in [Codes -> CodeRows \cup {None}]
      /\ \A c \in Codes : codes[c] # None => codes'[c] # None /\ codes'[c].user = codes[c].user
  BY <1>1, <1>3, NoneAssumption DEF WithoutCodes, IInv, DataTypeOK
<1> QED
  BY <1>1, <1>2, <1>4, SessionWriteKeepsIInv DEF IInv, DataTypeOK

LEMMA RevokedRow ==
  ASSUME DataTypeOK, NEW s \in Sessions, sessions[s] # None,
         NEW row, row = [sessions[s] EXCEPT !.revoked = TRUE]
  PROVE  row \in SessionRows /\ row.user = sessions[s].user /\ row.revoked /\ row # None
<1>1. row \in SessionRows /\ row.user = sessions[s].user /\ row.revoked
  BY DEF DataTypeOK, SessionRows
<1> QED
  BY <1>1, NoneAssumption

LEMMA RevokeKeepsIInv ==
  ASSUME IInv, NEW t \in Requests, Revoke(t)
  PROVE  IInv'
<1>1. PICK chosen \in SUBSET OwnSessions(job[t].user) :
        sessions' = [s \in Sessions |-> IF s \in chosen
                       THEN [sessions[s] EXCEPT !.revoked = TRUE] ELSE sessions[s]]
  BY DEF Revoke
<1>2. UNCHANGED <<users, invitations, codes>> /\ job' = [job EXCEPT ![t] = None]
  BY DEF Revoke, Finish
<1>3. \A s \in chosen : s \in Sessions /\ sessions[s] # None
  BY DEF OwnSessions
<1>4. DataTypeOK
  BY DEF IInv
<1>5. sessions' \in [Sessions -> SessionRows \cup {None}]
      /\ \A s \in Sessions : IF sessions[s] = None
                             THEN sessions'[s] # None => users[sessions'[s].user] # None
                             ELSE sessions'[s] # None /\ sessions'[s].user = sessions[s].user
  BY <1>1, <1>3, <1>4, RevokedRow DEF DataTypeOK
<1> QED
  BY <1>2, <1>4, <1>5, SessionWriteKeepsIInv DEF DataTypeOK

-----------------------------------------------------------------------------
(***************************************************************************)
(* All steps.                                                              *)
(***************************************************************************)
LEMMA StopKeepsIInv ==
  ASSUME IInv, NEW t \in Requests, Stop(t)
  PROVE  IInv'
<1>1. job' = [job EXCEPT ![t] = None] /\ UNCHANGED tables
  BY DEF Stop, Finish
<1> QED
  BY <1>1, MoveKeepsIInv

LEMMA StepKeepsIInv ==
  ASSUME IInv, NEW t \in Requests, Step(t)
  PROVE  IInv'
<1>1. CASE ReadUser(t) \/ ReadInvitation(t) \/ AssertMfaNotLocked(t) \/ NoCode(t) \/ ReadFactor(t)
  BY <1>1, ReadKeepsIInv
<1>2. CASE DeriveUniqueAccount(t) \/ CreateUser(t) \/ \E i \in Invitations : InsertInvitation(t, i)
  BY <1>2, DeriveKeepsIInv, CreateUserKeepsIInv, InsertInvitationKeepsIInv
<1>3. CASE CountFailure(t) \/ LockFactor(t) \/ ResetFactor(t)
  BY <1>3, CountFailureKeepsIInv, LockFactorKeepsIInv, ResetFactorKeepsIInv
<1>4. CASE (\E s \in Sessions : OpenSession(t, s)) \/ UpgradeSession(t) \/ Revoke(t)
  BY <1>4, OpenSessionKeepsIInv, UpgradeSessionKeepsIInv, RevokeKeepsIInv
<1>5. CASE VerifyCode(t) \/ (\E c \in Codes : FindCode(t, c) \/ CreateCode(t, c)) \/ EraseCodes(t)
  BY <1>5, VerifyCodeKeepsIInv, FindCodeKeepsIInv, CreateCodeKeepsIInv, EraseCodesKeepsIInv
<1>6. CASE ConsumeCode(t)
  BY <1>6, ConsumeCodeKeepsIInv
<1>7. CASE StoreSecret(t) \/ TurnOn(t) \/ DisableFactor(t)
  BY <1>7, FactorWriteKeepsIInv
<1>8. CASE Stop(t)
  BY <1>8, StopKeepsIInv
<1> QED
  BY <1>1, <1>2, <1>3, <1>4, <1>5, <1>6, <1>7, <1>8 DEF Step

\* Time changes a row and no request.
LEMMA RowsKeepIInv ==
  ASSUME IInv, RowsStay, DataTypeOK', OneAccepted', SessionsHaveUsers', UNCHANGED job
  PROVE  IInv'
<1>1. ASSUME NEW u \in Requests, job'[u] # None
      PROVE  Found(job'[u], users', invitations', sessions', codes')
  <2>1. Found(job[u], users, invitations, sessions, codes) /\ job[u] \in Jobs
    BY <1>1, Busy DEF GoodJob
  <2> QED
    BY <2>1, JobFields DEF RowsStay, Found
<1> QED
  BY <1>1 DEF IInv, GoodJob

\* A lock that ends leaves the counters and the other lock as they are.
LEMMA UnlockedRow ==
  ASSUME DataTypeOK, NEW e \in Emails, NEW f \in Factors, LockExpires(e, f)
  PROVE  \E row \in UserRows : /\ users' = [users EXCEPT ![e] = row]
                               /\ row.failed = users[e].failed
                               /\ f # "mfa" => MfaKept(users[e], row)
<1>1. users[e] \in UserRows /\ users' = [users EXCEPT ![e].locked[f] = FALSE]
  BY DEF LockExpires, DataTypeOK
<1> DEFINE row == [users[e] EXCEPT !.locked[f] = FALSE]
<1>2. row \in UserRows /\ row.failed = users[e].failed
      /\ row.locked = [users[e].locked EXCEPT ![f] = FALSE]
      /\ users[e].locked \in [Factors -> BOOLEAN]
  BY <1>1 DEF UserRows
<1> HIDE DEF row
<1>3. f # "mfa" => MfaKept(users[e], row)
  BY <1>2 DEF MfaKept, Factors
<1> QED
  BY <1>1, <1>2, <1>3 DEF row

LEMMA ElapseKeepsIInv ==
  ASSUME IInv, Elapse
  PROVE  IInv'
<1>1. DataTypeOK
  BY DEF IInv
<1>2. ASSUME NEW e \in Emails, NEW f \in Factors, LockExpires(e, f)
      PROVE  IInv'
  <2>1. PICK row \in UserRows : users' = [users EXCEPT ![e] = row]
    BY <1>1, <1>2, UnlockedRow
  <2>2. row # None /\ UNCHANGED <<invitations, sessions, codes, job>> /\ users[e] # None
    BY <1>2, NoneAssumption DEF LockExpires
  <2>3. DataTypeOK' /\ RowsStay
    BY <1>1, <2>1, <2>2 DEF DataTypeOK, RowsStay
  <2>4. OneAccepted' /\ SessionsHaveUsers'
    BY <2>1, <2>2 DEF IInv, DataTypeOK, OneAccepted, Accepted, SessionsHaveUsers, SessionRows
  <2> QED
    BY <2>2, <2>3, <2>4, RowsKeepIInv
<1>3. ASSUME NEW s \in Sessions, SessionExpires(s)
      PROVE  IInv'
  <2> DEFINE row == [sessions[s] EXCEPT !.fresh = FALSE]
  <2>1. sessions[s] # None /\ sessions' = [sessions EXCEPT ![s] = row]
        /\ UNCHANGED <<users, invitations, codes, job>>
    BY <1>3 DEF SessionExpires
  <2>2. row \in SessionRows /\ row.user = sessions[s].user
    BY <1>1, <2>1 DEF DataTypeOK, SessionRows
  <2>3. row # None
    BY <2>2, NoneAssumption
  <2> HIDE DEF row
  <2>4. DataTypeOK' /\ RowsStay
    BY <1>1, <2>1, <2>2, <2>3 DEF DataTypeOK, RowsStay
  <2>5. OneAccepted' /\ SessionsHaveUsers'
    BY <2>1, <2>2 DEF IInv, DataTypeOK, OneAccepted, Accepted, SessionsHaveUsers
  <2> QED
    BY <2>1, <2>4, <2>5, RowsKeepIInv
<1> QED
  BY <1>2, <1>3 DEF Elapse

LEMMA NextKeepsIInv ==
  ASSUME IInv, [Next]_vars
  PROVE  IInv'
<1>1. CASE Next
  BY <1>1, ElapseKeepsIInv, ArriveKeepsIInv, StepKeepsIInv DEF Next
<1>2. CASE UNCHANGED vars
  <2>1. UNCHANGED job /\ UNCHANGED tables
    BY <1>2 DEF vars, tables
  <2> QED
    BY <2>1, RowsKeepIInv
    DEF tables, IInv, DataTypeOK, OneAccepted, Accepted, SessionsHaveUsers, RowsStay
<1> QED
  BY <1>1, <1>2

LEMMA InitIInv ==
  ASSUME Init
  PROVE  IInv
BY DEF Init, IInv, DataTypeOK, OneAccepted, Accepted, SessionsHaveUsers

\* Acceptance and account belong together, requests act on rows that are there and their
\* users', for every set of addresses, invitations, sessions, codes and requests.
THEOREM Invariance == Spec => []IInv
<1>1. Init => IInv
  BY InitIInv
<1>2. IInv /\ [Next]_vars => IInv'
  BY NextKeepsIInv
<1> QED
  BY <1>1, <1>2, PTL DEF Spec

\* Accounts, invitations, sessions, codes and requests keep their types.
THEOREM TypeCorrectness == Spec => []AccountTypeOK
<1>1. IInv => AccountTypeOK
  <2> SUFFICES ASSUME IInv
               PROVE  AccountTypeOK
    OBVIOUS
  <2>1. job \in [Requests -> Jobs \cup {None}]
    BY DEF IInv, GoodJob, Found
  <2> QED
    BY <2>1 DEF IInv, DataTypeOK, AccountTypeOK
<1> QED
  BY <1>1, Invariance, PTL

\* An address has an account exactly when one of its invitations has been accepted, and
\* then no other has (InvitationsService.accept).
THEOREM AcceptanceCreatesTheAccount == Spec => []AccountsComeFromInvitations
<1>1. IInv => AccountsComeFromInvitations
  <2> SUFFICES ASSUME IInv, NEW e \in Emails
               PROVE  Cardinality(Accepted(e)) = IF users[e] = None THEN 0 ELSE 1
    BY DEF AccountsComeFromInvitations, Accepted
  <2>1. CASE users[e] = None
    <3>1. Accepted(e) = {}
      BY <2>1 DEF IInv, OneAccepted
    <3> QED
      BY <2>1, <3>1, FS_EmptySet
  <2>2. CASE users[e] # None
    <3>1. PICK i : Accepted(e) = {i}
      BY <2>2 DEF IInv, OneAccepted
    <3>2. Cardinality({i}) = 1
      BY FS_Singleton
    <3> QED
      BY <2>2, <3>1, <3>2
  <2> QED
    BY <2>1, <2>2
<1> QED
  BY <1>1, Invariance, PTL

-----------------------------------------------------------------------------
(***************************************************************************)
(* What a step may never do.                                               *)
(***************************************************************************)
\* The statements of a request that write accounts.
LEMMA UserStep ==
  ASSUME NEW t \in Requests, Step(t), users' # users
  PROVE  \/ CountFailure(t) \/ LockFactor(t) \/ ResetFactor(t)
         \/ StoreSecret(t) \/ TurnOn(t) \/ DisableFactor(t)
         \/ CreateUser(t)
BY DEF Step, ReadUser, ReadInvitation, DeriveUniqueAccount, InsertInvitation, OpenSession,
   AssertMfaNotLocked, VerifyCode, UpgradeSession, FindCode, CreateCode, NoCode, ConsumeCode,
   ReadFactor, EraseCodes, Revoke, Stop, tables

\* A step of one request leaves the others where they are.
OthersStay(t) == \A u \in Requests \ {t} : job'[u] = job[u]

\* A request keeps its operation and its user until it ends; it comes to use a code only by
\* finding it.
GoesOn(t) ==
  /\ job'[t].op = job[t].op /\ job'[t].user = job[t].user
  /\ job'[t].op = "recover" /\ job'[t].pc = "consume" =>
       \E c \in Codes : FindCode(t, c) /\ job'[t].code = c

LEMMA Replaced ==
  ASSUME IInv, NEW t \in Requests, NEW new, job' = [job EXCEPT ![t] = new]
  PROVE  OthersStay(t) /\ job'[t] = new
BY DEF IInv, OthersStay

LEMMA GotoGoesOn ==
  ASSUME IInv, NEW t \in Requests, job[t] # None, NEW p, p # "consume", Goto(t, p)
  PROVE  OthersStay(t) /\ GoesOn(t)
<1> DEFINE j == job[t]
           new == [j EXCEPT !.pc = p]
<1>1. j \in Jobs
  BY Busy
<1>2. new.op = j.op /\ new.user = j.user /\ new.pc = p
  BY <1>1 DEF Jobs
<1>3. job' = [job EXCEPT ![t] = new]
  BY DEF Goto
<1> HIDE DEF new
<1>4. OthersStay(t) /\ job'[t] = new
  BY <1>3, Replaced
<1> QED
  BY <1>2, <1>4 DEF GoesOn

LEMMA NewCodesGoOn ==
  ASSUME IInv, NEW t \in Requests, job' = [job EXCEPT ![t] = NewCodes(t)]
  PROVE  OthersStay(t) /\ GoesOn(t)
<1>1. OthersStay(t) /\ job'[t] = NewCodes(t)
  BY Replaced
<1>2. NewCodes(t).op = job[t].op /\ NewCodes(t).user = job[t].user /\ NewCodes(t).pc = "codes"
  BY DEF NewCodes
<1> QED
  BY <1>1, <1>2 DEF GoesOn

LEMMA CreateCodeGoesOn ==
  ASSUME IInv, NEW t \in Requests, NEW c \in Codes, CreateCode(t, c)
  PROVE  OthersStay(t) /\ (job'[t] = None \/ GoesOn(t))
<1> DEFINE j == job[t]
           new == AfterCode(j)
<1>1. job' = [job EXCEPT ![t] = new] /\ j # None /\ j.op \in {"enable", "rotate"} /\ j.pc = "codes"
  BY DEF CreateCode, At, IInv
<1>2. j \in Jobs /\ j.left \in 1..CodeCount
  BY <1>1, Busy, JobFields DEF SessionOps, Guarded
<1>3. new = None \/ (new.op = j.op /\ new.user = j.user)
  <2>1. [j EXCEPT !.left = j.left - 1].op = j.op /\ [j EXCEPT !.left = j.left - 1].user = j.user
    BY <1>2 DEF Jobs
  <2>2. j.left > 1 \/ (j.left = 1 /\ j.op = "rotate") \/ (j.left = 1 /\ j.op = "enable")
    BY <1>1, <1>2, AccountsAssumption
  <2>3. CASE j.left > 1
    BY <2>1, <2>3 DEF AfterCode
  <2>4. CASE j.left = 1 /\ j.op = "rotate"
    BY <2>4 DEF AfterCode
  <2>5. CASE j.left = 1 /\ j.op = "enable"
    BY <2>5 DEF AfterCode
  <2> QED
    BY <2>2, <2>3, <2>4, <2>5
<1> HIDE DEF new
<1>4. OthersStay(t) /\ job'[t] = new
  BY <1>1, Replaced
<1> QED
  BY <1>1, <1>3, <1>4 DEF GoesOn

LEMMA RequestGoesOn ==
  ASSUME IInv, NEW t \in Requests, Step(t)
  PROVE  job[t] # None /\ OthersStay(t) /\ (job'[t] = None \/ GoesOn(t))
<1>1. job[t] # None
  BY DEF Step, ReadUser, ReadInvitation, DeriveUniqueAccount, CreateUser, InsertInvitation,
     CountFailure, LockFactor, ResetFactor, OpenSession, AssertMfaNotLocked, VerifyCode,
     UpgradeSession, FindCode, CreateCode, NoCode, ConsumeCode, ReadFactor, StoreSecret, TurnOn,
     EraseCodes, DisableFactor, Revoke, Stop, At
<1>2. Finish(t) => OthersStay(t) /\ job'[t] = None
  BY Replaced DEF Finish
<1>3. ASSUME NEW p, p # "consume", Goto(t, p)
      PROVE  OthersStay(t) /\ GoesOn(t)
  BY <1>1, <1>3, GotoGoesOn
<1>4. CASE ReadUser(t) \/ ReadInvitation(t) \/ CountFailure(t) \/ ResetFactor(t)
  <2>1. Finish(t) \/ \E p : p # "consume" /\ Goto(t, p)
    BY <1>4 DEF ReadUser, ReadInvitation, CountFailure, ResetFactor, At
  <2> QED
    BY <1>1, <1>2, <1>3, <2>1
<1>5. CASE AssertMfaNotLocked(t) \/ NoCode(t) \/ ReadFactor(t) \/ TurnOn(t)
  <2>1. \E p : p # "consume" /\ Goto(t, p)
    BY <1>5 DEF AssertMfaNotLocked, NoCode, ReadFactor, TurnOn
  <2> QED
    BY <1>1, <1>3, <2>1
<1>6. CASE \/ CreateUser(t) \/ (\E i \in Invitations : InsertInvitation(t, i)) \/ LockFactor(t)
           \/ (\E s \in Sessions : OpenSession(t, s)) \/ UpgradeSession(t)
           \/ StoreSecret(t) \/ DisableFactor(t) \/ Revoke(t) \/ Stop(t)
  <2>1. Finish(t)
    BY <1>6 DEF CreateUser, InsertInvitation, LockFactor, OpenSession, UpgradeSession,
       StoreSecret, DisableFactor, Revoke, Stop
  <2> QED
    BY <1>1, <1>2, <2>1
<1>7. CASE DeriveUniqueAccount(t)
  <2> DEFINE name == IF NameTaken(Local[job[t].user]) THEN job[t].user ELSE Local[job[t].user]
             new == [op |-> "accept", pc |-> "create", user |-> job[t].user,
                     invitation |-> job[t].invitation, account |-> name]
  <2>1. job' = [job EXCEPT ![t] = new] /\ job[t].op = "accept"
    BY <1>7 DEF DeriveUniqueAccount, At, IInv
  <2>2. new.op = "accept" /\ new.user = job[t].user
    OBVIOUS
  <2> HIDE DEF new
  <2>3. OthersStay(t) /\ job'[t] = new
    BY <2>1, Replaced
  <2> QED
    BY <1>1, <2>1, <2>2, <2>3 DEF GoesOn
<1>8. CASE VerifyCode(t) \/ EraseCodes(t)
  <2>1. job' = [job EXCEPT ![t] = NewCodes(t)] \/ \E p : p # "consume" /\ Goto(t, p)
    BY <1>8 DEF VerifyCode, EraseCodes, At
  <2> QED
    BY <1>1, <1>3, <2>1, NewCodesGoOn
<1>9. ASSUME NEW c \in Codes, FindCode(t, c)
      PROVE  OthersStay(t) /\ GoesOn(t)
  <2> DEFINE new == [op |-> "recover", pc |-> "consume", user |-> job[t].user,
                     session |-> job[t].session, code |-> c]
  <2>1. job' = [job EXCEPT ![t] = new] /\ job[t].op = "recover"
    BY <1>9 DEF FindCode, At, IInv
  <2>2. new.op = "recover" /\ new.user = job[t].user /\ new.code = c
    OBVIOUS
  <2> HIDE DEF new
  <2>3. OthersStay(t) /\ job'[t] = new
    BY <2>1, Replaced
  <2> QED
    BY <1>9, <2>1, <2>2, <2>3 DEF GoesOn
<1>10. CASE ConsumeCode(t)
  <2> DEFINE new == [op |-> "recover", pc |-> "reset", user |-> job[t].user,
                     session |-> job[t].session]
  <2>1. job' = [job EXCEPT ![t] = new] /\ job[t].op = "recover"
    BY <1>10 DEF ConsumeCode, At, IInv
  <2>2. new.op = "recover" /\ new.user = job[t].user /\ new.pc = "reset"
    OBVIOUS
  <2> HIDE DEF new
  <2>3. OthersStay(t) /\ job'[t] = new
    BY <2>1, Replaced
  <2> QED
    BY <1>1, <2>1, <2>2, <2>3 DEF GoesOn
<1>11. CASE \E c \in Codes : CreateCode(t, c)
  BY <1>1, <1>11, CreateCodeGoesOn
<1> QED
  BY <1>1, <1>4, <1>5, <1>6, <1>7, <1>8, <1>9, <1>10, <1>11 DEF Step

\* A request that arrives changes no table; a step two begins before the check of the lock.
LEMMA ArrivesAtTheCheck ==
  ASSUME IInv, NEW t \in Requests, Arrive(t)
  PROVE  /\ UNCHANGED tables /\ OthersStay(t)
         /\ job'[t].op \in StepTwo => job'[t].pc = "check"
<1>1. UNCHANGED tables
  BY DEF Arrive, RequestInvitation, Login, RequestAcceptance, FindPendingSession, Admit
<1>2. \A new : Start(t, new) => OthersStay(t) /\ job'[t] = new
  BY Replaced DEF Start
<1>3. ASSUME NEW e \in Emails, RequestInvitation(t, e) \/ Login(t, e)
      PROVE  OthersStay(t) /\ job'[t].op \notin StepTwo
  <2>1. CASE RequestInvitation(t, e)
    BY <1>2, <2>1 DEF RequestInvitation, StepTwo
  <2>2. CASE Login(t, e)
    <3>1. PICK pc, status :
            Start(t, [op |-> "login", pc |-> pc, user |-> e, status |-> status])
      BY <2>2 DEF Login
    <3> QED
      BY <1>2, <3>1 DEF StepTwo
  <2> QED
    BY <1>3, <2>1, <2>2
<1>4. ASSUME NEW i \in Invitations, RequestAcceptance(t, i)
      PROVE  OthersStay(t) /\ job'[t].op \notin StepTwo
  BY <1>2, <1>4 DEF RequestAcceptance, StepTwo
<1>5. ASSUME NEW s \in Sessions, FindPendingSession(t, s)
      PROVE  OthersStay(t) /\ job'[t].pc = "check"
  BY <1>2, <1>5 DEF FindPendingSession
<1>6. ASSUME NEW s \in Sessions, Admit(t, s)
      PROVE  OthersStay(t) /\ job'[t].op \notin StepTwo
  BY <1>2, <1>6 DEF Admit, StepTwo, Guarded
<1> QED
  BY <1>1, <1>3, <1>4, <1>5, <1>6 DEF Arrive

\* An upgrade keeps whether each session is revoked, and makes none.
UpgradeStep ==
  \E s \in Sessions : sessions[s] # None /\ sessions' = Upgraded(sessions, s)

\* The steps that change sessions.
LEMMA SessionsKept ==
  ASSUME IInv, [Next]_vars, sessions' # sessions
  PROVE  \/ UpgradeStep
         \/ \E s \in Sessions : SessionExpires(s)
         \/ \E t \in Requests : Revoke(t) \/ \E s \in Sessions : OpenSession(t, s)
<1>1. CASE Elapse
  BY <1>1 DEF Elapse, LockExpires
<1>2. ASSUME NEW t \in Requests, Arrive(t)
      PROVE  FALSE
  BY <1>2 DEF Arrive, RequestInvitation, Login, RequestAcceptance, FindPendingSession, Admit, tables
<1>3. ASSUME NEW t \in Requests, Step(t)
      PROVE  UpgradeSession(t) \/ ConsumeCode(t) \/ Revoke(t) \/ \E s \in Sessions : OpenSession(t, s)
  BY <1>3 DEF Step, ReadUser, ReadInvitation, DeriveUniqueAccount, CreateUser, InsertInvitation,
     CountFailure, LockFactor, ResetFactor, AssertMfaNotLocked, VerifyCode, FindCode, CreateCode,
     NoCode, ReadFactor, StoreSecret, TurnOn, EraseCodes, DisableFactor, Stop, tables
<1>4. ASSUME NEW t \in Requests, ConsumeCode(t)
      PROVE  UpgradeStep
  BY <1>4, ConsumeCodeKeepsIInv DEF UpgradeStep
<1>5. ASSUME NEW t \in Requests, UpgradeSession(t)
      PROVE  UpgradeStep
  <2>1. job[t] # None /\ job[t].op \in SessionOps
        /\ sessions' = Upgraded(sessions, job[t].session)
    BY <1>5 DEF UpgradeSession, At, SessionOps, Guarded
  <2>2. job[t].session \in Sessions /\ sessions[job[t].session] # None
    BY <2>1, UserOf DEF GoodJob, Found
  <2> QED
    BY <2>1, <2>2 DEF UpgradeStep
<1>6. ~UNCHANGED vars
  BY DEF vars
<1> QED
  BY <1>1, <1>2, <1>3, <1>4, <1>5, <1>6 DEF Next

\* A session that was revoked is not usable again, also when a step two or a set-up that was
\* under way upgrades it afterwards.
THEOREM RevokedSessionsStayRevoked == Spec => RevocationIsFinal
<1> DEFINE Final == \A s \in Sessions : sessions[s] # None /\ sessions[s].revoked => ~Usable(s)'
<1>1. ASSUME IInv, [Next]_vars
      PROVE  Final
  <2> SUFFICES ASSUME NEW s \in Sessions, sessions[s] # None, sessions[s].revoked
               PROVE  sessions'[s] # None /\ sessions'[s].revoked
    BY DEF Usable, InForce
  <2>1. CASE sessions' = sessions
    BY <2>1
  <2>2. DataTypeOK
    BY <1>1 DEF IInv
  <2>3. CASE UpgradeStep
    BY <2>2, <2>3, UpgradedRow DEF UpgradeStep
  <2>4. ASSUME NEW r \in Sessions, SessionExpires(r)
        PROVE  sessions'[s] # None /\ sessions'[s].revoked
    <3> DEFINE row == [sessions[r] EXCEPT !.fresh = FALSE]
    <3>1. sessions[r] # None /\ sessions' = [sessions EXCEPT ![r] = row]
      BY <2>4 DEF SessionExpires
    <3>2. row \in SessionRows /\ row.revoked = sessions[r].revoked
      BY <2>2, <3>1 DEF DataTypeOK, SessionRows
    <3>3. row # None
      BY <3>2, NoneAssumption
    <3> HIDE DEF row
    <3> QED
      BY <2>2, <3>1, <3>2, <3>3 DEF DataTypeOK
  <2>5. ASSUME NEW t \in Requests, Revoke(t)
        PROVE  sessions'[s] # None /\ sessions'[s].revoked
    <3>1. PICK chosen : sessions' = [r \in Sessions |-> IF r \in chosen
                          THEN [sessions[r] EXCEPT !.revoked = TRUE] ELSE sessions[r]]
      BY <2>5 DEF Revoke
    <3> QED
      BY <2>2, <3>1, RevokedRow
  <2>6. ASSUME NEW t \in Requests, NEW r \in Sessions, OpenSession(t, r)
        PROVE  sessions'[s] # None /\ sessions'[s].revoked
    BY <2>2, <2>6 DEF OpenSession, DataTypeOK
  <2> QED
    BY <1>1, <2>1, <2>3, <2>4, <2>5, <2>6, SessionsKept
<1> QED
  BY <1>1, Invariance, PTL DEF Spec, RevocationIsFinal

\* A statement that makes a code used is the use of this code.
LEMMA SpendingStep ==
  ASSUME IInv, NEW t \in Requests, Step(t), NEW c \in Codes, codes[c] # None,
         codes'[c].state \notin {codes[c].state, "deleted"}
  PROVE  ConsumeCode(t) /\ job[t].code = c /\ codes'[c].state = "used"
<1>1. DataTypeOK /\ codes[c] \in CodeRows
  BY DEF IInv, DataTypeOK
<1>2. codes' # codes
  OBVIOUS
<1>3. \/ ConsumeCode(t) \/ EraseCodes(t) \/ DisableFactor(t)
      \/ \E d \in Codes : CreateCode(t, d)
  BY <1>2 DEF Step, ReadUser, ReadInvitation, DeriveUniqueAccount, CreateUser,
     InsertInvitation, CountFailure, LockFactor, ResetFactor, OpenSession, AssertMfaNotLocked,
     VerifyCode, UpgradeSession, FindCode, NoCode, ReadFactor, StoreSecret, TurnOn, Revoke, Stop,
     tables
<1>4. CASE EraseCodes(t) \/ DisableFactor(t)
  <2>1. PICK e : codes' = WithoutCodes(e)
    BY <1>4 DEF EraseCodes, DisableFactor
  <2>2. [codes[c] EXCEPT !.state = "deleted"].state = "deleted"
    BY <1>1 DEF CodeRows
  <2> QED
    BY <2>1, <2>2 DEF WithoutCodes
<1>5. ASSUME NEW d \in Codes, CreateCode(t, d)
      PROVE  FALSE
  BY <1>1, <1>5 DEF CreateCode, DataTypeOK
<1>6. CASE ConsumeCode(t)
  <2>1. codes' = [codes EXCEPT ![job[t].code] = [codes[job[t].code] EXCEPT !.state = "used"]]
    BY <1>6 DEF ConsumeCode
  <2>2. job[t].code = c
    BY <1>1, <2>1 DEF DataTypeOK
  <2>3. [codes[c] EXCEPT !.state = "used"].state = "used"
    BY <1>1 DEF CodeRows
  <2> QED
    BY <1>1, <1>6, <2>1, <2>2, <2>3 DEF DataTypeOK
<1> QED
  BY <1>3, <1>4, <1>5, <1>6

\* A statement that makes a waiting session active is an upgrade of this session.
LEMMA UpgradingStep ==
  ASSUME IInv, NEW t \in Requests, Step(t), NEW s \in Sessions, sessions[s] # None,
         sessions[s].status # sessions'[s].status
  PROVE  (UpgradeSession(t) \/ ConsumeCode(t)) /\ job[t].session = s
<1>1. DataTypeOK /\ sessions[s] \in SessionRows
  BY DEF IInv, DataTypeOK
<1>2. sessions' # sessions
  OBVIOUS
<1>3. UpgradeSession(t) \/ ConsumeCode(t) \/ Revoke(t) \/ \E r \in Sessions : OpenSession(t, r)
  BY <1>2 DEF Step, ReadUser, ReadInvitation, DeriveUniqueAccount, CreateUser, InsertInvitation,
     CountFailure, LockFactor, ResetFactor, AssertMfaNotLocked, VerifyCode, FindCode, CreateCode,
     NoCode, ReadFactor, StoreSecret, TurnOn, EraseCodes, DisableFactor, Stop, tables
<1>4. CASE UpgradeSession(t) \/ ConsumeCode(t)
  <2>1. sessions' = Upgraded(sessions, job[t].session)
    BY <1>4 DEF UpgradeSession, ConsumeCode
  <2>2. job[t].session = s
    BY <1>1, <2>1 DEF Upgraded, DataTypeOK
  <2> QED
    BY <1>4, <2>2
<1>5. CASE Revoke(t)
  <2>1. [sessions[s] EXCEPT !.revoked = TRUE].status = sessions[s].status
    BY <1>1 DEF SessionRows
  <2>2. sessions'[s] \in {sessions[s], [sessions[s] EXCEPT !.revoked = TRUE]}
    BY <1>5 DEF Revoke
  <2> QED
    BY <2>1, <2>2
<1>6. ASSUME NEW r \in Sessions, OpenSession(t, r)
      PROVE  FALSE
  BY <1>1, <1>6 DEF OpenSession, DataTypeOK
<1> QED
  BY <1>3, <1>4, <1>5, <1>6

\* A statement of a request that is no step two of e's leaves e locked out.
LEMMA OthersKeepTheLock ==
  ASSUME IInv, NEW e \in Emails, LockedOut(e), NEW t \in Requests, Step(t),
         ~(job[t].op \in StepTwo /\ job[t].user = e)
  PROVE  NothingDecided(e) /\ LockedOut(e)'
<1>1. job[t] # None /\ DataTypeOK
  BY RequestGoesOn DEF IInv
<1>2. users'[e] # None /\ MfaKept(users[e], users'[e])
  <2>1. CASE users' = users
    BY <2>1 DEF MfaKept, LockedOut
  <2>2. CASE CreateUser(t)
    <3>1. users'[e] = users[e]
      BY <1>1, <2>2 DEF CreateUser, LockedOut, DataTypeOK
    <3> QED
      BY <3>1 DEF MfaKept, LockedOut
  <2>3. CASE \/ CountFailure(t) \/ LockFactor(t) \/ ResetFactor(t)
             \/ StoreSecret(t) \/ TurnOn(t) \/ DisableFactor(t)
    <3>1. PICK row \in UserRows :
            /\ users' = [users EXCEPT ![job[t].user] = row]
            /\ job[t].op \notin StepTwo => MfaKept(users[job[t].user], row)
      BY <2>3, CountFailureKeepsIInv, LockFactorKeepsIInv, ResetFactorKeepsIInv,
         FactorWriteKeepsIInv
    <3>2. job[t].op \in {"login"} \cup SessionOps
      BY <2>3 DEF CountFailure, LockFactor, ResetFactor, StoreSecret, TurnOn, DisableFactor, At,
         SessionOps, Guarded
    <3>3. job[t].user \in Emails /\ users[job[t].user] # None
      BY <1>1, <3>2, UserOf
    <3>4. MfaKept(users[e], users'[e])
      BY <1>1, <3>1, <3>3 DEF DataTypeOK, MfaKept
    <3>5. users'[e] # None
      BY <1>1, <3>1, <3>3, NoneAssumption DEF LockedOut, DataTypeOK
    <3> QED
      BY <3>4, <3>5
  <2> QED
    BY <2>1, <2>2, <2>3, UserStep
<1>3. ASSUME NEW c \in Codes, codes[c] # None, codes[c].user = e, codes'[c].state = "used"
      PROVE  codes[c].state = "used"
  <2> SUFFICES ASSUME codes[c].state # "used"
               PROVE  FALSE
    OBVIOUS
  <2>1. ConsumeCode(t) /\ job[t].code = c
    BY <1>3, SpendingStep
  <2>2. job[t].op = "recover" /\ job[t].user = e
    BY <1>3, <2>1, ConsumeCodeKeepsIInv DEF ConsumeCode, At
  <2> QED
    BY <2>2 DEF StepTwo
<1>4. ASSUME NEW s \in Sessions, sessions[s] # None, sessions[s].user = e,
             sessions[s].status = "PENDING_MFA", sessions'[s].status = "ACTIVE"
      PROVE  job[t].op = "enable" /\ job[t].session = s
  <2>1. (UpgradeSession(t) \/ ConsumeCode(t)) /\ job[t].session = s
    BY <1>4, UpgradingStep
  <2>2. job[t].op \in {"verify", "enable", "recover"}
    BY <2>1 DEF UpgradeSession, ConsumeCode, At
  <2>3. job[t].user = e
    BY <1>1, <1>4, <2>1, <2>2, UserOf DEF GoodJob, Found, SessionOps, Guarded
  <2> QED
    BY <2>1, <2>2, <2>3 DEF StepTwo
<1>5. ASSUME NEW u \in Requests, job'[u] # None, job'[u].op \in StepTwo, job'[u].user = e
      PROVE  job'[u].pc = "check"
  <2>1. OthersStay(t) /\ (job'[t] = None \/ GoesOn(t))
    BY RequestGoesOn
  <2>2. u # t
    BY <1>5, <2>1 DEF GoesOn
  <2> QED
    BY <1>5, <2>1, <2>2 DEF LockedOut, StepTwo, OthersStay
<1>6. NothingDecided(e)
  BY <1>1, <1>2, <1>3, <1>4 DEF NothingDecided, MfaKept
<1>7. LockedOut(e)'
  BY <1>2, <1>5 DEF LockedOut, MfaKept, StepTwo
<1> QED
  BY <1>6, <1>7

\* A step two of e's that waits for the check of the lock is refused.
LEMMA LockedOutAreRefused ==
  ASSUME IInv, NEW e \in Emails, LockedOut(e), NEW t \in Requests, Step(t),
         job[t].op \in StepTwo, job[t].user = e
  PROVE  NothingDecided(e) /\ LockedOut(e)'
<1>1. job[t] # None
  BY RequestGoesOn
<1>2. job[t].pc = "check"
  BY <1>1 DEF LockedOut, StepTwo
<1>3. Stop(t)
  BY <1>2 DEF Step, ReadUser, ReadInvitation, DeriveUniqueAccount, CreateUser, InsertInvitation,
     CountFailure, LockFactor, ResetFactor, OpenSession, AssertMfaNotLocked, VerifyCode,
     UpgradeSession, FindCode, CreateCode, NoCode, ConsumeCode, ReadFactor, StoreSecret, TurnOn,
     EraseCodes, DisableFactor, Revoke, At, LockedOut
<1>4. UNCHANGED tables /\ job' = [job EXCEPT ![t] = None]
  BY <1>3 DEF Stop, Finish
<1>5. NothingDecided(e)
  BY <1>4 DEF NothingDecided, tables
<1>6. LockedOut(e)'
  BY <1>4 DEF LockedOut, tables, IInv
<1> QED
  BY <1>5, <1>6

LEMMA TimeKeepsTheLock ==
  ASSUME IInv, NEW e \in Emails, LockedOut(e), Elapse
  PROVE  NothingDecided(e) /\ (LockedOut(e)' \/ LockExpires(e, "mfa"))
<1>1. DataTypeOK
  BY DEF IInv
<1>2. ASSUME NEW d \in Emails, NEW f \in Factors, LockExpires(d, f)
      PROVE  NothingDecided(e) /\ (LockedOut(e)' \/ LockExpires(e, "mfa"))
  <2>1. UNCHANGED <<invitations, sessions, codes, job>>
    BY <1>2 DEF LockExpires
  <2>2. PICK row \in UserRows : /\ users' = [users EXCEPT ![d] = row]
                                /\ row.failed = users[d].failed
                                /\ f # "mfa" => MfaKept(users[d], row)
    BY <1>1, <1>2, UnlockedRow
  <2>3. users'[e].failed["mfa"] = users[e].failed["mfa"]
    BY <1>1, <2>2 DEF DataTypeOK
  <2>4. NothingDecided(e)
    BY <2>1, <2>3 DEF NothingDecided
  <2>5. CASE d = e /\ f = "mfa"
    BY <1>2, <2>4, <2>5
  <2>6. CASE d # e \/ f # "mfa"
    <3>1. users'[e] # None /\ users'[e].locked["mfa"]
      BY <1>1, <2>2, <2>6, NoneAssumption DEF DataTypeOK, MfaKept, LockedOut
    <3>2. LockedOut(e)'
      BY <2>1, <3>1 DEF LockedOut
    <3> QED
      BY <2>4, <3>2
  <2> QED
    BY <2>5, <2>6
<1>3. ASSUME NEW s \in Sessions, SessionExpires(s)
      PROVE  NothingDecided(e) /\ LockedOut(e)'
  <2> DEFINE row == [sessions[s] EXCEPT !.fresh = FALSE]
  <2>1. sessions[s] # None /\ sessions' = [sessions EXCEPT ![s] = row]
        /\ UNCHANGED <<users, invitations, codes, job>>
    BY <1>3 DEF SessionExpires
  <2>2. row.status = sessions[s].status
    BY <1>1, <2>1 DEF DataTypeOK, SessionRows
  <2> HIDE DEF row
  <2>3. \A r \in Sessions : sessions'[r].status = sessions[r].status
    BY <1>1, <2>1, <2>2 DEF DataTypeOK
  <2> QED
    BY <2>1, <2>3 DEF NothingDecided, LockedOut
<1> QED
  BY <1>2, <1>3 DEF Elapse

\* When the last step two that saw the second factor unlocked has ended, every other is
\* refused until the lock's period ends (AuthService.assertMfaNotLocked).
THEOREM LockedOutUntilItEnds == Spec => LockoutHolds
<1> DEFINE Holds(e) == NothingDecided(e) /\ (LockedOut(e)' \/ LockExpires(e, "mfa"))
<1>1. ASSUME IInv, [Next]_vars, NEW e \in Emails, LockedOut(e)
      PROVE  Holds(e)
  <2>1. ASSUME NEW t \in Requests, Arrive(t)
        PROVE  Holds(e)
    <3>1. /\ UNCHANGED tables /\ OthersStay(t)
          /\ job'[t].op \in StepTwo => job'[t].pc = "check"
      BY <1>1, <2>1, ArrivesAtTheCheck
    <3>2. LockedOut(e)'
      BY <1>1, <3>1 DEF LockedOut, tables, OthersStay, StepTwo
    <3> QED
      BY <3>1, <3>2 DEF NothingDecided, tables
  <2>2. ASSUME NEW t \in Requests, Step(t)
        PROVE  Holds(e)
    BY <1>1, <2>2, OthersKeepTheLock, LockedOutAreRefused
  <2>3. CASE UNCHANGED vars
    BY <1>1, <2>3 DEF vars, NothingDecided, LockedOut
  <2> QED
    BY <1>1, <2>1, <2>2, <2>3, TimeKeepsTheLock DEF Next
<1>2. IInv /\ [Next]_vars => \A e \in Emails : LockedOut(e) => Holds(e)
  BY <1>1
<1> QED
  BY <1>2, Invariance, PTL DEF Spec, LockoutHolds

\* A recovery code that has been used or taken away is used, if at all, by the logins that
\* had found it by then (MfaService.verifyRecoveryCode).
THEOREM SpentCodesAreNotFound == Spec => SpentCodesDrain
<1> DEFINE Drains(c) == codes[c] # None /\ codes[c].state # "unused" =>
             /\ codes'[c].state \in {codes[c].state, "deleted"}
             /\ Holders(c)' \subseteq Holders(c)
<1>1. ASSUME IInv, [Next]_vars, NEW c \in Codes, codes[c] # None, codes[c].state # "unused"
      PROVE  codes'[c].state \in {codes[c].state, "deleted"} /\ Holders(c)' \subseteq Holders(c)
  <2>1. ASSUME NEW t \in Requests, Arrive(t)
        PROVE  codes' = codes /\ Holders(c)' \subseteq Holders(c)
    <3>1. /\ UNCHANGED tables /\ OthersStay(t)
          /\ job'[t].op \in StepTwo => job'[t].pc = "check"
      BY <1>1, <2>1, ArrivesAtTheCheck
    <3> QED
      BY <3>1 DEF tables, Holders, StepTwo, OthersStay
  <2>2. ASSUME NEW t \in Requests, Step(t)
        PROVE  codes'[c].state \in {codes[c].state, "deleted"} /\ Holders(c)' \subseteq Holders(c)
    <3>1. codes'[c].state \in {codes[c].state, "deleted"}
      <4> SUFFICES ASSUME codes'[c].state \notin {codes[c].state, "deleted"}
                   PROVE  FALSE
        OBVIOUS
      <4>1. ConsumeCode(t) /\ job[t].code = c /\ codes'[c].state = "used"
        BY <1>1, <2>2, SpendingStep
      <4>2. codes[c].state \in {"unused", "used", "deleted"}
        BY <1>1 DEF IInv, DataTypeOK, CodeRows
      <4> QED
        BY <1>1, <4>1, <4>2 DEF ConsumeCode
    <3>2. OthersStay(t) /\ (job'[t] = None \/ GoesOn(t))
      BY <1>1, <2>2, RequestGoesOn
    <3>3. ASSUME NEW u \in Holders(c)'
          PROVE  u \in Holders(c)
      <4>1. u \in Requests /\ job'[u] # None /\ job'[u].op = "recover"
            /\ job'[u].pc = "consume" /\ job'[u].code = c
        BY <3>3 DEF Holders
      <4>2. u # t
        <5> SUFFICES ASSUME u = t
                     PROVE  FALSE
          OBVIOUS
        <5>1. FindCode(t, c)
          BY <3>2, <4>1 DEF GoesOn
        <5>2. codes[c].state = "unused"
          BY <5>1 DEF FindCode
        <5> QED
          BY <1>1, <5>2
      <4> QED
        BY <3>2, <4>1, <4>2 DEF Holders, OthersStay
    <3> QED
      BY <3>1, <3>3
  <2>3. CASE Elapse \/ UNCHANGED vars
    BY <2>3 DEF Elapse, LockExpires, SessionExpires, vars, Holders
  <2> QED
    BY <1>1, <2>1, <2>2, <2>3 DEF Next
<1>2. IInv /\ [Next]_vars => \A c \in Codes : Drains(c)
  BY <1>1
<1> QED
  BY <1>2, Invariance, PTL DEF Spec, SpentCodesDrain
=============================================================================
