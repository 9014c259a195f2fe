------------------------------ MODULE Accounts ------------------------------
(***************************************************************************)
(* Accounts from the invitation to the signed-in session:                  *)
(* InvitationsService, AuthService, SessionsService and MfaService.  The   *)
(* insertion and the acceptance of an invitation, recovery login and the   *)
(* removal of the second factor are transactions; everything else is a     *)
(* sequence of single statements with other requests between any two.      *)
(*                                                                         *)
(* Durations (7 days, 5 minutes, 30 days, 15 minutes) are abstracted: what *)
(* has been given a period may see it end at any time.  Whether a password *)
(* or a code is right is a choice.                                          *)
(***************************************************************************)
EXTENDS Naturals, FiniteSets

CONSTANTS
  Emails,            \* addresses; an account is known by its address
  Local,             \* Local[e]: the part of the address before the @
  Invitations, Sessions, Codes,  \* ids of rows; a row's id is never used again
  Requests,          \* API requests in flight at the same time
  None,
  SignsIn,           \* bound: the addresses that log in
  Mistaken,          \* bound: the steps of a login that are answered wrongly
  MaxFailed,         \* MAX_FAILED_ATTEMPTS and MAX_MFA_ATTEMPTS
  MaxCount,          \* bound: failed_login_count and mfa_failed_attempts
  CodeCount          \* RECOVERY_CODE_COUNT

Factors == {"password", "mfa"}

ASSUME AccountsAssumption ==
  /\ DOMAIN Local = Emails
  /\ \A e \in Emails : Local[e] \notin Emails
  /\ SignsIn \subseteq Emails
  /\ Mistaken \subseteq Factors
  /\ MaxFailed \in Nat \ {0}
  /\ MaxCount \in Nat /\ MaxCount >= MaxFailed
  /\ CodeCount \in Nat \ {0}

Names == {Local[e] : e \in Emails} \cup Emails

UserRows ==
  [account : Names, enabled : BOOLEAN, secret : BOOLEAN,
   failed : [Factors -> 0..MaxCount], locked : [Factors -> BOOLEAN]]

InvitationRows ==
  [email : Emails, status : {"PENDING", "ACCEPTED"}]

SessionRows ==
  [user : Emails, status : {"PENDING_MFA", "ACTIVE"}, fresh : BOOLEAN, revoked : BOOLEAN]

CodeRows == [user : Emails, state : {"unused", "used", "deleted"}]

VARIABLES
  users,        \* users[e]: the account of the address, or None
  invitations,  \* invitations[i], which is also its entry in EmailOutbox
  sessions,     \* sessions[s]
  codes,        \* codes[c]: a recovery code
  job           \* job[t]: the request t, None when idle

tables == <<users, invitations, sessions, codes>>

vars == <<users, invitations, sessions, codes, job>>

(***************************************************************************)
(* Requests.  "pc" names the statement the request runs next.              *)
(***************************************************************************)
Guarded == {"setup", "enable", "rotate", "disable", "revoke"}

Jobs ==
  [op : {"invite"}, pc : {"readBoth", "readUser", "readInvitation", "insert"}, user : Emails]
  \cup [op : {"accept"}, pc : {"derive"}, user : Emails, invitation : Invitations]
  \cup [op : {"accept"}, pc : {"create"}, user : Emails, invitation : Invitations,
        account : Names]
  \cup [op : {"login"}, pc : {"count", "lock", "reset", "open"}, user : Emails,
        status : {"PENDING_MFA", "ACTIVE"}]
  \cup [op : {"verify", "recover"} \cup Guarded, user : Emails, session : Sessions,
        pc : {"check", "verify", "find", "count", "lock", "reset", "upgrade",
              "begin", "store", "erase", "clear", "turnOn", "revoke"}]
  \cup [op : {"recover"}, pc : {"consume"}, user : Emails, session : Sessions, code : Codes]
  \cup [op : {"enable", "rotate"}, pc : {"codes"}, user : Emails, session : Sessions,
        left : 1..CodeCount]

ASSUME NoneAssumption ==
  None \notin UserRows \cup InvitationRows \cup SessionRows \cup CodeRows \cup Jobs

AccountTypeOK ==
  /\ users \in [Emails -> UserRows \cup {None}]
  /\ invitations \in [Invitations -> InvitationRows \cup {None}]
  /\ sessions \in [Sessions -> SessionRows \cup {None}]
  /\ codes \in [Codes -> CodeRows \cup {None}]
  /\ job \in [Requests -> Jobs \cup {None}]

Init ==
  /\ users = [e \in Emails |-> None]
  /\ invitations = [i \in Invitations |-> None]
  /\ sessions = [s \in Sessions |-> None]
  /\ codes = [c \in Codes |-> None]
  /\ job = [t \in Requests |-> None]

Start(t, new) == job[t] = None /\ job' = [job EXCEPT ![t] = new]

At(t, ops, pc) == job[t] # None /\ job[t].op \in ops /\ job[t].pc = pc

Goto(t, pc) == job' = [job EXCEPT ![t].pc = pc]

Finish(t) == job' = [job EXCEPT ![t] = None]

\* The request stops: an early return, an error answer, a failed statement or a lost process.
\* A transaction that has not committed leaves nothing behind.
Stop(t) == job[t] # None /\ Finish(t) /\ UNCHANGED tables

(***************************************************************************)
(* Invitations.                                                            *)
(***************************************************************************)
HasPending(e) ==
  \E i \in Invitations : invitations[i] # None /\ invitations[i].email = e
                           /\ invitations[i].status = "PENDING"

RequestInvitation(t, e) ==
  Start(t, [op |-> "invite", pc |-> "readBoth", user |-> e]) /\ UNCHANGED tables

\* The two reads are sent together and answered in either order.
ReadUser(t) ==
  /\ At(t, {"invite"}, "readBoth") \/ At(t, {"invite"}, "readUser")
  /\ users[job[t].user] = None
  /\ Goto(t, IF job[t].pc = "readBoth" THEN "readInvitation" ELSE "insert")
  /\ UNCHANGED tables

ReadInvitation(t) ==
  /\ At(t, {"invite"}, "readBoth") \/ At(t, {"invite"}, "readInvitation")
  /\ ~HasPending(job[t].user)
  /\ Goto(t, IF job[t].pc = "readBoth" THEN "readUser" ELSE "insert")
  /\ UNCHANGED tables

InsertInvitation(t, i) ==
  /\ At(t, {"invite"}, "insert")
  /\ invitations[i] = None
  /\ invitations' = [invitations EXCEPT ![i] =
       [email |-> job[t].user, status |-> "PENDING"]]
  /\ Finish(t)
  /\ UNCHANGED <<users, sessions, codes>>

\* An invitation that is older than its 7 days is refused here and nowhere else, and
\* keeps its status: refused requests change nothing, so its age is not modelled.
RequestAcceptance(t, i) ==
  /\ invitations[i] # None
  /\ invitations[i].status = "PENDING"
  /\ Start(t, [op |-> "accept", pc |-> "derive", user |-> invitations[i].email,
               invitation |-> i])
  /\ UNCHANGED tables

NameTaken(name) == \E e \in Emails : users[e] # None /\ users[e].account = name

DeriveUniqueAccount(t) ==
  /\ At(t, {"accept"}, "derive")
  /\ LET e == job[t].user
         name == IF NameTaken(Local[e]) THEN e ELSE Local[e]
     IN  job' = [job EXCEPT ![t] = [op |-> "accept", pc |-> "create", user |-> e,
                                    invitation |-> @.invitation, account |-> name]]
  /\ UNCHANGED tables

NewUser(name) ==
  [account |-> name, enabled |-> FALSE, secret |-> FALSE,
   failed |-> [f \in Factors |-> 0], locked |-> [f \in Factors |-> FALSE]]

\* Mutant: the address of an account is not unique, a second acceptance replaces the first.
CreateUserAnyway(t) ==
  /\ At(t, {"accept"}, "create")
  /\ users' = [users EXCEPT ![job[t].user] = NewUser(job[t].account)]
  /\ invitations' = [invitations EXCEPT ![job[t].invitation].status = "ACCEPTED"]
  /\ Finish(t)
  /\ UNCHANGED <<sessions, codes>>

\* work_email and account are unique: otherwise the transaction fails (Stop).
CreateUser(t) ==
  /\ At(t, {"accept"}, "create")
  /\ users[job[t].user] = None /\ ~NameTaken(job[t].account)
  /\ users' = [users EXCEPT ![job[t].user] = NewUser(job[t].account)]
  /\ invitations' = [invitations EXCEPT ![job[t].invitation].status = "ACCEPTED"]
  /\ Finish(t)
  /\ UNCHANGED <<sessions, codes>>

(***************************************************************************)
(* Throttling of the two steps of a login.                                 *)
(***************************************************************************)
Factor(op) == IF op = "login" THEN "password" ELSE "mfa"

CountFailure(t) ==
  /\ At(t, {"login", "verify", "recover"}, "count")
  /\ LET f == Factor(job[t].op)
         count == users[job[t].user].failed[f] + 1
     IN  /\ count <= MaxCount
         /\ users' = [users EXCEPT ![job[t].user].failed[f] = count]
         /\ IF count >= MaxFailed THEN Goto(t, "lock") ELSE Finish(t)
  /\ UNCHANGED <<invitations, sessions, codes>>

LockFactor(t) ==
  /\ At(t, {"login", "verify", "recover"}, "lock")
  /\ users' = [users EXCEPT ![job[t].user].locked[Factor(job[t].op)] = TRUE]
  /\ Finish(t)
  /\ UNCHANGED <<invitations, sessions, codes>>

ResetFactor(t) ==
  /\ At(t, {"login", "verify", "recover"}, "reset")
  /\ LET f == Factor(job[t].op) IN
       users' = [users EXCEPT ![job[t].user].failed[f] = 0, ![job[t].user].locked[f] = FALSE]
  /\ CASE job[t].op = "login" -> Goto(t, "open")
       [] job[t].op = "verify" -> Goto(t, "upgrade")
       [] job[t].op = "recover" -> Finish(t)
  /\ UNCHANGED <<invitations, sessions, codes>>

LockExpires(e, f) ==
  /\ users[e] # None /\ users[e].locked[f]
  /\ users' = [users EXCEPT ![e].locked[f] = FALSE]
  /\ UNCHANGED <<invitations, sessions, codes, job>>

(***************************************************************************)
(* Login and sessions.                                                     *)
(***************************************************************************)
\* A privileged role asks for the second factor although it is not enabled yet;
\* roles are given by code outside this module, so either may be the case.
Login(t, e) ==
  /\ e \in SignsIn
  /\ users[e] # None /\ ~users[e].locked["password"]
  /\ \E privileged \in BOOLEAN, pc \in {"reset"} \cup {"count" : f \in Mistaken \cap {"password"}} :
       Start(t, [op |-> "login", pc |-> pc, user |-> e,
                 status |-> IF users[e].enabled \/ privileged THEN "PENDING_MFA" ELSE "ACTIVE"])
  /\ UNCHANGED tables

OpenSession(t, s) ==
  /\ At(t, {"login"}, "open")
  /\ sessions[s] = None
  /\ sessions' = [sessions EXCEPT ![s] =
       [user |-> job[t].user, status |-> job[t].status, fresh |-> TRUE, revoked |-> FALSE]]
  /\ Finish(t)
  /\ UNCHANGED <<users, invitations, codes>>

SessionExpires(s) ==
  /\ sessions[s] # None /\ sessions[s].fresh
  /\ sessions' = [sessions EXCEPT ![s].fresh = FALSE]
  /\ UNCHANGED <<users, invitations, codes, job>>

InForce(s) == sessions[s] # None /\ sessions[s].fresh /\ ~sessions[s].revoked

\* SessionsService.validate.
Usable(s) == InForce(s) /\ sessions[s].status = "ACTIVE"

\* Mutant: the update writes the whole row as it was read.
UpgradedWhole(rows, s) ==
  [rows EXCEPT ![s].status = "ACTIVE", ![s].fresh = TRUE, ![s].revoked = FALSE]

Upgraded(rows, s) == [rows EXCEPT ![s].status = "ACTIVE", ![s].fresh = TRUE]

\* Step two of a login: findPendingSession.
FindPendingSession(t, s) ==
  /\ InForce(s) /\ sessions[s].status = "PENDING_MFA"
  /\ \E op \in {"verify", "recover"} :
       Start(t, [op |-> op, pc |-> "check", user |-> sessions[s].user, session |-> s])
  /\ UNCHANGED tables

\* Mutant: only the verification of a code looks at the lock, recovery login does not.
AssertNotLockedToVerify(t) ==
  /\ At(t, {"verify", "recover"}, "check")
  /\ job[t].op = "verify" => ~users[job[t].user].locked["mfa"]
  /\ Goto(t, IF job[t].op = "verify" THEN "verify" ELSE "find")
  /\ UNCHANGED tables

AssertMfaNotLocked(t) ==
  /\ At(t, {"verify", "recover"}, "check")
  /\ ~users[job[t].user].locked["mfa"]
  /\ Goto(t, IF job[t].op = "verify" THEN "verify" ELSE "find")
  /\ UNCHANGED tables

\* The recovery codes of a set are written one by one.
NewCodes(t) ==
  [op |-> job[t].op, pc |-> "codes", user |-> job[t].user, session |-> job[t].session,
   left |-> CodeCount]

\* A code can be right only while there is a secret; where no failure is counted, a
\* wrong one stops the request.
VerifyCode(t) ==
  /\ At(t, {"verify", "enable", "rotate", "disable"}, "verify")
  /\ \/ /\ users[job[t].user].secret
        /\ CASE job[t].op = "verify" -> Goto(t, "reset")
             [] job[t].op = "enable" -> job' = [job EXCEPT ![t] = NewCodes(t)]
             [] job[t].op = "rotate" -> Goto(t, "erase")
             [] job[t].op = "disable" -> Goto(t, "clear")
     \/ job[t].op = "verify" /\ "mfa" \in Mistaken /\ Goto(t, "count")
  /\ UNCHANGED tables

\* SessionsService.activatePending and the update of verifyMfaChallenge: by id only.
UpgradeSession(t) ==
  /\ At(t, {"verify", "enable"}, "upgrade")
  /\ sessions' = Upgraded(sessions, job[t].session)
  /\ Finish(t)
  /\ UNCHANGED <<users, invitations, codes>>

\* Mutant: the code that is read may have been used.
FindStoredCode(t, c) ==
  /\ At(t, {"recover"}, "find")
  /\ codes[c] # None /\ codes[c].user = job[t].user /\ codes[c].state # "deleted"
  /\ job' = [job EXCEPT ![t] = [op |-> "recover", pc |-> "consume", user |-> @.user,
                                session |-> @.session, code |-> c]]
  /\ UNCHANGED tables

\* Recovery login reads an unused code of the account, or counts a failure.
FindCode(t, c) ==
  /\ At(t, {"recover"}, "find")
  /\ codes[c] = [user |-> job[t].user, state |-> "unused"]
  /\ job' = [job EXCEPT ![t] = [op |-> "recover", pc |-> "consume", user |-> @.user,
                                session |-> @.session, code |-> c]]
  /\ UNCHANGED tables

NoCode(t) ==
  At(t, {"recover"}, "find") /\ "mfa" \in Mistaken /\ Goto(t, "count") /\ UNCHANGED tables

\* The rest of the transaction, which updates the code by its id: one that another login
\* has used since the read is used again, one deleted meanwhile fails it (Stop).
ConsumeCode(t) ==
  /\ At(t, {"recover"}, "consume")
  /\ codes[job[t].code].state # "deleted"
  /\ codes' = [codes EXCEPT ![job[t].code].state = "used"]
  /\ sessions' = Upgraded(sessions, job[t].session)
  /\ job' = [job EXCEPT ![t] = [op |-> "recover", pc |-> "reset", user |-> @.user,
                                session |-> @.session]]
  /\ UNCHANGED <<users, invitations>>

(***************************************************************************)
(* The second factor and the user's sessions, behind SessionGuard.         *)
(***************************************************************************)
\* The guard; setting up and enabling are open to a session that waits for step two.
Admit(t, s) ==
  /\ \E op \in Guarded :
       /\ Usable(s) \/ (InForce(s) /\ op \in {"setup", "enable"})
       /\ Start(t, [op |-> op, user |-> sessions[s].user, session |-> s,
                    pc |-> IF op = "revoke" THEN "revoke" ELSE "begin"])
  /\ UNCHANGED tables

\* Reads mfaEnabled; a wrong password stops the request.
ReadFactor(t) ==
  /\ At(t, {"setup", "enable", "rotate", "disable"}, "begin")
  /\ CASE job[t].op \in {"setup", "enable"} -> ~users[job[t].user].enabled
       [] job[t].op = "rotate" -> users[job[t].user].enabled
       [] OTHER -> TRUE
  /\ Goto(t, IF job[t].op = "setup" THEN "store" ELSE "verify")
  /\ UNCHANGED tables

StoreSecret(t) ==
  /\ At(t, {"setup"}, "store")
  /\ users' = [users EXCEPT ![job[t].user].secret = TRUE]
  /\ Finish(t)
  /\ UNCHANGED <<invitations, sessions, codes>>

\* What a request does after one code of its set.
AfterCode(j) ==
  CASE j.left > 1 -> [j EXCEPT !.left = @ - 1]
    [] j.left = 1 /\ j.op = "rotate" -> None
    [] j.left = 1 /\ j.op = "enable" ->
         [op |-> "enable", pc |-> "turnOn", user |-> j.user, session |-> j.session]

CreateCode(t, c) ==
  /\ At(t, {"enable", "rotate"}, "codes")
  /\ codes[c] = None
  /\ codes' = [codes EXCEPT ![c] = [user |-> job[t].user, state |-> "unused"]]
  /\ job' = [job EXCEPT ![t] = AfterCode(@)]
  /\ UNCHANGED <<users, invitations, sessions>>

TurnOn(t) ==
  /\ At(t, {"enable"}, "turnOn")
  /\ users' = [users EXCEPT ![job[t].user].enabled = TRUE]
  /\ Goto(t, "upgrade")
  /\ UNCHANGED <<invitations, sessions, codes>>

WithoutCodes(e) ==
  [c \in Codes |-> IF codes[c] # None /\ codes[c].user = e
                   THEN [codes[c] EXCEPT !.state = "deleted"] ELSE codes[c]]

EraseCodes(t) ==
  /\ At(t, {"rotate"}, "erase")
  /\ codes' = WithoutCodes(job[t].user)
  /\ job' = [job EXCEPT ![t] = NewCodes(t)]
  /\ UNCHANGED <<users, invitations, sessions>>

DisableFactor(t) ==
  /\ At(t, {"disable"}, "clear")
  /\ users' = [users EXCEPT ![job[t].user].enabled = FALSE, ![job[t].user].secret = FALSE]
  /\ codes' = WithoutCodes(job[t].user)
  /\ Finish(t)
  /\ UNCHANGED <<invitations, sessions>>

OwnSessions(e) == {s \in Sessions : sessions[s] # None /\ sessions[s].user = e}

\* logout, revokeById and revokeAll: this session, one or all of the user's.
Revoke(t) ==
  /\ At(t, {"revoke"}, "revoke")
  /\ LET own == OwnSessions(job[t].user) IN
       \E chosen \in {{s} : s \in own} \cup {own} :
         sessions' = [s \in Sessions |-> IF s \in chosen
                        THEN [sessions[s] EXCEPT !.revoked = TRUE] ELSE sessions[s]]
  /\ Finish(t)
  /\ UNCHANGED <<users, invitations, codes>>

Step(t) ==
  \/ ReadUser(t) \/ ReadInvitation(t) \/ DeriveUniqueAccount(t) \/ CreateUser(t)
  \/ \E i \in Invitations : InsertInvitation(t, i)
  \/ CountFailure(t) \/ LockFactor(t) \/ ResetFactor(t)
  \/ \E s \in Sessions : OpenSession(t, s)
  \/ AssertMfaNotLocked(t) \/ VerifyCode(t) \/ UpgradeSession(t)
  \/ \E c \in Codes : FindCode(t, c) \/ CreateCode(t, c)
  \/ NoCode(t) \/ ConsumeCode(t)
  \/ ReadFactor(t) \/ StoreSecret(t) \/ TurnOn(t) \/ EraseCodes(t) \/ DisableFactor(t)
  \/ Revoke(t) \/ Stop(t)

Arrive(t) ==
  \/ \E e \in Emails : RequestInvitation(t, e) \/ Login(t, e)
  \/ \E i \in Invitations : RequestAcceptance(t, i)
  \/ \E s \in Sessions : FindPendingSession(t, s) \/ Admit(t, s)

Elapse ==
  \/ \E e \in Emails, f \in Factors : LockExpires(e, f)
  \/ \E s \in Sessions : SessionExpires(s)

Next == Elapse \/ \E t \in Requests : Arrive(t) \/ Step(t)

Spec == Init /\ [][Next]_vars

(***************************************************************************)
(* Properties.                                                             *)
(***************************************************************************)
\* However many invitations of one address came about and are answered at the same
\* time, an address has an account exactly when one of them has been accepted, and then
\* no other can be: acceptance spends the invitation and creates the account together.
AccountsComeFromInvitations ==
  \A e \in Emails :
    Cardinality({i \in Invitations : invitations[i] # None /\ invitations[i].email = e
                                       /\ invitations[i].status = "ACCEPTED"})
      = IF users[e] = None THEN 0 ELSE 1

\* The second factor of e is locked, and no step two of a login that saw it unlocked is
\* under way any more.
LockedOut(e) ==
  /\ users[e] # None /\ users[e].locked["mfa"]
  /\ \A t \in Requests :
       job[t] # None /\ job[t].op \in {"verify", "recover"} /\ job[t].user = e =>
         job[t].pc = "check"

\* No failure of e is counted, none of its codes is used and none of its sessions upgraded
\* by a step two: setting up the factor with a code of the new secret is not a login.
NothingDecided(e) ==
  /\ users'[e].failed["mfa"] = users[e].failed["mfa"]
  /\ \A c \in Codes :
       codes[c] # None /\ codes[c].user = e /\ codes'[c].state = "used" =>
         codes[c].state = "used"
  /\ \A s \in Sessions :
       sessions[s] # None /\ sessions[s].user = e
         /\ sessions[s].status = "PENDING_MFA" /\ sessions'[s].status = "ACTIVE" =>
       \E t \in Requests : job[t] # None /\ job[t].op = "enable" /\ job[t].session = s

\* The lock on the second factor is read once, before the code is looked at: a request past
\* that read may still fail, succeed, or take the lock away.  When the last of them has
\* ended, nothing but the end of its period undoes the lock, and until then every step two
\* of the account is refused, whatever else its sessions do.
LockoutHolds ==
  [][\A e \in Emails : LockedOut(e) =>
       NothingDecided(e) /\ (LockedOut(e)' \/ LockExpires(e, "mfa"))]_vars

\* A session that was logged out or revoked is never usable again, also when step two of
\* its login or the set-up of the second factor was under way and upgrades it afterwards.
RevocationIsFinal ==
  [][\A s \in Sessions : sessions[s] # None /\ sessions[s].revoked => ~Usable(s)']_vars

\* The recovery logins that have found the code unused and are about to use it.
Holders(c) ==
  {t \in Requests : job[t] # None /\ job[t].op = "recover" /\ job[t].pc = "consume"
                      /\ job[t].code = c}

\* Concurrent logins may share a recovery code, but only those that had found it before
\* the first of them used it: afterwards nobody else finds it, nothing makes it good
\* again, and a code that a rotation or a removal has taken away is not used any more.
SpentCodesDrain ==
  [][\A c \in Codes : codes[c] # None /\ codes[c].state # "unused" =>
       /\ codes'[c].state \in {codes[c].state, "deleted"}
       /\ Holders(c)' \subseteq Holders(c)]_vars
=============================================================================
