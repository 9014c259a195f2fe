----------------------------- MODULE References -----------------------------
(***************************************************************************)
(* Projects, the customers and portfolios they refer to, and the contacts  *)
(* of customers: CustomersService, PortfoliosService and the part of       *)
(* ProjectsService that creates projects and changes their references.     *)
(* Who is a member or a manager of which project is fixed here             *)
(* (ProjectMembers models how that changes).                               *)
(*                                                                         *)
(* Serializable transactions take a snapshot and commit, unless a row they *)
(* write has been written since; other failures are covered by Abort,      *)
(* which may always happen.  The other operations are READ COMMITTED; each *)
(* has one statement that checks what it needs and takes effect.           *)
(***************************************************************************)
EXTENDS Naturals, Functions

CONSTANTS
  Users,
  Projects, Customers, Portfolios, Contacts,  \* ids; contacts are numbered per customer
  Members, Managers,   \* Members[p], Managers[p]: users of project p
  None,                \* no reference; no row
  Drafts, Patches,     \* the projects that requests create, the changes they ask of one
  Requests,            \* API requests in flight at the same time
  Attempts,            \* SERIALIZABLE_TRANSACTION_ATTEMPTS
  MaxWrites            \* bound: versions of all projects and customers together

ProjectStatuses == {"DRAFT", "ACTIVE", "ON_HOLD", "COMPLETED", "ARCHIVED"}

ProjectFields ==
  [status : ProjectStatuses, customer : Customers \cup {None}, portfolio : Portfolios \cup {None}]

CustomerRows == [open : BOOLEAN, contacts : [Contacts -> {"ABSENT", "PRESENT", "ARCHIVED"}]]

ASSUME ReferencesAssumption ==
  /\ Members \in [Projects -> SUBSET Users]
  /\ Managers \in [Projects -> SUBSET Users]
  /\ \A p \in Projects : Managers[p] \subseteq Members[p]
  /\ None \notin Customers \cup Portfolios \cup ProjectFields \cup CustomerRows
  /\ Drafts \subseteq {fields \in ProjectFields : fields.status = "DRAFT"}
  /\ \A patch \in Patches : \E fields \in ProjectFields : \E names \in SUBSET DOMAIN fields :
       patch = [f \in names |-> fields[f]] /\ ("status" \in names => patch.status # "ARCHIVED")
  /\ Attempts \in Nat \ {0}
  /\ MaxWrites \in Nat \ {0}

VARIABLES
  project,          \* project[p]: status and references, None before creation
  projectVersion,   \* projectVersion[p]: projects.version
  customer,         \* customer[c]: open or archived, and its contacts; None before creation
  customerVersion,  \* customerVersion[c]: customers.version
  portfolio,        \* portfolio[f]: open or archived, and its one member
  job               \* job[t]: the request t

dataVars == <<project, projectVersion, customer, customerVersion, portfolio>>
vars == <<project, projectVersion, customer, customerVersion, portfolio, job>>

(***************************************************************************)
(* Who sees what.                                                          *)
(***************************************************************************)
ProjectOpen(p) == project[p] # None /\ project[p].status # "ARCHIVED"
CustomerOpen(c) == customer[c] # None /\ customer[c].open
PortfolioOpen(f) == portfolio[f] # None /\ portfolio[f].open

BoundTo(c) == {p \in Projects : project[p] # None /\ project[p].customer = c}

CanManageProject(u, p) == ProjectOpen(p) /\ u \in Managers[p]

\* A project through which u may work on its customer; not every open project is.
Sensitive(u, p) == CanManageProject(u, p) /\ project[p].status = "ACTIVE"

CanManageCustomer(u, c) == CustomerOpen(c) /\ \E p \in BoundTo(c) : Sensitive(u, p)

CanManagePortfolio(u, f) == PortfolioOpen(f) /\ portfolio[f].member = u

\* Mutant: any open customer may be named.
InScopeAnyCustomer(u, c, f) ==
  /\ c # None => CustomerOpen(c)
  /\ f # None => PortfolioOpen(f) /\ portfolio[f].member = u

\* assertReferencesInScope.
InScope(u, c, f) ==
  /\ c # None => CustomerOpen(c) /\ \E p \in BoundTo(c) : ProjectOpen(p) /\ u \in Members[p]
  /\ f # None => PortfolioOpen(f) /\ portfolio[f].member = u

Patched(fields, patch) ==
  [f \in {"status", "customer", "portfolio"} |-> IF f \in DOMAIN patch THEN patch[f] ELSE fields[f]]

(***************************************************************************)
(* Requests.  Each is accepted by the checks before its first transaction. *)
(***************************************************************************)
Idle == [pc |-> "idle"]

ContactOps == {"createContact", "updateContact", "archiveContact"}

Retried == {"begin", "commit"}

Jobs ==
  [pc : Retried, op : {"createProject"}, user : Users, target : Projects,
   draft : Drafts, attempt : 1..Attempts]
  \cup [pc : Retried, op : {"updateProject"}, user : Users, target : Projects,
        token : Nat, patch : Patches, seen : Customers \cup {None},
        attempt : 1..Attempts, doomed : BOOLEAN]
  \cup [pc : Retried, op : ContactOps, user : Users, target : Customers,
        token : Nat, contact : Contacts, attempt : 1..Attempts, doomed : BOOLEAN]
  \cup [pc : Retried, op : {"createPortfolio"}, user : Users, target : Portfolios,
        attempt : 1..Attempts]
  \cup [pc : {"write"}, op : {"archiveProject"}, user : Users, target : Projects,
        token : Nat]
  \cup [pc : {"write"}, op : {"updateCustomer", "archiveCustomer"}, user : Users,
        target : Customers, token : Nat]
  \cup [pc : {"write"}, op : {"createCustomer"}, user : Users, target : Customers,
        project : Projects]
  \cup [pc : {"write"}, op : {"updatePortfolio", "archivePortfolio"}, user : Users,
        target : Portfolios]

RefTypeOK ==
  /\ project \in [Projects -> ProjectFields \cup {None}]
  /\ projectVersion \in [Projects -> Nat]
  /\ customer \in [Customers -> CustomerRows \cup {None}]
  /\ customerVersion \in [Customers -> Nat]
  /\ portfolio \in [Portfolios -> [open : BOOLEAN, member : Users] \cup {None}]
  /\ job \in [Requests -> {Idle} \cup Jobs]

Accept(t, request) ==
  /\ job[t] = Idle
  /\ job' = [job EXCEPT ![t] = request]
  /\ UNCHANGED dataVars

RequestCreateProject(t, u, p) ==
  \E draft \in Drafts :
    /\ u \in Managers[p]
    /\ InScope(u, draft.customer, draft.portfolio)
    /\ Accept(t, [pc |-> "begin", op |-> "createProject", user |-> u, target |-> p,
                  draft |-> draft, attempt |-> 1])

\* A request carries the version that its client has seen.  It is accepted while that is the
\* current one: a client that sends it later is a request that waits here.
RequestUpdateProject(t, u, p) ==
  \E patch \in Patches :
    /\ CanManageProject(u, p)
    /\ Accept(t, [pc |-> "begin", op |-> "updateProject", user |-> u, target |-> p,
                  token |-> projectVersion[p], patch |-> patch, seen |-> None, attempt |-> 1,
                  doomed |-> FALSE])

RequestArchiveProject(t, u, p) ==
  /\ CanManageProject(u, p)
  /\ Accept(t, [pc |-> "write", op |-> "archiveProject", user |-> u, target |-> p,
                token |-> projectVersion[p]])

RequestCreateCustomer(t, u, c, p) ==
  /\ CanManageProject(u, p)
  /\ Accept(t, [pc |-> "write", op |-> "createCustomer", user |-> u, target |-> c,
                project |-> p])

RequestCustomer(t, op, u, c) ==
  /\ CanManageCustomer(u, c)
  /\ Accept(t, [pc |-> "write", op |-> op, user |-> u, target |-> c,
                token |-> customerVersion[c]])

RequestContact(t, op, u, c, k) ==
  /\ CanManageCustomer(u, c)
  /\ Accept(t, [pc |-> "begin", op |-> op, user |-> u, target |-> c,
                token |-> customerVersion[c], contact |-> k, attempt |-> 1, doomed |-> FALSE])

RequestCreatePortfolio(t, u, f) ==
  Accept(t, [pc |-> "begin", op |-> "createPortfolio", user |-> u, target |-> f, attempt |-> 1])

RequestPortfolio(t, op, u, f) ==
  /\ CanManagePortfolio(u, f)
  /\ Accept(t, [pc |-> "write", op |-> op, user |-> u, target |-> f])

(***************************************************************************)
(* Writes.  A write dooms the transactions that hold a snapshot and write  *)
(* the same row.                                                           *)
(***************************************************************************)
Writes(op) == IF op \in ContactOps THEN "customer" ELSE "project"

Doom(j, table, id) ==
  IF j.pc = "commit" /\ j.op \in ContactOps \cup {"updateProject"}
     /\ Writes(j.op) = table /\ j.target = id
  THEN [j EXCEPT !.doomed = TRUE]
  ELSE j

\* Mutant: the request is answered without a look at the transactions in flight.
AnswerAlone(t, table, id) == job' = [job EXCEPT ![t] = Idle]

AnswerWrite(t, table, id) ==
  job' = [u \in Requests |-> IF u = t THEN Idle ELSE Doom(job[u], table, id)]

Answer(t) == job' = [job EXCEPT ![t] = Idle]

WritesLeft ==
  FoldFunction(+, 0, projectVersion) + FoldFunction(+, 0, customerVersion) < MaxWrites

RaiseProject(p) ==
  /\ WritesLeft
  /\ projectVersion' = [projectVersion EXCEPT ![p] = @ + 1]

RaiseCustomer(c) ==
  /\ WritesLeft
  /\ customerVersion' = [customerVersion EXCEPT ![c] = @ + 1]

Begin(t, op) == job[t].pc = "begin" /\ job[t].op = op
Write(t, op) == job[t].pc = "write" /\ job[t].op = op
Commits(t, op) == job[t].pc = "commit" /\ job[t].op = op

(***************************************************************************)
(* Projects.                                                               *)
(***************************************************************************)
SnapshotCreateProject(t) ==
  LET j == job[t]
  IN /\ Begin(t, "createProject")
     /\ InScope(j.user, j.draft.customer, j.draft.portfolio)
     /\ job' = [job EXCEPT ![t].pc = "commit"]
     /\ UNCHANGED dataVars

CommitCreateProject(t) ==
  LET j == job[t]
  IN /\ Commits(t, "createProject")
     /\ project[j.target] = None
     /\ project' = [project EXCEPT ![j.target] = j.draft]
     /\ RaiseProject(j.target)
     /\ Answer(t)
     /\ UNCHANGED <<customer, customerVersion, portfolio>>

\* The references that the project would have are checked, changed or not.
SnapshotUpdateProject(t) ==
  LET j == job[t]
      fields == Patched(project[j.target], j.patch)
  IN /\ Begin(t, "updateProject")
     /\ CanManageProject(j.user, j.target)
     /\ InScope(j.user, fields.customer, fields.portfolio)
     /\ projectVersion[j.target] = j.token
     /\ job' = [job EXCEPT ![t] = [j EXCEPT !.pc = "commit", !.seen = project[j.target].customer]]
     /\ UNCHANGED dataVars

CommitUpdateProject(t) ==
  LET j == job[t]
  IN /\ Commits(t, "updateProject")
     /\ ~j.doomed
     /\ project' = [project EXCEPT ![j.target] = Patched(@, j.patch)]
     /\ RaiseProject(j.target)
     /\ AnswerWrite(t, "project", j.target)
     /\ UNCHANGED <<customer, customerVersion, portfolio>>

ArchiveProject(t) ==
  LET j == job[t]
  IN /\ Write(t, "archiveProject")
     /\ CanManageProject(j.user, j.target)
     /\ projectVersion[j.target] = j.token
     /\ project' = [project EXCEPT ![j.target].status = "ARCHIVED"]
     /\ RaiseProject(j.target)
     /\ AnswerWrite(t, "project", j.target)
     /\ UNCHANGED <<customer, customerVersion, portfolio>>

(***************************************************************************)
(* Customers and contacts.                                                 *)
(***************************************************************************)
\* Mutant: the project may have a customer already.
BindableOver(u, p) == Sensitive(u, p)

Bindable(u, p) == Sensitive(u, p) /\ project[p].customer = None

\* create: the customer and its binding commit together, or neither does.
CreateCustomer(t) ==
  LET j == job[t]
  IN /\ Write(t, "createCustomer")
     /\ customer[j.target] = None
     /\ Bindable(j.user, j.project)
     /\ customer' = [customer EXCEPT ![j.target] =
          [open |-> TRUE, contacts |-> [k \in Contacts |-> "ABSENT"]]]
     /\ RaiseCustomer(j.target)
     /\ project' = [project EXCEPT ![j.project].customer = j.target]
     /\ AnswerWrite(t, "project", j.project)
     /\ UNCHANGED <<projectVersion, portfolio>>

CustomerWritable(t) ==
  /\ CanManageCustomer(job[t].user, job[t].target)
  /\ customerVersion[job[t].target] = job[t].token

WriteCustomer(t, row) ==
  /\ customer' = [customer EXCEPT ![job[t].target] = row]
  /\ RaiseCustomer(job[t].target)
  /\ AnswerWrite(t, "customer", job[t].target)
  /\ UNCHANGED <<project, projectVersion, portfolio>>

UpdateCustomer(t) ==
  /\ Write(t, "updateCustomer")
  /\ CustomerWritable(t)
  /\ WriteCustomer(t, customer[job[t].target])

ArchiveCustomer(t) ==
  /\ Write(t, "archiveCustomer")
  /\ CustomerWritable(t)
  /\ WriteCustomer(t, [customer[job[t].target] EXCEPT !.open = FALSE])

SnapshotContact(t) ==
  LET j == job[t]
      state == customer[j.target].contacts[j.contact]
  IN /\ j.pc = "begin" /\ j.op \in ContactOps
     /\ CustomerWritable(t)
     /\ state = IF j.op = "createContact" THEN "ABSENT" ELSE "PRESENT"
     /\ job' = [job EXCEPT ![t].pc = "commit"]
     /\ UNCHANGED dataVars

\* Mutant: the contact is written although its customer changed after the snapshot.
CommitContactAnyway(t) ==
  LET j == job[t]
      state == IF j.op = "archiveContact" THEN "ARCHIVED" ELSE "PRESENT"
  IN /\ j.pc = "commit" /\ j.op \in ContactOps
     /\ WriteCustomer(t, [customer[j.target] EXCEPT !.contacts[j.contact] = state])

CommitContact(t) ==
  LET j == job[t]
      state == IF j.op = "archiveContact" THEN "ARCHIVED" ELSE "PRESENT"
  IN /\ j.pc = "commit" /\ j.op \in ContactOps
     /\ ~j.doomed
     /\ WriteCustomer(t, [customer[j.target] EXCEPT !.contacts[j.contact] = state])

(***************************************************************************)
(* Portfolios: no version, so the last update wins; the creator is the     *)
(* only member, since no operation adds another.                           *)
(***************************************************************************)
CreatePortfolio(t) ==
  LET j == job[t]
  IN /\ Begin(t, "createPortfolio")
     /\ portfolio[j.target] = None
     /\ portfolio' = [portfolio EXCEPT ![j.target] = [open |-> TRUE, member |-> j.user]]
     /\ Answer(t)
     /\ UNCHANGED <<project, projectVersion, customer, customerVersion>>

UpdatePortfolio(t) ==
  /\ Write(t, "updatePortfolio")
  /\ CanManagePortfolio(job[t].user, job[t].target)
  /\ Answer(t)
  /\ UNCHANGED dataVars

ArchivePortfolio(t) ==
  /\ Write(t, "archivePortfolio")
  /\ CanManagePortfolio(job[t].user, job[t].target)
  /\ portfolio' = [portfolio EXCEPT ![job[t].target].open = FALSE]
  /\ Answer(t)
  /\ UNCHANGED <<project, projectVersion, customer, customerVersion>>

(***************************************************************************)
(* Failures.                                                               *)
(***************************************************************************)
\* Serialization failure (P2034): another attempt, or the request is refused.
Abort(t) ==
  LET j == job[t]
      again == [j EXCEPT !.pc = "begin", !.attempt = j.attempt + 1]
  IN /\ j.pc = "commit"
     /\ job' = [job EXCEPT ![t] =
          IF j.attempt = Attempts THEN Idle
          ELSE IF j.op = "createProject" THEN again
          ELSE IF j.op = "updateProject" THEN [again EXCEPT !.doomed = FALSE, !.seen = None]
          ELSE [again EXCEPT !.doomed = FALSE]]
     /\ UNCHANGED dataVars

\* A failed condition, a duplicate number or another database error: no effect.
Refuse(t) == job[t] # Idle /\ Answer(t) /\ UNCHANGED dataVars

(***************************************************************************)
(* The specification.                                                      *)
(***************************************************************************)
Init ==
  /\ project = [p \in Projects |-> None]
  /\ projectVersion = [p \in Projects |-> 0]
  /\ customer = [c \in Customers |-> None]
  /\ customerVersion = [c \in Customers |-> 0]
  /\ portfolio = [f \in Portfolios |-> None]
  /\ job = [t \in Requests |-> Idle]

Request(t) ==
  \E u \in Users :
    \/ \E p \in Projects :
         \/ RequestCreateProject(t, u, p) \/ RequestUpdateProject(t, u, p)
         \/ RequestArchiveProject(t, u, p)
         \/ \E c \in Customers : RequestCreateCustomer(t, u, c, p)
    \/ \E c \in Customers :
         \/ \E op \in {"updateCustomer", "archiveCustomer"} : RequestCustomer(t, op, u, c)
         \/ \E op \in ContactOps, k \in Contacts : RequestContact(t, op, u, c, k)
    \/ \E f \in Portfolios :
         \/ RequestCreatePortfolio(t, u, f)
         \/ \E op \in {"updatePortfolio", "archivePortfolio"} : RequestPortfolio(t, op, u, f)

Step(t) ==
  \/ SnapshotCreateProject(t) \/ CommitCreateProject(t)
  \/ SnapshotUpdateProject(t) \/ CommitUpdateProject(t) \/ ArchiveProject(t)
  \/ CreateCustomer(t) \/ UpdateCustomer(t) \/ ArchiveCustomer(t)
  \/ SnapshotContact(t) \/ CommitContact(t)
  \/ CreatePortfolio(t) \/ UpdatePortfolio(t) \/ ArchivePortfolio(t)
  \/ Abort(t) \/ Refuse(t)

Next == \E t \in Requests : Request(t) \/ Step(t)

Spec == Init /\ [][Next]_vars

-----------------------------------------------------------------------------
(***************************************************************************)
(* Properties.                                                             *)
(***************************************************************************)

\* An update keeps or replaces the very customer that its checks have seen, although
\* CustomersService binds customers to projects without raising the project's version.
UpdateKeepsWhatItChecked ==
  [][\A t \in Requests :
       Commits(t, "updateProject") /\ job'[t] = Idle /\ project' # project
         => project[job[t].target].customer = job[t].seen]_vars

\* A customer is taken from a project only by an update that names another one: creating
\* customers for the same project at the same time binds one of them.
BindingIsReplacedByName ==
  [][\A p \in Projects :
       project[p] # None /\ project[p].customer # None
         /\ project'[p].customer # project[p].customer
         => \E t \in Requests : Commits(t, "updateProject") /\ job[t].target = p
                                /\ "customer" \in DOMAIN job[t].patch]_vars

\* No request in flight has checked c when it was still bound to a project.
Unclaimed(c) ==
  /\ customer[c] # None
  /\ \A p \in BoundTo(c) : ~ProjectOpen(p)
  /\ \A t \in Requests :
       /\ Commits(t, "createProject") => job[t].draft.customer # c
       /\ Commits(t, "updateProject") /\ "customer" \in DOMAIN job[t].patch
            => job[t].patch.customer # c

\* A customer that has lost its last open project is lost to everybody: no sequence of
\* requests binds it again, and with the transactions that had begun before gone it stays
\* as it is.
UnclaimedForGood ==
  [][\A c \in Customers :
       Unclaimed(c) =>
         /\ Unclaimed(c)'
         /\ (\A t \in Requests : job[t].pc # "commit") => UNCHANGED customer[c]]_vars

\* A customer with its contacts is one versioned resource.
Resource == INSTANCE VersionedResource WITH
  Resources <- Customers,
  Nothing <- None,
  Closed <- LAMBDA row : row # None /\ ~row.open,
  content <- customer,
  version <- customerVersion

\* Whatever changes of a customer or its contacts was written under the customer's current
\* version; an archived customer keeps its contacts as they are.
ImplementsVersionedResource == Resource!ResourceSpec
=============================================================================
