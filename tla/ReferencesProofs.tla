-------------------------- MODULE ReferencesProofs --------------------------
(***************************************************************************)
(* Proofs about References, for every set of projects, customers,          *)
(* portfolios, users and requests, any membership, and every bound.        *)
(***************************************************************************)
EXTENDS References, TLAPS

\* What a transaction that is not doomed has found out still holds of the rows ps and cs.
StillChecked(j, ps, cs) ==
  /\ j \in Jobs
  /\ j.pc = "commit" /\ j.op = "updateProject" /\ ~j.doomed =>
       /\ ps[j.target] # None /\ ps[j.target].status # "ARCHIVED"
       /\ ps[j.target].customer = j.seen
  /\ j.pc = "commit" /\ j.op \in ContactOps /\ ~j.doomed =>
       cs[j.target] # None /\ cs[j.target].open

DataTypeOK ==
  /\ project \in [Projects -> ProjectFields \cup {None}]
  /\ projectVersion \in [Projects -> Nat]
  /\ customer \in [Customers -> CustomerRows \cup {None}]
  /\ customerVersion \in [Customers -> Nat]
  /\ portfolio \in [Portfolios -> [open : BOOLEAN, member : Users] \cup {None}]

IInv ==
  /\ DataTypeOK
  /\ job = [t \in Requests |-> job[t]]
  /\ \A t \in Requests : job[t] = Idle \/ StillChecked(job[t], project, customer)

-----------------------------------------------------------------------------
(***************************************************************************)
(* Requests and rows.                                                      *)
(***************************************************************************)
ProjectOps == {"createProject", "updateProject", "archiveProject"}
CustomerOps == {"createCustomer", "updateCustomer", "archiveCustomer"}
PortfolioOps == {"createPortfolio", "updatePortfolio", "archivePortfolio"}

LEMMA JobFields ==
  ASSUME NEW j \in Jobs
  PROVE  /\ j # Idle /\ j.user \in Users
         /\ j.pc \in {"begin", "commit", "write"}
         /\ j.op \in ProjectOps \cup CustomerOps \cup PortfolioOps \cup ContactOps
         /\ j.op \in ProjectOps => j.target \in Projects
         /\ j.op \in CustomerOps \cup ContactOps => j.target \in Customers
         /\ j.op \in PortfolioOps => j.target \in Portfolios
         /\ j.op = "createProject" => j.draft \in Drafts
         /\ j.op = "createCustomer" => j.project \in Projects
         /\ j.op = "updateProject" =>
              j.patch \in Patches /\ j.seen \in Customers \cup {None} /\ j.doomed \in BOOLEAN
         /\ j.op \in ContactOps => j.contact \in Contacts /\ j.doomed \in BOOLEAN
         /\ j.pc = "commit" =>
              /\ j.op \in {"createProject", "updateProject", "createPortfolio"} \cup ContactOps
              /\ j.attempt \in 1..Attempts
BY DEF Jobs, Idle, ContactOps, Retried, ProjectOps, CustomerOps, PortfolioOps

LEMMA CommitOf ==
  ASSUME NEW j \in Jobs, j.op \in {"createProject"} \cup ContactOps, j.pc = "begin",
         NEW k, k = [j EXCEPT !.pc = "commit"]
  PROVE  k \in Jobs /\ k.op = j.op /\ k.target = j.target
BY DEF Jobs, ContactOps, Retried

LEMMA DoomedOf ==
  ASSUME NEW j \in Jobs, j.op \in {"updateProject"} \cup ContactOps, j.pc = "commit",
         NEW k, k = [j EXCEPT !.doomed = TRUE]
  PROVE  k \in Jobs /\ k.op = j.op /\ k.pc = j.pc /\ k.target = j.target /\ k.doomed = TRUE
         /\ (j.op = "updateProject" => k.patch = j.patch)
BY DEF Jobs, ContactOps, Retried

\* Doom leaves a request what it is.
LEMMA DoomShape ==
  ASSUME NEW j \in Jobs, NEW table, NEW id
  PROVE  /\ Doom(j, table, id) \in Jobs
         /\ Doom(j, table, id).op = j.op /\ Doom(j, table, id).pc = j.pc
         /\ Doom(j, table, id).target = j.target
         /\ j.op = "createProject" => Doom(j, table, id) = j
         /\ j.op = "updateProject" => Doom(j, table, id).patch = j.patch
         /\ Doom(j, table, id) # j =>
              j.pc = "commit" /\ j.op \in ContactOps \cup {"updateProject"}
         /\ j.pc = "commit" /\ j.op = "updateProject" /\ table = "project" /\ j.target = id
              => Doom(j, table, id).doomed
         /\ j.pc = "commit" /\ j.op \in ContactOps /\ table = "customer" /\ j.target = id
              => Doom(j, table, id).doomed
<1>1. CASE /\ j.pc = "commit" /\ j.op \in ContactOps \cup {"updateProject"}
           /\ Writes(j.op) = table /\ j.target = id
  <2>1. Doom(j, table, id) = [j EXCEPT !.doomed = TRUE]
    BY <1>1 DEF Doom
  <2> QED
    BY <1>1, <2>1, DoomedOf DEF ContactOps
<1>2. CASE ~(/\ j.pc = "commit" /\ j.op \in ContactOps \cup {"updateProject"}
             /\ Writes(j.op) = table /\ j.target = id)
  BY <1>2 DEF Doom, Writes, ContactOps
<1> QED
  BY <1>1, <1>2

LEMMA PatchedFields ==
  ASSUME NEW fields \in ProjectFields, NEW patch \in Patches
  PROVE  /\ Patched(fields, patch) \in ProjectFields
         /\ fields.status # "ARCHIVED" => Patched(fields, patch).status # "ARCHIVED"
         /\ Patched(fields, patch).customer =
              IF "customer" \in DOMAIN patch THEN patch.customer ELSE fields.customer
<1>1. PICK q \in ProjectFields :
        \E names \in SUBSET DOMAIN q :
          patch = [f \in names |-> q[f]] /\ ("status" \in names => patch.status # "ARCHIVED")
  BY ReferencesAssumption
<1>2. \A f \in DOMAIN patch : patch[f] = q[f]
  BY <1>1
<1>3. /\ "status" \in DOMAIN patch =>
           patch["status"] \in ProjectStatuses /\ patch["status"] # "ARCHIVED"
      /\ "customer" \in DOMAIN patch => patch["customer"] \in Customers \cup {None}
      /\ "portfolio" \in DOMAIN patch => patch["portfolio"] \in Portfolios \cup {None}
  BY <1>1, <1>2 DEF ProjectFields
<1>4. Patched(fields, patch) =
        [status |-> Patched(fields, patch)["status"],
         customer |-> Patched(fields, patch)["customer"],
         portfolio |-> Patched(fields, patch)["portfolio"]]
  BY DEF Patched
<1> QED
  BY <1>3, <1>4 DEF Patched, ProjectFields

LEMMA Busy ==
  ASSUME IInv, NEW t \in Requests, job[t] # Idle
  PROVE  StillChecked(job[t], project, customer) /\ job[t] \in Jobs
BY DEF IInv, StillChecked

-----------------------------------------------------------------------------
(***************************************************************************)
(* A step leaves the rows that exist as they are, or writes one of them    *)
(* and dooms the transactions on it.                                       *)
(***************************************************************************)
LEMMA MoveKeepsIInv ==
  ASSUME IInv, NEW t \in Requests, NEW new, job' = [job EXCEPT ![t] = new],
         new = Idle \/ StillChecked(new, project, customer), DataTypeOK',
         \A p \in Projects : project[p] # None => project'[p] = project[p],
         \A c \in Customers : customer[c] # None => customer'[c] = customer[c]
  PROVE  IInv'
<1>1. ASSUME NEW u \in Requests, job'[u] # Idle
      PROVE  StillChecked(job'[u], project', customer')
  <2>1. StillChecked(job'[u], project, customer) /\ job'[u] \in Jobs
    BY <1>1 DEF IInv, StillChecked
  <2> QED
    BY <2>1, JobFields DEF StillChecked, ProjectOps, ContactOps
<1> QED
  BY <1>1 DEF IInv

LEMMA WriteKeepsIInv ==
  ASSUME IInv, NEW t \in Requests, NEW table, NEW id, AnswerWrite(t, table, id), DataTypeOK',
         \A p \in Projects : project[p] # None /\ project'[p] # project[p]
           => table = "project" /\ p = id,
         \A c \in Customers : customer[c] # None /\ customer'[c] # customer[c]
           => table = "customer" /\ c = id
  PROVE  IInv'
<1>1. ASSUME NEW u \in Requests, job'[u] # Idle
      PROVE  StillChecked(job'[u], project', customer')
  <2>1. u # t /\ job[u] # Idle /\ job'[u] = Doom(job[u], table, id)
    BY <1>1 DEF AnswerWrite, Doom, Idle
  <2>2. StillChecked(job[u], project, customer) /\ job[u] \in Jobs
    BY <2>1, Busy
  <2> DEFINE j == job[u]
             k == Doom(j, table, id)
  <2>3. k \in Jobs /\ k.op = j.op /\ k.pc = j.pc /\ k.target = j.target
    BY <2>2, DoomShape
  <2>4. ASSUME k.pc = "commit", k.op = "updateProject", ~k.doomed
        PROVE  /\ project'[k.target] # None /\ project'[k.target].status # "ARCHIVED"
               /\ project'[k.target].customer = k.seen
    <3>1. ~(table = "project" /\ j.target = id) /\ j.target \in Projects
      BY <2>2, <2>3, <2>4, DoomShape, JobFields DEF ProjectOps
    <3>2. k = j
      BY <2>3, <2>4, <3>1 DEF Doom, Writes, ContactOps
    <3> QED
      BY <2>2, <2>4, <3>1, <3>2 DEF StillChecked
  <2>5. ASSUME k.pc = "commit", k.op \in ContactOps, ~k.doomed
        PROVE  customer'[k.target] # None /\ customer'[k.target].open
    <3>1. ~(table = "customer" /\ j.target = id) /\ j.target \in Customers
      BY <2>2, <2>3, <2>5, DoomShape, JobFields
    <3>2. k = j
      BY <2>3, <2>5, <3>1 DEF Doom, Writes, ContactOps
    <3> QED
      BY <2>2, <2>5, <3>1, <3>2 DEF StillChecked
  <2> QED
    BY <2>1, <2>3, <2>4, <2>5 DEF StillChecked
<1>2. job' = [u \in Requests |-> job'[u]]
  BY DEF AnswerWrite
<1> QED
  BY <1>1, <1>2 DEF IInv

-----------------------------------------------------------------------------
(***************************************************************************)
(* The actions.                                                            *)
(***************************************************************************)
LEMMA AcceptKeepsIInv ==
  ASSUME IInv, NEW t \in Requests, NEW j \in Jobs, j.pc # "commit", Accept(t, j)
  PROVE  IInv'
<1>1. DataTypeOK'
  BY DEF IInv, DataTypeOK, Accept, dataVars
<1> QED
  BY <1>1, MoveKeepsIInv DEF Accept, dataVars, StillChecked

LEMMA RequestKeepsIInv ==
  ASSUME IInv, NEW t \in Requests, Request(t)
  PROVE  IInv'
<1>0. 1 \in 1..Attempts
  BY ReferencesAssumption
<1>1. PICK u \in Users :
        \/ \E p \in Projects :
             \/ RequestCreateProject(t, u, p) \/ RequestUpdateProject(t, u, p)
             \/ RequestArchiveProject(t, u, p)
             \/ \E c \in Customers : RequestCreateCustomer(t, u, c, p)
        \/ \E c \in Customers :
             \/ \E op \in {"updateCustomer", "archiveCustomer"} : RequestCustomer(t, op, u, c)
             \/ \E op \in ContactOps, k \in Contacts : RequestContact(t, op, u, c, k)
        \/ \E f \in Portfolios :
             \/ RequestCreatePortfolio(t, u, f)
             \/ \E op \in {"updatePortfolio", "archivePortfolio"} : RequestPortfolio(t, op, u, f)
  BY DEF Request
<1>2. ASSUME NEW p \in Projects, RequestCreateProject(t, u, p)
      PROVE  IInv'
  <2>1. PICK draft \in Drafts :
          Accept(t, [pc |-> "begin", op |-> "createProject", user |-> u, target |-> p,
                     draft |-> draft, attempt |-> 1])
    BY <1>2 DEF RequestCreateProject
  <2> DEFINE j == [pc |-> "begin", op |-> "createProject", user |-> u, target |-> p,
                   draft |-> draft, attempt |-> 1]
  <2>2. j \in Jobs /\ j.pc # "commit"
    BY <1>0 DEF Jobs, Retried
  <2> QED
    BY <2>1, <2>2, AcceptKeepsIInv
<1>3. ASSUME NEW p \in Projects, RequestUpdateProject(t, u, p)
      PROVE  IInv'
  <2>1. PICK patch \in Patches :
          Accept(t, [pc |-> "begin", op |-> "updateProject", user |-> u, target |-> p,
                     token |-> projectVersion[p], patch |-> patch, seen |-> None,
                     attempt |-> 1, doomed |-> FALSE])
    BY <1>3 DEF RequestUpdateProject
  <2> DEFINE j == [pc |-> "begin", op |-> "updateProject", user |-> u, target |-> p,
                   token |-> projectVersion[p], patch |-> patch, seen |-> None,
                   attempt |-> 1, doomed |-> FALSE]
  <2>2. j \in Jobs /\ j.pc # "commit"
    BY <1>0 DEF Jobs, Retried, IInv, DataTypeOK
  <2> QED
    BY <2>1, <2>2, AcceptKeepsIInv
<1>4. ASSUME NEW p \in Projects, RequestArchiveProject(t, u, p)
      PROVE  IInv'
  <2> DEFINE j == [pc |-> "write", op |-> "archiveProject", user |-> u, target |-> p,
                   token |-> projectVersion[p]]
  <2>1. j \in Jobs /\ j.pc # "commit"
    BY DEF Jobs, IInv, DataTypeOK
  <2> QED
    BY <1>4, <2>1, AcceptKeepsIInv DEF RequestArchiveProject
<1>5. ASSUME NEW p \in Projects, NEW c \in Customers, RequestCreateCustomer(t, u, c, p)
      PROVE  IInv'
  <2> DEFINE j == [pc |-> "write", op |-> "createCustomer", user |-> u, target |-> c,
                   project |-> p]
  <2>1. j \in Jobs /\ j.pc # "commit"
    BY DEF Jobs
  <2> QED
    BY <1>5, <2>1, AcceptKeepsIInv DEF RequestCreateCustomer
<1>6. ASSUME NEW c \in Customers, NEW op \in {"updateCustomer", "archiveCustomer"},
             RequestCustomer(t, op, u, c)
      PROVE  IInv'
  <2> DEFINE j == [pc |-> "write", op |-> op, user |-> u, target |-> c,
                   token |-> customerVersion[c]]
  <2>1. j \in Jobs /\ j.pc # "commit"
    BY DEF Jobs, IInv, DataTypeOK
  <2> QED
    BY <1>6, <2>1, AcceptKeepsIInv DEF RequestCustomer
<1>7. ASSUME NEW c \in Customers, NEW op \in ContactOps, NEW k \in Contacts,
             RequestContact(t, op, u, c, k)
      PROVE  IInv'
  <2> DEFINE j == [pc |-> "begin", op |-> op, user |-> u, target |-> c,
                   token |-> customerVersion[c], contact |-> k, attempt |-> 1,
                   doomed |-> FALSE]
  <2>1. j \in Jobs /\ j.pc # "commit"
    BY <1>0 DEF Jobs, Retried, IInv, DataTypeOK
  <2> QED
    BY <1>7, <2>1, AcceptKeepsIInv DEF RequestContact
<1>8. ASSUME NEW f \in Portfolios, RequestCreatePortfolio(t, u, f)
      PROVE  IInv'
  <2> DEFINE j == [pc |-> "begin", op |-> "createPortfolio", user |-> u, target |-> f,
                   attempt |-> 1]
  <2>1. j \in Jobs /\ j.pc # "commit"
    BY <1>0 DEF Jobs, Retried
  <2> QED
    BY <1>8, <2>1, AcceptKeepsIInv DEF RequestCreatePortfolio
<1>9. ASSUME NEW f \in Portfolios, NEW op \in {"updatePortfolio", "archivePortfolio"},
             RequestPortfolio(t, op, u, f)
      PROVE  IInv'
  <2> DEFINE j == [pc |-> "write", op |-> op, user |-> u, target |-> f]
  <2>1. j \in Jobs /\ j.pc # "commit"
    BY DEF Jobs
  <2> QED
    BY <1>9, <2>1, AcceptKeepsIInv DEF RequestPortfolio
<1> QED
  BY <1>1, <1>2, <1>3, <1>4, <1>5, <1>6, <1>7, <1>8, <1>9

\* The statements that change no row of a project or customer.
LEMMA SnapshotKeepsIInv ==
  ASSUME IInv, NEW t \in Requests,
         SnapshotCreateProject(t) \/ SnapshotUpdateProject(t) \/ SnapshotContact(t)
  PROVE  IInv'
<1> DEFINE j == job[t]
<1>1. j \in Jobs /\ j.pc = "begin" /\ DataTypeOK'
      /\ j.op \in {"createProject", "updateProject"} \cup ContactOps
  BY Busy
  DEF SnapshotCreateProject, SnapshotUpdateProject, SnapshotContact, Begin, Idle, IInv,
      DataTypeOK, dataVars
<1>2. CASE SnapshotCreateProject(t) \/ SnapshotContact(t)
  <2> DEFINE k == [j EXCEPT !.pc = "commit"]
  <2>1. job' = [job EXCEPT ![t] = k] /\ UNCHANGED dataVars
        /\ j.op \in {"createProject"} \cup ContactOps
        /\ (j.op \in ContactOps => CustomerOpen(j.target))
    BY <1>2
    DEF SnapshotCreateProject, SnapshotContact, Begin, CustomerWritable, CanManageCustomer,
        ContactOps
  <2>2. k \in Jobs /\ k.op = j.op /\ k.target = j.target
    BY <1>1, <2>1 DEF Jobs, ContactOps, Retried
  <2>3. StillChecked(k, project, customer)
    BY <2>1, <2>2 DEF StillChecked, CustomerOpen, ContactOps
  <2> QED
    BY <1>1, <2>1, <2>3, MoveKeepsIInv DEF dataVars
<1>3. CASE SnapshotUpdateProject(t)
  <2> DEFINE seen == project[j.target].customer
             k == [j EXCEPT !.pc = "commit", !.seen = seen]
  <2>1. /\ job' = [job EXCEPT ![t] = k] /\ UNCHANGED dataVars
        /\ j.op = "updateProject" /\ ProjectOpen(j.target)
    BY <1>3 DEF SnapshotUpdateProject, Begin, CanManageProject
  <2>2. seen \in Customers \cup {None}
    BY <1>1, <2>1, JobFields DEF ProjectOpen, IInv, DataTypeOK, ProjectFields, ProjectOps
  <2>3. k \in Jobs /\ k.op = j.op /\ k.target = j.target /\ k.seen = seen
    <3> HIDE DEF seen
    <3> QED
      BY <1>1, <2>1, <2>2 DEF Jobs, ContactOps, Retried
  <2>4. StillChecked(k, project, customer)
    BY <2>1, <2>3 DEF StillChecked, ProjectOpen, ContactOps
  <2> QED
    BY <1>1, <2>1, <2>4, MoveKeepsIInv DEF dataVars
<1> QED
  BY <1>2, <1>3

LEMMA AbortKeepsIInv ==
  ASSUME IInv, NEW t \in Requests, Abort(t)
  PROVE  IInv'
<1> DEFINE j == job[t]
           n == j.attempt + 1
<1>1. j \in Jobs /\ j.pc = "commit" /\ DataTypeOK' /\ UNCHANGED dataVars
  BY Busy DEF Abort, Idle, IInv, DataTypeOK, dataVars
<1>2. CASE j.attempt = Attempts
  BY <1>1, <1>2, MoveKeepsIInv DEF Abort, dataVars
<1>3. CASE j.attempt # Attempts
  <2>1. n \in 1..Attempts
    BY <1>1, <1>3, JobFields, ReferencesAssumption
  <2>2. PICK k : job' = [job EXCEPT ![t] = k] /\ k \in Jobs /\ k.pc = "begin"
    <3> HIDE DEF n
    <3>1. CASE j.op = "createProject"
      <4>1. [j EXCEPT !.pc = "begin", !.attempt = n] \in Jobs
        BY <1>1, <2>1, <3>1 DEF Jobs, Retried, ContactOps
      <4>2. [j EXCEPT !.pc = "begin", !.attempt = n].pc = "begin"
        BY <1>1, <3>1 DEF Jobs, Retried, ContactOps
      <4> QED
        BY <1>3, <3>1, <4>1, <4>2 DEF Abort, n
    <3>2. CASE j.op = "updateProject"
      <4> DEFINE k == [[j EXCEPT !.pc = "begin", !.attempt = n]
                         EXCEPT !.doomed = FALSE, !.seen = None]
      <4>1. k \in Jobs /\ k.pc = "begin"
        BY <1>1, <2>1, <3>2 DEF Jobs, Retried, ContactOps
      <4>2. job' = [job EXCEPT ![t] = k]
        BY <1>3, <3>2 DEF Abort, n
      <4> QED
        BY <4>1, <4>2
    <3>3. CASE j.op \notin {"createProject", "updateProject"}
      <4> DEFINE k == [[j EXCEPT !.pc = "begin", !.attempt = n] EXCEPT !.doomed = FALSE]
      <4>1. CASE j.op \in ContactOps
        <5>1. k \in Jobs /\ k.pc = "begin"
          BY <1>1, <2>1, <4>1 DEF Jobs, Retried, ContactOps
        <5>2. job' = [job EXCEPT ![t] = k]
          BY <1>3, <3>3 DEF Abort, n
        <5> QED
          BY <5>1, <5>2
      <4>2. CASE j.op = "createPortfolio"
        <5>1. k \in Jobs /\ k.pc = "begin"
          BY <1>1, <2>1, <4>2 DEF Jobs, Retried, ContactOps
        <5>2. job' = [job EXCEPT ![t] = k]
          BY <1>3, <3>3 DEF Abort, n
        <5> QED
          BY <5>1, <5>2
      <4> QED
        BY <1>1, <3>3, <4>1, <4>2, JobFields
    <3> QED
      BY <3>1, <3>2, <3>3
  <2>3. StillChecked(k, project, customer)
    BY <2>2 DEF StillChecked
  <2> QED
    BY <1>1, <2>2, <2>3, MoveKeepsIInv DEF dataVars
<1> QED
  BY <1>2, <1>3

\* The writes of projects.
LEMMA CommitCreateProjectKeepsIInv ==
  ASSUME IInv, NEW t \in Requests, CommitCreateProject(t)
  PROVE  IInv'
<1> DEFINE j == job[t]
<1>1. j \in Jobs /\ j.op = "createProject"
  BY Busy DEF CommitCreateProject, Commits, Idle
<1>2. j.target \in Projects /\ j.draft \in ProjectFields
  BY <1>1, JobFields, ReferencesAssumption DEF ProjectOps
<1>3. DataTypeOK'
  BY <1>2 DEF CommitCreateProject, RaiseProject, IInv, DataTypeOK
<1>4. \A p \in Projects : project[p] # None => project'[p] = project[p]
  BY <1>2 DEF CommitCreateProject, IInv, DataTypeOK
<1> QED
  BY <1>3, <1>4, MoveKeepsIInv DEF CommitCreateProject, Answer

LEMMA CommitUpdateProjectKeepsIInv ==
  ASSUME IInv, NEW t \in Requests, CommitUpdateProject(t)
  PROVE  IInv'
<1> DEFINE j == job[t]
<1>1. StillChecked(j, project, customer) /\ j \in Jobs /\ j.op = "updateProject"
  BY Busy DEF CommitUpdateProject, Commits, Idle
<1>2. j.target \in Projects /\ j.patch \in Patches /\ project[j.target] \in ProjectFields
  BY <1>1, JobFields DEF ProjectOps, StillChecked, CommitUpdateProject, Commits, IInv, DataTypeOK
<1>3. project' = [project EXCEPT ![j.target] = Patched(project[j.target], j.patch)]
  BY DEF CommitUpdateProject
<1>4. DataTypeOK'
  BY <1>2, <1>3, PatchedFields DEF CommitUpdateProject, RaiseProject, IInv, DataTypeOK
<1> QED
  BY <1>2, <1>3, <1>4, WriteKeepsIInv DEF CommitUpdateProject, IInv, DataTypeOK

LEMMA ArchiveProjectKeepsIInv ==
  ASSUME IInv, NEW t \in Requests, ArchiveProject(t)
  PROVE  IInv'
<1> DEFINE j == job[t]
<1>1. j \in Jobs /\ j.op = "archiveProject"
  BY Busy DEF ArchiveProject, Write, Idle
<1>2. j.target \in Projects /\ project[j.target] \in ProjectFields
  BY <1>1, JobFields DEF ProjectOps, ArchiveProject, CanManageProject, ProjectOpen, IInv, DataTypeOK
<1>3. project' = [project EXCEPT ![j.target] = [project[j.target] EXCEPT !.status = "ARCHIVED"]]
  BY DEF ArchiveProject
<1>4. [project[j.target] EXCEPT !.status = "ARCHIVED"] \in ProjectFields
  BY <1>2 DEF ProjectFields, ProjectStatuses
<1>5. DataTypeOK'
  BY <1>2, <1>3, <1>4 DEF ArchiveProject, RaiseProject, IInv, DataTypeOK
<1> QED
  BY <1>2, <1>3, <1>5, WriteKeepsIInv DEF ArchiveProject, IInv, DataTypeOK

LEMMA CreateCustomerKeepsIInv ==
  ASSUME IInv, NEW t \in Requests, CreateCustomer(t)
  PROVE  IInv'
<1> DEFINE j == job[t]
           c == j.target
           p == j.project
<1>1. j \in Jobs /\ j.op = "createCustomer"
  BY Busy DEF CreateCustomer, Write, Idle
<1>2. c \in Customers /\ p \in Projects /\ project[p] \in ProjectFields
  BY <1>1, JobFields
  DEF CustomerOps, CreateCustomer, Bindable, Sensitive, CanManageProject, ProjectOpen, IInv,
      DataTypeOK
<1>3. project' = [project EXCEPT ![p] = [project[p] EXCEPT !.customer = c]]
  BY DEF CreateCustomer
<1>4. [project[p] EXCEPT !.customer = c] \in ProjectFields
  BY <1>2 DEF ProjectFields
<1>5. [open |-> TRUE, contacts |-> [k \in Contacts |-> "ABSENT"]] \in CustomerRows
  BY DEF CustomerRows
<1>6. DataTypeOK'
  BY <1>2, <1>3, <1>4, <1>5 DEF CreateCustomer, RaiseCustomer, IInv, DataTypeOK
<1> QED
  BY <1>2, <1>3, <1>6, WriteKeepsIInv DEF CreateCustomer, IInv, DataTypeOK

\* The writes of customers: what they find and what they leave.
LEMMA CustomerWrites ==
  ASSUME IInv, NEW t \in Requests, UpdateCustomer(t) \/ ArchiveCustomer(t) \/ CommitContact(t)
  PROVE  /\ job[t].target \in Customers
         /\ CustomerOpen(job[t].target)
         /\ \E new \in CustomerRows : WriteCustomer(t, new)
         /\ ~CommitContact(t) => CanManageCustomer(job[t].user, job[t].target)
<1> DEFINE j == job[t]
           c == j.target
<1>1. StillChecked(j, project, customer) /\ j \in Jobs
      /\ j.op \in {"updateCustomer", "archiveCustomer"} \cup ContactOps
  BY Busy DEF UpdateCustomer, ArchiveCustomer, CommitContact, Write, Idle
<1>2. c \in Customers
  BY <1>1, JobFields DEF CustomerOps
<1>3. CustomerOpen(c)
  BY <1>1
  DEF UpdateCustomer, ArchiveCustomer, CommitContact, CustomerWritable, CanManageCustomer,
      StillChecked, CustomerOpen
<1>4. customer[c] \in CustomerRows
  BY <1>2, <1>3 DEF CustomerOpen, IInv, DataTypeOK
<1>5. CASE UpdateCustomer(t)
  BY <1>2, <1>3, <1>4, <1>5 DEF UpdateCustomer, CustomerWritable
<1>6. CASE ArchiveCustomer(t)
  <2>1. [customer[c] EXCEPT !.open = FALSE] \in CustomerRows
    BY <1>4 DEF CustomerRows
  <2> QED
    BY <1>2, <1>3, <1>6, <2>1 DEF ArchiveCustomer, CustomerWritable
<1>7. CASE CommitContact(t)
  <2> DEFINE state == IF j.op = "archiveContact" THEN "ARCHIVED" ELSE "PRESENT"
             new == [customer[c] EXCEPT !.contacts[j.contact] = state]
  <2>1. new \in CustomerRows
    BY <1>4 DEF CustomerRows
  <2>2. WriteCustomer(t, new)
    BY <1>7 DEF CommitContact
  <2> QED
    BY <1>2, <1>3, <1>7, <2>1, <2>2
<1> QED
  BY <1>5, <1>6, <1>7

LEMMA CustomerWriteKeepsIInv ==
  ASSUME IInv, NEW t \in Requests, UpdateCustomer(t) \/ ArchiveCustomer(t) \/ CommitContact(t)
  PROVE  IInv'
<1>1. job[t].target \in Customers
  BY CustomerWrites
<1>2. PICK new \in CustomerRows : WriteCustomer(t, new)
  BY CustomerWrites
<1>3. DataTypeOK'
  BY <1>1, <1>2 DEF WriteCustomer, RaiseCustomer, IInv, DataTypeOK
<1> QED
  BY <1>1, <1>2, <1>3, WriteKeepsIInv DEF WriteCustomer, IInv, DataTypeOK

LEMMA PortfolioWriteKeepsIInv ==
  ASSUME IInv, NEW t \in Requests, CreatePortfolio(t) \/ UpdatePortfolio(t) \/ ArchivePortfolio(t)
  PROVE  IInv'
<1> DEFINE f == job[t].target
<1>1. /\ job' = [job EXCEPT ![t] = Idle]
      /\ UNCHANGED <<project, projectVersion, customer, customerVersion>>
  BY DEF CreatePortfolio, UpdatePortfolio, ArchivePortfolio, Answer, dataVars
<1>2. job[t] \in Jobs /\ job[t].op \in PortfolioOps
  BY Busy
  DEF CreatePortfolio, UpdatePortfolio, ArchivePortfolio, Begin, Write, Idle, PortfolioOps
<1>3. f \in Portfolios /\ job[t].user \in Users
  BY <1>2, JobFields
<1>4. portfolio' \in [Portfolios -> [open : BOOLEAN, member : Users] \cup {None}]
  <2>1. CASE CreatePortfolio(t)
    BY <1>3, <2>1 DEF CreatePortfolio, IInv, DataTypeOK
  <2>2. CASE UpdatePortfolio(t)
    BY <2>2 DEF UpdatePortfolio, dataVars, IInv, DataTypeOK
  <2>3. CASE ArchivePortfolio(t)
    <3>1. portfolio[f] \in [open : BOOLEAN, member : Users]
      BY <1>3, <2>3 DEF ArchivePortfolio, CanManagePortfolio, PortfolioOpen, IInv, DataTypeOK
    <3>2. portfolio' = [portfolio EXCEPT ![f] = [portfolio[f] EXCEPT !.open = FALSE]]
      BY <2>3 DEF ArchivePortfolio
    <3>3. [portfolio[f] EXCEPT !.open = FALSE] \in [open : BOOLEAN, member : Users]
      BY <3>1
    <3> QED
      BY <1>3, <3>2, <3>3 DEF IInv, DataTypeOK
  <2> QED
    BY <2>1, <2>2, <2>3
<1>5. DataTypeOK'
  BY <1>1, <1>4 DEF IInv, DataTypeOK
<1> QED
  BY <1>1, <1>5, MoveKeepsIInv

LEMMA StepKeepsIInv ==
  ASSUME IInv, [Next]_vars
  PROVE  IInv'
<1>1. ASSUME NEW t \in Requests, Refuse(t)
      PROVE  IInv'
  BY <1>1, MoveKeepsIInv DEF Refuse, Answer, dataVars, IInv, DataTypeOK
<1>2. ASSUME NEW t \in Requests, Step(t)
      PROVE  IInv'
  BY <1>1, <1>2, SnapshotKeepsIInv, AbortKeepsIInv, CommitCreateProjectKeepsIInv,
     CommitUpdateProjectKeepsIInv, ArchiveProjectKeepsIInv, CreateCustomerKeepsIInv,
     CustomerWriteKeepsIInv, PortfolioWriteKeepsIInv
  DEF Step
<1>3. CASE UNCHANGED vars
  BY <1>3 DEF vars, IInv, DataTypeOK
<1> QED
  BY <1>2, <1>3, RequestKeepsIInv DEF Next

-----------------------------------------------------------------------------
(***************************************************************************)
(* The theorems.                                                           *)
(***************************************************************************)

\* A transaction that is not doomed writes the project or customer it has checked.
THEOREM Invariance == Spec => []IInv
<1>1. Init => IInv
  BY DEF Init, IInv, DataTypeOK
<1> QED
  BY <1>1, StepKeepsIInv, PTL DEF Spec

\* Requests and rows keep their types; in particular a reference is one of a customer or
\* portfolio, or none.
THEOREM TypeCorrectness == Spec => []RefTypeOK
<1>1. IInv => RefTypeOK
  BY DEF IInv, DataTypeOK, RefTypeOK, StillChecked
<1> QED
  BY <1>1, Invariance, PTL

-----------------------------------------------------------------------------
\* A step that writes projects, and one that writes customers.
LEMMA ProjectSteps ==
  ASSUME [Next]_vars
  PROVE  \/ UNCHANGED project
         \/ \E t \in Requests : CommitCreateProject(t) \/ CommitUpdateProject(t)
                                \/ ArchiveProject(t) \/ CreateCustomer(t)
<1>1. ASSUME NEW t \in Requests, Request(t)
      PROVE  UNCHANGED project
  BY <1>1
  DEF Request, RequestCreateProject, RequestUpdateProject, RequestArchiveProject,
      RequestCreateCustomer, RequestCustomer, RequestContact, RequestCreatePortfolio,
      RequestPortfolio, Accept, dataVars
<1>2. ASSUME NEW t \in Requests, Step(t)
      PROVE  \/ UNCHANGED project
             \/ CommitCreateProject(t) \/ CommitUpdateProject(t)
             \/ ArchiveProject(t) \/ CreateCustomer(t)
  BY <1>2
  DEF Step, SnapshotCreateProject, SnapshotUpdateProject, SnapshotContact, UpdateCustomer,
      ArchiveCustomer, CommitContact, WriteCustomer, CreatePortfolio, UpdatePortfolio,
      ArchivePortfolio, Abort, Refuse, dataVars
<1> QED
  BY <1>1, <1>2 DEF Next, vars

LEMMA CustomerSteps ==
  ASSUME [Next]_vars
  PROVE  \/ UNCHANGED <<customer, customerVersion>>
         \/ \E t \in Requests : CreateCustomer(t) \/ UpdateCustomer(t)
                                \/ ArchiveCustomer(t) \/ CommitContact(t)
<1>1. ASSUME NEW t \in Requests, Request(t)
      PROVE  UNCHANGED <<customer, customerVersion>>
  BY <1>1
  DEF Request, RequestCreateProject, RequestUpdateProject, RequestArchiveProject,
      RequestCreateCustomer, RequestCustomer, RequestContact, RequestCreatePortfolio,
      RequestPortfolio, Accept, dataVars
<1>2. ASSUME NEW t \in Requests, Step(t)
      PROVE  \/ UNCHANGED <<customer, customerVersion>>
             \/ CreateCustomer(t) \/ UpdateCustomer(t) \/ ArchiveCustomer(t) \/ CommitContact(t)
  BY <1>2
  DEF Step, SnapshotCreateProject, SnapshotUpdateProject, SnapshotContact,
      CommitCreateProject, CommitUpdateProject, ArchiveProject, CreatePortfolio,
      UpdatePortfolio, ArchivePortfolio, Abort, Refuse, dataVars
<1> QED
  BY <1>1, <1>2 DEF Next, vars

\* A write answers one request; the others stay in flight as what they were.
LEMMA OthersStay ==
  ASSUME IInv, NEW t \in Requests, NEW u \in Requests, u # t, job[u] # Idle,
         Answer(t) \/ (\E table, id : AnswerWrite(t, table, id))
  PROVE  job'[u] # Idle
<1>1. job[u] \in Jobs
  BY Busy
<1>2. CASE Answer(t)
  BY <1>2 DEF Answer, IInv
<1>3. ASSUME NEW table, NEW id, AnswerWrite(t, table, id)
      PROVE  job'[u] # Idle
  BY <1>1, <1>3, DoomShape, JobFields DEF AnswerWrite
<1> QED
  BY <1>2, <1>3

-----------------------------------------------------------------------------
\* An update keeps or replaces the customer that its checks have seen: binding another one
\* in between dooms it, although the version of the project stays.
THEOREM UpdatesKeepWhatTheyChecked == Spec => UpdateKeepsWhatItChecked
<1>1. ASSUME IInv, [Next]_vars, NEW t \in Requests,
             Commits(t, "updateProject"), job'[t] = Idle, project' # project
      PROVE  project[job[t].target].customer = job[t].seen
  <2>1. job[t] # Idle /\ StillChecked(job[t], project, customer)
    BY <1>1, Busy DEF Commits, Idle
  <2>2. PICK u \in Requests : CommitCreateProject(u) \/ CommitUpdateProject(u)
                              \/ ArchiveProject(u) \/ CreateCustomer(u)
    BY <1>1, ProjectSteps
  <2>3. Answer(u) \/ (\E table, id : AnswerWrite(u, table, id))
    BY <2>2 DEF CommitCreateProject, CommitUpdateProject, ArchiveProject, CreateCustomer
  <2>4. u = t
    BY <1>1, <2>1, <2>3, OthersStay
  <2>5. ~job[t].doomed
    BY <1>1, <2>2, <2>4
    DEF Commits, Write, CommitCreateProject, CommitUpdateProject, ArchiveProject, CreateCustomer
  <2> QED
    BY <1>1, <2>1, <2>5 DEF StillChecked, Commits
<1>2. IInv /\ [Next]_vars =>
        [\A t \in Requests :
           Commits(t, "updateProject") /\ job'[t] = Idle /\ project' # project
             => project[job[t].target].customer = job[t].seen]_vars
  BY <1>1
<1> QED
  BY <1>2, Invariance, PTL DEF Spec, UpdateKeepsWhatItChecked

\* What each write of projects does to the customer of a project.
LEMMA CustomerOfProject ==
  ASSUME IInv, [Next]_vars, NEW p \in Projects, project[p] # None
  PROVE  /\ project'[p] # None
         /\ \/ project'[p].customer = project[p].customer
            \/ \E t \in Requests :
                 /\ CommitUpdateProject(t) /\ job[t].target = p /\ ProjectOpen(p)
                 /\ "customer" \in DOMAIN job[t].patch
                 /\ project'[p].customer = job[t].patch.customer
            \/ \E t \in Requests :
                 /\ CreateCustomer(t) /\ job[t].project = p
                 /\ project[p].customer = None /\ customer[job[t].target] = None
                 /\ project'[p].customer = job[t].target
         /\ ProjectOpen(p)' => ProjectOpen(p)
<1>0. project[p] \in ProjectFields /\ None \notin ProjectFields
  BY ReferencesAssumption DEF IInv, DataTypeOK
<1>1. CASE UNCHANGED project
  BY <1>1 DEF ProjectOpen
<1>2. ASSUME NEW t \in Requests, CommitCreateProject(t)
      PROVE  project'[p] = project[p]
  BY <1>2 DEF CommitCreateProject, IInv, DataTypeOK
<1>3. ASSUME NEW t \in Requests, CommitUpdateProject(t), project'[p] # project[p]
      PROVE  /\ job[t].target = p /\ ProjectOpen(p)
             /\ project'[p] \in ProjectFields
             /\ project'[p].customer = IF "customer" \in DOMAIN job[t].patch
                                       THEN job[t].patch.customer ELSE project[p].customer
  <2>1. StillChecked(job[t], project, customer) /\ job[t] \in Jobs
    BY <1>3, Busy DEF CommitUpdateProject, Commits, Idle
  <2>2. job[t].patch \in Patches
    BY <1>3, <2>1, JobFields DEF CommitUpdateProject, Commits
  <2>3. job[t].target = p /\ project'[p] = Patched(project[p], job[t].patch)
    BY <1>3 DEF CommitUpdateProject, IInv, DataTypeOK
  <2> QED
    BY <1>0, <1>3, <2>1, <2>2, <2>3, PatchedFields
    DEF StillChecked, ProjectOpen, CommitUpdateProject, Commits
<1>4. ASSUME NEW t \in Requests, ArchiveProject(t), project'[p] # project[p]
      PROVE  /\ project'[p] \in ProjectFields
             /\ project'[p].customer = project[p].customer
             /\ ProjectOpen(p)
  <2>1. project'[p] = [project[p] EXCEPT !.status = "ARCHIVED"] /\ ProjectOpen(p)
    BY <1>4 DEF ArchiveProject, CanManageProject, IInv, DataTypeOK
  <2> QED
    BY <1>0, <2>1 DEF ProjectFields, ProjectStatuses
<1>5. ASSUME NEW t \in Requests, CreateCustomer(t), project'[p] # project[p]
      PROVE  /\ job[t].project = p /\ ProjectOpen(p)
             /\ project[p].customer = None /\ customer[job[t].target] = None
             /\ project'[p] \in ProjectFields
             /\ project'[p].customer = job[t].target
  <2>1. job[t] \in Jobs /\ job[t].op = "createCustomer"
    BY <1>5, Busy DEF CreateCustomer, Write, Idle
  <2>2. job[t].project = p /\ project'[p] = [project[p] EXCEPT !.customer = job[t].target]
    BY <1>5 DEF CreateCustomer, IInv, DataTypeOK
  <2>3. job[t].target \in Customers
    BY <2>1, JobFields DEF CustomerOps
  <2> QED
    BY <1>0, <1>5, <2>2, <2>3
    DEF CreateCustomer, Bindable, Sensitive, CanManageProject, ProjectFields
<1> QED
  BY <1>0, <1>1, <1>2, <1>3, <1>4, <1>5, ProjectSteps DEF ProjectOpen

\* Creating customers for one project at the same time binds one of them.
THEOREM BindingsAreReplacedByName == Spec => BindingIsReplacedByName
<1>1. IInv /\ [Next]_vars =>
        [\A p \in Projects :
           project[p] # None /\ project[p].customer # None
             /\ project'[p].customer # project[p].customer
             => \E t \in Requests : Commits(t, "updateProject") /\ job[t].target = p
                                    /\ "customer" \in DOMAIN job[t].patch]_vars
  BY CustomerOfProject DEF CommitUpdateProject
<1> QED
  BY <1>1, Invariance, PTL DEF Spec, BindingIsReplacedByName

-----------------------------------------------------------------------------
\* How a transaction comes to hold a snapshot.
LEMMA RequestHoldsNoSnapshot ==
  ASSUME IInv, NEW t \in Requests, Request(t), NEW u \in Requests, job'[u].pc = "commit"
  PROVE  job'[u] = job[u]
<1>1. job'[t].pc # "commit" /\ (u # t => job'[u] = job[u])
  BY DEF Request, RequestCreateProject, RequestUpdateProject, RequestArchiveProject,
         RequestCreateCustomer, RequestCustomer, RequestContact, RequestCreatePortfolio,
         RequestPortfolio, Accept, IInv
<1> QED
  BY <1>1

LEMMA HoldsSnapshot ==
  ASSUME IInv, [Next]_vars, NEW u \in Requests, job'[u].pc = "commit"
  PROVE  \/ /\ job[u].pc = "commit" /\ job'[u].op = job[u].op
            /\ job[u].op = "createProject" => job'[u].draft = job[u].draft
            /\ job[u].op = "updateProject" => job'[u].patch = job[u].patch
         \/ SnapshotCreateProject(u) \/ SnapshotUpdateProject(u) \/ SnapshotContact(u)
<1> DEFINE Held == /\ job[u].pc = "commit" /\ job'[u].op = job[u].op
                   /\ job[u].op = "createProject" => job'[u].draft = job[u].draft
                   /\ job[u].op = "updateProject" => job'[u].patch = job[u].patch
<1>1. CASE job'[u] = job[u]
  BY <1>1
<1>2. ASSUME NEW t \in Requests, NEW table, NEW id, AnswerWrite(t, table, id)
      PROVE  Held
  <2>1. u # t /\ job'[u] = Doom(job[u], table, id)
    BY <1>2 DEF AnswerWrite, Idle
  <2>2. job[u] # Idle
    BY <2>1 DEF Doom, Idle
  <2>3. job[u] \in Jobs
    BY <2>2, Busy
  <2> QED
    BY <2>1, <2>3, DoomShape
<1>3. ASSUME NEW t \in Requests, Answer(t)
      PROVE  job'[u] = job[u]
  BY <1>3 DEF Answer, IInv, Idle
<1>4. ASSUME NEW t \in Requests, Abort(t)
      PROVE  job'[u] = job[u]
  <2>1. job[t] \in Jobs /\ job[t].pc = "commit"
    BY <1>4, Busy DEF Abort, Idle
  <2>2. \E k : job' = [job EXCEPT ![t] = k] /\ k.pc # "commit"
    <3> DEFINE j == job[t]
               again == [j EXCEPT !.pc = "begin", !.attempt = j.attempt + 1]
    <3>1. again.pc = "begin" /\ [again EXCEPT !.doomed = FALSE].pc = "begin"
          /\ [again EXCEPT !.doomed = FALSE, !.seen = None].pc = "begin"
      BY <2>1 DEF Jobs, Retried, ContactOps
    <3>2. Idle.pc # "commit"
      BY DEF Idle
    <3> QED
      BY <1>4, <3>1, <3>2 DEF Abort
  <2> QED
    BY <2>2 DEF IInv
<1>5. ASSUME NEW t \in Requests,
             SnapshotCreateProject(t) \/ SnapshotUpdateProject(t) \/ SnapshotContact(t)
      PROVE  job'[u] = job[u] \/ t = u
  BY <1>5 DEF SnapshotCreateProject, SnapshotUpdateProject, SnapshotContact, IInv
<1>6. ASSUME NEW t \in Requests, Step(t)
      PROVE  \/ Held \/ job'[u] = job[u]
             \/ SnapshotCreateProject(u) \/ SnapshotUpdateProject(u) \/ SnapshotContact(u)
  <2>1. CASE SnapshotCreateProject(t) \/ SnapshotUpdateProject(t) \/ SnapshotContact(t)
    BY <1>5, <2>1
  <2>2. CASE Abort(t)
    BY <1>4, <2>2
  <2>3. CASE \/ CommitCreateProject(t) \/ CreatePortfolio(t) \/ UpdatePortfolio(t)
             \/ ArchivePortfolio(t) \/ Refuse(t)
    BY <1>3, <2>3
    DEF CommitCreateProject, CreatePortfolio, UpdatePortfolio, ArchivePortfolio, Refuse
  <2>4. CASE \/ CommitUpdateProject(t) \/ ArchiveProject(t) \/ CreateCustomer(t)
             \/ UpdateCustomer(t) \/ ArchiveCustomer(t) \/ CommitContact(t)
    BY <1>2, <2>4
    DEF CommitUpdateProject, ArchiveProject, CreateCustomer, UpdateCustomer, ArchiveCustomer,
        CommitContact, WriteCustomer
  <2> QED
    BY <1>6, <2>1, <2>2, <2>3, <2>4 DEF Step
<1> QED
  BY <1>1, <1>6, RequestHoldsNoSnapshot DEF Next, vars

-----------------------------------------------------------------------------
\* The three ways of naming an unclaimed customer are closed.
LEMMA UnclaimedStays ==
  ASSUME IInv, [Next]_vars, NEW c \in Customers, Unclaimed(c)
  PROVE  /\ Unclaimed(c)'
         /\ (\A t \in Requests : job[t].pc # "commit") => customer'[c] = customer[c]
<1>0. None # c /\ None \notin ProjectFields /\ None \notin CustomerRows
  BY ReferencesAssumption
<1>1. ASSUME NEW p \in BoundTo(c)
      PROVE  ~ProjectOpen(p)
  BY <1>1 DEF Unclaimed
<1>2. ASSUME NEW t \in Requests, CreateCustomer(t)
      PROVE  customer'[c] = customer[c] /\ job[t].target # c
  BY <1>2 DEF CreateCustomer, Unclaimed, IInv, DataTypeOK
<1>3. ASSUME NEW t \in Requests, UpdateCustomer(t) \/ ArchiveCustomer(t) \/ CommitContact(t)
      PROVE  /\ customer'[c] # None
             /\ ~CommitContact(t) => customer'[c] = customer[c]
  <2>1. PICK new \in CustomerRows : WriteCustomer(t, new)
    BY <1>3, CustomerWrites
  <2>2. customer'[c] # None
    BY <1>0, <2>1 DEF WriteCustomer, Unclaimed, IInv, DataTypeOK
  <2>3. ASSUME ~CommitContact(t)
        PROVE  job[t].target # c
    BY <1>1, <1>3, <2>3, CustomerWrites DEF CanManageCustomer, Sensitive, CanManageProject
  <2> QED
    BY <2>1, <2>2, <2>3 DEF WriteCustomer, IInv, DataTypeOK
<1>4. customer'[c] # None
  BY <1>2, <1>3, CustomerSteps DEF Unclaimed
<1>5. ASSUME \A t \in Requests : job[t].pc # "commit"
      PROVE  customer'[c] = customer[c]
  BY <1>2, <1>3, <1>5, CustomerSteps DEF CommitContact
<1>6. ASSUME NEW p \in Projects, project'[p] # None, project'[p].customer = c
      PROVE  ~ProjectOpen(p)'
  <2>1. CASE project[p] # None
    <3>1. ~(\E t \in Requests :
              /\ CommitUpdateProject(t) /\ "customer" \in DOMAIN job[t].patch
              /\ project'[p].customer = job[t].patch.customer)
      BY <1>6 DEF Unclaimed, CommitUpdateProject
    <3>2. ~(\E t \in Requests : CreateCustomer(t) /\ project'[p].customer = job[t].target)
      BY <1>2, <1>6
    <3>3. project'[p].customer = project[p].customer
      BY <2>1, <3>1, <3>2, CustomerOfProject
    <3>4. p \in BoundTo(c)
      BY <1>6, <2>1, <3>3 DEF BoundTo
    <3> QED
      BY <1>1, <2>1, <3>4, CustomerOfProject
  <2>2. CASE project[p] = None
    <3>1. PICK t \in Requests : CommitCreateProject(t) \/ CommitUpdateProject(t)
                                \/ ArchiveProject(t) \/ CreateCustomer(t)
      BY <1>6, <2>2, ProjectSteps
    <3>2. CASE CommitCreateProject(t)
      <4>1. project'[p] = job[t].draft
        BY <1>6, <2>2, <3>2 DEF CommitCreateProject, IInv, DataTypeOK
      <4> QED
        BY <1>6, <3>2, <4>1 DEF CommitCreateProject, Unclaimed
    <3>3. CASE CommitUpdateProject(t)
      <4>1. StillChecked(job[t], project, customer)
        BY <3>3, Busy DEF CommitUpdateProject, Commits, Idle
      <4> QED
        BY <1>6, <2>2, <3>3, <4>1
        DEF StillChecked, CommitUpdateProject, Commits, IInv, DataTypeOK
    <3>4. CASE ArchiveProject(t)
      BY <1>6, <2>2, <3>4 DEF ArchiveProject, CanManageProject, ProjectOpen, IInv, DataTypeOK
    <3>5. CASE CreateCustomer(t)
      BY <1>6, <2>2, <3>5
      DEF CreateCustomer, Bindable, Sensitive, CanManageProject, ProjectOpen, IInv, DataTypeOK
    <3> QED
      BY <3>1, <3>2, <3>3, <3>4, <3>5
  <2> QED
    BY <2>1, <2>2
<1>7. ASSUME NEW u \in Requests, job'[u].pc = "commit"
      PROVE  /\ job'[u].op = "createProject" => job'[u].draft.customer # c
             /\ job'[u].op = "updateProject" /\ "customer" \in DOMAIN job'[u].patch
                  => job'[u].patch.customer # c
  <2>1. CASE /\ job[u].pc = "commit" /\ job'[u].op = job[u].op
             /\ job[u].op = "createProject" => job'[u].draft = job[u].draft
             /\ job[u].op = "updateProject" => job'[u].patch = job[u].patch
    BY <2>1 DEF Unclaimed, Commits
  <2>2. CASE SnapshotCreateProject(u)
    <3>1. job[u] \in Jobs /\ job[u].op = "createProject"
      BY <2>2, Busy DEF SnapshotCreateProject, Begin, Idle
    <3>2. job'[u] = [job[u] EXCEPT !.pc = "commit"]
      BY <2>2 DEF SnapshotCreateProject, IInv
    <3>3. job'[u].op = "createProject" /\ job'[u].draft = job[u].draft
      BY <3>1, <3>2 DEF Jobs, Retried, ContactOps
    <3>4. job[u].draft.customer # c
      BY <1>0, <1>1, <2>2 DEF SnapshotCreateProject, InScope
    <3> QED
      BY <3>3, <3>4
  <2>3. CASE SnapshotUpdateProject(u)
    <3> DEFINE seen == project[job[u].target].customer
    <3>1. job[u] \in Jobs /\ job[u].op = "updateProject"
      BY <2>3, Busy DEF SnapshotUpdateProject, Begin, Idle
    <3>2. job'[u] = [job[u] EXCEPT !.pc = "commit", !.seen = seen]
      BY <2>3 DEF SnapshotUpdateProject, IInv
    <3>3. job'[u].op = "updateProject" /\ job'[u].patch = job[u].patch
      <4> HIDE DEF seen
      <4> QED
        BY <3>1, <3>2 DEF Jobs, Retried, ContactOps
    <3>4. job[u].patch \in Patches /\ project[job[u].target] \in ProjectFields
      BY <2>3, <3>1, JobFields
      DEF SnapshotUpdateProject, CanManageProject, ProjectOpen, ProjectOps, IInv, DataTypeOK
    <3>5. Patched(project[job[u].target], job[u].patch).customer # c
      BY <1>0, <1>1, <2>3 DEF SnapshotUpdateProject, InScope
    <3> QED
      BY <3>3, <3>4, <3>5, PatchedFields
  <2>4. CASE SnapshotContact(u)
    <3>1. job[u] \in Jobs /\ job[u].op \in ContactOps
      BY <2>4, Busy DEF SnapshotContact, Idle
    <3>2. job'[u] = [job[u] EXCEPT !.pc = "commit"]
      BY <2>4 DEF SnapshotContact, IInv
    <3> QED
      BY <3>1, <3>2 DEF Jobs, Retried, ContactOps
  <2> QED
    BY <1>7, <2>1, <2>2, <2>3, <2>4, HoldsSnapshot
<1> QED
  BY <1>4, <1>5, <1>6, <1>7 DEF Unclaimed, BoundTo, Commits

\* A customer that has lost its last open project is lost to everybody.
THEOREM UnclaimedIsForGood == Spec => UnclaimedForGood
<1>1. IInv /\ [Next]_vars =>
        [\A c \in Customers :
           Unclaimed(c) =>
             /\ Unclaimed(c)'
             /\ (\A t \in Requests : job[t].pc # "commit") => UNCHANGED customer[c]]_vars
  BY UnclaimedStays
<1> QED
  BY <1>1, Invariance, PTL DEF Spec, UnclaimedForGood

-----------------------------------------------------------------------------
\* A step that writes customer c writes no other, raises its version by one, and found it open.
LEMMA WriteIsResourceWrite ==
  ASSUME IInv, NEW t \in Requests,
         CreateCustomer(t) \/ UpdateCustomer(t) \/ ArchiveCustomer(t) \/ CommitContact(t)
  PROVE  Resource!ResourceNext
<1> DEFINE c == job[t].target
<1>1. c \in Customers /\ ~(customer[c] # None /\ ~customer[c].open)
  <2>1. CASE CreateCustomer(t)
    <3>1. job[t] \in Jobs /\ job[t].op = "createCustomer"
      BY <2>1, Busy DEF CreateCustomer, Write, Idle
    <3> QED
      BY <2>1, <3>1, JobFields DEF CreateCustomer, CustomerOps
  <2>2. CASE ~CreateCustomer(t)
    BY <2>2, CustomerWrites DEF CustomerOpen
  <2> QED
    BY <2>1, <2>2
<1>2. \E new : customer' = [customer EXCEPT ![c] = new]
  BY DEF CreateCustomer, UpdateCustomer, ArchiveCustomer, CommitContact, WriteCustomer
<1>3. customerVersion' = [customerVersion EXCEPT ![c] = @ + 1]
  BY DEF CreateCustomer, UpdateCustomer, ArchiveCustomer, CommitContact, WriteCustomer,
         RaiseCustomer
<1> QED
  BY <1>1, <1>2, <1>3 DEF Resource!ResourceNext, Resource!Write

\* A customer with its contacts is one versioned resource.
THEOREM CustomerIsVersionedResource == Spec => ImplementsVersionedResource
<1>1. Init => Resource!ResourceInit
  BY DEF Init, Resource!ResourceInit
<1>2. IInv /\ [Next]_vars => [Resource!ResourceNext]_(Resource!resourceVars)
  BY CustomerSteps, WriteIsResourceWrite DEF Resource!resourceVars
<1> QED
  BY <1>1, <1>2, Invariance, PTL DEF Spec, ImplementsVersionedResource, Resource!ResourceSpec
=============================================================================
