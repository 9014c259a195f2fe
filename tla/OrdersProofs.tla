---------------------------- MODULE OrdersProofs ----------------------------
(***************************************************************************)
(* Proofs about Orders, for every set of orders, items, requests and       *)
(* dates, and for every number of attempts and versions.                   *)
(***************************************************************************)
EXTENDS Orders, TLAPS

\* What the checks that request j has passed still say of its order, which has the row r
\* and the version v.
StillChecked(j, r, v) ==
  /\ j \in Jobs
  /\ j.op = "create" => j.new.status = "DRAFT" /\ OrderedDates(j.new)
  /\ j.op # "create" => j.token <= v
  /\ j.op = "update" /\ j.pc = "write" /\ j.token = v =>
       r # NoOrder /\ r.status # "ARCHIVED" /\ PatchAllowed(r, j.patch)
  /\ j.op \in ItemOps /\ j.pc = "commit" /\ ~j.doomed =>
       r # NoOrder /\ r.status # "ARCHIVED" /\ j.token = v

GoodJob(j) == j = Idle \/ StillChecked(j, row[j.order], version[j.order])

DataTypeOK ==
  /\ AccessTypeOK
  /\ row \in [Orders -> OrderRows \cup {NoOrder}]
  /\ items \in [Orders -> [Items -> ItemStatuses \cup {"CANCELLED", NoItem}]]
  /\ version \in [Orders -> 0..MaxVersion]

IInv ==
  /\ DataTypeOK
  /\ DatesStayOrdered
  /\ job = [t \in Requests |-> job[t]]
  /\ \A t \in Requests : GoodJob(job[t])

-----------------------------------------------------------------------------
(***************************************************************************)
(* Requests, by operation.                                                 *)
(***************************************************************************)
LEMMA JobFields ==
  ASSUME NEW j \in Jobs
  PROVE  /\ j # Idle
         /\ j.actor \in Users /\ j.order \in Orders
         /\ j.pc \in {"read", "write", "begin", "commit"}
         /\ j.op \in {"update", "archive", "create"} \cup ItemOps
         /\ j.op = "update" =>
              /\ j.pc \in {"read", "write"} /\ j.token \in 1..MaxVersion /\ j.patch \in Patches
         /\ j.op = "archive" => j.pc = "write" /\ j.token \in 1..MaxVersion
         /\ j.op = "create" =>
              /\ j.pc \in {"begin", "commit"} /\ j.new \in Drafts /\ j.attempt \in 1..Attempts
         /\ j.op \in ItemOps =>
              /\ j.pc \in {"begin", "commit"} /\ j.token \in 1..MaxVersion /\ j.item \in Items
              /\ j.new \in ItemStatuses \cup {"CANCELLED"}
              /\ j.attempt \in 1..Attempts /\ j.doomed \in BOOLEAN
BY DEF Jobs, Idle, ItemOps

LEMMA UpdateOf ==
  ASSUME NEW j \in Jobs, j.op = "update"
  PROVE  [j EXCEPT !.pc = "write"] \in Jobs
BY DEF Jobs, ItemOps

LEMMA CommitOf ==
  ASSUME NEW j \in Jobs, j.op \in {"create"} \cup ItemOps
  PROVE  [j EXCEPT !.pc = "commit"] \in Jobs
BY DEF Jobs, ItemOps

LEMMA RetryOf ==
  ASSUME NEW j \in Jobs, NEW n \in 1..Attempts
  PROVE  /\ j.op = "create" => [j EXCEPT !.pc = "begin", !.attempt = n] \in Jobs
         /\ j.op \in ItemOps =>
              [j EXCEPT !.pc = "begin", !.attempt = n, !.doomed = FALSE] \in Jobs
BY DEF Jobs, ItemOps

LEMMA DoomedOf ==
  ASSUME NEW j \in Jobs, j.op \in ItemOps, NEW d, d = [j EXCEPT !.doomed = TRUE]
  PROVE  /\ d \in Jobs
         /\ d.op = j.op /\ d.order = j.order /\ d.token = j.token /\ d.doomed = TRUE
BY DEF Jobs, ItemOps

LEMMA PatchedRow ==
  ASSUME NEW r \in OrderRows, NEW patch \in Patches
  PROVE  Patched(r, patch) \in OrderRows
<1>1. PICK q \in OrderRows : \E fields \in SUBSET DOMAIN q : patch = [f \in fields |-> q[f]]
  BY OrdersAssumption
<1>2. \A f \in DOMAIN patch : patch[f] = q[f]
  BY <1>1
<1>3. /\ "status" \in DOMAIN patch => patch["status"] \in OrderStatuses
      /\ "start" \in DOMAIN patch => patch["start"] \in Days \cup {NoDate}
      /\ "delivery" \in DOMAIN patch => patch["delivery"] \in Days \cup {NoDate}
  BY <1>1, <1>2 DEF OrderRows
<1>4. Patched(r, patch) =
        [status |-> Patched(r, patch)["status"], start |-> Patched(r, patch)["start"],
         delivery |-> Patched(r, patch)["delivery"]]
  BY DEF Patched
<1> QED
  BY <1>3, <1>4 DEF Patched, OrderRows

-----------------------------------------------------------------------------
(***************************************************************************)
(* Every step moves one request, writes one order, or changes who has      *)
(* access.                                                                 *)
(***************************************************************************)

\* A request moves on, or ends, and nothing else changes.
LEMMA MoveKeepsIInv ==
  ASSUME IInv, NEW t \in Requests, NEW new, GoodJob(new),
         job' = [job EXCEPT ![t] = new],
         UNCHANGED <<accessVars, orderVars>>
  PROVE  IInv'
<1>1. DataTypeOK' /\ DatesStayOrdered'
  BY DEF IInv, DataTypeOK, DatesStayOrdered, AccessTypeOK, accessVars, orderVars
<1>2. job' = [u \in Requests |-> job'[u]]
  BY DEF IInv
<1>3. ASSUME NEW u \in Requests
      PROVE  GoodJob(job[u])'
  BY DEF IInv, GoodJob, orderVars
<1> QED
  BY <1>1, <1>2, <1>3 DEF IInv

\* A request writes an order: the others on that order are overtaken.
LEMMA WriteKeepsIInv ==
  ASSUME IInv, NEW t \in Requests, NEW o \in Orders,
         AnswerWrite(t, o),
         row' \in [Orders -> OrderRows \cup {NoOrder}],
         items' \in [Orders -> [Items -> ItemStatuses \cup {"CANCELLED", NoItem}]],
         \A p \in Orders \ {o} : row'[p] = row[p],
         row'[o] # NoOrder => OrderedDates(row'[o]),
         UNCHANGED accessVars
  PROVE  IInv'
<1>1. /\ version' = [version EXCEPT ![o] = @ + 1]
      /\ version' \in [Orders -> 0..MaxVersion]
  BY OrdersAssumption DEF AnswerWrite, IInv, DataTypeOK
<1>2. DataTypeOK' /\ DatesStayOrdered'
  BY <1>1 DEF IInv, DataTypeOK, DatesStayOrdered, AccessTypeOK, accessVars
<1>3. job' = [u \in Requests |-> job'[u]]
  BY DEF AnswerWrite
<1>4. ASSUME NEW u \in Requests, job'[u] # Idle
      PROVE  StillChecked(job'[u], row'[job'[u].order], version'[job'[u].order])
  <2>1. u # t /\ job[u] # Idle /\ StillChecked(job[u], row[job[u].order], version[job[u].order])
    BY <1>4 DEF AnswerWrite, IInv, GoodJob, Idle
  <2>2. CASE job[u].pc = "commit" /\ job[u].op \in ItemOps /\ job[u].order = o
    <3>1. job'[u] = [job[u] EXCEPT !.doomed = TRUE]
      BY <2>1, <2>2 DEF AnswerWrite
    <3>2. job[u] \in Jobs /\ job[u].token \in 1..MaxVersion /\ job[u].token <= version[o]
      BY <2>1, <2>2, JobFields DEF StillChecked, ItemOps
    <3>3. /\ job'[u] \in Jobs
          /\ job'[u].op = job[u].op /\ job'[u].order = o /\ job'[u].token = job[u].token
          /\ job'[u].doomed = TRUE
      BY <2>2, <3>1, <3>2, DoomedOf
    <3>4. job'[u].token <= version'[o]
      BY <1>1, <3>2, <3>3 DEF IInv, DataTypeOK
    <3> QED
      BY <2>2, <3>3, <3>4 DEF StillChecked, ItemOps
  <2>3. CASE ~(job[u].pc = "commit" /\ job[u].op \in ItemOps /\ job[u].order = o)
    <3>1. job'[u] = job[u]
      BY <2>1, <2>3 DEF AnswerWrite
    <3>2. job[u] \in Jobs /\ job[u].order \in Orders
      BY <2>1, JobFields DEF StillChecked
    <3>3. CASE job[u].order = o
      <4>1. job[u].op # "create" => job[u].token < version'[o]
        BY <1>1, <2>1, <3>2, <3>3, JobFields DEF StillChecked, IInv, DataTypeOK
      <4>2. version'[o] \in Nat /\ (job[u].op # "create" => job[u].token \in Nat)
        BY <1>1, <3>2, JobFields
      <4> QED
        BY <2>1, <2>3, <3>1, <3>2, <3>3, <4>1, <4>2, JobFields DEF StillChecked, ItemOps
    <3>4. CASE job[u].order # o
      <4>1. version'[job[u].order] = version[job[u].order] /\ row'[job[u].order] = row[job[u].order]
        BY <1>1, <3>2, <3>4 DEF IInv, DataTypeOK
      <4> QED
        BY <2>1, <3>1, <4>1
    <3> QED
      BY <3>3, <3>4
  <2> QED
    BY <2>2, <2>3
<1> QED
  BY <1>2, <1>3, <1>4 DEF IInv, GoodJob

LEMMA AccessKeepsIInv ==
  ASSUME IInv, AccessNext \/ UNCHANGED accessVars, UNCHANGED <<orderVars, job>>
  PROVE  IInv'
<1>1. CASE AccessNext
  <2>1. ASSUME NEW u \in Users, NEW granted \in Assignable[u], ChangeMembership(u, granted)
        PROVE  AccessTypeOK'
    <3>1. granted \subseteq Roles
      BY ProjectAccessAssumption
    <3> QED
      BY <2>1, <3>1 DEF IInv, DataTypeOK, AccessTypeOK, ChangeMembership
  <2>2. ASSUME ArchiveProject
        PROVE  AccessTypeOK'
    BY <2>2 DEF IInv, DataTypeOK, AccessTypeOK, ArchiveProject
  <2>3. AccessTypeOK'
    BY <1>1, <2>1, <2>2 DEF AccessNext
  <2> QED
    BY <2>3 DEF IInv, DataTypeOK, DatesStayOrdered, GoodJob, orderVars
<1>2. CASE UNCHANGED accessVars
  BY <1>2 DEF IInv, DataTypeOK, AccessTypeOK, DatesStayOrdered, GoodJob, orderVars, accessVars
<1> QED
  BY <1>1, <1>2

-----------------------------------------------------------------------------
(***************************************************************************)
(* The actions.                                                            *)
(***************************************************************************)
LEMMA RequestKeepsIInv ==
  ASSUME IInv, NEW t \in Requests, Request(t)
  PROVE  IInv'
<1>1. PICK actor \in Users, o \in Orders :
        \/ \E new \in Drafts : RequestCreate(t, actor, o, new)
        \/ \E patch \in Patches : RequestUpdate(t, actor, o, patch)
        \/ RequestArchive(t, actor, o)
        \/ \E op \in ItemOps, item \in Items : RequestItem(t, op, actor, o, item)
  BY DEF Request
<1>2. version[o] \in 0..MaxVersion /\ MaxVersion \in Nat /\ 1 \in 1..Attempts
  BY OrdersAssumption DEF IInv, DataTypeOK
<1>3. ASSUME NEW new \in Drafts, RequestCreate(t, actor, o, new)
      PROVE  IInv'
  <2> DEFINE j == [pc |-> "begin", op |-> "create", actor |-> actor, order |-> o, new |-> new,
                   attempt |-> 1]
  <2>1. job' = [job EXCEPT ![t] = j] /\ new.status = "DRAFT" /\ OrderedDates(new)
        /\ UNCHANGED <<accessVars, orderVars>>
    BY <1>3 DEF RequestCreate, Accept
  <2>2. j \in Jobs
    BY <1>2 DEF Jobs
  <2>3. GoodJob(j)
    BY <2>1, <2>2 DEF GoodJob, StillChecked, ItemOps
  <2> QED
    BY <2>1, <2>3, MoveKeepsIInv
<1>4. ASSUME NEW patch \in Patches, RequestUpdate(t, actor, o, patch)
      PROVE  IInv'
  <2>1. PICK token \in Token(o) :
          Accept(t, [pc |-> "read", op |-> "update", actor |-> actor, order |-> o,
                     token |-> token, patch |-> patch])
    BY <1>4 DEF RequestUpdate
  <2> DEFINE j == [pc |-> "read", op |-> "update", actor |-> actor, order |-> o,
                   token |-> token, patch |-> patch]
  <2>2. token \in 1..MaxVersion /\ token <= version[o]
    BY <1>2, <2>1 DEF Token
  <2>3. j \in Jobs
    BY <2>2 DEF Jobs
  <2>4. GoodJob(j)
    BY <2>2, <2>3 DEF GoodJob, StillChecked, ItemOps
  <2> QED
    BY <2>1, <2>4, MoveKeepsIInv DEF Accept
<1>5. ASSUME RequestArchive(t, actor, o)
      PROVE  IInv'
  <2>1. PICK token \in Token(o) :
          Accept(t, [pc |-> "write", op |-> "archive", actor |-> actor, order |-> o,
                     token |-> token])
    BY <1>5 DEF RequestArchive
  <2> DEFINE j == [pc |-> "write", op |-> "archive", actor |-> actor, order |-> o,
                   token |-> token]
  <2>2. token \in 1..MaxVersion /\ token <= version[o]
    BY <1>2, <2>1 DEF Token
  <2>3. j \in Jobs
    BY <2>2 DEF Jobs
  <2>4. GoodJob(j)
    BY <2>2, <2>3 DEF GoodJob, StillChecked, ItemOps
  <2> QED
    BY <2>1, <2>4, MoveKeepsIInv DEF Accept
<1>6. ASSUME NEW op \in ItemOps, NEW item \in Items, RequestItem(t, op, actor, o, item)
      PROVE  IInv'
  <2>1. PICK token \in Token(o), new \in ItemStatuses \cup {"CANCELLED"} :
          Accept(t, [pc |-> "begin", op |-> op, actor |-> actor, order |-> o, token |-> token,
                     item |-> item, new |-> new, attempt |-> 1, doomed |-> FALSE])
    BY <1>6 DEF RequestItem
  <2> DEFINE j == [pc |-> "begin", op |-> op, actor |-> actor, order |-> o, token |-> token,
                   item |-> item, new |-> new, attempt |-> 1, doomed |-> FALSE]
  <2>2. token \in 1..MaxVersion /\ token <= version[o]
    BY <1>2, <2>1 DEF Token
  <2>3. j \in Jobs
    BY <1>2, <2>2 DEF Jobs
  <2>4. GoodJob(j)
    BY <2>2, <2>3 DEF GoodJob, StillChecked, ItemOps
  <2> QED
    BY <2>1, <2>4, MoveKeepsIInv DEF Accept
<1> QED
  BY <1>1, <1>3, <1>4, <1>5, <1>6

\* The request that takes a step has passed its checks.
LEMMA Busy ==
  ASSUME IInv, NEW t \in Requests, job[t] # Idle
  PROVE  StillChecked(job[t], row[job[t].order], version[job[t].order])
BY DEF IInv, GoodJob

LEMMA ReadForUpdateKeepsIInv ==
  ASSUME IInv, NEW t \in Requests, ReadForUpdate(t)
  PROVE  IInv'
<1> DEFINE j == job[t]
           k == [j EXCEPT !.pc = "write"]
<1>1. StillChecked(j, row[j.order], version[j.order]) /\ j \in Jobs /\ j.op = "update"
  <2>1. StillChecked(j, row[j.order], version[j.order])
    BY Busy DEF ReadForUpdate, Idle
  <2> QED
    BY <2>1, JobFields DEF ReadForUpdate, StillChecked, ItemOps
<1>2. k \in Jobs
  BY <1>1, UpdateOf
<1>3. k.op = "update" /\ k.order = j.order /\ k.token = j.token /\ k.patch = j.patch
  BY <1>1 DEF Jobs, ItemOps
<1>4. GoodJob(k)
  BY <1>1, <1>2, <1>3 DEF GoodJob, StillChecked, ItemOps, ReadForUpdate, Live
<1> QED
  BY <1>4, MoveKeepsIInv DEF ReadForUpdate, Advance

LEMMA UpdateKeepsIInv ==
  ASSUME IInv, NEW t \in Requests, Update(t)
  PROVE  IInv'
<1> DEFINE j == job[t]
<1>1. StillChecked(j, row[j.order], version[j.order]) /\ j \in Jobs
  BY Busy DEF Update, Idle, StillChecked
<1>2. j.order \in Orders /\ j.patch \in Patches
  BY <1>1, JobFields DEF Update
<1>3. row[j.order] \in OrderRows /\ PatchAllowed(row[j.order], j.patch)
  BY <1>1, <1>2 DEF Update, Writable, StillChecked, IInv, DataTypeOK
<1>4. row' = [row EXCEPT ![j.order] = Patched(row[j.order], j.patch)]
  BY DEF Update
<1>5. row' \in [Orders -> OrderRows \cup {NoOrder}] /\ OrderedDates(row'[j.order])
  BY <1>2, <1>3, <1>4, PatchedRow DEF IInv, DataTypeOK, PatchAllowed
<1> QED
  BY <1>2, <1>4, <1>5, WriteKeepsIInv DEF Update, IInv, DataTypeOK

LEMMA ArchiveKeepsIInv ==
  ASSUME IInv, NEW t \in Requests, Archive(t)
  PROVE  IInv'
<1> DEFINE o == job[t].order
<1>1. o \in Orders
  BY Busy, JobFields DEF Archive, Idle, StillChecked
<1>2. row[o] \in OrderRows /\ OrderedDates(row[o])
  BY <1>1 DEF Archive, Writable, Live, IInv, DataTypeOK, DatesStayOrdered
<1>3. row' = [row EXCEPT ![o] = [row[o] EXCEPT !.status = "ARCHIVED"]]
  BY DEF Archive
<1>4. [row[o] EXCEPT !.status = "ARCHIVED"] \in OrderRows
      /\ OrderedDates([row[o] EXCEPT !.status = "ARCHIVED"])
  BY <1>2 DEF OrderRows, OrderStatuses, OrderedDates
<1>5. row' \in [Orders -> OrderRows \cup {NoOrder}] /\ OrderedDates(row'[o])
  BY <1>1, <1>3, <1>4 DEF IInv, DataTypeOK
<1> QED
  BY <1>1, <1>3, <1>5, WriteKeepsIInv DEF Archive, IInv, DataTypeOK

LEMMA SnapshotCreateKeepsIInv ==
  ASSUME IInv, NEW t \in Requests, SnapshotCreate(t)
  PROVE  IInv'
<1> DEFINE j == job[t]
           k == [j EXCEPT !.pc = "commit"]
<1>1. StillChecked(j, row[j.order], version[j.order]) /\ j \in Jobs /\ j.op = "create"
  BY Busy DEF SnapshotCreate, Idle, StillChecked
<1>2. k \in Jobs
  BY <1>1, CommitOf
<1>3. k.op = "create" /\ k.new = j.new
  BY <1>1 DEF Jobs, ItemOps
<1>4. GoodJob(k)
  BY <1>1, <1>2, <1>3 DEF GoodJob, StillChecked, ItemOps
<1> QED
  BY <1>4, MoveKeepsIInv DEF SnapshotCreate, Advance

LEMMA CommitCreateKeepsIInv ==
  ASSUME IInv, NEW t \in Requests, CommitCreate(t)
  PROVE  IInv'
<1> DEFINE j == job[t]
<1>1. StillChecked(j, row[j.order], version[j.order]) /\ j \in Jobs /\ j.op = "create"
  BY Busy DEF CommitCreate, Idle, StillChecked
<1>2. j.order \in Orders /\ j.new \in OrderRows /\ OrderedDates(j.new)
  BY <1>1, JobFields, OrdersAssumption DEF StillChecked
<1>3. row' = [row EXCEPT ![j.order] = j.new]
  BY DEF CommitCreate
<1>4. row' \in [Orders -> OrderRows \cup {NoOrder}] /\ OrderedDates(row'[j.order])
  BY <1>2, <1>3 DEF IInv, DataTypeOK
<1> QED
  BY <1>2, <1>3, <1>4, WriteKeepsIInv DEF CommitCreate, IInv, DataTypeOK

LEMMA SnapshotItemKeepsIInv ==
  ASSUME IInv, NEW t \in Requests, SnapshotItem(t)
  PROVE  IInv'
<1> DEFINE j == job[t]
           k == [j EXCEPT !.pc = "commit"]
<1>1. StillChecked(j, row[j.order], version[j.order]) /\ j \in Jobs /\ j.op \in ItemOps
  BY Busy DEF SnapshotItem, Idle, StillChecked
<1>2. k \in Jobs
  BY <1>1, CommitOf
<1>3. k.op = j.op /\ k.order = j.order /\ k.token = j.token
  BY <1>1 DEF Jobs, ItemOps
<1>4. Live(j.order) /\ j.token = version[j.order]
  BY DEF SnapshotItem, Writable
<1>5. GoodJob(k)
  BY <1>1, <1>2, <1>3, <1>4 DEF GoodJob, StillChecked, ItemOps, Live
<1> QED
  BY <1>5, MoveKeepsIInv DEF SnapshotItem, Advance

LEMMA CommitItemKeepsIInv ==
  ASSUME IInv, NEW t \in Requests, CommitItem(t)
  PROVE  IInv'
<1> DEFINE j == job[t]
<1>1. StillChecked(j, row[j.order], version[j.order]) /\ j \in Jobs /\ j.op \in ItemOps
  BY Busy DEF CommitItem, Idle, StillChecked
<1>2. j.order \in Orders /\ j.item \in Items /\ j.new \in ItemStatuses \cup {"CANCELLED"}
  BY <1>1, JobFields
<1>3. items' \in [Orders -> [Items -> ItemStatuses \cup {"CANCELLED", NoItem}]]
  BY <1>2 DEF CommitItem, IInv, DataTypeOK
<1> QED
  BY <1>2, <1>3, WriteKeepsIInv DEF CommitItem, IInv, DataTypeOK, DatesStayOrdered

LEMMA AbortKeepsIInv ==
  ASSUME IInv, NEW t \in Requests, Abort(t)
  PROVE  IInv'
<1> DEFINE j == job[t]
           c == [j EXCEPT !.pc = "begin", !.attempt = j.attempt + 1]
           i == [j EXCEPT !.pc = "begin", !.attempt = j.attempt + 1, !.doomed = FALSE]
<1>1. StillChecked(j, row[j.order], version[j.order]) /\ j \in Jobs
  BY Busy DEF Abort, Idle, StillChecked
<1>2. CASE j.attempt = Attempts
  BY <1>2, MoveKeepsIInv DEF Abort, GoodJob
<1>3. CASE j.attempt # Attempts /\ j.op = "create"
  <2>1. j.attempt + 1 \in 1..Attempts
    BY <1>1, <1>3, JobFields, OrdersAssumption
  <2>2. c \in Jobs
    BY <1>1, <1>3, <2>1, RetryOf
  <2>3. c.op = "create" /\ c.new = j.new
    BY <1>1, <1>3 DEF Jobs, ItemOps
  <2>4. GoodJob(c)
    BY <1>1, <1>3, <2>2, <2>3 DEF GoodJob, StillChecked, ItemOps
  <2>5. job' = [job EXCEPT ![t] = c] /\ UNCHANGED <<accessVars, orderVars>>
    BY <1>3 DEF Abort
  <2> QED
    BY <2>4, <2>5, MoveKeepsIInv
<1>4. CASE j.attempt # Attempts /\ j.op # "create"
  <2>1. j.op \in ItemOps
    BY <1>1, <1>4, JobFields DEF Abort
  <2>2. j.attempt + 1 \in 1..Attempts
    BY <1>1, <1>4, <2>1, JobFields, OrdersAssumption
  <2>3. i \in Jobs
    BY <1>1, <2>1, <2>2, RetryOf
  <2>4. i.op = j.op /\ i.order = j.order /\ i.token = j.token /\ i.pc = "begin"
    BY <1>1, <2>1 DEF Jobs, ItemOps
  <2>5. GoodJob(i)
    BY <1>1, <2>1, <2>3, <2>4 DEF GoodJob, StillChecked, ItemOps
  <2>6. job' = [job EXCEPT ![t] = i] /\ UNCHANGED <<accessVars, orderVars>>
    BY <1>4 DEF Abort
  <2> QED
    BY <2>5, <2>6, MoveKeepsIInv
<1> QED
  BY <1>2, <1>3, <1>4

LEMMA RefuseKeepsIInv ==
  ASSUME IInv, NEW t \in Requests, Refuse(t)
  PROVE  IInv'
BY MoveKeepsIInv DEF Refuse, GoodJob

LEMMA StepKeepsIInv ==
  ASSUME IInv, [Next]_vars
  PROVE  IInv'
<1>1. ASSUME NEW t \in Requests, Step(t)
      PROVE  IInv'
  BY <1>1, ReadForUpdateKeepsIInv, UpdateKeepsIInv, ArchiveKeepsIInv, SnapshotCreateKeepsIInv,
     CommitCreateKeepsIInv, SnapshotItemKeepsIInv, CommitItemKeepsIInv, AbortKeepsIInv,
     RefuseKeepsIInv
  DEF Step
<1>2. CASE AccessNext /\ UNCHANGED <<orderVars, job>>
  BY <1>2, AccessKeepsIInv
<1>3. CASE UNCHANGED vars
  BY <1>3, AccessKeepsIInv DEF vars, orderVars, accessVars
<1> QED
  BY <1>1, <1>2, <1>3, RequestKeepsIInv DEF Next

LEMMA InitIInv ==
  ASSUME Init
  PROVE  IInv
<1>1. AccessTypeOK
  BY ProjectAccessAssumption DEF Init, AccessInit, AccessTypeOK, Roles
<1> QED
  BY <1>1, OrdersAssumption DEF Init, IInv, DataTypeOK, DatesStayOrdered, GoodJob

-----------------------------------------------------------------------------
(***************************************************************************)
(* The theorems.                                                           *)
(***************************************************************************)

\* The rows have their types and, in every request in flight, the checks it has passed hold
\* of the row its version still names.
THEOREM Invariance == Spec => []IInv
<1>1. Init => IInv
  BY InitIInv
<1>2. IInv /\ [Next]_vars => IInv'
  BY StepKeepsIInv
<1> QED
  BY <1>1, <1>2, PTL DEF Spec

\* Requests and rows keep their types: versions and attempts stay within their bounds.
THEOREM TypeCorrectness == Spec => []OrderTypeOK
<1>1. IInv => OrderTypeOK
  BY DEF IInv, DataTypeOK, OrderTypeOK, GoodJob, StillChecked
<1> QED
  BY <1>1, Invariance, PTL

\* No sequence of partial updates puts the start of an order after its delivery.
THEOREM DatesAreOrdered == Spec => []DatesStayOrdered
<1>1. IInv => DatesStayOrdered
  BY DEF IInv
<1> QED
  BY <1>1, Invariance, PTL

-----------------------------------------------------------------------------
\* A step that writes an order: by whom, and from what.
LEMMA WritingSteps ==
  ASSUME IInv, [Next]_vars
  PROVE  \/ UNCHANGED orderVars
         \/ \E t \in Requests : Update(t) \/ Archive(t) \/ CommitCreate(t) \/ CommitItem(t)
<1>1. ASSUME NEW t \in Requests, Request(t)
      PROVE  UNCHANGED orderVars
  BY <1>1 DEF Request, RequestCreate, RequestUpdate, RequestArchive, RequestItem, Accept
<1>2. ASSUME NEW t \in Requests, Step(t)
      PROVE  UNCHANGED orderVars \/ Update(t) \/ Archive(t) \/ CommitCreate(t) \/ CommitItem(t)
  BY <1>2 DEF Step, ReadForUpdate, SnapshotCreate, SnapshotItem, Abort, Refuse
<1> QED
  BY <1>1, <1>2 DEF Next, vars, orderVars

LEMMA StatusStep ==
  ASSUME IInv, [Next]_vars, NEW o \in Orders, row[o] # NoOrder
  PROVE  row'[o].status \in OrderTransitions(row[o].status) \cup {"ARCHIVED"}
<1>0. row[o] \in OrderRows /\ row[o].status \in OrderTransitions(row[o].status) \cup {"ARCHIVED"}
  BY DEF IInv, DataTypeOK, OrderRows, OrderStatuses, OrderTransitions
<1>1. CASE row'[o] = row[o]
  BY <1>0, <1>1
<1>2. ASSUME NEW t \in Requests, Update(t), row'[o] # row[o]
      PROVE  row'[o].status \in OrderTransitions(row[o].status)
  <2>1. StillChecked(job[t], row[job[t].order], version[job[t].order])
    BY <1>2, Busy DEF Update, Idle
  <2>2. job[t].order = o /\ row'[o] = Patched(row[o], job[t].patch)
    BY <1>2 DEF Update, IInv, DataTypeOK
  <2> QED
    BY <1>2, <2>1, <2>2 DEF Update, Writable, StillChecked, PatchAllowed
<1>3. ASSUME NEW t \in Requests, Archive(t), row'[o] # row[o]
      PROVE  row'[o].status = "ARCHIVED"
  BY <1>0, <1>3 DEF Archive, IInv, DataTypeOK, OrderRows
<1>4. ASSUME NEW t \in Requests, CommitCreate(t)
      PROVE  row'[o] = row[o]
  BY <1>4 DEF CommitCreate, IInv, DataTypeOK
<1>5. ASSUME NEW t \in Requests, CommitItem(t)
      PROVE  row'[o] = row[o]
  BY <1>5 DEF CommitItem
<1> QED
  BY <1>1, <1>2, <1>3, <1>4, <1>5, WritingSteps DEF orderVars

\* The status that an update has checked is the status that it overwrites.
THEOREM StatusesMoveForward == Spec => StatusMovesForward
<1>1. IInv /\ [Next]_vars =>
        [\A o \in Orders :
           row[o] # NoOrder =>
             row'[o].status \in OrderTransitions(row[o].status) \cup {"ARCHIVED"}]_vars
  BY StatusStep
<1> QED
  BY <1>1, Invariance, PTL DEF Spec, StatusMovesForward

-----------------------------------------------------------------------------
Content == [o \in Orders |-> [row |-> row[o], items |-> items[o]]]

\* A step that writes order o writes no other, raises its version by one, and found it open.
LEMMA WriteIsResourceWrite ==
  ASSUME IInv, NEW t \in Requests,
         Update(t) \/ Archive(t) \/ CommitCreate(t) \/ CommitItem(t)
  PROVE  Resource!ResourceNext
<1> DEFINE o == job[t].order
<1>1. StillChecked(job[t], row[o], version[o]) /\ o \in Orders
  BY Busy, JobFields DEF Update, Archive, CommitCreate, CommitItem, Idle, StillChecked
<1>2. version' = [version EXCEPT ![o] = @ + 1]
  BY DEF Update, Archive, CommitCreate, CommitItem, AnswerWrite
<1>3. ~(row[o] # NoOrder /\ row[o].status = "ARCHIVED")
  BY <1>1 DEF Update, Archive, CommitCreate, CommitItem, Writable, Live, StillChecked
<1>4. \A p \in Orders \ {o} : row'[p] = row[p] /\ items'[p] = items[p]
  BY <1>1 DEF Update, Archive, CommitCreate, CommitItem, IInv, DataTypeOK
<1>5. Content' = [Content EXCEPT ![o] = [row |-> row'[o], items |-> items'[o]]]
  BY <1>1, <1>4 DEF Content
<1> QED
  BY <1>1, <1>2, <1>3, <1>5 DEF Resource!ResourceNext, Resource!Write, Content

\* Orders and their items are one versioned resource.
THEOREM OrderIsVersionedResource == Spec => ImplementsVersionedResource
<1>1. Init => Resource!ResourceInit
  BY DEF Init, Resource!ResourceInit, NoContent
<1>2. IInv /\ [Next]_vars => [Resource!ResourceNext]_(Resource!resourceVars)
  BY WritingSteps, WriteIsResourceWrite DEF orderVars, Resource!resourceVars
<1> QED
  BY <1>1, <1>2, Invariance, PTL DEF Spec, ImplementsVersionedResource, Resource!ResourceSpec
=============================================================================
