------------------------------- MODULE Orders -------------------------------
(***************************************************************************)
(* OrdersService: orders of one project and their items.  An order and its *)
(* items share the order's version.  Creation and the item operations are  *)
(* SERIALIZABLE transactions that are retried; archive is one READ         *)
(* COMMITTED statement; update checks what it is about to write against a  *)
(* row it reads beforehand, and only then runs its one statement.          *)
(*                                                                         *)
(* A transaction takes its snapshot in Snapshot and writes in Commit; a    *)
(* write of the order in between dooms it.  The row lock that its first    *)
(* statement takes would rather make the other writer wait; Abort covers   *)
(* the failures that cannot then happen, too.                              *)
(***************************************************************************)
EXTENDS ProjectAccess

CONSTANTS
  Orders, Items,     \* ids of orders, and of items within an order
  Requests,          \* API requests in flight at the same time
  Days,              \* dates that occur, as numbers
  NoDate, NoItem, NoOrder,
  Drafts,            \* the orders that requests create
  Patches,           \* the changes that requests ask of an order
  ItemStatuses,      \* statuses that requests give to items
  Attempts,          \* SERIALIZABLE_TRANSACTION_ATTEMPTS
  MaxVersion         \* bound: orders.version

OrderStatuses == {"DRAFT", "ACTIVE", "COMPLETED", "CANCELLED", "ARCHIVED"}

OrderRows ==
  [status : OrderStatuses, start : Days \cup {NoDate}, delivery : Days \cup {NoDate}]

ASSUME OrdersAssumption ==
  /\ Days \subseteq Nat
  /\ NoDate \notin Nat
  /\ NoOrder \notin OrderRows
  /\ ItemStatuses \subseteq {"PENDING", "IN_PROGRESS", "COMPLETED", "CANCELLED"}
  /\ NoItem \notin ItemStatuses \cup {"CANCELLED"}
  /\ Drafts \subseteq OrderRows
  /\ \A patch \in Patches : \E row \in OrderRows : \E fields \in SUBSET DOMAIN row :
       patch = [f \in fields |-> row[f]]
  /\ Attempts \in Nat \ {0}
  /\ MaxVersion \in Nat \ {0}

VARIABLES
  row,         \* row[o]: status and dates of the order
  items,       \* items[o][i]: status of the item
  version,     \* version[o]: orders.version
  job          \* job[t]: the request t

orderVars == <<row, items, version>>

vars == <<roles, projectOpen, row, items, version, job>>

(***************************************************************************)
(* Rules of the service.                                                   *)
(***************************************************************************)
OrderTransitions(status) ==
  CASE status = "DRAFT" -> {"DRAFT", "ACTIVE", "CANCELLED"}
    [] status = "ACTIVE" -> {"ACTIVE", "COMPLETED", "CANCELLED"}
    [] OTHER -> {status}

OrderedDates(r) == r.start # NoDate /\ r.delivery # NoDate => r.start <= r.delivery

\* The row after a request that names some of its fields.
Patched(r, patch) ==
  [f \in {"status", "start", "delivery"} |-> IF f \in DOMAIN patch THEN patch[f] ELSE r[f]]

\* Mutant: only the dates the request names are compared, not those the row keeps.
PatchAllowedAlone(r, patch) ==
  /\ Patched(r, patch).status # "ARCHIVED"
  /\ Patched(r, patch).status \in OrderTransitions(r.status)
  /\ {"start", "delivery"} \subseteq DOMAIN patch => OrderedDates(Patched(r, patch))

PatchAllowed(r, patch) ==
  /\ Patched(r, patch).status # "ARCHIVED"
  /\ Patched(r, patch).status \in OrderTransitions(r.status)
  /\ OrderedDates(Patched(r, patch))

CurrentManager(u) == u \in Managing /\ HasRole(u, "PROJECT_MANAGER")

Live(o) == row[o] # NoOrder /\ row[o].status # "ARCHIVED"

\* Mutant: the statement leaves out the version.
WritableWithoutVersion(actor, o, token) == CurrentManager(actor) /\ Live(o)

\* The WHERE clause of every statement that writes an order.
Writable(actor, o, token) == CurrentManager(actor) /\ Live(o) /\ version[o] = token

(***************************************************************************)
(* Requests.                                                               *)
(***************************************************************************)
Idle == [pc |-> "idle"]

ItemOps == {"createItem", "updateItem", "removeItem"}

Jobs ==
  [pc : {"read", "write"}, op : {"update"}, actor : Users, order : Orders,
   token : 1..MaxVersion, patch : Patches]
  \cup [pc : {"write"}, op : {"archive"}, actor : Users, order : Orders, token : 1..MaxVersion]
  \cup [pc : {"begin", "commit"}, op : {"create"}, actor : Users, order : Orders,
        new : Drafts, attempt : 1..Attempts]
  \cup [pc : {"begin", "commit"}, op : ItemOps, actor : Users, order : Orders,
        token : 1..MaxVersion, item : Items, new : ItemStatuses \cup {"CANCELLED"},
        attempt : 1..Attempts, doomed : BOOLEAN]

OrderTypeOK ==
  /\ AccessTypeOK
  /\ row \in [Orders -> OrderRows \cup {NoOrder}]
  /\ items \in [Orders -> [Items -> ItemStatuses \cup {"CANCELLED", NoItem}]]
  /\ version \in [Orders -> 0..MaxVersion]
  /\ job \in [Requests -> {Idle} \cup Jobs]

\* The checks before the first statement: assertSystemManage and assertProjectRole.
Accept(t, request) ==
  /\ job[t] = Idle
  /\ CurrentManager(request.actor)
  /\ job' = [job EXCEPT ![t] = request]
  /\ UNCHANGED <<accessVars, orderVars>>

\* A client sends a version that the API has handed out.
Token(o) == 1..version[o]

RequestCreate(t, actor, o, new) ==
  /\ new.status = "DRAFT"
  /\ OrderedDates(new)
  /\ Accept(t, [pc |-> "begin", op |-> "create", actor |-> actor, order |-> o, new |-> new,
                attempt |-> 1])

RequestUpdate(t, actor, o, patch) ==
  \E token \in Token(o) :
    Accept(t, [pc |-> "read", op |-> "update", actor |-> actor, order |-> o, token |-> token,
               patch |-> patch])

RequestArchive(t, actor, o) ==
  \E token \in Token(o) :
    Accept(t, [pc |-> "write", op |-> "archive", actor |-> actor, order |-> o, token |-> token])

RequestItem(t, op, actor, o, item) ==
  \E token \in Token(o), new \in ItemStatuses \cup {"CANCELLED"} :
    /\ op = "removeItem" => new = "CANCELLED"
    /\ Accept(t, [pc |-> "begin", op |-> op, actor |-> actor, order |-> o, token |-> token,
                  item |-> item, new |-> new, attempt |-> 1, doomed |-> FALSE])

(***************************************************************************)
(* The single statements.                                                  *)
(***************************************************************************)
Advance(t, pc) == job' = [job EXCEPT ![t].pc = pc]

\* Request t writes order o and is answered: the transactions on o that it overtakes are doomed.
AnswerWrite(t, o) ==
  /\ job' = [u \in Requests |->
               IF u = t THEN Idle
               ELSE IF job[u].pc = "commit" /\ job[u].op \in ItemOps /\ job[u].order = o
                    THEN [job[u] EXCEPT !.doomed = TRUE]
                    ELSE job[u]]
  /\ version' = [version EXCEPT ![o] = @ + 1]
  /\ version[o] < MaxVersion

\* update: reads the row without a lock and checks the request against it.
ReadForUpdate(t) ==
  /\ job[t].pc = "read"
  /\ Live(job[t].order)
  /\ PatchAllowed(row[job[t].order], job[t].patch)
  /\ Advance(t, "write")
  /\ UNCHANGED <<accessVars, orderVars>>

Update(t) ==
  LET j == job[t]
  IN /\ j.pc = "write" /\ j.op = "update"
     /\ Writable(j.actor, j.order, j.token)
     /\ row' = [row EXCEPT ![j.order] = Patched(@, j.patch)]
     /\ AnswerWrite(t, j.order)
     /\ UNCHANGED <<accessVars, items>>

Archive(t) ==
  LET j == job[t]
  IN /\ j.pc = "write" /\ j.op = "archive"
     /\ Writable(j.actor, j.order, j.token)
     /\ row' = [row EXCEPT ![j.order].status = "ARCHIVED"]
     /\ AnswerWrite(t, j.order)
     /\ UNCHANGED <<accessVars, items>>

(***************************************************************************)
(* The serializable transactions.                                          *)
(***************************************************************************)
SnapshotCreate(t) ==
  /\ job[t].pc = "begin" /\ job[t].op = "create"
  /\ CurrentManager(job[t].actor)
  /\ Advance(t, "commit")
  /\ UNCHANGED <<accessVars, orderVars>>

CommitCreate(t) ==
  LET j == job[t]
  IN /\ j.pc = "commit" /\ j.op = "create"
     /\ row[j.order] = NoOrder
     /\ row' = [row EXCEPT ![j.order] = j.new]
     /\ AnswerWrite(t, j.order)
     /\ UNCHANGED <<accessVars, items>>

SnapshotItem(t) ==
  LET j == job[t]
  IN /\ j.pc = "begin" /\ j.op \in ItemOps
     /\ Writable(j.actor, j.order, j.token)
     /\ j.op = "createItem" <=> items[j.order][j.item] = NoItem
     /\ Advance(t, "commit")
     /\ UNCHANGED <<accessVars, orderVars>>

\* Mutant: the item is written without raising the order's version.
CommitItemOnly(t) ==
  LET j == job[t]
  IN /\ j.pc = "commit" /\ j.op \in ItemOps
     /\ ~j.doomed
     /\ items' = [items EXCEPT ![j.order][j.item] = j.new]
     /\ job' = [job EXCEPT ![t] = Idle]
     /\ UNCHANGED <<accessVars, row, version>>

CommitItem(t) ==
  LET j == job[t]
  IN /\ j.pc = "commit" /\ j.op \in ItemOps
     /\ ~j.doomed
     /\ items' = [items EXCEPT ![j.order][j.item] = j.new]
     /\ AnswerWrite(t, j.order)
     /\ UNCHANGED <<accessVars, row>>

\* Serialization failure (P2034): another attempt, or the request is refused.
Abort(t) ==
  LET j == job[t]
  IN /\ j.pc = "commit"
     /\ job' = [job EXCEPT ![t] =
          IF j.attempt = Attempts THEN Idle
          ELSE IF j.op = "create" THEN [j EXCEPT !.pc = "begin", !.attempt = j.attempt + 1]
          ELSE [j EXCEPT !.pc = "begin", !.attempt = j.attempt + 1, !.doomed = FALSE]]
     /\ UNCHANGED <<accessVars, orderVars>>

\* A failed condition, a duplicate number or another database error: no effect.
Refuse(t) ==
  /\ job[t] # Idle
  /\ job' = [job EXCEPT ![t] = Idle]
  /\ UNCHANGED <<accessVars, orderVars>>

(***************************************************************************)
(* The specification.  Members and project change around the orders.       *)
(***************************************************************************)
Init ==
  /\ AccessInit
  /\ row = [o \in Orders |-> NoOrder]
  /\ items = [o \in Orders |-> [i \in Items |-> NoItem]]
  /\ version = [o \in Orders |-> 0]
  /\ job = [t \in Requests |-> Idle]

Request(t) ==
  \E actor \in Users, o \in Orders :
    \/ \E new \in Drafts : RequestCreate(t, actor, o, new)
    \/ \E patch \in Patches : RequestUpdate(t, actor, o, patch)
    \/ RequestArchive(t, actor, o)
    \/ \E op \in ItemOps, item \in Items : RequestItem(t, op, actor, o, item)

Step(t) ==
  \/ ReadForUpdate(t) \/ Update(t) \/ Archive(t)
  \/ SnapshotCreate(t) \/ CommitCreate(t)
  \/ SnapshotItem(t) \/ CommitItem(t)
  \/ Abort(t) \/ Refuse(t)

Next ==
  \/ \E t \in Requests : Request(t) \/ Step(t)
  \/ AccessNext /\ UNCHANGED <<orderVars, job>>

Spec == Init /\ [][Next]_vars

-----------------------------------------------------------------------------
(***************************************************************************)
(* Properties.                                                             *)
(***************************************************************************)

\* An order never starts after its delivery, however partial updates of the two dates,
\* each checked against a row read before its statement, follow each other.
DatesStayOrdered == \A o \in Orders : row[o] # NoOrder => OrderedDates(row[o])

\* An order moves along ORDER_TRANSITIONS only, and a completed or cancelled one is only ever
\* archived: the status that was checked is the status that is overwritten.
StatusMovesForward ==
  [][\A o \in Orders :
       row[o] # NoOrder =>
         row'[o].status \in OrderTransitions(row[o].status) \cup {"ARCHIVED"}]_vars

NoContent == [row |-> NoOrder, items |-> [i \in Items |-> NoItem]]

\* An order with its items is one versioned resource.
Resource == INSTANCE VersionedResource WITH
  Resources <- Orders,
  Nothing <- NoContent,
  Closed <- LAMBDA c : c.row # NoOrder /\ c.row.status = "ARCHIVED",
  content <- [o \in Orders |-> [row |-> row[o], items |-> items[o]]]

\* Whatever an operation changes of an order or its items, it wrote under the current version
\* and raised it by one; an archived order keeps its items, too, whoever was about to write.
ImplementsVersionedResource == Resource!ResourceSpec
=============================================================================
