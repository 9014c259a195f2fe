--------------------------- MODULE ProjectMembers ---------------------------
(***************************************************************************)
(* ProjectsService: the transactions that change a project, its members    *)
(* and their roles.  They are SERIALIZABLE and retried on a serialization  *)
(* failure; archive alone is one READ COMMITTED statement.                 *)
(*                                                                         *)
(* A transaction reads from the snapshot it takes in Snapshot and writes   *)
(* in Commit.  Of PostgreSQL's guarantee the model uses the weakest part:  *)
(* a commit is refused when a concurrent committed transaction wrote the   *)
(* same row, or when the two have read-write conflicts in both directions. *)
(* PostgreSQL may refuse more, so Abort is always possible.                *)
(***************************************************************************)
EXTENDS ProjectAccess

CONSTANTS
  Requests,            \* API requests in flight at the same time
  Attempts,            \* SERIALIZABLE_TRANSACTION_ATTEMPTS
  MaxProjectVersion    \* bound: projects.version

ASSUME ProjectMembersAssumption ==
  /\ Attempts \in Nat \ {0}
  /\ MaxProjectVersion \in Nat \ {0}
  /\ "project" \notin Users
  /\ IsFiniteSet(Users)

VARIABLES
  projectVersion,   \* projects.version, raised by update and archive
  tx                \* tx[t]: the request t and the transaction it runs

vars == <<roles, projectOpen, projectVersion, tx>>

(***************************************************************************)
(* A request: what it asks for; the rows its transaction has read (a       *)
(* membership row is named by its user) and the roles it found on the      *)
(* target's; and whether a commit since its snapshot has doomed it.        *)
(***************************************************************************)
Items == Users \cup {"project"}
MemberOps == {"addMember", "replaceMemberRoles", "removeMember"}

Idle == [pc |-> "idle"]

Jobs ==
  [pc : {"begin", "commit"}, op : MemberOps \cup {"update"}, actor : Users, target : Items,
   granted : SUBSET Roles, expected : 0..MaxProjectVersion, attempt : 1..Attempts,
   reads : SUBSET Items, seen : SUBSET Roles, doomed : BOOLEAN]
  \cup [pc : {"archive"}, actor : Users, expected : 0..MaxProjectVersion]

TypeOK ==
  /\ AccessTypeOK
  /\ projectVersion \in 1..MaxProjectVersion
  /\ tx \in [Requests -> {Idle} \cup Jobs]

\* Mutant: the status of the project is not looked at.
CurrentManagerAnyProject(u) == u \in Managing /\ "PROJECT_MANAGER" \in roles[u]

CurrentManager(u) == u \in Managing /\ HasRole(u, "PROJECT_MANAGER")

(***************************************************************************)
(* Checks before the transaction: assertProjectRoles, assertSystemManage   *)
(* and assertProjectRole.                                                  *)
(***************************************************************************)
BeginJob(t, op, actor, target, granted, expected) ==
  /\ tx[t] = Idle
  /\ CurrentManager(actor)
  /\ tx' = [tx EXCEPT ![t] =
       [pc |-> "begin", op |-> op, actor |-> actor, target |-> target, granted |-> granted,
        expected |-> expected, attempt |-> 1, reads |-> {}, seen |-> {}, doomed |-> FALSE]]
  /\ UNCHANGED <<accessVars, projectVersion>>

RequestMember(t, op, actor, target) ==
  \E granted \in Assignable[target] :
    /\ op = "removeMember" <=> granted = {}
    /\ BeginJob(t, op, actor, target, granted, 0)

RequestUpdate(t, actor, expected) == BeginJob(t, "update", actor, "project", {}, expected)

RequestArchive(t, actor, expected) ==
  /\ tx[t] = Idle
  /\ CurrentManager(actor)
  /\ tx' = [tx EXCEPT ![t] = [pc |-> "archive", actor |-> actor, expected |-> expected]]
  /\ UNCHANGED <<accessVars, projectVersion>>

(***************************************************************************)
(* The serializable transaction.                                           *)
(***************************************************************************)
RemovesManager(t) ==
  "PROJECT_MANAGER" \in roles[tx[t].target] /\ "PROJECT_MANAGER" \notin tx[t].granted

\* Mutant: counts the manager who is about to go.
NotLastManagerOffByOne == Cardinality(EffectiveManagers) >= 1

NotLastManager == Cardinality(EffectiveManagers) > 1

MemberChangeAllowed(t) ==
  /\ tx[t].op = "addMember" <=> roles[tx[t].target] = {}
  /\ RemovesManager(t) => NotLastManager

UpdateAllowed(t) == projectVersion = tx[t].expected /\ projectVersion < MaxProjectVersion

ReadsOf(t) ==
  {tx[t].actor, "project"} \cup
    CASE tx[t].op \in {"addMember", "update"} -> {}
      [] OTHER -> IF RemovesManager(t) THEN Users ELSE {tx[t].target}

Snapshot(t) ==
  /\ tx[t].pc = "begin"
  /\ CurrentManager(tx[t].actor)
  /\ IF tx[t].op = "update" THEN UpdateAllowed(t) ELSE MemberChangeAllowed(t)
  /\ tx' = [tx EXCEPT ![t] =
       [tx[t] EXCEPT !.pc = "commit", !.reads = ReadsOf(t),
                     !.seen = IF tx[t].op = "update" THEN {} ELSE roles[tx[t].target]]]
  /\ UNCHANGED <<accessVars, projectVersion>>

\* Mutants: the transactions run at REPEATABLE READ, at READ COMMITTED.
ConflictRepeatableRead(u, reads, writes) == tx[u].target \in writes
ConflictReadCommitted(u, reads, writes) == FALSE

\* A transaction that committed after u's snapshot, having read and written these rows.
Conflict(u, reads, writes) ==
  \/ tx[u].target \in writes
  \/ writes \cap tx[u].reads # {} /\ tx[u].target \in reads

\* Request t ends with a commit; the transactions it overlaps with may be doomed by it.
EndWith(t, reads, writes) ==
  tx' = [u \in Requests |->
           IF u = t THEN Idle
           ELSE IF tx[u].pc = "commit"
                THEN [tx[u] EXCEPT !.doomed = @ \/ Conflict(u, reads, writes)]
                ELSE tx[u]]

Commit(t) ==
  /\ tx[t].pc = "commit"
  /\ ~tx[t].doomed
  /\ IF tx[t].op = "update"
     THEN projectVersion' = projectVersion + 1 /\ UNCHANGED roles
     ELSE roles' = [roles EXCEPT ![tx[t].target] = tx[t].granted] /\ UNCHANGED projectVersion
  /\ EndWith(t, tx[t].reads, {tx[t].target})
  /\ UNCHANGED projectOpen

\* Mutants: one attempt too many, and no limit at all.
AbortOffByOne(t) ==
  /\ tx[t].pc = "commit"
  /\ tx' = [tx EXCEPT ![t] =
       IF tx[t].attempt > Attempts THEN Idle
       ELSE [tx[t] EXCEPT !.pc = "begin", !.attempt = @ + 1, !.reads = {}, !.seen = {},
                              !.doomed = FALSE]]
  /\ UNCHANGED <<accessVars, projectVersion>>
AbortForEver(t) ==
  /\ tx[t].pc = "commit"
  /\ tx' = [tx EXCEPT ![t].pc = "begin", ![t].reads = {}, ![t].seen = {}, ![t].doomed = FALSE]
  /\ UNCHANGED <<accessVars, projectVersion>>

\* Serialization failure (P2034): another attempt, or the request is refused.
Abort(t) ==
  LET j == tx[t]
  IN /\ j.pc = "commit"
     /\ tx' = [tx EXCEPT ![t] =
          IF j.attempt = Attempts THEN Idle
          ELSE [j EXCEPT !.pc = "begin", !.attempt = j.attempt + 1, !.reads = {}, !.seen = {},
                         !.doomed = FALSE]]
     /\ UNCHANGED <<accessVars, projectVersion>>

(***************************************************************************)
(* archive: one UPDATE whose WHERE clause holds every condition.           *)
(***************************************************************************)
ArchiveWhere(t) == CurrentManager(tx[t].actor) /\ projectVersion = tx[t].expected

Archive(t) ==
  /\ tx[t].pc = "archive"
  /\ ArchiveWhere(t)
  /\ projectVersion < MaxProjectVersion
  /\ projectOpen' = FALSE
  /\ projectVersion' = projectVersion + 1
  /\ EndWith(t, {}, {"project"})
  /\ UNCHANGED roles

\* A failed condition, a unique violation or another database error: no effect.
Refuse(t) ==
  /\ tx[t] # Idle
  /\ tx' = [tx EXCEPT ![t] = Idle]
  /\ UNCHANGED <<accessVars, projectVersion>>

(***************************************************************************)
(* The specification.  Once accepted, a request is carried on: the API     *)
(* process runs its next statement and the database answers it.            *)
(***************************************************************************)
Init ==
  /\ AccessInit
  /\ projectVersion = 1
  /\ tx = [t \in Requests |-> Idle]

Request(t) ==
  \E actor \in Users :
    \/ \E op \in MemberOps, target \in Users : RequestMember(t, op, actor, target)
    \/ \E expected \in 1..MaxProjectVersion :
         RequestUpdate(t, actor, expected) \/ RequestArchive(t, actor, expected)

Step(t) == Snapshot(t) \/ Commit(t) \/ Abort(t) \/ Archive(t) \/ Refuse(t)

Next == \E t \in Requests : Request(t) \/ Step(t)

Spec == Init /\ [][Next]_vars

FairSpec == Spec /\ \A t \in Requests : WF_vars(Step(t))

-----------------------------------------------------------------------------
(***************************************************************************)
(* Properties.                                                             *)
(***************************************************************************)

\* However the transactions that demote or remove managers interleave, somebody is left
\* who can manage the project (assertNotLastManager counts in a snapshot only).
ManagerRemains == EffectiveManagers # {}

\* A membership is changed only from the roles its transaction has read: two changes never
\* start from the same roles and overwrite each other.
ChangesBuildOnEachOther ==
  [][\A t \in Requests :
       tx[t].pc = "commit" /\ tx'[t] = Idle /\ roles' # roles
         => roles[tx[t].target] = tx[t].seen]_vars

\* Once a project is archived its members stay as they are, apart from the transactions
\* whose snapshot was taken before.
Drained == ~projectOpen /\ \A t \in Requests : tx[t].pc # "commit"

\* Once drained, members, project and version stay as they are.
ArchivedProjectDrains == [][Drained => Drained' /\ UNCHANGED <<accessVars, projectVersion>>]_vars

\* The transactions implement what the rest of the system assumes of memberships.
Access == INSTANCE ProjectAccess

\* Every behaviour of the transactions is one of ProjectAccess.
ImplementsProjectAccess == Access!AccessSpec

\* Every request is answered: serialization failures are not retried for ever.
EveryRequestIsAnswered == \A t \in Requests : tx[t] # Idle ~> tx[t] = Idle
=============================================================================
