------------------------ MODULE ProjectMembersProofs ------------------------
(***************************************************************************)
(* Proofs about ProjectMembers, for every finite set of users, every set   *)
(* of requests, and every number of attempts and versions.                 *)
(***************************************************************************)
EXTENDS ProjectMembers, FiniteSetTheorems, TLAPS

\* A transaction that takes the role of a manager from its target.
Removing(j) == "PROJECT_MANAGER" \in j.seen /\ "PROJECT_MANAGER" \notin j.granted

\* What a member change that is not doomed may rely on when the roles are r: its target has
\* the roles it has read; if it takes a manager's role away it has read all users, and
\* another manager is there.
Valid(j, r) ==
  /\ r[j.target] = j.seen
  /\ Removing(j) =>
       /\ Users \subseteq j.reads
       /\ \E m \in Managing \ {j.target} : "PROJECT_MANAGER" \in r[m]

GoodJob(j, r, v) ==
  /\ j \in Jobs
  /\ j.pc # "archive" =>
       /\ j.op = "update" => j.target = "project"
       /\ j.op \in MemberOps => j.target \in Users /\ j.granted \in Assignable[j.target]
       /\ j.pc = "commit" /\ j.op \in MemberOps /\ ~j.doomed => Valid(j, r)
       /\ j.pc = "commit" /\ j.op = "update" /\ ~j.doomed =>
            v = j.expected /\ v < MaxProjectVersion

IInv ==
  /\ TypeOK
  /\ ManagerRemains
  /\ \A t \in Requests : tx[t] = Idle \/ GoodJob(tx[t], roles, projectVersion)

-----------------------------------------------------------------------------
(***************************************************************************)
(* Requests, by operation.                                                 *)
(***************************************************************************)
LEMMA JobFields ==
  ASSUME NEW j \in Jobs
  PROVE  /\ j # Idle /\ j.actor \in Users /\ j.expected \in 0..MaxProjectVersion
         /\ j.pc \in {"begin", "commit", "archive"}
         /\ j.pc # "archive" =>
              /\ j.op \in MemberOps \cup {"update"} /\ j.target \in Items
              /\ j.granted \in SUBSET Roles /\ j.attempt \in 1..Attempts
              /\ j.reads \in SUBSET Items /\ j.seen \in SUBSET Roles /\ j.doomed \in BOOLEAN
BY DEF Jobs, Idle

LEMMA DoomedOf ==
  ASSUME NEW j \in Jobs, j.pc = "commit", NEW d \in BOOLEAN, NEW k, k = [j EXCEPT !.doomed = d]
  PROVE  /\ k \in Jobs
         /\ k.pc = "commit" /\ k.op = j.op /\ k.target = j.target /\ k.granted = j.granted
         /\ k.reads = j.reads /\ k.seen = j.seen /\ k.expected = j.expected /\ k.doomed = d
BY DEF Jobs

\* With two managers in a snapshot, there is one besides any user.
LEMMA AnotherManager ==
  ASSUME NotLastManager, NEW u
  PROVE  \E m \in Managing \ {u} : "PROJECT_MANAGER" \in roles[m]
<1>1. SUFFICES ASSUME EffectiveManagers \subseteq {u}
               PROVE  FALSE
  BY DEF EffectiveManagers
<1>2. IsFiniteSet({u}) /\ Cardinality({u}) = 1
  BY FS_Singleton
<1>3. IsFiniteSet(EffectiveManagers) /\ Cardinality(EffectiveManagers) <= 1
  BY <1>1, <1>2, FS_Subset
<1>4. Cardinality(EffectiveManagers) \in Nat
  BY <1>3, FS_CardinalityType
<1> QED
  BY <1>3, <1>4 DEF NotLastManager

-----------------------------------------------------------------------------
(***************************************************************************)
(* A step moves one request, or commits a transaction.                     *)
(***************************************************************************)
LEMMA MoveKeepsIInv ==
  ASSUME IInv, NEW t \in Requests, NEW new, new = Idle \/ GoodJob(new, roles, projectVersion),
         tx' = [tx EXCEPT ![t] = new],
         UNCHANGED <<accessVars, projectVersion>>
  PROVE  IInv'
<1>1. TypeOK'
  BY DEF IInv, TypeOK, AccessTypeOK, accessVars, GoodJob
<1>2. ManagerRemains'
  BY DEF IInv, ManagerRemains, EffectiveManagers, accessVars
<1>3. ASSUME NEW u \in Requests, tx'[u] # Idle
      PROVE  GoodJob(tx'[u], roles', projectVersion')
  BY <1>3 DEF IInv, TypeOK, accessVars
<1> QED
  BY <1>1, <1>2, <1>3 DEF IInv

LEMMA Busy ==
  ASSUME IInv, NEW t \in Requests, tx[t] # Idle
  PROVE  GoodJob(tx[t], roles, projectVersion) /\ tx[t] \in Jobs
BY DEF IInv, GoodJob

LEMMA RequestKeepsIInv ==
  ASSUME IInv, NEW t \in Requests, Request(t)
  PROVE  IInv'
<1>1. 1 \in 1..Attempts /\ MaxProjectVersion \in Nat
  BY ProjectMembersAssumption
<1>2. PICK actor \in Users :
        \/ \E op \in MemberOps, target \in Users : RequestMember(t, op, actor, target)
        \/ \E expected \in 1..MaxProjectVersion :
             RequestUpdate(t, actor, expected) \/ RequestArchive(t, actor, expected)
  BY DEF Request
<1>3. ASSUME NEW op \in MemberOps, NEW target \in Users, NEW granted \in Assignable[target],
             BeginJob(t, op, actor, target, granted, 0)
      PROVE  IInv'
  <2> DEFINE j == [pc |-> "begin", op |-> op, actor |-> actor, target |-> target,
                   granted |-> granted, expected |-> 0, attempt |-> 1, reads |-> {},
                   seen |-> {}, doomed |-> FALSE]
  <2>1. granted \in SUBSET Roles
    BY ProjectAccessAssumption
  <2>2. j \in Jobs
    BY <1>1, <2>1 DEF Jobs, Items
  <2>3. GoodJob(j, roles, projectVersion)
    BY <2>2 DEF GoodJob, MemberOps
  <2> QED
    BY <1>3, <2>3, MoveKeepsIInv DEF BeginJob
<1>4. ASSUME NEW expected \in 1..MaxProjectVersion, RequestUpdate(t, actor, expected)
      PROVE  IInv'
  <2> DEFINE j == [pc |-> "begin", op |-> "update", actor |-> actor, target |-> "project",
                   granted |-> {}, expected |-> expected, attempt |-> 1, reads |-> {},
                   seen |-> {}, doomed |-> FALSE]
  <2>1. j \in Jobs
    BY <1>1 DEF Jobs, Items
  <2>2. GoodJob(j, roles, projectVersion)
    BY <2>1 DEF GoodJob, MemberOps
  <2> QED
    BY <1>4, <2>2, MoveKeepsIInv DEF RequestUpdate, BeginJob
<1>5. ASSUME NEW expected \in 1..MaxProjectVersion, RequestArchive(t, actor, expected)
      PROVE  IInv'
  <2> DEFINE j == [pc |-> "archive", actor |-> actor, expected |-> expected]
  <2>1. GoodJob(j, roles, projectVersion)
    BY <1>1 DEF GoodJob, Jobs
  <2> QED
    BY <1>5, <2>1, MoveKeepsIInv DEF RequestArchive
<1> QED
  BY <1>2, <1>3, <1>4, <1>5 DEF RequestMember

LEMMA SnapshotKeepsIInv ==
  ASSUME IInv, NEW t \in Requests, Snapshot(t)
  PROVE  IInv'
<1> DEFINE j == tx[t]
           seen == IF j.op = "update" THEN {} ELSE roles[j.target]
           k == [j EXCEPT !.pc = "commit", !.reads = ReadsOf(t), !.seen = seen]
<1>1. GoodJob(j, roles, projectVersion) /\ j \in Jobs /\ j.pc = "begin"
  BY Busy DEF Snapshot, Idle
<1>2. j.op \in MemberOps => j.target \in Users /\ j.granted \in Assignable[j.target]
  BY <1>1 DEF GoodJob
<1>3. seen \in SUBSET Roles
  BY <1>1, <1>2, JobFields DEF IInv, TypeOK, AccessTypeOK
<1>4. ReadsOf(t) \in SUBSET Items
  BY <1>1, JobFields DEF ReadsOf, Items
<1>5. /\ k \in Jobs
      /\ k.pc = "commit" /\ k.op = j.op /\ k.target = j.target /\ k.granted = j.granted
      /\ k.reads = ReadsOf(t) /\ k.seen = seen /\ k.expected = j.expected
  <2> HIDE DEF seen
  <2> QED
    BY <1>1, <1>3, <1>4 DEF Jobs
<1>6. ASSUME j.op \in MemberOps
      PROVE  Valid(k, roles)
  <2>1. MemberChangeAllowed(t) /\ seen = roles[j.target]
    BY <1>6 DEF Snapshot, MemberOps
  <2>2. Removing(k) => RemovesManager(t) /\ j.op # "addMember"
    BY <1>5, <2>1 DEF Removing, RemovesManager, MemberChangeAllowed
  <2>3. Removing(k) => Users \subseteq ReadsOf(t)
    BY <1>6, <2>2 DEF ReadsOf, MemberOps
  <2>4. Removing(k) => \E m \in Managing \ {j.target} : "PROJECT_MANAGER" \in roles[m]
    BY <2>1, <2>2, AnotherManager DEF MemberChangeAllowed
  <2> QED
    BY <1>5, <2>1, <2>3, <2>4 DEF Valid
<1>7. GoodJob(k, roles, projectVersion)
  BY <1>1, <1>2, <1>5, <1>6 DEF GoodJob, Snapshot, UpdateAllowed
<1> QED
  BY <1>7, MoveKeepsIInv DEF Snapshot

LEMMA AbortKeepsIInv ==
  ASSUME IInv, NEW t \in Requests, Abort(t)
  PROVE  IInv'
<1> DEFINE j == tx[t]
           k == [j EXCEPT !.pc = "begin", !.attempt = j.attempt + 1, !.reads = {}, !.seen = {},
                          !.doomed = FALSE]
<1>1. GoodJob(j, roles, projectVersion) /\ j \in Jobs /\ j.pc = "commit"
  BY Busy DEF Abort, Idle
<1>2. CASE j.attempt = Attempts
  BY <1>2, MoveKeepsIInv DEF Abort
<1>3. CASE j.attempt # Attempts
  <2>1. j.attempt + 1 \in 1..Attempts
    BY <1>1, <1>3, JobFields, ProjectMembersAssumption
  <2>2. /\ k \in Jobs
        /\ k.pc = "begin" /\ k.op = j.op /\ k.target = j.target /\ k.granted = j.granted
    BY <1>1, <2>1 DEF Jobs
  <2>3. GoodJob(k, roles, projectVersion)
    BY <1>1, <2>2 DEF GoodJob
  <2>4. tx' = [tx EXCEPT ![t] = k] /\ UNCHANGED <<accessVars, projectVersion>>
    BY <1>3 DEF Abort
  <2> QED
    BY <2>3, <2>4, MoveKeepsIInv
<1> QED
  BY <1>2, <1>3

\* After a commit the requests in flight still are what they were, some of them doomed.
LEMMA EndShape ==
  ASSUME IInv, NEW t \in Requests, NEW reads, NEW writes, EndWith(t, reads, writes),
         NEW u \in Requests, tx'[u] # Idle
  PROVE  /\ u # t /\ tx[u] # Idle
         /\ tx'[u] \in Jobs
         /\ tx[u].pc # "commit" => tx'[u] = tx[u]
         /\ tx[u].pc = "commit" =>
              /\ tx'[u].pc = "commit" /\ tx'[u].op = tx[u].op /\ tx'[u].target = tx[u].target
              /\ tx'[u].granted = tx[u].granted /\ tx'[u].reads = tx[u].reads
              /\ tx'[u].seen = tx[u].seen /\ tx'[u].expected = tx[u].expected
              /\ ~tx'[u].doomed => ~tx[u].doomed /\ ~Conflict(u, reads, writes)
<1>1. u # t /\ tx[u] # Idle /\ tx[u] \in Jobs
  BY Busy DEF EndWith, Idle
<1>2. CASE tx[u].pc # "commit"
  BY <1>1, <1>2 DEF EndWith
<1>3. CASE tx[u].pc = "commit"
  <2> DEFINE d == tx[u].doomed \/ Conflict(u, reads, writes)
  <2>1. tx'[u] = [tx[u] EXCEPT !.doomed = d]
    BY <1>1, <1>3 DEF EndWith
  <2>2. d \in BOOLEAN
    BY <1>1, <1>3, JobFields DEF Conflict
  <2> QED
    <3> HIDE DEF d
    <3>1. /\ tx'[u] \in Jobs
          /\ tx'[u].pc = "commit" /\ tx'[u].op = tx[u].op /\ tx'[u].target = tx[u].target
          /\ tx'[u].granted = tx[u].granted /\ tx'[u].reads = tx[u].reads
          /\ tx'[u].seen = tx[u].seen /\ tx'[u].expected = tx[u].expected /\ tx'[u].doomed = d
      BY <1>1, <1>3, <2>1, <2>2, DoomedOf
    <3> QED
      BY <1>1, <1>3, <3>1 DEF d
<1> QED
  BY <1>2, <1>3

\* A commit that leaves the roles alone: update and archive.
LEMMA OtherCommitKeepsIInv ==
  ASSUME IInv, NEW t \in Requests, NEW reads, NEW writes, EndWith(t, reads, writes),
         "project" \in writes, UNCHANGED roles, projectOpen' \in BOOLEAN, projectVersion' \in 1..MaxProjectVersion
  PROVE  IInv'
<1>1. ASSUME NEW u \in Requests, tx'[u] # Idle
      PROVE  GoodJob(tx'[u], roles', projectVersion') /\ tx'[u] \in Jobs
  <2>1. GoodJob(tx[u], roles, projectVersion)
    BY <1>1, EndShape, Busy
  <2> QED
    BY <1>1, <2>1, EndShape DEF GoodJob, Valid, Removing, Conflict
<1>2. tx' \in [Requests -> {Idle} \cup Jobs]
  BY <1>1 DEF EndWith
<1>3. TypeOK' /\ ManagerRemains'
  BY <1>2 DEF IInv, TypeOK, AccessTypeOK, ManagerRemains, EffectiveManagers
<1> QED
  BY <1>1, <1>3 DEF IInv

\* What a member change leaves behind.
LEMMA MemberCommit ==
  ASSUME IInv, NEW t \in Requests, Commit(t), tx[t].op # "update"
  PROVE  /\ tx[t].target \in Users /\ tx[t].granted \in Assignable[tx[t].target]
         /\ tx[t].granted \in SUBSET Roles
         /\ roles' = [roles EXCEPT ![tx[t].target] = tx[t].granted]
         /\ roles[tx[t].target] = tx[t].seen
         /\ Valid(tx[t], roles)
         /\ EndWith(t, tx[t].reads, {tx[t].target})
         /\ UNCHANGED <<projectOpen, projectVersion>>
<1>1. GoodJob(tx[t], roles, projectVersion) /\ tx[t] \in Jobs
  BY Busy DEF Commit, Idle
<1>2. tx[t].op \in MemberOps
  BY <1>1, JobFields DEF Commit
<1>3. Valid(tx[t], roles) /\ tx[t].target \in Users /\ tx[t].granted \in Assignable[tx[t].target]
  BY <1>1, <1>2 DEF GoodJob, Commit
<1> QED
  BY <1>3, ProjectAccessAssumption DEF Commit, Valid

LEMMA MemberCommitKeepsIInv ==
  ASSUME IInv, NEW t \in Requests, Commit(t), tx[t].op # "update"
  PROVE  IInv'
<1> DEFINE j == tx[t]
<1>0. /\ j.target \in Users /\ j.granted \in SUBSET Roles
      /\ roles' = [roles EXCEPT ![j.target] = j.granted]
      /\ roles[j.target] = j.seen /\ Valid(j, roles)
      /\ EndWith(t, j.reads, {j.target})
      /\ UNCHANGED <<projectOpen, projectVersion>>
  BY MemberCommit
<1>1. roles \in [Users -> SUBSET Roles] /\ roles' \in [Users -> SUBSET Roles]
  BY <1>0 DEF IInv, TypeOK, AccessTypeOK
<1>2. \A m \in Users : m # j.target \/ ~Removing(j) =>
        ("PROJECT_MANAGER" \in roles[m] => "PROJECT_MANAGER" \in roles'[m])
  BY <1>0, <1>1 DEF Removing
<1>3. ManagerRemains'
  <2>1. CASE Removing(j)
    <3>1. PICK m \in Managing \ {j.target} : "PROJECT_MANAGER" \in roles[m]
      BY <1>0, <2>1 DEF Valid
    <3> QED
      BY <1>2, <3>1, ProjectAccessAssumption DEF ManagerRemains, EffectiveManagers
  <2>2. CASE ~Removing(j)
    <3>1. PICK m \in Managing : "PROJECT_MANAGER" \in roles[m]
      BY DEF IInv, ManagerRemains, EffectiveManagers
    <3> QED
      BY <1>2, <2>2, <3>1, ProjectAccessAssumption DEF ManagerRemains, EffectiveManagers
  <2> QED
    BY <2>1, <2>2
<1>4. ASSUME NEW u \in Requests, tx'[u] # Idle
      PROVE  GoodJob(tx'[u], roles', projectVersion') /\ tx'[u] \in Jobs
  <2> DEFINE k == tx'[u]
  <2>1. /\ u # t /\ tx[u] # Idle /\ k \in Jobs
        /\ tx[u].pc # "commit" => k = tx[u]
        /\ tx[u].pc = "commit" =>
             /\ k.pc = "commit" /\ k.op = tx[u].op /\ k.target = tx[u].target
             /\ k.granted = tx[u].granted /\ k.reads = tx[u].reads /\ k.seen = tx[u].seen
             /\ k.expected = tx[u].expected
             /\ ~k.doomed => ~tx[u].doomed /\ ~Conflict(u, j.reads, {j.target})
    BY <1>0, <1>4, EndShape
  <2>2. GoodJob(tx[u], roles, projectVersion)
    BY <2>1, Busy
  <2>3. CASE tx[u].pc # "commit"
    BY <2>1, <2>2, <2>3 DEF GoodJob
  <2>4. ASSUME tx[u].pc = "commit", k.op \in MemberOps, ~k.doomed
        PROVE  Valid(k, roles')
    <3>1. Valid(tx[u], roles) /\ k.target \in Users /\ k.target # j.target
      BY <2>1, <2>2, <2>4 DEF GoodJob, Conflict
    <3>2. roles'[k.target] = k.seen
      BY <1>0, <1>1, <2>1, <2>4, <3>1 DEF Valid
    <3>3. ASSUME Removing(k)
          PROVE  /\ Users \subseteq k.reads
                 /\ \E m \in Managing \ {k.target} : "PROJECT_MANAGER" \in roles'[m]
      <4>1. /\ Users \subseteq k.reads
            /\ \E m \in Managing \ {k.target} : "PROJECT_MANAGER" \in roles[m]
        BY <2>1, <2>4, <3>1, <3>3 DEF Valid, Removing
      <4>2. ~Removing(j)
        BY <1>0, <2>1, <2>4, <3>1, <4>1 DEF Valid, Conflict
      <4> QED
        BY <1>2, <4>1, <4>2, ProjectAccessAssumption
    <3> QED
      BY <3>2, <3>3 DEF Valid
  <2>5. CASE tx[u].pc = "commit"
    BY <1>0, <2>1, <2>2, <2>4, <2>5 DEF GoodJob
  <2> QED
    BY <2>1, <2>3, <2>5
<1>5. tx' \in [Requests -> {Idle} \cup Jobs]
  BY <1>0, <1>4 DEF EndWith
<1>6. TypeOK'
  BY <1>0, <1>1, <1>5 DEF IInv, TypeOK, AccessTypeOK
<1> QED
  BY <1>3, <1>4, <1>6 DEF IInv

LEMMA StepKeepsIInv ==
  ASSUME IInv, [Next]_vars
  PROVE  IInv'
<1>1. ASSUME NEW t \in Requests, Commit(t), tx[t].op = "update"
      PROVE  IInv'
  <2>1. tx[t].pc = "commit" /\ GoodJob(tx[t], roles, projectVersion)
    BY <1>1, Busy DEF Commit, Idle
  <2>2. projectVersion' \in 1..MaxProjectVersion
    BY <1>1, <2>1, ProjectMembersAssumption DEF Commit, GoodJob, IInv, TypeOK
  <2>3. tx[t].target = "project"
    BY <1>1, <2>1 DEF GoodJob
  <2> QED
    BY <1>1, <2>2, <2>3, OtherCommitKeepsIInv DEF Commit, IInv, TypeOK, AccessTypeOK
<1>2. ASSUME NEW t \in Requests, Archive(t)
      PROVE  IInv'
  <2>1. projectVersion' \in 1..MaxProjectVersion
    BY <1>2, ProjectMembersAssumption DEF Archive, IInv, TypeOK
  <2> QED
    BY <1>2, <2>1, OtherCommitKeepsIInv DEF Archive
<1>3. ASSUME NEW t \in Requests, Refuse(t)
      PROVE  IInv'
  BY <1>3, MoveKeepsIInv DEF Refuse
<1>4. ASSUME NEW t \in Requests, Step(t)
      PROVE  IInv'
  BY <1>1, <1>2, <1>3, <1>4, MemberCommitKeepsIInv, SnapshotKeepsIInv, AbortKeepsIInv DEF Step
<1>5. CASE UNCHANGED vars
  BY <1>5 DEF vars, IInv, TypeOK, AccessTypeOK, ManagerRemains, EffectiveManagers
<1> QED
  BY <1>4, <1>5, RequestKeepsIInv DEF Next

LEMMA InitIInv ==
  ASSUME Init
  PROVE  IInv
<1>1. TypeOK
  BY ProjectMembersAssumption DEF Init, AccessInit, TypeOK, AccessTypeOK, Roles
<1>2. ManagerRemains
  BY ProjectAccessAssumption DEF Init, AccessInit, ManagerRemains, EffectiveManagers
<1> QED
  BY <1>1, <1>2 DEF Init, IInv

-----------------------------------------------------------------------------
(***************************************************************************)
(* The theorems.                                                           *)
(***************************************************************************)

\* A transaction that is not doomed still sees the roles it has read, and one that takes a
\* manager's role away has another manager to rely on.
THEOREM Invariance == Spec => []IInv
<1> QED
  BY InitIInv, StepKeepsIInv, PTL DEF Spec

\* Project, members and requests in flight have their types.
THEOREM TypeCorrectness == Spec => []TypeOK
<1>1. IInv => TypeOK
  BY DEF IInv
<1> QED
  BY <1>1, Invariance, PTL

\* Whatever transactions demote or remove managers at the same time, a manager remains.
THEOREM SomebodyManages == Spec => []ManagerRemains
<1>1. IInv => ManagerRemains
  BY DEF IInv
<1> QED
  BY <1>1, Invariance, PTL

\* A step that changes roles is the commit of a member change, the one of the request that
\* is answered.
LEMMA RoleSteps ==
  ASSUME IInv, [Next]_vars, roles' # roles
  PROVE  \E t \in Requests :
           Commit(t) /\ tx[t].op # "update" /\ \A u \in Requests : tx[u] # Idle /\ tx'[u] = Idle => u = t
<1>1. ASSUME NEW t \in Requests, Request(t)
      PROVE  UNCHANGED roles
  BY <1>1 DEF Request, RequestMember, RequestUpdate, RequestArchive, BeginJob, accessVars
<1>2. PICK t \in Requests : Commit(t) /\ tx[t].op # "update"
  BY <1>1 DEF Next, Step, Snapshot, Commit, Abort, Archive, Refuse, vars, accessVars
<1>3. ASSUME NEW u \in Requests, tx[u] # Idle, u # t
      PROVE  tx'[u] # Idle
  <2>1. tx[u] \in Jobs /\ EndWith(t, tx[t].reads, {tx[t].target})
    BY <1>2, <1>3, Busy DEF Commit
  <2>2. CASE tx[u].pc # "commit"
    BY <1>3, <2>1, <2>2 DEF EndWith
  <2>3. CASE tx[u].pc = "commit"
    <3> DEFINE d == tx[u].doomed \/ Conflict(u, tx[t].reads, {tx[t].target})
    <3>1. tx'[u] = [tx[u] EXCEPT !.doomed = d]
      BY <1>3, <2>1, <2>3 DEF EndWith
    <3>2. d \in BOOLEAN
      BY <2>1, <2>3, JobFields DEF Conflict
    <3> HIDE DEF d
    <3> QED
      BY <2>1, <2>3, <3>1, <3>2, DoomedOf, JobFields
  <2> QED
    BY <2>2, <2>3
<1> QED
  BY <1>2, <1>3

\* No change of a membership overwrites one that its transaction has not seen.
THEOREM ChangesAreNotLost == Spec => ChangesBuildOnEachOther
<1>1. ASSUME IInv, [Next]_vars, NEW t \in Requests,
             tx[t].pc = "commit" /\ tx'[t] = Idle /\ roles' # roles
      PROVE  roles[tx[t].target] = tx[t].seen
  <2>1. PICK u \in Requests : Commit(u) /\ tx[u].op # "update" /\ (tx[t] # Idle /\ tx'[t] = Idle => t = u)
    BY <1>1, RoleSteps
  <2>2. tx[t] # Idle
    BY <1>1 DEF Idle
  <2> QED
    BY <1>1, <2>1, <2>2, MemberCommit
<1>2. IInv /\ [Next]_vars =>
        [\A t \in Requests :
           tx[t].pc = "commit" /\ tx'[t] = Idle /\ roles' # roles
             => roles[tx[t].target] = tx[t].seen]_vars
  BY <1>1
<1> QED
  BY <1>2, Invariance, PTL DEF Spec, ChangesBuildOnEachOther

\* An archived project whose transactions have come to their end changes no more.
THEOREM ArchiveDrains == Spec => ArchivedProjectDrains
<1>1. ASSUME IInv, [Next]_vars, Drained
      PROVE  Drained' /\ UNCHANGED <<accessVars, projectVersion>>
  <2>1. ASSUME NEW t \in Requests, Request(t)
        PROVE  FALSE
    BY <1>1, <2>1
    DEF Request, RequestMember, RequestUpdate, RequestArchive, BeginJob, Drained,
        CurrentManager, HasRole, CanAccess
  <2>2. ASSUME NEW t \in Requests, Step(t)
        PROVE  Refuse(t)
    BY <1>1, <2>2
    DEF Step, Snapshot, Commit, Abort, Archive, ArchiveWhere, Drained, CurrentManager, HasRole,
        CanAccess
  <2>3. ASSUME NEW t \in Requests, Refuse(t)
        PROVE  Drained' /\ UNCHANGED <<accessVars, projectVersion>>
    BY <1>1, <2>3 DEF Refuse, Drained, accessVars, IInv, TypeOK, Idle
  <2>4. CASE UNCHANGED vars
    BY <1>1, <2>4 DEF vars, accessVars, Drained
  <2> QED
    BY <1>1, <2>1, <2>2, <2>3, <2>4 DEF Next
<1>2. IInv /\ [Next]_vars =>
        [Drained => Drained' /\ UNCHANGED <<accessVars, projectVersion>>]_vars
  BY <1>1
<1> QED
  BY <1>2, Invariance, PTL DEF Spec, ArchivedProjectDrains

\* The transactions do to members and project what ProjectAccess does in one step, which is
\* what work logs and orders are composed with.
THEOREM MembersImplementAccess == Spec => ImplementsProjectAccess
<1>1. Init => Access!AccessInit
  BY DEF Init, AccessInit, Access!AccessInit
<1>2. ASSUME IInv, [Next]_vars
      PROVE  [Access!AccessNext]_(Access!accessVars)
  <2>1. CASE UNCHANGED accessVars
    BY <2>1 DEF accessVars, Access!accessVars
  <2>2. ASSUME NEW t \in Requests, Archive(t)
        PROVE  [Access!AccessNext]_(Access!accessVars)
    BY <2>2
    DEF Archive, ArchiveWhere, CurrentManager, HasRole, CanAccess, Access!AccessNext,
        Access!ArchiveProject
  <2>3. ASSUME NEW t \in Requests, Commit(t), tx[t].op # "update", roles' # roles
        PROVE  Access!AccessNext
    <3> DEFINE u == tx[t].target
               granted == tx[t].granted
    <3>1. /\ u \in Users /\ granted \in Assignable[u] /\ UNCHANGED projectOpen
          /\ roles' = [roles EXCEPT ![u] = granted]
      BY <1>2, <2>3, MemberCommit
    <3>2. granted # roles[u]
      BY <1>2, <2>3, <3>1 DEF IInv, TypeOK, AccessTypeOK
    <3>3. ManagerRemains'
      BY <1>2, StepKeepsIInv DEF IInv
    <3>4. Access!ChangeMembership(u, granted)
      BY <3>1, <3>2, <3>3
      DEF Access!ChangeMembership, ManagerRemains, EffectiveManagers, Access!EffectiveManagers
    <3> QED
      BY <3>1, <3>4 DEF Access!AccessNext
  <2>4. UNCHANGED accessVars \/ (\E t \in Requests : Archive(t)) \/ roles' # roles
    BY <1>2
    DEF Next, Request, RequestMember, RequestUpdate, RequestArchive, BeginJob, Step, Snapshot,
        Commit, Abort, Refuse, vars, accessVars
  <2> QED
    BY <1>2, <2>1, <2>2, <2>3, <2>4, RoleSteps
<1> QED
  BY <1>1, <1>2, Invariance, PTL DEF Spec, ImplementsProjectAccess, Access!AccessSpec

-----------------------------------------------------------------------------
(***************************************************************************)
(* How far a request is from its answer: the statements that it still      *)
(* runs, over all the attempts that it has left.                           *)
(***************************************************************************)
Remaining(j) ==
  IF j = Idle THEN 0
  ELSE IF j.pc = "archive" THEN 1
  ELSE 2 * (Attempts - j.attempt) + (IF j.pc = "begin" THEN 2 ELSE 1)

\* An accepted request comes closer to its answer with each step of its own, those that
\* begin another attempt (withSerializableTransaction) included, and no step of another
\* request, a commit that dooms its transaction neither, takes it back.
RequestsAdvance ==
  [][\A t \in Requests : tx[t] # Idle =>
       /\ Remaining(tx[t]) \in 1..(2 * Attempts)
       /\ Remaining(tx'[t]) \in 0..Remaining(tx[t])
       /\ Step(t) => Remaining(tx'[t]) < Remaining(tx[t])]_vars

LEMMA RemainingType ==
  ASSUME NEW j \in Jobs
  PROVE  /\ Remaining(j) \in 1..(2 * Attempts)
         /\ j.pc # "archive" =>
              /\ Attempts \in Nat /\ j.attempt \in 1..Attempts
              /\ Remaining(j) = 2 * (Attempts - j.attempt) + (IF j.pc = "begin" THEN 2 ELSE 1)
<1>1. j # Idle /\ j.pc \in {"begin", "commit", "archive"} /\ Attempts \in Nat \ {0}
  BY JobFields, ProjectMembersAssumption
<1>2. j.pc # "archive" => j.attempt \in 1..Attempts
  BY JobFields
<1>3. CASE j.pc = "archive"
  BY <1>1, <1>3 DEF Remaining
<1>4. CASE j.pc # "archive"
  BY <1>1, <1>2, <1>4 DEF Remaining
<1> QED
  BY <1>3, <1>4

\* A commit, of whatever reads and writes, answers its request and leaves the others where
\* they are.
LEMMA EndAdvances ==
  ASSUME IInv, NEW t \in Requests, NEW reads, NEW writes, EndWith(t, reads, writes),
         NEW u \in Requests, tx[u] # Idle
  PROVE  Remaining(tx'[u]) = IF u = t THEN 0 ELSE Remaining(tx[u])
<1>1. tx[u] \in Jobs
  BY Busy
<1>2. CASE u = t
  BY <1>2 DEF EndWith, Remaining
<1>3. CASE u # t /\ tx[u].pc # "commit"
  BY <1>3 DEF EndWith
<1>4. CASE u # t /\ tx[u].pc = "commit"
  <2> DEFINE d == tx[u].doomed \/ Conflict(u, reads, writes)
             k == [tx[u] EXCEPT !.doomed = d]
  <2>1. tx'[u] = k
    BY <1>4 DEF EndWith
  <2>2. d \in BOOLEAN
    BY <1>1, <1>4, JobFields DEF Conflict
  <2> HIDE DEF d
  <2>3. k \in Jobs /\ k.pc = "commit" /\ k.attempt = tx[u].attempt
    BY <1>1, <1>4, <2>2 DEF Jobs
  <2> QED
    BY <1>1, <1>4, <2>1, <2>3, RemainingType
<1> QED
  BY <1>2, <1>3, <1>4

\* What a request in flight does by itself.
LEMMA StepAdvances ==
  ASSUME IInv, NEW t \in Requests, Step(t), NEW u \in Requests, tx[u] # Idle
  PROVE  /\ u # t => Remaining(tx'[u]) = Remaining(tx[u])
         /\ u = t => Remaining(tx'[u]) \in 0..(Remaining(tx[u]) - 1)
<1>1. tx[u] \in Jobs /\ tx \in [Requests -> {Idle} \cup Jobs] /\ Remaining(tx[u]) \in Nat \ {0}
  <2>1. tx[u] \in Jobs
    BY Busy
  <2>2. Remaining(tx[u]) \in 1..(2 * Attempts) /\ 2 * Attempts \in Nat
    BY <2>1, RemainingType, ProjectMembersAssumption
  <2> QED
    BY <2>1, <2>2 DEF IInv, TypeOK
<1>2. ASSUME NEW new, tx' = [tx EXCEPT ![t] = new],
             u = t => Remaining(new) \in 0..(Remaining(tx[u]) - 1)
      PROVE  /\ u # t => Remaining(tx'[u]) = Remaining(tx[u])
             /\ u = t => Remaining(tx'[u]) \in 0..(Remaining(tx[u]) - 1)
  BY <1>1, <1>2
<1>3. Remaining(Idle) \in 0..(Remaining(tx[u]) - 1)
  BY <1>1 DEF Remaining
<1>4. CASE Snapshot(t)
  <2> DEFINE seen == IF tx[t].op = "update" THEN {} ELSE roles[tx[t].target]
             k == [tx[t] EXCEPT !.pc = "commit", !.reads = ReadsOf(t), !.seen = seen]
  <2>1. tx' = [tx EXCEPT ![t] = k] /\ tx[t].pc = "begin" /\ tx[t] \in Jobs
    BY <1>4, Busy DEF Snapshot, Idle
  <2> HIDE DEF seen
  <2>2. k.pc = "commit" /\ k.attempt = tx[t].attempt
    BY <2>1 DEF Jobs
  <2>3. k # Idle
    BY <2>2 DEF Idle
  <2> HIDE DEF k
  <2>4. /\ Attempts \in Nat /\ tx[t].attempt \in 1..Attempts
        /\ Remaining(tx[t]) = 2 * (Attempts - tx[t].attempt) + 2
    BY <2>1, RemainingType
  <2>5. Remaining(k) = 2 * (Attempts - tx[t].attempt) + 1
    BY <2>2, <2>3 DEF Remaining
  <2>6. Remaining(k) \in 0..(Remaining(tx[t]) - 1)
    BY <2>4, <2>5
  <2> QED
    BY <1>2, <2>1, <2>6
<1>5. CASE Commit(t) \/ Archive(t)
  BY <1>1, <1>5, EndAdvances DEF Commit, Archive
<1>6. CASE Abort(t)
  <2> DEFINE k == [tx[t] EXCEPT !.pc = "begin", !.attempt = tx[t].attempt + 1, !.reads = {},
                                !.seen = {}, !.doomed = FALSE]
  <2>1. tx[t].pc = "commit" /\ tx[t] \in Jobs
    BY <1>6, Busy DEF Abort, Idle
  <2>2. CASE tx[t].attempt = Attempts
    BY <1>2, <1>3, <1>6, <2>2 DEF Abort
  <2>3. CASE tx[t].attempt # Attempts
    <3>1. tx' = [tx EXCEPT ![t] = k]
      BY <1>6, <2>3 DEF Abort
    <3>2. k.pc = "begin" /\ k.attempt = tx[t].attempt + 1
      BY <2>1 DEF Jobs
    <3>3. k # Idle
      BY <3>2 DEF Idle
    <3> HIDE DEF k
    <3>4. /\ Attempts \in Nat /\ tx[t].attempt \in 1..Attempts
          /\ Remaining(tx[t]) = 2 * (Attempts - tx[t].attempt) + 1
      BY <2>1, RemainingType
    <3>5. Remaining(k) = 2 * (Attempts - (tx[t].attempt + 1)) + 2
      BY <3>2, <3>3 DEF Remaining
    <3>6. Remaining(k) \in 0..(Remaining(tx[t]) - 1)
      BY <2>3, <3>4, <3>5
    <3> QED
      BY <1>2, <3>1, <3>6
  <2> QED
    BY <2>2, <2>3
<1>7. CASE Refuse(t)
  BY <1>2, <1>3, <1>7 DEF Refuse
<1> QED
  BY <1>4, <1>5, <1>6, <1>7 DEF Step

\* The safety that EveryRequestIsAnswered rests on: an accepted request has at most two
\* statements per attempt before it, fairness only has to let it run them.
THEOREM RetriesEnd == Spec => RequestsAdvance
<1>1. ASSUME IInv, [Next]_vars, NEW u \in Requests, tx[u] # Idle
      PROVE  /\ Remaining(tx[u]) \in 1..(2 * Attempts)
             /\ Remaining(tx'[u]) \in 0..Remaining(tx[u])
             /\ Step(u) => Remaining(tx'[u]) < Remaining(tx[u])
  <2>1. Remaining(tx[u]) \in 1..(2 * Attempts) /\ 2 * Attempts \in Nat
    BY <1>1, Busy, RemainingType, ProjectMembersAssumption
  <2>2. ASSUME Step(u)
        PROVE  Remaining(tx'[u]) \in 0..(Remaining(tx[u]) - 1)
    BY <1>1, <2>2, StepAdvances
  <2>3. ASSUME NEW t \in Requests, Step(t)
        PROVE  Remaining(tx'[u]) \in 0..Remaining(tx[u])
    BY <1>1, <2>1, <2>2, <2>3, StepAdvances
  <2>4. ASSUME NEW t \in Requests, Request(t)
        PROVE  tx'[u] = tx[u]
    BY <1>1, <2>4
    DEF Request, RequestMember, RequestUpdate, RequestArchive, BeginJob, IInv, TypeOK
  <2>5. ASSUME UNCHANGED vars
        PROVE  tx'[u] = tx[u]
    BY <2>5 DEF vars
  <2>6. Remaining(tx'[u]) \in 0..Remaining(tx[u])
    BY <1>1, <2>1, <2>3, <2>4, <2>5 DEF Next
  <2> QED
    BY <2>1, <2>2, <2>6
<1>2. IInv /\ [Next]_vars =>
        [\A t \in Requests : tx[t] # Idle =>
           /\ Remaining(tx[t]) \in 1..(2 * Attempts)
           /\ Remaining(tx'[t]) \in 0..Remaining(tx[t])
           /\ Step(t) => Remaining(tx'[t]) < Remaining(tx[t])]_vars
  BY <1>1
<1> QED
  BY <1>2, Invariance, PTL DEF Spec, RequestsAdvance
=============================================================================
