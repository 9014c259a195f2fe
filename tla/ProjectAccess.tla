--------------------------- MODULE ProjectAccess ---------------------------
(***************************************************************************)
(* Who may do what inside one project, as the services that guard project  *)
(* data see it: the membership rows with their project roles, and whether  *)
(* the project is archived.  This is the abstract view: one step changes   *)
(* the roles of one user, or archives the project.  ProjectMembers models  *)
(* the transactions behind these steps and is shown to implement it.       *)
(*                                                                         *)
(* Constant in the running system, hence constants here: user accounts     *)
(* stay ACTIVE and system permissions do not change (no service code       *)
(* suspends a user or edits user_system_roles; only the seed writes them). *)
(***************************************************************************)
EXTENDS Naturals, FiniteSets

CONSTANTS
  Users,        \* user accounts, all ACTIVE
  Creator,      \* the user who created the project
  Managing,     \* users whose system roles grant project:manage
  Assignable    \* Assignable[u]: the role sets u may be given; {} = no membership

Roles == {"PROJECT_MANAGER", "MEMBER", "APPROVER", "OBSERVER"}

ASSUME ProjectAccessAssumption ==
  /\ Creator \in Managing
  /\ Managing \subseteq Users
  /\ Assignable \in [Users -> SUBSET SUBSET Roles]

VARIABLES
  roles,        \* roles[u]: roles on u's membership row, {} when there is none
  projectOpen   \* the project is neither ARCHIVED nor soft-deleted

accessVars == <<roles, projectOpen>>

AccessTypeOK ==
  /\ roles \in [Users -> SUBSET Roles]
  /\ projectOpen \in BOOLEAN

(***************************************************************************)
(* The access kernel.                                                      *)
(***************************************************************************)
CanAccess(u) == projectOpen /\ roles[u] # {}

HasRole(u, role) == CanAccess(u) /\ role \in roles[u]

EffectiveManagers == {u \in Managing : "PROJECT_MANAGER" \in roles[u]}

(***************************************************************************)
(* Behaviour.  A membership change commits without a look at projectOpen:  *)
(* the transaction checked it in its own snapshot, and an archive may have *)
(* committed since (ProjectMembers).                                       *)
(***************************************************************************)
AccessInit ==
  /\ roles = [u \in Users |-> IF u = Creator THEN {"PROJECT_MANAGER"} ELSE {}]
  /\ projectOpen = TRUE

ChangeMembership(u, granted) ==
  /\ granted \in Assignable[u]
  /\ granted # roles[u]
  /\ roles' = [roles EXCEPT ![u] = granted]
  /\ EffectiveManagers' # {}
  /\ UNCHANGED projectOpen

ArchiveProject ==
  /\ projectOpen
  /\ projectOpen' = FALSE
  /\ UNCHANGED roles

AccessNext ==
  \/ \E u \in Users : \E granted \in Assignable[u] : ChangeMembership(u, granted)
  \/ ArchiveProject

AccessSpec == AccessInit /\ [][AccessNext]_accessVars
=============================================================================
