# A verification of the management system

This directory holds TLA+ models of the API under `src/apps/api`, of the pages of
`src/apps/web` that edit its records and of the attachment scripts under `src/infra`, the
TLC configurations that check them on small instances, and TLAPS proofs about them. The
models are translated from the TypeScript sources, the Prisma schema, the SQL migrations and
the shell scripts. `PROJECT.json` says for every definition which lines it stands for.

The system is a NestJS API over PostgreSQL (Prisma), with files on a local volume
and a Next.js front end. Nothing in it is a distributed protocol: what makes it hard
is that every HTTP request is a sequence of separate database statements, that
requests interleave between any two of them, and that three isolation disciplines are
mixed (plain READ COMMITTED statements, conditional updates used as compare-and-swap,
SERIALIZABLE transactions with retry). A process can be lost between two statements,
uploads leave durable traces outside any transaction, and the pages of the front end work
on copies of rows that others change.

## 1. Inventory

State is that of the component's own tables; "CAS" is an UPDATE whose WHERE clause
repeats the conditions checked before it, the affected-row count telling whether
they still held.

| Component | State | Operations | What is hard | What makes it correct |
|---|---|---|---|---|
| Project access (`project-access`, `roles`) | reads `projects`, `project_members`, `project_member_roles`, system roles | `assertProjectAccess`, `assertProjectRole`, `hasPermission` | the answer is a snapshot and is used later | an answer is not acted on once it is known to be stale |
| Projects (`projects`) | `projects.status`, references, `version`, member rows and roles | `create`, `update`, `archive`, `addMember`, `replaceMemberRoles`, `removeMember` | last-manager check counts in a snapshot; SERIALIZABLE with 3 attempts; `archive` is READ COMMITTED | a manager remains; no lost role change; an archived project drains; every request ends |
| Work logs (`work-logs`) | `work_logs` (status, token, current version), `work_log_versions` | `createDraft`, `updateDraft`, `addVersion`, `setVisibility`, `submit` | token CAS, status CAS without token, SERIALIZABLE insert of a version, unlocked rechecks of membership | log, versions and requests tell one story; stale writers lose; frozen text stays |
| Approvals (`approvals`) | `approval_requests`, `approval_decisions` | `decide`, `listPending` | races of decisions, of decisions with visibility changes and revocations | one decision, notification and mail per request; never by the author |
| Triggers (migrations 06, 07) | none of their own | guards on status, versions, current version; freeze on submit | they repeat rules of the services; `addVersion` inserts before its CAS | they refuse nothing but an `addVersion` that was overtaken |
| Work-log attachments | `attachments` bound to a log or a version | `upload`, `list`, `download`, `archive`, rebinding in `submit` | activation races with submission; starts go on with pending and archived rows | evidence of a submitted version is closed; nothing given up comes back |
| Attachment storage (`attachments`) | `attachments` rows; temporary, final and quarantined files in a shard directory | `storeAttachmentFile`, activation, `archive`, clean-up, `reconcile…` at start-up | crash or power loss between any two of link, sync, mark, removal and activation; clean-up removes the directory under an upload; the entry of a new directory is never synced; bounded attempts | a published file is complete and in place, as surely as its directory; no file without a row; a linked file is kept; foreign files are left alone |
| Orders and items (`orders`) | `orders` (status, dates, version), `order_items` | `create`, `update`, `archive`, `createItem`, `updateItem`, `removeItem` | transition and dates are checked against a row read before the CAS; items share the order's version under retry | legal transitions only; dates in order; order and items are one versioned record |
| Customers, contacts (`customers`) | `customers` (version), `customer_contacts`, the reference of a project | `create` with its binding, `update`, `archive`, contact operations | who may touch a customer depends on the projects bound to it; binding leaves the project's version alone | a check of a project update holds for what it writes; a customer nobody can reach stays as it is |
| Portfolios (`portfolios`) | `portfolios`, `portfolio_members` | `create`, `update`, `archive` | no version; references of projects are checked against membership | references stay inside what the user sees |
| Sessions, authentication, MFA (`auth`) | `sessions`, `users` (counters, locks, second factor), `mfa_recovery_codes` | login, step two by code or recovery code, logout, revocation, set-up, enabling, rotation, removal | a session upgraded by id after its checks; a lock read once, long before the code is verified; a recovery code looked up as unused, then marked by its id | a revoked session never works again; a lock holds once the requests past its check have ended; a used code is found by no later login |
| Invitations (`users`) | `user_invitations`, `users` | `createInvitation`, `acceptInvitation` | check and insert are two statements; account names are derived, then inserted | one account per accepted invitation |
| Reports, business time (`reports`) | none | `summary`, `byProject`, the drill-down; start and end of a business day | days of 23 and 25 hours; three statements with a row limit each | days tile the time line; sums agree unless marked truncated |
| Notifications | `notifications`, `email_outbox` | list, mark read | written inside other transactions; nobody sends the outbox | one per event |
| Web front end (`apps/web`) | query caches, forms, saves under way | pages that edit orders, items, customers, contacts, projects, portfolios, drafts | a refetch moves the token under a form; answers are lost; an answer shows a later row; a project changes without its version | a save of a record that changes with its version only replaces what its user has seen |
| Backup and restore of attachments (`infra/scripts`) | an archive and its checksum; the volume | archive, publish, verify, replace | the archive is written while files come and go; the script is lost between two links; restored files are new files under old names | what could be downloaded comes back; nothing mistakes a restored file for its own |
| Audit | append-only rows | `record` | none: nobody reads them back | - |
| Authorization guard, controllers, query parsing | none | stateless checks before a handler | none | - |
| Crypto | none | hashing, encryption, tokens | pure library calls | - |
| Database scripts, shared packages, compose files, proxy | none | wrap `pg_dump`; configuration | none | - |

### How components interact

- Work logs, approvals, attachments, orders call project access before their transaction, and
  some again inside it. The second look is an unlocked READ COMMITTED query, a condition of the
  writing statement itself, or part of a SERIALIZABLE snapshot.
- `submit` writes four tables: the log, its versions (frozen by the service and by a
  trigger), its attachments (rebound from the log to the version), the approval request.
- `decide` writes the request, the decision, the log, a notification and the outbox.
- `upload` writes a row, a file, the row again, and activates the row by a conditional
  statement that looks at the log; reconciliation repeats this last step at start-up.
- A customer is created into a project; afterwards the projects bound to it decide who may
  work on it, and a project may only name a customer or portfolio its user can see.
- `archive` of a project writes one row; everybody else only notices when they look.
- The web pages read rows, send the version of the cached row with most updates, and learn
  later what became of it.
- Reports read logs, versions and decisions of all projects, one statement after the other.

## 2. Modules

| Module | Stands for | Builds on |
|---|---|---|
| `ProjectAccess` | abstract membership and the access kernel | - |
| `ProjectMembers` | the member and life-cycle transactions of `ProjectsService`; implements `ProjectAccess` | `ProjectAccess` |
| `WorkLogs` | `WorkLogsService`, `ApprovalsService.decide`, the freeze trigger, membership changing around them; implements `ReviewRecord` | `ProjectAccess` |
| `ReviewRecord` | what the two services promise, without versions, tokens or transactions | - |
| `WorkLogAttachments` | uploads, archiving, rebinding, restart, reconciliation | `WorkLogs` |
| `AttachmentStorage` | the files of `AttachmentsService` next to their rows, lost processes and power loss | - |
| `AttachmentRestore` | backup and restore of the attachment volume under the rows | `AttachmentStorage` |
| `VersionedResource` | what an optimistically locked record promises | - |
| `Orders` | `OrdersService`, with members changing around it; implements `VersionedResource` | `ProjectAccess` |
| `References` | projects, customers with contacts, and portfolios, as far as they refer to each other; customers implement `VersionedResource` | - |
| `EditPages` | the editing pages of the front end over `VersionedResource`s, and over projects, which also change without their version | `VersionedResource` |
| `Accounts` | invitations, logins, sessions, second factor | - |
| `BusinessTime`, `Reports` | business days; `summary`, `byProject` and the drill-down over logs and decisions | `BusinessTime` |
| `ProjectMembersProofs`, `OrdersProofs`, `ReferencesProofs`, `EditPagesProofs`, `AccountsProofs`, `ReportsProofs` | theorems | their modules, `TLAPS` |
| `WorkLogsProofs` | theorems about work logs, their refinement of `ReviewRecord`, and their attachments | `WorkLogAttachments`, `TLAPS` |
| `AttachmentStorageProofs` | theorems about the files of attachments, and about them under backup and restore | `AttachmentRestore`, `TLAPS` |
| `MC…` | model values, symmetry, the inputs a run may send | |

### State and actions

A request is one record (`tx[t]`, `req[p]`, `job[t]`) whose `pc` names the next
statement. Its other fields are what the handler remembers between statements: the
token and version it has read, the number it will use, the role it has found. One
action is one statement, or one transaction when no other request can see its middle:

| Code | Actions |
|---|---|
| `createDraft` | `CreateRead` (access), `CreateCommit` (log and version 1 in one transaction) |
| `updateDraft` | `EditRead`, `EditMember`, `EditCommit` (token CAS, text of the current version) |
| `setVisibility` | `VisibilityRead`, `VisibilityCommit` |
| `addVersion` | `ReviseRead`, `ReviseSnapshot` (snapshot, insertion, WHERE of the CAS), `ReviseRefused` (insertion refused by its trigger), `ReviseCommit` |
| `submit` | `SubmitRead`, `SubmitApprover`, `SubmitAuthor`, `SubmitCas` (the row lock), `SubmitCommit`; with attachments also `SubmitRebind` |
| `decide` | `DecideRead`, `DecideAccess`, `DecideRecheck`, `DecideCommit` |
| `addMember`, `replaceMemberRoles`, `removeMember`, `update` of a project | `RequestMember` / `RequestUpdate`, `Snapshot`, `Commit`, `Abort` |
| `archive` of a project | `RequestArchive`, `Archive` |
| `upload` of an attachment | `UploadRead`, `UploadInsert`, `UploadPublish`, `UploadActivate`, `UploadFails` |
| `archive` of an attachment | `ArchiveRead`, `ArchiveCommit` |
| process lost, `onApplicationBootstrap` | `Restart`, `Recover` (`reconcilePendingUploads`), `Remove` (`reconcileStorageCleanup`), `StartFails` |

`AttachmentStorage` looks at the same uploads, and at those of customer contracts, from the
side of the file system. `job[w].pc` names the next call to the file system or the database:

| Code | Actions |
|---|---|
| `storeAttachmentFile` | `UploadInsert`, `OpenShard`, `OpenTemp`, `WriteTemp`, `RecordIdentity`, `LinkFinal`, `SyncFinal`, `MarkPublished`, `RemoveTemp`, `SyncRemoval` |
| activation by `upload` | `Activate` |
| `handlePendingUploadFailure` | `UploadFails`, `UndoTemp`, `UndoRow`, `UndoFails` |
| `archive` | `ArchiveRead`, `ArchiveUpdate`, `ArchiveRefused` |
| `cleanupPublishedFile`, `markStorageDeleted` | `RemoveOld`, `MoveFinal`, `DropQuarantine`, `RemoveShard`, `MarkDeleted`, `CleaningFails` |
| `reconcilePendingUploads`, `reconcileStorageCleanup` | `TakeUp`, `EndBatch` |
| `recoverPendingUpload` | `RecoverCheck`, `RecoverSync`, `RecoverRemoveTemp`, `RecoverSyncRemoval`, `RecoverActivate`, `RecoverFails` |
| a new process | `Crash`, `HostFails` |
| the file system of its own accord | `WriteBack` |
| `backup-attachments.sh`, `lib.sh` | `BeginBackup`, `ArchiveEntry`, `ArchiveEnds`, `PublishArchive`, `PublishChecksum`, `BackupFails`, `BackupLost` (`AttachmentRestore`) |
| `restore-attachments.sh` | `EmptyVolume`, `FillVolume`, `RestoreLost` (`AttachmentRestore`) |

The business records:

| Code | Actions |
|---|---|
| `OrdersService.create` | `RequestCreate`, `SnapshotCreate`, `CommitCreate` |
| `OrdersService.update` | `RequestUpdate`, `ReadForUpdate` (the unlocked read and its checks), `Update` (the CAS) |
| `OrdersService.archive` | `RequestArchive`, `Archive` |
| `createItem`, `updateItem`, `removeItem` | `RequestItem`, `SnapshotItem`, `CommitItem`, with `Abort` for a retry |
| `ProjectsService.create`, `update`, `archive` | `SnapshotCreateProject`, `CommitCreateProject`, `SnapshotUpdateProject`, `CommitUpdateProject`, `ArchiveProject` (`References`) |
| `CustomersService.create`, `update`, `archive` | `CreateCustomer`, `UpdateCustomer`, `ArchiveCustomer` |
| contact operations | `SnapshotContact`, `CommitContact` |
| `PortfoliosService` | `CreatePortfolio`, `UpdatePortfolio`, `ArchivePortfolio` |
| a page's queries | `Fetch`, `Arrive`, `FetchFails` (`EditPages`) |
| a page's form | `OpenForm`, `CancelForm`, `Save`; the API's answer `Apply`, `Refuse`; its arrival `Saved`, `Refused`, `AnswerLost` |
| a customer bound to a project, or archived | `ChangeUnversioned` |

Accounts:

| Code | Actions |
|---|---|
| `createInvitation` | `RequestInvitation`, `ReadUser`, `ReadInvitation`, `InsertInvitation` |
| `acceptInvitation` | `RequestAcceptance`, `DeriveUniqueAccount`, `CreateUser` |
| `login` | `Login`, `CountFailure`, `LockFactor`, `ResetFactor`, `OpenSession` |
| `verifyMfaChallenge` | `FindPendingSession`, `AssertMfaNotLocked`, `VerifyCode`, `CountFailure`, `LockFactor`, `ResetFactor`, `UpgradeSession` |
| recovery login | `FindPendingSession`, `AssertMfaNotLocked`, `FindCode` / `NoCode`, `ConsumeCode` |
| `MfaService` | `Admit` (the guard), `ReadFactor`, `StoreSecret`, `VerifyCode`, `TurnOn`, `EraseCodes`, `CreateCode`, `DisableFactor` |
| `logout`, `revokeById`, `revokeAll` | `Admit`, `Revoke` |
| the end of a session or a lock | `Elapse` |

`Reports` has its own short life of a log (`Create`, `Submit`, `Decide`, `Revise`,
`ChangeStatus`, `Pass`); the reports are operators on that state, `Summaries`,
`ByProjects` and `DrillDowns`, each the set of all answers the code may give.

Every request can end in an error at any point (`RequestFails`, `Refuse`, `Stop`,
`RequestRollsBack`): a failed check, a deadlock victim, a lost connection. Nothing of
its transaction remains; what was durable before (an uploaded row, a counted failure) does.

### Abstractions, by name

- *READ COMMITTED.* A statement sees what is committed when it starts, hence one action
  per statement. A conditional UPDATE waits for the row lock, then evaluates its WHERE on
  the committed row: `Writable` and the `…Where` operators. Among work logs the only
  transaction that holds a row across several statements that others can tell apart is
  `submit` (`SubmitCas` to `SubmitCommit`).
- *SERIALIZABLE.* `ProjectMembers` takes the weakest part of PostgreSQL's guarantee: a
  commit is refused if a concurrent committed transaction wrote the same row, or if there
  are read-write conflicts in both directions. The database may refuse more; `Abort` is
  always possible. `archive`, being READ COMMITTED, takes no part in read-write conflicts,
  and its WHERE clause is evaluated together with its update. In `addVersion`, `Orders` and
  `References` only first-updater-wins is assumed: a transaction that writes a row written
  since its snapshot is `doomed` (`ReviseSerializable` in `WorkLogs`), nothing is said of
  what it only reads.
- *Merged reads.* `DecideRead` stands for three consecutive queries without a write
  between them, whose checks all hold in the state of the last one if they passed.
- *Tokens.* A client sends a version it has been given, hence any up to the current one in
  `Orders`; in `References` the current one, because the request may wait arbitrarily long
  before its first statement.
- *Data.* A text is a model value; the order a log may refer to is part of it. The visibility
  of a log is kept, because it shares the token. Notification, mail and decision rows
  are counted in one number, `outcomes`. Of an order its status and its two dates remain, of
  an item its status, of a contact whether it is there, of a portfolio whether it is open and
  who its member is. On the pages an edition is a number, each write making a new one.
- *Constant context.* Accounts stay ACTIVE and system roles do not change: no service
  writes them, only the seed does. Logs and members are not soft-deleted by any service. In
  `References` membership is constant, too; `ProjectMembers` has its changes.
- *Time.* Invitations, locks and sessions have periods of minutes to days. A lock or a
  session may end at any time (`LockExpires`, `SessionExpires`): every length of a period and
  every speed of a request is among the behaviours. In `BusinessTime` instants are hours,
  and each zone changes its clocks at most once, which is what one look-up of an offset can meet.
- *Guesses.* Whether a password or code is right is a choice of the model.
- *Files.* In `WorkLogAttachments` the file behind an attachment is the Boolean `published`.
  `AttachmentStorage` has its directory entries: `live` is what a process sees, `disk` what a
  power loss leaves for certain. An entry refers to the file with the device and inode of its
  row (`own`) or to another (`other`). An fsync of the shard directory makes all its entries
  durable; without one each changed entry is found as before or after, independently.
  Content is synced before it is linked, so it is one Boolean, `whole`. All attachments
  share one shard directory, the case in which they can meet.
- *The shard's own entry.* `openEntityDirectoryChain` makes the directories of a new shard and
  syncs none of their parents, so the entry of the shard is on the disk (`anchored`) only when the file
  system has written it of its own accord (`WriteBack`, at any time). A failure of the host may
  lose a shard that is not anchored with everything in it, or bring back the one removed before
  it (`former`). One entry stands for the whole chain of directories below the root.
- *Moves.* Only the Linux move (`mv -nT`) is modelled.
- *Foreign files.* Names contain a random identifier, so only a restore puts another file
  under the name of a row; the branches for a link that meets an existing file and for a move
  that meets a foreign one are therefore unreachable here and left out. A restore
  gives all files new identities, and the API is stopped during it.
- *Outcomes.* In `AttachmentStorage` a lost authorization or a changed work log is one of the
  reasons why an activation fails; `WorkLogAttachments` says when. A start looks at any
  `BatchSize` unfinished rows; the code takes the smallest identifiers, which are random.
- *Reports.* All statements of one report see the same tables. Which rows a statement of
  `summary` or `byProject` with a row limit leaves out is open, because it has no order; the
  drill-down has one, so it leaves out the earliest days, in any order of those of one day.

## 3. Runs

`CHECK_DEADLOCK FALSE` is set everywhere: a bounded model stops when its bounds are
spent, and a server with nothing to do is not in error.

| Run | Question | Bounds |
|---|---|---|
| `MCProjectMembers` | do concurrent member changes keep a manager, build on each other, drain after an archive, implement `ProjectAccess`, and is every request answered? | 2 managers, 2 requests, 3 attempts, project version up to 3, fairness |
| `MCWorkLogs` | do the tables agree, are decisions made once, do stale writers lose, do triggers refuse only what was overtaken, is `ReviewRecord` implemented, all while the approver comes and goes? | 2 users, 1 log, 2 versions, 2 requests in flight, tokens up to 6 |
| `MCWorkLogAttachments` | is evidence closed, and does nothing given up come back, while uploads, archives, submissions, restarts and both halves of the start interleave? | 1 log, 2 versions, 2 attachments, 1 log request next to 2 attachment requests, 3 attempts |
| `MCAttachmentStorage` | is a published file as safe as its shard, every file accounted for by a row, and a linked file kept, when calls fail and processes or the host are lost? | 1 contract and 1 work-log upload, 2 workers, 3 attempts, batches of 1 |
| `MCAttachmentRestore` | does a backup taken under load bring back what it should, and are restored files left alone and never published? | 2 attachments, 1 worker, 2 attempts, 1 restore |
| `MCOrders` | does what an update checked still hold for the row it overwrites, and are an order and its items one versioned record? | 1 order, 1 item, 2 requests, 2 dates, 2 attempts, version up to 4 |
| `MCReferences` | does a project update keep what it has checked, is a customer bound once, is an unreachable customer left alone, are customers versioned records? | 2 projects, 2 customers, 1 contact, 1 portfolio, 2 requests, 2 attempts, 5 writes |
| `MCEditPages` | does a page that sends the cached version replace what its user has seen, where the record changes with its version only? | 2 pages of any design on one record, 4 editions of its row and its items together |
| `MCAccounts` | one account per invitation, does a lock hold, no revival of a revoked session, no late use of a used code? | 2 addresses with one local part, 2 invitations, 1 session, 2 recovery codes, 2 requests, lock after 2 failures, at most 3 counted |
| `MCReports` | is each decision in one day's report, is a range the sum of its days, do project rows add up to the summary, and drill-downs to their rows? | 2 logs of 2 projects and authors, 2 versions, 3 days, row limits 1, clocks forward, back or unchanged |
| `MCLateActivation`, `MCRestoredFiles` | does the code do what its comments say? (no: section 5) | as small as shows it |

Why these are enough to be of use. Two requests in flight is the least number at which a
race exists, and the code's conflicts are pairwise (one row lock, one token, one unique
key); a third request changes no guard that a second one has not already changed. The proofs
(section 4) have no bound on requests, workers or attachments. Two versions give one full round of return and
resubmission, so a request can be overtaken by it. Two managers can demote each other. The bounds
on tokens and versions are above what one pair of requests needs, so late writers with a
used-up token exist. Three attempts are the constant of the code; two already give a retry
and its end.

For files, two attachments are the least that share a directory, two workers let a clean-up
and an upload meet in it; the number of crashes is not bounded. Batches of one make a start
leave rows to the next one. `NoStrayFile` excepts the step in which the host fails: a removed
entry can be back after it (section 5). `LinkedIsRetained` lets that step take a link that is not
yet synced and marked, or any link in a shard that is not anchored. `MCAttachmentRestore` has no
power loss, which makes it too slow to run each time; `MCAttachmentStorage` has it, and the
theorems about both cover it. What a restore unpacks is taken to be on the disk with its shard,
and a backup under way ends with the host.

For customers, two projects are what rebinding takes, and a customer can be bound to both or
to none. `MCAccounts` lets one address log in and only the second step be answered wrongly: the
two counters are handled by the same actions (`CountFailure`, `LockFactor`, `ResetFactor`). Its
counter may go one above the limit, as when two requests are past the check of the lock.
In `MCReports` the instants are hours around the midnights, where a wrong bound shows. With row
limits of 1 a report of two logs is marked as truncated, so the run never adds two terms other
than zero in a report that `ProjectsAddUp` says something of; that complete reports of any size
add up is the theorem `ReportsAgree`.
Hours are counted before the limit is applied, so in a truncated range the
hours half of `RangeIsItsDays` speaks of what is counted, not of what is shown.

*Symmetry.* Requests, texts, attachments, browsers and other rows are interchangeable where a
cfg says so; the liveness run uses none. Users are not where their roles differ.

*Fairness.* Only `MCProjectMembers` needs it: `FairSpec` is weak fairness of `Step(t)`, for each
request. It says that an accepted request is carried on: the API process runs its next
statement and the database answers. Nothing is assumed of clients (no request has to
arrive) nor of which answer is given: a request may be aborted every time. That it still
ends is due to the bound on attempts alone, and the mutant without the bound is caught.
Nothing in the code obliges an approver to decide, so no run claims it.

Each property of a passing run is paired in `PROJECT.json` with a mutant, a plausible bug
in one definition (a dropped conjunct of a WHERE clause, a weaker isolation level, the
freeze one version short), under which the property fails.

## 4. Proofs

The theorems hold for all values of the constants that satisfy the named assumptions of
the modules: `ProjectAccessAssumption` (the creator may manage, managers are users,
assignable role sets are sets of roles), `ProjectMembersAssumption` (there are finitely many
users, bounds are positive), `WorkLogsAssumption`, `OrdersAssumption`,
`ReferencesAssumption` (bounds are positive, null values are no values, clients send what
validation lets through), `EditPagesAssumption` (designs edit the resources there are, no data are no data, two editions fit),
`AccountsAssumption` (limits are positive, a part of an address is no address),
`AttachmentsAssumption` and `StorageAssumption` (attempts and batches are positive, contracts are
attachments), `RestoreAssumption` (restores are counted), `NoneAssumption` (null is no row), `ZonesAssumption` (a zone changes its clocks
at most once, not around a midnight) and `ReportsAssumption` (there is a first instant, limits are
positive, the tables of logs and of projects are finite). TLC evaluates all of them for the constants of the runs. The bounds on
versions, tokens and writes are constants like the others: a theorem holds whatever they are.
The theorems are about `Spec`, those about `WorkLogAttachments` about its `AttSpec`, those about
`AttachmentRestore` about its `RestoreSpec`; where a
run uses `FairSpec`, that implies `Spec`.

| Module | Theorem | Statement |
|---|---|---|
| `ProjectMembersProofs` | `Invariance`, `TypeCorrectness` | `Spec => []IInv`, `Spec => []TypeOK` |
| | `SomebodyManages` | `Spec => []ManagerRemains` |
| | `ChangesAreNotLost` | `Spec => ChangesBuildOnEachOther` |
| | `ArchiveDrains` | `Spec => ArchivedProjectDrains` |
| | `MembersImplementAccess` | `Spec => ImplementsProjectAccess` |
| | `RetriesEnd` | `Spec => RequestsAdvance` |
| `WorkLogsProofs` | `Invariance`, `TypeCorrectness` | `Spec => []IInv`, `Spec => []TypeOK` |
| | `HistoryIsConsistent` | `Spec => []ReviewHistory` |
| | `DecidedOnce` | `Spec => []OneOutcomePerRequest` |
| | `ChecksStillHold` | `Spec => []InFlight` |
| | `StaleWritersAreRefused` | `Spec => StaleWriterChangesNothing` |
| | `TriggersMeetTheOvertaken` | `Spec => TriggersRefuseOnlyOvertaken` |
| | `TokenIdentifies` | `Spec => TokenIdentifiesState` |
| | `ArchiveDrains` | `Spec => ArchivedProjectDrains` |
| | `ServicesKeepTheRecord` | `Spec => ImplementsReviewRecord` |
| | `AttachmentInvariance`, `AttachmentTypes` | `AttSpec => []AttIInv`, `AttSpec => []AttTypeOK` |
| | `BoundToSubmitted` | `AttSpec => []BoundToSubmittedVersion` |
| | `EvidenceCloses` | `AttSpec => EvidenceIsClosed` |
| | `NothingComesBack` | `AttSpec => NoResurrection` |
| | `LogsSurviveRestarts` | `AttSpec => [](ReviewHistory /\ OneOutcomePerRequest /\ InFlight)` |
| | `RestartsRespectGuards` | `AttSpec =>` the four action properties of `WorkLogs` |
| | `RestartsKeepTheRecord` | `AttSpec => ImplementsReviewRecord` |
| `AttachmentStorageProofs` | `StorageInvariance`, `StorageTypes` | `Spec => []StorageIInv`, `Spec => []TypeOK` |
| | `PublishedIsSafe` | `Spec => []PublishedFileIsSafe` |
| | `NothingStrays` | `Spec => NoStrayFile` |
| | `LinksAreRetained` | `Spec => LinkedIsRetained` |
| | `RestoreInvariance` | `RestoreSpec => []RestoreIInv` |
| | `ForeignFilesStay` | `RestoreSpec => ForeignFileIsLeftAlone` |
| | `OwnFilesAreActivated` | `RestoreSpec => ActivatedFileIsOwn` |
| | `BackupsAreComplete` | `RestoreSpec => BackedUpIsRestored` |
| `OrdersProofs` | `Invariance`, `TypeCorrectness` | `Spec => []IInv`, `Spec => []OrderTypeOK` |
| | `DatesAreOrdered` | `Spec => []DatesStayOrdered` |
| | `StatusesMoveForward` | `Spec => StatusMovesForward` |
| | `OrderIsVersionedResource` | `Spec => ImplementsVersionedResource` |
| `ReferencesProofs` | `Invariance`, `TypeCorrectness` | `Spec => []IInv`, `Spec => []RefTypeOK` |
| | `UpdatesKeepWhatTheyChecked` | `Spec => UpdateKeepsWhatItChecked` |
| | `BindingsAreReplacedByName` | `Spec => BindingIsReplacedByName` |
| | `UnclaimedIsForGood` | `Spec => UnclaimedForGood` |
| | `CustomerIsVersionedResource` | `Spec => ImplementsVersionedResource` |
| `EditPagesProofs` | `Invariance` | `Spec => []IInv` |
| | `FollowingFormsAreSafe` | `Spec => FollowingFormsReplaceWhatTheyShow` |
| `AccountsProofs` | `Invariance`, `TypeCorrectness` | `Spec => []IInv`, `Spec => []AccountTypeOK` |
| | `AcceptanceCreatesTheAccount` | `Spec => []AccountsComeFromInvitations` |
| | `LockedOutUntilItEnds` | `Spec => LockoutHolds` |
| | `RevokedSessionsStayRevoked` | `Spec => RevocationIsFinal` |
| | `SpentCodesAreNotFound` | `Spec => SpentCodesDrain` |
| `ReportsProofs` | `DayStartIsMidnight` | the two look-ups of `zonedDayStartUtc` find the midnight |
| | `DayHoldsItsInstants` | a day's interval holds exactly the instants of that date |
| | `ReportTypes` | `Spec => []ReportTypeOK` |
| | `DecisionsFallIntoTheirDays` | `Spec => []DecisionFallsInItsDay` |
| | `DaysPartition` | `Spec => []DaysPartitionTheirRange` |
| | `RangesAddUp` | `Spec => []RangeIsItsDays` |
| | `ReportsAgree` | `Spec => []ProjectsAddUp` |

**The common argument.** Each service checks something in one statement and writes in
another, and what makes the write correct is that the check still holds then. The checks
themselves are never inductive: the inductive invariant must say, for every request in flight
and whatever the others have done in the meantime, under which circumstances what it has
seen is still so. Each module has its own reason:

- *Members* (`IInv` with `Valid`): a transaction at its commit that is not `doomed` finds its
  target's roles as it has read them; if it takes a manager's role away it has read the rows
  of *all* users and another manager is among them. For two removals that would leave
  nobody, each has read what the other writes: a conflict in both directions, so the later one
  is doomed by the earlier commit. That two managers in a snapshot leave one besides any
  user (`AnotherManager`) is where the users must be finite: the code counts them.
- *Orders* (`StillChecked`): a token is at most the current version, and if it *is* the
  current version, the transition and the dates that `update` has checked on its unlocked read are
  legal for the row of now. A write raises the version, so it turns every other such promise
  into one about a token that will be refused.
- *Customers and projects* (`StillChecked`): a binding changes a project without raising its
  version, so a version promises nothing about its customer. What a project update can rely
  on is that it writes the row it has read in a serializable transaction: whoever writes the
  row first dooms it. The invariant says it for both tables, and the four properties are steps
  from it; `UnclaimedForGood` goes through the three ways to name a customer (a new
  project, an update, a new customer) and the two ways to be allowed to write it.
- *Pages* (`Known`): rows are copied to caches, forms and answers under way, and each copy of
  a record that changes with its version only is the row of now if its version is the current one. A
  form that follows shows the cached row, so the token that is sent and the values that were
  seen come from one row. For a project the first half fails (section 5).
- *Accounts* (`Found`, `OneAccepted`): the checks of an account, a session or a code are not
  repeated, but no statement takes a row away or gives it to another user, so a request goes on
  to write what belongs to its user. That an upgrade by id revives nothing is a fact about
  what it writes (`UpgradedRow`). While an account is locked out (`LockedOut`), each of its
  second steps waits at the check of the lock, which refuses it (`RequestGoesOn`), and what writes the counter,
  a code or a session is past that check or belongs to another operation. A code is only
  reached through `FindCode`, which wants it unused. An acceptance finds no account of its address when it makes one,
  hence no accepted invitation either.
- *Work logs, attachments and their files*: below.
- *Business days*: the proof splits on the side of the change on which the midnight is; the
  rest is linear arithmetic, and `Today` brings in a division.
- *Reports* (`ReportIInv`): decisions are finitely many and not later than the clock, and a log
  exists if and only if it has a version. All reports of decisions then follow from one lemma on
  ranges (`RangeHoldsItsInstants`, `CountedByDate`): the days of a range share no decision and
  miss none (`DaysPartitionTheirRange`). That the figures add up is below.

**Sums.** `RangeIsItsDays` and `ProjectsAddUp` compare sums over finite sets of any size. Hours
are summed with the `SumFunctionOnSet` of the community modules, which is a recursive function on
the subsets of its set and hence open to proof: a property of the subsets of a finite set *is* a
set of subsets, so that induction on them (`SubsetInduction`) is a statement about all sets
and needs no operator as a parameter; it comes from the library's theorem that the strict subsets
of a finite set are well founded. The recursive equation chooses an element; that any other
may be taken instead (`SumOfAnElement`) is the induction that everything else rests on. A
set that is cut into disjoint parts has as its sum the sum of the sums of its parts
(`SumOfParts`), and as its size the sum of their sizes (`SizeOfParts`). The parts are the days
of a range in one theorem and the projects in the other. `ReportsAgree` also needs that a report that is
not truncated shows every row (`AllIsShown`), that such a drill-down lists every log
(`AllIsListed`), and that the listed logs that are not drafts are the ones
whose hours count (`ListedLogsCount`).

**Retries.** `RequestsAdvance` has no run of its own: it is the safety part of the run that checks
`EveryRequestIsAnswered`. `Remaining` counts the statements before the answer of a request, two for each
attempt it has left. Each own step lowers it, a conflict that begins another attempt
included, and a commit of another request, which may doom the attempt under way, does not raise it.
What `EveryRequestIsAnswered` adds is that a request which can run does (fairness, `ENABLED`).

**Work logs.** The inductive invariant is

    IInv == TypeOK /\ ReviewHistory /\ OneOutcomePerRequest /\ InFlight

No part is inductive alone. That `decide` gives one outcome needs `ReviewHistory`: the
request found through the log's current version is the pending one. `ReviewHistory` after
`submit` needs `InFlight`: between `SubmitCas` and `SubmitCommit` the row has stayed the
draft the request locked, and no other request holds it. After `addVersion` it needs
the other half of `InFlight`: if the token is still the one of the snapshot, so is
everything else, and the number found then is the next one. This in turn holds because
every commit raises the token, so that a snapshot once overtaken stays overtaken. Its third part
(`RevisionOvertaken`) says that the version an `addVersion` has found returned stays so and is
the current one or an earlier one, hence what `TriggersRefuseOnlyOvertaken` says of a refused insertion. And
`OneOutcomePerRequest` says that the approver is not the author, which the checks of
`submit` establish several statements before its write.

The argument has three layers. *Rows:* each operation, taken as a function of the rows of
one log, makes good rows of good ones (`GoodCreate` … `GoodDecide`). *Commits:* each
writing action is `CommitOn` one log: it replaces its rows by good ones, raises its token by
one, ends its request, and no submission of another request holds that log
(`CreateCommits` … `DecideCommits`); from this alone the invariant of all rows and all other
requests follows (`CommitKeepsRows`, `InFlightAfterCommit`). *Moves:* each other statement
only replaces the record of its request by one that is `Entitled` to its place
(`MovesInFlight`). The action properties then follow from `IInv` step by step.

**The review record.** The mapping reads the state of one log from its rows; the history is
the sequence of its decided versions. In good rows these are the first ones (`ClosedVersions`),
so it *is* a sequence (`HistoryIsSequence`), a decision appends to it (`LongerHistory`) and
any other commit leaves it (`SameHistory`). With `CommitOn` every write touches one log, and
one lemma per operation (`CreateIsCreate` … `DecideIsDecide`) finds the action of
`ReviewRecord` it is. A change of visibility alone is a stutter (`VisibilityIsSilent`).

**Attachments of work logs.** `AttIInv` adds to `IInv` that a worker's job matches its row
(`JobsMatchRows`), that nothing is under way while the API starts, and that a submission which has
rebound attachments still holds the row of its log and they are still unbound
(`ReboundIsLocked`). Rows that wait for the start are pending or archived and have attempts left, which is all
that `Recover`, `Remove` and `StartFails` rely on. Every step of the composition but a restart is a step of `WorkLogs` on its variables
(`AttStepShape`), and a restart drops its requests, so
`IInv` carries over (`AttKeepsIInv`). `BoundToSubmittedVersion` is inductive because a version
that has been submitted stays so (`SubmittedStays`); `EvidenceIsClosed` because a row that can
still change is unbound, and one is bound only to the version whose request the same commit
inserts. The invariants, the action properties and the refinement of `WorkLogs` are also proved
for the composition, where the API may be lost between any two statements. `Restart` is the one
action that is no step of `WorkLogs`: it drops all requests and changes no row
(`RestartDropsRequests`), so it is a stutter of the review record. For the other steps the
lemmas of the theorems about `Spec` apply (`StaleStep`, `DrainedStep`, `TriggersStep`, `TokenStep`, `RecordStep`).

**Files.** `StorageIInv` has a clause for each state of a row and one for each
statement of a job: what the directory (`live`), the disk (`disk`) and a removed shard that may come back (`former`) hold
when it is reached (`RowFacts`, `JobFacts`). What the statements of one upload rely on survives the others since
only requests that still have to repeat their check may be on the same attachment
(`OneBusy`), and the shared directory is there as long as it has an entry or an upload counts on
it (`ShardHolds`). After a failure of the host, each entry is as it was or as it was on the disk, or, if the shard is
not anchored, missing or one of the former shard (`EntriesAfterFailure`), and `RowFacts` holds for any such
mixture: this is why it says of a PENDING row that the disk has its final entry or none and a former
shard none, and of a published one that the disk has it, too, or that nothing is left anywhere.
The steps of a worker fall into a handful of shapes, each with a lemma (`JobMoves`, `RowEnds`,
`EntryMoves`, …, all from `JobStep`). `NoStrayFile` and `LinkedIsRetained` follow from
`Change`: a step leaves an attachment alone, or leaves it an accounting row with its link, or
gives up a row that has no entry.

**Restored files.** After a restore any entry may be a file its row does not remember, so
`StorageIInv` is gone: a published row may lack its file, a temporary file may be one of the
backup. `RestoreIInv` keeps what the code still checks for itself. A foreign entry is on the disk
as well (`RestoredRow`), and so is its shard (`ForeignAnchored`), so that no failure of the host brings or takes one; a job that is about to
activate has linked the final entry itself or compared it with its row, and one that is about to drop a quarantined
file has moved it there itself (`RestoredJob`). For backups, `BackupRow` says of each attachment
that could be downloaded at the beginning and is still active: it has a final entry until it is
read, and then the archive has one. Nothing but a restore changes the final entry of an active
row, which is why a backup under load is complete.
`VolumeIsOffline` says that no request runs while the volume is empty and that the backup is
still there to fill it. `ForeignFileIsLeftAlone` needs the part about the disk in the states before
and after a step, since an `fsync` and a failure of the host look at different entries.

The other modules have the same layers with two lemmas instead of one per place:
`MoveKeepsIInv` for statements that leave the rows that exist alone, `WriteKeepsIInv` (in
`ProjectMembersProofs` the lemmas about `EndWith`) for writes.

*Only model-checked*, because out of the prover's reach: liveness (`EveryRequestIsAnswered`,
and with it fairness and `ENABLED`); `RetriesEnd` proves the safety under it. Every other property
of the passing runs is stated by a theorem.

## 5. Where comments and code disagree

Two comments or documents say more than the code does and have a run with a counterexample.

1. `MCLateActivation`. A comment at the activation of an upload says that a submission
   during the upload leaves no visible attachment. The activation reads the log's status
   without waiting for the row `submit` has locked, so an upload can be activated after the
   rebinding and before the commit. It stays bound to the log, and the draft that follows a
   return shows it, which a comment at the rebinding excludes, too. The evidence of
   the submitted version itself is not affected: `EvidenceIsClosed` holds.
2. `MCRestoredFiles`. `restore-attachments.sh` replaces the volume from a backup, but downloads
   compare device and inode with the row, and restored files have new ones: every attachment
   restored under existing rows is refused. That the comparison protects foreign files is shown by
   `ForeignFileIsLeftAlone`; what is missing is a step that renews the identities.

More such places were met while modelling. They can be read off one or two lines and have no run:

- `decide` says (`approvals.service.ts:205`) that membership, role and project status must be
  valid at commit. They are read in the transaction, but without a lock at READ COMMITTED:
  the role can be revoked, or the project archived, before the commit. `submit` has the same
  window for the approver's membership (`work-logs.service.ts:679`). What does hold is
  `ArchivedProjectDrains`: only requests that were past their check can still write.
- `handlePendingUploadFailure` says (`attachments.service.ts:979`) that once the link exists,
  reconciliation can finish publication or activation. It refuses rows that are not marked
  published (line 920): a row whose process was lost between link and mark fails each of its
  three reconciliations and is given up, its file in place. A test expects that refusal, and
  nothing is lost by it (`LinkedIsRetained`).
- The migration that adds `storage_deleted_at` says that what is not deleted remains durable
  retry work after a crash. The directory is not synced between the removal and the mark
  (line 1322), as it is on upload: after a power loss the file can be back with nothing left to
  retry. `NoStrayFile` therefore excepts the step of the power loss.
- Publication is meant to survive a crash: `storeAttachmentFile` syncs the final directory before it
  marks the row (`attachments.service.ts:589`), and recovery syncs it again as evidence (line 924).
  `openEntityDirectoryChain` makes a new shard directory without a sync of its parent (1148-1152), so
  the first files of a shard can go with it in a power failure, the rows published and active.
  `PublishedFileIsSafe` and `LinkedIsRetained` say so: a file is as safe as its shard (`anchored`).
- A comment in `addVersion` (`work-logs.service.ts:349`) says that conflicts must end in a 409. It
  inserts its version before its CAS: when another `addVersion` and a submission commit after its
  first look at the log, the insertion meets the trigger `work_log_version_insert_guard`, whose error 23514
  `isConcurrencyError` (590-597) does not know, and the request ends in a 500. Nothing is
  written. `TriggersRefuseOnlyOvertaken` says that this is the only such sequence.
- Recovery codes are called single-use (`mfa.service.ts:28`, `auth.service.ts:202`).
  `verifyRecoveryCode` finds a code with `usedAt` null and marks it by its id (`mfa.service.ts:110-119`), so
  two logins at the same time can both use it. `SpentCodesDrain` is what does hold: only
  those that had found it before.
- `ProjectForm` sends `customerId || null` with the version of the row it shows
  (`projects/[projectId]/edit/page.tsx:80,87`). `CustomersService.create` binds a customer to the project
  and leaves the version (`customers.service.ts:247-254`): a page loaded before saves without a
  conflict and takes the customer away again. The project is therefore one of the `Unversioned` records that
  `FollowingFormsReplaceWhatTheyShow` does not speak of.
- The work-log page says that all its writes carry the version the server has given
  (`worklogs/[workLogId]/page.tsx:138`). `submitWorkLog` and `addWorkLogVersion` carry none,
  nor do their endpoints take one.
- Its draft form takes its values once, when it opens, but the token from the row as it is when
  the draft is saved: after a refetch the values may be older than the token. The forms of
  contacts and of order items are built the same way. The forms of customers, orders and
  projects are set again when the row changes; `FollowingFormsReplaceWhatTheyShow` is about those of
  customers and orders. `Designs` in `EditPages` has both kinds.
- An invitation that has expired stays PENDING and keeps its address from being invited again
  (`invitations.service.ts:66`); nothing promises otherwise.
- `MfaService.enable` turns the second factor on by user id after its checks
  (`mfa.service.ts:90`); a `disable` in between leaves it on without a secret. `Accounts` has the
  interleaving; nothing promises otherwise.
- Portfolios have no version: of two updates the last wins, silently.

## 6. What is not modelled

Reads that change nothing (lists, details, most reports), audit rows, response shapes,
validation of formats, crypto and configuration: no state that a property speaks about.
The fields of orders, items, customers and contacts that no check reads are stored as they
are sent; the API computes nothing from them. Of the storage layer, the checks of directories against symbolic links are left out: they
concern what others do to the volume. Of the front end, pages that do not edit a
record. The scripts that dump and restore the database wrap `pg_dump` and `pg_restore`. Nothing in
the API suspends an account, so all accounts are active.

A liveness property of reviews is not stated, because there is none: when the approver leaves
the project nobody can decide, reassign or withdraw the request.

## 7. Plan

Done, in this order: project access and members; work logs and approvals with their
abstract record; attachments of work logs; the inductive invariant of work logs; the storage of
attachments under crashes, power loss and restore; backups taken under load and their
publication; orders; customers, contacts and portfolios; pages that edit; accounts; reports and
business days; the proofs about members, orders, customers, pages, accounts and business days;
the drill-down; the refinement of `ReviewRecord`, and the proofs about attachments, their files,
backup and restore, and reports; sums over finite sets, the end of retries, and work logs under
restarts.

To do:

1. Creation pages and file uploads of the front end, where an answer that is lost leaves a record
   behind.
