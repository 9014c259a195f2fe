SPECIFICATION AttSpec
CONSTANTS
  ann = ann
  ben = ben
  Users = {ann, ben}
  Creator = ann
  Managing = {ann}
  Assignable <- FixedRoles
  Logs = {log1}
  Requests = {p1}
  Texts = {t1}
  Decider = {}
  VisibilityManager = {}
  NoOne = NoOne
  NoText = NoText
  NotYet = NotYet
  MaxVersion = 2
  MaxToken = 6
  Attachments = {a1, a2}
  CleanupAttempts = 3
SYMMETRY Symmetry
INVARIANT BoundToSubmittedVersion
PROPERTIES EvidenceIsClosed NoResurrection
CHECK_DEADLOCK FALSE
