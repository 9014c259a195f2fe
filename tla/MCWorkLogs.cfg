SPECIFICATION Spec
CONSTANTS
  ann = ann
  ben = ben
  t1 = t1
  t2 = t2
  p1 = p1
  p2 = p2
  Users = {ann, ben}
  Creator = ann
  Managing = {ann}
  Assignable <- ApproverOrMember
  Logs = {log1}
  Requests = {p1, p2}
  Texts = {t1, t2}
  Decider = {}
  VisibilityManager = {}
  NoOne = NoOne
  NoText = NoText
  MaxVersion = 2
  MaxToken = 6
SYMMETRY Symmetry
INVARIANTS TypeOK ReviewHistory OneOutcomePerRequest InFlight
PROPERTIES TriggersRefuseOnlyOvertaken TokenIdentifiesState StaleWriterChangesNothing ImplementsReviewRecord ArchivedProjectDrains
CHECK_DEADLOCK FALSE
