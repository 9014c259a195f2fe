SPECIFICATION FairSpec
CONSTANTS
  ann = ann
  ben = ben
  cat = cat
  Users = {ann, ben}
  Creator = ann
  Managing = {ann, ben}
  Assignable <- AnyRole
  Requests = {r1, r2}
  Attempts = 3
  MaxProjectVersion = 3
INVARIANTS TypeOK ManagerRemains
PROPERTIES ChangesBuildOnEachOther ArchivedProjectDrains ImplementsProjectAccess EveryRequestIsAnswered
CHECK_DEADLOCK FALSE
