SPECIFICATION Spec
CONSTANTS
  c1 = c1
  f1 = f1
  Users = {ann}
  Projects = {p1, p2}
  Customers = {c1, c2}
  Portfolios = {f1}
  Contacts = {k1}
  Members <- EverybodyIn
  Managers <- EverybodyIn
  None = None
  Drafts <- SomeDrafts
  Patches <- SomePatches
  Requests = {r1, r2}
  Attempts = 2
  MaxWrites = 5
SYMMETRY Symmetry
PROPERTIES UpdateKeepsWhatItChecked BindingIsReplacedByName UnclaimedForGood ImplementsVersionedResource
CHECK_DEADLOCK FALSE
