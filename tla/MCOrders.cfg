SPECIFICATION Spec
CONSTANTS
  ann = ann
  Users = {ann}
  Creator = ann
  Managing = {ann}
  Assignable <- OneManager
  Orders = {o1}
  Items = {i1}
  Requests = {r1, r2}
  Days = {1, 2}
  NoDate = NoDate
  NoItem = NoItem
  NoOrder = NoOrder
  Drafts <- SomeDrafts
  Patches <- SomePatches
  ItemStatuses = {"PENDING"}
  Attempts = 2
  MaxVersion = 4
SYMMETRY Symmetry
INVARIANT DatesStayOrdered
PROPERTIES StatusMovesForward ImplementsVersionedResource
CHECK_DEADLOCK FALSE
