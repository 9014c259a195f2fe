SPECIFICATION Spec
CONSTANTS
  l1 = l1
  l2 = l2
  p1 = p1
  p2 = p2
  ann = ann
  bob = bob
  Zones <- Melbourne
  Dates = {1, 2, 3}
  Logs = {l1, l2}
  Projects = {p1, p2}
  Users = {ann, bob}
  ProjectOf <- TwoProjects
  AuthorOf <- TwoAuthors
  Instants <- Nights
  Versions <- TwoDates
  MaxVersions = 2
  RowLimit = 1
  DetailLimit = 1
INVARIANTS DecisionFallsInItsDay RangeIsItsDays ProjectsAddUp
CHECK_DEADLOCK FALSE
