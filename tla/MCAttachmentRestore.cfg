SPECIFICATION RestoreSpec
CONSTANTS
  Attachments = {a1, a2}
  Contracts = {a1}
  Workers = {w1}
  CleanupAttempts = 2
  BatchSize = 1
  PowerLoss = FALSE
  MaxRestores = 1
SYMMETRY Symmetry
PROPERTIES ForeignFileIsLeftAlone ActivatedFileIsOwn BackedUpIsRestored
CHECK_DEADLOCK FALSE
