SPECIFICATION RestoreSpec
CONSTANTS
  Attachments = {a1}
  Contracts = {a1}
  Workers = {w1}
  CleanupAttempts = 3
  BatchSize = 1
  PowerLoss = FALSE
  MaxRestores = 1
SYMMETRY Symmetry
INVARIANT RestoredIsReadable
CHECK_DEADLOCK FALSE
