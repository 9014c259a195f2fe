SPECIFICATION Spec
CONSTANTS
  Attachments = {a1, a2}
  Contracts = {a1}
  Workers = {w1, w2}
  CleanupAttempts = 3
  BatchSize = 1
  PowerLoss = TRUE
SYMMETRY Symmetry
INVARIANTS TypeOK PublishedFileIsSafe
PROPERTIES NoStrayFile LinkedIsRetained
CHECK_DEADLOCK FALSE
