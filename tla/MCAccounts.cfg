SPECIFICATION Spec
CONSTANTS
  ann = ann
  Emails = {e1, e2}
  Local <- SameLocal
  Invitations = {i1, i2}
  Sessions = {s1}
  Codes = {c1, c2}
  Requests = {r1, r2}
  None = None
  Mistaken = {"mfa"}
  SignsIn = {e1}
  MaxFailed = 2
  MaxCount = 3
  CodeCount = 1
SYMMETRY Symmetry
INVARIANT AccountsComeFromInvitations
PROPERTIES LockoutHolds RevocationIsFinal SpentCodesDrain
CHECK_DEADLOCK FALSE
