\* Power loss between the keys of save_creds.
CONSTANTS
  n1 = n1
  n2 = n2
  right = right
  wrong = wrong
  Submissions <- OnlyRight
  Joinable <- OnlyRight
  MaxDevices = 1
  MaxDraws = 4
  None = None
  Faults = {"power_loss", "creds_loss"}
SPECIFICATION Spec
INVARIANTS HaveCredsIsFull
CHECK_DEADLOCK FALSE
