\* Power loss between the two namespaces of a factory reset.
CONSTANTS
  n1 = n1
  n2 = n2
  right = right
  wrong = wrong
  Submissions <- OnlyRight
  Joinable <- OnlyRight
  MaxDevices = 2
  MaxDraws = 6
  None = None
  Faults = {"factory_reset", "erase_loss"}
SPECIFICATION Spec
INVARIANTS VersionsAreOurs
CHECK_DEADLOCK FALSE
