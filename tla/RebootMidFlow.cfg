\* A reboot after the Wi-Fi is stored and before the credentials are.
CONSTANTS
  n1 = n1
  n2 = n2
  right = right
  wrong = wrong
  Submissions <- OnlyRight
  Joinable <- OnlyRight
  MaxDevices = 1
  MaxDraws = 4
  None = None
  Faults = {"power_loss"}
SPECIFICATION FairSpec
PROPERTIES ResumesWithoutPortal
CHECK_DEADLOCK FALSE
