\* Power loss but while credentials and roots are stored or erased; NVS writes succeed.
\* Wrong entries, failing Wi-Fi and time sync, lost answers, the form sent again.
\* A board whose start failed parks: it may stop.
CONSTANTS
  n1 = n1
  n2 = n2
  right = right
  wrong = wrong
  Submissions <- AnyEntry
  Joinable <- OnlyRight
  MaxDevices = 2
  MaxDraws = 6
  None = None
  Faults = {"power_loss", "factory_reset", "answer_loss", "wifi", "late_submit"}
SPECIFICATION FairSpec
INVARIANTS IdentityIsWhole VersionsAreOurs
PROPERTIES BoardEnrols
CHECK_DEADLOCK FALSE
