\* Failing NVS writes, Wi-Fi and time sync, lost answers, the form sent again, and power
\* loss anywhere but in a factory reset.
\* A board whose start failed parks: it may stop.
CONSTANTS
  n1 = n1
  n2 = n2
  right = right
  wrong = wrong
  Submissions <- RightOrWrongPass
  Joinable <- OnlyRight
  MaxDevices = 2
  MaxDraws = 5
  None = None
  Faults = {"power_loss", "creds_loss", "factory_reset", "nvs", "answer_loss", "wifi", "late_submit"}
SPECIFICATION Spec
INVARIANTS ProvisionedIsRegistered SerialNeverCollides
CHECK_DEADLOCK FALSE
