\* Three roots that hand the keys over, the last too large to read back; any root at any path; failing NVS writes.
CONSTANTS
  Chained = FALSE
  RootKeys <- HandoverRootKeys
  RootThreshold <- HandoverThreshold
  RoleKeys <- HandoverRoleKeys
  Oversized = {3}
  RootLife = 2
  TimestampLife = 9
  FileLife = 9
  Seeded = FALSE
  MaxReleases = 1
  MaxTime = 4
  None = None
  Faults = {"nvs", "misplaced", "bad_clock"}
SPECIFICATION Spec
INVARIANTS WalkArrives NoRevokedKey
PROPERTIES TrustIsHandedOver
