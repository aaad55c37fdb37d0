\* The Image repo: stale and mixed answers, new role keys, power loss at any step.
CONSTANTS
  Chained = TRUE
  RootKeys <- TwoRootKeys
  RootThreshold <- TwoThreshold
  RoleKeys <- NewRoleKeys
  Oversized = {}
  RootLife = 9
  TimestampLife = 1
  FileLife = 2
  Seeded = FALSE
  MaxReleases = 3
  MaxTime = 3
  None = None
  Faults = {}
SPECIFICATION FairSpec
INVARIANTS TypeOK OneRelease BoundedStaleness AcceptedNeverOlder
PROPERTIES CatchesUp
