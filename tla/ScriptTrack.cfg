\* Power loss, failing flash and lost reports; bundles that break, fault or are not co-signed.
CONSTANTS
  a = a
  b = b
  d = d
  k = k
  m = m
  r = r
  Bundles = {a, d, k, m}
  Cosigned = {a, k, m}
  Broken = {k}
  Moody = {m}
  Runaway = {}
  Healthy = {a}
  MaxFaults = 2
  Torn = Torn
  None = None
  Faults = {"power_loss", "flash", "report_loss"}
SPECIFICATION FairSpec
INVARIANTS OnlyCosignedRuns HeaderCommits NoUseAfterFree WhatRunsIsStored ReportsAreTrue QuarantineIsEarned
PROPERTIES AssignedBundleTicks
