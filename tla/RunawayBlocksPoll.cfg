\* The live bundle's loop() does not return and a new bundle is assigned.
CONSTANTS
  a = a
  b = b
  d = d
  k = k
  m = m
  r = r
  Bundles = {a, r}
  Cosigned = {a, r}
  Broken = {}
  Moody = {}
  Runaway = {r}
  Healthy = {}
  MaxFaults = 2
  Torn = Torn
  None = None
  Faults = {}
SPECIFICATION FairSpec
PROPERTIES PollLoopGoesOn
