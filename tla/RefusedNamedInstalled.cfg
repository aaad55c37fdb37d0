\* A bundle that only the Director signs is refused, and reported.
CONSTANTS
  a = a
  b = b
  d = d
  k = k
  m = m
  r = r
  Bundles = {a, d}
  Cosigned = {a}
  Broken = {}
  Moody = {}
  Runaway = {}
  Healthy = {a}
  MaxFaults = 2
  Torn = Torn
  None = None
  Faults = {}
SPECIFICATION Spec
PROPERTIES InstalledIsStored
