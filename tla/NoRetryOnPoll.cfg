\* A lost success report, and steady power after it.
CONSTANTS
  f = f
  g = g
  p = p
  x = x
  m = m
  c1 = c1
  c2 = c2
  c3 = c3
  Images = {f, g, p}
  Factory = f
  Cosigned = {f, g, p}
  Panics = {p}
  Mute = {}
  Cids = {c1, c2}
  ImageOf <- SoundOrPanics
  Erased = Erased
  None = None
  Faults = {"report_loss"}
SPECIFICATION FairSpec
PROPERTIES KeptPendingIsReported
