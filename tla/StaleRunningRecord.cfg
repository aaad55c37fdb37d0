\* A lost success report.
CONSTANTS
  f = f
  g = g
  p = p
  x = x
  m = m
  c1 = c1
  c2 = c2
  c3 = c3
  Images = {f, g, p}
  Factory = f
  Cosigned = {f, g, p}
  Panics = {p}
  Mute = {}
  Cids = {c1, c2, c3}
  ImageOf <- SoundPanicsFactory
  Erased = Erased
  None = None
  Faults = {"report_loss"}
SPECIFICATION Spec
INVARIANTS RunningRecordIsActive
