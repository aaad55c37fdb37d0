\* Every report is answered: a sound image, one that panics, and back to the factory image.
CONSTANTS
  f = f
  g = g
  p = p
  x = x
  m = m
  c1 = c1
  c2 = c2
  c3 = c3
  Images = {f, g, p}
  Factory = f
  Cosigned = {f, g, p}
  Panics = {p}
  Mute = {}
  Cids = {c1, c2, c3}
  ImageOf <- SoundPanicsFactory
  Erased = Erased
  None = None
  Faults = {"set_boot", "bring_up"}
SPECIFICATION Spec
INVARIANTS RunningRecordIsActive
PROPERTIES NoReflash
