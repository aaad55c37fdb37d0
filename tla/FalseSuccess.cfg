\* Power loss between set_pending_update and set_boot.
CONSTANTS
  f = f
  g = g
  p = p
  x = x
  m = m
  c1 = c1
  c2 = c2
  c3 = c3
  Images = {f, g, x}
  Factory = f
  Cosigned = {f, g}
  Panics = {}
  Mute = {}
  Cids = {c1, c2}
  ImageOf <- CosignedOrNot
  Erased = Erased
  None = None
  Faults = {"staging_loss"}
SPECIFICATION Spec
INVARIANTS SuccessIsTrue
