\* Every fault at once: what no power loss, NVS, flash or network failure may break.
CONSTANTS
  f = f
  g = g
  p = p
  x = x
  m = m
  c1 = c1
  c2 = c2
  c3 = c3
  Images = {f, g, x}
  Factory = f
  Cosigned = {f, g}
  Panics = {}
  Mute = {}
  Cids = {c1, c2}
  ImageOf <- CosignedOrNot
  Erased = Erased
  None = None
  Faults = {"staging_loss", "nvs", "set_boot", "mark_valid", "report_loss", "bring_up", "factory_reset"}
SPECIFICATION Spec
INVARIANTS TypeOK AlwaysBootable OnlyCosignedBoots TrialHasRecord
PROPERTIES ImplementsAB
