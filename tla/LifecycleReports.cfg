\* Reports and their answers may be lost; no power loss while a record is staged and no NVS failure.
CONSTANTS
  f = f
  g = g
  p = p
  x = x
  m = m
  c1 = c1
  c2 = c2
  c3 = c3
  Images = {f, g, p}
  Factory = f
  Cosigned = {f, g, p}
  Panics = {p}
  Mute = {}
  Cids = {c1, c2}
  ImageOf <- SoundOrPanics
  Erased = Erased
  None = None
  Faults = {"set_boot", "report_loss", "bring_up"}
SPECIFICATION FairSpec
INVARIANTS SuccessIsTrue RollbackIsTrue
PROPERTIES AssignmentConverges RollbackIsReported
