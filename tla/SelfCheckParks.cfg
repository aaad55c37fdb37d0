\* An image that boots and cannot reach the network.
CONSTANTS
  f = f
  g = g
  p = p
  x = x
  m = m
  c1 = c1
  c2 = c2
  c3 = c3
  Images = {f, g, m}
  Factory = f
  Cosigned = {f, g, m}
  Panics = {}
  Mute = {m}
  Cids = {c1, c2}
  ImageOf <- SoundOrMute
  Erased = Erased
  None = None
  Faults = {}
SPECIFICATION FairSpec
PROPERTIES FailedSelfCheckRollsBack
