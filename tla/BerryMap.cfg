CONSTANTS
  Keys <- MapKeys
  Values = {x, y}
  Hash <- HashOf
  NoKey = NoKey
SYMMETRY ValueSymmetry
SPECIFICATION Spec
INVARIANTS KeepsItsPromise RoomLeft
PROPERTY ForSeesAll
