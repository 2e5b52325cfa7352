SPECIFICATION Spec
CONSTANTS
  Procs = {p1, p2, p3}
  Blocks = {b1, b2, b3}
  Vals = {v0, v1}
  NoBlock = NoBlock
  NoBuf = NoBuf
  NoData = NoData
  NUM = 7
  IDX = 7
SYMMETRY Symmetry
INVARIANTS TypeOK DescriptorsOwned UsedEntriesValid NoIdleDescriptors NoLostCompletion
PROPERTIES ImplementsBlockDevice
