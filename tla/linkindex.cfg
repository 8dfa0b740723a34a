SPECIFICATION Spec
CONSTANTS
  p1 = p1  p2 = p2  v1 = v1  v2 = v2
  Pages <- TwoPages
  Contents <- TwoContents
  NoTag = NoTag
  Blank = Blank
  NoIndex = NoIndex
  Images <- TwoImages
  Options <- ThreeOptions
  EmbedBatch = 2
  RefreshBatch = 1
  MaxYields = 3
  Horizon = 2
INVARIANTS ReadsCurrent NotModifiedConfirms Accounted ReportedIsSo
PROPERTY EvictionJustified
