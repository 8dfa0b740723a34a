SPECIFICATION Spec
CONSTANTS
  w1 = w1  w2 = w2  a = a
  Writers <- TwoWriters
  Pages <- OnePage
  Contents = {1, 2}
  None = None
  MaxEdits = 1
  MaxPublished = 2
  MaxFaults = 1
SYMMETRY AnyWriter
INVARIANTS HalvesAgree UnchangedIsHeldWhenAgreed
PROPERTIES PublishCompletes NothingForgotten
CHECK_DEADLOCK FALSE
