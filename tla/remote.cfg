SPECIFICATION FairSpec
CONSTANTS
  a = a  b = b  r = r  i0 = i0  i1 = i1
  Publishers <- TwoPublishers
  Replicas <- OneReplica
  Images <- TwoImages
  Empty = i0
  None = None
  MaxGeneration = 2
  MaxFaults = 1
INVARIANTS HeadHasImage SeenIsHeld
PROPERTIES RegisterSpec LoadedOneWins ReplicasCatchUp
CHECK_DEADLOCK FALSE
