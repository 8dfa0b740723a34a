SPECIFICATION Spec
CONSTANTS
  k1 = k1  k2 = k2  k3 = k3  v1 = v1  v2 = v2
  Keys <- ThreeKeys
  Hashes <- TwoHashes
  ETags <- OneTag
  Times <- TwoTimes
  Prefixes <- SomePrefixes
SYMMETRY Alike
INVARIANTS TypeOK Consistent
PROPERTY MapSpec
