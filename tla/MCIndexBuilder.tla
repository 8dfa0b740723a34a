--------------------------- MODULE MCIndexBuilder ---------------------------
(***************************************************************************)
(* Three pages with two versions each; prefixes select one page or all.    *)
(***************************************************************************)
EXTENDS IndexBuilder, TLC

CONSTANTS k1, k2, k3, v1, v2

ThreeKeys == {k1, k2, k3}
TwoHashes == {v1, v2}
OneTag    == {"none"}
TwoTimes  == 1..2
SomePrefixes == {{k1}, {k1, k2, k3}}
Alike == Permutations({v1, v2}) \cup Permutations({k2, k3})
=============================================================================
