---------------------------- MODULE MCCrawlPacing ----------------------------
(***************************************************************************)
(* Three fetches to one host and one to another.                           *)
(***************************************************************************)
EXTENDS CrawlPacing, TLC

CONSTANTS h1, h2, f1, f2, f3, f4

TwoHosts == {h1, h2}
FourFetches == {f1, f2, f3, f4}
TwoServers == [f \in FourFetches |-> IF f = f4 THEN h2 ELSE h1]
SameServer == Permutations({f1, f2, f3})
=============================================================================
