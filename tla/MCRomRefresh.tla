---------------------------- MODULE MCRomRefresh ----------------------------
(* A phone that may be updated once, one archive, two days, and enough      *)
(* script runs for a READY report to be replaced.                           *)
EXTENDS RomRefresh, TLC
CONSTANTS b1, b2
MCTypedGates == {EditedGates(b, TRUE, a, TRUE) : b \in Builds, a \in Archives}
Interchangeable == Permutations(Builds)
=============================================================================
