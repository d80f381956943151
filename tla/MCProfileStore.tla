--------------------------- MODULE MCProfileStore ---------------------------
(* Two pairs of controllers; the addresses of a pair end alike.              *)
EXTENDS ProfileStore, TLC

CONSTANTS a1, a2, b1, b2

MCMacs == {a1, a2, b1, b2}
MCSuffix == [m \in MCMacs |-> IF m \in {a1, a2} THEN "25AD66" ELSE "0102FF"]
MCSymmetry == Permutations({a1, a2}) \cup Permutations({b1, b2})
=============================================================================
