---------------------------- MODULE MCConfigDrive ----------------------------
(* More controllers than slots, and more slots than files.                     *)
EXTENDS ConfigDrive, TLC

CONSTANTS a, b, c

MCMacs == {a, b, c}
MCSymmetry == Permutations(MCMacs)
=============================================================================
