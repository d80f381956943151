------------------------------ MODULE MCAnswer ------------------------------
(* The modes with a layout of their own.                                       *)
EXTENDS Answer

MCModes == 0 .. 4
=============================================================================
