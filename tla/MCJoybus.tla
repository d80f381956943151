------------------------------ MODULE MCJoybus ------------------------------
(* Commands of each length the handler tells apart.                            *)
EXTENDS Joybus

Origin == <<65>>
OriginExt == <<66, 0, 0>>
Poll == <<64, 3, 1>>
Swiss == <<29, 0, 0, 0, 0, 0, 0, 0, 0, 0, 0>>

MCCommands == {OriginExt, Poll, Swiss}
MCAnswered == {Origin, Poll}
=============================================================================
