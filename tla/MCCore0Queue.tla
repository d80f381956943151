---------------------------- MODULE MCCore0Queue ----------------------------
(* A ring of three slots, so that six messages lap it twice. *)
EXTENDS Core0QueueSpec

CONSTANTS connect, input1, input2, padA, padB

MCMsgs == {connect, input1, input2}
MCInputMsgs == {input1, input2}
MCPads == {padA, padB}
=============================================================================
