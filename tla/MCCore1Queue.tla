---------------------------- MODULE MCCore1Queue ----------------------------
(* Three slots, three rumble states: enough for a message in slot 0 to be     *)
(* older than the last one written, and for the queue to fill.               *)
EXTENDS Core1QueueSpec

CONSTANTS state1, state2, state3

MCRumbleMsgs == {state1, state2, state3}
=============================================================================
