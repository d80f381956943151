----------------------------- MODULE Intercore -----------------------------
(***************************************************************************)
(* The two queues of src/intercore.c with the messages of intercore.h that *)
(* travel in them.  A message is its id and its data byte; the data of an  *)
(* input packs the port (low two bits) and the input counter (the rest).   *)
(***************************************************************************)
EXTENDS Integers, FiniteSets

CONSTANTS
  QueueLen,     \* INTERCORE_QUEUE_LEN
  NumPorts,     \* the four GameCube ports
  NumSlots,     \* the four connection slots of Bluepad32
  CounterMod,   \* what the input counter is reduced by: 0b111111
  NoMsg, NoPad

VARIABLES core0_queue, core0_write_idx, core0_last_msg, core1_queue

core0Vars == <<core0_queue, core0_write_idx, core0_last_msg>>

Ports == 0 .. NumPorts - 1
Slots == 0 .. NumSlots - 1
Counters == 0 .. CounterMod - 1

IC_MSG_CONNECT(p) == [id |-> "CONNECT", port |-> p, counter |-> 0]
IC_MSG_DISCONNECT(p) == [id |-> "DISCONNECT", port |-> p, counter |-> 0]
IC_MSG_INPUT_NoCounter(p, c) == [id |-> "INPUT", port |-> p, counter |-> 0]
IC_MSG_INPUT(p, c) == [id |-> "INPUT", port |-> p, counter |-> c]

\* The data of a rumble message, as the set of its bits that are one.
IC_MSG_RUMBLE(bits) == [id |-> "RUMBLE", bits |-> bits]

Core0Inputs == {IC_MSG_INPUT(p, c) : p \in Ports, c \in Counters}
Core0Msgs == Core0Inputs \cup {IC_MSG_CONNECT(p) : p \in Ports}
                         \cup {IC_MSG_DISCONNECT(p) : p \in Ports}
RumbleBits == 0 .. NumPorts - 1
Core1Msgs == {IC_MSG_RUMBLE(bits) : bits \in SUBSET RumbleBits}

\* A gamepad state is told apart by the port it was reported for and the input
\* it was reported with.
GamepadStates == [port : Ports, counter : Counters]

ASSUME IntercoreAssumption ==
  /\ QueueLen \in Nat \ {0} /\ NumPorts \in Nat \ {0} /\ NumSlots \in Nat
  /\ CounterMod \in Nat /\ CounterMod > 1
  /\ NoMsg \notin Core0Msgs \cup Core1Msgs /\ NoPad \notin GamepadStates

INSTANCE Core0Queue WITH
  Msgs <- Core0Msgs, InputMsgs <- Core0Inputs, Pads <- GamepadStates

INSTANCE Core1Queue WITH RumbleMsgs <- Core1Msgs
=============================================================================
