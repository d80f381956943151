----------------------------- MODULE CommsTask -----------------------------
(***************************************************************************)
(* The part of gamecube_comms_task (src/gamecube.c) that talks to core 1:  *)
(* one pass of the main loop of core 0 takes at most one message and acts  *)
(* on it, then collects the rumble bits and, every 16 ms, reports them.    *)
(* The two halves are a step each, in turn: core 1 and the interrupt       *)
(* handler that stores the rumble bits run between them.                   *)
(***************************************************************************)
EXTENDS Intercore

VARIABLES
  core0msg,        \* core0msg
  gc_connected,    \* the ports with _joybus_state[].connected
  gc_rumble,       \* the ports with _joybus_state[].rumble
  _out_buffer,     \* _out_buffer: the gamepad state each port answers with
  newrumblestate,  \* newrumblestate, as the set of its one bits
  currentrumble,   \* currentrumble, as the set of its one bits
  half             \* the half of the pass that comes next

commsVars == <<core0msg, gc_connected, gc_rumble, _out_buffer,
               newrumblestate, currentrumble, half>>

CommsTypeOK ==
  /\ core0msg \in [msg : Core0Msgs \cup {NoMsg}, gp : GamepadStates \cup {NoPad}]
  /\ gc_connected \in SUBSET Ports
  /\ gc_rumble \in SUBSET Ports
  /\ _out_buffer \in [Ports -> GamepadStates \cup {NoPad}]
  /\ newrumblestate \in SUBSET RumbleBits
  /\ currentrumble \in SUBSET RumbleBits
  /\ half \in {"messages", "rumble"}

CommsInit ==
  /\ core0msg = [msg |-> NoMsg, gp |-> NoPad]
  /\ gc_connected = {}
  /\ gc_rumble = {}
  /\ _out_buffer = [p \in Ports |-> NoPad]
  /\ newrumblestate = {}
  /\ currentrumble = {}
  /\ half = "messages"

Then(this, next) == half = this /\ half' = next

-----------------------------------------------------------------------------
\* The rumble bit survives until the port is connected again.
_message_handle_connect(p, connected) ==
  IF connected
  THEN /\ gc_connected' = gc_connected \cup {p}
       /\ gc_rumble' = IF p \in gc_connected THEN gc_rumble ELSE gc_rumble \ {p}
  ELSE /\ gc_connected' = gc_connected \ {p}
       /\ UNCHANGED gc_rumble

\* Whether the port is connected is not asked.
_message_handle_input(p, gp) ==
  /\ _out_buffer' = [_out_buffer EXCEPT ![p] = gp]
  /\ UNCHANGED <<gc_connected, gc_rumble>>

Dispatch(out) ==
  \/ /\ out.msg.id = "CONNECT"
     /\ _message_handle_connect(out.msg.port, TRUE)
     /\ UNCHANGED _out_buffer
  \/ /\ out.msg.id = "DISCONNECT"
     /\ _message_handle_connect(out.msg.port, FALSE)
     /\ UNCHANGED _out_buffer
  \/ /\ out.msg.id = "INPUT"
     /\ _message_handle_input(out.msg.port, out.gp)

\* The message half of a pass, when there is a message.
comms_task_message(i) ==
  /\ Then("messages", "rumble")
  /\ core0_get_message_safe(i)
  /\ core0msg' = CopiedOut(core0msg, i)
  /\ Dispatch(core0msg')
  /\ UNCHANGED <<newrumblestate, currentrumble>>

comms_task_no_message ==
  /\ Then("messages", "rumble")
  /\ Core0Empty
  /\ UNCHANGED <<core0Vars, core0msg, gc_connected, gc_rumble, _out_buffer,
                 newrumblestate, currentrumble>>

-----------------------------------------------------------------------------
SampleBit(p) == NumPorts - 1 - p
Collected == newrumblestate \cup {SampleBit(p) : p \in gc_rumble}

\* The rumble half of a pass within the 16 ms.
comms_task_collect ==
  /\ Then("rumble", "messages")
  /\ newrumblestate' = Collected
  /\ UNCHANGED <<core1_queue, core0msg, gc_connected, gc_rumble, _out_buffer,
                 currentrumble>>

\* The rumble half of a pass when the 16 ms are over.  currentrumble is
\* updated whatever becomes of the message.
Reported_OnlyBefore == currentrumble
Reported == Collected
comms_task_report ==
  /\ Then("rumble", "messages")
  /\ IF currentrumble # Collected
     THEN core1_send_message_safe(IC_MSG_RUMBLE(Collected))
     ELSE UNCHANGED core1_queue
  /\ currentrumble' = Reported
  /\ newrumblestate' = {}
  /\ UNCHANGED <<core0msg, gc_connected, gc_rumble, _out_buffer>>

\* The interrupt handler answers a poll of the console and stores its rumble
\* bit.  Ports that are not connected are not read.
console_poll(p, rumble) ==
  /\ p \in gc_connected
  /\ gc_rumble' = IF rumble THEN gc_rumble \cup {p} ELSE gc_rumble \ {p}
  /\ UNCHANGED <<core0msg, gc_connected, _out_buffer, newrumblestate,
                 currentrumble, half>>
=============================================================================
