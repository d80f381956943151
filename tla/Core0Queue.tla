----------------------------- MODULE Core0Queue -----------------------------
(***************************************************************************)
(* The ring of messages that core 1 (Bluetooth) writes and core 0          *)
(* (GameCube) reads: _core0_queue of src/intercore.c.  Each of the two     *)
(* functions runs under intercore_core0_mutex from its first line to its   *)
(* last, so each is one step.                                              *)
(*                                                                         *)
(* The writer goes round the ring without looking whether the slot it      *)
(* overwrites was read.  The reader takes the ready slot of the lowest     *)
(* index, whatever its age.                                                *)
(***************************************************************************)
EXTENDS Integers

CONSTANTS
  QueueLen,    \* INTERCORE_QUEUE_LEN
  Msgs,        \* the 16-bit values of intercore_msg_s.msg: an id and its data
  InputMsgs,   \* those with the id IC_MSG_INPUT
  Pads,        \* the gamepad states that travel with an IC_MSG_INPUT
  NoMsg,       \* a msg field no message was stored in, and the 0xFFFF sentinel
  NoPad        \* a gp field no gamepad state was stored in

ASSUME QueueLenAssumption == QueueLen \in Nat \ {0}
ASSUME MsgsAssumption == InputMsgs \subseteq Msgs /\ NoMsg \notin Msgs

VARIABLES
  core0_queue,      \* _core0_queue
  core0_write_idx,  \* _core0_write_idx
  core0_last_msg    \* _core0_last_msg

core0QueueVars == <<core0_queue, core0_write_idx, core0_last_msg>>

SlotIdx == 0 .. QueueLen - 1

SlotRecord == [msg : Msgs \cup {NoMsg}, gp : Pads \cup {NoPad}, ready : BOOLEAN]

Core0QueueTypeOK ==
  /\ core0_queue \in [SlotIdx -> SlotRecord]
  /\ core0_write_idx \in SlotIdx
  /\ core0_last_msg \in Msgs \cup {NoMsg}

Core0QueueInit ==
  /\ core0_queue = [i \in SlotIdx |-> [msg |-> NoMsg, gp |-> NoPad, ready |-> FALSE]]
  /\ core0_write_idx = 0
  /\ core0_last_msg = NoMsg

-----------------------------------------------------------------------------
(* core0_send_message_safe: called by core 1. *)

NextIdx_NoWrap(i) == i + 1
NextIdx_Short(i) == (i + 1) % (QueueLen - 1)
NextIdx(i) == (i + 1) % QueueLen

\* The gamepad state is copied for an input only: any other message leaves in
\* the slot the state of an older message.
Written_NoPadCopy(slot, m, gp) == [msg |-> m, gp |-> slot.gp, ready |-> TRUE]
Written(slot, m, gp) ==
  [msg |-> m, gp |-> IF m \in InputMsgs THEN gp ELSE slot.gp, ready |-> TRUE]

\* Only the message accepted last is compared, and only its id and data.
IsRepeat_SlotMsg(m) == core0_queue[core0_write_idx].msg = m
IsRepeat(m) == core0_last_msg = m

core0_accept(m, gp) ==
  /\ ~IsRepeat(m)
  /\ core0_last_msg' = m
  /\ core0_queue' = [core0_queue EXCEPT ![core0_write_idx] = Written(@, m, gp)]
  /\ core0_write_idx' = NextIdx(core0_write_idx)

core0_send_message_safe(m, gp) ==
  \/ core0_accept(m, gp)
  \/ IsRepeat(m) /\ UNCHANGED <<core0_queue, core0_write_idx, core0_last_msg>>

-----------------------------------------------------------------------------
(* core0_get_message_safe: called by core 0. *)

\* i is the first ready slot of the scan from index 0.
FirstReady_Last(i) ==
  /\ core0_queue[i].ready
  /\ \A j \in SlotIdx : j > i => ~core0_queue[j].ready
FirstReady(i) ==
  /\ core0_queue[i].ready
  /\ \A j \in SlotIdx : j < i => ~core0_queue[j].ready

Core0Empty == \A i \in SlotIdx : ~core0_queue[i].ready

\* What the caller's record holds after slot i was copied to it: the gamepad
\* state only changes with an input.
CopiedOut_KeepsPad(out, i) == [msg |-> core0_queue[i].msg, gp |-> out.gp]
CopiedOut_OldId(out, i) ==
  [msg |-> core0_queue[i].msg,
   gp |-> IF out.msg \in InputMsgs THEN core0_queue[i].gp ELSE out.gp]
CopiedOut(out, i) ==
  [msg |-> core0_queue[i].msg,
   gp |-> IF core0_queue[i].msg \in InputMsgs THEN core0_queue[i].gp ELSE out.gp]

\* The call that finds the message of slot i.
core0_get_message_safe_KeepsReady(i) ==
  FirstReady(i) /\ UNCHANGED <<core0_queue, core0_write_idx, core0_last_msg>>
core0_get_message_safe(i) ==
  /\ FirstReady(i)
  /\ core0_queue' = [core0_queue EXCEPT ![i].ready = FALSE]
  /\ UNCHANGED <<core0_write_idx, core0_last_msg>>

-----------------------------------------------------------------------------
(* The age of the messages, read off their place: the writer fills the ring *)
(* upward, so the slots below the write index hold the current lap and      *)
(* those from the write index on hold the lap before it.                    *)

\* Taking slot i now leaves an older message behind.
Overtakes(i) == i < core0_write_idx /\ \E j \in SlotIdx :
                   j >= core0_write_idx /\ core0_queue[j].ready

\* Accepting a message now destroys one that was never read.
Laps == core0_queue[core0_write_idx].ready
=============================================================================
