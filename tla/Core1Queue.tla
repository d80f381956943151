----------------------------- MODULE Core1Queue -----------------------------
(***************************************************************************)
(* The table of messages that core 0 (GameCube) writes and core 1          *)
(* (Bluetooth) reads: _core1_queue of src/intercore.c.  Each of the two    *)
(* functions runs under intercore_core1_mutex from its first line to its   *)
(* last, so each is one step.                                              *)
(*                                                                         *)
(* Unlike the other queue this one is no ring.  The writer takes the free  *)
(* slot of the lowest index, the reader the ready slot of the lowest       *)
(* index, and _core1_write_idx is never assigned.                          *)
(***************************************************************************)
EXTENDS Integers

CONSTANTS
  QueueLen,     \* INTERCORE_QUEUE_LEN
  RumbleMsgs,   \* the messages core 0 sends, all IC_MSG_RUMBLE
  NoMsg         \* the zero a slot holds before its first message

ASSUME Core1QueueAssumption == QueueLen \in Nat \ {0} /\ NoMsg \notin RumbleMsgs

VARIABLE core1_queue   \* _core1_queue

Core1SlotIdx == 0 .. QueueLen - 1

\* _core1_write_idx keeps its initial value for ever.
core1_write_idx == 0

Core1QueueTypeOK ==
  core1_queue \in [Core1SlotIdx -> [msg : RumbleMsgs \cup {NoMsg}, ready : BOOLEAN]]

Core1QueueInit ==
  core1_queue = [i \in Core1SlotIdx |-> [msg |-> NoMsg, ready |-> FALSE]]

Waiting == {i \in Core1SlotIdx : core1_queue[i].ready}
Core1Empty == Waiting = {}
Core1Full == Waiting = Core1SlotIdx

-----------------------------------------------------------------------------
(* core1_send_message_safe: called by core 0. *)

\* The message is compared with the one slot 0 was last given, whether or not
\* that was the message written last.
LooksRepeated(m) == core1_queue[core1_write_idx].msg = m

FirstFree_Any(i) == i \in Core1SlotIdx
FirstFree(i) == ~core1_queue[i].ready /\ \A j \in Core1SlotIdx : j < i => core1_queue[j].ready

core1_store(i, m) ==
  /\ ~LooksRepeated(m)
  /\ FirstFree(i)
  /\ core1_queue' = [core1_queue EXCEPT ![i] = [msg |-> m, ready |-> TRUE]]

\* The caller is not told.
core1_refuse(m) ==
  /\ LooksRepeated(m) \/ Core1Full
  /\ UNCHANGED core1_queue

core1_send_message_safe(m) ==
  (\E i \in Core1SlotIdx : core1_store(i, m)) \/ core1_refuse(m)

-----------------------------------------------------------------------------
(* core1_get_message_safe: called by core 1. *)

FirstWaiting_Any(i) == i \in Core1SlotIdx
FirstWaiting(i) == i \in Waiting /\ \A j \in Waiting : i <= j

\* The call that finds the message of slot i.
core1_get_message_safe_KeepsReady(i) == FirstWaiting(i) /\ UNCHANGED core1_queue
core1_get_message_safe(i) ==
  /\ FirstWaiting(i)
  /\ core1_queue' = [core1_queue EXCEPT ![i].ready = FALSE]
=============================================================================
