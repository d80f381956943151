--------------------------- MODULE Core1QueueSpec ---------------------------
(***************************************************************************)
(* The core 1 queue on its own: core 0 may send any message at any time    *)
(* and core 1 may ask for one at any time.  History variables number the   *)
(* stored messages and remember what became of the last send.              *)
(***************************************************************************)
EXTENDS Core1Queue, FiniteSets

CONSTANT MaxStores   \* bound: how many messages get stored

ASSUME MaxStoresAssumption == MaxStores \in Nat

VARIABLES
  core1msg,       \* the reader's record, my_platform.c:354
  stored,         \* history: how many messages were stored
  stamp,          \* history: the number of the message each slot was last given
  delivered,      \* history: the numbers of the messages handed to core 1
  last_got,       \* history: the number of the last of them
  last_written,   \* history: the message stored last
  outcome,        \* history: the last send and what became of it
  kept_up         \* history: every send so far found no message waiting

vars == <<core1_queue, core1msg, stored, stamp, delivered, last_got,
          last_written, outcome, kept_up>>

NoSend == [msg |-> NoMsg, result |-> "none"]

Init ==
  /\ Core1QueueInit
  /\ core1msg = NoMsg
  /\ stored = 0
  /\ stamp = [i \in Core1SlotIdx |-> 0]
  /\ delivered = {}
  /\ last_got = 0
  /\ last_written = NoMsg
  /\ outcome = NoSend
  /\ kept_up = TRUE

Store(i, m) ==
  /\ stored < MaxStores
  /\ core1_store(i, m)
  /\ stored' = stored + 1
  /\ stamp' = [stamp EXCEPT ![i] = stored + 1]
  /\ last_written' = m
  /\ outcome' = [msg |-> m, result |-> "stored"]
  /\ kept_up' = (kept_up /\ Core1Empty)
  /\ UNCHANGED <<core1msg, delivered, last_got>>

Refuse(m) ==
  /\ core1_refuse(m)
  /\ outcome' = [msg |-> m, result |-> IF LooksRepeated(m) THEN "repeated" ELSE "full"]
  /\ kept_up' = (kept_up /\ Core1Empty)
  /\ UNCHANGED <<core1msg, stored, stamp, delivered, last_got, last_written>>

Get(i) ==
  /\ core1_get_message_safe(i)
  /\ core1msg' = core1_queue[i].msg
  /\ delivered' = delivered \cup {stamp[i]}
  /\ last_got' = stamp[i]
  /\ outcome' = NoSend
  /\ UNCHANGED <<stored, stamp, last_written, kept_up>>

Next ==
  \/ \E m \in RumbleMsgs : (\E i \in Core1SlotIdx : Store(i, m)) \/ Refuse(m)
  \/ \E i \in Core1SlotIdx : Get(i)

Spec == Init /\ [][Next]_vars

-----------------------------------------------------------------------------
TypeOK ==
  /\ Core1QueueTypeOK
  /\ core1msg \in RumbleMsgs \cup {NoMsg}
  /\ stored \in 0 .. MaxStores
  /\ stamp \in [Core1SlotIdx -> 0 .. stored]
  /\ delivered \subseteq 1 .. stored
  /\ last_got \in 0 .. stored
  /\ last_written \in RumbleMsgs \cup {NoMsg}
  /\ outcome \in [msg : RumbleMsgs \cup {NoMsg},
                  result : {"none", "stored", "repeated", "full"}]
  /\ kept_up \in BOOLEAN

Pending == {stamp[i] : i \in Waiting}

\* A stored message is never destroyed: it waits in a slot of its own until it
\* is handed out, once (intercore.c:94-101 writes to free slots only, unlike
\* the ring of the other direction).
StoredIsKept ==
  /\ Pending \cup delivered = 1 .. stored
  /\ Pending \cap delivered = {}
  /\ Cardinality(Pending) = Cardinality(Waiting)

\* As long as core 1 picks every message up before the next is sent, messages
\* arrive in the order they were stored in: slot 0 is the only one in use.
KeptUpInOrder ==
  kept_up => /\ delivered = 1 .. last_got
             /\ Waiting \subseteq {0}

\* As long as core 1 keeps up, no send is dropped but a repetition of the
\* message written last, as intercore.c:90-91 says.
KeptUpDropsOnlyRepeats ==
  kept_up => /\ outcome.result # "full"
             /\ outcome.result = "repeated" => outcome.msg = last_written
=============================================================================
