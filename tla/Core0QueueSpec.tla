--------------------------- MODULE Core0QueueSpec ---------------------------
(***************************************************************************)
(* The core 0 queue on its own: core 1 may send any message at any time    *)
(* and core 0 may ask for one at any time.  History variables number the   *)
(* accepted messages, so that what comes out can be compared with what     *)
(* went in, and the queue is shown to implement LossyMailbox.              *)
(***************************************************************************)
EXTENDS Core0Queue, Sequences

CONSTANT MaxSends   \* bound: how many messages core 1 gets accepted

ASSUME MaxSendsAssumption == MaxSends \in Nat

VARIABLES
  core0msg,    \* the caller's record of the gets, gamecube.c:580
  sent,        \* history: the accepted messages, in the order of acceptance
  stamp,       \* history: the number of the message each slot was last given
  delivered,   \* history: the numbers of the messages handed to core 0
  last_got     \* history: the number of the last of them, 0 for none

historyVars == <<sent, stamp, delivered, last_got>>
vars == <<core0QueueVars, core0msg, historyVars>>

Init ==
  /\ Core0QueueInit
  /\ core0msg = [msg |-> NoMsg, gp |-> NoPad]
  /\ sent = <<>>
  /\ stamp = [i \in SlotIdx |-> 0]
  /\ delivered = {}
  /\ last_got = 0

\* The records of IC_MSG_CONNECT and IC_MSG_DISCONNECT never hold a gamepad
\* state, my_platform.c:132 and :166.
PadsOf(m) == IF m \in InputMsgs THEN Pads ELSE {NoPad}

Send(m, gp) ==
  /\ Len(sent) < MaxSends
  /\ core0_accept(m, gp)
  /\ sent' = Append(sent, [msg |-> m, gp |-> gp])
  /\ stamp' = [stamp EXCEPT ![core0_write_idx] = Len(sent) + 1]
  /\ UNCHANGED <<core0msg, delivered, last_got>>

Get(i) ==
  /\ core0_get_message_safe(i)
  /\ core0msg' = CopiedOut(core0msg, i)
  /\ delivered' = delivered \cup {stamp[i]}
  /\ last_got' = stamp[i]
  /\ UNCHANGED <<sent, stamp>>

\* A repeat, and a get that finds nothing, change no state.
Next ==
  \/ \E m \in Msgs : \E gp \in PadsOf(m) : Send(m, gp)
  \/ \E i \in SlotIdx : Get(i)

Spec == Init /\ [][Next]_vars
FairSpec == Spec /\ WF_vars(\E i \in SlotIdx : Get(i))

-----------------------------------------------------------------------------
TypeOK ==
  /\ Core0QueueTypeOK
  /\ core0msg \in [msg : Msgs \cup {NoMsg}, gp : Pads \cup {NoPad}]
  /\ sent \in Seq([msg : Msgs, gp : Pads \cup {NoPad}])
  /\ stamp \in [SlotIdx -> Nat]
  /\ delivered \subseteq Nat
  /\ last_got \in Nat

Accepted == Len(sent)
LapStart == Accepted - core0_write_idx
Pending == {stamp[i] : i \in {j \in SlotIdx : core0_queue[j].ready}}

\* The age of a message can be read off its place: below the write index lie
\* the messages of the current lap in order, from it on those of the lap
\* before, or nothing at all in the first lap.  Laps and Overtakes rely on it,
\* and so does every statement about what the overwriting writer destroys.
SlotLaps ==
  /\ LapStart = 0 \/ LapStart >= QueueLen
  /\ \A i \in SlotIdx :
       stamp[i] = CASE i < core0_write_idx -> LapStart + i + 1
                    [] i >= core0_write_idx /\ LapStart > 0 -> LapStart - QueueLen + i + 1
                    [] OTHER -> 0
  /\ \A i \in SlotIdx : core0_queue[i].ready => stamp[i] > 0

\* Each slot holds the message its number says, and an input still has the
\* gamepad state it was sent with: the state left over by an older message of
\* the slot is never mistaken for it.
SlotContents ==
  \A i \in SlotIdx : stamp[i] > 0 =>
    /\ stamp[i] <= Accepted
    /\ core0_queue[i].msg = sent[stamp[i]].msg
    /\ sent[stamp[i]].msg \in InputMsgs => core0_queue[i].gp = sent[stamp[i]].gp

\* What core 0 receives is what core 1 sent, gamepad state included.
DeliversWhatWasSent ==
  last_got > 0 =>
    /\ last_got <= Accepted
    /\ core0msg.msg = sent[last_got].msg
    /\ core0msg.msg \in InputMsgs => core0msg.gp = sent[last_got].gp

\* A message that was accepted is delivered or still waits, unless core 1
\* has since got a whole ring of newer messages accepted.
LostOnlyWhenLapped ==
  \A n \in 1 .. Accepted : n \in delivered \/ n \in Pending \/ n <= Accepted - QueueLen

\* No message waits and is delivered at once: core 0 never acts on one twice.
DeliveredOnce == Pending \cap delivered = {}

Mailbox == INSTANCE LossyMailbox WITH
  Capacity <- QueueLen, accepted <- Accepted, lap_start <- LapStart,
  pending <- Pending

\* The queue keeps every promise of LossyMailbox: each get hands out a message
\* never handed out before, in order within a lap.
ImplementsMailbox == Mailbox!Spec

\* When core 0 keeps asking, a message does not wait for ever: it is
\* delivered, or it has been lapped.
EveryMessageSettles ==
  \A n \in 1 .. MaxSends : n \in Pending ~> n \notin Pending
=============================================================================
