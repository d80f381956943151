-------------------------- MODULE Core0QueueProofs --------------------------
(***************************************************************************)
(* What MCCore0Queue checks on a ring of three slots, proved for every     *)
(* length of the ring, every set of messages and gamepad states and every  *)
(* number of sends.  SlotLaps is the strengthening all the rest needs: it  *)
(* says which message each slot holds, so that the proofs can tell which   *)
(* one a send destroys and which ones a get leaves behind.                 *)
(***************************************************************************)
EXTENDS Core0QueueSpec, TLAPS

\* The wrap-around of the write index, without the remainder.
LEMMA NextIdxValue ==
  ASSUME NEW w \in SlotIdx
  PROVE  NextIdx(w) = IF w + 1 = QueueLen THEN 0 ELSE w + 1
<1>1. QueueLen \in Nat /\ QueueLen > 0  BY QueueLenAssumption
<1>2. w \in Nat /\ w + 1 <= QueueLen  BY <1>1 DEF SlotIdx
<1>3. CASE w + 1 = QueueLen
  <2>1. QueueLen % QueueLen = 0  BY <1>1
  <2> QED  BY <2>1, <1>3, <1>2 DEF NextIdx
<1>4. CASE w + 1 < QueueLen
  <2>1. (w + 1) % QueueLen = w + 1  BY <1>1, <1>2, <1>4
  <2> QED  BY <2>1, <1>4, <1>2 DEF NextIdx
<1> QED  BY <1>1, <1>2, <1>3, <1>4

\* Type correctness of the queue and of its history.
THEOREM TypeCorrect == Spec => []TypeOK
<1> USE DEF SlotIdx, SlotRecord, Core0QueueTypeOK
<1>1. Init => TypeOK
  BY QueueLenAssumption DEF Init, Core0QueueInit, TypeOK
<1>2. TypeOK /\ [Next]_vars => TypeOK'
  <2> SUFFICES ASSUME TypeOK, [Next]_vars PROVE TypeOK'
    OBVIOUS
  <2>1. ASSUME NEW m \in Msgs, NEW gp \in PadsOf(m), Send(m, gp)
        PROVE  TypeOK'
    <3>1. core0_write_idx' \in SlotIdx
      <4>1. core0_write_idx \in SlotIdx  BY DEF TypeOK
      <4>2. core0_write_idx' = IF core0_write_idx + 1 = QueueLen THEN 0
                                                     ELSE core0_write_idx + 1
        BY <4>1, <2>1, NextIdxValue DEF Send, core0_accept
      <4> QED  BY <4>1, <4>2, QueueLenAssumption
    <3>2. gp \in Pads \cup {NoPad}
      BY DEF PadsOf
    <3>3. core0_queue' \in [SlotIdx -> SlotRecord]
      BY <2>1, <3>2 DEF TypeOK, Send, core0_accept, Written
    <3>4. sent' \in Seq([msg : Msgs, gp : Pads \cup {NoPad}])
      BY <2>1, <3>2 DEF TypeOK, Send
    <3>5. stamp' \in [SlotIdx -> Nat]
      <4>1. Len(sent) + 1 \in Nat  BY DEF TypeOK
      <4> QED  BY <4>1, <2>1 DEF TypeOK, Send
    <3> QED  BY <2>1, <3>1, <3>3, <3>4, <3>5 DEF TypeOK, Send, core0_accept
  <2>2. ASSUME NEW i \in SlotIdx, Get(i)
        PROVE  TypeOK'
    <3>1. core0_queue' \in [SlotIdx -> SlotRecord]
      BY <2>2 DEF TypeOK, Get, core0_get_message_safe
    <3>2. core0msg' \in [msg : Msgs \cup {NoMsg}, gp : Pads \cup {NoPad}]
      BY <2>2 DEF TypeOK, Get, CopiedOut
    <3>3. stamp[i] \in Nat
      BY DEF TypeOK
    <3> QED  BY <2>2, <3>1, <3>2, <3>3 DEF TypeOK, Get, core0_get_message_safe
  <2>3. CASE UNCHANGED vars
    BY <2>3 DEF TypeOK, vars, core0QueueVars, historyVars
  <2> QED  BY <2>1, <2>2, <2>3 DEF Next
<1> QED  BY <1>1, <1>2, PTL DEF Spec
-----------------------------------------------------------------------------
\* Numbers read off the places: below the write index they exceed LapStart,
\* from it on they do not, and within each part they grow with the index.
LEMMA StampOrder ==
  ASSUME TypeOK, SlotLaps, NEW i \in SlotIdx, stamp[i] > 0
  PROVE  /\ stamp[i] <= Accepted
         /\ i < core0_write_idx <=> LapStart < stamp[i]
         /\ i >= core0_write_idx => stamp[i] >= Accepted + 1 - QueueLen
         /\ i > core0_write_idx => stamp[i] > Accepted + 1 - QueueLen
         /\ i = core0_write_idx => stamp[i] = Accepted + 1 - QueueLen
         /\ \A j \in SlotIdx :
              stamp[j] > 0 /\ i < j /\ (i < core0_write_idx <=> j < core0_write_idx)
                => stamp[i] < stamp[j]
<1>1. QueueLen \in Nat /\ QueueLen > 0  BY QueueLenAssumption
<1>2. Accepted \in Nat  BY DEF TypeOK, Accepted
<1>3. core0_write_idx \in Nat /\ core0_write_idx < QueueLen
  BY <1>1 DEF TypeOK, Core0QueueTypeOK, SlotIdx
<1>4. LapStart \in Int /\ LapStart >= 0 /\ LapStart + core0_write_idx = Accepted
  BY <1>1, <1>2, <1>3 DEF SlotLaps, LapStart
<1>5. ASSUME NEW j \in SlotIdx, stamp[j] > 0
      PROVE  /\ j \in Nat /\ j < QueueLen
             /\ j < core0_write_idx => stamp[j] = LapStart + j + 1
             /\ j >= core0_write_idx => stamp[j] = LapStart - QueueLen + j + 1
  BY <1>1, <1>3, <1>5 DEF SlotLaps, SlotIdx
<1> QED  BY <1>1, <1>2, <1>3, <1>4, <1>5

\* No two slots hold the same message.
LEMMA StampsDistinct ==
  ASSUME TypeOK, SlotLaps,
         NEW i \in SlotIdx, NEW j \in SlotIdx, stamp[i] > 0, stamp[i] = stamp[j]
  PROVE  i = j
<1>1. i \in Int /\ j \in Int /\ core0_write_idx \in Int /\ stamp[i] \in Int /\ LapStart \in Int
  BY QueueLenAssumption DEF TypeOK, Core0QueueTypeOK, SlotIdx, LapStart, Accepted
<1>2. i < core0_write_idx <=> j < core0_write_idx
  BY StampOrder
<1>3. ~(i < j)
  BY <1>1, <1>2, StampOrder
<1>4. ~(j < i)
  BY <1>1, <1>2, StampOrder
<1> QED  BY <1>1, <1>3, <1>4

-----------------------------------------------------------------------------
\* What a send does to the counts: the next message number, and a new lap
\* when the write index wraps.
LEMMA SendCounts ==
  ASSUME TypeOK, SlotLaps, NEW m, NEW gp, Send(m, gp)
  PROVE  /\ Accepted' = Accepted + 1
         /\ core0_write_idx' = IF core0_write_idx + 1 = QueueLen THEN 0
                                                    ELSE core0_write_idx + 1
         /\ LapStart' = IF core0_write_idx + 1 = QueueLen THEN Accepted + 1
                                                         ELSE LapStart
<1>1. core0_write_idx \in SlotIdx  BY DEF TypeOK, Core0QueueTypeOK
<1>2. core0_write_idx \in Int  BY <1>1, QueueLenAssumption DEF SlotIdx
<1>3. Accepted' = Accepted + 1 /\ Accepted \in Nat  BY DEF Send, TypeOK, Accepted
<1>4. core0_write_idx' = IF core0_write_idx + 1 = QueueLen THEN 0
                                                 ELSE core0_write_idx + 1
  BY <1>1, NextIdxValue DEF Send, core0_accept
<1> QED  BY <1>2, <1>3, <1>4 DEF LapStart

\* The lap structure survives a send.
LEMMA SendKeepsLaps ==
  ASSUME TypeOK, SlotLaps, NEW m, NEW gp, Send(m, gp)
  PROVE  SlotLaps'
<1>1. QueueLen \in Nat /\ QueueLen > 0  BY QueueLenAssumption
<1>2. Accepted \in Nat  BY DEF TypeOK, Accepted
<1>3. core0_write_idx \in SlotIdx /\ core0_write_idx \in Nat /\ core0_write_idx < QueueLen
  BY <1>1 DEF TypeOK, Core0QueueTypeOK, SlotIdx
<1>4. LapStart \in Int /\ LapStart >= 0 /\ LapStart + core0_write_idx = Accepted
  BY <1>1, <1>2, <1>3 DEF SlotLaps, LapStart
<1>5. LapStart' = 0 \/ LapStart' >= QueueLen
  BY <1>1, <1>2, <1>3, <1>4, SendCounts DEF SlotLaps
<1>6. stamp' = [stamp EXCEPT ![core0_write_idx] = Accepted + 1]
  BY DEF Send, Accepted
<1>7. ASSUME NEW i \in SlotIdx
      PROVE  stamp'[i] = CASE i < core0_write_idx' -> LapStart' + i + 1
                           [] i >= core0_write_idx' /\ LapStart' > 0 -> LapStart' - QueueLen + i + 1
                           [] OTHER -> 0
  <2>1. i \in Nat /\ i < QueueLen  BY <1>1 DEF SlotIdx
  <2>2. stamp'[i] = IF i = core0_write_idx THEN Accepted + 1 ELSE stamp[i]
    BY <1>6 DEF TypeOK
  <2>3. i # core0_write_idx =>
          stamp[i] = IF i < core0_write_idx THEN LapStart + i + 1
                     ELSE IF LapStart > 0 THEN LapStart - QueueLen + i + 1 ELSE 0
    BY <1>3, <1>4, <2>1 DEF SlotLaps
  <2>4. CASE core0_write_idx + 1 = QueueLen
    <3>1. core0_write_idx' = 0 /\ LapStart' = Accepted + 1
      BY <2>4, SendCounts
    <3>2. stamp'[i] = LapStart' - QueueLen + i + 1
      <4>1. CASE i = core0_write_idx  BY <4>1, <3>1, <2>1, <2>2, <2>4, <1>2
      <4>2. CASE i < core0_write_idx
        BY <4>2, <3>1, <2>1, <2>2, <2>3, <2>4, <1>1, <1>2, <1>3, <1>4
      <4> QED  BY <4>1, <4>2, <2>1, <2>4, <1>1, <1>3
    <3> QED  BY <3>1, <3>2, <2>1, <1>2
  <2>5. CASE core0_write_idx + 1 # QueueLen
    BY <2>1, <2>2, <2>3, <2>5, <1>1, <1>2, <1>3, <1>4, SendCounts
  <2> QED  BY <2>4, <2>5
<1>8. ASSUME NEW i \in SlotIdx, core0_queue'[i].ready
      PROVE  stamp'[i] > 0
  <2>1. CASE i = core0_write_idx
    BY <1>2, <1>6, <2>1 DEF TypeOK
  <2>2. CASE i # core0_write_idx
    <3>1. core0_queue'[i] = core0_queue[i]
      BY <2>2 DEF Send, core0_accept, TypeOK, Core0QueueTypeOK
    <3>2. stamp'[i] = stamp[i]
      BY <1>6, <2>2 DEF TypeOK
    <3> QED  BY <1>8, <3>1, <3>2 DEF SlotLaps
  <2> QED  BY <2>1, <2>2
<1> QED  BY <1>5, <1>7, <1>8 DEF SlotLaps

\* The age of every message can be read off its place in the ring.
THEOREM LapsCorrect == Spec => []SlotLaps
<1>1. Init => SlotLaps
  <2> SUFFICES ASSUME Init PROVE SlotLaps
    OBVIOUS
  <2>1. LapStart = 0 /\ core0_write_idx = 0
    BY DEF Init, Core0QueueInit, LapStart, Accepted
  <2>2. \A i \in SlotIdx : i \in Nat /\ stamp[i] = 0 /\ core0_queue[i].ready = FALSE
    BY QueueLenAssumption DEF Init, Core0QueueInit, SlotIdx
  <2> QED  BY <2>1, <2>2 DEF SlotLaps
<1>2. TypeOK /\ SlotLaps /\ [Next]_vars => SlotLaps'
  <2> SUFFICES ASSUME TypeOK, SlotLaps, [Next]_vars PROVE SlotLaps'
    OBVIOUS
  <2>1. ASSUME NEW m \in Msgs, NEW gp \in PadsOf(m), Send(m, gp)
        PROVE  SlotLaps'
    BY <2>1, SendKeepsLaps
  <2>2. ASSUME NEW i \in SlotIdx, Get(i)
        PROVE  SlotLaps'
    <3>1. LapStart' = LapStart /\ stamp' = stamp /\ core0_write_idx' = core0_write_idx
      BY <2>2 DEF Get, core0_get_message_safe, LapStart, Accepted
    <3>2. \A j \in SlotIdx : core0_queue'[j].ready => core0_queue[j].ready
      BY <2>2 DEF Get, core0_get_message_safe, TypeOK, Core0QueueTypeOK, SlotRecord
    <3> QED  BY <3>1, <3>2 DEF SlotLaps
  <2>3. CASE UNCHANGED vars
    BY <2>3 DEF SlotLaps, LapStart, Accepted, vars, core0QueueVars, historyVars
  <2> QED  BY <2>1, <2>2, <2>3 DEF Next
<1> QED  BY <1>1, <1>2, TypeCorrect, PTL DEF Spec
-----------------------------------------------------------------------------
\* What a send does to the messages that wait: the new one joins them and the
\* one QueueLen older, if it still waits, is destroyed.
LEMMA SendPending ==
  ASSUME TypeOK, SlotLaps, NEW m, NEW gp, Send(m, gp)
  PROVE  Pending' = (Pending \cup {Accepted + 1}) \ {Accepted + 1 - QueueLen}
<1>1. QueueLen \in Nat /\ QueueLen > 0 /\ Accepted \in Nat
  BY QueueLenAssumption DEF TypeOK, Accepted
<1>2. core0_write_idx \in SlotIdx  BY DEF TypeOK, Core0QueueTypeOK
<1>3. stamp' = [stamp EXCEPT ![core0_write_idx] = Accepted + 1]
  BY DEF Send, Accepted
<1>4. \A j \in SlotIdx :
        /\ j = core0_write_idx => core0_queue'[j].ready /\ stamp'[j] = Accepted + 1
        /\ j # core0_write_idx => core0_queue'[j] = core0_queue[j] /\ stamp'[j] = stamp[j]
  BY <1>2, <1>3 DEF Send, core0_accept, Written, TypeOK, Core0QueueTypeOK
<1>5. \A j \in SlotIdx : core0_queue[j].ready => stamp[j] > 0
  BY DEF SlotLaps
<1>6. ASSUME NEW j \in SlotIdx, core0_queue[j].ready
      PROVE  stamp[j] = Accepted + 1 - QueueLen <=> j = core0_write_idx
  <2>1. stamp[j] > 0  BY <1>5, <1>6
  <2>2. stamp[j] \in Int /\ j \in Int /\ core0_write_idx \in Int /\ LapStart \in Int
    BY <1>1, <1>2 DEF TypeOK, SlotIdx, LapStart
  <2>3. j < core0_write_idx => stamp[j] > Accepted + 1 - QueueLen
    <3> HAVE j < core0_write_idx
    <3>1. LapStart < stamp[j]  BY <2>1, StampOrder
    <3>2. LapStart >= Accepted + 1 - QueueLen
      BY <1>1, <1>2, <2>2 DEF LapStart, SlotIdx
    <3> QED  BY <3>1, <3>2, <1>1, <2>2
  <2>4. /\ j > core0_write_idx => stamp[j] > Accepted + 1 - QueueLen
        /\ j = core0_write_idx => stamp[j] = Accepted + 1 - QueueLen
    BY <2>1, StampOrder
  <2> QED  BY <1>1, <2>2, <2>3, <2>4
<1>7. ASSUME NEW n \in Pending'
      PROVE  n \in (Pending \cup {Accepted + 1}) \ {Accepted + 1 - QueueLen}
  <2>1. PICK j \in SlotIdx : core0_queue'[j].ready /\ n = stamp'[j]
    BY <1>7 DEF Pending
  <2>2. CASE j = core0_write_idx
    BY <2>1, <2>2, <1>1, <1>4
  <2>3. CASE j # core0_write_idx
    BY <2>1, <2>3, <1>4, <1>6 DEF Pending
  <2> QED  BY <2>2, <2>3
<1>8. ASSUME NEW n \in (Pending \cup {Accepted + 1}) \ {Accepted + 1 - QueueLen}
      PROVE  n \in Pending'
  <2>1. CASE n = Accepted + 1
    BY <2>1, <1>2, <1>4 DEF Pending
  <2>2. CASE n \in Pending
    <3>1. PICK j \in SlotIdx : core0_queue[j].ready /\ n = stamp[j]
      BY <2>2 DEF Pending
    <3>2. j # core0_write_idx  BY <3>1, <1>6, <1>8
    <3> QED  BY <3>1, <3>2, <1>4 DEF Pending
  <2> QED  BY <1>8, <2>1, <2>2
<1> QED  BY <1>7, <1>8

\* What a get does to the messages that wait: the one it hands out leaves.
LEMMA GetPending ==
  ASSUME TypeOK, SlotLaps, NEW i \in SlotIdx, Get(i)
  PROVE  /\ stamp[i] \in Pending
         /\ Pending' = Pending \ {stamp[i]}
<1>1. core0_queue[i].ready /\ stamp' = stamp
  BY DEF Get, core0_get_message_safe, FirstReady
<1>2. stamp[i] > 0
  BY <1>1 DEF SlotLaps
<1>3. \A j \in SlotIdx : core0_queue'[j].ready <=> core0_queue[j].ready /\ j # i
  BY <1>1 DEF Get, core0_get_message_safe, TypeOK, Core0QueueTypeOK, SlotRecord
<1>4. \A j \in SlotIdx : stamp[i] = stamp[j] => i = j
  BY <1>2, StampsDistinct
<1> QED  BY <1>1, <1>3, <1>4 DEF Pending

-----------------------------------------------------------------------------
\* The numbers handed out are numbers that were given, none of them still
\* waits, and the rest were lapped.
DeliveryInv ==
  /\ TypeOK
  /\ SlotLaps
  /\ delivered \subseteq 1 .. Accepted
  /\ DeliveredOnce
  /\ LostOnlyWhenLapped

\* The three follow from the laps: a send destroys the message of its own slot,
\* which is the one QueueLen older.
LEMMA DeliveryInvHolds == Spec => []DeliveryInv
<1>1. Init /\ TypeOK /\ SlotLaps => DeliveryInv
  <2> SUFFICES ASSUME Init, TypeOK, SlotLaps PROVE DeliveryInv
    OBVIOUS
  <2>1. Accepted = 0 /\ delivered = {}
    BY DEF Init, Accepted
  <2> QED  BY <2>1 DEF DeliveryInv, DeliveredOnce, LostOnlyWhenLapped
<1>2. DeliveryInv /\ TypeOK' /\ SlotLaps' /\ [Next]_vars => DeliveryInv'
  <2> SUFFICES ASSUME DeliveryInv, TypeOK', SlotLaps', [Next]_vars
               PROVE  /\ delivered' \subseteq 1 .. Accepted'
                      /\ DeliveredOnce'
                      /\ LostOnlyWhenLapped'
    BY DEF DeliveryInv
  <2>0. TypeOK /\ SlotLaps /\ Accepted \in Nat /\ QueueLen \in Nat
    BY QueueLenAssumption DEF DeliveryInv, TypeOK, Accepted
  <2>1. ASSUME NEW m \in Msgs, NEW gp \in PadsOf(m), Send(m, gp)
        PROVE  /\ delivered' \subseteq 1 .. Accepted'
               /\ DeliveredOnce'
               /\ LostOnlyWhenLapped'
    <3>1. Accepted' = Accepted + 1  BY <2>0, <2>1, SendCounts
    <3>2. Pending' = (Pending \cup {Accepted + 1}) \ {Accepted + 1 - QueueLen}
      BY <2>0, <2>1, SendPending
    <3>3. delivered' = delivered  BY <2>1 DEF Send
    <3>4. delivered' \subseteq 1 .. Accepted'
      BY <2>0, <3>1, <3>3 DEF DeliveryInv
    <3>5. DeliveredOnce'
      <4>1. Accepted + 1 \notin delivered  BY <2>0 DEF DeliveryInv
      <4> QED  BY <4>1, <3>2, <3>3 DEF DeliveryInv, DeliveredOnce
    <3>6. LostOnlyWhenLapped'
      <4> SUFFICES ASSUME NEW n \in 1 .. Accepted'
                   PROVE  n \in delivered' \/ n \in Pending' \/ n <= Accepted' - QueueLen
        BY DEF LostOnlyWhenLapped
      <4>1. CASE n \in 1 .. Accepted
        <5>1. n \in delivered \/ n \in Pending \/ n <= Accepted - QueueLen
          BY <4>1 DEF DeliveryInv, LostOnlyWhenLapped
        <5> QED  BY <5>1, <4>1, <2>0, <3>1, <3>2, <3>3
      <4>2. CASE n = Accepted + 1
        BY <4>2, <2>0, <3>2, QueueLenAssumption
      <4> QED  BY <4>1, <4>2, <2>0, <3>1
    <3> QED  BY <3>4, <3>5, <3>6
  <2>2. ASSUME NEW i \in SlotIdx, Get(i)
        PROVE  /\ delivered' \subseteq 1 .. Accepted'
               /\ DeliveredOnce'
               /\ LostOnlyWhenLapped'
    <3>1. Accepted' = Accepted /\ delivered' = delivered \cup {stamp[i]}
      BY <2>2 DEF Get, Accepted
    <3>2. stamp[i] \in Pending /\ Pending' = Pending \ {stamp[i]}
      BY <2>0, <2>2, GetPending
    <3>3. stamp[i] \in 1 .. Accepted
      <4>1. core0_queue[i].ready  BY <2>2 DEF Get, core0_get_message_safe, FirstReady
      <4>2. stamp[i] > 0 /\ stamp[i] \in Nat
        BY <4>1, <2>0 DEF SlotLaps, TypeOK
      <4>3. stamp[i] <= Accepted  BY <4>2, <2>0, StampOrder
      <4> QED  BY <4>2, <4>3, <2>0
    <3> QED  BY <3>1, <3>2, <3>3 DEF DeliveryInv, DeliveredOnce, LostOnlyWhenLapped
  <2>3. CASE UNCHANGED vars
    <3>1. Accepted' = Accepted /\ Pending' = Pending /\ delivered' = delivered
      BY <2>3 DEF Accepted, Pending, vars, core0QueueVars, historyVars
    <3> QED  BY <3>1 DEF DeliveryInv, DeliveredOnce, LostOnlyWhenLapped
  <2> QED  BY <2>1, <2>2, <2>3 DEF Next
<1> QED  BY <1>1, <1>2, TypeCorrect, LapsCorrect, PTL DEF Spec

\* A message is lost for no other reason than being QueueLen messages late.
THEOREM LossIsLapping == Spec => []LostOnlyWhenLapped
<1>1. DeliveryInv => LostOnlyWhenLapped  BY DEF DeliveryInv
<1> QED  BY <1>1, DeliveryInvHolds, PTL

\* Core 0 never acts on one message twice.
THEOREM NoRepetition == Spec => []DeliveredOnce
<1>1. DeliveryInv => DeliveredOnce  BY DEF DeliveryInv
<1> QED  BY <1>1, DeliveryInvHolds, PTL

-----------------------------------------------------------------------------
\* The queue implements LossyMailbox: Accepted, LapStart and Pending, which
\* are functions of the ring and of its history, behave as the abstract
\* variables do.
THEOREM QueueImplementsMailbox == Spec => ImplementsMailbox
<1> USE DEF Mailbox!mailboxVars
<1>1. Init => Mailbox!Init
  <2> SUFFICES ASSUME Init PROVE Mailbox!Init
    OBVIOUS
  <2>1. Pending = {}
    BY DEF Init, Core0QueueInit, Pending
  <2> QED  BY <2>1 DEF Init, Core0QueueInit, Mailbox!Init, Accepted, LapStart
<1>2. TypeOK /\ SlotLaps /\ [Next]_vars => [Mailbox!Next]_(Mailbox!mailboxVars)
  <2> SUFFICES ASSUME TypeOK, SlotLaps, [Next]_vars
               PROVE  [Mailbox!Next]_(Mailbox!mailboxVars)
    OBVIOUS
  <2>0. Accepted \in Nat /\ QueueLen \in Nat /\ core0_write_idx \in Nat
    BY QueueLenAssumption DEF TypeOK, Core0QueueTypeOK, SlotIdx, Accepted
  <2>1. ASSUME NEW m \in Msgs, NEW gp \in PadsOf(m), Send(m, gp)
        PROVE  Mailbox!Accept
    <3>1. delivered' = delivered  BY <2>1 DEF Send
    <3>2. LapStart' = IF Accepted + 1 = LapStart + QueueLen THEN Accepted + 1 ELSE LapStart
      BY <2>0, <2>1, SendCounts DEF LapStart
    <3>3. Accepted' = Accepted + 1  BY <2>1, SendCounts
    <3>4. Pending' = (Pending \cup {Accepted + 1}) \ {Accepted + 1 - QueueLen}
      BY <2>1, SendPending
    <3> QED  BY <3>1, <3>2, <3>3, <3>4 DEF Mailbox!Accept
  <2>2. ASSUME NEW i \in SlotIdx, Get(i)
        PROVE  stamp[i] \in Pending /\ Mailbox!Deliver(stamp[i])
    <3>1. /\ Accepted' = Accepted
          /\ LapStart' = LapStart
          /\ delivered' = delivered \cup {stamp[i]}
      BY <2>2 DEF Get, core0_get_message_safe, Accepted, LapStart
    <3>2. stamp[i] \in Pending /\ Pending' = Pending \ {stamp[i]}
      BY <2>2, GetPending
    <3>3. ASSUME NEW n \in Pending, n < stamp[i]
          PROVE  n <= LapStart /\ LapStart < stamp[i]
      <4>1. PICK j \in SlotIdx : core0_queue[j].ready /\ n = stamp[j]
        BY <3>3 DEF Pending
      <4>2. stamp[i] > 0 /\ stamp[j] > 0
        BY <2>2, <4>1 DEF Get, core0_get_message_safe, FirstReady, SlotLaps
      <4>3. ~(j < i) /\ i # j
        BY <2>2, <3>3, <4>1, <4>2 DEF Get, core0_get_message_safe, FirstReady, TypeOK
      <4>4. i \in Nat /\ j \in Nat /\ stamp[i] \in Nat /\ stamp[j] \in Nat /\ LapStart \in Int
        BY <2>0 DEF TypeOK, SlotIdx, LapStart
      <4>5. /\ i < core0_write_idx <=> LapStart < stamp[i]
            /\ (i < core0_write_idx <=> j < core0_write_idx) => ~(i < j)
        BY <3>3, <4>1, <4>2, <4>4, StampOrder
      <4>6. j < core0_write_idx <=> LapStart < stamp[j]
        BY <4>2, StampOrder
      <4> QED  BY <2>0, <4>1, <4>3, <4>4, <4>5, <4>6
    <3> QED  BY <3>1, <3>2, <3>3 DEF Mailbox!Deliver
  <2>3. CASE UNCHANGED vars
    BY <2>3 DEF Accepted, LapStart, Pending, vars, core0QueueVars, historyVars
  <2> QED  BY <2>1, <2>2, <2>3 DEF Next, Mailbox!Next
<1> QED  BY <1>1, <1>2, TypeCorrect, LapsCorrect, PTL
      DEF Spec, ImplementsMailbox, Mailbox!Spec
-----------------------------------------------------------------------------
\* What the slots hold and what core 0 was handed last both match the history.
ContentInv == SlotContents /\ DeliversWhatWasSent

\* An accepted message is appended to the history, and the ones before stay.
LEMMA SendHistory ==
  ASSUME TypeOK, NEW m, NEW gp, Send(m, gp)
  PROVE  /\ Accepted' = Accepted + 1
         /\ sent'[Accepted + 1] = [msg |-> m, gp |-> gp]
         /\ \A n \in 1 .. Accepted : sent'[n] = sent[n]
BY DEF TypeOK, Send, Accepted

\* The two together are inductive: a get copies what its slot holds.
LEMMA ContentInvHolds == Spec => []ContentInv
<1>1. Init => ContentInv
  BY DEF Init, ContentInv, SlotContents, DeliversWhatWasSent
<1>2. TypeOK /\ ContentInv /\ [Next]_vars => ContentInv'
  <2> SUFFICES ASSUME TypeOK, ContentInv, [Next]_vars PROVE ContentInv'
    OBVIOUS
  <2>0. /\ Accepted \in Nat /\ last_got \in Nat
        /\ core0_write_idx \in SlotIdx
        /\ \A i \in SlotIdx : stamp[i] \in Nat
    BY DEF TypeOK, Core0QueueTypeOK, Accepted
  <2>1. ASSUME NEW m \in Msgs, NEW gp \in PadsOf(m), Send(m, gp)
        PROVE  ContentInv'
    <3>1. ASSUME NEW i \in SlotIdx, stamp'[i] > 0
          PROVE  /\ stamp'[i] <= Accepted'
                 /\ core0_queue'[i].msg = sent'[stamp'[i]].msg
                 /\ sent'[stamp'[i]].msg \in InputMsgs => core0_queue'[i].gp = sent'[stamp'[i]].gp
      <4>1. CASE i = core0_write_idx
        <5>1. stamp'[i] = Accepted + 1
          BY <4>1, <2>1, <2>0 DEF Send, TypeOK, Accepted
        <5>2. core0_queue'[i] = Written(core0_queue[i], m, gp)
          BY <4>1, <2>1, <2>0 DEF Send, core0_accept, TypeOK, Core0QueueTypeOK
        <5>3. /\ core0_queue'[i].msg = m
              /\ m \in InputMsgs => core0_queue'[i].gp = gp
          BY <5>2 DEF Written
        <5>4. sent'[Accepted + 1] = [msg |-> m, gp |-> gp] /\ Accepted' = Accepted + 1
          BY <2>1, SendHistory
        <5> QED  BY <5>1, <5>3, <5>4, <2>0
      <4>2. CASE i # core0_write_idx
        <5>1. stamp'[i] = stamp[i]
          BY <4>2, <2>1, <2>0 DEF Send, TypeOK
        <5>2. core0_queue'[i] = core0_queue[i]
          BY <4>2, <2>1, <2>0 DEF Send, core0_accept, TypeOK, Core0QueueTypeOK
        <5>3. stamp[i] \in 1 .. Accepted
          BY <3>1, <5>1, <2>0 DEF ContentInv, SlotContents
        <5>4. sent'[stamp[i]] = sent[stamp[i]]  BY <5>3, <2>1, SendHistory
        <5>5. Accepted' = Accepted + 1  BY <2>1, SendHistory
        <5> QED  BY <5>1, <5>2, <5>3, <5>4, <5>5, <2>0, <3>1 DEF ContentInv, SlotContents
      <4> QED  BY <4>1, <4>2
    <3>2. DeliversWhatWasSent'
      <4>1. core0msg' = core0msg /\ last_got' = last_got  BY <2>1 DEF Send
      <4>2. CASE last_got > 0
        <5>1. last_got \in 1 .. Accepted
          BY <4>2, <2>0 DEF ContentInv, DeliversWhatWasSent
        <5>2. sent'[last_got] = sent[last_got] /\ Accepted' = Accepted + 1
          BY <5>1, <2>1, SendHistory
        <5> QED  BY <4>1, <5>1, <5>2, <2>0 DEF ContentInv, DeliversWhatWasSent
      <4>3. CASE ~(last_got > 0)
        BY <4>1, <4>3 DEF DeliversWhatWasSent
      <4> QED  BY <4>2, <4>3
    <3> QED  BY <3>1, <3>2 DEF ContentInv, SlotContents
  <2>2. ASSUME NEW i \in SlotIdx, Get(i)
        PROVE  ContentInv'
    <3>1. /\ sent' = sent /\ stamp' = stamp /\ last_got' = stamp[i] /\ Accepted' = Accepted
          /\ core0msg' = CopiedOut(core0msg, i)
      BY <2>2 DEF Get, Accepted
    <3>2. \A j \in SlotIdx : /\ core0_queue'[j].msg = core0_queue[j].msg
                             /\ core0_queue'[j].gp = core0_queue[j].gp
      BY <2>2 DEF Get, core0_get_message_safe, TypeOK, Core0QueueTypeOK, SlotRecord
    <3>3. SlotContents'
      BY <3>1, <3>2 DEF ContentInv, SlotContents
    <3>4. DeliversWhatWasSent'
      BY <3>1 DEF ContentInv, SlotContents, DeliversWhatWasSent, CopiedOut
    <3> QED  BY <3>3, <3>4 DEF ContentInv
  <2>3. CASE UNCHANGED vars
    BY <2>3 DEF ContentInv, SlotContents, DeliversWhatWasSent, Accepted,
                vars, core0QueueVars, historyVars
  <2> QED  BY <2>1, <2>2, <2>3 DEF Next
<1> QED  BY <1>1, <1>2, TypeCorrect, PTL DEF Spec

\* A slot holds the message its number says, and the gamepad state an older
\* message left there is never taken for its own.
THEOREM SlotsHoldWhatWasSent == Spec => []SlotContents
<1>1. ContentInv => SlotContents  BY DEF ContentInv
<1> QED  BY <1>1, ContentInvHolds, PTL

\* Core 0 receives the messages core 1 sent, with the gamepad states they were
\* sent with.
THEOREM DeliveriesAreWhatWasSent == Spec => []DeliversWhatWasSent
<1>1. ContentInv => DeliversWhatWasSent  BY DEF ContentInv
<1> QED  BY <1>1, ContentInvHolds, PTL
=============================================================================
