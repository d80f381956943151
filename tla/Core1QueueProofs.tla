-------------------------- MODULE Core1QueueProofs --------------------------
(***************************************************************************)
(* What MCCore1Queue checks on a table of three slots, proved for every    *)
(* number of slots, messages and stores.  Two invariants carry it:         *)
(* EachInItsSlot, that no message is in two slots or both waiting and      *)
(* delivered, and OneAtATime, that slot 0 is the only one ever used and    *)
(* holds the message written last while core 1 keeps up.                   *)
(***************************************************************************)
EXTENDS Core1QueueSpec, TLAPS, FiniteSetTheorems

\* The table has a slot 0.
LEMMA FirstSlot == 0 \in Core1SlotIdx /\ Core1SlotIdx \subseteq Nat
  BY Core1QueueAssumption DEF Core1SlotIdx

\* A slot that is waiting was given a number.
Numbered == \A i \in Waiting : stamp[i] # 0

\* Every step keeps the types and the numbers of the waiting slots.
LEMMA TypesStep == TypeOK /\ Numbered /\ [Next]_vars => TypeOK' /\ Numbered'
<1> SUFFICES ASSUME TypeOK, Numbered, [Next]_vars PROVE TypeOK' /\ Numbered'
  OBVIOUS
<1> USE DEF TypeOK, Core1QueueTypeOK
<1>1. ASSUME NEW m \in RumbleMsgs, NEW i \in Core1SlotIdx, Store(i, m)
      PROVE  TypeOK' /\ Numbered'
  <2>1. stored' = stored + 1 /\ stored' \in 0 .. MaxStores /\ stored \in 0 .. stored'
    BY <1>1, MaxStoresAssumption DEF Store
  <2>2. core1_queue' \in [Core1SlotIdx -> [msg : RumbleMsgs \cup {NoMsg}, ready : BOOLEAN]]
    BY <1>1 DEF Store, core1_store
  <2>3. stamp' \in [Core1SlotIdx -> 0 .. stored'] /\ delivered' \subseteq 1 .. stored'
        /\ last_got' \in 0 .. stored'
    BY <1>1, <2>1 DEF Store
  <2>4. kept_up' \in BOOLEAN
    BY <1>1 DEF Store
  <2>5. Numbered'
    BY <1>1, <2>1 DEF Store, core1_store, Numbered, Waiting
  <2>6. QED
    BY <1>1, <2>1, <2>2, <2>3, <2>4, <2>5 DEF Store
<1>2. ASSUME NEW m \in RumbleMsgs, Refuse(m)
      PROVE  TypeOK' /\ Numbered'
  <2>1. kept_up' \in BOOLEAN
    BY <1>2 DEF Refuse
  <2>2. QED
    BY <1>2, <2>1 DEF Refuse, core1_refuse, Numbered, Waiting
<1>3. ASSUME NEW i \in Core1SlotIdx, Get(i)
      PROVE  TypeOK' /\ Numbered'
  <2>1. i \in Waiting /\ stamp[i] \in 1 .. stored
    BY <1>3, MaxStoresAssumption DEF Get, core1_get_message_safe, FirstWaiting, Numbered
  <2>2. QED
    BY <1>3, <2>1 DEF Get, core1_get_message_safe, NoSend, Numbered, Waiting
<1>4. CASE UNCHANGED vars
  BY <1>4 DEF vars, Numbered, Waiting
<1>5. QED
  BY <1>1, <1>2, <1>3, <1>4 DEF Next

\* Type correctness of the table and of its history.
THEOREM TypeCorrect == Spec => []TypeOK
<1>1. Init => TypeOK /\ Numbered
  BY MaxStoresAssumption DEF Init, TypeOK, Core1QueueInit, Core1QueueTypeOK, NoSend, Numbered, Waiting
<1>2. QED
  BY <1>1, TypesStep, PTL DEF Spec

-----------------------------------------------------------------------------
EachInItsSlot ==
  /\ \A i \in Waiting : stamp[i] \in 1 .. stored
  /\ \A i, j \in Waiting : stamp[i] = stamp[j] => i = j
  /\ \A n \in 1 .. stored : n \in delivered <=> ~\E i \in Waiting : stamp[i] = n

\* A number is given once, and taken once.
LEMMA StoreKeepsSlots ==
  ASSUME TypeOK, EachInItsSlot, NEW m \in RumbleMsgs, NEW i \in Core1SlotIdx, Store(i, m)
  PROVE  EachInItsSlot'
<1>1. stored \in Nat /\ stored' = stored + 1 /\ delivered' = delivered /\ delivered \subseteq 1 .. stored
  BY MaxStoresAssumption DEF Store, TypeOK
<1>2. i \notin Waiting /\ Waiting' = Waiting \cup {i}
  BY DEF Store, core1_store, FirstFree, Waiting, TypeOK, Core1QueueTypeOK
<1>3. stamp'[i] = stored + 1 /\ \A j \in Waiting : stamp'[j] = stamp[j]
  BY <1>2 DEF Store, TypeOK, Waiting
<1>4. QED
  BY <1>1, <1>2, <1>3 DEF EachInItsSlot

LEMMA GetKeepsSlots ==
  ASSUME TypeOK, EachInItsSlot, NEW i \in Core1SlotIdx, Get(i)
  PROVE  EachInItsSlot'
<1>1. stored' = stored /\ stamp' = stamp /\ delivered' = delivered \cup {stamp[i]}
  BY DEF Get
<1>2. i \in Waiting /\ Waiting' = Waiting \ {i}
  BY DEF Get, core1_get_message_safe, FirstWaiting, Waiting, TypeOK, Core1QueueTypeOK
<1>3. QED
  BY <1>1, <1>2 DEF EachInItsSlot

\* The induction for EachInItsSlot.
LEMMA SlotsCorrect == Spec => []EachInItsSlot
<1>1. Init => EachInItsSlot
  BY DEF Init, Core1QueueInit, EachInItsSlot, Waiting
<1>2. TypeOK /\ EachInItsSlot /\ [Next]_vars => EachInItsSlot'
  <2> SUFFICES ASSUME TypeOK, EachInItsSlot, [Next]_vars PROVE EachInItsSlot'
    OBVIOUS
  <2>1. ASSUME NEW m \in RumbleMsgs, Refuse(m) PROVE EachInItsSlot'
    BY <2>1 DEF Refuse, core1_refuse, EachInItsSlot, Waiting
  <2>2. CASE UNCHANGED vars
    BY <2>2 DEF vars, EachInItsSlot, Waiting
  <2>3. QED
    BY <2>1, <2>2, StoreKeepsSlots, GetKeepsSlots DEF Next
<1>3. QED
  BY <1>1, <1>2, TypeCorrect, PTL DEF Spec

\* As many numbers wait as slots, for no two slots hold the same.
LEMMA OneSlotEach ==
  ASSUME TypeOK, EachInItsSlot
  PROVE  Cardinality(Pending) = Cardinality(Waiting)
<1> DEFINE f == [i \in Waiting |-> stamp[i]]
<1>1. IsFiniteSet(Waiting)
  <2>1. IsFiniteSet(Core1SlotIdx)
    BY FS_Interval, Core1QueueAssumption DEF Core1SlotIdx
  <2>2. Waiting \in SUBSET Core1SlotIdx
    BY DEF Waiting
  <2>3. QED
    BY <2>1, <2>2, FS_Subset
<1>2. f \in Bijection(Waiting, Pending)
  <2>1. f \in [Waiting -> Pending] /\ \A n \in Pending : \E i \in Waiting : f[i] = n
    BY DEF Pending
  <2>2. \A i, j \in Waiting : f[i] = f[j] => i = j
    BY DEF EachInItsSlot
  <2>3. QED
    BY <2>1, <2>2 DEF Bijection, Injection, IsInjective, Surjection
<1>3. ExistsBijection(Waiting, Pending)
  BY <1>2 DEF ExistsBijection
<1>4. QED
  BY <1>1, <1>3, FS_Bijection

\* No message that was stored is lost, doubled or handed out twice.
THEOREM StoredMessagesAreKept == Spec => []StoredIsKept
<1>1. TypeOK /\ EachInItsSlot => StoredIsKept
  <2> SUFFICES ASSUME TypeOK, EachInItsSlot PROVE StoredIsKept
    OBVIOUS
  <2>1. Pending \subseteq 1 .. stored /\ delivered \subseteq 1 .. stored
    BY DEF EachInItsSlot, Pending, TypeOK
  <2>2. \A n \in 1 .. stored : n \in delivered <=> n \notin Pending
    BY DEF EachInItsSlot, Pending
  <2>3. QED
    BY <2>1, <2>2, OneSlotEach DEF StoredIsKept
<1>2. QED
  BY <1>1, TypeCorrect, SlotsCorrect, PTL

-----------------------------------------------------------------------------
OneAtATime ==
  kept_up =>
    /\ Waiting \subseteq {0}
    /\ delivered = 1 .. last_got
    /\ IF Waiting = {} THEN last_got = stored ELSE last_got + 1 = stored /\ stamp[0] = stored
    /\ core1_queue[0].msg = last_written
    /\ outcome.result # "full"
    /\ outcome.result = "repeated" => outcome.msg = last_written

\* With no message waiting, the next goes to slot 0.
LEMMA StoreKeepsOrder ==
  ASSUME TypeOK, OneAtATime, NEW m \in RumbleMsgs, NEW i \in Core1SlotIdx, Store(i, m)
  PROVE  OneAtATime'
<1> SUFFICES ASSUME kept_up' PROVE OneAtATime'
  BY DEF OneAtATime
<1>1. kept_up /\ Waiting = {}
  BY DEF Store, Core1Empty
<1>2. i = 0
  <2>1. core1_queue[0].ready = FALSE
    BY <1>1, FirstSlot DEF Waiting, TypeOK, Core1QueueTypeOK
  <2>2. ~(0 < i)
    BY <2>1, FirstSlot DEF Store, core1_store, FirstFree
  <2>3. QED
    BY <2>2, FirstSlot
<1>3. Waiting' = {0} /\ core1_queue'[0].msg = m
  BY <1>1, <1>2, FirstSlot DEF Store, core1_store, Waiting, TypeOK, Core1QueueTypeOK
<1>4. stored \in Nat /\ stored' = stored + 1 /\ stamp'[0] = stored + 1
  BY <1>2, FirstSlot, MaxStoresAssumption DEF Store, TypeOK
<1>5. QED
  BY <1>1, <1>3, <1>4 DEF Store, OneAtATime

\* While core 1 keeps up, only a repeat is refused.
LEMMA RefuseKeepsOrder ==
  ASSUME TypeOK, OneAtATime, NEW m \in RumbleMsgs, Refuse(m)
  PROVE  OneAtATime'
<1> SUFFICES ASSUME kept_up' PROVE OneAtATime'
  BY DEF OneAtATime
<1>1. kept_up /\ Waiting = {}
  BY DEF Refuse, Core1Empty
<1>2. LooksRepeated(m)
  BY <1>1, FirstSlot DEF Refuse, core1_refuse, Core1Full
<1>3. core1_queue[0].msg = m /\ outcome' = [msg |-> m, result |-> "repeated"]
  BY <1>2 DEF LooksRepeated, core1_write_idx, Refuse
<1>4. QED
  BY <1>1, <1>3 DEF Refuse, core1_refuse, OneAtATime, Waiting

\* What is taken is the message of slot 0.
LEMMA GetKeepsOrder ==
  ASSUME TypeOK, OneAtATime, NEW i \in Core1SlotIdx, Get(i)
  PROVE  OneAtATime'
<1> SUFFICES ASSUME kept_up' PROVE OneAtATime'
  BY DEF OneAtATime
<1>1. kept_up /\ i \in Waiting /\ i = 0 /\ Waiting = {0}
  BY DEF Get, core1_get_message_safe, FirstWaiting, OneAtATime
<1>2. Waiting' = {} /\ core1_queue'[0].msg = core1_queue[0].msg
  BY <1>1, FirstSlot DEF Get, core1_get_message_safe, Waiting, TypeOK, Core1QueueTypeOK
<1>3. last_got \in Nat /\ last_got' = stored /\ stored' = stored /\ stored = last_got + 1
      /\ delivered' = delivered \cup {stored}
  BY <1>1, MaxStoresAssumption DEF Get, OneAtATime, TypeOK
<1>4. delivered' = 1 .. stored
  BY <1>1, <1>3 DEF OneAtATime
<1>5. QED
  BY <1>1, <1>2, <1>3, <1>4 DEF Get, OneAtATime, NoSend

\* The induction for OneAtATime.
LEMMA OrderCorrect == Spec => []OneAtATime
<1>1. Init => OneAtATime
  BY FirstSlot DEF Init, Core1QueueInit, OneAtATime, Waiting, NoSend
<1>2. TypeOK /\ OneAtATime /\ [Next]_vars => OneAtATime'
  <2> SUFFICES ASSUME TypeOK, OneAtATime, [Next]_vars PROVE OneAtATime'
    OBVIOUS
  <2>1. CASE UNCHANGED vars
    BY <2>1 DEF vars, OneAtATime, Waiting
  <2>2. QED
    BY <2>1, StoreKeepsOrder, RefuseKeepsOrder, GetKeepsOrder DEF Next
<1>3. QED
  BY <1>1, <1>2, TypeCorrect, PTL DEF Spec

\* While core 1 keeps up, messages arrive in the order they were stored in.
THEOREM OrderWhileKeptUp == Spec => []KeptUpInOrder
<1>1. OneAtATime => KeptUpInOrder
  BY DEF OneAtATime, KeptUpInOrder
<1>2. QED
  BY <1>1, OrderCorrect, PTL

\* While core 1 keeps up, only a repetition of the last message is dropped: the
\* comparison with slot 0 is then one with the message written last.
THEOREM DropsWhileKeptUp == Spec => []KeptUpDropsOnlyRepeats
<1>1. OneAtATime => KeptUpDropsOnlyRepeats
  BY DEF OneAtATime, KeptUpDropsOnlyRepeats
<1>2. QED
  BY <1>1, OrderCorrect, PTL
=============================================================================
