------------------------- MODULE ProfileStoreProofs -------------------------
(***************************************************************************)
(* What MCProfileStore checks on three slots and four controllers, proved  *)
(* for every number of slots, files, ports and controllers. Consistent is  *)
(* the strengthening: next to the two properties it says what the call     *)
(* under way knows of the flash and of the static context of write_slot at *)
(* each of its steps (Knows). It holds of a call that no other one         *)
(* overlaps, which the theorems assume where they need it;                 *)
(* MCProfileStoreRace shows what happens otherwise.                        *)
(***************************************************************************)
EXTENDS ProfileStore, FiniteSetTheorems, NaturalsInduction, TLAPS

\* There are slots and ports, numbered from 0.
LEMMA Sizes ==
  /\ MAX_SLOTS \in Nat /\ MAX_SLOTS > 0 /\ NumPorts \in Nat /\ NumPorts > 0
  /\ 0 \in SlotIdx /\ 0 \in Ports /\ SlotIdx \subseteq Nat /\ Ports \subseteq Nat
  BY StoreAssumption DEF SlotIdx, Ports

\* A call that has begun is about a controller and holds a whole profile.
WellFormed(k) == k \in CallRecord /\ (k.pc # "idle" => k.mac \in Macs /\ k.rec \in Profile)
Typed == TypeOK /\ \A c \in Cores : WellFormed(call[c])

\* A core outside of a call is well formed.
LEMMA IdleFormed == WellFormed(Idle)
  BY Sizes DEF WellFormed, Idle, CallRecord, BlankProfile

\* The pcs from which a profile is written.
Writing == {"blank", "slot", "head", "tail", "lock", "erase", "program"}

PortsBelow(n) == {flash[j].gc_port : j \in {h \in SlotIdx : h < n /\ flash[h] # Erased}}
UsedPorts == {flash[j].gc_port : j \in {h \in SlotIdx : flash[h] # Erased}}
PortIsFree(p) == p \notin UsedPorts \/ (UsedPorts = Ports /\ p = 0)

\* What a call knows of the flash and of the context of write_slot at each of
\* its steps, when no other call changes them.
KnowsForget(k) ==
  /\ k.pc \in {"match", "lock", "erase"}
  /\ ~k.saving
  /\ k.pc # "match" => IsProfileOf(k.slot, k.mac)
KnowsScan(k) ==
  /\ k.pc # "match"
  /\ k.rec.mac = k.mac
  /\ k.pc = "find" => /\ \A j \in SlotIdx : j < k.i => ~IsProfileOf(j, k.mac)
                      /\ ~k.saving => k.used = {}
  /\ k.pc \in {"ports", "free"} => ~k.saving
  /\ k.pc = "ports" => k.used = PortsBelow(k.i)
  /\ k.pc # "find" /\ ~k.saving => SlotsOf(k.mac) = {}
  /\ k.pc \notin {"find", "ports"} /\ ~k.saving => PortIsFree(k.rec.gc_port)
KnowsWrite(k) ==
  /\ k.pc \in Writing /\ ~k.saving => flash[k.slot] = Erased
  /\ k.pc \in Writing \ {"program"} /\ k.saving => IsProfileOf(k.slot, k.mac)
  /\ k.pc = "program" => flash[k.slot] = Erased /\ SlotsOf(k.mac) = {}
  /\ k.pc \in {"head", "tail", "lock", "erase", "program"} => ctx.slot = k.slot
  /\ k.pc \in {"tail", "lock", "erase", "program"} => ctx.head = k.rec
  /\ k.pc \in {"lock", "erase", "program"} => ctx.tail = k.rec
Knows(k) ==
  /\ k.op = "forget" => KnowsForget(k)
  /\ k.op # "forget" => KnowsScan(k) /\ KnowsWrite(k)

\* Where a call goes on: it is over, or it knows what it should.
GoesOn(k) == WellFormed(k) /\ (k.pc = "idle" \/ Knows(k))
-----------------------------------------------------------------------------
\* A save begins its own scan, which knows nothing yet.
LEMMA GetGoesOn ==
  ASSUME NEW k, WellFormed(k), NEW p \in Profile, NEW ok \in BOOLEAN, NEW n \in AfterGet(k, p, ok)
  PROVE  WellFormed(n) /\ GoesOn(n) /\ GoesOn(n)'
<1>1. CASE n = Idle
  BY <1>1, IdleFormed DEF GoesOn, Idle
<1>2. ASSUME NEW q \in Ports, NEW v \in {Named, Unnamed}, k.op # "forget",
             n = [k EXCEPT !.pc = "find", !.i = 0, !.mac = p.mac, !.saving = TRUE,
                           !.rec = [p EXCEPT !.model_name = v, !.gc_port = q]]
      PROVE  WellFormed(n) /\ GoesOn(n) /\ GoesOn(n)'
  <2>1. [p EXCEPT !.model_name = v, !.gc_port = q] \in Profile
        /\ [p EXCEPT !.model_name = v, !.gc_port = q].mac = p.mac /\ p.mac \in Macs
    BY DEF Profile
  <2>2. /\ n \in CallRecord /\ n.pc = "find" /\ n.i = 0 /\ n.mac = p.mac /\ n.saving = TRUE
        /\ n.op = k.op /\ n.rec = [p EXCEPT !.model_name = v, !.gc_port = q]
    BY <1>2, <2>1, Sizes DEF WellFormed, CallRecord, Profile
  <2>3. KnowsScan(n) /\ KnowsWrite(n) /\ KnowsScan(n)' /\ KnowsWrite(n)'
    BY <2>1, <2>2, Sizes DEF KnowsScan, KnowsWrite, Writing
  <2>4. QED
    BY <1>2, <2>1, <2>2, <2>3 DEF WellFormed, GoesOn, Knows
<1>3. CASE ok /\ k.op = "ready" /\ p.model_name = Unnamed
  <2>1. n = [k EXCEPT !.pc = "find", !.i = 0, !.mac = p.mac, !.saving = TRUE,
                      !.rec = [p EXCEPT !.model_name = Named]]
    BY <1>3 DEF AfterGet
  <2>2. [p EXCEPT !.model_name = Named] = [p EXCEPT !.model_name = Named, !.gc_port = p.gc_port]
        /\ p.gc_port \in Ports
    BY DEF Profile
  <2>3. QED
    BY <1>2, <1>3, <2>1, <2>2
<1>4. CASE ok /\ k.op = "write10"
  <2>1. PICK q \in Ports : n = [k EXCEPT !.pc = "find", !.i = 0, !.mac = p.mac, !.saving = TRUE,
                                         !.rec = [p EXCEPT !.gc_port = q]]
    BY <1>4 DEF AfterGet
  <2>2. [p EXCEPT !.gc_port = q] = [p EXCEPT !.model_name = p.model_name, !.gc_port = q]
        /\ p.model_name \in {Named, Unnamed}
    BY DEF Profile
  <2>3. QED
    BY <1>2, <1>4, <2>1, <2>2
<1>5. QED
  BY <1>1, <1>3, <1>4 DEF AfterGet

\* The scan for the slot of a controller.
LEMMA FindGoesOn ==
  ASSUME Typed, NEW c \in Cores, find_slot_for_mac(c)
  PROVE  \E n : /\ WellFormed(n) /\ call' = [call EXCEPT ![c] = n]
                /\ Knows(call[c]) => GoesOn(n)
<1> DEFINE k == call[c]
<1>1. /\ k \in CallRecord /\ k.pc = "find" /\ k.mac \in Macs /\ k.rec \in Profile /\ WellFormed(k)
      /\ k.i \in SlotIdx /\ k.i + 1 \in Nat /\ k.saving \in BOOLEAN
  BY Sizes DEF find_slot_for_mac, At, Typed, WellFormed, CallRecord
<1>2. Knows(k) => /\ k.op # "forget" /\ k.rec.mac = k.mac
                  /\ \A j \in SlotIdx : j < k.i => ~IsProfileOf(j, k.mac)
                  /\ ~k.saving => k.used = {}
  BY <1>1 DEF Knows, KnowsForget, KnowsScan
<1> HIDE DEF k
<1>3. CASE IsProfileOf(k.i, k.mac)
  <2>1. PICK n \in AfterFound(k, k.i) : call' = [call EXCEPT ![c] = n]
    BY <1>3 DEF find_slot_for_mac, Go, k
  <2>2. CASE k.saving
    <3>1. n = [k EXCEPT !.pc = "blank", !.slot = k.i]
      BY <2>1, <2>2 DEF AfterFound
    <3>2. /\ n \in CallRecord /\ n.pc = "blank" /\ n.slot = k.i /\ n.mac = k.mac /\ n.rec = k.rec
          /\ n.op = k.op /\ n.saving
      BY <1>1, <2>2, <3>1 DEF CallRecord
    <3>3. Knows(k) => KnowsScan(n) /\ KnowsWrite(n)
      BY <1>2, <1>3, <3>2 DEF KnowsScan, KnowsWrite, Writing
    <3>4. QED
      BY <1>1, <1>2, <2>1, <3>2, <3>3 DEF WellFormed, GoesOn, Knows, k
  <2>3. CASE ~k.saving
    <3>1. flash[k.i] \in Profile
      BY <1>1, <1>3 DEF IsProfileOf, slot_is_valid, Typed, TypeOK
    <3>2. n \in AfterGet(k, flash[k.i], TRUE)
      BY <2>1, <2>3 DEF AfterFound
    <3>3. QED
      BY <1>1, <2>1, <3>1, <3>2, GetGoesOn
  <2>4. QED
    BY <2>2, <2>3
<1>4. CASE ~IsProfileOf(k.i, k.mac) /\ FindEnds(k)
  <2>1. PICK n \in AfterNotFound(k) : call' = [call EXCEPT ![c] = n]
    BY <1>4 DEF find_slot_for_mac, Go, k
  <2>2. CASE k.saving
    <3>1. n = Idle /\ Idle.pc = "idle"
      BY <2>1, <2>2 DEF AfterNotFound, Idle
    <3>2. QED
      BY <2>1, <3>1, IdleFormed DEF GoesOn, k
  <2>3. CASE ~k.saving
    <3>1. n = [k EXCEPT !.pc = "ports", !.i = 0]
      BY <2>1, <2>3 DEF AfterNotFound
    <3>2. /\ n \in CallRecord /\ n.pc = "ports" /\ n.i = 0 /\ n.mac = k.mac /\ n.rec = k.rec
          /\ n.op = k.op /\ ~n.saving /\ n.used = k.used
      BY <1>1, <2>3, <3>1, Sizes DEF CallRecord
    <3>3. Knows(k) => SlotsOf(k.mac) = {}
      BY <1>1, <1>2, <1>4, Sizes DEF SlotsOf, FindEnds, Last, IsProfileOf, slot_is_valid, SlotIdx
    <3>4. PortsBelow(0) = {}
      BY Sizes DEF PortsBelow
    <3>5. Knows(k) => KnowsScan(n) /\ KnowsWrite(n)
      BY <1>2, <2>3, <3>2, <3>3, <3>4 DEF KnowsScan, KnowsWrite, Writing
    <3>6. QED
      BY <1>1, <1>2, <2>1, <3>2, <3>5 DEF WellFormed, GoesOn, Knows, k
  <2>4. QED
    BY <2>2, <2>3
<1>5. CASE ~IsProfileOf(k.i, k.mac) /\ ~FindEnds(k)
  <2>1. PICK n \in Onward(k) : call' = [call EXCEPT ![c] = n]
    BY <1>5 DEF find_slot_for_mac, Go, k
  <2>2. k.i + 1 \in SlotIdx
    BY <1>1, <1>5, Sizes DEF FindEnds, Last, SlotIdx
  <2>3. /\ n \in CallRecord /\ n.pc = "find" /\ n.i = k.i + 1 /\ n.mac = k.mac /\ n.rec = k.rec
        /\ n.op = k.op /\ n.saving = k.saving /\ n.used = k.used
    BY <1>1, <2>1, <2>2 DEF CallRecord, Onward
  <2>4. Knows(k) => \A j \in SlotIdx : j < n.i => ~IsProfileOf(j, k.mac)
    <3>1. \A j \in SlotIdx : j < n.i => j < k.i \/ j = k.i
      <4>1. k.i \in Nat /\ n.i = k.i + 1 /\ SlotIdx \subseteq Nat
        BY <1>1, <2>3, Sizes
      <4>2. QED
        BY <4>1
    <3>2. QED
      BY <1>2, <1>5, <3>1
  <2>5. Knows(k) => KnowsScan(n) /\ KnowsWrite(n)
    BY <1>2, <2>3, <2>4 DEF KnowsScan, KnowsWrite, Writing
  <2>6. QED
    BY <1>1, <1>2, <2>1, <2>3, <2>5 DEF WellFormed, GoesOn, Knows, k
<1>6. QED
  BY <1>3, <1>4, <1>5

\* The scan for a port, whose result is free or the first one.
LEMMA FreePortIsFree ==
  ASSUME NEW used \in SUBSET Ports
  PROVE  /\ FreePort(used) \in Ports
         /\ FreePort(used) \notin used \/ (used = Ports /\ FreePort(used) = 0)
<1>1. CASE Ports \subseteq used
  BY <1>1, Sizes DEF FreePort
<1>2. CASE ~(Ports \subseteq used)
  <2> DEFINE R == OpToRel(<, Nat)
  <2>1. IsWellFoundedOn(R, Nat)
    BY NatLessThanWellFounded
  <2>2. Ports \ used \subseteq Nat /\ Ports \ used # {}
    BY <1>2, Sizes
  <2>3. PICK p \in Ports \ used : \A q \in Ports \ used : ~(<<q, p>> \in R)
    BY <2>1, <2>2, WFMin
  <2>4. \A q \in Ports \ used : p <= q
    <3>1. ASSUME NEW x \in Nat, NEW y \in Nat, x < y PROVE <<x, y>> \in R
      BY <3>1, Zenon DEF OpToRel
    <3> HIDE DEF R
    <3>2. ASSUME NEW q \in Ports \ used PROVE p <= q
      <4>1. p \in Nat /\ q \in Nat /\ <<q, p>> \notin R
        BY <2>2, <2>3, Zenon
      <4>2. ~(q < p)
        BY <3>1, <4>1, Zenon
      <4>3. QED
        BY <4>1, <4>2
    <3>3. QED
      BY <3>2
  <2>5. FreePort(used) \in Ports \ used
    BY <1>2, <2>3, <2>4 DEF FreePort
  <2>6. QED
    BY <2>5
<1>3. QED
  BY <1>1, <1>2

\* The scan for a free port (controller_config.c:137-150).
LEMMA PortsGoOn ==
  ASSUME Typed, NEW c \in Cores, next_free_gc_port(c)
  PROVE  \E n : /\ WellFormed(n) /\ call' = [call EXCEPT ![c] = n]
                /\ Knows(call[c]) => GoesOn(n)
<1> DEFINE k == call[c]
           used == k.used \cup IF slot_is_valid(k.i) THEN {flash[k.i].gc_port} ELSE {}
<1>1. /\ k \in CallRecord /\ k.pc = "ports" /\ k.mac \in Macs /\ k.rec \in Profile /\ WellFormed(k)
      /\ k.i \in SlotIdx /\ k.i \in Nat /\ k.used \subseteq Ports
  BY Sizes DEF next_free_gc_port, At, Typed, WellFormed, CallRecord
<1>2. Knows(k) => /\ k.op # "forget" /\ k.rec.mac = k.mac /\ ~k.saving
                  /\ SlotsOf(k.mac) = {} /\ k.used = PortsBelow(k.i)
  BY <1>1 DEF Knows, KnowsForget, KnowsScan
<1>3. used \subseteq Ports
  BY <1>1 DEF slot_is_valid, Typed, TypeOK, Profile
<1>4. k.used = PortsBelow(k.i) => used = PortsBelow(k.i + 1)
  <2>1. {h \in SlotIdx : h < k.i + 1 /\ flash[h] # Erased}
          = {h \in SlotIdx : h < k.i /\ flash[h] # Erased}
              \cup IF flash[k.i] # Erased THEN {k.i} ELSE {}
    <3>1. \A h \in SlotIdx : h < k.i + 1 <=> h < k.i \/ h = k.i
      <4>1. k.i \in Nat /\ SlotIdx \subseteq Nat
        BY <1>1, Sizes
      <4>2. QED
        BY <4>1
    <3>2. QED
      BY <1>1, <3>1
  <2>2. QED
    BY <2>1 DEF PortsBelow, slot_is_valid
<1>5. Last(k) => PortsBelow(k.i + 1) = UsedPorts
  <2>1. Last(k) => \A h \in SlotIdx : h < k.i + 1
    BY <1>1, Sizes DEF Last, SlotIdx
  <2>2. QED
    BY <2>1 DEF PortsBelow, UsedPorts
<1>6. PICK n \in IF Last(k) THEN {[k EXCEPT !.pc = "free", !.i = 0, !.used = {}, !.rec.gc_port = FreePort(used)]}
                            ELSE Onward([k EXCEPT !.used = used]) : call' = [call EXCEPT ![c] = n]
  BY DEF next_free_gc_port, Go
<1> HIDE DEF k, used
<1>7. CASE Last(k)
  <2>1. FreePort(used) \in Ports /\ (FreePort(used) \notin used \/ (used = Ports /\ FreePort(used) = 0))
    BY <1>3, FreePortIsFree
  <2>2. n = [k EXCEPT !.pc = "free", !.i = 0, !.used = {}, !.rec.gc_port = FreePort(used)]
    BY <1>6, <1>7
  <2>3. /\ n \in CallRecord /\ n.pc = "free" /\ n.i = 0 /\ n.mac = k.mac
        /\ n.op = k.op /\ n.saving = k.saving
        /\ n.rec \in Profile /\ n.rec.mac = k.rec.mac /\ n.rec.gc_port = FreePort(used)
    <3>1. [k.rec EXCEPT !.gc_port = FreePort(used)] \in Profile
      BY <1>1, <2>1 DEF Profile
    <3>2. n.rec = [k.rec EXCEPT !.gc_port = FreePort(used)] /\ n.rec.mac = k.rec.mac
          /\ n.rec.gc_port = FreePort(used)
      BY <1>1, <2>2 DEF CallRecord
    <3>3. QED
      BY <1>1, <2>1, <2>2, <3>1, <3>2, Sizes DEF CallRecord
  <2>4. Knows(k) => PortIsFree(n.rec.gc_port)
    BY <1>2, <1>4, <1>5, <1>7, <2>1, <2>3 DEF PortIsFree
  <2>5. Knows(k) => KnowsScan(n) /\ KnowsWrite(n)
    BY <1>2, <2>3, <2>4 DEF KnowsScan, KnowsWrite, Writing
  <2>6. QED
    BY <1>1, <1>2, <1>6, <2>3, <2>5 DEF WellFormed, GoesOn, Knows, k
<1>8. CASE ~Last(k)
  <2>1. k.i + 1 \in SlotIdx
    BY <1>1, <1>8, Sizes DEF Last, SlotIdx
  <2>2. n = [[k EXCEPT !.used = used] EXCEPT !.i = k.i + 1]
    BY <1>1, <1>6, <1>8 DEF Onward, CallRecord
  <2>3. /\ n \in CallRecord /\ n.pc = "ports" /\ n.i = k.i + 1 /\ n.mac = k.mac /\ n.rec = k.rec
        /\ n.op = k.op /\ n.saving = k.saving /\ n.used = used
    BY <1>1, <1>3, <2>1, <2>2 DEF CallRecord
  <2>4. Knows(k) => KnowsScan(n) /\ KnowsWrite(n)
    BY <1>2, <1>4, <2>3 DEF KnowsScan, KnowsWrite, Writing
  <2>5. QED
    BY <1>1, <1>2, <1>6, <2>3, <2>4 DEF WellFormed, GoesOn, Knows, k
<1>9. QED
  BY <1>7, <1>8

\* The scan for a slot to write to.
LEMMA FreeGoesOn ==
  ASSUME Typed, NEW c \in Cores, find_free_slot(c)
  PROVE  \E n : /\ WellFormed(n) /\ call' = [call EXCEPT ![c] = n]
                /\ Knows(call[c]) => GoesOn(n)
<1> DEFINE k == call[c]
<1>1. /\ k \in CallRecord /\ k.pc = "free" /\ k.mac \in Macs /\ k.rec \in Profile /\ WellFormed(k)
      /\ k.i \in SlotIdx /\ k.i \in Nat
  BY Sizes DEF find_free_slot, At, Typed, WellFormed, CallRecord
<1>2. Knows(k) => /\ k.op # "forget" /\ k.rec.mac = k.mac /\ ~k.saving
                  /\ SlotsOf(k.mac) = {} /\ PortIsFree(k.rec.gc_port)
  BY <1>1 DEF Knows, KnowsForget, KnowsScan
<1> HIDE DEF k
<1>3. CASE ~slot_is_valid(k.i)
  <2>1. PICK n : n = [k EXCEPT !.pc = "blank", !.slot = k.i] /\ call' = [call EXCEPT ![c] = n]
    BY <1>3 DEF find_free_slot, Go, k
  <2>2. /\ n \in CallRecord /\ n.pc = "blank" /\ n.slot = k.i /\ n.mac = k.mac /\ n.rec = k.rec
        /\ n.op = k.op /\ n.saving = k.saving
    BY <1>1, <2>1 DEF CallRecord
  <2>3. Knows(k) => KnowsScan(n) /\ KnowsWrite(n)
    BY <1>2, <1>3, <2>2 DEF KnowsScan, KnowsWrite, Writing, slot_is_valid
  <2>4. QED
    BY <1>1, <1>2, <2>1, <2>2, <2>3 DEF WellFormed, GoesOn, Knows, k
<1>4. CASE slot_is_valid(k.i) /\ Last(k)
  <2>1. PICK n \in AfterGet(k, k.rec, FALSE) : call' = [call EXCEPT ![c] = n]
    BY <1>4 DEF find_free_slot, Go, k
  <2>2. QED
    BY <1>1, <2>1, GetGoesOn
<1>5. CASE slot_is_valid(k.i) /\ ~Last(k)
  <2>1. PICK n \in Onward(k) : call' = [call EXCEPT ![c] = n]
    BY <1>5 DEF find_free_slot, Go, k
  <2>2. k.i + 1 \in SlotIdx
    BY <1>1, <1>5, Sizes DEF Last, SlotIdx
  <2>3. /\ n \in CallRecord /\ n.pc = "free" /\ n.mac = k.mac /\ n.rec = k.rec
        /\ n.op = k.op /\ n.saving = k.saving
    BY <1>1, <2>1, <2>2 DEF CallRecord, Onward
  <2>4. Knows(k) => KnowsScan(n) /\ KnowsWrite(n)
    BY <1>2, <2>3 DEF KnowsScan, KnowsWrite, Writing
  <2>5. QED
    BY <1>1, <1>2, <2>1, <2>3, <2>4 DEF WellFormed, GoesOn, Knows, k
<1>6. QED
  BY <1>3, <1>4, <1>5

\* The scan for a slot to forget.
LEMMA MatchGoesOn ==
  ASSUME Typed, NEW c \in Cores, controller_config_delete_by_suffix(c)
  PROVE  \E n : /\ WellFormed(n) /\ call' = [call EXCEPT ![c] = n]
                /\ Knows(call[c]) => GoesOn(n)
<1> DEFINE k == call[c]
           matches == slot_is_valid(k.i) /\ Suffix[flash[k.i].mac] = Suffix[k.mac]
<1>1. /\ k \in CallRecord /\ k.pc = "match" /\ k.mac \in Macs /\ k.rec \in Profile
      /\ k.i \in SlotIdx /\ k.i \in Nat
  BY Sizes DEF controller_config_delete_by_suffix, At, Typed, WellFormed, CallRecord
<1>2. Knows(k) => k.op = "forget" /\ ~k.saving
  BY <1>1 DEF Knows, KnowsForget, KnowsScan
<1>3. CASE matches
  <2>1. PICK n : n = [k EXCEPT !.pc = "lock", !.slot = k.i, !.mac = flash[k.i].mac]
                 /\ call' = [call EXCEPT ![c] = n]
    BY <1>3 DEF controller_config_delete_by_suffix, Go
  <2>2. flash[k.i] \in Profile /\ flash[k.i] # Erased /\ flash[k.i].mac \in Macs
    BY <1>1, <1>3 DEF Typed, TypeOK, Profile, slot_is_valid
  <2> HIDE DEF k, matches
  <2>3. /\ n \in CallRecord /\ n.pc = "lock" /\ n.slot = k.i /\ n.mac = flash[k.i].mac /\ n.rec = k.rec
        /\ n.op = k.op /\ n.saving = k.saving
    BY <1>1, <2>1, <2>2 DEF CallRecord
  <2>4. Knows(k) => KnowsForget(n)
    BY <1>2, <2>2, <2>3 DEF KnowsForget, IsProfileOf, slot_is_valid
  <2>5. QED
    BY <1>1, <1>2, <2>1, <2>2, <2>3, <2>4 DEF WellFormed, GoesOn, Knows, k
<1>4. CASE ~matches /\ Last(k)
  <2>1. call' = [call EXCEPT ![c] = Idle]
    BY <1>4 DEF controller_config_delete_by_suffix, Go
  <2>2. Idle.pc = "idle"
    BY DEF Idle
  <2>3. QED
    BY <2>1, <2>2, IdleFormed DEF GoesOn
<1>5. CASE ~matches /\ ~Last(k)
  <2>1. PICK n \in Onward(k) : call' = [call EXCEPT ![c] = n]
    BY <1>5 DEF controller_config_delete_by_suffix, Go
  <2> HIDE DEF k, matches
  <2>2. k.i + 1 \in SlotIdx
    BY <1>1, <1>5, Sizes DEF Last, SlotIdx
  <2>3. /\ n \in CallRecord /\ n.pc = "match" /\ n.mac = k.mac /\ n.rec = k.rec
        /\ n.op = k.op /\ n.saving = k.saving
    BY <1>1, <2>1, <2>2 DEF CallRecord, Onward
  <2>4. QED
    BY <1>1, <1>2, <2>1, <2>3 DEF WellFormed, GoesOn, Knows, KnowsForget, k
<1>6. QED
  BY <1>3, <1>4, <1>5
-----------------------------------------------------------------------------
\* The steps of write_slot, of the lock and of the two that change the flash.
LEMMA WriteGoesOn ==
  ASSUME Typed, NEW c \in Cores, write_slot(c)
  PROVE  /\ UNCHANGED <<flash, holder, files, kept>>
         /\ ctx' \in [slot : SlotIdx \cup {-1}, head : Profile \cup {Erased}, tail : Profile \cup {Erased}]
         /\ \E n : /\ WellFormed(n) /\ call' = [call EXCEPT ![c] = n]
                   /\ Knows(call[c]) => GoesOn(n)'
<1> DEFINE k == call[c]
<1>1. PICK from \in {"blank", "slot", "head", "tail"}, to \in {"slot", "head", "tail", "lock"} :
        /\ Fill(c, from, to, ctx')
        /\ \/ from = "blank" /\ to = "slot" /\ ctx' = BlankCtx
           \/ from = "slot" /\ to = "head" /\ ctx' = [ctx EXCEPT !.slot = k.slot]
           \/ from = "head" /\ to = "tail" /\ ctx' = [ctx EXCEPT !.head = k.rec]
           \/ from = "tail" /\ to = "lock" /\ ctx' = [ctx EXCEPT !.tail = k.rec]
  BY DEF write_slot, Fill
<1>2. /\ k \in CallRecord /\ k.pc = from /\ k.mac \in Macs /\ k.rec \in Profile /\ k.slot \in SlotIdx
      /\ ctx \in [slot : SlotIdx \cup {-1}, head : Profile \cup {Erased}, tail : Profile \cup {Erased}]
  BY <1>1 DEF Fill, At, Typed, TypeOK, WellFormed, CallRecord
<1>3. PICK n : n = [k EXCEPT !.pc = to] /\ call' = [call EXCEPT ![c] = n]
  BY <1>1 DEF Fill, Go
<1>4. UNCHANGED <<flash, holder, files, kept>>
  BY <1>1 DEF Fill
<1> HIDE DEF k
<1>5. /\ n \in CallRecord /\ n.pc = to /\ n.mac = k.mac /\ n.rec = k.rec
      /\ n.op = k.op /\ n.saving = k.saving /\ n.slot = k.slot
  BY <1>2, <1>3 DEF CallRecord
<1>6. ctx' \in [slot : SlotIdx \cup {-1}, head : Profile \cup {Erased}, tail : Profile \cup {Erased}]
  BY <1>1, <1>2 DEF BlankCtx
<1>7. /\ to \in {"head", "tail", "lock"} /\ (to \in {"tail", "lock"} => ctx.slot = k.slot)
           => ctx'.slot = k.slot
      /\ to \in {"tail", "lock"} /\ (to = "lock" => ctx.head = k.rec) => ctx'.head = k.rec
      /\ to = "lock" => ctx'.tail = k.rec
  BY <1>1, <1>2
<1>8. ASSUME Knows(k) PROVE KnowsScan(n)' /\ KnowsWrite(n)' /\ n.op # "forget"
  <2>1. KnowsScan(k) /\ KnowsWrite(k) /\ k.op # "forget"
    BY <1>1, <1>2, <1>8 DEF Knows, KnowsForget
  <2>2. KnowsScan(n)'
    BY <1>1, <1>2, <1>4, <1>5, <2>1
       DEF KnowsScan, SlotsOf, PortIsFree, UsedPorts
  <2>3. /\ to \in {"tail", "lock"} => ctx.slot = k.slot
        /\ to = "lock" => ctx.head = k.rec
        /\ ~k.saving => flash[k.slot] = Erased
        /\ k.saving => IsProfileOf(k.slot, k.mac)
    BY <1>1, <1>2, <2>1 DEF KnowsWrite, Writing
  <2>4. KnowsWrite(n)'
    BY <1>1, <1>4, <1>5, <1>7, <2>3 DEF KnowsWrite, Writing, IsProfileOf, slot_is_valid
  <2>5. QED
    BY <1>5, <2>1, <2>2, <2>4
<1>9. QED
  BY <1>2, <1>3, <1>4, <1>5, <1>6, <1>8 DEF WellFormed, GoesOn, Knows, k

\* The other core is locked out before the flash is touched.
LEMMA LockGoesOn ==
  ASSUME Typed, NEW c \in Cores, LockOut(c)
  PROVE  /\ holder' \in {holder, c}
         /\ \E n : /\ WellFormed(n) /\ call' = [call EXCEPT ![c] = n]
                   /\ Knows(call[c]) => GoesOn(n)
<1> DEFINE k == call[c]
<1>1. k \in CallRecord /\ k.pc = "lock" /\ k.mac \in Macs /\ k.rec \in Profile /\ WellFormed(k)
  BY DEF LockOut, At, Typed, WellFormed
<1>2. CASE holder' = c /\ Go(c, {[call[c] EXCEPT !.pc = "erase"]})
  <2>1. PICK n : n = [k EXCEPT !.pc = "erase"] /\ call' = [call EXCEPT ![c] = n]
    BY <1>2 DEF Go
  <2> HIDE DEF k
  <2>2. /\ n \in CallRecord /\ n.pc = "erase" /\ n.mac = k.mac /\ n.rec = k.rec
        /\ n.op = k.op /\ n.saving = k.saving /\ n.slot = k.slot
    BY <1>1, <2>1 DEF CallRecord
  <2>3. Knows(k) => Knows(n)
    BY <1>1, <2>2 DEF Knows, KnowsForget, KnowsScan, KnowsWrite, Writing
  <2>4. QED
    BY <1>1, <1>2, <2>1, <2>2, <2>3 DEF WellFormed, GoesOn, k
<1>3. CASE holder' = holder /\ Go(c, AfterWrite(call[c], FALSE))
  <2>1. PICK n \in AfterWrite(k, FALSE) : call' = [call EXCEPT ![c] = n]
    BY <1>3 DEF Go
  <2> HIDE DEF k
  <2>2. n = Idle /\ Idle.pc = "idle"
    BY <2>1 DEF AfterWrite, AfterGet, Idle
  <2>3. QED
    BY <1>3, <2>1, <2>2, IdleFormed DEF GoesOn
<1>4. QED
  BY <1>2, <1>3 DEF LockOut

\* The erasure of the sector (controller_config.c:90).
LEMMA EraseGoesOn ==
  ASSUME Typed, NEW c \in Cores, Erase(c)
  PROVE  /\ flash' \in [SlotIdx -> Profile \cup {Erased}] /\ kept' \in [Macs -> Profile \cup {NoProfile}]
         /\ holder' \in {holder, NoCore} /\ UNCHANGED <<ctx, files>>
         /\ \E n : /\ WellFormed(n) /\ call' = [call EXCEPT ![c] = n]
                   /\ call[c].op = "forget" => n.pc = "idle"
                   /\ call[c].op # "forget" => n = [call[c] EXCEPT !.pc = "program"]
<1> DEFINE k == call[c]
<1>1. k \in CallRecord /\ k.pc = "erase" /\ k.mac \in Macs /\ k.rec \in Profile /\ WellFormed(k)
  BY DEF Erase, At, Typed, WellFormed
<1>2. flash' \in [SlotIdx -> Profile \cup {Erased}] /\ kept' \in [Macs -> Profile \cup {NoProfile}]
  BY <1>1 DEF Erase, Typed, TypeOK
<1>3. CASE k.op = "forget"
  <2>1. holder' = NoCore /\ Go(c, AfterWrite(k, TRUE)) /\ Idle.pc = "idle"
    BY <1>3 DEF Erase, Idle
  <2>2. call' = [call EXCEPT ![c] = Idle]
    BY <1>3, <2>1 DEF Go, AfterWrite
  <2>3. QED
    BY <1>2, <1>3, <2>1, <2>2, IdleFormed DEF Erase
<1>4. CASE k.op # "forget"
  <2>1. PICK n : n = [k EXCEPT !.pc = "program"] /\ call' = [call EXCEPT ![c] = n]
    BY <1>4 DEF Erase, Go
  <2>2. WellFormed(n)
    BY <1>1, <2>1 DEF WellFormed, CallRecord
  <2>3. QED
    BY <1>2, <1>4, <2>1, <2>2 DEF Erase
<1>5. QED
  BY <1>3, <1>4

\* The programming of the sector (controller_config.c:91).
LEMMA ProgramGoesOn ==
  ASSUME Typed, NEW c \in Cores, Program(c)
  PROVE  /\ flash' \in [SlotIdx -> Profile \cup {Erased}] /\ kept' \in [Macs -> Profile \cup {NoProfile}]
         /\ holder' = NoCore /\ UNCHANGED <<ctx, files>>
         /\ \E n : WellFormed(n) /\ call' = [call EXCEPT ![c] = n] /\ GoesOn(n)'
<1> DEFINE k == call[c]
<1>1. k \in CallRecord /\ k.pc = "program" /\ k.mac \in Macs /\ k.rec \in Profile /\ WellFormed(k)
  BY DEF Program, At, Typed, WellFormed
<1>2. Programmed \in Profile \cup {Erased}
  BY DEF Programmed, Typed, TypeOK
<1>3. flash' \in [SlotIdx -> Profile \cup {Erased}] /\ kept' \in [Macs -> Profile \cup {NoProfile}]
  BY <1>1, <1>2 DEF Program, Typed, TypeOK
<1>4. PICK n \in AfterWrite(k, TRUE) : call' = [call EXCEPT ![c] = n]
  BY DEF Program, Go
<1>5. WellFormed(n) /\ GoesOn(n)'
  <2>1. CASE n = Idle
    BY <2>1, IdleFormed DEF GoesOn, Idle, WellFormed, CallRecord
  <2>2. CASE n \in AfterGet(k, k.rec, TRUE)
    BY <1>1, <2>2, GetGoesOn
  <2>3. QED
    BY <2>1, <2>2 DEF AfterWrite
<1>6. QED
  BY <1>3, <1>4, <1>5 DEF Program

\* A call begins when the core is idle, and the other is, too, unless calls overlap.
LEMMA BeginGoesOn ==
  ASSUME Typed, NEW c \in Cores, NEW op \in {"connected", "ready", "write10", "forget"},
         NEW m \in Macs, NEW v \in {Named, Unnamed}, Begin(c, op, m, v)
  PROVE  /\ UNCHANGED <<flash, ctx, holder, files, kept>>
         /\ Overlap \/ \A d \in Cores : call[d].pc = "idle"
         /\ \E n : WellFormed(n) /\ call' = [call EXCEPT ![c] = n] /\ GoesOn(n)
<1> DEFINE r == [mac |-> m, model_name |-> v, gc_port |-> 0]
<1>1. PICK n : /\ n = [Idle EXCEPT !.pc = IF op = "forget" THEN "match" ELSE "find",
                                   !.op = op, !.mac = m, !.rec = r]
               /\ call' = [call EXCEPT ![c] = n]
  BY DEF Begin, Go
<1>2. r \in Profile /\ r.mac = m
  BY Sizes DEF Profile
<1> HIDE DEF r
<1>3. /\ n.pc = (IF op = "forget" THEN "match" ELSE "find") /\ n.op = op /\ n.mac = m /\ n.rec = r
      /\ n.i = 0 /\ n.slot = 0 /\ n.used = {} /\ n.saving = FALSE
  BY <1>1 DEF Idle
<1>4. n \in CallRecord
  <2>1. Idle \in CallRecord
    BY IdleFormed DEF WellFormed
  <2>2. QED
    BY <1>1, <1>2, <2>1 DEF CallRecord, Profile
<1>5. op = "forget" => KnowsForget(n)
  BY <1>3 DEF KnowsForget
<1>6. op # "forget" => KnowsScan(n) /\ KnowsWrite(n)
  BY <1>2, <1>3, Sizes DEF KnowsScan, KnowsWrite, Writing
<1>7. WellFormed(n) /\ GoesOn(n)
  BY <1>2, <1>3, <1>4, <1>5, <1>6 DEF WellFormed, GoesOn, Knows
<1>8. Overlap \/ \A d \in Cores : call[d].pc = "idle"
  BY DEF Begin, Idle
<1>9. QED
  BY <1>1, <1>7, <1>8 DEF Begin
-----------------------------------------------------------------------------
\* What the drive lists at boot are controllers.
LEMMA Listings == Typed => Listed \subseteq Macs
  BY DEF Typed, TypeOK, Listed, slot_is_valid, Profile

\* Every step keeps the types, whether calls overlap or not.
LEMMA TypedStep == Typed /\ [Next]_vars => Typed'
<1> SUFFICES ASSUME Typed, [Next]_vars PROVE Typed'
  OBVIOUS
<1>1. ASSUME NEW c \in Cores, NEW n, WellFormed(n), call' = [call EXCEPT ![c] = n],
             UNCHANGED files, holder' \in Cores \cup {NoCore},
             flash' \in [SlotIdx -> Profile \cup {Erased}],
             ctx' \in [slot : SlotIdx \cup {-1}, head : Profile \cup {Erased}, tail : Profile \cup {Erased}],
             kept' \in [Macs -> Profile \cup {NoProfile}]
      PROVE  Typed'
  <2>1. call' \in [Cores -> CallRecord] /\ \A d \in Cores : WellFormed(call'[d])
    BY <1>1 DEF Typed, TypeOK, WellFormed
  <2>2. \A d \in Cores : WellFormed(call[d])'
    BY <2>1 DEF WellFormed
  <2>3. QED
    BY <1>1, <2>1, <2>2 DEF Typed, TypeOK
<1>2. ASSUME NEW c \in Cores, NEW n, WellFormed(n), call' = [call EXCEPT ![c] = n],
             UNCHANGED <<flash, ctx, holder, files, kept>>
      PROVE  Typed'
  BY <1>1, <1>2 DEF Typed, TypeOK
<1>3. ASSUME NEW c \in Cores,
             find_slot_for_mac(c) \/ next_free_gc_port(c) \/ find_free_slot(c)
               \/ controller_config_delete_by_suffix(c)
      PROVE  Typed'
  <2>1. \E n : WellFormed(n) /\ call' = [call EXCEPT ![c] = n]
    BY <1>3, FindGoesOn, PortsGoOn, FreeGoesOn, MatchGoesOn
  <2>2. UNCHANGED <<flash, ctx, holder, files, kept>>
    BY <1>3 DEF find_slot_for_mac, next_free_gc_port, find_free_slot, controller_config_delete_by_suffix
  <2>3. QED
    BY <1>2, <2>1, <2>2
<1>4. ASSUME NEW c \in Cores, write_slot(c) PROVE Typed'
  BY <1>1, <1>4, WriteGoesOn DEF Typed, TypeOK
<1>5. ASSUME NEW c \in Cores, LockOut(c) PROVE Typed'
  BY <1>1, <1>5, LockGoesOn DEF LockOut, Typed, TypeOK
<1>6. ASSUME NEW c \in Cores, Erase(c) PROVE Typed'
  BY <1>1, <1>6, EraseGoesOn DEF Typed, TypeOK
<1>7. ASSUME NEW c \in Cores, Program(c) PROVE Typed'
  BY <1>1, <1>7, ProgramGoesOn DEF Typed, TypeOK
<1>8. ASSUME NEW m \in Macs,
             \/ \E n \in {Named, Unnamed} : my_platform_on_device_connected(m, n)
             \/ my_platform_on_device_ready(m)
             \/ tud_msc_write10_cb(m)
             \/ process_serial_commands(m)
      PROVE  Typed'
  <2>1. PICK c \in Cores, op \in {"connected", "ready", "write10", "forget"}, v \in {Named, Unnamed} :
          Begin(c, op, m, v)
    BY <1>8 DEF Cores, my_platform_on_device_connected, my_platform_on_device_ready, tud_msc_write10_cb,
                process_serial_commands
  <2>2. QED
    BY <1>2, <2>1, BeginGoesOn
<1>9. CASE PowerCut
  <2>1. \A d \in Cores : WellFormed(call'[d]) /\ call'[d] \in CallRecord
    BY <1>9, IdleFormed DEF PowerCut, WellFormed
  <2>2. \A d \in Cores : WellFormed(call[d])'
    BY <2>1 DEF WellFormed
  <2>3. call' \in [Cores -> CallRecord]
    BY <1>9, <2>1 DEF PowerCut
  <2>4. QED
    BY <1>9, <2>2, <2>3, Listings, Sizes DEF PowerCut, Typed, TypeOK
<1>10. CASE UNCHANGED vars
  BY <1>10 DEF vars, Typed, TypeOK, WellFormed
<1>11. QED
  BY <1>3, <1>4, <1>5, <1>6, <1>7, <1>8, <1>9, <1>10 DEF Next, Proceed

LEMMA TypedInit == Init => Typed
<1> SUFFICES ASSUME Init PROVE Typed
  OBVIOUS
<1>1. \A c \in Cores : WellFormed(call[c]) /\ call[c] \in CallRecord
  BY IdleFormed DEF Init, WellFormed
<1>2. call \in [Cores -> CallRecord]
  BY <1>1 DEF Init
<1>3. QED
  BY <1>1, <1>2, Sizes DEF Init, Typed, TypeOK

LEMMA Types == Spec => []Typed
  BY TypedInit, TypedStep, PTL DEF Spec

\* The flash, the context and the calls keep their types, whether or not the
\* calls of the two cores overlap and wherever the power is cut.
THEOREM TypeCorrect == Spec => []TypeOK
<1>1. Typed => TypeOK
  BY DEF Typed
<1>2. QED
  BY <1>1, Types, PTL-----------------------------------------------------------------------------
\* The rest is about calls that do not overlap: one core at most is in a call,
\* that call knows what it should, no two slots hold the same controller, and
\* what was reported as kept is in one of them.
Solo == \A c, d \in Cores : call[c].pc # "idle" /\ call[d].pc # "idle" => c = d
AllKnow == \A c \in Cores : call[c].pc = "idle" \/ Knows(call[c])
Apart == \A i, j \in SlotIdx : flash[i] # Erased /\ flash[j] # Erased /\ flash[i].mac = flash[j].mac
                               => i = j
KeptAreThere == \A m \in Macs : kept[m] # NoProfile =>
                  \E i \in SlotIdx : flash[i] = kept[m] /\ flash[i] # Erased /\ kept[m].mac = m
Consistent == Solo /\ AllKnow /\ Apart /\ KeptAreThere

\* What the two steps that change the flash do to it.
LEMMA Erased1 ==
  ASSUME Typed, Consistent, NEW c \in Cores, Erase(c), NEW k, k = call[c]
  PROVE  /\ k.pc = "erase" /\ Knows(k) /\ k.slot \in SlotIdx /\ k.mac \in Macs /\ k.rec \in Profile
         /\ k \in CallRecord
         /\ flash' = [flash EXCEPT ![k.slot] = Erased]
         /\ flash[k.slot] # Erased => flash[k.slot].mac = k.mac
         /\ kept' = [kept EXCEPT ![k.mac] = NoProfile]
<1>1. k.pc = "erase" /\ Knows(k) /\ k \in CallRecord /\ k.slot \in SlotIdx /\ k.mac \in Macs /\ k.rec \in Profile
  BY DEF Erase, At, Consistent, AllKnow, Typed, WellFormed, CallRecord
<1>2. Target(k) = k.slot /\ (flash[k.slot] # Erased => flash[k.slot].mac = k.mac)
  <2>1. CASE k.op = "forget"
    BY <1>1, <2>1 DEF Knows, KnowsForget, IsProfileOf, Target
  <2>2. CASE k.op # "forget"
    BY <1>1, <2>2 DEF Knows, KnowsWrite, Writing, IsProfileOf, Target, CallRecord
  <2>3. QED
    BY <2>1, <2>2
<1>3. flash' = [i \in SlotIdx |-> IF i = k.slot THEN Erased ELSE flash[i]]
  BY <1>2 DEF Erase
<1>4. flash' = [flash EXCEPT ![k.slot] = Erased]
  BY <1>1, <1>3 DEF Typed, TypeOK
<1>5. QED
  BY <1>1, <1>2, <1>4 DEF Erase

\* Programming fills an empty slot for a controller that has none.
LEMMA Programmed1 ==
  ASSUME Typed, Consistent, NEW c \in Cores, Program(c), NEW k, k = call[c]
  PROVE  /\ k.pc = "program" /\ k.op # "forget" /\ k.slot \in SlotIdx /\ k.mac \in Macs
         /\ k.rec \in Profile /\ k.rec.mac = k.mac /\ KnowsScan(k)
         /\ flash[k.slot] = Erased /\ SlotsOf(k.mac) = {}
         /\ flash' = [flash EXCEPT ![k.slot] = k.rec]
         /\ kept' = [kept EXCEPT ![k.mac] = k.rec]
<1>1. k.pc = "program" /\ Knows(k) /\ k \in CallRecord /\ k.slot \in SlotIdx /\ k.mac \in Macs /\ k.rec \in Profile
  BY DEF Program, At, Consistent, AllKnow, Typed, WellFormed, CallRecord
<1>2. k.op # "forget" /\ KnowsScan(k) /\ KnowsWrite(k)
  BY <1>1 DEF Knows, KnowsForget
<1>3. ctx.slot = k.slot /\ ctx.head = k.rec /\ ctx.tail = k.rec
      /\ flash[k.slot] = Erased /\ SlotsOf(k.mac) = {} /\ k.rec.mac = k.mac
  BY <1>1, <1>2 DEF KnowsScan, KnowsWrite
<1>4. Programmed = k.rec
  BY <1>3 DEF Programmed
<1>5. flash' = [i \in SlotIdx |-> IF i = k.slot THEN k.rec ELSE flash[i]]
  BY <1>3, <1>4 DEF Program
<1>6. flash' = [flash EXCEPT ![k.slot] = k.rec]
  BY <1>1, <1>5 DEF Typed, TypeOK
<1>7. QED
  BY <1>1, <1>2, <1>3, <1>6 DEF Program

\* Every step keeps Consistent while no two calls overlap.
LEMMA ConsistentStep == ~Overlap /\ Typed /\ Consistent /\ [Next]_vars => Consistent'
<1> SUFFICES ASSUME ~Overlap, Typed, Consistent, [Next]_vars PROVE Consistent'
  OBVIOUS
<1>0. Solo /\ AllKnow /\ Apart /\ KeptAreThere /\ call \in [Cores -> CallRecord]
  BY DEF Consistent, Typed, TypeOK
<1>1. ASSUME NEW c \in Cores, NEW n, call' = [call EXCEPT ![c] = n], GoesOn(n)',
             \A d \in Cores : d # c => call[d].pc = "idle"
      PROVE  Solo' /\ AllKnow'
  <2>1. call'[c] = n /\ \A d \in Cores : d # c => call'[d].pc = "idle"
    BY <1>0, <1>1
  <2>2. n.pc = "idle" \/ Knows(n)'
    BY <1>1 DEF GoesOn
  <2>3. QED
    BY <2>1, <2>2 DEF Solo, AllKnow, Knows, KnowsForget, KnowsScan, KnowsWrite
<1>2. ASSUME UNCHANGED <<flash, kept>> PROVE Apart' /\ KeptAreThere'
  BY <1>0, <1>2 DEF Apart, KeptAreThere
<1>3. ASSUME NEW c \in Cores, NEW n, call' = [call EXCEPT ![c] = n], GoesOn(n),
             \A d \in Cores : d # c => call[d].pc = "idle", UNCHANGED <<flash, ctx, kept>>
      PROVE  Consistent'
  <2>1. GoesOn(n)'
    BY <1>3 DEF GoesOn, WellFormed, Knows, KnowsForget, KnowsScan, KnowsWrite, IsProfileOf, slot_is_valid,
                SlotsOf, PortIsFree, UsedPorts, PortsBelow
  <2>2. QED
    BY <1>1, <1>2, <1>3, <2>1 DEF Consistent
<1>4. ASSUME NEW c \in Cores, call[c].pc # "idle"
      PROVE  Knows(call[c]) /\ \A d \in Cores : d # c => call[d].pc = "idle"
  BY <1>0, <1>4 DEF Solo, AllKnow
<1>5. ASSUME NEW c \in Cores,
             find_slot_for_mac(c) \/ next_free_gc_port(c) \/ find_free_slot(c)
               \/ controller_config_delete_by_suffix(c)
      PROVE  Consistent'
  <2>1. call[c].pc # "idle" /\ UNCHANGED <<flash, ctx, holder, files, kept>>
    BY <1>5 DEF find_slot_for_mac, next_free_gc_port, find_free_slot, controller_config_delete_by_suffix, At
  <2>2. \E n : call' = [call EXCEPT ![c] = n] /\ (Knows(call[c]) => GoesOn(n))
    BY <1>5, FindGoesOn, PortsGoOn, FreeGoesOn, MatchGoesOn
  <2>3. QED
    BY <1>3, <1>4, <2>1, <2>2
<1>6. ASSUME NEW c \in Cores, write_slot(c) PROVE Consistent'
  <2>1. call[c].pc # "idle"
    BY <1>6 DEF write_slot, Fill, At
  <2>2. \E n : call' = [call EXCEPT ![c] = n] /\ GoesOn(n)'
    BY <1>4, <1>6, <2>1, WriteGoesOn
  <2>3. UNCHANGED <<flash, kept>>
    BY <1>6, WriteGoesOn
  <2>4. QED
    BY <1>1, <1>2, <1>4, <2>1, <2>2, <2>3 DEF Consistent
<1>7. ASSUME NEW c \in Cores, LockOut(c) PROVE Consistent'
  <2>1. call[c].pc # "idle" /\ UNCHANGED <<flash, ctx, kept>>
    BY <1>7 DEF LockOut, At
  <2>2. \E n : call' = [call EXCEPT ![c] = n] /\ GoesOn(n)
    BY <1>4, <1>7, <2>1, LockGoesOn
  <2>3. QED
    BY <1>3, <1>4, <2>1, <2>2
<1>8. ASSUME NEW c \in Cores, Erase(c) PROVE Consistent'
  <2>0. PICK k : k = call[c]
    OBVIOUS
  <2>1. /\ k.pc = "erase" /\ Knows(k) /\ k.slot \in SlotIdx /\ k.mac \in Macs /\ k.rec \in Profile
        /\ k \in CallRecord
        /\ flash' = [flash EXCEPT ![k.slot] = Erased]
        /\ flash[k.slot] # Erased => flash[k.slot].mac = k.mac
        /\ kept' = [kept EXCEPT ![k.mac] = NoProfile]
    BY <1>8, <2>0, Erased1
  <2>2. flash \in [SlotIdx -> Profile \cup {Erased}] /\ kept \in [Macs -> Profile \cup {NoProfile}]
        /\ ctx' = ctx
    BY <1>8 DEF Erase, Typed, TypeOK
  <2>3. Apart'
    BY <1>0, <2>1, <2>2 DEF Apart
  <2>4. ASSUME NEW m \in Macs, kept'[m] # NoProfile
        PROVE  \E i \in SlotIdx : flash'[i] = kept'[m] /\ flash'[i] # Erased /\ kept'[m].mac = m
    <3>1. m # k.mac /\ kept'[m] = kept[m]
      BY <2>1, <2>2, <2>4
    <3>2. PICK i \in SlotIdx : flash[i] = kept[m] /\ flash[i] # Erased /\ kept[m].mac = m
      BY <1>0, <2>4, <3>1 DEF KeptAreThere
    <3>3. i # k.slot
      BY <2>1, <3>1, <3>2
    <3>4. QED
      BY <2>1, <2>2, <3>1, <3>2, <3>3
  <2>5. PICK n : /\ WellFormed(n) /\ call' = [call EXCEPT ![c] = n]
                 /\ k.op = "forget" => n.pc = "idle"
                 /\ k.op # "forget" => n = [k EXCEPT !.pc = "program"]
    BY <1>8, <2>0, EraseGoesOn
  <2>6. WellFormed(n)'
    BY <2>5 DEF WellFormed, CallRecord
  <2>7. ASSUME k.op # "forget" PROVE Knows(n)'
    <3>1. /\ n.pc = "program" /\ n.mac = k.mac /\ n.rec = k.rec /\ n.op = k.op /\ n.saving = k.saving
          /\ n.slot = k.slot
      BY <2>1, <2>5, <2>7 DEF CallRecord
    <3>2. KnowsScan(k) /\ KnowsWrite(k)
      BY <2>1, <2>7 DEF Knows
    <3>3. ~k.saving => flash' = flash
      BY <2>1, <2>2, <3>2 DEF KnowsWrite, Writing
    <3>4. KnowsScan(n)'
      BY <2>1, <3>1, <3>2, <3>3 DEF KnowsScan, SlotsOf, PortIsFree, UsedPorts
    <3>5. SlotsOf(k.mac)' = {} /\ flash'[k.slot] = Erased
      <4>1. ASSUME NEW j \in SlotIdx, flash'[j] # Erased, flash'[j].mac = k.mac PROVE FALSE
        <5>1. j # k.slot /\ flash[j] # Erased /\ flash[j].mac = k.mac
          BY <2>1, <2>2, <4>1
        <5>2. k.saving => flash[k.slot] # Erased
          BY <2>1, <3>2 DEF KnowsWrite, Writing, IsProfileOf, slot_is_valid
        <5>3. ~k.saving => SlotsOf(k.mac) = {}
          BY <2>1, <3>2 DEF KnowsScan
        <5>4. QED
          BY <1>0, <2>1, <5>1, <5>2, <5>3 DEF Apart, SlotsOf
      <4>2. QED
        BY <2>1, <2>2, <4>1 DEF SlotsOf
    <3>6. KnowsWrite(n)'
      BY <2>1, <2>2, <3>1, <3>2, <3>5 DEF KnowsWrite, Writing, SlotsOf
    <3>7. QED
      BY <2>7, <3>1, <3>4, <3>6 DEF Knows
  <2>8. GoesOn(n)'
    BY <2>5, <2>6, <2>7 DEF GoesOn
  <2>9. Solo' /\ AllKnow'
    BY <1>1, <1>4, <2>0, <2>1, <2>5, <2>8
  <2>10. QED
    BY <2>3, <2>4, <2>9 DEF Consistent, KeptAreThere
<1>9. ASSUME NEW c \in Cores, Program(c) PROVE Consistent'
  <2> DEFINE k == call[c]
  <2>1. /\ k.pc = "program" /\ k.slot \in SlotIdx /\ k.mac \in Macs
        /\ k.rec \in Profile /\ k.rec.mac = k.mac
        /\ flash[k.slot] = Erased /\ SlotsOf(k.mac) = {}
        /\ flash' = [flash EXCEPT ![k.slot] = k.rec]
        /\ kept' = [kept EXCEPT ![k.mac] = k.rec]
    BY <1>9, Programmed1
  <2>2. flash \in [SlotIdx -> Profile \cup {Erased}] /\ kept \in [Macs -> Profile \cup {NoProfile}]
    BY DEF Typed, TypeOK
  <2>3. Solo' /\ AllKnow'
    BY <1>1, <1>4, <1>9, <2>1, ProgramGoesOn
  <2> HIDE DEF k
  <2>4. Apart'
    BY <1>0, <2>1, <2>2 DEF Apart, SlotsOf
  <2>5. KeptAreThere'
    <3>1. k.rec # Erased
      BY <2>1, NoProfileAssumption
    <3>2. QED
      BY <1>0, <2>1, <2>2, <3>1 DEF KeptAreThere
  <2>6. QED
    BY <2>3, <2>4, <2>5 DEF Consistent
<1>10. ASSUME NEW m \in Macs,
              \/ \E n \in {Named, Unnamed} : my_platform_on_device_connected(m, n)
              \/ my_platform_on_device_ready(m)
              \/ tud_msc_write10_cb(m)
              \/ process_serial_commands(m)
       PROVE  Consistent'
  <2>1. PICK c \in Cores, op \in {"connected", "ready", "write10", "forget"}, v \in {Named, Unnamed} :
          Begin(c, op, m, v)
    BY <1>10 DEF Cores, my_platform_on_device_connected, my_platform_on_device_ready, tud_msc_write10_cb,
                 process_serial_commands
  <2>2. UNCHANGED <<flash, ctx, kept>> /\ \A d \in Cores : call[d].pc = "idle"
    BY <2>1, BeginGoesOn
  <2>3. \E n : call' = [call EXCEPT ![c] = n] /\ GoesOn(n)
    BY <2>1, BeginGoesOn
  <2>4. QED
    BY <1>3, <2>2, <2>3
<1>11. CASE PowerCut
  <2>1. \A c \in Cores : call'[c].pc = "idle"
    BY <1>11 DEF PowerCut, Idle
  <2>2. QED
    BY <1>2, <1>11, <2>1 DEF PowerCut, Consistent, Solo, AllKnow
<1>12. CASE UNCHANGED vars
  BY <1>0, <1>12 DEF vars, Consistent, Solo, AllKnow, Apart, KeptAreThere, Knows, KnowsForget, KnowsScan,
     KnowsWrite, IsProfileOf, slot_is_valid, SlotsOf, PortIsFree, UsedPorts, PortsBelow
<1>13. QED
  BY <1>5, <1>6, <1>7, <1>8, <1>9, <1>10, <1>11, <1>12 DEF Next, Proceed

\* At first no call is under way.
LEMMA ConsistentInit == Init => Consistent
<1> SUFFICES ASSUME Init PROVE Consistent
  OBVIOUS
<1>1. \A c \in Cores : call[c].pc = "idle"
  BY DEF Init, Idle
<1>2. (\A i \in SlotIdx : flash[i] = Erased) /\ (\A m \in Macs : kept[m] = NoProfile)
  BY DEF Init
<1>3. QED
  BY <1>1, <1>2 DEF Consistent, Solo, AllKnow, Apart, KeptAreThere

\* The induction.
LEMMA Consistency ==
  ASSUME ~Overlap PROVE Spec => [](Typed /\ Consistent)
<1>1. Init => Typed /\ Consistent
  BY TypedInit, ConsistentInit
<1>2. Typed /\ Consistent /\ [Next]_vars => (Typed /\ Consistent)'
  BY TypedStep, ConsistentStep
<1>3. QED
  BY <1>1, <1>2, PTL DEF Spec

\* As long as calls do not overlap, no controller has two slots.
THEOREM OneSlotForEach ==
  ASSUME ~Overlap PROVE Spec => []OneSlotEach
<1>1. Consistent => OneSlotEach
  <2> SUFFICES ASSUME Consistent, NEW m \in Macs PROVE Cardinality(SlotsOf(m)) <= 1
    BY DEF OneSlotEach
  <2>1. CASE SlotsOf(m) = {}
    BY <2>1, FS_EmptySet
  <2>2. ASSUME NEW i \in SlotsOf(m) PROVE Cardinality(SlotsOf(m)) <= 1
    <3>1. SlotsOf(m) = {i}
      BY <2>2 DEF Consistent, Apart, SlotsOf
    <3>2. QED
      BY <3>1, FS_Singleton
  <2>3. QED
    BY <2>1, <2>2
<1>2. QED
  BY <1>1, Consistency, PTL

\* As long as calls do not overlap, what was reported as written is in the
\* flash as it was written.
THEOREM WrittenIsKept ==
  ASSUME ~Overlap PROVE Spec => []KeptProfiles
<1>1. Typed /\ Consistent => KeptProfiles
  <2> SUFFICES ASSUME Typed, Consistent, NEW m \in Macs, kept[m] # NoProfile
               PROVE  {flash[i] : i \in SlotsOf(m)} = {kept[m]}
    BY DEF KeptProfiles
  <2>1. PICK i \in SlotIdx : flash[i] = kept[m] /\ flash[i] # Erased /\ kept[m].mac = m
    BY DEF Consistent, KeptAreThere
  <2>2. SlotsOf(m) = {i}
    BY <2>1 DEF Consistent, Apart, SlotsOf
  <2>3. QED
    BY <2>1, <2>2
<1>2. QED
  BY <1>1, Consistency, PTL-----------------------------------------------------------------------------
\* The table of ProfileMap, read off the slots and off an update that is being
\* written.
ReadOff ==
  /\ Profiles \in [Macs -> Profile \cup {NoProfile}]
  /\ \A m \in Macs :
       /\ \A i \in SlotsOf(m) : Profiles[m] = flash[i]
       /\ SlotsOf(m) = {} => \A c \in InUpdate(m) : Profiles[m] = call[c].rec
       /\ SlotsOf(m) = {} /\ InUpdate(m) = {} => Profiles[m] = NoProfile

\* The profiles of the refinement, read off the flash and the update under way.
LEMMA ProfilesRead == Typed /\ Consistent => ReadOff
<1> SUFFICES ASSUME Typed, Consistent PROVE ReadOff
  OBVIOUS
<1>1. ASSUME NEW m \in Macs, NEW i \in SlotsOf(m)
      PROVE  Profiles[m] = flash[i] /\ flash[i] \in Profile
  <2>1. SlotsOf(m) = {i} /\ flash[i] \in Profile /\ i \in Nat
    BY Sizes DEF Consistent, Apart, SlotsOf, Typed, TypeOK
  <2>2. (CHOOSE h \in SlotsOf(m) : \A j \in SlotsOf(m) : h <= j) = i
    BY <2>1
  <2>3. QED
    BY <2>1, <2>2 DEF Profiles
<1>2. ASSUME NEW m \in Macs, SlotsOf(m) = {}, NEW c \in InUpdate(m)
      PROVE  Profiles[m] = call[c].rec /\ call[c].rec \in Profile
  <2>1. InUpdate(m) = {c}
    BY DEF Consistent, Solo, InUpdate
  <2>2. (CHOOSE d \in InUpdate(m) : TRUE) = c
    BY <2>1
  <2>3. call[c].rec \in Profile
    BY DEF InUpdate, Typed, WellFormed
  <2>4. QED
    BY <1>2, <2>2, <2>3 DEF Profiles
<1>3. ASSUME NEW m \in Macs, SlotsOf(m) = {}, InUpdate(m) = {} PROVE Profiles[m] = NoProfile
  BY <1>3 DEF Profiles
<1>4. \A m \in Macs : Profiles[m] \in Profile \cup {NoProfile}
  BY <1>1, <1>2, <1>3
<1>5. Profiles \in [Macs -> Profile \cup {NoProfile}]
  BY <1>4 DEF Profiles
<1>6. QED
  BY <1>1, <1>2, <1>3, <1>5 DEF ReadOff

\* The same of the next state.
LEMMA ProfilesReadNext == (Typed /\ Consistent)' => ReadOff'
  BY ProfilesRead, PTL

\* Nothing changes for a controller whose slots and updates stay the same.
LEMMA SameProfile ==
  ASSUME ReadOff, ReadOff', NEW m \in Macs,
         SlotsOf(m)' = SlotsOf(m), \A i \in SlotsOf(m) : flash'[i] = flash[i],
         SlotsOf(m) = {} => InUpdate(m) = {} /\ InUpdate(m)' = {}
  PROVE  Profiles'[m] = Profiles[m]
<1>1. CASE SlotsOf(m) = {}
  BY <1>1 DEF ReadOff
<1>2. ASSUME NEW i \in SlotsOf(m) PROVE Profiles'[m] = Profiles[m]
  BY <1>2 DEF ReadOff
<1>3. QED
  BY <1>1, <1>2

\* Profiles that agree for every controller are equal.
LEMMA SameProfiles ==
  ASSUME ReadOff, ReadOff', \A m \in Macs : Profiles'[m] = Profiles[m]
  PROVE  Profiles' = Profiles
  BY DEF ReadOff

\* Only the erasure of a slot for an update leads to the programming of it.
LEMMA NotToProgram ==
  ASSUME Typed, NEW c \in Cores,
         \/ find_slot_for_mac(c) \/ next_free_gc_port(c) \/ find_free_slot(c)
         \/ controller_config_delete_by_suffix(c) \/ write_slot(c) \/ LockOut(c) \/ Program(c)
  PROVE  call'[c].pc # "program"
<1> DEFINE k == call[c]
<1>1. k \in CallRecord /\ call \in [Cores -> CallRecord]
  BY DEF Typed, WellFormed, TypeOK
<1>2. ASSUME NEW p, NEW ok, NEW n \in AfterGet(k, p, ok) PROVE n.pc # "program"
  <2>1. n = Idle \/ \E r, m : n = [k EXCEPT !.pc = "find", !.i = 0, !.mac = m, !.saving = TRUE, !.rec = r]
    BY <1>2 DEF AfterGet
  <2>2. Idle.pc # "program"
    BY DEF Idle
  <2>3. ASSUME NEW r, NEW m, n = [k EXCEPT !.pc = "find", !.i = 0, !.mac = m, !.saving = TRUE, !.rec = r]
        PROVE  n.pc # "program"
    BY <1>1, <2>3 DEF CallRecord
  <2>4. QED
    BY <2>1, <2>2, <2>3
<1>3. ASSUME NEW ok, NEW n \in AfterWrite(k, ok) PROVE n.pc # "program"
  BY <1>2 DEF AfterWrite, Idle
<1>4. ASSUME NEW i, NEW n \in AfterFound(k, i) \cup AfterNotFound(k) PROVE n.pc # "program"
  <2>1. \/ n = [k EXCEPT !.pc = "blank", !.slot = i] \/ n = [k EXCEPT !.pc = "ports", !.i = 0]
        \/ n = Idle \/ n \in AfterGet(k, flash[i], TRUE)
    BY <1>4 DEF AfterFound, AfterNotFound
  <2>2. CASE n = [k EXCEPT !.pc = "blank", !.slot = i] \/ n = [k EXCEPT !.pc = "ports", !.i = 0]
    BY <1>1, <2>2 DEF CallRecord
  <2>3. Idle.pc # "program"
    BY DEF Idle
  <2>4. QED
    BY <1>2, <2>1, <2>2, <2>3
<1>5. ASSUME NEW n \in Onward(k), k.pc # "program" PROVE n.pc # "program"
  BY <1>1, <1>5 DEF Onward, CallRecord
<1>6. CASE find_slot_for_mac(c)
  <2>1. PICK n \in AfterFound(k, k.i) \cup AfterNotFound(k) \cup Onward(k) : call' = [call EXCEPT ![c] = n]
    BY <1>6 DEF find_slot_for_mac, Go
  <2>2. k.pc = "find"
    BY <1>6 DEF find_slot_for_mac, At
  <2>3. QED
    BY <1>1, <1>4, <1>5, <2>1, <2>2
<1>7. CASE next_free_gc_port(c)
  <2>1. PICK p, u, n : /\ n = [k EXCEPT !.pc = "free", !.i = 0, !.used = {}, !.rec.gc_port = p]
                             \/ n \in Onward([k EXCEPT !.used = u])
                       /\ call' = [call EXCEPT ![c] = n]
    BY <1>7 DEF next_free_gc_port, Go
  <2>2. k.pc = "ports"
    BY <1>7 DEF next_free_gc_port, At
  <2>3. QED
    BY <1>1, <2>1, <2>2 DEF Onward, CallRecord
<1>8. CASE find_free_slot(c)
  <2>1. PICK n \in {[k EXCEPT !.pc = "blank", !.slot = k.i]} \cup AfterGet(k, k.rec, FALSE) \cup Onward(k) :
          call' = [call EXCEPT ![c] = n]
    BY <1>8 DEF find_free_slot, Go
  <2>2. k.pc = "free"
    BY <1>8 DEF find_free_slot, At
  <2>3. n.pc # "program"
    <3>1. [k EXCEPT !.pc = "blank", !.slot = k.i].pc = "blank"
      BY <1>1 DEF CallRecord
    <3>2. QED
      BY <1>2, <1>5, <2>1, <2>2, <3>1
  <2>4. QED
    BY <1>1, <2>1, <2>3
<1>9. CASE controller_config_delete_by_suffix(c)
  <2>1. PICK n \in {[k EXCEPT !.pc = "lock", !.slot = k.i, !.mac = flash[k.i].mac]} \cup {Idle} \cup Onward(k) :
          call' = [call EXCEPT ![c] = n]
    BY <1>9 DEF controller_config_delete_by_suffix, Go
  <2>2. k.pc = "match"
    BY <1>9 DEF controller_config_delete_by_suffix, At
  <2>3. n.pc # "program"
    <3>1. [k EXCEPT !.pc = "lock", !.slot = k.i, !.mac = flash[k.i].mac].pc = "lock" /\ Idle.pc = "idle"
      BY <1>1 DEF CallRecord, Idle
    <3>2. QED
      BY <1>5, <2>1, <2>2, <3>1
  <2>4. QED
    BY <1>1, <2>1, <2>3
<1>10. CASE write_slot(c)
  BY <1>1, <1>10 DEF write_slot, Fill, Go, CallRecord
<1>11. CASE LockOut(c)
  <2>1. PICK n \in {[k EXCEPT !.pc = "erase"]} \cup AfterWrite(k, FALSE) : call' = [call EXCEPT ![c] = n]
    BY <1>11 DEF LockOut, Go
  <2>2. n.pc # "program"
    BY <1>1, <1>3, <2>1 DEF CallRecord
  <2>3. QED
    BY <1>1, <2>1, <2>2
<1>12. CASE Program(c)
  <2>1. PICK n \in AfterWrite(k, TRUE) : call' = [call EXCEPT ![c] = n]
    BY <1>12 DEF Program, Go
  <2>2. QED
    BY <1>1, <1>3, <2>1
<1>13. QED
  BY <1>6, <1>7, <1>8, <1>9, <1>10, <1>11, <1>12
\* Steps that leave the flash alone and neither begin nor end an update.
LEMMA QuietIsQuiet ==
  ASSUME ReadOff, ReadOff', UNCHANGED flash,
         \A c \in Cores : call[c].pc # "program" /\ call'[c].pc # "program"
  PROVE  Profiles' = Profiles
<1>1. ASSUME NEW m \in Macs PROVE Profiles'[m] = Profiles[m]
  <2>1. SlotsOf(m)' = SlotsOf(m) /\ InUpdate(m) = {} /\ InUpdate(m)' = {}
    BY DEF SlotsOf, InUpdate
  <2>2. QED
    BY <2>1, SameProfile
<1>2. QED
  BY <1>1, SameProfiles

\* Erasing a slot forgets its controller, updates it, or changes nothing.
LEMMA ErasedProfile ==
  ASSUME Typed, Consistent, Typed', Consistent', NEW c \in Cores, Erase(c)
  PROVE  [Map!Next]_Profiles
<1>1. PICK k : k = call[c]
  OBVIOUS
<1>2. /\ k.pc = "erase" /\ Knows(k) /\ k.slot \in SlotIdx /\ k.mac \in Macs /\ k.rec \in Profile
      /\ k \in CallRecord
      /\ flash' = [flash EXCEPT ![k.slot] = Erased]
      /\ flash[k.slot] # Erased => flash[k.slot].mac = k.mac
  BY <1>1, Erased1
<1>3. flash \in [SlotIdx -> Profile \cup {Erased}] /\ call \in [Cores -> CallRecord]
  BY DEF Typed, TypeOK
<1>4. ReadOff /\ ReadOff'
  BY ProfilesRead, ProfilesReadNext
<1>5. \A d \in Cores : d # c => call[d].pc = "idle"
  BY <1>1, <1>2 DEF Consistent, Solo
<1>6. PICK n : /\ call' = [call EXCEPT ![c] = n]
               /\ k.op = "forget" => n.pc = "idle"
               /\ k.op # "forget" => n = [k EXCEPT !.pc = "program"]
  BY <1>1, EraseGoesOn
<1>7. call'[c] = n /\ \A d \in Cores : d # c => call'[d].pc = "idle"
  BY <1>3, <1>5, <1>6
<1>8. ASSUME NEW m \in Macs, m # k.mac PROVE Profiles'[m] = Profiles[m]
  <2>1. SlotsOf(m)' = SlotsOf(m) /\ \A i \in SlotsOf(m) : flash'[i] = flash[i]
    BY <1>2, <1>3, <1>8 DEF SlotsOf
  <2>2. n.pc = "program" => n.mac = k.mac
    BY <1>2, <1>6 DEF CallRecord
  <2>3. InUpdate(m) = {} /\ InUpdate(m)' = {}
    BY <1>1, <1>2, <1>5, <1>7, <1>8, <2>2 DEF InUpdate
  <2>4. QED
    BY <1>4, <2>1, <2>3, SameProfile
<1>9. CASE flash[k.slot] = Erased
  <2>1. k.op # "forget" /\ ~k.saving
    BY <1>2, <1>9 DEF Knows, KnowsForget, KnowsWrite, Writing, IsProfileOf, slot_is_valid
  <2>2. n.pc = "program" /\ n.saving = k.saving
    BY <1>2, <1>6, <2>1 DEF CallRecord
  <2>3. flash' = flash
    BY <1>2, <1>3, <1>9
  <2>4. SlotsOf(k.mac)' = SlotsOf(k.mac) /\ InUpdate(k.mac) = {} /\ InUpdate(k.mac)' = {}
    BY <1>1, <1>2, <1>5, <1>7, <2>1, <2>2, <2>3 DEF SlotsOf, InUpdate
  <2>5. Profiles'[k.mac] = Profiles[k.mac]
    BY <1>2, <1>4, <2>3, <2>4, SameProfile
  <2>6. Profiles' = Profiles
    BY <1>4, <1>8, <2>5, SameProfiles
  <2>7. QED
    BY <2>6
<1>10. CASE flash[k.slot] # Erased
  <2>1. k.slot \in SlotsOf(k.mac) /\ flash[k.slot] \in Profile
    BY <1>2, <1>3, <1>10 DEF SlotsOf
  <2>2. Profiles[k.mac] \in Profile
    BY <1>2, <1>4, <2>1 DEF ReadOff
  <2>3. ASSUME NEW j \in SlotIdx, flash'[j] # Erased, flash'[j].mac = k.mac PROVE FALSE
    <3>1. j # k.slot /\ flash[j] # Erased /\ flash[j].mac = k.mac
      BY <1>2, <1>3, <2>3
    <3>2. QED
      BY <1>2, <1>10, <3>1 DEF Consistent, Apart
  <2>4. {i \in SlotIdx : flash'[i] # Erased /\ flash'[i].mac = k.mac} = {}
    BY <2>3
  <2>5. SlotsOf(k.mac)' = {}
    BY <2>4 DEF SlotsOf
  <2>6. Map!Stored = {m \in Macs : Profiles[m] # NoProfile} /\ k.mac \in Map!Stored
    BY <1>2, <2>2, NoProfileAssumption DEF Map!Stored
  <2>7. CASE k.op = "forget"
    <3>1. InUpdate(k.mac)' = {}
      BY <1>6, <1>7, <2>7 DEF InUpdate
    <3>2. Profiles'[k.mac] = NoProfile
      BY <1>2, <1>4, <2>5, <3>1 DEF ReadOff
    <3>3. Profiles' = [Profiles EXCEPT ![k.mac] = NoProfile]
      BY <1>4, <1>8, <3>2 DEF ReadOff
    <3>4. Map!Remove(k.mac)
      BY <2>6, <3>3 DEF Map!Remove
    <3>5. QED
      BY <1>2, <3>4 DEF Map!Next
  <2>8. CASE k.op # "forget"
    <3>1. k.saving /\ k.rec.mac = k.mac
      BY <1>2, <1>10, <2>8 DEF Knows, KnowsWrite, KnowsScan, Writing, CallRecord
    <3>2. n.pc = "program" /\ n.saving /\ n.mac = k.mac /\ n.rec = k.rec
      BY <1>2, <1>6, <2>8, <3>1 DEF CallRecord
    <3>3. c \in InUpdate(k.mac)'
      BY <1>7, <3>2 DEF InUpdate
    <3>4. Profiles'[k.mac] = k.rec
      BY <1>2, <1>4, <1>7, <2>5, <3>2, <3>3 DEF ReadOff
    <3>5. Profiles' = [Profiles EXCEPT ![k.mac] = k.rec]
      BY <1>4, <1>8, <3>4 DEF ReadOff
    <3>6. k.rec = [mac |-> k.mac, model_name |-> k.rec.model_name, gc_port |-> k.rec.gc_port]
          /\ k.rec.model_name \in {Named, Unnamed} /\ k.rec.gc_port \in Ports
      BY <1>2, <3>1 DEF Profile
    <3>7. Map!Update(k.mac)
      BY <2>6, <3>5, <3>6 DEF Map!Update
    <3>8. QED
      BY <1>2, <3>7 DEF Map!Next
  <2>9. QED
    BY <2>7, <2>8
<1>11. QED
  BY <1>9, <1>10

\* There is room for a controller that is given a free slot.
LEMMA RoomForOne ==
  ASSUME Typed, Consistent, ReadOff, \A m \in Macs : InUpdate(m) = {},
         NEW s \in SlotIdx, flash[s] = Erased
  PROVE  Cardinality(Map!Stored) < MAX_SLOTS
<1> DEFINE T == SlotIdx \ {s}
           f == [m \in Map!Stored |-> CHOOSE i \in SlotIdx : i \in SlotsOf(m)]
<1>1. Map!Stored \subseteq Macs /\ \A m \in Map!Stored : SlotsOf(m) # {}
  BY DEF Map!Stored, ReadOff
<1>2. ASSUME NEW m \in Map!Stored PROVE f[m] \in T /\ flash[f[m]].mac = m
  <2>1. \E i \in SlotIdx : i \in SlotsOf(m)
    BY <1>1 DEF SlotsOf
  <2>2. f[m] \in SlotIdx /\ f[m] \in SlotsOf(m)
    BY <2>1
  <2>3. QED
    BY <2>2 DEF SlotsOf
<1>3. f \in [Map!Stored -> T]
  BY <1>2
<1>4. \A a, b \in Map!Stored : f[a] = f[b] => a = b
  BY <1>2
<1> HIDE DEF f
<1>5. f \in Injection(Map!Stored, T)
  BY <1>3, <1>4 DEF Injection, IsInjective
<1>6. IsFiniteSet(T) /\ Cardinality(T) = MAX_SLOTS - 1
  <2>1. IsFiniteSet(SlotIdx) /\ Cardinality(SlotIdx) = MAX_SLOTS
    BY Sizes, FS_Interval DEF SlotIdx
  <2>2. QED
    BY <2>1, FS_RemoveElement
<1>7. Cardinality(Map!Stored) <= MAX_SLOTS - 1 /\ Cardinality(Map!Stored) \in Nat
  <2>1. IsFiniteSet(Map!Stored) /\ Cardinality(Map!Stored) <= Cardinality(T)
    BY <1>5, <1>6, FS_Injection
  <2>2. QED
    BY <1>6, <2>1, FS_CardinalityType
<1>8. QED
  BY <1>7, Sizes

\* Programming a slot creates the controller, or ends its update.
LEMMA ProgrammedProfile ==
  ASSUME Typed, Consistent, Typed', Consistent', NEW c \in Cores, Program(c)
  PROVE  [Map!Next]_Profiles
<1>1. PICK k : k = call[c]
  OBVIOUS
<1>2. /\ k.pc = "program" /\ k.op # "forget" /\ k.slot \in SlotIdx /\ k.mac \in Macs
      /\ k.rec \in Profile /\ k.rec.mac = k.mac /\ KnowsScan(k)
      /\ flash[k.slot] = Erased /\ SlotsOf(k.mac) = {}
      /\ flash' = [flash EXCEPT ![k.slot] = k.rec]
  BY <1>1, Programmed1
<1>3. flash \in [SlotIdx -> Profile \cup {Erased}]
  BY DEF Typed, TypeOK
<1>4. ReadOff /\ ReadOff'
  BY ProfilesRead, ProfilesReadNext
<1>5. \A d \in Cores : d # c => call[d].pc = "idle"
  BY <1>1, <1>2 DEF Consistent, Solo
<1>6. \A d \in Cores : call'[d].pc # "program"
  <2>1. call'[c].pc # "program"
    BY NotToProgram
  <2>2. PICK n : call' = [call EXCEPT ![c] = n]
    BY ProgramGoesOn
  <2>3. QED
    BY <1>5, <2>1, <2>2 DEF Typed, TypeOK
<1>7. \A m \in Macs : InUpdate(m)' = {} /\ (m # k.mac => InUpdate(m) = {})
  BY <1>1, <1>5, <1>6 DEF InUpdate
<1>8. ASSUME NEW m \in Macs, m # k.mac PROVE Profiles'[m] = Profiles[m]
  <2>1. SlotsOf(m)' = SlotsOf(m) /\ \A i \in SlotsOf(m) : flash'[i] = flash[i]
    BY <1>2, <1>3, <1>8 DEF SlotsOf
  <2>2. QED
    BY <1>4, <1>7, <1>8, <2>1, SameProfile
<1>9. Profiles'[k.mac] = k.rec
  <2>1. flash'[k.slot] = k.rec /\ k.rec # Erased
    BY <1>2, <1>3, NoProfileAssumption
  <2>2. k.slot \in {i \in SlotIdx : flash'[i] # Erased /\ flash'[i].mac = k.mac}
    BY <1>2, <2>1
  <2>3. k.slot \in SlotsOf(k.mac)'
    BY <2>2 DEF SlotsOf
  <2>4. QED
    BY <1>2, <1>4, <2>1, <2>3 DEF ReadOff
<1>10. CASE k.saving
  <2>1. c \in InUpdate(k.mac)
    BY <1>1, <1>2, <1>10 DEF InUpdate
  <2>2. Profiles[k.mac] = k.rec
    BY <1>1, <1>2, <1>4, <2>1 DEF ReadOff
  <2>3. Profiles' = Profiles
    BY <1>4, <1>8, <1>9, <2>2, SameProfiles
  <2>4. QED
    BY <2>3
<1>11. CASE ~k.saving
  <2>1. \A m \in Macs : InUpdate(m) = {}
    BY <1>1, <1>5, <1>11 DEF InUpdate
  <2>2. Cardinality(Map!Stored) < MAX_SLOTS
    BY <1>2, <1>4, <2>1, RoomForOne
  <2>3. k.mac \notin Map!Stored
    BY <1>2, <1>4, <2>1 DEF ReadOff, Map!Stored
  <2>4. PortIsFree(k.rec.gc_port)
    BY <1>2, <1>11 DEF KnowsScan
  <2>5. Map!PortsInUse = UsedPorts
    <3>1. ASSUME NEW m \in Map!Stored PROVE Profiles[m].gc_port \in UsedPorts
      <4>1. PICK i \in SlotsOf(m) : Profiles[m] = flash[i]
        BY <1>4, <2>1 DEF ReadOff, Map!Stored
      <4>2. QED
        BY <4>1 DEF SlotsOf, UsedPorts
    <3>2. ASSUME NEW j \in SlotIdx, flash[j] # Erased PROVE flash[j].gc_port \in Map!PortsInUse
      <4>1. flash[j] \in Profile
        BY <1>3, <3>2
      <4>2. flash[j].mac \in Macs /\ j \in SlotsOf(flash[j].mac)
        BY <3>2, <4>1 DEF Profile, SlotsOf
      <4>3. Profiles[flash[j].mac] = flash[j]
        BY <1>4, <4>2 DEF ReadOff
      <4>4. flash[j].mac \in Map!Stored
        BY <4>1, <4>2, <4>3, NoProfileAssumption DEF Map!Stored
      <4>5. QED
        BY <4>3, <4>4 DEF Map!PortsInUse
    <3>3. QED
      BY <3>1, <3>2 DEF Map!PortsInUse, UsedPorts
  <2>6. Profiles' = [Profiles EXCEPT ![k.mac] = k.rec]
    BY <1>4, <1>8, <1>9 DEF ReadOff
  <2>7. k.rec = [mac |-> k.mac, model_name |-> k.rec.model_name, gc_port |-> k.rec.gc_port]
        /\ k.rec.model_name \in {Named, Unnamed} /\ k.rec.gc_port \in Ports
    BY <1>2 DEF Profile
  <2>8. Map!Create(k.mac)
    <3> DEFINE v == k.rec.model_name
               q == k.rec.gc_port
    <3>1. q \notin Map!PortsInUse \/ (Map!PortsInUse = Ports /\ q = 0)
      BY <2>4, <2>5 DEF PortIsFree
    <3>2. Profiles' = [Profiles EXCEPT ![k.mac] = [mac |-> k.mac, model_name |-> v, gc_port |-> q]]
      BY <2>6, <2>7
    <3>3. v \in {Named, Unnamed} /\ q \in Ports
      BY <2>7
    <3> HIDE DEF v, q
    <3>4. \E n \in {Named, Unnamed}, p \in Ports :
            /\ p \notin Map!PortsInUse \/ (Map!PortsInUse = Ports /\ p = 0)
            /\ Profiles' = [Profiles EXCEPT ![k.mac] = [mac |-> k.mac, model_name |-> n, gc_port |-> p]]
      BY <3>1, <3>2, <3>3
    <3>5. Map!Cardinality(Map!Stored) < MAX_SLOTS
      BY <2>2 DEF Cardinality, Map!Cardinality
    <3>6. QED
      BY <2>3, <3>4, <3>5 DEF Map!Create
  <2>9. QED
    BY <1>2, <2>8 DEF Map!Next
<1>12. QED
  BY <1>10, <1>11
\* A power cut takes away the update that was being programmed, if one was.
LEMMA CutProfile ==
  ASSUME Typed, Consistent, Typed', Consistent', PowerCut
  PROVE  [Map!Next]_Profiles
<1>1. ReadOff /\ ReadOff' /\ flash' = flash
  BY ProfilesRead, ProfilesReadNext DEF PowerCut
<1>2. \A m \in Macs : SlotsOf(m)' = SlotsOf(m) /\ InUpdate(m)' = {}
  <2>1. \A c \in Cores : call'[c].pc = "idle"
    BY DEF PowerCut, Idle
  <2>2. QED
    BY <1>1, <2>1 DEF SlotsOf, InUpdate
<1>3. ASSUME NEW m \in Macs, InUpdate(m) = {} PROVE Profiles'[m] = Profiles[m]
  BY <1>1, <1>2, <1>3, SameProfile
<1>4. CASE \A m \in Macs : InUpdate(m) = {}
  BY <1>1, <1>3, <1>4, SameProfiles
<1>5. ASSUME NEW x \in Macs, NEW c \in InUpdate(x) PROVE [Map!Next]_Profiles
  <2>1. call[c].pc = "program" /\ call[c].mac = x /\ c \in Cores
    BY DEF InUpdate
  <2>2. Knows(call[c]) /\ call[c].rec \in Profile
    BY <2>1 DEF Consistent, AllKnow, Typed, WellFormed
  <2>3. SlotsOf(x) = {}
    BY <2>1, <2>2 DEF Knows, KnowsForget, KnowsWrite
  <2>4. Profiles[x] \in Profile /\ Profiles'[x] = NoProfile
    BY <1>1, <1>2, <2>2, <2>3 DEF ReadOff
  <2>5. \A m \in Macs : m # x => InUpdate(m) = {}
    BY <2>1 DEF Consistent, Solo, InUpdate
  <2>6. Profiles' = [Profiles EXCEPT ![x] = NoProfile]
    BY <1>1, <1>3, <2>4, <2>5 DEF ReadOff
  <2>7. Map!Remove(x)
    BY <2>4, <2>6, NoProfileAssumption DEF Map!Remove, Map!Stored
  <2>8. QED
    BY <2>7 DEF Map!Next
<1>6. QED
  BY <1>4, <1>5

\* Every step of the store is a step of the map or leaves it alone.
LEMMA ProfileStep ==
  Typed /\ Consistent /\ (Typed /\ Consistent)' /\ [Next]_vars /\ ~Overlap => [Map!Next]_Profiles
<1> SUFFICES ASSUME Typed, Consistent, (Typed /\ Consistent)', [Next]_vars, ~Overlap
             PROVE  [Map!Next]_Profiles
  OBVIOUS
<1>1. ReadOff /\ ReadOff' /\ call \in [Cores -> CallRecord]
  BY ProfilesRead, ProfilesReadNext DEF Typed, TypeOK
<1>2. ASSUME NEW c \in Cores, NEW n, call' = [call EXCEPT ![c] = n], call'[c].pc # "program",
             \A d \in Cores : call[d].pc # "program", UNCHANGED flash
      PROVE  [Map!Next]_Profiles
  <2>1. \A d \in Cores : call'[d].pc # "program"
    BY <1>1, <1>2
  <2>2. QED
    BY <1>1, <1>2, <2>1, QuietIsQuiet
<1>3. ASSUME NEW c \in Cores, call[c].pc \notin {"idle", "program"}
      PROVE  \A d \in Cores : call[d].pc # "program"
  BY <1>3 DEF Consistent, Solo
<1>4. ASSUME NEW c \in Cores,
             find_slot_for_mac(c) \/ next_free_gc_port(c) \/ find_free_slot(c)
               \/ controller_config_delete_by_suffix(c)
      PROVE  [Map!Next]_Profiles
  <2>1. call[c].pc \notin {"idle", "program"} /\ UNCHANGED flash
    BY <1>4 DEF find_slot_for_mac, next_free_gc_port, find_free_slot, controller_config_delete_by_suffix, At
  <2>2. \E n : call' = [call EXCEPT ![c] = n]
    BY <1>4, FindGoesOn, PortsGoOn, FreeGoesOn, MatchGoesOn
  <2>3. call'[c].pc # "program"
    BY <1>4, NotToProgram
  <2>4. QED
    BY <1>2, <1>3, <2>1, <2>2, <2>3
<1>5. ASSUME NEW c \in Cores, write_slot(c) PROVE [Map!Next]_Profiles
  <2>1. call[c].pc \notin {"idle", "program"} /\ UNCHANGED flash
    BY <1>5 DEF write_slot, Fill, At
  <2>2. (\E n : call' = [call EXCEPT ![c] = n]) /\ call'[c].pc # "program"
    BY <1>5, WriteGoesOn, NotToProgram
  <2>3. QED
    BY <1>2, <1>3, <2>1, <2>2
<1>6. ASSUME NEW c \in Cores, LockOut(c) PROVE [Map!Next]_Profiles
  <2>1. call[c].pc \notin {"idle", "program"} /\ UNCHANGED flash
    BY <1>6 DEF LockOut, At
  <2>2. (\E n : call' = [call EXCEPT ![c] = n]) /\ call'[c].pc # "program"
    BY <1>6, LockGoesOn, NotToProgram
  <2>3. QED
    BY <1>2, <1>3, <2>1, <2>2
<1>7. ASSUME NEW c \in Cores, Erase(c) \/ Program(c) PROVE [Map!Next]_Profiles
  BY <1>7, ErasedProfile, ProgrammedProfile
<1>8. ASSUME NEW m \in Macs,
             \/ \E n \in {Named, Unnamed} : my_platform_on_device_connected(m, n)
             \/ my_platform_on_device_ready(m)
             \/ tud_msc_write10_cb(m)
             \/ process_serial_commands(m)
      PROVE  [Map!Next]_Profiles
  <2>1. PICK c \in Cores, op \in {"connected", "ready", "write10", "forget"}, v \in {Named, Unnamed} :
          Begin(c, op, m, v)
    BY <1>8 DEF Cores, my_platform_on_device_connected, my_platform_on_device_ready, tud_msc_write10_cb,
                process_serial_commands
  <2>2. UNCHANGED flash /\ \A d \in Cores : call[d].pc # "program"
    BY <2>1, BeginGoesOn
  <2>3. call' = [call EXCEPT ![c] = [Idle EXCEPT !.pc = IF op = "forget" THEN "match" ELSE "find",
             !.op = op, !.mac = m, !.rec = [mac |-> m, model_name |-> v, gc_port |-> 0]]]
    BY <2>1 DEF Begin, Go
  <2>4. call'[c].pc # "program"
    BY <1>1, <2>3 DEF Idle
  <2>5. QED
    BY <1>2, <2>2, <2>3, <2>4
<1>9. CASE PowerCut
  BY <1>9, CutProfile
<1>10. CASE UNCHANGED vars
  <2>1. \A m \in Macs : SlotsOf(m)' = SlotsOf(m) /\ InUpdate(m)' = InUpdate(m)
    BY <1>10 DEF vars, SlotsOf, InUpdate
  <2>2. ReadOff /\ ReadOff' /\ flash' = flash
    BY <1>10, ProfilesRead, ProfilesReadNext DEF vars
  <2>3. ASSUME NEW m \in Macs PROVE Profiles'[m] = Profiles[m]
    <3>1. CASE SlotsOf(m) # {} \/ InUpdate(m) = {}
      BY <2>1, <2>2, <3>1, SameProfile
    <3>2. CASE SlotsOf(m) = {} /\ InUpdate(m) # {}
      BY <1>10, <2>1, <2>2, <3>2 DEF ReadOff, vars
    <3>3. QED
      BY <3>1, <3>2
  <2>4. QED
    BY <2>2, <2>3, SameProfiles
<1>11. QED
  BY <1>4, <1>5, <1>6, <1>7, <1>8, <1>9, <1>10 DEF Next, Proceed

\* As long as calls do not overlap, the slots implement the table of
\* ProfileMap, through every refusal and every power cut.
THEOREM StoreImplementsMap ==
  ASSUME ~Overlap PROVE Spec => ImplementsProfileMap
<1>1. Init => Map!Init
  <2> SUFFICES ASSUME Init PROVE Map!Init
    OBVIOUS
  <2>1. ReadOff
    BY TypedInit, ConsistentInit, ProfilesRead
  <2>2. \A m \in Macs : SlotsOf(m) = {} /\ InUpdate(m) = {}
    BY DEF Init, SlotsOf, InUpdate, Idle
  <2>3. \A m \in Macs : Profiles[m] = NoProfile
    BY <2>1, <2>2 DEF ReadOff
  <2>4. QED
    BY <2>1, <2>3 DEF Map!Init, ReadOff
<1>2. Typed /\ Consistent /\ (Typed /\ Consistent)' /\ [Next]_vars => [Map!Next]_Profiles
  BY ProfileStep
<1>3. QED
  BY <1>1, <1>2, Consistency, PTL DEF Spec, ImplementsProfileMap, Map!Spec
=============================================================================
