---------------------------- MODULE ProfileStore ----------------------------
(***************************************************************************)
(* The profiles of src/controller_config.c: one sector of flash for each,  *)
(* found by scanning, written by erasing and programming.  Core 1 calls it *)
(* when a controller connects and is ready, core 0 when a file of the      *)
(* configuration drive is written and for the command "forget".  Every     *)
(* read of a slot, and every step of a write, is a step of its own; the    *)
(* power may fail between any two.                                         *)
(*                                                                         *)
(* The four remap fields of a profile go the way of gc_port and are left   *)
(* out; a name is Unnamed when it is empty or "Unknown controller".  A     *)
(* sector whose checksum is wrong counts as Erased, which is all           *)
(* slot_is_valid tells its callers.                                        *)
(***************************************************************************)
EXTENDS Integers, FiniteSets

CONSTANTS
  MAX_SLOTS,          \* CONTROLLER_CONFIG_MAX_SLOTS: 32
  MAX_FILES,          \* files of the configuration drive: 16
  NumPorts,           \* 4
  Macs, Suffix,       \* Bluetooth addresses, and the last three bytes of each
  Named, Unnamed,     \* model names
  NoMac, Erased,      \* no address; what an invalid slot holds
  NoCore, NoProfile,  \* nobody; nothing
  Overlap             \* whether a call may begin while the other core is in one

ASSUME StoreAssumption ==
  /\ MAX_SLOTS \in Nat \ {0} /\ MAX_FILES \in Nat /\ NumPorts \in Nat \ {0}
  /\ NoMac \notin Macs /\ Named # Unnamed /\ Overlap \in BOOLEAN
  /\ NoCore \notin {0, 1}

Cores == {0, 1}
SlotIdx == 0 .. MAX_SLOTS - 1
Ports == 0 .. NumPorts - 1
Profile == [mac : Macs, model_name : {Named, Unnamed}, gc_port : Ports]

ASSUME NoProfileAssumption == Erased \notin Profile /\ NoProfile \notin Profile

VARIABLES
  flash,    \* the contents of the slots
  ctx,      \* the static context of write_slot, its buffer in two halves
  holder,   \* the core inside flash_safe_execute; the other one is paused
  call,     \* for each core, the call it is in
  files,    \* the addresses the configuration drive listed at boot
  kept      \* history: the profiles whose write was reported as a success

vars == <<flash, ctx, holder, call, files, kept>>

BlankProfile == [mac |-> NoMac, model_name |-> Unnamed, gc_port |-> 0]
BlankCtx == [slot |-> -1, head |-> Erased, tail |-> Erased]
Idle == [pc |-> "idle", op |-> "none", mac |-> NoMac, i |-> 0, slot |-> 0,
         rec |-> BlankProfile, used |-> {}, saving |-> FALSE]

Init ==
  /\ flash = [i \in SlotIdx |-> Erased]
  /\ ctx = [slot |-> 0, head |-> Erased, tail |-> Erased]
  /\ holder = NoCore
  /\ call = [c \in Cores |-> Idle]
  /\ files = {}
  /\ kept = [m \in Macs |-> NoProfile]

slot_is_valid(i) == flash[i] # Erased
-----------------------------------------------------------------------------
(* What a call goes on with: sets of possible continuations.                 *)

\* The callers of get_or_create, once it returned.  A name that was missing is
\* filled in when the controller is ready, and a file may hold any port.
AfterGet(k, p, ok) ==
  CASE ok /\ k.op = "ready" /\ p.model_name = Unnamed ->
         {[k EXCEPT !.pc = "find", !.i = 0, !.mac = p.mac, !.saving = TRUE,
                    !.rec = [p EXCEPT !.model_name = Named]]}
    [] ok /\ k.op = "write10" ->
         {[k EXCEPT !.pc = "find", !.i = 0, !.mac = p.mac, !.saving = TRUE,
                    !.rec = [p EXCEPT !.gc_port = q]] : q \in Ports}
    [] OTHER -> {Idle}

AfterWrite(k, ok) == IF k.saving \/ k.op = "forget" THEN {Idle} ELSE AfterGet(k, k.rec, ok)

AfterFound(k, i) ==
  IF k.saving THEN {[k EXCEPT !.pc = "blank", !.slot = i]}
              ELSE AfterGet(k, flash[i], TRUE)

AfterNotFound(k) ==
  IF k.saving THEN {Idle} ELSE {[k EXCEPT !.pc = "ports", !.i = 0]}

\* Core c, at l and not paused by the other core, goes on with one of those.
At(c, l) == call[c].pc = l /\ holder \in {NoCore, c}
Go(c, ks) == \E k \in ks : call' = [call EXCEPT ![c] = k]
Onward(k) == {[k EXCEPT !.i = @ + 1]}
Last(k) == k.i = MAX_SLOTS - 1
-----------------------------------------------------------------------------
(* The calls.                                                                *)

Begin(c, op, m, n) ==
  /\ call[c] = Idle /\ holder \in {NoCore, c}
  /\ Overlap \/ \A d \in Cores : call[d] = Idle
  /\ Go(c, {[Idle EXCEPT !.pc = IF op = "forget" THEN "match" ELSE "find",
             !.op = op, !.mac = m, !.rec = [mac |-> m, model_name |-> n, gc_port |-> 0]]})
  /\ UNCHANGED <<flash, ctx, holder, files, kept>>

\* Bluepad32 reports a controller as connected, with a name or without one, and
\* later as ready, when it has a name; the profile may have been forgotten in
\* between.  On core 0 a file is written, or a suffix typed.
my_platform_on_device_connected(m, n) == Begin(1, "connected", m, n)
my_platform_on_device_ready(m) == Begin(1, "ready", m, Named)
tud_msc_write10_cb(m) == m \in files /\ Begin(0, "write10", m, Unnamed)
process_serial_commands(m) == Begin(0, "forget", m, Unnamed)

FindEnds_AtHole(k) == Last(k) \/ ~slot_is_valid(k.i)
FindEnds(k) == Last(k)
IsProfileOf(i, m) == slot_is_valid(i) /\ flash[i].mac = m

find_slot_for_mac(c) ==
  LET k == call[c] IN
  /\ At(c, "find")
  /\ Go(c, CASE IsProfileOf(k.i, k.mac) -> AfterFound(k, k.i)
             [] ~IsProfileOf(k.i, k.mac) /\ FindEnds(k) -> AfterNotFound(k)
             [] OTHER -> Onward(k))
  /\ UNCHANGED <<flash, ctx, holder, files, kept>>

FreePort_Past(used) == CHOOSE p \in 0 .. NumPorts : p \notin used /\ \A q \in 0 .. p - 1 : q \in used
FreePort_Zero(used) == 0
FreePort(used) ==
  IF Ports \subseteq used THEN 0
  ELSE CHOOSE p \in Ports \ used : \A q \in Ports \ used : p <= q

\* The defaults of a new profile are complete with its port.
next_free_gc_port(c) ==
  LET k == call[c]
      used == k.used \cup IF slot_is_valid(k.i) THEN {flash[k.i].gc_port} ELSE {} IN
  /\ At(c, "ports")
  /\ Go(c, IF Last(k)
           THEN {[k EXCEPT !.pc = "free", !.i = 0, !.used = {}, !.rec.gc_port = FreePort(used)]}
           ELSE Onward([k EXCEPT !.used = used]))
  /\ UNCHANGED <<flash, ctx, holder, files, kept>>

\* When the table is full, the profile serves for this connection only.
find_free_slot(c) ==
  LET k == call[c] IN
  /\ At(c, "free")
  /\ Go(c, CASE ~slot_is_valid(k.i) -> {[k EXCEPT !.pc = "blank", !.slot = k.i]}
             [] slot_is_valid(k.i) /\ Last(k) -> AfterGet(k, k.rec, FALSE)
             [] OTHER -> Onward(k))
  /\ UNCHANGED <<flash, ctx, holder, files, kept>>

\* The suffix is that of the address the call began with.
controller_config_delete_by_suffix(c) ==
  LET k == call[c]
      matches == slot_is_valid(k.i) /\ Suffix[flash[k.i].mac] = Suffix[k.mac] IN
  /\ At(c, "match")
  /\ Go(c, CASE matches -> {[k EXCEPT !.pc = "lock", !.slot = k.i, !.mac = flash[k.i].mac]}
             [] ~matches /\ Last(k) -> {Idle}
             [] OTHER -> Onward(k))
  /\ UNCHANGED <<flash, ctx, holder, files, kept>>
-----------------------------------------------------------------------------
(* write_slot and the two callbacks of flash_safe_execute.                   *)

Fill(c, from, to, new) ==
  /\ At(c, from)
  /\ ctx' = new
  /\ Go(c, {[call[c] EXCEPT !.pc = to]})
  /\ UNCHANGED <<flash, holder, files, kept>>

\* The two halves stand for a copy another core can get in the middle of.
write_slot(c) ==
  LET k == call[c] IN
  \/ Fill(c, "blank", "slot", BlankCtx)
  \/ Fill(c, "slot", "head", [ctx EXCEPT !.slot = k.slot])
  \/ Fill(c, "head", "tail", [ctx EXCEPT !.head = k.rec])
  \/ Fill(c, "tail", "lock", [ctx EXCEPT !.tail = k.rec])

\* The other core is paused, or does not reach a safe place within a second.
LockOut(c) ==
  /\ At(c, "lock") /\ holder = NoCore
  /\ \/ holder' = c /\ Go(c, {[call[c] EXCEPT !.pc = "erase"]})
     \/ holder' = holder /\ Go(c, AfterWrite(call[c], FALSE))
  /\ UNCHANGED <<flash, ctx, files, kept>>

\* write_slot_unsafe erases the slot its static context names, and
\* erase_slot_unsafe the one of its own.  A slot of -1 is the sector in front
\* of the table, where nothing is kept.
Target_Static(k) == ctx.slot
Target(k) == IF k.op = "forget" THEN k.slot ELSE ctx.slot

Erase(c) ==
  LET k == call[c] IN
  /\ At(c, "erase")
  /\ flash' = [i \in SlotIdx |-> IF i = Target(k) THEN Erased ELSE flash[i]]
  /\ kept' = [kept EXCEPT ![k.mac] = NoProfile]
  /\ IF k.op = "forget" THEN holder' = NoCore /\ Go(c, AfterWrite(k, TRUE))
                        ELSE holder' = holder /\ Go(c, {[k EXCEPT !.pc = "program"]})
  /\ UNCHANGED <<ctx, files>>

\* A mixture of two records has the wrong checksum.
Programmed == IF ctx.head = ctx.tail THEN ctx.head ELSE Erased

Program(c) ==
  LET k == call[c] IN
  /\ At(c, "program")
  /\ flash' = [i \in SlotIdx |-> IF i = ctx.slot THEN Programmed ELSE flash[i]]
  /\ kept' = [kept EXCEPT ![k.mac] = k.rec]
  /\ holder' = NoCore
  /\ Go(c, AfterWrite(k, TRUE))
  /\ UNCHANGED <<ctx, files>>

\* The files of the drive are those of the first valid slots at boot.
Listed ==
  {flash[i].mac : i \in {j \in SlotIdx :
     slot_is_valid(j) /\ Cardinality({h \in 0 .. j - 1 : slot_is_valid(h)}) < MAX_FILES}}

\* The power is cut and comes back.  A sector half erased or half programmed
\* is invalid, as it is between Erase and Program.
PowerCut ==
  /\ ctx' = [slot |-> 0, head |-> Erased, tail |-> Erased]
  /\ holder' = NoCore
  /\ call' = [c \in Cores |-> Idle]
  /\ files' = Listed
  /\ UNCHANGED <<flash, kept>>

Proceed(c) ==
  \/ find_slot_for_mac(c) \/ next_free_gc_port(c) \/ find_free_slot(c)
  \/ controller_config_delete_by_suffix(c)
  \/ write_slot(c) \/ LockOut(c) \/ Erase(c) \/ Program(c)

Next ==
  \/ \E m \in Macs :
       \/ \E n \in {Named, Unnamed} : my_platform_on_device_connected(m, n)
       \/ my_platform_on_device_ready(m)
       \/ tud_msc_write10_cb(m)
       \/ process_serial_commands(m)
  \/ \E c \in Cores : Proceed(c)
  \/ PowerCut

Spec == Init /\ [][Next]_vars
-----------------------------------------------------------------------------
CallRecord == [
  pc : {"idle", "find", "ports", "free", "match", "blank", "slot", "head",
        "tail", "lock", "erase", "program"},
  op : {"none", "connected", "ready", "write10", "forget"},
  mac : Macs \cup {NoMac}, i : SlotIdx, slot : SlotIdx,
  rec : [mac : Macs \cup {NoMac}, model_name : {Named, Unnamed}, gc_port : Ports],
  used : SUBSET Ports, saving : BOOLEAN]

TypeOK ==
  /\ flash \in [SlotIdx -> Profile \cup {Erased}]
  /\ ctx \in [slot : SlotIdx \cup {-1}, head : Profile \cup {Erased}, tail : Profile \cup {Erased}]
  /\ holder \in Cores \cup {NoCore}
  /\ call \in [Cores -> CallRecord]
  /\ files \subseteq Macs
  /\ kept \in [Macs -> Profile \cup {NoProfile}]

SlotsOf(m) == {i \in SlotIdx : flash[i] # Erased /\ flash[i].mac = m}

\* The address is the key of a profile (controller_config.h, line 31): it has
\* one slot at most, whatever was forgotten, cut off or refused before.  The
\* scan stops at the first, so a second one would come back to life when the
\* first is forgotten.
OneSlotEach == \A m \in Macs : Cardinality(SlotsOf(m)) <= 1

\* A profile whose write was reported as a success is in the flash as it was
\* written (controller_config.h, lines 52-64): calls for other controllers,
\* whole, refused or cut off by the power, have not touched it.
KeptProfiles ==
  \A m \in Macs : kept[m] # NoProfile => {flash[i] : i \in SlotsOf(m)} = {kept[m]}

\* While an update is between Erase and Program, the table is that after it.
InUpdate(m) == {c \in Cores : call[c].pc = "program" /\ call[c].saving /\ call[c].mac = m}
Profiles ==
  [m \in Macs |->
     IF SlotsOf(m) # {} THEN flash[CHOOSE i \in SlotsOf(m) : \A j \in SlotsOf(m) : i <= j]
     ELSE IF InUpdate(m) # {} THEN call[CHOOSE c \in InUpdate(m) : TRUE].rec
     ELSE NoProfile]

Map == INSTANCE ProfileMap WITH
  Names <- {Named, Unnamed}, Capacity <- MAX_SLOTS, profiles <- Profiles

\* The slots implement the table: creations are whole and on a free port,
\* updates are whole, and one step is about one controller.
ImplementsProfileMap == Map!Spec
=============================================================================
