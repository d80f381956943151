--------------------------- MODULE InjectionProofs ---------------------------
(***************************************************************************)
(* Every bit of the payload reaches the console at its place, for every    *)
(* number of transfers to count, length of address and block, and number   *)
(* of blocks.                                                              *)
(*                                                                         *)
(* The inductive invariant says, for the transfers before the payload,     *)
(* with it and after it, how far the two state machines have counted from  *)
(* what went by on the bus.                                                *)
(***************************************************************************)
EXTENDS Injection, PayloadCheck, TLAPS

Sizes ==
  /\ Pulses \in Nat /\ Address \in Nat
  /\ Bits \in Nat \ {0} /\ Blocks \in Nat \ {0}

Types ==
  /\ cs \in {0, 1} /\ clk \in {0, 1}
  /\ transfer \in Nat /\ edges \in Nat
  /\ sm0 \in [wait : {"high", "low", "after_high", "after_low", "clock"}, x : Nat]
  /\ sm1 \in [wait : {"irq", "skip_low", "skip_high", "low", "high", "for_ever"}, x : Nat]
  /\ irq \in BOOLEAN /\ sent \in Nat /\ driving \in BOOLEAN

Before ==
  transfer <= Pulses =>
    /\ sm0 = [wait |-> IF cs = 1 THEN "low" ELSE "high", x |-> Pulses - transfer]
    /\ sm1.wait = "irq" /\ ~irq /\ sent = 0

\* on_transfer while the payload is read: it has told of this transfer.
Told ==
  Injected =>
    /\ ~irq
    /\ cs = 1 => sm0.wait = "after_low"
    /\ cs = 0 => \/ sm0.wait = "after_high"
                 \/ sm0.wait = "clock" /\ edges = 0 /\ clk = 0

BetweenBlocks == IF transfer = Pulses + Blocks THEN "for_ever" ELSE "irq"

\* clocked_output in the address, in the block and behind it.
InAddress ==
  Injected /\ cs = 0 /\ edges <= Address =>
    /\ sm1 = [wait |-> IF clk = 1 THEN "skip_low" ELSE "skip_high", x |-> Address - edges]
    /\ sent = Begin(transfer)
InBlock ==
  Injected /\ cs = 0 /\ Address < edges /\ edges <= Address + Bits =>
    /\ sm1 = [wait |-> IF clk = 1 THEN "low" ELSE "high", x |-> Address + Bits - edges]
    /\ sent = Begin(transfer) + edges - Address
BehindBlock ==
  Injected /\ (cs = 1 \/ edges > Address + Bits) =>
    /\ sm1.wait = BetweenBlocks
    /\ sent = Begin(transfer) + Bits + 1
    /\ cs = 0 => edges <= Address + Bits + 2

After ==
  transfer > Pulses + Blocks => sm1.wait = "for_ever" /\ sent = Total

Drives == driving <=> (0 < sent /\ sent < Total)

IInv == Types /\ Before /\ Told /\ InAddress /\ InBlock /\ BehindBlock /\ After /\ Drives

-----------------------------------------------------------------------------
\* Blocks follow one another without a gap, and the last ends with the payload.
LEMMA Places ==
  ASSUME Sizes, NEW t \in Pulses + 1 .. Pulses + Blocks
  PROVE  /\ Begin(Pulses + 1) = 0
         /\ Begin(t) \in Nat /\ Total \in Nat
         /\ Begin(t + 1) = Begin(t) + Bits + 1
         /\ t = Pulses + Blocks => Begin(t) + Bits + 1 = Total
         /\ t < Pulses + Blocks => Begin(t) + Bits + 1 < Total
<1> USE DEF Sizes
<1> DEFINE N == Bits + 1
           b == t - Pulses - 1
           d == Blocks - (b + 1)
<1>1. N \in Nat /\ N > 0 /\ b \in Nat /\ d \in Nat /\ (d = 0 <=> t = Pulses + Blocks)
  BY SMT
<1>2. Blocks = b + 1 + d /\ t = Pulses + 1 + b
  BY SMT
<1>3. Begin(t) = b * N /\ Begin(t + 1) = (b + 1) * N /\ Total = Blocks * N /\ Begin(Pulses + 1) = 0 * N
  <2>1. (t + 1) - Pulses - 1 = b + 1 /\ (Pulses + 1) - Pulses - 1 = 0
    BY SMT
  <2>2. QED
    BY <2>1 DEF Begin, Total
<1>4. ASSUME NEW n \in Nat, NEW i \in Nat, NEW j \in Nat
      PROVE  /\ i * n \in Nat /\ 0 * n = 0
             /\ (i + 1) * n = i * n + n
             /\ (i + 1 + j) * n = i * n + n + j * n
  BY <1>4, SMT
<1>5. d > 0 => d * N > 0
  BY <1>1, SMT
<1> HIDE DEF N, b, d
<1>6. b * N \in Nat /\ d * N \in Nat /\ (b + 1) * N = b * N + N /\ 0 * N = 0
      /\ Blocks * N = b * N + N + d * N
  BY <1>1, <1>2, <1>4
<1>7. d = 0 => d * N = 0
  BY <1>6
<1>8. QED
  <2>1. N = Bits + 1
    BY DEF N
  <2>2. QED
    BY <1>1, <1>2, <1>3, <1>5, <1>6, <1>7, <2>1, SMT

LEMMA Start == Sizes /\ Init => IInv
<1> SUFFICES ASSUME Sizes, Init PROVE IInv
  OBVIOUS
<1>1. ~Injected /\ transfer = 0 /\ sent = 0
  BY SMT DEF Sizes, Init, Injected, clocked_output_program_init
<1>2. Types
  <2>1. irq \in BOOLEAN /\ driving \in BOOLEAN
    BY DEF Init, clocked_output_program_init
  <2>2. QED
    BY <2>1, SMT DEF Sizes, Init, Types, on_transfer_program_init, clocked_output_program_init
<1>3. Pulses - transfer = Pulses /\ ~(transfer > Pulses + Blocks)
  BY <1>1, SMT DEF Sizes
<1>4. Before
  BY <1>1, <1>3 DEF Init, Before, on_transfer_program_init, clocked_output_program_init
<1>5. ~driving /\ ~(0 < sent)
  BY <1>1, SMT DEF Init, clocked_output_program_init
<1>6. QED
  BY <1>1, <1>2, <1>3, <1>4, <1>5 DEF After, Drives, IInv, Told, InAddress, InBlock, BehindBlock

\* CS goes low: one transfer more, that on_transfer counts or tells of.
LEMMA FallStep == Sizes /\ IInv /\ CsFall => IInv'
<1> SUFFICES ASSUME Sizes, IInv, CsFall PROVE IInv'
  OBVIOUS
<1> USE DEF Sizes, CsFall, IInv
<1>1. CASE transfer < Pulses
  <2>1. /\ sm0' = [wait |-> "high", x |-> Pulses - (transfer + 1)] /\ ~Announced
        /\ sm1.wait = "irq" /\ ~irq /\ sent = 0
    BY <1>1, SMT DEF CountTransfer, Announced, Before, Types
  <2>2. sm1' = sm1 /\ irq' = FALSE /\ ~Injected' /\ transfer' <= Pulses
    BY <1>1, <2>1, SMT DEF TakeIrq, Injected, Types
  <2>3. QED
    BY <1>1, <2>1, <2>2, SMT DEF Types, Before, Told, InAddress, InBlock, BehindBlock, After, Drives
<1>2. CASE transfer = Pulses
  <2>1. /\ sm0' = [wait |-> "after_high", x |-> 0] /\ Announced
        /\ sm1.wait = "irq" /\ ~irq /\ sent = 0
    BY <1>2, SMT DEF CountTransfer, Announced, Before, Types
  <2>2. /\ sm1' = [wait |-> IF clk = 0 THEN "skip_high" ELSE "skip_low", x |-> Address]
        /\ irq' = FALSE
    BY <2>1, SMT DEF TakeIrq
  <2>3. Injected' /\ transfer' = Pulses + 1 /\ Begin(transfer') = 0
    BY <1>2, Places, SMT DEF Injected, Types
  <2>4. Types'
    <3>1. irq' \in BOOLEAN /\ driving' \in BOOLEAN
      BY <2>2 DEF Types
    <3>2. QED
      BY <2>1, <2>2, <3>1, SMT DEF Types
  <2>5. Told' /\ InAddress'
    BY <2>1, <2>2, <2>3, SMT DEF Types, Told, InAddress
  <2>6. Before' /\ InBlock' /\ BehindBlock' /\ After' /\ Drives'
    BY <1>2, <2>3, SMT DEF Types, Before, InBlock, BehindBlock, After, Drives
  <2>7. QED
    BY <2>4, <2>5, <2>6
<1>3. CASE Injected /\ transfer < Pulses + Blocks
  <2>1. sm0.wait = "after_low" /\ Announced /\ ~irq /\ sm1.wait = "irq"
        /\ sent = Begin(transfer) + Bits + 1
    BY <1>3, SMT DEF Told, Announced, BehindBlock, BetweenBlocks
  <2>2. /\ sm0' = [sm0 EXCEPT !.wait = IF clk = 1 THEN "after_high" ELSE "clock"]
        /\ sm1' = [wait |-> IF clk = 0 THEN "skip_high" ELSE "skip_low", x |-> Address]
        /\ irq' = FALSE
    BY <2>1, SMT DEF CountTransfer, TakeIrq
  <2>3. Injected' /\ transfer' = transfer + 1 /\ Begin(transfer') = Begin(transfer) + Bits + 1
    BY <1>3, Places, SMT DEF Injected, Types
  <2>4. Types'
    <3>1. irq' \in BOOLEAN /\ driving' \in BOOLEAN
      BY <2>2 DEF Types
    <3>2. QED
      BY <2>1, <2>2, <3>1, SMT DEF Types
  <2>5. Told' /\ InAddress'
    BY <2>1, <2>2, <2>3, SMT DEF Types, Told, InAddress
  <2>6. Before' /\ InBlock' /\ BehindBlock' /\ After' /\ Drives'
    BY <1>3, <2>3, SMT DEF Types, Before, InBlock, BehindBlock, After, Drives, Injected
  <2>7. QED
    BY <2>4, <2>5, <2>6
<1>4. CASE (Injected /\ transfer = Pulses + Blocks) \/ transfer > Pulses + Blocks
  <2>1. sm1.wait = "for_ever" /\ sent = Total
    <3>1. CASE Injected /\ transfer = Pulses + Blocks
      BY <3>1, Places, SMT DEF Injected, BehindBlock, BetweenBlocks
    <3>2. QED
      BY <1>4, <3>1 DEF After
  <2>2. sm1' = sm1 /\ irq' \in BOOLEAN
    <3>1. sm1.wait # "irq"
      BY <2>1
    <3>2. irq \in BOOLEAN
      BY DEF Types
    <3>3. QED
      BY <3>1, <3>2, Zenon DEF TakeIrq
  <2>3. sm0' \in [wait : {"high", "low", "after_high", "after_low", "clock"}, x : Nat]
    BY SMT DEF CountTransfer, Types
  <2>4. ~Injected' /\ transfer' > Pulses + Blocks /\ transfer' \in Nat
    BY <1>4, SMT DEF Injected, Types
  <2>5. QED
    BY <2>1, <2>2, <2>3, <2>4, SMT DEF Types, Before, Told, InAddress, InBlock, BehindBlock, After, Drives
<1>5. QED
  BY <1>1, <1>2, <1>3, <1>4, SMT DEF Injected, Types

LEMMA RiseStep == Sizes /\ IInv /\ CsRise => IInv'
<1> SUFFICES ASSUME Sizes, IInv, CsRise PROVE IInv'
  OBVIOUS
<1> USE DEF Sizes, CsRise, IInv
<1>1. Types'
  BY SMT DEF Types, CsWentHigh
<1>2. Before'
  BY SMT DEF Types, Before, CsWentHigh
<1>3. Told'
  <2> SUFFICES ASSUME Injected PROVE ~irq /\ sm0'.wait = "after_low"
    BY DEF Told, Injected
  <2>1. ~irq /\ edges # 0
    BY SMT DEF Told, Over
  <2>2. sm0.wait = "after_high"
    BY <2>1 DEF Told
  <2>3. QED
    BY <2>1, <2>2, SMT DEF CsWentHigh, Types
<1>4. InAddress' /\ InBlock' /\ BehindBlock'
  BY SMT DEF InAddress, InBlock, BehindBlock, BetweenBlocks, Injected, Over, Types
<1>5. After' /\ Drives'
  BY DEF After, Drives
<1>6. QED
  BY <1>1, <1>2, <1>3, <1>4, <1>5

LEMMA ClockFallStep == Sizes /\ IInv /\ ClkFall => IInv'
<1> SUFFICES ASSUME Sizes, IInv, ClkFall PROVE IInv'
  OBVIOUS
<1> USE DEF Sizes, ClkFall, IInv
<1>1. Types'
  BY SMT DEF Types, ClockWentLow
<1>2. Before' /\ Told' /\ After' /\ Drives'
  BY SMT DEF Types, Before, Told, After, Drives, ClockWentLow, Injected
<1>3. InAddress' /\ InBlock'
  BY SMT DEF Types, InAddress, InBlock, ClockWentLow, Injected
<1>4. BehindBlock'
  BY SMT DEF Types, BehindBlock, BetweenBlocks, ClockWentLow, Injected
<1>5. QED
  BY <1>1, <1>2, <1>3, <1>4

\* CLK goes high: a bit of the address is skipped, or the next of the payload put out.
LEMMA ClockRiseStep == Sizes /\ IInv /\ ClkRise => IInv'
<1> SUFFICES ASSUME Sizes, IInv, ClkRise PROVE IInv'
  OBVIOUS
<1> USE DEF Sizes, ClkRise, IInv
<1>1. /\ edges' \in Nat /\ transfer' = transfer /\ cs' = cs /\ clk' = 1
      /\ sm0' \in [wait : {"high", "low", "after_high", "after_low", "clock"}, x : Nat]
  BY SMT DEF Types, ClockSeen
<1>2. ASSUME ~Injected \/ cs = 1, NoBit PROVE IInv'
  <2>1. sm1' = sm1 /\ sent' = sent /\ driving' = driving /\ irq' = irq
    BY <1>2 DEF NoBit
  <2>2. sm0.wait # "clock" => sm0' = sm0
    BY DEF ClockSeen
  <2>3. Types' /\ After' /\ Drives'
    BY <1>1, <2>1, SMT DEF Types, After, Drives
  <2>4. Before'
    BY <1>1, <2>1, <2>2, SMT DEF Types, Before
  <2>5. Told' /\ InAddress' /\ InBlock' /\ BehindBlock'
    BY <1>1, <1>2, <2>1, <2>2, SMT DEF Types, Told, InAddress, InBlock, BehindBlock, BetweenBlocks, Injected
  <2>6. QED
    BY <2>3, <2>4, <2>5
<1>3. CASE ~Injected
  <2>1. sm1.wait \in {"irq", "for_ever"}
    BY <1>3, SMT DEF Types, Before, After, Injected
  <2>2. NoBit
    BY <2>1 DEF SkipBit, FirstBit, NextBit, LastBit
  <2>3. QED
    BY <1>3, <1>2, <2>2
<1>4. CASE Injected /\ cs = 1
  <2>1. sm1.wait \in {"irq", "for_ever"}
    BY <1>4 DEF BehindBlock, BetweenBlocks
  <2>2. NoBit
    BY <2>1 DEF SkipBit, FirstBit, NextBit, LastBit
  <2>3. QED
    BY <1>4, <1>2, <2>2
<1>5. CASE Injected /\ cs = 0
  <2> USE <1>5
  <2>1. /\ edges' = edges + 1 /\ Injected' /\ transfer' > Pulses /\ ~(transfer' > Pulses + Blocks)
        /\ sm0'.wait = "after_high" /\ ~irq
    BY <1>1, SMT DEF Types, Injected, Told, ClockSeen
  <2>2. ~irq' => Told' /\ Before' /\ After'
    BY <1>1, <2>1, SMT DEF Types, Told, Before, After
  <2>3. /\ Begin(transfer) \in Nat /\ Total \in Nat
        /\ transfer = Pulses + Blocks => Begin(transfer) + Bits + 1 = Total
        /\ transfer # Pulses + Blocks => Begin(transfer) + Bits + 1 < Total
    BY Places, SMT DEF Injected
  <2>4. CASE edges < Address
    <3>1. sm1 = [wait |-> "skip_high", x |-> Address - edges] /\ sent = Begin(transfer)
      BY <2>4, SMT DEF InAddress, Types
    <3>2. Address - edges > 0 /\ (Address - edges) - 1 = Address - (edges + 1)
      BY <2>4, SMT DEF Types
    <3>3. SkipBit
      BY <3>1, <3>2, SMT DEF FirstBit, NextBit, LastBit, NoBit
    <3>4. /\ sm1' = [wait |-> "skip_low", x |-> Address - edges'] /\ sent' = sent
          /\ driving' = driving /\ irq' = irq
      BY <2>1, <3>1, <3>2, <3>3 DEF SkipBit
    <3>5. Types'
      BY <1>1, <2>1, <2>4, <3>4, SMT DEF Types
    <3>6. InAddress' /\ InBlock' /\ BehindBlock'
      BY <1>1, <2>1, <2>4, <3>1, <3>4, SMT DEF InAddress, InBlock, BehindBlock, Types
    <3>7. Drives'
      BY <3>4 DEF Drives
    <3>8. QED
      BY <2>1, <2>2, <3>4, <3>5, <3>6, <3>7
  <2>5. CASE edges = Address
    <3>1. sm1 = [wait |-> "skip_high", x |-> 0] /\ sent = Begin(transfer)
      BY <2>5, SMT DEF InAddress, Types
    <3>2. FirstBit
      BY <3>1, SMT DEF SkipBit, NextBit, LastBit, NoBit
    <3>3. /\ sm1' = [wait |-> "low", x |-> Bits - 1] /\ sent' = sent + 1
          /\ driving' = TRUE /\ irq' = irq
      BY <3>2 DEF FirstBit
    <3>4. Types'
      BY <1>1, <3>3, SMT DEF Types
    <3>5. InAddress' /\ InBlock' /\ BehindBlock'
      BY <1>1, <2>1, <2>5, <3>1, <3>3, SMT DEF InAddress, InBlock, BehindBlock, Types
    <3>6. 0 < sent' /\ sent' < Total
      BY <2>3, <3>1, <3>3, SMT
    <3>7. QED
      BY <2>1, <2>2, <3>3, <3>4, <3>5, <3>6 DEF Drives
  <2>6. CASE Address < edges /\ edges < Address + Bits
    <3>1. /\ sm1 = [wait |-> "high", x |-> Address + Bits - edges]
          /\ sent = Begin(transfer) + edges - Address
      BY <2>6, SMT DEF InBlock, Types
    <3>2. Address + Bits - edges > 0
          /\ (Address + Bits - edges) - 1 = Address + Bits - (edges + 1)
      BY <2>6, SMT DEF Types
    <3>3. NextBit
      BY <3>1, <3>2, SMT DEF SkipBit, FirstBit, LastBit, NoBit
    <3>4. /\ sm1' = [wait |-> "low", x |-> Address + Bits - edges'] /\ sent' = sent + 1
          /\ driving' = driving /\ irq' = irq
      BY <2>1, <3>1, <3>2, <3>3 DEF NextBit
    <3>5. Types'
      BY <1>1, <2>1, <2>6, <3>4, SMT DEF Types
    <3>6. InAddress' /\ InBlock' /\ BehindBlock'
      <4>1. ~(edges' <= Address) /\ ~(edges' > Address + Bits)
        BY <2>1, <2>6, SMT DEF Types
      <4>2. sent' = Begin(transfer) + edges' - Address
        BY <2>1, <2>3, <3>1, <3>4, SMT DEF Types
      <4>3. QED
        BY <1>1, <3>4, <4>1, <4>2 DEF InAddress, InBlock, BehindBlock
    <3>7. 0 < sent /\ sent < Total /\ 0 < sent' /\ sent' < Total
      BY <2>3, <2>6, <3>1, <3>4, SMT DEF Types
    <3>8. QED
      BY <2>1, <2>2, <3>4, <3>5, <3>6, <3>7 DEF Drives
  <2>7. CASE edges = Address + Bits
    <3>1. sm1 = [wait |-> "high", x |-> 0] /\ sent = Begin(transfer) + Bits
      BY <2>7, SMT DEF InBlock, Types
    <3>2. LastBit
      BY <3>1, SMT DEF SkipBit, FirstBit, NextBit, NoBit
    <3>3. sent' = Begin(transfer) + Bits + 1
      BY <2>3, <3>1, <3>2, SMT DEF LastBit
    <3>4. CASE transfer = Pulses + Blocks
      <4>1. sent + 1 >= Total /\ ~(sent + 1 < Total) /\ ~(sent' < Total)
        BY <2>3, <3>1, <3>3, <3>4, SMT
      <4>2. sm1' = [wait |-> "for_ever", x |-> 0] /\ driving' = FALSE /\ irq' = irq
        BY <3>2, <4>1 DEF LastBit
      <4>3. Types'
        <5>1. irq' \in BOOLEAN /\ driving' \in BOOLEAN
          BY <4>2 DEF Types
        <5>2. QED
          BY <1>1, <2>3, <3>3, <4>2, <5>1, SMT DEF Types
      <4>4. InAddress' /\ InBlock' /\ BehindBlock'
        BY <1>1, <2>1, <2>7, <3>3, <3>4, <4>2, SMT DEF InAddress, InBlock, BehindBlock, BetweenBlocks, Types
      <4>5. QED
        BY <2>1, <2>2, <4>1, <4>2, <4>3, <4>4 DEF Drives
    <3>5. CASE transfer # Pulses + Blocks
      <4>1. ~(sent + 1 >= Total) /\ 0 < sent /\ sent < Total /\ 0 < sent' /\ sent' < Total
        BY <2>3, <3>1, <3>3, <3>5, SMT
      <4>2. sm1' = [wait |-> "irq", x |-> 0] /\ driving' = driving /\ irq' = irq
        BY <2>1, <3>2, <4>1 DEF LastBit
      <4>3. Types'
        BY <1>1, <2>3, <3>3, <4>2, SMT DEF Types
      <4>4. InAddress' /\ InBlock' /\ BehindBlock'
        BY <1>1, <2>1, <2>7, <3>3, <3>5, <4>2, SMT DEF InAddress, InBlock, BehindBlock, BetweenBlocks, Types
      <4>5. QED
        BY <2>1, <2>2, <4>1, <4>2, <4>3, <4>4 DEF Drives
    <3>6. QED
      BY <3>4, <3>5
  <2>8. CASE edges > Address + Bits
    <3>1. /\ sm1.wait = BetweenBlocks /\ sent = Begin(transfer) + Bits + 1
          /\ edges <= Address + Bits + 2 /\ ~Over
      BY <2>8 DEF BehindBlock
    <3>2. NoBit
      BY <3>1 DEF SkipBit, FirstBit, NextBit, LastBit, BetweenBlocks
    <3>3. sm1' = sm1 /\ sent' = sent /\ driving' = driving /\ irq' = irq
      BY <3>2 DEF NoBit
    <3>4. Types'
      BY <1>1, <3>3, SMT DEF Types
    <3>5. edges + 1 <= Address + Bits + 2
      BY <2>8, <3>1, SMT DEF Over, Types
    <3>6. InAddress' /\ InBlock' /\ BehindBlock'
      BY <1>1, <2>1, <2>8, <3>1, <3>3, <3>5, SMT DEF InAddress, InBlock, BehindBlock, BetweenBlocks, Types
    <3>7. QED
      BY <2>1, <2>2, <3>3, <3>4, <3>6 DEF Drives
  <2>9. QED
    BY <2>4, <2>5, <2>6, <2>7, <2>8, SMT DEF Types
<1>6. QED
  BY <1>3, <1>4, <1>5, SMT DEF Types

LEMMA Step == Sizes /\ IInv /\ [Next]_vars => IInv'
<1> SUFFICES ASSUME Sizes, IInv, [Next]_vars PROVE IInv'
  OBVIOUS
<1>1. CASE UNCHANGED vars
  BY <1>1 DEF vars, IInv, Types, Before, Told, InAddress, InBlock, BehindBlock, BetweenBlocks,
     After, Drives, Injected
<1>2. QED
  BY <1>1, FallStep, RiseStep, ClockRiseStep, ClockFallStep DEF Next

LEMMA Inductive == Sizes => (Spec => []IInv)
<1> SUFFICES ASSUME Sizes PROVE Spec => []IInv
  OBVIOUS
<1>1. QED
  BY Start, Step, PTL DEF Spec

\* Every bit of the payload but the last is on the line when the console takes it.
THEOREM PayloadIsRead == Sizes => (Spec => []ReadsPayload)
<1> SUFFICES ASSUME Sizes PROVE Spec => []ReadsPayload
  OBVIOUS
<1>1. IInv => ReadsPayload
  <2> SUFFICES ASSUME IInv, cs = 0, clk = 0, Injected, edges > Address, ~Over, Place < Total - 1
               PROVE  driving /\ sent = Place + 1
    BY DEF ReadsPayload
  <2> USE DEF IInv, Sizes
  <2>1. /\ Begin(transfer) \in Nat /\ Total \in Nat
        /\ transfer = Pulses + Blocks => Begin(transfer) + Bits + 1 = Total
        /\ transfer # Pulses + Blocks => Begin(transfer) + Bits + 1 < Total
    BY Places, SMT DEF Injected
  <2>2. sent = Begin(transfer) + edges - Address
    <3>1. CASE edges <= Address + Bits
      BY <3>1 DEF InBlock
    <3>2. CASE edges > Address + Bits
      <4>1. sent = Begin(transfer) + Bits + 1 /\ edges <= Address + Bits + 2
        BY <3>2 DEF BehindBlock
      <4>2. edges = Address + Bits + 1
        BY <3>2, <4>1, SMT DEF Over, Types
      <4>3. QED
        BY <2>1, <4>1, <4>2, SMT
    <3>3. QED
      BY <3>1, <3>2, SMT DEF Types
  <2>3. sent = Place + 1 /\ 0 < sent /\ sent < Total
    BY <2>1, <2>2, SMT DEF Place, Types
  <2>4. QED
    BY <2>3 DEF Drives
<1>2. QED
  BY <1>1, Inductive, PTL

\* The line is left to the ROM before the payload and after it.
THEOREM LineIsLeft == Sizes => (Spec => []KeepsOff)
<1> SUFFICES ASSUME Sizes PROVE Spec => []KeepsOff
  OBVIOUS
<1>1. IInv => KeepsOff
  <2> SUFFICES ASSUME IInv, ~Injected PROVE ~driving
    BY DEF KeepsOff
  <2>1. ~(0 < sent /\ sent < Total)
    <3>1. transfer <= Pulses \/ transfer > Pulses + Blocks
      BY SMT DEF IInv, Types, Injected, Sizes
    <3>2. sent = 0 \/ sent = Total
      BY <3>1 DEF IInv, Before, After
    <3>3. QED
      BY <3>2, SMT DEF IInv, Types
  <2>2. QED
    BY <2>1 DEF IInv, Drives
<1>2. QED
  BY <1>1, Inductive, PTL
-----------------------------------------------------------------------------
LEMMA AlignmentValue == alignment = 256
  BY SMT DEF alignment, WordSize

\* The copy is of whole blocks of 1 KB, covers the payload to the word that holds
\* the last magic, and is less than a block longer than it (picoboot.c:134-136,
\* 142-146).
THEOREM AlignedSize ==
  ASSUME NEW bytes \in Nat
  PROVE  /\ size_aligned(bytes) \in Nat
         /\ size_aligned(bytes) % alignment = 0
         /\ size(bytes) <= size_aligned(bytes)
         /\ size_aligned(bytes) < size(bytes) + alignment
<1>1. size(bytes) \in Nat
  BY SMT DEF size, WordSize
<1>2. QED
  BY <1>1, AlignmentValue, SMT DEF size_aligned

\* As long as the size the header states leaves room for one block between the end
\* of the payload and that of the address space, the comparison tells whether the
\* copy ends before the end of the payload: the sum has not started over.  A size
\* above that starts it over, and is accepted when what is left is small
\* (picoboot.c:138-140).
THEOREM CheckIsExact ==
  ASSUME W \in Nat, NEW payload \in Nat, NEW payload_end \in Nat,
         NEW bytes \in Nat, payload + bytes + 1024 <= W
  PROVE  Accepted(payload, payload_end, bytes)
           <=> payload + WordSize * size_aligned(bytes) <= payload_end
<1>1. size(bytes) \in Nat /\ WordSize * size(bytes) <= bytes
  BY SMT DEF size, WordSize
<1>2. size_aligned(bytes) \in Nat /\ size_aligned(bytes) < size(bytes) + 256
  BY AlignedSize, AlignmentValue
<1>3. payload + WordSize * size_aligned(bytes) \in 0 .. W - 1
  BY <1>1, <1>2, SMT DEF WordSize
<1>4. Behind(payload, bytes) = payload + WordSize * size_aligned(bytes)
  BY <1>3, SMT DEF Behind
<1>5. QED
  BY <1>3, <1>4, SMT DEF Accepted
=============================================================================
