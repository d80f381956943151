------------------------------ MODULE Injection ------------------------------
(***************************************************************************)
(* The payload on its way into the console: the two state machines of      *)
(* src/picoboot.pio, as src/picoboot.c and src/pio.c set them up, on the   *)
(* bus between the console and its boot ROM.                               *)
(*                                                                         *)
(* A step is an edge on the bus, with everything the state machines do     *)
(* until both wait for the next one: they run at 250 MHz, the clock of the *)
(* bus at 27 MHz.  The DMA channel keeps the FIFO filled, so that the      *)
(* output shift register is empty only at the end of the payload.          *)
(***************************************************************************)
EXTENDS Integers

CONSTANTS
  Pulses,   \* x of on_transfer: 224
  Address,  \* x of clocked_output: 31
  Bits,     \* y of clocked_output: 8191
  Blocks    \* what validate_payload returns, in blocks of Bits + 1 bits

Total == Blocks * (Bits + 1)

VARIABLES
  cs, clk,    \* the levels of PIN_CS and PIN_CLK
  transfer,   \* how often CS went low since the state machines run
  edges,      \* how often CLK went high since
  sm0,        \* on_transfer: what it waits for, and x
  sm1,        \* clocked_output, likewise
  irq,        \* PIO interrupt flag 0
  sent,       \* bits of the payload that were put on PIN_DI
  driving     \* whether PIN_DI is an output

vars == <<cs, clk, transfer, edges, sm0, sm1, irq, sent, driving>>

\* The console reads the payload in the transfers after the first Pulses.
Injected == transfer \in Pulses + 1 .. Pulses + Blocks
Over == edges = Address + 1 + Bits + 1

\* Each program starts at its first instruction; PIN_DI is an input.
on_transfer_program_init ==
  sm0 = [wait |-> IF cs = 1 THEN "low" ELSE "high", x |-> Pulses]
clocked_output_program_init ==
  /\ sm1 = [wait |-> "irq", x |-> 0]
  /\ sent = 0 /\ driving = FALSE

Init ==
  /\ cs \in {0, 1} /\ clk \in {0, 1}
  /\ transfer = 0 /\ edges = 0
  /\ on_transfer_program_init /\ clocked_output_program_init
  /\ irq = FALSE

-----------------------------------------------------------------------------
(* on_transfer.                                                             *)

\* CS went low: counted down first, announced from then on.
CountTransfer ==
  CASE sm0.wait = "low" /\ sm0.x > 0 -> [wait |-> "high", x |-> sm0.x - 1]
    [] sm0.wait = "low" /\ sm0.x = 0 -> [wait |-> "after_high", x |-> 0]
    [] sm0.wait = "after_low" -> [sm0 EXCEPT !.wait = IF clk = 1 THEN "after_high" ELSE "clock"]
    [] OTHER -> sm0
Announced == sm0.wait = "after_low" \/ (sm0.wait = "low" /\ sm0.x = 0)

CsWentHigh ==
  [sm0 EXCEPT !.wait = IF @ = "high" THEN "low" ELSE IF @ = "after_high" THEN "after_low" ELSE @]

\* The first clock of a transfer.
ClockSeen ==
  IF sm0.wait # "clock" THEN sm0
  ELSE [sm0 EXCEPT !.wait = IF cs = 0 THEN "after_high" ELSE "after_low"]

-----------------------------------------------------------------------------
(* clocked_output.                                                          *)

\* wait 1 irq 0 takes the flag; set while it does not wait for it, the flag stays.
TakeIrq ==
  \/ /\ sm1.wait = "irq"
     /\ sm1' = [wait |-> IF clk = 0 THEN "skip_high" ELSE "skip_low", x |-> Address]
     /\ irq' = FALSE
  \/ /\ sm1.wait # "irq"
     /\ irq' = TRUE
     /\ UNCHANGED sm1

\* jmp x-- goes by the value x had.  The first bit of a block follows the address.
SkipBit ==
  /\ sm1.wait = "skip_high" /\ sm1.x > 0
  /\ sm1' = [wait |-> "skip_low", x |-> sm1.x - 1]
  /\ UNCHANGED <<sent, driving, irq>>

FirstBit ==
  /\ sm1.wait = "skip_high" /\ sm1.x = 0
  /\ sm1' = [wait |-> "low", x |-> Bits - 1]
  /\ sent' = sent + 1
  /\ driving' = TRUE
  /\ UNCHANGED irq

NextBit ==
  /\ sm1.wait = "high" /\ sm1.x > 0
  /\ sm1' = [wait |-> "low", x |-> sm1.x - 1]
  /\ sent' = sent + 1
  /\ UNCHANGED <<driving, irq>>

\* With more in the output shift register it waits for another transfer, of which
\* it may have been told already; without, it lets go of the line for good.
LastBit ==
  /\ sm1.wait = "high" /\ sm1.x = 0
  /\ sent' = sent + 1
  /\ \/ /\ sent + 1 >= Total
        /\ sm1' = [wait |-> "for_ever", x |-> 0]
        /\ driving' = FALSE
        /\ UNCHANGED irq
     \/ /\ sent + 1 < Total /\ ~irq
        /\ sm1' = [wait |-> "irq", x |-> 0]
        /\ UNCHANGED <<driving, irq>>
     \/ /\ sent + 1 < Total /\ irq
        /\ sm1' = [wait |-> "skip_low", x |-> Address]
        /\ irq' = FALSE
        /\ UNCHANGED driving

NoBit ==
  /\ sm1.wait \notin {"skip_high", "high"}
  /\ UNCHANGED <<sm1, sent, driving, irq>>

ClockWentLow ==
  [sm1 EXCEPT !.wait = IF @ = "skip_low" THEN "skip_high" ELSE IF @ = "low" THEN "high" ELSE @]

-----------------------------------------------------------------------------
(* The console.  It reads whole blocks where the payload is expected, and   *)
(* anything before and after; its other devices use the clock when CS is    *)
(* high.                                                                    *)

CsFall ==
  /\ cs = 1
  /\ cs' = 0 /\ transfer' = transfer + 1 /\ edges' = 0
  /\ sm0' = CountTransfer
  /\ IF Announced THEN TakeIrq ELSE UNCHANGED <<sm1, irq>>
  /\ UNCHANGED <<clk, sent, driving>>

CsRise ==
  /\ cs = 0 /\ (Injected => Over)
  /\ cs' = 1
  /\ sm0' = CsWentHigh
  /\ UNCHANGED <<clk, transfer, edges, sm1, irq, sent, driving>>

ClkRise ==
  /\ clk = 0 /\ ~(cs = 0 /\ Injected /\ Over)
  /\ clk' = 1
  /\ edges' = IF cs = 0 THEN edges + 1 ELSE edges
  /\ sm0' = ClockSeen
  /\ SkipBit \/ FirstBit \/ NextBit \/ LastBit \/ NoBit
  /\ UNCHANGED <<cs, transfer>>

ClkFall ==
  /\ clk = 1
  /\ clk' = 0
  /\ sm1' = ClockWentLow
  /\ UNCHANGED <<cs, transfer, edges, sm0, irq, sent, driving>>

Next == CsFall \/ CsRise \/ ClkRise \/ ClkFall

Spec == Init /\ [][Next]_vars

-----------------------------------------------------------------------------
\* The console takes a bit with the next rising edge: it finds the bit of the
\* payload that belongs there, over all blocks.  Only the last bit of all is let go
\* before it is taken.
Begin(t) == (t - Pulses - 1) * (Bits + 1)
Place == Begin(transfer) + edges - Address - 1

ReadsPayload ==
  cs = 0 /\ clk = 0 /\ Injected /\ edges > Address /\ ~Over /\ Place < Total - 1
    => driving /\ sent = Place + 1

\* The line belongs to the ROM before the payload and after it.
KeepsOff == ~Injected => ~driving
=============================================================================
