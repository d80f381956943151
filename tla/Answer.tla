------------------------------- MODULE Answer -------------------------------
(***************************************************************************)
(* How the bytes of an answer leave a port.  The main loop of core 0       *)
(* writes a report into _out_buffer byte by byte (src/gamecube.c).  The    *)
(* interrupt handler, which interrupts it anywhere, points a DMA channel   *)
(* at the answer the console asked for; the channel copies bytes into the  *)
(* transmit FIFO of the state machine, which shifts them out one by one    *)
(* until it finds none left (src/joybus.pio).  Nothing but the length of   *)
(* the copy says where an answer ends, and a restart of the state machine  *)
(* does not stop the copy.                                                 *)
(*                                                                         *)
(* One port: the ports share nothing here.  Which commands arrive when is  *)
(* the matter of Joybus; here any command may.                             *)
(***************************************************************************)
EXTENDS Integers, Sequences

CONSTANT PollModes   \* the modes the console polls with

ASSUME PollModesAssumption == PollModes \subseteq 0 .. 255

TxFifoDepth == 4
None == "none"
Nothing == [kind |-> None, byte |-> 0, holds |-> None]

\* The length of each answer, in bytes.
Length == [probe |-> 3, origin |-> 10, poll |-> 8]

-----------------------------------------------------------------------------
(* What the eight bytes of an answer to a poll hold in each mode.  Two halves *)
(* in one byte are named with a 4; the analog A and B buttons are always zero. *)

Mode3 == <<"buttons", "buttons", "lx", "ly", "rx", "ry", "tl", "tr">>
Mode0 == <<"buttons", "buttons", "lx", "ly", "rx", "ry", "tl4_tr4", "zero">>
Mode1 == <<"buttons", "buttons", "lx", "ly", "rx4_ry4", "tl", "tr", "zero">>
Mode2 == <<"buttons", "buttons", "lx", "ly", "rx4_ry4", "tl4_tr4", "zero", "zero">>
Mode4 == <<"buttons", "buttons", "lx", "ly", "rx", "ry", "zero", "zero">>

\* Every other mode is answered as mode 3.
Layout(mode) ==
  CASE mode = 0 -> Mode0
    [] mode = 1 -> Mode1
    [] mode = 2 -> Mode2
    [] mode = 4 -> Mode4
    [] OTHER -> Mode3

-----------------------------------------------------------------------------
VARIABLES
  out,      \* _out_buffer: what each byte of the answer to a poll holds
  update,   \* _message_handle_input: the byte it writes next, the mode it read
  mode,     \* workingMode
  polled,   \* the mode of a poll has come, its last byte has not
  got_data, \* _gc_got_data
  loop,     \* where the main loop is
  port,     \* the state machine, its transmit FIFO and its DMA channel
  asked,    \* history: the answer asked for last, and settled at that moment
  heard,    \* history: the bytes the console heard of it
  settled   \* history: an update saw the present poll mode and has ended

vars == <<out, update, mode, polled, got_data, loop, port, asked, heard, settled>>

Idle == [next |-> 0, mode |-> 0]

Init ==
  /\ out = Mode3
  /\ update = Idle
  /\ mode = 0
  /\ polled = FALSE
  /\ got_data = FALSE
  /\ loop = "messages"
  /\ port = [sm |-> "in", osr |-> Nothing, fifo |-> <<>>,
             dma |-> [kind |-> "probe", next |-> 1, left |-> 0]]
  /\ asked = [kind |-> None, settled |-> FALSE]
  /\ heard = <<>>
  /\ settled = FALSE

-----------------------------------------------------------------------------
(* The hardware.  The channel fills the FIFO, and the shift register takes  *)
(* its first byte, long before the processor or the line moves on.          *)

\* What the channel reads, from _cannedProbeTX, _cannedOriginTX or _out_buffer.
Read(kind, i) ==
  [kind |-> kind, byte |-> i, holds |-> IF kind = "poll" THEN out[i] ELSE kind]

Room_NoPacing(p) == p.dma.left
Room(p) == IF TxFifoDepth - Len(p.fifo) < p.dma.left
           THEN TxFifoDepth - Len(p.fifo) ELSE p.dma.left
Copied(p) ==
  LET n == Room(p)
      d == p.dma
  IN [p EXCEPT !.fifo = @ \o [i \in 1 .. n |-> Read(d.kind, d.next + i - 1)],
               !.dma = [d EXCEPT !.next = @ + n, !.left = @ - n]]

\* An empty shift register is filled whatever the program is doing.
Pulled(p) ==
  IF p.osr # Nothing \/ p.fifo = <<>> THEN p
  ELSE Copied([p EXCEPT !.osr = Head(p.fifo), !.fifo = Tail(@)])

pio_sm_clear_fifos(p) == Copied([p EXCEPT !.fifo = <<>>])

\* The FIFOs are emptied, by pio_sm_init a second time, and the shift register;
\* whatever the channel had not copied by then stays in the FIFO.
joybus_set_in_KeepsOsr(in, p) ==
  Pulled([pio_sm_clear_fifos(pio_sm_clear_fifos(p)) EXCEPT !.sm = IF in THEN "in" ELSE "out"])
joybus_set_in(in, p) ==
  Pulled([pio_sm_clear_fifos(pio_sm_clear_fifos(p)) EXCEPT
            !.osr = Nothing, !.sm = IF in THEN "in" ELSE "out"])

\* A channel that is still busy takes the new address, not the new length.
_gamecube_send_NotTriggered(kind, p) ==
  Pulled(Copied([pio_sm_clear_fifos(p) EXCEPT !.dma = [@ EXCEPT !.kind = kind, !.next = 1]]))
_gamecube_send(kind, p) ==
  Pulled(Copied([pio_sm_clear_fifos(p) EXCEPT
    !.dma = [kind |-> kind, next |-> 1,
             left |-> IF @.left > 0 THEN @.left ELSE Length[kind]]]))

\* A byte is out.  The next follows at once; without one the answer is over and
\* the state machine listens again.  It takes the DMA channel far less time to
\* copy a byte, and the main loop less to connect a port.
ByteOut ==
  /\ port.sm = "out" /\ port.osr # Nothing
  /\ loop # "init"
  /\ LET p == Pulled([port EXCEPT !.osr = Nothing])
     IN port' = [p EXCEPT !.sm = IF p.osr = Nothing THEN "in" ELSE "out"]
  /\ heard' = Append(heard, port.osr)
  /\ UNCHANGED <<out, update, mode, polled, got_data, loop, asked, settled>>

-----------------------------------------------------------------------------
(* The interrupt handler.                                                   *)

Restart == port' = joybus_set_in(TRUE, port)

\* It serves a port that listens; a poll it answers at its third byte.
Listening == port.sm = "in"

PollMode ==
  /\ Listening
  /\ loop # "init"
  /\ \E m \in PollModes :
       /\ mode' = m
       /\ settled' = (settled /\ Layout(m) = Layout(mode))
  /\ polled' = TRUE
  /\ UNCHANGED <<out, update, got_data, loop, port, asked, heard>>

\* The last byte of the command for another device: the handler restarts the port.
SatOut ==
  /\ Listening
  /\ loop # "init" /\ ~polled
  /\ Restart
  /\ UNCHANGED <<out, update, mode, polled, got_data, loop, asked, heard, settled>>

\* The first byte of a port that is being connected counts as a probe.
Respond(kind) ==
  /\ Listening
  /\ loop = "init" => kind = "probe"
  /\ IF polled THEN kind = "poll" ELSE kind # "poll"
  /\ polled' = FALSE
  /\ got_data' = TRUE
  /\ port' = _gamecube_send(kind, joybus_set_in(FALSE, port))
  /\ asked' = [kind |-> kind, settled |-> settled]
  /\ heard' = <<>>
  /\ UNCHANGED <<out, update, mode, loop, settled>>

-----------------------------------------------------------------------------
(* gamecube_comms_task.  The handler and the hardware go on between any two *)
(* of its steps.                                                            *)

\* 100 ms may have gone by; got_data is read here and forgotten in Forget.
Check ==
  /\ loop = "messages"
  /\ \/ ~got_data /\ loop' = "reset"
     \/ loop' = "forget"
  /\ UNCHANGED <<out, update, mode, polled, got_data, port, asked, heard, settled>>

Reset ==
  /\ loop = "reset"
  /\ Restart
  /\ polled' = FALSE
  /\ loop' = "forget"
  /\ UNCHANGED <<out, update, mode, got_data, asked, heard, settled>>

Forget ==
  /\ loop = "forget"
  /\ got_data' = FALSE
  /\ loop' = "messages"
  /\ UNCHANGED <<out, update, mode, polled, port, asked, heard, settled>>

\* _message_handle_connect, for a port that was disconnected in the meantime.
Connect ==
  /\ loop = "messages"
  /\ port' = pio_sm_clear_fifos(port)
  /\ polled' = FALSE
  /\ loop' = "init"
  /\ UNCHANGED <<out, update, mode, got_data, asked, heard, settled>>

ProgramInit ==
  /\ loop = "init"
  /\ port' = Pulled([pio_sm_clear_fifos(port) EXCEPT !.osr = Nothing, !.sm = "in"])
  /\ loop' = "messages"
  /\ UNCHANGED <<out, update, mode, polled, got_data, asked, heard, settled>>

\* _message_handle_input: the buttons, then the poll mode is read once, then the
\* bytes in the layout of that mode.
MessageInput ==
  /\ loop = "messages"
  /\ loop' = "update"
  /\ update' = [next |-> 1, mode |-> 0]
  /\ UNCHANGED <<out, mode, polled, got_data, port, asked, heard, settled>>

WriteButtons ==
  /\ loop = "update" /\ update.next \in {1, 2}
  /\ out' = [out EXCEPT ![update.next] = "buttons"]
  /\ update' = [next |-> update.next + 1, mode |-> IF update.next = 2 THEN mode ELSE 0]
  /\ UNCHANGED <<mode, polled, got_data, loop, port, asked, heard, settled>>

AxisByte_SkipsUnused(i) ==
  IF update.mode = 4 /\ i > 6 THEN out[i] ELSE Layout(update.mode)[i]
AxisByte(i) == Layout(update.mode)[i]

WriteAxes ==
  /\ loop = "update" /\ update.next \in 3 .. 8
  /\ out' = [out EXCEPT ![update.next] = AxisByte(update.next)]
  /\ IF update.next < 8
     THEN update' = [update EXCEPT !.next = @ + 1] /\ UNCHANGED <<loop, settled>>
     ELSE /\ update' = Idle
          /\ loop' = "messages"
          /\ settled' = (Layout(update.mode) = Layout(mode))
  /\ UNCHANGED <<mode, polled, got_data, port, asked, heard>>

-----------------------------------------------------------------------------
MainLoop ==
  \/ Check \/ Reset \/ Forget \/ Connect \/ ProgramInit
  \/ MessageInput \/ WriteButtons \/ WriteAxes

Next ==
  \/ MainLoop
  \/ PollMode
  \/ SatOut
  \/ \E kind \in DOMAIN Length : Respond(kind)
  \/ ByteOut

Spec == Init /\ [][Next]_vars

FairSpec == Spec /\ WF_vars(ByteOut) /\ WF_vars(MainLoop)

-----------------------------------------------------------------------------
TypeOK ==
  /\ \A i \in 1 .. 8 : out[i] \in {Layout(m)[i] : m \in 0 .. 4}
  /\ update \in [next : 0 .. 8, mode : PollModes \cup {0}]
  /\ mode \in PollModes \cup {0}
  /\ polled \in BOOLEAN /\ got_data \in BOOLEAN /\ settled \in BOOLEAN
  /\ loop \in {"messages", "reset", "forget", "init", "update"}
  /\ port.sm \in {"in", "out"}
  /\ Len(port.fifo) <= TxFifoDepth
  /\ port.dma.left \in 0 .. 9
  /\ asked \in [kind : DOMAIN Length \cup {None}, settled : BOOLEAN]
  /\ Len(heard) <= 10

\* An answer that comes to its end is the answer asked for, byte by byte from its
\* first to its last: whatever a cut off answer left in the FIFO, the shift
\* register or the DMA channel never leads the next one or shortens it
\* (gamecube.c:158-177, joybus.pio:58-72).
Over == port.sm = "out" /\ port'.sm = "in" /\ heard' # heard

AnswersAreWhole ==
  [][Over => /\ Len(heard') = Length[asked.kind]
             /\ \A i \in DOMAIN heard' : heard'[i].kind = asked.kind /\ heard'[i].byte = i]_vars

\* The main loop encodes for the mode of the last poll it saw and the DMA channel
\* reads while it writes, so an answer may be in another mode than its poll, or
\* change mode within.  But once an update that saw the mode is complete, every
\* poll in that mode is answered in it, byte for byte, updates in the middle of
\* the answer included (gamecube.c:175-183, 455-504).
SettledModeAnswered ==
  [][Over /\ asked.kind = "poll" /\ asked.settled =>
       [i \in 1 .. 8 |-> heard'[i].holds] = Layout(mode)]_vars

\* An answer that was started ends: the state machine never waits for a byte that
\* does not come, deaf to the console.
AnswersEnd == port.sm = "out" ~> port.sm = "in"
=============================================================================
