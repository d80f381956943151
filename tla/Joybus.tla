------------------------------- MODULE Joybus -------------------------------
(***************************************************************************)
(* The GameCube side of a port: the console, which sends a command bit by  *)
(* bit and expects the answer right behind it; the PIO state machine of    *)
(* src/joybus.pio, which gathers bits into bytes and raises PIO interrupt  *)
(* 1 for each; the interrupt handler of src/gamecube.c, which decides      *)
(* byte by byte when a command is over and starts the answer; and the main *)
(* loop of core 0, which connects ports and restarts those that answered   *)
(* nothing for 100 ms.                                                     *)
(*                                                                         *)
(* The handler interrupts the main loop between any two of its steps, and  *)
(* is itself one step: nothing of core 0 runs before it returns.           *)
(***************************************************************************)
EXTENDS Integers, Sequences

CONSTANTS
  NumChannels,   \* JOYBUS_CHANNELS: the ports, each with a state machine
  Frames,        \* the commands the console sends, as sequences of bytes
  Pauses         \* whether the console is ever silent for 100 ms

Channels == 0 .. NumChannels - 1
Byte == 0 .. 255

GCUBE_CMD_PROBE == 0
GCUBE_CMD_POLL == 64
GCUBE_CMD_ORIGIN == 65
GCUBE_CMD_ORIGINEXT == 66
GCUBE_CMD_SWISS == 29

\* The commands the handler knows, with the length the console gives them.
CommandLength(cmd) ==
  CASE cmd \in {GCUBE_CMD_PROBE, GCUBE_CMD_ORIGIN} -> 1
    [] cmd \in {GCUBE_CMD_POLL, GCUBE_CMD_ORIGINEXT} -> 3
    [] cmd = GCUBE_CMD_SWISS -> 11
    [] OTHER -> 0

ASSUME JoybusAssumption ==
  /\ NumChannels \in Nat \ {0}
  /\ \A f \in Frames : f \in Seq(Byte) /\ f # <<>> /\ Len(f) = CommandLength(f[1])

VARIABLES
  ch,          \* for each channel, the record of ChannelType
  irq,         \* PIO interrupt flag 1, shared by the channels
  line,        \* what the console is sending on each channel
  due,         \* interval[]: 100 ms went by since it was last set
  loop,        \* where the main loop is
  unanswered,  \* history: frames begun since the last answer, up to 3
  astray       \* history: it may have begun to listen inside a command

vars == <<ch, irq, line, due, loop, unanswered, astray>>

BYTECOUNT_DEFAULT == 2
BYTECOUNT_NULL == -1
BYTECOUNT_SWISS == 10

RxFifoDepth == 4
Answers == {"probe", "origin", "poll"}

\* The fields of joybus_state_s, then _gc_got_data, then what the hardware of
\* the channel holds: the receive FIFO, the program the state machine runs,
\* the bits it has gathered (how many, and their value) and the answer that
\* is on its way out.
ChannelType ==
  [connected : BOOLEAN, byteCounter : -1 .. 10, workingCmd : Byte,
   workingMode : Byte, rumble : BOOLEAN, got_data : BOOLEAN,
   fifo : Seq(Byte),
   sm : {"in", "out"}, bits : 0 .. 8, gathered : Byte,
   tx : Answers \cup {"none"}]

\* All bits of a frame went by, the stop bit included.
Total(f) == 8 * Len(f) + 1

\* The main loop starts with the ports disconnected and their state machines
\* listening, gamecube.c:508-559.
Init ==
  /\ ch = [c \in Channels |->
             [connected |-> FALSE, byteCounter |-> 0, workingCmd |-> 0,
              workingMode |-> 0, rumble |-> FALSE, got_data |-> FALSE,
              fifo |-> <<>>, sm |-> "in", bits |-> 0, gathered |-> 0, tx |-> "none"]]
  /\ irq = FALSE
  /\ line = [c \in Channels |-> [frame |-> <<>>, pos |-> Total(<<>>)]]
  /\ due = [c \in Channels |-> FALSE]
  /\ loop = [at |-> "messages", channel |-> 0]
  /\ unanswered = [c \in Channels |-> 0]
  /\ astray = [c \in Channels |-> TRUE]

-----------------------------------------------------------------------------
(* The channel operations the handler and the main loop are made of. *)

\* joybus_set_in: both FIFOs are emptied and the state machine starts over.
joybus_set_in_KeepsBits(in, r) ==
  [r EXCEPT !.fifo = <<>>, !.sm = IF in THEN "in" ELSE "out", !.tx = "none"]
joybus_set_in(in, r) ==
  [r EXCEPT !.fifo = <<>>, !.sm = IF in THEN "in" ELSE "out",
            !.bits = 0, !.gathered = 0, !.tx = "none"]

_gamecube_reset_state(r) ==
  [joybus_set_in(TRUE, r) EXCEPT !.byteCounter = 3, !.workingCmd = 0]

\* No other step leaves these two values behind.
Restarted(r) == r.byteCounter = 3 /\ r.workingCmd = 0

\* The next byte is the first of a command.
Respond_KeepsCounter(r, what) ==
  [joybus_set_in(FALSE, r) EXCEPT !.got_data = TRUE, !.tx = what]
Respond(r, what) ==
  [joybus_set_in(FALSE, r) EXCEPT
     !.got_data = TRUE, !.byteCounter = BYTECOUNT_NULL, !.tx = what]

\* The byte is fetched, and is a command when none is under way.
Fetched_SwissAsOthers(r) ==
  LET next == [r EXCEPT !.fifo = Tail(r.fifo)]
  IN IF r.byteCounter # BYTECOUNT_NULL THEN next
     ELSE [next EXCEPT !.workingCmd = Head(r.fifo), !.byteCounter = BYTECOUNT_DEFAULT]
Fetched(r) ==
  LET dat == Head(r.fifo)
      next == [r EXCEPT !.fifo = Tail(r.fifo)]
  IN IF r.byteCounter # BYTECOUNT_NULL THEN next
     ELSE [next EXCEPT !.workingCmd = dat,
             !.byteCounter = IF dat = GCUBE_CMD_SWISS THEN BYTECOUNT_SWISS
                                                     ELSE BYTECOUNT_DEFAULT]

_gamecube_command_handler(r) ==
  LET dat == Head(r.fifo)
      f == Fetched(r)
      cmd == f.workingCmd
      left == f.byteCounter
  IN CASE cmd = GCUBE_CMD_SWISS /\ left = 0 -> _gamecube_reset_state(f)
       [] cmd = GCUBE_CMD_ORIGINEXT /\ left = 0 -> Respond(f, "origin")
       [] cmd = GCUBE_CMD_POLL /\ left = 1 ->
            [f EXCEPT !.workingMode = dat, !.byteCounter = 0]
       [] cmd = GCUBE_CMD_POLL /\ left = 0 ->
            [Respond(f, "poll") EXCEPT !.rumble = (dat % 2 = 1)]
       [] cmd = GCUBE_CMD_PROBE -> Respond(f, "probe")
       [] cmd = GCUBE_CMD_ORIGIN -> Respond(f, "origin")
       [] OTHER -> [f EXCEPT !.byteCounter = @ - 1]

-----------------------------------------------------------------------------
(* The console. *)

Quiet(c) == line[c].pos = Total(line[c].frame)

Served(c) == ch[c].fifo # <<>> /\ ch[c].connected

\* Every byte goes out most significant bit first; the stop bit is a one.
Weight == <<128, 64, 32, 16, 8, 4, 2, 1>>
BitOf(f, k) ==
  IF k = Total(f) THEN 1
  ELSE (f[((k - 1) \div 8) + 1] \div Weight[((k - 1) % 8) + 1]) % 2

\* The handler has fetched a byte before the next is complete, 32 us later, and
\* before the console sends again.
HandlerLate(c) == irq /\ Served(c)

\* joybus_program_init follows faster than an answer goes out or a pause between
\* commands passes.
Connecting(c) == loop = [at |-> "init", channel |-> c]

\* The console leaves time for an answer before it sends again.
StartFrame(c) ==
  /\ Quiet(c)
  /\ ch[c].tx = "none"
  /\ ~HandlerLate(c) /\ ~Connecting(c)
  /\ \E f \in Frames : line' = [line EXCEPT ![c] = [frame |-> f, pos |-> 0]]
  /\ unanswered' = [unanswered EXCEPT ![c] = IF @ < 3 THEN @ + 1 ELSE @]
  /\ UNCHANGED <<ch, irq, due, loop, astray>>

\* The state machine shifts the bit in, and pushes every eighth.  A full FIFO
\* stalls it with eight bits gathered, and the bits that pass are lost.
Pushed_NoStall(r) ==
  IF r.bits = 8
  THEN [r EXCEPT !.bits = 0, !.gathered = 0, !.fifo = Append(@, r.gathered)]
  ELSE r
Pushed(r) ==
  IF r.bits = 8 /\ Len(r.fifo) < RxFifoDepth
  THEN [r EXCEPT !.bits = 0, !.gathered = 0, !.fifo = Append(@, r.gathered)]
  ELSE r
Shifted(r, bit) ==
  Pushed([r EXCEPT !.bits = @ + 1, !.gathered = 2 * @ + bit])

\* What an unconnected channel gathers is never looked at, and counts as zeros.
LineBit(c) ==
  LET f == line[c].frame
      k == line[c].pos + 1
      bit == IF ch[c].connected THEN BitOf(f, k) ELSE 0
      heard == ch[c].sm = "in" /\ ch[c].bits < 8
  IN /\ ~Quiet(c)
     /\ heard /\ ch[c].bits = 7 => ~HandlerLate(c)
     /\ ch' = IF heard THEN [ch EXCEPT ![c] = Shifted(@, bit)] ELSE ch
     /\ irq' = (irq \/ (heard /\ ch'[c].bits = 0))
     /\ line' = [line EXCEPT ![c].pos = k]
     /\ UNCHANGED <<due, loop, unanswered, astray>>

\* The answer is out.  It takes longer than what is left of any frame of three
\* bytes, and the state machine then listens again.
TxDone(c) ==
  /\ ch[c].tx # "none"
  /\ Quiet(c) \/ Len(line[c].frame) > 3
  /\ ~Connecting(c)
  /\ ch' = [ch EXCEPT ![c].sm = "in", ![c].tx = "none"]
  /\ astray' = [astray EXCEPT ![c] = @ /\ ~Quiet(c)]
  /\ UNCHANGED <<irq, line, due, loop, unanswered>>

-----------------------------------------------------------------------------
(* _gamecube_isr_rxgot: one byte of every channel that has one. *)

\* All the bits of the command are on the line; its stop bit may be.
FrameOver(c) == line[c].pos >= 8 * Len(line[c].frame)

_gamecube_isr_rxgot ==
  LET after == [c \in Channels |-> IF Served(c) THEN _gamecube_command_handler(ch[c])
                                               ELSE ch[c]]
      answers == {c \in Channels : Served(c) /\ after[c].tx # "none"}
      restarts == {c \in Channels : Served(c) /\ Restarted(after[c])}
  IN /\ irq
     /\ irq' = FALSE
     /\ ch' = after
     /\ astray' = [c \in Channels |-> astray[c] \/ c \in restarts]
     /\ unanswered' = [c \in Channels |-> IF c \in answers THEN 0 ELSE unanswered[c]]
     /\ UNCHANGED <<line, due, loop>>

-----------------------------------------------------------------------------
(* gamecube_comms_task: each channel's 100 ms are looked at in turn, then   *)
(* one message is taken.                                                    *)

At(step) == loop.at = step
Goto(step, c) == loop' = [at |-> step, channel |-> c]

Check(c) ==
  /\ At("check") /\ loop.channel = c
  /\ due' = [due EXCEPT ![c] = FALSE]
  /\ unanswered' = [unanswered EXCEPT ![c] = IF due[c] THEN 0 ELSE @]
  /\ Goto(IF due[c] /\ ~ch[c].got_data THEN "reset" ELSE "clear", c)
  /\ UNCHANGED <<ch, irq, line, astray>>

\* The three assignments are one step: the state machine has just been
\* restarted, and gathers no byte for the handler in the next 32 us.
Reset(c) ==
  /\ At("reset") /\ loop.channel = c
  /\ ch' = [ch EXCEPT ![c] = _gamecube_reset_state(@)]
  /\ astray' = [astray EXCEPT ![c] = TRUE]
  /\ Goto("clear", c)
  /\ UNCHANGED <<irq, line, due, unanswered>>

\* Data the handler got since the check is forgotten here.
ClearGotData(c) ==
  /\ At("clear") /\ loop.channel = c
  /\ ch' = [ch EXCEPT ![c].got_data = FALSE]
  /\ IF c + 1 \in Channels THEN Goto("check", c + 1) ELSE Goto("messages", 0)
  /\ UNCHANGED <<irq, line, due, unanswered, astray>>

\* No message, or one for another port or of another kind.
NoMessage ==
  /\ At("messages")
  /\ Goto("check", 0)
  /\ UNCHANGED <<ch, irq, line, due, unanswered, astray>>

\* _message_handle_connect: the state first, then the state machine.  A byte
\* may be taken for a probe in between; its answer is then cut off.
Connect_KeepsFifo(c) ==
  /\ At("messages")
  /\ ~ch[c].connected
  /\ ch' = [ch EXCEPT ![c] = [@ EXCEPT !.connected = TRUE,
              !.byteCounter = BYTECOUNT_DEFAULT, !.workingCmd = 0, !.rumble = FALSE]]
  /\ astray' = [astray EXCEPT ![c] = TRUE]
  /\ Goto("init", c)
  /\ UNCHANGED <<irq, line, due, unanswered>>
Connect(c) ==
  /\ At("messages")
  /\ ~ch[c].connected
  /\ ch' = [ch EXCEPT ![c] = Pushed([@ EXCEPT !.fifo = <<>>, !.connected = TRUE,
              !.byteCounter = BYTECOUNT_DEFAULT, !.workingCmd = 0, !.rumble = FALSE])]
  /\ irq' = (irq \/ ch[c].bits = 8)
  /\ astray' = [astray EXCEPT ![c] = TRUE]
  /\ Goto("init", c)
  /\ UNCHANGED <<line, due, unanswered>>

ProgramInit(c) ==
  /\ At("init") /\ loop.channel = c
  /\ ch' = [ch EXCEPT ![c] = joybus_set_in(TRUE, @)]
  /\ astray' = [astray EXCEPT ![c] = TRUE]
  /\ Goto("check", 0)
  /\ UNCHANGED <<irq, line, due, unanswered>>

\* What the channel has gathered counts as zeros from now on, see LineBit.
Disconnect(c) ==
  /\ At("messages")
  /\ ch[c].connected
  /\ ch' = [ch EXCEPT ![c].connected = FALSE, ![c].gathered = 0,
                      ![c].fifo = [i \in DOMAIN @ |-> 0]]
  /\ Goto("check", 0)
  /\ UNCHANGED <<irq, line, due, unanswered, astray>>

\* 100 ms went by: with more than one frame but no answer, or with no frame.
Elapse(c) ==
  /\ ~due[c]
  /\ unanswered[c] = 3 \/ (Pauses /\ Quiet(c))
  /\ due' = [due EXCEPT ![c] = TRUE]
  /\ UNCHANGED <<ch, irq, line, loop, unanswered, astray>>

-----------------------------------------------------------------------------
\* A frame goes on; it needs no choice, unlike the start of the next.
MainLoop ==
  \/ NoMessage
  \/ \E c \in Channels :
       \/ Connect(c) \/ ProgramInit(c) \/ Disconnect(c)
       \/ Check(c) \/ Reset(c) \/ ClearGotData(c)

Next ==
  \/ \E c \in Channels : StartFrame(c) \/ LineBit(c) \/ TxDone(c) \/ Elapse(c)
  \/ _gamecube_isr_rxgot
  \/ MainLoop

Spec == Init /\ [][Next]_vars

\* The console keeps sending, the hardware runs, the main loop does not stop
\* and the interrupt is taken; 100 ms without an answer are over at some time.
FairSpec ==
  /\ Spec
  /\ WF_vars(_gamecube_isr_rxgot) /\ WF_vars(MainLoop)
  /\ \A c \in Channels : WF_vars(StartFrame(c)) /\ WF_vars(LineBit(c))
                        /\ WF_vars(TxDone(c)) /\ WF_vars(Elapse(c))

-----------------------------------------------------------------------------
TypeOK ==
  /\ ch \in [Channels -> ChannelType]
  /\ \A c \in Channels : Len(ch[c].fifo) <= RxFifoDepth
  /\ irq \in BOOLEAN
  /\ line \in [Channels -> [frame : Frames \cup {<<>>}, pos : Nat]]
  /\ \A c \in Channels : line[c].pos <= Total(line[c].frame)
  /\ due \in [Channels -> BOOLEAN]
  /\ loop \in [at : {"messages", "init", "check", "reset", "clear"},
               channel : Channels]
  /\ unanswered \in [Channels -> 0 .. 3]
  /\ astray \in [Channels -> BOOLEAN]

\* A channel finds the boundaries of the commands by answering: it listens again
\* when the console is silent.  Between the start of its state machine, in the
\* middle of whatever the console was sending and with whatever the byte counter
\* says, and the end of its first answer it may answer anything.  From then on an
\* answer is to the command just sent, starts after its last byte, and takes the
\* poll mode and the rumble bit from where they are in it; the command for another
\* device stays unanswered.
Answered(f) ==
  CASE f[1] = GCUBE_CMD_PROBE -> "probe"
    [] f[1] = GCUBE_CMD_POLL -> "poll"
    [] f[1] \in {GCUBE_CMD_ORIGIN, GCUBE_CMD_ORIGINEXT} -> "origin"
    [] OTHER -> "none"

AnswerStarts(c) == ch[c].tx = "none" /\ ch'[c].tx # "none"

AnswersMatchCommands ==
  [][\A c \in Channels : AnswerStarts(c) /\ ~astray[c] =>
       LET f == line[c].frame
           now == ch'[c]
       IN /\ FrameOver(c)
          /\ now.tx = Answered(f)
          /\ now.tx = "poll" => now.workingMode = f[2] /\ now.rumble = (f[3] % 2 = 1)]_vars

\* The command for another device is sat out to its last byte: the handler
\* restarts a channel behind it, where the next byte would be counted anew, and
\* never in the middle of it or for any other command (gamecube.c:218-226).
OtherDevicesAreSatOut ==
  [][\A c \in Channels : irq /\ ~irq' /\ Served(c) /\ Restarted(ch'[c]) /\ ~astray[c] =>
       FrameOver(c) /\ line[c].frame[1] = GCUBE_CMD_SWISS]_vars

\* A byte waits in a FIFO the handler reads only as long as the interrupt that
\* announces it is pending: with one flag for four channels and one byte taken
\* from each, none is left over.
NoByteStranded ==
  \A c \in Channels : Served(c) => irq

\* Whatever moment of a frame a channel was connected or restarted at, and
\* whatever it took the first byte for, it ends up answering the commands of a
\* console that keeps sending them, and in step with them, so that its answers
\* are those of AnswersMatchCommands from then on.
CommandsGetAnswered ==
  \A c \in Channels :
    <>[]ch[c].connected => []<>(ch[c].tx # "none" /\ ~astray[c])
=============================================================================
