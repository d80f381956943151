---------------------------- MODULE JoybusProofs ----------------------------
(***************************************************************************)
(* A channel that is in step with the console stays in step: what Joybus   *)
(* checks for one channel and a few commands, proved for every number of   *)
(* channels that share the interrupt, and for every value of every byte.   *)
(* The timers come last; the 100 ms of a channel is one of them.           *)
(***************************************************************************)
EXTENDS Joybus, IntervalTimer, TLAPS

\* There is a channel, and behind each comes another or none.
LEMMA Sizes ==
  /\ NumChannels \in Nat /\ 0 \in Channels /\ Channels \subseteq Nat
  /\ \A c \in Channels : c + 1 \in Channels \/ c + 1 = NumChannels
  BY JoybusAssumption DEF Channels

-----------------------------------------------------------------------------
(* What the operations of a channel do to its record.                       *)

\* The values that b bits can have.
Below == <<1, 2, 4, 8, 16, 32, 64, 128, 256>>

\* A record of the channel whose FIFO and bits fit.
Channel(r) ==
  /\ r \in ChannelType
  /\ Len(r.fifo) <= RxFifoDepth
  /\ r.gathered < Below[r.bits + 1]

\* The fields of joybus_state_s and _gc_got_data.
State(q, r) ==
  /\ q.connected = r.connected /\ q.byteCounter = r.byteCounter
  /\ q.workingCmd = r.workingCmd /\ q.workingMode = r.workingMode
  /\ q.rumble = r.rumble /\ q.got_data = r.got_data
\* What the hardware of the channel holds.
Hardware(q, r) ==
  /\ q.fifo = r.fifo /\ q.sm = r.sm /\ q.bits = r.bits /\ q.gathered = r.gathered
  /\ q.tx = r.tx

\* joybus_set_in empties and restarts the channel, and leaves the state alone.
LEMMA SetIn ==
  ASSUME NEW r \in ChannelType, NEW in \in BOOLEAN
  PROVE  LET q == joybus_set_in(in, r)
         IN /\ q \in ChannelType /\ State(q, r)
            /\ q.fifo = <<>> /\ q.bits = 0 /\ q.gathered = 0 /\ q.tx = "none"
            /\ q.sm = IF in THEN "in" ELSE "out"
<1> DEFINE q1 == [r EXCEPT !.fifo = <<>>]
           q2 == [q1 EXCEPT !.sm = IF in THEN "in" ELSE "out"]
           q3 == [q2 EXCEPT !.bits = 0]
           q4 == [q3 EXCEPT !.gathered = 0]
           q5 == [q4 EXCEPT !.tx = "none"]
<1>0. joybus_set_in(in, r) = q5
  BY DEF joybus_set_in
<1>e. <<>> \in Seq(Byte) /\ 0 \in Byte
  BY DEF Byte
<1>1. q1 \in ChannelType /\ State(q1, r) /\ q1.fifo = <<>>
  BY <1>e DEF ChannelType, State
<1> HIDE DEF q1
<1>2. q2 \in ChannelType /\ State(q2, r) /\ q2.fifo = <<>> /\ q2.sm = IF in THEN "in" ELSE "out"
  BY <1>1 DEF ChannelType, State
<1> HIDE DEF q2
<1>3. q3 \in ChannelType /\ State(q3, r) /\ q3.fifo = <<>> /\ q3.bits = 0
      /\ q3.sm = IF in THEN "in" ELSE "out"
  BY <1>2 DEF ChannelType, State
<1> HIDE DEF q3
<1>4. q4 \in ChannelType /\ State(q4, r) /\ q4.fifo = <<>> /\ q4.bits = 0 /\ q4.gathered = 0
      /\ q4.sm = IF in THEN "in" ELSE "out"
  BY <1>3, <1>e DEF ChannelType, State
<1> HIDE DEF q4
<1>5. q5 \in ChannelType /\ State(q5, r) /\ q5.fifo = <<>> /\ q5.bits = 0 /\ q5.gathered = 0
      /\ q5.sm = (IF in THEN "in" ELSE "out") /\ q5.tx = "none"
  BY <1>4 DEF ChannelType, State
<1>6. QED
  BY <1>0, <1>5

\* A channel that was restarted listens, and counts from three.
LEMMA ResetState ==
  ASSUME NEW r \in ChannelType
  PROVE  LET q == _gamecube_reset_state(r)
         IN /\ q \in ChannelType
            /\ q.fifo = <<>> /\ q.bits = 0 /\ q.gathered = 0 /\ q.tx = "none"
            /\ q.sm = "in" /\ q.connected = r.connected
            /\ Restarted(q)
<1> DEFINE s == joybus_set_in(TRUE, r)
           q1 == [s EXCEPT !.byteCounter = 3]
           q2 == [q1 EXCEPT !.workingCmd = 0]
<1>1. /\ s \in ChannelType /\ s.sm = "in" /\ s.fifo = <<>> /\ s.bits = 0 /\ s.gathered = 0
      /\ s.tx = "none" /\ s.connected = r.connected
  BY SetIn DEF State
<1>2. _gamecube_reset_state(r) = q2
  BY DEF _gamecube_reset_state
<1> HIDE DEF s
<1>e. 0 \in Byte
  BY DEF Byte
<1>3. q1 \in ChannelType /\ Hardware(q1, s) /\ q1.connected = s.connected /\ q1.byteCounter = 3
  BY <1>1 DEF ChannelType, Hardware
<1> HIDE DEF q1
<1>4. q2 \in ChannelType /\ Hardware(q2, s) /\ q2.connected = s.connected /\ q2.byteCounter = 3
      /\ q2.workingCmd = 0
  BY <1>3, <1>e DEF ChannelType, Hardware
<1>5. QED
  BY <1>1, <1>2, <1>4 DEF Restarted, Hardware

\* A channel that responds has dropped all it heard, and awaits a command.
LEMMA Responds ==
  ASSUME NEW r \in ChannelType, NEW what \in Answers
  PROVE  LET q == Respond(r, what)
         IN /\ q \in ChannelType
            /\ q.fifo = <<>> /\ q.bits = 0 /\ q.gathered = 0 /\ q.tx = what
            /\ q.sm = "out" /\ q.byteCounter = BYTECOUNT_NULL
            /\ q.connected = r.connected /\ q.workingMode = r.workingMode
<1> DEFINE s == joybus_set_in(FALSE, r)
           q1 == [s EXCEPT !.got_data = TRUE]
           q2 == [q1 EXCEPT !.byteCounter = BYTECOUNT_NULL]
           q3 == [q2 EXCEPT !.tx = what]
<1>1. /\ s \in ChannelType /\ s.sm = "out" /\ s.fifo = <<>> /\ s.bits = 0 /\ s.gathered = 0
      /\ s.connected = r.connected /\ s.workingMode = r.workingMode
  BY SetIn DEF State
<1>2. Respond(r, what) = q3
  BY DEF Respond
<1> HIDE DEF s
<1>3. q1 \in ChannelType /\ Hardware(q1, s) /\ q1.connected = s.connected
      /\ q1.workingMode = s.workingMode
  BY <1>1 DEF ChannelType, Hardware
<1> HIDE DEF q1
<1>4. q2 \in ChannelType /\ Hardware(q2, s) /\ q2.connected = s.connected
      /\ q2.workingMode = s.workingMode /\ q2.byteCounter = BYTECOUNT_NULL
  BY <1>3 DEF ChannelType, Hardware, BYTECOUNT_NULL
<1> HIDE DEF q2
<1>5. /\ q3 \in ChannelType /\ q3.fifo = q2.fifo /\ q3.sm = q2.sm /\ q3.bits = q2.bits
      /\ q3.gathered = q2.gathered /\ q3.connected = q2.connected
      /\ q3.workingMode = q2.workingMode /\ q3.byteCounter = q2.byteCounter /\ q3.tx = what
  BY <1>4 DEF ChannelType
<1>6. QED
  BY <1>1, <1>2, <1>4, <1>5 DEF Hardware

\* The oldest byte is taken; it is a command when the counter says so.
LEMMA Fetches ==
  ASSUME NEW r \in ChannelType, r.fifo # <<>>
  PROVE  LET q == Fetched(r)
             dat == Head(r.fifo)
         IN /\ q \in ChannelType /\ dat \in Byte
            /\ q.fifo = Tail(r.fifo) /\ Len(q.fifo) = Len(r.fifo) - 1
            /\ q.bits = r.bits /\ q.gathered = r.gathered /\ q.tx = r.tx /\ q.sm = r.sm
            /\ q.connected = r.connected /\ q.workingMode = r.workingMode
            /\ q.byteCounter \in 0 .. 10
            /\ IF r.byteCounter = BYTECOUNT_NULL
               THEN q.workingCmd = dat
                    /\ q.byteCounter = IF dat = GCUBE_CMD_SWISS THEN 10 ELSE 2
               ELSE q.workingCmd = r.workingCmd /\ q.byteCounter = r.byteCounter
<1> DEFINE s == [r EXCEPT !.fifo = Tail(r.fifo)]
           dat == Head(r.fifo)
           count == IF dat = GCUBE_CMD_SWISS THEN BYTECOUNT_SWISS ELSE BYTECOUNT_DEFAULT
           s1 == [s EXCEPT !.workingCmd = dat]
           s2 == [s1 EXCEPT !.byteCounter = count]
<1>1. r.fifo \in Seq(Byte) /\ dat \in Byte /\ Tail(r.fifo) \in Seq(Byte)
      /\ Len(Tail(r.fifo)) = Len(r.fifo) - 1
  BY DEF ChannelType
<1>2. /\ s \in ChannelType /\ s.fifo = Tail(r.fifo)
      /\ s.bits = r.bits /\ s.gathered = r.gathered /\ s.tx = r.tx /\ s.sm = r.sm
      /\ State(s, r)
  BY <1>1 DEF ChannelType, State
<1>3. Fetched(r) = IF r.byteCounter # BYTECOUNT_NULL THEN s ELSE s2
  BY DEF Fetched
<1>c. count \in -1 .. 10 /\ count \in 0 .. 10 /\ count = IF dat = GCUBE_CMD_SWISS THEN 10 ELSE 2
  BY DEF BYTECOUNT_SWISS, BYTECOUNT_DEFAULT
<1> HIDE DEF s, count, dat
<1>4. CASE r.byteCounter # BYTECOUNT_NULL
  <2>1. r.byteCounter \in 0 .. 10
    BY <1>4 DEF ChannelType, BYTECOUNT_NULL
  <2>2. QED
    BY <1>1, <1>2, <1>3, <1>4, <2>1 DEF State, dat
<1>5. CASE r.byteCounter = BYTECOUNT_NULL
  <2>1. s1 \in ChannelType /\ Hardware(s1, s) /\ s1.connected = s.connected
        /\ s1.workingMode = s.workingMode /\ s1.workingCmd = dat
    BY <1>1, <1>2 DEF ChannelType, Hardware
  <2> HIDE DEF s1
  <2>2. s2 \in ChannelType /\ Hardware(s2, s1) /\ s2.connected = s1.connected
        /\ s2.workingMode = s1.workingMode /\ s2.workingCmd = s1.workingCmd
        /\ s2.byteCounter = count
    BY <2>1, <1>c DEF ChannelType, Hardware
  <2> HIDE DEF s2
  <2>3. Fetched(r) = s2
    BY <1>3, <1>5
  <2>4. Hardware(s2, s) /\ s2.connected = r.connected /\ s2.workingMode = r.workingMode
        /\ s2.workingCmd = dat
    BY <1>2, <2>1, <2>2 DEF Hardware, State
  <2>5. QED
    BY <1>1, <1>2, <1>c, <1>5, <2>2, <2>3, <2>4 DEF Hardware, dat
<1>6. QED
  BY <1>4, <1>5

\* Respond leaves an answer to a poll with the rumble bit it took from it.
LEMMA RespondsToPoll ==
  ASSUME NEW r \in ChannelType, NEW rumble \in BOOLEAN
  PROVE  LET q == [Respond(r, "poll") EXCEPT !.rumble = rumble]
         IN /\ q \in ChannelType
            /\ q.fifo = <<>> /\ q.bits = 0 /\ q.gathered = 0 /\ q.tx = "poll"
            /\ q.sm = "out" /\ q.byteCounter = BYTECOUNT_NULL
            /\ q.connected = r.connected /\ q.workingMode = r.workingMode
            /\ q.rumble = rumble
<1> DEFINE s == Respond(r, "poll")
<1>1. /\ s \in ChannelType
      /\ s.fifo = <<>> /\ s.bits = 0 /\ s.gathered = 0 /\ s.tx = "poll"
      /\ s.sm = "out" /\ s.byteCounter = BYTECOUNT_NULL
      /\ s.connected = r.connected /\ s.workingMode = r.workingMode
  BY Responds DEF Answers
<1> HIDE DEF s
<1> DEFINE q == [s EXCEPT !.rumble = rumble]
<1>2. q \in ChannelType
  BY <1>1 DEF ChannelType
<1>3. /\ q.fifo = s.fifo /\ q.bits = s.bits /\ q.gathered = s.gathered /\ q.tx = s.tx
      /\ q.sm = s.sm /\ q.byteCounter = s.byteCounter
      /\ q.connected = s.connected /\ q.workingMode = s.workingMode
  BY <1>1 DEF ChannelType
<1>4. q.rumble = rumble
  BY <1>1, Zenon DEF ChannelType
<1> HIDE DEF q
<1>5. QED
  BY <1>1, <1>2, <1>3, <1>4 DEF s, q

\* The command the handler is in when it has fetched a byte, and what its
\* counter says then.
Command(r) == Fetched(r).workingCmd
Left(r) == Fetched(r).byteCounter

\* An answer is on its way and nothing of a command is left.
AnswerSent(q, what) ==
  /\ q.fifo = <<>> /\ q.bits = 0 /\ q.gathered = 0 /\ q.tx = what /\ q.sm = "out"
  /\ q.byteCounter = BYTECOUNT_NULL

HandlerAnswers(q, r) ==
  \/ Command(r) = GCUBE_CMD_ORIGINEXT /\ Left(r) = 0 /\ AnswerSent(q, "origin")
  \/ Command(r) = GCUBE_CMD_PROBE /\ AnswerSent(q, "probe")
  \/ Command(r) = GCUBE_CMD_ORIGIN /\ AnswerSent(q, "origin")
  \/ Command(r) = GCUBE_CMD_POLL /\ Left(r) = 0 /\ AnswerSent(q, "poll")
     /\ q.workingMode = r.workingMode /\ q.rumble = (Head(r.fifo) % 2 = 1)

HandlerRestarts(q, r) ==
  /\ Command(r) = GCUBE_CMD_SWISS /\ Left(r) = 0 /\ Restarted(q)
  /\ q.fifo = <<>> /\ q.bits = 0 /\ q.gathered = 0 /\ q.tx = "none" /\ q.sm = "in"

HandlerCounts(q, r) ==
  /\ q.fifo = Tail(r.fifo) /\ q.bits = r.bits /\ q.gathered = r.gathered
  /\ q.tx = r.tx /\ q.sm = r.sm
  /\ q.workingCmd = Command(r) /\ q.byteCounter = Left(r) - 1
  /\ q.workingMode = IF Command(r) = GCUBE_CMD_POLL /\ Left(r) = 1 THEN Head(r.fifo)
                                                                  ELSE r.workingMode
  /\ Command(r) \notin {GCUBE_CMD_PROBE, GCUBE_CMD_ORIGIN}
  /\ Left(r) = 0 => Command(r) \notin {GCUBE_CMD_SWISS, GCUBE_CMD_ORIGINEXT, GCUBE_CMD_POLL}

\* The handler answers, restarts the channel or counts the byte.
LEMMA Handles ==
  ASSUME NEW r \in ChannelType, r.fifo # <<>>, NEW q, q = _gamecube_command_handler(r)
  PROVE  /\ q \in ChannelType /\ q.connected = r.connected
         /\ HandlerAnswers(q, r) \/ HandlerRestarts(q, r) \/ HandlerCounts(q, r)
<1> DEFINE f == Fetched(r)
           dat == Head(r.fifo)
           cmd == f.workingCmd
           left == f.byteCounter
<1> USE DEF GCUBE_CMD_SWISS, GCUBE_CMD_ORIGINEXT, GCUBE_CMD_POLL, GCUBE_CMD_PROBE, GCUBE_CMD_ORIGIN
<1>1. /\ f \in ChannelType /\ dat \in Byte /\ left \in 0 .. 10
      /\ f.fifo = Tail(r.fifo) /\ f.bits = r.bits /\ f.gathered = r.gathered
      /\ f.tx = r.tx /\ f.sm = r.sm /\ f.connected = r.connected /\ f.workingMode = r.workingMode
  BY Fetches
<1>2. Command(r) = cmd /\ Left(r) = left
  BY DEF Command, Left
<1>3. q = CASE cmd = GCUBE_CMD_SWISS /\ left = 0 -> _gamecube_reset_state(f)
            [] cmd = GCUBE_CMD_ORIGINEXT /\ left = 0 -> Respond(f, "origin")
            [] cmd = GCUBE_CMD_POLL /\ left = 1 -> [f EXCEPT !.workingMode = dat, !.byteCounter = 0]
            [] cmd = GCUBE_CMD_POLL /\ left = 0 ->
                 [Respond(f, "poll") EXCEPT !.rumble = (dat % 2 = 1)]
            [] cmd = GCUBE_CMD_PROBE -> Respond(f, "probe")
            [] cmd = GCUBE_CMD_ORIGIN -> Respond(f, "origin")
            [] OTHER -> [f EXCEPT !.byteCounter = @ - 1]
  BY DEF _gamecube_command_handler
<1> HIDE DEF f
<1>4. CASE cmd = GCUBE_CMD_SWISS /\ left = 0
  <2>1. q = _gamecube_reset_state(f)
    BY <1>3, <1>4
  <2>2. QED
    BY <1>1, <1>2, <1>4, <2>1, ResetState DEF HandlerRestarts
<1>5. CASE cmd = GCUBE_CMD_ORIGINEXT /\ left = 0
  <2>1. q = Respond(f, "origin")
    BY <1>3, <1>5
  <2>2. QED
    BY <1>1, <1>2, <1>5, <2>1, Responds DEF HandlerAnswers, AnswerSent, Answers
<1>6. CASE cmd = GCUBE_CMD_POLL /\ left = 1
  <2> DEFINE f1 == [f EXCEPT !.workingMode = dat]
             f2 == [f1 EXCEPT !.byteCounter = 0]
  <2>1. q = f2
    BY <1>3, <1>6
  <2>2. /\ f1 \in ChannelType /\ Hardware(f1, f) /\ f1.connected = f.connected
        /\ f1.workingCmd = f.workingCmd /\ f1.workingMode = dat
    BY <1>1 DEF ChannelType, Hardware
  <2> HIDE DEF f1
  <2>3. f2 \in ChannelType
    BY <2>2, 0 \in -1 .. 10 DEF ChannelType
  <2>c. /\ Hardware(f2, f1) /\ f2.connected = f1.connected
        /\ f2.workingCmd = f1.workingCmd /\ f2.workingMode = f1.workingMode /\ f2.byteCounter = 0
    BY <2>2 DEF ChannelType, Hardware
  <2> HIDE DEF f2
  <2>4. QED
    BY <1>1, <1>2, <1>6, <2>1, <2>2, <2>3, <2>c DEF HandlerCounts, Hardware
<1>7. CASE cmd = GCUBE_CMD_POLL /\ left = 0
  <2>1. q = [Respond(f, "poll") EXCEPT !.rumble = (dat % 2 = 1)]
    BY <1>3, <1>7
  <2>2. (dat % 2 = 1) \in BOOLEAN
    OBVIOUS
  <2> DEFINE rumble == (dat % 2 = 1)
  <2> HIDE DEF rumble
  <2>3. q = [Respond(f, "poll") EXCEPT !.rumble = rumble] /\ rumble \in BOOLEAN
    BY <2>1, <2>2 DEF rumble
  <2>4. /\ q \in ChannelType /\ AnswerSent(q, "poll") /\ q.connected = r.connected
        /\ q.workingMode = r.workingMode /\ q.rumble = rumble
    BY <1>1, <2>3, RespondsToPoll DEF AnswerSent
  <2>5. QED
    BY <1>2, <1>7, <2>4 DEF HandlerAnswers, rumble
<1>8. CASE cmd = GCUBE_CMD_PROBE
  <2>1. q = Respond(f, "probe")
    BY <1>3, <1>8
  <2>2. QED
    BY <1>1, <1>2, <1>8, <2>1, Responds DEF HandlerAnswers, AnswerSent, Answers
<1>9. CASE cmd = GCUBE_CMD_ORIGIN
  <2>1. q = Respond(f, "origin")
    BY <1>3, <1>9
  <2>2. QED
    BY <1>1, <1>2, <1>9, <2>1, Responds DEF HandlerAnswers, AnswerSent, Answers
<1>10. CASE /\ ~(cmd = GCUBE_CMD_SWISS /\ left = 0) /\ ~(cmd = GCUBE_CMD_ORIGINEXT /\ left = 0)
            /\ ~(cmd = GCUBE_CMD_POLL /\ left = 1) /\ ~(cmd = GCUBE_CMD_POLL /\ left = 0)
            /\ cmd # GCUBE_CMD_PROBE /\ cmd # GCUBE_CMD_ORIGIN
  <2>1. q = [f EXCEPT !.byteCounter = @ - 1]
    BY <1>3, <1>10
  <2>2. /\ q \in ChannelType /\ Hardware(q, f) /\ q.connected = f.connected
        /\ q.workingCmd = f.workingCmd /\ q.workingMode = f.workingMode
        /\ q.byteCounter = left - 1
    BY <1>1, <2>1 DEF ChannelType, Hardware
  <2>3. QED
    BY <1>1, <1>2, <1>10, <2>2 DEF HandlerCounts, Hardware
<1>11. QED
  BY <1>4, <1>5, <1>6, <1>7, <1>8, <1>9, <1>10

\* Eight bits gathered go into the FIFO when it has room.
LEMMA Pushes ==
  ASSUME NEW r, Channel(r), NEW q, q = Pushed(r)
  PROVE  /\ Channel(q) /\ State(q, r) /\ q.sm = r.sm /\ q.tx = r.tx
         /\ IF r.bits = 8 /\ Len(r.fifo) < RxFifoDepth
            THEN q.bits = 0 /\ q.gathered = 0 /\ q.fifo = Append(r.fifo, r.gathered)
            ELSE q = r
<1>1. r \in ChannelType /\ r.fifo \in Seq(Byte) /\ r.gathered \in Byte /\ 0 \in Byte
  BY DEF Channel, ChannelType, Byte
<1>2. CASE r.bits = 8 /\ Len(r.fifo) < RxFifoDepth
  <2> DEFINE q1 == [r EXCEPT !.bits = 0]
             q2 == [q1 EXCEPT !.gathered = 0]
             q3 == [q2 EXCEPT !.fifo = Append(@, r.gathered)]
  <2>1. q = q3
    BY <1>2 DEF Pushed
  <2>2. q1 \in ChannelType /\ State(q1, r) /\ q1.bits = 0 /\ q1.fifo = r.fifo /\ q1.sm = r.sm
        /\ q1.tx = r.tx
    BY <1>1, 0 \in 0 .. 8 DEF ChannelType, State
  <2> HIDE DEF q1
  <2>3. q2 \in ChannelType /\ State(q2, r) /\ q2.bits = 0 /\ q2.fifo = r.fifo /\ q2.sm = r.sm
        /\ q2.tx = r.tx /\ q2.gathered = 0
    BY <1>1, <2>2 DEF ChannelType, State
  <2> HIDE DEF q2
  <2>4. Append(r.fifo, r.gathered) \in Seq(Byte) /\ Len(Append(r.fifo, r.gathered)) = Len(r.fifo) + 1
    BY <1>1
  <2>5. q3 \in ChannelType /\ State(q3, r) /\ q3.bits = 0 /\ q3.fifo = Append(r.fifo, r.gathered)
        /\ q3.sm = r.sm /\ q3.tx = r.tx /\ q3.gathered = 0
    BY <2>3, <2>4 DEF ChannelType, State
  <2> HIDE DEF q3
  <2>6. Len(q3.fifo) <= RxFifoDepth
    BY <1>1, <1>2, <2>4, <2>5 DEF RxFifoDepth
  <2>7. QED
    BY <1>2, <2>1, <2>5, <2>6 DEF Channel, Below
<1>3. CASE ~(r.bits = 8 /\ Len(r.fifo) < RxFifoDepth)
  BY <1>3 DEF Pushed, State
<1>4. QED
  BY <1>2, <1>3

\* A bit is shifted in, behind those gathered.
LEMMA Shifts ==
  ASSUME NEW r, Channel(r), r.bits < 8, NEW bit \in {0, 1}, NEW q, q = Shifted(r, bit)
  PROVE  /\ Channel(q) /\ State(q, r) /\ q.sm = r.sm /\ q.tx = r.tx
         /\ IF r.bits = 7 /\ Len(r.fifo) < RxFifoDepth
            THEN q.bits = 0 /\ q.gathered = 0 /\ q.fifo = Append(r.fifo, 2 * r.gathered + bit)
            ELSE q.bits = r.bits + 1 /\ q.gathered = 2 * r.gathered + bit /\ q.fifo = r.fifo
<1> DEFINE s1 == [r EXCEPT !.bits = @ + 1]
           s2 == [s1 EXCEPT !.gathered = 2 * @ + bit]
<1>1. r \in ChannelType /\ r.gathered \in Byte /\ r.bits \in 0 .. 7 /\ Len(r.fifo) <= RxFifoDepth
  BY DEF Channel, ChannelType
<1>2. 2 * r.gathered + bit \in Byte /\ 2 * r.gathered + bit < Below[r.bits + 2]
  <2>1. r.gathered < Below[r.bits + 1]
    BY Zenon DEF Channel
  <2>n. r.gathered \in 0 .. 255 /\ r.bits \in 0 .. 7 /\ bit \in {0, 1}
    BY <1>1 DEF Byte
  <2>2. \A b \in 0 .. 7 : Below[b + 2] = 2 * Below[b + 1] /\ Below[b + 2] \in 0 .. 256
                          /\ Below[b + 1] \in Nat
    BY DEF Below
  <2> DEFINE g == r.gathered
             b == r.bits
  <2>3. g < Below[b + 1] /\ g \in 0 .. 255 /\ b \in 0 .. 7
    BY <2>1, <2>n
  <2> HIDE DEF g, b
  <2>4. Below[b + 2] = 2 * Below[b + 1] /\ Below[b + 2] \in 0 .. 256 /\ Below[b + 1] \in Nat
    BY <2>2, <2>3
  <2>5. \A lim \in Nat : g < lim /\ 2 * lim <= 256 => 2 * g + bit < 2 * lim /\ 2 * g + bit \in 0 .. 255
    BY <2>3
  <2>6. 2 * g + bit \in 0 .. 255 /\ 2 * g + bit < Below[b + 2]
    BY <2>3, <2>4, <2>5
  <2>7. QED
    BY <2>6 DEF g, b, Byte
<1>3. s1 \in ChannelType /\ State(s1, r) /\ s1.bits = r.bits + 1 /\ s1.fifo = r.fifo
      /\ s1.gathered = r.gathered /\ s1.sm = r.sm /\ s1.tx = r.tx
  BY <1>1 DEF ChannelType, State
<1>4. q = Pushed(s2)
  BY DEF Shifted
<1> HIDE DEF s1
<1>5. s2 \in ChannelType /\ State(s2, r) /\ s2.bits = r.bits + 1 /\ s2.fifo = r.fifo
      /\ s2.gathered = 2 * r.gathered + bit /\ s2.sm = r.sm /\ s2.tx = r.tx
  BY <1>2, <1>3 DEF ChannelType, State
<1> HIDE DEF s2
<1>6. Channel(s2)
  BY <1>1, <1>2, <1>5 DEF Channel
<1>7. s2.bits = 8 <=> r.bits = 7
  BY <1>1, <1>5
<1>8. Channel(q) /\ State(q, s2) /\ q.sm = s2.sm /\ q.tx = s2.tx
      /\ IF s2.bits = 8 /\ Len(s2.fifo) < RxFifoDepth
         THEN q.bits = 0 /\ q.gathered = 0 /\ q.fifo = Append(s2.fifo, s2.gathered)
         ELSE q = s2
  BY <1>4, <1>6, Pushes
<1>9. QED
  BY <1>5, <1>7, <1>8 DEF State

-----------------------------------------------------------------------------
(* The invariant.                                                           *)

\* What JoybusAssumption says of one command.
LEMMA FrameFacts ==
  ASSUME NEW f \in Frames
  PROVE  /\ f \in Seq(Byte) /\ Len(f) \in Nat /\ Len(f) > 0
         /\ \A i \in 1 .. Len(f) : f[i] \in Byte
         /\ \/ f[1] \in {GCUBE_CMD_PROBE, GCUBE_CMD_ORIGIN} /\ Len(f) = 1
            \/ f[1] \in {GCUBE_CMD_POLL, GCUBE_CMD_ORIGINEXT} /\ Len(f) = 3
            \/ f[1] = GCUBE_CMD_SWISS /\ Len(f) = 11
<1>1. f \in Seq(Byte) /\ f # <<>> /\ Len(f) = CommandLength(f[1])
  BY JoybusAssumption
<1>2. Len(f) \in Nat /\ Len(f) > 0 /\ \A i \in 1 .. Len(f) : f[i] \in Byte
  BY <1>1
<1>3. QED
  BY <1>1, <1>2 DEF CommandLength, GCUBE_CMD_SWISS, GCUBE_CMD_ORIGINEXT, GCUBE_CMD_POLL,
       GCUBE_CMD_PROBE, GCUBE_CMD_ORIGIN

\* The first b bits of a byte, as a number.
Part(v, b) == IF b = 0 THEN 0 ELSE v \div Weight[b]

\* The next bit of a byte goes behind those that are there; with eight, the byte
\* is complete.
LEMMA NextBit ==
  ASSUME NEW v \in Byte, NEW b \in 0 .. 7
  PROVE  LET bit == (v \div Weight[b + 1]) % 2
         IN  /\ bit \in {0, 1}
             /\ 2 * Part(v, b) + bit = Part(v, b + 1)
             /\ b = 7 => Part(v, b + 1) = v
<1>1. v \in 0 .. 255
  BY DEF Byte
<1>2. CASE b = 0
  BY <1>1, <1>2 DEF Part, Weight
<1>3. CASE b = 1
  BY <1>1, <1>3 DEF Part, Weight
<1>4. CASE b = 2
  BY <1>1, <1>4 DEF Part, Weight
<1>5. CASE b = 3
  BY <1>1, <1>5 DEF Part, Weight
<1>6. CASE b = 4
  BY <1>1, <1>6 DEF Part, Weight
<1>7. CASE b = 5
  BY <1>1, <1>7 DEF Part, Weight
<1>8. CASE b = 6
  BY <1>1, <1>8 DEF Part, Weight
<1>9. CASE b = 7
  BY <1>1, <1>9 DEF Part, Weight
<1>10. QED
  BY <1>2, <1>3, <1>4, <1>5, <1>6, <1>7, <1>8, <1>9

\* A channel in step with frame f: n bytes and b bits of it went by, and the
\* handler has taken h of the bytes.
Follows(r, f, n, b, h) ==
  /\ n \in 0 .. Len(f) /\ b \in 0 .. 7 /\ h \in 0 .. Len(f) - 1
  /\ n = Len(f) => b <= 1
  /\ r.bits = b
  /\ n < Len(f) => r.gathered = Part(f[n + 1], b)
  /\ (h = n /\ r.fifo = <<>>) \/ (h + 1 = n /\ r.fifo = <<f[n]>>)
  /\ h = 0 => r.byteCounter = BYTECOUNT_NULL
  /\ h > 0 => r.workingCmd = f[1] /\ r.byteCounter = Len(f) - 1 - h
  /\ h > 1 /\ f[1] = GCUBE_CMD_POLL => r.workingMode = f[2]
Following(r, l) ==
  /\ r.tx = "none" /\ l.frame \in Frames
  /\ \E n, b, h \in Nat : l.pos = 8 * n + b /\ Follows(r, l.frame, n, b, h)

\* One that is done with a frame: it answers, or has answered.
Resting(r, l) ==
  /\ r.tx = "none" /\ l.pos = Total(l.frame)
  /\ r.byteCounter = BYTECOUNT_NULL /\ r.bits = 0 /\ r.gathered = 0 /\ r.fifo = <<>>
Answering(r, l) ==
  r.tx # "none" /\ l.pos >= 8 * Len(l.frame) /\ Len(l.frame) <= 3

InStep(r, l) == Following(r, l) \/ Resting(r, l) \/ Answering(r, l)

\* A state machine that sends has heard nothing; a port that is connected has at
\* most one byte in its FIFO, and the interrupt for it is pending.
Wired(r) ==
  /\ Channel(r)
  /\ r.tx # "none" <=> r.sm = "out"
  /\ r.sm = "out" => r.fifo = <<>> /\ r.bits = 0 /\ r.gathered = 0
  /\ r.connected => r.bits < 8 /\ Len(r.fifo) <= 1

Good(c) ==
  /\ Wired(ch[c])
  /\ Served(c) => irq
  /\ ch[c].connected /\ ch[c].sm = "out" /\ ~Connecting(c) => ch[c].byteCounter = BYTECOUNT_NULL
  /\ Connecting(c) => ch[c].connected /\ astray[c]
  /\ ch[c].connected /\ ~astray[c] => InStep(ch[c], line[c])

IInv == TypeOK /\ \A c \in Channels : Good(c)

\* A channel nothing happens to stays good.
LEMMA Unmoved ==
  ASSUME NEW c, Good(c), ch'[c] = ch[c], line'[c] = line[c], astray'[c] = astray[c],
         Connecting(c)' <=> Connecting(c), irq => irq'
  PROVE  Good(c)'
  BY DEF Good, Served

\* So it is enough to look at the one that moves.
LEMMA OneMoves ==
  ASSUME IInv, TypeOK', NEW c \in Channels, Good(c)', irq => irq',
         \A d \in Channels \ {c} : /\ ch'[d] = ch[d] /\ line'[d] = line[d]
                                   /\ astray'[d] = astray[d]
                                   /\ Connecting(d)' <=> Connecting(d)
  PROVE  IInv'
  BY Unmoved DEF IInv

-----------------------------------------------------------------------------
(* The console and the hardware.                                            *)

\* A new command finds the channel at rest, as if it had just been answered.
LEMMA StartFrameStep ==
  ASSUME IInv, NEW c \in Channels, StartFrame(c)
  PROVE  IInv'
<1>1. PICK f \in Frames : line' = [line EXCEPT ![c] = [frame |-> f, pos |-> 0]]
  BY DEF StartFrame
<1>2. /\ Quiet(c) /\ ch[c].tx = "none" /\ ~HandlerLate(c) /\ ~Connecting(c)
      /\ ch' = ch /\ irq' = irq /\ due' = due /\ loop' = loop /\ astray' = astray
      /\ unanswered' = [unanswered EXCEPT ![c] = IF @ < 3 THEN @ + 1 ELSE @]
  BY DEF StartFrame
<1>3. TypeOK' /\ line'[c] = [frame |-> f, pos |-> 0]
  <2>1. line \in [Channels -> [frame : Frames \cup {<<>>}, pos : Nat]]
    BY DEF IInv, TypeOK
  <2>2. line' \in [Channels -> [frame : Frames \cup {<<>>}, pos : Nat]]
    BY <1>1, <2>1
  <2>3. line'[c] = [frame |-> f, pos |-> 0] /\ \A d \in Channels \ {c} : line'[d] = line[d]
    BY <1>1, <2>1
  <2>4. \A d \in Channels : line'[d].pos <= Total(line'[d].frame)
    <3>1. line'[c].pos <= Total(line'[c].frame)
      BY <2>3, FrameFacts DEF Total
    <3>2. QED
      BY <2>3, <3>1 DEF IInv, TypeOK
  <2>5. unanswered' \in [Channels -> 0 .. 3]
    BY <1>2 DEF IInv, TypeOK
  <2>6. QED
    BY <1>2, <2>2, <2>3, <2>4, <2>5 DEF IInv, TypeOK
<1>4. Good(c)'
  <2>1. Good(c)
    BY DEF IInv
  <2>2. ASSUME ch[c].connected, ~astray[c] PROVE InStep(ch[c], [frame |-> f, pos |-> 0])
    <3>1. Following(ch[c], line[c]) \/ Resting(ch[c], line[c])
      BY <1>2, <2>1, <2>2 DEF Good, InStep, Answering
    <3>2. ~Following(ch[c], line[c])
      <4> SUFFICES ASSUME Following(ch[c], line[c]) PROVE FALSE
        OBVIOUS
      <4>1. PICK n, b, h \in Nat : line[c].pos = 8 * n + b /\ Follows(ch[c], line[c].frame, n, b, h)
        BY DEF Following
      <4>2. Len(line[c].frame) \in Nat /\ line[c].pos = 8 * Len(line[c].frame) + 1
        BY <1>2, FrameFacts DEF Following, Quiet, Total
      <4>3. n = Len(line[c].frame) /\ h + 1 = n /\ ch[c].fifo = <<line[c].frame[n]>>
        BY <4>1, <4>2 DEF Follows
      <4>4. Served(c)
        BY <2>2, <4>3 DEF Served
      <4>5. QED
        BY <1>2, <2>1, <4>4 DEF Good, HandlerLate
    <3>3. Resting(ch[c], line[c])
      BY <3>1, <3>2
    <3>4. Len(f) \in Nat /\ Len(f) > 0
      BY FrameFacts
    <3>5. Follows(ch[c], f, 0, 0, 0)
      BY <3>3, <3>4 DEF Follows, Resting, Part
    <3>6. Following(ch[c], [frame |-> f, pos |-> 0])
      <4> DEFINE l == [frame |-> f, pos |-> 0]
      <4>1. l.frame = f /\ l.pos = 8 * 0 + 0 /\ 0 \in Nat
        OBVIOUS
      <4> HIDE DEF l
      <4>2. QED
        BY <1>2, <3>5, <4>1 DEF Following, l
    <3>7. QED
      BY <3>6 DEF InStep
  <2>3. Connecting(c)' <=> Connecting(c)
    BY <1>2 DEF Connecting
  <2>4. QED
    BY <1>2, <1>3, <2>1, <2>2, <2>3 DEF Good, Served
<1>5. QED
  <2>1. \A d \in Channels \ {c} : line'[d] = line[d]
    BY <1>1 DEF IInv, TypeOK
  <2>2. \A d \in Channels : Connecting(d)' <=> Connecting(d)
    BY <1>2 DEF Connecting
  <2>3. QED
    BY <1>2, <1>3, <1>4, <2>1, <2>2, OneMoves

\* The bit on the line is the next one of the frame, or its stop bit.
LEMMA BitIsBit ==
  ASSUME NEW f \in Frames \cup {<<>>}, NEW k \in Nat, 0 < k, k <= Total(f)
  PROVE  /\ BitOf(f, k) \in {0, 1}
         /\ \A n \in 0 .. Len(f) - 1, b \in 0 .. 7 : k = 8 * n + b + 1 =>
              BitOf(f, k) = (f[n + 1] \div Weight[b + 1]) % 2
<1>1. CASE k = Total(f)
  <2>1. Len(f) \in Nat
    BY FrameFacts
  <2>2. QED
    BY <1>1, <2>1 DEF BitOf, Total
<1>2. CASE k # Total(f)
  <2>1. Len(f) \in Nat /\ f \in Frames
    BY <1>2, FrameFacts DEF Total
  <2>2. PICK n \in 0 .. Len(f) - 1, b \in 0 .. 7 : k = 8 * n + b + 1
    <3>1. k - 1 = 8 * ((k - 1) \div 8) + ((k - 1) % 8) /\ (k - 1) \div 8 \in Nat /\ (k - 1) % 8 \in 0 .. 7
      OBVIOUS
    <3>2. (k - 1) \div 8 < Len(f)
      BY <1>2, <2>1, <3>1 DEF Total
    <3>3. QED
      BY <2>1, <3>1, <3>2
  <2>3. \A m \in 0 .. Len(f) - 1, c \in 0 .. 7 : k = 8 * m + c + 1 =>
          ((k - 1) \div 8) + 1 = m + 1 /\ ((k - 1) % 8) + 1 = c + 1
    BY <2>1
  <2>4. \A m \in 0 .. Len(f) - 1, c \in 0 .. 7 : k = 8 * m + c + 1 =>
          BitOf(f, k) = (f[m + 1] \div Weight[c + 1]) % 2
    BY <1>2, <2>3 DEF BitOf
  <2>5. f[n + 1] \in Byte
    BY <2>1, FrameFacts
  <2>6. QED
    BY <2>2, <2>4, <2>5, NextBit
<1>3. QED
  BY <1>1, <1>2

\* A channel in step hears the bit and stays in step.
LEMMA HearsBit ==
  ASSUME NEW r, Wired(r), r.tx = "none", r.connected,
         NEW f \in Frames, NEW k \in Nat, k < Total(f),
         r.bits = 7 => r.fifo = <<>>,
         NEW n \in Nat, NEW b \in Nat, NEW h \in Nat, k = 8 * n + b, Follows(r, f, n, b, h),
         NEW q, q = Shifted(r, BitOf(f, k + 1))
  PROVE  \E n2, b2, h2 \in Nat : k + 1 = 8 * n2 + b2 /\ Follows(q, f, n2, b2, h2)
<1>1. /\ Len(f) \in Nat /\ Len(f) > 0 /\ \A i \in 1 .. Len(f) : f[i] \in Byte
      /\ Total(f) = 8 * Len(f) + 1
  BY FrameFacts DEF Total
<1>2. Channel(r) /\ r.bits = b /\ b \in 0 .. 7 /\ n \in 0 .. Len(f) /\ h \in 0 .. Len(f) - 1
  BY DEF Wired, Follows
<1> DEFINE bit == BitOf(f, k + 1)
<1>3. bit \in {0, 1}
  BY <1>1, BitIsBit
<1>4. /\ State(q, r)
      /\ IF r.bits = 7 /\ Len(r.fifo) < RxFifoDepth
         THEN q.bits = 0 /\ q.gathered = 0 /\ q.fifo = Append(r.fifo, 2 * r.gathered + bit)
         ELSE q.bits = r.bits + 1 /\ q.gathered = 2 * r.gathered + bit /\ q.fifo = r.fifo
  BY <1>2, <1>3, Shifts
<1> HIDE DEF bit
<1>5. CASE n < Len(f)
  <2>1. bit = (f[n + 1] \div Weight[b + 1]) % 2 /\ f[n + 1] \in Byte
    <3>1. n \in 0 .. Len(f) - 1 /\ n + 1 \in 1 .. Len(f)
      BY <1>1, <1>2, <1>5
    <3>2. k + 1 \in Nat /\ 0 < k + 1 /\ k + 1 <= Total(f) /\ k + 1 = 8 * n + b + 1
      BY <1>1, <1>2
    <3>3. QED
      BY <1>1, <1>2, <3>1, <3>2, BitIsBit DEF bit
  <2>2. 2 * r.gathered + bit = Part(f[n + 1], b + 1) /\ (b = 7 => Part(f[n + 1], b + 1) = f[n + 1])
    <3>1. r.gathered = Part(f[n + 1], b)
      BY <1>5 DEF Follows
    <3>2. 2 * Part(f[n + 1], b) + bit = Part(f[n + 1], b + 1) /\ (b = 7 => Part(f[n + 1], b + 1) = f[n + 1])
      BY <1>2, <2>1, NextBit
    <3>3. QED
      BY <3>1, <3>2
  <2>3. CASE b < 7
    <3>1. q.bits = b + 1 /\ q.gathered = Part(f[n + 1], b + 1) /\ q.fifo = r.fifo
      BY <1>2, <1>4, <2>2, <2>3
    <3>2. Follows(q, f, n, b + 1, h)
      BY <1>1, <1>2, <1>4, <1>5, <2>3, <3>1 DEF Follows, State
    <3>3. b + 1 \in Nat /\ k + 1 = 8 * n + (b + 1)
      BY <1>2
    <3>4. QED
      BY <3>2, <3>3
  <2>4. CASE b = 7
    <3>1. r.fifo = <<>> /\ Len(r.fifo) < RxFifoDepth
      BY <1>2, <2>4 DEF RxFifoDepth
    <3>2. h = n
      BY <3>1, <1>2, <1>1 DEF Follows
    <3>3. q.bits = 0 /\ q.gathered = 0 /\ q.fifo = <<f[n + 1]>>
      BY <1>2, <1>4, <2>2, <2>4, <3>1
    <3>4. Follows(q, f, n + 1, 0, h)
      BY <1>1, <1>2, <1>4, <1>5, <3>2, <3>3 DEF Follows, State, Part
    <3>5. k + 1 = 8 * (n + 1) + 0
      BY <1>2, <2>4
    <3>6. QED
      BY <3>4, <3>5
  <2>5. QED
    BY <1>2, <2>3, <2>4
<1>6. CASE n = Len(f)
  <2>1. b = 0
    BY <1>1, <1>2, <1>6
  <2>2. q.bits = 1 /\ q.fifo = r.fifo
    BY <1>2, <1>4, <2>1
  <2>3. Follows(q, f, n, 1, h)
    BY <1>1, <1>2, <1>4, <1>6, <2>1, <2>2 DEF Follows, State
  <2>4. k + 1 = 8 * n + 1 /\ 1 \in Nat
    BY <1>2, <2>1
  <2>5. QED
    BY <2>3, <2>4
<1>7. QED
  BY <1>2, <1>5, <1>6

\* A bit on the line keeps every channel good.
LEMMA LineBitStep ==
  ASSUME IInv, NEW c \in Channels, LineBit(c)
  PROVE  IInv'
<1> DEFINE r == ch[c]
           f == line[c].frame
           k == line[c].pos + 1
           bit == IF r.connected THEN BitOf(f, k) ELSE 0
           heard == r.sm = "in" /\ r.bits < 8
<1>1. /\ ~Quiet(c)
      /\ heard /\ r.bits = 7 => ~HandlerLate(c)
      /\ ch' = IF heard THEN [ch EXCEPT ![c] = Shifted(@, bit)] ELSE ch
      /\ irq' = (irq \/ (heard /\ ch'[c].bits = 0))
      /\ line' = [line EXCEPT ![c].pos = k]
      /\ UNCHANGED <<due, loop, unanswered, astray>>
  BY DEF LineBit
<1>2. Good(c) /\ Wired(r) /\ Channel(r) /\ r \in ChannelType
  BY DEF IInv, Good, Wired, Channel
<1>3. /\ f \in Frames \cup {<<>>} /\ k \in Nat /\ 0 < k /\ k <= Total(f) /\ line[c].pos < Total(f)
      /\ line[c].pos \in Nat /\ line[c] = [frame |-> f, pos |-> line[c].pos]
  <2>1. line[c] \in [frame : Frames \cup {<<>>}, pos : Nat] /\ line[c].pos <= Total(f)
    BY DEF IInv, TypeOK
  <2>2. Total(f) \in Nat /\ line[c].pos # Total(f)
    BY <1>1, <2>1, FrameFacts DEF Quiet, Total
  <2>3. QED
    BY <2>1, <2>2
<1>4. bit \in {0, 1}
  BY <1>3, BitIsBit
<1>5. ch \in [Channels -> ChannelType] /\ line \in [Channels -> [frame : Frames \cup {<<>>}, pos : Nat]]
  BY DEF IInv, TypeOK
<1>6. /\ line'[c].frame = f /\ line'[c].pos = k
      /\ \A d \in Channels \ {c} : line'[d] = line[d] /\ ch'[d] = ch[d]
      /\ line' \in [Channels -> [frame : Frames \cup {<<>>}, pos : Nat]]
      /\ heard => ch'[c] = Shifted(r, bit)
      /\ ~heard => ch'[c] = r
  <2>1. line'[c] = [line[c] EXCEPT !.pos = k] /\ \A d \in Channels \ {c} : line'[d] = line[d]
    BY <1>1, <1>5
  <2>2. /\ heard => ch'[c] = Shifted(r, bit)
        /\ ~heard => ch'[c] = r
        /\ \A d \in Channels \ {c} : ch'[d] = ch[d]
    BY <1>1, <1>5
  <2>3. line[c] \in [frame : Frames \cup {<<>>}, pos : Nat]
    BY <1>5
  <2>4. line'[c].frame = f /\ line'[c].pos = k /\ line'[c] \in [frame : Frames \cup {<<>>}, pos : Nat]
    BY <2>1, <2>3, <1>3
  <2>5. line' \in [Channels -> [frame : Frames \cup {<<>>}, pos : Nat]]
    BY <1>1, <1>5, <2>1, <2>4
  <2>6. QED
    BY <2>1, <2>2, <2>4, <2>5
<1> HIDE DEF bit
<1>7. ASSUME heard
      PROVE  /\ Channel(ch'[c]) /\ State(ch'[c], r) /\ ch'[c].sm = r.sm /\ ch'[c].tx = r.tx
             /\ IF r.bits = 7 /\ Len(r.fifo) < RxFifoDepth
                THEN ch'[c].bits = 0 /\ ch'[c].gathered = 0
                     /\ ch'[c].fifo = Append(r.fifo, 2 * r.gathered + bit)
                ELSE ch'[c].bits = r.bits + 1 /\ ch'[c].gathered = 2 * r.gathered + bit
                     /\ ch'[c].fifo = r.fifo
  <2>1. r.bits < 8 /\ ch'[c] = Shifted(r, bit)
    BY <1>6, <1>7
  <2> HIDE DEF r
  <2>2. Channel(r)
    BY <1>2
  <2>3. QED
    BY <1>4, <2>1, <2>2, Shifts
<1>8. r.connected /\ r.bits = 7 /\ heard => r.fifo = <<>>
  BY <1>1, <1>2 DEF Good, Served, HandlerLate
<1>9. Wired(ch'[c]) /\ (Served(c)' => irq')
  <2>1. CASE heard
    <3>1. r.bits \in 0 .. 7 /\ Len(r.fifo) \in Nat /\ r.fifo \in Seq(Byte)
      BY <1>2, <2>1 DEF ChannelType
    <3>2. r.sm = "in" /\ r.tx = "none"
      BY <1>2, <2>1 DEF Wired, ChannelType
    <3>3. CASE r.bits = 7
      <4>1. r.connected => ch'[c].bits = 0 /\ Len(ch'[c].fifo) = 1
        <5> SUFFICES ASSUME r.connected PROVE ch'[c].bits = 0 /\ Len(ch'[c].fifo) = 1
          OBVIOUS
        <5>1. r.fifo = <<>> /\ Len(r.fifo) = 0
          BY <1>8, <2>1, <3>3
        <5>2. ch'[c].bits = 0 /\ ch'[c].fifo = Append(<<>>, 2 * r.gathered + bit)
          BY <1>7, <2>1, <3>3, <5>1 DEF RxFifoDepth
        <5>3. QED
          BY <5>2
      <4>2. r.connected => irq'
        BY <1>1, <2>1, <4>1
      <4>3. QED
        BY <1>2, <1>7, <2>1, <3>2, <4>1, <4>2 DEF Wired, Served, State
    <3>4. CASE r.bits < 7
      <4>1. /\ Channel(ch'[c]) /\ ch'[c].connected = r.connected /\ ch'[c].sm = "in"
            /\ ch'[c].tx = "none" /\ ch'[c].bits = r.bits + 1 /\ ch'[c].fifo = r.fifo
        BY <1>7, <2>1, <3>1, <3>2, <3>4 DEF State
      <4>2. Wired(ch'[c])
        BY <1>2, <3>1, <3>4, <4>1 DEF Wired
      <4>3. Served(c)' => irq'
        BY <1>1, <1>2, <4>1 DEF Served, Good
      <4>4. QED
        BY <4>2, <4>3
    <3>5. QED
      BY <3>1, <3>3, <3>4
  <2>2. CASE ~heard
    BY <1>1, <1>2, <1>6, <2>2 DEF Good, Served
  <2>3. QED
    BY <2>1, <2>2
<1>10. ASSUME r.connected, ~astray[c] PROVE InStep(ch'[c], line'[c])
  <2>1. InStep(r, line[c])
    BY <1>2, <1>10 DEF Good
  <2>2. ~Resting(r, line[c])
    BY <1>1 DEF Quiet, Resting
  <2>3. CASE Answering(r, line[c])
    <3>1. ~heard
      BY <1>2, <2>3 DEF Answering, Wired
    <3>2. Len(f) \in Nat
      BY <1>3, FrameFacts
    <3>3. QED
      BY <1>3, <1>6, <2>3, <3>1, <3>2 DEF InStep, Answering
  <2>4. CASE Following(r, line[c])
    <3>1. PICK n, b, h \in Nat : line[c].pos = 8 * n + b /\ Follows(r, f, n, b, h)
      BY <2>4 DEF Following
    <3>2. f \in Frames /\ r.tx = "none" /\ heard
      BY <1>2, <2>4, <3>1 DEF Following, Wired, Follows, ChannelType
    <3>3. ch'[c] = Shifted(r, BitOf(f, line[c].pos + 1)) /\ ch'[c].tx = "none"
      BY <1>6, <1>7, <1>10, <3>2 DEF bit
    <3>4. \E n2, b2, h2 \in Nat : k = 8 * n2 + b2 /\ Follows(ch'[c], f, n2, b2, h2)
      BY <1>2, <1>3, <1>8, <1>10, <3>1, <3>2, <3>3, HearsBit
    <3>5. QED
      BY <1>6, <3>2, <3>3, <3>4 DEF InStep, Following
  <2>5. QED
    BY <2>1, <2>2, <2>3, <2>4 DEF InStep
<1>11. Connecting(c)' <=> Connecting(c)
  BY <1>1 DEF Connecting
<1>12. ch'[c].connected = r.connected /\ ch'[c].byteCounter = r.byteCounter /\ ch'[c].sm = r.sm
  BY <1>6, <1>7 DEF State
<1>13. Good(c)'
  BY <1>1, <1>2, <1>9, <1>10, <1>11, <1>12 DEF Good
<1>14. TypeOK'
  <2>1. ch'[c] \in ChannelType /\ Len(ch'[c].fifo) <= RxFifoDepth
    BY <1>9 DEF Wired, Channel
  <2>2. ch' \in [Channels -> ChannelType] /\ \A d \in Channels : Len(ch'[d].fifo) <= RxFifoDepth
    BY <1>1, <1>5, <1>6, <2>1 DEF IInv, TypeOK
  <2>3. \A d \in Channels : line'[d].pos <= Total(line'[d].frame)
    BY <1>3, <1>6 DEF IInv, TypeOK
  <2>4. irq' \in BOOLEAN
    BY <1>1 DEF IInv, TypeOK
  <2>5. QED
    BY <1>1, <1>6, <2>2, <2>3, <2>4 DEF IInv, TypeOK
<1>15. QED
  <2>1. \A d \in Channels : Connecting(d)' <=> Connecting(d)
    BY <1>1 DEF Connecting
  <2>2. irq => irq'
    BY <1>1
  <2>3. astray' = astray
    BY <1>1
  <2>4. QED
    BY <1>6, <1>13, <1>14, <2>1, <2>2, <2>3, OneMoves

\* The channel that has answered listens again, with nothing gathered.
LEMMA TxDoneStep ==
  ASSUME IInv, NEW c \in Channels, TxDone(c)
  PROVE  IInv'
<1> DEFINE r == ch[c]
           q1 == [r EXCEPT !.sm = "in"]
           q2 == [q1 EXCEPT !.tx = "none"]
<1>1. /\ r.tx # "none" /\ (Quiet(c) \/ Len(line[c].frame) > 3) /\ ~Connecting(c)
      /\ ch' = [ch EXCEPT ![c].sm = "in", ![c].tx = "none"]
      /\ astray' = [astray EXCEPT ![c] = @ /\ ~Quiet(c)]
      /\ UNCHANGED <<irq, line, due, loop, unanswered>>
  BY DEF TxDone
<1>2. Good(c) /\ Wired(r) /\ Channel(r) /\ r \in ChannelType
  BY DEF IInv, Good, Wired, Channel
<1>3. ch \in [Channels -> ChannelType] /\ astray \in [Channels -> BOOLEAN]
  BY DEF IInv, TypeOK
<1>4. ch'[c] = q2 /\ \A d \in Channels \ {c} : ch'[d] = ch[d]
  BY <1>1, <1>3
<1>5. /\ astray'[c] <=> astray[c] /\ ~Quiet(c)
      /\ \A d \in Channels \ {c} : astray'[d] = astray[d]
      /\ astray' \in [Channels -> BOOLEAN]
  BY <1>1, <1>3
<1>6. /\ q1 \in ChannelType /\ State(q1, r) /\ q1.fifo = r.fifo /\ q1.bits = r.bits
      /\ q1.gathered = r.gathered /\ q1.sm = "in"
  BY <1>2 DEF ChannelType, State
<1> HIDE DEF q1
<1>7. /\ q2 \in ChannelType /\ State(q2, r) /\ q2.fifo = r.fifo /\ q2.bits = r.bits
      /\ q2.gathered = r.gathered /\ q2.sm = "in" /\ q2.tx = "none"
  BY <1>6 DEF ChannelType, State
<1> HIDE DEF q2
<1>8. r.sm = "out" /\ r.fifo = <<>> /\ r.bits = 0 /\ r.gathered = 0
  BY <1>1, <1>2 DEF Wired
<1>9. Wired(q2)
  BY <1>2, <1>7, <1>8 DEF Wired, Channel, State
<1>10. ASSUME r.connected, ~astray'[c] PROVE InStep(q2, line[c])
  <2>1. Quiet(c)
    <3>1. CASE astray[c]
      BY <1>5, <1>10, <3>1
    <3>2. CASE ~astray[c]
      <4>1. InStep(r, line[c])
        BY <1>2, <1>10, <3>2 DEF Good
      <4>2. Answering(r, line[c])
        BY <1>1, <4>1 DEF InStep, Following, Resting
      <4>3. Len(line[c].frame) \in Nat
        BY FrameFacts DEF IInv, TypeOK
      <4>4. QED
        BY <1>1, <4>2, <4>3 DEF Answering
    <3>3. QED
      BY <3>1, <3>2
  <2>2. r.byteCounter = BYTECOUNT_NULL
    BY <1>1, <1>2, <1>8, <1>10 DEF Good
  <2>3. QED
    BY <1>7, <1>8, <2>1, <2>2 DEF InStep, Resting, Quiet, State
<1>11. \A d \in Channels : Connecting(d)' <=> Connecting(d)
  BY <1>1 DEF Connecting
<1>12. Good(c)'
  <2>1. q2.connected = r.connected
    BY <1>7 DEF State
  <2>2. QED
    BY <1>1, <1>4, <1>7, <1>8, <1>9, <1>10, <1>11, <2>1 DEF Good, Served
<1>13. TypeOK'
  <2>1. Len(q2.fifo) <= RxFifoDepth
    BY <1>7, <1>8 DEF RxFifoDepth
  <2>2. ch' \in [Channels -> ChannelType]
    BY <1>1, <1>3, <1>4, <1>7
  <2>3. QED
    BY <1>1, <1>4, <1>5, <2>1, <2>2 DEF IInv, TypeOK
<1>14. QED
  BY <1>1, <1>4, <1>5, <1>11, <1>12, <1>13, OneMoves

-----------------------------------------------------------------------------
(* The interrupt handler.                                                   *)

\* What the handler does with the byte of a channel that is in step: it answers
\* when the frame is over, restarts behind the command for another device, and
\* counts every other byte.
LEMMA HandlesInStep ==
  ASSUME NEW r, Wired(r), r.connected, r.fifo # <<>>, NEW l, Following(r, l), l.pos \in Nat,
         NEW q, q = _gamecube_command_handler(r)
  PROVE  LET f == l.frame
         IN /\ HandlerAnswers(q, r) =>
                 /\ l.pos >= 8 * Len(f) /\ Len(f) <= 3 /\ q.tx = Answered(f)
                 /\ q.tx = "poll" => q.workingMode = f[2] /\ q.rumble = (f[3] % 2 = 1)
            /\ HandlerRestarts(q, r) => l.pos >= 8 * Len(f) /\ f[1] = GCUBE_CMD_SWISS
            /\ HandlerCounts(q, r) => Following(q, l)
<1> DEFINE f == l.frame
<1>1. PICK n, b, h \in Nat : l.pos = 8 * n + b /\ Follows(r, f, n, b, h)
  BY DEF Following
<1>2. f \in Frames /\ r.tx = "none" /\ r \in ChannelType
  BY DEF Following, Wired, Channel
<1>3. /\ Len(f) \in Nat /\ Len(f) > 0 /\ f \in Seq(Byte)
      /\ \/ f[1] \in {GCUBE_CMD_PROBE, GCUBE_CMD_ORIGIN} /\ Len(f) = 1
         \/ f[1] \in {GCUBE_CMD_POLL, GCUBE_CMD_ORIGINEXT} /\ Len(f) = 3
         \/ f[1] = GCUBE_CMD_SWISS /\ Len(f) = 11
  BY <1>2, FrameFacts
<1>4. /\ n \in 1 .. Len(f) /\ h + 1 = n /\ r.fifo = <<f[n]>> /\ b \in 0 .. 7 /\ r.bits = b
      /\ h = 0 => r.byteCounter = BYTECOUNT_NULL
      /\ h > 0 => r.workingCmd = f[1] /\ r.byteCounter = Len(f) - 1 - h
      /\ h > 1 /\ f[1] = GCUBE_CMD_POLL => r.workingMode = f[2]
  BY <1>1, <1>3 DEF Follows
<1>5. Head(r.fifo) = f[n] /\ Tail(r.fifo) = <<>>
  BY <1>4
<1>6. /\ Command(r) = f[1]
      /\ Left(r) = IF h > 0 THEN Len(f) - 1 - h
                   ELSE IF f[1] = GCUBE_CMD_SWISS THEN 10 ELSE 2
  <2>1. IF r.byteCounter = BYTECOUNT_NULL
        THEN Command(r) = f[n] /\ Left(r) = IF f[n] = GCUBE_CMD_SWISS THEN 10 ELSE 2
        ELSE Command(r) = r.workingCmd /\ Left(r) = r.byteCounter
    BY <1>2, <1>5, Fetches DEF Command, Left
  <2>2. CASE h = 0
    BY <1>4, <2>1, <2>2
  <2>3. CASE h > 0
    <3>1. r.byteCounter # BYTECOUNT_NULL
      BY <1>3, <1>4, <2>3 DEF BYTECOUNT_NULL
    <3>2. QED
      BY <1>4, <2>1, <2>3, <3>1
  <2>4. QED
    BY <1>4, <2>2, <2>3
<1> USE DEF GCUBE_CMD_SWISS, GCUBE_CMD_ORIGINEXT, GCUBE_CMD_POLL, GCUBE_CMD_PROBE, GCUBE_CMD_ORIGIN
<1>a. \/ Len(f) = 1 /\ n = 1 /\ f[1] \in {0, 65}
      \/ Len(f) = 3 /\ f[1] \in {64, 66} /\ n \in 1 .. 3 /\ Left(r) = 3 - n
      \/ Len(f) = 11 /\ f[1] = 29 /\ n \in 1 .. 11 /\ Left(r) = 11 - n
  <2>1. CASE Len(f) = 1
    BY <1>3, <1>4, <2>1
  <2>2. CASE Len(f) = 3
    <3>1. f[1] \in {64, 66} /\ n \in 1 .. 3 /\ h = n - 1
      BY <1>3, <1>4, <2>2
    <3>2. Left(r) = 3 - n
      BY <1>6, <2>2, <3>1
    <3>3. QED
      BY <2>2, <3>1, <3>2
  <2>3. CASE Len(f) = 11
    <3>1. f[1] = 29 /\ n \in 1 .. 11 /\ h = n - 1
      BY <1>3, <1>4, <2>3
    <3>2. Left(r) = 11 - n
      BY <1>6, <2>3, <3>1
    <3>3. QED
      BY <2>3, <3>1, <3>2
  <2>4. QED
    BY <1>3, <2>1, <2>2, <2>3
<1>b. (Left(r) = 0 => n = Len(f) \/ Len(f) = 1) /\ n \in Nat
  <2>1. CASE Len(f) = 3 /\ n \in 1 .. 3 /\ Left(r) = 3 - n
    BY <2>1
  <2>2. CASE Len(f) = 11 /\ n \in 1 .. 11 /\ Left(r) = 11 - n
    BY <2>2
  <2>3. QED
    BY <1>a, <2>1, <2>2
<1>7. ASSUME HandlerAnswers(q, r)
      PROVE  /\ l.pos >= 8 * Len(f) /\ Len(f) <= 3 /\ q.tx = Answered(f)
             /\ q.tx = "poll" => q.workingMode = f[2] /\ q.rumble = (f[3] % 2 = 1)
  <2>0. f[1] \in {0, 65} \/ (f[1] \in {64, 66} /\ Left(r) = 0)
    BY <1>6, <1>7 DEF HandlerAnswers
  <2>1. n = Len(f) /\ Len(f) <= 3
    <3>1. CASE Len(f) = 1
      BY <1>a, <3>1
    <3>2. CASE Len(f) = 3
      BY <1>a, <1>b, <2>0, <3>2
    <3>3. CASE Len(f) = 11
      <4>1. f[1] = 29
        BY <1>a, <3>3
      <4>2. QED
        BY <2>0, <4>1
    <3>4. QED
      BY <1>a, <3>1, <3>2, <3>3
  <2>2. q.tx = Answered(f)
    BY <1>6, <1>7 DEF HandlerAnswers, AnswerSent, Answered
  <2>3. ASSUME q.tx = "poll" PROVE q.workingMode = f[2] /\ q.rumble = (f[3] % 2 = 1)
    <3>1. f[1] = GCUBE_CMD_POLL /\ Left(r) = 0 /\ q.workingMode = r.workingMode
          /\ q.rumble = (Head(r.fifo) % 2 = 1)
      BY <1>6, <1>7, <2>3 DEF HandlerAnswers, AnswerSent
    <3>2. Len(f) = 3 /\ n = 3 /\ h = 2
      BY <1>a, <1>4, <3>1
    <3>3. r.workingMode = f[2]
      BY <1>4, <3>1, <3>2
    <3>4. Head(r.fifo) = f[3]
      BY <1>5, <3>2
    <3>5. QED
      BY <3>1, <3>3, <3>4
  <2>4. QED
    BY <1>1, <1>3, <1>4, <2>1, <2>2, <2>3
<1>8. ASSUME HandlerRestarts(q, r)
      PROVE  l.pos >= 8 * Len(f) /\ f[1] = GCUBE_CMD_SWISS
  <2>1. f[1] = 29 /\ Left(r) = 0
    BY <1>6, <1>8 DEF HandlerRestarts
  <2>2. n = Len(f)
    <3>1. Len(f) # 1
      <4> SUFFICES ASSUME Len(f) = 1 PROVE FALSE
        OBVIOUS
      <4>1. f[1] \in {0, 65}
        BY <1>a
      <4>2. QED
        BY <2>1, <4>1
    <3>2. QED
      BY <1>b, <2>1, <3>1
  <2>3. QED
    BY <1>1, <1>3, <1>4, <2>1, <2>2
<1>9. ASSUME HandlerCounts(q, r) PROVE Following(q, l)
  <2>1. /\ q.fifo = <<>> /\ q.bits = b /\ q.gathered = r.gathered /\ q.tx = "none"
        /\ q.workingCmd = f[1] /\ q.byteCounter = Left(r) - 1
        /\ q.workingMode = IF f[1] = GCUBE_CMD_POLL /\ Left(r) = 1 THEN f[n] ELSE r.workingMode
        /\ f[1] \notin {GCUBE_CMD_PROBE, GCUBE_CMD_ORIGIN} /\ Left(r) # 0
    BY <1>2, <1>3, <1>4, <1>5, <1>6, <1>9 DEF HandlerCounts
  <2>2. n < Len(f) /\ q.byteCounter = Len(f) - 1 - n /\ Left(r) = Len(f) - n
    <3>1. f[1] \notin {0, 65} /\ Left(r) # 0
      BY <2>1
    <3>2. Left(r) = Len(f) - n
      BY <1>a, <3>1
    <3>3. QED
      BY <1>3, <1>4, <2>1, <3>1, <3>2
  <2>3. n > 1 /\ f[1] = GCUBE_CMD_POLL => q.workingMode = f[2]
    <3> SUFFICES ASSUME n > 1, f[1] = GCUBE_CMD_POLL PROVE q.workingMode = f[2]
      OBVIOUS
    <3>1. Len(f) = 3 /\ n = 2 /\ h = 1 /\ Left(r) = 1
      <4>1. Len(f) = 3 /\ n \in 1 .. 3
        BY <1>a
      <4>2. QED
        BY <1>4, <2>2, <4>1
    <3>2. QED
      BY <2>1, <3>1
  <2>4. n < Len(f) => q.gathered = Part(f[n + 1], b)
    BY <1>1, <2>1 DEF Follows
  <2>5. Follows(q, f, n, b, n)
    BY <1>3, <1>4, <2>1, <2>2, <2>3, <2>4 DEF Follows
  <2>6. QED
    BY <1>1, <1>2, <2>1, <2>5 DEF Following
<1>10. QED
  BY <1>7, <1>8, <1>9

\* The handler serves every channel that has a byte, and leaves none behind.
LEMMA HandlerStep ==
  ASSUME IInv, _gamecube_isr_rxgot
  PROVE  IInv'
<1>1. /\ irq /\ ~irq' /\ irq' \in BOOLEAN
      /\ ch' = [c \in Channels |-> IF Served(c) THEN _gamecube_command_handler(ch[c]) ELSE ch[c]]
      /\ astray' = [c \in Channels |-> astray[c] \/ c \in {d \in Channels : Served(d) /\ Restarted(ch'[d])}]
      /\ unanswered' = [c \in Channels |-> IF c \in {d \in Channels : Served(d) /\ ch'[d].tx # "none"}
                                           THEN 0 ELSE unanswered[c]]
      /\ UNCHANGED <<line, due, loop>>
  BY DEF _gamecube_isr_rxgot
<1>2. \A c \in Channels : Connecting(c)' <=> Connecting(c)
  BY <1>1 DEF Connecting
<1>3. ASSUME NEW c \in Channels
      PROVE  Good(c)' /\ ch'[c] \in ChannelType /\ Len(ch'[c].fifo) <= RxFifoDepth
  <2> DEFINE r == ch[c]
             q == ch'[c]
  <2>1. Good(c) /\ Wired(r) /\ Channel(r) /\ r \in ChannelType
    BY DEF IInv, Good, Wired, Channel
  <2>2. astray'[c] <=> astray[c] \/ (Served(c) /\ Restarted(q))
    BY <1>1
  <2>3. CASE ~Served(c)
    <3>1. q = r
      BY <1>1, <2>3
    <3>2. ~Served(c)'
      BY <2>3, <3>1 DEF Served
    <3>3. QED
      BY <1>1, <1>2, <2>1, <2>2, <2>3, <3>1, <3>2 DEF Good, Channel
  <2>4. CASE Served(c)
    <3>1. q = _gamecube_command_handler(r) /\ r.fifo # <<>> /\ r.connected
      BY <1>1, <2>4 DEF Served
    <3>2. /\ q \in ChannelType /\ q.connected = r.connected
          /\ HandlerAnswers(q, r) \/ HandlerRestarts(q, r) \/ HandlerCounts(q, r)
      BY <2>1, <3>1, Handles
    <3>3. /\ r.tx = "none" /\ r.sm = "in" /\ r.bits < 8 /\ Len(r.fifo) <= 1 /\ r.fifo \in Seq(Byte)
          /\ r.bits \in 0 .. 8 /\ r.gathered < Below[r.bits + 1]
      BY <2>1, <3>1 DEF Wired, ChannelType, Channel
    <3>4. Tail(r.fifo) = <<>>
      BY <3>1, <3>3
    <3> HIDE DEF q, r
    <3>5. q.fifo = <<>> /\ Wired(q)
      <4>1. CASE HandlerAnswers(q, r)
        BY <3>2, <4>1 DEF HandlerAnswers, AnswerSent, Wired, Channel, Below, RxFifoDepth
      <4>2. CASE HandlerRestarts(q, r)
        BY <3>2, <4>2 DEF HandlerRestarts, Wired, Channel, Below, RxFifoDepth
      <4>3. CASE HandlerCounts(q, r)
        BY <3>2, <3>3, <3>4, <4>3 DEF HandlerCounts, Wired, Channel, RxFifoDepth
      <4>4. QED
        BY <3>2, <4>1, <4>2, <4>3
    <3>6. ~Served(c)'
      BY <3>5 DEF Served, q
    <3>7. q.sm = "out" => q.byteCounter = BYTECOUNT_NULL
      BY <3>2, <3>3 DEF HandlerAnswers, HandlerRestarts, HandlerCounts, AnswerSent
    <3>8. ASSUME ~astray'[c] PROVE InStep(q, line[c])
      <4>1. ~astray[c] /\ ~Restarted(q)
        BY <2>2, <2>4, <3>8 DEF q
      <4>2. InStep(r, line[c])
        BY <2>1, <3>1, <4>1 DEF Good, r
      <4>3. Following(r, line[c])
        BY <3>1, <3>3, <4>2 DEF InStep, Resting, Answering
      <4>4. Wired(r) /\ line[c].pos \in Nat
        BY <2>1 DEF IInv, TypeOK, r
      <4>5. ~HandlerRestarts(q, r)
        BY <4>1 DEF HandlerRestarts
      <4>6. CASE HandlerAnswers(q, r)
        <5>1. line[c].pos >= 8 * Len(line[c].frame) /\ Len(line[c].frame) <= 3
          BY <3>1, <4>3, <4>4, <4>6, HandlesInStep
        <5>2. q.tx # "none"
          BY <4>6 DEF HandlerAnswers, AnswerSent
        <5>3. QED
          BY <5>1, <5>2 DEF InStep, Answering
      <4>7. CASE HandlerCounts(q, r)
        BY <3>1, <4>3, <4>4, <4>7, HandlesInStep DEF InStep
      <4>8. QED
        BY <3>2, <4>5, <4>6, <4>7
    <3>9. Good(c)'
      <4>1. Connecting(c)' => ch[c].connected /\ astray[c]
        BY <1>2, <2>1 DEF Good
      <4>2. QED
        BY <1>1, <2>2, <3>1, <3>2, <3>5, <3>6, <3>7, <3>8, <4>1 DEF Good, q, r
    <3>10. QED
      BY <3>2, <3>5, <3>9 DEF Wired, Channel, q
  <2>5. QED
    BY <2>3, <2>4
<1>4. ch' \in [Channels -> ChannelType]
  BY <1>1, <1>3
<1>5. astray' \in [Channels -> BOOLEAN] /\ unanswered' \in [Channels -> 0 .. 3]
  BY <1>1 DEF IInv, TypeOK
<1>6. TypeOK'
  BY <1>1, <1>3, <1>4, <1>5 DEF IInv, TypeOK
<1>7. QED
  BY <1>3, <1>6 DEF IInv

-----------------------------------------------------------------------------
(* The main loop.                                                           *)

\* A channel is connecting only while the main loop is behind the connection.
LEMMA ConnectingIsInit ==
  ASSUME TypeOK, NEW c \in Channels
  PROVE  /\ Connecting(c) <=> loop.at = "init" /\ loop.channel = c
         /\ loop.channel \in Channels
  BY DEF TypeOK, Connecting

\* Steps of the counters and of the main loop that no channel notices.
LEMMA NoneMoves ==
  ASSUME IInv, TypeOK', ch' = ch, line' = line, astray' = astray, irq' = irq,
         \A c \in Channels : Connecting(c)' <=> Connecting(c)
  PROVE  IInv'
  BY Unmoved DEF IInv

\* The 100 ms of a channel pass without its notice.
LEMMA ElapseStep ==
  ASSUME IInv, NEW c \in Channels, Elapse(c)
  PROVE  IInv'
<1>1. /\ due' = [due EXCEPT ![c] = TRUE]
      /\ UNCHANGED <<ch, irq, line, loop, unanswered, astray>>
  BY DEF Elapse
<1>2. TypeOK'
  BY <1>1 DEF IInv, TypeOK
<1>3. \A d \in Channels : Connecting(d)' <=> Connecting(d)
  BY <1>1 DEF Connecting
<1>4. QED
  BY <1>1, <1>2, <1>3, NoneMoves

\* The main loop only looks at the channel.
LEMMA CheckStep ==
  ASSUME IInv, NEW c \in Channels, Check(c)
  PROVE  IInv'
<1>1. /\ loop.at = "check"
      /\ due' = [due EXCEPT ![c] = FALSE]
      /\ unanswered' = [unanswered EXCEPT ![c] = IF due[c] THEN 0 ELSE @]
      /\ UNCHANGED <<ch, irq, line, astray>>
  BY DEF Check, At
<1>2. PICK step \in {"reset", "clear"} : loop' = [at |-> step, channel |-> c]
  BY DEF Check, Goto
<1>3. due' \in [Channels -> BOOLEAN] /\ unanswered' \in [Channels -> 0 .. 3]
  BY <1>1 DEF IInv, TypeOK
<1>4. TypeOK'
  BY <1>1, <1>2, <1>3 DEF IInv, TypeOK
<1>5. \A d \in Channels : Connecting(d)' <=> Connecting(d)
  BY <1>1, <1>2 DEF Connecting
<1>6. QED
  BY <1>1, <1>4, <1>5, NoneMoves

\* No message changes no channel.
LEMMA NoMessageStep ==
  ASSUME IInv, NoMessage
  PROVE  IInv'
<1>1. /\ loop.at = "messages" /\ loop' = [at |-> "check", channel |-> 0]
      /\ UNCHANGED <<ch, irq, line, due, unanswered, astray>>
  BY DEF NoMessage, At, Goto
<1>2. TypeOK'
  BY <1>1, Sizes DEF IInv, TypeOK
<1>3. \A d \in Channels : Connecting(d)' <=> Connecting(d)
  BY <1>1 DEF Connecting
<1>4. QED
  BY <1>1, <1>2, <1>3, NoneMoves

\* A step of the main loop that changes one channel.
LEMMA LoopMoves ==
  ASSUME IInv, NEW c \in Channels, NEW q \in ChannelType, ch' = [ch EXCEPT ![c] = q],
         irq' \in BOOLEAN, irq => irq',
         line' = line, due' = due, unanswered' = unanswered,
         astray' \in [Channels -> BOOLEAN],
         \A d \in Channels \ {c} : astray'[d] = astray[d],
         NEW step \in {"messages", "init", "check", "reset", "clear"},
         NEW k \in Channels, loop' = [at |-> step, channel |-> k],
         step = "init" => k = c,
         loop.at = "init" => loop.channel = c,
         Good(c)'
  PROVE  IInv'
<1>1. ch'[c] = q /\ ch' \in [Channels -> ChannelType] /\ \A d \in Channels \ {c} : ch'[d] = ch[d]
  BY DEF IInv, TypeOK
<1>2. \A d \in Channels : Len(ch'[d].fifo) <= RxFifoDepth
  BY <1>1 DEF IInv, TypeOK, Good, Wired, Channel
<1>3. TypeOK'
  BY <1>1, <1>2 DEF IInv, TypeOK
<1>4. \A d \in Channels \ {c} : Connecting(d)' <=> Connecting(d)
  BY ConnectingIsInit DEF IInv, Connecting
<1>5. QED
  BY <1>1, <1>3, <1>4, OneMoves

\* A channel that is restarted is empty, and may be out of step.
LEMMA ResetStep ==
  ASSUME IInv, NEW c \in Channels, Reset(c)
  PROVE  IInv'
<1> DEFINE q == _gamecube_reset_state(ch[c])
<1>1. /\ loop.at = "reset" /\ loop' = [at |-> "clear", channel |-> c]
      /\ ch' = [ch EXCEPT ![c] = q] /\ astray' = [astray EXCEPT ![c] = TRUE]
      /\ UNCHANGED <<irq, line, due, unanswered>>
  BY DEF Reset, At, Goto
<1>2. /\ q \in ChannelType /\ q.fifo = <<>> /\ q.bits = 0 /\ q.gathered = 0 /\ q.tx = "none"
      /\ q.sm = "in"
  BY ResetState DEF IInv, TypeOK
<1> HIDE DEF q
<1>3. ch'[c] = q /\ astray'[c] /\ irq' \in BOOLEAN
      /\ astray' \in [Channels -> BOOLEAN] /\ \A d \in Channels \ {c} : astray'[d] = astray[d]
  BY <1>1 DEF IInv, TypeOK
<1>4. Good(c)'
  <2>1. Wired(q)
    BY <1>2 DEF Wired, Channel, Below, RxFifoDepth
  <2>2. ~Connecting(c)'
    BY <1>1 DEF Connecting
  <2>3. QED
    BY <1>2, <1>3, <2>1, <2>2 DEF Good, Served
<1>5. QED
  BY <1>1, <1>2, <1>3, <1>4, LoopMoves

\* The state machine of a connected port starts over with nothing gathered.
LEMMA ProgramInitStep ==
  ASSUME IInv, NEW c \in Channels, ProgramInit(c)
  PROVE  IInv'
<1> DEFINE q == joybus_set_in(TRUE, ch[c])
<1>1. /\ loop.at = "init" /\ loop.channel = c /\ loop' = [at |-> "check", channel |-> 0]
      /\ ch' = [ch EXCEPT ![c] = q] /\ astray' = [astray EXCEPT ![c] = TRUE]
      /\ UNCHANGED <<irq, line, due, unanswered>>
  BY DEF ProgramInit, At, Goto
<1>2. /\ q \in ChannelType /\ q.fifo = <<>> /\ q.bits = 0 /\ q.gathered = 0 /\ q.tx = "none"
      /\ q.sm = "in"
  BY SetIn DEF IInv, TypeOK
<1> HIDE DEF q
<1>3. ch'[c] = q /\ astray'[c] /\ irq' \in BOOLEAN
      /\ astray' \in [Channels -> BOOLEAN] /\ \A d \in Channels \ {c} : astray'[d] = astray[d]
  BY <1>1 DEF IInv, TypeOK
<1>4. Good(c)'
  <2>1. Wired(q)
    BY <1>2 DEF Wired, Channel, Below, RxFifoDepth
  <2>2. ~Connecting(c)'
    BY <1>1 DEF Connecting
  <2>3. QED
    BY <1>2, <1>3, <2>1, <2>2 DEF Good, Served
<1>5. 0 \in Channels
  BY Sizes
<1>6. QED
  BY <1>1, <1>2, <1>3, <1>4, <1>5, LoopMoves

\* The flag of the watchdog says nothing of the bytes.
LEMMA ClearGotDataStep ==
  ASSUME IInv, NEW c \in Channels, ClearGotData(c)
  PROVE  IInv'
<1> DEFINE r == ch[c]
           q == [r EXCEPT !.got_data = FALSE]
<1>1. /\ loop.at = "clear" /\ ch' = [ch EXCEPT ![c] = q]
      /\ UNCHANGED <<irq, line, due, unanswered, astray>>
  BY DEF ClearGotData, At
<1>2. PICK step \in {"check", "messages"}, k \in Channels : loop' = [at |-> step, channel |-> k]
  BY Sizes DEF ClearGotData, Goto
<1>3. r \in ChannelType /\ Good(c)
  BY DEF IInv, TypeOK
<1>4. /\ q \in ChannelType /\ Hardware(q, r) /\ q.connected = r.connected
      /\ q.byteCounter = r.byteCounter /\ q.workingCmd = r.workingCmd
      /\ q.workingMode = r.workingMode
  BY <1>3 DEF ChannelType, Hardware
<1> HIDE DEF q
<1>5. ch'[c] = q
  BY <1>1 DEF IInv, TypeOK
<1>6. InStep(r, line[c]) => InStep(q, line[c])
  <2>1. \A f, n, b, h : Follows(r, f, n, b, h) => Follows(q, f, n, b, h)
    BY <1>4 DEF Follows, Hardware
  <2>2. Following(r, line[c]) => Following(q, line[c])
    BY <1>4, <2>1 DEF Following, Hardware
  <2>3. QED
    BY <1>4, <2>2 DEF InStep, Resting, Answering, Hardware
<1>7. Wired(r) => Wired(q)
  BY <1>4 DEF Wired, Channel, Hardware
<1>8. ~Connecting(c)' /\ ~Connecting(c)
  BY <1>1, <1>2 DEF Connecting
<1>9. Good(c)'
  BY <1>1, <1>3, <1>4, <1>5, <1>6, <1>7, <1>8 DEF Good, Served, Hardware
<1>10. irq' \in BOOLEAN /\ astray' \in [Channels -> BOOLEAN]
  BY <1>1 DEF IInv, TypeOK
<1>11. QED
  BY <1>1, <1>2, <1>4, <1>9, <1>10, LoopMoves

\* The state machine may have stalled with eight bits: they become the one byte
\* the emptied FIFO holds, and its interrupt is raised.
LEMMA ConnectStep ==
  ASSUME IInv, NEW c \in Channels, Connect(c)
  PROVE  IInv'
<1> DEFINE r == ch[c]
           q1 == [r EXCEPT !.fifo = <<>>]
           q2 == [q1 EXCEPT !.connected = TRUE]
           q3 == [q2 EXCEPT !.byteCounter = BYTECOUNT_DEFAULT]
           q4 == [q3 EXCEPT !.workingCmd = 0]
           q5 == [q4 EXCEPT !.rumble = FALSE]
           q == Pushed(q5)
<1>1. /\ loop.at = "messages" /\ loop' = [at |-> "init", channel |-> c]
      /\ ch' = [ch EXCEPT ![c] = q] /\ astray' = [astray EXCEPT ![c] = TRUE]
      /\ irq' = (irq \/ r.bits = 8)
      /\ UNCHANGED <<line, due, unanswered>>
  BY DEF Connect, At, Goto
<1>2. r \in ChannelType /\ Wired(r)
  BY DEF IInv, TypeOK, Good
<1>e. <<>> \in Seq(Byte) /\ 0 \in Byte /\ BYTECOUNT_DEFAULT \in -1 .. 10
  BY DEF Byte, BYTECOUNT_DEFAULT
<1> DEFINE Same(s) == s \in ChannelType /\ s.fifo = <<>> /\ s.bits = r.bits
                      /\ s.gathered = r.gathered /\ s.sm = r.sm /\ s.tx = r.tx
<1>3. Same(q1)
  BY <1>2, <1>e DEF ChannelType
<1> HIDE DEF q1
<1>4. Same(q2) /\ q2.connected
  BY <1>3 DEF ChannelType
<1> HIDE DEF q2
<1>5. Same(q3) /\ q3.connected
  BY <1>4, <1>e DEF ChannelType
<1> HIDE DEF q3
<1>6. Same(q4) /\ q4.connected
  BY <1>5, <1>e DEF ChannelType
<1> HIDE DEF q4
<1>7. Same(q5) /\ q5.connected
  BY <1>6 DEF ChannelType
<1> HIDE DEF q5
<1>8. Channel(q5) /\ Len(q5.fifo) = 0
  BY <1>2, <1>7 DEF Channel, Wired, RxFifoDepth
<1>9. /\ Channel(q) /\ q.connected /\ q.sm = r.sm /\ q.tx = r.tx
      /\ IF r.bits = 8 THEN q.bits = 0 /\ q.gathered = 0 /\ q.fifo = <<r.gathered>>
                       ELSE q = q5
  BY <1>7, <1>8, Pushes DEF State, RxFifoDepth
<1> HIDE DEF q
<1>10. ch'[c] = q /\ astray'[c] /\ irq' \in BOOLEAN
      /\ astray' \in [Channels -> BOOLEAN] /\ \A d \in Channels \ {c} : astray'[d] = astray[d]
  BY <1>1 DEF IInv, TypeOK
<1>11. r.bits \in 0 .. 8 /\ (r.bits = 8 => r.sm = "in")
  BY <1>2 DEF ChannelType, Wired
<1>12. Wired(q)
  <2>1. CASE r.bits = 8
    <3>1. q.bits = 0 /\ q.fifo = <<r.gathered>> /\ r.sm = "in"
      BY <1>9, <1>11, <2>1
    <3>2. Len(q.fifo) = 1
      BY <3>1
    <3>3. QED
      BY <1>2, <1>9, <3>1, <3>2 DEF Wired
  <2>2. CASE r.bits # 8
    BY <1>2, <1>7, <1>8, <1>9, <1>11, <2>2 DEF Wired
  <2>3. QED
    BY <2>1, <2>2
<1>13. q.fifo # <<>> => irq'
  BY <1>1, <1>7, <1>9
<1>14. Connecting(c)'
  BY <1>1 DEF Connecting
<1>15. Good(c)'
  BY <1>9, <1>10, <1>12, <1>13, <1>14 DEF Good, Served
<1>16. q \in ChannelType
  BY <1>9 DEF Channel
<1>17. QED
  BY <1>1, <1>10, <1>15, <1>16, LoopMoves

\* A FIFO of zeros has the length it had.
LEMMA Zeros ==
  ASSUME NEW s \in Seq(Byte)
  PROVE  /\ [i \in DOMAIN s |-> 0] \in Seq(Byte) /\ Len([i \in DOMAIN s |-> 0]) = Len(s)
         /\ s = <<>> => [i \in DOMAIN s |-> 0] = <<>>
<1>1. DOMAIN s = 1 .. Len(s) /\ Len(s) \in Nat /\ 0 \in Byte
  BY DEF Byte
<1>2. [i \in DOMAIN s |-> 0] \in Seq(Byte) /\ Len([i \in DOMAIN s |-> 0]) = Len(s)
  BY <1>1
<1>3. QED
  BY <1>2

\* What an unconnected port gathers is of no interest to the handler.
LEMMA DisconnectStep ==
  ASSUME IInv, NEW c \in Channels, Disconnect(c)
  PROVE  IInv'
<1> DEFINE r == ch[c]
           zeros == [i \in DOMAIN r.fifo |-> 0]
           q1 == [r EXCEPT !.connected = FALSE]
           q2 == [q1 EXCEPT !.gathered = 0]
           q == [q2 EXCEPT !.fifo = zeros]
<1>1. /\ loop.at = "messages" /\ loop' = [at |-> "check", channel |-> 0]
      /\ ch' = [ch EXCEPT ![c].connected = FALSE, ![c].gathered = 0,
                          ![c].fifo = [i \in DOMAIN @ |-> 0]]
      /\ UNCHANGED <<irq, line, due, unanswered, astray>>
  BY DEF Disconnect, At, Goto
<1>2. r \in ChannelType /\ Wired(r) /\ Channel(r)
  BY DEF IInv, TypeOK, Good, Wired
<1>3. ch' = [ch EXCEPT ![c] = q]
  BY <1>1 DEF IInv, TypeOK, ChannelType
<1>4. /\ zeros \in Seq(Byte) /\ Len(zeros) = Len(r.fifo) /\ (r.fifo = <<>> => zeros = <<>>)
      /\ 0 \in Byte
  BY <1>2, Zeros DEF ChannelType, Byte
<1> HIDE DEF zeros
<1>5. q1 \in ChannelType /\ Hardware(q1, r) /\ ~q1.connected
  BY <1>2 DEF ChannelType, Hardware
<1> HIDE DEF q1
<1>6. /\ q2 \in ChannelType /\ ~q2.connected /\ q2.sm = r.sm /\ q2.tx = r.tx
      /\ q2.bits = r.bits /\ q2.gathered = 0
  BY <1>4, <1>5 DEF ChannelType, Hardware
<1> HIDE DEF q2
<1>7. /\ q \in ChannelType /\ ~q.connected /\ q.sm = r.sm /\ q.tx = r.tx
      /\ q.bits = r.bits /\ q.gathered = 0 /\ q.fifo = zeros
  BY <1>4, <1>6 DEF ChannelType
<1> HIDE DEF q
<1>8. Wired(q)
  <2>1. \A b \in 0 .. 8 : 0 < Below[b + 1]
    BY DEF Below
  <2>2. Channel(q)
    BY <1>2, <1>4, <1>7, <2>1 DEF Channel, ChannelType
  <2>3. QED
    BY <1>2, <1>4, <1>7, <2>2 DEF Wired
<1>9. ch'[c] = q
  BY <1>3 DEF IInv, TypeOK
<1>10. ~Connecting(c)'
  BY <1>1 DEF Connecting
<1>11. Good(c)'
  BY <1>7, <1>8, <1>9, <1>10 DEF Good, Served
<1>12. irq' \in BOOLEAN /\ astray' \in [Channels -> BOOLEAN] /\ 0 \in Channels
  BY <1>1, Sizes DEF IInv, TypeOK
<1>13. QED
  BY <1>1, <1>3, <1>7, <1>11, <1>12, LoopMoves

-----------------------------------------------------------------------------
(* The theorems.                                                            *)

\* The main loop starts with channels that hold nothing.
LEMMA InitIsGood == Init => IInv
<1> SUFFICES ASSUME Init PROVE IInv
  OBVIOUS
<1> DEFINE r == [connected |-> FALSE, byteCounter |-> 0, workingCmd |-> 0,
                 workingMode |-> 0, rumble |-> FALSE, got_data |-> FALSE,
                 fifo |-> <<>>, sm |-> "in", bits |-> 0, gathered |-> 0, tx |-> "none"]
<1>1. /\ ch = [c \in Channels |-> r] /\ irq = FALSE
      /\ line = [c \in Channels |-> [frame |-> <<>>, pos |-> 1]]
      /\ due = [c \in Channels |-> FALSE] /\ loop = [at |-> "messages", channel |-> 0]
      /\ unanswered = [c \in Channels |-> 0] /\ astray = [c \in Channels |-> TRUE]
  BY DEF Init, Total
<1>2. r \in ChannelType
  <2>1. 0 \in Byte /\ <<>> \in Seq(Byte) /\ 0 \in -1 .. 10 /\ 0 \in 0 .. 8
    BY DEF Byte
  <2>2. QED
    BY <2>1 DEF ChannelType
<1>3. /\ r.fifo = <<>> /\ r.bits = 0 /\ r.gathered = 0 /\ r.tx = "none" /\ r.sm = "in"
      /\ ~r.connected
  OBVIOUS
<1> HIDE DEF r
<1>4. Wired(r)
  BY <1>2, <1>3 DEF Wired, Channel, Below, RxFifoDepth
<1>5. TypeOK
  <2>1. ch \in [Channels -> ChannelType] /\ \A c \in Channels : Len(ch[c].fifo) <= RxFifoDepth
    BY <1>1, <1>2, <1>3 DEF RxFifoDepth
  <2>2. line \in [Channels -> [frame : Frames \cup {<<>>}, pos : Nat]]
    BY <1>1
  <2>3. \A c \in Channels : line[c].pos <= Total(line[c].frame)
    BY <1>1 DEF Total
  <2>4. irq \in BOOLEAN /\ due \in [Channels -> BOOLEAN] /\ astray \in [Channels -> BOOLEAN]
        /\ unanswered \in [Channels -> 0 .. 3]
    <3>0. irq \in BOOLEAN /\ unanswered = [c \in Channels |-> 0]
      BY <1>1, Zenon
    <3>1. unanswered \in [Channels -> 0 .. 3]
      BY <3>0
    <3>2. due \in [Channels -> BOOLEAN]
      BY <1>1, Zenon
    <3>3. astray \in [Channels -> BOOLEAN]
      BY <1>1, Zenon
    <3>4. QED
      BY <3>0, <3>1, <3>2, <3>3
  <2>5. loop \in [at : {"messages", "init", "check", "reset", "clear"}, channel : Channels]
    BY <1>1, Sizes
  <2>6. QED
    BY <2>1, <2>2, <2>3, <2>4, <2>5 DEF TypeOK
<1>6. ASSUME NEW c \in Channels PROVE Good(c)
  <2>1. ch[c] = r /\ ~Connecting(c)
    BY <1>1 DEF Connecting
  <2>2. QED
    BY <1>3, <1>4, <2>1 DEF Good, Served
<1>7. QED
  BY <1>5, <1>6 DEF IInv

\* Every step keeps the invariant.
LEMMA StepKeepsGood == IInv /\ [Next]_vars => IInv'
<1> SUFFICES ASSUME IInv, [Next]_vars PROVE IInv'
  OBVIOUS
<1>1. CASE UNCHANGED vars
  BY <1>1 DEF vars, IInv, TypeOK, Good, Served, Connecting
<1>2. ASSUME NEW c \in Channels, StartFrame(c) \/ LineBit(c) \/ TxDone(c) \/ Elapse(c)
      PROVE  IInv'
  BY <1>2, StartFrameStep, LineBitStep, TxDoneStep, ElapseStep
<1>3. CASE _gamecube_isr_rxgot
  BY <1>3, HandlerStep
<1>4. CASE NoMessage
  BY <1>4, NoMessageStep
<1>5. ASSUME NEW c \in Channels,
             \/ Connect(c) \/ ProgramInit(c) \/ Disconnect(c)
             \/ Check(c) \/ Reset(c) \/ ClearGotData(c)
      PROVE  IInv'
  BY <1>5, ConnectStep, ProgramInitStep, DisconnectStep, CheckStep, ResetStep, ClearGotDataStep
<1>6. QED
  BY <1>1, <1>2, <1>3, <1>4, <1>5 DEF Next, MainLoop

\* The invariant of the channels: whatever a channel that is in step with the
\* console has taken of a command, its byte counter, its FIFO and the bits it
\* has gathered say so.
THEOREM InStepWithConsole == Spec => []IInv
<1>1. QED
  BY InitIsGood, StepKeepsGood, PTL DEF Spec

\* Every variable of the console's side of a port has its type: the counter of
\* the handler stays between -1 and 10, the FIFO within its four bytes and what
\* is gathered within a byte.
THEOREM TypeCorrect == Spec => []TypeOK
<1>1. IInv => TypeOK
  BY DEF IInv
<1>2. QED
  BY <1>1, InStepWithConsole, PTL

\* No byte is left in a FIFO without the interrupt that makes the handler look,
\* however many channels share the flag the handler acknowledges once.
THEOREM NothingStranded == Spec => []NoByteStranded
<1>1. IInv => NoByteStranded
  BY DEF IInv, Good, NoByteStranded
<1>2. QED
  BY <1>1, InStepWithConsole, PTL

\* Only the handler starts an answer, and takes bytes.
LEMMA OnlyHandlerAnswers ==
  ASSUME IInv, [Next]_vars, ~_gamecube_isr_rxgot
  PROVE  (irq => irq') /\ \A c \in Channels : ch[c].tx = "none" => ch'[c].tx = "none"
<1>t. ch \in [Channels -> ChannelType] /\ \A c \in Channels : ch[c] \in ChannelType /\ Channel(ch[c])
  BY DEF IInv, TypeOK, Good, Wired
<1>1. CASE UNCHANGED vars
  BY <1>1 DEF vars
<1>2. ASSUME NEW c \in Channels, StartFrame(c) \/ Elapse(c) \/ Check(c)
      PROVE  ch' = ch /\ irq' = irq
  BY <1>2 DEF StartFrame, Elapse, Check
<1>3. CASE NoMessage
  BY <1>3 DEF NoMessage
<1>4. ASSUME NEW c \in Channels, NEW q, ch' = [ch EXCEPT ![c] = q], q.tx = ch[c].tx \/ q.tx = "none"
      PROVE  \A d \in Channels : ch[d].tx = "none" => ch'[d].tx = "none"
  BY <1>t, <1>4
<1>5. ASSUME NEW c \in Channels, LineBit(c)
      PROVE  (irq => irq') /\ \A d \in Channels : ch[d].tx = "none" => ch'[d].tx = "none"
  <2>1. PICK bit : \/ ch' = ch
                   \/ ch' = [ch EXCEPT ![c] = Shifted(@, bit)] /\ bit \in {0, 1} /\ ch[c].bits < 8
    <3> DEFINE b == IF ch[c].connected THEN BitOf(line[c].frame, line[c].pos + 1) ELSE 0
    <3>1. ch' = ch \/ (ch' = [ch EXCEPT ![c] = Shifted(@, b)] /\ ch[c].bits < 8)
      BY <1>5 DEF LineBit
    <3>2. b \in {0, 1}
      <4>1. line[c] \in [frame : Frames \cup {<<>>}, pos : Nat] /\ line[c].pos <= Total(line[c].frame)
            /\ line[c].pos # Total(line[c].frame)
        BY <1>5 DEF IInv, TypeOK, LineBit, Quiet
      <4>2. Total(line[c].frame) \in Nat
        BY <4>1, FrameFacts DEF Total
      <4>3. line[c].pos + 1 \in Nat /\ 0 < line[c].pos + 1 /\ line[c].pos + 1 <= Total(line[c].frame)
        BY <4>1, <4>2
      <4>4. QED
        BY <4>1, <4>3, BitIsBit
    <3>3. QED
      BY <3>1, <3>2
  <2>2. CASE ch' = ch
    BY <1>5, <2>2 DEF LineBit
  <2>3. CASE ch' = [ch EXCEPT ![c] = Shifted(@, bit)] /\ bit \in {0, 1} /\ ch[c].bits < 8
    <3>1. Shifted(ch[c], bit).tx = ch[c].tx
      BY <1>t, <2>3, Shifts
    <3>2. QED
      BY <1>4, <1>5, <2>3, <3>1 DEF LineBit
  <2>4. QED
    BY <2>1, <2>2, <2>3
<1>6. ASSUME NEW c \in Channels, TxDone(c)
      PROVE  irq' = irq /\ \A d \in Channels : ch[d].tx = "none" => ch'[d].tx = "none"
  BY <1>t, <1>6 DEF TxDone
<1>7. ASSUME NEW c \in Channels, ProgramInit(c) \/ Reset(c)
      PROVE  irq' = irq /\ \A d \in Channels : ch[d].tx = "none" => ch'[d].tx = "none"
  BY <1>t, <1>4, <1>7, SetIn, ResetState DEF ProgramInit, Reset
<1>8. ASSUME NEW c \in Channels, ClearGotData(c) \/ Disconnect(c)
      PROVE  irq' = irq /\ \A d \in Channels : ch[d].tx = "none" => ch'[d].tx = "none"
  <2>1. CASE ClearGotData(c)
    BY <1>t, <2>1 DEF ClearGotData, ChannelType
  <2>2. CASE Disconnect(c)
    <3> DEFINE q == [[[ch[c] EXCEPT !.connected = FALSE] EXCEPT !.gathered = 0]
                       EXCEPT !.fifo = [i \in DOMAIN @ |-> 0]]
    <3>1. ch' = [ch EXCEPT ![c] = q] /\ irq' = irq
      BY <1>t, <2>2 DEF Disconnect, ChannelType
    <3>2. q.tx = ch[c].tx
      BY <1>t DEF ChannelType
    <3>3. QED
      BY <1>4, <3>1, <3>2
  <2>3. QED
    BY <1>8, <2>1, <2>2
<1>9. ASSUME NEW c \in Channels, Connect(c)
      PROVE  (irq => irq') /\ \A d \in Channels : ch[d].tx = "none" => ch'[d].tx = "none"
  BY <1>t, <1>9 DEF Connect, Pushed, ChannelType
<1>10. QED
  BY <1>1, <1>2, <1>3, <1>5, <1>6, <1>7, <1>8, <1>9 DEF Next, MainLoop

\* What the handler does to a channel that is in step with the console.
LEMMA HandlerInStep ==
  ASSUME IInv, _gamecube_isr_rxgot, NEW c \in Channels, ~astray[c]
  PROVE  LET f == line[c].frame
             q == ch'[c]
         IN /\ ~Served(c) => q = ch[c]
            /\ Served(c) /\ q.tx # "none" =>
                 /\ FrameOver(c) /\ q.tx = Answered(f)
                 /\ q.tx = "poll" => q.workingMode = f[2] /\ q.rumble = (f[3] % 2 = 1)
            /\ Served(c) /\ Restarted(q) => FrameOver(c) /\ f[1] = GCUBE_CMD_SWISS
<1> DEFINE r == ch[c]
           q == ch'[c]
           l == line[c]
<1>1. q = IF Served(c) THEN _gamecube_command_handler(r) ELSE r
  BY DEF _gamecube_isr_rxgot
<1>2. CASE ~Served(c)
  BY <1>1, <1>2
<1>3. CASE Served(c)
  <2>1. q = _gamecube_command_handler(r) /\ r.fifo # <<>> /\ r.connected
    BY <1>1, <1>3 DEF Served
  <2>2. Good(c) /\ Wired(r) /\ r \in ChannelType /\ InStep(r, l) /\ l.pos \in Nat
    BY <2>1 DEF IInv, TypeOK, Good, Wired, Channel
  <2>3. r.tx = "none" /\ Following(r, l)
    BY <2>1, <2>2 DEF InStep, Resting, Answering, Wired, ChannelType
  <2> HIDE DEF q, r, l
  <2>4. HandlerAnswers(q, r) \/ HandlerRestarts(q, r) \/ HandlerCounts(q, r)
    BY <2>1, <2>2, Handles
  <2>5. /\ HandlerAnswers(q, r) =>
             /\ l.pos >= 8 * Len(l.frame) /\ q.tx = Answered(l.frame)
             /\ q.tx = "poll" => q.workingMode = l.frame[2] /\ q.rumble = (l.frame[3] % 2 = 1)
        /\ HandlerRestarts(q, r) => l.pos >= 8 * Len(l.frame) /\ l.frame[1] = GCUBE_CMD_SWISS
        /\ HandlerCounts(q, r) => Following(q, l)
    BY <2>1, <2>2, <2>3, HandlesInStep
  <2>6. HandlerAnswers(q, r) => q.tx # "none" /\ ~Restarted(q)
    BY DEF HandlerAnswers, AnswerSent, Restarted, BYTECOUNT_NULL
  <2>7. HandlerRestarts(q, r) => q.tx = "none"
    BY DEF HandlerRestarts
  <2>8. HandlerCounts(q, r) => q.tx = "none" /\ ~Restarted(q)
    <3> SUFFICES ASSUME HandlerCounts(q, r) PROVE q.tx = "none" /\ ~Restarted(q)
      OBVIOUS
    <3>1. q.workingCmd # 0
      BY DEF HandlerCounts, GCUBE_CMD_PROBE
    <3>2. QED
      BY <2>3, <3>1 DEF HandlerCounts, Restarted
  <2>9. QED
    BY <1>3, <2>4, <2>5, <2>6, <2>7, <2>8 DEF FrameOver, q, l
<1>4. QED
  BY <1>2, <1>3

\* A channel that is in step answers only the command the console has just sent,
\* after its last byte, and with the mode and the rumble bit of that command.
THEOREM AnswersAreToCommands == Spec => AnswersMatchCommands
<1> DEFINE Act == \A c \in Channels : AnswerStarts(c) /\ ~astray[c] =>
       LET f == line[c].frame
           now == ch'[c]
       IN /\ FrameOver(c)
          /\ now.tx = Answered(f)
          /\ now.tx = "poll" => now.workingMode = f[2] /\ now.rumble = (f[3] % 2 = 1)
<1>1. IInv /\ [Next]_vars => [Act]_vars
  <2> SUFFICES ASSUME IInv, [Next]_vars PROVE Act
    OBVIOUS
  <2>1. CASE ~_gamecube_isr_rxgot
    BY <2>1, OnlyHandlerAnswers DEF AnswerStarts
  <2>2. CASE _gamecube_isr_rxgot
    BY <2>2, HandlerInStep DEF AnswerStarts
  <2>3. QED
    BY <2>1, <2>2
<1>2. QED
  BY <1>1, InStepWithConsole, PTL DEF Spec, AnswersMatchCommands

\* A channel that is in step is restarted by the handler only behind the last
\* byte of the command for another device.
THEOREM OtherDevicesSatOut == Spec => OtherDevicesAreSatOut
<1> DEFINE Act == \A c \in Channels : irq /\ ~irq' /\ Served(c) /\ Restarted(ch'[c]) /\ ~astray[c] =>
       FrameOver(c) /\ line[c].frame[1] = GCUBE_CMD_SWISS
<1>1. IInv /\ [Next]_vars => [Act]_vars
  <2> SUFFICES ASSUME IInv, [Next]_vars PROVE Act
    OBVIOUS
  <2>1. CASE ~_gamecube_isr_rxgot
    BY <2>1, OnlyHandlerAnswers
  <2>2. CASE _gamecube_isr_rxgot
    BY <2>2, HandlerInStep
  <2>3. QED
    BY <2>1, <2>2
<1>2. QED
  BY <1>1, InStepWithConsole, PTL DEF Spec, OtherDevicesAreSatOut

-----------------------------------------------------------------------------
(* The timers: what MCIntervalTimer checks on a clock of 64 ticks, proved   *)
(* for every modulus, interval and length of a pass.                        *)

\* The time gone since the reading in last_time.
Running == IF fired = "yes" THEN 0 ELSE since

\* The inductive invariant: the clock is ahead of last_time by the time gone, or
\* has started over exactly once meanwhile; and that time stays below the bound
\* the length of a pass sets.
TimerInv ==
  /\ TimerTypeOK
  /\ NeverEarly
  /\ NeverMissed
  /\ clock = last_time + Running \/ clock = last_time + Running - W
  /\ Running + MaxPass < W

\* The next reading, without the remainder.
LEMMA ReadingValue ==
  ASSUME clock \in 0 .. W - 1, NEW d \in 0 .. MaxPass
  PROVE  Reading(d) = IF clock + d < W THEN clock + d ELSE clock + d - W
<1>1. W \in Nat /\ MaxPass \in Nat /\ MaxPass < W /\ d \in Nat /\ clock \in Nat
      /\ clock < W
  BY TimerAssumption
<1>2. CASE clock + d < W
  BY <1>1, <1>2 DEF Reading
<1>3. CASE clock + d >= W
  <2>1. clock + d - W \in Nat /\ clock + d - W < W
    BY <1>1, <1>3
  <2>2. (clock + d) % W = clock + d - W
    BY <1>1, <2>1
  <2> QED  BY <2>2, <1>1, <1>3 DEF Reading
<1> QED  BY <1>1, <1>2, <1>3

\* What the code computes is the time gone, less a tick when the clock started
\* over in between.
LEMMA ElapsedValue ==
  ASSUME TimerInv, NEW d \in 0 .. MaxPass
  PROVE  LET now == Running + d
             this == Reading(d)
         IN /\ this \in 0 .. W - 1
            /\ now \in 0 .. W - 1
            /\ this = last_time <=> now = 0
            /\ this = last_time + now \/ this = last_time + now - W
            /\ Elapsed(last_time, this) = IF this < last_time THEN now - 1 ELSE now
<1> DEFINE now == Running + d
           this == Reading(d)
<1>1. W \in Nat /\ MaxPass \in Nat /\ MaxPass < W /\ d \in Nat /\ d <= MaxPass
  BY TimerAssumption
<1>2. clock \in 0 .. W - 1 /\ last_time \in 0 .. W - 1 /\ since \in 0 .. W - 1
  BY DEF TimerInv, TimerTypeOK
<1>3. Running \in Nat /\ now \in Nat /\ now < W
  BY <1>1, <1>2 DEF Running, TimerInv
<1>4. this = IF clock + d < W THEN clock + d ELSE clock + d - W
  BY <1>2, ReadingValue
<1>5. this = last_time + now \/ this = last_time + now - W
      \/ this = last_time + now - 2 * W
  BY <1>1, <1>2, <1>3, <1>4 DEF TimerInv
<1>6. this \in 0 .. W - 1
  BY <1>1, <1>2, <1>4
<1>7. this = last_time + now \/ this = last_time + now - W
  BY <1>1, <1>2, <1>3, <1>5, <1>6
<1>8. this = last_time <=> now = 0
  BY <1>1, <1>2, <1>3, <1>6, <1>7
<1>9. Elapsed(last_time, this) = IF this < last_time THEN now - 1 ELSE now
  BY <1>1, <1>2, <1>3, <1>6, <1>7 DEF Elapsed
<1>10. now \in 0 .. W - 1
  BY <1>1, <1>3
<1> QED  BY <1>6, <1>7, <1>8, <1>9, <1>10

\* Neither a call nor a restart of the timer breaks its invariant.
LEMMA TimerStep == TimerInv /\ [TimerNext]_timerVars => TimerInv'
<1> SUFFICES ASSUME TimerInv, [TimerNext]_timerVars PROVE TimerInv'
  OBVIOUS
<1> DEFINE now(d) == Running + d
<1>0. /\ W \in Nat /\ Period \in Nat \ {0} /\ MaxPass \in Nat \ {0}
      /\ Period + MaxPass < W
  BY TimerAssumption
<1>t. clock \in 0 .. W - 1 /\ last_time \in 0 .. W - 1 /\ since \in 0 .. W - 1
  BY DEF TimerInv, TimerTypeOK
<1>1. ASSUME NEW d \in 0 .. MaxPass, interval_run(d) PROVE TimerInv'
  <2> DEFINE this == Reading(d)
             elapsed == Elapsed(last_time, this)
  <2>1. /\ this \in 0 .. W - 1
        /\ now(d) \in 0 .. W - 1
        /\ this = last_time <=> now(d) = 0
        /\ this = last_time + now(d) \/ this = last_time + now(d) - W
        /\ elapsed = IF this < last_time THEN now(d) - 1 ELSE now(d)
    BY ElapsedValue
  <2>2. since' = now(d) /\ clock' = this
    <3>1. clock' = this /\ since' = IF fired = "yes" THEN d ELSE Capped(since + d)
      BY <1>1 DEF interval_run
    <3>2. CASE fired = "yes"
      BY <3>1, <3>2, <1>0 DEF Running
    <3>3. CASE fired # "yes"
      BY <3>1, <3>3, <2>1, <1>0, <1>t DEF Running, Capped
    <3> QED  BY <3>2, <3>3
  <2> HIDE DEF this, elapsed, now
  <2>3. CASE Expired(last_time, this)
    <3>1. fired' = "yes" /\ last_time' = this
      BY <1>1, <2>3 DEF interval_run, this
    <3>2. elapsed >= Period
      BY <2>3 DEF Expired, elapsed
    <3>3. now(d) >= Period
      BY <3>2, <2>1, <1>0
    <3> QED  BY <1>0, <2>1, <2>2, <3>1, <3>3
             DEF TimerInv, TimerTypeOK, NeverEarly, NeverMissed, Running
  <2>4. CASE ~Expired(last_time, this)
    <3>1. fired' = "no" /\ last_time' = last_time
      BY <1>1, <2>4 DEF interval_run, this
    <3>2. this = last_time \/ ~(elapsed >= Period)
      BY <2>4 DEF Expired, elapsed
    <3>3. now(d) <= Period
      BY <3>2, <2>1, <1>0, <1>t
    <3> QED  BY <1>0, <1>t, <2>1, <2>2, <3>1, <3>3
             DEF TimerInv, TimerTypeOK, NeverEarly, NeverMissed, Running
  <2> QED  BY <2>3, <2>4
<1>2. ASSUME NEW d \in 0 .. MaxPass, Restart(d) PROVE TimerInv'
  <2>1. Reading(d) \in 0 .. W - 1
    BY ElapsedValue
  <2> QED  BY <1>0, <1>2, <2>1
           DEF Restart, TimerInv, TimerTypeOK, NeverEarly, NeverMissed, Running
<1>3. CASE UNCHANGED timerVars
  BY <1>3 DEF timerVars, TimerInv, TimerTypeOK, NeverEarly, NeverMissed, Running
<1> QED  BY <1>1, <1>2, <1>3 DEF TimerNext

\* The invariant of the timer holds throughout.
LEMMA TimerInductive == TimerSpec => []TimerInv
<1>1. TimerInit => TimerInv
  <2> SUFFICES ASSUME TimerInit PROVE TimerInv
    OBVIOUS
  <2> QED  BY TimerAssumption DEF TimerInit, TimerInv, TimerTypeOK, NeverEarly, NeverMissed, Running
<1> QED  BY <1>1, TimerStep, PTL DEF TimerSpec

\* The readings stay readings and the time judged stays below the modulus.
THEOREM TimerTypeCorrect == TimerSpec => []TimerTypeOK
<1>1. TimerInv => TimerTypeOK  BY DEF TimerInv
<1> QED  BY <1>1, TimerInductive, PTL

\* No timer fires before its interval has passed, at any distance from the moment
\* the clock starts over.
THEOREM NotEarly == TimerSpec => []NeverEarly
<1>1. TimerInv => NeverEarly  BY DEF TimerInv
<1> QED  BY <1>1, TimerInductive, PTL

\* No pass leaves a timer running for more than the one lost tick.
THEOREM NotMissed == TimerSpec => []NeverMissed
<1>1. TimerInv => NeverMissed  BY DEF TimerInv
<1> QED  BY <1>1, TimerInductive, PTL
=============================================================================
