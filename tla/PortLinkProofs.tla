--------------------------- MODULE PortLinkProofs ---------------------------
(***************************************************************************)
(* What the three PortLink runs check on small instances, proved for every *)
(* number of ports and controllers, every length of the two queues and any *)
(* number of messages. Each theorem has an inductive invariant of its own. *)
(* Those about messages on their way rest on what the youngest message of  *)
(* a kind in the queue to core 0 says (YoungestOf), and on what becomes of *)
(* it when a message is stored (AcceptedIsYoungest) or taken               *)
(* (TakenIsOldest).                                                        *)
(***************************************************************************)
EXTENDS PortLink, TLAPS

\* The queues have slots, numbered from 0.
LEMMA Sizes ==
  /\ QueueLen \in Nat /\ QueueLen > 0
  /\ SlotIdx = 0 .. QueueLen - 1 /\ Core1SlotIdx = 0 .. QueueLen - 1
  BY IntercoreAssumption DEF SlotIdx, Core1SlotIdx

\* The messages to core 0, told apart by their id.
LEMMA Messages ==
  ASSUME NEW p \in Ports
  PROVE  /\ IC_MSG_CONNECT(p) \in Core0Msgs /\ IC_MSG_CONNECT(p) \notin Core0Inputs
         /\ IC_MSG_DISCONNECT(p) \in Core0Msgs /\ IC_MSG_DISCONNECT(p) \notin Core0Inputs
         /\ \A c \in Counters : IC_MSG_INPUT(p, c) \in Core0Inputs
<1>1. \A c \in Counters : IC_MSG_INPUT(p, c) \in Core0Inputs
  BY DEF Core0Inputs
<1>2. IC_MSG_CONNECT(p) \in Core0Msgs /\ IC_MSG_DISCONNECT(p) \in Core0Msgs
  BY DEF Core0Msgs
<1>3. \A m \in Core0Inputs : m.id = "INPUT"
  BY DEF Core0Inputs, IC_MSG_INPUT
<1>4. IC_MSG_CONNECT(p).id = "CONNECT" /\ IC_MSG_DISCONNECT(p).id = "DISCONNECT"
  BY DEF IC_MSG_CONNECT, IC_MSG_DISCONNECT
<1>5. QED
  BY <1>1, <1>2, <1>3, <1>4

\* What the fields of a message to core 0 may be; only inputs are inputs.
LEMMA Inputs ==
  ASSUME NEW m \in Core0Msgs
  PROVE  /\ m \in Core0Inputs <=> m.id = "INPUT"
         /\ m.port \in Ports /\ m.counter \in Counters
         /\ m.id \in {"CONNECT", "DISCONNECT", "INPUT"}
  BY IntercoreAssumption DEF Core0Msgs, Core0Inputs, IC_MSG_CONNECT, IC_MSG_DISCONNECT, IC_MSG_INPUT, Counters

\* The write index starts over behind the last slot (intercore.c:46).
LEMMA NextIdxValue ==
  ASSUME NEW w \in SlotIdx
  PROVE  NextIdx(w) = IF w + 1 = QueueLen THEN 0 ELSE w + 1
<1>1. w \in Nat /\ w < QueueLen /\ QueueLen \in Nat
  BY Sizes
<1>2. QueueLen % QueueLen = 0 /\ (w + 1 < QueueLen => (w + 1) % QueueLen = w + 1)
  BY <1>1
<1>3. QED
  BY <1>1, <1>2 DEF NextIdx

-----------------------------------------------------------------------------
\* What waits in either queue is a message.
Filled0 == \A i \in SlotIdx : core0_queue[i].ready => core0_queue[i].msg \in Core0Msgs
Filled1 == \A i \in Core1SlotIdx : core1_queue[i].ready => core1_queue[i].msg \in Core1Msgs

\* The two functions of the queue to core 0, and the slots they touch.
LEMMA Accepted ==
  ASSUME Core0QueueTypeOK, NEW m \in Core0Msgs, NEW gp \in GamepadStates \cup {NoPad},
         core0_accept(m, gp)
  PROVE  /\ core0_queue' \in [SlotIdx -> SlotRecord]
         /\ core0_write_idx' = IF core0_write_idx + 1 = QueueLen THEN 0 ELSE core0_write_idx + 1
         /\ core0_write_idx' \in SlotIdx
         /\ core0_last_msg' = m /\ core0_last_msg # m
         /\ core0_queue'[core0_write_idx].ready /\ core0_queue'[core0_write_idx].msg = m
         /\ core0_queue'[core0_write_idx].gp
              = IF m \in Core0Inputs THEN gp ELSE core0_queue[core0_write_idx].gp
         /\ \A i \in SlotIdx : i # core0_write_idx => core0_queue'[i] = core0_queue[i]
<1>1. Written(core0_queue[core0_write_idx], m, gp) \in SlotRecord
  BY DEF Written, SlotRecord, Core0QueueTypeOK
<1>2. core0_queue' = [core0_queue EXCEPT ![core0_write_idx] = Written(@, m, gp)]
      /\ core0_last_msg' = m /\ core0_last_msg # m
      /\ core0_write_idx' = NextIdx(core0_write_idx)
  BY DEF core0_accept, IsRepeat
<1>3. core0_queue' \in [SlotIdx -> SlotRecord]
      /\ core0_queue'[core0_write_idx] = Written(core0_queue[core0_write_idx], m, gp)
      /\ \A i \in SlotIdx : i # core0_write_idx => core0_queue'[i] = core0_queue[i]
  BY <1>1, <1>2 DEF Core0QueueTypeOK
<1>4. core0_write_idx' = IF core0_write_idx + 1 = QueueLen THEN 0 ELSE core0_write_idx + 1
  BY <1>2, NextIdxValue DEF Core0QueueTypeOK
<1>5. core0_write_idx' \in SlotIdx
  BY <1>4, Sizes DEF Core0QueueTypeOK
<1>6. QED
  BY <1>2, <1>3, <1>4, <1>5 DEF Written

\* A send keeps the queue to core 0 typed, and every ready slot filled.
LEMMA SendTypes ==
  ASSUME Core0QueueTypeOK, Filled0, NEW m \in Core0Msgs, NEW gp \in GamepadStates \cup {NoPad},
         core0_send_message_safe(m, gp)
  PROVE  Core0QueueTypeOK' /\ Filled0'
<1>1. CASE core0_accept(m, gp)
  BY <1>1, Accepted DEF Core0QueueTypeOK, Filled0
<1>2. CASE UNCHANGED <<core0_queue, core0_write_idx, core0_last_msg>>
  BY <1>2 DEF Core0QueueTypeOK, Filled0
<1>3. QED
  BY <1>1, <1>2 DEF core0_send_message_safe

\* core0_get_message_safe only marks the slot as read.
LEMMA Got ==
  ASSUME Core0QueueTypeOK, NEW i \in SlotIdx, core0_get_message_safe(i)
  PROVE  /\ core0_queue' \in [SlotIdx -> SlotRecord]
         /\ core0_queue[i].ready /\ ~core0_queue'[i].ready
         /\ core0_queue'[i].msg = core0_queue[i].msg /\ core0_queue'[i].gp = core0_queue[i].gp
         /\ \A j \in SlotIdx : j # i => core0_queue'[j] = core0_queue[j]
         /\ core0_write_idx' = core0_write_idx /\ core0_last_msg' = core0_last_msg
<1>1. core0_queue' = [core0_queue EXCEPT ![i].ready = FALSE]
      /\ core0_queue[i].ready /\ core0_write_idx' = core0_write_idx /\ core0_last_msg' = core0_last_msg
  BY DEF core0_get_message_safe, FirstReady
<1>2. core0_queue[i] \in SlotRecord
  BY DEF Core0QueueTypeOK
<1>3. /\ [core0_queue[i] EXCEPT !.ready = FALSE] \in SlotRecord
      /\ [core0_queue[i] EXCEPT !.ready = FALSE].ready = FALSE
      /\ [core0_queue[i] EXCEPT !.ready = FALSE].msg = core0_queue[i].msg
      /\ [core0_queue[i] EXCEPT !.ready = FALSE].gp = core0_queue[i].gp
  BY <1>2 DEF SlotRecord
<1>4. core0_queue' \in [SlotIdx -> SlotRecord]
      /\ core0_queue'[i] = [core0_queue[i] EXCEPT !.ready = FALSE]
      /\ \A j \in SlotIdx : j # i => core0_queue'[j] = core0_queue[j]
  BY <1>1, <1>3 DEF Core0QueueTypeOK
<1>5. QED
  BY <1>1, <1>3, <1>4

\* Likewise for the table to core 1.
LEMMA Core1SendTypes ==
  ASSUME Core1QueueTypeOK, Filled1, NEW m \in Core1Msgs, core1_send_message_safe(m)
  PROVE  Core1QueueTypeOK' /\ Filled1'
<1>1. ASSUME NEW i \in Core1SlotIdx, core1_store(i, m)
      PROVE  Core1QueueTypeOK' /\ Filled1'
  BY <1>1 DEF core1_store, Core1QueueTypeOK, Filled1
<1>2. CASE core1_refuse(m)
  BY <1>2 DEF core1_refuse, Core1QueueTypeOK, Filled1
<1>3. QED
  BY <1>1, <1>2 DEF core1_send_message_safe

\* What core 1 takes is a message.
LEMMA Core1GetTypes ==
  ASSUME Core1QueueTypeOK, Filled1, NEW i \in Core1SlotIdx, core1_get_message_safe(i)
  PROVE  Core1QueueTypeOK' /\ Filled1' /\ core1_queue[i].msg \in Core1Msgs
<1>1. core1_queue[i].ready
  BY DEF core1_get_message_safe, FirstWaiting, Waiting
<1>2. QED
  BY <1>1 DEF core1_get_message_safe, Core1QueueTypeOK, Filled1
-----------------------------------------------------------------------------
\* A message to core 1 is the bits it carries.
LEMMA RumbleMessage ==
  /\ \A bits \in SUBSET RumbleBits : IC_MSG_RUMBLE(bits) \in Core1Msgs
  /\ \A m \in Core1Msgs : m.bits \in SUBSET RumbleBits /\ m = IC_MSG_RUMBLE(m.bits)
  BY DEF Core1Msgs, IC_MSG_RUMBLE

\* One lemma for each step: it keeps the types and the filled slots.
LEMMA ConnectTypes ==
  ASSUME TypeOK, Filled0, Filled1, NEW s \in Slots, NEW d \in Devices, NEW p \in Ports, Connect(s, d, p)
  PROVE  TypeOK' /\ Filled0' /\ Filled1'
<1>1. core0_send_message_safe(IC_MSG_CONNECT(p), NoPad)
  BY DEF Connect, my_platform_on_device_connected
<1>2. Core0QueueTypeOK' /\ Filled0'
  BY <1>1, SendTypes, Messages DEF TypeOK
<1>3. players' \in [Slots -> PlayerRecord]
  BY DEF Connect, my_platform_on_device_connected, TypeOK, PlatformTypeOK, PlayerRecord
<1>4. PlatformTypeOK'
  BY <1>3 DEF Connect, my_platform_on_device_connected, TypeOK, PlatformTypeOK
<1>5. Core1QueueTypeOK' /\ Filled1' /\ CommsTypeOK'
  BY DEF Connect, TypeOK, commsVars, Core1QueueTypeOK, CommsTypeOK, Filled1
<1>6. orderly' \in BOOLEAN /\ alone' \in BOOLEAN
  BY DEF Connect, SendKeepsOrder
<1>7. QED
  BY <1>2, <1>4, <1>5, <1>6 DEF Connect, TypeOK

LEMMA DisconnectTypes ==
  ASSUME TypeOK, Filled0, Filled1, NEW s \in Slots, Disconnect(s)
  PROVE  TypeOK' /\ Filled0' /\ Filled1'
<1>1. PortOf(s) \in Ports
  BY DEF TypeOK, PlatformTypeOK, PlayerRecord, PortOf
<1>2. core0_send_message_safe(IC_MSG_DISCONNECT(PortOf(s)), NoPad)
  BY DEF Disconnect, my_platform_on_device_disconnected, DisconnectMsg
<1>3. Core0QueueTypeOK' /\ Filled0'
  BY <1>1, <1>2, SendTypes, Messages DEF TypeOK
<1>4. players' \in [Slots -> PlayerRecord]
  BY DEF Disconnect, my_platform_on_device_disconnected, TypeOK, PlatformTypeOK, PlayerRecord
<1>5. PlatformTypeOK'
  BY <1>4 DEF Disconnect, my_platform_on_device_disconnected, TypeOK, PlatformTypeOK
<1>6. Core1QueueTypeOK' /\ Filled1' /\ CommsTypeOK'
  BY DEF Disconnect, TypeOK, commsVars, Core1QueueTypeOK, CommsTypeOK, Filled1
<1>7. orderly' \in BOOLEAN
  BY DEF Disconnect, SendKeepsOrder
<1>8. QED
  BY <1>3, <1>5, <1>6, <1>7 DEF Disconnect, TypeOK

\* The LEDs, part of a report, change neither connection nor port.
LEMMA LedTypes ==
  ASSUME PlatformTypeOK, NEW s \in Slots, LightLeds(s)
  PROVE  /\ players' \in [Slots -> PlayerRecord] /\ leds' \in [Slots -> Ports \cup {NoPort}]
         /\ \A t \in Slots : players'[t].connected = players[t].connected
                             /\ players'[t].gc_port = players[t].gc_port
<1>1. CASE ~players[s].led_set /\ "set_player_leds" \in players[s].device_ptr
  <2>1. players' = [players EXCEPT ![s].led_set = TRUE] /\ leds' = [leds EXCEPT ![s] = PortOf(s)]
    BY <1>1 DEF LightLeds, LedPort
  <2>2. QED
    BY <2>1 DEF PlatformTypeOK, PlayerRecord, PortOf
<1>2. CASE ~(~players[s].led_set /\ "set_player_leds" \in players[s].device_ptr)
  <2>1. players' = players /\ leds' = leds
    BY <1>2 DEF LightLeds
  <2>2. QED
    BY <2>1 DEF PlatformTypeOK
<1>3. QED
  BY <1>1, <1>2

LEMMA ReportTypes ==
  ASSUME TypeOK, Filled0, Filled1, NEW s \in Slots, Report(s)
  PROVE  TypeOK' /\ Filled0' /\ Filled1'
<1>1. PortOf(s) \in Ports /\ inputcounter \in Counters /\ NextCounter(inputcounter) \in Counters
  BY IntercoreAssumption DEF TypeOK, PlatformTypeOK, PlayerRecord, PortOf, Counters, NextCounter
<1>2. [port |-> PortOf(s), counter |-> inputcounter] \in GamepadStates
      /\ IC_MSG_INPUT(PortOf(s), inputcounter) \in Core0Msgs
  BY <1>1, Messages DEF GamepadStates, Core0Msgs
<1>3. core0_send_message_safe(IC_MSG_INPUT(PortOf(s), inputcounter),
                              [port |-> PortOf(s), counter |-> inputcounter])
  BY DEF Report, my_platform_on_controller_data
<1>4. Core0QueueTypeOK' /\ Filled0'
  BY <1>2, <1>3, SendTypes DEF TypeOK
<1>5. PlatformTypeOK'
  BY <1>1, LedTypes DEF Report, my_platform_on_controller_data, TypeOK, PlatformTypeOK
<1>6. Core1QueueTypeOK' /\ Filled1' /\ CommsTypeOK'
  BY DEF Report, TypeOK, commsVars, Core1QueueTypeOK, CommsTypeOK, Filled1
<1>7. orderly' \in BOOLEAN
  BY DEF Report, SendKeepsOrder
<1>8. last_input' \in [Ports -> GamepadStates \cup {NoPad}]
  BY <1>1, <1>2 DEF Report, TypeOK
<1>9. QED
  BY <1>4, <1>5, <1>6, <1>7, <1>8 DEF Report, TypeOK

LEMMA HookTypes ==
  ASSUME TypeOK, Filled0, Filled1, Hook
  PROVE  TypeOK' /\ Filled0' /\ Filled1'
<1>1. Core0QueueTypeOK' /\ Filled0' /\ CommsTypeOK'
  BY DEF Hook, TypeOK, core0Vars, commsVars, Core0QueueTypeOK, CommsTypeOK, Filled0
<1>2. ASSUME NEW b PROVE Rumbled(b) \in [Slots -> BOOLEAN]
  <2>1. ASSUME NEW s \in Slots
        PROVE  (IF CanRumble(s) /\ DrivesPort(s, PortOf(s))
                THEN HookBit(PortOf(s)) \in b ELSE motors[s]) \in BOOLEAN
    <3>1. motors[s] \in BOOLEAN
      BY DEF TypeOK, PlatformTypeOK
    <3>2. (HookBit(PortOf(s)) \in b) \in BOOLEAN
      OBVIOUS
    <3>3. QED
      BY <3>1, <3>2, Zenon
  <2>2. QED
    BY <2>1, Zenon DEF Rumbled
<1>3. CASE my_platform_bt_loop_hook_idle
  <2>1. motors' \in [Slots -> BOOLEAN]
    BY <1>2, <1>3 DEF my_platform_bt_loop_hook_idle
  <2>2. QED
    BY <1>1, <1>3, <2>1 DEF my_platform_bt_loop_hook_idle, Hook, TypeOK, PlatformTypeOK,
                           Core1QueueTypeOK, Filled1, history
<1>4. ASSUME NEW i \in Core1SlotIdx, my_platform_bt_loop_hook_got(i)
      PROVE  TypeOK' /\ Filled0' /\ Filled1'
  <2>1. Core1QueueTypeOK' /\ Filled1' /\ core1_queue[i].msg \in Core1Msgs
    BY <1>4, Core1GetTypes DEF my_platform_bt_loop_hook_got, TypeOK
  <2>2. motors' \in [Slots -> BOOLEAN] /\ _rumble_status' \in SUBSET RumbleBits
    BY <1>2, <1>4, <2>1, RumbleMessage DEF my_platform_bt_loop_hook_got
  <2>3. QED
    BY <1>1, <1>4, <2>1, <2>2 DEF my_platform_bt_loop_hook_got, Hook, TypeOK, PlatformTypeOK, history
<1>5. QED
  BY <1>3, <1>4 DEF Hook, my_platform_bt_loop_hook

LEMMA MessageTypes ==
  ASSUME TypeOK, Filled0, Filled1, Message
  PROVE  TypeOK' /\ Filled0' /\ Filled1'
<1>1. Core1QueueTypeOK' /\ Filled1' /\ PlatformTypeOK'
  BY DEF Message, TypeOK, platformVars, Core1QueueTypeOK, PlatformTypeOK, Filled1
<1>2. CASE comms_task_no_message /\ UNCHANGED orderly
  BY <1>1, <1>2 DEF comms_task_no_message, Message, Then, TypeOK, core0Vars, Core0QueueTypeOK,
                   CommsTypeOK, Filled0
<1>3. ASSUME NEW i \in SlotIdx, comms_task_message(i), orderly' = (orderly /\ ~Overtakes(i))
      PROVE  TypeOK' /\ Filled0' /\ Filled1'
  <2>1. core0_get_message_safe(i) /\ core0_queue[i] \in SlotRecord /\ core0_queue[i].msg \in Core0Msgs
    BY <1>3 DEF comms_task_message, core0_get_message_safe, FirstReady, TypeOK, Core0QueueTypeOK, Filled0
  <2>2. Core0QueueTypeOK' /\ Filled0'
    BY <2>1, Got DEF TypeOK, Core0QueueTypeOK, Filled0
  <2>3. core0msg' = [msg |-> core0_queue[i].msg,
                     gp |-> IF core0_queue[i].msg \in Core0Inputs THEN core0_queue[i].gp ELSE core0msg.gp]
    BY <1>3 DEF comms_task_message, CopiedOut
  <2>4. core0msg' \in [msg : Core0Msgs \cup {NoMsg}, gp : GamepadStates \cup {NoPad}]
        /\ core0msg'.msg.port \in Ports
    BY <2>1, <2>3, Inputs DEF SlotRecord, TypeOK, CommsTypeOK
  <2>5. gc_connected' \in SUBSET Ports /\ gc_rumble' \in SUBSET Ports
        /\ _out_buffer' \in [Ports -> GamepadStates \cup {NoPad}]
    BY <1>3, <2>4 DEF comms_task_message, Dispatch, _message_handle_connect, _message_handle_input,
                      TypeOK, CommsTypeOK
  <2>6. orderly' \in BOOLEAN
    BY <1>3
  <2>7. QED
    BY <1>1, <1>3, <2>2, <2>4, <2>5, <2>6 DEF Message, comms_task_message, Then, TypeOK, CommsTypeOK
<1>4. QED
  BY <1>2, <1>3 DEF Message

\* The main loop collects one bit for each port.
LEMMA CollectedBits == TypeOK => Collected \in SUBSET RumbleBits
<1> SUFFICES ASSUME TypeOK PROVE Collected \in SUBSET RumbleBits
  OBVIOUS
<1>1. \A p \in Ports : SampleBit(p) \in RumbleBits
  BY IntercoreAssumption DEF SampleBit, RumbleBits, Ports
<1>2. newrumblestate \subseteq RumbleBits /\ gc_rumble \subseteq Ports
  BY DEF TypeOK, CommsTypeOK
<1>3. QED
  BY <1>1, <1>2 DEF Collected

LEMMA RumbleReportTypes ==
  ASSUME TypeOK, Filled0, Filled1, RumbleReport
  PROVE  TypeOK' /\ Filled0' /\ Filled1'
<1>1. Core0QueueTypeOK' /\ Filled0' /\ PlatformTypeOK'
  BY DEF RumbleReport, TypeOK, core0Vars, platformVars, Core0QueueTypeOK, PlatformTypeOK, Filled0
<1>2. Core1QueueTypeOK' /\ Filled1'
  <2>1. CASE currentrumble # Collected
    BY <2>1, Core1SendTypes, CollectedBits, RumbleMessage DEF RumbleReport, comms_task_report, TypeOK
  <2>2. CASE currentrumble = Collected
    BY <2>2 DEF RumbleReport, comms_task_report, TypeOK, Core1QueueTypeOK, Filled1
  <2>3. QED
    BY <2>1, <2>2
<1>3. CommsTypeOK'
  BY CollectedBits DEF RumbleReport, comms_task_report, Reported, Then, TypeOK, CommsTypeOK
<1>4. kept_up' \in BOOLEAN
  BY DEF RumbleReport
<1>5. QED
  BY <1>1, <1>2, <1>3, <1>4 DEF RumbleReport, TypeOK

\* All steps together, and the induction.
LEMMA TypesStep == TypeOK /\ Filled0 /\ Filled1 /\ [Next]_vars => TypeOK' /\ Filled0' /\ Filled1'
<1> SUFFICES ASSUME TypeOK, Filled0, Filled1, [Next]_vars PROVE TypeOK' /\ Filled0' /\ Filled1'
  OBVIOUS
<1>1. ASSUME NEW s \in Slots, ReportOther(s)
      PROVE  TypeOK' /\ Filled0' /\ Filled1'
  <2>1. PlatformTypeOK'
    BY <1>1, LedTypes DEF ReportOther, my_platform_on_other_data, TypeOK, PlatformTypeOK
  <2>2. QED
    BY <1>1, <2>1 DEF ReportOther, my_platform_on_other_data, TypeOK, core0Vars, commsVars, history,
                     Core0QueueTypeOK, Core1QueueTypeOK, CommsTypeOK, Filled0, Filled1
<1>2. CASE Collect
  BY <1>2, CollectedBits DEF Collect, comms_task_collect, Then, TypeOK, core0Vars, platformVars, history,
             Core0QueueTypeOK, Core1QueueTypeOK, PlatformTypeOK, CommsTypeOK, Filled0, Filled1
<1>3. ASSUME NEW p \in RumblePorts, NEW rumble \in BOOLEAN, Poll(p, rumble)
      PROVE  TypeOK' /\ Filled0' /\ Filled1'
  <2>1. gc_rumble' \in SUBSET Ports
    BY <1>3, EnvironmentAssumption DEF Poll, console_poll, TypeOK, CommsTypeOK
  <2>2. QED
    BY <1>3, <2>1 DEF Poll, console_poll, TypeOK, core0Vars, platformVars, history,
                     Core0QueueTypeOK, Core1QueueTypeOK, PlatformTypeOK, CommsTypeOK, Filled0, Filled1
<1>4. CASE UNCHANGED vars
  BY <1>4 DEF vars, TypeOK, core0Vars, platformVars, commsVars, history,
             Core0QueueTypeOK, Core1QueueTypeOK, PlatformTypeOK, CommsTypeOK, Filled0, Filled1
<1>5. QED
  BY <1>1, <1>2, <1>3, <1>4, ConnectTypes, DisconnectTypes, ReportTypes, HookTypes, MessageTypes,
     RumbleReportTypes, EnvironmentAssumption DEF Next

LEMMA TypesInit == Init => TypeOK /\ Filled0 /\ Filled1
<1> SUFFICES ASSUME Init PROVE TypeOK /\ Filled0 /\ Filled1
  OBVIOUS
<1>1. Core0QueueTypeOK /\ Filled0 /\ Core1QueueTypeOK /\ Filled1
  BY Sizes DEF Init, Core0QueueInit, Core1QueueInit, Core0QueueTypeOK, SlotRecord, Core1QueueTypeOK,
               Filled0, Filled1
<1>2. PlatformTypeOK
  BY IntercoreAssumption DEF Init, PlatformInit, PlatformTypeOK, PlayerRecord, Counters, Ports
<1>3. CommsTypeOK
  BY DEF Init, CommsInit, CommsTypeOK
<1>4. QED
  BY <1>1, <1>2, <1>3 DEF Init, TypeOK

LEMMA Types == Spec => [](TypeOK /\ Filled0 /\ Filled1)
  BY TypesInit, TypesStep, PTL DEF Spec

\* Both queues, both cores and the history keep their types.
THEOREM TypeCorrect == Spec => []TypeOK
  BY Types, PTL
-----------------------------------------------------------------------------
\* A slot that holds an input holds the gamepad state it was sent with, ready
\* or not, and a port answers with a state of its own.
PadsMatch ==
  \A i \in SlotIdx : core0_queue[i].msg \in Core0Inputs =>
    core0_queue[i].gp = [port |-> core0_queue[i].msg.port, counter |-> core0_queue[i].msg.counter]
OwnPads == PadsMatch /\ AnswersAreOwn

\* A send that carries the state of its own port keeps PadsMatch.
LEMMA SendKeepsPads ==
  ASSUME Core0QueueTypeOK, PadsMatch, NEW m \in Core0Msgs, NEW gp \in GamepadStates \cup {NoPad},
         m \in Core0Inputs => gp = [port |-> m.port, counter |-> m.counter],
         core0_send_message_safe(m, gp)
  PROVE  PadsMatch'
<1>1. CASE core0_accept(m, gp)
  BY <1>1, Accepted DEF PadsMatch
<1>2. CASE UNCHANGED <<core0_queue, core0_write_idx, core0_last_msg>>
  BY <1>2 DEF PadsMatch
<1>3. QED
  BY <1>1, <1>2 DEF core0_send_message_safe

\* Every step keeps OwnPads; a get hands out the state of its own message.
LEMMA OwnPadsStep == TypeOK /\ Filled0 /\ OwnPads /\ [Next]_vars => OwnPads'
<1> SUFFICES ASSUME TypeOK, Filled0, PadsMatch, AnswersAreOwn, [Next]_vars PROVE PadsMatch' /\ AnswersAreOwn'
  BY DEF OwnPads
<1> USE DEF TypeOK
<1>1. ASSUME NEW s \in Slots, NEW d \in Devices, NEW p \in Ports, Connect(s, d, p)
      PROVE  PadsMatch' /\ AnswersAreOwn'
  BY <1>1, SendKeepsPads, Messages DEF Connect, my_platform_on_device_connected, commsVars, AnswersAreOwn
<1>2. ASSUME NEW s \in Slots, Disconnect(s) PROVE PadsMatch' /\ AnswersAreOwn'
  <2>1. PortOf(s) \in Ports
    BY DEF PlatformTypeOK, PlayerRecord, PortOf
  <2>2. QED
    BY <1>2, <2>1, SendKeepsPads, Messages
       DEF Disconnect, my_platform_on_device_disconnected, DisconnectMsg, commsVars, AnswersAreOwn
<1>3. ASSUME NEW s \in Slots, Report(s) PROVE PadsMatch' /\ AnswersAreOwn'
  <2> DEFINE m == IC_MSG_INPUT(PortOf(s), inputcounter)
             gp == [port |-> PortOf(s), counter |-> inputcounter]
  <2>1. PortOf(s) \in Ports /\ inputcounter \in Counters
    BY DEF PlatformTypeOK, PlayerRecord, PortOf
  <2>2. m \in Core0Msgs /\ gp \in GamepadStates /\ gp = [port |-> m.port, counter |-> m.counter]
    BY <2>1, Messages DEF Core0Msgs, GamepadStates, IC_MSG_INPUT
  <2>3. core0_send_message_safe(m, gp) /\ UNCHANGED _out_buffer
    BY <1>3 DEF Report, my_platform_on_controller_data, commsVars
  <2> HIDE DEF m, gp
  <2>4. QED
    BY <2>2, <2>3, SendKeepsPads DEF AnswersAreOwn
<1>4. ASSUME NEW i \in SlotIdx, comms_task_message(i) PROVE PadsMatch' /\ AnswersAreOwn'
  <2>1. core0_get_message_safe(i) /\ core0_queue[i].msg \in Core0Msgs
        /\ core0msg' = CopiedOut(core0msg, i) /\ Dispatch(core0msg')
    BY <1>4 DEF comms_task_message, core0_get_message_safe, FirstReady, Filled0
  <2>2. PadsMatch'
    BY <2>1, Got DEF PadsMatch
  <2>3. CASE core0_queue[i].msg \in Core0Inputs
    <3>1. core0msg'.msg = core0_queue[i].msg /\ core0msg'.gp = core0_queue[i].gp
      BY <2>1, <2>3 DEF CopiedOut
    <3>2. core0msg'.gp.port = core0msg'.msg.port /\ core0msg'.msg.id = "INPUT"
      <4>1. core0_queue[i].gp = [port |-> core0_queue[i].msg.port,
                                 counter |-> core0_queue[i].msg.counter]
        BY <2>3 DEF PadsMatch
      <4>2. core0_queue[i].gp.port = core0_queue[i].msg.port
        BY <4>1
      <4>3. core0_queue[i].msg.id = "INPUT"
        BY <2>1, <2>3, Inputs
      <4>4. QED
        BY <3>1, <4>2, <4>3
    <3>3. _out_buffer' = [_out_buffer EXCEPT ![core0msg'.msg.port] = core0msg'.gp]
      BY <2>1, <3>2 DEF Dispatch, _message_handle_input
    <3>4. QED
      BY <2>2, <3>2, <3>3 DEF AnswersAreOwn, CommsTypeOK
  <2>4. CASE core0_queue[i].msg \notin Core0Inputs
    <3>1. core0msg'.msg = core0_queue[i].msg
      BY <2>1 DEF CopiedOut
    <3>2. UNCHANGED _out_buffer
      BY <2>1, <2>4, <3>1, Inputs DEF Dispatch
    <3>3. QED
      BY <2>2, <3>2 DEF AnswersAreOwn
  <2>5. QED
    BY <2>3, <2>4
<1>5. ASSUME UNCHANGED <<core0_queue, _out_buffer>> PROVE PadsMatch' /\ AnswersAreOwn'
  BY <1>5 DEF PadsMatch, AnswersAreOwn
<1>6. ASSUME NEW s \in Slots, ReportOther(s) PROVE UNCHANGED <<core0_queue, _out_buffer>>
  BY <1>6 DEF ReportOther, my_platform_on_other_data, core0Vars, commsVars
<1>7. Hook \/ comms_task_no_message \/ Collect \/ RumbleReport \/ UNCHANGED vars
      => UNCHANGED <<core0_queue, _out_buffer>>
  BY DEF Hook, comms_task_no_message, Collect, comms_task_collect, RumbleReport, comms_task_report,
         vars, core0Vars, commsVars
<1>8. ASSUME NEW p \in Ports, NEW rumble \in BOOLEAN, Poll(p, rumble)
      PROVE  UNCHANGED <<core0_queue, _out_buffer>>
  BY <1>8 DEF Poll, console_poll, core0Vars
<1>9. QED
  BY <1>1, <1>2, <1>3, <1>4, <1>5, <1>6, <1>7, <1>8, EnvironmentAssumption DEF Next, Message

\* Whatever the queue loses or reorders, no state reported for one port is
\* answered on another.
THEOREM AnswersOfTheOwnPort == Spec => []AnswersAreOwn
<1>1. Init => OwnPads
  <2> SUFFICES ASSUME Init PROVE OwnPads
    OBVIOUS
  <2>1. PadsMatch
    BY IntercoreAssumption DEF Init, Core0QueueInit, PadsMatch, Core0Msgs
  <2>2. QED
    BY <2>1 DEF Init, CommsInit, OwnPads, AnswersAreOwn
<1>2. OwnPads => AnswersAreOwn
  BY DEF OwnPads
<1>3. QED
  BY <1>1, <1>2, OwnPadsStep, Types, PTL DEF Spec

-----------------------------------------------------------------------------
\* The LEDs of a slot no controller is in show nothing.
LedsOfController ==
  \A s \in Slots : leds[s] # NoPort => players[s].connected /\ leds[s] = players[s].gc_port

\* Every step keeps LedsOfController: LEDs are set once for a connection.
LEMMA LedsStep == TypeOK /\ LedsOfController /\ [Next]_vars => LedsOfController'
<1> SUFFICES ASSUME TypeOK, LedsOfController, [Next]_vars PROVE LedsOfController'
  OBVIOUS
<1>1. ASSUME NEW s \in Slots, NEW d \in Devices, NEW p \in Ports, Connect(s, d, p)
      PROVE  LedsOfController'
  <2>1. leds[s] = NoPort
    BY <1>1 DEF Connect, Connected, LedsOfController
  <2>2. leds' = leds /\ \A t \in Slots : t # s => players'[t] = players[t]
    BY <1>1 DEF Connect, my_platform_on_device_connected, TypeOK, PlatformTypeOK
  <2>3. QED
    BY <2>1, <2>2 DEF LedsOfController
<1>2. ASSUME NEW s \in Slots, Disconnect(s) PROVE LedsOfController'
  <2>1. leds' = [leds EXCEPT ![s] = NoPort] /\ \A t \in Slots : t # s => players'[t] = players[t]
    BY <1>2 DEF Disconnect, my_platform_on_device_disconnected, TypeOK, PlatformTypeOK
  <2>2. QED
    BY <2>1 DEF LedsOfController, TypeOK, PlatformTypeOK
<1>3. ASSUME NEW s \in Slots, s \in Connected, LightLeds(s) PROVE LedsOfController'
  <2>1. \A t \in Slots : players'[t].connected = players[t].connected
                         /\ players'[t].gc_port = players[t].gc_port
    BY <1>3, LedTypes DEF TypeOK
  <2>2. leds' = leds \/ leds' = [leds EXCEPT ![s] = players[s].gc_port]
    BY <1>3 DEF LightLeds, LedPort, PortOf
  <2>3. QED
    BY <1>3, <2>1, <2>2 DEF LedsOfController, Connected, TypeOK, PlatformTypeOK
<1>4. ASSUME NEW s \in Slots, Report(s) \/ ReportOther(s) PROVE LedsOfController'
  BY <1>3, <1>4 DEF Report, ReportOther, my_platform_on_controller_data, my_platform_on_other_data
<1>5. ASSUME UNCHANGED <<players, leds>> PROVE LedsOfController'
  BY <1>5 DEF LedsOfController
<1>6. Hook \/ Message \/ Collect \/ RumbleReport \/ UNCHANGED vars => UNCHANGED <<players, leds>>
  BY DEF Hook, my_platform_bt_loop_hook, my_platform_bt_loop_hook_got, my_platform_bt_loop_hook_idle,
         Message, Collect, RumbleReport, vars, platformVars
<1>7. ASSUME NEW p \in Ports, NEW rumble \in BOOLEAN, Poll(p, rumble) PROVE UNCHANGED <<players, leds>>
  BY <1>7 DEF Poll, platformVars
<1>8. QED
  BY <1>1, <1>2, <1>4, <1>5, <1>6, <1>7, EnvironmentAssumption DEF Next

\* The LEDs of a connected controller show no port but the one it drives.
THEOREM LedsOfThePort == Spec => []LedsShowPort
<1>1. Init => LedsOfController
  BY DEF Init, PlatformInit, LedsOfController
<1>2. LedsOfController => LedsShowPort
  BY DEF LedsOfController, LedsShowPort, Connected, PortOf
<1>3. QED
  BY <1>1, <1>2, LedsStep, Types, PTL DEF Spec

-----------------------------------------------------------------------------
\* When the message accepted last is an input, the counter has moved on by one.
CounterMovedOn ==
  core0_last_msg \in Core0Inputs => inputcounter = NextCounter(core0_last_msg.counter)

\* The next counter is another one (CounterMod > 1).
LEMMA CounterMoves ==
  ASSUME NEW c \in Counters PROVE NextCounter(c) # c
<1>1. CounterMod \in Nat /\ CounterMod > 1 /\ c \in Nat /\ c < CounterMod
  BY IntercoreAssumption DEF Counters
<1>2. CASE c + 1 = CounterMod
  BY <1>1, <1>2 DEF NextCounter
<1>3. CASE c + 1 < CounterMod
  BY <1>1, <1>3 DEF NextCounter
<1>4. QED
  BY <1>1, <1>2, <1>3

\* A message sent is the last one, repeated or not.
LEMMA SentLast ==
  ASSUME NEW m, NEW gp, core0_send_message_safe(m, gp)
  PROVE  core0_last_msg' = m
  BY DEF core0_send_message_safe, core0_accept, IsRepeat

\* Every step keeps CounterMovedOn, and a report is accepted.
LEMMA CounterStep ==
  ASSUME TypeOK, Filled0, CounterMovedOn, [Next]_vars
  PROVE  CounterMovedOn' /\ (inputcounter' # inputcounter => core0_last_msg' # core0_last_msg)
<1>1. ASSUME NEW s \in Slots, NEW d \in Devices, NEW p \in Ports, Connect(s, d, p)
      PROVE  core0_last_msg' \notin Core0Inputs /\ UNCHANGED inputcounter
  BY <1>1, SentLast, Messages DEF Connect, my_platform_on_device_connected
<1>2. ASSUME NEW s \in Slots, Disconnect(s)
      PROVE  core0_last_msg' \notin Core0Inputs /\ UNCHANGED inputcounter
  <2>1. PortOf(s) \in Ports
    BY DEF TypeOK, PlatformTypeOK, PlayerRecord, PortOf
  <2>2. QED
    BY <1>2, <2>1, SentLast, Messages DEF Disconnect, my_platform_on_device_disconnected, DisconnectMsg
<1>3. ASSUME NEW s \in Slots, Report(s)
      PROVE  CounterMovedOn' /\ core0_last_msg' # core0_last_msg
  <2>1. PortOf(s) \in Ports /\ inputcounter \in Counters
    BY DEF TypeOK, PlatformTypeOK, PlayerRecord, PortOf
  <2>2. core0_last_msg' = IC_MSG_INPUT(PortOf(s), inputcounter) /\ inputcounter' = NextCounter(inputcounter)
    BY <1>3, SentLast DEF Report, my_platform_on_controller_data
  <2>3. core0_last_msg' \in Core0Inputs /\ core0_last_msg'.counter = inputcounter
    BY <2>1, <2>2, Messages DEF IC_MSG_INPUT
  <2>4. NextCounter(inputcounter) # inputcounter
    BY <2>1, CounterMoves
  <2>5. CounterMovedOn'
    BY <2>2, <2>3 DEF CounterMovedOn, NextCounter
  <2>6. core0_last_msg' # core0_last_msg
    BY <2>3, <2>4 DEF CounterMovedOn
  <2>7. QED
    BY <2>5, <2>6
<1>4. ASSUME UNCHANGED <<inputcounter, core0_last_msg>> PROVE CounterMovedOn'
  BY <1>4 DEF CounterMovedOn, NextCounter
<1>5. ASSUME NEW s \in Slots, ReportOther(s) PROVE UNCHANGED <<inputcounter, core0_last_msg>>
  BY <1>5 DEF ReportOther, my_platform_on_other_data, core0Vars
<1>6. Hook \/ Message \/ Collect \/ RumbleReport \/ UNCHANGED vars
      => UNCHANGED <<inputcounter, core0_last_msg>>
  BY DEF Hook, my_platform_bt_loop_hook, my_platform_bt_loop_hook_got, my_platform_bt_loop_hook_idle,
         Message, comms_task_message, core0_get_message_safe, comms_task_no_message, Collect, RumbleReport,
         vars, platformVars, core0Vars
<1>7. ASSUME NEW p \in Ports, NEW rumble \in BOOLEAN, Poll(p, rumble)
      PROVE  UNCHANGED <<inputcounter, core0_last_msg>>
  BY <1>7 DEF Poll, platformVars, core0Vars
<1>8. CounterMovedOn'
  BY <1>1, <1>2, <1>3, <1>4, <1>5, <1>6, <1>7, EnvironmentAssumption DEF Next, CounterMovedOn
<1>9. inputcounter' # inputcounter => core0_last_msg' # core0_last_msg
  BY <1>1, <1>2, <1>3, <1>5, <1>6, <1>7, EnvironmentAssumption DEF Next
<1>10. QED
  BY <1>8, <1>9

\* A report is never dropped as a repeat of the message before.
THEOREM ReportsAreNoRepeats == Spec => ReportsAreAccepted
<1>1. Init => CounterMovedOn
  BY IntercoreAssumption DEF Init, Core0QueueInit, CounterMovedOn, Core0Msgs
<1>2. TypeOK /\ Filled0 /\ CounterMovedOn /\ [Next]_vars => CounterMovedOn'
  BY CounterStep
<1>3. TypeOK /\ Filled0 /\ CounterMovedOn /\ [Next]_vars
      => [inputcounter' # inputcounter => core0_last_msg' # core0_last_msg]_vars
  BY CounterStep
<1>4. QED
  BY <1>1, <1>2, <1>3, Types, PTL DEF Spec, ReportsAreAccepted

-----------------------------------------------------------------------------
\* As long as core 1 keeps up, at most one message waits, in slot 0, and it
\* says what core 0 believes; none waits only when core 1 knows it.
RumbleOnItsWay ==
  kept_up => /\ Waiting \subseteq {0}
             /\ 0 \in Waiting => core1_queue[0].msg = IC_MSG_RUMBLE(currentrumble)
             /\ 0 \notin Waiting => /\ _rumble_status = currentrumble
                                    /\ core1_queue[0].msg \in {NoMsg, IC_MSG_RUMBLE(currentrumble)}

\* Every step keeps RumbleOnItsWay: bits are in the message before the motors.
LEMMA RumbleStep == TypeOK /\ Filled1 /\ RumbleOnItsWay /\ [Next]_vars => RumbleOnItsWay'
<1> SUFFICES ASSUME TypeOK, Filled1, RumbleOnItsWay, [Next]_vars PROVE RumbleOnItsWay'
  OBVIOUS
<1>1. 0 \in Core1SlotIdx /\ Core1SlotIdx \subseteq Nat
  BY Sizes
<1>2. ASSUME UNCHANGED <<core1_queue, currentrumble, _rumble_status>>, kept_up' => kept_up
      PROVE  RumbleOnItsWay'
  BY <1>2 DEF RumbleOnItsWay, Waiting
<1>3. ASSUME NEW i \in Core1SlotIdx, my_platform_bt_loop_hook_got(i), UNCHANGED <<currentrumble, kept_up>>
      PROVE  RumbleOnItsWay'
  <2> SUFFICES ASSUME kept_up PROVE RumbleOnItsWay'
    BY <1>3 DEF RumbleOnItsWay
  <2>1. i \in Waiting /\ core1_queue' = [core1_queue EXCEPT ![i].ready = FALSE]
        /\ _rumble_status' = core1_queue[i].msg.bits
    BY <1>3 DEF my_platform_bt_loop_hook_got, core1_get_message_safe, FirstWaiting
  <2>2. i = 0 /\ core1_queue[0].msg = IC_MSG_RUMBLE(currentrumble) /\ Waiting = {0}
    BY <2>1 DEF RumbleOnItsWay
  <2>3. Waiting' = {} /\ core1_queue'[0].msg = core1_queue[0].msg
    BY <1>1, <2>1, <2>2 DEF Waiting, TypeOK, Core1QueueTypeOK
  <2>4. _rumble_status' = currentrumble
    BY <2>1, <2>2 DEF IC_MSG_RUMBLE
  <2>5. QED
    BY <1>3, <2>2, <2>3, <2>4 DEF RumbleOnItsWay, IC_MSG_RUMBLE
<1>4. CASE RumbleReport
  <2> SUFFICES ASSUME kept_up' PROVE RumbleOnItsWay'
    BY DEF RumbleOnItsWay
  <2>1. kept_up /\ (currentrumble = Collected \/ Core1Empty) /\ UNCHANGED _rumble_status
        /\ currentrumble' = Collected
    BY <1>4 DEF RumbleReport, platformVars, comms_task_report, Reported
  <2>2. CASE currentrumble = Collected
    BY <1>2, <1>4, <2>1, <2>2 DEF RumbleReport, comms_task_report
  <2>3. CASE currentrumble # Collected
    <3>1. core1_send_message_safe(IC_MSG_RUMBLE(Collected)) /\ Waiting = {}
      BY <1>4, <2>1, <2>3 DEF RumbleReport, comms_task_report, Core1Empty
    <3>2. ~LooksRepeated(IC_MSG_RUMBLE(Collected)) /\ ~Core1Full
      <4>1. Core1Msgs # {} /\ IC_MSG_RUMBLE(Collected) \in Core1Msgs /\ NoMsg \notin Core1Msgs
        BY CollectedBits, RumbleMessage, IntercoreAssumption
      <4>2. core1_queue[0].msg \in {NoMsg, IC_MSG_RUMBLE(currentrumble)}
        BY <2>1, <3>1 DEF RumbleOnItsWay
      <4>3. IC_MSG_RUMBLE(currentrumble) # IC_MSG_RUMBLE(Collected)
        BY <2>3 DEF IC_MSG_RUMBLE
      <4>4. QED
        BY <1>1, <3>1, <4>1, <4>2, <4>3 DEF LooksRepeated, core1_write_idx, Core1Full
    <3>3. PICK i \in Core1SlotIdx : core1_store(i, IC_MSG_RUMBLE(Collected))
      BY <3>1, <3>2 DEF core1_send_message_safe, core1_refuse
    <3>4. i = 0
      BY <1>1, <3>1, <3>3 DEF core1_store, FirstFree, Waiting
    <3>5. Waiting' = {0} /\ core1_queue'[0].msg = IC_MSG_RUMBLE(Collected)
      BY <1>1, <3>1, <3>3, <3>4 DEF core1_store, Waiting, TypeOK, Core1QueueTypeOK
    <3>6. QED
      BY <2>1, <3>5 DEF RumbleOnItsWay, IC_MSG_RUMBLE
  <2>4. QED
    BY <2>2, <2>3
<1>5. CASE Hook
  BY <1>2, <1>3, <1>5 DEF Hook, my_platform_bt_loop_hook, my_platform_bt_loop_hook_idle, commsVars, history
<1>6. ASSUME NEW s \in Slots, NEW d \in Devices, NEW p \in Ports, Connect(s, d, p) PROVE RumbleOnItsWay'
  BY <1>2, <1>6 DEF Connect, my_platform_on_device_connected, commsVars
<1>7. ASSUME NEW s \in Slots, Disconnect(s) \/ Report(s) \/ ReportOther(s) PROVE RumbleOnItsWay'
  BY <1>2, <1>7 DEF Disconnect, my_platform_on_device_disconnected, Report, my_platform_on_controller_data,
                    ReportOther, my_platform_on_other_data, commsVars, history
<1>8. CASE Message \/ Collect \/ UNCHANGED vars
  BY <1>2, <1>8 DEF Message, comms_task_message, comms_task_no_message, Collect, comms_task_collect,
                    vars, platformVars, commsVars, history
<1>9. ASSUME NEW p \in Ports, NEW rumble \in BOOLEAN, Poll(p, rumble) PROVE RumbleOnItsWay'
  BY <1>2, <1>9 DEF Poll, console_poll, platformVars, history
<1>10. QED
  BY <1>4, <1>5, <1>6, <1>7, <1>8, <1>9, EnvironmentAssumption DEF Next

\* As long as core 1 keeps up with the reports, it knows what core 0 believes to
\* have told it whenever nothing waits.
THEOREM RumbleOfTheReport == Spec => []RumbleAgrees
<1>1. Init => RumbleOnItsWay
  BY Sizes DEF Init, Core1QueueInit, PlatformInit, CommsInit, RumbleOnItsWay, Waiting
<1>2. RumbleOnItsWay => RumbleAgrees
  BY DEF RumbleOnItsWay, RumbleAgrees, Core1Empty
<1>3. QED
  BY <1>1, <1>2, RumbleStep, Types, PTL DEF Spec
-----------------------------------------------------------------------------
\* The slots in the order of their age, when the writer is at slot w: j was
\* written before i.
Older(w, j, i) == (j >= w /\ i < w) \/ ((j >= w <=> i >= w) /\ j < i)

\* Slot i holds the youngest waiting message of class K.
YoungestOf(K, i) ==
  /\ core0_queue[i].ready /\ core0_queue[i].msg \in K
  /\ \A j \in SlotIdx \ {i} : core0_queue[j].ready /\ core0_queue[j].msg \in K
                              => Older(core0_write_idx, j, i)
NoneOf(K) == \A i \in SlotIdx : core0_queue[i].ready => core0_queue[i].msg \notin K

\* Moving the write index on makes the slot it left the youngest.
LEMMA WriterIsYoungest ==
  ASSUME NEW w \in SlotIdx, NEW v, v = IF w + 1 = QueueLen THEN 0 ELSE w + 1
  PROVE  /\ \A j \in SlotIdx \ {w} : Older(v, j, w)
         /\ \A i, j \in SlotIdx \ {w} : Older(w, j, i) <=> Older(v, j, i)
<1>1. w \in Nat /\ w < QueueLen /\ QueueLen \in Nat /\ SlotIdx = 0 .. QueueLen - 1
  BY Sizes
<1>2. CASE w + 1 = QueueLen
  BY <1>1, <1>2 DEF Older
<1>3. CASE w + 1 # QueueLen
  BY <1>1, <1>3 DEF Older
<1>4. QED
  BY <1>2, <1>3

\* Accepting a message into a free slot makes it the youngest of its classes
\* and leaves the others in order.
LEMMA AcceptedIsYoungest ==
  ASSUME Core0QueueTypeOK, NEW m \in Core0Msgs, NEW gp \in GamepadStates \cup {NoPad},
         core0_accept(m, gp), ~Laps, NEW K
  PROVE  /\ m \in K => \E i \in SlotIdx :
              YoungestOf(K, i)' /\ core0_queue'[i].msg = m
                /\ (m \in Core0Inputs => core0_queue'[i].gp = gp)
         /\ m \notin K /\ NoneOf(K) => NoneOf(K)'
         /\ m \notin K => \A i \in SlotIdx : YoungestOf(K, i) =>
              YoungestOf(K, i)' /\ core0_queue'[i] = core0_queue[i]
<1> DEFINE w == core0_write_idx
           v == IF w + 1 = QueueLen THEN 0 ELSE w + 1
<1>1. w \in SlotIdx /\ ~core0_queue[w].ready
  BY DEF Core0QueueTypeOK, Laps
<1>2. /\ core0_queue'[w].ready /\ core0_queue'[w].msg = m /\ core0_write_idx' = v
      /\ m \in Core0Inputs => core0_queue'[w].gp = gp
      /\ \A i \in SlotIdx \ {w} : core0_queue'[i] = core0_queue[i]
  BY Accepted
<1>3. /\ \A j \in SlotIdx \ {w} : Older(v, j, w)
      /\ \A i, j \in SlotIdx \ {w} : Older(w, j, i) <=> Older(v, j, i)
  BY <1>1, WriterIsYoungest
<1> HIDE DEF v
<1>4. ASSUME m \in K
      PROVE  \E i \in SlotIdx : YoungestOf(K, i)' /\ core0_queue'[i].msg = m
                                 /\ (m \in Core0Inputs => core0_queue'[i].gp = gp)
  <2>1. PICK i \in SlotIdx : i = w
    BY <1>1
  <2>2. YoungestOf(K, i)'
    BY <1>2, <1>3, <1>4, <2>1 DEF YoungestOf
  <2>3. QED
    BY <1>2, <2>1, <2>2
<1>5. m \notin K /\ NoneOf(K) => NoneOf(K)'
  BY <1>2 DEF NoneOf
<1>6. ASSUME m \notin K, NEW i \in SlotIdx, YoungestOf(K, i)
      PROVE  YoungestOf(K, i)' /\ core0_queue'[i] = core0_queue[i]
  <2>1. i # w
    BY <1>1, <1>6 DEF YoungestOf
  <2>2. QED
    BY <1>1, <1>2, <1>3, <1>6, <2>1 DEF YoungestOf
<1>7. QED
  BY <1>4, <1>5, <1>6

\* The message taken in order is the oldest: no other gets younger or lost.
LEMMA TakenIsOldest ==
  ASSUME Core0QueueTypeOK, NEW i \in SlotIdx, core0_get_message_safe(i), ~Overtakes(i), NEW K
  PROVE  /\ NoneOf(K) => NoneOf(K)'
         /\ YoungestOf(K, i) => NoneOf(K)'
         /\ \A l \in SlotIdx \ {i} : YoungestOf(K, l) =>
              YoungestOf(K, l)' /\ core0_queue'[l] = core0_queue[l]
<1>1. /\ ~core0_queue'[i].ready /\ core0_write_idx' = core0_write_idx
      /\ \A j \in SlotIdx \ {i} : core0_queue'[j] = core0_queue[j]
  BY Got
<1>2. NoneOf(K) => NoneOf(K)'
  BY <1>1 DEF NoneOf
<1>3. ASSUME YoungestOf(K, i), NEW j \in SlotIdx \ {i}, core0_queue[j].ready
      PROVE  core0_queue[j].msg \notin K
  <2>1. i \in Int /\ j \in Int /\ core0_write_idx \in Int /\ i < j
    BY <1>3, Sizes DEF core0_get_message_safe, FirstReady, Core0QueueTypeOK
  <2>2. ~(i < core0_write_idx /\ j >= core0_write_idx)
    BY <1>3 DEF Overtakes
  <2>3. ~Older(core0_write_idx, j, i)
    BY <2>1, <2>2 DEF Older
  <2>4. QED
    BY <1>3, <2>3 DEF YoungestOf
<1>4. YoungestOf(K, i) => NoneOf(K)'
  BY <1>1, <1>3 DEF NoneOf
<1>5. ASSUME NEW l \in SlotIdx \ {i}, YoungestOf(K, l)
      PROVE  YoungestOf(K, l)' /\ core0_queue'[l] = core0_queue[l]
  BY <1>1, <1>5 DEF YoungestOf
<1>6. QED
  BY <1>2, <1>4, <1>5
-----------------------------------------------------------------------------
\* The two messages that switch a port, and what they will have made of it when
\* all that waits is taken.
Switch(p, on) == IF on THEN IC_MSG_CONNECT(p) ELSE IC_MSG_DISCONNECT(p)
Switches(p) == {IC_MSG_CONNECT(p), IC_MSG_DISCONNECT(p)}
WillBe(p, on) ==
  \/ NoneOf(Switches(p)) /\ (p \in gc_connected <=> on)
  \/ \E i \in SlotIdx : YoungestOf(Switches(p), i) /\ core0_queue[i].msg = Switch(p, on)

\* A switch is the connection or disconnection of a port.
LEMMA SwitchMessages ==
  ASSUME NEW p \in Ports, NEW on \in BOOLEAN
  PROVE  /\ Switch(p, on) \in Switches(p) /\ Switch(p, on) \in Core0Msgs
         /\ Switch(p, on).port = p /\ Switch(p, on).id = IF on THEN "CONNECT" ELSE "DISCONNECT"
         /\ \A m \in Core0Msgs : m.id # "INPUT" /\ m.port = p => m \in Switches(p)
         /\ \A m \in Switches(p) : m.id # "INPUT" /\ m.port = p
<1>1. /\ IC_MSG_CONNECT(p).id = "CONNECT" /\ IC_MSG_CONNECT(p).port = p
      /\ IC_MSG_DISCONNECT(p).id = "DISCONNECT" /\ IC_MSG_DISCONNECT(p).port = p
  BY DEF IC_MSG_CONNECT, IC_MSG_DISCONNECT
<1>2. \A m \in Switches(p) : m.id # "INPUT" /\ m.port = p
  BY <1>1 DEF Switches
<1>3. ASSUME NEW m \in Core0Msgs, m.id # "INPUT", m.port = p PROVE m \in Switches(p)
  <2>1. m \notin Core0Inputs
    BY <1>3, Inputs
  <2>2. PICK q \in Ports : m = IC_MSG_CONNECT(q) \/ m = IC_MSG_DISCONNECT(q)
    BY <2>1 DEF Core0Msgs
  <2>3. q = p
    BY <1>3, <2>2 DEF IC_MSG_CONNECT, IC_MSG_DISCONNECT
  <2>4. QED
    BY <2>2, <2>3 DEF Switches
<1>4. QED
  BY <1>1, <1>2, <1>3, Messages DEF Switch, Switches

\* A switch that is accepted decides what its port will be.
LEMMA SendSwitches ==
  ASSUME Core0QueueTypeOK, NEW m \in Core0Msgs, NEW gp \in GamepadStates \cup {NoPad},
         core0_accept(m, gp), ~Laps, UNCHANGED gc_connected, NEW p \in Ports, NEW on \in BOOLEAN
  PROVE  /\ m = Switch(p, on) => WillBe(p, on)'
         /\ m \notin Switches(p) /\ WillBe(p, on) => WillBe(p, on)'
<1>1. ASSUME m = Switch(p, on) PROVE WillBe(p, on)'
  <2>1. m \in Switches(p)
    BY <1>1, SwitchMessages
  <2>2. \E i \in SlotIdx : YoungestOf(Switches(p), i)' /\ core0_queue'[i].msg = m
    BY <2>1, AcceptedIsYoungest
  <2>3. QED
    BY <1>1, <2>2 DEF WillBe, Switch, IC_MSG_CONNECT, IC_MSG_DISCONNECT
<1>2. ASSUME m \notin Switches(p), WillBe(p, on) PROVE WillBe(p, on)'
  <2>1. CASE NoneOf(Switches(p)) /\ (p \in gc_connected <=> on)
    <3>1. NoneOf(Switches(p))'
      BY <1>2, <2>1, AcceptedIsYoungest
    <3>2. QED
      BY <2>1, <3>1 DEF WillBe
  <2>2. CASE \E i \in SlotIdx : YoungestOf(Switches(p), i) /\ core0_queue[i].msg = Switch(p, on)
    <3>1. PICK i \in SlotIdx : YoungestOf(Switches(p), i) /\ core0_queue[i].msg = Switch(p, on)
      BY <2>2
    <3>2. YoungestOf(Switches(p), i)' /\ core0_queue'[i].msg = Switch(p, on)
      BY <1>2, <3>1, AcceptedIsYoungest
    <3>3. QED
      BY <3>2 DEF WillBe, Switch, IC_MSG_CONNECT, IC_MSG_DISCONNECT
  <2>3. QED
    BY <1>2, <2>1, <2>2 DEF WillBe
<1>3. QED
  BY <1>1, <1>2

\* What core 0 does with the message it takes.
LEMMA Dispatched ==
  ASSUME TypeOK, Filled0, NEW i \in SlotIdx, comms_task_message(i)
  PROVE  LET m == core0_queue[i].msg
         IN  /\ core0_get_message_safe(i) /\ m \in Core0Msgs
             /\ gc_connected' = CASE m.id = "CONNECT" -> gc_connected \cup {m.port}
                                  [] m.id = "DISCONNECT" -> gc_connected \ {m.port}
                                  [] m.id = "INPUT" -> gc_connected
             /\ _out_buffer' = IF m.id = "INPUT"
                               THEN [_out_buffer EXCEPT ![m.port] = core0_queue[i].gp]
                               ELSE _out_buffer
<1>1. core0_get_message_safe(i) /\ core0_queue[i].msg \in Core0Msgs
      /\ core0msg' = CopiedOut(core0msg, i) /\ Dispatch(core0msg')
  BY DEF comms_task_message, core0_get_message_safe, FirstReady, Filled0
<1>2. core0msg'.msg = core0_queue[i].msg
      /\ (core0_queue[i].msg.id = "INPUT" => core0msg'.gp = core0_queue[i].gp)
  BY <1>1, Inputs DEF CopiedOut
<1>3. core0_queue[i].msg.id \in {"CONNECT", "DISCONNECT", "INPUT"}
  BY <1>1, Inputs
<1>4. QED
  BY <1>1, <1>2, <1>3 DEF Dispatch, _message_handle_connect, _message_handle_input

\* Taking a message leaves undecided ports as they are; taking the last switch
\* of a port makes the port what it will be.
LEMMA TakeSwitches ==
  ASSUME TypeOK, Filled0, NEW i \in SlotIdx, comms_task_message(i), ~Overtakes(i),
         NEW p \in Ports, NEW on \in BOOLEAN, WillBe(p, on)
  PROVE  WillBe(p, on)'
<1> DEFINE m == core0_queue[i].msg
<1>1. /\ core0_get_message_safe(i) /\ m \in Core0Msgs /\ core0_queue[i].ready /\ Core0QueueTypeOK
      /\ m.id \in {"CONNECT", "DISCONNECT", "INPUT"}
  BY Dispatched, Inputs DEF core0_get_message_safe, FirstReady, TypeOK
<1>2. gc_connected' = CASE m.id = "CONNECT" -> gc_connected \cup {m.port}
                        [] m.id = "DISCONNECT" -> gc_connected \ {m.port}
                        [] m.id = "INPUT" -> gc_connected
  BY Dispatched
<1>3. m.id # "INPUT" /\ m.port = p => m \in Switches(p)
  BY <1>1, SwitchMessages
<1>4. CASE NoneOf(Switches(p)) /\ (p \in gc_connected <=> on)
  <2>1. NoneOf(Switches(p))'
    BY <1>1, <1>4, TakenIsOldest
  <2>2. m \notin Switches(p)
    BY <1>1, <1>4 DEF NoneOf
  <2>3. p \in gc_connected' <=> p \in gc_connected
    BY <1>1, <1>2, <1>3, <2>2
  <2>4. QED
    BY <1>4, <2>1, <2>3 DEF WillBe
<1>5. ASSUME NEW l \in SlotIdx, YoungestOf(Switches(p), l), core0_queue[l].msg = Switch(p, on), l # i
      PROVE  WillBe(p, on)'
  <2>1. YoungestOf(Switches(p), l)' /\ core0_queue'[l].msg = Switch(p, on)
    BY <1>1, <1>5, TakenIsOldest
  <2>2. QED
    BY <2>1 DEF WillBe, Switch, IC_MSG_CONNECT, IC_MSG_DISCONNECT
<1>6. ASSUME YoungestOf(Switches(p), i), m = Switch(p, on) PROVE WillBe(p, on)'
  <2>1. NoneOf(Switches(p))'
    BY <1>1, <1>6, TakenIsOldest
  <2>2. m.port = p /\ m.id = IF on THEN "CONNECT" ELSE "DISCONNECT"
    BY <1>6, SwitchMessages
  <2>3. p \in gc_connected' <=> on
    BY <1>2, <2>2
  <2>4. QED
    BY <2>1, <2>3 DEF WillBe
<1>7. QED
  BY <1>4, <1>5, <1>6 DEF WillBe

\* A send that keeps the order, dropped as a repeat or not.
LEMMA OrderlySend ==
  ASSUME TypeOK, NEW m \in Core0Msgs, NEW gp \in GamepadStates \cup {NoPad},
         core0_send_message_safe(m, gp), SendKeepsOrder, orderly'
  PROVE  /\ orderly /\ core0_last_msg' = m
         /\ \/ core0_last_msg = m /\ UNCHANGED core0Vars
            \/ core0_accept(m, gp) /\ ~Laps
<1>1. core0_accept(m, gp) => core0Vars' # core0Vars
  BY Accepted DEF TypeOK, core0Vars
<1>2. QED
  BY <1>1, SentLast DEF SendKeepsOrder, core0_send_message_safe, IsRepeat, core0Vars

\* With queue and ports unchanged, what a port will be is unchanged.
LEMMA WillBeKept ==
  ASSUME UNCHANGED <<core0Vars, gc_connected>>, NEW p \in Ports, NEW on \in BOOLEAN, WillBe(p, on)
  PROVE  WillBe(p, on)'
  BY DEF WillBe, core0Vars, YoungestOf, NoneOf, Switch, Switches, IC_MSG_CONNECT, IC_MSG_DISCONNECT

\* The same as SendSwitches for a send that may be dropped as a repeat.
LEMMA OrderlySwitch ==
  ASSUME TypeOK, NEW m \in Core0Msgs, NEW gp \in GamepadStates \cup {NoPad},
         core0_send_message_safe(m, gp), SendKeepsOrder, orderly', UNCHANGED gc_connected,
         NEW p \in Ports, NEW on \in BOOLEAN
  PROVE  /\ m = Switch(p, on) /\ (core0_last_msg = m => WillBe(p, on)) => WillBe(p, on)'
         /\ m \notin Switches(p) /\ WillBe(p, on) => WillBe(p, on)'
<1>1. CASE core0_last_msg = m /\ UNCHANGED core0Vars
  BY <1>1, WillBeKept
<1>2. CASE core0_accept(m, gp) /\ ~Laps
  BY <1>2, SendSwitches DEF TypeOK
<1>3. QED
  BY <1>1, <1>2, OrderlySend

\* The callbacks of core 1, as sends.
LEMMA ConnectSends ==
  ASSUME TypeOK, NEW s \in Slots, NEW d \in Devices, NEW p \in Ports, Connect(s, d, p)
  PROVE  /\ IC_MSG_CONNECT(p) \in Core0Msgs /\ IC_MSG_CONNECT(p) = Switch(p, TRUE)
         /\ core0_send_message_safe(IC_MSG_CONNECT(p), NoPad) /\ SendKeepsOrder
         /\ UNCHANGED <<gc_connected, _out_buffer, last_input, inputcounter>>
         /\ players'[s].connected /\ players'[s].gc_port = p /\ ~players[s].connected
         /\ \A t \in Slots \ {s} : players'[t] = players[t]
         /\ alone' = (alone /\ \A t \in Slots : players[t].connected => players[t].gc_port # p)
<1>1. players' = [players EXCEPT ![s] = [connected |-> TRUE, led_set |-> FALSE,
                                         device_ptr |-> d, gc_port |-> p]]
  BY DEF Connect, my_platform_on_device_connected
<1>2. /\ players'[s].connected /\ players'[s].gc_port = p /\ ~players[s].connected
      /\ \A t \in Slots \ {s} : players'[t] = players[t]
  BY <1>1 DEF TypeOK, PlatformTypeOK, Connect, Connected
<1>3. alone' = (alone /\ \A t \in Slots : players[t].connected => players[t].gc_port # p)
  BY DEF Connect, Connected, PortOf
<1>4. QED
  BY <1>2, <1>3, Messages DEF Switch, Connect, my_platform_on_device_connected, commsVars

\* A disconnection sends the switch of its port.
LEMMA DisconnectSends ==
  ASSUME TypeOK, NEW s \in Slots, Disconnect(s), NEW p, p = players[s].gc_port
  PROVE  /\ p \in Ports /\ IC_MSG_DISCONNECT(p) \in Core0Msgs
         /\ IC_MSG_DISCONNECT(p) = Switch(p, FALSE)
         /\ core0_send_message_safe(IC_MSG_DISCONNECT(p), NoPad) /\ SendKeepsOrder
         /\ UNCHANGED <<gc_connected, _out_buffer, last_input, alone, inputcounter>>
         /\ players[s].connected /\ ~players'[s].connected
         /\ \A t \in Slots \ {s} : players'[t] = players[t]
<1>1. p \in Ports
  BY DEF TypeOK, PlatformTypeOK, PlayerRecord
<1>2. players' = [players EXCEPT ![s].connected = FALSE, ![s].led_set = FALSE,
                                 ![s].device_ptr = NoDevice]
  BY DEF Disconnect, my_platform_on_device_disconnected
<1>3. /\ players[s].connected /\ ~players'[s].connected
      /\ \A t \in Slots \ {s} : players'[t] = players[t]
  BY <1>2 DEF TypeOK, PlatformTypeOK, PlayerRecord, Disconnect, Connected
<1>4. core0_send_message_safe(IC_MSG_DISCONNECT(p), NoPad)
  BY DEF Disconnect, my_platform_on_device_disconnected, DisconnectMsg, PortOf
<1>5. QED
  BY <1>1, <1>3, <1>4, Messages DEF Switch, Disconnect, my_platform_on_device_disconnected, commsVars

\* A report sends its counter and the state of the controller.
LEMMA ReportSends ==
  ASSUME TypeOK, NEW s \in Slots, Report(s), NEW p, p = players[s].gc_port,
         NEW m, m = IC_MSG_INPUT(p, inputcounter),
         NEW gp, gp = [port |-> p, counter |-> inputcounter]
  PROVE  /\ p \in Ports /\ m \in Core0Msgs /\ m \in Core0Inputs /\ gp \in GamepadStates
         /\ m.id = "INPUT" /\ m.port = p
         /\ core0_send_message_safe(m, gp) /\ SendKeepsOrder
         /\ UNCHANGED <<gc_connected, _out_buffer, alone>>
         /\ last_input' = [last_input EXCEPT ![p] = gp]
         /\ \A t \in Slots : players'[t].connected = players[t].connected
                             /\ players'[t].gc_port = players[t].gc_port
<1>1. p \in Ports /\ inputcounter \in Counters
  BY DEF TypeOK, PlatformTypeOK, PlayerRecord
<1>2. m \in Core0Inputs /\ m \in Core0Msgs /\ gp \in GamepadStates /\ m.id = "INPUT" /\ m.port = p
  BY <1>1, Messages DEF Core0Msgs, GamepadStates, IC_MSG_INPUT
<1>3. core0_send_message_safe(m, gp)
  BY DEF Report, my_platform_on_controller_data, PortOf
<1>4. \A t \in Slots : players'[t].connected = players[t].connected
                       /\ players'[t].gc_port = players[t].gc_port
  BY LedTypes DEF Report, my_platform_on_controller_data, TypeOK
<1>5. QED
  BY <1>1, <1>2, <1>3, <1>4 DEF Report, commsVars, PortOf

\* The steps that send nothing and take nothing.
LEMMA OtherSteps ==
  ASSUME TypeOK,
         \/ \E s \in Slots : ReportOther(s)
         \/ Hook \/ (comms_task_no_message /\ Message /\ UNCHANGED orderly)
         \/ Collect \/ RumbleReport \/ UNCHANGED vars
         \/ \E p \in Ports, rumble \in BOOLEAN : Poll(p, rumble)
  PROVE  /\ UNCHANGED <<core0Vars, gc_connected, _out_buffer, orderly, alone, last_input, inputcounter>>
         /\ \A t \in Slots : players'[t].connected = players[t].connected
                             /\ players'[t].gc_port = players[t].gc_port
<1>1. ASSUME NEW s \in Slots, ReportOther(s)
      PROVE  /\ UNCHANGED <<core0Vars, gc_connected, _out_buffer, orderly, alone, last_input, inputcounter>>
             /\ \A t \in Slots : players'[t].connected = players[t].connected
                                 /\ players'[t].gc_port = players[t].gc_port
  BY <1>1, LedTypes DEF ReportOther, my_platform_on_other_data, TypeOK, commsVars, history
<1>2. ASSUME Hook \/ (comms_task_no_message /\ Message /\ UNCHANGED orderly)
               \/ Collect \/ RumbleReport \/ UNCHANGED vars
      PROVE  UNCHANGED <<core0Vars, gc_connected, _out_buffer, orderly, alone, last_input,
                         inputcounter, players>>
  BY <1>2 DEF Hook, my_platform_bt_loop_hook, my_platform_bt_loop_hook_got, my_platform_bt_loop_hook_idle,
         comms_task_no_message, Message, Collect, comms_task_collect, RumbleReport, comms_task_report,
         vars, platformVars, commsVars, history
<1>3. ASSUME NEW p \in Ports, NEW rumble \in BOOLEAN, Poll(p, rumble)
      PROVE  UNCHANGED <<core0Vars, gc_connected, _out_buffer, orderly, alone, last_input,
                         inputcounter, players>>
  BY <1>3 DEF Poll, console_poll, platformVars, history
<1>4. QED
  BY <1>1, <1>2, <1>3

\* The steps of the system, by what they do to the queue to core 0.
LEMMA StepCases ==
  ASSUME [Next]_vars
  PROVE  \/ \E s \in Slots, d \in Devices, p \in Ports : Connect(s, d, p)
         \/ \E s \in Slots : Disconnect(s)
         \/ \E s \in Slots : Report(s)
         \/ \E i \in SlotIdx : comms_task_message(i) /\ Message /\ orderly' = (orderly /\ ~Overtakes(i))
         \/ \/ \E s \in Slots : ReportOther(s)
            \/ Hook \/ (comms_task_no_message /\ Message /\ UNCHANGED orderly)
            \/ Collect \/ RumbleReport \/ UNCHANGED vars
            \/ \E p \in Ports, rumble \in BOOLEAN : Poll(p, rumble)
<1>1. CASE Message
  BY <1>1 DEF Message
<1>2. QED
  BY <1>1, EnvironmentAssumption DEF Next

\* As long as the order is kept: a port without a controller is off when all
\* that waits is taken, and so is one that a message switched off last.
LeftIsOff ==
  orderly => \A p \in Ports :
    /\ (\A s \in Slots : players[s].connected => players[s].gc_port # p) => WillBe(p, FALSE)
    /\ core0_last_msg = IC_MSG_DISCONNECT(p) => WillBe(p, FALSE)

\* As long as no two controllers ever shared a port either: a port with a
\* controller is on when all that waits is taken, and so is one that a message
\* switched on last.
DrivenIsOn ==
  orderly /\ alone =>
    /\ \A s, t \in Slots : players[s].connected /\ players[t].connected
                           /\ players[s].gc_port = players[t].gc_port => s = t
    /\ \A s \in Slots : players[s].connected => WillBe(players[s].gc_port, TRUE)
    /\ \A p \in Ports : core0_last_msg = IC_MSG_CONNECT(p) => WillBe(p, TRUE)

\* Switches differ by port and direction.
LEMMA SwitchIsDistinct ==
  ASSUME NEW p \in Ports, NEW q \in Ports
  PROVE  /\ IC_MSG_CONNECT(p) # IC_MSG_DISCONNECT(q)
         /\ IC_MSG_CONNECT(p) = IC_MSG_CONNECT(q) => p = q
         /\ IC_MSG_DISCONNECT(p) = IC_MSG_DISCONNECT(q) => p = q
         /\ p # q => IC_MSG_CONNECT(p) \notin Switches(q) /\ IC_MSG_DISCONNECT(p) \notin Switches(q)
  BY DEF IC_MSG_CONNECT, IC_MSG_DISCONNECT, Switches

\* No switch is an input.
LEMMA SwitchIsNoInput ==
  ASSUME NEW p \in Ports, NEW m \in Switches(p) PROVE m.id # "INPUT"
  BY DEF IC_MSG_CONNECT, IC_MSG_DISCONNECT, Switches

\* Every step keeps LeftIsOff.
LEMMA LeftIsOffStep == TypeOK /\ Filled0 /\ LeftIsOff /\ [Next]_vars => LeftIsOff'
<1> SUFFICES ASSUME TypeOK, Filled0, LeftIsOff, [Next]_vars, orderly', NEW p \in Ports
             PROVE  /\ (\A s \in Slots : players'[s].connected => players'[s].gc_port # p)
                         => WillBe(p, FALSE)'
                    /\ core0_last_msg' = IC_MSG_DISCONNECT(p) => WillBe(p, FALSE)'
  BY DEF LeftIsOff, IC_MSG_DISCONNECT
<1> DEFINE Left == \A s \in Slots : players[s].connected => players[s].gc_port # p
<1>1. ASSUME NEW s \in Slots, NEW d \in Devices, NEW q \in Ports, Connect(s, d, q)
      PROVE  /\ Left' => WillBe(p, FALSE)'
             /\ core0_last_msg' = IC_MSG_DISCONNECT(p) => WillBe(p, FALSE)'
  <2>1. orderly /\ core0_last_msg' = IC_MSG_CONNECT(q)
    BY <1>1, ConnectSends, OrderlySend
  <2>2. Left' => Left /\ q # p
    BY <1>1, ConnectSends
  <2>3. Left' => WillBe(p, FALSE)'
    BY <1>1, <2>1, <2>2, ConnectSends, OrderlySwitch, SwitchIsDistinct DEF LeftIsOff
  <2>4. QED
    BY <2>1, <2>3, SwitchIsDistinct
<1>2. ASSUME NEW s \in Slots, Disconnect(s)
      PROVE  /\ Left' => WillBe(p, FALSE)'
             /\ core0_last_msg' = IC_MSG_DISCONNECT(p) => WillBe(p, FALSE)'
  <2>1. PICK q \in Ports : q = players[s].gc_port
    BY <1>2, DisconnectSends
  <2>2. orderly /\ core0_last_msg' = IC_MSG_DISCONNECT(q)
    BY <1>2, <2>1, DisconnectSends, OrderlySend
  <2>3. CASE q = p
    BY <1>2, <2>1, <2>2, <2>3, DisconnectSends, OrderlySwitch DEF LeftIsOff
  <2>4. CASE q # p
    <3>1. Left' => Left
      BY <1>2, <2>1, <2>4, DisconnectSends
    <3>2. Left' => WillBe(p, FALSE)'
      BY <1>2, <2>1, <2>2, <2>4, <3>1, DisconnectSends, OrderlySwitch, SwitchIsDistinct DEF LeftIsOff
    <3>3. QED
      BY <2>2, <2>4, <3>2, SwitchIsDistinct
  <2>5. QED
    BY <2>3, <2>4
<1>3. ASSUME NEW s \in Slots, Report(s)
      PROVE  /\ Left' => WillBe(p, FALSE)'
             /\ core0_last_msg' = IC_MSG_DISCONNECT(p) => WillBe(p, FALSE)'
  <2>1. PICK q \in Ports : q = players[s].gc_port
    BY <1>3, ReportSends
  <2> DEFINE m == IC_MSG_INPUT(q, inputcounter)
             gp == [port |-> q, counter |-> inputcounter]
  <2>2. /\ m \in Core0Msgs /\ gp \in GamepadStates /\ m.id = "INPUT"
        /\ core0_send_message_safe(m, gp) /\ SendKeepsOrder /\ UNCHANGED gc_connected
        /\ Left' <=> Left
    BY <1>3, <2>1, ReportSends
  <2> HIDE DEF m, gp
  <2>3. orderly /\ core0_last_msg' = m /\ m \notin Switches(p) /\ m # IC_MSG_DISCONNECT(p)
    <3>1. m \notin Switches(p)
      BY <2>2, SwitchIsNoInput
    <3>2. orderly /\ core0_last_msg' = m
      BY <2>2, OrderlySend
    <3>3. QED
      BY <3>1, <3>2 DEF Switches
  <2>4. WillBe(p, FALSE) => WillBe(p, FALSE)'
    BY <2>2, <2>3, OrderlySwitch
  <2>5. QED
    BY <2>2, <2>3, <2>4 DEF LeftIsOff
<1>4. ASSUME NEW i \in SlotIdx, comms_task_message(i), Message, orderly' = (orderly /\ ~Overtakes(i))
      PROVE  /\ Left' => WillBe(p, FALSE)'
             /\ core0_last_msg' = IC_MSG_DISCONNECT(p) => WillBe(p, FALSE)'
  <2>1. WillBe(p, FALSE) => WillBe(p, FALSE)'
    BY <1>4, TakeSwitches
  <2>2. players' = players /\ core0_last_msg' = core0_last_msg /\ orderly
    BY <1>4 DEF Message, platformVars, comms_task_message, core0_get_message_safe
  <2>3. QED
    BY <2>1, <2>2 DEF LeftIsOff
<1>5. ASSUME \/ \E s \in Slots : ReportOther(s)
             \/ Hook \/ (comms_task_no_message /\ Message /\ UNCHANGED orderly)
             \/ Collect \/ RumbleReport \/ UNCHANGED vars
             \/ \E q \in Ports, rumble \in BOOLEAN : Poll(q, rumble)
      PROVE  /\ Left' => WillBe(p, FALSE)'
             /\ core0_last_msg' = IC_MSG_DISCONNECT(p) => WillBe(p, FALSE)'
  <2>1. UNCHANGED <<core0Vars, gc_connected, orderly>> /\ (Left' <=> Left)
    BY <1>5, OtherSteps
  <2>2. QED
    BY <2>1, WillBeKept DEF LeftIsOff, core0Vars
<1>6. QED
  BY <1>1, <1>2, <1>3, <1>4, <1>5, StepCases

\* At first nothing waits, and every port is off.
LEMMA StartsEmpty ==
  ASSUME Init, NEW K PROVE NoneOf(K)
  BY DEF Init, Core0QueueInit, NoneOf

LEMMA StartsOff == Init => \A p \in Ports : WillBe(p, FALSE)
  BY StartsEmpty DEF Init, CommsInit, WillBe

\* As long as messages are neither lost nor overtaken, a port that is on has a
\* controller, or a message that switches it off waits.
THEOREM NoPhantoms == Spec => []NoPhantomController
<1>1. Init => LeftIsOff
  BY StartsOff DEF LeftIsOff
<1>2. TypeOK /\ LeftIsOff => NoPhantomController
  <2> SUFFICES ASSUME TypeOK, LeftIsOff, orderly, NEW p \in gc_connected,
                      \A s \in Connected : PortOf(s) # p
               PROVE  Queued(IC_MSG_DISCONNECT(p))
    BY DEF NoPhantomController
  <2>1. p \in Ports /\ WillBe(p, FALSE)
    BY DEF TypeOK, CommsTypeOK, LeftIsOff, Connected, PortOf
  <2>2. QED
    BY <2>1 DEF WillBe, YoungestOf, Queued, Switch
<1>3. QED
  BY <1>1, <1>2, LeftIsOffStep, Types, PTL DEF Spec

\* Every step keeps DrivenIsOn; only while no port is shared.
LEMMA DrivenIsOnStep == TypeOK /\ Filled0 /\ DrivenIsOn /\ [Next]_vars => DrivenIsOn'
<1> DEFINE Apart == \A s, t \in Slots : players[s].connected /\ players[t].connected
                      /\ players[s].gc_port = players[t].gc_port => s = t
           Driven == \A s \in Slots : players[s].connected => WillBe(players[s].gc_port, TRUE)
           Asked == \A p \in Ports : core0_last_msg = IC_MSG_CONNECT(p) => WillBe(p, TRUE)
<1>1. ASSUME UNCHANGED alone, orderly' => orderly,
             \A t \in Slots : players'[t].connected = players[t].connected
                             /\ players'[t].gc_port = players[t].gc_port,
             orderly' => \A p \in Ports : WillBe(p, TRUE) => WillBe(p, TRUE)',
             orderly' => \A p \in Ports : core0_last_msg' # IC_MSG_CONNECT(p)
                                          \/ core0_last_msg' = core0_last_msg,
             TypeOK, DrivenIsOn
      PROVE  DrivenIsOn'
  <2> SUFFICES ASSUME orderly', alone' PROVE Apart' /\ Driven' /\ Asked'
    BY DEF DrivenIsOn, IC_MSG_CONNECT
  <2>1. Apart /\ Driven /\ Asked
    BY <1>1 DEF DrivenIsOn
  <2>2. Apart'
    BY <1>1, <2>1
  <2>3. ASSUME NEW s \in Slots, players'[s].connected PROVE WillBe(players[s].gc_port, TRUE)'
    <3>1. players[s].gc_port \in Ports
      BY <1>1 DEF TypeOK, PlatformTypeOK, PlayerRecord
    <3>2. WillBe(players[s].gc_port, TRUE)
      BY <1>1, <2>1, <2>3
    <3>3. QED
      BY <1>1, <3>1, <3>2
  <2>4. QED
    BY <1>1, <2>1, <2>2, <2>3
<1>2. ASSUME TypeOK, DrivenIsOn, NEW s \in Slots, NEW d \in Devices, NEW p \in Ports, Connect(s, d, p)
      PROVE  DrivenIsOn'
  <2> SUFFICES ASSUME orderly', alone' PROVE Apart' /\ Driven' /\ Asked'
    BY DEF DrivenIsOn, IC_MSG_CONNECT
  <2>1. /\ core0_last_msg' = IC_MSG_CONNECT(p) /\ orderly /\ alone
        /\ \A t \in Slots : players[t].connected => players[t].gc_port # p
        /\ players'[s].gc_port = p /\ \A t \in Slots \ {s} : players'[t] = players[t]
    BY <1>2, ConnectSends, OrderlySend
  <2>2. Apart /\ Driven /\ Asked
    BY <1>2, <2>1 DEF DrivenIsOn
  <2>3. WillBe(p, TRUE)'
    BY <1>2, <2>2, ConnectSends, OrderlySwitch
  <2>4. \A q \in Ports : q # p /\ WillBe(q, TRUE) => WillBe(q, TRUE)'
    BY <1>2, ConnectSends, OrderlySwitch, SwitchIsDistinct
  <2>5. \A t \in Slots : players[t].gc_port \in Ports
    BY <1>2 DEF TypeOK, PlatformTypeOK, PlayerRecord
  <2>6. Apart'
    BY <2>1, <2>2
  <2>7. ASSUME NEW t \in Slots, players'[t].connected, NEW q \in Ports, q = players'[t].gc_port
        PROVE  WillBe(q, TRUE)'
    BY <2>1, <2>2, <2>3, <2>4, <2>7
  <2>8. Driven'
    BY <2>1, <2>5, <2>7
  <2>9. Asked'
    BY <2>1, <2>3, SwitchIsDistinct
  <2>10. QED
    BY <2>6, <2>8, <2>9
<1>3. ASSUME TypeOK, DrivenIsOn, NEW s \in Slots, Disconnect(s) PROVE DrivenIsOn'
  <2> SUFFICES ASSUME orderly', alone' PROVE Apart' /\ Driven' /\ Asked'
    BY DEF DrivenIsOn, IC_MSG_CONNECT
  <2>1. PICK p \in Ports : p = players[s].gc_port
    BY <1>3, DisconnectSends
  <2>2. /\ core0_last_msg' = IC_MSG_DISCONNECT(p) /\ orderly /\ alone
        /\ players[s].connected /\ ~players'[s].connected
        /\ \A t \in Slots \ {s} : players'[t] = players[t]
    BY <1>3, <2>1, DisconnectSends, OrderlySend
  <2>3. Apart /\ Driven /\ Asked
    BY <1>3, <2>2 DEF DrivenIsOn
  <2>4. \A q \in Ports : q # p /\ WillBe(q, TRUE) => WillBe(q, TRUE)'
    BY <1>3, <2>1, DisconnectSends, OrderlySwitch, SwitchIsDistinct
  <2>5. \A t \in Slots : players[t].gc_port \in Ports
    BY <1>3 DEF TypeOK, PlatformTypeOK, PlayerRecord
  <2>6. Apart'
    BY <2>2, <2>3
  <2>7. ASSUME NEW t \in Slots, players'[t].connected, NEW q \in Ports, q = players'[t].gc_port
        PROVE  WillBe(q, TRUE)'
    <3>1. t # s /\ q = players[t].gc_port /\ players[t].connected
      BY <2>2, <2>7
    <3>2. q # p /\ WillBe(q, TRUE)
      BY <2>1, <2>2, <2>3, <3>1
    <3>3. QED
      BY <2>4, <3>2
  <2>8. Driven'
    BY <2>2, <2>5, <2>7
  <2>9. Asked'
    BY <2>2, SwitchIsDistinct
  <2>10. QED
    BY <2>6, <2>8, <2>9
<1>4. ASSUME TypeOK, DrivenIsOn, NEW s \in Slots, Report(s) PROVE DrivenIsOn'
  <2>1. PICK q \in Ports : q = players[s].gc_port
    BY <1>4, ReportSends
  <2> DEFINE m == IC_MSG_INPUT(q, inputcounter)
             gp == [port |-> q, counter |-> inputcounter]
  <2>2. /\ m \in Core0Msgs /\ gp \in GamepadStates /\ m.id = "INPUT"
        /\ core0_send_message_safe(m, gp) /\ SendKeepsOrder /\ UNCHANGED <<gc_connected, alone>>
        /\ \A t \in Slots : players'[t].connected = players[t].connected
                             /\ players'[t].gc_port = players[t].gc_port
    BY <1>4, <2>1, ReportSends
  <2> HIDE DEF m, gp
  <2>3. ASSUME NEW p \in Ports PROVE m \notin Switches(p)
    BY <2>2, SwitchIsNoInput
  <2>4. orderly' => orderly /\ core0_last_msg' = m
    BY <1>4, <2>2, OrderlySend
  <2>5. orderly' => \A p \in Ports : WillBe(p, TRUE) => WillBe(p, TRUE)'
    BY <1>4, <2>2, <2>3, OrderlySwitch
  <2>6. orderly' => \A p \in Ports : core0_last_msg' # IC_MSG_CONNECT(p)
    BY <2>3, <2>4 DEF Switches
  <2>7. QED
    BY <1>1, <1>4, <2>2, <2>4, <2>5, <2>6
<1>5. ASSUME TypeOK, Filled0, DrivenIsOn, NEW i \in SlotIdx, comms_task_message(i), Message,
             orderly' = (orderly /\ ~Overtakes(i))
      PROVE  DrivenIsOn'
  <2>1. orderly' => \A p \in Ports : WillBe(p, TRUE) => WillBe(p, TRUE)'
    BY <1>5, TakeSwitches
  <2>2. UNCHANGED <<players, core0_last_msg, alone>> /\ (orderly' => orderly)
    BY <1>5 DEF Message, platformVars, comms_task_message, core0_get_message_safe
  <2>3. QED
    BY <1>1, <1>5, <2>1, <2>2
<1>6. ASSUME TypeOK, DrivenIsOn,
             \/ \E s \in Slots : ReportOther(s)
             \/ Hook \/ (comms_task_no_message /\ Message /\ UNCHANGED orderly)
             \/ Collect \/ RumbleReport \/ UNCHANGED vars
             \/ \E q \in Ports, rumble \in BOOLEAN : Poll(q, rumble)
      PROVE  DrivenIsOn'
  <2>1. /\ UNCHANGED <<core0Vars, gc_connected, orderly, alone>>
        /\ \A t \in Slots : players'[t].connected = players[t].connected
                             /\ players'[t].gc_port = players[t].gc_port
    BY <1>6, OtherSteps
  <2>2. \A p \in Ports : WillBe(p, TRUE) => WillBe(p, TRUE)'
    BY <2>1, WillBeKept
  <2>3. core0_last_msg' = core0_last_msg
    BY <2>1 DEF core0Vars
  <2>4. QED
    BY <1>1, <1>6, <2>1, <2>2, <2>3
<1>7. QED
  BY <1>2, <1>3, <1>4, <1>5, <1>6, StepCases

\* As long as the order is kept and no two controllers ever shared a port, the
\* port of a controller is on, or a message that switches it on waits.
THEOREM OwnPorts == Spec => []OwnPortOn
<1>1. Init => DrivenIsOn
  <2>1. Init => \A s \in Slots : ~players[s].connected
    BY DEF Init, PlatformInit
  <2>2. Init => \A p \in Ports : core0_last_msg # IC_MSG_CONNECT(p)
    BY Messages, IntercoreAssumption DEF Init, Core0QueueInit
  <2>3. QED
    BY <2>1, <2>2 DEF DrivenIsOn
<1>2. TypeOK /\ DrivenIsOn => OwnPortOn
  <2> SUFFICES ASSUME TypeOK, DrivenIsOn, orderly, alone, NEW s \in Connected,
                      PortOf(s) \notin gc_connected
               PROVE  Queued(IC_MSG_CONNECT(PortOf(s)))
    BY DEF OwnPortOn
  <2>1. WillBe(PortOf(s), TRUE)
    BY DEF DrivenIsOn, Connected, PortOf
  <2>2. QED
    BY <2>1 DEF WillBe, YoungestOf, Queued, Switch
<1>3. QED
  BY <1>1, <1>2, DrivenIsOnStep, Types, PTL DEF Spec

-----------------------------------------------------------------------------
\* What a port will answer when all that waits is taken: the gamepad state of
\* the youngest input that waits for it, or the one it answers already.
InputsFor(p) == {IC_MSG_INPUT(p, c) : c \in Counters}
WillAnswer(p) ==
  \/ NoneOf(InputsFor(p)) /\ _out_buffer[p] = last_input[p]
  \/ \E i \in SlotIdx : YoungestOf(InputsFor(p), i) /\ core0_queue[i].gp = last_input[p]

LastIsComing == orderly => \A p \in Ports : WillAnswer(p)

\* The inputs of a port, told apart from those of the others.
LEMMA InputMessages ==
  ASSUME NEW m \in Core0Msgs, NEW p \in Ports
  PROVE  m \in InputsFor(p) <=> m.id = "INPUT" /\ m.port = p
<1>1. ASSUME m \in InputsFor(p) PROVE m.id = "INPUT" /\ m.port = p
  BY <1>1 DEF InputsFor, IC_MSG_INPUT
<1>2. ASSUME m.id = "INPUT", m.port = p PROVE m \in InputsFor(p)
  <2>1. m \in Core0Inputs
    BY <1>2, Inputs
  <2>2. PICK q \in Ports, c \in Counters : m = IC_MSG_INPUT(q, c)
    BY <2>1 DEF Core0Inputs
  <2>3. q = p
    BY <1>2, <2>2 DEF IC_MSG_INPUT
  <2>4. QED
    BY <2>2, <2>3 DEF InputsFor
<1>3. QED
  BY <1>1, <1>2

\* A message for no input of p leaves the answer of p to come as it is.
LEMMA WillAnswerKept ==
  ASSUME TypeOK, NEW m \in Core0Msgs, NEW gp \in GamepadStates \cup {NoPad},
         core0_accept(m, gp), ~Laps, NEW p \in Ports, m \notin InputsFor(p),
         last_input'[p] = last_input[p], _out_buffer'[p] = _out_buffer[p], WillAnswer(p)
  PROVE  WillAnswer(p)'
<1>1. CASE NoneOf(InputsFor(p)) /\ _out_buffer[p] = last_input[p]
  <2>1. NoneOf(InputsFor(p))'
    BY <1>1, AcceptedIsYoungest DEF TypeOK
  <2>2. QED
    BY <1>1, <2>1 DEF WillAnswer
<1>2. CASE \E i \in SlotIdx : YoungestOf(InputsFor(p), i) /\ core0_queue[i].gp = last_input[p]
  <2>1. PICK i \in SlotIdx : YoungestOf(InputsFor(p), i) /\ core0_queue[i].gp = last_input[p]
    BY <1>2
  <2>2. YoungestOf(InputsFor(p), i)' /\ core0_queue'[i] = core0_queue[i]
    BY <2>1, AcceptedIsYoungest DEF TypeOK
  <2>3. QED
    BY <2>1, <2>2 DEF WillAnswer
<1>3. QED
  BY <1>1, <1>2 DEF WillAnswer

\* With queue and answers unchanged, what a port will answer is unchanged.
LEMMA WillAnswerSame ==
  ASSUME UNCHANGED <<core0Vars, _out_buffer, last_input>>, NEW p \in Ports, WillAnswer(p)
  PROVE  WillAnswer(p)'
  BY DEF WillAnswer, core0Vars, YoungestOf, NoneOf, InputsFor, IC_MSG_INPUT, Counters

\* Taking a message, of this port or another, does not change what it will answer.
LEMMA WillAnswerTaken ==
  ASSUME TypeOK, Filled0, NEW i \in SlotIdx, comms_task_message(i), ~Overtakes(i),
         UNCHANGED last_input, NEW p \in Ports, WillAnswer(p)
  PROVE  WillAnswer(p)'
<1> DEFINE m == core0_queue[i].msg
<1>1. /\ core0_get_message_safe(i) /\ m \in Core0Msgs /\ core0_queue[i].ready /\ Core0QueueTypeOK
      /\ m.port \in Ports
  BY Dispatched, Inputs DEF core0_get_message_safe, FirstReady, TypeOK
<1>2. _out_buffer' = IF m.id = "INPUT" THEN [_out_buffer EXCEPT ![m.port] = core0_queue[i].gp]
                                      ELSE _out_buffer
  BY Dispatched
<1>3. _out_buffer \in [Ports -> GamepadStates \cup {NoPad}]
  BY DEF TypeOK, CommsTypeOK
<1>4. CASE NoneOf(InputsFor(p)) /\ _out_buffer[p] = last_input[p]
  <2>1. NoneOf(InputsFor(p))'
    BY <1>1, <1>4, TakenIsOldest
  <2>2. ~(m.id = "INPUT" /\ m.port = p)
    BY <1>1, <1>4, InputMessages DEF NoneOf
  <2>3. _out_buffer'[p] = _out_buffer[p]
    BY <1>1, <1>2, <1>3, <2>2
  <2>4. QED
    BY <1>4, <2>1, <2>3 DEF WillAnswer
<1>5. ASSUME NEW l \in SlotIdx, YoungestOf(InputsFor(p), l), core0_queue[l].gp = last_input[p], l # i
      PROVE  WillAnswer(p)'
  <2>1. YoungestOf(InputsFor(p), l)' /\ core0_queue'[l] = core0_queue[l]
    BY <1>1, <1>5, TakenIsOldest
  <2>2. QED
    BY <1>5, <2>1 DEF WillAnswer
<1>6. ASSUME YoungestOf(InputsFor(p), i), core0_queue[i].gp = last_input[p] PROVE WillAnswer(p)'
  <2>1. NoneOf(InputsFor(p))'
    BY <1>1, <1>6, TakenIsOldest
  <2>2. m.id = "INPUT" /\ m.port = p
    BY <1>1, <1>6, InputMessages DEF YoungestOf
  <2>3. _out_buffer'[p] = core0_queue[i].gp
    BY <1>2, <1>3, <2>2
  <2>4. QED
    BY <1>6, <2>1, <2>3 DEF WillAnswer
<1>7. QED
  BY <1>4, <1>5, <1>6 DEF WillAnswer

\* Every step keeps LastIsComing: a report is accepted and the youngest.
LEMMA LastIsComingStep ==
  TypeOK /\ Filled0 /\ CounterMovedOn /\ LastIsComing /\ [Next]_vars => LastIsComing'
<1> SUFFICES ASSUME TypeOK, Filled0, CounterMovedOn, LastIsComing, [Next]_vars, orderly', NEW p \in Ports
             PROVE  WillAnswer(p)'
  BY DEF LastIsComing
<1>1. ASSUME NEW m \in Core0Msgs, m.id # "INPUT", core0_send_message_safe(m, NoPad), SendKeepsOrder,
             UNCHANGED <<_out_buffer, last_input>>
      PROVE  WillAnswer(p)'
  <2>1. orderly
    BY <1>1, OrderlySend
  <2>2. m \notin InputsFor(p)
    BY <1>1, InputMessages
  <2>3. CASE UNCHANGED core0Vars
    BY <1>1, <2>1, <2>3, WillAnswerSame DEF LastIsComing
  <2>4. CASE core0_accept(m, NoPad) /\ ~Laps
    BY <1>1, <2>1, <2>2, <2>4, WillAnswerKept DEF LastIsComing
  <2>5. QED
    BY <1>1, <2>3, <2>4, OrderlySend
<1>2. ASSUME NEW s \in Slots, NEW d \in Devices, NEW q \in Ports, Connect(s, d, q) PROVE WillAnswer(p)'
  <2>1. IC_MSG_CONNECT(q).id # "INPUT"
    BY DEF IC_MSG_CONNECT
  <2>2. QED
    BY <1>1, <1>2, <2>1, ConnectSends
<1>3. ASSUME NEW s \in Slots, Disconnect(s) PROVE WillAnswer(p)'
  <2>1. PICK q \in Ports : q = players[s].gc_port
    BY <1>3, DisconnectSends
  <2>2. IC_MSG_DISCONNECT(q).id # "INPUT"
    BY DEF IC_MSG_DISCONNECT
  <2>3. QED
    BY <1>1, <1>3, <2>1, <2>2, DisconnectSends
<1>4. ASSUME NEW s \in Slots, Report(s) PROVE WillAnswer(p)'
  <2>1. PICK q \in Ports : q = players[s].gc_port
    BY <1>4, ReportSends
  <2> DEFINE m == IC_MSG_INPUT(q, inputcounter)
             gp == [port |-> q, counter |-> inputcounter]
  <2>2. /\ m \in Core0Msgs /\ m \in Core0Inputs /\ gp \in GamepadStates /\ m.id = "INPUT" /\ m.port = q
        /\ core0_send_message_safe(m, gp) /\ SendKeepsOrder /\ UNCHANGED _out_buffer
        /\ last_input' = [last_input EXCEPT ![q] = gp]
    BY <1>4, <2>1, ReportSends
  <2>3. m.counter = inputcounter
    BY DEF IC_MSG_INPUT
  <2> HIDE DEF m, gp
  <2>4. last_input \in [Ports -> GamepadStates \cup {NoPad}] /\ inputcounter \in Counters
    BY DEF TypeOK, PlatformTypeOK
  <2>5. core0_last_msg # m
    BY <2>2, <2>3, <2>4, CounterMoves DEF CounterMovedOn
  <2>6. orderly /\ core0_accept(m, gp) /\ ~Laps
    BY <2>2, <2>5, OrderlySend
  <2>7. CASE q = p
    <3>1. m \in InputsFor(p)
      BY <2>2, <2>7, InputMessages
    <3>2. \E i \in SlotIdx : YoungestOf(InputsFor(p), i)' /\ core0_queue'[i].gp = gp
      BY <2>2, <2>6, <3>1, AcceptedIsYoungest DEF TypeOK
    <3>3. last_input'[p] = gp
      BY <2>2, <2>4, <2>7
    <3>4. QED
      BY <3>2, <3>3 DEF WillAnswer
  <2>8. CASE q # p
    <3>1. m \notin InputsFor(p) /\ last_input'[p] = last_input[p] /\ _out_buffer'[p] = _out_buffer[p]
      BY <2>2, <2>4, <2>8, InputMessages
    <3>2. QED
      BY <2>2, <2>6, <3>1, WillAnswerKept DEF LastIsComing
  <2>9. QED
    BY <2>7, <2>8
<1>5. ASSUME NEW i \in SlotIdx, comms_task_message(i), Message, orderly' = (orderly /\ ~Overtakes(i))
      PROVE  WillAnswer(p)'
  BY <1>5, WillAnswerTaken DEF Message, LastIsComing
<1>6. ASSUME \/ \E s \in Slots : ReportOther(s)
             \/ Hook \/ (comms_task_no_message /\ Message /\ UNCHANGED orderly)
             \/ Collect \/ RumbleReport \/ UNCHANGED vars
             \/ \E q \in Ports, rumble \in BOOLEAN : Poll(q, rumble)
      PROVE  WillAnswer(p)'
  BY <1>6, OtherSteps, WillAnswerSame DEF LastIsComing
<1>7. QED
  BY <1>2, <1>3, <1>4, <1>5, <1>6, StepCases

\* As long as messages are neither lost nor overtaken, a port answers with the
\* state reported last for it, or an input for it waits.
THEOREM FreshAnswers == Spec => []AnswersAreFresh
<1>1. Init => LastIsComing /\ CounterMovedOn
  <2>1. Init => CounterMovedOn
    BY IntercoreAssumption DEF Init, Core0QueueInit, CounterMovedOn, Core0Msgs
  <2>2. Init => LastIsComing
    BY StartsEmpty DEF Init, CommsInit, LastIsComing, WillAnswer
  <2>3. QED
    BY <2>1, <2>2
<1>2. LastIsComing => AnswersAreFresh
  <2> SUFFICES ASSUME LastIsComing, orderly, NEW p \in Ports, _out_buffer[p] # last_input[p]
               PROVE  \E c \in Counters : Queued(IC_MSG_INPUT(p, c))
    BY DEF AnswersAreFresh
  <2>1. PICK i \in SlotIdx : YoungestOf(InputsFor(p), i)
    BY DEF LastIsComing, WillAnswer
  <2>2. core0_queue[i].ready /\ core0_queue[i].msg \in InputsFor(p)
    BY <2>1 DEF YoungestOf
  <2>3. PICK c \in Counters : core0_queue[i].msg = IC_MSG_INPUT(p, c)
    BY <2>2 DEF InputsFor
  <2>4. QED
    BY <2>2, <2>3 DEF Queued
<1>3. TypeOK /\ Filled0 /\ CounterMovedOn /\ [Next]_vars => CounterMovedOn'
  BY CounterStep
<1>4. QED
  BY <1>1, <1>2, <1>3, LastIsComingStep, Types, PTL DEF Spec
=============================================================================
