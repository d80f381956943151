----------------------------- MODULE MyPlatform -----------------------------
(***************************************************************************)
(* src/my_platform.c: the callbacks Bluepad32 makes on core 1.  They all   *)
(* run on the Bluetooth thread, one after the other, and the only state    *)
(* they share with core 0 is in the queues: each is one step.              *)
(*                                                                         *)
(* The profile of a controller is read from flash when it connects; its    *)
(* port is any port, for the user edits it on the configuration drive.     *)
(* Remapped buttons are part of the gamepad state.                         *)
(***************************************************************************)
EXTENDS Intercore

CONSTANTS
  Devices,    \* controllers: each is the set of report_parser functions it has,
              \* of "set_player_leds" and "play_dual_rumble"
  NoDevice,   \* device_ptr == NULL
  NoPort      \* the player LEDs of a controller that was never told a port

ASSUME PlatformAssumption == NoPort \notin Ports

VARIABLES
  players,        \* _players
  inputcounter,   \* inputcounter of my_platform_on_controller_data
  core1msg,       \* core1msg of my_platform_bt_loop_hook
  _rumble_status, \* _rumble_status of my_platform_bt_loop_hook, as the set of its one bits
  leds,           \* the port each controller's LEDs show
  motors          \* whether each controller's motors were last told to run

platformVars == <<players, inputcounter, core1msg, _rumble_status, leds, motors>>

PlayerRecord == [connected : BOOLEAN, led_set : BOOLEAN,
                 device_ptr : Devices \cup {NoDevice}, gc_port : Ports]

PlatformTypeOK ==
  /\ players \in [Slots -> PlayerRecord]
  /\ inputcounter \in Counters
  /\ core1msg \in Core1Msgs \cup {NoMsg}
  /\ _rumble_status \in SUBSET RumbleBits
  /\ leds \in [Slots -> Ports \cup {NoPort}]
  /\ motors \in [Slots -> BOOLEAN]

PlatformInit ==
  /\ players = [s \in Slots |-> [connected |-> FALSE, led_set |-> FALSE,
                                 device_ptr |-> NoDevice, gc_port |-> 0]]
  /\ inputcounter = 0
  /\ core1msg = NoMsg
  /\ _rumble_status = {}
  /\ leds = [s \in Slots |-> NoPort]
  /\ motors = [s \in Slots |-> FALSE]

Connected == {s \in Slots : players[s].connected}
PortOf(s) == players[s].gc_port

-----------------------------------------------------------------------------
my_platform_on_device_connected(s, d, port) ==
  /\ players' = [players EXCEPT ![s] = [connected |-> TRUE, led_set |-> FALSE,
                                        device_ptr |-> d, gc_port |-> port]]
  /\ core0_send_message_safe(IC_MSG_CONNECT(port), NoPad)
  /\ UNCHANGED <<inputcounter, core1msg, _rumble_status, leds, motors>>

\* The message of a disconnection names the port, not the slot.
DisconnectMsg_BySlot(s) == IC_MSG_DISCONNECT(s % NumPorts)
DisconnectMsg(s) == IC_MSG_DISCONNECT(PortOf(s))

\* The controller goes away, and its LEDs and motors with it.
my_platform_on_device_disconnected(s) ==
  /\ core0_send_message_safe(DisconnectMsg(s), NoPad)
  /\ players' = [players EXCEPT ![s].connected = FALSE, ![s].led_set = FALSE,
                                ![s].device_ptr = NoDevice]
  /\ leds' = [leds EXCEPT ![s] = NoPort]
  /\ motors' = [motors EXCEPT ![s] = FALSE]
  /\ UNCHANGED <<inputcounter, core1msg, _rumble_status>>

\* The LEDs show the port, not the slot.
LedPort_BySlot(s) == s % NumPorts
LedPort(s) == PortOf(s)

\* The player LEDs are lit with the first report, if the controller has any.
LightLeds(s) ==
  IF ~players[s].led_set /\ "set_player_leds" \in players[s].device_ptr
  THEN /\ leds' = [leds EXCEPT ![s] = LedPort(s)]
       /\ players' = [players EXCEPT ![s].led_set = TRUE]
  ELSE UNCHANGED <<leds, players>>

NextCounter(c) == (c + 1) % CounterMod

\* A report of the class UNI_CONTROLLER_CLASS_GAMEPAD.
my_platform_on_controller_data(s) ==
  /\ LightLeds(s)
  /\ core0_send_message_safe(
       IC_MSG_INPUT(PortOf(s), inputcounter),
       [port |-> PortOf(s), counter |-> inputcounter])
  /\ inputcounter' = NextCounter(inputcounter)
  /\ UNCHANGED <<core1msg, _rumble_status, motors>>

\* A report of any other class.
my_platform_on_other_data(s) ==
  /\ LightLeds(s)
  /\ UNCHANGED <<core0Vars, inputcounter, core1msg, _rumble_status, motors>>

-----------------------------------------------------------------------------
\* Of the controllers on a port, the one in the lowest slot gets its rumble.
DrivesPort(s, p) ==
  /\ s \in Connected /\ PortOf(s) = p
  /\ \A t \in Connected : PortOf(t) = p => s <= t

CanRumble(s) == players[s].connected /\ "play_dual_rumble" \in players[s].device_ptr

\* The bit of each port: 0b1000 for port 0 of 0 .. 3, and so on down.
HookBit_Reversed(p) == p
HookBit(p) == NumPorts - 1 - p

\* _my_platform_process_rumble, for all the ports.
Rumbled(status) ==
  [s \in Slots |-> IF CanRumble(s) /\ DrivesPort(s, PortOf(s))
                   THEN HookBit(PortOf(s)) \in status
                   ELSE motors[s]]

my_platform_bt_loop_hook_got(i) ==
  /\ core1_get_message_safe(i)
  /\ core1msg' = core1_queue[i].msg
  /\ _rumble_status' = core1_queue[i].msg.bits
  /\ motors' = Rumbled(_rumble_status')
  /\ UNCHANGED <<players, inputcounter, leds>>

my_platform_bt_loop_hook_idle ==
  /\ Core1Empty
  /\ motors' = Rumbled(_rumble_status)
  /\ UNCHANGED <<core1_queue, players, inputcounter, core1msg, _rumble_status, leds>>

my_platform_bt_loop_hook ==
  \/ \E i \in Core1SlotIdx : my_platform_bt_loop_hook_got(i)
  \/ my_platform_bt_loop_hook_idle
=============================================================================
