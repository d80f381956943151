------------------------------ MODULE PortLink ------------------------------
(***************************************************************************)
(* From a Bluetooth controller to a GameCube port and back: the callbacks  *)
(* of core 1 (MyPlatform), the main loop of core 0 (CommsTask), the queues *)
(* between them (Core0Queue, Core1Queue), and around them the controllers, *)
(* which come, report and go at any time, and the console, which polls the *)
(* ports that are connected and says whether they should rumble.           *)
(*                                                                         *)
(* Every variable ranges over a finite set, so the number of messages is   *)
(* not bounded.                                                            *)
(***************************************************************************)
EXTENDS MyPlatform, CommsTask

CONSTANTS
  ReportingSlots,  \* the slots whose controllers report inputs
  RumblePorts      \* the ports whose rumble the console uses

ASSUME EnvironmentAssumption == ReportingSlots \subseteq Slots /\ RumblePorts \subseteq Ports

VARIABLES
  orderly,      \* history: no send to core 0 destroyed a message, and no get
                \* of core 0 overtook one
  alone,        \* history: no two connected controllers ever shared a port
  kept_up,      \* history: every rumble report found the core 1 queue empty
  last_input    \* history: the state reported last for each port

history == <<orderly, alone, kept_up, last_input>>

vars == <<core0Vars, core1_queue, platformVars, commsVars, history>>

Init ==
  /\ Core0QueueInit
  /\ Core1QueueInit
  /\ PlatformInit
  /\ CommsInit
  /\ orderly = TRUE
  /\ alone = TRUE
  /\ kept_up = TRUE
  /\ last_input = [p \in Ports |-> NoPad]

-----------------------------------------------------------------------------
\* Core 1: a controller connects, reports or disconnects, or the timer fires.

SendKeepsOrder == orderly' = (orderly /\ (core0Vars' = core0Vars \/ ~Laps))

Connect(s, d, port) ==
  /\ s \notin Connected
  /\ my_platform_on_device_connected(s, d, port)
  /\ SendKeepsOrder
  /\ alone' = (alone /\ \A t \in Connected : PortOf(t) # port)
  /\ UNCHANGED <<core1_queue, commsVars, kept_up, last_input>>

Disconnect(s) ==
  /\ s \in Connected
  /\ my_platform_on_device_disconnected(s)
  /\ SendKeepsOrder
  /\ UNCHANGED <<core1_queue, commsVars, alone, kept_up, last_input>>

Report(s) ==
  /\ s \in Connected
  /\ my_platform_on_controller_data(s)
  /\ SendKeepsOrder
  /\ last_input' = [last_input EXCEPT ![PortOf(s)] =
                      [port |-> PortOf(s), counter |-> inputcounter]]
  /\ UNCHANGED <<core1_queue, commsVars, alone, kept_up>>

ReportOther(s) ==
  /\ s \in Connected
  /\ my_platform_on_other_data(s)
  /\ UNCHANGED <<core1_queue, commsVars, history>>

Hook ==
  /\ my_platform_bt_loop_hook
  /\ UNCHANGED <<core0Vars, commsVars, history>>

\* Core 0: the two halves of a pass, and the interrupt handler.

Message ==
  /\ \/ \E i \in SlotIdx : comms_task_message(i) /\ orderly' = (orderly /\ ~Overtakes(i))
     \/ comms_task_no_message /\ UNCHANGED orderly
  /\ UNCHANGED <<core1_queue, platformVars, alone, kept_up, last_input>>

Collect ==
  /\ comms_task_collect
  /\ UNCHANGED <<core0Vars, platformVars, history>>

RumbleReport ==
  /\ comms_task_report
  /\ kept_up' = (kept_up /\ (currentrumble = Collected \/ Core1Empty))
  /\ UNCHANGED <<core0Vars, platformVars, orderly, alone, last_input>>

Poll(p, rumble) ==
  /\ console_poll(p, rumble)
  /\ UNCHANGED <<core0Vars, core1_queue, platformVars, history>>

Next ==
  \/ \E s \in Slots, d \in Devices, p \in Ports : Connect(s, d, p)
  \/ \E s \in Slots : Disconnect(s)
  \/ \E s \in ReportingSlots : Report(s) \/ ReportOther(s)
  \/ Hook
  \/ Message
  \/ Collect
  \/ RumbleReport
  \/ \E p \in RumblePorts, rumble \in BOOLEAN : Poll(p, rumble)

Spec == Init /\ [][Next]_vars

\* The main loop of core 0 never stops, its 16 ms timer goes off again and again
\* (FiresAgain of IntervalTimer), and the timer of core 1 re-arms itself.
FairSpec ==
  /\ Spec
  /\ WF_vars(Message \/ Collect \/ RumbleReport) /\ SF_vars(RumbleReport)
  /\ WF_vars(Hook)

-----------------------------------------------------------------------------
TypeOK ==
  /\ Core0QueueTypeOK
  /\ Core1QueueTypeOK
  /\ PlatformTypeOK
  /\ CommsTypeOK
  /\ orderly \in BOOLEAN /\ alone \in BOOLEAN /\ kept_up \in BOOLEAN
  /\ last_input \in [Ports -> GamepadStates \cup {NoPad}]

\* Message m waits in the queue to core 0.
Queued(m) == \E i \in SlotIdx : core0_queue[i].ready /\ core0_queue[i].msg = m

\* As long as messages are neither lost nor overtaken, a port answers the
\* console only while a controller drives it, or until core 0 has taken the
\* message that it left: dropping a repeated CONNECT or DISCONNECT
\* (intercore.c:24) leaves no port on behind the last controller that left
\* it, even when two shared it.
NoPhantomController ==
  orderly => \A p \in gc_connected :
    Queued(IC_MSG_DISCONNECT(p)) \/ \E s \in Connected : PortOf(s) = p

\* "which GameCube port this connection drives" (my_platform.c:38): the port
\* of a connected controller is on, or about to be, as long as no two
\* controllers ever shared a port; the first to leave a shared port switches
\* it off for both.
OwnPortOn ==
  orderly /\ alone => \A s \in Connected :
    PortOf(s) \in gc_connected \/ Queued(IC_MSG_CONNECT(PortOf(s)))

\* A controller that stays, on a port of its own, gets its port switched on
\* for good, and a port all controllers have left is switched off for good.
PortSettles ==
  \A p \in Ports :
    /\ []orderly /\ []alone /\ <>[](\E s \in Connected : PortOf(s) = p)
         => <>[](p \in gc_connected)
    /\ []orderly /\ <>[](\A s \in Connected : PortOf(s) # p)
         => <>[](p \notin gc_connected)

\* What a port answers is the last state reported for it, unless a report for
\* it still waits.
AnswersAreFresh ==
  orderly => \A p \in Ports :
    \/ _out_buffer[p] = last_input[p]
    \/ \E c \in Counters : Queued(IC_MSG_INPUT(p, c))

\* Whatever the queue loses or reorders, and whatever a slot held before, no
\* state reported for one port is ever answered on another.
AnswersAreOwn ==
  \A p \in Ports : _out_buffer[p] # NoPad => _out_buffer[p].port = p

\* A report of a controller is never taken for a repeat: the counter in its
\* message differs from that of the report before (my_platform.c:291, :303).
ReportsAreAccepted ==
  [][inputcounter' # inputcounter => core0_last_msg' # core0_last_msg]_vars

\* The LEDs of a controller show the port it drives, not the slot it is in
\* (my_platform.c:247-249), also after its slot was used by another.
LedsShowPort ==
  \A s \in Connected : leds[s] # NoPort => leds[s] = PortOf(s)

\* As long as core 1 keeps up, core 1 knows what core 0 believes to have told
\* it: currentrumble, which is set whatever becomes of the message
\* (gamecube.c:620-621), never runs ahead of _rumble_status for good.
RumbleAgrees == kept_up /\ Core1Empty => _rumble_status = currentrumble

\* As long as core 1 keeps up, a controller that stays on a port as the first
\* one there ends up doing what the console wants of that port.
RumbleArrives ==
  \A s \in Slots, p \in Ports, on \in BOOLEAN :
    ([]kept_up /\ <>[](CanRumble(s) /\ DrivesPort(s, p) /\ (p \in gc_rumble <=> on)))
      => <>[](motors[s] = on)
=============================================================================
