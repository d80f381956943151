----------------------------- MODULE MCPortLink -----------------------------
(* Two slots and two ports, so that two controllers share a port or swap     *)
(* theirs; a ring short enough to lap and to be read across its wrap.        *)
EXTENDS PortLink

FullDevice == {"set_player_leds", "play_dual_rumble"}
MCDevices == {FullDevice}
MCAllSlots == Slots
MCAllPorts == Ports
MCNone == {}
MCFirstPort == {0}
=============================================================================
