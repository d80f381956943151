------------------------------ MODULE InputMap ------------------------------
(***************************************************************************)
(* How src/gamecube.c scales what the gamepad reports into the bytes of an *)
(* answer, and the rule that makes the digital and the analog half of a    *)
(* trigger one.  Which byte holds what in which poll mode is in Answer.    *)
(***************************************************************************)
EXTENDS Integers

\* What bluepad32 reports: the axes and pedals of ten bits.
Axis == -512 .. 511
Pedal == 0 .. 1023

CLAMP_0_255(n) == IF n < 0 THEN 0 ELSE IF n > 255 THEN 255 ELSE n

\* The factors are the floats 0.21484375, which is 55/256, and 0.499f, which is off
\* by less than what truncation would notice.
_gamecube_analog_helper(n) == CLAMP_0_255((55 * n) \div 256 + 127)

_gamecube_analog_trigger_helper(n) == CLAMP_0_255((499 * n) \div 1000)

\* The y axes of the gamepad grow downwards.
StickX(axis) == _gamecube_analog_helper(axis)
StickY(axis) == _gamecube_analog_helper(-axis)

\* A trigger without a pedal is its button; one with a pedal is pressed at the
\* end of its travel, whatever the button says.
Analog(pedal, button) ==
  LET al == _gamecube_analog_trigger_helper(pedal)
  IN IF button /\ (al > 245 \/ al = 0) THEN 255 ELSE al
Digital(pedal, button) ==
  LET al == _gamecube_analog_trigger_helper(pedal)
  IN al > 245 \/ (al = 0 /\ button)
=============================================================================
