-------------------------------- MODULE TeleOp --------------------------------
(* StandardTeleOp: init and loop, which the platform calls over and over with  *)
(* one sample of both gamepads each, while the arm's motor turns on its own.   *)
(*                                                                             *)
(* Stick values are in halves, wheel powers in 24ths of full power, so that a  *)
(* third of a cube of halves is a whole number.  Positions of the arm are      *)
(* scaled down; what counts is their order.                                    *)
EXTENDS Integers, FiniteSets

CONSTANTS
  StickEnd,         \* the value of a stick held at an end, where a sum of three is clipped
  TargetY, TargetA, TargetX, TargetB,   \* the position of each pitch button
  SlowLow, SlowHigh,   \* 456 and 800: the arm is slow between them
  MaxPressed,       \* bound: pitch buttons pressed at once
  MaxTravel         \* most the arm travels from one reading to the same one of the next pass

Button == {"y", "a", "x", "b"}
Wheel  == {"fr", "fl", "br", "bl"}

ASSUME TeleOpAssumption ==
  /\ StickEnd \in 0 .. 2 /\ {TargetY, TargetA, TargetX, TargetB} \subseteq Nat
  /\ SlowLow \in Nat /\ SlowHigh \in Nat /\ MaxPressed \in Nat /\ MaxTravel \in Nat

VARIABLES
  pc,          \* the step of loop
  sticks,      \* the sticks in this pass
  pressed,     \* and the pitch buttons
  isLowGear,
  driven,      \* the gear that the wheels' present powers were computed for
  wheel,       \* the power given to each wheel
  target, position, pitchPower,   \* the arm's motor
  read,        \* the first of the two readings of its position
  travel       \* how far it turned since

teleVars == <<pc, sticks, pressed, isLowGear, driven, wheel, target, position, pitchPower, read,
              travel>>

\* The gamepads of a pass; each part is chosen here where loop first reads it.
Stick   == {-StickEnd, StickEnd}
Sticks  == [lh : Stick, lv : Stick, rh : Stick]
Centred == [lh |-> 0, lv |-> 0, rh |-> 0]
Pressed == {b \in SUBSET Button : Cardinality(b) <= MaxPressed}

\* init: encoder reset, target 0, and power 0.7 until the first pass.
TeleInit == /\ pc = "drive" /\ sticks = Centred /\ pressed = {}
            /\ isLowGear = FALSE /\ driven = FALSE /\ wheel = [w \in Wheel |-> 0]
            /\ target = 0 /\ position = 0 /\ pitchPower = 7
            /\ read = 0 /\ travel = 0

\* square: base^(power + 17) / base^17 with power 2 more than the one multiplied in
\* already; here in eighths.
square(s) == s * s * s

\* The mix of lines 66 to 69, in eighths.
Mix(s, w) == LET h == square(s.lh) v == square(s.lv) r == square(s.rh)
             IN CASE w = "fl" -> h + r - v [] w = "fr" -> -(v + h + r)
                  [] w = "bl" -> v + r - h [] w = "br" -> v + h - r

\* As if the low gear halved the powers (a mutant).
HalfGeared(s, w) == IF isLowGear THEN (3 * Mix(s, w)) \div 2 ELSE 3 * Mix(s, w)

Geared(s, w) == IF isLowGear THEN Mix(s, w) ELSE 3 * Mix(s, w)

\* setPower clips each motor's power by itself.
Clip(p) == IF p > 24 THEN 24 ELSE IF p < -24 THEN -24 ELSE p

Drive == /\ pc = "drive" /\ pc' = "gear"
         /\ sticks' \in Sticks /\ driven' = isLowGear
         /\ wheel' = [w \in Wheel |-> Clip(Geared(sticks', w))]
         /\ UNCHANGED <<pressed, isLowGear, target, position, pitchPower, read, travel>>

\* The bumpers, both up here, or one of them, choose the gear of the passes to come.
\* The sticks are not looked at again.
Gear == /\ pc = "gear" /\ pc' = "aim"
        /\ isLowGear' \in {isLowGear, TRUE, FALSE}
        /\ sticks' = Centred
        /\ UNCHANGED <<pressed, driven, wheel, target, position, pitchPower, read, travel>>

\* y or else a, then x, then b: each gives the motor a target of its own.
TargetOf == [y |-> TargetY, a |-> TargetA, x |-> TargetX, b |-> TargetB]
Aim(button, asked) == target' = IF asked THEN TargetOf[button] ELSE target
KeepAim == UNCHANGED <<sticks, isLowGear, driven, wheel, position, pitchPower, read, travel>>

AimYA == /\ pc = "aim" /\ pc' = "aimx"
         /\ pressed' \in Pressed
         /\ IF "y" \in pressed' THEN Aim("y", TRUE) ELSE Aim("a", "a" \in pressed')
         /\ KeepAim
AimX  == pc = "aimx" /\ pc' = "aimb" /\ Aim("x", "x" \in pressed) /\ KeepAim /\ UNCHANGED pressed
AimB  == pc = "aimb" /\ pc' = "read" /\ Aim("b", "b" \in pressed) /\ KeepAim /\ UNCHANGED pressed

\* The position is read twice.
Read == /\ pc = "read" /\ pc' = "power"
        /\ read' = position /\ travel' = 0
        /\ UNCHANGED <<sticks, pressed, isLowGear, driven, wheel, target, position, pitchPower>>

Fast == read < SlowLow \/ position > SlowHigh

\* As if the arm were to rest between the bounds (a mutant).
RestBetween == IF Fast THEN 5 ELSE 0

PowerFor == IF Fast THEN 5 ELSE 1

Power == /\ pc = "power" /\ pc' = "drive"
         /\ pitchPower' = PowerFor /\ read' = 0
         /\ UNCHANGED <<sticks, pressed, isLowGear, driven, wheel, target, position, travel>>

\* The arm's motor turns towards its target.
Turn == /\ pitchPower > 0 /\ position # target /\ travel < MaxTravel
        /\ position' = IF position < target THEN position + 1 ELSE position - 1
        /\ travel' = travel + 1
        /\ UNCHANGED <<pc, sticks, pressed, isLowGear, driven, wheel, target, pitchPower, read>>

Pass     == Drive \/ Gear \/ AimYA \/ AimX \/ AimB \/ Read \/ Power
TeleNext == Pass \/ Turn
TeleFairness == WF_teleVars(Pass) /\ WF_teleVars(Turn)
Spec == TeleInit /\ [][TeleNext]_teleVars /\ TeleFairness
-------------------------------------------------------------------------------
\* Although the powers of three sticks are added, the low gear keeps the direction
\* the driver asks for: no wheel is clipped at all.
LowGearKeepsDirection ==
  driven /\ pc = "gear" => \A w \in Wheel : wheel[w] = Mix(sticks, w)

\* The arm is not fast between the bounds, but for what it travels before a pass
\* has read where it is, two times MaxTravel from the bound it came over.
SlowBetween ==
  pitchPower = 5 => ~(position > SlowLow + 2 * MaxTravel /\ position < SlowHigh - 2 * MaxTravel)

\* When no pitch button is pressed any more, the arm gets to its target and stays.
ArmSettles == <>[](pressed = {}) => <>[](position = target)
===============================================================================
