------------------------------ MODULE Match_proofs ------------------------------
(* What a match keeps for every length of its pauses and of its seconds, for    *)
(* every position of the arm's buttons and every bound of its slow range.       *)
EXTENDS Match, TLAPS

-------------------------------------------------------------------------------
(* The autonomous period.                                                      *)

AutoType ==
  /\ at \in 1 .. 14 /\ phase \in {"none", "driving", "settling"}
  /\ now \in Nat /\ zero \in 0 .. now /\ startTime \in Nat
  /\ startedAt \in 0 .. now /\ gripAt \in 0 .. now /\ matchStart \in Int
  /\ started \in BOOLEAN /\ stopped \in BOOLEAN

\* A move goes on only at a statement that is a call of moveRTP.
MovesInMoves == phase # "none" => at \in {2, 3, 4, 8, 13}

\* The start of the match, once it has been noted.
StartIsNoted == at > 1 /\ ~stopped => started /\ matchStart = startedAt \div Second

\* Between its mark and the end of its hold, a pause is counted on a timer that
\* nobody resets, from a moment after the gripper was moved.
PauseIsCounted == at \in {7, 11} => zero + startTime \in gripAt .. now

\* The pause has been held until the robot moves on.
PauseIsHeld == at \in {8, 12, 13} /\ ~stopped =>
                 /\ now - gripAt >= Pause
                 /\ at \in {8, 13} /\ phase = "driving" => zero - gripAt >= Pause

\* The robot waits with the gripper open, and goes on in the last seconds.
LateToPark == at = 13 /\ ~stopped =>
                /\ now - startedAt > (ParkAt - 1) * Second
                /\ phase = "driving" => zero - startedAt > (ParkAt - 1) * Second
Released   == at > 9 => gripper = "free"

AutoInv == /\ AutoType /\ MovesInMoves /\ StartIsNoted /\ PauseIsCounted /\ PauseIsHeld
           /\ LateToPark /\ Released

USE DEF AutoType, MovesInMoves, StartIsNoted, PauseIsCounted, PauseIsHeld, LateToPark, Released

\* The statements by their numbers.
LEMMA Statements ==
  ASSUME at \in 1 .. 14
  PROVE  /\ Foundation!Statement = "start" <=> at = 1
         /\ Foundation!Moves <=> at \in {2, 3, 4, 8, 13}
         /\ Foundation!Statement = "lower" <=> at = 5
         /\ Foundation!Statement \in {"mark1", "mark2"} <=> at \in {6, 10}
         /\ Foundation!Statement \in {"hold1", "hold2"} <=> at \in {7, 11}
         /\ Foundation!Statement = "lift" <=> at = 9
         /\ Foundation!Statement = "await" <=> at = 12
         /\ Foundation!Statement \in {"drag", "park"} <=> at \in {8, 13}
         /\ Foundation!Statement = "park" <=> at = 13
BY DEF Foundation!Statement, Foundation!Program, Foundation!Moves

\* Whole seconds: how many have gone by is known to within one of them.
LEMMA WholeSeconds ==
  ASSUME NEW s \in Nat \ {0}, NEW n \in Nat
  PROVE  n \div s \in Nat /\ (n \div s) * s <= n /\ n < (n \div s + 1) * s
OBVIOUS

\* So many whole seconds since a start cannot be less than that, but for one.
LEMMA SecondsLost ==
  ASSUME NEW s \in Nat \ {0}, NEW n \in Nat, NEW m \in Nat, NEW k \in Nat,
         n \div s - m \div s >= k
  PROVE  n - m > (k - 1) * s
<1> DEFINE a == n \div s
           b == m \div s
<1>1. a \in Nat /\ b \in Nat /\ a * s <= n /\ m < (b + 1) * s
  BY WholeSeconds
<1>2. a >= b + k
  BY <1>1
<1> HIDE DEF a, b
<1>3. a * s >= (b + k) * s
  BY <1>1, <1>2
<1>4. (b + k) * s = (b + 1) * s + (k - 1) * s
  BY <1>1
<1> QED BY <1>1, <1>3, <1>4

\* A program that is at its start owes nothing yet.
LEMMA AutoStarts ==
  /\ AutoType /\ at = 1 /\ phase = "none" => AutoInv
  /\ AutoType' /\ at' = 1 /\ phase' = "none" => AutoInv'
BY DEF AutoInv

\* Every statement, the driver station and the clock keep it.
LEMMA AutoStays == AutoInv /\ Foundation!Next => AutoInv'
<1> SUFFICES ASSUME AutoInv, Foundation!Next PROVE AutoInv'
  OBVIOUS
<1> USE FoundationAssumption DEF AutoInv, Foundation!timing, Foundation!history
<1>1. CASE Foundation!WaitForStart
  BY <1>1, Statements, WholeSeconds DEF Foundation!WaitForStart, Foundation!Seconds
<1>2. CASE Foundation!Drive
  BY <1>2, Statements DEF Foundation!Drive
<1>3. CASE Foundation!Settle
  BY <1>3 DEF Foundation!Settle
<1>4. CASE Foundation!Arrive
  BY <1>4 DEF Foundation!Arrive
<1>5. CASE Foundation!Lower \/ Foundation!Lift
  BY <1>5, Statements DEF Foundation!Lower, Foundation!Lift, Foundation!SetGripper
<1>6. CASE Foundation!Mark
  BY <1>6, Statements DEF Foundation!Mark, Foundation!time
<1>7. CASE Foundation!Hold
  <2>1. at \in {7, 11} /\ (~stopped => now - gripAt >= Pause)
    BY <1>7, Statements DEF Foundation!Hold, Foundation!Held, Foundation!Abs,
       Foundation!time, Foundation!opModeIsActive
  <2> QED BY <1>7, <2>1 DEF Foundation!Hold
<1>8. CASE Foundation!Display
  BY <1>8 DEF Foundation!Display
<1>9. CASE Foundation!Await
  <2>1. at = 12 /\ (~stopped => now \div Second - startedAt \div Second >= ParkAt)
    BY <1>9, Statements, WholeSeconds
       DEF Foundation!Await, Foundation!TooEarly, Foundation!Seconds, Foundation!opModeIsActive
  <2>2. ~stopped => now - startedAt > (ParkAt - 1) * Second
    BY <2>1, SecondsLost
  <2> QED BY <1>9, <2>1, <2>2 DEF Foundation!Await
<1>10. CASE Foundation!Start \/ Foundation!RequestStop
  BY <1>10 DEF Foundation!Start, Foundation!RequestStop
<1>11. CASE Foundation!Tick
  BY <1>11 DEF Foundation!Tick
<1> QED BY <1>1, <1>2, <1>3, <1>4, <1>5, <1>6, <1>7, <1>8, <1>9, <1>10, <1>11
        DEF Foundation!Next, Foundation!Thread

\* Through the whole match: the OpMode after it has its own fields.
LEMMA AutoAlways == Init /\ [][Next]_matchVars => []AutoInv
<1> USE FoundationAssumption
<1>1. Init => AutoInv
  <2> SUFFICES ASSUME Init PROVE AutoInv
    OBVIOUS
  <2>1. started \in BOOLEAN /\ stopped \in BOOLEAN
    BY Zenon DEF Init, Foundation!Init
  <2>2. AutoType /\ at = 1 /\ phase = "none"
    BY <2>1 DEF Init, Foundation!Init
  <2> QED BY <2>2, AutoStarts
<1>2. AutoInv /\ [Next]_matchVars => AutoInv'
  <2> SUFFICES ASSUME AutoInv, [Next]_matchVars PROVE AutoInv'
    OBVIOUS
  <2>1. CASE Autonomous
    BY <2>1, AutoStays DEF Autonomous
  <2>2. CASE Select
    <3>1. started' \in BOOLEAN /\ stopped' \in BOOLEAN
      BY <2>2, Zenon DEF Select
    <3>2. AutoType' /\ at' = 1 /\ phase' = "none"
      BY <2>2, <3>1 DEF Select
    <3> QED BY <3>2, AutoStarts
  <2>3. CASE Driving \/ Turning \/ UNCHANGED matchVars
    BY <2>3 DEF Driving, Turning, matchVars, autoVars, AutoInv
  <2> QED BY <2>1, <2>2, <2>3 DEF Next
<1> QED BY <1>1, <1>2, PTL

\* For every length of a second and of a pause: the robot does not drive before the
\* gripper has had its pause, although the moves reset the timer it is counted on,
\* and an OpMode that is not stopped parks late, with the foundation released
\* (RedFoundationMove.runOpMode, BlueFoundationMove.runOpMode).
THEOREM OnTime == MatchSpec => []AutonomousOnTime
<1>1. AutoInv => AutonomousOnTime
  BY Statements DEF AutoInv, AutonomousOnTime, Foundation!GripperHasItsPause, Foundation!ParksLate
<1> QED BY <1>1, AutoAlways, PTL DEF MatchSpec
-------------------------------------------------------------------------------
(* StandardTeleOp.                                                             *)

TeleType ==
  /\ pc \in {"drive", "gear", "aim", "aimx", "aimb", "read", "power"}
  /\ target \in Nat /\ position \in Int /\ read \in Int
  /\ pitchPower \in {1, 5, 7} /\ travel \in 0 .. MaxTravel

\* The wheels have what the sticks of this pass asked for.
GearedAsDriven == pc = "gear" => /\ sticks \in Sticks
                                 /\ wheel = [w \in Wheel |-> Clip(IF driven THEN Mix(sticks, w)
                                                                   ELSE 3 * Mix(sticks, w))]

\* The second reading of the arm's position is near the first.
ReadNear == pc = "power" => position - read \in -travel .. travel

\* A fast arm was out of the slow range when it was last read.
Slack == IF pc = "power" THEN MaxTravel + travel ELSE travel
FastNearEnds == pitchPower = 5 => position < SlowLow + Slack \/ position > SlowHigh - Slack

TeleInv == TeleType /\ GearedAsDriven /\ ReadNear /\ FastNearEnds

\* A sum of three cubes of sticks is not clipped.
LEMMA MixFits == \A s \in Sticks, w \in Wheel : Clip(Mix(s, w)) = Mix(s, w)
<1> SUFFICES ASSUME NEW s \in Sticks, NEW w \in Wheel PROVE Clip(Mix(s, w)) = Mix(s, w)
  OBVIOUS
<1>1. \A x \in Stick : square(x) \in -8 .. 8
  BY TeleOpAssumption DEF Stick, square
<1>2. s.lh \in Stick /\ s.lv \in Stick /\ s.rh \in Stick
  BY DEF Sticks
<1>3. Mix(s, w) \in -24 .. 24
  BY <1>1, <1>2 DEF Mix, Wheel
<1> QED BY <1>3 DEF Clip

\* Every pass of the loop and every press of a button keeps the driver's invariant.
LEMMA TeleStays == TeleInv /\ [TeleNext]_teleVars => TeleInv'
<1> SUFFICES ASSUME TeleInv, [TeleNext]_teleVars PROVE TeleInv'
  OBVIOUS
<1> USE TeleOpAssumption DEF TeleInv, TeleType, GearedAsDriven, ReadNear, FastNearEnds, Slack
<1>1. CASE Drive
  BY <1>1 DEF Drive, Geared
<1>2. CASE Gear
  BY <1>2 DEF Gear
<1>3. CASE AimYA \/ AimX \/ AimB
  BY <1>3 DEF AimYA, AimX, AimB, KeepAim, Aim, TargetOf
<1>4. CASE Read
  BY <1>4 DEF Read
<1>5. CASE Power
  BY <1>5 DEF Power, PowerFor, Fast
<1>6. CASE Turn
  BY <1>6 DEF Turn
<1>7. CASE UNCHANGED teleVars
  BY <1>7 DEF teleVars
<1> QED BY <1>1, <1>2, <1>3, <1>4, <1>5, <1>6, <1>7 DEF TeleNext, Pass

\* For every position of the buttons and every slow range: in low gear no wheel is
\* clipped, so that the robot goes where the three sticks say, and the arm is fast
\* between the bounds only for what it travels between two readings
\* (StandardTeleOp.loop).
THEOREM AsAsked == MatchSpec => []DrivesAsAsked
<1> USE TeleOpAssumption
<1>1. Init => TeleInv
  BY DEF Init, TeleInit, TeleInv, TeleType, GearedAsDriven, ReadNear, FastNearEnds, Slack
<1>2. TeleInv /\ [Next]_matchVars => TeleInv'
  <2>1. Next => [TeleNext]_teleVars
    BY DEF Next, Autonomous, Select, Driving, Turning, TeleNext
  <2>2. UNCHANGED matchVars => UNCHANGED teleVars
    BY DEF matchVars
  <2> QED BY <2>1, <2>2, TeleStays
<1>3. TeleInv => DrivesAsAsked
  <2> SUFFICES ASSUME TeleInv PROVE DrivesAsAsked
    OBVIOUS
  <2>1. LowGearKeepsDirection
    BY MixFits DEF LowGearKeepsDirection, TeleInv, GearedAsDriven
  <2>2. SlowBetween
    BY DEF SlowBetween, TeleInv, TeleType, FastNearEnds, Slack
  <2> QED BY <2>1, <2>2 DEF DrivesAsAsked
<1> QED BY <1>1, <1>2, <1>3, PTL DEF MatchSpec
===============================================================================
