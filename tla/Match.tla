--------------------------------- MODULE Match ---------------------------------
(* A match: a foundation program in the autonomous period, StandardTeleOp      *)
(* after it.  Each selection of an OpMode makes a new object of its class, so  *)
(* that nothing of the one is left in the fields of the other.                 *)
EXTENDS TeleOp

CONSTANTS Second, Pause, ParkAt, Period, MaxNow     \* see FoundationMove

ASSUME FoundationAssumption ==
    /\ Second \in Nat \ {0} /\ Pause \in Nat \ {0}
    /\ ParkAt \in Nat /\ Period \in Nat /\ MaxNow \in Nat

VARIABLES period, at, phase, now, zero, matchStart, startTime, shown, gripper, started, stopped,
          startedAt, gripAt

autoVars == <<at, phase, now, zero, matchStart, startTime, shown, gripper, started, stopped,
              startedAt, gripAt>>

matchVars == <<period, autoVars, teleVars>>

Foundation == INSTANCE FoundationMove

Init == period = "auto" /\ Foundation!Init /\ TeleInit

Autonomous == period = "auto" /\ Foundation!Next /\ UNCHANGED <<period, teleVars>>

\* The autonomous OpMode has returned; the driver station goes on to StandardTeleOp.
Select == /\ period = "auto" /\ Foundation!Statement = "ended"
          /\ period' = "tele"
          /\ at' = 1 /\ phase' = "none" /\ now' = 0 /\ zero' = 0 /\ matchStart' = 0
          /\ startTime' = 0 /\ shown' = Period /\ gripper' = "unset"
          /\ started' = FALSE /\ stopped' = FALSE /\ startedAt' = 0 /\ gripAt' = 0
          /\ UNCHANGED teleVars

Driving == period = "tele" /\ Pass /\ UNCHANGED <<period, autoVars>>
Turning == period = "tele" /\ Turn /\ UNCHANGED <<period, autoVars>>

Next == Autonomous \/ Select \/ Driving \/ Turning

\* The platform calls loop again and again, and the arm turns.
MatchSpec == Init /\ [][Next]_matchVars /\ WF_matchVars(Driving) /\ WF_matchVars(Turning)
-------------------------------------------------------------------------------
\* The gripper has its pause, and the robot parks late, see FoundationMove.
AutonomousOnTime == Foundation!GripperHasItsPause /\ Foundation!ParksLate

\* The gear and the arm's two speeds, see TeleOp.
DrivesAsAsked == LowGearKeepsDirection /\ SlowBetween
===============================================================================
