---------------------------- MODULE SkystoneAuto ----------------------------
(* The four autonomous OpModes that look for the Skystone, carry it under the *)
(* bridge and park: RedSkystoneAuto, BlueSkystoneAuto and their OneBlock      *)
(* versions.  They are one straight program each, whose moves depend on the   *)
(* position `pos' of the Skystone.                                            *)
(*                                                                            *)
(* A move is what MoveContract promises of moveRTP: nothing if the OpMode was *)
(* already stopped, part of the way if it is stopped meanwhile, the commanded *)
(* distance otherwise.  The driver station may start the OpMode once and stop *)
(* it at any time, before the start too; the program then goes on to its end. *)
(*                                                                            *)
(* Distances are in hundredths of an inch; x grows to the robot's right and y *)
(* ahead of it, both from where the OpMode started.                           *)
EXTENDS Integers, Sequences

\* RedSkystoneAuto, BlueSkystoneAuto, RedSkystoneAutoOneBlock and
\* BlueSkystoneAutoOneBlock.
Variant == {"red2", "blue2", "red1", "blue1"}
Red == {"red2", "red1"}

\* Double.POSITIVE_INFINITY, the lowest average when there is no Skystone.
Infinity == 1000000

\* The thresholds of each OpMode, and the positions between and below them.
High(v) == IF v = "blue1" THEN 600 ELSE 1000
Low(v) == CASE v = "red2" -> 320 [] v = "red1" -> 330 [] OTHER -> 391
Between(v) == IF v \in Red THEN 2 ELSE 1
Below(v) == IF v \in Red THEN 1 ELSE 2

\* if / else if / else if: an average on a threshold leaves pos as it was.
Classify(v, avg, unset) ==
    CASE avg > High(v) -> 0
      [] avg > Low(v) /\ avg < High(v) -> Between(v)
      [] avg < Low(v) -> Below(v)
      [] OTHER -> unset

CONSTANTS Averages,   \* averages at which a Skystone may be seen
          Delivers    \* do servo writes of an interrupted thread arrive?

ASSUME AutoAssumption == Averages \subseteq 0..(Infinity - 1) /\ Delivers \in BOOLEAN

\* The moves and servo positions of a program.  Across and Along give the
\* distance to the right and ahead for pos = 0, 1 and 2.
Across(a, b, c) == [op |-> "across", by |-> <<a, b, c>>]
Along(a, b, c) == [op |-> "along", by |-> <<a, b, c>>]
Right(d) == Across(d, d, d)
Left(d) == Across(-d, -d, -d)
Backward(d) == Along(-d, -d, -d)
Wait == [op |-> "wait"]
Detect == [op |-> "detect"]
Shutdown == [op |-> "shutdown"]
Grip == [op |-> "grip"]

\* Mutant: a stone is not let go.
ReleaseNot == [op |-> "wait"]

Forward(d) == Along(d, d, d)
Release == [op |-> "release"]

\* Mutant: two cases of the way to the second stone are exchanged.
RedTwoExchanged == <<
    Backward(1850), Left(150), Wait, Detect,
    Across(200, -500, -1050), Backward(800), Grip, Wait, Forward(900),
    Across(-4300, -3700, -3250), Release, Wait,
    Across(6200, 5000, 5450), Backward(700), Grip, Wait, Forward(800),
    Across(-6200, -5600, -5000), Release, Wait,
    Right(1200), Shutdown >>

RedTwo == <<
    Backward(1850), Left(150), Wait, Detect,
    Across(200, -500, -1050), Backward(800), Grip, Wait, Forward(900),
    Across(-4300, -3700, -3250), Release, Wait,
    Across(6200, 5450, 5000), Backward(700), Grip, Wait, Forward(800),
    Across(-6200, -5600, -5000), Release, Wait,
    Right(1200), Shutdown >>

BlueTwo == <<
    Backward(1850), Right(500), Wait, Detect,
    Across(-750, -150, 550), Backward(800), Grip, Wait, Forward(900),
    Across(4300, 3700, 3250), Release, Wait,
    Across(-6000, -5450, -5000), Backward(900), Grip, Wait, Forward(800),
    Across(6200, 5600, 5000), Release, Wait,
    Left(1200), Shutdown >>

RedOne == <<
    Backward(1850), Left(150), Wait, Detect,
    Across(195, -445, -1000), Along(-1170, -1170, -1155), Grip, Wait, Forward(900),
    Across(-4000, -3400, -2950), Release, Wait,
    Right(1200), Backward(1000), Shutdown >>

BlueOne == <<
    Backward(1850), Right(500), Wait, Detect,
    Across(-725, -125, 475), Along(-1125, -1150, -1175), Grip, Wait, Forward(900),
    Across(4300, 3700, 3250), Release, Wait,
    Left(1500), Backward(900), Shutdown >>

Program(v) == CASE v = "red2" -> RedTwo [] v = "blue2" -> BlueTwo
                [] v = "red1" -> RedOne [] v = "blue1" -> BlueOne

-----------------------------------------------------------------------------
VARIABLES
    variant,   \* which OpMode was selected
    pc,        \* "setup", "waiting" (for start), "script" or "ended"
    at,        \* the step of the program being carried out
    moving,    \* within a move that began before any stop
    started,   \* the driver station has started the OpMode
    stopped,   \* ... or asked it to stop
    tfod,      \* the object detector: "absent", "active" or "shutdown"
    pos,       \* the position of the Skystone
    x, y,      \* where the robot is
    grip,      \* the stone gripper of this alliance's side
    reach,     \* y when a stone was last gripped
    picks,     \* x of every grip, and
    drops      \* x of every release, while the OpMode was not stopped

robot == <<x, y, grip>>
history == <<reach, picks, drops>>
vars == <<variant, pc, at, moving, started, stopped, tfod, pos, robot, history>>

Step == Program(variant)[at]
Arrives == stopped => Delivers
opModeIsActive == started /\ ~stopped

Init == /\ variant \in Variant
        /\ pc = "setup" /\ at = 1 /\ moving = FALSE
        /\ started = FALSE /\ stopped = FALSE
        /\ tfod = "absent" /\ pos = 0
        /\ x = 0 /\ y = 0 /\ grip = "unset"
        /\ reach = 0 /\ picks = <<>> /\ drops = <<>>

\* Before the start: the detector is created, if the phone can, and activated.
Setup == /\ pc = "setup"
         /\ tfod' \in {"absent", "active"}
         /\ pc' = "waiting"
         /\ UNCHANGED <<variant, at, moving, started, stopped, pos, robot, history>>

\* waitForStart returns for a stop request as well; Robot.init opens the gripper.
InitRobot == /\ pc = "waiting"
             /\ started \/ stopped
             /\ grip' = IF Arrives THEN "open" ELSE grip
             /\ pc' = "script"
             /\ UNCHANGED <<variant, at, moving, started, stopped, tfod, pos, x, y, history>>

At(op) == pc = "script" /\ Step.op = op
Moves == At("across") \/ At("along")

\* moveRTP enters its loop only while the OpMode is active.
BeginMove == /\ Moves /\ ~moving /\ opModeIsActive
             /\ moving' = TRUE
             /\ UNCHANGED <<variant, pc, at, started, stopped, tfod, pos, robot, history>>

SkipMove == /\ Moves /\ ~moving /\ ~opModeIsActive
            /\ at' = at + 1
            /\ UNCHANGED <<variant, pc, moving, started, stopped, tfod, pos, robot, history>>

\* A move that is cut short has gone none, half or all of its way.
EndMove == /\ Moves /\ moving
           /\ \E part \in (IF stopped THEN 0..2 ELSE {2}) :
                LET d == (Step.by[pos + 1] * part) \div 2
                IN IF Step.op = "across" THEN x' = x + d /\ y' = y
                                         ELSE y' = y + d /\ x' = x
           /\ moving' = FALSE /\ at' = at + 1
           /\ UNCHANGED <<variant, pc, started, stopped, tfod, pos, grip, history>>

\* setPosition of the gripper, whether or not the OpMode was stopped.
Close == /\ At("grip")
         /\ grip' = IF Arrives THEN "closed" ELSE grip
         /\ IF stopped THEN UNCHANGED <<reach, picks>>
                       ELSE reach' = y /\ picks' = Append(picks, x)
         /\ at' = at + 1
         /\ UNCHANGED <<variant, pc, moving, started, stopped, tfod, pos, x, y, drops>>

Open == /\ At("release")
        /\ grip' = IF Arrives THEN "open" ELSE grip
        /\ drops' = IF stopped THEN drops ELSE Append(drops, x)
        /\ at' = at + 1
        /\ UNCHANGED <<variant, pc, moving, started, stopped, tfod, pos, x, y, reach, picks>>

\* A timed loop: it ends with its time, or at once with the OpMode.
Pause == /\ At("wait")
         /\ at' = at + 1
         /\ UNCHANGED <<variant, pc, moving, started, stopped, tfod, pos, robot, history>>

\* One answer of the detector: null, or a frame with its lowest Skystone average.
Look == /\ At("detect")
        /\ \/ UNCHANGED pos
           \/ /\ tfod = "active"
              /\ \E avg \in Averages \cup {Infinity} : pos' = Classify(variant, avg, pos)
        /\ at' = at + 1
        /\ UNCHANGED <<variant, pc, moving, started, stopped, tfod, robot, history>>

\* The last statement: shut the detector down if there is one, and return.
Leave == /\ At("shutdown")
         /\ tfod' = IF tfod = "absent" THEN tfod ELSE "shutdown"
         /\ pc' = "ended"
         /\ UNCHANGED <<variant, at, moving, started, stopped, pos, robot, history>>

\* The driver station.
Start == /\ pc = "waiting" /\ ~started /\ ~stopped
         /\ started' = TRUE
         /\ UNCHANGED <<variant, pc, at, moving, stopped, tfod, pos, robot, history>>

RequestStop == /\ ~stopped /\ pc # "ended"
               /\ stopped' = TRUE
               /\ UNCHANGED <<variant, pc, at, moving, started, tfod, pos, robot, history>>

Thread == \/ Setup \/ InitRobot \/ BeginMove \/ SkipMove \/ EndMove \/ Close \/ Open
          \/ Pause \/ Look \/ Leave

Next == Thread \/ Start \/ RequestStop

Spec == Init /\ [][Next]_vars

-----------------------------------------------------------------------------
(* Properties.  Side is the way to the bridge: left for red, right for blue.  *)

Side == IF variant \in Red THEN -1 ELSE 1
Abs(n) == IF n < 0 THEN -n ELSE n

\* Nothing takes the robot further than half a field to either side, nor further
\* back than the row of stones with the robot's own length behind it.
TypeOK == /\ variant \in Variant
          /\ pc \in {"setup", "waiting", "script", "ended"}
          /\ at \in 1..Len(Program(variant))
          /\ moving \in BOOLEAN /\ started \in BOOLEAN /\ stopped \in BOOLEAN
          /\ tfod \in {"absent", "active", "shutdown"}
          /\ pos \in 0..2
          /\ x \in -7200..7200 /\ y \in -3600..0
          /\ grip \in {"unset", "open", "closed"}
          /\ reach \in -3600..0
          /\ picks \in Seq(-7200..7200) /\ drops \in Seq(-7200..7200)

\* Whichever position was detected, and in every OpMode, each stone is let go
\* in the same strip past the bridge.
LandsPastBridge == \A n \in 1..Len(drops) : Side * drops[n] \in 3950..4500

\* The two stones of a run belong together: the second is fetched two stones and
\* a bit further from the bridge, and let go within 2 inches of the first.
SecondFollowsFirst ==
    /\ Len(picks) = 2 => Side * (picks[1] - picks[2]) \in 1700..1900
    /\ Len(drops) = 2 => Abs(drops[1] - drops[2]) <= 200

\* A long strafe after a grip starts at least 8 inches back from the stones, with
\* the gripper closed on the way to the bridge and open on the way back.
CrossesClear ==
    (moving /\ ~stopped /\ Step.op = "across" /\ Abs(Step.by[pos + 1]) >= 2000) =>
        /\ y >= reach + 800
        /\ grip = IF Step.by[pos + 1] * Side > 0 THEN "closed" ELSE "open"

\* However and whenever the OpMode ends, the detector is not left running, and
\* the gripper is open as far as the thread's writes arrive.
CleanEnd == pc = "ended" => /\ tfod # "active"
                            /\ Arrives => grip = "open"

\* Stopping an OpMode that was never started moves nothing, although its whole
\* program is then gone through.
UnstartedStaysPut == ~started => ~moving /\ x = 0 /\ y = 0

\* The documentation of opModeIsActive: an OpMode that is not active "should
\* terminate at its earliest convenience".
NoCommandAfterStop == [][stopped => UNCHANGED grip]_vars
=============================================================================
