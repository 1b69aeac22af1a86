------------------------------ MODULE SkystoneRun ------------------------------
(* The Skystone programs with the detection in detail: where SkystoneAuto      *)
(* takes the result of a frame in one step, the thread goes through the list   *)
(* of recognitions object by object, in no particular order; it keeps the      *)
(* lowest average of a Skystone's left and right edge, in pixels, while the    *)
(* driver station may stop it.  What SkystoneAuto says of the programs holds   *)
(* of this one as it implements SkystoneAuto.                                  *)
EXTENDS SkystoneAuto

CONSTANT MaxSeen     \* most objects in one frame

ASSUME SeenAssumption == MaxSeen \in Nat

VARIABLES
  frame,       \* the recognitions, as listed by the detector
  i,           \* how many the loop has been through
  lowestAvg,   \* the lowest average of a Skystone among them
  done         \* between two looks

Label  == {"Skystone", "Stone"}
Object == [label : Label, avg : Averages]
Frames == UNION {[1..n -> Object] : n \in 0..MaxSeen}

\* One pass of the loop over the recognitions.
Lower(lowest, o) ==
    IF o.label = "Skystone" /\ o.avg < lowest THEN o.avg ELSE lowest

looking == <<frame, i, lowestAvg, done>>
Forget  == frame' = <<>> /\ i' = 0 /\ lowestAvg' = Infinity /\ done' = TRUE

RunInit == Init /\ frame = <<>> /\ i = 0 /\ lowestAvg = Infinity /\ done = TRUE

\* The detector, if there is one, answers with a frame.
Answer == /\ At("detect") /\ done /\ tfod = "active"
          /\ frame' \in Frames /\ done' = FALSE
          /\ UNCHANGED <<vars, i, lowestAvg>>

\* Mutant: the answer null is only noticed while the list is gone through.
NoAnswerLate == /\ At("detect")
                /\ at' = at + 1
                /\ UNCHANGED <<variant, pc, moving, started, stopped, tfod, pos, robot, history, looking>>

NoAnswer == /\ At("detect") /\ done
            /\ at' = at + 1
            /\ UNCHANGED <<variant, pc, moving, started, stopped, tfod, pos, robot, history, looking>>

LookAtObject == /\ ~done /\ i < Len(frame)
                /\ i' = i + 1
                /\ lowestAvg' = Lower(lowestAvg, frame[i + 1])
                /\ UNCHANGED <<vars, frame, done>>

Decide == /\ ~done /\ i = Len(frame)
          /\ pos' = Classify(variant, lowestAvg, pos)
          /\ at' = at + 1 /\ Forget
          /\ UNCHANGED <<variant, pc, moving, started, stopped, tfod, robot, history>>

ThreadBesides == \/ Setup \/ InitRobot \/ BeginMove \/ SkipMove \/ EndMove \/ Close \/ Open
                 \/ Pause \/ Leave

Rest == (ThreadBesides \/ Start \/ RequestStop) /\ UNCHANGED looking

RunNext == Rest \/ Answer \/ NoAnswer \/ LookAtObject \/ Decide

RunSpec == RunInit /\ [][RunNext]_<<vars, looking>>
-------------------------------------------------------------------------------
\* The averages of the Skystones among the first n objects.
SkystonesOf(n) == {frame[j].avg : j \in {m \in 1..n : frame[m].label = "Skystone"}}

\* Whatever the order of the list, the loop has the leftmost of the Skystones it
\* has been through, and an ordinary stone never counts.
LeftmostSkystone ==
    LET seen == SkystonesOf(i)
    IN /\ seen = {} => lowestAvg = Infinity
       /\ seen # {} => lowestAvg \in seen /\ \A a \in seen : lowestAvg <= a

\* The comment above the decision: "set pos value based on where the detected
\* skystone is".  Position 0, which the telemetry calls Left, is for a Skystone
\* beyond the upper threshold, or for none detected.
PosFollowsSkystone ==
    [][Decide /\ SkystonesOf(i) # {} /\ pos' = 0 =>
        \A a \in SkystonesOf(i) : a >= High(variant)]_<<vars, looking>>

\* The stone a program takes is the leftmost Skystone of the frame, it is let go
\* beyond the bridge, and the second one is the stone whose place follows from where
\* the first one was, see SkystoneAuto.
StonesDelivered == LeftmostSkystone /\ LandsPastBridge /\ SecondFollowsFirst

\* No program crosses the field where the stones are, none leaves the gripper down or
\* the detector on, and a robot that was not started stays put, see SkystoneAuto.
RunsClean == CrossesClear /\ CleanEnd /\ UnstartedStaysPut

\* The look object by object is the one look of SkystoneAuto.
ImplementsAuto == Spec
===============================================================================
