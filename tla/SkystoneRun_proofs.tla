--------------------------- MODULE SkystoneRun_proofs ---------------------------
(* The Skystone programs for any averages and any number of objects in a frame, *)
(* whether or not the writes of an interrupted thread arrive: the look object   *)
(* by object implements the one look of SkystoneAuto, whose programs carry each *)
(* stone to its place.                                                          *)
EXTENDS SkystoneRun, SequenceTheorems, TLAPS

-------------------------------------------------------------------------------
(* The look.                                                                    *)

LookType == /\ frame \in Seq(Object) /\ i \in 0 .. Len(frame)
            /\ lowestAvg \in Averages \cup {Infinity} /\ done \in BOOLEAN
            /\ done => i = 0

\* Between an answer and the decision the thread stays at the look.
StaysAtLook == ~done => At("detect") /\ tfod = "active"

LookInv == LookType /\ StaysAtLook /\ LeftmostSkystone

\* A frame is a list of objects.
LEMMA FramesAreLists == Frames \subseteq Seq(Object)
<1>1. \A n \in Nat : [1 .. n -> Object] \subseteq Seq(Object)
  OBVIOUS
<1>2. 0 .. MaxSeen \subseteq Nat
  BY SeenAssumption
<1> QED BY <1>1, <1>2 DEF Frames

\* No object seen: no Skystone seen.
LEMMA NothingSeen == SkystonesOf(0) = {}
BY DEF SkystonesOf

\* One object more: its average counts if it is a Skystone.
LEMMA OneMoreSeen ==
  ASSUME frame \in Seq(Object), NEW n \in Nat, n < Len(frame)
  PROVE  SkystonesOf(n + 1) = SkystonesOf(n) \cup
           (IF frame[n + 1].label = "Skystone" THEN {frame[n + 1].avg} ELSE {})
<1>1. 1 .. n + 1 = (1 .. n) \cup {n + 1}
  OBVIOUS
<1> QED BY <1>1 DEF SkystonesOf

\* What has been seen are averages, all below infinity.
LEMMA SeenAreAverages ==
  ASSUME frame \in Seq(Object), NEW n \in 0 .. Len(frame)
  PROVE  SkystonesOf(n) \subseteq Averages
<1>1. \A j \in 1 .. n : frame[j] \in Object
  BY ElementOfSeq
<1> QED BY <1>1 DEF SkystonesOf, Object

\* Averages are integers below infinity.
LEMMA AveragesAreFinite ==
  Averages \subseteq Int /\ Infinity \in Int /\ \A a \in Averages : a < Infinity
<1>1. Infinity \in Int
  BY SMT DEF Infinity
<1>2. Averages \subseteq Int
  BY <1>1, AutoAssumption
<1>3. \A a \in Averages : a < Infinity
  BY <1>1, AutoAssumption
<1> QED BY <1>1, <1>2, <1>3

\* At the start nothing is being looked at.
LEMMA LookStarts == RunInit => LookInv
BY NothingSeen DEF RunInit, LookInv, LookType, StaysAtLook, LeftmostSkystone

\* The thread and the driver station go on beside the look and keep it.
LEMMA BesidesKeeps ==
  ASSUME LookInv, Rest
  PROVE  UNCHANGED <<frame, i, lowestAvg, done>> /\ StaysAtLook'
<1> USE DEF Rest, looking
<1>1. UNCHANGED <<frame, i, lowestAvg, done>>
  OBVIOUS
<1>2. ASSUME ~done PROVE At("detect")' /\ tfod' = "active"
  <2>1. At("detect") /\ tfod = "active"
    BY <1>2 DEF LookInv, StaysAtLook
  <2>2. UNCHANGED <<variant, pc, at, tfod>>
    BY <2>1 DEF ThreadBesides, Setup, InitRobot, BeginMove, SkipMove, EndMove, Close, Open,
       Pause, Leave, Start, RequestStop, At, Moves
  <2> QED BY <2>1, <2>2 DEF At, Step
<1> QED BY <1>1, <1>2 DEF StaysAtLook

\* Each step keeps what is known of the look.
LEMMA LookStays == LookInv /\ [RunNext]_<<vars, looking>> => LookInv'
<1> SUFFICES ASSUME LookInv, [RunNext]_<<vars, looking>> PROVE LookInv'
  OBVIOUS
<1> USE DEF LookInv
<1>1. CASE Rest
  <2>1. UNCHANGED <<frame, i, lowestAvg, done>> /\ StaysAtLook'
    BY <1>1, BesidesKeeps
  <2> QED BY <2>1 DEF LookType, LeftmostSkystone, SkystonesOf
<1>2. CASE Answer
  <2>1. frame' \in Seq(Object) /\ i' = 0 /\ lowestAvg' = lowestAvg /\ ~done' /\ done' = FALSE
    BY <1>2, FramesAreLists DEF Answer, LookType
  <2>2. LookType'
    <3>1. i' \in 0 .. Len(frame') /\ lowestAvg' \in Averages \cup {Infinity} /\ (done' => i' = 0)
      BY <2>1 DEF LookType
    <3>2. done' \in BOOLEAN
      BY Zenon, <2>1
    <3> QED BY <2>1, <3>1, <3>2 DEF LookType
  <2>3. StaysAtLook'
    BY <1>2 DEF Answer, StaysAtLook, At, Step, vars
  <2>4. lowestAvg = Infinity
    BY <1>2, NothingSeen DEF Answer, LookType, LeftmostSkystone
  <2>5. SkystonesOf(i)' = {}
    BY <2>1 DEF SkystonesOf
  <2> QED BY <2>1, <2>2, <2>3, <2>4, <2>5 DEF LeftmostSkystone
<1>3. CASE NoAnswer
  <2>1. UNCHANGED <<frame, i, lowestAvg, done>> /\ done
    BY <1>3 DEF NoAnswer, looking
  <2> QED BY <2>1 DEF LookType, StaysAtLook, LeftmostSkystone, SkystonesOf
<1>4. CASE LookAtObject
  <2>1. /\ i \in Nat /\ i < Len(frame) /\ i' = i + 1 /\ frame' = frame /\ done' = done /\ ~done
        /\ lowestAvg' = Lower(lowestAvg, frame[i + 1])
    BY <1>4 DEF LookAtObject, LookType
  <2>2. frame[i + 1] \in Object
    BY <2>1, ElementOfSeq DEF LookType
  <2>3. LookType'
    BY <2>1, <2>2 DEF LookType, Lower, Object
  <2>4. StaysAtLook'
    BY <1>4 DEF LookAtObject, StaysAtLook, At, Step, vars
  <2>5. SkystonesOf(i)' = SkystonesOf(i) \cup
          (IF frame[i + 1].label = "Skystone" THEN {frame[i + 1].avg} ELSE {})
    <3>1. SkystonesOf(i)' = SkystonesOf(i + 1)
      BY <2>1 DEF SkystonesOf
    <3> QED BY <2>1, <3>1, OneMoreSeen DEF LookType
  <2>6. SkystonesOf(i) \subseteq Int /\ frame[i + 1].avg \in Int
        /\ frame[i + 1].avg < Infinity /\ lowestAvg \in Int
    <3>1. Averages \subseteq Int /\ Infinity \in Int /\ \A a \in Averages : a < Infinity
      BY AveragesAreFinite
    <3>2. SkystonesOf(i) \subseteq Averages
      BY SeenAreAverages DEF LookType
    <3>3. frame[i + 1].avg \in Averages
      BY <2>2 DEF Object
    <3>4. lowestAvg \in Averages \cup {Infinity}
      BY DEF LookType
    <3> QED BY <3>1, <3>2, <3>3, <3>4
  <2>7. LeftmostSkystone'
    BY <2>1, <2>5, <2>6 DEF LeftmostSkystone, Lower
  <2> QED BY <2>3, <2>4, <2>7
<1>5. CASE Decide
  <2>1. done' /\ done' = TRUE /\ i' = 0 /\ frame' = <<>> /\ lowestAvg' = Infinity
    BY <1>5 DEF Decide, Forget
  <2>2. SkystonesOf(i)' = {}
    BY <2>1 DEF SkystonesOf
  <2> QED BY <2>1, <2>2 DEF LookType, StaysAtLook, LeftmostSkystone
<1>6. CASE UNCHANGED <<vars, looking>>
  <2>1. UNCHANGED <<frame, i, lowestAvg, done, variant, pc, at, tfod>>
    BY <1>6 DEF vars, looking
  <2> QED BY <2>1 DEF LookType, StaysAtLook, LeftmostSkystone, SkystonesOf, At, Step
<1> QED BY <1>1, <1>2, <1>3, <1>4, <1>5, <1>6 DEF RunNext

\* The look object by object implements the one look of SkystoneAuto, for every list
\* of objects (the loop over the recognitions in runOpMode of the four OpModes).
THEOREM Implements == RunSpec => ImplementsAuto
<1>1. RunInit => Init
  BY DEF RunInit
<1>2. LookInv /\ [RunNext]_<<vars, looking>> => [Next]_vars
  <2> SUFFICES ASSUME LookInv, [RunNext]_<<vars, looking>> PROVE [Next]_vars
    OBVIOUS
  <2>1. CASE Rest
    BY <2>1 DEF Rest, ThreadBesides, Next, Thread
  <2>2. CASE Answer \/ LookAtObject \/ UNCHANGED <<vars, looking>>
    BY <2>2 DEF Answer, LookAtObject
  <2>3. CASE NoAnswer
    BY <2>3 DEF NoAnswer, Next, Thread, Look
  <2>4. CASE Decide
    <3>1. At("detect") /\ tfod = "active" /\ lowestAvg \in Averages \cup {Infinity}
      BY <2>4 DEF Decide, LookInv, LookType, StaysAtLook
    <3> QED BY <2>4, <3>1 DEF Decide, Next, Thread, Look
  <2> QED BY <2>1, <2>2, <2>3, <2>4 DEF RunNext
<1> QED BY <1>1, <1>2, LookStarts, LookStays, PTL DEF RunSpec, Spec, ImplementsAuto

-------------------------------------------------------------------------------
(* The programs.  Step k of program v takes the robot D(v, p, k) when the       *)
(* Skystone is at position p, so an OpMode that is not stopped takes its stones *)
(* at Pick1 and Pick2 and lets them go at Drop1 and Drop2.                      *)

TwoStones == {"red2", "blue2"}

Length(v) == IF v \in TwoStones THEN 22 ELSE 15

D(v, p, k)  == Program(v)[k].by[p + 1]
Pick1(v, p) == D(v, 0, 2) + D(v, p, 5)
Drop1(v, p) == Pick1(v, p) + D(v, p, 10)
Pick2(v, p) == Drop1(v, p) + D(v, p, 13)
Drop2(v, p) == Pick2(v, p) + D(v, p, 18)

\* Where the robot is when it comes to step k, and the stones it has taken and let
\* go by then.
XAt(v, p, k) ==
    CASE k \in 1 .. 2   -> 0
      [] k \in 3 .. 5   -> D(v, 0, 2)
      [] k \in 6 .. 10  -> Pick1(v, p)
      [] k \in 11 .. 13 -> Drop1(v, p)
      [] k \in 14 .. 18 -> Pick2(v, p)
      [] k \in 19 .. 21 -> Drop2(v, p)
      [] OTHER          -> Drop2(v, p) + D(v, p, 21)

Taken(v, p, k) ==
    CASE k <= 7  -> <<>>
      [] k > 15  -> <<Pick1(v, p), Pick2(v, p)>>
      [] OTHER   -> <<Pick1(v, p)>>

Dropped(v, p, k) ==
    CASE k <= 11 -> <<>>
      [] k > 19  -> <<Drop1(v, p), Drop2(v, p)>>
      [] OTHER   -> <<Drop1(v, p)>>

AutoType == /\ variant \in Variant
            /\ pc \in {"setup", "waiting", "script", "ended"}
            /\ at \in 1 .. Length(variant)
            /\ moving \in BOOLEAN /\ started \in BOOLEAN /\ stopped \in BOOLEAN
            /\ pos \in 0 .. 2
            /\ x \in Int /\ y \in Int /\ reach \in Int

\* The program begins at its first step and ends at its last.  Only a started OpMode
\* moves, and only where its program has a move.
Phases == /\ pc \in {"setup", "waiting"} => at = 1
          /\ pc = "script" /\ ~stopped => started
          /\ moving => Moves /\ started
          /\ ~started => x = 0 /\ y = 0
          /\ pc = "ended" => at = Length(variant) /\ tfod # "active"

\* Not stopped, the robot is where the moves so far have brought it.
Placed == ~stopped /\ pc # "ended" =>
            /\ x = XAt(variant, pos, at)
            /\ at \in {8, 9, 16, 17} => y = reach
            /\ at \in 10 .. 13 => y = reach + 900
            /\ at \in 18 .. 21 => y = reach + 800

Gripper == pc \in {"script", "ended"} /\ Arrives =>
             grip = IF at \in (8 .. 11) \cup (16 .. 19) THEN "closed" ELSE "open"

\* A stop ends the list of stones, and changes none in it.
Stones == /\ \E k \in 1 .. at : picks = Taken(variant, pos, k)
          /\ \E k \in 1 .. at : drops = Dropped(variant, pos, k)
          /\ ~stopped => /\ picks = Taken(variant, pos, at)
                         /\ drops = Dropped(variant, pos, at)

AutoInv == AutoType /\ Phases /\ Placed /\ Gripper /\ Stones

\* Which steps are moves, grips, releases and looks, program by program.
LEMMA Operations ==
  ASSUME NEW v \in Variant, NEW k \in 1 .. Length(v)
  PROVE  /\ Program(v)[k].op = "across" <=> k \in {2, 5, 10, 13, 18, 21}
         /\ Program(v)[k].op = "along" <=> k \in {1, 6, 9, 14, 17}
         /\ Program(v)[k].op = "grip" <=> k = 7 \/ (k = 15 /\ v \in TwoStones)
         /\ Program(v)[k].op = "release" <=> k \in {11, 19}
         /\ Program(v)[k].op = "wait" <=> k \in {3, 8, 12, 16, 20}
         /\ Program(v)[k].op = "detect" <=> k = 4
         /\ Program(v)[k].op = "shutdown" <=> k = Length(v)
<1>1. CASE v = "red2"
  <2>1. Length(v) = 22 /\ k \in 1 .. 22
    BY <1>1 DEF Length, TwoStones
  <2> QED BY <1>1, <2>1 DEF Program, RedTwo, Across, Along, Wait, Detect, Grip, Release,
        Shutdown, Backward, Forward, Left, Right, TwoStones
<1>2. CASE v = "blue2"
  <2>1. Length(v) = 22 /\ k \in 1 .. 22
    BY <1>2 DEF Length, TwoStones
  <2> QED BY <1>2, <2>1 DEF Program, BlueTwo, Across, Along, Wait, Detect, Grip, Release,
        Shutdown, Backward, Forward, Left, Right, TwoStones
<1>3. CASE v = "red1"
  <2>1. Length(v) = 15 /\ k \in 1 .. 15
    BY <1>3 DEF Length, TwoStones
  <2> QED BY <1>3, <2>1 DEF Program, RedOne, Across, Along, Wait, Detect, Grip, Release,
        Shutdown, Backward, Forward, Left, Right, TwoStones
<1>4. CASE v = "blue1"
  <2>1. Length(v) = 15 /\ k \in 1 .. 15
    BY <1>4 DEF Length, TwoStones
  <2> QED BY <1>4, <2>1 DEF Program, BlueOne, Across, Along, Wait, Detect, Grip, Release,
        Shutdown, Backward, Forward, Left, Right, TwoStones
<1> QED BY <1>1, <1>2, <1>3, <1>4 DEF Variant

\* How far the moves go, program by program: RedSkystoneAuto.
LEMMA RedTwoMoves ==
  ASSUME NEW p \in 0 .. 2
  PROVE  /\ D("red2", p, 1) = -1850
         /\ D("red2", p, 2) = -150
         /\ D("red2", p, 5) = IF p = 0 THEN 200 ELSE IF p = 1 THEN -500 ELSE -1050
         /\ D("red2", p, 6) = -800
         /\ D("red2", p, 9) = 900
         /\ D("red2", p, 10) = IF p = 0 THEN -4300 ELSE IF p = 1 THEN -3700 ELSE -3250
         /\ D("red2", p, 13) = IF p = 0 THEN 6200 ELSE IF p = 1 THEN 5450 ELSE 5000
         /\ D("red2", p, 14) = -700
         /\ D("red2", p, 17) = 800
         /\ D("red2", p, 18) = IF p = 0 THEN -6200 ELSE IF p = 1 THEN -5600 ELSE -5000
         /\ D("red2", p, 21) = 1200
BY DEF D, Program, RedTwo, Across, Along, Wait, Detect, Grip, Release, Shutdown, Backward,
   Forward, Left, Right

\* BlueSkystoneAuto.
LEMMA BlueTwoMoves ==
  ASSUME NEW p \in 0 .. 2
  PROVE  /\ D("blue2", p, 1) = -1850
         /\ D("blue2", p, 2) = 500
         /\ D("blue2", p, 5) = IF p = 0 THEN -750 ELSE IF p = 1 THEN -150 ELSE 550
         /\ D("blue2", p, 6) = -800
         /\ D("blue2", p, 9) = 900
         /\ D("blue2", p, 10) = IF p = 0 THEN 4300 ELSE IF p = 1 THEN 3700 ELSE 3250
         /\ D("blue2", p, 13) = IF p = 0 THEN -6000 ELSE IF p = 1 THEN -5450 ELSE -5000
         /\ D("blue2", p, 14) = -900
         /\ D("blue2", p, 17) = 800
         /\ D("blue2", p, 18) = IF p = 0 THEN 6200 ELSE IF p = 1 THEN 5600 ELSE 5000
         /\ D("blue2", p, 21) = -1200
BY DEF D, Program, BlueTwo, Across, Along, Wait, Detect, Grip, Release, Shutdown, Backward,
   Forward, Left, Right

\* RedSkystoneAutoOneBlock.
LEMMA RedOneMoves ==
  ASSUME NEW p \in 0 .. 2
  PROVE  /\ D("red1", p, 1) = -1850
         /\ D("red1", p, 2) = -150
         /\ D("red1", p, 5) = IF p = 0 THEN 195 ELSE IF p = 1 THEN -445 ELSE -1000
         /\ D("red1", p, 6) = IF p = 0 THEN -1170 ELSE IF p = 1 THEN -1170 ELSE -1155
         /\ D("red1", p, 9) = 900
         /\ D("red1", p, 10) = IF p = 0 THEN -4000 ELSE IF p = 1 THEN -3400 ELSE -2950
         /\ D("red1", p, 13) = 1200
         /\ D("red1", p, 14) = -1000
BY DEF D, Program, RedOne, Across, Along, Wait, Detect, Grip, Release, Shutdown, Backward,
   Forward, Left, Right

\* BlueSkystoneAutoOneBlock.
LEMMA BlueOneMoves ==
  ASSUME NEW p \in 0 .. 2
  PROVE  /\ D("blue1", p, 1) = -1850
         /\ D("blue1", p, 2) = 500
         /\ D("blue1", p, 5) = IF p = 0 THEN -725 ELSE IF p = 1 THEN -125 ELSE 475
         /\ D("blue1", p, 6) = IF p = 0 THEN -1125 ELSE IF p = 1 THEN -1150 ELSE -1175
         /\ D("blue1", p, 9) = 900
         /\ D("blue1", p, 10) = IF p = 0 THEN 4300 ELSE IF p = 1 THEN 3700 ELSE 3250
         /\ D("blue1", p, 13) = -1500
         /\ D("blue1", p, 14) = -900
BY DEF D, Program, BlueOne, Across, Along, Wait, Detect, Grip, Release, Shutdown, Backward,
   Forward, Left, Right

\* So every move of RedSkystoneAuto has its distance.
LEMMA RedTwoDistances == \A p \in 0 .. 2, k \in {1, 2, 5, 6, 9, 10, 13, 14, 17, 18, 21} :
  D("red2", p, k) \in Int
BY RedTwoMoves

\* BlueSkystoneAuto.
LEMMA BlueTwoDistances == \A p \in 0 .. 2, k \in {1, 2, 5, 6, 9, 10, 13, 14, 17, 18, 21} :
  D("blue2", p, k) \in Int
BY BlueTwoMoves

\* RedSkystoneAutoOneBlock.
LEMMA RedOneDistances == \A p \in 0 .. 2, k \in {1, 2, 5, 6, 9, 10, 13, 14} :
  D("red1", p, k) \in Int
BY RedOneMoves

\* BlueSkystoneAutoOneBlock.
LEMMA BlueOneDistances == \A p \in 0 .. 2, k \in {1, 2, 5, 6, 9, 10, 13, 14} :
  D("blue1", p, k) \in Int
BY BlueOneMoves

\* Every move of every program has its distance.
LEMMA Distances ==
  ASSUME NEW v \in Variant, NEW p \in 0 .. 2, NEW k \in 1 .. Length(v),
         Program(v)[k].op \in {"across", "along"}
  PROVE  D(v, p, k) \in Int
<1>1. k \in {1, 2, 5, 6, 9, 10, 13, 14, 17, 18, 21} /\ (v \in TwoStones \/ k <= 15)
  BY Operations DEF Length
<1>2. CASE v = "red2"
  <2>1. k \in {1, 2, 5, 6, 9, 10, 13, 14, 17, 18, 21}
    BY <1>1, <1>2 DEF TwoStones
  <2> QED BY Zenon, <1>2, <2>1, RedTwoDistances
<1>3. CASE v = "blue2"
  <2>1. k \in {1, 2, 5, 6, 9, 10, 13, 14, 17, 18, 21}
    BY <1>1, <1>3 DEF TwoStones
  <2> QED BY Zenon, <1>3, <2>1, BlueTwoDistances
<1>4. CASE v = "red1"
  <2>1. k \in {1, 2, 5, 6, 9, 10, 13, 14}
    BY <1>1, <1>4 DEF TwoStones
  <2> QED BY Zenon, <1>4, <2>1, RedOneDistances
<1>5. CASE v = "blue1"
  <2>1. k \in {1, 2, 5, 6, 9, 10, 13, 14}
    BY <1>1, <1>5 DEF TwoStones
  <2> QED BY Zenon, <1>5, <2>1, BlueOneDistances
<1> QED BY <1>2, <1>3, <1>4, <1>5 DEF Variant

\* The way to the bridge.
WayOf(v) == IF v \in Red THEN -1 ELSE 1

BeyondBridge(v, d) == WayOf(v) * d \in 3950 .. 4500

\* Whatever the position, the measures agree: a stone taken is let go in the strip
\* beyond the bridge, the second one next to the first and from two stones further
\* off, and the strafes that cross the field are the tenth and the eighteenth, and
\* the thirteenth on the way back to the second stone.
LEMMA Measures ==
  ASSUME NEW v \in Variant, NEW p \in 0 .. 2
  PROVE  /\ BeyondBridge(v, Drop1(v, p))
         /\ v \in TwoStones => /\ BeyondBridge(v, Drop2(v, p))
                               /\ WayOf(v) * (Pick1(v, p) - Pick2(v, p)) \in 1700 .. 1900
                               /\ Abs(Drop1(v, p) - Drop2(v, p)) <= 200
                               /\ D(v, p, 13) * WayOf(v) < 0
                               /\ D(v, p, 18) * WayOf(v) > 0
                               /\ D(v, p, 17) = 800 /\ Abs(D(v, p, 21)) < 2000
         /\ v \notin TwoStones => Abs(D(v, p, 13)) < 2000
         /\ D(v, p, 10) * WayOf(v) > 0
         /\ D(v, p, 9) = 900
         /\ Abs(D(v, p, 2)) < 2000 /\ Abs(D(v, p, 5)) < 2000
         /\ D(v, p, 2) = D(v, 0, 2)
<1>1. CASE v = "red2"
  BY <1>1, RedTwoMoves DEF BeyondBridge, WayOf, Drop1, Drop2, Pick1, Pick2, Abs,
     TwoStones, Red
<1>2. CASE v = "blue2"
  BY <1>2, BlueTwoMoves DEF BeyondBridge, WayOf, Drop1, Drop2, Pick1, Pick2, Abs,
     TwoStones, Red
<1>3. CASE v = "red1"
  BY <1>3, RedOneMoves DEF BeyondBridge, WayOf, Drop1, Drop2, Pick1, Pick2, Abs,
     TwoStones, Red
<1>4. CASE v = "blue1"
  BY <1>4, BlueOneMoves DEF BeyondBridge, WayOf, Drop1, Drop2, Pick1, Pick2, Abs,
     TwoStones, Red
<1> QED BY <1>1, <1>2, <1>3, <1>4 DEF Variant

\* A strafe takes the robot from one of its places to the next, every other step
\* leaves it where it is.
LEMMA Strafes ==
  ASSUME NEW v \in Variant, NEW p \in 0 .. 2, NEW k \in {2, 5, 10, 13, 18, 21}
  PROVE  XAt(v, p, k + 1) = XAt(v, p, k) + D(v, p, k)
<1>1. D(v, p, 2) = D(v, 0, 2) /\ D(v, p, 2) \in Int
  <2>1. D(v, p, 2) = D(v, 0, 2)
    BY Measures
  <2>2. 2 \in 1 .. Length(v)
    BY DEF Length
  <2>3. Program(v)[2].op = "across"
    BY <2>2, Operations
  <2> QED BY <2>1, <2>2, <2>3, Distances
<1>2. CASE k = 2
  BY <1>2, <1>1 DEF XAt
<1>3. CASE k = 5
  BY <1>3 DEF XAt, Pick1
<1>4. CASE k = 10
  BY <1>4 DEF XAt, Drop1
<1>5. CASE k = 13
  BY <1>5 DEF XAt, Pick2
<1>6. CASE k = 18
  BY <1>6 DEF XAt, Drop2
<1>7. CASE k = 21
  BY <1>7 DEF XAt
<1> QED BY <1>2, <1>3, <1>4, <1>5, <1>6, <1>7

\* The other steps do not take it to another place.
LEMMA OthersStay ==
  ASSUME NEW v \in Variant, NEW p \in 0 .. 2, NEW k \in 1 .. 21,
         k \notin {2, 5, 10, 13, 18, 21}
  PROVE  XAt(v, p, k + 1) = XAt(v, p, k)
BY DEF XAt

\* The place of the next step, for every step but the last one.
LEMMA NextPlace ==
  ASSUME NEW v \in Variant, NEW p \in 0 .. 2, NEW k \in 1 .. Length(v),
         k # Length(v)
  PROVE  /\ Program(v)[k].op = "across" => XAt(v, p, k + 1) = XAt(v, p, k) + D(v, p, k)
         /\ Program(v)[k].op # "across" => XAt(v, p, k + 1) = XAt(v, p, k)
<1>1. CASE Program(v)[k].op = "across"
  <2>1. k \in {2, 5, 10, 13, 18, 21}
    BY <1>1, Operations
  <2> QED BY <1>1, <2>1, Strafes
<1>2. CASE Program(v)[k].op # "across"
  <2>1. k \in 1 .. 21 /\ k \notin {2, 5, 10, 13, 18, 21}
    BY <1>2, Operations DEF Length
  <2> QED BY <1>2, <2>1, OthersStay
<1> QED BY <1>1, <1>2
-------------------------------------------------------------------------------
(* The invariant holds.                                                         *)

\* The invariant holds at the start.
LEMMA AutoStarts == Init => AutoInv
<1> SUFFICES ASSUME Init PROVE AutoInv
  OBVIOUS
<1>1. AutoType
  <2>1. moving \in BOOLEAN /\ started \in BOOLEAN /\ stopped \in BOOLEAN
    BY Zenon DEF Init
  <2>2. 1 \in 1 .. Length(variant)
    BY DEF Length
  <2> QED BY <2>1, <2>2 DEF Init, AutoType
<1>2. Phases
  BY DEF Init, Phases
<1>3. Placed /\ Gripper
  BY DEF Init, Placed, Gripper, XAt
<1>4. Stones
  BY DEF Init, Stones, Taken, Dropped
<1> QED BY <1>1, <1>2, <1>3, <1>4 DEF AutoInv

\* The thread goes on from every step but the last one, which is the shutdown.
LEMMA GoesOn ==
  ASSUME AutoType, Step.op # "shutdown"
  PROVE  at # Length(variant) /\ at + 1 \in 1 .. Length(variant) /\ at \in 1 .. 21
<1>1. at # Length(variant)
  BY Operations DEF AutoType, Step
<1> QED BY <1>1 DEF AutoType, Length

\* A list of stones stays one of the program's while the program goes on.
LEMMA ListsGoOn ==
  ASSUME AutoType, NEW k \in 1 .. at, at' = at \/ at' = at + 1
  PROVE  k \in 1 .. at'
BY DEF AutoType, Length

\* Where no stone is taken or let go the lists are not longer at the next step.
LEMMA SameLists ==
  ASSUME NEW v, NEW p, NEW k \in Nat, k \notin {7, 11, 15, 19}, k # 0
  PROVE  Taken(v, p, k + 1) = Taken(v, p, k) /\ Dropped(v, p, k + 1) = Dropped(v, p, k)
<1>1. Taken(v, p, k + 1) = Taken(v, p, k)
  BY DEF Taken
<1>2. Dropped(v, p, k + 1) = Dropped(v, p, k)
  BY DEF Dropped
<1> QED BY <1>1, <1>2

\* A second stone on a list.
LEMMA TwoOnList == \A a, b : Append(<<a>>, b) = <<a, b>>
<1> TAKE a, b
<1> DEFINE S == {a, b}
<1>1. <<a>> \in Seq(S) /\ <<a, b>> \in Seq(S) /\ Append(<<a>>, b) \in Seq(S)
  OBVIOUS
<1>2. Len(<<a, b>>) = 2 /\ Len(Append(<<a>>, b)) = 2
  OBVIOUS
<1>3. \A n \in 1 .. 2 : Append(<<a>>, b)[n] = <<a, b>>[n]
  OBVIOUS
<1> QED BY <1>1, <1>2, <1>3, SeqEqual

\* Stones stay on their lists while the program goes on.
LEMMA StonesKept ==
  ASSUME AutoInv, UNCHANGED <<variant, pos, picks, drops>>, stopped => stopped',
         at' = at \/ (at' = at + 1 /\ (stopped \/ at \notin {7, 11, 15, 19}))
  PROVE  Stones'
<1>1. /\ \E k \in 1 .. at' : picks' = Taken(variant', pos', k)
      /\ \E k \in 1 .. at' : drops' = Dropped(variant', pos', k)
  BY ListsGoOn DEF AutoInv, Stones
<1>2. ASSUME ~stopped' PROVE /\ picks' = Taken(variant', pos', at')
                             /\ drops' = Dropped(variant', pos', at')
  <2>1. at \in Nat /\ at # 0
    BY DEF AutoInv, AutoType, Length
  <2>2. ~stopped
    BY <1>2
  <2> QED BY <2>1, <2>2, SameLists DEF AutoInv, Stones
<1> QED BY <1>1, <1>2 DEF Stones

\* Before the program.
LEMMA SetupKeeps == AutoInv /\ Setup => AutoInv'
<1> SUFFICES ASSUME AutoInv, Setup PROVE AutoInv'
  OBVIOUS
<1> USE DEF Setup, robot, history
<1>1. AutoType'
  BY DEF AutoInv, AutoType
<1>2. Phases'
  BY DEF AutoInv, Phases, Moves, At
<1>3. Placed' /\ Gripper'
  BY DEF AutoInv, Placed, Gripper
<1>4. Stones'
  BY StonesKept
<1> QED BY <1>1, <1>2, <1>3, <1>4 DEF AutoInv

\* waitForStart returns and the gripper opens.
LEMMA InitRobotKeeps == AutoInv /\ InitRobot => AutoInv'
<1> SUFFICES ASSUME AutoInv, InitRobot PROVE AutoInv'
  OBVIOUS
<1> USE DEF InitRobot, history
<1>1. AutoType'
  BY DEF AutoInv, AutoType
<1>2. Phases'
  BY DEF AutoInv, Phases, Moves, At
<1>3. Placed'
  BY DEF AutoInv, Placed
<1>4. Gripper'
  BY DEF AutoInv, Phases, Gripper, Arrives
<1>5. Stones'
  BY StonesKept
<1> QED BY <1>1, <1>2, <1>3, <1>4, <1>5 DEF AutoInv

\* A start, or a stop at any time, disturbs nothing.
LEMMA StationKeeps == AutoInv /\ (Start \/ RequestStop) => AutoInv'
<1> SUFFICES ASSUME AutoInv, Start \/ RequestStop PROVE AutoInv'
  OBVIOUS
<1> USE DEF Start, RequestStop, robot, history
<1>1. AutoType'
  <2>1. started' \in BOOLEAN /\ stopped' \in BOOLEAN
    BY Zenon DEF AutoInv, AutoType
  <2> QED BY <2>1 DEF AutoInv, AutoType
<1>2. Phases'
  BY DEF AutoInv, Phases, Moves, At, Step
<1>3. Placed'
  BY DEF AutoInv, Placed
<1>4. Gripper'
  BY DEF AutoInv, Gripper, Arrives
<1>5. Stones'
  BY StonesKept
<1> QED BY <1>1, <1>2, <1>3, <1>4, <1>5 DEF AutoInv

\* A move begins.
LEMMA BeginMoveKeeps == AutoInv /\ BeginMove => AutoInv'
<1> SUFFICES ASSUME AutoInv, BeginMove PROVE AutoInv'
  OBVIOUS
<1> USE DEF BeginMove, robot, history
<1>1. AutoType'
  <2>1. moving' \in BOOLEAN
    BY Zenon
  <2> QED BY <2>1 DEF AutoInv, AutoType
<1>2. Phases'
  BY DEF AutoInv, Phases, Moves, At, Step, opModeIsActive
<1>3. Placed' /\ Gripper'
  BY DEF AutoInv, Placed, Gripper, Arrives
<1>4. Stones'
  BY StonesKept
<1> QED BY <1>1, <1>2, <1>3, <1>4 DEF AutoInv

\* A stopped OpMode skips its moves.
LEMMA SkipMoveKeeps == AutoInv /\ SkipMove => AutoInv'
<1> SUFFICES ASSUME AutoInv, SkipMove PROVE AutoInv'
  OBVIOUS
<1> USE DEF SkipMove, robot, history
<1>1. Step.op \in {"across", "along"} /\ pc = "script" /\ stopped
  BY DEF Moves, At, AutoInv, Phases, opModeIsActive
<1>2. at' \in 1 .. Length(variant) /\ at \in Int
  BY <1>1, GoesOn DEF AutoInv
<1>3. AutoType'
  BY <1>2 DEF AutoInv, AutoType
<1>4. Phases'
  BY <1>1 DEF AutoInv, Phases
<1>5. Placed'
  BY <1>1 DEF Placed
<1>6. Gripper'
  <2>1. at \in {1, 2, 5, 6, 9, 10, 13, 14, 17, 18, 21}
    BY <1>1, Operations DEF AutoInv, AutoType, Step
  <2> QED BY <1>1, <2>1 DEF AutoInv, Gripper, Arrives
<1>7. Stones'
  BY <1>1, StonesKept
<1> QED BY <1>3, <1>4, <1>5, <1>6, <1>7 DEF AutoInv

\* A move ends, at the next place unless the OpMode was stopped.
LEMMA EndMoveKeeps == AutoInv /\ EndMove => AutoInv'
<1> SUFFICES ASSUME AutoInv, EndMove PROVE AutoInv'
  OBVIOUS
<1>1. Step.op \in {"across", "along"} /\ pc = "script" /\ started
  BY DEF EndMove, Moves, At, AutoInv, Phases
<1>2. at' = at + 1 /\ at' \in 1 .. Length(variant) /\ at \in 1 .. 21
  BY <1>1, GoesOn DEF AutoInv, EndMove
<1>3. /\ UNCHANGED <<variant, pc, started, stopped, tfod, pos, grip, reach, picks, drops>>
      /\ moving' = FALSE
  BY DEF EndMove, history
<1>4. D(variant, pos, at) \in Int /\ D(variant, pos, at) = Step.by[pos + 1]
  BY <1>1, Distances DEF AutoInv, AutoType, Step, D
<1>5. PICK part \in (IF stopped THEN 0 .. 2 ELSE {2}) :
        LET d == (D(variant, pos, at) * part) \div 2
        IN IF Step.op = "across" THEN x' = x + d /\ y' = y ELSE y' = y + d /\ x' = x
  BY <1>4 DEF EndMove
<1>6. x' \in Int /\ y' \in Int
  BY <1>4, <1>5 DEF AutoInv, AutoType
<1>7. AutoType'
  <2>1. moving' \in BOOLEAN
    BY Zenon, <1>3
  <2> QED BY <1>2, <1>3, <1>6, <2>1 DEF AutoInv, AutoType
<1>8. Phases'
  BY <1>1, <1>3 DEF AutoInv, Phases
<1>9. at \in {1, 2, 5, 6, 9, 10, 13, 14, 17, 18, 21}
  BY <1>1, Operations DEF AutoInv, AutoType, Step
<1>10. Placed'
  <2> SUFFICES ASSUME ~stopped PROVE
               /\ x' = XAt(variant, pos, at + 1)
               /\ at + 1 \in {8, 9, 16, 17} => y' = reach
               /\ at + 1 \in 10 .. 13 => y' = reach + 900
               /\ at + 1 \in 18 .. 21 => y' = reach + 800
    BY <1>2, <1>3 DEF Placed
  <2>1. part = 2
    BY <1>5
  <2>2. IF Step.op = "across" THEN x' = x + D(variant, pos, at) /\ y' = y
                              ELSE y' = y + D(variant, pos, at) /\ x' = x
    BY <1>4, <1>5, <2>1
  <2>3. x = XAt(variant, pos, at)
    BY <1>1 DEF AutoInv, Placed
  <2>4. x' = XAt(variant, pos, at + 1)
    <3>1. at # Length(variant)
      BY <1>1, GoesOn DEF AutoInv
    <3> QED BY <2>2, <2>3, <3>1, NextPlace DEF AutoInv, AutoType, Step
  <2>5. CASE Step.op = "across"
    <3>1. at \in {2, 5, 10, 13, 18, 21} /\ y' = y
      BY <2>2, <2>5, Operations DEF AutoInv, AutoType, Step
    <3> QED BY <1>1, <2>4, <3>1 DEF AutoInv, Placed
  <2>6. CASE Step.op = "along"
    <3>1. at \in {1, 6, 9, 14, 17} /\ y' = y + D(variant, pos, at)
      BY <2>2, <2>6, Operations DEF AutoInv, AutoType, Step
    <3>2. D(variant, pos, 9) = 900
      BY Measures DEF AutoInv, AutoType
    <3>3. at = 17 => D(variant, pos, 17) = 800
      BY Measures DEF AutoInv, AutoType, Length
    <3> QED BY <1>1, <2>4, <3>1, <3>2, <3>3 DEF AutoInv, AutoType, Placed
  <2> QED BY <1>1, <2>5, <2>6
<1>11. Gripper'
  BY <1>1, <1>2, <1>3, <1>9 DEF AutoInv, Gripper, Arrives
<1>12. Stones'
  BY <1>2, <1>3, <1>9, StonesKept
<1> QED BY <1>7, <1>8, <1>10, <1>11, <1>12 DEF AutoInv

\* A stone is gripped.
LEMMA CloseKeeps == AutoInv /\ Close => AutoInv'
<1> SUFFICES ASSUME AutoInv, Close PROVE AutoInv'
  OBVIOUS
<1>1. Step.op = "grip" /\ pc = "script"
  BY DEF Close, At
<1>2. at' = at + 1 /\ at' \in 1 .. Length(variant) /\ at \in 1 .. 21
  BY <1>1, GoesOn DEF AutoInv, Close
<1>3. at = 7 \/ at = 15
  BY <1>1, Operations DEF AutoInv, AutoType, Step
<1>4. /\ UNCHANGED <<variant, pc, moving, started, stopped, tfod, pos, x, y, drops>>
      /\ grip' = IF Arrives THEN "closed" ELSE grip
      /\ IF stopped THEN UNCHANGED <<reach, picks>>
                    ELSE reach' = y /\ picks' = Append(picks, x)
  BY DEF Close
<1>5. AutoType'
  BY <1>2, <1>4 DEF AutoInv, AutoType
<1>6. ~moving
  BY <1>1 DEF AutoInv, Phases, Moves, At
<1>7. Phases'
  BY <1>1, <1>4, <1>6 DEF AutoInv, Phases
<1>8. XAt(variant, pos, at + 1) = XAt(variant, pos, at)
  BY <1>1, GoesOn, NextPlace DEF AutoInv, AutoType, Step
<1>9. Placed'
  BY <1>1, <1>2, <1>3, <1>4, <1>8 DEF AutoInv, Placed
<1>10. Gripper'
  BY <1>1, <1>2, <1>3, <1>4 DEF AutoInv, Gripper, Arrives
<1>11. Stones'
  <2>1. CASE stopped
    BY <1>2, <1>4, <2>1, StonesKept
  <2>2. CASE ~stopped
    <3>1. x = XAt(variant, pos, at) /\ picks = Taken(variant, pos, at)
          /\ drops = Dropped(variant, pos, at)
      BY <1>1, <2>2 DEF AutoInv, Placed, Stones
    <3>2. CASE at = 7
      <4>1. picks' = <<Pick1(variant, pos)>> /\ drops' = <<>>
        BY <1>4, <2>2, <3>1, <3>2 DEF Taken, Dropped, XAt
      <4>2. picks' = Taken(variant, pos, 8) /\ drops' = Dropped(variant, pos, 8)
        BY <4>1 DEF Taken, Dropped
      <4> QED BY <1>2, <1>4, <3>2, <4>2 DEF Stones
    <3>3. CASE at = 15
      <4>1. /\ picks' = <<Pick1(variant, pos), Pick2(variant, pos)>>
            /\ drops' = <<Drop1(variant, pos)>>
        BY <1>4, <2>2, <3>1, <3>3 DEF Taken, Dropped, XAt
      <4>2. picks' = Taken(variant, pos, 16) /\ drops' = Dropped(variant, pos, 16)
        BY <4>1 DEF Taken, Dropped
      <4> QED BY <1>2, <1>4, <3>3, <4>2 DEF Stones
    <3> QED BY <1>3, <3>2, <3>3
  <2> QED BY <2>1, <2>2
<1> QED BY <1>5, <1>7, <1>9, <1>10, <1>11 DEF AutoInv

\* A stone is let go.
LEMMA OpenKeeps == AutoInv /\ Open => AutoInv'
<1> SUFFICES ASSUME AutoInv, Open PROVE AutoInv'
  OBVIOUS
<1>1. Step.op = "release" /\ pc = "script"
  BY DEF Open, At
<1>2. at' = at + 1 /\ at' \in 1 .. Length(variant) /\ at \in 1 .. 21
  BY <1>1, GoesOn DEF AutoInv, Open
<1>3. at = 11 \/ at = 19
  BY <1>1, Operations DEF AutoInv, AutoType, Step
<1>4. /\ UNCHANGED <<variant, pc, moving, started, stopped, tfod, pos, x, y, reach, picks>>
      /\ grip' = IF Arrives THEN "open" ELSE grip
      /\ drops' = IF stopped THEN drops ELSE Append(drops, x)
  BY DEF Open
<1>5. AutoType'
  BY <1>2, <1>4 DEF AutoInv, AutoType
<1>6. ~moving
  BY <1>1 DEF AutoInv, Phases, Moves, At
<1>7. Phases'
  BY <1>1, <1>4, <1>6 DEF AutoInv, Phases
<1>8. XAt(variant, pos, at + 1) = XAt(variant, pos, at)
  BY <1>1, GoesOn, NextPlace DEF AutoInv, AutoType, Step
<1>9. Placed'
  BY <1>1, <1>2, <1>3, <1>4, <1>8 DEF AutoInv, Placed
<1>10. Gripper'
  BY <1>1, <1>2, <1>3, <1>4 DEF AutoInv, Gripper, Arrives
<1>11. Stones'
  <2>1. CASE stopped
    BY <1>2, <1>4, <2>1, StonesKept
  <2>2. CASE ~stopped
    <3>1. x = XAt(variant, pos, at) /\ picks = Taken(variant, pos, at)
          /\ drops = Dropped(variant, pos, at)
      BY <1>1, <2>2 DEF AutoInv, Placed, Stones
    <3>2. CASE at = 11
      <4>1. drops' = <<Drop1(variant, pos)>> /\ picks' = <<Pick1(variant, pos)>>
        BY <1>4, <2>2, <3>1, <3>2 DEF Taken, Dropped, XAt
      <4>2. picks' = Taken(variant, pos, 12) /\ drops' = Dropped(variant, pos, 12)
        BY <4>1 DEF Taken, Dropped
      <4> QED BY <1>2, <1>4, <3>2, <4>2 DEF Stones
    <3>3. CASE at = 19
      <4>0. picks' = <<Pick1(variant, pos), Pick2(variant, pos)>>
        BY <1>4, <3>1, <3>3 DEF Taken
      <4>1. drops' = <<Drop1(variant, pos), Drop2(variant, pos)>>
        <5>1. x = Drop2(variant, pos)
          BY <3>1, <3>3 DEF XAt
        <5>2. drops = <<Drop1(variant, pos)>>
          BY <3>1, <3>3 DEF Dropped
        <5>3. drops' = Append(drops, x)
          BY <1>4, <2>2
        <5> QED BY <5>1, <5>2, <5>3, TwoOnList
      <4>2. picks' = Taken(variant, pos, 20) /\ drops' = Dropped(variant, pos, 20)
        BY <4>0, <4>1 DEF Taken, Dropped
      <4> QED BY <1>2, <1>4, <3>3, <4>2 DEF Stones
    <3> QED BY <1>3, <3>2, <3>3
  <2> QED BY <2>1, <2>2
<1> QED BY <1>5, <1>7, <1>9, <1>10, <1>11 DEF AutoInv

\* A timed loop ends.
LEMMA PauseKeeps == AutoInv /\ Pause => AutoInv'
<1> SUFFICES ASSUME AutoInv, Pause PROVE AutoInv'
  OBVIOUS
<1>1. Step.op = "wait" /\ pc = "script"
  BY DEF Pause, At
<1>2. at' = at + 1 /\ at' \in 1 .. Length(variant) /\ at \in 1 .. 21
  BY <1>1, GoesOn DEF AutoInv, Pause
<1>3. at \in {3, 8, 12, 16, 20}
  BY <1>1, Operations DEF AutoInv, AutoType, Step
<1>4. UNCHANGED <<variant, pc, moving, started, stopped, tfod, pos, x, y, grip, reach, picks,
        drops>>
  BY DEF Pause, robot, history
<1>5. AutoType'
  BY <1>2, <1>4 DEF AutoInv, AutoType
<1>6. ~moving
  BY <1>1 DEF AutoInv, Phases, Moves, At
<1>7. Phases'
  BY <1>1, <1>4, <1>6 DEF AutoInv, Phases
<1>8. XAt(variant, pos, at + 1) = XAt(variant, pos, at)
  BY <1>1, GoesOn, NextPlace DEF AutoInv, AutoType, Step
<1>9. Placed'
  BY <1>1, <1>2, <1>3, <1>4, <1>8 DEF AutoInv, Placed
<1>10. Gripper'
  BY <1>1, <1>2, <1>3, <1>4 DEF AutoInv, Gripper, Arrives
<1>11. Stones'
  BY <1>2, <1>3, <1>4, StonesKept
<1> QED BY <1>5, <1>7, <1>9, <1>10, <1>11 DEF AutoInv

\* Every average gives one of the three positions, or leaves the one there was.
LEMMA Positions ==
  ASSUME NEW v \in Variant, NEW avg, NEW p \in 0 .. 2
  PROVE  Classify(v, avg, p) \in 0 .. 2
BY DEF Classify, Between, Below

\* The position is decided while the robot stands where it does not depend on it.
LEMMA LookKeeps == AutoInv /\ Look => AutoInv'
<1> SUFFICES ASSUME AutoInv, Look PROVE AutoInv'
  OBVIOUS
<1>1. Step.op = "detect" /\ pc = "script"
  BY DEF Look, At
<1>2. at' = at + 1 /\ at' \in 1 .. Length(variant)
  BY <1>1, GoesOn DEF AutoInv, Look
<1>3. at = 4
  BY <1>1, Operations DEF AutoInv, AutoType, Step
<1>4. UNCHANGED <<variant, pc, moving, started, stopped, tfod, x, y, grip, reach, picks, drops>>
  BY DEF Look, robot, history
<1>5. pos' \in 0 .. 2
  BY Positions DEF Look, AutoInv, AutoType
<1>6. AutoType'
  BY <1>2, <1>4, <1>5 DEF AutoInv, AutoType
<1>7. ~moving
  BY <1>1 DEF AutoInv, Phases, Moves, At
<1>8. Phases'
  BY <1>1, <1>4, <1>7 DEF AutoInv, Phases
<1>9. Placed'
  <2>1. XAt(variant, pos', 5) = XAt(variant, pos, 4)
    BY DEF XAt
  <2> QED BY <1>1, <1>2, <1>3, <1>4, <2>1 DEF AutoInv, Placed
<1>10. Gripper'
  BY <1>1, <1>2, <1>3, <1>4 DEF AutoInv, Gripper, Arrives
<1>11. Stones'
  <2>1. picks = <<>> /\ drops = <<>>
    BY <1>3 DEF AutoInv, Stones, Taken, Dropped
  <2>2. picks' = Taken(variant', pos', 5) /\ drops' = Dropped(variant', pos', 5)
    BY <1>4, <2>1 DEF Taken, Dropped
  <2> QED BY <1>2, <1>3, <2>2 DEF Stones
<1> QED BY <1>6, <1>8, <1>9, <1>10, <1>11 DEF AutoInv

\* The last step leaves the gripper open and the detector off.
LEMMA LeaveKeeps == AutoInv /\ Leave => AutoInv'
<1> SUFFICES ASSUME AutoInv, Leave PROVE AutoInv'
  OBVIOUS
<1>1. Step.op = "shutdown" /\ pc = "script"
  BY DEF Leave, At
<1>2. at = Length(variant)
  BY <1>1, Operations DEF AutoInv, AutoType, Step
<1>3. /\ UNCHANGED <<variant, at, moving, started, stopped, pos, x, y, grip, reach, picks, drops>>
      /\ pc' = "ended" /\ tfod' # "active"
  BY DEF Leave, robot, history
<1>4. AutoType'
  BY <1>3 DEF AutoInv, AutoType
<1>5. ~moving
  BY <1>1 DEF AutoInv, Phases, Moves, At
<1>6. Phases' /\ Placed'
  BY <1>2, <1>3, <1>5 DEF AutoInv, Phases, Placed
<1>7. Gripper'
  BY <1>1, <1>3 DEF AutoInv, Gripper, Arrives
<1>8. Stones'
  BY <1>3, StonesKept
<1> QED BY <1>4, <1>6, <1>7, <1>8 DEF AutoInv

\* So every step keeps the invariant.
LEMMA AutoStays == AutoInv /\ [Next]_vars => AutoInv'
<1>1. ASSUME AutoInv, UNCHANGED vars PROVE AutoInv'
  <2>1. UNCHANGED <<variant, pc, at, moving, started, stopped, tfod, pos, x, y, grip, reach,
        picks, drops>>
    BY <1>1 DEF vars, robot, history
  <2>2. AutoType' /\ Phases' /\ Placed' /\ Gripper'
    BY <1>1, <2>1 DEF AutoInv, AutoType, Phases, Moves, At, Step, Placed, Gripper, Arrives
  <2>3. Stones'
    BY <1>1, <2>1, StonesKept
  <2> QED BY <2>2, <2>3 DEF AutoInv
<1> QED BY <1>1, SetupKeeps, InitRobotKeeps, StationKeeps, BeginMoveKeeps, SkipMoveKeeps,
        EndMoveKeeps, CloseKeeps, OpenKeeps, PauseKeeps, LookKeeps, LeaveKeeps
     DEF Next, Thread

\* The invariant holds throughout, at whatever time the driver station stops the OpMode.
LEMMA AutoAlways == Spec => []AutoInv
<1> QED BY AutoStarts, AutoStays, PTL DEF Spec

-------------------------------------------------------------------------------
(* What the invariant says of the stones and of the end.                        *)

\* At most two stones are let go, each beyond the bridge.
LEMMA Lands == AutoInv => LandsPastBridge
<1> SUFFICES ASSUME AutoInv, NEW n \in 1 .. Len(drops) PROVE Side * drops[n] \in 3950 .. 4500
  BY DEF LandsPastBridge
<1>1. PICK k \in 1 .. at : drops = Dropped(variant, pos, k)
  BY DEF AutoInv, Stones
<1>2. k <= 11 \/ k \in 12 .. 19 \/ k > 19
  BY DEF AutoInv, AutoType, Length
<1>3. Side = WayOf(variant)
  BY DEF Side, WayOf
<1>4. BeyondBridge(variant, Drop1(variant, pos))
  BY Measures DEF AutoInv, AutoType
<1>5. CASE k <= 11
  <2>1. drops = <<>>
    BY <1>1, <1>5 DEF Dropped
  <2> QED BY <2>1
<1>6. CASE k \in 12 .. 19
  <2>1. drops = <<Drop1(variant, pos)>>
    BY <1>1, <1>6 DEF Dropped
  <2>2. n = 1
    BY <2>1
  <2> QED BY <1>3, <1>4, <2>1, <2>2 DEF BeyondBridge
<1>7. CASE k > 19
  <2>1. drops = <<Drop1(variant, pos), Drop2(variant, pos)>>
    BY <1>1, <1>7 DEF Dropped
  <2>2. variant \in TwoStones
    BY <1>7 DEF AutoInv, AutoType, Length
  <2>3. BeyondBridge(variant, Drop2(variant, pos))
    BY <2>2, Measures DEF AutoInv, AutoType
  <2>4. n = 1 \/ n = 2
    BY <2>1
  <2> QED BY <1>3, <1>4, <2>1, <2>3, <2>4 DEF BeyondBridge
<1> QED BY <1>2, <1>5, <1>6, <1>7

\* The second stone is fetched and let go where the first one says.
LEMMA Follows == AutoInv => SecondFollowsFirst
<1> SUFFICES ASSUME AutoInv PROVE SecondFollowsFirst
  OBVIOUS
<1>1. PICK k \in 1 .. at : picks = Taken(variant, pos, k)
  BY DEF AutoInv, Stones
<1>2. PICK m \in 1 .. at : drops = Dropped(variant, pos, m)
  BY DEF AutoInv, Stones
<1>3. Side = WayOf(variant)
  BY DEF Side, WayOf
<1>4. ASSUME Len(picks) = 2 PROVE Side * (picks[1] - picks[2]) \in 1700 .. 1900
  <2>1. k > 15
    BY <1>1, <1>4 DEF Taken, AutoInv, AutoType, Length
  <2>2. picks = <<Pick1(variant, pos), Pick2(variant, pos)>>
    BY <1>1, <2>1 DEF Taken
  <2>3. variant \in TwoStones
    BY <2>1 DEF AutoInv, AutoType, Length
  <2>4. WayOf(variant) * (Pick1(variant, pos) - Pick2(variant, pos)) \in 1700 .. 1900
    BY <2>3, Measures DEF AutoInv, AutoType
  <2> QED BY <1>3, <2>2, <2>4
<1>5. ASSUME Len(drops) = 2 PROVE Abs(drops[1] - drops[2]) <= 200
  <2>1. m > 19
    BY <1>2, <1>5 DEF Dropped, AutoInv, AutoType, Length
  <2>2. drops = <<Drop1(variant, pos), Drop2(variant, pos)>>
    BY <1>2, <2>1 DEF Dropped
  <2>3. variant \in TwoStones
    BY <2>1 DEF AutoInv, AutoType, Length
  <2>4. Abs(Drop1(variant, pos) - Drop2(variant, pos)) <= 200
    BY <2>3, Measures DEF AutoInv, AutoType
  <2> QED BY <2>2, <2>4
<1> QED BY <1>4, <1>5 DEF SecondFollowsFirst

\* The strafes across the field start clear of the stones, the gripper the right way.
LEMMA Crosses == AutoInv => CrossesClear
<1> SUFFICES ASSUME AutoInv, moving, ~stopped, Step.op = "across", Abs(Step.by[pos + 1]) >= 2000
             PROVE  /\ y >= reach + 800
                    /\ grip = IF Step.by[pos + 1] * Side > 0 THEN "closed" ELSE "open"
  BY DEF CrossesClear
<1>1. Step.by[pos + 1] = D(variant, pos, at) /\ Side = WayOf(variant)
  BY DEF Step, D, Side, WayOf
<1>2. pc = "script" /\ Arrives
  BY DEF AutoInv, Phases, Moves, At, Arrives
<1>3. at \in {2, 5, 10, 13, 18, 21}
  BY Operations DEF AutoInv, AutoType, Step
<1>4. at \in {18, 21} => variant \in TwoStones
  BY DEF AutoInv, AutoType, Length
<1>5. Abs(D(variant, pos, at)) >= 2000
  BY <1>1
<1>6. at = 10 \/ at = 18 \/ (at = 13 /\ variant \in TwoStones)
  <2>1. Abs(D(variant, pos, 2)) < 2000 /\ Abs(D(variant, pos, 5)) < 2000
    BY Measures DEF AutoInv, AutoType
  <2>2. variant \in TwoStones => Abs(D(variant, pos, 21)) < 2000
    BY Measures DEF AutoInv, AutoType
  <2>3. variant \notin TwoStones => Abs(D(variant, pos, 13)) < 2000
    BY Measures DEF AutoInv, AutoType
  <2>4. D(variant, pos, at) \in Int
    BY Distances DEF AutoInv, AutoType, Step
  <2>5. Abs(D(variant, pos, at)) \in Int
    BY <2>4 DEF Abs
  <2> QED BY <1>3, <1>4, <1>5, <2>1, <2>2, <2>3, <2>5
<1>7. y >= reach + 800
  BY <1>2, <1>6 DEF AutoInv, AutoType, Placed
<1>8. CASE at = 10
  <2>1. D(variant, pos, 10) * WayOf(variant) > 0
    BY Measures DEF AutoInv, AutoType
  <2> QED BY <1>1, <1>2, <1>7, <1>8, <2>1 DEF AutoInv, Gripper
<1>9. CASE at = 18
  <2>1. D(variant, pos, 18) * WayOf(variant) > 0
    BY <1>4, <1>9, Measures DEF AutoInv, AutoType
  <2> QED BY <1>1, <1>2, <1>7, <1>9, <2>1 DEF AutoInv, Gripper
<1>10. CASE at = 13 /\ variant \in TwoStones
  <2>1. D(variant, pos, 13) * WayOf(variant) < 0
    BY <1>10, Measures DEF AutoInv, AutoType
  <2>2. ~(D(variant, pos, 13) * WayOf(variant) > 0)
    <3>1. D(variant, pos, 13) \in Int
      BY <1>10, Distances DEF AutoInv, AutoType, Step
    <3> QED BY <2>1, <3>1 DEF WayOf
  <2> QED BY <1>1, <1>2, <1>7, <1>10, <2>2 DEF AutoInv, Gripper
<1> QED BY <1>6, <1>8, <1>9, <1>10

\* Each stone is the leftmost Skystone of the frame, is let go beyond the bridge, and
\* the second one follows from the first (runOpMode of the four OpModes).
THEOREM Delivered == RunSpec => []StonesDelivered
<1>1. LookInv /\ AutoInv => StonesDelivered
  BY Lands, Follows DEF LookInv, StonesDelivered
<1>2. RunSpec => []LookInv
  BY LookStarts, LookStays, PTL DEF RunSpec
<1> QED BY <1>1, <1>2, Implements, AutoAlways, PTL DEF ImplementsAuto

\* No program crosses the field where the stones are or with the gripper the wrong way,
\* none leaves the gripper down or the detector on, whenever it is stopped, and an
\* OpMode that was not started stays put (runOpMode of the four OpModes).
THEOREM Clean == RunSpec => []RunsClean
<1>1. AutoInv => CleanEnd
  <2> SUFFICES ASSUME AutoInv, pc = "ended" PROVE tfod # "active" /\ (Arrives => grip = "open")
    BY DEF CleanEnd
  <2>1. at = 15 \/ at = 22
    BY DEF AutoInv, Phases, Length
  <2> QED BY <2>1 DEF AutoInv, Phases, Gripper
<1>2. AutoInv => UnstartedStaysPut
  BY DEF AutoInv, Phases, UnstartedStaysPut
<1>3. AutoInv => RunsClean
  BY <1>1, <1>2, Crosses DEF RunsClean
<1> QED BY <1>3, Implements, AutoAlways, PTL DEF ImplementsAuto
===============================================================================
