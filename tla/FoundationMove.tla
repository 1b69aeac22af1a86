--------------------------- MODULE FoundationMove ---------------------------
(* RedFoundationMove and BlueFoundationMove: drag the foundation into the     *)
(* corner, wait for the last seconds of the autonomous period, park.          *)
(*                                                                            *)
(* One ElapsedTime object, `runtime', serves four purposes at once: moveRTP   *)
(* resets it at the start and again at the settling of every move, the pauses *)
(* for the gripper read it against a start time of their own, the display     *)
(* subtracts it from the 30 seconds of the period, and the wait before        *)
(* parking uses its underlying clock, which no reset touches.                 *)
(*                                                                            *)
(* Time is in ticks; a clock read in seconds is cut to whole seconds.         *)
EXTENDS Integers

CONSTANTS Second,     \* ticks in a second
          Pause,      \* the 500 ms of a pause or a settling, in ticks
          ParkAt,     \* 26: the second at which the robot parks
          Period,     \* 30: the seconds of the autonomous period
          MaxNow      \* bound on the clock

VARIABLES
    at,           \* the statement of runOpMode, see Program
    phase,        \* of a move: "none", "driving" or "settling"
    now,          \* the clock that runtime.now() reads
    zero,         \* the clock at the last reset of runtime
    matchStart,   \* matchStartTime
    startTime,
    shown,        \* the number of seconds last displayed
    gripper,      \* foundationGripper: "unset", "up" (init), "down" or "free"
    started, stopped,
    startedAt,    \* the clock when waitForStart returned
    gripAt        \* the clock when the gripper was last given a position

timing == <<zero, matchStart, startTime, shown>>
history == <<startedAt, gripAt>>
vars == <<at, phase, now, timing, gripper, started, stopped, history>>

\* runOpMode, statement by statement; `drag' to `park' are calls of moveRTP.
Program == <<"start", "back", "aside", "approach", "lower", "mark1", "hold1",
             "drag", "lift", "mark2", "hold2", "await", "park", "ended">>

Statement == Program[at]
Moves == Statement \in {"back", "aside", "approach", "drag", "park"}

time == now - zero                          \* runtime.time()
Seconds(t) == t \div Second                 \* TimeUnit.SECONDS
opModeIsActive == started /\ ~stopped
Abs(n) == IF n < 0 THEN -n ELSE n

Init == /\ at = 1 /\ phase = "none"
        /\ now \in 0..(Second - 1)
        /\ zero = 0 /\ matchStart = 0 /\ startTime = 0 /\ shown = Period
        /\ gripper = "unset"
        /\ started = FALSE /\ stopped = FALSE
        /\ startedAt = 0 /\ gripAt = 0

\* waitForStart returns, the start of the match is noted, the robot initialised.
WaitForStart ==
    /\ Statement = "start" /\ (started \/ stopped)
    /\ matchStart' = Seconds(now)
    /\ startedAt' = now
    /\ gripper' = "up" /\ gripAt' = now
    /\ at' = at + 1
    /\ UNCHANGED <<phase, now, zero, startTime, shown, started, stopped>>

\* moveRTP: reset the timer and drive (not at all if the OpMode was stopped), ...
Drive == /\ Moves /\ phase = "none"
         /\ phase' = "driving" /\ zero' = now
         /\ UNCHANGED <<at, now, matchStart, startTime, shown, gripper, started, stopped, history>>

\* ... reset it again and let the PIDs settle, ...
Settle == /\ phase = "driving"
          /\ phase' = "settling" /\ zero' = now
          /\ UNCHANGED <<at, now, matchStart, startTime, shown, gripper, started, stopped, history>>

\* ... and return.
Arrive == /\ phase = "settling"
          /\ time >= Pause \/ ~opModeIsActive
          /\ phase' = "none" /\ at' = at + 1
          /\ UNCHANGED <<now, timing, gripper, started, stopped, history>>

SetGripper(s, position) ==
    /\ Statement = s
    /\ gripper' = position /\ gripAt' = now
    /\ at' = at + 1
    /\ UNCHANGED <<phase, now, timing, started, stopped, startedAt>>

Lower == SetGripper("lower", "down")
Lift == SetGripper("lift", "free")

\* Mutant: the second pause counts from the start time of the first.
MarkFirst == /\ Statement \in {"mark1", "mark2"}
             /\ startTime' = IF Statement = "mark1" THEN time ELSE startTime
             /\ at' = at + 1
             /\ UNCHANGED <<phase, now, zero, matchStart, shown, gripper, started, stopped, history>>

Mark == /\ Statement \in {"mark1", "mark2"}
        /\ startTime' = time
        /\ at' = at + 1
        /\ UNCHANGED <<phase, now, zero, matchStart, shown, gripper, started, stopped, history>>

Held == ~(Abs(time - startTime) < Pause /\ opModeIsActive)

Hold == /\ Statement \in {"hold1", "hold2"} /\ Held
        /\ at' = at + 1
        /\ UNCHANGED <<phase, now, timing, gripper, started, stopped, history>>

\* The wait before parking, and what it displays as it turns.
TooEarly == Seconds(now) - matchStart < ParkAt /\ opModeIsActive

Display == /\ Statement = "await" /\ TooEarly
           /\ shown' = Period - Seconds(time)
           /\ UNCHANGED <<at, phase, now, zero, matchStart, startTime, gripper,
                          started, stopped, history>>

Await == /\ Statement = "await" /\ ~TooEarly
         /\ at' = at + 1
         /\ UNCHANGED <<phase, now, timing, gripper, started, stopped, history>>

Thread == \/ WaitForStart \/ Drive \/ Settle \/ Arrive \/ Lower \/ Lift \/ Mark \/ Hold
          \/ Display \/ Await

\* The driver station, and the clock.
Start == /\ ~started /\ ~stopped
         /\ started' = TRUE
         /\ UNCHANGED <<at, phase, now, timing, gripper, stopped, history>>

RequestStop == /\ ~stopped /\ Statement # "ended"
               /\ stopped' = TRUE
               /\ UNCHANGED <<at, phase, now, timing, gripper, started, history>>

Tick == /\ now < MaxNow
        /\ now' = now + 1
        /\ UNCHANGED <<at, phase, timing, gripper, started, stopped, history>>

Next == Thread \/ Start \/ RequestStop \/ Tick

Spec == Init /\ [][Next]_vars

-----------------------------------------------------------------------------
(* Properties.                                                               *)

TypeOK == /\ at \in 1..14
          /\ phase \in {"none", "driving", "settling"}
          /\ now \in 0..MaxNow /\ zero \in 0..now
          /\ matchStart \in 0..Seconds(now)
          /\ startTime \in 0..MaxNow
          /\ shown \in Int
          /\ gripper \in {"unset", "up", "down", "free"}
          /\ started \in BOOLEAN /\ stopped \in BOOLEAN
          /\ startedAt \in 0..now /\ gripAt \in startedAt..now

\* The robot does not drive off with the foundation, nor away from it, before
\* the gripper has had its pause, although the moves on either side of the
\* pause reset the timer it is counted on.
GripperHasItsPause ==
    (Statement \in {"drag", "park"} /\ phase = "driving" /\ ~stopped)
        => zero - gripAt >= Pause

\* An OpMode that is not stopped parks with the foundation released and no
\* earlier than the 26th second of the match, to within the second that cutting
\* the clock can lose, however long before the match the clock was started.
ParksLate ==
    (Statement = "park" /\ phase = "driving" /\ ~stopped)
        => /\ zero - startedAt > (ParkAt - 1) * Second
           /\ gripper = "free"

\* The display is labelled "time left:" and counts down from the length of the
\* period: it should be the seconds of the match that are left.
ShowsTimeLeft ==
    [][Display => Abs(shown' - (Period - (Seconds(now) - matchStart))) <= 1]_vars
=============================================================================
