------------------------------ MODULE MoveRTP ------------------------------
(* HardwareDesignosaurs.moveRTP: drive a commanded number of inches with the  *)
(* motors' RUN_TO_POSITION mode, an acceleration ramp and a deceleration      *)
(* ramp, called by the autonomous OpModes one move after another.             *)
(*                                                                            *)
(* Three actors interleave: the OpMode's thread (the statements of moveRTP,   *)
(* one motor call at a time), the motors (they turn towards their targets     *)
(* whenever they are powered), and the driver station (it may stop the OpMode *)
(* between any two statements; the thread is then interrupted but goes on).   *)
(*                                                                            *)
(* Units: positions are in inches, and speeds in tenths of full power, so the *)
(* "/10" of the deceleration ramp disappears; time is in ticks of the clock.  *)
EXTENDS Integers

CONSTANTS
    Commands,      \* the moves the OpModes ask for: [dir, dist, max]
    SideBias(_),   \* encoder distance of a strafe of so many inches
    MinSpeed,      \* minSpeed
    Accel,         \* accelPerSec, per tick
    MaxDt,         \* longest time between two samples of the loop, in ticks
    SettleTicks,   \* the 500 ms the PIDs are left to settle
    MaxTravel,     \* furthest a wheel turns between two samples
    Skew,          \* furthest one wheel gets ahead of another (rigid frame)
    MaxCalls,      \* most calls one OpMode makes
    Delivers       \* do motor writes of an interrupted thread arrive?

Wheel == {"fl", "fr", "bl", "br"}
Direction == {"forward", "backward", "left", "right"}
Strafes == {"left", "right"}

ASSUME MoveAssumption ==
    /\ Commands \subseteq [dir : Direction, dist : Nat, max : Nat]
    /\ \A c \in Commands : SideBias(c.dist) \in Nat /\ SideBias(c.dist) >= c.dist
    /\ MinSpeed \in Nat \ {0}
    /\ Accel \in Nat \ {0}
    /\ MaxDt \in Nat \ {0}
    /\ SettleTicks \in Nat
    /\ MaxTravel \in Nat \ {0}
    /\ Skew \in Nat \ {0}
    /\ MaxCalls \in Nat
    /\ Delivers \in BOOLEAN

\* The loop is fast enough for the window in which the ramp locks (minSpeed on
\* either side of the commanded distance) not to be jumped between two samples.
ASSUME SamplingAssumption == MaxTravel <= 2 * MinSpeed

VARIABLES
    pc,        \* the statement of moveRTP the thread is at
    k,         \* the position in the run of four motor calls it is making
    left,      \* the moves the OpMode has still to ask for
    cmd,       \* the arguments of the call in progress, or of the last one
    mode,      \* run mode of each drive motor
    target,    \* target position of each drive motor
    enc,       \* encoder position of each drive motor
    power,     \* power last given to each drive motor
    rampUp,    \* rampUpSpeed
    lock,      \* rampDownLock
    speed,     \* currentSpeed
    clock,     \* time since the last sample, or since the settling began
    rolled,    \* how far frontRight has turned since the last sample
    stopped    \* a stop has been requested

motors == <<mode, target, enc, power>>
locals == <<rampUp, lock, speed>>
vars == <<pc, k, left, cmd, motors, locals, clock, rolled, stopped>>

Abs(x) == IF x < 0 THEN -x ELSE x
Least(a, b) == IF a < b THEN a ELSE b
Most(a, b) == IF a < b THEN b ELSE a

\* Mutant: the last line of setPowers repeats backRight.
PowerOrderSlip == <<"fr", "fl", "br", "br">>

\* The orders in which the code visits the four motors.
PowerOrder == <<"fr", "fl", "br", "bl">>
TargetOrder == <<"fl", "fr", "bl", "br">>

-----------------------------------------------------------------------------
(* Where a command sends each wheel, and how fast.                           *)

\* The wheels whose target is positive for each direction.
Positive(dir) == CASE dir = "forward"  -> {"bl", "br"}
                   [] dir = "backward" -> {"fl", "fr"}
                   [] dir = "left"     -> {"fr", "bl"}
                   [] dir = "right"    -> {"fl", "br"}

\* Strafes are lengthened by sideBias to make up for the rollers' slip.
Reach(c) == IF c.dir \in Strafes THEN SideBias(c.dist) ELSE c.dist

Goal(c, w) == IF w \in Positive(c.dir) THEN Reach(c) ELSE -Reach(c)

\* A motor call takes effect unless the thread that makes it was interrupted
\* and the controller needs an uninterrupted one.
Arrives == stopped => Delivers

\* isBusy(), which answers "not busy" on an interrupted thread when the
\* controller cannot be asked.
Busy(w) == Arrives /\ enc[w] # target[w]

\* getCurrentPosition(), which answers 0 in that case.
Position(w) == IF Arrives THEN enc[w] ELSE 0

opModeIsActive == ~stopped

\* Mutant: the ramp is never held at maxSpeed.
RampUpUnheld(up, dt, max) == up + dt * Accel

\* Acceleration: the sample that reaches maxSpeed may exceed it.
RampUp(up, dt, max) == IF up < max THEN up + dt * Accel ELSE max

\* Mutants: the distance left goes negative past the commanded distance; no
\* minSpeed below which the ramp may not go.
RampDownSigned(pos, dist) == dist - Abs(pos)
RampDownToZero(pos, dist) == Abs(Abs(pos) - dist)

\* Deceleration: distance left to the commanded distance, whichever side.
RampDown(pos, dist) == Most(Abs(Abs(pos) - dist), MinSpeed)

\* Mutant: the lock waits for the ramp to fall below minSpeed, which it may not.
LocksBelow(locked, down) == locked \/ down < MinSpeed

\* Once at minSpeed the ramp stays there.
Locks(locked, down) == locked \/ down = MinSpeed

-----------------------------------------------------------------------------
(* The motor controller.                                                     *)

Call(var, new) == IF Arrives THEN new ELSE var

\* Going through a mode change, a motor keeps the power it had.
SetMode(w, m) == mode' = Call(mode, [mode EXCEPT ![w] = m])

\* Mutant: backRight is forgotten.
SetTargetThree(w, t) ==
    target' = IF w = "br" THEN target ELSE Call(target, [target EXCEPT ![w] = t])

SetTarget(w, t) == target' = Call(target, [target EXCEPT ![w] = t])
SetPower(w, p) == power' = Call(power, [power EXCEPT ![w] = p])

Driven(w) == mode[w] = "run_to_position" /\ power[w] > 0

\* The four calls of one run, then the next statement.
Advance(from, to) == IF k < 4 THEN pc' = from /\ k' = k + 1
                              ELSE pc' = to /\ k' = 1

-----------------------------------------------------------------------------
(* Init: what HardwareDesignosaurs.init leaves the drive motors in.          *)

Init ==
    /\ pc = "idle" /\ k = 1
    /\ left \in 0..MaxCalls
    /\ cmd \in Commands
    /\ mode = [w \in Wheel |-> "run_without_encoder"]
    /\ target = [w \in Wheel |-> 0]
    /\ enc = [w \in Wheel |-> 0]
    /\ power = [w \in Wheel |-> 0]
    /\ rampUp = 0 /\ lock = FALSE /\ speed = 0
    /\ clock = 0 /\ rolled = 0
    /\ stopped = FALSE

(* The OpMode's thread.                                                      *)

\* The OpMode calls moveRTP; it does so whether or not it was stopped.
Begin ==
    /\ pc = "idle" /\ left > 0
    /\ left' = left - 1
    /\ cmd' \in Commands
    /\ pc' = "reset" /\ k' = 1
    /\ UNCHANGED <<motors, locals, clock, rolled, stopped>>

\* setMode(STOP_AND_RESET_ENCODER), motor by motor.
ResetEncoder ==
    /\ pc = "reset"
    /\ SetMode(PowerOrder[k], "stop_and_reset")
    /\ enc' = Call(enc, [enc EXCEPT ![PowerOrder[k]] = 0])
    /\ Advance("reset", "mode")
    /\ UNCHANGED <<left, cmd, target, power, locals, clock, rolled, stopped>>

\* setTargetPos, first statement: the mode is switched ...
TargetMode ==
    /\ pc = "mode"
    /\ SetMode(TargetOrder[k], "run_to_position")
    /\ pc' = "target"
    /\ UNCHANGED <<k, left, cmd, target, enc, power, locals, clock, rolled, stopped>>

\* ... and only then the target is given.  After the last motor the clock is
\* reset and the ramps start afresh.
TargetPosition ==
    /\ pc = "target"
    /\ SetTarget(TargetOrder[k], Goal(cmd, TargetOrder[k]))
    /\ Advance("mode", "check")
    /\ IF k = 4
         THEN rampUp' = 0 /\ lock' = FALSE /\ speed' = 0 /\ clock' = 0 /\ rolled' = 0
         ELSE UNCHANGED <<locals, clock, rolled>>
    /\ UNCHANGED <<left, cmd, mode, enc, power, stopped>>

\* Mutant: the loop does not ask whether the OpMode is active.
ContinuesDeaf == \A w \in Wheel : Busy(w)

\* The loop's condition: every wheel still busy, and the OpMode active.
Continues == opModeIsActive /\ \A w \in Wheel : Busy(w)

Check ==
    /\ pc = "check"
    /\ IF Continues
         THEN pc' = "sample" /\ UNCHANGED clock
         ELSE pc' = "settle" /\ clock' = 0
    /\ UNCHANGED <<k, left, cmd, motors, locals, rolled, stopped>>

\* One pass of the loop reads the clock and frontRight and computes the speed.
Sample ==
    /\ pc = "sample"
    /\ LET down == RampDown(Position("fr"), cmd.dist)
       IN /\ rampUp' = RampUp(rampUp, clock, cmd.max)
          /\ lock' = Locks(lock, down)
          /\ speed' = Least(rampUp', IF lock THEN MinSpeed ELSE down)
    /\ clock' = 0 /\ rolled' = 0
    /\ pc' = "write" /\ k' = 1
    /\ UNCHANGED <<left, cmd, motors, stopped>>

\* setPowers(currentSpeed), motor by motor.
WritePower ==
    /\ pc = "write"
    /\ SetPower(PowerOrder[k], speed)
    /\ Advance("write", "check")
    /\ UNCHANGED <<left, cmd, mode, target, enc, locals, clock, rolled, stopped>>

\* The 500 ms of settling are over, or cut short by a stop.
Settled == clock >= SettleTicks \/ ~opModeIsActive

\* Mutant: the move returns without braking.
SettleAndReturn ==
    /\ pc = "settle" /\ Settled
    /\ pc' = "idle" /\ k' = 1
    /\ UNCHANGED <<left, cmd, motors, locals, clock, rolled, stopped>>

Settle ==
    /\ pc = "settle" /\ Settled
    /\ pc' = "brake" /\ k' = 1
    /\ UNCHANGED <<left, cmd, motors, locals, clock, rolled, stopped>>

\* Mutant: the last motor is not switched off.
BrakeThree ==
    /\ pc = "brake"
    /\ SetPower(PowerOrder[k], IF k < 4 THEN 0 ELSE power[PowerOrder[k]])
    /\ Advance("brake", "idle")
    /\ UNCHANGED <<left, cmd, mode, target, enc, locals, clock, rolled, stopped>>

\* setPowers(0), motor by motor, and return.
Brake ==
    /\ pc = "brake"
    /\ SetPower(PowerOrder[k], 0)
    /\ Advance("brake", "idle")
    /\ UNCHANGED <<left, cmd, mode, target, enc, locals, clock, rolled, stopped>>

\* runOpMode returns after its last move; the platform then stops the OpMode.
Finish ==
    /\ pc = "idle" /\ left = 0
    /\ pc' = "ended" /\ stopped' = TRUE
    /\ UNCHANGED <<k, left, cmd, motors, locals, clock, rolled>>

Thread == \/ Begin \/ ResetEncoder \/ TargetMode \/ TargetPosition \/ Check
          \/ Sample \/ WritePower \/ Settle \/ Brake \/ Finish

-----------------------------------------------------------------------------
(* The other actors.                                                         *)

Looping == pc \in {"check", "sample", "write"}

\* A powered wheel turns one inch towards its target.
Roll(w) ==
    /\ Driven(w) /\ enc[w] # target[w]
    /\ \A v \in Wheel : Abs(enc[w]) < Abs(enc[v]) + Skew
    /\ enc' = [enc EXCEPT ![w] = IF @ < target[w] THEN @ + 1 ELSE @ - 1]
    /\ IF w = "fr" /\ Looping
         THEN rolled < MaxTravel /\ rolled' = rolled + 1
         ELSE UNCHANGED rolled
    /\ UNCHANGED <<pc, k, left, cmd, mode, target, power, locals, clock, stopped>>

Tick ==
    /\ \/ Looping /\ clock < MaxDt
       \/ pc = "settle" /\ clock < SettleTicks
    /\ clock' = clock + 1
    /\ UNCHANGED <<pc, k, left, cmd, motors, locals, rolled, stopped>>

\* stop(): the flag is raised and the thread interrupted.
RequestStop ==
    /\ ~stopped
    /\ stopped' = TRUE
    /\ UNCHANGED <<pc, k, left, cmd, motors, locals, clock, rolled>>

\* With no OpMode running the platform switches every motor off.
SafeOff ==
    /\ pc = "ended"
    /\ \E w \in Wheel : power[w] # 0
    /\ power' = [w \in Wheel |-> 0]
    /\ UNCHANGED <<pc, k, left, cmd, mode, target, enc, locals, clock, rolled, stopped>>

Motor == \E w \in Wheel : Roll(w)

Next == Thread \/ Motor \/ Tick \/ RequestStop \/ SafeOff

Spec == Init /\ [][Next]_vars

\* Java schedules the OpMode's thread and time passes: all the code relies on
\* to honour a stop, even with a wheel that is stuck.
ThreadFairness == WF_vars(Thread) /\ WF_vars(Tick)

StopSpec == Spec /\ ThreadFairness

\* To finish a move it relies on the motors as well: a powered wheel turns.
MotorsTurn == \A w \in Wheel : WF_vars(Roll(w))

-----------------------------------------------------------------------------
(* Properties.                                                               *)

Mode == {"run_without_encoder", "stop_and_reset", "run_to_position"}
Statement == {"idle", "reset", "mode", "target", "check", "sample", "write",
              "settle", "brake", "ended"}

TypeOK ==
    /\ pc \in Statement
    /\ k \in 1..4
    /\ left \in 0..MaxCalls
    /\ cmd \in Commands
    /\ mode \in [Wheel -> Mode]
    /\ target \in [Wheel -> Int]
    /\ enc \in [Wheel -> Int]
    /\ power \in [Wheel -> Nat]
    /\ rampUp \in Nat
    /\ lock \in BOOLEAN
    /\ speed \in Nat
    /\ clock \in Nat
    /\ rolled \in Nat
    /\ stopped \in BOOLEAN

\* The switch to RUN_TO_POSITION comes before the new target (setTargetPos), and
\* a motor keeps its power through both: a wheel must be off while its target
\* is still that of an earlier move, whatever happened in that move.
NoStaleTargetDrive ==
    Arrives => \A w \in Wheel : Driven(w) => target[w] = Goal(cmd, w)

\* The position of frontRight that the last sample saw.
Seen == Abs(enc["fr"]) - rolled

\* Once a sample has seen frontRight within the last inches of the commanded
\* distance, no wheel of the loop is powered above minSpeed again, although a
\* strafe takes frontRight well past that distance, where the deceleration
\* ramp alone would speed up again: the lock of moveRTP must not be missed.
CrawlPastDistance ==
    (pc \in {"check", "sample"} /\ Arrives /\ Seen >= cmd.dist - MinSpeed)
        => \A w \in Wheel : power[w] <= MinSpeed

\* The wheels are given the same power on every pass, one after the other; so
\* between passes the robot never turns on itself.
WheelsAgree ==
    (pc \in {"check", "sample", "settle"} /\ Arrives)
        => \A v, w \in Wheel : power[v] = power[w]

\* A move that was not stopped brakes only when a wheel has reached the target
\* of this very move, not one left over from the move before.
ArrivedOrStopped ==
    pc \in {"settle", "brake"} => stopped \/ \E w \in Wheel : enc[w] = Goal(cmd, w)

\* The acceleration ramp may exceed maxSpeed, but a wheel that it took over
\* maxSpeed is brought back by the next power it is given.
OverspeedCorrected ==
    [][\A w \in Wheel : (power[w] > cmd.max /\ power'[w] # power[w])
                            => power'[w] <= cmd.max]_vars

\* The phase of the contract each statement belongs to, and the writes left of
\* the batch decided when the loop's condition held.
PhaseOf(s) == CASE s \in {"idle", "ended"} -> "rest"
                [] s \in {"reset", "mode", "target"} -> "armed"
                [] s \in {"check", "sample", "write", "settle"} -> "driving"
                [] s = "brake" -> "braking"

GrantOf(s, i) == CASE s = "sample" -> 4
                   [] s = "write" -> 5 - i
                   [] OTHER -> 0

Contract == INSTANCE MoveContract WITH phase <- PhaseOf(pc), grant <- GrantOf(pc, k)

\* moveRTP keeps the contract its callers rely on.
KeepsContract == Contract!Spec

\* Every move the OpMode begins ends if the motors turn, with no limit of its own
\* on the time: the loop has no timeout, and slows down near the distance.
MoveEnds == MotorsTurn => ((pc = "reset") ~> (pc \in {"idle", "ended"}))

\* A stop request ends the driving for good, even if the wheels are stuck and
\* however many moves of its script the OpMode still goes through.
StopEndsDriving == stopped ~> [](\A w \in Wheel : power[w] = 0)

\* The comment above the deceleration ramp: "remaining distance / 10, no less
\* than min var".  What remains is counted to frontRight's own target.
RampDownIsRemaining ==
    [][(pc = "sample" /\ pc' = "write" /\ Arrives /\ ~lock)
        => speed' = Least(rampUp', Most(Abs(Abs(target["fr"]) - Abs(enc["fr"])), MinSpeed))]_vars
=============================================================================
