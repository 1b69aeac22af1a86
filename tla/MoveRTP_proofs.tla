--------------------------- MODULE MoveRTP_proofs ---------------------------
(* Proofs about MoveRTP for every set of commands, every speed and every      *)
(* timing the assumptions of MoveRTP allow.                                   *)
EXTENDS MoveRTP, TLAPS

Arming == {"reset", "mode", "target"}
Engaged == {"check", "sample", "write", "settle", "brake"}

-----------------------------------------------------------------------------
(* The inductive invariant, in parts.  Most parts speak of the motors as long *)
(* as the thread's writes arrive.                                             *)

\* Between calls and while a call is arming its motors every wheel is off.
OffUntilEngaged ==
    pc \in {"idle", "ended"} \cup Arming => \A w \in Wheel : power[w] = 0

\* The targets given so far are those of the call in progress.
TargetsGiven ==
    /\ pc \in {"mode", "target"}
          => \A i \in 1..4 : i < k => target[TargetOrder[i]] = Goal(cmd, TargetOrder[i])
    /\ pc \in Engaged => \A w \in Wheel : target[w] = Goal(cmd, w)

\* The powers written so far are those of the current batch.
PowersGiven ==
    /\ pc \in {"check", "sample", "settle"} => \A w \in Wheel : power[w] = speed
    /\ pc = "write" => \A i \in 1..4 : i < k => power[PowerOrder[i]] = speed
    /\ pc = "brake" => \A i \in 1..4 : i < k => power[PowerOrder[i]] = 0

\* Encoders start a move from zero ...
EncodersReset ==
    /\ pc = "reset" => \A i \in 1..4 : i < k => enc[PowerOrder[i]] = 0
    /\ pc \in {"mode", "target"} => \A w \in Wheel : enc[w] = 0

\* ... and frontRight then turns from zero towards its target.
Outward ==
    pc \in Engaged => \/ 0 <= enc["fr"] /\ enc["fr"] <= target["fr"]
                      \/ target["fr"] <= enc["fr"] /\ enc["fr"] <= 0

\* Unless the ramp is locked, the last sample found frontRight short of the
\* window around the commanded distance; or there was no sample yet.
LockedInWindow ==
    Looping =>
        /\ rolled <= MaxTravel
        /\ lock => speed <= MinSpeed
        /\ \/ lock
           \/ Seen < cmd.dist - MinSpeed
           \/ pc # "write" /\ enc["fr"] = 0 /\ rolled = 0 /\ speed = 0

Live == /\ OffUntilEngaged
        /\ TargetsGiven
        /\ PowersGiven
        /\ EncodersReset
        /\ Outward
        /\ LockedInWindow

IInv == /\ TypeOK
        /\ Arrives => Live
        /\ ArrivedOrStopped

-----------------------------------------------------------------------------
(* Lemmas about the operators of MoveRTP.                                    *)

\* Both orders visit each of the four wheels.
LEMMA Orders ==
    /\ \A i \in 1..4 : PowerOrder[i] \in Wheel /\ TargetOrder[i] \in Wheel
    /\ \A w \in Wheel : \E i \in 1..4 : PowerOrder[i] = w
    /\ \A w \in Wheel : \E i \in 1..4 : TargetOrder[i] = w
<1>1. PowerOrder[1] = "fr" /\ PowerOrder[2] = "fl" /\ PowerOrder[3] = "br" /\ PowerOrder[4] = "bl"
  BY DEF PowerOrder
<1>2. TargetOrder[1] = "fl" /\ TargetOrder[2] = "fr" /\ TargetOrder[3] = "bl" /\ TargetOrder[4] = "br"
  BY DEF TargetOrder
<1>3. 1..4 = {1, 2, 3, 4}
  OBVIOUS
<1> QED BY <1>1, <1>2, <1>3 DEF Wheel

\* Wherever a command sends a wheel, it is a whole encoder position.
LEMMA GoalType == ASSUME NEW c \in Commands, NEW w \in Wheel
                  PROVE  Goal(c, w) \in Int
<1>1. Reach(c) \in Nat
  BY MoveAssumption DEF Reach
<1> QED BY <1>1 DEF Goal

\* The ramps never ask for a negative power.
LEMMA RampType ==
    ASSUME NEW c \in Commands, NEW p \in Int, NEW up \in Nat, NEW dt \in Nat
    PROVE  /\ RampUp(up, dt, c.max) \in Nat
           /\ RampDown(p, c.dist) \in Nat
<1>1. c.max \in Nat /\ c.dist \in Nat /\ MinSpeed \in Nat /\ Accel \in Nat
  BY MoveAssumption
<1>2. dt * Accel \in Nat
  BY <1>1
<1> QED BY <1>1, <1>2 DEF RampUp, RampDown, Most, Abs

-----------------------------------------------------------------------------
(* Type correctness.                                                         *)

\* What init leaves the robot in is of the right types.
LEMMA TypeInit == Init => TypeOK
<1> SUFFICES ASSUME Init PROVE TypeOK
  OBVIOUS
<1>1. /\ mode \in [Wheel -> Mode] /\ target \in [Wheel -> Int]
      /\ enc \in [Wheel -> Int] /\ power \in [Wheel -> Nat]
  BY DEF Init, Mode
<1>2. /\ pc \in Statement /\ k \in 1..4 /\ left \in 0..MaxCalls /\ cmd \in Commands
      /\ rampUp \in Nat /\ speed \in Nat /\ clock \in Nat /\ rolled \in Nat
  BY DEF Init, Statement
<1>3. lock \in BOOLEAN /\ stopped \in BOOLEAN
  BY Zenon DEF Init
<1> QED BY <1>1, <1>2, <1>3 DEF TypeOK

\* Every step of the thread, the motors, the clock and the platform keeps every
\* variable within its type.
LEMMA TypeStep == TypeOK /\ [Next]_vars => TypeOK'
<1> SUFFICES ASSUME TypeOK, [Next]_vars PROVE TypeOK'
  OBVIOUS
<1> USE DEF TypeOK, Statement, Mode
<1>k. PowerOrder[k] \in Wheel /\ TargetOrder[k] \in Wheel
  BY Orders
<1>1. CASE Begin
  BY <1>1, MoveAssumption DEF Begin, motors, locals
<1>2. CASE ResetEncoder
  BY <1>2, <1>k DEF ResetEncoder, SetMode, Call, Advance, locals
<1>3. CASE TargetMode
  BY <1>3, <1>k DEF TargetMode, SetMode, Call, locals
<1>4. CASE TargetPosition
  <2>1. Goal(cmd, TargetOrder[k]) \in Int
    BY <1>k, GoalType
  <2>2. rampUp' \in Nat /\ speed' \in Nat /\ clock' \in Nat /\ rolled' \in Nat
    BY <1>4 DEF TargetPosition, locals
  <2>3. lock' \in BOOLEAN
    BY <1>4, Zenon DEF TargetPosition, locals
  <2>4. target' \in [Wheel -> Int]
    BY <1>4, <1>k, <2>1 DEF TargetPosition, SetTarget, Call
  <2>5. pc' \in Statement /\ k' \in 1..4
    BY <1>4 DEF TargetPosition, Advance
  <2> QED BY <1>4, <2>2, <2>3, <2>4, <2>5 DEF TargetPosition
<1>5. CASE Check
  BY <1>5 DEF Check, motors, locals
<1>6. CASE Sample
  <2>1. Position("fr") \in Int
    BY DEF Position, Wheel
  <2>2. RampUp(rampUp, clock, cmd.max) \in Nat /\ RampDown(Position("fr"), cmd.dist) \in Nat
    BY <2>1, RampType
  <2>3. rampUp' \in Nat /\ lock' \in BOOLEAN /\ speed' \in Nat
    BY <1>6, <2>2, MoveAssumption DEF Sample, Least, Locks
  <2> QED BY <1>6, <2>3 DEF Sample, motors
<1>7. CASE WritePower
  BY <1>7, <1>k DEF WritePower, SetPower, Call, Advance, locals
<1>8. CASE Settle
  BY <1>8 DEF Settle, motors, locals
<1>9. CASE Brake
  BY <1>9, <1>k DEF Brake, SetPower, Call, Advance, locals
<1>10. CASE Finish
  BY <1>10 DEF Finish, motors, locals
<1>11. ASSUME NEW w \in Wheel, Roll(w) PROVE TypeOK'
  BY <1>11 DEF Roll, locals
<1>12. CASE Tick
  BY <1>12 DEF Tick, motors, locals
<1>13. CASE RequestStop
  BY <1>13 DEF RequestStop, motors, locals
<1>14. CASE SafeOff
  BY <1>14 DEF SafeOff, locals
<1>15. CASE UNCHANGED vars
  BY <1>15 DEF vars, motors, locals
<1> QED BY <1>1, <1>2, <1>3, <1>4, <1>5, <1>6, <1>7, <1>8, <1>9, <1>10,
           <1>11, <1>12, <1>13, <1>14, <1>15 DEF Next, Thread, Motor

\* moveRTP keeps every variable within its type.
THEOREM TypeCorrect == Spec => []TypeOK
BY TypeInit, TypeStep, PTL DEF Spec

-----------------------------------------------------------------------------
(* The motors through one step of each actor.  In all of these the writes of  *)
(* the thread arrive.                                                        *)

\* A call begins with the wheels off, as the call before it left them.
LEMMA BeginLive == ASSUME Live, Begin PROVE Live'
BY DEF Begin, Live, OffUntilEngaged, TargetsGiven, PowersGiven, EncodersReset,
       Outward, LockedInWindow, Arming, Engaged, Looping, motors

\* Resetting the encoders one by one leaves the wheels off.
LEMMA ResetLive == ASSUME TypeOK, Arrives, Live, ResetEncoder PROVE Live'
<1>1. /\ pc = "reset" /\ power' = power
      /\ \/ k < 4 /\ pc' = "reset" /\ k' = k + 1
         \/ k = 4 /\ pc' = "mode" /\ k' = 1
  BY DEF ResetEncoder, Advance, TypeOK
<1>2. enc' = [enc EXCEPT ![PowerOrder[k]] = 0]
  BY DEF ResetEncoder, Call
<1>3. OffUntilEngaged'
  BY <1>1 DEF Live, OffUntilEngaged, Arming
<1>4. TargetsGiven' /\ PowersGiven' /\ Outward' /\ LockedInWindow'
  BY <1>1 DEF TargetsGiven, PowersGiven, Outward, LockedInWindow, Engaged, Looping
<1>5. \A i \in 1..4 : i <= k => enc'[PowerOrder[i]] = 0
  BY <1>1, <1>2, Orders DEF Live, EncodersReset, TypeOK
<1>6. k = 4 => \A w \in Wheel : enc'[w] = 0
  BY <1>5, Orders
<1>7. EncodersReset'
  BY <1>1, <1>5, <1>6 DEF EncodersReset, TypeOK
<1> QED BY <1>3, <1>4, <1>7 DEF Live

\* The switch to RUN_TO_POSITION meets a wheel that is off.
LEMMA TargetModeLive == ASSUME Live, TargetMode PROVE Live'
BY DEF TargetMode, Live, OffUntilEngaged, TargetsGiven, PowersGiven, EncodersReset,
       Outward, LockedInWindow, Arming, Engaged, Looping

\* The last target given completes the arming: the loop starts with every wheel
\* off, every encoder at zero and every target in place.
LEMMA TargetPositionLive == ASSUME TypeOK, Arrives, Live, TargetPosition PROVE Live'
<1>1. /\ pc = "target" /\ power' = power /\ enc' = enc /\ cmd' = cmd
      /\ \/ k < 4 /\ pc' = "mode" /\ k' = k + 1
         \/ k = 4 /\ pc' = "check" /\ k' = 1 /\ speed' = 0 /\ rolled' = 0
  BY DEF TargetPosition, Advance, TypeOK
<1>2. target' = [target EXCEPT ![TargetOrder[k]] = Goal(cmd, TargetOrder[k])]
  BY DEF TargetPosition, SetTarget, Call
<1>3. \A w \in Wheel : power[w] = 0 /\ enc[w] = 0
  BY <1>1 DEF Live, OffUntilEngaged, EncodersReset, Arming
<1>4. OffUntilEngaged'
  BY <1>1, <1>3 DEF OffUntilEngaged
<1>5. \A i \in 1..4 : i <= k => target'[TargetOrder[i]] = Goal(cmd, TargetOrder[i])
  BY <1>1, <1>2, Orders DEF Live, TargetsGiven, TypeOK
<1>6. k = 4 => \A w \in Wheel : target'[w] = Goal(cmd, w)
  BY <1>5, Orders
<1>7. TargetsGiven'
  <2>1. CASE k < 4
    <3>1. \A i \in 1..4 : i < k' => target'[TargetOrder[i]] = Goal(cmd', TargetOrder[i])
      BY <1>1, <1>5, <2>1 DEF TypeOK
    <3> QED BY <1>1, <2>1, <3>1 DEF TargetsGiven, Engaged
  <2>2. CASE k = 4
    <3>1. \A w \in Wheel : target'[w] = Goal(cmd', w)
      BY <1>1, <1>6, <2>2
    <3> QED BY <1>1, <2>2, <3>1 DEF TargetsGiven
  <2> QED BY <1>1, <2>1, <2>2
<1>8. PowersGiven' /\ EncodersReset'
  BY <1>1, <1>3 DEF PowersGiven, EncodersReset
<1>9. Outward'
  <2>1. target'["fr"] \in Int
    BY <1>2, Orders, GoalType DEF TypeOK, Wheel
  <2> QED BY <1>1, <1>3, <2>1 DEF Outward, Engaged, Wheel
<1>10. LockedInWindow'
  <2>1. CASE k < 4
    BY <1>1, <2>1 DEF LockedInWindow, Looping
  <2>2. CASE k = 4
    <3>1. lock' = FALSE
      BY <2>2, Zenon DEF TargetPosition
    <3>2. enc'["fr"] = 0 /\ 0 <= MaxTravel
      BY <1>1, <1>3, MoveAssumption DEF Wheel
    <3> QED BY <1>1, <2>2, <3>1, <3>2 DEF LockedInWindow
  <2> QED BY <1>1, <2>1, <2>2
<1> QED BY <1>4, <1>7, <1>8, <1>9, <1>10 DEF Live

\* The loop condition, either way, leaves the motors as they are.
LEMMA CheckLive == ASSUME Live, Check PROVE Live'
<1>1. /\ pc = "check" /\ pc' \in {"sample", "settle"}
      /\ UNCHANGED <<cmd, target, enc, power, lock, speed, rolled>>
  BY DEF Check, motors, locals
<1>2. OffUntilEngaged' /\ TargetsGiven' /\ PowersGiven' /\ EncodersReset' /\ Outward'
  BY <1>1 DEF Live, OffUntilEngaged, TargetsGiven, PowersGiven, EncodersReset,
              Outward, Arming, Engaged
<1>3. LockedInWindow'
  BY <1>1 DEF Live, LockedInWindow, Looping, Seen
<1> QED BY <1>2, <1>3 DEF Live

\* One sample: either it finds frontRight in the window and locks, or
\* frontRight, which had not reached the window before and has not turned far
\* enough to jump it since, is still short of it.
LEMMA SampleLive == ASSUME TypeOK, Arrives, Live, Sample PROVE Live'
<1> DEFINE pos == Abs(enc["fr"])
           down == RampDown(Position("fr"), cmd.dist)
<1>1. /\ pc = "sample" /\ pc' = "write" /\ k' = 1 /\ rolled' = 0
      /\ UNCHANGED <<cmd, target, enc, power>>
  BY DEF Sample, motors
<1>2. OffUntilEngaged' /\ TargetsGiven' /\ PowersGiven' /\ EncodersReset' /\ Outward'
  BY <1>1 DEF Live, OffUntilEngaged, TargetsGiven, PowersGiven, EncodersReset,
              Outward, Arming, Engaged
<1>3. /\ pos \in Nat /\ cmd.dist \in Nat /\ rolled \in Nat
      /\ MinSpeed \in Nat /\ MaxTravel \in Nat
  BY MoveAssumption DEF TypeOK, Wheel, Abs
<1>4. down = Most(Abs(pos - cmd.dist), MinSpeed)
  BY DEF Arrives, Position, RampDown
<1>5. lock' = (lock \/ down = MinSpeed)
  BY DEF Sample, Locks
<1>6. /\ down \in Nat /\ rampUp' \in Nat
      /\ speed' = Least(rampUp', IF lock THEN MinSpeed ELSE down)
  <2>1. rampUp' \in Nat
    BY TypeStep DEF TypeOK, Next, Thread
  <2> QED BY <1>3, <1>4, <2>1 DEF Sample, Most, Abs
<1>7. lock' => speed' <= MinSpeed
  <2>1. CASE lock
    BY <1>3, <1>6, <2>1 DEF Least
  <2>2. CASE ~lock /\ down = MinSpeed
    BY <1>3, <1>6, <2>2 DEF Least
  <2> QED BY <1>5, <2>1, <2>2
<1>8. lock' \/ Seen' < cmd.dist - MinSpeed
  <2>1. Seen' = pos
    BY <1>1, <1>3 DEF Seen
  <2>2. CASE lock
    BY <1>5, <2>2
  <2>3. CASE ~lock
    <3>1. \/ pos - rolled < cmd.dist - MinSpeed /\ rolled <= MaxTravel
          \/ pos = 0
      BY <1>1, <2>3 DEF Live, LockedInWindow, Looping, Seen, Abs
    <3>2. down = MinSpeed \/ pos < cmd.dist - MinSpeed
      BY <1>3, <1>4, <3>1, SamplingAssumption DEF Most, Abs
    <3> QED BY <1>5, <2>1, <3>2
  <2> QED BY <2>2, <2>3
<1>9. LockedInWindow'
  BY <1>1, <1>3, <1>7, <1>8 DEF LockedInWindow
<1> QED BY <1>2, <1>9 DEF Live

\* The four writes of setPowers give every wheel the speed of the last sample.
LEMMA WritePowerLive == ASSUME TypeOK, Arrives, Live, WritePower PROVE Live'
<1>1. /\ pc = "write" /\ UNCHANGED <<cmd, target, enc, lock, speed, rolled>>
      /\ \/ k < 4 /\ pc' = "write" /\ k' = k + 1
         \/ k = 4 /\ pc' = "check" /\ k' = 1
  BY DEF WritePower, Advance, TypeOK, locals
<1>2. power' = [power EXCEPT ![PowerOrder[k]] = speed]
  BY DEF WritePower, SetPower, Call
<1>3. OffUntilEngaged' /\ TargetsGiven' /\ EncodersReset' /\ Outward'
  BY <1>1 DEF Live, OffUntilEngaged, TargetsGiven, EncodersReset, Outward, Arming, Engaged
<1>4. \A i \in 1..4 : i <= k => power'[PowerOrder[i]] = speed
  BY <1>1, <1>2, Orders DEF Live, PowersGiven, TypeOK
<1>5. PowersGiven'
  <2>1. CASE k < 4
    <3>1. \A i \in 1..4 : i < k' => power'[PowerOrder[i]] = speed'
      BY <1>1, <1>4, <2>1 DEF TypeOK
    <3> QED BY <1>1, <2>1, <3>1 DEF PowersGiven
  <2>2. CASE k = 4
    <3>1. \A w \in Wheel : power'[w] = speed'
      BY <1>1, <1>4, <2>2, Orders
    <3> QED BY <1>1, <2>2, <3>1 DEF PowersGiven
  <2> QED BY <1>1, <2>1, <2>2
<1>6. LockedInWindow'
  BY <1>1 DEF Live, LockedInWindow, Looping, Seen
<1> QED BY <1>3, <1>5, <1>6 DEF Live

\* The end of the settling leaves the motors as they are.
LEMMA SettleLive == ASSUME Live, Settle PROVE Live'
BY DEF Settle, Live, OffUntilEngaged, TargetsGiven, PowersGiven, EncodersReset,
       Outward, LockedInWindow, Arming, Engaged, Looping, motors, locals

\* The four writes of setPowers(0) leave every wheel off.
LEMMA BrakeLive == ASSUME TypeOK, Arrives, Live, Brake PROVE Live'
<1>1. /\ pc = "brake" /\ UNCHANGED <<cmd, target, enc>>
      /\ \/ k < 4 /\ pc' = "brake" /\ k' = k + 1
         \/ k = 4 /\ pc' = "idle" /\ k' = 1
  BY DEF Brake, Advance, TypeOK
<1>2. power' = [power EXCEPT ![PowerOrder[k]] = 0]
  BY DEF Brake, SetPower, Call
<1>3. TargetsGiven' /\ EncodersReset' /\ Outward' /\ LockedInWindow'
  BY <1>1 DEF Live, TargetsGiven, EncodersReset, Outward, LockedInWindow, Engaged, Looping
<1>4. \A i \in 1..4 : i <= k => power'[PowerOrder[i]] = 0
  BY <1>1, <1>2, Orders DEF Live, PowersGiven, TypeOK
<1>5. OffUntilEngaged' /\ PowersGiven'
  <2>1. CASE k < 4
    <3>1. \A i \in 1..4 : i < k' => power'[PowerOrder[i]] = 0
      BY <1>1, <1>4, <2>1 DEF TypeOK
    <3> QED BY <1>1, <2>1, <3>1 DEF PowersGiven, OffUntilEngaged, Arming
  <2>2. CASE k = 4
    <3>1. \A w \in Wheel : power'[w] = 0
      BY <1>4, <2>2, Orders
    <3> QED BY <1>1, <2>2, <3>1 DEF PowersGiven, OffUntilEngaged
  <2> QED BY <1>1, <2>1, <2>2
<1> QED BY <1>3, <1>5 DEF Live

\* runOpMode returns with the wheels off.
LEMMA FinishLive == ASSUME Live, Finish PROVE Live'
BY DEF Finish, Live, OffUntilEngaged, TargetsGiven, PowersGiven, EncodersReset,
       Outward, LockedInWindow, Arming, Engaged, Looping, motors, locals

\* A wheel that turns is powered, so the call is past its arming; frontRight
\* turns outwards and the distance counts as turned since the last sample.
LEMMA RollLive == ASSUME TypeOK, Live, NEW w \in Wheel, Roll(w) PROVE Live'
<1>1. /\ UNCHANGED <<pc, k, cmd, target, power, lock, speed>>
      /\ power[w] # 0 /\ enc[w] # target[w]
      /\ enc' = [enc EXCEPT ![w] = IF enc[w] < target[w] THEN enc[w] + 1 ELSE enc[w] - 1]
  BY DEF Roll, Driven, TypeOK, locals
<1>2. pc \in Engaged
  BY <1>1 DEF Live, OffUntilEngaged, Arming, Engaged, TypeOK, Statement
<1>3. OffUntilEngaged' /\ TargetsGiven' /\ PowersGiven' /\ EncodersReset'
  BY <1>1, <1>2 DEF Live, OffUntilEngaged, TargetsGiven, PowersGiven, EncodersReset,
                    Arming, Engaged
<1>4. CASE w # "fr"
  <2>1. enc'["fr"] = enc["fr"] /\ rolled' = rolled
    BY <1>1, <1>4 DEF Roll, TypeOK, Wheel
  <2>2. Outward' /\ LockedInWindow'
    BY <1>1, <2>1 DEF Live, Outward, LockedInWindow, Looping, Seen
  <2> QED BY <1>3, <2>2 DEF Live
<1>5. CASE w = "fr"
  <2>1. /\ enc["fr"] \in Int /\ target["fr"] \in Int /\ enc["fr"] # target["fr"]
        /\ enc'["fr"] = IF enc["fr"] < target["fr"] THEN enc["fr"] + 1 ELSE enc["fr"] - 1
    BY <1>1, <1>5 DEF TypeOK, Wheel
  <2>2. Outward' /\ Abs(enc'["fr"]) = Abs(enc["fr"]) + 1
    BY <1>1, <1>2, <2>1 DEF Live, Outward, Abs
  <2>3. LockedInWindow'
    <3>1. CASE ~Looping
      BY <1>1, <3>1 DEF LockedInWindow, Looping
    <3>2. CASE Looping
      <4>1. rolled < MaxTravel /\ rolled' = rolled + 1
        BY <1>5, <3>2 DEF Roll
      <4>2. rolled \in Nat /\ MaxTravel \in Nat /\ Abs(enc["fr"]) \in Nat
        BY <2>1, MoveAssumption DEF TypeOK, Abs
      <4>3. Seen' = Seen
        BY <2>2, <4>1, <4>2 DEF Seen
      <4>4. pc # "write" => power["fr"] = speed
        BY <3>2 DEF Live, PowersGiven, Looping, Wheel
      <4>5. pc = "write" \/ speed # 0
        BY <1>1, <1>5, <4>4
      <4> QED BY <1>1, <3>2, <4>1, <4>2, <4>3, <4>5 DEF Live, LockedInWindow, Looping
    <3> QED BY <3>1, <3>2
  <2> QED BY <1>3, <2>2, <2>3 DEF Live
<1> QED BY <1>4, <1>5

\* The clock leaves what the invariant says of the motors alone, as do ...
LEMMA TickLive == ASSUME Live, Tick PROVE Live'
BY DEF Tick, Live, OffUntilEngaged, TargetsGiven, PowersGiven, EncodersReset,
       Outward, LockedInWindow, Looping, Seen, motors, locals

\* ... the stop request ...
LEMMA RequestStopLive == ASSUME Live, RequestStop PROVE Live'
BY DEF RequestStop, Live, OffUntilEngaged, TargetsGiven, PowersGiven, EncodersReset,
       Outward, LockedInWindow, Looping, Seen, motors, locals

\* ... and the platform, which switches them off.
LEMMA SafeOffLive == ASSUME Live, SafeOff PROVE Live'
BY DEF SafeOff, Live, OffUntilEngaged, TargetsGiven, PowersGiven, EncodersReset,
       Outward, LockedInWindow, Arming, Engaged, Looping

-----------------------------------------------------------------------------
(* The inductive invariant holds.                                            *)

\* A stop request never makes lost writes arrive again.
LEMMA ArrivesBefore == ASSUME TypeOK, [Next]_vars, Arrives' PROVE Arrives
<1>1. stopped => stopped'
  BY Zenon DEF Next, Thread, Begin, ResetEncoder, TargetMode, TargetPosition, Check,
               Sample, WritePower, Settle, Brake, Finish, Motor, Roll, Tick,
               RequestStop, SafeOff, vars
<1> QED BY <1>1 DEF Arrives

\* Whatever step is taken while writes arrive, the motors stay as they should be.
LEMMA LiveStep == ASSUME TypeOK, Arrives, Live, [Next]_vars PROVE Live'
<1>1. CASE UNCHANGED vars
  BY <1>1 DEF vars, motors, locals, Live, OffUntilEngaged, TargetsGiven, PowersGiven,
              EncodersReset, Outward, LockedInWindow, Looping, Seen
<1>2. CASE Next
  BY <1>2, BeginLive, ResetLive, TargetModeLive, TargetPositionLive, CheckLive,
     SampleLive, WritePowerLive, SettleLive, BrakeLive, FinishLive, RollLive,
     TickLive, RequestStopLive, SafeOffLive DEF Next, Thread, Motor
<1> QED BY <1>1, <1>2

\* The loop ends for a stop or because a wheel is where the command sent it, and
\* a wheel on its target stays there.
LEMMA ArrivedStep == ASSUME TypeOK, Arrives => Live, ArrivedOrStopped, [Next]_vars
                     PROVE  ArrivedOrStopped'
<1> SUFFICES ASSUME pc' \in {"settle", "brake"}, ~stopped'
             PROVE  \E w \in Wheel : enc'[w] = Goal(cmd', w)
  BY DEF ArrivedOrStopped
<1>1. ~stopped
  BY Zenon DEF Next, Thread, Begin, ResetEncoder, TargetMode, TargetPosition, Check,
               Sample, WritePower, Settle, Brake, Finish, Motor, Roll, Tick,
               RequestStop, SafeOff, vars
<1>2. Arrives /\ Live
  BY <1>1 DEF Arrives
<1>3. pc \in {"check", "settle", "brake"} /\ cmd' = cmd
  BY DEF Next, Thread, Begin, ResetEncoder, TargetMode, TargetPosition, Check,
         Sample, WritePower, Settle, Brake, Finish, Motor, Roll, Tick,
         RequestStop, SafeOff, Advance, TypeOK, Statement, vars
<1>4. \A w \in Wheel : target[w] = Goal(cmd, w)
  BY <1>2, <1>3 DEF Live, TargetsGiven, Engaged
<1>5. CASE pc = "check"
  <2>1. Check
    BY <1>5 DEF Next, Thread, Begin, ResetEncoder, TargetMode, TargetPosition,
                Sample, WritePower, Settle, Brake, Finish, Motor, Roll, Tick,
                RequestStop, SafeOff, vars
  <2>2. ~Continues /\ enc' = enc
    BY <2>1 DEF Check, motors
  <2> QED BY <1>1, <1>2, <1>3, <1>4, <2>2 DEF Continues, Busy, opModeIsActive
<1>6. CASE pc \in {"settle", "brake"}
  <2>1. PICK w \in Wheel : enc[w] = Goal(cmd, w)
    BY <1>1, <1>6 DEF ArrivedOrStopped
  <2>2. enc'[w] = enc[w]
    BY <1>4, <1>6, <2>1
       DEF Next, Thread, Begin, ResetEncoder, TargetMode, TargetPosition, Check,
           Sample, WritePower, Settle, Brake, Finish, Motor, Roll, Tick,
           RequestStop, SafeOff, TypeOK, vars, motors
  <2> QED BY <1>3, <2>1, <2>2
<1> QED BY <1>3, <1>5, <1>6

\* The inductive invariant holds when init has set up the robot, ...
LEMMA IInvInit == Init => IInv
<1> SUFFICES ASSUME Init PROVE IInv
  OBVIOUS
<1>1. TypeOK
  BY TypeInit
<1>2. Live
  BY DEF Init, Live, OffUntilEngaged, TargetsGiven, PowersGiven, EncodersReset,
         Outward, LockedInWindow, Engaged, Looping
<1>3. ArrivedOrStopped
  BY DEF Init, ArrivedOrStopped
<1> QED BY <1>1, <1>2, <1>3 DEF IInv

\* ... no step of any actor breaks it, ...
LEMMA IInvStep == IInv /\ [Next]_vars => IInv'
BY TypeStep, ArrivesBefore, LiveStep, ArrivedStep DEF IInv

\* ... so it always holds.
LEMMA Inductive == Spec => []IInv
BY IInvInit, IInvStep, PTL DEF Spec

-----------------------------------------------------------------------------
(* What follows from it.                                                     *)

\* moveRTP never powers a wheel towards the target of an earlier move.
THEOREM NoStaleTarget == Spec => []NoStaleTargetDrive
<1>1. IInv => NoStaleTargetDrive
  <2> SUFFICES ASSUME IInv, Arrives, NEW w \in Wheel, Driven(w)
               PROVE  target[w] = Goal(cmd, w)
    BY DEF NoStaleTargetDrive
  <2>1. pc \in Engaged
    BY DEF IInv, Live, OffUntilEngaged, Driven, Arming, Engaged, TypeOK, Statement
  <2> QED BY <2>1 DEF IInv, Live, TargetsGiven
<1> QED BY <1>1, Inductive, PTL

\* The lock of the deceleration ramp is never missed: past the commanded
\* distance a strafe only crawls.
THEOREM NeverFastAgain == Spec => []CrawlPastDistance
<1>1. IInv => CrawlPastDistance
  <2> SUFFICES ASSUME IInv, pc \in {"check", "sample"}, Arrives,
                      Seen >= cmd.dist - MinSpeed, NEW w \in Wheel
               PROVE  power[w] <= MinSpeed
    BY DEF CrawlPastDistance
  <2>1. power[w] = speed
    BY DEF IInv, Live, PowersGiven
  <2>2. MinSpeed \in Nat /\ cmd.dist \in Nat /\ Seen \in Int
    BY MoveAssumption DEF IInv, TypeOK, Seen, Abs, Wheel
  <2>3. speed <= MinSpeed
    BY <2>2 DEF IInv, Live, LockedInWindow, Looping
  <2> QED BY <2>1, <2>3
<1> QED BY <1>1, Inductive, PTL

\* Between two passes of the loop all four wheels have the same power.
THEOREM NeverTurns == Spec => []WheelsAgree
<1>1. IInv => WheelsAgree
  BY DEF IInv, Live, PowersGiven, WheelsAgree
<1> QED BY <1>1, Inductive, PTL

\* A move that was not stopped has brought a wheel to its target.
THEOREM Arrival == Spec => []ArrivedOrStopped
<1>1. IInv => ArrivedOrStopped
  BY DEF IInv
<1> QED BY <1>1, Inductive, PTL

-----------------------------------------------------------------------------
(* The acceleration ramp.                                                    *)

\* The power of a pass never exceeds the ramp, so a power over maxSpeed means
\* that the ramp is over it too, and that the next pass brings it back.
Capped ==
    Arrives =>
        /\ Looping => speed <= rampUp
        /\ pc = "write" => \A i \in 1..4 :
              (i >= k /\ power[PowerOrder[i]] > cmd.max) => speed <= cmd.max

\* No step of any actor changes that: a sample that finds the ramp over maxSpeed
\* holds it at maxSpeed before the next power is written.
LEMMA CappedStep == ASSUME IInv, Capped, [Next]_vars PROVE Capped'
<1> SUFFICES ASSUME Arrives'
             PROVE  /\ Looping' => speed' <= rampUp'
                    /\ pc' = "write" => \A i \in 1..4 :
                          (i >= k' /\ power'[PowerOrder[i]] > cmd'.max) => speed' <= cmd'.max
  BY DEF Capped
<1>1. TypeOK /\ TypeOK'
  BY TypeStep DEF IInv
<1>2. Arrives /\ Live
  BY <1>1, ArrivesBefore DEF IInv
<1>3. CASE Sample
  <2> DEFINE down == IF lock THEN MinSpeed ELSE RampDown(Position("fr"), cmd.dist)
  <2>1. /\ pc = "sample" /\ power' = power /\ cmd' = cmd
        /\ rampUp' = RampUp(rampUp, clock, cmd.max)
        /\ speed' = Least(rampUp', down)
    BY <1>3 DEF Sample, motors
  <2>2. cmd.max \in Nat /\ rampUp \in Nat /\ rampUp' \in Nat /\ speed \in Nat
    BY <1>1, MoveAssumption DEF TypeOK
  <2>3. down \in Nat
    <3>1. Position("fr") \in Int
      BY <1>1 DEF Position, TypeOK, Wheel
    <3> QED BY <1>1, <3>1, RampType, MoveAssumption DEF TypeOK
  <2>4. speed' <= rampUp'
    BY <2>1, <2>2, <2>3 DEF Least
  <2>5. speed <= rampUp
    BY <1>2, <2>1 DEF Capped, Looping
  <2>6. speed > cmd.max => rampUp' = cmd.max
    BY <2>1, <2>2, <2>5 DEF RampUp
  <2>7. ASSUME NEW i \in 1..4, power'[PowerOrder[i]] > cmd'.max PROVE speed' <= cmd'.max
    <3>1. power[PowerOrder[i]] = speed
      BY <1>2, <2>1, Orders DEF Live, PowersGiven
    <3> QED BY <2>1, <2>2, <2>4, <2>6, <2>7, <3>1
  <2> QED BY <2>4, <2>7
<1>4. CASE WritePower
  <2>1. /\ pc = "write" /\ UNCHANGED <<cmd, speed, rampUp>>
        /\ \/ k < 4 /\ pc' = "write" /\ k' = k + 1
           \/ k = 4 /\ pc' = "check"
    BY <1>1, <1>4 DEF WritePower, Advance, TypeOK, locals
  <2>2. power' = [power EXCEPT ![PowerOrder[k]] = speed]
    BY <1>2, <1>4 DEF WritePower, SetPower, Call
  <2>3. speed <= rampUp
    BY <1>2, <2>1 DEF Capped, Looping
  <2>4. ASSUME NEW i \in 1..4, k < 4, i >= k + 1, power'[PowerOrder[i]] > cmd.max
        PROVE  speed <= cmd.max
    <3>1. power'[PowerOrder[i]] = power[PowerOrder[i]] \/ power'[PowerOrder[i]] = speed
      BY <1>1, <2>2, Orders DEF TypeOK
    <3>2. CASE power'[PowerOrder[i]] = power[PowerOrder[i]]
      BY <1>1, <1>2, <2>1, <2>4, <3>2 DEF Capped, TypeOK
    <3>3. CASE power'[PowerOrder[i]] = speed
      <4>1. PowerOrder[i] # PowerOrder[k]
        BY <1>1, <2>4 DEF PowerOrder, TypeOK
      <4>2. power'[PowerOrder[i]] = power[PowerOrder[i]]
        BY <1>1, <2>2, <4>1, Orders DEF TypeOK
      <4> QED BY <3>2, <4>2
    <3> QED BY <3>1, <3>2, <3>3
  <2> QED BY <1>1, <2>1, <2>3, <2>4
<1>5. CASE TargetPosition
  <2>1. pc' = "check" => speed' = 0 /\ rampUp' = 0
    BY <1>1, <1>5 DEF TargetPosition, Advance, TypeOK
  <2>2. pc' \in {"mode", "check"}
    BY <1>5 DEF TargetPosition, Advance
  <2> QED BY <2>1, <2>2 DEF Looping
<1>6. CASE Begin \/ ResetEncoder \/ TargetMode \/ Settle \/ Brake \/ Finish \/ SafeOff
  BY <1>1, <1>6 DEF Begin, ResetEncoder, TargetMode, Settle, Brake, Finish, SafeOff,
                    Advance, Looping
<1>7. CASE Check \/ Motor \/ Tick \/ RequestStop \/ UNCHANGED vars
  <2>1. /\ UNCHANGED <<k, cmd, power, rampUp, speed>>
        /\ pc' = pc \/ (pc = "check" /\ pc' # "write")
    BY <1>7 DEF Check, Motor, Roll, Tick, RequestStop, vars, motors, locals
  <2> QED BY <1>2, <2>1 DEF Capped, Looping
<1> QED BY <1>3, <1>4, <1>5, <1>6, <1>7 DEF Next, Thread

\* It is so in every state.
LEMMA CappedAlways == Spec => []Capped
<1>1. Init => Capped
  BY DEF Init, Capped, Looping
<1>2. IInv /\ Capped /\ [Next]_vars => Capped'
  BY CappedStep
<1> QED BY <1>1, <1>2, Inductive, PTL DEF Spec

\* A wheel over maxSpeed is brought back by the next power it is given.
THEOREM OverspeedIsCorrected == Spec => OverspeedCorrected
<1>1. ASSUME IInv, Capped, [Next]_vars
      PROVE  [\A w \in Wheel : (power[w] > cmd.max /\ power'[w] # power[w])
                                   => power'[w] <= cmd.max]_vars
  <2> SUFFICES ASSUME NEW w \in Wheel, power[w] > cmd.max, power'[w] # power[w]
               PROVE  power'[w] <= cmd.max
    OBVIOUS
  <2>1. TypeOK /\ cmd.max \in Nat
    BY <1>1, MoveAssumption DEF IInv, TypeOK
  <2>2. WritePower \/ Brake \/ SafeOff
    BY <1>1 DEF Next, Thread, Begin, ResetEncoder, TargetMode, TargetPosition, Check,
                Sample, Settle, Finish, Motor, Roll, Tick, RequestStop, vars, motors
  <2>3. CASE WritePower
    <3>1. Arrives /\ power' = [power EXCEPT ![PowerOrder[k]] = speed] /\ pc = "write"
      BY <2>3 DEF WritePower, SetPower, Call
    <3>2. w = PowerOrder[k] /\ power'[w] = speed
      BY <2>1, <3>1 DEF TypeOK
    <3> QED BY <1>1, <2>1, <3>1, <3>2 DEF Capped, TypeOK
  <2>4. CASE Brake
    <3>1. power'[w] = 0
      BY <2>1, <2>4 DEF Brake, SetPower, Call, TypeOK
    <3> QED BY <2>1, <3>1
  <2>5. CASE SafeOff
    BY <2>1, <2>5 DEF SafeOff
  <2> QED BY <2>2, <2>3, <2>4, <2>5
<1> QED BY <1>1, Inductive, CappedAlways, PTL DEF Spec, OverspeedCorrected

-----------------------------------------------------------------------------
(* moveRTP implements its contract.                                          *)

\* The platform is only asked to switch the motors off after the OpMode.
EndedStopped == pc = "ended" => stopped

\* Only runOpMode's return ends the thread, and the OpMode is then stopped.
LEMMA EndedStep == ASSUME EndedStopped, [Next]_vars PROVE EndedStopped'
BY Zenon DEF EndedStopped, Next, Thread, Begin, ResetEncoder, TargetMode, TargetPosition,
             Check, Sample, WritePower, Settle, Brake, Finish, Motor, Roll, Tick,
             RequestStop, SafeOff, Advance, vars

\* It is so in every state.
LEMMA EndedAlways == Spec => []EndedStopped
<1>1. Init => EndedStopped
  BY DEF Init, EndedStopped
<1> QED BY <1>1, EndedStep, PTL DEF Spec

\* The phases and grants of the contract, statement by statement.
LEMMA Phases ==
    /\ \A s \in {"idle", "ended"} : PhaseOf(s) = "rest"
    /\ \A s \in Arming : PhaseOf(s) = "armed"
    /\ \A s \in {"check", "sample", "write", "settle"} : PhaseOf(s) = "driving"
    /\ PhaseOf("brake") = "braking"
    /\ \A i \in Int : GrantOf("sample", i) = 4 /\ GrantOf("write", i) = 5 - i
    /\ \A s \in Statement \ {"sample", "write"}, i \in Int : GrantOf(s, i) = 0
BY DEF PhaseOf, GrantOf, Arming, Statement

\* A write of the thread is a write of the contract.
LEMMA WriteMaps == ASSUME NEW w \in Wheel, NEW p, SetPower(w, p) PROVE Contract!Write(w, p)
BY DEF SetPower, Call, Arrives, Contract!Write

\* Every step of moveRTP is a step of the contract or changes none of its variables.
LEMMA ContractStep ==
    ASSUME IInv, IInv', EndedStopped, [Next]_vars
    PROVE  [Contract!Next]_(Contract!vars)
<1>t. TypeOK /\ TypeOK' /\ k \in 1..4 /\ k \in Int /\ k' \in Int /\ pc \in Statement
  BY DEF IInv, TypeOK
<1>1. CASE Begin
  <2>1. PhaseOf(pc) = "rest" /\ PhaseOf(pc') = "armed" /\ GrantOf(pc, k) = 0 /\ GrantOf(pc', k') = 0
    BY <1>t, <1>1, Phases DEF Begin, Arming, Statement
  <2> QED BY <1>1, <2>1 DEF Begin, motors, Contract!Next, Contract!Arm
<1>2. CASE ResetEncoder \/ TargetMode \/ (TargetPosition /\ k < 4)
  <2>1. pc \in Arming /\ pc' \in Arming /\ UNCHANGED <<power, stopped>>
    BY <1>2, <1>t DEF ResetEncoder, TargetMode, TargetPosition, Advance, Arming
  <2>2. UNCHANGED <<PhaseOf(pc), GrantOf(pc, k)>>
    BY <1>t, <2>1, Phases DEF Arming, Statement
  <2> QED BY <2>1, <2>2 DEF Contract!vars
<1>3. CASE TargetPosition /\ k = 4
  <2>1. pc = "target" /\ pc' = "check" /\ UNCHANGED <<power, stopped>>
    BY <1>3 DEF TargetPosition, Advance
  <2>2. PhaseOf(pc) = "armed" /\ PhaseOf(pc') = "driving" /\ GrantOf(pc, k) = 0 /\ GrantOf(pc', k') = 0
    BY <1>t, <2>1, Phases DEF Arming, Statement
  <2> QED BY <2>1, <2>2 DEF Contract!Next, Contract!Engage
<1>4. CASE Check
  <2>1. pc = "check" /\ pc' \in {"sample", "settle"} /\ UNCHANGED <<power, stopped>>
    BY <1>4 DEF Check, motors
  <2>2. PhaseOf(pc) = "driving" /\ PhaseOf(pc') = "driving" /\ GrantOf(pc, k) = 0
    BY <1>t, <2>1, Phases DEF Statement
  <2>3. CASE pc' = "sample"
    <3>1. ~stopped
      BY <1>4, <2>3 DEF Check, Continues, opModeIsActive
    <3>2. GrantOf(pc', k') = 4
      BY <1>t, <2>3, Phases
    <3> QED BY <2>1, <2>2, <3>1, <3>2 DEF Contract!Next, Contract!Decide, Contract!Batch
  <2>4. CASE pc' = "settle"
    <3>1. GrantOf(pc', k') = 0
      BY <1>t, <2>4, Phases DEF Statement
    <3> QED BY <2>1, <2>2, <3>1 DEF Contract!vars
  <2> QED BY <2>1, <2>3, <2>4
<1>5. CASE Sample
  <2>1. pc = "sample" /\ pc' = "write" /\ k' = 1 /\ UNCHANGED <<power, stopped>>
    BY <1>5 DEF Sample, motors
  <2>2. UNCHANGED <<PhaseOf(pc), GrantOf(pc, k)>>
    BY <1>t, <2>1, Phases
  <2> QED BY <2>1, <2>2 DEF Contract!vars
<1>6. CASE WritePower
  <2>1. /\ pc = "write" /\ UNCHANGED stopped
        /\ \/ k < 4 /\ pc' = "write" /\ k' = k + 1
           \/ k = 4 /\ pc' = "check" /\ k' = 1
    BY <1>t, <1>6 DEF WritePower, Advance
  <2>2. PhaseOf(pc) = "driving" /\ PhaseOf(pc') = "driving" /\ GrantOf(pc, k) = 5 - k
    BY <1>t, <2>1, Phases
  <2>3. GrantOf(pc', k') = GrantOf(pc, k) - 1
    BY <1>t, <2>1, <2>2, Phases DEF Statement
  <2>4. PICK w \in Wheel : w = PowerOrder[k]
    BY <1>t, Orders
  <2>5. Contract!Write(w, power'[w])
    <3>1. SetPower(w, speed)
      BY <1>6, <2>4 DEF WritePower
    <3>2. power' = power \/ power'[w] = speed
      BY <1>t, <3>1 DEF SetPower, Call, TypeOK
    <3>3. CASE power' = power
      <4>1. power' = [power EXCEPT ![w] = power'[w]]
        BY <1>t, <3>3 DEF TypeOK
      <4> QED BY <4>1 DEF Contract!Write
    <3>4. CASE power'[w] = speed
      BY <3>1, <3>4, WriteMaps
    <3> QED BY <3>2, <3>3, <3>4
  <2>6. power'[w] \in Nat /\ GrantOf(pc, k) > 0
    BY <1>t, <2>2 DEF TypeOK
  <2>7. Contract!Drive(w)
    BY <2>1, <2>2, <2>3, <2>5, <2>6 DEF Contract!Drive
  <2> QED BY <2>7 DEF Contract!Next
<1>7. CASE Settle
  <2>1. pc = "settle" /\ pc' = "brake" /\ UNCHANGED <<power, stopped>>
    BY <1>7 DEF Settle, motors
  <2>2. PhaseOf(pc) = "driving" /\ PhaseOf(pc') = "braking" /\ GrantOf(pc, k) = 0 /\ GrantOf(pc', k') = 0
    BY <1>t, <2>1, Phases DEF Statement
  <2> QED BY <2>1, <2>2 DEF Contract!Next, Contract!Release
<1>8. CASE Brake
  <2>1. pc = "brake" /\ pc' \in {"brake", "idle"} /\ UNCHANGED stopped
    BY <1>8 DEF Brake, Advance
  <2>2. PICK w \in Wheel : w = PowerOrder[k]
    BY <1>t, Orders
  <2>3. Contract!Write(w, 0)
    BY <1>8, <2>2, WriteMaps DEF Brake
  <2>4. PhaseOf(pc) = "braking" /\ GrantOf(pc, k) = 0 /\ GrantOf(pc', k') = 0
    BY <1>t, <2>1, Phases DEF Statement
  <2>5. CASE pc' = "brake"
    BY <2>1, <2>3, <2>4, <2>5, Phases DEF Contract!Next, Contract!Brake
  <2>6. CASE pc' = "idle"
    <3>1. Contract!AllOff' \/ (stopped /\ ~Delivers)
      <4>1. CASE Arrives
        <5>1. Live'
          BY <1>8, <1>t, <4>1, BrakeLive DEF IInv
        <5> QED BY <2>6, <5>1 DEF Live, OffUntilEngaged, Contract!AllOff
      <4>2. CASE ~Arrives
        BY <4>2 DEF Arrives
      <4> QED BY <4>1, <4>2
    <3>2. PhaseOf(pc') = "rest"
      BY <2>6, Phases
    <3> QED BY <2>1, <2>3, <2>4, <3>1, <3>2 DEF Contract!Next, Contract!Brake
  <2> QED BY <2>1, <2>5, <2>6
<1>9. CASE Finish
  <2>1. pc = "idle" /\ pc' = "ended" /\ stopped' = TRUE /\ UNCHANGED power
    BY <1>9, Zenon DEF Finish, motors
  <2>2. UNCHANGED <<PhaseOf(pc), GrantOf(pc, k)>>
    BY <1>t, <2>1, Phases DEF Statement
  <2> QED BY <2>1, <2>2 DEF Contract!Next, Contract!Stop
<1>10. CASE Motor \/ Tick \/ UNCHANGED vars
  <2>1. UNCHANGED <<pc, k, power, stopped>>
    BY <1>10 DEF Motor, Roll, Tick, vars, motors
  <2> QED BY <2>1 DEF Contract!vars
<1>11. CASE RequestStop
  <2>1. UNCHANGED <<pc, k, power>> /\ stopped' = TRUE
    BY <1>11, Zenon DEF RequestStop, motors
  <2> QED BY <2>1 DEF Contract!Next, Contract!Stop
<1>12. CASE SafeOff
  <2>1. pc = "ended" /\ stopped /\ UNCHANGED <<pc, k, stopped>> /\ power' = [w \in Wheel |-> 0]
    BY <1>12 DEF SafeOff, EndedStopped
  <2>2. PhaseOf(pc) = "rest"
    BY <2>1, Phases
  <2> QED BY <2>1, <2>2 DEF Contract!Next, Contract!SafeOff
<1>13. CASE TargetPosition
  BY <1>2, <1>3, <1>13, <1>t
<1> QED BY <1>1, <1>2, <1>13, <1>4, <1>5, <1>6, <1>7, <1>8, <1>9, <1>10, <1>11, <1>12
        DEF Next, Thread

\* Whatever the driver station does and whether or not late writes arrive,
\* moveRTP keeps its contract: wheels on only within a call, no batch of writes
\* decided after a stop request, wheels off on return.
THEOREM ContractKept == Spec => KeepsContract
<1>1. Init => Contract!Init
  BY Phases DEF Init, Contract!Init, Statement
<1>2. IInv /\ IInv' /\ EndedStopped /\ [Next]_vars => [Contract!Next]_(Contract!vars)
  BY ContractStep
<1> QED BY <1>1, <1>2, Inductive, EndedAlways, PTL DEF Spec, KeepsContract, Contract!Spec
=============================================================================
