---------------------------- MODULE MoveContract ----------------------------
(* What a call of moveRTP promises to the autonomous program that makes it,   *)
(* without saying how fast or how far: the four wheels are powered only       *)
(* between the arming of their targets and the braking that ends the call,    *)
(* each batch of power writes is decided while the OpMode is still running,   *)
(* and the call returns with the wheels off.                                  *)
(*                                                                            *)
(* A stop request is asynchronous: a batch of four writes decided before it   *)
(* may still be carried out after it, but no other batch may follow.          *)
(* `Delivers' says whether a motor write made after the stop request (which   *)
(* interrupts the OpMode's thread) still reaches the motor controller.        *)
EXTENDS Naturals

CONSTANTS Wheel,      \* the drive motors
          Delivers    \* do writes of an interrupted thread reach the motors?

VARIABLES phase,      \* "rest", "armed", "driving" or "braking"
          power,      \* power[w]: the power wheel w was last given
          grant,      \* writes of the current batch still to be made
          stopped     \* the driver station has asked the OpMode to stop

vars == <<phase, power, grant, stopped>>

Batch == 4

AllOff == \A w \in Wheel : power[w] = 0

\* A write reaches the motor, or the thread was interrupted before it.
Write(w, p) ==
    \/ power' = [power EXCEPT ![w] = p]
    \/ stopped /\ ~Delivers /\ UNCHANGED power

Init == /\ phase = "rest"
        /\ power = [w \in Wheel |-> 0]
        /\ grant = 0
        /\ stopped = FALSE

Arm == /\ phase = "rest"
       /\ phase' = "armed"
       /\ UNCHANGED <<power, grant, stopped>>

Engage == /\ phase = "armed"
          /\ phase' = "driving"
          /\ UNCHANGED <<power, grant, stopped>>

\* The decision to power the wheels once more needs a running OpMode.
Decide == /\ phase = "driving"
          /\ grant = 0
          /\ ~stopped
          /\ grant' = Batch
          /\ UNCHANGED <<phase, power, stopped>>

Drive(w) == /\ phase = "driving"
            /\ grant > 0
            /\ grant' = grant - 1
            /\ power'[w] \in Nat /\ Write(w, power'[w])
            /\ UNCHANGED <<phase, stopped>>

Release == /\ phase = "driving"
           /\ grant = 0
           /\ phase' = "braking"
           /\ UNCHANGED <<power, grant, stopped>>

\* The call may return once every wheel is off, or its writes are being lost.
Brake(w) == /\ phase = "braking"
            /\ Write(w, 0)
            /\ \/ phase' = "braking"
               \/ phase' = "rest" /\ (AllOff' \/ (stopped /\ ~Delivers))
            /\ UNCHANGED <<grant, stopped>>

Stop == stopped' = TRUE /\ UNCHANGED <<phase, power, grant>>

\* Once the OpMode has been stopped, the platform switches its motors off.
SafeOff == /\ phase = "rest"
           /\ stopped
           /\ power' = [w \in Wheel |-> 0]
           /\ UNCHANGED <<phase, grant, stopped>>

Next == \/ Arm \/ Engage \/ Decide \/ Release \/ Stop \/ SafeOff
        \/ \E w \in Wheel : Drive(w) \/ Brake(w)

Spec == Init /\ [][Next]_vars
=============================================================================
