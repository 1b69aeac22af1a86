------------------------------ MODULE DeviceCall ------------------------------
(* The frame every method of DeviceUtils runs in: one call at a time, a few    *)
(* adb commands one after the other, and the decorators that start the whole   *)
(* method over when a command raises, Retries times.  A call starts at the     *)
(* step that bears its name.                                                   *)
EXTENDS Integers

CONSTANTS
  Retries,    \* attempts of a call after the first
  MaxCalls,   \* bound: most calls of a session
  Scripts     \* bound: the sets of methods that one run uses together

ASSUME CallAssumption == Retries \in Nat /\ MaxCalls \in Nat

VARIABLES
  op,      \* the method that runs, "none" between calls
  pc,      \* its next step
  arg,     \* its arguments
  loc,     \* the locals of its present attempt
  tries,   \* attempts that have raised
  calls,   \* calls of the session so far
  last,    \* the last call and how it ended
  script   \* the methods in use

\* The methods of the waits of DeviceSettings, then of DeviceApp.
Charges == {"WaitForCharge", "SetCharging"}
Cools   == {"LetBatteryCoolToTemperature", "EnableBatteryUpdates", "_HardwareSetCharging"}
Cpus    == {"LetCpuCoolToTemperature", "SetHighPerfMode"}
Dates   == {"SetDate"}
Cares   == {Charges, Cools, Cpus, Dates}

Asserts   == {"SetJavaAsserts"}
Screens   == {"SetScreen", "GoHome", "DismissCrashDialogIfNeeded", "StartActivity"}
Processes == {"StartActivity", "StartService", "StartInstrumentation", "BroadcastIntent",
              "ForceStop", "ClearApplicationState"}
AppCalls  == {Asserts, Screens, Processes}

callVars == <<op, pc, arg, loc, tries, calls, last, script>>

Idle     == op = "none"
Ended(o) == last = [op |-> o, how |-> "ok"]
Failed   == last.how = "raised"

CallInit == /\ op = "none" /\ pc = "none" /\ arg = <<>> /\ loc = <<>>
            /\ tries = 0 /\ calls = 0
            /\ last = [op |-> "none", how |-> "ok"]
            /\ script \in Scripts

\* A session loads and dumps its cache at most once, beside the calls counted; those of
\* a persistent shell have a bound of their own.
Counted(o) == o \notin {"LoadCacheData", "DumpCacheData", "Enter", "RunCommand", "Exit"}

Call(o, a) ==
  /\ Idle /\ o \in script
  /\ Counted(o) => calls < MaxCalls
  /\ op' = o /\ pc' = o /\ arg' = a
  /\ calls' = IF Counted(o) THEN calls + 1 ELSE calls
  /\ UNCHANGED <<loc, tries, last, script>>

\* To the step l, with locals f.
GotoWith(l, f) == pc' = l /\ loc' = f /\ UNCHANGED <<op, arg, tries, calls, last, script>>
Goto(l)        == GotoWith(l, loc)

End(how) == /\ op' = "none" /\ pc' = "none" /\ arg' = <<>> /\ loc' = <<>> /\ tries' = 0
            /\ last' = [op |-> op, how |-> how]
            /\ UNCHANGED <<calls, script>>
Return == End("ok")

\* _TimeoutRetryWrapper: once more from the start, or out of the call.
Raise == IF tries < Retries
         THEN pc' = op /\ loc' = <<>> /\ tries' = tries + 1
              /\ UNCHANGED <<op, arg, calls, last, script>>
         ELSE End("raised")

\* One adb command: it works, or it raises before or after it took effect.
Adb(Effect, Same, Then) == \/ Effect /\ Then
                           \/ (Effect \/ Same) /\ Raise
===============================================================================
