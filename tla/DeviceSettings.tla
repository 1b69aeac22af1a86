---------------------------- MODULE DeviceSettings ----------------------------
(* The settings a test changes on a device and has to give back: charging and  *)
(* the battery's reports (BatteryUtils), the performance mode (PerfControl),   *)
(* the command line flags of an app with SELinux' mode (FlagChanger).  Each is *)
(* used as a block: a call that changes, the body, a call that restores, which *)
(* is made also when the first one raised.  And the waits before a device is   *)
(* used (BatteryUtils, CpuTemperature, provisioning): until the battery is     *)
(* charged or cool, until the cores are cool, until the date is set.  A wait   *)
(* polls, and makes the blocks' calls between its polls.                       *)
EXTENDS DeviceCall, Sequences

CONSTANTS
  HasHardware,   \* the device has an enable_command
  SeesCable,     \* Android reports the cable also with charging disabled
  Cpu,           \* the cores
  MpDecision,    \* the device has mpdecision, which hot-plugs cores
  Flag,          \* command line flags
  Full, Target, Floor,   \* levels of the battery: full, waited for, too low to discharge
  MaxChargeError,        \* _MAX_CHARGE_ERROR
  MaxTries,              \* polls of the temperature of the cores
  Day                    \* seconds of a day

VARIABLES
  block,       \* the block: "before", "enter", "body", "exit", "after"
  hw,          \* charging is enabled in hardware
  usb, ac,     \* what "dumpsys battery set" made of them: "real", "0" or "1"
  online, governor, freq,          \* each core, with its highest frequency
  gpu, mpRuns,                     \* the GPU's highest frequency, and mpdecision
  file, enforce,                   \* the flags' file ({} for none), SELinux enforcing
  stack, shouldReset,              \* _state_stack, _should_reset_enforce
  half,        \* a command whose reply was lost had done part of its work
  before,      \* the flags and SELinux' mode before the first block, and the model's modes
  wait,        \* the wait, its next step and what it keeps between its polls
  level, hot,  \* of the battery; hot stands for the cores' temperature in their wait
  cut,         \* a command that sets charging in hardware has raised
  behind       \* seconds the device's clock is behind

battery  == <<hw, usb, ac>>
perf     == <<online, governor, freq, gpu, mpRuns>>
flags    == <<file, enforce, stack, shouldReset>>
vars     == <<callVars, block, battery, perf, flags, half, before>>
care     == <<wait, level, hot, cut, behind>>

TypeOK == /\ block \in {"before", "enter", "body", "exit", "after"}
          /\ hw \in BOOLEAN /\ {usb, ac} \subseteq {"real", "0", "1"}
          /\ online \in [Cpu -> BOOLEAN] /\ governor \in [Cpu -> {"default", "performance", "powersave"}]
          /\ freq \in [Cpu -> {"default", "limited"}] /\ gpu \in {"default", "limited"}
          /\ mpRuns \in BOOLEAN /\ half \in BOOLEAN
          /\ file \subseteq Flag /\ enforce \in BOOLEAN /\ shouldReset \in BOOLEAN
          /\ Len(stack) \in 1..3 /\ tries \in 0..Retries

\* What _PERFORMANCE_MODE_DEFINITIONS says of the model: nothing of a mode, to bring
\* the cores online, or the frequencies too.
Definitions == {"none", "cores", "all"}

Init == /\ CallInit /\ block = "before"
        /\ hw = TRUE /\ usb = "real" /\ ac = "real"
        /\ online \in [Cpu -> BOOLEAN] /\ governor = [c \in Cpu |-> "default"]
        /\ freq = [c \in Cpu |-> "default"] /\ gpu = "default" /\ mpRuns = MpDecision
        /\ file \in SUBSET Flag /\ enforce \in BOOLEAN
        /\ stack = <<file>> /\ shouldReset = FALSE
        /\ half = FALSE
        /\ \E d \in Definitions : before = [file |-> file, enforce |-> enforce, def |-> d]
-------------------------------------------------------------------------------
(* BatteryUtils                                                                *)

Faked   == usb # "real" \/ ac # "real"     \* UPDATES STOPPED
Powered == usb = "1" \/ ac = "1" \/ (usb = "real" /\ (hw \/ SeesCable))   \* GetCharging

Battery(u, a) == usb' = u /\ ac' = a /\ UNCHANGED hw
Command(u, a, next) == Adb(Battery(u, a), UNCHANGED battery, Goto(next))

\* SetCharging leaves a device alone that looks as asked.
SetCharging ==
  /\ pc = "SetCharging"
  /\ UNCHANGED battery
  /\ \/ Powered = arg.on /\ Return
     \/ /\ Powered # arg.on
        /\ Goto(IF ~arg.on THEN "ClearUsb" ELSE IF HasHardware THEN "Hardware" ELSE "EnableBatteryUpdates")
     \/ Raise

DisableBatteryUpdates == pc = "DisableBatteryUpdates" /\ Goto("ClearUsb") /\ UNCHANGED battery

\* _ClearPowerData: the reset at its end is made also when the clearing raised.
ClearUsb   == pc = "ClearUsb" /\ Command("1", ac, "ClearAc")
ClearAc    == pc = "ClearAc"  /\ Command(usb, "1", "ClearStats")
ClearStats == /\ pc = "ClearStats"
              /\ \E ok \in BOOLEAN : GotoWith("ClearReset", [ok |-> ok])
              /\ UNCHANGED battery
ClearReset ==
  /\ pc = "ClearReset"
  /\ IF loc.ok
     THEN Command("real", "real",
                  IF op = "SetCharging" /\ HasHardware THEN "Hardware" ELSE "SetAc")
     ELSE (Battery("real", "real") \/ UNCHANGED battery) /\ Raise

SetAc  == pc = "SetAc"  /\ Command(usb, "0", "SetUsb")
SetUsb == pc = "SetUsb" /\ Command("0", ac, "Verify")

\* _HardwareSetCharging is one script, which may stop after any part of it.
Hardware ==
  /\ pc = "Hardware"
  /\ \/ /\ hw' = arg.on
        /\ usb' = (IF arg.on THEN "real" ELSE "0") /\ ac' = usb'
        /\ Goto("Verify") \/ Raise
     \/ hw' = arg.on /\ UNCHANGED <<usb, ac>> /\ Raise
     \/ UNCHANGED battery /\ Raise

\* The call waits until the device shows what it should.
Wanted == IF op \in {"SetCharging", "_HardwareSetCharging"} THEN arg.on ELSE FALSE
Verify == /\ pc = "Verify"
          /\ (Powered = Wanted /\ Return) \/ Raise
          /\ UNCHANGED battery

EnableBatteryUpdates == pc = "EnableBatteryUpdates" /\ Command("real", "real", "Resumed")

Resumed == /\ pc = "Resumed"
           /\ ((Powered \/ ~Faked) /\ Return) \/ Raise
           /\ UNCHANGED battery

\* The answer of the command that cut the charging was lost half way.
HalfCut == half' = (half \/ (hw /\ ~hw' /\ usb' # "0"))

BatteryStep == /\ \/ SetCharging \/ DisableBatteryUpdates \/ ClearUsb \/ ClearAc \/ ClearStats
                  \/ ClearReset \/ SetAc \/ SetUsb \/ Hardware \/ Verify
                  \/ EnableBatteryUpdates \/ Resumed
               /\ HalfCut
               /\ UNCHANGED <<block, perf, flags, before>>
-------------------------------------------------------------------------------
(* PerfControl; none of its calls is retried                                   *)

Cmd(Effect, Same, Then) == (Effect /\ Then) \/ ((Effect \/ Same) /\ End("raised"))

\* SetScalingGovernor and _SetScalingMaxFreqForCpus reach the cores that are online.
SetGovernor(g) == governor' = [c \in Cpu |-> IF online[c] THEN g ELSE governor[c]]
SetFreq(S, f)  == freq' = [c \in Cpu |-> IF online[c] /\ c \in S THEN f ELSE freq[c]]

\* SetHighPerfMode: root, then _ForceAllCpusOnline, then the governor, then the
\* frequencies of the clusters and of the GPU.
SetHighPerfMode ==
  /\ pc = "SetHighPerfMode"
  /\ \/ Goto(IF before.def = "none" THEN "Performance" ELSE "StopMpDecision")
     \/ End("rootless")
     \/ End("raised")
  /\ UNCHANGED perf
StopMpDecision ==
  /\ pc = "StopMpDecision"
  /\ Cmd(mpRuns' = FALSE, UNCHANGED mpRuns, Goto("AllOnline"))
  /\ UNCHANGED <<online, governor, freq, gpu>>
AllOnline ==
  /\ pc = "AllOnline"
  /\ Cmd(online' = [c \in Cpu |-> TRUE], UNCHANGED online, Goto("Performance"))
  /\ UNCHANGED <<governor, freq, gpu, mpRuns>>
Performance ==
  /\ pc = "Performance"
  /\ Cmd(SetGovernor("performance"), UNCHANGED governor,
         IF before.def = "all" THEN GotoWith("Frequencies", [to |-> "limited"]) ELSE Return)
  /\ UNCHANGED <<online, freq, gpu, mpRuns>>

\* _SetMaxFrequenciesFromMode, a command for each cluster.
Frequencies ==
  /\ pc = "Frequencies"
  /\ \/ SetFreq(Cpu, loc.to) /\ Goto("Gpu")
     \/ (\E S \in SUBSET Cpu : SetFreq(S, loc.to)) /\ End("raised")
  /\ UNCHANGED <<online, governor, gpu, mpRuns>>
Gpu ==
  /\ pc = "Gpu"
  /\ Cmd(gpu' = loc.to, UNCHANGED gpu,
         IF op = "SetHighPerfMode" THEN Return ELSE Goto("StartMpDecision"))
  /\ UNCHANGED <<online, governor, freq, mpRuns>>

SetDefaultPerfMode ==
  /\ pc = "SetDefaultPerfMode"
  /\ \/ End("rootless") /\ UNCHANGED governor
     \/ Cmd(SetGovernor("default"), UNCHANGED governor,
            IF before.def = "all" THEN GotoWith("Frequencies", [to |-> "default"])
            ELSE Goto("StartMpDecision"))
  /\ UNCHANGED <<online, freq, gpu, mpRuns>>
StartMpDecision ==
  /\ pc = "StartMpDecision"
  /\ Cmd(mpRuns' = MpDecision, UNCHANGED mpRuns, Return)
  /\ UNCHANGED <<online, governor, freq, gpu>>

PerfStep == /\ \/ SetHighPerfMode \/ StopMpDecision \/ AllOnline \/ Performance \/ Frequencies \/ Gpu
               \/ SetDefaultPerfMode \/ StartMpDecision
            /\ UNCHANGED <<block, battery, flags, half, before>>

\* mpdecision takes cores off and on while it runs.
HotPlug == /\ mpRuns /\ "SetHighPerfMode" \in script
           /\ \E c \in Cpu : online' = [online EXCEPT ![c] = ~@]
           /\ UNCHANGED <<callVars, block, battery, governor, freq, gpu, mpRuns, flags, half,
                          before>>
-------------------------------------------------------------------------------
(* FlagChanger; the top of the stack is what the file should hold              *)

Top == stack[Len(stack)]

\* ReplaceFlags pushes the new flags before anything is done to the device.
ReplaceFlags ==
  /\ pc = "ReplaceFlags"
  /\ stack' = Append(stack, arg.new)
  /\ Goto(IF enforce THEN "SetPermissive" ELSE "UpdateCommandLineFile")
  /\ UNCHANGED <<file, enforce, shouldReset, half>>

SetPermissive ==
  /\ pc = "SetPermissive"
  /\ \/ enforce' = FALSE /\ shouldReset' = TRUE /\ UNCHANGED half
        /\ Goto("UpdateCommandLineFile")
     \/ enforce' \in BOOLEAN /\ UNCHANGED shouldReset /\ half' = (half \/ ~enforce')
        /\ End("raised")
  /\ UNCHANGED <<file, stack>>

\* _UpdateCommandLineFile writes or removes the file and reads it back.
UpdateCommandLineFile ==
  /\ pc = "UpdateCommandLineFile"
  /\ Cmd(file' = Top, UNCHANGED file, Return)
  /\ UNCHANGED <<enforce, stack, shouldReset, half>>

Restore ==
  /\ pc = "Restore"
  /\ stack' = SubSeq(stack, 1, Len(stack) - 1)
  /\ Goto(IF Len(stack) = 2 /\ shouldReset THEN "ResetEnforce" ELSE "UpdateCommandLineFile")
  /\ UNCHANGED <<file, enforce, shouldReset, half>>

ResetEnforce ==
  /\ pc = "ResetEnforce"
  /\ \/ enforce' = TRUE /\ shouldReset' = FALSE /\ Goto("UpdateCommandLineFile")
     \/ enforce' \in BOOLEAN /\ UNCHANGED shouldReset /\ End("raised")
  /\ UNCHANGED <<file, stack, half>>

FlagStep == /\ ReplaceFlags \/ SetPermissive \/ UpdateCommandLineFile \/ Restore \/ ResetEnforce
            /\ UNCHANGED <<block, battery, perf, before>>
-------------------------------------------------------------------------------
(* The blocks                                                                  *)

Change  == \/ "BatteryMeasurement" \in script /\ Call("DisableBatteryUpdates", <<>>)
           \/ "PowerMeasurement" \in script /\ Call("SetCharging", [on |-> FALSE])
           \/ "SetHighPerfMode" \in script /\ Call("SetHighPerfMode", <<>>)
           \/ \E f \in SUBSET Flag : Call("ReplaceFlags", [new |-> f])
GiveBack == \/ "BatteryMeasurement" \in script /\ Call("EnableBatteryUpdates", <<>>)
            \/ "PowerMeasurement" \in script /\ Call("SetCharging", [on |-> TRUE])
            \/ "SetHighPerfMode" \in script /\ Call("SetDefaultPerfMode", <<>>)
            \/ Call("Restore", <<>>)

\* A block may hold another block of the same kind for the flags.
Nested  == Len(stack) = 2 /\ block = "body" /\ ~Failed

Enter   == /\ block = "before" \/ Nested
           /\ Change /\ block' = "enter"
           /\ UNCHANGED <<battery, perf, flags, half, before>>
Body    == /\ block = "enter" /\ Idle
           /\ block' = "body"
           /\ UNCHANGED <<callVars, battery, perf, flags, half, before>>
Finally == /\ block = "body" /\ Idle
           /\ GiveBack /\ block' = "exit"
           /\ UNCHANGED <<battery, perf, flags, half, before>>
Leave   == /\ block = "exit" /\ Idle
           /\ block' = IF Len(stack) > 1 THEN "body" ELSE "after"
           /\ UNCHANGED <<callVars, battery, perf, flags, half, before>>

Next == BatteryStep \/ PerfStep \/ HotPlug \/ FlagStep \/ Enter \/ Body \/ Finally \/ Leave
Spec == Init /\ [][Next]_vars
-------------------------------------------------------------------------------
(* The waits                                                                   *)

NoWait == [for |-> "none", at |-> "none", start |-> 0, peak |-> 0, fails |-> 0, polls |-> 0,
           again |-> FALSE, was |-> "none", how |-> "ok"]

CareInit ==
  /\ wait = NoWait /\ level = 0 /\ hot = FALSE /\ cut = FALSE /\ behind = 0
-------------------------------------------------------------------------------
At(for, at) == wait.for = for /\ wait.at = at /\ Idle /\ ~Failed
Start(o)    == /\ o \in script /\ Idle /\ wait.for = "none" /\ calls < MaxCalls
               /\ wait' = [NoWait EXCEPT !.for = o, !.at = "poll"]
To(at)      == wait' = [wait EXCEPT !.at = at]
EndWait(how) == wait' = [NoWait EXCEPT !.was = wait.for, !.how = how]

\* A call that is made by the wait, which is not counted; t tries of it are over.
Direct(o, l, a, t) == /\ op' = o /\ pc' = l /\ arg' = a /\ tries' = t
                      /\ UNCHANGED <<loc, calls, last, script>>
Hardware_(on) == Direct("_HardwareSetCharging", "Hardware", [on |-> on], Retries)

device == <<level, hot, behind>>
Same   == UNCHANGED <<device, cut, battery, perf>>

\* A call of the wait that raised ends the wait.
CallRaised ==
  /\ wait.for # "none" /\ Idle /\ Failed /\ EndWait("raised")
  /\ cut' = (cut \/ last.op = "_HardwareSetCharging")
  /\ UNCHANGED <<callVars, device, battery, perf>>

\* The device meanwhile: charging may fail to keep up with what it uses.
Drift ==
  /\ wait.at \in {"poll", "on"} /\ Idle
  /\ \/ script \in {Charges, Cools} /\ level' \in {level - 1, level + 1} \cap 0..Full
        /\ (level' > level => hw) /\ UNCHANGED hot
     \/ script \in {Cools, Cpus} /\ hot' = ~hot /\ UNCHANGED level
  /\ UNCHANGED <<callVars, wait, cut, behind, battery, perf>>
-------------------------------------------------------------------------------
(* ChargeDeviceToLevel, as WaitForCharge calls it                              *)

\* The caller may have disabled charging before.
Uncharge == /\ script = Charges /\ wait.for = "none" /\ Call("SetCharging", [on |-> FALSE])
            /\ UNCHANGED wait /\ Same

WaitForCharge ==
  /\ Start("WaitForCharge") /\ Direct("SetCharging", "SetCharging", [on |-> TRUE], 0) /\ Same

\* As if any change of the level were charging (a mutant).
Changed(b, peak) == b # peak
Rose(b, peak)    == b > peak

\* device_charged: a level that cannot be read counts as charged.  After
\* DeviceChargingError the device reboots, and the wait starts over once.
device_charged ==
  /\ At("WaitForCharge", "poll")
  /\ LET rose  == Rose(level, wait.peak)
         fails == IF rose THEN 0 ELSE wait.fails + 1
         error == level < Target /\ fails >= MaxChargeError
     IN \/ /\ \/ EndWait("raised") \/ EndWait("unknown")
              \/ level >= Target /\ EndWait("ok")
              \/ error /\ wait.again /\ EndWait("uncharged")
              \/ /\ level < Target /\ ~error
                 /\ wait' = [wait EXCEPT !.peak = IF rose THEN level ELSE @, !.fails = fails,
                                         !.polls = IF @ < Target * MaxChargeError THEN @ + 1 ELSE @]
           /\ UNCHANGED <<callVars, battery>>
        \/ /\ error /\ ~wait.again
           /\ wait' = [NoWait EXCEPT !.for = "WaitForCharge", !.at = "poll", !.again = TRUE]
           /\ Direct("SetCharging", "SetCharging", [on |-> TRUE], 0)
           /\ hw' = TRUE /\ usb' = "real" /\ ac' = "real"
  /\ UNCHANGED <<device, cut, perf>>
-------------------------------------------------------------------------------
(* LetBatteryCoolToTemperature, and _DischargeDevice by one percent            *)

LetBatteryCoolToTemperature ==
  /\ Start("LetBatteryCoolToTemperature")
  /\ Direct("EnableBatteryUpdates", "EnableBatteryUpdates", <<>>, 0) /\ Same

\* cool_device: a hot device of the one model with this remedy is discharged, unless
\* its battery is low.
cool_device ==
  /\ At("LetBatteryCoolToTemperature", "poll")
  /\ \/ EndWait("raised") /\ UNCHANGED callVars
     \/ ~hot /\ EndWait("ok") /\ UNCHANGED callVars
     \/ /\ hot /\ HasHardware /\ level > Floor + 1
        /\ wait' = [wait EXCEPT !.at = "on", !.start = level] /\ Hardware_(FALSE)
  /\ Same

\* device_discharged: charging is on again before the level is read.
ChargeAgain == /\ At("LetBatteryCoolToTemperature", "on")
               /\ To("read") /\ Hardware_(TRUE) /\ Same

device_discharged ==
  /\ At("LetBatteryCoolToTemperature", "read")
  /\ \/ EndWait("raised") /\ UNCHANGED callVars
     \/ wait.start - level >= 1 /\ To("poll") /\ UNCHANGED callVars
     \/ wait.start - level < 1 /\ To("on") /\ Hardware_(FALSE)
  /\ Same
-------------------------------------------------------------------------------
(* LetCpuCoolToTemperature                                                     *)

LetCpuCoolToTemperature ==
  /\ Start("LetCpuCoolToTemperature")
  /\ calls' = calls + 1
  /\ \/ SetGovernor("powersave") /\ last' = [op |-> "SetScalingGovernor", how |-> "ok"]
     \/ SetGovernor("powersave") /\ last' = [op |-> "SetScalingGovernor", how |-> "raised"]
     \/ UNCHANGED governor /\ last' = [op |-> "SetScalingGovernor", how |-> "raised"]
  /\ UNCHANGED <<op, pc, arg, loc, tries, script, device, cut, battery, online, freq, gpu,
                 mpRuns>>

\* WaitFor with max_tries returns also if the cores are still hot.
cool_cpu ==
  /\ At("LetCpuCoolToTemperature", "poll")
  /\ \/ EndWait("raised") /\ UNCHANGED callVars
     \/ /\ ~hot \/ wait.polls + 1 = MaxTries
        /\ To("mode") /\ Direct("SetHighPerfMode", "SetHighPerfMode", <<>>, Retries)
     \/ /\ hot /\ wait.polls + 1 < MaxTries
        /\ wait' = [wait EXCEPT !.polls = @ + 1] /\ UNCHANGED callVars
  /\ Same

HighPerfAgain ==
  /\ At("LetCpuCoolToTemperature", "mode") /\ EndWait(last.how) /\ UNCHANGED callVars /\ Same
-------------------------------------------------------------------------------
(* SetDate                                                                     *)

SetDate == Start("SetDate") /\ calls' = calls + 1
           /\ UNCHANGED <<op, pc, arg, loc, tries, last, script>> /\ Same

\* The seconds of the difference leave out its days, and a clock that has moved on
\* since is ahead of the time it was set to.
_set_and_verify_date ==
  /\ At("SetDate", "poll")
  /\ behind' \in -1..Day
  /\ \/ EndWait("raised")
     \/ behind' % Day <= 1 /\ EndWait("ok")
     \/ /\ behind' % Day > 1
        /\ IF wait.polls = 1 THEN EndWait("raised") ELSE wait' = [wait EXCEPT !.polls = 1]
  /\ UNCHANGED <<callVars, level, hot, cut, battery, perf>>

CareNext ==
  \/ script \notin Cares /\ Next /\ UNCHANGED care
  \/ script \in Cares /\ (BatteryStep \/ PerfStep \/ HotPlug) /\ UNCHANGED care
  \/ /\ \/ CallRaised \/ Drift \/ Uncharge \/ WaitForCharge \/ device_charged
        \/ LetBatteryCoolToTemperature \/ cool_device \/ ChargeAgain \/ device_discharged
        \/ LetCpuCoolToTemperature \/ cool_cpu \/ HighPerfAgain
        \/ SetDate \/ _set_and_verify_date
     /\ UNCHANGED <<block, flags, half, before>>
-------------------------------------------------------------------------------
(* Properties                                                                  *)

Over(s) == block = "after" /\ s \in script /\ ~Failed

\* After "with BatteryMeasurement()" the battery's reports are the real ones,
\* whichever of the commands before it raised, the first of them included.
ReportsResume == Over("BatteryMeasurement") => ~Faked

\* After "with PowerMeasurement()" the device charges again, unless the command
\* that cut it was itself cut short.
ChargingResumes == Over("PowerMeasurement") /\ ~half => hw

\* "Once the with block is exited, charging is resumed." (battery_utils.py 571)
ChargingIsResumed == Over("PowerMeasurement") => hw

\* On a model whose mode brings the cores online, SetHighPerfMode reaches every core,
\* also those that were off-line, and every core has the default governor and
\* frequency when the mode has been given back, also when it was set half way.
AllCoresTogether ==
  before.def # "none" =>
  /\ block = "body" /\ Ended("SetHighPerfMode")
       => \A c \in Cpu : online[c] /\ governor[c] = "performance"
  /\ block = "after" /\ Ended("SetDefaultPerfMode")
       => mpRuns = MpDecision /\ \A c \in Cpu : governor[c] = "default" /\ freq[c] = "default"

\* The blocks of flags give back the flags that were there before, at every level
\* of nesting, and the outermost one gives back SELinux' mode.
FlagsRestored ==
  Over("ReplaceFlags") => /\ file = before.file
                          /\ half \/ enforce = before.enforce

Waited(for) == wait.for = "none" /\ wait.was = for

\* A wait for a charge gives up however the level moves, the level going down and up
\* again included; charging is on again when the wait for a cool battery is over, if
\* no command of it failed; and a wait for cool cores leaves all of them at full speed.
WaitsLeaveInOrder ==
  /\ script = Charges => wait.polls < Target * MaxChargeError
  /\ Waited("LetBatteryCoolToTemperature") /\ ~cut => hw
  /\ Waited("LetCpuCoolToTemperature") /\ wait.how = "ok" /\ before.def # "none" =>
       \A c \in Cpu : online[c] /\ governor[c] = "performance"

\* "Set the performance mode" (cpu_temperature.py 147): not on a rooted device with a
\* user build, which SetHighPerfMode refuses.
PowersaveIsLeft == Waited("LetCpuCoolToTemperature") => \A c \in Cpu : governor[c] # "powersave"

\* "Date/time successfully set" (provision_devices.py 487): perhaps days ago.
DateIsSet == Waited("SetDate") /\ wait.how = "ok" => behind \in 0..1
===============================================================================
