------------------------------ MODULE DeviceApp ------------------------------
(* DeviceUtils on the app under test and the screen before it: activities and  *)
(* services, the ways to stop them, the keys that get the launcher or the      *)
(* screen back, and the Java asserts that stay across reboots.  A key is an    *)
(* event, and a command whose answer was lost sends it once more.              *)
EXTENDS DeviceCall

CONSTANTS
  MaxPids,    \* bound: processes of the app there have been
  MaxKeys     \* bound: how often one key event gets through

VARIABLES
  screen,          \* whether it is on
  front, over,     \* the activity in front, the dialog over it
  apps, pids, ran, \* the app's processes, how many there were, those at a call's start
  named,           \* the processes that have had the package's name, not "package:name"
  before,          \* build_version_sdk is below JELLY_BEAN_MR2
  present, known,  \* the package on the device, and as package_apk_paths has it
  java, lines,     \* the property for asserts; the lines of local.prop
  asked,           \* what the last SetJavaAsserts was asked for and answered
  hurt             \* a read or a write of local.prop failed

focusVars == <<front, over>>
procVars  == <<apps, pids, named>>
pkgVars   == <<present, known>>
javaVars  == <<java, lines, asked, hurt>>
appVars   == <<screen, focusVars, procVars, ran, before, pkgVars, javaVars>>

NoLines   == [asserts |-> "", others |-> FALSE]
Dialogs   == {"enter", "back", "crash"}     \* two kinds of popups by the key that ends them

AppInit == /\ screen \in BOOLEAN /\ front \in {"launcher", "app"} /\ over = "none"
           /\ apps = {} /\ pids = 0 /\ named = {} /\ ran = {} /\ before \in BOOLEAN
           /\ present = TRUE /\ known \in {"unknown", "present"}
           /\ lines \in [asserts : {"", "all"}, others : BOOLEAN] /\ java = lines.asserts
           /\ hurt = FALSE
           /\ asked = [enabled |-> "", answer |-> FALSE, was |-> java, others |-> lines.others]
-------------------------------------------------------------------------------
(* What the commands do on the device                                         *)

\* A process of the app for what is started, unless it has one already; the manifest may
\* give it a name of its own after the package's.
Spawn  == present /\ pids < MaxPids /\ pids' = pids + 1 /\ named' \in {named, named \cup {pids'}}
Launch == IF apps = {} THEN Spawn /\ apps' = {pids + 1} ELSE UNCHANGED procVars
Stopped == apps' = {} /\ UNCHANGED <<pids, named>>

\* One key where it gets to: a dialog goes by the key of its kind, the launcher may
\* start an app for ENTER, and BACK may leave an activity.
KeyDown(key, f) ==
  CASE f.over = key -> {[f EXCEPT !.over = "none"]}
    [] f.over = "crash" /\ key = "enter" -> {f, [f EXCEPT !.over = "none"]}
    [] f.over = "none" /\ key = "enter" /\ f.front = "launcher" -> {f, [f EXCEPT !.front = "app"]}
    [] f.over = "none" /\ key = "back" /\ f.front = "app" -> {f, [f EXCEPT !.front = "launcher"]}
    [] OTHER -> {f}

Pressed(key, n) ==
  LET After[i \in 0..MaxKeys] == IF i = 0 THEN {[front |-> front, over |-> over]}
                                 ELSE UNION {KeyDown(key, f) : f \in After[i - 1]}
  IN  \E f \in After[n] : front' = f.front /\ over' = f.over

\* SendKeyEvent to a window: it has been sent at least once, or the command raised.
SendKeyEvent(key, Then) == \/ \E n \in 1..MaxKeys : Pressed(key, n) /\ Then
                           \/ \E n \in 0..MaxKeys : Pressed(key, n) /\ Raise

Launcher == front = "launcher" /\ over = "none"
-------------------------------------------------------------------------------
(* Activities, services, broadcasts                                           *)

\* am start, with -S after a force-stop; it may answer with an error.
StartActivity ==
  /\ pc = "StartActivity"
  /\ \/ arg.force /\ Spawn /\ apps' \in {{}, {pids + 1}}
     \/ ~arg.force /\ Launch
     \/ UNCHANGED procVars
  /\ \/ apps' # {} /\ (arg.force => apps' # apps) /\ front' = "app" /\ UNCHANGED over /\ Return
     \/ UNCHANGED focusVars /\ Raise
  /\ UNCHANGED <<screen, ran, before, pkgVars, javaVars>>

\* am startservice and am broadcast start processes and show nothing.
StartService ==
  /\ pc = "StartService"
  /\ Adb(Launch, UNCHANGED procVars, Return)
  /\ UNCHANGED <<screen, focusVars, ran, before, pkgVars, javaVars>>

BroadcastIntent ==
  /\ pc = "BroadcastIntent"
  /\ Adb(Launch \/ UNCHANGED procVars, UNCHANGED procVars, Return)
  /\ UNCHANGED <<screen, focusVars, ran, before, pkgVars, javaVars>>

\* am instrument restarts the process; with -w it is at its end when that returns.
StartInstrumentation ==
  /\ pc = "StartInstrumentation"
  /\ \/ Spawn /\ apps' = (IF arg.finish THEN {} ELSE {pids + 1}) /\ Return
     \/ Spawn /\ apps' \in {{}, {pids + 1}} /\ Raise
     \/ UNCHANGED procVars /\ Raise
  /\ UNCHANGED <<screen, focusVars, ran, before, pkgVars, javaVars>>

\* ps, filtered on the device; a grep that finds nothing is no failure.  Of the processes
\* with the package in their name, those that have no other.
_GetPsOutput       == apps
GetApplicationPids == _GetPsOutput \cap named

\* Nothing is stopped where no process has the package's name.
ForceStop ==
  /\ pc = "ForceStop"
  /\ (IF GetApplicationPids = {} THEN Return ELSE Goto("StopPackage")) \/ Raise
  /\ UNCHANGED appVars

StopPackage ==
  /\ pc = "StopPackage"
  /\ Adb(Stopped, UNCHANGED procVars, Return)
  /\ UNCHANGED <<screen, focusVars, ran, before, pkgVars, javaVars>>

\* "pm clear on a package that doesn't exist may never return" below MR2; the paths of
\* the package come from the cache there.
ClearApplicationState ==
  /\ pc = "ClearApplicationState"
  /\ LET there == IF known = "unknown" THEN present ELSE known = "present"
     IN  \/ ~before /\ Goto("Clear") /\ UNCHANGED known
         \/ /\ before
            /\ known' = IF there THEN "present" ELSE "absent"
            /\ IF there THEN Goto("Clear") ELSE Return
         \/ before /\ UNCHANGED known /\ Raise
  /\ UNCHANGED <<screen, focusVars, procVars, ran, before, present, javaVars>>

\* pm clear stops the app; then GrantPermissions.
Clear ==
  /\ pc = "Clear"
  /\ IF present THEN Adb(Stopped, UNCHANGED procVars, Goto("Grant"))
     ELSE UNCHANGED procVars /\ Raise
  /\ UNCHANGED <<screen, focusVars, ran, before, pkgVars, javaVars>>

Grant == pc = "Grant" /\ (Return \/ Raise) /\ UNCHANGED appVars
-------------------------------------------------------------------------------
(* The screen                                                                 *)

\* Of a dumpsys that is filtered on the device.
IsScreenOn == screen

\* POWER toggles the screen, whatever it is by then.
SetScreen ==
  /\ pc = "SetScreen"
  /\ (IF IsScreenOn = arg.on THEN Return ELSE Goto("Power")) \/ Raise
  /\ UNCHANGED appVars

Power ==
  /\ pc = "Power"
  /\ \E n \in 0..MaxKeys : /\ screen' = (IF n % 2 = 1 THEN ~screen ELSE screen)
                           /\ (n > 0 /\ Goto("ScreenTest")) \/ Raise
  /\ UNCHANGED <<focusVars, procVars, ran, before, pkgVars, javaVars>>

\* WaitFor: again until the screen is as asked, or the time of the attempt is over.
ScreenTest ==
  /\ pc = "ScreenTest"
  /\ (IsScreenOn = arg.on /\ Return) \/ Raise
  /\ UNCHANGED appVars

\* is_launcher_focused before and after the launcher is started.
GoHome ==
  /\ pc = "GoHome"
  /\ (IF Launcher THEN Return ELSE Goto("StartHome")) \/ Raise
  /\ UNCHANGED appVars

StartHome ==
  /\ pc = "StartHome"
  /\ Adb(front' = "launcher", UNCHANGED front, Goto("IsHome"))
  /\ UNCHANGED <<screen, over, procVars, ran, before, pkgVars, javaVars>>

IsHome ==
  /\ pc = "IsHome"
  /\ (IF Launcher THEN Return ELSE Goto("PressEnter")) \/ Raise
  /\ UNCHANGED appVars

\* dismiss_popups, in WaitFor.
PressEnter ==
  /\ pc = "PressEnter"
  /\ SendKeyEvent("enter", Goto("PressBack"))
  /\ UNCHANGED <<screen, procVars, ran, before, pkgVars, javaVars>>

\* As if nobody looked again (a mutant).
PressBackOnce ==
  /\ pc = "PressBack"
  /\ SendKeyEvent("back", Return)
  /\ UNCHANGED <<screen, procVars, ran, before, pkgVars, javaVars>>

PressBack ==
  /\ pc = "PressBack"
  /\ SendKeyEvent("back", Goto("IsHome"))
  /\ UNCHANGED <<screen, procVars, ran, before, pkgVars, javaVars>>

\* _FindFocusedWindow; RIGHT twice moves to the last button of the dialog.
DismissCrashDialogIfNeeded ==
  /\ pc = "DismissCrashDialogIfNeeded"
  /\ (IF over = "crash" THEN Goto("Dismiss") ELSE Return) \/ Raise
  /\ UNCHANGED appVars

\* The dialog that is there when ENTER comes; what still shows is only logged.
Dismiss ==
  /\ pc = "Dismiss"
  /\ SendKeyEvent("enter", Goto("Dismissed"))
  /\ UNCHANGED <<screen, procVars, ran, before, pkgVars, javaVars>>

Dismissed == pc = "Dismissed" /\ (Return \/ Raise) /\ UNCHANGED appVars
-------------------------------------------------------------------------------
(* SetJavaAsserts                                                             *)

New == IF arg.enabled THEN "all" ELSE ""

\* ReadFile of local.prop; any CommandFailedError is taken for a file without lines.
SetJavaAsserts ==
  /\ pc = "SetJavaAsserts"
  /\ \/ GotoWith("Persist", lines) /\ UNCHANGED hurt
     \/ GotoWith("Persist", NoLines) /\ hurt' = (hurt \/ lines # NoLines)
     \/ UNCHANGED hurt /\ Raise
  /\ UNCHANGED <<screen, focusVars, procVars, ran, before, pkgVars, java, lines, asked>>

\* The line of the property is appended, replaced or taken out.
Updated(l) == [l EXCEPT !.asserts = New]

Persist ==
  /\ pc = "Persist"
  /\ IF loc.asserts = New THEN Goto("Runtime") /\ UNCHANGED <<lines, hurt>>
     ELSE \/ lines' = Updated(loc) /\ UNCHANGED hurt /\ Goto("Runtime")
          \/ lines' \in {lines, NoLines, Updated(loc)} /\ hurt' = TRUE /\ Raise
  /\ UNCHANGED <<screen, focusVars, procVars, ran, before, pkgVars, java, asked>>

\* GetProp, and SetProp where it differs, which says that a restart is needed.
Runtime ==
  /\ pc = "Runtime"
  /\ \/ java = New /\ Return
     \/ java # New /\ Goto("SetRuntime")
     \/ Raise
  /\ UNCHANGED appVars

SetRuntime ==
  /\ pc = "SetRuntime"
  /\ \/ java' = New /\ asked' = [asked EXCEPT !.answer = TRUE] /\ Return
     \/ java' \in {java, New} /\ UNCHANGED asked /\ Raise
  /\ UNCHANGED <<screen, focusVars, procVars, ran, before, pkgVars, lines, hurt>>
-------------------------------------------------------------------------------
(* The device and its user meanwhile                                          *)

\* A dialog comes up, a crash among them, which ends a process; the screen goes off; the
\* app starts another process, or one ends; somebody uninstalls it; the device reboots
\* between calls, and init reads local.prop.
Meanwhile ==
  \/ /\ script = Screens /\ over = "none" /\ over' \in Dialogs
     /\ apps' = (IF over' = "crash" THEN {} ELSE apps)
     /\ UNCHANGED <<screen, front, pids, named, ran, before, pkgVars, javaVars>>
  \/ /\ script = Screens /\ screen /\ screen' = FALSE
     /\ UNCHANGED <<focusVars, procVars, ran, before, pkgVars, javaVars>>
  \/ /\ script = Processes /\ Spawn /\ apps' = apps \cup {pids + 1}
     /\ UNCHANGED <<screen, focusVars, ran, before, pkgVars, javaVars>>
  \/ /\ script = Processes /\ \E p \in apps : apps' = apps \ {p}
     /\ UNCHANGED <<screen, focusVars, pids, named, ran, before, pkgVars, javaVars>>
  \/ /\ script = Processes /\ present /\ present' = FALSE /\ apps' = {}
     /\ UNCHANGED <<screen, focusVars, pids, named, ran, before, known, javaVars>>
  \/ /\ script = Asserts /\ Idle /\ java # lines.asserts /\ java' = lines.asserts
     /\ UNCHANGED <<screen, focusVars, procVars, ran, before, pkgVars, lines, asked, hurt>>

Ask(b) == asked' = [asked EXCEPT !.enabled = IF b THEN "all" ELSE "", !.answer = FALSE,
                                 !.was = java]

Begin == /\ ran' = apps
         /\ IF op' = "SetJavaAsserts" THEN Ask(arg'.enabled) ELSE UNCHANGED asked
         /\ UNCHANGED <<screen, focusVars, procVars, before, pkgVars, java, lines, hurt>>

AppCalled ==
  \/ \E b \in BOOLEAN : \/ Call("SetJavaAsserts", [enabled |-> b])
                        \/ Call("SetScreen", [on |-> b])
                        \/ present /\ Call("StartActivity", [force |-> b])
                        \/ present /\ Call("StartInstrumentation", [finish |-> b])
  \/ \E o \in {"StartService", "BroadcastIntent"} : present /\ Call(o, <<>>)
  \/ \E o \in {"GoHome", "DismissCrashDialogIfNeeded", "ForceStop",
               "ClearApplicationState"} : Call(o, <<>>)

AppNext ==
  \/ (AppCalled /\ Begin) \/ StartActivity \/ StartService \/ BroadcastIntent \/ StartInstrumentation
  \/ ForceStop \/ StopPackage \/ ClearApplicationState \/ Clear \/ Grant
  \/ SetScreen \/ Power \/ ScreenTest \/ GoHome \/ StartHome \/ IsHome \/ PressEnter
  \/ PressBack \/ DismissCrashDialogIfNeeded \/ Dismiss \/ Dismissed
  \/ SetJavaAsserts \/ Persist \/ Runtime \/ SetRuntime
  \/ Meanwhile /\ UNCHANGED callVars
-------------------------------------------------------------------------------
(* Properties                                                                 *)

\* Once ClearApplicationState is back, no process is left of those that ran when it was
\* called, however many attempts it took and whatever started meanwhile; once ForceStop
\* is back, none that had the package's name.  ForceStop looks for that name alone: an
\* app of which only a process with a name of its own runs is not stopped.
StopMeansGone ==
  /\ Idle /\ Ended("ClearApplicationState") => ran \cap apps = {}
  /\ Idle /\ Ended("ForceStop") => ran \cap apps \cap named = {}

\* "Close the application." (device_utils.py 1472)
StopClosesTheApp == Idle /\ Ended("ForceStop") => ran \cap apps = {}

\* GoHome leaves the launcher in front, whatever its keys hit on the way: one that is
\* sent twice may start an app.
HomeIsFront == Idle /\ Ended("GoHome") => front = "launcher"

\* Java asserts are as they were asked for after a SetJavaAsserts that is back, after
\* a reboot too; a restart is asked for only if the property changed, and the other
\* lines stay; unless a read of the file or a write of it failed.
AssertsStay ==
  Idle /\ Ended("SetJavaAsserts") /\ ~hurt =>
    /\ java = asked.enabled /\ lines.asserts = asked.enabled
    /\ lines.others = asked.others
    /\ asked.answer => asked.was # asked.enabled

\* "True if the device-side property changed and a restart is required as a result,
\* False otherwise." (device_utils.py 2274)
ChangeIsReported ==
  Idle /\ Ended("SetJavaAsserts") /\ asked.was # asked.enabled => asked.answer
==============================================================================
