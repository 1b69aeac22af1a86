----------------------------- MODULE DeviceTools -----------------------------
(* The tools that work on a device through DeviceUtils, one in each behaviour: *)
(* the settings given back after a test, shell commands and file transfers,    *)
(* an app's shared preferences, the replacement of a system app, the flashing  *)
(* of its partitions, a WebView provider for a while, what is recorded during  *)
(* a test, and calls on many devices at once.  Most make their calls in the    *)
(* one frame of DeviceCall; script says which calls those are, and a tool that *)
(* is not in use stays in one of its first states.                             *)
EXTENDS DeviceCall, Sequences

CONSTANTS
  HasHardware, SeesCable, Cpu, MpDecision, Flag,   \* DeviceSettings
  Full, Target, Floor, MaxChargeError, MaxTries, Day,
  Temps, MaxEdits, MaxSends, ShellMax,             \* DeviceShell; ShellMax bounds its calls
  Key, Val,                                        \* SharedPrefs
  SystemMax,                                       \* bound: calls of SystemApp and Fastboot
  MaxPids, MaxKeys,                                \* DeviceApp
  MaxFrames, Frames, MaxStarts, Pkg, Uids,         \* Recorders
  Many, MaxGroups                                  \* Parallel: the devices are 1..Many

\* A wait for a charge is for a level above zero (provision_devices.py 127), and
\* _MAX_CHARGE_ERROR is 20.
ASSUME ToolsAssumption == /\ {HasHardware, SeesCable, MpDecision} \subseteq BOOLEAN
                          /\ {ShellMax, SystemMax, MaxEdits, MaxSends, MaxPids, MaxKeys, MaxFrames,
                            Frames, MaxStarts, Many, MaxGroups} \subseteq Nat
                          /\ {Full, Target, Floor, MaxChargeError, MaxTries, Day} \subseteq Nat
                          /\ Uids \subseteq Nat \ {0}
                          /\ {"no file", "torn"} \cap Key = {}
                          /\ 0 < MaxTries /\ 0 < MaxChargeError
                          /\ 0 < Target /\ Target <= Full

VARIABLES
  block, hw, usb, ac, online, governor, freq, gpu, mpRuns, flagFile, enforce, stack,
  shouldReset, half, before, wait, level, hotBattery, cut, behind,
  path, su, temp, deleting, orphan, procs, edits, seen, killed, answer,
  md5bin, process, alive, pipe, sent, printed, odd, heard,
  prefFile, twin, visible, prefApp, loaded, xml, changed, saved, ours,
  sysApp, store, replaced, root, prop, rw, stopped, frames, raised, wrong, first,
  mode, charge, images, info, zip, listed, flashed, wiped, slipped,
  knows, lock, prompts, reported,
  sdk, fallback, provider, sysVer, userVer, shipped, failed, found,
  use, main, thread, held, starts, recWrong, shown, buffer, get, stop, queue, times, lastTime,
  empty, from, upTo, handed, records, videoFile, pulled, hot, log, throttled,
  uid, uids, power,
  screen, front, over, apps, pids, named, ran, preMR2, present, known, java, lines, asked,
  hurt,
  sync, caller, then, group, value, running, inside, groups, outcome, ahead, entry

settings == <<block, hw, usb, ac, online, governor, freq, gpu, mpRuns, flagFile, enforce,
              stack, shouldReset, half, before, wait, level, hotBattery, cut, behind>>
shell    == <<path, su, temp, deleting, orphan, procs, edits, seen, killed, answer, md5bin,
              process, alive, pipe, sent, printed, odd, heard>>
prefs    == <<prefFile, twin, visible, prefApp, loaded, xml, changed, saved, ours>>
system   == <<sysApp, store, replaced, root, prop, rw, stopped, frames, raised, wrong, first>>
fast     == <<mode, charge, images, info, zip, listed, flashed, wiped, slipped, knows, lock,
              prompts, reported>>
web      == <<sdk, fallback, provider, sysVer, userVer, shipped, failed, found>>
rec      == <<use, main, thread, held, starts, recWrong, shown, buffer, get, stop, queue,
              times, lastTime, empty, from, upTo, handed, records, videoFile, pulled, hot, log,
              throttled, uid, uids, power>>
many     == <<sync, caller, then, group, value, running, inside, groups, outcome, ahead, entry>>
phone    == <<screen, front, over, apps, pids, named, ran, preMR2, present, known, java, lines, asked,
              hurt>>
vars     == <<callVars, settings, shell, prefs, system, fast, web, rec, phone, many>>

Settings == INSTANCE DeviceSettings WITH file <- flagFile, hot <- hotBattery
Shell    == INSTANCE DeviceShell    WITH MaxCalls <- ShellMax
Prefs    == INSTANCE SharedPrefs    WITH file <- prefFile, app <- prefApp, Retries <- 0
System   == INSTANCE SystemApp      WITH app <- sysApp, Retries <- 0, MaxCalls <- SystemMax
Fast     == INSTANCE Fastboot       WITH MaxCalls <- SystemMax
Web      == INSTANCE WebView        WITH Retries <- 0, MaxCalls <- SystemMax
Rec      == INSTANCE Recorders      WITH wrong <- recWrong, answer <- handed,
                                         procs <- records, file <- videoFile
App      == INSTANCE DeviceApp      WITH before <- preMR2, MaxCalls <- SystemMax
Together == INSTANCE Parallel       WITH N <- Many

ShellCalls  == {"RunShellCommand", "ReadFile", "WriteFile", "KillAll",
                "TakeScreenshot", "RestartAdbd", "Md5"}
PipeCalls   == {"Enter", "RunCommand", "Exit"}
PrefsCalls  == {"Load", "SetPrefValue", "Remove", "Clear", "Commit"}
SystemCalls == {"ReplaceSystemApp", "EnableSystemAppModification", "RemoveSystemApps",
                "StripSystemApps"}
Blocks      == {{"BatteryMeasurement", "DisableBatteryUpdates", "EnableBatteryUpdates"},
                {"PowerMeasurement", "SetCharging"},
                {"SetHighPerfMode", "SetDefaultPerfMode"},
                {"ReplaceFlags", "Restore"}}
FastCalls   == {"FlashDevice"}
UnlockCalls == {"UnlockBootloader"}
WebCalls    == {"UseWebViewProvider"}
RecCalls    == {"Start", "Stop", "Pull", "IsThrottled", "GetPowerData"}
ManyCalls   == {"pMap", "pGet"}
AllScripts  == Blocks \cup Cares \cup AppCalls
                 \cup {ShellCalls, PipeCalls, PrefsCalls, SystemCalls, FastCalls, UnlockCalls, WebCalls,
                      RecCalls, ManyCalls}
PrefsScript == {PrefsCalls}

Init ==
  /\ Settings!Init /\ Settings!CareInit
  /\ "SetHighPerfMode" \notin script => before.def = "all" /\ online = [c \in Cpu |-> TRUE]
  /\ "ReplaceFlags" \notin script => flagFile = {} /\ ~enforce
  /\ Shell!ShellInit
  /\ script # ShellCalls => path = "none" /\ ~su /\ procs = {} /\ md5bin = "none"
  /\ Prefs!PrefsInit
  /\ script # PrefsCalls => prefFile = Prefs!NoFile /\ ~twin /\ ~visible
  /\ System!SysInit
  /\ script # SystemCalls => sysApp = "none" /\ ~root /\ ~first.verity
  /\ Fast!FastInit
  /\ script # FastCalls => images = {"boot"} /\ info = "none" /\ ~zip /\ ~listed
  /\ script # UnlockCalls => knows = {} /\ lock = "locked"
  /\ Web!WebInit
  /\ script # WebCalls => sdk = "M" /\ ~fallback /\ sysVer = "none" /\ userVer = <<>>
                            /\ provider = "other" /\ shipped
  /\ Rec!RecInit
  /\ script # RecCalls => use = "video"
  /\ App!AppInit
  /\ script # Screens => ~screen /\ front = "app"
  /\ script # Processes => ~preMR2 /\ known = "unknown"
  /\ script # Asserts => lines = App!NoLines
  /\ Together!ParInit
  /\ script # ManyCalls => sync

Next ==
  \/ script \in Blocks \cup Cares /\ Settings!CareNext
     /\ UNCHANGED <<shell, prefs, system, fast, web, rec, phone, many>>
  \/ script \in {ShellCalls, PipeCalls} /\ Shell!ShellNext
     /\ UNCHANGED <<settings, prefs, system, fast, web, rec, phone, many>>
  \/ script = PrefsCalls /\ Prefs!PrefsNext
     /\ UNCHANGED <<settings, shell, system, fast, web, rec, phone, many>>
  \/ script = SystemCalls /\ System!SysNext
     /\ UNCHANGED <<settings, shell, prefs, fast, web, rec, phone, many>>
  \/ script \in {FastCalls, UnlockCalls} /\ Fast!FastNext
     /\ UNCHANGED <<settings, shell, prefs, system, web, rec, phone, many>>
  \/ script = WebCalls /\ Web!WebNext
     /\ UNCHANGED <<settings, shell, prefs, system, fast, rec, phone, many>>
  \/ script = RecCalls /\ Rec!RecNext
     /\ UNCHANGED <<callVars, settings, shell, prefs, system, fast, web, phone, many>>
  \/ script \in AppCalls /\ App!AppNext
     /\ UNCHANGED <<settings, shell, prefs, system, fast, web, rec, many>>
  \/ script = ManyCalls /\ Together!ParNext
     /\ UNCHANGED <<callVars, settings, shell, prefs, system, fast, web, rec, phone>>

Spec == Init /\ [][Next]_vars
------------------------------------------------------------------------------
(* Properties                                                                 *)

\* What a block of a test changed on the device is given back, whichever of its
\* commands raised: the battery's reports, charging, the cores, the flags; and a wait
\* for a charge gives up however the level moves, charging is on again after a wait for
\* a cool battery, and all cores run at full speed after one for cool cores.
SettingsAreKept == /\ Settings!ReportsResume /\ Settings!ChargingResumes
                   /\ Settings!AllCoresTogether /\ Settings!FlagsRestored
                   /\ Settings!WaitsLeaveInOrder

\* A ReadFile that returns gives a whole content the file had while it ran, by cat,
\* by a copy and a pull, or from an output that adb cut the first time; and the
\* temporary files go, however the call that made them ended; and the answers of a
\* persistent shell are those of the command each was asked for.
ShellIsClean == /\ script = ShellCalls => /\ Shell!ReadsAreWhole /\ Shell!TempsGo
                                           /\ Shell!SumsAreOfAWholeBinary
                /\ script = PipeCalls => Shell!AnswersAreOwn

\* Once a Commit is back nothing is left that has the old contents, neither a process of
\* the app nor the file's twin, and the file has the object's unless the app wrote it
\* between the Commit's own write and the kill, or since.
CommitSticks == Prefs!CommitSticks

\* A replaced system app is back in its place after its block, the replacement gone, and
\* the mode that was taken for it given back, each unless one of its own commands
\* failed; a mode the caller holds stays; and what a removal that fails leaves stopped.
ReplacementIsUndone == /\ System!ReplacementIsUndone /\ System!ScopeStaysOpen
                       /\ script = SystemCalls => System!FrameworkRuns

\* A device that was to be flashed is not left in its bootloader, unless one of the
\* commands that lead into it or out of it failed; and only a whole build for its
\* board is flashed, in order, with userdata only in a wipe; and what is told of a
\* device that was to be unlocked is so.
FlashIsSafe == /\ script = FastCalls => Fast!LeavesBootloader /\ Fast!FlashesVerified
               /\ script = UnlockCalls => Fast!UnlockIsTold

\* A WebView provider that was used for a block is given back with the fallback logic
\* and the package, and a context that cannot be left does not keep the others.
ProviderIsGivenBack == script = WebCalls => Web!GivenBack /\ Web!OuterContextLeaves

\* The processes that bear the app's name are stopped, all of them when its state is
\* cleared, the launcher is in front and Java asserts as they were asked for, however
\* often a command or a key was sent again.
AppIsAsAsked ==
  script \in AppCalls => App!StopMeansGone /\ App!HomeIsFront /\ App!AssertsStay

\* What is recorded while nothing got lost is what happened: every frame once, the
\* whole video, the throttling, each package's power; and a Stop waits for a thread that
\* has died only after one that took the thread's exception.
RecordsAreTrue ==
  script = RecCalls => /\ Rec!FramesOnce /\ Rec!StopIsAnswered
                       /\ Rec!VideoIsWhole /\ Rec!ThrottlingIsTold /\ Rec!PowerIsItsOwn

\* A call on all devices has ended on all of them when it is back, and a with
\* statement that was entered leaves the context of each.
AllTogether == script = ManyCalls => Together!BackMeansDone /\ Together!EveryContextIsLeft

\* "True if properties have changed and a commit would be needed."
\* (shared_prefs.py 251)
ChangedMeansCommit == Prefs!ChangedMeansCommit
==============================================================================
