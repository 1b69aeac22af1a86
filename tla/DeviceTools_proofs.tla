-------------------------- MODULE DeviceTools_proofs --------------------------
(* Proofs about the tools that work on a device: the calls on many devices,    *)
(* the commit of shared preferences, flashing and unlocking, the WebView       *)
(* provider, the app, the system apps, and the settings a test gives back.     *)
(* A behaviour uses one tool, so the invariant of each speaks of the steps of  *)
(* its own and of the frame the others keep.                                   *)
EXTENDS DeviceTools, SequenceTheorems, TLAPS

-------------------------------------------------------------------------------
(* The frame: a step keeps the script, and a script has steps of its tool only *)

LEMMA CareScript == Settings!CareNext => script' = script
  BY DEF Settings!CareNext, Settings!Cares, Settings!Next, Settings!BatteryStep,
     Settings!PerfStep,
         Settings!HotPlug, Settings!CallRaised, Settings!Drift, Settings!Uncharge,
         Settings!WaitForCharge, Settings!device_charged, Settings!LetBatteryCoolToTemperature,
         Settings!cool_device, Settings!ChargeAgain, Settings!device_discharged,
         Settings!LetCpuCoolToTemperature, Settings!cool_cpu, Settings!HighPerfAgain,
         Settings!SetDate, Settings!_set_and_verify_date, Settings!Charges, Settings!Cools,
         Settings!Cpus, Settings!Dates, Settings!FlagStep, Settings!Enter, Settings!Body,
         Settings!Finally, Settings!Leave, Settings!SetCharging, Settings!DisableBatteryUpdates,
         Settings!ClearUsb, Settings!ClearAc, Settings!ClearStats, Settings!ClearReset,
         Settings!SetAc, Settings!SetUsb, Settings!Hardware, Settings!Verify,
         Settings!EnableBatteryUpdates, Settings!Resumed, Settings!SetHighPerfMode,
         Settings!StopMpDecision, Settings!AllOnline, Settings!Performance,
         Settings!Frequencies,
         Settings!Gpu, Settings!SetDefaultPerfMode, Settings!StartMpDecision, Settings!callVars,
         Settings!Call, Settings!Direct, Settings!Hardware_, Settings!ReplaceFlags,
         Settings!SetPermissive, Settings!UpdateCommandLineFile, Settings!Restore,
         Settings!ResetEnforce, Settings!Change, Settings!GiveBack, Settings!Return,
         Settings!Goto,
         Settings!Raise, Settings!Command, Settings!GotoWith, Settings!Wanted, Settings!End,
         Settings!Cmd, Settings!Counted, Settings!Adb

LEMMA ShellScript == Shell!ShellNext => script' = script
  BY DEF Shell!ShellNext, Shell!Args, Shell!UtilsStep, Shell!Md5Step, Shell!PipeStep,
     Shell!Call,
         Shell!RunShellCommand, Shell!ReadFile, Shell!WriteFile, Shell!TakeScreenshot,
         Shell!RestartAdbd, Shell!PipeArgs, Shell!LargeCommand, Shell!Run, Shell!ReadBack,
         Shell!CopyToReadable, Shell!PullFile, Shell!PushTemp, Shell!Put, Shell!Source,
         Shell!ListProcesses, Shell!Kill, Shell!AllPidsKilled, Shell!DeleteTemporaryFile,
         Shell!Edit, Shell!Md5Run, Shell!Md5Wipe, Shell!Md5Push, Shell!Enter, Shell!Send,
         Shell!ReadLine, Shell!Communicate, Shell!Exit, Shell!Unplug, Shell!Counted,
         Shell!GotoWith,
         Shell!Pull, Shell!Raise, Shell!Make, Shell!Keep, Shell!Printed, Shell!Give, Shell!Fail,
         Shell!Return, Shell!Adb, Shell!Goto, Shell!callVars, Shell!End

LEMMA EditScript == Prefs!PrefsNext => script' = script
  BY DEF Prefs!PrefsNext, Prefs!PrefsArgs, Prefs!Load, Prefs!ReadFile, Prefs!SetPrefValue,
         Prefs!Remove, Prefs!KeyError, Prefs!Clear, Prefs!Commit, Prefs!WriteFile,
         Prefs!SecurityContext, Prefs!RemoveTwin, Prefs!KillAll, Prefs!AppStart, Prefs!AppWrite,
         Prefs!Call, Prefs!Goto, Prefs!Return, Prefs!End, Prefs!Edited, Prefs!Host,
         Prefs!callVars,
         Prefs!GotoWith

LEMMA SysScript == System!SysNext => script' = script
  BY DEF System!SysNext, System!SysArgs, System!GetProp, System!EnableRoot,
     System!DisableVerity,
         System!RootAgain, System!Remount, System!StopFramework, System!SetProp,
         System!LeaveModify,
         System!Storage, System!FindPaths, System!Move, System!Install, System!Body,
         System!Moved,
         System!NoMove, System!LeaveMove, System!Relocated, System!LeaveInstall, System!LeaveRelocate,
         System!LeaveStorage, System!LeaveUser, System!Done, System!RemoveSystemApps,
         System!RemovePath, System!EnableSystemAppModification, System!StripSystemApps,
         System!StripPath, System!StartFramework, System!Call, System!To, System!Fails,
         System!Do,
         System!GotoWith, System!Goto, System!callVars, System!End

LEMMA FastScript == Fast!FastNext => script' = script
  BY DEF Fast!FastNext, Fast!Call, Fast!FlashDevice, Fast!FlashNext, Fast!UnlockStep, Fast!End,
         Fast!GotoWith, Fast!EnableRoot, Fast!ToBootloader, Fast!WaitForFastbootMode,
         Fast!ChargeOff, Fast!Verify, Fast!Flash, Fast!RebootBootloader, Fast!WaitAgain,
         Fast!ChargeOn, Fast!Reboot, Fast!WaitUntilFullyBooted, Fast!Arrives, Fast!RebootInto,
         Fast!Devices, Fast!PollOld, Fast!PollNew, Fast!Confirm, Fast!Again, Fast!To,
         Fast!Unwind,
         Fast!OrUnwind, Fast!Leave, Fast!callVars, Fast!Goto, Fast!Poll

LEMMA WebScript == Web!WebNext => script' = script
  BY DEF Web!WebNext, Web!WebCall, Web!UseWebViewProvider, Web!FallbackOff, Web!PullUser,
         Web!UninstallUser, Web!FindPaths, Web!ReplaceSystemApp, Web!InstallApp,
         Web!SetProvider,
         Web!Body, Web!LeaveApp, Web!Reinstall, Web!RestoreProvider, Web!RestoreFallback,
         Web!Over,
         Web!Call, Web!GotoWith, Web!End, Web!Do, Web!Goto, Web!Fails, Web!Choose, Web!Refused

LEMMA AppScript == App!AppNext => script' = script
  BY DEF App!AppNext, App!AppCalled, App!Begin, App!StartActivity, App!StartService,
         App!BroadcastIntent, App!StartInstrumentation, App!ForceStop, App!StopPackage,
         App!ClearApplicationState, App!Clear, App!Grant, App!SetScreen, App!Power,
         App!ScreenTest,
         App!GoHome, App!StartHome, App!IsHome, App!PressEnter, App!PressBack,
         App!DismissCrashDialogIfNeeded, App!Dismiss, App!Dismissed, App!SetJavaAsserts,
         App!Persist, App!Runtime, App!SetRuntime, App!Meanwhile, App!callVars, App!Call,
         App!Return, App!Raise, App!Adb, App!Goto, App!SendKeyEvent, App!GotoWith, App!Screens,
         App!Processes, App!Asserts, App!End

LEMMA ScriptStays == Next => script' = script
<1>1. Rec!RecNext /\ UNCHANGED callVars => script' = script
  BY DEF callVars
<1>2. Together!ParNext /\ UNCHANGED callVars => script' = script
  BY DEF callVars
<1> QED BY <1>1, <1>2, CareScript, ShellScript, EditScript, SysScript, FastScript, WebScript,
           AppScript DEF Next

\* No two tools have a script in common.
LEMMA OwnSteps ==
  Next => /\ (script = PrefsCalls /\ Prefs!PrefsNext) \/ (script # PrefsCalls /\ UNCHANGED prefs)
          /\ script \in {FastCalls, UnlockCalls} => Fast!FastNext
          /\ script = WebCalls => Web!WebNext
          /\ script \in AppCalls => App!AppNext
          /\ (script = SystemCalls /\ System!SysNext) \/ (script # SystemCalls /\ UNCHANGED system)
<1> DEFINE Others == Blocks \cup Cares
                       \cup {ShellCalls, PipeCalls, RecCalls, ManyCalls}
       Marks  == {"Load", "FlashDevice", "UnlockBootloader", "UseWebViewProvider",
                      "SetJavaAsserts", "StartActivity", "StripSystemApps"}
<1>1. \A s \in Others : Marks \cap s = {}
  BY DEF Blocks, Cares, Charges, Cools, Cpus, Dates, ShellCalls, PipeCalls, RecCalls,
         ManyCalls
<1>2. {PrefsCalls, FastCalls, UnlockCalls, WebCalls, SystemCalls} \cap Others = {}
  BY <1>1 DEF PrefsCalls, FastCalls, UnlockCalls, WebCalls, SystemCalls
<1>5. AppCalls \cap Others = {}
  <2>1. \A s \in AppCalls : Marks \cap s # {}
    BY DEF AppCalls, Asserts, Screens, Processes
  <2> QED BY <1>1, <2>1
<1>6. {PrefsCalls, FastCalls, UnlockCalls, WebCalls, SystemCalls} \cap AppCalls = {}
  BY DEF AppCalls, Asserts, Screens, Processes, PrefsCalls, FastCalls, UnlockCalls, WebCalls,
     SystemCalls
<1>3. /\ PrefsCalls \notin {FastCalls, UnlockCalls, WebCalls, SystemCalls}
      /\ SystemCalls \notin {FastCalls, UnlockCalls, WebCalls}
      /\ WebCalls \notin {FastCalls, UnlockCalls}
  BY DEF PrefsCalls, FastCalls, UnlockCalls, WebCalls, SystemCalls
<1>4. PrefsCalls \notin Others /\ FastCalls \notin Others /\ UnlockCalls \notin Others
      /\ WebCalls \notin Others /\ SystemCalls \notin Others
  BY <1>2
<1> QED BY <1>3, <1>4, <1>5, <1>6 DEF Next

-------------------------------------------------------------------------------
(* Parallel: all together                                                      *)

ParType ==
  /\ caller \in {"free", "join", "enter", "body", "exit"} /\ then \in {"free", "body"}
  /\ group \in [1 .. Many -> {"none", "runs", "ok", "raised"}]
  /\ DOMAIN running = 1 .. Many /\ groups \in Nat
  /\ inside \subseteq 1 .. Many
  /\ entry # "none" \/ caller = "enter" => sync

\* A device of the last group that has not ended has the thread of that group, and no
\* other has one; each group has one thread on a device, and unless the caller went
\* ahead no thread is of an earlier group.
Threads ==
  \A d \in 1 .. Many :
    /\ \A t \in running[d] : /\ t.group \in Nat /\ t.group <= groups
                             /\ t.group = groups => group[d] = "runs"
                             /\ ~ahead => t.group = groups
    /\ group[d] = "runs" => \E t \in running[d] : t.group = groups
    /\ \A s, t \in running[d] : s.group = t.group => s = t

\* A synchronous caller between calls, and values, mean that the group was joined.
Joined == ~ahead /\ (value = "values" \/ (sync /\ caller \in {"free", "body"})) => ~Together!Runs

\* Unless the wait of an entry was interrupted only the caller's own entry enters.
EntryTells == entry # "interrupted" =>
              \A d \in 1 .. Many : \A t \in running[d] :
                t.work = "enter" => caller = "enter" /\ t.group = groups

\* The end of a with statement leaves each context by a thread of its own; outside of
\* one no context is entered without.
Left(d) == \E t \in running[d] : t.work = "exit"
Leaving == entry = "ok" /\ (caller \in {"free", "exit"} \/ (caller = "join" /\ then = "free"))
             => \A d \in inside : Left(d)

ParInv == ParType /\ Threads /\ Joined /\ EntryTells /\ Leaving

LEMMA ParStarts == Together!ParInit => ParInv
  BY DEF Together!ParInit, ParInv, ParType, Threads, Joined, EntryTells, Leaving, Together!Count,
         Together!Device, Together!Runs

LEMMA StartKeepsThreads ==
  ASSUME NEW work, ParType, Threads, Together!StartAll(work), ahead' = (ahead \/ Together!Busy)
  PROVE  /\ group' \in [1 .. Many -> {"none", "runs", "ok", "raised"}]
         /\ DOMAIN running' = 1 .. Many /\ groups' \in Nat
         /\ Threads'
         /\ \A d \in 1 .. Many : group'[d] = "runs"
         /\ \A d \in 1 .. Many : running'[d] = running[d] \cup {[group |-> groups', work |-> work]}
         /\ value' = "group"
<1>1. /\ group' = [d \in 1 .. Many |-> "runs"] /\ value' = "group"
      /\ running' = [d \in 1 .. Many |-> running[d] \cup {[group |-> groups', work |-> work]}]
      /\ groups' = groups + 1
  BY DEF Together!StartAll, Together!Count, Together!Device
<1>2. groups \in Nat /\ groups' \in Nat
  BY <1>1 DEF ParType
<1>3. ~ahead' => \A d \in 1 .. Many : running[d] = {}
  <2>1. ~ahead' => ~Together!Busy
    OBVIOUS
  <2> QED BY <2>1 DEF Together!Busy, Together!Device
<1>4. ASSUME NEW d \in 1 .. Many
      PROVE  /\ \A t \in running'[d] : /\ t.group \in Nat /\ t.group <= groups'
                                       /\ t.group = groups' => group'[d] = "runs"
                                       /\ ~ahead' => t.group = groups'
             /\ group'[d] = "runs" => \E t \in running'[d] : t.group = groups'
             /\ \A s, t \in running'[d] : s.group = t.group => s = t
  <2> DEFINE new == [group |-> groups', work |-> work]
  <2>1. running'[d] = running[d] \cup {new} /\ new.group = groups' /\ group'[d] = "runs"
    BY <1>1
  <2>2. \A t \in running[d] : t.group \in Nat /\ t.group <= groups
    BY DEF Threads
  <2>3. \A t \in running[d] : t.group \in Nat /\ t.group < groups'
    BY <1>1, <1>2, <2>2
  <2>4. \A s, t \in running[d] : s.group = t.group => s = t
    BY DEF Threads
  <2> HIDE DEF new
  <2>5. ~ahead' => running[d] = {}
    BY <1>3
  <2> QED BY <1>2, <2>1, <2>3, <2>4, <2>5
<1>5. Threads'
  BY <1>4 DEF Threads
<1> QED BY <1>1, <1>2, <1>5

LEMMA RunKeeps ==
  ASSUME NEW d \in 1 .. Many, ParInv, Together!Run(d) PROVE ParInv'
<1>1. PICK t \in running[d], how \in {"ok", "raised"} :
         /\ running' = [running EXCEPT ![d] = @ \ {t}]
         /\ group' = IF t.group = groups THEN [group EXCEPT ![d] = how] ELSE group
         /\ inside' = CASE t.work = "enter" /\ how = "ok" -> inside \cup {d}
                        [] t.work = "exit" -> inside \ {d}
                        [] OTHER -> inside
  BY DEF Together!Run
<1>2. UNCHANGED <<sync, caller, then, value, groups, outcome, ahead, entry>>
  BY DEF Together!Run
<1>3. /\ DOMAIN running' = 1 .. Many /\ running'[d] = running[d] \ {t}
      /\ \A e \in 1 .. Many \ {d} : running'[e] = running[e] /\ group'[e] = group[e]
      /\ \A e \in 1 .. Many : running'[e] \subseteq running[e]
  BY <1>1 DEF ParInv, ParType
<1>4. /\ t.group = groups => group'[d] = how
      /\ t.group # groups => group'[d] = group[d]
      /\ group' \in [1 .. Many -> {"none", "runs", "ok", "raised"}]
  BY <1>1 DEF ParInv, ParType
<1>5. inside' \subseteq inside \cup {d}
  BY <1>1
<1>6. ParType'
  BY <1>2, <1>3, <1>4, <1>5 DEF ParInv, ParType
<1>7. ASSUME NEW e \in 1 .. Many
      PROVE  /\ \A s \in running'[e] : /\ s.group \in Nat /\ s.group <= groups'
                                       /\ s.group = groups' => group'[e] = "runs"
                                       /\ ~ahead' => s.group = groups'
             /\ group'[e] = "runs" => \E s \in running'[e] : s.group = groups'
             /\ \A r, s \in running'[e] : r.group = s.group => r = s
  <2>1. CASE e # d
    <3>1. running'[e] = running[e] /\ group'[e] = group[e]
      BY <1>3, <2>1
    <3> QED BY <1>2, <3>1 DEF ParInv, Threads
  <2>2. CASE e = d
    <3>1. \A s \in running[d] : s.group = t.group => s = t
      BY DEF ParInv, Threads
    <3>2. \A s \in running'[d] : s \in running[d] /\ s # t
      BY <1>3
    <3>3. group'[d] = "runs" => t.group # groups
      BY <1>4
    <3>4. group'[d] = "runs" => \E s \in running'[d] : s.group = groups
      BY <1>3, <1>4, <3>3 DEF ParInv, Threads
    <3>5. \A s \in running'[d] : s.group = groups => group'[d] = "runs"
      BY <1>4, <3>1, <3>2 DEF ParInv, Threads
    <3> QED BY <1>2, <2>2, <3>2, <3>4, <3>5 DEF ParInv, Threads
  <2> QED BY <2>1, <2>2
<1>8. Threads'
  BY <1>7 DEF Threads
<1>9. \A e \in 1 .. Many : group'[e] = "runs" => group[e] = "runs"
  BY <1>3, <1>4
<1>10. Joined'
  BY <1>2, <1>9 DEF ParInv, Joined, Together!Runs, Together!Device
<1>11. EntryTells'
  BY <1>2, <1>3 DEF ParInv, EntryTells
<1>12. Leaving'
  <2> SUFFICES ASSUME entry' = "ok",
                      caller' \in {"free", "exit"} \/ (caller' = "join" /\ then' = "free"),
                      NEW e \in inside'
               PROVE  Left(e)'
    BY DEF Leaving
  <2>1. t.work # "enter"
    BY <1>2 DEF ParInv, EntryTells
  <2>2. e \in inside /\ (t.work = "exit" => e # d)
    BY <1>1, <2>1
  <2>3. PICK s \in running[e] : s.work = "exit"
    BY <1>2, <2>2 DEF ParInv, Leaving, Left
  <2>4. e \in 1 .. Many
    BY <2>2 DEF ParInv, ParType
  <2>5. s \in running'[e]
    BY <1>3, <2>2, <2>3, <2>4
  <2> QED BY <2>3, <2>5 DEF Left
<1> QED BY <1>6, <1>8, <1>10, <1>11, <1>12 DEF ParInv

LEMMA CallsKeep ==
  ParInv /\ (Together!CallP \/ Together!CallR \/ Together!Enter \/ Together!Exit) => ParInv'
<1> SUFFICES ASSUME ParInv,
                    Together!CallP \/ Together!CallR \/ Together!Enter \/ Together!Exit
             PROVE  ParInv'
  OBVIOUS
<1>1. PICK work \in {"call", "enter", "exit"} :
        /\ Together!StartAll(work) /\ ahead' = (ahead \/ Together!Busy)
        /\ work = "enter" => caller' = "enter"
        /\ caller' = "exit" => work = "exit"
  BY DEF Together!CallP, Together!CallR, Together!Enter, Together!Exit, ParInv, ParType
<1> DEFINE new == [group |-> groups', work |-> work]
<1>2. /\ group' \in [1 .. Many -> {"none", "runs", "ok", "raised"}]
      /\ DOMAIN running' = 1 .. Many /\ groups' \in Nat /\ Threads'
      /\ \A d \in 1 .. Many : group'[d] = "runs"
      /\ \A d \in 1 .. Many : running'[d] = running[d] \cup {new}
      /\ value' = "group"
  BY <1>1, StartKeepsThreads DEF ParInv
<1>3. /\ caller' \in {"free", "join", "enter", "body", "exit"} /\ then' \in {"free", "body"}
      /\ caller \in {"free", "body"}
      /\ sync' = sync /\ inside' = inside
      /\ entry' = entry \/ (entry # "interrupted" /\ entry' = "none")
      /\ sync => caller' \notin {"free", "body"}
      /\ caller' = "enter" => sync
      /\ caller' = "free" \/ (caller' = "join" /\ then' = "free") => caller = "free"
  BY DEF Together!CallP, Together!CallR, Together!Enter, Together!Exit, ParInv, ParType
<1>4. new.group = groups' /\ new.work = work
  OBVIOUS
<1> HIDE DEF new
<1>5. ParType'
  BY <1>2, <1>3 DEF ParInv, ParType
<1>6. Joined'
  BY <1>2, <1>3 DEF Joined
<1>7. EntryTells'
  BY <1>1, <1>2, <1>3, <1>4 DEF ParInv, EntryTells
<1>8. Leaving'
  <2> SUFFICES ASSUME entry' = "ok",
                      caller' \in {"free", "exit"} \/ (caller' = "join" /\ then' = "free"),
                      NEW e \in inside'
               PROVE  Left(e)'
    BY DEF Leaving
  <2>1. e \in inside /\ e \in 1 .. Many
    BY <1>3 DEF ParInv, ParType
  <2>2. CASE caller' = "exit"
    BY <1>1, <1>2, <1>4, <2>1, <2>2 DEF Left
  <2>3. CASE caller' # "exit"
    BY <1>2, <1>3, <2>1, <2>3 DEF Left, ParInv, Leaving
  <2> QED BY <2>2, <2>3
<1> QED BY <1>2, <1>5, <1>6, <1>7, <1>8 DEF ParInv

LEMMA JoinsKeep ==
  ParInv /\ (Together!PGet \/ Together!MapTooEarly \/ Together!JoinAll \/ Together!Interrupt
              \/ Together!Entered \/ Together!Exited) => ParInv'
<1> SUFFICES ASSUME ParInv,
                    Together!PGet \/ Together!MapTooEarly \/ Together!JoinAll \/ Together!Interrupt
                      \/ Together!Entered \/ Together!Exited
             PROVE  ParInv'
  OBVIOUS
<1> USE DEF Together!PGet, Together!MapTooEarly, Together!JoinAll, Together!Interrupt,
            Together!Entered, Together!Exited
<1>1. /\ group' = group /\ running' = running /\ inside' = inside /\ sync' = sync
      /\ groups' = groups
      /\ ahead' = ahead \/ ahead' = TRUE
      /\ then' \in {"free", "body"} /\ caller' \in {"free", "join", "body"}
      /\ entry' # "none" => sync
  BY DEF ParInv, ParType
<1>2. ParType'
  BY <1>1 DEF ParInv, ParType
<1>3. Threads'
  BY <1>1 DEF ParInv, Threads
<1>4. Joined'
  <2>1. CASE Together!Runs
    BY <1>1, <2>1 DEF ParInv, Joined
  <2>2. CASE ~Together!Runs
    BY <1>1, <2>2 DEF Joined, Together!Runs
  <2> QED BY <2>1, <2>2
<1>5. EntryTells'
  <2>1. CASE Together!Entered
    <3>1. \A d \in 1 .. Many : \A t \in running[d] : t.group # groups
      BY <2>1 DEF ParInv, Threads, Together!Runs, Together!Device
    <3>2. entry' # "interrupted" => entry # "interrupted"
      BY <2>1
    <3> QED BY <1>1, <3>1, <3>2 DEF ParInv, EntryTells
  <2>2. CASE ~Together!Entered
    <3>1. entry' # "interrupted" => entry' = entry /\ caller # "enter"
      BY <2>2 DEF ParInv, ParType
    <3> QED BY <1>1, <3>1 DEF ParInv, EntryTells
  <2> QED BY <2>1, <2>2
<1>6. Leaving'
  <2>1. entry' = "ok" /\ (caller' \in {"free", "exit"} \/ (caller' = "join" /\ then' = "free"))
          => entry = "ok" /\ (caller \in {"free", "exit"} \/ (caller = "join" /\ then = "free"))
    BY DEF ParInv, ParType
  <2> QED BY <1>1, <2>1 DEF ParInv, Leaving, Left
<1> QED BY <1>2, <1>3, <1>4, <1>5, <1>6 DEF ParInv

LEMMA ParStays == ParInv /\ [Next]_vars => ParInv'
<1> SUFFICES ASSUME ParInv, [Next]_vars PROVE ParInv'
  OBVIOUS
<1>1. CASE Together!ParNext
  BY <1>1, RunKeeps, CallsKeep, JoinsKeep DEF Together!ParNext, Together!Device
<1>2. CASE UNCHANGED many
  BY <1>2 DEF many, ParInv, ParType, Threads, Joined, EntryTells, Leaving, Left, Together!Runs
<1> QED BY <1>1, <1>2 DEF Next, vars

LEMMA ParHolds == ParInv => AllTogether
<1> SUFFICES ASSUME ParInv PROVE Together!BackMeansDone /\ Together!EveryContextIsLeft
  BY DEF AllTogether
<1>1. ~ahead /\ ~Together!Runs => ~Together!Busy
  BY DEF ParInv, Threads, Together!Runs, Together!Busy, Together!Device
<1>2. Together!BackMeansDone
  <2>1. ~ahead => \A d \in 1 .. Many : \A s, t \in running[d] : s = t
    BY DEF ParInv, Threads
  <2> QED BY <1>1, <2>1 DEF ParInv, Joined, Together!BackMeansDone, Together!Device
<1>3. Together!EveryContextIsLeft
  <2> SUFFICES ASSUME caller = "free", entry = "ok", NEW d \in inside
               PROVE  ahead /\ \E t \in running[d] : t.work = "exit"
    BY DEF Together!EveryContextIsLeft
  <2>1. Left(d)
    BY DEF ParInv, Leaving
  <2>2. d \in 1 .. Many /\ sync
    BY DEF ParInv, ParType
  <2>3. Together!Busy
    BY <2>1, <2>2 DEF Left, Together!Busy, Together!Device
  <2>4. ahead
    BY <1>1, <2>2, <2>3 DEF ParInv, Joined
  <2> QED BY <2>1, <2>4 DEF Left
<1> QED BY <1>2, <1>3

\* AllTogether for any number of devices and of calls on them: whatever a thread of an
\* earlier group still does when the caller went ahead or was interrupted, a call that is
\* back has ended on all, and a context that was entered is left or being left.
THEOREM AllAreBack == Spec => []AllTogether
<1>1. Init => ParInv
  BY ParStarts DEF Init
<1> QED BY <1>1, ParStays, ParHolds, PTL DEF Spec

-------------------------------------------------------------------------------
(* SharedPrefs: a Commit sticks                                                *)

InCommit == {"SecurityContext", "RemoveTwin", "KillAll"}

PrefsType == /\ prefApp = [on |-> prefApp.on, copy |-> prefApp.copy, old |-> prefApp.old]
             /\ DOMAIN xml \subseteq Key
             /\ ours \in {"no", "written", "undercut", "committed", "lost", "changed"}
             /\ ours # "no" => script = PrefsCalls
             /\ script = PrefsCalls /\ pc = "SetPrefValue" => arg.key \in Key

\* While Commit goes on, the file it wrote has the object's contents, unless the app
\* wrote it too; the other file has gone before the app is killed.
StillWritten == script = PrefsCalls /\ pc \in InCommit =>
                  /\ ours \in {"written", "undercut"}
                  /\ ours = "written" => prefFile = xml
OneFile      == script = PrefsCalls /\ pc = "KillAll" => ~twin
FileIsThere  == ours = "committed" => prefFile # Prefs!NoFile

PrefsInv == PrefsType /\ StillWritten /\ OneFile /\ FileIsThere /\ CommitSticks

LEMMA ContentsAreAFile == DOMAIN xml \subseteq Key => xml # Prefs!NoFile
<1>1. "no file" \notin Key
  BY ToolsAssumption
<1>2. DOMAIN Prefs!NoFile = {"no file"}
  BY DEF Prefs!NoFile
<1> QED BY <1>1, <1>2

LEMMA PrefsStarts == Init => PrefsInv
<1>1. Init => Prefs!PrefsInit /\ pc = "none"
  BY DEF Init, Settings!Init, Settings!CallInit
<1>2. Prefs!PrefsInit /\ pc = "none" => PrefsInv
  BY DEF Prefs!PrefsInit, Prefs!Empty, PrefsInv, PrefsType, StillWritten, OneFile, FileIsThere,
         InCommit, CommitSticks, Prefs!CommitSticks
<1> QED BY <1>1, <1>2

LEMMA EditsKeepPrefs ==
  PrefsInv /\ script = PrefsCalls
    /\ (Prefs!SetPrefValue \/ Prefs!Remove \/ Prefs!KeyError \/ Prefs!Clear) => PrefsInv'
<1> SUFFICES ASSUME PrefsInv, script = PrefsCalls,
                    Prefs!SetPrefValue \/ Prefs!Remove \/ Prefs!KeyError \/ Prefs!Clear
             PROVE  PrefsInv'
  OBVIOUS
<1>1. /\ pc' = "none" /\ script' = script
      /\ UNCHANGED <<saved, prefFile, twin, visible, prefApp, ours>>
  BY DEF Prefs!SetPrefValue, Prefs!Remove, Prefs!KeyError, Prefs!Clear, Prefs!Edited,
     Prefs!Return,
         Prefs!End, Prefs!prefsVars
<1>2. DOMAIN xml' \subseteq Key
  BY DEF Prefs!SetPrefValue, Prefs!Remove, Prefs!KeyError, Prefs!Clear, Prefs!Edited,
         Prefs!prefsVars, Prefs!With, Prefs!Without, Prefs!Empty, PrefsInv, PrefsType
<1> QED BY <1>1, <1>2 DEF PrefsInv, PrefsType, StillWritten, OneFile, FileIsThere, InCommit,
                         CommitSticks, Prefs!CommitSticks

LEMMA LoadKeepsPrefs ==
  PrefsInv /\ script = PrefsCalls
    /\ ((Prefs!PrefsArgs /\ UNCHANGED prefs) \/ Prefs!Load \/ Prefs!ReadFile) => PrefsInv'
<1> SUFFICES ASSUME PrefsInv, script = PrefsCalls,
                    (Prefs!PrefsArgs /\ UNCHANGED prefs) \/ Prefs!Load \/ Prefs!ReadFile
             PROVE  PrefsInv'
  OBVIOUS
<1>1. /\ pc' \notin InCommit /\ script' = script
      /\ UNCHANGED <<prefFile, twin, visible, prefApp, ours>>
  BY DEF Prefs!PrefsArgs, Prefs!Call, Prefs!Load, Prefs!ReadFile, Prefs!Goto, Prefs!GotoWith,
         Prefs!Return, Prefs!End, InCommit, prefs
<1>2. pc' = "SetPrefValue" => arg'.key \in Key
  BY DEF Prefs!PrefsArgs, Prefs!Call, Prefs!Load, Prefs!ReadFile, Prefs!Goto, Prefs!GotoWith,
         Prefs!Return, Prefs!End
<1>3. DOMAIN xml' \subseteq Key
  BY DEF Prefs!Load, Prefs!ReadFile, Prefs!object, Prefs!Prefs, Prefs!Empty, prefs, PrefsInv,
         PrefsType
<1>4. saved' = saved \/ saved' = prefFile \/ prefFile = Prefs!NoFile \/ ~visible
  BY DEF Prefs!Load, Prefs!ReadFile, Prefs!object, prefs
<1> QED BY <1>1, <1>2, <1>3, <1>4 DEF PrefsInv, PrefsType, StillWritten, OneFile, FileIsThere,
                         InCommit, CommitSticks, Prefs!CommitSticks

LEMMA CommitKeepsPrefs ==
  PrefsInv /\ script = PrefsCalls
    /\ (Prefs!Commit \/ Prefs!WriteFile \/ Prefs!SecurityContext \/ Prefs!RemoveTwin
         \/ Prefs!KillAll) => PrefsInv'
<1> SUFFICES ASSUME PrefsInv, script = PrefsCalls,
                    Prefs!Commit \/ Prefs!WriteFile \/ Prefs!SecurityContext \/ Prefs!RemoveTwin
                      \/ Prefs!KillAll
             PROVE  PrefsInv'
  OBVIOUS
<1> USE DEF Prefs!Goto, Prefs!GotoWith, Prefs!Return, Prefs!End
<1>1. /\ pc' \in {"none", "WriteFile"} \cup InCommit /\ script' = script
      /\ xml' = xml /\ visible' = visible
  BY DEF Prefs!Commit, Prefs!WriteFile, Prefs!SecurityContext, Prefs!RemoveTwin, Prefs!KillAll,
         Prefs!Host, Prefs!prefsVars, Prefs!object, InCommit
<1>2. xml # Prefs!NoFile
  BY ContentsAreAFile DEF PrefsInv, PrefsType
<1>3. CASE Prefs!WriteFile
  BY <1>1, <1>2, <1>3 DEF Prefs!WriteFile, Prefs!object, PrefsInv, PrefsType, StillWritten,
     OneFile,
       FileIsThere, InCommit, CommitSticks, Prefs!CommitSticks
<1>4. CASE Prefs!KillAll
  BY <1>1, <1>2, <1>4 DEF Prefs!KillAll, Prefs!Committed, PrefsInv, PrefsType, StillWritten,
     OneFile,
       FileIsThere, InCommit, CommitSticks, Prefs!CommitSticks
<1>5. CASE Prefs!Commit
  BY <1>1, <1>5 DEF Prefs!Commit, Prefs!prefsVars, PrefsInv, PrefsType, StillWritten, OneFile,
     FileIsThere, InCommit,
       CommitSticks, Prefs!CommitSticks
<1>6. CASE Prefs!SecurityContext
  BY <1>1, <1>6 DEF Prefs!SecurityContext, Prefs!Host, Prefs!prefsVars, PrefsInv, PrefsType,
     StillWritten, OneFile, FileIsThere, InCommit,
       CommitSticks, Prefs!CommitSticks
<1>7. CASE Prefs!RemoveTwin
  BY <1>1, <1>7 DEF Prefs!RemoveTwin, Prefs!object, PrefsInv, PrefsType, StillWritten, OneFile,
     FileIsThere, InCommit,
       CommitSticks, Prefs!CommitSticks
<1> QED BY <1>3, <1>4, <1>5, <1>6, <1>7

LEMMA AppKeepsPrefs ==
  PrefsInv /\ script = PrefsCalls /\ (Prefs!AppStart \/ Prefs!AppWrite) => PrefsInv'
<1> SUFFICES ASSUME PrefsInv, script = PrefsCalls, Prefs!AppStart \/ Prefs!AppWrite
             PROVE  PrefsInv'
  OBVIOUS
<1>1. UNCHANGED <<callVars, twin, visible, loaded, xml, changed, saved>>
  BY DEF Prefs!AppStart, Prefs!AppWrite, Prefs!callVars, Prefs!object, callVars
<1>2. CASE Prefs!AppStart
  BY <1>1, <1>2 DEF Prefs!AppStart, callVars, PrefsInv, PrefsType, StillWritten, OneFile,
                    FileIsThere, InCommit, CommitSticks, Prefs!CommitSticks
<1>3. CASE Prefs!AppWrite
  <2>1. ours' = Prefs!AfterWrite /\ prefApp' = [prefApp EXCEPT !.copy = prefFile']
    BY <1>3 DEF Prefs!AppWrite
  <2>2. /\ prefApp' = [on |-> prefApp'.on, copy |-> prefApp'.copy, old |-> prefApp'.old]
        /\ prefApp'.old = prefApp.old
    BY <2>1 DEF PrefsInv, PrefsType
  <2>3. ours' # "committed" /\ ours' # "written"
    BY <2>1 DEF Prefs!AfterWrite
  <2>4. /\ ours' \in {"no", "undercut", "changed"} \cup {"lost"}
        /\ ours' # "no" => ours # "no"
        /\ ours \in {"written", "undercut"} => ours' = "undercut"
        /\ ours' \in {"lost", "changed"} => ours \in {"committed", "lost", "changed"}
    BY <2>1 DEF Prefs!AfterWrite, PrefsInv, PrefsType
  <2> QED BY <1>1, <2>2, <2>3, <2>4 DEF callVars, PrefsInv, PrefsType, StillWritten, OneFile,
                    FileIsThere, InCommit, CommitSticks, Prefs!CommitSticks
<1> QED BY <1>2, <1>3

LEMMA PrefsStay == PrefsInv /\ [Next]_vars => PrefsInv'
<1> SUFFICES ASSUME PrefsInv, [Next]_vars PROVE PrefsInv'
  OBVIOUS
<1>1. CASE script = PrefsCalls /\ Prefs!PrefsNext
  BY <1>1, EditsKeepPrefs, LoadKeepsPrefs, CommitKeepsPrefs, AppKeepsPrefs
     DEF Prefs!PrefsNext, Prefs!prefsVars, prefs
<1>2. CASE Next /\ script # PrefsCalls /\ UNCHANGED prefs
  <2>1. script' # PrefsCalls /\ ours' = "no"
    BY <1>2, ScriptStays DEF prefs, PrefsInv, PrefsType
  <2> QED BY <1>2, <2>1 DEF prefs, PrefsInv, PrefsType, StillWritten, OneFile, FileIsThere,
                            CommitSticks, Prefs!CommitSticks
<1>3. CASE UNCHANGED vars
  BY <1>3 DEF vars, callVars, prefs, PrefsInv, PrefsType, StillWritten, OneFile, FileIsThere,
       CommitSticks, Prefs!CommitSticks
<1> QED BY <1>1, <1>2, <1>3, OwnSteps

\* CommitSticks for every device, app and preferences: whatever the app writes between
\* the write of a Commit and its KillAll, and it may write over the Commit, it is dead
\* with its old preferences when the call is back, and without such a write the file is
\* the object's (SharedPrefs.Commit, shared_prefs.py).
THEOREM CommitsStick == Spec => []CommitSticks
<1>1. PrefsInv => CommitSticks
  BY DEF PrefsInv
<1> QED BY <1>1, PrefsStarts, PrefsStay, PTL DEF Spec

-------------------------------------------------------------------------------
(* Fastboot: flashing                                                          *)

Part == {"bootloader", "boot", "userdata", "vendor"}

LEMMA WantedIsAList == Fast!Wanted \in Seq(Part)
<1>1. \A p \in Part : Fast!Asked(p) \in Seq(Part)
  BY DEF Fast!Asked
<1>2. /\ Fast!Partitions[1] \in Part /\ Fast!Partitions[2] \in Part
      /\ Fast!Partitions[3] \in Part /\ Fast!Partitions[4] \in Part
  BY DEF Fast!Partitions, Part
<1> HIDE DEF Part
<1>3. Fast!Asked(Fast!Partitions[1]) \o Fast!Asked(Fast!Partitions[2]) \in Seq(Part)
  BY <1>1, <1>2, ConcatProperties
<1>4. Fast!Asked(Fast!Partitions[1]) \o Fast!Asked(Fast!Partitions[2])
        \o Fast!Asked(Fast!Partitions[3]) \in Seq(Part)
  BY <1>1, <1>2, <1>3, ConcatProperties
<1> QED BY <1>1, <1>2, <1>4, ConcatProperties DEF Fast!Wanted

LEMMA NextOfAll ==
  ASSUME NEW S, NEW s \in Seq(S), NEW t \in Seq(S), t # <<>>
  PROVE  /\ Append(s, Head(t)) \in Seq(S) /\ Tail(t) \in Seq(S)
         /\ Append(s, Head(t)) \o Tail(t) = s \o t
<1>1. Head(t) \in S /\ Tail(t) \in Seq(S) /\ Append(s, Head(t)) \in Seq(S)
  BY HeadTailProperties
<1>2. Append(s, Head(t)) = s \o <<Head(t)>>
  BY <1>1, AppendIsConcat
<1>3. t = <<Head(t)>> \o Tail(t)
  BY <1>1, SubSeqRecursiveFirst, SubSeqFull, TailIsSubSeq
<1>4. <<Head(t)>> \in Seq(S)
  BY <1>1
<1>5. (s \o <<Head(t)>>) \o Tail(t) = s \o (<<Head(t)>> \o Tail(t))
  BY <1>1, <1>4, ConcatAssociative
<1> QED BY <1>1, <1>2, <1>3, <1>5

\* The first elements of t are those of s.
Begins(s, t) == Len(s) <= Len(t) /\ s = SubSeq(t, 1, Len(s))

LEMMA FirstPart ==
  ASSUME NEW S, NEW s \in Seq(S), NEW t \in Seq(S)
  PROVE  Begins(s, s \o t)
<1>1. s \o t \in Seq(S) /\ Len(s) \in Nat /\ Len(t) \in Nat /\ Len(s \o t) = Len(s) + Len(t)
  BY ConcatProperties, LenProperties
<1>2. SubSeq(s \o t, 1, Len(s)) = SubSeq(s, 1, Len(s))
  <2>1. CASE Len(s) = 0
    BY <2>1, SubSeqEmpty
  <2>2. CASE Len(s) # 0
    BY <1>1, <2>2, SubSeqOfConcat1
  <2> QED BY <2>1, <2>2
<1>3. SubSeq(s, 1, Len(s)) = s
  BY SubSeqFull
<1> QED BY <1>1, <1>2, <1>3 DEF Begins

Entering == {"EnableRoot", "ToBootloader", "WaitForFastbootMode", "ChargeOff", "Verify"}
Flashing == {"Flash", "RebootBootloader", "WaitAgain"}
WayOut == {"ChargeOn", "Reboot", "WaitUntilFullyBooted"}

FlashType ==
  /\ pc \in {"none", "FlashDevice"} \cup Entering \cup Flashing \cup WayOut
  /\ op = IF pc = "none" THEN "none" ELSE "FlashDevice"
  /\ pc \notin {"none", "FlashDevice"} =>
       loc = [again |-> loc.again, raised |-> loc.raised, todo |-> loc.todo] /\ loc.todo \in Seq(Part)
  /\ flashed \in Seq(Part)

\* With a blacklist nothing is begun; before Verify nothing is flashed; and from then
\* on what was flashed and what is left to do are what was asked for.
NotBegun     == listed => /\ pc \in {"none", "FlashDevice"} /\ flashed = <<>>
                          /\ charge /\ mode = "up"
NotYet       == pc \in Entering => flashed = <<>> /\ ~loc.raised
PartsToGo    == pc \in Flashing => /\ Fast!VerifyBoard /\ Fast!ImagesThere /\ ~listed
                                   /\ ~loc.raised /\ flashed \o loc.todo = Fast!Wanted
AllFlashed   == pc \in WayOut /\ ~loc.raised => flashed = Fast!Wanted
ChargesAgain == pc \in {"Reboot", "WaitUntilFullyBooted"} => charge

FlashInv == /\ FlashType /\ NotBegun /\ NotYet /\ PartsToGo /\ AllFlashed /\ ChargesAgain
            /\ Fast!LeavesBootloader /\ Fast!FlashesVerified

LEMMA FlashStarts == Init /\ script = FastCalls => FlashInv
<1> SUFFICES ASSUME Init PROVE FlashInv
  OBVIOUS
<1>1. /\ mode = "up" /\ charge = TRUE /\ flashed = <<>> /\ op = "none" /\ pc = "none"
      /\ last = [op |-> "none", how |-> "ok"]
  BY DEF Init, Settings!Init, Settings!CallInit, Fast!FastInit
<1> QED BY <1>1 DEF FlashInv, FlashType, NotBegun, NotYet, PartsToGo, AllFlashed, ChargesAgain,
      Fast!LeavesBootloader, Fast!FlashesVerified, Entering, Flashing, WayOut

LEMMA SameBuild ==
  UNCHANGED <<images, info, zip, listed, wiped>> =>
    /\ Fast!Wanted' = Fast!Wanted /\ (Fast!VerifyBoard' <=> Fast!VerifyBoard)
    /\ (Fast!ImagesThere' <=> Fast!ImagesThere)
<1>1. ASSUME UNCHANGED <<images, wiped>>
      PROVE  Fast!Wanted' = Fast!Wanted
  BY <1>1 DEF Fast!Wanted, Fast!Asked
<1> QED BY <1>1 DEF Fast!VerifyBoard, Fast!ImagesThere

LEMMA CallKeepsFlash ==
  FlashInv /\ script = FastCalls
    /\ (\/ \E w \in BOOLEAN : Fast!Call("FlashDevice", [wipe |-> w]) /\ UNCHANGED Fast!fastVars
        \/ Fast!Call("UnlockBootloader", <<>>) /\ UNCHANGED Fast!fastVars) => FlashInv'
<1> SUFFICES ASSUME FlashInv, script = FastCalls,
                    \/ \E w \in BOOLEAN : Fast!Call("FlashDevice", [wipe |-> w]) /\ UNCHANGED Fast!fastVars
                    \/ Fast!Call("UnlockBootloader", <<>>) /\ UNCHANGED Fast!fastVars
             PROVE  FlashInv'
  OBVIOUS
<1>1. /\ UNCHANGED <<mode, charge, images, info, zip, listed, flashed, wiped, slipped>>
      /\ pc' = "FlashDevice" /\ op' = "FlashDevice"
  BY DEF Fast!Call, FastCalls, Fast!fastVars, Fast!flashVars
<1> QED BY <1>1, SameBuild DEF FlashInv, FlashType, NotBegun, NotYet, PartsToGo, AllFlashed,
   ChargesAgain,
      Fast!LeavesBootloader, Fast!FlashesVerified, Entering, Flashing, WayOut, Fast!Idle

LEMMA BeginKeepsFlash == FlashInv /\ Fast!FlashDevice => FlashInv'
<1> SUFFICES ASSUME FlashInv, Fast!FlashDevice PROVE FlashInv'
  OBVIOUS
<1>1. /\ pc = "FlashDevice" /\ op = "FlashDevice" /\ flashed' = <<>>
      /\ UNCHANGED <<mode, charge, images, info, zip, listed>>
  BY DEF Fast!FlashDevice, Fast!At, Fast!build, FlashInv, FlashType
<1>2. CASE listed
  BY <1>1, <1>2 DEF Fast!FlashDevice, Fast!End, FlashInv, FlashType, NotBegun, NotYet,
     PartsToGo,
       AllFlashed, ChargesAgain, Fast!LeavesBootloader, Fast!FlashesVerified, Fast!Failed,
       Entering, Flashing, WayOut
<1>3. CASE ~listed
  <2>1. pc' = "EnableRoot" /\ op' = op /\ loc' = [again |-> 0, raised |-> FALSE, todo |-> <<>>]
    BY <1>3 DEF Fast!FlashDevice, Fast!GotoWith
  <2> QED BY <1>1, <1>3, <2>1 DEF FlashInv, FlashType, NotBegun, NotYet, PartsToGo,
       AllFlashed, ChargesAgain, Fast!LeavesBootloader, Fast!FlashesVerified, Fast!Idle,
       Entering, Flashing, WayOut
<1> QED BY <1>2, <1>3

\* Into the bootloader and to Verify: a step on, once more, or out of the call.
LEMMA EnteringKeepsFlash ==
  FlashInv /\ (Fast!EnableRoot \/ Fast!ToBootloader \/ Fast!WaitForFastbootMode \/ Fast!ChargeOff)
    => FlashInv'
<1> SUFFICES ASSUME FlashInv,
                    Fast!EnableRoot \/ Fast!ToBootloader \/ Fast!WaitForFastbootMode \/ Fast!ChargeOff
             PROVE  FlashInv'
  OBVIOUS
<1>1. /\ pc \in Entering
      /\ UNCHANGED <<images, info, zip, listed, flashed, wiped>>
  BY DEF Fast!EnableRoot, Fast!ToBootloader, Fast!WaitForFastbootMode, Fast!ChargeOff, Fast!At,
         Fast!build, Entering
<1>2. /\ op = "FlashDevice" /\ flashed = <<>> /\ ~loc.raised /\ ~listed
      /\ loc = [again |-> loc.again, raised |-> loc.raised, todo |-> loc.todo]
      /\ loc.todo \in Seq(Part)
  BY <1>1 DEF FlashInv, FlashType, NotYet, NotBegun, Entering
<1>3. \/ /\ pc' \in Entering /\ op' = op
         /\ \/ loc' = loc
            \/ \E n : loc' = [loc EXCEPT !.again = n]
      \/ Fast!End("raised") /\ slipped' = TRUE
  BY DEF Fast!EnableRoot, Fast!ToBootloader, Fast!WaitForFastbootMode, Fast!ChargeOff, Fast!To,
         Fast!Again, Fast!GotoWith, Entering
<1>4. CASE Fast!End("raised") /\ slipped' = TRUE
  BY <1>1, <1>2, <1>4 DEF Fast!End, FlashInv, FlashType, NotBegun, NotYet, PartsToGo,
     AllFlashed,
       ChargesAgain, Fast!LeavesBootloader, Fast!FlashesVerified, Fast!Failed, Entering,
       Flashing, WayOut
<1>5. CASE /\ pc' \in Entering /\ op' = op
           /\ \/ loc' = loc
              \/ \E n : loc' = [loc EXCEPT !.again = n]
  <2>1. loc' = [again |-> loc'.again, raised |-> loc.raised, todo |-> loc.todo]
    BY <1>2, <1>5
  <2> QED BY <1>1, <1>2, <1>5, <2>1 DEF FlashInv, FlashType, NotBegun, NotYet, PartsToGo,
     AllFlashed,
       ChargesAgain, Fast!LeavesBootloader, Fast!FlashesVerified, Fast!Idle, Entering,
       Flashing, WayOut
<1> QED BY <1>3, <1>4, <1>5

LEMMA VerifyKeepsFlash == FlashInv /\ Fast!Verify => FlashInv'
<1> SUFFICES ASSUME FlashInv, Fast!Verify PROVE FlashInv'
  OBVIOUS
<1>1. /\ pc = "Verify" /\ op = "FlashDevice" /\ flashed = <<>> /\ ~loc.raised /\ ~listed
      /\ loc = [again |-> loc.again, raised |-> loc.raised, todo |-> loc.todo]
      /\ loc.todo \in Seq(Part)
      /\ UNCHANGED <<mode, charge, images, info, zip, listed, flashed, wiped, slipped>>
  BY DEF Fast!Verify, Fast!At, Fast!flashVars, FlashInv, FlashType, NotYet, NotBegun, Entering
<1>2. CASE Fast!VerifyBoard /\ Fast!ImagesThere
  <2>1. /\ pc' = "Flash" /\ op' = op
        /\ loc' = [again |-> loc.again, raised |-> loc.raised, todo |-> Fast!Wanted]
    BY <1>1, <1>2 DEF Fast!Verify, Fast!GotoWith
  <2>2. <<>> \o Fast!Wanted = Fast!Wanted
    BY WantedIsAList, ConcatEmptySeq
  <2> QED BY <1>1, <1>2, <2>1, <2>2, SameBuild, WantedIsAList DEF FlashInv, FlashType, NotBegun,
       NotYet, PartsToGo, AllFlashed, ChargesAgain, Fast!LeavesBootloader, Fast!FlashesVerified,
       Fast!Idle, Entering, Flashing, WayOut
<1>3. CASE ~(Fast!VerifyBoard /\ Fast!ImagesThere)
  <2>1. /\ pc' = "ChargeOn" /\ op' = op
        /\ loc' = [again |-> 0, raised |-> TRUE, todo |-> loc.todo]
    BY <1>1, <1>3 DEF Fast!Verify, Fast!Unwind, Fast!GotoWith
  <2> QED BY <1>1, <2>1 DEF FlashInv, FlashType, NotBegun,
       NotYet, PartsToGo, AllFlashed, ChargesAgain, Fast!LeavesBootloader, Fast!FlashesVerified,
       Fast!Idle, Entering, Flashing, WayOut
<1> QED BY <1>2, <1>3

LEMMA FlashKeepsFlash == FlashInv /\ Fast!Flash => FlashInv'
<1> SUFFICES ASSUME FlashInv, Fast!Flash PROVE FlashInv'
  OBVIOUS
<1>1. /\ pc = "Flash" /\ op = "FlashDevice" /\ ~loc.raised /\ ~listed
      /\ Fast!VerifyBoard /\ Fast!ImagesThere /\ flashed \o loc.todo = Fast!Wanted
      /\ loc = [again |-> loc.again, raised |-> loc.raised, todo |-> loc.todo]
      /\ loc.todo \in Seq(Part) /\ flashed \in Seq(Part)
      /\ UNCHANGED <<mode, charge, images, info, zip, listed, wiped, slipped>>
  BY DEF Fast!Flash, Fast!At, Fast!build, FlashInv, FlashType, PartsToGo, NotBegun, Flashing
<1>2. /\ Fast!Wanted' = Fast!Wanted /\ Fast!VerifyBoard' /\ Fast!ImagesThere' /\ ~listed'
  BY <1>1, SameBuild
<1>3. Begins(flashed, Fast!Wanted)
  BY <1>1, FirstPart
<1>4. loc.todo # <<>> =>
        /\ Append(flashed, Head(loc.todo)) \in Seq(Part) /\ Tail(loc.todo) \in Seq(Part)
        /\ Append(flashed, Head(loc.todo)) \o Tail(loc.todo) = Fast!Wanted
        /\ Begins(Append(flashed, Head(loc.todo)), Fast!Wanted)
  <2> SUFFICES ASSUME loc.todo # <<>>
               PROVE  /\ Append(flashed, Head(loc.todo)) \in Seq(Part) /\ Tail(loc.todo) \in Seq(Part)
                      /\ Append(flashed, Head(loc.todo)) \o Tail(loc.todo) = Fast!Wanted
                      /\ Begins(Append(flashed, Head(loc.todo)), Fast!Wanted)
    OBVIOUS
  <2>1. /\ Append(flashed, Head(loc.todo)) \in Seq(Part) /\ Tail(loc.todo) \in Seq(Part)
        /\ Append(flashed, Head(loc.todo)) \o Tail(loc.todo) = Fast!Wanted
    BY <1>1, NextOfAll
  <2>2. Begins(Append(flashed, Head(loc.todo)), Append(flashed, Head(loc.todo)) \o Tail(loc.todo))
    BY <2>1, FirstPart
  <2> QED BY <2>1, <2>2
<1>5. CASE loc.todo = <<>> /\ Fast!To("ChargeOn") /\ flashed' = flashed
  <2>1. flashed = Fast!Wanted
    BY <1>1, <1>5, ConcatEmptySeq
  <2>2. pc' = "ChargeOn" /\ op' = op /\ loc' = [again |-> 0, raised |-> loc.raised, todo |-> loc.todo]
    BY <1>1, <1>5 DEF Fast!To, Fast!GotoWith
  <2> QED BY <1>1, <1>2, <1>3, <1>5, <2>1, <2>2 DEF FlashInv, FlashType, NotBegun, NotYet,
     PartsToGo,
       AllFlashed, ChargesAgain, Fast!LeavesBootloader, Fast!FlashesVerified, Begins, Fast!Idle,
       Entering,
       Flashing, WayOut
<1>6. CASE /\ loc.todo # <<>> /\ flashed' = Append(flashed, Head(loc.todo))
           /\ Fast!GotoWith(IF Head(loc.todo) \in Fast!Restart THEN "RebootBootloader" ELSE "Flash",
                    [loc EXCEPT !.todo = Tail(@), !.again = 0])
  <2>2. pc' \in {"RebootBootloader", "Flash"} /\ op' = op
        /\ loc' = [again |-> 0, raised |-> loc.raised, todo |-> Tail(loc.todo)]
    BY <1>1, <1>6 DEF Fast!GotoWith
  <2> QED BY <1>1, <1>2, <1>4, <1>6, <2>2 DEF FlashInv, FlashType, NotBegun, NotYet, PartsToGo,
       AllFlashed, ChargesAgain, Fast!LeavesBootloader, Fast!FlashesVerified, Begins, Fast!Idle,
       Entering,
       Flashing, WayOut
<1>7. CASE /\ loc.todo # <<>> /\ Fast!Unwind
           /\ flashed' \in {flashed, Append(flashed, Head(loc.todo))}
  <2>1. pc' = "ChargeOn" /\ op' = op /\ loc' = [again |-> 0, raised |-> TRUE, todo |-> loc.todo]
    BY <1>1, <1>7 DEF Fast!Unwind, Fast!GotoWith
  <2> QED BY <1>1, <1>2, <1>3, <1>4, <1>7, <2>1 DEF FlashInv, FlashType, NotBegun, NotYet,
     PartsToGo,
       AllFlashed, ChargesAgain, Fast!LeavesBootloader, Fast!FlashesVerified, Begins, Fast!Idle,
       Entering,
       Flashing, WayOut
<1> QED BY <1>5, <1>6, <1>7 DEF Fast!Flash

LEMMA RestartKeepsFlash == FlashInv /\ (Fast!RebootBootloader \/ Fast!WaitAgain) => FlashInv'
<1> SUFFICES ASSUME FlashInv, Fast!RebootBootloader \/ Fast!WaitAgain PROVE FlashInv'
  OBVIOUS
<1>1. /\ pc \in Flashing /\ UNCHANGED <<charge, images, info, zip, listed, flashed, wiped, slipped>>
  BY DEF Fast!RebootBootloader, Fast!WaitAgain, Fast!At, Fast!build, Fast!flashVars, Flashing
<1>2. /\ op = "FlashDevice" /\ ~loc.raised /\ ~listed
      /\ loc = [again |-> loc.again, raised |-> loc.raised, todo |-> loc.todo]
      /\ loc.todo \in Seq(Part)
  BY <1>1 DEF FlashInv, FlashType, PartsToGo, NotBegun, Flashing
<1>3. /\ op' = op
      /\ \/ pc' \in Flashing /\ (loc' = loc \/ \E n : loc' = [loc EXCEPT !.again = n])
         \/ pc' = "ChargeOn" /\ loc' = [loc EXCEPT !.raised = TRUE, !.again = 0]
  BY DEF Fast!RebootBootloader, Fast!WaitAgain, Fast!OrUnwind, Fast!Unwind, Fast!To,
     Fast!GotoWith,
         Flashing
<1>4. /\ loc' = [again |-> loc'.again, raised |-> loc'.raised, todo |-> loc.todo]
      /\ pc' \in Flashing => loc'.raised = loc.raised
      /\ pc' \notin Flashing => pc' = "ChargeOn" /\ loc'.raised = TRUE
  BY <1>2, <1>3 DEF Flashing
<1> QED BY <1>1, <1>2, <1>3, <1>4, SameBuild DEF FlashInv, FlashType, NotBegun, NotYet,
   PartsToGo,
       AllFlashed, ChargesAgain, Fast!LeavesBootloader, Fast!FlashesVerified, Fast!Idle,
       Entering,
       Flashing, WayOut

LEMMA LeavingKeepsFlash ==
  FlashInv /\ (Fast!ChargeOn \/ Fast!Reboot \/ Fast!WaitUntilFullyBooted) => FlashInv'
<1> SUFFICES ASSUME FlashInv, Fast!ChargeOn \/ Fast!Reboot \/ Fast!WaitUntilFullyBooted
             PROVE  FlashInv'
  OBVIOUS
<1>1. /\ pc \in WayOut /\ UNCHANGED <<images, info, zip, listed, flashed, wiped>>
  BY DEF Fast!ChargeOn, Fast!Reboot, Fast!WaitUntilFullyBooted, Fast!At, Fast!build, WayOut
<1>2. /\ op = "FlashDevice" /\ ~listed
      /\ loc = [again |-> loc.again, raised |-> loc.raised, todo |-> loc.todo]
      /\ loc.todo \in Seq(Part)
  BY <1>1 DEF FlashInv, FlashType, NotBegun, WayOut
<1>3. \/ /\ pc' \in {"Reboot", "WaitUntilFullyBooted"} /\ op' = op /\ charge'
         /\ loc' = loc \/ \E n : loc' = [loc EXCEPT !.again = n]
      \/ Fast!End("raised") /\ slipped' = TRUE
      \/ Fast!Leave /\ charge' /\ mode' \in {"booting", "up"}
  BY DEF Fast!ChargeOn, Fast!Reboot, Fast!WaitUntilFullyBooted, Fast!Again, Fast!To,
     Fast!GotoWith,
         Fast!At, FlashInv, ChargesAgain
<1>4. CASE /\ pc' \in {"Reboot", "WaitUntilFullyBooted"} /\ op' = op /\ charge'
           /\ loc' = loc \/ \E n : loc' = [loc EXCEPT !.again = n]
  <2>1. loc' = [again |-> loc'.again, raised |-> loc.raised, todo |-> loc.todo]
    BY <1>2, <1>4
  <2> QED BY <1>1, <1>2, <1>4, <2>1, SameBuild DEF FlashInv, FlashType, NotBegun, NotYet,
     PartsToGo,
       AllFlashed, ChargesAgain, Fast!LeavesBootloader, Fast!FlashesVerified, Fast!Idle,
       Entering,
       Flashing, WayOut
<1>5. CASE Fast!End("raised") /\ slipped' = TRUE
  BY <1>1, <1>2, <1>5, SameBuild DEF Fast!End, FlashInv, FlashType, NotBegun, NotYet,
     PartsToGo, AllFlashed,
       ChargesAgain, Fast!LeavesBootloader, Fast!FlashesVerified, Fast!Failed, Entering,
       Flashing, WayOut
<1>6. CASE Fast!Leave /\ charge' /\ mode' \in {"booting", "up"}
  BY <1>1, <1>2, <1>6, SameBuild DEF Fast!Leave, Fast!End, FlashInv, FlashType, NotBegun,
     NotYet, PartsToGo,
       AllFlashed, ChargesAgain, Fast!LeavesBootloader, Fast!FlashesVerified, Fast!Failed,
       Entering,
       Flashing, WayOut
<1> QED BY <1>3, <1>4, <1>5, <1>6

LEMMA ArrivingKeepsFlash == FlashInv /\ Fast!Arrives => FlashInv'
<1> SUFFICES ASSUME FlashInv, Fast!Arrives PROVE FlashInv'
  OBVIOUS
<1>1. /\ UNCHANGED <<pc, op, loc, last, charge, images, info, zip, listed, flashed, wiped, slipped>>
      /\ \/ mode = "entering" /\ mode' = "bootloader"
         \/ mode = "booting" /\ mode' = "up"
  BY DEF Fast!Arrives, Fast!callVars, Fast!build
<1> QED BY <1>1, SameBuild DEF FlashInv, FlashType, NotBegun, NotYet, PartsToGo, AllFlashed,
      ChargesAgain, Fast!LeavesBootloader, Fast!FlashesVerified, Fast!Idle, Fast!Failed

LEMMA FlashStays == FlashInv /\ script = FastCalls /\ Fast!FastNext => FlashInv'
<1> SUFFICES ASSUME FlashInv, script = FastCalls, Fast!FastNext PROVE FlashInv'
  OBVIOUS
<1>1. ASSUME Fast!UnlockStep PROVE FlashInv'
  <2>1. ~(Fast!RebootInto \/ Fast!Devices \/ Fast!PollOld \/ Fast!PollNew)
    BY DEF Fast!RebootInto, Fast!Devices, Fast!PollOld, Fast!PollNew, Fast!At, FlashInv,
       FlashType,
           Entering, Flashing, WayOut
  <2>2. UNCHANGED <<pc, op, loc, last, charge, mode, images, info, zip, listed, flashed, wiped, slipped>>
    BY <1>1, <2>1 DEF Fast!UnlockStep, Fast!Confirm, Fast!callVars, Fast!flashVars
  <2> QED BY <2>2, SameBuild DEF FlashInv, FlashType, NotBegun, NotYet, PartsToGo, AllFlashed,
      ChargesAgain, Fast!LeavesBootloader, Fast!FlashesVerified, Fast!Idle, Fast!Failed
<1> QED BY <1>1, CallKeepsFlash, BeginKeepsFlash, EnteringKeepsFlash, VerifyKeepsFlash,
   FlashKeepsFlash,
           RestartKeepsFlash, LeavingKeepsFlash, ArrivingKeepsFlash DEF Fast!FastNext,
           Fast!FlashNext

-------------------------------------------------------------------------------
(* Fastboot: unlocking                                                         *)

UnlockType ==
  /\ pc \in {"none", "UnlockBootloader", "Devices", "PollOld", "PollNew"}
  /\ op = IF pc = "none" THEN "none" ELSE "UnlockBootloader"
  /\ knows \subseteq {"oem unlock", "flashing unlock"}
  /\ lock \in {"locked", "unlocked", "oem"}

\* A command asks only while its answer counts, and the device stays where it asks.
AskingLocked == prompts # {} => lock = "locked" /\ mode = "bootloader"
Prompted     == pc \in {"PollOld", "PollNew"} => /\ prompts = IF lock = "locked" THEN knows ELSE {}
                                                 /\ pc = "PollNew" => "oem unlock" \notin knows
NothingTold  == pc \in {"Devices", "PollOld", "PollNew"} => reported = "nothing"

UnlockInv == UnlockType /\ AskingLocked /\ Prompted /\ NothingTold /\ Fast!UnlockIsTold

LEMMA UnlockStarts == Init => UnlockInv
<1> SUFFICES ASSUME Init PROVE UnlockInv
  OBVIOUS
<1>1. /\ op = "none" /\ pc = "none" /\ last = [op |-> "none", how |-> "ok"]
      /\ prompts = {} /\ knows \subseteq {"oem unlock", "flashing unlock"}
      /\ lock \in {"locked", "unlocked", "oem"}
  BY DEF Init, Settings!Init, Settings!CallInit, Fast!FastInit
<1> QED BY <1>1 DEF UnlockInv, UnlockType, AskingLocked, Prompted, NothingTold,
   Fast!UnlockIsTold

LEMMA BeginKeepsUnlock ==
  UnlockInv /\ (\/ Fast!Call("UnlockBootloader", <<>>) /\ UNCHANGED Fast!fastVars
                \/ Fast!RebootInto) => UnlockInv'
<1> SUFFICES ASSUME UnlockInv, \/ Fast!Call("UnlockBootloader", <<>>) /\ UNCHANGED Fast!fastVars
                               \/ Fast!RebootInto
             PROVE  UnlockInv'
  OBVIOUS
<1>1. /\ pc' \in {"UnlockBootloader", "Devices"} /\ op' = "UnlockBootloader"
      /\ UNCHANGED <<knows, lock, prompts>>
      /\ mode = "bootloader" => mode' = "bootloader"
      /\ pc' = "Devices" => reported' = "nothing"
  BY DEF Fast!Call, Fast!fastVars, Fast!flashVars, Fast!unlockVars, Fast!RebootInto, Fast!At,
         Fast!Goto, Fast!GotoWith, Fast!KeepUnlock, UnlockInv, UnlockType
<1> QED BY <1>1 DEF UnlockInv, UnlockType, AskingLocked, Prompted, NothingTold,
   Fast!UnlockIsTold,
                   Fast!Idle

LEMMA DevicesKeepsUnlock == UnlockInv /\ Fast!Devices => UnlockInv'
<1> SUFFICES ASSUME UnlockInv, Fast!Devices PROVE UnlockInv'
  OBVIOUS
<1>1. /\ pc = "Devices" /\ op = "UnlockBootloader" /\ reported = "nothing"
      /\ UNCHANGED <<mode, reported, knows, lock>>
  BY DEF Fast!Devices, Fast!At, Fast!KeepUnlock, UnlockInv, UnlockType, NothingTold
<1>2. CASE mode = "bootloader"
  BY <1>1, <1>2 DEF Fast!Devices, Fast!Goto, Fast!GotoWith, UnlockInv, UnlockType, AskingLocked,
       Prompted, NothingTold, Fast!UnlockIsTold, Fast!Idle
<1>3. CASE mode # "bootloader"
  <2>1. prompts = {} /\ prompts' = {} /\ Fast!End("ok")
    BY <1>1, <1>3 DEF Fast!Devices, UnlockInv, AskingLocked
  <2>2. pc' = "none" /\ op' = "none" /\ last' = [op |-> op, how |-> "ok"]
    BY <2>1 DEF Fast!End
  <2> QED BY <1>1, <2>1, <2>2 DEF UnlockInv, UnlockType, AskingLocked, Prompted, NothingTold,
            Fast!UnlockIsTold, Fast!Failed
<1> QED BY <1>2, <1>3

LEMMA PollKeepsUnlock == UnlockInv /\ (Fast!PollOld \/ Fast!PollNew) => UnlockInv'
<1> SUFFICES ASSUME UnlockInv, Fast!PollOld \/ Fast!PollNew PROVE UnlockInv'
  OBVIOUS
<1>1. /\ pc \in {"PollOld", "PollNew"} /\ op = "UnlockBootloader" /\ reported = "nothing"
      /\ prompts = IF lock = "locked" THEN knows ELSE {}
      /\ UNCHANGED <<mode, prompts, knows, lock>>
  BY DEF Fast!PollOld, Fast!PollNew, Fast!Poll, Fast!At, Fast!KeepUnlock, UnlockInv, UnlockType,
         Prompted, NothingTold
<1>2. \/ /\ pc = "PollOld" /\ pc' = "PollNew" /\ op' = op /\ reported' = "nothing"
         /\ "oem unlock" \notin knows
      \/ /\ pc' = "none" /\ op' = "none" /\ last'.how = "ok"
         /\ \/ reported' = "waiting" /\ prompts # {}
            \/ reported' = "already" /\ lock = "unlocked"
            \/ reported' = "nothing" /\ pc = "PollNew" /\ "flashing unlock" \notin knows
      \/ /\ pc' = "none" /\ op' = "none" /\ last'.how = "raised"
         /\ reported' = "not allowed" /\ lock # "unlocked"
         /\ \E c : c \notin prompts /\ c \in knows
  <2>1. Fast!End("ok") => pc' = "none" /\ op' = "none" /\ last'.how = "ok"
    BY DEF Fast!End
  <2>2. Fast!End("raised") => pc' = "none" /\ op' = "none" /\ last'.how = "raised"
    BY DEF Fast!End
  <2>3. Fast!Goto("PollNew") => pc' = "PollNew" /\ op' = op
    BY DEF Fast!Goto, Fast!GotoWith
  <2>4. CASE Fast!PollOld
    BY <1>1, <2>1, <2>2, <2>3, <2>4 DEF Fast!PollOld, Fast!Poll, Fast!At
  <2>5. CASE Fast!PollNew
    BY <1>1, <2>1, <2>2, <2>3, <2>5 DEF Fast!PollNew, Fast!Poll, Fast!At
  <2> QED BY <2>4, <2>5
<1>3. pc = "PollNew" => "oem unlock" \notin knows
  BY DEF UnlockInv, Prompted
<1>4. UnlockType' /\ AskingLocked' /\ Prompted' /\ NothingTold'
  BY <1>1, <1>2 DEF UnlockInv, UnlockType, AskingLocked, Prompted, NothingTold
<1>5. Fast!UnlockIsTold'
  <2>1. CASE op' # "none"
    BY <2>1 DEF Fast!UnlockIsTold, Fast!Idle
  <2>2. CASE reported' = "waiting" /\ prompts # {}
    BY <1>1, <2>2 DEF Fast!UnlockIsTold
  <2>3. CASE reported' = "already" /\ lock = "unlocked"
    BY <1>1, <2>3 DEF Fast!UnlockIsTold
  <2>4. CASE reported' = "nothing" /\ last'.how = "ok" /\ pc = "PollNew" /\ "flashing unlock" \notin knows
    <3>1. knows = {}
      BY <1>3, <2>4 DEF UnlockInv, UnlockType
    <3>2. prompts' = {}
      BY <1>1, <3>1
    <3> QED BY <2>4, <3>2 DEF Fast!UnlockIsTold, Fast!Failed
  <2>5. CASE reported' = "not allowed" /\ last'.how = "raised" /\ lock # "unlocked"
             /\ \E c : c \notin prompts /\ c \in knows
    <3>1. lock' = "oem"
      BY <1>1, <2>5 DEF UnlockInv, UnlockType
    <3> QED BY <2>5, <3>1 DEF Fast!UnlockIsTold, Fast!Failed
  <2> QED BY <1>1, <1>2, <2>1, <2>2, <2>3, <2>4, <2>5
<1> QED BY <1>4, <1>5 DEF UnlockInv

LEMMA WorldKeepsUnlock == UnlockInv /\ (Fast!Confirm \/ (Fast!Arrives /\ UNCHANGED Fast!unlockVars)) => UnlockInv'
<1> SUFFICES ASSUME UnlockInv, Fast!Confirm \/ (Fast!Arrives /\ UNCHANGED Fast!unlockVars)
             PROVE  UnlockInv'
  OBVIOUS
<1>1. CASE Fast!Confirm
  <2>1. /\ prompts # {} /\ prompts' = {} /\ lock = "locked" /\ lock' = "unlocked" /\ op = "none"
        /\ UNCHANGED <<pc, op, last, mode, knows, reported>>
    BY <1>1 DEF Fast!Confirm, Fast!Idle, Fast!callVars, Fast!flashVars, UnlockInv, AskingLocked
  <2> QED BY <2>1 DEF UnlockInv, UnlockType, AskingLocked, Prompted, NothingTold,
     Fast!UnlockIsTold,
             Fast!Idle, Fast!Failed
<1>2. CASE Fast!Arrives /\ UNCHANGED Fast!unlockVars
  <2>1. /\ UNCHANGED <<pc, op, last, knows, lock, prompts, reported>>
        /\ mode # "bootloader"
    BY <1>2 DEF Fast!Arrives, Fast!callVars, Fast!unlockVars
  <2> QED BY <2>1 DEF UnlockInv, UnlockType, AskingLocked, Prompted, NothingTold,
     Fast!UnlockIsTold,
             Fast!Idle, Fast!Failed
<1> QED BY <1>1, <1>2

LEMMA UnlockStays == UnlockInv /\ script = UnlockCalls /\ Fast!FastNext => UnlockInv'
<1> SUFFICES ASSUME UnlockInv, script = UnlockCalls, Fast!FastNext PROVE UnlockInv'
  OBVIOUS
<1>1. ~(\E w \in BOOLEAN : Fast!Call("FlashDevice", [wipe |-> w]))
  BY DEF Fast!Call, UnlockCalls
<1>2. Fast!FlashNext => Fast!Arrives
  BY DEF Fast!FlashNext, Fast!FlashDevice, Fast!EnableRoot, Fast!ToBootloader,
         Fast!WaitForFastbootMode, Fast!ChargeOff, Fast!Verify, Fast!Flash,
         Fast!RebootBootloader,
         Fast!WaitAgain, Fast!ChargeOn, Fast!Reboot, Fast!WaitUntilFullyBooted, Fast!At,
         UnlockInv,
         UnlockType
<1> QED BY <1>1, <1>2, BeginKeepsUnlock, DevicesKeepsUnlock, PollKeepsUnlock, WorldKeepsUnlock
        DEF Fast!FastNext, Fast!UnlockStep

-------------------------------------------------------------------------------
(* Fastboot: both                                                              *)

FastInv == /\ script = FastCalls => FlashInv
           /\ script = UnlockCalls => UnlockInv

LEMMA FlashIdle == FlashInv /\ UNCHANGED <<op, pc, loc, last, fast>> => FlashInv'
<1> SUFFICES ASSUME FlashInv, UNCHANGED <<op, pc, loc, last, fast>> PROVE FlashInv'
  OBVIOUS
<1>1. UNCHANGED <<pc, op, loc, last, charge, mode, images, info, zip, listed, flashed, wiped, slipped>>
  BY DEF fast
<1> QED BY <1>1, SameBuild DEF FlashInv, FlashType, NotBegun, NotYet, PartsToGo, AllFlashed,
      ChargesAgain, Fast!LeavesBootloader, Fast!FlashesVerified, Fast!Idle, Fast!Failed

LEMMA UnlockIdle == UnlockInv /\ UNCHANGED <<op, pc, last, fast>> => UnlockInv'
<1> SUFFICES ASSUME UnlockInv, UNCHANGED <<op, pc, last, fast>> PROVE UnlockInv'
  OBVIOUS
<1>1. UNCHANGED <<pc, op, last, mode, knows, lock, prompts, reported>>
  BY DEF fast
<1> QED BY <1>1 DEF UnlockInv, UnlockType, AskingLocked, Prompted, NothingTold,
   Fast!UnlockIsTold,
      Fast!Idle, Fast!Failed

LEMMA FastStays == FastInv /\ [Next]_vars => FastInv'
<1> SUFFICES ASSUME FastInv, [Next]_vars PROVE FastInv'
  OBVIOUS
<1>1. CASE Next
  <2>1. script' = script /\ (script \in {FastCalls, UnlockCalls} => Fast!FastNext)
    BY <1>1, ScriptStays, OwnSteps
  <2> QED BY <2>1, FlashStays, UnlockStays DEF FastInv
<1>2. CASE UNCHANGED vars
  <2>1. UNCHANGED <<script, op, pc, loc, last, fast>>
    BY <1>2 DEF vars, callVars
  <2> QED BY <2>1, FlashIdle, UnlockIdle DEF FastInv
<1> QED BY <1>1, <1>2

\* FlashIsSafe for every set of images, board and fault: what is flashed and what is
\* left to flash are together what was asked for, and only a failed step leaves the
\* device in its bootloader; and no prompt outlives a lock that its answer would not open.
THEOREM FlashingIsSafe == Spec => []FlashIsSafe
<1>1. Init => FastInv
  BY FlashStarts, UnlockStarts DEF FastInv
<1>2. FastInv => FlashIsSafe
  BY DEF FastInv, FlashInv, UnlockInv, FlashIsSafe
<1> QED BY <1>1, <1>2, FastStays, PTL DEF Spec

-------------------------------------------------------------------------------
(* WebView: the provider is given back                                         *)

Entered == {"FindPaths", "ReplaceSystemApp", "InstallApp"}
InPlace == {"SetProvider", "body", "LeaveApp"}
Steps   == {"FallbackOff", "PullUser", "UninstallUser"} \cup Entered \cup InPlace
             \cup {"Reinstall", "RestoreProvider", "RestoreFallback", "over"}

\* The versions a user has, and the failures after which something is promised.
Versions == {<<>>, <<"base">>, <<"base", "split">>, <<"test">>}
Harmless == {"PullUser", "FindPaths", "SetProvider"}
Mild     == failed \subseteq Harmless \cup {"LeaveApp"}
Whole    == failed \subseteq Harmless /\ found.userVer # <<"base", "split">>

WebType ==
  /\ pc \in {"none", "UseWebViewProvider"} \cup Steps
  /\ op = IF pc = "none" THEN "none" ELSE "UseWebViewProvider"
  /\ sdk \in {"M", "N", "O", "Q"} /\ fallback \in BOOLEAN /\ found.fallback \in BOOLEAN
  /\ userVer \in Versions /\ found.userVer \in Versions
  /\ provider \in Web!Valid(sysVer, userVer) \cup {"null"}
  /\ found.provider \in Web!Valid(found.sysVer, found.userVer) \cup {"null"}

AtEntry     == pc = "UseWebViewProvider" => failed = {} /\ found = Web!Device
LocalsFixed == pc \in Steps =>
  /\ loc = [raised |-> loc.raised, pulled |-> loc.pulled, how |-> loc.how, logic |-> loc.logic,
            provider |-> loc.provider]
  /\ loc.pulled \in Versions
  /\ loc.logic <=> Web!Reports /\ found.fallback
  /\ loc.provider = IF Web!Reports THEN found.provider ELSE "null"

\* The user's version is as it was, then out of the way in pulled, then back.
UserApart    == Mild =>
  /\ pc \in {"FallbackOff", "PullUser", "UninstallUser"} =>
       sysVer = found.sysVer /\ userVer = found.userVer /\ loc.pulled = <<>>
  /\ pc \in Entered => sysVer = found.sysVer /\ userVer = <<>> /\ loc.pulled = found.userVer
Replaced     == Mild /\ pc \in InPlace =>
  /\ loc.pulled = found.userVer
  /\ loc.how = "replaced" => userVer = <<>>
  /\ loc.how # "replaced" => sysVer = found.sysVer
Reinstalling == pc = "Reinstall" =>
  /\ Whole => /\ sysVer = found.sysVer
              /\ \/ loc.pulled = found.userVer /\ userVer = <<>>
                 \/ loc.pulled = <<>> /\ userVer = found.userVer
  /\ Mild /\ found.userVer = <<"base">> =>
       loc.pulled = <<"base">> \/ (loc.pulled = <<>> /\ userVer = <<"base">>)
ComesBack    == pc \in {"RestoreProvider", "RestoreFallback", "over"} =>
  /\ Whole => /\ sysVer = found.sysVer /\ userVer = found.userVer
              /\ pc # "RestoreProvider" /\ Web!Reports =>
                   provider \in {found.provider} \cup Web!NotKnown
              /\ pc = "over" /\ Web!Reports => fallback = found.fallback
  /\ Mild /\ found.userVer = <<"base">> => userVer = <<"base">>

\* The fallback logic is as it was, then off where it can be.
LogicOff == Mild /\ Web!Reports =>
  /\ pc = "FallbackOff" => fallback = found.fallback
  /\ pc \in Steps \ {"FallbackOff", "over"} =>
       fallback = IF Web!HasFallback THEN FALSE ELSE found.fallback

WebInv == /\ WebType /\ AtEntry /\ LocalsFixed /\ UserApart /\ Replaced /\ Reinstalling
          /\ ComesBack /\ LogicOff /\ Web!GivenBack /\ Web!OuterContextLeaves

LEMMA ShortVersions == \A v \in Versions : Len(v) < 2 <=> v # <<"base", "split">>
  BY DEF Versions

LEMMA WebStarts == Init => WebInv
<1> SUFFICES ASSUME Init PROVE WebInv
  OBVIOUS
<1>1. /\ op = "none" /\ pc = "none" /\ last = [op |-> "none", how |-> "ok"]
  BY DEF Init, Settings!Init, Settings!CallInit
<1>2. /\ sdk \in {"M", "N", "O", "Q"} /\ fallback \in BOOLEAN /\ userVer \in Versions
      /\ provider \in Web!Valid(sysVer, userVer) \cup {"null"} /\ found = Web!Device
  BY DEF Init, Web!WebInit, Versions
<1>3. /\ found.fallback = fallback /\ found.provider = provider /\ found.sysVer = sysVer
      /\ found.userVer = userVer
  BY <1>2 DEF Web!Device
<1> QED BY <1>1, <1>2, <1>3 DEF WebInv, WebType, AtEntry, LocalsFixed, UserApart, Replaced,
      Reinstalling, ComesBack, LogicOff, Web!GivenBack, Web!OuterContextLeaves, Web!Left, Steps,
      Entered, InPlace

\* What a step keeps that is neither a call nor an end, whatever it does to the device.
Onward(l) == /\ pc' = l /\ op' = op /\ l \in Steps
             /\ UNCHANGED <<sdk, shipped, found>>

LEMMA SameSdk ==
  ASSUME sdk' = sdk, found' = found
  PROVE  /\ (Web!Reports' <=> Web!Reports) /\ (Web!HasFallback' <=> Web!HasFallback)
         /\ Web!NotKnown' = Web!NotKnown
  BY DEF Web!Reports, Web!HasFallback, Web!NotKnown

LEMMA CallKeepsWeb == WebInv /\ Web!WebCall => WebInv'
<1> SUFFICES ASSUME WebInv, Web!WebCall PROVE WebInv'
  OBVIOUS
<1>1. /\ op' = "UseWebViewProvider" /\ pc' = "UseWebViewProvider" /\ failed' = {}
      /\ UNCHANGED <<sdk, fallback, provider, sysVer, userVer>> /\ found' = Web!Device
  BY DEF Web!WebCall, Web!Call, Web!SameDevice
<1>2. /\ found'.fallback = fallback /\ found'.provider = provider /\ found'.sysVer = sysVer
      /\ found'.userVer = userVer /\ found' = Web!Device'
  BY <1>1 DEF Web!Device
<1>3. WebType'
  BY <1>1, <1>2 DEF WebInv, WebType, Web!Valid, Web!Installed
<1> QED BY <1>1, <1>2, <1>3 DEF WebInv, AtEntry, LocalsFixed, UserApart, Replaced,
      Reinstalling, ComesBack, LogicOff, Web!GivenBack, Web!OuterContextLeaves, Web!Left,
      Web!Idle,
      Steps, Entered, InPlace

LEMMA EntryKeepsWeb == WebInv /\ Web!UseWebViewProvider => WebInv'
<1> SUFFICES ASSUME WebInv, Web!UseWebViewProvider PROVE WebInv'
  OBVIOUS
<1>1. /\ pc = "UseWebViewProvider" /\ op = "UseWebViewProvider" /\ failed = {} /\ found = Web!Device
      /\ UNCHANGED <<sdk, fallback, provider, sysVer, userVer, failed, shipped, found>>
  BY DEF Web!UseWebViewProvider, Web!SameDevice, Web!Quiet, WebInv, WebType, AtEntry, Steps,
         Entered, InPlace
<1>2. /\ found.fallback = fallback /\ found.provider = provider /\ found.sysVer = sysVer
      /\ found.userVer = userVer
  BY <1>1 DEF Web!Device
<1>3. CASE Web!End("raised")
  <2>1. pc' = "none" /\ op' = "none"
    BY <1>3 DEF Web!End
  <2>2. WebType'
    BY <1>1, <2>1 DEF WebInv, WebType, Web!Valid, Web!Installed
  <2> QED BY <1>1, <1>2, <2>1, <2>2 DEF WebInv, AtEntry, LocalsFixed, UserApart, Replaced,
      Reinstalling, ComesBack, LogicOff, Web!GivenBack, Web!OuterContextLeaves, Web!Left,
      Steps, Entered, InPlace
<1>4. CASE ~Web!End("raised")
  <2>1. /\ pc' = "FallbackOff" /\ op' = op
        /\ loc' = [raised |-> FALSE, pulled |-> <<>>, how |-> "none",
             logic |-> Web!Reports /\ fallback, provider |-> IF Web!Reports THEN provider ELSE "null"]
    BY <1>4 DEF Web!UseWebViewProvider, Web!GotoWith
  <2>2. /\ loc' = [raised |-> loc'.raised, pulled |-> loc'.pulled, how |-> loc'.how,
                   logic |-> loc'.logic, provider |-> loc'.provider]
        /\ loc'.pulled = <<>> /\ (loc'.logic <=> Web!Reports /\ fallback)
        /\ loc'.provider = IF Web!Reports THEN provider ELSE "null"
    BY <2>1
  <2>3. WebType'
    BY <1>1, <2>1 DEF WebInv, WebType, Web!Valid, Web!Installed, Steps
  <2>4. LocalsFixed'
    BY <1>1, <1>2, <2>2, SameSdk DEF LocalsFixed, Versions
  <2> QED BY <1>1, <1>2, <2>1, <2>2, <2>3, <2>4, SameSdk DEF WebInv, AtEntry, UserApart,
     Replaced,
      Reinstalling, ComesBack, LogicOff, Web!GivenBack, Web!OuterContextLeaves, Web!Left,
      Web!Idle,
      WebType, Steps, Entered, InPlace
<1> QED BY <1>3, <1>4

\* What every step from one of Steps to another keeps.
Onwards == /\ pc \in Steps /\ pc' \in Steps /\ op' = op /\ UNCHANGED <<sdk, found>>
           /\ failed' = failed \/ failed' = failed \cup {pc}
           /\ loc' = [raised |-> loc'.raised, pulled |-> loc'.pulled, how |-> loc'.how,
                      logic |-> loc.logic, provider |-> loc.provider]
           /\ loc'.pulled \in Versions
           /\ provider' \in Web!Valid(sysVer', userVer') \cup {"null"}
           /\ fallback' \in BOOLEAN /\ userVer' \in Versions

LEMMA OnwardsKeepsWeb ==
  ASSUME WebInv, Onwards, UserApart', Replaced', Reinstalling', ComesBack', LogicOff'
  PROVE  WebInv'
<1>1. op' # "none" /\ pc' \notin {"none", "UseWebViewProvider"}
  BY DEF Onwards, WebInv, WebType, Steps, Entered, InPlace
<1>2. (found.provider \in Web!Valid(found.sysVer, found.userVer) \cup {"null"})'
  BY DEF Onwards, WebInv, WebType, Web!Valid, Web!Installed
<1>3. (provider \in Web!Valid(sysVer, userVer) \cup {"null"})'
  BY DEF Onwards, Web!Valid, Web!Installed
<1>4. WebType'
  BY <1>2, <1>3 DEF Onwards, WebInv, WebType, Steps, Entered, InPlace
<1>5. LocalsFixed'
  <2>1. loc'.logic = loc.logic /\ loc'.provider = loc.provider
    BY DEF Onwards
  <2>2. loc' = [raised |-> loc'.raised, pulled |-> loc'.pulled, how |-> loc'.how,
                logic |-> loc'.logic, provider |-> loc'.provider]
    BY <2>1 DEF Onwards
  <2> QED BY <2>1, <2>2, SameSdk DEF Onwards, WebInv, LocalsFixed
<1> QED BY <1>1, <1>4, <1>5 DEF WebInv, AtEntry, Web!GivenBack, Web!OuterContextLeaves,
   Web!Left,
            Web!Idle

\* The failures grow, and by a step that is told.
LEMMA Growing ==
  ASSUME Onwards
  PROVE  /\ Mild' => Mild /\ (failed' # failed => pc \in Harmless \cup {"LeaveApp"})
         /\ Whole' => Whole /\ (failed' # failed => pc \in Harmless)
         /\ Whole => Mild
  BY DEF Onwards, Mild, Whole

LEMMA LogicStaysOff ==
  ASSUME WebInv, Onwards, pc \notin {"FallbackOff", "over"}, pc' # "FallbackOff",
         fallback' = fallback
  PROVE  LogicOff'
<1>1. (Mild' => Mild) /\ (Web!Reports' <=> Web!Reports) /\ (Web!HasFallback' <=> Web!HasFallback)
  BY Growing, SameSdk DEF Onwards
<1>2. Mild /\ Web!Reports => fallback = IF Web!HasFallback THEN FALSE ELSE found.fallback
  BY DEF Onwards, WebInv, LogicOff
<1>3. found' = found
  BY DEF Onwards
<1> QED BY <1>1, <1>2, <1>3 DEF LogicOff

LEMMA FallbackOffKeepsWeb == WebInv /\ Web!FallbackOff => WebInv'
<1> SUFFICES ASSUME WebInv, Web!FallbackOff PROVE WebInv'
  OBVIOUS
<1>1. /\ pc = "FallbackOff" /\ UNCHANGED <<sdk, found, sysVer, userVer>>
  BY DEF Web!FallbackOff, Web!Do, Web!SetFallback, Web!SameDevice, Web!Quiet
<1>2. /\ loc = [raised |-> loc.raised, pulled |-> loc.pulled, how |-> loc.how,
                logic |-> loc.logic, provider |-> loc.provider]
      /\ loc.pulled \in Versions
  BY <1>1 DEF WebInv, LocalsFixed, Steps
<1>3. \/ /\ pc' = "PullUser" /\ op' = op /\ loc' = loc /\ failed' = failed
         /\ fallback' = IF Web!HasFallback THEN FALSE ELSE fallback
      \/ /\ pc' = "over" /\ op' = op /\ loc' = [loc EXCEPT !.raised = TRUE]
         /\ failed' = failed \cup {"FallbackOff"}
  BY <1>1 DEF Web!FallbackOff, Web!Do, Web!Fails, Web!Goto, Web!GotoWith, Web!SetFallback
<1>4. fallback' \in BOOLEAN /\ provider' \in Web!Valid(sysVer', userVer') \cup {"null"}
  BY <1>1 DEF Web!FallbackOff, Web!Do, Web!SetFallback, Web!SameDevice, WebInv, WebType
<1>5. /\ loc' = [raised |-> loc'.raised, pulled |-> loc'.pulled, how |-> loc'.how,
                 logic |-> loc.logic, provider |-> loc.provider]
      /\ loc'.pulled = loc.pulled
  BY <1>2, <1>3
<1>6. Onwards
  BY <1>1, <1>2, <1>3, <1>4, <1>5 DEF Onwards, WebInv, WebType, Steps
<1>7. CASE pc' = "PullUser"
  <2>1. Mild' => Mild
    BY <1>6, Growing
  <2>2. UserApart'
    BY <1>1, <1>5, <1>7, <2>1 DEF WebInv, UserApart, Entered
  <2>3. LogicOff'
    <3>1. (Web!Reports' <=> Web!Reports) /\ (Web!HasFallback' <=> Web!HasFallback)
      BY <1>1, SameSdk
    <3>2. Mild /\ Web!Reports => fallback = found.fallback
      BY <1>1 DEF WebInv, LogicOff
    <3>3. fallback' = IF Web!HasFallback THEN FALSE ELSE fallback
      BY <1>3, <1>7
    <3> QED BY <1>1, <1>7, <2>1, <3>1, <3>2, <3>3 DEF LogicOff
  <2> QED BY <1>6, <1>7, <2>2, <2>3, OnwardsKeepsWeb DEF Replaced, Reinstalling, ComesBack,
     InPlace
<1>8. CASE pc' = "over"
  <2>1. ~Mild' /\ ~Whole'
    BY <1>3, <1>8 DEF Mild, Whole, Harmless
  <2> QED BY <1>6, <1>8, <2>1, OnwardsKeepsWeb DEF UserApart, Replaced, Reinstalling, ComesBack,
       LogicOff
<1> QED BY <1>3, <1>7, <1>8

LEMMA PullUserKeepsWeb == WebInv /\ Web!PullUser => WebInv'
<1> SUFFICES ASSUME WebInv, Web!PullUser PROVE WebInv'
  OBVIOUS
<1>1. /\ pc = "PullUser" /\ UNCHANGED <<sdk, found, fallback, provider, sysVer, userVer>>
  BY DEF Web!PullUser, Web!SameDevice, Web!Quiet
<1>2. /\ loc = [raised |-> loc.raised, pulled |-> loc.pulled, how |-> loc.how,
                logic |-> loc.logic, provider |-> loc.provider]
      /\ loc.pulled \in Versions
  BY <1>1 DEF WebInv, LocalsFixed, Steps
<1>3. \/ /\ pc' = IF userVer = <<>> THEN "FindPaths" ELSE "UninstallUser"
         /\ op' = op /\ loc' = loc /\ failed' = failed
      \/ /\ pc' = "RestoreProvider" /\ op' = op /\ loc' = [loc EXCEPT !.raised = TRUE]
         /\ failed' = failed \cup {"PullUser"}
  BY <1>1 DEF Web!PullUser, Web!Fails, Web!Goto, Web!GotoWith
<1>4. fallback' \in BOOLEAN /\ provider' \in Web!Valid(sysVer', userVer') \cup {"null"}
  BY <1>1 DEF WebInv, WebType
<1>5. /\ loc' = [raised |-> loc'.raised, pulled |-> loc'.pulled, how |-> loc'.how,
                 logic |-> loc.logic, provider |-> loc.provider]
      /\ loc'.pulled = loc.pulled
  BY <1>2, <1>3
<1>6. Onwards
  BY <1>1, <1>2, <1>3, <1>4, <1>5 DEF Onwards, WebInv, WebType, Steps, Entered
<1>7. Mild => sysVer = found.sysVer /\ userVer = found.userVer /\ loc.pulled = <<>>
  BY <1>1 DEF WebInv, UserApart
<1>8. pc' \in {"FindPaths", "UninstallUser", "RestoreProvider"}
      /\ (pc' = "FindPaths" => userVer = <<>>)
  BY <1>3
<1>9. (Mild' => Mild) /\ (Whole' => Whole /\ Mild)
  BY <1>6, Growing
<1>10. UserApart'
  BY <1>1, <1>5, <1>7, <1>8, <1>9 DEF UserApart, Entered
<1>11. LogicOff'
  BY <1>1, <1>6, <1>8, LogicStaysOff
<1>12. ComesBack'
  BY <1>1, <1>7, <1>8, <1>9, SameSdk DEF ComesBack
<1> QED BY <1>6, <1>8, <1>10, <1>11, <1>12, OnwardsKeepsWeb DEF Replaced, Reinstalling, InPlace

LEMMA UninstallUserKeepsWeb == WebInv /\ Web!UninstallUser => WebInv'
<1> SUFFICES ASSUME WebInv, Web!UninstallUser PROVE WebInv'
  OBVIOUS
<1>1. /\ pc = "UninstallUser" /\ UNCHANGED <<sdk, found, fallback, sysVer>>
      /\ userVer' = userVer \/ userVer' = <<>>
  BY DEF Web!UninstallUser, Web!Repackage, Web!Packages, Web!Quiet
<1>2. /\ loc = [raised |-> loc.raised, pulled |-> loc.pulled, how |-> loc.how,
                logic |-> loc.logic, provider |-> loc.provider]
      /\ loc.pulled \in Versions /\ userVer \in Versions
  BY <1>1 DEF WebInv, LocalsFixed, WebType, Steps
<1>3. \/ /\ pc' = "FindPaths" /\ userVer' = <<>>
         /\ op' = op /\ loc' = [loc EXCEPT !.pulled = userVer] /\ failed' = failed
      \/ /\ pc' = "RestoreProvider" /\ op' = op /\ loc' = [loc EXCEPT !.raised = TRUE]
         /\ failed' = failed \cup {"UninstallUser"}
  BY <1>1 DEF Web!UninstallUser, Web!Fails, Web!Repackage, Web!GotoWith
<1>4. fallback' \in BOOLEAN /\ provider' \in Web!Valid(sysVer', userVer') \cup {"null"}
  BY <1>1 DEF Web!UninstallUser, Web!Repackage, WebInv, WebType
<1>5. /\ loc' = [raised |-> loc'.raised, pulled |-> loc'.pulled, how |-> loc'.how,
                 logic |-> loc.logic, provider |-> loc.provider]
      /\ loc'.pulled \in {loc.pulled, userVer}
      /\ pc' = "FindPaths" => loc'.pulled = userVer
  BY <1>2, <1>3
<1>6. Onwards
  BY <1>1, <1>2, <1>3, <1>4, <1>5 DEF Onwards, Versions, Steps, Entered
<1>7. CASE pc' = "FindPaths"
  <2>1. Mild' => Mild
    BY <1>6, Growing
  <2>2. userVer' = <<>>
    BY <1>3, <1>7
  <2>3. UserApart'
    BY <1>1, <1>5, <1>7, <2>1, <2>2 DEF WebInv, UserApart
  <2>4. LogicOff'
    BY <1>1, <1>6, <1>7, LogicStaysOff
  <2> QED BY <1>6, <1>7, <2>3, <2>4, OnwardsKeepsWeb DEF Replaced, Reinstalling, ComesBack,
     InPlace
<1>8. CASE pc' = "RestoreProvider"
  <2>1. ~Mild' /\ ~Whole'
    BY <1>3, <1>8 DEF Mild, Whole, Harmless
  <2> QED BY <1>6, <1>8, <2>1, OnwardsKeepsWeb DEF UserApart, Replaced, Reinstalling, ComesBack,
       LogicOff
<1> QED BY <1>3, <1>7, <1>8

LEMMA FindPathsKeepsWeb == WebInv /\ Web!FindPaths => WebInv'
<1> SUFFICES ASSUME WebInv, Web!FindPaths PROVE WebInv'
  OBVIOUS
<1>1. /\ pc = "FindPaths" /\ UNCHANGED <<sdk, found, fallback, provider, sysVer, userVer>>
  BY DEF Web!FindPaths, Web!SameDevice, Web!Quiet
<1>2. /\ loc = [raised |-> loc.raised, pulled |-> loc.pulled, how |-> loc.how,
                logic |-> loc.logic, provider |-> loc.provider]
      /\ loc.pulled \in Versions
  BY <1>1 DEF WebInv, LocalsFixed, Steps, Entered
<1>3. \/ /\ pc' \in {"ReplaceSystemApp", "InstallApp"}
         /\ op' = op /\ loc' = loc /\ failed' = failed
      \/ /\ pc' = "Reinstall" /\ op' = op /\ loc' = [loc EXCEPT !.raised = TRUE]
         /\ failed' = failed \cup {"FindPaths"}
  BY <1>1 DEF Web!FindPaths, Web!Fails, Web!Goto, Web!GotoWith
<1>4. fallback' \in BOOLEAN /\ provider' \in Web!Valid(sysVer', userVer') \cup {"null"}
  BY <1>1 DEF WebInv, WebType
<1>5. /\ loc' = [raised |-> loc'.raised, pulled |-> loc'.pulled, how |-> loc'.how,
                 logic |-> loc.logic, provider |-> loc.provider]
      /\ loc'.pulled = loc.pulled
  BY <1>2, <1>3
<1>6. Onwards
  BY <1>1, <1>2, <1>3, <1>4, <1>5 DEF Onwards, WebInv, WebType, Steps, Entered
<1>7. Mild => sysVer = found.sysVer /\ userVer = <<>> /\ loc.pulled = found.userVer
  BY <1>1 DEF WebInv, UserApart, Entered
<1>8. (Mild' => Mild) /\ (Whole' => Whole /\ Mild)
  BY <1>6, Growing
<1>9. UserApart'
  BY <1>1, <1>3, <1>5, <1>7, <1>8 DEF UserApart, Entered
<1>10. LogicOff'
  BY <1>1, <1>3, <1>6, LogicStaysOff
<1>11. Reinstalling'
  BY <1>1, <1>5, <1>7, <1>8 DEF Reinstalling
<1> QED BY <1>3, <1>6, <1>9, <1>10, <1>11, OnwardsKeepsWeb DEF Replaced, ComesBack, InPlace

LEMMA TakeOverKeepsWeb == WebInv /\ (Web!ReplaceSystemApp \/ Web!InstallApp) => WebInv'
<1> SUFFICES ASSUME WebInv, Web!ReplaceSystemApp \/ Web!InstallApp PROVE WebInv'
  OBVIOUS
<1>1. /\ pc \in {"ReplaceSystemApp", "InstallApp"} /\ UNCHANGED <<sdk, found, fallback>>
      /\ userVer' \in {userVer, <<"test">>}
  BY DEF Web!ReplaceSystemApp, Web!InstallApp, Web!Repackage, Web!Packages, Web!Quiet
<1>2. /\ loc = [raised |-> loc.raised, pulled |-> loc.pulled, how |-> loc.how,
                logic |-> loc.logic, provider |-> loc.provider]
      /\ loc.pulled \in Versions
      /\ userVer \in Versions
  BY <1>1 DEF WebInv, WebType, LocalsFixed, Steps, Entered
<1>3. \/ /\ pc' = "SetProvider" /\ userVer' = userVer
         /\ op' = op /\ loc' = [loc EXCEPT !.how = "replaced"] /\ failed' = failed
      \/ /\ pc' = "SetProvider" /\ sysVer' = sysVer
         /\ op' = op /\ loc' = [loc EXCEPT !.how = "installed"] /\ failed' = failed
      \/ /\ pc' = "Reinstall" /\ op' = op /\ loc' = [loc EXCEPT !.raised = TRUE]
         /\ failed' = failed \cup {pc}
  BY <1>1 DEF Web!ReplaceSystemApp, Web!InstallApp, Web!Fails, Web!Repackage, Web!GotoWith
<1>4. fallback' \in BOOLEAN /\ provider' \in Web!Valid(sysVer', userVer') \cup {"null"}
  BY <1>1 DEF Web!ReplaceSystemApp, Web!InstallApp, Web!Repackage, WebInv, WebType
<1>5. /\ loc' = [raised |-> loc'.raised, pulled |-> loc'.pulled, how |-> loc'.how,
                 logic |-> loc.logic, provider |-> loc.provider]
      /\ loc'.pulled = loc.pulled
      /\ pc' = "SetProvider" => \/ loc'.how = "replaced" /\ userVer' = userVer
                                \/ loc'.how = "installed" /\ sysVer' = sysVer
  BY <1>2, <1>3
<1>6. Onwards
  BY <1>1, <1>2, <1>3, <1>4, <1>5 DEF Onwards, Versions, Steps, Entered, InPlace
<1>7. Mild => sysVer = found.sysVer /\ userVer = <<>> /\ loc.pulled = found.userVer
  BY <1>1 DEF WebInv, UserApart, Entered
<1>8. Mild' => Mild
  BY <1>6, Growing
<1>9. CASE pc' = "SetProvider"
  <2>1. Replaced'
    BY <1>1, <1>5, <1>7, <1>8, <1>9 DEF Replaced
  <2>2. LogicOff'
    BY <1>1, <1>6, <1>9, LogicStaysOff
  <2> QED BY <1>6, <1>9, <2>1, <2>2, OnwardsKeepsWeb DEF UserApart, Reinstalling, ComesBack,
     Entered
<1>10. CASE pc' = "Reinstall"
  <2>1. ~Mild' /\ ~Whole'
    BY <1>1, <1>3, <1>10 DEF Mild, Whole, Harmless
  <2> QED BY <1>6, <1>10, <2>1, OnwardsKeepsWeb DEF UserApart, Replaced, Reinstalling,
     ComesBack,
       LogicOff
<1> QED BY <1>3, <1>9, <1>10

LEMMA InsideKeepsWeb == WebInv /\ (Web!SetProvider \/ Web!Body) => WebInv'
<1> SUFFICES ASSUME WebInv, Web!SetProvider \/ Web!Body PROVE WebInv'
  OBVIOUS
<1>1. /\ pc \in {"SetProvider", "body"} /\ UNCHANGED <<sdk, found, fallback, sysVer, userVer>>
  BY DEF Web!SetProvider, Web!Body, Web!SameDevice, Web!Quiet
<1>2. /\ loc = [raised |-> loc.raised, pulled |-> loc.pulled, how |-> loc.how,
                logic |-> loc.logic, provider |-> loc.provider]
      /\ loc.pulled \in Versions
  BY <1>1 DEF WebInv, WebType, LocalsFixed, Steps, InPlace
<1>3. /\ pc' \in {"body", "LeaveApp"} /\ op' = op
      /\ loc' = loc \/ \E r : loc' = [loc EXCEPT !.raised = r]
      /\ failed' = failed \/ failed' = failed \cup {pc}
      /\ provider' = provider \/ provider' \in Web!Valid(sysVer, userVer)
  BY <1>1 DEF Web!SetProvider, Web!Body, Web!Choose, Web!Do, Web!Fails, Web!Refused, Web!Goto,
       Web!GotoWith, Web!SameDevice
<1>4. fallback' \in BOOLEAN /\ provider' \in Web!Valid(sysVer', userVer') \cup {"null"}
  BY <1>1, <1>3 DEF WebInv, WebType
<1>5. /\ loc' = [raised |-> loc'.raised, pulled |-> loc'.pulled, how |-> loc'.how,
                 logic |-> loc.logic, provider |-> loc.provider]
      /\ loc'.pulled = loc.pulled /\ loc'.how = loc.how
  BY <1>2, <1>3
<1>6. Onwards
  BY <1>1, <1>2, <1>3, <1>4, <1>5 DEF Onwards, WebInv, WebType, Steps, InPlace
<1>7. Mild' => Mild
  BY <1>6, Growing
<1>8. Replaced'
  BY <1>1, <1>5, <1>7 DEF WebInv, Replaced, InPlace
<1>9. LogicOff'
  BY <1>1, <1>3, <1>6, LogicStaysOff
<1> QED BY <1>3, <1>6, <1>8, <1>9, OnwardsKeepsWeb DEF UserApart, Reinstalling, ComesBack,
   Entered

LEMMA LeaveAppKeepsWeb == WebInv /\ Web!LeaveApp => WebInv'
<1> SUFFICES ASSUME WebInv, Web!LeaveApp PROVE WebInv'
  OBVIOUS
<1>1. /\ pc = "LeaveApp" /\ UNCHANGED <<sdk, found, fallback>>
      /\ userVer' \in {userVer, <<>>}
  BY DEF Web!LeaveApp, Web!Do, Web!Repackage, Web!Packages, Web!Quiet
<1>2. /\ loc = [raised |-> loc.raised, pulled |-> loc.pulled, how |-> loc.how,
                logic |-> loc.logic, provider |-> loc.provider]
      /\ loc.pulled \in Versions
      /\ userVer \in Versions
  BY <1>1 DEF WebInv, WebType, LocalsFixed, Steps, InPlace
<1>3. /\ pc' = "Reinstall" /\ op' = op
      /\ \/ /\ loc' = loc /\ failed' = failed
            /\ loc.how = "replaced" => sysVer' = found.sysVer /\ userVer' = userVer
            /\ loc.how # "replaced" => sysVer' = sysVer /\ userVer' = <<>>
         \/ loc' = [loc EXCEPT !.raised = TRUE] /\ failed' = failed \cup {"LeaveApp"}
  BY <1>1 DEF Web!LeaveApp, Web!Do, Web!Fails, Web!Repackage, Web!Goto, Web!GotoWith
<1>4. fallback' \in BOOLEAN /\ provider' \in Web!Valid(sysVer', userVer') \cup {"null"}
  BY <1>1 DEF Web!LeaveApp, Web!Do, Web!Repackage, WebInv, WebType
<1>5. /\ loc' = [raised |-> loc'.raised, pulled |-> loc'.pulled, how |-> loc'.how,
                 logic |-> loc.logic, provider |-> loc.provider]
      /\ loc'.pulled = loc.pulled
  BY <1>2, <1>3
<1>6. Onwards
  BY <1>1, <1>2, <1>3, <1>4, <1>5 DEF Onwards, Versions, Steps, InPlace
<1>7. (Mild' => Mild) /\ (Whole' => Whole /\ Mild)
  BY <1>6, Growing
<1>8. Mild => /\ loc.pulled = found.userVer
              /\ loc.how = "replaced" => userVer = <<>>
              /\ loc.how # "replaced" => sysVer = found.sysVer
  BY <1>1 DEF WebInv, Replaced, InPlace
<1>9. Whole' => sysVer' = found.sysVer /\ userVer' = <<>>
  <2>1. failed' = failed \cup {"LeaveApp"} => ~Whole'
    BY DEF Whole, Harmless
  <2> QED BY <1>3, <1>7, <1>8, <2>1
<1>10. Reinstalling'
  BY <1>1, <1>5, <1>7, <1>8, <1>9 DEF Reinstalling
<1>11. LogicOff'
  BY <1>1, <1>3, <1>6, LogicStaysOff
<1> QED BY <1>3, <1>6, <1>10, <1>11, OnwardsKeepsWeb DEF UserApart, Replaced, ComesBack,
   Entered,
       InPlace

LEMMA LastOfVersion ==
  ASSUME NEW v \in Versions, v # <<>>, v[Len(v)] # "split"
  PROVE  /\ v \in {<<"base">>, <<"test">>}
         /\ <<v[Len(v)]>> = v /\ SubSeq(v, 1, Len(v) - 1) = <<>>
<1>1. v \in {<<"base">>, <<"test">>}
  BY DEF Versions
<1>2. Len(v) = 1 /\ <<v[1]>> = v
  BY <1>1
<1> QED BY <1>1, <1>2, SubSeqEmpty

LEMMA ReinstallKeepsWeb == WebInv /\ Web!Reinstall => WebInv'
<1> SUFFICES ASSUME WebInv, Web!Reinstall PROVE WebInv'
  OBVIOUS
<1>1. /\ pc = "Reinstall" /\ UNCHANGED <<sdk, found, fallback>>
  BY DEF Web!Reinstall, Web!Packages, Web!Quiet
<1>2. /\ loc = [raised |-> loc.raised, pulled |-> loc.pulled, how |-> loc.how,
                logic |-> loc.logic, provider |-> loc.provider]
      /\ loc.pulled \in Versions
      /\ userVer \in Versions /\ found.userVer \in Versions
  BY <1>1 DEF WebInv, WebType, LocalsFixed, Steps
<1> DEFINE f == loc.pulled[Len(loc.pulled)]
           left == SubSeq(loc.pulled, 1, Len(loc.pulled) - 1)
<1>3. \/ /\ loc.pulled = <<>> /\ pc' = "RestoreProvider" /\ op' = op /\ loc' = loc
         /\ UNCHANGED <<provider, sysVer, userVer, failed>>
      \/ /\ loc.pulled # <<>> /\ f = "split" /\ pc' = "RestoreProvider" /\ op' = op
         /\ loc' = [loc EXCEPT !.raised = TRUE]
         /\ UNCHANGED <<provider, sysVer, userVer, failed>>
      \/ /\ loc.pulled # <<>> /\ f # "split" /\ Web!Repackage(sysVer, <<f>>) /\ failed' = failed
         /\ pc' = "Reinstall" /\ op' = op /\ loc' = [loc EXCEPT !.pulled = left]
      \/ /\ loc.pulled # <<>> /\ f # "split"
         /\ Web!Repackage(sysVer, <<f>>) \/ UNCHANGED <<provider, sysVer, userVer>>
         /\ pc' = "RestoreProvider" /\ op' = op /\ loc' = [loc EXCEPT !.raised = TRUE]
         /\ failed' = failed \cup {"Reinstall"}
  BY <1>1 DEF Web!Reinstall, Web!Fails, Web!Refused, Web!Goto, Web!GotoWith
<1>4. loc.pulled # <<>> /\ f # "split" =>
        loc.pulled \in {<<"base">>, <<"test">>} /\ <<f>> = loc.pulled /\ left = <<>>
  BY <1>2, LastOfVersion
<1>5. fallback' \in BOOLEAN /\ provider' \in Web!Valid(sysVer', userVer') \cup {"null"}
      /\ userVer' \in Versions /\ sysVer' = sysVer
  BY <1>1, <1>2, <1>3, <1>4 DEF Web!Repackage, WebInv, WebType
<1>6. /\ loc' = [raised |-> loc'.raised, pulled |-> loc'.pulled, how |-> loc'.how,
                 logic |-> loc.logic, provider |-> loc.provider]
      /\ loc'.pulled \in {loc.pulled, <<>>}
  BY <1>2, <1>3, <1>4
<1>7. Onwards
  BY <1>1, <1>2, <1>3, <1>5, <1>6 DEF Onwards, Versions, Steps
<1>8. (Mild' => Mild) /\ (Whole' => Whole)
  BY <1>7, Growing
<1>9. LogicOff'
  BY <1>1, <1>3, <1>7, LogicStaysOff
<1> HIDE DEF f, left
<1>10. CASE loc.pulled = <<>> /\ pc' = "RestoreProvider" /\ userVer' = userVer
  <2>1. ComesBack'
    BY <1>1, <1>2, <1>5, <1>8, <1>10 DEF WebInv, Reinstalling, ComesBack
  <2> QED BY <1>7, <1>9, <1>10, <2>1, OnwardsKeepsWeb DEF UserApart, Replaced, Reinstalling,
     Entered,
       InPlace
<1>11. CASE loc.pulled # <<>> /\ f = "split" /\ pc' = "RestoreProvider" /\ userVer' = userVer
  <2>1. loc.pulled = <<"base", "split">>
    BY <1>2, <1>11 DEF f, Versions
  <2>2. ~Whole'
    BY <1>1, <1>8, <2>1, <1>11 DEF WebInv, Reinstalling, Whole
  <2>3. ~(Mild' /\ found.userVer = <<"base">>)
    BY <1>1, <1>8, <2>1 DEF WebInv, Reinstalling
  <2>4. ComesBack'
    BY <1>1, <1>11, <2>2, <2>3 DEF ComesBack
  <2> QED BY <1>7, <1>9, <1>11, <2>4, OnwardsKeepsWeb DEF UserApart, Replaced, Reinstalling,
     Entered,
       InPlace
<1>12. CASE /\ loc.pulled # <<>> /\ f # "split" /\ Web!Repackage(sysVer, <<f>>)
            /\ pc' = "Reinstall" /\ loc' = [loc EXCEPT !.pulled = left]
  <2>1. userVer' = loc.pulled /\ loc'.pulled = <<>>
    BY <1>2, <1>4, <1>12 DEF Web!Repackage
  <2>2. Reinstalling'
    BY <1>1, <1>5, <1>8, <1>12, <2>1 DEF WebInv, Reinstalling
  <2> QED BY <1>7, <1>9, <1>12, <2>2, OnwardsKeepsWeb DEF UserApart, Replaced, ComesBack,
     Entered,
       InPlace
<1>13. CASE pc' = "RestoreProvider" /\ failed' = failed \cup {"Reinstall"}
  <2>1. ~Mild' /\ ~Whole'
    BY <1>13 DEF Mild, Whole, Harmless
  <2> QED BY <1>7, <1>13, <2>1, OnwardsKeepsWeb DEF UserApart, Replaced, Reinstalling,
     ComesBack,
       LogicOff
<1> QED BY <1>3, <1>10, <1>11, <1>12, <1>13

LEMMA RestoreProviderKeepsWeb == WebInv /\ Web!RestoreProvider => WebInv'
<1> SUFFICES ASSUME WebInv, Web!RestoreProvider PROVE WebInv'
  OBVIOUS
<1>1. /\ pc = "RestoreProvider" /\ UNCHANGED <<sdk, found, fallback, sysVer, userVer>>
  BY DEF Web!RestoreProvider, Web!Quiet
<1>2. /\ loc = [raised |-> loc.raised, pulled |-> loc.pulled, how |-> loc.how,
                logic |-> loc.logic, provider |-> loc.provider]
      /\ loc.pulled \in Versions
      /\ loc.provider = IF Web!Reports THEN found.provider ELSE "null"
  BY <1>1 DEF WebInv, LocalsFixed, Steps
<1>3. \/ /\ loc.provider = "null" \/ loc.provider = provider
         /\ pc' = "RestoreFallback" /\ op' = op /\ loc' = loc /\ UNCHANGED <<provider, failed>>
      \/ /\ loc.provider \in Web!Valid(sysVer, userVer) /\ provider' = loc.provider
         /\ pc' = "RestoreFallback" /\ op' = op /\ loc' = loc /\ UNCHANGED failed
      \/ /\ provider' \in {provider} \cup Web!Valid(sysVer, userVer)
         /\ pc' = "over" /\ op' = op /\ loc' = [loc EXCEPT !.raised = TRUE]
         /\ failed' = failed \cup {"RestoreProvider"}
      \/ /\ loc.provider \notin Web!Valid(sysVer, userVer) \cup {"null"} /\ provider' = provider
         /\ pc' = "over" /\ op' = op /\ loc' = [loc EXCEPT !.raised = TRUE] /\ UNCHANGED failed
  BY <1>1 DEF Web!RestoreProvider, Web!Choose, Web!Do, Web!Fails, Web!Refused, Web!Goto,
     Web!GotoWith
<1>4. fallback' \in BOOLEAN /\ provider' \in Web!Valid(sysVer', userVer') \cup {"null"}
  BY <1>1, <1>3 DEF WebInv, WebType
<1>5. /\ loc' = [raised |-> loc'.raised, pulled |-> loc'.pulled, how |-> loc'.how,
                 logic |-> loc.logic, provider |-> loc.provider]
      /\ loc'.pulled = loc.pulled
  BY <1>2, <1>3
<1>6. Onwards
  BY <1>1, <1>2, <1>3, <1>4, <1>5 DEF Onwards, WebInv, WebType, Steps
<1>7. (Mild' => Mild) /\ (Whole' => Whole)
  BY <1>6, Growing
<1>8. /\ Whole => sysVer = found.sysVer /\ userVer = found.userVer
      /\ Mild /\ found.userVer = <<"base">> => userVer = <<"base">>
  BY <1>1 DEF WebInv, ComesBack
<1>9. CASE pc' = "RestoreFallback"
  <2>1. Web!Reports => provider' \in {found.provider} \cup Web!NotKnown
    <3>1. provider \in {"pkg", "other", "null"}
      BY DEF WebInv, WebType, Web!Valid
    <3> QED BY <1>2, <1>3, <1>9, <3>1 DEF Web!NotKnown
  <2>2. ComesBack'
    BY <1>1, <1>7, <1>8, <1>9, <2>1, SameSdk DEF ComesBack
  <2>3. LogicOff'
    BY <1>1, <1>6, <1>9, LogicStaysOff
  <2> QED BY <1>6, <1>9, <2>2, <2>3, OnwardsKeepsWeb DEF UserApart, Replaced, Reinstalling,
     Entered,
       InPlace
<1>10. CASE pc' = "over"
  <2>1. ~Whole'
    <3>1. failed' = failed \cup {"RestoreProvider"} => ~Whole'
      BY DEF Whole, Harmless
    <3>2. Whole => loc.provider \in Web!Valid(sysVer, userVer) \cup {"null"}
      BY <1>2, <1>8 DEF WebInv, WebType
    <3> QED BY <1>3, <1>7, <1>10, <3>1, <3>2
  <2>2. ComesBack'
    BY <1>1, <1>7, <1>8, <2>1 DEF ComesBack
  <2>3. LogicOff'
    BY <1>1, <1>10 DEF LogicOff
  <2> QED BY <1>6, <1>10, <2>2, <2>3, OnwardsKeepsWeb DEF UserApart, Replaced, Reinstalling,
     Entered,
       InPlace
<1> QED BY <1>3, <1>9, <1>10

LEMMA RestoreFallbackKeepsWeb == WebInv /\ Web!RestoreFallback => WebInv'
<1> SUFFICES ASSUME WebInv, Web!RestoreFallback PROVE WebInv'
  OBVIOUS
<1>1. /\ pc = "RestoreFallback" /\ UNCHANGED <<sdk, found, sysVer, userVer>>
  BY DEF Web!RestoreFallback, Web!Do, Web!SetFallback, Web!SameDevice, Web!Quiet
<1>2. /\ loc = [raised |-> loc.raised, pulled |-> loc.pulled, how |-> loc.how,
                logic |-> loc.logic, provider |-> loc.provider]
      /\ loc.pulled \in Versions
      /\ loc.logic <=> Web!Reports /\ found.fallback
  BY <1>1 DEF WebInv, LocalsFixed, Steps
<1>3. /\ pc' = "over" /\ op' = op
      /\ \/ /\ loc.logic /\ loc' = loc /\ failed' = failed
            /\ fallback' = IF Web!HasFallback THEN TRUE ELSE fallback
            /\ sdk # "N" => provider' = provider
         \/ ~loc.logic /\ loc' = loc /\ failed' = failed /\ UNCHANGED <<fallback, provider>>
         \/ loc' = [loc EXCEPT !.raised = TRUE] /\ failed' = failed \cup {"RestoreFallback"}
  BY <1>1 DEF Web!RestoreFallback, Web!Do, Web!SetFallback, Web!Fails, Web!Goto, Web!GotoWith,
       Web!SameDevice
<1>4. fallback' \in BOOLEAN /\ provider' \in Web!Valid(sysVer', userVer') \cup {"null"}
  BY <1>1 DEF Web!RestoreFallback, Web!Do, Web!SetFallback, Web!SameDevice, WebInv, WebType
<1>5. /\ loc' = [raised |-> loc'.raised, pulled |-> loc'.pulled, how |-> loc'.how,
                 logic |-> loc.logic, provider |-> loc.provider]
      /\ loc'.pulled = loc.pulled
  BY <1>2, <1>3
<1>6. Onwards
  BY <1>1, <1>2, <1>3, <1>4, <1>5 DEF Onwards, WebInv, WebType, Steps
<1>7. (Mild' => Mild) /\ (Whole' => Whole /\ Mild)
  BY <1>6, Growing
<1>8. /\ Whole => /\ sysVer = found.sysVer /\ userVer = found.userVer
                  /\ Web!Reports => provider \in {found.provider} \cup Web!NotKnown
      /\ Mild /\ found.userVer = <<"base">> => userVer = <<"base">>
  BY <1>1 DEF WebInv, ComesBack
<1>9. Whole' /\ Web!Reports => fallback' = found.fallback /\ provider' = provider
  <2>1. failed' = failed \cup {"RestoreFallback"} => ~Whole'
    BY DEF Whole, Harmless
  <2>2. Whole' /\ Web!Reports => fallback = IF Web!HasFallback THEN FALSE ELSE found.fallback
    BY <1>1, <1>7 DEF WebInv, LogicOff, Steps
  <2>3. Web!Reports => sdk # "N"
    BY DEF Web!Reports
  <2>4. found.fallback \in BOOLEAN /\ fallback \in BOOLEAN
    BY DEF WebInv, WebType
  <2> SUFFICES ASSUME Whole', Web!Reports PROVE fallback' = found.fallback /\ provider' = provider
    OBVIOUS
  <2>5. failed' # failed \cup {"RestoreFallback"}
    BY <2>1
  <2>6. CASE loc.logic
    <3>1. found.fallback = TRUE
      BY <1>2, <2>4, <2>6
    <3>2. fallback' = (IF Web!HasFallback THEN TRUE ELSE fallback) /\ provider' = provider
      BY <1>3, <2>3, <2>5, <2>6
    <3> QED BY <2>2, <3>1, <3>2
  <2>7. CASE ~loc.logic
    <3>1. found.fallback = FALSE
      BY <1>2, <2>4, <2>7
    <3>2. fallback' = fallback /\ provider' = provider
      BY <1>3, <2>5, <2>7
    <3> QED BY <2>2, <3>1, <3>2
  <2> QED BY <2>6, <2>7
<1>10. ComesBack'
  BY <1>1, <1>3, <1>7, <1>8, <1>9, SameSdk DEF ComesBack
<1>11. LogicOff'
  BY <1>3 DEF LogicOff
<1> QED BY <1>3, <1>6, <1>10, <1>11, OnwardsKeepsWeb DEF UserApart, Replaced, Reinstalling,
   Entered,
       InPlace

LEMMA OverKeepsWeb == WebInv /\ Web!Over => WebInv'
<1> SUFFICES ASSUME WebInv, Web!Over PROVE WebInv'
  OBVIOUS
<1>1. /\ pc = "over" /\ op = "UseWebViewProvider" /\ op' = "none" /\ pc' = "none"
      /\ UNCHANGED <<sdk, fallback, provider, sysVer, userVer, failed, shipped, found>>
  BY DEF Web!Over, Web!End, Web!webVars, WebInv, WebType, Steps
<1>2. WebType'
  BY <1>1 DEF WebInv, WebType, Web!Valid, Web!Installed
<1>3. Web!GivenBack'
  <2>1. /\ failed \subseteq Harmless /\ Len(found.userVer) < 2 => Whole
        /\ (Web!Left({"PullUser", "FindPaths", "SetProvider"})' => failed \subseteq Harmless)
        /\ Len(found'.userVer) = Len(found.userVer)
    BY <1>1, ShortVersions DEF Whole, Harmless, Web!Left, WebInv, WebType
  <2>2. /\ Whole => /\ sysVer = found.sysVer /\ userVer = found.userVer
                    /\ Web!Reports => provider \in {found.provider} \cup Web!NotKnown
                    /\ Web!Reports => fallback = found.fallback
    BY <1>1 DEF WebInv, ComesBack
  <2>3. /\ (Web!Reports' <=> Web!Reports) /\ Web!NotKnown' = Web!NotKnown
        /\ UNCHANGED <<fallback, provider, sysVer, userVer, found>>
    BY <1>1, SameSdk
  <2> QED BY <2>1, <2>2, <2>3 DEF Web!GivenBack
<1>4. Web!OuterContextLeaves'
  <2>1. Web!Left({"PullUser", "FindPaths", "SetProvider", "LeaveApp"})' => Mild
    BY <1>1 DEF Mild, Harmless, Web!Left
  <2>2. Mild /\ found.userVer = <<"base">> => userVer = <<"base">>
    BY <1>1 DEF WebInv, ComesBack
  <2> QED BY <1>1, <2>1, <2>2 DEF Web!OuterContextLeaves
<1> QED BY <1>1, <1>2, <1>3, <1>4 DEF WebInv, AtEntry, LocalsFixed, UserApart, Replaced,
      Reinstalling, ComesBack, LogicOff, Steps, Entered, InPlace

LEMMA WebStays == WebInv /\ Web!WebNext => WebInv'
BY CallKeepsWeb, EntryKeepsWeb, FallbackOffKeepsWeb, PullUserKeepsWeb, UninstallUserKeepsWeb,
   FindPathsKeepsWeb, TakeOverKeepsWeb, InsideKeepsWeb, LeaveAppKeepsWeb, ReinstallKeepsWeb,
   RestoreProviderKeepsWeb, RestoreFallbackKeepsWeb, OverKeepsWeb DEF Web!WebNext

\* A step of another tool, and a stutter.
LEMMA WebIdle == WebInv /\ UNCHANGED <<op, pc, loc, last, web>> => WebInv'
<1> SUFFICES ASSUME WebInv, UNCHANGED <<op, pc, loc, last, web>> PROVE WebInv'
  OBVIOUS
<1>1. UNCHANGED <<op, pc, loc, last, sdk, fallback, provider, sysVer, userVer, shipped, failed, found>>
  BY DEF web
<1>2. /\ (Web!Reports' <=> Web!Reports) /\ (Web!HasFallback' <=> Web!HasFallback)
      /\ Web!NotKnown' = Web!NotKnown /\ (Mild' <=> Mild) /\ (Whole' <=> Whole)
  BY <1>1, SameSdk DEF Mild, Whole
<1>3. /\ Web!Valid(sysVer, userVer)' = Web!Valid(sysVer, userVer)
      /\ Web!Valid(found.sysVer, found.userVer)' = Web!Valid(found.sysVer, found.userVer)
  BY <1>1 DEF Web!Valid, Web!Installed
<1>4. WebType'
  BY <1>1, <1>3 DEF WebInv, WebType
<1>5. AtEntry' /\ LocalsFixed'
  BY <1>1, <1>2 DEF WebInv, AtEntry, LocalsFixed, Web!Device
<1>6. UserApart' /\ Replaced' /\ Reinstalling'
  BY <1>1, <1>2 DEF WebInv, UserApart, Replaced, Reinstalling
<1>7. ComesBack' /\ LogicOff'
  BY <1>1, <1>2 DEF WebInv, ComesBack, LogicOff
<1>8. Web!GivenBack' /\ Web!OuterContextLeaves'
  BY <1>1, <1>2 DEF WebInv, Web!GivenBack, Web!OuterContextLeaves, Web!Left, Web!Idle
<1> QED BY <1>4, <1>5, <1>6, <1>7, <1>8 DEF WebInv

\* ProviderIsGivenBack in every release of Android, with any versions of the package and
\* any failures: the failed steps say which of the contexts could not be left, and the
\* device is as it was found but for them.
THEOREM ProviderComesBack == Spec => []ProviderIsGivenBack
<1> DEFINE IInv == script = WebCalls => WebInv
<1>1. Init => IInv
  BY WebStarts
<1>2. ASSUME IInv, [Next]_vars PROVE IInv'
  <2>1. CASE Next
    <3>1. script' = script /\ (script = WebCalls => Web!WebNext)
      BY <2>1, ScriptStays, OwnSteps
    <3> QED BY <1>2, <3>1, WebStays
  <2>2. CASE UNCHANGED vars
    <3>1. UNCHANGED <<script, op, pc, loc, last, web>>
      BY <2>2 DEF vars, callVars
    <3> QED BY <1>2, <3>1, WebIdle
  <2> QED BY <1>2, <2>1, <2>2
<1>3. IInv => ProviderIsGivenBack
  BY DEF WebInv, ProviderIsGivenBack
<1> QED BY <1>1, <1>2, <1>3, PTL DEF Spec

-------------------------------------------------------------------------------
(* The app under test: as asked                                                *)

Methods == {"SetJavaAsserts", "SetScreen", "GoHome", "DismissCrashDialogIfNeeded", "StartActivity",
            "StartService", "StartInstrumentation", "BroadcastIntent", "ForceStop",
            "ClearApplicationState"}

\* A step belongs to one method.
StepOf == /\ op \in Methods \cup {"none"}
          /\ pc \in Methods \cup {"none"} => op = pc
          /\ pc = "StopPackage" => op = "ForceStop"
          /\ pc \in {"Clear", "Grant"} => op = "ClearApplicationState"
          /\ pc \in {"Power", "ScreenTest"} => op = "SetScreen"
          /\ pc \in {"StartHome", "IsHome", "PressEnter", "PressBack"} => op = "GoHome"
          /\ pc \in {"Dismiss", "Dismissed"} => op = "DismissCrashDialogIfNeeded"
          /\ pc \in {"Persist", "Runtime", "SetRuntime"} => op = "SetJavaAsserts"
          /\ tries \in Nat

\* Processes are numbered in the order they start, so that those of a call's start are
\* known again; a package that was once seen to be absent has none.
Numbered == /\ pids \in Nat /\ apps \subseteq 1 .. pids /\ ran \subseteq 1 .. pids
            /\ known \in {"unknown", "present", "absent"} /\ (known = "absent" => ~present)
            /\ ~present => apps = {}
            /\ present \in BOOLEAN
Cleared  == pc = "Grant" => ran \cap apps = {}

\* What a SetJavaAsserts works on is the file, and only its SetProp changes the property.
AssertsAs    == IF arg.enabled THEN "all" ELSE ""
AssertLines == /\ hurt \in BOOLEAN
               /\ ~hurt => /\ lines = [asserts |-> lines.asserts, others |-> lines.others]
                           /\ lines.others = asked.others
AskedFor    == op = "SetJavaAsserts" => /\ asked.enabled = AssertsAs /\ asked.answer = FALSE
                                        /\ java \in {asked.was, asked.enabled}
AskedRecord == asked = [enabled |-> asked.enabled, answer |-> asked.answer, was |-> asked.was,
                        others |-> asked.others]
FileFirst   == ~hurt => /\ pc = "Persist" => loc = lines
                        /\ pc \in {"Runtime", "SetRuntime"} => lines.asserts = asked.enabled
PropLast    == pc = "SetRuntime" => java # asked.enabled

AppInv == /\ StepOf /\ Numbered /\ Cleared /\ AssertLines /\ AskedFor /\ AskedRecord /\ FileFirst
          /\ PropLast
          /\ App!StopMeansGone /\ App!HomeIsFront /\ App!AssertsStay

LEMMA AppStarts == Init => AppInv
<1> SUFFICES ASSUME Init PROVE AppInv
  OBVIOUS
<1>1. /\ op = "none" /\ pc = "none" /\ tries = 0 /\ last = [op |-> "none", how |-> "ok"]
  BY DEF Init, Settings!Init, Settings!CallInit
<1>2. /\ apps = {} /\ pids = 0 /\ ran = {} /\ present = TRUE /\ known \in {"unknown", "present"}
      /\ lines \in [asserts : {"", "all"}, others : BOOLEAN]
      /\ hurt = FALSE
      /\ asked = [enabled |-> "", answer |-> FALSE, was |-> java, others |-> lines.others]
  BY DEF Init, App!AppInit
<1>3. StepOf
  BY <1>1 DEF StepOf, Methods
<1>4. Numbered /\ Cleared
  BY <1>1, <1>2 DEF Numbered, Cleared
<1>5. AssertLines /\ AskedFor /\ AskedRecord
  BY <1>1, <1>2 DEF AssertLines, AskedFor, AskedRecord
<1>6. FileFirst /\ PropLast
  BY <1>1 DEF FileFirst, PropLast
<1>7. App!StopMeansGone /\ App!HomeIsFront /\ App!AssertsStay
  BY <1>1 DEF App!StopMeansGone, App!HomeIsFront, App!AssertsStay, App!Ended
<1> QED BY <1>3, <1>4, <1>5, <1>6, <1>7 DEF AppInv

\* The end of a call, another attempt of it, and a step within it.
Out   == op' = "none" /\ pc' = "none" /\ last'.op = op /\ tries' \in Nat
Again == /\ op' = op /\ pc' = op /\ last' = last /\ arg' = arg /\ tries' \in Nat
Step(l) == op' = op /\ pc' = l /\ last' = last /\ arg' = arg /\ tries' = tries

LEMMA RaiseIsOutOrAgain ==
  ASSUME StepOf, op # "none", App!Raise
  PROVE  (Out /\ last'.how = "raised") \/ Again
  BY DEF App!Raise, App!End, Out, Again, StepOf

LEMMA ReturnIsOut == ASSUME App!Return PROVE Out /\ last'.how = "ok"
  BY DEF App!Return, App!End, Out

LEMMA GotoIsStep == ASSUME NEW l, App!Goto(l) PROVE Step(l) /\ loc' = loc
  BY DEF App!Goto, App!GotoWith, Step

\* Where a step of one of the methods may lead.
LEMMA StepsStay ==
  ASSUME StepOf, op # "none", Out \/ Again \/ \E l : Step(l) /\ pc' = l /\ StepOf'
  PROVE  StepOf'
<1>1. CASE Out
  BY <1>1 DEF Out, StepOf, Methods
<1>2. CASE Again
  BY <1>2 DEF Again, StepOf, Methods
<1> QED BY <1>1, <1>2

\* What the methods keep of each other's promises.
Within == op # "none" /\ (Out \/ op' = op) /\ StepOf'

LEMMA OthersKeepStops ==
  ASSUME AppInv, Within, Numbered', op \notin {"ForceStop", "ClearApplicationState"}
  PROVE  Cleared' /\ App!StopMeansGone'
  BY DEF Within, Out, StepOf, Cleared, App!StopMeansGone, App!Idle, App!Ended

LEMMA OthersKeepHome ==
  ASSUME AppInv, Within, op # "GoHome"
  PROVE  App!HomeIsFront'
  BY DEF Within, Out, StepOf, App!HomeIsFront, App!Idle, App!Ended

LEMMA OthersKeepAsserts ==
  ASSUME AppInv, Within, op # "SetJavaAsserts", UNCHANGED <<java, lines, asked, hurt>>
  PROVE  AssertLines' /\ AskedFor' /\ AskedRecord' /\ FileFirst' /\ PropLast' /\ App!AssertsStay'
<1>1. op' # "SetJavaAsserts" /\ pc' \notin {"Persist", "Runtime", "SetRuntime"}
  BY DEF Within, Out, StepOf
<1>2. AssertLines' /\ AskedRecord'
  BY DEF AppInv, AssertLines, AskedRecord
<1>3. App!AssertsStay'
  BY DEF Within, Out, App!AssertsStay, App!Idle, App!Ended
<1> QED BY <1>1, <1>2, <1>3 DEF AskedFor, FileFirst, PropLast

LEMMA StartsKeepApp ==
  AppInv /\ (App!StartActivity \/ App!StartService \/ App!BroadcastIntent \/ App!StartInstrumentation)
    => AppInv'
<1> SUFFICES ASSUME AppInv,
                    App!StartActivity \/ App!StartService \/ App!BroadcastIntent
                      \/ App!StartInstrumentation
             PROVE  AppInv'
  OBVIOUS
<1>1. /\ op = pc /\ op \in {"StartActivity", "StartService", "BroadcastIntent", "StartInstrumentation"}
      /\ UNCHANGED <<ran, present, known, java, lines, asked, hurt>>
  BY DEF App!StartActivity, App!StartService, App!BroadcastIntent, App!StartInstrumentation,
         App!pkgVars, App!javaVars, AppInv, StepOf, Methods
<1>2. \/ UNCHANGED <<apps, pids>>
      \/ present /\ pids' = pids + 1 /\ apps' \in {{}, {pids + 1}}
  BY DEF App!StartActivity, App!StartService, App!BroadcastIntent, App!StartInstrumentation,
     App!Adb,
         App!Launch, App!Spawn, App!procVars
<1>3. App!Return \/ App!Raise
  BY DEF App!StartActivity, App!StartService, App!BroadcastIntent, App!StartInstrumentation,
     App!Adb
<1>4. Out \/ Again
  BY <1>1, <1>3, RaiseIsOutOrAgain, ReturnIsOut DEF AppInv
<1>5. Within
  BY <1>1, <1>4, StepsStay DEF Within, Again, AppInv
<1>6. Numbered'
  <2>1. CASE UNCHANGED <<apps, pids>>
    BY <1>1, <2>1 DEF AppInv, Numbered
  <2>2. CASE present /\ pids' = pids + 1 /\ apps' \in {{}, {pids + 1}}
    <3>1. pids \in Nat /\ ran \subseteq 1 .. pids
      BY DEF AppInv, Numbered
    <3>2. pids' \in Nat /\ ran \subseteq 1 .. pids' /\ apps' \subseteq 1 .. pids'
      BY <2>2, <3>1
    <3> QED BY <1>1, <2>2, <3>2 DEF AppInv, Numbered
  <2> QED BY <1>2, <2>1, <2>2
<1> QED BY <1>1, <1>5, <1>6, OthersKeepStops, OthersKeepHome, OthersKeepAsserts DEF AppInv,
   Within

LEMMA ScreensKeepApp ==
  AppInv /\ (App!SetScreen \/ App!Power \/ App!ScreenTest \/ App!DismissCrashDialogIfNeeded
              \/ App!Dismiss \/ App!Dismissed) => AppInv'
<1> SUFFICES ASSUME AppInv,
                    App!SetScreen \/ App!Power \/ App!ScreenTest \/ App!DismissCrashDialogIfNeeded
                      \/ App!Dismiss \/ App!Dismissed
             PROVE  AppInv'
  OBVIOUS
<1>1. /\ op \in {"SetScreen", "DismissCrashDialogIfNeeded"}
      /\ UNCHANGED <<ran, present, known, java, lines, asked, hurt, apps, pids>>
  BY DEF App!SetScreen, App!Power, App!ScreenTest, App!DismissCrashDialogIfNeeded, App!Dismiss,
         App!Dismissed, App!appVars, App!procVars, App!pkgVars, App!javaVars, AppInv, StepOf,
         Methods
<1>2. \/ App!Return \/ App!Raise
      \/ op = "SetScreen" /\ (App!Goto("Power") \/ App!Goto("ScreenTest"))
      \/ op = "DismissCrashDialogIfNeeded" /\ (App!Goto("Dismiss") \/ App!Goto("Dismissed"))
  BY DEF App!SetScreen, App!Power, App!ScreenTest, App!DismissCrashDialogIfNeeded, App!Dismiss,
         App!Dismissed, App!SendKeyEvent, AppInv, StepOf, Methods
<1>3. \/ Out \/ Again
      \/ op = "SetScreen" /\ (Step("Power") \/ Step("ScreenTest"))
      \/ op = "DismissCrashDialogIfNeeded" /\ (Step("Dismiss") \/ Step("Dismissed"))
  BY <1>1, <1>2, RaiseIsOutOrAgain, ReturnIsOut, GotoIsStep DEF AppInv
<1>4. StepOf'
  <2>1. CASE Out \/ Again
    BY <1>1, <2>1, StepsStay DEF AppInv
  <2>2. CASE ~(Out \/ Again)
    BY <1>3, <2>2 DEF Step, AppInv, StepOf, Methods
  <2> QED BY <2>1, <2>2
<1>5. Within
  BY <1>1, <1>3, <1>4 DEF Within, Again, Step
<1>6. Numbered'
  BY <1>1 DEF AppInv, Numbered
<1> QED BY <1>1, <1>5, <1>6, OthersKeepStops, OthersKeepHome, OthersKeepAsserts DEF AppInv,
   Within

LEMMA HomeKeepsApp ==
  AppInv /\ (App!GoHome \/ App!StartHome \/ App!IsHome \/ App!PressEnter \/ App!PressBack) => AppInv'
<1> SUFFICES ASSUME AppInv,
                    App!GoHome \/ App!StartHome \/ App!IsHome \/ App!PressEnter \/ App!PressBack
             PROVE  AppInv'
  OBVIOUS
<1>1. /\ op = "GoHome"
      /\ UNCHANGED <<ran, present, known, java, lines, asked, hurt, apps, pids>>
  BY DEF App!GoHome, App!StartHome, App!IsHome, App!PressEnter, App!PressBack,
         App!appVars, App!procVars, App!pkgVars, App!javaVars, AppInv, StepOf, Methods
<1>2. \/ App!Return /\ front' = "launcher"
      \/ App!Raise
      \/ App!Goto("StartHome") \/ App!Goto("IsHome") \/ App!Goto("PressEnter") \/ App!Goto("PressBack")
  BY DEF App!GoHome, App!StartHome, App!IsHome, App!PressEnter, App!PressBack, App!SendKeyEvent,
         App!Adb, App!Launcher, App!appVars, App!focusVars
<1>3. \/ Out /\ (last'.how = "raised" \/ front' = "launcher")
      \/ Again
      \/ Step("StartHome") \/ Step("IsHome") \/ Step("PressEnter") \/ Step("PressBack")
  BY <1>1, <1>2, RaiseIsOutOrAgain, ReturnIsOut, GotoIsStep DEF AppInv
<1>4. StepOf'
  <2>1. CASE Out \/ Again
    BY <1>1, <2>1, StepsStay DEF AppInv
  <2>2. CASE ~(Out \/ Again)
    BY <1>1, <1>3, <2>2 DEF Step, AppInv, StepOf, Methods
  <2> QED BY <2>1, <2>2
<1>5. Within
  BY <1>1, <1>3, <1>4 DEF Within, Again, Step
<1>6. Numbered'
  BY <1>1 DEF AppInv, Numbered
<1>7. App!HomeIsFront'
  BY <1>1, <1>3 DEF App!HomeIsFront, App!Idle, App!Ended, Again, Step
<1> QED BY <1>1, <1>5, <1>6, <1>7, OthersKeepStops, OthersKeepAsserts DEF AppInv, Within

LEMMA StopsKeepApp ==
  AppInv /\ (App!ForceStop \/ App!StopPackage \/ App!ClearApplicationState \/ App!Clear \/ App!Grant)
    => AppInv'
<1> SUFFICES ASSUME AppInv,
                    App!ForceStop \/ App!StopPackage \/ App!ClearApplicationState \/ App!Clear
                      \/ App!Grant
             PROVE  AppInv'
  OBVIOUS
<1> DEFINE Gone == /\ ran' \cap apps' \cap named' = {}
                   /\ op # "ForceStop" => ran' \cap apps' = {}
<1>1. /\ op \in {"ForceStop", "ClearApplicationState"}
      /\ UNCHANGED <<ran, present, java, lines, asked, hurt, pids, named>>
      /\ apps' \in {apps, {}}
  BY DEF App!ForceStop, App!StopPackage, App!ClearApplicationState, App!Clear, App!Grant,
     App!Adb,
         App!appVars, App!procVars, App!pkgVars, App!javaVars, App!Stopped, AppInv, StepOf,
         Methods
<1>2. known' \in {"unknown", "present", "absent"} /\ (known' = "absent" => ~present)
  BY DEF App!ForceStop, App!StopPackage, App!ClearApplicationState, App!Clear, App!Grant,
         App!appVars, App!pkgVars, AppInv, Numbered
<1>3. \/ App!Return /\ Gone
      \/ App!Raise
      \/ op = "ForceStop" /\ App!Goto("StopPackage")
      \/ op = "ClearApplicationState" /\ App!Goto("Clear")
      \/ op = "ClearApplicationState" /\ App!Goto("Grant") /\ apps' = {}
  <2>1. CASE App!ForceStop
    BY <2>1 DEF App!ForceStop, App!GetApplicationPids, App!_GetPsOutput, App!appVars,
       App!procVars,
       AppInv, StepOf, Methods
  <2>2. CASE App!StopPackage
    BY <2>2 DEF App!StopPackage, App!Adb, App!Stopped
  <2>3. CASE App!ClearApplicationState
    <3>1. op = "ClearApplicationState"
      BY <2>3 DEF App!ClearApplicationState, AppInv, StepOf, Methods
    <3>2. (known' = "absent" => ~present) /\ apps' = apps
      BY <1>2, <2>3 DEF App!ClearApplicationState, App!procVars
    <3>3. CASE App!Raise
      BY <3>3
    <3>4. CASE App!Return /\ known' = "absent"
      BY <3>2, <3>4 DEF AppInv, Numbered
    <3>5. CASE App!Goto("Clear")
      BY <3>1, <3>5
    <3> QED BY <2>3, <3>3, <3>4, <3>5 DEF App!ClearApplicationState
  <2>4. CASE App!Clear
    BY <2>4 DEF App!Clear, App!Adb, App!Stopped, AppInv, StepOf
  <2>5. CASE App!Grant
    BY <2>5 DEF App!Grant, App!appVars, App!procVars, AppInv, Cleared
  <2> QED BY <2>1, <2>2, <2>3, <2>4, <2>5
<1>4. \/ Out /\ (last'.how = "raised" \/ Gone)
      \/ Again
      \/ op = "ForceStop" /\ Step("StopPackage")
      \/ op = "ClearApplicationState" /\ Step("Clear")
      \/ op = "ClearApplicationState" /\ Step("Grant") /\ apps' = {}
  BY <1>1, <1>3, RaiseIsOutOrAgain, ReturnIsOut, GotoIsStep DEF AppInv
<1>5. StepOf'
  <2>1. CASE Out \/ Again
    BY <1>1, <2>1, StepsStay DEF AppInv
  <2>2. CASE ~(Out \/ Again)
    BY <1>1, <1>4, <2>2 DEF Step, AppInv, StepOf, Methods
  <2> QED BY <2>1, <2>2
<1>6. Within
  BY <1>1, <1>4, <1>5 DEF Within, Again, Step
<1>7. Numbered'
  BY <1>1, <1>2 DEF AppInv, Numbered
<1>8. App!StopMeansGone'
  <2>1. CASE Out /\ last'.how = "raised"
    BY <2>1 DEF App!StopMeansGone, App!Ended
  <2>2. CASE Out /\ Gone
    BY <2>2 DEF App!StopMeansGone, App!Ended, Out
  <2>3. CASE op' = op
    BY <1>1, <2>3 DEF App!StopMeansGone, App!Idle
  <2> QED BY <1>4, <2>1, <2>2, <2>3 DEF Again, Step
<1>9. Cleared'
  BY <1>1, <1>4 DEF Cleared, Out, Again, Step
<1> QED BY <1>1, <1>6, <1>7, <1>8, <1>9, OthersKeepHome, OthersKeepAsserts DEF AppInv, Within

LEMMA AssertsKeepApp ==
  AppInv /\ (App!SetJavaAsserts \/ App!Persist \/ App!Runtime \/ App!SetRuntime) => AppInv'
<1> SUFFICES ASSUME AppInv,
                    App!SetJavaAsserts \/ App!Persist \/ App!Runtime \/ App!SetRuntime
             PROVE  AppInv'
  OBVIOUS
<1>1. op = "SetJavaAsserts" /\ UNCHANGED <<ran, present, known, apps, pids>>
  BY DEF App!SetJavaAsserts, App!Persist, App!Runtime, App!SetRuntime,
         App!appVars, App!procVars, App!pkgVars, AppInv, StepOf, Methods
<1>2. asked.enabled = App!New /\ asked.answer = FALSE /\ java \in {asked.was, asked.enabled}
  BY <1>1 DEF AppInv, AskedFor, AssertsAs, App!New
<1>3. CASE App!SetJavaAsserts
  <2>1. /\ UNCHANGED <<java, lines, asked>> /\ hurt' \in BOOLEAN /\ (~hurt' => ~hurt)
        /\ Out \/ Again \/ (Step("Persist") /\ (~hurt' => loc' = lines))
        /\ Out => last'.how = "raised"
    BY <1>1, <1>3, RaiseIsOutOrAgain
       DEF App!SetJavaAsserts, App!GotoWith, Step, Out, Again, AppInv, AssertLines
  <2>2. StepOf'
    BY <1>1, <2>1, StepsStay DEF Step, AppInv, StepOf, Methods
  <2>3. AssertLines' /\ AskedRecord' /\ AskedFor'
    BY <1>1, <2>1 DEF AppInv, AssertLines, AskedRecord, AskedFor, AssertsAs, Out, Again, Step
  <2>4. FileFirst' /\ PropLast' /\ App!AssertsStay'
    BY <1>1, <2>1 DEF FileFirst, PropLast, App!AssertsStay, App!Idle, App!Ended, Out, Again,
       Step
  <2>5. Within /\ Numbered'
    BY <1>1, <2>1, <2>2 DEF Within, Again, Step, AppInv, Numbered
  <2> QED BY <1>1, <2>2, <2>3, <2>4, <2>5, OthersKeepStops, OthersKeepHome DEF AppInv
<1>4. CASE App!Persist
  <2>1. /\ pc = "Persist" /\ UNCHANGED <<java, asked>>
        /\ \/ /\ App!Goto("Runtime") /\ hurt' = hurt
              /\ \/ loc.asserts = App!New /\ lines' = lines
                 \/ lines' = [loc EXCEPT !.asserts = App!New]
           \/ App!Raise /\ hurt' = TRUE
    BY <1>4 DEF App!Persist, App!Updated
  <2>2. /\ Out \/ Again \/ Step("Runtime")
        /\ Out => last'.how = "raised"
        /\ Out \/ Again => hurt' = TRUE
        /\ hurt' \in BOOLEAN /\ (~hurt' => ~hurt)
    <3>1. CASE App!Goto("Runtime") /\ hurt' = hurt
      <4>1. Step("Runtime")
        BY <3>1, GotoIsStep
      <4> QED BY <1>1, <3>1, <4>1 DEF Step, Out, Again, AppInv, AssertLines
    <3>2. CASE App!Raise /\ hurt' = TRUE
      BY <1>1, <3>2, RaiseIsOutOrAgain DEF AppInv, Out, Again
    <3> QED BY <2>1, <3>1, <3>2
  <2>3. ~hurt' => /\ lines' = [asserts |-> App!New, others |-> lines.others]
                  /\ lines.others = asked.others
    <3>1. ASSUME ~hurt' PROVE loc = [asserts |-> lines.asserts, others |-> lines.others]
                              /\ loc = lines /\ lines.others = asked.others
      BY <2>1, <2>2, <3>1 DEF AppInv, FileFirst, AssertLines
    <3> QED BY <2>1, <3>1
  <2>4. StepOf'
    BY <1>1, <2>2, StepsStay DEF Step, AppInv, StepOf, Methods
  <2>5. AskedRecord' /\ AskedFor'
    BY <1>1, <2>1, <2>2 DEF AppInv, AskedRecord, AskedFor, AssertsAs, Out, Again, Step
  <2>6. AssertLines'
    BY <2>1, <2>2, <2>3 DEF AssertLines
  <2>7. FileFirst' /\ PropLast' /\ App!AssertsStay'
    BY <1>1, <1>2, <2>1, <2>2, <2>3 DEF FileFirst, PropLast, App!AssertsStay, App!Idle,
       App!Ended, Out,
       Again, Step
  <2>8. Within /\ Numbered'
    BY <1>1, <2>2, <2>4 DEF Within, Again, Step, AppInv, Numbered
  <2> QED BY <1>1, <2>4, <2>5, <2>6, <2>7, <2>8, OthersKeepStops, OthersKeepHome DEF AppInv
<1>5. CASE App!Runtime
  <2>1. /\ pc = "Runtime" /\ UNCHANGED <<java, lines, asked, hurt>>
        /\ \/ java = App!New /\ Out
           \/ java # App!New /\ Step("SetRuntime")
           \/ Again \/ (Out /\ last'.how = "raised")
    BY <1>1, <1>5, RaiseIsOutOrAgain, ReturnIsOut, GotoIsStep
       DEF App!Runtime, App!appVars, App!javaVars, AppInv
  <2>2. StepOf'
    BY <1>1, <2>1, StepsStay DEF Step, AppInv, StepOf, Methods
  <2>3. AssertLines' /\ AskedRecord' /\ AskedFor'
    BY <1>1, <2>1 DEF AppInv, AssertLines, AskedRecord, AskedFor, AssertsAs, Out, Again, Step
  <2>4. ~hurt => lines.asserts = asked.enabled /\ lines.others = asked.others
    BY <2>1 DEF AppInv, FileFirst, AssertLines
  <2>5. FileFirst' /\ PropLast'
    BY <1>1, <1>2, <2>1, <2>4 DEF FileFirst, PropLast, Out, Again, Step
  <2>6. App!AssertsStay'
    BY <1>1, <1>2, <2>1, <2>4 DEF App!AssertsStay, App!Idle, App!Ended, Out, Again, Step
  <2>7. Within /\ Numbered'
    BY <1>1, <2>1, <2>2 DEF Within, Again, Step, AppInv, Numbered
  <2> QED BY <1>1, <2>2, <2>3, <2>5, <2>6, <2>7, OthersKeepStops, OthersKeepHome DEF AppInv
<1>6. CASE App!SetRuntime
  <2>1. /\ pc = "SetRuntime" /\ UNCHANGED <<lines, hurt>>
        /\ \/ java' = App!New /\ asked' = [asked EXCEPT !.answer = TRUE] /\ Out
           \/ java' \in {java, App!New} /\ asked' = asked /\ (Again \/ (Out /\ last'.how = "raised"))
    BY <1>1, <1>6, RaiseIsOutOrAgain, ReturnIsOut DEF App!SetRuntime, AppInv
  <2>2. asked'.enabled = asked.enabled /\ asked'.was = asked.was /\ asked'.others = asked.others
        /\ AskedRecord'
    BY <2>1 DEF AppInv, AskedRecord
  <2>3. java # asked.enabled /\ java = asked.was
    BY <1>2, <2>1 DEF AppInv, PropLast
  <2>4. ~hurt => lines.asserts = asked.enabled /\ lines.others = asked.others
    BY <2>1 DEF AppInv, FileFirst, AssertLines
  <2>5. StepOf'
    BY <1>1, <2>1, StepsStay DEF AppInv
  <2>6. AssertLines' /\ AskedFor'
    BY <1>1, <1>2, <2>1, <2>2 DEF AppInv, AssertLines, AskedFor, AssertsAs, Out, Again, Step
  <2>7. FileFirst' /\ PropLast'
    BY <1>1, <2>1 DEF FileFirst, PropLast, Out, Again
  <2>8. App!AssertsStay'
    BY <1>1, <1>2, <2>1, <2>2, <2>3, <2>4 DEF App!AssertsStay, App!Idle, App!Ended, Out, Again
  <2>9. Within /\ Numbered'
    BY <1>1, <2>1, <2>5 DEF Within, Again, AppInv, Numbered
  <2> QED BY <1>1, <2>2, <2>5, <2>6, <2>7, <2>8, <2>9, OthersKeepStops,
     OthersKeepHome DEF AppInv
<1> QED BY <1>3, <1>4, <1>5, <1>6

LEMMA CallKeepsApp == AppInv /\ App!AppCalled /\ App!Begin => AppInv'
<1> SUFFICES ASSUME AppInv, App!AppCalled, App!Begin PROVE AppInv'
  OBVIOUS
<1>1. /\ op' \in Methods /\ pc' = op' /\ tries' = tries
      /\ ran' = apps /\ UNCHANGED <<apps, pids, present, known, java, lines, hurt>>
  BY DEF App!AppCalled, App!Begin, App!Call, App!procVars, App!pkgVars, Methods
<1>2. \/ op' # "SetJavaAsserts" /\ asked' = asked
      \/ op' = "SetJavaAsserts"
         /\ asked' = [asked EXCEPT !.enabled = AssertsAs', !.answer = FALSE, !.was = java]
  BY DEF App!Begin, App!Ask, AssertsAs
<1>3. StepOf'
  BY <1>1 DEF AppInv, StepOf, Methods
<1>4. Numbered' /\ Cleared'
  BY <1>1 DEF AppInv, Numbered, Cleared, Methods
<1>5. AskedRecord' /\ AssertLines' /\ AskedFor'
  <2>1. /\ asked'.others = asked.others /\ AskedRecord'
        /\ op' = "SetJavaAsserts" => /\ asked'.enabled = AssertsAs' /\ asked'.answer = FALSE
                                     /\ asked'.was = java
    BY <1>2 DEF AppInv, AskedRecord
  <2> QED BY <1>1, <2>1 DEF AppInv, AssertLines, AskedFor
<1>6. FileFirst' /\ PropLast'
  BY <1>1 DEF FileFirst, PropLast, Methods
<1>7. App!StopMeansGone' /\ App!HomeIsFront' /\ App!AssertsStay'
  BY <1>1 DEF App!StopMeansGone, App!HomeIsFront, App!AssertsStay, App!Idle, Methods
<1> QED BY <1>3, <1>4, <1>5, <1>6, <1>7 DEF AppInv

LEMMA MeanwhileKeepsApp == AppInv /\ App!Meanwhile /\ UNCHANGED App!callVars => AppInv'
<1> SUFFICES ASSUME AppInv, App!Meanwhile, UNCHANGED App!callVars PROVE AppInv'
  OBVIOUS
<1>1. UNCHANGED <<op, pc, arg, loc, tries, last, front, ran, known, lines, asked, hurt>>
      \/ UNCHANGED <<op, pc, arg, loc, tries, last, ran, known, lines, asked, hurt, front>>
  BY DEF App!Meanwhile, App!callVars, App!focusVars, App!procVars, App!pkgVars, App!javaVars
<1>2. \/ UNCHANGED <<apps, pids, named, present>>
      \/ apps' \subseteq apps /\ UNCHANGED <<pids, named, present>>
      \/ /\ present /\ apps' = apps \cup {pids + 1} /\ pids' = pids + 1 /\ present' = present
         /\ named' \in {named, named \cup {pids + 1}}
      \/ apps' = {} /\ UNCHANGED <<pids, named>> /\ present' = FALSE
  BY DEF App!Meanwhile, App!procVars, App!pkgVars, App!Spawn
<1>3. \/ java' = java
      \/ op = "none" /\ java # lines.asserts /\ java' = lines.asserts
  BY DEF App!Meanwhile, App!javaVars, App!Idle
<1>4. /\ Numbered' /\ ran \cap apps' \subseteq ran \cap apps
      /\ ran \cap apps' \cap named' \subseteq ran \cap apps \cap named
  <2>1. CASE /\ present /\ apps' = apps \cup {pids + 1} /\ pids' = pids + 1 /\ present' = present
             /\ named' \in {named, named \cup {pids + 1}}
    <3>1. pids \in Nat /\ apps \subseteq 1 .. pids /\ ran \subseteq 1 .. pids
      BY DEF AppInv, Numbered
    <3>2. pids' \in Nat /\ apps' \subseteq 1 .. pids' /\ ran \subseteq 1 .. pids' /\ pids + 1 \notin ran
      BY <2>1, <3>1
    <3>3. Numbered'
      BY <1>1, <2>1, <3>2 DEF AppInv, Numbered
    <3> QED BY <2>1, <3>2, <3>3
  <2>2. CASE apps' \subseteq apps /\ UNCHANGED <<pids, named, present>>
    BY <1>1, <2>2 DEF AppInv, Numbered
  <2>3. CASE apps' = {} /\ UNCHANGED <<pids, named>> /\ present' = FALSE
    <3>1. /\ pids' \in Nat /\ apps' \subseteq 1 .. pids' /\ ran' \subseteq 1 .. pids'
          /\ (known \in {"unknown", "present", "absent"})'
      BY <1>1, <2>3 DEF AppInv, Numbered
    <3>2. present \in BOOLEAN /\ (known = "absent" => ~present) /\ known' = known
      BY <1>1 DEF AppInv, Numbered
    <3>3. present' \in BOOLEAN /\ (known' = "absent" => ~present')
      <4>1. CASE present' = present
        BY <3>2, <4>1
      <4>2. CASE present' = FALSE
        BY <4>2
      <4> QED BY <2>3, <4>1, <4>2
    <3> QED BY <2>3, <3>1, <3>3 DEF Numbered
  <2> QED BY <1>2, <2>1, <2>2, <2>3
<1>5. StepOf' /\ Cleared' /\ AssertLines' /\ AskedRecord' /\ FileFirst'
  BY <1>1, <1>4 DEF AppInv, StepOf, Cleared, AssertLines, AskedRecord, FileFirst
<1>6. AskedFor' /\ PropLast'
  BY <1>1, <1>3 DEF AppInv, StepOf, AskedFor, AssertsAs, PropLast
<1>7. App!StopMeansGone' /\ App!HomeIsFront'
  BY <1>1, <1>4 DEF AppInv, App!StopMeansGone, App!HomeIsFront, App!Idle, App!Ended
<1>8. App!AssertsStay'
  BY <1>1, <1>3 DEF AppInv, App!AssertsStay, App!Idle, App!Ended
<1> QED BY <1>4, <1>5, <1>6, <1>7, <1>8 DEF AppInv

LEMMA AppStays == AppInv /\ App!AppNext => AppInv'
  BY StartsKeepApp, ScreensKeepApp, HomeKeepsApp, StopsKeepApp, AssertsKeepApp, CallKeepsApp,
     MeanwhileKeepsApp DEF App!AppNext

LEMMA AppIdle == AppInv /\ UNCHANGED <<callVars, phone>> => AppInv'
<1> SUFFICES ASSUME AppInv, UNCHANGED <<callVars, phone>> PROVE AppInv'
  OBVIOUS
<1>1. UNCHANGED <<op, pc, arg, loc, tries, last, front, apps, pids, named, ran, present, known,
                  java, lines, asked, hurt>>
  BY DEF callVars, phone
<1>2. StepOf' /\ Numbered' /\ Cleared' /\ FileFirst' /\ PropLast'
  BY <1>1 DEF AppInv, StepOf, Numbered, Cleared, FileFirst, PropLast
<1>3. AssertLines' /\ AskedFor' /\ AskedRecord'
  BY <1>1 DEF AppInv, AssertLines, AskedFor, AskedRecord, AssertsAs
<1>4. App!StopMeansGone' /\ App!HomeIsFront' /\ App!AssertsStay'
  BY <1>1 DEF AppInv, App!StopMeansGone, App!HomeIsFront, App!AssertsStay, App!Idle, App!Ended
<1> QED BY <1>2, <1>3, <1>4 DEF AppInv

\* AppIsAsAsked for any bounds on processes and keys: the processes of a call's start are
\* gone when a stop of the app is back, GoHome ends at the launcher, and the asserts, the
\* file and the answer agree, whichever attempt it was that came through.
THEOREM AppStaysAsAsked == Spec => []AppIsAsAsked
<1> DEFINE IInv == script \in AppCalls => AppInv
<1>1. Init => IInv
  BY AppStarts
<1>2. ASSUME IInv, [Next]_vars PROVE IInv'
  <2>1. CASE Next
    <3>1. script' = script /\ (script \in AppCalls => App!AppNext)
      BY <2>1, ScriptStays, OwnSteps
    <3> QED BY <1>2, <3>1, AppStays
  <2>2. CASE UNCHANGED vars
    <3>1. script' = script /\ UNCHANGED <<callVars, phone>>
      BY <2>2 DEF vars, callVars
    <3> QED BY <1>2, <3>1, AppIdle
  <2> QED BY <1>2, <2>1, <2>2
<1>3. IInv => AppIsAsAsked
  BY DEF AppInv, AppIsAsAsked
<1> QED BY <1>1, <1>2, <1>3, PTL DEF Spec

-------------------------------------------------------------------------------
(* SystemApp: the replacement is undone                                        *)

Kinds     == {"user", "storage", "relocate", "install", "modify"}
Contexts  == [kind : Kinds, undo : BOOLEAN, root : BOOLEAN]
ModeEntry == {"GetProp", "EnableRoot"}
ModeSteps == {"DisableVerity", "RootAgain", "Remount", "StopFramework", "SetProp"}
SysSteps  == ModeEntry \cup ModeSteps
               \cup {"FindPaths", "Move", "NoMove", "Install", "body", "RemovePath", "LeaveModify",
                     "unwind", "StripPath", "StartFramework"}

SysType ==
  /\ op \in SystemCalls \cup {"none"} /\ pc \in SystemCalls \cup SysSteps \cup {"none"}
  /\ (op = "none" <=> pc = "none")
  /\ frames \in Seq(Contexts)
  /\ sysApp \in {"system", "stored", "gone", "none"} /\ first.app # "stored"
  /\ root \in BOOLEAN /\ prop \in BOOLEAN /\ rw \in BOOLEAN /\ stopped \in BOOLEAN
  /\ replaced \in BOOLEAN /\ raised \in BOOLEAN

\* The contexts: a user's mode, or none, the storage, the move of the app or its place
\* there, and the replacement.
Under == Len(frames) > 0 /\ frames[1].kind = "user"
Place == IF Under THEN 2 ELSE 1
Shape ==
  /\ Len(frames) <= Place + 2
  /\ Len(frames) >= Place => frames[Place].kind = "storage"
  /\ Len(frames) >= Place + 1 => frames[Place + 1].kind \in {"modify", "relocate"}
  /\ Len(frames) = Place + 2 =>
       frames[Place + 1].kind = "relocate" /\ frames[Place + 2].kind = "install"

\* The contexts a step is in.
InMove == Len(frames) = Place + 1 /\ frames[Place + 1].kind = "modify"
Where ==
  /\ pc \in {"none", "EnableSystemAppModification", "RemoveSystemApps", "StripSystemApps",
             "StripPath", "StartFramework"} => Len(frames) = 0
  /\ pc = "ReplaceSystemApp" => Len(frames) = Place - 1
  /\ pc = "FindPaths" => Len(frames) = Place
  /\ pc \in ModeEntry => \/ loc.kind = "user" /\ Len(frames) = 0
                         \/ loc.kind = "modify" /\ Len(frames) = Place
  /\ pc \in ModeSteps => \/ loc.kind = "strip" /\ Len(frames) = 0 /\ pc # "SetProp"
                         \/ loc.kind = "user" /\ Len(frames) = 1 /\ Under /\ frames[1].undo
                         \/ loc.kind = "modify" /\ InMove /\ frames[Place + 1].undo
  /\ pc \in {"Move", "NoMove"} => InMove
  /\ pc = "Install" => Len(frames) = Place + 1 /\ frames[Place + 1].kind = "relocate"
  /\ pc = "body" => Len(frames) = Place + 2
  /\ pc = "RemovePath" => Len(frames) = 1 /\ Under
  /\ pc = "LeaveModify" => /\ (Len(frames) = 1 /\ Under) \/ InMove
                           /\ frames[Len(frames)].undo

\* The steps of each method; a removal that is not to raise has removed the app.
OfMethod ==
  /\ op = "RemoveSystemApps" =>
       /\ pc \in {op, "RemovePath", "unwind", "LeaveModify"} \cup ModeEntry \cup ModeSteps
       /\ Len(frames) = 0 \/ (Len(frames) = 1 /\ Under)
       /\ pc \in ModeEntry \cup ModeSteps => loc.kind = "user" /\ loc.then = "RemovePath"
       /\ pc \in {"unwind", "LeaveModify"} /\ ~raised => sysApp # "system"
  /\ op = "StripSystemApps" =>
       /\ pc \in {op, "StripPath", "StartFramework", "unwind"} \cup ModeSteps
       /\ Len(frames) = 0
       /\ pc \in ModeSteps => loc.kind = "strip"
       /\ pc \in {"StartFramework", "unwind"} /\ ~raised => sysApp # "system"
  /\ op \in {"ReplaceSystemApp", "EnableSystemAppModification"} =>
       /\ pc \notin {"RemoveSystemApps", "StripSystemApps", "RemovePath", "StripPath",
                     "StartFramework"}
       /\ pc \in ModeEntry \cup ModeSteps =>
            \/ loc.kind = "user" /\ loc.then = "ReplaceSystemApp"
            \/ loc.kind = "modify" /\ loc.then \in {"Move", "NoMove"}

\* The mode that its property tells of is on.
Mode == /\ prop => rw /\ root
        /\ pc \in {"DisableVerity", "Remount", "StopFramework", "SetProp"} => root
        /\ pc \in {"StopFramework", "SetProp"} => rw

\* The files are only in a storage that is there to be left, and what was removed stays so.
Apart  == Len(frames) >= Place + 1 /\ frames[Place + 1].kind = "relocate"
ToMode == pc \in ModeEntry \cup ModeSteps /\ loc.kind = "modify"
Moving == pc = "Move" \/ (ToMode /\ loc.then = "Move")
Idling == pc = "NoMove" \/ (ToMode /\ loc.then = "NoMove")
Files  == /\ sysApp = "stored" => Len(frames) >= Place
          /\ Apart /\ frames[Place + 1].undo => sysApp = "stored"
          /\ Moving => sysApp \in {"system", "stored"}
          /\ System!Ended("StripSystemApps") \/ System!Ended("RemoveSystemApps") =>
               sysApp \in {"gone", "none"}

\* Which commands have not failed in this call: the ways out of a mode, nor its root, the
\* replacement's own, the framework's, and the moves' with the mode around them.
Given  == "LeaveModify" \notin wrong
Rooted == Given /\ "EnableRoot" \notin wrong
Own    == {"Install", "unwind"} \cap wrong = {}
Ran    == {"StopFramework", "StripPath", "StartFramework"} \cap wrong = {}
Held   == wrong \cap System!ToMove = {}

\* The contexts that have to give the mode back know how root was, and when there is
\* none the mode is as it was found, unless a command failed that gives it back.
Undoes(i) == frames[i].kind \in {"user", "modify"} /\ frames[i].undo
Nothing   == \A i \in 1 .. Len(frames) : ~Undoes(i)
Back == op \notin {"none", "StripSystemApps"} /\ Nothing =>
          /\ Given => (rw => first.rw) /\ (stopped => first.stopped)
          /\ Rooted => root = first.root
Knows == Rooted /\ op # "none" => \A i \in 1 .. Len(frames) : Undoes(i) => frames[i].root = first.root
BeforeStop  == {"StripSystemApps", "DisableVerity", "RootAgain", "Remount", "StopFramework", "unwind"}
RunsAgain   == Ran /\ op = "StripSystemApps" /\ pc \in BeforeStop => (stopped => first.stopped)

\* A caller's mode is on while something is done under it, so that no move takes its own.
InUse == Under /\ (Len(frames) # 1 \/ pc \in {"ReplaceSystemApp", "RemovePath"})
           /\ ~(pc \in ModeSteps /\ loc.kind = "user")
Caller == /\ pc = "EnableRoot" => ~prop
          /\ InUse => prop
          /\ \A i \in 1 .. Len(frames) : Undoes(i) /\ frames[i].kind = "modify" => ~Under

\* The replacement is there within its own context only.
Replacement == op # "none" /\ Own /\ Len(frames) # Place + 2 => (replaced => first.replaced)

Saved == Back /\ Knows /\ RunsAgain /\ Caller /\ Replacement

\* Unless a step of a move failed, the app is in the storage from its first move to its
\* second, and where it was found before and after.
Replacing  == op \in {"ReplaceSystemApp", "EnableSystemAppModification"}
Stored     == sysApp = "stored" /\ first.app = "system"
Kept == Held /\ Replacing =>
  /\ Apart => IF frames[Place + 1].undo THEN Stored ELSE sysApp = first.app
  /\ ~Apart => sysApp = first.app \/ Stored
  /\ ~Apart /\ pc \in {"unwind", "LeaveModify"} /\ raised => sysApp = first.app
  /\ pc = "FindPaths" \/ Idling => sysApp = first.app
  /\ Moving => first.app = "system" /\ (raised => sysApp = "stored")
  /\ raised => Moving \/ Idling \/ pc \in {"unwind", "LeaveModify"}

SysInv == /\ SysType /\ Shape /\ Where /\ OfMethod /\ Mode /\ Files /\ Saved /\ Kept
          /\ System!ReplacementIsUndone /\ System!ScopeStaysOpen /\ System!FrameworkRuns

Flags == /\ root \in BOOLEAN /\ prop \in BOOLEAN /\ rw \in BOOLEAN /\ stopped \in BOOLEAN
         /\ replaced \in BOOLEAN

LEMMA SysPlace == SysInv => Len(frames) \in Nat /\ Place \in {1, 2}
  BY LenProperties DEF SysInv, SysType, Place

LEMMA SysStarts == Init => SysInv
<1> SUFFICES ASSUME Init PROVE SysInv
  OBVIOUS
<1>1. /\ op = "none" /\ pc = "none" /\ last = [op |-> "none", how |-> "ok"]
  BY DEF Init, Settings!Init, Settings!CallInit
<1>2. /\ sysApp \in {"system", "none"} /\ frames = <<>> /\ replaced = FALSE /\ root \in BOOLEAN
      /\ prop = FALSE /\ rw = FALSE /\ stopped = FALSE /\ raised = FALSE
      /\ first.app = sysApp
  BY DEF Init, System!SysInit
<1>3. SysType
  <2>1. frames \in Seq(Contexts)
    BY <1>2, EmptySeq
  <2> QED BY <1>1, <1>2, <2>1 DEF SysType, SystemCalls
<1>4. ~Under /\ Place = 1 /\ Len(frames) = 0
  BY <1>2 DEF Under, Place
<1>5. Shape /\ Where /\ OfMethod /\ Mode /\ Files
  BY <1>1, <1>2, <1>4 DEF Shape, Where, OfMethod, Mode, Files, Apart, Moving, ToMode,
     System!Ended, ModeEntry, ModeSteps
<1>6. Saved /\ Kept
  BY <1>1, <1>2, <1>4 DEF Saved, Back, Knows, RunsAgain, Caller, InUse, Replacement, Kept, Replacing
<1>7. System!ReplacementIsUndone /\ System!ScopeStaysOpen /\ System!FrameworkRuns
  BY <1>1, <1>2 DEF System!ReplacementIsUndone, System!ScopeStaysOpen, System!FrameworkRuns,
     System!Ended
<1> QED BY <1>3, <1>5, <1>6, <1>7 DEF SysInv

\* The contexts before and after a step.
LEMMA SameFrames ==
  ASSUME frames' = frames
  PROVE  /\ (Under' <=> Under) /\ Place' = Place /\ (InMove' <=> InMove) /\ (Apart' <=> Apart)
         /\ (Shape' <=> Shape)
         /\ (Nothing' <=> Nothing)
         /\ \A i : Undoes(i)' <=> Undoes(i)
<1>1. (Under' <=> Under) /\ Place' = Place
  BY DEF Under, Place
<1>2. (InMove' <=> InMove) /\ (Apart' <=> Apart) /\ (Shape' <=> Shape)
  BY <1>1 DEF InMove, Apart, Shape
<1>3. \A i : Undoes(i)' <=> Undoes(i)
  BY DEF Undoes
<1> QED BY <1>1, <1>2, <1>3 DEF Nothing

LEMMA PushedFrames ==
  ASSUME frames \in Seq(Contexts), NEW f \in Contexts, System!Push(f)
  PROVE  /\ frames' \in Seq(Contexts) /\ Len(frames') = Len(frames) + 1 /\ Len(frames) \in Nat
         /\ \A i \in 1 .. Len(frames) : frames'[i] = frames[i] /\ (Undoes(i)' <=> Undoes(i))
         /\ frames'[Len(frames) + 1] = f
         /\ (Under' <=> Under \/ (Len(frames) = 0 /\ f.kind = "user"))
         /\ Place' = IF Under' THEN 2 ELSE 1
<1>1. frames' = Append(frames, f)
  BY DEF System!Push
<1>2. /\ frames' \in Seq(Contexts) /\ Len(frames') = Len(frames) + 1 /\ Len(frames) \in Nat
      /\ \A i \in 1 .. Len(frames) : frames'[i] = frames[i]
      /\ frames'[Len(frames) + 1] = f
  BY <1>1, AppendProperties, LenProperties
<1>3. (Under' <=> Under \/ (Len(frames) = 0 /\ f.kind = "user"))
  BY <1>2 DEF Under
<1> QED BY <1>2, <1>3 DEF Undoes, Place

LEMMA PoppedFrames ==
  ASSUME frames \in Seq(Contexts), Len(frames) > 0, System!Pop
  PROVE  /\ frames' \in Seq(Contexts) /\ Len(frames') = Len(frames) - 1 /\ Len(frames) \in Nat
         /\ \A i \in 1 .. Len(frames) - 1 : frames'[i] = frames[i] /\ (Undoes(i)' <=> Undoes(i))
         /\ (Under' <=> Under /\ Len(frames) > 1)
         /\ Place' = IF Under' THEN 2 ELSE 1
<1>1. frames' = SubSeq(frames, 1, Len(frames) - 1)
  BY DEF System!Pop
<1>2. Len(frames) \in Nat /\ Len(frames) - 1 \in 0 .. Len(frames)
  BY LenProperties
<1>3. /\ frames' \in Seq(Contexts) /\ Len(frames') = Len(frames) - 1
      /\ \A i \in 1 .. Len(frames) - 1 : frames'[i] = frames[i]
  <2> DEFINE n == Len(frames) - 1
  <2>1. n \in Int /\ 1 \in Int /\ (\A i \in 1 .. n : frames[i] \in Contexts) /\ 0 <= n
    BY <1>2
  <2> HIDE DEF n
  <2>2. /\ SubSeq(frames, 1, n) \in Seq(Contexts)
        /\ Len(SubSeq(frames, 1, n)) = IF 1 <= n THEN n - 1 + 1 ELSE 0
        /\ \A i \in 1 .. n - 1 + 1 : SubSeq(frames, 1, n)[i] = frames[1 + i - 1]
    BY <2>1, SubSeqProperties
  <2>3. /\ Len(SubSeq(frames, 1, n)) = n
        /\ \A i \in 1 .. n : SubSeq(frames, 1, n)[i] = frames[i]
    BY <2>1, <2>2
  <2> QED BY <1>1, <2>2, <2>3 DEF n
<1>4. (Under' <=> Under /\ Len(frames) > 1)
  BY <1>2, <1>3 DEF Under
<1> QED BY <1>2, <1>3, <1>4 DEF Undoes, Place

LEMMA InCallSys ==
  ASSUME SysType', Shape', Where', OfMethod', Mode', Files', Saved', Kept', op' # "none"
  PROVE  SysInv'
<1>1. System!ReplacementIsUndone' /\ System!FrameworkRuns'
  BY DEF System!ReplacementIsUndone, System!FrameworkRuns, System!Idle, Files, System!Ended
<1>2. System!ScopeStaysOpen'
  <2>1. SUFFICES ASSUME frames' # <<>>, frames'[1].kind = "user", pc' = "body" PROVE rw' /\ root'
    BY DEF System!ScopeStaysOpen, System!At
  <2>2. Under'
    <3>1. Len(frames') > 0
      BY <2>1, EmptySeq DEF SysType
    <3> QED BY <2>1, <3>1 DEF Under
  <2>3. InUse'
    BY <2>1, <2>2 DEF InUse, Where, Place, ModeSteps
  <2> QED BY <2>3 DEF Saved, Caller, Mode
<1> QED BY <1>1, <1>2 DEF SysInv

\* What failed before stays failed, and a command that fails is added.
LEMMA SameWrong ==
  ASSUME wrong' = wrong
  PROVE  /\ (Given' <=> Given) /\ (Rooted' <=> Rooted) /\ (Own' <=> Own) /\ (Ran' <=> Ran)
         /\ (Held' <=> Held)
  BY DEF Given, Rooted, Own, Ran, Held, System!ToMove

LEMMA OneWrong ==
  ASSUME wrong' = wrong \cup {pc}
  PROVE  /\ Given' => Given /\ pc # "LeaveModify"
         /\ Rooted' => Rooted /\ pc \notin {"LeaveModify", "EnableRoot"}
         /\ Own' => Own /\ pc \notin {"Install", "unwind"}
         /\ Ran' => Ran /\ pc \notin {"StopFramework", "StripPath", "StartFramework"}
         /\ Held' => Held /\ pc \notin ModeEntry \cup ModeSteps \cup {"Move", "LeaveModify"}
  BY DEF Given, Rooted, Own, Ran, Held, System!ToMove, ModeEntry, ModeSteps

\* What a command that fails, with or without its effect, leaves as it was.
Unharmed ==
  /\ root' = root \/ pc \in ModeSteps \cup {"EnableRoot"} \/ op = "StripSystemApps"
  /\ UNCHANGED <<rw, prop>> \/ pc \in ModeSteps
  /\ stopped' = stopped \/ pc \in ModeSteps \/ op = "StripSystemApps"
  /\ op = "StripSystemApps" /\ pc # "StopFramework" => (stopped' => stopped)
  /\ replaced' = replaced \/ pc = "Install"
  /\ \/ sysApp' = sysApp
     \/ pc = "Move" /\ InMove /\ sysApp' \in {"system", "stored"} /\ sysApp \in {"system", "stored"}
     \/ op # "ReplaceSystemApp" /\ op # "EnableSystemAppModification" /\ ~Apart /\ sysApp' = "none"

\* The mode's own steps are taken within a context that has it to give back.
LEMMA StepsOfMode ==
  ASSUME SysInv, op # "none", pc \in ModeSteps
  PROVE  /\ op # "StripSystemApps" => ~Nothing
         /\ Under => loc.kind = "user" /\ Len(frames) = 1
         /\ op = "StripSystemApps" => loc.kind = "strip" /\ Len(frames) = 0
<1>1. \/ loc.kind = "strip" /\ Len(frames) = 0 /\ pc # "SetProp"
      \/ loc.kind = "user" /\ Len(frames) = 1 /\ Under /\ frames[1].undo
      \/ loc.kind = "modify" /\ InMove /\ frames[Place + 1].undo
  BY DEF SysInv, Where
<1>2. Len(frames) \in Nat /\ Place \in {1, 2}
  BY SysPlace
<1>3. loc.kind = "strip" => op = "StripSystemApps"
  BY DEF SysInv, OfMethod, SysType, SystemCalls, ModeSteps
<1>4. loc.kind = "user" => Undoes(1) /\ Len(frames) = 1
  BY <1>1 DEF Undoes, Under
<1>5. loc.kind = "modify" => InMove /\ Undoes(Place + 1) /\ Len(frames) = Place + 1
  BY <1>1 DEF Undoes, InMove
<1>6. loc.kind = "modify" => ~Under
  BY <1>2, <1>5 DEF SysInv, Saved, Caller, InMove
<1>7. op # "StripSystemApps" => ~Nothing
  BY <1>1, <1>2, <1>3, <1>4, <1>5 DEF Nothing
<1>8. op = "StripSystemApps" => loc.kind = "strip" /\ Len(frames) = 0
  BY DEF SysInv, OfMethod
<1>9. Under => loc.kind = "user"
  <2>1. Len(frames) = 0 => ~Under
    BY DEF Under
  <2> QED BY <1>1, <1>6, <2>1
<1> QED BY <1>4, <1>7, <1>8, <1>9

\* A command that fails leads out of the contexts there are.
LEMMA FailSaved ==
  ASSUME SysInv, op # "none", op' = op, first' = first, frames' = frames,
         pc' = "unwind", wrong' = wrong \cup {pc}, pc # "LeaveModify", Unharmed
  PROVE  Saved'
<1>1. /\ (Under' <=> Under) /\ Place' = Place /\ (Nothing' <=> Nothing)
      /\ \A i : Undoes(i)' <=> Undoes(i)
  BY SameFrames
<1>2. Back'
  <2>1. SUFFICES ASSUME op # "StripSystemApps", Nothing
                 PROVE  /\ Given' => (rw' => first.rw) /\ (stopped' => first.stopped)
                        /\ Rooted' => root' = first.root
    BY <1>1 DEF Back
  <2>2. pc \notin ModeSteps
    BY <2>1, StepsOfMode
  <2> QED BY <2>1, <2>2, OneWrong DEF Unharmed, SysInv, Saved, Back
<1>3. Knows'
  BY <1>1, OneWrong DEF SysInv, Saved, Knows
<1>4. RunsAgain'
  <2>1. SUFFICES ASSUME Ran', op = "StripSystemApps", stopped' PROVE first.stopped
    BY DEF RunsAgain
  <2>2. pc \in BeforeStop
    BY <2>1, OneWrong DEF SysInv, OfMethod, Where, BeforeStop, ModeSteps
  <2> QED BY <2>1, <2>2, OneWrong DEF Unharmed, SysInv, Saved, RunsAgain
<1>5. Caller'
  <2>1. InUse' => prop'
    <3>1. SUFFICES ASSUME Under, Len(frames) # 1 PROVE prop'
      BY <1>1 DEF InUse
    <3>2. pc \notin ModeSteps
      BY <3>1, StepsOfMode
    <3>3. prop' = prop
      BY <3>2 DEF Unharmed
    <3>4. prop
      BY <3>1, <3>2 DEF SysInv, Saved, Caller, InUse
    <3> QED BY <3>3, <3>4
  <2> QED BY <1>1, <2>1 DEF SysInv, Saved, Caller
<1>6. Replacement'
  BY <1>1, OneWrong DEF Unharmed, SysInv, Saved, Replacement
<1> QED BY <1>2, <1>3, <1>4, <1>5, <1>6 DEF Saved

LEMMA FailKeepsSys ==
  ASSUME SysInv, op # "none", op' = op, last' = last, first' = first, frames' = frames,
         pc' = "unwind", wrong' = wrong \cup {pc}, raised' = TRUE,
         pc \notin {"LeaveModify", "unwind", "body"}, Flags', prop' => rw' /\ root', Unharmed
  PROVE  SysInv'
<1>1. SysType'
  BY DEF SysInv, SysType, SysSteps, Flags, Unharmed
<1>2. Shape' /\ Where'
  BY SameFrames DEF SysInv, Where, ModeEntry, ModeSteps
<1>3. OfMethod'
  BY SameFrames DEF SysInv, OfMethod, ModeEntry, ModeSteps
<1>4. Mode' /\ Saved'
  BY FailSaved DEF Mode, ModeSteps
<1>5. Place \in {1, 2} /\ Len(frames) \in Nat /\ Place' = Place /\ (Apart' <=> Apart)
  BY SysPlace, SameFrames
<1>6. Files'
  <2>1. ~Moving' /\ (InMove => ~Apart /\ Len(frames) >= Place)
    BY <1>5 DEF Moving, ToMode, InMove, Apart, ModeEntry, ModeSteps
  <2> QED BY <1>5, <2>1 DEF SysInv, Files, System!Ended, Unharmed
<1>7. Kept'
  <2>1. SUFFICES ASSUME Held', Replacing' PROVE Kept'
    BY DEF Kept
  <2>2. Held /\ Replacing /\ pc \in {"ReplaceSystemApp", "FindPaths", "NoMove", "Install", "EnableSystemAppModification"}
    BY <2>1, OneWrong DEF Replacing, SysInv, SysType, SystemCalls, SysSteps, OfMethod
  <2>3. sysApp' = sysApp
    BY <2>2 DEF Unharmed, Replacing
  <2>4. ~Apart => sysApp = first.app
    <3>1. CASE pc \in {"FindPaths", "NoMove"}
      BY <2>2, <3>1 DEF SysInv, Kept, Idling
    <3>2. CASE pc \in {"ReplaceSystemApp", "EnableSystemAppModification"}
      <4>1. Len(frames) < Place
        BY <1>5, <3>2 DEF SysInv, Where
      <4> QED BY <1>5, <2>2, <4>1 DEF SysInv, Kept, Files, Stored
    <3>3. CASE pc = "Install"
      BY <1>5, <3>3 DEF SysInv, Where, Apart
    <3> QED BY <2>2, <3>1, <3>2, <3>3
  <2> QED BY <1>5, <2>2, <2>3, <2>4 DEF SysInv, Kept, Replacing, Stored, Moving, Idling, ToMode,
        ModeEntry, ModeSteps
<1> QED BY <1>1, <1>2, <1>3, <1>4, <1>6, <1>7, InCallSys

LEMMA FailsKeepsSys ==
  ASSUME SysInv, op # "none", System!Fails, first' = first, frames' = frames,
         pc \notin {"LeaveModify", "unwind", "body"}, Flags', prop' => rw' /\ root', Unharmed
  PROVE  SysInv'
<1>1. op' = op /\ last' = last /\ pc' = "unwind" /\ wrong' = wrong \cup {pc} /\ raised' = TRUE
  BY DEF System!Fails, System!Goto, System!GotoWith
<1> QED BY <1>1, FailKeepsSys

\* Other steps leave the mode and what the contexts know of it as it is.
LEMMA SavedStays ==
  ASSUME SysInv, op # "none", op' = op, op # "StripSystemApps", first' = first, wrong' = wrong,
         UNCHANGED <<root, rw, stopped>>,
         Nothing' => Nothing, Under' => Under \/ Len(frames) = 0,
         \A i \in 1 .. Len(frames') : Undoes(i)' => /\ i \in 1 .. Len(frames) /\ Undoes(i)
                                                   /\ frames'[i] = frames[i],
         pc' = "EnableRoot" => ~prop', InUse' => prop',
         Own /\ Len(frames') # Place' + 2 => (replaced' => first.replaced)
  PROVE  Saved'
<1>1. /\ (Given' <=> Given) /\ (Rooted' <=> Rooted) /\ (Own' <=> Own)
  BY SameWrong
<1>2. Back'
  BY <1>1 DEF SysInv, Saved, Back
<1>3. Knows'
  BY <1>1 DEF SysInv, Saved, Knows
<1>4. RunsAgain' /\ Replacement'
  BY <1>1 DEF RunsAgain, Replacement
<1>5. Caller'
  <2>1. \A i \in 1 .. Len(frames') : Undoes(i)' /\ frames'[i].kind = "modify" => ~Under'
    BY DEF SysInv, Saved, Caller
  <2> QED BY <2>1 DEF Caller
<1> QED BY <1>2, <1>3, <1>4, <1>5 DEF Saved

\* The steps to the mode.
LEMMA ModeStepsKeepSys ==
  SysInv /\ (System!DisableVerity \/ System!RootAgain \/ System!Remount \/ System!StopFramework
              \/ System!SetProp) => SysInv'
<1> SUFFICES ASSUME SysInv,
                    System!DisableVerity \/ System!RootAgain \/ System!Remount
                      \/ System!StopFramework \/ System!SetProp
             PROVE  SysInv'
  OBVIOUS
<1>1. /\ pc \in ModeSteps /\ op # "none" /\ UNCHANGED <<sysApp, store, replaced, frames, first>>
  BY DEF System!DisableVerity, System!RootAgain, System!Remount, System!StopFramework,
         System!SetProp, System!At, SysInv, SysType, ModeSteps
<1>2. Flags /\ raised \in BOOLEAN /\ (prop => rw /\ root)
      /\ (pc \in {"DisableVerity", "Remount", "StopFramework", "SetProp"} => root)
      /\ (pc \in {"StopFramework", "SetProp"} => rw)
  BY DEF SysInv, SysType, Mode, Flags
<1>3. /\ Flags'
      /\ prop' => rw' /\ root'
      /\ pc # "StopFramework" => (stopped' => stopped)
  <2>1. CASE System!DisableVerity
    BY <1>1, <1>2, <2>1 DEF System!DisableVerity, System!Do, System!Restart, System!At, Flags
  <2>2. CASE System!RootAgain
    BY <1>1, <1>2, <2>2 DEF System!RootAgain, System!Do, System!Restart, System!At, Flags
  <2>3. CASE System!Remount
    BY <1>1, <1>2, <2>3 DEF System!Remount, System!Do, System!Restart, System!At, Flags
  <2>4. CASE System!StopFramework
    BY <1>1, <1>2, <2>4 DEF System!StopFramework, System!Do, System!Restart, System!At, Flags
  <2>5. CASE System!SetProp
    BY <1>1, <1>2, <2>5 DEF System!SetProp, System!Do, System!Restart, System!At, Flags
  <2> QED BY <2>1, <2>2, <2>3, <2>4, <2>5
<1>4. \/ System!Fails
      \/ /\ System!To("RootAgain") /\ pc = "DisableVerity"
      \/ /\ System!To("Remount") /\ root' /\ pc # "StopFramework"
      \/ /\ System!To("StopFramework") /\ root' /\ rw' /\ pc # "StopFramework"
      \/ /\ pc = "StopFramework" /\ root' /\ rw'
         /\ System!To(IF loc.kind = "strip" THEN "StripPath" ELSE "SetProp")
      \/ /\ pc = "SetProp" /\ System!To(loc.then) /\ prop'
  BY <1>1, <1>2 DEF System!DisableVerity, System!RootAgain, System!Remount,
     System!StopFramework,
         System!SetProp, System!Do, System!At, System!Restart, System!Then
<1>5. ASSUME \/ System!To("RootAgain") /\ pc # "StopFramework"
             \/ System!To("Remount") /\ root' /\ pc # "StopFramework"
             \/ System!To("StopFramework") /\ root' /\ rw' /\ pc # "StopFramework"
             \/ loc.kind # "strip" /\ System!To("SetProp") /\ root' /\ rw'
      PROVE  SysInv'
  <2>1. /\ op' = op /\ last' = last /\ pc' \in ModeSteps /\ loc' = loc /\ UNCHANGED <<raised, wrong>>
        /\ pc' # "DisableVerity" /\ (pc' \in {"Remount", "StopFramework", "SetProp"} => root')
        /\ pc' \in {"StopFramework", "SetProp"} => rw'
        /\ pc' = "SetProp" => loc.kind # "strip"
        /\ pc = "StopFramework" => loc.kind # "strip"
    BY <1>5 DEF System!To, System!Goto, System!GotoWith, ModeSteps
  <2>2. SysType'
    BY <1>1, <1>2, <1>3, <2>1 DEF SysInv, SysType, SysSteps, ModeSteps, Flags
  <2>3. Shape' /\ Where'
    <3>1. /\ Shape' /\ Place' = Place /\ (Under' <=> Under) /\ (InMove' <=> InMove)
      BY <1>1, SameFrames DEF SysInv
    <3> QED BY <1>1, <1>5, <2>1, <3>1 DEF SysInv, Where, ModeEntry, ModeSteps
  <2>4. OfMethod'
    BY <1>1, <2>1, SameFrames DEF SysInv, OfMethod, ModeEntry, ModeSteps
  <2>5. Mode'
    BY <1>3, <2>1 DEF Mode
  <2>6. (Moving' <=> Moving) /\ (Idling' <=> Idling)
    BY <1>1, <2>1 DEF Moving, Idling, ToMode, ModeEntry, ModeSteps
  <2>7. Files'
    BY <1>1, <2>1, <2>6, SameFrames DEF SysInv, Files, System!Ended
  <2>8. Kept'
    BY <1>1, <2>1, <2>6, SameFrames, SameWrong DEF SysInv, Kept, Replacing, Stored, ModeSteps
  <2>9. Saved'
    <3>1. /\ (Nothing' <=> Nothing) /\ (Under' <=> Under) /\ Place' = Place
          /\ \A i : Undoes(i)' <=> Undoes(i)
      BY <1>1, SameFrames
    <3>2. /\ op # "StripSystemApps" => ~Nothing
          /\ Under => loc.kind = "user"
          /\ op = "StripSystemApps" => loc.kind = "strip"
      BY <1>1, StepsOfMode
    <3>3. Back' /\ ~InUse'
      BY <2>1, <3>1, <3>2 DEF Back, InUse
    <3>4. Knows'
      BY <1>1, <2>1, <3>1, SameWrong DEF SysInv, Saved, Knows
    <3>5. RunsAgain'
      <4>1. SUFFICES ASSUME Ran', op = "StripSystemApps" PROVE stopped' => first'.stopped
        BY <2>1 DEF RunsAgain
      <4>2. pc \in BeforeStop /\ Ran
        BY <1>1, <2>1, <3>2, <4>1, SameWrong DEF SysInv, Where, BeforeStop, ModeSteps
      <4>3. stopped' => stopped
        BY <1>3, <2>1, <3>2, <4>1
      <4>4. stopped => first.stopped
        BY <4>1, <4>2 DEF SysInv, Saved, RunsAgain
      <4> QED BY <1>1, <4>3, <4>4
    <3>6. Caller'
      BY <1>1, <2>1, <3>1, <3>3 DEF SysInv, Saved, Caller, ModeSteps
    <3>7. Replacement'
      BY <1>1, <2>1, <3>1, SameWrong DEF SysInv, Saved, Replacement
    <3> QED BY <3>3, <3>4, <3>5, <3>6, <3>7 DEF Saved
  <2> QED BY <1>1, <2>1, <2>2, <2>3, <2>4, <2>5, <2>7, <2>8, <2>9, InCallSys
<1>6. ASSUME pc = "StopFramework", loc.kind = "strip", System!To("StripPath"), root', rw'
      PROVE  SysInv'
  <2>1. /\ op' = op /\ last' = last /\ pc' = "StripPath" /\ UNCHANGED <<raised, wrong>>
        /\ op = "StripSystemApps" /\ Len(frames) = 0
    BY <1>1, <1>6 DEF System!To, System!Goto, System!GotoWith, SysInv, OfMethod, Where,
       ModeSteps,
       SysType, SystemCalls
  <2>2. SysType'
    BY <1>1, <1>2, <1>3, <2>1 DEF SysInv, SysType, SysSteps, ModeSteps, Flags
  <2>3. Shape' /\ Where' /\ OfMethod'
    BY <1>1, <2>1, SameFrames DEF SysInv, Where, OfMethod, ModeEntry, ModeSteps
  <2>4. Mode' /\ Kept'
    BY <1>3, <2>1 DEF Mode, Kept, Replacing
  <2>5. Files'
    BY <1>1, <1>6, <2>1, SameFrames DEF SysInv, Files, Moving, ToMode, ModeEntry, ModeSteps,
       System!Ended
  <2>6. Saved'
    <3>1. Knows' /\ Replacement'
      BY <1>1, <2>1, SameFrames, SameWrong DEF SysInv, Saved, Knows, Replacement
    <3>2. Caller'
      BY <1>1, <2>1, SameFrames DEF SysInv, Saved, Caller, InUse, Under
    <3>3. Back' /\ RunsAgain'
      BY <2>1 DEF Back, RunsAgain, BeforeStop
    <3> QED BY <3>1, <3>2, <3>3 DEF Saved
  <2> QED BY <1>1, <2>1, <2>2, <2>3, <2>4, <2>5, <2>6, InCallSys
<1>7. ASSUME pc = "SetProp", System!To(loc.then), prop'
      PROVE  SysInv'
  <2>1. /\ op' = op /\ last' = last /\ pc' = loc.then /\ UNCHANGED <<raised, wrong>> /\ loc' = loc
        /\ root' = root /\ rw' = rw /\ stopped' = stopped
    BY <1>1, <1>7 DEF System!To, System!Goto, System!GotoWith, System!SetProp,
       System!DisableVerity,
       System!RootAgain, System!Remount, System!StopFramework, System!At, System!Do
  <2>2. \/ /\ op = "RemoveSystemApps" /\ loc.kind = "user" /\ pc' = "RemovePath"
           /\ Len(frames) = 1 /\ Under
        \/ /\ Replacing /\ loc.kind = "user" /\ pc' = "ReplaceSystemApp" /\ Len(frames) = 1 /\ Under
        \/ /\ Replacing /\ loc.kind = "modify" /\ pc' \in {"Move", "NoMove"} /\ InMove
    BY <1>1, <1>7, <2>1 DEF SysInv, OfMethod, Where, SysType, SystemCalls, Replacing, ModeSteps
  <2>3. /\ (Under' <=> Under) /\ Place' = Place /\ (InMove' <=> InMove) /\ (Apart' <=> Apart)
        /\ Shape' /\ (Nothing' <=> Nothing) /\ \A i : Undoes(i)' <=> Undoes(i)
    BY <1>1, SameFrames DEF SysInv
  <2>4. SysType'
    BY <1>1, <1>2, <1>3, <2>1, <2>2 DEF SysInv, SysType, SysSteps, SystemCalls, Flags
  <2>5. Where' /\ OfMethod'
    <3>1. frames' = frames /\ op' = op
      BY <1>1, <2>1
    <3>2. Where'
      <4>1. Under => Place = 2
        BY DEF Place
      <4>2. Len(frames) = 1 /\ Under => Len(frames) = Place - 1
        BY <4>1
      <4>3. Place' - 1 = Place - 1 /\ Len(frames') = Len(frames)
        BY <2>3, <3>1
      <4> QED BY <2>2, <2>3, <4>2, <4>3 DEF Where, ModeEntry, ModeSteps
    <3>3. OfMethod'
      BY <2>2, <2>3, <3>1 DEF OfMethod, ModeEntry, ModeSteps, Replacing
    <3> QED BY <3>2, <3>3
  <2>6. Mode'
    BY <1>3, <2>2 DEF Mode
  <2>7. (Moving' => Moving) /\ (Idling' => Idling)
        /\ (Moving => Moving' \/ pc' = "ReplaceSystemApp") /\ (Idling => Idling')
    BY <1>1, <1>7, <2>1, <2>2 DEF Moving, Idling, ToMode, ModeEntry, ModeSteps
  <2>8. Files'
    BY <1>1, <2>1, <2>3, <2>7 DEF SysInv, Files, System!Ended
  <2>9. Kept'
    <3>1. ~(Moving \/ Idling) /\ Held /\ Replacing => ~raised
      BY <1>7 DEF SysInv, Kept
    <3>2. Moving /\ ~Moving' => FALSE
      BY <1>7, <2>1, <2>2, <2>7 DEF Moving, ToMode, ModeEntry, ModeSteps
    <3> QED BY <1>1, <1>7, <2>1, <2>2, <2>3, <2>7, <3>1, <3>2, SameWrong DEF SysInv, Kept, Replacing, Stored
  <2>10. Saved'
    BY <1>1, <1>7, <2>1, <2>2, <2>3, SavedStays DEF SysInv, Saved, Replacement, Replacing
  <2> QED BY <1>1, <2>1, <2>3, <2>4, <2>5, <2>6, <2>8, <2>9, <2>10, InCallSys
<1>8. CASE System!Fails
  <2>1. Unharmed
    BY <1>1, <1>3 DEF Unharmed
  <2> QED BY <1>1, <1>3, <1>8, <2>1, FailsKeepsSys DEF ModeSteps
<1> QED BY <1>4, <1>5, <1>6, <1>7, <1>8

\* Where a context may be entered.
LEMMA EnteredShape ==
  ASSUME SysInv, NEW f \in Contexts, System!Push(f),
         \/ Len(frames) = 0 /\ f.kind = "user"
         \/ Len(frames) = Place - 1 /\ f.kind = "storage"
         \/ Len(frames) = Place /\ f.kind \in {"modify", "relocate"}
         \/ Len(frames) = Place + 1 /\ frames[Place + 1].kind = "relocate" /\ f.kind = "install"
  PROVE  /\ Shape' /\ frames' \in Seq(Contexts) /\ Len(frames') = Len(frames) + 1
         /\ Place' = (IF f.kind = "user" THEN 2 ELSE Place)
         /\ (Under' <=> Under \/ f.kind = "user")
         /\ frames'[Len(frames) + 1] = f
         /\ \A i \in 1 .. Len(frames) : frames'[i] = frames[i] /\ (Undoes(i)' <=> Undoes(i))
         /\ \A i : i = Len(frames) + 1 => (Undoes(i)' <=> f.kind \in {"user", "modify"} /\ f.undo)
<1>1. frames \in Seq(Contexts) /\ Len(frames) \in Nat /\ Place \in {1, 2} /\ Shape
  BY SysPlace DEF SysInv, SysType
<1>2. /\ frames' \in Seq(Contexts) /\ Len(frames') = Len(frames) + 1
      /\ \A i \in 1 .. Len(frames) : frames'[i] = frames[i] /\ (Undoes(i)' <=> Undoes(i))
      /\ frames'[Len(frames) + 1] = f
      /\ (Under' <=> Under \/ (Len(frames) = 0 /\ f.kind = "user"))
      /\ Place' = IF Under' THEN 2 ELSE 1
  BY <1>1, PushedFrames
<1>3. f.kind = "user" => Len(frames) = 0
  OBVIOUS
<1>4. /\ (Under' <=> Under \/ f.kind = "user")
      /\ Place' = (IF f.kind = "user" THEN 2 ELSE Place)
  BY <1>2, <1>3 DEF Place
<1>5. Shape'
  <2>1. CASE f.kind = "user"
    BY <1>2, <1>3, <1>4, <2>1 DEF Shape
  <2>2. CASE f.kind # "user"
    <3>1. /\ Place' = Place
          /\ Len(frames') \in {Place, Place + 1, Place + 2}
      BY <1>1, <1>2, <1>4, <2>2
    <3>2. CASE Len(frames) = Place - 1
      BY <1>1, <1>2, <3>1, <3>2, <2>2 DEF Shape
    <3>3. CASE Len(frames) = Place
      BY <1>1, <1>2, <3>1, <3>3, <2>2 DEF Shape
    <3>4. CASE Len(frames) = Place + 1
      BY <1>1, <1>2, <3>1, <3>4, <2>2 DEF Shape
    <3> QED BY <2>2, <3>2, <3>3, <3>4
  <2> QED BY <2>1, <2>2
<1>6. \A i : i = Len(frames) + 1 => (Undoes(i)' <=> f.kind \in {"user", "modify"} /\ f.undo)
  BY <1>1, <1>2 DEF Undoes
<1> QED BY <1>2, <1>4, <1>5, <1>6

\* An entry that finds the mode on changes nothing, and its context gives nothing back.
LEMMA EntryKeepsSys == SysInv /\ System!GetProp => SysInv'
<1> SUFFICES ASSUME SysInv, System!GetProp PROVE SysInv'
  OBVIOUS
<1>1. /\ pc = "GetProp" /\ op # "none" /\ UNCHANGED <<sysApp, store, replaced, root, prop, rw, stopped, first>>
      /\ \/ prop /\ System!Push(System!Frame(loc.kind, FALSE, root)) /\ System!To(loc.then)
         \/ ~prop /\ System!To("EnableRoot") /\ UNCHANGED frames
         \/ System!Fails /\ UNCHANGED frames
  BY DEF System!GetProp, System!At, System!device, System!Then, SysInv, SysType
<1>2. Flags /\ raised \in BOOLEAN /\ (prop => rw /\ root)
  BY DEF SysInv, SysType, Mode, Flags
<1>3. Flags' /\ (prop' => rw' /\ root') /\ sysApp' = sysApp
  BY <1>1, <1>2 DEF Flags
<1>4. /\ Replacing \/ op = "RemoveSystemApps"
      /\ \/ loc.kind = "user" /\ Len(frames) = 0
         \/ loc.kind = "modify" /\ Len(frames) = Place
      /\ op = "RemoveSystemApps" => loc.kind = "user" /\ loc.then = "RemovePath"
      /\ Replacing => \/ loc.kind = "user" /\ loc.then = "ReplaceSystemApp"
                      \/ loc.kind = "modify" /\ loc.then \in {"Move", "NoMove"}
  BY <1>1 DEF SysInv, SysType, SystemCalls, Replacing, Where, OfMethod, ModeEntry, ModeSteps
<1>5. ASSUME prop, System!Push(System!Frame(loc.kind, FALSE, root)), System!To(loc.then)
      PROVE  SysInv'
  <2> DEFINE f == System!Frame(loc.kind, FALSE, root)
  <2>1. f \in Contexts /\ f.kind = loc.kind /\ f.undo = FALSE /\ f.root = root
    BY <1>2, <1>4 DEF System!Frame, Contexts, Kinds, Flags
  <2>2. /\ op' = op /\ last' = last /\ pc' = loc.then /\ loc' = loc /\ UNCHANGED <<raised, wrong>>
    BY <1>5 DEF System!To, System!Goto, System!GotoWith
  <2>3. Len(frames) \in Nat /\ Place \in {1, 2}
    BY SysPlace
  <2>4. System!Push(f)
    BY <1>5
  <2> HIDE DEF f
  <2>5. /\ Shape' /\ frames' \in Seq(Contexts) /\ Len(frames') = Len(frames) + 1
        /\ Place' = (IF f.kind = "user" THEN 2 ELSE Place)
        /\ (Under' <=> Under \/ f.kind = "user")
        /\ frames'[Len(frames) + 1] = f
        /\ \A i \in 1 .. Len(frames) : frames'[i] = frames[i] /\ (Undoes(i)' <=> Undoes(i))
        /\ \A i : i = Len(frames) + 1 => (Undoes(i)' <=> f.kind \in {"user", "modify"} /\ f.undo)
    BY <1>4, <2>1, <2>4, EnteredShape
  <2>6. SysType'
    BY <1>1, <1>2, <1>4, <2>2, <2>5 DEF SysInv, SysType, SysSteps, SystemCalls, Flags
  <2>7. loc.kind = "modify" => InMove'
    BY <1>4, <2>1, <2>3, <2>5 DEF InMove
  <2>8. Where'
    BY <1>4, <2>1, <2>2, <2>3, <2>5, <2>7 DEF Where, ModeEntry, ModeSteps
  <2>9. OfMethod'
    BY <1>4, <2>1, <2>2, <2>3, <2>5 DEF OfMethod, Replacing, ModeEntry, ModeSteps
  <2>10. Mode'
    BY <1>3, <1>4, <2>2 DEF Mode
  <2>11. ~Apart /\ ~Apart'
    BY <1>4, <2>1, <2>3, <2>5, <2>7 DEF Apart, InMove
  <2>12. Files' /\ Kept'
    BY <1>1, <1>4, <2>1, <2>2, <2>3, <2>5, <2>11, SameWrong DEF SysInv, Files, Kept, Replacing, Stored,
       Moving, Idling, ToMode, ModeEntry, ModeSteps, System!Ended
  <2>13. Saved'
    <3>1. Nothing' => Nothing
      BY <2>3, <2>5 DEF Nothing
    <3>2. \A i \in 1 .. Len(frames') : Undoes(i)' => i \in 1 .. Len(frames) /\ Undoes(i)
      BY <2>1, <2>3, <2>5
    <3>3. Own /\ Len(frames') # Place' + 2 => (replaced' => first.replaced)
      <4>1. Len(frames) # Place + 2
        BY <1>4, <2>3
      <4> QED BY <1>1, <4>1 DEF SysInv, Saved, Replacement
    <3>4. prop' /\ pc' # "EnableRoot" /\ op # "StripSystemApps" /\ (Under' => Under \/ Len(frames) = 0)
      BY <1>1, <1>4, <1>5, <2>1, <2>2, <2>5 DEF Replacing
    <3> QED BY <1>1, <2>2, <2>5, <3>1, <3>2, <3>3, <3>4, SavedStays
  <2> QED BY <1>1, <2>2, <2>5, <2>6, <2>8, <2>9, <2>10, <2>12, <2>13, InCallSys
<1>6. ASSUME ~prop, System!To("EnableRoot"), UNCHANGED frames
      PROVE  SysInv'
  <2>1. /\ op' = op /\ last' = last /\ pc' = "EnableRoot" /\ loc' = loc /\ UNCHANGED <<raised, wrong>>
    BY <1>6 DEF System!To, System!Goto, System!GotoWith
  <2>2. /\ (Under' <=> Under) /\ Place' = Place /\ (InMove' <=> InMove) /\ (Apart' <=> Apart)
        /\ Shape' /\ \A i : Undoes(i)' <=> Undoes(i)
    BY <1>6, SameFrames DEF SysInv
  <2>3. SysType'
    BY <1>1, <1>2, <1>6, <2>1 DEF SysInv, SysType, SysSteps, ModeEntry, Flags
  <2>4. Where'
    BY <1>4, <1>6, <2>1, <2>2 DEF Where, ModeEntry, ModeSteps
  <2>5. OfMethod'
    BY <1>4, <1>6, <2>1, <2>2 DEF OfMethod, Replacing, ModeEntry, ModeSteps
  <2>6. Mode' /\ Files' /\ Kept'
    BY <1>1, <1>3, <1>6, <2>1, <2>2, SameWrong DEF SysInv, Mode, Files, Kept, Replacing, Stored, Moving, Idling,
       ToMode, ModeEntry, ModeSteps, System!Ended
  <2>7. Saved'
    <3>1. Nothing' => Nothing
      BY <1>6, SameFrames
    <3>2. Own /\ Len(frames') # Place' + 2 => (replaced' => first.replaced)
      BY <1>1, <1>6, <2>2 DEF SysInv, Saved, Replacement
    <3>3. InUse' => prop'
      BY <1>1, <1>6, <2>1, <2>2 DEF SysInv, Saved, Caller, InUse, ModeSteps
    <3>4. ~prop' /\ op # "StripSystemApps"
      BY <1>1, <1>4, <1>6 DEF Replacing
    <3> QED BY <1>1, <1>6, <2>1, <2>2, <3>1, <3>2, <3>3, <3>4, SavedStays
  <2> QED BY <1>1, <2>1, <2>2, <2>3, <2>4, <2>5, <2>6, <2>7, InCallSys
<1>7. ASSUME System!Fails, UNCHANGED frames PROVE SysInv'
  <2>1. Unharmed
    BY <1>1 DEF Unharmed
  <2> QED BY <1>1, <1>3, <1>7, <2>1, FailsKeepsSys
<1> QED BY <1>1, <1>5, <1>6, <1>7

LEMMA RootKeepsSys == SysInv /\ System!EnableRoot => SysInv'
<1> SUFFICES ASSUME SysInv, System!EnableRoot PROVE SysInv'
  OBVIOUS
<1>1. /\ pc = "EnableRoot" /\ op # "none"
      /\ UNCHANGED <<sysApp, store, replaced, prop, rw, stopped, first>>
      /\ \/ root' = TRUE /\ System!Push(System!Frame(loc.kind, TRUE, root)) /\ System!To("DisableVerity")
         \/ root' \in {root, TRUE} /\ System!Fails /\ UNCHANGED frames
  BY DEF System!EnableRoot, System!At, SysInv, SysType
<1>2. Flags /\ raised \in BOOLEAN /\ (prop => rw /\ root)
  BY DEF SysInv, SysType, Mode, Flags
<1>3. root' \in {root, TRUE} /\ Flags' /\ (prop' => rw' /\ root') /\ sysApp' = sysApp
  BY <1>1, <1>2 DEF Flags
<1>4. /\ Replacing \/ op = "RemoveSystemApps"
      /\ \/ loc.kind = "user" /\ Len(frames) = 0
         \/ loc.kind = "modify" /\ Len(frames) = Place
      /\ op = "RemoveSystemApps" => loc.kind = "user" /\ loc.then = "RemovePath"
      /\ Replacing => \/ loc.kind = "user" /\ loc.then = "ReplaceSystemApp"
                      \/ loc.kind = "modify" /\ loc.then \in {"Move", "NoMove"}

  BY <1>1 DEF SysInv, SysType, SystemCalls, Replacing, Where, OfMethod, ModeEntry, ModeSteps
<1>5. ASSUME root' = TRUE, System!Push(System!Frame(loc.kind, TRUE, root)), System!To("DisableVerity")
      PROVE  SysInv'
  <2> DEFINE f == System!Frame(loc.kind, TRUE, root)
  <2>1. f \in Contexts /\ f.kind = loc.kind /\ f.undo = TRUE /\ f.root = root
    BY <1>2, <1>4 DEF System!Frame, Contexts, Kinds, Flags
  <2>2. /\ op' = op /\ last' = last /\ pc' = "DisableVerity" /\ loc' = loc /\ UNCHANGED <<raised, wrong>>
    BY <1>5 DEF System!To, System!Goto, System!GotoWith
  <2>3. Len(frames) \in Nat /\ Place \in {1, 2}
    BY SysPlace
  <2>4. System!Push(f)
    BY <1>5
  <2> HIDE DEF f
  <2>5. /\ Shape' /\ frames' \in Seq(Contexts) /\ Len(frames') = Len(frames) + 1
        /\ Place' = (IF f.kind = "user" THEN 2 ELSE Place)
        /\ (Under' <=> Under \/ f.kind = "user")
        /\ frames'[Len(frames) + 1] = f
        /\ \A i \in 1 .. Len(frames) : frames'[i] = frames[i] /\ (Undoes(i)' <=> Undoes(i))
        /\ \A i : i = Len(frames) + 1 => (Undoes(i)' <=> f.kind \in {"user", "modify"} /\ f.undo)
    BY <1>4, <2>1, <2>4, EnteredShape
  <2>6. SysType'
    BY <1>1, <1>2, <1>3, <1>4, <2>2, <2>5 DEF SysInv, SysType, SysSteps, ModeSteps,
       SystemCalls, Flags
  <2>7. loc.kind = "modify" => InMove'
    BY <1>4, <2>1, <2>3, <2>5 DEF InMove
  <2>8. Where'
    BY <1>4, <2>1, <2>2, <2>3, <2>5, <2>7 DEF Where, ModeEntry, ModeSteps
  <2>9. OfMethod'
    BY <1>4, <2>1, <2>2, <2>3, <2>5 DEF OfMethod, Replacing, ModeEntry, ModeSteps
  <2>10. Mode'
    BY <1>3, <1>5, <2>2 DEF Mode
  <2>11. ~Apart /\ ~Apart'
    BY <1>4, <2>1, <2>3, <2>5, <2>7 DEF Apart, InMove
  <2>12. Files' /\ Kept'
    BY <1>1, <1>4, <1>5, <2>1, <2>2, <2>3, <2>5, <2>11, SameWrong DEF SysInv, Files, Kept,
       Replacing, Stored, Moving, Idling, ToMode,

       ModeEntry, ModeSteps, System!Ended
  <2>13. ~Under /\ Nothing /\ Place = 1
    <3>1. ~Under
      <4>1. CASE Len(frames) = 0
        BY <4>1 DEF Under
      <4>2. CASE Len(frames) = Place
        <5>1. ~prop
          BY <1>1 DEF SysInv, Saved, Caller
        <5>2. Under => Len(frames) # 1
          BY <4>2 DEF Place
        <5> QED BY <1>1, <5>1, <5>2 DEF SysInv, Saved, Caller, InUse, ModeSteps
      <4> QED BY <1>4, <4>1, <4>2
    <3>2. Place = 1
      BY <3>1 DEF Place
    <3>3. Nothing
      <4>1. CASE Len(frames) = 0
        BY <4>1 DEF Nothing
      <4>2. CASE Len(frames) = Place
        BY <4>2, <3>2 DEF SysInv, Shape, Undoes, Nothing
      <4> QED BY <1>4, <4>1, <4>2
    <3> QED BY <3>1, <3>2, <3>3
  <2>14. \A i \in 1 .. Len(frames') : Undoes(i)' => i = Len(frames) + 1
    BY <2>3, <2>5, <2>13 DEF Nothing
  <2>15. Back' /\ RunsAgain'
    <3>1. ~Nothing'
      BY <1>4, <2>1, <2>3, <2>5 DEF Nothing
    <3> QED BY <1>4, <2>2, <3>1 DEF Back, RunsAgain, Replacing
  <2>16. Knows'
    <3>1. SUFFICES ASSUME Rooted' PROVE root = first.root
      BY <1>1, <2>1, <2>5, <2>14 DEF Knows
    <3>2. Rooted /\ op \notin {"none", "StripSystemApps"}
      BY <1>1, <1>4, <2>2, <3>1, SameWrong DEF Replacing
    <3> QED BY <2>13, <3>2 DEF SysInv, Saved, Back
  <2>17. Caller'
    <3>1. Under' => loc'.kind = "user"
      BY <2>1, <2>2, <2>5, <2>13
    <3>2. ~InUse'
      BY <2>2, <3>1 DEF InUse, ModeSteps
    <3>3. \A i \in 1 .. Len(frames') : Undoes(i)' /\ frames'[i].kind = "modify" => ~Under'
      BY <2>1, <2>5, <2>13, <2>14
    <3> QED BY <2>2, <3>2, <3>3 DEF Caller
  <2>18. Replacement'
    <3>1. Len(frames) # Place + 2
      BY <1>4, <2>3
    <3> QED BY <1>1, <2>2, <3>1, SameWrong DEF SysInv, Saved, Replacement
  <2>19. Saved'
    BY <2>15, <2>16, <2>17, <2>18 DEF Saved
  <2> QED BY <1>1, <2>2, <2>5, <2>6, <2>8, <2>9, <2>10, <2>12, <2>19, InCallSys
<1>6. ASSUME System!Fails, UNCHANGED frames PROVE SysInv'
  <2>1. Unharmed
    BY <1>1, <1>3 DEF Unharmed
  <2> QED BY <1>1, <1>3, <1>6, <2>1, FailsKeepsSys

<1> QED BY <1>1, <1>5, <1>6

\* Where a context may be left.
LEMMA LeftShape ==
  ASSUME SysInv, Len(frames) > 0, System!Pop
  PROVE  /\ Shape' /\ frames' \in Seq(Contexts) /\ Len(frames') = Len(frames) - 1
         /\ Place' = (IF Len(frames) = 1 THEN 1 ELSE Place)
         /\ (Under' <=> Under /\ Len(frames) > 1)
         /\ \A i \in 1 .. Len(frames) - 1 : frames'[i] = frames[i] /\ (Undoes(i)' <=> Undoes(i))
         /\ Len(frames) \in Nat /\ Place \in {1, 2}
<1>1. frames \in Seq(Contexts) /\ Len(frames) \in Nat /\ Place \in {1, 2} /\ Shape
  BY SysPlace DEF SysInv, SysType
<1>2. /\ frames' \in Seq(Contexts) /\ Len(frames') = Len(frames) - 1
      /\ \A i \in 1 .. Len(frames) - 1 : frames'[i] = frames[i] /\ (Undoes(i)' <=> Undoes(i))
      /\ (Under' <=> Under /\ Len(frames) > 1)
      /\ Place' = IF Under' THEN 2 ELSE 1
  BY <1>1, PoppedFrames
<1>3. Place' = (IF Len(frames) = 1 THEN 1 ELSE Place)
  BY <1>1, <1>2 DEF Place
<1>4. Shape'
  <2>1. CASE Len(frames) = 1
    BY <1>1, <1>2, <1>3, <2>1 DEF Shape
  <2>2. CASE Len(frames) # 1
    BY <1>1, <1>2, <1>3, <2>2 DEF Shape
  <2> QED BY <2>1, <2>2
<1> QED BY <1>1, <1>2, <1>3, <1>4

\* The innermost context by its kind.
LEMMA InnerPlace ==
  ASSUME SysInv, Len(frames) > 0
  PROVE  /\ System!Inner = frames[Len(frames)] /\ System!Inner \in Contexts
         /\ System!Inner.kind = "user" <=> (Len(frames) = 1 /\ Under)
         /\ System!Inner.kind = "storage" <=> Len(frames) = Place
         /\ System!Inner.kind = "modify" <=> InMove
         /\ System!Inner.kind = "relocate" <=> (Len(frames) = Place + 1 /\ Apart)
         /\ System!Inner.kind = "install" <=> Len(frames) = Place + 2
         /\ Len(frames) = Place + 2 => Apart
<1>1. frames \in Seq(Contexts) /\ Len(frames) \in Nat /\ Place \in {1, 2} /\ Shape
  BY SysPlace DEF SysInv, SysType
<1>2. (Len(frames) = 1 /\ Under) \/ Len(frames) \in {Place, Place + 1, Place + 2}
  <2>1. Len(frames) <= Place + 2
    BY <1>1 DEF Shape
  <2>2. Under => Place = 2
    BY DEF Place
  <2>3. ~Under => Place = 1
    BY DEF Place
  <2> DEFINE n == Len(frames)
  <2>4. n \in Nat /\ n > 0 /\ n <= Place + 2
    BY <1>1, <2>1
  <2> HIDE DEF n
  <2>5. (n = 1 /\ Under) \/ n \in {Place, Place + 1, Place + 2}
    BY <2>2, <2>3, <2>4
  <2> QED BY <2>5 DEF n
<1>3. System!Inner = frames[Len(frames)] /\ System!Inner \in Contexts
  BY <1>1, ElementOfSeq DEF System!Inner
<1>4. CASE Len(frames) = 1 /\ Under
  BY <1>1, <1>3, <1>4 DEF Under, Place, InMove, Apart
<1>5. CASE Len(frames) = Place
  BY <1>1, <1>3, <1>5 DEF Under, Place, InMove, Apart, Shape
<1>6. CASE Len(frames) = Place + 1
  <2>1. System!Inner.kind \in {"modify", "relocate"} /\ Len(frames) # 1
    BY <1>1, <1>3, <1>6 DEF Shape
  <2>2. System!Inner = frames[Place + 1] /\ Len(frames) >= Place + 1
    BY <1>1, <1>3, <1>6
  <2>3. (System!Inner.kind = "modify" <=> InMove) /\ (System!Inner.kind = "relocate" <=> Apart)
    BY <1>6, <2>2 DEF InMove, Apart
  <2> QED BY <1>1, <1>3, <1>6, <2>1, <2>3
<1>7. CASE Len(frames) = Place + 2
  BY <1>1, <1>3, <1>7 DEF Under, Place, InMove, Apart, Shape
<1> QED BY <1>2, <1>4, <1>5, <1>6, <1>7

\* A way out that fails.
LEMMA LeaveFails ==
  ASSUME SysInv, op # "none", Len(frames) > 0, System!Pop, System!Fails, first' = first,
         Flags', prop' => rw' /\ root', sysApp' = sysApp,
         sysApp = "stored" => Len(frames) - 1 >= Place, Saved', Kept'
  PROVE  SysInv'
<1>1. op' = op /\ last' = last /\ pc' = "unwind" /\ raised' = TRUE
  BY DEF System!Fails, System!Goto, System!GotoWith
<1>2. /\ Shape' /\ frames' \in Seq(Contexts) /\ Len(frames') = Len(frames) - 1
      /\ Place' = (IF Len(frames) = 1 THEN 1 ELSE Place)
      /\ (Under' <=> Under /\ Len(frames) > 1)
      /\ \A i \in 1 .. Len(frames) - 1 : frames'[i] = frames[i] /\ (Undoes(i)' <=> Undoes(i))
      /\ Len(frames) \in Nat /\ Place \in {1, 2}
  BY LeftShape
<1>3. SysType'
  BY <1>1, <1>2 DEF SysInv, SysType, SysSteps, Flags
<1>4. Where' /\ OfMethod' /\ Mode'
  BY <1>1, <1>2 DEF SysInv, Where, OfMethod, Mode, ModeEntry, ModeSteps
<1>5. Files'
  <2>1. ~Moving'
    BY <1>1 DEF Moving, ToMode, ModeEntry, ModeSteps
  <2>2. Apart' => Apart /\ frames'[Place' + 1] = frames[Place + 1]
    <3>1. CASE Len(frames) = 1
      BY <1>2, <3>1 DEF Apart
    <3>2. CASE Len(frames) # 1
      BY <1>2, <3>2 DEF Apart
    <3> QED BY <3>1, <3>2
  <2> QED BY <1>1, <1>2, <2>1, <2>2 DEF SysInv, Files, System!Ended
<1> QED BY <1>1, <1>2, <1>3, <1>4, <1>5, InCallSys

\* A context is left that has no mode to give back.
LEMMA SavedPops ==
  ASSUME SysInv, op # "none", op' = op, first' = first, wrong' = wrong, pc = "unwind",
         UNCHANGED <<root, prop, rw, stopped>>, pc' # "EnableRoot",
         Len(frames) > 0, System!Pop, ~Undoes(Len(frames)),
         Own /\ Len(frames') # Place' + 2 => (replaced' => first.replaced)
  PROVE  Saved'
<1>1. /\ Len(frames') = Len(frames) - 1
      /\ (Under' <=> Under /\ Len(frames) > 1)
      /\ \A i \in 1 .. Len(frames) - 1 : frames'[i] = frames[i] /\ (Undoes(i)' <=> Undoes(i))
      /\ Len(frames) \in Nat
  BY LeftShape
<1>2. op # "StripSystemApps"
  BY <1>1 DEF SysInv, OfMethod
<1>3. Nothing' => Nothing
  BY <1>1 DEF Nothing
<1>4. \A i \in 1 .. Len(frames') : Undoes(i)' => /\ i \in 1 .. Len(frames) /\ Undoes(i)
                                                /\ frames'[i] = frames[i]
  BY <1>1
<1>5. InUse' => prop'
  <2>1. Under' => Under /\ Len(frames) # 1
    BY <1>1
  <2>2. Under /\ Len(frames) # 1 => prop
    BY DEF SysInv, Saved, Caller, InUse, ModeSteps
  <2> QED BY <2>1, <2>2 DEF InUse
<1> QED BY <1>1, <1>2, <1>3, <1>4, <1>5, SavedStays

\* A context that gives nothing back.
LEMMA QuietlyKeepsSys == SysInv /\ (System!Moved \/ System!LeaveUser) => SysInv'
<1> SUFFICES ASSUME SysInv, System!Moved \/ System!LeaveUser PROVE SysInv'
  OBVIOUS
<1>1. /\ pc = "unwind" /\ op # "none" /\ Len(frames) > 0 /\ System!Pop /\ ~System!Inner.undo
      /\ System!Inner.kind \in {"modify", "user"}
      /\ UNCHANGED <<sysApp, store, replaced, root, prop, rw, stopped, first, op, pc, loc, last, raised, wrong>>
  <2>1. frames # <<>> => Len(frames) > 0
    BY EmptySeq, LenProperties DEF SysInv, SysType
  <2> QED BY <2>1 DEF System!Moved, System!LeaveUser, System!At, System!In, System!device,
     SysInv,
                      SysType, System!callVars
<1>2. /\ Shape' /\ frames' \in Seq(Contexts) /\ Len(frames') = Len(frames) - 1
      /\ Place' = (IF Len(frames) = 1 THEN 1 ELSE Place)
      /\ (Under' <=> Under /\ Len(frames) > 1)
      /\ \A i \in 1 .. Len(frames) - 1 : frames'[i] = frames[i] /\ (Undoes(i)' <=> Undoes(i))
      /\ Len(frames) \in Nat /\ Place \in {1, 2}
  BY <1>1, LeftShape
<1>3. /\ (Len(frames) = 1 /\ Under /\ Place = 2) \/ InMove
      /\ ~Undoes(Len(frames))
  BY <1>1, InnerPlace DEF Undoes, Under, Place
<1>4. ~Apart /\ ~Apart' /\ (sysApp = "stored" => Len(frames) - 1 >= Place)
  BY <1>1, <1>2, <1>3 DEF InMove, Apart, SysInv, Files
<1>5. SysType'
  BY <1>1, <1>2 DEF SysInv, SysType
<1>6. Where' /\ OfMethod' /\ Mode'
  BY <1>1, <1>2, <1>3 DEF SysInv, Where, OfMethod, Mode, ModeEntry, ModeSteps
<1>7. Files' /\ Kept'
  BY <1>1, <1>2, <1>3, <1>4, SameWrong DEF SysInv, Files, Kept, Replacing, Stored, Moving, Idling,
     ToMode, ModeEntry, ModeSteps, System!Ended
<1>8. Saved'
  <2>1. Len(frames) # Place + 2
    BY <1>2, <1>3 DEF InMove
  <2>2. Own => (replaced' => first.replaced)
    BY <1>1, <2>1 DEF SysInv, Saved, Replacement
  <2> QED BY <1>1, <1>3, <2>2, SavedPops
<1> QED BY <1>1, <1>2, <1>5, <1>6, <1>7, <1>8, InCallSys

\* The mode is given back as it was found.
LEMMA ModeOffKeepsSys == SysInv /\ System!LeaveModify => SysInv'
<1> SUFFICES ASSUME SysInv, System!LeaveModify PROVE SysInv'
  OBVIOUS
<1>1. /\ pc = "LeaveModify" /\ op # "none" /\ System!Pop /\ UNCHANGED <<sysApp, store, replaced, first>>
      /\ \/ /\ rw' = FALSE /\ prop' = FALSE /\ stopped' = FALSE /\ root' = System!Inner.root
            /\ System!To("unwind")
         \/ /\ System!Fails
            /\ \/ prop' \in {prop, FALSE} /\ UNCHANGED <<rw, root, stopped>>
               \/ rw' = FALSE /\ prop' = FALSE /\ root' = FALSE /\ stopped' = FALSE
  BY DEF System!LeaveModify, System!At, System!Restart, SysInv, SysType
<1>2. /\ (Len(frames) = 1 /\ Under /\ Place = 2) \/ InMove
      /\ Len(frames) > 0 /\ frames[Len(frames)].undo
  BY <1>1, SysPlace DEF SysInv, Where, Under, Place, InMove, ModeEntry, ModeSteps
<1>3. /\ Shape' /\ frames' \in Seq(Contexts) /\ Len(frames') = Len(frames) - 1
      /\ Place' = (IF Len(frames) = 1 THEN 1 ELSE Place)
      /\ (Under' <=> Under /\ Len(frames) > 1)
      /\ \A i \in 1 .. Len(frames) - 1 : frames'[i] = frames[i] /\ (Undoes(i)' <=> Undoes(i))
      /\ Len(frames) \in Nat /\ Place \in {1, 2}
  BY <1>1, <1>2, LeftShape
<1>4. /\ System!Inner = frames[Len(frames)] /\ System!Inner \in Contexts
      /\ Undoes(Len(frames))
  BY <1>2, InnerPlace DEF Undoes
<1>5. ~Apart /\ ~Apart' /\ (sysApp = "stored" => Len(frames) - 1 >= Place)
  BY <1>2, <1>3 DEF InMove, Apart, SysInv, Files
<1>6. Flags /\ (prop => rw /\ root) /\ raised \in BOOLEAN
  BY DEF SysInv, SysType, Mode, Flags
<1>7. Flags' /\ (prop' => rw' /\ root')
  <2>1. System!Inner.root \in BOOLEAN
    BY <1>4 DEF Contexts
  <2>2. CASE rw' = FALSE /\ prop' = FALSE /\ stopped' = FALSE /\ root' \in BOOLEAN
    BY <1>1, <1>6, <2>2 DEF Flags
  <2>3. CASE prop' \in {prop, FALSE} /\ UNCHANGED <<rw, root, stopped>>
    <3>1. CASE prop' = prop
      BY <1>1, <1>6, <2>3, <3>1 DEF Flags
    <3>2. CASE prop' = FALSE
      BY <1>1, <1>6, <2>3, <3>2 DEF Flags
    <3> QED BY <2>3, <3>1, <3>2
  <2> QED BY <1>1, <2>1, <2>2, <2>3
<1>8. ASSUME op' = op, pc' = "unwind", Own' => Own PROVE RunsAgain' /\ Caller' /\ Replacement'
  <2>1. op # "StripSystemApps"
    BY <1>2, <1>3 DEF SysInv, OfMethod
  <2>2. ~Under' /\ Len(frames) # Place + 2
    <3>1. CASE Len(frames) = 1 /\ Under /\ Place = 2
      BY <1>3, <3>1
    <3>2. CASE InMove
      <4>1. Len(frames) = Place + 1 /\ frames[Len(frames)].kind = "modify"
        BY <3>2 DEF InMove
      <4>2. ~Under
        BY <1>2, <1>3, <1>4, <4>1 DEF SysInv, Saved, Caller
      <4> QED BY <1>3, <4>1, <4>2
    <3> QED BY <1>2, <3>1, <3>2
  <2>3. RunsAgain'
    BY <1>8, <2>1 DEF RunsAgain
  <2>4. Caller'
    BY <1>8, <2>2 DEF Caller, InUse
  <2>5. Replacement'
    BY <1>1, <1>8, <2>2 DEF SysInv, Saved, Replacement
  <2> QED BY <2>3, <2>4, <2>5
<1>9. ASSUME rw' = FALSE, prop' = FALSE, stopped' = FALSE, root' = System!Inner.root, System!To("unwind")
      PROVE  SysInv'
  <2>1. /\ op' = op /\ last' = last /\ pc' = "unwind" /\ UNCHANGED <<raised, wrong>>
    BY <1>9 DEF System!To, System!Goto, System!GotoWith
  <2>2. SysType'
    BY <1>1, <1>3, <1>6, <1>7, <2>1 DEF SysInv, SysType, SysSteps, Flags
  <2>3. Where' /\ OfMethod' /\ Mode'
    BY <1>1, <1>2, <1>3, <1>9, <2>1 DEF SysInv, Where, OfMethod, Mode, ModeEntry, ModeSteps
  <2>4. Files' /\ Kept'
    BY <1>1, <1>2, <1>3, <1>5, <2>1, SameWrong DEF SysInv, Files, Kept, Replacing, Stored,
       Moving, Idling, ToMode, ModeEntry, ModeSteps, System!Ended
  <2>5. Saved'
    <3>1. Back'
      <4>1. Rooted' => root' = first'.root
        BY <1>1, <1>3, <1>4, <1>9, <2>1, SameWrong DEF SysInv, Saved, Knows
      <4> QED BY <1>9, <4>1 DEF Back
    <3>2. Knows'
      BY <1>1, <1>3, <2>1, SameWrong DEF SysInv, Saved, Knows
    <3> QED BY <1>8, <2>1, <3>1, <3>2, SameWrong DEF Saved
  <2> QED BY <1>1, <1>3, <2>1, <2>2, <2>3, <2>4, <2>5, InCallSys
<1>10. CASE System!Fails
  <2>1. op' = op /\ pc' = "unwind" /\ wrong' = wrong \cup {"LeaveModify"}
    BY <1>1, <1>10 DEF System!Fails, System!Goto, System!GotoWith
  <2>2. ~Given' /\ ~Rooted' /\ ~Held' /\ (Own' => Own)
    BY <2>1 DEF Given, Rooted, Held, Own, System!ToMove
  <2>3. Saved' /\ Kept'
    BY <1>8, <2>1, <2>2 DEF Saved, Back, Knows, Kept
  <2> QED BY <1>1, <1>2, <1>5, <1>7, <1>10, <2>3, LeaveFails
<1> QED BY <1>1, <1>9, <1>10

\* The replacement goes before the app comes back.
LEMMA UninstallKeepsSys == SysInv /\ System!LeaveInstall => SysInv'
<1> SUFFICES ASSUME SysInv, System!LeaveInstall PROVE SysInv'
  OBVIOUS
<1>1. /\ pc = "unwind" /\ op # "none" /\ Len(frames) > 0 /\ System!Pop /\ System!Inner.kind = "install"
      /\ UNCHANGED <<sysApp, store, root, prop, rw, stopped, first>>
      /\ \/ replaced' = FALSE /\ System!To("unwind")
         \/ (replaced' = FALSE \/ replaced' = replaced) /\ System!Fails
  <2>1. frames # <<>> => Len(frames) > 0
    BY EmptySeq, LenProperties DEF SysInv, SysType
  <2> QED BY <2>1 DEF System!LeaveInstall, System!At, System!In, System!Do, SysInv, SysType
<1>2. /\ Shape' /\ frames' \in Seq(Contexts) /\ Len(frames') = Len(frames) - 1
      /\ Place' = (IF Len(frames) = 1 THEN 1 ELSE Place)
      /\ (Under' <=> Under /\ Len(frames) > 1)
      /\ \A i \in 1 .. Len(frames) - 1 : frames'[i] = frames[i] /\ (Undoes(i)' <=> Undoes(i))
      /\ Len(frames) \in Nat /\ Place \in {1, 2}
  BY <1>1, LeftShape
<1>3. Len(frames) = Place + 2 /\ Apart /\ ~Undoes(Len(frames))
  BY <1>1, InnerPlace DEF Undoes
<1>4. Flags' /\ (prop' => rw' /\ root')
  BY <1>1 DEF SysInv, SysType, Mode, Flags
<1>5. ASSUME replaced' = FALSE, System!To("unwind") PROVE SysInv'
  <2>1. /\ op' = op /\ last' = last /\ pc' = "unwind" /\ UNCHANGED <<raised, wrong>>
    BY <1>5 DEF System!To, System!Goto, System!GotoWith
  <2>2. SysType'
    BY <1>1, <1>2, <1>4, <2>1 DEF SysInv, SysType, SysSteps, Flags
  <2>3. Where' /\ OfMethod' /\ Mode'
    BY <1>1, <1>2, <1>3, <1>4, <2>1 DEF SysInv, Where, OfMethod, Mode, ModeEntry, ModeSteps
  <2>4. Place' = Place /\ Apart' /\ frames'[Place + 1] = frames[Place + 1] /\ (Under' <=> Under)
    BY <1>2, <1>3 DEF Apart
  <2>5. Files' /\ Kept'
    BY <1>1, <1>2, <1>3, <2>1, <2>4, SameWrong DEF SysInv, Files, Kept, Replacing, Stored, Moving,
       Idling, ToMode, ModeEntry, ModeSteps, System!Ended
  <2>6. Saved'
    BY <1>1, <1>3, <1>5, <2>1, SavedPops
  <2> QED BY <1>1, <1>2, <2>1, <2>2, <2>3, <2>5, <2>6, InCallSys
<1>6. CASE System!Fails
  <2>1. op' = op /\ pc' = "unwind" /\ wrong' = wrong \cup {"unwind"} /\ raised' = TRUE
    BY <1>1, <1>6 DEF System!Fails, System!Goto, System!GotoWith
  <2>2. ~Own' /\ (Given' => Given) /\ (Rooted' => Rooted) /\ (Held' => Held)
    BY <2>1 DEF Own, Given, Rooted, Held
  <2>3. /\ op # "StripSystemApps" /\ (Nothing' => Nothing) /\ Place' = Place /\ (Under' <=> Under)
        /\ Apart' /\ frames'[Place + 1] = frames[Place + 1]
    BY <1>2, <1>3 DEF SysInv, OfMethod, Nothing, Apart
  <2>4. Saved'
    <3>1. Back' /\ RunsAgain' /\ Replacement'
      BY <1>1, <2>1, <2>2, <2>3 DEF SysInv, Saved, Back, RunsAgain, Replacement
    <3>2. Knows'
      BY <1>1, <1>2, <2>1, <2>2 DEF SysInv, Saved, Knows
    <3>3. InUse' => prop'
      <4>1. Len(frames) # 1
        BY <1>2, <1>3
      <4>2. Under => prop
        BY <1>1, <4>1 DEF SysInv, Saved, Caller, InUse, ModeSteps
      <4> QED BY <1>1, <2>3, <4>2 DEF InUse
    <3>4. \A i \in 1 .. Len(frames') : Undoes(i)' /\ frames'[i].kind = "modify" => ~Under'
      BY <1>2, <2>3 DEF SysInv, Saved, Caller
    <3>5. Caller'
      BY <2>1, <3>3, <3>4 DEF Caller
    <3> QED BY <3>1, <3>2, <3>5 DEF Saved
  <2>5. Kept'
    BY <1>1, <1>3, <2>1, <2>2, <2>3 DEF SysInv, Kept, Replacing, Stored, Moving, Idling, ToMode,
       ModeEntry, ModeSteps
  <2> QED BY <1>1, <1>2, <1>3, <1>4, <1>6, <2>4, <2>5, LeaveFails
<1> QED BY <1>1, <1>5, <1>6

\* The app goes back from its place in the storage, if it was brought there.
LEMMA WayBackKeepsSys == SysInv /\ System!LeaveRelocate => SysInv'
<1> SUFFICES ASSUME SysInv, System!LeaveRelocate PROVE SysInv'
  OBVIOUS
<1>1. /\ pc = "unwind" /\ op # "none" /\ Len(frames) > 0 /\ System!Pop /\ System!Inner.kind = "relocate"
      /\ UNCHANGED <<sysApp, store, replaced, root, prop, rw, stopped, first, op, last, raised, wrong>>
      /\ pc' = "GetProp"
      /\ loc' = [kind |-> "modify", then |-> IF System!Inner.undo THEN "Move" ELSE "NoMove"]

  <2>1. frames # <<>> => Len(frames) > 0
    BY EmptySeq, LenProperties DEF SysInv, SysType
  <2> QED BY <2>1 DEF System!LeaveRelocate, System!At, System!In, System!To, System!Goto,
     System!GotoWith,
                      System!device, SysInv, SysType
<1>2. /\ Shape' /\ frames' \in Seq(Contexts) /\ Len(frames') = Len(frames) - 1
      /\ Place' = (IF Len(frames) = 1 THEN 1 ELSE Place)
      /\ (Under' <=> Under /\ Len(frames) > 1)
      /\ \A i \in 1 .. Len(frames) - 1 : frames'[i] = frames[i] /\ (Undoes(i)' <=> Undoes(i))
      /\ Len(frames) \in Nat /\ Place \in {1, 2}
  BY <1>1, LeftShape
<1>3. /\ Len(frames) = Place + 1 /\ Apart /\ ~Undoes(Len(frames))
      /\ System!Inner = frames[Place + 1]
  BY <1>1, InnerPlace DEF Undoes
<1>4. Place' = Place /\ ~Apart' /\ (Under' <=> Under) /\ Len(frames') = Place
  BY <1>2, <1>3 DEF Apart
<1>5. Replacing
  BY <1>1, <1>2, <1>3 DEF SysInv, SysType, SystemCalls, OfMethod, Replacing, Under, Place
<1>6. (System!Inner.undo => sysApp = "stored")
  BY <1>3 DEF SysInv, Files
<1>7. SysType'
  BY <1>1, <1>2 DEF SysInv, SysType, SysSteps, ModeEntry
<1>8. Where' /\ OfMethod' /\ Mode'
  BY <1>1, <1>2, <1>4, <1>5 DEF SysInv, Where, OfMethod, Mode, Replacing, ModeEntry, ModeSteps
<1>9. Files'
  BY <1>1, <1>2, <1>4, <1>6 DEF SysInv, Files, Moving, ToMode, ModeEntry, ModeSteps, System!Ended
<1>10. Kept'
  BY <1>1, <1>3, <1>4, <1>5, <1>6, SameWrong DEF SysInv, SysType, Kept, Replacing, Stored, Moving,
     Idling, ToMode, ModeEntry, ModeSteps
<1>11. Saved'
  <2>1. Own => (replaced' => first.replaced)
    BY <1>1, <1>2, <1>3 DEF SysInv, Saved, Replacement
  <2> QED BY <1>1, <1>3, <2>1, SavedPops
<1> QED BY <1>1, <1>2, <1>7, <1>8, <1>9, <1>10, <1>11, InCallSys

\* The storage goes with what is in it, which is nothing if no command failed.
LEMMA StorageGoesKeepsSys == SysInv /\ System!LeaveStorage => SysInv'
<1> SUFFICES ASSUME SysInv, System!LeaveStorage PROVE SysInv'
  OBVIOUS
<1>1. /\ pc = "unwind" /\ op # "none" /\ Len(frames) > 0 /\ System!Pop /\ System!Inner.kind = "storage"
      /\ UNCHANGED <<replaced, root, prop, rw, stopped, first, op, last, raised, wrong>>
      /\ raised \/ sysApp # "stored"
      /\ sysApp' = (IF sysApp = "stored" THEN "gone" ELSE sysApp) /\ pc' = "unwind"
  <2>1. frames # <<>> => Len(frames) > 0
    BY EmptySeq, LenProperties DEF SysInv, SysType
  <2> QED BY <2>1 DEF System!LeaveStorage, System!At, System!In, System!To, System!Goto,
     System!GotoWith,
                      SysInv, SysType
<1>2. /\ Shape' /\ frames' \in Seq(Contexts) /\ Len(frames') = Len(frames) - 1
      /\ Place' = (IF Len(frames) = 1 THEN 1 ELSE Place)
      /\ (Under' <=> Under /\ Len(frames) > 1)
      /\ \A i \in 1 .. Len(frames) - 1 : frames'[i] = frames[i] /\ (Undoes(i)' <=> Undoes(i))
      /\ Len(frames) \in Nat /\ Place \in {1, 2}
  BY <1>1, LeftShape
<1>3. Len(frames) = Place /\ ~Undoes(Len(frames)) /\ (Under => Place = 2)
  BY <1>1, InnerPlace DEF Undoes, Place
<1>4. Place' = Place /\ ~Apart /\ ~Apart' /\ (Under' <=> Under) /\ Len(frames') = Place - 1
      /\ (Under <=> Place = 2)
  BY <1>2, <1>3 DEF Apart, Place
<1>5. Replacing
  BY <1>1, <1>2, <1>3 DEF SysInv, SysType, SystemCalls, OfMethod, Replacing
<1>6. Held => sysApp # "stored" /\ sysApp' = sysApp
  BY <1>1, <1>4, <1>5 DEF SysInv, SysType, Kept
<1>7. SysType'
  BY <1>1, <1>2 DEF SysInv, SysType, SysSteps
<1>8. Where' /\ OfMethod' /\ Mode'
  BY <1>1, <1>5 DEF SysInv, Where, OfMethod, Mode, Replacing, ModeEntry, ModeSteps
<1>9. Files'
  BY <1>1, <1>4 DEF SysInv, Files, Moving, ToMode, ModeEntry, ModeSteps, System!Ended
<1>10. Kept'
  BY <1>1, <1>4, <1>5, <1>6, SameWrong DEF SysInv, Kept, Replacing, Stored, Moving, Idling, ToMode,
     ModeEntry, ModeSteps
<1>11. Saved'
  <2>1. Own => (replaced' => first.replaced)
    BY <1>1, <1>2, <1>3 DEF SysInv, Saved, Replacement
  <2> QED BY <1>1, <1>3, <2>1, SavedPops
<1> QED BY <1>1, <1>2, <1>7, <1>8, <1>9, <1>10, <1>11, InCallSys

\* A context that has no mode to give back leaves those before it as they are.
LEMMA EnteredSaved ==
  ASSUME SysInv, op # "none", wrong' = wrong, op' = op, first' = first,
         UNCHANGED <<root, prop, rw, stopped>>,
         NEW f \in Contexts, System!Push(f), f.kind \notin {"user", "modify"},
         \/ Len(frames) = Place - 1 /\ f.kind = "storage" /\ pc = "ReplaceSystemApp"
         \/ Len(frames) = Place /\ f.kind = "relocate"
         \/ Len(frames) = Place + 1 /\ frames[Place + 1].kind = "relocate" /\ f.kind = "install",
         Replacing, pc \notin ModeSteps, pc' \notin {"EnableRoot", "ReplaceSystemApp", "RemovePath"},
         Len(frames') # Place' + 2 => replaced' = replaced
  PROVE  Saved'
<1>1. Len(frames) \in Nat /\ Place \in {1, 2} /\ (Under => Place = 2)
  BY SysPlace DEF Place
<1>2. /\ Len(frames') = Len(frames) + 1
      /\ Place' = (IF f.kind = "user" THEN 2 ELSE Place)
      /\ (Under' <=> Under \/ f.kind = "user")
      /\ \A i \in 1 .. Len(frames) : frames'[i] = frames[i] /\ (Undoes(i)' <=> Undoes(i))
      /\ \A i : i = Len(frames) + 1 => (Undoes(i)' <=> f.kind \in {"user", "modify"} /\ f.undo)
  BY EnteredShape
<1>3. Place' = Place /\ (Under' <=> Under)
  BY <1>2
<1>4. \A i \in 1 .. Len(frames') : Undoes(i)' => /\ i \in 1 .. Len(frames) /\ Undoes(i)
                                                /\ frames'[i] = frames[i]
  BY <1>1, <1>2
<1>5. Nothing' => Nothing
  BY <1>1, <1>2 DEF Nothing
<1>6. Own /\ Len(frames') # Place' + 2 => (replaced' => first.replaced)
  <2>1. Len(frames) # Place + 2
    BY <1>1
  <2> QED BY <2>1 DEF SysInv, Saved, Replacement
<1>7. InUse' => prop'
  <2>1. Under => Len(frames) # 1 \/ pc = "ReplaceSystemApp"
    BY <1>1
  <2>2. Under => prop
    BY <2>1 DEF SysInv, Saved, Caller, InUse
  <2> QED BY <1>3, <2>2 DEF InUse
<1> QED BY <1>3, <1>4, <1>5, <1>6, <1>7, SavedStays DEF Replacing

\* Steps in the same contexts, outside of the mode's own.
LEMMA SameSaved ==
  ASSUME SysInv, op # "none", wrong' = wrong, op' = op, first' = first, frames' = frames,
         UNCHANGED <<root, prop, rw, stopped, replaced>>, op # "StripSystemApps",
         pc \notin ModeSteps, pc' \notin {"EnableRoot", "ReplaceSystemApp", "RemovePath"}
  PROVE  Saved'
<1>1. /\ (Under' <=> Under) /\ Place' = Place /\ (Nothing' <=> Nothing)
      /\ \A i : Undoes(i)' <=> Undoes(i)
  BY SameFrames
<1>2. InUse' => prop'
  <2>1. Under /\ Len(frames) # 1 => prop
    BY DEF SysInv, Saved, Caller, InUse
  <2> QED BY <1>1, <2>1 DEF InUse
<1>3. Own /\ Len(frames') # Place' + 2 => (replaced' => first.replaced)
  BY <1>1 DEF SysInv, Saved, Replacement
<1> QED BY <1>1, <1>2, <1>3, SavedStays

\* The steps that enter the contexts of a replacement.
LEMMA StorageKeepsSys == SysInv /\ System!Storage => SysInv'
<1> SUFFICES ASSUME SysInv, System!Storage PROVE SysInv'
  OBVIOUS
<1>1. /\ pc = "ReplaceSystemApp" /\ op # "none"
      /\ UNCHANGED <<sysApp, replaced, root, prop, rw, stopped, first>>
      /\ \/ System!Push(System!Frame("storage", TRUE, root)) /\ System!To("FindPaths")
         \/ UNCHANGED frames /\ System!Fails
  BY DEF System!Storage, System!At, SysInv, SysType
<1>2. Flags' /\ (prop' => rw' /\ root') /\ raised \in BOOLEAN
  BY <1>1 DEF SysInv, SysType, Mode, Flags
<1>3. /\ Replacing /\ Len(frames) = Place - 1 /\ sysApp # "stored"
      /\ Len(frames) \in Nat /\ Place \in {1, 2}
  BY <1>1, SysPlace DEF SysInv, SysType, SystemCalls, Replacing, Where, OfMethod, Files,
     ModeEntry, ModeSteps
<1>4. ASSUME System!Push(System!Frame("storage", TRUE, root)), System!To("FindPaths") PROVE SysInv'
  <2> DEFINE f == System!Frame("storage", TRUE, root)
  <2>1. f \in Contexts /\ f.kind = "storage" /\ System!Push(f)
    BY <1>1, <1>2, <1>4 DEF System!Frame, Contexts, Kinds, Flags
  <2>2. /\ op' = op /\ last' = last /\ pc' = "FindPaths" /\ UNCHANGED <<raised, wrong>>
    BY <1>4 DEF System!To, System!Goto, System!GotoWith
  <2> HIDE DEF f
  <2>3. /\ Shape' /\ frames' \in Seq(Contexts) /\ Len(frames') = Len(frames) + 1
        /\ Place' = (IF f.kind = "user" THEN 2 ELSE Place)
        /\ (Under' <=> Under \/ f.kind = "user")
        /\ frames'[Len(frames) + 1] = f
        /\ \A i \in 1 .. Len(frames) : frames'[i] = frames[i] /\ (Undoes(i)' <=> Undoes(i))
        /\ \A i : i = Len(frames) + 1 => (Undoes(i)' <=> f.kind \in {"user", "modify"} /\ f.undo)
    BY <1>3, <2>1, EnteredShape
  <2>4. Place' = Place /\ (Under' <=> Under) /\ ~Apart /\ ~Apart' /\ Len(frames') = Place
    <3>1. Place' = Place /\ (Under' <=> Under) /\ Len(frames') = Place
      BY <1>3, <2>1, <2>3
    <3>2. ~Apart /\ ~Apart'
      BY <1>3, <3>1 DEF Apart
    <3> QED BY <3>1, <3>2
  <2>5. SysType'
    BY <1>1, <1>2, <2>2, <2>3 DEF SysInv, SysType, SysSteps, Flags
  <2>6. Where' /\ OfMethod' /\ Mode'
    BY <1>2, <1>3, <2>2, <2>4 DEF Where, OfMethod, Mode, Replacing, ModeEntry, ModeSteps
  <2>7. Files'
    BY <1>1, <1>3, <2>2, <2>4 DEF SysInv, Files, Moving, ToMode, ModeEntry, ModeSteps, System!Ended
  <2>8. Kept'
    BY <1>1, <1>3, <2>2, <2>4, SameWrong DEF SysInv, Kept, Replacing, Stored, Moving, Idling, ToMode,
       ModeEntry, ModeSteps
  <2>9. Saved'
    BY <1>1, <1>3, <2>1, <2>2, EnteredSaved DEF ModeSteps
  <2> QED BY <1>1, <2>2, <2>3, <2>5, <2>6, <2>7, <2>8, <2>9, InCallSys
<1>5. ASSUME UNCHANGED frames, System!Fails PROVE SysInv'
  <2>1. Unharmed
    BY <1>1 DEF Unharmed
  <2> QED BY <1>1, <1>2, <1>5, <2>1, FailsKeepsSys
<1> QED BY <1>1, <1>4, <1>5

LEMMA FindPathsKeepsSys == SysInv /\ System!FindPaths => SysInv'
<1> SUFFICES ASSUME SysInv, System!FindPaths PROVE SysInv'
  OBVIOUS
<1>1. /\ pc = "FindPaths" /\ op # "none"
      /\ UNCHANGED <<sysApp, store, replaced, root, prop, rw, stopped, first>>
      /\ \/ /\ sysApp = "system" /\ UNCHANGED <<raised, wrong, frames>>
            /\ System!GotoWith("GetProp", [kind |-> "modify", then |-> "Move"])
         \/ sysApp # "system" /\ System!Push(System!Frame("relocate", FALSE, root)) /\ System!To("Install")
         \/ UNCHANGED frames /\ System!Fails
  BY DEF System!FindPaths, System!At, System!device, SysInv, SysType
<1>2. Flags' /\ (prop' => rw' /\ root') /\ raised \in BOOLEAN
  BY <1>1 DEF SysInv, SysType, Mode, Flags
<1>3. /\ Replacing /\ Len(frames) = Place
      /\ Len(frames) \in Nat /\ Place \in {1, 2}
      /\ Held => sysApp = first.app /\ ~raised
  BY <1>1, SysPlace DEF SysInv, SysType, SystemCalls, Replacing, Where, OfMethod, Kept, Moving,
     Idling, ToMode, ModeEntry, ModeSteps
<1>4. ASSUME sysApp = "system", UNCHANGED <<raised, wrong, frames>>,
             System!GotoWith("GetProp", [kind |-> "modify", then |-> "Move"])
      PROVE  SysInv'
  <2>1. /\ op' = op /\ last' = last /\ pc' = "GetProp" /\ loc' = [kind |-> "modify", then |-> "Move"]
    BY <1>4 DEF System!GotoWith
  <2>2. /\ (Under' <=> Under) /\ Place' = Place /\ (InMove' <=> InMove) /\ (Apart' <=> Apart)
        /\ Shape' /\ \A i : Undoes(i)' <=> Undoes(i)
    BY <1>4, SameFrames DEF SysInv
  <2>3. ~Apart
    BY <1>3 DEF Apart
  <2>4. SysType'
    BY <1>1, <1>2, <1>4, <2>1 DEF SysInv, SysType, SysSteps, ModeEntry, Flags
  <2>5. Where' /\ OfMethod' /\ Mode'
    BY <1>2, <1>3, <1>4, <2>1, <2>2 DEF Where, OfMethod, Mode, Replacing, ModeEntry, ModeSteps
  <2>6. Files' /\ Kept'
    BY <1>1, <1>3, <1>4, <2>1, <2>2, <2>3, SameWrong DEF SysInv, Files, Kept, Replacing, Stored, Moving,
       Idling, ToMode, ModeEntry, ModeSteps, System!Ended
  <2>7. Saved'
    BY <1>1, <1>3, <1>4, <2>1, SameSaved DEF Replacing, ModeSteps
  <2> QED BY <1>1, <2>1, <2>2, <2>4, <2>5, <2>6, <2>7, InCallSys
<1>5. ASSUME sysApp # "system", System!Push(System!Frame("relocate", FALSE, root)), System!To("Install")
      PROVE  SysInv'
  <2> DEFINE f == System!Frame("relocate", FALSE, root)
  <2>1. f \in Contexts /\ f.kind = "relocate" /\ ~f.undo /\ System!Push(f)
    BY <1>1, <1>2, <1>5 DEF System!Frame, Contexts, Kinds, Flags
  <2>2. /\ op' = op /\ last' = last /\ pc' = "Install" /\ UNCHANGED <<raised, wrong>>
    BY <1>5 DEF System!To, System!Goto, System!GotoWith
  <2> HIDE DEF f
  <2>3. /\ Shape' /\ frames' \in Seq(Contexts) /\ Len(frames') = Len(frames) + 1
        /\ Place' = (IF f.kind = "user" THEN 2 ELSE Place)
        /\ (Under' <=> Under \/ f.kind = "user")
        /\ frames'[Len(frames) + 1] = f
    BY <1>3, <2>1, EnteredShape
  <2>4. /\ Place' = Place /\ (Under' <=> Under) /\ Len(frames') = Place + 1
        /\ frames'[Place + 1] = f
    BY <1>3, <2>1, <2>3
  <2>5. ~Apart /\ Apart'
    BY <1>3, <2>1, <2>4 DEF Apart
  <2>6. SysType'
    BY <1>1, <1>2, <2>2, <2>3 DEF SysInv, SysType, SysSteps, Flags
  <2>7. Where' /\ OfMethod' /\ Mode'
    BY <1>2, <1>3, <2>1, <2>2, <2>4 DEF Where, OfMethod, Mode, Replacing, ModeEntry, ModeSteps
  <2>8. Files'
    BY <1>1, <1>3, <2>1, <2>2, <2>4 DEF SysInv, Files, Moving, ToMode, ModeEntry, ModeSteps,
       System!Ended
  <2>9. Kept'
    BY <1>1, <1>3, <2>1, <2>2, <2>4, <2>5, SameWrong DEF SysInv, Kept, Replacing, Stored, Moving, Idling,
       ToMode, ModeEntry, ModeSteps
  <2>10. Saved'
    BY <1>1, <1>3, <2>1, <2>2, EnteredSaved DEF ModeSteps
  <2> QED BY <1>1, <2>2, <2>3, <2>6, <2>7, <2>8, <2>9, <2>10, InCallSys
<1>6. ASSUME UNCHANGED frames, System!Fails PROVE SysInv'
  <2>1. Unharmed
    BY <1>1 DEF Unharmed
  <2> QED BY <1>1, <1>2, <1>6, <2>1, FailsKeepsSys
<1> QED BY <1>1, <1>4, <1>5, <1>6

LEMMA RelocatedKeepsSys == SysInv /\ System!Relocated => SysInv'
<1> SUFFICES ASSUME SysInv, System!Relocated PROVE SysInv'
  OBVIOUS
<1>1. /\ pc = "unwind" /\ op # "none" /\ Len(frames) > 0 /\ System!Inner.kind = "storage" /\ ~raised
      /\ sysApp = "stored" /\ UNCHANGED <<sysApp, store, replaced, root, prop, rw, stopped, first>>
      /\ System!Push(System!Frame("relocate", TRUE, root)) /\ System!To("Install")
  <2>1. frames # <<>> => Len(frames) > 0
    BY EmptySeq, LenProperties DEF SysInv, SysType
  <2> QED BY <2>1 DEF System!Relocated, System!At, System!In, System!device, SysInv, SysType
<1>2. Flags' /\ (prop' => rw' /\ root') /\ raised \in BOOLEAN
  BY <1>1 DEF SysInv, SysType, Mode, Flags
<1>3. /\ Len(frames) = Place /\ Len(frames) \in Nat /\ Place \in {1, 2} /\ (Under => Place = 2)
  BY <1>1, InnerPlace, SysPlace DEF Place
<1>4. Replacing
  BY <1>1, <1>3 DEF SysInv, SysType, SystemCalls, OfMethod, Replacing
<1> DEFINE f == System!Frame("relocate", TRUE, root)
<1>5. f \in Contexts /\ f.kind = "relocate" /\ f.undo /\ System!Push(f)
  BY <1>1, <1>2 DEF System!Frame, Contexts, Kinds, Flags
<1>6. /\ op' = op /\ last' = last /\ pc' = "Install" /\ UNCHANGED <<raised, wrong>>
  BY <1>1 DEF System!To, System!Goto, System!GotoWith
<1> HIDE DEF f
<1>7. /\ Shape' /\ frames' \in Seq(Contexts) /\ Len(frames') = Len(frames) + 1
      /\ Place' = (IF f.kind = "user" THEN 2 ELSE Place)
      /\ (Under' <=> Under \/ f.kind = "user")
      /\ frames'[Len(frames) + 1] = f
  BY <1>3, <1>5, EnteredShape
<1>8. /\ Place' = Place /\ (Under' <=> Under) /\ Len(frames') = Place + 1
      /\ frames'[Place + 1] = f
  BY <1>3, <1>5, <1>7
<1>9. ~Apart /\ Apart'
  BY <1>3, <1>5, <1>8 DEF Apart
<1>10. SysType'
  BY <1>1, <1>2, <1>6, <1>7 DEF SysInv, SysType, SysSteps, Flags
<1>11. Where' /\ OfMethod' /\ Mode'
  BY <1>2, <1>4, <1>5, <1>6, <1>8 DEF Where, OfMethod, Mode, Replacing, ModeEntry, ModeSteps
<1>12. Files'
  BY <1>1, <1>3, <1>5, <1>6, <1>8 DEF SysInv, Files, Moving, ToMode, ModeEntry, ModeSteps,
     System!Ended
<1>13. Kept'
  BY <1>1, <1>3, <1>4, <1>5, <1>6, <1>8, <1>9, SameWrong DEF SysInv, SysType, Kept, Replacing, Stored,
     Moving, Idling, ToMode, ModeEntry, ModeSteps
<1>14. Saved'
  BY <1>1, <1>3, <1>4, <1>5, <1>6, EnteredSaved DEF ModeSteps
<1> QED BY <1>1, <1>6, <1>7, <1>10, <1>11, <1>12, <1>13, <1>14, InCallSys

LEMMA InstallKeepsSys == SysInv /\ System!Install => SysInv'
<1> SUFFICES ASSUME SysInv, System!Install PROVE SysInv'
  OBVIOUS
<1>1. /\ pc = "Install" /\ op # "none"
      /\ UNCHANGED <<sysApp, store, root, prop, rw, stopped, first>> /\ replaced' \in BOOLEAN
      /\ \/ System!Push(System!Frame("install", TRUE, root)) /\ System!To("body")
         \/ UNCHANGED frames /\ System!Fails
  BY DEF System!Install, System!At, SysInv, SysType
<1>2. Flags' /\ (prop' => rw' /\ root') /\ raised \in BOOLEAN
  BY <1>1 DEF SysInv, SysType, Mode, Flags
<1>3. /\ Len(frames) = Place + 1 /\ frames[Place + 1].kind = "relocate"
      /\ Len(frames) \in Nat /\ Place \in {1, 2} /\ (Under => Place = 2)
  BY <1>1, SysPlace DEF SysInv, Where, Place, ModeEntry, ModeSteps
<1>4. Replacing
  BY <1>1, <1>3 DEF SysInv, SysType, SystemCalls, OfMethod, Replacing, ModeEntry, ModeSteps
<1>5. ASSUME System!Push(System!Frame("install", TRUE, root)), System!To("body") PROVE SysInv'
  <2> DEFINE f == System!Frame("install", TRUE, root)
  <2>1. f \in Contexts /\ f.kind = "install" /\ System!Push(f)
    BY <1>1, <1>2, <1>5 DEF System!Frame, Contexts, Kinds, Flags
  <2>2. /\ op' = op /\ last' = last /\ pc' = "body" /\ UNCHANGED <<raised, wrong>>
    BY <1>5 DEF System!To, System!Goto, System!GotoWith
  <2> HIDE DEF f
  <2>3. /\ Shape' /\ frames' \in Seq(Contexts) /\ Len(frames') = Len(frames) + 1
        /\ Place' = (IF f.kind = "user" THEN 2 ELSE Place)
        /\ (Under' <=> Under \/ f.kind = "user")
        /\ \A i \in 1 .. Len(frames) : frames'[i] = frames[i] /\ (Undoes(i)' <=> Undoes(i))
    BY <1>3, <2>1, EnteredShape
  <2>4. /\ Place' = Place /\ (Under' <=> Under) /\ Len(frames') = Place + 2
        /\ frames'[Place + 1] = frames[Place + 1]
    BY <1>3, <2>1, <2>3
  <2>5. Apart /\ Apart'
    BY <1>3, <2>4 DEF Apart
  <2>6. SysType'
    BY <1>1, <1>2, <2>2, <2>3 DEF SysInv, SysType, SysSteps, Flags
  <2>7. Where' /\ OfMethod' /\ Mode'
    BY <1>2, <1>4, <2>2, <2>4 DEF Where, OfMethod, Mode, Replacing, ModeEntry, ModeSteps
  <2>8. Files' /\ Kept'
    BY <1>1, <1>3, <1>4, <2>2, <2>4, <2>5, SameWrong DEF SysInv, Files, Kept, Replacing, Stored, Moving,
       Idling, ToMode, ModeEntry, ModeSteps, System!Ended
  <2>9. Saved'
    BY <1>1, <1>3, <1>4, <2>1, <2>2, <2>4, EnteredSaved DEF ModeSteps
  <2> QED BY <1>1, <2>2, <2>3, <2>6, <2>7, <2>8, <2>9, InCallSys
<1>6. ASSUME UNCHANGED frames, System!Fails PROVE SysInv'
  <2>1. Unharmed
    BY <1>1 DEF Unharmed
  <2> QED BY <1>1, <1>2, <1>6, <2>1, FailsKeepsSys
<1> QED BY <1>1, <1>5, <1>6

\* The block, and the way from its end to the mode's last step.
LEMMA BodyKeepsSys == SysInv /\ (System!Body \/ System!LeaveMove) => SysInv'
<1> SUFFICES ASSUME SysInv, System!Body \/ System!LeaveMove PROVE SysInv'
  OBVIOUS
<1>1. /\ pc \in {"body", "unwind"} /\ op # "none" /\ op' = op /\ last' = last /\ wrong' = wrong
      /\ UNCHANGED <<sysApp, store, replaced, root, prop, rw, stopped, first, frames>>
      /\ raised' \in BOOLEAN
  BY DEF System!Body, System!LeaveMove, System!At, System!device, System!To, System!Goto,
     System!GotoWith,
         SysInv, SysType
<1>2. \/ pc = "body" /\ pc' = "unwind"
      \/ /\ pc = "unwind" /\ pc' = "LeaveModify" /\ raised' = raised /\ Len(frames) > 0
         /\ System!Inner.kind \in {"modify", "user"} /\ System!Inner.undo
  <2>1. frames # <<>> => Len(frames) > 0
    BY EmptySeq, LenProperties DEF SysInv, SysType
  <2> QED BY <2>1 DEF System!Body, System!LeaveMove, System!At, System!To, System!Goto,
     System!GotoWith
<1>3. Flags' /\ (prop' => rw' /\ root')
  BY <1>1 DEF SysInv, SysType, Mode, Flags
<1>4. /\ (Under' <=> Under) /\ Place' = Place /\ (InMove' <=> InMove) /\ (Apart' <=> Apart)
      /\ Shape' /\ \A i : Undoes(i)' <=> Undoes(i)
  BY <1>1, SameFrames DEF SysInv
<1>5. Len(frames) \in Nat /\ Place \in {1, 2}
  BY SysPlace
<1>6. pc = "body" => Apart /\ Replacing
  <2>1. pc = "body" => Len(frames) = Place + 2 /\ Replacing
    BY <1>1 DEF SysInv, SysType, SystemCalls, Replacing, Where, OfMethod, ModeEntry, ModeSteps
  <2> QED BY <1>5, <2>1 DEF SysInv, Shape, Apart
<1>7. pc' = "LeaveModify" => /\ (Len(frames) = 1 /\ Under) \/ InMove
                             /\ frames[Len(frames)].undo
  BY <1>2, InnerPlace
<1>8. SysType'
  BY <1>1, <1>2, <1>3 DEF SysInv, SysType, SysSteps, Flags
<1>9. Where' /\ Mode'
  BY <1>1, <1>2, <1>3, <1>4, <1>7 DEF Where, Mode, ModeEntry, ModeSteps
<1>10. OfMethod'
  BY <1>1, <1>2, <1>4, <1>5, <1>6, <1>7 DEF SysInv, OfMethod, Replacing, InMove, ModeEntry,
     ModeSteps
<1>11. Files' /\ Kept'
  BY <1>1, <1>2, <1>4, <1>6, SameWrong DEF SysInv, Files, Kept, Replacing, Stored, Moving, Idling,
     ToMode, ModeEntry, ModeSteps, System!Ended
<1>12. op # "StripSystemApps"
  BY <1>1, <1>2, <1>5, <1>6, <1>7 DEF SysInv, OfMethod, Replacing, InMove
<1>13. Saved'
  BY <1>1, <1>2, <1>12, SameSaved DEF ModeSteps
<1> QED BY <1>1, <1>4, <1>8, <1>9, <1>10, <1>11, <1>13, InCallSys

LEMMA MoveKeepsSys == SysInv /\ System!Move => SysInv'
<1> SUFFICES ASSUME SysInv, System!Move PROVE SysInv'
  OBVIOUS
<1>1. /\ pc = "Move" /\ op # "none"
      /\ UNCHANGED <<store, replaced, root, prop, rw, stopped, first, frames>>
      /\ \/ sysApp' = (IF sysApp = "system" THEN "stored" ELSE "system") /\ System!To("unwind")
         \/ /\ sysApp' = (IF sysApp = "system" THEN "stored" ELSE "system") \/ sysApp' = sysApp
            /\ System!Fails
  BY DEF System!Move, System!At, System!Do, SysInv, SysType
<1>2. Flags' /\ (prop' => rw' /\ root') /\ raised \in BOOLEAN
  BY <1>1 DEF SysInv, SysType, Mode, Flags
<1>3. /\ Replacing /\ InMove /\ Moving /\ sysApp \in {"system", "stored"}
      /\ Len(frames) \in Nat /\ Place \in {1, 2}
  BY <1>1, SysPlace DEF SysInv, SysType, SystemCalls, Replacing, Where, OfMethod, Files,
     Moving, ToMode, ModeEntry, ModeSteps
<1>4. sysApp' \in {"system", "stored"}
  BY <1>1, <1>3
<1>5. ASSUME sysApp' = (IF sysApp = "system" THEN "stored" ELSE "system"), System!To("unwind") PROVE SysInv'
  <2>1. /\ op' = op /\ last' = last /\ pc' = "unwind" /\ UNCHANGED <<raised, wrong>>
    BY <1>5 DEF System!To, System!Goto, System!GotoWith
  <2>2. /\ (Under' <=> Under) /\ Place' = Place /\ (InMove' <=> InMove) /\ (Apart' <=> Apart)
        /\ Shape' /\ \A i : Undoes(i)' <=> Undoes(i)
    BY <1>1, SameFrames DEF SysInv
  <2>3. ~Apart /\ Len(frames) >= Place
    BY <1>3 DEF InMove, Apart
  <2>4. SysType'
    BY <1>1, <1>2, <1>4, <2>1 DEF SysInv, SysType, SysSteps, Flags
  <2>5. Where' /\ OfMethod' /\ Mode'
    BY <1>2, <1>3, <2>1, <2>2 DEF Where, OfMethod, Mode, Replacing, ModeEntry, ModeSteps
  <2>6. ~Moving'
    BY <2>1 DEF Moving, ToMode, ModeEntry, ModeSteps
  <2>7. Files'
    <3>1. ~(System!Ended("StripSystemApps") \/ System!Ended("RemoveSystemApps"))'
      BY <1>3, <2>1 DEF SysInv, Files, System!Ended
    <3> QED BY <1>1, <2>1, <2>2, <2>3, <2>6, <3>1 DEF Files
  <2>8. Kept'
    BY <1>1, <1>3, <1>5, <2>1, <2>2, <2>3, <2>6, SameWrong DEF SysInv, Kept, Replacing, Stored,
       Idling, ToMode, ModeEntry, ModeSteps
  <2>9. Saved'
    BY <1>1, <1>3, <2>1, SameSaved DEF Replacing, ModeSteps
  <2> QED BY <1>1, <2>1, <2>2, <2>4, <2>5, <2>7, <2>8, <2>9, InCallSys
<1>6. ASSUME System!Fails PROVE SysInv'
  <2>1. Unharmed
    BY <1>1, <1>3, <1>4 DEF Unharmed
  <2> QED BY <1>1, <1>2, <1>6, <2>1, FailsKeepsSys
<1> QED BY <1>1, <1>5, <1>6

LEMMA NoMoveKeepsSys == SysInv /\ System!NoMove => SysInv'
<1> SUFFICES ASSUME SysInv, System!NoMove PROVE SysInv'
  OBVIOUS
<1>1. /\ pc = "NoMove" /\ op # "none" /\ (System!To("unwind") \/ System!Fails)
      /\ UNCHANGED <<sysApp, store, replaced, root, prop, rw, stopped, first, frames>>
  BY DEF System!NoMove, System!At, System!device, SysInv, SysType
<1>2. Flags' /\ (prop' => rw' /\ root')
  BY <1>1 DEF SysInv, SysType, Mode, Flags
<1>3. /\ Replacing /\ InMove /\ Len(frames) \in Nat /\ Place \in {1, 2}
  BY <1>1, SysPlace DEF SysInv, SysType, SystemCalls, Replacing, Where, OfMethod, ModeEntry, ModeSteps
<1>4. ASSUME System!To("unwind") PROVE SysInv'
  <2>1. /\ op' = op /\ last' = last /\ pc' = "unwind" /\ UNCHANGED <<raised, wrong>>
    BY <1>4 DEF System!To, System!Goto, System!GotoWith
  <2>2. /\ (Under' <=> Under) /\ Place' = Place /\ (InMove' <=> InMove) /\ (Apart' <=> Apart)
        /\ Shape' /\ \A i : Undoes(i)' <=> Undoes(i)
    BY <1>1, SameFrames DEF SysInv
  <2>3. ~Apart
    BY <1>3 DEF InMove, Apart
  <2>4. SysType'
    BY <1>1, <1>2, <2>1 DEF SysInv, SysType, SysSteps, Flags
  <2>5. Where' /\ OfMethod' /\ Mode'
    BY <1>2, <1>3, <2>1, <2>2 DEF Where, OfMethod, Mode, Replacing, ModeEntry, ModeSteps
  <2>6. Files' /\ Kept'
    BY <1>1, <1>3, <2>1, <2>2, <2>3, SameWrong DEF SysInv, Files, Kept, Replacing, Stored, Moving,
       Idling, ToMode, ModeEntry, ModeSteps, System!Ended
  <2>7. Saved'
    BY <1>1, <1>3, <2>1, SameSaved DEF Replacing, ModeSteps
  <2> QED BY <1>1, <2>1, <2>2, <2>4, <2>5, <2>6, <2>7, InCallSys
<1>5. ASSUME System!Fails PROVE SysInv'
  <2>1. Unharmed
    BY <1>1 DEF Unharmed
  <2> QED BY <1>1, <1>2, <1>5, <2>1, FailsKeepsSys
<1> QED BY <1>1, <1>4, <1>5

\* The removal of apps, and the call that holds the mode around a replacement.
LEMMA RemoveAppsKeepsSys ==
  SysInv /\ (System!RemoveSystemApps \/ System!EnableSystemAppModification) => SysInv'
<1> SUFFICES ASSUME SysInv, System!RemoveSystemApps \/ System!EnableSystemAppModification PROVE SysInv'
  OBVIOUS
<1>1. /\ pc \in {"RemoveSystemApps", "EnableSystemAppModification"} /\ op # "none"
      /\ UNCHANGED <<sysApp, store, replaced, root, prop, rw, stopped, first, frames>>
      /\ \/ /\ pc = "RemoveSystemApps" /\ UNCHANGED <<raised, wrong>>
            /\ System!GotoWith("GetProp", [kind |-> "user", then |-> "RemovePath"])
         \/ /\ pc = "EnableSystemAppModification" /\ UNCHANGED <<raised, wrong>>
            /\ System!GotoWith("GetProp", [kind |-> "user", then |-> "ReplaceSystemApp"])
         \/ pc = "RemoveSystemApps" /\ sysApp # "system" /\ System!To("unwind")
         \/ System!Fails
  BY DEF System!RemoveSystemApps, System!EnableSystemAppModification, System!At, System!device,
         System!sysVars, SysInv, SysType
<1>2. Flags' /\ (prop' => rw' /\ root') /\ raised \in BOOLEAN
  BY <1>1 DEF SysInv, SysType, Mode, Flags
<1>3. /\ Len(frames) = 0 /\ ~Under /\ ~Apart /\ ~InMove /\ Place = 1
      /\ op # "StripSystemApps"
      /\ pc = "RemoveSystemApps" => op = "RemoveSystemApps"
      /\ pc = "EnableSystemAppModification" => Replacing /\ op # "RemoveSystemApps"
  <2>1. Len(frames) = 0
    BY <1>1 DEF SysInv, Where
  <2>2. ~Under /\ ~Apart /\ ~InMove /\ Place = 1
    BY <2>1 DEF Under, Apart, InMove, Place
  <2> QED BY <1>1, <2>1, <2>2 DEF SysInv, SysType, SystemCalls, OfMethod, Replacing, ModeEntry,
     ModeSteps
<1>4. /\ (Under' <=> Under) /\ Place' = Place /\ (InMove' <=> InMove) /\ (Apart' <=> Apart)
      /\ Shape' /\ \A i : Undoes(i)' <=> Undoes(i)
  BY <1>1, SameFrames DEF SysInv
<1>5. ASSUME op' = op, last' = last, UNCHANGED <<raised, wrong>>,
             \/ pc = "RemoveSystemApps" /\ pc' = "GetProp"
                  /\ loc' = [kind |-> "user", then |-> "RemovePath"]
             \/ pc = "EnableSystemAppModification" /\ pc' = "GetProp"
                  /\ loc' = [kind |-> "user", then |-> "ReplaceSystemApp"]
             \/ pc = "RemoveSystemApps" /\ sysApp # "system" /\ pc' = "unwind"
      PROVE  SysInv'
  <2>1. SysType'
    BY <1>1, <1>2, <1>5 DEF SysInv, SysType, SysSteps, ModeEntry, Flags
  <2>2. Where' /\ OfMethod' /\ Mode'
    BY <1>1, <1>2, <1>3, <1>4, <1>5 DEF Where, OfMethod, Mode, Replacing, ModeEntry, ModeSteps
  <2>3. ~Moving' /\ ~Idling'
    BY <1>5 DEF Moving, Idling, ToMode, ModeEntry, ModeSteps
  <2>4. Files' /\ Kept'
    BY <1>1, <1>3, <1>4, <1>5, <2>3, SameWrong DEF SysInv, Files, Kept, Replacing, Stored, Moving,
       Idling, ToMode, ModeEntry, ModeSteps, System!Ended
  <2>5. Saved'
    BY <1>1, <1>3, <1>5, SameSaved DEF ModeSteps
  <2> QED BY <1>1, <1>4, <1>5, <2>1, <2>2, <2>4, <2>5, InCallSys
<1>6. ASSUME System!Fails PROVE SysInv'
  <2>1. Unharmed
    BY <1>1 DEF Unharmed
  <2> QED BY <1>1, <1>2, <1>6, <2>1, FailsKeepsSys
<1> QED BY <1>1, <1>5, <1>6 DEF System!GotoWith, System!To, System!Goto

LEMMA RemovePathKeepsSys == SysInv /\ System!RemovePath => SysInv'
<1> SUFFICES ASSUME SysInv, System!RemovePath PROVE SysInv'
  OBVIOUS
<1>1. /\ pc = "RemovePath" /\ op # "none"
      /\ UNCHANGED <<store, replaced, root, prop, rw, stopped, first, frames>>
      /\ \/ sysApp' = "none" /\ System!To("unwind")
         \/ (sysApp' = "none" \/ sysApp' = sysApp) /\ System!Fails
  BY DEF System!RemovePath, System!At, System!Do, SysInv, SysType
<1>2. Flags' /\ (prop' => rw' /\ root') /\ raised \in BOOLEAN
  BY <1>1 DEF SysInv, SysType, Mode, Flags
<1>3. /\ op = "RemoveSystemApps" /\ Len(frames) = 1 /\ Under /\ Place = 2 /\ ~Apart
  <2>1. op = "RemoveSystemApps" /\ Len(frames) = 1 /\ Under
    BY <1>1 DEF SysInv, SysType, SystemCalls, Where, OfMethod, ModeEntry, ModeSteps
  <2> QED BY <2>1 DEF Place, Apart
<1>4. ASSUME sysApp' = "none", System!To("unwind") PROVE SysInv'
  <2>1. /\ op' = op /\ last' = last /\ pc' = "unwind" /\ UNCHANGED <<raised, wrong>>
    BY <1>4 DEF System!To, System!Goto, System!GotoWith
  <2>2. /\ (Under' <=> Under) /\ Place' = Place /\ (InMove' <=> InMove) /\ (Apart' <=> Apart)
        /\ Shape' /\ \A i : Undoes(i)' <=> Undoes(i)
    BY <1>1, SameFrames DEF SysInv
  <2>3. SysType'
    BY <1>1, <1>2, <1>4, <2>1 DEF SysInv, SysType, SysSteps, Flags
  <2>4. Where' /\ OfMethod' /\ Mode'
    BY <1>1, <1>2, <1>3, <1>4, <2>1, <2>2 DEF Where, OfMethod, Mode, Replacing, ModeEntry,
       ModeSteps
  <2>5. Files' /\ Kept'
    BY <1>1, <1>3, <1>4, <2>1, <2>2 DEF Files, Kept, Replacing, Moving, ToMode, ModeEntry, ModeSteps,
       System!Ended
  <2>6. Saved'
    BY <1>1, <1>3, <2>1, SameSaved DEF ModeSteps
  <2> QED BY <1>1, <2>1, <2>2, <2>3, <2>4, <2>5, <2>6, InCallSys
<1>5. ASSUME System!Fails PROVE SysInv'
  <2>1. Unharmed
    BY <1>1, <1>3 DEF Unharmed
  <2> QED BY <1>1, <1>2, <1>5, <2>1, FailsKeepsSys
<1> QED BY <1>1, <1>4, <1>5

\* The removal without the mode, which holds no context.
LEMMA StripKeepsSys ==
  SysInv /\ (System!StripSystemApps \/ System!StripPath \/ System!StartFramework) => SysInv'
<1> SUFFICES ASSUME SysInv, System!StripSystemApps \/ System!StripPath \/ System!StartFramework PROVE SysInv'
  OBVIOUS
<1>1. /\ pc \in {"StripSystemApps", "StripPath", "StartFramework"} /\ op # "none"
      /\ UNCHANGED <<store, replaced, prop, rw, first, frames>>
      /\ root' = root \/ root' = TRUE
      /\ stopped' = stopped \/ stopped' = FALSE
      /\ sysApp' = sysApp \/ (pc = "StripPath" /\ sysApp' = "none")
      /\ \/ /\ pc = "StripSystemApps" /\ root' = TRUE /\ sysApp' = sysApp /\ stopped' = stopped
            /\ sysApp = "system" /\ UNCHANGED <<raised, wrong>>
            /\ System!GotoWith("DisableVerity", [kind |-> "strip"])
         \/ /\ pc = "StripSystemApps" /\ sysApp' = sysApp /\ stopped' = stopped
            /\ sysApp # "system" /\ System!To("unwind")
         \/ pc = "StripPath" /\ sysApp' = "none" /\ System!To("StartFramework")
         \/ pc = "StartFramework" /\ stopped' = FALSE /\ sysApp' = sysApp /\ System!To("unwind")
         \/ System!Fails
  <2>1. CASE System!StripSystemApps
    BY <2>1 DEF System!StripSystemApps, System!At, SysInv, SysType
  <2>2. CASE System!StripPath
    BY <2>2 DEF System!StripPath, System!Do, System!At, SysInv, SysType
  <2>3. CASE System!StartFramework
    BY <2>3 DEF System!StartFramework, System!Do, System!At, SysInv, SysType
  <2> QED BY <2>1, <2>2, <2>3
<1>2. Flags' /\ (prop' => rw' /\ root') /\ raised \in BOOLEAN
  <2>1. Flags /\ (prop => rw /\ root) /\ raised \in BOOLEAN
    BY DEF SysInv, SysType, Mode, Flags
  <2>2. root' \in BOOLEAN /\ (prop' => rw' /\ root')
    <3>1. CASE root' = root
      BY <1>1, <2>1, <3>1 DEF Flags
    <3>2. CASE root' = TRUE
      BY <1>1, <2>1, <3>2 DEF Flags
    <3> QED BY <1>1, <3>1, <3>2
  <2>3. stopped' \in BOOLEAN
    BY <1>1, <2>1 DEF Flags
  <2> QED BY <1>1, <2>1, <2>2, <2>3 DEF Flags
<1>3. /\ Len(frames) = 0 /\ ~Under /\ ~Apart /\ ~InMove /\ Place = 1
      /\ op = "StripSystemApps"
  <2>1. Len(frames) = 0
    BY <1>1 DEF SysInv, Where
  <2>2. ~Under /\ ~Apart /\ ~InMove /\ Place = 1
    BY <2>1 DEF Under, Apart, InMove, Place
  <2> QED BY <1>1, <2>1, <2>2 DEF SysInv, SysType, SystemCalls, OfMethod, Replacing, ModeEntry,
     ModeSteps
<1>4. /\ (Under' <=> Under) /\ Place' = Place /\ (InMove' <=> InMove) /\ (Apart' <=> Apart)
      /\ Shape' /\ \A i : Undoes(i)' <=> Undoes(i)
  BY <1>1, SameFrames DEF SysInv
<1>5. ASSUME op' = op, last' = last, UNCHANGED <<raised, wrong>>,
             \/ /\ pc = "StripSystemApps" /\ root' = TRUE /\ pc' = "DisableVerity"
                /\ loc' = [kind |-> "strip"] /\ sysApp' = sysApp
             \/ /\ pc = "StripSystemApps" /\ sysApp' = sysApp /\ stopped' = stopped
                /\ sysApp # "system" /\ pc' = "unwind"
             \/ pc = "StripPath" /\ sysApp' = "none" /\ pc' = "StartFramework"
             \/ pc = "StartFramework" /\ stopped' = FALSE /\ sysApp' = sysApp /\ pc' = "unwind"
      PROVE  SysInv'
  <2>1. SysType'
    BY <1>1, <1>2, <1>5 DEF SysInv, SysType, SysSteps, ModeSteps, Flags
  <2>2. Where' /\ Mode'
    BY <1>1, <1>2, <1>3, <1>4, <1>5 DEF Where, Mode, ModeEntry, ModeSteps
  <2>3. OfMethod'
    BY <1>1, <1>3, <1>4, <1>5 DEF SysInv, OfMethod, ModeEntry, ModeSteps
  <2>4. ~Moving'
    BY <1>5 DEF Moving, ToMode, ModeEntry, ModeSteps
  <2>5. Files' /\ Kept'
    BY <1>1, <1>3, <1>4, <1>5, <2>4 DEF SysInv, Files, Kept, Replacing, System!Ended
  <2>6. Saved'
    <3>1. Back' /\ Knows'
      BY <1>1, <1>3, <1>5 DEF Back, Knows
    <3>2. RunsAgain'
      BY <1>1, <1>3, <1>5, SameWrong DEF SysInv, Saved, RunsAgain, BeforeStop
    <3>3. Caller'
      BY <1>1, <1>3, <1>4, <1>5 DEF Caller, InUse
    <3>4. Replacement'
      BY <1>1, <1>4, <1>5, SameWrong DEF SysInv, Saved, Replacement
    <3> QED BY <3>1, <3>2, <3>3, <3>4 DEF Saved
  <2> QED BY <1>1, <1>4, <1>5, <2>1, <2>2, <2>3, <2>5, <2>6, InCallSys
<1>6. ASSUME System!Fails PROVE SysInv'
  <2>1. Unharmed
    BY <1>1, <1>3 DEF Unharmed
  <2> QED BY <1>1, <1>2, <1>6, <2>1, FailsKeepsSys
<1> QED BY <1>1, <1>5, <1>6 DEF System!GotoWith, System!To, System!Goto

LEMMA SysEndKeepsSys == SysInv /\ System!Done => SysInv'
<1> SUFFICES ASSUME SysInv, System!Done PROVE SysInv'
  OBVIOUS
<1>1. /\ pc = "unwind" /\ op # "none" /\ frames = <<>> /\ op' = "none" /\ pc' = "none"
      /\ last' = [op |-> op, how |-> IF raised THEN "raised" ELSE "ok"]
      /\ UNCHANGED <<sysApp, store, replaced, root, prop, rw, stopped, first, frames, raised, wrong>>
  BY DEF System!Done, System!At, System!End, System!sysVars, SysInv, SysType
<1>2. /\ Len(frames) = 0 /\ ~Under /\ ~Apart /\ ~InMove /\ Place = 1
  <2>1. Len(frames) = 0
    BY <1>1
  <2> QED BY <2>1 DEF Under, Apart, InMove, Place
<1>3. /\ (Under' <=> Under) /\ Place' = Place /\ (InMove' <=> InMove) /\ (Apart' <=> Apart)
      /\ Shape' /\ \A i : Undoes(i)' <=> Undoes(i)
  BY <1>1, SameFrames DEF SysInv
<1>4. sysApp # "stored"
  BY <1>2 DEF SysInv, Files
<1>5. SysType'
  BY <1>1 DEF SysInv, SysType
<1>6. Where' /\ OfMethod' /\ Mode' /\ Saved' /\ Kept'
  <2>1. Where' /\ OfMethod' /\ Mode'
    BY <1>1, <1>2, <1>3 DEF SysInv, Where, OfMethod, Mode, ModeEntry, ModeSteps
  <2>2. Saved'
    BY <1>1, <1>2, <1>3 DEF Saved, Back, Knows, RunsAgain, Caller, InUse, Replacement
  <2>3. Kept'
    BY <1>1 DEF Kept, Replacing
  <2> QED BY <2>1, <2>2, <2>3
<1>7. System!Ended("StripSystemApps")' \/ System!Ended("RemoveSystemApps")' => sysApp \in {"gone", "none"}
  <2>1. SUFFICES ASSUME System!Ended("StripSystemApps")' \/ System!Ended("RemoveSystemApps")'
                 PROVE  sysApp \in {"gone", "none"}
    OBVIOUS
  <2>2. last'.op = op /\ last'.how = (IF raised THEN "raised" ELSE "ok")
    BY <1>1
  <2>3. op \in {"StripSystemApps", "RemoveSystemApps"} /\ ~raised
    BY <2>1, <2>2 DEF System!Ended
  <2>4. sysApp # "system"
    BY <1>1, <2>3 DEF SysInv, OfMethod
  <2> QED BY <1>4, <2>4 DEF SysInv, SysType
<1>8. Files'
  BY <1>1, <1>2, <1>3, <1>4, <1>7 DEF Files, Moving, ToMode, ModeEntry, ModeSteps
<1>9. /\ op # "StripSystemApps" /\ Given => (rw => first.rw) /\ (stopped => first.stopped)
      /\ op # "StripSystemApps" /\ Rooted => root = first.root
      /\ op = "StripSystemApps" /\ Ran => (stopped => first.stopped)
      /\ Own => (replaced => first.replaced)
      /\ Replacing /\ Held => sysApp = first.app
  <2>1. Nothing
    BY <1>2 DEF Nothing
  <2>2. Own => (replaced => first.replaced)
    BY <1>1, <1>2 DEF SysInv, Saved, Replacement
  <2>3. Replacing /\ Held => sysApp = first.app
    BY <1>2, <1>4 DEF SysInv, Kept, Stored
  <2>4. op = "StripSystemApps" /\ Ran => (stopped => first.stopped)
    BY <1>1 DEF SysInv, Saved, RunsAgain, BeforeStop
  <2> QED BY <1>1, <2>1, <2>2, <2>3, <2>4 DEF SysInv, Saved, Back
<1>10. System!ReplacementIsUndone'
  <2>1. SUFFICES ASSUME last'.op \in {"ReplaceSystemApp", "EnableSystemAppModification"}
                 PROVE  /\ wrong' \cap System!ToMove = {} => sysApp' = first'.app
                        /\ wrong' \cap {"Install", "unwind"} = {} => (replaced' => first'.replaced)
                        /\ wrong' \cap {"LeaveModify"} = {} => (rw' => first'.rw)
                        /\ wrong' \cap {"EnableRoot", "LeaveModify"} = {} => root' = first'.root
    BY DEF System!ReplacementIsUndone, System!Fine, System!ToMove
  <2>2. Replacing /\ op # "StripSystemApps"
    BY <1>1, <2>1 DEF Replacing
  <2>3. /\ wrong \cap System!ToMove = {} => Held
        /\ wrong \cap {"Install", "unwind"} = {} => Own
        /\ wrong \cap {"LeaveModify"} = {} => Given
        /\ wrong \cap {"EnableRoot", "LeaveModify"} = {} => Rooted
    BY DEF Held, Own, Given, Rooted
  <2>4. /\ wrong \cap System!ToMove = {} => sysApp = first.app
        /\ wrong \cap {"Install", "unwind"} = {} => (replaced => first.replaced)
        /\ wrong \cap {"LeaveModify"} = {} => (rw => first.rw)
        /\ wrong \cap {"EnableRoot", "LeaveModify"} = {} => root = first.root
    BY <1>9, <2>2, <2>3
  <2>5. UNCHANGED <<sysApp, replaced, rw, root, wrong, first>>
    BY <1>1
  <2> QED BY <2>4, <2>5
<1>11. System!FrameworkRuns'
  <2>1. System!Ended("StripSystemApps")' \/ System!Ended("RemoveSystemApps")' => sysApp' # "system"
    BY <1>1, <1>7
  <2> DEFINE Set == IF last'.op = "StripSystemApps"
                    THEN {"StopFramework", "StripPath", "StartFramework"} ELSE {"LeaveModify"}
  <2>2. SUFFICES ASSUME stopped', ~first'.stopped PROVE wrong' \cap Set # {}
    BY <2>1 DEF System!FrameworkRuns, System!Fine
  <2>3. UNCHANGED <<stopped, wrong, first>> /\ last'.op = op
    BY <1>1
  <2>4. stopped /\ ~first.stopped
    BY <2>2, <2>3
  <2>5. op = "StripSystemApps" => ~Ran
    BY <1>9, <2>4
  <2>6. op # "StripSystemApps" => ~Given
    BY <1>9, <2>4
  <2>7. (~Ran => wrong \cap {"StopFramework", "StripPath", "StartFramework"} # {})
        /\ (~Given => wrong \cap {"LeaveModify"} # {})
    BY DEF Ran, Given
  <2>8. CASE op = "StripSystemApps"
    BY <2>3, <2>5, <2>7, <2>8
  <2>9. CASE op # "StripSystemApps"
    BY <2>3, <2>6, <2>7, <2>9
  <2> QED BY <2>8, <2>9
<1>12. System!ScopeStaysOpen'
  BY <1>1 DEF System!ScopeStaysOpen
<1> QED BY <1>3, <1>5, <1>6, <1>8, <1>10, <1>11, <1>12 DEF SysInv

LEMMA SysCallKeepsSys == SysInv /\ System!SysArgs => SysInv'
<1> SUFFICES ASSUME SysInv, System!SysArgs PROVE SysInv'
  OBVIOUS
<1>1. /\ op = "none" /\ op' \in SystemCalls /\ pc' = op' /\ last' = last
      /\ UNCHANGED <<sysApp, store, replaced, root, prop, rw, stopped, frames>>
      /\ raised' = FALSE /\ wrong' = {}
      /\ first' = [app |-> sysApp, root |-> root, rw |-> rw, replaced |-> replaced, stopped |-> stopped,
                   verity |-> first.verity]
  BY DEF System!SysArgs, System!Call, System!Idle, System!device, SystemCalls
<1>2. /\ Len(frames) = 0 /\ ~Under /\ ~Apart /\ ~InMove /\ Place = 1
  <2>1. Len(frames) = 0
    BY <1>1 DEF SysInv, SysType, Where
  <2> QED BY <2>1 DEF Under, Apart, InMove, Place
<1>3. /\ (Under' <=> Under) /\ Place' = Place /\ (InMove' <=> InMove) /\ (Apart' <=> Apart)
      /\ Shape' /\ (Nothing' <=> Nothing) /\ \A i : Undoes(i)' <=> Undoes(i)
  BY <1>1, SameFrames DEF SysInv
<1>4. sysApp # "stored"
  BY <1>2 DEF SysInv, Files
<1>5. /\ first'.app = sysApp /\ first'.root = root /\ first'.rw = rw /\ first'.replaced = replaced
      /\ first'.stopped = stopped
  BY <1>1
<1>6. op' # "none"
  BY <1>1 DEF SystemCalls
<1>7. SysType'
  BY <1>1, <1>4, <1>5, <1>6 DEF SysInv, SysType
<1>8. Where' /\ OfMethod' /\ Mode'
  BY <1>1, <1>2, <1>3 DEF SysInv, Where, OfMethod, Mode, SystemCalls, ModeEntry, ModeSteps
<1>9. Files'
  BY <1>1, <1>2, <1>3, <1>4 DEF SysInv, Files, Moving, ToMode, SystemCalls, ModeEntry, ModeSteps,
     System!Ended
<1>10. Saved'
  BY <1>1, <1>2, <1>3, <1>5 DEF Saved, Back, Knows, RunsAgain, Caller, InUse, Replacement, SystemCalls
<1>11. Kept'
  BY <1>1, <1>2, <1>3, <1>5 DEF Kept, Moving, Idling, ToMode, SystemCalls, ModeEntry, ModeSteps
<1> QED BY <1>3, <1>6, <1>7, <1>8, <1>9, <1>10, <1>11, InCallSys

LEMMA SysStays == SysInv /\ System!SysNext => SysInv'
  BY SysCallKeepsSys, EntryKeepsSys, RootKeepsSys, ModeStepsKeepSys, ModeOffKeepsSys,
     StorageKeepsSys,
     FindPathsKeepsSys, MoveKeepsSys, NoMoveKeepsSys, InstallKeepsSys, BodyKeepsSys, QuietlyKeepsSys,
     RelocatedKeepsSys,
     UninstallKeepsSys, WayBackKeepsSys, StorageGoesKeepsSys, SysEndKeepsSys,
     RemoveAppsKeepsSys,
     RemovePathKeepsSys, StripKeepsSys DEF System!SysNext

LEMMA SysIdle == SysInv /\ UNCHANGED <<callVars, system>> => SysInv'
<1> SUFFICES ASSUME SysInv, UNCHANGED <<callVars, system>> PROVE SysInv'
  OBVIOUS
<1>1. UNCHANGED <<op, pc, loc, last, sysApp, replaced, root, prop, rw, stopped, frames, raised, wrong, first>>
  BY DEF callVars, system
<1>2. /\ (Under' <=> Under) /\ Place' = Place /\ (InMove' <=> InMove) /\ (Apart' <=> Apart)
      /\ Shape' /\ (Nothing' <=> Nothing) /\ \A i : Undoes(i)' <=> Undoes(i)
  BY <1>1, SameFrames DEF SysInv
<1>3. SysType' /\ Mode'
  BY <1>1 DEF SysInv, SysType, Mode
<1>4. Where' /\ OfMethod'
  BY <1>1, <1>2 DEF SysInv, Where, OfMethod
<1>5. Files' /\ Kept'
  BY <1>1, <1>2 DEF SysInv, Files, Kept, Moving, Idling, ToMode, Held, Replacing, Stored, System!Ended
<1>6. Saved'
  <2>1. Back' /\ Knows'
    BY <1>1, <1>2, SameWrong DEF SysInv, Saved, Back, Knows
  <2>2. RunsAgain' /\ Caller' /\ Replacement'
    BY <1>1, <1>2, SameWrong DEF SysInv, Saved, RunsAgain, Caller, InUse, Replacement
  <2> QED BY <2>1, <2>2 DEF Saved
<1>7. System!ReplacementIsUndone' /\ System!ScopeStaysOpen' /\ System!FrameworkRuns'
  BY <1>1 DEF SysInv, System!ReplacementIsUndone, System!ScopeStaysOpen, System!FrameworkRuns, System!Idle, System!Fine,
     System!At, System!Ended
<1> QED BY <1>2, <1>3, <1>4, <1>5, <1>6, <1>7 DEF SysInv

\* While another tool is in use, the apps are as they were found.
Untouched == /\ sysApp = first.app /\ root = first.root /\ replaced = FALSE /\ rw = FALSE
             /\ frames = <<>>

\* ReplacementIsUndone for any number of calls, under the caller's own mode or without:
\* the app is where it was when a replacement is over, the mode was given back as it was
\* found, the moves left it on under the caller's, and the framework runs.
THEOREM AppsComeBack == Spec => []ReplacementIsUndone
<1> DEFINE IInv == IF script = SystemCalls THEN SysInv ELSE Untouched
<1>1. Init => IInv
  <2>1. ASSUME Init, script # SystemCalls PROVE Untouched
    <3>1. frames = <<>> /\ replaced = FALSE /\ rw = FALSE /\ first.app = sysApp /\ first.root = root
      BY <2>1 DEF Init, System!SysInit
    <3> QED BY <3>1 DEF Untouched
  <2> QED BY <2>1, SysStarts
<1>2. ASSUME IInv, [Next]_vars PROVE IInv'
  <2>1. ASSUME UNCHANGED system, Untouched PROVE Untouched'
    BY <2>1 DEF Untouched, system
  <2>2. CASE Next
    <3>1. /\ script' = script
          /\ (script = SystemCalls /\ System!SysNext) \/ (script # SystemCalls /\ UNCHANGED system)
      BY <2>2, ScriptStays, OwnSteps
    <3> QED BY <1>2, <2>1, <3>1, SysStays
  <2>3. CASE UNCHANGED vars
    <3>1. script' = script /\ UNCHANGED <<callVars, system>>
      BY <2>3 DEF vars, callVars
    <3> QED BY <1>2, <2>1, <3>1, SysIdle
  <2> QED BY <1>2, <2>2, <2>3
<1>3. IInv => ReplacementIsUndone
  <2>1. SysInv => ReplacementIsUndone
    BY DEF SysInv, ReplacementIsUndone
  <2>2. Untouched /\ script # SystemCalls => ReplacementIsUndone
    BY DEF Untouched, ReplacementIsUndone, System!ReplacementIsUndone, System!ScopeStaysOpen
  <2> QED BY <2>1, <2>2
<1> QED BY <1>1, <1>2, <1>3, PTL DEF Spec
-------------------------------------------------------------------------------
(* Settings: given back, whichever of the commands raised                      *)

Measures == {"BatteryMeasurement", "DisableBatteryUpdates", "EnableBatteryUpdates"}
Powers   == {"PowerMeasurement", "SetCharging"}
Modes    == {"SetHighPerfMode", "SetDefaultPerfMode"}
Changes  == {"ReplaceFlags", "Restore"}

\* A block is entered, and a wait begun, by their own scripts only; what runs, waits or
\* has ended is a call of the script.
OwnScript ==
  /\ script \notin Blocks => block = "before"
  /\ script \notin Cares => wait = Settings!NoWait
  /\ {wait.for, wait.was} \subseteq script \cup {"none"}
  /\ script \in Blocks /\ block \in {"before", "body", "after"} => op = "none"
  /\ script \in Blocks \cup Cares => op \in script \cup {"none"} /\ (op = "none" => pc = "none")
  /\ script \in Blocks => last.op \in script \cup {"none"}

\* The call that restores has ended well.
GivenBack == block \in {"exit", "after"} /\ op = "none" /\ ~Failed

\* Measurements: the reports are real once EnableBatteryUpdates has reset them.
Reports ==
  /\ block = "exit" /\ op # "none" =>
       op = "EnableBatteryUpdates" /\ pc \in {"EnableBatteryUpdates", "Resumed"}
  /\ pc = "Resumed" \/ GivenBack => ~Settings!Faked

ChargingSteps == {"SetCharging", "ClearUsb", "ClearAc", "ClearStats", "ClearReset", "Hardware", "SetAc",
                  "SetUsb", "Verify", "EnableBatteryUpdates", "Resumed"}

\* Power measurements: charging is off only where the device shows it (usb and ac "0"),
\* so that SetCharging does not take the device for charged, unless a command stopped
\* half way; and no step after the one that enables charging is reached without it.
Charging ==
  /\ op # "none" => op = "SetCharging" /\ arg.on \in BOOLEAN /\ pc \in ChargingSteps
  /\ block = "exit" /\ op # "none" => arg.on
  /\ ~HasHardware => hw
  /\ pc = "Hardware" => HasHardware
  /\ pc = "EnableBatteryUpdates" => ~HasHardware
  /\ pc \in {"ClearUsb", "ClearAc", "ClearStats", "ClearReset", "SetAc", "SetUsb"} => ~arg.on
  /\ pc = "Hardware" /\ ~arg.on => usb = "real" /\ ac = "real"
  /\ ~half =>
       /\ hw \/ (usb = "0" /\ ac = "0")
       /\ pc \in {"ClearUsb", "ClearAc", "ClearStats", "ClearReset", "Hardware", "SetAc", "SetUsb"}
            /\ ~arg.on => hw
       /\ pc \in {"Verify", "Resumed", "EnableBatteryUpdates"} /\ arg.on => hw
       /\ GivenBack => hw

AtDefault == \A c \in Cpu : governor[c] = "default" /\ freq[c] = "default"
AtFull    == ~mpRuns /\ \A c \in Cpu : online[c] /\ governor[c] = "performance"

\* While SetHighPerfMode runs: mpdecision off, then every core on, then at full speed.
ModeComesUp ==
  /\ pc \in {"AllOnline", "Performance", "Frequencies", "Gpu"} /\ op = "SetHighPerfMode" => ~mpRuns
  /\ pc \in {"Performance", "Frequencies", "Gpu"} /\ op = "SetHighPerfMode" => \A c \in Cpu : online[c]
  /\ pc \in {"Frequencies", "Gpu"} /\ op = "SetHighPerfMode" => AtFull

CoresType == /\ online \in [Cpu -> BOOLEAN] /\ governor \in [Cpu -> {"default", "performance", "powersave"}]
             /\ freq \in [Cpu -> {"default", "limited"}]

\* How far SetHighPerfMode and SetDefaultPerfMode are, and the mode they set.
UpSteps   == {"SetHighPerfMode", "StopMpDecision", "AllOnline", "Performance", "Frequencies", "Gpu"}
DownSteps == {"SetDefaultPerfMode", "Frequencies", "Gpu", "StartMpDecision"}
ModeCalls ==
  /\ op \in {"none", "SetHighPerfMode", "SetDefaultPerfMode"}
  /\ op = "SetHighPerfMode" => pc \in UpSteps
  /\ op = "SetDefaultPerfMode" => pc \in DownSteps
  /\ pc \in {"Frequencies", "Gpu"} =>
       /\ loc.to = IF op = "SetHighPerfMode" THEN "limited" ELSE "default"
       /\ before.def # "none" => before.def = "all"

\* While SetDefaultPerfMode runs: the governors back, then the frequencies.
ModeGoesDown ==
  op = "SetDefaultPerfMode" =>
    /\ pc \in {"Frequencies", "Gpu", "StartMpDecision"} => \A c \in Cpu : governor[c] = "default"
    /\ pc \in {"Gpu", "StartMpDecision"} => \A c \in Cpu : freq[c] = "default"

\* A core that has another mode than its own is on, and mpdecision is not at work.
Outside == /\ mpRuns => AtDefault
           /\ \A c \in Cpu : ~online[c] => governor[c] = "default" /\ freq[c] = "default"
           /\ before.def # "all" => \A c \in Cpu : freq[c] = "default"

\* The performance mode and its block.
Cores ==
  /\ op = "SetHighPerfMode" => block = "enter"
  /\ op = "SetDefaultPerfMode" => block = "exit"
  /\ block = "exit" /\ op = "none" => last.op = "SetDefaultPerfMode"
  /\ before.def # "none" =>
       /\ ModeComesUp /\ ModeGoesDown /\ Outside
       /\ block \in {"enter", "body"} /\ op = "none" /\ Ended("SetHighPerfMode") => AtFull
       /\ block \in {"exit", "after"} /\ op = "none" /\ Ended("SetDefaultPerfMode") =>
            AtDefault /\ mpRuns = MpDecision

\* The flags: the bottom of the stack is the file there was, a level is pushed for every
\* block and its file written; SELinux is to be reset if it was turned off.
FlagStack ==
  /\ Len(stack) >= 1 /\ stack[1] = before.file
  /\ stack \in Seq(SUBSET Flag)
  /\ block = "before" => Len(stack) = 1
  /\ block = "after" => Len(stack) = 1
  /\ block = "body" \/ (block = "enter" /\ op = "none") => Len(stack) >= 2
  /\ op # "none" => op = IF block = "enter" THEN "ReplaceFlags" ELSE "Restore"
  /\ op # "none" => block \in {"enter", "exit"}
  /\ op = "ReplaceFlags" => pc \in {"ReplaceFlags", "SetPermissive", "UpdateCommandLineFile"}
                            /\ (pc # "ReplaceFlags" => Len(stack) >= 2)
  /\ op = "Restore" => pc \in {"Restore", "ResetEnforce", "UpdateCommandLineFile"}
  /\ pc = "Restore" => Len(stack) >= 2
  /\ pc = "ReplaceFlags" => arg.new \in SUBSET Flag
  /\ enforce \in BOOLEAN /\ before.enforce \in BOOLEAN
  /\ enforce \/ shouldReset => before.enforce
  /\ ~half /\ before.enforce /\ ~enforce => shouldReset
  /\ pc = "SetPermissive" => enforce
  /\ pc = "ResetEnforce" => shouldReset
  /\ (op = "Restore" /\ pc = "UpdateCommandLineFile") \/ GivenBack =>
       (Len(stack) = 1 => half \/ enforce = before.enforce)
  /\ GivenBack => flagFile = stack[Len(stack)]

WaitType == wait = [for |-> wait.for, at |-> wait.at, start |-> wait.start, peak |-> wait.peak,
                    fails |-> wait.fails, polls |-> wait.polls, again |-> wait.again,
                    was |-> wait.was, how |-> wait.how]

\* The wait for a charge: every poll was a failure since the last rise, or one of fewer
\* than _MAX_CHARGE_ERROR before the level rose to where it is.
Polls ==
  /\ wait.polls \in Nat /\ wait.peak \in 0..(Target - 1) /\ wait.fails \in 0..(MaxChargeError - 1)
  /\ level \in Nat
  /\ wait.polls <= wait.peak * MaxChargeError + wait.fails

\* The wait for a cool battery: charging is on but between the two commands of a discharge.
Cooling ==
  /\ wait.for = "none" => wait.at = "none"
  /\ wait.at \in {"none", "poll", "on", "read"}
  /\ wait.at = "none" => op = "none"
  /\ wait.at = "poll" /\ op # "none" => op = "EnableBatteryUpdates" /\ pc \in {"EnableBatteryUpdates", "Resumed"}
  /\ wait.at \in {"on", "read"} =>
       IF op = "none" THEN last.op = "_HardwareSetCharging" ELSE op = "_HardwareSetCharging"
  /\ wait.at \in {"on", "read"} /\ op # "none" => pc \in {"Hardware", "Verify", op}
  /\ wait.at = "read" /\ op # "none" => arg.on
  /\ ~cut => /\ wait.at \in {"none", "poll"} => hw
             /\ wait.at = "read" /\ (pc = "Verify" \/ (op = "none" /\ ~Failed)) => hw

\* The wait for cool cores, which ends with SetHighPerfMode.
CoolCores ==
  /\ wait.for = "none" => wait.at = "none"
  /\ wait.at \in {"none", "poll", "mode"}
  /\ wait.at # "none" => wait.was = "none"
  /\ op # "none" => op = "SetHighPerfMode" /\ wait.at = "mode"
  /\ before.def # "none" =>
       /\ ModeComesUp
       /\ wait.at = "mode" /\ op = "none" /\ last.how = "ok" => AtFull
       /\ wait.was = "LetCpuCoolToTemperature" /\ wait.how = "ok" => AtFull

SettingsInv ==
  /\ OwnScript /\ WaitType
  /\ script = Measures => Reports
  /\ script = Powers => Charging
  /\ script = Modes => CoresType /\ ModeCalls /\ Cores
  /\ script = Changes => FlagStack
  /\ script = Charges => Polls
  /\ script = Cools => Cooling
  /\ script = Cpus => CoresType /\ ModeCalls /\ CoolCores

-------------------------------------------------------------------------------
\* A step of a call: it goes on, or it is over.
CallGoesOn == UNCHANGED <<op, arg, last>>
CallIsOver == op' = "none" /\ pc' = "none" /\ last'.op = op

LEMMA SettingsPaces ==
  ASSUME Settings!BatteryStep \/ Settings!PerfStep \/ Settings!FlagStep
  PROVE  pc # "none" /\ UNCHANGED <<block, before>> /\ (CallGoesOn \/ CallIsOver)
<1> USE DEF CallGoesOn, CallIsOver, Settings!End, Settings!Return, Settings!Goto, Settings!GotoWith,
        Settings!Raise, Settings!Adb, Settings!Command, Settings!Cmd
<1>1. CASE Settings!BatteryStep
  BY <1>1 DEF Settings!BatteryStep, Settings!SetCharging, Settings!DisableBatteryUpdates,
     Settings!ClearUsb, Settings!ClearAc, Settings!ClearStats, Settings!ClearReset,
     Settings!SetAc, Settings!SetUsb, Settings!Hardware, Settings!Verify,
     Settings!EnableBatteryUpdates, Settings!Resumed
<1>2. CASE Settings!PerfStep
  <2>1. UNCHANGED <<block, before>>
    BY <1>2 DEF Settings!PerfStep
  <2>2. CASE Settings!SetHighPerfMode
    BY <2>1, <2>2 DEF Settings!SetHighPerfMode
  <2>3. CASE Settings!StopMpDecision
    BY <2>1, <2>3 DEF Settings!StopMpDecision
  <2>4. CASE Settings!AllOnline
    BY <2>1, <2>4 DEF Settings!AllOnline
  <2>5. CASE Settings!Performance
    BY <2>1, <2>5 DEF Settings!Performance
  <2>6. CASE Settings!Frequencies
    BY <2>1, <2>6 DEF Settings!Frequencies
  <2>7. CASE Settings!Gpu
    BY <2>1, <2>7 DEF Settings!Gpu
  <2>8. CASE Settings!SetDefaultPerfMode
    BY <2>1, <2>8 DEF Settings!SetDefaultPerfMode
  <2>9. CASE Settings!StartMpDecision
    BY <2>1, <2>9 DEF Settings!StartMpDecision
  <2> QED BY <1>2, <2>2, <2>3, <2>4, <2>5, <2>6, <2>7, <2>8, <2>9 DEF Settings!PerfStep
<1>3. CASE Settings!FlagStep
  BY <1>3 DEF Settings!FlagStep, Settings!ReplaceFlags, Settings!SetPermissive,
     Settings!UpdateCommandLineFile, Settings!Restore, Settings!ResetEnforce
<1> QED BY <1>1, <1>2, <1>3

\* What the blocks do between calls.
LEMMA BlockPaces ==
  ASSUME Settings!Enter \/ Settings!Body \/ Settings!Finally \/ Settings!Leave
  PROVE  /\ op = "none" /\ last' = last
         /\ UNCHANGED <<hw, usb, ac, online, governor, freq, gpu, mpRuns, flagFile, enforce,
                        stack, shouldReset, half, before>>
         /\ \/ /\ block = "before" \/ Settings!Nested
               /\ block' = "enter" /\ op' \in script /\ pc' = op'
               /\ op' \in {"DisableBatteryUpdates", "SetCharging", "SetHighPerfMode", "ReplaceFlags"}
               /\ op' = "SetCharging" => arg'.on = FALSE
               /\ op' = "ReplaceFlags" => arg'.new \in SUBSET Flag
            \/ block = "enter" /\ block' = "body" /\ UNCHANGED <<op, pc>>
            \/ /\ block = "body" /\ block' = "exit" /\ op' \in script /\ pc' = op'
               /\ op' \in {"EnableBatteryUpdates", "SetCharging", "SetDefaultPerfMode", "Restore"}
               /\ op' = "SetCharging" => arg'.on = TRUE
            \/ /\ block = "exit" /\ UNCHANGED <<op, pc>>
               /\ block' = IF Len(stack) > 1 THEN "body" ELSE "after"
<1> USE DEF Settings!Call, Settings!Idle, Settings!Counted, Settings!battery, Settings!perf, Settings!flags
<1>1. CASE Settings!Enter
  BY <1>1 DEF Settings!Enter, Settings!Change
<1>2. CASE Settings!Body
  BY <1>2 DEF Settings!Body, Settings!callVars
<1>3. CASE Settings!Finally
  BY <1>3 DEF Settings!Finally, Settings!GiveBack
<1>4. CASE Settings!Leave
  BY <1>4 DEF Settings!Leave, Settings!callVars
<1> QED BY <1>1, <1>2, <1>3, <1>4

\* The steps of a wait outside the calls it makes.
Waiting ==
  \/ Settings!CallRaised \/ Settings!Drift \/ Settings!Uncharge
  \/ Settings!WaitForCharge \/ Settings!device_charged
  \/ Settings!LetBatteryCoolToTemperature \/ Settings!cool_device \/ Settings!ChargeAgain
  \/ Settings!device_discharged
  \/ Settings!LetCpuCoolToTemperature \/ Settings!cool_cpu \/ Settings!HighPerfAgain
  \/ Settings!SetDate \/ Settings!_set_and_verify_date

LEMMA CareScripts ==
  /\ Settings!Cares = Cares /\ Settings!Charges = Charges /\ Blocks = {Measures, Powers, Modes, Changes}
  /\ Cares = {Charges, Cools, Cpus, Dates}
  /\ Blocks \cap Cares = {}
  /\ \A s \in Blocks : {"WaitForCharge", "LetBatteryCoolToTemperature", "LetCpuCoolToTemperature",
                        "SetDate", "none"} \cap s = {}
  /\ \A s \in Cares : "none" \notin s
<1>1. /\ Settings!Cares = Cares /\ Settings!Charges = Charges /\ Blocks = {Measures, Powers, Modes, Changes}
      /\ Cares = {Charges, Cools, Cpus, Dates}
  BY DEF Settings!Cares, Cares, Settings!Charges, Charges, Settings!Cools, Cools, Settings!Cpus,
     Cpus, Settings!Dates, Dates, Blocks, Measures, Powers, Modes, Changes
<1>2. /\ \A s \in Blocks : {"WaitForCharge", "LetBatteryCoolToTemperature",
                           "LetCpuCoolToTemperature", "SetDate", "none"} \cap s = {}
      /\ \A s \in Cares : "none" \notin s
  BY <1>1 DEF Charges, Cools, Cpus, Dates, Measures, Powers, Modes, Changes
<1>3. \A s \in Cares : \/ "WaitForCharge" \in s \/ "LetBatteryCoolToTemperature" \in s
                       \/ "LetCpuCoolToTemperature" \in s \/ "SetDate" \in s
  BY <1>1 DEF Charges, Cools, Cpus, Dates
<1> QED BY <1>1, <1>2, <1>3

LEMMA BlockSteps ==
  ASSUME OwnScript, script \in Blocks, Settings!CareNext
  PROVE  Settings!Next /\ UNCHANGED <<wait, level, hotBattery, cut, behind>>
<1>1. script \notin Settings!Cares /\ script # Settings!Charges
  BY CareScripts
<1>2. wait = Settings!NoWait
  BY CareScripts DEF OwnScript
<1>3. wait.for = "none" /\ wait.at = "none"
  BY <1>2 DEF Settings!NoWait
<1>4. \A o \in {"WaitForCharge", "LetBatteryCoolToTemperature", "LetCpuCoolToTemperature", "SetDate"} :
         o \notin script
  BY CareScripts
<1>5. ~Waiting
  BY <1>1, <1>3, <1>4 DEF Waiting, Settings!CallRaised, Settings!Drift, Settings!Uncharge,
     Settings!WaitForCharge, Settings!device_charged, Settings!LetBatteryCoolToTemperature,
     Settings!cool_device, Settings!ChargeAgain, Settings!device_discharged,
     Settings!LetCpuCoolToTemperature, Settings!cool_cpu, Settings!HighPerfAgain,
     Settings!SetDate, Settings!_set_and_verify_date, Settings!Start, Settings!At
<1> QED BY <1>1, <1>5 DEF Settings!CareNext, Settings!care, Waiting

LEMMA CareSteps ==
  ASSUME script \in Cares, Settings!CareNext
  PROVE  \/ (Settings!BatteryStep \/ Settings!PerfStep \/ Settings!HotPlug)
            /\ UNCHANGED <<wait, level, hotBattery, cut, behind>>
         \/ Waiting /\ UNCHANGED <<block, flagFile, enforce, stack, shouldReset, half, before>>
<1>1. script \in Settings!Cares
  BY CareScripts
<1> QED BY <1>1 DEF Settings!CareNext, Settings!care, Waiting, Settings!flags

\* A poll of the charge ends the wait, is counted, or starts it over after a reboot.
LEMMA Charged ==
  ASSUME Settings!device_charged, WaitType
  PROVE  /\ op = "none" /\ wait.for = "WaitForCharge" /\ level' = level
         /\ \/ /\ wait'.for = "none" /\ wait'.was = wait.for /\ wait'.polls = 0 /\ wait'.peak = 0
               /\ wait'.fails = 0 /\ UNCHANGED <<op, pc>> /\ WaitType'
            \/ /\ UNCHANGED <<op, pc>> /\ level < Target
               /\ IF level > wait.peak THEN wait'.fails = 0 /\ wait'.peak = level
                  ELSE /\ wait'.fails = wait.fails + 1 /\ wait'.peak = wait.peak
                       /\ ~(wait'.fails >= MaxChargeError)
               /\ wait'.polls \in {wait.polls, wait.polls + 1}
               /\ wait'.for = wait.for /\ wait'.was = wait.was /\ WaitType'
            \/ /\ op' = "SetCharging" /\ pc' = op' /\ wait'.for = wait.for /\ wait'.was = "none"
               /\ wait'.polls = 0 /\ wait'.peak = 0 /\ wait'.fails = 0 /\ WaitType'
<1> USE DEF WaitType, Settings!NoWait
<1> DEFINE rose  == level > wait.peak
           fails == IF rose THEN 0 ELSE wait.fails + 1
           error == level < Target /\ fails >= MaxChargeError
           polls == IF wait.polls < Target * MaxChargeError THEN wait.polls + 1 ELSE wait.polls
           peak  == IF rose THEN level ELSE wait.peak
<1>1. /\ op = "none" /\ wait.for = "WaitForCharge" /\ level' = level
      /\ \/ (\E how : Settings!EndWait(how)) /\ UNCHANGED <<op, pc>>
         \/ /\ level < Target /\ ~error /\ UNCHANGED <<op, pc>>
            /\ wait' = [wait EXCEPT !.peak = peak, !.fails = fails, !.polls = polls]
         \/ /\ wait' = [Settings!NoWait EXCEPT !.for = "WaitForCharge", !.at = "poll", !.again = TRUE]
            /\ op' = "SetCharging" /\ pc' = op'
  BY DEF Settings!device_charged, Settings!At, Settings!Idle, Settings!callVars, Settings!Direct,
     Settings!device, Settings!Rose
<1>2. ASSUME NEW how, Settings!EndWait(how)
      PROVE  /\ wait'.for = "none" /\ wait'.was = wait.for /\ wait'.polls = 0 /\ wait'.peak = 0
             /\ wait'.fails = 0 /\ WaitType'
  BY <1>2 DEF Settings!EndWait
<1>3. ASSUME wait' = [wait EXCEPT !.peak = peak, !.fails = fails, !.polls = polls]
      PROVE  /\ wait'.peak = peak /\ wait'.fails = fails /\ wait'.polls = polls
             /\ wait'.for = wait.for /\ wait'.was = wait.was /\ WaitType'
  <2> HIDE DEF peak, fails, polls
  <2> QED BY <1>3
<1>4. ASSUME wait' = [Settings!NoWait EXCEPT !.for = "WaitForCharge", !.at = "poll", !.again = TRUE]
      PROVE  /\ wait'.for = "WaitForCharge" /\ wait'.was = "none"
             /\ wait'.polls = 0 /\ wait'.peak = 0 /\ wait'.fails = 0 /\ WaitType'
  BY <1>4
<1>5. polls \in {wait.polls, wait.polls + 1}
  OBVIOUS
<1>6. ASSUME ~error, level < Target, wait'.fails = fails, wait'.peak = peak
      PROVE  IF level > wait.peak THEN wait'.fails = 0 /\ wait'.peak = level
             ELSE /\ wait'.fails = wait.fails + 1 /\ wait'.peak = wait.peak
                  /\ ~(wait'.fails >= MaxChargeError)
  BY <1>6
<1> HIDE DEF peak, fails, polls, error, Settings!NoWait, WaitType
<1> QED BY <1>1, <1>2, <1>3, <1>4, <1>5, <1>6

\* A wait makes its calls between its own steps, and is one of the script.
LEMMA WaitPaces ==
  ASSUME Waiting, {wait.for, wait.was} \subseteq script \cup {"none"}, WaitType,
         op = "none" => pc = "none", script \in Cares
  PROVE  /\ op = "none" /\ (op' = "none" => pc' = "none") /\ op' \in script \cup {"none"}
         /\ {wait'.for, wait'.was} \subseteq script \cup {"none"} /\ WaitType'
<1> USE DEF WaitType, Settings!NoWait, Settings!Idle, Settings!EndWait, Settings!At, Settings!Start,
        Settings!To, Settings!Direct, Settings!Hardware_, Settings!callVars
<1>0. /\ "WaitForCharge" \in script => "SetCharging" \in script
      /\ "LetBatteryCoolToTemperature" \in script =>
           "EnableBatteryUpdates" \in script /\ "_HardwareSetCharging" \in script
      /\ "LetCpuCoolToTemperature" \in script => "SetHighPerfMode" \in script
      /\ "none" \notin script
  BY CareScripts DEF Charges, Cools, Cpus, Dates
<1>1. CASE Settings!CallRaised \/ Settings!Drift \/ Settings!Uncharge \/ Settings!WaitForCharge
  BY <1>0, <1>1 DEF Settings!CallRaised, Settings!Drift, Settings!Uncharge, Settings!WaitForCharge,
     Settings!Call
<1>2. CASE Settings!device_charged
  BY <1>0, <1>2, Charged
<1>3. CASE Settings!LetBatteryCoolToTemperature \/ Settings!cool_device \/ Settings!ChargeAgain
           \/ Settings!device_discharged
  BY <1>0, <1>3 DEF Settings!LetBatteryCoolToTemperature, Settings!cool_device, Settings!ChargeAgain,
     Settings!device_discharged
<1>4. CASE Settings!LetCpuCoolToTemperature \/ Settings!cool_cpu \/ Settings!HighPerfAgain
  BY <1>0, <1>4 DEF Settings!LetCpuCoolToTemperature, Settings!cool_cpu, Settings!HighPerfAgain
<1>5. CASE Settings!SetDate \/ Settings!_set_and_verify_date
  BY <1>0, <1>5 DEF Settings!SetDate, Settings!_set_and_verify_date
<1> QED BY <1>1, <1>2, <1>3, <1>4, <1>5 DEF Waiting

LEMMA OwnScriptKeeps ==
  ASSUME OwnScript, WaitType, script \in Blocks \cup Cares, Settings!CareNext
  PROVE  OwnScript' /\ WaitType'
<1>1. script' = script
  BY CareScript
<1>2. CASE script \in Blocks
  <2>1. Settings!Next /\ wait' = wait
    BY <1>2, BlockSteps
  <2>2. script \notin Cares /\ wait = Settings!NoWait
    BY <1>2, CareScripts DEF OwnScript
  <2>3. op \in script \cup {"none"} /\ (op = "none" => pc = "none")
    BY <1>2 DEF OwnScript
  <2>4. /\ block' \in {"before", "body", "after"} => op' = "none"
        /\ op' \in script \cup {"none"} /\ (op' = "none" => pc' = "none")
        /\ last'.op \in script \cup {"none"}
    <3>1. CASE Settings!BatteryStep \/ Settings!PerfStep \/ Settings!FlagStep
      BY <1>2, <2>3, <3>1, SettingsPaces DEF CallGoesOn, CallIsOver, OwnScript
    <3>2. CASE Settings!Enter \/ Settings!Body \/ Settings!Finally \/ Settings!Leave
      BY <1>2, <2>3, <3>2, BlockPaces DEF OwnScript
    <3>3. CASE Settings!HotPlug
      BY <1>2, <2>3, <3>3 DEF Settings!HotPlug, Settings!callVars, OwnScript
    <3> QED BY <2>1, <3>1, <3>2, <3>3 DEF Settings!Next
  <2> QED BY <1>1, <1>2, <2>1, <2>2, <2>4 DEF OwnScript, WaitType, Settings!NoWait
<1>3. CASE script \in Cares
  <2>1. /\ script \notin Blocks /\ block = "before"
        /\ op \in script \cup {"none"} /\ (op = "none" => pc = "none")
    BY <1>3, CareScripts DEF OwnScript
  <2>2. CASE (Settings!BatteryStep \/ Settings!PerfStep \/ Settings!HotPlug) /\ wait' = wait
    <3>1. /\ block' = block
          /\ op' \in script \cup {"none"} /\ (op' = "none" => pc' = "none")
      BY <2>1, <2>2, SettingsPaces DEF CallGoesOn, CallIsOver, Settings!HotPlug, Settings!callVars
    <3> QED BY <1>1, <1>3, <2>1, <2>2, <3>1 DEF OwnScript, WaitType
  <2>3. CASE Waiting /\ block' = block
    <3>1. {wait.for, wait.was} \subseteq script \cup {"none"}
      BY DEF OwnScript
    <3>2. /\ {wait'.for, wait'.was} \subseteq script \cup {"none"} /\ WaitType'
          /\ op' \in script \cup {"none"} /\ (op' = "none" => pc' = "none")
      BY <1>3, <2>1, <2>3, <3>1, WaitPaces
    <3> QED BY <1>1, <1>3, <2>1, <2>3, <3>2 DEF OwnScript
  <2> QED BY <1>3, <2>2, <2>3, CareSteps
<1> QED BY <1>2, <1>3

-------------------------------------------------------------------------------
(* The battery's commands                                                       *)

\* Which step of BatteryUtils is next.
LEMMA BatteryAt ==
  Settings!BatteryStep =>
    \/ pc = "SetCharging" /\ Settings!SetCharging
    \/ pc = "DisableBatteryUpdates" /\ Settings!DisableBatteryUpdates
    \/ pc = "ClearUsb" /\ Settings!ClearUsb
    \/ pc = "ClearAc" /\ Settings!ClearAc
    \/ pc = "ClearStats" /\ Settings!ClearStats
    \/ pc = "ClearReset" /\ Settings!ClearReset
    \/ pc = "SetAc" /\ Settings!SetAc
    \/ pc = "SetUsb" /\ Settings!SetUsb
    \/ pc = "Hardware" /\ Settings!Hardware
    \/ pc = "Verify" /\ Settings!Verify
    \/ pc = "EnableBatteryUpdates" /\ Settings!EnableBatteryUpdates
    \/ pc = "Resumed" /\ Settings!Resumed
  BY DEF Settings!BatteryStep, Settings!SetCharging, Settings!DisableBatteryUpdates,
     Settings!ClearUsb, Settings!ClearAc, Settings!ClearStats, Settings!ClearReset,
     Settings!SetAc, Settings!SetUsb, Settings!Hardware, Settings!Verify,
     Settings!EnableBatteryUpdates, Settings!Resumed

\* A call that goes on is at its next step; one that raised may start again.
To(l)  == pc' = l /\ CallGoesOn
Raised == \/ pc' = op /\ CallGoesOn
          \/ CallIsOver /\ last'.how = "raised"
Returned == CallIsOver /\ last'.how = "ok"
Keeps  == UNCHANGED <<hw, usb, ac>>
Fakes(u, a) == usb' = u /\ ac' = a /\ hw' = hw

LEMMA FlagAt ==
  Settings!FlagStep =>
    \/ pc = "ReplaceFlags" /\ Settings!ReplaceFlags
    \/ pc = "SetPermissive" /\ Settings!SetPermissive
    \/ pc = "UpdateCommandLineFile" /\ Settings!UpdateCommandLineFile
    \/ pc = "Restore" /\ Settings!Restore
    \/ pc = "ResetEnforce" /\ Settings!ResetEnforce
  BY DEF Settings!FlagStep, Settings!ReplaceFlags, Settings!SetPermissive,
     Settings!UpdateCommandLineFile, Settings!Restore, Settings!ResetEnforce

\* Which step of PerfControl or FlagChanger is next, and where it leads.
LEMMA OtherAt ==
  ASSUME Settings!PerfStep \/ Settings!FlagStep
  PROVE  /\ UNCHANGED <<hw, usb, ac>>
         /\ pc \in {"SetHighPerfMode", "StopMpDecision", "AllOnline", "Performance",
                    "Frequencies", "Gpu", "SetDefaultPerfMode", "StartMpDecision",
                    "ReplaceFlags", "SetPermissive", "UpdateCommandLineFile", "Restore",
                    "ResetEnforce"}
         /\ pc' \notin {"EnableBatteryUpdates", "Resumed"}
<1> USE DEF Settings!Goto, Settings!GotoWith, Settings!Return, Settings!End, Settings!Cmd,
            Settings!battery
<1>1. CASE Settings!PerfStep
  <2>1. UNCHANGED <<hw, usb, ac>>
    BY <1>1 DEF Settings!PerfStep
  <2>2. CASE Settings!SetHighPerfMode \/ Settings!StopMpDecision \/ Settings!AllOnline
             \/ Settings!Performance
    BY <2>1, <2>2 DEF Settings!SetHighPerfMode, Settings!StopMpDecision, Settings!AllOnline,
       Settings!Performance
  <2>3. CASE Settings!Frequencies \/ Settings!Gpu \/ Settings!SetDefaultPerfMode
             \/ Settings!StartMpDecision
    BY <2>1, <2>3 DEF Settings!Frequencies, Settings!Gpu, Settings!SetDefaultPerfMode,
       Settings!StartMpDecision
  <2> QED BY <1>1, <2>2, <2>3 DEF Settings!PerfStep
<1>2. CASE Settings!FlagStep
  BY <1>2 DEF Settings!FlagStep, Settings!ReplaceFlags, Settings!SetPermissive,
     Settings!UpdateCommandLineFile, Settings!Restore, Settings!ResetEnforce
<1> QED BY <1>1, <1>2

\* What each of the steps does.
LEMMA BatteryMoves ==
  ASSUME Settings!BatteryStep
  PROVE
    \/ /\ pc = "SetCharging" /\ Keeps
       /\ \/ Settings!Powered = arg.on /\ Returned
          \/ /\ Settings!Powered # arg.on
             /\ To(IF ~arg.on THEN "ClearUsb"
                   ELSE IF HasHardware THEN "Hardware" ELSE "EnableBatteryUpdates")
          \/ Raised
    \/ pc = "DisableBatteryUpdates" /\ Keeps /\ To("ClearUsb")
    \/ pc = "ClearUsb" /\ ((Fakes("1", ac) /\ To("ClearAc")) \/ ((Fakes("1", ac) \/ Keeps) /\ Raised))
    \/ pc = "ClearAc" /\ ((Fakes(usb, "1") /\ To("ClearStats")) \/ ((Fakes(usb, "1") \/ Keeps) /\ Raised))
    \/ pc = "ClearStats" /\ Keeps /\ To("ClearReset")
    \/ /\ pc = "ClearReset"
       /\ \/ /\ Fakes("real", "real")
             /\ To(IF op = "SetCharging" /\ HasHardware THEN "Hardware" ELSE "SetAc")
          \/ (Fakes("real", "real") \/ Keeps) /\ Raised
    \/ pc = "SetAc" /\ ((Fakes(usb, "0") /\ To("SetUsb")) \/ ((Fakes(usb, "0") \/ Keeps) /\ Raised))
    \/ pc = "SetUsb" /\ ((Fakes("0", ac) /\ To("Verify")) \/ ((Fakes("0", ac) \/ Keeps) /\ Raised))
    \/ /\ pc = "Hardware"
       /\ \/ /\ hw' = arg.on /\ usb' = (IF arg.on THEN "real" ELSE "0") /\ ac' = usb'
             /\ To("Verify") \/ Raised
          \/ hw' = arg.on /\ UNCHANGED <<usb, ac>> /\ Raised
          \/ Keeps /\ Raised
    \/ pc = "Verify" /\ Keeps /\ ((Settings!Powered = Settings!Wanted /\ Returned) \/ Raised)
    \/ /\ pc = "EnableBatteryUpdates"
       /\ \/ Fakes("real", "real") /\ To("Resumed")
          \/ (Fakes("real", "real") \/ Keeps) /\ Raised
    \/ pc = "Resumed" /\ Keeps /\ (((Settings!Powered \/ ~Settings!Faked) /\ Returned) \/ Raised)
<1> USE DEF To, Raised, Returned, Keeps, Fakes, CallGoesOn, CallIsOver, Settings!Goto,
        Settings!GotoWith, Settings!Raise, Settings!Return, Settings!End, Settings!Command,
        Settings!Adb, Settings!Battery, Settings!battery
<1>1. CASE pc = "SetCharging" /\ Settings!SetCharging
  BY <1>1 DEF Settings!SetCharging
<1>2. CASE pc = "DisableBatteryUpdates" /\ Settings!DisableBatteryUpdates
  BY <1>2 DEF Settings!DisableBatteryUpdates
<1>3. CASE pc = "ClearUsb" /\ Settings!ClearUsb
  BY <1>3 DEF Settings!ClearUsb
<1>4. CASE pc = "ClearAc" /\ Settings!ClearAc
  BY <1>4 DEF Settings!ClearAc
<1>5. CASE pc = "ClearStats" /\ Settings!ClearStats
  BY <1>5 DEF Settings!ClearStats
<1>6. CASE pc = "ClearReset" /\ Settings!ClearReset
  BY <1>6 DEF Settings!ClearReset
<1>7. CASE pc = "SetAc" /\ Settings!SetAc
  BY <1>7 DEF Settings!SetAc
<1>8. CASE pc = "SetUsb" /\ Settings!SetUsb
  BY <1>8 DEF Settings!SetUsb
<1>9. CASE pc = "Hardware" /\ Settings!Hardware
  BY <1>9 DEF Settings!Hardware
<1>10. CASE pc = "Verify" /\ Settings!Verify
  BY <1>10 DEF Settings!Verify
<1>11. CASE pc = "EnableBatteryUpdates" /\ Settings!EnableBatteryUpdates
  BY <1>11 DEF Settings!EnableBatteryUpdates
<1>12. CASE pc = "Resumed" /\ Settings!Resumed
  BY <1>12 DEF Settings!Resumed
<1> QED BY BatteryAt, <1>1, <1>2, <1>3, <1>4, <1>5, <1>6, <1>7, <1>8, <1>9, <1>10, <1>11, <1>12

\* Measurements: the battery's reports.
LEMMA ReportsKeep ==
  ASSUME OwnScript, script = Measures, Reports, Settings!Next PROVE Reports'
<1>1. script \in Blocks
  BY CareScripts
<1>2. /\ op = "none" => pc = "none"
      /\ block \in {"before", "body", "after"} => op = "none"
      /\ op \in {"none", "DisableBatteryUpdates", "EnableBatteryUpdates", "BatteryMeasurement"}
  BY <1>1 DEF OwnScript, Measures
<1> USE DEF Reports, GivenBack, Settings!Faked, Failed
<1>3. CASE Settings!BatteryStep
  <2>1. block' = block /\ pc # "none" /\ op # "none"
    BY <1>2, <1>3, SettingsPaces
  <2>2. op' # "none" => op' = op
    BY <1>3, SettingsPaces DEF CallGoesOn, CallIsOver
  <2>3. block \notin {"before", "body", "after"}
    BY <1>2, <2>1
  <2>4. block = "exit" \/ pc' = "Resumed" => Reports'
    BY <1>2, <1>3, <2>1, <2>3, BatteryMoves
    DEF To, Raised, Returned, Keeps, Fakes, CallGoesOn, CallIsOver
  <2> QED BY <2>1, <2>2, <2>3, <2>4
<1>4. CASE Settings!PerfStep \/ Settings!FlagStep
  <2>1. pc \notin {"EnableBatteryUpdates", "Resumed"}
    BY <1>4, OtherAt
  <2>2. block' = block /\ pc # "none" /\ op # "none" /\ pc' # "Resumed"
    BY <1>2, <1>4, SettingsPaces, OtherAt
  <2> QED BY <1>2, <2>1, <2>2
<1>5. CASE Settings!Enter \/ Settings!Body \/ Settings!Finally \/ Settings!Leave
  BY <1>1, <1>2, <1>5, BlockPaces DEF Measures
<1>6. CASE Settings!HotPlug
  BY <1>6 DEF Settings!HotPlug, Measures
<1> QED BY <1>3, <1>4, <1>5, <1>6 DEF Settings!Next

\* Power measurements: charging.
LEMMA ChargingKeeps ==
  ASSUME OwnScript, script = Powers, Charging, Settings!Next PROVE Charging'
<1>1. script \in Blocks
  BY CareScripts
<1>2. /\ op = "none" => pc = "none"
      /\ block \in {"before", "body", "after"} => op = "none"
      /\ op \in {"none", "SetCharging", "PowerMeasurement"}
  BY <1>1 DEF OwnScript, Powers
<1> USE DEF Charging, ChargingSteps, GivenBack, Failed
<1>3. CASE Settings!BatteryStep
  <2>1. /\ block' = block /\ pc # "none" /\ op = "SetCharging" /\ arg.on \in BOOLEAN
    BY <1>2, <1>3, SettingsPaces
  <2>2. half' = (half \/ (hw /\ ~hw' /\ usb' # "0"))
    BY <1>3 DEF Settings!BatteryStep, Settings!HalfCut
  <2>3. block \in {"enter", "exit"} \/ (block # "exit" /\ block' # "exit" /\ block' # "after")
    BY <1>2, <2>1
  <2>4. op' = "none" \/ (op' = op /\ arg' = arg)
    BY <1>3, SettingsPaces DEF CallGoesOn, CallIsOver
  <2> QED
    BY <1>2, <1>3, <2>1, <2>2, <2>3, <2>4, BatteryMoves
    DEF To, Raised, Returned, Keeps, Fakes, CallGoesOn, CallIsOver, Settings!Powered
<1>4. CASE Settings!PerfStep \/ Settings!FlagStep
  BY <1>2, <1>4, OtherAt
<1>5. CASE Settings!Enter \/ Settings!Body \/ Settings!Finally \/ Settings!Leave
  BY <1>1, <1>2, <1>5, BlockPaces DEF Powers
<1>6. CASE Settings!HotPlug
  BY <1>6 DEF Settings!HotPlug, Powers
<1> QED BY <1>3, <1>4, <1>5, <1>6 DEF Settings!Next
-------------------------------------------------------------------------------
(* The performance mode                                                         *)

\* Which step of PerfControl is next.
LEMMA PerfAt ==
  Settings!PerfStep =>
    \/ pc = "SetHighPerfMode" /\ Settings!SetHighPerfMode
    \/ pc = "StopMpDecision" /\ Settings!StopMpDecision
    \/ pc = "AllOnline" /\ Settings!AllOnline
    \/ pc = "Performance" /\ Settings!Performance
    \/ pc = "Frequencies" /\ Settings!Frequencies
    \/ pc = "Gpu" /\ Settings!Gpu
    \/ pc = "SetDefaultPerfMode" /\ Settings!SetDefaultPerfMode
    \/ pc = "StartMpDecision" /\ Settings!StartMpDecision
  BY DEF Settings!PerfStep, Settings!SetHighPerfMode, Settings!StopMpDecision,
     Settings!AllOnline, Settings!Performance, Settings!Frequencies, Settings!Gpu,
     Settings!SetDefaultPerfMode, Settings!StartMpDecision

Fails == CallIsOver /\ last'.how # "ok"
On(l) == To(l) /\ loc' = loc
Governed(g) == governor' = [c \in Cpu |-> IF online[c] THEN g ELSE governor[c]]

\* What each of the steps does.
LEMMA PerfMoves ==
  ASSUME Settings!PerfStep
  PROVE
    \/ /\ pc = "SetHighPerfMode" /\ UNCHANGED <<online, governor, freq, mpRuns>>
       /\ On(IF before.def = "none" THEN "Performance" ELSE "StopMpDecision") \/ Fails
    \/ /\ pc = "StopMpDecision" /\ UNCHANGED <<online, governor, freq>>
       /\ (~mpRuns' /\ On("AllOnline")) \/ ((~mpRuns' \/ mpRuns' = mpRuns) /\ Fails)
    \/ /\ pc = "AllOnline" /\ UNCHANGED <<governor, freq, mpRuns>>
       /\ \/ online' = [c \in Cpu |-> TRUE] /\ On("Performance")
          \/ (online' = [c \in Cpu |-> TRUE] \/ online' = online) /\ Fails
    \/ /\ pc = "Performance" /\ UNCHANGED <<online, freq, mpRuns>>
       /\ \/ /\ Governed("performance")
             /\ IF before.def = "all" THEN To("Frequencies") /\ loc' = [to |-> "limited"] ELSE Returned
          \/ (Governed("performance") \/ governor' = governor) /\ Fails
    \/ /\ pc = "Frequencies" /\ UNCHANGED <<online, governor, mpRuns>>
       /\ \E S \in SUBSET Cpu :
            /\ freq' = [c \in Cpu |-> IF online[c] /\ c \in S THEN loc.to ELSE freq[c]]
            /\ (S = Cpu /\ On("Gpu")) \/ Fails
    \/ /\ pc = "Gpu" /\ UNCHANGED <<online, governor, freq, mpRuns>>
       /\ (IF op = "SetHighPerfMode" THEN Returned ELSE On("StartMpDecision")) \/ Fails
    \/ /\ pc = "SetDefaultPerfMode" /\ UNCHANGED <<online, freq, mpRuns>>
       /\ \/ /\ Governed("default")
             /\ IF before.def = "all" THEN To("Frequencies") /\ loc' = [to |-> "default"]
                ELSE On("StartMpDecision")
          \/ (Governed("default") \/ governor' = governor) /\ Fails
    \/ /\ pc = "StartMpDecision" /\ UNCHANGED <<online, governor, freq>>
       /\ (mpRuns' = MpDecision /\ Returned) \/ ((mpRuns' = MpDecision \/ mpRuns' = mpRuns) /\ Fails)
<1> USE DEF To, On, Fails, Returned, Governed, CallGoesOn, CallIsOver, Settings!Goto,
        Settings!GotoWith, Settings!Return, Settings!End, Settings!Cmd, Settings!perf,
        Settings!SetGovernor, Settings!SetFreq
<1>1. CASE pc = "SetHighPerfMode" /\ Settings!SetHighPerfMode
  BY <1>1 DEF Settings!SetHighPerfMode
<1>2. CASE pc = "StopMpDecision" /\ Settings!StopMpDecision
  BY <1>2 DEF Settings!StopMpDecision
<1>3. CASE pc = "AllOnline" /\ Settings!AllOnline
  BY <1>3 DEF Settings!AllOnline
<1>4. CASE pc = "Performance" /\ Settings!Performance
  BY <1>4 DEF Settings!Performance
<1>5. CASE pc = "Frequencies" /\ Settings!Frequencies
  BY <1>5 DEF Settings!Frequencies
<1>6. CASE pc = "Gpu" /\ Settings!Gpu
  BY <1>6 DEF Settings!Gpu
<1>7. CASE pc = "SetDefaultPerfMode" /\ Settings!SetDefaultPerfMode
  BY <1>7 DEF Settings!SetDefaultPerfMode
<1>8. CASE pc = "StartMpDecision" /\ Settings!StartMpDecision
  BY <1>8 DEF Settings!StartMpDecision
<1> QED BY PerfAt, <1>1, <1>2, <1>3, <1>4, <1>5, <1>6, <1>7, <1>8

LEMMA CoresTyped ==
  ASSUME CoresType, ModeCalls, Settings!PerfStep PROVE CoresType'
<1>1. pc \in {"Frequencies", "Gpu"} => loc.to \in {"default", "limited"}
  BY DEF ModeCalls
<1> QED BY <1>1, PerfMoves DEF CoresType, Governed

LEMMA ModeCallsOn ==
  ASSUME ModeCalls, op = "none" => pc = "none", Settings!PerfStep PROVE ModeCalls'
<1>1. op # "none" /\ before' = before
  BY SettingsPaces
<1>2. CASE pc = "SetHighPerfMode"
  BY <1>1, PerfMoves, <1>2 DEF ModeCalls, UpSteps, DownSteps, To, On, Fails, Returned,
     CallGoesOn, CallIsOver
<1>3. CASE pc = "StopMpDecision"
  BY <1>1, PerfMoves, <1>3 DEF ModeCalls, UpSteps, DownSteps, To, On, Fails, Returned,
     CallGoesOn, CallIsOver
<1>4. CASE pc = "AllOnline"
  BY <1>1, PerfMoves, <1>4 DEF ModeCalls, UpSteps, DownSteps, To, On, Fails, Returned,
     CallGoesOn, CallIsOver
<1>5. CASE pc = "Performance"
  BY <1>1, PerfMoves, <1>5 DEF ModeCalls, UpSteps, DownSteps, To, On, Fails, Returned,
     CallGoesOn, CallIsOver
<1>6. CASE pc = "Frequencies"
  BY <1>1, PerfMoves, <1>6 DEF ModeCalls, UpSteps, DownSteps, To, On, Fails, Returned,
     CallGoesOn, CallIsOver
<1>7. CASE pc = "Gpu"
  BY <1>1, PerfMoves, <1>7 DEF ModeCalls, UpSteps, DownSteps, To, On, Fails, Returned,
     CallGoesOn, CallIsOver
<1>8. CASE pc = "SetDefaultPerfMode"
  BY <1>1, PerfMoves, <1>8 DEF ModeCalls, UpSteps, DownSteps, To, On, Fails, Returned,
     CallGoesOn, CallIsOver
<1>9. CASE pc = "StartMpDecision"
  BY <1>1, PerfMoves, <1>9 DEF ModeCalls, UpSteps, DownSteps, To, On, Fails, Returned,
     CallGoesOn, CallIsOver
<1> QED BY PerfAt, <1>2, <1>3, <1>4, <1>5, <1>6, <1>7, <1>8, <1>9

\* Step by step the mode comes up on every core.
LEMMA ModeUp ==
  ASSUME CoresType, ModeCalls, ModeComesUp, before.def # "none",
         op = "SetHighPerfMode", Settings!PerfStep
  PROVE  ModeComesUp' /\ (op' = "none" /\ last'.how = "ok" => AtFull')
<1>1. pc \in UpSteps
  BY DEF ModeCalls
<1>2. CASE pc = "SetHighPerfMode"
  BY PerfMoves, <1>2 DEF ModeComesUp, ModeCalls, AtFull, CoresType, To, On, Fails,
     Returned, Governed, CallGoesOn, CallIsOver
<1>3. CASE pc = "StopMpDecision"
  BY PerfMoves, <1>3 DEF ModeComesUp, ModeCalls, AtFull, CoresType, To, On, Fails,
     Returned, Governed, CallGoesOn, CallIsOver
<1>4. CASE pc = "AllOnline"
  BY PerfMoves, <1>4 DEF ModeComesUp, ModeCalls, AtFull, CoresType, To, On, Fails,
     Returned, Governed, CallGoesOn, CallIsOver
<1>5. CASE pc = "Performance"
  BY PerfMoves, <1>5 DEF ModeComesUp, ModeCalls, AtFull, CoresType, To, On, Fails,
     Returned, Governed, CallGoesOn, CallIsOver
<1>6. CASE pc = "Frequencies"
  BY PerfMoves, <1>6 DEF ModeComesUp, ModeCalls, AtFull, CoresType, To, On, Fails,
     Returned, Governed, CallGoesOn, CallIsOver
<1>7. CASE pc = "Gpu"
  BY PerfMoves, <1>7 DEF ModeComesUp, ModeCalls, AtFull, CoresType, To, On, Fails,
     Returned, Governed, CallGoesOn, CallIsOver
<1> QED BY <1>1, <1>2, <1>3, <1>4, <1>5, <1>6, <1>7 DEF UpSteps

\* And it goes down on every core, those off-line having none.
LEMMA ModeDown ==
  ASSUME CoresType, ModeCalls, ModeGoesDown, Outside, before.def # "none",
         op = "SetDefaultPerfMode", Settings!PerfStep
  PROVE  ModeGoesDown' /\ (op' = "none" /\ last'.how = "ok" => AtDefault' /\ mpRuns' = MpDecision)
<1>1. pc \in DownSteps
  BY DEF ModeCalls
<1>2. CASE pc = "Frequencies"
  BY PerfMoves, <1>2 DEF ModeGoesDown, ModeCalls, Outside, AtDefault, CoresType, To, On, Fails,
     Returned, Governed, CallGoesOn, CallIsOver
<1>3. CASE pc = "Gpu"
  BY PerfMoves, <1>3 DEF ModeGoesDown, ModeCalls, Outside, AtDefault, CoresType, To, On, Fails,
     Returned, Governed, CallGoesOn, CallIsOver
<1>4. CASE pc = "SetDefaultPerfMode"
  BY PerfMoves, <1>4 DEF ModeGoesDown, ModeCalls, Outside, AtDefault, CoresType, To, On, Fails,
     Returned, Governed, CallGoesOn, CallIsOver
<1>5. CASE pc = "StartMpDecision"
  BY PerfMoves, <1>5 DEF ModeGoesDown, ModeCalls, Outside, AtDefault, CoresType, To, On, Fails,
     Returned, Governed, CallGoesOn, CallIsOver
<1> QED BY <1>1, <1>2, <1>3, <1>4, <1>5 DEF DownSteps

LEMMA OutsideKeeps ==
  ASSUME CoresType, ModeCalls, ModeComesUp, ModeGoesDown, Outside, before.def # "none",
         op # "none", Settings!PerfStep
  PROVE  Outside'
<1>1. op \in {"SetHighPerfMode", "SetDefaultPerfMode"} /\ before' = before
  BY SettingsPaces DEF ModeCalls
<1>2. CASE pc = "SetHighPerfMode"
  BY <1>1, PerfMoves, <1>2 DEF ModeComesUp, ModeGoesDown, ModeCalls, UpSteps,
     DownSteps, Outside, AtDefault, AtFull, Governed, CoresType
<1>3. CASE pc = "StopMpDecision"
  BY <1>1, PerfMoves, <1>3 DEF ModeComesUp, ModeGoesDown, ModeCalls, UpSteps,
     DownSteps, Outside, AtDefault, AtFull, Governed, CoresType
<1>4. CASE pc = "AllOnline"
  BY <1>1, PerfMoves, <1>4 DEF ModeComesUp, ModeGoesDown, ModeCalls, UpSteps,
     DownSteps, Outside, AtDefault, AtFull, Governed, CoresType
<1>5. CASE pc = "Performance"
  BY <1>1, PerfMoves, <1>5 DEF ModeComesUp, ModeGoesDown, ModeCalls, UpSteps,
     DownSteps, Outside, AtDefault, AtFull, Governed, CoresType
<1>6. CASE pc = "Frequencies"
  BY <1>1, PerfMoves, <1>6 DEF ModeComesUp, ModeGoesDown, ModeCalls, UpSteps,
     DownSteps, Outside, AtDefault, AtFull, Governed, CoresType
<1>7. CASE pc = "Gpu"
  BY <1>1, PerfMoves, <1>7 DEF ModeComesUp, ModeGoesDown, ModeCalls, UpSteps,
     DownSteps, Outside, AtDefault, AtFull, Governed, CoresType
<1>8. CASE pc = "SetDefaultPerfMode"
  BY <1>1, PerfMoves, <1>8 DEF ModeComesUp, ModeGoesDown, ModeCalls, UpSteps,
     DownSteps, Outside, AtDefault, AtFull, Governed, CoresType
<1>9. CASE pc = "StartMpDecision"
  BY <1>1, PerfMoves, <1>9 DEF ModeComesUp, ModeGoesDown, ModeCalls, UpSteps,
     DownSteps, Outside, AtDefault, AtFull, Governed, CoresType
<1> QED BY PerfAt, <1>2, <1>3, <1>4, <1>5, <1>6, <1>7, <1>8, <1>9

\* Cores go off and on while mpdecision is at work, and then no mode is set.
LEMMA HotPlugs ==
  ASSUME CoresType, Settings!HotPlug
  PROVE  /\ CoresType' /\ mpRuns /\ UNCHANGED <<callVars, block, governor, freq, mpRuns, before>>
         /\ UNCHANGED <<hw, usb, ac, flagFile, enforce, stack, shouldReset, half>>
  BY DEF Settings!HotPlug, CoresType, Settings!callVars, callVars, Settings!battery, Settings!flags

LEMMA CoresKeep ==
  ASSUME OwnScript, script = Modes, CoresType, ModeCalls, Cores, Settings!Next
  PROVE  CoresType' /\ ModeCalls' /\ Cores'
<1>1. script \in Blocks
  BY CareScripts
<1>2. /\ op = "none" => pc = "none"
      /\ block \in {"before", "body", "after"} => op = "none"
  BY <1>1 DEF OwnScript
<1>3. CASE Settings!PerfStep
  <2>1. op # "none" /\ UNCHANGED <<block, before>> /\ (CallGoesOn \/ CallIsOver)
    BY <1>2, <1>3, SettingsPaces
  <2>2. CoresType' /\ ModeCalls'
    BY <1>2, <1>3, CoresTyped, ModeCallsOn
  <2>3. ASSUME before.def # "none" PROVE Outside'
    BY <1>3, <2>1, <2>3, OutsideKeeps DEF Cores
  <2>4. CASE op = "SetHighPerfMode"
    <3>1. ASSUME before.def # "none"
          PROVE  ModeComesUp' /\ (op' = "none" /\ last'.how = "ok" => AtFull')
      BY <1>3, <2>4, <3>1, ModeUp DEF Cores
    <3>2. block' = "enter" /\ op' \in {"none", "SetHighPerfMode"}
      BY <2>1, <2>4 DEF Cores, CallGoesOn, CallIsOver
    <3> QED BY <2>1, <2>2, <2>3, <3>1, <3>2 DEF Cores, ModeGoesDown, Ended
  <2>5. CASE op = "SetDefaultPerfMode"
    <3>1. ASSUME before.def # "none"
          PROVE  /\ ModeGoesDown'
                 /\ op' = "none" /\ last'.how = "ok" => AtDefault' /\ mpRuns' = MpDecision
      BY <1>3, <2>5, <3>1, ModeDown DEF Cores
    <3>2. /\ block' = "exit" /\ op' \in {"none", "SetDefaultPerfMode"}
          /\ op' = "none" => last'.op = "SetDefaultPerfMode"
      BY <2>1, <2>5 DEF Cores, CallGoesOn, CallIsOver
    <3> QED BY <2>1, <2>2, <2>3, <3>1, <3>2 DEF Cores, ModeComesUp, Ended
  <2> QED BY <2>1, <2>4, <2>5 DEF ModeCalls
<1>4. ~Settings!BatteryStep /\ ~Settings!FlagStep
  BY <1>2, BatteryAt, FlagAt DEF ModeCalls, UpSteps, DownSteps
<1>5. CASE Settings!Enter \/ Settings!Body \/ Settings!Finally \/ Settings!Leave
  <2>1. /\ op = "none" /\ pc = "none" /\ UNCHANGED <<last, online, governor, freq, mpRuns, before>>
        /\ \/ block' = "enter" /\ op' = "SetHighPerfMode" /\ pc' = op'
           \/ block = "enter" /\ block' = "body" /\ UNCHANGED <<op, pc>>
           \/ block' = "exit" /\ op' = "SetDefaultPerfMode" /\ pc' = op'
           \/ block = "exit" /\ UNCHANGED <<op, pc>> /\ block' \in {"body", "after"}
    BY <1>2, <1>5, BlockPaces DEF Modes
  <2>2. CoresType' /\ ModeCalls'
    BY <2>1 DEF CoresType, ModeCalls, UpSteps, DownSteps
  <2>3. ASSUME before.def # "none" PROVE ModeComesUp' /\ ModeGoesDown' /\ Outside'
    BY <2>1, <2>3 DEF Cores, ModeComesUp, ModeGoesDown, Outside, AtDefault
  <2>4. block = "exit" => ~Ended("SetHighPerfMode")
    BY <2>1 DEF Cores, Ended
  <2> QED BY <2>1, <2>2, <2>3, <2>4 DEF Cores, Ended, AtFull, AtDefault
<1>6. CASE Settings!HotPlug
  <2>1. /\ CoresType' /\ mpRuns /\ UNCHANGED <<op, pc, loc, last, block, governor, freq, mpRuns, before>>
    BY <1>6, HotPlugs DEF callVars
  <2> QED BY <2>1 DEF Cores, ModeCalls, ModeComesUp, ModeGoesDown, Outside, AtFull, AtDefault, Ended
<1> QED BY <1>3, <1>4, <1>5, <1>6 DEF Settings!Next
-------------------------------------------------------------------------------
(* The flags                                                                    *)

Aborts  == CallIsOver /\ last'.how = "raised"
Changed == UNCHANGED <<flagFile, enforce, shouldReset, half>>

\* What each of the steps of FlagChanger does.
LEMMA ReplaceMoves ==
  ASSUME Settings!ReplaceFlags
  PROVE  /\ stack' = Append(stack, arg.new) /\ Changed /\ CallGoesOn
         /\ pc' = IF enforce THEN "SetPermissive" ELSE "UpdateCommandLineFile"
  BY DEF Settings!ReplaceFlags, Changed, CallGoesOn, Settings!Goto, Settings!GotoWith

LEMMA RestoreMoves ==
  ASSUME Settings!Restore
  PROVE  /\ stack' = SubSeq(stack, 1, Len(stack) - 1) /\ Changed /\ CallGoesOn
         /\ pc' = IF Len(stack) = 2 /\ shouldReset THEN "ResetEnforce" ELSE "UpdateCommandLineFile"
  BY DEF Settings!Restore, Changed, CallGoesOn, Settings!Goto, Settings!GotoWith

LEMMA PermissiveMoves ==
  ASSUME Settings!SetPermissive
  PROVE  /\ UNCHANGED <<flagFile, stack>>
         /\ \/ /\ enforce' = FALSE /\ shouldReset' = TRUE /\ half' = half
               /\ To("UpdateCommandLineFile")
            \/ enforce' \in BOOLEAN /\ shouldReset' = shouldReset /\ half' = (half \/ ~enforce') /\ Aborts
  BY DEF Settings!SetPermissive, To, Aborts, CallGoesOn, CallIsOver,
     Settings!Goto, Settings!GotoWith, Settings!End

LEMMA EnforceMoves ==
  ASSUME Settings!ResetEnforce
  PROVE  /\ UNCHANGED <<flagFile, stack, half>>
         /\ \/ enforce' = TRUE /\ shouldReset' = FALSE /\ To("UpdateCommandLineFile")
            \/ enforce' \in BOOLEAN /\ shouldReset' = shouldReset /\ Aborts
  BY DEF Settings!ResetEnforce, To, Aborts, CallGoesOn, CallIsOver,
     Settings!Goto, Settings!GotoWith, Settings!End

LEMMA FileMoves ==
  ASSUME Settings!UpdateCommandLineFile
  PROVE  /\ UNCHANGED <<enforce, stack, shouldReset, half>>
         /\ (flagFile' = stack[Len(stack)] /\ Returned) \/ Aborts
  BY DEF Settings!UpdateCommandLineFile, Aborts, Returned, CallIsOver, Settings!Return,
     Settings!End, Settings!Cmd, Settings!Top

LEMMA Pushed ==
  ASSUME stack \in Seq(SUBSET Flag), Len(stack) >= 1, NEW f \in SUBSET Flag,
         stack' = Append(stack, f)
  PROVE  /\ stack' \in Seq(SUBSET Flag) /\ Len(stack') = Len(stack) + 1 /\ Len(stack') >= 2
         /\ stack'[1] = stack[1]
  BY SMTT(20)

LEMMA Popped ==
  ASSUME stack \in Seq(SUBSET Flag), Len(stack) >= 2, stack' = SubSeq(stack, 1, Len(stack) - 1)
  PROVE  /\ stack' \in Seq(SUBSET Flag) /\ Len(stack') = Len(stack) - 1 /\ Len(stack') >= 1
         /\ stack'[1] = stack[1]
  BY SMTT(20)

\* The flags given back, level by level.
LEMMA FlagsKeep ==
  ASSUME OwnScript, script = Changes, FlagStack, Settings!Next PROVE FlagStack'
<1>1. script \in Blocks
  BY CareScripts
<1>2. /\ op = "none" => pc = "none"
      /\ block \in {"before", "body", "after"} => op = "none"
  BY <1>1 DEF OwnScript
<1> USE DEF FlagStack
<1>3. CASE Settings!FlagStep
  <2>1. op # "none" /\ pc # "none" /\ UNCHANGED <<block, before>>
    BY <1>2, <1>3, SettingsPaces
  <2>2. block \in {"enter", "exit"}
    BY <2>1
  <2>3. CASE pc = "ReplaceFlags" /\ Settings!ReplaceFlags
    <3>1. block = "enter" /\ op = "ReplaceFlags" /\ arg.new \in SUBSET Flag
      BY <2>1, <2>3
    <3>2. /\ stack' \in Seq(SUBSET Flag) /\ Len(stack') = Len(stack) + 1 /\ Len(stack') >= 2
          /\ stack'[1] = stack[1]
      BY <2>3, <3>1, Pushed, ReplaceMoves
    <3> QED BY <2>1, <2>3, <3>1, <3>2, ReplaceMoves DEF Changed, CallGoesOn, GivenBack
  <2>4. CASE pc = "SetPermissive" /\ Settings!SetPermissive
    <3>1. op = "ReplaceFlags" /\ block = "enter"
      BY <2>1, <2>4
    <3> QED BY <2>1, <2>4, <3>1, PermissiveMoves DEF To, Aborts, CallGoesOn, CallIsOver, GivenBack
  <2>5. CASE pc = "UpdateCommandLineFile" /\ Settings!UpdateCommandLineFile
    BY <2>1, <2>2, <2>5, FileMoves DEF Aborts, Returned, CallIsOver, GivenBack, Failed
  <2>6. CASE pc = "Restore" /\ Settings!Restore
    <3>1. op = "Restore" /\ block = "exit" /\ Len(stack) >= 2
      BY <2>1, <2>2, <2>6
    <3>2. /\ stack' \in Seq(SUBSET Flag) /\ Len(stack') = Len(stack) - 1 /\ Len(stack') >= 1
          /\ stack'[1] = stack[1]
      BY <2>6, <3>1, Popped, RestoreMoves
    <3> QED BY <2>1, <2>6, <3>1, <3>2, RestoreMoves DEF Changed, CallGoesOn, GivenBack
  <2>7. CASE pc = "ResetEnforce" /\ Settings!ResetEnforce
    <3>1. op = "Restore" /\ block = "exit"
      BY <2>1, <2>2, <2>7
    <3> QED BY <2>1, <2>7, <3>1, EnforceMoves DEF To, Aborts, CallGoesOn, CallIsOver, GivenBack, Failed
  <2> QED BY <1>3, <2>3, <2>4, <2>5, <2>6, <2>7, FlagAt
<1>4. ~Settings!BatteryStep /\ ~Settings!PerfStep
  BY <1>2, BatteryAt, PerfAt
<1>5. CASE Settings!Enter \/ Settings!Body \/ Settings!Finally \/ Settings!Leave
  <2>1. /\ op = "none" /\ pc = "none"
        /\ UNCHANGED <<last, flagFile, enforce, stack, shouldReset, half, before>>
        /\ \/ /\ block \in {"before", "body"} /\ block' = "enter"
              /\ op' = "ReplaceFlags" /\ pc' = op' /\ arg'.new \in SUBSET Flag
           \/ block = "enter" /\ block' = "body" /\ UNCHANGED <<op, pc>>
           \/ block = "body" /\ block' = "exit" /\ op' = "Restore" /\ pc' = op'
           \/ /\ block = "exit" /\ UNCHANGED <<op, pc>>
              /\ block' = IF Len(stack) > 1 THEN "body" ELSE "after"
    BY <1>2, <1>5, BlockPaces DEF Changes, Settings!Nested
  <2>2. Len(stack) \in Nat
    OBVIOUS
  <2>3. CASE block' = "enter" /\ op' = "ReplaceFlags" /\ pc' = op' /\ arg'.new \in SUBSET Flag
    BY <2>1, <2>2, <2>3 DEF GivenBack, Failed
  <2>4. CASE block = "enter" /\ block' = "body" /\ UNCHANGED <<op, pc>>
    BY <2>1, <2>2, <2>4 DEF GivenBack, Failed
  <2>5. CASE block = "body" /\ block' = "exit" /\ op' = "Restore" /\ pc' = op'
    BY <2>1, <2>2, <2>5 DEF GivenBack, Failed
  <2>6. CASE block = "exit" /\ UNCHANGED <<op, pc>> /\ block' = IF Len(stack) > 1 THEN "body" ELSE "after"
    <3>1. CASE Len(stack) > 1
      <4>1. block' = "body" /\ Len(stack') >= 2
        BY <2>1, <2>2, <2>6, <3>1
      <4> QED BY <2>1, <2>2, <2>6, <4>1 DEF GivenBack, Failed
    <3>2. CASE ~(Len(stack) > 1)
      <4>0. Len(stack) = 1
        <5> HIDE DEF FlagStack
        <5>1. Len(stack) >= 1
          BY DEF FlagStack
        <5> QED BY <2>2, <3>2, <5>1
      <4>1. block' = "after" /\ Len(stack') = 1
        BY <2>1, <2>6, <3>2, <4>0
      <4> QED BY <2>1, <2>2, <2>6, <4>1 DEF GivenBack, Failed
    <3> QED BY <3>1, <3>2
  <2> QED BY <2>1, <2>3, <2>4, <2>5, <2>6
<1>6. CASE Settings!HotPlug
  BY <1>6 DEF Settings!HotPlug, Changes
<1> QED BY <1>3, <1>4, <1>5, <1>6 DEF Settings!Next
-------------------------------------------------------------------------------
(* The waits                                                                    *)

LEMMA CareMarks ==
  /\ Settings!Cools = Cools /\ Settings!Cpus = Cpus
  /\ "WaitForCharge" \in Charges /\ \A s \in {Cools, Cpus, Dates} : "WaitForCharge" \notin s
  /\ "LetBatteryCoolToTemperature" \in Cools
  /\ \A s \in {Charges, Cpus, Dates} : "LetBatteryCoolToTemperature" \notin s
  /\ "LetCpuCoolToTemperature" \in Cpus
  /\ \A s \in {Charges, Cools, Dates} : "LetCpuCoolToTemperature" \notin s
  /\ "SetDate" \in Dates /\ \A s \in {Charges, Cools, Cpus} : "SetDate" \notin s
  BY DEF Settings!Cools, Settings!Cpus, Charges, Cools, Cpus, Dates

\* What the steps of the wait for a charge do to it.
LEMMA ChargeMoves ==
  ASSUME OwnScript, script = Charges, Waiting
  PROVE  \/ wait' = wait /\ level' \in {level} \cup 0..Full
         \/ /\ wait'.polls = 0 /\ wait'.peak = 0 /\ wait'.fails = 0 /\ level' = level
         \/ Settings!device_charged
<1>1. {wait.for, wait.was} \subseteq Charges \cup {"none"}
  BY DEF OwnScript
<1>2. /\ wait.for \notin {"LetBatteryCoolToTemperature", "LetCpuCoolToTemperature", "SetDate"}
      /\ {"LetBatteryCoolToTemperature", "LetCpuCoolToTemperature", "SetDate"} \cap script = {}
  BY <1>1, CareMarks
<1>3. CASE Settings!CallRaised
  BY <1>3 DEF Settings!CallRaised, Settings!EndWait, Settings!NoWait, Settings!device
<1>4. CASE Settings!Drift
  BY <1>4 DEF Settings!Drift
<1>5. CASE Settings!Uncharge
  BY <1>5 DEF Settings!Uncharge, Settings!Same, Settings!device
<1>6. CASE Settings!WaitForCharge
  BY <1>6 DEF Settings!WaitForCharge, Settings!Start, Settings!NoWait, Settings!Same, Settings!device
<1> QED BY <1>2, <1>3, <1>4, <1>5, <1>6 DEF Waiting, Settings!LetBatteryCoolToTemperature,
     Settings!cool_device, Settings!ChargeAgain, Settings!device_discharged,
     Settings!LetCpuCoolToTemperature, Settings!cool_cpu, Settings!HighPerfAgain,
     Settings!SetDate, Settings!_set_and_verify_date, Settings!Start, Settings!At

LEMMA Rises ==
  ASSUME NEW a \in Nat, NEW b \in Nat, a < b, NEW m \in Nat, NEW f \in Nat, f < m
  PROVE  a * m + f + 1 <= b * m
<1>1. b * m = (b - a - 1) * m + (a * m + m)
  BY SMTT(20)
<1>2. (b - a - 1) * m \in Nat
  BY SMTT(20)
<1>3. a * m \in Nat
  BY SMTT(20)
<1> DEFINE x == (b - a - 1) * m
           y == a * m
           z == b * m
<1>4. x \in Nat /\ y \in Nat /\ z = x + (y + m)
  BY <1>1, <1>2, <1>3
<1> HIDE DEF x, y, z
<1>5. y + f + 1 <= z
  BY <1>4
<1> QED BY <1>5 DEF y, z

\* Polls are paid for by what the level has risen to and by the failures since.
LEMMA PollsKeep ==
  ASSUME OwnScript, WaitType, script = Charges, Polls, Settings!CareNext PROVE Polls'
<1>1. /\ Target \in Nat /\ MaxChargeError \in Nat /\ Full \in Nat
      /\ 0 < Target /\ 0 < MaxChargeError
  BY ToolsAssumption
<1>2. script \in Cares
  BY CareScripts
<1>3. CASE UNCHANGED <<wait, level>>
  BY <1>3 DEF Polls
<1>4. CASE wait' = wait /\ level' \in {level} \cup 0..Full
  BY <1>1, <1>4 DEF Polls
<1>5. CASE wait'.polls = 0 /\ wait'.peak = 0 /\ wait'.fails = 0 /\ level' = level
  <2>1. 0 <= 0 * MaxChargeError + 0
    BY <1>1
  <2> QED BY <1>1, <1>5, <2>1 DEF Polls
<1>6. CASE Settings!device_charged
  <2>0. level' = level
    BY <1>6, Charged
  <2>1. CASE wait'.polls = 0 /\ wait'.peak = 0 /\ wait'.fails = 0
    BY <1>5, <2>0, <2>1
  <2>2. CASE /\ level < Target
             /\ IF level > wait.peak THEN wait'.fails = 0 /\ wait'.peak = level
                ELSE /\ wait'.fails = wait.fails + 1 /\ wait'.peak = wait.peak
                     /\ ~(wait'.fails >= MaxChargeError)
             /\ wait'.polls \in {wait.polls, wait.polls + 1}
    <3>1. /\ wait.polls \in Nat /\ wait.peak \in Nat /\ wait.peak < Target /\ wait.fails \in Nat
          /\ wait.fails < MaxChargeError /\ level \in Nat
          /\ wait.polls <= wait.peak * MaxChargeError + wait.fails
      BY <1>1 DEF Polls
    <3>2. wait.peak * MaxChargeError \in Nat /\ level * MaxChargeError \in Nat
      BY <1>1, <3>1
    <3>3. wait'.polls \in Nat /\ wait'.polls <= wait.polls + 1
      BY <2>2, <3>1
    <3>4. CASE level > wait.peak
      <4>1. wait.peak * MaxChargeError + wait.fails + 1 <= level * MaxChargeError
        BY <1>1, <3>1, <3>4, Rises
      <4>2. wait'.fails = 0 /\ wait'.peak = level
        BY <2>2, <3>4
      <4> DEFINE x == wait.peak * MaxChargeError
                 y == level * MaxChargeError
      <4>3. x \in Nat /\ y \in Nat /\ wait.polls <= x + wait.fails /\ x + wait.fails + 1 <= y
        BY <3>1, <3>2, <4>1
      <4> HIDE DEF x, y
      <4>4. wait'.polls <= y + 0
        BY <3>1, <3>3, <4>3
      <4>5. wait'.peak \in 0..(Target - 1) /\ wait'.fails \in 0..(MaxChargeError - 1)
        BY <1>1, <2>2, <3>1, <4>2
      <4>6. wait'.polls <= wait'.peak * MaxChargeError + wait'.fails
        BY <4>2, <4>4 DEF y
      <4> QED BY <2>0, <3>1, <3>3, <4>5, <4>6 DEF Polls
    <3>5. CASE ~(level > wait.peak)
      <4>2. wait'.fails = wait.fails + 1 /\ wait'.peak = wait.peak /\ ~(wait'.fails >= MaxChargeError)
        BY <2>2, <3>5
      <4> DEFINE x == wait.peak * MaxChargeError
      <4>3. x \in Nat /\ wait.polls <= x + wait.fails
        BY <3>1, <3>2
      <4> HIDE DEF x
      <4>4. wait'.polls <= x + wait'.fails
        BY <3>1, <3>3, <4>2, <4>3
      <4>5. wait'.peak \in 0..(Target - 1) /\ wait'.fails \in 0..(MaxChargeError - 1)
        BY <1>1, <3>1, <4>2
      <4>6. wait'.polls <= wait'.peak * MaxChargeError + wait'.fails
        BY <4>2, <4>4 DEF x
      <4> QED BY <2>0, <3>1, <3>3, <4>5, <4>6 DEF Polls
    <3> QED BY <3>4, <3>5
  <2> QED BY <1>6, <2>1, <2>2, Charged
<1> QED BY <1>2, <1>3, <1>4, <1>5, <1>6, CareSteps, ChargeMoves

\* What the steps of the wait for a cool battery do.
LEMMA CoolMoves ==
  ASSUME OwnScript, WaitType, script = Cools, Waiting
  PROVE
    /\ op = "none" /\ UNCHANGED <<last, hw>>
    /\ \/ /\ Failed /\ wait'.for = "none" /\ wait'.at = "none" /\ op' = "none"
          /\ cut' = (cut \/ last.op = "_HardwareSetCharging")
       \/ UNCHANGED <<callVars, wait, cut>>
       \/ /\ wait.for = "none" /\ wait'.for # "none" /\ wait'.at = "poll"
          /\ op' = "EnableBatteryUpdates" /\ pc' = op' /\ cut' = cut
       \/ /\ wait.at \in {"poll", "read"} /\ ~Failed
          /\ wait'.for = "none" /\ wait'.at = "none" /\ op' = "none" /\ cut' = cut
       \/ /\ wait.at \in {"poll", "read"} /\ ~Failed /\ wait'.for # "none" /\ wait'.at = "on"
          /\ op' = "_HardwareSetCharging" /\ pc' = "Hardware" /\ cut' = cut
       \/ /\ wait.at = "on" /\ wait'.for # "none" /\ wait'.at = "read"
          /\ op' = "_HardwareSetCharging" /\ pc' = "Hardware" /\ arg'.on = TRUE /\ cut' = cut
       \/ /\ wait.at = "read" /\ ~Failed /\ wait'.for # "none" /\ wait'.at = "poll"
          /\ op' = "none" /\ cut' = cut
<1>1. {wait.for, wait.was} \subseteq Cools \cup {"none"}
  BY DEF OwnScript
<1>2. /\ wait.for \notin {"WaitForCharge", "LetCpuCoolToTemperature", "SetDate"}
      /\ {"WaitForCharge", "LetCpuCoolToTemperature", "SetDate"} \cap script = {}
      /\ script # Settings!Charges
  BY <1>1, CareMarks, CareScripts
<1> USE DEF Settings!Same, Settings!battery, Settings!callVars, callVars, Settings!EndWait, Settings!Idle,
        Settings!NoWait, Settings!Direct, Settings!Hardware_, Settings!At, Settings!Failed, Failed
<1>3. CASE Settings!CallRaised
  BY <1>3 DEF Settings!CallRaised
<1>4. CASE Settings!Drift
  BY <1>4 DEF Settings!Drift
<1>5. CASE Settings!LetBatteryCoolToTemperature
  BY <1>5 DEF Settings!LetBatteryCoolToTemperature, Settings!Start
<1>6. CASE Settings!cool_device
  <2>1. CASE wait' = [wait EXCEPT !.at = "on", !.start = level]
    <3>1. wait'.for = wait.for /\ wait'.at = "on"
      BY <2>1 DEF WaitType
    <3> QED BY <1>6, <3>1 DEF Settings!cool_device
  <2> QED BY <1>6, <2>1 DEF Settings!cool_device
<1>7. CASE Settings!ChargeAgain
  BY <1>7 DEF Settings!ChargeAgain, Settings!To, WaitType
<1>8. CASE Settings!device_discharged
  BY <1>8 DEF Settings!device_discharged, Settings!To, WaitType
<1> QED BY <1>2, <1>3, <1>4, <1>5, <1>6, <1>7, <1>8 DEF Waiting, Settings!Uncharge,
     Settings!WaitForCharge, Settings!device_charged,
     Settings!LetCpuCoolToTemperature, Settings!cool_cpu, Settings!HighPerfAgain,
     Settings!SetDate, Settings!_set_and_verify_date, Settings!Start

\* Charging is on again but between the steps of a discharge.
LEMMA CoolingKeeps ==
  ASSUME OwnScript, WaitType, script = Cools, Cooling, Settings!CareNext PROVE Cooling'
<1>1. script \in Cares
  BY CareScripts
<1>2. op = "none" => pc = "none"
  BY <1>1 DEF OwnScript
<1>3. CASE Settings!BatteryStep /\ UNCHANGED <<wait, cut>>
  <2>1. pc # "none" /\ op # "none" /\ wait.at # "none"
    BY <1>2, <1>3, SettingsPaces DEF Cooling
  <2>2. CASE wait.at = "poll"
    BY <1>2, <1>3, <2>1, <2>2, BatteryMoves DEF Cooling, To, Raised, Returned, Keeps, Fakes, CallGoesOn, CallIsOver
  <2>3. CASE wait.at = "on"
    BY <1>2, <1>3, <2>1, <2>3, BatteryMoves DEF Cooling, To, Raised, Returned, Keeps, Fakes, CallGoesOn, CallIsOver
  <2>4. CASE wait.at = "read"
    BY <1>2, <1>3, <2>1, <2>4, BatteryMoves DEF Cooling, To, Raised, Returned, Keeps, Fakes, CallGoesOn, CallIsOver, Failed
  <2> QED BY <2>1, <2>2, <2>3, <2>4 DEF Cooling
<1>4. ~Settings!PerfStep
  BY <1>2, OtherAt DEF Cooling
<1>5. ~Settings!HotPlug
  BY DEF Settings!HotPlug, Cools
<1>6. CASE Waiting
  BY <1>2, <1>6, CoolMoves DEF Cooling, Failed, callVars
<1> QED BY <1>1, <1>3, <1>4, <1>5, <1>6, CareSteps

\* What the steps of the wait for cool cores do.
LEMMA CoolCpuMoves ==
  ASSUME OwnScript, WaitType, script = Cpus, Waiting
  PROVE
    /\ op = "none" /\ UNCHANGED <<online, freq, mpRuns>>
    /\ \/ UNCHANGED <<callVars, wait, governor>>
       \/ /\ wait'.for = "none" /\ wait'.at = "none" /\ UNCHANGED <<callVars, governor>>
          /\ wait'.how = "ok" => wait.at = "mode" /\ last.how = "ok"
       \/ /\ wait.for = "none" /\ wait'.for # "none" /\ wait'.at = "poll"
          /\ wait'.was = "none" /\ UNCHANGED <<op, pc, arg, loc>>
          /\ governor' = governor \/ Governed("powersave")
       \/ /\ wait.at = "poll" /\ wait'.for # "none" /\ wait'.at = "mode" /\ wait'.was = wait.was
          /\ wait'.how = wait.how
          /\ op' = "SetHighPerfMode" /\ pc' = op' /\ UNCHANGED <<loc, governor>>
       \/ /\ wait.at = "poll" /\ wait'.for # "none" /\ wait'.at = "poll" /\ wait'.was = wait.was
          /\ wait'.how = wait.how /\ UNCHANGED <<callVars, governor>>
<1>1. {wait.for, wait.was} \subseteq Cpus \cup {"none"}
  BY DEF OwnScript
<1>2. /\ wait.for \notin {"WaitForCharge", "LetBatteryCoolToTemperature", "SetDate"}
      /\ {"WaitForCharge", "LetBatteryCoolToTemperature", "SetDate"} \cap script = {}
      /\ script # Settings!Charges
  BY <1>1, CareMarks, CareScripts
<1> USE DEF Settings!Same, Settings!perf, Settings!callVars, callVars, Settings!EndWait, Settings!Idle,
        Settings!NoWait, Settings!Direct, Settings!At, Settings!Failed, Failed
<1>3. CASE Settings!CallRaised
  BY <1>3 DEF Settings!CallRaised
<1>4. CASE Settings!Drift
  BY <1>4 DEF Settings!Drift
<1>5. CASE Settings!LetCpuCoolToTemperature
  BY <1>5 DEF Settings!LetCpuCoolToTemperature, Settings!Start, Settings!SetGovernor, Governed
<1>6. CASE Settings!cool_cpu
  <2>1. CASE wait' = [wait EXCEPT !.polls = @ + 1]
    <3>1. wait'.for = wait.for /\ wait'.at = wait.at /\ wait'.was = wait.was /\ wait'.how = wait.how
      BY <2>1 DEF WaitType
    <3> QED BY <1>6, <3>1 DEF Settings!cool_cpu, Settings!To, WaitType
  <2> QED BY <1>6, <2>1 DEF Settings!cool_cpu, Settings!To, WaitType
<1>7. CASE Settings!HighPerfAgain
  BY <1>7 DEF Settings!HighPerfAgain
<1> QED BY <1>2, <1>3, <1>4, <1>5, <1>6, <1>7 DEF Waiting, Settings!Uncharge,
     Settings!WaitForCharge, Settings!device_charged, Settings!LetBatteryCoolToTemperature,
     Settings!cool_device, Settings!ChargeAgain, Settings!device_discharged,
     Settings!SetDate, Settings!_set_and_verify_date, Settings!Start

\* All cores run at full speed after the wait for cool ones.
LEMMA CoolCoresKeep ==
  ASSUME OwnScript, WaitType, script = Cpus, CoresType, ModeCalls, CoolCores, Settings!CareNext
  PROVE  CoresType' /\ ModeCalls' /\ CoolCores'
<1>1. script \in Cares
  BY CareScripts
<1>2. op = "none" => pc = "none"
  BY <1>1 DEF OwnScript
<1>3. CASE Settings!PerfStep /\ wait' = wait
  <2>1. /\ op = "SetHighPerfMode" /\ wait.at = "mode" /\ before' = before
        /\ CallGoesOn \/ CallIsOver
    BY <1>2, <1>3, SettingsPaces DEF CoolCores
  <2>2. CoresType' /\ ModeCalls'
    BY <1>2, <1>3, CoresTyped, ModeCallsOn
  <2>3. ASSUME before.def # "none"
        PROVE  ModeComesUp' /\ (op' = "none" /\ last'.how = "ok" => AtFull')
    BY <1>3, <2>1, <2>3, ModeUp DEF CoolCores
  <2>4. wait.for # "none"
    BY <2>1 DEF CoolCores
  <2> QED BY <1>3, <2>1, <2>2, <2>3, <2>4 DEF CoolCores, CallGoesOn, CallIsOver
<1>4. ~Settings!BatteryStep
  BY <1>2, BatteryAt DEF ModeCalls, UpSteps, DownSteps
<1>5. CASE Settings!HotPlug /\ wait' = wait
  <2>1. /\ CoresType' /\ mpRuns /\ UNCHANGED <<op, pc, loc, last, governor, freq, mpRuns, before>>
    BY <1>5, HotPlugs DEF callVars
  <2> QED BY <1>5, <2>1 DEF CoolCores, ModeCalls, ModeComesUp, AtFull
<1>6. CASE Waiting /\ before' = before
  <2>1. CoresType' /\ ModeCalls'
    BY <1>2, <1>6, CoolCpuMoves DEF CoresType, ModeCalls, Governed, callVars, UpSteps
  <2> QED BY <1>2, <1>6, <2>1, CoolCpuMoves DEF CoolCores, ModeComesUp, AtFull, callVars, Governed
<1> QED BY <1>1, <1>3, <1>4, <1>5, <1>6, CareSteps
-------------------------------------------------------------------------------
(* All of the settings                                                          *)

\* A step is one of the settings' own, or leaves them alone.
LEMMA SettingsSteps ==
  ASSUME Next
  PROVE  \/ script \in Blocks \cup Cares /\ Settings!CareNext
         \/ script \notin Blocks \cup Cares /\ UNCHANGED settings
<1> DEFINE Marks  == {"DisableBatteryUpdates", "PowerMeasurement", "SetDefaultPerfMode", "Restore",
                      "WaitForCharge", "LetBatteryCoolToTemperature", "LetCpuCoolToTemperature",
                      "SetDate"}
           Others == {ShellCalls, PipeCalls, PrefsCalls, SystemCalls, FastCalls, UnlockCalls, WebCalls,
                      RecCalls, ManyCalls}
<1>1. \A s \in Others \cup AppCalls : s \cap Marks = {}
  BY DEF ShellCalls, PipeCalls, PrefsCalls, SystemCalls, FastCalls, UnlockCalls, WebCalls,
     RecCalls, ManyCalls, AppCalls, Asserts, Screens, Processes
<1>2. \A s \in Blocks : s \cap Marks # {}
  BY CareScripts DEF Measures, Powers, Modes, Changes
<1>3. \A s \in Cares : s \cap Marks # {}
  BY CareScripts, CareMarks
<1>4. script \in Others \cup AppCalls => script \notin Blocks \cup Cares
  BY <1>1, <1>2, <1>3
<1>5. \/ script \in Blocks \cup Cares /\ Settings!CareNext
      \/ script \in Others \cup AppCalls /\ UNCHANGED settings
  BY DEF Next
<1> QED BY <1>4, <1>5

LEMMA SettingsStart == Init => SettingsInv
<1> SUFFICES ASSUME Init PROVE SettingsInv
  OBVIOUS
<1>1. /\ op = "none" /\ pc = "none" /\ last = [op |-> "none", how |-> "ok"] /\ block = "before"
      /\ hw = TRUE /\ usb = "real" /\ ac = "real"
      /\ online \in [Cpu -> BOOLEAN] /\ governor = [c \in Cpu |-> "default"]
      /\ freq = [c \in Cpu |-> "default"]
      /\ flagFile \in SUBSET Flag /\ enforce \in BOOLEAN
      /\ stack = <<flagFile>> /\ shouldReset = FALSE /\ half = FALSE
      /\ before.file = flagFile /\ before.enforce = enforce
  BY DEF Init, Settings!Init, Settings!CallInit
<1>2. wait = Settings!NoWait /\ level = 0 /\ cut = FALSE
  BY DEF Init, Settings!CareInit
<1>3. /\ wait.for = "none" /\ wait.at = "none" /\ wait.was = "none" /\ wait.polls = 0
      /\ wait.peak = 0 /\ wait.fails = 0 /\ WaitType
  BY <1>2 DEF Settings!NoWait, WaitType
<1>4. OwnScript
  BY <1>1, <1>2, <1>3 DEF OwnScript
<1>5. Reports /\ Charging
  BY <1>1 DEF Reports, Charging, GivenBack
<1>6. CoresType /\ ModeCalls /\ Cores
  BY <1>1 DEF CoresType, ModeCalls, Cores, ModeComesUp, ModeGoesDown, Outside, AtDefault
<1>7. FlagStack
  <2>1. stack \in Seq(SUBSET Flag) /\ Len(stack) = 1 /\ stack[1] = flagFile
    BY <1>1
  <2> QED BY <1>1, <2>1 DEF FlagStack, GivenBack
<1>8. Polls
  <2>0. Target \in Nat /\ MaxChargeError \in Nat /\ 0 < Target /\ 0 < MaxChargeError
    BY ToolsAssumption
  <2>1. 0 \in 0..(Target - 1) /\ 0 \in 0..(MaxChargeError - 1)
    BY <2>0
  <2>2. 0 <= 0 * MaxChargeError + 0
    BY <2>0
  <2> QED BY <1>2, <1>3, <2>1, <2>2 DEF Polls
<1>9. Cooling /\ CoolCores
  BY <1>1, <1>2, <1>3 DEF Cooling, CoolCores, ModeComesUp
<1> QED BY <1>3, <1>4, <1>5, <1>6, <1>7, <1>8, <1>9 DEF SettingsInv

LEMMA SettingsStay == ASSUME SettingsInv, Next PROVE SettingsInv'
<1>1. script' = script
  BY ScriptStays
<1>2. CASE script \in Blocks \cup Cares /\ Settings!CareNext
  <2>1. OwnScript' /\ WaitType'
    BY <1>2, OwnScriptKeeps DEF SettingsInv
  <2>2. CASE script \in Blocks
    <3>1. Settings!Next
      BY <1>2, <2>2, BlockSteps DEF SettingsInv
    <3>2. script \notin {Charges, Cools, Cpus}
      BY <2>2, CareScripts
    <3> QED BY <1>1, <2>1, <3>1, <3>2, ReportsKeep, ChargingKeeps, CoresKeep, FlagsKeep DEF SettingsInv
  <2>3. CASE script \in Cares
    <3>2. script \notin {Measures, Powers, Modes, Changes}
      BY <2>3, CareScripts
    <3> QED BY <1>1, <1>2, <2>1, <3>2, PollsKeep, CoolingKeeps, CoolCoresKeep DEF SettingsInv
  <2> QED BY <1>2, <2>2, <2>3
<1>3. CASE script \notin Blocks \cup Cares /\ UNCHANGED settings
  <2>1. block' = block /\ wait' = wait
    BY <1>3 DEF settings
  <2>2. OwnScript' /\ WaitType'
    BY <1>1, <1>3, <2>1 DEF SettingsInv, OwnScript, WaitType, Settings!NoWait
  <2>3. script \notin {Measures, Powers, Modes, Changes, Charges, Cools, Cpus}
    BY <1>3, CareScripts
  <2> QED BY <1>1, <2>2, <2>3 DEF SettingsInv
<1> QED BY <1>2, <1>3, SettingsSteps

LEMMA SettingsIdle == ASSUME SettingsInv, UNCHANGED <<callVars, settings>> PROVE SettingsInv'
<1>1. UNCHANGED <<op, pc, arg, loc, last, script, block, hw, usb, ac, online, governor, freq, mpRuns,
                  flagFile, enforce, stack, shouldReset, half, before, wait, level, cut>>
  BY DEF callVars, settings
<1>2. OwnScript' /\ WaitType'
  BY <1>1 DEF SettingsInv, OwnScript, WaitType, Settings!NoWait
<1>3. GivenBack' <=> GivenBack
  BY <1>1 DEF GivenBack, Failed
<1>4. (script = Measures => Reports') /\ (script = Powers => Charging')
  BY <1>1, <1>3 DEF SettingsInv, Reports, Charging, ChargingSteps, Settings!Faked
<1>5. /\ AtFull' <=> AtFull
      /\ AtDefault' <=> AtDefault
      /\ CoresType' <=> CoresType
  BY <1>1 DEF AtFull, AtDefault, CoresType
<1>6. /\ ModeComesUp' <=> ModeComesUp
      /\ ModeGoesDown' <=> ModeGoesDown
      /\ ModeCalls' <=> ModeCalls
      /\ Outside' <=> Outside
  BY <1>1, <1>5 DEF ModeComesUp, ModeGoesDown, ModeCalls, Outside, UpSteps, DownSteps
<1>7. script \in {Modes, Cpus} => /\ CoresType' /\ ModeCalls'
                                  /\ script = Modes => Cores'
                                  /\ script = Cpus => CoolCores'
  BY <1>1, <1>5, <1>6 DEF SettingsInv, Cores, CoolCores, Ended
<1>8. script = Changes => FlagStack'
  BY <1>1, <1>3 DEF SettingsInv, FlagStack
<1>9. (script = Charges => Polls') /\ (script = Cools => Cooling')
  BY <1>1 DEF SettingsInv, Polls, Cooling, Failed
<1> QED BY <1>1, <1>2, <1>4, <1>7, <1>8, <1>9 DEF SettingsInv

LEMMA SettingsHold == ASSUME SettingsInv PROVE SettingsAreKept
<1> USE DEF SettingsInv
<1>0. Settings!Charges = Charges
  BY CareScripts
<1>1. block # "before" => script \in {Measures, Powers, Modes, Changes}
  BY CareScripts DEF OwnScript
<1>2. block = "after" => op = "none"
  BY <1>1, CareScripts DEF OwnScript
<1>3. Settings!ReportsResume
  <2>1. Settings!Over("BatteryMeasurement") => script = Measures /\ GivenBack
    BY <1>1, <1>2 DEF Settings!Over, Settings!Failed, Failed, GivenBack, Powers, Modes, Changes
  <2> QED BY <2>1 DEF Settings!ReportsResume, Reports
<1>4. Settings!ChargingResumes
  <2>1. Settings!Over("PowerMeasurement") => script = Powers /\ GivenBack
    BY <1>1, <1>2 DEF Settings!Over, Settings!Failed, Failed, GivenBack, Measures, Modes, Changes
  <2> QED BY <2>1 DEF Settings!ChargingResumes, Charging
<1>5. Settings!AllCoresTogether
  <2>1. /\ block = "body" /\ Settings!Ended("SetHighPerfMode") => script = Modes
        /\ block = "after" /\ Settings!Ended("SetDefaultPerfMode") => script = Modes
    BY <1>1, CareScripts DEF OwnScript, Settings!Ended, Measures, Powers, Changes
  <2>2. block \in {"body", "after"} => op = "none"
    BY <1>1, CareScripts DEF OwnScript
  <2> QED BY <2>1, <2>2 DEF Settings!AllCoresTogether, Cores, AtFull, AtDefault, Ended, Settings!Ended
<1>6. Settings!FlagsRestored
  <2>1. Settings!Over("ReplaceFlags") => script = Changes /\ GivenBack /\ block = "after"
    BY <1>1, <1>2 DEF Settings!Over, Settings!Failed, Failed, GivenBack, Measures, Powers, Modes
  <2> QED BY <2>1 DEF Settings!FlagsRestored, FlagStack
<1>7. Settings!WaitsLeaveInOrder
  <2>1. script = Charges => wait.polls < Target * MaxChargeError
    <3>1. ASSUME script = Charges PROVE wait.polls < Target * MaxChargeError
      <4>1. /\ Target \in Nat /\ MaxChargeError \in Nat /\ wait.polls \in Nat /\ wait.peak \in Nat
            /\ wait.fails \in Nat /\ wait.peak < Target /\ wait.fails < MaxChargeError
            /\ wait.polls <= wait.peak * MaxChargeError + wait.fails
        <5>1. Polls
          BY <3>1
        <5>2. Target \in Nat /\ MaxChargeError \in Nat
          BY ToolsAssumption
        <5> HIDE DEF SettingsInv
        <5> QED BY <5>1, <5>2 DEF Polls
      <4>2. wait.peak * MaxChargeError + wait.fails + 1 <= Target * MaxChargeError
        BY <4>1, Rises
      <4> DEFINE x == wait.peak * MaxChargeError
                 y == Target * MaxChargeError
      <4>3. x \in Nat /\ y \in Nat
        BY <4>1
      <4>4. wait.polls <= x + wait.fails /\ x + wait.fails + 1 <= y
        BY <4>1, <4>2
      <4> HIDE DEF x, y
      <4>5. wait.polls < y
        BY <4>1, <4>3, <4>4
      <4> QED BY <4>5 DEF y
    <3> QED BY <3>1
  <2>2. wait.was # "none" => script \in {Charges, Cools, Cpus, Dates} /\ wait.was \in script
    BY CareScripts DEF OwnScript, Settings!NoWait
  <2>3. /\ wait.was = "LetBatteryCoolToTemperature" => script = Cools
        /\ wait.was = "LetCpuCoolToTemperature" => script = Cpus
    BY <2>2, CareMarks
  <2> QED BY <1>0, <2>1, <2>3 DEF Settings!WaitsLeaveInOrder, Settings!Waited, Cooling, CoolCores, AtFull
<1> QED BY <1>3, <1>4, <1>5, <1>6, <1>7 DEF SettingsAreKept

\* SettingsAreKept on any number of cores, with any flags and levels of the battery: the
\* blocks know at each step what of the device they have changed, and the waits what they
\* have gained since they began.
THEOREM SettingsComeBack == Spec => []SettingsAreKept
<1>1. Init => SettingsInv
  BY SettingsStart
<1>2. SettingsInv /\ [Next]_vars => SettingsInv'
  <2>1. UNCHANGED vars => UNCHANGED <<callVars, settings>>
    BY DEF vars
  <2> QED BY <2>1, SettingsStay, SettingsIdle
<1>3. SettingsInv => SettingsAreKept
  BY SettingsHold
<1> QED BY <1>1, <1>2, <1>3, PTL DEF Spec
===============================================================================
