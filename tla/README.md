# Verification of the Designosaurs' SkyStone code

TLA+ models, TLC checks and TLAPS proofs of two bodies of code in this repository:

- **the robot**: the programs the FTC team Designosaurs wrote for the 2019-2020 season.
  They run on a Robot Controller phone: an *OpMode* is selected and started from the
  driver station, commands motors and servos through the FTC SDK, and may be stopped at
  any time. Paths of this part are relative to
  `src/SkyStone-master/TeamCode/src/main/java/org/firstinspires/ftc/teamcode/`.
- **the host tools**: the Python programs under
  `src/SkyStone-master/platform-tools/systrace/catapult/` (*catapult* below, and the
  root of its paths) that drive such a phone over USB: `devil`, `systrace`,
  `profile_chrome`, `py_utils`, `py_trace_event`, `py_vulcanize`, `dependency_manager`.

`PROJECT.json` lists components, runs, mutants, the source lines of every definition,
hazards and theorems.

## 1. Inventory

### The robot

| component | state it keeps | operations | what is hard | what makes it correct |
|---|---|---|---|---|
| moveRTP (`HardwareDesignosaurs.java` 141-249) | mode, target, encoder and power of four motors; two ramps, the lock, the clock | reset, switch mode, targets, loop, settle, brake | each motor call is a step; wheels turn and a stop arrives between any two; calls of an interrupted thread may be lost | no drive to a stale target; the ramp's lock not missed; wheels agree; off on return; stop honoured; ends |
| Skystone programs and detection (4 OpModes) | `pos`, detector, gripper, the robot's place | a straight program of moves, grips, pauses, one look | four copies with four tables of distances that must add up; a stop anywhere, before the start too; order of the recognitions | stones past the bridge, the leftmost first; clear of the stones; clean end |
| Foundation programs (2) | one `ElapsedTime` for everything | moves, gripper pauses, wait, park | moves reset the timer that pauses and display read | pauses kept, parks late |
| StandardTeleOp | gears, pitch target | `loop` per gamepad sample | gear a pass late, button priority, clipping, two reads of a moving motor | drives as asked, the arm settles |

Every autonomous program owns one `HardwareDesignosaurs` and one `ElapsedTime` and
passes both to `moveRTP`, which runs to its end in the OpMode's thread, resets the timer
twice and asks the OpMode `opModeIsActive()`. The concurrency is between that thread,
the motor controller, which turns the wheels on its own, and the driver station.

### The host tools

| component | state it keeps | what is hard | what makes it correct |
|---|---|---|---|
| adb command: `timeout_retry`, `reraiser_thread`, `watchdog_timer`, `cmd_helper`, `decorators` | attempts, threads, process, pipe | an attempt that timed out goes on beside the next; last bytes at the exit | one command at work at a time, whole output, the call ends |
| `device_utils`: root, properties, packages, pushed files | caches, and dumps of them | a command may fail after it took effect; reboots, other hosts, retries | caches are those of the device |
| `device_utils`, `md5sum`, `device_temp_file`, `adb_wrapper`: shell | temporary files, the persistent shell's pipe | cut outputs, run twice; answers told apart by marker lines | whole contents, no leftovers |
| `device_utils`: apps, keys, Java asserts | - | a key whose answer was lost is sent again | the app is as asked |
| `battery_utils`, `perf_control`, `flag_changer`, `cpu_temperature` | settings to give back | each command may fail, also those that undo | given back; waits end |
| `shared_prefs`, `system_app`, `webview_app`, `fastboot_utils` | files and partitions of the device | the app writes its file too; nested blocks whose exits fail; reboots between | commit sticks; replacement, provider and bootloader are left |
| recorders: frames, video, throttling, power | threads, queue, cached uids | a thread that dies, data left of the recording before | what is recorded happened, no Stop hangs but one after a Stop that took the thread's exception |
| `parallelizer` | group of threads per call | some devices fail, a wait of a call, an entry or an exit is interrupted | all have ended; contexts that were entered are left |
| `forwarder`, `ports` | tables per process, two daemons, a port file | several processes, one lock, death in it | forwards are known, no port twice |
| tracing sessions: controller, agents, outputs | agents started, markers, results | one fails or times out among others | nothing left tracing, but what `ftrace` sets of its buffer and options; results complete |
| `logcat_monitor` | recorder thread, lock, file | a join that gives up, a log that is not cleared | one recorder, every line as often as it was read |
| `py_trace_event` log | buffer, file, two locks | threads and forks, children with their parent's buffer | every event once from its own process |
| `py_vulcanize` | the loader's tables | a load that raises half way | the bundle is whole |
| USB maps and resets | - | three answers taken at different times | the port shown is the phone's |
| `cloud_storage`, `dependency_manager` | lock file, timestamps, unzipped directory, config file, looked-up paths | processes killed anywhere, checkouts, failed uploads | one holder, true answers but where a file outlived a kill or a checkout, all or nothing |
| blacklist, status, recovery, provisioning | one blacklist file | a thread per device, reads and writes interleave | reported failures listed, unlisted devices done |

How they interact: every tool reaches a device through `DeviceUtils` and `AdbWrapper`,
whose every command is run by `timeout_retry` (a thread per attempt); tools on many
devices go through `parallelizer`; processes share only files (port file, blacklist,
cloud cache, trace log) under `fcntl` locks, and daemons (adb server, `host_forwarder`).

## 2. Modules

| module | models | composed in |
|---|---|---|
| `MoveContract` | what a call of moveRTP promises: the abstract specification | |
| `MoveRTP`, `MoveRTP_proofs`, `MCMoveRTP` | `setTargetPos`, `setPowers`, `moveRTP`, motors, stop; implements `MoveContract` | |
| `SkystoneAuto`, `SkystoneRun`, `SkystoneRun_proofs` | thresholds and the four programs (a move is what `MoveContract` promises); the loop over recognitions | `SkystoneRun` implements `SkystoneAuto` |
| `FoundationMove`, `TeleOp` | the foundation programs and their clock; the driver's program | `Match`, `Match_proofs` |
| `AdbCommand`, `AdbCommand_proofs` | one command from decorator to pipe, POSIX and Windows hosts | |
| `DeviceCall` | the frame of a `DeviceUtils` method: steps of adb commands, retries of the whole method | all `Device*` modules |
| `DeviceState`, `DevicePackages`, `DeviceFiles` | properties, su and cache tokens; installs; pushes | `DeviceUtils`, `DeviceUtils_proofs`: sessions, reboots, crashes, dumps |
| `DeviceSettings`, `DeviceShell`, `DeviceApp`, `SharedPrefs`, `SystemApp`, `Fastboot`, `WebView`, `Recorders`, `Parallel` | one tool each, see the inventory | `DeviceTools`, `DeviceTools_proofs` |
| `Forwarder`, `Systrace`, `LogcatMonitor`, `Vulcanize`, `Usb` | one tool each; `Forwarder` has the test server ports too, `Systrace` the agents | `HostTools`, `MCHostTools` |
| `TraceLog`, `TraceLog_proofs` | programs, threads, forked children, one trace file | |
| `CloudStorage`, `ConfigUpdate`, `DependencyLookup` | lock file, cached download, fetch and unzip; publishing a config; looking up | `Dependencies`, `SharedFiles_proofs` |
| `Fleet` | the three scripts, a thread per device, the blacklist | `SharedFiles_proofs` |

Composition. `DeviceTools`, `HostTools` and `Dependencies` compose tools that never run
together in one script: a behaviour is of one tool, the idle ones stay in one fixed
initial state. That keeps the product of state spaces a sum; what the tools share
(the frame of `DeviceCall`, retries, the failing commands) is one module.

### The robot: MoveRTP, SkystoneAuto, FoundationMove, TeleOp

`pc` is the statement of `moveRTP`, `k` the motor of a run of four calls. The code's
order is kept: `ResetEncoder` goes through `PowerOrder` (front right first),
`TargetMode`/`TargetPosition` through `TargetOrder`, mode before target. `Check` is the
loop's condition with its four `isBusy` calls; `Sample` the reading of clock and
encoder; `WritePower` one `setPower`; `Brake` one `setPower(0)`. `Roll(w)` turns a
powered wheel by one inch, `Tick` passes time, `RequestStop` is the driver station.
Counts are inches and powers tenths of full power; `SideBias` stands for the factor
sqrt 2, as any operator that does not shorten a distance. A wheel is at most `Skew`
inches ahead of another (one rigid frame), and front right turns at most `MaxTravel`
inches between two samples.

What the SDK does is taken from how the code uses it (external in `PROJECT.json`):
`stop` raises the flag `opModeIsActive` reads and interrupts the thread, after which on a
REV hub a write is lost, `isBusy` answers false and a position 0, while other
controllers carry the call out: the constant `Delivers` says which. A mode change keeps
the power; a motor in `RUN_TO_POSITION` turns to its target while powered; after an
OpMode the platform sets all powers to 0. Strings compared with `==` are interned.

A Skystone program is a sequence of steps, each move with its distances for `pos` = 0,
1, 2 in hundredths of an inch; cut short by a stop it has gone none, half or all of its
way. `SkystoneRun` puts the loop over the detector's list in the place of the one look
of `SkystoneAuto` and is checked to implement it. `FoundationMove` goes statement by
statement with the clock and the last reset of `runtime`. `TeleOp` has the wheel mix of
a third of a cube, clipping, the gear of the pass before, and the arm with its two
reads of a motor that turns between them.

### The device: DeviceCall and what runs in it

A method is a sequence of steps `at`, each one adb command; every step may raise before
or after it took effect, and the decorator starts the method over, `Retries` times.
State of the device and state of the host are separate variables, so that "the command
raised, the device changed" is a state. Blocks (`with`) are a call that changes, a body,
and a call that restores, made when the body or the change raised as the code does it
and not where the code has it outside of `try`. The scripts of a tool, which calls it
makes and in which order, are a set of sequences (`AllScripts`).

### Host tools

Each process, thread or daemon is an actor; a lock is a variable; a step ends where
another actor can see or change what it read: a file's read and its write, a queue's put
and get, a command to adb. `Systrace` has a table of agents: what start changes, what
stop puts back, whether each may raise or be given up by a timeout. `Usb` keeps what the
commands answered apart from what is plugged in by the time the next answer comes.

### Data

Contents are versions, files and packages members of small sets, output whole, cut or
absent, timestamps small integers that may tie. Formatting, logging and exact wording are
left out, except where the code parses what it wrote (markers of the persistent shell,
lines of `logcat` and `lsusb`, the rows of a battery dump), which the modules model by
what the parser tells apart.

## 3. Runs

| run | question | bounds |
|---|---|---|
| `move` | seven properties of moveRTP with lost writes, that it implements its contract among them | two calls, forward 4 inches and left 5 (target 7), up to 2 ticks and 2 inches between samples |
| `move_live` | a stop ends the driving with stuck wheels, every move ends if wheels turn | shorter moves, delivered writes |
| `move_ramp` | the comment on the deceleration ramp: violated (a finding) | as `move` |
| `skystone_run` | stones delivered, clean end, the loop is the one look | real distances; frames of up to 2 objects with averages on and beside every threshold |
| `match` | pauses and parking, gear and arm | 2 ticks a second, parking at second 4 of 6; `StickEnd` 2 for the ends of the sticks, two pitch buttons held, one position per step |
| `adb_command` | one command at a time, whole output, the call ends | one retry, timeout 60 and poll 2, one chunk beside the rest, both hosts |
| `device` | caches describe the device; calls that trust them do as asked | sessions of two calls, two sessions, one retry; two properties, one of them late in boot; one file, two versions |
| `device_tools` | the ten tools on a device | one retry; battery scale `Full` 4, `MaxChargeError` 2 for 20, `Day` 4 for 86400 s, `Frames` 2 for SurfaceFlinger's 128; `MaxPids` 3 processes, `MaxSends` 3 shell commands, `MaxKeys` 2 deliveries of a key, two packages with two uids, two devices with four groups of threads |
| `host_tools` | the five host tools | two processes of a group and two devices, device ports 0 (any) and 1, two host ports, three jobs; up to `MaxProfilers` 3 of profile_chrome's four agents together; two starts of logcat, three log lines, `Sought` the one searched; modules a, b, c and base in the trees of `MCTrees`; `LastNum` 9 for USB's 127, `MaxDepth` 2 for 32 |
| `trace_log` | every event gets to the file, once from its own process; entries are whole without forks | two programs, one with two threads and one forked child, two events each |
| `dependencies` | one holder, true answers, all or nothing | two processes, three fetches, one sync; two jobs, two runs; two configs, `Retries` 3 prefetch attempts |
| `fleet` | reported failures listed, unlisted devices done | two devices, three steps, two scripts, one device that goes wrong by itself |

Why the bounds suffice. A bound is chosen so that the code's case splits all happen: a
second call that meets what the first left, one retry that meets what the attempt before
did, two actors at one lock with a third state of the file, one counter past its limit.
Every action and disjunct of the next-state relations fires in a passing run, and every
property has a mutant of the code, a plausible bug in one definition, that breaks it
within the same bounds. For moveRTP two calls contain a move at full speed, a sample over
`maxSpeed`, the lock window, a strafe past it, a next move that starts from what the last
left, and a stop at each statement; the theorems hold for any constants.

`CrawlPastDistance` rests on `SamplingAssumption`: front right turns at most
`2 * minSpeed` inches between samples, an assumption about the loop's rate nothing in
the code enforces. With `MaxTravel = 4` and no assumption, TLC finds the lock missed.

`CHECK_DEADLOCK FALSE`: an OpMode, a script and a command really end. Symmetry
(`MCSymmetry`) exchanges the two processes of `MCHostTools` each with its device; no
liveness is checked there.

Fairness.
- `StopSpec` (move_live): Java schedules the thread and time passes. A stop needs no
  more, as the loop asks `opModeIsActive` on every pass. That motors turn when
  powered (`MotorsTurn`) is a hypothesis of `MoveEnds` only: the loop has no timeout.
- `MatchSpec`: the platform calls `loop` again and again, and the powered arm turns.
- `AdbCommand`: the caller and the threads are scheduled, and time passes. Nothing is
  assumed of the adb process: it may hang, ignore the kill, or never write.
- No strong fairness. Other runs check safety only.

### Statements of comments the code does not meet

One is a run (`move_ramp`: `HardwareDesignosaurs.java` 212 against 213). The others
were met while modelling; each stays as a definition with the words it quotes, and was
found violated when checked on its own:

| module | definition | what is said, and where |
|---|---|---|
| `FoundationMove` | `ShowsTimeLeft` | "time left:" (`BlueFoundationMove.java` 41): moves reset the timer |
| `SkystoneAuto` | `NoCommandAfterStop` | an inactive OpMode terminates at its earliest convenience: servos still move |
| `SkystoneRun` | `PosFollowsSkystone` | `RedSkystoneAuto.java` 94: an average on a threshold leaves `pos` 0 |
| `AdbCommand` | `TimeoutIsRaised` | `cmd_helper.py` 382: a silent process on Windows |
| `DeviceShell` | `NoneWasKilled` | `device_utils.py` 1300 |
| `DeviceApp` | `ChangeIsReported`, `StopClosesTheApp` | `device_utils.py` 2274, 1472: `ForceStop` looks for the package's own name only |
| `DeviceSettings` | `ChargingIsResumed`, `PowersaveIsLeft`, `DateIsSet` | `battery_utils.py` 571, `cpu_temperature.py` 147, `provision_devices.py` 487 |
| `SharedPrefs` | `ChangedMeansCommit`, `CommitSaves` | `shared_prefs.py` 251 (scripts of `PrefsScript` only), 282: the running app writes between `WriteFile` and `KillAll` |
| `WebView` | `UserVersionComesBack` | `webview_app.py` 129-149 |
| `Fastboot` | `LeftoversAreTold` | `unlock_bootloader.py` 115 |
| `Recorders` | `NoStopHangs` | `surface_stats_collector.py` 89: the first Stop takes the exception, a second waits for good |
| `Parallel` | `EntryIsAllOrNone`, `PGetEnds` | `parallelizer.py` 206, 119 |
| `Forwarder` | `MapFailureIsReported`, `ZeroMeansNoneLeft` | `forwarder.py` 155, `ports.py` 50 |
| `Systrace` | `NoFileWithoutData` | `atrace_agent.py` 293 |
| `LogcatMonitor` | `NoLineLost`, `FailureIsRaised` | `cmd_helper.py` 450, `logcat_monitor.py` 83 |
| `TraceLog` | `MultiprocessSafe` | `trace_event.py`: entries are torn when a program forks |
| `CloudStorage` | `SameMeansMatching` | `cloud_storage.py` 409: the times are compared, not the hashes |
| `ConfigUpdate` | `NeitherIfEitherFails`, `WritesAllChanges`, `FieldsAreComplete` | `base_config.py` 226: an interrupt at or after the write of the file (300) rolls the uploads back, not the file; 272; 63 |
| `DependencyLookup` | `RaisedWithoutCopy`, `RetriesAreMade` | `manager.py` 150, 160 |
| `Fleet` | `LiveDevicesShown` | `device_status.py` 272 |

Where a property of a run has an exception, the exception is part of its statement, and
where it lets a hazard through, that is said in its comment:

- `RunsOnceAndWhole`: a command is not done again if it ended within its own timeout,
  also between the poll and the test of the deadline; one that ended after it, or whose
  pipe a child holds open, may be (`late`, `held`). A Windows host has no such timeout.
- `CommitSticks`: a running app may write between `WriteFile` and `KillAll`; the Commit
  returns and what it wrote is lost. No process keeps the old contents, though.
- `ReplacementIsUndone`: each part of what a replacement gives back (the app, the
  replacement, the partition, root, the framework) has its own exception, the steps that
  make it. A removal in provisioning that raises leaves the framework stopped.
- `EveryContextIsLeft`: after an entry whose own wait was interrupted, or that raised on
  one device, what the others entered is left by nobody.
- `SessionIsComplete`: the options `ftrace` is given and the size of its buffer stay.
- `FetchIsTrue`: with `GetIfChanged`, a call killed after it wrote the fetch time, or a
  checkout between its read and that, makes every later answer "the same" until the next
  checkout. After the lock is given back, calls for another version, or for the same
  archive, may take away what a call returns (`crowded`). A directory that `ditto` or a
  killed process left with a part of the archive is taken for the whole (`cut`).
- `AllOrNothing`: an interrupt at the config file, an insert that was reported to have
  failed but took effect, and a rollback that raised.
- `UnlistedIsDone`: a device whose thread raised what no `except` names is neither done
  nor listed; `FailuresAreListed` is about reported failures after the blacklist was
  erased.
- ports with numbers that wrapped, hubs in a chain, a loader that raised before.

## 4. Proofs

`MoveRTP_proofs`, for all commands, speeds, sampling and numbers of calls, lost or
delivered writes, under `MoveAssumption` (types of the constants, a strafe is not
shortened) and `SamplingAssumption`:

| theorem | property |
|---|---|
| `TypeCorrect`, `NoStaleTarget`, `NeverFastAgain`, `NeverTurns`, `Arrival` | `[]` of `TypeOK`, `NoStaleTargetDrive`, `CrawlPastDistance`, `WheelsAgree`, `ArrivedOrStopped` |
| `OverspeedIsCorrected` | `OverspeedCorrected`, an action property |
| `ContractKept` | `KeepsContract`: every step maps to a step of `MoveContract` or a stutter |

None of these is inductive. `IInv` adds, for as long as the thread's calls arrive
(`Arrives`), what each statement has established for the motors: `OffUntilEngaged`,
`EncodersReset`, `TargetsGiven` and `PowersGiven` (up to the motor `k` that is next),
`Outward` (front right is between 0 and its target), `LockedInWindow` (past the near
edge of the lock window the lock is set, which needs the sampling bound). When calls no
longer arrive nothing is claimed but the types, and `Arrives` never becomes true again.
`Capped` gives the action property, `EndedStopped` the refinement of `SafeOff`.

`SharedFiles_proofs` is about what several processes or threads write: the blacklist, the
pseudo lock, a published config. For every set of devices, every number of steps above the two that
reboot, of scripts and of troubles:

| theorem | property |
|---|---|
| `FleetTypeCorrect` | types |
| `FailuresReachTheFile` | `[]FailuresAreListed`: no report is lost to another thread's write; an error that a thread does not catch is no report, and the recovery erases what was reported before its threads |
| `UnlistedDevicesAreDone` | `[]UnlistedIsDone`: a device off the list went through all steps, unless its thread raised an error nobody catches (`raised`) or sysrq restarted it; with the properties of step 2 in its file it has booted since, but on emulators |

The invariant: `WriterHolds` and `WriterKnows` (who is about to write has the lock and has
read what the file still says), `Reported` (a report is in the file, or in what its
writer is about to write), `Quiet` (between scripts no thread holds anything); for the
second theorem `InScript`, `FallsByItself`, `FreshWhenUp`, `Configured`, `Rebooted` and
`ProvisionedCompletely`, which follow a device through its steps: what a wipe undoes, the
steps after it have done again. The inductive invariants were model-checked before they
were proved.

And for any number of processes, jobs, platforms and runs, under
`FreeAssumption` (no process is called as the mark of a free lock) and
`HashAssumption` (no hash is one of the marks that stand for other contents):

| theorem | property |
|---|---|
| `OneHolder` | `[]OneHolderAtATime` of the pseudo lock |
| `AllAreDoneOrNone` | `[]AllOrNothing` of `ExecuteUpdateJobs`: the file is as it was unless its own writing was hit (`hit`), an object unless its insert was reported to have failed or the rollback did not reach it (`behind`), and then what it replaced is in its backup |

A process holds the lock by an inode, and any number of them may be open on files that
were removed, so the invariant `LockInv` speaks of inodes: `GlobalIsHeld` (who is
between the global lock's `flock` and its release is the one), `HoldersPlace`,
`HoldersFile` (a holder's descriptor is the file at the path) and `NobodysFile` (what is
removed is nobody's). The programs that use the lock enter by a frame: they move within
`Inside`. `UpdateInv` follows the jobs: `Queued`, `Uploaded` and `Named` (what the file
will name is in the store), and for the rollback, unless two uploads share a backup
path (`tangled`), `OwnPlaces`, `KnowsBefore`, `RestIsAsBefore` and `IntoNothing`: what each live
upload replaced is where its undoing will look for it.

`Match_proofs`, for every length of a second and of a pause, and any buttons:
`OnTime` (`[]AutonomousOnTime`) from `AutoInv`, whose `PauseIsCounted` says that between
its mark and its end a pause is counted on a timer nobody resets, and whose
`WholeSeconds` and `SecondsLost` are the arithmetic of the rounding; `AsAsked`
(`[]DrivesAsAsked`) from `TeleInv`, with `ReadNear` and `FastNearEnds` for an arm that
turns between its two reads.

`AdbCommand_proofs`, for any timeout, poll, number of retries and length of output:
`AdbTypeCorrect`, `OutputIsWhole` (either host) and `RunsOnce`
(`[]RunsOnceAndWhole`: a command that ended within its own timeout is not run again,
whatever the thread was doing then). The last has the hypothesis `PollFits`: a poll fits between the
command's own timeout, 95 % of the caller's, and the watchdog's. With the poll of 1 s
that is every timeout of 20 s or more, the default of 30 s among them; it is not so of
the calls with 2 or 5 s (`ports.py`, `device_recovery.py`, `adb_wrapper.py` 92), of which
nothing is claimed. `OutputInv` says for each attempt what of the process's output is
read, in the pipe or still unwritten; `OnceInv` adds the deadlines.

`SkystoneRun_proofs`, for any averages, numbers of objects and lost or delivered writes:
`Implements` (every step of the loop maps to a step of `SkystoneAuto` or a stutter, from
`LookInv`: the lowest average is that of the objects seen so far), `Delivered` and
`Clean` (`[]StonesDelivered`, `[]RunsClean`), whose `AutoInv` has a table of the place
and heading the robot is at before each statement of each program (`Placed`), checked
against the programs' distances by the prover's arithmetic.

`DeviceTools_proofs`, for any keys, devices, images, versions, processes and numbers of
calls. The tools are composed by `script`: `ScriptStays` (no step changes it) and
`OwnSteps` (no two tools have a script in common) give each tool's invariant a frame.

| theorem | property | invariant |
|---|---|---|
| `AllAreBack` | `[]AllTogether`, with the waits of a call, an entry and an exit interrupted anywhere | `ParInv`: a group's values are those of its own threads, late threads write nothing the caller still reads; a device inside its context is in the block, or has the thread that leaves it |
| `CommitsStick` | `[]CommitSticks` | `PrefsInv`: from the write to the kill the file is the committed one, or the running app has written over it (`undercut`, the loss the property names), and every process with the old contents is still to be killed (`ToolsAssumption`: no key is called as the mark of no file) |
| `FlashingIsSafe` | `[]FlashIsSafe` | `FlashInv`: flashed and still to flash are what was asked for; `UnlockInv`: prompts and the lock they were made for |
| `ProviderComesBack` | `[]ProviderIsGivenBack` | `WebInv`: for each context that is entered, what it will give back |
| `AppStaysAsAsked` | `[]AppIsAsAsked` | `AppInv`: processes are numbered as they start, those `ForceStop` can see are the `named` ones, the file goes before the property |
| `SettingsComeBack` | `[]SettingsAreKept` | `SettingsInv`: at each step of a block what of the device is changed, and what a wait has gained since it began |
| `AppsComeBack` | `[]ReplacementIsUndone` | `SysInv`: the shapes the stack of contexts can have, what its frames remember, and where the app's files are at each of them, the mode taken to move nothing back among them; `wrong` has the steps that failed, each of which excuses its own work only |

The inductive invariants were model-checked before they were proved.

`SettingsInv` has a part per tool, since nothing in the property itself says why a block
that failed half way still gives back: charging is off only where Android shows it
(`Charging`), else `SetCharging` would take the device for charged and leave it; a core
with another governor or frequency is online and mpdecision stopped (`Outside`), else
`SetDefaultPerfMode`, which reaches the cores that are online, would miss it; the bottom
of the flags' stack is the file there was, and SELinux that was turned off is to be reset
unless the command that did so lost its reply (`FlagStack`). The wait for a charge ends
by a count: its polls are at most `peak * MaxChargeError + fails` (`Polls`), as a rise of
the level resets the failures and raises the peak, so they stay below
`Target * MaxChargeError` however the level moves. `ToolsAssumption` has a wait for a level
above zero: `if min_battery_level` skips the step for zero (`provision_devices.py` 127).

`DeviceUtils_proofs`, for any sessions, calls, attempts, properties, versions and files:

| theorem | property |
|---|---|
| `CachesTrue` | `[]CachesAreRight`: properties, su and packages in the cache are those of the device |
| `CallsDone` | `[]CallsDoAsAsked`: an install brings what it was asked for, a push makes device and host agree |

`IInv` has six parts. `Control` says which statements a method has; `Tokens`, that a
session's token is the device's and in no dump but its own, which is why a dump that
another host or session came after is never loaded. `Props` and `Packages` are the
caches: a package entry is right *or the app is gone* (`SoundPaths`, `SoundSums`), since
an uninstall by hand leaves no token; only a verified entry is simply right, and an
install skips only what is there (`Skips`). `Files` follows a push through its attempts:
what is no longer to be sent is on the device, what was to be deleted is gone, and the
entry it commits at its end is true of the files nobody else touched (`Pushes`). `Dumps`
says the same of what a later session may load.

The proof changed the model. `WriteFile` and `RemovePath` leave no new token
(`device_utils.py`), so a session of nothing else changes a file behind the dump of an
earlier session, and the next one loads sums that are old. With three sessions TLC showed
`CallsDoAsAsked` violated where the exception for touched files forgot those of a
session in between; `AgeDump` now remembers them, in the ghost variable only.

`TraceLog_proofs`, for any programs, children, threads, events and calls:
`LogStaysKept` (`[]LogIsKept`). `LogInv` has a part per process, which the steps of
others leave alone (`OthersStay`): `Calling` (one call at a time holds the lock in
memory), `Flags` (when a log that is enabled is open), `Buffer` (what is in the buffer
was recorded, in order, and after the first event of a child is its own; before it, a
child may write its parent's), `Kept` (an event is in the file, in the buffer or among
the pieces still to be written) and `Once` (what is to be written was not written before
by the same process). The part of the file holds without forks
only: `Numbered` (two programs never have one open description, by the number of the
call that opened it) makes the lock of the file exclusive, and `Pairs` says that the file
is whole entries but for the one piece its holder writes next. With forks a child shares
the description and `Pairs` fails, as `MultiprocessSafe` above. The assumption that no
child is a program is the meaning of the two constants.

Out of the prover's reach and left to TLC:
- liveness (`MoveEnds`, `StopEndsDriving`, `CallEnds`, `ArmSettles`) and `ENABLED`;
- what a definition recursive over data computes for every input (ordering modules,
  merging configs, folding a list of commands); `HostTools` reaches such a definition
  through `Vulcanize`, so its five invariants stay with TLC;
- `FetchIsTrue` (by its part `LookupIsTrue`), `ShellIsClean`, `RecordsAreTrue`: they rest on
  `SelectSeq`, of which the provers know no facts.

## 5. Not modelled

- Camera tests, the Robot Controller activity, samples, `MoveTest`: trials and the
  unmodified SDK; no match program uses them.
- Lift, intake and gripper of `StandardTeleOp`: one output from one input each.
- Reads of one value that keep nothing (locale, ABI, dumpsys, IMEI), the fuel gauge.
- `trace_time` clocks, `app_ui`, `device_monitor`, `apk_helper`, the HTML parser and
  minifier, refactoring and markdown tools: libraries of text, formats or platform calls.
- The reading loop of a persistent shell may wait forever when no marker line comes; that
  is visible in `DeviceShell` (the answer stays open) but no liveness is claimed of it.
- Vendored libraries, javadoc, build files.

## 6. Plan

1. *(done)* The robot: `MoveContract`, `MoveRTP` and proofs; Skystone, foundation and
   driver's programs; the match.
2. *(done)* The host tools: one command; `DeviceUtils` and its caches; the tools on a
   device; the tools on the host; files shared between processes; the fleet and proofs.
3. *(done)* Proofs: the lock and the publication of configs, the match, one command,
   the Skystone programs, seven of the tools on a device, the trace file.
4. *(done)* Proofs: the caches of `DeviceUtils`, packages, pushes and dumps; the settings
   a test gives back.
5. Left: an order-preserving definition of the filters `SelectSeq` stands for, with the
   lemmas on it that `FetchIsTrue`, `ShellIsClean` and `RecordsAreTrue` would rest on.
