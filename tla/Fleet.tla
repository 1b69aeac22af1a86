-------------------------------- MODULE Fleet --------------------------------
(* The devices of a test lab and the three scripts that look after them, one   *)
(* after the other on the same blacklist file: device_status, device_recovery  *)
(* and provision_devices, each of which works on all devices at once, with a   *)
(* thread per device.                                                          *)
EXTENDS Integers

CONSTANTS
  Dev,          \* the devices
  Steps,        \* the steps of provisioning: 1 wipes, 2 sets the properties; there are more
  MaxScripts,   \* bound: scripts run
  MaxTrouble    \* bound: devices that go wrong by themselves

ASSUME FleetAssumption == /\ "nobody" \notin Dev
                          /\ Steps \in Nat /\ Steps >= 3
                          /\ MaxScripts \in Nat /\ MaxTrouble \in Nat

VARIABLES
  state,      \* each device: "up", "booting", "offline", "unauthorized", "gone"
  falling,    \* devices told to reboot by sysrq that have not gone down yet
  fresh,      \* devices that have booted since the last reboot was asked of them
  list,       \* the devices in the blacklist file
  lock,       \* the thread that holds _blacklist_lock, Nobody
  copy,       \* what each thread has read of the file in Extend
  script,     \* the script that runs, "none"
  pc, next,   \* each thread: its next step; the one after an Extend
  seen,       \* adb_status of each device, as the script has listed it
  reboot,     \* should_reboot_device
  shown,      \* the keys of each device's status
  stage,      \* the step of provisioning each thread is at
  bad,        \* devices for which this script has reported a failure
  odd,        \* devices that recovered by other ways: a new key, sysrq
  raised,     \* devices whose thread ended with what no except clause of it names
  emulators,  \* whether provisioning is for emulators, which step 2 does not reboot
  written,    \* devices with the properties of step 2 in their file
  configured, \* devices that have booted with that file since step 2
  buildbot,   \* devices with a line in the buildbot file
  scripts, trouble

fleetVars == <<state, falling, fresh, list, lock, copy, script, pc, next, seen, reboot, shown,
               stage, bad, odd, raised, emulators, written, configured, buildbot, scripts,
               trouble>>
devices   == <<state, falling, fresh, written, configured>>
blacklist == <<list, lock, copy, next>>
options   == <<raised, emulators>>
known     == <<seen, reboot, shown, stage, bad, odd, options, buildbot>>

Nobody  == "nobody"
Adb(d)  == CASE state[d] \in {"up", "booting"} -> "device"
             [] state[d] = "gone" -> "missing"
             [] OTHER -> state[d]

TypeOK == /\ state \in [Dev -> {"up", "booting", "offline", "unauthorized", "gone"}]
          /\ list \subseteq Dev /\ lock \in Dev \cup {Nobody}
          /\ stage \in [Dev -> 1..Steps + 1] /\ scripts \in 0..MaxScripts

FleetInit ==
  /\ state \in [Dev -> {"up", "offline", "unauthorized", "gone"}]
  /\ falling = {} /\ fresh = {} /\ written = {} /\ configured = {}
  /\ list \in SUBSET Dev /\ lock = Nobody /\ copy = [d \in Dev |-> {}]
  /\ script = "none" /\ pc = [d \in Dev |-> "done"] /\ next = [d \in Dev |-> "done"]
  /\ seen = [d \in Dev |-> "device"] /\ reboot = {} /\ shown = [d \in Dev |-> {}]
  /\ stage = [d \in Dev |-> 1] /\ bad = {} /\ odd = {} /\ raised = {} /\ emulators = FALSE /\ buildbot = {}
  /\ scripts = 0 /\ trouble = 0

To(d, l)  == pc' = [pc EXCEPT ![d] = l]
At(d, l)  == pc[d] = l
AllDone   == \A d \in Dev : At(d, "done")
------------------------------------------------------------------------------
(* Blacklist                                                                   *)

\* As if each read and write took the lock for itself (a mutant).
ReadUnheld(d) == lock' = lock

\* Extend holds the lock from its read to its write.
ReadHeld(d) == lock' = d

\* A failure is reported: the thread goes on at l when the file has been written.
Report(d, l) == /\ bad' = bad \cup {d}
                /\ next' = [next EXCEPT ![d] = l] /\ To(d, "read")

ExtendRead(d) ==
  /\ At(d, "read") /\ lock = Nobody
  /\ ReadHeld(d)
  /\ copy' = [copy EXCEPT ![d] = list] /\ To(d, "write")
  /\ UNCHANGED <<devices, list, next, script, known, scripts, trouble>>
ExtendWrite(d) ==
  /\ At(d, "write")
  /\ list' = copy[d] \cup {d}
  /\ copy' = [copy EXCEPT ![d] = {}] /\ lock' = Nobody /\ To(d, next[d])
  /\ UNCHANGED <<devices, next, script, known, scripts, trouble>>

IsBlacklisted(d) == d \in list
MayRead == lock = Nobody
------------------------------------------------------------------------------
(* Starting a script                                                           *)

\* By then a device told to reboot by the script before has gone down.
Begin(s, threads, l) ==
  /\ script = "none" /\ scripts < MaxScripts /\ falling = {}
  /\ script' = s /\ scripts' = scripts + 1
  /\ pc' = [d \in Dev |-> IF d \in threads THEN l ELSE "done"]
  /\ bad' = {} /\ odd' = {} /\ raised' = {} /\ reboot' = {} /\ stage' = [d \in Dev |-> 1]
  /\ shown' = [d \in Dev |-> {}]
  /\ UNCHANGED <<devices, blacklist, buildbot, trouble>>

List == seen' = [d \in Dev |-> Adb(d)]

StartStatus   == Begin("status", Dev, "check") /\ List /\ emulators' = FALSE
StartRecovery == Begin("recovery", Dev, "check") /\ List /\ emulators' = FALSE

\* HealthyDevices: those adb lists as devices and the blacklist does not name.
Healthy == {d \in Dev : Adb(d) = "device" /\ ~IsBlacklisted(d)}
StartProvision == /\ Healthy # {} /\ Begin("provision", Healthy, "step") /\ List
                  /\ emulators' \in BOOLEAN

End == /\ script \in {"recover", "provision"} /\ AllDone
       /\ script' = "none"
       /\ UNCHANGED <<devices, blacklist, pc, known, scripts, trouble>>
------------------------------------------------------------------------------
(* DeviceStatus, alone or as the first part of the recovery                     *)

Checking(d) == script \in {"status", "recovery"} /\ At(d, "check") /\ MayRead

Skip(d) ==
  /\ Checking(d) /\ IsBlacklisted(d)
  /\ To(d, "done")
  /\ UNCHANGED <<devices, blacklist, script, known, scripts, trouble>>

\* A device adb does not list as one is blacklisted for what adb says of it.
Unlisted(d) ==
  /\ Checking(d) /\ ~IsBlacklisted(d) /\ seen[d] # "device"
  /\ Report(d, "done")
  /\ UNCHANGED <<devices, list, lock, copy, script, seen, reboot, shown, stage, odd, options, buildbot,
                 scripts, trouble>>

\* Properties, battery and IMEI are asked for; a low battery is reported too.
Query(d) ==
  /\ Checking(d) /\ ~IsBlacklisted(d) /\ seen[d] = "device"
  /\ \/ /\ state[d] \in {"up", "booting"}
        /\ shown' = [shown EXCEPT ![d] = {"ro.build.product", "ro.build.id", "battery"}]
        /\ (To(d, "done") /\ UNCHANGED <<bad, next>>) \/ Report(d, "done")
     \/ UNCHANGED shown /\ Report(d, "done")
  /\ UNCHANGED <<devices, list, lock, copy, script, seen, reboot, stage, odd, options, buildbot, scripts,
                 trouble>>

\* What _WriteBuildbotFile formats for a device that is connected.
Format == {"type", "build", "battery"}

StatusEnds ==
  /\ script = "status" /\ AllDone
  /\ buildbot' = {d \in Dev : seen[d] = "device" => Format \subseteq shown[d]}
  /\ script' = "none"
  /\ UNCHANGED <<devices, blacklist, pc, seen, reboot, shown, stage, bad, odd, options, scripts, trouble>>
------------------------------------------------------------------------------
(* RecoverDevices                                                              *)

\* Everything to recover is decided from the statuses; then the blacklist is
\* erased, and adb started anew, which may bring back devices that were off line, or
\* raise, before there is a thread.
Recover ==
  /\ script = "recovery" /\ AllDone
  /\ reboot' = {d \in Dev : seen[d] \in {"offline", "missing"} \/ d \in list}
  /\ list' = {} /\ bad' = {} /\ shown' = [d \in Dev |-> {}]
  /\ \/ /\ script' = "recover" /\ pc' = [d \in Dev |-> "recover"]
        /\ \E back \in SUBSET {d \in Dev : state[d] = "offline"} :
             state' = [d \in Dev |-> IF d \in back THEN "up" ELSE state[d]]
        /\ UNCHANGED raised
     \/ script' = "none" /\ raised' = Dev /\ UNCHANGED <<pc, state>>
  /\ UNCHANGED <<falling, fresh, written, configured, lock, copy, next, seen, stage, odd, emulators,
                 buildbot, scripts, trouble>>

\* The thread of a device ends with an error that it does not catch: nothing is reported.
Raise(d) == To(d, "done") /\ raised' = raised \cup {d}

\* GetState, the first thing, is outside of every try.
RecoverDevice(d) ==
  /\ At(d, "recover") /\ MayRead
  /\ \/ /\ d \in reboot /\ Report(d, "done")         \* the reset of its USB failed
        /\ UNCHANGED <<odd, raised>>
     \/ /\ state[d] = "unauthorized" /\ odd' = odd \cup {d} /\ To(d, "auth")
        /\ UNCHANGED <<bad, next, raised>>
     \/ /\ To(d, IF d \in reboot THEN "wait" ELSE "done")
        /\ UNCHANGED <<bad, next, odd, raised>>
     \/ Raise(d) /\ UNCHANGED <<bad, next, odd>>
  /\ UNCHANGED <<devices, list, lock, copy, script, seen, reboot, shown, stage, emulators, buildbot,
                 scripts, trouble>>

\* TryAuth starts adb again with every key there is, which may raise, as may the
\* GetState after it.
TryAuth(d) ==
  /\ At(d, "auth")
  /\ \/ state' = [state EXCEPT ![d] = "up"] /\ To(d, "done") /\ UNCHANGED <<odd, raised>>
     \/ /\ UNCHANGED <<state, raised>> /\ odd' = odd \ {d}
        /\ To(d, IF d \in reboot THEN "wait" ELSE "done")
     \/ UNCHANGED state /\ odd' = odd \ {d} /\ Raise(d)
  /\ UNCHANGED <<falling, fresh, written, configured, blacklist, script, seen, reboot, shown, stage,
                 bad, emulators, buildbot, scripts, trouble>>

\* Booted or not, it is rebooted next.
WaitFirst(d) ==
  /\ At(d, "wait") /\ To(d, "reboot")
  /\ UNCHANGED <<devices, blacklist, script, known, scripts, trouble>>

\* The device goes down: what it had since its last boot is over.
Down(d) == /\ state' = [state EXCEPT ![d] = "booting"]
           /\ fresh' = fresh \ {d}

\* Reboot(block=False) returns when the device has gone off line.
WentDown(d) == Down(d) /\ UNCHANGED falling

\* In 5 s, or else sysrq is used.
RebootOnce(d) ==
  /\ At(d, "reboot")
  /\ \/ /\ state[d] \in {"up", "booting"} /\ WentDown(d)
        /\ To(d, "boot") /\ UNCHANGED <<bad, next>>
     \/ UNCHANGED <<state, falling, fresh>> /\ Report(d, "boot")
     \/ UNCHANGED <<state, falling, fresh, bad, next>> /\ To(d, "sysrq")
  /\ UNCHANGED <<written, configured, list, lock, copy, script, seen, reboot, shown, stage, odd, options, buildbot,
                 scripts, trouble>>

\* adb root, which may raise, and "echo b > /proc/sysrq-trigger" all the same.
Sysrq(d) ==
  /\ At(d, "sysrq")
  /\ \/ state[d] \in {"up", "booting"} /\ falling' = falling \cup {d}
     \/ UNCHANGED falling
  /\ odd' = odd \cup {d}
  /\ (To(d, "boot") /\ UNCHANGED <<bad, next>>) \/ Report(d, "boot")
  /\ UNCHANGED <<state, fresh, written, configured, list, lock, copy, script, seen, reboot, shown,
                 stage, options, buildbot, scripts, trouble>>

WaitUntilFullyBooted(d) ==
  /\ At(d, "boot")
  /\ (state[d] = "up" /\ To(d, "done") /\ UNCHANGED <<bad, next>>) \/ Report(d, "done")
  /\ UNCHANGED <<devices, list, lock, copy, script, seen, reboot, shown, stage, odd, options, buildbot,
                 scripts, trouble>>
------------------------------------------------------------------------------
(* ProvisionDevice                                                             *)

StepBoots(d) ==
  /\ At(d, "step")
  /\ \/ /\ stage[d] > Steps /\ To(d, "done") /\ UNCHANGED <<bad, next>>
     \/ /\ stage[d] <= Steps
        /\ \/ state[d] = "up" /\ To(d, "cmd") /\ UNCHANGED <<bad, next>>
           \/ To(d, "again") /\ UNCHANGED <<bad, next>>
           \/ Report(d, "done")
  /\ UNCHANGED <<devices, list, lock, copy, script, seen, reboot, shown, stage, odd, options, buildbot,
                 scripts, trouble>>

\* Did not finish booting in time: one more reboot, which waits for the boot.
RebootAgain(d) ==
  /\ At(d, "again")
  /\ \/ /\ state[d] \in {"up", "booting"} /\ WentDown(d)
        /\ To(d, "booted") /\ UNCHANGED <<bad, next>>
     \/ UNCHANGED <<state, falling, fresh>> /\ Report(d, "done")
  /\ UNCHANGED <<written, configured, list, lock, copy, script, seen, reboot, shown, stage, odd, options, buildbot,
                 scripts, trouble>>
BootedAgain(d) ==
  /\ At(d, "booted")
  /\ (state[d] = "up" /\ To(d, "cmd") /\ UNCHANGED <<bad, next>>) \/ Report(d, "done")
  /\ UNCHANGED <<devices, list, lock, copy, script, seen, reboot, shown, stage, odd, options, buildbot,
                 scripts, trouble>>

\* As if only the wipe were followed by a reboot (a mutant).
RebootsAfterWipe(n) == n = 1

\* The wipe is followed by a reboot, and so is setting the properties but on emulators.
Reboots(n) == n = 1 \/ (n = 2 /\ ~emulators)

\* Step 1 may remove the file of properties, and step 2 writes it, but on a user build, and
\* its failure to is only logged.
Properties(d) == CASE stage[d] = 1 -> {written, written \ {d}}
                   [] stage[d] = 2 -> {written, written \cup {d}}
                   [] OTHER -> {written}

\* A step may swallow its failures; if it raises an error of the device the device is
\* blacklisted, and of any other error, as that of a date that cannot be parsed, nobody
\* is told.  A wipe takes the key of the host away, and puts it back if all goes well.
Cmd(d) ==
  /\ At(d, "cmd")
  /\ UNCHANGED state \/ (stage[d] = 1 /\ state' = [state EXCEPT ![d] = "unauthorized"])
  /\ written' \in Properties(d)
  /\ configured' = IF stage[d] = 2 THEN configured \ {d} ELSE configured
  /\ \/ /\ stage' = [stage EXCEPT ![d] = @ + 1]
        /\ To(d, IF Reboots(stage[d]) THEN "restart" ELSE "step")
        /\ UNCHANGED <<bad, next, raised>>
     \/ Report(d, "done") /\ UNCHANGED <<stage, raised>>
     \/ Raise(d) /\ UNCHANGED <<stage, bad, next>>
  /\ UNCHANGED <<falling, fresh, list, lock, copy, script, seen, reboot, shown, odd, emulators,
                 buildbot, scripts, trouble>>

Restart(d) ==
  /\ At(d, "restart")
  /\ \/ /\ state[d] \in {"up", "booting"} /\ WentDown(d)
        /\ To(d, "online") /\ UNCHANGED <<bad, next>>
     \/ UNCHANGED <<state, falling, fresh>> /\ Report(d, "done")
  /\ UNCHANGED <<written, configured, list, lock, copy, script, seen, reboot, shown, stage, odd, options, buildbot,
                 scripts, trouble>>
WaitForDevice(d) ==
  /\ At(d, "online")
  /\ (Adb(d) = "device" /\ To(d, "step") /\ UNCHANGED <<bad, next>>) \/ Report(d, "done")
  /\ UNCHANGED <<devices, list, lock, copy, script, seen, reboot, shown, stage, odd, options, buildbot,
                 scripts, trouble>>
------------------------------------------------------------------------------
(* The devices                                                                 *)

Boots(d) == /\ state[d] = "booting"
            /\ state' = [state EXCEPT ![d] = "up"] /\ fresh' = fresh \cup {d}
            /\ configured' = IF d \in written THEN configured \cup {d} ELSE configured
            /\ UNCHANGED <<falling, written, blacklist, script, pc, known, scripts, trouble>>
GoesDown(d) == /\ d \in falling
               /\ falling' = falling \ {d} /\ Down(d)
               /\ UNCHANGED <<written, configured, blacklist, script, pc, known, scripts, trouble>>
Trouble(d) == /\ trouble < MaxTrouble /\ trouble' = trouble + 1
              /\ state' = [state EXCEPT ![d] = "offline"]
              /\ UNCHANGED <<falling, fresh, written, configured, blacklist, script, pc, known,
                             scripts>>

Thread(d) == \/ ExtendRead(d) \/ ExtendWrite(d) \/ Skip(d) \/ Unlisted(d) \/ Query(d)
             \/ RecoverDevice(d) \/ TryAuth(d) \/ WaitFirst(d) \/ RebootOnce(d) \/ Sysrq(d)
             \/ WaitUntilFullyBooted(d) \/ StepBoots(d) \/ RebootAgain(d) \/ BootedAgain(d)
             \/ Cmd(d) \/ Restart(d) \/ WaitForDevice(d)

FleetNext == \/ StartStatus \/ StartRecovery \/ StartProvision \/ End \/ StatusEnds \/ Recover
             \/ \E d \in Dev : Thread(d) \/ Boots(d) \/ GoesDown(d) \/ Trouble(d)
FleetSpec == FleetInit /\ [][FleetNext]_fleetVars
------------------------------------------------------------------------------
(* Properties                                                                  *)

Ended == script = "none" /\ scripts > 0

\* Every device that one of the threads of the last script has reported is in the
\* blacklist, however the reports of the others fell between its read and write.  Of the
\* recovery, these are the reports after the blacklist was erased.
FailuresAreListed == Ended => bad \subseteq list

\* A device that the recovery had to reboot, and does not leave in the blacklist, has
\* booted since, and was not just caught before it went down; except for one restarted
\* by sysrq, which nobody waits for, and one whose thread raised, or that had none as
\* adb could not be started: it is left as it was, and no longer in the blacklist.
RecoveredHasBooted ==
  (Ended /\ reboot # {}) => reboot \subseteq list \cup odd \cup fresh \cup raised

\* No step of provisioning runs on a device that is about to reboot, or that has
\* not come up since a reboot the script asked for.
StepsOnBooted ==
  \A d \in Dev : At(d, "cmd") /\ stage[d] > 1 => d \in fresh

\* A device that provisioning does not leave in the blacklist has gone through every
\* step, unless its thread raised what is no error of a device; and if its file has the
\* properties of step 2, which that may have failed to write and only logged, it has
\* booted with them, unless it is an emulator.
ProvisionedCompletely ==
  \A d \in Dev :
    script = "provision" /\ At(d, "done") /\ stage[d] > 1 /\ d \notin list \cup raised =>
      stage[d] = Steps + 1 /\ (d \in written /\ ~emulators => d \in configured)

\* What the recovery and the provisioning leave outside of the blacklist is done, but for
\* the devices whose thread raised, of which nobody is told.
UnlistedIsDone == RecoveredHasBooted /\ StepsOnBooted /\ ProvisionedCompletely

\* "Write device info to file for buildbot info display." (device_status.py 272)
LiveDevicesShown == Ended => {d \in Dev : shown[d] # {}} \subseteq buildbot
==============================================================================
