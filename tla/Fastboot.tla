------------------------------- MODULE Fastboot -------------------------------
(* FlashDevice (fastboot_utils.py), as tools/flash_device.py calls it: into    *)
(* the bootloader, one partition after the other, out of it again.  adb        *)
(* reaches a device that is up, fastboot one that is in its bootloader.  Then  *)
(* tools/unlock_bootloader.py, for one of its devices.                         *)
EXTENDS DeviceCall, Sequences

VARIABLES
  mode,      \* "up", "entering" its bootloader, "bootloader", "booting"
  charge,    \* off-mode-charge is on, as it is by default
  images,    \* the partitions there is an image for
  info,      \* the board its android-info.txt requires: "same", "other", or "none" named
  zip,       \* an archive of the build has the board's name
  listed,    \* the blacklist is not empty
  flashed,   \* the partitions flashed by the last call
  wiped,     \* it was asked to wipe
  slipped,   \* a command to get into the bootloader or out of it has failed
  knows,     \* the unlocking commands the bootloader knows
  lock,      \* "locked", "unlocked", or "oem": locked for good
  prompts,   \* the commands that wait for an answer on the screen
  reported   \* what the log of unlock_bootloader says of the device

unlockVars == <<knows, lock, prompts, reported>>
flashVars  == <<mode, charge, images, info, zip, listed, flashed, wiped, slipped>>
fastVars   == <<flashVars, unlockVars>>
build    == <<images, info, zip, listed>>

\* _KNOWN_PARTITIONS, with one of each kind: flashed with a restart, simply, only when
\* wiping, only if there is an image.
Partitions == <<"bootloader", "boot", "userdata", "vendor">>
Known      == {Partitions[i] : i \in DOMAIN Partitions}
Restart    == {"bootloader"}
WipeOnly   == {"userdata"}
Optional   == {"vendor"}

FastInit == /\ mode = "up" /\ charge = TRUE
            /\ images \in {S \in SUBSET Known : "boot" \in S}
            /\ info \in {"same", "other", "none"} /\ zip \in BOOLEAN /\ listed \in BOOLEAN
            /\ flashed = <<>> /\ wiped = FALSE /\ slipped = FALSE
            /\ knows \in SUBSET {"oem unlock", "flashing unlock"}
            /\ lock \in {"locked", "unlocked", "oem"} /\ prompts = {} /\ reported = "nothing"

At(l) == pc = l
To(l) == GotoWith(l, [loc EXCEPT !.again = 0])

\* The command is tried again, from the step l, or its exception leaves the call.
Again(l) == IF loc.again < Retries
            THEN GotoWith(l, [loc EXCEPT !.again = @ + 1]) /\ UNCHANGED slipped
            ELSE End("raised") /\ slipped' = TRUE
------------------------------------------------------------------------------
(* Into the bootloader, outside of the try block                               *)

FlashDevice ==
  /\ At("FlashDevice") /\ flashed' = <<>> /\ wiped' = arg.wipe /\ slipped' = FALSE
  /\ IF listed THEN End("raised")
     ELSE GotoWith("EnableRoot", [again |-> 0, raised |-> FALSE, todo |-> <<>>])
  /\ UNCHANGED <<mode, charge, build>>

\* EnableFastbootMode, each time as a whole.
EnableRoot ==
  /\ At("EnableRoot")
  /\ \/ mode = "up" /\ GotoWith("ToBootloader", loc) /\ UNCHANGED slipped
     \/ Again("EnableRoot")
  /\ UNCHANGED <<mode, charge, build, flashed, wiped>>
ToBootloader ==
  /\ At("ToBootloader")
  /\ \/ mode = "up" /\ mode' = "entering" /\ GotoWith("WaitForFastbootMode", loc) /\ UNCHANGED slipped
     \/ mode' \in {mode, IF mode = "up" THEN "entering" ELSE mode} /\ Again("EnableRoot")
  /\ UNCHANGED <<charge, build, flashed, wiped>>
WaitForFastbootMode ==
  /\ At("WaitForFastbootMode")
  /\ \/ mode = "bootloader" /\ To("ChargeOff") /\ UNCHANGED slipped
     \/ Again("EnableRoot")
  /\ UNCHANGED <<mode, charge, build, flashed, wiped>>
ChargeOff ==
  /\ At("ChargeOff")
  /\ \/ mode = "bootloader" /\ charge' = FALSE /\ To("Verify") /\ UNCHANGED slipped
     \/ charge' \in {charge, FALSE} /\ End("raised") /\ slipped' = TRUE
  /\ UNCHANGED <<mode, build, flashed, wiped>>
------------------------------------------------------------------------------
(* In it                                                                       *)

\* As if only what goes well came to the finally clause (a mutant).
UnwindNot == End("raised")

\* An exception on its way out meets the finally clause.
Unwind == GotoWith("ChargeOn", [loc EXCEPT !.raised = TRUE, !.again = 0])

\* _VerifyBoard: the file decides if it names a board, else the archives do.
VerifyBoard == info = "same" \/ (info = "none" /\ zip)

\* _FindAndVerifyPartitionsAndImages, before anything is flashed.
ImagesThere == Known \ Optional \subseteq images

Asked(p) == IF p \in images /\ (p \in WipeOnly => wiped) THEN <<p>> ELSE <<>>
Wanted   == Asked(Partitions[1]) \o Asked(Partitions[2])
              \o Asked(Partitions[3]) \o Asked(Partitions[4])
Verify ==
  /\ At("Verify")
  /\ IF VerifyBoard /\ ImagesThere
     THEN GotoWith("Flash", [loc EXCEPT !.todo = Wanted]) ELSE Unwind
  /\ UNCHANGED flashVars

\* One partition; a flash that fails may have written some of it.
Flash ==
  /\ At("Flash")
  /\ \/ /\ loc.todo = <<>> /\ To("ChargeOn") /\ UNCHANGED flashed
     \/ /\ loc.todo # <<>> /\ mode = "bootloader"
        /\ flashed' = Append(flashed, Head(loc.todo))
        /\ GotoWith(IF Head(loc.todo) \in Restart THEN "RebootBootloader" ELSE "Flash",
                    [loc EXCEPT !.todo = Tail(@), !.again = 0])
     \/ /\ loc.todo # <<>> /\ Unwind
        /\ flashed' \in {flashed, Append(flashed, Head(loc.todo))}
  /\ UNCHANGED <<mode, charge, build, wiped, slipped>>

\* Reboot(bootloader=True), which is tried again as a whole.
OrUnwind == \/ loc.again < Retries /\ GotoWith("RebootBootloader", [loc EXCEPT !.again = @ + 1])
            \/ loc.again >= Retries /\ Unwind
RebootBootloader ==
  /\ At("RebootBootloader")
  /\ \/ mode = "bootloader" /\ mode' = "entering" /\ GotoWith("WaitAgain", loc)
     \/ mode' \in {mode, IF mode = "bootloader" THEN "entering" ELSE mode} /\ OrUnwind
  /\ UNCHANGED <<charge, build, flashed, wiped, slipped>>
WaitAgain ==
  /\ At("WaitAgain")
  /\ (mode = "bootloader" /\ To("Flash")) \/ OrUnwind
  /\ UNCHANGED flashVars
------------------------------------------------------------------------------
(* The finally clause: the second command is not reached if the first raises   *)

ChargeOn ==
  /\ At("ChargeOn")
  /\ \/ mode = "bootloader" /\ charge' = TRUE /\ To("Reboot") /\ UNCHANGED slipped
     \/ charge' \in {charge, TRUE} /\ End("raised") /\ slipped' = TRUE
  /\ UNCHANGED <<mode, build, flashed, wiped>>

Leave == End(IF loc.raised THEN "raised" ELSE "ok") /\ UNCHANGED slipped

Reboot ==
  /\ At("Reboot")
  /\ \/ /\ mode = "bootloader" /\ mode' = "booting"
        /\ IF wiped THEN Leave ELSE GotoWith("WaitUntilFullyBooted", loc) /\ UNCHANGED slipped
     \/ mode' \in {mode, IF mode = "bootloader" THEN "booting" ELSE mode} /\ Again("Reboot")
  /\ UNCHANGED <<charge, build, flashed, wiped>>
WaitUntilFullyBooted ==
  /\ At("WaitUntilFullyBooted")
  /\ (mode = "up" /\ Leave) \/ Again("Reboot")
  /\ UNCHANGED <<mode, charge, build, flashed, wiped>>
------------------------------------------------------------------------------
Arrives == /\ \/ mode = "entering" /\ mode' = "bootloader"
              \/ mode = "booting" /\ mode' = "up"
           /\ UNCHANGED <<callVars, charge, build, flashed, wiped, slipped>>

FlashNext ==
  \/ FlashDevice \/ EnableRoot \/ ToBootloader \/ WaitForFastbootMode \/ ChargeOff \/ Verify
  \/ Flash \/ RebootBootloader \/ WaitAgain \/ ChargeOn \/ Reboot \/ WaitUntilFullyBooted
  \/ Arrives
------------------------------------------------------------------------------
(* unlock_bootloader: both commands are tried, as the tool cannot tell which    *)
(* of them the device knows.                                                   *)

KeepUnlock == UNCHANGED <<charge, build, flashed, wiped, slipped, knows, lock>>

\* reboot_into_bootloader: a reboot that fails is logged; the wait has a timeout.
RebootInto == /\ At("UnlockBootloader")
              /\ mode' \in {mode, IF mode = "up" THEN "entering" ELSE mode}
              /\ reported' = "nothing" /\ Goto("Devices")
              /\ UNCHANGED prompts /\ KeepUnlock

\* Only what fastboot lists is unlocked.  Each command ends, or waits for an answer.
Devices == /\ At("Devices")
           /\ IF mode = "bootloader"
              THEN /\ Goto("PollOld")
                   /\ prompts' = IF lock = "locked" THEN knows ELSE {}
              ELSE End("ok") /\ UNCHANGED prompts
           /\ UNCHANGED <<mode, reported>> /\ KeepUnlock

\* One of the two: "unknown command" leads to the other, all else ends the loop.
Poll(command, Unknown) ==
  /\ CASE command \in prompts -> reported' = "waiting" /\ End("ok")
       [] command \notin knows -> UNCHANGED reported /\ Unknown
       [] command \in knows /\ lock = "unlocked" -> reported' = "already" /\ End("ok")
       [] OTHER -> reported' = "not allowed" /\ End("raised")
  /\ UNCHANGED <<mode, prompts>> /\ KeepUnlock
PollOld == At("PollOld") /\ Poll("oem unlock", Goto("PollNew"))
PollNew == At("PollNew") /\ Poll("flashing unlock", End("ok"))

\* Someone answers the prompt; one answer is for all that ask.
Confirm == /\ prompts # {} /\ mode = "bootloader" /\ Idle
           /\ prompts' = {} /\ lock' = "unlocked"
           /\ UNCHANGED <<callVars, flashVars, knows, reported>>

UnlockStep == RebootInto \/ Devices \/ PollOld \/ PollNew \/ Confirm

FastNext ==
  \/ \E w \in BOOLEAN : Call("FlashDevice", [wipe |-> w]) /\ mode = "up" /\ UNCHANGED fastVars
  \/ Call("UnlockBootloader", <<>>) /\ UNCHANGED fastVars
  \/ FlashNext /\ UNCHANGED unlockVars
  \/ UnlockStep
------------------------------------------------------------------------------
(* Properties                                                                  *)

\* Whatever is not there or fails to be flashed, the device is out of its bootloader
\* after the call and charges when it is off, unless one of the commands that see to
\* it failed themselves; a call that returns has flashed all that was asked for.
LeavesBootloader ==
  (Idle /\ last.op = "FlashDevice") =>
    /\ slipped \/ (charge /\ mode \in {"booting", "up"})
    /\ ~Failed => flashed = Wanted

\* Whichever of the commands a device in its bootloader knows, what is told of it is
\* so: that it waits for someone, is unlocked already, or must not be.
UnlockIsTold ==
  Idle /\ last.op = "UnlockBootloader" =>
    CASE reported = "waiting"     -> prompts # {} \/ lock = "unlocked"
      [] reported = "already"     -> lock = "unlocked"
      [] reported = "not allowed" -> lock = "oem" /\ Failed
      [] OTHER                    -> ~Failed /\ prompts = {}

\* "Processes %s left over after unlocking." (unlock_bootloader.py 115): every process
\* that waits is looked at.
LeftoversAreTold ==
  Idle /\ Ended("UnlockBootloader") =>
    prompts \subseteq {IF "oem unlock" \in knows THEN "oem unlock" ELSE "flashing unlock"}

\* "Cannot stop mid flash so its important to validate everything first": nothing is
\* flashed of a build that is not for the board or lacks an image, and of another
\* one a first part, with userdata only in a wipe.
FlashesVerified ==
  flashed # <<>> => /\ VerifyBoard /\ ImagesThere /\ ~listed
                    /\ Len(flashed) <= Len(Wanted)
                    /\ flashed = SubSeq(Wanted, 1, Len(flashed))
==============================================================================
