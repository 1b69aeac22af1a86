------------------------------ MODULE SystemApp ------------------------------
(* Replacing a system app for the length of a block (tools/system_app.py):     *)
(* a directory on the device for the app's files, the move of the app into it  *)
(* and back, the installation of the replacement, and around each move the     *)
(* mode in which the system partition may be written, which takes reboots; and *)
(* the removal of system apps, with that mode or, in provisioning, without.    *)
EXTENDS DeviceCall, Sequences

VARIABLES
  app,        \* its files: "system", "stored", "gone", "none" for no such app
  store,      \* the directory: "none", "there", "removed"
  replaced,   \* the replacement is installed
  root,       \* adbd runs as root
  prop,       \* devil.modify_sys_apps is "1"
  rw,         \* the system partition is mounted for writing
  stopped,    \* the framework has been stopped and not started again
  frames,     \* the contexts entered and not yet left, the innermost last
  raised,     \* an exception is on its way out
  wrong,      \* the steps of the call whose command failed; "unwind" is the removal of
              \* the replacement
  first       \* how the call found the app, root, the partition, the replacement and the
              \* framework; whether the device has a verity to disable

sysVars == <<app, store, replaced, root, prop, rw, stopped, frames, raised, wrong, first>>
device  == <<app, store, replaced, root, prop, rw, stopped>>

\* Contexts: a user's own EnableSystemAppModification, "storage", "relocate",
\* "install", and "modify", the one of a move; [kind, undo]: whether it changed
\* anything at its entry, and the state of root it has to give back.
Frame(k, u, r) == [kind |-> k, undo |-> u, root |-> r]
Inner == frames[Len(frames)]
In(k) == frames # <<>> /\ Inner.kind = k
Push(f) == frames' = Append(frames, f)
Pop     == frames' = SubSeq(frames, 1, Len(frames) - 1)

SysInit == /\ app \in {"system", "none"} /\ store = "none" /\ replaced = FALSE
           /\ root \in BOOLEAN /\ prop = FALSE /\ rw = FALSE
           /\ stopped = FALSE /\ frames = <<>> /\ raised = FALSE /\ wrong = {}
           /\ \E v \in BOOLEAN : first = [app |-> app, root |-> root, rw |-> rw,
                                         replaced |-> replaced, stopped |-> FALSE, verity |-> v]

At(l)   == pc = l
To(l)   == Goto(l) /\ UNCHANGED <<raised, wrong>>
\* A command that fails, whether or not it took effect.
Fails   == wrong' = wrong \cup {pc} /\ raised' = TRUE /\ Goto("unwind")
Do(Effect, Same, l) == (Effect /\ To(l)) \/ ((Effect \/ Same) /\ Fails)
Restart == rw' = FALSE /\ prop' = FALSE /\ root' = FALSE /\ stopped' = FALSE
------------------------------------------------------------------------------
(* EnableSystemAppModification; loc.then is the step after the context's entry  *)

Then == loc.then

GetProp ==
  /\ At("GetProp")
  /\ \/ prop /\ Push(Frame(loc.kind, FALSE, root)) /\ To(Then)
     \/ ~prop /\ To("EnableRoot") /\ UNCHANGED frames
     \/ Fails /\ UNCHANGED frames
  /\ UNCHANGED <<device, first>>

\* HasRoot, EnableRoot and HasRoot again, outside of the try block.
EnableRoot ==
  /\ At("EnableRoot")
  /\ \/ root' = TRUE /\ Push(Frame(loc.kind, TRUE, root)) /\ To("DisableVerity")
     \/ root' \in {root, TRUE} /\ UNCHANGED frames /\ Fails
  /\ UNCHANGED <<app, store, replaced, prop, rw, stopped, first>>

\* disable-verity from Marshmallow on, reboot, and root once more.
DisableVerity ==
  /\ At("DisableVerity")
  /\ IF first.verity
     THEN Do(Restart, UNCHANGED <<rw, prop, root, stopped>>, "RootAgain")
     ELSE UNCHANGED <<rw, prop, root, stopped>> /\ To("Remount")
  /\ UNCHANGED <<app, store, replaced, frames, first>>
RootAgain ==
  /\ At("RootAgain")
  /\ Do(root' = TRUE, UNCHANGED root, "Remount")
  /\ UNCHANGED <<app, store, replaced, prop, rw, frames, stopped, first>>
Remount ==
  /\ At("Remount")
  /\ Do(rw' = TRUE, UNCHANGED rw, "StopFramework")
  /\ UNCHANGED <<app, store, replaced, root, prop, frames, stopped, first>>
StopFramework ==
  /\ At("StopFramework")
  /\ Do(stopped' = TRUE, UNCHANGED stopped, IF loc.kind = "strip" THEN "StripPath" ELSE "SetProp")
  /\ UNCHANGED <<app, store, replaced, root, prop, rw, frames, first>>
SetProp ==
  /\ At("SetProp")
  /\ Do(prop' = TRUE, UNCHANGED prop, Then)
  /\ UNCHANGED <<app, store, replaced, root, rw, stopped, frames, first>>

\* The finally clause: the property, a reboot, and root if it was there before.
LeaveModify ==
  /\ At("LeaveModify")
  /\ \/ /\ rw' = FALSE /\ prop' = FALSE /\ stopped' = FALSE /\ root' = Inner.root
        /\ To("unwind")
     \/ prop' \in {prop, FALSE} /\ UNCHANGED <<rw, root, stopped>> /\ Fails
     \/ Restart /\ Fails
  /\ Pop
  /\ UNCHANGED <<app, store, replaced, first>>
------------------------------------------------------------------------------
(* ReplaceSystemApp                                                            *)

Storage ==
  /\ At("ReplaceSystemApp")
  /\ \/ store' = "there" /\ Push(Frame("storage", TRUE, root)) /\ To("FindPaths")
     \/ store' \in {"none", "there"} /\ UNCHANGED frames /\ Fails
  /\ UNCHANGED <<app, replaced, root, prop, rw, stopped, first>>

\* The entry of _RelocateApp: paths, directories, and the move if there is one.
FindPaths ==
  /\ At("FindPaths")
  /\ \/ /\ app = "system"
        /\ GotoWith("GetProp", [kind |-> "modify", then |-> "Move"])
        /\ UNCHANGED <<raised, wrong, frames>>
     \/ app # "system" /\ Push(Frame("relocate", FALSE, root)) /\ To("Install")
     \/ UNCHANGED frames /\ Fails
  /\ UNCHANGED <<device, first>>

\* _MoveApp, there or back, while the system partition may be written.
Move ==
  /\ At("Move")
  /\ LET to == IF app = "system" THEN "stored" ELSE "system"
     IN  Do(rw /\ app' = to, UNCHANGED app, "unwind")
  /\ UNCHANGED <<store, replaced, root, prop, rw, frames, stopped, first>>

\* Its command when there is nothing to move back: an empty one.
NoMove ==
  /\ At("NoMove")
  /\ To("unwind") \/ Fails
  /\ UNCHANGED <<device, frames, first>>

Install ==
  /\ At("Install")
  /\ \/ replaced' = TRUE /\ Push(Frame("install", TRUE, root)) /\ To("body")
     \/ replaced' \in BOOLEAN /\ UNCHANGED frames /\ Fails
  /\ UNCHANGED <<app, store, root, prop, rw, stopped, first>>

\* The block of the test, which may raise.
Body ==
  /\ At("body")
  /\ raised' \in BOOLEAN /\ UNCHANGED wrong /\ Goto("unwind")
  /\ UNCHANGED <<device, frames, first>>
------------------------------------------------------------------------------
(* Leaving the contexts, the innermost first, by an exception or without        *)

\* The context of the move is left before that of _RelocateApp is entered, or
\* when that is being left.
Moved ==
  /\ At("unwind") /\ In("modify") /\ ~Inner.undo
  /\ Pop
  /\ UNCHANGED <<device, first, callVars, raised, wrong>>
LeaveMove ==
  /\ At("unwind") /\ frames # <<>> /\ Inner.kind \in {"modify", "user"} /\ Inner.undo
  /\ To("LeaveModify")
  /\ UNCHANGED <<device, frames, first>>

\* _RelocateApp is entered after its first move and left after its second.
Relocated ==
  /\ At("unwind") /\ In("storage") /\ ~raised /\ app = "stored"
  /\ Push(Frame("relocate", TRUE, root)) /\ To("Install")
  /\ UNCHANGED <<device, first>>
LeaveInstall ==
  /\ At("unwind") /\ In("install")
  /\ Pop
  /\ Do(replaced' = FALSE, UNCHANGED replaced, "unwind")
  /\ UNCHANGED <<app, store, root, prop, rw, stopped, first>>
\* As if the files were only moved back when nothing went wrong (a mutant).
LeaveRelocateQuietly ==
  /\ At("unwind") /\ In("relocate")
  /\ Pop
  /\ IF raised THEN To("unwind")
     ELSE /\ GotoWith("GetProp", [kind |-> "modify",
                                  then |-> IF Inner.undo THEN "Move" ELSE "NoMove"])
          /\ UNCHANGED <<raised, wrong>>
  /\ UNCHANGED <<device, first>>

\* The move back takes the mode again, also for an app that was not there.
LeaveRelocate ==
  /\ At("unwind") /\ In("relocate")
  /\ Pop
  /\ GotoWith("GetProp", [kind |-> "modify", then |-> IF Inner.undo THEN "Move" ELSE "NoMove"])
  /\ UNCHANGED <<raised, wrong, device, first>>

\* The directory is deleted with what is in it.
LeaveStorage ==
  /\ At("unwind") /\ In("storage") /\ (raised \/ app # "stored")
  /\ Pop
  /\ store' \in {"removed", store}
  /\ app' = IF app = "stored" THEN "gone" ELSE app
  /\ To("unwind")
  /\ UNCHANGED <<replaced, root, prop, rw, stopped, first>>

\* A user's with statement ends with the one that is in it.
LeaveUser ==
  /\ At("unwind") /\ In("user") /\ ~Inner.undo
  /\ Pop
  /\ UNCHANGED <<device, first, callVars, raised, wrong>>

Done ==
  /\ At("unwind") /\ frames = <<>>
  /\ End(IF raised THEN "raised" ELSE "ok")
  /\ UNCHANGED sysVars

RemoveSystemApps == \* in the context of its own
  /\ At("RemoveSystemApps")
  /\ \/ /\ app = "system"
        /\ GotoWith("GetProp", [kind |-> "user", then |-> "RemovePath"])
        /\ UNCHANGED <<raised, wrong>>
     \/ app # "system" /\ To("unwind")
     \/ Fails
  /\ UNCHANGED <<device, frames, first>>
RemovePath ==
  /\ At("RemovePath")
  /\ Do(rw /\ app' = "none", UNCHANGED app, "unwind")
  /\ UNCHANGED <<store, replaced, root, prop, rw, frames, stopped, first>>

\* RemoveSystemApps of provision_devices, which undoes nothing when it raises: root,
\* verity, stop, the files, start.
StripSystemApps ==
  /\ At("StripSystemApps")
  /\ \/ /\ root' = TRUE
        /\ IF app = "system"
           THEN GotoWith("DisableVerity", [kind |-> "strip"]) /\ UNCHANGED <<raised, wrong>>
           ELSE To("unwind")
     \/ root' \in {root, TRUE} /\ Fails
  /\ UNCHANGED <<app, store, replaced, prop, rw, stopped, frames, first>>
StripPath ==
  /\ At("StripPath")
  /\ Do(rw /\ app' = "none", UNCHANGED app, "StartFramework")
  /\ UNCHANGED <<store, replaced, root, prop, rw, stopped, frames, first>>
StartFramework ==
  /\ At("StartFramework")
  /\ Do(stopped' = FALSE, UNCHANGED stopped, "unwind")
  /\ UNCHANGED <<app, store, replaced, root, prop, rw, frames, first>>

\* A user may hold the mode around a replacement, with one reboot for both moves.
EnableSystemAppModification ==
  /\ At("EnableSystemAppModification")
  /\ GotoWith("GetProp", [kind |-> "user", then |-> "ReplaceSystemApp"])
  /\ UNCHANGED sysVars
------------------------------------------------------------------------------
SysArgs == /\ \/ Call("ReplaceSystemApp", <<>>)
              \/ Call("EnableSystemAppModification", <<>>)
              \/ Call("RemoveSystemApps", <<>>) \/ Call("StripSystemApps", <<>>)
           /\ raised' = FALSE /\ wrong' = {}
           /\ first' = [app |-> app, root |-> root, rw |-> rw, replaced |-> replaced,
                        stopped |-> stopped, verity |-> first.verity]
           /\ UNCHANGED <<device, frames>>

SysNext == \/ SysArgs
           \/ GetProp \/ EnableRoot \/ DisableVerity \/ RootAgain \/ Remount \/ StopFramework \/ SetProp
           \/ LeaveModify \/ Storage \/ FindPaths \/ Move \/ NoMove \/ Install \/ Body
           \/ Moved \/ LeaveMove \/ Relocated \/ LeaveInstall \/ LeaveRelocate \/ LeaveStorage
           \/ LeaveUser \/ Done \/ RemoveSystemApps \/ RemovePath \/ EnableSystemAppModification
           \/ StripSystemApps \/ StripPath \/ StartFramework
------------------------------------------------------------------------------
(* Properties                                                                  *)

\* None of the steps S has failed.
Fine(S) == wrong \cap S = {}
ToMove  == {"GetProp", "EnableRoot", "DisableVerity", "RootAgain", "Remount", "StopFramework",
            "SetProp", "Move", "LeaveModify"}

\* A replacement is undone piece by piece, also when its block raises: the app is where
\* it was unless a step of a move or of the mode around it failed, which may delete the
\* app with its storage; the replacement is gone unless its own installation or removal
\* failed; the partition is read-only again unless the way out of a mode failed, and
\* adbd is root as it was unless that or the way in did.
ReplacementIsUndone ==
  Idle /\ last.op \in {"ReplaceSystemApp", "EnableSystemAppModification"} =>
     /\ Fine(ToMove) => app = first.app
     /\ Fine({"Install", "unwind"}) => (replaced => first.replaced)
     /\ Fine({"LeaveModify"}) => (rw => first.rw)
     /\ Fine({"EnableRoot", "LeaveModify"}) => root = first.root

\* A mode the user holds is not ended by the moves made under it: in the block of the
\* replacement the partition can still be written and nothing has been rebooted.
ScopeStaysOpen ==
  (frames # <<>> /\ frames[1].kind = "user" /\ At("body")) => rw /\ root

\* A call leaves the framework stopped only when the way out of a mode failed, or, in
\* provisioning, where nothing is undone, the stop itself, the removal or the start;
\* and a removed app was removed for good or its call raised.
FrameworkRuns ==
  /\ Idle /\ stopped /\ ~first.stopped =>
       ~Fine(IF last.op = "StripSystemApps" THEN {"StopFramework", "StripPath", "StartFramework"}
             ELSE {"LeaveModify"})
  /\ Ended("StripSystemApps") \/ Ended("RemoveSystemApps") => app # "system"
==============================================================================
