-------------------------- MODULE DeviceUtils_proofs --------------------------
(* The caches of a DeviceUtils, for any number of sessions, calls, attempts,   *)
(* properties, versions and files: what they say is true of the device, and    *)
(* the calls that trust them do as they were asked.                            *)
EXTENDS DeviceUtils, TLAPS

(* The inductive invariant, part by part.                                       *)

\* Where a call is: its method, and a step of that method.
Single  == {"none", "GetProp", "GetPropCached", "SetProp", "NeedsSU", "WriteFile", "RemovePath"}
Choices == {"InstallRemove", "InstallApks"}
Pushing == {"RemoveStale", "PushFiles", "PushOne", "PushZipped", "Commit"}
InstallSteps == {"Install", "InstallPaths", "InstallSums", "GrantPermissions"} \cup Choices
Removal      == {"Uninstall", "UninstallPaths", "UninstallApp"}
PushSteps    == {"PushChangedFiles", "Checksums"} \cup Pushing
RebootSteps  == {"Reboot", "DeviceOffline", "WaitUntilFullyBooted", "BootCompleted"}
AtStep ==
  \/ op \in Single /\ pc = op
  \/ op = "EnableRoot" /\ pc \in {"EnableRoot", "HasRoot"}
  \/ op = "Reboot" /\ pc \in RebootSteps
  \/ op = "Install" /\ pc \in InstallSteps
  \/ op = "Uninstall" /\ pc \in Removal
  \/ op = "PushChangedFiles" /\ pc \in PushSteps
  \/ op = "DumpCacheData" /\ pc \in {"DumpCacheData", "DumpObject"}
  \/ op = "LoadCacheData" /\ pc \in {"LoadCacheData", "LoadObject"}

Asked == /\ op \in {"GetProp", "SetProp"} => arg.p \in Prop
         /\ op = "SetProp" => arg.v \in Val
         /\ op \in {"WriteFile", "RemovePath"} => arg.f \in File
         /\ op = "PushChangedFiles" => arg.stale \in BOOLEAN
         /\ op = "Install" => arg.want \in Wants /\ arg.reinstall \in BOOLEAN

\* The steps of a call that come after its _EnsureCacheInitialized.
Armed == (InstallSteps \cup Removal \cup PushSteps \cup {"DumpObject", "LoadObject"})
         \ {"Install", "Uninstall", "PushChangedFiles"}

Control == /\ AtStep /\ Asked
           /\ calls \in Nat
           /\ op \notin {"none", "DumpCacheData", "LoadCacheData"} => calls # 0
           /\ op = "LoadCacheData" => calls = 0 /\ Known(dump)

\* The token of the session is the device's, no dump has it before the session's own,
\* and a session that has dumped does nothing more.
Tokens == /\ {devToken, token, prevToken, dumpToken} \subseteq Token \cup {0}
          /\ token # 0 => devToken = token /\ prevToken # token
          /\ pc \in Armed => token # 0
          /\ op \notin {"none", "DumpCacheData", "LoadCacheData"} => ~Dumped

\* The caches of properties and su, also while SetProp runs.
Props == /\ prop \in [Prop -> Val \cup {""}]
         /\ propCache \in [Prop -> Val \cup {""}]
         /\ ~doubt => \A p \in Prop \ Late : propCache[p] # "" => propCache[p] = prop[p]
         /\ SuCacheIsRight

\* What stays true of an entry even when a verification failed: it is right, or
\* the app is gone.
SoundPaths(p, i) == Known(p) => p[1] = Parts(i) \/ i = {}
SoundSums(s, i)  == Known(s) => s[1] \subseteq i \/ i = {}

\* An install skips only what the device has.
Skips == /\ ~arg.reinstall => loc.stale = {} \/ loc.stale = arg.want
         /\ loc.stale \subseteq arg.want
         /\ ~unverified \/ installed # {} => arg.want \ loc.stale \subseteq installed
         /\ Known(loc.host) => loc.host = <<arg.want>>

Packages ==
  /\ SoundPaths(paths, installed) /\ SoundSums(sums, installed)
  /\ PackageCacheIsTrue
  /\ pc = "InstallSums" /\ ~unverified => loc.old = Parts(installed) /\ installed # {}
  /\ pc \in Choices => Skips
  /\ pc = "GrantPermissions" =>
       /\ ~unverified \/ installed # {} => arg.want \subseteq installed
       /\ Known(loc.host) => loc.host = <<arg.want>>

\* Cached sums are the device's but for files touched since; an entry that ignores
\* other files says nothing of some.
SoundFiles(e, t, d) ==
  Known(e) => \A f \in File \ t : e[2][f] = d[f] \/ (e[1] = TRUE /\ e[2][f] = None)

\* The files of the host a push has still to bring.
Left == IF pc = "Commit" THEN {} ELSE loc.push

Locals == [push: SUBSET File, sent: SUBSET File, delete: SUBSET File,
           commit: {<<>>} \cup (BOOLEAN \X [File -> Content])]
Pushes ==
  /\ loc \in Locals
  /\ loc.push \subseteq Has(host) /\ loc.sent \subseteq Has(host)
  /\ loc.delete \subseteq File \ Has(host)
  /\ \A f \in Has(host) \ Left : dev[f] = host[f] \/ (f \in touched /\ f \notin loc.sent)
  /\ pc # "RemoveStale" => \A f \in loc.delete : dev[f] = None
  /\ ~Known(loc.commit) => loc.sent = {} /\ loc.delete = {}
  /\ Known(loc.commit) =>
       /\ loc.commit = <<~arg.stale, host>>
       /\ arg.stale => \A f \in File \ (Has(host) \cup loc.delete) : dev[f] = None \/ f \in touched

Files == /\ host \in [File -> Content] /\ dev \in [File -> Content]
         /\ SoundFiles(filesCache, touched, dev)
         /\ pc \in Pushing => Pushes
         /\ PushMakesEqual

\* A dump is true of the device as long as the device has its token, and while a session
\* that found it there has made no call yet.
DumpIsTrue == /\ SoundPaths(dump.paths, installed) /\ SoundSums(dump.sums, installed)
              /\ SoundFiles(dump.files, dump.touched, dev)
Dumps == /\ Known(dump) /\ devToken = dumpToken => DumpIsTrue
         /\ Known(dump) /\ calls = 0 /\ token # 0 /\ prevToken = dumpToken => DumpIsTrue
         /\ Known(dump) => dump = [paths |-> dump.paths, sums |-> dump.sums,
                                   files |-> dump.files, touched |-> dump.touched]

IInv == Control /\ Tokens /\ Props /\ Packages /\ Files /\ Dumps
-------------------------------------------------------------------------------
(* The frame of a call.                                                         *)

\* The three outcomes of _EnsureCacheInitialized: it was, it is now, it raised.
Ensured == \/ token # 0 /\ UNCHANGED stateVars
           \/ /\ token = 0 /\ boot # "off"
              /\ devToken' = NewToken /\ token' = NewToken /\ prevToken' = devToken
              /\ propCache' = [p \in Prop |-> Shown(p)]
              /\ UNCHANGED <<boot, root, prop, suCache, dumpToken, doubt>>
NotEnsured == /\ token = 0
              /\ devToken' \in {devToken, NewToken}
              /\ UNCHANGED <<boot, root, prop, knownVars, dumpToken, doubt>>

LEMMA Ensures ==
  /\ GetPropCached => (Ensured /\ Return) \/ (NotEnsured /\ Raise)
  /\ WaitUntilFullyBooted => (Ensured /\ Goto("BootCompleted")) \/ (NotEnsured /\ Raise)
  /\ Install => (Ensured /\ Goto("InstallPaths")) \/ (NotEnsured /\ Raise)
  /\ Uninstall => (Ensured /\ Goto("UninstallPaths")) \/ (NotEnsured /\ Raise)
  /\ PushChangedFiles => (Ensured /\ Goto("Checksums")) \/ (NotEnsured /\ Raise)
  /\ DumpCacheData => (Ensured /\ Goto("DumpObject")) \/ (NotEnsured /\ Raise)
  /\ LoadCacheData => (Ensured /\ Goto("LoadObject")) \/ (NotEnsured /\ Raise)
BY DEF GetPropCached, WaitUntilFullyBooted, Install, Uninstall, PushChangedFiles,
       DumpCacheData, LoadCacheData, EnsureCacheInitialized, Ensured, NotEnsured

\* A fresh token is none of the four that are remembered.
LEMMA FreshToken == NewToken \in Token \ {devToken, token, prevToken, dumpToken}
<1>1. \E t \in Token : t \notin {devToken, token, prevToken, dumpToken}
  BY DEF Token
<1>. QED  BY <1>1 DEF NewToken

\* A step of a call goes on, starts its method over, or ends it.
On(l)  == UNCHANGED <<op, arg, calls>> /\ pc' = l
Again  == On(op)
Ends   == op' = "none" /\ pc' = "none" /\ calls' = calls

LEMMA Paces ==
  /\ Raise => Again \/ Ends
  /\ Return => Ends
  /\ \A l : Goto(l) => On(l)
  /\ \A l, f : GotoWith(l, f) => On(l)
  /\ \A h : End(h) => Ends
BY DEF Raise, Return, Goto, GotoWith, End, On, Again, Ends

LEMMA StatePaces ==
  StateStep => \/ Again \/ Ends
               \/ pc = "EnableRoot" /\ On("HasRoot")
               \/ pc = "DeviceOffline" /\ On("WaitUntilFullyBooted")
               \/ pc = "WaitUntilFullyBooted" /\ On("BootCompleted")
BY Paces, Ensures
   DEF StateStep, GetProp, SetProp, NeedsSU, EnableRoot, HasRoot, DeviceOffline, BootCompleted,
       WaitUntilFullyBooted

LEMMA PathsPaces ==
  /\ InstallPaths => Again \/ Ends \/ On("InstallRemove") \/ On("InstallSums")
  /\ UninstallPaths => Again \/ Ends \/ On("UninstallApp")
BY Paces DEF InstallPaths, UninstallPaths, GetApplicationPaths, ChooseAll, UninstallIf

LEMMA PkgPaces ==
  PkgStep => \/ Again \/ Ends
             \/ pc = "Install" /\ On("InstallPaths")
             \/ pc = "InstallPaths" /\ (On("InstallRemove") \/ On("InstallSums"))
             \/ pc = "InstallSums" /\ On("InstallRemove")
             \/ pc = "InstallRemove" /\ On("InstallApks")
             \/ pc = "InstallApks" /\ On("GrantPermissions")
             \/ pc = "Uninstall" /\ On("UninstallPaths")
             \/ pc = "UninstallPaths" /\ On("UninstallApp")
<1>1. Install => (pc = "Install" /\ On("InstallPaths")) \/ Again \/ Ends
  BY Paces, Ensures DEF Install
<1>2. Uninstall => (pc = "Uninstall" /\ On("UninstallPaths")) \/ Again \/ Ends
  BY Paces, Ensures DEF Uninstall
<1>3. InstallPaths => (pc = "InstallPaths" /\ (On("InstallRemove") \/ On("InstallSums"))) \/ Again \/ Ends
  BY PathsPaces DEF InstallPaths
<1>4. UninstallPaths => (pc = "UninstallPaths" /\ On("UninstallApp")) \/ Again \/ Ends
  BY PathsPaces DEF UninstallPaths
<1>5. InstallSums => (pc = "InstallSums" /\ On("InstallRemove")) \/ Again \/ Ends
  BY Paces DEF InstallSums, Stale
<1>6. InstallRemove => (pc = "InstallRemove" /\ On("InstallApks")) \/ Again \/ Ends
  BY Paces DEF InstallRemove, Adb
<1>7. InstallApks => (pc = "InstallApks" /\ On("GrantPermissions")) \/ Again \/ Ends
  BY Paces DEF InstallApks, Adb
<1>8. GrantPermissions \/ UninstallApp => Again \/ Ends
  BY Paces DEF GrantPermissions, UninstallApp, Adb
<1>. QED  BY <1>1, <1>2, <1>3, <1>4, <1>5, <1>6, <1>7, <1>8 DEF PkgStep

LEMMA FilesPaces ==
  FilesStep => \/ Again \/ Ends
               \/ pc \in PushSteps /\ \E l \in Pushing \cup {"Checksums"} : On(l)
<1>1. PushChangedFiles => (pc \in PushSteps /\ On("Checksums")) \/ Again \/ Ends
  BY Paces, Ensures DEF PushChangedFiles, PushSteps
<1>2. Checksums => (pc \in PushSteps /\ On("RemoveStale")) \/ Again \/ Ends
  BY Paces DEF Checksums, Compare, PushSteps
<1>3. RemoveStale => (pc \in PushSteps /\ On("PushFiles")) \/ Again \/ Ends
  BY Paces DEF RemoveStale, Adb, PushSteps, Pushing
<1>4. PushFiles => pc \in PushSteps /\ (On("Commit") \/ On("PushOne") \/ On("PushZipped"))
  BY Paces DEF PushFiles, PushSteps, Pushing
<1>5. PushOne => (pc \in PushSteps /\ (On("Commit") \/ On("PushOne"))) \/ Again \/ Ends
  BY Paces DEF PushOne, Adb, PushSteps, Pushing
<1>6. PushZipped => (pc \in PushSteps /\ (On("Commit") \/ On("PushOne"))) \/ Again \/ Ends
  BY Paces DEF PushZipped, PushSteps, Pushing
<1>7. Commit \/ WriteFile \/ RemovePath => Again \/ Ends
  BY Paces DEF Commit, WriteFile, RemovePath, Adb
<1>. QED  BY <1>1, <1>2, <1>3, <1>4, <1>5, <1>6, <1>7 DEF FilesStep, Pushing

LEMMA OtherPaces ==
  /\ Reboot => (pc = "Reboot" /\ On("DeviceOffline")) \/ Again \/ Ends
  /\ DumpCacheData => (pc = "DumpCacheData" /\ On("DumpObject")) \/ Again \/ Ends
  /\ LoadCacheData => (pc = "LoadCacheData" /\ On("LoadObject")) \/ Again \/ Ends
  /\ DumpObject \/ LoadObject => Ends
BY Paces, Ensures DEF Reboot, DumpCacheData, LoadCacheData, DumpObject, LoadObject

\* What a session may ask for, and when.
Methods == {"GetProp", "GetPropCached", "SetProp", "NeedsSU", "EnableRoot", "Reboot",
            "Install", "Uninstall", "PushChangedFiles", "WriteFile", "RemovePath"}
Argued == {"GetProp", "SetProp", "Install", "PushChangedFiles", "WriteFile", "RemovePath"}

LEMMA CallPaces ==
  Calls => /\ op = "none" /\ pc' = op' /\ Asked' /\ UNCHANGED <<loc, last>>
           /\ \/ op' \in Methods /\ calls' = calls + 1 /\ ~Dumped
              \/ op' = "DumpCacheData" /\ calls' = calls /\ ~Dumped
              \/ op' = "LoadCacheData" /\ calls' = calls /\ calls = 0 /\ Known(dump)
<1>1. ASSUME NEW o, NEW a, Call(o, a)
      PROVE  /\ op = "none" /\ pc' = o /\ op' = o /\ arg' = a /\ UNCHANGED <<loc, last>>
             /\ IF o \in {"LoadCacheData", "DumpCacheData", "Enter", "RunCommand", "Exit"}
                THEN calls' = calls ELSE calls' = calls + 1
  BY <1>1 DEF Call, Idle, Counted
<1>2. StateCall => \/ \E p \in Prop : Call("GetProp", [p |-> p])
                   \/ \E p \in Prop, v \in Val : Call("SetProp", [p |-> p, v |-> v])
                   \/ \E o \in Methods \ Argued : \E a : Call(o, a)
  BY DEF StateCall, Methods, Argued
<1>3. PkgCall => \/ \E w \in Wants, r \in BOOLEAN : Call("Install", [want |-> w, reinstall |-> r])
                 \/ Call("Uninstall", <<>>)
  BY DEF PkgCall
<1>4. FilesCall => \/ \E b \in BOOLEAN : Call("PushChangedFiles", [stale |-> b])
                   \/ \E f \in File, o \in {"WriteFile", "RemovePath"} : Call(o, [f |-> f])
  BY DEF FilesCall
<1>5. ASSUME NEW o \in Methods \ Argued, NEW a,
             Call(o, a), ~Dumped
      PROVE  /\ op = "none" /\ pc' = op' /\ Asked' /\ UNCHANGED <<loc, last>>
             /\ op' \in Methods /\ calls' = calls + 1
  BY <1>1, <1>5 DEF Methods, Argued, Asked
<1>6. ASSUME NEW w \in Wants, NEW r \in BOOLEAN, Call("Install", [want |-> w, reinstall |-> r])
      PROVE  /\ op = "none" /\ pc' = op' /\ Asked' /\ UNCHANGED <<loc, last>>
             /\ op' \in Methods /\ calls' = calls + 1
  BY <1>1, <1>6 DEF Methods, Asked
<1>7. ASSUME NEW b \in BOOLEAN, Call("PushChangedFiles", [stale |-> b])
      PROVE  /\ op = "none" /\ pc' = op' /\ Asked' /\ UNCHANGED <<loc, last>>
             /\ op' \in Methods /\ calls' = calls + 1
  BY <1>1, <1>7 DEF Methods, Asked
<1>8. ASSUME NEW f \in File, NEW o \in {"WriteFile", "RemovePath"}, Call(o, [f |-> f])
      PROVE  /\ op = "none" /\ pc' = op' /\ Asked' /\ UNCHANGED <<loc, last>>
             /\ op' \in Methods /\ calls' = calls + 1
  BY <1>1, <1>8 DEF Methods, Asked
<1>9. Call("DumpCacheData", <<>>) => /\ op = "none" /\ pc' = op' /\ Asked' /\ UNCHANGED <<loc, last>>
                                     /\ op' = "DumpCacheData" /\ calls' = calls
  BY <1>1 DEF Asked
<1>10. Call("LoadCacheData", <<>>) => /\ op = "none" /\ pc' = op' /\ Asked' /\ UNCHANGED <<loc, last>>
                                      /\ op' = "LoadCacheData" /\ calls' = calls
  BY <1>1 DEF Asked
<1>11. "Reboot" \in Methods \ Argued
       /\ "Uninstall" \in Methods \ Argued
  BY DEF Methods, Argued
<1>13. ASSUME NEW p \in Prop, Call("GetProp", [p |-> p])
       PROVE  /\ op = "none" /\ pc' = op' /\ Asked' /\ UNCHANGED <<loc, last>>
              /\ op' \in Methods /\ calls' = calls + 1
  BY <1>1, <1>13 DEF Methods, Asked
<1>14. ASSUME NEW p \in Prop, NEW v \in Val, Call("SetProp", [p |-> p, v |-> v])
       PROVE  /\ op = "none" /\ pc' = op' /\ Asked' /\ UNCHANGED <<loc, last>>
              /\ op' \in Methods /\ calls' = calls + 1
  BY <1>1, <1>14 DEF Methods, Asked
<1>12. ASSUME ~Dumped, StateCall \/ PkgCall \/ FilesCall \/ Call("Reboot", <<>>) \/ Call("DumpCacheData", <<>>)
       PROVE  /\ op = "none" /\ pc' = op' /\ Asked' /\ UNCHANGED <<loc, last>>
              /\ \/ op' \in Methods /\ calls' = calls + 1
                 \/ op' = "DumpCacheData" /\ calls' = calls
  BY <1>2, <1>3, <1>4, <1>5, <1>6, <1>7, <1>8, <1>9, <1>11, <1>12, <1>13, <1>14
<1>. QED  BY <1>10, <1>12 DEF Calls, Fresh

\* The steps that change what is dumped: DumpObject, and AgeDump beside the writes.
LEMMA ControlStep == ASSUME Control, [Next]_vars PROVE Control'
<1>. USE DEF Control, AtStep, Single, InstallSteps, Removal, PushSteps, RebootSteps, Pushing, Choices
<1>1. ASSUME Again, UNCHANGED dump PROVE Control'
  BY <1>1 DEF Again, On, Asked
<1>2. ASSUME Ends, UNCHANGED dump PROVE Control'
  BY <1>2 DEF Ends, Asked
<1>3. ASSUME Again \/ Ends, op # "LoadCacheData" PROVE Control'
  BY <1>3 DEF Again, Ends, On, Asked
<1>4. CASE Calls /\ UNCHANGED dump
  BY <1>4, CallPaces DEF Methods
<1>5. CASE StateStep /\ UNCHANGED dump
  <2>1. ASSUME NEW l \in {"HasRoot", "WaitUntilFullyBooted", "BootCompleted"}, On(l),
               pc \in {"EnableRoot", "DeviceOffline", "WaitUntilFullyBooted"}, (l = "HasRoot") = (pc = "EnableRoot")
        PROVE  Control'
    BY <2>1, <1>5 DEF On, Asked
  <2>. QED  BY <1>1, <1>2, <1>5, <2>1, StatePaces
<1>6. CASE PkgStep /\ UNCHANGED dump
  <2>1. ASSUME NEW l \in InstallSteps, On(l), pc \in InstallSteps PROVE Control'
    BY <2>1, <1>6 DEF On, Asked
  <2>2. ASSUME NEW l \in Removal, On(l), pc \in Removal PROVE Control'
    BY <2>2, <1>6 DEF On, Asked
  <2>. QED  BY <1>1, <1>2, <1>6, <2>1, <2>2, PkgPaces
<1>7. CASE FilesStep /\ AgeDump
  <2>1. op # "LoadCacheData"
    BY <1>7 DEF FilesStep, PushChangedFiles, Checksums, RemoveStale, PushFiles, PushOne, PushZipped,
                Commit, WriteFile, RemovePath
  <2>2. ASSUME NEW l \in Pushing \cup {"Checksums"}, On(l), pc \in PushSteps PROVE Control'
    BY <2>1, <2>2 DEF On, Asked
  <2>. QED  BY <1>3, <1>7, <2>1, <2>2, FilesPaces
<1>8. CASE Reboot
  <2>1. ASSUME pc = "Reboot", On("DeviceOffline"), UNCHANGED dump PROVE Control'
    BY <2>1 DEF On, Asked
  <2>2. UNCHANGED dump  BY <1>8 DEF Reboot
  <2>. QED  BY <1>1, <1>2, <1>8, <2>1, <2>2, OtherPaces
<1>9. CASE DumpCacheData \/ LoadCacheData
  <2>1. ASSUME pc = "DumpCacheData", On("DumpObject"), UNCHANGED dump PROVE Control'
    BY <2>1 DEF On, Asked
  <2>2. ASSUME pc = "LoadCacheData", On("LoadObject"), UNCHANGED dump PROVE Control'
    BY <2>2 DEF On, Asked
  <2>3. UNCHANGED dump  BY <1>9 DEF DumpCacheData, LoadCacheData
  <2>. QED  BY <1>1, <1>2, <1>9, <2>1, <2>2, <2>3, OtherPaces
<1>10. CASE DumpObject \/ LoadObject
  BY <1>10, OtherPaces DEF Ends, Asked
<1>11. CASE Session
  BY <1>11 DEF Session, Asked
<1>12. CASE (Boot /\ UNCHANGED dump) \/ HostEdit \/ UNCHANGED vars
  <2>1. UNCHANGED <<op, pc, arg, calls>> /\ (op = "LoadCacheData" => UNCHANGED dump)
    BY <1>12 DEF Boot, HostEdit, vars, callVars, Idle
  <2>. QED  BY <2>1 DEF Asked
<1>. QED  BY <1>4, <1>5, <1>6, <1>7, <1>8, <1>9, <1>10, <1>11, <1>12 DEF Next

remembered == <<devToken, token, prevToken, dumpToken>>

LEMMA TokensStep == ASSUME Control, Tokens, [Next]_vars PROVE Tokens'
<1>. USE DEF remembered
<1>0. /\ NewToken \in Token /\ NewToken # 0
      /\ NewToken \notin {devToken, token, prevToken, dumpToken}
      /\ op \notin Armed /\ "none" \notin Armed
  BY FreshToken DEF Token, Control, AtStep, Single, Armed, InstallSteps, Removal, PushSteps, Pushing, Choices
<1>1. ASSUME UNCHANGED remembered, pc' \in Armed => pc \in Armed, op' \in {op, "none"}
      PROVE  Tokens'
  BY <1>1 DEF Tokens, Dumped
<1>2. ASSUME Ensured, op' \in {op, "none"} PROVE Tokens'
  <2>1. CASE token # 0
    BY <1>2, <2>1 DEF Ensured, Tokens, Dumped, stateVars, deviceVars, knownVars
  <2>2. CASE token = 0
    BY <1>0, <1>2, <2>2 DEF Ensured, Tokens, Dumped
  <2>. QED  BY <2>1, <2>2
<1>3. ASSUME NotEnsured, pc' \notin Armed, op' \in {op, "none"} PROVE Tokens'
  BY <1>0, <1>3 DEF NotEnsured, knownVars, Tokens, Dumped
<1>4. Again \/ Ends => pc' \notin Armed /\ op' \in {op, "none"}
  BY <1>0 DEF Again, Ends, On
<1>5. \A l : On(l) => pc' = l /\ op' = op
  BY DEF On
<1>6. ASSUME Install \/ Uninstall \/ PushChangedFiles \/ DumpCacheData \/ LoadCacheData
             \/ GetPropCached \/ WaitUntilFullyBooted
      PROVE  Tokens'
  <2>1. \/ Ensured /\ op' \in {op, "none"}
        \/ NotEnsured /\ Raise
    BY <1>4, <1>5, <1>6, Ensures, Paces
  <2>. QED  BY <1>2, <1>3, <1>4, <2>1, Paces
<1>7. CASE Calls /\ UNCHANGED stateVars
  <2>1. pc' \notin Armed
    BY <1>7, CallPaces DEF Armed, Methods, InstallSteps, Removal, PushSteps, Pushing, Choices
  <2>2. op' \notin {"none", "DumpCacheData", "LoadCacheData"} => ~Dumped
    BY <1>7, CallPaces
  <2>. QED  BY <1>7, <2>1, <2>2 DEF Tokens, Dumped, stateVars, deviceVars, knownVars
<1>8. CASE StateStep
  <2>1. CASE GetPropCached \/ WaitUntilFullyBooted
    BY <1>6, <2>1
  <2>2. CASE ~(GetPropCached \/ WaitUntilFullyBooted)
    <3>1. UNCHANGED remembered
      BY <1>8, <2>2 DEF StateStep, GetProp, SetProp, NeedsSU, EnableRoot, HasRoot, DeviceOffline, BootCompleted,
                        stateVars, deviceVars, knownVars
    <3>2. pc' \notin Armed /\ op' \in {op, "none"}
      BY <1>4, <1>5, <1>8, StatePaces DEF Armed, InstallSteps, Removal, PushSteps, Pushing, Choices
    <3>. QED  BY <1>1, <3>1, <3>2
  <2>. QED  BY <2>1, <2>2
<1>9. CASE PkgStep
  <2>1. CASE Install \/ Uninstall
    BY <1>6, <2>1
  <2>2. CASE ~(Install \/ Uninstall)
    <3>1. UNCHANGED remembered /\ pc # "Install" /\ pc # "Uninstall"
      BY <1>9, <2>2 DEF PkgStep, InstallPaths, UninstallPaths, InstallSums, InstallRemove, InstallApks,
                        GrantPermissions, UninstallApp, stateVars, deviceVars, knownVars
    <3>2. (pc' \in Armed => pc \in Armed) /\ op' \in {op, "none"}
      BY <1>4, <1>5, <1>9, <3>1, PkgPaces DEF Armed, InstallSteps, Removal, PushSteps, Pushing, Choices
    <3>. QED  BY <1>1, <3>1, <3>2
  <2>. QED  BY <2>1, <2>2
<1>10. CASE FilesStep
  <2>1. CASE PushChangedFiles
    BY <1>6, <2>1
  <2>2. CASE ~PushChangedFiles
    <3>1. UNCHANGED remembered /\ pc # "PushChangedFiles"
      BY <1>10, <2>2 DEF FilesStep, Checksums, RemoveStale, PushFiles, PushOne, PushZipped, Commit, WriteFile,
                         RemovePath, stateVars, deviceVars, knownVars
    <3>2. (pc' \in Armed => pc \in Armed) /\ op' \in {op, "none"}
      BY <1>4, <1>5, <1>10, <3>1, FilesPaces DEF Armed, PushSteps, Pushing
    <3>. QED  BY <1>1, <3>1, <3>2
  <2>. QED  BY <2>1, <2>2
<1>11. CASE Reboot
  <2>1. pc' \notin Armed /\ op' \in {op, "none"}
    BY <1>4, <1>5, <1>11, OtherPaces DEF Armed, InstallSteps, Removal, PushSteps, Pushing, Choices
  <2>2. UNCHANGED remembered \/ (token' = 0 /\ prevToken' = 0 /\ UNCHANGED <<devToken, dumpToken>>)
    BY <1>11 DEF Reboot, KeepCache, ClearCache, ClearState, knownVars
  <2>. QED  BY <1>1, <2>1, <2>2 DEF Tokens, Dumped
<1>12. CASE DumpObject
  <2>1. op' = "none" /\ pc' = "none" /\ UNCHANGED <<devToken, token, prevToken>> /\ dumpToken' = token
    BY <1>12 DEF DumpObject, Return, End, deviceVars, knownVars
  <2>. QED  BY <1>0, <2>1 DEF Tokens
<1>13. CASE LoadObject
  <2>1. UNCHANGED remembered /\ op' = "none" /\ pc' = "none"
    BY <1>13 DEF LoadObject, Return, End, stateVars, deviceVars, knownVars
  <2>. QED  BY <1>0, <1>1, <2>1
<1>14. CASE Session
  <2>1. /\ op' = "none" /\ pc' = "none" /\ devToken' \in {devToken, NewToken}
        /\ token' = 0 /\ prevToken' = 0 /\ UNCHANGED dumpToken
    BY <1>14 DEF Session, Between, ClearCache, ClearState
  <2>. QED  BY <1>0, <2>1 DEF Tokens
<1>15. CASE Boot \/ HostEdit \/ UNCHANGED vars
  BY <1>1, <1>15 DEF Boot, HostEdit, vars, callVars, stateVars, deviceVars, knownVars
<1>. QED
  BY <1>6, <1>7, <1>8, <1>9, <1>10, <1>11, <1>12, <1>13, <1>14, <1>15 DEF Next

\* ---------------------------------------------------------------- properties and su
LEMMA ShownIsRight ==
  ASSUME Props PROVE /\ \A p \in Prop : Shown(p) \in Val \cup {""}
                     /\ \A p \in Prop \ Late : Shown(p) = prop[p]
BY DEF Props, Shown

LEMMA PropsEnsured == ASSUME Props, Ensured \/ NotEnsured PROVE Props'
<1>1. CASE UNCHANGED <<root, prop, propCache, suCache, doubt>>
  BY <1>1 DEF Props, SuCacheIsRight
<1>2. CASE UNCHANGED <<root, prop, suCache, doubt>> /\ propCache' = [p \in Prop |-> Shown(p)]
  BY <1>2, ShownIsRight DEF Props, SuCacheIsRight
<1>. QED
  BY <1>1, <1>2 DEF Ensured, NotEnsured, stateVars, deviceVars, knownVars

LEMMA PropsStep == ASSUME Control, Props, [Next]_vars PROVE Props'
<1>. DEFINE here == <<root, prop, propCache, suCache, doubt>>
<1>1. ASSUME UNCHANGED here PROVE Props'
  BY <1>1 DEF Props, SuCacheIsRight
<1>2. ASSUME Install \/ Uninstall \/ PushChangedFiles \/ DumpCacheData \/ LoadCacheData
             \/ GetPropCached \/ WaitUntilFullyBooted
      PROVE  Props'
  BY <1>2, Ensures, PropsEnsured
<1>3. ASSUME propCache' = [p \in Prop |-> ""], suCache' = "unknown", prop' \in [Prop -> Val \cup {""}]
      PROVE  Props'
  BY <1>3 DEF Props, SuCacheIsRight
<1>4. Built \in Val
  BY PropAssumption DEF Built
<1>5. CASE GetProp
  <2>1. CASE UNCHANGED here
    BY <1>1, <2>1
  <2>2. CASE /\ propCache' = [propCache EXCEPT ![arg.p] = Shown(arg.p)]
             /\ UNCHANGED <<root, prop, suCache, doubt>>
    <3>1. arg.p \in Prop
      BY <1>5 DEF GetProp, Control, AtStep, Single, Asked, RebootSteps, InstallSteps, Choices, Removal,
                  PushSteps, Pushing
    <3>. QED  BY <2>2, <3>1, ShownIsRight DEF Props, SuCacheIsRight
  <2>. QED  BY <1>5, <2>1, <2>2 DEF GetProp, stateVars, deviceVars, knownVars
<1>6. CASE SetProp
  <2>1. arg.p \in Prop /\ arg.v \in Val /\ UNCHANGED <<root, suCache>>
    BY <1>6 DEF SetProp, Control, AtStep, Single, Asked, RebootSteps, InstallSteps, Choices, Removal,
                PushSteps, Pushing
  <2>2. CASE /\ prop' = [prop EXCEPT ![arg.p] = arg.v] /\ UNCHANGED doubt
             /\ propCache' = [propCache EXCEPT ![arg.p] = ""]
    BY <2>1, <2>2 DEF Props, SuCacheIsRight
  <2>3. CASE prop' = [prop EXCEPT ![arg.p] = arg.v] /\ UNCHANGED propCache /\ doubt' = TRUE
    BY <2>1, <2>3 DEF Props, SuCacheIsRight
  <2>4. CASE UNCHANGED here
    BY <1>1, <2>4
  <2>. QED  BY <1>6, <2>1, <2>2, <2>3, <2>4 DEF SetProp
<1>7. CASE NeedsSU
  <2>1. UNCHANGED <<root, prop, propCache>>
    BY <1>7 DEF NeedsSU, deviceVars
  <2>. QED  BY <1>7, <2>1 DEF NeedsSU, Props, SuCacheIsRight
<1>8. CASE EnableRoot
  BY <1>8 DEF EnableRoot, Props, SuCacheIsRight
<1>9. CASE HasRoot \/ DeviceOffline \/ BootCompleted
  BY <1>1, <1>9 DEF HasRoot, DeviceOffline, BootCompleted, stateVars, deviceVars, knownVars
<1>10. CASE Boot
  <2>1. /\ UNCHANGED <<root, propCache, suCache, doubt>>
        /\ prop' = [p \in Prop |-> IF boot = "booting" /\ p \in Late THEN Built ELSE prop[p]]
    BY <1>10 DEF Boot, knownVars
  <2>. QED  BY <1>4, <2>1 DEF Props, SuCacheIsRight
<1>11. CASE PkgStep
  BY <1>1, <1>2, <1>11 DEF PkgStep, InstallPaths, UninstallPaths, InstallSums, InstallRemove, InstallApks,
       GrantPermissions, UninstallApp, stateVars, deviceVars, knownVars
<1>12. CASE FilesStep \/ HostEdit
  BY <1>1, <1>2, <1>12 DEF FilesStep, Checksums, RemoveStale, PushFiles, PushOne, PushZipped, Commit,
       WriteFile, RemovePath, HostEdit, stateVars, deviceVars, knownVars
<1>13. CASE Reboot
  <2>1. CASE Restarted(FALSE) /\ ClearCache
    BY <1>3, <1>4, <2>1 DEF Restarted, ClearCache, ClearState
  <2>2. CASE Restarted(TRUE) /\ KeepCache /\ doubt' = TRUE
    <3>1. UNCHANGED <<propCache, suCache>> /\ prop' \in [Prop -> Val \cup {""}]
      BY <1>4, <2>2 DEF Restarted, KeepCache, knownVars, Props
    <3>. QED  BY <2>2, <3>1 DEF Props, SuCacheIsRight
  <2>. QED  BY <1>13, <2>1, <2>2 DEF Reboot
<1>14. CASE DumpObject \/ LoadObject
  BY <1>1, <1>14 DEF DumpObject, LoadObject, stateVars, deviceVars, knownVars
<1>15. CASE Session
  BY <1>3, <1>15 DEF Session, ClearCache, ClearState, Props
<1>16. CASE UNCHANGED stateVars
  BY <1>1, <1>16 DEF stateVars, deviceVars, knownVars
<1>. QED
  BY <1>2, <1>5, <1>6, <1>7, <1>8, <1>9, <1>10, <1>11, <1>12, <1>13, <1>14, <1>15, <1>16
     DEF Next, StateStep, vars

\* ---------------------------------------------------------------- packages
Cached  == SoundPaths(paths, installed) /\ SoundSums(sums, installed) /\ PackageCacheIsTrue
Planned == {"InstallSums", "GrantPermissions"} \cup Choices

\* The apks of a request are of different parts: to install some of them keeps the others.
LEMMA WantParts == \A w \in Wants : \A a, b \in w : a.part = b.part => a = b
BY DEF Wants, BaseApk, SplitApk

LEMMA NoParts == Parts({}) = {} /\ \A i : Parts(i) = {} => i = {}
BY DEF Parts

\* What _GetApplicationPathsInternal answers, and leaves in the caches.
Answered(parts) ==
  /\ verify' = FALSE /\ UNCHANGED <<installed, unverified>>
  /\ \/ CachedPathsAreRight /\ UNCHANGED <<paths, sums>> /\ parts = paths[1]
     \/ ~CachedPathsAreRight /\ AskPackageManager /\ parts = Parts(installed)
NotAnswered ==
  /\ verify' = FALSE /\ UNCHANGED <<installed, paths>>
  /\ unverified' = (unverified \/ verify)
  /\ sums' \in {sums, IF CachedPathsAreRight THEN sums ELSE <<>>}

LEMMA Answers ==
  /\ InstallPaths => \/ \E parts : Answered(parts) /\ ChooseAll(parts)
                     \/ NotAnswered /\ Raise
  /\ UninstallPaths => (\E parts : Answered(parts)) \/ NotAnswered
BY DEF InstallPaths, UninstallPaths, GetApplicationPaths, Answered, NotAnswered

LEMMA AnswerIsTrue ==
  ASSUME Cached, NEW parts, Answered(parts)
  PROVE  Cached' /\ (~unverified' => parts = Parts(installed')) /\ (parts = Parts(installed') \/ installed' = {})
<1>1. CASE CachedPathsAreRight /\ UNCHANGED <<paths, sums>> /\ parts = paths[1]
  <2>1. Known(paths) /\ (verify /\ paths[1] # {} => paths[1] \subseteq Parts(installed))
    BY <1>1 DEF CachedPathsAreRight, Checked
  <2>2. /\ installed' = installed /\ unverified' = unverified /\ verify' = FALSE
        /\ paths' = paths /\ sums' = sums
    BY <1>1 DEF Answered
  <2>3. paths[1] = Parts(installed) \/ installed = {}
    BY <2>1 DEF Cached, SoundPaths
  <2>4. ~unverified => paths[1] = Parts(installed)
    BY <2>1, <2>3, NoParts DEF Cached, PackageCacheIsTrue
  <2>5. PackageCacheIsTrue'
    BY <2>1, <2>2, <2>4, NoParts DEF Cached, PackageCacheIsTrue, Known
  <2>6. SoundPaths(paths, installed)' /\ SoundSums(sums, installed)'
    BY <2>2 DEF Cached, SoundPaths, SoundSums, Known
  <2>. QED  BY <1>1, <2>2, <2>3, <2>4, <2>5, <2>6 DEF Cached
<1>2. CASE AskPackageManager /\ parts = Parts(installed)
  <2>1. /\ installed' = installed /\ unverified' = unverified /\ verify' = FALSE
        /\ paths' = <<Parts(installed)>> /\ (sums' = <<>> \/ (sums' = sums /\ ~Known(paths)))
    BY <1>2 DEF Answered, AskPackageManager
  <2>2. paths'[1] = Parts(installed)
    BY <2>1
  <2>3. PackageCacheIsTrue'
    BY <2>1, <2>2, NoParts DEF Cached, PackageCacheIsTrue, Known
  <2>4. SoundPaths(paths, installed)' /\ SoundSums(sums, installed)'
    BY <2>1, <2>2 DEF Cached, SoundPaths, SoundSums, Known
  <2>. QED  BY <1>2, <2>1, <2>3, <2>4 DEF Cached
<1>. QED  BY <1>1, <1>2 DEF Answered

LEMMA NoAnswerIsTrue == ASSUME Cached, NotAnswered PROVE Cached'
<1>1. /\ installed' = installed /\ paths' = paths /\ verify' = FALSE
      /\ ~unverified' => ~unverified /\ ~verify
      /\ sums' = sums \/ sums' = <<>>
  BY DEF NotAnswered
<1>2. PackageCacheIsTrue'
  BY <1>1 DEF Cached, PackageCacheIsTrue, Known
<1>. QED  BY <1>1, <1>2 DEF Cached, SoundPaths, SoundSums, Known

LEMMA Forgotten == ASSUME Forget PROVE Cached'
BY DEF Forget, ClearPkg, Cached, SoundPaths, SoundSums, PackageCacheIsTrue, Known

\* Steps of an install, each from what it may rely on.
LEMMA InstallPathsStep ==
  ASSUME Control, Packages, InstallPaths PROVE Packages'
<1>0. Cached /\ arg.want \in Wants
  BY DEF Packages, Cached, InstallPaths, Control, AtStep, Single, Asked, RebootSteps, Removal, PushSteps, Pushing
<1>1. ASSUME NEW parts, Answered(parts), ChooseAll(parts) PROVE Packages'
  <2>1. Cached' /\ (~unverified' => parts = Parts(installed'))
    BY <1>0, <1>1, AnswerIsTrue
  <2>2. CASE GotoWith("InstallRemove", [old |-> parts, stale |-> arg.want, host |-> <<>>])
    <3>1. /\ pc' = "InstallRemove" /\ arg' = arg
          /\ loc' = [old |-> parts, stale |-> arg.want, host |-> <<>>]
      BY <2>2 DEF GotoWith
    <3>2. Skips'
      BY <3>1 DEF Skips, Known
    <3>. QED  BY <2>1, <3>1, <3>2 DEF Packages, Cached
  <2>3. CASE GotoWith("InstallSums", [old |-> parts]) /\ parts # {}
    <3>1. pc' = "InstallSums" /\ loc' = [old |-> parts]
      BY <2>3 DEF GotoWith
    <3>2. ~unverified' => loc'.old = Parts(installed') /\ installed' # {}
      BY <2>1, <2>3, <3>1, NoParts
    <3>. QED  BY <2>1, <3>1, <3>2 DEF Packages, Cached, Choices
  <2>. QED  BY <1>1, <2>2, <2>3 DEF ChooseAll
<1>2. ASSUME NotAnswered, Raise PROVE Packages'
  <2>1. pc' = op \/ pc' = "none"
    BY <1>2, Paces DEF Again, Ends, On
  <2>2. pc' \notin Planned
    BY <2>1 DEF Planned, Choices, Control, AtStep, Single
  <2>. QED  BY <1>0, <1>2, <2>2, NoAnswerIsTrue DEF Packages, Cached, Planned, Choices
<1>. QED  BY <1>1, <1>2, Answers

LEMMA InstallSumsStep ==
  ASSUME Control, Packages, InstallSums PROVE Packages'
<1>. DEFINE read == {a \in installed : a.part \in loc.old}
<1>0. /\ Cached /\ arg.want \in Wants /\ pc = "InstallSums"
      /\ UNCHANGED <<installed, paths, verify, unverified>>
      /\ ~unverified => installed # {}
  BY DEF Packages, Cached, InstallSums, Control, AtStep, Single, Asked, RebootSteps, Removal, PushSteps, Pushing
<1>1. ASSUME sums' = sums \/ sums' = <<read>> PROVE Cached'
  <2>1. CASE sums' = sums
    BY <1>0, <2>1 DEF Cached, SoundPaths, SoundSums, PackageCacheIsTrue, Known
  <2>2. CASE sums' = <<read>>
    <3>1. sums'[1] \subseteq installed
      BY <2>2
    <3>. QED  BY <1>0, <3>1 DEF Cached, SoundPaths, SoundSums, PackageCacheIsTrue, Known
  <2>. QED  BY <1>1, <2>1, <2>2
<1>2. ASSUME NEW on, Stale(on), ~unverified \/ installed # {} => on \subseteq installed, Cached'
      PROVE  Packages'
  <2>. DEFINE rest == arg.want \ on
              some == IF arg.reinstall \/ rest = {} THEN rest ELSE arg.want
  <2>1. /\ pc' = "InstallRemove" /\ arg' = arg
        /\ loc' = [old |-> loc.old, host |-> <<arg.want>>, stale |-> some]
    BY <1>2 DEF Stale, GotoWith
  <2>2. loc'.stale = some /\ loc'.host = <<arg.want>>
    BY <2>1
  <2>3. ~unverified' \/ installed' # {} => arg.want \ some \subseteq installed'
    BY <1>0, <1>2
  <2>4. Skips'
    BY <2>1, <2>2, <2>3 DEF Skips
  <2>. QED  BY <1>2, <2>1, <2>4 DEF Packages, Cached
<1>3. ASSUME GotoWith("InstallRemove", [old |-> loc.old, stale |-> arg.want, host |-> <<>>]), Cached'
      PROVE  Packages'
  <2>1. /\ pc' = "InstallRemove" /\ arg' = arg
        /\ loc' = [old |-> loc.old, stale |-> arg.want, host |-> <<>>]
    BY <1>3 DEF GotoWith
  <2>2. Skips'
    BY <2>1 DEF Skips, Known
  <2>. QED  BY <1>3, <2>1, <2>2 DEF Packages, Cached
<1>4. CASE Known(sums) /\ UNCHANGED sums /\ Stale(sums[1])
  <2>1. ~unverified \/ installed # {} => sums[1] \subseteq installed
    BY <1>0, <1>4 DEF Cached, SoundSums
  <2>. QED  BY <1>1, <1>2, <1>4, <2>1
<1>5. CASE sums' = <<read>> /\ Stale(read)
  <2>1. read \subseteq installed
    OBVIOUS
  <2>. HIDE DEF read
  <2>. QED  BY <1>1, <1>2, <1>5, <2>1
<1>6. CASE UNCHANGED sums /\ Raise
  <2>1. pc' \notin Planned
    BY <1>6, Paces DEF Again, Ends, On, Planned, Choices, Control, AtStep, Single
  <2>. QED  BY <1>1, <1>6, <2>1 DEF Packages, Cached, Planned, Choices
<1>7. CASE /\ sums' \in {sums, IF Known(sums) THEN sums ELSE <<read>>}
           /\ GotoWith("InstallRemove", [old |-> loc.old, stale |-> arg.want, host |-> <<>>])
  BY <1>1, <1>3, <1>7
<1>. QED  BY <1>4, <1>5, <1>6, <1>7 DEF InstallSums

LEMMA InstallRemoveStep ==
  ASSUME Control, Packages, InstallRemove PROVE Packages'
<1>0. /\ Cached /\ Skips /\ pc = "InstallRemove" /\ UNCHANGED unverified
  BY DEF Packages, Cached, InstallRemove, Choices
<1>1. ASSUME Goto("InstallApks"), UNCHANGED installed, Cached' PROVE Packages'
  <2>1. pc' = "InstallApks" /\ arg' = arg /\ loc' = loc
    BY <1>1 DEF Goto, GotoWith
  <2>2. Skips'
    BY <1>0, <1>1, <2>1 DEF Skips, Known
  <2>. QED  BY <1>1, <2>1, <2>2 DEF Packages, Cached
<1>2. CASE loc.old # {} /\ loc.stale # {} /\ ~arg.reinstall
  <2>1. Forget /\ Adb(RemoveApp, UNCHANGED installed, Goto("InstallApks"))
    BY <1>2 DEF InstallRemove
  <2>2. CASE RemoveApp /\ Goto("InstallApks")
    <3>1. pc' = "InstallApks" /\ arg' = arg /\ loc' = loc
      BY <2>2 DEF Goto, GotoWith
    <3>2. loc.stale = arg.want
      BY <1>0, <1>2 DEF Skips
    <3>3. Skips'
      BY <1>0, <3>1, <3>2 DEF Skips, Known
    <3>. QED  BY <2>1, <3>1, <3>3, Forgotten DEF Packages, Cached
  <2>3. CASE Raise
    <3>1. pc' \notin Planned
      BY <2>3, Paces DEF Again, Ends, On, Planned, Choices, Control, AtStep, Single
    <3>. QED  BY <2>1, <3>1, Forgotten DEF Packages, Cached, Planned, Choices
  <2>. QED  BY <2>1, <2>2, <2>3 DEF Adb
<1>3. CASE UNCHANGED <<pkgCaches, installed>> /\ Goto("InstallApks")
  <2>1. Cached'
    BY <1>0, <1>3 DEF pkgCaches, Cached, SoundPaths, SoundSums, PackageCacheIsTrue, Known
  <2>. QED  BY <1>1, <1>3, <2>1
<1>. QED  BY <1>2, <1>3 DEF InstallRemove

\* What an adb install leaves has all that was asked for.
LEMMA PutIsWhole ==
  ASSUME arg.want \in Wants, Skips, PutApks(arg.want, loc.stale, arg.reinstall)
  PROVE  arg.want \subseteq installed'
<1>1. CASE loc.stale # arg.want
  <2>1. /\ installed # {}
        /\ installed' = {a \in installed : a.part \notin Parts(loc.stale)} \cup loc.stale
    BY <1>1 DEF PutApks
  <2>2. arg.want \ loc.stale \subseteq installed /\ loc.stale \subseteq arg.want
    BY <2>1 DEF Skips
  <2>3. ASSUME NEW a \in arg.want \ loc.stale PROVE a.part \notin Parts(loc.stale)
    BY <2>2, <2>3, WantParts DEF Parts
  <2>. QED  BY <2>1, <2>2, <2>3
<1>2. CASE loc.stale = arg.want
  BY <1>2 DEF PutApks
<1>. QED  BY <1>1, <1>2

LEMMA InstallApksStep ==
  ASSUME Control, Packages, InstallApks PROVE Packages'
<1>0. Cached /\ Skips /\ pc = "InstallApks" /\ UNCHANGED unverified /\ arg.want \in Wants
  BY DEF Packages, Cached, InstallApks, Choices, Control, AtStep, Single, Asked, RebootSteps, Removal,
         PushSteps, Pushing
<1>1. ASSUME Raise, Cached' PROVE Packages'
  <2>1. pc' \notin Planned
    BY <1>1, Paces DEF Again, Ends, On, Planned, Choices, Control, AtStep, Single
  <2>. QED  BY <1>1, <2>1 DEF Packages, Cached, Planned, Choices
<1>2. ASSUME Goto("GrantPermissions"), Cached',
             ~unverified' \/ installed' # {} => arg.want \subseteq installed'
      PROVE  Packages'
  <2>1. pc' = "GrantPermissions" /\ arg' = arg /\ loc' = loc
    BY <1>2 DEF Goto, GotoWith
  <2>. QED  BY <1>0, <1>2, <2>1 DEF Packages, Cached, Choices, Skips, Known
<1>3. CASE /\ Forget
           /\ Adb(PutApks(arg.want, loc.stale, arg.reinstall), UNCHANGED installed, Goto("GrantPermissions"))
  BY <1>0, <1>1, <1>2, <1>3, Forgotten, PutIsWhole DEF Adb
<1>4. CASE loc.stale = {} /\ UNCHANGED <<pkgCaches, installed>> /\ (Goto("GrantPermissions") \/ Raise)
  <2>1. Cached'
    BY <1>0, <1>4 DEF pkgCaches, Cached, SoundPaths, SoundSums, PackageCacheIsTrue, Known
  <2>2. ~unverified' \/ installed' # {} => arg.want \subseteq installed'
    BY <1>0, <1>4 DEF Skips
  <2>. QED  BY <1>1, <1>2, <1>4, <2>1, <2>2
<1>. QED  BY <1>3, <1>4 DEF InstallApks

LEMMA GrantPermissionsStep ==
  ASSUME Control, Packages, GrantPermissions PROVE Packages'
<1>0. /\ Cached /\ pc = "GrantPermissions" /\ UNCHANGED <<installed, paths, verify, unverified>>
      /\ ~unverified \/ installed # {} => arg.want \subseteq installed
      /\ Known(loc.host) => loc.host = <<arg.want>>
  BY DEF Packages, Cached, GrantPermissions
<1>1. sums' = sums \/ sums' = <<arg.want>>
  BY <1>0 DEF GrantPermissions
<1>2. Cached'
  <2>1. CASE sums' = sums
    BY <1>0, <2>1 DEF Cached, SoundPaths, SoundSums, PackageCacheIsTrue, Known
  <2>2. CASE sums' = <<arg.want>>
    <3>1. sums'[1] = arg.want
      BY <2>2
    <3>. QED  BY <1>0, <3>1 DEF Cached, SoundPaths, SoundSums, PackageCacheIsTrue, Known
  <2>. QED  BY <1>1, <2>1, <2>2
<1>3. pc' \notin Planned
  BY Paces DEF GrantPermissions, Again, Ends, On, Planned, Choices, Control, AtStep, Single
<1>. QED  BY <1>2, <1>3 DEF Packages, Cached, Planned, Choices

LEMMA PackagesStep == ASSUME Control, Tokens, Dumps, Packages, [Next]_vars PROVE Packages'
<1>0. Cached /\ op \notin Planned /\ "none" \notin Planned
  BY DEF Packages, Cached, Control, AtStep, Single, Planned, Choices
<1>1. ASSUME UNCHANGED pkgVars PROVE Cached'
  BY <1>0, <1>1 DEF pkgVars, pkgCaches, Cached, SoundPaths, SoundSums, PackageCacheIsTrue, Known
<1>2. ASSUME Cached', pc' \notin Planned PROVE Packages'
  BY <1>2 DEF Packages, Cached, Planned, Choices
<1>3. Again \/ Ends => pc' \notin Planned
  BY <1>0 DEF Again, Ends, On
<1>4. CASE Calls /\ UNCHANGED pkgVars
  <2>1. pc' \notin Planned
    BY <1>4, CallPaces DEF Methods, Planned, Choices
  <2>. QED  BY <1>1, <1>2, <1>4, <2>1
<1>5. CASE StateStep /\ UNCHANGED pkgVars
  <2>1. pc' \notin Planned
    BY <1>3, <1>5, StatePaces DEF On, Planned, Choices
  <2>. QED  BY <1>1, <1>2, <1>5, <2>1
<1>6. CASE Install \/ Uninstall
  <2>1. pc' \notin Planned
    BY <1>3, <1>6, Ensures, Paces DEF On, Planned, Choices
  <2>2. UNCHANGED pkgVars
    BY <1>6 DEF Install, Uninstall
  <2>. QED  BY <1>1, <1>2, <2>1, <2>2
<1>7. CASE InstallPaths \/ InstallSums \/ InstallRemove \/ InstallApks \/ GrantPermissions
  BY <1>7, InstallPathsStep, InstallSumsStep, InstallRemoveStep, InstallApksStep, GrantPermissionsStep
<1>8. CASE UninstallPaths
  <2>1. Cached'
    BY <1>0, <1>8, Answers, AnswerIsTrue, NoAnswerIsTrue
  <2>2. pc' \notin Planned
    BY <1>3, <1>8, PathsPaces DEF On, Planned, Choices
  <2>. QED  BY <1>2, <2>1, <2>2
<1>9. CASE UninstallApp
  <2>1. Cached'
    BY <1>9, Forgotten DEF UninstallApp
  <2>2. pc' \notin Planned
    BY <1>3, <1>9, Paces DEF UninstallApp, Adb
  <2>. QED  BY <1>2, <2>1, <2>2
<1>10. CASE FilesStep
  <2>1. UNCHANGED pkgVars
    BY <1>10 DEF FilesStep, PushChangedFiles, Checksums, RemoveStale, PushFiles, PushOne, PushZipped, Commit,
                 WriteFile, RemovePath
  <2>2. pc' \notin Planned
    BY <1>3, <1>10, FilesPaces DEF On, Pushing, Planned, Choices
  <2>. QED  BY <1>1, <1>2, <2>1, <2>2
<1>11. CASE Reboot
  <2>1. pc' \notin Planned
    BY <1>3, <1>11, OtherPaces DEF On, Planned, Choices
  <2>2. Cached'
    <3>1. CASE ClearCache
      BY <3>1, Forgotten DEF ClearCache, Forget
    <3>2. CASE KeepCache
      BY <1>1, <1>11, <3>2 DEF KeepCache, Reboot, pkgVars
    <3>. QED  BY <1>11, <3>1, <3>2 DEF Reboot
  <2>. QED  BY <1>2, <2>1, <2>2
<1>12. CASE DumpCacheData \/ LoadCacheData \/ DumpObject
  <2>1. pc' \notin Planned
    BY <1>3, <1>12, OtherPaces DEF On, Planned, Choices
  <2>2. UNCHANGED pkgVars
    BY <1>12 DEF DumpCacheData, LoadCacheData, DumpObject
  <2>. QED  BY <1>1, <1>2, <2>1, <2>2
<1>13. CASE LoadObject
  <2>1. pc' \notin Planned
    BY <1>3, <1>13, OtherPaces
  <2>2. CASE UNCHANGED pkgCaches
    BY <1>1, <1>2, <1>13, <2>1, <2>2 DEF LoadObject, pkgVars
  <2>3. CASE prevToken = dumpToken
    <3>1. Known(dump) /\ calls = 0 /\ token # 0
      BY <1>13 DEF LoadObject, Control, AtStep, Single, RebootSteps, InstallSteps, Choices, Removal,
                   PushSteps, Pushing, Tokens, Armed
    <3>2. DumpIsTrue
      BY <2>3, <3>1 DEF Dumps
    <3>3. /\ paths' = dump.paths /\ sums' = dump.sums /\ verify' = Known(dump.paths)
          /\ UNCHANGED <<installed, unverified>>
      BY <1>13, <2>3 DEF LoadObject
    <3>4. SoundPaths(paths, installed)' /\ SoundSums(sums, installed)'
      BY <3>2, <3>3 DEF DumpIsTrue, SoundPaths, SoundSums, Known
    <3>5. PackageCacheIsTrue'
      BY <3>2, <3>3 DEF DumpIsTrue, SoundSums, PackageCacheIsTrue, Known
    <3>. QED  BY <1>2, <2>1, <3>4, <3>5 DEF Cached
  <2>. QED  BY <1>13, <2>2, <2>3 DEF LoadObject
<1>14. CASE Session
  <2>1. Forget /\ pc' = "none"
    BY <1>14 DEF Session, ClearCache, Forget
  <2>. QED  BY <1>0, <1>2, <2>1, Forgotten
<1>15. CASE (Boot \/ HostEdit \/ UNCHANGED vars) /\ UNCHANGED pkgVars
  <2>1. UNCHANGED <<pc, arg, loc>>
    BY <1>15 DEF Boot, HostEdit, vars, callVars
  <2>2. UNCHANGED <<installed, paths, sums, verify, unverified>>
    BY <1>15 DEF pkgVars, pkgCaches
  <2>. QED  BY <1>1, <1>15, <2>1, <2>2 DEF Packages, Cached, Skips, Known
<1>. QED
  BY <1>4, <1>5, <1>6, <1>7, <1>8, <1>9, <1>10, <1>11, <1>12, <1>13, <1>14, <1>15
     DEF Next, PkgStep, HostEdit, vars

\* ---------------------------------------------------------------- files
\* How a step leaves a call, and what that says of the last one.
LEMMA Lasts ==
  /\ Raise => op' = op \/ (op' = "none" /\ last'.how = "raised")
  /\ Return => op' = "none" /\ last'.op = op
  /\ \A l : Goto(l) => op' = op
  /\ \A l, f : GotoWith(l, f) => op' = op
BY DEF Raise, Return, End, Goto, GotoWith

\* After such a step no PushChangedFiles has just returned.
Elsewhere == \/ op' # "none"
             \/ last'.op # "PushChangedFiles"
             \/ last'.how = "raised"

LEMMA NotReturned == Elsewhere => PushMakesEqual'
BY DEF Elsewhere, PushMakesEqual, Idle, Failed

\* The device's files change only where that is written down.
LEMMA StillSound ==
  ASSUME SoundFiles(filesCache, touched, dev), UNCHANGED filesCache, touched \subseteq touched',
         \A f \in File \ touched' : dev'[f] = dev[f]
  PROVE  SoundFiles(filesCache, touched, dev)'
<1>1. ASSUME Known(filesCache) PROVE \A f \in File \ touched' :
         filesCache[2][f] = dev'[f] \/ (filesCache[1] = TRUE /\ filesCache[2][f] = None)
  BY <1>1 DEF SoundFiles
<1>. QED  BY <1>1 DEF SoundFiles, Known

LEMMA Overs ==
  /\ \A f, S, g : \A x \in File : Over(f, S, g)[x] = IF x \in S THEN g[x] ELSE f[x]
  /\ \A S \in SUBSET File : \A f, g \in [File -> Content] : Over(f, S, g) \in [File -> Content]
BY DEF Over

LEMMA HasNot == /\ Has(host) \subseteq File
                /\ \A f \in File : f \in Has(host) <=> host[f] # None
                /\ [f \in File |-> None] \in [File -> Content]
BY DEF Has, Content

\* The sums that were compared decide what is pushed.
LEMMA Compared ==
  ASSUME Control, Files, NEW on, pc = "Checksums", Compare(on), UNCHANGED <<host, dev>>,
         \A f \in Has(host) : on[f] = host[f] => dev[f] = host[f] \/ f \in touched',
         arg.stale => \A f \in File : on[f] = dev[f] \/ f \in touched'
  PROVE  Pushes' /\ pc' = "RemoveStale" /\ op' = op
<1>. DEFINE diff == {f \in Has(host) : on[f] # host[f]}
            gone == IF arg.stale THEN Has(on) \ Has(host) ELSE {}
<1>0. /\ pc' = "RemoveStale" /\ op' = op /\ arg' = arg
      /\ loc' = [push |-> diff, sent |-> diff, delete |-> gone, commit |-> <<~arg.stale, host>>]
  BY DEF Compare, GotoWith
<1>1. arg.stale \in BOOLEAN
  BY DEF Control, AtStep, Single, RebootSteps, InstallSteps, Choices, Removal, Asked
<1>2. /\ diff \subseteq Has(host) /\ gone \subseteq File \ Has(host) /\ Has(host) \subseteq File
      /\ \A f \in Has(host) \ diff : on[f] = host[f]
      /\ arg.stale => \A f \in File \ (Has(host) \cup gone) : on[f] = None
  BY DEF Has
<1>3. Has(host)' = Has(host)
  BY DEF Has
<1>. HIDE DEF diff, gone
<1>4. /\ loc'.push = diff /\ loc'.sent = diff /\ loc'.delete = gone /\ loc'.commit = <<~arg.stale, host>>
  BY <1>0
<1>5. Left' = diff
  BY <1>0, <1>4 DEF Left
<1>6. <<~arg.stale, host>> \in BOOLEAN \X [File -> Content]
  BY <1>1 DEF Files
<1>7. loc' \in Locals
  BY <1>0, <1>2, <1>6 DEF Locals
<1>8. Known(loc'.commit)
  BY <1>4 DEF Known
<1>9. /\ loc'.push \subseteq Has(host)' /\ loc'.sent \subseteq Has(host)' /\ loc'.delete \subseteq File \ Has(host)'
  BY <1>2, <1>3, <1>4
<1>10. \A f \in Has(host)' \ Left' : dev'[f] = host'[f] \/ (f \in touched' /\ f \notin loc'.sent)
  BY <1>2, <1>3, <1>4, <1>5
<1>11. loc'.commit = <<~arg'.stale, host'>>
  BY <1>0, <1>4
<1>12. arg'.stale => \A f \in File \ (Has(host)' \cup loc'.delete) : dev'[f] = None \/ f \in touched'
  BY <1>0, <1>2, <1>3, <1>4
<1>13. Pushes'
  BY <1>0, <1>7, <1>8, <1>9, <1>10, <1>11, <1>12 DEF Pushes, Known
<1>. QED  BY <1>0, <1>13

LEMMA ChecksumsStep == ASSUME Control, Files, Checksums PROVE Files'
<1>. DEFINE cached == UseFilesCache /\ Known(filesCache) /\ filesCache[1] = ~arg.stale
            none == [f \in File |-> None]
            read == IF arg.stale THEN dev ELSE Over(none, Has(host), dev)
<1>0. /\ pc = "Checksums" /\ UNCHANGED <<host, dev>> /\ arg.stale \in BOOLEAN /\ op = "PushChangedFiles"
      /\ host \in [File -> Content] /\ dev \in [File -> Content]
      /\ SoundFiles(filesCache, touched, dev)
  BY DEF Checksums, Control, AtStep, Single, RebootSteps, InstallSteps, Choices, Removal, Asked, Files
<1>1. /\ \A f \in Has(host) : read[f] = dev[f]
      /\ \A f \in File : read[f] = dev[f] \/ (~arg.stale /\ read[f] = None)
  BY <1>0, Overs, HasNot
<1>2. SoundFiles(<<~arg.stale, read>>, {}, dev) /\ SoundFiles(<<~arg.stale, read>>, touched, dev)
  BY <1>0, <1>1 DEF SoundFiles
<1>3. ASSUME NEW on, Compare(on), SoundFiles(filesCache, touched, dev)',
             \A f \in Has(host) : on[f] = host[f] => dev[f] = host[f] \/ f \in touched',
             arg.stale => \A f \in File : on[f] = dev[f] \/ f \in touched'
      PROVE  Files'
  <2>1. Pushes' /\ pc' = "RemoveStale" /\ op' = "PushChangedFiles"
    BY <1>0, <1>3, Compared
  <2>. QED  BY <1>0, <1>3, <2>1, NotReturned DEF Files, Elsewhere
<1>4. CASE cached /\ UNCHANGED <<filesCache, touched>> /\ Compare(filesCache[2])
  <2>1. SoundFiles(filesCache, touched, dev)'
    BY <1>0, <1>4, StillSound
  <2>2. \A f \in File \ touched : filesCache[2][f] = dev[f] \/ (filesCache[1] = TRUE /\ filesCache[2][f] = None)
    BY <1>0, <1>4 DEF SoundFiles
  <2>3. \A f \in Has(host) : filesCache[2][f] = host[f] => dev[f] = host[f] \/ f \in touched'
    BY <1>4, <2>2, HasNot
  <2>4. arg.stale => \A f \in File : filesCache[2][f] = dev[f] \/ f \in touched'
    BY <1>0, <1>4, <2>2
  <2>. QED  BY <1>3, <1>4, <2>1, <2>3, <2>4
<1>. HIDE DEF read, cached
<1>5. CASE filesCache' = <<~arg.stale, read>> /\ touched' = {} /\ Compare(read)
  <2>1. SoundFiles(filesCache, touched, dev)'
    BY <1>0, <1>2, <1>5 DEF SoundFiles
  <2>2. \A f \in Has(host) : read[f] = host[f] => dev[f] = host[f] \/ f \in touched'
    BY <1>1
  <2>3. arg.stale => \A f \in File : read[f] = dev[f] \/ f \in touched'
    BY <1>1
  <2>. QED  BY <1>3, <1>5, <2>1, <2>2, <2>3
<1>6. CASE UNCHANGED <<filesCache, touched>> /\ Raise
  <2>1. SoundFiles(filesCache, touched, dev)'
    BY <1>0, <1>6, StillSound
  <2>2. Elsewhere /\ pc' \notin Pushing
    BY <1>0, <1>6, Lasts, Paces DEF Elsewhere, Again, Ends, On, Pushing
  <2>. QED  BY <1>0, <2>1, <2>2, NotReturned DEF Files
<1>7. CASE /\ filesCache' \in {filesCache, <<~arg.stale, read>>} /\ UNCHANGED touched
           /\ GotoWith("RemoveStale", [push |-> Has(host), sent |-> {}, delete |-> {}, commit |-> <<>>])
  <2>1. SoundFiles(filesCache, touched, dev)'
    <3>1. CASE filesCache' = filesCache
      BY <1>0, <1>7, <3>1, StillSound
    <3>2. CASE filesCache' = <<~arg.stale, read>>
      BY <1>0, <1>2, <1>7, <3>2 DEF SoundFiles
    <3>. QED  BY <1>7, <3>1, <3>2
  <2>2. /\ pc' = "RemoveStale" /\ op' = "PushChangedFiles" /\ arg' = arg
        /\ loc' = [push |-> Has(host), sent |-> {}, delete |-> {}, commit |-> <<>>]
    BY <1>0, <1>7 DEF GotoWith
  <2>3. loc'.push = Has(host) /\ loc'.sent = {} /\ loc'.delete = {} /\ loc'.commit = <<>> /\ Has(host)' = Has(host)
    BY <1>0, <2>2 DEF Has
  <2>4. loc' \in Locals
    BY <2>2, HasNot DEF Locals
  <2>5. Pushes'
    BY <2>2, <2>3, <2>4 DEF Pushes, Left, Known
  <2>. QED  BY <1>0, <2>1, <2>2, <2>5, NotReturned DEF Files, Elsewhere
<1>. QED  BY <1>4, <1>5, <1>6, <1>7 DEF Checksums, cached, read

\* The device's files after a step that wrote some of the host's, or removed stale ones.
LEMMA PushesOn ==
  ASSUME Files, pc \in Pushing, NEW S \in SUBSET File, NEW g \in [File -> Content],
         dev' = Over(dev, S, g), touched' = touched \cup S, UNCHANGED <<host, filesCache>>
  PROVE  /\ host' \in [File -> Content] /\ dev' \in [File -> Content]
         /\ SoundFiles(filesCache, touched, dev)'
<1>1. dev' \in [File -> Content] /\ \A f \in File : dev'[f] = IF f \in S THEN g[f] ELSE dev[f]
  BY DEF Files, Over
<1>2. touched \subseteq touched' /\ \A f \in File \ touched' : dev'[f] = dev[f]
  BY <1>1
<1>. QED  BY <1>1, <1>2, StillSound DEF Files

\* No file of a push in progress is lost by one that raises.
LEMMA PushRaises ==
  ASSUME Control, op = "PushChangedFiles", Raise, host' \in [File -> Content], dev' \in [File -> Content],
         SoundFiles(filesCache, touched, dev)'
  PROVE  Files'
<1>1. Elsewhere /\ pc' \notin Pushing
  BY Lasts, Paces DEF Elsewhere, Again, Ends, On, Pushing
<1>. QED  BY <1>1, NotReturned DEF Files

LEMMA AtPushing == ASSUME Control, pc \in Pushing PROVE op = "PushChangedFiles" /\ arg.stale \in BOOLEAN
BY DEF Control, AtStep, Single, RebootSteps, InstallSteps, Choices, Removal, Asked, Pushing

LEMMA RemoveStaleStep == ASSUME Control, Files, RemoveStale PROVE Files'
<1>. DEFINE none == [f \in File |-> None]
<1>0. /\ pc = "RemoveStale" /\ Pushes /\ op = "PushChangedFiles" /\ arg.stale \in BOOLEAN
      /\ UNCHANGED <<host, filesCache>> /\ touched' = touched \cup loc.delete
      /\ loc.delete \in SUBSET File /\ none \in [File -> Content] /\ dev \in [File -> Content]
  BY AtPushing, HasNot DEF RemoveStale, Files, Pushing, Pushes
<1>1. CASE dev' = Over(dev, loc.delete, none)
  <2>1. /\ host' \in [File -> Content] /\ dev' \in [File -> Content] /\ SoundFiles(filesCache, touched, dev)'
    BY <1>0, <1>1, PushesOn DEF Pushing
  <2>2. CASE Goto("PushFiles")
    <3>1. pc' = "PushFiles" /\ op' = op /\ arg' = arg /\ loc' = loc
      BY <2>2 DEF Goto, GotoWith
    <3>2. \A f \in File : dev'[f] = IF f \in loc.delete THEN None ELSE dev[f]
      BY <1>0, <1>1, Overs
    <3>3. Has(host)' = Has(host) /\ Has(host) \subseteq File
      BY <1>0 DEF Has
    <3>4. Left = loc.push /\ Left' = loc.push
      BY <1>0, <3>1 DEF Left
    <3>5. /\ \A f \in Has(host)' \ Left' : dev'[f] = host'[f] \/ (f \in touched' /\ f \notin loc'.sent)
          /\ \A f \in loc'.delete : dev'[f] = None
      BY <1>0, <3>1, <3>2, <3>3, <3>4 DEF Pushes
    <3>6. Known(loc'.commit) =>
            /\ loc'.commit = <<~arg'.stale, host'>>
            /\ arg'.stale => \A f \in File \ (Has(host)' \cup loc'.delete) : dev'[f] = None \/ f \in touched'
      BY <1>0, <3>1, <3>2, <3>3 DEF Pushes
    <3>7. Pushes'
      BY <1>0, <3>1, <3>3, <3>5, <3>6 DEF Pushes, Known
    <3>. QED  BY <1>0, <2>1, <3>1, <3>7, NotReturned DEF Files, Elsewhere
  <2>3. CASE Raise
    BY <1>0, <2>1, <2>3, PushRaises
  <2>. QED  BY <2>2, <2>3, <1>1 DEF RemoveStale, Adb
<1>2. CASE UNCHANGED dev /\ Raise
  <2>1. SoundFiles(filesCache, touched, dev)'
    BY <1>0, <1>2, StillSound DEF Files
  <2>. QED  BY <1>0, <1>2, <2>1, PushRaises DEF Files
<1>. QED  BY <1>1, <1>2 DEF RemoveStale, Adb

LEMMA PushFilesStep == ASSUME Control, Files, PushFiles PROVE Files'
<1>0. /\ pc = "PushFiles" /\ Pushes /\ op = "PushChangedFiles"
      /\ UNCHANGED <<host, dev, filesCache, touched>>
  BY AtPushing DEF PushFiles, Files, Pushing, fileVars
<1>1. /\ pc' \in {"Commit", "PushOne", "PushZipped"} /\ (pc' = "Commit" => loc.push = {})
      /\ op' = op /\ arg' = arg /\ loc' = loc
  BY DEF PushFiles, Goto, GotoWith
<1>2. Left' = loc.push /\ Left = loc.push
  BY <1>0, <1>1 DEF Left
<1>3. Pushes'
  BY <1>0, <1>1, <1>2 DEF Pushes, Has, Known
<1>4. SoundFiles(filesCache, touched, dev)'
  BY <1>0, StillSound DEF Files
<1>. QED  BY <1>0, <1>1, <1>3, <1>4, NotReturned DEF Files, Elsewhere

LEMMA PushOneStep == ASSUME Control, Files, PushOne PROVE Files'
<1>0. /\ pc = "PushOne" /\ Pushes /\ op = "PushChangedFiles"
      /\ UNCHANGED <<host, filesCache>> /\ host \in [File -> Content] /\ dev \in [File -> Content]
  BY AtPushing DEF PushOne, Files, Pushing
<1>1. PICK f \in loc.push :
        LET rest == [loc EXCEPT !.push = loc.push \ {f}]
        IN  /\ Adb(dev' = [dev EXCEPT ![f] = host[f]], UNCHANGED dev,
                   GotoWith(IF rest.push = {} THEN "Commit" ELSE "PushOne", rest))
            /\ touched' = touched \cup {f}
  BY DEF PushOne
<1>. DEFINE rest == [loc EXCEPT !.push = loc.push \ {f}]
<1>2. f \in File /\ f \in Has(host) /\ Has(host) \subseteq File /\ {f} \in SUBSET File
  BY <1>0, HasNot DEF Pushes
<1>3. /\ rest \in Locals /\ rest.push = loc.push \ {f} /\ rest.sent = loc.sent
      /\ rest.delete = loc.delete /\ rest.commit = loc.commit
  BY <1>0 DEF Pushes, Locals
<1>. HIDE DEF rest
<1>4. CASE dev' = [dev EXCEPT ![f] = host[f]]
  <2>1. /\ dev' = Over(dev, {f}, host)
        /\ \A x \in File : dev'[x] = IF x = f THEN host[f] ELSE dev[x]
    BY <1>0, <1>2, <1>4 DEF Over
  <2>2. /\ host' \in [File -> Content] /\ dev' \in [File -> Content] /\ SoundFiles(filesCache, touched, dev)'
    BY <1>0, <1>1, <1>2, <2>1, PushesOn DEF Pushing
  <2>3. CASE GotoWith(IF rest.push = {} THEN "Commit" ELSE "PushOne", rest)
    <3>1. /\ pc' \in {"Commit", "PushOne"} /\ (pc' = "Commit" => rest.push = {})
          /\ op' = op /\ arg' = arg /\ loc' = rest
      BY <2>3 DEF GotoWith
    <3>2. Left = loc.push /\ Left' = loc.push \ {f} /\ Has(host)' = Has(host)
      BY <1>0, <1>3, <3>1 DEF Left, Has
    <3>3. \A x \in Has(host)' \ Left' : dev'[x] = host'[x] \/ (x \in touched' /\ x \notin loc'.sent)
      BY <1>0, <1>1, <1>2, <1>3, <2>1, <3>1, <3>2 DEF Pushes
    <3>4. \A x \in loc'.delete : dev'[x] = None
      BY <1>0, <1>2, <1>3, <2>1, <3>1 DEF Pushes
    <3>5. Known(loc'.commit) =>
            /\ loc'.commit = <<~arg'.stale, host'>>
            /\ arg'.stale => \A x \in File \ (Has(host)' \cup loc'.delete) : dev'[x] = None \/ x \in touched'
      BY <1>0, <1>1, <1>2, <1>3, <2>1, <3>1, <3>2 DEF Pushes
    <3>6. Pushes'
      BY <1>0, <1>3, <3>1, <3>2, <3>3, <3>4, <3>5 DEF Pushes, Known
    <3>. QED  BY <1>0, <2>2, <3>1, <3>6, NotReturned DEF Files, Elsewhere
  <2>4. CASE Raise
    BY <1>0, <2>2, <2>4, PushRaises
  <2>. QED  BY <1>1, <1>4, <2>3, <2>4 DEF Adb, rest
<1>5. CASE UNCHANGED dev /\ Raise
  <2>1. SoundFiles(filesCache, touched, dev)'
    BY <1>0, <1>1, <1>5, StillSound DEF Files
  <2>. QED  BY <1>0, <1>5, <2>1, PushRaises DEF Files
<1>. QED  BY <1>1, <1>4, <1>5 DEF Adb, rest

LEMMA PushZippedStep == ASSUME Control, Files, PushZipped PROVE Files'
<1>0. /\ pc = "PushZipped" /\ Pushes /\ op = "PushChangedFiles"
      /\ UNCHANGED <<host, filesCache>> /\ host \in [File -> Content] /\ dev \in [File -> Content]
      /\ Has(host)' = Has(host) /\ Has(host) \subseteq File /\ loc.push \in SUBSET File
  BY AtPushing, HasNot DEF PushZipped, Files, Pushing, Has, Pushes
<1>1. CASE UNCHANGED <<dev, touched>> /\ (Goto("PushOne") \/ Raise)
  <2>1. SoundFiles(filesCache, touched, dev)'
    BY <1>0, <1>1, StillSound DEF Files
  <2>2. CASE Goto("PushOne")
    <3>1. pc' = "PushOne" /\ op' = op /\ arg' = arg /\ loc' = loc
      BY <2>2 DEF Goto, GotoWith
    <3>2. Left' = loc.push /\ Left = loc.push
      BY <1>0, <3>1 DEF Left
    <3>3. Pushes'
      BY <1>0, <1>1, <3>1, <3>2 DEF Pushes, Known
    <3>. QED  BY <1>0, <1>1, <2>1, <3>1, <3>3, NotReturned DEF Files, Elsewhere
  <2>3. CASE Raise
    BY <1>0, <1>1, <2>1, <2>3, PushRaises
  <2>. QED  BY <1>1, <2>2, <2>3
<1>2. CASE dev' = Over(dev, loc.push, host) /\ touched' = touched \cup loc.push /\ Goto("Commit")
  <2>1. /\ host' \in [File -> Content] /\ dev' \in [File -> Content] /\ SoundFiles(filesCache, touched, dev)'
    BY <1>0, <1>2, PushesOn DEF Pushing
  <2>2. pc' = "Commit" /\ op' = op /\ arg' = arg /\ loc' = loc
    BY <1>2 DEF Goto, GotoWith
  <2>3. \A x \in File : dev'[x] = IF x \in loc.push THEN host[x] ELSE dev[x]
    BY <1>2, Overs
  <2>4. Left = loc.push /\ Left' = {}
    BY <1>0, <2>2 DEF Left
  <2>5. \A x \in Has(host)' \ Left' : dev'[x] = host'[x] \/ (x \in touched' /\ x \notin loc'.sent)
    BY <1>0, <1>2, <2>2, <2>3, <2>4 DEF Pushes
  <2>6. \A x \in loc'.delete : dev'[x] = None
    BY <1>0, <2>2, <2>3 DEF Pushes
  <2>7. Known(loc'.commit) =>
          /\ loc'.commit = <<~arg'.stale, host'>>
          /\ arg'.stale => \A x \in File \ (Has(host)' \cup loc'.delete) : dev'[x] = None \/ x \in touched'
    BY <1>0, <1>2, <2>2, <2>3 DEF Pushes
  <2>8. Pushes'
    BY <1>0, <2>2, <2>5, <2>6, <2>7 DEF Pushes, Known
  <2>. QED  BY <1>0, <2>1, <2>2, <2>8, NotReturned DEF Files, Elsewhere
<1>3. ASSUME NEW S \in SUBSET loc.push, dev' = Over(dev, S, host), touched' = touched \cup S, Raise
      PROVE  Files'
  <2>1. /\ host' \in [File -> Content] /\ dev' \in [File -> Content] /\ SoundFiles(filesCache, touched, dev)'
    BY <1>0, <1>3, PushesOn DEF Pushing
  <2>. QED  BY <1>0, <1>3, <2>1, PushRaises
<1>. QED  BY <1>1, <1>2, <1>3 DEF PushZipped

\* What Commit writes down is on the device.
LEMMA CommitStep == ASSUME Control, Files, Commit PROVE Files'
<1>0. /\ pc = "Commit" /\ Pushes /\ op = "PushChangedFiles" /\ arg.stale \in BOOLEAN
      /\ UNCHANGED <<host, dev>> /\ touched' = touched \ (loc.sent \cup loc.delete)
      /\ host \in [File -> Content] /\ dev \in [File -> Content]
      /\ SoundFiles(filesCache, touched, dev) /\ Left = {}
  BY AtPushing DEF Commit, Files, Pushing, Left
<1>1. /\ op' = "none" /\ pc' = "none"
      /\ last' = [op |-> op, how |-> IF arg.stale /\ Known(loc.commit) THEN "mirrored" ELSE "ok"]
  BY DEF Commit, End
<1>2. \A f \in Has(host) \ touched' : dev[f] = host[f]
  BY <1>0 DEF Pushes
<1>3. arg.stale /\ Known(loc.commit) => \A f \in File \ (Has(host) \cup touched') : dev[f] = None
  BY <1>0 DEF Pushes
<1>4. PushMakesEqual'
  <2>1. last'.how = "mirrored" => arg.stale /\ Known(loc.commit)
    BY <1>1
  <2>2. last'.how = "mirrored" => Has(dev) \ touched' \subseteq Has(host)
    BY <1>3, <2>1 DEF Has
  <2>. QED  BY <1>0, <1>2, <2>2 DEF PushMakesEqual, Has
<1>5. SoundFiles(filesCache, touched, dev)'
  <2>1. CASE Known(loc.commit)
    <3>1. filesCache' = <<~arg.stale, host>> /\ loc.commit = <<~arg.stale, host>>
      BY <1>0, <2>1 DEF Commit, Pushes
    <3>2. filesCache'[1] = ~arg.stale /\ filesCache'[2] = host
      BY <3>1
    <3>3. ASSUME NEW f \in File \ touched'
          PROVE  host[f] = dev[f] \/ (~arg.stale /\ host[f] = None)
      <4>1. CASE f \in Has(host)
        BY <1>2, <3>3, <4>1
      <4>2. CASE f \notin Has(host) /\ arg.stale
        BY <1>3, <2>1, <3>3, <4>2, HasNot
      <4>3. CASE f \notin Has(host) /\ ~arg.stale
        BY <3>3, <4>3, HasNot
      <4>. QED  BY <1>0, <4>1, <4>2, <4>3
    <3>. QED  BY <1>0, <3>2, <3>3 DEF SoundFiles
  <2>2. CASE ~Known(loc.commit)
    <3>1. UNCHANGED <<filesCache, touched>>
      BY <1>0, <2>2 DEF Commit, Pushes
    <3>. QED  BY <1>0, <3>1, StillSound
  <2>. QED  BY <2>1, <2>2
<1>. QED  BY <1>0, <1>1, <1>4, <1>5 DEF Files, Pushing

LEMMA WriteStep == ASSUME Control, Files, WriteFile \/ RemovePath PROVE Files'
<1>0. /\ op \in {"WriteFile", "RemovePath"} /\ arg.f \in File /\ UNCHANGED <<host, filesCache>>
      /\ touched' = touched \cup {arg.f} /\ host \in [File -> Content] /\ dev \in [File -> Content]
      /\ SoundFiles(filesCache, touched, dev)
  BY DEF WriteFile, RemovePath, Files, Control, AtStep, Single, RebootSteps, InstallSteps, Choices, Removal,
         PushSteps, Pushing, Asked
<1>1. /\ \/ \E v \in Content : dev' = [dev EXCEPT ![arg.f] = v]
         \/ dev' = dev
      /\ Raise \/ Return
  BY DEF WriteFile, RemovePath, Adb, Content
<1>2. dev' \in [File -> Content] /\ \A f \in File \ touched' : dev'[f] = dev[f]
  BY <1>0, <1>1
<1>3. SoundFiles(filesCache, touched, dev)'
  BY <1>0, <1>2, StillSound
<1>4. Elsewhere /\ pc' \notin Pushing
  BY <1>0, <1>1, Lasts, Paces DEF Elsewhere, Again, Ends, On, Pushing
<1>. QED  BY <1>0, <1>2, <1>3, <1>4, NotReturned DEF Files

LEMMA FilesKept == ASSUME Control, Tokens, Dumps, Files, [Next]_vars PROVE Files'
<1>. DEFINE here == <<host, dev, filesCache, touched>>
<1>0. /\ host \in [File -> Content] /\ dev \in [File -> Content]
      /\ SoundFiles(filesCache, touched, dev)
      /\ op \notin Pushing /\ "none" \notin Pushing
  BY DEF Files, Control, AtStep, Single, Pushing
<1>1. ASSUME UNCHANGED here, pc' \notin Pushing, Elsewhere PROVE Files'
  <2>1. SoundFiles(filesCache, touched, dev)'
    BY <1>0, <1>1, StillSound
  <2>. QED  BY <1>0, <1>1, <2>1, NotReturned DEF Files
<1>2. Again \/ Ends => pc' \notin Pushing
  BY <1>0 DEF Again, Ends, On
<1>3. pc # "none" /\ pc \notin PushSteps => op # "none" /\ op # "PushChangedFiles"
  BY DEF Control, AtStep, Single, RebootSteps, InstallSteps, Choices, Removal, PushSteps, Pushing
<1>4. ASSUME pc # "none", pc \notin PushSteps, Raise \/ Return \/ op' = op PROVE Elsewhere
  BY <1>3, <1>4, Lasts DEF Elsewhere
<1>5. CASE Calls /\ UNCHANGED fileVars
  <2>1. pc' \notin Pushing /\ op' # "none"
    BY <1>5, CallPaces DEF Methods, Pushing
  <2>. QED  BY <1>1, <1>5, <2>1 DEF Elsewhere, fileVars
<1>6. CASE StateStep /\ UNCHANGED fileVars
  <2>1. pc' \notin Pushing
    BY <1>2, <1>6, StatePaces DEF On, Pushing
  <2>2. pc # "none" /\ pc \notin PushSteps /\ (Raise \/ Return \/ op' = op)
    <3>1. CASE GetPropCached \/ WaitUntilFullyBooted
      BY <3>1, Ensures, Lasts DEF GetPropCached, WaitUntilFullyBooted, PushSteps, Pushing
    <3>2. CASE GetProp \/ SetProp \/ NeedsSU \/ EnableRoot \/ HasRoot \/ DeviceOffline \/ BootCompleted
      BY <3>2, Lasts DEF GetProp, SetProp, NeedsSU, EnableRoot, HasRoot, DeviceOffline, BootCompleted,
                         PushSteps, Pushing
    <3>. QED  BY <1>6, <3>1, <3>2 DEF StateStep
  <2>. QED  BY <1>1, <1>4, <1>6, <2>1, <2>2 DEF fileVars
<1>7. CASE PkgStep /\ UNCHANGED fileVars
  <2>1. pc' \notin Pushing
    BY <1>2, <1>7, PkgPaces DEF On, Pushing
  <2>2. pc # "none" /\ pc \notin PushSteps /\ (Raise \/ Return \/ op' = op)
    <3>1. CASE Install \/ Uninstall
      BY <3>1, Ensures, Lasts DEF Install, Uninstall, PushSteps, Pushing
    <3>2. CASE InstallPaths
      BY <3>2, Answers, Lasts DEF InstallPaths, ChooseAll, PushSteps, Pushing
    <3>3. CASE UninstallPaths
      <4>1. Raise \/ Return \/ op' = op
        BY <3>3, Lasts DEF UninstallPaths, GetApplicationPaths, UninstallIf
      <4>. QED  BY <3>3, <4>1 DEF UninstallPaths, PushSteps, Pushing
    <3>4. CASE InstallSums
      BY <3>4, Lasts DEF InstallSums, Stale, PushSteps, Pushing
    <3>5. CASE InstallRemove \/ InstallApks \/ GrantPermissions \/ UninstallApp
      BY <3>5, Lasts DEF InstallRemove, InstallApks, GrantPermissions, UninstallApp, Adb, PushSteps, Pushing
    <3>. QED  BY <1>7, <3>1, <3>2, <3>3, <3>4, <3>5 DEF PkgStep
  <2>. QED  BY <1>1, <1>4, <1>7, <2>1, <2>2 DEF fileVars
<1>8. CASE PushChangedFiles
  <2>1. (On("Checksums") \/ Raise) /\ UNCHANGED here /\ op = "PushChangedFiles"
    BY <1>8, Ensures, Paces DEF PushChangedFiles, fileVars, Control, AtStep, Single, RebootSteps, InstallSteps,
       Choices, Removal
  <2>2. pc' \notin Pushing
    BY <1>2, <2>1, Paces DEF On, Pushing
  <2>3. Elsewhere
    BY <2>1, Lasts DEF On, Elsewhere
  <2>. QED  BY <1>1, <2>1, <2>2, <2>3
<1>9. CASE FilesStep /\ ~PushChangedFiles
  BY <1>9, ChecksumsStep, RemoveStaleStep, PushFilesStep, PushOneStep, PushZippedStep, CommitStep, WriteStep
     DEF FilesStep
<1>10. CASE Reboot
  <2>1. pc' \notin Pushing
    BY <1>2, <1>10, OtherPaces DEF On, Pushing
  <2>2. Elsewhere
    BY <1>4, <1>10, Lasts DEF Reboot, PushSteps, Pushing
  <2>3. CASE ClearCache
    BY <1>0, <1>10, <2>1, <2>2, <2>3, NotReturned DEF Reboot, ClearCache, Files, SoundFiles, Known
  <2>4. CASE KeepCache
    BY <1>1, <1>10, <2>1, <2>2, <2>4 DEF Reboot, KeepCache
  <2>. QED  BY <1>10, <2>3, <2>4 DEF Reboot
<1>11. CASE DumpCacheData \/ LoadCacheData
  <2>1. pc' \notin Pushing
    BY <1>2, <1>11, OtherPaces DEF On, Pushing
  <2>2. /\ pc # "none" /\ pc \notin PushSteps /\ (Raise \/ Return \/ op' = op)
        /\ UNCHANGED here
    BY <1>11, Ensures, Lasts DEF DumpCacheData, LoadCacheData, PushSteps, Pushing, fileVars
  <2>. QED  BY <1>1, <1>4, <2>1, <2>2
<1>12. CASE DumpObject
  <2>1. pc' \notin Pushing /\ Elsewhere /\ UNCHANGED here
    BY <1>2, <1>4, <1>12, OtherPaces DEF DumpObject, PushSteps, Pushing, fileVars
  <2>. QED  BY <1>1, <2>1
<1>13. CASE LoadObject
  <2>1. pc' \notin Pushing /\ Elsewhere /\ UNCHANGED <<host, dev>>
    BY <1>2, <1>4, <1>13, OtherPaces DEF LoadObject, PushSteps, Pushing
  <2>2. CASE UNCHANGED <<filesCache, touched>>
    BY <1>1, <2>1, <2>2
  <2>3. CASE prevToken = dumpToken
    <3>1. Known(dump) /\ calls = 0 /\ token # 0
      BY <1>13 DEF LoadObject, Control, AtStep, Single, RebootSteps, InstallSteps, Choices, Removal,
                   PushSteps, Pushing, Tokens, Armed
    <3>2. DumpIsTrue
      BY <2>3, <3>1 DEF Dumps
    <3>3. filesCache' = dump.files /\ touched' = dump.touched
      BY <1>13, <2>3 DEF LoadObject
    <3>4. SoundFiles(filesCache, touched, dev)'
      BY <2>1, <3>2, <3>3 DEF DumpIsTrue, SoundFiles, Known
    <3>. QED  BY <1>0, <2>1, <3>4, NotReturned DEF Files
  <2>. QED  BY <1>13, <2>2, <2>3 DEF LoadObject
<1>14. CASE Session
  <2>1. filesCache' = <<>> /\ op' = "none" /\ pc' = "none" /\ last' = [op |-> "none", how |-> "ok"]
        /\ UNCHANGED host
    BY <1>14 DEF Session, ClearCache
  <2>2. dev' \in [File -> Content]
    BY <1>0, <1>14 DEF Session, Between
  <2>. QED  BY <1>0, <2>1, <2>2, NotReturned DEF Files, Elsewhere, SoundFiles, Known
<1>15. CASE HostEdit
  <2>1. /\ host' \in [File -> Content] /\ UNCHANGED <<dev, filesCache, touched, pc, op>>
        /\ last' = [op |-> "HostEdit", how |-> "ok"] /\ op = "none"
    BY <1>0, <1>15 DEF HostEdit, Idle
  <2>2. pc' \notin Pushing
    BY <1>0, <2>1 DEF Control, AtStep, Single, RebootSteps, InstallSteps, Choices, Removal, PushSteps, Pushing
  <2>3. SoundFiles(filesCache, touched, dev)'
    BY <1>0, <2>1, StillSound
  <2>. QED  BY <1>0, <2>1, <2>2, <2>3, NotReturned DEF Files, Elsewhere
<1>16. CASE (Boot /\ UNCHANGED fileVars) \/ UNCHANGED vars
  <2>1. UNCHANGED <<op, pc, arg, loc, last, host, dev, filesCache, touched>>
    BY <1>16 DEF Boot, vars, callVars, fileVars
  <2>2. SoundFiles(filesCache, touched, dev)'
    BY <1>0, <2>1, StillSound
  <2>3. PushMakesEqual'
    BY <2>1 DEF Files, PushMakesEqual, Idle, Failed, Has
  <2>4. pc' \in Pushing => Pushes'
    BY <2>1 DEF Files, Pushes, Left, Has, Known
  <2>. QED  BY <1>0, <2>1, <2>2, <2>3, <2>4 DEF Files
<1>. QED
  BY <1>5, <1>6, <1>7, <1>8, <1>9, <1>10, <1>11, <1>12, <1>13, <1>14, <1>15, <1>16 DEF Next

\* ---------------------------------------------------------------- dumps
LEMMA DumpsStep ==
  ASSUME Control, Tokens, Packages, Files, Dumps, [Next]_vars PROVE Dumps'
<1>. DEFINE same == <<dump, installed, dev>>
<1>0. /\ NewToken # 0 /\ NewToken \notin {devToken, token, prevToken, dumpToken}
  BY FreshToken DEF Token
<1>1. ASSUME DumpIsTrue, UNCHANGED same PROVE DumpIsTrue'
  BY <1>1 DEF DumpIsTrue, SoundPaths, SoundSums, SoundFiles, Known
<1>2. ASSUME UNCHANGED same, UNCHANGED remembered, calls' = 0 => calls = 0 PROVE Dumps'
  BY <1>1, <1>2 DEF Dumps, remembered, Known
<1>3. ASSUME UNCHANGED same, Ensured, calls' = calls PROVE Dumps'
  <2>1. CASE token # 0
    BY <1>2, <1>3, <2>1 DEF Ensured, remembered, stateVars, deviceVars, knownVars
  <2>2. CASE token = 0
    <3>1. devToken' = NewToken /\ prevToken' = devToken /\ dumpToken' = dumpToken
      BY <1>3, <2>2 DEF Ensured
    <3>. QED  BY <1>0, <1>1, <1>3, <3>1 DEF Dumps, Known
  <2>. QED  BY <2>1, <2>2
<1>4. ASSUME UNCHANGED same, NotEnsured, calls' = calls PROVE Dumps'
  <2>1. token' = 0 /\ devToken' \in {devToken, NewToken} /\ dumpToken' = dumpToken
    BY <1>4 DEF NotEnsured, knownVars
  <2>. QED  BY <1>0, <1>1, <1>4, <2>1 DEF Dumps, Known
<1>5. ASSUME Install \/ Uninstall \/ PushChangedFiles \/ DumpCacheData \/ LoadCacheData
             \/ GetPropCached \/ WaitUntilFullyBooted, UNCHANGED same
      PROVE  Dumps'
  <2>1. calls' = calls
    BY <1>5, Ensures, Paces DEF On, Again, Ends
  <2>. QED  BY <1>3, <1>4, <1>5, <2>1, Ensures
\* A call at work on the device has left its token there.
<1>6. ASSUME pc \in Armed, op \notin {"none", "DumpCacheData", "LoadCacheData"},
             UNCHANGED remembered, UNCHANGED dump, calls' = calls
      PROVE  Dumps'
  <2>1. devToken # dumpToken /\ calls # 0
    BY <1>6 DEF Tokens, Dumped, Control
  <2>. QED  BY <1>6, <2>1 DEF Dumps, remembered, Known
<1>7. Again \/ Ends => calls' = calls
  BY DEF Again, Ends, On
<1>8. CASE Calls /\ UNCHANGED <<stateVars, pkgVars, fileVars, dump>>
  <2>1. calls' = 0 => calls = 0
    BY <1>8, CallPaces DEF Control
  <2>. QED  BY <1>2, <1>8, <2>1 DEF remembered, stateVars, deviceVars, knownVars, pkgVars, fileVars
<1>9. CASE (StateStep \/ Boot) /\ UNCHANGED <<pkgVars, fileVars, dump>>
  <2>1. UNCHANGED same
    BY <1>9 DEF pkgVars, fileVars
  <2>2. CASE GetPropCached \/ WaitUntilFullyBooted
    BY <1>5, <2>1, <2>2
  <2>3. CASE (StateStep \/ Boot) /\ ~(GetPropCached \/ WaitUntilFullyBooted)
    <3>1. UNCHANGED remembered
      BY <2>3 DEF StateStep, GetProp, SetProp, NeedsSU, EnableRoot, HasRoot, DeviceOffline, BootCompleted, Boot,
                  remembered, stateVars, deviceVars, knownVars
    <3>2. calls' = calls
      BY <1>7, <1>9, StatePaces DEF On, Boot, callVars
    <3>. QED  BY <1>2, <2>1, <3>1, <3>2
  <2>. QED  BY <1>9, <2>2, <2>3
<1>10. CASE PkgStep /\ UNCHANGED <<fileVars, dump>>
  <2>1. CASE Install \/ Uninstall
    BY <1>5, <1>10, <2>1 DEF Install, Uninstall, pkgVars, fileVars
  <2>2. CASE ~(Install \/ Uninstall)
    <3>1. /\ UNCHANGED remembered
          /\ pc \in (InstallSteps \cup Removal) \ {"Install", "Uninstall"}
      BY <1>10, <2>2 DEF PkgStep, InstallPaths, UninstallPaths, InstallSums, InstallRemove, InstallApks,
         GrantPermissions, UninstallApp, InstallSteps, Choices, Removal, remembered, stateVars, deviceVars, knownVars
    <3>2. pc \in Armed /\ op \notin {"none", "DumpCacheData", "LoadCacheData"}
      BY <3>1 DEF Armed, Control, AtStep, Single, RebootSteps, InstallSteps, Choices, Removal, PushSteps, Pushing
    <3>3. calls' = calls
      BY <1>7, <1>10, PkgPaces DEF On
    <3>. QED  BY <1>6, <1>10, <3>1, <3>2, <3>3
  <2>. QED  BY <2>1, <2>2
<1>11. CASE FilesStep /\ AgeDump
  <2>0. UNCHANGED remembered \/ PushChangedFiles
    BY <1>11 DEF FilesStep, Checksums, RemoveStale, PushFiles, PushOne, PushZipped, Commit, WriteFile, RemovePath,
                 remembered, stateVars, deviceVars, knownVars
  <2>1. CASE PushChangedFiles
    <3>1. UNCHANGED same
      BY <1>11, <2>1 DEF PushChangedFiles, AgeDump, pkgVars, fileVars
    <3>. QED  BY <1>5, <2>1, <3>1
  <2>2. CASE WriteFile \/ RemovePath
    <3>1. /\ op \in {"WriteFile", "RemovePath"} /\ arg.f \in File /\ pc \in {"WriteFile", "RemovePath"}
          /\ UNCHANGED <<stateVars, installed>>
      BY <2>2 DEF WriteFile, RemovePath, Control, AtStep, Single, RebootSteps, InstallSteps, Choices, Removal,
                  PushSteps, Pushing, Asked, pkgVars
    <3>2. calls # 0 /\ calls' = calls
      BY <1>7, <2>2, <3>1, Paces DEF Control, WriteFile, RemovePath, Adb
    <3>3. \A f \in File \ {arg.f} : dev'[f] = dev[f]
      BY <2>2, <3>1 DEF WriteFile, RemovePath, Adb, Files
    <3>4. CASE ~Known(dump)
      BY <1>11, <3>1, <3>2, <3>4 DEF AgeDump, Dumps, Known
    <3>5. CASE Known(dump)
      <4>1. dump = [paths |-> dump.paths, sums |-> dump.sums, files |-> dump.files, touched |-> dump.touched]
        BY <3>5 DEF Dumps
      <4>2. dump' = [dump EXCEPT !.touched = dump.touched \cup {arg.f}]
        BY <1>11, <3>1, <3>5 DEF AgeDump
      <4>3. dump' = [paths |-> dump.paths, sums |-> dump.sums, files |-> dump.files,
                     touched |-> dump.touched \cup {arg.f}]
        BY <4>1, <4>2
      <4>4. /\ dump'.paths = dump.paths /\ dump'.sums = dump.sums /\ dump'.files = dump.files
            /\ dump'.touched = dump.touched \cup {arg.f}
        BY <4>3
      <4>5. devToken = dumpToken => DumpIsTrue'
        <5>1. ASSUME devToken = dumpToken PROVE DumpIsTrue
          BY <3>5, <5>1 DEF Dumps
        <5>2. ASSUME DumpIsTrue PROVE SoundFiles(dump.files, dump.touched, dev)'
          BY <3>3, <4>4, <5>2 DEF DumpIsTrue, SoundFiles, Known
        <5>3. ASSUME DumpIsTrue PROVE SoundPaths(dump.paths, installed)' /\ SoundSums(dump.sums, installed)'
          BY <3>1, <4>4, <5>3 DEF DumpIsTrue, SoundPaths, SoundSums, Known
        <5>. QED  BY <5>1, <5>2, <5>3 DEF DumpIsTrue
      <4>6. devToken' = devToken /\ dumpToken' = dumpToken
        BY <3>1 DEF stateVars, deviceVars
      <4>. QED  BY <3>2, <4>3, <4>4, <4>5, <4>6 DEF Dumps
    <3>. QED  BY <3>4, <3>5
  <2>3. CASE ~PushChangedFiles /\ ~(WriteFile \/ RemovePath)
    <3>1. pc \in PushSteps \ {"PushChangedFiles"}
      BY <1>11, <2>3 DEF FilesStep, Checksums, RemoveStale, PushFiles, PushOne, PushZipped, Commit,
                         PushSteps, Pushing
    <3>2. pc \in Armed /\ op \notin {"none", "DumpCacheData", "LoadCacheData"} /\ UNCHANGED dump
      BY <1>11, <3>1 DEF AgeDump, Armed, Control, AtStep, Single, RebootSteps, InstallSteps, Choices, Removal,
                         PushSteps, Pushing
    <3>3. calls' = calls
      BY <1>7, <1>11, FilesPaces DEF On
    <3>. QED  BY <1>6, <2>0, <2>3, <3>2, <3>3
  <2>. QED  BY <2>1, <2>2, <2>3
<1>12. CASE HostEdit /\ AgeDump
  <2>1. op = "none" /\ UNCHANGED <<stateVars, installed, dev, calls>>
    BY <1>12 DEF HostEdit, Idle, pkgVars
  <2>2. UNCHANGED dump
    BY <1>12, <2>1 DEF AgeDump, Control, AtStep, Single
  <2>. QED  BY <1>2, <2>1, <2>2 DEF remembered, stateVars, deviceVars, knownVars
<1>13. CASE Reboot
  <2>1. UNCHANGED same /\ calls' = calls
    BY <1>7, <1>13, OtherPaces DEF Reboot, On
  <2>2. CASE KeepCache
    BY <1>2, <1>13, <2>1, <2>2 DEF Reboot, KeepCache, knownVars, remembered
  <2>3. CASE ClearCache
    BY <1>1, <1>13, <2>1, <2>3 DEF Reboot, ClearCache, ClearState, Dumps, Known
  <2>. QED  BY <1>13, <2>2, <2>3 DEF Reboot
<1>14. CASE DumpCacheData \/ LoadCacheData
  BY <1>5, <1>14 DEF DumpCacheData, LoadCacheData, pkgVars, fileVars
<1>15. CASE DumpObject
  <2>1. /\ dump' = [paths |-> paths, sums |-> sums, files |-> filesCache, touched |-> touched]
        /\ dumpToken' = token /\ UNCHANGED <<devToken, token, prevToken, installed, dev>>
    BY <1>15 DEF DumpObject, deviceVars, knownVars, pkgVars, fileVars
  <2>2. token # 0 /\ prevToken # token
    BY <1>15 DEF DumpObject, Tokens, Armed, InstallSteps, Choices, Removal, PushSteps, Pushing
  <2>3. dump'.paths = paths /\ dump'.sums = sums /\ dump'.files = filesCache /\ dump'.touched = touched
    BY <2>1
  <2>4. DumpIsTrue'
    BY <2>1, <2>3 DEF DumpIsTrue, Packages, Files, SoundPaths, SoundSums, SoundFiles, Known
  <2>. QED  BY <2>1, <2>2, <2>3, <2>4 DEF Dumps
<1>16. CASE LoadObject
  <2>1. calls' = calls
    BY <1>7, <1>16, OtherPaces
  <2>. QED  BY <1>2, <1>16, <2>1 DEF LoadObject, remembered, stateVars, deviceVars, knownVars
<1>17. CASE Session
  <2>1. token' = 0 /\ UNCHANGED <<dumpToken, dump>>
    BY <1>17 DEF Session, ClearCache, ClearState
  <2>2. CASE devToken' = NewToken
    BY <1>0, <2>1, <2>2 DEF Dumps, Known
  <2>3. CASE devToken' = devToken /\ dev' = dev /\ (installed' = installed \/ installed' = {})
    <3>1. ASSUME DumpIsTrue PROVE DumpIsTrue'
      BY <2>1, <2>3, <3>1 DEF DumpIsTrue, SoundPaths, SoundSums, SoundFiles, Known
    <3>. QED  BY <2>1, <2>3, <3>1 DEF Dumps, Known
  <2>. QED  BY <1>17, <2>2, <2>3 DEF Session, Between
<1>18. CASE UNCHANGED vars
  BY <1>2, <1>18 DEF vars, callVars, stateVars, deviceVars, knownVars, pkgVars, fileVars, remembered
<1>. QED
  BY <1>8, <1>9, <1>10, <1>11, <1>12, <1>13, <1>14, <1>15, <1>16, <1>17, <1>18 DEF Next

-------------------------------------------------------------------------------
LEMMA InitHolds == Init => IInv
<1>. SUFFICES ASSUME Init PROVE IInv
  OBVIOUS
<1>. USE DEF Init, CallInit, StateInit, PkgInit, FilesInit
<1>1. Control
  BY DEF Control, AtStep, Single, Asked
<1>2. Tokens
  BY DEF Tokens, Armed, InstallSteps, Choices, Removal, PushSteps, Pushing, Dumped
<1>3. Props
  BY PropAssumption DEF Props, SuCacheIsRight, Built
<1>4. Packages
  BY DEF Packages, SoundPaths, SoundSums, PackageCacheIsTrue, Known, Choices
<1>5. Files
  BY DEF Files, SoundFiles, PushMakesEqual, Known, Content, Pushing
<1>6. Dumps
  BY DEF Dumps, Known
<1>. QED  BY <1>1, <1>2, <1>3, <1>4, <1>5, <1>6 DEF IInv

LEMMA NextKeeps == IInv /\ [Next]_vars => IInv'
BY ControlStep, TokensStep, PropsStep, PackagesStep, FilesKept, DumpsStep DEF IInv

LEMMA SpecKeeps == Spec => []IInv
BY InitHolds, NextKeeps, PTL DEF Spec

\* A property, su and the packages read from a cache are those of the device, across
\* reboots, sessions, failed commands and other hosts (_cache of DeviceUtils).
THEOREM CachesTrue == Spec => []CachesAreRight
<1>1. IInv => CachesAreRight
  BY DEF IInv, Props, Packages, CachesAreRight, PropCacheIsRight
<1>. QED  BY <1>1, SpecKeeps, PTL

\* Install and PushChangedFiles leave on the device what they were asked for, whatever
\* they skipped as up to date (Install, PushChangedFiles of DeviceUtils).
THEOREM CallsDone == Spec => []CallsDoAsAsked
<1>1. IInv => CallsDoAsAsked
  BY DEF IInv, Packages, Files, CallsDoAsAsked, InstallGivesRequested
<1>. QED  BY <1>1, SpecKeeps, PTL

===============================================================================
