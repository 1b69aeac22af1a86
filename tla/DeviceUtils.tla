------------------------------ MODULE DeviceUtils ------------------------------
(* A script's sessions with one device: the calls of DeviceState,              *)
(* DevicePackages and DeviceFiles in any order, reboots, which clear all their *)
(* caches, the cache dumped by a session and loaded by the next, sessions that *)
(* crash, and other hosts that use the device between sessions.                *)
EXTENDS DeviceFiles

CONSTANT MaxSessions    \* bound: most sessions

VARIABLES
  dump,       \* what the last dump says beside its token, <<>> for none
  sessions    \* sessions so far

vars == <<callVars, stateVars, pkgVars, fileVars, dump, sessions>>

TypeOK == /\ StateTypeOK /\ PkgTypeOK /\ FilesTypeOK
          /\ tries \in 0..Retries /\ calls \in 0..MaxCalls
          /\ sessions \in 1..MaxSessions
          /\ dumpToken = 0 <=> dump = <<>>

Init == CallInit /\ StateInit /\ PkgInit /\ FilesInit /\ dump = <<>> /\ sessions = 1

Fresh  == calls = 0 /\ last.op # "LoadCacheData"    \* no call of this session yet
Dumped == token # 0 /\ token = dumpToken            \* it has left its dump

ClearCache == ClearState /\ ClearPkg /\ filesCache' = <<>> /\ touched' = {}
KeepCache  == UNCHANGED <<knownVars, pkgCaches, filesCache, touched>>

\* Reboot clears the caches after the command, unless the command raises.
Reboot ==
  /\ pc = "Reboot"
  /\ \/ boot # "off" /\ Restarted(FALSE) /\ ClearCache /\ doubt' = FALSE /\ Goto("DeviceOffline")
     \/ Restarted(TRUE) /\ KeepCache /\ doubt' = TRUE /\ Raise
  /\ UNCHANGED <<devToken, dumpToken, installed, unverified, host, dev, commands, dump, sessions>>

\* The dump holds what the session knows and the token it left on the device.
DumpCacheData ==
  /\ pc = "DumpCacheData"
  /\ EnsureCacheInitialized(Goto("DumpObject"))
  /\ UNCHANGED <<pkgVars, fileVars, dump, sessions>>

DumpObject ==
  /\ pc = "DumpObject"
  /\ dump' = [paths |-> paths, sums |-> sums, files |-> filesCache, touched |-> touched]
  /\ dumpToken' = token
  /\ Return
  /\ UNCHANGED <<deviceVars, knownVars, doubt, pkgVars, fileVars, sessions>>

\* A dump is used if the device still has its token, which this session has
\* just read and replaced; the packages in it are yet to be verified.
LoadCacheData ==
  /\ pc = "LoadCacheData"
  /\ EnsureCacheInitialized(Goto("LoadObject"))
  /\ UNCHANGED <<pkgVars, fileVars, dump, sessions>>

LoadObject ==
  /\ pc = "LoadObject"
  /\ IF prevToken = dumpToken
     THEN /\ paths' = dump.paths /\ sums' = dump.sums
          /\ verify' = Known(dump.paths)
          /\ filesCache' = dump.files /\ touched' = dump.touched
     ELSE UNCHANGED <<pkgCaches, filesCache, touched>>
  /\ Return
  /\ UNCHANGED <<stateVars, installed, unverified, host, dev, commands, dump, sessions>>

\* WriteFile and RemovePath leave no new token: a session of nothing else changes the
\* device behind the back of the dump, whose sums of that file are then as old as
\* those in the cache.
AgeDump ==
  dump' = IF pc \in {"WriteFile", "RemovePath"} /\ Known(dump)
          THEN [dump EXCEPT !.touched = @ \cup {arg.f}] ELSE dump
--------------------------------------------------------------------------------
\* What happens to the device between two sessions: nothing; another host
\* installs or pushes, and leaves a token of its own; or the user uninstalls the
\* app by hand, which leaves none.
Between ==
  \/ UNCHANGED <<installed, dev, devToken>>
  \/ /\ "Install" \in script
     /\ \/ installed' \in Wants /\ devToken' = NewToken
        \/ installed' = {} /\ UNCHANGED devToken
     /\ UNCHANGED dev
  \/ /\ "PushChangedFiles" \in script
     /\ \E f \in File, c \in Content : dev' = [dev EXCEPT ![f] = c]
     /\ devToken' = NewToken
     /\ UNCHANGED installed

\* The session ends, or the script crashes, and another one begins.
Session ==
  /\ sessions < MaxSessions
  /\ sessions' = sessions + 1
  /\ Between
  /\ ClearCache /\ doubt' = FALSE /\ commands' = "unknown" /\ unverified' = FALSE
  /\ op' = "none" /\ pc' = "none" /\ arg' = <<>> /\ loc' = <<>> /\ tries' = 0 /\ calls' = 0
  /\ last' = [op |-> "none", how |-> "ok"]
  /\ UNCHANGED <<boot, root, prop, dumpToken, host, dump, script>>

\* A session loads before anything else and dumps last.
Calls == \/ /\ ~Dumped
            /\ StateCall \/ PkgCall \/ FilesCall \/ Call("Reboot", <<>>) \/ Call("DumpCacheData", <<>>)
         \/ Fresh /\ Known(dump) /\ Call("LoadCacheData", <<>>)

Next ==
  \/ Calls /\ UNCHANGED <<stateVars, pkgVars, fileVars, dump, sessions>>
  \/ (StateStep \/ Boot) /\ UNCHANGED <<pkgVars, fileVars, dump, sessions>>
  \/ PkgStep /\ UNCHANGED <<fileVars, dump, sessions>>
  \/ (FilesStep \/ HostEdit) /\ AgeDump /\ UNCHANGED sessions
  \/ Reboot \/ DumpCacheData \/ DumpObject \/ LoadCacheData \/ LoadObject
  \/ Session

Spec == Init /\ [][Next]_vars
--------------------------------------------------------------------------------
(* Properties                                                                   *)

\* A property served from the cache is the one the device has, across reboots,
\* sessions and retries, as long as no call has raised half done: what SetProp
\* changes and what a reboot resets is no longer in the cache.
PropCacheIsRight ==
  ~doubt /\ pc # "SetProp" =>
    \A p \in Prop \ Late : propCache[p] # "" => propCache[p] = prop[p]

\* Commands run with su exactly when adbd is not root, also after EnableRoot and
\* after the reboot that takes root away (_cache['needs_su']).
SuCacheIsRight ==
  ~doubt => \/ suCache = "unknown"
            \/ suCache = IF root THEN "no" ELSE "yes"

\* What the package cache says is on the device: after installs that failed half
\* way, when loaded from an earlier session, and when another host or the user
\* had the device in between; only a package that is still to be verified, or to
\* be looked up, may have been uninstalled.
PackageCacheIsTrue ==
  ~unverified =>
    /\ Known(sums) => \/ sums[1] \subseteq installed
                      \/ installed = {} /\ (~Known(paths) \/ verify \/ paths[1] = {})
    /\ Known(paths) /\ ~verify => paths[1] = Parts(installed)

\* The caches of properties, of su and of packages are those of the device.
CachesAreRight == PropCacheIsRight /\ SuCacheIsRight /\ PackageCacheIsTrue

\* Install returns with every apk it was asked for on the device, whatever it
\* skipped because the caches called it up to date.
InstallGivesRequested ==
  pc = "GrantPermissions" /\ ~unverified => arg.want \subseteq installed

\* A PushChangedFiles that returns leaves every file of the host on the device as
\* it is on the host, and with delete_device_stale no other, however many
\* attempts it took; files that were touched behind the cache's back excepted.
PushMakesEqual ==
  Idle /\ last.op = "PushChangedFiles" /\ ~Failed =>
    /\ \A f \in Has(host) \ touched : dev[f] = host[f]
    /\ last.how = "mirrored" => Has(dev) \ touched \subseteq Has(host)

\* Calls that skip what their caches say is done leave the device as it was asked for.
CallsDoAsAsked == InstallGivesRequested /\ PushMakesEqual

================================================================================
