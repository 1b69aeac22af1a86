---------------------------- MODULE DevicePackages ----------------------------
(* Installing a package with DeviceUtils: Install and InstallSplitApk look at  *)
(* what the device has, from a cache where there is one, and install only what *)
(* is stale; Uninstall.  One package, of a base apk and splits.                *)
EXTENDS DeviceState, FiniteSets

CONSTANTS
  Lone,      \* the versions of the app as one base apk
  Paired,    \* the versions of its base apk beside a split
  SplitVer   \* the version of that split

BaseApk(v) == [part |-> "base", ver |-> v]
SplitApk   == [part |-> "split", ver |-> SplitVer]

\* The sets of apks a caller may ask for.
Wants == {{BaseApk(v)} : v \in Lone} \cup {{BaseApk(v), SplitApk} : v \in Paired}

VARIABLES
  installed,   \* the apks of the package on the device
  paths,       \* package_apk_paths: <<parts>>, or <<>> for no entry
  verify,      \* whether the package is in package_apk_paths_to_verify
  sums,        \* package_apk_checksums: <<apks>>, or <<>> for no entry
  unverified   \* a verification raised after the entry was struck off

pkgCaches == <<paths, verify, sums>>
pkgVars   == <<installed, pkgCaches, unverified>>

Known(entry) == entry # <<>>
Parts(apks)  == {a.part : a \in apks}
Apk          == UNION Wants

PkgTypeOK == /\ installed \subseteq Apk
             /\ paths \in {<<>>} \cup {<<P>> : P \in SUBSET Parts(Apk)}
             /\ sums \in {<<>>} \cup {<<S>> : S \in SUBSET Apk}
             /\ verify \in BOOLEAN /\ unverified \in BOOLEAN

PkgInit == /\ installed = {} /\ paths = <<>> /\ sums = <<>>
           /\ verify = FALSE /\ unverified = FALSE

ClearPkg == paths' = <<>> /\ sums' = <<>> /\ verify' = FALSE

\* "Assume that we won't know the resulting device state."
Forget == ClearPkg

\* Cached paths are right if no session loaded them, or if they say that there are
\* none; loaded ones also if the device finds every path of them.
Checked == Known(paths) /\ verify /\ paths[1] # {}
CachedPathsAreRight == Known(paths) /\ (Checked => paths[1] \subseteq Parts(installed))
AskPackageManager == /\ paths' = <<Parts(installed)>>
                     /\ sums' = IF Known(paths) THEN <<>> ELSE sums

\* _GetApplicationPathsInternal and then Then(parts).  A loaded entry is struck
\* off the list to verify before the command that verifies it.
GetApplicationPaths(Then(_)) ==
  /\ verify' = FALSE
  /\ UNCHANGED installed
  /\ \/ /\ CachedPathsAreRight
        /\ UNCHANGED <<paths, sums, unverified>> /\ Then(paths[1])
     \/ /\ ~CachedPathsAreRight
        /\ AskPackageManager /\ UNCHANGED unverified /\ Then(Parts(installed))
     \/ /\ ~Known(paths) \/ Checked      \* a command that fails
        /\ unverified' = (unverified \/ verify)
        /\ sums' \in {sums, IF CachedPathsAreRight THEN sums ELSE <<>>}
        /\ UNCHANGED paths
        /\ Raise

\* What an adb uninstall, and an adb install of the apks s, leave behind.
RemoveApp == installed # {} /\ installed' = {}
PutApks(want, s, reinstall) ==
  IF s # want     \* a partial install of splits
  THEN /\ installed # {}
       /\ installed' = {a \in installed : a.part \notin Parts(s)} \cup s
  ELSE /\ installed = {} \/ reinstall
       /\ installed' = want
-------------------------------------------------------------------------------
\* _InstallInternal up to the paths; the SDK level comes from the cache.
Install ==
  /\ pc = "Install"
  /\ EnsureCacheInitialized(Goto("InstallPaths"))
  /\ UNCHANGED pkgVars

\* Without an app, or between split and non-split, all apks are installed.
ChooseAll(present) ==
  LET one(S) == Cardinality(S) = 1
  IN  IF present = {} \/ one(present) # one(arg.want)
      THEN GotoWith("InstallRemove", [old |-> present, stale |-> arg.want, host |-> <<>>])
      ELSE GotoWith("InstallSums", [old |-> present])

InstallPaths ==
  /\ pc = "InstallPaths"
  /\ GetApplicationPaths(ChooseAll)
  /\ UNCHANGED stateVars

\* _ComputeStaleApks: which apks the device has not, by their checksums.
Stale(onDevice) ==
  LET s == arg.want \ onDevice
  IN  GotoWith("InstallRemove",
        [old |-> loc.old, host |-> <<arg.want>>,
         stale |-> IF arg.reinstall \/ s = {} THEN s ELSE arg.want])

\* Where md5sum is not built everything is stale.
InstallSums ==
  /\ pc = "InstallSums"
  /\ LET read == {a \in installed : a.part \in loc.old}
     IN  \/ Known(sums) /\ UNCHANGED sums /\ Stale(sums[1])
         \/ ~Known(sums) /\ sums' = <<read>> /\ Stale(read)
         \/ /\ sums' \in {sums, IF Known(sums) THEN sums ELSE <<read>>}
            /\ GotoWith("InstallRemove", [old |-> loc.old, stale |-> arg.want, host |-> <<>>])
         \/ ~Known(sums) /\ UNCHANGED sums /\ Raise
  /\ UNCHANGED <<stateVars, installed, paths, verify, unverified>>

InstallRemove ==
  /\ pc = "InstallRemove"
  /\ IF loc.old # {} /\ loc.stale # {} /\ ~arg.reinstall
     THEN Forget /\ Adb(RemoveApp, UNCHANGED installed, Goto("InstallApks"))
     ELSE UNCHANGED <<pkgCaches, installed>> /\ Goto("InstallApks")
  /\ UNCHANGED <<stateVars, unverified>>

\* adb install or install-multiple; a package that is up to date is stopped.
InstallApks ==
  /\ pc = "InstallApks"
  /\ IF loc.stale # {}
     THEN /\ Forget
          /\ Adb(PutApks(arg.want, loc.stale, arg.reinstall), UNCHANGED installed,
                 Goto("GrantPermissions"))
     ELSE /\ UNCHANGED <<pkgCaches, installed>>
          /\ Goto("GrantPermissions") \/ Raise
  /\ UNCHANGED <<stateVars, unverified>>

\* "Upon success, we know the device checksums, but not their paths."
GrantPermissions ==
  /\ pc = "GrantPermissions"
  /\ \/ sums' = (IF Known(loc.host) THEN loc.host ELSE sums) /\ Return
     \/ UNCHANGED sums /\ Raise
  /\ UNCHANGED <<stateVars, installed, paths, verify, unverified>>

Uninstall ==
  /\ pc = "Uninstall"
  /\ EnsureCacheInitialized(Goto("UninstallPaths"))
  /\ UNCHANGED pkgVars

UninstallIf(present) == IF present = {} THEN Return ELSE Goto("UninstallApp")
UninstallPaths ==
  /\ pc = "UninstallPaths"
  /\ GetApplicationPaths(UninstallIf)
  /\ UNCHANGED stateVars

UninstallApp ==
  /\ pc = "UninstallApp"
  /\ Forget
  /\ Adb(RemoveApp, UNCHANGED installed, Return)
  /\ UNCHANGED <<stateVars, unverified>>

PkgCall == \/ \E w \in Wants, r \in BOOLEAN :
                Call("Install", [want |-> w, reinstall |-> r])
           \/ Call("Uninstall", <<>>)
PkgStep == \/ Install \/ InstallPaths \/ InstallSums \/ InstallRemove \/ InstallApks
           \/ GrantPermissions \/ Uninstall \/ UninstallPaths \/ UninstallApp
===============================================================================
