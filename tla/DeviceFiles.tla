------------------------------ MODULE DeviceFiles ------------------------------
(* PushChangedFiles of DeviceUtils: one host directory is brought to one device *)
(* directory by pushing the files whose checksums differ, one by one or zipped, *)
(* with the device's checksums taken from a cache when it is enabled.           *)
EXTENDS DevicePackages

CONSTANTS
  File, Ver,              \* the files either side may have, and their contents
  None,                   \* no such file
  UseFilesCache           \* _enable_device_files_cache

ASSUME FilesAssumption == None \notin Ver /\ UseFilesCache \in BOOLEAN

VARIABLES
  host, dev,       \* the contents of the two directories
  filesCache,      \* device_path_checksums: <<ignore_other_files, sums>> or <<>>
  commands,        \* _commands_installed: "unknown", "yes", "no"
  touched          \* files that may have changed since their sums were cached

fileVars == <<host, dev, filesCache, commands, touched>>

Content == Ver \cup {None}
Has(side) == {f \in File : side[f] # None}

FilesTypeOK == /\ host \in [File -> Content] /\ dev \in [File -> Content]
               /\ filesCache \in {<<>>} \cup (BOOLEAN \X [File -> Content])
               /\ commands \in {"unknown", "yes", "no"}
               /\ touched \subseteq File

FilesInit == /\ host \in [File -> Ver] /\ dev = [f \in File |-> None]
             /\ filesCache = <<>> /\ commands = "unknown" /\ touched = {}

Over(f, S, g) == [x \in File |-> IF x \in S THEN g[x] ELSE f[x]]
--------------------------------------------------------------------------------
\* FetchPath('md5sum_device') asks for the cpu of the device, from the cache.
PushChangedFiles ==
  /\ pc = "PushChangedFiles"
  /\ EnsureCacheInitialized(Goto("Checksums"))
  /\ UNCHANGED <<pkgVars, fileVars>>

\* What _GetChangedAndStaleFiles makes of the device's sums.  Without
\* delete_device_stale only the files the host has are asked for.
Compare(on) ==
  GotoWith("RemoveStale",
    [push |-> {f \in Has(host) : on[f] # host[f]},
                sent |-> {f \in Has(host) : on[f] # host[f]},
                delete |-> IF arg.stale THEN Has(on) \ Has(host) ELSE {},
                commit |-> <<~arg.stale, host>>])

\* As if an entry that ignores other files served a call that does not (a mutant).
ChecksumsOfAnyEntry ==
  /\ pc = "Checksums"
  /\ LET cached == UseFilesCache /\ Known(filesCache)
         read   == IF arg.stale THEN dev ELSE Over([f \in File |-> None], Has(host), dev)
     IN  \/ cached /\ UNCHANGED <<filesCache, touched>> /\ Compare(filesCache[2])
         \/ ~cached /\ filesCache' = <<~arg.stale, read>> /\ touched' = {} /\ Compare(read)
  /\ UNCHANGED <<stateVars, pkgVars, host, dev, commands>>

Checksums ==
  /\ pc = "Checksums"
  /\ LET cached == UseFilesCache /\ Known(filesCache) /\ filesCache[1] = ~arg.stale
         read   == IF arg.stale THEN dev ELSE Over([f \in File |-> None], Has(host), dev)
     IN  \/ cached /\ UNCHANGED <<filesCache, touched>> /\ Compare(filesCache[2])
         \/ /\ ~cached /\ filesCache' = <<~arg.stale, read>>
            /\ touched' = {} /\ Compare(read)
         \/ ~cached /\ UNCHANGED <<filesCache, touched>> /\ Raise
         \/ /\ filesCache' \in {filesCache, IF cached THEN filesCache ELSE <<~arg.stale, read>>}
            /\ UNCHANGED touched
            /\ GotoWith("RemoveStale", [push |-> Has(host), sent |-> {},
                                       delete |-> {}, commit |-> <<>>])
  /\ UNCHANGED <<stateVars, pkgVars, host, dev, commands>>

\* RemovePath of the stale files and, for a directory that is missing, mkdir.
RemoveStale ==
  /\ pc = "RemoveStale"
  /\ Adb(dev' = Over(dev, loc.delete, [f \in File |-> None]), UNCHANGED dev, Goto("PushFiles"))
  /\ touched' = touched \cup loc.delete
  /\ UNCHANGED <<stateVars, pkgVars, host, filesCache, commands>>

\* _PushFilesImpl chooses by the size of the files, which is left open here.
PushFiles ==
  /\ pc = "PushFiles"
  /\ \/ loc.push = {} /\ Goto("Commit")
     \/ loc.push # {} /\ Goto("PushOne")
     \/ loc.push # {} /\ commands # "no" /\ Goto("PushZipped")
  /\ UNCHANGED <<stateVars, pkgVars, fileVars>>

PushOne ==
  /\ pc = "PushOne"
  /\ \E f \in loc.push :
       LET rest == [loc EXCEPT !.push = @ \ {f}]
       IN  /\ Adb(dev' = [dev EXCEPT ![f] = host[f]], UNCHANGED dev,
                  GotoWith(IF rest.push = {} THEN "Commit" ELSE "PushOne", rest))
           /\ touched' = touched \cup {f}
  /\ UNCHANGED <<stateVars, pkgVars, host, filesCache, commands>>

\* _PushChangedFilesZipped: install unzip if need be, zip, push and unzip; what
\* cannot be zipped is pushed file by file.  An unzip that fails may have
\* written some of the files.
PushZipped ==
  /\ pc = "PushZipped"
  /\ \/ /\ commands' \in (IF commands = "unknown" THEN {"yes", "no"} ELSE {commands})
        /\ UNCHANGED <<dev, touched>> /\ Goto("PushOne")
     \/ commands = "unknown" /\ UNCHANGED <<commands, dev, touched>> /\ Raise
     \/ /\ commands' = "yes"
        /\ dev' = Over(dev, loc.push, host)
        /\ touched' = touched \cup loc.push
        /\ Goto("Commit")
     \/ /\ commands' = "yes"
        /\ \E S \in SUBSET loc.push : /\ dev' = Over(dev, S, host)
                                      /\ touched' = touched \cup S
        /\ Raise
  /\ UNCHANGED <<stateVars, pkgVars, host, filesCache>>

\* The new sums are kept once everything is on the device.
Commit ==
  /\ pc = "Commit"
  /\ filesCache' = IF Known(loc.commit) THEN loc.commit ELSE filesCache
  /\ touched' = touched \ (loc.sent \cup loc.delete)
  /\ End(IF arg.stale /\ Known(loc.commit) THEN "mirrored" ELSE "ok")
  /\ UNCHANGED <<stateVars, pkgVars, host, dev, commands>>

\* WriteFile and RemovePath on a file of the directory do not look at the cache.
WriteFile ==
  /\ pc = "WriteFile"
  /\ \E v \in Ver :
       Adb(dev' = [dev EXCEPT ![arg.f] = v], UNCHANGED dev, Return)
  /\ touched' = touched \cup {arg.f}
  /\ UNCHANGED <<stateVars, pkgVars, host, filesCache, commands>>

RemovePath ==
  /\ pc = "RemovePath"
  /\ Adb(dev' = [dev EXCEPT ![arg.f] = None], UNCHANGED dev, Return)
  /\ touched' = touched \cup {arg.f}
  /\ UNCHANGED <<stateVars, pkgVars, host, filesCache, commands>>

\* The host's files are built anew, not while a call is running.
HostEdit ==
  /\ Idle /\ "PushChangedFiles" \in script
  /\ last.op # "HostEdit" /\ calls < MaxCalls
  /\ \E f \in File, c \in Content : host' = [host EXCEPT ![f] = c]
  /\ last' = [op |-> "HostEdit", how |-> "ok"]
  /\ UNCHANGED <<stateVars, pkgVars, dev, filesCache, commands, touched,
                 op, pc, arg, loc, tries, calls, script>>

FilesCall == \/ \E s \in BOOLEAN : Call("PushChangedFiles",
                  [stale |-> s])
             \/ \E f \in File, o \in {"WriteFile", "RemovePath"} : Call(o, [f |-> f])
FilesStep == \/ PushChangedFiles \/ Checksums \/ RemoveStale \/ PushFiles \/ PushOne
             \/ PushZipped \/ Commit \/ WriteFile \/ RemovePath
================================================================================
