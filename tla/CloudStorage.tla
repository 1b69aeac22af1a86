----------------------------- MODULE CloudStorage -----------------------------
(* GetIfChanged and GetIfHashChanged (cloud_storage.py): several processes     *)
(* keep one downloaded file up to date.  GetIfChanged compares the time of the *)
(* last fetch with the time of the hash file beside it, so as not to compute   *)
(* the hash of the file; a developer may update the hash file at any time.     *)
EXTENDS Integers

CONSTANTS
  Proc,       \* the processes that use the file
  Hash,       \* contents, each named by its hash
  MaxCalls,   \* bound: calls of a run
  MaxClock,   \* bound: the clock
  MaxSyncs    \* bound: updates of the hash file

ASSUME CloudAssumption == MaxCalls \in Nat /\ MaxClock \in Nat /\ MaxSyncs \in Nat

\* The lock compares its holder with a name that no process has.
ASSUME FreeAssumption == "free" \notin Proc
-------------------------------------------------------------------------------
(* _FileLock: the lock on the file.  It is a file next to it, created by whoever *)
(* takes the lock and removed by whoever gives it back, both while holding one   *)
(* global lock.  A file that was removed and created again is another inode, on  *)
(* which another process may have a lock.                                        *)
VARIABLES
  global,   \* who holds the global lock, "free" if nobody
  path,     \* the inode now at the path of the lock file, 0 if there is none
  fd,       \* the inode each process has open, 0 if none
  has,      \* whether it holds the lock on that inode
  at        \* the step each process is at

lockVars == <<global, path, fd, has, at>>

Inode    == 1 .. 2
Go(p, s) == at' = [at EXCEPT ![p] = s]

LockInit == /\ global = "free" /\ path \in {0, 1}
            /\ fd = [p \in Proc |-> 0] /\ has = [p \in Proc |-> FALSE]
            /\ at = [p \in Proc |-> "idle"]

Locked(i) == \E q \in Proc : has[q] /\ fd[q] = i
InUse     == {fd[q] : q \in Proc} \cup {path}

\* Both attempts begin by taking the global lock without waiting for it.
GlobalLock(p, from, to) == /\ at[p] = from /\ global = "free"
                           /\ global' = p /\ Go(p, to)
                           /\ UNCHANGED <<path, fd, has>>

TryAcquire(p) == GlobalLock(p, "acquire", "open")

Open(p) == /\ at[p] = "open" /\ Go(p, "flock")
           /\ \E i \in IF path = 0 THEN Inode \ InUse ELSE {path} :
                path' = i /\ fd' = [fd EXCEPT ![p] = i]
           /\ UNCHANGED <<global, has>>

\* The lock without waiting, the end of the global lock, and if it was refused,
\* the file is closed and the whole is tried again later.
Flock(p) == /\ at[p] = "flock" /\ global' = "free"
            /\ IF Locked(fd[p])
               THEN fd' = [fd EXCEPT ![p] = 0] /\ Go(p, "acquire") /\ UNCHANGED has
               ELSE has' = [has EXCEPT ![p] = TRUE] /\ Go(p, "inside") /\ UNCHANGED fd
            /\ UNCHANGED path

\* As if the lock were given back without the global lock (a mutant).
TryReleaseUnguarded(p) == at[p] = "release" /\ Go(p, "unlock")
                          /\ UNCHANGED <<global, path, fd, has>>

TryRelease(p) == GlobalLock(p, "release", "unlock")

Unlock(p) == /\ at[p] = "unlock" /\ Go(p, "remove")
             /\ fd' = [fd EXCEPT ![p] = 0] /\ has' = [has EXCEPT ![p] = FALSE]
             /\ UNCHANGED <<global, path>>

\* By its name, whichever file has it, or none.
Remove(p) == /\ at[p] = "remove" /\ path' = 0 /\ Go(p, "released")
             /\ global' = IF global = p THEN "free" ELSE global
             /\ UNCHANGED <<fd, has>>

\* LOCK_ACQUISITION_TIMEOUT: an acquisition is given up; of a release, the file
\* is closed with its last reference and the lock file is left behind.
GiveUp(p) == /\ \/ at[p] = "acquire" \/ at[p] = "release"
             /\ fd' = [fd EXCEPT ![p] = 0] /\ has' = [has EXCEPT ![p] = FALSE]
             /\ Go(p, "timeout")
             /\ UNCHANGED <<global, path>>

\* What the system frees when a process dies; what is on disk stays.
Freed(p) == /\ global' = IF global = p THEN "free" ELSE global
            /\ fd' = [fd EXCEPT ![p] = 0] /\ has' = [has EXCEPT ![p] = FALSE]
            /\ Go(p, "dead") /\ UNCHANGED path

LockStep(p) == TryAcquire(p) \/ Open(p) \/ Flock(p) \/ TryRelease(p) \/ Unlock(p) \/ Remove(p)
-------------------------------------------------------------------------------
(* The file.                                                                     *)
None    == "none"
Partial == "partial"     \* what a download has written so far
Other   == "other"       \* neither empty nor any content that is asked for

VARIABLES
  kind,     \* what the run is: calls of GetIfChanged, or of the dependency manager
  file,     \* the content of file_path
  hashfile, \* file_path.sha1: the hash it has and when it was written
  ts,       \* file_path.fetchts: -1 none, -2 empty, or a time
  tmp,      \* the temporary file of each process
  want,     \* the hash each process expects
  tries,    \* copies it has begun
  answer,   \* how its call is to end: "none", "same", "changed" or "raised"
  remote,   \* what cloud storage has under each hash
  clock, calls, syncs,
  spoiled   \* fetchts announces, after the hash file was written, a fetch that did not
            \* take place, or was of the hash that file had before

fileVars  == <<file, hashfile, ts, tmp>>
cloudVars == <<kind, file, hashfile, ts, tmp, want, tries, answer, remote, clock, calls, syncs,
               spoiled>>

CloudInit ==
  /\ kind \in {"ifchanged", "dependency"}
  /\ file \in {None, Other} /\ ts \in {-1, 0}
  /\ hashfile \in [hash : IF kind = "dependency" THEN {None} ELSE Hash \cup {None}, time : {0}]
  /\ tmp = [p \in Proc |-> None] /\ want = [p \in Proc |-> None]
  /\ tries = [p \in Proc |-> 0] /\ answer = [p \in Proc |-> "none"]
  /\ remote \in {r \in [Hash -> Hash \cup {Other}] : \A h \in Hash : r[h] \in {h, Other}}
  /\ clock = 0 /\ calls = 0 /\ syncs = 0
  /\ spoiled = FALSE

Set(f, p, v)  == f' = [f EXCEPT ![p] = v]
Answer(p, a)  == Set(answer, p, a) /\ Go(p, "release")
KeepLock      == UNCHANGED <<global, path, fd, has>>

Call(p) ==
  /\ at[p] = "idle" /\ calls < MaxCalls
  /\ calls' = calls + 1 /\ Go(p, "acquire")
  /\ \E h \in Hash : want' = IF kind = "dependency" THEN [want EXCEPT ![p] = h] ELSE want
  /\ KeepLock
  /\ UNCHANGED <<kind, fileVars, tries, answer, remote, clock, syncs, spoiled>>

\* With the lock: the hash file, if there is one.
ReadHash(p) ==
  /\ at[p] = "inside"
  /\ IF kind = "dependency" THEN Go(p, "compare") /\ UNCHANGED <<want, answer>>
     ELSE IF hashfile.hash = None THEN Answer(p, "same") /\ UNCHANGED want
     ELSE Set(want, p, hashfile.hash) /\ Go(p, "checkts") /\ UNCHANGED answer
  /\ KeepLock
  /\ UNCHANGED <<kind, fileVars, tries, remote, clock, calls, syncs, spoiled>>

FetchedSince == ts > hashfile.time

\* An empty fetchts is no number: float('') raises.
CheckTs(p) ==
  /\ at[p] = "checkts"
  /\ IF ts # -1 /\ file # None /\ ts = -2 THEN Answer(p, "raised")
     ELSE IF ts # -1 /\ file # None /\ FetchedSince THEN Answer(p, "same")
     ELSE Go(p, "opents") /\ UNCHANGED answer
  /\ KeepLock
  /\ UNCHANGED <<kind, fileVars, want, tries, remote, clock, calls, syncs, spoiled>>

\* The fetchts is opened for writing, which empties it, and written: before the fetch,
\* and after the hash file was read.
WriteTs(p) ==
  /\ \/ at[p] = "opents" /\ ts' = -2 /\ Go(p, "writets")
     \/ at[p] = "writets" /\ ts' = clock /\ Go(p, "compare")
  /\ spoiled' = IF at[p] = "writets" THEN clock > hashfile.time /\ want[p] # hashfile.hash ELSE FALSE
  /\ KeepLock
  /\ UNCHANGED <<kind, file, hashfile, tmp, want, tries, answer, remote, clock, calls, syncs>>

Compare(p) ==
  /\ at[p] = "compare"
  /\ IF file = want[p] THEN Answer(p, "same") ELSE Go(p, "copy") /\ UNCHANGED answer
  /\ KeepLock
  /\ UNCHANGED <<kind, fileVars, want, tries, remote, clock, calls, syncs, spoiled>>

\* _GetLocked: a copy to a temporary file ...
Copy(p) ==
  /\ at[p] = "copy" /\ Go(p, "copying")
  /\ Set(tmp, p, Partial) /\ Set(tries, p, tries[p] + 1)
  /\ KeepLock
  /\ UNCHANGED <<kind, file, hashfile, ts, want, answer, remote, clock, calls, syncs, spoiled>>

NotFetched == spoiled \/ (kind = "ifchanged" /\ FetchedSince)

\* ... that succeeds, is tried again after a ServerError, or raises.
Copied(p) ==
  /\ at[p] = "copying"
  /\ \/ /\ Set(tmp, p, remote[want[p]]) /\ Set(tries, p, 0) /\ Go(p, "move")
        /\ UNCHANGED <<answer, spoiled>>
     \/ tries[p] = 1 /\ Go(p, "copy") /\ UNCHANGED <<tmp, tries, answer, spoiled>>
     \/ Set(tmp, p, None) /\ Set(tries, p, 0) /\ Answer(p, "raised") /\ spoiled' = NotFetched
  /\ KeepLock
  /\ UNCHANGED <<kind, file, hashfile, ts, want, remote, clock, calls, syncs>>

Move(p) ==
  /\ at[p] = "move"
  /\ file' = tmp[p] /\ Set(tmp, p, None)
  /\ IF kind = "dependency" THEN Answer(p, "changed") ELSE Go(p, "verify") /\ UNCHANGED answer
  /\ KeepLock
  /\ UNCHANGED <<kind, hashfile, ts, want, tries, remote, clock, calls, syncs, spoiled>>

\* A file with the wrong hash stays, but its fetchts does not.
Verify(p) ==
  /\ at[p] = "verify"
  /\ IF file # want[p] THEN ts' = -1 /\ Answer(p, "raised")
                       ELSE UNCHANGED ts /\ Answer(p, "changed")
  /\ KeepLock
  /\ UNCHANGED <<kind, file, hashfile, tmp, want, tries, remote, clock, calls, syncs, spoiled>>

\* A process dies anywhere; what it had on disk stays there, a temporary file that
\* nobody reads included.
Die(p) ==
  /\ at[p] \notin {"idle", "dead"}
  /\ Freed(p)
  /\ spoiled' = IF at[p] \in {"compare", "copy", "copying", "move", "verify"} THEN NotFetched
                ELSE spoiled
  /\ Set(answer, p, "none") /\ Set(want, p, None) /\ Set(tries, p, 0) /\ Set(tmp, p, None)
  /\ UNCHANGED <<kind, file, hashfile, ts, remote, clock, calls, syncs>>

\* A developer updates the hash file; time passes.
Sync == /\ kind = "ifchanged" /\ syncs < MaxSyncs /\ syncs' = syncs + 1
        /\ spoiled' = (spoiled /\ \E p \in Proc : at[p] = "release" /\ answer[p] = "same")
        /\ \E h \in Hash \ {hashfile.hash} : hashfile' = [hash |-> h, time |-> clock]
        /\ UNCHANGED <<lockVars, kind, file, ts, tmp, want, tries, answer, remote, clock, calls>>
Tick == /\ kind = "ifchanged" /\ clock < MaxClock /\ clock' = clock + 1
        /\ UNCHANGED <<lockVars, kind, fileVars, want, tries, answer, remote, calls, syncs, spoiled>>

CloudStep(p) == \/ Call(p) \/ ReadHash(p) \/ CheckTs(p) \/ WriteTs(p) \/ Compare(p) \/ Copy(p)
                \/ Copied(p) \/ Move(p) \/ Verify(p) \/ Die(p)
-------------------------------------------------------------------------------
\* Two processes never have the lock of the file at once, whatever they and the
\* lock's own file went through before.
OneHolderAtATime == \A p, q \in Proc : has[p] /\ has[q] => p = q

\* The answer of a call, while it still has the lock.  Changed: the file has the hash
\* that was asked for.  The same: it has, although GetIfChanged does not compute its
\* hash when fetchts is later than the hash file, unless fetchts is wrong: a call that
\* wrote it was killed or raised before its fetch, or the hash file was updated between
\* its reading and that.  Then every call answers that an old file is the right one,
\* until the hash file is updated again.  GetIfHashChanged trusts what cloud storage has
\* under the hash, whatever was killed before.
AnswerIsTrue ==
  \A p \in Proc : at[p] = "release" /\ answer[p] \in {"same", "changed"} /\ want[p] # None =>
    \/ file = want[p]
    \/ answer[p] = "same" /\ spoiled
    \/ kind = "dependency" /\ remote[want[p]] # want[p]

\* The file is never a download that is still going on.
FileIsWhole == file # Partial

\* "Gets the file at file_path if it has a hash file that doesn't match"
\* (cloud_storage.py 409): a call that leaves the file alone found it to match.
SameMeansMatching ==
  \A p \in Proc : at[p] = "release" /\ answer[p] = "same" /\ want[p] # None => file = want[p]
-------------------------------------------------------------------------------
(* FetchPathWithVersion of the dependency manager: a local path if there is    *)
(* one, else the download above, made executable or unzipped.  The lock of the *)
(* download has been given back by then.                                       *)

VARIABLES
  local,     \* does a local path exist?
  darwin,    \* does the host unzip with ditto?
  archive,   \* is the dependency in an archive?
  dirs,      \* the directory that the archive of each hash is unzipped into
  zip,       \* the content each process has open as its archive
  crowded,   \* the processes that what they return may have been taken from by others
  cut        \* the hashes whose directory was left with a part of the archive

fetchVars == <<local, darwin, archive, dirs, zip, crowded, cut>>
vars == <<lockVars, cloudVars, fetchVars>>

NoDir == [state |-> "none", of |-> None]
Exists(h) == dirs[h].state \in {"part", "whole"}

Init == /\ LockInit /\ CloudInit
        /\ local \in IF kind = "dependency" THEN BOOLEAN ELSE {FALSE}
        /\ archive \in IF kind = "dependency" THEN BOOLEAN ELSE {FALSE}
        /\ darwin \in IF archive THEN BOOLEAN ELSE {FALSE}
        /\ dirs = [h \in Hash |-> NoDir]
        /\ zip = [p \in Proc |-> None]
        /\ crowded = {} /\ cut = {}

KeepFetch == UNCHANGED <<local, darwin, archive, dirs, zip, cut>>
\* A step between the lock and the return; want,answer are the call's.
Outside(p) == KeepLock /\ UNCHANGED <<kind, fileVars, tries, remote, clock, calls, syncs, spoiled>>

Finish(p)    == Go(p, "idle") /\ Set(want, p, None) /\ Set(answer, p, "none")
Stay(p, s)   == Go(p, s) /\ UNCHANGED <<want, answer>>

\* A local path is returned as it is.
FetchLocal(p) == /\ local /\ at[p] = "idle" /\ calls < MaxCalls /\ calls' = calls + 1
                 /\ KeepFetch /\ UNCHANGED lockVars
                 /\ UNCHANGED <<kind, fileVars, want, tries, answer, remote, clock, syncs, spoiled>>

\* A call of CloudStorage, which the manager makes only without a local path.
Download(p) == ~local /\ CloudStep(p) /\ UNCHANGED <<local, darwin, archive, dirs>>
               /\ zip' = [zip EXCEPT ![p] = IF at'[p] = "dead" THEN None ELSE @]
               /\ cut' = IF at'[p] = "dead" /\ at[p] = "extract" THEN cut \cup {want[p]} ELSE cut

\* The lock protocol, and what becomes of the call after it.
Lock(p) == (LockStep(p) \/ GiveUp(p)) /\ UNCHANGED <<cloudVars>> /\ KeepFetch

Return(p) ==
  /\ at[p] \in {"released", "timeout"}
  /\ IF at[p] = "timeout" \/ answer[p] = "raised" \/ kind = "ifchanged" THEN Finish(p)
     ELSE Stay(p, IF archive THEN "check" ELSE "chmod")
  /\ KeepFetch /\ Outside(p)

Chmod(p) == at[p] = "chmod" /\ Stay(p, "return") /\ KeepFetch /\ Outside(p)

\* GetUnzippedPath: is the path there already?
ShouldUnzip(p) == /\ at[p] = "check"
                  /\ Stay(p, IF Exists(want[p]) THEN "return" ELSE "remove_stale")
                  /\ KeepFetch /\ Outside(p)

\* Every directory of the dependency is stale then, the one to be made as well.
RemoveStale(p) == /\ at[p] = "remove_stale" /\ Stay(p, "unzip")
                  /\ dirs' = [h \in Hash |-> NoDir] /\ cut' = {}
                  /\ UNCHANGED <<local, darwin, archive, zip>> /\ Outside(p)

\* UnzipArchive: the directory, then the members, of which the path is one.
Unzip(p) == /\ at[p] = "unzip"
            /\ IF file = Other THEN Finish(p) /\ UNCHANGED <<dirs, zip>>
               ELSE /\ Stay(p, "extract") /\ Set(zip, p, file)
                    /\ Set(dirs, want[p], [state |-> "made", of |-> file])
            /\ UNCHANGED <<local, darwin, archive, cut>> /\ Outside(p)

\* The first member of the archive is there, then all of them.
Members(p) ==
  \/ dirs[want[p]].state = "made" /\ Set(dirs, want[p], [state |-> "part", of |-> zip[p]])
     /\ Stay(p, "extract") /\ UNCHANGED zip
  \/ dirs[want[p]].state = "part" /\ Set(dirs, want[p], [state |-> "whole", of |-> zip[p]])
     /\ Stay(p, "return") /\ Set(zip, p, None)

\* As if a failed extraction left its directory (a mutant).
ExtractOrLeave(p) ==
  /\ at[p] = "extract"
  /\ Members(p) \/ (UNCHANGED dirs /\ Set(zip, p, None) /\ Finish(p))
  /\ UNCHANGED <<local, darwin, archive, cut>> /\ Outside(p)

\* Any failure of extractall removes the directory, whoever else uses it, and raises;
\* one that disappears while it is filled is a failure.  What ditto leaves is kept
\* however it ended, and good enough if the path is there.
Extract(p) ==
  /\ at[p] = "extract"
  /\ \/ Members(p) /\ UNCHANGED cut
     \/ /\ ~darwin /\ Set(dirs, want[p], NoDir) /\ Set(zip, p, None) /\ Finish(p)
        /\ UNCHANGED cut
     \/ /\ darwin /\ UNCHANGED dirs /\ Set(zip, p, None) /\ cut' = cut \cup {want[p]}
        /\ IF Exists(want[p]) THEN Stay(p, "return") ELSE Finish(p)
  /\ UNCHANGED <<local, darwin, archive>> /\ Outside(p)

Deliver(p) == at[p] = "return" /\ Finish(p) /\ KeepFetch /\ Outside(p)

After(p) == \/ Return(p) \/ Chmod(p) \/ ShouldUnzip(p) \/ RemoveStale(p) \/ Unzip(p) \/ Extract(p)
            \/ Deliver(p)

Environment == (Sync \/ Tick) /\ KeepFetch

Step == \/ \E p \in Proc : FetchLocal(p) \/ Download(p) \/ Lock(p) \/ After(p)
        \/ Environment

Unlocked == {"remove", "released", "chmod", "check", "remove_stale", "unzip", "extract", "return"}
\* What is done after the lock is given back is disturbed by another call, for a file of
\* one hash by a call for another; what that did to an archive lasts.
Disturbed == {p \in Proc : at[p] \in Unlocked /\ \E q \in Proc \ {p} :
                at[q] \notin {"idle", "dead"} /\ (archive \/ want[q] # want[p])}

Next == /\ Step
        /\ crowded' = IF archive THEN IF Disturbed' = {} THEN crowded ELSE Proc
                      ELSE {p \in crowded : at'[p] # "idle"} \cup Disturbed'

Spec == Init /\ [][Next]_vars
-------------------------------------------------------------------------------
\* The path that is returned has what was asked for, all of it, whatever failed before,
\* with three exceptions.  After the lock is given back calls for another version take
\* the file away; with an archive, calls that overlap do that to each other's directory
\* for good; and a directory in which a process was killed as it unzipped, or ditto
\* failed, is taken for the whole.
PathHasDependency ==
  \A p \in Proc : at[p] = "return" /\ p \notin crowded /\ remote[want[p]] = want[p] =>
    IF archive THEN /\ dirs[want[p]].of = want[p]
                    /\ dirs[want[p]].state = "whole" \/ want[p] \in cut
               ELSE file = want[p]

\* What a fetch answers is so, with the exceptions named above: the file has the hash
\* that was asked for, and the path that is returned has it; and never is the file a
\* download that is still going on or was killed.
DownloadIsTrue == AnswerIsTrue /\ FileIsWhole /\ PathHasDependency
===============================================================================
