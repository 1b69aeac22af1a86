-------------------------- MODULE SharedFiles_proofs --------------------------
(* The two parts of the host whose processes or threads share a file under a   *)
(* lock.  The lab (Fleet): for every set of devices, every list of steps       *)
(* longer than the two that reboot, and any number of scripts and of troubles, *)
(* the blacklist keeps what is reported to it.  The dependency manager         *)
(* (Dependencies): the pseudo lock gives a file to one process at a time,      *)
(* whatever the programs that use it do between its steps; and a config is     *)
(* updated with all its files or not at all.                                   *)
EXTENDS Fleet, Dependencies, TLAPS

-------------------------------------------------------------------------------
(* The lab                                                                      *)


Extending    == {"read", "write"}
Recovering   == {"recover", "auth", "wait", "reboot", "sysrq", "boot"}
Provisioning == {"step", "again", "booted", "cmd", "restart", "online"}
Label        == {"check", "done"} \cup Extending \cup Recovering \cup Provisioning
------------------------------------------------------------------------------
(* The inductive invariant, in parts.                                          *)

Types == /\ TypeOK
         /\ pc \in [Dev -> Label] /\ next \in [Dev -> {"done", "boot"}]
         /\ copy \in [Dev -> SUBSET Dev] /\ bad \subseteq Dev

\* Only the thread that is between its read and its write holds the lock ...
WriterHolds == \A d \in Dev : At(d, "write") <=> lock = d

\* ... and the file is still as it has read it.
WriterKnows == \A d \in Dev : At(d, "write") => copy[d] = list

\* A failure is in the file, or its thread is on its way there.
Reported == \A d \in bad : d \in list \/ pc[d] \in Extending

\* Between scripts no thread runs.
Quiet == script = "none" => AllDone

\* A step that is about to run is one of the list.
StepIsThere == \A d \in Dev : pc[d] \in {"again", "booted", "cmd"} => stage[d] <= Steps

FileInv == Types /\ StepIsThere /\ WriterHolds /\ WriterKnows /\ Reported /\ Quiet

\* Each step belongs to its script, and a thread that reports a failed reboot and
\* goes on to wait for the boot is one of the recovery.
InScript == \A d \in Dev :
  /\ pc[d] = "check" => script \in {"status", "recovery"}
  /\ pc[d] \in Recovering => script = "recover"
  /\ pc[d] \in Provisioning => script = "provision"
  /\ pc[d] \in Extending /\ next[d] = "boot" => script = "recover"

\* A device that has yet to go down was told so by sysrq; one that a new key may
\* authorize counts as recovered otherwise as long as that is tried.
FallsByItself ==
  /\ \A d \in Dev : pc[d] = "auth" => d \in odd
  /\ script \notin {"recover", "none"} => falling = {}
  /\ \A d \in falling : d \in Dev /\ d \in odd /\ (pc[d] \in Extending \/ pc[d] \in {"boot", "done"})

\* Between two steps, a device that is up has booted since the last reboot.
FreshWhenUp == \A d \in Dev : stage[d] > 1 =>
  /\ pc[d] = "cmd" => d \in fresh
  /\ pc[d] \in {"step", "again", "booted", "online"} /\ state[d] = "up" => d \in fresh

\* The same of the properties; from the third step on they are in effect.
Configured == \A d \in Dev :
  /\ pc[d] = "restart" => stage[d] \in {2, 3}
  /\ d \in written /\ ~emulators =>
       /\ stage[d] > 2 /\ pc[d] = "cmd" => d \in configured
       /\ (stage[d] > 2 /\ state[d] = "up" /\ pc[d] \in {"step", "again", "booted", "online"})
             => d \in configured
       /\ stage[d] > 3 /\ pc[d] \in Provisioning => d \in configured

\* What the recovery reboots is listed, restarted otherwise, or not up before its boot.
Rebooted ==
  /\ reboot # {} => script \in {"recover", "none"}
  /\ \A d \in reboot :
       /\ d \in Dev
       /\ \/ d \in list \/ d \in odd \/ d \in fresh \/ d \in raised
          \/ pc[d] \notin {"boot", "done"}
          \/ pc[d] = "boot" /\ state[d] # "up"

ScriptInv == /\ InScript /\ FallsByItself /\ FreshWhenUp /\ Configured /\ Rebooted
             /\ ProvisionedCompletely

IInv == FileInv /\ ScriptInv
------------------------------------------------------------------------------
(* The blacklist                                                               *)

\* The threads start with nothing to report.
LEMMA FileInit == FleetInit => FileInv
BY FleetAssumption DEF FleetInit, FileInv, Types, StepIsThere, TypeOK, WriterHolds, WriterKnows, Reported, Quiet,
     AllDone, At, Nobody, Label, Extending, Recovering, Provisioning

\* Every step of a thread, a script and a device keeps the blacklist's invariant.
LEMMA FileStep == FileInv /\ [FleetNext]_fleetVars => FileInv'
<1> SUFFICES ASSUME FileInv, [FleetNext]_fleetVars PROVE FileInv'
  OBVIOUS
<1> USE FleetAssumption DEF FileInv, Types, TypeOK, StepIsThere, WriterHolds, WriterKnows, Reported, Quiet,
     AllDone, At, To, Report, Nobody, Label, Extending, Recovering, Provisioning,
     devices, known, options, blacklist
<1>1. ASSUME NEW d \in Dev, ExtendRead(d) PROVE FileInv'
  BY <1>1 DEF ExtendRead, ReadHeld
<1>2. ASSUME NEW d \in Dev, ExtendWrite(d) PROVE FileInv'
  BY <1>2 DEF ExtendWrite
<1>3. ASSUME NEW d \in Dev, Skip(d) PROVE FileInv'
  BY <1>3 DEF Skip, Checking
<1>4. ASSUME NEW d \in Dev, Unlisted(d) PROVE FileInv'
  BY <1>4 DEF Unlisted, Checking
<1>5. ASSUME NEW d \in Dev, Query(d) PROVE FileInv'
  BY <1>5 DEF Query, Checking
<1>6. ASSUME NEW d \in Dev, RecoverDevice(d) PROVE FileInv'
  BY <1>6 DEF RecoverDevice, Raise
<1>7. ASSUME NEW d \in Dev, TryAuth(d) PROVE FileInv'
  BY <1>7 DEF TryAuth, Raise
<1>8. ASSUME NEW d \in Dev, WaitFirst(d) PROVE FileInv'
  BY <1>8 DEF WaitFirst
<1>9. ASSUME NEW d \in Dev, RebootOnce(d) PROVE FileInv'
  BY <1>9 DEF RebootOnce, WentDown, Down
<1>10. ASSUME NEW d \in Dev, Sysrq(d) PROVE FileInv'
  BY <1>10 DEF Sysrq
<1>11. ASSUME NEW d \in Dev, WaitUntilFullyBooted(d) PROVE FileInv'
  BY <1>11 DEF WaitUntilFullyBooted
<1>12. ASSUME NEW d \in Dev, StepBoots(d) PROVE FileInv'
  BY <1>12 DEF StepBoots
<1>13. ASSUME NEW d \in Dev, RebootAgain(d) PROVE FileInv'
  BY <1>13 DEF RebootAgain, WentDown, Down
<1>14. ASSUME NEW d \in Dev, BootedAgain(d) PROVE FileInv'
  BY <1>14 DEF BootedAgain
<1>15. ASSUME NEW d \in Dev, Cmd(d) PROVE FileInv'
  BY <1>15 DEF Cmd, Raise
<1>16. ASSUME NEW d \in Dev, Restart(d) PROVE FileInv'
  BY <1>16 DEF Restart, WentDown, Down
<1>17. ASSUME NEW d \in Dev, WaitForDevice(d) PROVE FileInv'
  BY <1>17 DEF WaitForDevice
<1>18. ASSUME NEW d \in Dev, Boots(d) PROVE FileInv'
  BY <1>18 DEF Boots
<1>19. ASSUME NEW d \in Dev, GoesDown(d) PROVE FileInv'
  BY <1>19 DEF GoesDown, Down
<1>20. ASSUME NEW d \in Dev, Trouble(d) PROVE FileInv'
  BY <1>20 DEF Trouble
<1>21. CASE StartStatus
  BY <1>21 DEF StartStatus, Begin, List
<1>22. CASE StartRecovery
  BY <1>22 DEF StartRecovery, Begin, List
<1>23. CASE StartProvision
  BY <1>23 DEF StartProvision, Begin, List, Healthy
<1>24. CASE End
  BY <1>24 DEF End
<1>25. CASE StatusEnds
  BY <1>25 DEF StatusEnds
<1>26. CASE Recover
  BY <1>26 DEF Recover
<1>27. CASE UNCHANGED fleetVars
  BY <1>27 DEF fleetVars
<1> QED
  BY <1>1, <1>2, <1>3, <1>4, <1>5, <1>6, <1>7, <1>8, <1>9, <1>10, <1>11, <1>12, <1>13,
     <1>14, <1>15, <1>16, <1>17, <1>18, <1>19, <1>20, <1>21, <1>22, <1>23, <1>24, <1>25,
     <1>26, <1>27, Zenon DEF FleetNext, Thread
------------------------------------------------------------------------------
(* The three scripts                                                           *)

\* Before the first script there is nothing to hold.
LEMMA ScriptInit == FleetInit => ScriptInv
BY FleetAssumption DEF FleetInit, ScriptInv, InScript, FallsByItself, FreshWhenUp, Configured, Rebooted,
     ProvisionedCompletely, At, Recovering, Provisioning, Extending

\* Every step of a thread, a script and a device keeps what the scripts rely on.
LEMMA ScriptStep == IInv /\ [FleetNext]_fleetVars => ScriptInv'
<1> SUFFICES ASSUME FileInv, ScriptInv, [FleetNext]_fleetVars PROVE ScriptInv'
  BY DEF IInv
<1> USE FleetAssumption DEF FileInv, Types, TypeOK, StepIsThere, WriterKnows, Quiet, AllDone,
     ScriptInv, InScript, FallsByItself, FreshWhenUp, Configured, Rebooted,
     ProvisionedCompletely, At, To, Report, Label, Extending, Recovering, Provisioning,
     devices, known, options, blacklist
<1>1. ASSUME NEW d \in Dev, ExtendRead(d) PROVE ScriptInv'
  BY <1>1 DEF ExtendRead, ReadHeld
<1>2. ASSUME NEW d \in Dev, ExtendWrite(d) PROVE ScriptInv'
  BY <1>2 DEF ExtendWrite
<1>3. ASSUME NEW d \in Dev, Skip(d) PROVE ScriptInv'
  BY <1>3 DEF Skip, Checking
<1>4. ASSUME NEW d \in Dev, Unlisted(d) PROVE ScriptInv'
  BY <1>4 DEF Unlisted, Checking
<1>5. ASSUME NEW d \in Dev, Query(d) PROVE ScriptInv'
  BY <1>5 DEF Query, Checking
<1>6. ASSUME NEW d \in Dev, RecoverDevice(d) PROVE ScriptInv'
  BY <1>6 DEF RecoverDevice, Raise
<1>7. ASSUME NEW d \in Dev, TryAuth(d) PROVE ScriptInv'
  BY <1>7 DEF TryAuth, Raise
<1>8. ASSUME NEW d \in Dev, WaitFirst(d) PROVE ScriptInv'
  BY <1>8 DEF WaitFirst
<1>9. ASSUME NEW d \in Dev, RebootOnce(d) PROVE ScriptInv'
  BY <1>9 DEF RebootOnce, WentDown, Down
<1>10. ASSUME NEW d \in Dev, Sysrq(d) PROVE ScriptInv'
  BY <1>10 DEF Sysrq
<1>11. ASSUME NEW d \in Dev, WaitUntilFullyBooted(d) PROVE ScriptInv'
  BY <1>11 DEF WaitUntilFullyBooted
<1>12. ASSUME NEW d \in Dev, StepBoots(d) PROVE ScriptInv'
  BY <1>12 DEF StepBoots
<1>13. ASSUME NEW d \in Dev, RebootAgain(d) PROVE ScriptInv'
  BY <1>13 DEF RebootAgain, WentDown, Down
<1>14. ASSUME NEW d \in Dev, BootedAgain(d) PROVE ScriptInv'
  BY <1>14 DEF BootedAgain
<1>15. ASSUME NEW d \in Dev, Cmd(d) PROVE ScriptInv'
  BY <1>15 DEF Cmd, Raise, Properties, Reboots
<1>16. ASSUME NEW d \in Dev, Restart(d) PROVE ScriptInv'
  BY <1>16 DEF Restart, WentDown, Down
<1>17. ASSUME NEW d \in Dev, WaitForDevice(d) PROVE ScriptInv'
  BY <1>17 DEF WaitForDevice
<1>18. ASSUME NEW d \in Dev, Boots(d) PROVE ScriptInv'
  BY <1>18 DEF Boots
<1>19. ASSUME NEW d \in Dev, GoesDown(d) PROVE ScriptInv'
  BY <1>19 DEF GoesDown, Down
<1>20. ASSUME NEW d \in Dev, Trouble(d) PROVE ScriptInv'
  BY <1>20 DEF Trouble
<1>21. CASE StartStatus
  BY <1>21 DEF StartStatus, Begin, List
<1>22. CASE StartRecovery
  BY <1>22 DEF StartRecovery, Begin, List
<1>23. CASE StartProvision
  BY <1>23 DEF StartProvision, Begin, List, Healthy
<1>24. CASE End
  BY <1>24 DEF End
<1>25. CASE StatusEnds
  BY <1>25 DEF StatusEnds
<1>26. CASE Recover
  BY <1>26 DEF Recover
<1>27. CASE UNCHANGED fleetVars
  BY <1>27 DEF fleetVars
<1> QED
  BY <1>1, <1>2, <1>3, <1>4, <1>5, <1>6, <1>7, <1>8, <1>9, <1>10, <1>11, <1>12, <1>13,
     <1>14, <1>15, <1>16, <1>17, <1>18, <1>19, <1>20, <1>21, <1>22, <1>23, <1>24, <1>25,
     <1>26, <1>27, Zenon DEF FleetNext, Thread
------------------------------------------------------------------------------
(* Theorems                                                                    *)

\* The invariant holds in every reachable state.
LEMMA Invariant == FleetSpec => []IInv
<1>1. FleetInit => IInv
  BY FileInit, ScriptInit DEF IInv
<1>2. IInv /\ [FleetNext]_fleetVars => IInv'
  BY FileStep, ScriptStep DEF IInv
<1> QED BY <1>1, <1>2, PTL DEF FleetSpec

\* Every variable keeps within its type: the blacklist names devices of the lab only,
\* and provisioning never goes past its list of steps.
THEOREM FleetTypeCorrect == FleetSpec => []TypeOK
<1>1. IInv => TypeOK
  BY DEF IInv, FileInv, Types
<1> QED BY <1>1, Invariant, PTL

\* No failure that a thread has reported is lost from the blacklist file to the
\* reports of the others (device_blacklist.Extend).
THEOREM FailuresReachTheFile == FleetSpec => []FailuresAreListed
<1>1. IInv => FailuresAreListed
  BY DEF IInv, FileInv, Reported, Quiet, AllDone, At, Types, Extending, FailuresAreListed, Ended
<1> QED BY <1>1, Invariant, PTL

\* What device_recovery and provision_devices leave outside of the blacklist is done:
\* rebooted and up, provisioned by every step, the properties that were written in effect;
\* but for the devices whose thread raised what it does not catch.
THEOREM UnlistedDevicesAreDone == FleetSpec => []UnlistedIsDone
<1>1. IInv => RecoveredHasBooted
  BY DEF IInv, FileInv, Quiet, AllDone, At, ScriptInv, Rebooted, RecoveredHasBooted, Ended
<1>2. IInv => StepsOnBooted
  BY DEF IInv, ScriptInv, FreshWhenUp, StepsOnBooted, At
<1>3. IInv => ProvisionedCompletely
  BY DEF IInv, ScriptInv
<1>4. IInv => UnlistedIsDone
  BY <1>1, <1>2, <1>3 DEF UnlistedIsDone
<1> QED BY <1>4, Invariant, PTL

-------------------------------------------------------------------------------
(* The dependency manager                                                       *)


\* Where a process has the lock of the file, and where it has the global lock.
Inside  == {"inside", "checkts", "opents", "writets", "compare", "copy", "copying", "move",
            "verify", "release"}
Global  == {"open", "flock", "unlock", "remove"}
Outer   == {"idle", "acquire", "released", "timeout", "dead", "chmod", "check", "remove_stale",
            "unzip", "extract", "return"}
Place   == Inside \cup Global \cup Outer
Holding == Inside \cup {"unlock"}

LockType == /\ global \in Proc \cup {"free"}
            /\ path \in 0 .. 2
            /\ fd \in [Proc -> 0 .. 2]
            /\ has \in [Proc -> BOOLEAN]
            /\ at \in [Proc -> Place]

\* The place of a process tells which locks it has.
GlobalIsHeld == \A p \in Proc : at[p] \in Global => global = p
HoldersPlace == \A p \in Proc : has[p] <=> at[p] \in Holding

\* A lock that is held is the one on the file now at the path: nobody removes the
\* file of another, as who removes it had its lock and has kept the global one.
HoldersFile  == \A p \in Proc : has[p] \/ at[p] = "flock" => fd[p] = path /\ path # 0
NobodysFile  == \A p, q \in Proc : at[p] = "remove" => ~has[q]

LockInv == LockType /\ GlobalIsHeld /\ HoldersPlace /\ HoldersFile /\ NobodysFile
           /\ OneHolderAtATime

\* A step of the programs: the lock stays as it is, and its holder stays inside.
ProgramStep(p) ==
  /\ KeepLock
  /\ \E s \in Place : Go(p, s) /\ \/ at[p] \in Inside /\ s \in Inside
                                  \/ at[p] \in Outer /\ s \in Outer

LockNext == \/ \E p \in Proc : LockStep(p) \/ GiveUp(p) \/ Freed(p) \/ ProgramStep(p)
            \/ UNCHANGED lockVars
-------------------------------------------------------------------------------
\* The lock starts free, at most with a file that was left behind.
LEMMA LockStarts == LockInit => LockInv
BY DEF LockInit, LockInv, LockType, GlobalIsHeld, HoldersPlace, HoldersFile, NobodysFile,
   OneHolderAtATime, Place, Inside, Global, Outer, Holding

\* No step of the protocol, no death and no step of the programs breaks it.
LEMMA LockStays == LockInv /\ LockNext => LockInv'
<1> USE DEF LockInv, LockType, GlobalIsHeld, HoldersPlace, HoldersFile, NobodysFile,
            OneHolderAtATime, Inside, Global, Outer, Place, Holding, Go
<1> SUFFICES ASSUME LockInv, LockNext PROVE LockInv'
  OBVIOUS
<1>1. ASSUME NEW p \in Proc, TryAcquire(p) PROVE LockInv'
  BY <1>1, FreeAssumption DEF TryAcquire, GlobalLock
<1>2. ASSUME NEW p \in Proc, Open(p) PROVE LockInv'
  BY <1>2 DEF Open, Inode, InUse
<1>3. ASSUME NEW p \in Proc, Flock(p) PROVE LockInv'
  <2>1. at[p] = "flock" /\ fd[p] = path /\ path # 0 /\ global = p /\ ~has[p]
    BY <1>3 DEF Flock
  <2>2. CASE Locked(fd[p])
    BY <1>3, <2>1, <2>2 DEF Flock
  <2>3. CASE ~Locked(fd[p])
    <3>1. \A q \in Proc : ~has[q]
      BY <2>1, <2>3 DEF Locked
    <3>2. /\ global' = "free" /\ path' = path /\ fd' = fd
          /\ has' = [has EXCEPT ![p] = TRUE] /\ at' = [at EXCEPT ![p] = "inside"]
      BY <1>3, <2>3 DEF Flock
    <3>3. \A q \in Proc \ {p} : ~has'[q] /\ at'[q] = at[q] /\ at[q] \notin Global
      BY <2>1, <3>1, <3>2
    <3>4. has'[p] /\ at'[p] = "inside"
      BY <3>2
    <3>5. LockType'
      BY <3>2
    <3>6. GlobalIsHeld' /\ HoldersPlace' /\ HoldersFile' /\ NobodysFile' /\ OneHolderAtATime'
      BY <2>1, <3>1, <3>2, <3>3, <3>4
    <3> QED BY <3>5, <3>6
  <2> QED BY <2>2, <2>3
<1>4. ASSUME NEW p \in Proc, TryRelease(p) PROVE LockInv'
  BY <1>4, FreeAssumption DEF TryRelease, GlobalLock
<1>5. ASSUME NEW p \in Proc, Unlock(p) PROVE LockInv'
  BY <1>5 DEF Unlock
<1>6. ASSUME NEW p \in Proc, Remove(p) PROVE LockInv'
  BY <1>6 DEF Remove
<1>7. ASSUME NEW p \in Proc, GiveUp(p) PROVE LockInv'
  BY <1>7 DEF GiveUp
<1>8. ASSUME NEW p \in Proc, Freed(p) PROVE LockInv'
  BY <1>8 DEF Freed
<1>9. ASSUME NEW p \in Proc, ProgramStep(p) PROVE LockInv'
  BY <1>9 DEF ProgramStep, KeepLock
<1>10. CASE UNCHANGED lockVars
  BY <1>10 DEF lockVars
<1> QED BY <1>1, <1>2, <1>3, <1>4, <1>5, <1>6, <1>7, <1>8, <1>9, <1>10 DEF LockNext, LockStep

\* What the programs do is a step of the lock, of a death, or within its holder.
LEMMA ProgramsKeepTheLock ==
  LockInv /\ [FetchSide \/ UpdateSide \/ LookupSide]_<<vars, side, updateVars, lookVars>>
  => LockNext
<1> SUFFICES ASSUME LockInv,
                    [FetchSide \/ UpdateSide \/ LookupSide]_<<vars, side, updateVars, lookVars>>
             PROVE LockNext
  OBVIOUS
<1> USE DEF LockNext, ProgramStep, Inside, Global, Outer, Place
<1>1. ASSUME NEW p \in Proc, CloudStep(p) PROVE LockNext
  <2>1. CASE Call(p)
    BY <2>1 DEF Call
  <2>2. CASE ReadHash(p)
    BY <2>2 DEF ReadHash, Answer
  <2>3. CASE CheckTs(p)
    BY <2>3 DEF CheckTs, Answer
  <2>4. CASE WriteTs(p)
    BY <2>4 DEF WriteTs
  <2>5. CASE Compare(p)
    BY <2>5 DEF Compare, Answer
  <2>6. CASE Copy(p)
    BY <2>6 DEF Copy
  <2>7. CASE Copied(p)
    BY <2>7 DEF Copied, Answer
  <2>8. CASE Move(p)
    BY <2>8 DEF Move, Answer
  <2>9. CASE Verify(p)
    BY <2>9 DEF Verify, Answer
  <2>10. CASE Die(p)
    BY <2>10 DEF Die
  <2> QED BY <1>1, <2>1, <2>2, <2>3, <2>4, <2>5, <2>6, <2>7, <2>8, <2>9, <2>10 DEF CloudStep
<1>2. ASSUME NEW p \in Proc, After(p) PROVE LockNext
  <2>1. CASE Return(p)
    BY <2>1 DEF Return, Finish, Stay, Outside
  <2>2. CASE Chmod(p)
    BY <2>2 DEF Chmod, Stay, Outside
  <2>3. CASE ShouldUnzip(p)
    BY <2>3 DEF ShouldUnzip, Stay, Outside
  <2>4. CASE RemoveStale(p)
    BY <2>4 DEF RemoveStale, Stay, Outside
  <2>5. CASE Unzip(p)
    BY <2>5 DEF Unzip, Finish, Stay, Outside
  <2>6. CASE Extract(p)
    BY <2>6 DEF Extract, Members, Finish, Stay, Outside
  <2>7. CASE Deliver(p)
    BY <2>7 DEF Deliver, Finish, Outside
  <2> QED BY <1>2, <2>1, <2>2, <2>3, <2>4, <2>5, <2>6, <2>7 DEF After
<1>3. CASE FetchSide
  <2>1. ASSUME NEW p \in Proc, FetchLocal(p) \/ Download(p) \/ Lock(p) \/ After(p) PROVE LockNext
    BY <2>1, <1>1, <1>2 DEF FetchLocal, Download, Lock
  <2>2. CASE Environment
    BY <2>2 DEF Environment, Sync, Tick
  <2> QED BY <1>3, <2>1, <2>2 DEF FetchSide, Next, Step
<1>4. CASE UpdateSide \/ LookupSide \/ UNCHANGED <<vars, side, updateVars, lookVars>>
  BY <1>4 DEF UpdateSide, LookupSide, vars
<1> QED BY <1>3, <1>4

\* Two processes never have the lock of one file at once: the lock file is removed
\* only under the global lock and by who had its lock, so no process is left with a
\* lock on a file that is gone from the path while another locks its successor
\* (_FileLock, cloud_storage.py).
THEOREM OneHolder == DependenciesSpec => []OneHolderAtATime
<1>1. Start => LockInv
  BY LockStarts DEF Start, Init
<1>2. LockInv /\ [FetchSide \/ UpdateSide \/ LookupSide]_<<vars, side, updateVars, lookVars>>
      => LockInv'
  BY LockStays, ProgramsKeepTheLock
<1>3. LockInv => OneHolderAtATime
  BY DEF LockInv
<1> QED BY <1>1, <1>2, <1>3, PTL DEF DependenciesSpec
-------------------------------------------------------------------------------
(* The rollback of ExecuteUpdateJobs.                                          *)

Upload == [to : Hash, updated : BOOLEAN, backed_up : BOOLEAN,
           backup : Hash \cup {Update!NonePath}]
Jobs   == DOMAIN pending

UpdateType == /\ pending \in Seq(Upload)
              /\ store \in [Hash -> Hash \cup {Update!Nothing, Update!Earlier}]
              /\ before = <<before[1], before[2]>>
              /\ before[1] \in [Hash -> Hash \cup {Update!Nothing, Update!Earlier}]
              /\ DOMAIN data = Platform
              /\ backup \in [Hash \cup {Update!NonePath}
                                -> Hash \cup {Update!Nothing, Update!Earlier}]
              /\ item \in Nat /\ behind \subseteq Hash
              /\ hit \in BOOLEAN /\ tangled \in BOOLEAN /\ force \in BOOLEAN

Uploads == {"exists", "insert"}
Running == Uploads \cup {"write", "rollback"}

\* A run is at one of its uploads, the last one when it writes.
AtUpload == /\ step \in Running => item \in Jobs
            /\ step = "write" => item = Len(pending)

\* What the config names and the file does not is to be uploaded, and is there when
\* its upload has been.
Queued   == disk # Update!Torn => \A f \in Platform :
              data[f] \in Hash /\ data[f] # disk[f] => \E i \in Jobs : pending[i].to = data[f]
Uploaded == step \in Uploads \cup {"write"} => \A i \in Jobs :
              i < item \/ step = "write" => store[pending[i].to] = pending[i].to
FileStays == /\ step \in Uploads \cup {"write"} => disk = before[2] /\ disk # Update!Torn
             /\ step = "rollback" => disk = before[2] \/ hit
             /\ step \in Uploads \cup {"write"} => behind = {}
Named    == step = "done" => \A f \in Platform :
              disk[f] \in Hash => disk[f] = before[2][f] \/ store[disk[f]] = disk[f]

\* Uploads are marked in their order.
Marked == /\ \A i \in Jobs : ~pending[i].backed_up => pending[i].backup = pending[i].to
          /\ ~tangled /\ step \in Uploads => \A i \in Jobs :
               /\ i < item => pending[i].updated
               /\ i >= item => ~pending[i].updated
               /\ i > item \/ (i = item /\ step = "exists") => ~pending[i].backed_up

\* The uploads the rollback has still to undo, of a run that it can undo.
Live(i) == /\ step = "rollback" => i <= item
           /\ pending[i].updated \/ pending[i].backed_up
Undoable == ~tangled /\ step \in Running

\* Each has a place of its own, of which it knows what was there before; everywhere
\* else there is what was there before, or over nothing what is left behind.
OwnPlaces   == Undoable => \A i, j \in Jobs :
                 i # j /\ (force \/ (Live(i) /\ Live(j))) => pending[i].to # pending[j].to
KnowsBefore == Undoable => \A i \in Jobs : Live(i) =>
  /\ pending[i].backup = pending[i].to
  /\ IF pending[i].backed_up THEN force /\ backup[pending[i].to] = before[1][pending[i].to]
                             ELSE before[1][pending[i].to] = Update!Nothing
HasNewOrOld == Undoable => \A i \in Jobs : Live(i) =>
  /\ pending[i].to \notin behind
  /\ store[pending[i].to] \in {pending[i].to, before[1][pending[i].to]}
LeftBehind(o) == o \in behind /\ store[o] = o /\ before[1][o] = Update!Nothing
RestIsAsBefore == Undoable => \A o \in Hash :
  store[o] = before[1][o] \/ LeftBehind(o) \/ \E i \in Jobs : Live(i) /\ pending[i].to = o
IntoNothing == Undoable /\ step = "insert" /\ ~pending[item].backed_up =>
                 store[pending[item].to] = Update!Nothing
Undone == step = "undone" /\ ~tangled =>
  /\ disk = before[2] \/ hit
  /\ \A o \in Hash : store[o] # before[1][o] =>
       o \in behind /\ store[o] = o /\ before[1][o] \in {Update!Nothing, backup[o]}

UpdateInv == UpdateType /\ AtUpload /\ Queued /\ Uploaded /\ FileStays /\ Named /\ Marked
             /\ OwnPlaces /\ KnowsBefore /\ HasNewOrOld /\ RestIsAsBefore /\ IntoNothing /\ Undone

\* What stands for no hash is none.
LEMMA NoHash ==
  /\ Update!Nothing \notin Hash /\ Update!Unnamed \notin Hash /\ Update!Absent \notin Hash
  /\ Update!Hashless \notin Hash
BY HashAssumption

\* The tool starts with nothing queued and nothing done.
LEMMA UpdateStarts == Start => UpdateInv
<1> SUFFICES ASSUME Update!Init PROVE UpdateInv
  BY DEF Start
<1>1. pending = <<>> /\ step = "idle" /\ item = 0 /\ disk = data /\ behind = {} /\ ~tangled /\ ~force
      /\ before = <<store, disk>>
  BY DEF Update!Init
<1>2. /\ DOMAIN data = Platform
      /\ store \in [Hash -> Hash \cup {Update!Nothing, Update!Earlier}]
      /\ backup \in [Hash \cup {Update!NonePath} -> Hash \cup {Update!Nothing, Update!Earlier}]
  BY DEF Update!Init
<1>3. before[1] = store
  BY <1>1
<1>4. pending \in Seq(Upload)
  BY <1>1
<1>5. UpdateType
  <2>1. hit \in BOOLEAN /\ tangled \in BOOLEAN /\ force \in BOOLEAN
    BY ONLY Update!Init DEF Update!Init
  <2> QED BY <1>1, <1>2, <1>3, <1>4, <2>1 DEF UpdateType
<1>6. UpdateInv
  BY <1>1, <1>5 DEF UpdateInv, AtUpload, Queued, Uploaded, FileStays, Named, Marked, OwnPlaces,
     KnowsBefore, HasNewOrOld, RestIsAsBefore, LeftBehind, IntoNothing, Undone, Undoable, Uploads, Running, Jobs
<1> QED BY <1>6

\* The queue is a sequence of uploads.
LEMMA JobsOfQueue ==
  ASSUME UpdateType
  PROVE  /\ Jobs = 1 .. Len(pending) /\ Len(pending) \in Nat
         /\ \A i \in Jobs : pending[i] \in Upload
BY DEF UpdateType, Jobs

\* A queue with another upload in the place of one.
LEMMA QueueWith ==
  ASSUME NEW s \in Seq(Upload), NEW i \in DOMAIN s, NEW u \in Upload
  PROVE  /\ [s EXCEPT ![i] = u] \in Seq(Upload)
         /\ DOMAIN [s EXCEPT ![i] = u] = DOMAIN s
         /\ [s EXCEPT ![i] = u][i] = u
         /\ \A j \in DOMAIN s : j # i => [s EXCEPT ![i] = u][j] = s[j]
OBVIOUS

\* Between two runs: an edit, and with it an upload at the end of the queue.
LEMMA EditKeepsUpdate ==
  ASSUME UpdateInv, Update!AddNewDependency \/ Update!SetDownloadPath \/ Update!AddJob
  PROVE  UpdateInv'
<1>1. step = "idle" /\ disk # Update!Torn
      /\ UNCHANGED <<disk, store, backup, step, item, force, runs, before, behind, hit, tangled>>
  BY DEF Update!AddNewDependency, Update!SetDownloadPath, Update!AddJob, Update!Edit
<1> DEFINE U(o) == [to |-> o, updated |-> FALSE, backed_up |-> FALSE, backup |-> o]
<1>2. \/ UNCHANGED pending /\ \A f \in Platform : data'[f] = data[f] \/ data'[f] \notin Hash
      \/ \E o \in Hash : /\ pending' = Append(pending, U(o))
                         /\ \A f \in Platform : data'[f] = data[f] \/ data'[f] = o
  <2>1. CASE Update!AddNewDependency
    BY <2>1, NoHash DEF Update!AddNewDependency, Update!Edit
  <2>2. CASE Update!SetDownloadPath
    <3> PICK f \in Platform : data' = [data EXCEPT ![f] = Update!Hashless]
      BY <2>2 DEF Update!SetDownloadPath
    <3> QED BY <2>2, NoHash DEF Update!SetDownloadPath, Update!Edit, UpdateInv, UpdateType
  <2>3. CASE Update!AddJob
    <3> PICK f \in Platform, o \in Hash : /\ data' = [data EXCEPT ![f] = o]
                                          /\ pending' = Append(pending, Update!Upload_(o))
      BY <2>3 DEF Update!AddJob, Update!Set
    <3> QED BY DEF Update!Upload_, UpdateInv, UpdateType
  <2> QED BY <2>1, <2>2, <2>3
<1> USE DEF UpdateInv
<1>0. DOMAIN data' = Platform
  BY DEF Update!AddNewDependency, Update!SetDownloadPath, Update!AddJob, Update!Edit, Update!Set,
         UpdateType
<1>3. CASE UNCHANGED pending /\ \A f \in Platform : data'[f] = data[f] \/ data'[f] \notin Hash
  BY <1>0, <1>1, <1>3
     DEF UpdateType, AtUpload, Queued, Uploaded, FileStays, Named, Marked, OwnPlaces,
     KnowsBefore, HasNewOrOld, RestIsAsBefore, LeftBehind, IntoNothing, Undone, Undoable, Uploads, Running, Jobs
<1>4. ASSUME NEW o \in Hash, pending' = Append(pending, U(o)),
             \A f \in Platform : data'[f] = data[f] \/ data'[f] = o
      PROVE  UpdateInv'
  <2>1. U(o) \in Upload /\ pending' \in Seq(Upload)
    BY <1>4 DEF Upload, UpdateType
  <2>2. /\ Jobs' = 1 .. Len(pending) + 1 /\ Len(pending) \in Nat /\ Jobs = 1 .. Len(pending)
        /\ \A i \in Jobs : pending'[i] = pending[i]
        /\ pending'[Len(pending) + 1] = U(o)
    BY <1>4, <2>1 DEF UpdateType, Jobs
  <2> HIDE DEF U
  <2>3. /\ U(o).to = o /\ ~U(o).updated /\ ~U(o).backed_up /\ U(o).backup = o
    BY DEF U
  <2>4. UpdateType'
    BY <1>0, <1>1, <2>1 DEF UpdateType
  <2>5. Queued'
    BY <1>1, <1>4, <2>2, <2>3 DEF Queued
  <2>6. Marked'
    BY <1>1, <2>2, <2>3 DEF Marked, Running, Uploads
  <2> QED BY <1>1, <2>4, <2>5, <2>6 DEF AtUpload, Uploaded, FileStays, Named, OwnPlaces,
       KnowsBefore, HasNewOrOld, RestIsAsBefore, LeftBehind, IntoNothing, Undone, Undoable, Uploads, Running
<1> QED BY <1>2, <1>3, <1>4
\* The caller has its answer.
LEMMA AnswerKeepsUpdate ==
  ASSUME UpdateInv, Update!Answer PROVE UpdateInv'
<1> USE DEF UpdateInv, Update!Answer
<1>1. UpdateType'
  BY DEF UpdateType
<1>2. Queued' /\ Marked'
  BY DEF Queued, Marked, Jobs, Running, Uploads
<1> QED BY <1>1, <1>2 DEF AtUpload, Uploaded, FileStays, Named, OwnPlaces, KnowsBefore,
     HasNewOrOld, RestIsAsBefore, LeftBehind, IntoNothing, Undone, Undoable, Uploads, Running

\* A run that is not tangled begins with nothing marked.
LEMMA ExecuteKeepsUpdate ==
  ASSUME UpdateInv, Update!Execute PROVE UpdateInv'
<1> USE DEF UpdateInv
<1>1. /\ step = "idle" /\ disk # Update!Torn /\ force' \in BOOLEAN
      /\ tangled' = ~Update!Separate(force') /\ before' = <<store, disk>>
      /\ behind' = {} /\ hit' = FALSE /\ UNCHANGED <<disk, data, pending, store, backup>>
  BY DEF Update!Execute
<1>2. UpdateType'
  <2>1. item' \in Nat
    BY DEF Update!Execute
  <2>2. tangled' \in BOOLEAN
    BY <1>1
  <2>3. before'[1] = store
    BY <1>1
  <2> QED BY <1>1, <2>1, <2>2, <2>3 DEF UpdateType
<1>3. CASE pending = <<>>
  <2>1. step' = "done" /\ before'[2] = disk
    BY <1>1, <1>3 DEF Update!Execute
  <2> QED BY <1>1, <1>2, <1>3, <2>1 DEF AtUpload, Queued, Uploaded, FileStays, Named, Marked,
       OwnPlaces, KnowsBefore, HasNewOrOld, RestIsAsBefore, LeftBehind, IntoNothing, Undone,
       Undoable, Uploads, Running, Jobs
<1>4. CASE pending # <<>>
  <2>1. step' = "exists" /\ item' = 1 /\ before'[1] = store /\ before'[2] = disk
    BY <1>1, <1>4 DEF Update!Execute
  <2>2. 1 \in Jobs /\ Jobs' = Jobs /\ Jobs \subseteq Nat \ {0}
    BY <1>1, <1>4, JobsOfQueue DEF UpdateType, Jobs
  <2>4. ~tangled' => /\ \A i \in Jobs : ~pending[i].backed_up /\ ~pending[i].updated
                     /\ force' => \A i, j \in Jobs : i # j => pending[i].to # pending[j].to
    BY <1>1 DEF Update!Separate, Jobs
  <2>5. AtUpload' /\ Queued' /\ Uploaded' /\ FileStays' /\ Named' /\ IntoNothing' /\ Undone'
    <3>1. FileStays'
      BY <1>1, <2>1 DEF FileStays
    <3>2. AtUpload' /\ Uploaded'
      BY <2>1, <2>2 DEF AtUpload, Uploaded
    <3>3. Queued'
      BY <1>1 DEF Queued, Jobs
    <3>4. Named' /\ IntoNothing' /\ Undone'
      BY <2>1 DEF Named, IntoNothing, Undone
    <3> QED BY <3>1, <3>2, <3>3, <3>4
  <2>6. Marked'
    <3>1. \A i \in Jobs : ~pending'[i].backed_up => pending'[i].backup = pending'[i].to
      BY <1>1 DEF Marked
    <3>2. ASSUME ~tangled', NEW i \in Jobs
          PROVE  ~pending'[i].updated /\ ~pending'[i].backed_up /\ ~(i < item')
      BY <1>1, <2>1, <2>2, <2>4, <3>2
    <3> QED BY <2>2, <3>1, <3>2 DEF Marked
  <2>7. OwnPlaces' /\ KnowsBefore' /\ HasNewOrOld' /\ RestIsAsBefore'
    BY <1>1, <2>1, <2>2, <2>4 DEF OwnPlaces, KnowsBefore, HasNewOrOld, RestIsAsBefore, LeftBehind,
       Undoable, Live
  <2> QED BY <1>2, <2>5, <2>6, <2>7
<1> QED BY <1>3, <1>4

\* The config is written when all uploads are there; a file torn is not undone.
LEMMA WriteKeepsUpdate ==
  ASSUME UpdateInv, Update!Write PROVE UpdateInv'
<1> USE DEF UpdateInv
<1>1. /\ step = "write" /\ item = Len(pending) /\ item \in Jobs /\ disk = before[2]
      /\ disk # Update!Torn
      /\ UNCHANGED <<data, store, backup, force, runs, before, behind, tangled>>
  BY DEF Update!Write, AtUpload, FileStays, Running
<1>2. CASE disk' = data /\ pending' = <<>> /\ step' = "done" /\ item' = 0 /\ UNCHANGED hit
  <2>1. UpdateType'
    <3>1. pending' \in Seq(Upload)
      BY <1>2
    <3> QED BY <1>1, <1>2, <3>1 DEF UpdateType
  <2>2. Named'
    BY <1>1, <1>2 DEF Named, Queued, Uploaded
  <2>3. Jobs' = {}
    BY <1>2 DEF Jobs
  <2> QED BY <1>1, <1>2, <2>1, <2>2, <2>3 DEF AtUpload, Queued, Uploaded, FileStays, Marked,
       OwnPlaces, KnowsBefore, HasNewOrOld, RestIsAsBefore, LeftBehind, IntoNothing, Undone, Undoable, Uploads, Running
<1>3. CASE /\ Update!Undo /\ UNCHANGED pending
           /\ \/ UNCHANGED <<disk, hit>>
              \/ disk' \in {Update!Torn, data} /\ hit' = TRUE
  <2>1. step' = "rollback" /\ item' = item /\ Jobs' = Jobs /\ Jobs = 1 .. item /\ item \in Nat
    BY <1>1, <1>3, JobsOfQueue DEF Update!Undo, Jobs
  <2>2. UpdateType'
    BY <1>1, <1>3, <2>1 DEF UpdateType
  <2>3. AtUpload' /\ Uploaded' /\ FileStays' /\ Named' /\ IntoNothing' /\ Undone'
    BY <1>1, <1>3, <2>1 DEF AtUpload, Uploaded, FileStays, Named, IntoNothing, Undone,
       Uploads, Running
  <2>4. Queued'
    BY <1>1, <1>3, <2>1 DEF Queued
  <2>5. Marked'
    BY <1>1, <1>3, <2>1 DEF Marked, Uploads, Running
  <2>6. OwnPlaces' /\ KnowsBefore' /\ HasNewOrOld' /\ RestIsAsBefore'
    BY <1>1, <1>3, <2>1 DEF OwnPlaces, KnowsBefore, HasNewOrOld, RestIsAsBefore, LeftBehind, Undoable, Live, Running
  <2> QED BY <2>2, <2>3, <2>4, <2>5, <2>6
<1> QED BY <1>2, <1>3 DEF Update!Write

\* An object in the way is what was there before the run: nothing of the run is there
\* yet, as with force each upload has a place of its own.
LEMMA ExistsKeepsUpdate ==
  ASSUME UpdateInv, Update!Exists PROVE UpdateInv'
<1> USE DEF UpdateInv
<1> DEFINE item0 == pending[item]
<1>1. /\ step = "exists" /\ item \in Jobs /\ item \in Nat /\ disk = before[2] /\ disk # Update!Torn
      /\ Jobs = 1 .. Len(pending) /\ Len(pending) \in Nat /\ pending[item] \in Upload
      /\ UNCHANGED <<store, behind, hit, disk, data, force, runs, before, tangled>>
  BY JobsOfQueue DEF Update!Exists, AtUpload, FileStays, Running, Uploads, Update!Keep
<1>2. CASE /\ store[pending[item].to] = Update!Nothing
           /\ step' = "insert" /\ UNCHANGED <<pending, item, backup>>
  <2>1. Jobs' = Jobs
    BY <1>2 DEF Jobs
  <2>2. UpdateType'
    BY <1>1, <1>2 DEF UpdateType
  <2>3. AtUpload' /\ Uploaded' /\ FileStays' /\ Named' /\ IntoNothing' /\ Undone' /\ Queued'
    BY <1>1, <1>2, <2>1 DEF AtUpload, Uploaded, FileStays, Named, IntoNothing, Undone, Queued,
       Uploads, Running
  <2>5. Marked'
    BY <1>1, <1>2, <2>1 DEF Marked, Uploads, Running
  <2>6. OwnPlaces' /\ KnowsBefore' /\ HasNewOrOld' /\ RestIsAsBefore'
    BY <1>1, <1>2, <2>1 DEF OwnPlaces, KnowsBefore, HasNewOrOld, RestIsAsBefore, LeftBehind, Undoable, Live, Running, Uploads
  <2> QED BY <2>2, <2>3, <2>5, <2>6
<1>3. CASE /\ store[pending[item].to] # Update!Nothing /\ force
           /\ backup' = [backup EXCEPT ![pending[item].backup] = store[pending[item].to]]
           /\ pending' = [pending EXCEPT ![item].backed_up = TRUE]
           /\ step' = "insert" /\ UNCHANGED item
  <2>1. /\ Jobs' = Jobs /\ pending' \in Seq(Upload)
        /\ \A i \in Jobs : i # item => pending'[i] = pending[i]
        /\ pending'[item] = [pending[item] EXCEPT !.backed_up = TRUE]
    <3>1. [pending[item] EXCEPT !.backed_up = TRUE] \in Upload
      BY <1>1 DEF Upload
    <3> QED BY <1>1, <1>3, <3>1, QueueWith DEF UpdateType, Jobs
  <2>2. /\ pending'[item].to = pending[item].to /\ pending'[item].backup = pending[item].backup
        /\ pending'[item].updated = pending[item].updated /\ pending'[item].backed_up
    BY <1>1, <2>1 DEF Upload
  <2>3. \A i \in Jobs : pending'[i].to = pending[i].to
    BY <2>1, <2>2
  <2>4. UpdateType'
    <3>1. backup' \in [Hash \cup {Update!NonePath} -> Hash \cup {Update!Nothing, Update!Earlier}]
      BY <1>1, <1>3 DEF UpdateType, Upload
    <3> QED BY <1>1, <1>3, <2>1, <3>1 DEF UpdateType
  <2>5. AtUpload' /\ Uploaded' /\ FileStays' /\ Named' /\ IntoNothing' /\ Undone' /\ Queued'
    BY <1>1, <1>3, <2>1, <2>2, <2>3 DEF AtUpload, Uploaded, FileStays, Named, IntoNothing, Undone,
       Queued, Uploads, Running
  <2>6. Marked'
    BY <1>1, <1>3, <2>1, <2>2 DEF Marked, Uploads, Running
  <2>7. ASSUME Undoable' PROVE OwnPlaces' /\ KnowsBefore' /\ HasNewOrOld' /\ RestIsAsBefore'
    <3>1. /\ Undoable /\ ~Live(item) /\ pending[item].backup = pending[item].to
          /\ \A i \in Jobs : Live(i)' <=> Live(i) \/ i = item
      BY <1>1, <1>3, <2>1, <2>2, <2>7 DEF Undoable, Live, Marked, Uploads, Running
    <3>2. \A i, j \in Jobs : i # j => pending[i].to # pending[j].to
      BY <1>3, <3>1 DEF OwnPlaces
    <3>3. OwnPlaces'
      BY <2>1, <2>3, <3>2 DEF OwnPlaces
    <3>4. RestIsAsBefore'
      BY <1>1, <2>1, <2>3, <3>1 DEF RestIsAsBefore, LeftBehind
    <3>5. store[pending[item].to] = before[1][pending[item].to]
      BY <1>1, <3>1, <3>2 DEF RestIsAsBefore, LeftBehind, FileStays, Uploads, Upload
    <3>6. pending[item].to \in DOMAIN backup
      BY <1>1 DEF UpdateType, Upload
    <3>7. backup'[pending[item].to] = store[pending[item].to]
          /\ \A i \in Jobs : i # item => backup'[pending[i].to] = backup[pending[i].to]
      <4>1. \A i \in Jobs : pending[i].to \in DOMAIN backup
        BY JobsOfQueue DEF UpdateType, Upload
      <4> QED BY <1>1, <1>3, <3>1, <3>2, <3>6, <4>1
    <3>8. KnowsBefore'
      BY <1>1, <1>3, <2>1, <2>2, <3>1, <3>5, <3>7 DEF KnowsBefore
    <3>9. HasNewOrOld'
      BY <1>1, <1>3, <2>1, <2>3, <3>1, <3>5 DEF HasNewOrOld, FileStays, Uploads
    <3> QED BY <3>3, <3>4, <3>8, <3>9
  <2> QED BY <2>4, <2>5, <2>6, <2>7 DEF OwnPlaces, KnowsBefore, HasNewOrOld, RestIsAsBefore, LeftBehind
<1>4. CASE Update!Undo /\ UNCHANGED pending
           /\ \/ UNCHANGED backup
              \/ force /\ backup' = [backup EXCEPT ![pending[item].backup] = store[pending[item].to]]
  <2>1. step' = "rollback" /\ item' = Len(pending) /\ Jobs' = Jobs
    BY <1>4 DEF Update!Undo, Jobs
  <2>2. UpdateType'
    <3>1. backup' \in [Hash \cup {Update!NonePath} -> Hash \cup {Update!Nothing, Update!Earlier}]
      BY <1>1, <1>4 DEF UpdateType, Upload
    <3> QED BY <1>1, <1>4, <2>1, <3>1 DEF UpdateType
  <2>3. AtUpload' /\ Uploaded' /\ FileStays' /\ Named' /\ IntoNothing' /\ Undone' /\ Queued'
    BY <1>1, <1>4, <2>1 DEF AtUpload, Uploaded, FileStays, Named, IntoNothing, Undone, Queued,
       Uploads, Running
  <2>5. Marked'
    BY <1>1, <1>4, <2>1 DEF Marked, Uploads, Running
  <2>6. OwnPlaces' /\ HasNewOrOld' /\ RestIsAsBefore'
    BY <1>1, <1>4, <2>1 DEF OwnPlaces, HasNewOrOld, RestIsAsBefore, LeftBehind, Undoable, Live,
       Running, Uploads
  <2>7. ASSUME Undoable' PROVE KnowsBefore'
    <3>1. Undoable /\ ~Live(item) /\ \A i \in Jobs : Live(i)' <=> Live(i)
      BY <1>1, <1>4, <2>1, <2>7 DEF Undoable, Live, Marked, Uploads, Running
    <3>2. pending[item].backup = pending[item].to
      BY <1>1, <3>1 DEF Live, Marked, Upload
    <3>3. ASSUME NEW i \in Jobs, Live(i), pending[i].backed_up
          PROVE  backup'[pending[i].to] = backup[pending[i].to]
      <4>1. pending[i].to # pending[item].to
        BY <1>1, <3>1, <3>3 DEF OwnPlaces, KnowsBefore
      <4>2. pending[i].to \in DOMAIN backup
        BY <3>3, JobsOfQueue DEF UpdateType, Upload
      <4> QED BY <1>4, <3>2, <4>1, <4>2
    <3> QED BY <1>1, <1>4, <2>1, <3>1, <3>3 DEF KnowsBefore
  <2> QED BY <2>2, <2>3, <2>5, <2>6, <2>7 DEF KnowsBefore
<1> QED BY <1>2, <1>3, <1>4 DEF Update!Exists, Update!Item, Update!Mark

\* An upload that fails: the rollback begins at the last one.
LEMMA UndoKeepsUpdate ==
  ASSUME UpdateInv, step = "insert", Update!Undo,
         UNCHANGED <<pending, backup, store, behind, hit, disk, data, force, runs, before, tangled>>
  PROVE  UpdateInv'
<1> USE DEF UpdateInv
<1>1. /\ item \in Jobs /\ disk = before[2] /\ disk # Update!Torn
      /\ Jobs = 1 .. Len(pending) /\ Len(pending) \in Nat
      /\ step' = "rollback" /\ item' = Len(pending) /\ Jobs' = Jobs
  BY JobsOfQueue DEF AtUpload, FileStays, Running, Uploads, Update!Undo, Jobs
<1>2. UpdateType'
  BY <1>1 DEF UpdateType
<1>3. AtUpload' /\ Uploaded' /\ FileStays' /\ Named' /\ IntoNothing' /\ Undone' /\ Queued'
  BY <1>1 DEF AtUpload, Uploaded, FileStays, Named, IntoNothing, Undone, Queued, Uploads, Running
<1>5. Marked'
  BY <1>1 DEF Marked, Uploads, Running
<1>6. OwnPlaces' /\ KnowsBefore' /\ HasNewOrOld' /\ RestIsAsBefore'
  BY <1>1 DEF OwnPlaces, KnowsBefore, HasNewOrOld, RestIsAsBefore, LeftBehind, Undoable, Live, Running, Uploads
<1> QED BY <1>2, <1>3, <1>5, <1>6

\* What is inserted over nothing has nothing to be restored, also when the insertion
\* was only said to have failed, which spoils the run.
LEMMA InsertKeepsUpdate ==
  ASSUME UpdateInv, Update!Insert PROVE UpdateInv'
<1> USE DEF UpdateInv
<1>1. /\ step = "insert" /\ item \in Jobs /\ item \in Nat /\ disk = before[2] /\ disk # Update!Torn
      /\ Jobs = 1 .. Len(pending) /\ Len(pending) \in Nat
      /\ \A i \in Jobs : pending[i] \in Upload
      /\ UNCHANGED <<backup, hit, disk, data, force, runs, before, tangled>> /\ behind = {}
  BY JobsOfQueue DEF Update!Insert, AtUpload, FileStays, Running, Uploads, Update!Keep
<1>0. pending[item].to \in Hash /\ pending[item].to # Update!Nothing
  BY <1>1, NoHash DEF Upload
<1>5. ASSUME Undoable, ~pending[item].backed_up
      PROVE  /\ ~Live(item) /\ before[1][pending[item].to] = Update!Nothing
             /\ \A i \in Jobs : i # item /\ Live(i) => pending[i].to # pending[item].to
  <2>1. store[pending[item].to] = Update!Nothing
    BY <1>1, <1>5 DEF IntoNothing
  <2>2. \A i \in Jobs : i # item /\ Live(i) => i < item
    BY <1>1, <1>5 DEF Live, Marked, Undoable, Uploads
  <2>3. \A i \in Jobs : i < item => store[pending[i].to] = pending[i].to
                                    /\ pending[i].to # Update!Nothing
    BY <1>1, NoHash DEF Uploaded, Upload, Uploads
  <2>4. ~Live(item)
    BY <1>1, <1>5 DEF Live, Marked, Undoable, Uploads
  <2>5. \A i \in Jobs : i # item /\ Live(i) => pending[i].to # pending[item].to
    BY <2>1, <2>2, <2>3
  <2> QED BY <1>0, <1>1, <1>5, <2>1, <2>4, <2>5 DEF RestIsAsBefore, LeftBehind
<1>2. CASE /\ store' = [store EXCEPT ![pending[item].to] = pending[item].to]
           /\ pending' = [pending EXCEPT ![item].updated = TRUE]
           /\ IF item < Len(pending) THEN step' = "exists" /\ item' = item + 1
                                     ELSE step' = "write" /\ item' = item
           /\ UNCHANGED behind
  <2>1. /\ Jobs' = Jobs /\ pending' \in Seq(Upload) /\ Len(pending') = Len(pending)
        /\ \A i \in Jobs : i # item => pending'[i] = pending[i]
        /\ pending'[item] = [pending[item] EXCEPT !.updated = TRUE]
    <3>1. [pending[item] EXCEPT !.updated = TRUE] \in Upload
      BY <1>1 DEF Upload
    <3> QED BY <1>1, <1>2, <3>1, QueueWith DEF UpdateType, Jobs
  <2>2. /\ pending'[item].to = pending[item].to /\ pending'[item].backup = pending[item].backup
        /\ pending'[item].updated /\ pending'[item].backed_up = pending[item].backed_up
    BY <1>1, <2>1 DEF Upload
  <2>3. \A i \in Jobs : pending'[i].to = pending[i].to
    BY <2>1, <2>2
  <2>4. /\ store'[pending[item].to] = pending[item].to
        /\ \A o \in Hash : o # pending[item].to => store'[o] = store[o]
        /\ store' \in [Hash -> Hash \cup {Update!Nothing, Update!Earlier}]
    BY <1>0, <1>2 DEF UpdateType
  <2>5. step' \in {"exists", "write"} /\ item' \in Nat
    BY <1>1, <1>2
  <2>6. UpdateType'
    BY <1>1, <1>2, <2>1, <2>4, <2>5 DEF UpdateType
  <2>7. AtUpload'
    BY <1>1, <1>2, <2>1 DEF AtUpload
  <2>8. Uploaded'
    <3>1. \A i \in Jobs : i <= item => store'[pending[i].to] = pending[i].to
      BY <1>1, <2>4, JobsOfQueue DEF Uploaded, Uploads, Upload
    <3> QED BY <1>1, <1>2, <2>1, <2>3, <3>1 DEF Uploaded
  <2>9. FileStays' /\ Named' /\ IntoNothing' /\ Undone' /\ Queued'
    <3>1. FileStays'
      BY <1>1, <1>2, <2>5 DEF FileStays
    <3> QED BY <1>1, <2>1, <2>3, <2>5, <3>1 DEF Named, IntoNothing, Undone, Queued, Uploads, Running
  <2>10. Marked'
    <3>1. \A i \in Jobs : ~pending'[i].backed_up => pending'[i].backup = pending'[i].to
      BY <2>1, <2>2 DEF Marked
    <3>2. CASE step' = "write"
      BY <1>2, <2>1, <3>1, <3>2 DEF Marked, Running, Uploads
    <3>3. CASE step' = "exists"
      BY <1>1, <1>2, <2>1, <2>2, <3>1, <3>3 DEF Marked, Running, Uploads
    <3> QED BY <2>5, <3>2, <3>3
  <2>11. ASSUME Undoable' PROVE OwnPlaces' /\ KnowsBefore' /\ HasNewOrOld' /\ RestIsAsBefore'
    <3>1. /\ Undoable
          /\ \A i \in Jobs : i # item => (Live(i)' <=> Live(i))
          /\ \A i \in Jobs : i = item => Live(i)'
      <4>1. Undoable
        BY <1>1, <1>2, <2>11 DEF Undoable, Running, Uploads
      <4>2. \A i \in Jobs : i # item => (Live(i)' <=> Live(i))
        BY <1>1, <2>1, <2>5 DEF Live
      <4>3. \A i \in Jobs : i = item => Live(i)'
        BY <1>1, <2>2, <2>5, <1>2 DEF Live
      <4> QED BY <4>1, <4>2, <4>3
    <3>2. ~pending[item].backed_up =>
            /\ \A i \in Jobs : i # item /\ Live(i) => pending[i].to # pending[item].to
            /\ before[1][pending[item].to] = Update!Nothing
      BY <1>5, <3>1
    <3>3. \A i \in Jobs : i # item /\ Live(i) => pending[i].to # pending[item].to
      BY <1>1, <3>1, <3>2 DEF OwnPlaces, Live
    <3>4. OwnPlaces'
      BY <1>1, <2>1, <2>3, <3>1, <3>3 DEF OwnPlaces
    <3>5. RestIsAsBefore'
      <4>1. ASSUME NEW o \in Hash
            PROVE  store'[o] = before[1][o] \/ \E i \in Jobs : Live(i)' /\ pending'[i].to = o
        <5>1. CASE o = pending[item].to
          BY <1>1, <2>2, <3>1, <5>1
        <5>2. CASE o # pending[item].to
          BY <1>1, <2>3, <2>4, <3>1, <5>2 DEF RestIsAsBefore, LeftBehind
        <5> QED BY <5>1, <5>2
      <4> QED BY <1>1, <2>1, <4>1 DEF RestIsAsBefore, LeftBehind
    <3>6. KnowsBefore'
      <4>1. ASSUME NEW i \in Jobs, i # item, Live(i)'
            PROVE  /\ pending'[i].backup = pending'[i].to
                   /\ IF pending'[i].backed_up
                      THEN force' /\ backup'[pending'[i].to] = before'[1][pending'[i].to]
                      ELSE before'[1][pending'[i].to] = Update!Nothing
        BY <1>1, <2>1, <3>1, <4>1 DEF KnowsBefore
      <4>2. /\ pending'[item].backup = pending'[item].to
            /\ IF pending'[item].backed_up
               THEN force' /\ backup'[pending'[item].to] = before'[1][pending'[item].to]
               ELSE before'[1][pending'[item].to] = Update!Nothing
        <5>1. CASE pending[item].backed_up
          BY <1>1, <2>2, <3>1, <5>1 DEF KnowsBefore, Live
        <5>2. CASE ~pending[item].backed_up
          BY <1>1, <2>2, <3>1, <3>2, <5>2 DEF Marked
        <5> QED BY <5>1, <5>2
      <4> QED BY <2>1, <4>1, <4>2 DEF KnowsBefore
    <3>7. HasNewOrOld'
      BY <1>1, <1>2, <2>1, <2>3, <2>4, <3>1, <3>3, JobsOfQueue DEF HasNewOrOld, Upload
    <3> QED BY <3>4, <3>5, <3>6, <3>7
  <2> QED BY <2>6, <2>7, <2>8, <2>9, <2>10, <2>11 DEF OwnPlaces, KnowsBefore, HasNewOrOld, RestIsAsBefore, LeftBehind
<1>3. CASE Update!Undo /\ UNCHANGED <<store, pending, behind>>
  BY <1>1, <1>3, UndoKeepsUpdate
<1>4. CASE /\ store' = [store EXCEPT ![pending[item].to] = pending[item].to]
           /\ behind' = IF pending[item].backed_up \/ pending[item].updated THEN behind
                        ELSE behind \cup {pending[item].to}
           /\ Update!Undo /\ UNCHANGED pending
  <2>1. /\ step' = "rollback" /\ item' = Len(pending) /\ Jobs' = Jobs
        /\ behind' = IF pending[item].backed_up \/ pending[item].updated THEN {}
                     ELSE {pending[item].to}
    BY <1>1, <1>4 DEF Update!Undo, Jobs
  <2>2. /\ \A o \in Hash : o # pending[item].to => store'[o] = store[o]
        /\ store' \in [Hash -> Hash \cup {Update!Nothing, Update!Earlier}]
    BY <1>0, <1>4 DEF UpdateType
  <2>3. UpdateType'
    BY <1>0, <1>1, <1>4, <2>1, <2>2 DEF UpdateType
  <2>4. AtUpload' /\ Uploaded' /\ FileStays' /\ Named' /\ IntoNothing' /\ Undone' /\ Queued'
    BY <1>1, <1>4, <2>1 DEF AtUpload, Uploaded, FileStays, Named, IntoNothing, Undone, Queued,
       Uploads, Running
  <2>5. Marked'
    BY <1>1, <1>4, <2>1 DEF Marked, Uploads, Running
  <2>6. ASSUME Undoable' PROVE OwnPlaces' /\ KnowsBefore' /\ HasNewOrOld' /\ RestIsAsBefore'
    <3>1. Undoable /\ \A i \in Jobs : Live(i)' <=> Live(i)
      BY <1>1, <1>4, <2>1, <2>6 DEF Undoable, Live, Running, Uploads
    <3>2. OwnPlaces' /\ KnowsBefore'
      BY <1>1, <1>4, <2>1, <3>1 DEF OwnPlaces, KnowsBefore
    <3>3. store'[pending[item].to] = pending[item].to
      BY <1>0, <1>4 DEF UpdateType
    <3>4. CASE pending[item].backed_up
      <4>1. Live(item) /\ behind' = {}
        BY <1>1, <2>1, <3>4 DEF Live
      <4>2. RestIsAsBefore'
        BY <1>1, <1>4, <2>1, <2>2, <3>1, <4>1 DEF RestIsAsBefore, LeftBehind
      <4>3. HasNewOrOld'
        BY <1>1, <1>4, <2>1, <2>2, <3>1, <3>3, <4>1 DEF HasNewOrOld, Upload
      <4> QED BY <3>2, <4>2, <4>3
    <3>5. CASE ~pending[item].backed_up
      <4>1. /\ ~Live(item) /\ before[1][pending[item].to] = Update!Nothing
            /\ \A i \in Jobs : i # item /\ Live(i) => pending[i].to # pending[item].to
        BY <1>5, <3>1, <3>5
      <4>2. behind' = {pending[item].to}
        BY <1>1, <2>1, <3>5, <4>1 DEF Live
      <4>3. RestIsAsBefore'
        BY <1>0, <1>1, <1>4, <2>1, <2>2, <3>1, <3>3, <4>1, <4>2 DEF RestIsAsBefore, LeftBehind
      <4>4. HasNewOrOld'
        BY <1>1, <1>4, <2>1, <2>2, <3>1, <4>1, <4>2 DEF HasNewOrOld, Upload
      <4> QED BY <3>2, <4>3, <4>4
    <3> QED BY <3>4, <3>5
  <2> QED BY <2>3, <2>4, <2>5, <2>6 DEF OwnPlaces, KnowsBefore, HasNewOrOld, RestIsAsBefore, LeftBehind
<1> QED BY <1>2, <1>3, <1>4 DEF Update!Insert, Update!Item, Update!Mark

\* The last upload that is still marked is undone from its backup, or deleted.
LEMMA RollbackKeepsUpdate ==
  ASSUME UpdateInv, Update!Rollback PROVE UpdateInv'
<1> USE DEF UpdateInv
<1>1. /\ step = "rollback" /\ item \in Jobs /\ item \in Nat
      /\ Jobs = 1 .. Len(pending) /\ Len(pending) \in Nat
      /\ \A i \in Jobs : pending[i] \in Upload
      /\ UNCHANGED <<backup, hit, disk, data, force, runs, before, tangled>>
  BY JobsOfQueue DEF Update!Rollback, AtUpload, Running, Update!Keep
<1>0. pending[item].to \in Hash /\ pending[item].backed_up \in BOOLEAN
      /\ pending[item].updated \in BOOLEAN
  BY <1>1 DEF Upload
<1>4. \A o \in Hash : /\ o # pending[item].to => Update!Restored[o] = store[o]
                    /\ Update!Restored \in [Hash -> Hash \cup {Update!Nothing, Update!Earlier}]
  <2>1. CASE pending[item].backed_up
    <3>1. backup[pending[item].backup] \in Hash \cup {Update!Nothing, Update!Earlier}
      BY <1>1 DEF UpdateType, Upload
    <3>2. Update!Restored = [store EXCEPT ![pending[item].to] = backup[pending[item].backup]]
      BY <2>1 DEF Update!Restored, Update!Item
    <3> QED BY <1>0, <3>1, <3>2 DEF UpdateType
  <2>2. CASE ~pending[item].backed_up
    BY <1>0, <2>2 DEF Update!Restored, Update!Item, UpdateType
  <2> QED BY <2>1, <2>2
<1>5. ASSUME Undoable, Live(item)
      PROVE  Update!Restored[pending[item].to] = before[1][pending[item].to]
  <2>1. CASE pending[item].backed_up
    BY <1>0, <1>1, <1>5, <2>1 DEF Update!Restored, Update!Item, KnowsBefore, UpdateType
  <2>2. CASE ~pending[item].backed_up
    BY <1>0, <1>1, <1>5, <2>2 DEF Update!Restored, Update!Item, KnowsBefore, UpdateType, Live
  <2> QED BY <2>1, <2>2
<1>6. \A i \in Jobs : Live(i) <=> i <= item /\ (pending[i].updated \/ pending[i].backed_up)
  BY <1>1 DEF Live
<1>2. CASE /\ pending[item].backed_up => backup[pending[item].backup] # Update!Nothing
           /\ store' = Update!Restored
           /\ pending' = [pending EXCEPT ![item].updated = FALSE,
                ![item].backup = IF pending[item].backed_up THEN Update!NonePath ELSE @]
           /\ IF item > 1 THEN item' = item - 1 /\ UNCHANGED step
                          ELSE item' = 0 /\ step' = "undone"
           /\ UNCHANGED behind
  <2> DEFINE item0 == [pending[item] EXCEPT !.updated = FALSE,
                         !.backup = IF pending[item].backed_up THEN Update!NonePath ELSE @]
  <2>1. /\ Jobs' = Jobs /\ pending' \in Seq(Upload) /\ Len(pending') = Len(pending)
        /\ \A i \in Jobs : i # item => pending'[i] = pending[i]
        /\ pending'[item] = item0
    <3>1. item0 \in Upload
      BY <1>1 DEF Upload
    <3>2. pending' = [pending EXCEPT ![item] = item0]
      BY <1>1, <1>2
    <3> HIDE DEF item0
    <3> QED BY <1>1, <3>1, <3>2, QueueWith DEF UpdateType, Jobs
  <2>2. /\ pending'[item].to = pending[item].to /\ ~pending'[item].updated
        /\ pending'[item].backed_up = pending[item].backed_up
        /\ ~pending[item].backed_up => pending'[item].backup = pending[item].backup
    BY <1>1, <2>1 DEF Upload
  <2>3. \A i \in Jobs : pending'[i].to = pending[i].to
    BY <2>1, <2>2
  <2>4. step' \in {"rollback", "undone"} /\ item' \in Nat /\ item' = item - 1
    BY <1>1, <1>2
  <2>5. /\ \A o \in Hash : o # pending[item].to => store'[o] = store[o]
        /\ store' \in [Hash -> Hash \cup {Update!Nothing, Update!Earlier}]
    BY <1>0, <1>2, <1>4
  <2>6. UpdateType'
    BY <1>1, <1>2, <2>1, <2>4, <2>5 DEF UpdateType
  <2>7. AtUpload' /\ Uploaded' /\ FileStays' /\ Named' /\ IntoNothing' /\ Queued'
    BY <1>1, <1>2, <2>1, <2>3, <2>4 DEF AtUpload, Uploaded, FileStays, Named, IntoNothing, Queued,
       Uploads, Running
  <2>8. Marked'
    BY <1>1, <1>2, <2>1, <2>2, <2>4 DEF Marked, Uploads, Running
  <2>9. ASSUME ~tangled
        PROVE  OwnPlaces' /\ KnowsBefore' /\ HasNewOrOld' /\ RestIsAsBefore' /\ Undone'
    <3>1. Undoable
      BY <1>1, <2>9 DEF Undoable, Running
    <3>2. ASSUME NEW o \in Hash
          PROVE  \/ store'[o] = before[1][o]
                 \/ LeftBehind(o) /\ store'[o] = store[o]
                 \/ \E i \in Jobs : i < item /\ Live(i) /\ pending[i].to = o
      <4>1. CASE o # pending[item].to
        BY <1>1, <1>6, <2>5, <3>1, <4>1 DEF RestIsAsBefore
      <4>2. CASE o = pending[item].to /\ ~Live(item)
        <5>1. store' = store
          BY <1>1, <1>2, <1>6, <4>2 DEF Update!Restored, Update!Item
        <5> QED BY <1>1, <1>6, <3>1, <4>2, <5>1 DEF RestIsAsBefore
      <4>3. CASE o = pending[item].to /\ Live(item)
        BY <1>2, <1>5, <3>1, <4>3
      <4> QED BY <4>1, <4>2, <4>3
    <3>3. CASE step' = "undone"
      <4>1. item = 1
        BY <1>1, <1>2, <3>3
      <4>2. \A o \in Hash : store'[o] = before[1][o] \/ (LeftBehind(o) /\ store'[o] = store[o])
        BY <1>1, <3>2, <4>1
      <4>3. disk = before[2] \/ hit
        BY <1>1 DEF FileStays
      <4>4. Undone'
        BY <1>1, <1>2, <4>2, <4>3 DEF Undone, LeftBehind
      <4> QED BY <3>3, <4>4 DEF OwnPlaces, KnowsBefore, HasNewOrOld, RestIsAsBefore, Undoable,
           Running, Uploads
    <3>4. CASE step' = "rollback"
      <4>1. \A i \in Jobs : Live(i)' <=> i < item /\ Live(i)
        BY <1>1, <1>6, <2>1, <2>4, <3>4 DEF Live
      <4>2. OwnPlaces'
        BY <1>1, <2>1, <2>3, <3>1, <4>1 DEF OwnPlaces
      <4>3. KnowsBefore'
        BY <1>1, <2>1, <3>1, <4>1 DEF KnowsBefore
      <4>4. RestIsAsBefore'
        BY <1>1, <1>2, <2>1, <2>3, <3>2, <4>1 DEF RestIsAsBefore, LeftBehind
      <4>5. ASSUME NEW i \in Jobs, i < item, Live(i)
            PROVE  store'[pending[i].to] = store[pending[i].to]
        <5>1. CASE Live(item)
          BY <1>1, <2>5, <3>1, <4>5, <5>1 DEF OwnPlaces, Upload
        <5>2. CASE ~Live(item)
          BY <1>1, <1>2, <1>6, <5>2 DEF Update!Restored, Update!Item
        <5> QED BY <5>1, <5>2
      <4>6. HasNewOrOld'
        BY <1>1, <1>2, <2>1, <2>3, <3>1, <4>1, <4>5 DEF HasNewOrOld
      <4> QED BY <3>4, <4>2, <4>3, <4>4, <4>6 DEF Undone
    <3> QED BY <2>4, <3>3, <3>4
  <2> QED BY <1>1, <1>2, <2>6, <2>7, <2>8, <2>9
       DEF OwnPlaces, KnowsBefore, HasNewOrOld, RestIsAsBefore, Undoable, Undone
<1>3. CASE /\ step' = "undone" /\ item' = 0 /\ UNCHANGED pending
           /\ UNCHANGED store \/ store' = Update!Restored
           /\ behind' = behind \cup {pending[i].to : i \in 1 .. item}
  <2>1. Jobs' = Jobs /\ 1 .. item \subseteq Jobs /\ {pending[i].to : i \in 1 .. item} \subseteq Hash
    BY <1>1, <1>3 DEF Upload, Jobs
  <2>2. UpdateType'
    BY <1>0, <1>1, <1>3, <1>4, <2>1 DEF UpdateType
  <2>3. ASSUME ~tangled, NEW o \in Hash, store'[o] # before[1][o]
        PROVE  o \in behind' /\ store'[o] = o /\ before[1][o] \in {Update!Nothing, backup[o]}
    <3>1. Undoable
      BY <1>1, <2>3 DEF Undoable, Running
    <3>2. store'[o] = store[o]
      <4>1. CASE o = pending[item].to /\ Live(item)
        BY <1>3, <1>5, <2>3, <3>1, <4>1
      <4>2. CASE o # pending[item].to
        BY <1>3, <1>4, <4>2
      <4>3. CASE ~Live(item)
        BY <1>1, <1>3, <1>6, <4>3 DEF Update!Restored, Update!Item
      <4> QED BY <4>1, <4>2, <4>3
    <3>3. CASE LeftBehind(o)
      BY <1>3, <3>2, <3>3 DEF LeftBehind
    <3>4. ASSUME NEW i \in Jobs, Live(i), pending[i].to = o
          PROVE  o \in behind' /\ store'[o] = o /\ before[1][o] \in {Update!Nothing, backup[o]}
      <4>1. i \in 1 .. item
        BY <1>1, <1>6, <3>4
      <4>2. store[o] = o /\ before[1][o] \in {Update!Nothing, backup[o]}
        BY <2>3, <3>1, <3>2, <3>4 DEF HasNewOrOld, KnowsBefore
      <4> QED BY <1>3, <3>2, <3>4, <4>1, <4>2
    <3> QED BY <2>3, <3>1, <3>2, <3>3, <3>4 DEF RestIsAsBefore
  <2>4. Undone'
    <3>1. disk = before[2] \/ hit
      BY <1>1 DEF FileStays
    <3> QED BY <1>1, <2>3, <3>1 DEF Undone
  <2> QED BY <1>1, <1>3, <2>1, <2>2, <2>4 DEF AtUpload, Uploaded, FileStays, Named, IntoNothing,
       Queued, Marked, OwnPlaces, KnowsBefore, HasNewOrOld, RestIsAsBefore, Undoable, Uploads,
       Running
<1> QED BY <1>2, <1>3 DEF Update!Rollback, Update!Item, Update!Restorable
\* The other sides leave the tool alone.
LEMMA UpdateStays ==
  UpdateInv /\ [FetchSide \/ UpdateSide \/ LookupSide]_<<vars, side, updateVars, lookVars>>
  => UpdateInv'
<1> SUFFICES ASSUME UpdateInv,
                    [FetchSide \/ UpdateSide \/ LookupSide]_<<vars, side, updateVars, lookVars>>
             PROVE UpdateInv'
  OBVIOUS
<1>1. CASE UpdateSide
  <2>1. Update!Next
    BY <1>1 DEF UpdateSide
  <2> QED BY <2>1, EditKeepsUpdate, ExecuteKeepsUpdate, ExistsKeepsUpdate, InsertKeepsUpdate,
       WriteKeepsUpdate, RollbackKeepsUpdate, AnswerKeepsUpdate DEF Update!Next
<1>2. CASE UNCHANGED updateVars
  <2>1. UpdateType' /\ Jobs' = Jobs
    BY <1>2 DEF updateVars, UpdateInv, UpdateType, Jobs
  <2> QED BY <1>2, <2>1 DEF updateVars, UpdateInv, AtUpload, Queued, Uploaded, FileStays, Named,
       Marked, OwnPlaces, KnowsBefore, HasNewOrOld, RestIsAsBefore, LeftBehind, IntoNothing, Undone, Undoable, Live
<1> QED BY <1>1, <1>2 DEF FetchSide, LookupSide

\* A run of ExecuteUpdateJobs that answers True leaves every platform it changed with its
\* file in the store.  One that fails leaves the config file, unless its writing was hit,
\* and each object as they were, but for the objects whose insertion was reported to have
\* failed and those that the rollback did not reach, whose earlier content is then at the
\* backup path; for any number of platforms, files, jobs and runs (base_config.py).
THEOREM AllAreDoneOrNone == DependenciesSpec => []AllOrNothing
<1>1. Start => UpdateInv
  BY UpdateStarts
<1>2. UpdateInv /\ [FetchSide \/ UpdateSide \/ LookupSide]_<<vars, side, updateVars, lookVars>>
      => UpdateInv'
  BY UpdateStays
<1>3. UpdateInv => AllOrNothing
  BY DEF UpdateInv, Named, Undone, AllOrNothing, Update!AllOrNothing
<1> QED BY <1>1, <1>2, <1>3, PTL DEF DependenciesSpec
===============================================================================
