--------------------------- MODULE AdbCommand_proofs ---------------------------
(* One adb command for every timeout, number of retries and length of output:   *)
(* what the call returns is whole, and, when a poll fits into the 5 % that the   *)
(* command's timeout is shorter than the watchdog's, it is run once at a time.   *)
EXTENDS AdbCommand, TLAPS

\* The names that steps give to places and errors.
LEMMA Names ==
  /\ {"none", "new", "check", "get", "select", "poll", "drain", "finally", "wait", "dead"}
       \subseteq ThreadPc
  /\ {"NoAdbError", "OSError", "TimeoutError", "DeviceUnreachableError",
      "AdbCommandFailedError", "KeyError"} \subseteq Errors
  /\ "ok" \notin Errors /\ "none" \notin Errors
BY DEF ThreadPc, Errors

\* The countdowns stay in their range.
LEMMA Countdowns ==
  /\ CommandTimeout(0) = Forever
  /\ \A r \in Past .. Timeout : CommandTimeout(r) \in Past .. Forever
  /\ \A r \in Past .. Forever : r >= 0 => r - 1 \in Past .. Forever
  /\ \A r \in Past .. Timeout : r >= 0 => r - 1 \in Past .. Timeout
  /\ \A r \in 0 .. Poll : r > 0 => r - 1 \in 0 .. Poll
  /\ Past \in Past .. Timeout /\ Past \in Past .. Forever /\ Forever \in Past .. Forever
  /\ Timeout \in Past .. Timeout /\ Poll \in 0 .. Poll /\ 0 \in 0 .. Poll
BY TimeAssumption DEF CommandTimeout, Past, Forever

\* The attempts are counted up to the last retry.
LEMMA Attempts ==
  /\ 1 \in Attempt
  /\ \A n \in Attempt : n \in Int /\ ~(n > n) /\ (~(n > Retries) => n + 1 \in Attempt)
BY BoundAssumption DEF Attempt

\* The end of an attempt in an error.
LEMMA FailedTypes ==
  ASSUME TypeOK, NEW e \in Errors, Failed(e)
  PROVE  /\ pc' \in {"try", "over"} /\ numTry' \in Attempt
         /\ outcome' \in Errors \cup {"none", "ok"}
         /\ left' \in [Attempt -> Past .. Timeout]
<1>1. left' \in [Attempt -> Past .. Timeout]
  BY Countdowns DEF TypeOK, Failed
<1>2. numTry' \in Attempt
  BY Attempts DEF TypeOK, Failed
<1>3. pc' \in {"try", "over"} /\ outcome' \in Errors \cup {"none", "ok"}
  BY DEF TypeOK, Failed
<1> QED BY <1>1, <1>2, <1>3

\* Every step keeps the types.
LEMMA TypesStay == TypeOK /\ [Next]_vars => TypeOK'
<1> USE Names, Countdowns, BoundAssumption, CodesAssumption DEF TypeOK, threadVars, procVars
<1> SUFFICES ASSUME TypeOK, [Next]_vars PROVE TypeOK'
  OBVIOUS
<1>1. CASE StartAttempt
  BY <1>1 DEF StartAttempt
<1>2. CASE TimedOut
  BY <1>2 DEF TimedOut
<1>3. CASE Joined
  <2>1. CASE exc[numTry] = "ok"
    BY <1>3, <2>1 DEF Joined
  <2>2. CASE exc[numTry] # "ok"
    BY <1>3, <2>2, FailedTypes DEF Joined
  <2> QED BY <2>1, <2>2
<1>4. CASE Dump
  BY <1>4, FailedTypes DEF Dump
<1>5. CASE LogThreadStack
  BY <1>5, FailedTypes DEF LogThreadStack
<1>6. CASE Tick
  BY <1>6 DEF Tick
<1>7. ASSUME NEW i \in Attempt, RunAdbCmd(i) PROVE TypeOK'
  <2>1. cmdLeft' \in [Attempt -> Past .. Forever]
    BY <1>7 DEF RunAdbCmd
  <2>2. /\ proc' \in [Attempt -> {"none", "run", "exited", "killed", "gone"}]
        /\ th' \in [Attempt -> ThreadPc] /\ exc' \in [Attempt -> Errors \cup {"ok"}]
    <3>1. CASE /\ th' = [th EXCEPT ![i] = "check"]
               /\ proc' = [proc EXCEPT ![i] = "run"] /\ exc' = exc
      BY <3>1
    <3>2. CASE /\ th' = [th EXCEPT ![i] = "dead"] /\ proc' = proc
               /\ \E e \in {"NoAdbError", "OSError"} : exc' = [exc EXCEPT ![i] = e]
      BY <3>2
    <3> QED BY <1>7, <3>1, <3>2, Zenon DEF RunAdbCmd
  <2> QED BY <1>7, <2>1, <2>2 DEF RunAdbCmd
<1>8. ASSUME NEW i \in Attempt, CheckTime(i) PROVE TypeOK'
  <2>1. CASE cmdLeft[i] < 0
    <3>1. th' \in [Attempt -> ThreadPc]
      BY <1>8, <2>1 DEF CheckTime
    <3>2. exc' \in [Attempt -> Errors \cup {"ok"}]
      BY <1>8, <2>1 DEF CheckTime
    <3> QED BY <1>8, <2>1, <3>1, <3>2 DEF CheckTime
  <2>2. CASE ~(cmdLeft[i] < 0)
    <3>1. wake' \in [Attempt -> 0 .. Poll] /\ th' \in [Attempt -> ThreadPc]
      <4>1. \E w \in {0, Poll} : wake' = [wake EXCEPT ![i] = w]
        BY <1>8, <2>2, Zenon DEF CheckTime
      <4>2. \E t \in {"get", "select"} : th' = [th EXCEPT ![i] = t]
        BY <1>8, <2>2, Zenon DEF CheckTime
      <4>3. wake' \in [Attempt -> 0 .. Poll]
        BY <4>1
      <4>4. th' \in [Attempt -> ThreadPc]
        BY <4>2
      <4> QED BY <4>3, <4>4
    <3>2. exc' = exc /\ cmdLeft' = cmdLeft /\ got' = got
      BY <1>8, <2>2, Zenon DEF CheckTime
    <3>3. /\ pc' = pc /\ numTry' = numTry /\ outcome' = outcome /\ left' = left
          /\ UNCHANGED procVars
      BY <1>8, Zenon DEF CheckTime
    <3> QED BY <3>1, <3>2, <3>3
  <2> QED BY <2>1, <2>2
<1>9. ASSUME NEW i \in Attempt, Select(i) PROVE TypeOK'
  <2>1. got' \in [Attempt -> 0 .. Chunks] /\ th' \in [Attempt -> ThreadPc]
    <3>1. CASE HasData(i)
      BY <1>9, <3>1 DEF Select, AtEnd, NoNews
    <3>2. CASE ~HasData(i)
      <4>1. got' = got /\ (th' = [th EXCEPT ![i] = "finally"] \/ th' = [th EXCEPT ![i] = "poll"])
        BY <1>9, <3>2, Zenon DEF Select
      <4> QED BY <4>1
    <3> QED BY <3>1, <3>2
  <2> QED BY <1>9, <2>1 DEF Select
<1>10. ASSUME NEW i \in Attempt, QueueGet(i) PROVE TypeOK'
  BY <1>10 DEF QueueGet, HasData
<1>11. ASSUME NEW i \in Attempt, PollProcess(i) PROVE TypeOK'
  BY <1>11 DEF PollProcess
<1>12. ASSUME NEW i \in Attempt, Drain(i) PROVE TypeOK'
  <2>1. /\ got' \in [Attempt -> 0 .. Chunks] /\ th' \in [Attempt -> ThreadPc]
        /\ wake' \in [Attempt -> 0 .. Poll]
    BY <1>12 DEF Drain
  <2> QED BY <1>12, <2>1 DEF Drain
<1>13. ASSUME NEW i \in Attempt, Kill(i) PROVE TypeOK'
  BY <1>13 DEF Kill
<1>14. ASSUME NEW i \in Attempt, Reap(i) PROVE TypeOK'
  BY <1>14 DEF Reap, Verdict
<1>15. ASSUME NEW i \in Attempt, Write(i) PROVE TypeOK'
  BY <1>15 DEF Write
<1>16. ASSUME NEW i \in Attempt, Exit(i) PROVE TypeOK'
  BY <1>16 DEF Exit
<1>17. ASSUME NEW i \in Attempt, Die(i) PROVE TypeOK'
  BY <1>17 DEF Die
<1>18. CASE UNCHANGED vars
  BY <1>18 DEF vars
<1> QED BY <1>1, <1>2, <1>3, <1>4, <1>5, <1>6, <1>7, <1>8, <1>9, <1>10, <1>11, <1>12, <1>13,
        <1>14, <1>15, <1>16, <1>17, <1>18 DEF Next, Caller, Thread, Process
-------------------------------------------------------------------------------
(* What is returned is whole.                                                   *)

\* The thread of an attempt starts within its turn, with all of its time.
Beginning(i) ==
  /\ th[i] \in {"none", "new"} => proc[i] = "none" /\ code[i] = "none" /\ exc[i] = "ok"
  /\ th[i] = "new" => pc = "join" /\ i = numTry /\ left[i] = Timeout
  /\ i > numTry \/ (i = numTry /\ pc = "try") => th[i] = "none" /\ left[i] = Timeout
  /\ i = numTry /\ pc # "try" => th[i] # "none"

\* The code of a process tells how it ended, and the place of its thread whether.
Ending(i) ==
  /\ proc[i] \in {"none", "run", "killed"} <=> code[i] = "none"
  /\ code[i] \in {"ok", "failed", "unreachable"} => proc[i] = "exited"
  /\ proc[i] = "run" => th[i] \in {"check", "get", "select", "poll", "finally"}
  /\ proc[i] = "none" => th[i] \in {"none", "new", "dead"}
  /\ th[i] \in {"get", "select", "check", "poll", "drain"} => exc[i] = "ok"

\* A thread that is done reading, and not in an error, has read all.
Reading(i) ==
  /\ got[i] <= sent[i]
  /\ th[i] \in {"finally", "wait", "dead"} /\ exc[i] = "ok" =>
       got[i] = sent[i] /\ proc[i] \in {"exited", "killed", "gone"}
  /\ th[i] = "dead" /\ exc[i] = "ok" => code[i] = "ok"

AttemptInv(i) == Beginning(i) /\ Ending(i) /\ Reading(i)

\* Only the last attempt gives the call its value.
Returning == outcome = "ok" => /\ pc = "over" /\ th[numTry] = "dead" /\ exc[numTry] = "ok"

OutputInv == TypeOK /\ (\A i \in Attempt : AttemptInv(i)) /\ Returning

\* The end of an attempt in an error, and the turn of the next.
LEMMA FailedKeeps ==
  ASSUME OutputInv, NEW e \in Errors, Failed(e), pc \in {"join", "dump", "stack"},
         th[numTry] # "new", UNCHANGED <<threadVars, procVars>>
  PROVE  (\A j \in Attempt : AttemptInv(j)') /\ Returning'
<1> USE Attempts DEF OutputInv, TypeOK, AttemptInv, threadVars, procVars
<1>0. th' = th /\ exc' = exc /\ got' = got /\ proc' = proc /\ code' = code /\ sent' = sent
  OBVIOUS
<1>1. Returning'
  BY Names DEF Failed, Returning
<1>2. ASSUME NEW j \in Attempt PROVE Ending(j)' /\ Reading(j)'
  BY <1>0 DEF Ending, Reading
<1>3. ASSUME NEW j \in Attempt PROVE Beginning(j)'
  <2>1. th[numTry] # "none" /\ j \in Int /\ numTry \in Int
    BY DEF Beginning
  <2>2. j # numTry => left'[j] = left[j]
    BY DEF Failed
  <2>3. CASE pc' = "over" /\ numTry' = numTry
    BY <1>0, <2>1, <2>2, <2>3 DEF Beginning
  <2>4. CASE pc' = "try" /\ numTry' = numTry + 1
    BY <1>0, <2>1, <2>2, <2>4 DEF Beginning
  <2> QED BY <2>3, <2>4 DEF Failed
<1> QED BY <1>1, <1>2, <1>3

\* Every step keeps what is known of an attempt's output.
LEMMA OutputStays == OutputInv /\ [Next]_vars => OutputInv'
<1> SUFFICES ASSUME OutputInv, [Next]_vars PROVE OutputInv'
  OBVIOUS
<1>0. TypeOK /\ TypeOK'
  BY TypesStay DEF OutputInv
<1> SUFFICES (\A j \in Attempt : AttemptInv(j)') /\ Returning'
  BY <1>0 DEF OutputInv
<1> USE <1>0, Attempts, CodesAssumption
        DEF OutputInv, TypeOK, AttemptInv, Beginning, Ending, Reading, Returning, threadVars, procVars
<1>1. CASE StartAttempt
  <2>1. outcome # "ok" /\ outcome' = outcome
    BY <1>1 DEF StartAttempt
  <2>2. ASSUME NEW j \in Attempt PROVE AttemptInv(j)'
    <3>1. CASE j = numTry
      <4>1. th[j] = "none" /\ th'[j] = "new" /\ pc' = "join" /\ left'[j] = Timeout
        BY <1>1, <3>1 DEF StartAttempt
      <4>2. /\ proc'[j] = proc[j] /\ code'[j] = code[j] /\ exc'[j] = exc[j] /\ got' = got
            /\ sent' = sent /\ numTry' = numTry
        BY <1>1 DEF StartAttempt
      <4>3. proc[j] = "none" /\ code[j] = "none" /\ exc[j] = "ok" /\ got[j] <= sent[j]
        BY <4>1
      <4>4. Beginning(j)'
        <5>0. j = numTry' /\ pc' = "join"
          BY <3>1, <4>1, <4>2, Zenon
        <5>1. ~(j > numTry')
          BY <5>0, Attempts, Zenon
        <5>2. th'[j] = "new" /\ proc'[j] = "none" /\ code'[j] = "none" /\ exc'[j] = "ok"
          BY <4>1, <4>2, <4>3
        <5> QED BY <4>1, <5>0, <5>1, <5>2
      <4>5. Ending(j)' /\ Reading(j)'
        BY <4>1, <4>2, <4>3
      <4> QED BY <4>4, <4>5
    <3>2. CASE j # numTry
      BY <1>1, <3>2 DEF StartAttempt
    <3> QED BY <3>1, <3>2
  <2> QED BY <2>1, <2>2
<1>2. CASE TimedOut
  <2>1. outcome # "ok" /\ outcome' = outcome
    BY <1>2 DEF TimedOut
  <2>2. ASSUME NEW j \in Attempt PROVE AttemptInv(j)'
    <3>1. /\ th' = th /\ exc' = exc /\ proc' = proc /\ code' = code /\ got' = got /\ sent' = sent
          /\ left' = left /\ numTry' = numTry /\ pc' = "dump" /\ pc = "join"
      BY <1>2 DEF TimedOut
    <3>2. th[j] # "new"
      BY <1>2, TimeAssumption DEF TimedOut
    <3> QED BY <3>1, <3>2
  <2> QED BY <2>1, <2>2
<1>3. CASE Joined
  <2>1. CASE exc[numTry] = "ok"
    <3>1. Returning'
      BY <1>3, <2>1 DEF Joined, Alive
    <3>2. ASSUME NEW j \in Attempt PROVE AttemptInv(j)'
      <4>1. /\ th' = th /\ exc' = exc /\ proc' = proc /\ code' = code /\ got' = got
            /\ sent' = sent /\ left' = left /\ numTry' = numTry /\ pc' = "over" /\ pc = "join"
        BY <1>3, <2>1 DEF Joined
      <4>2. th[j] # "new"
        BY <1>3 DEF Joined, Alive
      <4> QED BY <4>1, <4>2
    <3> QED BY <3>1, <3>2
  <2>2. CASE exc[numTry] # "ok"
    BY <1>3, <2>2, FailedKeeps DEF Joined, Alive
  <2> QED BY <2>1, <2>2
<1>4. CASE Dump
  <2>1. CASE Alive(numTry)
    <3>1. outcome # "ok" /\ outcome' = outcome
      BY <1>4, <2>1 DEF Dump
    <3>2. ASSUME NEW j \in Attempt PROVE AttemptInv(j)'
      BY <1>4, <2>1 DEF Dump
    <3> QED BY <3>1, <3>2
  <2>2. CASE ~Alive(numTry)
    BY <1>4, <2>2, FailedKeeps, Names DEF Dump, Alive
  <2> QED BY <2>1, <2>2
<1>5. CASE LogThreadStack
  BY <1>5, FailedKeeps, Names DEF LogThreadStack
<1>6. CASE Tick
  BY <1>6 DEF Tick, Asleep, Alive
<1>7. ASSUME NEW i \in Attempt, RunAdbCmd(i)
      PROVE  (\A j \in Attempt : AttemptInv(j)') /\ Returning'
  BY <1>7 DEF RunAdbCmd
<1>8. ASSUME NEW i \in Attempt, CheckTime(i)
      PROVE  (\A j \in Attempt : AttemptInv(j)') /\ Returning'
  BY <1>8 DEF CheckTime
<1>9. ASSUME NEW i \in Attempt, Select(i)
      PROVE  (\A j \in Attempt : AttemptInv(j)') /\ Returning'
  BY <1>9 DEF Select, HasData, AtEnd
<1>10. ASSUME NEW i \in Attempt, QueueGet(i)
      PROVE  (\A j \in Attempt : AttemptInv(j)') /\ Returning'
  BY <1>10 DEF QueueGet, HasData, AtEnd
<1>11. ASSUME NEW i \in Attempt, PollProcess(i)
      PROVE  (\A j \in Attempt : AttemptInv(j)') /\ Returning'
  BY <1>11 DEF PollProcess
<1>12. ASSUME NEW i \in Attempt, Drain(i)
      PROVE  (\A j \in Attempt : AttemptInv(j)') /\ Returning'
  BY <1>12 DEF Drain, HasData, AtEnd, NoNews
<1>13. ASSUME NEW i \in Attempt, Kill(i)
      PROVE  (\A j \in Attempt : AttemptInv(j)') /\ Returning'
  BY <1>13 DEF Kill
<1>14. ASSUME NEW i \in Attempt, Reap(i)
      PROVE  (\A j \in Attempt : AttemptInv(j)') /\ Returning'
  BY <1>14 DEF Reap, Verdict
<1>15. ASSUME NEW i \in Attempt, Write(i)
      PROVE  (\A j \in Attempt : AttemptInv(j)') /\ Returning'
  BY <1>15 DEF Write
<1>16. ASSUME NEW i \in Attempt, Exit(i)
      PROVE  (\A j \in Attempt : AttemptInv(j)') /\ Returning'
  BY <1>16 DEF Exit
<1>17. ASSUME NEW i \in Attempt, Die(i)
      PROVE  (\A j \in Attempt : AttemptInv(j)') /\ Returning'
  BY <1>17 DEF Die
<1>18. CASE UNCHANGED vars
  BY <1>18 DEF vars
<1> QED BY <1>1, <1>2, <1>3, <1>4, <1>5, <1>6, <1>7, <1>8, <1>9, <1>10, <1>11, <1>12, <1>13,
        <1>14, <1>15, <1>16, <1>17, <1>18 DEF Next, Caller, Thread, Process

\* There is no output at the start.
LEMMA OutputStarts == Init => OutputInv
BY Attempts, Names, Countdowns, TimeAssumption, BoundAssumption
   DEF Init, OutputInv, TypeOK, AttemptInv, Beginning, Ending, Reading, Returning

\* What is known of the output holds throughout.
LEMMA OutputAlways == Spec => []OutputInv
BY OutputStarts, OutputStays, PTL DEF Spec

\* The types, for every constant.
THEOREM AdbTypeCorrect == Spec => []TypeOK
<1>1. OutputInv => TypeOK
  BY DEF OutputInv
<1> QED BY <1>1, OutputAlways, PTL

\* What a call returns is all that its process wrote, and of a process that did well,
\* whatever ends between which read and which poll (_IterProcessStdoutFcntl and
\* _IterProcessStdoutQueue, cmd_helper.py), for any timeout, on any host.
THEOREM OutputIsWhole == Spec => []WholeOutput
<1>1. OutputInv => WholeOutput
  BY DEF OutputInv, TypeOK, AttemptInv, Reading, Returning, WholeOutput
<1> QED BY <1>1, OutputAlways, PTL
-------------------------------------------------------------------------------
(* What is run is run once.                                                     *)

\* A poll fits into the time between the command's timeout and the watchdog's: with
\* the poll of 1 s, into the 5 % of 20 s and more, such as the default of 30 s.
PollFits == CommandTimeout(Timeout) + Poll <= Timeout

\* A process runs within its attempt's turn, and the thread will have looked at its
\* command's timeout before the watchdog's time is over.
OnTime(i) ==
  proc[i] = "run" =>
    /\ i = numTry /\ pc = "join" /\ left[i] >= 0
    /\ cmdLeft[i] >= 0 => left[i] >= cmdLeft[i] + Poll
    /\ th[i] = "select" => left[i] >= wake[i]
    /\ exc[i] = "ok" \/ cmdLeft[i] < 0

\* The answer of a process that ended in its time, and that nothing outlives, is taken in
\* its turn: its thread has no deadline to miss before it sees the end.
Answered(i) ==
  code[i] = "ok" /\ ~held[i] /\ i \notin late =>
    /\ exc[i] = "ok" /\ (th[i] # "dead" => cmdLeft[i] >= 0)
    /\ i = numTry /\ ((pc = "over" /\ outcome = "ok") \/ (pc = "join" /\ left[i] >= 0))

OnceInv == /\ OutputInv
           /\ ~win32 => \A i \in Attempt : OnTime(i) /\ Answered(i) /\ th[i] # "get"
           /\ pc \in {"dump", "stack"} => left[numTry] < 0

\* Time does not pass while a thread has an answer to take.
LEMMA AwakeWithAnswer ==
  ASSUME OutputInv, NEW i \in Attempt, code[i] = "ok", ~held[i], Alive(i), Asleep(i)
  PROVE  FALSE
<1>1. proc[i] = "exited"
  BY DEF OutputInv, AttemptInv, Ending
<1> QED BY <1>1 DEF Asleep, AtEnd, HasData, ReaderEnded, Alive

\* Every step keeps what is known of the attempts, if a poll fits in before the deadline.
LEMMA OnceStays == PollFits /\ OnceInv /\ [Next]_vars => OnceInv'
<1> SUFFICES ASSUME PollFits, OnceInv, [Next]_vars PROVE OnceInv'
  OBVIOUS
<1>0. OutputInv /\ OutputInv' /\ TypeOK /\ TypeOK'
  BY OutputStays DEF OnceInv, OutputInv
<1> DEFINE Goal(j) == OnTime(j) /\ Answered(j) /\ th[j] # "get"
           Rest    == pc \in {"dump", "stack"} => left[numTry] < 0
<1>w. win32' = win32
  BY DEF vars, Next, Caller, Thread, Process, StartAttempt, TimedOut, Joined, Dump,
         LogThreadStack, Tick, RunAdbCmd, CheckTime, Select, QueueGet, PollProcess, Drain, Kill,
         Reap, Write, Exit, Die, procVars
<1> SUFFICES (~win32 => \A j \in Attempt : Goal(j)') /\ Rest'
  BY <1>0, <1>w DEF OnceInv
<1> USE <1>0, Attempts DEF OnceInv, OnTime, Answered, OutputInv, TypeOK, AttemptInv, Beginning,
                           Ending, threadVars, procVars
<1>1. CASE StartAttempt
  BY <1>1 DEF StartAttempt
<1>2. CASE TimedOut
  BY <1>2 DEF TimedOut
<1>3. CASE Joined
  BY <1>3 DEF Joined, Failed, Alive
<1>4. CASE Dump
  BY <1>4 DEF Dump, Failed
<1>5. CASE LogThreadStack
  BY <1>5 DEF LogThreadStack, Failed
<1>6. CASE Tick
  <2>1. Rest'
    BY <1>6 DEF Tick
  <2>2. ASSUME NEW j \in Attempt, ~win32 PROVE Goal(j)'
    <3>1. OnTime(j)'
      BY <1>6, <2>2, TimeAssumption DEF Tick, Asleep, Alive, Forever, Past
    <3>2. Answered(j)'
      BY <1>6, <2>2, AwakeWithAnswer DEF Tick
    <3>3. th'[j] # "get"
      BY <1>6, <2>2 DEF Tick
    <3> QED BY <3>1, <3>2, <3>3
  <2> QED BY <2>1, <2>2
<1>7. ASSUME NEW i \in Attempt, RunAdbCmd(i)
      PROVE  (~win32 => \A j \in Attempt : Goal(j)') /\ Rest'
  BY <1>7, TimeAssumption DEF RunAdbCmd, PollFits
<1>8. ASSUME NEW i \in Attempt, CheckTime(i)
      PROVE  (~win32 => \A j \in Attempt : Goal(j)') /\ Rest'
  BY <1>8, TimeAssumption DEF CheckTime
<1>9. ASSUME NEW i \in Attempt, Select(i)
      PROVE  (~win32 => \A j \in Attempt : Goal(j)') /\ Rest'
  BY <1>9 DEF Select, HasData, AtEnd
<1>10. ASSUME NEW i \in Attempt, QueueGet(i)
      PROVE  (~win32 => \A j \in Attempt : Goal(j)') /\ Rest'
  BY <1>10 DEF QueueGet, HasData, AtEnd
<1>11. ASSUME NEW i \in Attempt, PollProcess(i)
      PROVE  (~win32 => \A j \in Attempt : Goal(j)') /\ Rest'
  BY <1>11 DEF PollProcess
<1>12. ASSUME NEW i \in Attempt, Drain(i)
      PROVE  (~win32 => \A j \in Attempt : Goal(j)') /\ Rest'
  BY <1>12 DEF Drain, HasData, AtEnd, NoNews
<1>13. ASSUME NEW i \in Attempt, Kill(i)
      PROVE  (~win32 => \A j \in Attempt : Goal(j)') /\ Rest'
  BY <1>13 DEF Kill
<1>14. ASSUME NEW i \in Attempt, Reap(i)
      PROVE  (~win32 => \A j \in Attempt : Goal(j)') /\ Rest'
  BY <1>14 DEF Reap, Verdict
<1>15. ASSUME NEW i \in Attempt, Write(i)
      PROVE  (~win32 => \A j \in Attempt : Goal(j)') /\ Rest'
  BY <1>15 DEF Write
<1>16. ASSUME NEW i \in Attempt, Exit(i)
      PROVE  (~win32 => \A j \in Attempt : Goal(j)') /\ Rest'
  <2>1. OutputInv /\ Rest'
    BY <1>16 DEF Exit
  <2>2. ASSUME NEW j \in Attempt, ~win32 PROVE OnTime(j)' /\ (th[j] # "get")'
    BY <1>16, <2>2 DEF Exit
  <2>3. ASSUME NEW j \in Attempt, ~win32 PROVE Answered(j)'
    BY <1>16, <2>3 DEF Exit
  <2> QED BY <2>1, <2>2, <2>3
<1>17. ASSUME NEW i \in Attempt, Die(i)
      PROVE  (~win32 => \A j \in Attempt : Goal(j)') /\ Rest'
  BY <1>17 DEF Die
<1>18. CASE UNCHANGED vars
  BY <1>18 DEF vars
<1> QED BY <1>1, <1>2, <1>3, <1>4, <1>5, <1>6, <1>7, <1>8, <1>9, <1>10, <1>11, <1>12, <1>13,
        <1>14, <1>15, <1>16, <1>17, <1>18 DEF Next, Caller, Thread, Process

\* When a poll fits: one command of a call is at work at a time, a command that was
\* done within its command timeout is not done again, but for Windows, and what the call returns is all of its
\* output (_RunAdbCmd, adb_wrapper.py; timeout_retry.Run).
THEOREM RunsOnce == ASSUME PollFits PROVE Spec => []RunsOnceAndWhole
<1>1. Init => OnceInv
  BY OutputStarts, TimeAssumption DEF Init, OnceInv, OnTime, Answered
<1>2. OnceInv /\ [Next]_vars => OnceInv'
  BY OnceStays
<1>3. OnceInv => RunsOnceAndWhole
  <2> SUFFICES ASSUME OnceInv PROVE RunsOnceAndWhole
    OBVIOUS
  <2>1. WholeOutput
    BY DEF OnceInv, OutputInv, TypeOK, AttemptInv, Reading, Returning, WholeOutput
  <2>2. ~win32 => OneCommandAtATime /\ NeverRepeated
    BY DEF OnceInv, OnTime, Answered, OneCommandAtATime, NeverRepeated
  <2> QED BY <2>1, <2>2 DEF RunsOnceAndWhole
<1> QED BY <1>1, <1>2, <1>3, PTL DEF Spec
===============================================================================
