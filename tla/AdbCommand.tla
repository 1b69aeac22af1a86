----------------------------- MODULE AdbCommand -----------------------------
(* One adb command of the host tools, from the decorated call down to the     *)
(* child process: _TimeoutRetryWrapper calls timeout_retry.Run, which gives   *)
(* every attempt a ReraiserThread and a watchdog; the thread runs _RunAdbCmd, *)
(* which starts adb and reads its output until the end, or until a command    *)
(* timeout a little shorter than the watchdog's.                              *)
(*                                                                            *)
(* Three kinds of actors: the caller, which polls the thread and the watchdog;*)
(* the thread of each attempt, which goes on when the caller gives it up; and *)
(* the adb process of each attempt.  Times count down in units, from what is  *)
(* left to -1, past the deadline.                                             *)
EXTENDS Integers, FiniteSets

CONSTANTS
  Timeout,    \* the watchdog of an attempt
  Poll,       \* poll_interval of _IterProcessStdoutFcntl
  Retries,    \* attempts after the first
  Chunks,     \* bound: most writes of an adb process
  Codes       \* how adb may end: "ok", "failed" or "unreachable"

ASSUME TimeAssumption == Timeout \in Nat \ {0} /\ Poll \in Nat \ {0}
ASSUME BoundAssumption == Retries \in Nat /\ Chunks \in Nat
ASSUME CodesAssumption == Codes \subseteq {"ok", "failed", "unreachable"}

Attempt == 1..(Retries + 1)
Past    == -1              \* what a countdown stays at after its deadline
Forever == Timeout + 1     \* the command timeout None

VARIABLES
  pc,       \* the caller: "try", "join", "dump", "stack", "over"
  numTry,   \* num_try
  outcome,  \* what the call returned or raised; "none" while it runs
  left,     \* what the watchdog of each attempt has left
  th,       \* where the thread of each attempt is
  exc,      \* what the thread will raise; "ok" when it returns
  cmdLeft,  \* what its command timeout has left
  wake,     \* what its select has left
  got,      \* chunks it has read
  proc,     \* the process: "none", "run", "exited", "killed", "gone"
  code,     \* how the process ended, once it has
  sent,     \* chunks the process wrote
  held,     \* whether a child of the process keeps the pipe open
  late,     \* ghost: the attempts whose process ended when the command timeout was over
  win32     \* the host is Windows, where a thread of its own reads the pipe

vars == <<pc, numTry, outcome, left, th, exc, cmdLeft, wake, got, proc, code, sent, held, late, win32>>
threadVars == <<th, exc, cmdLeft, wake, got>>
procVars   == <<proc, code, sent, held, late, win32>>

ThreadPc == {"none", "new", "check", "get", "select", "poll", "drain", "finally", "wait", "dead"}
Errors   == {"NoAdbError", "OSError", "TimeoutError", "DeviceUnreachableError",
             "AdbCommandFailedError", "KeyError"}

TypeOK == /\ pc \in {"try", "join", "dump", "stack", "over"}
          /\ numTry \in Attempt
          /\ outcome \in Errors \cup {"none", "ok"}
          /\ left \in [Attempt -> Past..Timeout]
          /\ th \in [Attempt -> ThreadPc]
          /\ exc \in [Attempt -> Errors \cup {"ok"}]
          /\ cmdLeft \in [Attempt -> Past..Forever]
          /\ wake \in [Attempt -> 0..Poll]
          /\ got \in [Attempt -> 0..Chunks]
          /\ proc \in [Attempt -> {"none", "run", "exited", "killed", "gone"}]
          /\ code \in [Attempt -> Codes \cup {"none", "signal"}]
          /\ sent \in [Attempt -> 0..Chunks]
          /\ held \in [Attempt -> BOOLEAN] /\ late \in SUBSET Attempt /\ win32 \in BOOLEAN

Init == /\ pc = "try" /\ numTry = 1 /\ outcome = "none"
        /\ left = [i \in Attempt |-> Timeout]
        /\ th = [i \in Attempt |-> "none"]
        /\ exc = [i \in Attempt |-> "ok"]
        /\ cmdLeft = [i \in Attempt |-> Forever]
        /\ wake = [i \in Attempt |-> 0]
        /\ got = [i \in Attempt |-> 0]
        /\ proc = [i \in Attempt |-> "none"]
        /\ code = [i \in Attempt |-> "none"]
        /\ sent = [i \in Attempt |-> 0]
        /\ held = [i \in Attempt |-> FALSE]
        /\ late = {}
        /\ win32 \in BOOLEAN

Alive(i) == th[i] \notin {"none", "dead"}          \* Thread.isAlive
-----------------------------------------------------------------------------
(* The caller                                                                 *)

\* Whether an attempt that ended in e is followed by another one.
ShouldRetry(e) == e \notin {"NoAdbError", "OSError", "KeyError"}

\* The except clauses of Run: raise, or go round the loop.
Failed(e) ==
  /\ left' = [left EXCEPT ![numTry] = Past]     \* its group is gone
  /\ IF numTry > Retries \/ ~ShouldRetry(e)
     THEN pc' = "over" /\ outcome' = e /\ UNCHANGED numTry
     ELSE pc' = "try" /\ numTry' = numTry + 1 /\ UNCHANGED outcome

\* A new thread in a new group, with a watchdog of its own.
StartAttempt ==
  /\ pc = "try"
  /\ pc' = "join"
  /\ th' = [th EXCEPT ![numTry] = "new"]
  /\ UNCHANGED <<numTry, outcome, left, exc, cmdLeft, wake, got, procVars>>

\* As if the join had no watchdog (a mutant).
TimedOutNever == FALSE

\* _JoinAll asks the watchdog before it looks at the thread.
TimedOut ==
  /\ pc = "join"
  /\ left[numTry] < 0
  /\ pc' = "dump"
  /\ UNCHANGED <<numTry, outcome, left, threadVars, procVars>>

\* The thread has ended within its time: return its value or reraise.
Joined ==
  /\ pc = "join"
  /\ left[numTry] >= 0
  /\ ~Alive(numTry)
  /\ IF exc[numTry] = "ok"
     THEN pc' = "over" /\ outcome' = "ok" /\ UNCHANGED <<numTry, left>>
     ELSE Failed(exc[numTry])
  /\ UNCHANGED <<threadVars, procVars>>

\* JoinAll selects the threads whose stacks it dumps.
Dump ==
  /\ pc = "dump"
  /\ IF Alive(numTry) THEN pc' = "stack" /\ UNCHANGED <<numTry, outcome, left>>
                      ELSE Failed("TimeoutError")
  /\ UNCHANGED <<threadVars, procVars>>

\* LogThreadStack finds no frame for a thread that has ended in between.
LogThreadStack ==
  /\ pc = "stack"
  /\ Failed(IF Alive(numTry) THEN "TimeoutError" ELSE "KeyError")
  /\ UNCHANGED <<threadVars, procVars>>

Caller == StartAttempt \/ TimedOut \/ Joined \/ Dump \/ LogThreadStack
-----------------------------------------------------------------------------
(* The thread of attempt i                                                    *)

\* As if all of the watchdog's time were the command's (a mutant).
WholeTimeout(r) == IF r = 0 THEN Forever ELSE IF r < 0 THEN Past ELSE r

\* 95% of what the watchdog has left; none at all if that is 0.
CommandTimeout(r) == IF r = 0 THEN Forever
                     ELSE IF r < 0 THEN Past ELSE (19 * r) \div 20

\* _RunAdbCmd up to the start of the process, which may not be there to start.
RunAdbCmd(i) ==
  /\ th[i] = "new"
  /\ cmdLeft' = [cmdLeft EXCEPT ![i] = CommandTimeout(left[i])]
  /\ \/ /\ proc' = [proc EXCEPT ![i] = "run"]
        /\ th' = [th EXCEPT ![i] = "check"]
        /\ UNCHANGED exc
     \/ \E e \in {"NoAdbError", "OSError"} :
          /\ exc' = [exc EXCEPT ![i] = e]
          /\ th' = [th EXCEPT ![i] = "dead"]
          /\ UNCHANGED proc
  /\ UNCHANGED <<pc, numTry, outcome, left, wake, got, code, sent, held, late, win32>>

\* The head of the loop of _IterProcessStdoutFcntl, or of the one over the queue.
CheckTime(i) ==
  /\ th[i] = "check"
  /\ IF cmdLeft[i] < 0
     THEN /\ th' = [th EXCEPT ![i] = "finally"]
          /\ exc' = [exc EXCEPT ![i] = "TimeoutError"]
          /\ UNCHANGED wake
     ELSE /\ th' = [th EXCEPT ![i] = IF win32 THEN "get" ELSE "select"]
          /\ wake' = [wake EXCEPT ![i] = IF win32 THEN 0 ELSE Poll]
          /\ UNCHANGED exc
  /\ UNCHANGED <<pc, numTry, outcome, left, cmdLeft, got, procVars>>

\* What select and read tell: data, the end of the output, or nothing in time.
HasData(i) == got[i] < sent[i]
AtEnd(i)   == ~HasData(i) /\ proc[i] # "run" /\ ~held[i]
NoNews(i)  == ~HasData(i) /\ ~AtEnd(i) /\ wake[i] = 0

Select(i) ==
  /\ th[i] = "select"
  /\ \/ /\ HasData(i)
        /\ got' = [got EXCEPT ![i] = sent[i]]
        /\ th' = [th EXCEPT ![i] = "poll"]
     \/ AtEnd(i) /\ th' = [th EXCEPT ![i] = "finally"] /\ UNCHANGED got
     \/ NoNews(i) /\ th' = [th EXCEPT ![i] = "poll"] /\ UNCHANGED got
  /\ UNCHANGED <<pc, numTry, outcome, left, exc, cmdLeft, wake, procVars>>

\* _IterProcessStdoutQueue waits without a limit for what its reader puts into the
\* queue, an empty chunk at the end: queue and pipe are one here.
QueueGet(i) ==
  /\ th[i] = "get"
  /\ \/ /\ HasData(i)
        /\ got' = [got EXCEPT ![i] = @ + 1]
        /\ th' = [th EXCEPT ![i] = "check"]
     \/ AtEnd(i) /\ th' = [th EXCEPT ![i] = "finally"] /\ UNCHANGED got
  /\ UNCHANGED <<pc, numTry, outcome, left, exc, cmdLeft, wake, procVars>>

\* process.poll(): once the process has ended only what is in the pipe is read.
PollProcess(i) ==
  /\ th[i] = "poll"
  /\ IF proc[i] = "run"
     THEN th' = [th EXCEPT ![i] = "check"] /\ UNCHANGED wake
     ELSE th' = [th EXCEPT ![i] = "drain"] /\ wake' = [wake EXCEPT ![i] = Poll]
  /\ UNCHANGED <<pc, numTry, outcome, left, exc, cmdLeft, got, procVars>>

Drain(i) ==
  /\ th[i] = "drain"
  /\ \/ /\ HasData(i)
        /\ got' = [got EXCEPT ![i] = sent[i]]
        /\ wake' = [wake EXCEPT ![i] = Poll]
        /\ UNCHANGED th
     \/ /\ AtEnd(i) \/ NoNews(i)
        /\ th' = [th EXCEPT ![i] = "finally"]
        /\ UNCHANGED <<got, wake>>
  /\ UNCHANGED <<pc, numTry, outcome, left, exc, cmdLeft, procVars>>

\* finally: a process that has not been seen to end is killed.
Kill(i) ==
  /\ th[i] = "finally"
  /\ th' = [th EXCEPT ![i] = "wait"]
  /\ proc' = [proc EXCEPT ![i] = IF @ = "run" THEN "killed" ELSE @]
  /\ UNCHANGED <<pc, numTry, outcome, left, exc, cmdLeft, wake, got, code, sent, held, late, win32>>

\* The verdict on a command whose output has been read.
Verdict(c) == CASE c = "ok" -> "ok"
                [] c = "unreachable" -> "DeviceUnreachableError"
                [] OTHER -> "AdbCommandFailedError"

\* The reader of a queue is joined, which it is when nobody has the pipe open.
ReaderEnded(i) == win32 => ~held[i]

\* process.wait() returns, and the thread ends with a value or an exception.
Reap(i) ==
  /\ th[i] = "wait"
  /\ proc[i] \in {"exited", "gone"} /\ ReaderEnded(i)
  /\ th' = [th EXCEPT ![i] = "dead"]
  /\ exc' = [exc EXCEPT ![i] = IF @ = "ok" THEN Verdict(code[i]) ELSE @]
  /\ cmdLeft' = [cmdLeft EXCEPT ![i] = Forever]  \* its locals are gone
  /\ wake' = [wake EXCEPT ![i] = 0]
  /\ UNCHANGED <<pc, numTry, outcome, left, got, procVars>>

Thread(i) == \/ RunAdbCmd(i) \/ CheckTime(i) \/ Select(i) \/ QueueGet(i) \/ PollProcess(i)
             \/ Drain(i) \/ Kill(i) \/ Reap(i)
-----------------------------------------------------------------------------
(* The adb process of attempt i, and time                                     *)

Write(i) ==
  /\ proc[i] = "run"
  /\ sent[i] < Chunks
  /\ sent' = [sent EXCEPT ![i] = @ + 1]
  /\ UNCHANGED <<pc, numTry, outcome, left, threadVars, proc, code, held, late, win32>>

\* It may leave a child behind, the adb server, that holds the pipe open.
Exit(i) ==
  /\ proc[i] = "run"
  /\ proc' = [proc EXCEPT ![i] = "exited"]
  /\ \E c \in Codes, h \in BOOLEAN : /\ code' = [code EXCEPT ![i] = c]
                                      /\ held' = [held EXCEPT ![i] = h]
  /\ late' = IF cmdLeft[i] < 0 THEN late \cup {i} ELSE late
  /\ UNCHANGED <<pc, numTry, outcome, left, threadVars, sent, win32>>

\* A killed process goes when the kernel lets it go, which may be never.
Die(i) ==
  /\ proc[i] = "killed"
  /\ proc' = [proc EXCEPT ![i] = "gone"]
  /\ code' = [code EXCEPT ![i] = "signal"]
  /\ UNCHANGED <<pc, numTry, outcome, left, threadVars, sent, held, late, win32>>

Process(i) == Write(i) \/ Exit(i) \/ Die(i)

\* A thread sleeps while its select or its wait has nothing to tell it.
Asleep(i) ==
  \/ ~Alive(i)
  \/ th[i] \in {"select", "drain"} /\ wake[i] > 0 /\ ~HasData(i) /\ ~AtEnd(i)
  \/ th[i] = "get" /\ ~HasData(i) /\ ~AtEnd(i)
  \/ th[i] = "wait" /\ (proc[i] = "killed" \/ ~ReaderEnded(i))

\* A unit of time passes.  The host is not starved: who can run does so first,
\* and the caller looks at its thread many times in a unit.
Tick ==
  /\ pc = "join" /\ Alive(numTry) /\ left[numTry] >= 0
  /\ \A i \in Attempt : Asleep(i)
  /\ LET Less(f) == [i \in Attempt |-> IF Alive(i) /\ f[i] >= 0 /\ f[i] # Forever
                                       THEN f[i] - 1 ELSE f[i]]
     IN  left' = Less(left) /\ cmdLeft' = Less(cmdLeft)
  /\ wake' = [i \in Attempt |-> IF wake[i] > 0 THEN wake[i] - 1 ELSE 0]
  /\ UNCHANGED <<pc, numTry, outcome, th, exc, got, procVars>>

Next == \/ Caller
        \/ Tick
        \/ \E i \in Attempt : Thread(i) \/ Process(i)

Fairness == /\ WF_vars(Caller)
            /\ WF_vars(Tick)
            /\ \A i \in Attempt : WF_vars(Thread(i))
Spec == Init /\ [][Next]_vars /\ Fairness
-----------------------------------------------------------------------------
(* Properties                                                                 *)

\* No attempt starts while the adb process of an earlier one is at work, and
\* none is at work when the call is over: the thread that is given up has
\* killed its command, because the command timeout is that much shorter.
OneCommandAtATime ==
  \A i \in Attempt : proc[i] = "run" => i = numTry /\ pc \notin {"try", "over"}

\* A command that was done within its command timeout is not done again, and the
\* call returns its value: also when the process ends within the last poll, or while
\* the thread is on its way to the test of the deadline; unless a child of it keeps
\* the pipe open and the reader waits for that.  One that ends after its timeout was
\* over, but before it is killed, may have done its work and is run again.
NeverRepeated ==
  \A i \in Attempt : (code[i] = "ok" /\ ~held[i] /\ i \notin late)
                       => i = numTry /\ (pc = "join" \/ (pc = "over" /\ outcome = "ok"))

\* What a call returns is all that its process wrote, also when the process
\* ends between a read and the poll that sees it end.
WholeOutput ==
  outcome = "ok" => code[numTry] = "ok" /\ got[numTry] = sent[numTry]

\* One command of a call is at work at a time and what it did in its time is done
\* once, but for Windows; what the call returns is all of its output.
RunsOnceAndWhole == (win32 \/ (OneCommandAtATime /\ NeverRepeated)) /\ WholeOutput

\* "If it fails to do so, a TimeoutError will be raised." (cmd_helper.py 382): not
\* by the loop over the queue, which waits for output first.
TimeoutIsRaised == \A i \in Attempt : cmdLeft[i] < 0 /\ th[i] = "get" => ~Asleep(i)

\* The call ends whatever the process does, one that cannot even be killed
\* included.
CallEnds == <>(outcome # "none")

=============================================================================
