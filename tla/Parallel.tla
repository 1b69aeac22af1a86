------------------------------- MODULE Parallel -------------------------------
(* Calls to all devices at once (utils/parallelizer.py): a thread for each      *)
(* device, a group that is joined, with the exceptions raised again, and        *)
(* contexts that are entered and left on all devices together.  The caller has  *)
(* the parallelizer of its devices, p, and what the last call has returned, r.  *)
EXTENDS Integers

CONSTANTS
  N,           \* the devices are 1..N, in the order of the list
  MaxGroups    \* bound: groups of threads

VARIABLES
  sync,      \* p is a SyncParallelizer
  caller,    \* "free", "join", "enter", "body", "exit"
  then,      \* where the caller is after a join: "free" or "body"
  group,     \* the threads of the last group: "none", "runs", "ok", "raised"
  value,     \* what r has for objects: "group", "values", "none" for no r
  running,   \* for each device, the threads that run on it: [group, work]
  inside,    \* the devices whose context is entered
  groups,    \* groups so far
  outcome,   \* of the caller's last call: "ok", "raised", "interrupted"
  ahead,     \* p was called while threads of r were running, or a wait was interrupted
  entry      \* how the last with statement was entered: "none", "ok", "raised", or that
             \* the wait of an entry was "interrupted" once

parVars == <<sync, caller, then, group, value, running, inside, groups, outcome, ahead, entry>>

Device   == 1..N
Count(x) == [d \in Device |-> x]

ParInit == /\ sync \in BOOLEAN /\ caller = "free" /\ then = "free"
           /\ group = Count("none") /\ value = "none" /\ running = Count({})
           /\ inside = {} /\ groups = 0 /\ outcome = "ok" /\ ahead = FALSE /\ entry = "none"

Runs   == \E d \in Device : group[d] = "runs"
Raised == \E d \in Device : group[d] = "raised"

\* A group is started: its threads run in any order, and end in any order.
StartAll(work) ==
  /\ groups < MaxGroups /\ groups' = groups + 1 /\ value' = "group"
  /\ group' = Count("runs")
  /\ running' = [d \in Device |-> running[d] \cup {[group |-> groups', work |-> work]}]

\* A thread ends on one device, one of the last group or one of an earlier that nobody
\* waits for; where it is __enter__ or __exit__ its context changes.
Run(d) ==
  /\ \E t \in running[d], how \in {"ok", "raised"} :
       /\ running' = [running EXCEPT ![d] = @ \ {t}]
       /\ group' = IF t.group = groups THEN [group EXCEPT ![d] = how] ELSE group
       /\ inside' = CASE t.work = "enter" /\ how = "ok" -> inside \cup {d}
                      [] t.work = "exit" -> inside \ {d}
                      [] OTHER -> inside
  /\ UNCHANGED <<sync, caller, then, value, groups, outcome, ahead, entry>>

Busy == \E d \in Device : running[d] # {}

\* A method of p, or pMap: the wrapped objects are there, so nothing is waited for.
CallP ==
  /\ caller \in {"free", "body"}
  /\ StartAll("call") /\ ahead' = (ahead \/ Busy)
  /\ IF sync THEN caller' = "join" /\ then' = caller ELSE UNCHANGED <<caller, then>>
  /\ outcome' = IF sync THEN outcome ELSE "ok"
  /\ UNCHANGED <<sync, inside, entry>>

\* pGet of r, also before a method of r is looked up.
PGet ==
  /\ caller \in {"free", "body"} /\ value = "group" /\ ~sync
  /\ caller' = "join" /\ then' = caller
  /\ UNCHANGED <<sync, group, value, running, inside, groups, outcome, ahead, entry>>
CallR ==
  /\ caller \in {"free", "body"} /\ value = "values"
  /\ StartAll("call")
  /\ IF sync THEN caller' = "join" /\ then' = caller ELSE UNCHANGED <<caller, then>>
  /\ ahead' = (ahead \/ Busy)
  /\ UNCHANGED <<sync, inside, outcome, entry>>

\* pMap of an r that is not joined pairs the devices with a group, a TypeError.
MapTooEarly ==
  /\ caller \in {"free", "body"} /\ value = "group" /\ ~sync
  /\ outcome' = "raised"
  /\ UNCHANGED <<sync, caller, then, group, value, running, inside, groups, ahead, entry>>

\* As if an exception were raised before the other threads have ended (a mutant).
JoinFirst ==
  /\ caller = "join" /\ (Raised \/ ~Runs)
  /\ value' = (IF Raised THEN value ELSE "values") /\ outcome' = (IF Raised THEN "raised" ELSE "ok")
  /\ caller' = then
  /\ UNCHANGED <<sync, then, group, running, inside, groups, ahead, entry>>

\* JoinAll waits for all threads, without the timeout, and raises what the first of
\* the devices has raised; only then are there values.
JoinAll ==
  /\ caller = "join" /\ ~Runs
  /\ value' = (IF Raised THEN value ELSE "values") /\ outcome' = (IF Raised THEN "raised" ELSE "ok")
  /\ caller' = then
  /\ UNCHANGED <<sync, then, group, running, inside, groups, ahead, entry>>

\* The main thread is interrupted in any of its waits; the threads, daemons all, go on.
\* A with statement whose entry raises so is not reached, nor is its end.
Interrupt ==
  /\ caller \in {"join", "enter", "exit"}
  /\ caller' = (IF caller = "join" THEN then ELSE "free")
  /\ outcome' = "interrupted" /\ ahead' = TRUE
  /\ entry' = (IF caller = "enter" THEN "interrupted" ELSE entry)
  /\ UNCHANGED <<sync, then, group, value, running, inside, groups>>

\* with p: __enter__ of all; if one raises the statement's body is not reached, nor
\* its end.
Enter ==
  /\ caller = "free" /\ sync /\ inside = {}
  /\ StartAll("enter") /\ caller' = "enter" /\ ahead' = (ahead \/ Busy)
  /\ entry' = (IF entry = "interrupted" THEN entry ELSE "none")
  /\ UNCHANGED <<sync, then, inside, outcome>>
Entered ==
  /\ caller = "enter" /\ ~Runs
  /\ caller' = (IF Raised THEN "free" ELSE "body")
  /\ entry' = (IF entry = "interrupted" THEN entry ELSE IF Raised THEN "raised" ELSE "ok")
  /\ outcome' = (IF Raised THEN "raised" ELSE "ok")
  /\ UNCHANGED <<sync, then, group, value, running, inside, groups, ahead>>
\* The body ends or raises: __exit__ of all.
Exit ==
  /\ caller = "body"
  /\ StartAll("exit") /\ caller' = "exit" /\ ahead' = (ahead \/ Busy)
  /\ UNCHANGED <<sync, then, inside, outcome, entry>>
Exited ==
  /\ caller = "exit" /\ ~Runs
  /\ caller' = "free" /\ outcome' = (IF Raised THEN "raised" ELSE "ok")
  /\ UNCHANGED <<sync, then, group, value, running, inside, groups, ahead, entry>>

ParNext == \/ \E d \in Device : Run(d)
           \/ CallP \/ PGet \/ CallR \/ MapTooEarly \/ JoinAll \/ Interrupt
           \/ Enter \/ Entered \/ Exit \/ Exited
-------------------------------------------------------------------------------
(* Properties                                                                   *)

\* A call that has returned or raised has ended on every device, and no two calls work
\* on a device at once, unless the caller was interrupted or did not wait for r.
BackMeansDone ==
  ~ahead => /\ \A d \in Device : \A s, t \in running[d] : s = t
            /\ caller = "free" /\ sync => ~Busy
            /\ value = "values" => ~Busy

\* A with statement that was entered leaves the context of every device, also when its
\* body, or the end of one of them, has raised; when the wait for its end is
\* interrupted, the thread that leaves still runs on each device whose context is not
\* yet left.  Not so after an entry whose own wait was interrupted, or that raised on
\* one device: what the others have entered nobody leaves.
EveryContextIsLeft ==
  caller = "free" /\ entry = "ok" =>
    \A d \in inside : ahead /\ \E t \in running[d] : t.work = "exit"

\* "Emulate entering the context of |self|" (parallelizer.py 206)
EntryIsAllOrNone == caller = "free" => inside = {}

\* "timeout: The maximum number of seconds to wait for an individual result to
\* return" (parallelizer.py 119)
PGetEnds == (caller = "join") ~> (caller # "join")
===============================================================================
