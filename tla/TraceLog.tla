------------------------------ MODULE TraceLog ------------------------------
(* The trace log of py_trace_event (trace_event_impl/log.py): programs that    *)
(* record events in memory and write them to one file, with threads and forked *)
(* multiprocessing children, a lock in memory and a lock on the file.          *)
EXTENDS Integers, Sequences, SequencesExt, FiniteSets

CONSTANTS
  Program,      \* programs started by hand, each opens the log itself
  Child,        \* the children they may fork
  Forker,       \* the program that may fork them
  Threaded,     \* the programs with a second thread
  MaxEvents,    \* bound: events recorded
  MaxCalls      \* bound: calls of enable, disable and flush, and forks

ASSUME TraceLogAssumption == /\ Program \cap Child = {}
                             /\ Forker \in Program /\ Threaded \subseteq Program

Proc   == Program \cup Child
Format == {"json", "json_with_metadata"}
Event  == 1 .. MaxEvents
Header == 0
Footer == -1

VARIABLES
  life,     \* "unborn", "running", "ending" or "gone"
  mem,      \* the globals of log.py in each process
  at,       \* the call each thread is in
  file,     \* the pieces written to the log, in order
  flock,    \* the open file description that holds the lock of the file, 0 if none
  desc,     \* the description each process writes to, numbered by the call that opened it
  events,   \* recorded events: who recorded each
  calls,
  spoiled   \* processes that were killed or could not open the log

vars == <<life, mem, at, file, flock, desc, events, calls, spoiled>>

Idle == [op |-> "none", pc |-> "none", no |-> 0, todo |-> << >>]
Thread(p) == IF p \in Threaded THEN {"main", "worker"} ELSE {"main"}

NewMem == [enabled |-> FALSE, format |-> "json", open |-> FALSE, cur |-> << >>,
           allowed |-> TRUE, registered |-> FALSE, lock |-> "free", shim |-> FALSE]

Init ==
  /\ life = [p \in Proc |-> IF p \in Program THEN "running" ELSE "unborn"]
  /\ mem = [p \in Proc |-> NewMem]
  /\ at = [p \in Proc |-> [t \in Thread(p) |-> Idle]]
  /\ file = << >> /\ flock = 0 /\ desc = [p \in Proc |-> 0]
  /\ events = << >> /\ calls = 0 /\ spoiled = {}

Go(p, t, step) == at' = [at EXCEPT ![p][t].pc = step]
Here(p, t, op, step) == at[p][t].op = op /\ at[p][t].pc = step

\* The end of a locked function, returning or raising.
Leave(p, t) == at' = [at EXCEPT ![p][t] = Idle]
Released(m) == [m EXCEPT !.lock = "free"]
-------------------------------------------------------------------------------
(* Calls.  Each takes the lock of its process first.                           *)

_locked(p, t, op, no) ==
  /\ mem[p].lock = "free" /\ mem' = [mem EXCEPT ![p].lock = t]
  /\ at' = [at EXCEPT ![p][t] = [op |-> op, pc |-> "body", no |-> no, todo |-> << >>]]

Call(p, t, op) ==
  /\ life[p] = "running" /\ at[p][t] = Idle
  /\ _locked(p, t, op, IF op \in Format THEN calls + 1 ELSE 0)
  /\ UNCHANGED <<life, file, flock, desc, events, spoiled>>

Calls(p, t) ==
  \/ /\ calls < MaxCalls /\ calls' = calls + 1
     /\ \E op \in {"flush", "disable"} \cup Format : Call(p, t, op)
  \/ /\ Len(events) < MaxEvents /\ Call(p, t, "add") /\ UNCHANGED calls

\* The first event of a process empties the buffer: what is there came with the fork.
Inherited(m, first) == IF ~m.registered THEN << >> ELSE m.cur

\* first: the thread has recorded nothing in this process, which its _tls tells.
add_trace_event(p, t) ==
  /\ Here(p, t, "add", "body") /\ Leave(p, t)
  /\ LET m == mem[p]
         first == \A e \in DOMAIN events : events[e] # <<p, t>>
     IN IF ~m.enabled \/ Len(events) = MaxEvents
        THEN mem' = [mem EXCEPT ![p] = Released(m)] /\ UNCHANGED events
        ELSE /\ events' = Append(events, <<p, t>>)
             /\ mem' = [mem EXCEPT ![p] = [Released(m) EXCEPT !.registered = TRUE,
                          !.cur = Append(Inherited(m, first), Len(events) + 1)]]
  /\ UNCHANGED <<life, file, flock, desc, calls, spoiled>>

\* The format is set before the call is refused, and enabled before the log is open.
_trace_enable(p, t) ==
  /\ at[p][t].op \in Format /\ at[p][t].pc = "body"
  /\ LET m == [mem[p] EXCEPT !.format = at[p][t].op] IN
     IF m.enabled \/ ~m.allowed
     THEN mem' = [mem EXCEPT ![p] = Released(m)] /\ Leave(p, t) /\ UNCHANGED <<desc, spoiled>>
     ELSE \/ /\ mem' = [mem EXCEPT ![p] = [Released(m) EXCEPT !.enabled = TRUE]]  \* open fails
             /\ Leave(p, t) /\ spoiled' = spoiled \cup {p} /\ UNCHANGED desc
          \/ /\ mem' = [mem EXCEPT ![p] = [m EXCEPT !.enabled = TRUE, !.open = TRUE]]
             /\ desc' = [desc EXCEPT ![p] = at[p][t].no] /\ Go(p, t, "FileLock") /\ UNCHANGED spoiled
  /\ UNCHANGED <<life, file, flock, events, calls>>

\* Without a log file the flush raises; a disabled log stays disabled.
Flushes(p, t) ==
  /\ at[p][t].op \in {"flush", "disable"} /\ at[p][t].pc = "body"
  /\ LET m == mem[p]
         off == IF at[p][t].op = "disable" THEN [m EXCEPT !.enabled = FALSE] ELSE m
     IN IF ~m.enabled \/ (at[p][t].op = "disable" /\ ~m.allowed)
        THEN mem' = [mem EXCEPT ![p] = Released(m)] /\ Leave(p, t)
        ELSE IF ~m.open
        THEN mem' = [mem EXCEPT ![p] = Released(off)] /\ Leave(p, t)
        ELSE mem' = [mem EXCEPT ![p] = off] /\ Go(p, t, "FileLock")
  /\ UNCHANGED <<life, file, flock, desc, events, calls, spoiled>>
-------------------------------------------------------------------------------
(* Writing, under the lock of the file: flock belongs to the open description, *)
(* which a child shares with its parent.  The log is opened unbuffered, so     *)
(* that every piece of an entry is a write of its own.                         *)

Pieces(entry) == <<[of |-> entry, part |-> 1], [of |-> entry, part |-> 2]>>
AllPieces(s)  == [k \in 1 .. 2 * Len(s) |-> Pieces(s[(k + 1) \div 2])[2 - (k % 2)]]

ToWrite(m, op) ==
  IF op \in Format THEN IF file = << >> THEN Pieces(Header) ELSE << >>
  ELSE AllPieces(m.cur) \o
       IF op = "disable" /\ m.format = "json_with_metadata" THEN Pieces(Footer) ELSE << >>

\* As if the lock were only asked for (a mutant).
TryLock(p) == TRUE
LockIsMine(p) == flock \in {0, desc[p]}

FileLock(p, t) ==
  /\ at[p][t].pc = "FileLock" /\ LockIsMine(p)
  /\ flock' = desc[p]
  /\ at' = [at EXCEPT ![p][t].pc = "write", ![p][t].todo = ToWrite(mem[p], at[p][t].op)]
  /\ UNCHANGED <<life, mem, file, desc, events, calls, spoiled>>

Write(p, t) ==
  /\ at[p][t].pc = "write" /\ at[p][t].todo # << >>
  /\ LET piece == Head(at[p][t].todo) IN
     file' = Append(file, [of |-> piece.of, part |-> piece.part, by |-> p])
  /\ at' = [at EXCEPT ![p][t].todo = Tail(@)]
  /\ UNCHANGED <<life, mem, flock, desc, events, calls, spoiled>>

Remaining(cur, op) == IF op \in Format THEN cur ELSE << >>

\* The buffer is emptied, the lock given back and a disabled log closed.  Enabling
\* puts the shim in the place of multiprocessing.Process, disabling takes it away.
Written(p, t) ==
  /\ at[p][t].pc = "write" /\ at[p][t].todo = << >>
  /\ flock' = IF flock = desc[p] THEN 0 ELSE flock
  /\ Leave(p, t)
  /\ LET op == at[p][t].op
         m  == Released(mem[p])
     IN mem' = [mem EXCEPT ![p] = [m EXCEPT
                 !.cur  = Remaining(m.cur, op),
                 !.open = op # "disable",
                 !.shim = IF op = "flush" THEN m.shim ELSE op # "disable"]]
  /\ desc' = IF at[p][t].op = "disable" THEN [desc EXCEPT ![p] = 0] ELSE desc
  /\ UNCHANGED <<life, file, events, calls, spoiled>>
-------------------------------------------------------------------------------
(* multiprocessing_shim.py: the child has its parent's memory, the lock and    *)
(* the buffer included, only the forking thread, and no control of tracing.    *)

Fork(p, t, c) ==
  /\ p = Forker /\ life[p] = "running" /\ at[p][t] = Idle /\ life[c] = "unborn"
  /\ mem[p].shim /\ calls < MaxCalls /\ calls' = calls + 1
  /\ life' = [life EXCEPT ![c] = "running"]
  /\ mem' = [mem EXCEPT ![c] = [mem[p] EXCEPT !.allowed = FALSE, !.registered = FALSE]]
  /\ desc' = [desc EXCEPT ![c] = desc[p]]
  /\ UNCHANGED <<at, file, flock, events, spoiled>>

\* Memory and descriptions go with the process; the lock of a description goes when
\* the last process that has it open is gone.
Dead(p) ==
  /\ life' = [life EXCEPT ![p] = "gone"]
  /\ mem' = [mem EXCEPT ![p] = NewMem] /\ desc' = [desc EXCEPT ![p] = 0]
  /\ flock' = IF \E q \in Proc \ {p} : /\ life[q] \in {"running", "ending"}
                                      /\ mem[q].open /\ desc[q] = flock
              THEN flock ELSE 0

\* A child flushes at its end if it is enabled; a program that has recorded anything
\* disables at exit, once its threads are done.
End(p) ==
  LET op == IF p \in Child THEN "flush" ELSE "disable"
      last == IF p \in Child THEN mem[p].enabled ELSE mem[p].registered
  IN IF last
     THEN /\ _locked(p, "main", op, 0)
          /\ life' = [life EXCEPT ![p] = "ending"] /\ UNCHANGED <<flock, desc>>
     ELSE Dead(p) /\ UNCHANGED at

\* The check of a child whether tracing is enabled takes the lock as well.
Exit(p) ==
  /\ life[p] = "running" /\ \A t \in Thread(p) : at[p][t] = Idle
  /\ p \in Child => mem[p].lock = "free"
  /\ End(p)
  /\ UNCHANGED <<file, events, calls, spoiled>>

Gone(p) ==
  /\ life[p] = "ending" /\ at[p]["main"] = Idle /\ Dead(p)
  /\ UNCHANGED <<at, file, events, calls, spoiled>>

\* terminate() of a child: it dies where it is, and a lock it has stays with the
\* description as long as its parent runs.
Terminate(c) ==
  /\ c \in Child /\ life[c] \in {"running", "ending"} /\ life[Forker] = "running"
  /\ mem[Forker].lock = "free"
  /\ Dead(c) /\ spoiled' = spoiled \cup {c}
  /\ at' = [at EXCEPT ![c]["main"] = Idle]
  /\ UNCHANGED <<file, events, calls>>

Next ==
  \/ \E p \in Proc : \E t \in Thread(p) :
       \/ Calls(p, t) \/ add_trace_event(p, t) \/ _trace_enable(p, t)
       \/ Flushes(p, t) \/ FileLock(p, t) \/ Write(p, t) \/ Written(p, t)
       \/ \E c \in Child : Fork(p, t, c)
  \/ \E p \in Proc : Exit(p) \/ Gone(p) \/ Terminate(p)

Spec == Init /\ [][Next]_vars
-------------------------------------------------------------------------------
InFile(e)   == \E i \in DOMAIN file : file[i].of = e /\ file[i].part = 2
Recorder(e) == events[e][1]

\* Every piece stands beside the other piece of its entry.
Whole == \A i \in DOMAIN file :
  LET mate == IF file[i].part = 1 THEN i + 1 ELSE i - 1 IN
  mate \in DOMAIN file =>
    /\ file[mate].of = file[i].of /\ file[mate].by = file[i].by
    /\ file[mate].part # file[i].part

\* Programs that log to one file keep each other's entries whole, whatever their
\* threads do and whenever they enable and disable, as long as none of them forks.
WholeWithoutFork == (\A c \in Child : life[c] = "unborn") => Whole

\* An event recorded while tracing is enabled is in the buffer of its process or in
\* the file, and when its process has ended it is in the file: forks, other threads
\* and calls that were refused lose nothing.
NothingLost ==
  \A e \in DOMAIN events : LET p == Recorder(e) IN
    p \notin spoiled => InFile(e) \/ (life[p] # "gone" /\ Contains(mem[p].cur, e))

\* No process writes an event twice.  A child that was forked with events of its
\* parent in the buffer may write those too, so that they are in the file once more
\* for each such child; but none of them once it has recorded an event of its own.
EventsGoOnce ==
  /\ \A j \in DOMAIN file : file[j].of > 0 =>
       /\ \A i \in 1 .. (j - 1) : file[i] # file[j]
       /\ \/ file[j].by = Recorder(file[j].of)
          \/ file[j].by \in Child /\ Recorder(file[j].of) = Forker
  /\ \A c \in Child : mem[c].registered => \A e \in Range(mem[c].cur) : Recorder(e) = c

\* The log of programs that share a file: entries are whole as long as none forks; and
\* forks or not, every event that is recorded gets to the file, once from the process
\* that recorded it, and else only from children that inherited it.
LogIsKept == WholeWithoutFork /\ NothingLost /\ EventsGoOnce

\* "Trace files are multiprocess safe, so you can have multiple processes outputting
\* to the same tracelog at once." (trace_event.py)
MultiprocessSafe == spoiled = {} => Whole

===============================================================================
