---------------------------- MODULE LogcatMonitor ----------------------------
(* LogcatMonitor: a script that starts, stops and closes the recording of a    *)
(* device's log, the recorder threads it starts, each reading the lines of a   *)
(* logcat process, and the device that writes the log.                         *)
EXTENDS Integers, Sequences, FiniteSets

CONSTANTS
  Recorder,    \* bound: the recorder threads a monitor may start
  MaxLines,    \* bound: lines in the log
  MaxStarts,   \* bound: calls of Start
  Sought       \* bound: the line that is searched for

VARIABLES
  clear,     \* _clear: Start clears the log
  count,     \* lines of the device's log, numbered from 1
  rec,       \* each recorder: "new", "running", "writing", "done", "failed"
  pos,       \* what it has read of the log
  line,      \* the line it is about to write
  thread,    \* _record_thread: a recorder, or 0
  stopping,  \* _stop_recording_event
  file,      \* _record_file: closed or not, and its lines
  output,    \* the output file
  main,      \* the script: "idle", "join", "copy", "read"
  search,    \* its last WaitFor or FindAll: the lines it is for, what it has read, its answer
  gaveUp,    \* a join has ended by its timeout
  starts     \* calls of Start so far

NoSearch == [for |-> "none", good |-> 0, bad |-> 0, read |-> 0, answer |-> "none"]

LogInit == /\ clear \in BOOLEAN /\ count = 0
           /\ rec = [r \in Recorder |-> "new"] /\ pos = [r \in Recorder |-> 0]
           /\ line = [r \in Recorder |-> 0]
           /\ thread = 0 /\ stopping = FALSE
           /\ file = [open |-> FALSE, lines |-> <<>>] /\ output = <<>>
           /\ main = "idle" /\ search = NoSearch /\ gaveUp = FALSE /\ starts = 0

Alive(r) == rec[r] \in {"running", "writing"}
------------------------------------------------------------------------------
(* The script                                                                  *)

Fresh == {r \in Recorder : rec[r] = "new"}

\* _StartRecording: a recorder unless there is one, running or not.  What a live one
\* has not read when the log is cleared is lost, or was on its way.
StartRecorder ==
  IF thread # 0
  THEN /\ UNCHANGED <<thread, rec>>
       /\ \/ UNCHANGED pos
          \/ clear /\ Alive(thread) /\ pos' = [pos EXCEPT ![thread] = count]
  ELSE \E r \in Fresh : thread' = r /\ rec' = [rec EXCEPT ![r] = "running"]
                        /\ pos' = [pos EXCEPT ![r] = IF clear THEN count ELSE 0]

\* Start clears the log first if the monitor was made so: a new recorder begins
\* after what was in the log then, or else with the whole of it.  It opens the record
\* file if there is none.
Start ==
  /\ main = "idle" /\ starts < MaxStarts
  /\ starts' = starts + 1
  /\ file' = IF file.open THEN file ELSE [open |-> TRUE, lines |-> <<>>]
  /\ stopping' = FALSE
  /\ StartRecorder /\ search' = NoSearch
  /\ UNCHANGED <<clear, count, line, output, main, gaveUp>>

Stop ==
  /\ main = "idle" /\ starts > 0
  /\ IF thread # 0 THEN stopping' = TRUE /\ main' = "join"
                   ELSE UNCHANGED stopping /\ main' = "copy"
  /\ search' = NoSearch
  /\ UNCHANGED <<clear, count, rec, pos, line, thread, file, output, gaveUp, starts>>

\* As if the recorder were not waited for (a mutant).
JoinNot == /\ main = "join"
           /\ thread' = 0 /\ main' = "copy"
           /\ UNCHANGED <<clear, count, rec, pos, line, stopping, file, output, search, gaveUp, starts>>

\* The recorder has ended, or 5 s have passed and it is let go; the exception of
\* a failed one leaves it in its place.
Join ==
  /\ main = "join"
  /\ IF rec[thread] = "failed"
     THEN main' = "idle" /\ UNCHANGED <<clear, thread, gaveUp>>
     ELSE thread' = 0 /\ main' = "copy" /\ gaveUp' = (gaveUp \/ Alive(thread))
  /\ UNCHANGED <<clear, count, rec, pos, line, stopping, file, output, search, starts>>

\* The record file is copied with the lock held.
Copy == /\ main = "copy"
        /\ main' = "idle"
        /\ output' = IF file.open THEN file.lines ELSE output
        /\ UNCHANGED <<clear, count, rec, pos, line, thread, stopping, file, search, gaveUp, starts>>

Close == /\ main = "idle" /\ file.open
         /\ file' = [open |-> FALSE, lines |-> <<>>] /\ search' = NoSearch
         /\ UNCHANGED <<clear, count, rec, pos, line, thread, stopping, output, main, gaveUp, starts>>

\* WaitFor needs a recorder, which may have failed, and FindAll a file; both read the
\* record file from its beginning.  A bad line of 0 is none.
Search(for, needs) ==
  /\ main = "idle" /\ starts > 0 /\ search = NoSearch
  /\ \E bad \in (0..MaxLines) \ {Sought} :
       /\ for = "FindAll" => bad = 0
       /\ search' = [for |-> for, good |-> Sought, bad |-> bad, read |-> 0,
                     answer |-> IF needs /\ file.open THEN "none" ELSE "raised"]
       /\ main' = IF needs /\ file.open THEN "read" ELSE "idle"
  /\ UNCHANGED <<clear, count, rec, pos, line, thread, stopping, file, output, gaveUp, starts>>

WaitFor == Search("WaitFor", thread # 0)
FindAll == Search("FindAll", TRUE)

Match(l) == IF l = search.good THEN "match" ELSE IF l = search.bad THEN "failure" ELSE "none"

\* A line; at the end of the file FindAll ends, and WaitFor sleeps, until its time is over.
ReadLine ==
  /\ main = "read"
  /\ LET found(a) == search' = [search EXCEPT !.read = @ + 1, !.answer = a]
         over == main' = "idle" /\ search' = [search EXCEPT !.answer = "end"]
     IN  IF search.read < Len(file.lines)
         THEN LET a == Match(file.lines[search.read + 1])
              IN  found(a) /\ main' = IF a # "none" THEN "idle" ELSE "read"
         ELSE over
  /\ UNCHANGED <<clear, count, rec, pos, line, thread, stopping, file, output, gaveUp, starts>>
------------------------------------------------------------------------------
(* A recorder: the lines of _IterCmdOutputLines, one by one                     *)

Unread(r) == pos[r] < count

\* What comes when the time of the iteration is over is not yielded: None is.
NextLine(r, late) == IF Unread(r) /\ ~late THEN pos[r] + 1 ELSE 0

\* One yield: a line, or None; then the event is looked at, and the line kept.
Record(r) ==
  /\ rec[r] = "running"
  /\ \E late \in BOOLEAN :
       LET l == NextLine(r, late) IN
       /\ pos' = [pos EXCEPT ![r] = IF Unread(r) THEN @ + 1 ELSE @]
       /\ rec' = [rec EXCEPT ![r] = IF stopping THEN "done" ELSE IF l = 0 THEN "running" ELSE "writing"]
       /\ line' = [line EXCEPT ![r] = IF stopping THEN 0 ELSE l]
  /\ UNCHANGED <<clear, count, thread, stopping, file, output, main, search, gaveUp, starts>>

\* With the lock, unless the file has been closed meanwhile.
Write(r) ==
  /\ rec[r] = "writing"
  /\ file' = IF file.open THEN [file EXCEPT !.lines = Append(@, line[r])] ELSE file
  /\ rec' = [rec EXCEPT ![r] = "running"] /\ line' = [line EXCEPT ![r] = 0]
  /\ UNCHANGED <<clear, count, pos, thread, stopping, output, main, search, gaveUp, starts>>

\* The logcat process ends with an error, or transform_func raises.
Break(r) ==
  /\ Alive(r)
  /\ rec' = [rec EXCEPT ![r] = "failed"] /\ line' = [line EXCEPT ![r] = 0]
  /\ UNCHANGED <<clear, count, pos, thread, stopping, file, output, main, search, gaveUp, starts>>

DeviceLogs ==
  /\ count < MaxLines
  /\ count' = count + 1
  /\ UNCHANGED <<clear, rec, pos, line, thread, stopping, file, output, main, search, gaveUp, starts>>

LogNext == \/ WaitFor \/ FindAll \/ ReadLine \/ Start \/ Stop \/ Join \/ Copy \/ Close \/ DeviceLogs
           \/ \E r \in Recorder : Record(r) \/ Write(r) \/ Break(r)
------------------------------------------------------------------------------
(* Properties                                                                  *)

Times(l) == Cardinality({i \in DOMAIN file.lines : file.lines[i] = l})
Began    == {r \in Recorder : rec[r] # "new"}

\* As long as every recorder could be waited for, there is one recorder at most, none
\* at all after a Stop that returned, and the record file has the lines in their
\* order, each once if Start clears the log, or else again from the beginning of the
\* log for each recorder after the first.  One that was let go has been told to end
\* until a Start takes that back; and whatever was let go, no line is in the file more
\* often than there were recorders that read that far.
OneRecorder ==
  /\ \A r \in Recorder : Alive(r) /\ r # thread => gaveUp /\ (stopping \/ starts > 1)
  /\ ~gaveUp => LET back == {i \in 1..Len(file.lines) - 1 : file.lines[i] >= file.lines[i + 1]}
                IN  back = {} \/ (~clear /\ Cardinality(back) < Cardinality(Began))
  /\ \A i \in DOMAIN file.lines :
       Times(file.lines[i]) <= Cardinality({r \in Began : pos[r] >= file.lines[i]})

\* What a search answers is the first line it is for, in the order of the log, whether
\* that was there before or is written while it reads.
FirstIsFound ==
  LET Among(l, n) == \E i \in 1..n : file.lines[i] = l
  IN  file.open /\ ~gaveUp /\ main = "idle" =>
        /\ search.answer = "match" => ~Among(search.bad, search.read)
        /\ search.answer = "failure" => ~Among(search.good, search.read)

\* "CommandFailedError on logcat failure" (logcat_monitor.py 83): a search does not end
\* by its timeout with the recorder failed.
FailureIsRaised == search.for = "WaitFor" /\ search.answer = "end" => ~(thread # 0 /\ rec[thread] = "failed")

\* "The output of the subprocess, line by line." (cmd_helper.py 450): what has
\* been recorded has no hole.
NoLineLost ==
  \A i \in 1..Len(file.lines) - 1 : starts = 1 => file.lines[i + 1] = file.lines[i] + 1
==============================================================================
