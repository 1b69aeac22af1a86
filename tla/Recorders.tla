------------------------------ MODULE Recorders ------------------------------
(* What is recorded on a device while a test runs: the times of the frames     *)
(* (perf/surface_stats_collector.py), a video of the screen                    *)
(* (tools/video_recorder.py), the throttling of its cores                      *)
(* (perf/thermal_throttle.py), the power each package has used                 *)
(* (battery_utils.py).  The first two have a thread on the host and a          *)
(* buffer or a process on the device; the third empties the kernel's log.      *)
EXTENDS Integers, Sequences

CONSTANTS
  MaxFrames,   \* bound: the frames of a run
  Frames,      \* frames SurfaceFlinger remembers
  MaxStarts,   \* bound: calls of Start, or reads of the log
  Pkg, Uids   \* bound: the packages of a device; the uids they may have

VARIABLES
  use,         \* the recorder in use: "frames", "video", "throttle", "power"
  main,        \* what the caller is doing
  thread,      \* what the recorder's thread is doing
  held,        \* _collector_thread or _recorder_thread is set
  starts,      \* calls so far
  wrong,       \* something that the recorder cannot help has happened
  \* frames
  shown, buffer,            \* frames on the screen so far; what SurfaceFlinger has of them
  get, stop, queue,         \* _get_data_event, _stop_event, _data_queue
  times, lastTime, empty,   \* timestamps, last_timestamp, retries
  from, upTo, answer,       \* frame of the last Start, of the last poll; what Stop returned
                            \* or raised since, <<>> for nothing
  \* video
  procs, file, pulled,      \* screenrecord processes; the file and the copy: [run, whole]
  \* throttle
  hot, log, throttled,      \* of the device, dmesg, _throttled
  \* power
  uid, uids,                \* each package's uid, NoUid when not installed; _cache['uids']
  power                     \* the last answer, "none" once the packages have changed

common  == <<use, main, thread, held, starts, wrong>>
frames  == <<shown, buffer, get, stop, queue, times, lastTime, empty, from, upTo, answer>>
video   == <<procs, file, pulled>>
thermal == <<hot, log, throttled>>
usage   == <<uid, uids, power>>
recVars == <<common, frames, video, thermal, usage>>

NoUid   == 0
NoPower == [what |-> "none", of |-> [p \in Pkg |-> NoUid]]

NoFile == [run |-> 0, whole |-> FALSE]

RecInit == /\ use \in {"frames", "video", "throttle", "power"}
           /\ hot \in IF use = "throttle" THEN BOOLEAN ELSE {FALSE}
           /\ main = "idle" /\ thread = "none" /\ held = FALSE /\ starts = 0 /\ wrong = hot
           /\ shown = 0 /\ buffer = <<>> /\ get = FALSE /\ stop = FALSE /\ queue = <<>>
           /\ times = <<>> /\ lastTime = 0 /\ empty = 0 /\ from = 0 /\ upTo = 0 /\ answer = <<>>
           /\ procs = {} /\ file = NoFile /\ pulled = NoFile
           /\ log = <<>> /\ throttled = FALSE
           /\ uid = [p \in Pkg |-> NoUid] /\ uids = uid /\ power = NoPower

LastOf(n, s) == SubSeq(s, IF Len(s) > n THEN Len(s) - n + 1 ELSE 1, Len(s))
------------------------------------------------------------------------------
(* SurfaceStatsCollector                                                       *)

Caller == UNCHANGED <<use, starts>>

\* A frame is shown; the oldest that is remembered may go before it was asked for.
Frame ==
  /\ use = "frames" /\ shown < MaxFrames
  /\ shown' = shown + 1 /\ buffer' = LastOf(Frames, Append(buffer, shown'))
  /\ wrong' = (wrong \/ (Len(buffer) = Frames /\ buffer[1] > upTo /\ buffer[1] > from))
  /\ Caller /\ UNCHANGED <<main, thread, held, get, stop, queue, times, lastTime, empty, from,
                           upTo, answer>>

\* The data of the device is cleared first; the one thread is asserted.
StartFrames ==
  /\ use = "frames" /\ main = "idle" /\ ~held /\ starts < MaxStarts
  /\ starts' = starts + 1 /\ held' = TRUE /\ thread' = "wait"
  /\ buffer' = <<>> /\ from' = shown /\ upTo' = shown
  /\ get' = FALSE /\ stop' = FALSE /\ queue' = <<>> /\ times' = <<>> /\ lastTime' = 0
  /\ empty' = 0 /\ answer' = <<>> /\ wrong' = FALSE
  /\ UNCHANGED <<use, main, shown>>

\* Stop: the event, then the queue, from which an exception goes to the caller.
StopFrames ==
  /\ use = "frames" /\ main = "idle" /\ held
  /\ get' = TRUE /\ main' = "get"
  /\ Caller /\ UNCHANGED <<thread, held, wrong, shown, buffer, stop, queue, times, lastTime,
                           empty, from, upTo, answer>>
GetData ==
  /\ use = "frames" /\ main = "get" /\ queue # <<>>
  /\ queue' = Tail(queue)
  /\ IF queue[1] = <<"exception">> THEN main' = "idle" /\ answer' = <<"exception">> /\ UNCHANGED stop
     ELSE main' = "join" /\ stop' = TRUE /\ answer' = queue[1]
  /\ Caller /\ UNCHANGED <<thread, held, wrong, shown, buffer, get, times, lastTime, empty,
                           from, upTo>>
JoinFrames ==
  /\ use = "frames" /\ main = "join" /\ thread = "ended"
  /\ main' = "idle" /\ held' = FALSE
  /\ Caller /\ UNCHANGED <<thread, wrong, frames>>

\* The thread looks at its stop event, then waits a second or for the other event.
Wait ==
  /\ use = "frames" /\ thread = "wait"
  /\ thread' = IF stop THEN "ended" ELSE "poll"
  /\ Caller /\ UNCHANGED <<main, held, wrong, frames>>

Dies == queue' = Append(queue, <<"exception">>) /\ thread' = "ended"

\* _GetSurfaceFlingerFrameData: the command raises, or there is no output for the third
\* time, or there are frames, of which those with a pending fence are passed over, and
\* none when there is no surface: those since the last one are kept.  No output
\* after some data means that the app was closed.
New(s) == SelectSeq(s, LAMBDA t : t > lastTime)
Failing ==
  /\ wrong' = TRUE /\ UNCHANGED <<get, times, lastTime, upTo>>
  /\ \/ Dies /\ UNCHANGED empty
     \/ /\ empty' = empty + 1
        /\ IF empty' < 3 THEN thread' = "wait" /\ UNCHANGED queue
           ELSE IF lastTime # 0
                THEN queue' = Append(queue, <<"none">>) /\ thread' = "closed"
                ELSE Dies
\* As if the frames were kept after they have been handed out (a mutant).
HandOutAgain(all) ==
  IF get THEN get' = FALSE /\ queue' = Append(queue, <<"frames", all, upTo'>>) /\ times' = all
  ELSE times' = all /\ UNCHANGED <<get, queue>>
HandOut(all) ==
  IF get THEN get' = FALSE /\ queue' = Append(queue, <<"frames", all, upTo'>>) /\ times' = <<>>
  ELSE times' = all /\ UNCHANGED <<get, queue>>
Poll ==
  /\ use = "frames" /\ thread = "poll"
  /\ \/ /\ \E k \in 0..Len(buffer) :
             LET all == times \o New(SubSeq(buffer, 1, k))
             IN  /\ upTo' = IF k > 0 THEN buffer[k] ELSE upTo
                 /\ lastTime' = IF all = <<>> THEN lastTime ELSE all[Len(all)]
                 /\ HandOut(all)
        /\ thread' = "wait" /\ UNCHANGED <<empty, wrong>>
     \/ Failing
  /\ Caller /\ UNCHANGED <<main, held, shown, buffer, stop, from, answer>>

\* The thread of a closed app waits for its end.
Closed ==
  /\ use = "frames" /\ thread = "closed" /\ stop
  /\ thread' = "ended"
  /\ Caller /\ UNCHANGED <<main, held, wrong, frames>>

FramesNext == /\ \/ Frame \/ StartFrames \/ StopFrames \/ GetData \/ JoinFrames
                 \/ Wait \/ Poll \/ Closed
              /\ UNCHANGED <<video, thermal, usage>>
------------------------------------------------------------------------------
(* VideoRecorder; main: "pid" and "started" of Start, "body", "join", "pull"   *)

\* No screenrecord may run when one is started.
StartVideo ==
  /\ use = "video" /\ main = "idle" /\ starts < MaxStarts
  /\ IF procs # {} THEN UNCHANGED <<common, video>>
     ELSE /\ starts' = starts + 1 /\ main' = "pid" /\ thread' = "launch" /\ held' = TRUE
          /\ wrong' = FALSE /\ pulled' = NoFile
          /\ UNCHANGED <<use, procs, file>>

\* The thread's adb shell; that it raises is not seen by anybody.
Launch ==
  /\ use = "video" /\ thread = "launch"
  /\ \/ /\ procs' = procs \cup {starts}
        /\ file' = [run |-> starts, whole |-> FALSE]
        /\ thread' = "quiet" /\ UNCHANGED wrong
     \/ thread' = "ended" /\ wrong' = TRUE /\ UNCHANGED <<procs, file>>
  /\ UNCHANGED <<use, main, held, starts, pulled>>

\* "Content area is": the event that Start waits for.
ContentArea ==
  /\ use = "video" /\ thread = "quiet"
  /\ thread' = "recording"
  /\ UNCHANGED <<use, main, held, starts, wrong, video>>

\* screenrecord ends by a signal or at its time limit, and completes its file.
EndRecording ==
  /\ use = "video"
  /\ \E p \in procs :
       /\ procs' = procs \ {p}
       /\ file' = IF file.run = p THEN [file EXCEPT !.whole = TRUE] ELSE file
       /\ thread' = IF p = starts /\ thread \in {"quiet", "recording"} THEN "ended" ELSE thread
  /\ UNCHANGED <<use, main, held, starts, wrong, pulled>>

\* The connection is lost, and the device goes on recording.
LoseShell ==
  /\ use = "video" /\ thread \in {"quiet", "recording"}
  /\ thread' = "ended" /\ wrong' = TRUE
  /\ UNCHANGED <<use, main, held, starts, video>>

SeePid ==
  /\ use = "video" /\ main = "pid" /\ procs # {}
  /\ main' = "started"
  /\ UNCHANGED <<use, thread, held, starts, wrong, video>>
SeeStarted ==
  /\ use = "video" /\ main = "started" /\ thread = "recording"
  /\ main' = "body"
  /\ UNCHANGED <<use, thread, held, starts, wrong, video>>

\* KillAll interrupts every screenrecord, or raises; then the thread is waited for.
StopVideo ==
  /\ use = "video" /\ main = "body"
  /\ \/ main' = "join" /\ UNCHANGED wrong
     \/ main' = "idle" /\ wrong' = TRUE
  /\ UNCHANGED <<use, thread, held, starts, video>>

\* As if the recorder's thread were not waited for (a mutant).
JoinNoVideo ==
  /\ use = "video" /\ main = "join"
  /\ main' = "pull" /\ held' = FALSE
  /\ UNCHANGED <<use, thread, starts, wrong, video>>

JoinVideo ==
  /\ use = "video" /\ main = "join" /\ thread = "ended"
  /\ main' = "pull" /\ held' = FALSE
  /\ UNCHANGED <<use, thread, starts, wrong, video>>

\* Pull copies the file and removes it.
Pull ==
  /\ use = "video" /\ main = "pull"
  /\ main' = "idle"
  /\ \/ file # NoFile /\ pulled' = file /\ file' \in {NoFile, file}
     \/ UNCHANGED <<file, pulled>>
  /\ UNCHANGED <<use, thread, held, starts, wrong, procs>>

VideoNext == /\ \/ StartVideo \/ Launch \/ ContentArea \/ EndRecording \/ LoseShell
                \/ SeePid \/ SeeStarted \/ StopVideo \/ JoinVideo \/ Pull
             /\ UNCHANGED <<frames, thermal, usage>>
------------------------------------------------------------------------------
(* ThermalThrottle                                                             *)

Throttle ==
  /\ use = "throttle" /\ Len(log) < MaxFrames
  /\ hot' = ~hot /\ log' = Append(log, hot')
  /\ UNCHANGED <<common, throttled>>

\* _ReadLog: "dmesg -c" empties the log; when its answer is lost the command is made
\* again, and its lines are not seen by anybody.  The next line there is tells again
\* what the device is.
ReadLog ==
  /\ use = "throttle" /\ starts < MaxStarts
  /\ starts' = starts + 1 /\ log' = <<>>
  /\ \/ /\ throttled' = IF log = <<>> THEN throttled ELSE log[Len(log)]
        /\ wrong' = (wrong /\ log = <<>>)
     \/ wrong' = (wrong \/ log # <<>>) /\ UNCHANGED throttled
  /\ UNCHANGED <<use, main, thread, held, hot>>

ThermalNext == (Throttle \/ ReadLog) /\ UNCHANGED <<frames, video, usage>>
------------------------------------------------------------------------------
(* GetPowerData: the dump names every package once, and the power of every uid *)

\* A package is installed, perhaps with another uid than it had, or removed.
Reinstall ==
  /\ use = "power"
  /\ \E p \in Pkg, u \in Uids \cup {NoUid} :
       /\ u # uid[p] /\ uid' = [uid EXCEPT ![p] = u]
       /\ wrong' = (wrong \/ (uids[p] # NoUid /\ u \notin {NoUid, uids[p]}))
  /\ power' = NoPower
  /\ UNCHANGED <<use, main, thread, held, starts, uids>>

\* The cache with the lines of the packages S.
Listed(S) == [p \in Pkg |-> IF p \in S THEN uid[p] ELSE uids[p]]

\* The uids of the dump are added to those of the dumps before; a package that had
\* another one raises, with the lines up to it read.
GetPowerData ==
  /\ use = "power"
  /\ LET there == {p \in Pkg : uid[p] # NoUid}
         clash == {p \in there : uids[p] \notin {NoUid, uid[p]}}
     IN  IF clash = {} THEN uids' = Listed(there) /\ power' = [what |-> "answer", of |-> uids']
         ELSE /\ \E S \in SUBSET (there \ clash) : uids' = Listed(S)
              /\ power' = [NoPower EXCEPT !.what = "clash"]
  /\ UNCHANGED <<common, uid>>

PowerNext == (Reinstall \/ GetPowerData) /\ UNCHANGED <<frames, video, thermal>>
------------------------------------------------------------------------------
RecNext == FramesNext \/ VideoNext \/ ThermalNext \/ PowerNext

(* Properties                                                                  *)

\* Frames that Stop hands out are those shown since Start, each once and in order, up
\* to its last poll, if none was forgotten before it was asked for.
FramesOnce ==
  answer # <<>> /\ answer[1] = "frames" =>
     LET s == answer[2]
     IN  /\ \A i \in 1..Len(s) - 1 : s[i] < s[i + 1]
         /\ \A i \in 1..Len(s) : s[i] > from
         /\ ~wrong => \A t \in from + 1 .. answer[3] : \E i \in 1..Len(s) : s[i] = t

\* Whatever the thread meets, the first Stop after a Start is answered, with frames,
\* with nothing or with the thread's exception: a caller waits for the queue of a dead
\* thread only when a Stop before it has taken that exception, which leaves the dead
\* thread in the object; and that one waits for good.
StopIsAnswered ==
  main = "get" /\ thread = "ended" /\ queue = <<>> => answer = <<"exception">>

\* The video that is pulled is the one of this recording, and it is complete, if
\* nothing happened to the connection.
VideoIsWhole == pulled # NoFile /\ ~wrong => pulled = [run |-> starts, whole |-> TRUE]

\* IsThrottled answers what the device is once a line of its log has been read since
\* lines got lost, or since the object was made on a hot device.
ThrottlingIsTold == use = "throttle" /\ ~wrong /\ log = <<>> => throttled = hot

\* The power that is told of an installed package is that of the uid it has now, and
\* while no package has come back with another uid there is an answer.  A removed
\* package stays in the answer, with the power of whoever has its uid now.
PowerIsItsOwn ==
  /\ power.what = "answer" => \A p \in Pkg : uid[p] # NoUid => power.of[p] = uid[p]
  /\ power.what = "clash" => wrong

\* "prevent the main thread from waiting at _data_queue.get() infinitely"
\* (surface_stats_collector.py 89)
NoStopHangs == ~(main = "get" /\ thread = "ended" /\ queue = <<>>)
==============================================================================
