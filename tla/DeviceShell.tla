----------------------------- MODULE DeviceShell -----------------------------
(* Shell commands and file transfers of DeviceUtils: RunShellCommand with its *)
(* two ways around adb's limits (a long command is run from a script, a large *)
(* output goes to a file that is pulled), ReadFile, PullFile and WriteFile on *)
(* top of them, with or without su, and KillAll.  The temporary files each of *)
(* them leaves on the device are deleted by threads of their own.  Then the   *)
(* checksums of md5sum.py, and the PersistentShell of AdbWrapper, that sends  *)
(* its commands to one adb shell and tells their outputs apart by a last line.*)
EXTENDS DeviceCall, Sequences

CONSTANTS
  Temps,      \* bound: the temporary files at any time; a call waits for a free one
  MaxEdits,   \* bound: how often an app changes the file
  MaxSends    \* bound: calls of a persistent shell

VARIABLES
  path,       \* the file on the device: "none", "small", "large", "torn"
  su,         \* only root may use it, and commands need su for that
  temp,       \* the temporary files: "none", or what each holds
  deleting,   \* those whose delete_temporary_file thread has not run yet
  orphan,     \* those whose deletion failed
  procs,      \* the processes of the name KillAll is given
  edits,      \* changes of the file by an app
  seen,       \* contents the file has had since the call began
  killed,     \* a process was killed since the call began
  answer,     \* what the call returned
  md5bin,     \* the md5sum binary on the device: "none", "other", "twin" in size, "same", "torn"
  process,    \* _process of the persistent shell is there
  alive,      \* and so is the process itself, with its device
  pipe,       \* lines it has printed and nobody has read: <<command, kind>>
  sent,       \* commands it was sent
  printed,    \* the kinds of the lines the last of them prints
  odd,        \* one printed what may be taken for the last line, or hides it
  heard       \* the lines of the last answer

pipeVars  == <<process, alive, pipe, sent, printed, odd, heard>>
shellVars == <<path, su, temp, deleting, orphan, procs, edits, seen, killed, answer, md5bin,
               pipeVars>>
\* What the calls of DeviceUtils leave alone.
others    == <<md5bin, pipeVars>>
temps     == <<temp, deleting, orphan>>

Text  == {"small", "large"}     \* within adb's limits, and beyond them
Cut   == "cut"                  \* output that adb truncated
NoTemp == "none"

ShellInit == /\ path \in {"none", "small", "large"} /\ su \in BOOLEAN
             /\ temp = [t \in Temps |-> NoTemp] /\ deleting = {} /\ orphan = {}
             /\ procs \in SUBSET {1, 2} /\ edits = 0
             /\ seen = {} /\ killed = FALSE /\ answer = "none"
             /\ md5bin \in {"none", "other", "twin", "same", "torn"}
             /\ process = FALSE /\ alive = FALSE /\ pipe = <<>> /\ sent = 0
             /\ printed = <<>> /\ odd = FALSE /\ heard = <<>>

Free   == {t \in Temps : temp[t] = NoTemp} \ deleting
Unused == CHOOSE t \in Free : TRUE
\* The end of the with blocks: each file in S is deleted by a thread.
Close(S) == deleting' = deleting \cup {t \in S : temp'[t] # NoTemp}
InUse    == {loc.out, loc.tmp} \cap Temps

\* The call ends with the answer a, or raises; its with blocks end both ways.
Give(a) == answer' = a /\ Close(InUse) /\ UNCHANGED orphan /\ Return
Fail    == UNCHANGED answer /\ Close(InUse) /\ UNCHANGED orphan /\ Raise
Keep(l, f) == UNCHANGED <<answer, deleting, orphan>> /\ GotoWith(l, f)
------------------------------------------------------------------------------
(* RunShellCommand and the helpers nested in it.  loc: the mode, the script    *)
(* and the output file; for "cat" and "ps" the command is the caller's.        *)

Locals == [large |-> FALSE, out |-> 0, tmp |-> 0, status |-> 0]

RunShellCommand ==
  /\ pc = "RunShellCommand"
  /\ answer' = "none"
  /\ GotoWith("LargeCommand", [Locals EXCEPT !.large = arg.large])
  /\ UNCHANGED <<path, su, temps, procs, edits, seen, killed>>

\* handle_large_command: a command beyond the limit is pushed as a script.
LargeCommand ==
  /\ pc = "LargeCommand" /\ Free # {}
  /\ IF arg.cmd = "large"
     THEN LET t == Unused
          IN  /\ temp' \in {[temp EXCEPT ![t] = "script"], temp}
              /\ \/ temp'[t] = "script" /\ Keep("Run", [loc EXCEPT !.tmp = t])
                 \/ /\ answer' = answer /\ UNCHANGED orphan
                    /\ deleting' = deleting \cup ({t} \cup InUse)
                    /\ Raise
     ELSE UNCHANGED temp /\ Keep("Run", loc)
  /\ UNCHANGED <<path, su, procs, edits, seen, killed>>

\* What the command prints: the file for cat, anything for a caller's own.
Printed == IF op = "ReadFile" THEN {path} \ {"none"} ELSE Text

\* As if the exit status were not missed (a mutant).
ShellCut(out) == IF ~loc.large /\ out = "large" THEN Cut ELSE out

\* What adb shell gives back of an output: all of it, or "status None" when the
\* exit status at its end was cut off with the rest.
Shell(out) == IF ~loc.large /\ out = "large" THEN "status None" ELSE out

\* handle_check_return and handle_large_output around one run of the command.
\* Cut output is returned as it is unless the status is checked; otherwise the
\* command is run once more, with its output in a file.
Run ==
  /\ pc = "Run" /\ (loc.large => Free # {})
  /\ \/ \E out \in Printed, ok \in BOOLEAN :
          LET o == IF loc.large THEN Unused ELSE 0
          IN  IF loc.large
              THEN /\ temp' = [temp EXCEPT ![o] = out]
                   /\ Keep("ReadBack", [loc EXCEPT !.out = o, !.status = IF ok THEN 0 ELSE 1])
              ELSE /\ UNCHANGED temp
                   /\ CASE Shell(out) = "status None" /\ arg.check ->
                             /\ UNCHANGED <<answer, orphan>> /\ Close(InUse)
                             /\ GotoWith("LargeCommand", [Locals EXCEPT !.large = TRUE])
                        [] Shell(out) = "status None" /\ ~arg.check -> Give(Cut)
                        [] Shell(out) # "status None" /\ (ok \/ ~arg.check) -> Give(Shell(out))
                        [] OTHER -> Fail
     \/ LET o == IF loc.large THEN {Unused} ELSE {}
        IN  /\ temp' \in {temp} \cup {[temp EXCEPT ![t] = "torn"] : t \in o}
            /\ deleting' = deleting \cup {t \in InUse \cup o : temp'[t] # NoTemp}
            /\ UNCHANGED <<answer, orphan>> /\ Raise
  /\ UNCHANGED <<path, su, procs, edits, seen, killed>>

\* The output file is pulled, also to report a command that failed.
ReadBack ==
  /\ pc = "ReadBack"
  /\ UNCHANGED temp
  /\ \/ (loc.status = 0 \/ ~arg.check) /\ Give(temp[loc.out])
     \/ Fail
  /\ UNCHANGED <<path, su, procs, edits, seen, killed>>
------------------------------------------------------------------------------
(* Files                                                                      *)

\* ls -l of the directory: a file of size 0 or none is not read with cat.
FileSize == path

\* ReadFile by its size; it may be another when it is read.
ReadFile ==
  /\ pc = "ReadFile"
  /\ seen' = {path} /\ answer' = "none"
  /\ UNCHANGED <<deleting, orphan>>
  /\ \/ arg.pull /\ GotoWith(IF su THEN "CopyToReadable" ELSE "Pull", Locals)
     \/ /\ ~arg.pull /\ FileSize # "none"
        /\ GotoWith(IF FileSize = "small" THEN "Run" ELSE IF su THEN "CopyToReadable" ELSE "Pull",
                    Locals)
     \/ Raise
  /\ UNCHANGED <<path, su, temp, procs, edits, killed>>

\* _CopyToReadableLocation: with su, a copy that adb may read.
CopyToReadable ==
  /\ pc = "CopyToReadable" /\ Free # {}
  /\ LET t == Unused
     IN  \/ /\ path # "none"
            /\ temp' = [temp EXCEPT ![t] = path]
            /\ Keep("Pull", [loc EXCEPT !.tmp = t])
         \/ /\ temp' \in {temp, [temp EXCEPT ![t] = "torn"]}
            /\ deleting' = deleting \cup {t} /\ UNCHANGED <<answer, orphan>>
            /\ Raise
  /\ UNCHANGED <<path, su, procs, edits, seen, killed>>

Pull(what) == (what # "none" /\ Give(what)) \/ Fail

\* PullFile of the file or of its copy, into a directory of the host.
PullFile ==
  /\ pc = "Pull"
  /\ UNCHANGED temp
  /\ Pull(IF loc.tmp # 0 THEN temp[loc.tmp] ELSE path)
  /\ UNCHANGED <<path, su, procs, edits, seen, killed>>

\* A temporary file with the text, made by a command, and then the step l.
Make(text, l) ==
  LET t == Unused
  IN  /\ Free # {} /\ answer' = "none" /\ UNCHANGED orphan
      /\ \/ /\ temp' = [temp EXCEPT ![t] = text] /\ UNCHANGED deleting
            /\ GotoWith(l, [Locals EXCEPT !.tmp = t])
         \/ /\ temp' \in {temp, [temp EXCEPT ![t] = "torn"]}
            /\ deleting' = deleting \cup {t} /\ Raise
      /\ UNCHANGED <<path, su, procs, edits, seen, killed>>

\* A picture of the screen, pulled from where screencap put it.
TakeScreenshot == pc = "TakeScreenshot" /\ Make("large", "Pull")

\* The script that restarts adbd is read while adbd, and the answer with it, goes.
RestartAdbd == pc = "RestartAdbd" /\ Make("script", "Source")
Source == /\ pc = "Source"
          /\ UNCHANGED temp /\ (Give("done") \/ Fail)
          /\ UNCHANGED <<path, su, procs, edits, seen, killed>>

\* WriteFile: short contents by echo, the others by adb push, which cannot use
\* su: then to a temporary file, and cp from there.
WriteFile ==
  /\ pc = "WriteFile"
  /\ answer' = "none" /\ seen' = {}
  /\ GotoWith(IF arg.text = "small" \/ ~su THEN "Put" ELSE "PushTemp", Locals)
  /\ UNCHANGED <<path, su, temps, procs, edits, killed>>

PushTemp ==
  /\ pc = "PushTemp" /\ Free # {}
  /\ LET t == Unused
     IN  \/ temp' = [temp EXCEPT ![t] = arg.text] /\ Keep("Put", [loc EXCEPT !.tmp = t])
         \/ /\ temp' \in {temp, [temp EXCEPT ![t] = "torn"]}
            /\ deleting' = deleting \cup {t} /\ UNCHANGED <<answer, orphan>>
            /\ Raise
  /\ UNCHANGED <<path, su, procs, edits, seen, killed>>

\* The copy, the push or the echo itself, none of which is atomic.
Put ==
  /\ pc = "Put"
  /\ UNCHANGED temp
  /\ \/ path' = (IF loc.tmp # 0 THEN temp[loc.tmp] ELSE arg.text) /\ Give("done")
     \/ path' \in {path, "torn", arg.text} /\ Fail
  /\ UNCHANGED <<su, procs, edits, seen, killed>>
------------------------------------------------------------------------------
(* KillAll: ps, kill, and ps again until none of those pids is left.          *)

ListProcesses ==
  /\ pc = "KillAll"
  /\ killed' = (killed /\ tries > 0)
  /\ UNCHANGED <<path, su, temps, procs, edits, seen>>
  /\ \/ /\ procs = {}
        /\ IF arg.quiet THEN answer' = "none" /\ Return
                        ELSE answer' = "no processes" /\ Raise
     \/ procs # {} /\ answer' = "none" /\ GotoWith("Kill", [pids |-> procs])
     \/ answer' = "none" /\ Raise

Kill ==
  /\ pc = "Kill"
  /\ UNCHANGED <<path, su, temps, edits, seen, answer>>
  /\ Adb(procs' = procs \ loc.pids, UNCHANGED procs, Goto("AllPidsKilled"))
  /\ killed' = (killed \/ procs' # procs)

AllPidsKilled ==
  /\ pc = "AllPidsKilled"
  /\ UNCHANGED <<path, su, temps, procs, edits, seen, killed, answer>>
  /\ (procs \cap loc.pids = {} /\ Return) \/ Raise
------------------------------------------------------------------------------
(* CalculateDeviceMd5Sums                                                     *)

KeepMd5 == UNCHANGED <<path, su, temps, procs, edits, seen, killed, pipeVars>>

\* The script ends with status 2 where the binary is missing or has another size.
FitsBySize == md5bin \in {"twin", "same"}
Md5Run(l) == /\ pc = l
             /\ \/ FitsBySize /\ answer' = md5bin /\ End("ok")
                \/ ~FitsBySize /\ l = "Md5" /\ GotoWith("Md5Wipe", Locals) /\ UNCHANGED answer
                \/ (FitsBySize \/ l = "Md5Again") /\ End("raised") /\ UNCHANGED answer
             /\ UNCHANGED md5bin /\ KeepMd5

\* rm -rf as root, mkdir and push, each of which may raise with its work half done.
Md5Wipe == /\ pc = "Md5Wipe"
           /\ \/ md5bin' = "none" /\ Goto("Md5Push")
              \/ md5bin' \in {md5bin, "none"} /\ End("raised")
           /\ UNCHANGED answer /\ KeepMd5
Md5Push == /\ pc = "Md5Push"
           /\ \/ md5bin' = "same" /\ Goto("Md5Again")
              \/ md5bin' \in {"none", "torn", "same"} /\ End("raised")
           /\ UNCHANGED answer /\ KeepMd5

Md5Step == Md5Run("Md5") \/ Md5Wipe \/ Md5Push \/ Md5Run("Md5Again")
------------------------------------------------------------------------------
(* PersistentShell.  Kinds of lines: of text, or a number; "extra", a prompt   *)
(* or the command itself; "marker", one that starts with DONE: itself; "open", *)
(* one without an end, which the last line goes to; and that, the "status".    *)

Outputs == {<<>>, <<"text">>, <<"extra", "text">>, <<"text", "number">>, <<"marker">>, <<"open">>}
Odd     == {"number", "marker", "open"}

KeepShell == UNCHANGED <<path, su, temps, procs, edits, seen, killed, answer, md5bin>>

\* __enter__: Start and WaitForReady, which takes the end of the output of a process
\* that has died for the empty line it waits for.
Enter == /\ pc = "Enter"
         /\ IF process THEN End("raised") /\ UNCHANGED <<process, alive, pipe, odd, heard>>
            ELSE /\ process' = TRUE /\ alive' \in BOOLEAN /\ pipe' = <<>> /\ heard' = <<>>
                 /\ odd' = FALSE
                 /\ End("ok") \/ (~alive' /\ End("raised"))
         /\ UNCHANGED <<sent, printed>> /\ KeepShell

\* The lines of the n-th command, with the status at the end.
Lines(n, output) ==
  LET status == IF output # <<>> /\ output[Len(output)] = "open" THEN <<>> ELSE <<<<n, "status">>>>
  IN [i \in DOMAIN output |-> <<n, output[i]>>] \o status

\* RunCommand: nothing can be sent without a process, and to one that has died only
\* what fits into the pipe.
Send == /\ pc = "RunCommand"
        /\ sent' = sent + 1 /\ heard' = <<>>
        /\ \/ /\ process /\ alive
              /\ \E output \in Outputs :
                   /\ printed' = output /\ pipe' = pipe \o Lines(sent', output)
                   /\ odd' = (odd \/ \E i \in DOMAIN output : output[i] \in Odd)
              /\ Goto(IF arg.close THEN "Communicate" ELSE "ReadLine")
           \/ /\ process /\ ~alive /\ UNCHANGED <<pipe, odd>> /\ printed' = <<>>
              /\ Goto(IF arg.close THEN "Communicate" ELSE "ReadLine") \/ End("raised")
           \/ ~process /\ UNCHANGED <<pipe, odd>> /\ printed' = <<>> /\ End("raised")
        /\ UNCHANGED <<process, alive>> /\ KeepShell

Own(lines) == SelectSeq(lines, LAMBDA l : l[2] # "extra")

\* Line by line until one starts with DONE:.  Where none comes it reads for ever, also
\* empty lines from a process that has died.
ReadLine == /\ pc = "ReadLine" /\ pipe # <<>>
            /\ heard' = Own(Append(heard, Head(pipe))) /\ pipe' = Tail(pipe)
            /\ IF Head(pipe)[2] \in {"status", "marker"} THEN End("ok") ELSE Goto("ReadLine")
            /\ UNCHANGED <<process, alive, sent, printed, odd>> /\ KeepShell

\* communicate: all there is to the end of the process; the last line must be a number.
Communicate ==
  /\ pc = "Communicate"
  /\ process' = FALSE /\ alive' = FALSE /\ pipe' = <<>>
  /\ heard' = Own(pipe)
  /\ IF heard' # <<>> /\ heard'[Len(heard')][2] \in {"status", "number"} THEN End("ok") ELSE End("raised")
  /\ UNCHANGED <<sent, printed, odd>> /\ KeepShell

\* Stop, of __exit__: the shell is asked to exit and forgotten.
Exit == /\ pc = "Exit"
        /\ process' = FALSE /\ alive' = FALSE /\ pipe' = <<>>
        /\ End("ok") \/ (process /\ ~alive /\ End("raised"))
        /\ UNCHANGED <<sent, printed, odd, heard>> /\ KeepShell

\* The device goes, and what the last command would still have printed with it.
Unplug == /\ process /\ alive /\ alive' = FALSE
          /\ \E n \in 0 .. Len(pipe) : pipe' = SubSeq(pipe, 1, n)
          /\ UNCHANGED <<callVars, process, sent, printed, odd, heard>> /\ KeepShell

PipeStep == Enter \/ Send \/ ReadLine \/ Communicate \/ Exit \/ Unplug
PipeArgs == /\ sent < MaxSends
            /\ \/ \E o \in {"Enter", "Exit"} : Call(o, <<>>)
               \/ \E c \in BOOLEAN : Call("RunCommand", [close |-> c])
------------------------------------------------------------------------------
(* The rest of the world                                                      *)

\* delete_temporary_file, once; a failure is logged and left at that.
DeleteTemporaryFile ==
  /\ \E t \in deleting :
       /\ deleting' = deleting \ {t}
       /\ \/ temp' = [temp EXCEPT ![t] = NoTemp] /\ UNCHANGED orphan
          \/ temp[t] # NoTemp /\ orphan' = orphan \cup {t} /\ UNCHANGED temp
  /\ UNCHANGED <<callVars, path, su, procs, edits, seen, killed, answer>>

\* An app replaces the file while it is being read.
Edit ==
  /\ edits < MaxEdits /\ op = "ReadFile"
  /\ path' \in Text \ {path} /\ seen' = seen \cup {path'}
  /\ edits' = edits + 1
  /\ UNCHANGED <<callVars, su, temps, procs, killed, answer>>

Args ==    \/ \E c \in Text, l, k \in BOOLEAN :
                Call("RunShellCommand", [cmd |-> c, large |-> l, check |-> k])
           \/ \E p \in BOOLEAN : Call("ReadFile", [cmd |-> "small", pull |-> p, check |-> TRUE])
           \/ \E t \in Text : Call("WriteFile", [text |-> t])
           \/ \E q \in BOOLEAN : Call("KillAll", [quiet |-> q])
           \/ \E o \in {"TakeScreenshot", "RestartAdbd", "Md5"} : Call(o, <<>>)
           \/ PipeArgs

UtilsStep == \/ RunShellCommand \/ LargeCommand \/ Run \/ ReadBack
             \/ ReadFile \/ CopyToReadable \/ PullFile \/ WriteFile \/ PushTemp \/ Put
             \/ TakeScreenshot \/ RestartAdbd \/ Source
             \/ ListProcesses \/ Kill \/ AllPidsKilled \/ DeleteTemporaryFile \/ Edit
ShellNext == \/ Args /\ UNCHANGED shellVars
             \/ UtilsStep /\ UNCHANGED others
             \/ Md5Step \/ PipeStep
------------------------------------------------------------------------------
(* Properties                                                                 *)

\* A ReadFile that returns gives a content the file had while it ran, whole: not
\* when the file grew past adb's limit between the ls that gives its size and
\* the cat, nor when an attempt before this one was left half way.
ReadsAreWhole ==
  Idle /\ Ended("ReadFile") => answer \in seen

\* Every temporary file goes, however the call that made it ended.
TempsGo ==
  Idle => \A t \in Temps : temp[t] # NoTemp => t \in deleting \cup orphan

\* The sums a device answers are of a binary that is whole, and of the size of the
\* host's.
SumsAreOfAWholeBinary == Idle /\ Ended("Md5") => answer \in {"same", "twin"}

\* What a persistent shell answers for a command is all of that command's output and
\* its own status, whatever ran before, as far as no command printed a line that may be
\* taken for the last one; but lines that have the command in them are left out.
AnswersAreOwn ==
  Idle /\ Ended("RunCommand") /\ ~odd => heard = Own(Lines(sent, printed))

\* "CommandFailedError if no process was killed and |quiet| is False."
\* (device_utils.py 1300)
NoneWasKilled ==
  (Idle /\ last.op = "KillAll" /\ Failed /\ answer = "no processes") => ~killed
==============================================================================
