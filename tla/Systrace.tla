------------------------------- MODULE Systrace -------------------------------
(* A tracing session of systrace or profile_chrome: TracingController starts   *)
(* its agents, issues the clock sync markers, stops the agents, collects their *)
(* results, and an output is written.  Any call of an agent may raise and,     *)
(* with --timeout, be given up while its thread goes on.                       *)
EXTENDS Naturals, Sequences, SequencesExt, FiniteSets
-------------------------------------------------------------------------------
(* The agents: what starting each one changes on the device or the host, in    *)
(* the order it does it (starts), what stopping it puts back (stops), whether  *)
(* it records a clock sync marker of its own (marks), whether it stops and     *)
(* collects in a thread that GetResults joins (collects), whether its start or *)
(* its GetResults may raise: a device command fails, a file is not there, a    *)
(* marker of the browser is missing; and the name of its result, with format.  *)

\* Two process lists, one at either end.
AndroidProcessDataAgent ==
  [starts |-> <<>>, stops |-> <<>>, marks |-> FALSE, collects |-> FALSE, startRaises |-> TRUE,
   resultRaises |-> FALSE, name |-> "androidProcessDump", json |-> FALSE]

\* --async_start; the collection thread stops the trace and reads it.
AtraceAgent ==
  [starts |-> <<"on">>, stops |-> <<>>, marks |-> TRUE, collects |-> TRUE, startRaises |-> TRUE,
   resultRaises |-> FALSE, name |-> "systemTraceEvents", json |-> FALSE]

AtraceFromFileAgent ==
  [starts |-> <<>>, stops |-> <<>>, marks |-> FALSE, collects |-> FALSE, startRaises |-> FALSE,
   resultRaises |-> FALSE, name |-> "trace-data", json |-> FALSE]

\* A helper on the device that writes dumps until it is terminated.
AtraceProcessDumpAgent ==
  [starts |-> <<"on">>, stops |-> <<"on">>, marks |-> TRUE, collects |-> FALSE,
   startRaises |-> TRUE, resultRaises |-> FALSE, name |-> "atraceProcessDump", json |-> FALSE]

\* The size of the buffer; clock, tracer and overwrite; the events of its categories;
\* then the tracing itself.  Of these, only the last two are undone.
FtraceAgent ==
  [starts |-> <<"buffer", "options", "events", "on">>, stops |-> <<"on", "events">>, marks |-> FALSE,
   collects |-> FALSE, startRaises |-> TRUE, resultRaises |-> TRUE, name |-> "trace-data",
   json |-> FALSE]

\* The trace file of the app is emptied, and read by the collection thread.
WaltAgent ==
  [starts |-> <<>>, stops |-> <<>>, marks |-> TRUE, collects |-> TRUE, startRaises |-> TRUE,
   resultRaises |-> TRUE, name |-> "waltTrace", json |-> FALSE]

\* With the memory option a property is set after the browser began to trace.
ChromeTracingAgent ==
  [starts |-> <<"on", "mmap property">>, stops |-> <<"on", "mmap property">>, marks |-> FALSE,
   collects |-> FALSE, startRaises |-> TRUE, resultRaises |-> TRUE, name |-> "traceEvents",
   json |-> TRUE]

\* The browser is started with flags in its command line file, which are restored
\* also when its trace does not come.
ChromeStartupTracingAgent ==
  [starts |-> <<"flags">>, stops |-> <<"flags">>, marks |-> FALSE, collects |-> FALSE,
   startRaises |-> TRUE, resultRaises |-> TRUE, name |-> "traceEvents", json |-> TRUE]

DdmsAgent ==
  [starts |-> <<"on">>, stops |-> <<"on">>, marks |-> FALSE, collects |-> FALSE,
   startRaises |-> TRUE, resultRaises |-> TRUE, name |-> "ddms", json |-> FALSE]

\* As if the performance mode were left alone at the end (a mutant).
PerfWithoutMode ==
  [starts |-> <<"perf mode", "on">>, stops |-> <<"on">>, marks |-> FALSE, collects |-> FALSE,
   startRaises |-> TRUE, resultRaises |-> TRUE, name |-> "perf", json |-> TRUE]

\* The performance mode first, then perf in a process of the host; the conversion of
\* its data to JSON may fail, which is an open() of None.
PerfProfilerAgent ==
  [starts |-> <<"perf mode", "on">>, stops |-> <<"on", "perf mode">>, marks |-> FALSE,
   collects |-> FALSE, startRaises |-> TRUE, resultRaises |-> TRUE, name |-> "perf",
   json |-> TRUE]

Agent == [ps |-> AndroidProcessDataAgent, atrace |-> AtraceAgent, file |-> AtraceFromFileAgent,
          dump |-> AtraceProcessDumpAgent, ftrace |-> FtraceAgent, walt |-> WaltAgent,
          chrome |-> ChromeTracingAgent, startup |-> ChromeStartupTracingAgent,
          ddms |-> DdmsAgent, perf |-> PerfProfilerAgent]
Agents == DOMAIN Agent

SupportsExplicitClockSync == {a \in Agents : Agent[a].marks}
Collects                  == {a \in Agents : Agent[a].collects}

\* Names that _SYSTRACE_TO_TRACE_DATA_NAME_MAPPING has a part for.
SourceName(a) == IF a = "controller" THEN "systraceController" ELSE Agent[a].name
HasTraceDataPart(a) ==
  SourceName(a) \in {"androidProcessDump", "atraceProcessDump", "systemTraceEvents",
                     "systraceController", "traceEvents", "waltTrace"}

\* Bound: agents of profile_chrome together, of the four there are.
MaxProfilers == 3
\* The agents of a command line, in the order of the modules that create them.
Systrace == {<<"ps", "atrace">>, <<"atrace", "dump">>, <<"file">>, <<"ftrace">>,
             <<"file", "ftrace">>}
SystraceSetups == Systrace \cup {Append(s, "walt") : s \in Systrace}
ProfileSetups  == {SelectSeq(<<"chrome", "ddms", "perf", "atrace">>, LAMBDA a : a \in s) :
                     s \in {t \in SUBSET {"chrome", "ddms", "perf", "atrace"} :
                              "chrome" \in t /\ Cardinality(t) <= MaxProfilers}}
\* CaptureProfile with the module of the startup agent has no timeouts.
StartupSetups  == {<<"startup">>, <<"atrace", "startup">>}
-------------------------------------------------------------------------------
(* The session.                                                                *)

VARIABLES
  setup,      \* the command line: program, agents, timeouts, format of the output
  pc, todo,   \* phase of the session, agents it has still to handle
  children,   \* _child_agents
  left,       \* <<agent, effect>> of what is on or changed by an agent
  late,       \* <<"start" or "stop", agent>> of abandoned threads
  collect,    \* collection thread of each agent
  marks,      \* agents with a clock sync marker in their trace
  issued,     \* agents with a clock sync marker in the controller's log
  logOn,      \* trace_event is enabled for the controller agent
  results,    \* all_results, in order: agent and whether there is data
  given,      \* agents that were given up in any phase, or whose pull failed
  output, outcome

vars == <<setup, pc, todo, children, left, late, collect, marks, issued, logOn, results,
          given, output, outcome>>

NoOutput == [file |-> "absent", of |-> {}]

Init ==
  /\ setup \in [program : {"systrace"}, agents : SystraceSetups, timeout : BOOLEAN, json : BOOLEAN]
          \cup [program : {"profile_chrome"}, agents : ProfileSetups, timeout : BOOLEAN,
                json : BOOLEAN]
          \cup [program : {"profile_chrome"}, agents : StartupSetups, timeout : {FALSE},
                json : BOOLEAN]
  /\ pc = "controller" /\ todo = setup.agents /\ children = << >>
  /\ left = {} /\ late = {} /\ collect = [a \in Agents |-> "none"]
  /\ marks = {} /\ issued = {} /\ logOn = FALSE /\ results = << >> /\ given = {}
  /\ output = NoOutput /\ outcome = "running"

Effects(a, s)  == {<<a, s[i]>> : i \in DOMAIN s}
A              == Head(todo)
At(phase)      == pc = phase /\ todo # << >>
Done(phase)    == pc = phase /\ todo = << >>
Next1          == todo' = Tail(todo) /\ UNCHANGED <<pc, outcome>>
To(phase, s)   == pc' = phase /\ todo' = s /\ UNCHANGED outcome
Finish(how)    == pc' = "ended" /\ todo' = << >> /\ outcome' = how
GivenUp(op)    == setup.timeout /\ late' = late \cup {<<op, A>>} /\ given' = given \cup {A}
-------------------------------------------------------------------------------
(* StartTracing                                                                *)

\* The controller agent first; if it is given up no agent is started, which the
\* programs do not look at until _child_agents, None, is used.
StartController ==
  /\ pc = "controller"
  /\ \/ logOn' = TRUE /\ To("start", setup.agents)
     \/ setup.timeout /\ logOn' \in BOOLEAN /\ Finish("raised")
  /\ UNCHANGED <<setup, children, left, late, collect, marks, issued, results, given, output>>

\* As if the value of StartAgentTracing were not looked at (a mutant).
StartedAnyway == Append(children, A)
NotStarted == children

\* An exception ends the program with the agents before it tracing.
StartAgent ==
  /\ At("start")
  /\ \E did \in Prefixes(Agent[A].starts) :
       /\ left' = left \cup Effects(A, did)
       /\ \/ did = Agent[A].starts /\ children' = Append(children, A) /\ Next1
             /\ UNCHANGED <<late, given>>
          \/ GivenUp("start") /\ Next1 /\ children' = NotStarted
          \/ Agent[A].startRaises /\ Finish("raised") /\ UNCHANGED <<children, late, given>>
  /\ UNCHANGED <<setup, collect, marks, issued, logOn, results, output>>

\* The user stops the tracing, or the program.
Traced ==
  /\ Done("start")
  /\ To("sync", children) \/ Finish("raised")
  /\ UNCHANGED <<setup, children, left, late, collect, marks, issued, logOn, results, given, output>>

\* An abandoned thread goes on as long as the program runs.
Late ==
  /\ pc # "ended"
  /\ \E <<op, a>> \in late :
       LET s == IF op = "start" THEN Agent[a].starts ELSE Agent[a].stops
           more == {i \in DOMAIN s : (<<a, s[i]>> \in left) = (op = "stop")}
       IN \/ /\ more # {}
             /\ LET i == CHOOSE i \in more : \A j \in more : i <= j IN
                left' = IF op = "start" THEN left \cup {<<a, s[i]>>} ELSE left \ {<<a, s[i]>>}
             /\ UNCHANGED late
          \/ late' = late \ {<<op, a>>} /\ UNCHANGED left
  /\ UNCHANGED <<setup, pc, todo, children, collect, marks, issued, logOn, results, given,
                 output, outcome>>
-------------------------------------------------------------------------------
(* StopTracing                                                                 *)

\* The agent records its marker, then calls back for the controller's.
_IssueClockSyncMarker ==
  /\ At("sync")
  /\ IF A \in SupportsExplicitClockSync
     THEN \/ marks' = marks \cup {A} /\ issued' = issued \cup {A} /\ Next1
          \/ marks' \in {marks, marks \cup {A}} /\ UNCHANGED issued /\ Finish("raised")
     ELSE Next1 /\ UNCHANGED <<marks, issued>>
  /\ UNCHANGED <<setup, children, left, late, collect, logOn, results, given, output>>

ToStop == /\ Done("sync") /\ To("stop", children) /\ children' = << >>
          /\ UNCHANGED <<setup, left, late, collect, marks, issued, logOn, results, given, output>>

Stopped(a) == Append(children, a)

\* The agents that stopped are asked for results, a dump that was not pulled is not.
StopAgent ==
  /\ At("stop")
  /\ \/ /\ A \in Collects /\ collect' = [collect EXCEPT ![A] = "running"]
        /\ children' = Stopped(A) /\ Next1 /\ UNCHANGED <<left, late, given>>
     \/ /\ A \notin Collects /\ UNCHANGED collect
        /\ \E did \in Prefixes(Agent[A].stops) :
             /\ left' = left \ Effects(A, did)
             /\ \/ /\ did = Agent[A].stops /\ children' = Stopped(A) /\ Next1
                   /\ UNCHANGED <<late, given>>
                \/ /\ did = Agent[A].stops /\ A = "dump" /\ Next1
                   /\ given' = given \cup {A} /\ UNCHANGED <<children, late>>
                \/ GivenUp("stop") /\ Next1 /\ UNCHANGED children
                \/ Finish("raised") /\ UNCHANGED <<children, late, given>>
  /\ UNCHANGED <<setup, marks, issued, logOn, results, output>>

\* The collection threads.  What atrace collects may be nothing, and an exception of
\* the thread is lost with it; before Android M the trace is dumped before it ends.
Collect ==
  /\ \E a \in Collects :
       /\ collect[a] = "running"
       /\ \/ collect' = [collect EXCEPT ![a] = "done"] /\ left' = left \ {<<a, "on">>}
          \/ collect' = [collect EXCEPT ![a] = "failed"] /\ left' \in {left, left \ {<<a, "on">>}}
  /\ UNCHANGED <<setup, pc, todo, children, late, marks, issued, logOn, results, given, output,
                 outcome>>

StopController ==
  /\ Done("stop")
  /\ \/ logOn' = FALSE /\ To("results", Append(children, "controller"))
     \/ setup.timeout /\ logOn' \in BOOLEAN /\ Finish("raised")
  /\ UNCHANGED <<setup, children, left, late, collect, marks, issued, results, given, output>>

\* The buffer of ftrace is not made as it was when its trace has been read, but small.
GetTrace(a) == IF a = "ftrace"
               THEN (left \ {<<a, "buffer">>}) \cup {<<a, "small buffer">>} ELSE left

\* An exception of one agent costs the results of all.
GetResults ==
  /\ At("results")
  /\ \/ /\ A \in Collects => collect[A] \in {"done", "failed"}
        /\ \/ /\ ~(A = "walt" /\ collect[A] = "failed")
              /\ results' = Append(results, [agent |-> A, data |-> A = "atrace" => collect[A] = "done"])
              /\ left' = GetTrace(A) /\ Next1
           \/ /\ A \in {a \in Agents : Agent[a].resultRaises} \cup {"controller"}
              /\ Finish("raised") /\ UNCHANGED <<left, results>>
        /\ UNCHANGED given
     \/ /\ setup.timeout /\ given' = given \cup {A} /\ Next1
        /\ left' \in {left, GetTrace(A)} /\ UNCHANGED results
  /\ UNCHANGED <<setup, children, late, collect, marks, issued, logOn, output>>
-------------------------------------------------------------------------------
(* output_generator.py, profiler.py                                            *)

Written(how, of, end) == output' = [file |-> how, of |-> of] /\ Finish(end)
Of(rs)   == {rs[i].agent : i \in DOMAIN rs}
NoData(rs) == \E i \in DOMAIN rs : ~rs[i].data

\* Up to three results are pasted into one page, one by one after its prefix; more of
\* them go through files to trace2html, which may fail.
GenerateHTMLOutput(rs) ==
  IF Len(rs) <= 3
  THEN IF NoData(rs) THEN Written("partial", {}, "raised") ELSE Written("whole", Of(rs), "ok")
  ELSE \/ /\ ~NoData(rs) /\ \A a \in Of(rs) : HasTraceDataPart(a)
          /\ Written("whole", Of(rs), "ok")
       \/ Written("absent", {}, "raised")

\* A dictionary: of two results with one name, the later one stays; one without data
\* is written as null.
GenerateJSONOutput(rs) ==
  Written("whole", {rs[i].agent : i \in {k \in DOMAIN rs : rs[k].data /\
     \A j \in DOMAIN rs : SourceName(rs[j].agent) = SourceName(rs[k].agent) => j <= k}}, "ok")

OutputSystraceResults ==
  /\ setup.program = "systrace"
  /\ IF setup.json THEN GenerateJSONOutput(results) ELSE GenerateHTMLOutput(results)

\* The JSON results become one; a key of two of them keeps the value of the first, and
\* result without data raises.
_GetResults ==
  /\ setup.program = "profile_chrome"
  /\ LET rs == SelectSeq(results, LAMBDA r : r.agent # "controller")
         json == SelectSeq(rs, LAMBDA r : Agent[r.agent].json)
         merged == IF Len(json) <= 1 THEN rs
                   ELSE <<json[1]>> \o SelectSeq(rs, LAMBDA r : ~Agent[r.agent].json)
     IN CASE rs = << >> -> Written("absent", {}, "ok")
          [] rs # << >> /\ Len(rs) > 1 /\ NoData(rs) -> Written("absent", {}, "raised")
          [] rs # << >> /\ ~(Len(rs) > 1 /\ NoData(rs)) ->
               IF ~setup.json THEN GenerateHTMLOutput(merged)
               ELSE IF NoData(rs) THEN Written("partial", {}, "raised")
               ELSE Written("whole", Of(merged), "ok")

Output ==
  /\ Done("results")
  /\ OutputSystraceResults \/ _GetResults
  /\ UNCHANGED <<setup, children, left, late, collect, marks, issued, logOn, results, given>>

Next == \/ StartController \/ StartAgent \/ Traced \/ Late \/ _IssueClockSyncMarker \/ ToStop
        \/ StopAgent \/ Collect \/ StopController \/ GetResults \/ Output
Spec == Init /\ [][Next]_vars
-------------------------------------------------------------------------------
\* A session that ends well leaves no agent tracing and no mode, property or event
\* changed, but for agents that a timeout gave up or whose collection failed.  What
\* ftrace sets for a trace is not given back by any session: its options stay, and
\* its buffer is left small.
NothingLeftTracing ==
  outcome = "ok" =>
    /\ ~logOn
    /\ \A x \in left : \/ x[1] \in given \/ collect[x[1]] \in {"running", "failed"}
                       \/ x \in Effects("ftrace", <<"options", "small buffer">>)

\* A clock sync marker is issued while both sides of it are being recorded: the trace
\* of the agent, unless a thread that was given up stops it, and the controller's log.
MarkersWhileTracing ==
  [][\A a \in marks' \ marks :
       logOn /\ (a \in {"atrace", "dump"} => <<a, "on">> \in left)]_vars

\* The output of systrace, when it ends well, has the data of every agent that was not
\* given up and whose collection did not fail, and of no other; of agents that share
\* a name, those of one.
OutputHasEveryAgent ==
  (outcome = "ok" /\ setup.program = "systrace") =>
    /\ output.of \ {"controller"} \subseteq {a \in ToSet(setup.agents) \ given : collect[a] # "failed"}
    /\ \A a \in ToSet(setup.agents) \ given :
         \/ a \in output.of \/ collect[a] = "failed"
         \/ \E b \in output.of \ {a} : SourceName(b) = SourceName(a)

\* "No data was captured.  Output file was not written." (atrace_agent.py 293-294)
NoFileWithoutData == collect["atrace"] = "failed" => output.file # "partial"
===============================================================================
