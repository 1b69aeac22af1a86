------------------------------ MODULE HostTools ------------------------------
(* The tools that keep processes, threads or caches of their own on the host,  *)
(* one in each behaviour: the port forwarder with the allocation of test       *)
(* ports, a tracing session, the log monitor, the bundling of HTML modules,    *)
(* the maps of USB ports.  A tool that is not in use stays as it is before its *)
(* first step.                                                                 *)
EXTENDS Integers, Sequences

CONSTANTS
  Tools,                                                \* the tools that are checked
  Proc, PortFirst, PortLast, MaxResets,                 \* Forwarder: ports
  Dev, DevPort, Group, Owner, MaxJobs, NoGroup,         \* Forwarder
  Recorder, MaxLines, MaxStarts, Sought,                 \* LogcatMonitor
  Name, Base, Component, Root, Trees, Twins, Missing,   \* Vulcanize
  Asks, Outs, MaxDepth, MaxVulcan,
  Serial, Hubs, Places, LastNum, NoSerial, MaxChanges   \* Usb

ASSUME PortsAssumption == PortFirst \in Nat /\ PortLast \in Nat /\ 0 < PortFirst
ASSUME ForwarderAssumption == Owner \in [Dev -> Proc]
ASSUME VulcanAssumption == /\ Base \in Name /\ Component \subseteq Name
                           /\ MaxDepth \in Nat /\ MaxVulcan \in Nat

VARIABLES
  tool,
  portFile, flock, at, port, given, bound, resets, died,
  job, made, ready, deviceToHost, hostToDevice, pidFile, forwards, daemons, installed,
  promised, intact, jobs, ended,
  setup, pc, todo, children, left, late, collect, marks, issued, logOn, results, givenUp,
  traceFile, outcome,
  clear, count, rec, pos, line, thread, stopping, recordFile, output, main, search, gaveUp, starts,
  html, js, there, sources, frozen, loader, bundle, asked, pure, vulcans,
  plugged, lastNum, wrapped, changes, usbAsked, odd, step, usbTodo, infos, tree, seen, hubs,
  ttyOf, ports, hits

forwarder == <<portFile, flock, at, port, given, bound, resets, died,
               job, made, ready, deviceToHost, hostToDevice, pidFile, forwards, daemons,
               installed, promised, intact, jobs, ended>>
session   == <<setup, pc, todo, children, left, late, collect, marks, issued, logOn, results,
               givenUp, traceFile, outcome>>
logcat    == <<clear, count, rec, pos, line, thread, stopping, recordFile, output, main, search,
               gaveUp, starts>>
vulcan    == <<html, js, there, sources, frozen, loader, bundle, asked, pure, vulcans>>
usb       == <<plugged, lastNum, wrapped, changes, usbAsked, odd, step, usbTodo, infos, tree,
               seen, hubs, ttyOf, ports, hits>>
vars      == <<tool, forwarder, session, logcat, vulcan, usb>>

Forwarder == INSTANCE Forwarder WITH file <- portFile
Session   == INSTANCE Systrace WITH given <- givenUp, output <- traceFile
Logcat    == INSTANCE LogcatMonitor WITH file <- recordFile
Vulcan    == INSTANCE Vulcanize
Usb       == INSTANCE Usb WITH asked <- usbAsked, todo <- usbTodo

Init ==
  /\ tool \in Tools
  /\ Forwarder!Init
  /\ tool # "forwarder" => /\ portFile = PortFirst /\ bound = {} /\ pidFile = NoGroup
                           /\ daemons = {} /\ forwards = {}
  /\ Session!Init
  /\ tool # "systrace" => setup = [program |-> "systrace", agents |-> <<"file">>,
                                   timeout |-> FALSE, json |-> FALSE]
  /\ Logcat!LogInit /\ (tool # "logcat" => clear)
  /\ IF tool = "vulcanize" THEN Vulcan!VulcanInit
     ELSE html = <<>> /\ js = {} /\ there = {} /\ Vulcan!NoCallYet
  /\ IF tool = "usb" THEN Usb!UsbInit
     ELSE plugged = <<>> /\ lastNum = 0 /\ Usb!NothingAsked

Next ==
  \/ tool = "forwarder" /\ Forwarder!Next /\ UNCHANGED <<tool, session, logcat, vulcan, usb>>
  \/ tool = "systrace" /\ Session!Next /\ UNCHANGED <<tool, forwarder, logcat, vulcan, usb>>
  \/ tool = "logcat" /\ Logcat!LogNext /\ UNCHANGED <<tool, forwarder, session, vulcan, usb>>
  \/ tool = "vulcanize" /\ Vulcan!VulcanNext
     /\ UNCHANGED <<tool, forwarder, session, logcat, usb>>
  \/ tool = "usb" /\ Usb!UsbNext
     /\ UNCHANGED <<tool, forwarder, session, logcat, vulcan>>

Spec == Init /\ [][Next]_vars
------------------------------------------------------------------------------
(* Properties                                                                 *)

\* A forward that Map has answered for works and can be unmapped by its process
\* until that process undoes it, fails or dies, or the host daemon is killed for a
\* new group; as long as no call about a device has failed, nothing else is forwarded
\* to it; and a device counts as initialized only while its daemon runs.  No port is
\* with two processes at a time, whether its server listens already or not, as long
\* as nobody resets the allocation.
ForwardsAreKnown ==
  /\ Forwarder!ForwardsStay /\ Forwarder!NothingLeaks /\ Forwarder!ReadyHasDaemon
  /\ Forwarder!PortsAreExclusive

\* A session that ends well leaves no agent tracing and nothing changed by one but the
\* options and the size of the buffer of ftrace, and its output has the data of all;
\* both but for the agents that a timeout gave up or whose collection failed.
SessionIsComplete == Session!NothingLeftTracing /\ Session!OutputHasEveryAgent

\* A clock sync marker is issued while both sides of it are being recorded: the trace
\* of the agent, unless a thread that was given up stops it, and the controller's log.
MarkersWhileTracing ==
  [][\A a \in marks' \ marks :
       logOn /\ (a \in {"atrace", "dump"} => <<a, "on">> \in left)]_vars

\* As long as every recorder could be waited for, there is one at most, none after a
\* Stop that returned, and the record file has the lines in order, each once unless the
\* monitor does not clear the log and reads it again; one that was let go has been told
\* to end until a Start takes that back, and no line is in the file more often than
\* recorders have read it.  What WaitFor and FindAll answer comes first of what they
\* were to look for.
OneRecorder == Logcat!OneRecorder /\ Logcat!FirstIsFound

\* A bundle of modules written by a loader no load of which has raised has every
\* module it needs once, after its imports; and only a loop, or a chain as long as
\* what counts as one, keeps it from being written if all its files are there.
BundleIsWhole == tool = "vulcanize" => Vulcan!BundleIsWhole

\* The phone that a map of USB ports shows on a port was there, and all are shown if
\* nothing changed meanwhile; and a reset by serial hits the phone that is meant.
UsbIsTrue == Usb!PortsAreTrue /\ Usb!ResetsOwn
==============================================================================
