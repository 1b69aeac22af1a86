------------------------------ MODULE Forwarder ------------------------------
(* The port forwarder (forwarder.py): processes of one or more sharded runs    *)
(* that share, under one file lock, a host_forwarder daemon and, per device, a *)
(* device_forwarder, each process with tables of its own of what it has        *)
(* forwarded.  One method runs at a time; a process may die in it.             *)
EXTENDS Integers, FiniteSets, Functions
-------------------------------------------------------------------------------
(* The allocation of test server ports (ports.py): a counter in a file, which  *)
(* the processes of a sharded test run advance under a file lock and any of    *)
(* them may reset without it.                                                  *)

CONSTANTS
  Proc,                   \* the processes
  PortFirst, PortLast,    \* _TEST_SERVER_PORT_FIRST and _LAST
  MaxResets               \* bound: calls of ResetTestServerPortAllocation

VARIABLES
  file,      \* the number in the port file, NoFile or Empty
  flock,     \* who holds the lock file, "free" if nobody
  at,        \* the step each process is at
  port,      \* the local variable of AllocateTestServerPort
  given,     \* ports returned and not given up, with the process that has each
  bound,     \* ports with a server on them
  resets, died   \* resets begun, and whether a process died in one

portVars == <<file, flock, at, port, given, bound, resets, died>>

Number  == PortFirst .. PortLast + 1
NoFile == -2
Empty   == -1

PortsTypeOK ==
  /\ file \in Number \cup {NoFile, Empty}
  /\ flock \in Proc \cup {"free"}
  /\ at \in [Proc -> {"idle", "lock", "exists", "truncated", "read", "probe", "return",
                      "resetting"}]
  /\ port \in [Proc -> Number \cup {0}]
  /\ given \subseteq Proc \X (PortFirst .. PortLast) /\ bound \subseteq PortFirst .. PortLast

PortsInit ==
  /\ file \in {NoFile, PortFirst} /\ flock = "free"
  /\ at = [p \in Proc |-> "idle"] /\ port = [p \in Proc |-> 0]
  /\ given = {} /\ bound \in SUBSET {PortFirst} /\ resets = 0 /\ died = FALSE

Go(p, step) == at' = [at EXCEPT ![p] = step]

Allocate(p) == /\ at[p] = "idle" /\ Go(p, "lock")
               /\ port' = [port EXCEPT ![p] = 0]
               /\ UNCHANGED <<file, flock, given, bound, resets, died>>

Lock(p) == /\ at[p] = "lock" /\ flock = "free"
           /\ flock' = p /\ Go(p, "exists")
           /\ UNCHANGED <<file, port, given, bound, resets, died>>

\* A missing file is reset first: opened for writing, which empties it, then written.
Exists(p) == /\ at[p] = "exists"
             /\ IF file = NoFile THEN file' = Empty /\ Go(p, "truncated")
                                 ELSE UNCHANGED file /\ Go(p, "read")
             /\ UNCHANGED <<flock, port, given, bound, resets, died>>
WriteFirst(p) == /\ at[p] \in {"truncated", "resetting"}
                 /\ file' = PortFirst
                 /\ Go(p, IF at[p] = "truncated" THEN "read" ELSE "idle")
                 /\ UNCHANGED <<flock, port, given, bound, resets, died>>

\* int('') raises, and the function returns the 0 that port still is.
Read(p) == /\ at[p] = "read"
           /\ IF file = Empty
              THEN Go(p, "return") /\ UNCHANGED port
              ELSE Go(p, "probe") /\ port' = [port EXCEPT ![p] = file]
           /\ UNCHANGED <<file, flock, given, bound, resets, died>>

IsHostPortAvailable(n) == n \notin bound

\* The next port that is free; beyond the last one the answer is 0.
Probe(p) ==
  /\ at[p] = "probe"
  /\ IF ~IsHostPortAvailable(port[p]) THEN port' = [port EXCEPT ![p] = @ + 1] /\ UNCHANGED <<at, file>>
     ELSE /\ Go(p, "return")
          /\ IF port[p] > PortLast THEN port' = [port EXCEPT ![p] = 0] /\ UNCHANGED file
                                   ELSE file' = port[p] + 1 /\ UNCHANGED port
  /\ UNCHANGED <<flock, given, bound, resets, died>>

Unlock(p) == /\ at[p] = "return" /\ Go(p, "idle")
             /\ flock' = IF flock = p THEN "free" ELSE flock
             /\ given' = IF port[p] = 0 THEN given ELSE given \cup {<<p, port[p]>>}
             /\ port' = [port EXCEPT ![p] = 0]
             /\ UNCHANGED <<file, bound, resets, died>>

\* ResetTestServerPortAllocation, from whoever calls it, takes no lock.
Reset(p) == /\ at[p] = "idle" /\ resets < MaxResets
            /\ file' = Empty /\ Go(p, "resetting") /\ resets' = resets + 1
            /\ UNCHANGED <<flock, port, given, bound, died>>

\* A process dies between emptying the file and writing it; its lock goes with it.
DieEmptying(p) == /\ at[p] \in {"truncated", "resetting"} /\ Go(p, "idle") /\ died' = TRUE
                  /\ flock' = IF flock = p THEN "free" ELSE flock
                  /\ UNCHANGED <<file, port, given, bound, resets>>

\* The servers: whoever was given a port starts and stops one on it.
Serve(p)   == \E n \in PortFirst .. PortLast :
                /\ <<p, n>> \in given /\ n \notin bound /\ bound' = bound \cup {n}
                /\ UNCHANGED <<file, flock, at, port, given, resets, died>>
StopServer(p) == \E n \in bound :
                /\ <<p, n>> \in given /\ bound' = bound \ {n} /\ given' = given \ {<<p, n>>}
                /\ UNCHANGED <<file, flock, at, port, resets, died>>

PortStep(p) == \/ Allocate(p) \/ Lock(p) \/ Exists(p) \/ WriteFirst(p) \/ Read(p) \/ Probe(p)
               \/ Unlock(p) \/ Reset(p) \/ DieEmptying(p) \/ Serve(p) \/ StopServer(p)
-------------------------------------------------------------------------------
\* No port is with two processes at a time, whether its server listens already or
\* not, as long as nobody resets the allocation.
PortsAreExclusive ==
  resets = 0 => \A a, b \in given : a[2] = b[2] => a[1] = b[1]

\* "Returning 0 means no more valid port can be used." (ports.py 50)
ZeroMeansNoneLeft ==
  \A p \in Proc : at[p] = "return" /\ port[p] = 0 => file \notin {NoFile, Empty}
-------------------------------------------------------------------------------
(* The forwarder.                                                              *)
CONSTANTS
  Dev, DevPort,      \* devices and their ports
  Group, Owner,      \* the process group of a process, the process that uses a device
  MaxJobs,           \* bound: methods called and resets together
  NoGroup

VARIABLES
  job,        \* the method under way: who, which, for what, and its next step
  made,       \* processes that have built their _instance
  ready,      \* _initialized_devices of each process
  deviceToHost, hostToDevice,   \* _device_to_host_port_map and _host_to_device_port_map
  pidFile,    \* the group in the lock file
  forwards,   \* what host_forwarder forwards: <<device, port, host port>>
  daemons,    \* devices with a running device_forwarder
  installed,  \* devices that have its binary
  promised,   \* forwards a Map has answered for and nothing has undone since
  intact,     \* devices with no failed call since their daemon was started
  jobs,       \* methods called
  ended       \* the last method and how it ended

tables == <<made, ready, deviceToHost, hostToDevice>>
world  == <<pidFile, forwards, daemons, installed>>
ghosts == <<promised, intact>>
vars   == <<portVars, job, tables, world, ghosts, jobs, ended>>

NoJob  == [op |-> "none"]
NoEnd  == [op |-> "none", how |-> "ok"]
HostPort == PortFirst .. PortLast

Init ==
  /\ PortsInit
  /\ job = NoJob /\ jobs = 0 /\ ended = NoEnd
  /\ made = {} /\ ready = [p \in Proc |-> {}]
  /\ deviceToHost = [p \in Proc |-> << >>] /\ hostToDevice = [p \in Proc |-> << >>]
  /\ pidFile \in {NoGroup} \cup Range(Group)
  /\ daemons \in SUBSET Dev /\ installed = daemons    \* left by an earlier run
  /\ forwards \in {{}, {<<d, 1, PortFirst>> : d \in daemons}}
  /\ promised = {} /\ intact = {}

ForwardsOf(d) == {f \in forwards : f[1] = d}
TakenPorts(d) == {f[2] : f \in ForwardsOf(d)}
Lost(d)       == forwards' = forwards \ ForwardsOf(d)

Me   == job.proc
D    == job.dev
At(step) == job # NoJob /\ job.pc = step
To(step) == job' = [job EXCEPT !.pc = step] /\ UNCHANGED <<jobs, ended, ghosts>>

\* What a method that ends has promised, and what it has undone.
Undone == CASE job.op = "KillHost" -> promised
            [] job.op = "UnmapDevicePort" -> {f \in promised : f[1] = D /\ f[2] = job.devPort}
            [] OTHER -> {f \in promised : f[1] = D}
End(how) ==
  /\ job' = NoJob /\ ended' = [op |-> job.op, how |-> how]
  /\ promised' = IF job.op = "Map" /\ how = "ok" THEN promised \cup (forwards' \ forwards)
                                                 ELSE promised \ Undone
  /\ intact' = CASE job.op = "KillHost" -> {} [] how = "ok" -> intact [] OTHER -> intact \ {D}
  /\ UNCHANGED jobs
-------------------------------------------------------------------------------
(* Every method takes the file lock, which the job stands for.                 *)

Start(o, d, q, h) ==
  job' = [op |-> o, dev |-> d, proc |-> Owner[d], devPort |-> q, hostPort |-> h,
          pc |-> "_GetInstanceLocked"]

\* The servers have their ports before the first of them is forwarded.
Begin ==
  /\ job = NoJob /\ jobs + resets < MaxJobs /\ \A p \in Proc : at[p] = "idle"
  /\ \E d \in Dev :
       \/ \E q \in DevPort, s \in given : s[1] = Owner[d] /\ Start("Map", d, q, s[2])
       \/ \E q \in DevPort \ {0} : Start("UnmapDevicePort", d, q, 0)
       \/ \E o \in {"UnmapAllDevicePorts", "KillDevice", "KillHost"} : Start(o, d, 0, 0)
  /\ jobs' = jobs + 1 /\ ended' = NoEnd
  /\ UNCHANGED <<portVars, tables, world, ghosts>>

\* The step after the instance is there.
Entry == CASE job.op = "Map" -> "_InitDeviceLocked" [] OTHER -> job.op

\* As if the first use of the instance always killed the host daemon (a mutant).
InitHostAfresh ==
  /\ At("_GetInstanceLocked")
  /\ IF Me \in made THEN To(Entry) /\ UNCHANGED made ELSE To("_KillHostLocked") /\ UNCHANGED made
  /\ UNCHANGED <<portVars, ready, deviceToHost, hostToDevice, world>>

\* The instance is built at its first use; the host daemon of another group is killed.
_GetInstanceLocked ==
  /\ At("_GetInstanceLocked")
  /\ IF Me \in made THEN To(Entry) /\ UNCHANGED made
     ELSE IF pidFile = Group[Me] THEN To(Entry) /\ made' = made \cup {Me}
     ELSE To("_KillHostLocked") /\ UNCHANGED made
  /\ UNCHANGED <<portVars, ready, deviceToHost, hostToDevice, world>>

\* --kill-server, then pkill; both may fail, and either may time out.
_KillHostLocked ==
  /\ At("_KillHostLocked")
  /\ IF pidFile = Group[Me] THEN UNCHANGED ghosts ELSE promised' = {} /\ intact' = {}
  /\ UNCHANGED jobs
  /\ \/ forwards' = {} /\ job' = [job EXCEPT !.pc = "_InitHostLocked"] /\ UNCHANGED ended
     \/ /\ forwards' \in {forwards, {}} /\ job' = NoJob
        /\ ended' = [op |-> job.op, how |-> "HostForwarderError"]
  /\ UNCHANGED <<portVars, tables, pidFile, daemons, installed>>
KillHost ==
  /\ At("KillHost")
  /\ \/ forwards' = {} /\ End("ok")
     \/ forwards' \in {forwards, {}} /\ End("HostForwarderError")
  /\ UNCHANGED <<portVars, tables, pidFile, daemons, installed>>

\* The pid file is written after the kill, so that a failed one is tried again.
_InitHostLocked ==
  /\ At("_InitHostLocked")
  /\ pidFile' = Group[Me] /\ made' = made \cup {Me} /\ To(Entry)
  /\ UNCHANGED <<portVars, ready, deviceToHost, hostToDevice, forwards, daemons, installed>>
-------------------------------------------------------------------------------
(* The device                                                                  *)

NoMoreReady == ready' = [ready EXCEPT ![Me] = @ \ {D}]

\* device_forwarder --kill-server, where there is one, with the forwards of the device.
KillServer == D \in installed /\ Lost(D) /\ daemons' = daemons \ {D}

\* _KillDeviceLocked, with the step after it and what an exception leads to.
_KillDeviceLocked(Then, Raised(_)) ==
  /\ NoMoreReady
  /\ \/ D \notin installed /\ Then /\ UNCHANGED <<forwards, daemons>>
     \/ KillServer /\ Then
     \/ /\ KillServer \/ UNCHANGED <<forwards, daemons>>
        /\ \E e \in {"CommandFailedError", "DeviceUnreachableError"} : Raised(e)
  /\ UNCHANGED <<portVars, made, deviceToHost, hostToDevice, pidFile, installed>>

\* Once per process; a daemon that does not die is rebooted away.
_InitDeviceLocked ==
  /\ At("_InitDeviceLocked")
  /\ \/ D \in ready[Me] /\ To("Map") /\ UNCHANGED <<portVars, tables, world>>
     \/ /\ D \notin ready[Me]
        /\ _KillDeviceLocked(To("Push"),
             LAMBDA e : IF e = "CommandFailedError" THEN To("Reboot") ELSE End(e))
RebootDevice ==
  /\ At("Reboot")
  /\ Lost(D) /\ daemons' = daemons \ {D}
  /\ To("Push") \/ End("raised")
  /\ UNCHANGED <<portVars, tables, pidFile, installed>>
Push ==
  /\ At("Push")
  /\ (installed' = installed \cup {D} /\ To("Start")) \/ (UNCHANGED installed /\ End("raised"))
  /\ UNCHANGED <<portVars, tables, pidFile, forwards, daemons>>
StartDaemon ==
  /\ At("Start")
  /\ \/ /\ daemons' = daemons \cup {D} /\ ready' = [ready EXCEPT ![Me] = @ \cup {D}]
        /\ intact' = intact \cup {D} /\ job' = [job EXCEPT !.pc = "Map"]
        /\ UNCHANGED <<promised, jobs, ended>>
     \/ daemons' \in {daemons, daemons \cup {D}} /\ UNCHANGED ready /\ End("raised")
  /\ UNCHANGED <<portVars, made, deviceToHost, hostToDevice, pidFile, forwards, installed>>

\* A call of KillDevice, or the end of UnmapAllDevicePorts.
KillDevice ==
  /\ At("KillDevice")
  /\ _KillDeviceLocked(End("ok"), End)

\* After a map that failed.  An exception of the kill is logged with the name "e",
\* which nothing has bound.
KillAfterFailure ==
  /\ At("KillAfterFailure")
  /\ _KillDeviceLocked(End("HostForwarderError"), LAMBDA e : End("UnboundLocalError"))
-------------------------------------------------------------------------------
(* Map and Unmap; device port 0 asks for any free port                         *)

Set(f, k, v) == [x \in (DOMAIN f) \cup {k} |-> IF x = k THEN v ELSE f[x]]
Without(f, k) == [x \in (DOMAIN f) \ {k} |-> f[x]]

Record(q) ==
  /\ deviceToHost' = [deviceToHost EXCEPT ![Me] = Set(@, <<D, q>>, job.hostPort)]
  /\ hostToDevice' = [hostToDevice EXCEPT ![Me] = Set(@, job.hostPort, <<D, q>>)]

\* host_forwarder --map; without a daemon or with the port taken it exits with an error.
Map ==
  /\ At("Map")
  /\ \E q \in DevPort \ {0} :
       /\ job.devPort \in {0, q}
       /\ LET added == forwards \cup {<<D, q, job.hostPort>>} IN
          \/ /\ D \in daemons /\ q \notin TakenPorts(D)
             /\ forwards' = added /\ Record(q) /\ End("ok")
          \/ /\ UNCHANGED <<forwards, deviceToHost, hostToDevice>>
             /\ To("KillAfterFailure")
          \/ /\ forwards' \in {forwards} \cup {added : x \in {D} \cap daemons}
             /\ UNCHANGED <<deviceToHost, hostToDevice>>
             /\ End("HostForwarderError")
  /\ UNCHANGED <<portVars, made, ready, pidFile, daemons, installed>>

\* The entries go before the command, and a command that fails is only logged.
UnmapDevicePort ==
  /\ At("UnmapDevicePort")
  /\ LET key == <<D, job.devPort>>
         host == deviceToHost[Me][key] IN
     IF key \notin DOMAIN deviceToHost[Me]
     THEN End("ok") /\ UNCHANGED <<deviceToHost, hostToDevice, forwards, intact>>
     ELSE /\ deviceToHost' = [deviceToHost EXCEPT ![Me] = Without(@, key)]
          /\ IF host \notin DOMAIN hostToDevice[Me]
             THEN End("KeyError") /\ UNCHANGED <<hostToDevice, forwards>>
             ELSE /\ hostToDevice' = [hostToDevice EXCEPT ![Me] = Without(@, host)]
                  /\ \/ forwards' = forwards \ {<<D, job.devPort, host>>} /\ End("ok")
                     \/ UNCHANGED forwards /\ End("logged")
                     \/ /\ forwards' \in {forwards, forwards \ {<<D, job.devPort, host>>}}
                        /\ End("HostForwarderError")
  /\ UNCHANGED <<portVars, made, ready, pidFile, daemons, installed>>

\* All of the device's forwards go, then its entries in both tables one after the
\* other, up to one whose host port is in the second no longer.
UnmapAllDevicePorts ==
  /\ At("UnmapAllDevicePorts")
  /\ LET mine     == {k \in DOMAIN deviceToHost[Me] : k[1] = D}
         Hosts(s) == {deviceToHost[Me][k] : k \in s}
         Clean(s) == /\ Hosts(s) \subseteq DOMAIN hostToDevice[Me]
                     /\ Cardinality(Hosts(s)) = Cardinality(s)
         Delete(s, ports) ==
           /\ deviceToHost' = [deviceToHost EXCEPT ![Me] = [k \in (DOMAIN @) \ s |-> @[k]]]
           /\ hostToDevice' = [hostToDevice EXCEPT ![Me] = [h \in (DOMAIN @) \ ports |-> @[h]]]
     IN \/ /\ forwards' \in {forwards, forwards \ ForwardsOf(D)} /\ End("HostForwarderError")
           /\ UNCHANGED <<deviceToHost, hostToDevice>>
        \/ Lost(D) /\ Clean(mine) /\ Delete(mine, Hosts(mine)) /\ To("KillDevice")
        \/ /\ Lost(D) /\ End("KeyError")
           /\ \E before \in SUBSET mine : \E k \in mine \ before :
                /\ Clean(before) /\ ~Clean(before \cup {k})
                /\ Delete(before \cup {k}, Hosts(before))
  /\ UNCHANGED <<portVars, made, ready, pidFile, daemons, installed>>

\* A process dies, in a method or between two; another of its group takes its place.
Die == \E p \in Proc :
  /\ p \in made
  /\ IF job # NoJob /\ Me = p THEN job' = NoJob ELSE UNCHANGED job
  /\ made' = made \ {p} /\ ready' = [ready EXCEPT ![p] = {}]
  /\ deviceToHost' = [deviceToHost EXCEPT ![p] = << >>]
  /\ hostToDevice' = [hostToDevice EXCEPT ![p] = << >>]
  /\ promised' = {f \in promised : Owner[f[1]] # p}
  /\ intact' = {d \in intact : Owner[d] # p}
  /\ UNCHANGED <<portVars, world, jobs, ended>>

Method == \/ _GetInstanceLocked \/ _KillHostLocked \/ _InitHostLocked \/ KillHost
          \/ _InitDeviceLocked \/ RebootDevice \/ Push \/ StartDaemon \/ KillDevice
          \/ KillAfterFailure \/ Map \/ UnmapDevicePort \/ UnmapAllDevicePorts
Ports  == jobs = 0 /\ \E p \in Proc : PortStep(p) /\ UNCHANGED <<job, tables, world, ghosts, jobs, ended>>

Next == Begin \/ Method \/ Die \/ Ports
Spec == Init /\ [][Next]_vars
-------------------------------------------------------------------------------
TypeOK ==
  /\ PortsTypeOK
  /\ made \subseteq Proc /\ ready \in [Proc -> SUBSET Dev]
  /\ \A p \in Proc : /\ DOMAIN deviceToHost[p] \subseteq Dev \X (DevPort \ {0})
                    /\ Range(deviceToHost[p]) \subseteq HostPort
                    /\ DOMAIN hostToDevice[p] \subseteq HostPort
                    /\ Range(hostToDevice[p]) \subseteq Dev \X (DevPort \ {0})
  /\ forwards \subseteq Dev \X DevPort \X HostPort
  /\ daemons \cup installed \cup intact \subseteq Dev

Recorded(f) == /\ <<f[1], f[2]>> \in DOMAIN deviceToHost[Owner[f[1]]]
               /\ deviceToHost[Owner[f[1]]][<<f[1], f[2]>>] = f[3]

\* A forward that Map has answered for works and can be unmapped by its process
\* until that process undoes it, fails or dies, or the host daemon is killed for a
\* new group: no process of the same group, starting or failing, takes it away.
ForwardsStay == job = NoJob => \A f \in promised : f \in forwards /\ Recorded(f)

\* As long as no call about a device has failed, nothing is forwarded to it that its
\* process does not know of, what a dead process left behind included.
NothingLeaks == job = NoJob => \A f \in forwards : f[1] \in intact => Recorded(f)

\* A device counts as initialized only while its daemon runs.
ReadyHasDaemon == \A p \in Proc : ready[p] \subseteq daemons

\* "We don't want the failure to kill the device forwarder to supersede the original
\* failure to map." (forwarder.py 155-156)
MapFailureIsReported == ended.op = "Map" => ended.how # "UnboundLocalError"
===============================================================================
