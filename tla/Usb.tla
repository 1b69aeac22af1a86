--------------------------------- MODULE Usb ---------------------------------
(* The devices on one USB bus as the host tools see them: find_usb_devices     *)
(* maps the physical ports of known hubs to serial numbers and ttys, reset_usb *)
(* resets a phone by its serial.  Each puts together the answers of several    *)
(* commands, and devices come, go and change their numbers between these.      *)
EXTENDS Integers, SequencesExt, FiniteSetsExt

CONSTANTS
  Serial,     \* the phones, by serial number; each has a tty of its own
  Hubs,       \* the sets of places where there may be hubs at first
  Places,     \* where phones may be plugged in
  LastNum,    \* the highest number of a device: 127, after it they begin anew
  NoSerial, MaxChanges   \* bound: devices plugged, unplugged, power-cycled

VARIABLES
  plugged,    \* the ports down from the root hub -> the device there
  lastNum,    \* the last number given
  wrapped,    \* numbers have begun anew
  changes,
  asked,      \* what is asked for
  odd,        \* the device that cannot be opened, or hangs, when asked by lsusb -v
  step,       \* the next command
  todo,       \* device numbers or ttys still to be asked for
  infos,      \* device number -> what lsusb has said of it
  tree,       \* the device tree, with usb-devices' ports, numbers and serials
  seen,       \* what was plugged in when usb-devices ran
  hubs,       \* hubs, with their types, that are to be mapped
  ttyOf,      \* device number -> tty
  ports,      \* the result: [hub, port, what]
  hits        \* what was reset: <<the serial meant, the serial hit>>

usbVars == <<plugged, lastNum, wrapped, changes, asked, odd, step, todo, infos, tree, seen,
             hubs, ttyOf, ports, hits>>
------------------------------------------------------------------------------
(* The hub types: what identifies them, where the second hub inside of them    *)
(* is, and which physical port a chain of virtual ports leads to.              *)

Row(at, s)   == [v \in {<<i>> : i \in at} |-> s[v[1]]]
Inner(p, s)  == [v \in {<<p, i>> : i \in DOMAIN s} |-> s[v[2]]]
KeedoxLayout == Row(1..3, <<1, 2, 3>>) @@ Inner(4, <<4, 5, 6, 7>>)
Usb3Layout   == Inner(1, <<1, 2, 3, 4>>) @@ Row(2..4, <<0, 5, 6, 7>>)

HubType(ids, inner, layout) == [ids |-> ids, inner |-> inner, layout |-> layout]
Plugable     == HubType({"1a40:0101"}, 4, Row(1..3, <<7, 6, 5>>) @@ Inner(4, <<4, 3, 2, 1>>))
PlugablePart2 == HubType({"2109:2811"}, 1, Usb3Layout)
PlugablePart3 == HubType({"2109:8110"}, 1, Usb3Layout)
Keedox       == HubType({"0bda:5411"}, 4, KeedoxLayout)
Via          == HubType({"2109:2812", "2109:0812"}, 4, KeedoxLayout)
ALL_HUBS     == {Plugable, PlugablePart2, PlugablePart3, Keedox, Via}

\* As if the first hub of the two were enough (a mutant).
IsTypeByName(h, t) == tree[h].desc \in t.ids

\* _is_plugable_7port_hub and the others; a node without a description raises.
IsType(h, t) == LET inner == h \o <<t.inner>>
                IN /\ tree[h].desc \in t.ids
                   /\ inner \in DOMAIN tree /\ tree[inner].desc \in t.ids

\* GetPhysicalPortToNodeTuples: the ports where a node is.
PortTuples(h, t) == {[port |-> t.layout[v], node |-> h \o v] :
                       v \in {w \in DOMAIN t.layout : h \o w \in DOMAIN tree}}

GetHubsOnBus(bus) == {<<h, t>> \in bus \X ALL_HUBS : IsType(h, t)}
------------------------------------------------------------------------------
(* The bus                                                                     *)

Nums(pl)     == {pl[p].num : p \in DOMAIN pl}
NextNum(pl, last) == LET free  == (2..LastNum) \ Nums(pl)
                         above == {n \in free : n > last}
                     IN Min(IF above # {} THEN above ELSE free)

\* The nodes of S get numbers, one after the other.
Numbered(b, S) ==
  FoldSet(LAMBDA p, a : LET n == NextNum(a.pl, a.last)
                        IN [pl |-> [a.pl EXCEPT ![p].num = n], last |-> n,
                            wrapped |-> a.wrapped \/ n <= a.last],
           [b EXCEPT !.pl = [p \in DOMAIN @ |-> IF p \in S THEN [@[p] EXCEPT !.num = 0] ELSE @[p]]],
           S)

\* outer: the first of the two nodes of a hub.
Node(desc, serial, outer) == [num |-> 0, desc |-> desc, serial |-> serial, outer |-> outer]
Phone(s)    == Node("phone", s, FALSE)
RootHub     == [Node("root hub", NoSerial, FALSE) EXCEPT !.num = 1]
HubNodes(H) == [h \in H \cup {g \o <<4>> : g \in H} |-> Node("1a40:0101", NoSerial, h \in H)]

Nothing == [what |-> "nothing", fast |-> FALSE]
NotOdd  == [num |-> 0, how |-> "none"]

Free(pl) == {p \in Places : Front(p) \in DOMAIN pl /\ p \notin DOMAIN pl}

\* Every bus with the hubs of one of Hubs and each phone in one of their ports.
Buses == UNION {
  LET bus == (<<>> :> RootHub) @@ HubNodes(H)
      All(at) == bus @@ [p \in Range(at) |-> Phone(CHOOSE s \in Serial : at[s] = p)]
  IN {Numbered([pl |-> All(at), last |-> 1, wrapped |-> FALSE], DOMAIN All(at) \ {<<>>}) :
        at \in {f \in [Serial -> Free(bus)] : IsInjective(f)}} : H \in Hubs}

NothingAsked ==
  /\ wrapped = FALSE /\ changes = 0 /\ asked = Nothing /\ odd = NotOdd /\ step = "none" /\ todo = {}
  /\ infos = <<>> /\ tree = <<>> /\ seen = <<>> /\ hubs = {} /\ ttyOf = <<>>
  /\ ports = {} /\ hits = {}
UsbInit == (\E b \in Buses : plugged = b.pl /\ lastNum = b.last) /\ NothingAsked

Change == asked # Nothing /\ step # "none" /\ changes < MaxChanges /\ changes' = changes + 1
          /\ UNCHANGED <<asked, odd, step, todo, infos, tree, seen, hubs, ttyOf, ports, hits>>

Become(b) == plugged' = b.pl /\ lastNum' = b.last /\ wrapped' = b.wrapped
Bus       == [pl |-> plugged, last |-> lastNum, wrapped |-> wrapped]

Without(s) == [p \in {q \in DOMAIN plugged : plugged[q].serial # s} |-> plugged[p]]
Unplug(s)  == Change /\ Become([Bus EXCEPT !.pl = Without(s)])
Replug(s)  == /\ Change
              /\ \E p \in Free(Without(s)) :
                   Become(Numbered([Bus EXCEPT !.pl = (p :> Phone(s)) @@ Without(s)], {p}))
\* A hub loses its power for a while, or a phone restarts.
PowerCycle == /\ Change /\ \E p \in DOMAIN plugged \ {<<>>} :
                   Become(Numbered(Bus, {q \in DOMAIN plugged : IsPrefix(p, q)}))
------------------------------------------------------------------------------
(* lsusb                                                                       *)

Phones == {p \in DOMAIN plugged : plugged[p].serial # NoSerial}
Bus1 == <<plugged, lastNum, wrapped, changes>>
With(n) == {p \in DOMAIN plugged : plugged[p].num = n}

\* One call in a behaviour: nothing is kept from one to the next.
Ask(a) == /\ asked = Nothing /\ asked' = a /\ step' = "lsusb"
          /\ odd' \in {NotOdd} \cup (IF a.fast THEN {} ELSE
                       [num : {plugged[p].num : p \in Phones}, how : {"hangs", "closed"}]
                       \cup [num : Nums(plugged) \ {1}, how : {"hangs"}])
          /\ UNCHANGED <<Bus1, todo, infos, tree, seen, hubs, ttyOf, ports, hits>>
Done   == step' = "none"
Raise  == Done /\ ports' = {}

\* Fast, the list has all there is to know.
Lsusb ==
  /\ step = "lsusb"
  /\ IF asked.fast
     THEN /\ infos' = [n \in Nums(plugged) |->
                         [desc |-> plugged[CHOOSE p \in With(n) : TRUE].desc,
                          serial |-> NoSerial]]
          /\ step' = "usb-devices" /\ UNCHANGED todo
     ELSE todo' = Nums(plugged) /\ step' = "lsusb -v" /\ UNCHANGED infos
  /\ UNCHANGED <<Bus1, asked, odd, tree, seen, hubs, ttyOf, ports, hits>>

\* _lsusbv_on_device: a device that is gone is reported without a description, one
\* that cannot be opened without its serial number, one that hangs not at all.
LsusbV ==
  /\ step = "lsusb -v" /\ todo # {} /\ todo' = todo \ {Min(todo)}
  /\ LET n == Min(todo)
         Says(d, s) == infos' = (n :> [desc |-> d, serial |-> s]) @@ infos
     IN IF n = odd.num /\ odd.how = "hangs" THEN UNCHANGED infos
        ELSE IF With(n) = {} THEN Says("none", NoSerial)
        ELSE \E p \in With(n) : Says(plugged[p].desc, IF n = odd.num THEN NoSerial
                                                     ELSE plugged[p].serial)
  /\ UNCHANGED <<Bus1, asked, odd, step, tree, seen, hubs, ttyOf, ports, hits>>

\* reset_android_usb takes the last one with the serial; without one it raises.
Meant == {n \in DOMAIN infos : infos[n].serial = asked.what}
LsusbEnds ==
  /\ step = "lsusb -v" /\ todo = {}
  /\ \/ asked.what \in {"serial", "tty"} /\ step' = "usb-devices" /\ UNCHANGED todo
     \/ asked.what = "all" /\ step' = "reset"
        /\ todo' = {n \in DOMAIN infos : n # 1 /\ infos[n].serial # NoSerial}
     \/ asked.what \in Serial /\ step' = "reset"
        /\ todo' \in IF Meant = {} THEN {{}} ELSE {{n} : n \in Meant}
  /\ UNCHANGED <<Bus1, asked, odd, infos, tree, seen, hubs, ttyOf, ports, hits>>

\* reset_usb: by number; of several the next, also after one has failed.
Reset ==
  /\ step = "reset"
  /\ IF todo = {} THEN Done /\ UNCHANGED <<todo, hits>>
     ELSE /\ todo' = todo \ {Min(todo)} /\ UNCHANGED step
          /\ hits' = hits \cup {<<infos[Min(todo)].serial, plugged[p].serial>> :
                                  p \in With(Min(todo))}
  /\ UNCHANGED <<Bus1, asked, odd, infos, tree, seen, hubs, ttyOf, ports>>
------------------------------------------------------------------------------
(* find_usb_devices                                                            *)

\* GetBusNumberToDeviceTreeMap
UsbDevices ==
  /\ step = "usb-devices" /\ seen' = plugged
  /\ tree' = [p \in DOMAIN plugged |->
                [plugged[p] EXCEPT !.desc = IF plugged[p].num \in DOMAIN infos
                                            THEN infos[plugged[p].num].desc
                                            ELSE "NOT AVAILABLE"]]
  /\ step' = "hubs"
  /\ UNCHANGED <<Bus1, asked, odd, todo, infos, hubs, ttyOf, ports, hits>>

\* The search for hubs looks at every node.
FindHubs ==
  /\ step = "hubs"
  /\ IF \E p \in DOMAIN tree : tree[p].desc = "none" THEN Raise /\ UNCHANGED hubs
     ELSE hubs' = GetHubsOnBus(DOMAIN tree) /\ step' = "maps" /\ UNCHANGED ports
  /\ UNCHANGED <<Bus1, asked, odd, todo, infos, tree, seen, ttyOf, hits>>

Entries(hub, Known(_), What(_)) ==
  {[hub |-> hub[1], port |-> e.port, what |-> What(e.node)] :
     e \in {x \in PortTuples(hub[1], hub[2]) : Known(x.node)}}

\* GetPhysicalPortToSerialMap for the next hub.
SerialMap ==
  /\ step = "maps" /\ hubs # {} /\ asked.what = "serial"
  /\ \E h \in hubs : /\ hubs' = hubs \ {h}
                     /\ ports' = ports \cup Entries(h, LAMBDA p : tree[p].serial # NoSerial,
                                                       LAMBDA p : tree[p].serial)
  /\ UNCHANGED <<Bus1, asked, odd, step, todo, infos, tree, seen, ttyOf, hits>>

\* GetPhysicalPortToTTYMap, which asks for all ttys once more for each hub.
GetTTYList ==
  /\ step = "maps" /\ hubs # {} /\ asked.what = "tty"
  /\ todo' = {plugged[p].serial : p \in Phones}
  /\ step' = "ttys" /\ ttyOf' = <<>>
  /\ UNCHANGED <<Bus1, asked, odd, infos, tree, seen, hubs, ports, hits>>

\* GetBusDeviceFromTTY: one that is gone by now raises.
TtyInfo ==
  /\ step = "ttys"
  /\ \E tty \in todo :
       LET at == {p \in DOMAIN plugged : plugged[p].serial = tty}
       IN /\ todo' = todo \ {tty}
          /\ IF at = {} THEN Raise /\ UNCHANGED ttyOf
             ELSE /\ ttyOf' = [n \in {plugged[p].num : p \in at} |-> tty] @@ ttyOf
                  /\ UNCHANGED <<step, ports>>
  /\ UNCHANGED <<Bus1, asked, odd, infos, tree, seen, hubs, hits>>
TtyMap ==
  /\ step = "ttys" /\ todo = {} /\ step' = "maps"
  /\ \E h \in hubs : /\ hubs' = hubs \ {h}
                     /\ ports' = ports \cup Entries(h, LAMBDA p : tree[p].num \in DOMAIN ttyOf,
                                                       LAMBDA p : ttyOf[tree[p].num])
  /\ UNCHANGED <<Bus1, asked, odd, todo, infos, tree, seen, ttyOf, hits>>
MapsEnd == step = "maps" /\ hubs = {} /\ Done
           /\ UNCHANGED <<Bus1, asked, odd, todo, infos, tree, seen, hubs, ttyOf, ports, hits>>

Queries == {[what |-> w, fast |-> f] : w \in {"serial", "tty"}, f \in BOOLEAN}
        \cup {[what |-> w, fast |-> FALSE] : w \in Serial \cup {"all"}}

UsbNext ==
  \/ \E s \in Serial : Unplug(s) \/ Replug(s)
  \/ PowerCycle
  \/ \E a \in Queries : Ask(a)
  \/ Lsusb \/ LsusbV \/ LsusbEnds \/ Reset \/ UsbDevices \/ FindHubs \/ SerialMap
  \/ GetTTYList \/ TtyInfo \/ TtyMap \/ MapsEnd
------------------------------------------------------------------------------
(* Properties                                                                  *)

Found == step = "none" /\ seen # <<>>

\* Where a phone was, by hub and physical port, when usb-devices ran.
HubsThere == {h \in DOMAIN seen : seen[h].outer}
Chained   == \E h \in HubsThere : h \o <<4, 4>> \in HubsThere
Where     == {[hub |-> h, port |-> Plugable.layout[v], what |-> seen[h \o v].serial] :
                <<h, v>> \in {<<g, w>> \in HubsThere \X DOMAIN Plugable.layout :
                                g \o w \in DOMAIN seen /\ seen[g \o w].serial # NoSerial}}

\* As long as numbers have not begun anew and no hub hangs on the last port of
\* another, a phone that is found on a port is the one that was there; if nothing
\* changed since the start, and lsusb -v could ask every device, all are found.
PortsAreTrue ==
  Found /\ ~wrapped /\ ~Chained =>
    /\ ports \subseteq Where
    /\ asked.what = "serial" /\ changes = 0 /\ odd = NotOdd => ports = Where

\* As long as numbers have not begun anew, a reset by serial hits that phone or none.
ResetsOwn == wrapped \/ \A h \in hits : h[1] = h[2]
==============================================================================
