--------------------------- MODULE UsbEnumerate ---------------------------
(***************************************************************************)
(* Bring-up of the xHCI controller and enumeration of the devices behind   *)
(* its root ports and hubs (src/src/xhci.c): slots, route strings, the     *)
(* storage and HID functions bound to the first match, and the pages given *)
(* to the controller, on every path through the failures of single steps.  *)
(* A place is the root port followed by the hub ports below it; the        *)
(* controller and the devices (what is connected, which command or         *)
(* transfer fails) are external.                                           *)
(***************************************************************************)
EXTENDS Naturals, Sequences, FiniteSets

CONSTANTS MAX_DEVICES,
          g_ports,      \* root ports
          MaxHubPorts,  \* addressable ports of a hub: 15, one nibble of the route
          Nibble        \* 16: the values of one hop in a route string

VARIABLES topology,  \* what is connected: from places to kinds of device
          boot,      \* "off", "scan", "class", "up" or "absent" (g_present is FALSE)
          devices,   \* devices[], a sequence
          scan,      \* the ports being walked: the root, then the hubs entered
          slots,     \* slots the controller has given out
          bound,     \* msc, hid_kbd, hid_mouse: the slot of the function, 0 if none
          pages,     \* pages allocated, named by their use and slot
          faults     \* steps that may still fail, and whether one did

enumVars == <<topology, boot, devices, scan, slots, bound, pages, faults>>

Functions == {"msc", "kbd", "mouse"}
Core == {<<"dcbaa", 0>>, <<"cmd", 0>>, <<"erst", 0>>, <<"events", 0>>}
Root == [place |-> <<>>, root_port |-> 0, route |-> 0, depth |-> 0, slot |-> 0, port |-> 1,
         ports |-> g_ports]

EnumInit(t, f) ==
  /\ topology = t
  /\ boot = "off" /\ devices = <<>> /\ scan = <<>> /\ slots = 0
  /\ bound = [g \in Functions |-> 0] /\ pages = {}
  /\ faults = [left |-> f, seen |-> FALSE]

\* A step goes well, or fails while faults are left.
Fails(bad) ==
  /\ bad => faults.left > 0
  /\ faults' = IF bad THEN [left |-> faults.left - 1, seen |-> TRUE] ELSE faults

\* xhci_init up to enumeration.  A controller that does not get ready, halt or
\* reset costs nothing; one that does not run or answer the NO-OP has its
\* pages returned.
xhci_init_Keeps ==
  /\ boot = "off"
  /\ \E bad \in BOOLEAN :
       /\ Fails(bad)
       /\ IF bad THEN boot' = "absent" /\ pages' \in {{}, Core} /\ UNCHANGED scan
                 ELSE boot' = "scan" /\ pages' = Core /\ scan' = <<Root>>
  /\ UNCHANGED <<topology, devices, slots, bound>>

xhci_init ==
  /\ boot = "off"
  /\ \E bad \in BOOLEAN :
       /\ Fails(bad)
       /\ IF bad THEN boot' = "absent" /\ pages' = {} /\ UNCHANGED scan
                 ELSE boot' = "scan" /\ pages' = Core /\ scan' = <<Root>>
  /\ UNCHANGED <<topology, devices, slots, bound>>

Top == scan[Len(scan)]
Step == [scan EXCEPT ![Len(scan)].port = @ + 1]
Here == Append(Top.place, Top.port)

\* The route of a device on port p of the hub h; a root port is not part of it.
RouteBelow_Flat(h, p) == IF h.place = <<>> THEN 0 ELSE h.route + p

RouteBelow(h, p) == IF h.place = <<>> THEN 0 ELSE h.route + p * Nibble ^ h.depth

\* A port with nothing behind it, or that does not come out of its reset.
SkipPort ==
  /\ boot = "scan" /\ Top.port <= Top.ports
  /\ Fails(Here \in DOMAIN topology)
  /\ scan' = Step
  /\ UNCHANGED <<topology, boot, devices, slots, bound, pages>>

\* The pages of a hub's own enumeration are held while the ports below are walked.
Temps(s) == {<<"input", s>>, <<"desc", s>>}

\* All ports walked: hub_setup returns into enumerate_device, or the boot goes on.
EndOfPorts ==
  /\ boot = "scan" /\ Top.port > Top.ports
  /\ scan' = SubSeq(scan, 1, Len(scan) - 1)
  /\ boot' = IF Len(scan) = 1 THEN "up" ELSE "scan"
  /\ pages' = pages \ (Temps(Top.slot) \cup {<<"scratch", Top.slot>>})
  /\ UNCHANGED <<topology, devices, slots, bound, faults>>

\* enumerate_device up to the class drivers.  A device that fails after
\* ENABLE_SLOT keeps its context and the ring of its control endpoint.
enumerate_device ==
  /\ boot = "scan" /\ Top.port <= Top.ports /\ Here \in DOMAIN topology
  /\ LET s == slots + 1
         new == [slot |-> s, place |-> Here,
                 root_port |-> IF Top.place = <<>> THEN Top.port ELSE Top.root_port,
                 route |-> RouteBelow(Top, Top.port),
                 depth |-> IF Top.place = <<>> THEN 0 ELSE Top.depth + 1]
         kept == {<<"context", s>>, <<"ep0", s>>}
     IN  IF Len(devices) >= MAX_DEVICES
         THEN scan' = Step /\ UNCHANGED <<boot, devices, slots, pages, faults>>
         ELSE \/ /\ Fails(TRUE)          \* ENABLE_SLOT
                 /\ scan' = Step
                 /\ UNCHANGED <<boot, devices, slots, pages>>
              \/ /\ Fails(TRUE)          \* ADDRESS_DEVICE, GET_DESCRIPTOR
                 /\ slots' = s /\ pages' = pages \cup kept /\ scan' = Step
                 /\ UNCHANGED <<boot, devices>>
              \/ /\ Fails(FALSE)
                 /\ slots' = s /\ pages' = pages \cup kept \cup Temps(s)
                 /\ devices' = Append(devices, new)
                 /\ boot' = "class" /\ UNCHANGED scan
  /\ UNCHANGED <<topology, bound>>

New == devices[Len(devices)]
Kind == topology[New.place]

\* hub_setup: its descriptors, then its ports one by one.
hub_setup ==
  /\ boot = "class" /\ Kind.ports > 0
  /\ boot' = "scan"
  /\ \E bad \in BOOLEAN :
       /\ Fails(bad)
       /\ IF bad
          THEN scan' = Step /\ pages' = pages \ Temps(New.slot)
          ELSE /\ scan' = Append(Step, [place |-> New.place, root_port |-> New.root_port,
                            route |-> New.route, depth |-> New.depth, slot |-> New.slot, port |-> 1,
                            ports |-> IF Kind.ports < MaxHubPorts THEN Kind.ports ELSE MaxHubPorts])
               /\ pages' = pages \cup {<<"scratch", New.slot>>}
  /\ UNCHANGED <<topology, devices, slots, bound>>

\* What a function holds: while it is set up, once it is bound.
RingsOf(g, s) == IF g = "msc" THEN {<<"in", s>>, <<"out", s>>} ELSE {<<g, s>>}
BuffersOf(g, s) == IF g = "msc" THEN {<<"cbw", s>>, <<"csw", s>>, <<"bounce", s>>} ELSE {<<"report " \o g, s>>}

\* msc_setup and hid_setup of one function: outcome and pages left allocated.
\* After a failure past ring_init the rings stay, the buffers do not.
Setup(g) == IF g \in Kind.funcs /\ bound[g] = 0 THEN {"ok", "early", "late"} ELSE {"no"}

setup(outcome) ==
  LET s == New.slot
      of(g) == CASE outcome[g] = "ok" -> RingsOf(g, s) \cup BuffersOf(g, s)
                 [] outcome[g] = "late" -> RingsOf(g, s) [] OTHER -> {}
  IN  /\ bound' = [g \in Functions |-> IF outcome[g] = "ok" THEN s ELSE bound[g]]
      /\ pages' = (pages \ Temps(s)) \cup UNION {of(g) : g \in Functions}

\* The class drivers of a device that is no hub: msc_setup, then hid_setup twice.
ClassDrivers ==
  /\ boot = "class" /\ Kind.ports = 0
  /\ \E outcome \in [Functions -> {"ok", "early", "late", "no"}] :
       /\ \A g \in Functions : outcome[g] \in Setup(g)
       /\ LET bad == {g \in Functions : outcome[g] \in {"early", "late"}}
          IN  /\ Cardinality(bad) <= faults.left
              /\ faults' = [left |-> faults.left - Cardinality(bad), seen |-> faults.seen \/ bad # {}]
       /\ setup(outcome)
  /\ boot' = "scan" /\ scan' = Step
  /\ UNCHANGED <<topology, devices, slots>>

Enumerate ==
  xhci_init \/ SkipPort \/ EndOfPorts \/ enumerate_device \/ hub_setup \/ ClassDrivers

----------------------------------------------------------------------------
(* What enumeration promises.                                              *)

Slots == {devices[i].slot : i \in DOMAIN devices}

\* Where a route string leads below a root port.
RECURSIVE PathOf(_, _)
PathOf(route, depth) ==
  IF depth = 0 THEN <<>> ELSE <<route % Nibble>> \o PathOf(route \div Nibble, depth - 1)

\* A device is entered once, under its own slot, and its route leads to it.
DevicesSound ==
  \A i \in DOMAIN devices :
    LET d == devices[i]
    IN  /\ <<d.root_port>> \o PathOf(d.route, d.depth) = d.place /\ d.place \in DOMAIN topology
        /\ \A j \in DOMAIN devices : j # i => devices[j].slot # d.slot /\ devices[j].place # d.place

Reachable == {p \in DOMAIN topology : \A i \in 2 .. Len(p) : p[i] <= MaxHubPorts}

\* Without a failure nothing reachable is missed, up to MAX_DEVICES, and every
\* function is bound to the first device that has it.
NothingMissed ==
  boot = "up" /\ ~faults.seen =>
    /\ Len(devices) = IF Cardinality(Reachable) < MAX_DEVICES THEN Cardinality(Reachable) ELSE MAX_DEVICES
    /\ \A g \in Functions :
         LET having == {i \in DOMAIN devices : g \in topology[devices[i].place].funcs}
         IN  IF having = {} THEN bound[g] = 0
             ELSE bound[g] = devices[CHOOSE i \in having : \A j \in having : i <= j].slot

\* The controller never loses a page it works with, and a page lent for a step
\* is returned: what is allocated is what the controller, the devices, the bound
\* functions and the hubs being walked hold, besides what failed devices keep;
\* nothing after a failed init ("a failed init must not leak or leave live DMA").
PagesSound ==
  LET held == UNION {RingsOf(g, bound[g]) \cup BuffersOf(g, bound[g]) : g \in {f \in Functions : bound[f] # 0}}
                \cup UNION {{<<"context", s>>, <<"ep0", s>>} : s \in Slots}
      lent == {q \in pages : q[1] \in {"input", "desc", "scratch"}}
      used == (IF boot = "class" THEN Temps(New.slot) ELSE {})
                \cup UNION {Temps(scan[i].slot) \cup {<<"scratch", scan[i].slot>>} : i \in 2 .. Len(scan)}
  IN  /\ boot \in {"off", "absent"} => pages = {}
      /\ boot \in {"scan", "class", "up"} => Core \cup held \subseteq pages
      /\ lent = used

\* Enumeration as a whole (enumerate_root_ports, enumerate_device, hub_setup,
\* msc_setup, hid_setup): devices, completeness and pages, as stated above.
EnumerationSound == DevicesSound /\ NothingMissed /\ PagesSound
=============================================================================
