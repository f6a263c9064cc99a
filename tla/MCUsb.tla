------------------------------- MODULE MCUsb -------------------------------
\* Two blocks, one key, rings that are about to wrap or have just begun, and
\* hubs of three ports of which two are addressable.
EXTENDS Usb, TLC

MCRings == {"cmd", "ep0", "out", "in", "kbd", "mouse"}
MCPlaces == {[n |-> 0, c |-> 1, k |-> 0, d |-> 1], [n |-> 3, c |-> 0, k |-> 2, d |-> 0]}
MCLbas == 1 .. 2

Hub(n) == [ports |-> n, funcs |-> {}]
Dev(fs) == [ports |-> 0, funcs |-> fs]

\* A disk and a keyboard on the root ports.
Flat == <<1>> :> Dev({"msc"}) @@ <<2>> :> Dev({"kbd", "mouse"})
\* A hub in a hub: a keyboard with mouse behind both, disks beside them.
Deep == <<2>> :> Hub(3) @@ <<2, 1>> :> Hub(2) @@ <<2, 1, 2>> :> Dev({"kbd", "mouse"})
          @@ <<2, 2>> :> Dev({"msc"}) @@ <<2, 3>> :> Dev({"msc"})
\* More devices than the table holds.
Many == <<1>> :> Dev({"mouse"}) @@ <<2>> :> Hub(2) @@ <<2, 1>> :> Hub(2)
          @@ <<2, 1, 1>> :> Dev({"kbd"}) @@ <<2, 1, 2>> :> Dev({"kbd", "msc"}) @@ <<2, 2>> :> Dev({"msc"})

Working(q, l, s, k, m, n) ==
  [topology |-> Flat, faults |-> 0,
   left |-> [requests |-> q, late |-> l, stalls |-> s, kbd |-> k, mouse |-> m, noise |-> n]]
Booting(t, f) ==
  [topology |-> t, faults |-> f,
   left |-> [requests |-> 0, late |-> 0, stalls |-> 0, kbd |-> 1, mouse |-> 0, noise |-> 0]]
MCScenarios ==
  {Working(3, 1, 0, 1, 0, 0), Working(2, 1, 1, 1, 0, 0), Working(1, 0, 1, 2, 1, 1), Working(1, 0, 2, 0, 2, 0),
   Working(2, 2, 0, 0, 0, 1),
   Booting(Deep, 2), Booting(Many, 2)}
=============================================================================
