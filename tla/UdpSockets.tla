----------------------------- MODULE UdpSockets -----------------------------
(***************************************************************************)
(* The UDP socket table (src/src/udp.c): a few sockets, each with a port   *)
(* and a short queue of datagrams, and the ephemeral ports it shares with  *)
(* TCP (net.c).  The operations are operators on the table, so that the    *)
(* clients of NetClients can use several of them in one step.  A queue is  *)
(* a sequence; the code keeps it in a ring.                                *)
(***************************************************************************)
EXTENDS Naturals, Sequences, FiniteSetsExt

CONSTANTS UDP_SOCKETS, UDP_QUEUE,
          EphFirst, EphLast    \* the ephemeral ports

ASSUME UdpAssumption ==
  /\ {UDP_SOCKETS, UDP_QUEUE, EphFirst, EphLast} \subseteq Nat \ {0}
  /\ EphFirst + UDP_SOCKETS <= EphLast + 1    \* a port for every socket

VARIABLES socks,    \* handle -> in_use, local_port (0: unbound), the queue
          eph,      \* ephemeral_next
          bound     \* handle -> ports it was bound to since it was opened

udpVars == <<socks, eph, bound>>

Handles == 0 .. UDP_SOCKETS - 1
Unused == {h \in Handles : ~socks[h].in_use}
port_in_use(p) == \E h \in Handles : socks[h].in_use /\ socks[h].port = p

UdpInit ==
  /\ socks = [h \in Handles |-> [in_use |-> FALSE, port |-> 0, q |-> << >>]]
  /\ eph = EphFirst
  /\ bound = [h \in Handles |-> {}]

\* The k-th port that net_next_ephemeral gives from now on.
net_next_ephemeral(k) == EphFirst + ((eph - EphFirst + k) % (EphLast - EphFirst + 1))

\* The first of them that no socket has.
Tries == {k \in 0 .. EphLast - EphFirst : ~port_in_use(net_next_ephemeral(k))}
EphemeralPort == net_next_ephemeral(Min(Tries))

\* The table after net_udp_open gave out h; a bind to a port follows at once
\* if there is one.
net_udp_open_KeepsQueue(h, port) ==
  socks' = [socks EXCEPT ![h].in_use = TRUE, ![h].port = port]
net_udp_open(h, port) ==
  socks' = [socks EXCEPT ![h] = [in_use |-> TRUE, port |-> port, q |-> << >>]]

Opens(port) ==
  /\ Unused # {}
  /\ net_udp_open(Min(Unused), port)
  /\ bound' = [bound EXCEPT ![Min(Unused)] = {port} \ {0}]

\* net_udp_bind, with port 0 for the next ephemeral one; refused (no step) if
\* the port is taken.
CanBind_Any(port) == TRUE
CanBind(port) == IF port = 0 THEN Tries # {} ELSE ~port_in_use(port)
net_udp_bind(h, port) ==
  LET p == IF port = 0 THEN EphemeralPort ELSE port
  IN  /\ CanBind(port)
      /\ socks' = [socks EXCEPT ![h].port = p]
      /\ bound' = [bound EXCEPT ![h] = @ \cup {p}]
      /\ eph' = IF port = 0 THEN net_next_ephemeral(Min(Tries) + 1) ELSE eph

\* udp_input: the first socket bound to the port takes the datagram, unless its
\* queue is full; without such a socket it is dropped.
udp_input_AnyPort(d) ==
  LET takers == {h \in Handles : socks[h].in_use}
      h == Min(takers)
  IN  socks' = IF takers # {} /\ Len(socks[h].q) < UDP_QUEUE
               THEN [socks EXCEPT ![h].q = Append(@, d)] ELSE socks
udp_input(d) ==
  LET takers == {h \in Handles : socks[h].in_use /\ socks[h].port = d.to}
      h == Min(takers)
  IN  socks' = IF takers # {} /\ Len(socks[h].q) < UDP_QUEUE
               THEN [socks EXCEPT ![h].q = Append(@, d)] ELSE socks

\* The tables after net_udp_recvfrom took the oldest datagram, and after
\* net_udp_close, which leaves the rest of the entry behind.
Taken(h) == [socks EXCEPT ![h].q = Tail(@)]
net_udp_close(table, h) == [table EXCEPT ![h].in_use = FALSE]

----------------------------------------------------------------------------
\* A port belongs to one socket at most, and a socket holds only datagrams that
\* were sent to a port it has been bound to since it was opened: what the last
\* owner of the slot had not yet read is gone (net_udp_open, net_udp_bind).
DemuxSound ==
  \A h \in Handles : socks[h].in_use =>
    /\ \A i \in DOMAIN socks[h].q : socks[h].q[i].to \in bound[h]
    /\ \A g \in Handles \ {h} :
         socks[g].in_use /\ socks[g].port = socks[h].port => socks[h].port = 0
=============================================================================
