---------------------------- MODULE MCNetClients ----------------------------
(* Five circumstances: two DHCP calls, one server and two copies or        *)
(* refusals; one DHCP call and two servers; two queries; a program that    *)
(* uses every socket, also around a DHCP call; a program and a query.      *)
EXTENDS NetClients

Case == [servers |-> {}, dhcp |-> 0, dns |-> 0, prog |-> 0, data |-> 0, dups |-> 0, opts |-> {}]
Cases ==
  {[Case EXCEPT !.servers = {1}, !.dhcp = 2, !.dups = 2, !.opts = {"offer"}],
   [Case EXCEPT !.servers = {1, 2}, !.dhcp = 1, !.opts = {"offer", "ack"}],
   [Case EXCEPT !.dns = 2],
   [Case EXCEPT !.dhcp = 1, !.prog = 5, !.data = 2],
   [Case EXCEPT !.dns = 1, !.prog = 3, !.data = 1]}
=============================================================================
