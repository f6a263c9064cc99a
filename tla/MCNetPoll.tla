----------------------------- MODULE MCNetPoll -----------------------------
(* One host more than the ARP cache has entries, hosts that change their   *)
(* hardware address, and a ring that every second frame goes around.       *)
EXTENDS NetPoll

AllKinds == {"arp", "echo", "pong", "fragment"}
ThreeHosts == {1, 2, 3}
TwoMacs == {1, 2}
=============================================================================
