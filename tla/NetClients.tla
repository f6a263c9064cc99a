----------------------------- MODULE NetClients -----------------------------
(***************************************************************************)
(* The users of the UDP sockets: the DHCP client (src/src/dhcp.c), the     *)
(* resolver (src/src/dns.c) and a Lua program with sockets of its own      *)
(* (src/src/lua/lua_net.c), over a network that loses, delays, reorders    *)
(* and copies datagrams.  One call is in progress at a time; datagrams     *)
(* come in only where it pumps net_poll, or from the console's idle loop.  *)
(***************************************************************************)
EXTENDS UdpSockets, Bags

CONSTANTS Attempts,        \* tries of one DHCP exchange: 3
          DnsAttempts,     \* tries of one name server: 2
          Names, DnsIds,   \* names asked for, values of nonce16
          MaxDisturb,      \* bound on disturb
          Circumstances    \* the program's calls and the network's mischief

ASSUME ClientAssumption ==
  /\ {Attempts, DnsAttempts} \subseteq Nat \ {0} /\ MaxDisturb \in Nat
  /\ \A c \in Circumstances :
       /\ DOMAIN c = {"servers", "dhcp", "dns", "prog", "data", "dups", "opts"}
       /\ {c.dhcp, c.dns, c.prog, c.data, c.dups} \subseteq Nat
       /\ c.dns + c.prog <= EphLast - EphFirst  \* no port comes round again

VARIABLES left,       \* what is left of the circumstances
          call,       \* the call in progress
          net,        \* datagrams on their way to this machine
          xid,        \* DHCP calls so far: nonce32 gives each a new value
          conf,       \* what the last lease configured
          answer,     \* the last name resolved, and the address it got
          failed,     \* an exchange of DHCP ran out of attempts
          disturb,    \* receive timeouts, refusals and surplus replies so far
          offered, granted  \* what the DHCP servers have said, and bound themselves to

clientVars == <<left, call, net, xid, conf, answer, failed, disturb, offered, granted>>
vars == <<udpVars, clientVars>>

DHCP_CLIENT_PORT == 68
UserPort == 7

NoLease == [ip |-> 0, opt |-> "none"]
NoCall == [op |-> "none", phase |-> "idle", sock |-> 0, id |-> 0, round |-> 0,
           attempt |-> 0, about |-> 0, lease |-> NoLease]
Datagram(to, kind, id, val, opt) == [to |-> to, kind |-> kind, id |-> id, val |-> val, opt |-> opt]

Init ==
  /\ UdpInit
  /\ left \in Circumstances /\ call = NoCall
  /\ net = EmptyBag /\ xid = 0 /\ disturb = 0 /\ failed = FALSE
  /\ conf = [xid |-> 0, lease |-> NoLease]
  /\ answer = [asked |-> 0, got |-> 0]
  /\ offered = {} /\ granted = {}

At(op, phase) == call.op = op /\ call.phase = phase
Goto(phase) == call' = [call EXCEPT !.phase = phase]
Idle(what) == call = NoCall /\ left[what] > 0 /\ left' = [left EXCEPT ![what] = @ - 1]

----------------------------------------------------------------------------
(* The network.                                                            *)

\* A datagram that is lost is one that is never delivered.
Sends(ds) == net' = net (+) SetToBag(ds)

Disturbs(n) == disturb + n <= MaxDisturb /\ disturb' = disturb + n

\* net_poll hands a datagram to udp_input: from the receive loop, while ARP
\* resolves the next hop of a unicast, and from the idle loop.
Pumping == call.phase \in {"poll", "idle"} \/ At("dns", "send") \/ At("send", "send")

Deliver ==
  /\ Pumping
  /\ \E d \in BagToSet(net) : udp_input(d) /\ net' = net (-) SetToBag({d})
  /\ UNCHANGED <<eph, bound, left, call, xid, conf, answer, failed, disturb, offered, granted>>

Copy ==
  /\ left.dups > 0 /\ left' = [left EXCEPT !.dups = @ - 1]
  /\ \E d \in BagToSet(net) : Sends({d})
  /\ Disturbs(1)
  /\ UNCHANGED <<udpVars, call, xid, conf, answer, failed, offered, granted>>

----------------------------------------------------------------------------
(* net_udp_recvfrom, the same for all users: look at the queue, pump,      *)
(* and only then look at the clock.                                        *)

Head1 == Head(socks[call.sock].q)
Queued == socks[call.sock].q # << >>

RecvPolls ==
  /\ call.phase = "recv" /\ ~Queued /\ Goto("poll")
  /\ UNCHANGED <<udpVars, left, net, xid, conf, answer, failed, disturb, offered, granted>>
RecvAgain ==
  /\ call.phase = "poll" /\ Goto("recv")
  /\ UNCHANGED <<udpVars, left, net, xid, conf, answer, failed, disturb, offered, granted>>

----------------------------------------------------------------------------
(* DHCP.                                                                   *)

\* net_dhcp: a new transaction on port 68.
net_dhcp ==
  /\ Idle("dhcp") /\ Unused # {} /\ ~port_in_use(DHCP_CLIENT_PORT)
  /\ Opens(DHCP_CLIENT_PORT)
  /\ xid' = xid + 1
  /\ call' = [NoCall EXCEPT !.op = "dhcp", !.phase = "send", !.sock = Min(Unused), !.id = xid + 1,
                            !.round = 1, !.attempt = 1]
  /\ UNCHANGED <<eph, net, conf, answer, failed, disturb, offered, granted>>

\* Without a socket, or with the port in other hands, it fails at once; the
\* socket was opened and closed again.
Emptied == [socks EXCEPT ![Min(Unused)] = [in_use |-> FALSE, port |-> 0, q |-> << >>]]
net_dhcp_Refused ==
  /\ Idle("dhcp")
  /\ \/ Unused = {} /\ UNCHANGED socks
     \/ Unused # {} /\ port_in_use(DHCP_CLIENT_PORT) /\ socks' = Emptied
  /\ UNCHANGED <<eph, bound, call, net, xid, conf, answer, failed, disturb, offered, granted>>

\* Servers differ in the replies that carry the options.
Opt(kind) == IF kind \in left.opts THEN kind ELSE "none"
DhcpReply(kind, ip) == Datagram(DHCP_CLIENT_PORT, kind, call.id, ip, Opt(kind))

\* exchange broadcasts a DISCOVER; some of the servers answer.
Discover ==
  /\ At("dhcp", "send") /\ call.round = 1 /\ Goto("recv")
  /\ \E S \in SUBSET left.servers :
       LET offers == {DhcpReply("offer", s) : s \in S}
       IN  /\ Sends(offers)
           /\ offered' = offered \cup offers
           /\ Disturbs(IF S = {} THEN 0 ELSE Cardinality(S) - 1)
  /\ UNCHANGED <<udpVars, left, xid, conf, answer, failed, granted>>

\* It broadcasts a REQUEST; the server it names grants the address, or refuses.
Request ==
  /\ At("dhcp", "send") /\ call.round = 2 /\ Goto("recv")
  /\ \/ UNCHANGED <<left, net, disturb, granted>>
     \/ LET ack == DhcpReply("ack", call.lease.ip)
        IN  Sends({ack}) /\ granted' = granted \cup {ack} /\ UNCHANGED <<left, disturb>>
     \/ /\ left.dups > 0 /\ left' = [left EXCEPT !.dups = @ - 1]
        /\ Sends({DhcpReply("nak", 0)})
        /\ Disturbs(1) /\ UNCHANGED granted
  /\ UNCHANGED <<udpVars, xid, conf, answer, failed, offered>>

\* parse wants this transaction and the type of this round.
parse_AnyXid(d) == d.kind = IF call.round = 1 THEN "offer" ELSE "ack"
parse(d) == d.id = call.id /\ d.kind = IF call.round = 1 THEN "offer" ELSE "ack"

DhcpOffer ==
  /\ At("dhcp", "recv") /\ Queued /\ parse(Head1) /\ call.round = 1
  /\ socks' = Taken(call.sock)
  /\ call' = [call EXCEPT !.phase = "send", !.round = 2, !.attempt = 1,
                          !.lease = [ip |-> Head1.val, opt |-> Head1.opt]]
  /\ UNCHANGED <<eph, bound, left, net, xid, conf, answer, failed, disturb, offered, granted>>

\* The options of the ACK win where it has them.
Merged(lease, d) == [ip |-> d.val, opt |-> IF d.opt = "none" THEN lease.opt ELSE d.opt]
DhcpAck ==
  /\ At("dhcp", "recv") /\ Queued /\ parse(Head1) /\ call.round = 2
  /\ socks' = net_udp_close(Taken(call.sock), call.sock)
  /\ conf' = [xid |-> call.id, lease |-> Merged(call.lease, Head1)]
  /\ call' = NoCall
  /\ UNCHANGED <<eph, bound, left, net, xid, answer, failed, disturb, offered, granted>>

\* An attempt that got nothing, or not what it wanted, is repeated, up to three
\* times in all.
LastAttempt_Two == call.attempt = Attempts - 1
LastAttempt == call.attempt = Attempts
AttemptFails(table) ==
  IF LastAttempt
  THEN socks' = net_udp_close(table, call.sock) /\ call' = NoCall /\ failed' = TRUE
  ELSE /\ call' = [call EXCEPT !.phase = "send", !.attempt = @ + 1]
       /\ socks' = table /\ UNCHANGED failed

DhcpOther ==
  /\ At("dhcp", "recv") /\ Queued /\ ~parse(Head1) /\ AttemptFails(Taken(call.sock))
  /\ UNCHANGED <<eph, bound, left, net, xid, conf, answer, disturb, offered, granted>>
DhcpTimeout ==
  /\ At("dhcp", "poll") /\ AttemptFails(socks)
  /\ Disturbs(1)
  /\ UNCHANGED <<eph, bound, left, net, xid, conf, answer, offered, granted>>

----------------------------------------------------------------------------
(* DNS.                                                                    *)

\* net_resolve of a name that is no address.
net_resolve ==
  /\ Idle("dns")
  /\ \E n \in Names, id \in DnsIds :
       IF Unused = {} THEN UNCHANGED <<socks, bound, call>>
       ELSE /\ Opens(0)
            /\ call' = [NoCall EXCEPT !.op = "dns", !.phase = "send", !.sock = Min(Unused),
                                      !.id = id, !.round = 1, !.attempt = 1, !.about = n]
  /\ UNCHANGED <<eph, net, xid, conf, answer, failed, disturb, offered, granted>>

\* A name that build_query cannot encode.
net_resolve_BadName ==
  /\ Idle("dns") /\ Unused # {} /\ socks' = Emptied
  /\ UNCHANGED <<eph, bound, call, net, xid, conf, answer, failed, disturb, offered, granted>>

\* The query leaves, from an ephemeral port that the first one binds, and is
\* answered, refused or lost.
Replies(port) ==
  {{}} \cup {{Datagram(port, kind, call.id, call.about, "none")} : kind \in {"answer", "negative"}}
SourcePort == IF socks[call.sock].port = 0 THEN EphemeralPort ELSE socks[call.sock].port
AutoBind ==
  IF socks[call.sock].port = 0 THEN net_udp_bind(call.sock, 0) ELSE UNCHANGED udpVars

\* The next try is with the same server, or with the next one, or there is none.
DnsNext(table, broken) ==
  IF ~broken /\ call.attempt < DnsAttempts
  THEN call' = [call EXCEPT !.phase = "send", !.attempt = @ + 1] /\ socks' = table
  ELSE IF call.round = 1
  THEN call' = [call EXCEPT !.phase = "send", !.round = 2, !.attempt = 1] /\ socks' = table
  ELSE call' = NoCall /\ socks' = net_udp_close(table, call.sock)

DnsSend ==
  /\ At("dns", "send") /\ Goto("recv") /\ AutoBind
  /\ \E ds \in Replies(SourcePort) : Sends(ds)
  /\ UNCHANGED <<left, xid, conf, answer, failed, disturb, offered, granted>>

\* net_udp_sendto fails: ARP got no answer, or the frame went out unconfirmed.
DnsSendFails ==
  /\ At("dns", "send")
  /\ LET bindsNow == socks[call.sock].port = 0
     IN  /\ DnsNext(IF bindsNow THEN [socks EXCEPT ![call.sock].port = SourcePort] ELSE socks, TRUE)
         /\ bound' = [bound EXCEPT ![call.sock] = @ \cup {SourcePort}]
         /\ eph' = IF bindsNow THEN net_next_ephemeral(Min(Tries) + 1) ELSE eph
  /\ \E ds \in Replies(SourcePort) : Sends(ds)
  /\ UNCHANGED <<left, xid, conf, answer, failed, disturb, offered, granted>>

\* parse_answer looks at the identifier and at the response code.
parse_answer(d) == d.id = call.id /\ d.kind = "answer"
DnsAnswer ==
  /\ At("dns", "recv") /\ Queued /\ parse_answer(Head1)
  /\ answer' = [asked |-> call.about, got |-> Head1.val]
  /\ socks' = net_udp_close(Taken(call.sock), call.sock)
  /\ call' = NoCall
  /\ UNCHANGED <<eph, bound, left, net, xid, conf, failed, disturb, offered, granted>>
DnsOther ==
  /\ At("dns", "recv") /\ Queued /\ ~parse_answer(Head1) /\ DnsNext(Taken(call.sock), FALSE)
  /\ UNCHANGED <<eph, bound, left, net, xid, conf, answer, failed, disturb, offered, granted>>
DnsTimeout ==
  /\ At("dns", "poll") /\ DnsNext(socks, FALSE)
  /\ UNCHANGED <<eph, bound, left, net, xid, conf, answer, failed, disturb, offered, granted>>

----------------------------------------------------------------------------
(* A program's own sockets: every socket in use between calls.             *)

Others == UNCHANGED <<net, xid, conf, answer, failed, disturb, offered, granted>>

l_udp == Idle("prog") /\ Opens(0) /\ UNCHANGED <<eph, call>> /\ Others
l_udp_bind ==
  /\ Idle("prog") /\ UNCHANGED call /\ Others
  /\ \E h \in Handles \ Unused, port \in {0, UserPort, DHCP_CLIENT_PORT} : net_udp_bind(h, port)
l_udp_close ==
  /\ Idle("prog") /\ UNCHANGED <<eph, bound, call>> /\ Others
  /\ \E h \in Handles \ Unused : socks' = net_udp_close(socks, h)
l_udp_recvfrom ==
  /\ Idle("prog") /\ UNCHANGED udpVars /\ Others
  /\ \E h \in Handles \ Unused : call' = [NoCall EXCEPT !.op = "recv", !.phase = "recv", !.sock = h]
l_udp_sendto ==
  /\ Idle("prog") /\ UNCHANGED udpVars /\ Others
  /\ \E h \in Handles \ Unused : call' = [NoCall EXCEPT !.op = "send", !.phase = "send", !.sock = h]

UserSent ==
  /\ At("send", "send") /\ call' = NoCall /\ AutoBind
  /\ UNCHANGED <<left, net, xid, conf, answer, failed, disturb, offered, granted>>
UserReceived ==
  /\ At("recv", "recv") /\ Queued /\ call' = NoCall
  /\ socks' = Taken(call.sock)
  /\ UNCHANGED <<eph, bound, left>> /\ Others
UserTimeout ==
  /\ At("recv", "poll") /\ call' = NoCall
  /\ UNCHANGED <<udpVars, left>> /\ Others

\* Somebody sends to a port that a program is, or was, bound to.
PeerSends ==
  /\ left.data > 0 /\ left' = [left EXCEPT !.data = @ - 1]
  /\ \E p \in UNION {bound[h] : h \in Handles} \ {DHCP_CLIENT_PORT} :
       Sends({Datagram(p, "data", 0, 0, "none")})
  /\ UNCHANGED <<udpVars, call, xid, conf, answer, failed, disturb, offered, granted>>

----------------------------------------------------------------------------
Step ==
  \/ RecvPolls \/ RecvAgain
  \/ Discover \/ Request \/ DhcpOffer \/ DhcpAck \/ DhcpOther \/ DhcpTimeout
  \/ DnsSend \/ DnsSendFails \/ DnsAnswer \/ DnsOther \/ DnsTimeout
  \/ UserSent \/ UserReceived \/ UserTimeout

Next ==
  \/ Step \/ Deliver \/ Copy \/ PeerSends
  \/ net_dhcp \/ net_dhcp_Refused \/ net_resolve \/ net_resolve_BadName
  \/ l_udp \/ l_udp_bind \/ l_udp_close \/ l_udp_recvfrom \/ l_udp_sendto

Spec == Init /\ [][Next]_vars

----------------------------------------------------------------------------
\* What net_dhcp configures is an address that a server granted in this very
\* transaction, with the options of the grant, or of an offer of that address
\* where the grant has none (net_dhcp, parse).
LeaseSound ==
  conf.xid # 0 =>
    \E g \in granted :
      /\ g.id = conf.xid /\ g.val = conf.lease.ip
      /\ IF g.opt # "none" THEN conf.lease.opt = g.opt
         ELSE \E o \in offered : o.id = g.id /\ o.val = g.val /\ o.opt = conf.lease.opt

\* Retrying leaves replies behind that use up later attempts, of this call and
\* of the next one.  Still DHCP only fails after as many disturbances as an
\* exchange has attempts (exchange).
GivesUpLate == failed => disturb >= Attempts

\* The address net_resolve returns is that of the name it was asked for,
\* whatever arrives late, and even if two queries draw the same identifier
\* (nonce16, net_udp_open, net_udp_bind).
ResolvesOwnName == answer.asked = answer.got
=============================================================================
