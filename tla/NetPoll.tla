------------------------------ MODULE NetPoll ------------------------------
(***************************************************************************)
(* The receive path: the descriptor ring the e1000 card and e1000.c share, *)
(* net_poll with its dispatch, the ARP cache and echo requests and replies *)
(* of net.c.  arp_resolve pumps net_poll while it waits, also when it was  *)
(* called from the handling of a frame, so the calls form a stack.         *)
(***************************************************************************)
EXTENDS Naturals, Sequences

CONSTANTS N_RX,          \* descriptors of the receive ring
          ARP_ENTRIES,
          Hosts,         \* addresses on the link
          Macs,          \* hardware addresses a host may announce
          Kinds,         \* kinds of frames that arrive
          MaxFrames,     \* frames that arrive in all
          MaxPings       \* calls of net_ping in all

ASSUME NetAssumption ==
  /\ N_RX \in Nat /\ N_RX > 1 /\ ARP_ENTRIES \in Nat \ {0}
  /\ {MaxFrames, MaxPings} \subseteq Nat
  /\ Kinds \subseteq {"arp", "echo", "pong", "fragment"}

VARIABLES ring,      \* descriptor -> dd (written back by the card), frame in its buffer
          rdh, rdt,  \* registers: next descriptor of the card, end of what it owns
          cur,       \* rx_cur
          handed,    \* rx_handed, N_RX for none
          stack,     \* calls in progress, innermost first
          arp,       \* the ARP cache
          ping,      \* seq, got, and the result of the last call of net_ping
          arrived,   \* frames the card stored, in order
          handled,   \* frames ether_input was given, in order
          replies,   \* echo replies sent: the request answered, the content sent
          wire       \* sequence numbers of the pings that went out

driver == <<ring, rdt, cur, handed>>
hidden == <<arrived, handled, replies, wire>>
vars == <<ring, rdh, rdt, cur, handed, stack, arp, ping, hidden>>

Slots == 0 .. N_RX - 1
None == [kind |-> "none", id |-> 0, host |-> 0, mac |-> 0, seq |-> 0]
NoEntry == [host |-> 0, mac |-> 0, valid |-> FALSE]

----------------------------------------------------------------------------
(* The ARP cache.                                                          *)

Entry(h) == {i \in 0 .. ARP_ENTRIES - 1 : arp[i].valid /\ arp[i].host = h}
arp_lookup(h) == Entry(h) # {}

\* The entry of h, or else the last free one, or else entry 0.
SlotFor(h) ==
  LET free == {i \in 0 .. ARP_ENTRIES - 1 : ~arp[i].valid}
  IN  IF Entry(h) # {} THEN CHOOSE i \in Entry(h) : \A j \in Entry(h) : i <= j
      ELSE IF free # {} THEN CHOOSE i \in free : \A j \in free : j <= i
      ELSE 0

arp_insert(h, m) == arp' = [arp EXCEPT ![SlotFor(h)] = [host |-> h, mac |-> m, valid |-> TRUE]]

----------------------------------------------------------------------------
(* The card.                                                               *)

Frame(id) ==
  {f \in [kind : Kinds, id : {id}, host : Hosts, mac : Macs \cup {0}, seq : wire \cup {0}] :
     /\ f.kind = "arp" <=> f.mac # 0
     /\ f.kind = "pong" <=> f.seq # 0
     /\ f.kind \in {"pong", "fragment"} => f.host = CHOOSE h \in Hosts : TRUE}

\* A frame is written to the next descriptor the card owns.
CardReceives ==
  /\ Len(arrived) < MaxFrames /\ rdh # rdt
  /\ \E f \in Frame(Len(arrived) + 1) :
       /\ ring' = [ring EXCEPT ![rdh] = [dd |-> TRUE, frame |-> f]]
       /\ arrived' = Append(arrived, f)
  /\ rdh' = (rdh + 1) % N_RX
  /\ UNCHANGED <<rdt, cur, handed, stack, arp, ping, handled, replies, wire>>

----------------------------------------------------------------------------
(* The calls.  A call has a program counter, the frame it is about (for    *)
(* ip_send the destination is its host), the descriptor the frame is in    *)
(* and, for net_ping, its sequence number.                                 *)

Call(pc, f, slot, seq) == [pc |-> pc, frame |-> f, slot |-> slot, seq |-> seq]
Poll == Call("poll", None, N_RX, 0)
Top == stack[1]
At(pc) == stack # << >> /\ Top.pc = pc
Goto(pc) == stack' = [stack EXCEPT ![1].pc = pc]
Return == stack' = Tail(stack)

\* The idle loop of the console pumps the stack.
net_poll == stack = << >> /\ stack' = <<Poll>> /\ UNCHANGED <<driver, rdh, arp, ping, hidden>>

NextSlot(i) == (i + 1) % N_RX

\* e1000_rx_poll first returns the frame it handed out before to the card.
Cleared_KeepsStatus(i) == ring
Cleared(i) == [ring EXCEPT ![i].dd = FALSE]
rx_recycle_handed ==
  /\ At("poll") /\ Goto("scan")
  /\ ring' = IF handed = N_RX THEN ring ELSE Cleared(handed)
  /\ rdt' = IF handed = N_RX THEN rdt ELSE handed
  /\ handed' = N_RX
  /\ UNCHANGED <<rdh, cur, arp, ping, hidden>>

\* It finds a whole frame, and net_poll calls ether_input on it ...
RxFrame ==
  /\ At("scan") /\ ring[cur].dd /\ ring[cur].frame.kind # "fragment"
  /\ handed' = cur /\ cur' = NextSlot(cur)
  /\ handled' = Append(handled, ring[cur].frame)
  /\ stack' = <<Call("input", ring[cur].frame, cur, 0), Poll>> \o Tail(stack)
  /\ UNCHANGED <<ring, rdh, rdt, arp, ping, arrived, replies, wire>>

\* ... or a fragment, which it drops, returning the descriptor at once ...
RxFragment_KeepsDescriptor ==
  /\ At("scan") /\ ring[cur].dd /\ ring[cur].frame.kind = "fragment"
  /\ ring' = Cleared(cur) /\ cur' = NextSlot(cur)
  /\ handled' = Append(handled, ring[cur].frame)
  /\ UNCHANGED <<rdh, rdt, handed, stack, arp, ping, arrived, replies, wire>>
RxFragment ==
  /\ At("scan") /\ ring[cur].dd /\ ring[cur].frame.kind = "fragment"
  /\ ring' = Cleared(cur) /\ rdt' = cur /\ cur' = NextSlot(cur)
  /\ handled' = Append(handled, ring[cur].frame)
  /\ UNCHANGED <<rdh, handed, stack, arp, ping, arrived, replies, wire>>

\* ... or nothing: net_poll returns (its tcp_tick is in TcpConnection).
RxEmpty ==
  /\ At("scan") /\ ~ring[cur].dd /\ Return
  /\ UNCHANGED <<driver, rdh, arp, ping, hidden>>

\* The handlers read the frame from its buffer.
Buffer == ring[Top.slot].frame

arp_input ==
  /\ At("input") /\ Buffer.kind = "arp" /\ Return
  /\ arp_insert(Buffer.host, Buffer.mac)
  /\ UNCHANGED <<driver, rdh, ping, arrived, handled, replies, wire>>

\* An echo request: the reply is copied from the buffer, then ip_send.
EchoRequest ==
  /\ At("input") /\ Buffer.kind = "echo"
  /\ stack' = <<Call("send", Buffer, Top.slot, 0), Call("reply", Top.frame, Top.slot, 0)>> \o Tail(stack)
  /\ UNCHANGED <<driver, rdh, arp, ping, hidden>>

\* An echo reply counts if it answers the ping in progress.
Matches_Any(s) == TRUE
Matches(s) == s = ping.seq
EchoReply ==
  /\ At("input") /\ Buffer.kind = "pong" /\ Return
  /\ ping' = [ping EXCEPT !.got = @ \/ Matches(Buffer.seq)]
  /\ UNCHANGED <<driver, rdh, arp, hidden>>

\* net_ping: a new sequence number, then ip_send.
net_ping ==
  /\ stack = << >> /\ ping.seq < MaxPings
  /\ ping' = [seq |-> ping.seq + 1, got |-> FALSE, result |-> "none"]
  /\ \E h \in Hosts :
       stack' = <<Call("send", [None EXCEPT !.host = h], N_RX, 0), Call("pinged", None, N_RX, ping.seq + 1)>>
  /\ UNCHANGED <<driver, rdh, arp, hidden>>

\* What ip_send sends as the reply: the copy it was given.
Content_FromBuffer == ring[Top.slot].frame
Content == Top.frame

\* The datagram goes out and the caller, stack[2], goes on.
ip_emit ==
  IF stack[2].pc = "reply"
  THEN /\ replies' = Append(replies, <<stack[2].frame, Content>>)
       /\ stack' = SubSeq(stack, 3, Len(stack))
       /\ UNCHANGED <<driver, rdh, arp, ping, arrived, handled, wire>>
  ELSE /\ wire' = wire \cup {stack[2].seq}
       /\ stack' = <<[stack[2] EXCEPT !.pc = "pong"]>>
       /\ UNCHANGED <<driver, rdh, arp, ping, arrived, handled, replies>>

\* arp_resolve finds the host in the cache, or sends a request ...
Resolved == At("send") /\ arp_lookup(Top.frame.host) /\ ip_emit
ArpRequest ==
  /\ At("send") /\ ~arp_lookup(Top.frame.host) /\ Goto("wait")
  /\ UNCHANGED <<driver, rdh, arp, ping, hidden>>

\* ... pumps net_poll and looks again ...
ArpPolls ==
  /\ At("wait")
  /\ stack' = <<Poll, [Top EXCEPT !.pc = "test"]>> \o Tail(stack)
  /\ UNCHANGED <<driver, rdh, arp, ping, hidden>>
ArpAnswered == At("test") /\ arp_lookup(Top.frame.host) /\ ip_emit
ArpWaits ==
  /\ At("test") /\ ~arp_lookup(Top.frame.host) /\ Goto("wait")
  /\ UNCHANGED <<driver, rdh, arp, ping, hidden>>

\* ... until the deadline: ip_send fails, and with it the reply or the ping.
ArpTimeout_Retries == At("wait") /\ Goto("send") /\ UNCHANGED <<driver, rdh, arp, ping, hidden>>
ArpTimeout ==
  /\ At("wait")
  /\ stack' = SubSeq(stack, 3, Len(stack))
  /\ ping' = IF stack[2].pc = "pinged" THEN [ping EXCEPT !.result = "failed"] ELSE ping
  /\ UNCHANGED <<driver, rdh, arp, hidden>>

\* e1000_tx does not see the frame confirmed, whether it went out or not.
TxUnconfirmed ==
  /\ At("send") \/ At("test")
  /\ arp_lookup(Top.frame.host)
  /\ stack' = SubSeq(stack, 3, Len(stack))
  /\ IF stack[2].pc = "pinged"
     THEN /\ ping' = [ping EXCEPT !.result = "failed"]
          /\ wire' \in {wire, wire \cup {stack[2].seq}}
          /\ UNCHANGED replies
     ELSE /\ replies' \in {replies, Append(replies, <<stack[2].frame, Content>>)}
          /\ UNCHANGED <<ping, wire>>
  /\ UNCHANGED <<driver, rdh, arp, arrived, handled>>

\* net_ping pumps net_poll until the reply, or its deadline, has come.
PingPolls ==
  /\ At("pong") /\ ~ping.got
  /\ stack' = <<Poll, [Top EXCEPT !.pc = "polled"]>>
  /\ UNCHANGED <<driver, rdh, arp, ping, hidden>>
PingAgain == At("polled") /\ Goto("pong") /\ UNCHANGED <<driver, rdh, arp, ping, hidden>>
PingTimeout ==
  /\ At("polled") /\ Return
  /\ ping' = [ping EXCEPT !.result = "failed"]
  /\ UNCHANGED <<driver, rdh, arp, hidden>>
PingReturns ==
  /\ At("pong") /\ ping.got /\ Return
  /\ ping' = [ping EXCEPT !.result = "answered"]
  /\ UNCHANGED <<driver, rdh, arp, hidden>>

----------------------------------------------------------------------------
Init ==
  /\ ring = [i \in Slots |-> [dd |-> FALSE, frame |-> None]]
  /\ rdh = 0 /\ rdt = N_RX - 1 /\ cur = 0 /\ handed = N_RX
  /\ stack = << >>
  /\ arp = [i \in 0 .. ARP_ENTRIES - 1 |-> NoEntry]
  /\ ping = [seq |-> 0, got |-> FALSE, result |-> "none"]
  /\ arrived = << >> /\ handled = << >> /\ replies = << >> /\ wire = {}

Step ==
  \/ rx_recycle_handed \/ RxFrame \/ RxFragment \/ RxEmpty
  \/ arp_input \/ EchoRequest \/ EchoReply
  \/ Resolved \/ ArpRequest \/ ArpPolls \/ ArpAnswered \/ ArpWaits \/ ArpTimeout \/ TxUnconfirmed
  \/ PingPolls \/ PingAgain \/ PingTimeout \/ PingReturns

Next == CardReceives \/ net_poll \/ net_ping \/ Step

\* The processor runs the call it is in, and the deadlines of the waits pass.
Fairness == WF_vars(Step) /\ SF_vars(ArpTimeout) /\ SF_vars(PingTimeout)

Spec == Init /\ [][Next]_vars /\ Fairness

----------------------------------------------------------------------------
(* Properties.                                                             *)

\* How many places a descriptor is after the one RDH names.
After(i) == (i + N_RX - rdh) % N_RX

(* Every frame the card stored is taken once and in order, however the     *)
(* polls nest and wherever the ring wraps, and no descriptor is lost to    *)
(* the card: those after RDT, and no others, hold a frame the driver has   *)
(* not returned, so the card owns all the rest but the one at RDT, which   *)
(* is kept back so that a full ring does not look empty (e1000_rx_poll,    *)
(* rx_recycle_handed).                                                     *)
RingSound ==
  /\ Len(handled) <= Len(arrived) /\ handled = SubSeq(arrived, 1, Len(handled))
  /\ \A i \in Slots : ring[i].dd <=> After(i) > After(rdt)

(* An echo reply carries the request it answers, though arp_resolve may    *)
(* pump net_poll, and the card reuse the buffer, before the reply is sent; *)
(* and net_ping reports an answer only if the reply to this ping was       *)
(* taken, not a late or duplicate reply to an earlier one (icmp_input).    *)
RepliesMatch ==
  /\ \A i \in DOMAIN replies : replies[i][1] = replies[i][2]
  /\ ping.result = "answered" => \E i \in DOMAIN handled : handled[i].seq = ping.seq

(* Nested polls unwind: a call made of the stack returns.                  *)
PollsReturn == (stack # << >>) ~> (stack = << >>)
=============================================================================
