--------------------------- MODULE TcpConnection ---------------------------
(***************************************************************************)
(* The TCP of src/src/tcp.c: two machines running it, one that connects    *)
(* and one that listens, over a network that may lose, duplicate and       *)
(* reorder segments.  A call that waits (connect, accept, send, close, and *)
(* recv while the handle is open) pumps net_poll: segments are taken and   *)
(* timers run only then.  Sequence numbers are counted modulo SeqSpace.    *)
(* snd_una is never read by the code and the window never obeyed, so       *)
(* neither is in the model.  A stream is the numbers 1, 2, 3 ...           *)
(***************************************************************************)
EXTENDS Naturals, Sequences

CONSTANTS SeqSpace,     \* sequence numbers (code: 2^32)
          Isn,          \* the first of each machine, e.g. close to the wrap
          TCP_MSS, TCP_MAX_RETX,
          Total,        \* how much each machine has to send
          Circumstances \* what a connection may have to live with

(* One circumstance:                                                       *)
(*   rxbuf      TCP_RXBUF                                                  *)
(*   closers    the machines that close a connection in use                *)
(*   losses     segments the network may lose                              *)
(*   copies     segments it may deliver twice                              *)
(*   resets     RSTs a peer's host may answer with                         *)
(*   deadlines  calls may run into their deadline                          *)
(*   arpMiss    ip_send may have to ask for the peer's address first       *)
(*   patient    a timer outlasts what is in flight                         *)
(*   eager      and a connected client that has something to say           *)

Machines == {"client", "server"}
Peer(e) == IF e = "client" THEN "server" ELSE "client"

ASSUME TcpAssumption ==
  /\ SeqSpace \in Nat /\ SeqSpace > 3 /\ Isn \in [Machines -> 0 .. SeqSpace - 1]
  /\ TCP_MSS \in Nat \ {0} /\ TCP_MAX_RETX \in Nat /\ Total \in [Machines -> Nat]
  /\ \A x \in Circumstances :
       /\ x.rxbuf \in Nat \ {0} /\ x.closers \subseteq Machines /\ {x.losses, x.copies, x.resets} \subseteq Nat
       /\ {x.deadlines, x.arpMiss, x.patient, x.eager} \subseteq BOOLEAN

VARIABLES with,   \* the circumstances of this behaviour
          conn,   \* struct tcp_conn of each machine
          net,    \* segments under way
          lost,   \* segments lost, copied and refused so far
          call,   \* the call each machine is in
          held,   \* a segment that waits for ARP inside tcp_emit
          said,   \* how much of its stream each machine has emitted
          chunk,  \* the part of it that net_tcp_send is sending
          told,   \* what net_tcp_send reported as sent
          got,    \* what net_tcp_recv returned
          eof     \* net_tcp_recv returned 0

state == <<conn, net, lost, call, held, said, chunk, told, got, eof>>
vars == <<with, state>>

NoSegment == [to |-> "none"]
Plus(a, n) == (a + n) % SeqSpace
seq_lt(a, b) == (a + SeqSpace - b) % SeqSpace >= SeqSpace \div 2

Segment(e, c, flags, data) ==
  [to |-> Peer(e), flags |-> flags, seq |-> c.snd_nxt, ack |-> c.rcv_nxt, data |-> data]

Blank == [in_use |-> FALSE, state |-> "CLOSED", snd_nxt |-> 0, rcv_nxt |-> 0,
          peer_fin |-> FALSE, rx |-> << >>, retx |-> NoSegment, retx_seq |-> 0, tries |-> 0]

Init ==
  /\ with \in Circumstances
  /\ conn = [e \in Machines |-> Blank] /\ net = {} /\ lost = [losses |-> 0, copies |-> 0, resets |-> 0]
  /\ call = [e \in Machines |-> "none"] /\ held = [e \in Machines |-> NoSegment]
  /\ said = [e \in Machines |-> 0] /\ chunk = [e \in Machines |-> {}]
  /\ told = [e \in Machines |-> {}] /\ got = [e \in Machines |-> << >>]
  /\ eof = [e \in Machines |-> FALSE]

----------------------------------------------------------------------------
(* tcp_emit.  The segment is recorded for retransmission before it is      *)
(* handed to ip_send.                                                      *)

\* The connection after tcp_emit(c, flags, data) with data, SYN or FIN.
Emitted(e, c, flags, data) ==
  LET end == Plus(c.snd_nxt, Len(data) + (IF flags \cap {"SYN", "FIN"} # {} THEN 1 ELSE 0))
  IN  [c EXCEPT !.retx = Segment(e, c, flags, data), !.retx_seq = end,
                !.snd_nxt = end, !.tries = 0]

\* ip_send: at once, or after arp_resolve has pumped net_poll.
EmitNow(e, c, flags, data, to) ==
  /\ conn' = [conn EXCEPT ![e] = Emitted(e, c, flags, data)]
  /\ net' = net \cup {Segment(e, c, flags, data)}
  /\ call' = [call EXCEPT ![e] = to]
  /\ UNCHANGED held

EmitLater(e, c, flags, data, to) ==
  /\ with.arpMiss
  /\ conn' = [conn EXCEPT ![e] = Emitted(e, c, flags, data)]
  /\ held' = [held EXCEPT ![e] = Segment(e, c, flags, data)]
  /\ call' = [call EXCEPT ![e] = to]
  /\ UNCHANGED net

\* arp_resolve ends: with the address the segment is sent, without it is not.
ResolveEnds(e) ==
  /\ held[e] # NoSegment
  /\ net' \in {net, net \cup {held[e]}}
  /\ held' = [held EXCEPT ![e] = NoSegment]
  /\ call' = [call EXCEPT ![e] = CASE call[e] = "connect arp" -> "connect test"
                                   [] call[e] = "send arp" -> "send test"
                                   [] OTHER -> "close"]
  /\ conn' = IF call[e] = "close arp" THEN [conn EXCEPT ![e].state = "FIN_WAIT"] ELSE conn
  /\ UNCHANGED <<lost, said, chunk, told, got, eof>>

----------------------------------------------------------------------------
(* tcp_input.                                                              *)

Acknowledges_Any(s, c) == "ACK" \in s.flags

Acknowledges(s, c) == "ACK" \in s.flags /\ ~seq_lt(s.ack, c.retx_seq)

InOrder_Anywhere(s, c) == s.data # << >> /\ Len(c.rx) + Len(s.data) <= with.rxbuf

InOrder(s, c) ==
  s.data # << >> /\ s.seq = c.rcv_nxt /\ Len(c.rx) + Len(s.data) <= with.rxbuf

Ends_Anywhere(s, c) == "FIN" \in s.flags

Ends(s, c) == "FIN" \in s.flags /\ Plus(s.seq, Len(s.data)) = c.rcv_nxt

AcksData_NewOnly(s, c) == InOrder(s, c)

\* Data is acknowledged whether it was taken or not.
AcksData(s, c) == s.data # << >>

\* What a segment does to a known connection, step by step: the acknowledgement,
\* the end of a passive open, the data, the FIN, the end of FIN_WAIT.
Acked(c, s) == IF Acknowledges(s, c) THEN [c EXCEPT !.retx = NoSegment] ELSE c

Accepted(c, s) ==
  IF c.state = "SYN_RCVD" /\ "ACK" \in s.flags /\ c.retx = NoSegment
  THEN [c EXCEPT !.state = "ESTABLISHED"] ELSE c

Filled(c, s) ==
  IF InOrder(s, c) THEN [c EXCEPT !.rx = @ \o s.data, !.rcv_nxt = Plus(@, Len(s.data))] ELSE c

Ended(c, s) ==
  IF Ends(s, c)
  THEN [c EXCEPT !.rcv_nxt = Plus(@, 1), !.peer_fin = TRUE,
                 !.state = IF @ = "FIN_WAIT" THEN "DONE" ELSE @] ELSE c

Finished(c) ==
  IF c.state = "FIN_WAIT" /\ c.retx = NoSegment /\ c.peer_fin THEN [c EXCEPT !.state = "DONE"] ELSE c

\* The connection after all of them and the states in which tcp_ack was called.
Input(c, s) ==
  LET c2 == Accepted(Acked(c, s), s)
      open == [c2 EXCEPT !.rcv_nxt = Plus(s.seq, 1), !.state = "ESTABLISHED"]
      c3 == Filled(c2, s)
      c4 == Ended(c3, s)
  IN  IF "RST" \in s.flags THEN <<[c EXCEPT !.state = "DONE", !.retx = NoSegment], {}>>
      ELSE IF c2.state = "SYN_SENT"
           THEN IF {"SYN", "ACK"} \subseteq s.flags THEN <<open, {open}>> ELSE <<c2, {}>>
           ELSE <<Finished(c4), (IF AcksData(s, c2) THEN {c3} ELSE {})
                                  \cup (IF Ends(s, c3) THEN {c4} ELSE {})>>

\* The connection and the segments sent after tcp_input.  A listener takes a SYN
\* from a stranger; to a machine without the connection anything else is nothing.
tcp_input(e, s) ==
  LET c == conn[e]
      passive == [c EXCEPT !.rcv_nxt = Plus(s.seq, 1), !.snd_nxt = Isn[e], !.state = "SYN_RCVD"]
  IN  IF ~c.in_use \/ (c.state = "LISTEN" /\ "SYN" \notin s.flags) THEN <<c, {}>>
      ELSE IF c.state = "LISTEN"
           THEN <<Emitted(e, passive, {"SYN", "ACK"}, << >>),
                  {Segment(e, passive, {"SYN", "ACK"}, << >>)}>>
           ELSE LET r == Input(c, s)
                IN  <<r[1], {Segment(e, d, {"ACK"}, << >>) : d \in r[2]}>>

\* net_poll runs inside waiting calls, and inside arp_resolve.
Polls(e) == call[e] \in {"connect", "accept", "send", "open", "close",
                         "connect arp", "send arp", "close arp"}

Deliver(e) ==
  /\ Polls(e)
  /\ \E s \in net :
       /\ s.to = e
       /\ \E again \in {n \in {0, 1} : n = 0 \/ lost.copies < with.copies} :
            /\ conn' = [conn EXCEPT ![e] = tcp_input(e, s)[1]]
            /\ net' = (IF again = 1 THEN net ELSE net \ {s}) \cup tcp_input(e, s)[2]
            /\ lost' = [lost EXCEPT !.copies = @ + again]
  /\ UNCHANGED <<call, held, said, chunk, told, got, eof>>

\* The client is connected and is about to send.
HasToSay == /\ conn["client"].state = "ESTABLISHED" /\ said["client"] < Total["client"]
            /\ call["client"] \in {"connect test", "connect", "open"}

\* tcp_tick for a timer that has run out.  Inside arp_resolve the retransmission
\* has to be resolved as well and may stay behind.
tcp_tick(e) ==
  LET c == conn[e]
  IN  /\ Polls(e) /\ c.in_use /\ c.retx # NoSegment
      /\ with.patient => net = {}
      /\ with.eager => ~HasToSay
      /\ IF c.tries >= TCP_MAX_RETX
         THEN /\ conn' = [conn EXCEPT ![e].state = "DONE", ![e].retx = NoSegment]
              /\ UNCHANGED net
         ELSE /\ conn' = [conn EXCEPT ![e].tries = @ + 1]
              /\ net' \in {net \cup {c.retx}} \cup (IF held[e] # NoSegment THEN {net} ELSE {})
      /\ UNCHANGED <<lost, call, held, said, chunk, told, got, eof>>

----------------------------------------------------------------------------
(* The calls.                                                              *)

Return(e, to) == call' = [call EXCEPT ![e] = to] /\ UNCHANGED <<net, lost, held, said, chunk, told, got, eof>>

net_tcp_connect ==
  /\ call["client"] = "none"
  /\ LET c == [Blank EXCEPT !.in_use = TRUE, !.state = "SYN_SENT", !.snd_nxt = Isn["client"]]
     IN  \/ EmitNow("client", c, {"SYN"}, << >>, "connect test")
         \/ EmitLater("client", c, {"SYN"}, << >>, "connect arp")
  /\ UNCHANGED <<lost, said, chunk, told, got, eof>>

\* while (c->state == TCP_SYN_SENT): the test, and the poll with its own test.
ConnectTest ==
  /\ call["client"] = "connect test"
  /\ Return("client", IF conn["client"].state = "SYN_SENT" THEN "connect" ELSE "open")
  /\ UNCHANGED conn

ConnectPolled_AnyStateButSynSent ==
  /\ call["client"] = "connect"
  /\ conn["client"].state # "SYN_SENT"
  /\ Return("client", "open") /\ UNCHANGED conn

ConnectPolled ==
  /\ call["client"] = "connect"
  /\ LET failed == conn["client"].state = "DONE"
     IN  \/ /\ failed \/ with.deadlines
            /\ conn' = [conn EXCEPT !["client"].in_use = FALSE]
            /\ Return("client", "failed")
         \/ /\ ~failed /\ conn["client"].state # "SYN_SENT"
            /\ Return("client", "open") /\ UNCHANGED conn

net_tcp_listen ==
  /\ call["server"] = "none"
  /\ conn' = [conn EXCEPT !["server"] = [Blank EXCEPT !.in_use = TRUE, !.state = "LISTEN"]]
  /\ Return("server", "accept")

\* net_tcp_accept gives up, or returns a connected handle; the caller closes the
\* handle it could not accept on.
net_tcp_accept ==
  /\ call["server"] = "accept"
  /\ LET st == conn["server"].state
     IN  \/ st = "ESTABLISHED" /\ Return("server", "open") /\ UNCHANGED conn
         \/ /\ st = "DONE" \/ with.deadlines
            /\ conn' = [conn EXCEPT !["server"].in_use = FALSE]
            /\ Return("server", "failed")

\* One segment of net_tcp_send.
net_tcp_send(e) ==
  /\ call[e] = "open" /\ conn[e].state = "ESTABLISHED" /\ said[e] < Total[e]
  /\ \E n \in 1 .. TCP_MSS :
       /\ said[e] + n <= Total[e]
       /\ said' = [said EXCEPT ![e] = @ + n]
       /\ chunk' = [chunk EXCEPT ![e] = said[e] + 1 .. said[e] + n]
       /\ LET data == [i \in 1 .. n |-> said[e] + i]
          IN  \/ EmitNow(e, conn[e], {"ACK", "PSH"}, data, "send test")
              \/ EmitLater(e, conn[e], {"ACK", "PSH"}, data, "send arp")
  /\ UNCHANGED <<lost, told, got, eof>>

\* while (c->retx_len != 0): the test, and the poll with its own tests.  A chunk
\* counts as sent when the loop ends.
SendTest(e) ==
  /\ call[e] = "send test" \/ (call[e] = "send" /\ conn[e].state # "DONE")
  /\ IF conn[e].retx = NoSegment
     THEN /\ told' = [told EXCEPT ![e] = @ \cup chunk[e]]
          /\ call' = [call EXCEPT ![e] = "open"]
     ELSE /\ call[e] = "send test"
          /\ call' = [call EXCEPT ![e] = "send"] /\ UNCHANGED told
  /\ UNCHANGED <<conn, net, lost, held, said, chunk, got, eof>>

SendGivesUp(e) ==
  /\ call[e] = "send" /\ (conn[e].state = "DONE" \/ with.deadlines)
  /\ Return(e, "open") /\ UNCHANGED conn

\* net_tcp_recv: some of what is buffered, or 0 when nothing more will come.
RecvData(e) ==
  /\ call[e] = "open" /\ conn[e].rx # << >>
  /\ \E n \in {1, Len(conn[e].rx)} :
       /\ got' = [got EXCEPT ![e] = @ \o SubSeq(conn[e].rx, 1, n)]
       /\ conn' = [conn EXCEPT ![e].rx = SubSeq(@, n + 1, Len(@))]
  /\ UNCHANGED <<net, lost, call, held, said, chunk, told, eof>>

RecvEnd(e) ==
  /\ call[e] = "open" /\ conn[e].rx = << >> /\ ~eof[e]
  /\ conn[e].peer_fin \/ conn[e].state = "DONE"
  /\ eof' = [eof EXCEPT ![e] = TRUE]
  /\ UNCHANGED <<conn, net, lost, call, held, said, chunk, told, got>>

\* net_tcp_close by a caller that has nothing more to send: FIN, then wait.
net_tcp_close(e) ==
  /\ call[e] = "open"
  /\ \/ /\ conn[e].state = "ESTABLISHED" /\ said[e] = Total[e] /\ e \in with.closers
        /\ \/ EmitNow(e, [conn[e] EXCEPT !.state = "FIN_WAIT"], {"FIN", "ACK"}, << >>, "close")
           \/ EmitLater(e, conn[e], {"FIN", "ACK"}, << >>, "close arp")
        /\ UNCHANGED <<lost, said, chunk, told, got, eof>>
     \/ /\ conn[e].state # "ESTABLISHED"
        /\ conn' = [conn EXCEPT ![e].in_use = FALSE]
        /\ Return(e, "closed")

CloseEnds(e) ==
  /\ call[e] = "close" /\ (conn[e].state # "FIN_WAIT" \/ with.deadlines)
  /\ conn' = [conn EXCEPT ![e].in_use = FALSE]
  /\ Return(e, "closed")

----------------------------------------------------------------------------
(* The network.                                                            *)

Lose ==
  /\ lost.losses < with.losses
  /\ \E s \in net : net' = net \ {s}
  /\ lost' = [lost EXCEPT !.losses = @ + 1]
  /\ UNCHANGED <<conn, call, held, said, chunk, told, got, eof>>

\* The peer's host has forgotten the connection, or never had it.
Refuse(e) ==
  /\ lost.resets < with.resets /\ conn[e].in_use
  /\ net' = net \cup {[to |-> e, flags |-> {"RST"}, seq |-> 0, ack |-> 0, data |-> << >>]}
  /\ lost' = [lost EXCEPT !.resets = @ + 1]
  /\ UNCHANGED <<conn, call, held, said, chunk, told, got, eof>>

Calls ==
  \/ net_tcp_connect \/ ConnectTest \/ ConnectPolled \/ net_tcp_listen \/ net_tcp_accept
  \/ \E e \in Machines : SendTest(e) \/ SendGivesUp(e)

Next ==
  /\ \/ Calls
     \/ \E e \in Machines : \/ net_tcp_send(e) \/ RecvData(e) \/ RecvEnd(e) \/ net_tcp_close(e)
                           \/ CloseEnds(e) \/ ResolveEnds(e)
                           \/ Deliver(e) \/ tcp_tick(e) \/ Refuse(e)
     \/ Lose
  /\ UNCHANGED with

\* A waiting call goes on polling: it takes what arrives and runs its timer.
Spec == /\ Init /\ [][Next]_vars
        /\ WF_state(Calls)
        /\ \A e \in Machines : WF_state(Deliver(e)) /\ WF_state(tcp_tick(e)) /\ WF_state(RecvData(e))

----------------------------------------------------------------------------
Received(e) == got[e] \o conn[e].rx
Stream(n) == [i \in 1 .. n |-> i]

\* What a machine receives is what its peer sent, in order, once, without a gap,
\* through losses, copies, reordering and the wrap of the sequence numbers.
StreamsInOrder ==
  \A e \in Machines : /\ Len(Received(e)) <= said[Peer(e)]
                       /\ Received(e) = Stream(Len(Received(e)))

\* What net_tcp_send reports as sent has reached the peer: it returns "the number
\* of bytes acknowledged".  Not so when the connection ends while ip_send waits
\* for ARP: the wait for the acknowledgement is then never entered.
SentMeansReceived ==
  ~with.arpMiss =>
    \A e \in Machines : told[e] \subseteq {Received(Peer(e))[i] : i \in 1 .. Len(Received(Peer(e)))}

\* net_tcp_recv returns 0 only "at clean end-of-stream": the peer has closed and
\* everything it sent has been read.  A reset, or a timer that gives up on a
\* peer that is there, looks the same to the caller.
EndMeansEnd ==
  with.patient /\ with.resets = 0 =>
    \A e \in Machines : eof[e] => /\ got[e] = Stream(said[Peer(e)])
                                  /\ call[Peer(e)] \in {"close arp", "close", "closed"}

\* net_tcp_connect "performs the 3-way handshake [...] and returns a connection
\* handle (>= 0), or -1": when it returns a handle the connection is established
\* and both machines agree on where the streams start.  Not so when the timer
\* gives up inside ARP, before the state is first looked at.
HandshakeAgrees ==
  [][~with.arpMiss /\ call["client"] \in {"connect test", "connect"} /\ call'["client"] = "open"
       => LET c == conn["client"]
          IN  /\ c.state # "DONE"
              /\ conn["server"].rcv_nxt = Plus(Isn["client"], 1)
              /\ c.rcv_nxt = Plus(Isn["server"], 1 + Len(c.rx) + (IF c.peer_fin THEN 1 ELSE 0))]_vars

\* A lost segment does not stop a send of a client that speaks first, unless the
\* peer closes.  A silent client may lose the connection: nothing repeats the
\* last ACK of the handshake.
SendSucceeds ==
  (with.losses > 0 /\ call["client"] = "send")
    ~> \/ call["client"] = "open" /\ told["client"] = 1 .. said["client"]
       \/ call["server"] \in {"close", "closed"}
=============================================================================
