----------------------------- MODULE TcpProofs ------------------------------
(***************************************************************************)
(* The inductive invariant of TcpConnection for every sequence space,      *)
(* segment size, number of retransmissions and streams that are short for  *)
(* the space, and what each kind of step does to it: one that says nothing *)
(* new, one that opens, one that speaks, and one that takes a segment.     *)
(***************************************************************************)
EXTENDS TcpConnection, TLAPS

\* Each stream, its SYN and its FIN take at most half of the sequence numbers: 2 GB
\* for the 32 bits of the code.  Nothing in the code keeps a segment from arriving
\* after the numbers have come round.
Short == \A e \in Machines : 2 * (Total[e] + 2) <= SeqSpace

\* The arithmetic of sequence numbers: offsets below SeqSpace are told apart, also
\* across the wrap, and those less than half of it apart are ordered by seq_lt.
LEMMA PlusIs ==
  ASSUME NEW a \in 0 .. SeqSpace - 1, NEW n \in 0 .. SeqSpace
  PROVE  /\ Plus(a, n) \in 0 .. SeqSpace - 1
         /\ Plus(a, n) = IF a + n < SeqSpace THEN a + n ELSE a + n - SeqSpace
  BY TcpAssumption DEF Plus

\* Offsets add up as long as their sum does not go round.
LEMMA PlusPlus ==
  ASSUME NEW a \in 0 .. SeqSpace - 1, NEW m \in Nat, NEW n \in Nat, m + n < SeqSpace
  PROVE  Plus(Plus(a, m), n) = Plus(a, m + n)
  <1>0. m \in 0 .. SeqSpace /\ n \in 0 .. SeqSpace /\ m + n \in 0 .. SeqSpace
    BY TcpAssumption
  <1>1. Plus(a, m) \in 0 .. SeqSpace - 1 /\ Plus(a, m) = IF a + m < SeqSpace THEN a + m ELSE a + m - SeqSpace
    BY <1>0, PlusIs, Zenon
  <1>. DEFINE b == Plus(a, m)
  <1>. HIDE DEF b
  <1>2. b \in 0 .. SeqSpace - 1 => Plus(b, n) = IF b + n < SeqSpace THEN b + n ELSE b + n - SeqSpace
    BY <1>0, PlusIs, Zenon
  <1>3. Plus(a, m + n) = IF a + (m + n) < SeqSpace THEN a + (m + n) ELSE a + (m + n) - SeqSpace
    BY <1>0, PlusIs, Zenon
  <1>. QED BY <1>0, <1>1, <1>2, <1>3, TcpAssumption DEF b

\* Two offsets below SeqSpace from the same start give different numbers.
LEMMA PlusInjective ==
  ASSUME NEW a \in 0 .. SeqSpace - 1, NEW m \in Nat, NEW n \in Nat, m < SeqSpace, n < SeqSpace,
         Plus(a, m) = Plus(a, n)
  PROVE  m = n
  <1>1. m \in 0 .. SeqSpace /\ n \in 0 .. SeqSpace
    BY TcpAssumption
  <1>2. /\ Plus(a, m) = IF a + m < SeqSpace THEN a + m ELSE a + m - SeqSpace
        /\ Plus(a, n) = IF a + n < SeqSpace THEN a + n ELSE a + n - SeqSpace
    BY <1>1, PlusIs, Zenon
  <1>3. (IF a + m < SeqSpace THEN a + m ELSE a + m - SeqSpace)
          = (IF a + n < SeqSpace THEN a + n ELSE a + n - SeqSpace)
    BY <1>2, Zenon
  <1>. QED BY <1>3, TcpAssumption

\* seq_lt orders two offsets from the same start in the lower half of the space.
LEMMA SeqOrder ==
  ASSUME NEW a \in 0 .. SeqSpace - 1, NEW m \in Nat, NEW n \in Nat, m < n, 2 * n <= SeqSpace
  PROVE  seq_lt(Plus(a, m), Plus(a, n))
  <1>1. /\ Plus(a, m) = IF a + m < SeqSpace THEN a + m ELSE a + m - SeqSpace
        /\ Plus(a, n) = IF a + n < SeqSpace THEN a + n ELSE a + n - SeqSpace
    BY PlusIs, TcpAssumption
  <1>2. Plus(a, m) + SeqSpace - Plus(a, n) \in {SeqSpace - (n - m), 2 * SeqSpace - (n - m)}
    BY <1>1, TcpAssumption
  <1>. DEFINE d == Plus(a, m) + SeqSpace - Plus(a, n)
  <1>. HIDE DEF d
  <1>3. d = SeqSpace - (n - m) => d % SeqSpace = SeqSpace - (n - m)
    BY TcpAssumption
  <1>4. d = 2 * SeqSpace - (n - m) => d % SeqSpace = SeqSpace - (n - m)
    BY TcpAssumption
  <1>5. SeqSpace - (n - m) >= SeqSpace \div 2
    BY TcpAssumption
  <1>. QED BY <1>2, <1>3, <1>4, <1>5, Zenon DEF seq_lt, d

\* The segments of a machine that are under way or may be sent again.
From(e) == {s \in net : s.to = Peer(e)} \cup ({conn[e].retx, held[e]} \ {NoSegment})

\* How much of the peer's stream a machine has counted: the FIN counts as one.
Fin(e) == IF conn[e].peer_fin THEN 1 ELSE 0
Count(e) == Len(Received(e)) + Fin(e)

\* The calls and the states by how far the connection is.
Closing == {"close arp", "close"}
Unopened == {"CLOSED", "LISTEN"}
Early == {"CLOSED", "LISTEN", "SYN_SENT", "SYN_RCVD"}
Before == {"none", "connect arp", "connect test", "connect", "accept", "failed"}

\* Types.
CallNames == Before \cup Closing \cup {"open", "send arp", "send test", "send", "closed"}
Flags == {"SYN", "ACK", "FIN", "RST", "PSH"}
States == {"CLOSED", "LISTEN", "SYN_SENT", "SYN_RCVD", "ESTABLISHED", "FIN_WAIT", "DONE"}
Segments == [to : Machines, flags : SUBSET Flags, seq : Nat, ack : Nat, data : Seq(Nat)]
Conns == [in_use : BOOLEAN, state : States, snd_nxt : Nat, rcv_nxt : Nat, peer_fin : BOOLEAN,
          rx : Seq(Nat), retx : Segments \cup {NoSegment}, retx_seq : Nat, tries : Nat]

Types ==
  /\ with \in Circumstances
  /\ conn \in [Machines -> Conns] /\ net \subseteq Segments
  /\ held \in [Machines -> Segments \cup {NoSegment}]
  /\ call \in [Machines -> CallNames]
  /\ said \in [Machines -> Nat] /\ \A e \in Machines : said[e] <= Total[e]
  /\ chunk \in [Machines -> SUBSET Nat] /\ \A e \in Machines : chunk[e] \subseteq 1 .. said[e]
  /\ told \in [Machines -> SUBSET Nat]
  /\ got \in [Machines -> Seq(Nat)]

\* A segment of machine e, however old: it carries a part of the stream in its place,
\* the FIN after the last of it, and acknowledges no more than was received.
SegOK(e, s) ==
  /\ s.to = Peer(e)
  /\ "RST" \notin s.flags => conn[e].state \notin Unopened
  /\ "SYN" \in s.flags => s.seq = Isn[e]
  /\ s.data # << >> => \E k \in 0 .. said[e] : /\ k + Len(s.data) <= said[e] /\ s.seq = Plus(Isn[e], 1 + k)
                                      /\ \A i \in 1 .. Len(s.data) : s.data[i] = k + i
  /\ "FIN" \in s.flags => /\ s.data = << >> /\ s.seq = Plus(Isn[e], 1 + said[e])
                          /\ call[e] \in Closing \cup {"closed"} /\ "RST" \notin s.flags
  /\ "ACK" \in s.flags => \E a \in 0 .. Count(e) : s.ack = Plus(Isn[Peer(e)], 1 + a)

\* What machine e sends from: the next number follows what was said, a segment waits
\* for ARP only inside a call, and everything under way is in order.
SndInv(e) ==
  /\ conn[e].state \in Early => said[e] = 0 /\ call[e] \notin Closing
  /\ conn[e].state \notin Unopened =>
       /\ conn[e].snd_nxt = conn[e].retx_seq
       /\ conn[e].in_use => conn[e].snd_nxt = Plus(Isn[e], 1 + said[e] + (IF call[e] \in Closing THEN 1 ELSE 0))
  /\ held[e] # NoSegment => call[e] \in {"connect arp", "send arp", "close arp"}
  /\ call[e] \in Before => got[e] = << >> /\ said[e] = 0
  /\ \A s \in From(e) : SegOK(e, s)

\* The machine expects what follows the part of the stream it has received.
Synced(e) ==
  /\ conn[e].state \notin Unopened \cup {"SYN_SENT"}
  /\ conn[e].rcv_nxt = Plus(Isn[Peer(e)], 1 + Count(e))

\* The machine has not heard of its peer yet, which has sent nothing but its SYN.
Virgin(e) ==
  /\ conn[e].state \in Unopened \cup {"SYN_SENT", "DONE"} /\ call[e] \notin Closing
  /\ Received(e) = << >> /\ ~conn[e].peer_fin
  /\ \A s \in From(e) : "ACK" \notin s.flags
  /\ conn[Peer(e)].state \in Early \cup {"DONE"} /\ said[Peer(e)] = 0 /\ call[Peer(e)] \notin Closing
  /\ \A s \in From(Peer(e)) : "FIN" \notin s.flags

\* What machine e has received is the beginning of what its peer has said, and all of
\* it once the FIN was taken.
RcvInv(e) ==
  /\ \A i \in 1 .. Len(Received(e)) : Received(e)[i] = i
  /\ Len(Received(e)) <= said[Peer(e)]
  /\ conn[e].peer_fin => Len(Received(e)) = said[Peer(e)] /\ call[Peer(e)] \in Closing \cup {"closed"}
  /\ Synced(e) \/ Virgin(e)

\* Which calls go with which states of the connection.
PlaceInv ==
  /\ conn["client"].state \notin {"LISTEN", "SYN_RCVD"}
  /\ \A e \in Machines : /\ call[e] = "none" <=> conn[e].state = "CLOSED"
                         /\ ~conn[e].in_use => call[e] \in {"none", "failed", "closed"}
                         /\ conn[e].retx # NoSegment => conn[e].state \notin Unopened

\* What is reported as sent was received.  Without a wait for ARP in tcp_emit, the loop
\* of net_tcp_send is entered with its segment unacknowledged and left when the
\* segment is acknowledged, and so received, or the connection is at its end.
AckInv(e) ==
  /\ told[e] \subseteq 1 .. Len(Received(Peer(e))) /\ held[e] = NoSegment
  /\ call[e] = "send test" => conn[e].retx # NoSegment
  /\ call[e] = "connect test" => conn[e].state = "SYN_SENT"
  /\ call[e] = "send" => \/ conn[e].retx # NoSegment \/ conn[e].state = "DONE"
                         \/ said[e] <= Len(Received(Peer(e)))

\* The inductive invariant.
TcpInv == /\ Types /\ PlaceInv
          /\ \A e \in Machines : SndInv(e) /\ RcvInv(e)
          /\ ~with.arpMiss => \A e \in Machines : AckInv(e)

----------------------------------------------------------------------------
(* tcp_input on one connection.                                            *)

\* There are two machines, each the peer of the other.
LEMMA PeerFacts ==
  \A e \in Machines : Peer(e) \in Machines /\ Peer(Peer(e)) = e /\ Peer(e) # e
                      /\ Machines = {e, Peer(e)}
  BY Zenon DEF Machines, Peer

\* retx_len = 0 is told apart from every segment kept for retransmission.
LEMMA NoSegmentFacts == NoSegment \notin Segments
  BY Zenon DEF NoSegment, Segments, Machines

\* What a segment changes in a connection that is neither closed nor listening.
InputResult(c, s, d, A) ==
  /\ A \subseteq Conns /\ d \in Conns /\ d.in_use = c.in_use /\ d.snd_nxt = c.snd_nxt /\ d.retx_seq = c.retx_seq
  /\ d.retx = c.retx \/ (d.retx = NoSegment /\ (d.state = "DONE" \/ Acknowledges(s, c)))
  /\ \/ /\ d.rcv_nxt = c.rcv_nxt /\ d.rx = c.rx /\ d.peer_fin = c.peer_fin
        /\ \A x \in A : s.data # << >> /\ x.rcv_nxt = c.rcv_nxt
        /\ \/ d.state = c.state
           \/ d.state = "DONE" /\ ("RST" \in s.flags \/ c.state = "FIN_WAIT")
           \/ d.state = "ESTABLISHED" /\ c.state = "SYN_RCVD" /\ "ACK" \in s.flags
     \/ /\ c.state = "SYN_SENT" /\ {"SYN", "ACK"} \subseteq s.flags
        /\ d.rcv_nxt = Plus(s.seq, 1) /\ d.rx = c.rx /\ d.peer_fin = c.peer_fin
        /\ A = {d} /\ d.state = "ESTABLISHED"
     \/ /\ c.state # "SYN_SENT" /\ InOrder(s, c)
        /\ d.rcv_nxt = Plus(c.rcv_nxt, Len(s.data)) /\ d.rx = c.rx \o s.data
        /\ d.peer_fin = c.peer_fin /\ \A x \in A : x.rcv_nxt = d.rcv_nxt
        /\ \/ d.state = c.state
           \/ d.state = "DONE" /\ c.state = "FIN_WAIT"
           \/ d.state = "ESTABLISHED" /\ c.state = "SYN_RCVD" /\ "ACK" \in s.flags
     \/ /\ c.state # "SYN_SENT" /\ "FIN" \in s.flags /\ s.data = << >>
        /\ Plus(s.seq, 0) = c.rcv_nxt
        /\ d.rcv_nxt = Plus(c.rcv_nxt, 1) /\ d.rx = c.rx /\ d.peer_fin
        /\ \A x \in A : x.rcv_nxt = d.rcv_nxt
        /\ \/ d.state = c.state
           \/ d.state = "DONE" /\ c.state = "FIN_WAIT"
           \/ d.state = "ESTABLISHED" /\ c.state = "SYN_RCVD" /\ "ACK" \in s.flags

\* tcp_input on a known connection does one of these things, whatever the segment.
LEMMA InputIs ==
  ASSUME NEW c \in Conns, NEW s \in Segments, "FIN" \in s.flags => s.data = << >>
  PROVE  InputResult(c, s, Input(c, s)[1], Input(c, s)[2])
  <1>. DEFINE c1 == Acked(c, s)
              c2 == Accepted(c1, s)
              open == [c2 EXCEPT !.rcv_nxt = Plus(s.seq, 1), !.state = "ESTABLISHED"]
              c3 == Filled(c2, s)
              c4 == Ended(c3, s)
              c5 == Finished(c4)
              rst == [c EXCEPT !.state = "DONE", !.retx = NoSegment]
  <1>0. \A a, n \in Nat : Plus(a, n) \in Nat
    BY TcpAssumption DEF Plus
  <1>1. Input(c, s) = IF "RST" \in s.flags THEN <<rst, {}>>
           ELSE IF c2.state = "SYN_SENT"
                THEN IF {"SYN", "ACK"} \subseteq s.flags THEN <<open, {open}>> ELSE <<c2, {}>>
                ELSE <<c5, (IF AcksData(s, c2) THEN {c3} ELSE {})
                             \cup (IF Ends(s, c3) THEN {c4} ELSE {})>>
    BY Zenon DEF Input
  <1>. USE DEF Conns, States
  <1>2. /\ c1 \in Conns /\ c1.in_use = c.in_use /\ c1.snd_nxt = c.snd_nxt /\ c1.retx_seq = c.retx_seq
        /\ c1.rcv_nxt = c.rcv_nxt /\ c1.rx = c.rx /\ c1.peer_fin = c.peer_fin /\ c1.state = c.state
        /\ c1.retx = c.retx \/ (c1.retx = NoSegment /\ Acknowledges(s, c))
    BY Zenon DEF Acked
  <1>. HIDE DEF c1
  <1>3. /\ c2 \in Conns /\ c2.in_use = c.in_use /\ c2.snd_nxt = c.snd_nxt /\ c2.retx_seq = c.retx_seq
        /\ c2.rcv_nxt = c.rcv_nxt /\ c2.rx = c.rx /\ c2.peer_fin = c.peer_fin
        /\ c2.state = c.state \/ (c2.state = "ESTABLISHED" /\ c.state = "SYN_RCVD" /\ "ACK" \in s.flags)
        /\ c2.retx = c.retx \/ (c2.retx = NoSegment /\ Acknowledges(s, c))
    BY <1>2, Zenon DEF Accepted
  <1>. HIDE DEF c2
  <1>4. /\ open \in Conns /\ open.in_use = c.in_use /\ open.snd_nxt = c.snd_nxt
        /\ open.retx_seq = c.retx_seq /\ open.rcv_nxt = Plus(s.seq, 1) /\ open.rx = c.rx
        /\ open.peer_fin = c.peer_fin /\ open.state = "ESTABLISHED" /\ open.retx = c2.retx
    BY <1>0, <1>3, Zenon DEF Segments
  <1>. HIDE DEF open
  <1>5. /\ c3 \in Conns /\ c3.in_use = c.in_use /\ c3.snd_nxt = c.snd_nxt /\ c3.retx_seq = c.retx_seq
        /\ c3.peer_fin = c.peer_fin /\ c3.state = c2.state /\ c3.retx = c2.retx
        /\ IF InOrder(s, c) THEN c3.rx = c.rx \o s.data /\ c3.rcv_nxt = Plus(c.rcv_nxt, Len(s.data))
                            ELSE c3.rx = c.rx /\ c3.rcv_nxt = c.rcv_nxt
    <2>1. InOrder(s, c2) <=> InOrder(s, c)
      BY <1>3, Zenon DEF InOrder
    <2>2. c.rx \o s.data \in Seq(Nat) /\ Len(s.data) \in Nat
      BY DEF Segments
    <2>. QED BY <1>0, <1>3, <2>1, <2>2, Zenon DEF Filled
  <1>. HIDE DEF c3
  <1>6. /\ c4 \in Conns /\ c4.in_use = c.in_use /\ c4.snd_nxt = c.snd_nxt /\ c4.retx_seq = c.retx_seq
        /\ c4.rx = c3.rx /\ c4.retx = c2.retx
        /\ IF Ends(s, c3) THEN c4.rcv_nxt = Plus(c3.rcv_nxt, 1) /\ c4.peer_fin
                          ELSE c4.rcv_nxt = c3.rcv_nxt /\ c4.peer_fin = c.peer_fin
        /\ c4.state = c3.state \/ (c4.state = "DONE" /\ c3.state = "FIN_WAIT")
    BY <1>0, <1>5, Zenon DEF Ended
  <1>. HIDE DEF c4
  <1>7. /\ c5 \in Conns /\ c5.in_use = c.in_use /\ c5.snd_nxt = c.snd_nxt /\ c5.retx_seq = c.retx_seq
        /\ c5.rx = c4.rx /\ c5.retx = c2.retx /\ c5.rcv_nxt = c4.rcv_nxt /\ c5.peer_fin = c4.peer_fin
        /\ c5.state = c4.state \/ (c5.state = "DONE" /\ c4.state = "FIN_WAIT")
    BY <1>6, Zenon DEF Finished
  <1>. HIDE DEF c5
  <1>8. /\ rst \in Conns /\ rst.in_use = c.in_use /\ rst.snd_nxt = c.snd_nxt
        /\ rst.retx_seq = c.retx_seq /\ rst.rcv_nxt = c.rcv_nxt /\ rst.rx = c.rx
        /\ rst.peer_fin = c.peer_fin /\ rst.state = "DONE" /\ rst.retx = NoSegment
    BY Zenon
  <1>. HIDE DEF rst, Conns, States
  <1>9. Ends(s, c3) => /\ "FIN" \in s.flags /\ s.data = << >> /\ Plus(s.seq, 0) = c.rcv_nxt
                       /\ ~InOrder(s, c)
    BY <1>5, Zenon DEF Ends, InOrder
  <1>10. CASE "RST" \in s.flags
    <2>1. Input(c, s) = <<rst, {}>>
      BY <1>1, <1>10, Zenon
    <2>2. Input(c, s)[1] = rst /\ Input(c, s)[2] = {}
      BY <2>1
    <2>. QED BY <1>8, <1>10, <2>2, Zenon DEF InputResult
  <1>11. CASE "RST" \notin s.flags /\ c2.state = "SYN_SENT"
    <2>1. CASE {"SYN", "ACK"} \subseteq s.flags
      <3>1. Input(c, s) = <<open, {open}>>
        BY <1>1, <1>11, <2>1, Zenon
      <3>2. Input(c, s)[1] = open /\ Input(c, s)[2] = {open}
        BY <3>1
      <3>. QED BY <1>3, <1>4, <1>11, <2>1, <3>2, Zenon DEF InputResult
    <2>2. CASE ~({"SYN", "ACK"} \subseteq s.flags)
      <3>1. Input(c, s) = <<c2, {}>>
        BY <1>1, <1>11, <2>2, Zenon
      <3>2. Input(c, s)[1] = c2 /\ Input(c, s)[2] = {}
        BY <3>1
      <3>. QED BY <1>3, <1>11, <3>2, Zenon DEF InputResult
    <2>. QED BY <2>1, <2>2, Zenon
  <1>12. CASE "RST" \notin s.flags /\ c2.state # "SYN_SENT"
    <2>0. Input(c, s) = <<c5, (IF AcksData(s, c2) THEN {c3} ELSE {})
                               \cup (IF Ends(s, c3) THEN {c4} ELSE {})>>
      BY <1>1, <1>12, Zenon
    <2>1. /\ Input(c, s)[1] = c5
          /\ \A x \in Input(c, s)[2] : (x = c3 /\ s.data # << >>) \/ (x = c4 /\ Ends(s, c3))
      BY <2>0 DEF AcksData
    <2>2. c.state # "SYN_SENT"
      BY <1>3, <1>12, Zenon
    <2>3. \/ c5.state = c.state
          \/ c5.state = "DONE" /\ c.state = "FIN_WAIT"
          \/ c5.state = "ESTABLISHED" /\ c.state = "SYN_RCVD" /\ "ACK" \in s.flags
      BY <1>3, <1>5, <1>6, <1>7, Zenon
    <2>4. CASE Ends(s, c3)
      BY <1>3, <1>5, <1>6, <1>7, <1>9, <2>1, <2>2, <2>3, <2>4, Zenon DEF InputResult
    <2>5. CASE ~Ends(s, c3) /\ InOrder(s, c)
      BY <1>3, <1>5, <1>6, <1>7, <2>1, <2>2, <2>3, <2>5, Zenon DEF InputResult
    <2>6. CASE ~Ends(s, c3) /\ ~InOrder(s, c)
      BY <1>3, <1>5, <1>6, <1>7, <2>1, <2>2, <2>3, <2>6, Zenon DEF InputResult
    <2>. QED BY <2>4, <2>5, <2>6, Zenon
  <1>. QED BY <1>10, <1>11, <1>12, Zenon

----------------------------------------------------------------------------
(* Steps that say nothing new.                                             *)

Reset(s) == s.flags = {"RST"} /\ s.data = << >>

\* A step of machine e after which its streams are as before: nothing is said or
\* received, and what it sends it has sent before.
Quiet(e) ==
  /\ conn'[Peer(e)] = conn[Peer(e)] /\ call'[Peer(e)] = call[Peer(e)] /\ said' = said
  /\ got'[Peer(e)] = got[Peer(e)] /\ held'[Peer(e)] = held[Peer(e)]
  /\ \A s \in net' : s \in net \/ s \in From(e) \/ Reset(s)
  /\ conn'[e].retx \in {conn[e].retx, NoSegment}
  /\ held'[e] = NoSegment \/ (held'[e] = held[e] /\ call'[e] = call[e])
  /\ conn'[e].rcv_nxt = conn[e].rcv_nxt /\ conn'[e].peer_fin = conn[e].peer_fin
  /\ conn'[e].snd_nxt = conn[e].snd_nxt /\ conn'[e].retx_seq = conn[e].retx_seq
  /\ got'[e] \o conn'[e].rx = got[e] \o conn[e].rx
  /\ conn'[e].in_use => conn[e].in_use
  /\ \/ conn'[e].state = conn[e].state
     \/ conn'[e].state = "DONE" /\ conn[e].state \notin Unopened
     \/ conn'[e].state = "FIN_WAIT" /\ call[e] = "close arp"
  /\ \/ call'[e] = call[e] /\ (call[e] \in Before => got'[e] = got[e])
     \/ /\ IF call[e] \in Closing THEN call'[e] \in Closing \/ (call'[e] = "closed" /\ ~conn'[e].in_use)
                                  ELSE call'[e] \notin Closing
        /\ call'[e] \in Before => call[e] \in Before /\ got'[e] = got[e]
        /\ call[e] # "closed"

\* What holds of a machine while its peer takes a step.
LEMMA PeerKeeps ==
  ASSUME TcpInv, NEW e \in Machines, NEW p \in Machines, p = Peer(e),
         conn'[p] = conn[p], call'[p] = call[p], said'[p] = said[p], got'[p] = got[p],
         held'[p] = held[p],
         \A s \in net' : s.to = e => s \in net \/ Reset(s),
         said'[e] \in Nat, said[e] <= said'[e],
         call[e] \in Closing \cup {"closed"} =>
           said'[e] = said[e] /\ call'[e] \in Closing \cup {"closed"},
         Virgin(p) => /\ conn'[e].state \in Early \cup {"DONE"} /\ said'[e] = 0
                      /\ call'[e] \notin Closing /\ \A s \in From(e)' : "FIN" \notin s.flags
  PROVE  SndInv(p)' /\ RcvInv(p)'
  <1>1. Peer(p) = e /\ Peer(e) = p
    BY PeerFacts, Zenon
  <1>2. SndInv(p) /\ RcvInv(p) /\ Types
    BY Zenon DEF TcpInv
  <1>3. Received(p)' = Received(p) /\ Count(p)' = Count(p)
    BY Zenon DEF Received, Count, Fin
  <1>4. \A s \in From(p)' : s \in From(p) \/ (Reset(s) /\ s.to = e)
    BY <1>1, Zenon DEF From
  <1>5. \A s : SegOK(p, s) => SegOK(p, s)'
    BY <1>3 DEF SegOK
  <1>6. ASSUME NEW s, Reset(s), s.to = e PROVE SegOK(p, s)'
    BY <1>1, <1>6, Zenon DEF SegOK, Reset
  <1>7. SndInv(p)'
    BY <1>2, <1>4, <1>5, <1>6, Zenon DEF SndInv
  <1>8. Synced(p) => Synced(p)'
    BY <1>3, Zenon DEF Synced
  <1>9. Virgin(p) => Virgin(p)'
    BY <1>1, <1>3, <1>4 DEF Virgin, Reset
  <1>10. said[e] \in Nat /\ said'[e] >= said[e] /\ Len(Received(p)) \in Nat
    BY <1>2 DEF Types, Received, Conns
  <1>. QED BY <1>1, <1>2, <1>3, <1>7, <1>8, <1>9, <1>10 DEF RcvInv

\* A step that says nothing new preserves what both machines know of the streams.
LEMMA QuietKeeps ==
  ASSUME TcpInv, NEW e \in Machines, Quiet(e)
  PROVE  \A m \in Machines : SndInv(m)' /\ RcvInv(m)'
  <1>. DEFINE p == Peer(e)
  <1>1. p \in Machines /\ Peer(p) = e /\ p # e /\ Machines = {e, p}
    BY PeerFacts, Zenon
  <1>. HIDE DEF p
  <1>2. SndInv(e) /\ RcvInv(e) /\ SndInv(p) /\ RcvInv(p) /\ Types
    BY <1>1, Zenon DEF TcpInv
  <1>3. Received(e)' = Received(e) /\ Count(e)' = Count(e)
    BY Zenon DEF Quiet, Received, Count, Fin
  <1>4. \A s \in From(e) : s.to = p
    BY <1>2, Zenon DEF SndInv, SegOK, p
  <1>5. \A s \in From(e)' : s \in From(e) \/ (Reset(s) /\ s.to = p)
    BY <1>1, <1>4, Zenon DEF From, Quiet, p
  <1>6. \A s \in From(p)' : s \in From(p) \/ Reset(s)
    BY <1>1, <1>4, Zenon DEF From, Quiet, p
  <1>7. \A s : SegOK(e, s) => SegOK(e, s)'
    BY <1>2, <1>3, Zenon DEF SegOK, Quiet, SndInv, Closing, Unopened, Early
  <1>8. ASSUME NEW s, Reset(s), s.to = p PROVE SegOK(e, s)'
    BY <1>8, Zenon DEF SegOK, Reset, p
  <1>9. SndInv(e)'
    <2>1. /\ conn'[e].state \in Early => said'[e] = 0 /\ call'[e] \notin Closing
          /\ conn'[e].state \notin Unopened => conn[e].state \notin Unopened
      BY <1>2, Zenon DEF SndInv, Quiet, Early, Unopened, Closing
    <2>2. conn'[e].in_use => (call'[e] \in Closing <=> call[e] \in Closing)
      BY Zenon DEF Quiet
    <2>3. /\ held'[e] # NoSegment => call'[e] \in {"connect arp", "send arp", "close arp"}
          /\ call'[e] \in Before => got'[e] = << >> /\ said'[e] = 0
      BY <1>2, Zenon DEF SndInv, Quiet
    <2>4. \A s \in From(e)' : SegOK(e, s)'
      BY <1>2, <1>5, <1>7, <1>8, Zenon DEF SndInv
    <2>. QED BY <1>2, <2>1, <2>2, <2>3, <2>4, Zenon DEF SndInv, Quiet
  <1>10. RcvInv(e)'
    <2>1. Synced(e) => Synced(e)'
      BY <1>3, Zenon DEF Synced, Quiet, Unopened
    <2>2. Virgin(e) => Virgin(e)'
      <3>. SUFFICES ASSUME Virgin(e) PROVE Virgin(e)'
        BY Zenon
      <3>1. /\ conn[e].state \in Unopened \cup {"SYN_SENT", "DONE"} /\ call[e] \notin Closing
            /\ Received(e) = << >> /\ ~conn[e].peer_fin
            /\ \A s \in From(e) : "ACK" \notin s.flags
            /\ conn[p].state \in Early \cup {"DONE"} /\ said[p] = 0 /\ call[p] \notin Closing
            /\ \A s \in From(p) : "FIN" \notin s.flags
        BY Zenon DEF Virgin, p
      <3>2. conn'[e].state \in Unopened \cup {"SYN_SENT", "DONE"} /\ call'[e] \notin Closing
        BY <3>1, Zenon DEF Quiet, Closing
      <3>3. /\ ~conn'[e].peer_fin /\ conn'[p] = conn[p] /\ said'[p] = said[p] /\ call'[p] = call[p]
        BY <3>1, Zenon DEF Quiet, p
      <3>4. /\ \A s \in From(e)' : "ACK" \notin s.flags
            /\ \A s \in From(p)' : "FIN" \notin s.flags
        BY <1>5, <1>6, <3>1 DEF Reset
      <3>. QED BY <1>3, <3>1, <3>2, <3>3, <3>4, Zenon DEF Virgin, p
    <2>. QED BY <1>2, <1>3, <2>1, <2>2, Zenon DEF RcvInv, Quiet, p
  <1>11. SndInv(p)' /\ RcvInv(p)'
    <2>1. Virgin(p) => /\ conn'[e].state \in Early \cup {"DONE"} /\ said'[e] = 0
                       /\ call'[e] \notin Closing /\ \A s \in From(e)' : "FIN" \notin s.flags
      <3>. SUFFICES ASSUME Virgin(p)
                    PROVE  /\ conn'[e].state \in Early \cup {"DONE"} /\ said'[e] = 0
                           /\ call'[e] \notin Closing /\ \A s \in From(e)' : "FIN" \notin s.flags
        BY Zenon
      <3>1. /\ conn[e].state \in Early \cup {"DONE"} /\ said[e] = 0 /\ call[e] \notin Closing
            /\ \A s \in From(e) : "FIN" \notin s.flags
        BY <1>1, Zenon DEF Virgin
      <3>2. /\ conn'[e].state \in Early \cup {"DONE"} /\ said'[e] = 0 /\ call'[e] \notin Closing
        BY <3>1, Zenon DEF Quiet, Closing
      <3>. QED BY <1>5, <3>1, <3>2 DEF Reset
    <2>2. \A s \in net' : s.to = e => s \in net \/ Reset(s)
      BY <1>1, <1>4, Zenon DEF Quiet
    <2>3. call[e] \in Closing \cup {"closed"} => call'[e] \in Closing \cup {"closed"}
      BY Zenon DEF Quiet
    <2>0. said' = said
      BY Zenon DEF Quiet
    <2>4. said'[e] \in Nat /\ said[e] <= said'[e] /\ said'[e] = said[e]
      BY <1>2, <2>0 DEF Types
    <2>. QED BY <1>1, <2>0, <2>1, <2>2, <2>3, <2>4, PeerKeeps, Zenon DEF Quiet, p
  <1>. QED BY <1>1, <1>9, <1>10, <1>11, Zenon

\* The length and the elements of a concatenation.
LEMMA Concat ==
  ASSUME NEW s \in Seq(Nat), NEW t \in Seq(Nat)
  PROVE  /\ s \o t \in Seq(Nat) /\ Len(s \o t) = Len(s) + Len(t)
         /\ \A i \in 1 .. Len(s) + Len(t) : (s \o t)[i] = IF i <= Len(s) THEN s[i] ELSE t[i - Len(s)]
  <1>1. s \o t \in Seq(Nat)
    OBVIOUS
  <1>2. Len(s \o t) = Len(s) + Len(t)
    OBVIOUS
  <1>3. \A i \in 1 .. Len(s) + Len(t) : (s \o t)[i] = IF i <= Len(s) THEN s[i] ELSE t[i - Len(s)]
    OBVIOUS
  <1>. QED BY <1>1, <1>2, <1>3, Zenon

\* Sequences of the same length with the same elements are the same.
LEMMA SameSequence ==
  ASSUME NEW x \in Seq(Nat), NEW y \in Seq(Nat), NEW n \in Nat, Len(x) = n, Len(y) = n,
         \A i \in 1 .. n : x[i] = y[i]
  PROVE  x = y
  OBVIOUS

\* Concatenation is associative: what is buffered may be cut anywhere.
LEMMA ConcatConcat ==
  ASSUME NEW g \in Seq(Nat), NEW a \in Seq(Nat), NEW b \in Seq(Nat)
  PROVE  (g \o a) \o b = g \o (a \o b)
  <1>. DEFINE c == g \o a
              h == a \o b
              x == c \o b
              y == g \o h
              l == Len(g)
              m == Len(a)
              n == Len(b)
  <1>0. l \in Nat /\ m \in Nat /\ n \in Nat
    OBVIOUS
  <1>1. /\ c \in Seq(Nat) /\ Len(c) = l + m
        /\ \A i \in 1 .. l + m : c[i] = IF i <= l THEN g[i] ELSE a[i - l]
    BY Concat, Zenon
  <1>2. /\ h \in Seq(Nat) /\ Len(h) = m + n
        /\ \A i \in 1 .. m + n : h[i] = IF i <= m THEN a[i] ELSE b[i - m]
    BY Concat, Zenon
  <1>. HIDE DEF c, h
  <1>3. /\ x \in Seq(Nat) /\ Len(x) = Len(c) + n
        /\ \A i \in 1 .. Len(c) + n : x[i] = IF i <= Len(c) THEN c[i] ELSE b[i - Len(c)]
    BY <1>1, Concat, Zenon
  <1>4. /\ y \in Seq(Nat) /\ Len(y) = l + Len(h)
        /\ \A i \in 1 .. l + Len(h) : y[i] = IF i <= l THEN g[i] ELSE h[i - l]
    BY <1>2, Concat, Zenon
  <1>. HIDE DEF x, y, l, m, n
  <1>5. Len(x) = l + m + n /\ Len(y) = l + m + n
    <2>1. Len(c) = l + m /\ Len(h) = m + n /\ Len(x) = Len(c) + n /\ Len(y) = l + Len(h)
      BY <1>1, <1>2, <1>3, <1>4, Zenon
    <2>. QED BY <1>0, <2>1
  <1>6. ASSUME NEW i \in 1 .. l + m + n PROVE x[i] = y[i]
    <2>0. i \in 1 .. Len(c) + n /\ i \in 1 .. l + Len(h) /\ Len(c) = l + m
      BY <1>0, <1>1, <1>2
    <2>1. /\ x[i] = IF i <= l + m THEN c[i] ELSE b[i - (l + m)]
          /\ y[i] = IF i <= l THEN g[i] ELSE h[i - l]
      BY <1>3, <1>4, <2>0, Zenon
    <2>5. (i <= l + m => i \in 1 .. l + m) /\ (i > l => i - l \in 1 .. m + n)
      BY <1>0
    <2>2. i <= l + m => c[i] = IF i <= l THEN g[i] ELSE a[i - l]
      BY <1>1, <2>5, Zenon
    <2>3. i > l => h[i - l] = IF i - l <= m THEN a[i - l] ELSE b[i - l - m]
      BY <1>2, <2>5, Zenon
    <2>4. i - (l + m) = i - l - m /\ (i - l <= m <=> i <= l + m)
      BY <1>0
    <2>. QED BY <1>0, <2>1, <2>2, <2>3, <2>4
  <1>7. x = y
    <2>1. l + m + n \in Nat
      BY <1>0
    <2>. QED BY <1>3, <1>4, <1>5, <1>6, <2>1, SameSequence, Zenon
  <1>. QED BY <1>7, Zenon DEF x, y, c, h

\* Taking n bytes from the front of what is buffered keeps the stream.
LEMMA TakeFront ==
  ASSUME NEW g \in Seq(Nat), NEW r \in Seq(Nat), NEW n \in 1 .. Len(r)
  PROVE  /\ SubSeq(r, 1, n) \in Seq(Nat) /\ SubSeq(r, n + 1, Len(r)) \in Seq(Nat)
         /\ (g \o SubSeq(r, 1, n)) \o SubSeq(r, n + 1, Len(r)) = g \o r
  <1>. DEFINE a == SubSeq(r, 1, n)
              b == SubSeq(r, n + 1, Len(r))
              h == a \o b
  <1>0. Len(r) \in Nat /\ n \in Nat /\ n <= Len(r)
    OBVIOUS
  <1>1. a \in Seq(Nat) /\ b \in Seq(Nat)
    BY <1>0
  <1>2. Len(a) = n /\ Len(b) = Len(r) - n
    BY <1>0
  <1>3. \A i \in 1 .. n : a[i] = r[i]
    BY <1>0
  <1>4. \A i \in 1 .. Len(r) - n : b[i] = r[n + i]
    BY <1>0
  <1>. HIDE DEF a, b
  <1>5. /\ h \in Seq(Nat) /\ Len(h) = Len(a) + Len(b)
        /\ \A i \in 1 .. Len(a) + Len(b) : h[i] = IF i <= Len(a) THEN a[i] ELSE b[i - Len(a)]
    BY <1>1, Concat, Zenon
  <1>. HIDE DEF h
  <1>6. Len(h) = Len(r)
    BY <1>0, <1>2, <1>5
  <1>7. ASSUME NEW i \in 1 .. Len(r) PROVE h[i] = r[i]
    <2>0. i \in 1 .. Len(a) + Len(b) /\ Len(a) = n
      BY <1>0, <1>2
    <2>1. h[i] = IF i <= n THEN a[i] ELSE b[i - n]
      BY <1>5, <2>0, Zenon
    <2>2. i <= n => a[i] = r[i]
      BY <1>0, <1>3
    <2>3. i > n => i - n \in 1 .. Len(r) - n /\ n + (i - n) = i
      BY <1>0
    <2>. QED BY <1>0, <1>4, <2>1, <2>2, <2>3
  <1>8. h = r
    BY <1>0, <1>5, <1>6, <1>7, SameSequence, Zenon
  <1>9. (g \o a) \o b = g \o h
    BY <1>1, ConcatConcat, Zenon DEF h
  <1>. QED BY <1>1, <1>8, <1>9, Zenon DEF a, b

\* The timers, the network and the buffer a caller reads from are quiet.
LEMMA QuietEvents ==
  ASSUME TcpInv, NEW e \in Machines,
         RecvData(e) \/ ResolveEnds(e) \/ tcp_tick(e) \/ Refuse(e) \/ Lose
  PROVE  Quiet(e)
  <1>0. /\ held[e] # NoSegment => call[e] \in {"connect arp", "send arp", "close arp"}
        /\ conn[e].retx # NoSegment => conn[e].state \notin Unopened
    BY Zenon DEF TcpInv, SndInv, PlaceInv
  <1>1. Types /\ Peer(e) # e /\ Peer(e) \in Machines
    BY PeerFacts, Zenon DEF TcpInv
  <1>2. CASE RecvData(e)
    <2>0. PICK n \in {1, Len(conn[e].rx)} :
                /\ got' = [got EXCEPT ![e] = @ \o SubSeq(conn[e].rx, 1, n)]
                /\ conn' = [conn EXCEPT ![e].rx = SubSeq(@, n + 1, Len(@))]
      BY <1>2, Zenon DEF RecvData
    <2>1. conn[e].rx \in Seq(Nat) /\ got[e] \in Seq(Nat) /\ conn[e].rx # << >>
      BY <1>1, <1>2, Zenon DEF Types, Conns, RecvData
    <2>2. n \in 1 .. Len(conn[e].rx)
      BY <2>1
    <2>3. /\ conn'[e].rx = SubSeq(conn[e].rx, n + 1, Len(conn[e].rx))
          /\ got'[e] = got[e] \o SubSeq(conn[e].rx, 1, n)
          /\ got'[Peer(e)] = got[Peer(e)]
          /\ conn'[e].state = conn[e].state /\ conn'[e].retx = conn[e].retx
          /\ conn'[e].rcv_nxt = conn[e].rcv_nxt /\ conn'[e].peer_fin = conn[e].peer_fin
          /\ conn'[e].snd_nxt = conn[e].snd_nxt /\ conn'[e].retx_seq = conn[e].retx_seq
          /\ conn'[e].in_use = conn[e].in_use /\ conn'[Peer(e)] = conn[Peer(e)]
      <3>. DEFINE r == SubSeq(conn[e].rx, n + 1, Len(conn[e].rx))
      <3>1. /\ conn'[e] = [conn[e] EXCEPT !.rx = r] /\ conn[e] \in Conns
            /\ conn'[Peer(e)] = conn[Peer(e)]
        BY <1>1, <2>0, Zenon DEF Types
      <3>2. got'[e] = got[e] \o SubSeq(conn[e].rx, 1, n) /\ got'[Peer(e)] = got[Peer(e)]
        BY <1>1, <2>0, Zenon DEF Types
      <3>. HIDE DEF r
      <3>3. /\ conn'[e].rx = r
            /\ conn'[e].state = conn[e].state /\ conn'[e].retx = conn[e].retx
            /\ conn'[e].rcv_nxt = conn[e].rcv_nxt /\ conn'[e].peer_fin = conn[e].peer_fin
            /\ conn'[e].snd_nxt = conn[e].snd_nxt /\ conn'[e].retx_seq = conn[e].retx_seq
            /\ conn'[e].in_use = conn[e].in_use
        BY <3>1, Zenon DEF Conns
      <3>. QED BY <3>1, <3>2, <3>3, Zenon DEF r
    <2>4. got'[e] \o conn'[e].rx = got[e] \o conn[e].rx
      BY <2>1, <2>2, <2>3, TakeFront, Zenon
    <2>5. UNCHANGED <<net, call, held, said>> /\ call[e] \notin Before
      BY <1>2, Zenon DEF RecvData, Before
    <2>. QED BY <2>3, <2>4, <2>5, Zenon DEF Quiet
  <1>3. CASE ResolveEnds(e)
    <2>1. /\ conn'[e].rcv_nxt = conn[e].rcv_nxt /\ conn'[e].peer_fin = conn[e].peer_fin
          /\ conn'[e].snd_nxt = conn[e].snd_nxt /\ conn'[e].retx_seq = conn[e].retx_seq
          /\ conn'[e].in_use = conn[e].in_use /\ conn'[Peer(e)] = conn[Peer(e)]
          /\ conn'[e].rx = conn[e].rx /\ conn'[e].retx = conn[e].retx
          /\ conn'[e].state = IF call[e] = "close arp" THEN "FIN_WAIT" ELSE conn[e].state
      BY <1>1, <1>3 DEF ResolveEnds, Types, Conns
    <2>2. \/ call[e] = "connect arp" /\ call'[e] = "connect test"
          \/ call[e] = "send arp" /\ call'[e] = "send test"
          \/ call[e] = "close arp" /\ call'[e] = "close"
      BY <1>0, <1>1, <1>3, Zenon DEF ResolveEnds, Types
    <2>3. /\ held'[e] = NoSegment /\ held'[Peer(e)] = held[Peer(e)] /\ call'[Peer(e)] = call[Peer(e)]
          /\ UNCHANGED <<said, got>>
          /\ \A s \in net' : s \in net \/ s \in From(e)
      BY <1>1, <1>3, Zenon DEF ResolveEnds, Types, From
    <2>. QED BY <2>1, <2>2, <2>3, Zenon DEF Quiet, Closing, Before
  <1>4. CASE tcp_tick(e)
    <2>1. /\ conn'[e].rcv_nxt = conn[e].rcv_nxt /\ conn'[e].peer_fin = conn[e].peer_fin
          /\ conn'[e].snd_nxt = conn[e].snd_nxt /\ conn'[e].retx_seq = conn[e].retx_seq
          /\ conn'[e].in_use = conn[e].in_use /\ conn'[Peer(e)] = conn[Peer(e)]
          /\ conn'[e].rx = conn[e].rx /\ conn'[e].retx \in {conn[e].retx, NoSegment}
          /\ conn'[e].state \in {conn[e].state, "DONE"}
      <3>1. conn[e] \in Conns
        BY <1>1, Zenon DEF Types
      <3>2. /\ \/ conn'[e] = [conn[e] EXCEPT !.state = "DONE", !.retx = NoSegment]
               \/ conn'[e] = [conn[e] EXCEPT !.tries = @ + 1]
            /\ conn'[Peer(e)] = conn[Peer(e)]
        BY <1>1, <1>4, Zenon DEF tcp_tick, Types
      <3>. QED BY <3>1, <3>2, Zenon DEF Conns
    <2>2. conn[e].retx # NoSegment /\ conn[e].retx \in From(e)
      BY <1>4, Zenon DEF tcp_tick, From
    <2>3. UNCHANGED <<call, held, said, got>> /\ \A s \in net' : s \in net \/ s \in From(e)
      BY <1>4, <2>2, Zenon DEF tcp_tick
    <2>. QED BY <1>0, <2>1, <2>2, <2>3, Zenon DEF Quiet
  <1>5. CASE Refuse(e) \/ Lose
    <2>1. UNCHANGED <<conn, call, held, said, got>> /\ \A s \in net' : s \in net \/ Reset(s)
      BY <1>5 DEF Refuse, Lose, Reset
    <2>. QED BY <2>1, Zenon DEF Quiet
  <1>. QED BY <1>2, <1>3, <1>4, <1>5, Zenon

----------------------------------------------------------------------------
(* Steps that send something new.                                          *)

\* What tcp_emit does with data, SYN or FIN: the segment g is kept for
\* retransmission and is under way, or waits for ARP.
Emits(e, c, g, to) ==
  /\ conn'[e] \in Conns /\ conn'[e].in_use = c.in_use /\ conn'[e].state = c.state
  /\ conn'[e].rcv_nxt = c.rcv_nxt /\ conn'[e].peer_fin = c.peer_fin /\ conn'[e].rx = c.rx
  /\ conn'[e].retx = g
  /\ conn'[e].snd_nxt = Plus(c.snd_nxt, Len(g.data) + (IF g.flags \cap {"SYN", "FIN"} # {} THEN 1 ELSE 0))
  /\ conn'[e].retx_seq = conn'[e].snd_nxt
  /\ conn'[Peer(e)] = conn[Peer(e)] /\ call'[Peer(e)] = call[Peer(e)] /\ held'[Peer(e)] = held[Peer(e)]
  /\ call'[e] = to
  /\ (held' = held /\ net' = net \cup {g}) \/ (held'[e] = g /\ net' = net)
  /\ conn' \in [Machines -> Conns] /\ net' \subseteq Segments
  /\ held' \in [Machines -> Segments \cup {NoSegment}] /\ call' \in [Machines -> CallNames]

\* tcp_emit keeps what it sends, whether ip_send is done at once or waits for ARP.
LEMMA EmissionIs ==
  ASSUME Types, NEW e \in Machines, NEW c \in Conns, NEW flags \in SUBSET Flags, NEW data \in Seq(Nat),
         NEW to \in CallNames, EmitNow(e, c, flags, data, to) \/ EmitLater(e, c, flags, data, to)
  PROVE  Emits(e, c, Segment(e, c, flags, data), to)
  <1>. DEFINE g == Segment(e, c, flags, data)
              k == Len(data) + (IF flags \cap {"SYN", "FIN"} # {} THEN 1 ELSE 0)
              x == Plus(c.snd_nxt, k)
  <1>1. Peer(e) \in Machines /\ Peer(e) # e
    BY PeerFacts, Zenon
  <1>2. k \in Nat /\ c.snd_nxt \in Nat
    BY DEF Conns
  <1>. HIDE DEF k
  <1>3. x \in Nat
    BY <1>2, TcpAssumption DEF Plus
  <1>4. Emitted(e, c, flags, data) = [c EXCEPT !.retx = g, !.retx_seq = x, !.snd_nxt = x, !.tries = 0]
    BY Zenon DEF Emitted, k
  <1>. HIDE DEF x
  <1>5. g \in Segments /\ g.flags = flags /\ g.data = data
    BY <1>1, Zenon DEF Segment, Segments, Conns
  <1>. HIDE DEF g
  <1>. DEFINE d == [c EXCEPT !.retx = g, !.retx_seq = x, !.snd_nxt = x, !.tries = 0]
  <1>6. /\ d \in Conns /\ d.in_use = c.in_use /\ d.state = c.state
        /\ d.rcv_nxt = c.rcv_nxt /\ d.peer_fin = c.peer_fin /\ d.rx = c.rx
        /\ d.retx = g /\ d.snd_nxt = x /\ d.retx_seq = x
    BY <1>3, <1>5, Zenon DEF Conns
  <1>. HIDE DEF d
  <1>7. conn' = [conn EXCEPT ![e] = d] /\ call' = [call EXCEPT ![e] = to]
    BY <1>4, Zenon DEF EmitNow, EmitLater, d, g
  <1>8. \/ held' = held /\ net' = net \cup {g}
        \/ held' = [held EXCEPT ![e] = g] /\ net' = net
    BY Zenon DEF EmitNow, EmitLater, g
  <1>9. /\ conn'[e] = d /\ conn'[Peer(e)] = conn[Peer(e)] /\ conn' \in [Machines -> Conns]
        /\ call'[e] = to /\ call'[Peer(e)] = call[Peer(e)] /\ call' \in [Machines -> CallNames]
    BY <1>1, <1>6, <1>7, Zenon DEF Types
  <1>10. /\ held'[Peer(e)] = held[Peer(e)] /\ net' \subseteq Segments
         /\ held' \in [Machines -> Segments \cup {NoSegment}]
         /\ (held' = held /\ net' = net \cup {g}) \/ (held'[e] = g /\ net' = net)
    BY <1>1, <1>5, <1>8, Zenon DEF Types
  <1>11. x = Plus(c.snd_nxt, Len(g.data) + (IF g.flags \cap {"SYN", "FIN"} # {} THEN 1 ELSE 0))
    BY <1>5, Zenon DEF x, k
  <1>12. Emits(e, c, g, to)
    BY <1>6, <1>9, <1>10, <1>11, Zenon DEF Emits
  <1>. QED BY <1>12, Zenon DEF g

\* net_tcp_connect and net_tcp_listen on a machine that has no connection yet.
Opens(e) ==
  /\ call[e] = "none" /\ call'[e] \in Before \ {"none"} /\ said' = said /\ got' = got
  /\ conn'[Peer(e)] = conn[Peer(e)] /\ call'[Peer(e)] = call[Peer(e)] /\ held'[Peer(e)] = held[Peer(e)]
  /\ conn'[e].state \in {"LISTEN", "SYN_SENT"} /\ conn'[e].rx = << >> /\ ~conn'[e].peer_fin
  /\ held'[e] # NoSegment => call'[e] = "connect arp"
  /\ conn'[e].state = "SYN_SENT" => /\ conn'[e].snd_nxt = Plus(Isn[e], 1)
                                    /\ conn'[e].retx_seq = conn'[e].snd_nxt
  /\ \A s \in net' : s.to = e => s \in net
  /\ \A s \in From(e)' : \/ s \in From(e)
                         \/ /\ conn'[e].state = "SYN_SENT" /\ s.to = Peer(e) /\ s.flags = {"SYN"}
                            /\ s.data = << >> /\ s.seq = Isn[e]

\* net_tcp_connect and net_tcp_listen preserve what both machines know of the streams.
LEMMA OpenKeeps ==
  ASSUME TcpInv, NEW e \in Machines, Opens(e)
  PROVE  \A m \in Machines : SndInv(m)' /\ RcvInv(m)'
  <1>. DEFINE p == Peer(e)
  <1>1. p \in Machines /\ Peer(p) = e /\ p # e /\ Machines = {e, p}
    BY PeerFacts, Zenon
  <1>. HIDE DEF p
  <1>2. SndInv(e) /\ RcvInv(e) /\ Types /\ conn[e].state = "CLOSED"
    BY Zenon DEF TcpInv, PlaceInv, Opens
  <1>3. said[e] = 0 /\ got[e] = << >> /\ Virgin(e)
    BY <1>2, Zenon DEF SndInv, RcvInv, Synced, Unopened, Early, Before, Opens
  <1>4. Received(e)' = << >> /\ Received(e) = << >> /\ Count(e)' = Count(e)
    <2>1. Received(e) = << >> /\ ~conn[e].peer_fin
      BY <1>3, Zenon DEF Virgin
    <2>2. Received(e)' = << >> /\ ~conn'[e].peer_fin
      <3>1. got'[e] = << >> /\ conn'[e].rx = << >> /\ ~conn'[e].peer_fin
        BY <1>3, Zenon DEF Opens
      <3>2. << >> \o << >> = << >>
        OBVIOUS
      <3>. QED BY <3>1, <3>2, Zenon DEF Received
    <2>. QED BY <2>1, <2>2, Zenon DEF Count, Fin
  <1>5. \A s \in From(e) : SegOK(e, s) /\ "RST" \in s.flags /\ "FIN" \notin s.flags
    BY <1>2, Zenon DEF SndInv, SegOK, Unopened, Closing, Opens
  <1>6. \A s \in From(e)' : SegOK(e, s)' /\ "FIN" \notin s.flags /\ "ACK" \notin s.flags
    <2>. TAKE s \in From(e)'
    <2>1. CASE s \in From(e)
      <3>1. SegOK(e, s) /\ "RST" \in s.flags /\ "FIN" \notin s.flags /\ "ACK" \notin s.flags
        BY <1>3, <1>5, <2>1, Zenon DEF Virgin
      <3>2. said' = said
        BY Zenon DEF Opens
      <3>. QED BY <3>1, <3>2, Zenon DEF SegOK
    <2>2. CASE s \notin From(e)
      <3>1. /\ conn'[e].state = "SYN_SENT" /\ s.to = Peer(e) /\ s.flags = {"SYN"}
            /\ s.data = << >> /\ s.seq = Isn[e]
        BY <2>2, Zenon DEF Opens
      <3>. QED BY <3>1, Zenon DEF SegOK, Unopened
    <2>. QED BY <2>1, <2>2, Zenon
  <1>7. call'[e] \notin Closing /\ said'[e] = 0 /\ call[e] \notin Closing \cup {"closed"}
    BY <1>3, Zenon DEF Before, Closing, Opens
  <1>8. SndInv(e)'
    <2>1. 1 + 0 + 0 = 1
      OBVIOUS
    <2>2. conn'[e].state = "SYN_SENT" =>
            conn'[e].snd_nxt = Plus(Isn[e], 1 + said'[e] + (IF call'[e] \in Closing THEN 1 ELSE 0))
      BY <1>7, <2>1, Zenon DEF Opens
    <2>3. got'[e] = << >>
      BY <1>3, Zenon DEF Opens
    <2>. QED BY <1>6, <1>7, <2>2, <2>3, Zenon DEF SndInv, Unopened, Early, Opens
  <1>9. RcvInv(e)'
    <2>1. Virgin(e)'
      <3>1. \A s \in From(p)' : s \in From(p)
        BY <1>1, Zenon DEF From, Opens, p
      <3>2. /\ conn'[e].state \in Unopened \cup {"SYN_SENT"} /\ ~conn'[e].peer_fin
            /\ conn'[p] = conn[p] /\ said'[p] = said[p] /\ call'[p] = call[p]
        BY Zenon DEF Opens, Unopened, p
      <3>. QED BY <1>3, <1>4, <1>6, <1>7, <3>1, <3>2, Zenon DEF Virgin, p
    <2>2. said[p] \in Nat
      BY <1>1, <1>2, Zenon DEF Types
    <2>3. Len(Received(e)') = 0 /\ said'[p] = said[p] /\ ~conn'[e].peer_fin
      BY <1>4, Zenon DEF Opens
    <2>. QED BY <2>1, <2>2, <2>3 DEF RcvInv, p
  <1>10. SndInv(p)' /\ RcvInv(p)'
    <2>1. said'[e] \in Nat /\ said[e] <= said'[e]
      BY <1>3, <1>7
    <2>2. /\ conn'[p] = conn[p] /\ call'[p] = call[p] /\ said'[p] = said[p] /\ got'[p] = got[p]
          /\ held'[p] = held[p] /\ \A s \in net' : s.to = e => s \in net \/ Reset(s)
          /\ conn'[e].state \in Early \cup {"DONE"}
      BY Zenon DEF Opens, Early, p
    <2>. QED BY <1>1, <1>6, <1>7, <2>1, <2>2, PeerKeeps, Zenon DEF p
  <1>. QED BY <1>1, <1>8, <1>9, <1>10, Zenon

\* net_tcp_send and the FIN of net_tcp_close on an established connection.
Speaks(e, g) ==
  /\ call[e] = "open" /\ conn[e].state = "ESTABLISHED" /\ got' = got
  /\ conn'[Peer(e)] = conn[Peer(e)] /\ call'[Peer(e)] = call[Peer(e)] /\ held'[Peer(e)] = held[Peer(e)]
  /\ said'[e] = said[e] + Len(g.data) /\ said'[e] <= Total[e] /\ said'[Peer(e)] = said[Peer(e)]
  /\ g.to = Peer(e) /\ g.seq = conn[e].snd_nxt /\ g.ack = conn[e].rcv_nxt /\ g.data \in Seq(Nat)
  /\ \/ /\ g.flags = {"ACK", "PSH"} /\ \A i \in 1 .. Len(g.data) : g.data[i] = said[e] + i
        /\ call'[e] \in {"send test", "send arp"}
     \/ /\ g.flags = {"FIN", "ACK"} /\ g.data = << >> /\ call'[e] \in Closing
  /\ conn'[e].state \in {"ESTABLISHED", "FIN_WAIT"}
  /\ conn'[e].rcv_nxt = conn[e].rcv_nxt /\ conn'[e].peer_fin = conn[e].peer_fin /\ conn'[e].rx = conn[e].rx
  /\ conn'[e].snd_nxt = Plus(conn[e].snd_nxt, Len(g.data) + (IF "FIN" \in g.flags THEN 1 ELSE 0))
  /\ conn'[e].retx_seq = conn'[e].snd_nxt
  /\ held'[e] # NoSegment => call'[e] \in {"send arp", "close arp"}
  /\ \A s \in net' : s.to = e => s \in net
  /\ \A s \in From(e)' : s \in From(e) \/ s = g

\* What a machine has received is a sequence, and counts.
LEMMA ReceivedTyped ==
  ASSUME Types, NEW e \in Machines
  PROVE  /\ Received(e) \in Seq(Nat) /\ Len(Received(e)) \in Nat /\ Fin(e) \in {0, 1}
         /\ Count(e) \in Nat /\ Count(e) = Len(Received(e)) + Fin(e)
  <1>1. got[e] \in Seq(Nat) /\ conn[e].rx \in Seq(Nat)
    BY Zenon DEF Types, Conns
  <1>2. Received(e) \in Seq(Nat) /\ Fin(e) \in {0, 1}
    BY <1>1 DEF Received, Fin
  <1>3. Len(Received(e)) \in Nat
    BY <1>2
  <1>. QED BY <1>2, <1>3 DEF Count

\* Sending the next data, or the FIN after the last, preserves what both machines
\* know of the streams: the numbers do not come round within a stream.
LEMMA SpeakKeeps ==
  ASSUME Short, TcpInv, NEW e \in Machines, NEW g, Speaks(e, g)
  PROVE  \A m \in Machines : SndInv(m)' /\ RcvInv(m)'
  <1>. DEFINE p == Peer(e)
              n == Len(g.data)
              f == IF "FIN" \in g.flags THEN 1 ELSE 0
  <1>1. p \in Machines /\ Peer(p) = e /\ p # e /\ Machines = {e, p}
    BY PeerFacts, Zenon
  <1>. HIDE DEF p
  <1>2. SndInv(e) /\ RcvInv(e) /\ Types /\ conn[e].in_use
    BY Zenon DEF TcpInv, PlaceInv, Speaks
  <1>3. /\ call[e] \notin Closing /\ said[e] \in Nat /\ n \in Nat /\ f \in {0, 1}
        /\ Isn[e] \in 0 .. SeqSpace - 1
    <2>1. call[e] \notin Closing /\ g.data \in Seq(Nat)
      BY Zenon DEF Closing, Speaks
    <2>2. said[e] \in Nat /\ Isn[e] \in 0 .. SeqSpace - 1
      BY <1>2, TcpAssumption, Zenon DEF Types
    <2>. QED BY <2>1, <2>2
  <1>4. conn[e].snd_nxt = Plus(Isn[e], 1 + said[e])
    <2>1. conn[e].snd_nxt = Plus(Isn[e], 1 + said[e] + 0)
      BY <1>2, <1>3, Zenon DEF SndInv, Unopened, Speaks
    <2>2. 1 + said[e] + 0 = 1 + said[e]
      BY <1>3
    <2>. QED BY <2>1, <2>2, Zenon
  <1>5. Synced(e)
    BY <1>2, Zenon DEF RcvInv, Virgin, Unopened, Speaks
  <1>6. Received(e)' = Received(e) /\ Count(e)' = Count(e)
    BY Zenon DEF Speaks, Received, Count, Fin
  <1>7. Count(e) \in Nat
    BY <1>2, ReceivedTyped, Zenon
  <1>8. /\ said'[e] = said[e] + n /\ said'[e] \in Nat /\ said[e] <= said'[e]
        /\ f = 1 => n = 0
        /\ f = 1 <=> call'[e] \in Closing
        /\ "FIN" \in g.flags => g.data = << >>
    <2>1. said'[e] = said[e] + n
      BY Zenon DEF Speaks
    <2>2. g.data = << >> => n = 0
      OBVIOUS
    <2>3. /\ "FIN" \in g.flags => g.data = << >>
          /\ "FIN" \in g.flags <=> call'[e] \in Closing
      BY Zenon DEF Speaks, Closing
    <2>4. f = 1 <=> "FIN" \in g.flags
      OBVIOUS
    <2>. HIDE DEF n, f
    <2>. QED BY <1>3, <2>1, <2>2, <2>3, <2>4
  <1>9. ASSUME NEW s \in From(e) PROVE SegOK(e, s)' /\ "FIN" \notin s.flags
    <2>1. SegOK(e, s)
      BY <1>2, Zenon DEF SndInv
    <2>2. "FIN" \notin s.flags
      BY <2>1, <1>3, Zenon DEF SegOK, Speaks
    <2>3. s.data # << >> => \E k \in 0 .. said'[e] : /\ k + Len(s.data) <= said'[e] /\ s.seq = Plus(Isn[e], 1 + k)
                                                     /\ \A i \in 1 .. Len(s.data) : s.data[i] = k + i
      <3>1. s.data \in Seq(Nat)
        BY <1>1, <1>2, Zenon DEF From, Types, Segments, Conns
      <3>. QED BY <1>3, <1>8, <2>1, <3>1 DEF SegOK
    <2>4. conn'[e].state \notin Unopened
      BY Zenon DEF Speaks, Unopened
    <2>. QED BY <1>6, <2>1, <2>2, <2>3, <2>4, Zenon DEF SegOK
  <1>10. SegOK(e, g)'
    <2>1. /\ g.to = Peer(e) /\ "SYN" \notin g.flags /\ "RST" \notin g.flags
          /\ conn'[e].state \notin Unopened
      BY Zenon DEF Speaks, Unopened
    <2>2. g.data # << >> => \E k \in 0 .. said'[e] : /\ k + Len(g.data) <= said'[e] /\ g.seq = Plus(Isn[e], 1 + k)
                                                     /\ \A i \in 1 .. Len(g.data) : g.data[i] = k + i
      <3>1. said[e] \in 0 .. said'[e] /\ said[e] + Len(g.data) <= said'[e]
        BY <1>3, <1>8
      <3>2. g.seq = Plus(Isn[e], 1 + said[e])
        BY <1>4, Zenon DEF Speaks
      <3>3. g.data # << >> => \A i \in 1 .. Len(g.data) : g.data[i] = said[e] + i
        BY Zenon DEF Speaks
      <3>. QED BY <3>1, <3>2, <3>3, Zenon
    <2>3. "FIN" \in g.flags => /\ g.data = << >> /\ g.seq = Plus(Isn[e], 1 + said'[e])
                               /\ call'[e] \in Closing \cup {"closed"}
      <3>. SUFFICES ASSUME "FIN" \in g.flags
                    PROVE  /\ g.data = << >> /\ g.seq = Plus(Isn[e], 1 + said'[e])
                           /\ call'[e] \in Closing \cup {"closed"}
        BY Zenon
      <3>2. f = 1
        BY Zenon
      <3>1. g.data = << >> /\ call'[e] \in Closing /\ g.seq = conn[e].snd_nxt
        BY <1>8, <3>2, Zenon DEF Speaks
      <3>. HIDE DEF n, f
      <3>3. n = 0 /\ said'[e] = said[e] + n
        BY <1>8, <3>2, Zenon
      <3>4. said'[e] = said[e]
        BY <1>3, <3>3
      <3>. QED BY <1>4, <3>1, <3>4, Zenon
    <2>4. \E a \in 0 .. Count(e)' : g.ack = Plus(Isn[Peer(e)], 1 + a)
      <3>1. g.ack = Plus(Isn[Peer(e)], 1 + Count(e))
        BY <1>5, Zenon DEF Synced, Speaks
      <3>. QED BY <1>6, <1>7, <3>1
    <2>. QED BY <2>1, <2>2, <2>3, <2>4, Zenon DEF SegOK
  <1>11. SndInv(e)'
    <2>1. conn'[e].snd_nxt = Plus(Isn[e], 1 + said'[e] + (IF call'[e] \in Closing THEN 1 ELSE 0))
      <3>1. conn'[e].snd_nxt = Plus(Plus(Isn[e], 1 + said[e]), n + f)
        BY <1>4, Zenon DEF Speaks
      <3>. HIDE DEF n, f
      <3>2. 1 + said[e] \in Nat /\ n + f \in Nat /\ (1 + said[e]) + (n + f) < SeqSpace
        <4>1. 2 * (Total[e] + 2) <= SeqSpace /\ Total[e] \in Nat /\ said'[e] <= Total[e]
          BY TcpAssumption, Zenon DEF Short, Speaks
        <4>2. said'[e] = said[e] + n /\ said[e] \in Nat /\ n \in Nat /\ f \in {0, 1}
          BY <1>3, <1>8, Zenon
        <4>. QED BY <4>1, <4>2, TcpAssumption
      <3>3. Plus(Plus(Isn[e], 1 + said[e]), n + f) = Plus(Isn[e], (1 + said[e]) + (n + f))
        BY <1>3, <3>2, PlusPlus, Zenon
      <3>4. (1 + said[e]) + (n + f) = 1 + said'[e] + (IF call'[e] \in Closing THEN 1 ELSE 0)
        BY <1>3, <1>8
      <3>. QED BY <3>1, <3>3, <3>4, Zenon
    <2>2. /\ conn'[e].state \notin Early /\ call'[e] \notin Before
          /\ held'[e] # NoSegment => call'[e] \in {"connect arp", "send arp", "close arp"}
          /\ conn'[e].snd_nxt = conn'[e].retx_seq
      BY Zenon DEF Speaks, Early, Before, Closing
    <2>3. \A s \in From(e)' : SegOK(e, s)'
      BY <1>9, <1>10, Zenon DEF Speaks
    <2>. QED BY <2>1, <2>2, <2>3, Zenon DEF SndInv
  <1>12. RcvInv(e)'
    <2>1. Synced(e)'
      BY <1>5, <1>6, Zenon DEF Synced, Speaks, Unopened
    <2>2. said'[p] = said[p] /\ call'[p] = call[p] /\ conn'[e].peer_fin = conn[e].peer_fin
      BY Zenon DEF Speaks, p
    <2>. QED BY <1>2, <1>6, <2>1, <2>2, Zenon DEF RcvInv, p
  <1>13. SndInv(p)' /\ RcvInv(p)'
    <2>1. ~Virgin(p)
      BY <1>1, Zenon DEF Virgin, Speaks, Early
    <2>2. /\ conn'[p] = conn[p] /\ call'[p] = call[p] /\ said'[p] = said[p] /\ got'[p] = got[p]
          /\ held'[p] = held[p] /\ \A s \in net' : s.to = e => s \in net \/ Reset(s)
          /\ call[e] \notin Closing \cup {"closed"}
      BY Zenon DEF Speaks, Closing, p
    <2>. QED BY <1>1, <1>8, <2>1, <2>2, PeerKeeps, Zenon DEF p
  <1>. QED BY <1>1, <1>11, <1>12, <1>13, Zenon

----------------------------------------------------------------------------
(* Segments that arrive.                                                   *)

\* Segment s reaches machine e, whose connection becomes d.
Arrives(e, s, d) ==
  /\ s \in net /\ s.to = e /\ conn[e].state \notin Unopened
  /\ conn'[e] = d /\ got' = got

\* What a segment adds to the stream of the machine it reaches: A are the states in
\* which it is acknowledged.
Progress(e, d, A) ==
  /\ Len(Received(e)) <= Len(Received(e)') /\ Count(e) <= Count(e)' /\ Count(e)' \in Nat
  /\ \A i \in 1 .. Len(Received(e)') : (Received(e)')[i] = i
  /\ Len(Received(e)') <= said[Peer(e)]
  /\ d.peer_fin => Len(Received(e)') = said[Peer(e)] /\ call[Peer(e)] \in Closing \cup {"closed"}
  /\ \A x \in A : x.rcv_nxt = Plus(Isn[Peer(e)], 1 + Count(e)')
  /\ \/ /\ d.state \notin Unopened \cup {"SYN_SENT"}
        /\ d.rcv_nxt = Plus(Isn[Peer(e)], 1 + Count(e)')
     \/ /\ Virgin(e) /\ d.state \in {"SYN_SENT", "DONE"} /\ A = {}
        /\ Received(e)' = Received(e) /\ ~d.peer_fin

\* A segment that tcp_input takes was sent by the peer, and is what the peer may
\* send.
LEMMA ArrivalFacts ==
  ASSUME Short, TcpInv, NEW e \in Machines, NEW s, NEW d, Arrives(e, s, d)
  PROVE  /\ SegOK(Peer(e), s) /\ s \in From(Peer(e)) /\ s \in Segments /\ s.data \in Seq(Nat)
         /\ RcvInv(e) /\ Isn[Peer(e)] \in 0 .. SeqSpace - 1 /\ s.seq \in Nat
         /\ said[Peer(e)] \in Nat /\ said[Peer(e)] + 2 < SeqSpace
         /\ got[e] \in Seq(Nat) /\ conn[e].rx \in Seq(Nat)
         /\ conn[e].peer_fin \in BOOLEAN
  <1>1. Peer(e) \in Machines /\ Peer(Peer(e)) = e
    BY PeerFacts, Zenon
  <1>2. Types /\ SndInv(Peer(e)) /\ RcvInv(e)
    BY <1>1, Zenon DEF TcpInv
  <1>3. s \in From(Peer(e)) /\ s \in Segments
    BY <1>1, <1>2, Zenon DEF Arrives, From, Types
  <1>4. SegOK(Peer(e), s) /\ s.data \in Seq(Nat) /\ s.seq \in Nat
    BY <1>2, <1>3, Zenon DEF SndInv, Segments
  <1>5. got[e] \in Seq(Nat) /\ conn[e].rx \in Seq(Nat) /\ conn[e].peer_fin \in BOOLEAN
    BY <1>2, Zenon DEF Types, Conns
  <1>6. said[Peer(e)] \in Nat /\ said[Peer(e)] <= Total[Peer(e)]
    BY <1>1, <1>2, Zenon DEF Types
  <1>7. 2 * (Total[Peer(e)] + 2) <= SeqSpace /\ Total[Peer(e)] \in Nat
        /\ Isn[Peer(e)] \in 0 .. SeqSpace - 1
    BY <1>1, TcpAssumption, Zenon DEF Short
  <1>8. said[Peer(e)] + 2 < SeqSpace
    BY <1>6, <1>7, TcpAssumption
  <1>. QED BY <1>2, <1>3, <1>4, <1>5, <1>6, <1>7, <1>8, Zenon

\* A segment that brings nothing: old data, data that does not fit, a bare
\* acknowledgement, a reset.
LEMMA NothingNew ==
  ASSUME Short, TcpInv, NEW e \in Machines, NEW s, NEW d, NEW A, Arrives(e, s, d),
         d.rcv_nxt = conn[e].rcv_nxt, d.rx = conn[e].rx, d.peer_fin = conn[e].peer_fin,
         \A x \in A : s.data # << >> /\ x.rcv_nxt = conn[e].rcv_nxt,
         \/ d.state = conn[e].state
         \/ d.state = "DONE"
         \/ d.state = "ESTABLISHED" /\ conn[e].state = "SYN_RCVD"
  PROVE  Progress(e, d, A)
  <1>1. /\ SegOK(Peer(e), s) /\ RcvInv(e) /\ s.data \in Seq(Nat) /\ said[Peer(e)] \in Nat
        /\ Types
    BY ArrivalFacts, Zenon DEF TcpInv
  <1>2. Received(e)' = Received(e) /\ Count(e)' = Count(e)
    BY Zenon DEF Arrives, Received, Count, Fin
  <1>3. Count(e) \in Nat /\ Len(Received(e)) \in Nat
    BY <1>1, ReceivedTyped, Zenon
  <1>4. CASE Synced(e)
    <2>1. /\ conn[e].state \notin Unopened \cup {"SYN_SENT"}
          /\ conn[e].rcv_nxt = Plus(Isn[Peer(e)], 1 + Count(e))
      BY <1>4, Zenon DEF Synced
    <2>2. d.state \notin Unopened \cup {"SYN_SENT"}
      BY <2>1, Zenon DEF Unopened
    <2>. QED BY <1>1, <1>2, <1>3, <2>1, <2>2 DEF RcvInv, Progress
  <1>5. CASE Virgin(e)
    <2>1. s.data = << >>
      <3>1. said[Peer(e)] = 0
        BY <1>5, Zenon DEF Virgin
      <3>2. s.data # << >> => Len(s.data) \in Nat /\ Len(s.data) > 0
        BY <1>1
      <3>3. s.data # << >> => \E k \in 0 .. 0 : k + Len(s.data) <= 0
        BY <1>1, <3>1, Zenon DEF SegOK
      <3>. QED BY <3>2, <3>3
    <2>2. A = {} /\ d.state \in {"SYN_SENT", "DONE"} /\ ~d.peer_fin
      BY <1>5, <2>1, Zenon DEF Virgin, Arrives, Unopened
    <2>. QED BY <1>1, <1>2, <1>3, <1>5, <2>2 DEF RcvInv, Progress
  <1>. QED BY <1>1, <1>4, <1>5, Zenon DEF RcvInv

\* The answer to a SYN.
LEMMA Answered ==
  ASSUME Short, TcpInv, NEW e \in Machines, NEW s, NEW d, NEW A, Arrives(e, s, d),
         conn[e].state = "SYN_SENT", "SYN" \in s.flags, d.rcv_nxt = Plus(s.seq, 1),
         d.rx = conn[e].rx, d.peer_fin = conn[e].peer_fin, A = {d}, d.state = "ESTABLISHED"
  PROVE  Progress(e, d, A)
  <1>1. /\ SegOK(Peer(e), s) /\ RcvInv(e) /\ said[Peer(e)] \in Nat
    BY ArrivalFacts, Zenon
  <1>2. Virgin(e)
    BY <1>1, Zenon DEF RcvInv, Synced
  <1>3. Received(e)' = << >> /\ Received(e) = << >> /\ ~d.peer_fin /\ ~conn[e].peer_fin /\ conn'[e] = d
    BY <1>2, Zenon DEF Arrives, Received, Virgin
  <1>4. Len(Received(e)') = 0 /\ Len(Received(e)) = 0 /\ Count(e)' = 0 /\ Count(e) = 0
    BY <1>3 DEF Count, Fin
  <1>5. d.rcv_nxt = Plus(Isn[Peer(e)], 1 + 0)
    BY <1>1 DEF SegOK
  <1>. QED BY <1>1, <1>3, <1>4, <1>5 DEF Progress, Unopened

\* Data that is next in order: it starts where the stream received so far ends.
LEMMA DataTaken ==
  ASSUME Short, TcpInv, NEW e \in Machines, NEW s, NEW d, NEW A, Arrives(e, s, d),
         conn[e].state # "SYN_SENT", s.data # << >>, s.seq = conn[e].rcv_nxt,
         d.rcv_nxt = Plus(conn[e].rcv_nxt, Len(s.data)), d.rx = conn[e].rx \o s.data,
         d.peer_fin = conn[e].peer_fin, \A x \in A : x.rcv_nxt = d.rcv_nxt,
         \/ d.state = conn[e].state
         \/ d.state = "DONE"
         \/ d.state = "ESTABLISHED" /\ conn[e].state = "SYN_RCVD"
  PROVE  Progress(e, d, A)
  <1>. DEFINE q == Peer(e)
              r == Received(e)
              n == Len(s.data)
  <1>1. /\ SegOK(q, s) /\ RcvInv(e) /\ s.data \in Seq(Nat) /\ said[q] \in Nat /\ said[q] + 2 < SeqSpace
        /\ Isn[q] \in 0 .. SeqSpace - 1 /\ got[e] \in Seq(Nat) /\ conn[e].rx \in Seq(Nat) /\ Types
    BY ArrivalFacts, Zenon DEF TcpInv
  <1>2. r \in Seq(Nat) /\ Len(r) \in Nat /\ Fin(e) \in {0, 1} /\ Count(e) = Len(r) + Fin(e)
    BY <1>1, ReceivedTyped, Zenon
  <1>3. n \in Nat /\ n > 0
    BY <1>1
  <1>4. PICK k \in 0 .. said[q] : /\ k + n <= said[q] /\ s.seq = Plus(Isn[q], 1 + k)
                                  /\ \A i \in 1 .. n : s.data[i] = k + i
    BY <1>1, Zenon DEF SegOK
  <1>. HIDE DEF n, q
  <1>0. said[q] \in Nat /\ said[q] + 2 < SeqSpace /\ SeqSpace \in Nat /\ k + n <= said[q] /\ k \in Nat
    BY <1>1, <1>4, TcpAssumption
  <1>5. Synced(e) /\ d.state \notin Unopened \cup {"SYN_SENT"}
    <2>1. ~Virgin(e)
      <3>1. said[q] > 0
        BY <1>1, <1>3, <1>4
      <3>. QED BY <3>1 DEF Virgin, q
    <2>. QED BY <1>1, <2>1, Zenon DEF RcvInv, Synced, Unopened
  <1>6. /\ Len(r) <= said[q] /\ (conn[e].peer_fin => Len(r) = said[q]) /\ (Fin(e) = 1 <=> conn[e].peer_fin)
        /\ \A i \in 1 .. Len(r) : r[i] = i
    <2>1. Fin(e) = 1 <=> conn[e].peer_fin
      BY DEF Fin
    <2>. QED BY <1>1, <2>1, Zenon DEF RcvInv, q
  <1>7. k = Count(e)
    <2>1. conn[e].rcv_nxt = Plus(Isn[q], 1 + Count(e))
      BY <1>5, Zenon DEF Synced, q
    <2>2. 1 + k \in Nat /\ 1 + Count(e) \in Nat /\ 1 + k < SeqSpace /\ 1 + Count(e) < SeqSpace
      <3>1. /\ Count(e) = Len(r) + Fin(e) /\ Len(r) \in Nat /\ Fin(e) \in {0, 1}
            /\ Len(r) <= said[q]
        BY <1>2, <1>6, Zenon
      <3>. HIDE DEF r
      <3>. QED BY <1>0, <1>3, <3>1
    <2>3. Plus(Isn[q], 1 + k) = Plus(Isn[q], 1 + Count(e))
      BY <1>4, <2>1, Zenon
    <2>4. 1 + k = 1 + Count(e)
      BY <1>1, <2>2, <2>3, PlusInjective, Zenon
    <2>. QED BY <1>2, <1>4, <2>4
  <1>8. Fin(e) = 0 /\ k = Len(r) /\ ~conn[e].peer_fin
    BY <1>1, <1>2, <1>3, <1>4, <1>6, <1>7
  <1>9. Received(e)' = r \o s.data
    <2>1. Received(e)' = got[e] \o (conn[e].rx \o s.data)
      BY Zenon DEF Arrives, Received
    <2>2. got[e] \o (conn[e].rx \o s.data) = (got[e] \o conn[e].rx) \o s.data
      BY <1>1, ConcatConcat, Zenon
    <2>. QED BY <2>1, <2>2, Zenon DEF Received
  <1>. HIDE DEF r
  <1>10. /\ Len(Received(e)') = k + n
         /\ \A i \in 1 .. k + n : (Received(e)')[i] = IF i <= k THEN r[i] ELSE s.data[i - k]
    BY <1>1, <1>2, <1>8, <1>9, Concat DEF n
  <1>11. \A i \in 1 .. k + n : (Received(e)')[i] = i
    <2>. TAKE i \in 1 .. k + n
    <2>1. CASE i <= k
      BY <1>4, <1>6, <1>8, <1>10, <2>1
    <2>2. CASE i > k
      <3>1. i - k \in 1 .. n /\ k + (i - k) = i
        BY <1>3, <1>4, <2>2
      <3>2. s.data[i - k] = i
        BY <1>4, <3>1, Zenon
      <3>. QED BY <1>3, <1>4, <1>10, <2>2, <3>2
    <2>. QED BY <1>3, <1>4, <2>1, <2>2
  <1>12. Count(e)' = k + n
    <2>1. ~conn'[e].peer_fin
      BY <1>8, Zenon DEF Arrives
    <2>. QED BY <1>3, <1>4, <1>10, <2>1 DEF Count, Fin
  <1>13. d.rcv_nxt = Plus(Isn[q], 1 + Count(e)')
    <2>1. d.rcv_nxt = Plus(Plus(Isn[q], 1 + k), n)
      BY <1>4, Zenon DEF n
    <2>2. 1 + k \in Nat /\ (1 + k) + n < SeqSpace /\ (1 + k) + n = 1 + (k + n)
      BY <1>0, <1>3
    <2>3. Plus(Plus(Isn[q], 1 + k), n) = Plus(Isn[q], (1 + k) + n)
      BY <1>1, <1>3, <2>2, PlusPlus, Zenon
    <2>. QED BY <1>12, <2>1, <2>2, <2>3, Zenon
  <1>14. Len(r) <= k + n /\ Count(e) <= k + n /\ k + n \in Nat
    BY <1>2, <1>3, <1>4, <1>7, <1>8
  <1>. QED BY <1>4, <1>5, <1>8, <1>10, <1>11, <1>12, <1>13, <1>14, Zenon DEF Progress, r, q

\* A FIN that is next in order: everything the peer has said was received before.
LEMMA FinTaken ==
  ASSUME Short, TcpInv, NEW e \in Machines, NEW s, NEW d, NEW A, Arrives(e, s, d),
         conn[e].state # "SYN_SENT", "FIN" \in s.flags, Plus(s.seq, 0) = conn[e].rcv_nxt,
         d.rcv_nxt = Plus(conn[e].rcv_nxt, 1), d.rx = conn[e].rx, d.peer_fin,
         \A x \in A : x.rcv_nxt = d.rcv_nxt,
         \/ d.state = conn[e].state
         \/ d.state = "DONE"
         \/ d.state = "ESTABLISHED" /\ conn[e].state = "SYN_RCVD"
  PROVE  Progress(e, d, A)
  <1>. DEFINE q == Peer(e)
              r == Received(e)
  <1>1. /\ SegOK(q, s) /\ RcvInv(e) /\ said[q] \in Nat /\ said[q] + 2 < SeqSpace /\ s \in From(q)
        /\ Isn[q] \in 0 .. SeqSpace - 1 /\ Types
    BY ArrivalFacts, Zenon DEF TcpInv
  <1>2. Len(r) \in Nat /\ Fin(e) \in {0, 1} /\ Count(e) = Len(r) + Fin(e)
    BY <1>1, ReceivedTyped, Zenon
  <1>3. s.seq = Plus(Isn[q], 1 + said[q]) /\ call[q] \in Closing \cup {"closed"}
    BY <1>1, Zenon DEF SegOK
  <1>4. Synced(e) /\ d.state \notin Unopened \cup {"SYN_SENT"}
    <2>1. ~Virgin(e)
      BY <1>1, Zenon DEF Virgin
    <2>. QED BY <1>1, <2>1, Zenon DEF RcvInv, Synced, Unopened
  <1>5. /\ Len(r) <= said[q] /\ (conn[e].peer_fin => Len(r) = said[q]) /\ (Fin(e) = 1 <=> conn[e].peer_fin)
        /\ \A i \in 1 .. Len(r) : r[i] = i
    <2>1. Fin(e) = 1 <=> conn[e].peer_fin
      BY DEF Fin
    <2>. QED BY <1>1, <2>1, Zenon DEF RcvInv, q
  <1>6. Received(e)' = r
    BY Zenon DEF Arrives, Received
  <1>7. conn[e].rcv_nxt = Plus(Isn[q], 1 + Count(e))
    BY <1>4, Zenon DEF Synced, q
  <1>. HIDE DEF r, q
  <1>0. said[q] \in Nat /\ said[q] + 2 < SeqSpace /\ SeqSpace \in Nat
    BY <1>1, TcpAssumption, Zenon
  <1>8. Count(e) = said[q]
    <2>1. 1 + said[q] \in Nat /\ 1 + Count(e) \in Nat /\ 1 + said[q] < SeqSpace /\ 1 + Count(e) < SeqSpace
      BY <1>0, <1>2, <1>5
    <2>2. (1 + said[q]) + 0 = 1 + said[q]
      BY <1>0
    <2>3. Plus(Plus(Isn[q], 1 + said[q]), 0) = Plus(Isn[q], 1 + said[q])
      BY <1>1, <2>1, <2>2, PlusPlus
    <2>4. Plus(Isn[q], 1 + said[q]) = Plus(Isn[q], 1 + Count(e))
      BY <1>3, <1>7, <2>3, Zenon
    <2>5. 1 + said[q] = 1 + Count(e)
      BY <1>1, <2>1, <2>4, PlusInjective, Zenon
    <2>. QED BY <1>0, <1>2, <2>5
  <1>9. Len(r) = said[q]
    BY <1>0, <1>2, <1>5, <1>8
  <1>10. Count(e)' = said[q] + 1
    BY <1>6, <1>9, Zenon DEF Count, Fin, Arrives
  <1>11. d.rcv_nxt = Plus(Isn[q], 1 + Count(e)')
    <2>1. 1 + said[q] \in Nat /\ (1 + said[q]) + 1 < SeqSpace /\ (1 + said[q]) + 1 = 1 + (said[q] + 1)
      BY <1>0
    <2>2. Plus(Plus(Isn[q], 1 + said[q]), 1) = Plus(Isn[q], (1 + said[q]) + 1)
      BY <1>1, <2>1, PlusPlus, Zenon
    <2>. QED BY <1>7, <1>8, <1>10, <2>1, <2>2, Zenon
  <1>12. Count(e) <= Count(e)' /\ Count(e)' \in Nat
    BY <1>0, <1>8, <1>10
  <1>. QED BY <1>0, <1>3, <1>4, <1>5, <1>6, <1>9, <1>11, <1>12, Zenon DEF Progress, r, q

\* Whatever tcp_input does with a segment for a connection, the stream of the machine
\* it reaches grows by what comes next, or not at all.
LEMMA InputProgress ==
  ASSUME Short, TcpInv, NEW e \in Machines, NEW s, NEW d, NEW A, Arrives(e, s, d),
         InputResult(conn[e], s, d, A)
  PROVE  Progress(e, d, A)
  <1>. DEFINE c == conn[e]
              Same == /\ d.rcv_nxt = c.rcv_nxt /\ d.rx = c.rx /\ d.peer_fin = c.peer_fin
                      /\ \A x \in A : s.data # << >> /\ x.rcv_nxt = c.rcv_nxt
              Open == /\ c.state = "SYN_SENT" /\ "SYN" \in s.flags
                      /\ d.rcv_nxt = Plus(s.seq, 1) /\ d.rx = c.rx /\ d.peer_fin = c.peer_fin
                      /\ A = {d} /\ d.state = "ESTABLISHED"
              Data == /\ c.state # "SYN_SENT" /\ s.data # << >> /\ s.seq = c.rcv_nxt
                      /\ d.rcv_nxt = Plus(c.rcv_nxt, Len(s.data)) /\ d.rx = c.rx \o s.data
                      /\ d.peer_fin = c.peer_fin /\ \A x \in A : x.rcv_nxt = d.rcv_nxt
              End == /\ c.state # "SYN_SENT" /\ "FIN" \in s.flags
                     /\ Plus(s.seq, 0) = c.rcv_nxt
                     /\ d.rcv_nxt = Plus(c.rcv_nxt, 1) /\ d.rx = c.rx /\ d.peer_fin
                     /\ \A x \in A : x.rcv_nxt = d.rcv_nxt
              State == \/ d.state = c.state
                       \/ d.state = "DONE"
                       \/ d.state = "ESTABLISHED" /\ c.state = "SYN_RCVD"
  <1>1. (Same /\ State) \/ Open \/ (Data /\ State) \/ (End /\ State)
    BY Zenon DEF InputResult, InOrder
  <1>2. CASE Same /\ State
    BY <1>2, NothingNew, Zenon
  <1>3. CASE Open
    BY <1>3, Answered, Zenon
  <1>4. CASE Data /\ State
    BY <1>4, DataTaken, Zenon
  <1>5. CASE End /\ State
    BY <1>5, FinTaken, Zenon
  <1>. QED BY <1>1, <1>2, <1>3, <1>4, <1>5, Zenon

\* tcp_input with s leaves connection d, and acknowledges in the states A.
Takes(e, s, d, A) ==
  /\ Arrives(e, s, d) /\ InputResult(conn[e], s, d, A)
  /\ conn'[Peer(e)] = conn[Peer(e)] /\ call' = call /\ said' = said /\ held' = held
  /\ \A x \in net' : x \in net \/ \E y \in A : x = Segment(e, y, {"ACK"}, << >>)

\* tcp_input on a known connection preserves what both machines know of the streams.
LEMMA InputKeeps ==
  ASSUME Short, TcpInv, NEW e \in Machines, NEW s, NEW d, NEW A, Takes(e, s, d, A)
  PROVE  \A m \in Machines : SndInv(m)' /\ RcvInv(m)'
  <1>. DEFINE p == Peer(e)
              c == conn[e]
  <1>1. p \in Machines /\ Peer(p) = e /\ p # e /\ Machines = {e, p}
    BY PeerFacts, Zenon
  <1>. HIDE DEF p
  <1>2. SndInv(e) /\ RcvInv(e) /\ Types
    BY Zenon DEF TcpInv
  <1>3. Arrives(e, s, d) /\ Progress(e, d, A) /\ s \in From(p) /\ conn'[e] = d
    BY InputProgress, ArrivalFacts, Zenon DEF Takes, Arrives, p
  <1>4. /\ d.in_use = c.in_use /\ d.snd_nxt = c.snd_nxt /\ d.retx_seq = c.retx_seq
        /\ d.retx \in {c.retx, NoSegment}
        /\ d.state \in {c.state, "DONE", "ESTABLISHED"} /\ c.state \notin Unopened
        /\ d.state = c.state \/ d.state = "DONE" \/ "ACK" \in s.flags
    BY Zenon DEF Takes, Arrives, InputResult
  <1>5. d.state \notin Unopened /\ (d.state \in Early => d.state = c.state)
    BY <1>4, Zenon DEF Unopened, Early
  <1>6. \A x \in From(e)' : x \in From(e) \/ \E y \in A : x = Segment(e, y, {"ACK"}, << >>)
    BY <1>3, <1>4, Zenon DEF From, Takes
  <1>7. \A x \in From(p)' : x \in From(p)
    <2>1. \A x \in net' : x.to = e => x \in net
      BY <1>1 DEF Takes, Segment, p
    <2>. QED BY <1>1, <2>1, Zenon DEF From, Takes, p
  <1>8. ASSUME NEW x \in From(e) PROVE SegOK(e, x)'
    <2>1. SegOK(e, x)
      BY <1>2, Zenon DEF SndInv
    <2>2. said' = said /\ call' = call
      BY Zenon DEF Takes
    <2>3. "ACK" \in x.flags => \E a \in 0 .. Count(e)' : x.ack = Plus(Isn[Peer(e)], 1 + a)
      <3>1. Count(e) <= Count(e)' /\ Count(e)' \in Nat /\ Count(e) \in Nat
        BY <1>2, <1>3, ReceivedTyped, Zenon DEF Progress
      <3>2. \A a \in 0 .. Count(e) : a \in 0 .. Count(e)'
        BY <3>1
      <3>. QED BY <2>1, <3>2, Zenon DEF SegOK
    <2>. QED BY <1>3, <1>5, <2>1, <2>2, <2>3, Zenon DEF SegOK
  <1>9. ASSUME NEW y \in A PROVE SegOK(e, Segment(e, y, {"ACK"}, << >>))'
    <2>. DEFINE g == Segment(e, y, {"ACK"}, << >>)
    <2>1. g.to = Peer(e) /\ g.flags = {"ACK"} /\ g.data = << >> /\ g.ack = y.rcv_nxt
      BY Zenon DEF Segment
    <2>. HIDE DEF g
    <2>2. \E a \in 0 .. Count(e)' : g.ack = Plus(Isn[Peer(e)], 1 + a)
      <3>1. Count(e)' \in 0 .. Count(e)'
        BY <1>3 DEF Progress
      <3>. QED BY <1>3, <1>9, <2>1, <3>1, Zenon DEF Progress
    <2>3. SegOK(e, g)'
      BY <1>3, <1>5, <2>1, <2>2, Zenon DEF SegOK
    <2>. QED BY <2>3, Zenon DEF g
  <1>10. SndInv(e)'
    <2>1. \A x \in From(e)' : SegOK(e, x)'
      BY <1>6, <1>8, <1>9, Zenon
    <2>. QED BY <1>2, <1>3, <1>4, <1>5, <2>1, Zenon DEF SndInv, Takes, Arrives
  <1>11. RcvInv(e)'
    <2>1. CASE /\ d.state \notin Unopened \cup {"SYN_SENT"}
               /\ d.rcv_nxt = Plus(Isn[Peer(e)], 1 + Count(e)')
      <3>1. Synced(e)'
        BY <1>3, <2>1, Zenon DEF Synced
      <3>. QED BY <1>3, <3>1, Zenon DEF RcvInv, Progress, Takes
    <2>2. CASE /\ Virgin(e) /\ d.state \in {"SYN_SENT", "DONE"} /\ A = {}
               /\ Received(e)' = Received(e) /\ ~d.peer_fin
      <3>1. Virgin(e)'
        <4>1. \A x \in From(e)' : x \in From(e)
          BY <1>6, <2>2, Zenon
        <4>2. conn'[p] = conn[p] /\ said' = said /\ call' = call
          BY Zenon DEF Takes, p
        <4>. QED BY <1>3, <1>7, <2>2, <4>1, <4>2, Zenon DEF Virgin, p
      <3>. QED BY <1>3, <3>1, Zenon DEF RcvInv, Progress, Takes
    <2>. QED BY <1>3, <2>1, <2>2, Zenon DEF Progress
  <1>12. SndInv(p)' /\ RcvInv(p)'
    <2>1. said[e] \in Nat /\ said' = said
      BY <1>2, Zenon DEF Types, Takes
    <2>2. said'[e] \in Nat /\ said[e] <= said'[e] /\ said'[p] = said[p] /\ said'[e] = said[e]
      BY <2>1
    <2>3. Virgin(p) => /\ conn'[e].state \in Early \cup {"DONE"} /\ said'[e] = 0
                       /\ call'[e] \notin Closing /\ \A x \in From(e)' : "FIN" \notin x.flags
      <3>. SUFFICES ASSUME Virgin(p)
                    PROVE  /\ conn'[e].state \in Early \cup {"DONE"} /\ said'[e] = 0
                           /\ call'[e] \notin Closing /\ \A x \in From(e)' : "FIN" \notin x.flags
        BY Zenon
      <3>1. /\ conn[e].state \in Early \cup {"DONE"} /\ said[e] = 0 /\ call[e] \notin Closing
            /\ \A x \in From(e) : "FIN" \notin x.flags
            /\ "ACK" \notin s.flags
        BY <1>1, <1>3, Zenon DEF Virgin
      <3>2. \A x \in From(e)' : "FIN" \notin x.flags
        BY <1>6, <3>1 DEF Segment
      <3>. QED BY <1>3, <1>4, <2>2, <3>1, <3>2, Zenon DEF Takes
    <2>4. /\ conn'[p] = conn[p] /\ call' = call /\ got' = got /\ held' = held
      BY <1>3, Zenon DEF Takes, Arrives, p
    <2>5. \A x \in net' : x.to = e => x \in net \/ Reset(x)
      BY <1>1 DEF Takes, Segment, p
    <2>. QED BY <1>1, <2>2, <2>3, <2>4, <2>5, PeerKeeps, Zenon DEF p
  <1>. QED BY <1>1, <1>10, <1>11, <1>12, Zenon

\* A listener takes a SYN and answers it with g.
Listens(e, s, g) ==
  /\ s \in net /\ s.to = e /\ "SYN" \in s.flags /\ conn[e].state = "LISTEN"
  /\ conn'[Peer(e)] = conn[Peer(e)] /\ call' = call /\ said' = said /\ held' = held /\ got' = got
  /\ conn'[e].state = "SYN_RCVD" /\ conn'[e].rcv_nxt = Plus(s.seq, 1)
  /\ conn'[e].rx = conn[e].rx /\ conn'[e].peer_fin = conn[e].peer_fin
  /\ conn'[e].snd_nxt = Plus(Isn[e], 1) /\ conn'[e].retx_seq = conn'[e].snd_nxt /\ conn'[e].retx = g
  /\ g.to = Peer(e) /\ g.flags = {"SYN", "ACK"} /\ g.seq = Isn[e] /\ g.ack = Plus(s.seq, 1) /\ g.data = << >>
  /\ \A x \in net' : x \in net \/ x = g

\* tcp_input on a listener preserves what both machines know of the streams.
LEMMA ListenKeeps ==
  ASSUME TcpInv, NEW e \in Machines, NEW s, NEW g, Listens(e, s, g)
  PROVE  \A m \in Machines : SndInv(m)' /\ RcvInv(m)'
  <1>. DEFINE p == Peer(e)
  <1>1. p \in Machines /\ Peer(p) = e /\ p # e /\ Machines = {e, p}
    BY PeerFacts, Zenon
  <1>. HIDE DEF p
  <1>2. SndInv(e) /\ RcvInv(e) /\ SndInv(p) /\ Types
    BY <1>1, Zenon DEF TcpInv
  <1>3. said[e] = 0 /\ call[e] \notin Closing /\ Virgin(e)
    BY <1>2, Zenon DEF SndInv, RcvInv, Synced, Unopened, Early, Listens
  <1>4. said'[e] = 0 /\ call' = call /\ got' = got /\ held' = held /\ said' = said /\ conn'[p] = conn[p]
    BY <1>3, Zenon DEF Listens, p
  <1>5. Received(e)' = << >> /\ Count(e)' = 0 /\ Count(e) = 0 /\ ~conn'[e].peer_fin
    <2>1. Received(e) = << >> /\ ~conn[e].peer_fin
      BY <1>3, Zenon DEF Virgin
    <2>2. Received(e)' = Received(e) /\ conn'[e].peer_fin = conn[e].peer_fin
      BY Zenon DEF Received, Listens
    <2>. QED BY <2>1, <2>2 DEF Count, Fin
  <1>6. s.seq = Isn[p]
    <2>1. s \in From(p)
      BY <1>1, Zenon DEF From, Listens
    <2>. QED BY <1>2, <2>1, Zenon DEF SndInv, SegOK, Listens
  <1>7. \A x \in From(e)' : x \in From(e) \/ x = g
    BY Zenon DEF From, Listens
  <1>8. ASSUME NEW x \in From(e)' PROVE SegOK(e, x)' /\ "FIN" \notin x.flags
    <2>1. CASE x \in From(e)
      <3>1. SegOK(e, x) /\ "ACK" \notin x.flags
        BY <1>2, <1>3, <2>1, Zenon DEF SndInv, Virgin
      <3>2. "FIN" \notin x.flags
        BY <3>1, Zenon DEF SegOK, Listens, Unopened
      <3>3. conn'[e].state \notin Unopened
        BY Zenon DEF Listens, Unopened
      <3>. QED BY <1>4, <3>1, <3>2, <3>3, Zenon DEF SegOK
    <2>2. CASE x = g
      <3>1. g.ack = Plus(Isn[Peer(e)], 1 + 0) /\ 0 \in 0 .. Count(e)'
        BY <1>5, <1>6 DEF Listens, p
      <3>. QED BY <2>2, <3>1, Zenon DEF SegOK, Listens, Unopened
    <2>. QED BY <1>7, <2>1, <2>2, Zenon
  <1>9. SndInv(e)'
    <2>1. 1 + 0 + 0 = 1
      OBVIOUS
    <2>2. conn'[e].snd_nxt = Plus(Isn[e], 1 + said'[e] + (IF call'[e] \in Closing THEN 1 ELSE 0))
      BY <1>3, <1>4, <2>1, Zenon DEF Listens
    <2>3. conn'[e].snd_nxt = conn'[e].retx_seq
      BY Zenon DEF Listens
    <2>. QED BY <1>2, <1>3, <1>4, <1>8, <2>2, <2>3, Zenon DEF SndInv
  <1>10. RcvInv(e)'
    <2>1. conn'[e].rcv_nxt = Plus(Isn[p], 1 + 0)
      BY <1>6 DEF Listens
    <2>2. Synced(e)'
      BY <1>5, <2>1, Zenon DEF Synced, Listens, Unopened, p
    <2>3. said[p] \in Nat /\ Len(Received(e)') = 0
      BY <1>1, <1>2, <1>5, Zenon DEF Types
    <2>. QED BY <1>4, <1>5, <2>2, <2>3 DEF RcvInv, p
  <1>11. SndInv(p)' /\ RcvInv(p)'
    <2>1. said'[e] \in Nat /\ said[e] <= said'[e] /\ said'[e] = said[e]
      BY <1>3, <1>4
    <2>2. \A x \in net' : x.to = e => x \in net \/ Reset(x)
      BY <1>1, Zenon DEF Listens, p
    <2>3. conn'[e].state \in Early \cup {"DONE"}
      BY Zenon DEF Listens, Early
    <2>. QED BY <1>1, <1>3, <1>4, <1>8, <2>1, <2>2, <2>3, PeerKeeps, Zenon DEF p
  <1>. QED BY <1>1, <1>9, <1>10, <1>11, Zenon

----------------------------------------------------------------------------
(* Where the calls are, and what an acknowledgement means.                 *)

\* A step of machine e after which the calls and the states of both fit together.
Placed(e) ==
  /\ conn'[Peer(e)] = conn[Peer(e)] /\ call'[Peer(e)] = call[Peer(e)]
  /\ conn'[e].state # "CLOSED" /\ call'[e] # "none"
  /\ conn'[e].in_use \/ call'[e] \in {"failed", "closed"}
  /\ conn'[e].state \notin Unopened \/ conn'[e].retx = NoSegment
  /\ e = "client" => conn'[e].state \notin {"LISTEN", "SYN_RCVD"}

\* Where a step leaves its machine is enough: the other machine does not move.
LEMMA PlaceKeeps ==
  ASSUME TcpInv, NEW e \in Machines, Placed(e)
  PROVE  PlaceInv'
  <1>1. Machines = {e, Peer(e)} /\ "client" \in Machines
    BY PeerFacts, Zenon DEF Machines
  <1>2. PlaceInv
    BY Zenon DEF TcpInv
  <1>. QED BY <1>1, <1>2, Zenon DEF PlaceInv, Placed

\* A step that leaves what machine m knows to be acknowledged as it is.
Steady(m) ==
  /\ Len(Received(Peer(m))) <= Len(Received(Peer(m))') /\ Len(Received(Peer(m))') \in Nat
  /\ told'[m] = told[m] /\ held'[m] = held[m]
  /\ \/ call'[m] \notin {"send test", "connect test", "send"}
     \/ /\ call'[m] = call[m] /\ said'[m] = said[m]
        /\ call[m] = "send test" => conn'[m].retx = conn[m].retx
        /\ call[m] = "connect test" => conn'[m].state = conn[m].state
        /\ call[m] = "send" => \/ /\ conn'[m].retx = conn[m].retx
                                  /\ conn[m].state = "DONE" => conn'[m].state = "DONE"
                               \/ conn'[m].state = "DONE"
                               \/ said[m] <= Len(Received(Peer(m))')

\* A steady step preserves what net_tcp_send may report.
LEMMA AckKeeps ==
  ASSUME TcpInv, ~with.arpMiss, NEW m \in Machines, Steady(m)
  PROVE  AckInv(m)'
  <1>1. AckInv(m) /\ Types /\ Peer(m) \in Machines
    BY PeerFacts, Zenon DEF TcpInv
  <1>2. Len(Received(Peer(m))) \in Nat /\ said[m] \in Nat
    BY <1>1, ReceivedTyped, Zenon DEF Types
  <1>. DEFINE a == Len(Received(Peer(m)))
              b == Len(Received(Peer(m))')
  <1>0. a \in Nat /\ b \in Nat /\ a <= b /\ told[m] \subseteq 1 .. a
    BY <1>1, <1>2, Zenon DEF Steady, AckInv
  <1>3. told'[m] \subseteq 1 .. b /\ held'[m] = NoSegment
    <2>1. told'[m] = told[m] /\ held'[m] = NoSegment
      BY <1>1, Zenon DEF Steady, AckInv
    <2>. HIDE DEF a, b
    <2>2. \A i \in 1 .. a : i \in 1 .. b
      BY <1>0
    <2>. QED BY <1>0, <2>1, <2>2, Zenon
  <1>4. CASE call'[m] \notin {"send test", "connect test", "send"}
    BY <1>3, <1>4, Zenon DEF AckInv
  <1>5. CASE call'[m] \in {"send test", "connect test", "send"}
    <2>1. call'[m] = call[m] /\ said'[m] = said[m]
      BY <1>5, Zenon DEF Steady
    <2>2. /\ call[m] = "send test" => conn'[m].retx # NoSegment
          /\ call[m] = "connect test" => conn'[m].state = "SYN_SENT"
      BY <1>1, <1>5, Zenon DEF Steady, AckInv
    <2>3. call[m] = "send" => \/ conn'[m].retx # NoSegment \/ conn'[m].state = "DONE"
                              \/ said[m] <= b
      <3>1. call[m] = "send" => \/ conn[m].retx # NoSegment \/ conn[m].state = "DONE" \/ said[m] <= a
        BY <1>1, Zenon DEF AckInv
      <3>2. call[m] = "send" => \/ /\ conn'[m].retx = conn[m].retx
                                   /\ conn[m].state = "DONE" => conn'[m].state = "DONE"
                                \/ conn'[m].state = "DONE" \/ said[m] <= b
        BY <1>5, Zenon DEF Steady
      <3>. HIDE DEF a, b
      <3>3. said[m] <= a => said[m] <= b
        BY <1>0, <1>2
      <3>. QED BY <3>1, <3>2, <3>3, Zenon
    <2>. QED BY <1>3, <2>1, <2>2, <2>3, Zenon DEF AckInv
  <1>. QED BY <1>4, <1>5, Zenon

\* After a quiet step of machine e nothing has changed for its peer.
LEMMA QuietAck ==
  ASSUME TcpInv, ~with.arpMiss, NEW e \in Machines, Quiet(e), told'[Peer(e)] = told[Peer(e)]
  PROVE  AckInv(Peer(e))' /\ \A m \in Machines : Len(Received(m)') = Len(Received(m)) /\ Len(Received(m)) \in Nat
  <1>1. Peer(e) \in Machines /\ Peer(Peer(e)) = e /\ Machines = {e, Peer(e)} /\ Types
    BY PeerFacts, Zenon DEF TcpInv
  <1>2. Received(e)' = Received(e) /\ Received(Peer(e))' = Received(Peer(e))
    BY Zenon DEF Quiet, Received
  <1>3. Len(Received(e)) \in Nat /\ Len(Received(Peer(e))) \in Nat
    BY <1>1, ReceivedTyped, Zenon
  <1>4. Steady(Peer(e))
    <2>1. Len(Received(e)) <= Len(Received(e)') /\ Len(Received(e)') \in Nat
      BY <1>2, <1>3
    <2>. QED BY <1>1, <2>1, Zenon DEF Quiet, Steady
  <1>. QED BY <1>1, <1>2, <1>3, <1>4, AckKeeps, Zenon

\* The invariant after a step.
Kept ==
  /\ Types' /\ PlaceInv' /\ \A m \in Machines : SndInv(m)' /\ RcvInv(m)'
  /\ ~with.arpMiss => \A m \in Machines : AckInv(m)'
=============================================================================
