----------------------------- MODULE TcpSteps -------------------------------
(***************************************************************************)
(* Every action of TcpConnection is one of the steps of TcpProofs, so that *)
(* the streams arrive in order, what is reported as sent was received and  *)
(* a handshake leaves both machines agreed.                                *)
(***************************************************************************)
EXTENDS TcpProofs

----------------------------------------------------------------------------
(* One step per action.                                                    *)

\* What a call that waits or returns does, apart from net_tcp_recv.
Moves(e, to) ==
  /\ call' = [call EXCEPT ![e] = to]
  /\ \/ call[e] \in {"connect test", "connect", "accept"} /\ to \in {"connect", "open", "failed"}
     \/ call[e] \in {"open", "send test", "send"} /\ to \in {"open", "send", "closed"}
     \/ call[e] = "close" /\ to = "closed" /\ conn' = [conn EXCEPT ![e].in_use = FALSE]
  /\ \/ conn' = conn
     \/ conn' = [conn EXCEPT ![e].in_use = FALSE] /\ to \in {"failed", "closed"}
  /\ UNCHANGED <<net, held, said, chunk, got>>
  /\ \/ told' = told /\ (to = "send" => call[e] = "send test" /\ conn[e].retx # NoSegment)
     \/ /\ told' = [told EXCEPT ![e] = @ \cup chunk[e]] /\ to = "open" /\ conn[e].retx = NoSegment
        /\ call[e] = "send test" \/ (call[e] = "send" /\ conn[e].state # "DONE")

\* The loops of connect, accept, send and close, and net_tcp_recv at the end of the
\* stream, move a call on and change nothing else.
LEMMA CallsMove ==
  ASSUME Types, NEW e \in Machines,
         \/ e = "client" /\ (ConnectTest \/ ConnectPolled)
         \/ e = "server" /\ net_tcp_accept
         \/ SendTest(e) \/ SendGivesUp(e) \/ RecvEnd(e) \/ CloseEnds(e)
         \/ (net_tcp_close(e) /\ conn[e].state # "ESTABLISHED")
  PROVE  \E to \in {"connect", "open", "failed", "send", "closed"} : Moves(e, to)
  <1>. USE DEF Moves, Return
  <1>1. CASE e = "client" /\ ConnectTest
    BY <1>1, Zenon DEF ConnectTest
  <1>2. CASE e = "client" /\ ConnectPolled
    <2>1. \/ call[e] = "connect" /\ conn' = [conn EXCEPT ![e].in_use = FALSE] /\ Return(e, "failed")
          \/ call[e] = "connect" /\ conn' = conn /\ Return(e, "open")
      BY <1>2, Zenon DEF ConnectPolled
    <2>. QED BY <2>1, Zenon
  <1>3. CASE e = "server" /\ net_tcp_accept
    <2>1. \/ call[e] = "accept" /\ conn' = [conn EXCEPT ![e].in_use = FALSE] /\ Return(e, "failed")
          \/ call[e] = "accept" /\ conn' = conn /\ Return(e, "open")
      BY <1>3, Zenon DEF net_tcp_accept
    <2>. QED BY <2>1, Zenon
  <1>4. CASE SendTest(e)
    <2>1. CASE conn[e].retx = NoSegment
      <3>1. Moves(e, "open")
        BY <1>4, <2>1, Zenon DEF SendTest
      <3>. QED BY <3>1, Zenon
    <2>2. CASE conn[e].retx # NoSegment
      <3>1. Moves(e, "send")
        BY <1>4, <2>2, Zenon DEF SendTest
      <3>. QED BY <3>1, Zenon
    <2>. QED BY <2>1, <2>2, Zenon
  <1>5. CASE SendGivesUp(e)
    BY <1>5, Zenon DEF SendGivesUp
  <1>6. CASE RecvEnd(e)
    <2>1. call' = [call EXCEPT ![e] = "open"]
      BY <1>6, Zenon DEF RecvEnd, Types
    <2>. QED BY <1>6, <2>1, Zenon DEF RecvEnd
  <1>7. CASE CloseEnds(e)
    BY <1>7, Zenon DEF CloseEnds
  <1>8. CASE net_tcp_close(e) /\ conn[e].state # "ESTABLISHED"
    <2>1. call[e] = "open" /\ conn' = [conn EXCEPT ![e].in_use = FALSE] /\ Return(e, "closed")
      BY <1>8, Zenon DEF net_tcp_close
    <2>. QED BY <2>1, Zenon
  <1>. QED BY <1>1, <1>2, <1>3, <1>4, <1>5, <1>6, <1>7, <1>8, Zenon

\* Moving a call on preserves the invariant.  A chunk is reported as sent only when
\* the peer has it.
LEMMA CallsKeep ==
  ASSUME TcpInv, with' = with, NEW e \in Machines,
         NEW to \in {"connect", "open", "failed", "send", "closed"}, Moves(e, to)
  PROVE  Kept
  <1>1. Types /\ PlaceInv /\ Peer(e) \in Machines /\ Peer(e) # e /\ Machines = {e, Peer(e)}
    BY PeerFacts, Zenon DEF TcpInv
  <1>2. Types'
    <2>1. call' \in [Machines -> CallNames]
      <3>1. to \in CallNames
        BY Zenon DEF CallNames, Before
      <3>2. call \in [Machines -> CallNames] /\ call' = [call EXCEPT ![e] = to]
        BY <1>1, Zenon DEF Types, Moves
      <3>. QED BY <3>1, <3>2, Zenon
    <2>2. conn' \in [Machines -> Conns]
      <3>1. conn[e] \in Conns /\ conn \in [Machines -> Conns]
        BY <1>1, Zenon DEF Types
      <3>2. [conn[e] EXCEPT !.in_use = FALSE] \in Conns
        BY <3>1, Zenon DEF Conns
      <3>. QED BY <3>1, <3>2, Zenon DEF Moves
    <2>3. told' \in [Machines -> SUBSET Nat]
      <3>1. /\ told \in [Machines -> SUBSET Nat] /\ chunk[e] \in SUBSET Nat
            /\ told' = told \/ told' = [told EXCEPT ![e] = @ \cup chunk[e]]
        BY <1>1, Zenon DEF Types, Moves
      <3>2. told[e] \cup chunk[e] \in SUBSET Nat
        BY <3>1, Zenon
      <3>. QED BY <3>1, <3>2, Zenon
    <2>. QED BY <1>1, <2>1, <2>2, <2>3, Zenon DEF Types, Moves
  <1>3. /\ conn'[e].state = conn[e].state /\ conn'[e].retx = conn[e].retx /\ conn'[e].rx = conn[e].rx
        /\ conn'[e].rcv_nxt = conn[e].rcv_nxt /\ conn'[e].peer_fin = conn[e].peer_fin
        /\ conn'[e].snd_nxt = conn[e].snd_nxt /\ conn'[e].retx_seq = conn[e].retx_seq
        /\ conn'[e].in_use => conn[e].in_use
        /\ conn'[e].in_use = conn[e].in_use \/ to \in {"failed", "closed"}
        /\ call[e] = "close" => to = "closed" /\ ~conn'[e].in_use
        /\ conn'[Peer(e)] = conn[Peer(e)]
    <2>1. conn[e] \in Conns /\ conn \in [Machines -> Conns]
      BY <1>1, Zenon DEF Types
    <2>2. /\ conn'[e] = conn[e] \/ (conn'[e] = [conn[e] EXCEPT !.in_use = FALSE] /\ to \in {"failed", "closed"})
          /\ call[e] = "close" => to = "closed" /\ conn'[e] = [conn[e] EXCEPT !.in_use = FALSE]
          /\ conn'[Peer(e)] = conn[Peer(e)]
      BY <1>1, <2>1, Zenon DEF Moves
    <2>. QED BY <2>1, <2>2, Zenon DEF Conns
  <1>6. /\ call'[e] = to /\ call'[Peer(e)] = call[Peer(e)] /\ call[e] \notin {"none", "failed", "closed", "close arp"}
        /\ to \notin Closing /\ (to \in Before => call[e] \in Before) /\ held[e] = NoSegment
    <2>1. call'[e] = to /\ call'[Peer(e)] = call[Peer(e)]
      BY <1>1, Zenon DEF Moves, Types
    <2>2. /\ call[e] \notin {"none", "failed", "closed", "close arp", "connect arp", "send arp"}
          /\ to \notin Closing /\ (to \in Before => call[e] \in Before)
      BY Zenon DEF Moves, Closing, Before
    <2>3. held[e] = NoSegment
      BY <2>2, Zenon DEF TcpInv, SndInv
    <2>. QED BY <2>1, <2>2, <2>3, Zenon
  <1>7. Quiet(e)
    <2>1. UNCHANGED <<net, held, said, got>>
      BY Zenon DEF Moves
    <2>. QED BY <1>3, <1>6, <2>1, Zenon DEF Quiet, Closing
  <1>4. PlaceInv'
    <2>1. Placed(e)
      BY <1>1, <1>3, <1>6, Zenon DEF PlaceInv, Placed
    <2>. QED BY <2>1, PlaceKeeps, Zenon
  <1>5. ASSUME ~with.arpMiss PROVE \A m \in Machines : AckInv(m)'
    <2>1. told'[Peer(e)] = told[Peer(e)]
      BY <1>1, Zenon DEF Moves, Types
    <2>2. /\ AckInv(Peer(e))' /\ Len(Received(Peer(e))') = Len(Received(Peer(e)))
          /\ Len(Received(Peer(e))) \in Nat
      BY <1>1, <1>5, <1>7, <2>1, QuietAck, Zenon
    <2>3. AckInv(e)
      BY <1>5, Zenon DEF TcpInv
    <2>4. told'[e] \subseteq 1 .. Len(Received(Peer(e)))
      <3>1. CASE told' = told
        BY <2>3, <3>1, Zenon DEF AckInv
      <3>2. CASE told' # told
        <4>1. /\ told'[e] = told[e] \cup chunk[e] /\ conn[e].retx = NoSegment
              /\ call[e] = "send test" \/ (call[e] = "send" /\ conn[e].state # "DONE")
          BY <1>1, <3>2, Zenon DEF Moves, Types
        <4>2. told[e] \subseteq 1 .. Len(Received(Peer(e))) /\ said[e] <= Len(Received(Peer(e)))
          BY <2>3, <4>1, Zenon DEF AckInv
        <4>3. chunk[e] \subseteq 1 .. said[e] /\ said[e] \in Nat
          BY <1>1, Zenon DEF Types
        <4>4. \A i \in 1 .. said[e] : i \in 1 .. Len(Received(Peer(e)))
          BY <2>2, <4>2, <4>3
        <4>. QED BY <4>1, <4>2, <4>3, <4>4, Zenon
      <3>. QED BY <3>1, <3>2, Zenon
    <2>5. held'[e] = NoSegment /\ (to = "send" => conn'[e].retx # NoSegment)
      BY <1>3, <1>6, <2>3, Zenon DEF AckInv, Moves
    <2>6. AckInv(e)'
      BY <1>6, <2>2, <2>4, <2>5, Zenon DEF AckInv
    <2>. QED BY <1>1, <2>2, <2>6, Zenon
  <1>. QED BY <1>2, <1>4, <1>5, <1>7, QuietKeeps, Zenon DEF Kept

\* net_tcp_recv preserves the invariant: what it hands out was received already.
LEMMA RecvKeeps ==
  ASSUME TcpInv, with' = with, NEW e \in Machines, RecvData(e)
  PROVE  Kept
  <1>1. Types /\ PlaceInv /\ Peer(e) \in Machines /\ Peer(e) # e /\ Machines = {e, Peer(e)} /\ Quiet(e)
    BY PeerFacts, QuietEvents, Zenon DEF TcpInv
  <1>2. PICK n \in {1, Len(conn[e].rx)} :
               /\ got' = [got EXCEPT ![e] = @ \o SubSeq(conn[e].rx, 1, n)]
               /\ conn' = [conn EXCEPT ![e].rx = SubSeq(@, n + 1, Len(@))]
    BY Zenon DEF RecvData
  <1>3. /\ call[e] = "open" /\ UNCHANGED <<net, call, held, said, chunk, told>> /\ conn[e].rx # << >>
    BY Zenon DEF RecvData
  <1>4. conn[e] \in Conns /\ conn[e].rx \in Seq(Nat) /\ got[e] \in Seq(Nat)
    BY <1>1, Zenon DEF Types, Conns
  <1>. DEFINE a == SubSeq(conn[e].rx, 1, n)
              b == SubSeq(conn[e].rx, n + 1, Len(conn[e].rx))
  <1>5. n \in 1 .. Len(conn[e].rx)
    BY <1>3, <1>4
  <1>6. a \in Seq(Nat) /\ b \in Seq(Nat)
    BY <1>4, <1>5, TakeFront, Zenon
  <1>7. got' = [got EXCEPT ![e] = got[e] \o a] /\ conn' = [conn EXCEPT ![e] = [conn[e] EXCEPT !.rx = b]]
    BY <1>2, Zenon
  <1>. HIDE DEF a, b
  <1>8. [conn[e] EXCEPT !.rx = b] \in Conns /\ got[e] \o a \in Seq(Nat)
    <2>1. [conn[e] EXCEPT !.rx = b] \in Conns
      BY <1>4, <1>6, Zenon DEF Conns
    <2>2. got[e] \o a \in Seq(Nat)
      BY <1>4, <1>6, Concat, Zenon
    <2>. QED BY <2>1, <2>2, Zenon
  <1>9. Types'
    <2>1. conn' \in [Machines -> Conns] /\ got' \in [Machines -> Seq(Nat)]
      BY <1>1, <1>7, <1>8, Zenon DEF Types
    <2>. QED BY <1>1, <1>3, <2>1, Zenon DEF Types
  <1>10. Placed(e)
    <2>1. /\ conn'[e].state = conn[e].state /\ conn'[e].in_use = conn[e].in_use
          /\ conn'[e].retx = conn[e].retx /\ conn'[Peer(e)] = conn[Peer(e)]
      <3>1. conn'[e] = [conn[e] EXCEPT !.rx = b] /\ conn'[Peer(e)] = conn[Peer(e)]
        BY <1>1, <1>7, Zenon DEF Types
      <3>. QED BY <1>4, <3>1, Zenon DEF Conns
    <2>. QED BY <1>1, <1>3, <2>1, Zenon DEF Placed, PlaceInv
  <1>11. ASSUME ~with.arpMiss PROVE \A m \in Machines : AckInv(m)'
    <2>1. /\ AckInv(Peer(e))' /\ Len(Received(Peer(e))') = Len(Received(Peer(e)))
          /\ Len(Received(Peer(e))) \in Nat
      BY <1>1, <1>3, <1>11, QuietAck, Zenon
    <2>2. Len(Received(Peer(e))) <= Len(Received(Peer(e))') /\ Len(Received(Peer(e))') \in Nat
      BY <2>1
    <2>3. Steady(e)
      BY <1>3, <2>2, Zenon DEF Steady
    <2>. QED BY <1>1, <1>11, <2>1, <2>3, AckKeeps, Zenon
  <1>. QED BY <1>1, <1>9, <1>10, <1>11, PlaceKeeps, QuietKeeps, Zenon DEF Kept

\* The end of arp_resolve inside tcp_emit preserves the invariant.
LEMMA ResolveKeeps ==
  ASSUME TcpInv, with' = with, NEW e \in Machines, ResolveEnds(e)
  PROVE  Kept
  <1>1. Types /\ PlaceInv /\ Peer(e) \in Machines /\ Peer(e) # e /\ Machines = {e, Peer(e)} /\ Quiet(e)
    BY PeerFacts, QuietEvents, Zenon DEF TcpInv
  <1>2. held[e] # NoSegment /\ call[e] \in {"connect arp", "send arp", "close arp"}
    BY Zenon DEF ResolveEnds, TcpInv, SndInv
  <1>3. /\ conn'[e].in_use = conn[e].in_use /\ conn'[e].retx = conn[e].retx
        /\ conn'[e].state \in {conn[e].state, "FIN_WAIT"}
        /\ conn'[Peer(e)] = conn[Peer(e)] /\ conn' \in [Machines -> Conns]
    <2>1. conn[e] \in Conns /\ conn \in [Machines -> Conns]
      BY <1>1, Zenon DEF Types
    <2>. DEFINE d == [conn[e] EXCEPT !.state = "FIN_WAIT"]
    <2>2. d \in Conns /\ d.in_use = conn[e].in_use /\ d.retx = conn[e].retx /\ d.state = "FIN_WAIT"
      BY <2>1, Zenon DEF Conns, States
    <2>. HIDE DEF d
    <2>3. conn' = conn \/ conn' = [conn EXCEPT ![e] = d]
      BY Zenon DEF ResolveEnds, d
    <2>. QED BY <1>1, <2>1, <2>2, <2>3, Zenon
  <1>4. /\ call'[e] \in {"connect test", "send test", "close"} /\ call'[Peer(e)] = call[Peer(e)]
        /\ call' \in [Machines -> CallNames]
    <2>1. PICK to \in {"connect test", "send test", "close"} : call' = [call EXCEPT ![e] = to]
      BY Zenon DEF ResolveEnds
    <2>2. to \in CallNames
      BY Zenon DEF CallNames, Before, Closing
    <2>. QED BY <1>1, <2>1, <2>2, Zenon DEF Types
  <1>5. Types'
    <2>1. net' \subseteq Segments /\ held' \in [Machines -> Segments \cup {NoSegment}]
      BY <1>1, Zenon DEF ResolveEnds, Types
    <2>. QED BY <1>1, <1>3, <1>4, <2>1, Zenon DEF ResolveEnds, Types
  <1>6. Placed(e)
    BY <1>1, <1>2, <1>3, <1>4, Zenon DEF Placed, PlaceInv, Unopened
  <1>7. ~with.arpMiss => FALSE
    BY <1>2, Zenon DEF TcpInv, AckInv
  <1>. QED BY <1>1, <1>5, <1>6, <1>7, PlaceKeeps, QuietKeeps, Zenon DEF Kept

\* tcp_tick preserves the invariant, also when it gives up.
LEMMA TickKeeps ==
  ASSUME TcpInv, with' = with, NEW e \in Machines, tcp_tick(e)
  PROVE  Kept
  <1>1. Types /\ PlaceInv /\ Peer(e) \in Machines /\ Peer(e) # e /\ Machines = {e, Peer(e)} /\ Quiet(e)
    BY PeerFacts, QuietEvents, Zenon DEF TcpInv
  <1>2. /\ call[e] \notin {"none", "failed", "closed", "send test", "connect test"}
        /\ UNCHANGED <<call, held, said, chunk, told, got>> /\ conn[e].retx # NoSegment
    BY Zenon DEF tcp_tick, Polls
  <1>3. /\ conn'[e].in_use = conn[e].in_use
        /\ \/ conn'[e].state = "DONE" /\ conn'[e].retx = NoSegment
           \/ conn'[e].state = conn[e].state /\ conn'[e].retx = conn[e].retx
        /\ conn'[Peer(e)] = conn[Peer(e)] /\ conn' \in [Machines -> Conns]
    <2>1. conn[e] \in Conns /\ conn \in [Machines -> Conns]
      BY <1>1, Zenon DEF Types
    <2>. DEFINE d == [conn[e] EXCEPT !.state = "DONE", !.retx = NoSegment]
                t == conn[e].tries + 1
                c == [conn[e] EXCEPT !.tries = t]
    <2>2. /\ d \in Conns /\ d.in_use = conn[e].in_use /\ d.state = "DONE" /\ d.retx = NoSegment
      BY <2>1, Zenon DEF Conns, States
    <2>3. conn' = [conn EXCEPT ![e] = d] \/ conn' = [conn EXCEPT ![e] = c]
      BY Zenon DEF tcp_tick
    <2>5. t \in Nat
      BY <2>1 DEF Conns
    <2>. HIDE DEF t
    <2>4. /\ c \in Conns /\ c.in_use = conn[e].in_use /\ c.state = conn[e].state /\ c.retx = conn[e].retx
      BY <2>1, <2>5, Zenon DEF Conns
    <2>. HIDE DEF d, c
    <2>. QED BY <1>1, <2>1, <2>2, <2>3, <2>4, Zenon
  <1>4. Types'
    <2>1. conn[e].retx \in Segments
      BY <1>1, <1>2, Zenon DEF Types, Conns
    <2>2. net' \subseteq Segments
      BY <1>1, <2>1, Zenon DEF tcp_tick, Types
    <2>. QED BY <1>1, <1>2, <1>3, <2>2, Zenon DEF Types
  <1>5. Placed(e)
    BY <1>1, <1>2, <1>3, Zenon DEF Placed, PlaceInv, Unopened
  <1>6. ASSUME ~with.arpMiss PROVE \A m \in Machines : AckInv(m)'
    <2>1. /\ AckInv(Peer(e))' /\ Len(Received(Peer(e))') = Len(Received(Peer(e)))
          /\ Len(Received(Peer(e))) \in Nat
      BY <1>1, <1>2, <1>6, QuietAck, Zenon
    <2>2. Len(Received(Peer(e))) <= Len(Received(Peer(e))') /\ Len(Received(Peer(e))') \in Nat
      BY <2>1
    <2>3. Steady(e)
      BY <1>2, <1>3, <2>2, Zenon DEF Steady
    <2>. QED BY <1>1, <1>6, <2>1, <2>3, AckKeeps, Zenon
  <1>. QED BY <1>1, <1>4, <1>5, <1>6, PlaceKeeps, QuietKeeps, Zenon DEF Kept

\* A lost segment and a reset preserve the invariant.
LEMMA NetworkKeeps ==
  ASSUME TcpInv, with' = with, NEW e \in Machines, Refuse(e) \/ Lose
  PROVE  Kept
  <1>1. Types /\ PlaceInv /\ Peer(e) \in Machines /\ Machines = {e, Peer(e)} /\ Quiet(e)
    BY PeerFacts, QuietEvents, Zenon DEF TcpInv
  <1>2. UNCHANGED <<conn, call, held, said, chunk, told, got>>
    BY Zenon DEF Refuse, Lose
  <1>3. Types'
    <2>1. [to |-> e, flags |-> {"RST"}, seq |-> 0, ack |-> 0, data |-> << >>] \in Segments
      BY DEF Segments, Flags
    <2>2. net' \subseteq Segments
      BY <1>1, <2>1, Zenon DEF Refuse, Lose, Types
    <2>. QED BY <1>1, <1>2, <2>2, Zenon DEF Types
  <1>4. PlaceInv'
    BY <1>1, <1>2, Zenon DEF PlaceInv
  <1>5. ASSUME ~with.arpMiss PROVE \A m \in Machines : AckInv(m)'
    <2>1. \A m \in Machines : AckInv(m)
      BY <1>5, Zenon DEF TcpInv
    <2>. QED BY <1>2, <2>1, Zenon DEF AckInv, Received
  <1>. QED BY <1>1, <1>3, <1>4, <1>5, QuietKeeps, Zenon DEF Kept

\* Facts about nothing.
LEMMA EmptySequence ==
  /\ << >> \o << >> = << >> /\ << >> \in Seq(Nat) /\ Len(<< >>) = 0
  /\ 0 + 1 = 1 /\ 0 \in Nat /\ \A n \in Nat : n <= n
  <1>1. << >> \o << >> = << >>
    OBVIOUS
  <1>2. << >> \in Seq(Nat)
    OBVIOUS
  <1>3. Len(<< >>) = 0
    BY Zenon
  <1>4. 0 + 1 = 1
    OBVIOUS
  <1>5. 0 \in Nat /\ \A n \in Nat : n <= n
    OBVIOUS
  <1>. QED BY <1>1, <1>2, <1>3, <1>4, <1>5, Zenon

\* A struct tcp_conn after memset.
LEMMA BlankTyped ==
  /\ Blank \in Conns /\ Blank.rx = << >> /\ Blank.peer_fin = FALSE /\ Blank.retx = NoSegment
  <1>1. << >> \in Seq(Nat)
    OBVIOUS
  <1>. QED BY <1>1, Zenon DEF Blank, Conns, States

\* A segment that is emitted is the only new one of its machine, and goes to the peer.
LEMMA EmissionSegments ==
  ASSUME NEW e \in Machines, NEW c, NEW g, NEW to, Emits(e, c, g, to), g.to = Peer(e)
  PROVE  /\ \A s \in From(e)' : s \in From(e) \/ s = g
         /\ \A s \in net' : s.to = e => s \in net
  <1>1. Peer(e) # e
    BY PeerFacts, Zenon
  <1>2. \A s \in net' : s \in net \/ s = g
    BY Zenon DEF Emits
  <1>3. conn'[e].retx = g /\ held'[e] \in {held[e], g}
    BY Zenon DEF Emits
  <1>4. \A s \in From(e)' : s \in From(e) \/ s = g
    BY <1>2, <1>3, Zenon DEF From
  <1>. QED BY <1>1, <1>2, <1>4, Zenon

\* A machine that opens has received nothing, and goes on from there.
LEMMA OpenAck ==
  ASSUME TcpInv, ~with.arpMiss, NEW e \in Machines, Opens(e), told' = told,
         held' = held, call'[e] = "connect test" => conn'[e].state = "SYN_SENT",
         call'[e] \notin {"send test", "send"}
  PROVE  \A m \in Machines : AckInv(m)'
  <1>1. Types /\ Peer(e) \in Machines /\ Peer(Peer(e)) = e /\ Machines = {e, Peer(e)}
    BY PeerFacts, Zenon DEF TcpInv
  <1>2. conn[e].state = "CLOSED" /\ RcvInv(e) /\ SndInv(e) /\ AckInv(e)
    BY Zenon DEF TcpInv, PlaceInv, Opens
  <1>3. Received(e) = << >> /\ got[e] = << >>
    BY <1>2, Zenon DEF RcvInv, SndInv, Synced, Virgin, Unopened, Before, Opens
  <1>4. Len(Received(e)) = 0 /\ Len(Received(e)') = 0
    <2>1. got'[e] = << >> /\ conn'[e].rx = << >>
      BY <1>3, Zenon DEF Opens
    <2>3. Received(e)' = << >>
      BY <2>1, EmptySequence, Zenon DEF Received
    <2>. QED BY <1>3, <2>3, Zenon
  <1>5. Steady(Peer(e))
    <2>. DEFINE a == Len(Received(e))
                b == Len(Received(e)')
    <2>1. a = 0 /\ b = 0
      BY <1>4, Zenon
    <2>. HIDE DEF a, b
    <2>2. a <= b /\ b \in Nat
      BY <2>1, EmptySequence, Zenon
    <2>. QED BY <1>1, <2>2, Zenon DEF Steady, Opens, a, b
  <1>6. Received(Peer(e))' = Received(Peer(e))
    BY Zenon DEF Received, Opens
  <1>7. AckInv(e)'
    BY <1>2, <1>6, Zenon DEF AckInv
  <1>. QED BY <1>1, <1>5, <1>7, AckKeeps, Zenon

\* net_tcp_connect preserves the invariant.
LEMMA ConnectKeeps ==
  ASSUME TcpInv, with' = with, net_tcp_connect
  PROVE  Kept
  <1>. DEFINE e == "client"
              c == [Blank EXCEPT !.in_use = TRUE, !.state = "SYN_SENT", !.snd_nxt = Isn[e]]
              g == Segment(e, c, {"SYN"}, << >>)
  <1>1. Types /\ PlaceInv /\ SndInv(e) /\ e \in Machines /\ Peer(e) \in Machines
    BY PeerFacts, Zenon DEF TcpInv, Machines
  <1>2. /\ call[e] = "none" /\ held[e] = NoSegment
        /\ UNCHANGED <<said, chunk, told, got>>
    <2>1. call[e] = "none" /\ UNCHANGED <<said, chunk, told, got>>
      BY Zenon DEF net_tcp_connect
    <2>. QED BY <1>1, <2>1, Zenon DEF SndInv
  <1>3. /\ c \in Conns /\ c.in_use /\ c.state = "SYN_SENT" /\ c.snd_nxt = Isn[e] /\ c.rx = << >>
        /\ ~c.peer_fin
    <2>1. Isn[e] \in Nat
      BY TcpAssumption DEF Machines
    <2>. QED BY <2>1, BlankTyped, Zenon DEF Conns, States
  <1>4. PICK to \in {"connect test", "connect arp"} :
               \/ EmitNow(e, c, {"SYN"}, << >>, to) /\ to = "connect test"
               \/ EmitLater(e, c, {"SYN"}, << >>, to) /\ to = "connect arp"
    BY Zenon DEF net_tcp_connect
  <1>. HIDE DEF c
  <1>5. held' = held \/ (with.arpMiss /\ to = "connect arp")
    BY <1>4, Zenon DEF EmitNow, EmitLater
  <1>6. Emits(e, c, g, to)
    <2>1. {"SYN"} \in SUBSET Flags /\ to \in CallNames
      BY Zenon DEF Flags, CallNames, Before
    <2>. QED BY <1>1, <1>3, <1>4, <2>1, EmptySequence, EmissionIs, Zenon
  <1>7. g.to = Peer(e) /\ g.flags = {"SYN"} /\ g.seq = Isn[e] /\ g.data = << >>
    BY <1>3, Zenon DEF Segment
  <1>. HIDE DEF g, e
  <1>8. /\ \A s \in From(e)' : s \in From(e) \/ s = g
        /\ \A s \in net' : s.to = e => s \in net
    BY <1>1, <1>6, <1>7, EmissionSegments, Zenon
  <1>9. /\ conn'[e].in_use /\ conn'[e].state = "SYN_SENT" /\ conn'[e].rx = << >> /\ ~conn'[e].peer_fin
        /\ conn'[e].retx_seq = conn'[e].snd_nxt /\ call'[e] = to
        /\ conn'[Peer(e)] = conn[Peer(e)] /\ call'[Peer(e)] = call[Peer(e)]
        /\ held'[Peer(e)] = held[Peer(e)]
    BY <1>3, <1>6, Zenon DEF Emits
  <1>10. conn'[e].snd_nxt = Plus(Isn[e], 1)
    <2>1. Len(g.data) + (IF g.flags \cap {"SYN", "FIN"} # {} THEN 1 ELSE 0) = 1
      <3>1. g.flags \cap {"SYN", "FIN"} # {}
        BY <1>7, Zenon
      <3>. DEFINE n == Len(g.data)
      <3>2. n = 0
        BY <1>7, EmptySequence, Zenon
      <3>. HIDE DEF n
      <3>3. n + 1 = 1
        BY <3>2, EmptySequence, Zenon
      <3>. QED BY <3>1, <3>3, Zenon DEF n
    <2>. QED BY <1>3, <1>6, <2>1, Zenon DEF Emits
  <1>11. Opens(e)
    BY <1>2, <1>5, <1>7, <1>8, <1>9, <1>10, Zenon DEF Opens, Before
  <1>12. Types'
    BY <1>1, <1>2, <1>6, Zenon DEF Types, Emits
  <1>13. PlaceInv'
    <2>1. Placed(e)
      BY <1>9, Zenon DEF Placed, Unopened
    <2>. QED BY <1>1, <2>1, PlaceKeeps, Zenon
  <1>14. ~with.arpMiss => \A m \in Machines : AckInv(m)'
    BY <1>1, <1>2, <1>5, <1>9, <1>11, OpenAck, Zenon
  <1>. QED BY <1>1, <1>11, <1>12, <1>13, <1>14, OpenKeeps, Zenon DEF Kept

\* net_tcp_listen preserves the invariant.
LEMMA ListenCallKeeps ==
  ASSUME TcpInv, with' = with, net_tcp_listen
  PROVE  Kept
  <1>. DEFINE e == "server"
              c == [Blank EXCEPT !.in_use = TRUE, !.state = "LISTEN"]
  <1>1. /\ Types /\ PlaceInv /\ SndInv(e) /\ e \in Machines /\ Peer(e) \in Machines /\ Peer(e) # e
        /\ e # "client"
    BY PeerFacts, Zenon DEF TcpInv, Machines
  <1>2. /\ call[e] = "none" /\ held[e] = NoSegment
        /\ UNCHANGED <<net, held, said, chunk, told, got>>
    <2>1. call[e] = "none" /\ UNCHANGED <<net, held, said, chunk, told, got>>
      BY Zenon DEF net_tcp_listen, Return
    <2>. QED BY <1>1, <2>1, Zenon DEF SndInv
  <1>3. /\ c \in Conns /\ c.in_use /\ c.state = "LISTEN" /\ c.rx = << >> /\ ~c.peer_fin /\ c.retx = NoSegment
    BY BlankTyped, Zenon DEF Conns, States
  <1>4. conn' = [conn EXCEPT ![e] = c] /\ call' = [call EXCEPT ![e] = "accept"]
    BY Zenon DEF net_tcp_listen, Return
  <1>. HIDE DEF c, e
  <1>5. /\ conn'[e] = c /\ conn'[Peer(e)] = conn[Peer(e)] /\ call'[e] = "accept"
        /\ call'[Peer(e)] = call[Peer(e)] /\ conn' \in [Machines -> Conns] /\ call' \in [Machines -> CallNames]
    <2>1. "accept" \in CallNames
      BY Zenon DEF CallNames, Before
    <2>. QED BY <1>1, <1>3, <1>4, <2>1, Zenon DEF Types
  <1>6. \A s \in From(e)' : s \in From(e)
    BY <1>2, <1>3, <1>5, Zenon DEF From
  <1>7. Opens(e)
    BY <1>2, <1>3, <1>5, <1>6, Zenon DEF Opens, Before
  <1>8. Types'
    BY <1>1, <1>2, <1>5, Zenon DEF Types
  <1>9. PlaceInv'
    <2>1. Placed(e)
      BY <1>1, <1>3, <1>5, Zenon DEF Placed
    <2>. QED BY <1>1, <2>1, PlaceKeeps, Zenon
  <1>10. ~with.arpMiss => \A m \in Machines : AckInv(m)'
    BY <1>1, <1>2, <1>5, <1>7, OpenAck, Zenon
  <1>. QED BY <1>1, <1>7, <1>8, <1>9, <1>10, OpenKeeps, Zenon DEF Kept

\* What speaking leaves to show, given that the segment is emitted from c.
LEMMA SpeakAlso ==
  ASSUME Short, TcpInv, with' = with, NEW e \in Machines, NEW c, NEW g, NEW to,
         Emits(e, c, g, to), Speaks(e, g), g \in Segments, c.in_use = conn[e].in_use,
         told' = told, held' = held \/ with.arpMiss, to \in {"send test", "send arp"} \cup Closing,
         said' \in [Machines -> Nat], chunk' \in [Machines -> SUBSET Nat],
         \A m \in Machines : said'[m] <= Total[m] /\ chunk'[m] \subseteq 1 .. said'[m]
  PROVE  Kept
  <1>1. Types /\ PlaceInv /\ Peer(e) \in Machines /\ Peer(Peer(e)) = e /\ Machines = {e, Peer(e)}
    BY PeerFacts, Zenon DEF TcpInv
  <1>2. Types'
    <2>1. got' = got
      BY Zenon DEF Speaks
    <2>2. /\ conn' \in [Machines -> Conns] /\ net' \subseteq Segments
          /\ held' \in [Machines -> Segments \cup {NoSegment}] /\ call' \in [Machines -> CallNames]
      BY Zenon DEF Emits
    <2>. QED BY <1>1, <2>1, <2>2, Zenon DEF Types
  <1>3. PlaceInv'
    <2>1. Placed(e)
      BY <1>1, Zenon DEF Emits, Speaks, Placed, PlaceInv, Unopened, Closing
    <2>. QED BY <2>1, PlaceKeeps, Zenon
  <1>4. ASSUME ~with.arpMiss PROVE \A m \in Machines : AckInv(m)'
    <2>1. Received(e)' = Received(e) /\ Received(Peer(e))' = Received(Peer(e))
      BY Zenon DEF Received, Speaks
    <2>2. Len(Received(e)) \in Nat /\ Len(Received(Peer(e))) \in Nat
      BY <1>1, ReceivedTyped, Zenon
    <2>3. Steady(Peer(e))
      <3>1. Len(Received(e)) <= Len(Received(e)') /\ Len(Received(e)') \in Nat
        BY <2>1, <2>2, EmptySequence, Zenon
      <3>. QED BY <1>1, <3>1, Zenon DEF Steady, Speaks
    <2>4. AckInv(e) /\ held'[e] = NoSegment
      BY <1>4, Zenon DEF TcpInv, AckInv
    <2>5. conn'[e].retx # NoSegment /\ call'[e] \notin {"connect test", "send"}
      BY NoSegmentFacts, Zenon DEF Emits, Closing
    <2>6. AckInv(e)'
      BY <2>1, <2>4, <2>5, Zenon DEF AckInv
    <2>. QED BY <1>1, <1>4, <2>3, <2>6, AckKeeps, Zenon
  <1>5. \A m \in Machines : SndInv(m)' /\ RcvInv(m)'
    BY SpeakKeeps, Zenon
  <1>. QED BY <1>2, <1>3, <1>4, <1>5, Zenon DEF Kept

\* The part of a stream that the next n numbers are.
LEMMA ChunkOf ==
  \A a, n \in Nat : a + n \in Nat /\ \A i \in a + 1 .. a + n : i \in Nat /\ i \in 1 .. a + n
  OBVIOUS

\* net_tcp_send preserves the invariant: what it sends follows what was said.
LEMMA SendKeeps ==
  ASSUME Short, TcpInv, with' = with, NEW e \in Machines, net_tcp_send(e)
  PROVE  Kept
  <1>1. Types /\ Peer(e) \in Machines /\ Peer(e) # e /\ conn[e] \in Conns /\ said[e] \in Nat
    BY PeerFacts, Zenon DEF TcpInv, Types
  <1>. DEFINE data(n) == [i \in 1 .. n |-> said[e] + i]
  <1>2. PICK n \in 1 .. TCP_MSS :
               /\ said[e] + n <= Total[e] /\ said' = [said EXCEPT ![e] = @ + n]
               /\ chunk' = [chunk EXCEPT ![e] = said[e] + 1 .. said[e] + n]
               /\ \/ EmitNow(e, conn[e], {"ACK", "PSH"}, data(n), "send test")
                  \/ EmitLater(e, conn[e], {"ACK", "PSH"}, data(n), "send arp")
    BY Zenon DEF net_tcp_send
  <1>3. /\ call[e] = "open" /\ conn[e].state = "ESTABLISHED" /\ UNCHANGED <<told, got>>
    BY Zenon DEF net_tcp_send
  <1>4. n \in Nat
    BY TcpAssumption
  <1>. DEFINE dt == data(n)
              g == Segment(e, conn[e], {"ACK", "PSH"}, dt)
  <1>5. dt \in Seq(Nat) /\ Len(dt) = n /\ \A i \in 1 .. n : dt[i] = said[e] + i
    <2>1. \A i \in 1 .. n : said[e] + i \in Nat
      BY <1>1, <1>4
    <2>2. dt \in Seq(Nat)
      BY <1>4, <2>1
    <2>. QED BY <1>4, <2>2
  <1>. HIDE DEF dt, data
  <1>6. PICK to \in {"send test", "send arp"} :
               EmitNow(e, conn[e], {"ACK", "PSH"}, dt, to) \/ EmitLater(e, conn[e], {"ACK", "PSH"}, dt, to)
    BY <1>2, Zenon DEF dt
  <1>7. held' = held \/ (with.arpMiss /\ call' = [call EXCEPT ![e] = "send arp"])
    BY <1>2, Zenon DEF EmitNow, EmitLater
  <1>8. Emits(e, conn[e], g, to)
    <2>1. {"ACK", "PSH"} \in SUBSET Flags /\ to \in CallNames
      BY Zenon DEF Flags, CallNames
    <2>. QED BY <1>1, <1>5, <1>6, <2>1, EmissionIs, Zenon
  <1>9. /\ g \in Segments /\ g.to = Peer(e) /\ g.flags = {"ACK", "PSH"} /\ g.seq = conn[e].snd_nxt
        /\ g.ack = conn[e].rcv_nxt /\ g.data = dt
    BY <1>1, <1>5, Zenon DEF Segment, Segments, Conns, Flags
  <1>. HIDE DEF g
  <1>10. /\ \A s \in From(e)' : s \in From(e) \/ s = g
         /\ \A s \in net' : s.to = e => s \in net
    BY <1>8, <1>9, EmissionSegments, Zenon
  <1>0. /\ said[e] + n \in Nat
        /\ \A i \in said[e] + 1 .. said[e] + n : i \in Nat /\ i \in 1 .. said[e] + n
    BY <1>1, <1>4, ChunkOf, Zenon
  <1>11. /\ said'[e] = said[e] + n /\ said'[Peer(e)] = said[Peer(e)] /\ said'[e] <= Total[e]
         /\ said' \in [Machines -> Nat] /\ chunk' \in [Machines -> SUBSET Nat]
         /\ chunk'[e] = said[e] + 1 .. said[e] + n /\ chunk'[Peer(e)] = chunk[Peer(e)]
    <2>1. said \in [Machines -> Nat] /\ chunk \in [Machines -> SUBSET Nat]
      BY <1>1, Zenon DEF Types
    <2>2. said[e] + n \in Nat /\ said[e] + 1 .. said[e] + n \in SUBSET Nat
      BY <1>0, Zenon
    <2>. QED BY <1>1, <1>2, <2>1, <2>2, Zenon
  <1>12. \A m \in Machines : said'[m] <= Total[m] /\ chunk'[m] \subseteq 1 .. said'[m]
    <2>1. chunk'[e] \subseteq 1 .. said'[e]
      <3>1. said'[e] = said[e] + n /\ chunk'[e] = said[e] + 1 .. said[e] + n
        BY <1>11, Zenon
      <3>2. said[e] + 1 .. said[e] + n \subseteq 1 .. said[e] + n
        BY <1>0, Zenon
      <3>. QED BY <3>1, <3>2, Zenon
    <2>2. said'[Peer(e)] <= Total[Peer(e)] /\ chunk'[Peer(e)] \subseteq 1 .. said'[Peer(e)]
      <3>1. said[Peer(e)] <= Total[Peer(e)] /\ chunk[Peer(e)] \subseteq 1 .. said[Peer(e)]
        BY <1>1, Zenon DEF Types
      <3>2. said'[Peer(e)] = said[Peer(e)] /\ chunk'[Peer(e)] = chunk[Peer(e)]
        BY <1>11, Zenon
      <3>. QED BY <3>1, <3>2, Zenon
    <2>. QED BY <1>11, <2>1, <2>2, PeerFacts, Zenon
  <1>13. held'[e] # NoSegment => call'[e] = "send arp"
    <2>1. held[e] = NoSegment
      BY <1>3, Zenon DEF TcpInv, SndInv
    <2>. QED BY <1>1, <1>7, <2>1, Zenon DEF Types
  <1>14. Speaks(e, g)
    <2>1. conn'[e].snd_nxt = Plus(conn[e].snd_nxt, Len(g.data) + (IF "FIN" \in g.flags THEN 1 ELSE 0))
      <3>1. g.flags \cap {"SYN", "FIN"} = {} /\ "FIN" \notin g.flags
        BY <1>9, Zenon
      <3>. QED BY <1>8, <3>1, Zenon DEF Emits
    <2>2. /\ conn'[Peer(e)] = conn[Peer(e)] /\ call'[Peer(e)] = call[Peer(e)]
          /\ held'[Peer(e)] = held[Peer(e)] /\ call'[e] \in {"send test", "send arp"}
          /\ conn'[e].state = conn[e].state /\ conn'[e].rcv_nxt = conn[e].rcv_nxt
          /\ conn'[e].peer_fin = conn[e].peer_fin /\ conn'[e].rx = conn[e].rx
          /\ conn'[e].retx_seq = conn'[e].snd_nxt
      BY <1>8, Zenon DEF Emits
    <2>. QED BY <1>3, <1>5, <1>9, <1>10, <1>11, <1>13, <2>1, <2>2, Zenon DEF Speaks
  <1>. QED BY <1>3, <1>7, <1>8, <1>9, <1>11, <1>12, <1>14, SpeakAlso, Zenon

\* The FIN of net_tcp_close preserves the invariant: it follows the last byte.
LEMMA CloseKeeps ==
  ASSUME Short, TcpInv, with' = with, NEW e \in Machines, net_tcp_close(e), conn[e].state = "ESTABLISHED"
  PROVE  Kept
  <1>1. /\ Types /\ Peer(e) \in Machines /\ Peer(e) # e /\ conn[e] \in Conns /\ said[e] \in Nat
        /\ said \in [Machines -> Nat] /\ chunk \in [Machines -> SUBSET Nat]
        /\ \A m \in Machines : said[m] <= Total[m] /\ chunk[m] \subseteq 1 .. said[m]
    BY PeerFacts, Zenon DEF TcpInv, Types
  <1>2. call[e] = "open" /\ UNCHANGED <<said, chunk, told, got>>
    BY Zenon DEF net_tcp_close
  <1>. DEFINE w == [conn[e] EXCEPT !.state = "FIN_WAIT"]
              f == {"FIN", "ACK"}
  <1>3. PICK c \in {conn[e], w}, to \in Closing :
               \/ EmitNow(e, c, f, << >>, to)
               \/ EmitLater(e, c, f, << >>, to) /\ to = "close arp"
    BY Zenon DEF net_tcp_close, Closing
  <1>4. /\ c \in Conns /\ c.in_use = conn[e].in_use /\ c.snd_nxt = conn[e].snd_nxt
        /\ c.rcv_nxt = conn[e].rcv_nxt /\ c.rx = conn[e].rx /\ c.peer_fin = conn[e].peer_fin
        /\ c.state \in {"ESTABLISHED", "FIN_WAIT"}
    BY <1>1, <1>3, Zenon DEF Conns, States
  <1>. DEFINE g == Segment(e, c, f, << >>)
  <1>. HIDE DEF w
  <1>5. held' = held \/ (with.arpMiss /\ to = "close arp")
    BY <1>3, Zenon DEF EmitNow, EmitLater
  <1>6. Emits(e, c, g, to)
    <2>1. f \in SUBSET Flags /\ to \in CallNames
      BY Zenon DEF Flags, CallNames
    <2>. QED BY <1>1, <1>3, <1>4, <2>1, EmptySequence, EmissionIs, Zenon
  <1>7. /\ g \in Segments /\ g.to = Peer(e) /\ g.flags = f /\ g.seq = conn[e].snd_nxt
        /\ g.ack = conn[e].rcv_nxt /\ g.data = << >>
    BY <1>1, <1>4, EmptySequence, Zenon DEF Segment, Segments, Conns, Flags
  <1>. HIDE DEF g
  <1>8. /\ \A s \in From(e)' : s \in From(e) \/ s = g
        /\ \A s \in net' : s.to = e => s \in net
    BY <1>6, <1>7, EmissionSegments, Zenon
  <1>9. Len(g.data) = 0 /\ said[e] + 0 = said[e]
    BY <1>1, <1>7
  <1>10. held'[e] # NoSegment => call'[e] = "close arp"
    <2>1. held[e] = NoSegment
      BY <1>2, Zenon DEF TcpInv, SndInv
    <2>. QED BY <1>5, <1>6, <2>1, Zenon DEF Emits
  <1>11. Speaks(e, g)
    <2>1. conn'[e].snd_nxt = Plus(conn[e].snd_nxt, Len(g.data) + (IF "FIN" \in g.flags THEN 1 ELSE 0))
      <3>1. g.flags \cap {"SYN", "FIN"} # {} /\ "FIN" \in g.flags
        BY <1>7, Zenon
      <3>. QED BY <1>4, <1>6, <3>1, Zenon DEF Emits
    <2>2. /\ conn'[Peer(e)] = conn[Peer(e)] /\ call'[Peer(e)] = call[Peer(e)]
          /\ held'[Peer(e)] = held[Peer(e)] /\ call'[e] \in Closing
          /\ conn'[e].state \in {"ESTABLISHED", "FIN_WAIT"} /\ conn'[e].rcv_nxt = conn[e].rcv_nxt
          /\ conn'[e].peer_fin = conn[e].peer_fin /\ conn'[e].rx = conn[e].rx
          /\ conn'[e].retx_seq = conn'[e].snd_nxt
      BY <1>4, <1>6, Zenon DEF Emits
    <2>3. said'[e] = said[e] + Len(g.data) /\ said'[e] <= Total[e] /\ said'[Peer(e)] = said[Peer(e)]
      BY <1>1, <1>2, <1>9, Zenon
    <2>. QED BY <1>2, <1>7, <1>8, <1>10, <2>1, <2>2, <2>3, EmptySequence, Zenon DEF Speaks
  <1>. QED BY <1>1, <1>2, <1>4, <1>5, <1>6, <1>7, <1>11, SpeakAlso, Zenon

\* An acknowledgement of what net_tcp_send waits for comes from a peer that has
\* received it: half the sequence space is enough to tell it from an older one.
LEMMA AcknowledgedIs ==
  ASSUME Short, TcpInv, NEW e \in Machines, NEW s, NEW d, Arrives(e, s, d), call[e] = "send",
         Acknowledges(s, conn[e])
  PROVE  said[e] <= Len(Received(Peer(e)))
  <1>. DEFINE p == Peer(e)
  <1>1. p \in Machines /\ Peer(p) = e
    BY PeerFacts, Zenon
  <1>2. SegOK(p, s)
    BY ArrivalFacts, Zenon
  <1>. HIDE DEF p
  <1>3. Types /\ SndInv(e) /\ RcvInv(p) /\ conn[e].in_use
    BY <1>1, Zenon DEF TcpInv, PlaceInv
  <1>4. said[e] \in Nat /\ said[e] <= Total[e] /\ Isn[e] \in 0 .. SeqSpace - 1
    BY <1>3, TcpAssumption, Zenon DEF Types
  <1>5. 2 * (Total[e] + 2) <= SeqSpace /\ Total[e] \in Nat /\ SeqSpace \in Nat
    BY TcpAssumption, Zenon DEF Short
  <1>6. conn[e].retx_seq = Plus(Isn[e], 1 + said[e])
    <2>1. conn[e].retx_seq = Plus(Isn[e], 1 + said[e] + 0)
      BY <1>3, Zenon DEF SndInv, Arrives, Closing
    <2>2. 1 + said[e] + 0 = 1 + said[e]
      BY <1>4
    <2>. QED BY <2>1, <2>2, Zenon
  <1>7. PICK a \in 0 .. Count(p) : s.ack = Plus(Isn[e], 1 + a)
    BY <1>1, <1>2, Zenon DEF SegOK, Acknowledges
  <1>8. /\ Len(Received(p)) \in Nat /\ Fin(p) \in {0, 1} /\ Count(p) \in Nat
        /\ Count(p) = Len(Received(p)) + Fin(p)
    BY <1>1, <1>3, ReceivedTyped, Zenon
  <1>9. a \in Nat /\ a <= Count(p)
    BY <1>8
  <1>10. ~(a < said[e])
    <2>. SUFFICES ASSUME a < said[e] PROVE FALSE
      BY Zenon
    <2>1. 1 + a \in Nat /\ 1 + said[e] \in Nat /\ 1 + a < 1 + said[e] /\ 2 * (1 + said[e]) <= SeqSpace
      BY <1>4, <1>5, <1>9
    <2>2. seq_lt(Plus(Isn[e], 1 + a), Plus(Isn[e], 1 + said[e]))
      BY <1>4, <2>1, SeqOrder, Zenon
    <2>. QED BY <1>6, <1>7, <2>2, Zenon DEF Acknowledges
  <1>11. Fin(p) = 1 => Len(Received(p)) = said[e]
    BY <1>1, <1>3 DEF RcvInv, Fin
  <1>12. said[e] <= Len(Received(p))
    BY <1>4, <1>8, <1>9, <1>10, <1>11
  <1>. QED BY <1>12, Zenon DEF p

\* A length is a number.
LEMMA LengthTyped == \A t \in Seq(Nat) : Len(t) \in Nat
  OBVIOUS

\* tcp_input preserves what net_tcp_send may report: an acknowledgement that ends its
\* wait covers the chunk.
LEMMA TakeAck ==
  ASSUME Short, TcpInv, ~with.arpMiss, NEW e \in Machines, NEW s, NEW d, NEW A, Takes(e, s, d, A),
         call[e] \notin {"send test", "connect test"}, told' = told
  PROVE  \A m \in Machines : AckInv(m)'
  <1>1. Types /\ Peer(e) \in Machines /\ Peer(Peer(e)) = e /\ Machines = {e, Peer(e)}
    BY PeerFacts, Zenon DEF TcpInv
  <1>2. Arrives(e, s, d) /\ InputResult(conn[e], s, d, A)
    BY Zenon DEF Takes
  <1>3. Progress(e, d, A)
    BY <1>2, InputProgress, Zenon
  <1>4. /\ call' = call /\ said' = said /\ held' = held /\ got' = got /\ conn'[e] = d
        /\ conn'[Peer(e)] = conn[Peer(e)]
    BY <1>2, Zenon DEF Takes, Arrives
  <1>5. Len(Received(e)') \in Nat
    <2>1. got[e] \in Seq(Nat) /\ d.rx \in Seq(Nat)
      BY <1>1, <1>2, Zenon DEF Types, InputResult, Conns
    <2>2. got[e] \o d.rx \in Seq(Nat)
      BY <2>1, Concat, Zenon
    <2>3. Received(e)' = got[e] \o d.rx
      BY <1>4, Zenon DEF Received
    <2>. QED BY <2>2, <2>3, LengthTyped, Zenon
  <1>6. Steady(Peer(e))
    BY <1>1, <1>3, <1>4, <1>5, Zenon DEF Progress, Steady
  <1>7. Received(Peer(e))' = Received(Peer(e)) /\ Len(Received(Peer(e))) \in Nat
    BY <1>1, <1>4, ReceivedTyped, Zenon DEF Received
  <1>8. call[e] = "send" => \/ /\ conn'[e].retx = conn[e].retx
                               /\ conn[e].state = "DONE" => conn'[e].state = "DONE"
                            \/ conn'[e].state = "DONE"
                            \/ said[e] <= Len(Received(Peer(e)))
    <2>1. \/ d.retx = conn[e].retx
          \/ d.state = "DONE"
          \/ Acknowledges(s, conn[e])
      BY <1>2, Zenon DEF InputResult
    <2>2. conn[e].state = "DONE" => d.state = "DONE"
      BY <1>2, Zenon DEF InputResult
    <2>3. call[e] = "send" /\ Acknowledges(s, conn[e]) => said[e] <= Len(Received(Peer(e)))
      BY <1>2, AcknowledgedIs, Zenon
    <2>. QED BY <1>4, <2>1, <2>2, <2>3, Zenon
  <1>9. Steady(e)
    <2>1. Len(Received(Peer(e))) <= Len(Received(Peer(e))') /\ Len(Received(Peer(e))') \in Nat
      BY <1>7, EmptySequence, Zenon
    <2>. QED BY <1>4, <1>7, <1>8, <2>1, Zenon DEF Steady
  <1>. QED BY <1>1, <1>6, <1>9, AckKeeps, Zenon

\* What Deliver does, in terms of tcp_input.
LEMMA DeliverIs ==
  ASSUME TcpInv, NEW e \in Machines, Deliver(e)
  PROVE  \E s \in net :
           /\ s.to = e /\ conn' = [conn EXCEPT ![e] = tcp_input(e, s)[1]]
           /\ \A x \in net' : x \in net \/ x \in tcp_input(e, s)[2]
  <1>1. PICK s \in net :
               /\ s.to = e
               /\ \E again \in {n \in {0, 1} : n = 0 \/ lost.copies < with.copies} :
                    /\ conn' = [conn EXCEPT ![e] = tcp_input(e, s)[1]]
                    /\ net' = (IF again = 1 THEN net ELSE net \ {s}) \cup tcp_input(e, s)[2]
    BY Zenon DEF Deliver
  <1>. QED BY <1>1, Zenon

\* net_poll with a segment for this machine preserves the invariant.
LEMMA DeliverKeeps ==
  ASSUME Short, TcpInv, with' = with, NEW e \in Machines, Deliver(e)
  PROVE  Kept
  <1>1. /\ Types /\ PlaceInv /\ SndInv(e) /\ Peer(e) \in Machines /\ Peer(Peer(e)) = e /\ Peer(e) # e
        /\ Machines = {e, Peer(e)} /\ conn[e] \in Conns /\ conn \in [Machines -> Conns]
    BY PeerFacts, Zenon DEF TcpInv, Types
  <1>2. /\ call[e] \notin {"none", "failed", "closed", "send test", "connect test"}
        /\ UNCHANGED <<call, held, said, chunk, told, got>>
    BY Zenon DEF Deliver, Polls
  <1>3. conn[e].in_use /\ conn[e].state # "CLOSED"
    BY <1>1, <1>2, Zenon DEF PlaceInv
  <1>4. PICK s \in net : /\ s.to = e /\ conn' = [conn EXCEPT ![e] = tcp_input(e, s)[1]]
                         /\ \A x \in net' : x \in net \/ x \in tcp_input(e, s)[2]
    BY DeliverIs, Zenon
  <1>. DEFINE c == conn[e]
              Typed == conn'[e] \in Conns /\ net' \subseteq Segments
  <1>5. conn'[e] = tcp_input(e, s)[1] /\ conn'[Peer(e)] = conn[Peer(e)]
    BY <1>1, <1>4, Zenon
  <1>6. Typed => Types'
    <2>1. conn'[e] \in Conns => conn' \in [Machines -> Conns]
      BY <1>1, <1>4, <1>5, Zenon
    <2>. QED BY <1>1, <1>2, <2>1, Zenon DEF Types
  <1>7. CASE c.state = "LISTEN" /\ "SYN" \notin s.flags
    <2>1. tcp_input(e, s) = <<c, {}>>
      BY <1>7, Zenon DEF tcp_input
    <2>2. tcp_input(e, s)[1] = c /\ tcp_input(e, s)[2] = {}
      BY <2>1
    <2>3. conn'[e] = c /\ \A x \in net' : x \in net
      BY <1>4, <1>5, <2>2, Zenon
    <2>4. Quiet(e)
      BY <1>2, <1>5, <2>3, Zenon DEF Quiet
    <2>5. Types'
      BY <1>1, <1>6, <2>3, Zenon DEF Types
    <2>6. PlaceInv'
      <3>1. Placed(e)
        BY <1>1, <1>2, <1>3, <1>5, <2>3, Zenon DEF Placed, PlaceInv
      <3>. QED BY <3>1, PlaceKeeps, Zenon
    <2>7. ASSUME ~with.arpMiss PROVE \A m \in Machines : AckInv(m)'
      <3>1. AckInv(Peer(e))'
        BY <1>2, <2>4, <2>7, QuietAck, Zenon
      <3>2. AckInv(e) /\ Received(Peer(e))' = Received(Peer(e))
        BY <1>2, <1>5, <2>7, Zenon DEF TcpInv, Received
      <3>3. AckInv(e)'
        BY <1>2, <2>3, <3>2, Zenon DEF AckInv
      <3>. QED BY <1>1, <3>1, <3>3, Zenon
    <2>. QED BY <2>4, <2>5, <2>6, <2>7, QuietKeeps, Zenon DEF Kept
  <1>8. CASE c.state = "LISTEN" /\ "SYN" \in s.flags
    <2>. DEFINE r == Plus(s.seq, 1)
                i == Isn[e]
                h == [c EXCEPT !.rcv_nxt = r, !.snd_nxt = i, !.state = "SYN_RCVD"]
                f == {"SYN", "ACK"}
                g == Segment(e, h, f, << >>)
                x == Plus(i, 0 + 1)
    <2>1. tcp_input(e, s) = <<Emitted(e, h, f, << >>), {g}>>
      BY <1>3, <1>8, Zenon DEF tcp_input
    <2>2. tcp_input(e, s)[1] = Emitted(e, h, f, << >>) /\ tcp_input(e, s)[2] = {g}
      BY <2>1
    <2>3. s.seq \in Nat /\ i \in Nat /\ r \in Nat /\ x \in Nat
      <3>1. s.seq \in Nat
        BY <1>1, Zenon DEF Types, Segments
      <3>2. Isn[e] \in Nat
        BY TcpAssumption
      <3>3. 1 \in Nat /\ 0 + 1 \in Nat
        OBVIOUS
      <3>4. \A a, n \in Nat : Plus(a, n) \in Nat
        BY TcpAssumption DEF Plus
      <3>. QED BY <3>1, <3>2, <3>3, <3>4, Zenon
    <2>. HIDE DEF r, i
    <2>4. /\ h \in Conns /\ h.state = "SYN_RCVD" /\ h.rcv_nxt = r /\ h.snd_nxt = i
          /\ h.in_use = c.in_use /\ h.rx = c.rx /\ h.peer_fin = c.peer_fin
      BY <1>1, <2>3, Zenon DEF Conns, States
    <2>. HIDE DEF h
    <2>5. Emitted(e, h, f, << >>) = [h EXCEPT !.retx = g, !.retx_seq = x, !.snd_nxt = x, !.tries = 0]
      <3>1. f \cap {"SYN", "FIN"} # {} /\ Len(<< >>) = 0
        BY EmptySequence, Zenon
      <3>. QED BY <2>4, <3>1, Zenon DEF Emitted
    <2>6. g \in Segments /\ g.to = Peer(e) /\ g.flags = f /\ g.seq = i /\ g.ack = r /\ g.data = << >>
      BY <1>1, <2>3, <2>4, EmptySequence, Zenon DEF Segment, Segments, Flags
    <2>. HIDE DEF g, x, f
    <2>7. /\ conn'[e] \in Conns /\ conn'[e].state = "SYN_RCVD" /\ conn'[e].rcv_nxt = r
          /\ conn'[e].snd_nxt = x /\ conn'[e].retx_seq = x /\ conn'[e].retx = g
          /\ conn'[e].in_use = c.in_use /\ conn'[e].rx = c.rx /\ conn'[e].peer_fin = c.peer_fin
      <3>. DEFINE d == [h EXCEPT !.retx = g, !.retx_seq = x, !.snd_nxt = x, !.tries = 0]
      <3>1. /\ d \in Conns /\ d.in_use = h.in_use /\ d.state = h.state
            /\ d.rcv_nxt = h.rcv_nxt /\ d.peer_fin = h.peer_fin /\ d.rx = h.rx
            /\ d.retx = g /\ d.snd_nxt = x /\ d.retx_seq = x
        BY <2>3, <2>4, <2>6, Zenon DEF Conns
      <3>2. conn'[e] = d
        BY <1>5, <2>2, <2>5, Zenon
      <3>. HIDE DEF d
      <3>. QED BY <2>4, <3>1, <3>2, Zenon
    <2>8. \A y \in net' : y \in net \/ y = g
      BY <1>4, <2>2, Zenon
    <2>9. x = Plus(Isn[e], 1)
      BY EmptySequence, Zenon DEF x, i
    <2>10. Listens(e, s, g)
      BY <1>2, <1>4, <1>5, <1>8, <2>6, <2>7, <2>8, <2>9, Zenon DEF Listens, f, r, i
    <2>11. Types'
      BY <1>1, <1>6, <2>6, <2>7, <2>8, Zenon DEF Types
    <2>12. PlaceInv'
      <3>1. e # "client"
        BY <1>1, <1>8, Zenon DEF PlaceInv
      <3>2. Placed(e)
        BY <1>2, <1>3, <1>5, <2>7, <3>1, Zenon DEF Placed, Unopened
      <3>. QED BY <3>2, PlaceKeeps, Zenon
    <2>13. ASSUME ~with.arpMiss PROVE \A m \in Machines : AckInv(m)'
      <3>1. Received(Peer(e))' = Received(Peer(e)) /\ Received(e)' = Received(e)
        BY <1>2, <1>5, <2>7, Zenon DEF Received
      <3>2. Len(Received(Peer(e))) \in Nat /\ Len(Received(e)) \in Nat
        BY <1>1, ReceivedTyped, Zenon
      <3>3. /\ Len(Received(e)) <= Len(Received(e)') /\ Len(Received(e)') \in Nat
            /\ Len(Received(Peer(e))) <= Len(Received(Peer(e))') /\ Len(Received(Peer(e))') \in Nat
        BY <3>1, <3>2, EmptySequence, Zenon
      <3>4. Steady(Peer(e))
        BY <1>1, <1>2, <1>5, <3>3, Zenon DEF Steady
      <3>5. said[e] <= Len(Received(Peer(e))')
        <4>. DEFINE n == Len(Received(Peer(e))')
        <4>1. said[e] = 0 /\ n \in Nat
          BY <1>1, <1>8, <3>3, Zenon DEF SndInv, Early
        <4>. HIDE DEF n
        <4>2. said[e] <= n
          BY <4>1
        <4>. QED BY <4>2, Zenon DEF n
      <3>6. Steady(e)
        BY <1>2, <3>3, <3>5, Zenon DEF Steady
      <3>. QED BY <1>1, <2>13, <3>4, <3>6, AckKeeps, Zenon
    <2>. QED BY <2>10, <2>11, <2>12, <2>13, ListenKeeps, Zenon DEF Kept
  <1>9. CASE c.state # "LISTEN"
    <2>. DEFINE d == Input(c, s)[1]
                A == Input(c, s)[2]
    <2>1. tcp_input(e, s) = <<d, {Segment(e, y, {"ACK"}, << >>) : y \in A}>>
      BY <1>3, <1>9, Zenon DEF tcp_input
    <2>2. tcp_input(e, s)[1] = d /\ tcp_input(e, s)[2] = {Segment(e, y, {"ACK"}, << >>) : y \in A}
      BY <2>1
    <2>3. Arrives(e, s, d)
      BY <1>2, <1>3, <1>4, <1>5, <1>9, <2>2, Zenon DEF Arrives, Unopened
    <2>4. SegOK(Peer(e), s) /\ s \in Segments
      BY <2>3, ArrivalFacts, Zenon
    <2>5. InputResult(c, s, d, A)
      BY <1>1, <2>4, InputIs, Zenon DEF SegOK
    <2>. HIDE DEF d, A
    <2>6. \A x \in net' : x \in net \/ \E y \in A : x = Segment(e, y, {"ACK"}, << >>)
      BY <1>4, <2>2, Zenon
    <2>7. Takes(e, s, d, A)
      BY <1>2, <1>5, <2>3, <2>5, <2>6, Zenon DEF Takes
    <2>8. Types'
      <3>1. \A y \in A : Segment(e, y, {"ACK"}, << >>) \in Segments
        <4>. TAKE y \in A
        <4>1. y \in Conns
          BY <2>5, Zenon DEF InputResult
        <4>. QED BY <1>1, <4>1, EmptySequence, Zenon DEF Segment, Segments, Conns, Flags
      <3>2. conn'[e] \in Conns
        BY <1>5, <2>2, <2>5, Zenon DEF InputResult
      <3>. QED BY <1>1, <1>6, <2>6, <3>1, <3>2, Zenon DEF Types
    <2>9. PlaceInv'
      <3>1. conn'[e] = d /\ d.in_use = c.in_use /\ d.state \in {c.state, "DONE", "ESTABLISHED"}
        BY <1>5, <2>2, <2>5, Zenon DEF InputResult
      <3>2. Placed(e)
        BY <1>1, <1>2, <1>3, <1>5, <1>9, <3>1, Zenon DEF Placed, PlaceInv, Unopened
      <3>. QED BY <3>2, PlaceKeeps, Zenon
    <2>10. ~with.arpMiss => \A m \in Machines : AckInv(m)'
      BY <1>2, <2>7, TakeAck, Zenon
    <2>. QED BY <2>7, <2>8, <2>9, <2>10, InputKeeps, Zenon DEF Kept
  <1>. QED BY <1>7, <1>8, <1>9, Zenon

----------------------------------------------------------------------------
(* The theorems.                                                           *)

\* Before any call nothing is said, received or under way.
LEMMA TcpStarts == Init => TcpInv
  <1>. SUFFICES ASSUME Init PROVE TcpInv
    BY Zenon
  <1>1. /\ with \in Circumstances /\ net = {} /\ conn = [e \in Machines |-> Blank]
        /\ call = [e \in Machines |-> "none"] /\ held = [e \in Machines |-> NoSegment]
        /\ said = [e \in Machines |-> 0] /\ chunk = [e \in Machines |-> {}]
        /\ told = [e \in Machines |-> {}] /\ got = [e \in Machines |-> << >>]
    BY Zenon DEF Init
  <1>2. /\ Blank \in Conns /\ Blank.rx = << >> /\ ~Blank.peer_fin /\ Blank.retx = NoSegment
        /\ Blank.state = "CLOSED"
    BY BlankTyped, Zenon DEF Blank
  <1>3. Types
    <2>1. /\ conn \in [Machines -> Conns] /\ net \subseteq Segments
          /\ held \in [Machines -> Segments \cup {NoSegment}]
      BY <1>1, <1>2, Zenon
    <2>2. call \in [Machines -> CallNames]
      BY <1>1, Zenon DEF CallNames, Before
    <2>3. said \in [Machines -> Nat] /\ \A e \in Machines : said[e] <= Total[e]
      BY <1>1, TcpAssumption
    <2>4. /\ chunk \in [Machines -> SUBSET Nat] /\ \A e \in Machines : chunk[e] \subseteq 1 .. said[e]
          /\ told \in [Machines -> SUBSET Nat]
      BY <1>1, Zenon
    <2>5. got \in [Machines -> Seq(Nat)]
      BY <1>1, EmptySequence, Zenon
    <2>. QED BY <1>1, <2>1, <2>2, <2>3, <2>4, <2>5, Zenon DEF Types
  <1>4. ASSUME NEW e \in Machines
        PROVE  /\ conn[e] = Blank /\ call[e] = "none" /\ held[e] = NoSegment /\ said[e] = 0
               /\ told[e] = {} /\ got[e] = << >> /\ Received(e) = << >> /\ Len(Received(e)) = 0
               /\ From(e) = {}
    <2>1. /\ conn[e] = Blank /\ call[e] = "none" /\ held[e] = NoSegment /\ said[e] = 0
          /\ told[e] = {} /\ got[e] = << >>
      BY <1>1, Zenon
    <2>2. Received(e) = << >>
      BY <1>2, <2>1, EmptySequence, Zenon DEF Received
    <2>3. From(e) = {}
      BY <1>1, <1>2, <2>1, Zenon DEF From
    <2>. QED BY <2>1, <2>2, <2>3, EmptySequence, Zenon
  <1>5. PlaceInv
    <2>1. "client" \in Machines
      BY Zenon DEF Machines
    <2>. QED BY <1>2, <1>4, <2>1, Zenon DEF PlaceInv
  <1>6. ASSUME NEW e \in Machines PROVE SndInv(e) /\ RcvInv(e) /\ AckInv(e)
    <2>1. Peer(e) \in Machines
      BY PeerFacts, Zenon
    <2>2. SndInv(e)
      BY <1>2, <1>4, Zenon DEF SndInv, Early, Unopened, Closing
    <2>3. Virgin(e)
      BY <1>2, <1>4, <2>1, Zenon DEF Virgin, Early, Unopened, Closing
    <2>4. RcvInv(e)
      BY <1>2, <1>4, <2>1, <2>3 DEF RcvInv
    <2>5. AckInv(e)
      BY <1>2, <1>4, <2>1, Zenon DEF AckInv
    <2>. QED BY <2>2, <2>4, <2>5, Zenon
  <1>. QED BY <1>3, <1>5, <1>6, Zenon DEF TcpInv

\* Every step of the machines and of the network preserves the invariant.
LEMMA TcpStep ==
  ASSUME Short, TcpInv, [Next]_vars
  PROVE  TcpInv'
  <1>0. Types
    BY Zenon DEF TcpInv
  <1>1. CASE UNCHANGED vars
    <2>1. UNCHANGED <<with, conn, net, call, held, said, chunk, told, got>>
      BY <1>1, Zenon DEF vars, state
    <2>2. Types' /\ PlaceInv'
      BY <2>1, Zenon DEF Types, PlaceInv, TcpInv
    <2>3. \A e \in Machines : Received(e)' = Received(e) /\ From(e)' = From(e)
      BY <2>1, Zenon DEF Received, From
    <2>4. \A e \in Machines : Count(e)' = Count(e)
      BY <2>1, <2>3, Zenon DEF Count, Fin
    <2>5. \A e \in Machines : \A s : SegOK(e, s) => SegOK(e, s)'
      BY <2>1, <2>4 DEF SegOK
    <2>6. \A e \in Machines : SndInv(e)'
      BY <2>1, <2>3, <2>5, Zenon DEF SndInv, TcpInv
    <2>7. \A e \in Machines : RcvInv(e)'
      BY <2>1, <2>3, <2>4, PeerFacts DEF RcvInv, Synced, Virgin, TcpInv
    <2>8. ~with'.arpMiss => \A e \in Machines : AckInv(e)'
      BY <2>1, <2>3, PeerFacts, Zenon DEF AckInv, TcpInv
    <2>. QED BY <2>2, <2>6, <2>7, <2>8, Zenon DEF TcpInv
  <1>2. CASE Next
    <2>0. with' = with
      BY <1>2, Zenon DEF Next
    <2>1. Kept
      <3>1. "client" \in Machines /\ "server" \in Machines
        BY Zenon DEF Machines
      <3>2. CASE net_tcp_connect
        BY <2>0, <3>2, ConnectKeeps, Zenon
      <3>3. CASE net_tcp_listen
        BY <2>0, <3>3, ListenCallKeeps, Zenon
      <3>4. CASE ConnectTest \/ ConnectPolled \/ net_tcp_accept
        <4>1. \E e \in Machines : \E to \in {"connect", "open", "failed", "send", "closed"} : Moves(e, to)
          BY <1>0, <3>1, <3>4, CallsMove, Zenon
        <4>. QED BY <2>0, <4>1, CallsKeep, Zenon
      <3>5. ASSUME NEW e \in Machines, SendTest(e) \/ SendGivesUp(e) \/ RecvEnd(e) \/ CloseEnds(e)
            PROVE  Kept
        <4>1. \E to \in {"connect", "open", "failed", "send", "closed"} : Moves(e, to)
          BY <1>0, <3>5, CallsMove, Zenon
        <4>. QED BY <2>0, <4>1, CallsKeep, Zenon
      <3>6. ASSUME NEW e \in Machines, net_tcp_close(e)
            PROVE  Kept
        <4>1. CASE conn[e].state = "ESTABLISHED"
          BY <2>0, <3>6, <4>1, CloseKeeps, Zenon
        <4>2. CASE conn[e].state # "ESTABLISHED"
          <5>1. \E to \in {"connect", "open", "failed", "send", "closed"} : Moves(e, to)
            BY <1>0, <3>6, <4>2, CallsMove, Zenon
          <5>. QED BY <2>0, <5>1, CallsKeep, Zenon
        <4>. QED BY <4>1, <4>2, Zenon
      <3>7. ASSUME NEW e \in Machines, net_tcp_send(e) PROVE Kept
        BY <2>0, <3>7, SendKeeps, Zenon
      <3>8. ASSUME NEW e \in Machines, RecvData(e) PROVE Kept
        BY <2>0, <3>8, RecvKeeps, Zenon
      <3>9. ASSUME NEW e \in Machines, ResolveEnds(e) PROVE Kept
        BY <2>0, <3>9, ResolveKeeps, Zenon
      <3>10. ASSUME NEW e \in Machines, Deliver(e) PROVE Kept
        BY <2>0, <3>10, DeliverKeeps, Zenon
      <3>11. ASSUME NEW e \in Machines, tcp_tick(e) PROVE Kept
        BY <2>0, <3>11, TickKeeps, Zenon
      <3>12. ASSUME NEW e \in Machines, Refuse(e) \/ Lose PROVE Kept
        BY <2>0, <3>12, NetworkKeeps, Zenon
      <3>. QED BY <1>2, <3>1, <3>2, <3>3, <3>4, <3>5, <3>6, <3>7, <3>8, <3>9, <3>10, <3>11, <3>12, Zenon
               DEF Next, Calls
    <2>. QED BY <2>0, <2>1, Zenon DEF Kept, TcpInv
  <1>. QED BY <1>1, <1>2, Zenon

\* The invariant of the connection, for streams that are short for the sequence
\* space: it holds whatever is lost, copied, delayed, reset or timed out.
THEOREM TcpInvariant == ASSUME Short PROVE Spec => []TcpInv
  <1>1. TcpInv /\ [Next]_vars => TcpInv'
    BY TcpStep, Zenon
  <1>. QED BY <1>1, TcpStarts, PTL DEF Spec

\* A sequence that counts from 1 is the stream of its length.
LEMMA StreamIs ==
  ASSUME NEW r \in Seq(Nat), \A i \in 1 .. Len(r) : r[i] = i
  PROVE  r = Stream(Len(r))
  <1>. DEFINE n == Len(r)
              t == [i \in 1 .. n |-> i]
  <1>1. n \in Nat
    OBVIOUS
  <1>. HIDE DEF n
  <1>2. t \in Seq(Nat)
    BY <1>1
  <1>3. Len(t) = n /\ \A i \in 1 .. n : t[i] = i
    BY <1>1
  <1>4. Stream(n) = t
    BY Zenon DEF Stream
  <1>. HIDE DEF t
  <1>5. r = t
    BY <1>1, <1>2, <1>3, SameSequence, Zenon DEF n
  <1>. QED BY <1>4, <1>5, Zenon DEF n

\* Nothing before a sequence leaves it as it is.
LEMMA EmptyFirst == \A t \in Seq(Nat) : << >> \o t = t
  OBVIOUS

\* tcp_input hands on what the peer sent, in order, once and without a gap, for all
\* streams that are short for the sequence space, however the numbers wrap.
THEOREM TcpStreams == ASSUME Short PROVE Spec => []StreamsInOrder
  <1>1. TcpInv => StreamsInOrder
    <2>. SUFFICES ASSUME TcpInv, NEW e \in Machines
                  PROVE  Len(Received(e)) <= said[Peer(e)] /\ Received(e) = Stream(Len(Received(e)))
      BY Zenon DEF StreamsInOrder
    <2>1. Received(e) \in Seq(Nat) /\ Len(Received(e)) \in Nat
      BY ReceivedTyped, Zenon DEF TcpInv
    <2>2. Len(Received(e)) <= said[Peer(e)] /\ \A i \in 1 .. Len(Received(e)) : Received(e)[i] = i
      BY Zenon DEF TcpInv, RcvInv
    <2>3. Received(e) = Stream(Len(Received(e)))
      BY <2>1, <2>2, StreamIs, Zenon
    <2>. QED BY <2>2, <2>3, Zenon
  <1>. QED BY <1>1, TcpInvariant, PTL

\* What net_tcp_send counts as acknowledged has reached the peer, when ip_send does
\* not have to wait for ARP.
THEOREM TcpSent == ASSUME Short PROVE Spec => []SentMeansReceived
  <1>1. TcpInv => SentMeansReceived
    <2>. SUFFICES ASSUME TcpInv, ~with.arpMiss, NEW e \in Machines, NEW i \in told[e]
                  PROVE  \E j \in 1 .. Len(Received(Peer(e))) : i = Received(Peer(e))[j]
      BY Zenon DEF SentMeansReceived
    <2>1. i \in 1 .. Len(Received(Peer(e)))
      BY Zenon DEF TcpInv, AckInv
    <2>2. Received(Peer(e))[i] = i
      BY <2>1, PeerFacts, Zenon DEF TcpInv, RcvInv
    <2>. QED BY <2>1, <2>2, Zenon
  <1>. QED BY <1>1, TcpInvariant, PTL

\* A client that is out of SYN_SENT before anything was said agrees with the server.
LEMMA AgreedOnceOpen ==
  ASSUME TcpInv, NEW c \in Machines, NEW v \in Machines, v = Peer(c), c = Peer(v),
         call[c] \in Before, conn[c].state \in {"ESTABLISHED", "FIN_WAIT"}
  PROVE  /\ conn[v].rcv_nxt = Plus(Isn[c], 1)
         /\ conn[c].rcv_nxt = Plus(Isn[v], 1 + Len(conn[c].rx) + (IF conn[c].peer_fin THEN 1 ELSE 0))
  <1>1. Types /\ SndInv(c) /\ RcvInv(c) /\ RcvInv(v)
    BY Zenon DEF TcpInv
  <1>2. Synced(c) /\ Synced(v)
    BY <1>1, Zenon DEF RcvInv, Virgin, Unopened, Early
  <1>3. got[c] = << >> /\ said[c] = 0
    BY <1>1, Zenon DEF SndInv
  <1>4. Count(v) = 0
    <2>1. ~conn[v].peer_fin /\ Len(Received(v)) <= said[c]
      BY <1>1, Zenon DEF RcvInv, Closing, Before
    <2>2. Len(Received(v)) \in Nat /\ Count(v) = Len(Received(v)) + Fin(v)
      BY <1>1, ReceivedTyped, Zenon
    <2>3. Fin(v) = 0
      BY <2>1, Zenon DEF Fin
    <2>. QED BY <1>3, <2>1, <2>2, <2>3
  <1>5. 1 + Count(c) = 1 + Len(conn[c].rx) + (IF conn[c].peer_fin THEN 1 ELSE 0)
    <2>1. Received(c) = conn[c].rx
      BY <1>1, <1>3, EmptyFirst, Zenon DEF Received, Types, Conns
    <2>2. /\ Len(conn[c].rx) \in Nat /\ Fin(c) \in {0, 1} /\ Count(c) = Len(conn[c].rx) + Fin(c)
          /\ Fin(c) = IF conn[c].peer_fin THEN 1 ELSE 0
      BY <1>1, <2>1, ReceivedTyped, Zenon DEF Fin
    <2>. DEFINE l == Len(conn[c].rx)
                f == Fin(c)
    <2>3. l \in Nat /\ f \in {0, 1} /\ Count(c) = l + f
      BY <2>2, Zenon
    <2>. HIDE DEF l, f
    <2>4. 1 + Count(c) = 1 + l + f
      BY <2>3
    <2>. QED BY <2>2, <2>4, Zenon DEF l, f
  <1>6. conn[v].rcv_nxt = Plus(Isn[c], 1)
    <2>1. conn[v].rcv_nxt = Plus(Isn[c], 1 + Count(v))
      BY <1>2, Zenon DEF Synced
    <2>2. 1 + Count(v) = 1
      BY <1>4
    <2>. QED BY <2>1, <2>2, Zenon
  <1>7. conn[c].rcv_nxt = Plus(Isn[v], 1 + Len(conn[c].rx) + (IF conn[c].peer_fin THEN 1 ELSE 0))
    BY <1>2, <1>5, Zenon DEF Synced
  <1>. QED BY <1>6, <1>7, Zenon

\* Only net_tcp_connect itself turns its caller's wait into an open handle.
LEMMA ConnectReturns ==
  ASSUME TcpInv, [Next]_vars, NEW c, c = "client", call[c] \in {"connect test", "connect"}, call'[c] = "open"
  PROVE  ConnectTest \/ ConnectPolled
  <1>1. c \in Machines /\ call \in [Machines -> CallNames] /\ call' # call
    BY Zenon DEF TcpInv, Types, Machines
  <1>2. ASSUME NEW e \in Machines, NEW to, call' = [call EXCEPT ![e] = to] PROVE e = c /\ to = "open"
    BY <1>1, <1>2, Zenon
  <1>3. ~net_tcp_connect /\ ~net_tcp_listen /\ ~net_tcp_accept
    <2>1. "server" \in Machines /\ c # "server"
      BY Zenon DEF Machines
    <2>2. ~net_tcp_connect
      BY Zenon DEF net_tcp_connect
    <2>. QED BY <1>2, <2>1, <2>2, Zenon DEF net_tcp_listen, net_tcp_accept, Return
  <1>4. ASSUME NEW e \in Machines PROVE ~SendTest(e) /\ ~SendGivesUp(e) /\ ~CloseEnds(e)
    <2>1. ~SendTest(e)
      BY <1>2, Zenon DEF SendTest
    <2>. QED BY <1>2, <2>1, Zenon DEF SendGivesUp, CloseEnds, Return
  <1>5. ASSUME NEW e \in Machines PROVE ~net_tcp_send(e) /\ ~net_tcp_close(e)
    <2>1. ~net_tcp_send(e)
      <3>1. net_tcp_send(e) => call' = [call EXCEPT ![e] = "send test"] \/ call' = [call EXCEPT ![e] = "send arp"]
        BY Zenon DEF net_tcp_send, EmitNow, EmitLater
      <3>. QED BY <1>2, <3>1, Zenon
    <2>2. ~net_tcp_close(e)
      <3>1. net_tcp_close(e) => \/ call' = [call EXCEPT ![e] = "close"] \/ call' = [call EXCEPT ![e] = "close arp"]
                                \/ call' = [call EXCEPT ![e] = "closed"]
        BY Zenon DEF net_tcp_close, EmitNow, EmitLater, Return
      <3>. QED BY <1>2, <3>1, Zenon
    <2>. QED BY <2>1, <2>2, Zenon
  <1>6. ASSUME NEW e \in Machines PROVE ~ResolveEnds(e)
    <2>1. ResolveEnds(e) => \E to \in {"connect test", "send test", "close"} : call' = [call EXCEPT ![e] = to]
      BY Zenon DEF ResolveEnds
    <2>. QED BY <1>2, <2>1, Zenon
  <1>7. ASSUME NEW e \in Machines
        PROVE  ~RecvData(e) /\ ~RecvEnd(e) /\ ~Deliver(e) /\ ~tcp_tick(e) /\ ~Refuse(e) /\ ~Lose
    BY <1>1, Zenon DEF RecvData, RecvEnd, Deliver, tcp_tick, Refuse, Lose
  <1>8. Next
    BY <1>1, Zenon DEF vars, state
  <1>. QED BY <1>1, <1>3, <1>4, <1>5, <1>6, <1>7, <1>8, Zenon DEF Next, Calls

\* When net_tcp_connect returns a handle both machines agree on where both streams
\* start, when ip_send does not have to wait for ARP.
THEOREM TcpHandshake == ASSUME Short PROVE Spec => HandshakeAgrees
  <1>. DEFINE c == "client"
              v == "server"
              Agreed == /\ conn[c].state # "DONE"
                        /\ conn[v].rcv_nxt = Plus(Isn[c], 1)
                        /\ conn[c].rcv_nxt = Plus(Isn[v], 1 + Len(conn[c].rx) + (IF conn[c].peer_fin THEN 1 ELSE 0))
              Opened == ~with.arpMiss /\ call[c] \in {"connect test", "connect"} /\ call'[c] = "open"
  <1>1. TcpInv /\ [Next]_vars => (Opened => Agreed)
    <2>. SUFFICES ASSUME TcpInv, [Next]_vars, Opened PROVE Agreed
      BY Zenon
    <2>1. /\ c \in Machines /\ v \in Machines /\ Peer(c) = v /\ Peer(v) = c /\ Types
          /\ AckInv(c) /\ PlaceInv
      BY Zenon DEF Machines, Peer, TcpInv
    <2>2. ConnectTest \/ ConnectPolled
      BY ConnectReturns, Zenon
    <2>3. conn[c].state \notin {"SYN_SENT", "DONE"}
      <3>1. call \in [Machines -> CallNames]
        BY <2>1, Zenon DEF Types
      <3>2. CASE ConnectTest
        BY <2>1, <3>1, <3>2, Zenon DEF AckInv, ConnectTest, Return
      <3>3. CASE ConnectPolled
        BY <2>1, <3>1, <3>3, Zenon DEF ConnectPolled, Return
      <3>. QED BY <2>2, <3>2, <3>3, Zenon
    <2>4. conn[c].state \in {"ESTABLISHED", "FIN_WAIT"} /\ call[c] \in Before
      <3>1. conn[c].state \in States /\ conn[c].state \notin {"CLOSED", "LISTEN", "SYN_RCVD"}
        BY <2>1, Zenon DEF PlaceInv, Types, Conns
      <3>. QED BY <2>3, <3>1, Zenon DEF States, Before
    <2>. QED BY <2>1, <2>4, AgreedOnceOpen, Zenon
  <1>2. TcpInv /\ [Next]_vars => [Opened => Agreed]_vars
    BY <1>1, Zenon
  <1>. QED BY <1>2, TcpInvariant, PTL DEF Spec, HandshakeAgrees
=============================================================================
