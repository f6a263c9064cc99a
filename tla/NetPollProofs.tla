--------------------------- MODULE NetPollProofs ---------------------------
(***************************************************************************)
(* Proofs for NetPoll, for every ring, cache and number of frames and      *)
(* pings: the receive ring (RingTheorem) and the echo replies              *)
(* (RepliesTheorem).  The k-th frame that arrived is in descriptor k mod   *)
(* N_RX, the driver has returned the descriptors of the frames before      *)
(* First, and RDT is one short of a turn after it; a frame that is out     *)
(* with a handler has a poll below the handler that will return it.        *)
(***************************************************************************)
EXTENDS NetPoll, Integers, TLAPS

----------------------------------------------------------------------------
(* The inductive invariant.                                                *)

\* Frames, places in the calls, and calls.
FrameSet == [kind : Kinds \cup {"none"}, id : Nat, host : Hosts \cup {0}, mac : Macs \cup {0}, seq : Nat]
Pcs == {"poll", "scan", "input", "send", "reply", "pinged", "wait", "test", "pong", "polled"}
CallSet == [pc : Pcs, frame : FrameSet, slot : 0 .. N_RX, seq : Nat]

\* The variables of the receive path have their types.
TypeInv ==
  /\ ring \in [Slots -> [dd : BOOLEAN, frame : FrameSet]]
  /\ rdh \in Slots /\ rdt \in Slots /\ cur \in Slots /\ handed \in 0 .. N_RX
  /\ stack \in Seq(CallSet)
  /\ ping \in [seq : Nat, got : BOOLEAN, result : {"none", "failed", "answered"}]
  /\ arrived \in Seq(FrameSet) /\ handled \in Seq(FrameSet)
  /\ replies \in Seq(FrameSet \X FrameSet) /\ wire \subseteq Nat

\* The descriptor of the k-th frame, from 0.
Place(k) == k % N_RX

\* The frames in descriptors the driver has not returned: those from First on.
First == IF handed = N_RX THEN Len(handled) ELSE Len(handled) - 1

\* Where the frames are, and how far the card and the driver have gone round.
RingInv ==
  /\ handed # N_RX => Len(handled) > 0 /\ handed = Place(Len(handled) - 1)
  /\ Len(handled) <= Len(arrived) /\ Len(arrived) - First < N_RX
  /\ rdh = Place(Len(arrived)) /\ cur = Place(Len(handled)) /\ rdt = Place(First + (N_RX - 1))
  /\ \A i \in 1 .. Len(handled) : handled[i] = arrived[i]
  /\ \A k \in First .. Len(arrived) - 1 : ring[Place(k)].dd /\ ring[Place(k)].frame = arrived[k + 1]
  /\ \A i \in Slots : ring[i].dd => \E k \in First .. Len(arrived) - 1 : i = Place(k)

\* The calls on the stack: a sender is above the call that wants it to send, with a copy
\* of the frame that call is about, net_ping is at the bottom, and what runs only at the
\* top is only there.
Sending == {"send", "wait", "test"}
OnTop == {"scan", "input"}
Pinging == {"pinged", "pong", "polled"}
Over(x, y) == y.pc \in {"reply", "pinged"} /\ (y.pc = "reply" => x.frame = y.frame)
Fits(s, i) ==
  /\ s[i].pc \in OnTop => i = 1
  /\ s[i].pc \in Pinging => i = Len(s)
  /\ s[i].pc \in Sending => i < Len(s) /\ Over(s[i], s[i + 1])
Nested(s) == \A i \in 1 .. Len(s) : Fits(s, i)
HasPoll(s) == \E i \in 1 .. Len(s) : s[i].pc = "poll"

\* A frame is with its handler, or its poll goes on and returns it.
StackInv ==
  /\ Nested(stack)
  /\ At("scan") => handed = N_RX
  /\ At("input") => handed # N_RX /\ Top.slot = handed /\ Top.frame = handled[Len(handled)]
  /\ handed # N_RX => HasPoll(stack)

\* A reply to this ping was taken; what was sent as a reply is the request.
Answered == \E i \in 1 .. Len(handled) : handled[i].seq = ping.seq
ReplyInv ==
  /\ \A i \in DOMAIN replies : replies[i][1] = replies[i][2]
  /\ ping.got \/ ping.result = "answered" => Answered

\* The inductive invariant.
IInv == TypeInv /\ RingInv /\ StackInv /\ ReplyInv

----------------------------------------------------------------------------
(* Going round the ring.                                                   *)

\* What division says.
LEMMA Divides ==
  ASSUME NEW m \in Nat \ {0}, NEW a \in Nat
  PROVE  (a % m) \in 0 .. m - 1 /\ (a \div m) \in Int /\ a = (a \div m) * m + (a % m)
  OBVIOUS

\* A remainder, from the quotient it goes with.
LEMMA Remainder ==
  ASSUME NEW m \in Nat \ {0}, NEW q \in Int, NEW r \in 0 .. m - 1
  PROVE  (q * m + r) % m = r
  BY SMTT(30)

\* Every frame has a descriptor, and the first N_RX frames have the first N_RX ones.
LEMMA PlaceIs == \A k \in Nat : Place(k) \in Slots /\ (k < N_RX => Place(k) = k)
  BY NetAssumption DEF Place, Slots

\* Frames less than a whole turn apart are in different descriptors.
LEMMA PlaceApart == \A j, k \in Nat : j < k /\ k < j + N_RX => Place(j) # Place(k)
  <1>. SUFFICES ASSUME NEW j \in Nat, NEW k \in Nat, j < k, k < j + N_RX PROVE Place(j) # Place(k)
    BY Zenon
  <1>. DEFINE m == N_RX
              q == j \div m
              p == k \div m
              a == Place(j)
              b == Place(k)
  <1>0. m \in Nat \ {0}
    BY NetAssumption
  <1>1. /\ j = q * m + a /\ k = p * m + b /\ q \in Int /\ p \in Int
        /\ a \in 0 .. m - 1 /\ b \in 0 .. m - 1
    BY <1>0, Divides, Zenon DEF Place
  <1>2. k < j + m
    OBVIOUS
  <1>. HIDE DEF q, p, a, b, m
  <1>3. CASE q >= p
    <2>1. p * m <= q * m
      BY <1>0, <1>1, <1>3
    <2>. QED BY <1>0, <1>1, <2>1 DEF a, b
  <1>4. CASE q + 1 <= p
    <2>1. (q + 1) * m <= p * m
      BY <1>0, <1>1, <1>4
    <2>2. a # b
      BY <1>0, <1>1, <1>2, <2>1
    <2>. QED BY <2>2, Zenon DEF a, b
  <1>. QED BY <1>1, <1>3, <1>4

\* A whole turn further on is the same descriptor, one frame further on the next one.
LEMMA PlaceNext == \A k \in Nat : NextSlot(Place(k)) = Place(k + 1) /\ Place(k + N_RX) = Place(k)
  <1>. SUFFICES ASSUME NEW k \in Nat PROVE NextSlot(Place(k)) = Place(k + 1) /\ Place(k + N_RX) = Place(k)
    BY Zenon
  <1>. DEFINE m == N_RX
              q == k \div m
              a == k % m
  <1>0. m \in Nat /\ m > 1 /\ m \in Nat \ {0}
    BY NetAssumption
  <1>1. k = q * m + a /\ q \in Int /\ a \in 0 .. m - 1
    BY <1>0, Divides, Zenon
  <1>. HIDE DEF q, a, m
  <1>2. k + m = (q + 1) * m + a /\ q + 1 \in Int
    BY <1>0, <1>1
  <1>3. ((k + m) % m) = a
    <2>. DEFINE z == q + 1
    <2>. HIDE DEF z
    <2>1. ((z * m + a) % m) = a
      BY <1>0, <1>1, <1>2, Remainder, Zenon DEF z
    <2>. QED BY <1>2, <2>1, Zenon DEF z
  <1>4. ((a + 1) % m) = ((k + 1) % m)
    <2>1. CASE a + 1 < m
      <3>1. ((a + 1) % m) = a + 1
        BY <1>0, <1>1, <2>1
      <3>2. k + 1 = q * m + (a + 1) /\ a + 1 \in 0 .. m - 1
        BY <1>0, <1>1, <2>1
      <3>. DEFINE c == a + 1
      <3>. HIDE DEF c
      <3>3. ((q * m + c) % m) = c
        BY <1>0, <1>1, <3>2, Remainder, Zenon DEF c
      <3>. QED BY <3>1, <3>2, <3>3, Zenon DEF c
    <2>2. CASE a + 1 = m
      <3>1. ((a + 1) % m) = 0
        BY <1>0, <2>2
      <3>2. k + 1 = (q + 1) * m + 0 /\ q + 1 \in Int /\ 0 \in 0 .. m - 1
        BY <1>0, <1>1, <2>2
      <3>. DEFINE z == q + 1
      <3>. HIDE DEF z
      <3>3. ((z * m + 0) % m) = 0
        BY <1>0, <3>2, Remainder, Zenon DEF z
      <3>. QED BY <3>1, <3>2, <3>3, Zenon DEF z
    <2>. QED BY <1>0, <1>1, <2>1, <2>2
  <1>. QED BY <1>3, <1>4, Zenon DEF Place, NextSlot, m, a

----------------------------------------------------------------------------
(* The descriptors.                                                        *)

\* Where the frames not yet returned begin, as a number.
LEMMA FirstIs ==
  ASSUME TypeInv, RingInv
  PROVE  /\ Len(handled) \in Nat /\ Len(arrived) \in Nat /\ First \in Nat /\ N_RX \in Nat /\ N_RX > 1
         /\ First <= Len(handled) /\ Len(handled) <= First + 1 /\ Len(handled) <= Len(arrived)
         /\ Len(arrived) < First + N_RX
  <1>1. Len(handled) \in Nat /\ Len(arrived) \in Nat /\ N_RX \in Nat /\ N_RX > 1
    BY NetAssumption DEF TypeInv
  <1>2. /\ handed # N_RX => Len(handled) > 0
        /\ Len(handled) <= Len(arrived) /\ Len(arrived) - First < N_RX
    BY Zenon DEF RingInv
  <1>3. First = IF handed = N_RX THEN Len(handled) ELSE Len(handled) - 1
    BY Zenon DEF First
  <1>. QED BY <1>1, <1>2, <1>3

\* A frame appended.
LEMMA Appended ==
  \A s \in Seq(FrameSet), f \in FrameSet :
    /\ Append(s, f) \in Seq(FrameSet) /\ Len(s) \in Nat /\ Len(Append(s, f)) = Len(s) + 1
    /\ \A i \in 1 .. Len(s) : Append(s, f)[i] = s[i]
    /\ Append(s, f)[Len(s) + 1] = f
  OBVIOUS

\* CardReceives: the descriptor of the next frame holds none, as one is kept back.
LEMMA RingReceives == ASSUME TypeInv, RingInv, CardReceives PROVE RingInv' /\ arrived' \in Seq(FrameSet)
  <1>1. PICK f \in Frame(Len(arrived) + 1) :
          /\ ring' = [ring EXCEPT ![rdh] = [dd |-> TRUE, frame |-> f]]
          /\ arrived' = Append(arrived, f)
    BY Zenon DEF CardReceives
  <1>2. rdh # rdt /\ rdh' = NextSlot(rdh) /\ UNCHANGED <<rdt, cur, handed, handled>>
    BY Zenon DEF CardReceives, NextSlot
  <1>3. f \in FrameSet
    <2>1. f \in [kind : Kinds, id : {Len(arrived) + 1}, host : Hosts, mac : Macs \cup {0}, seq : wire \cup {0}]
      BY Zenon DEF Frame
    <2>2. Len(arrived) + 1 \in Nat /\ wire \cup {0} \subseteq Nat
      BY DEF TypeInv
    <2>. QED BY <2>1, <2>2 DEF FrameSet
  <1>. DEFINE a == Len(arrived)
              h == Len(handled)
              F == First
              N == N_RX
  <1>4. /\ arrived' \in Seq(FrameSet) /\ Len(arrived') = a + 1
        /\ \A i \in 1 .. a : arrived'[i] = arrived[i]
        /\ arrived'[a + 1] = f
    <2>1. arrived \in Seq(FrameSet)
      BY Zenon DEF TypeInv
    <2>. QED BY <1>1, <1>3, <2>1, Appended, Zenon
  <1>5. First' = F /\ Len(handled') = h
    BY <1>2, Zenon DEF First
  <1>6. /\ h \in Nat /\ a \in Nat /\ F \in Nat /\ N \in Nat /\ N > 1
        /\ F <= h /\ h <= F + 1 /\ h <= a /\ a < F + N
    BY FirstIs, Zenon
  <1>7. /\ rdh = Place(a) /\ cur = Place(h) /\ rdt = Place(F + (N - 1))
        /\ \A i \in 1 .. h : handled[i] = arrived[i]
        /\ \A k \in F .. a - 1 : ring[Place(k)].dd /\ ring[Place(k)].frame = arrived[k + 1]
        /\ \A i \in Slots : ring[i].dd => \E k \in F .. a - 1 : i = Place(k)
        /\ handed # N_RX => h > 0 /\ handed = Place(h - 1)
    BY Zenon DEF RingInv
  <1>71. ring \in [Slots -> [dd : BOOLEAN, frame : FrameSet]]
    BY Zenon DEF TypeInv
  <1>. HIDE DEF a, h, F, N
  <1>8. a + 1 < F + N
    <2>1. a # F + (N - 1)
      BY <1>2, <1>7, Zenon
    <2>. QED BY <1>6, <2>1
  <1>9. Place(a) \in Slots /\ rdh' = Place(a + 1)
    BY <1>2, <1>6, <1>7, PlaceIs, PlaceNext, Zenon
  <1>10. ring'[Place(a)].dd /\ ring'[Place(a)].frame = f /\ \A i \in Slots : i # Place(a) => ring'[i] = ring[i]
    <2>1. ring' = [ring EXCEPT ![Place(a)] = [dd |-> TRUE, frame |-> f]]
      BY <1>1, <1>7, Zenon
    <2>. QED BY <1>71, <1>9, <2>1, Zenon
  <1>11. \A k \in F .. a - 1 : k \in Nat /\ Place(k) \in Slots /\ Place(k) # Place(a) /\ k + 1 \in 1 .. a
    <2>1. \A k \in F .. a - 1 : k \in Nat /\ k < a /\ a < k + N_RX /\ k + 1 \in 1 .. a
      BY <1>6 DEF N
    <2>. QED BY <1>6, <2>1, PlaceIs, PlaceApart, Zenon
  <1>12. \A k \in F .. a : ring'[Place(k)].dd /\ ring'[Place(k)].frame = arrived'[k + 1]
    <2>1. \A k \in F .. a : k = a \/ k \in F .. a - 1
      BY <1>6
    <2>. QED BY <1>4, <1>7, <1>10, <1>11, <2>1, Zenon
  <1>13. \A i \in Slots : ring'[i].dd => \E k \in F .. a : i = Place(k)
    <2>1. a \in F .. a /\ \A k \in F .. a - 1 : k \in F .. a
      BY <1>6
    <2>. QED BY <1>7, <1>10, <2>1, Zenon
  <1>14. \A i \in 1 .. h : handled'[i] = arrived'[i]
    <2>1. \A i \in 1 .. h : i \in 1 .. a
      BY <1>6
    <2>. QED BY <1>2, <1>4, <1>7, <2>1, Zenon
  <1>15. (a + 1) - 1 = a /\ h <= a + 1 /\ (a + 1) - F < N
    BY <1>6, <1>8
  <1>16. RingInv'
    <2>1. /\ handed' # N_RX => Len(handled') > 0 /\ handed' = Place(Len(handled') - 1)
          /\ Len(handled') <= Len(arrived') /\ Len(arrived') - First' < N_RX
      BY <1>2, <1>4, <1>5, <1>7, <1>15, Zenon DEF N
    <2>2. /\ rdh' = Place(Len(arrived')) /\ cur' = Place(Len(handled')) /\ rdt' = Place(First' + (N_RX - 1))
      BY <1>2, <1>4, <1>5, <1>7, <1>9, Zenon DEF N
    <2>3. \A k \in First' .. Len(arrived') - 1 : ring'[Place(k)].dd /\ ring'[Place(k)].frame = arrived'[k + 1]
      BY <1>4, <1>5, <1>12, <1>15, Zenon
    <2>4. \A i \in Slots : ring'[i].dd => \E k \in First' .. Len(arrived') - 1 : i = Place(k)
      BY <1>4, <1>5, <1>13, <1>15, Zenon
    <2>. QED BY <1>5, <1>14, <2>1, <2>2, <2>3, <2>4, Zenon DEF RingInv, Place
  <1>. QED BY <1>4, <1>16, Zenon

\* The oldest frame is returned: its descriptor is clear, the others hold what they held.
LEMMA Returned ==
  ASSUME TypeInv, RingInv
  PROVE  LET rg == Cleared(Place(First))
         IN  /\ rg \in [Slots -> [dd : BOOLEAN, frame : FrameSet]]
             /\ \A i \in Slots : rg[i].frame = ring[i].frame
             /\ \A k \in First + 1 .. Len(arrived) - 1 : rg[Place(k)].dd /\ rg[Place(k)].frame = arrived[k + 1]
             /\ \A i \in Slots : rg[i].dd => \E k \in First + 1 .. Len(arrived) - 1 : i = Place(k)
  <1>. DEFINE rg == Cleared(Place(First))
              a == Len(arrived)
              F == First
  <1>1. /\ a \in Nat /\ F \in Nat /\ N_RX \in Nat /\ a < F + N_RX
    BY FirstIs, Zenon
  <1>2. /\ \A k \in F .. a - 1 : ring[Place(k)].dd /\ ring[Place(k)].frame = arrived[k + 1]
        /\ \A i \in Slots : ring[i].dd => \E k \in F .. a - 1 : i = Place(k)
    BY Zenon DEF RingInv
  <1>3. ring \in [Slots -> [dd : BOOLEAN, frame : FrameSet]] /\ Place(F) \in Slots
    BY <1>1, PlaceIs, Zenon DEF TypeInv
  <1>4. /\ rg \in [Slots -> [dd : BOOLEAN, frame : FrameSet]]
        /\ \A i \in Slots : rg[i].frame = ring[i].frame /\ (i # Place(F) => rg[i] = ring[i])
        /\ ~rg[Place(F)].dd
    BY <1>3 DEF Cleared
  <1>. HIDE DEF a, F, rg
  <1>5. \A k \in F + 1 .. a - 1 : k \in F .. a - 1 /\ Place(k) \in Slots /\ Place(k) # Place(F)
    <2>1. \A k \in F + 1 .. a - 1 : k \in F .. a - 1 /\ k \in Nat /\ F < k /\ k < F + N_RX
      BY <1>1
    <2>. QED BY <1>1, <2>1, PlaceIs, PlaceApart, Zenon
  <1>6. \A k \in F + 1 .. a - 1 : rg[Place(k)].dd /\ rg[Place(k)].frame = arrived[k + 1]
    BY <1>2, <1>4, <1>5, Zenon
  <1>7. ASSUME NEW i \in Slots, rg[i].dd PROVE \E k \in F + 1 .. a - 1 : i = Place(k)
    <2>1. i # Place(F) /\ ring[i].dd
      BY <1>4, <1>7, Zenon
    <2>2. PICK k \in F .. a - 1 : i = Place(k)
      BY <1>2, <2>1, Zenon
    <2>3. k # F
      BY <2>1, <2>2, Zenon
    <2>4. k \in F + 1 .. a - 1
      BY <1>1, <2>3
    <2>. QED BY <2>2, <2>4, Zenon
  <1>. QED BY <1>4, <1>6, <1>7, Zenon DEF rg, a, F

\* The descriptor at cur, once written back, holds the next frame.
LEMMA NextFrame ==
  ASSUME TypeInv, RingInv, handed = N_RX, ring[cur].dd
  PROVE  /\ First = Len(handled) /\ cur = Place(First) /\ Len(handled) < Len(arrived)
         /\ ring[cur].frame = arrived[Len(handled) + 1] /\ ring[cur].frame \in FrameSet
  <1>. DEFINE a == Len(arrived)
              h == Len(handled)
  <1>1. First = h /\ h \in Nat /\ a \in Nat /\ h <= a /\ N_RX \in Nat /\ N_RX > 1 /\ a < h + N_RX
    BY FirstIs, Zenon DEF First
  <1>2. cur = Place(h) /\ cur \in Slots
    BY Zenon DEF RingInv, TypeInv
  <1>3. PICK k \in h .. a - 1 : cur = Place(k)
    BY <1>1, <1>2, Zenon DEF RingInv
  <1>4. ring[Place(k)].frame = arrived[k + 1]
    BY <1>1, Zenon DEF RingInv
  <1>5. ring[cur].frame \in FrameSet
    BY <1>2, Zenon DEF TypeInv
  <1>. HIDE DEF a, h
  <1>6. k \in Nat /\ h <= k /\ k < h + N_RX /\ h < a
    BY <1>1, <1>3
  <1>7. k = h
    <2>1. ~(h < k)
      BY <1>1, <1>2, <1>3, <1>6, PlaceApart, Zenon
    <2>. QED BY <1>1, <1>6, <2>1
  <1>. QED BY <1>1, <1>2, <1>3, <1>4, <1>5, <1>6, <1>7, Zenon DEF a, h

\* rx_recycle_handed: the frame handed out, if there is one, is the oldest.
LEMMA RingRecycles ==
  ASSUME TypeInv, RingInv, rx_recycle_handed
  PROVE  RingInv' /\ ring' \in [Slots -> [dd : BOOLEAN, frame : FrameSet]] /\ rdt' \in Slots /\ handed' = N_RX
  <1>1. /\ ring' = IF handed = N_RX THEN ring ELSE Cleared(handed)
        /\ rdt' = IF handed = N_RX THEN rdt ELSE handed
        /\ handed' = N_RX /\ UNCHANGED <<rdh, cur, arrived, handled>>
    BY Zenon DEF rx_recycle_handed, hidden
  <1>. DEFINE h == Len(handled)
              a == Len(arrived)
              F == First
  <1>2. First' = h
    BY <1>1, Zenon DEF First
  <1>3. CASE handed = N_RX
    <2>1. ring' = ring /\ rdt' = rdt /\ handed' = handed /\ First' = First
      BY <1>1, <1>3, Zenon DEF First
    <2>2. RingInv'
      BY <1>1, <2>1, Zenon DEF RingInv, Place
    <2>. QED BY <1>1, <2>1, <2>2, Zenon DEF TypeInv
  <1>4. CASE handed # N_RX
    <2>1. h > 0 /\ handed = Place(h - 1) /\ First = h - 1
      BY <1>4, Zenon DEF RingInv, First
    <2>2. /\ h \in Nat /\ a \in Nat /\ F \in Nat /\ N_RX \in Nat /\ N_RX > 1 /\ h <= a /\ a < F + N_RX
      BY FirstIs, Zenon
    <2>3. ring' = Cleared(Place(F)) /\ rdt' = Place(F) /\ F = h - 1
      BY <1>1, <1>4, <2>1, Zenon
    <2>4. /\ ring' \in [Slots -> [dd : BOOLEAN, frame : FrameSet]]
          /\ \A k \in F + 1 .. a - 1 : ring'[Place(k)].dd /\ ring'[Place(k)].frame = arrived[k + 1]
          /\ \A i \in Slots : ring'[i].dd => \E k \in F + 1 .. a - 1 : i = Place(k)
      BY <2>3, Returned, Zenon
    <2>5. /\ \A i \in 1 .. h : handled[i] = arrived[i]
          /\ rdh = Place(a) /\ cur = Place(h)
      BY Zenon DEF RingInv
    <2>. HIDE DEF h, a, F
    <2>6. F + 1 = h /\ h + (N_RX - 1) = F + N_RX /\ a - h < N_RX
      BY <2>2, <2>3
    <2>7. rdt' = Place(h + (N_RX - 1)) /\ rdt' \in Slots
      BY <2>2, <2>3, <2>6, PlaceNext, PlaceIs, Zenon
    <2>8. RingInv'
      <3>1. Len(handled') = h /\ Len(arrived') = a
        BY <1>1, Zenon DEF h, a
      <3>2. h <= a /\ First' = F + 1
        BY <1>2, <2>2, <2>6, Zenon DEF h
      <3>3. /\ \A k \in First' .. Len(arrived') - 1 : ring'[Place(k)].dd /\ ring'[Place(k)].frame = arrived'[k + 1]
            /\ \A i \in Slots : ring'[i].dd => \E k \in First' .. Len(arrived') - 1 : i = Place(k)
        BY <1>1, <2>4, <3>1, <3>2, Zenon
      <3>4. /\ Len(handled') <= Len(arrived') /\ Len(arrived') - First' < N_RX
            /\ rdh' = Place(Len(arrived')) /\ cur' = Place(Len(handled')) /\ rdt' = Place(First' + (N_RX - 1))
            /\ \A i \in 1 .. Len(handled') : handled'[i] = arrived'[i]
        BY <1>1, <2>5, <2>6, <2>7, <3>1, <3>2, Zenon
      <3>. QED BY <1>1, <3>3, <3>4, Zenon DEF RingInv, Place
    <2>. QED BY <1>1, <2>4, <2>7, <2>8, Zenon
  <1>. QED BY <1>3, <1>4, Zenon

\* e1000_rx_poll hands out the next frame: its descriptor stays with the driver.
LEMMA RingFrame ==
  ASSUME TypeInv, RingInv, handed = N_RX, RxFrame
  PROVE  /\ RingInv' /\ cur' \in Slots /\ handed' \in Slots /\ handed' = cur
         /\ handled' \in Seq(FrameSet) /\ Len(handled') = Len(handled) + 1
         /\ handled'[Len(handled')] = ring[cur].frame
         /\ \A i \in 1 .. Len(handled) : handled'[i] = handled[i]
  <1>. DEFINE h == Len(handled)
              a == Len(arrived)
              f == ring[cur].frame
  <1>1. /\ ring[cur].dd /\ handed' = cur /\ cur' = NextSlot(cur) /\ handled' = Append(handled, f)
        /\ UNCHANGED <<ring, rdh, rdt, arrived>>
    BY Zenon DEF RxFrame
  <1>2. First = h /\ cur = Place(h) /\ h < a /\ f = arrived[h + 1] /\ f \in FrameSet
    BY <1>1, NextFrame, Zenon
  <1>3. h \in Nat /\ a \in Nat /\ N_RX \in Nat /\ a < h + N_RX
    BY <1>2, FirstIs, Zenon
  <1>4. /\ handled' \in Seq(FrameSet) /\ Len(handled') = h + 1 /\ handled'[h + 1] = f
        /\ \A i \in 1 .. h : handled'[i] = handled[i]
    <2>1. handled \in Seq(FrameSet)
      BY Zenon DEF TypeInv
    <2>. QED BY <1>1, <1>2, <2>1, Appended, Zenon
  <1>5. /\ rdh = Place(a) /\ rdt = Place(h + (N_RX - 1))
        /\ \A i \in 1 .. h : handled[i] = arrived[i]
        /\ \A k \in h .. a - 1 : ring[Place(k)].dd /\ ring[Place(k)].frame = arrived[k + 1]
        /\ \A i \in Slots : ring[i].dd => \E k \in h .. a - 1 : i = Place(k)
    BY <1>2, Zenon DEF RingInv
  <1>6. Place(h) \in Slots /\ cur' = Place(h + 1) /\ Place(h + 1) \in Slots
    <2>1. h + 1 \in Nat
      BY <1>3
    <2>. QED BY <1>1, <1>2, <1>3, <2>1, PlaceIs, PlaceNext, Zenon
  <1>7. handed' # N_RX
    BY <1>1, <1>2, <1>6, NetAssumption DEF Slots
  <1>. HIDE DEF h, a, f
  <1>8. (h + 1) - 1 = h /\ h + 1 > 0 /\ h + 1 <= a /\ a - h < N_RX
    BY <1>2, <1>3
  <1>9. First' = h
    BY <1>4, <1>7, <1>8, Zenon DEF First
  <1>10. \A i \in 1 .. h + 1 : handled'[i] = arrived[i]
    <2>1. \A i \in 1 .. h + 1 : i \in 1 .. h \/ i = h + 1
      BY <1>3
    <2>. QED BY <1>2, <1>4, <1>5, <2>1, Zenon
  <1>11. RingInv'
    <2>1. Len(arrived') = a
      BY <1>1, Zenon DEF a
    <2>. QED BY <1>1, <1>2, <1>4, <1>5, <1>6, <1>8, <1>9, <1>10, <2>1, Zenon DEF RingInv, Place
  <1>. QED BY <1>1, <1>2, <1>4, <1>6, <1>11, Zenon DEF h, f

\* A fragment is dropped and its descriptor returned at once.
LEMMA RingFragment ==
  ASSUME TypeInv, RingInv, handed = N_RX, RxFragment
  PROVE  /\ RingInv' /\ cur' \in Slots /\ rdt' \in Slots /\ ring' \in [Slots -> [dd : BOOLEAN, frame : FrameSet]]
         /\ handled' \in Seq(FrameSet) /\ Len(handled') = Len(handled) + 1
         /\ \A i \in 1 .. Len(handled) : handled'[i] = handled[i]
  <1>. DEFINE h == Len(handled)
              a == Len(arrived)
              f == ring[cur].frame
  <1>1. /\ ring[cur].dd /\ rdt' = cur /\ cur' = NextSlot(cur) /\ handled' = Append(handled, f)
        /\ ring' = Cleared(cur) /\ UNCHANGED <<rdh, handed, arrived>>
    BY Zenon DEF RxFragment
  <1>2. First = h /\ cur = Place(h) /\ h < a /\ f = arrived[h + 1] /\ f \in FrameSet
    BY <1>1, NextFrame, Zenon
  <1>3. h \in Nat /\ a \in Nat /\ N_RX \in Nat /\ a < h + N_RX
    BY <1>2, FirstIs, Zenon
  <1>4. /\ handled' \in Seq(FrameSet) /\ Len(handled') = h + 1 /\ handled'[h + 1] = f
        /\ \A i \in 1 .. h : handled'[i] = handled[i]
    <2>1. handled \in Seq(FrameSet)
      BY Zenon DEF TypeInv
    <2>. QED BY <1>1, <1>2, <2>1, Appended, Zenon
  <1>5. rdh = Place(a) /\ \A i \in 1 .. h : handled[i] = arrived[i]
    BY <1>2, Zenon DEF RingInv
  <1>6. Place(h) \in Slots /\ cur' = Place(h + 1) /\ Place(h + 1) \in Slots /\ Place(h + N_RX) = Place(h)
    <2>1. h + 1 \in Nat
      BY <1>3
    <2>. QED BY <1>1, <1>2, <1>3, <2>1, PlaceIs, PlaceNext, Zenon
  <1>7. /\ ring' \in [Slots -> [dd : BOOLEAN, frame : FrameSet]]
        /\ \A k \in h + 1 .. a - 1 : ring'[Place(k)].dd /\ ring'[Place(k)].frame = arrived[k + 1]
        /\ \A i \in Slots : ring'[i].dd => \E k \in h + 1 .. a - 1 : i = Place(k)
    BY <1>1, <1>2, Returned, Zenon
  <1>. HIDE DEF h, a, f
  <1>8. h + 1 <= a /\ a - (h + 1) < N_RX /\ (h + 1) + (N_RX - 1) = h + N_RX
    BY <1>2, <1>3
  <1>9. First' = h + 1
    BY <1>1, <1>4, Zenon DEF First
  <1>10. \A i \in 1 .. h + 1 : handled'[i] = arrived[i]
    <2>1. \A i \in 1 .. h + 1 : i \in 1 .. h \/ i = h + 1
      BY <1>3
    <2>. QED BY <1>2, <1>4, <1>5, <2>1, Zenon
  <1>11. RingInv'
    <2>1. Len(arrived') = a
      BY <1>1, Zenon DEF a
    <2>. QED BY <1>1, <1>2, <1>4, <1>5, <1>6, <1>7, <1>8, <1>9, <1>10, <2>1, Zenon DEF RingInv, Place
  <1>. QED BY <1>1, <1>2, <1>4, <1>6, <1>7, <1>11, Zenon DEF h

\* Whatever else happens leaves the descriptors alone.
LEMMA RingKeeps == ASSUME RingInv, UNCHANGED <<ring, rdh, rdt, cur, handed, arrived, handled>> PROVE RingInv'
  <1>1. First' = First
    BY Zenon DEF First
  <1>. QED BY <1>1, Zenon DEF RingInv, Place

----------------------------------------------------------------------------
(* The stack.                                                              *)

\* Calls that return leave the stack nested; what was below is not at the top only.
LEMMA NestedDrop ==
  ASSUME NEW s \in Seq(CallSet), NEW t \in Seq(CallSet), NEW n \in {1, 2}, n <= Len(s),
         Len(t) = Len(s) - n, \A i \in 1 .. Len(t) : t[i] = s[i + n], Nested(s)
  PROVE  /\ Nested(t) /\ \A i \in 1 .. Len(t) : t[i].pc \notin OnTop
         /\ (HasPoll(s) /\ \A i \in 1 .. n : s[i].pc # "poll") => HasPoll(t)
  <1>0. Len(s) \in Nat /\ Len(t) \in Nat
    OBVIOUS
  <1>. DEFINE l == Len(s)
              m == Len(t)
  <1>1. l \in Nat /\ m \in Nat /\ m = l - n /\ n \in {1, 2} /\ n <= l
    BY <1>0
  <1>2. \A i \in 1 .. m : t[i] = s[i + n]
    OBVIOUS
  <1>3. \A i \in 1 .. l : /\ s[i].pc \in OnTop => i = 1
                          /\ s[i].pc \in Pinging => i = l
                          /\ s[i].pc \in Sending => i < l /\ Over(s[i], s[i + 1])
    BY Zenon DEF Nested, Fits
  <1>4. HasPoll(s) => \E i \in 1 .. l : s[i].pc = "poll"
    BY Zenon DEF HasPoll
  <1>5. (\E i \in 1 .. m : t[i].pc = "poll") => HasPoll(t)
    BY Zenon DEF HasPoll
  <1>6. (\A i \in 1 .. m : Fits(t, i)) => Nested(t)
    BY Zenon DEF Nested
  <1>7. \A i \in 1 .. m : Fits(t, i) <=>
          /\ t[i].pc \in OnTop => i = 1
          /\ t[i].pc \in Pinging => i = m
          /\ t[i].pc \in Sending => i < m /\ Over(t[i], t[i + 1])
    BY Zenon DEF Fits
  <1>. HIDE DEF l, m
  <1>8. ASSUME NEW i \in 1 .. m PROVE Fits(t, i) /\ t[i].pc \notin OnTop
    <2>1. /\ i + n \in 1 .. l /\ i + n # 1 /\ (i + n = l => i = m) /\ (i + n < l => i < m /\ i + 1 \in 1 .. m)
          /\ (i + 1) + n = (i + n) + 1
      BY <1>1
    <2>2. t[i] = s[i + n] /\ (i < m => t[i + 1] = s[(i + 1) + n])
      <3>1. i < m => i + 1 \in 1 .. m
        BY <1>1
      <3>. QED BY <1>2, <3>1, Zenon
    <2>3. t[i].pc \notin OnTop /\ (t[i].pc \in Pinging => i = m)
      BY <1>3, <2>1, <2>2, Zenon
    <2>4. t[i].pc \in Sending => i < m /\ Over(t[i], t[i + 1])
      BY <1>3, <2>1, <2>2, Zenon
    <2>. QED BY <1>7, <2>3, <2>4, Zenon
  <1>9. ASSUME HasPoll(s), \A i \in 1 .. n : s[i].pc # "poll" PROVE \E i \in 1 .. m : t[i].pc = "poll"
    <2>1. PICK j \in 1 .. l : s[j].pc = "poll"
      BY <1>4, <1>9, Zenon
    <2>2. j \notin 1 .. n
      BY <1>9, <2>1, Zenon
    <2>3. j - n \in 1 .. m /\ (j - n) + n = j
      BY <1>1, <2>2
    <2>. QED BY <1>2, <2>1, <2>3, Zenon
  <1>. QED BY <1>5, <1>6, <1>8, <1>9, Zenon DEF m

\* Two calls made on top of a stack.
LEMMA NestedPush ==
  ASSUME NEW s \in Seq(CallSet), NEW t \in Seq(CallSet), Len(s) = Len(t) + 2,
         \A i \in 1 .. Len(t) : s[i + 2] = t[i], Nested(t), \A i \in 1 .. Len(t) : t[i].pc \notin OnTop,
         s[1].pc \notin Pinging, s[1].pc \in Sending => Over(s[1], s[2]),
         s[2].pc \notin OnTop, s[2].pc \in Pinging => Len(t) = 0,
         s[2].pc \in Sending => Len(t) > 0 /\ Over(s[2], t[1])
  PROVE  Nested(s) /\ (s[1].pc = "poll" \/ s[2].pc = "poll" \/ HasPoll(t) => HasPoll(s))
  <1>0. Len(s) \in Nat /\ Len(t) \in Nat
    OBVIOUS
  <1>. DEFINE l == Len(s)
              m == Len(t)
  <1>1. l \in Nat /\ m \in Nat /\ l = m + 2
    BY <1>0
  <1>2. \A i \in 1 .. m : s[i + 2] = t[i] /\ t[i].pc \notin OnTop
    BY Zenon
  <1>3. \A i \in 1 .. m : /\ t[i].pc \in Pinging => i = m
                          /\ t[i].pc \in Sending => i < m /\ Over(t[i], t[i + 1])
    BY Zenon DEF Nested, Fits
  <1>4. HasPoll(t) => \E i \in 1 .. m : t[i].pc = "poll"
    BY Zenon DEF HasPoll
  <1>5. (\E i \in 1 .. l : s[i].pc = "poll") => HasPoll(s)
    BY Zenon DEF HasPoll
  <1>6. (\A i \in 1 .. l : Fits(s, i)) => Nested(s)
    BY Zenon DEF Nested
  <1>7. \A i \in 1 .. l : Fits(s, i) <=>
          /\ s[i].pc \in OnTop => i = 1
          /\ s[i].pc \in Pinging => i = l
          /\ s[i].pc \in Sending => i < l /\ Over(s[i], s[i + 1])
    BY Zenon DEF Fits
  <1>71. /\ s[2].pc \in Pinging => m = 0
         /\ s[2].pc \in Sending => m > 0 /\ Over(s[2], t[1])
    BY Zenon
  <1>. HIDE DEF l, m
  <1>72. /\ 1 \in 1 .. l /\ 2 \in 1 .. l /\ 1 < l /\ 1 + 1 = 2 /\ (m = 0 => 2 = l) /\ (m > 0 => 1 \in 1 .. m /\ 2 < l)
         /\ 1 + 2 = 3 /\ 2 + 1 = 3
    BY <1>1
  <1>8. Fits(s, 1)
    BY <1>7, <1>72, Zenon
  <1>9. Fits(s, 2)
    <2>1. m > 0 => s[3] = t[1]
      BY <1>2, <1>72, Zenon
    <2>2. s[2].pc \in Sending => 2 < l /\ Over(s[2], s[2 + 1])
      BY <1>71, <1>72, <2>1, Zenon
    <2>. QED BY <1>7, <1>71, <1>72, <2>2, Zenon
  <1>10. ASSUME NEW i \in 1 .. l, i > 2 PROVE Fits(s, i)
    <2>. DEFINE j == i - 2
    <2>1. j \in 1 .. m /\ j + 2 = i /\ (j = m => i = l) /\ (j < m => i < l /\ j + 1 \in 1 .. m) /\ (j + 1) + 2 = i + 1
      BY <1>1, <1>10
    <2>. HIDE DEF j
    <2>2. s[i] = t[j] /\ (j < m => s[i + 1] = t[j + 1])
      BY <1>2, <2>1, Zenon
    <2>3. s[i].pc \notin OnTop /\ (s[i].pc \in Pinging => i = l)
      BY <1>2, <1>3, <2>1, <2>2, Zenon
    <2>4. s[i].pc \in Sending => i < l /\ Over(s[i], s[i + 1])
      BY <1>3, <2>1, <2>2, Zenon
    <2>. QED BY <1>7, <2>3, <2>4, Zenon
  <1>11. Nested(s)
    <2>1. \A i \in 1 .. l : i = 1 \/ i = 2 \/ i > 2
      BY <1>1
    <2>. QED BY <1>6, <1>8, <1>9, <1>10, <2>1, Zenon
  <1>12. HasPoll(t) => HasPoll(s)
    <2>1. \A i \in 1 .. m : i + 2 \in 1 .. l
      BY <1>1
    <2>. QED BY <1>2, <1>4, <1>5, <2>1, Zenon
  <1>. QED BY <1>5, <1>11, <1>12, <1>72, Zenon

\* The call at the top goes on.
LEMMA NestedGoto ==
  ASSUME NEW s \in Seq(CallSet), Len(s) > 0, NEW p \in Pcs, Nested(s),
         p \in Sending => s[1].pc \in Sending, p \in Pinging => s[1].pc \in Pinging
  PROVE  LET t == [s EXCEPT ![1].pc = p]
         IN  /\ t \in Seq(CallSet) /\ Len(t) = Len(s) /\ t[1].pc = p /\ t[1].frame = s[1].frame /\ t[1].slot = s[1].slot
             /\ Nested(t) /\ (HasPoll(s) /\ s[1].pc # "poll" => HasPoll(t))
  <1>. DEFINE t == [s EXCEPT ![1].pc = p]
              l == Len(s)
  <1>0. l \in Nat /\ l > 0 /\ s[1] \in CallSet
    OBVIOUS
  <1>1. /\ t \in Seq(CallSet) /\ Len(t) = l /\ t[1] = [s[1] EXCEPT !.pc = p]
        /\ \A i \in 1 .. l : i # 1 => t[i] = s[i]
    <2>1. [s[1] EXCEPT !.pc = p] \in CallSet
      BY <1>0 DEF CallSet
    <2>2. t = [s EXCEPT ![1] = [s[1] EXCEPT !.pc = p]]
      BY <1>0
    <2>. QED BY <1>0, <2>1, <2>2
  <1>2. t[1].pc = p /\ t[1].frame = s[1].frame /\ t[1].slot = s[1].slot
    BY <1>0, <1>1 DEF CallSet
  <1>3. \A i \in 1 .. l : /\ s[i].pc \in OnTop => i = 1
                          /\ s[i].pc \in Pinging => i = l
                          /\ s[i].pc \in Sending => i < l /\ Over(s[i], s[i + 1])
    BY Zenon DEF Nested, Fits
  <1>4. HasPoll(s) => \E i \in 1 .. l : s[i].pc = "poll"
    BY Zenon DEF HasPoll
  <1>5. (\E i \in 1 .. l : t[i].pc = "poll") => HasPoll(t)
    BY <1>1, Zenon DEF HasPoll
  <1>6. (\A i \in 1 .. l : Fits(t, i)) => Nested(t)
    BY <1>1, Zenon DEF Nested
  <1>7. \A i \in 1 .. l : Fits(t, i) <=>
          /\ t[i].pc \in OnTop => i = 1
          /\ t[i].pc \in Pinging => i = l
          /\ t[i].pc \in Sending => i < l /\ Over(t[i], t[i + 1])
    BY <1>1, Zenon DEF Fits
  <1>. HIDE DEF l, t
  <1>8. ASSUME NEW i \in 1 .. l PROVE Fits(t, i)
    <2>1. i < l => i + 1 \in 1 .. l /\ i + 1 # 1
      BY <1>0
    <2>2. i < l => t[i + 1] = s[i + 1]
      BY <1>1, <2>1, Zenon
    <2>3. CASE i = 1
      <3>1. Over(s[1], s[1 + 1]) => Over(t[1], s[1 + 1])
        BY <1>2, Zenon DEF Over
      <3>. QED BY <1>2, <1>3, <1>7, <2>2, <2>3, <3>1, Zenon
    <2>4. CASE i # 1
      <3>1. t[i] = s[i]
        BY <1>1, <2>4, Zenon
      <3>. QED BY <1>3, <1>7, <2>2, <3>1, Zenon
    <2>. QED BY <2>3, <2>4, Zenon
  <1>9. HasPoll(s) /\ s[1].pc # "poll" => HasPoll(t)
    BY <1>1, <1>4, <1>5, Zenon
  <1>. QED BY <1>1, <1>2, <1>6, <1>8, <1>9, Zenon DEF t, l

\* The stacks the actions build, element by element.
LEMMA Tails ==
  ASSUME NEW s \in Seq(CallSet), s # << >>
  PROVE  /\ Tail(s) \in Seq(CallSet) /\ Len(s) \in Nat /\ Len(s) > 0 /\ Len(Tail(s)) = Len(s) - 1
         /\ \A i \in 1 .. Len(Tail(s)) : Tail(s)[i] = s[i + 1]
  OBVIOUS

\* The stack without the two calls at its top.
LEMMA Rests ==
  ASSUME NEW s \in Seq(CallSet), Len(s) >= 2
  PROVE  LET t == SubSeq(s, 3, Len(s))
         IN  /\ t \in Seq(CallSet) /\ Len(t) = Len(s) - 2
             /\ \A i \in 1 .. Len(t) : t[i] = s[i + 2]
  <1>. DEFINE t == SubSeq(s, 3, Len(s))
  <1>2. Len(t) = Len(s) - 2
    <2>1. CASE Len(s) = 2
      BY <2>1
    <2>2. CASE Len(s) # 2
      <3>. DEFINE n == Len(s)
      <3>0. n \in Nat /\ n >= 2 /\ n # 2
        BY <2>2
      <3>1. n \in Nat /\ n >= 3
        <4>. HIDE DEF n
        <4>. QED BY <3>0
      <3>2. Len(SubSeq(s, 3, n)) = n - 3 + 1
        <4>. HIDE DEF n
        <4>. QED BY <3>1
      <3>3. n - 3 + 1 = n - 2
        BY <3>1
      <3>. QED BY <3>2, <3>3, Zenon
    <2>. QED BY <2>1, <2>2
  <1>3. t \in Seq(CallSet)
    OBVIOUS
  <1>4. \A i \in 1 .. Len(s) - 2 : t[i] = s[i + 2]
    OBVIOUS
  <1>. QED BY <1>2, <1>3, <1>4

\* Two calls on a stack.
LEMMA Pushes ==
  ASSUME NEW x \in CallSet, NEW y \in CallSet, NEW t \in Seq(CallSet)
  PROVE  LET s == <<x, y>> \o t
         IN  /\ s \in Seq(CallSet) /\ Len(s) = Len(t) + 2 /\ s[1] = x /\ s[2] = y
             /\ \A i \in 1 .. Len(t) : s[i + 2] = t[i]
  OBVIOUS

\* Stacks of no, one and two calls.
LEMMA Pairs ==
  ASSUME NEW x \in CallSet, NEW y \in CallSet
  PROVE  /\ <<x, y>> \in Seq(CallSet) /\ Len(<<x, y>>) = 2 /\ <<x, y>>[1] = x /\ <<x, y>>[2] = y
         /\ <<x>> \in Seq(CallSet) /\ Len(<<x>>) = 1 /\ <<x>>[1] = x
         /\ <<>> \in Seq(CallSet) /\ Len(<<>>) = 0 /\ 1 .. 0 = {}
  OBVIOUS

\* What a stack may be followed by when the driver keeps what it keeps.
Follows(s) == s \in Seq(CallSet) /\ Nested(s) /\ (HasPoll(stack) => HasPoll(s))
Plain(s) == \A i \in 1 .. Len(s) : s[i].pc \notin OnTop

\* The call at the top returns.
LEMMA ReturnStack ==
  ASSUME TypeInv, StackInv, stack # << >>, stack[1].pc # "poll"
  PROVE  Follows(Tail(stack)) /\ Plain(Tail(stack))
  <1>. DEFINE t == Tail(stack)
  <1>1. stack \in Seq(CallSet) /\ Nested(stack)
    BY Zenon DEF TypeInv, StackInv
  <1>2. /\ t \in Seq(CallSet) /\ Len(stack) \in Nat /\ Len(stack) > 0 /\ Len(t) = Len(stack) - 1
        /\ \A i \in 1 .. Len(t) : t[i] = stack[i + 1]
    BY <1>1, Tails, Zenon
  <1>. HIDE DEF t
  <1>3. 1 <= Len(stack) /\ \A i \in 1 .. 1 : i = 1
    BY <1>2
  <1>4. /\ Nested(t) /\ \A i \in 1 .. Len(t) : t[i].pc \notin OnTop
        /\ (HasPoll(stack) /\ \A i \in 1 .. 1 : stack[i].pc # "poll") => HasPoll(t)
    BY <1>1, <1>2, <1>3, NestedDrop
  <1>. QED BY <1>2, <1>3, <1>4, Zenon DEF Follows, Plain, t

\* ip_send returns to the caller of its caller.
LEMMA ReturnTwice ==
  ASSUME TypeInv, StackInv, stack # << >>, stack[1].pc \in Sending
  PROVE  /\ Follows(SubSeq(stack, 3, Len(stack))) /\ Plain(SubSeq(stack, 3, Len(stack)))
         /\ Len(stack) >= 2 /\ Over(stack[1], stack[2]) /\ stack[1] \in CallSet /\ stack[2] \in CallSet
         /\ stack[2].pc = "pinged" => handed = N_RX
  <1>. DEFINE t == SubSeq(stack, 3, Len(stack))
  <1>1. stack \in Seq(CallSet) /\ Nested(stack)
    BY Zenon DEF TypeInv, StackInv
  <1>2. Len(stack) \in Nat /\ Len(stack) > 0 /\ 1 \in 1 .. Len(stack) /\ 1 + 1 = 2
    BY <1>1
  <1>3. 1 < Len(stack) /\ Over(stack[1], stack[2])
    BY <1>1, <1>2, Zenon DEF Nested, Fits
  <1>4. Len(stack) >= 2 /\ 2 <= Len(stack) /\ \A i \in 1 .. 2 : i = 1 \/ i = 2
    BY <1>2, <1>3
  <1>5. /\ t \in Seq(CallSet) /\ Len(t) = Len(stack) - 2
        /\ \A i \in 1 .. Len(t) : t[i] = stack[i + 2]
    BY <1>1, <1>4, Rests, Zenon
  <1>. HIDE DEF t
  <1>6. /\ Nested(t) /\ \A i \in 1 .. Len(t) : t[i].pc \notin OnTop
        /\ (HasPoll(stack) /\ \A i \in 1 .. 2 : stack[i].pc # "poll") => HasPoll(t)
    BY <1>1, <1>4, <1>5, NestedDrop
  <1>7. \A i \in 1 .. 2 : stack[i].pc # "poll"
    BY <1>3, <1>4, Zenon DEF Over, Sending
  <1>8. stack[1] \in CallSet /\ stack[2] \in CallSet
    BY <1>1, <1>4
  <1>9. ASSUME stack[2].pc = "pinged" PROVE handed = N_RX
    <2>1. 2 \in 1 .. Len(stack)
      BY <1>2, <1>4
    <2>2. Len(stack) = 2
      BY <1>1, <1>9, <2>1, Zenon DEF Nested, Fits, Pinging
    <2>3. ~HasPoll(stack)
      BY <1>7, <2>2, Zenon DEF HasPoll
    <2>. QED BY <2>3, Zenon DEF StackInv
  <1>. QED BY <1>3, <1>4, <1>5, <1>6, <1>7, <1>8, <1>9, Zenon DEF Follows, Plain, t

\* The call at the top makes way for two.
LEMMA CallStack ==
  ASSUME TypeInv, StackInv, stack # << >>, NEW x \in CallSet, NEW y \in CallSet,
         stack[1].pc # "poll" \/ x.pc = "poll" \/ y.pc = "poll",
         x.pc \notin Pinging, x.pc \in Sending => Over(x, y), y.pc \notin OnTop \cup Pinging,
         y.pc \in Sending => stack[1].pc \in Sending /\ y.frame = stack[1].frame
  PROVE  LET s == <<x, y>> \o Tail(stack)
         IN  Follows(s) /\ s[1] = x /\ Len(s) > 0 /\ s # << >>
             /\ (x.pc = "poll" \/ y.pc = "poll" => HasPoll(s))
  <1>. DEFINE t == Tail(stack)
              s == <<x, y>> \o t
  <1>1. stack \in Seq(CallSet) /\ Nested(stack)
    BY Zenon DEF TypeInv, StackInv
  <1>2. /\ t \in Seq(CallSet) /\ Len(stack) \in Nat /\ Len(stack) > 0 /\ Len(t) = Len(stack) - 1
        /\ \A i \in 1 .. Len(t) : t[i] = stack[i + 1]
    BY <1>1, Tails, Zenon
  <1>. HIDE DEF t
  <1>3. 1 <= Len(stack) /\ 1 \in 1 .. Len(stack) /\ 1 + 1 = 2 /\ \A i \in 1 .. 1 : i = 1
    BY <1>2
  <1>4. /\ Nested(t) /\ \A i \in 1 .. Len(t) : t[i].pc \notin OnTop
        /\ (HasPoll(stack) /\ \A i \in 1 .. 1 : stack[i].pc # "poll") => HasPoll(t)
    BY <1>1, <1>2, <1>3, NestedDrop
  <1>5. /\ s \in Seq(CallSet) /\ Len(s) = Len(t) + 2 /\ s[1] = x /\ s[2] = y
        /\ \A i \in 1 .. Len(t) : s[i + 2] = t[i]
    BY <1>2, Pushes
  <1>6. y.pc \in Sending => Len(t) > 0 /\ Over(y, t[1])
    <2>1. ASSUME y.pc \in Sending PROVE Len(t) > 0 /\ Over(y, t[1])
      <3>1. stack[1].pc \in Sending /\ y.frame = stack[1].frame
        BY <2>1, Zenon
      <3>2. 1 < Len(stack) /\ Over(stack[1], stack[2])
        BY <1>1, <1>3, <3>1, Zenon DEF Nested, Fits
      <3>3. Len(t) > 0 /\ 1 \in 1 .. Len(t)
        BY <1>2, <3>2
      <3>4. t[1] = stack[2]
        BY <1>2, <1>3, <3>3, Zenon
      <3>. QED BY <3>1, <3>2, <3>3, <3>4, Zenon DEF Over
    <2>. QED BY <2>1, Zenon
  <1>. HIDE DEF s
  <1>7. Nested(s) /\ (s[1].pc = "poll" \/ s[2].pc = "poll" \/ HasPoll(t) => HasPoll(s))
    <2>1. s[1].pc \notin Pinging /\ (s[1].pc \in Sending => Over(s[1], s[2])) /\ s[2].pc \notin OnTop
      BY <1>5, Zenon
    <2>2. s[2].pc \in Pinging => Len(t) = 0
      BY <1>5, Zenon
    <2>3. s[2].pc \in Sending => Len(t) > 0 /\ Over(s[2], t[1])
      BY <1>5, <1>6, Zenon
    <2>. QED BY <1>2, <1>4, <1>5, <2>1, <2>2, <2>3, NestedPush, Zenon
  <1>8. HasPoll(stack) => HasPoll(s)
    BY <1>3, <1>4, <1>5, <1>7, Zenon
  <1>9. Len(s) > 0 /\ s # << >>
    BY <1>2, <1>5
  <1>. QED BY <1>5, <1>7, <1>8, <1>9, Zenon DEF Follows, s, t

\* A stack of one or two calls, when no frame is handed out.
LEMMA ShortStacks ==
  ASSUME NEW x \in CallSet, NEW y \in CallSet
  PROVE  /\ x.pc \notin Sending => Nested(<<x>>)
         /\ x.pc \notin Pinging /\ (x.pc \in Sending => Over(x, y)) /\ y.pc \in Pinging => Nested(<<x, y>>)
         /\ x.pc = "poll" => HasPoll(<<x, y>>)
         /\ ~HasPoll(<<>>) /\ Nested(<<>>)
  <1>1. /\ <<x, y>> \in Seq(CallSet) /\ Len(<<x, y>>) = 2 /\ <<x, y>>[1] = x /\ <<x, y>>[2] = y
        /\ <<x>> \in Seq(CallSet) /\ Len(<<x>>) = 1 /\ <<x>>[1] = x
        /\ <<>> \in Seq(CallSet) /\ Len(<<>>) = 0 /\ 1 .. 0 = {}
    BY Pairs, Zenon
  <1>2. /\ 1 .. 1 = {1} /\ 1 .. 2 = {1, 2} /\ 1 + 1 = 2 /\ 1 < 2 /\ 1 # 2
    OBVIOUS
  <1>3. x.pc \notin Sending => Nested(<<x>>)
    BY <1>1, <1>2, Zenon DEF Nested, Fits
  <1>4. y.pc \in Pinging => y.pc \notin OnTop /\ y.pc \notin Sending
    BY Zenon DEF Pinging, OnTop, Sending
  <1>5. x.pc \notin Pinging /\ (x.pc \in Sending => Over(x, y)) /\ y.pc \in Pinging => Nested(<<x, y>>)
    BY <1>1, <1>2, <1>4, Zenon DEF Nested, Fits
  <1>6. x.pc = "poll" => HasPoll(<<x, y>>)
    BY <1>1, <1>2, Zenon DEF HasPoll
  <1>7. ~HasPoll(<<>>) /\ Nested(<<>>)
    BY <1>1, Zenon DEF HasPoll, Nested
  <1>. QED BY <1>3, <1>5, <1>6, <1>7, Zenon

\* What the stack may become in a step that leaves the ring alone.
Carries(s) ==
  /\ s \in Seq(CallSet) /\ Nested(s) /\ (handed # N_RX => HasPoll(s))
  /\ s # << >> => s[1].pc \notin OnTop

\* Calls that return leave such a stack.
LEMMA FollowsCarries ==
  ASSUME StackInv, NEW s, Follows(s), Plain(s)
  PROVE  Carries(s)
  <1>1. s \in Seq(CallSet) /\ Nested(s) /\ (handed # N_RX => HasPoll(s))
    BY Zenon DEF StackInv, Follows
  <1>2. ASSUME s # << >> PROVE s[1].pc \notin OnTop
    <2>1. 1 \in 1 .. Len(s)
      BY <1>1, <1>2
    <2>. QED BY <2>1, Zenon DEF Plain
  <1>. QED BY <1>1, <1>2, Zenon DEF Carries

\* The replies in a step that takes no frame.
LEMMA RepliesKept ==
  ASSUME ReplyInv, handled' = handled, replies' = replies, ping'.seq = ping.seq,
         ping'.got \/ ping'.result = "answered" => ping.got \/ ping.result = "answered" \/ Answered
  PROVE  ReplyInv'
  BY Zenon DEF ReplyInv, Answered

\* A step that leaves the ring alone.
LEMMA CallStep ==
  ASSUME IInv, UNCHANGED <<driver, rdh, arrived, handled>>, Carries(stack'),
         ping' \in [seq : Nat, got : BOOLEAN, result : {"none", "failed", "answered"}],
         replies' \in Seq(FrameSet \X FrameSet), wire' \subseteq Nat, ReplyInv'
  PROVE  IInv'
  <1>1. UNCHANGED <<ring, rdh, rdt, cur, handed, arrived, handled>>
    BY Zenon DEF driver
  <1>2. RingInv'
    BY <1>1, RingKeeps, Zenon DEF IInv
  <1>3. TypeInv'
    BY <1>1, Zenon DEF IInv, TypeInv, Carries
  <1>4. StackInv'
    <2>1. Nested(stack') /\ (handed # N_RX => HasPoll(stack'))
      BY Zenon DEF Carries
    <2>2. ~At("scan")' /\ ~At("input")'
      BY Zenon DEF Carries, At, Top, OnTop
    <2>. QED BY <1>1, <2>1, <2>2, Zenon DEF StackInv, Nested, HasPoll, Fits
  <1>. QED BY <1>2, <1>3, <1>4, Zenon DEF IInv

\* The call at the top.
LEMMA TopIs ==
  ASSUME TypeInv, stack # << >>
  PROVE  Top \in CallSet /\ Len(stack) \in Nat /\ Len(stack) > 0 /\ 1 \in 1 .. Len(stack)
  BY DEF TypeInv, Top

\* The buffer a handler reads still holds the frame it was called with.
LEMMA BufferIs ==
  ASSUME TypeInv, RingInv, StackInv, At("input")
  PROVE  /\ Buffer = Top.frame /\ Buffer = handled[Len(handled)] /\ Buffer \in FrameSet
         /\ Len(handled) \in 1 .. Len(handled)
  <1>. DEFINE h == Len(handled)
              a == Len(arrived)
  <1>1. handed # N_RX /\ Top.slot = handed /\ Top.frame = handled[h]
    BY Zenon DEF StackInv
  <1>2. handed = Place(h - 1) /\ First = h - 1 /\ h > 0
    BY <1>1, Zenon DEF RingInv, First
  <1>3. h \in Nat /\ a \in Nat /\ h <= a
    BY FirstIs, Zenon
  <1>. HIDE DEF h, a
  <1>4. h - 1 \in h - 1 .. a - 1 /\ (h - 1) + 1 = h /\ h \in 1 .. h
    BY <1>2, <1>3
  <1>5. ring[Place(h - 1)].frame = arrived[(h - 1) + 1]
    <2>1. \A k \in First .. a - 1 : ring[Place(k)].frame = arrived[k + 1]
      BY Zenon DEF RingInv, a
    <2>. QED BY <1>2, <1>4, <2>1, Zenon
  <1>6. handled[h] = arrived[h]
    BY <1>4, Zenon DEF RingInv, h
  <1>7. Buffer = handled[h]
    BY <1>1, <1>2, <1>4, <1>5, <1>6, Zenon DEF Buffer
  <1>8. handled[h] \in FrameSet
    BY <1>4 DEF TypeInv, h
  <1>. QED BY <1>1, <1>4, <1>7, <1>8, Zenon DEF h

\* Calls the steps make.
LEMMA Calls ==
  /\ None \in FrameSet /\ Poll \in CallSet /\ Poll.pc = "poll"
  /\ \A f \in FrameSet, n \in 0 .. N_RX, q \in Nat, p \in Pcs :
       Call(p, f, n, q) \in CallSet /\ Call(p, f, n, q).pc = p /\ Call(p, f, n, q).frame = f
  /\ \A c \in CallSet, p \in Pcs :
       [c EXCEPT !.pc = p] \in CallSet /\ [c EXCEPT !.pc = p].pc = p /\ [c EXCEPT !.pc = p].frame = c.frame
  /\ \A h \in Hosts : [None EXCEPT !.host = h] \in FrameSet
  <1>1. N_RX \in 0 .. N_RX /\ 0 \in Nat
    BY NetAssumption
  <1>2. None \in FrameSet
    BY DEF None, FrameSet
  <1>3. \A f \in FrameSet, n \in 0 .. N_RX, q \in Nat, p \in Pcs :
          Call(p, f, n, q) \in CallSet /\ Call(p, f, n, q).pc = p /\ Call(p, f, n, q).frame = f
    BY DEF Call, CallSet
  <1>4. Poll \in CallSet /\ Poll.pc = "poll"
    BY <1>1, <1>2, <1>3 DEF Poll, Pcs
  <1>5. \A c \in CallSet, p \in Pcs :
          [c EXCEPT !.pc = p] \in CallSet /\ [c EXCEPT !.pc = p].pc = p /\ [c EXCEPT !.pc = p].frame = c.frame
    BY DEF CallSet
  <1>6. \A h \in Hosts : [None EXCEPT !.host = h] \in FrameSet
    BY DEF None, FrameSet
  <1>. QED BY <1>2, <1>3, <1>4, <1>5, <1>6, Zenon

----------------------------------------------------------------------------
(* The steps.                                                              *)

\* The state e1000_init and net_init leave.
LEMMA InitInv == Init => IInv
  <1>. SUFFICES ASSUME Init PROVE IInv
    BY Zenon
  <1>1. N_RX \in Nat /\ N_RX > 1
    BY NetAssumption
  <1>2. /\ ring = [i \in Slots |-> [dd |-> FALSE, frame |-> None]]
        /\ rdh = 0 /\ rdt = N_RX - 1 /\ cur = 0 /\ handed = N_RX /\ stack = << >>
        /\ ping = [seq |-> 0, got |-> FALSE, result |-> "none"]
        /\ arrived = << >> /\ handled = << >> /\ replies = << >> /\ wire = {}
    BY Zenon DEF Init
  <1>3. 0 \in Slots /\ N_RX - 1 \in Slots /\ N_RX \in 0 .. N_RX
    BY <1>1 DEF Slots
  <1>4. ring \in [Slots -> [dd : BOOLEAN, frame : FrameSet]]
    BY <1>2, Calls
  <1>5. ping \in [seq : Nat, got : BOOLEAN, result : {"none", "failed", "answered"}]
    BY <1>2
  <1>6. /\ stack \in Seq(CallSet) /\ arrived \in Seq(FrameSet) /\ handled \in Seq(FrameSet)
        /\ replies \in Seq(FrameSet \X FrameSet) /\ wire \subseteq Nat
    BY <1>2
  <1>7. TypeInv
    BY <1>2, <1>3, <1>4, <1>5, <1>6, Zenon DEF TypeInv
  <1>8. RingInv
    <2>1. Len(arrived) = 0 /\ Len(handled) = 0 /\ First = 0
      BY <1>2 DEF First
    <2>2. Place(0) = 0 /\ Place(0 + (N_RX - 1)) = N_RX - 1
      <3>1. 0 \in Nat /\ N_RX - 1 \in Nat /\ 0 < N_RX /\ N_RX - 1 < N_RX /\ 0 + (N_RX - 1) = N_RX - 1
        BY <1>1
      <3>. QED BY <3>1, PlaceIs, Zenon
    <2>3. 0 <= 0 /\ 0 - 0 < N_RX /\ 1 .. 0 = {} /\ 0 .. 0 - 1 = {}
      BY <1>1
    <2>4. \A i \in Slots : ~ring[i].dd
      BY <1>2
    <2>. QED BY <1>2, <2>1, <2>2, <2>3, <2>4, Zenon DEF RingInv
  <1>9. StackInv
    <2>1. Nested(<<>>)
      BY Calls, ShortStacks, Zenon
    <2>. QED BY <1>2, <2>1, Zenon DEF StackInv, At
  <1>10. ReplyInv
    <2>1. DOMAIN replies = {} /\ ~ping.got /\ ping.result # "answered"
      BY <1>2
    <2>. QED BY <2>1, Zenon DEF ReplyInv
  <1>. QED BY <1>7, <1>8, <1>9, <1>10, Zenon DEF IInv

\* CardReceives: the frame is in a descriptor no handler is reading.
LEMMA Receives == ASSUME IInv, CardReceives PROVE IInv'
  <1>1. UNCHANGED <<rdt, cur, handed, stack, arp, ping, handled, replies, wire>>
    BY Zenon DEF CardReceives
  <1>2. RingInv' /\ arrived' \in Seq(FrameSet)
    BY RingReceives, Zenon DEF IInv
  <1>3. rdh' \in Slots
    <2>1. Len(arrived') \in Nat /\ rdh' = Place(Len(arrived'))
      BY <1>2 DEF RingInv, Place
    <2>. QED BY <2>1, PlaceIs, Zenon
  <1>4. ring' \in [Slots -> [dd : BOOLEAN, frame : FrameSet]]
    <2>1. PICK f \in Frame(Len(arrived) + 1) :
            /\ ring' = [ring EXCEPT ![rdh] = [dd |-> TRUE, frame |-> f]]
            /\ arrived' = Append(arrived, f)
      BY Zenon DEF CardReceives
    <2>2. f \in FrameSet
      <3>1. arrived'[Len(arrived')] = f /\ Len(arrived') > 0
        BY <2>1 DEF IInv, TypeInv
      <3>. QED BY <1>2, <3>1
    <2>3. ring \in [Slots -> [dd : BOOLEAN, frame : FrameSet]]
      BY Zenon DEF IInv, TypeInv
    <2>4. [dd |-> TRUE, frame |-> f] \in [dd : BOOLEAN, frame : FrameSet]
      BY <2>2
    <2>. QED BY <2>1, <2>3, <2>4
  <1>5. TypeInv'
    BY <1>1, <1>2, <1>3, <1>4, Zenon DEF IInv, TypeInv
  <1>6. StackInv'
    BY <1>1, Zenon DEF IInv, StackInv, Nested, Fits, HasPoll, At, Top
  <1>7. ReplyInv'
    BY <1>1, Zenon DEF IInv, ReplyInv, Answered
  <1>. QED BY <1>2, <1>5, <1>6, <1>7, Zenon DEF IInv

\* rx_recycle_handed: the poll goes on to look at the next descriptor.
LEMMA Recycles == ASSUME IInv, rx_recycle_handed PROVE IInv'
  <1>1. At("poll") /\ stack' = [stack EXCEPT ![1].pc = "scan"] /\ UNCHANGED <<rdh, cur, ping, arrived, handled, replies, wire>>
    BY Zenon DEF rx_recycle_handed, Goto, hidden
  <1>2. /\ RingInv' /\ ring' \in [Slots -> [dd : BOOLEAN, frame : FrameSet]] /\ rdt' \in Slots /\ handed' = N_RX
    BY RingRecycles, Zenon DEF IInv
  <1>3. N_RX \in 0 .. N_RX
    BY NetAssumption
  <1>4. stack \in Seq(CallSet) /\ Nested(stack) /\ Len(stack) > 0
    <2>1. stack # << >> /\ TypeInv
      BY <1>1, Zenon DEF At, IInv
    <2>. QED BY <2>1, TopIs, Zenon DEF IInv, TypeInv, StackInv
  <1>5. "scan" \in Pcs /\ "scan" \notin Sending /\ "scan" \notin Pinging
    BY Zenon DEF Pcs, Sending, Pinging
  <1>6. stack' \in Seq(CallSet) /\ Nested(stack') /\ stack'[1].pc = "scan"
    BY <1>1, <1>4, <1>5, NestedGoto, Zenon
  <1>7. TypeInv'
    BY <1>1, <1>2, <1>3, <1>6, Zenon DEF IInv, TypeInv
  <1>8. StackInv'
    BY <1>2, <1>6, Zenon DEF StackInv, At, Top, Nested, Fits
  <1>9. ReplyInv'
    BY <1>1, Zenon DEF IInv, ReplyInv, Answered
  <1>. QED BY <1>2, <1>7, <1>8, <1>9, Zenon DEF IInv

\* RxFrame: the frame is with its handler, above the poll that returns it.
LEMMA Frames == ASSUME IInv, RxFrame PROVE IInv'
  <1>. DEFINE c == Call("input", ring[cur].frame, cur, 0)
  <1>1. /\ At("scan") /\ ring[cur].dd /\ stack' = <<c, Poll>> \o Tail(stack)
        /\ UNCHANGED <<ring, rdh, rdt, arp, ping, arrived, replies, wire>>
    BY Zenon DEF RxFrame
  <1>2. handed = N_RX /\ stack # << >> /\ stack[1].pc = "scan" /\ cur \in Slots
    BY <1>1, Zenon DEF IInv, StackInv, At, Top, TypeInv
  <1>3. /\ RingInv' /\ cur' \in Slots /\ handed' \in Slots /\ handed' = cur
        /\ handled' \in Seq(FrameSet) /\ Len(handled') = Len(handled) + 1
        /\ handled'[Len(handled')] = ring[cur].frame
        /\ \A i \in 1 .. Len(handled) : handled'[i] = handled[i]
    BY <1>2, RingFrame, Zenon DEF IInv
  <1>4. /\ cur \in 0 .. N_RX /\ cur # N_RX /\ 0 \in Nat /\ handed' \in 0 .. N_RX
    BY <1>2, <1>3, NetAssumption DEF Slots
  <1>5. ring[cur].frame \in FrameSet
    BY <1>1, <1>2, NextFrame, Zenon DEF IInv
  <1>6. c \in CallSet /\ c.pc = "input" /\ c.frame = ring[cur].frame /\ Poll \in CallSet /\ Poll.pc = "poll"
    <2>1. "input" \in Pcs
      BY Zenon DEF Pcs
    <2>2. c \in CallSet /\ c.pc = "input" /\ c.frame = ring[cur].frame
      BY <1>4, <1>5, <2>1 DEF Call, CallSet
    <2>. QED BY <2>2, Calls, Zenon
  <1>7. c.slot = cur
    BY DEF Call
  <1>. HIDE DEF c
  <1>8. /\ Follows(stack') /\ stack'[1] = c /\ HasPoll(stack')
    <2>1. /\ c.pc \notin Pinging /\ c.pc \notin Sending /\ Poll.pc \notin OnTop \cup Pinging /\ Poll.pc \notin Sending
          /\ stack[1].pc # "poll"
      BY <1>2, <1>6, Zenon DEF Pinging, Sending, OnTop
    <2>. QED BY <1>1, <1>2, <1>6, <2>1, CallStack, Zenon DEF IInv
  <1>9. TypeInv'
    BY <1>1, <1>3, <1>4, <1>8, Zenon DEF IInv, TypeInv, Follows
  <1>10. StackInv'
    <2>1. ~At("scan")'
      BY <1>6, <1>8, Zenon DEF At, Top
    <2>2. handed' # N_RX /\ Top'.slot = handed' /\ Top'.frame = handled'[Len(handled')]
      BY <1>3, <1>4, <1>6, <1>7, <1>8, Zenon DEF Top
    <2>3. Nested(stack')
      BY <1>8, Zenon DEF Follows
    <2>. QED BY <1>8, <2>1, <2>2, <2>3, Zenon DEF StackInv, Nested, Fits, HasPoll
  <1>11. ReplyInv'
    <2>1. Answered => Answered'
      <3>1. \A i \in 1 .. Len(handled) : i \in 1 .. Len(handled')
        BY <1>3 DEF IInv, TypeInv
      <3>. QED BY <1>1, <1>3, <3>1, Zenon DEF Answered
    <2>. QED BY <1>1, <2>1, Zenon DEF IInv, ReplyInv
  <1>. QED BY <1>3, <1>9, <1>10, <1>11, Zenon DEF IInv

\* RxFragment: no handler sees the frame.
LEMMA Fragments == ASSUME IInv, RxFragment PROVE IInv'
  <1>1. At("scan") /\ UNCHANGED <<rdh, handed, stack, arp, ping, arrived, replies, wire>>
    BY Zenon DEF RxFragment
  <1>2. handed = N_RX
    BY <1>1, Zenon DEF IInv, StackInv
  <1>3. /\ RingInv' /\ cur' \in Slots /\ rdt' \in Slots /\ ring' \in [Slots -> [dd : BOOLEAN, frame : FrameSet]]
        /\ handled' \in Seq(FrameSet) /\ Len(handled') = Len(handled) + 1
        /\ \A i \in 1 .. Len(handled) : handled'[i] = handled[i]
    BY <1>2, RingFragment, Zenon DEF IInv
  <1>4. TypeInv'
    BY <1>1, <1>3, Zenon DEF IInv, TypeInv
  <1>5. StackInv'
    <2>1. At("scan")' /\ ~At("input")' /\ handed' = N_RX
      BY <1>1, <1>2, Zenon DEF At, Top
    <2>. QED BY <1>1, <2>1, Zenon DEF IInv, StackInv, Nested, Fits, HasPoll
  <1>6. ReplyInv'
    <2>1. Answered => Answered'
      <3>1. \A i \in 1 .. Len(handled) : i \in 1 .. Len(handled')
        BY <1>3 DEF IInv, TypeInv
      <3>. QED BY <1>1, <1>3, <3>1, Zenon DEF Answered
    <2>. QED BY <1>1, <2>1, Zenon DEF IInv, ReplyInv
  <1>. QED BY <1>3, <1>4, <1>5, <1>6, Zenon DEF IInv

\* The calls return, RxEmpty, arp_input, EchoReply, PingTimeout and PingReturns: a handler
\* leaves a poll below it.
LEMMA Returns ==
  ASSUME IInv, stack # << >>, Top.pc # "poll", Return
  PROVE  Carries(stack')
  <1>1. stack' = Tail(stack) /\ stack[1].pc # "poll"
    BY Zenon DEF Return, Top
  <1>2. Follows(Tail(stack)) /\ Plain(Tail(stack))
    BY <1>1, ReturnStack, Zenon DEF IInv
  <1>. QED BY <1>1, <1>2, FollowsCarries, Zenon DEF IInv

\* What the invariant says of the variables the calls change.
LEMMA Typed ==
  ASSUME IInv
  PROVE  /\ ping \in [seq : Nat, got : BOOLEAN, result : {"none", "failed", "answered"}]
         /\ replies \in Seq(FrameSet \X FrameSet) /\ wire \subseteq Nat /\ stack \in Seq(CallSet)
         /\ TypeInv /\ RingInv /\ StackInv /\ ReplyInv /\ Nested(stack)
  BY Zenon DEF IInv, TypeInv, StackInv

\* A step that only moves in the stack.
LEMMA StackStep ==
  ASSUME IInv, Carries(stack'), UNCHANGED <<driver, rdh, ping, hidden>>
  PROVE  IInv'
  <1>1. UNCHANGED <<arrived, handled, replies, wire>>
    BY Zenon DEF hidden
  <1>2. ReplyInv'
    BY <1>1, Typed, RepliesKept, Zenon
  <1>. QED BY <1>1, <1>2, Typed, CallStep, Zenon

\* RxEmpty: nothing is handed out, and net_poll returns.
LEMMA Empties == ASSUME IInv, RxEmpty PROVE IInv'
  <1>1. stack # << >> /\ Top.pc # "poll" /\ Return /\ UNCHANGED <<driver, rdh, ping, hidden>>
    BY Zenon DEF RxEmpty, At
  <1>. QED BY <1>1, Returns, StackStep, Zenon

\* arp_input: the handler changes the cache only.
LEMMA Resolves == ASSUME IInv, arp_input PROVE IInv'
  <1>1. stack # << >> /\ Top.pc # "poll" /\ Return /\ UNCHANGED <<driver, rdh, ping, hidden>>
    BY Zenon DEF arp_input, At, hidden
  <1>. QED BY <1>1, Returns, StackStep, Zenon

\* EchoReply: a reply that counts was taken, and answers this ping.
LEMMA Answers == ASSUME IInv, EchoReply PROVE IInv'
  <1>1. /\ At("input") /\ stack # << >> /\ Top.pc # "poll" /\ Return
        /\ UNCHANGED <<driver, rdh, arrived, handled, replies, wire>>
        /\ ping' = [ping EXCEPT !.got = @ \/ Matches(Buffer.seq)]
    BY Zenon DEF EchoReply, At, hidden
  <1>2. Buffer = handled[Len(handled)] /\ Len(handled) \in 1 .. Len(handled)
    BY <1>1, Typed, BufferIs, Zenon
  <1>3. Matches(Buffer.seq) => Answered
    BY <1>2, Zenon DEF Matches, Answered
  <1>4. Matches(Buffer.seq) \in BOOLEAN
    BY Zenon DEF Matches
  <1>. DEFINE b == Matches(Buffer.seq)
  <1>5. b \in BOOLEAN /\ ping' = [ping EXCEPT !.got = @ \/ b]
    BY <1>1, <1>4, Zenon
  <1>. HIDE DEF b
  <1>6. /\ ping' \in [seq : Nat, got : BOOLEAN, result : {"none", "failed", "answered"}]
        /\ ping'.seq = ping.seq /\ (ping'.got => ping.got \/ b) /\ ping'.result = ping.result
    BY <1>5, Typed
  <1>7. ReplyInv'
    BY <1>1, <1>3, <1>6, Typed, RepliesKept, Zenon DEF b
  <1>8. Carries(stack')
    BY <1>1, Returns, Zenon
  <1>. QED BY <1>1, <1>6, <1>7, <1>8, Typed, CallStep, Zenon

\* PingTimeout: the call has failed.
LEMMA PingFails == ASSUME IInv, PingTimeout PROVE IInv'
  <1>1. /\ stack # << >> /\ Top.pc # "poll" /\ Return
        /\ UNCHANGED <<driver, rdh, arrived, handled, replies, wire>>
        /\ ping' = [ping EXCEPT !.result = "failed"]
    BY Zenon DEF PingTimeout, At, hidden
  <1>2. /\ ping' \in [seq : Nat, got : BOOLEAN, result : {"none", "failed", "answered"}]
        /\ ping'.seq = ping.seq /\ ping'.got = ping.got /\ ping'.result # "answered"
    BY <1>1, Typed
  <1>3. ReplyInv'
    BY <1>1, <1>2, Typed, RepliesKept, Zenon
  <1>4. Carries(stack')
    BY <1>1, Returns, Zenon
  <1>. QED BY <1>1, <1>2, <1>3, <1>4, Typed, CallStep, Zenon

\* PingReturns: the answer it reports has come.
LEMMA PingDone == ASSUME IInv, PingReturns PROVE IInv'
  <1>1. /\ stack # << >> /\ Top.pc # "poll" /\ Return /\ ping.got
        /\ UNCHANGED <<driver, rdh, arrived, handled, replies, wire>>
        /\ ping' = [ping EXCEPT !.result = "answered"]
    BY Zenon DEF PingReturns, At, hidden
  <1>2. /\ ping' \in [seq : Nat, got : BOOLEAN, result : {"none", "failed", "answered"}]
        /\ ping'.seq = ping.seq
    BY <1>1, Typed
  <1>3. ReplyInv'
    BY <1>1, <1>2, Typed, RepliesKept, Zenon
  <1>4. Carries(stack')
    BY <1>1, Returns, Zenon
  <1>. QED BY <1>1, <1>2, <1>3, <1>4, Typed, CallStep, Zenon

\* ArpRequest, ArpWaits and PingAgain: the call goes on to its next wait.
LEMMA Moves ==
  ASSUME IInv, stack # << >>, Top.pc # "poll", NEW p \in Pcs, p \notin OnTop, Goto(p),
         p \in Sending => Top.pc \in Sending, p \in Pinging => Top.pc \in Pinging
  PROVE  Carries(stack')
  <1>1. stack' = [stack EXCEPT ![1].pc = p] /\ Top = stack[1]
    BY Zenon DEF Goto, Top
  <1>2. stack \in Seq(CallSet) /\ Len(stack) > 0 /\ Nested(stack)
    BY Typed, TopIs, Zenon
  <1>3. /\ stack' \in Seq(CallSet) /\ stack'[1].pc = p /\ Nested(stack')
        /\ (HasPoll(stack) /\ stack[1].pc # "poll" => HasPoll(stack'))
    BY <1>1, <1>2, NestedGoto, Zenon
  <1>4. handed # N_RX => HasPoll(stack)
    BY Typed, Zenon DEF StackInv
  <1>. QED BY <1>1, <1>3, <1>4, Zenon DEF Carries

\* ArpRequest and ArpWaits: the sender keeps its copy.
LEMMA Waits == ASSUME IInv, ArpRequest \/ ArpWaits PROVE IInv'
  <1>1. /\ stack # << >> /\ Top.pc \in Sending /\ Top.pc # "poll" /\ Goto("wait")
        /\ UNCHANGED <<driver, rdh, ping, hidden>>
    BY Zenon DEF ArpRequest, ArpWaits, At, Sending
  <1>2. "wait" \in Pcs /\ "wait" \notin OnTop /\ "wait" \notin Pinging
    BY Zenon DEF Pcs, OnTop, Pinging
  <1>3. Carries(stack')
    BY <1>1, <1>2, Moves, Zenon
  <1>. QED BY <1>1, <1>3, StackStep, Zenon

\* PingAgain: net_ping looks again.
LEMMA PingsOn == ASSUME IInv, PingAgain PROVE IInv'
  <1>1. /\ stack # << >> /\ Top.pc \in Pinging /\ Top.pc # "poll" /\ Goto("pong")
        /\ UNCHANGED <<driver, rdh, ping, hidden>>
    BY Zenon DEF PingAgain, At, Pinging
  <1>2. "pong" \in Pcs /\ "pong" \notin OnTop /\ "pong" \notin Sending
    BY Zenon DEF Pcs, OnTop, Sending
  <1>3. Carries(stack')
    BY <1>1, <1>2, Moves, Zenon
  <1>. QED BY <1>1, <1>3, StackStep, Zenon

\* net_poll: between polls no frame is handed out.
LEMMA Polls == ASSUME IInv, net_poll PROVE IInv'
  <1>1. stack = << >> /\ stack' = <<Poll>> /\ UNCHANGED <<driver, rdh, ping, hidden>>
    BY Zenon DEF net_poll
  <1>2. Poll \in CallSet /\ Poll.pc = "poll" /\ Poll.pc \notin Sending /\ Poll.pc \notin OnTop
    BY Calls, Zenon DEF Sending, OnTop
  <1>3. <<Poll>> \in Seq(CallSet) /\ <<Poll>>[1] = Poll
    BY <1>2, Pairs, Zenon
  <1>4. Nested(<<Poll>>) /\ ~HasPoll(<<>>)
    BY <1>2, ShortStacks, Zenon
  <1>5. handed = N_RX
    BY <1>1, <1>4, Typed, Zenon DEF StackInv
  <1>6. Carries(stack')
    BY <1>1, <1>2, <1>3, <1>4, <1>5, Zenon DEF Carries
  <1>. QED BY <1>1, <1>6, StackStep, Zenon

\* net_ping: a new sequence number, which nothing has answered.
LEMMA Pings == ASSUME IInv, net_ping PROVE IInv'
  <1>1. /\ stack = << >> /\ UNCHANGED <<driver, rdh, arrived, handled, replies, wire>>
        /\ ping' = [seq |-> ping.seq + 1, got |-> FALSE, result |-> "none"]
    BY Zenon DEF net_ping, hidden
  <1>2. PICK h \in Hosts :
          stack' = <<Call("send", [None EXCEPT !.host = h], N_RX, 0), Call("pinged", None, N_RX, ping.seq + 1)>>
    BY Zenon DEF net_ping
  <1>. DEFINE x == Call("send", [None EXCEPT !.host = h], N_RX, 0)
              y == Call("pinged", None, N_RX, ping.seq + 1)
  <1>3. ping.seq \in Nat /\ ping.seq + 1 \in Nat /\ N_RX \in 0 .. N_RX
    BY Typed, NetAssumption
  <1>4. None \in FrameSet /\ [None EXCEPT !.host = h] \in FrameSet
    BY Calls, Zenon
  <1>5. x \in CallSet /\ y \in CallSet /\ x.pc = "send" /\ y.pc = "pinged"
    <2>1. "send" \in Pcs /\ "pinged" \in Pcs
      BY Zenon DEF Pcs
    <2>2. x \in CallSet /\ x.pc = "send"
      BY <1>3, <1>4, <2>1 DEF Call, CallSet
    <2>3. y \in CallSet /\ y.pc = "pinged"
      BY <1>3, <1>4, <2>1 DEF Call, CallSet
    <2>. QED BY <2>2, <2>3, Zenon
  <1>6. stack' = <<x, y>>
    BY <1>2, Zenon
  <1>. HIDE DEF x, y
  <1>7. x.pc \notin Pinging /\ Over(x, y) /\ y.pc \in Pinging /\ x.pc \notin OnTop
    BY <1>5, Zenon DEF Pinging, Over, OnTop
  <1>8. Nested(<<x, y>>) /\ ~HasPoll(<<>>) /\ <<x, y>> \in Seq(CallSet) /\ <<x, y>>[1] = x
    BY <1>5, <1>7, ShortStacks, Pairs, Zenon
  <1>9. handed = N_RX
    BY <1>1, <1>8, Typed, Zenon DEF StackInv
  <1>10. Carries(stack')
    BY <1>6, <1>7, <1>8, <1>9, Zenon DEF Carries
  <1>11. /\ ping' \in [seq : Nat, got : BOOLEAN, result : {"none", "failed", "answered"}]
         /\ ~ping'.got /\ ping'.result # "answered"
    BY <1>1, <1>3
  <1>12. ReplyInv'
    BY <1>1, <1>11, Typed, Zenon DEF ReplyInv
  <1>. QED BY <1>1, <1>10, <1>11, <1>12, Typed, CallStep, Zenon

\* EchoRequest: the copy is of the request.
LEMMA Requests == ASSUME IInv, EchoRequest PROVE IInv'
  <1>. DEFINE x == Call("send", Buffer, Top.slot, 0)
              y == Call("reply", Top.frame, Top.slot, 0)
  <1>1. /\ At("input") /\ stack # << >> /\ stack[1].pc = "input" /\ Top = stack[1]
        /\ stack' = <<x, y>> \o Tail(stack) /\ UNCHANGED <<driver, rdh, ping, hidden>>
    BY Zenon DEF EchoRequest, At, Top
  <1>2. Buffer = Top.frame /\ Buffer \in FrameSet
    BY <1>1, Typed, BufferIs, Zenon
  <1>3. Top.slot \in 0 .. N_RX
    <2>1. Top \in CallSet
      BY <1>1, Typed, TopIs, Zenon
    <2>. QED BY <2>1 DEF CallSet
  <1>4. /\ x \in CallSet /\ y \in CallSet /\ x.pc = "send" /\ y.pc = "reply"
        /\ x.frame = Buffer /\ y.frame = Top.frame
    <2>1. "send" \in Pcs /\ "reply" \in Pcs
      BY Zenon DEF Pcs
    <2>. DEFINE b == Buffer
                n == Top.slot
                g == Top.frame
    <2>2. b \in FrameSet /\ g \in FrameSet /\ n \in 0 .. N_RX
      BY <1>2, <1>3, Zenon
    <2>. HIDE DEF b, n, g
    <2>3. /\ Call("send", b, n, 0) \in CallSet /\ Call("send", b, n, 0).pc = "send" /\ Call("send", b, n, 0).frame = b
          /\ Call("reply", g, n, 0) \in CallSet /\ Call("reply", g, n, 0).pc = "reply" /\ Call("reply", g, n, 0).frame = g
      BY <2>1, <2>2 DEF Call, CallSet
    <2>. QED BY <2>3, Zenon DEF b, n, g
  <1>. HIDE DEF x, y
  <1>5. /\ x.pc \notin Pinging /\ Over(x, y) /\ y.pc \notin OnTop \cup Pinging /\ y.pc \notin Sending
        /\ stack[1].pc # "poll" /\ x.pc \notin OnTop
    BY <1>1, <1>2, <1>4, Zenon DEF Pinging, Sending, OnTop, Over
  <1>6. Follows(stack') /\ stack'[1] = x
    BY <1>1, <1>4, <1>5, Typed, CallStack, Zenon
  <1>7. Carries(stack')
    BY <1>5, <1>6, Typed, Zenon DEF Carries, Follows, StackInv
  <1>. QED BY <1>1, <1>7, StackStep, Zenon

\* ArpPolls: a poll above the sender that waits.
LEMMA WaitPolls == ASSUME IInv, ArpPolls PROVE IInv'
  <1>. DEFINE y == [Top EXCEPT !.pc = "test"]
  <1>1. /\ stack # << >> /\ stack[1].pc = "wait" /\ Top = stack[1]
        /\ stack' = <<Poll, y>> \o Tail(stack) /\ UNCHANGED <<driver, rdh, ping, hidden>>
    BY Zenon DEF ArpPolls, At, Top
  <1>2. Poll \in CallSet /\ Poll.pc = "poll" /\ y \in CallSet /\ y.pc = "test" /\ y.frame = stack[1].frame
    <2>1. "test" \in Pcs /\ Top \in CallSet
      BY <1>1, Typed, TopIs, Zenon DEF Pcs
    <2>2. y \in CallSet /\ y.pc = "test" /\ y.frame = Top.frame
      BY <2>1, Calls, Zenon
    <2>. HIDE DEF y
    <2>. QED BY <1>1, <2>2, Calls, Zenon
  <1>. HIDE DEF y
  <1>3. /\ Poll.pc \notin Pinging /\ Poll.pc \notin Sending /\ Poll.pc \notin OnTop
        /\ y.pc \notin OnTop \cup Pinging /\ stack[1].pc \in Sending
    BY <1>1, <1>2, Zenon DEF Pinging, Sending, OnTop
  <1>4. Follows(stack') /\ stack'[1] = Poll
    BY <1>1, <1>2, <1>3, Typed, CallStack, Zenon
  <1>5. Carries(stack')
    BY <1>3, <1>4, Typed, Zenon DEF Carries, Follows, StackInv
  <1>. QED BY <1>1, <1>5, StackStep, Zenon

\* PingPolls: a poll above net_ping.
LEMMA PingPolling == ASSUME IInv, PingPolls PROVE IInv'
  <1>. DEFINE y == [Top EXCEPT !.pc = "polled"]
  <1>1. /\ stack # << >> /\ stack' = <<Poll, y>> /\ UNCHANGED <<driver, rdh, ping, hidden>>
    BY Zenon DEF PingPolls, At
  <1>2. Poll \in CallSet /\ Poll.pc = "poll" /\ y \in CallSet /\ y.pc = "polled"
    <2>1. "polled" \in Pcs /\ Top \in CallSet
      BY <1>1, Typed, TopIs, Zenon DEF Pcs
    <2>. QED BY <1>1, <2>1, Calls, Zenon
  <1>. HIDE DEF y
  <1>3. Poll.pc \notin Pinging /\ Poll.pc \notin Sending /\ Poll.pc \notin OnTop /\ y.pc \in Pinging
    BY <1>2, Zenon DEF Pinging, Sending, OnTop
  <1>4. Nested(<<Poll, y>>) /\ HasPoll(<<Poll, y>>) /\ <<Poll, y>> \in Seq(CallSet) /\ <<Poll, y>>[1] = Poll
    BY <1>2, <1>3, ShortStacks, Pairs, Zenon
  <1>5. Carries(stack')
    BY <1>1, <1>3, <1>4, Zenon DEF Carries
  <1>. QED BY <1>1, <1>5, StackStep, Zenon

\* ip_emit and TxUnconfirmed: what was sent as a reply is the request.
LEMMA ReplySent ==
  ASSUME IInv, stack # << >>, Top.pc \in Sending, stack[2].pc = "reply"
  PROVE  LET r == Append(replies, <<stack[2].frame, Content>>)
         IN  /\ r \in Seq(FrameSet \X FrameSet)
             /\ \A i \in DOMAIN r : r[i][1] = r[i][2]
  <1>. DEFINE f == stack[2].frame
              g == Content
              r == Append(replies, <<f, g>>)
  <1>1. Over(stack[1], stack[2]) /\ stack[1] \in CallSet /\ stack[2] \in CallSet
    BY Typed, ReturnTwice, Zenon DEF Top
  <1>2. f = g
    BY <1>1, Zenon DEF Over, Content, Top
  <1>3. f \in FrameSet
    BY <1>1 DEF CallSet
  <1>4. replies \in Seq(FrameSet \X FrameSet) /\ \A i \in DOMAIN replies : replies[i][1] = replies[i][2]
    BY Typed, Zenon DEF ReplyInv
  <1>. HIDE DEF f, g
  <1>5. r \in Seq(FrameSet \X FrameSet)
    BY <1>2, <1>3, <1>4
  <1>6. ASSUME NEW i \in DOMAIN r PROVE r[i][1] = r[i][2]
    <2>1. (i \in DOMAIN replies /\ r[i] = replies[i]) \/ r[i] = <<f, g>>
      BY <1>4
    <2>2. <<f, g>>[1] = f /\ <<f, g>>[2] = g
      OBVIOUS
    <2>. HIDE DEF r
    <2>. QED BY <1>2, <1>4, <2>1, <2>2, Zenon
  <1>. QED BY <1>5, <1>6, Zenon DEF f, g, r

\* ip_send returns to the caller of its caller.
LEMMA SendReturns ==
  ASSUME IInv, stack # << >>, Top.pc \in Sending, stack' = SubSeq(stack, 3, Len(stack))
  PROVE  Carries(stack')
  <1>1. Follows(SubSeq(stack, 3, Len(stack))) /\ Plain(SubSeq(stack, 3, Len(stack)))
    BY Typed, ReturnTwice, Zenon DEF Top
  <1>. QED BY <1>1, Typed, FollowsCarries, Zenon

\* Resolved and ArpAnswered.
LEMMA Emits == ASSUME IInv, Resolved \/ ArpAnswered PROVE IInv'
  <1>1. stack # << >> /\ Top.pc \in Sending /\ Top = stack[1] /\ ip_emit
    BY Zenon DEF Resolved, ArpAnswered, At, Sending, Top
  <1>2. CASE stack[2].pc = "reply"
    <2>1. /\ replies' = Append(replies, <<stack[2].frame, Content>>) /\ stack' = SubSeq(stack, 3, Len(stack))
          /\ UNCHANGED <<driver, rdh, ping, arrived, handled, wire>>
      BY <1>1, <1>2, Zenon DEF ip_emit
    <2>2. replies' \in Seq(FrameSet \X FrameSet) /\ \A i \in DOMAIN replies' : replies'[i][1] = replies'[i][2]
      BY <1>1, <1>2, <2>1, ReplySent, Zenon
    <2>3. ReplyInv'
      BY <2>1, <2>2, Typed, Zenon DEF ReplyInv, Answered
    <2>4. Carries(stack')
      BY <1>1, <2>1, SendReturns, Zenon
    <2>. QED BY <2>1, <2>2, <2>3, <2>4, Typed, CallStep, Zenon
  <1>3. CASE stack[2].pc # "reply"
    <2>. DEFINE y == [stack[2] EXCEPT !.pc = "pong"]
    <2>1. /\ wire' = wire \cup {stack[2].seq} /\ stack' = <<y>>
          /\ UNCHANGED <<driver, rdh, ping, arrived, handled, replies>>
      BY <1>1, <1>3, Zenon DEF ip_emit
    <2>2. /\ Over(stack[1], stack[2]) /\ stack[2] \in CallSet
          /\ stack[2].pc = "pinged" => handed = N_RX
      BY <1>1, Typed, ReturnTwice, Zenon
    <2>3. handed = N_RX
      BY <1>3, <2>2, Zenon DEF Over
    <2>4. y \in CallSet /\ y.pc = "pong"
      <3>1. "pong" \in Pcs
        BY Zenon DEF Pcs
      <3>. QED BY <2>2, <3>1, Calls, Zenon
    <2>5. wire' \subseteq Nat
      <3>1. stack[2].seq \in Nat
        BY <2>2 DEF CallSet
      <3>. QED BY <2>1, <3>1, Typed, Zenon
    <2>. HIDE DEF y
    <2>6. y.pc \notin Sending /\ y.pc \notin OnTop
      BY <2>4, Zenon DEF Sending, OnTop
    <2>7. Nested(<<y>>) /\ <<y>> \in Seq(CallSet) /\ <<y>>[1] = y
      BY <2>4, <2>6, ShortStacks, Pairs, Zenon
    <2>8. Carries(stack')
      BY <2>1, <2>3, <2>6, <2>7, Zenon DEF Carries
    <2>9. ReplyInv'
      BY <2>1, Typed, RepliesKept, Zenon
    <2>. QED BY <2>1, <2>5, <2>8, <2>9, Typed, CallStep, Zenon
  <1>. QED BY <1>2, <1>3, Zenon

\* ArpTimeout: nothing is sent.
LEMMA TimesOut == ASSUME IInv, ArpTimeout PROVE IInv'
  <1>1. /\ stack # << >> /\ Top.pc \in Sending /\ stack' = SubSeq(stack, 3, Len(stack))
        /\ ping' = IF stack[2].pc = "pinged" THEN [ping EXCEPT !.result = "failed"] ELSE ping
        /\ UNCHANGED <<driver, rdh, arrived, handled, replies, wire>>
    BY Zenon DEF ArpTimeout, At, Sending, hidden
  <1>2. /\ ping' \in [seq : Nat, got : BOOLEAN, result : {"none", "failed", "answered"}]
        /\ ping'.seq = ping.seq /\ ping'.got = ping.got
        /\ ping'.result = "answered" => ping.result = "answered"
    BY <1>1, Typed
  <1>3. ReplyInv'
    BY <1>1, <1>2, Typed, RepliesKept, Zenon
  <1>4. Carries(stack')
    BY <1>1, SendReturns, Zenon
  <1>. QED BY <1>1, <1>2, <1>3, <1>4, Typed, CallStep, Zenon

\* TxUnconfirmed: what may have been sent is right.
LEMMA Unconfirmed == ASSUME IInv, TxUnconfirmed PROVE IInv'
  <1>1. /\ stack # << >> /\ Top.pc \in Sending /\ Top = stack[1] /\ stack' = SubSeq(stack, 3, Len(stack))
        /\ UNCHANGED <<driver, rdh, arrived, handled>>
    BY Zenon DEF TxUnconfirmed, At, Sending, Top
  <1>2. Over(stack[1], stack[2]) /\ stack[2] \in CallSet
    BY <1>1, Typed, ReturnTwice, Zenon
  <1>3. Carries(stack')
    BY <1>1, SendReturns, Zenon
  <1>4. CASE stack[2].pc = "pinged"
    <2>1. ping' = [ping EXCEPT !.result = "failed"] /\ wire' \in {wire, wire \cup {stack[2].seq}} /\ replies' = replies
      BY <1>4, Zenon DEF TxUnconfirmed
    <2>2. /\ ping' \in [seq : Nat, got : BOOLEAN, result : {"none", "failed", "answered"}]
          /\ ping'.seq = ping.seq /\ ping'.got = ping.got /\ ping'.result # "answered"
      BY <2>1, Typed
    <2>3. wire' \subseteq Nat
      <3>1. stack[2].seq \in Nat
        BY <1>2 DEF CallSet
      <3>. QED BY <2>1, <3>1, Typed, Zenon
    <2>4. ReplyInv'
      BY <1>1, <2>1, <2>2, Typed, RepliesKept, Zenon
    <2>. QED BY <1>1, <1>3, <2>1, <2>2, <2>3, <2>4, Typed, CallStep, Zenon
  <1>5. CASE stack[2].pc # "pinged"
    <2>1. replies' \in {replies, Append(replies, <<stack[2].frame, Content>>)} /\ ping' = ping /\ wire' = wire
      BY <1>5, Zenon DEF TxUnconfirmed
    <2>2. stack[2].pc = "reply"
      BY <1>2, <1>5, Zenon DEF Over
    <2>3. replies' \in Seq(FrameSet \X FrameSet) /\ \A i \in DOMAIN replies' : replies'[i][1] = replies'[i][2]
      <3>1. CASE replies' = replies
        BY <3>1, Typed, Zenon DEF ReplyInv
      <3>2. CASE replies' = Append(replies, <<stack[2].frame, Content>>)
        BY <1>1, <2>2, <3>2, ReplySent, Zenon
      <3>. QED BY <2>1, <3>1, <3>2, Zenon
    <2>4. ReplyInv'
      BY <1>1, <2>1, <2>3, Typed, Zenon DEF ReplyInv, Answered
    <2>. QED BY <1>1, <1>3, <2>1, <2>3, <2>4, Typed, CallStep, Zenon
  <1>. QED BY <1>4, <1>5, Zenon

\* Every step keeps the invariant.
LEMMA NextInv == ASSUME IInv, [Next]_vars PROVE IInv'
  <1>1. CASE UNCHANGED vars
    <2>1. UNCHANGED <<ring, rdh, rdt, cur, handed, stack, ping, arrived, handled, replies, wire>>
      BY <1>1, Zenon DEF vars, hidden
    <2>2. RingInv'
      BY <2>1, RingKeeps, Zenon DEF IInv
    <2>. QED BY <2>1, <2>2, Zenon DEF IInv, TypeInv, StackInv, ReplyInv, Answered, Nested, Fits, HasPoll, At, Top
  <1>2. CASE Step
    <2>1. CASE rx_recycle_handed \/ RxFrame \/ RxFragment \/ RxEmpty
      BY <2>1, Recycles, Frames, Fragments, Empties, Zenon
    <2>2. CASE arp_input \/ EchoRequest \/ EchoReply
      BY <2>2, Resolves, Requests, Answers, Zenon
    <2>3. CASE Resolved \/ ArpRequest \/ ArpPolls \/ ArpAnswered \/ ArpWaits \/ ArpTimeout \/ TxUnconfirmed
      BY <2>3, Emits, Waits, WaitPolls, TimesOut, Unconfirmed, Zenon
    <2>4. CASE PingPolls \/ PingAgain \/ PingTimeout \/ PingReturns
      BY <2>4, PingPolling, PingsOn, PingFails, PingDone, Zenon
    <2>. QED BY <1>2, <2>1, <2>2, <2>3, <2>4, Zenon DEF Step
  <1>3. CASE CardReceives \/ net_poll \/ net_ping
    BY <1>3, Receives, Polls, Pings, Zenon
  <1>. QED BY <1>1, <1>2, <1>3, Zenon DEF Next

----------------------------------------------------------------------------
(* The properties.                                                         *)


\* The descriptor j places on, for j less than a turn.
LEMMA PlacePlus ==
  \A k \in Nat, j \in 0 .. N_RX - 1 :
    Place(k + j) = IF Place(k) + j < N_RX THEN Place(k) + j ELSE Place(k) + j - N_RX
  <1>. SUFFICES ASSUME NEW k \in Nat, NEW j \in 0 .. N_RX - 1
                PROVE  Place(k + j) = IF Place(k) + j < N_RX THEN Place(k) + j ELSE Place(k) + j - N_RX
    BY Zenon
  <1>. DEFINE m == N_RX
              q == k \div m
              a == k % m
              r == IF a + j < m THEN a + j ELSE a + j - m
              p == IF a + j < m THEN q ELSE q + 1
  <1>1. m \in Nat /\ m > 1 /\ m \in Nat \ {0}
    BY NetAssumption
  <1>2. k = q * m + a /\ q \in Int /\ a \in 0 .. m - 1
    BY <1>1, Divides, Zenon
  <1>. HIDE DEF m, q, a
  <1>3. p \in Int /\ r \in 0 .. m - 1 /\ k + j = p * m + r
    <2>1. j \in 0 .. m - 1
      BY Zenon DEF m
    <2>2. r \in 0 .. m - 1 /\ p \in Int
      BY <1>1, <1>2, <2>1
    <2>3. (q + 1) * m = q * m + m
      BY <1>1, <1>2
    <2>. DEFINE w == q * m
    <2>4. w \in Int
      BY <1>1, <1>2
    <2>. HIDE DEF w
    <2>5. CASE a + j < m
      <3>1. p * m = w /\ k = w + a /\ r = a + j
        BY <1>2, <2>5, Zenon DEF w
      <3>. HIDE DEF p, r
      <3>2. k + j = w + (a + j)
        BY <1>1, <1>2, <2>1, <2>4, <3>1
      <3>. QED BY <2>2, <3>1, <3>2, Zenon
    <2>6. CASE ~(a + j < m)
      <3>1. p * m = w + m /\ k = w + a /\ r = a + j - m
        BY <1>2, <2>3, <2>6, Zenon DEF w
      <3>. HIDE DEF p, r
      <3>2. k + j = (w + m) + (a + j - m)
        BY <1>1, <1>2, <2>1, <2>4, <3>1
      <3>. QED BY <2>2, <3>1, <3>2, Zenon
    <2>. QED BY <2>5, <2>6, Zenon
  <1>. HIDE DEF p
  <1>4. ((k + j) % m) = r
    <2>. HIDE DEF r
    <2>1. (p * m + r) % m = r
      BY <1>1, <1>3, Remainder, Zenon
    <2>. QED BY <1>3, <2>1, Zenon
  <1>5. Place(k + j) = ((k + j) % m) /\ Place(k) = a
    BY Zenon DEF Place, m, a
  <1>. QED BY <1>4, <1>5, Zenon DEF r, m

\* A difference of descriptors, round the ring.
LEMMA Apart == \A i, d \in Slots : ((i + N_RX - d) % N_RX) = IF d <= i THEN i - d ELSE i + N_RX - d
  <1>. SUFFICES ASSUME NEW i \in Slots, NEW d \in Slots
                PROVE  ((i + N_RX - d) % N_RX) = IF d <= i THEN i - d ELSE i + N_RX - d
    BY Zenon
  <1>1. N_RX \in Nat /\ i \in 0 .. N_RX - 1 /\ d \in 0 .. N_RX - 1
    BY NetAssumption, Zenon DEF Slots
  <1>2. CASE d <= i
    <2>1. i - d \in Nat /\ i - d < N_RX /\ i + N_RX - d = (i - d) + N_RX
      BY <1>1, <1>2
    <2>2. Place(i - d) = i - d /\ Place((i - d) + N_RX) = Place(i - d)
      BY <2>1, PlaceIs, PlaceNext, Zenon
    <2>. QED BY <1>2, <2>1, <2>2, Zenon DEF Place
  <1>3. CASE ~(d <= i)
    <2>1. i + N_RX - d \in Nat /\ i + N_RX - d < N_RX
      BY <1>1, <1>3
    <2>2. Place(i + N_RX - d) = i + N_RX - d
      BY <2>1, PlaceIs, Zenon
    <2>. QED BY <1>3, <2>2, Zenon DEF Place
  <1>. QED BY <1>2, <1>3, Zenon

\* After and Place are inverse to each other.
LEMMA AfterIs ==
  ASSUME TypeInv, RingInv
  PROVE  /\ \A i \in Slots : After(i) \in 0 .. N_RX - 1 /\ i = Place(Len(arrived) + After(i))
         /\ \A o \in 0 .. N_RX - 1 : After(Place(Len(arrived) + o)) = o
  <1>. DEFINE a == Len(arrived)
              m == N_RX
  <1>1. a \in Nat /\ m \in Nat /\ m > 1 /\ rdh = Place(a) /\ rdh \in Slots /\ rdh \in 0 .. m - 1
    <2>1. a \in Nat /\ m \in Nat /\ m > 1 /\ rdh = Place(a)
      BY FirstIs, Zenon DEF RingInv
    <2>. QED BY <2>1, PlaceIs, Zenon DEF Slots
  <1>. HIDE DEF a, m
  <1>2. ASSUME NEW i \in Slots PROVE After(i) \in 0 .. m - 1 /\ i = Place(a + After(i))
    <2>. DEFINE o == After(i)
    <2>1. i \in 0 .. m - 1
      BY Zenon DEF Slots, m
    <2>2. o = IF rdh <= i THEN i - rdh ELSE i + m - rdh
      BY <1>1, Apart, Zenon DEF After, m
    <2>. HIDE DEF o
    <2>3. o \in 0 .. m - 1 /\ i = IF rdh + o < m THEN rdh + o ELSE rdh + o - m
      BY <1>1, <2>1, <2>2
    <2>4. Place(a + o) = IF rdh + o < m THEN rdh + o ELSE rdh + o - m
      BY <1>1, <2>3, PlacePlus, Zenon DEF m
    <2>5. i = Place(a + o)
      BY <2>3, <2>4
    <2>. QED BY <2>3, <2>5, Zenon DEF o
  <1>3. ASSUME NEW o \in 0 .. m - 1 PROVE After(Place(a + o)) = o
    <2>. DEFINE i == Place(a + o)
    <2>1. a + o \in Nat
      BY <1>1
    <2>2. i \in Slots /\ i \in 0 .. m - 1
      BY <2>1, PlaceIs, Zenon DEF Slots, m
    <2>3. i = IF rdh + o < m THEN rdh + o ELSE rdh + o - m
      BY <1>1, PlacePlus, Zenon DEF m
    <2>4. After(i) = IF rdh <= i THEN i - rdh ELSE i + m - rdh
      BY <1>1, <2>2, Apart, Zenon DEF After, m
    <2>. HIDE DEF i
    <2>5. o = IF rdh <= i THEN i - rdh ELSE i + m - rdh
      BY <1>1, <2>2, <2>3
    <2>6. After(i) = o
      BY <2>4, <2>5
    <2>. QED BY <2>6, Zenon DEF i
  <1>. QED BY <1>2, <1>3, Zenon DEF a, m

\* Descriptors that hold frames are those after RDT.
LEMMA Held ==
  ASSUME TypeInv, RingInv
  PROVE  \A i \in Slots : ring[i].dd <=> After(i) > After(rdt)
  <1>. DEFINE a == Len(arrived)
              f == First
              n == a - f
              m == N_RX
              S == f .. a - 1
  <1>1. a \in Nat /\ f \in Nat /\ f <= a /\ a < f + m /\ m \in Nat /\ m > 1
    <2>1. /\ Len(handled) \in Nat /\ a \in Nat /\ f \in Nat /\ m \in Nat /\ m > 1
          /\ f <= Len(handled) /\ Len(handled) <= a /\ a < f + m
      BY FirstIs, Zenon
    <2>. HIDE DEF a, f, m
    <2>. QED BY <2>1
  <1>2. /\ \A k \in S : ring[Place(k)].dd
        /\ \A i \in Slots : ring[i].dd => \E k \in S : i = Place(k)
        /\ rdt = Place(f + (m - 1))
    BY Zenon DEF RingInv
  <1>3. /\ \A i \in Slots : After(i) \in 0 .. m - 1 /\ i = Place(a + After(i))
        /\ \A o \in 0 .. m - 1 : After(Place(a + o)) = o
    BY AfterIs, Zenon
  <1>4. \A k \in Nat : Place(k + m) = Place(k)
    BY PlaceNext, Zenon
  <1>. HIDE DEF a, f, m
  <1>5. n \in 0 .. m - 1 /\ m - 1 - n \in 0 .. m - 1 /\ a + (m - 1 - n) = f + (m - 1)
    BY <1>1
  <1>6. After(rdt) = m - 1 - n
    BY <1>2, <1>3, <1>5, Zenon
  <1>7. ASSUME NEW i \in Slots, ring[i].dd PROVE After(i) > m - 1 - n
    <2>1. PICK k \in S : i = Place(k)
      BY <1>2, <1>7, Zenon
    <2>2. /\ k \in Nat /\ k + m - a \in 0 .. m - 1 /\ a + (k + m - a) = k + m
          /\ k + m - a > m - 1 - n
      BY <1>1
    <2>3. i = Place(a + (k + m - a))
      BY <1>4, <2>1, <2>2, Zenon
    <2>4. After(i) = k + m - a
      BY <1>3, <2>2, <2>3, Zenon
    <2>. QED BY <2>2, <2>4, Zenon
  <1>8. ASSUME NEW i \in Slots, After(i) > m - 1 - n PROVE ring[i].dd
    <2>. DEFINE o == After(i)
                k == a + o - m
    <2>1. o \in 0 .. m - 1 /\ i = Place(a + o) /\ o > m - 1 - n
      BY <1>3, <1>8, Zenon
    <2>. HIDE DEF o
    <2>2. k \in S /\ k \in Nat /\ k + m = a + o
      BY <1>1, <2>1
    <2>. HIDE DEF k
    <2>3. i = Place(k)
      BY <1>4, <2>1, <2>2, Zenon
    <2>. QED BY <1>2, <2>2, <2>3, Zenon
  <1>9. ASSUME NEW i \in Slots PROVE ring[i].dd <=> After(i) > After(rdt)
    <2>1. ring[i].dd => After(i) > After(rdt)
      BY <1>6, <1>7, Zenon
    <2>2. After(i) > After(rdt) => ring[i].dd
      BY <1>6, <1>8, Zenon
    <2>3. ring[i].dd \in BOOLEAN
      BY DEF TypeInv
    <2>. QED BY <2>1, <2>2, <2>3, Zenon
  <1>. QED BY <1>9, Zenon

\* The frames taken are the first that arrived.
LEMMA Taken ==
  ASSUME TypeInv, RingInv
  PROVE  Len(handled) <= Len(arrived) /\ handled = SubSeq(arrived, 1, Len(handled))
  <1>1. /\ Len(handled) <= Len(arrived) /\ handled \in Seq(FrameSet) /\ arrived \in Seq(FrameSet)
        /\ \A i \in 1 .. Len(handled) : handled[i] = arrived[i]
    BY Zenon DEF RingInv, TypeInv
  <1>2. Len(SubSeq(arrived, 1, Len(handled))) = Len(handled)
    BY <1>1
  <1>3. handled = SubSeq(arrived, 1, Len(handled))
    BY <1>1, <1>2
  <1>. QED BY <1>1, <1>3, Zenon

\* The invariant implies the properties.
LEMMA InvSound == ASSUME IInv PROVE RingSound /\ RepliesMatch
  <1>1. TypeInv /\ RingInv /\ StackInv /\ ReplyInv
    BY Zenon DEF IInv
  <1>2. Len(handled) <= Len(arrived) /\ handled = SubSeq(arrived, 1, Len(handled))
    BY <1>1, Taken, Zenon
  <1>3. \A i \in Slots : ring[i].dd <=> After(i) > After(rdt)
    BY <1>1, Held, Zenon
  <1>4. Answered => \E i \in DOMAIN handled : handled[i].seq = ping.seq
    <2>1. DOMAIN handled = 1 .. Len(handled)
      BY <1>1 DEF TypeInv
    <2>. QED BY <2>1, Zenon DEF Answered
  <1>5. RepliesMatch
    BY <1>1, <1>4, Zenon DEF ReplyInv, RepliesMatch
  <1>. QED BY <1>2, <1>3, <1>5, Zenon DEF RingSound

(* RingSound for every ring, number of frames and nesting of polls: frames *)
(* are taken once and in order, and the card owns every descriptor without *)
(* a frame but the one at RDT (e1000_rx_poll, rx_recycle_handed).          *)
THEOREM RingTheorem == Spec => []RingSound
  <1>1. Init => IInv
    BY InitInv
  <1>2. IInv /\ [Next]_vars => IInv'
    BY NextInv
  <1>3. IInv => RingSound
    BY InvSound
  <1>. QED BY <1>1, <1>2, <1>3, PTL DEF Spec

(* RepliesMatch for every ring and nesting of polls: an echo reply carries *)
(* the request it answers, and net_ping reports only an answer that came   *)
(* to this ping (icmp_input, net_ping).                                    *)
THEOREM RepliesTheorem == Spec => []RepliesMatch
  <1>1. Init => IInv
    BY InitInv
  <1>2. IInv /\ [Next]_vars => IInv'
    BY NextInv
  <1>3. IInv => RepliesMatch
    BY InvSound
  <1>. QED BY <1>1, <1>2, <1>3, PTL DEF Spec

=============================================================================
