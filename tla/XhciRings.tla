----------------------------- MODULE XhciRings -----------------------------
(***************************************************************************)
(* The rings of the xHCI driver (src/src/xhci.c), shared with the          *)
(* controller.  A producer ring (commands, or the transfers of an          *)
(* endpoint) ends in a LINK back to its start; the controller takes        *)
(* entries as long as their cycle bit equals its own, and both sides flip  *)
(* theirs at the wrap.  On the event ring the roles are exchanged.         *)
(* The controller's side is external: what the xHCI specification says of  *)
(* the registers and rings this driver uses.                               *)
(***************************************************************************)
EXTENDS Naturals, Sequences

CONSTANTS RING_TRBS,  \* entries of a producer ring, the LINK included
          EvtTrbs,    \* entries of the event ring
          Rings,      \* the producer rings: "cmd" and the endpoints
          Places,     \* where finished traffic left the rings: see RingsInit
          NoReq       \* what an entry never written holds

ASSUME RingAssumption ==
  RING_TRBS \in Nat /\ RING_TRBS > 2 /\ EvtTrbs \in Nat /\ EvtTrbs > 2

VARIABLES ring,    \* struct ring of each producer ring
          hc,      \* the controller's place in it, its cycle, and the endpoint's state
          asked,   \* requests pushed and not yet taken by the controller
          etrb,    \* memory of the event ring
          evt,     \* evt: the driver's place and cycle
          hcevt,   \* the controller's place and cycle, and ERDP
          posted   \* events posted and not yet taken by the driver

ringVars == <<ring, hc, asked, etrb, evt, hcevt, posted>>

Link == RING_TRBS - 1
Flip(c) == 1 - c

\* A ring whose n entries before enq were written in the current lap.
RingAt(n, c) ==
  [trb |-> [i \in 0 .. Link |-> [cycle |-> IF i < n THEN c ELSE Flip(c), req |-> NoReq]],
   enq |-> n, cycle |-> c]

ring_reset == RingAt(0, 1)

ring_push_NoFlip(r, q) ==
  LET filled == [r.trb EXCEPT ![r.enq] = [cycle |-> r.cycle, req |-> q]]
  IN  IF r.enq + 1 = Link
      THEN [trb |-> [filled EXCEPT ![Link].cycle = r.cycle], enq |-> 0, cycle |-> r.cycle]
      ELSE [trb |-> filled, enq |-> r.enq + 1, cycle |-> r.cycle]

\* Write the entry with the producer's cycle; before the LINK, arm it and wrap.
ring_push(r, q) ==
  LET filled == [r.trb EXCEPT ![r.enq] = [cycle |-> r.cycle, req |-> q]]
  IN  IF r.enq + 1 = Link
      THEN [trb |-> [filled EXCEPT ![Link].cycle = r.cycle], enq |-> 0, cycle |-> Flip(r.cycle)]
      ELSE [trb |-> filled, enq |-> r.enq + 1, cycle |-> r.cycle]

\* All producer rings with n entries written in a lap of cycle c, the event
\* ring with k entries of a lap of cycle d taken.
RingsInit ==
  /\ \E p \in Places : LET n == p.n  c == p.c  k == p.k  d == p.d IN
       /\ ring = [r \in Rings |-> RingAt(n, c)]
       /\ hc = [r \in Rings |-> [deq |-> n, ccs |-> c, state |-> "running"]]
       /\ etrb = [i \in 0 .. EvtTrbs - 1 |-> [cycle |-> IF i < k THEN d ELSE Flip(d), ev |-> NoReq]]
       /\ evt = [deq |-> k, cycle |-> d]
       /\ hcevt = [enq |-> k, ccs |-> d, erdp |-> IF k = 0 THEN EvtTrbs - 1 ELSE k - 1]
  /\ asked = [r \in Rings |-> <<>>]
  /\ posted = <<>>

\* ring_push and the doorbell: a stopped endpoint runs again, a halted one does not.
PushAll(r, qs) ==
  [ring EXCEPT ![r] = IF Len(qs) = 1 THEN ring_push(@, qs[1])
                                     ELSE ring_push(ring_push(@, qs[1]), qs[2])]

Rung(h) == [h EXCEPT !.state = IF @ = "stopped" THEN "running" ELSE @]

Submit(r, qs) ==
  /\ ring' = PushAll(r, qs)
  /\ hc' = [hc EXCEPT ![r] = Rung(@)]
  /\ asked' = [asked EXCEPT ![r] = @ \o qs]

----------------------------------------------------------------------------
(* The controller's side of a producer ring.                               *)

\* Over the LINK once it is armed.
Follow(r) ==
  LET h == hc[r]
  IN  IF h.deq = Link /\ ring[r].trb[Link].cycle = h.ccs
      THEN [h EXCEPT !.deq = 0, !.ccs = Flip(@)] ELSE h

HasTrb(r) ==
  /\ hc[r].state = "running"
  /\ Follow(r).deq # Link
  /\ ring[r].trb[Follow(r).deq].cycle = Follow(r).ccs

Trb(r) == ring[r].trb[Follow(r).deq].req

\* The entry at the head is done, and its content no longer matters; the
\* endpoint goes on, or halts.
Take(r, state) ==
  /\ ring' = [ring EXCEPT ![r].trb[Follow(r).deq].req = NoReq]
  /\ hc' = [hc EXCEPT ![r] = [Follow(r) EXCEPT !.deq = @ + 1, !.state = state]]
  /\ asked' = [asked EXCEPT ![r] = IF @ = <<>> THEN @ ELSE Tail(@)]

\* The requests the controller would take, one after the other.
Visible(r) ==
  LET h == Follow(r)
      lap(k) == h.deq + k < Link
      at(k) == ring[r].trb[(h.deq + k) % Link]
      valid(k) == IF lap(k) THEN at(k).cycle = h.ccs
                  ELSE ring[r].trb[Link].cycle = h.ccs /\ at(k).cycle = Flip(h.ccs)
      n == CHOOSE n \in 0 .. Link : /\ \A k \in 0 .. n - 1 : valid(k)
                                    /\ n = Link \/ ~valid(n)
  IN  IF h.deq = Link THEN <<>> ELSE [k \in 1 .. n |-> at(k - 1).req]

----------------------------------------------------------------------------
(* The event ring.                                                         *)

\* The controller stops before the entry ERDP names.
CanPost == (hcevt.enq + 1) % EvtTrbs # hcevt.erdp

Post(e) ==
  /\ CanPost
  /\ etrb' = [etrb EXCEPT ![hcevt.enq] = [cycle |-> hcevt.ccs, ev |-> e]]
  /\ hcevt' = [hcevt EXCEPT !.enq = (@ + 1) % EvtTrbs,
                            !.ccs = IF hcevt.enq + 1 = EvtTrbs THEN Flip(@) ELSE @]
  /\ posted' = Append(posted, e)
  /\ UNCHANGED evt

HasEvent == etrb[evt.deq].cycle = evt.cycle
Event == etrb[evt.deq].ev

\* next_event: take the event, step over it, flip the cycle at the wrap, write ERDP.
next_event ==
  /\ HasEvent
  /\ evt' = [deq |-> (evt.deq + 1) % EvtTrbs,
             cycle |-> IF evt.deq + 1 = EvtTrbs THEN Flip(evt.cycle) ELSE evt.cycle]
  /\ hcevt' = [hcevt EXCEPT !.erdp = evt.deq]
  /\ posted' = IF posted = <<>> THEN posted ELSE Tail(posted)
  /\ etrb' = [etrb EXCEPT ![evt.deq].ev = NoReq]

\* What the driver would take from the event ring, one after the other.
Waiting ==
  LET valid(k) == etrb[(evt.deq + k) % EvtTrbs].cycle
                    = IF evt.deq + k < EvtTrbs THEN evt.cycle ELSE Flip(evt.cycle)
      n == CHOOSE n \in 0 .. EvtTrbs : /\ \A k \in 0 .. n - 1 : valid(k)
                                       /\ n = EvtTrbs \/ ~valid(n)
  IN  [k \in 1 .. n |-> etrb[(evt.deq + k - 1) % EvtTrbs].ev]

\* Every ring is a queue: the controller finds on a running endpoint exactly the
\* requests pushed and not yet done, the driver on the event ring exactly the
\* events posted and not yet taken, each once, in order, whatever the place of
\* the rings and however often they wrapped (ring_push, ring_reset, next_event).
RingsAreQueues ==
  /\ \A r \in Rings : hc[r].state = "running" => Visible(r) = asked[r]
  /\ Waiting = posted
=============================================================================
