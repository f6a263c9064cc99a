-------------------------- MODULE MCTcpConnection --------------------------
\* The client's sequence numbers wrap within its stream.
EXTENDS TcpConnection

NearWrap == [e \in Machines |-> IF e = "client" THEN SeqSpace - 2 ELSE 3]
OnlyClient == [e \in Machines |-> IF e = "client" THEN 2 ELSE 0]

Calm == [rxbuf |-> 2, closers |-> Machines, losses |-> 0, copies |-> 0, resets |-> 0,
         deadlines |-> FALSE, arpMiss |-> FALSE, patient |-> TRUE, eager |-> FALSE]
OneCloses == [Calm EXCEPT !.closers = {"client"}]

\* A ring of one, a copy, timers that run out early and waits for ARP; a reset
\* and deadlines; a copy and deadlines; deadlines when both close; a copy when
\* both close; a lost segment.
Adverse ==
  {[OneCloses EXCEPT !.rxbuf = 1, !.copies = 1, !.arpMiss = TRUE, !.patient = FALSE],
   [OneCloses EXCEPT !.resets = 1, !.deadlines = TRUE],
   [OneCloses EXCEPT !.copies = 1, !.deadlines = TRUE],
   [Calm EXCEPT !.deadlines = TRUE],
   [Calm EXCEPT !.copies = 1],
   [Calm EXCEPT !.losses = 1, !.eager = TRUE]}
=============================================================================
