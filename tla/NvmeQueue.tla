----------------------------- MODULE NvmeQueue -----------------------------
(***************************************************************************)
(* The I/O queue pair of the NVMe driver (src/src/nvme.c) with its         *)
(* controller.  ext2's lock lets one core at a time submit.  On the BSP a  *)
(* command is awaited in hlt and completed by the MSI-X handler nvme_irq;  *)
(* any other core masks the vector and polls.  The controller posts a      *)
(* completion with a phase bit that it flips on every lap of the ring, and *)
(* raises the vector, or remembers to while the vector is masked.          *)
(* A command is known by its number; a completion carries the number of    *)
(* the command it completes, which the driver never compares (cid).        *)
(***************************************************************************)
EXTENDS Naturals

CONSTANTS Depth,       \* QUEUE_DEPTH
          Commands,    \* how many commands are submitted
          Submitters,  \* the cores that submit: "bsp", "ap"
          Timeouts,    \* how many commands may time out
          Prompt       \* the BSP takes a raised vector before the next submission

ASSUME QueueAssumption ==
  /\ Depth \in Nat /\ Depth > 1 /\ Commands \in Nat /\ Timeouts \in Nat
  /\ Submitters \subseteq {"bsp", "ap"} /\ Prompt \in BOOLEAN

VARIABLES enabled,           \* io_irq.enabled: MSI-X is up
          sq, sqTail,        \* submission ring and io_q.sq_tail
          cq, cqHead, phase, \* completion ring, io_q.cq_head, io_q.phase
          devHead,           \* the controller's place in the submission ring
          devTail, devPhase, \* its place in the completion ring, and its phase
          masked, pending,   \* vector control, and the bit set while masked
          raised,            \* the vector waits at the BSP's local APIC
          done, status,      \* io_irq.done, io_irq.status
          pc,                \* the submitter
          cmd,               \* commands submitted so far: the last is current
          slot,              \* c, the completion submit polls
          late,              \* commands that timed out so far
          ret                \* the command whose status was returned last

device == <<devHead, devTail, devPhase>>
vector == <<masked, pending, raised>>
queueVars == <<enabled, sq, sqTail, cq, cqHead, phase, device, vector, done, status, pc, cmd, slot,
          late, ret>>

Ring == 0 .. Depth - 1
Succ(k) == (k + 1) % Depth
None == 0

\* queue_init and msix_setup: zeroed rings, both sides start with phase 1.
QueueInit ==
  /\ enabled \in BOOLEAN
  /\ sq = [k \in Ring |-> None] /\ sqTail = 0 /\ devHead = 0
  /\ cq = [k \in Ring |-> [phase |-> 0, cmd |-> None]]
  /\ cqHead = 0 /\ phase = 1 /\ devTail = 0 /\ devPhase = 1
  /\ masked = FALSE /\ pending = FALSE /\ raised = FALSE
  /\ done = FALSE /\ status = None
  /\ pc = "idle" /\ cmd = 0 /\ slot = 0 /\ late = 0 /\ ret = 0

CanSubmit == pc = "idle" /\ cmd < Commands /\ (Prompt => ~raised)

\* Write the command at the tail and ring the doorbell.
Enqueue ==
  /\ cmd' = cmd + 1
  /\ sq' = [sq EXCEPT ![sqTail] = cmd + 1]
  /\ sqTail' = Succ(sqTail)

\* The driver's side of a completion: step over it, flip the phase at the wrap.
Consume_NoFlip ==
  /\ cqHead' = Succ(cqHead)
  /\ UNCHANGED phase

Consume ==
  /\ cqHead' = Succ(cqHead)
  /\ phase' = IF Succ(cqHead) = 0 THEN 1 - phase ELSE phase

----------------------------------------------------------------------------
(* submit_io_irq, on the BSP.                                              *)

submit_io_irq_DoneKept ==
  /\ CanSubmit /\ enabled /\ "bsp" \in Submitters
  /\ Enqueue
  /\ pc' = "rung"
  /\ UNCHANGED <<enabled, cq, cqHead, phase, device, vector, done, status, slot, late, ret>>

submit_io_irq ==
  /\ CanSubmit /\ enabled /\ "bsp" \in Submitters
  /\ Enqueue
  /\ done' = FALSE /\ status' = None
  /\ pc' = "rung"
  /\ UNCHANGED <<enabled, cq, cqHead, phase, device, vector, slot, late, ret>>

\* A step of the submitter that changes nothing else.
Goto(from, to) ==
  /\ pc = from /\ pc' = to
  /\ UNCHANGED <<enabled, sq, sqTail, cq, cqHead, phase, device, vector, done, status, cmd,
                 slot, late, ret>>

\* The wait loop tests done with interrupts off, decides to sleep, and lets
\* them on again only together with hlt.
Cli == Goto("rung", "check")
Decide == ~done /\ Goto("check", "sti")
Halt == Goto("sti", "hlt")

ReturnStatus ==
  /\ pc = "check" /\ done
  /\ ret' = status
  /\ pc' = "idle"
  /\ UNCHANGED <<enabled, sq, sqTail, cq, cqHead, phase, device, vector, done, status, cmd,
                 slot, late>>

\* -1 is reported as the command's own status: the caller learns it failed.
GiveUpIrq ==
  /\ pc = "check" /\ ~done /\ late < Timeouts
  /\ late' = late + 1
  /\ ret' = cmd
  /\ pc' = "idle"
  /\ UNCHANGED <<enabled, sq, sqTail, cq, cqHead, phase, device, vector, done, status, cmd,
                 slot>>

InterruptsOn_Always == TRUE

InterruptsOn == pc \notin {"check", "sti"}

\* nvme_irq: one turn of its loop for each completion, and its return, which
\* also ends a hlt.
IrqDrain ==
  /\ raised /\ InterruptsOn /\ cq[cqHead].phase = phase
  /\ status' = cq[cqHead].cmd /\ done' = TRUE
  /\ Consume
  /\ UNCHANGED <<enabled, sq, sqTail, cq, device, vector, pc, cmd, slot, late, ret>>

IrqReturn ==
  /\ raised /\ InterruptsOn /\ cq[cqHead].phase # phase
  /\ raised' = FALSE
  /\ pc' = IF pc = "hlt" THEN "check" ELSE pc
  /\ UNCHANGED <<enabled, sq, sqTail, cq, cqHead, phase, device, masked, pending, done,
                 status, cmd, slot, late, ret>>

nvme_irq == IrqDrain \/ IrqReturn

----------------------------------------------------------------------------
(* submit_io and submit on another core, or on any core without MSI-X.     *)

submit_io_NotMasked ==
  /\ CanSubmit /\ (enabled => "ap" \in Submitters)
  /\ Enqueue
  /\ slot' = cqHead
  /\ pc' = "poll"
  /\ UNCHANGED <<enabled, cq, cqHead, phase, device, vector, done, status, late, ret>>

submit_io ==
  /\ CanSubmit /\ (enabled => "ap" \in Submitters)
  /\ masked' = enabled
  /\ Enqueue
  /\ slot' = cqHead
  /\ pc' = "poll"
  /\ UNCHANGED <<enabled, cq, cqHead, phase, device, pending, raised, done, status, late, ret>>

\* The poll of one completion, by its phase.
submit ==
  /\ pc = "poll" /\ cq[slot].phase = phase
  /\ ret' = cq[slot].cmd
  /\ Consume
  /\ pc' = "unmask"
  /\ UNCHANGED <<enabled, sq, sqTail, cq, device, vector, done, status, cmd, slot, late>>

GiveUpPoll ==
  /\ pc = "poll" /\ cq[slot].phase # phase /\ late < Timeouts
  /\ late' = late + 1
  /\ ret' = cmd
  /\ pc' = "unmask"
  /\ UNCHANGED <<enabled, sq, sqTail, cq, cqHead, phase, device, vector, done, status, cmd,
                 slot>>

\* Unmasking sends what was held back.
Unmask ==
  /\ pc = "unmask"
  /\ masked' = FALSE
  /\ raised' = (raised \/ pending) /\ pending' = FALSE
  /\ pc' = "idle"
  /\ UNCHANGED <<enabled, sq, sqTail, cq, cqHead, phase, device, done, status, cmd, slot,
                 late, ret>>

----------------------------------------------------------------------------
\* The controller completes the oldest command it has not completed.
Complete ==
  /\ devHead # sqTail /\ Succ(devTail) # cqHead
  /\ cq' = [cq EXCEPT ![devTail] = [phase |-> devPhase, cmd |-> sq[devHead]]]
  /\ devHead' = Succ(devHead)
  /\ devTail' = Succ(devTail)
  /\ devPhase' = IF Succ(devTail) = 0 THEN 1 - devPhase ELSE devPhase
  /\ pending' = (pending \/ (enabled /\ masked))
  /\ raised' = (raised \/ (enabled /\ ~masked))
  /\ UNCHANGED <<enabled, sq, sqTail, cqHead, phase, masked, done, status, pc, cmd, slot,
                 late, ret>>

Submitter == Cli \/ Decide \/ Halt \/ ReturnStatus \/ submit \/ Unmask

QueueNext ==
  \/ submit_io_irq \/ submit_io
  \/ Submitter \/ GiveUpIrq \/ GiveUpPoll
  \/ nvme_irq
  \/ Complete

----------------------------------------------------------------------------
\* The status handed to the caller is that of its own command.  The driver never
\* looks at cid: it relies on one command being in flight at a time, so that the
\* completion of a command that timed out is taken for the next one's.
OwnStatus == pc = "idle" /\ late = 0 => ret = cmd

\* Between commands driver and controller agree on the completion ring: the
\* driver waits at the slot the controller fills next, for the phase it will
\* write there, over any number of laps and whoever consumed the entries.  With
\* MSI-X this survives a timeout, because the handler drains what comes late.
RingsAgree ==
  pc = "idle" /\ ~raised /\ (enabled \/ late = 0)
    => cqHead = devTail /\ phase = devPhase /\ cq[cqHead].phase # phase

\* The caller is answered about its own command, over any number of laps of the rings,
\* whoever consumes the completions (submit, submit_io_irq, nvme_irq).
QueueSound == OwnStatus /\ RingsAgree

\* The polling core is the only one to consume completions while it polls: "so
\* the BSP's ISR cannot drain the completion out from under it".
PollerOwnsRing == [][pc = "poll" /\ cqHead' # cqHead => pc' = "unmask"]_queueVars

\* No wakeup is lost: a submitted command is returned, although nothing but its
\* own interrupt ends the hlt.
EveryCommandReturns == pc # "idle" ~> pc = "idle"
=============================================================================
