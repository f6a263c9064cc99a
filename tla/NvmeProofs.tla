----------------------------- MODULE NvmeProofs -----------------------------
(***************************************************************************)
(* Proofs about the NVMe driver: the queue pair (NvmeQueue) for a ring of  *)
(* any depth, any number of commands and any number that time out, and the *)
(* frames of the bring-up (NvmeDevice) for any limits a controller         *)
(* reports.                                                                *)
(***************************************************************************)
EXTENDS NvmeQueue, NvmeDevice, TLAPS

QueueSpec == QueueInit /\ [][QueueNext]_queueVars
DeviceSpec == DeviceInit /\ [][DeviceNext]_deviceVars

----------------------------------------------------------------------------
(* The queue pair.                                                         *)

Waits == {"rung", "check", "sti", "hlt"}

QueueTypes ==
  /\ enabled \in BOOLEAN /\ masked \in BOOLEAN /\ pending \in BOOLEAN /\ raised \in BOOLEAN /\ done \in BOOLEAN
  /\ sq \in [Ring -> Nat] /\ cq \in [Ring -> [phase : {0, 1}, cmd : Nat]]
  /\ sqTail \in Ring /\ cqHead \in Ring /\ devHead \in Ring /\ devTail \in Ring /\ slot \in Ring
  /\ phase \in {0, 1} /\ devPhase \in {0, 1}
  /\ status \in Nat /\ cmd \in Nat /\ late \in Nat /\ ret \in Nat
  /\ pc \in {"idle", "poll", "unmask"} \cup Waits

\* The controller has written the entries before its place in this lap, the others in
\* the lap before; the driver is at most a lap behind.
Laps ==
  /\ \A k \in Ring : cq[k].phase = IF k < devTail THEN devPhase ELSE 1 - devPhase
  /\ \/ phase = devPhase /\ cqHead <= devTail
     \/ phase = 1 - devPhase /\ devTail < cqHead

\* The vector is masked exactly while a core polls, when it cannot be raised; what the
\* handler has not consumed yet is announced to it.
Vector ==
  /\ pc \in {"poll", "unmask"} => (masked <=> enabled) /\ ~raised
  /\ pc \notin {"poll", "unmask"} => ~masked /\ ~pending
  /\ ~enabled => ~raised /\ ~pending /\ pc \notin Waits
  /\ enabled /\ cqHead # devTail => raised \/ pending
  /\ pc = "poll" => slot = cqHead

\* Where the one command in flight is, as long as none timed out.
Nowhere == devHead = sqTail /\ cqHead = devTail
Submitted == sqTail = Succ(devHead) /\ sq[devHead] = cmd /\ cqHead = devTail
Completed == devHead = sqTail /\ devTail = Succ(cqHead) /\ cq[cqHead].cmd = cmd
Flight ==
  late = 0 =>
    /\ pc \in {"idle", "unmask"} => Nowhere /\ ret = cmd
    /\ pc = "poll" => Submitted \/ Completed
    /\ pc \in Waits => IF done THEN Nowhere /\ status = cmd ELSE Submitted \/ Completed

QueueInv == QueueTypes /\ Laps /\ Vector /\ Flight

\* The places of a ring, without the remainder.
LEMMA SuccIs == \A k \in Ring : /\ Succ(k) = IF k + 1 = Depth THEN 0 ELSE k + 1
                                /\ Succ(k) \in Ring /\ Succ(k) # k
  BY QueueAssumption DEF Succ, Ring

\* The phase bit tells the driver exactly whether the controller is ahead of it.
LEMMA PhaseTells ==
  ASSUME QueueTypes, Laps
  PROVE  /\ cq[cqHead].phase = phase <=> cqHead # devTail
         /\ cqHead = devTail => phase = devPhase
  BY QueueAssumption DEF QueueTypes, Laps, Ring

\* Stepping over a completion keeps the driver within a lap, whoever does it.
LEMMA ConsumeLaps ==
  ASSUME QueueTypes, Laps, cq[cqHead].phase = phase, Consume, UNCHANGED <<cq, devTail, devPhase>>
  PROVE  /\ Laps' /\ cqHead' \in Ring /\ phase' \in {0, 1} /\ cqHead' = Succ(cqHead)
  <1>1. cqHead # devTail
    BY PhaseTells, Zenon
  <1>2. /\ Succ(cqHead) = IF cqHead + 1 = Depth THEN 0 ELSE cqHead + 1
        /\ Succ(cqHead) \in Ring
    BY SuccIs, Zenon DEF QueueTypes
  <1>. QED BY <1>1, <1>2, QueueAssumption DEF QueueTypes, Laps, Ring, Consume

\* A completion keeps the controller within a lap ahead: it never fills the ring.
LEMMA CompleteLaps ==
  ASSUME QueueTypes, Laps, Complete
  PROVE  Laps'
  <1>1. /\ Succ(devTail) = IF devTail + 1 = Depth THEN 0 ELSE devTail + 1
        /\ Succ(devTail) # cqHead
    BY SuccIs, Zenon DEF QueueTypes, Complete
  <1>2. \A k \in Ring : cq'[k].phase = IF k = devTail THEN devPhase ELSE cq[k].phase
    BY Zenon DEF QueueTypes, Complete
  <1>3. ASSUME NEW k \in Ring
        PROVE  cq'[k].phase = IF k < devTail' THEN devPhase' ELSE 1 - devPhase'
    <2>1. cq'[k].phase = IF k <= devTail THEN devPhase ELSE 1 - devPhase
      BY <1>2, QueueAssumption, SMTT(60) DEF QueueTypes, Laps, Ring
    <2>2. /\ devTail' = IF devTail + 1 = Depth THEN 0 ELSE devTail + 1
          /\ devPhase' = IF devTail + 1 = Depth THEN 1 - devPhase ELSE devPhase
      BY <1>1, QueueAssumption DEF QueueTypes, Ring, Complete
    <2>. QED BY <2>1, <2>2, QueueAssumption, SMTT(60) DEF QueueTypes, Ring
  <1>4. \/ phase' = devPhase' /\ cqHead' <= devTail'
        \/ phase' = 1 - devPhase' /\ devTail' < cqHead'
    BY <1>1, QueueAssumption DEF QueueTypes, Laps, Ring, Complete
  <1>. QED BY <1>3, <1>4, Zenon DEF Laps

\* Every step of the driver, the handler and the controller preserves the invariant
\* when the BSP takes a raised vector before the next submission.
LEMMA QueueStep ==
  ASSUME Prompt, QueueInv, [QueueNext]_queueVars
  PROVE  QueueInv'
  <1>. USE DEF QueueInv
  <1>0. /\ cq[cqHead].phase = phase <=> cqHead # devTail
        /\ cqHead = devTail => phase = devPhase
        /\ \A k \in Ring : Succ(k) \in Ring /\ Succ(k) # k
    BY PhaseTells, SuccIs, Zenon
  <1>1. CASE submit_io_irq
    <2>. USE <1>1 DEF submit_io_irq, CanSubmit, Enqueue, None, device, vector
    <2>1. QueueTypes'
      <3>1. sq' \in [Ring -> Nat] /\ sqTail' \in Ring /\ cmd' \in Nat
        BY <1>0 DEF QueueTypes
      <3>2. done' \in BOOLEAN /\ status' \in Nat /\ pc' \in Waits
        BY Zenon DEF Waits
      <3>. QED BY <3>1, <3>2, Zenon DEF QueueTypes
    <2>2. Laps'
      BY Zenon DEF Laps
    <2>3. Vector'
      BY Zenon DEF Vector, QueueTypes, Waits
    <2>4. Flight'
      BY <1>0, Zenon DEF Flight, QueueTypes, Nowhere, Submitted, Completed, Waits
    <2>. QED BY <2>1, <2>2, <2>3, <2>4, Zenon
  <1>2. CASE submit_io
    <2>. USE <1>2 DEF submit_io, CanSubmit, Enqueue, device
    <2>1. QueueTypes'
      BY <1>0 DEF QueueTypes, Waits
    <2>2. Laps'
      BY Zenon DEF Laps
    <2>3. Vector'
      BY Zenon DEF Vector, QueueTypes, Waits
    <2>4. Flight'
      BY <1>0, Zenon DEF Flight, QueueTypes, Nowhere, Submitted, Completed, Waits
    <2>. QED BY <2>1, <2>2, <2>3, <2>4, Zenon
  <1>3. CASE Cli \/ Decide \/ Halt
    <2>. USE <1>3 DEF Cli, Decide, Halt, Goto, device, vector
    <2>1. QueueTypes'
      BY DEF QueueTypes, Waits
    <2>2. Laps'
      BY Zenon DEF Laps
    <2>3. Vector'
      BY DEF Vector, Waits
    <2>4. Flight'
      BY DEF Flight, Nowhere, Submitted, Completed, Waits
    <2>. QED BY <2>1, <2>2, <2>3, <2>4, Zenon
  <1>4. CASE ReturnStatus \/ GiveUpIrq
    <2>. USE <1>4 DEF ReturnStatus, GiveUpIrq, device, vector
    <2>1. QueueTypes'
      BY DEF QueueTypes
    <2>2. Laps'
      BY Zenon DEF Laps
    <2>3. Vector'
      BY DEF Vector, Waits
    <2>4. Flight'
      BY DEF Flight, QueueTypes, Nowhere, Submitted, Completed, Waits
    <2>. QED BY <2>1, <2>2, <2>3, <2>4, Zenon
  <1>5. CASE IrqDrain
    <2>. USE <1>5 DEF IrqDrain, device, vector
    <2>1. /\ Laps' /\ cqHead' \in Ring /\ phase' \in {0, 1} /\ cqHead' = Succ(cqHead)
      BY ConsumeLaps, Zenon
    <2>2. QueueTypes'
      BY <2>1, Zenon DEF QueueTypes
    <2>3. Vector'
      BY Zenon DEF Vector
    <2>4. Flight'
      BY <1>0, <2>1, Zenon DEF Flight, Vector, QueueTypes, Nowhere, Submitted, Completed, Waits
    <2>. QED BY <2>1, <2>2, <2>3, <2>4, Zenon
  <1>6. CASE IrqReturn
    <2>. USE <1>6 DEF IrqReturn, device, vector, InterruptsOn
    <2>1. QueueTypes'
      BY Zenon DEF QueueTypes, Waits
    <2>2. Laps'
      BY Zenon DEF Laps
    <2>3. Vector'
      BY <1>0, Zenon DEF Vector, Waits
    <2>4. Flight'
      BY Zenon DEF Flight, Nowhere, Submitted, Completed, Waits
    <2>. QED BY <2>1, <2>2, <2>3, <2>4, Zenon
  <1>7. CASE submit
    <2>. USE <1>7 DEF submit, device, vector
    <2>0. slot = cqHead
      BY Zenon DEF Vector
    <2>1. /\ Laps' /\ cqHead' \in Ring /\ phase' \in {0, 1} /\ cqHead' = Succ(cqHead)
      BY <2>0, ConsumeLaps, Zenon
    <2>2. QueueTypes'
      BY <2>1, Zenon DEF QueueTypes
    <2>3. Vector'
      BY <1>0, <2>0, Zenon DEF Vector, Waits
    <2>4. Flight'
      BY <1>0, <2>0, <2>1, Zenon DEF Flight, QueueTypes, Nowhere, Submitted, Completed, Waits
    <2>. QED BY <2>1, <2>2, <2>3, <2>4, Zenon
  <1>8. CASE GiveUpPoll
    <2>. USE <1>8 DEF GiveUpPoll, device, vector
    <2>1. QueueTypes'
      BY DEF QueueTypes
    <2>2. Laps'
      BY Zenon DEF Laps
    <2>3. Vector'
      BY Zenon DEF Vector, Waits
    <2>4. Flight'
      BY DEF Flight, QueueTypes
    <2>. QED BY <2>1, <2>2, <2>3, <2>4, Zenon
  <1>9. CASE Unmask
    <2>. USE <1>9 DEF Unmask, device
    <2>1. QueueTypes'
      BY ZenonT(60) DEF QueueTypes
    <2>2. Laps'
      BY Zenon DEF Laps
    <2>3. Vector'
      BY Zenon DEF Vector, QueueTypes, Waits
    <2>4. Flight'
      BY Zenon DEF Flight, Nowhere, Submitted, Completed, Waits
    <2>. QED BY <2>1, <2>2, <2>3, <2>4, Zenon
  <1>10. CASE Complete
    <2>. USE <1>10 DEF Complete
    <2>1. QueueTypes'
      BY <1>0 DEF QueueTypes
    <2>2. Laps'
      BY CompleteLaps, Zenon
    <2>3. Vector'
      BY Zenon DEF Vector, QueueTypes, Waits
    <2>4. Flight'
      BY <1>0, Zenon DEF Flight, QueueTypes, Nowhere, Submitted, Completed, Waits
    <2>. QED BY <2>1, <2>2, <2>3, <2>4, Zenon
  <1>11. CASE UNCHANGED queueVars
    BY <1>11 DEF queueVars, device, vector, QueueTypes, Laps, Vector, Flight, Nowhere,
                 Submitted, Completed
  <1>. QED BY <1>1, <1>2, <1>3, <1>4, <1>5, <1>6, <1>7, <1>8, <1>9, <1>10, <1>11, Zenon
           DEF QueueNext, Submitter, nvme_irq

\* The invariant of the queue, if the interrupt comes before the next command.
LEMMA QueueInvariant == ASSUME Prompt PROVE QueueSpec => []QueueInv
  <1>1. QueueInit => QueueInv
    <2>. SUFFICES ASSUME QueueInit PROVE QueueInv
      BY Zenon
    <2>1. 0 \in Ring
      BY QueueAssumption DEF Ring
    <2>2. cq \in [Ring -> [phase : {0, 1}, cmd : Nat]] /\ sq \in [Ring -> Nat]
      BY Zenon DEF QueueInit, None
    <2>3. QueueTypes
      BY <2>1, <2>2, Zenon DEF QueueInit, QueueTypes, None
    <2>4. Laps
      BY QueueAssumption DEF QueueInit, Laps, Ring
    <2>5. Vector /\ Flight
      BY Zenon DEF QueueInit, Vector, Flight, Nowhere, Waits
    <2>. QED BY <2>3, <2>4, <2>5, Zenon DEF QueueInv
  <1>2. QueueInv /\ [QueueNext]_queueVars => QueueInv'
    BY QueueStep, Zenon
  <1>. QED BY <1>1, <1>2, PTL DEF QueueSpec

\* A caller of nvme_rw is told the status of its own command, and between commands the
\* driver and the controller agree on the completion ring: for every depth, any number
\* of commands and laps, with or without MSI-X, and whichever cores submit.
THEOREM QueueTheorem == ASSUME Prompt PROVE QueueSpec => []QueueSound
  <1>1. QueueInv => QueueSound
    <2>. SUFFICES ASSUME QueueInv PROVE QueueSound
      BY Zenon
    <2>1. /\ cq[cqHead].phase = phase <=> cqHead # devTail
          /\ cqHead = devTail => phase = devPhase
      BY PhaseTells, Zenon DEF QueueInv
    <2>2. OwnStatus
      BY Zenon DEF QueueInv, Flight, OwnStatus
    <2>3. RingsAgree
      BY <2>1, Zenon DEF QueueInv, QueueTypes, Vector, Flight, Nowhere, RingsAgree
    <2>. QED BY <2>2, <2>3, Zenon DEF QueueSound
  <1>. QED BY <1>1, QueueInvariant, PTL

\* While a core polls with the vector masked nobody else consumes a completion, as the
\* comment in submit_io says.
THEOREM PollerTheorem == ASSUME Prompt PROVE QueueSpec => PollerOwnsRing
  <1>1. QueueInv /\ [QueueNext]_queueVars
          => [pc = "poll" /\ cqHead' # cqHead => pc' = "unmask"]_queueVars
    <2>. SUFFICES ASSUME QueueInv, QueueNext, pc = "poll", cqHead' # cqHead PROVE pc' = "unmask"
      BY Zenon
    <2>1. ~raised
      BY SMTT(60) DEF QueueInv, Vector
    <2>. QED BY <2>1, Zenon DEF QueueNext, Submitter, nvme_irq, IrqDrain, IrqReturn, submit_io_irq,
               submit_io, CanSubmit, Cli, Decide, Halt, Goto, ReturnStatus, submit, Unmask,
               GiveUpIrq, GiveUpPoll, Complete
  <1>. QED BY <1>1, QueueInvariant, PTL DEF QueueSpec, PollerOwnsRing

----------------------------------------------------------------------------
(* The frames of the bring-up.                                             *)

\* Which frames the driver owns at each stage.  Up to create_io_queues the controller
\* knows exactly the admin queues; past it, the I/O queues as well.
Frames ==
  /\ stage \in {"probe", "off", "enable", "controller", "namespace", "limit", "create", "fail",
                "present", "rw"}
  /\ stage \in {"probe", "off", "enable"} => owned = {}
  /\ stage \in {"probe", "enable"} => refs = {}
  /\ stage \in {"controller", "namespace", "limit", "create", "fail"} => owned = Admin
  /\ stage \in {"controller", "namespace", "limit", "create"} => live /\ refs = Admin
  /\ stage \in {"present", "rw"} =>
       live /\ refs = Admin \cup {IoSq, IoCq} /\ owned = Admin \cup {IoSq, IoCq} \cup Staging

\* Every step of the bring-up preserves who owns which frame.
LEMMA FramesStep == Frames /\ [DeviceNext]_deviceVars => Frames'
  <1>. SUFFICES ASSUME Frames, [DeviceNext]_deviceVars PROVE Frames'
    BY Zenon
  <1>. USE DEF Frames
  <1>1. CASE Probe
    BY <1>1, Zenon DEF Probe
  <1>2. CASE Enable
    BY <1>2, Zenon DEF Enable
  <1>3. CASE IdentifyController
    BY <1>3 DEF IdentifyController, identify
  <1>4. CASE IdentifyNamespace
    BY <1>4 DEF IdentifyNamespace, identify
  <1>5. CASE Limit
    BY <1>5, Zenon DEF Limit
  <1>6. CASE create_io_queues
    BY <1>6, Zenon DEF create_io_queues
  <1>7. CASE Fail
    BY <1>7, Zenon DEF Fail
  <1>8. CASE Request \/ Return
    BY <1>8, SMTT(60) DEF Request, Return
  <1>9. CASE nvme_rw
    BY <1>9, Zenon DEF nvme_rw
  <1>10. CASE UNCHANGED deviceVars
    BY <1>10, Zenon DEF deviceVars
  <1>. QED BY <1>1, <1>2, <1>3, <1>4, <1>5, <1>6, <1>7, <1>8, <1>9, <1>10, Zenon DEF DeviceNext

\* However the bring-up ends (nvme_init), with commands refused or timing out, a driver
\* that gives up owns no frame, and one that is present owns what the controller uses.
THEOREM FramesTheorem == DeviceSpec => []NoLeak
  <1>1. DeviceInit => Frames
    BY Zenon DEF DeviceInit, Frames
  <1>2. Frames => NoLeak
    BY Zenon DEF Frames, NoLeak
  <1>. QED BY <1>1, <1>2, FramesStep, PTL DEF DeviceSpec
=============================================================================
