------------------------------ MODULE Storage ------------------------------
(***************************************************************************)
(* The disk drivers side by side.  A mounted file system uses one of them, *)
(* and an NVMe command is the same to the queue whatever it moves: each    *)
(* behaviour follows the NVMe queue, the NVMe controller's bring-up and    *)
(* transfers, or the ATA drive, the other two staying as they are.         *)
(***************************************************************************)
EXTENDS NvmeQueue, NvmeDevice, Ata

VARIABLE part

vars == <<part, queueVars, deviceVars, ataVars>>

Init == part \in {"queue", "nvme", "ata"} /\ QueueInit /\ DeviceInit /\ AtaInit

Next ==
  /\ UNCHANGED part
  /\ \/ part = "queue" /\ QueueNext /\ UNCHANGED <<deviceVars, ataVars>>
     \/ part = "nvme" /\ DeviceNext /\ UNCHANGED <<queueVars, ataVars>>
     \/ part = "ata" /\ AtaNext /\ UNCHANGED <<queueVars, deviceVars>>

\* Cores keep executing, a raised vector is taken, the controller works.
\* Nothing but the completion's own interrupt ends a hlt here.
Spec == /\ Init /\ [][Next]_vars
        /\ WF_queueVars(Submitter) /\ WF_queueVars(nvme_irq) /\ WF_queueVars(Complete)

\* Every unit of a request is moved between its place on the disk and its own address
\* in the buffer, however the request is split: see PrpExact for NVMe, AtaExact for ATA.
TransferExact == PrpExact /\ AtaExact
=============================================================================
