----------------------------- MODULE BlockStore -----------------------------
(***************************************************************************)
(* What a write-back block cache promises its file system (bcache.h):      *)
(* every read returns the last block written, whatever has reached the     *)
(* device meanwhile; a sync that reports success leaves nothing behind;    *)
(* and a power loss falls back to what the device holds.                   *)
(***************************************************************************)
EXTENDS Naturals

CONSTANTS Blocks,  \* block numbers of the device
          Values   \* contents of a block

VARIABLES store,   \* the contents the file system sees
          disk,    \* the contents the device holds
          reply    \* what the last call handed back

storeVars == <<store, disk, reply>>

NoReply == [status |-> "none", data |-> [b \in {} |-> 0]]
Status(st) == [status |-> st, data |-> [b \in {} |-> 0]]
Data(f, B) == [status |-> "data", data |-> [b \in B |-> f[b]]]

Init ==
  /\ disk \in [Blocks -> Values]
  /\ store = disk
  /\ reply = NoReply

\* A write is visible at once and need not touch the device.
Write(b, v) ==
  /\ store' = [store EXCEPT ![b] = v]
  /\ reply' = Status("ok")
  /\ UNCHANGED disk

\* A read returns what is stored in a set of blocks.
Read(B) ==
  /\ reply' = Data(store, B)
  /\ UNCHANGED <<store, disk>>

\* One block moves to the device, at a moment of the cache's choosing.  It may
\* go together with the answer of the read that needed its place.
WriteBack(b) ==
  /\ disk' = [disk EXCEPT ![b] = store[b]]
  /\ \/ reply' \in {NoReply, Status("ok"), Status("error")}
     \/ \E c \in Blocks : reply' = Data(store, {c})
  /\ UNCHANGED store

\* A write that needed the place of another block.
WriteBackAndWrite(b, c, v) ==
  /\ b # c
  /\ disk' = [disk EXCEPT ![b] = store[b]]
  /\ store' = [store EXCEPT ![c] = v]
  /\ reply' = Status("ok")

\* Success of a sync is a promise that the device is up to date.
Sync ==
  /\ disk = store
  /\ reply' = Status("synced")
  /\ UNCHANGED <<store, disk>>

\* Device errors are reported, and internal steps answer nothing.
Answer ==
  /\ reply' \in {NoReply, Status("ok"), Status("error")}
  /\ UNCHANGED <<store, disk>>

\* Power loss, or a cache built anew: only the device survives.
Crash ==
  /\ store' = disk
  /\ reply' = NoReply
  /\ UNCHANGED disk

Next ==
  \/ \E b \in Blocks, v \in Values : Write(b, v)
  \/ \E B \in SUBSET Blocks : Read(B)
  \/ \E b \in Blocks : WriteBack(b)
  \/ \E b, c \in Blocks, v \in Values : WriteBackAndWrite(b, c, v)
  \/ Sync
  \/ Answer
  \/ Crash

Spec == Init /\ [][Next]_storeVars
=============================================================================
