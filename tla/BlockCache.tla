----------------------------- MODULE BlockCache -----------------------------
(***************************************************************************)
(* The write-back LRU block cache (src/src/bcache.c) over a block device   *)
(* whose reads and writes may fail.  All calls are serialised by the file  *)
(* system's lock (ext2.c), so one call at a time is in progress; its loops *)
(* (read-ahead, the blocks of a run, the slots of a sync) are steps of     *)
(* their own, so that a power loss can fall between two device accesses.   *)
(* The intrusive lists are kept as what they represent: a hash chain is    *)
(* the set of its slots, the LRU list is the position of every slot.       *)
(***************************************************************************)
EXTENDS Integers

CONSTANTS NBlocks,     \* blocks of the device: dev->sectors() / spb
          Values,      \* contents of a block
          NSlots,      \* nslots
          NBuckets,    \* nbuckets
          ReadAhead,   \* READAHEAD
          ReadOk,      \* outcomes of a device read
          EvictOk,     \* outcomes of the write-back of a slot being given up
          SyncOk       \* outcomes of the device writes of a sync

ASSUME SizeAssumption == /\ NBlocks \in Nat \ {0}
                         /\ NSlots \in Nat \ {0}
                         /\ ReadAhead \in Nat
ASSUME BucketAssumption == NBuckets \in Nat \ {0} /\ NBuckets >= NSlots
ASSUME OutcomeAssumption == /\ ReadOk \subseteq BOOLEAN
                            /\ EvictOk \subseteq BOOLEAN
                            /\ SyncOk \subseteq BOOLEAN

Blocks == 0 .. NBlocks - 1
Slots == 1 .. NSlots
Buckets == 0 .. NBuckets - 1

VARIABLES disk,            \* what the device holds
          valid, dirty,    \* the slots with these flags set
          blk, data,       \* block number and contents of a slot
          chain,           \* hash buckets
          pos,             \* place in the LRU list: 1 is the head, NSlots the tail
          pc,              \* the loop in progress, "idle" between calls
          base, step,      \* readahead(base) is at iteration step
          runAt, runLeft,  \* next block of a bcache_read_run, blocks left
          syncAt, syncBad, \* next slot of a sync, and the slots that failed
          closing,         \* the sync belongs to bcache_destroy
          reply            \* what the last step handed to the caller

cacheVars == <<valid, dirty, blk, data, chain, pos>>
callVars == <<base, step, runAt, runLeft, syncAt, syncBad, closing>>
vars == <<disk, cacheVars, pc, callVars, reply>>

----------------------------------------------------------------------------
bucket_of(b) == b % NBuckets

\* lookup: the valid slots of the block's chain that hold it.
lookup(b) == {s \in chain[bucket_of(b)] : s \in valid /\ blk[s] = b}

\* What the file system reads: the cached copy if there is one.
Contents ==
  [b \in Blocks |-> IF lookup(b) = {} THEN disk[b]
                    ELSE data[CHOOSE s \in lookup(b) : TRUE]]

Store == INSTANCE BlockStore WITH store <- Contents

hash_insert(ch, s, b) == [ch EXCEPT ![bucket_of(b)] = @ \cup {s}]
hash_remove(ch, s, b) == [ch EXCEPT ![bucket_of(b)] = @ \ {s}]

lru_touch_Lost(s) == UNCHANGED pos

lru_touch(s) ==
  pos' = [t \in Slots |-> IF t = s THEN 1
                          ELSE IF pos[t] < pos[s] THEN pos[t] + 1 ELSE pos[t]]
lru_move_back(s) ==
  pos' = [t \in Slots |-> IF t = s THEN NSlots
                          ELSE IF pos[t] > pos[s] THEN pos[t] - 1 ELSE pos[t]]

IsTail(s) == s \in Slots /\ pos[s] = NSlots

\* A failed device write leaves the block as it was or as it was to become.
dev_write_block(b, v, ok) ==
  IF ok THEN disk' = [disk EXCEPT ![b] = v]
        ELSE disk' \in {disk, [disk EXCEPT ![b] = v]}

NeedsFlush(s) == s \in valid /\ s \in dirty

flush_slot(s, ok) ==
  IF NeedsFlush(s) THEN dev_write_block(blk[s], data[s], ok) ELSE UNCHANGED disk

\* claim, with what its caller does to the slot: the tail is flushed, its
\* outcome ignored, and taken out of its chain; it moves to the LRU front.
Unhashed(s) == IF s \in valid THEN hash_remove(chain, s, blk[s]) ELSE chain

claim(s, b, wok) ==
  /\ IsTail(s)
  /\ flush_slot(s, wok)
  /\ lru_touch(s)
  /\ chain' = hash_insert(Unhashed(s), s, b)
  /\ blk' = [blk EXCEPT ![s] = b]

\* fill on a miss; a failed device read takes the slot out of the chain again.
FillOk(s, b, wok) ==
  /\ claim(s, b, wok)
  /\ valid' = valid \cup {s}
  /\ dirty' = dirty \ {s}
  /\ data' = [data EXCEPT ![s] = disk'[b]]

FillFailed_LeftInChain(s, wok) ==
  /\ claim(s, 0, wok)
  /\ valid' = valid \ {s}
  /\ dirty' = dirty \ {s}
  /\ UNCHANGED data

FillFailed(s, wok) ==
  /\ IsTail(s)
  /\ flush_slot(s, wok)
  /\ lru_touch(s)
  /\ chain' = Unhashed(s)
  /\ blk' = [blk EXCEPT ![s] = 0]
  /\ valid' = valid \ {s}
  /\ dirty' = dirty \ {s}
  /\ UNCHANGED data

----------------------------------------------------------------------------
EmptyCache ==
  /\ valid = {} /\ dirty = {}
  /\ blk = [s \in Slots |-> 0]
  /\ chain = [k \in Buckets |-> {}]
  /\ pos = [s \in Slots |-> NSlots + 1 - s]

NoCall ==
  /\ pc = "idle"
  /\ base = 0 /\ step = 0 /\ runAt = 0 /\ runLeft = 0
  /\ syncAt = 1 /\ syncBad = {} /\ closing = FALSE

\* bcache_create on a device with arbitrary contents.
Init ==
  /\ disk \in [Blocks -> Values]
  /\ data \in [Slots -> Values]
  /\ EmptyCache /\ NoCall
  /\ reply = Store!NoReply

\* Where a finished bcache_read goes: back to the run it is part of, if any.
Continue == pc' = IF runLeft' > 0 THEN "run" ELSE "idle"

ReadHit(b) ==
  /\ \E s \in lookup(b) : /\ lru_touch(s)
                          /\ reply' = Store!Data([c \in Blocks |-> data[s]], {b})
  /\ Continue
  /\ UNCHANGED <<disk, valid, dirty, blk, data, chain, base, step>>

ReadMiss(b, wok) ==
  /\ lookup(b) = {}
  /\ \E s \in Slots : FillOk(s, b, wok)
  /\ reply' = Store!Data(disk', {b})
  /\ pc' = "readahead" /\ base' = b /\ step' = 1

ReadFailed(b, wok) ==
  /\ lookup(b) = {}
  /\ \E s \in Slots : FillFailed(s, wok)
  /\ reply' = Store!Status("error")
  /\ pc' = "idle"
  /\ UNCHANGED <<base, step>>

bcache_read(b) ==
  /\ pc = "idle"
  /\ UNCHANGED <<runAt, runLeft, syncAt, syncBad, closing>>
  /\ \/ ReadHit(b)
     \/ TRUE \in ReadOk /\ \E wok \in EvictOk : ReadMiss(b, wok)
     \/ FALSE \in ReadOk /\ \E wok \in EvictOk : ReadFailed(b, wok)

\* readahead, one block at a time; it stops at the end of the device, at a
\* dirty victim and at a failed read, and skips what is resident.
Next_ == base + step
CanPrefetch == step <= ReadAhead /\ Next_ < NBlocks

ReadaheadSkip ==
  /\ pc = "readahead" /\ CanPrefetch /\ lookup(Next_) # {}
  /\ step' = step + 1
  /\ reply' = Store!NoReply
  /\ UNCHANGED <<disk, cacheVars, pc, base, runAt, runLeft, syncAt, syncBad, closing>>

ReadaheadFill ==
  /\ pc = "readahead" /\ CanPrefetch /\ lookup(Next_) = {}
  /\ \A s \in Slots : IsTail(s) => ~NeedsFlush(s)
  /\ TRUE \in ReadOk
  /\ \E s \in Slots : FillOk(s, Next_, TRUE)
  /\ step' = step + 1
  /\ reply' = Store!NoReply
  /\ UNCHANGED <<pc, base, runAt, runLeft, syncAt, syncBad, closing>>

ReadaheadFailed ==
  /\ pc = "readahead" /\ CanPrefetch /\ lookup(Next_) = {}
  /\ \A s \in Slots : IsTail(s) => ~NeedsFlush(s)
  /\ FALSE \in ReadOk
  /\ \E s \in Slots : FillFailed(s, TRUE)
  /\ reply' = Store!NoReply
  /\ base' = 0 /\ step' = 0
  /\ UNCHANGED <<runAt, runLeft, syncAt, syncBad, closing>>
  /\ Continue

ReadaheadEnd ==
  /\ pc = "readahead"
  /\ \/ ~CanPrefetch
     \/ lookup(Next_) = {} /\ \E s \in Slots : IsTail(s) /\ NeedsFlush(s)
  /\ reply' = Store!NoReply
  /\ base' = 0 /\ step' = 0
  /\ UNCHANGED <<disk, cacheVars, runAt, runLeft, syncAt, syncBad, closing>>
  /\ Continue

\* bcache_write never reads the device; a miss claims a slot.
bcache_write(b, v) ==
  /\ pc = "idle"
  /\ reply' = Store!Status("ok")
  /\ UNCHANGED <<pc, callVars>>
  /\ \/ \E s \in lookup(b) :
          /\ lru_touch(s)
          /\ data' = [data EXCEPT ![s] = v]
          /\ dirty' = dirty \cup {s}
          /\ UNCHANGED <<disk, valid, blk, chain>>
     \/ /\ lookup(b) = {}
        /\ \E s \in Slots, wok \in EvictOk :
             /\ claim(s, b, wok)
             /\ valid' = valid \cup {s}
             /\ data' = [data EXCEPT ![s] = v]
             /\ dirty' = dirty \cup {s}

\* bcache_read_run: one device read when nothing of the run is resident, else
\* block by block.
Run(b, n) == b .. b + n - 1

ReadRunFast_AlwaysRaw(b, n) ==
  /\ pc = "idle"
  /\ reply' = Store!Data(disk, Run(b, n))
  /\ UNCHANGED <<disk, cacheVars, pc, callVars>>

ReadRunFast(b, n) ==
  /\ pc = "idle"
  /\ \A c \in Run(b, n) : lookup(c) = {}
  /\ \/ TRUE \in ReadOk /\ reply' = Store!Data(disk, Run(b, n))
     \/ FALSE \in ReadOk /\ reply' = Store!Status("error")
  /\ UNCHANGED <<disk, cacheVars, pc, callVars>>

ReadRunSlow(b, n) ==
  /\ pc = "idle"
  /\ \E c \in Run(b, n) : lookup(c) # {}
  /\ pc' = "run" /\ runAt' = b /\ runLeft' = n
  /\ reply' = Store!NoReply
  /\ UNCHANGED <<disk, cacheVars, base, step, syncAt, syncBad, closing>>

RunStep ==
  /\ pc = "run"
  /\ UNCHANGED <<syncAt, syncBad, closing>>
  /\ \/ /\ runLeft' = runLeft - 1
        /\ runAt' = IF runLeft = 1 THEN 0 ELSE runAt + 1
        /\ \/ ReadHit(runAt)
           \/ TRUE \in ReadOk /\ \E wok \in EvictOk : ReadMiss(runAt, wok)
     \/ /\ runAt' = 0 /\ runLeft' = 0
        /\ FALSE \in ReadOk /\ \E wok \in EvictOk : ReadFailed(runAt, wok)

\* bcache_sync: every slot in turn, going on after a failure.
bcache_sync(destroy) ==
  /\ pc = "idle"
  /\ pc' = "sync" /\ syncAt' = 1 /\ syncBad' = {} /\ closing' = destroy
  /\ reply' = Store!NoReply
  /\ UNCHANGED <<disk, cacheVars, base, step, runAt, runLeft>>

SyncStep_ClearsOnError(ok) ==
  /\ pc = "sync" /\ syncAt <= NSlots
  /\ flush_slot(syncAt, ok)
  /\ dirty' = dirty \ {syncAt}
  /\ syncAt' = syncAt + 1
  /\ reply' = Store!NoReply
  /\ UNCHANGED <<valid, blk, data, chain, pos, pc, base, step, runAt, runLeft, syncBad, closing>>

SyncStep(ok) ==
  /\ pc = "sync" /\ syncAt <= NSlots
  /\ flush_slot(syncAt, ok)
  /\ IF NeedsFlush(syncAt) /\ ~ok
       THEN syncBad' = syncBad \cup {syncAt} /\ UNCHANGED dirty
       ELSE dirty' = dirty \ {syncAt} /\ UNCHANGED syncBad
  /\ syncAt' = syncAt + 1
  /\ reply' = Store!NoReply
  /\ UNCHANGED <<valid, blk, data, chain, pos, pc, base, step, runAt, runLeft, closing>>

SyncEnd ==
  /\ pc = "sync" /\ syncAt > NSlots /\ ~closing
  /\ reply' = Store!Status(IF syncBad = {} THEN "synced" ELSE "error")
  /\ pc' = "idle" /\ syncAt' = 1 /\ syncBad' = {}
  /\ UNCHANGED <<disk, cacheVars, base, step, runAt, runLeft, closing>>

FreshCache ==
  /\ valid' = {} /\ dirty' = {}
  /\ blk' = [s \in Slots |-> 0]
  /\ chain' = [k \in Buckets |-> {}]
  /\ pos' = [s \in Slots |-> NSlots + 1 - s]
  /\ pc' = "idle"
  /\ base' = 0 /\ step' = 0 /\ runAt' = 0 /\ runLeft' = 0
  /\ syncAt' = 1 /\ syncBad' = {} /\ closing' = FALSE
  /\ reply' = Store!NoReply
  /\ UNCHANGED <<disk, data>>

\* bcache_destroy after its sync, and the bcache_create of the next mount.
Remount == pc = "sync" /\ syncAt > NSlots /\ closing /\ FreshCache

\* Power loss at any point, and the bcache_create of the next boot.
Crash == FreshCache

\* bcache_forget: written back (the outcome ignored), invalidated, moved to the
\* eviction end.
bcache_forget(b, wok) ==
  /\ pc = "idle"
  /\ \E s \in lookup(b) :
       /\ flush_slot(s, wok)
       /\ chain' = hash_remove(chain, s, b)
       /\ valid' = valid \ {s} /\ dirty' = dirty \ {s}
       /\ lru_move_back(s)
  /\ reply' = Store!Status("ok")
  /\ UNCHANGED <<blk, data, pc, callVars>>

Next ==
  \/ \E b \in Blocks : bcache_read(b)
  \/ ReadaheadSkip \/ ReadaheadFill \/ ReadaheadFailed \/ ReadaheadEnd
  \/ \E b \in Blocks, v \in Values : bcache_write(b, v)
  \/ \E b \in Blocks : \E n \in 1 .. NBlocks - b : ReadRunFast(b, n) \/ ReadRunSlow(b, n)
  \/ RunStep
  \/ \E destroy \in BOOLEAN : bcache_sync(destroy)
  \/ \E ok \in SyncOk : SyncStep(ok)
  \/ SyncEnd \/ Remount \/ Crash
  \/ \E b \in Blocks, wok \in EvictOk : bcache_forget(b, wok)

Spec == Init /\ [][Next]_vars

----------------------------------------------------------------------------
\* Every variable has its type.
TypeOK ==
  /\ disk \in [Blocks -> Values]
  /\ valid \subseteq Slots /\ dirty \subseteq valid
  /\ blk \in [Slots -> Blocks] /\ data \in [Slots -> Values]
  /\ chain \in [Buckets -> SUBSET Slots]
  /\ pos \in [Slots -> Slots]
  /\ pc \in {"idle", "readahead", "run", "sync"}
  /\ base \in Blocks /\ step \in 0 .. ReadAhead + 1
  /\ runAt \in Blocks /\ runLeft \in 0 .. NBlocks
  /\ syncAt \in 1 .. NSlots + 1 /\ syncBad \subseteq dirty
  /\ closing \in BOOLEAN

\* The hash chains and the LRU list index the slots exactly: a slot is in the
\* chain of its block if it is valid and in no chain otherwise, no block has two
\* slots, and every slot has a place of its own in the LRU list.  Evictions,
\* failed fills and forgotten blocks all have to leave it so.
Indexed ==
  /\ \A s \in Slots, k \in Buckets :
       s \in chain[k] <=> s \in valid /\ bucket_of(blk[s]) = k
  /\ \A s, t \in valid : blk[s] = blk[t] => s = t
  /\ \A s, t \in Slots : pos[s] = pos[t] => s = t

\* A clean slot holds what the device holds, so dropping it loses nothing and a
\* run read past the cache is not stale, even after device errors.
CleanMatchesDisk == \A s \in valid \ dirty : data[s] = disk[blk[s]]

\* The loops stay in bounds, and a sync leaves behind it only slots that are
\* clean or that it will report: bcache_sync goes on after a failed write.
LoopsInBounds ==
  /\ pc = "run" => runLeft > 0
  /\ runLeft > 0 => pc \in {"run", "readahead"} /\ runAt + runLeft <= NBlocks
  /\ pc = "readahead" => step > 0
  /\ pc # "sync" => syncBad = {} /\ closing = FALSE
  /\ pc = "sync" => \A s \in Slots : s < syncAt => (s \in dirty <=> s \in syncBad)
  /\ \A s \in syncBad : s < syncAt

\* Read-ahead is no use if it pushes out the block that was asked for: with more
\* slots than READAHEAD, that block outlives its read-ahead.
ReadaheadKeepsBlock ==
  pc = "readahead" /\ NSlots > ReadAhead => lookup(base) # {}

\* Speculation never writes to the device (the comment on readahead).
SpeculationNeverWrites == [][pc = "readahead" => disk' = disk]_vars

\* A slot stops being dirty only when its data is on the device or the machine
\* lost power: what "keeps data if the write fails" (claim) and "the block stays
\* dirty so a later sync can retry it" (bcache_sync) say.
DirtyUntilWritten ==
  [][\A s \in dirty : s \in dirty' \/ disk'[blk[s]] = data[s] \/ FreshCache]_vars

\* The cache keeps the promise of a block store: reads return the last write
\* and a successful sync leaves the device up to date.
StoreSpec == Store!Spec
=============================================================================
