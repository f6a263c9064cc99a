-------------------------- MODULE BlockCacheProofs --------------------------
(***************************************************************************)
(* The block cache's invariant and its refinement of BlockStore, for every *)
(* size of cache and device.                                               *)
(***************************************************************************)
EXTENDS BlockCache, TLAPS

\* The part of the invariant that is about the cache, and the part that is
\* about the call in progress.
CacheOK ==
  /\ disk \in [Blocks -> Values]
  /\ valid \subseteq Slots /\ dirty \subseteq valid
  /\ blk \in [Slots -> Blocks] /\ data \in [Slots -> Values]
  /\ chain \in [Buckets -> SUBSET Slots]
  /\ pos \in [Slots -> Slots]
  /\ Indexed /\ CleanMatchesDisk

CallOK ==
  /\ pc \in {"idle", "readahead", "run", "sync"}
  /\ base \in Blocks /\ step \in 0 .. ReadAhead + 1
  /\ runAt \in Blocks /\ runLeft \in 0 .. NBlocks
  /\ syncAt \in 1 .. NSlots + 1 /\ syncBad \subseteq dirty
  /\ closing \in BOOLEAN
  /\ LoopsInBounds

IInv == CacheOK /\ CallOK

\* The inductive invariant is the checked invariants taken together.
LEMMA IInvMeaning == IInv <=> TypeOK /\ Indexed /\ CleanMatchesDisk /\ LoopsInBounds
  BY Zenon DEF IInv, CacheOK, CallOK, TypeOK

\* bucket_of stays in the bucket array.
LEMMA BucketRange == \A b \in Blocks : bucket_of(b) \in Buckets
  BY SizeAssumption, BucketAssumption DEF bucket_of, Blocks, Buckets

\* With the chains in order, lookup finds exactly the valid slots of a block.
LEMMA LookupExact ==
  ASSUME CacheOK, NEW b \in Blocks
  PROVE  lookup(b) = {s \in valid : blk[s] = b}
  BY BucketRange, Zenon DEF lookup, CacheOK, Indexed

\* lru_touch keeps the list a permutation of the slots.
LEMMA TouchPermutes ==
  ASSUME CacheOK, NEW s \in Slots, lru_touch(s)
  PROVE  /\ pos' \in [Slots -> Slots]
         /\ \A t, u \in Slots : pos'[t] = pos'[u] => t = u
  <1>0. pos \in [Slots -> Slots]
    BY Zenon DEF CacheOK
  <1>1. \A t \in Slots : pos[t] \in Nat /\ pos[t] >= 1 /\ pos[t] <= NSlots
    BY <1>0, SizeAssumption, SMTT(60) DEF Slots
  <1>2. \A t \in Slots : pos'[t] = IF t = s THEN 1
                           ELSE IF pos[t] < pos[s] THEN pos[t] + 1 ELSE pos[t]
    BY Zenon DEF lru_touch
  <1>3. \A t \in Slots : pos'[t] \in Slots
    BY <1>1, <1>2, SizeAssumption DEF Slots
  <1>4. \A t, u \in Slots : pos[t] = pos[u] => t = u
    BY Zenon DEF CacheOK, Indexed
  <1>5. \A t, u \in Slots : pos'[t] = pos'[u] => t = u
    BY <1>1, <1>2, <1>4
  <1>. QED BY <1>3, <1>5, Zenon DEF lru_touch

\* So does the move to the eviction end.
LEMMA MoveBackPermutes ==
  ASSUME CacheOK, NEW s \in Slots, lru_move_back(s)
  PROVE  /\ pos' \in [Slots -> Slots]
         /\ \A t, u \in Slots : pos'[t] = pos'[u] => t = u
  <1>0. pos \in [Slots -> Slots]
    BY Zenon DEF CacheOK
  <1>1. \A t \in Slots : pos[t] \in Nat /\ pos[t] >= 1 /\ pos[t] <= NSlots
    BY <1>0, SizeAssumption, SMTT(60) DEF Slots
  <1>2. \A t \in Slots : pos'[t] = IF t = s THEN NSlots
                           ELSE IF pos[t] > pos[s] THEN pos[t] - 1 ELSE pos[t]
    BY Zenon DEF lru_move_back
  <1>3. \A t \in Slots : pos'[t] \in Slots
    BY <1>1, <1>2, SizeAssumption DEF Slots
  <1>4. \A t, u \in Slots : pos[t] = pos[u] => t = u
    BY Zenon DEF CacheOK, Indexed
  <1>5. \A t, u \in Slots : pos'[t] = pos'[u] => t = u
    BY <1>1, <1>2, <1>4
  <1>. QED BY <1>3, <1>5, Zenon DEF lru_move_back

\* A flush, failed or not, changes at most the block of the slot it flushes.
LEMMA FlushLocal ==
  ASSUME CacheOK, NEW s \in Slots, NEW ok \in BOOLEAN, flush_slot(s, ok)
  PROVE  /\ disk' \in [Blocks -> Values]
         /\ \A b \in Blocks : (b # blk[s] \/ ~NeedsFlush(s)) => disk'[b] = disk[b]
         /\ ok /\ NeedsFlush(s) => disk' = [disk EXCEPT ![blk[s]] = data[s]]
         /\ ~NeedsFlush(s) => disk' = disk
  BY Zenon DEF CacheOK, flush_slot, dev_write_block
\* A slot taken for block b, whose victim is flushed, and given its contents
\* leaves the cache in order, provided b was not resident and the slot is dirty
\* or agrees with the device.
LEMMA PlaceKeepsCache ==
  ASSUME CacheOK, NEW s \in Slots, NEW b \in Blocks, NEW v \in Values,
         NEW wok \in BOOLEAN, lookup(b) = {}, claim(s, b, wok),
         valid' = valid \cup {s}, data' = [data EXCEPT ![s] = v],
         \/ dirty' = dirty \cup {s}
         \/ dirty' = dirty \ {s} /\ v = disk'[b]
  PROVE  CacheOK'
  <1>1. /\ pos' \in [Slots -> Slots]
        /\ \A t, u \in Slots : pos'[t] = pos'[u] => t = u
    BY TouchPermutes, Zenon DEF claim
  <1>2. /\ disk' \in [Blocks -> Values]
        /\ \A c \in Blocks : (c # blk[s] \/ ~NeedsFlush(s)) => disk'[c] = disk[c]
    BY FlushLocal, Zenon DEF claim
  <1>3. blk' = [blk EXCEPT ![s] = b] /\ blk' \in [Slots -> Blocks]
    BY Zenon DEF claim, CacheOK
  <1>4. chain' \in [Buckets -> SUBSET Slots]
    BY BucketRange, Zenon DEF claim, CacheOK, hash_insert, hash_remove, Unhashed
  <1>5. \A t \in valid : blk[t] # b
    BY LookupExact, Zenon DEF CacheOK
  <1>6. ASSUME NEW t \in Slots, NEW k \in Buckets
        PROVE  t \in chain'[k] <=> t \in valid' /\ bucket_of(blk'[t]) = k
    <2>1. t \in Unhashed(s)[k] <=> t \in valid /\ t # s /\ bucket_of(blk[t]) = k
      BY BucketRange, Zenon DEF CacheOK, Indexed, Unhashed, hash_remove
    <2>2. Unhashed(s) \in [Buckets -> SUBSET Slots]
      BY BucketRange, Zenon DEF CacheOK, Unhashed, hash_remove
    <2>3. t \in chain'[k] <=> t \in Unhashed(s)[k] \/ (t = s /\ k = bucket_of(b))
      BY <2>2, BucketRange, Zenon DEF claim, hash_insert
    <2>. QED BY <1>3, <2>1, <2>3, Zenon DEF CacheOK
  <1>7. \A t, u \in valid' : blk'[t] = blk'[u] => t = u
    BY <1>3, <1>5 DEF CacheOK, Indexed
  <1>8. ASSUME NEW t \in valid' \ dirty'
        PROVE  data'[t] = disk'[blk'[t]]
    <2>1. CASE t = s
      BY <2>1, <1>3, Zenon DEF CacheOK
    <2>2. CASE t # s
      <3>1. t \in valid \ dirty /\ blk'[t] = blk[t] /\ data'[t] = data[t]
        BY <2>2, <1>3, Zenon DEF CacheOK
      <3>2. blk[t] # blk[s] \/ ~NeedsFlush(s)
        BY <3>1, <2>2, Zenon DEF CacheOK, Indexed, NeedsFlush
      <3>. QED BY <3>1, <3>2, <1>2, Zenon DEF CacheOK, CleanMatchesDisk
    <2>. QED BY <2>1, <2>2, Zenon
  <1>9. Indexed'
    BY <1>1, <1>6, <1>7, Zenon DEF Indexed, bucket_of
  <1>10. CleanMatchesDisk'
    BY <1>8, Zenon DEF CleanMatchesDisk
  <1>. QED BY <1>1, <1>2, <1>3, <1>4, <1>9, <1>10, Zenon DEF CacheOK

\* A slot given up, flushed or not, and taken out of its chain.
LEMMA DropKeepsCache ==
  ASSUME CacheOK, NEW s \in Slots, NEW wok \in BOOLEAN, flush_slot(s, wok),
         chain' = Unhashed(s), valid' = valid \ {s}, dirty' = dirty \ {s},
         data' = data, blk' \in [Slots -> Blocks],
         \A t \in Slots \ {s} : blk'[t] = blk[t],
         pos' \in [Slots -> Slots], \A t, u \in Slots : pos'[t] = pos'[u] => t = u
  PROVE  CacheOK'
  <1>1. /\ disk' \in [Blocks -> Values]
        /\ \A c \in Blocks : (c # blk[s] \/ ~NeedsFlush(s)) => disk'[c] = disk[c]
    BY FlushLocal, Zenon
  <1>2. chain' \in [Buckets -> SUBSET Slots]
    BY BucketRange, Zenon DEF CacheOK, hash_remove, Unhashed
  <1>3. ASSUME NEW t \in Slots, NEW k \in Buckets
        PROVE  t \in chain'[k] <=> t \in valid' /\ bucket_of(blk'[t]) = k
    BY BucketRange DEF CacheOK, Indexed, Unhashed, hash_remove
  <1>4. \A t \in valid' : t \in valid /\ t # s /\ blk'[t] = blk[t]
    BY Zenon DEF CacheOK
  <1>5. \A t, u \in valid' : blk'[t] = blk'[u] => t = u
    BY <1>4 DEF CacheOK, Indexed
  <1>6. ASSUME NEW t \in valid' \ dirty'
        PROVE  data'[t] = disk'[blk'[t]]
    <2>1. t \in valid \ dirty /\ t # s /\ blk'[t] = blk[t]
      BY <1>4, Zenon
    <2>2. blk[t] # blk[s] \/ ~NeedsFlush(s)
      BY <2>1, Zenon DEF CacheOK, Indexed, NeedsFlush
    <2>. QED BY <2>1, <2>2, <1>1, Zenon DEF CacheOK, CleanMatchesDisk
  <1>7. Indexed'
    BY <1>3, <1>5, Zenon DEF Indexed, bucket_of
  <1>8. CleanMatchesDisk'
    BY <1>6, Zenon DEF CleanMatchesDisk
  <1>. QED BY <1>1, <1>2, <1>7, <1>8, Zenon DEF CacheOK

\* Touching a resident slot leaves the rest of the cache alone.
LEMMA TouchKeepsCache ==
  ASSUME CacheOK, NEW s \in Slots, lru_touch(s),
         UNCHANGED <<disk, valid, dirty, blk, data, chain>>
  PROVE  CacheOK'
  <1>1. /\ pos' \in [Slots -> Slots]
        /\ \A t, u \in Slots : pos'[t] = pos'[u] => t = u
    BY TouchPermutes, Zenon
  <1>2. Indexed' /\ CleanMatchesDisk'
    BY <1>1, Zenon DEF CacheOK, Indexed, CleanMatchesDisk, bucket_of
  <1>. QED BY <1>1, <1>2, Zenon DEF CacheOK

\* fill keeps the cache in order, whether the device read succeeds or not.
LEMMA FillKeepsCache ==
  ASSUME CacheOK, NEW s \in Slots, NEW b \in Blocks, NEW wok \in BOOLEAN,
         \/ lookup(b) = {} /\ FillOk(s, b, wok)
         \/ FillFailed(s, wok)
  PROVE  CacheOK'
  <1>1. CASE lookup(b) = {} /\ FillOk(s, b, wok)
    <2>1. disk'[b] \in Values
      BY <1>1, FlushLocal, Zenon DEF FillOk, claim
    <2>. QED BY <1>1, <2>1, PlaceKeepsCache, Zenon DEF FillOk
  <1>2. CASE FillFailed(s, wok)
    <2>1. /\ pos' \in [Slots -> Slots]
          /\ \A t, u \in Slots : pos'[t] = pos'[u] => t = u
      BY <1>2, TouchPermutes, Zenon DEF FillFailed
    <2>2. 0 \in Blocks
      BY SizeAssumption DEF Blocks
    <2>3. blk' \in [Slots -> Blocks] /\ \A t \in Slots \ {s} : blk'[t] = blk[t]
      BY <1>2, <2>2, Zenon DEF FillFailed, CacheOK
    <2>. QED BY <1>2, <2>1, <2>3, DropKeepsCache, Zenon DEF FillFailed
  <1>. QED BY <1>1, <1>2, Zenon
----------------------------------------------------------------------------
\* The steps of bcache_read, in a call of its own or as part of a run.
LEMMA ReadKeepsCache ==
  ASSUME CacheOK, NEW b \in Blocks,
         \/ ReadHit(b)
         \/ \E wok \in EvictOk : ReadMiss(b, wok)
         \/ \E wok \in EvictOk : ReadFailed(b, wok)
  PROVE  CacheOK'
  <1>1. CASE ReadHit(b)
    <2>1. \A s \in lookup(b) : s \in Slots
      BY LookupExact, Zenon DEF CacheOK
    <2>. QED BY <1>1, <2>1, TouchKeepsCache, Zenon DEF ReadHit
  <1>2. CASE \E wok \in EvictOk : ReadMiss(b, wok)
    BY <1>2, OutcomeAssumption, FillKeepsCache, Zenon DEF ReadMiss
  <1>3. CASE \E wok \in EvictOk : ReadFailed(b, wok)
    BY <1>3, OutcomeAssumption, FillKeepsCache, Zenon DEF ReadFailed
  <1>. QED BY <1>1, <1>2, <1>3, Zenon

\* The mounted, empty cache is in order.
LEMMA EmptyIsOK ==
  ASSUME disk \in [Blocks -> Values], data \in [Slots -> Values], EmptyCache
  PROVE  CacheOK
  <1>1. \A s \in Slots : NSlots + 1 - s \in Slots
    BY SizeAssumption DEF Slots
  <1>2. 0 \in Blocks
    BY SizeAssumption DEF Blocks
  <1>3. \A s, t \in Slots : pos[s] = pos[t] => s = t
    BY SizeAssumption DEF EmptyCache, Slots
  <1>4. pos \in [Slots -> Slots] /\ blk \in [Slots -> Blocks]
    BY <1>1, <1>2, Zenon DEF EmptyCache
  <1>5. Indexed /\ CleanMatchesDisk
    BY <1>3, Zenon DEF EmptyCache, Indexed, CleanMatchesDisk
  <1>. QED BY <1>4, <1>5, Zenon DEF EmptyCache, CacheOK

\* So is the cache of the next mount.
LEMMA FreshIsOK ==
  ASSUME CacheOK, FreshCache
  PROVE  CacheOK' /\ CallOK'
  <1>1. \A s \in Slots : NSlots + 1 - s \in Slots
    BY SizeAssumption DEF Slots
  <1>2. 0 \in Blocks
    BY SizeAssumption DEF Blocks
  <1>3. \A s, t \in Slots : pos'[s] = pos'[t] => s = t
    BY SizeAssumption DEF FreshCache, Slots
  <1>4. pos' \in [Slots -> Slots] /\ blk' \in [Slots -> Blocks]
    BY <1>1, <1>2, Zenon DEF FreshCache
  <1>5. Indexed' /\ CleanMatchesDisk'
    BY <1>3, Zenon DEF FreshCache, Indexed, CleanMatchesDisk
  <1>6. CacheOK'
    BY <1>4, <1>5, Zenon DEF FreshCache, CacheOK
  <1>7. /\ pc' = "idle" /\ base' = 0 /\ step' = 0 /\ runAt' = 0 /\ runLeft' = 0
        /\ syncAt' = 1 /\ syncBad' = {} /\ closing' = FALSE
    BY Zenon DEF FreshCache
  <1>8. LoopsInBounds'
    BY <1>7 DEF LoopsInBounds
  <1>9. 0 \in 0 .. ReadAhead + 1 /\ 0 \in 0 .. NBlocks /\ 1 \in 1 .. NSlots + 1
    BY SizeAssumption
  <1>10. CallOK'
    BY <1>2, <1>7, <1>8, <1>9, Zenon DEF CallOK
  <1>. QED BY <1>6, <1>10, Zenon

\* bcache_create establishes the invariant.
LEMMA InitEstablishes == Init => IInv
  <1>. SUFFICES ASSUME Init PROVE IInv
    BY Zenon
  <1>1. CacheOK
    BY EmptyIsOK, Zenon DEF Init
  <1>2. 0 \in Blocks
    BY SizeAssumption DEF Blocks
  <1>3. LoopsInBounds
    BY DEF Init, NoCall, LoopsInBounds
  <1>4. 0 \in 0 .. ReadAhead + 1 /\ 0 \in 0 .. NBlocks /\ 1 \in 1 .. NSlots + 1
    BY SizeAssumption
  <1>5. CallOK
    BY <1>2, <1>3, <1>4, Zenon DEF Init, NoCall, CallOK
  <1>. QED BY <1>1, <1>5, Zenon DEF IInv

\* A step of the cache, whatever the device answers, keeps the invariant.
LEMMA NextKeeps == IInv /\ [Next]_vars => IInv'
  <1>. SUFFICES ASSUME CacheOK, CallOK, [Next]_vars PROVE CacheOK' /\ CallOK'
    BY Zenon DEF IInv
  <1>1. ASSUME NEW b \in Blocks, bcache_read(b) PROVE CacheOK' /\ CallOK'
    <2>1. CacheOK'
      BY <1>1, ReadKeepsCache, Zenon DEF bcache_read
    <2>2. pc = "idle" /\ UNCHANGED <<runAt, runLeft, syncAt, syncBad, closing>> /\ syncBad = {}
      BY <1>1, Zenon DEF bcache_read, CallOK, LoopsInBounds
    <2>3. \/ pc' = "idle" /\ UNCHANGED <<base, step>>
          \/ pc' = "readahead" /\ base' = b /\ step' = 1
      BY <1>1, <2>2, Zenon DEF bcache_read, ReadHit, ReadMiss, ReadFailed, Continue, CallOK, LoopsInBounds
    <2>4. CallOK'
      BY <2>2, <2>3, SizeAssumption DEF CallOK, LoopsInBounds, Blocks
    <2>. QED BY <2>1, <2>4, Zenon
  <1>2. CASE ReadaheadSkip
    <2>1. CacheOK'
      BY <1>2, Zenon DEF ReadaheadSkip, cacheVars, CacheOK, Indexed, CleanMatchesDisk, bucket_of
    <2>2. CallOK'
      BY <1>2, SizeAssumption DEF ReadaheadSkip, cacheVars, CanPrefetch, CallOK, LoopsInBounds, Blocks
    <2>. QED BY <2>1, <2>2, Zenon
  <1>3. CASE ReadaheadFill
    <2>1. Next_ \in Blocks
      BY <1>3, SizeAssumption DEF ReadaheadFill, CanPrefetch, Next_, CallOK, Blocks
    <2>2. CacheOK'
      BY <1>3, <2>1, FillKeepsCache, Zenon DEF ReadaheadFill
    <2>3. CallOK'
      BY <1>3, SizeAssumption DEF ReadaheadFill, CanPrefetch, CallOK, LoopsInBounds, Blocks
    <2>. QED BY <2>2, <2>3, Zenon
  <1>4. CASE ReadaheadFailed
    <2>1. Next_ \in Blocks
      BY <1>4, SizeAssumption DEF ReadaheadFailed, CanPrefetch, Next_, CallOK, Blocks
    <2>2. CacheOK'
      BY <1>4, <2>1, FillKeepsCache, Zenon DEF ReadaheadFailed
    <2>3. CallOK'
      BY <1>4, SizeAssumption DEF ReadaheadFailed, Continue, CallOK, LoopsInBounds, Blocks
    <2>. QED BY <2>2, <2>3, Zenon
  <1>5. CASE ReadaheadEnd
    <2>1. CacheOK'
      BY <1>5, Zenon DEF ReadaheadEnd, cacheVars, CacheOK, Indexed, CleanMatchesDisk, bucket_of
    <2>2. CallOK'
      BY <1>5, SizeAssumption DEF ReadaheadEnd, Continue, cacheVars, CallOK, LoopsInBounds, Blocks
    <2>. QED BY <2>1, <2>2, Zenon
  <1>6. ASSUME NEW b \in Blocks, NEW v \in Values, bcache_write(b, v)
        PROVE  CacheOK' /\ CallOK'
    <2>1. ASSUME NEW s \in lookup(b), lru_touch(s), data' = [data EXCEPT ![s] = v],
                 dirty' = dirty \cup {s}, UNCHANGED <<disk, valid, blk, chain>>
          PROVE  CacheOK'
      <3>1. s \in valid /\ s \in Slots
        BY LookupExact, <2>1, Zenon DEF CacheOK
      <3>2. /\ pos' \in [Slots -> Slots]
            /\ \A t, u \in Slots : pos'[t] = pos'[u] => t = u
        BY <2>1, <3>1, TouchPermutes, Zenon
      <3>3. Indexed'
        BY <2>1, <3>2, Zenon DEF CacheOK, Indexed, bucket_of
      <3>4. CleanMatchesDisk'
        BY <2>1, SMTT(60) DEF CacheOK, CleanMatchesDisk
      <3>. QED BY <2>1, <3>1, <3>2, <3>3, <3>4, Zenon DEF CacheOK
    <2>2. CacheOK'
      BY <1>6, <2>1, PlaceKeepsCache, OutcomeAssumption, Zenon DEF bcache_write
    <2>3. pc = "idle" /\ UNCHANGED <<pc, callVars>>
      BY <1>6, Zenon DEF bcache_write
    <2>4. CallOK'
      BY <2>3, Zenon DEF callVars, CallOK, LoopsInBounds
    <2>. QED BY <2>2, <2>4, Zenon
  <1>7. ASSUME NEW b \in Blocks, NEW n \in 1 .. NBlocks - b, ReadRunFast(b, n)
        PROVE  CacheOK' /\ CallOK'
    BY <1>7, Zenon DEF ReadRunFast, cacheVars, callVars, CacheOK, Indexed, CleanMatchesDisk,
                bucket_of, CallOK, LoopsInBounds
  <1>8. ASSUME NEW b \in Blocks, NEW n \in 1 .. NBlocks - b, ReadRunSlow(b, n)
        PROVE  CacheOK' /\ CallOK'
    <2>1. CacheOK'
      BY <1>8, Zenon DEF ReadRunSlow, cacheVars, CacheOK, Indexed, CleanMatchesDisk, bucket_of
    <2>2. CallOK'
      BY <1>8, SizeAssumption DEF ReadRunSlow, cacheVars, CallOK, LoopsInBounds, Blocks
    <2>. QED BY <2>1, <2>2, Zenon
  <1>9. CASE RunStep
    <2>1. CacheOK'
      BY <1>9, ReadKeepsCache, Zenon DEF RunStep, CallOK
    <2>2. /\ pc = "run" /\ UNCHANGED <<syncAt, syncBad, closing>>
          /\ syncBad = {} /\ closing = FALSE
      BY <1>9, Zenon DEF RunStep, CallOK, LoopsInBounds
    <2>3. \/ /\ runLeft' = runLeft - 1 /\ runAt' = (IF runLeft = 1 THEN 0 ELSE runAt + 1)
             /\ \/ pc' = (IF runLeft' > 0 THEN "run" ELSE "idle") /\ UNCHANGED <<base, step>>
                \/ pc' = "readahead" /\ base' = runAt /\ step' = 1
          \/ runAt' = 0 /\ runLeft' = 0 /\ pc' = "idle" /\ UNCHANGED <<base, step>>
      BY <1>9, Zenon DEF RunStep, ReadHit, ReadMiss, ReadFailed, Continue
    <2>4. CallOK'
      BY <2>2, <2>3, SizeAssumption DEF CallOK, LoopsInBounds, Blocks
    <2>. QED BY <2>1, <2>4, Zenon
  <1>10. ASSUME NEW destroy \in BOOLEAN, bcache_sync(destroy) PROVE CacheOK' /\ CallOK'
    <2>1. CacheOK'
      BY <1>10, Zenon DEF bcache_sync, cacheVars, CacheOK, Indexed, CleanMatchesDisk, bucket_of
    <2>2. CallOK'
      BY <1>10, SizeAssumption DEF bcache_sync, cacheVars, CallOK, LoopsInBounds, Slots
    <2>. QED BY <2>1, <2>2, Zenon
  <1>11. ASSUME NEW ok \in SyncOk, SyncStep(ok) PROVE CacheOK' /\ CallOK'
    <2>1. ok \in BOOLEAN /\ syncAt \in Slots
      BY <1>11, OutcomeAssumption, SizeAssumption DEF SyncStep, CallOK, Slots
    <2>2. /\ disk' \in [Blocks -> Values]
          /\ \A b \in Blocks : (b # blk[syncAt] \/ ~NeedsFlush(syncAt)) => disk'[b] = disk[b]
          /\ ok /\ NeedsFlush(syncAt) => disk' = [disk EXCEPT ![blk[syncAt]] = data[syncAt]]
          /\ ~NeedsFlush(syncAt) => disk' = disk
      BY <1>11, <2>1, FlushLocal, Zenon DEF SyncStep
    <2>3. UNCHANGED <<valid, blk, data, chain, pos>> /\ dirty' \subseteq dirty
      BY <1>11, Zenon DEF SyncStep
    <2>4. ASSUME NEW s \in valid \ dirty' PROVE data[s] = disk'[blk[s]]
      <3>1. CASE s \in dirty
        <4>1. s = syncAt /\ NeedsFlush(s) /\ ok
          BY <3>1, <1>11, <2>1, <2>4, Zenon DEF SyncStep, NeedsFlush, CacheOK
        <4>. QED BY <4>1, <2>1, <2>2, Zenon DEF CacheOK
      <3>2. CASE s \notin dirty
        <4>1. blk[s] # blk[syncAt] \/ ~NeedsFlush(syncAt)
          BY <3>2, Zenon DEF CacheOK, Indexed, NeedsFlush
        <4>. QED BY <4>1, <3>2, <2>2, Zenon DEF CacheOK, CleanMatchesDisk
      <3>. QED BY <3>1, <3>2, Zenon
    <2>5. Indexed' /\ CleanMatchesDisk'
      BY <2>3, <2>4, Zenon DEF CacheOK, Indexed, CleanMatchesDisk, bucket_of
    <2>6. CacheOK'
      BY <2>2, <2>3, <2>5, Zenon DEF CacheOK
    <2>7. \/ dirty' = dirty /\ syncBad' = syncBad \cup {syncAt} /\ syncAt \in dirty
          \/ dirty' = dirty \ {syncAt} /\ syncBad' = syncBad
      BY <1>11, Zenon DEF SyncStep, NeedsFlush
    <2>8. \A s \in Slots : s < syncAt + 1 <=> s < syncAt \/ s = syncAt
      BY <2>1 DEF Slots
    <2>9. syncAt \notin syncBad
      BY <2>1 DEF CallOK, LoopsInBounds, Slots
    <2>10. /\ pc = "sync" /\ syncAt <= NSlots /\ syncAt' = syncAt + 1
           /\ UNCHANGED <<pc, base, step, runAt, runLeft, closing>>
      BY <1>11, Zenon DEF SyncStep
    <2>11. syncBad' \subseteq dirty'
      BY <2>7, <2>9 DEF CallOK
    <2>12. \A s \in syncBad' : s < syncAt'
      <3>1. syncAt \in Int /\ \A s \in syncBad : s \in Int /\ s < syncAt
        BY SizeAssumption DEF CallOK, LoopsInBounds, CacheOK, Slots
      <3>2. \A s \in syncBad : s < syncAt + 1
        BY <3>1
      <3>3. syncAt < syncAt + 1
        BY <3>1
      <3>. QED BY <2>7, <2>10, <3>2, <3>3, Zenon
    <2>13. \A s \in Slots : s < syncAt' => (s \in dirty' <=> s \in syncBad')
      BY <2>1, <2>7, <2>8, <2>9, <2>10 DEF CallOK, LoopsInBounds, Slots
    <2>14. CallOK'
      BY <2>10, <2>11, <2>12, <2>13, SizeAssumption DEF CallOK, LoopsInBounds
    <2>. QED BY <2>6, <2>14, Zenon
  <1>12. CASE SyncEnd
    <2>1. CacheOK'
      BY <1>12, Zenon DEF SyncEnd, cacheVars, CacheOK, Indexed, CleanMatchesDisk, bucket_of
    <2>2. CallOK'
      BY <1>12, SizeAssumption DEF SyncEnd, cacheVars, CallOK, LoopsInBounds, Slots
    <2>. QED BY <2>1, <2>2, Zenon
  <1>13. CASE Remount
    BY <1>13, FreshIsOK, Zenon DEF Remount
  <1>14. CASE Crash
    BY <1>14, FreshIsOK, Zenon DEF Crash
  <1>15. ASSUME NEW b \in Blocks, NEW wok \in EvictOk, bcache_forget(b, wok)
         PROVE  CacheOK' /\ CallOK'
    <2>1. PICK s \in lookup(b) : /\ flush_slot(s, wok)
                                 /\ chain' = hash_remove(chain, s, b)
                                 /\ valid' = valid \ {s} /\ dirty' = dirty \ {s}
                                 /\ lru_move_back(s)
      BY <1>15, Zenon DEF bcache_forget
    <2>2. s \in Slots /\ s \in valid /\ blk[s] = b /\ wok \in BOOLEAN
      BY LookupExact, OutcomeAssumption, Zenon DEF CacheOK
    <2>3. /\ pos' \in [Slots -> Slots]
          /\ \A t, u \in Slots : pos'[t] = pos'[u] => t = u
      BY <2>1, <2>2, MoveBackPermutes, Zenon
    <2>4. chain' = Unhashed(s)
      BY <2>1, <2>2, Zenon DEF Unhashed
    <2>5. data' = data /\ blk' = blk /\ blk \in [Slots -> Blocks]
      BY <1>15, Zenon DEF bcache_forget, CacheOK
    <2>6. CacheOK'
      BY <2>1, <2>2, <2>3, <2>4, <2>5, DropKeepsCache, Zenon
    <2>7. pc = "idle" /\ UNCHANGED <<pc, callVars>>
      BY <1>15, Zenon DEF bcache_forget
    <2>8. CallOK'
      BY <2>7, Zenon DEF callVars, CallOK, LoopsInBounds
    <2>. QED BY <2>6, <2>8, Zenon
  <1>16. CASE UNCHANGED vars
    BY <1>16, Zenon DEF vars, cacheVars, callVars, CacheOK, Indexed, CleanMatchesDisk,
                 bucket_of, CallOK, LoopsInBounds
  <1>. QED
    BY <1>1, <1>2, <1>3, <1>4, <1>5, <1>6, <1>7, <1>8, <1>9, <1>10, <1>11, <1>12,
       <1>13, <1>14, <1>15, <1>16, Zenon DEF Next

\* The invariant holds in every reachable state, whatever the device answers.
THEOREM CacheInvariant == Spec => []IInv
  BY InitEstablishes, NextKeeps, PTL DEF Spec

\* Every variable keeps its type.
THEOREM CacheTypes == Spec => []TypeOK
  <1>1. IInv => TypeOK
    BY IInvMeaning, Zenon
  <1>. QED BY <1>1, CacheInvariant, PTL

\* The hash chains and the LRU list index the slots exactly.
THEOREM CacheIndexed == Spec => []Indexed
  <1>1. IInv => Indexed
    BY IInvMeaning, Zenon
  <1>. QED BY <1>1, CacheInvariant, PTL

\* A clean slot matches the device, even after device errors.
THEOREM CacheClean == Spec => []CleanMatchesDisk
  <1>1. IInv => CleanMatchesDisk
    BY IInvMeaning, Zenon
  <1>. QED BY <1>1, CacheInvariant, PTL

\* A sync reports every slot it leaves dirty, and the loops stay in bounds.
THEOREM CacheLoops == Spec => []LoopsInBounds
  <1>1. IInv => LoopsInBounds
    BY IInvMeaning, Zenon
  <1>. QED BY <1>1, CacheInvariant, PTL

\* Read-ahead never writes to the device: its fills take clean victims only.
THEOREM SpeculationTheorem == Spec => SpeculationNeverWrites
  <1>1. [Next]_vars => [pc = "readahead" => disk' = disk]_vars
    <2>. SUFFICES ASSUME Next, pc = "readahead" PROVE disk' = disk
      BY Zenon
    <2>1. ASSUME NEW s \in Slots, IsTail(s) => ~NeedsFlush(s),
                 FillOk(s, Next_, TRUE) \/ FillFailed(s, TRUE)
          PROVE  disk' = disk
      BY <2>1, Zenon DEF FillOk, FillFailed, claim, flush_slot
    <2>2. CASE ReadaheadFill \/ ReadaheadFailed
      BY <2>1, <2>2, Zenon DEF ReadaheadFill, ReadaheadFailed
    <2>3. CASE ReadaheadSkip \/ ReadaheadEnd \/ FreshCache
      BY <2>3, Zenon DEF ReadaheadSkip, ReadaheadEnd, FreshCache
    <2>. QED BY <2>2, <2>3, Zenon DEF Next, bcache_read, bcache_write, ReadRunFast, ReadRunSlow,
                RunStep, bcache_sync, SyncStep, SyncEnd, Remount, Crash, bcache_forget
  <1>. QED BY <1>1, PTL DEF Spec, SpeculationNeverWrites

\* The block that was asked for is at most as far down the LRU list as blocks were
\* fetched since, so the tail that read-ahead claims is another slot.
Near == \E s \in valid : blk[s] = base /\ pos[s] <= step
KeepInv == pc = "readahead" /\ NSlots > ReadAhead => Near

\* A miss puts its slot at the head of the list, and read-ahead moves it down by at
\* most one place for every block it fetches.
LEMMA KeepStep == CacheOK /\ CallOK /\ KeepInv /\ [Next]_vars => KeepInv'
  <1>. SUFFICES ASSUME CacheOK, CallOK, KeepInv, [Next]_vars, pc' = "readahead", NSlots > ReadAhead
                PROVE  Near'
    BY Zenon DEF KeepInv
  <1>1. ASSUME NEW b \in Blocks, NEW wok, ReadMiss(b, wok) PROVE Near'
    <2>1. PICK s \in Slots : FillOk(s, b, wok)
      BY <1>1, Zenon DEF ReadMiss
    <2>2. /\ valid' = valid \cup {s} /\ blk' = [blk EXCEPT ![s] = b] /\ lru_touch(s)
          /\ base' = b /\ step' = 1 /\ blk \in [Slots -> Blocks]
      BY <1>1, <2>1, Zenon DEF ReadMiss, FillOk, claim, CacheOK
    <2>3. s \in valid' /\ blk'[s] = b /\ pos'[s] = 1
      BY <2>2, Zenon DEF lru_touch
    <2>4. 1 <= 1
      OBVIOUS
    <2>. QED BY <2>2, <2>3, <2>4, Zenon DEF Near
  <1>2. CASE ReadaheadSkip
    <2>1. PICK s \in valid : blk[s] = base /\ pos[s] <= step
      BY <1>2, Zenon DEF ReadaheadSkip, KeepInv, Near
    <2>2. pos[s] \in Nat /\ step \in Nat
      BY <2>1, SizeAssumption DEF CacheOK, CallOK, Slots
    <2>3. pos[s] <= step + 1
      BY <2>1, <2>2
    <2>. QED BY <1>2, <2>1, <2>3, Zenon DEF ReadaheadSkip, cacheVars, Near
  <1>3. CASE ReadaheadFill
    <2>1. PICK s \in valid : blk[s] = base /\ pos[s] <= step
      BY <1>3, Zenon DEF ReadaheadFill, KeepInv, Near
    <2>2. PICK t \in Slots : FillOk(t, Next_, TRUE)
      BY <1>3, Zenon DEF ReadaheadFill
    <2>3. /\ pos[s] \in Nat /\ step \in Nat /\ NSlots \in Nat /\ ReadAhead \in Nat
          /\ s \in Slots /\ pos[t] = NSlots /\ step <= ReadAhead
      BY <1>3, <2>1, <2>2, SizeAssumption DEF CacheOK, CallOK, Slots, FillOk, claim, IsTail,
         ReadaheadFill, CanPrefetch
    <2>4. pos[s] < pos[t] /\ s # t /\ pos[s] + 1 <= step + 1
      BY <2>1, <2>3
    <2>5. s \in valid' /\ blk'[s] = base /\ pos'[s] = pos[s] + 1
      BY <2>1, <2>2, <2>3, <2>4, Zenon DEF FillOk, claim, lru_touch, CacheOK
    <2>. QED BY <1>3, <2>4, <2>5, Zenon DEF ReadaheadFill, Near
  <1>4. CASE ReadaheadFailed \/ ReadaheadEnd
    BY <1>4, Zenon DEF ReadaheadFailed, ReadaheadEnd, Continue
  <1>5. ASSUME NEW b \in Blocks, bcache_read(b) PROVE Near'
    BY <1>1, <1>5, Zenon DEF bcache_read, ReadHit, ReadFailed, Continue
  <1>6. CASE RunStep
    BY <1>1, <1>6, Zenon DEF RunStep, ReadHit, ReadFailed, Continue, CallOK
  <1>7. CASE UNCHANGED vars
    BY <1>7, Zenon DEF vars, cacheVars, callVars, KeepInv, Near
  <1>. QED BY <1>2, <1>3, <1>4, <1>5, <1>6, <1>7, Zenon DEF Next, bcache_write, ReadRunFast,
              ReadRunSlow, bcache_sync, SyncStep, SyncEnd, Remount, Crash, FreshCache, bcache_forget

\* The block bcache_read was asked for is still cached when its read-ahead is done,
\* in every cache with more slots than READAHEAD.
THEOREM ReadaheadTheorem == Spec => []ReadaheadKeepsBlock
  <1>1. Init => KeepInv
    BY Zenon DEF Init, NoCall, KeepInv
  <1>2. IInv /\ KeepInv /\ [Next]_vars => KeepInv'
    BY KeepStep, Zenon DEF IInv
  <1>3. IInv /\ KeepInv => ReadaheadKeepsBlock
    BY LookupExact, Zenon DEF IInv, CallOK, KeepInv, Near, ReadaheadKeepsBlock
  <1>4. Spec => []KeepInv
    BY <1>1, <1>2, CacheInvariant, PTL DEF Spec
  <1>. QED BY <1>3, <1>4, CacheInvariant, PTL

----------------------------------------------------------------------------
(* The refinement.  Contents is the store the file system sees.            *)

\* A resident block is seen through its slot, any other one on the device.
ContentsFacts ==
  /\ Contents \in [Blocks -> Values]
  /\ \A s \in valid : Contents[blk[s]] = data[s]
  /\ \A b \in Blocks : (\A s \in valid : blk[s] # b) => Contents[b] = disk[b]

\* What lookup finds is what the file system sees.
LEMMA ContentsAt == CacheOK => ContentsFacts
  <1>. SUFFICES ASSUME CacheOK PROVE ContentsFacts
    BY Zenon
  <1>1. ASSUME NEW s \in valid PROVE Contents[blk[s]] = data[s]
    <2>1. blk[s] \in Blocks
      BY Zenon DEF CacheOK
    <2>2. lookup(blk[s]) = {s}
      BY <2>1, LookupExact, SMTT(60) DEF CacheOK, Indexed
    <2>. QED BY <2>1, <2>2, Zenon DEF Contents
  <1>2. ASSUME NEW b \in Blocks, \A s \in valid : blk[s] # b PROVE Contents[b] = disk[b]
    BY <1>2, LookupExact, SMTT(60) DEF Contents
  <1>3. ASSUME NEW b \in Blocks PROVE Contents[b] \in Values
    <2>1. CASE \E s \in valid : blk[s] = b
      BY <2>1, <1>1, Zenon DEF CacheOK
    <2>2. CASE \A s \in valid : blk[s] # b
      BY <2>2, <1>2, Zenon DEF CacheOK
    <2>. QED BY <2>1, <2>2, Zenon
  <1>4. Contents \in [Blocks -> Values]
    BY <1>3, Zenon DEF Contents
  <1>. QED BY <1>1, <1>2, <1>4, Zenon DEF ContentsFacts

\* The same of the state after a step.
LEMMA ContentsAtNext == CacheOK' => ContentsFacts'
  BY ContentsAt, PTL

\* A successful flush moves to the device what the store holds there.
LEMMA FlushWritesBack ==
  ASSUME CacheOK, NEW s \in Slots, flush_slot(s, TRUE)
  PROVE  /\ disk' = disk \/ (s \in valid /\ disk' = [disk EXCEPT ![blk[s]] = Contents[blk[s]]])
         /\ s \in valid => disk'[blk[s]] = data[s]
  <1>1. CASE NeedsFlush(s)
    <2>1. s \in valid /\ disk' = [disk EXCEPT ![blk[s]] = data[s]] /\ blk[s] \in Blocks
      BY <1>1, Zenon DEF flush_slot, dev_write_block, NeedsFlush, CacheOK
    <2>. QED BY <2>1, ContentsAt, Zenon DEF CacheOK, ContentsFacts
  <1>2. CASE ~NeedsFlush(s)
    <2>1. disk' = disk
      BY <1>2, Zenon DEF flush_slot
    <2>. QED BY <1>2, <2>1, Zenon DEF NeedsFlush, CacheOK, CleanMatchesDisk
  <1>. QED BY <1>1, <1>2, Zenon

\* Placing block b with contents v changes the store there only.
LEMMA PlaceStores ==
  ASSUME CacheOK, CacheOK', NEW s \in Slots, NEW b \in Blocks, NEW v \in Values,
         lookup(b) = {}, claim(s, b, TRUE),
         valid' = valid \cup {s}, data' = [data EXCEPT ![s] = v]
  PROVE  /\ Contents' = [Contents EXCEPT ![b] = v]
         /\ \/ disk' = disk
            \/ /\ s \in valid /\ blk[s] \in Blocks /\ blk[s] # b
               /\ disk' = [disk EXCEPT ![blk[s]] = Contents[blk[s]]]
         /\ disk'[b] = disk[b] /\ Contents[b] = disk[b]
  <1>1. \A t \in valid : blk[t] # b
    BY LookupExact DEF CacheOK
  <1>2. /\ disk' = disk \/ (s \in valid /\ disk' = [disk EXCEPT ![blk[s]] = Contents[blk[s]]])
        /\ s \in valid => disk'[blk[s]] = data[s]
    BY FlushWritesBack, Zenon DEF claim
  <1>3. blk' = [blk EXCEPT ![s] = b] /\ blk'[s] = b /\ data'[s] = v
    BY Zenon DEF claim, CacheOK
  <1>4. Contents'[b] = v
    BY <1>3, ContentsAtNext, SMTT(60) DEF ContentsFacts
  <1>5. ASSUME NEW c \in Blocks, c # b PROVE Contents'[c] = Contents[c]
    <2>1. CASE \E t \in valid : t # s /\ blk[t] = c
      <3>1. PICK t \in valid : t # s /\ blk[t] = c
        BY <2>1, Zenon
      <3>2. t \in valid' /\ blk'[t] = c /\ data'[t] = data[t]
        BY <3>1, <1>3, Zenon DEF CacheOK
      <3>3. Contents'[c] = data'[t]
        BY <3>2, ContentsAtNext, Zenon DEF ContentsFacts
      <3>. QED BY <3>1, <3>2, <3>3, ContentsAt, Zenon DEF ContentsFacts
    <2>2. CASE s \in valid /\ blk[s] = c
      <3>1. \A t \in valid' : blk'[t] # c
        BY <2>2, <1>3, <1>5, Zenon DEF CacheOK, Indexed
      <3>2. Contents'[c] = disk'[c]
        BY <3>1, ContentsAtNext, SMTT(60) DEF ContentsFacts
      <3>. QED BY <2>2, <3>2, <1>2, ContentsAt, Zenon DEF ContentsFacts
    <2>3. CASE \A t \in valid : blk[t] # c
      <3>1. \A t \in valid' : blk'[t] # c
        BY <2>3, <1>3, <1>5, SMTT(60) DEF CacheOK
      <3>2. Contents'[c] = disk'[c] /\ Contents[c] = disk[c]
        BY <3>1, <2>3, ContentsAt, ContentsAtNext, Zenon DEF ContentsFacts
      <3>3. disk'[c] = disk[c]
        BY <1>2, <2>3, SMTT(60) DEF CacheOK
      <3>. QED BY <3>2, <3>3, Zenon
    <2>. QED BY <2>1, <2>2, <2>3, SMTT(60)
  <1>6. Contents' = [Contents EXCEPT ![b] = v]
    BY <1>4, <1>5, ContentsAt, ContentsAtNext, Zenon DEF ContentsFacts
  <1>7. disk'[b] = disk[b]
    BY <1>1, <1>2, SMTT(60) DEF CacheOK
  <1>8. Contents[b] = disk[b]
    BY <1>1, ContentsAt, Zenon DEF ContentsFacts
  <1>. QED BY <1>1, <1>2, <1>6, <1>7, <1>8, Zenon DEF CacheOK

\* Dropping a flushed slot changes nothing the file system sees.
LEMMA DropStores ==
  ASSUME CacheOK, CacheOK', NEW s \in Slots, flush_slot(s, TRUE),
         valid' = valid \ {s}, data' = data,
         \A t \in Slots \ {s} : blk'[t] = blk[t]
  PROVE  /\ Contents' = Contents
         /\ \/ disk' = disk
            \/ /\ s \in valid /\ blk[s] \in Blocks
               /\ disk' = [disk EXCEPT ![blk[s]] = Contents[blk[s]]]
  <1>1. /\ disk' = disk \/ (s \in valid /\ disk' = [disk EXCEPT ![blk[s]] = Contents[blk[s]]])
        /\ s \in valid => disk'[blk[s]] = data[s]
    BY FlushWritesBack, Zenon
  <1>2. ASSUME NEW c \in Blocks PROVE Contents'[c] = Contents[c]
    <2>1. CASE \E t \in valid : t # s /\ blk[t] = c
      <3>1. PICK t \in valid : t # s /\ blk[t] = c
        BY <2>1, Zenon
      <3>2. t \in valid' /\ blk'[t] = c /\ data'[t] = data[t]
        BY <3>1, Zenon DEF CacheOK
      <3>3. Contents'[c] = data'[t]
        BY <3>2, ContentsAtNext, SMTT(60) DEF ContentsFacts
      <3>. QED BY <3>1, <3>2, <3>3, ContentsAt, Zenon DEF ContentsFacts
    <2>2. CASE s \in valid /\ blk[s] = c
      <3>1. \A t \in valid' : blk'[t] # c
        BY <2>2, SMTT(60) DEF CacheOK, Indexed
      <3>2. Contents'[c] = disk'[c]
        BY <3>1, ContentsAtNext, Zenon DEF ContentsFacts
      <3>. QED BY <2>2, <3>2, <1>1, ContentsAt, SMTT(60) DEF ContentsFacts
    <2>3. CASE \A t \in valid : blk[t] # c
      <3>1. \A t \in valid' : blk'[t] # c
        BY <2>3, SMTT(60) DEF CacheOK
      <3>2. Contents'[c] = disk'[c] /\ Contents[c] = disk[c]
        BY <3>1, <2>3, ContentsAt, ContentsAtNext, Zenon DEF ContentsFacts
      <3>3. disk'[c] = disk[c]
        BY <1>1, <2>3, SMTT(60) DEF CacheOK
      <3>. QED BY <3>2, <3>3, ZenonT(60)
    <2>. QED BY <2>1, <2>2, <2>3, Zenon
  <1>3. Contents' = Contents
    BY <1>2, ContentsAt, ContentsAtNext DEF ContentsFacts
  <1>. QED BY <1>1, <1>3, Zenon DEF CacheOK

\* Steps that leave the slots and the device alone leave the store alone.
LEMMA StillStores ==
  ASSUME UNCHANGED <<disk, valid, blk, data, chain>>
  PROVE  Contents' = Contents
  BY DEF Contents, lookup, bucket_of
\* Every step of a cache whose victims' write-backs succeed is a step of the
\* block store, or leaves it alone.
LEMMA StepRefines ==
  ASSUME EvictOk \subseteq {TRUE}, IInv, IInv', [Next]_vars
  PROVE  [Store!Next]_(Store!storeVars)
  <1>. USE DEF IInv
  <1>a. ASSUME NEW r, Contents' = Contents, reply' = r,
               r \in {Store!NoReply, Store!Status("ok"), Store!Status("error")},
               \/ disk' = disk
               \/ \E c \in Blocks : disk' = [disk EXCEPT ![c] = Contents[c]]
        PROVE  Store!Next
    <2>1. CASE disk' = disk
      BY <1>a, <2>1, Zenon DEF Store!Next, Store!Answer
    <2>2. CASE \E c \in Blocks : disk' = [disk EXCEPT ![c] = Contents[c]]
      BY <1>a, <2>2, Zenon DEF Store!Next, Store!WriteBack
    <2>. QED BY <1>a, <2>1, <2>2, Zenon
  <1>b. ASSUME NEW b \in Blocks, ReadHit(b) PROVE Store!Next
    <2>1. PICK s \in lookup(b) : reply' = Store!Data([c \in Blocks |-> data[s]], {b})
      BY <1>b, Zenon DEF ReadHit
    <2>2. Contents[b] = data[s]
      BY LookupExact, ContentsAt, Zenon DEF ContentsFacts
    <2>3. reply' = Store!Data(Contents, {b})
      BY <2>1, <2>2, Zenon DEF Store!Data
    <2>4. Contents' = Contents /\ disk' = disk
      BY <1>b, StillStores, Zenon DEF ReadHit
    <2>5. Store!Read({b})
      BY <2>3, <2>4, Zenon DEF Store!Read
    <2>6. {b} \in SUBSET Blocks
      BY Zenon
    <2>. QED BY <2>5, <2>6, Zenon DEF Store!Next
  <1>c. ASSUME NEW b \in Blocks, NEW wok \in EvictOk, ReadMiss(b, wok) PROVE Store!Next
    <2>1. PICK s \in Slots : FillOk(s, b, TRUE)
      BY <1>c, Zenon DEF ReadMiss
    <2>2. lookup(b) = {} /\ disk'[b] \in Values /\ reply' = Store!Data(disk', {b})
      BY <1>c, Zenon DEF ReadMiss, CacheOK
    <2>3. /\ Contents' = [Contents EXCEPT ![b] = disk'[b]]
          /\ \/ disk' = disk
             \/ /\ s \in valid /\ blk[s] \in Blocks /\ blk[s] # b
                /\ disk' = [disk EXCEPT ![blk[s]] = Contents[blk[s]]]
          /\ disk'[b] = disk[b] /\ Contents[b] = disk[b]
      BY <2>1, <2>2, PlaceStores, ZenonT(60) DEF FillOk
    <2>4. Contents' = Contents
      BY <2>3, ContentsAt, Zenon DEF ContentsFacts
    <2>5. reply' = Store!Data(Contents, {b})
      BY <2>2, <2>3, Zenon DEF Store!Data
    <2>6. CASE disk' = disk
      <3>1. Store!Read({b}) /\ {b} \in SUBSET Blocks
        BY <2>4, <2>5, <2>6, SMTT(60) DEF Store!Read
      <3>. QED BY <3>1, Zenon DEF Store!Next
    <2>7. CASE blk[s] \in Blocks /\ disk' = [disk EXCEPT ![blk[s]] = Contents[blk[s]]]
      <3>1. Store!WriteBack(blk[s])
        BY <2>4, <2>5, <2>7, Zenon DEF Store!WriteBack
      <3>. QED BY <3>1, <2>7, Zenon DEF Store!Next
    <2>. QED BY <2>3, <2>6, <2>7, Zenon
  <1>d. ASSUME NEW s \in Slots, FillFailed(s, TRUE)
        PROVE  /\ Contents' = Contents
               /\ \/ disk' = disk
                  \/ \E c \in Blocks : disk' = [disk EXCEPT ![c] = Contents[c]]
    <2>1. \A t \in Slots \ {s} : blk'[t] = blk[t]
      BY <1>d, Zenon DEF FillFailed, CacheOK
    <2>. QED BY <1>d, <2>1, DropStores, Zenon DEF FillFailed
  <1>e. ASSUME NEW b \in Blocks, NEW wok \in EvictOk, ReadFailed(b, wok) PROVE Store!Next
    <2>1. PICK s \in Slots : FillFailed(s, TRUE)
      BY <1>e, Zenon DEF ReadFailed
    <2>2. reply' = Store!Status("error")
      BY <1>e, Zenon DEF ReadFailed
    <2>. QED BY <2>1, <2>2, <1>a, <1>d, Zenon
  <1>1. ASSUME NEW b \in Blocks, bcache_read(b) PROVE Store!Next
    BY <1>1, <1>b, <1>c, <1>e, Zenon DEF bcache_read
  <1>2. CASE ReadaheadSkip
    <2>1. disk' = disk /\ reply' = Store!NoReply /\ Contents' = Contents
      BY <1>2, StillStores, Zenon DEF ReadaheadSkip, cacheVars
    <2>. QED BY <2>1, <1>a, Zenon
  <1>3. CASE ReadaheadFill
    <2>1. Next_ \in Blocks
      BY <1>3, SizeAssumption DEF ReadaheadFill, CanPrefetch, Next_, CallOK, Blocks
    <2>2. PICK s \in Slots : FillOk(s, Next_, TRUE)
      BY <1>3, ZenonT(60) DEF ReadaheadFill
    <2>3. lookup(Next_) = {} /\ disk'[Next_] \in Values /\ reply' = Store!NoReply
      BY <1>3, <2>1, Zenon DEF ReadaheadFill, CacheOK
    <2>4. /\ Contents' = [Contents EXCEPT ![Next_] = disk'[Next_]]
          /\ \/ disk' = disk
             \/ /\ s \in valid /\ blk[s] \in Blocks /\ blk[s] # Next_
                /\ disk' = [disk EXCEPT ![blk[s]] = Contents[blk[s]]]
          /\ disk'[Next_] = disk[Next_] /\ Contents[Next_] = disk[Next_]
      BY <2>1, <2>2, <2>3, PlaceStores, ZenonT(60) DEF FillOk
    <2>5. Contents' = Contents
      BY <2>4, ContentsAt, Zenon DEF ContentsFacts
    <2>. QED BY <2>3, <2>4, <2>5, <1>a, Zenon
  <1>4. CASE ReadaheadFailed
    <2>1. PICK s \in Slots : FillFailed(s, TRUE)
      BY <1>4, Zenon DEF ReadaheadFailed
    <2>2. reply' = Store!NoReply
      BY <1>4, Zenon DEF ReadaheadFailed
    <2>. QED BY <2>1, <2>2, <1>a, <1>d, Zenon
  <1>5. CASE ReadaheadEnd
    <2>1. disk' = disk /\ reply' = Store!NoReply /\ Contents' = Contents
      BY <1>5, StillStores, Zenon DEF ReadaheadEnd, cacheVars
    <2>. QED BY <2>1, <1>a, Zenon
  <1>6. ASSUME NEW b \in Blocks, NEW v \in Values, bcache_write(b, v) PROVE Store!Next
    <2>1. reply' = Store!Status("ok")
      BY <1>6, Zenon DEF bcache_write
    <2>2. ASSUME NEW s \in lookup(b), data' = [data EXCEPT ![s] = v],
                 UNCHANGED <<disk, valid, blk, chain>>
          PROVE  Store!Next
      <3>1. s \in valid /\ s \in Slots /\ blk[s] = b /\ \A t \in valid : t # s => blk[t] # b
        BY LookupExact, <2>2 DEF CacheOK, Indexed
      <3>2. Contents'[b] = v
        BY <2>2, <3>1, ContentsAtNext DEF ContentsFacts, CacheOK
      <3>3. ASSUME NEW c \in Blocks, c # b PROVE Contents'[c] = Contents[c]
        <4>1. CASE \E t \in valid : blk[t] = c
          <5>1. PICK t \in valid : blk[t] = c
            BY <4>1, Zenon
          <5>2. t \in valid' /\ blk'[t] = c /\ data'[t] = data[t]
            BY <5>1, <3>1, <3>3, <2>2, SMTT(60) DEF CacheOK
          <5>3. Contents'[c] = data'[t]
            BY <5>2, ContentsAtNext, ZenonT(60) DEF ContentsFacts
          <5>. QED BY <5>1, <5>2, <5>3, ContentsAt, Zenon DEF ContentsFacts
        <4>2. CASE \A t \in valid : blk[t] # c
          <5>1. \A t \in valid' : blk'[t] # c
            BY <4>2, <2>2, Zenon
          <5>. QED BY <4>2, <5>1, <2>2, ContentsAt, ContentsAtNext, Zenon DEF ContentsFacts
        <4>. QED BY <4>1, <4>2, Zenon
      <3>4. Contents' = [Contents EXCEPT ![b] = v]
        BY <3>2, <3>3, ContentsAt, ContentsAtNext, Zenon DEF ContentsFacts
      <3>5. Store!Write(b, v)
        BY <2>1, <2>2, <3>4, Zenon DEF Store!Write
      <3>. QED BY <3>5, SMTT(60) DEF Store!Next
    <2>3. ASSUME NEW s \in Slots, lookup(b) = {}, claim(s, b, TRUE),
                 valid' = valid \cup {s}, data' = [data EXCEPT ![s] = v]
          PROVE  Store!Next
      <3>1. /\ Contents' = [Contents EXCEPT ![b] = v]
            /\ \/ disk' = disk
               \/ /\ s \in valid /\ blk[s] \in Blocks /\ blk[s] # b
                  /\ disk' = [disk EXCEPT ![blk[s]] = Contents[blk[s]]]
            /\ disk'[b] = disk[b] /\ Contents[b] = disk[b]
        <4>1. CacheOK /\ CacheOK' /\ s \in Slots /\ b \in Blocks /\ v \in Values
          BY Zenon
        <4>2. /\ lookup(b) = {} /\ claim(s, b, TRUE)
              /\ valid' = valid \cup {s} /\ data' = [data EXCEPT ![s] = v]
          BY <2>3, Zenon
        <4>. QED BY <4>1, <4>2, PlaceStores, Zenon
      <3>2. CASE disk' = disk
        <4>1. Store!Write(b, v)
          BY <2>1, <3>1, <3>2, SMTT(60) DEF Store!Write
        <4>. QED BY <4>1, Zenon DEF Store!Next
      <3>3. CASE /\ blk[s] \in Blocks /\ blk[s] # b
                 /\ disk' = [disk EXCEPT ![blk[s]] = Contents[blk[s]]]
        <4>1. Store!WriteBackAndWrite(blk[s], b, v)
          BY <2>1, <3>1, <3>3, Zenon DEF Store!WriteBackAndWrite
        <4>. QED BY <3>3, <4>1, Zenon DEF Store!Next
      <3>. QED BY <3>1, <3>2, <3>3, Zenon
    <2>. QED BY <1>6, <2>2, <2>3, Zenon DEF bcache_write
  <1>7. ASSUME NEW b \in Blocks, NEW n \in 1 .. NBlocks - b, ReadRunFast(b, n)
        PROVE  Store!Next
    <2>1. Run(b, n) \in SUBSET Blocks
      BY SizeAssumption DEF Run, Blocks
    <2>2. disk' = disk /\ Contents' = Contents
      BY <1>7, StillStores, Zenon DEF ReadRunFast, cacheVars
    <2>3. CASE reply' = Store!Data(disk, Run(b, n))
      <3>1. \A c \in Run(b, n) : Contents[c] = disk[c]
        <4>1. \A c \in Run(b, n) : \A s \in valid : blk[s] # c
          BY <1>7, <2>1, LookupExact, Zenon DEF ReadRunFast
        <4>. QED BY <4>1, <2>1, ContentsAt, Zenon DEF ContentsFacts
      <3>2. Store!Data(disk, Run(b, n)) = Store!Data(Contents, Run(b, n))
        BY <3>1, Zenon DEF Store!Data
      <3>3. Store!Read(Run(b, n))
        BY <2>2, <2>3, <3>2, Zenon DEF Store!Read
      <3>. QED BY <2>1, <3>3, Zenon DEF Store!Next
    <2>4. CASE reply' = Store!Status("error")
      BY <2>2, <2>4, <1>a, Zenon
    <2>. QED BY <1>7, <2>3, <2>4, Zenon DEF ReadRunFast
  <1>8. ASSUME NEW b \in Blocks, NEW n \in 1 .. NBlocks - b, ReadRunSlow(b, n)
        PROVE  Store!Next
    <2>1. disk' = disk /\ reply' = Store!NoReply /\ Contents' = Contents
      BY <1>8, StillStores, Zenon DEF ReadRunSlow, cacheVars
    <2>. QED BY <2>1, <1>a, Zenon
  <1>9. CASE RunStep
    BY <1>9, <1>b, <1>c, <1>e, Zenon DEF RunStep, CallOK
  <1>10. ASSUME NEW destroy \in BOOLEAN, bcache_sync(destroy) PROVE Store!Next
    <2>1. disk' = disk /\ reply' = Store!NoReply /\ Contents' = Contents
      BY <1>10, StillStores, SMTT(60) DEF bcache_sync, cacheVars
    <2>. QED BY <2>1, <1>a, Zenon
  <1>11. ASSUME NEW ok \in SyncOk, SyncStep(ok) PROVE Store!Next
    <2>1. syncAt \in Slots
      BY <1>11, SizeAssumption DEF SyncStep, CallOK, Slots
    <2>2. /\ reply' = Store!NoReply /\ UNCHANGED <<valid, blk, data, chain>>
          /\ flush_slot(syncAt, ok)
      BY <1>11, Zenon DEF SyncStep
    <2>3. CASE disk' = disk
      BY <2>2, <2>3, StillStores, <1>a, Zenon
    <2>4. CASE NeedsFlush(syncAt) /\ disk' = [disk EXCEPT ![blk[syncAt]] = data[syncAt]]
      <3>1. syncAt \in valid /\ blk[syncAt] \in Blocks /\ Contents[blk[syncAt]] = data[syncAt]
        BY <2>1, <2>4, ContentsAt, Zenon DEF NeedsFlush, CacheOK, ContentsFacts
      <3>2. ASSUME NEW c \in Blocks PROVE Contents'[c] = Contents[c]
        <4>1. CASE \E t \in valid : blk[t] = c
          <5>1. PICK t \in valid : blk[t] = c
            BY <4>1, SMTT(60)
          <5>2. t \in valid' /\ blk'[t] = c /\ data'[t] = data[t]
            BY <5>1, <2>2, Zenon
          <5>3. Contents'[c] = data'[t]
            BY <5>2, ContentsAtNext, Zenon DEF ContentsFacts
          <5>. QED BY <5>1, <5>2, <5>3, ContentsAt, Zenon DEF ContentsFacts
        <4>2. CASE \A t \in valid : blk[t] # c
          <5>1. disk'[c] = disk[c]
            BY <4>2, <2>4, <3>1, Zenon DEF CacheOK
          <5>2. \A t \in valid' : blk'[t] # c
            BY <4>2, <2>2, Zenon
          <5>. QED BY <4>2, <5>1, <5>2, ContentsAt, ContentsAtNext, SMTT(60) DEF ContentsFacts
        <4>. QED BY <4>1, <4>2, Zenon
      <3>3. Contents' = Contents
        BY <3>2, ContentsAt, ContentsAtNext DEF ContentsFacts
      <3>4. disk' = [disk EXCEPT ![blk[syncAt]] = Contents[blk[syncAt]]]
        BY <2>4, <3>1, Zenon
      <3>. QED BY <2>2, <3>1, <3>3, <3>4, <1>a, ZenonT(60)
    <2>. QED BY <2>2, <2>3, <2>4, Zenon DEF flush_slot, dev_write_block
  <1>12. CASE SyncEnd
    <2>1. disk' = disk /\ Contents' = Contents
      BY <1>12, StillStores, Zenon DEF SyncEnd, cacheVars
    <2>2. CASE syncBad # {}
      <3>1. reply' = Store!Status("error")
        BY <1>12, <2>2, Zenon DEF SyncEnd
      <3>. QED BY <2>1, <3>1, <1>a, Zenon
    <2>3. CASE syncBad = {}
      <3>1. reply' = Store!Status("synced")
        BY <1>12, <2>3, Zenon DEF SyncEnd
      <3>2. \A s \in Slots : s < syncAt
        BY <1>12, SizeAssumption, SMTT(60) DEF SyncEnd, CallOK, Slots
      <3>3. dirty = {}
        BY <1>12, <2>3, <3>2, Zenon DEF SyncEnd, CallOK, LoopsInBounds, CacheOK
      <3>4. ASSUME NEW c \in Blocks PROVE Contents[c] = disk[c]
        <4>1. CASE \E t \in valid : blk[t] = c
          BY <4>1, <3>3, ContentsAt DEF ContentsFacts, CacheOK, CleanMatchesDisk
        <4>2. CASE \A t \in valid : blk[t] # c
          BY <4>2, ContentsAt, ZenonT(60) DEF ContentsFacts
        <4>. QED BY <4>1, <4>2, Zenon
      <3>5. disk = Contents
        BY <3>4, ContentsAt DEF ContentsFacts, CacheOK
      <3>6. Store!Sync
        BY <2>1, <3>1, <3>5, Zenon DEF Store!Sync
      <3>. QED BY <3>6, Zenon DEF Store!Next
    <2>. QED BY <2>2, <2>3, Zenon
  <1>13. ASSUME FreshCache PROVE Store!Next
    <2>1. valid' = {} /\ disk' = disk /\ reply' = Store!NoReply
      BY <1>13, Zenon DEF FreshCache
    <2>2. \A c \in Blocks : Contents'[c] = disk[c]
      BY <2>1, ContentsAtNext, Zenon DEF ContentsFacts
    <2>3. Contents' = disk
      BY <2>2, ContentsAtNext DEF ContentsFacts, CacheOK
    <2>4. Store!Crash
      BY <2>1, <2>3, Zenon DEF Store!Crash
    <2>. QED BY <2>4, Zenon DEF Store!Next
  <1>14. ASSUME NEW b \in Blocks, NEW wok \in EvictOk, bcache_forget(b, wok) PROVE Store!Next
    <2>1. PICK s \in lookup(b) : flush_slot(s, TRUE) /\ valid' = valid \ {s}
      BY <1>14, ZenonT(60) DEF bcache_forget
    <2>2. s \in Slots /\ data' = data /\ blk' = blk /\ reply' = Store!Status("ok")
      BY <1>14, LookupExact, Zenon DEF bcache_forget, CacheOK
    <2>3. /\ Contents' = Contents
          /\ \/ disk' = disk
             \/ /\ s \in valid /\ blk[s] \in Blocks
                /\ disk' = [disk EXCEPT ![blk[s]] = Contents[blk[s]]]
      BY <2>1, <2>2, DropStores, Zenon
    <2>. QED BY <2>2, <2>3, <1>a, Zenon
  <1>15. CASE UNCHANGED vars
    BY <1>15, StillStores, Zenon DEF vars, cacheVars, Store!storeVars
  <1>. QED
    BY <1>1, <1>2, <1>3, <1>4, <1>5, <1>6, <1>7, <1>8, <1>9, <1>10, <1>11, <1>12,
       <1>13, <1>14, <1>15, Zenon DEF Next, Remount, Crash

\* The block cache implements a block store, for every size of cache and
\* device, as long as the write-backs of victims succeed.
THEOREM CacheRefinesStore == ASSUME EvictOk \subseteq {TRUE} PROVE Spec => StoreSpec
  <1>1. Init => Store!Init
    <2>. SUFFICES ASSUME Init PROVE Store!Init
      BY Zenon
    <2>1. CacheOK /\ valid = {}
      BY InitEstablishes, Zenon DEF IInv, Init, EmptyCache
    <2>2. \A c \in Blocks : Contents[c] = disk[c]
      BY <2>1, ContentsAt, Zenon DEF ContentsFacts
    <2>3. Contents = disk
      BY <2>1, <2>2, ContentsAt DEF ContentsFacts, CacheOK
    <2>. QED BY <2>3, Zenon DEF Init, Store!Init
  <1>2. IInv /\ IInv' /\ [Next]_vars => [Store!Next]_(Store!storeVars)
    BY StepRefines, Zenon
  <1>. QED BY <1>1, <1>2, CacheInvariant, PTL DEF Spec, StoreSpec, Store!Spec
=============================================================================
