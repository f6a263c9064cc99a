-------------------------------- MODULE Heap --------------------------------
(***************************************************************************)
(* The kernel heap (src/src/memory.c): blocks of a few size classes from   *)
(* slabs of one class each, larger blocks from runs of whole slabs.  A     *)
(* pointer is a slab and the number of a block in it, 0 for the start of a *)
(* run; the lists the code threads through the slab descriptors and        *)
(* through free blocks are sequences.  Sizes are in units of 16 bytes.     *)
(***************************************************************************)
EXTENDS Integers, Sequences, Functions

CONSTANTS SLAB_SIZE, class_size,  \* the sizes of the classes, a sequence
          DescSize,               \* sizeof(struct slab)
          RegionSize,             \* of the memory heap_init is given
          Requests                \* sizes asked for

\* The classes are sorted, and a slab holds a block of each of them.  The
\* region starts at a multiple of SLAB_SIZE, as memory.h asks for.
ASSUME HeapAssumption ==
  /\ SLAB_SIZE \in Nat \ {0} /\ DescSize \in Nat \ {0} /\ RegionSize \in Nat
  /\ class_size \in Seq(1 .. SLAB_SIZE) /\ class_size # << >>
  /\ \A i, j \in DOMAIN class_size : i < j => class_size[i] < class_size[j]
  /\ Requests \subseteq Nat \ {0}

Classes == DOMAIN class_size
LARGE_CLASS == 0
Unset == -1    \* a field of a descriptor that was never written
MAX_SMALL == class_size[Len(class_size)]

\* The class of a size, as a set of at most one.
size_to_class(n) == {c \in Classes : /\ class_size[c] >= n
                                     /\ \A i \in Classes : class_size[i] >= n => c <= i}

SlabsFor_Short(n) == n \div SLAB_SIZE
SlabsFor(n) == (n + SLAB_SIZE - 1) \div SLAB_SIZE
PerSlab(c) == SLAB_SIZE \div class_size[c]

\* heap_init: the descriptors come first, one for each slab there could be;
\* the slabs follow at the next boundary.
max_slabs == RegionSize \div SLAB_SIZE
base_addr == SlabsFor(max_slabs * DescSize) * SLAB_SIZE
end == max_slabs * SLAB_SIZE
Slabs == 0 .. ((end - base_addr) \div SLAB_SIZE) - 1

VARIABLES bump,        \* the first slab that was never used
          class_idx, nslabs, free_list, free_count,  \* of every descriptor
          partial,     \* class -> its slabs with a free block
          free_runs,   \* the first slabs of the free runs
          live         \* what the callers hold: pointer -> size asked for

vars == <<bump, class_idx, nslabs, free_list, free_count, partial, free_runs, live>>

Init ==
  /\ bump = 0
  /\ class_idx = [s \in Slabs |-> Unset] /\ nslabs = [s \in Slabs |-> Unset]
  /\ free_list = [s \in Slabs |-> << >>] /\ free_count = [s \in Slabs |-> Unset]
  /\ partial = [c \in Classes |-> << >>] /\ free_runs = << >>
  /\ live = [p \in {} |-> 0]

HandOut(p, n) == live' = [q \in DOMAIN live \cup {p} |-> IF q = p THEN n ELSE live[q]]

\* The first block of the first slab with one; a slab without a free block
\* leaves the list.
alloc_small(n) ==
  /\ n <= MAX_SMALL
  /\ \E c \in size_to_class(n) :
       LET s == Head(partial[c])
       IN  /\ partial[c] # << >>
           /\ HandOut(<<s, Head(free_list[s])>>, n)
           /\ free_list' = [free_list EXCEPT ![s] = Tail(@)]
           /\ free_count' = [free_count EXCEPT ![s] = @ - 1]
           /\ partial' = IF free_count[s] = 1 THEN [partial EXCEPT ![c] = Tail(@)] ELSE partial
  /\ UNCHANGED <<bump, class_idx, nslabs, free_runs>>

\* carve: out of memory is a panic, after which there is no step.
CanCarve(n) == bump + n - 1 \in Slabs

\* The same with a fresh slab: its first block goes out, the others are free.
alloc_small_Fresh(n) ==
  /\ n <= MAX_SMALL /\ CanCarve(1)
  /\ \E c \in size_to_class(n) :
       LET others == PerSlab(c) - 1
       IN  /\ partial[c] = << >>
           /\ HandOut(<<bump, 0>>, n)
           /\ free_list' = [free_list EXCEPT ![bump] = [i \in 1 .. others |-> i]]
           /\ free_count' = [free_count EXCEPT ![bump] = others]
           /\ class_idx' = [class_idx EXCEPT ![bump] = c]
           /\ nslabs' = [nslabs EXCEPT ![bump] = 1]
           /\ partial' = IF others = 0 THEN partial ELSE [partial EXCEPT ![c] = <<bump>>]
  /\ bump' = bump + 1
  /\ UNCHANGED free_runs

\* The first run that is long enough; what it has too much is a run of its own.
Fits(n) == {i \in DOMAIN free_runs : nslabs[free_runs[i]] >= n}
FirstFit(n) == {i \in Fits(n) : \A j \in Fits(n) : i <= j}
Without(i) == [j \in 1 .. Len(free_runs) - 1 |-> IF j < i THEN free_runs[j] ELSE free_runs[j + 1]]

alloc_large_Whole(n) ==
  /\ n > MAX_SMALL
  /\ \E i \in FirstFit(SlabsFor(n)) :
       /\ HandOut(<<free_runs[i], 0>>, n)
       /\ free_runs' = Without(i)
       /\ nslabs' = [nslabs EXCEPT ![free_runs[i]] = SlabsFor(n)]
  /\ UNCHANGED <<bump, class_idx, free_list, free_count, partial>>

alloc_large(n) ==
  /\ n > MAX_SMALL
  /\ \E i \in FirstFit(SlabsFor(n)) :
       LET r == free_runs[i]
           rem == r + SlabsFor(n)
       IN  /\ HandOut(<<r, 0>>, n)
           /\ IF nslabs[r] > SlabsFor(n)
              THEN /\ free_runs' = <<rem>> \o Without(i)
                   /\ nslabs' = [nslabs EXCEPT ![r] = SlabsFor(n), ![rem] = nslabs[r] - SlabsFor(n)]
                   /\ class_idx' = [class_idx EXCEPT ![r] = LARGE_CLASS, ![rem] = LARGE_CLASS]
              ELSE /\ free_runs' = Without(i)
                   /\ class_idx' = [class_idx EXCEPT ![r] = LARGE_CLASS]
                   /\ UNCHANGED nslabs
  /\ UNCHANGED <<bump, free_list, free_count, partial>>

alloc_large_Fresh(n) ==
  /\ n > MAX_SMALL /\ Fits(SlabsFor(n)) = {} /\ CanCarve(SlabsFor(n))
  /\ HandOut(<<bump, 0>>, n)
  /\ class_idx' = [class_idx EXCEPT ![bump] = LARGE_CLASS]
  /\ nslabs' = [nslabs EXCEPT ![bump] = SlabsFor(n)]
  /\ bump' = bump + SlabsFor(n)
  /\ UNCHANGED <<free_list, free_count, partial, free_runs>>

TakeBack(p) == live' = [q \in DOMAIN live \ {p} |-> live[q]]

\* heap_free of a run ...
heap_free_Run(p) ==
  /\ class_idx[p[1]] = LARGE_CLASS
  /\ free_runs' = <<p[1]>> \o free_runs
  /\ TakeBack(p)
  /\ UNCHANGED <<bump, class_idx, nslabs, free_list, free_count, partial>>

\* ... and of a small block, whose slab is listed again if it was full.
free_small_NotListed(p) ==
  /\ class_idx[p[1]] # LARGE_CLASS
  /\ free_list' = [free_list EXCEPT ![p[1]] = <<p[2]>> \o @]
  /\ free_count' = [free_count EXCEPT ![p[1]] = @ + 1]
  /\ TakeBack(p)
  /\ UNCHANGED <<bump, class_idx, nslabs, partial, free_runs>>

free_small(p) ==
  /\ class_idx[p[1]] # LARGE_CLASS
  /\ free_list' = [free_list EXCEPT ![p[1]] = <<p[2]>> \o @]
  /\ free_count' = [free_count EXCEPT ![p[1]] = @ + 1]
  /\ partial' = IF free_count[p[1]] = 0
                THEN [partial EXCEPT ![class_idx[p[1]]] = <<p[1]>> \o @] ELSE partial
  /\ TakeBack(p)
  /\ UNCHANGED <<bump, class_idx, nslabs, free_runs>>

Next ==
  \/ \E n \in Requests : alloc_small(n) \/ alloc_small_Fresh(n) \/ alloc_large(n) \/ alloc_large_Fresh(n)
  \/ \E p \in DOMAIN live : heap_free_Run(p) \/ free_small(p)

Spec == Init /\ [][Next]_vars

----------------------------------------------------------------------------
heap_usable_size(p) ==
  IF class_idx[p[1]] = LARGE_CLASS THEN nslabs[p[1]] * SLAB_SIZE ELSE class_size[class_idx[p[1]]]

Address(p) == base_addr + p[1] * SLAB_SIZE +
              IF class_idx[p[1]] = LARGE_CLASS THEN 0 ELSE p[2] * class_size[class_idx[p[1]]]
Extent(p) == Address(p) .. Address(p) + heap_usable_size(p) - 1

SmallSlabs == {s \in Slabs : s < bump /\ class_idx[s] \in Classes}
FreeBlocks == {<<s, 0>> : s \in Range(free_runs)} \cup
              UNION {{<<s, k>> : k \in Range(free_list[s])} : s \in SmallSlabs}

\* A block is large enough for what was asked for, lies in the heap behind the
\* descriptors, and has no byte in common with another block, in use or free
\* (alloc_small, alloc_large, heap_free, heap_init).
NoOverlap ==
  /\ \A p \in DOMAIN live :
       /\ live[p] <= heap_usable_size(p)
       /\ Extent(p) \subseteq (max_slabs * DescSize) .. end - 1
  /\ \A p \in DOMAIN live, q \in DOMAIN live \cup FreeBlocks : p # q => Extent(p) \cap Extent(q) = {}

\* The run that slab s belongs to starts at one of these.
Heads == {s \in Slabs : s \in Range(free_runs) \/ (<<s, 0>> \in DOMAIN live /\ class_idx[s] = LARGE_CLASS)}
RunsOf(s) == {h \in Heads : h <= s /\ s < h + nslabs[h]}

\* No memory is lost: every block of a slab of small blocks is in use or free,
\* never both, and the slab is listed under its class exactly if it has a free
\* one; every other slab that was ever used lies in one run, in use or free.
Accounted ==
  /\ \A s \in SmallSlabs : \A k \in 0 .. PerSlab(class_idx[s]) - 1 :
       (<<s, k>> \in DOMAIN live) # (k \in Range(free_list[s]))
  /\ \A c \in Classes : Range(partial[c]) = {s \in SmallSlabs : class_idx[s] = c /\ free_list[s] # << >>}
  /\ \A s \in {s \in Slabs : s < bump} \ SmallSlabs :
       \E h \in RunsOf(s) : RunsOf(s) = {h} /\ (h \in Range(free_runs)) # (<<h, 0>> \in DOMAIN live)
=============================================================================
