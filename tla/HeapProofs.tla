----------------------------- MODULE HeapProofs -----------------------------
(***************************************************************************)
(* The kernel heap's invariant, for every set of size classes and every    *)
(* size of region: blocks never overlap and no memory is lost.             *)
(***************************************************************************)
EXTENDS Heap, TLAPS

Inj(s) == \A i, j \in DOMAIN s : i # j => s[i] # s[j]
Blocks(s) == 0 .. PerSlab(class_idx[s]) - 1
Used == {s \in Slabs : s < bump}

Types ==
  /\ bump \in Nat /\ \A s \in 0 .. bump - 1 : s \in Slabs
  /\ \A s \in Slabs : s >= bump => class_idx[s] = Unset
  /\ class_idx \in [Slabs -> Classes \cup {LARGE_CLASS, Unset}] /\ nslabs \in [Slabs -> Int]
  /\ free_list \in [Slabs -> Seq(Nat)] /\ free_count \in [Slabs -> Int]
  /\ partial \in [Classes -> Seq(Slabs)] /\ free_runs \in Seq(Slabs)
  /\ \A p \in DOMAIN live : p = <<p[1], p[2]>> /\ p[1] \in Used /\ p[2] \in Nat /\ live[p] \in Nat
  /\ live = [p \in DOMAIN live |-> live[p]]

\* A slab of small blocks: its free list has each of its free blocks once, and
\* a block is in use or free.
SmallOK(s) ==
  /\ Inj(free_list[s]) /\ free_count[s] = Len(free_list[s])
  /\ Range(free_list[s]) \subseteq Blocks(s)
  /\ \A k \in Nat : <<s, k>> \in DOMAIN live <=> (k \in Blocks(s) /\ k \notin Range(free_list[s]))

\* A class lists each of its slabs with a free block once.
PartialOK(c) ==
  /\ Inj(partial[c])
  /\ Range(partial[c]) = {s \in SmallSlabs : class_idx[s] = c /\ free_list[s] # << >>}

Run(h) == h .. h + nslabs[h] - 1

\* Runs start and end among the slabs used so far, keep clear of small blocks
\* and of each other, are free or in use, and leave no slab out.
RunsOK ==
  /\ Inj(free_runs)
  /\ \A s \in Range(free_runs) : s \in Used /\ class_idx[s] = LARGE_CLASS /\ <<s, 0>> \notin DOMAIN live
  /\ \A h \in Heads : nslabs[h] >= 1 /\ h + nslabs[h] <= bump /\ Run(h) \cap SmallSlabs = {}
  /\ \A g, h \in Heads : g < h => g + nslabs[g] <= h
  /\ \A s \in Used : s \in SmallSlabs \/ \E h \in Heads : s \in Run(h)

\* What was asked for fits.
LiveOK ==
  \A p \in DOMAIN live :
    /\ live[p] <= heap_usable_size(p)
    /\ class_idx[p[1]] \in Classes \cup {LARGE_CLASS}
    /\ class_idx[p[1]] = LARGE_CLASS => p[2] = 0

HeapInv ==
  /\ Types /\ RunsOK /\ LiveOK
  /\ \A s \in SmallSlabs : SmallOK(s)
  /\ \A c \in Classes : PartialOK(c)

----------------------------------------------------------------------------
(* Sequences without repetitions.                                          *)

\* An empty list has no element.
LEMMA EmptyFacts ==
  ASSUME NEW S, NEW q \in Seq(S)
  PROVE  Len(q) \in Nat /\ (q = << >> <=> Len(q) = 0) /\ Range(q) \subseteq S
BY DEF Range

\* Taking the first element off a list.
LEMMA TailFacts ==
  ASSUME NEW S, NEW q \in Seq(S), q # << >>, Inj(q)
  PROVE  /\ Head(q) \in S /\ Head(q) \in Range(q)
         /\ Tail(q) \in Seq(S) /\ Len(Tail(q)) = Len(q) - 1 /\ Inj(Tail(q))
         /\ Range(Tail(q)) = Range(q) \ {Head(q)}
<1>1. Len(q) \in Nat /\ Len(q) >= 1 /\ DOMAIN q = 1 .. Len(q) /\ q \in [1 .. Len(q) -> S]
  OBVIOUS
<1>2. Tail(q) \in Seq(S) /\ Len(Tail(q)) = Len(q) - 1 /\ DOMAIN Tail(q) = 1 .. Len(q) - 1
  BY <1>1
<1>3. \A i \in 1 .. Len(q) - 1 : Tail(q)[i] = q[i + 1]
  BY <1>1
<1>4. Head(q) = q[1]
  BY <1>1
<1>5. Inj(Tail(q))
  BY <1>1, <1>2, <1>3 DEF Inj
<1>6. Range(Tail(q)) = Range(q) \ {Head(q)}
  <2>1. ASSUME NEW x \in Range(Tail(q)) PROVE x \in Range(q) \ {Head(q)}
    BY <2>1, <1>1, <1>2, <1>3, <1>4 DEF Range, Inj
  <2>2. ASSUME NEW x \in Range(q) \ {Head(q)} PROVE x \in Range(Tail(q))
    <3>1. PICK i \in 1 .. Len(q) : x = q[i]
      BY <2>2, <1>1, Zenon DEF Range
    <3>2. i # 1 /\ i - 1 \in 1 .. Len(q) - 1 /\ Tail(q)[i - 1] = q[i]
      BY <2>2, <3>1, <1>1, <1>3, <1>4
    <3> QED BY <3>1, <3>2, <1>2, Zenon DEF Range
  <2> QED BY <2>1, <2>2, Zenon
<1>7. Head(q) \in S /\ Head(q) \in Range(q)
  BY <1>1, <1>4 DEF Range
<1> QED BY <1>2, <1>5, <1>6, <1>7, Zenon

\* Putting a new element in front of a list.
LEMMA PushFacts ==
  ASSUME NEW S, NEW q \in Seq(S), NEW x \in S, x \notin Range(q), Inj(q)
  PROVE  /\ <<x>> \o q \in Seq(S) /\ Len(<<x>> \o q) = Len(q) + 1 /\ <<x>> \o q # << >>
         /\ Inj(<<x>> \o q)
         /\ Range(<<x>> \o q) = Range(q) \cup {x}
<1> DEFINE r == <<x>> \o q
<1>1. Len(q) \in Nat /\ DOMAIN q = 1 .. Len(q) /\ q \in [1 .. Len(q) -> S]
  OBVIOUS
<1>2. r \in Seq(S) /\ Len(r) = Len(q) + 1 /\ DOMAIN r = 1 .. Len(q) + 1
  BY <1>1
<1>3. r[1] = x /\ \A i \in 2 .. Len(q) + 1 : r[i] = q[i - 1]
  BY <1>1
<1>4. r # << >>
  BY <1>1, <1>2
<1> HIDE DEF r
<1>5. Inj(r)
  <2> SUFFICES ASSUME NEW i \in DOMAIN r, NEW j \in DOMAIN r, i < j PROVE r[i] # r[j]
    BY <1>1, <1>2 DEF Inj
  <2>1. j \in 2 .. Len(q) + 1 /\ j - 1 \in DOMAIN q /\ r[j] = q[j - 1] /\ q[j - 1] \in Range(q)
    BY <1>1, <1>2, <1>3 DEF Range
  <2>2. CASE i = 1
    BY <2>1, <2>2, <1>3, Zenon
  <2>3. CASE i # 1
    <3>1. i - 1 \in DOMAIN q /\ r[i] = q[i - 1] /\ i - 1 # j - 1
      BY <2>3, <1>1, <1>2, <1>3
    <3> QED BY <2>1, <3>1, Zenon DEF Inj
  <2> QED BY <2>2, <2>3, Zenon
<1>6. Range(r) = Range(q) \cup {x}
  <2>1. ASSUME NEW y \in Range(r) PROVE y \in Range(q) \cup {x}
    <3>1. PICK i \in 1 .. Len(q) + 1 : y = r[i]
      BY <2>1, <1>2, Zenon DEF Range
    <3>2. CASE i = 1
      BY <3>1, <3>2, <1>3, Zenon
    <3>3. CASE i # 1
      <4>1. i - 1 \in DOMAIN q /\ y = q[i - 1]
        BY <3>1, <3>3, <1>1, <1>3
      <4> QED BY <4>1, Zenon DEF Range
    <3> QED BY <3>2, <3>3, Zenon
  <2>2. ASSUME NEW y \in Range(q) PROVE y \in Range(r)
    <3>1. PICK i \in 1 .. Len(q) : y = q[i]
      BY <2>2, <1>1, Zenon DEF Range
    <3>2. i + 1 \in DOMAIN r /\ r[i + 1] = y
      BY <3>1, <1>1, <1>2, <1>3
    <3> QED BY <3>2, Zenon DEF Range
  <2>3. x \in Range(r)
    BY <1>1, <1>2, <1>3 DEF Range
  <2> QED BY <2>1, <2>2, <2>3, Zenon
<1> QED BY <1>2, <1>4, <1>5, <1>6, Zenon DEF r

\* Taking a run out of the middle of the list of free runs.
LEMMA WithoutFacts ==
  ASSUME free_runs \in Seq(Slabs), Inj(free_runs), NEW i \in DOMAIN free_runs
  PROVE  /\ Without(i) \in Seq(Slabs) /\ Inj(Without(i))
         /\ Range(Without(i)) = Range(free_runs) \ {free_runs[i]}
<1> DEFINE q == free_runs
           w == Without(i)
<1>1. Len(q) \in Nat /\ DOMAIN q = 1 .. Len(q) /\ q \in [1 .. Len(q) -> Slabs] /\ i \in 1 .. Len(q)
  OBVIOUS
<1>2. Len(q) - 1 \in Nat /\ DOMAIN w = 1 .. Len(q) - 1
  BY <1>1 DEF Without
<1>3. \A j \in 1 .. Len(q) - 1 : w[j] = (IF j < i THEN q[j] ELSE q[j + 1]) /\ w[j] \in Slabs
  BY <1>1 DEF Without
<1>4. w \in Seq(Slabs)
  BY <1>1, <1>2, <1>3 DEF Without
<1>5. Inj(w)
  BY <1>1, <1>2, <1>3, SMTT(60) DEF Inj
<1>6. ASSUME NEW x \in Range(w) PROVE x \in Range(q) \ {q[i]}
  BY <1>1, <1>2, <1>3, <1>6 DEF Range, Inj
<1>7. ASSUME NEW x \in Range(q) \ {q[i]} PROVE x \in Range(w)
  <2>1. PICK j \in 1 .. Len(q) : x = q[j]
    BY <1>1, <1>7, Zenon DEF Range
  <2>2. CASE j < i
    <3>1. j \in DOMAIN w /\ w[j] = q[j]
      BY <2>2, <1>1, <1>2, <1>3
    <3> QED BY <2>1, <3>1, Zenon DEF Range
  <2>3. CASE j > i
    <3>1. j - 1 \in DOMAIN w /\ w[j - 1] = q[j]
      BY <2>3, <1>1, <1>2, <1>3
    <3> QED BY <2>1, <3>1, Zenon DEF Range
  <2> QED BY <1>1, <1>7, <2>1, <2>2, <2>3
<1> QED BY <1>4, <1>5, <1>6, <1>7, Zenon

----------------------------------------------------------------------------
(* Sizes.                                                                  *)

\* Multiplication keeps the order.
LEMMA Mono == \A a, b, m \in Nat : a <= b => a * m <= b * m
  OBVIOUS

\* A large request takes at least one slab and gets room enough.
LEMMA SlabsForFacts ==
  ASSUME NEW n \in Nat, n >= 1
  PROVE  SlabsFor(n) \in Nat /\ SlabsFor(n) >= 1 /\ n <= SlabsFor(n) * SLAB_SIZE
BY HeapAssumption DEF SlabsFor

\* A slab holds a block of every class, and its blocks lie within it.
LEMMA PerSlabFacts ==
  ASSUME NEW c \in Classes
  PROVE  /\ class_size[c] \in 1 .. SLAB_SIZE
         /\ PerSlab(c) \in Nat /\ PerSlab(c) >= 1 /\ PerSlab(c) * class_size[c] <= SLAB_SIZE
<1>1. class_size[c] \in 1 .. SLAB_SIZE /\ SLAB_SIZE \in Nat
  BY HeapAssumption DEF Classes
<1> DEFINE d == class_size[c]
<1>2. d \in Nat /\ 1 <= d /\ d <= SLAB_SIZE
  BY <1>1
<1> HIDE DEF d
<1>3. SLAB_SIZE \div d \in Nat /\ SLAB_SIZE \div d >= 1 /\ (SLAB_SIZE \div d) * d <= SLAB_SIZE
  BY <1>1, <1>2
<1> QED BY <1>1, <1>3, Zenon DEF PerSlab, d

----------------------------------------------------------------------------
(* The invariant is preserved: one lemma for each action.                  *)

\* The slabs are the numbers from 0 below some bound, and those that were used
\* are the ones below bump.
LEMMA SlabsFacts == \E K \in Int : Slabs = 0 .. K - 1
<1>1. ASSUME NEW x \in Int PROVE x \div SLAB_SIZE \in Int
  BY HeapAssumption
<1>2. max_slabs \in Int /\ DescSize \in Int /\ SLAB_SIZE \in Int
  BY <1>1, HeapAssumption DEF max_slabs
<1>3. base_addr \in Int
  <2>1. max_slabs * DescSize + SLAB_SIZE - 1 \in Int
    BY <1>2
  <2>2. SlabsFor(max_slabs * DescSize) \in Int
    BY <2>1, <1>1, Zenon DEF SlabsFor
  <2> QED BY <2>2, <1>2 DEF base_addr
<1>4. end - base_addr \in Int
  BY <1>2, <1>3 DEF end
<1> QED BY <1>1, <1>4, Zenon DEF Slabs

\* The slabs in use are those below bump, and the others have no class.
LEMMA BumpFacts ==
  ASSUME Types
  PROVE  /\ bump \in Nat
         /\ \A s \in Slabs : s \in Nat
         /\ \A s \in Slabs : s >= bump => class_idx[s] = Unset
         /\ Used = 0 .. bump - 1 /\ Used \subseteq Slabs
<1>1. bump \in Nat /\ \A s \in 0 .. bump - 1 : s \in Slabs
  BY Zenon DEF Types
<1>2. \A s \in Slabs : s \in Nat
  BY SlabsFacts
<1>3. Used = 0 .. bump - 1
  BY <1>1, <1>2 DEF Used
<1> QED BY <1>1, <1>2, <1>3, Zenon DEF Types, Used

\* An updated function.
LEMMA Update ==
  ASSUME NEW D, NEW T, NEW f \in [D -> T], NEW x \in D, NEW y \in T
  PROVE  /\ [f EXCEPT ![x] = y] \in [D -> T] /\ [f EXCEPT ![x] = y][x] = y
         /\ \A z \in D : z # x => [f EXCEPT ![x] = y][z] = f[z]
BY Zenon

\* Handing out a block adds it to what the callers hold, taking it back
\* removes it.
LEMMA HandOutFacts ==
  ASSUME NEW p, NEW n, HandOut(p, n)
  PROVE  /\ DOMAIN live' = DOMAIN live \cup {p} /\ live'[p] = n
         /\ \A q \in DOMAIN live : q # p => live'[q] = live[q]
         /\ live' = [q \in DOMAIN live' |-> live'[q]]
BY Zenon DEF HandOut

\* Taking a block back leaves the other blocks as they are.
LEMMA TakeBackFacts ==
  ASSUME NEW p, TakeBack(p)
  PROVE  /\ DOMAIN live' = DOMAIN live \ {p}
         /\ \A q \in DOMAIN live' : live'[q] = live[q]
         /\ live' = [q \in DOMAIN live' |-> live'[q]]
BY Zenon DEF TakeBack

\* A block of a slab that its class lists is handed out: it leaves the slab's
\* free list, and the slab the list of its class with the last one.
LEMMA AllocSmallStep ==
  ASSUME HeapInv, NEW n \in Requests, alloc_small(n)
  PROVE  HeapInv'
<1>1. PICK c \in size_to_class(n) : alloc_small(n)!2!(c)
  BY Zenon DEF alloc_small
<1> DEFINE s == Head(partial[c])
           k == Head(free_list[s])
<1>2. c \in Classes /\ class_size[c] >= n /\ n \in Nat
  BY HeapAssumption, Zenon DEF size_to_class
<1>3. /\ s \in Range(partial[c]) /\ Tail(partial[c]) \in Seq(Slabs) /\ Inj(Tail(partial[c]))
      /\ Range(Tail(partial[c])) = Range(partial[c]) \ {s}
  BY <1>1, <1>2, TailFacts, Zenon DEF HeapInv, Types, PartialOK
<1>4. s \in SmallSlabs /\ s \in Slabs /\ s < bump /\ class_idx[s] = c /\ free_list[s] # << >>
  BY <1>2, <1>3, Zenon DEF HeapInv, PartialOK, SmallSlabs
<1>5. SmallOK(s) /\ free_list[s] \in Seq(Nat) /\ Len(free_list[s]) \in Nat
  BY <1>4 DEF HeapInv, Types
<1>6. /\ k \in Nat /\ k \in Range(free_list[s])
      /\ Tail(free_list[s]) \in Seq(Nat) /\ Len(Tail(free_list[s])) = Len(free_list[s]) - 1
      /\ Inj(Tail(free_list[s])) /\ Range(Tail(free_list[s])) = Range(free_list[s]) \ {k}
  BY <1>4, <1>5, TailFacts, SMTT(60) DEF SmallOK
<1>7. k \in Blocks(s) /\ <<s, k>> \notin DOMAIN live
  BY <1>5, <1>6, Zenon DEF SmallOK
<1>8. /\ HandOut(<<s, k>>, n)
      /\ free_list' = [free_list EXCEPT ![s] = Tail(@)]
      /\ free_count' = [free_count EXCEPT ![s] = @ - 1]
      /\ partial' = IF free_count[s] = 1 THEN [partial EXCEPT ![c] = Tail(@)] ELSE partial
      /\ UNCHANGED <<bump, class_idx, nslabs, free_runs>>
  BY <1>1, Zenon DEF alloc_small
<1> DEFINE rest == Tail(free_list[s])
<1>81. /\ rest \in Seq(Nat) /\ Len(rest) = Len(free_list[s]) - 1 /\ Inj(rest)
       /\ Range(rest) = Range(free_list[s]) \ {k} /\ (rest = << >> <=> free_count[s] = 1)
  <2>1. rest = << >> <=> Len(rest) = 0
    BY <1>6, EmptyFacts, Zenon
  <2> HIDE DEF s, k, rest
  <2>2. free_count[s] = Len(free_list[s])
    BY <1>5, Zenon DEF SmallOK
  <2> QED BY <2>1, <2>2, <1>5, <1>6 DEF rest
<1>82. free_list' = [free_list EXCEPT ![s] = rest]
  BY <1>8, Zenon
<1> HIDE DEF s, k, rest
<1>9. /\ DOMAIN live' = DOMAIN live \cup {<<s, k>>} /\ live'[<<s, k>>] = n
      /\ \A q \in DOMAIN live : q # <<s, k>> => live'[q] = live[q]
      /\ live' = [q \in DOMAIN live' |-> live'[q]]
  BY <1>8, HandOutFacts, Zenon
<1>10. SmallSlabs' = SmallSlabs /\ Used' = Used /\ \A t : Blocks(t)' = Blocks(t)
  BY <1>8, Zenon DEF SmallSlabs, Used, Blocks
<1>11. /\ free_list' \in [Slabs -> Seq(Nat)] /\ free_list'[s] = rest
       /\ \A t \in Slabs : t # s => free_list'[t] = free_list[t]
  BY <1>4, <1>81, <1>82, Update, Zenon DEF HeapInv, Types
<1>12. /\ free_count' \in [Slabs -> Int] /\ free_count'[s] = free_count[s] - 1
       /\ \A t \in Slabs : t # s => free_count'[t] = free_count[t]
  <2>1. free_count \in [Slabs -> Int] /\ free_count[s] - 1 \in Int
    BY <1>4 DEF HeapInv, Types
  <2> QED BY <2>1, <1>4, <1>8, Zenon
<1>13. Types'
  <2>1. partial' \in [Classes -> Seq(Slabs)]
    BY <1>8, <1>2, <1>3, Zenon DEF HeapInv, Types
  <2>2. ASSUME NEW p \in DOMAIN live'
        PROVE  p = <<p[1], p[2]>> /\ p[1] \in Used' /\ p[2] \in Nat /\ live'[p] \in Nat
    <3>1. CASE p = <<s, k>>
      BY <3>1, <1>9, <1>10, <1>2, <1>4, <1>6, Zenon DEF Used
    <3>2. CASE p # <<s, k>>
      BY <2>2, <3>2, <1>9, <1>10, Zenon DEF HeapInv, Types
    <3> QED BY <3>1, <3>2, Zenon
  <2> QED BY <2>1, <2>2, <1>8, <1>9, <1>11, <1>12, Zenon DEF HeapInv, Types
<1>14. RunsOK'
  <2>1. c # LARGE_CLASS
    BY <1>2, HeapAssumption DEF Classes, LARGE_CLASS
  <2>2. Heads' = Heads
    BY <2>1, <1>4, <1>8, <1>9, Zenon DEF Heads
  <2>3. \A t \in Range(free_runs) : t # s
    BY <2>1, <1>4, Zenon DEF HeapInv, RunsOK
  <2> QED BY <2>2, <2>3, <1>8, <1>9, <1>10, Zenon DEF HeapInv, RunsOK, Run
<1>15. LiveOK'
  <2> SUFFICES ASSUME NEW p \in DOMAIN live'
               PROVE  /\ live'[p] <= heap_usable_size(p)'
                      /\ class_idx[p[1]] \in Classes \cup {LARGE_CLASS}
                      /\ class_idx[p[1]] = LARGE_CLASS => p[2] = 0
    BY <1>8, Zenon DEF LiveOK
  <2>1. CASE p = <<s, k>>
    BY <2>1, <1>2, <1>4, <1>8, <1>9, HeapAssumption, SMTT(60) DEF heap_usable_size, Classes, LARGE_CLASS
  <2>2. CASE p # <<s, k>>
    BY <2>2, <1>8, <1>9, Zenon DEF HeapInv, LiveOK, heap_usable_size
  <2> QED BY <2>1, <2>2, Zenon
<1>16. ASSUME NEW t \in SmallSlabs PROVE SmallOK(t)'
  <2>0. t \in Slabs /\ SmallOK(t)
    BY <1>16, Zenon DEF HeapInv, SmallSlabs
  <2>1. CASE t = s
    <3>1. free_count'[s] = Len(rest)
      BY <1>5, <1>12, <1>81, Zenon DEF SmallOK
    <3>2. \A j \in Nat : <<s, j>> \in DOMAIN live' <=> (j \in Blocks(s) /\ j \notin Range(rest))
      BY <1>5, <1>6, <1>7, <1>9, <1>81, Zenon DEF SmallOK
    <3>3. Range(rest) \subseteq Blocks(s)
      BY <1>5, <1>81, Zenon DEF SmallOK
    <3> QED BY <2>1, <3>1, <3>2, <3>3, <1>10, <1>11, <1>81, Zenon DEF SmallOK, Inj
  <2>2. CASE t # s
    BY <2>0, <2>2, <1>9, <1>10, <1>11, <1>12, Zenon DEF SmallOK, Inj
  <2> QED BY <2>1, <2>2, Zenon
<1>17. ASSUME NEW d \in Classes PROVE PartialOK(d)'
  <2>0. PartialOK(d) /\ PartialOK(c)
    BY <1>2, <1>17, Zenon DEF HeapInv
  <2>1. \A t \in SmallSlabs : t \in Slabs
    BY Zenon DEF SmallSlabs
  <2>2. CASE free_count[s] = 1
    <3>1. CASE d = c
      <4>1. partial'[c] = Tail(partial[c])
        BY <2>2, <1>2, <1>8, Zenon DEF HeapInv, Types
      <4>2. Range(Tail(partial[c])) = {t \in SmallSlabs : class_idx[t] = c /\ free_list'[t] # << >>}
        BY <2>0, <2>1, <2>2, <1>3, <1>11, <1>81, ZenonT(60) DEF PartialOK
      <4> QED BY <3>1, <4>1, <4>2, <1>3, <1>8, <1>10 DEF PartialOK, Inj
    <3>2. CASE d # c
      <4>1. partial'[d] = partial[d]
        BY <2>2, <3>2, <1>2, <1>8, SMTT(60) DEF HeapInv, Types
      <4> QED BY <2>0, <2>1, <3>2, <4>1, <1>4, <1>8, <1>10, <1>11 DEF PartialOK, Inj
    <3> QED BY <3>1, <3>2, Zenon
  <2>3. CASE free_count[s] # 1
    <3>1. partial' = partial
      BY <2>3, <1>8, Zenon
    <3>2. \A t \in SmallSlabs : free_list'[t] # << >> <=> free_list[t] # << >>
      BY <2>1, <2>3, <1>4, <1>11, <1>81
    <3> QED BY <2>0, <3>1, <3>2, <1>8, <1>10, Zenon DEF PartialOK, Inj
  <2> QED BY <2>2, <2>3, Zenon
<1> QED BY <1>10, <1>13, <1>14, <1>15, <1>16, <1>17, Zenon DEF HeapInv

\* A fresh slab: its blocks but the first are free.
LEMMA FreshListFacts ==
  ASSUME NEW m \in Nat
  PROVE  LET q == [i \in 1 .. m |-> i]
         IN  /\ q \in Seq(Nat) /\ Len(q) = m /\ Inj(q) /\ Range(q) = 1 .. m
             /\ (q = << >> <=> m = 0)
<1> DEFINE q == [i \in 1 .. m |-> i]
<1>1. q \in Seq(Nat) /\ Len(q) = m
  OBVIOUS
<1>2. Inj(q) /\ Range(q) = 1 .. m
  BY Zenon DEF Inj, Range
<1> QED BY <1>1, <1>2, EmptyFacts, Zenon

\* What was never used is in nobody's hands and on no list.
LEMMA FreshSlab ==
  ASSUME HeapInv, NEW b \in Nat, b >= bump
  PROVE  /\ b \notin SmallSlabs /\ b \notin Heads /\ \A k : <<b, k>> \notin DOMAIN live
         /\ \A h \in Heads : b \notin Run(h) /\ h \in Used /\ nslabs[h] \in Int
<1>1. b \notin Used /\ b \notin SmallSlabs /\ bump \in Nat
  BY DEF HeapInv, Types, Used, SmallSlabs
<1>2. \A p \in DOMAIN live : p[1] \in Used
  BY Zenon DEF HeapInv, Types
<1>3. \A k : <<b, k>> \notin DOMAIN live
  BY <1>1, <1>2, Zenon
<1>4. \A h \in Heads : h \in Used
  BY <1>2, Zenon DEF Heads, HeapInv, RunsOK
<1>5. \A h \in Heads : h \in Slabs /\ h \in Int /\ nslabs[h] \in Int /\ h + nslabs[h] <= bump
  BY <1>4 DEF HeapInv, Types, RunsOK, Used, Slabs
<1> QED BY <1>1, <1>3, <1>4, <1>5 DEF Run

\* kmalloc from fresh memory preserves the invariant.
LEMMA AllocFreshStep ==
  ASSUME HeapInv, NEW n \in Requests, alloc_small_Fresh(n)
  PROVE  HeapInv'
<1>1. PICK c \in size_to_class(n) : alloc_small_Fresh(n)!2!(c)
  BY Zenon DEF alloc_small_Fresh
<1> DEFINE others == PerSlab(c) - 1
           list == [i \in 1 .. others |-> i]
<1>2. c \in Classes /\ class_size[c] >= n /\ n \in Nat /\ c # LARGE_CLASS
  BY HeapAssumption DEF size_to_class, Classes, LARGE_CLASS
<1>3. class_size[c] \in Nat /\ PerSlab(c) \in Nat /\ others \in Nat
  BY <1>2, PerSlabFacts
<1>4. /\ list \in Seq(Nat) /\ Len(list) = others /\ Inj(list) /\ Range(list) = 1 .. others
      /\ (list = << >> <=> others = 0)
  BY <1>3, FreshListFacts, Zenon
<1>5. /\ HandOut(<<bump, 0>>, n)
      /\ free_list' = [free_list EXCEPT ![bump] = list]
      /\ free_count' = [free_count EXCEPT ![bump] = others]
      /\ class_idx' = [class_idx EXCEPT ![bump] = c]
      /\ nslabs' = [nslabs EXCEPT ![bump] = 1]
      /\ partial' = IF others = 0 THEN partial ELSE [partial EXCEPT ![c] = <<bump>>]
      /\ partial[c] = << >>
      /\ bump' = bump + 1 /\ free_runs' = free_runs
  BY <1>1, Zenon DEF alloc_small_Fresh
<1>6. bump \in Nat /\ bump \in Slabs
  BY DEF alloc_small_Fresh, CanCarve, HeapInv, Types
<1> HIDE DEF list
<1>7. /\ DOMAIN live' = DOMAIN live \cup {<<bump, 0>>} /\ live'[<<bump, 0>>] = n
      /\ \A q \in DOMAIN live : q # <<bump, 0>> => live'[q] = live[q]
      /\ live' = [q \in DOMAIN live' |-> live'[q]]
  BY <1>5, HandOutFacts, Zenon
<1>8. /\ bump \notin SmallSlabs /\ bump \notin Heads /\ \A k : <<bump, k>> \notin DOMAIN live
      /\ \A h \in Heads : bump \notin Run(h) /\ h \in Used /\ h # bump
  BY <1>6, FreshSlab DEF Used
<1>9. /\ free_list' \in [Slabs -> Seq(Nat)] /\ free_list'[bump] = list
      /\ \A t \in Slabs : t # bump => free_list'[t] = free_list[t]
  BY <1>4, <1>5, <1>6, Update, Zenon DEF HeapInv, Types
<1>10. /\ free_count' \in [Slabs -> Int] /\ free_count'[bump] = others
       /\ \A t \in Slabs : t # bump => free_count'[t] = free_count[t]
  BY <1>3, <1>5, <1>6 DEF HeapInv, Types
<1>11. /\ class_idx' \in [Slabs -> Classes \cup {LARGE_CLASS, Unset}] /\ class_idx'[bump] = c
       /\ \A t \in Slabs : t # bump => class_idx'[t] = class_idx[t]
  BY <1>2, <1>5, <1>6, Zenon DEF HeapInv, Types
<1>12. nslabs' \in [Slabs -> Int] /\ \A t \in Slabs : t # bump => nslabs'[t] = nslabs[t]
  BY <1>5, <1>6 DEF HeapInv, Types
<1>13. SmallSlabs' = SmallSlabs \cup {bump} /\ Used' = Used \cup {bump}
  <2>1. \A t \in Slabs : t < bump + 1 <=> (t < bump \/ t = bump)
    BY <1>6 DEF Slabs
  <2> QED BY <2>1, <1>2, <1>5, <1>6, <1>11, ZenonT(60) DEF SmallSlabs, Used
<1>14. Types'
  <2>1. partial' \in [Classes -> Seq(Slabs)]
    BY <1>2, <1>5, <1>6 DEF HeapInv, Types
  <2>2. ASSUME NEW p \in DOMAIN live'
        PROVE  p = <<p[1], p[2]>> /\ p[1] \in Used' /\ p[2] \in Nat /\ live'[p] \in Nat
    <3>1. CASE p = <<bump, 0>>
      BY <3>1, <1>2, <1>7, <1>13, Zenon
    <3>2. CASE p # <<bump, 0>>
      BY <2>2, <3>2, <1>7, <1>13, Zenon DEF HeapInv, Types
    <3> QED BY <3>1, <3>2, Zenon
  <2>3. bump' \in Nat /\ \A t \in 0 .. bump' - 1 : t \in Slabs
    <3>1. ASSUME NEW t \in 0 .. bump PROVE t \in Slabs
      <4>1. t = bump \/ t \in 0 .. bump - 1
        BY <1>6
      <4> QED BY <4>1, <1>6, BumpFacts, Zenon DEF HeapInv
    <3> QED BY <3>1, <1>5, <1>6
  <2>4. free_runs' \in Seq(Slabs)
    BY <1>5, Zenon DEF HeapInv, Types
  <2>5. \A t \in Slabs : t >= bump' => class_idx'[t] = Unset
    BY <1>5, <1>6, <1>11, BumpFacts DEF HeapInv
  <2> QED BY <2>1, <2>2, <2>3, <2>4, <2>5, <1>7, <1>9, <1>10, <1>11, <1>12, Zenon DEF Types
<1>15. RunsOK'
  <2>1. \A t \in Range(free_runs) : t \in Slabs /\ t # bump
    BY <1>8, Zenon DEF HeapInv, RunsOK, Used, Heads
  <2>2. Heads' = Heads
    BY <2>1, <1>2, <1>5, <1>7, <1>8, <1>11, Zenon DEF Heads
  <2>3. \A h \in Heads : h \in Slabs /\ nslabs'[h] = nslabs[h] /\ Run(h)' = Run(h)
    BY <1>8, <1>12, Zenon DEF Used, Run
  <2>4. \A h \in Heads : nslabs'[h] >= 1 /\ h + nslabs'[h] <= bump' /\ Run(h)' \cap SmallSlabs' = {}
    <3> SUFFICES ASSUME NEW h \in Heads
                 PROVE  nslabs'[h] >= 1 /\ h + nslabs'[h] <= bump' /\ Run(h)' \cap SmallSlabs' = {}
      BY Zenon
    <3>1. h \in Int /\ nslabs[h] \in Int /\ h + nslabs[h] <= bump /\ nslabs[h] >= 1
      BY <2>3 DEF HeapInv, RunsOK, Types, Slabs
    <3>2. Run(h)' \cap SmallSlabs' = {}
      BY <2>3, <1>8, <1>13, Zenon DEF HeapInv, RunsOK
    <3> QED BY <3>1, <3>2, <2>3, <1>5, <1>6
  <2>5. \A g, h \in Heads : g < h => g + nslabs'[g] <= h
    BY <2>3, Zenon DEF HeapInv, RunsOK
  <2>6. \A t \in Used' : t \in SmallSlabs' \/ \E h \in Heads : t \in Run(h)'
    BY <2>3, <1>13, Zenon DEF HeapInv, RunsOK
  <2>7. \A t \in Range(free_runs) : t \in Used' /\ class_idx'[t] = LARGE_CLASS /\ <<t, 0>> \notin DOMAIN live'
    BY <2>1, <1>7, <1>11, <1>13, Zenon DEF HeapInv, RunsOK
  <2>8. Inj(free_runs)
    BY Zenon DEF HeapInv, RunsOK
  <2> QED BY <2>2, <2>4, <2>5, <2>6, <2>7, <2>8, <1>5, Zenon DEF RunsOK, Inj
<1>16. LiveOK'
  <2> SUFFICES ASSUME NEW p \in DOMAIN live'
               PROVE  /\ live'[p] <= heap_usable_size(p)'
                      /\ class_idx'[p[1]] \in Classes \cup {LARGE_CLASS}
                      /\ class_idx'[p[1]] = LARGE_CLASS => p[2] = 0
    BY Zenon DEF LiveOK
  <2>1. CASE p = <<bump, 0>>
    BY <2>1, <1>2, <1>3, <1>7, <1>11, Zenon DEF heap_usable_size
  <2>2. CASE p # <<bump, 0>>
    <3>1. p \in DOMAIN live /\ p[1] \in Slabs /\ p[1] # bump
      BY <2>2, <1>6, <1>7 DEF HeapInv, Types, Used
    <3> QED BY <2>2, <3>1, <1>7, <1>11, <1>12, Zenon DEF HeapInv, LiveOK, heap_usable_size
  <2> QED BY <2>1, <2>2, Zenon
<1>17. ASSUME NEW t \in SmallSlabs' PROVE SmallOK(t)'
  <2>1. CASE t = bump
    <3>1. Blocks(t)' = 0 .. others
      BY <2>1, <1>3, <1>11, Zenon DEF Blocks, PerSlab
    <3>2. \A j \in Nat : <<bump, j>> \in DOMAIN live' <=> (j \in 0 .. others /\ j \notin Range(list))
      BY <1>3, <1>4, <1>7, <1>8
    <3>3. Range(list) \subseteq 0 .. others
      BY <1>3, <1>4
    <3> QED BY <2>1, <3>1, <3>2, <3>3, <1>4, <1>9, <1>10 DEF SmallOK, Inj
  <2>2. CASE t # bump
    <3>1. t \in SmallSlabs /\ t \in Slabs /\ SmallOK(t) /\ Blocks(t)' = Blocks(t)
      BY <2>2, <1>11, <1>13, <1>17, Zenon DEF HeapInv, SmallSlabs, Blocks, PerSlab
    <3> QED BY <2>2, <3>1, <1>7, <1>9, <1>10, Zenon DEF SmallOK, Inj
  <2> QED BY <2>1, <2>2, Zenon
<1>18. ASSUME NEW d \in Classes PROVE PartialOK(d)'
  <2>0. PartialOK(d) /\ \A t \in SmallSlabs : t \in Slabs /\ t # bump
    BY <1>8, <1>18, Zenon DEF HeapInv, SmallSlabs
  <2>1. \A t \in SmallSlabs : class_idx'[t] = class_idx[t] /\ free_list'[t] = free_list[t]
    BY <2>0, <1>9, <1>11, Zenon
  <2>2. CASE others # 0 /\ d = c
    <3>1. partial'[d] = <<bump>> /\ Range(partial[d]) = {}
      BY <2>2, <1>2, <1>5 DEF HeapInv, Types, Range
    <3>2. Range(<<bump>>) = {bump} /\ Inj(<<bump>>)
      BY DEF Range, Inj
    <3>3. {t \in SmallSlabs' : class_idx'[t] = d /\ free_list'[t] # << >>} = {bump}
      <4>1. \A t \in SmallSlabs : ~ (class_idx'[t] = d /\ free_list'[t] # << >>)
        BY <2>0, <2>1, <3>1, Zenon DEF PartialOK
      <4>2. class_idx'[bump] = d /\ free_list'[bump] # << >>
        BY <2>2, <1>4, <1>9, <1>11, Zenon
      <4> QED BY <4>1, <4>2, <1>13, Zenon
    <3> QED BY <3>1, <3>2, <3>3, Zenon DEF PartialOK, Inj
  <2>3. CASE ~ (others # 0 /\ d = c)
    <3>1. partial'[d] = partial[d]
      BY <2>3, <1>2, <1>5, Zenon DEF HeapInv, Types
    <3>2. ~ (class_idx'[bump] = d /\ free_list'[bump] # << >>)
      BY <2>3, <1>4, <1>9, <1>11, Zenon
    <3> QED BY <2>0, <2>1, <3>1, <3>2, <1>13 DEF PartialOK, Inj
  <2> QED BY <2>2, <2>3, Zenon
<1> QED BY <1>14, <1>15, <1>16, <1>17, <1>18, Zenon DEF HeapInv

\* A fresh run of slabs behind all the others.
LEMMA AllocRunFreshStep ==
  ASSUME HeapInv, NEW n \in Requests, alloc_large_Fresh(n)
  PROVE  HeapInv'
<1>1. n \in Nat /\ SlabsFor(n) \in Nat /\ SlabsFor(n) >= 1 /\ n <= SlabsFor(n) * SLAB_SIZE
  <2>1. n \in Nat /\ n >= 1
    BY HeapAssumption
  <2> QED BY <2>1, SlabsForFacts, Zenon
<1>2. PICK m \in Nat : m = SlabsFor(n)
  BY <1>1, Zenon
<1>3. /\ HandOut(<<bump, 0>>, n) /\ bump + m - 1 \in Slabs
      /\ class_idx' = [class_idx EXCEPT ![bump] = LARGE_CLASS]
      /\ nslabs' = [nslabs EXCEPT ![bump] = m]
      /\ bump' = bump + m
      /\ UNCHANGED <<free_list, free_count, partial, free_runs>>
  BY <1>2, Zenon DEF alloc_large_Fresh, CanCarve
<1>4. bump \in Nat /\ bump \in Slabs /\ m >= 1 /\ \A t \in bump .. bump + m - 1 : t \in Slabs
  <2>1. PICK K \in Int : Slabs = 0 .. K - 1
    BY SlabsFacts, Zenon
  <2>2. bump \in Nat /\ m >= 1 /\ bump + m - 1 \in 0 .. K - 1
    BY <2>1, <1>1, <1>2, <1>3, BumpFacts, Zenon DEF HeapInv
  <2> QED BY <2>1, <2>2
<1>5. /\ DOMAIN live' = DOMAIN live \cup {<<bump, 0>>} /\ live'[<<bump, 0>>] = n
      /\ \A q \in DOMAIN live : q # <<bump, 0>> => live'[q] = live[q]
      /\ live' = [q \in DOMAIN live' |-> live'[q]]
  BY <1>3, HandOutFacts, Zenon
<1>6. /\ bump \notin SmallSlabs /\ bump \notin Heads /\ \A k : <<bump, k>> \notin DOMAIN live
      /\ \A h \in Heads : h \in Used /\ h # bump
  BY <1>4, FreshSlab DEF Used
<1>7. /\ class_idx' \in [Slabs -> Classes \cup {LARGE_CLASS, Unset}] /\ class_idx'[bump] = LARGE_CLASS
      /\ \A t \in Slabs : t # bump => class_idx'[t] = class_idx[t]
  BY <1>3, <1>4, Zenon DEF HeapInv, Types
<1>8. /\ nslabs' \in [Slabs -> Int] /\ nslabs'[bump] = m
      /\ \A t \in Slabs : t # bump => nslabs'[t] = nslabs[t]
  BY <1>3, <1>4 DEF HeapInv, Types
<1>9. LARGE_CLASS \notin Classes /\ Unset \notin Classes /\ Unset # LARGE_CLASS
  BY HeapAssumption DEF Classes, LARGE_CLASS, Unset
<1>10. /\ \A t : t \in Used' <=> t \in Used \/ t \in bump .. bump + m - 1
       /\ \A t \in Used : t \in Slabs /\ t \in Int /\ t < bump
  <2>1. Used = 0 .. bump - 1 /\ Used \subseteq Slabs /\ \A t \in Slabs : t \in Nat
    BY BumpFacts, Zenon DEF HeapInv
  <2>2. ASSUME NEW t \in 0 .. bump + m - 1 PROVE t \in Slabs
    <3>1. t \in 0 .. bump - 1 \/ t \in bump .. bump + m - 1
      BY <1>4
    <3> QED BY <3>1, <2>1, <1>4, Zenon
  <2>3. \A t : t \in Used' <=> t \in Slabs /\ t < bump + m
    BY <1>3, Zenon DEF Used
  <2>4. \A t \in Used : t \in Slabs /\ t \in Int /\ t < bump
    BY <2>1, <1>4
  <2>5. \A t \in Slabs : t < bump + m => t \in Used \/ t \in bump .. bump + m - 1
    BY <2>1, <1>4
  <2>6. \A t : t \in Used \/ t \in bump .. bump + m - 1 => t \in Slabs /\ t < bump + m
    BY <2>1, <1>4
  <2> QED BY <2>3, <2>4, <2>5, <2>6, Zenon
<1>11. SmallSlabs' = SmallSlabs
  <2>1. \A t \in Slabs : t >= bump => class_idx'[t] \notin Classes
    BY <1>7, <1>9, Zenon DEF HeapInv, Types
  <2>2. \A t \in Slabs : t < bump => t < bump + m /\ class_idx'[t] = class_idx[t]
    BY <1>4, <1>7 DEF Slabs
  <2>3. \A t \in Slabs : t < bump \/ t >= bump
    BY <1>4 DEF Slabs
  <2> QED BY <2>1, <2>2, <2>3, <1>3, Zenon DEF SmallSlabs
<1>12. Types'
  <2>1. ASSUME NEW p \in DOMAIN live'
        PROVE  p = <<p[1], p[2]>> /\ p[1] \in Used' /\ p[2] \in Nat /\ live'[p] \in Nat
    <3>1. CASE p = <<bump, 0>>
      BY <3>1, <1>1, <1>4, <1>5, <1>10
    <3>2. CASE p # <<bump, 0>>
      BY <2>1, <3>2, <1>5, <1>10, Zenon DEF HeapInv, Types
    <3> QED BY <3>1, <3>2, Zenon
  <2>2. bump' \in Nat /\ \A t \in 0 .. bump' - 1 : t \in Slabs
    BY <1>3, <1>4, <1>10, BumpFacts DEF HeapInv
  <2>3. \A t \in Slabs : t >= bump' => class_idx'[t] = Unset
    BY <1>3, <1>4, <1>7, BumpFacts DEF HeapInv
  <2> QED BY <2>1, <2>2, <2>3, <1>3, <1>5, <1>7, <1>8, SMTT(60) DEF HeapInv, Types
<1>13. RunsOK'
  <2>1. \A t \in Range(free_runs) : t \in Used /\ t \in Slabs /\ t # bump
    <3>1. \A t \in Range(free_runs) : t \in Used
      BY Zenon DEF HeapInv, RunsOK
    <3> QED BY <3>1, <1>4, <1>10
  <2>2. Heads' = Heads \cup {bump}
    BY <2>1, <1>3, <1>4, <1>5, <1>6, <1>7, Zenon DEF Heads
  <2>3. \A h \in Heads : /\ h \in Slabs /\ h \in Int /\ nslabs[h] \in Int /\ nslabs'[h] = nslabs[h]
                         /\ Run(h)' = Run(h) /\ h < bump /\ h + nslabs[h] <= bump
    BY <1>6, <1>8, <1>10, Zenon DEF Run, HeapInv, RunsOK, Types
  <2>4. \A h \in Heads' : nslabs'[h] >= 1 /\ h + nslabs'[h] <= bump'
    BY <2>2, <2>3, <1>3, <1>4, <1>8 DEF HeapInv, RunsOK
  <2>5. \A h \in Heads' : Run(h)' \cap SmallSlabs' = {}
    <3>1. \A t \in bump .. bump + m - 1 : t \notin SmallSlabs
      BY <1>4 DEF SmallSlabs, Slabs
    <3>2. ASSUME NEW h \in Heads', h = bump PROVE Run(h)' = bump .. bump + m - 1
      BY <3>2, <1>8, Zenon DEF Run
    <3> QED BY <2>2, <2>3, <3>1, <3>2, <1>11, Zenon DEF HeapInv, RunsOK
  <2>6. \A g, h \in Heads' : g < h => g + nslabs'[g] <= h
    BY <2>2, <2>3, <1>4 DEF HeapInv, RunsOK
  <2>7. \A t \in Used' : t \in SmallSlabs' \/ \E h \in Heads' : t \in Run(h)'
    <3>1. ASSUME NEW t \in Used PROVE t \in SmallSlabs' \/ \E h \in Heads' : t \in Run(h)'
      BY <3>1, <2>2, <2>3, <1>11, Zenon DEF HeapInv, RunsOK
    <3>2. ASSUME NEW t \in bump .. bump + m - 1 PROVE \E h \in Heads' : t \in Run(h)'
      <4>1. PICK h \in Heads' : h = bump
        BY <2>2, Zenon
      <4> QED BY <4>1, <3>2, <1>8, Zenon DEF Run
    <3> QED BY <3>1, <3>2, <1>10, Zenon
  <2>8. \A t \in Range(free_runs) : t \in Used' /\ class_idx'[t] = LARGE_CLASS /\ <<t, 0>> \notin DOMAIN live'
    BY <2>1, <1>5, <1>7, <1>10, Zenon DEF HeapInv, RunsOK
  <2>9. Inj(free_runs)
    BY Zenon DEF HeapInv, RunsOK
  <2> QED BY <2>4, <2>5, <2>6, <2>7, <2>8, <2>9, <1>3, Zenon DEF RunsOK, Inj
<1>14. LiveOK'
  <2> SUFFICES ASSUME NEW p \in DOMAIN live'
               PROVE  /\ live'[p] <= heap_usable_size(p)'
                      /\ class_idx'[p[1]] \in Classes \cup {LARGE_CLASS}
                      /\ class_idx'[p[1]] = LARGE_CLASS => p[2] = 0
    BY Zenon DEF LiveOK
  <2>1. CASE p = <<bump, 0>>
    BY <2>1, <1>1, <1>2, <1>5, <1>7, <1>8, Zenon DEF heap_usable_size
  <2>2. CASE p # <<bump, 0>>
    <3>1. p \in DOMAIN live /\ p[1] \in Slabs /\ p[1] # bump
      BY <2>2, <1>4, <1>5, <1>10 DEF HeapInv, Types
    <3> QED BY <2>2, <3>1, <1>5, <1>7, <1>8, Zenon DEF HeapInv, LiveOK, heap_usable_size
  <2> QED BY <2>1, <2>2, Zenon
<1>15. \A t \in SmallSlabs : t \in Slabs /\ t # bump /\ class_idx'[t] = class_idx[t]
  BY <1>6, <1>7, Zenon DEF SmallSlabs
<1>16. ASSUME NEW t \in SmallSlabs PROVE SmallOK(t)'
  <2>1. SmallOK(t) /\ Blocks(t)' = Blocks(t) /\ t # bump
    BY <1>15, <1>16, Zenon DEF HeapInv, Blocks, PerSlab
  <2> QED BY <2>1, <1>3, <1>5, Zenon DEF SmallOK, Inj
<1>17. ASSUME NEW d \in Classes PROVE PartialOK(d)'
  BY <1>3, <1>11, <1>15, <1>17 DEF HeapInv, PartialOK, Inj
<1> QED BY <1>11, <1>12, <1>13, <1>14, <1>16, <1>17, Zenon DEF HeapInv

\* The first slab of a run.
LEMMA HeadFacts ==
  ASSUME HeapInv, NEW h \in Heads
  PROVE  /\ h \in Used /\ h \in Slabs /\ h \in Nat /\ class_idx[h] = LARGE_CLASS /\ h \notin SmallSlabs
         /\ nslabs[h] \in Nat /\ nslabs[h] >= 1 /\ h + nslabs[h] <= bump
<1>1. h \in Used /\ class_idx[h] = LARGE_CLASS
  <2>1. CASE h \in Range(free_runs)
    BY <2>1, Zenon DEF HeapInv, RunsOK
  <2>2. CASE <<h, 0>> \in DOMAIN live /\ class_idx[h] = LARGE_CLASS
    BY <2>2, Zenon DEF HeapInv, Types
  <2> QED BY <2>1, <2>2, Zenon DEF Heads
<1>2. h \in Slabs /\ h \in Nat
  BY <1>1, BumpFacts, Zenon DEF HeapInv
<1>3. nslabs[h] \in Int /\ nslabs[h] >= 1 /\ h + nslabs[h] <= bump
  BY <1>2, Zenon DEF HeapInv, RunsOK, Types
<1>4. LARGE_CLASS \notin Classes
  BY HeapAssumption DEF Classes, LARGE_CLASS
<1> QED BY <1>1, <1>2, <1>3, <1>4 DEF SmallSlabs

\* The slabs of a run behind the first are no start of a run, and no block in
\* use starts there.
LEMMA InnerFacts ==
  ASSUME HeapInv, NEW h \in Heads, NEW x \in Nat, h < x, x < h + nslabs[h]
  PROVE  /\ x \in Used /\ x \in Slabs /\ x \notin SmallSlabs /\ x \notin Heads
         /\ x \notin Range(free_runs) /\ \A k : <<x, k>> \notin DOMAIN live
<1>1. /\ h \in Nat /\ nslabs[h] \in Nat /\ h + nslabs[h] <= bump /\ bump \in Nat
      /\ Used = 0 .. bump - 1 /\ Used \subseteq Slabs
  BY HeadFacts, BumpFacts, Zenon DEF HeapInv
<1>2. x \in Used /\ x \in Slabs /\ x \in Run(h)
  BY <1>1 DEF Run
<1>3. x \notin SmallSlabs
  BY <1>2, Zenon DEF HeapInv, RunsOK
<1>4. x \notin Heads
  <2>1. \A g \in Heads : h < g => h + nslabs[h] <= g
    BY Zenon DEF HeapInv, RunsOK
  <2> QED BY <2>1, <1>1
<1>5. x \notin Range(free_runs)
  BY <1>2, <1>4, Zenon DEF Heads
<1>6. \A k : <<x, k>> \notin DOMAIN live
  <2> SUFFICES ASSUME NEW k, <<x, k>> \in DOMAIN live PROVE FALSE
    BY Zenon
  <2>1. class_idx[x] \in Classes \cup {LARGE_CLASS} /\ (class_idx[x] = LARGE_CLASS => k = 0)
    BY Zenon DEF HeapInv, LiveOK
  <2>2. class_idx[x] \notin Classes
    BY <1>2, <1>3, Zenon DEF SmallSlabs, Used
  <2> QED BY <2>1, <2>2, <1>2, <1>4, Zenon DEF Heads
<1> QED BY <1>2, <1>3, <1>4, <1>5, <1>6, Zenon

\* A free run is handed out whole, or its first slabs are and the others become
\* a free run of their own.
LEMMA AllocRunStep ==
  ASSUME HeapInv, NEW n \in Requests, alloc_large(n)
  PROVE  HeapInv'
<1>1. n \in Nat /\ SlabsFor(n) \in Nat /\ SlabsFor(n) >= 1 /\ n <= SlabsFor(n) * SLAB_SIZE
  <2>1. n \in Nat /\ n >= 1
    BY HeapAssumption
  <2> QED BY <2>1, SlabsForFacts, Zenon
<1>2. PICK m \in Nat : m = SlabsFor(n)
  BY <1>1, Zenon
<1>3. PICK i \in FirstFit(SlabsFor(n)) : alloc_large(n)!2!(i)
  BY Zenon DEF alloc_large
<1>4. i \in DOMAIN free_runs /\ nslabs[free_runs[i]] >= m
  BY <1>2, Zenon DEF FirstFit, Fits
<1>5. PICK r \in Range(free_runs) : r = free_runs[i]
  BY <1>4, Zenon DEF Range
<1>6. /\ HandOut(<<r, 0>>, n)
      /\ \/ /\ nslabs[r] > m /\ free_runs' = <<r + m>> \o Without(i)
            /\ nslabs' = [nslabs EXCEPT ![r] = m, ![r + m] = nslabs[r] - m]
            /\ class_idx' = [class_idx EXCEPT ![r] = LARGE_CLASS, ![r + m] = LARGE_CLASS]
         \/ /\ ~ (nslabs[r] > m) /\ free_runs' = Without(i)
            /\ class_idx' = [class_idx EXCEPT ![r] = LARGE_CLASS] /\ nslabs' = nslabs
      /\ UNCHANGED <<bump, free_list, free_count, partial>>
  BY <1>2, <1>3, <1>5, Zenon DEF alloc_large
<1>7. r \in Heads /\ <<r, 0>> \notin DOMAIN live
  BY <1>5, Zenon DEF HeapInv, RunsOK, Heads, Used
<1>8. /\ r \in Used /\ r \in Slabs /\ r \in Nat /\ class_idx[r] = LARGE_CLASS /\ r \notin SmallSlabs
      /\ nslabs[r] \in Nat /\ nslabs[r] >= m /\ m >= 1 /\ r + nslabs[r] <= bump
  BY <1>1, <1>2, <1>4, <1>5, <1>7, HeadFacts, Zenon
<1>9. /\ Without(i) \in Seq(Slabs) /\ Inj(Without(i))
      /\ Range(Without(i)) = Range(free_runs) \ {r}
  BY <1>4, <1>5, WithoutFacts, Zenon DEF HeapInv, Types, RunsOK
<1>10. /\ DOMAIN live' = DOMAIN live \cup {<<r, 0>>} /\ live'[<<r, 0>>] = n
       /\ \A q \in DOMAIN live : q # <<r, 0>> => live'[q] = live[q]
       /\ live' = [q \in DOMAIN live' |-> live'[q]]
  BY <1>6, HandOutFacts, Zenon
<1>11. /\ class_idx \in [Slabs -> Classes \cup {LARGE_CLASS, Unset}] /\ nslabs \in [Slabs -> Int]
       /\ \A q \in DOMAIN live : q = <<q[1], q[2]>> /\ q[1] \in Used /\ q[2] \in Nat /\ live[q] \in Nat
       /\ bump \in Nat /\ Used = 0 .. bump - 1 /\ Used \subseteq Slabs
  BY BumpFacts, SMTT(60) DEF HeapInv, Types
<1>12. LARGE_CLASS \notin Classes
  BY HeapAssumption DEF Classes, LARGE_CLASS
\* The remainder, if there is one.
<1> DEFINE Rem == {x \in {r + m} : nslabs[r] > m}
<1>13. ASSUME NEW x \in Rem
       PROVE  /\ x = r + m /\ x \in Nat /\ x \in Used /\ x \in Slabs /\ x \notin SmallSlabs /\ x \notin Heads
              /\ x \notin Range(free_runs) /\ \A k : <<x, k>> \notin DOMAIN live
  BY <1>7, <1>8, <1>13, InnerFacts
<1>14. /\ free_runs' \in Seq(Slabs) /\ Inj(free_runs')
       /\ Range(free_runs') = (Range(free_runs) \ {r}) \cup Rem
  <2>1. CASE nslabs[r] > m
    <3>1. r + m \in Rem
      BY <2>1, Zenon
    <3>2. r + m \in Slabs /\ r + m \notin Range(Without(i))
      BY <3>1, <1>9, <1>13, Zenon
    <3>3. free_runs' = <<r + m>> \o Without(i)
      BY <2>1, <1>6, Zenon
    <3> QED BY <2>1, <3>2, <3>3, <1>9, PushFacts
  <2>2. CASE ~ (nslabs[r] > m)
    BY <2>2, <1>6, <1>9, Zenon
  <2> QED BY <2>1, <2>2, Zenon
<1>15. /\ class_idx' \in [Slabs -> Classes \cup {LARGE_CLASS, Unset}]
       /\ class_idx'[r] = LARGE_CLASS /\ \A x \in Rem : class_idx'[x] = LARGE_CLASS
       /\ \A t \in Slabs : t \notin Rem => class_idx'[t] = class_idx[t]
  BY <1>6, <1>8, <1>11, <1>13, Zenon
<1>16. /\ nslabs' \in [Slabs -> Int] /\ nslabs'[r] = m
       /\ \A x \in Rem : nslabs'[x] = nslabs[r] - m
       /\ \A t \in Slabs : t \notin Rem /\ t # r => nslabs'[t] = nslabs[t]
       /\ (Rem = {} => nslabs[r] = m)
  <2>1. CASE nslabs[r] > m
    <3>1. Rem = {r + m} /\ r + m \in Slabs /\ r + m # r /\ nslabs[r] - m \in Int
      BY <2>1, <1>8, <1>13
    <3>2. PICK x \in Slabs, d \in Int : x = r + m /\ d = nslabs[r] - m
      BY <3>1, Zenon
    <3>3. nslabs' = [nslabs EXCEPT ![r] = m, ![x] = d]
      BY <2>1, <3>2, <1>6, Zenon
    <3>4. nslabs' \in [Slabs -> Int] /\ nslabs'[r] = m /\ nslabs'[x] = d
      BY <3>1, <3>2, <3>3, <1>8, <1>11, SMTT(60)
    <3>5. \A t \in Slabs : t # x /\ t # r => nslabs'[t] = nslabs[t]
      BY <3>3, <1>11, Zenon
    <3> QED BY <3>1, <3>2, <3>4, <3>5, Zenon
  <2>2. CASE ~ (nslabs[r] > m)
    <3>1. Rem = {} /\ nslabs[r] = m /\ nslabs' = nslabs
      BY <2>2, <1>6, <1>8
    <3> QED BY <3>1, <1>11, Zenon
  <2> QED BY <2>1, <2>2, Zenon
<1> HIDE DEF Rem
<1>17. SmallSlabs' = SmallSlabs /\ Used' = Used
  <2>1. \A t \in Rem : t \in Slabs /\ class_idx'[t] \notin Classes /\ t \notin SmallSlabs
    BY <1>12, <1>13, <1>15, Zenon
  <2> QED BY <2>1, <1>6, <1>15, Zenon DEF SmallSlabs, Used
<1>18. Types'
  <2>1. ASSUME NEW p \in DOMAIN live'
        PROVE  p = <<p[1], p[2]>> /\ p[1] \in Used /\ p[2] \in Nat /\ live'[p] \in Nat
    <3>1. CASE p = <<r, 0>>
      BY <3>1, <1>1, <1>8, <1>10, Zenon
    <3>2. CASE p # <<r, 0>>
      BY <2>1, <3>2, <1>10, <1>11, Zenon
    <3> QED BY <3>1, <3>2, Zenon
  <2>2. \A t \in Slabs : t >= bump' => class_idx'[t] = Unset
    <3>1. \A t \in Rem : ~ (t >= bump)
      BY <1>11, <1>13
    <3> QED BY <3>1, <1>6, <1>15, BumpFacts, Zenon DEF HeapInv
  <2> QED BY <2>1, <2>2, <1>6, <1>10, <1>14, <1>15, <1>16, <1>17, Zenon DEF HeapInv, Types
<1>19. Heads' = Heads \cup Rem
  <2>1. ASSUME NEW h \in Slabs, h \notin Rem, h # r PROVE h \in Heads' <=> h \in Heads
    BY <2>1, <1>10, <1>14, <1>15, Zenon DEF Heads
  <2>2. ASSUME NEW h \in Rem PROVE h \in Heads'
    BY <2>2, <1>13, <1>14, Zenon DEF Heads
  <2>3. r \in Heads'
    BY <1>8, <1>10, <1>15, Zenon DEF Heads
  <2>4. Heads \subseteq Slabs /\ Heads' \subseteq Slabs /\ Rem \subseteq Slabs
    BY <1>13, Zenon DEF Heads
  <2> QED BY <2>1, <2>2, <2>3, <2>4, <1>7, Zenon
<1>20. ASSUME NEW h \in Heads, h # r
       PROVE  /\ h \in Nat /\ nslabs[h] \in Nat /\ nslabs'[h] = nslabs[h] /\ nslabs[h] >= 1
              /\ h + nslabs[h] <= bump /\ h \notin Rem /\ Run(h)' = Run(h)
              /\ (h < r => h + nslabs[h] <= r) /\ (r < h => r + nslabs[r] <= h)
  <2>1. /\ h \in Nat /\ h \in Slabs /\ nslabs[h] \in Nat /\ nslabs[h] >= 1 /\ h + nslabs[h] <= bump
        /\ h \notin Rem
    BY <1>13, HeadFacts, Zenon
  <2>2. nslabs'[h] = nslabs[h] /\ Run(h)' = Run(h)
    BY <2>1, <1>16, <1>20, SMTT(60) DEF Run
  <2>3. (h < r => h + nslabs[h] <= r) /\ (r < h => r + nslabs[r] <= h)
    BY <1>7, <1>20, Zenon DEF HeapInv, RunsOK
  <2> QED BY <2>1, <2>2, <2>3, Zenon
<1>21. ASSUME NEW x \in Rem
       PROVE  /\ x = r + m /\ nslabs'[x] = nslabs[r] - m /\ nslabs[r] > m
              /\ Run(x)' = r + m .. r + nslabs[r] - 1
  <2>1. x = r + m /\ nslabs'[x] = nslabs[r] - m /\ nslabs[r] > m
    BY <1>13, <1>16, <1>21, Zenon DEF Rem
  <2>2. x + nslabs'[x] - 1 = r + nslabs[r] - 1
    BY <2>1, <1>8
  <2> QED BY <2>1, <2>2, Zenon DEF Run
<1>22. Run(r)' = r .. r + m - 1
  BY <1>16, SMTT(60) DEF Run
<1>23. RunsOK'
  <2>1. \A t \in Range(free_runs') : t \in Used' /\ class_idx'[t] = LARGE_CLASS /\ <<t, 0>> \notin DOMAIN live'
    <3>1. ASSUME NEW t \in Rem PROVE t \in Used /\ class_idx'[t] = LARGE_CLASS /\ <<t, 0>> \notin DOMAIN live'
      BY <3>1, <1>7, <1>10, <1>13, <1>15, Zenon
    <3>2. ASSUME NEW t \in Range(free_runs), t # r
          PROVE  t \in Used /\ class_idx'[t] = LARGE_CLASS /\ <<t, 0>> \notin DOMAIN live'
      <4>1. t \in Used /\ t \in Slabs /\ class_idx[t] = LARGE_CLASS /\ <<t, 0>> \notin DOMAIN live /\ t \notin Rem
        BY <3>2, <1>11, <1>13, Zenon DEF HeapInv, RunsOK
      <4> QED BY <3>2, <4>1, <1>10, <1>15, SMTT(60)
    <3> QED BY <3>1, <3>2, <1>14, <1>17, Zenon
  <2>2. \A h \in Heads' : nslabs'[h] >= 1 /\ h + nslabs'[h] <= bump'
    <3>1. nslabs'[r] >= 1 /\ r + nslabs'[r] <= bump
      BY <1>8, <1>11, <1>16
    <3>2. ASSUME NEW x \in Rem PROVE nslabs'[x] >= 1 /\ x + nslabs'[x] <= bump
      <4>1. x = r + m /\ nslabs'[x] = nslabs[r] - m /\ nslabs[r] > m
        BY <3>2, <1>21, Zenon
      <4> QED BY <4>1, <1>8, <1>11
    <3> QED BY <3>1, <3>2, <1>6, <1>19, <1>20, Zenon
  <2>3. \A h \in Heads' : Run(h)' \cap SmallSlabs' = {}
    <3>1. (r .. r + nslabs[r] - 1) \cap SmallSlabs = {}
      BY <1>7, Zenon DEF HeapInv, RunsOK, Run
    <3>2. ASSUME NEW h \in Heads', h = r PROVE Run(h)' = r .. r + m - 1
      BY <3>2, <1>16, Zenon DEF Run
    <3>3. \A t \in r .. r + m - 1 : t \in r .. r + nslabs[r] - 1
      BY <1>8
    <3>4. \A t \in r + m .. r + nslabs[r] - 1 : t \in r .. r + nslabs[r] - 1
      BY <1>8
    <3>5. \A h \in Heads : h # r => Run(h)' \cap SmallSlabs = {}
      BY <1>20, Zenon DEF HeapInv, RunsOK
    <3> QED BY <3>1, <3>2, <3>3, <3>4, <3>5, <1>17, <1>19, <1>21, ZenonT(60)
  <2>4. ASSUME NEW g \in Heads', NEW h \in Heads', g < h PROVE g + nslabs'[g] <= h
    <3>1. CASE g \in Rem
      <4>1. h \in Heads /\ h # r
        BY <2>4, <3>1, <1>8, <1>19, <1>21
      <4> QED BY <2>4, <3>1, <4>1, <1>8, <1>20, <1>21, SMTT(60)
    <3>2. CASE g = r
      <4>1. CASE h \in Rem
        BY <3>2, <4>1, <1>8, <1>16, <1>21
      <4>2. CASE h \notin Rem
        BY <2>4, <3>2, <4>2, <1>8, <1>16, <1>19, <1>20
      <4> QED BY <4>1, <4>2, Zenon
    <3>3. CASE g \in Heads /\ g # r
      <4>1. CASE h \in Rem
        BY <2>4, <3>3, <4>1, <1>8, <1>20, <1>21, SMTT(60)
      <4>2. CASE h = r
        BY <2>4, <3>3, <4>2, <1>20, Zenon
      <4>3. CASE h \in Heads
        BY <2>4, <3>3, <4>3, <1>20, Zenon DEF HeapInv, RunsOK
      <4> QED BY <4>1, <4>2, <4>3, <1>19, Zenon
    <3> QED BY <3>1, <3>2, <3>3, <1>19, Zenon
  <2>5. ASSUME NEW t \in Used PROVE t \in SmallSlabs \/ \E h \in Heads' : t \in Run(h)'
    <3>1. CASE t \in SmallSlabs
      BY <3>1, Zenon
    <3>2. CASE \E h \in Heads : h # r /\ t \in Run(h)
      BY <3>2, <1>19, <1>20, Zenon
    <3>3. CASE t \in Run(r)
      <4>1. t \in r .. r + m - 1 \/ (nslabs[r] > m /\ t \in r + m .. r + nslabs[r] - 1)
        BY <3>3, <1>8 DEF Run
      <4>2. CASE t \in r .. r + m - 1
        BY <4>2, <1>7, <1>19, <1>22, Zenon
      <4>3. CASE nslabs[r] > m /\ t \in r + m .. r + nslabs[r] - 1
        <5>1. PICK x \in Rem : TRUE
          BY <4>3, Zenon DEF Rem
        <5> QED BY <4>3, <5>1, <1>19, <1>21, Zenon
      <4> QED BY <4>1, <4>2, <4>3, Zenon
    <3> QED BY <2>5, <3>1, <3>2, <3>3, Zenon DEF HeapInv, RunsOK
  <2>6. Inj(free_runs)'
    BY <1>14, Zenon DEF Inj
  <2> QED BY <2>1, <2>2, <2>3, <2>4, <2>5, <2>6, <1>17, Zenon DEF RunsOK
<1>24. LiveOK'
  <2> SUFFICES ASSUME NEW p \in DOMAIN live'
               PROVE  /\ live'[p] <= heap_usable_size(p)'
                      /\ class_idx'[p[1]] \in Classes \cup {LARGE_CLASS}
                      /\ class_idx'[p[1]] = LARGE_CLASS => p[2] = 0
    BY Zenon DEF LiveOK
  <2>1. CASE p = <<r, 0>>
    BY <2>1, <1>1, <1>2, <1>10, <1>15, <1>16, Zenon DEF heap_usable_size
  <2>2. CASE p # <<r, 0>>
    <3>1. p \in DOMAIN live /\ p[1] \in Slabs /\ p = <<p[1], p[2]>>
      BY <2>2, <1>10, <1>11, Zenon
    <3>2. p[1] \notin Rem
      BY <3>1, <1>13, Zenon
    <3>3. p[1] # r
      BY <2>2, <3>1, <1>7, <1>8, Zenon DEF HeapInv, LiveOK
    <3> QED BY <2>2, <3>1, <3>2, <3>3, <1>10, <1>15, <1>16, Zenon DEF HeapInv, LiveOK, heap_usable_size
  <2> QED BY <2>1, <2>2, Zenon
<1>25. \A t \in SmallSlabs : t \in Slabs /\ t # r /\ class_idx'[t] = class_idx[t]
  BY <1>8, <1>13, <1>15, ZenonT(60) DEF SmallSlabs
<1>26. ASSUME NEW t \in SmallSlabs PROVE SmallOK(t)'
  <2>1. SmallOK(t) /\ Blocks(t)' = Blocks(t) /\ t # r
    BY <1>25, <1>26, Zenon DEF HeapInv, Blocks, PerSlab
  <2> QED BY <2>1, <1>6, <1>10, Zenon DEF SmallOK, Inj
<1>27. ASSUME NEW d \in Classes PROVE PartialOK(d)'
  BY <1>6, <1>17, <1>25, <1>27, ZenonT(60) DEF HeapInv, PartialOK, Inj
<1> QED BY <1>17, <1>18, <1>23, <1>24, <1>26, <1>27, Zenon DEF HeapInv

\* A run in use becomes a free run.
LEMMA FreeRunStep ==
  ASSUME HeapInv, NEW p \in DOMAIN live, heap_free_Run(p)
  PROVE  HeapInv'
<1>1. PICK h : h = p[1]
  BY Zenon
<1>2. p = <<h, 0>> /\ class_idx[h] = LARGE_CLASS /\ h \in Used /\ h \in Slabs
  BY <1>1, Zenon DEF heap_free_Run, HeapInv, LiveOK, Types, Used
<1>3. h \in Heads /\ h \notin Range(free_runs)
  BY <1>2, Zenon DEF Heads, HeapInv, RunsOK
<1>4. /\ free_runs' = <<h>> \o free_runs /\ TakeBack(p)
      /\ UNCHANGED <<bump, class_idx, nslabs, free_list, free_count, partial>>
  BY <1>1, Zenon DEF heap_free_Run
<1>5. free_runs' \in Seq(Slabs) /\ Inj(free_runs') /\ Range(free_runs') = Range(free_runs) \cup {h}
  BY <1>2, <1>3, <1>4, PushFacts DEF HeapInv, Types, RunsOK
<1>6. /\ DOMAIN live' = DOMAIN live \ {p} /\ \A q \in DOMAIN live' : live'[q] = live[q]
      /\ live' = [q \in DOMAIN live' |-> live'[q]]
  BY <1>4, TakeBackFacts, Zenon
<1>7. SmallSlabs' = SmallSlabs /\ Used' = Used /\ h \notin SmallSlabs /\ \A t : Run(t)' = Run(t) /\ Blocks(t)' = Blocks(t)
  BY <1>3, <1>4, HeadFacts, Zenon DEF SmallSlabs, Used, Run, Blocks
<1>8. Types'
  BY <1>4, <1>5, <1>6, <1>7, Zenon DEF HeapInv, Types
<1>9. RunsOK'
  <2>1. Heads' = Heads
    BY <1>2, <1>3, <1>4, <1>5, <1>6, Zenon DEF Heads
  <2>2. \A t \in Range(free_runs') : t \in Used /\ class_idx[t] = LARGE_CLASS /\ <<t, 0>> \notin DOMAIN live'
    BY <1>2, <1>5, <1>6, Zenon DEF HeapInv, RunsOK
  <2>3. Inj(free_runs)'
    BY <1>5, Zenon DEF Inj
  <2> QED BY <2>1, <2>2, <2>3, <1>4, <1>7, Zenon DEF HeapInv, RunsOK
<1>10. LiveOK'
  BY <1>4, <1>6, Zenon DEF HeapInv, LiveOK, heap_usable_size
<1>11. ASSUME NEW t \in SmallSlabs PROVE SmallOK(t)'
  <2>1. t # h /\ SmallOK(t)
    BY <1>7, <1>11, SMTT(60) DEF HeapInv
  <2> QED BY <2>1, <1>2, <1>4, <1>6, <1>7, Zenon DEF SmallOK, Inj
<1>12. ASSUME NEW d \in Classes PROVE PartialOK(d)'
  BY <1>4, <1>7, <1>12 DEF HeapInv, PartialOK, Inj
<1> QED BY <1>7, <1>8, <1>9, <1>10, <1>11, <1>12, Zenon DEF HeapInv

\* A block goes back on the free list of its slab, and a slab that was full on
\* the list of its class.
LEMMA FreeSmallStep ==
  ASSUME HeapInv, NEW p \in DOMAIN live, free_small(p)
  PROVE  HeapInv'
<1>1. PICK s \in Slabs, k \in Nat : p = <<s, k>> /\ s \in Used
  BY Zenon DEF HeapInv, Types, Used
<1>2. PICK c \in Classes : c = class_idx[s]
  BY <1>1, Zenon DEF free_small, HeapInv, LiveOK
<1>3. s \in SmallSlabs /\ c # LARGE_CLASS
  BY <1>1, <1>2, HeapAssumption DEF SmallSlabs, Used, Classes, LARGE_CLASS
<1>4. /\ SmallOK(s) /\ PartialOK(c) /\ free_list[s] \in Seq(Nat) /\ free_count[s] \in Int
      /\ partial[c] \in Seq(Slabs)
  BY <1>2, <1>3, Zenon DEF HeapInv, Types, SmallSlabs
<1>5. k \in Blocks(s) /\ k \notin Range(free_list[s])
  BY <1>1, <1>4, Zenon DEF SmallOK
<1>6. PICK list : list = <<k>> \o free_list[s]
  BY ZenonT(60)
<1>7. /\ list \in Seq(Nat) /\ Len(list) = Len(free_list[s]) + 1 /\ list # << >> /\ Inj(list)
      /\ Range(list) = Range(free_list[s]) \cup {k}
  BY <1>4, <1>5, <1>6, PushFacts, Zenon DEF SmallOK
<1>8. PICK more : more = <<s>> \o partial[c]
  BY ZenonT(60)
<1>9. /\ free_list' = [free_list EXCEPT ![s] = list]
      /\ free_count' = [free_count EXCEPT ![s] = free_count[s] + 1]
      /\ partial' = IF free_count[s] = 0 THEN [partial EXCEPT ![c] = more] ELSE partial
      /\ TakeBack(p) /\ UNCHANGED <<bump, class_idx, nslabs, free_runs>>
  BY <1>1, <1>2, <1>6, <1>8, Zenon DEF free_small
<1>10. /\ free_list[s] = << >> <=> free_count[s] = 0
       /\ free_count[s] = 0 => s \notin Range(partial[c])
  BY <1>4, EmptyFacts, Zenon DEF SmallOK, PartialOK
<1>11. ASSUME free_count[s] = 0
       PROVE  more \in Seq(Slabs) /\ Inj(more) /\ Range(more) = Range(partial[c]) \cup {s}
  BY <1>4, <1>8, <1>10, <1>11, PushFacts DEF PartialOK
<1>12. /\ DOMAIN live' = DOMAIN live \ {p} /\ \A q \in DOMAIN live' : live'[q] = live[q]
       /\ live' = [q \in DOMAIN live' |-> live'[q]]
  BY <1>9, TakeBackFacts, Zenon
<1>13. SmallSlabs' = SmallSlabs /\ Used' = Used /\ \A t : Run(t)' = Run(t) /\ Blocks(t)' = Blocks(t)
  BY <1>9, Zenon DEF SmallSlabs, Used, Run, Blocks
<1>14. /\ free_list' \in [Slabs -> Seq(Nat)] /\ free_list'[s] = list
       /\ \A t \in Slabs : t # s => free_list'[t] = free_list[t]
  BY <1>7, <1>9, Update DEF HeapInv, Types
<1>15. /\ free_count' \in [Slabs -> Int] /\ free_count'[s] = free_count[s] + 1
       /\ \A t \in Slabs : t # s => free_count'[t] = free_count[t]
  <2>1. free_count \in [Slabs -> Int] /\ free_count[s] + 1 \in Int
    BY <1>4 DEF HeapInv, Types
  <2> QED BY <2>1, <1>9, Zenon
<1>16. Types'
  <2>1. partial' \in [Classes -> Seq(Slabs)]
    <3>1. partial \in [Classes -> Seq(Slabs)]
      BY Zenon DEF HeapInv, Types
    <3> QED BY <3>1, <1>9, <1>11, Zenon
  <2> QED BY <2>1, <1>9, <1>12, <1>13, <1>14, <1>15, SMTT(60) DEF HeapInv, Types
<1>17. RunsOK'
  <2>1. Heads' = Heads
    BY <1>1, <1>2, <1>3, <1>9, <1>12, Zenon DEF Heads
  <2> QED BY <2>1, <1>9, <1>12, <1>13, Zenon DEF HeapInv, RunsOK
<1>18. LiveOK'
  BY <1>9, <1>12, Zenon DEF HeapInv, LiveOK, heap_usable_size
<1>19. ASSUME NEW t \in SmallSlabs PROVE SmallOK(t)'
  <2>1. CASE t = s
    <3>1. free_count'[s] = Len(list)
      BY <1>4, <1>7, <1>15, Zenon DEF SmallOK
    <3>2. \A j \in Nat : <<s, j>> \in DOMAIN live' <=> (j \in Blocks(s) /\ j \notin Range(list))
      BY <1>1, <1>4, <1>5, <1>7, <1>12, Zenon DEF SmallOK
    <3>3. Range(list) \subseteq Blocks(s)
      BY <1>4, <1>5, <1>7, Zenon DEF SmallOK
    <3> QED BY <2>1, <3>1, <3>2, <3>3, <1>7, <1>13, <1>14, Zenon DEF SmallOK, Inj
  <2>2. CASE t # s
    <3>1. t \in Slabs /\ SmallOK(t)
      BY <1>19, Zenon DEF HeapInv, SmallSlabs
    <3> QED BY <2>2, <3>1, <1>1, <1>12, <1>13, <1>14, <1>15, Zenon DEF SmallOK, Inj
  <2> QED BY <2>1, <2>2, SMTT(60)
<1>20. ASSUME NEW d \in Classes PROVE PartialOK(d)'
  <2>0. PartialOK(d) /\ partial \in [Classes -> Seq(Slabs)] /\ \A t \in SmallSlabs : t \in Slabs
    BY <1>20, SMTT(60) DEF HeapInv, Types, SmallSlabs
  <2>1. CASE free_count[s] = 0 /\ d = c
    <3>1. partial'[d] = more
      BY <2>0, <2>1, <1>9, Zenon
    <3>2. Range(more) = {t \in SmallSlabs : class_idx[t] = d /\ free_list'[t] # << >>}
      BY <2>0, <2>1, <1>2, <1>3, <1>7, <1>10, <1>11, <1>14, ZenonT(60) DEF PartialOK
    <3> QED BY <2>1, <3>1, <3>2, <1>9, <1>11, <1>13 DEF PartialOK, Inj
  <2>2. CASE ~ (free_count[s] = 0 /\ d = c)
    <3>1. partial'[d] = partial[d]
      BY <2>0, <2>2, <1>9, Zenon
    <3>2. \A t \in SmallSlabs : class_idx[t] = d => (free_list'[t] # << >> <=> free_list[t] # << >>)
      BY <2>0, <2>2, <1>2, <1>7, <1>10, <1>14, Zenon
    <3> QED BY <2>0, <3>1, <3>2, <1>9, <1>13 DEF PartialOK, Inj
  <2> QED BY <2>1, <2>2, Zenon
<1> QED BY <1>13, <1>16, <1>17, <1>18, <1>19, <1>20, Zenon DEF HeapInv

\* The empty heap.
LEMMA HeapInit == Init => HeapInv
<1> SUFFICES ASSUME Init PROVE HeapInv
  BY Zenon
<1>1. Used = {} /\ SmallSlabs = {} /\ Range(<< >>) = {} /\ Inj(<< >>)
  <2>1. \A s \in Slabs : ~ (s < bump)
    BY SlabsFacts DEF Init
  <2> QED BY <2>1 DEF Used, SmallSlabs, Range, Inj
<1>2. DOMAIN live = {} /\ Heads = {}
  BY <1>1, Zenon DEF Init, Heads
<1>3. Types
  BY <1>2 DEF Init, Types, Unset
<1>4. RunsOK /\ LiveOK
  BY <1>1, <1>2, Zenon DEF RunsOK, LiveOK, Init
<1>5. \A c \in Classes : PartialOK(c)
  BY <1>1, Zenon DEF PartialOK, Init
<1> QED BY <1>1, <1>3, <1>4, <1>5, Zenon DEF HeapInv

\* The heap's lists and descriptors agree with each other and with what the
\* callers hold after every sequence of allocations and releases, for every
\* table of size classes, size of region and sizes asked for.
THEOREM HeapInvariant == Spec => []HeapInv
<1>1. HeapInv /\ [Next]_vars => HeapInv'
  <2> SUFFICES ASSUME HeapInv, [Next]_vars PROVE HeapInv'
    BY Zenon
  <2>1. ASSUME NEW n \in Requests, alloc_small(n) PROVE HeapInv'
    BY <2>1, AllocSmallStep, Zenon
  <2>2. ASSUME NEW n \in Requests, alloc_small_Fresh(n) PROVE HeapInv'
    BY <2>2, AllocFreshStep, Zenon
  <2>3. ASSUME NEW n \in Requests, alloc_large(n) PROVE HeapInv'
    BY <2>3, AllocRunStep, Zenon
  <2>4. ASSUME NEW n \in Requests, alloc_large_Fresh(n) PROVE HeapInv'
    BY <2>4, AllocRunFreshStep, Zenon
  <2>5. ASSUME NEW p \in DOMAIN live, heap_free_Run(p) PROVE HeapInv'
    BY <2>5, FreeRunStep, Zenon
  <2>6. ASSUME NEW p \in DOMAIN live, free_small(p) PROVE HeapInv'
    BY <2>6, FreeSmallStep, Zenon
  <2>7. CASE UNCHANGED vars
    <3>1. /\ Used' = Used /\ SmallSlabs' = SmallSlabs /\ Heads' = Heads
          /\ \A t : Run(t)' = Run(t) /\ Blocks(t)' = Blocks(t)
      BY <2>7, SMTT(60) DEF vars, Used, SmallSlabs, Heads, Run, Blocks
    <3>2. Types' /\ RunsOK'
      BY <2>7, <3>1, Zenon DEF vars, HeapInv, Types, RunsOK, Inj
    <3>3. LiveOK'
      BY <2>7, Zenon DEF vars, HeapInv, LiveOK, heap_usable_size
    <3>4. \A s \in SmallSlabs : SmallOK(s)'
      BY <2>7, <3>1, ZenonT(60) DEF vars, HeapInv, SmallOK, Inj
    <3>5. \A c \in Classes : PartialOK(c)'
      BY <2>7, <3>1, ZenonT(60) DEF vars, HeapInv, PartialOK, Inj
    <3> QED BY <3>1, <3>2, <3>3, <3>4, <3>5, Zenon DEF HeapInv
  <2> QED BY <2>1, <2>2, <2>3, <2>4, <2>5, <2>6, <2>7, Zenon DEF Next
<1> QED BY <1>1, HeapInit, PTL DEF Spec

----------------------------------------------------------------------------
(* What the invariant gives the callers.                                   *)

\* No memory is lost, whatever was asked for and given back in whatever order:
\* alloc_small and free_small keep the lists of slabs and blocks complete,
\* alloc_large's split loses no slab.
THEOREM NothingLost == Spec => []Accounted
<1>1. HeapInv => Accounted
  <2> SUFFICES ASSUME HeapInv PROVE Accounted
    BY Zenon
  <2>1. ASSUME NEW s \in SmallSlabs, NEW k \in 0 .. PerSlab(class_idx[s]) - 1
        PROVE  (<<s, k>> \in DOMAIN live) # (k \in Range(free_list[s]))
    <3>1. SmallOK(s) /\ k \in Blocks(s) /\ k \in Nat
      BY <2>1 DEF HeapInv, Blocks
    <3>2. <<s, k>> \in DOMAIN live <=> k \notin Range(free_list[s])
      BY <3>1, Zenon DEF SmallOK
    <3> QED BY <3>2, Zenon
  <2>2. \A c \in Classes : Range(partial[c]) = {s \in SmallSlabs : class_idx[s] = c /\ free_list[s] # << >>}
    BY Zenon DEF HeapInv, PartialOK
  <2>3. ASSUME NEW s \in {s \in Slabs : s < bump} \ SmallSlabs
        PROVE  \E h \in RunsOf(s) : RunsOf(s) = {h} /\ (h \in Range(free_runs)) # (<<h, 0>> \in DOMAIN live)
    <3>1. s \in Used /\ s \in Nat /\ s \notin SmallSlabs
      BY <2>3, BumpFacts, Zenon DEF HeapInv, Used
    <3>2. PICK h \in Heads : s \in Run(h)
      BY <3>1, Zenon DEF HeapInv, RunsOK
    <3>3. \A g \in Heads : g \in Nat /\ nslabs[g] \in Nat
      BY HeadFacts, Zenon
    <3>4. h \in RunsOf(s)
      BY <3>1, <3>2, <3>3 DEF RunsOf, Run
    <3>5. ASSUME NEW g \in RunsOf(s) PROVE g = h
      <4>1. g \in Heads /\ g <= s /\ s < g + nslabs[g] /\ h <= s /\ s < h + nslabs[h]
        BY <3>4, <3>5, SMTT(60) DEF RunsOf
      <4>2. (g < h => g + nslabs[g] <= h) /\ (h < g => h + nslabs[h] <= g)
        BY <4>1, SMTT(60) DEF HeapInv, RunsOK
      <4> QED BY <4>1, <4>2, <3>1, <3>3
    <3>6. h \in Range(free_runs) <=> <<h, 0>> \notin DOMAIN live
      BY <3>2, Zenon DEF Heads, HeapInv, RunsOK
    <3>7. (h \in Range(free_runs)) # (<<h, 0>> \in DOMAIN live)
      BY <3>6, Zenon
    <3> QED BY <3>4, <3>5, <3>7, Zenon
  <2> QED BY <2>1, <2>2, <2>3, Zenon DEF Accounted
<1> QED BY <1>1, HeapInvariant, PTL

\* The slabs begin behind the descriptors and end within the region.
LEMMA RegionFacts ==
  /\ base_addr \in Nat /\ end \in Nat /\ max_slabs * DescSize \in Nat /\ max_slabs * DescSize <= base_addr
  /\ \E K \in Int : Slabs = 0 .. K - 1 /\ base_addr + K * SLAB_SIZE <= end
<1>1. SLAB_SIZE \in Nat /\ SLAB_SIZE >= 1 /\ DescSize \in Nat /\ RegionSize \in Nat
  BY HeapAssumption
<1>2. ASSUME NEW x \in Int
      PROVE  /\ x \div SLAB_SIZE \in Int /\ (x \div SLAB_SIZE) * SLAB_SIZE <= x
             /\ x < (x \div SLAB_SIZE) * SLAB_SIZE + SLAB_SIZE
  BY <1>1
<1>3. RegionSize \div SLAB_SIZE >= 0
  BY <1>1
<1>4. max_slabs \in Nat
  BY <1>1, <1>2, <1>3 DEF max_slabs
<1>5. PICK d \in Nat : d = max_slabs * DescSize
  BY <1>1, <1>4
<1>6. base_addr \in Nat /\ d <= base_addr
  <2> DEFINE v == (d + SLAB_SIZE - 1) \div SLAB_SIZE
  <2>1. d + SLAB_SIZE - 1 \in Int
    BY <1>1
  <2>2. v \in Int /\ d + SLAB_SIZE - 1 < v * SLAB_SIZE + SLAB_SIZE /\ v * SLAB_SIZE \in Int
    BY <2>1, <1>1, <1>2
  <2>3. base_addr = v * SLAB_SIZE
    BY <1>5, Zenon DEF base_addr, SlabsFor
  <2> HIDE DEF v
  <2>4. PICK w \in Int : w = v * SLAB_SIZE
    BY <2>2, Zenon
  <2> QED BY <2>2, <2>3, <2>4, <1>1
<1>7. end \in Nat
  BY <1>1, <1>4 DEF end
<1>8. PICK K \in Int : K = (end - base_addr) \div SLAB_SIZE /\ K * SLAB_SIZE <= end - base_addr
  BY <1>2, <1>6, <1>7
<1>9. Slabs = 0 .. K - 1
  BY <1>8, Zenon DEF Slabs
<1>10. base_addr + K * SLAB_SIZE <= end
  <2>1. PICK w \in Int : w = K * SLAB_SIZE
    BY <1>1, SMTT(60)
  <2> QED BY <2>1, <1>6, <1>7, <1>8
<1> QED BY <1>5, <1>6, <1>7, <1>9, <1>10, Zenon

\* A block lies in the slabs before this one: a run's, or its own.
Behind(p) == p[1] + IF class_idx[p[1]] = LARGE_CLASS THEN nslabs[p[1]] ELSE 1

\* A block is a run, or a block of a slab of small ones.
LEMMA BlockFacts ==
  ASSUME HeapInv, NEW p \in DOMAIN live \cup FreeBlocks
  PROVE  \/ p[1] \in Heads /\ p = <<p[1], 0>> /\ class_idx[p[1]] = LARGE_CLASS
         \/ p[1] \in SmallSlabs /\ p = <<p[1], p[2]>> /\ p[2] \in Blocks(p[1]) /\ class_idx[p[1]] \in Classes
<1>1. CASE p \in DOMAIN live
  <2>1. p = <<p[1], p[2]>> /\ p[1] \in Used /\ p[1] \in Slabs /\ p[2] \in Nat
    BY <1>1, SMTT(60) DEF HeapInv, Types, Used
  <2>2. CASE class_idx[p[1]] = LARGE_CLASS
    BY <1>1, <2>1, <2>2, SMTT(60) DEF HeapInv, LiveOK, Heads
  <2>3. CASE class_idx[p[1]] # LARGE_CLASS
    <3>1. class_idx[p[1]] \in Classes /\ p[1] \in SmallSlabs
      BY <1>1, <2>1, <2>3, Zenon DEF HeapInv, LiveOK, SmallSlabs, Used
    <3>2. SmallOK(p[1])
      BY <3>1, Zenon DEF HeapInv
    <3> QED BY <1>1, <2>1, <3>1, <3>2, SMTT(60) DEF SmallOK
  <2> QED BY <2>2, <2>3, Zenon
<1>2. CASE \E s \in Range(free_runs) : p = <<s, 0>>
  BY <1>2, SMTT(60) DEF HeapInv, RunsOK, Heads, Used
<1>3. CASE \E s \in SmallSlabs : \E k \in Range(free_list[s]) : p = <<s, k>>
  BY <1>3 DEF HeapInv, SmallOK, SmallSlabs
<1> QED BY <1>1, <1>2, <1>3, Zenon DEF FreeBlocks

\* Two blocks of one slab: the one with the lower number ends before the other.
LEMMA BlockOrder ==
  ASSUME NEW c \in Classes, NEW j \in Nat, NEW k \in Nat, j < k
  PROVE  j * class_size[c] + class_size[c] <= k * class_size[c]
<1>1. PICK d \in Nat : d = class_size[c]
  BY PerSlabFacts
<1>2. (j + 1) * d <= k * d /\ (j + 1) * d = j * d + d
  BY <1>1, Mono, SMTT(60)
<1> QED BY <1>1, <1>2, Zenon

\* What the spans of a heap are made of.
LEMMA SpanFacts ==
  ASSUME HeapInv, NEW p \in DOMAIN live \cup FreeBlocks
  PROVE  /\ p[1] \in Nat /\ Behind(p) \in Nat /\ p[1] < Behind(p) /\ Behind(p) <= bump
         /\ heap_usable_size(p) \in Nat /\ Address(p) \in Nat
         /\ base_addr + p[1] * SLAB_SIZE <= Address(p)
         /\ Address(p) + heap_usable_size(p) <= base_addr + Behind(p) * SLAB_SIZE
<1>1. SLAB_SIZE \in Nat /\ base_addr \in Nat /\ bump \in Nat
  BY HeapAssumption, RegionFacts, BumpFacts, SMTT(60) DEF HeapInv
<1>2. CASE p[1] \in Heads /\ p = <<p[1], 0>> /\ class_idx[p[1]] = LARGE_CLASS
  <2>1. PICK h \in Nat, m \in Nat : h = p[1] /\ m = nslabs[h] /\ m >= 1 /\ h + m <= bump
    BY <1>2, HeadFacts, Zenon
  <2>2. /\ Behind(p) = h + m /\ heap_usable_size(p) = m * SLAB_SIZE
        /\ Address(p) = base_addr + h * SLAB_SIZE + 0
    BY <1>2, <2>1, Zenon DEF Behind, heap_usable_size, Address
  <2>3. (h + m) * SLAB_SIZE = h * SLAB_SIZE + m * SLAB_SIZE /\ h * SLAB_SIZE \in Nat /\ m * SLAB_SIZE \in Nat
    BY <1>1
  <2>4. PICK u \in Nat, v \in Nat : u = h * SLAB_SIZE /\ v = m * SLAB_SIZE
    BY <2>3, Zenon
  <2>5. Address(p) = base_addr + u /\ heap_usable_size(p) = v /\ (h + m) * SLAB_SIZE = u + v
    BY <2>2, <2>3, <2>4, <1>1, SMTT(60)
  <2> QED BY <2>1, <2>2, <2>4, <2>5, <1>1
<1>3. CASE /\ p[1] \in SmallSlabs /\ p = <<p[1], p[2]>> /\ p[2] \in Blocks(p[1])
           /\ class_idx[p[1]] \in Classes
  <2>1. PICK s \in Slabs, c \in Classes : s = p[1] /\ c = class_idx[s] /\ s < bump /\ s \in Nat
    BY <1>3, BumpFacts, Zenon DEF SmallSlabs, HeapInv
  <2>2. PICK d \in Nat : d = class_size[c]
    BY PerSlabFacts
  <2>3. PICK k \in Nat : k = p[2] /\ k < PerSlab(c)
    BY <1>3, <2>1, PerSlabFacts DEF Blocks
  <2>4. k * d + d <= SLAB_SIZE /\ k * d \in Nat
    <3>1. k * d + d <= PerSlab(c) * d /\ PerSlab(c) * d <= SLAB_SIZE /\ PerSlab(c) \in Nat
      BY <2>2, <2>3, BlockOrder, PerSlabFacts, Zenon
    <3>2. PICK e \in Nat, f \in Nat : e = PerSlab(c) * d /\ f = k * d
      BY <3>1
    <3> QED BY <3>1, <3>2, <1>1
  <2>5. c # LARGE_CLASS
    BY <2>1, HeapAssumption DEF Classes, LARGE_CLASS
  <2>6. /\ Behind(p) = s + 1 /\ heap_usable_size(p) = d
        /\ Address(p) = base_addr + s * SLAB_SIZE + k * d
    BY <2>1, <2>2, <2>3, <2>5, Zenon DEF Behind, heap_usable_size, Address
  <2>7. PICK u \in Nat, v \in Nat : u = s * SLAB_SIZE /\ v = k * d
    BY <2>1, <2>4, <1>1
  <2>8. (s + 1) * SLAB_SIZE = u + SLAB_SIZE
    BY <2>1, <2>7, <1>1
  <2>9. Address(p) = base_addr + u + v /\ v + d <= SLAB_SIZE
    BY <2>4, <2>6, <2>7, Zenon
  <2> QED BY <2>1, <2>2, <2>6, <2>7, <2>8, <2>9, <1>1, SMTT(60)
<1> QED BY <1>2, <1>3, BlockFacts, Zenon

\* Two blocks lie in different slabs, or are two small blocks of one slab.
LEMMA Apart ==
  ASSUME HeapInv, NEW p \in DOMAIN live \cup FreeBlocks, NEW q \in DOMAIN live \cup FreeBlocks, p # q
  PROVE  \/ Behind(p) <= q[1] \/ Behind(q) <= p[1]
         \/ /\ p[1] = q[1] /\ class_idx[p[1]] \in Classes /\ p[2] \in Nat /\ q[2] \in Nat /\ p[2] # q[2]
<1> DEFINE A(x) == x[1] \in Heads /\ x = <<x[1], 0>> /\ class_idx[x[1]] = LARGE_CLASS
           B(x) == /\ x[1] \in SmallSlabs /\ x = <<x[1], x[2]>> /\ x[2] \in Blocks(x[1])
                   /\ class_idx[x[1]] \in Classes
<1>1. (A(p) \/ B(p)) /\ (A(q) \/ B(q))
  BY BlockFacts, Zenon
<1>2. p[1] \in Nat /\ q[1] \in Nat /\ LARGE_CLASS \notin Classes
  BY SpanFacts, HeapAssumption, SMTT(60) DEF Classes, LARGE_CLASS
<1>3. CASE A(p) /\ A(q)
  <2>1. p[1] # q[1] /\ Behind(p) = p[1] + nslabs[p[1]] /\ Behind(q) = q[1] + nslabs[q[1]]
    BY <1>3, Zenon DEF Behind
  <2>2. (p[1] < q[1] => p[1] + nslabs[p[1]] <= q[1]) /\ (q[1] < p[1] => q[1] + nslabs[q[1]] <= p[1])
    BY <1>3, Zenon DEF HeapInv, RunsOK
  <2> QED BY <2>1, <2>2, <1>2
<1>4. ASSUME NEW h \in Heads, NEW s \in SmallSlabs PROVE h + nslabs[h] <= s \/ s + 1 <= h
  <2>1. h \in Nat /\ nslabs[h] \in Nat /\ s \in Nat /\ s \notin Run(h)
    BY <1>4, HeadFacts, BumpFacts, SMTT(60) DEF HeapInv, RunsOK, SmallSlabs
  <2> QED BY <2>1, SMTT(60) DEF Run
<1>5. CASE A(p) /\ B(q)
  BY <1>2, <1>4, <1>5, Zenon DEF Behind
<1>6. CASE B(p) /\ A(q)
  BY <1>2, <1>4, <1>6, Zenon DEF Behind
<1>7. CASE B(p) /\ B(q)
  <2>1. Behind(p) = p[1] + 1 /\ Behind(q) = q[1] + 1
    BY <1>2, <1>7, Zenon DEF Behind
  <2>2. p[1] # q[1] \/ p[2] # q[2]
    BY <1>7, Zenon
  <2>3. p[2] \in Nat /\ q[2] \in Nat
    BY <1>7, PerSlabFacts DEF Blocks
  <2> QED BY <2>1, <2>2, <2>3, <1>2, <1>7
<1> QED BY <1>1, <1>3, <1>5, <1>6, <1>7, ZenonT(60)

\* Blocks are large enough, lie behind the descriptors and within the region,
\* and no two of them share a byte, whatever was asked for and given back.
THEOREM BlocksDisjoint == Spec => []NoOverlap
<1>1. HeapInv => NoOverlap
  <2> SUFFICES ASSUME HeapInv PROVE NoOverlap
    BY Zenon
  <2>0. SLAB_SIZE \in Nat /\ base_addr \in Nat /\ bump \in Nat
    BY HeapAssumption, RegionFacts, BumpFacts, Zenon DEF HeapInv
  <2>1. ASSUME NEW p \in DOMAIN live
        PROVE  live[p] <= heap_usable_size(p) /\ Extent(p) \subseteq (max_slabs * DescSize) .. end - 1
    <3>1. PICK K \in Int : Slabs = 0 .. K - 1 /\ base_addr + K * SLAB_SIZE <= end
      BY RegionFacts, Zenon
    <3>2. bump >= 1 /\ bump <= K
      <4>1. bump >= 1
        BY <2>0, <2>1, SpanFacts
      <4>2. bump - 1 \in Slabs
        BY <4>1, <2>0, BumpFacts DEF HeapInv
      <4> QED BY <3>1, <4>1, <4>2, <2>0
    <3>3. PICK a \in Nat, z \in Nat : a = Address(p) /\ z = heap_usable_size(p)
      BY <2>1, SpanFacts, Zenon
    <3>4. base_addr <= a
      <4>1. p[1] \in Nat /\ base_addr + p[1] * SLAB_SIZE <= a
        BY <2>1, <3>3, SpanFacts, Zenon
      <4>2. PICK u \in Nat : u = p[1] * SLAB_SIZE
        BY <4>1, <2>0
      <4> QED BY <4>1, <4>2, <3>3, <2>0
    <3>5. a + z <= end
      <4>1. Behind(p) \in Nat /\ Behind(p) <= bump /\ a + z <= base_addr + Behind(p) * SLAB_SIZE
        BY <2>1, <3>3, SpanFacts, Zenon
      <4>2. K \in Nat /\ Behind(p) <= K
        BY <3>2, <4>1, <2>0
      <4>3. Behind(p) * SLAB_SIZE <= K * SLAB_SIZE
        BY <4>1, <4>2, <2>0, Mono, Zenon
      <4>4. PICK u \in Nat, v \in Nat : u = Behind(p) * SLAB_SIZE /\ v = K * SLAB_SIZE
        BY <4>1, <4>2, <2>0
      <4>5. u <= v /\ a + z <= base_addr + u /\ base_addr + v <= end
        BY <3>1, <4>1, <4>3, <4>4, Zenon
      <4> QED BY <4>5, <3>3, <4>4, <2>0, RegionFacts
    <3>6. Extent(p) \subseteq (max_slabs * DescSize) .. end - 1
      <4>1. PICK d \in Nat, e \in Nat : d = max_slabs * DescSize /\ d <= base_addr /\ e = end
        BY RegionFacts, Zenon
      <4>2. Extent(p) = a .. a + z - 1
        BY <3>3, Zenon DEF Extent
      <4>3. a .. a + z - 1 \subseteq d .. e - 1
        BY <4>1, <3>3, <3>4, <3>5, <2>0
      <4> QED BY <4>1, <4>2, <4>3, Zenon
    <3> QED BY <2>1, <3>6, Zenon DEF HeapInv, LiveOK
  <2>2. ASSUME NEW p \in DOMAIN live \cup FreeBlocks, NEW q \in DOMAIN live \cup FreeBlocks,
               Behind(p) <= q[1]
        PROVE  Address(p) + heap_usable_size(p) <= Address(q)
    <3>1. /\ Behind(p) \in Nat /\ q[1] \in Nat /\ Address(p) \in Nat /\ Address(q) \in Nat
          /\ heap_usable_size(p) \in Nat
          /\ Address(p) + heap_usable_size(p) <= base_addr + Behind(p) * SLAB_SIZE
          /\ base_addr + q[1] * SLAB_SIZE <= Address(q)
      BY <2>2, SpanFacts, Zenon
    <3>2. Behind(p) * SLAB_SIZE <= q[1] * SLAB_SIZE
      BY <2>2, <3>1, <2>0, Mono, Zenon
    <3>3. PICK u \in Nat, v \in Nat : u = Behind(p) * SLAB_SIZE /\ v = q[1] * SLAB_SIZE
      BY <3>1, <2>0
    <3>4. u <= v /\ Address(p) + heap_usable_size(p) <= base_addr + u /\ base_addr + v <= Address(q)
      BY <3>1, <3>2, <3>3, Zenon
    <3> QED BY <3>1, <3>3, <3>4, <2>0, SMTT(60)
  <2>3. ASSUME NEW p \in DOMAIN live \cup FreeBlocks, NEW q \in DOMAIN live \cup FreeBlocks,
               p[1] = q[1], class_idx[p[1]] \in Classes, p[2] \in Nat, q[2] \in Nat, p[2] < q[2]
        PROVE  Address(p) + heap_usable_size(p) <= Address(q)
    <3>1. PICK c \in Classes : c = class_idx[p[1]]
      BY <2>3, Zenon
    <3>2. c # LARGE_CLASS /\ class_size[c] \in Nat
      BY <3>1, HeapAssumption, PerSlabFacts DEF Classes, LARGE_CLASS
    <3>3. PICK d \in Nat, j \in Nat, k \in Nat : d = class_size[c] /\ j = p[2] /\ k = q[2]
      BY <2>3, <3>2, Zenon
    <3>4. j * d + d <= k * d
      BY <2>3, <3>3, BlockOrder, SMTT(60)
    <3>5. p[1] \in Nat /\ p[1] * SLAB_SIZE \in Nat /\ j * d \in Nat /\ k * d \in Nat
      BY <2>0, <2>3, <3>3, SpanFacts
    <3>6. PICK u \in Nat, v \in Nat, w \in Nat : u = p[1] * SLAB_SIZE /\ v = j * d /\ w = k * d
      BY <3>5, SMTT(60)
    <3>7. Address(p) = base_addr + u + v /\ Address(q) = base_addr + u + w /\ heap_usable_size(p) = d
      BY <2>3, <3>1, <3>2, <3>3, <3>6, Zenon DEF Address, heap_usable_size
    <3> QED BY <3>3, <3>4, <3>6, <3>7, <2>0
  <2>4. ASSUME NEW p \in DOMAIN live, NEW q \in DOMAIN live \cup FreeBlocks, p # q
        PROVE  Extent(p) \cap Extent(q) = {}
    <3>1. Address(p) + heap_usable_size(p) <= Address(q) \/ Address(q) + heap_usable_size(q) <= Address(p)
      <4>1. CASE Behind(p) <= q[1] \/ Behind(q) <= p[1]
        BY <4>1, <2>2, <2>4, Zenon
      <4>2. CASE p[1] = q[1] /\ class_idx[p[1]] \in Classes /\ p[2] \in Nat /\ q[2] \in Nat /\ p[2] # q[2]
        <5>1. p[2] < q[2] \/ q[2] < p[2]
          BY <4>2
        <5> QED BY <4>2, <5>1, <2>3, <2>4, Zenon
      <4> QED BY <4>1, <4>2, <2>4, Apart, Zenon
    <3>2. /\ Address(p) \in Nat /\ Address(q) \in Nat
          /\ heap_usable_size(p) \in Nat /\ heap_usable_size(q) \in Nat
      BY <2>4, SpanFacts, Zenon
    <3> QED BY <3>1, <3>2, SMTT(60) DEF Extent
  <2> QED BY <2>1, <2>4, Zenon DEF NoOverlap
<1> QED BY <1>1, HeapInvariant, PTL
=============================================================================
