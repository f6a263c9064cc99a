------------------------------ MODULE Ext2Read ------------------------------
(***************************************************************************)
(* read_file of src/src/ext2.c: the block map of a file is resolved once   *)
(* (map_blocks), physically contiguous blocks are read in one transfer and *)
(* a partial last block through a scratch block.  The reference is         *)
(* block_of, which looks up one block at a time (FileOf).  Sizes are in    *)
(* half blocks, so that a partial tail is an odd size.                     *)
(***************************************************************************)
EXTENDS Naturals, FiniteSets, Sequences

CONSTANTS Direct,      \* direct blocks of an inode (code: 12)
          Per,         \* entries of an indirect block
          Physical     \* physical data block numbers

ASSUME ReadAssumption ==
  /\ Direct \in Nat \ {0} /\ Per \in Nat \ {0}
  /\ Physical \subseteq Nat \ {0}

None == [k \in {} |-> 0]        \* no indirect block at all
Map == [0 .. Per - 1 -> Physical \cup {0}]
Used(m) == {<<k, m[k]>> : k \in {k \in DOMAIN m : m[k] # 0}}

\* The blocks of one file are distinct.
Distinct(in) ==
  LET all == {<<Per, e>> : e \in Used(in.block)} \cup {<<Per + 1, e>> : e \in Used(in.ind)}
             \cup UNION {{<<j, e>> : e \in Used(in.dbl[j])} : j \in DOMAIN in.dbl}
  IN  \A x, y \in all : x[2][2] = y[2][2] => x = y

block_of(in, n) ==
  IF n < Direct THEN in.block[n]
  ELSE IF n - Direct < Per THEN (IF in.ind = None THEN 0 ELSE in.ind[n - Direct])
  ELSE LET m == n - Direct - Per
       IN  IF m >= Per * Per \/ in.dbl = None THEN 0
           ELSE IF in.dbl[m \div Per] = None THEN 0 ELSE in.dbl[m \div Per][m % Per]

\* The first n blocks; what no loop fills stays 0.
map_blocks(in, n) ==
  [k \in 0 .. n - 1 |->
     IF k < Direct THEN in.block[k]
     ELSE IF k < Direct + Per THEN (IF in.ind # None THEN in.ind[k - Direct] ELSE 0)
     ELSE IF \E j \in 0 .. Per - 1 : in.dbl # None /\ k - (Direct + Per + j * Per) \in 0 .. Per - 1
          THEN LET j == CHOOSE j \in 0 .. Per - 1 : k - (Direct + Per + j * Per) \in 0 .. Per - 1
               IN  IF in.dbl[j] # None THEN in.dbl[j][k - (Direct + Per + j * Per)] ELSE 0
          ELSE 0]

Inodes == {in \in [block : [0 .. Direct - 1 -> Physical \cup {0}],
                    ind : Map \cup {None},
                    dbl : [0 .. Per - 1 -> Map \cup {None}] \cup {None}] : Distinct(in)}

\* Half h of physical block b, given what the data blocks hold; zeros for a hole.
Zero == <<0, 0>>
Elsewhere == <<0, 1>>          \* what blocks of other use hold
Half(data, b, h) == IF b = 0 THEN Zero ELSE IF b \in DOMAIN data THEN data[b][1 + h] ELSE Elsewhere

\* Both halves of n blocks from physical block b on; of n holes for b = 0.
Bytes(data, b, n) == [k \in 1 .. 2 * n |-> Half(data, IF b = 0 THEN 0 ELSE b + (k - 1) \div 2, (k - 1) % 2)]

\* r blocks from logical block i on are one transfer.
Run_AnyBlocks(phys, full, i, r) == \A k \in 1 .. r - 1 : i + k < full /\ phys[i + k] # 0
Run(phys, full, i, r) == \A k \in 1 .. r - 1 : i + k < full /\ phys[i + k] = phys[i] + k

\* Holes one by one, the longest runs of contiguous blocks, then the partial tail.
read_file(in, size, data) ==
  LET full == size \div 2
      phys == map_blocks(in, (size + 1) \div 2)
      run(i) == CHOOSE r \in 1 .. full - i :
                  Run(phys, full, i, r) /\ (r = full - i \/ ~Run(phys, full, i, r + 1))
      From[i \in 0 .. full] ==
        IF i = full THEN (IF size % 2 = 0 THEN <<>> ELSE <<Half(data, phys[full], 0)>>)
        ELSE IF phys[i] = 0 THEN Bytes(data, 0, 1) \o From[i + 1]
        ELSE Bytes(data, phys[i], run(i)) \o From[i + run(i)]
  IN  From[0]

\* What the file holds, looked up block by block.
FileOf(in, size, data) == [k \in 1 .. size |-> Half(data, block_of(in, (k - 1) \div 2), (k - 1) % 2)]
=============================================================================
