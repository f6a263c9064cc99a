-------------------------------- MODULE Ext2 --------------------------------
(***************************************************************************)
(* The ext2 file system of src/src/ext2.c as its public operations leave   *)
(* it: bitmaps, counts, inodes, indirect blocks and directory blocks.      *)
(* g_fs_lock makes every operation a single step.  Block numbers count the *)
(* data blocks from 1, sizes are in blocks, and a directory block holds    *)
(* DirEntries records of equal size, so that absorbing a record into its   *)
(* predecessor and clearing it both free one place.  Files have Direct     *)
(* direct blocks and one indirect block of PerIndirect entries; double     *)
(* indirect blocks exist only in files made elsewhere and are left out.    *)
(***************************************************************************)
EXTENDS Naturals, FiniteSets, Sequences, FiniteSetsExt

CONSTANTS Groups,          \* number of block groups
          BlocksPerGroup, InodesPerGroup,
          Direct,          \* direct blocks of an inode (code: 12)
          PerIndirect,     \* entries of an indirect block
          DirEntries,      \* records of a directory block
          Paths,           \* paths the callers use, as sequences of names
          Contents         \* files the callers write, as sequences of blocks

ASSUME Ext2Assumption ==
  /\ {Groups, BlocksPerGroup, InodesPerGroup, Direct, PerIndirect} \subseteq Nat \ {0}
  /\ DirEntries \in Nat /\ DirEntries > 2

VARIABLES fs,     \* the volume as the operations see it through the cache
          tree,   \* what read_path, stat and list show of it
          last    \* the last operation: its path, and what it returned

vars == <<fs, tree, last>>

Blocks == 1 .. Groups * BlocksPerGroup
Inodes == 1 .. Groups * InodesPerGroup
Root == 1
BlockGroup(b) == (b - 1) \div BlocksPerGroup
InodeGroup(i) == (i - 1) \div InodesPerGroup
GroupSet == 0 .. Groups - 1

Zero == [kind |-> "zero"]
NoInode == [mode |-> "none", links |-> 0, size |-> 0, blocks |-> 0,
            block |-> [n \in 0 .. Direct - 1 |-> 0], ind |-> 0]
DirData(entries) == [kind |-> "dir", entries |-> entries]

----------------------------------------------------------------------------
(* Bitmaps and counts.  An allocation returns the volume and the number.   *)

alloc_block(f) ==
  LET free(g) == {b \in Blocks : BlockGroup(b) = g /\ b \notin f.bmap}
      from == {g \in GroupSet : f.gdBlocks[g] > 0 /\ free(g) # {}}
  IN  IF from = {} THEN <<f, 0>>
      ELSE LET g == Min(from)
               b == Min(free(g))
           IN  <<[f EXCEPT !.bmap = @ \cup {b}, !.gdBlocks[g] = @ - 1, !.sbBlocks = @ - 1,
                           !.data[b] = Zero], b>>

\* free_block, for a set of blocks.
FreeBlocks(f, S) ==
  [f EXCEPT !.bmap = @ \ S, !.sbBlocks = @ + Cardinality(S),
            !.gdBlocks = [g \in GroupSet |-> @[g] + Cardinality({b \in S : BlockGroup(b) = g})]]

alloc_inode(f, isDir) ==
  LET free(g) == {i \in Inodes : InodeGroup(i) = g /\ i \notin f.imap}
      from == {g \in GroupSet : f.gdInodes[g] > 0 /\ free(g) # {}}
  IN  IF from = {} THEN <<f, 0>>
      ELSE LET g == Min(from)
               i == Min(free(g))
           IN  <<[f EXCEPT !.imap = @ \cup {i}, !.gdInodes[g] = @ - 1, !.sbInodes = @ - 1,
                           !.gdDirs[g] = IF isDir THEN @ + 1 ELSE @], i>>

free_inode_KeepsDirs(f, i, wasDir) ==
  LET g == InodeGroup(i)
  IN  [f EXCEPT !.imap = @ \ {i}, !.gdInodes[g] = @ + 1, !.sbInodes = @ + 1]

free_inode(f, i, wasDir) ==
  LET g == InodeGroup(i)
  IN  [f EXCEPT !.imap = @ \ {i}, !.gdInodes[g] = @ + 1, !.sbInodes = @ + 1,
                !.gdDirs[g] = IF wasDir /\ @ > 0 THEN @ - 1 ELSE @]

----------------------------------------------------------------------------
(* Blocks of a file.  Operations that change an inode carry it, in, apart  *)
(* from the volume until write_inode.                                      *)

write_inode(f, i, in) == [f EXCEPT !.inode[i] = in]

block_of(f, in, n) ==
  IF n < Direct THEN in.block[n]
  ELSE IF n - Direct < PerIndirect /\ in.ind # 0 THEN f.data[in.ind].map[n - Direct]
  ELSE 0

NoMap == [kind |-> "map", map |-> [n \in 0 .. PerIndirect - 1 |-> 0]]

set_block_of(f, in, n, blk) ==
  IF n < Direct THEN [fs |-> f, in |-> [in EXCEPT !.block[n] = blk, !.blocks = @ + 1], ok |-> TRUE]
  ELSE IF n - Direct >= PerIndirect THEN [fs |-> f, in |-> in, ok |-> FALSE]
  ELSE LET a == IF in.ind = 0 THEN alloc_block(f) ELSE <<f, in.ind>>
           old == IF in.ind = 0 THEN NoMap ELSE f.data[in.ind]
       IN  IF a[2] = 0 THEN [fs |-> f, in |-> in, ok |-> FALSE]
           ELSE [fs |-> [a[1] EXCEPT !.data[a[2]] = [old EXCEPT !.map[n - Direct] = blk]],
                 in |-> [in EXCEPT !.ind = a[2], !.blocks = @ + (IF in.ind = 0 THEN 2 ELSE 1)],
                 ok |-> TRUE]

BlocksOf(f, in) ==
  ({block_of(f, in, n) : n \in 0 .. Direct + PerIndirect - 1} \cup {in.ind}) \ {0}

free_all_blocks_KeepsIndirect(f, in) ==
  [fs |-> FreeBlocks(f, BlocksOf(f, in) \ {in.ind}),
   in |-> [in EXCEPT !.block = NoInode.block, !.ind = 0, !.blocks = 0]]

free_all_blocks(f, in) ==
  [fs |-> FreeBlocks(f, BlocksOf(f, in)),
   in |-> [in EXCEPT !.block = NoInode.block, !.ind = 0, !.blocks = 0]]

----------------------------------------------------------------------------
(* Directories.                                                            *)

Entries(f, b) == f.data[b].entries

\* The blocks of a directory by position, as walk_dir visits them.
DirBlocks(f, in) ==
  [n \in {n \in 0 .. in.size - 1 : block_of(f, in, n) # 0} |-> block_of(f, in, n)]

\* The first of them that has an entry of that name, 0 if none has.
BlockWith(f, in, name) ==
  LET D == DirBlocks(f, in)
      at == {n \in DOMAIN D : name \in DOMAIN Entries(f, D[n])}
  IN  IF at = {} THEN 0 ELSE D[Min(at)]

dir_find(f, in, name) ==
  IF in.mode # "dir" THEN 0
  ELSE LET b == BlockWith(f, in, name) IN IF b = 0 THEN 0 ELSE Entries(f, b)[name]

\* The first block with room, or a new one; dir is the directory's inode i.
dir_add(f, i, dir, name, child) ==
  LET with(e) == DirData([x \in DOMAIN e \cup {name} |-> IF x = name THEN child ELSE e[x]])
      D == DirBlocks(f, dir)
      room == {n \in DOMAIN D : Cardinality(DOMAIN Entries(f, D[n])) < DirEntries}
      b == D[Min(room)]
      a == alloc_block(f)
      s == set_block_of(a[1], dir, dir.size, a[2])
      grown == [s.in EXCEPT !.size = @ + 1]
  IN  IF room # {} THEN [fs |-> [f EXCEPT !.data[b] = with(Entries(f, b))], in |-> dir, ok |-> TRUE]
      ELSE IF a[2] = 0 THEN [fs |-> f, in |-> dir, ok |-> FALSE]
      ELSE IF ~s.ok THEN [fs |-> s.fs, in |-> s.in, ok |-> FALSE]
      ELSE [fs |-> write_inode([s.fs EXCEPT !.data[a[2]] = with(<< >>)], i, grown),
            in |-> grown, ok |-> TRUE]

dir_remove(f, dir, name) ==
  LET b == BlockWith(f, dir, name)
  IN  [f EXCEPT !.data[b] = DirData([x \in DOMAIN Entries(f, b) \ {name} |-> Entries(f, b)[x]])]

\* resolve, from the root; 0 if a component is missing.
RECURSIVE Walk(_, _, _)
Walk(f, i, path) ==
  IF path = << >> \/ i = 0 THEN i ELSE Walk(f, dir_find(f, f.inode[i], Head(path)), Tail(path))
resolve(f, path) == Walk(f, Root, path)

\* resolve_parent: the inode of the directory, 0 if it is not one.
resolve_parent(f, path) ==
  LET i == resolve(f, SubSeq(path, 1, Len(path) - 1))
  IN  IF i # 0 /\ f.inode[i].mode = "dir" THEN i ELSE 0

----------------------------------------------------------------------------
(* The operations, each from resolve_parent to the return value.           *)


\* One turn of the loop of write_file_impl, on [fs, in, ok].
WriteBlock(w, k, c) ==
  LET a == alloc_block(w.fs)
      s == set_block_of([a[1] EXCEPT !.data[a[2]] = [kind |-> "file", content |-> c[k]]],
                        w.in, k - 1, a[2])
  IN  IF ~w.ok THEN w
      ELSE IF a[2] = 0 THEN [w EXCEPT !.ok = FALSE]
      ELSE IF ~s.ok THEN [fs |-> FreeBlocks(s.fs, {a[2]}), in |-> s.in, ok |-> FALSE]
      ELSE s

\* The loop for the blocks, the size and write_inode.
WriteData(f, i, in, c) ==
  LET turn[k \in 0 .. Len(c)] == IF k = 0 THEN [fs |-> f, in |-> in, ok |-> TRUE]
                            ELSE WriteBlock(turn[k - 1], k, c)
      end == turn[Len(c)]
  IN  <<write_inode(end.fs, i, [end.in EXCEPT !.size = Len(c)]), end.ok>>

write_file_impl(f, path, c) ==
  LET p == resolve_parent(f, path)
      base == path[Len(path)]
      i == dir_find(f, f.inode[p], base)
      emptied == free_all_blocks(f, f.inode[i])
      a == alloc_inode(f, FALSE)
      added == dir_add(a[1], p, f.inode[p], base, a[2])
  IN  IF p = 0 THEN <<f, FALSE>>
      ELSE IF i # 0
           THEN IF f.inode[i].mode # "reg" THEN <<f, FALSE>>
                ELSE WriteData(emptied.fs, i, [emptied.in EXCEPT !.size = 0], c)
      ELSE IF a[2] = 0 THEN <<f, FALSE>>
      ELSE IF ~added.ok THEN <<free_inode(added.fs, a[2], FALSE), FALSE>>
      ELSE WriteData(added.fs, a[2], [NoInode EXCEPT !.mode = "reg", !.links = 1], c)

\* The new directory's ".." links back to its parent.
Linked_Not(parent) == parent
Linked(parent) == [parent EXCEPT !.links = @ + 1]

mkdir_impl(f, path) ==
  LET p == resolve_parent(f, path)
      base == path[Len(path)]
      ai == alloc_inode(f, TRUE)
      i == ai[2]
      ab == alloc_block(ai[1])
      in == [NoInode EXCEPT !.mode = "dir", !.links = 2, !.size = 1, !.blocks = 1, !.block[0] = ab[2]]
      entries == [x \in {".", ".."} |-> IF x = "." THEN i ELSE p]
      made == write_inode([ab[1] EXCEPT !.data[ab[2]] = DirData(entries)], i, in)
      added == dir_add(made, p, f.inode[p], base, i)
  IN  IF p = 0 THEN <<f, FALSE>>
      ELSE IF dir_find(f, f.inode[p], base) # 0 \/ i = 0 THEN <<f, FALSE>>
      ELSE IF ab[2] = 0 THEN <<free_inode(ai[1], i, TRUE), FALSE>>
      ELSE IF ~added.ok THEN <<free_inode(FreeBlocks(added.fs, {ab[2]}), i, TRUE), FALSE>>
      ELSE <<write_inode(added.fs, p, Linked(added.in)), TRUE>>

\* count_cb finds no entry but "." and "..".
EmptyDir_Unchecked(f, in) == TRUE
EmptyDir(f, in) ==
  LET D == DirBlocks(f, in) IN \A n \in DOMAIN D : DOMAIN Entries(f, D[n]) \subseteq {".", ".."}

remove_impl(f, path) ==
  LET p == resolve_parent(f, path)
      base == path[Len(path)]
      parent == f.inode[p]
      i == dir_find(f, parent, base)
      in == f.inode[i]
      isDir == in.mode = "dir"
      cut == dir_remove(f, parent, base)
      gone == free_inode(write_inode(free_all_blocks(cut, in).fs, i, NoInode), i, isDir)
      links == IF in.links > 0 THEN in.links - 1 ELSE 0
  IN  IF p = 0 THEN <<f, FALSE>>
      ELSE IF i = 0 THEN <<f, FALSE>>
      ELSE IF isDir
           THEN IF ~EmptyDir(f, in) THEN <<f, FALSE>>
                ELSE <<write_inode(gone, p, [parent EXCEPT !.links = IF @ > 0 THEN @ - 1 ELSE @]), TRUE>>
      ELSE <<IF links = 0 THEN gone ELSE write_inode(cut, i, [in EXCEPT !.links = links]), TRUE>>

----------------------------------------------------------------------------
(* The read side, as a tree of names.                                      *)

Hole == "hole"
FileContent(f, in) ==
  [k \in 1 .. in.size |-> LET b == block_of(f, in, k - 1)
                          IN  IF b = 0 THEN Hole ELSE f.data[b].content]

\* Only paths through names the caller gave; "dir" or the content of a file.
Tree(f) ==
  [p \in {p \in Paths : resolve(f, p) # 0} |->
     LET in == f.inode[resolve(f, p)]
     IN  IF in.mode = "dir" THEN <<"dir">> ELSE <<"file", FileContent(f, in)>>]

----------------------------------------------------------------------------
(* The public calls: the operation and its result.  fs is the volume seen  *)
(* through the cache; the flush that ends every call does not change it.   *)

Return(op, path, content, r) ==
  /\ fs' = r[1]
  /\ tree' = Tree(r[1])
  /\ last' = [op |-> op, path |-> path, content |-> content, ok |-> r[2]]

ext2_write_file ==
  \E path \in Paths, c \in Contents : Return("write", path, c, write_file_impl(fs, path, c))

ext2_mkdir == \E path \in Paths : Return("mkdir", path, << >>, mkdir_impl(fs, path))

ext2_remove == \E path \in Paths : Return("remove", path, << >>, remove_impl(fs, path))

\* A volume fresh from mke2fs: the root directory in the first block.
Init ==
  /\ fs = [bmap |-> {1}, imap |-> {Root},
           gdBlocks |-> [g \in GroupSet |-> BlocksPerGroup - (IF g = 0 THEN 1 ELSE 0)],
           gdInodes |-> [g \in GroupSet |-> InodesPerGroup - (IF g = 0 THEN 1 ELSE 0)],
           gdDirs |-> [g \in GroupSet |-> IF g = 0 THEN 1 ELSE 0],
           sbBlocks |-> Groups * BlocksPerGroup - 1,
           sbInodes |-> Groups * InodesPerGroup - 1,
           inode |-> [i \in Inodes |-> IF i = Root
                        THEN [NoInode EXCEPT !.mode = "dir", !.links = 2, !.size = 1,
                                             !.blocks = 1, !.block[0] = 1]
                        ELSE NoInode],
           data |-> [b \in Blocks |-> IF b = 1 THEN DirData([x \in {".", ".."} |-> Root]) ELSE Zero]]
  /\ tree = << >>
  /\ last = [op |-> "mount", path |-> << >>, content |-> << >>, ok |-> TRUE]

Next == ext2_write_file \/ ext2_mkdir \/ ext2_remove

Spec == Init /\ [][Next]_vars

----------------------------------------------------------------------------
(* What a file system check looks at.                                      *)

\* Inodes that some name leads to.
Reachable(f) == {resolve(f, p) : p \in Paths \cup {<< >>}} \ {0}

\* Entries of the reachable directories: directory, name, inode.
AllEntries(f) ==
  UNION {UNION {{<<d, x, Entries(f, b)[x]>> : x \in DOMAIN Entries(f, b)} :
                b \in {block_of(f, f.inode[d], n) : n \in 0 .. f.inode[d].size - 1} \ {0}} :
         d \in {d \in Reachable(f) : f.inode[d].mode = "dir"}}

(* No block is lost and none is used twice: the blocks marked in the       *)
(* bitmaps are the disjoint union of the blocks of the reachable inodes,   *)
(* the block count of every inode is the number of its blocks, and the     *)
(* free counts of superblock and group descriptors, and the count of       *)
(* directories, are those of the bitmaps (out of space at any point of     *)
(* alloc_block, set_block_of, dir_add, write_file, mkdir and remove).      *)
BlocksAccounted ==
  LET R == Reachable(fs)
      free == Blocks \ fs.bmap
      unused == Inodes \ fs.imap
      dirs == {i \in fs.imap : fs.inode[i].mode = "dir"}
  IN  /\ fs.bmap = UNION {BlocksOf(fs, fs.inode[i]) : i \in R}
      /\ \A i \in R : fs.inode[i].blocks = Cardinality(BlocksOf(fs, fs.inode[i]))
      /\ \A i, j \in R : i # j => BlocksOf(fs, fs.inode[i]) \cap BlocksOf(fs, fs.inode[j]) = {}
      /\ fs.sbBlocks = Cardinality(free) /\ fs.sbInodes = Cardinality(unused)
      /\ \A g \in GroupSet :
           /\ fs.gdBlocks[g] = Cardinality({b \in free : BlockGroup(b) = g})
           /\ fs.gdInodes[g] = Cardinality({i \in unused : InodeGroup(i) = g})
           /\ fs.gdDirs[g] = Cardinality({i \in dirs : InodeGroup(i) = g})

(* The inodes marked in the bitmap are the ones names lead to, every entry *)
(* names a live inode, and a link count is the number of entries that name *)
(* the inode, "." and ".." included.                                       *)
LinksAgree ==
  LET E == AllEntries(fs)
  IN  /\ fs.imap = Reachable(fs)
      /\ \A e \in E : e[3] \in fs.imap
      /\ \A i \in fs.imap : fs.inode[i].links = Cardinality({e \in E : e[3] = i})

----------------------------------------------------------------------------
(* The promise about the tree of names the volume stands for.              *)

FileTree == INSTANCE FileTree

(* Through allocation, block maps and directory blocks the volume behaves  *)
(* as a tree of named files: a call that returns true did exactly what it  *)
(* was asked to, a call that returns false changed nothing but the file it *)
(* was writing, and no call touches another file or directory.             *)
TreePromise == FileTree!Spec
=============================================================================
