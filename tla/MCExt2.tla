------------------------------- MODULE MCExt2 -------------------------------
(* Small volumes for Ext2: so few blocks that space runs out in every      *)
(* place where the code allocates.                                         *)
EXTENDS Ext2

\* Two names in the root, of which one can be a directory with two more.
TwoLevels == {<<"a">>, <<"b">>, <<"a", "a">>, <<"a", "b">>}
\* A file of one block, and one that needs the indirect block.
TwoFiles == {<<"x">>, <<"y", "z", "x">>}

\* No operation reads a block or an inode that is not allocated (alloc_block
\* zeroes, a new inode is written whole), nor the result of the last call.
View ==
  <<[fs EXCEPT !.data = [x \in Blocks |-> IF x \in fs.bmap THEN @[x] ELSE Zero],
               !.inode = [i \in Inodes |-> IF i \in fs.imap THEN @[i] ELSE NoInode]]>>
=============================================================================
