------------------------------ MODULE FileTree ------------------------------
(***************************************************************************)
(* What include/ext2.h promises of write_file, mkdir and remove: a tree of *)
(* names with files and directories, changed by whole calls.               *)
(***************************************************************************)
EXTENDS Naturals, Sequences

CONSTANTS Paths, Contents

VARIABLES tree,   \* path -> <<"dir">> or <<"file", content>>
          last    \* the last call and its result

Hole == "hole"

Parent(p) == SubSeq(p, 1, Len(p) - 1)
ParentIsDir(T, p) == Len(p) = 1 \/ (Parent(p) \in DOMAIN T /\ T[Parent(p)] = <<"dir">>)
Put(T, p, v) == [q \in DOMAIN T \cup {p} |-> IF q = p THEN v ELSE T[q]]
Called(op, p, c, ok) == last' = [op |-> op, path |-> p, content |-> c, ok |-> ok]

\* Create or truncate, then write.  When space runs out the blocks that were
\* not written read as holes.
write_file(p, c) ==
  LET T == tree
      upto(k) == [j \in DOMAIN c |-> IF j <= k THEN c[j] ELSE Hole]
      mayWrite == ParentIsDir(T, p) /\ (p \in DOMAIN T => T[p] # <<"dir">>)
  IN  \/ /\ Called("write", p, c, TRUE)
         /\ mayWrite /\ tree' = Put(T, p, <<"file", c>>)
      \/ /\ Called("write", p, c, FALSE)
         /\ tree' \in {T} \cup (IF mayWrite THEN {Put(T, p, <<"file", upto(k)>>) : k \in 0 .. Len(c) - 1} ELSE {})

mkdir(p) ==
  LET T == tree
  IN  \/ /\ Called("mkdir", p, << >>, TRUE)
         /\ ParentIsDir(T, p) /\ p \notin DOMAIN T
         /\ tree' = Put(T, p, <<"dir">>)
      \/ Called("mkdir", p, << >>, FALSE) /\ tree' = T

\* A file, or an empty directory; refused exactly when there is neither.
remove(p) ==
  LET T == tree
      may == p \in DOMAIN T /\ \A q \in DOMAIN T : Len(q) > Len(p) => SubSeq(q, 1, Len(p)) # p
  IN  \/ /\ Called("remove", p, << >>, TRUE)
         /\ may /\ tree' = [q \in DOMAIN T \ {p} |-> T[q]]
      \/ Called("remove", p, << >>, FALSE) /\ ~may /\ tree' = T

Init == tree = << >> /\ last = [op |-> "mount", path |-> << >>, content |-> << >>, ok |-> TRUE]

Next == \E p \in Paths : \/ \E c \in Contents : write_file(p, c)
                         \/ mkdir(p) \/ remove(p)

Spec == Init /\ [][Next]_<<tree, last>>
=============================================================================
