------------------------------- MODULE MCHeap -------------------------------
(* Two classes with two blocks in a slab, one of them with a rest, and     *)
(* runs of one to three of the four slabs that the descriptors leave.      *)
EXTENDS Heap

Sizes == <<3, 4>>
Asked == {2, 4, 8, 9, 17}
=============================================================================
