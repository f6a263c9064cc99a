------------------------------ MODULE DmaPages ------------------------------
(***************************************************************************)
(* Buffers as the disk drivers see them: a range of virtual addresses      *)
(* whose pages lie scattered in memory.  Sizes are in units of which       *)
(* PAGE_SZ make a page.                                                    *)
(***************************************************************************)
EXTENDS Integers

CONSTANT PAGE_SZ      \* units in a page

ASSUME PagesAssumption == PAGE_SZ \in Nat \ {0}

Ceil(a, b) == (a + b - 1) \div b
LowerOf(a, b) == IF a < b THEN a ELSE b

\* Where a virtual address lies: pages are mapped in reverse order, far away.
PagesOf(va, len) == va \div PAGE_SZ .. (va + len - 1) \div PAGE_SZ
Physical(va) == (100 - va \div PAGE_SZ) * PAGE_SZ + (va % PAGE_SZ)
=============================================================================
