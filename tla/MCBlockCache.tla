---------------------------- MODULE MCBlockCache ----------------------------
(* Small block caches for TLC. *)
EXTENDS BlockCache, TLC

Reliable == {TRUE}
Faulty == {TRUE, FALSE}
=============================================================================
