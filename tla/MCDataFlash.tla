---------------------------- MODULE MCDataFlash ----------------------------
(***************************************************************************)
(* A small geometry for DataFlash: a window of two pages between two       *)
(* erase blocks that must not be touched, and 4-bit addresses.             *)
(***************************************************************************)
EXTENDS DataFlash

MCPatterns == {[i \in 0 .. Word - 1 |-> 0], [i \in 0 .. Word - 1 |-> (i + 1) % 2]}
=============================================================================
