---------------------------- MODULE MCObjectHeap ----------------------------
(***************************************************************************)
(* Small instances of ObjectHeap.  Free blocks, and the addresses of the   *)
(* tasks that are spawned, are interchangeable.                            *)
(***************************************************************************)
EXTENDS ObjectHeap, TLC

CONSTANTS A, B, p, q, r

Interchangeable == Permutations(Block \ {Chan}) \union Permutations(Ctx \ {Main})
=============================================================================
