---------------------------- MODULE MCAccountCache ----------------------------
(* AccountCache for TLC: a pool that is streamed and warmed up, and a mint
   that has to be fetched. *)
EXTENDS AccountCache, TLC

CONSTANTS pool, mint, c1, c2, main

Keys == {pool, mint}
Pools == {pool}
Callers == {c1, c2}
WarmUp == <<pool>>
Transactions == {<<pool, mint>>}
Symmetry == Permutations(Callers)
=============================================================================
