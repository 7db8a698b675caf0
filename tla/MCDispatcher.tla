---------------------------- MODULE MCDispatcher -----------------------------
(* Dispatcher for TLC. *)
EXTENDS Dispatcher, TLC

CONSTANTS i1, i2, i3, w1, w2

Items2 == {i1, i2}
Items3 == {i1, i2, i3}
Workers1 == {w1}
Workers2 == {w1, w2}
Symmetry == Permutations(Items3) \cup Permutations(Workers2)

-----------------------------------------------------------------------------
\* A statement of the repository about the dispatcher that the code does not
\* keep, checked by a run that expects a violation.

\* src/transaction.rs:158-160 and src/metrics.rs:58-59: a transaction over 64
\* account locks is dropped "instead of burning a Jito rate-limit slot".
NoSlotForDoomed == \A i \in Item : outcome[i] = "account_locks" => slot[i] = "none"
=============================================================================
