----------------------------- MODULE MCAltTables -----------------------------
(* AltTables for TLC: two tables, one of which may hold the tip account, and
   two swaps that share an account and a table, one of which names a table twice. *)
EXTENDS AltTables, TLC

CONSTANTS w1, w2, t1, t2, a, b, payer, tipper

Workers == {w1, w2}
Tables == {t1, t2}
Accounts == {a, b, payer, tipper}
Tips == {tipper}
Payers == {payer}
Swaps == {[accounts |-> {a, b}, tables |-> <<t1, t2, t1>>], [accounts |-> {b}, tables |-> <<t2>>]}
Tables0 == { (t1 :> s) @@ (t2 :> <<b>>) : s \in {<<>>, <<a>>, <<b, a>>, <<tipper, a>>} }
Symmetry == Permutations(Workers)

-----------------------------------------------------------------------------
\* src/transaction.rs:21-22 and 107: "do NOT use ALTs for tip accounts", the
\* tip "MUST NOT be in ALT".  No position that a transaction names in a table
\* is a tip account's.
TipsStayOut == \A w \in Built : \A x \in LookedUp(w) : Resolved(w, x) \notin Tip
=============================================================================
