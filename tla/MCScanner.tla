------------------------------ MODULE MCScanner ------------------------------
(* Scanner for TLC: digits are bits and numbers have two of them; r1 and r2
   are two routes over the same pools, r3 has three hops, one without a key.
   On disk are no files, or one route, or both over the same pools: of this fee
   or a lower one, of an amount of this process, with an offset or without. *)
EXTENDS Scanner, TLC

CONSTANTS e1, e2, r1, r2, r3, h1, h2

Entries == {e1, e2}
Amounts == [e \in Entry |-> IF e = e2 THEN 2 ELSE 1]
DirectOnes == {e1}
Routes == {r1, r2, r3}
Plan == (r1 :> <<h1, h2>>) @@ (r2 :> <<h1, h2>>) @@ (r3 :> <<h1, h2, NoKey>>)
HopKeys == {h1, h2}
Before == {<<1, 0>>, <<1, 0, 0, 1>>}
After == {<<>>}
Earlier == {[amount |-> 2, fee |-> 0], [amount |-> 1, fee |-> 1]}
Patchable(r) == { t \in Loaded(r) : t.offset # {} }
Files ==
    {NoFiles}
    \cup { [routes |-> r :> t, pairs |-> Empty, hops |-> {}] : r \in {r3}, t \in Loaded(r3) }
    \cup { [routes |-> r1 :> t, pairs |-> <<h1, h2>> :> r1, hops |-> H]
            : t \in Loaded(r1), H \in {{h1}, {h1, h2}} }
    \cup { [routes |-> (r1 :> t) @@ (r2 :> u), pairs |-> <<h1, h2>> :> r2, hops |-> {h1, h2}]
            : t \in Loaded(r1) \ Patchable(r1), u \in Patchable(r2) }
AllOn == [serve_route |-> TRUE, save_new |-> TRUE, serve_from_metis |-> TRUE]
Configs == {AllOn, [AllOn EXCEPT !.serve_route = FALSE], [AllOn EXCEPT !.save_new = FALSE],
            [AllOn EXCEPT !.serve_from_metis = FALSE]}
=============================================================================
