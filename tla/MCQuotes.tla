------------------------------- MODULE MCQuotes -------------------------------
(* Quotes for TLC: the free and the direct check of one token.  Plans pass
   one pool, two, a forbidden one, or a pool without a key; or they are no
   array.  (Metis is not bound to answer a direct request with one hop.) *)
EXTENDS Quotes

CONSTANTS e1, e2, t, a, b, x

Entries == {e1, e2}
MintOfEntry == [e \in Entries |-> t]
Directs == {e2}
Plans == [e \in Entries |->
    IF e = e1 THEN {NoPlan, <<a>>, <<b, a>>, <<x>>, <<NoKey>>} ELSE {<<a>>, <<b>>, <<NoKey, b>>}]
Forbiddens == {x}
Outputs == {2, 3}
MintList == <<t>>

\* Three years from the epoch, and the ends of the Februaries that matter.
DayList == 0 .. 1100 \cup 10985 .. 11050 \cup 16490 .. 16505 \cup 47530 .. 47545
=============================================================================
