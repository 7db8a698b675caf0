--------------------------- MODULE MCTemplateStore ---------------------------
(* TemplateStore for TLC: a route over the two pools of p1, the only one with
   an entry in the index, and two routes of a single hop.  Templates cannot be
   patched, so what they serve is what they have cached. *)
EXTENDS TemplateStore, TLC

CONSTANTS s1, s2, s3, p1, h1, h2, d1, a1, a2

Sigs == {s1, s2, s3}
Pairs == {p1}
PairOfSig == [s \in Sig |-> IF s = s1 THEN p1 ELSE NoPair]
Hops == {h1, h2}
HopsOfSig == [s \in Sig |-> IF s = s1 THEN Hop ELSE {h1}]
Dexes == {d1}
DexOfHop == [h \in Hop |-> d1]
Amounts == {a1, a2}
NotFound == {FALSE}

\* The routes of one hop are alike, and so are the amounts.
Alike == Permutations({s2, s3}) \cup Permutations(Amount)
=============================================================================
