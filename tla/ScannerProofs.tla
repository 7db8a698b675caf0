---------------------------- MODULE ScannerProofs ----------------------------
(***************************************************************************)
(* Scanner, proved for every finite set of entries, all routes, amounts,   *)
(* fee, width and base of the numbers, and all plans Metis may answer.     *)
(*                                                                         *)
(* What a template is good for rests on what discover_offsets returns and  *)
(* patch_amounts writes: an offset it returns is where Metis put the two   *)
(* numbers (DiscoverRight), so patching there yields the instruction Metis *)
(* would build for the other amount (PatchRight, ServeRight).  Each stored *)
(* template and each answer is right in that sense (StoreRight), and so is *)
(* whatever is pushed.  HopsKnown and the funnel are inductive given Shape:*)
(* each step moves one entry on, and counts it once on either side of each *)
(* balance (Moves, FunnelMove).                                            *)
(***************************************************************************)
EXTENDS Scanner, FiniteSetTheorems, SequenceTheorems, TLAPS

\* The assumption, taken apart.
LEMMA Numbers ==
    /\ Width \in Nat \ {0} /\ Fee \in Nat /\ AmountOf \in [Entry -> Nat]
    /\ \A e \in Entry : AmountOf[e] \in Nat
    /\ IsFiniteSet(Entry) /\ None \notin Entry \cup Route
    /\ Pre \subseteq Seq(0 .. Base - 1) /\ Post \subseteq Seq(0 .. Base - 1)
    /\ NoKey \notin Hop /\ HopsOf \in [Route -> Seq(Hop \cup {NoKey})]
    /\ \A p \in Past : p.amount \in Nat /\ p.fee \in Nat /\ p = [amount |-> p.amount, fee |-> p.fee]
  BY ScannerAssumption DEF ScannerAssumption

-----------------------------------------------------------------------------
\* Instruction data: sequences of digits.

Digit == (0 .. Base - 1) \cup UNION { { LE(n)[i] : i \in 1 .. Width } : n \in Nat }

LEMMA LEDigits ==
    ASSUME NEW n \in Nat
    PROVE  LE(n) \in Seq(Digit) /\ Len(LE(n)) = Width
  <1>1. DOMAIN LE(n) = 1 .. Width /\ LE(n) = [i \in 1 .. Width |-> LE(n)[i]]
    BY DEF LE
  <1>2. \A i \in 1 .. Width : LE(n)[i] \in Digit
    BY DEF Digit
  <1>3. LE(n) \in [1 .. Width -> Digit]
    BY <1>1, <1>2
  <1>4. Width \in Nat
    BY Numbers
  <1>5. LE(n) \in Seq(Digit)
    BY <1>3, <1>4, SeqDef
  <1>6. Len(LE(n)) = Width
    BY <1>1, <1>4, <1>5, LenProperties
  <1> QED
    BY <1>5, <1>6

\* Where a piece of a sequence is, it is found.
LEMMA Piece ==
    ASSUME NEW S, NEW d \in Seq(S), NEW y \in Seq(S), NEW k \in Nat, k + Len(y) <= Len(d),
           \A i \in 1 .. Len(y) : d[k + i] = y[i]
    PROVE  SubSeq(d, k + 1, k + Len(y)) = y
  <1>1. Len(y) \in Nat /\ Len(d) \in Nat
    BY LenProperties
  <1>2. \A i \in k + 1 .. k + Len(y) : d[i] \in S
    BY <1>1, ElementOfSeq
  <1> DEFINE m == k + 1  n == k + Len(y)
  <1>3. m \in Int /\ n \in Int /\ \A i \in m .. n : d[i] \in S
    BY <1>1, <1>2
  <1>4. /\ SubSeq(d, m, n) \in Seq(S)
        /\ Len(SubSeq(d, m, n)) = IF m <= n THEN n - m + 1 ELSE 0
        /\ \A i \in 1 .. n - m + 1 : SubSeq(d, m, n)[i] = d[m + i - 1]
    <2> HIDE DEF m, n
    <2> QED
      BY <1>3, SubSeqProperties
  <1>5. Len(SubSeq(d, m, n)) = Len(y)
    BY <1>1, <1>4
  <1>6. ASSUME NEW i \in 1 .. Len(y)
        PROVE  SubSeq(d, m, n)[i] = y[i]
    <2>1. SubSeq(d, m, n)[i] = d[m + i - 1]
      BY <1>1, <1>4
    <2>2. m + i - 1 = k + i
      BY <1>1
    <2> QED
      BY <2>1, <2>2
  <1>7. SubSeq(d, m, n) = y
    <2> HIDE DEF m, n
    <2> QED
      BY <1>4, <1>5, <1>6, SeqEqual
  <1> QED
    BY <1>7

\* Two sequences in a row, and four.
LEMMA TwoInARow ==
    ASSUME NEW S, NEW s \in Seq(S), NEW t \in Seq(S)
    PROVE  /\ s \o t \in Seq(S) /\ Len(s \o t) = Len(s) + Len(t)
           /\ \A i \in 1 .. Len(s) : (s \o t)[i] = s[i]
           /\ \A i \in 1 .. Len(t) : (s \o t)[Len(s) + i] = t[i]
  <1>1. Len(s) \in Nat /\ Len(t) \in Nat
    BY LenProperties
  <1>2. /\ s \o t \in Seq(S) /\ Len(s \o t) = Len(s) + Len(t)
        /\ \A i \in 1 .. Len(s) + Len(t) : (s \o t)[i] = IF i <= Len(s) THEN s[i] ELSE t[i - Len(s)]
    BY ConcatProperties
  <1>3. PICK u : u = s \o t
    OBVIOUS
  <1>4. \A i \in 1 .. Len(s) + Len(t) : u[i] = IF i <= Len(s) THEN s[i] ELSE t[i - Len(s)]
    BY <1>2, <1>3
  <1>5. ASSUME NEW i \in 1 .. Len(s)
        PROVE  u[i] = s[i]
    <2>1. i \in 1 .. Len(s) + Len(t) /\ i <= Len(s)
      BY <1>1
    <2> QED
      BY <1>4, <2>1
  <1>6. ASSUME NEW i \in 1 .. Len(t)
        PROVE  u[Len(s) + i] = t[i]
    <2>1. Len(s) + i \in 1 .. Len(s) + Len(t) /\ ~(Len(s) + i <= Len(s)) /\ (Len(s) + i) - Len(s) = i
      BY <1>1
    <2>2. u[Len(s) + i] = t[(Len(s) + i) - Len(s)]
      BY <1>4, <2>1
    <2> QED
      BY <2>1, <2>2
  <1> QED
    BY <1>2, <1>3, <1>5, <1>6

LEMMA FourInARow ==
    ASSUME NEW S, NEW x \in Seq(S), NEW y \in Seq(S), NEW z \in Seq(S), NEW t \in Seq(S),
           NEW d, d = x \o y \o z \o t
    PROVE  /\ d \in Seq(S) /\ Len(d) = Len(x) + Len(y) + Len(z) + Len(t)
           /\ \A i \in 1 .. Len(x) : d[i] = x[i]
           /\ \A i \in 1 .. Len(y) : d[Len(x) + i] = y[i]
           /\ \A i \in 1 .. Len(z) : d[Len(x) + Len(y) + i] = z[i]
           /\ \A i \in 1 .. Len(t) : d[Len(x) + Len(y) + Len(z) + i] = t[i]
  <1>0. Len(x) \in Nat /\ Len(y) \in Nat /\ Len(z) \in Nat /\ Len(t) \in Nat
    BY LenProperties
  <1>1. PICK u : u = x \o y
    OBVIOUS
  <1>2. /\ u \in Seq(S) /\ Len(u) = Len(x) + Len(y)
        /\ \A i \in 1 .. Len(x) : u[i] = x[i]
        /\ \A i \in 1 .. Len(y) : u[Len(x) + i] = y[i]
    BY <1>1, TwoInARow
  <1>3. PICK v : v = u \o z
    OBVIOUS
  <1>4. /\ v \in Seq(S) /\ Len(v) = Len(u) + Len(z)
        /\ \A i \in 1 .. Len(u) : v[i] = u[i]
        /\ \A i \in 1 .. Len(z) : v[Len(u) + i] = z[i]
    <2>1. u \in Seq(S)
      BY <1>2
    <2>2. /\ u \o z \in Seq(S) /\ Len(u \o z) = Len(u) + Len(z)
          /\ \A i \in 1 .. Len(u) : (u \o z)[i] = u[i]
          /\ \A i \in 1 .. Len(z) : (u \o z)[Len(u) + i] = z[i]
      BY <2>1, TwoInARow
    <2> QED
      BY ONLY <1>3, <2>2
  <1>5. d = v \o t
    BY <1>1, <1>3
  <1>6. /\ d \in Seq(S) /\ Len(d) = Len(v) + Len(t)
        /\ \A i \in 1 .. Len(v) : d[i] = v[i]
        /\ \A i \in 1 .. Len(t) : d[Len(v) + i] = t[i]
    <2>1. v \in Seq(S)
      BY <1>4
    <2>2. /\ v \o t \in Seq(S) /\ Len(v \o t) = Len(v) + Len(t)
          /\ \A i \in 1 .. Len(v) : (v \o t)[i] = v[i]
          /\ \A i \in 1 .. Len(t) : (v \o t)[Len(v) + i] = t[i]
      BY <2>1, TwoInARow
    <2> QED
      BY ONLY <1>5, <2>2
  <1>7. ASSUME NEW i \in 1 .. Len(x)
        PROVE  d[i] = x[i]
    <2>1. i \in 1 .. Len(u) /\ i \in 1 .. Len(v)
      BY ONLY <1>0, <1>2, <1>4
    <2>2. d[i] = v[i] /\ v[i] = u[i] /\ u[i] = x[i]
      BY <1>2, <1>4, <1>6, <2>1
    <2> QED
      BY ONLY <2>2
  <1>8. ASSUME NEW i \in 1 .. Len(y)
        PROVE  d[Len(x) + i] = y[i]
    <2>1. Len(x) + i \in 1 .. Len(u) /\ Len(x) + i \in 1 .. Len(v)
      BY ONLY <1>0, <1>2, <1>4
    <2>2. d[Len(x) + i] = v[Len(x) + i] /\ v[Len(x) + i] = u[Len(x) + i]
      BY <1>4, <1>6, <2>1
    <2> QED
      BY ONLY <1>2, <2>2
  <1>9. ASSUME NEW i \in 1 .. Len(z)
        PROVE  d[Len(x) + Len(y) + i] = z[i]
    <2>1. Len(u) + i \in 1 .. Len(v)
      BY ONLY <1>0, <1>2, <1>4
    <2>2. d[Len(u) + i] = v[Len(u) + i] /\ v[Len(u) + i] = z[i]
      BY <1>4, <1>6, <2>1
    <2> QED
      BY ONLY <1>2, <2>2
  <1>10. \A i \in 1 .. Len(t) : d[Len(x) + Len(y) + Len(z) + i] = t[i]
    BY <1>2, <1>4, <1>6
  <1>11. Len(d) = Len(x) + Len(y) + Len(z) + Len(t)
    BY ONLY <1>2, <1>4, <1>6
  <1> QED
    BY <1>6, <1>7, <1>8, <1>9, <1>10, <1>11

\* A plan is of its route and made of digits.
Planned(plan) == plan.pre \in Seq(Digit) /\ plan.post \in Seq(Digit) /\ plan.out \in Nat

LEMMA PlansPlanned ==
    ASSUME NEW r, NEW a \in Nat, NEW fee \in Nat, NEW plan, plan \in Plans(r, a, fee)
    PROVE  plan.route = r /\ plan.amount = a /\ plan.fee = fee /\ Planned(plan)
  <1>1. plan \in [route : {r}, amount : {a}, fee : {fee}, pre : Pre, post : Post, out : Other \cup {a + fee}]
    BY DEF Plans
  <1>2. /\ plan.route = r /\ plan.amount = a /\ plan.fee = fee
        /\ plan.pre \in Pre /\ plan.post \in Post /\ plan.out \in Other \cup {a + fee}
    BY <1>1
  <1>3. plan.pre \in Seq(0 .. Base - 1) /\ plan.post \in Seq(0 .. Base - 1)
    BY <1>2, Numbers
  <1>4. (0 .. Base - 1) \subseteq Digit
    BY DEF Digit
  <1>5. plan.pre \in Seq(Digit) /\ plan.post \in Seq(Digit)
    BY <1>3, <1>4, SeqMonotonic
  <1>6. plan.out \in Nat
    <2>1. Other \subseteq Nat
      <3>1. PICK m : m = Base ^ Width - 1
        OBVIOUS
      <3>2. Other \subseteq 0 .. m
        BY <3>1, ScannerAssumption DEF ScannerAssumption
      <3> QED
        BY ONLY <3>2
    <2>2. a + fee \in Nat
      OBVIOUS
    <2> QED
      BY <1>2, <2>1, <2>2
  <1> QED
    BY <1>2, <1>5, <1>6 DEF Planned

\* Where the numbers are in what Metis builds.
LEMMA BuiltShape ==
    ASSUME NEW plan, NEW a \in Nat, NEW out \in Nat, Planned(plan)
    PROVE  LET d == Built(plan, a, out)
               k == Len(plan.pre)
           IN  /\ d \in Seq(Digit) /\ k \in Nat
               /\ Len(d) = k + 2 * Width + Len(plan.post) /\ Len(plan.post) \in Nat
               /\ Field(d, k + 1) = LE(a) /\ Field(d, k + 1 + Width) = LE(out)
               /\ SubSeq(d, 1, k) = plan.pre
               /\ SubSeq(d, k + 2 * Width + 1, Len(d)) = plan.post
  <1>0. PICK d : d = Built(plan, a, out)
    OBVIOUS
  <1>00. PICK k : k = Len(plan.pre)
    OBVIOUS
  <1> DEFINE pre == plan.pre  post == plan.post  first == LE(a)  second == LE(out)
  <1>1. /\ pre \in Seq(Digit) /\ post \in Seq(Digit)
        /\ first \in Seq(Digit) /\ second \in Seq(Digit)
        /\ Len(first) = Width /\ Len(second) = Width /\ Width \in Nat
    BY LEDigits, Numbers DEF Planned
  <1>2. d = pre \o first \o second \o post
    BY <1>0 DEF Built
  <1> HIDE DEF pre, post, first, second
  <1>3. k = Len(pre) /\ k \in Nat /\ Len(post) \in Nat
    <2>1. k = Len(pre)
      BY <1>00 DEF pre
    <2> QED
      BY <1>1, <2>1, LenProperties
  <1>4. /\ d \in Seq(Digit)
        /\ Len(d) = Len(pre) + Len(first) + Len(second) + Len(post)
        /\ \A i \in 1 .. Len(pre) : d[i] = pre[i]
        /\ \A i \in 1 .. Len(first) : d[Len(pre) + i] = first[i]
        /\ \A i \in 1 .. Len(second) : d[Len(pre) + Len(first) + i] = second[i]
        /\ \A i \in 1 .. Len(post) : d[Len(pre) + Len(first) + Len(second) + i] = post[i]
    <2>1. pre \in Seq(Digit) /\ first \in Seq(Digit) /\ second \in Seq(Digit) /\ post \in Seq(Digit)
      BY <1>1
    <2> QED
      BY ONLY <1>2, <2>1, FourInARow
  <1>5. Len(d) = k + 2 * Width + Len(post)
    BY ONLY <1>1, <1>3, <1>4
  <1>6. SubSeq(d, 0 + 1, 0 + Len(pre)) = pre
    <2>1. 0 + Len(pre) <= Len(d) /\ \A i \in 1 .. Len(pre) : d[0 + i] = pre[i]
      BY ONLY <1>1, <1>3, <1>4, <1>5
    <2> QED
      BY <1>1, <1>4, <2>1, Piece
  <1>7. SubSeq(d, k + 1, k + Len(first)) = first
    <2>1. k + Len(first) <= Len(d) /\ \A i \in 1 .. Len(first) : d[k + i] = first[i]
      BY ONLY <1>1, <1>3, <1>4, <1>5
    <2> QED
      BY <1>1, <1>3, <1>4, <2>1, Piece
  <1>8. SubSeq(d, (k + Width) + 1, (k + Width) + Len(second)) = second
    <2>1. /\ (k + Width) + Len(second) <= Len(d)
          /\ \A i \in 1 .. Len(second) : d[(k + Width) + i] = second[i]
          /\ k + Width \in Nat
      BY ONLY <1>1, <1>3, <1>4, <1>5
    <2> QED
      BY <1>1, <1>4, <2>1, Piece
  <1>9. SubSeq(d, (k + 2 * Width) + 1, (k + 2 * Width) + Len(post)) = post
    <2>1. /\ (k + 2 * Width) + Len(post) <= Len(d)
          /\ \A i \in 1 .. Len(post) : d[(k + 2 * Width) + i] = post[i]
          /\ k + 2 * Width \in Nat
      <3>1. k + 2 * Width = Len(pre) + Len(first) + Len(second) /\ k + 2 * Width \in Nat
        BY ONLY <1>1, <1>3
      <3> QED
        BY ONLY <1>3, <1>4, <1>5, <3>1
    <2> QED
      BY <1>1, <1>4, <2>1, Piece
  <1>10. Field(d, k + 1) = first
    <2>1. (k + 1) + Width - 1 = k + Len(first)
      BY ONLY <1>1, <1>3
    <2> QED
      BY <1>7, <2>1 DEF Field
  <1>11. Field(d, k + 1 + Width) = second
    <2>1. (k + 1 + Width) + Width - 1 = (k + Width) + Len(second) /\ k + 1 + Width = (k + Width) + 1
      BY ONLY <1>1, <1>3
    <2> QED
      BY <1>8, <2>1 DEF Field
  <1>12. SubSeq(d, 1, k) = pre /\ SubSeq(d, k + 2 * Width + 1, Len(d)) = post
    <2>1. 0 + 1 = 1 /\ 0 + Len(pre) = k /\ (k + 2 * Width) + Len(post) = Len(d)
      BY ONLY <1>1, <1>3, <1>5
    <2> QED
      BY ONLY <1>6, <1>9, <2>1
  <1> QED
    BY <1>0, <1>00, <1>3, <1>4, <1>5, <1>10, <1>11, <1>12 DEF pre, post, first, second


\* discover_offsets finds the amounts where they are, or nothing: either the
\* output stands behind the amount, or nothing that looks like it does.
LEMMA DiscoverRight ==
    ASSUME NEW r, NEW a \in Nat, NEW fee \in Nat, NEW plan, NEW p, plan \in Plans(r, a, fee),
           p \in discover_offsets(Built(plan, a, plan.out), a, a + fee)
    PROVE  p = Len(plan.pre) + 1
  <1> DEFINE d == Built(plan, a, plan.out)  k == Len(plan.pre)
             places == 1 .. Len(d) - 2 * Width + 1
             ins == { q \in places : Field(d, q) = LE(a) }
             both == { q \in ins : Field(d, q + Width) = LE(a + fee) }
             found == IF both # {} THEN both ELSE ins
  <1>1. Planned(plan) /\ plan.out \in Nat
    BY PlansPlanned DEF Planned
  <1>2. /\ k \in Nat /\ Len(d) = k + 2 * Width + Len(plan.post) /\ Len(plan.post) \in Nat
        /\ Field(d, k + 1) = LE(a) /\ Field(d, k + 1 + Width) = LE(plan.out)
    BY <1>1, BuiltShape
  <1>3. p \in found /\ Cardinality(found) = 1
    BY DEF discover_offsets
  <1>4. plan.out = a + fee \/ both = {}
    <2>1. \/ plan.out = a + fee
          \/ \A q \in places : Field(d, q) = LE(a) => Field(d, q + Width) # LE(a + fee)
      BY DEF Plans
    <2> QED
      BY <2>1
  <1> HIDE DEF d, k
  <1>5. k + 1 \in places /\ IsFiniteSet(places)
    <2>1. k + 1 \in places
      <3>1. Width \in Nat /\ Len(d) = k + 2 * Width + Len(plan.post)
        BY <1>2, Numbers
      <3>2. k + 1 \in 1 .. Len(d) - 2 * Width + 1
        <4>1. k \in Nat /\ Len(plan.post) \in Nat
          BY <1>2
        <4>2. PICK w : w = 2 * Width
          OBVIOUS
        <4>3. w \in Nat
          BY ONLY <3>1, <4>2
        <4>4. PICK m : m = Len(d)
          OBVIOUS
        <4>5. PICK n : n = Len(plan.post)
          OBVIOUS
        <4>6. m = k + w + n
          BY ONLY <3>1, <4>2, <4>4, <4>5
        <4>7. n \in Nat /\ k \in Nat
          BY ONLY <4>1, <4>5
        <4>8. k + 1 \in 1 .. m - w + 1
          BY ONLY <4>3, <4>6, <4>7
        <4> QED
          BY ONLY <4>2, <4>4, <4>8
      <3> QED
        BY <3>2
    <2>2. 1 \in Int /\ Len(d) - 2 * Width + 1 \in Int
      BY <1>2, Numbers
    <2> QED
      BY <2>1, <2>2, FS_Interval
  <1>6. k + 1 \in ins
    BY <1>2, <1>5
  <1>7. k + 1 \in found
    <2>1. CASE plan.out = a + fee
      BY <1>2, <1>6, <2>1
    <2>2. CASE both = {}
      BY <1>6, <2>2
    <2> QED
      BY <1>4, <2>1, <2>2
  <1>8. IsFiniteSet(found)
    BY <1>5, FS_Subset
  <1> HIDE DEF found
  <1>9. PICK x : found = {x}
    BY <1>3, <1>8, FS_Singleton
  <1> QED
    BY <1>3, <1>7, <1>9 DEF k

LEMMA DiscoverOne ==
    ASSUME NEW data, NEW a, NEW out
    PROVE  Cardinality(discover_offsets(data, a, out)) \in {0, 1}
  BY FS_EmptySet DEF discover_offsets

\* Patching at that place gives what Metis would have built.
LEMMA PatchRight ==
    ASSUME NEW plan, NEW a0 \in Nat, NEW a \in Nat, NEW out \in Nat, Planned(plan)
    PROVE  patch_amounts(Built(plan, a0, plan.out), Len(plan.pre) + 1, a, out) = { Built(plan, a, out) }
  <1>1. PICK d : d = Built(plan, a0, plan.out)
    OBVIOUS
  <1>2. PICK k : k = Len(plan.pre)
    OBVIOUS
  <1>3. Planned(plan) /\ plan.out \in Nat
    BY DEF Planned
  <1>4. /\ k \in Nat /\ Len(d) = k + 2 * Width + Len(plan.post) /\ Len(plan.post) \in Nat
        /\ SubSeq(d, 1, k) = plan.pre
        /\ SubSeq(d, k + 2 * Width + 1, Len(d)) = plan.post
    BY <1>1, <1>2, <1>3, BuiltShape
  <1>5. ~((k + 1) + 2 * Width - 1 > Len(d)) /\ (k + 1) - 1 = k /\ (k + 1) + 2 * Width = k + 2 * Width + 1
    <2>1. Width \in Nat
      BY Numbers
    <2>2. k \in Nat /\ Len(plan.post) \in Nat /\ Len(d) = k + 2 * Width + Len(plan.post)
      BY <1>4
    <2>3. PICK w : w = 2 * Width
      OBVIOUS
    <2>4. w \in Nat
      BY ONLY <2>1, <2>3
    <2>5. Len(d) = k + w + Len(plan.post)
      BY ONLY <2>2, <2>3
    <2>6. PICK m : m = Len(d)
      OBVIOUS
    <2>7. PICK n : n = Len(plan.post)
      OBVIOUS
    <2>8. m = k + w + n
      BY ONLY <2>5, <2>6, <2>7
    <2>9. n \in Nat /\ k \in Nat
      BY ONLY <2>2, <2>7
    <2>10. ~((k + 1) + w - 1 > m) /\ (k + 1) - 1 = k /\ (k + 1) + w = k + w + 1
      BY ONLY <2>4, <2>8, <2>9
    <2> QED
      BY ONLY <2>3, <2>6, <2>10
  <1>6. patch_amounts(d, k + 1, a, out)
          = { SubSeq(d, 1, (k + 1) - 1) \o LE(a) \o LE(out) \o SubSeq(d, (k + 1) + 2 * Width, Len(d)) }
    BY <1>5 DEF patch_amounts
  <1>7. patch_amounts(d, k + 1, a, out) = { plan.pre \o LE(a) \o LE(out) \o plan.post }
    BY ONLY <1>4, <1>5, <1>6
  <1> QED
    BY <1>1, <1>2, <1>7 DEF Built

-----------------------------------------------------------------------------
\* A stored template.

\* An answer of Metis for a route, an amount and a fee.
Answer(ix, r, a, fee) == \E plan \in Plans(r, a, fee) : ix = Instruction(plan)

\* This process asks with its own fee, an earlier one may have had another.
Asked(a, fee) == fee \in Nat /\ (fee = Fee \/ [amount |-> a, fee |-> fee] \in Past)

\* A template is one answer, with what it was asked for and where its amounts
\* are, and the answers it was given since, all by this process.
Template(t, r) ==
    /\ t = [base |-> t.base, in_amount |-> t.in_amount, quoted_out |-> t.quoted_out,
            offset |-> t.offset, variants |-> t.variants]
    /\ t.in_amount \in Nat
    /\ \E fee : /\ Asked(t.in_amount, fee) /\ t.quoted_out = t.in_amount + fee
               /\ Answer(t.base, r, t.in_amount, fee)
    /\ t.offset = discover_offsets(t.base.data, t.in_amount, t.quoted_out)
    /\ \A a \in DOMAIN t.variants : a \in Nat /\ Answer(t.variants[a], r, a, Fee)

\* What InstructionsRight says of an instruction.
Right(ix, r, a) ==
    /\ ix.plan.route = r
    /\ \/ ix = Instruction(ix.plan) /\ ix.plan.amount = a /\ ix.plan.fee = Fee
       \/ ix.data = Built(ix.plan, a, a + ix.plan.fee)
    /\ ix.plan.fee = Fee \/ [amount |-> ix.plan.amount, fee |-> ix.plan.fee] \in Past

LEMMA AnswerPlan ==
    ASSUME NEW r, NEW a \in Nat, NEW fee \in Nat, NEW ix, Answer(ix, r, a, fee)
    PROVE  /\ ix.plan \in Plans(r, a, fee) /\ ix = Instruction(ix.plan)
           /\ ix.plan.route = r /\ ix.plan.amount = a /\ ix.plan.fee = fee
           /\ ix.data = Built(ix.plan, a, ix.plan.out)
  <1>1. PICK plan : plan \in Plans(r, a, fee) /\ ix = Instruction(plan)
    BY DEF Answer
  <1>2. ix.plan = plan /\ ix.data = Built(plan, plan.amount, plan.out)
    BY <1>1 DEF Instruction
  <1>3. plan.route = r /\ plan.amount = a /\ plan.fee = fee
    BY <1>1, PlansPlanned
  <1> QED
    BY <1>1, <1>2, <1>3

LEMMA AnswerRight ==
    ASSUME NEW r, NEW a \in Nat, NEW ix, Answer(ix, r, a, Fee)
    PROVE  Right(ix, r, a)
  <1>1. /\ ix = Instruction(ix.plan)
        /\ ix.plan.route = r /\ ix.plan.amount = a /\ ix.plan.fee = Fee
    BY Numbers, AnswerPlan
  <1> QED
    BY <1>1 DEF Right

\* Whatever a template serves is right, and one with an offset always serves.
LEMMA ServeRight ==
    ASSUME NEW t, NEW r, Template(t, r), NEW a \in Nat
    PROVE  /\ \A ix \in serve_route(t, a) : Right(ix, r, a)
           /\ t.offset # {} => serve_route(t, a) # {}
  <1>1. CASE a \in DOMAIN t.variants
    <2>1. serve_route(t, a) = { t.variants[a] } /\ Answer(t.variants[a], r, a, Fee)
      BY <1>1 DEF serve_route, Template
    <2> QED
      BY <2>1, AnswerRight
  <1>2. CASE a \notin DOMAIN t.variants
    <2>1. PICK a0 : a0 = t.in_amount
      OBVIOUS
    <2>2. PICK fee : Asked(a0, fee) /\ t.quoted_out = a0 + fee /\ Answer(t.base, r, a0, fee)
      BY <2>1 DEF Template
    <2>3. a0 \in Nat /\ fee \in Nat /\ (fee = Fee \/ [amount |-> a0, fee |-> fee] \in Past)
      BY <2>1, <2>2 DEF Template, Asked
    <2>4. PICK plan : plan = t.base.plan
      OBVIOUS
    <2>5. /\ plan \in Plans(r, a0, fee) /\ plan.route = r /\ plan.amount = a0 /\ plan.fee = fee
          /\ t.base.data = Built(plan, a0, plan.out)
      BY <2>2, <2>3, <2>4, AnswerPlan
    <2>6. t.offset = discover_offsets(Built(plan, a0, plan.out), a0, a0 + fee)
      BY <2>1, <2>2, <2>5 DEF Template
    <2>7. PICK out : out = a + fee
      OBVIOUS
    <2>8. a + (t.quoted_out - t.in_amount) = out /\ out \in Nat
      BY <2>1, <2>2, <2>3, <2>7
    <2>9. PICK patches : patches = UNION { patch_amounts(t.base.data, p, a, out) : p \in t.offset }
      OBVIOUS
    <2>10. serve_route(t, a) = { [data |-> d, plan |-> plan] : d \in patches }
      BY <1>2, <2>4, <2>8, <2>9 DEF serve_route
    <2>11. \A p \in t.offset : patch_amounts(t.base.data, p, a, out) = { Built(plan, a, out) }
      <3>1. TAKE p \in t.offset
      <3>2. p = Len(plan.pre) + 1
        <4>1. p \in discover_offsets(Built(plan, a0, plan.out), a0, a0 + fee)
          BY <2>6, <3>1
        <4>2. a0 \in Nat /\ fee \in Nat /\ plan \in Plans(r, a0, fee)
          BY <2>3, <2>5
        <4> QED
          BY ONLY <4>1, <4>2, DiscoverRight
      <3>3. patch_amounts(Built(plan, a0, plan.out), Len(plan.pre) + 1, a, out) = { Built(plan, a, out) }
        <4>1. a0 \in Nat /\ a \in Nat /\ out \in Nat /\ Planned(plan)
          BY <2>3, <2>5, <2>8, PlansPlanned
        <4>2. \A o \in Nat : patch_amounts(Built(plan, a0, plan.out), Len(plan.pre) + 1, a, o)
                               = { Built(plan, a, o) }
          BY ONLY <4>1, PatchRight
        <4> QED
          BY ONLY <4>1, <4>2
      <3> QED
        BY ONLY <2>5, <3>2, <3>3
    <2>12. patches \subseteq { Built(plan, a, out) }
      BY <2>9, <2>11
    <2>13. t.offset # {} => Built(plan, a, out) \in patches
      BY <2>9, <2>11
    <2>14. ASSUME NEW ix \in serve_route(t, a)
           PROVE  Right(ix, r, a)
      <3>1. ix.plan = plan /\ ix.data = Built(plan, a, out)
        BY <2>10, <2>12, <2>14
      <3>2. ix.data = Built(ix.plan, a, a + ix.plan.fee)
        BY <2>5, <2>7, <3>1
      <3>3. ix.plan.fee = Fee \/ [amount |-> ix.plan.amount, fee |-> ix.plan.fee] \in Past
        BY <2>3, <2>5, <3>1
      <3> QED
        BY <2>5, <3>1, <3>2, <3>3 DEF Right
    <2>15. t.offset # {} => serve_route(t, a) # {}
      BY <2>10, <2>13
    <2> QED
      BY <2>14, <2>15
  <1> QED
    BY <1>1, <1>2

LEMMA NewTemplateRight ==
    ASSUME NEW r, NEW a \in Nat, NEW ix, Answer(ix, r, a, Fee)
    PROVE  Template(NewTemplate(ix, a, Floor(a)), r)
  <1>1. PICK t : t = NewTemplate(ix, a, Floor(a))
    OBVIOUS
  <1>2. /\ t = [base |-> t.base, in_amount |-> t.in_amount, quoted_out |-> t.quoted_out,
                offset |-> t.offset, variants |-> t.variants]
        /\ t.base = ix /\ t.in_amount = a /\ t.quoted_out = Floor(a)
        /\ t.offset = discover_offsets(ix.data, a, Floor(a))
        /\ t.variants = [b \in {a} |-> ix]
    BY <1>1 DEF NewTemplate
  <1>3. /\ Asked(t.in_amount, Fee) /\ t.quoted_out = t.in_amount + Fee
        /\ Answer(t.base, r, t.in_amount, Fee)
    BY <1>2, Numbers DEF Asked, Floor
  <1>4. t.offset = discover_offsets(t.base.data, t.in_amount, t.quoted_out)
    BY <1>2
  <1>5. \A b \in DOMAIN t.variants : b \in Nat /\ Answer(t.variants[b], r, b, Fee)
    BY <1>2
  <1>6. Template(t, r)
    BY <1>2, <1>3, <1>4, <1>5 DEF Template
  <1> QED
    BY <1>1, <1>6

\* What an earlier process saved is a template of its route.
LEMMA LoadedRight ==
    ASSUME NEW r \in Route, NEW t, t \in Loaded(r)
    PROVE  Template(t, r) /\ t.variants = Empty
  <1>1. PICK p \in Past : \E plan \in Plans(r, p.amount, p.fee) :
           t = [NewTemplate(Instruction(plan), p.amount, p.amount + p.fee) EXCEPT !.variants = Empty]
    BY DEF Loaded
  <1>2. PICK a, fee : a = p.amount /\ fee = p.fee
    OBVIOUS
  <1>3. a \in Nat /\ fee \in Nat /\ [amount |-> a, fee |-> fee] \in Past
    BY <1>2, Numbers
  <1>4. PICK plan : /\ plan \in Plans(r, a, fee)
                    /\ t = [NewTemplate(Instruction(plan), a, a + fee) EXCEPT !.variants = Empty]
    BY <1>1, <1>2
  <1>5. Answer(Instruction(plan), r, a, fee)
    BY <1>4 DEF Answer
  <1>6. PICK n, ix, out : ix = Instruction(plan) /\ out = a + fee /\ n = NewTemplate(ix, a, out)
    OBVIOUS
  <1>7. /\ n = [base |-> n.base, in_amount |-> n.in_amount, quoted_out |-> n.quoted_out,
                offset |-> n.offset, variants |-> n.variants]
        /\ n.base = ix /\ n.in_amount = a /\ n.quoted_out = out
        /\ n.offset = discover_offsets(ix.data, a, out)
    <2>1. n = NewTemplate(ix, a, out)
      BY <1>6
    <2> QED
      BY ONLY <2>1 DEF NewTemplate
  <1>8. t = [n EXCEPT !.variants = Empty]
    BY <1>4, <1>6
  <1>9. /\ t.base = ix /\ t.in_amount = a /\ t.quoted_out = out
        /\ t.offset = discover_offsets(t.base.data, a, out) /\ t.variants = Empty
        /\ t = [base |-> t.base, in_amount |-> t.in_amount, quoted_out |-> t.quoted_out,
                offset |-> t.offset, variants |-> t.variants]
    BY ONLY <1>7, <1>8
  <1>10. DOMAIN t.variants = {}
    BY <1>9 DEF Empty
  <1>11. \E f : /\ Asked(t.in_amount, f) /\ t.quoted_out = t.in_amount + f
                /\ Answer(t.base, r, t.in_amount, f)
    BY ONLY <1>3, <1>5, <1>6, <1>9 DEF Asked
  <1>12. Template(t, r)
    BY <1>3, <1>9, <1>10, <1>11 DEF Template
  <1> QED
    BY <1>9, <1>12

\* So is every route that a process starts with.
LEMMA DiskRight ==
    ASSUME Init
    PROVE  /\ DOMAIN store \subseteq Route
           /\ \A r \in DOMAIN store : Template(store[r], r) /\ store[r].variants = Empty
           /\ \A h \in DOMAIN index : index[h] \in Route /\ h \in Pair(index[h])
           /\ hops \subseteq Hop
  <1>1. PICK disk : disk \in Disk \cup {NoFiles} /\ store = disk.routes /\ index = disk.pairs /\ hops = disk.hops
    BY DEF Init
  <1>2. CASE disk \in Disk
    <2>1. /\ DOMAIN store \subseteq Route /\ \A r \in DOMAIN store : store[r] \in Loaded(r)
          /\ \A h \in DOMAIN index : index[h] \in Route /\ h \in Pair(index[h])
          /\ hops \subseteq Hop
      BY <1>1, <1>2, DiskAssumption
    <2>2. \A r \in DOMAIN store : Template(store[r], r) /\ store[r].variants = Empty
      BY <2>1, LoadedRight
    <2> QED
      BY <2>1, <2>2
  <1>3. CASE disk = NoFiles
    <2>1. store = Empty /\ index = Empty /\ hops = {}
      BY <1>1, <1>3 DEF NoFiles
    <2>2. DOMAIN store = {} /\ DOMAIN index = {}
      BY <2>1 DEF Empty
    <2> QED
      BY <2>1, <2>2
  <1> QED
    BY <1>1, <1>2, <1>3

-----------------------------------------------------------------------------
\* The scan: where every entry is, and what is known of it there.

Loops == {"next", "tier1", "hops", "pair", "metis"}
Answered == {"inserting", "recording", "pushing"}

Shape ==
    /\ config \in Config /\ loop \in Loops
    /\ step \in [Entry -> Steps]
    /\ route \in [Entry -> Route \cup {None}]
    /\ \A e \in Entry : step[e] \notin {"listed", "quoting", "done"} => route[e] \in Route
    /\ loop # "next" <=> \E e \in Entry : step[e] = "serving"
    /\ \A e, f \in Entry : step[e] = "serving" /\ step[f] = "serving" => e = f
    /\ DOMAIN answer = Entry
    /\ DOMAIN pushed = Entry
    /\ \A e \in Entry : step[e] # "done" => pushed[e] = {}
    /\ hops \subseteq Hop

\* What one entry's step does to the steps.
LEMMA GotoPointwise ==
    ASSUME NEW e \in Entry, NEW to, step \in [Entry -> Steps], Goto(e, to)
    PROVE  /\ step'[e] = to /\ \A f \in Entry \ {e} : step'[f] = step[f]
           /\ DOMAIN step' = Entry /\ (to \in Steps => step' \in [Entry -> Steps])
  BY DEF Goto

\* An entry that is not and will not be served: the loop stays where it is.
LEMMA ElsewhereShape ==
    ASSUME NEW e \in Entry, NEW to \in Steps \ {"serving"}, Shape, Goto(e, to),
           step[e] # "serving", step[e] # "done", config' = config, loop' = loop,
           route' \in [Entry -> Route \cup {None}],
           \A f \in Entry \ {e} : route'[f] = route[f],
           to \in {"quoting", "done"} \/ route'[e] \in Route,
           DOMAIN answer' = Entry, DOMAIN pushed' = Entry,
           \A f \in Entry \ {e} : pushed'[f] = pushed[f],
           to # "done" => pushed'[e] = pushed[e], hops' \subseteq Hop
    PROVE  Shape'
  <1>1. /\ step'[e] = to /\ \A f \in Entry \ {e} : step'[f] = step[f]
        /\ step' \in [Entry -> Steps]
    BY GotoPointwise DEF Shape
  <1>2. \A f \in Entry : step'[f] = "serving" <=> step[f] = "serving"
    BY <1>1
  <1>3. \A f \in Entry : step'[f] \notin {"listed", "quoting", "done"} => route'[f] \in Route
    BY <1>1 DEF Shape
  <1>4. \A f \in Entry : step'[f] # "done" => pushed'[f] = {}
    BY <1>1 DEF Shape
  <1> QED
    BY <1>1, <1>2, <1>3, <1>4 DEF Shape

\* The entry that is served leaves, and the loop goes on.
LEMMA LeaveShape ==
    ASSUME NEW e \in Entry, NEW to \in {"asking", "done"}, Shape, Goto(e, to),
           step[e] = "serving", config' = config, loop' = "next", route' = route, answer' = answer,
           DOMAIN pushed' = Entry, \A f \in Entry \ {e} : pushed'[f] = pushed[f],
           to # "done" => pushed'[e] = pushed[e], hops' = hops
    PROVE  Shape'
  <1>1. /\ step'[e] = to /\ \A f \in Entry \ {e} : step'[f] = step[f]
        /\ step' \in [Entry -> Steps]
    BY GotoPointwise DEF Shape, Steps
  <1>2. \A f \in Entry : step'[f] # "serving"
    BY <1>1 DEF Shape
  <1>3. \A f \in Entry : step'[f] \notin {"listed", "quoting", "done"} => route'[f] \in Route
    BY <1>1 DEF Shape
  <1>4. \A f \in Entry : step'[f] # "done" => pushed'[f] = {}
    BY <1>1 DEF Shape
  <1>5. ~(loop' # "next") /\ loop' \in Loops
    BY DEF Loops
  <1> QED
    BY <1>1, <1>2, <1>3, <1>4, <1>5 DEF Shape

\* The loop goes from one tier to another.
LEMMA TierShape ==
    ASSUME Shape, loop # "next", loop' \in Loops \ {"next"},
           UNCHANGED <<config, step, route, answer, pushed, hops>>
    PROVE  Shape'
  BY DEF Shape

LEMMA HopsOfRoute ==
    ASSUME NEW r \in Route
    PROVE  KeyedHops(r) \subseteq Hop
  <1>1. HopsOf[r] \in Seq(Hop \cup {NoKey})
    BY Numbers
  <1>2. ToSet(HopsOf[r]) \subseteq Hop \cup {NoKey}
    BY <1>1, LenProperties, ElementOfSeq DEF ToSet
  <1> QED
    BY <1>2 DEF KeyedHops

LEMMA ShapeInit ==
    ASSUME Init
    PROVE  Shape
  <1>1. hops \subseteq Hop
    BY DiskRight
  <1>2. \A e \in Entry : step[e] = "listed"
    BY DEF Init
  <1>3. config \in Config /\ loop = "next"
    BY DEF Init
  <1>4. step \in [Entry -> Steps] /\ route \in [Entry -> Route \cup {None}]
    BY DEF Init, Steps
  <1>5. DOMAIN answer = Entry /\ DOMAIN pushed = Entry /\ \A e \in Entry : pushed[e] = {}
    BY DEF Init
  <1> QED
    BY <1>1, <1>2, <1>3, <1>4, <1>5 DEF Shape, Loops

LEMMA ShapeNext ==
    ASSUME Shape, [Next]_vars
    PROVE  Shape'
  <1> USE DEF At
  <1>0. /\ route \in [Entry -> Route \cup {None}] /\ DOMAIN answer = Entry /\ DOMAIN pushed = Entry
        /\ step \in [Entry -> Steps] /\ hops \subseteq Hop /\ loop \in Loops
        /\ \A e \in Entry : step[e] \notin {"listed", "quoting", "done"} => route[e] \in Route
    BY DEF Shape
  <1>1. ASSUME NEW e \in Entry, StartQuote(e)
        PROVE  Shape'
    BY <1>0, <1>1, ElsewhereShape DEF StartQuote, Steps, storeVars
  <1>2. ASSUME NEW e \in Entry, NotQuoted(e)
        PROVE  Shape'
    BY <1>0, <1>2, ElsewhereShape DEF NotQuoted, Steps, storeVars
  <1>3. ASSUME NEW e \in Entry, Quoted(e)
        PROVE  Shape'
    <2>1. /\ route' \in [Entry -> Route \cup {None}] /\ route'[e] \in Route
          /\ \A f \in Entry \ {e} : route'[f] = route[f]
      BY <1>0, <1>3 DEF Quoted
    <2> QED
      BY <1>0, <1>3, <2>1, ElsewhereShape DEF Quoted, Steps, storeVars
  <1>4. ASSUME NEW e \in Entry, DropQuoted(e)
        PROVE  Shape'
    BY <1>0, <1>4, ElsewhereShape DEF DropQuoted, Drop, Steps, storeVars
  <1>5. ASSUME NEW e \in Entry, TakeQuoted(e)
        PROVE  Shape'
    <2>1. /\ step'[e] = "serving" /\ \A f \in Entry \ {e} : step'[f] = step[f]
          /\ step' \in [Entry -> Steps]
      BY <1>0, <1>5, GotoPointwise DEF TakeQuoted, Steps
    <2>2. /\ loop = "next" /\ loop' \in Loops /\ loop' # "next"
          /\ UNCHANGED <<config, route, answer, pushed, hops>> /\ step[e] = "quoted"
      BY <1>5 DEF TakeQuoted, Loops, storeVars
    <2>3. \A f \in Entry \ {e} : step'[f] # "serving"
      BY <2>1, <2>2 DEF Shape
    <2>4. /\ \A f \in Entry : step'[f] \notin {"listed", "quoting", "done"} => route'[f] \in Route
          /\ \A f \in Entry : step'[f] # "done" => pushed'[f] = {}
      BY <2>1, <2>2 DEF Shape
    <2> QED
      BY <2>1, <2>2, <2>3, <2>4 DEF Shape
  <1>6. ASSUME NEW e \in Entry, Tier1(e)
        PROVE  Shape'
    <2>1. ASSUME NEW ix, Push(e, ix, FromRam), loop' = "next"
          PROVE  Shape'
      BY <1>0, <1>6, <2>1, LeaveShape DEF Tier1, Push, storeVars
    <2>2. CASE loop' = "hops" /\ UNCHANGED <<step, count, pushed>>
      BY <1>6, <2>2, TierShape DEF Tier1, Loops, storeVars
    <2> QED
      BY <1>6, <2>1, <2>2 DEF Tier1
  <1>7. ASSUME NEW e \in Entry, CheckHops(e)
        PROVE  Shape'
    BY <1>7, TierShape DEF CheckHops, Loops, storeVars
  <1>8. ASSUME NEW e \in Entry, Tier2(e)
        PROVE  Shape'
    <2>1. ASSUME NEW ix, Push(e, ix, FromRam), loop' = "next"
          PROVE  Shape'
      BY <1>0, <1>8, <2>1, LeaveShape DEF Tier2, Push, storeVars
    <2>2. CASE loop' = "metis" /\ UNCHANGED <<step, count, pushed>>
      BY <1>8, <2>2, TierShape DEF Tier2, Loops, storeVars
    <2> QED
      BY <1>8, <2>1, <2>2 DEF Tier2
  <1>9. ASSUME NEW e \in Entry, Tier3(e)
        PROVE  Shape'
    BY <1>0, <1>9, LeaveShape DEF Tier3, Drop, storeVars
  <1>10. ASSUME NEW e \in Entry, NEW kind, MetisFails(e, kind)
         PROVE  Shape'
    BY <1>0, <1>10, ElsewhereShape DEF MetisFails, Steps, storeVars
  <1>11. ASSUME NEW e \in Entry, MetisAnswers(e)
         PROVE  Shape'
    <2>1. PICK to \in {"inserting", "pushing"} : Goto(e, to)
      BY <1>11 DEF MetisAnswers
    <2>2. to \in Steps \ {"serving"} /\ DOMAIN answer' = Entry /\ step[e] = "asking"
      BY <1>0, <1>11 DEF MetisAnswers, Steps
    <2>3. UNCHANGED <<config, loop, route, pushed, hops>>
      BY <1>11 DEF MetisAnswers, storeVars
    <2> QED
      BY <1>0, <2>1, <2>2, <2>3, ElsewhereShape
  <1>12. ASSUME NEW e \in Entry, insert_route(e)
         PROVE  Shape'
    BY <1>0, <1>12, ElsewhereShape DEF insert_route, Steps
  <1>13. ASSUME NEW e \in Entry, record_hops(e)
         PROVE  Shape'
    <2>1. hops' \subseteq Hop
      BY <1>0, <1>13, HopsOfRoute DEF record_hops
    <2> QED
      BY <1>0, <1>13, <2>1, ElsewhereShape DEF record_hops, Steps
  <1>14. ASSUME NEW e \in Entry, PushAnswer(e)
         PROVE  Shape'
    BY <1>0, <1>14, ElsewhereShape DEF PushAnswer, Push, Steps, storeVars
  <1>15. ASSUME NEW r \in Route, Evict(r)
         PROVE  Shape'
    BY <1>15 DEF Evict, Shape
  <1>16. CASE UNCHANGED vars
    BY <1>16 DEF vars, storeVars, Shape
  <1> QED
    BY <1>1, <1>2, <1>3, <1>4, <1>5, <1>6, <1>7, <1>8, <1>9, <1>10, <1>11, <1>12, <1>13, <1>14,
       <1>15, <1>16 DEF Next, quote_check, scan_all_tokens, metis_task, Finished

LEMMA ScannerShape == Spec => []Shape
  <1> QED
    BY ShapeInit, ShapeNext, PTL DEF Spec

-----------------------------------------------------------------------------
\* The store, its index, and the answers on their way into it.

StoreRight ==
    /\ DOMAIN store \subseteq Route
    /\ \A r \in DOMAIN store : Template(store[r], r)
    /\ \A h \in DOMAIN index : index[h] \in Route /\ HopsOf[index[h]] = h
    /\ \A e \in Entry : step[e] \in Answered => Answer(answer[e], route[e], AmountOf[e], Fee)

LEMMA PairOfRoute ==
    ASSUME NEW r \in Route, NEW h \in Pair(r)
    PROVE  h = HopsOf[r]
  BY DEF Pair

LEMMA StoreInit ==
    ASSUME Init
    PROVE  StoreRight
  <1>1. /\ DOMAIN store \subseteq Route /\ \A r \in DOMAIN store : Template(store[r], r)
        /\ \A h \in DOMAIN index : index[h] \in Route /\ h \in Pair(index[h])
    BY DiskRight
  <1>2. \A h \in DOMAIN index : HopsOf[index[h]] = h
    BY <1>1, PairOfRoute
  <1>3. \A e \in Entry : step[e] \notin Answered
    BY DEF Init, Answered
  <1> QED
    BY <1>1, <1>2, <1>3 DEF StoreRight

\* Nothing but an answer, its saving and an eviction concerns the store.
LEMMA StoreKept ==
    ASSUME StoreRight, UNCHANGED <<store, index>>,
           \A e \in Entry : step'[e] \in Answered =>
              step[e] \in Answered /\ answer'[e] = answer[e] /\ route'[e] = route[e]
    PROVE  StoreRight'
  BY DEF StoreRight

LEMMA StoreInsert ==
    ASSUME StoreRight, Shape, NEW e \in Entry, insert_route(e)
    PROVE  StoreRight'
  <1>1. PICK r : r = route[e]
    OBVIOUS
  <1>2. PICK a : a = AmountOf[e]
    OBVIOUS
  <1>3. step[e] = "inserting" /\ UNCHANGED <<route, answer>> /\ Goto(e, "recording")
    BY DEF insert_route, At
  <1>4. r \in Route /\ a \in Nat /\ Answer(answer[e], r, a, Fee)
    BY <1>1, <1>2, <1>3, Numbers DEF Shape, StoreRight, Answered
  <1>5. \A f \in Entry : step'[f] \in Answered => Answer(answer'[f], route'[f], AmountOf[f], Fee)
    <2>1. step \in [Entry -> Steps]
      BY DEF Shape
    <2>2. \A f \in Entry \ {e} : step'[f] = step[f]
      BY <1>3, <2>1, GotoPointwise
    <2> QED
      BY <1>1, <1>2, <1>3, <1>4, <2>2 DEF StoreRight
  <1>6. \A h \in DOMAIN index' : index'[h] \in Route /\ HopsOf[index'[h]] = h
    <2>1. index' = IF r \in DOMAIN store THEN index
                   ELSE [h \in DOMAIN index \cup Pair(r) |-> IF h \in DOMAIN index THEN index[h] ELSE r]
      BY <1>1 DEF insert_route
    <2>2. CASE r \in DOMAIN store
      BY <2>1, <2>2 DEF StoreRight
    <2>3. CASE r \notin DOMAIN store
      <3>1. TAKE h \in DOMAIN index'
      <3>2. h \in DOMAIN index \cup Pair(r) /\ index'[h] = IF h \in DOMAIN index THEN index[h] ELSE r
        BY <2>1, <2>3
      <3>3. CASE h \in DOMAIN index
        BY <3>2, <3>3 DEF StoreRight
      <3>4. CASE h \notin DOMAIN index
        BY <1>4, <3>2, <3>4, PairOfRoute
      <3> QED
        BY <3>3, <3>4
    <2> QED
      BY <2>2, <2>3
  <1>7. DOMAIN store' \subseteq Route /\ \A x \in DOMAIN store' : Template(store'[x], x)
    <2>1. store' = IF r \notin DOMAIN store THEN With(store, r, NewTemplate(answer[e], a, Floor(a)))
                   ELSE IF a \in DOMAIN store[r].variants THEN store
                   ELSE [store EXCEPT ![r].variants = With(@, a, answer[e])]
      BY <1>1, <1>2 DEF insert_route
    <2>2. CASE r \notin DOMAIN store
      <3>1. Template(NewTemplate(answer[e], a, Floor(a)), r)
        BY <1>4, NewTemplateRight
      <3>2. /\ DOMAIN store' = DOMAIN store \cup {r} /\ store'[r] = NewTemplate(answer[e], a, Floor(a))
            /\ \A x \in DOMAIN store : store'[x] = store[x]
        BY <2>1, <2>2 DEF With
      <3> QED
        BY <1>4, <3>1, <3>2 DEF StoreRight
    <2>3. CASE r \in DOMAIN store /\ a \in DOMAIN store[r].variants
      BY <2>1, <2>3 DEF StoreRight
    <2>4. CASE r \in DOMAIN store /\ a \notin DOMAIN store[r].variants
      <3>1. PICK t : t = store[r]
        OBVIOUS
      <3>2. Template(t, r)
        BY <2>4, <3>1 DEF StoreRight
      <3>3. store' = [store EXCEPT ![r].variants = With(@, a, answer[e])]
        BY <2>1, <2>4
      <3>4. /\ DOMAIN store' = DOMAIN store
            /\ \A x \in DOMAIN store \ {r} : store'[x] = store[x]
            /\ store'[r] = [t EXCEPT !.variants = With(@, a, answer[e])]
        BY <2>4, <3>1, <3>3
      <3>5. PICK v : v = With(t.variants, a, answer[e])
        OBVIOUS
      <3>6. /\ DOMAIN v = DOMAIN t.variants \cup {a} /\ v[a] = answer[e]
            /\ \A b \in DOMAIN t.variants : b # a => v[b] = t.variants[b]
        BY <3>5 DEF With
      <3>7. \A b \in DOMAIN v : b \in Nat /\ Answer(v[b], r, b, Fee)
        BY <1>4, <3>2, <3>6 DEF Template
      <3>8. t = [base |-> t.base, in_amount |-> t.in_amount, quoted_out |-> t.quoted_out,
                 offset |-> t.offset, variants |-> t.variants]
        BY <3>2 DEF Template
      <3>9. PICK u : u = [t EXCEPT !.variants = v]
        OBVIOUS
      <3>10. /\ u.base = t.base /\ u.in_amount = t.in_amount /\ u.quoted_out = t.quoted_out
             /\ u.offset = t.offset /\ u.variants = v
             /\ u = [base |-> u.base, in_amount |-> u.in_amount, quoted_out |-> u.quoted_out,
                     offset |-> u.offset, variants |-> u.variants]
        BY <3>8, <3>9
      <3>11. Template(u, r)
        BY <3>2, <3>7, <3>10 DEF Template
      <3>12. store'[r] = u
        BY <3>4, <3>5, <3>8, <3>9
      <3> QED
        BY <2>4, <3>4, <3>11, <3>12 DEF StoreRight
    <2> QED
      BY <2>2, <2>3, <2>4
  <1> QED
    BY <1>5, <1>6, <1>7 DEF StoreRight

LEMMA StoreNext ==
    ASSUME StoreRight, Shape, [Next]_vars
    PROVE  StoreRight'
  <1> USE DEF At
  <1>0. step \in [Entry -> Steps] /\ DOMAIN answer = Entry /\ route \in [Entry -> Route \cup {None}]
    BY DEF Shape
  <1>1. ASSUME NEW e \in Entry, quote_check(e) \/ scan_all_tokens(e)
        PROVE  StoreRight'
    <2>1. UNCHANGED <<store, index, answer>>
      BY <1>1 DEF quote_check, StartQuote, NotQuoted, Quoted, scan_all_tokens, DropQuoted,
                  TakeQuoted, Tier1, CheckHops, Tier2, Tier3, storeVars
    <2>2. /\ \A f \in Entry \ {e} : route'[f] = route[f]
          /\ route'[e] = route[e] \/ Goto(e, "quoted")
      BY <1>0, <1>1 DEF quote_check, StartQuote, NotQuoted, Quoted, scan_all_tokens, DropQuoted,
                        TakeQuoted, Tier1, CheckHops, Tier2, Tier3
    <2>3. step' = step \/ \E to \in Steps \ Answered : Goto(e, to)
      BY <1>1 DEF quote_check, StartQuote, NotQuoted, Quoted, scan_all_tokens, DropQuoted, Drop,
                  TakeQuoted, Tier1, CheckHops, Tier2, Tier3, Push, Steps, Answered
    <2>4. CASE step' = step
      <3>1. ~Goto(e, "quoted") \/ step[e] \notin Answered
        BY <1>0, <2>4 DEF Goto, Answered
      <3>2. \A f \in Entry : step'[f] \in Answered => step[f] \in Answered /\ route'[f] = route[f]
        BY <2>2, <2>4, <3>1
      <3> QED
        BY <2>1, <3>2, StoreKept
    <2>5. ASSUME NEW to \in Steps \ Answered, Goto(e, to)
          PROVE  StoreRight'
      <3>1. step'[e] \notin Answered /\ \A f \in Entry \ {e} : step'[f] = step[f]
        BY <1>0, <2>5, GotoPointwise
      <3>2. \A f \in Entry : step'[f] \in Answered => step[f] \in Answered /\ route'[f] = route[f]
        BY <2>2, <3>1
      <3> QED
        BY <2>1, <3>2, StoreKept
    <2> QED
      BY <2>3, <2>4, <2>5
  <1>2. ASSUME NEW e \in Entry, NEW kind, MetisFails(e, kind)
        PROVE  StoreRight'
    <2>1. UNCHANGED <<store, index, answer, route>> /\ Goto(e, "done")
      BY <1>2 DEF MetisFails, storeVars
    <2>2. step'[e] \notin Answered /\ \A f \in Entry \ {e} : step'[f] = step[f]
      BY <1>0, <2>1, GotoPointwise DEF Answered
    <2> QED
      BY <2>1, <2>2, StoreKept
  <1>3. ASSUME NEW e \in Entry, MetisAnswers(e)
        PROVE  StoreRight'
    <2>1. UNCHANGED <<store, index, route>>
      BY <1>3 DEF MetisAnswers, storeVars
    <2>2. PICK to : Goto(e, to)
      BY <1>3 DEF MetisAnswers
    <2>3. \A f \in Entry \ {e} : step'[f] = step[f] /\ answer'[f] = answer[f]
      BY <1>0, <1>3, <2>2, GotoPointwise DEF MetisAnswers
    <2>4. Answer(answer'[e], route'[e], AmountOf[e], Fee)
      BY <1>0, <1>3, <2>1 DEF MetisAnswers, Answer
    <2> QED
      BY <2>1, <2>3, <2>4 DEF StoreRight
  <1>4. ASSUME NEW e \in Entry, insert_route(e)
        PROVE  StoreRight'
    BY <1>4, StoreInsert
  <1>5. ASSUME NEW e \in Entry, record_hops(e)
        PROVE  StoreRight'
    <2>1. UNCHANGED <<store, index, answer, route>> /\ Goto(e, "pushing") /\ step[e] \in Answered
      BY <1>5 DEF record_hops, Answered
    <2>2. \A f \in Entry \ {e} : step'[f] = step[f]
      BY <1>0, <2>1, GotoPointwise
    <2> QED
      BY <2>1, <2>2, StoreKept
  <1>6. ASSUME NEW e \in Entry, PushAnswer(e)
        PROVE  StoreRight'
    <2>1. UNCHANGED <<store, index, answer, route>> /\ Goto(e, "done") /\ step[e] \in Answered
      BY <1>6 DEF PushAnswer, Push, storeVars, Answered
    <2>2. \A f \in Entry \ {e} : step'[f] = step[f]
      BY <1>0, <2>1, GotoPointwise
    <2> QED
      BY <2>1, <2>2, StoreKept
  <1>7. ASSUME NEW r \in Route, Evict(r)
        PROVE  StoreRight'
    <2>1. /\ DOMAIN store' = DOMAIN store \ {r} /\ \A x \in DOMAIN store' : store'[x] = store[x]
          /\ UNCHANGED <<index, step, route, answer>>
      BY <1>7 DEF Evict
    <2> QED
      BY <2>1 DEF StoreRight
  <1>8. CASE UNCHANGED vars
    BY <1>8 DEF vars, storeVars, StoreRight
  <1> QED
    BY <1>1, <1>2, <1>3, <1>4, <1>5, <1>6, <1>7, <1>8 DEF Next, metis_task, Finished

LEMMA ScannerStore == Spec => []StoreRight
  <1> QED
    BY StoreInit, StoreNext, ScannerShape, PTL DEF Spec

-----------------------------------------------------------------------------
\* What is pushed.

LEMMA ServedRight ==
    ASSUME NEW r, NEW a \in Nat, StoreRight
    PROVE  /\ \A ix \in Served(r, a) : Right(ix, r, a)
           /\ r \in DOMAIN store => (store[r].offset # {} => Served(r, a) # {})
  <1>1. CASE r \in DOMAIN store
    <2>1. PICK t : t = store[r]
      OBVIOUS
    <2>2. Template(t, r) /\ Served(r, a) = serve_route(t, a)
      BY <1>1, <2>1 DEF StoreRight, Served
    <2>3. /\ \A ix \in serve_route(t, a) : Right(ix, r, a)
          /\ t.offset # {} => serve_route(t, a) # {}
      BY <2>2, ServeRight
    <2> QED
      BY <2>1, <2>2, <2>3
  <1>2. CASE r \notin DOMAIN store
    BY <1>2 DEF Served
  <1> QED
    BY <1>1, <1>2

\* What InstructionsRight says of one entry.
PushRight(e, ix) ==
    \E r : Right(ix, r, AmountOf[e]) /\ (r = route[e] \/ HopsOf[r] = HopsOf[route[e]])

LEMMA PushesRight ==
    InstructionsRight <=> \A e \in Entry : \A ix \in pushed[e] : PushRight(e, ix)
  BY DEF InstructionsRight, PushRight, Right

\* A push of what is right leaves everything right.
LEMMA PushKeeps ==
    ASSUME NEW e \in Entry, NEW ix, NEW counters, InstructionsRight, Shape,
           Push(e, ix, counters), route' = route, PushRight(e, ix)
    PROVE  InstructionsRight'
  <1>1. /\ pushed'[e] = pushed[e] \cup {ix} /\ \A f \in Entry \ {e} : pushed'[f] = pushed[f]
    BY DEF Push, Shape
  <1>2. \A f \in Entry : \A x \in pushed'[f] : PushRight(f, x)
    BY <1>1, PushesRight
  <1>3. \A f \in Entry : \A x \in pushed'[f] : PushRight(f, x)'
    BY <1>2 DEF PushRight
  <1>4. InstructionsRight' <=> \A f \in Entry : \A x \in pushed'[f] : PushRight(f, x)'
    BY DEF InstructionsRight, PushRight, Right
  <1> QED
    BY <1>3, <1>4

LEMMA RightInit ==
    ASSUME Init
    PROVE  InstructionsRight
  BY DEF Init, InstructionsRight

LEMMA RightNext ==
    ASSUME InstructionsRight, Shape, StoreRight, [Next]_vars
    PROVE  InstructionsRight'
  <1> USE DEF At
  <1>0. /\ \A e \in Entry : AmountOf[e] \in Nat
        /\ \A e \in Entry : step[e] \notin {"listed", "quoting", "done"} => route[e] \in Route
        /\ route \in [Entry -> Route \cup {None}] /\ \A e \in Entry : step[e] # "done" => pushed[e] = {}
    BY Numbers DEF Shape
  <1>1. CASE UNCHANGED <<pushed, route>>
    BY <1>1 DEF InstructionsRight
  <1>2. ASSUME NEW e \in Entry, Quoted(e)
        PROVE  InstructionsRight'
    <2>1. /\ pushed' = pushed /\ pushed[e] = {} /\ \A f \in Entry \ {e} : route'[f] = route[f]
      BY <1>0, <1>2 DEF Quoted
    <2> QED
      BY <2>1 DEF InstructionsRight
  <1>3. ASSUME NEW e \in Entry, Tier1(e)
        PROVE  InstructionsRight'
    <2>1. ASSUME NEW ix \in Served(route[e], AmountOf[e]), Push(e, ix, FromRam)
          PROVE  InstructionsRight'
      <3>1. Right(ix, route[e], AmountOf[e])
        BY <1>0, <2>1, ServedRight
      <3>2. PushRight(e, ix) /\ route' = route
        BY <1>3, <3>1 DEF PushRight, Tier1
      <3> QED
        BY <2>1, <3>2, PushKeeps
    <2> QED
      BY <1>1, <1>3, <2>1 DEF Tier1
  <1>4. ASSUME NEW e \in Entry, Tier2(e)
        PROVE  InstructionsRight'
    <2>1. ASSUME NEW h \in Pair(route[e]), h \in DOMAIN index,
                 NEW ix \in Served(index[h], AmountOf[e]), Push(e, ix, FromRam)
          PROVE  InstructionsRight'
      <3>1. Right(ix, index[h], AmountOf[e])
        BY <1>0, <2>1, ServedRight
      <3>2. HopsOf[index[h]] = HopsOf[route[e]]
        BY <1>0, <1>4, <2>1, PairOfRoute DEF StoreRight, Tier2
      <3>3. PushRight(e, ix) /\ route' = route
        BY <1>4, <3>1, <3>2 DEF PushRight, Tier2
      <3> QED
        BY <2>1, <3>3, PushKeeps
    <2>2. \/ UNCHANGED <<pushed, route>>
          \/ \E h \in Pair(route[e]) \cap DOMAIN index :
                \E ix \in Served(index[h], AmountOf[e]) : Push(e, ix, FromRam)
      BY <1>4 DEF Tier2
    <2> QED
      BY <1>1, <2>1, <2>2
  <1>5. ASSUME NEW e \in Entry, PushAnswer(e)
        PROVE  InstructionsRight'
    <2>1. Answer(answer[e], route[e], AmountOf[e], Fee) /\ route' = route /\ Push(e, answer[e], {})
      BY <1>5 DEF PushAnswer, StoreRight, Answered
    <2>2. PushRight(e, answer[e])
      BY <1>0, <2>1, AnswerRight DEF PushRight
    <2> QED
      BY <2>1, <2>2, PushKeeps
  <1>6. ASSUME NEW e \in Entry,
               \/ StartQuote(e) \/ NotQuoted(e) \/ DropQuoted(e) \/ TakeQuoted(e) \/ CheckHops(e)
               \/ Tier3(e) \/ (\E kind \in {"timeout", "http", "network", "parse"} : MetisFails(e, kind))
               \/ MetisAnswers(e) \/ insert_route(e) \/ record_hops(e)
        PROVE  UNCHANGED <<pushed, route>>
    BY <1>6 DEF StartQuote, NotQuoted, DropQuoted, TakeQuoted, CheckHops, Tier3, MetisFails, MetisAnswers,
                insert_route, record_hops
  <1>7. ASSUME NEW r \in Route, Evict(r)
        PROVE  UNCHANGED <<pushed, route>>
    BY <1>7 DEF Evict
  <1>8. CASE UNCHANGED vars
    BY <1>1, <1>8 DEF vars
  <1> QED
    BY <1>1, <1>2, <1>3, <1>4, <1>5, <1>6, <1>7, <1>8
       DEF Next, quote_check, scan_all_tokens, metis_task, Finished

\* Whatever tier it comes from, and however the store was filled and emptied,
\* an instruction that scan_all_tokens or its Metis task pushes for an entry is
\* for the entry's amount, over its pools, and is what Metis builds.
THEOREM ScannerInstructionsRight == Spec => []InstructionsRight
  <1> QED
    BY RightInit, RightNext, ScannerShape, ScannerStore, PTL DEF Spec

-----------------------------------------------------------------------------
\* The hops of a route that was learned.

\* The hops of a route that this process learned are recorded, those with a key.
Recorded ==
    \A r \in DOMAIN store :
       \/ DOMAIN store[r].variants = {}
       \/ \E e \in Entry : At(e, "recording") /\ route[e] = r
       \/ KeyedHops(r) \subseteq hops

LEMMA HopsInit ==
    ASSUME Init
    PROVE  Recorded
  <1>1. \A r \in DOMAIN store : store[r].variants = Empty
    BY DiskRight
  <1>2. DOMAIN Empty = {}
    BY DEF Empty
  <1> QED
    BY <1>1, <1>2 DEF Recorded

\* No step but record_hops takes an entry from recording, and hops only grow.
LEMMA HopsKept ==
    ASSUME Recorded, hops \subseteq hops',
           \A r \in DOMAIN store' : r \in DOMAIN store /\ store'[r] = store[r],
           \A e \in Entry : step[e] = "recording" =>
              \/ step'[e] = "recording" /\ route'[e] = route[e]
              \/ KeyedHops(route[e]) \subseteq hops'
    PROVE  Recorded'
  BY DEF Recorded, At

LEMMA HopsNext ==
    ASSUME Recorded, Shape, StoreRight, [Next]_vars
    PROVE  Recorded'
  <1> USE DEF At
  <1>0. step \in [Entry -> Steps] /\ route \in [Entry -> Route \cup {None}]
    BY DEF Shape
  <1>1. ASSUME NEW e \in Entry, insert_route(e)
        PROVE  Recorded'
    <2>1. PICK r : r = route[e]
      OBVIOUS
    <2>2. PICK a : a = AmountOf[e]
      OBVIOUS
    <2>3. /\ step[e] = "inserting" /\ Goto(e, "recording") /\ UNCHANGED <<route, hops>>
          /\ store' = IF r \notin DOMAIN store THEN With(store, r, NewTemplate(answer[e], a, Floor(a)))
                      ELSE IF a \in DOMAIN store[r].variants THEN store
                      ELSE [store EXCEPT ![r].variants = With(@, a, answer[e])]
      BY <1>1, <2>1, <2>2 DEF insert_route
    <2>4. \A x \in DOMAIN store' \ {r} : x \in DOMAIN store /\ store'[x] = store[x]
      <3>1. CASE r \notin DOMAIN store
        BY <2>3, <3>1 DEF With
      <3>2. CASE r \in DOMAIN store
        BY <2>3, <3>2
      <3> QED
        BY <3>1, <3>2
    <2>5. step'[e] = "recording" /\ \A f \in Entry \ {e} : step'[f] = step[f]
      BY <1>0, <2>3, GotoPointwise
    <2>6. step'[e] = "recording" /\ route'[e] = r
      BY <2>1, <2>3, <2>5
    <2>7. \A f \in Entry : step[f] = "recording" => step'[f] = "recording" /\ route'[f] = route[f]
      BY <2>3, <2>5
    <2> QED
      BY <2>3, <2>4, <2>6, <2>7 DEF Recorded
  <1>2. ASSUME NEW e \in Entry, record_hops(e)
        PROVE  Recorded'
    <2>1. /\ Goto(e, "pushing") /\ UNCHANGED <<route, store>> /\ hops \subseteq hops'
          /\ KeyedHops(route[e]) \subseteq hops'
      BY <1>2 DEF record_hops
    <2>2. \A f \in Entry \ {e} : step'[f] = step[f]
      BY <1>0, <2>1, GotoPointwise
    <2> QED
      BY <2>1, <2>2, HopsKept
  <1>3. ASSUME NEW e \in Entry, step[e] # "recording", step' = step \/ \E to : Goto(e, to),
               UNCHANGED <<store, hops>>, \A f \in Entry \ {e} : route'[f] = route[f]
        PROVE  Recorded'
    <2>1. \A f \in Entry \ {e} : step'[f] = step[f]
      BY <1>0, <1>3, GotoPointwise
    <2> QED
      BY <1>3, <2>1, HopsKept
  <1>4. ASSUME NEW e \in Entry,
               \/ quote_check(e) \/ scan_all_tokens(e) \/ MetisAnswers(e) \/ PushAnswer(e)
               \/ \E kind \in {"timeout", "http", "network", "parse"} : MetisFails(e, kind)
        PROVE  Recorded'
    <2>1. step[e] # "recording" /\ UNCHANGED <<store, hops>>
      BY <1>4 DEF quote_check, StartQuote, NotQuoted, Quoted, scan_all_tokens, DropQuoted, TakeQuoted,
                  Tier1, CheckHops, Tier2, Tier3, MetisFails, MetisAnswers, PushAnswer, storeVars
    <2>2. \A f \in Entry \ {e} : route'[f] = route[f]
      BY <1>0, <1>4 DEF quote_check, StartQuote, NotQuoted, Quoted, scan_all_tokens, DropQuoted,
                  TakeQuoted, Tier1, CheckHops, Tier2, Tier3, MetisFails, MetisAnswers, PushAnswer
    <2>3. step' = step \/ \E to : Goto(e, to)
      BY <1>4 DEF quote_check, StartQuote, NotQuoted, Quoted, scan_all_tokens, DropQuoted, Drop,
                  TakeQuoted, Tier1, CheckHops, Tier2, Tier3, Push, MetisFails, MetisAnswers, PushAnswer
    <2> QED
      BY <1>3, <2>1, <2>2, <2>3
  <1>5. ASSUME NEW r \in Route, Evict(r)
        PROVE  Recorded'
    BY <1>5, HopsKept DEF Evict
  <1>6. CASE UNCHANGED vars
    BY <1>6, HopsKept DEF vars, storeVars
  <1> QED
    BY <1>1, <1>2, <1>4, <1>5, <1>6 DEF Next, metis_task, Finished

\* With hops all keyed the route's hops are all hit, and otherwise never.
LEMMA KnownIfRecorded ==
    ASSUME Recorded, Shape, StoreRight
    PROVE  HopsKnown
  <1>1. ASSUME NEW r \in DOMAIN store, KeyedHops(r) \subseteq hops
        PROVE  AllHit(r) <=> NoKey \notin ToSet(HopsOf[r])
    <2>1. NoKey \notin hops
      BY Numbers DEF Shape
    <2> QED
      BY <1>1, <2>1 DEF AllHit, KeyedHops
  <1> QED
    BY <1>1 DEF HopsKnown, Recorded

\* A route that this process learned has its hops recorded, or the task that
\* learned it is just about to: insert_route and record_hops never leave a route
\* with keys that Tier 2 cannot reach, and it never opens for one without.
THEOREM ScannerHopsKnown == Spec => []HopsKnown
  <1> QED
    BY HopsInit, HopsNext, KnownIfRecorded, ScannerShape, ScannerStore, PTL DEF Spec

-----------------------------------------------------------------------------
\* The funnel: every entry is in one place and every counter has its share.

\* The balances, and those that bound the other counters.
Funnel ==
    /\ count \in [Counter -> Nat]
    /\ FunnelBalances
    /\ count["metis_resp_total"] = count["route_ok"]
    /\ count["metis_resp_ok"] = count["profitable"]
    /\ count["route_template_hit"] = count["ix_from_ram"]

\* What an entry counts on its way from one place to the next.
Move(from, to, S) ==
    \/ from = "listed" /\ to = "quoting" /\ S = {}
    \/ from = "quoting" /\ to = "done" /\ S = {"route_fail"}
    \/ from = "quoting" /\ to = "done" /\ S = {"route_ok", "metis_resp_total", "not_profitable"}
    \/ from = "quoting" /\ to = "quoted"
       /\ S = {"route_ok", "metis_resp_total", "profitable", "metis_resp_ok"}
    \/ from = "quoted" /\ to = "done" /\ S = {"dropped_multi_hop", "tx_dropped"}
    \/ from = "quoted" /\ to = "done" /\ S = {"dropped_merge_fail", "tx_dropped"}
    \/ from = "quoted" /\ to = "serving" /\ S = {}
    \/ from = "serving" /\ to = "done" /\ S = FromRam \cup {"queue_in"}
    \/ from = "serving" /\ to = "done" /\ S = {"dropped_no_serve", "tx_dropped"}
    \/ from = "serving" /\ to = "asking" /\ S = {}
    \/ from = "asking" /\ to = "done"
       /\ \E kind \in {"timeout", "http", "network", "parse"} : S = {"swap_ix_failed", "tx_dropped", kind}
    \/ from = "asking" /\ to \in {"inserting", "pushing"} /\ S = {"swap_ix_ok", "ix_from_metis"}
    \/ from = "inserting" /\ to = "recording" /\ S = {}
    \/ from = "recording" /\ to = "pushing" /\ S = {}
    \/ from = "pushing" /\ to = "done" /\ S = {} \cup {"queue_in"}

LEMMA CountsNothing ==
    ASSUME count \in [Counter -> Nat], UNCHANGED count
    PROVE  Counts({})
  BY DEF Counts

LEMMA Moves ==
    ASSUME [Next]_vars, count \in [Counter -> Nat]
    PROVE  \/ UNCHANGED <<step, count>>
           \/ \E e \in Entry : \E to, S : Goto(e, to) /\ Move(step[e], to, S) /\ Counts(S)
  <1> USE DEF At
  <1> DEFINE Goal == \/ UNCHANGED <<step, count>>
                     \/ \E e \in Entry : \E to, S : Goto(e, to) /\ Move(step[e], to, S) /\ Counts(S)
  <1>1. ASSUME NEW e \in Entry, StartQuote(e)
        PROVE  Goal
    <2>1. Goto(e, "quoting") /\ Move(step[e], "quoting", {}) /\ Counts({})
      BY <1>1, CountsNothing DEF StartQuote, Move
    <2> QED
      BY <2>1
  <1>2. ASSUME NEW e \in Entry, NotQuoted(e)
        PROVE  Goal
    <2>1. PICK S \in { {"route_fail"}, {"route_ok", "metis_resp_total", "not_profitable"} } : Counts(S)
      BY <1>2 DEF NotQuoted
    <2>2. Goto(e, "done") /\ Move(step[e], "done", S)
      BY <1>2, <2>1 DEF NotQuoted, Move
    <2> QED
      BY <2>1, <2>2
  <1>3. ASSUME NEW e \in Entry, Quoted(e)
        PROVE  Goal
    <2>1. PICK S : S = {"route_ok", "metis_resp_total", "profitable", "metis_resp_ok"}
      OBVIOUS
    <2>2. Goto(e, "quoted") /\ Move(step[e], "quoted", S) /\ Counts(S)
      BY <1>3, <2>1 DEF Quoted, Move
    <2> QED
      BY <2>2
  <1>4. ASSUME NEW e \in Entry, DropQuoted(e)
        PROVE  Goal
    <2>1. PICK reason \in {"dropped_multi_hop", "dropped_merge_fail"} : Drop(e, reason)
      BY <1>4 DEF DropQuoted
    <2>2. Goto(e, "done") /\ Move(step[e], "done", {reason, "tx_dropped"}) /\ Counts({reason, "tx_dropped"})
      BY <1>4, <2>1 DEF DropQuoted, Drop, Move
    <2> QED
      BY <2>2
  <1>5. ASSUME NEW e \in Entry, TakeQuoted(e)
        PROVE  Goal
    <2>1. Goto(e, "serving") /\ Move(step[e], "serving", {}) /\ Counts({})
      BY <1>5, CountsNothing DEF TakeQuoted, Move
    <2> QED
      BY <2>1
  <1>6. ASSUME NEW e \in Entry, Tier1(e) \/ Tier2(e)
        PROVE  Goal
    <2>1. ASSUME NEW ix, Push(e, ix, FromRam)
          PROVE  Goal
      <3>1. PICK S : S = FromRam \cup {"queue_in"}
        OBVIOUS
      <3>2. Goto(e, "done") /\ Move(step[e], "done", S) /\ Counts(S)
        BY <1>6, <2>1, <3>1 DEF Tier1, Tier2, Push, Move
      <3> QED
        BY <3>2
    <2>2. (\E ix : Push(e, ix, FromRam)) \/ UNCHANGED <<step, count>>
      BY <1>6 DEF Tier1, Tier2
    <2> QED
      BY <2>1, <2>2
  <1>7. ASSUME NEW e \in Entry, Tier3(e)
        PROVE  Goal
    <2>1. CASE Goto(e, "asking") /\ UNCHANGED count
      <3>1. Move(step[e], "asking", {}) /\ Counts({})
        BY <1>7, <2>1, CountsNothing DEF Tier3, Move
      <3> QED
        BY <2>1, <3>1
    <2>2. CASE Drop(e, "dropped_no_serve")
      <3>1. PICK S : S = {"dropped_no_serve", "tx_dropped"}
        OBVIOUS
      <3>2. Goto(e, "done") /\ Move(step[e], "done", S) /\ Counts(S)
        BY <1>7, <2>2, <3>1 DEF Tier3, Drop, Move
      <3> QED
        BY <3>2
    <2> QED
      BY <1>7, <2>1, <2>2 DEF Tier3
  <1>8. ASSUME NEW e \in Entry, NEW kind \in {"timeout", "http", "network", "parse"}, MetisFails(e, kind)
        PROVE  Goal
    <2>1. PICK S : S = {"swap_ix_failed", "tx_dropped", kind}
      OBVIOUS
    <2>2. Goto(e, "done") /\ Counts(S) /\ step[e] = "asking"
      BY <1>8, <2>1 DEF MetisFails
    <2>3. Move(step[e], "done", S)
      BY <2>1, <2>2 DEF Move
    <2> QED
      BY <2>2, <2>3
  <1>9. ASSUME NEW e \in Entry, MetisAnswers(e)
        PROVE  Goal
    <2>1. PICK S : S = {"swap_ix_ok", "ix_from_metis"}
      OBVIOUS
    <2>2. PICK to \in {"inserting", "pushing"} : Goto(e, to)
      BY <1>9 DEF MetisAnswers
    <2>3. Move(step[e], to, S) /\ Counts(S)
      BY <1>9, <2>1, <2>2 DEF MetisAnswers, Move
    <2> QED
      BY <2>2, <2>3
  <1>10. ASSUME NEW e \in Entry, insert_route(e)
         PROVE  Goal
    <2>1. Goto(e, "recording") /\ Move(step[e], "recording", {}) /\ Counts({})
      BY <1>10, CountsNothing DEF insert_route, Move
    <2> QED
      BY <2>1
  <1>11. ASSUME NEW e \in Entry, record_hops(e)
         PROVE  Goal
    <2>1. Goto(e, "pushing") /\ Move(step[e], "pushing", {}) /\ Counts({})
      BY <1>11, CountsNothing DEF record_hops, Move
    <2> QED
      BY <2>1
  <1>12. ASSUME NEW e \in Entry, PushAnswer(e)
         PROVE  Goal
    <2>1. PICK S : S = {} \cup {"queue_in"}
      OBVIOUS
    <2>2. Goto(e, "done") /\ Counts(S) /\ step[e] = "pushing"
      BY <1>12, <2>1 DEF PushAnswer, Push
    <2>3. Move(step[e], "done", S)
      BY <2>1, <2>2 DEF Move
    <2> QED
      BY <2>2, <2>3
  <1>13. ASSUME \/ UNCHANGED vars \/ (\E r \in Route : Evict(r)) \/ (\E e \in Entry : CheckHops(e))
         PROVE  Goal
    BY <1>13 DEF vars, Evict, CheckHops
  <1> HIDE DEF Goal
  <1>14. Goal
    BY <1>1, <1>2, <1>3, <1>4, <1>5, <1>6, <1>7, <1>8, <1>9, <1>10, <1>11, <1>12, <1>13
       DEF Next, quote_check, scan_all_tokens, metis_task, Finished
  <1> QED
    BY <1>14 DEF Goal

\* One entry more in the places of its new step, and one less in those of its old.
One(b) == IF b THEN 1 ELSE 0

LEMMA InStateNat ==
    ASSUME NEW S
    PROVE  InState(S) \in Nat /\ InState(S) <= Cardinality(Entry)
  <1>1. { f \in Entry : step[f] \in S } \subseteq Entry
    OBVIOUS
  <1>2. IsFiniteSet(Entry)
    BY Numbers
  <1> QED
    BY <1>1, <1>2, FS_Subset, FS_CardinalityType DEF InState

LEMMA InStateMove ==
    ASSUME NEW S, NEW e \in Entry, NEW to, step \in [Entry -> Steps], Goto(e, to)
    PROVE  InState(S)' + One(step[e] \in S) = InState(S) + One(to \in S)
  <1>1. /\ step'[e] = to /\ \A f \in Entry \ {e} : step'[f] = step[f]
    BY GotoPointwise
  <1>2. PICK B : B = { f \in Entry : step[f] \in S }
    OBVIOUS
  <1>3. PICK A : A = { f \in Entry : step'[f] \in S }
    OBVIOUS
  <1>4. IsFiniteSet(A) /\ IsFiniteSet(B)
    BY <1>2, <1>3, Numbers, FS_Subset
  <1>5. Cardinality(A) \in Nat /\ Cardinality(B) \in Nat
    BY <1>4, FS_CardinalityType
  <1>6. Cardinality(B \cup {e}) = IF e \in B THEN Cardinality(B) ELSE Cardinality(B) + 1
    BY <1>4, FS_AddElement
  <1>7. Cardinality(A \cup {e}) = IF e \in A THEN Cardinality(A) ELSE Cardinality(A) + 1
    BY <1>4, FS_AddElement
  <1>8. A \cup {e} = B \cup {e}
    BY <1>1, <1>2, <1>3
  <1>9. (e \in B <=> step[e] \in S) /\ (e \in A <=> to \in S)
    BY <1>1, <1>2, <1>3
  <1>10. InState(S) = Cardinality(B) /\ InState(S)' = Cardinality(A)
    BY <1>2, <1>3 DEF InState
  <1>11. Cardinality(A) + One(e \in B) = Cardinality(B) + One(e \in A)
    BY <1>5, <1>6, <1>7, <1>8 DEF One
  <1> QED
    BY <1>9, <1>10, <1>11 DEF One

LEMMA CountsMove ==
    ASSUME NEW S, count \in [Counter -> Nat], Counts(S)
    PROVE  /\ count' \in [Counter -> Nat]
           /\ \A c \in Counter : count'[c] = count[c] + One(c \in S)
  BY DEF Counts, One

\* Where an entry may be, for the balances.
Waiting == {"listed", "quoting"}
Candidate == {"quoted", "serving", "asking"}

LEMMA FunnelMove ==
    ASSUME Funnel, step \in [Entry -> Steps], NEW e \in Entry, NEW to, NEW S,
           Goto(e, to), Move(step[e], to, S), Counts(S)
    PROVE  Funnel'
  <1>1. /\ InState(Waiting)' + One(step[e] \in Waiting) = InState(Waiting) + One(to \in Waiting)
        /\ InState(Candidate)' + One(step[e] \in Candidate) = InState(Candidate) + One(to \in Candidate)
        /\ InState(Answered)' + One(step[e] \in Answered) = InState(Answered) + One(to \in Answered)
    BY InStateMove
  <1>2. /\ InState(Waiting) \in Nat /\ InState(Candidate) \in Nat /\ InState(Answered) \in Nat
        /\ Cardinality(Entry) \in Nat
    BY InStateNat, Numbers, FS_CardinalityType
  <1>3. PICK w : w = InState(Waiting)'
    OBVIOUS
  <1>4. PICK q : q = InState(Candidate)'
    OBVIOUS
  <1>5. PICK z : z = InState(Answered)'
    OBVIOUS
  <1>6. w \in Nat /\ q \in Nat /\ z \in Nat
    <2>1. InState(Waiting)' \in Nat /\ InState(Candidate)' \in Nat /\ InState(Answered)' \in Nat
      <3>1. \A P : Cardinality({ f \in Entry : step'[f] \in P }) \in Nat
        <4>1. TAKE P
        <4>2. { f \in Entry : step'[f] \in P } \subseteq Entry
          OBVIOUS
        <4> QED
          BY <4>2, Numbers, FS_Subset, FS_CardinalityType
      <3> QED
        BY <3>1 DEF InState
    <2> QED
      BY <1>3, <1>4, <1>5, <2>1
  <1>7. /\ count' \in [Counter -> Nat]
        /\ \A c \in Counter : count'[c] = count[c] + One(c \in S)
    BY CountsMove DEF Funnel
  <1>8. PICK from : from = step[e]
    OBVIOUS
  <1>9. Move(from, to, S)
    BY <1>8
  <1>10. /\ w + One(from \in Waiting) = InState(Waiting) + One(to \in Waiting)
         /\ q + One(from \in Candidate) = InState(Candidate) + One(to \in Candidate)
         /\ z + One(from \in Answered) = InState(Answered) + One(to \in Answered)
    BY ONLY <1>1, <1>3, <1>4, <1>5, <1>8
  <1> DEFINE
        Balanced(c, ww, qq, zz) ==
          LET drops == c["dropped_multi_hop"] + c["dropped_merge_fail"] + c["dropped_no_serve"]
                       + c["swap_ix_failed"]
          IN  /\ c["route_ok"] + c["route_fail"] + ww = Cardinality(Entry)
              /\ c["profitable"] + c["not_profitable"] = c["route_ok"]
              /\ drops + c["swap_ix_ok"] + qq = c["metis_resp_ok"]
              /\ c["ix_from_ram"] + c["ix_from_metis"] = c["swap_ix_ok"]
              /\ c["queue_in"] + zz = c["swap_ix_ok"]
              /\ c["timeout"] + c["http"] + c["network"] + c["parse"] = c["swap_ix_failed"]
              /\ drops = c["tx_dropped"]
              /\ c["metis_resp_total"] = c["route_ok"] /\ c["metis_resp_ok"] = c["profitable"]
              /\ c["route_template_hit"] = c["ix_from_ram"]
  <1>11. count \in [Counter -> Nat] /\ Balanced(count, InState(Waiting), InState(Candidate), InState(Answered))
    BY DEF Funnel, FunnelBalances, Drops, Waiting, Candidate, Answered
  <1>12. Balanced(count', w, q, z)
    <2> USE DEF One, Counter, Waiting, Candidate, Answered
    <2>1. CASE from = "listed" /\ to = "quoting" /\ S = {}
      BY <1>2, <1>6, <1>7, <1>10, <1>11, <2>1
    <2>2. CASE from = "quoting" /\ to = "done" /\ S = {"route_fail"}
      BY <1>2, <1>6, <1>7, <1>10, <1>11, <2>2
    <2>3. CASE from = "quoting" /\ to = "done" /\ S = {"route_ok", "metis_resp_total", "not_profitable"}
      BY <1>2, <1>6, <1>7, <1>10, <1>11, <2>3
    <2>4. CASE from = "quoting" /\ to = "quoted" /\ S = {"route_ok", "metis_resp_total", "profitable", "metis_resp_ok"}
      BY <1>2, <1>6, <1>7, <1>10, <1>11, <2>4
    <2>5. CASE from = "quoted" /\ to = "done" /\ S = {"dropped_multi_hop", "tx_dropped"}
      BY <1>2, <1>6, <1>7, <1>10, <1>11, <2>5
    <2>6. CASE from = "quoted" /\ to = "done" /\ S = {"dropped_merge_fail", "tx_dropped"}
      BY <1>2, <1>6, <1>7, <1>10, <1>11, <2>6
    <2>7. CASE from = "quoted" /\ to = "serving" /\ S = {}
      BY <1>2, <1>6, <1>7, <1>10, <1>11, <2>7
    <2>8. CASE from = "serving" /\ to = "done" /\ S = FromRam \cup {"queue_in"}
      BY <1>2, <1>6, <1>7, <1>10, <1>11, <2>8 DEF FromRam
    <2>9. CASE from = "serving" /\ to = "done" /\ S = {"dropped_no_serve", "tx_dropped"}
      BY <1>2, <1>6, <1>7, <1>10, <1>11, <2>9
    <2>10. CASE from = "serving" /\ to = "asking" /\ S = {}
      BY <1>2, <1>6, <1>7, <1>10, <1>11, <2>10
    <2>11. ASSUME from = "asking", to = "done", NEW kind \in {"timeout", "http", "network", "parse"},
                  S = {"swap_ix_failed", "tx_dropped", kind}
           PROVE  Balanced(count', w, q, z)
      <3>1. CASE kind = "timeout"
        BY <1>2, <1>6, <1>7, <1>10, <1>11, <2>11, <3>1
      <3>2. CASE kind = "http"
        BY <1>2, <1>6, <1>7, <1>10, <1>11, <2>11, <3>2
      <3>3. CASE kind = "network"
        BY <1>2, <1>6, <1>7, <1>10, <1>11, <2>11, <3>3
      <3>4. CASE kind = "parse"
        BY <1>2, <1>6, <1>7, <1>10, <1>11, <2>11, <3>4
      <3> QED
        BY <3>1, <3>2, <3>3, <3>4
    <2>12. CASE from = "asking" /\ to \in {"inserting", "pushing"} /\ S = {"swap_ix_ok", "ix_from_metis"}
      <3>1. w = InState(Waiting) /\ q + 1 = InState(Candidate) /\ z = InState(Answered) + 1
        <4>1. CASE to = "inserting"
          BY <1>2, <1>6, <1>10, <2>12, <4>1
        <4>2. CASE to = "pushing"
          BY <1>2, <1>6, <1>10, <2>12, <4>2
        <4> QED
          BY <2>12, <4>1, <4>2
      <3>2. S = {"swap_ix_ok", "ix_from_metis"}
        BY <2>12
      <3> QED
        BY ONLY <1>2, <1>6, <1>7, <1>11, <3>1, <3>2
    <2>13. CASE from = "inserting" /\ to = "recording" /\ S = {}
      BY <1>2, <1>6, <1>7, <1>10, <1>11, <2>13
    <2>14. CASE from = "recording" /\ to = "pushing" /\ S = {}
      BY <1>2, <1>6, <1>7, <1>10, <1>11, <2>14
    <2>15. CASE from = "pushing" /\ to = "done" /\ S = {} \cup {"queue_in"}
      BY <1>2, <1>6, <1>7, <1>10, <1>11, <2>15
    <2> HIDE DEF Balanced
    <2> QED
      BY <1>9, <2>1, <2>2, <2>3, <2>4, <2>5, <2>6, <2>7, <2>8,
         <2>9, <2>10, <2>11, <2>12, <2>13, <2>14, <2>15 DEF Move
  <1>13. Funnel'
    <2>1. Balanced(count', InState(Waiting)', InState(Candidate)', InState(Answered)')
      BY ONLY <1>3, <1>4, <1>5, <1>12
    <2> QED
      BY <1>7, <2>1 DEF Funnel, FunnelBalances, Drops, Waiting, Candidate, Answered
  <1> QED
    BY <1>13

LEMMA FunnelInit ==
    ASSUME Init
    PROVE  Funnel
  <1>1. count = [c \in Counter |-> 0]
    BY DEF Init
  <1>2. \A e \in Entry : step[e] = "listed"
    BY DEF Init
  <1>3. InState({"listed", "quoting"}) = Cardinality(Entry)
    <2>1. { e \in Entry : step[e] \in {"listed", "quoting"} } = Entry
      BY <1>2
    <2> QED
      BY <2>1 DEF InState
  <1>4. \A S : "listed" \notin S => InState(S) = 0
    <2>1. TAKE S
    <2>2. HAVE "listed" \notin S
    <2>3. { e \in Entry : step[e] \in S } = {}
      BY <1>2, <2>2
    <2> QED
      BY <2>3, FS_EmptySet DEF InState
  <1>5. InState({"quoted", "serving", "asking"}) = 0 /\ InState({"inserting", "recording", "pushing"}) = 0
    BY <1>4
  <1>6. Cardinality(Entry) \in Nat
    BY Numbers, FS_CardinalityType
  <1>7. FunnelBalances
    BY <1>1, <1>3, <1>5, <1>6 DEF FunnelBalances, Drops, Counter
  <1> QED
    BY <1>1, <1>7 DEF Funnel, Counter

LEMMA FunnelNext ==
    ASSUME Funnel, Shape, [Next]_vars
    PROVE  Funnel'
  <1>1. CASE UNCHANGED <<step, count>>
    BY <1>1 DEF Funnel, FunnelBalances, Drops, InState
  <1>2. ASSUME NEW e \in Entry, NEW to, NEW S, Goto(e, to), Move(step[e], to, S), Counts(S)
        PROVE  Funnel'
    BY <1>2, FunnelMove DEF Shape
  <1>3. count \in [Counter -> Nat]
    BY DEF Funnel
  <1>4. \/ UNCHANGED <<step, count>>
        \/ \E e \in Entry : \E to, S : Goto(e, to) /\ Move(step[e], to, S) /\ Counts(S)
    BY <1>3, Moves
  <1> QED
    BY <1>1, <1>2, <1>4

LEMMA ScannerFunnel == Spec => []Funnel
  <1> QED
    BY FunnelInit, FunnelNext, ScannerShape, PTL DEF Spec

\* The funnel that the reporter prints balances after every step, for any
\* number of entries: no candidate is lost, dropped for two reasons or pushed
\* twice without the counters of scan_all_tokens and quote_check telling.
THEOREM ScannerFunnelBalances == Spec => []FunnelBalances
  <1>1. Funnel => FunnelBalances
    BY DEF Funnel
  <1> QED
    BY <1>1, ScannerFunnel, PTL

-----------------------------------------------------------------------------
\* The shape of it all.

LEMMA CountsBounded ==
    ASSUME Funnel
    PROVE  count \in [Counter -> 0 .. Cardinality(Entry)]
  <1>1. /\ InState(Waiting) \in Nat /\ InState(Candidate) \in Nat /\ InState(Answered) \in Nat
        /\ Cardinality(Entry) \in Nat
    BY InStateNat, Numbers, FS_CardinalityType
  <1>2. \A c \in Counter : count[c] \in Nat
    BY DEF Funnel
  <1>3. /\ count["route_ok"] + count["route_fail"] + InState(Waiting) = Cardinality(Entry)
        /\ count["profitable"] + count["not_profitable"] = count["route_ok"]
        /\ Drops + count["swap_ix_ok"] + InState(Candidate) = count["metis_resp_ok"]
        /\ count["ix_from_ram"] + count["ix_from_metis"] = count["swap_ix_ok"]
        /\ count["queue_in"] + InState(Answered) = count["swap_ix_ok"]
        /\ count["timeout"] + count["http"] + count["network"] + count["parse"] = count["swap_ix_failed"]
        /\ Drops = count["tx_dropped"]
        /\ count["metis_resp_total"] = count["route_ok"]
        /\ count["metis_resp_ok"] = count["profitable"]
        /\ count["route_template_hit"] = count["ix_from_ram"]
    BY DEF Funnel, FunnelBalances, Waiting, Candidate, Answered
  <1>4. \A c \in Counter : count[c] <= Cardinality(Entry)
    <2>1. /\ count["route_ok"] <= Cardinality(Entry) /\ count["route_fail"] <= Cardinality(Entry)
          /\ count["profitable"] <= Cardinality(Entry) /\ count["not_profitable"] <= Cardinality(Entry)
          /\ count["metis_resp_total"] <= Cardinality(Entry)
          /\ count["metis_resp_ok"] <= Cardinality(Entry)
      BY <1>1, <1>2, <1>3 DEF Counter
    <2>2. /\ Drops \in Nat /\ Drops <= Cardinality(Entry) /\ count["swap_ix_ok"] <= Cardinality(Entry)
          /\ count["dropped_multi_hop"] <= Drops /\ count["dropped_merge_fail"] <= Drops
          /\ count["dropped_no_serve"] <= Drops /\ count["swap_ix_failed"] <= Drops
      BY <1>1, <1>2, <1>3, <2>1 DEF Counter, Drops
    <2>3. /\ count["ix_from_ram"] <= Cardinality(Entry) /\ count["ix_from_metis"] <= Cardinality(Entry)
          /\ count["queue_in"] <= Cardinality(Entry) /\ count["route_template_hit"] <= Cardinality(Entry)
      BY <1>1, <1>2, <1>3, <2>2 DEF Counter
    <2>4. /\ count["dropped_multi_hop"] <= Cardinality(Entry)
          /\ count["dropped_merge_fail"] <= Cardinality(Entry)
          /\ count["dropped_no_serve"] <= Cardinality(Entry)
          /\ count["swap_ix_failed"] <= Cardinality(Entry) /\ count["tx_dropped"] <= Cardinality(Entry)
      BY <1>1, <1>2, <1>3, <2>2 DEF Counter
    <2>5. /\ count["timeout"] <= Cardinality(Entry) /\ count["http"] <= Cardinality(Entry)
          /\ count["network"] <= Cardinality(Entry) /\ count["parse"] <= Cardinality(Entry)
      BY <1>1, <1>2, <1>3, <2>4 DEF Counter
    <2> QED
      BY <2>1, <2>2, <2>3, <2>4, <2>5 DEF Counter
  <1>5. \A c \in Counter : count[c] \in 0 .. Cardinality(Entry)
    BY <1>1, <1>2, <1>4
  <1>6. count \in [Counter -> Nat]
    BY DEF Funnel
  <1> QED
    BY <1>5, <1>6

LEMMA TypeFromParts ==
    ASSUME Shape, StoreRight, Funnel
    PROVE  TypeOK
  <1>1. count \in [Counter -> 0 .. Cardinality(Entry)]
    BY CountsBounded
  <1>2. \A r \in DOMAIN store : store[r].base.plan.route = r /\ Cardinality(store[r].offset) <= 1
    <2>1. TAKE r \in DOMAIN store
    <2>2. PICK t : t = store[r]
      OBVIOUS
    <2>3. Template(t, r)
      BY <2>2 DEF StoreRight
    <2>4. t.base.plan.route = r
      <3>1. PICK fee : Asked(t.in_amount, fee) /\ Answer(t.base, r, t.in_amount, fee)
        BY <2>3 DEF Template
      <3> QED
        BY <2>3, <3>1, AnswerPlan DEF Template, Asked
    <2>5. Cardinality(t.offset) \in {0, 1}
      BY <2>3, DiscoverOne DEF Template
    <2> QED
      BY <2>2, <2>4, <2>5
  <1>3. \A r \in DOMAIN store : store[r].offset # {} => \A e \in Entry : Served(r, AmountOf[e]) # {}
    BY ServedRight, Numbers
  <1> QED
    BY <1>1, <1>2, <1>3 DEF TypeOK, Shape, StoreRight, Loops, At

\* The loop is at a tier just while one entry is served; the store keeps
\* templates of its own routes; what a template's offset names is always there
\* to be patched; and the counters stay within the entries.
THEOREM ScannerTypeOK == Spec => []TypeOK
  <1> QED
    BY TypeFromParts, ScannerShape, ScannerStore, ScannerFunnel, PTL

=============================================================================
