----------------------------- MODULE BundleProofs -----------------------------
(***************************************************************************)
(* Two things a bundle cannot do without: the tables its transaction looks *)
(* accounts up in (AltTables), and the access token of the region it is    *)
(* sent through (JitoAuth).  They share nothing.                           *)
(*                                                                         *)
(* AltTables is proved for all workers, tables, accounts, swaps and chains.*)
(* What makes the positions right is that every copy, in the cache, on its *)
(* way or in a worker's hands, is what retain left of a beginning of the   *)
(* table (Faithful), and that retain keeps what it leaves of a beginning in*)
(* place when the table grows (KeptPrefix).                                *)
(*                                                                         *)
(* JitoAuth is proved for every setting of the loop's delays and every life*)
(* of the tokens that AuthAssumption allows.  That one failed round never  *)
(* lets the access token expire is not inductive: it depends on how much of*)
(* the token's life each step of the loop has used up.  Lead says it: how  *)
(* far the token outlives the timer.  It is Margin while no round has      *)
(* failed; a failed round costs the calls, the pause and the shortest      *)
(* sleep.                                                                  *)
(***************************************************************************)
EXTENDS AltTables, JitoAuth, FiniteSetTheorems, SequenceTheorems, NaturalsInduction,
        WellFoundedInduction, TLAPS

-----------------------------------------------------------------------------
\* Induction over numbers, for a set of numbers.

\* A set of numbers that is not empty has a least element.
LEMMA Least ==
    ASSUME NEW T, T \subseteq Nat, T # {}
    PROVE  \E x \in T : \A y \in T : x <= y
  <1> DEFINE R == OpToRel(<, Nat)
  <1>1. IsWellFoundedOn(R, Nat)
    BY NatLessThanWellFounded
  <1>2. \A x, y \in Nat : y < x => <<y, x>> \in R
    BY DEF OpToRel
  <1> HIDE DEF R
  <1>3. PICK x \in T : \A y \in T : ~(<<y, x>> \in R)
    BY <1>1, WFMin
  <1>4. \A y \in T : x \in Nat /\ y \in Nat /\ ~(y < x)
    BY <1>2, <1>3
  <1> QED
    BY ONLY <1>4

\* A set that has 0 and with every number the next has them all.
LEMMA Induct ==
    ASSUME NEW S, 0 \in S, \A n \in Nat : n \in S => n + 1 \in S
    PROVE  Nat \subseteq S
  <1> SUFFICES ASSUME Nat \ S # {} PROVE FALSE
    OBVIOUS
  <1>1. PICK x \in Nat \ S : \A y \in Nat \ S : x <= y
    BY Least
  <1>2. x \in Nat /\ x # 0 /\ x \notin S
    OBVIOUS
  <1>3. x - 1 \in Nat /\ x - 1 < x /\ (x - 1) + 1 = x
    BY <1>2
  <1>4. x - 1 \in S
    BY <1>1, <1>3
  <1> QED
    BY <1>2, <1>3, <1>4

-----------------------------------------------------------------------------
\* What retain leaves of a table's addresses.

\* What is left of the first addresses, from what is left of one fewer.
Keeping(s, n, f) ==
    [i \in 0 .. n |-> IF i = 0 THEN <<>>
                      ELSE IF s[i] \in Tip THEN f[i - 1]
                      ELSE Append(f[i - 1], s[i])]
KeptFn(s) == CHOOSE f : f = Keeping(s, Len(s), f)

LEMMA KeptIsLast == \A s : Kept(s) = KeptFn(s)[Len(s)]
  BY DEF Kept, KeptFn, Keeping

\* The recursion has a solution of every length.
LEMMA KeepingExists ==
    ASSUME NEW s, NEW n \in Nat
    PROVE  \E f : f = Keeping(s, n, f)
  <1> DEFINE S == { k \in Nat : \E f : f = Keeping(s, k, f) }
  <1>1. 0 \in S
    <2> DEFINE f == [i \in 0 .. 0 |-> <<>>]
    <2>1. f = Keeping(s, 0, f)
      BY DEF Keeping
    <2> QED
      BY <2>1
  <1>2. ASSUME NEW k \in Nat, k \in S
        PROVE  k + 1 \in S
    <2>1. PICK f : f = Keeping(s, k, f)
      BY <1>2
    <2> DEFINE g == [i \in 0 .. k + 1 |->
                       IF i <= k THEN f[i]
                       ELSE IF s[i] \in Tip THEN f[i - 1]
                       ELSE Append(f[i - 1], s[i])]
    <2>2. \A i \in 0 .. k : g[i] = f[i]
      OBVIOUS
    <2>3. \A i \in 0 .. k : f[i] = IF i = 0 THEN <<>>
                                  ELSE IF s[i] \in Tip THEN f[i - 1]
                                  ELSE Append(f[i - 1], s[i])
      BY <2>1 DEF Keeping
    <2>4. \A i \in 0 .. k + 1 : g[i] = IF i = 0 THEN <<>>
                                      ELSE IF s[i] \in Tip THEN g[i - 1]
                                      ELSE Append(g[i - 1], s[i])
      <3> SUFFICES ASSUME NEW i \in 0 .. k + 1
                   PROVE  g[i] = IF i = 0 THEN <<>>
                                 ELSE IF s[i] \in Tip THEN g[i - 1]
                                 ELSE Append(g[i - 1], s[i])
        OBVIOUS
      <3>1. CASE i = 0
        BY <3>1, <2>2, <2>3
      <3>2. CASE i # 0 /\ i <= k
        <4>1. i - 1 \in 0 .. k /\ i \in 0 .. k
          BY <3>2
        <4> QED
          BY <3>2, <4>1, <2>2, <2>3
      <3>3. CASE i = k + 1
        <4>1. i - 1 = k /\ i # 0 /\ ~(i <= k) /\ k \in 0 .. k
          BY <3>3
        <4>2. g[i - 1] = f[i - 1]
          BY <4>1, <2>2
        <4>3. g[i] = IF s[i] \in Tip THEN f[i - 1] ELSE Append(f[i - 1], s[i])
          BY <4>1
        <4> HIDE DEF g
        <4> QED
          BY <4>1, <4>2, <4>3
      <3> QED
        BY <3>1, <3>2, <3>3
    <2>5. DOMAIN g = 0 .. k + 1 /\ g = [i \in 0 .. k + 1 |-> g[i]]
      OBVIOUS
    <2> HIDE DEF g
    <2>6. g = Keeping(s, k + 1, g)
      BY <2>4, <2>5 DEF Keeping
    <2> QED
      BY <2>6
  <1> HIDE DEF S
  <1>3. Nat \subseteq S
    BY <1>1, <1>2, Induct
  <1> QED
    BY <1>3 DEF S

LEMMA KeptFnStep ==
    ASSUME NEW S, NEW s \in Seq(S)
    PROVE  /\ KeptFn(s)[0] = <<>>
           /\ \A n \in 1 .. Len(s) :
                KeptFn(s)[n] = IF s[n] \in Tip THEN KeptFn(s)[n - 1]
                               ELSE Append(KeptFn(s)[n - 1], s[n])
  <1>1. Len(s) \in Nat
    OBVIOUS
  <1>2. KeptFn(s) = Keeping(s, Len(s), KeptFn(s))
    BY <1>1, KeepingExists DEF KeptFn
  <1>3. PICK f : f = KeptFn(s)
    OBVIOUS
  <1>4. PICK k : k = Len(s)
    OBVIOUS
  <1>5. f = Keeping(s, k, f) /\ k \in Nat
    BY <1>1, <1>2, <1>3, <1>4
  <1>6. f[0] = <<>>
    BY ONLY <1>5 DEF Keeping
  <1>7. ASSUME NEW n \in 1 .. k
        PROVE  f[n] = IF s[n] \in Tip THEN f[n - 1] ELSE Append(f[n - 1], s[n])
    <2>1. n \in 0 .. k /\ n # 0
      BY <1>5
    <2> QED
      BY ONLY <1>5, <2>1 DEF Keeping
  <1> QED
    BY ONLY <1>3, <1>4, <1>6, <1>7

\* One address more.
LEMMA Longer ==
    ASSUME NEW S, NEW s \in Seq(S), NEW e \in S
    PROVE  /\ Append(s, e) \in Seq(S)
           /\ Len(s) \in Nat /\ Len(Append(s, e)) = Len(s) + 1
           /\ \A i \in 1 .. Len(s) : Append(s, e)[i] = s[i]
           /\ Append(s, e)[Len(s) + 1] = e
  OBVIOUS

\* Tip accounts are gone.
LEMMA KeptTyped ==
    ASSUME NEW A, NEW s \in Seq(A)
    PROVE  \A n \in 0 .. Len(s) : KeptFn(s)[n] \in Seq(A \ Tip)
  <1>1. PICK f : f = KeptFn(s)
    OBVIOUS
  <1>2. PICK k : k = Len(s) /\ k \in Nat /\ \A i \in 1 .. k : s[i] \in A
    OBVIOUS
  <1>3. f[0] = <<>> /\ \A n \in 1 .. k : f[n] = IF s[n] \in Tip THEN f[n - 1] ELSE Append(f[n - 1], s[n])
    BY ONLY <1>1, <1>2, KeptFnStep, s \in Seq(A)
  <1> DEFINE S == { n \in Nat : n <= k => f[n] \in Seq(A \ Tip) }
  <1>4. 0 \in S
    <2>1. <<>> \in Seq(A \ Tip)
      BY ONLY EmptySeq
    <2> QED
      BY ONLY <1>3, <2>1
  <1>5. ASSUME NEW n \in Nat, n \in S
        PROVE  n + 1 \in S
    <2> SUFFICES ASSUME n + 1 <= k
                 PROVE  f[n + 1] \in Seq(A \ Tip)
      OBVIOUS
    <2>1. n <= k /\ n + 1 \in 1 .. k /\ (n + 1) - 1 = n
      BY <1>2
    <2>2. f[n] \in Seq(A \ Tip)
      BY ONLY <2>1, <1>5
    <2>3. CASE s[n + 1] \in Tip
      BY ONLY <2>1, <2>2, <2>3, <1>3
    <2>4. CASE s[n + 1] \notin Tip
      <3>1. s[n + 1] \in A \ Tip
        BY ONLY <2>1, <2>4, <1>2
      <3>2. f[n + 1] = Append(f[n], s[n + 1])
        BY ONLY <2>1, <2>4, <1>3
      <3> QED
        BY ONLY <2>2, <3>1, <3>2, Longer
    <2> QED
      BY <2>3, <2>4
  <1>6. Nat \subseteq S
    BY ONLY <1>4, <1>5, Induct
  <1> QED
    BY ONLY <1>1, <1>2, <1>6

\* What is left of fewer addresses is where it was.
LEMMA KeptPrefix ==
    ASSUME NEW A, NEW s \in Seq(A), NEW m \in 0 .. Len(s)
    PROVE  \A n \in m .. Len(s) :
             /\ Len(KeptFn(s)[m]) <= Len(KeptFn(s)[n])
             /\ \A i \in 1 .. Len(KeptFn(s)[m]) : KeptFn(s)[n][i] = KeptFn(s)[m][i]
  <1>1. PICK f : f = KeptFn(s)
    OBVIOUS
  <1>2. PICK k : k = Len(s) /\ k \in Nat /\ \A i \in 1 .. k : s[i] \in A
    OBVIOUS
  <1>3. f[0] = <<>> /\ \A n \in 1 .. k : f[n] = IF s[n] \in Tip THEN f[n - 1] ELSE Append(f[n - 1], s[n])
    BY ONLY <1>1, <1>2, KeptFnStep, s \in Seq(A)
  <1>4. \A n \in 0 .. k : f[n] \in Seq(A \ Tip)
    BY ONLY <1>1, <1>2, KeptTyped, s \in Seq(A)
  <1>5. m \in Nat /\ m <= k
    BY <1>2
  <1> DEFINE Above(n) == /\ Len(f[m]) <= Len(f[n])
                         /\ \A i \in 1 .. Len(f[m]) : f[n][i] = f[m][i]
             S == { n \in Nat : m <= n /\ n <= k => Above(n) }
  <1>6. \A n \in Nat : n <= m => n \in S
    <2>1. Len(f[m]) \in Nat
      BY ONLY <1>4, <1>5
    <2>2. Above(m)
      BY ONLY <2>1
    <2> QED
      BY ONLY <1>5, <2>2
  <1>7. 0 \in S
    BY ONLY <1>5, <1>6
  <1>8. ASSUME NEW n \in Nat, n \in S
        PROVE  n + 1 \in S
    <2>1. CASE n + 1 <= m
      BY ONLY <1>6, <2>1, n \in Nat
    <2>2. CASE ~(n + 1 <= k)
      BY ONLY <2>2, n \in Nat
    <2>3. CASE m <= n /\ n + 1 <= k
      <3>1. n \in 0 .. k /\ n + 1 \in 1 .. k /\ (n + 1) - 1 = n /\ n <= k
        BY ONLY <2>3, <1>2, <1>5, n \in Nat
      <3>2. f[n] \in Seq(A \ Tip) /\ f[m] \in Seq(A \ Tip)
        BY ONLY <1>4, <1>5, <3>1
      <3>3. Above(n)
        BY ONLY <1>8, <2>3, <3>1
      <3>4. CASE s[n + 1] \in Tip
        <4>1. f[n + 1] = f[n]
          BY ONLY <3>1, <3>4, <1>3
        <4> QED
          BY ONLY <3>3, <4>1, n \in Nat
      <3>5. CASE s[n + 1] \notin Tip
        <4>1. s[n + 1] \in A \ Tip
          BY ONLY <3>1, <3>5, <1>2
        <4>2. f[n + 1] = Append(f[n], s[n + 1])
          BY ONLY <3>1, <3>5, <1>3
        <4>3. /\ Len(f[n]) \in Nat /\ Len(f[n + 1]) = Len(f[n]) + 1
              /\ \A i \in 1 .. Len(f[n]) : f[n + 1][i] = f[n][i]
          BY ONLY <3>2, <4>1, <4>2, Longer
        <4>4. Len(f[m]) \in Nat
          BY ONLY <3>2
        <4>5. Above(n + 1)
          BY ONLY <3>3, <4>3, <4>4
        <4> QED
          BY ONLY <4>5, n \in Nat
      <3> QED
        BY <3>4, <3>5
    <2> QED
      BY ONLY <2>1, <2>2, <2>3, <1>5, n \in Nat
  <1>9. Nat \subseteq S
    BY ONLY <1>7, <1>8, Induct
  <1>10. \A n \in m .. k : n \in Nat /\ m <= n /\ n <= k
    BY ONLY <1>5, <1>2
  <1>11. \A n \in m .. k : Above(n)
    BY ONLY <1>9, <1>10
  <1> QED
    BY ONLY <1>1, <1>2, <1>11

\* A table without tip accounts is kept as it is.
LEMMA KeptClean ==
    ASSUME NEW A, NEW s \in Seq(A), \A i \in 1 .. Len(s) : s[i] \notin Tip
    PROVE  \A n \in 0 .. Len(s) :
             /\ Len(KeptFn(s)[n]) = n
             /\ \A i \in 1 .. n : KeptFn(s)[n][i] = s[i]
  <1>1. PICK f : f = KeptFn(s)
    OBVIOUS
  <1>2. PICK k : k = Len(s) /\ k \in Nat /\ \A i \in 1 .. k : s[i] \in A /\ s[i] \notin Tip
    OBVIOUS
  <1>3. f[0] = <<>> /\ \A n \in 1 .. k : f[n] = IF s[n] \in Tip THEN f[n - 1] ELSE Append(f[n - 1], s[n])
    BY ONLY <1>1, <1>2, KeptFnStep, s \in Seq(A)
  <1>4. \A n \in 0 .. k : f[n] \in Seq(A \ Tip)
    BY ONLY <1>1, <1>2, KeptTyped, s \in Seq(A)
  <1> DEFINE Same(n) == Len(f[n]) = n /\ \A i \in 1 .. n : f[n][i] = s[i]
             S == { n \in Nat : n <= k => Same(n) }
  <1>5. 0 \in S
    BY ONLY <1>3
  <1>6. ASSUME NEW n \in Nat, n \in S
        PROVE  n + 1 \in S
    <2> SUFFICES ASSUME n + 1 <= k
                 PROVE  Same(n + 1)
      OBVIOUS
    <2>1. n <= k /\ n + 1 \in 1 .. k /\ (n + 1) - 1 = n /\ n \in 0 .. k
      BY <1>2
    <2>2. Same(n) /\ f[n] \in Seq(A \ Tip)
      BY ONLY <2>1, <1>6, <1>4
    <2>3. s[n + 1] \in A \ Tip
      BY ONLY <2>1, <1>2
    <2>4. f[n + 1] = Append(f[n], s[n + 1])
      BY ONLY <2>1, <2>3, <1>3
    <2>5. /\ Len(f[n + 1]) = Len(f[n]) + 1
          /\ \A i \in 1 .. Len(f[n]) : f[n + 1][i] = f[n][i]
          /\ f[n + 1][Len(f[n]) + 1] = s[n + 1]
      BY ONLY <2>2, <2>3, <2>4, Longer
    <2>6. \A i \in 1 .. n + 1 : i = n + 1 \/ i \in 1 .. n
      BY ONLY n \in Nat
    <2> QED
      BY ONLY <2>2, <2>5, <2>6
  <1>7. Nat \subseteq S
    BY ONLY <1>5, <1>6, Induct
  <1>8. \A n \in 0 .. k : n \in Nat /\ n <= k
    BY ONLY <1>2
  <1>9. \A n \in 0 .. k : Same(n)
    BY ONLY <1>7, <1>8
  <1> QED
    BY ONLY <1>1, <1>2, <1>9

\* What is left of the first n addresses, in one recursion over all of them.
LEMMA KeptOfFirst ==
    ASSUME NEW A, NEW s \in Seq(A), NEW n \in 0 .. Len(s)
    PROVE  /\ SubSeq(s, 1, n) \in Seq(A) /\ Len(SubSeq(s, 1, n)) = n
           /\ Kept(SubSeq(s, 1, n)) = KeptFn(s)[n]
  <1>1. PICK t : t = SubSeq(s, 1, n)
    OBVIOUS
  <1>2. n \in Nat /\ n <= Len(s) /\ Len(s) \in Nat
    OBVIOUS
  <1>3. t \in Seq(A) /\ Len(t) = n /\ \A i \in 1 .. n : t[i] = s[i]
    BY <1>1, <1>2
  <1>4. PICK f : f = KeptFn(s)
    OBVIOUS
  <1>5. PICK g : g = KeptFn(t)
    OBVIOUS
  <1>6. f[0] = <<>> /\ \A i \in 1 .. n : f[i] = IF s[i] \in Tip THEN f[i - 1] ELSE Append(f[i - 1], s[i])
    <2>1. f[0] = <<>> /\ \A i \in 1 .. Len(s) : f[i] = IF s[i] \in Tip THEN f[i - 1] ELSE Append(f[i - 1], s[i])
      BY ONLY <1>4, KeptFnStep, s \in Seq(A)
    <2> QED
      BY ONLY <2>1, <1>2
  <1>7. g[0] = <<>> /\ \A i \in 1 .. n : g[i] = IF t[i] \in Tip THEN g[i - 1] ELSE Append(g[i - 1], t[i])
    BY ONLY <1>5, <1>3, KeptFnStep
  <1> DEFINE S == { i \in Nat : i <= n => g[i] = f[i] }
  <1>8. 0 \in S
    BY ONLY <1>6, <1>7
  <1>9. ASSUME NEW i \in Nat, i \in S
        PROVE  i + 1 \in S
    <2> SUFFICES ASSUME i + 1 <= n
                 PROVE  g[i + 1] = f[i + 1]
      OBVIOUS
    <2>1. i <= n /\ i + 1 \in 1 .. n /\ (i + 1) - 1 = i
      BY ONLY <1>2, i \in Nat, i + 1 <= n
    <2>2. g[i] = f[i] /\ t[i + 1] = s[i + 1]
      BY ONLY <2>1, <1>9, <1>3
    <2> QED
      BY ONLY <2>1, <2>2, <1>6, <1>7
  <1>10. Nat \subseteq S
    BY ONLY <1>8, <1>9, Induct
  <1>11. g[n] = f[n]
    BY ONLY <1>10, <1>2
  <1>12. Kept(t) = g[n]
    BY ONLY <1>3, <1>5, KeptIsLast
  <1> QED
    BY ONLY <1>1, <1>3, <1>4, <1>11, <1>12

-----------------------------------------------------------------------------
\* The shape of the state.

Copy == [key : Table, addresses : Seq(Account \ Tip)]

\* A worker that fetches has a table to fetch, and one that builds has a swap.
Busy ==
    /\ \A w \in Worker : pc[w] \in {"fetch", "insert"} => todo[w] # <<>>
    /\ \A w \in Worker : pc[w] # "idle" => swap[w] \in Swap

Shape == TypeOK /\ Busy

LEMMA HeadAndTail ==
    ASSUME NEW S, NEW s \in Seq(S), s # <<>>
    PROVE  Head(s) \in S /\ Tail(s) \in Seq(S)
  OBVIOUS

\* What retain leaves of a table, and of its beginning.
LEMMA KeptInType ==
    ASSUME NEW A, NEW s \in Seq(A)
    PROVE  Kept(s) \in Seq(A \ Tip)
  <1>1. Len(s) \in 0 .. Len(s)
    OBVIOUS
  <1>2. KeptFn(s)[Len(s)] \in Seq(A \ Tip)
    BY <1>1, KeptTyped
  <1> QED
    BY ONLY <1>2, KeptIsLast

LEMMA ShapeInit == Init => Shape
  <1> SUFFICES ASSUME Init PROVE Shape
    OBVIOUS
  <1>1. chain \in [Table -> Seq(Account)]
    BY AltAssumption DEF Init, AltAssumption
  <1>2. DOMAIN cache = {}
    BY DEF Init
  <1>3. cache \in [DOMAIN cache -> Seq(Account \ Tip)]
    BY <1>2 DEF Init
  <1>4. /\ <<>> \in Seq(Table) /\ <<>> \in Seq(Account \ Tip) /\ <<>> \in Seq(Copy)
    BY EmptySeq
  <1>5. /\ todo \in [Worker -> Seq(Table)] /\ fetched \in [Worker -> Seq(Account \ Tip)]
        /\ copies \in [Worker -> Seq(Copy)]
    BY <1>4 DEF Init
  <1>6. /\ pc \in [Worker -> Step] /\ swap \in [Worker -> Swap \cup {NoSwap}]
        /\ tip \in [Worker -> Tip] /\ Busy
    BY DEF Init, Step, Busy
  <1> QED
    BY <1>1, <1>2, <1>3, <1>5, <1>6 DEF Shape, TypeOK, Copy

\* A worker that gets a copy of the table it needs next.
LEMMA CopyTaken ==
    ASSUME Shape, NEW w \in Worker, todo[w] # <<>>, NEW c, c \in Seq(Account \ Tip),
           copies' = [copies EXCEPT ![w] = Append(@, [key |-> Head(todo[w]), addresses |-> c])],
           todo' = [todo EXCEPT ![w] = Tail(@)]
    PROVE  /\ copies' \in [Worker -> Seq(Copy)]
           /\ todo' \in [Worker -> Seq(Table)]
  <1>1. /\ copies \in [Worker -> Seq(Copy)] /\ todo \in [Worker -> Seq(Table)]
    BY DEF Shape, TypeOK, Copy
  <1>2. Head(todo[w]) \in Table /\ Tail(todo[w]) \in Seq(Table)
    BY <1>1, HeadAndTail
  <1>3. PICK e : e = [key |-> Head(todo[w]), addresses |-> c]
    OBVIOUS
  <1>4. e \in Copy
    BY <1>2, <1>3 DEF Copy
  <1>5. Append(copies[w], e) \in Seq(Copy)
    BY <1>1, <1>4, Longer
  <1>6. copies' = [copies EXCEPT ![w] = Append(copies[w], e)]
    BY <1>3
  <1>7. copies' \in [Worker -> Seq(Copy)]
    BY ONLY <1>1, <1>5, <1>6
  <1>8. todo' \in [Worker -> Seq(Table)]
    BY <1>1, <1>2
  <1> QED
    BY <1>7, <1>8

LEMMA ShapeNext == Shape /\ [Next]_vars => Shape'
  <1> SUFFICES ASSUME Shape, [Next]_vars
               PROVE  Shape'
    OBVIOUS
  <1>1. /\ chain \in [Table -> Seq(Account)]
        /\ DOMAIN cache \subseteq Table /\ cache \in [DOMAIN cache -> Seq(Account \ Tip)]
        /\ pc \in [Worker -> Step] /\ swap \in [Worker -> Swap \cup {NoSwap}]
        /\ tip \in [Worker -> Tip] /\ todo \in [Worker -> Seq(Table)]
        /\ fetched \in [Worker -> Seq(Account \ Tip)]
        /\ copies \in [Worker -> Seq(Copy)]
        /\ Busy
    BY DEF Shape, TypeOK, Copy
  <1>2. <<>> \in Seq(Copy) /\ <<>> \in Seq(Account \ Tip)
    BY EmptySeq
  <1> USE DEF At, Goto
  <1>3. ASSUME NEW w \in Worker, build_arb_transaction(w)
        PROVE  Shape'
    <2>1. CASE Begin(w)
      <3>1. PICK s \in Swap, a \in Tip :
              /\ swap' = [swap EXCEPT ![w] = s]
              /\ tip' = [tip EXCEPT ![w] = a]
              /\ todo' = [todo EXCEPT ![w] = s.tables]
        BY <2>1 DEF Begin
      <3>2. s.tables \in Seq(Table)
        BY AltAssumption DEF AltAssumption
      <3>3. /\ swap' \in [Worker -> Swap \cup {NoSwap}] /\ tip' \in [Worker -> Tip]
            /\ todo' \in [Worker -> Seq(Table)]
        BY <1>1, <3>1, <3>2
      <3>4. pc' \in [Worker -> Step] /\ UNCHANGED <<chain, cache, fetched, copies>>
        BY <1>1, <2>1 DEF Begin, Step
      <3>5. Busy'
        BY <1>1, <2>1, <3>1 DEF Begin, Busy
      <3> QED
        BY <1>1, <3>3, <3>4, <3>5 DEF Shape, TypeOK, Copy
    <2>2. CASE Hit(w)
      <3>1. cache[Head(todo[w])] \in Seq(Account \ Tip)
        BY <1>1, <2>2 DEF Hit
      <3>2. /\ copies' \in [Worker -> Seq(Copy)]
            /\ todo' \in [Worker -> Seq(Table)]
        BY <2>2, <3>1, CopyTaken DEF Hit
      <3>3. Busy'
        BY <1>1, <2>2 DEF Hit, Busy
      <3> QED
        BY <1>1, <2>2, <3>2, <3>3 DEF Hit, Shape, TypeOK, Copy
    <2>3. CASE Miss(w)
      <3>1. Busy' /\ pc' \in [Worker -> Step]
        BY <1>1, <2>3 DEF Miss, Busy, Step
      <3> QED
        BY <1>1, <2>3, <3>1 DEF Miss, Shape, TypeOK, Copy
    <2>4. CASE Fetch(w)
      <3>1. Head(todo[w]) \in Table
        BY <1>1, <2>4, HeadAndTail DEF Fetch, Busy
      <3>2. PICK s, n : /\ s = chain[Head(todo[w])] /\ n \in 0 .. Len(s)
                       /\ fetched' = [fetched EXCEPT ![w] = Kept(SubSeq(s, 1, n))]
        BY <2>4 DEF Fetch
      <3>3. fetched' \in [Worker -> Seq(Account \ Tip)]
        <4>1. s \in Seq(Account)
          BY <1>1, <3>1, <3>2
        <4>2. SubSeq(s, 1, n) \in Seq(Account)
          BY <3>2, <4>1, KeptOfFirst
        <4>3. Kept(SubSeq(s, 1, n)) \in Seq(Account \ Tip)
          BY <4>2, KeptInType
        <4> QED
          BY <1>1, <3>2, <4>3
      <3>4. Busy' /\ pc' \in [Worker -> Step]
        BY <1>1, <2>4 DEF Fetch, Busy, Step
      <3> QED
        BY <1>1, <2>4, <3>3, <3>4 DEF Fetch, Shape, TypeOK, Copy
    <2>5. CASE FetchFails(w) \/ Finish(w)
      <3>1. <<>> \in Seq(Table)
        BY EmptySeq
      <3>2. /\ swap' \in [Worker -> Swap \cup {NoSwap}] /\ todo' \in [Worker -> Seq(Table)]
            /\ copies' \in [Worker -> Seq(Copy)] /\ pc' \in [Worker -> Step]
        BY <1>1, <1>2, <2>5, <3>1 DEF FetchFails, Finish, Leave, Step
      <3>3. Busy'
        BY <1>1, <2>5 DEF FetchFails, Finish, Leave, Busy
      <3> QED
        BY <1>1, <2>5, <3>2, <3>3 DEF FetchFails, Finish, Shape, TypeOK, Copy
    <2>8. CASE Compile(w)
      <3>1. Busy' /\ pc' \in [Worker -> Step]
        BY <1>1, <2>8 DEF Compile, Busy, Step
      <3> QED
        BY <1>1, <2>8, <3>1 DEF Compile, Shape, TypeOK, Copy
    <2>6. CASE Insert(w)
      <3>1. Head(todo[w]) \in Table /\ todo[w] # <<>>
        BY <1>1, <2>6, HeadAndTail DEF Insert, Busy
      <3>2. fetched[w] \in Seq(Account \ Tip)
        BY <1>1
      <3>3. /\ copies' \in [Worker -> Seq(Copy)]
            /\ todo' \in [Worker -> Seq(Table)]
        BY <2>6, <3>1, <3>2, CopyTaken DEF Insert
      <3>4. DOMAIN cache' \subseteq Table /\ cache' \in [DOMAIN cache' -> Seq(Account \ Tip)]
        BY <1>1, <2>6, <3>1, <3>2 DEF Insert, With
      <3>5. Busy' /\ pc' \in [Worker -> Step] /\ fetched' \in [Worker -> Seq(Account \ Tip)]
        BY <1>1, <1>2, <2>6 DEF Insert, Busy, Step
      <3> QED
        BY <1>1, <2>6, <3>3, <3>4, <3>5 DEF Insert, Shape, TypeOK, Copy
    <2>7. CASE Again(w)
      <3>1. Tail(todo[w]) \in Seq(Table)
        BY <1>1, <2>7, HeadAndTail DEF Again
      <3>2. todo' \in [Worker -> Seq(Table)]
        BY <1>1, <2>7, <3>1 DEF Again
      <3>3. Busy'
        BY <1>1, <2>7 DEF Again, Busy
      <3> QED
        BY <1>1, <2>7, <3>2, <3>3 DEF Again, Shape, TypeOK, Copy
    <2> QED
      BY <1>3, <2>1, <2>2, <2>3, <2>4, <2>5, <2>6, <2>7, <2>8 DEF build_arb_transaction, get_or_fetch
  <1>4. ASSUME NEW t \in Table, NEW a \in Account, Extend(t, a)
        PROVE  Shape'
    <2>1. chain' = [chain EXCEPT ![t] = Append(chain[t], a)]
      BY <1>4 DEF Extend
    <2>2. Append(chain[t], a) \in Seq(Account)
      BY <1>1, Longer
    <2>3. chain' \in [Table -> Seq(Account)]
      BY <1>1, <2>1, <2>2
    <2>4. Busy'
      BY <1>1, <1>4 DEF Extend, local, Busy
    <2> QED
      BY <1>1, <1>4, <2>3, <2>4 DEF Extend, local, Shape, TypeOK, Copy
  <1>5. CASE UNCHANGED vars
    BY <1>1, <1>5 DEF vars, local, Shape, TypeOK, Copy, Busy
  <1> QED
    BY <1>3, <1>4, <1>5 DEF Next

LEMMA ShapeAlways == Spec => []Shape
  BY ShapeInit, ShapeNext, PTL DEF Spec

\* The tables, the copies in the cache and what get_or_fetch hands to each
\* build keep their shape; no copy holds a tip account.
THEOREM TablesTypeOK == Spec => []TypeOK
  <1>1. Shape => TypeOK
    BY DEF Shape
  <1> QED
    BY <1>1, ShapeAlways, PTL

-----------------------------------------------------------------------------
\* Where copies come from.

\* c is what retain left of table t as it was at some time.
IsCopy(t, c) == \E n \in 0 .. Len(chain[t]) : c = Kept(SubSeq(chain[t], 1, n))

\* Every copy is faithful: cached, in a worker's hands, or on its way.
Faithful ==
    /\ \A t \in DOMAIN cache : IsCopy(t, cache[t])
    /\ \A w \in Worker : \A i \in DOMAIN copies[w] : IsCopy(copies[w][i].key, copies[w][i].addresses)
    /\ \A w \in Worker : pc[w] = "insert" => IsCopy(Head(todo[w]), fetched[w])

\* A table's beginning does not change when the table is extended.
LEMMA BeginningStays ==
    ASSUME NEW s \in Seq(Account), NEW a \in Account, NEW n \in 0 .. Len(s)
    PROVE  SubSeq(Append(s, a), 1, n) = SubSeq(s, 1, n) /\ n \in 0 .. Len(Append(s, a))
  <1>1. /\ Append(s, a) \in Seq(Account) /\ Len(s) \in Nat /\ Len(Append(s, a)) = Len(s) + 1
        /\ \A i \in 1 .. Len(s) : Append(s, a)[i] = s[i]
    BY Longer
  <1>2. n \in Nat /\ n <= Len(s)
    BY <1>1
  <1>3. PICK x : x = SubSeq(Append(s, a), 1, n)
    OBVIOUS
  <1>4. PICK y : y = SubSeq(s, 1, n)
    OBVIOUS
  <1>5. x \in Seq(Account) /\ Len(x) = n /\ \A i \in 1 .. n : x[i] = Append(s, a)[i]
    BY <1>1, <1>2, <1>3
  <1>6. y \in Seq(Account) /\ Len(y) = n /\ \A i \in 1 .. n : y[i] = s[i]
    BY <1>2, <1>4
  <1>7. \A i \in 1 .. n : x[i] = y[i]
    BY ONLY <1>1, <1>2, <1>5, <1>6
  <1>8. x = y
    BY ONLY <1>5, <1>6, <1>7, SeqEqual
  <1> QED
    BY <1>1, <1>2, <1>3, <1>4, <1>8

LEMMA CopyStays ==
    ASSUME Shape, [Next]_vars, NEW t \in Table, NEW c, IsCopy(t, c)
    PROVE  IsCopy(t, c)'
  <1>1. chain \in [Table -> Seq(Account)]
    BY DEF Shape, TypeOK
  <1>2. PICK n \in 0 .. Len(chain[t]) : c = Kept(SubSeq(chain[t], 1, n))
    BY DEF IsCopy
  <1>3. CASE chain' = chain
    BY <1>2, <1>3 DEF IsCopy
  <1>4. ASSUME NEW u \in Table, NEW a \in Account, Extend(u, a)
        PROVE  IsCopy(t, c)'
    <2>1. chain' = [chain EXCEPT ![u] = Append(chain[u], a)]
      BY <1>4 DEF Extend
    <2>2. CASE t = u
      <3>1. chain'[t] = Append(chain[t], a)
        BY <1>1, <2>1, <2>2
      <3>2. SubSeq(chain'[t], 1, n) = SubSeq(chain[t], 1, n) /\ n \in 0 .. Len(chain'[t])
        BY <1>1, <1>2, <3>1, BeginningStays
      <3> QED
        BY <1>2, <3>2 DEF IsCopy
    <2>3. CASE t # u
      <3>1. chain'[t] = chain[t]
        BY <1>1, <2>1, <2>3
      <3> QED
        BY <1>2, <3>1 DEF IsCopy
    <2> QED
      BY <2>2, <2>3
  <1>5. ASSUME NEW w \in Worker, build_arb_transaction(w)
        PROVE  chain' = chain
    BY <1>5 DEF build_arb_transaction, get_or_fetch, Begin, Again, Hit, Miss, Fetch, FetchFails,
                Insert, Compile, Finish, Leave
  <1>6. CASE UNCHANGED vars
    BY <1>3, <1>6 DEF vars
  <1> QED
    BY <1>3, <1>4, <1>5, <1>6 DEF Next

LEMMA FaithfulInit == Init => Faithful
  BY DEF Init, Faithful

\* Copies that were genuine before a step are so after it.
LEMMA EntriesStay ==
    ASSUME Shape, Faithful, [Next]_vars
    PROVE  \A v \in Worker : \A i \in DOMAIN copies[v] :
             \A x : x = copies[v][i] => x \in Copy /\ IsCopy(x.key, x.addresses)'
  <1>1. copies \in [Worker -> Seq(Copy)]
    BY DEF Shape, TypeOK, Copy
  <1> SUFFICES ASSUME NEW v \in Worker, NEW i \in DOMAIN copies[v], NEW x, x = copies[v][i]
               PROVE  x \in Copy /\ IsCopy(x.key, x.addresses)'
    OBVIOUS
  <1>2. x \in Copy
    <2>1. PICK d : d = copies[v]
      OBVIOUS
    <2>2. d \in Seq(Copy) /\ i \in DOMAIN d /\ x = d[i]
      BY <1>1, <2>1
    <2> QED
      BY ONLY <2>2
  <1>3. x.key \in Table
    BY <1>2 DEF Copy
  <1>4. IsCopy(x.key, x.addresses)
    BY DEF Faithful
  <1>5. IsCopy(x.key, x.addresses)'
    BY <1>3, <1>4, CopyStays
  <1> QED
    BY <1>2, <1>5

\* A worker's copies after it got one more.
LEMMA OneMoreCopy ==
    ASSUME Shape, Faithful, [Next]_vars, NEW w \in Worker, todo[w] # <<>>,
           NEW c, c \in Seq(Account \ Tip), IsCopy(Head(todo[w]), c),
           copies' = [copies EXCEPT ![w] = Append(@, [key |-> Head(todo[w]), addresses |-> c])]
    PROVE  \A v \in Worker : \A i \in DOMAIN copies'[v] :
             \A x : x = copies'[v][i] => IsCopy(x.key, x.addresses)'
  <1>1. copies \in [Worker -> Seq(Copy)] /\ todo \in [Worker -> Seq(Table)]
    BY DEF Shape, TypeOK, Copy
  <1>2. Head(todo[w]) \in Table
    BY <1>1, HeadAndTail
  <1>3. PICK e : e = [key |-> Head(todo[w]), addresses |-> c]
    OBVIOUS
  <1>4. e \in Copy /\ e.key = Head(todo[w]) /\ e.addresses = c
    BY <1>2, <1>3 DEF Copy
  <1>5. PICK t : t = Head(todo[w])
    OBVIOUS
  <1>6. IsCopy(t, c)'
    BY <1>2, <1>5, CopyStays
  <1>7. IsCopy(e.key, e.addresses)'
    BY <1>4, <1>5, <1>6
  <1>8. copies' = [copies EXCEPT ![w] = Append(copies[w], e)]
    BY <1>3
  <1>9. PICK d : d = copies[w]
    OBVIOUS
  <1>10. d \in Seq(Copy)
    BY <1>1, <1>9
  <1>11. \A i \in DOMAIN Append(d, e) : Append(d, e)[i] = e \/ (i \in DOMAIN d /\ Append(d, e)[i] = d[i])
    <2>1. /\ Append(d, e) \in Seq(Copy) /\ Len(d) \in Nat
          /\ Len(Append(d, e)) = Len(d) + 1
          /\ \A i \in 1 .. Len(d) : Append(d, e)[i] = d[i]
          /\ Append(d, e)[Len(d) + 1] = e
      BY ONLY <1>4, <1>10, Longer
    <2>2. DOMAIN d = 1 .. Len(d) /\ DOMAIN Append(d, e) = 1 .. Len(d) + 1
      BY ONLY <1>10, <2>1
    <2> QED
      BY ONLY <2>1, <2>2
  <1> SUFFICES ASSUME NEW v \in Worker, NEW i \in DOMAIN copies'[v], NEW x, x = copies'[v][i]
               PROVE  IsCopy(x.key, x.addresses)'
    OBVIOUS
  <1>12. CASE v # w
    <2>1. copies'[v] = copies[v]
      BY <1>1, <1>8, <1>12
    <2> QED
      BY <2>1, EntriesStay
  <1>13. CASE v = w
    <2>1. copies'[v] = Append(d, e)
      BY <1>1, <1>8, <1>9, <1>13
    <2>2. x = e \/ (i \in DOMAIN copies[w] /\ x = copies[w][i])
      BY <1>9, <1>11, <2>1
    <2> QED
      BY <1>7, <2>2, EntriesStay
  <1> QED
    BY <1>12, <1>13

\* The cache, and the copies on their way, when the tables are all that moved.
LEMMA CachedStay ==
    ASSUME Shape, Faithful, [Next]_vars
    PROVE  \A t \in DOMAIN cache : t \in Table /\ (\A c : c = cache[t] => IsCopy(t, c)')
  <1> SUFFICES ASSUME NEW t \in DOMAIN cache, NEW c, c = cache[t]
               PROVE  t \in Table /\ IsCopy(t, c)'
    BY DEF Shape, TypeOK
  <1>1. t \in Table
    BY DEF Shape, TypeOK
  <1>2. IsCopy(t, c)
    BY DEF Faithful
  <1> QED
    BY <1>1, <1>2, CopyStays

LEMMA FetchedStay ==
    ASSUME Shape, Faithful, [Next]_vars
    PROVE  \A v \in Worker : pc[v] = "insert" =>
             \A t, c : t = Head(todo[v]) /\ c = fetched[v] => IsCopy(t, c)'
  <1> SUFFICES ASSUME NEW v \in Worker, pc[v] = "insert", NEW t, NEW c,
                      t = Head(todo[v]), c = fetched[v]
               PROVE  IsCopy(t, c)'
    OBVIOUS
  <1>1. t \in Table
    BY HeadAndTail DEF Shape, TypeOK, Busy
  <1>2. IsCopy(t, c)
    BY DEF Faithful
  <1> QED
    BY <1>1, <1>2, CopyStays

\* Faithful after the step, from what each copy is then.
LEMMA FaithfulThen ==
    ASSUME \A t \in DOMAIN cache' : \A c : c = cache'[t] => IsCopy(t, c)',
           \A v \in Worker : \A i \in DOMAIN copies'[v] :
             \A x : x = copies'[v][i] => IsCopy(x.key, x.addresses)',
           \A v \in Worker : pc'[v] = "insert" =>
             \A t, c : t = Head(todo'[v]) /\ c = fetched'[v] => IsCopy(t, c)'
    PROVE  Faithful'
  BY DEF Faithful, IsCopy

LEMMA FaithfulNext == Shape /\ Faithful /\ [Next]_vars => Faithful'
  <1> SUFFICES ASSUME Shape, Faithful, [Next]_vars
               PROVE  Faithful'
    OBVIOUS
  <1>1. /\ pc \in [Worker -> Step] /\ todo \in [Worker -> Seq(Table)]
        /\ fetched \in [Worker -> Seq(Account \ Tip)] /\ copies \in [Worker -> Seq(Copy)]
        /\ DOMAIN cache \subseteq Table /\ cache \in [DOMAIN cache -> Seq(Account \ Tip)]
    BY DEF Shape, TypeOK, Copy
  <1>2. ASSUME UNCHANGED cache
        PROVE  \A t \in DOMAIN cache' : \A c : c = cache'[t] => IsCopy(t, c)'
    BY <1>2, CachedStay
  <1>3. ASSUME UNCHANGED copies
        PROVE  \A v \in Worker : \A i \in DOMAIN copies'[v] :
                 \A x : x = copies'[v][i] => IsCopy(x.key, x.addresses)'
    BY <1>3, EntriesStay
  <1>4. ASSUME \A v \in Worker : pc'[v] = "insert" =>
                  pc[v] = "insert" /\ todo'[v] = todo[v] /\ fetched'[v] = fetched[v]
        PROVE  \A v \in Worker : pc'[v] = "insert" =>
                 \A t, c : t = Head(todo'[v]) /\ c = fetched'[v] => IsCopy(t, c)'
    BY <1>4, FetchedStay
  <1> USE DEF At, Goto
  <1>5. ASSUME NEW w \in Worker, build_arb_transaction(w)
        PROVE  Faithful'
    <2>1. CASE Begin(w)
      <3>1. UNCHANGED <<cache, copies>>
        BY <2>1 DEF Begin
      <3>2. \A v \in Worker : pc'[v] = "insert" =>
                  pc[v] = "insert" /\ todo'[v] = todo[v] /\ fetched'[v] = fetched[v]
        BY <1>1, <2>1 DEF Begin
      <3> QED
        BY <1>2, <1>3, <1>4, <3>1, <3>2, FaithfulThen
    <2>2. CASE Hit(w)
      <3>1. /\ todo[w] # <<>> /\ cache[Head(todo[w])] \in Seq(Account \ Tip)
            /\ IsCopy(Head(todo[w]), cache[Head(todo[w])])
        BY <1>1, <2>2 DEF Hit, Faithful
      <3>2. \A v \in Worker : \A i \in DOMAIN copies'[v] :
              \A x : x = copies'[v][i] => IsCopy(x.key, x.addresses)'
        BY <2>2, <3>1, OneMoreCopy DEF Hit
      <3>3. \A v \in Worker : pc'[v] = "insert" =>
                  pc[v] = "insert" /\ todo'[v] = todo[v] /\ fetched'[v] = fetched[v]
        BY <1>1, <2>2 DEF Hit
      <3> QED
        BY <1>2, <1>4, <2>2, <3>2, <3>3, FaithfulThen DEF Hit
    <2>3. CASE Miss(w) \/ Compile(w)
      <3>1. UNCHANGED <<cache, copies, todo, fetched>>
        BY <2>3 DEF Miss, Compile
      <3>2. \A v \in Worker : pc'[v] = "insert" => pc[v] = "insert"
        BY <1>1, <2>3 DEF Miss, Compile
      <3> QED
        BY <1>2, <1>3, <1>4, <3>1, <3>2, FaithfulThen
    <2>4. CASE Fetch(w)
      <3>1. UNCHANGED <<chain, cache, copies, todo>>
        BY <2>4 DEF Fetch
      <3>2. Head(todo[w]) \in Table
        BY <1>1, <2>4, HeadAndTail DEF Fetch, Shape, Busy
      <3>3. \E n \in 0 .. Len(chain[Head(todo[w])]) :
              fetched'[w] = Kept(SubSeq(chain[Head(todo[w])], 1, n))
        BY <1>1, <2>4 DEF Fetch
      <3>4. PICK t : t = Head(todo[w])
        OBVIOUS
      <3>5. PICK c : c = fetched'[w]
        OBVIOUS
      <3>6. IsCopy(t, c)'
        <4>1. IsCopy(t, c)
          BY <3>3, <3>4, <3>5 DEF IsCopy
        <4> QED
          BY <3>2, <3>4, <4>1, CopyStays
      <3>7. \A v \in Worker \ {w} : pc'[v] = pc[v] /\ fetched'[v] = fetched[v]
        BY <1>1, <2>4 DEF Fetch
      <3>8. \A v \in Worker : pc'[v] = "insert" =>
              \A u, d : u = Head(todo'[v]) /\ d = fetched'[v] => IsCopy(u, d)'
        BY <3>1, <3>4, <3>5, <3>6, <3>7, FetchedStay
      <3> QED
        BY <1>2, <1>3, <3>1, <3>8, FaithfulThen
    <2>5. CASE Insert(w)
      <3>1. /\ pc[w] = "insert" /\ todo[w] # <<>> /\ fetched[w] \in Seq(Account \ Tip)
            /\ IsCopy(Head(todo[w]), fetched[w])
        BY <1>1, <2>5 DEF Insert, Faithful, Shape, Busy
      <3>2. \A v \in Worker : \A i \in DOMAIN copies'[v] :
              \A x : x = copies'[v][i] => IsCopy(x.key, x.addresses)'
        BY <2>5, <3>1, OneMoreCopy DEF Insert
      <3>3. \A v \in Worker : pc'[v] = "insert" =>
                  pc[v] = "insert" /\ todo'[v] = todo[v] /\ fetched'[v] = fetched[v]
        BY <1>1, <2>5 DEF Insert
      <3>4. ASSUME NEW t \in DOMAIN cache', NEW c, c = cache'[t]
            PROVE  IsCopy(t, c)'
        <4>1. /\ DOMAIN cache' = DOMAIN cache \cup {Head(todo[w])}
              /\ c = IF t = Head(todo[w]) THEN fetched[w] ELSE cache[t]
          BY <2>5, <3>4 DEF Insert, With
        <4>2. CASE t = Head(todo[w])
          BY <3>1, <4>1, <4>2, FetchedStay
        <4>3. CASE t # Head(todo[w])
          BY <3>4, <4>1, <4>3, CachedStay
        <4> QED
          BY <4>2, <4>3
      <3>5. \A t \in DOMAIN cache' : \A c : c = cache'[t] => IsCopy(t, c)'
        BY <3>4
      <3> QED
        BY <1>4, <3>2, <3>3, <3>5, FaithfulThen
    <2>6. CASE Again(w)
      <3>1. UNCHANGED <<cache, copies>>
        BY <2>6 DEF Again
      <3>2. \A v \in Worker : pc'[v] = "insert" =>
                  pc[v] = "insert" /\ todo'[v] = todo[v] /\ fetched'[v] = fetched[v]
        BY <1>1, <2>6 DEF Again
      <3> QED
        BY <1>2, <1>3, <1>4, <3>1, <3>2, FaithfulThen
    <2>7. CASE FetchFails(w) \/ Finish(w)
      <3>1. copies' = [copies EXCEPT ![w] = <<>>] /\ UNCHANGED cache
        BY <2>7 DEF FetchFails, Finish, Leave
      <3>2. \A v \in Worker : \A i \in DOMAIN copies'[v] :
              \A x : x = copies'[v][i] => IsCopy(x.key, x.addresses)'
        <4>1. copies'[w] = <<>> /\ \A v \in Worker \ {w} : copies'[v] = copies[v]
          BY <1>1, <3>1
        <4>2. DOMAIN copies'[w] = {}
          BY <4>1
        <4> QED
          BY <4>1, <4>2, EntriesStay
      <3>3. \A v \in Worker : pc'[v] = "insert" =>
                  pc[v] = "insert" /\ todo'[v] = todo[v] /\ fetched'[v] = fetched[v]
        BY <1>1, <2>7 DEF FetchFails, Finish, Leave
      <3> QED
        BY <1>2, <1>4, <3>1, <3>2, <3>3, FaithfulThen
    <2> QED
      BY <1>5, <2>1, <2>2, <2>3, <2>4, <2>5, <2>6, <2>7 DEF build_arb_transaction, get_or_fetch
  <1>6. ASSUME NEW t \in Table, NEW a \in Account, Extend(t, a)
        PROVE  Faithful'
    BY <1>2, <1>3, <1>4, <1>6, FaithfulThen DEF Extend, local
  <1>7. CASE UNCHANGED vars
    BY <1>2, <1>3, <1>4, <1>7, FaithfulThen DEF vars, local
  <1> QED
    BY <1>5, <1>6, <1>7 DEF Next

LEMMA FaithfulAlways == Spec => [](Shape /\ Faithful)
  BY ShapeInit, ShapeNext, FaithfulInit, FaithfulNext, PTL DEF Spec

\* Whichever worker fetched it, however long it took and whatever the others
\* inserted meanwhile, a copy in AltCache is the table as it was at some time,
\* without its tip accounts.
THEOREM CopiesFaithful == Spec => []CopyFaithful
  <1>1. Faithful => CopyFaithful
    BY DEF Faithful, CopyFaithful, IsCopy
  <1> QED
    BY <1>1, FaithfulAlways, PTL

-----------------------------------------------------------------------------
\* What a compiled transaction refers to.

\* A place where a test holds is either the first or after one.
LEMMA FirstPlace ==
    ASSUME NEW n \in Nat, NEW T, T \subseteq 1 .. n, T # {}
    PROVE  \E i \in T : \A j \in 1 .. i - 1 : j \notin T
  <1>1. T \subseteq Nat
    OBVIOUS
  <1>2. PICK i \in T : \A j \in T : i <= j
    BY <1>1, Least
  <1>3. \A j \in 1 .. i - 1 : j \notin T
    BY <1>1, <1>2
  <1> QED
    BY <1>3

\* The place that a position in a table is computed from.
LEMMA Located ==
    ASSUME Shape, NEW w \in Worker, NEW a \in LookedUp(w)
    PROVE  \E k \in DOMAIN copies[w] :
             /\ copies[w][k] \in Copy
             /\ CopyOf(w, a) = copies[w][k]
             /\ IndexOf(w, a) \in 1 .. Len(copies[w][k].addresses)
             /\ copies[w][k].addresses[IndexOf(w, a)] = a
  <1>1. PICK d : d = copies[w]
    OBVIOUS
  <1>2. d \in Seq(Copy)
    BY <1>1 DEF Shape, TypeOK, Copy
  <1>3. DOMAIN d = 1 .. Len(d) /\ Len(d) \in Nat /\ \A i \in 1 .. Len(d) : d[i] \in Copy
    BY ONLY <1>2
  <1>4. \A i \in DOMAIN d : /\ d[i].addresses \in Seq(Account \ Tip)
                            /\ DOMAIN d[i].addresses = 1 .. Len(d[i].addresses)
                            /\ Len(d[i].addresses) \in Nat
    BY ONLY <1>3 DEF Copy
  <1> DEFINE T == { i \in DOMAIN d : a \in ToSet(d[i].addresses) }
  <1>5. T # {} /\ T \subseteq 1 .. Len(d)
    BY <1>1, <1>3 DEF LookedUp, CopiesWith
  <1>6. \E i \in T : \A j \in 1 .. i - 1 : j \notin T
    BY ONLY <1>3, <1>5, FirstPlace
  <1>7. \E i \in DOMAIN d : /\ a \in ToSet(d[i].addresses)
                            /\ \A j \in 1 .. i - 1 : ~ (a \in ToSet(d[j].addresses))
    BY <1>3, <1>6
  <1>8. PICK k : k = First(d, LAMBDA c : a \in ToSet(c.addresses))
    OBVIOUS
  <1>9. k \in DOMAIN d /\ a \in ToSet(d[k].addresses)
    BY <1>7, <1>8 DEF First
  <1>10. CopyOf(w, a) = d[k]
    BY <1>1, <1>8 DEF CopyOf
  <1>11. PICK e : e = d[k].addresses
    OBVIOUS
  <1>12. /\ e \in Seq(Account \ Tip) /\ DOMAIN e = 1 .. Len(e) /\ Len(e) \in Nat
         /\ a \in ToSet(e)
    BY <1>4, <1>9, <1>11
  <1> DEFINE U == { i \in DOMAIN e : e[i] = a }
  <1>13. U # {} /\ U \subseteq 1 .. Len(e)
    BY <1>12 DEF ToSet
  <1>14. \E i \in U : \A j \in 1 .. i - 1 : j \notin U
    BY ONLY <1>12, <1>13, FirstPlace
  <1>15. \E i \in DOMAIN e : e[i] = a /\ \A j \in 1 .. i - 1 : ~ (e[j] = a)
    BY <1>12, <1>14
  <1>16. PICK i : i = First(e, LAMBDA b : b = a)
    OBVIOUS
  <1>17. i \in DOMAIN e /\ e[i] = a
    BY <1>15, <1>16 DEF First
  <1>18. IndexOf(w, a) = i
    BY <1>10, <1>11, <1>16 DEF IndexOf
  <1> QED
    BY <1>1, <1>3, <1>9, <1>10, <1>11, <1>12, <1>17, <1>18

\* A copy of a table, entry by entry.
LEMMA CopyOfTable ==
    ASSUME Shape, Faithful, NEW w \in Worker, NEW a \in LookedUp(w)
    PROVE  /\ TableOf(w, a) \in Table
           /\ chain[TableOf(w, a)] \in Seq(Account)
           /\ \E n \in 0 .. Len(chain[TableOf(w, a)]) :
                /\ IndexOf(w, a) \in 1 .. Len(KeptFn(chain[TableOf(w, a)])[n])
                /\ KeptFn(chain[TableOf(w, a)])[n][IndexOf(w, a)] = a
  <1>1. PICK k \in DOMAIN copies[w] :
             /\ copies[w][k] \in Copy
             /\ CopyOf(w, a) = copies[w][k]
             /\ IndexOf(w, a) \in 1 .. Len(copies[w][k].addresses)
             /\ copies[w][k].addresses[IndexOf(w, a)] = a
    BY Located
  <1>2. PICK c : c = copies[w][k]
    OBVIOUS
  <1>3. c \in Copy /\ TableOf(w, a) = c.key /\ IsCopy(c.key, c.addresses)
    BY <1>1, <1>2 DEF TableOf, Faithful
  <1>4. PICK s : s = chain[c.key]
    OBVIOUS
  <1>5. c.key \in Table /\ s \in Seq(Account)
    BY <1>3, <1>4 DEF Copy, Shape, TypeOK
  <1>6. PICK n \in 0 .. Len(s) : c.addresses = Kept(SubSeq(s, 1, n))
    BY <1>3, <1>4 DEF IsCopy
  <1>7. c.addresses = KeptFn(s)[n]
    BY ONLY <1>5, <1>6, KeptOfFirst
  <1> QED
    BY <1>1, <1>2, <1>3, <1>4, <1>5, <1>6, <1>7

LEMMA LookupsAreRight == Shape /\ Faithful => LookupsHold
  <1> SUFFICES ASSUME Shape, Faithful, NEW w \in Worker, NEW a \in LookedUp(w), Clean(TableOf(w, a))
               PROVE  Resolved(w, a) = a
    BY DEF LookupsHold, Built
  <1>1. PICK s : s = chain[TableOf(w, a)]
    OBVIOUS
  <1>2. PICK x : x = IndexOf(w, a)
    OBVIOUS
  <1>3. PICK n \in 0 .. Len(s) : s \in Seq(Account) /\ x \in 1 .. Len(KeptFn(s)[n]) /\ KeptFn(s)[n][x] = a
    BY <1>1, <1>2, CopyOfTable
  <1>4. \A i \in 1 .. Len(s) : s[i] \notin Tip
    <2>1. ToSet(s) \cap Tip = {}
      BY <1>1 DEF Clean
    <2>2. DOMAIN s = 1 .. Len(s)
      BY <1>3
    <2> QED
      BY <2>1, <2>2 DEF ToSet
  <1>5. Len(KeptFn(s)[n]) = n /\ \A i \in 1 .. n : KeptFn(s)[n][i] = s[i]
    BY ONLY <1>3, <1>4, KeptClean
  <1>6. s[x] = a
    BY <1>3, <1>5
  <1> QED
    BY <1>1, <1>2, <1>6 DEF Resolved

\* A copy is never refreshed and a slow fetch may replace a newer one; yet in
\* a table without tip accounts, a position that build_arb_transaction took
\* from any copy names on the chain the account it was taken for.
THEOREM LookupsAlwaysHold == Spec => []LookupsHold
  BY LookupsAreRight, FaithfulAlways, PTL

\* Two accounts of a transaction never share a position, even if they were
\* found in copies of the same table taken at different times.
LEMMA PositionsDiffer ==
    ASSUME Shape, Faithful, NEW w \in Worker, NEW a \in LookedUp(w), NEW b \in LookedUp(w),
           TableOf(w, a) = TableOf(w, b), IndexOf(w, a) = IndexOf(w, b)
    PROVE  a = b
  <1>1. PICK s : s = chain[TableOf(w, a)]
    OBVIOUS
  <1>2. PICK x : x = IndexOf(w, a)
    OBVIOUS
  <1>3. PICK f : f = KeptFn(s)
    OBVIOUS
  <1>4. PICK m \in 0 .. Len(s) : s \in Seq(Account) /\ x \in 1 .. Len(f[m]) /\ f[m][x] = a
    BY <1>1, <1>2, <1>3, CopyOfTable
  <1>5. PICK n \in 0 .. Len(s) : x \in 1 .. Len(f[n]) /\ f[n][x] = b
    BY <1>1, <1>2, <1>3, CopyOfTable
  <1>6. m \in Nat /\ n \in Nat /\ Len(s) \in Nat
    BY <1>4
  <1>7. \A i, j \in 0 .. Len(s) : i <= j /\ x \in 1 .. Len(f[i]) => f[j][x] = f[i][x]
    <2> SUFFICES ASSUME NEW i \in 0 .. Len(s), NEW j \in 0 .. Len(s), i <= j, x \in 1 .. Len(f[i])
                 PROVE  f[j][x] = f[i][x]
      OBVIOUS
    <2>1. j \in i .. Len(s)
      OBVIOUS
    <2> QED
      BY <1>3, <1>4, <2>1, KeptPrefix
  <1>8. m <= n \/ n <= m
    BY <1>6
  <1> QED
    BY <1>4, <1>5, <1>7, <1>8

LEMMA LocksAreExact == Shape /\ Faithful => LocksExact
  <1> SUFFICES ASSUME Shape, Faithful, NEW w \in Built
               PROVE  LockCount(w) = Cardinality(Named(w))
    BY DEF LocksExact
  <1>1. w \in Worker /\ swap[w] \in Swap /\ tip[w] \in Tip
    BY DEF Built, At, Shape, TypeOK, Busy
  <1>2. Named(w) \subseteq Account /\ IsFiniteSet(Account)
    BY <1>1, AltAssumption DEF AltAssumption, Named
  <1>3. IsFiniteSet(Named(w))
    BY <1>2, FS_Subset
  <1> DEFINE L == LookedUp(w)
             N == Named(w)
             P == { <<TableOf(w, a), IndexOf(w, a)>> : a \in L }
             f == [a \in L |-> <<TableOf(w, a), IndexOf(w, a)>>]
  <1>4. L \subseteq N
    BY DEF LookedUp
  <1>5. f \in Surjection(L, P)
    BY DEF Surjection
  <1>6. f \in Injection(L, P)
    <2>1. ASSUME NEW a \in L, NEW b \in L, f[a] = f[b]
          PROVE  a = b
      <3>1. TableOf(w, a) = TableOf(w, b) /\ IndexOf(w, a) = IndexOf(w, b)
        BY <2>1
      <3> QED
        BY <1>1, <3>1, PositionsDiffer
    <2> QED
      BY <2>1, <1>5 DEF Injection, IsInjective, Surjection
  <1>7. LockCount(w) = Cardinality(N \ L) + Cardinality(P)
    BY DEF LockCount
  <1> HIDE DEF f, L, N, P
  <1>8. IsFiniteSet(N)
    BY <1>3 DEF N
  <1>9. IsFiniteSet(L) /\ IsFiniteSet(N \ L)
    <2>1. L \in SUBSET N /\ N \ L \in SUBSET N
      BY <1>4
    <2> QED
      BY ONLY <1>8, <2>1, FS_Subset
  <1>10. Cardinality(P) = Cardinality(L)
    BY ONLY <1>5, <1>6, <1>9, FS_Surjection
  <1>11. Cardinality((N \ L) \cup L) = Cardinality(N \ L) + Cardinality(L) - Cardinality((N \ L) \cap L)
    BY ONLY <1>9, FS_Union
  <1>12. (N \ L) \cup L = N /\ (N \ L) \cap L = {}
    BY <1>4
  <1>13. Cardinality(N \ L) \in Nat /\ Cardinality(L) \in Nat
    BY <1>9, FS_CardinalityType
  <1>14. Cardinality(N) = Cardinality(N \ L) + Cardinality(L) - Cardinality({})
    <2>1. Cardinality((N \ L) \cup L) = Cardinality(N)
      BY ONLY <1>12
    <2>2. Cardinality((N \ L) \cap L) = Cardinality({})
      BY ONLY <1>12
    <2> QED
      BY ONLY <1>11, <2>1, <2>2
  <1>15. Cardinality({}) = 0
    BY FS_EmptySet
  <1>16. Cardinality(N) = Cardinality(N \ L) + Cardinality(L)
    BY ONLY <1>13, <1>14, <1>15
  <1> QED
    BY <1>7, <1>10, <1>16 DEF N

\* account_lock_count counts every account of a built transaction once, so the
\* limit of 64 account locks is applied to the true number.
THEOREM LocksAlwaysExact == Spec => []LocksExact
  BY LocksAreExact, FaithfulAlways, PTL

-----------------------------------------------------------------------------
\* The tokens of a region.

Calling == {"refreshing", "authenticating"}

\* How far the access token outlives the timer, by step and failed rounds.
Lead ==
    /\ at = "sleeping" /\ misses = 0 => access - timer >= Margin
    /\ at = "sleeping" /\ misses = 1 => access - timer >= Margin - CallTime - Retry - MinSleep
    /\ at \in Calling /\ misses = 0 => access - timer >= Margin - CallTime
    /\ at \in Calling /\ misses = 1 => access - timer >= Margin - 2 * CallTime - Retry - MinSleep
    /\ at = "backoff" => misses # 0
    /\ at = "backoff" /\ misses = 1 => access - timer >= Margin - CallTime - Retry

AuthIInv == AuthTypeOK /\ Lead

\* The sleep is within its limits, and ends Margin before the token does
\* unless the token is too close to its end for the shortest sleep.
LEMMA SleepLimits ==
    ASSUME NEW life \in Nat
    PROVE  /\ SleepFor(life) \in 0 .. MaxSleep
           /\ SleepFor(life) <= MinSleep \/ life - SleepFor(life) >= Margin
  BY AuthAssumption DEF AuthAssumption, SleepFor, Lower, Higher

\* Init establishes the invariant.
LEMMA AuthIInvInit == AuthInit => AuthIInv
  BY AuthAssumption DEF AuthAssumption, AuthInit, AuthIInv, AuthTypeOK, Lead, Calling, Tokenless, InLoop, Higher

\* An authentication brings the whole lead back.
LEMMA AuthenticatedKeeps ==
    ASSUME AuthIInv, Authenticated, up' \in BOOLEAN
    PROVE  AuthIInv'
  <1>1. AccessLife \in Nat /\ RefreshLife \in Nat /\ Margin \in Nat /\ MinSleep \in Nat
    BY AuthAssumption DEF AuthAssumption
  <1>2. /\ access' = AccessLife /\ refresh' = RefreshLife /\ misses' = 0
        /\ at' = "sleeping" /\ timer' = SleepFor(AccessLife)
    BY DEF Authenticated, GoToSleep
  <1>3. timer' \in 0 .. MaxSleep /\ access' - timer' >= Margin
    BY <1>1, <1>2, SleepLimits, AuthAssumption DEF AuthAssumption
  <1>4. AuthTypeOK'
    BY <1>1, <1>2, <1>3, AuthAssumption DEF AuthAssumption, AuthTypeOK, InLoop, Higher
  <1> QED
    BY <1>2, <1>3, <1>4 DEF AuthIInv, Lead, Calling

\* The invariant gives the property.
LEMMA LeadSuffices == AuthIInv => OneMissSurvived
  BY AuthAssumption
     DEF AuthAssumption, AuthIInv, AuthTypeOK, Lead, Calling, InLoop, OneMissSurvived, Higher

\* Every step keeps the invariant.
LEMMA AuthIInvNext == AuthIInv /\ [AuthNext]_authVars => AuthIInv'
  <1> SUFFICES ASSUME AuthIInv, [AuthNext]_authVars  PROVE AuthIInv'
    OBVIOUS
  <1>a. /\ Margin \in Nat /\ MinSleep \in Nat /\ MaxSleep \in Nat /\ Retry \in Nat
        /\ ReauthBelow \in Nat /\ CallTime \in Nat /\ AccessLife \in Nat /\ RefreshLife \in Nat
    BY AuthAssumption DEF AuthAssumption
  <1>b. /\ timer \in Nat /\ access \in 0 .. AccessLife /\ refresh \in 0 .. RefreshLife
        /\ misses \in 0 .. 2 /\ up \in BOOLEAN
    BY <1>a DEF AuthIInv, AuthTypeOK, Higher
  <1>1. CASE connect_region
    <2>1. CASE Authenticated
      BY <2>1, <1>1, AuthenticatedKeeps, <1>b DEF connect_region
    <2>2. CASE ~Authenticated
      BY <2>2, <1>1 DEF connect_region, AuthIInv, AuthTypeOK, Lead, Calling, Tokenless
    <2> QED
      BY <2>1, <2>2
  <1>2. CASE Wake
    BY <1>2, <1>a, <1>b DEF Wake, AuthIInv, AuthTypeOK, Lead, Calling, InLoop, Higher
  <1>3. CASE Refreshed
    <2>1. /\ access' = AccessLife /\ misses' = 0 /\ at' = "sleeping"
          /\ timer' = SleepFor(AccessLife) /\ refresh' = refresh /\ up' = up
      BY <1>3 DEF Refreshed, GoToSleep
    <2>2. timer' \in 0 .. MaxSleep /\ access' - timer' >= Margin
      BY <1>a, <2>1, SleepLimits, AuthAssumption DEF AuthAssumption
    <2>3. AuthTypeOK'
      BY <1>a, <1>b, <2>1, <2>2 DEF AuthTypeOK, InLoop, Higher
    <2> QED
      BY <2>1, <2>2, <2>3 DEF AuthIInv, Lead, Calling
  <1>4. CASE RefreshEmpty
    <2>1. /\ access' = access /\ misses' = Lower(2, misses + 1) /\ at' = "sleeping"
          /\ timer' = SleepFor(access) /\ refresh' = refresh /\ up' = up /\ at = "refreshing"
      BY <1>4 DEF RefreshEmpty, GoToSleep
    <2>2. /\ timer' \in 0 .. MaxSleep
          /\ timer' <= MinSleep \/ access' - timer' >= Margin
      BY <1>b, <2>1, SleepLimits
    <2>3. misses' \in 1 .. 2 /\ (misses' = 1 => misses = 0)
      BY <1>b, <2>1 DEF Lower
    <2>4. AuthTypeOK'
      BY <1>a, <1>b, <2>1, <2>2, <2>3 DEF AuthTypeOK, InLoop, Higher
    <2>5. misses' = 1 => access' - timer' >= Margin - CallTime - Retry - MinSleep
      BY <1>a, <1>b, <2>1, <2>2, <2>3 DEF AuthIInv, Lead, Calling
    <2> QED
      BY <2>1, <2>3, <2>4, <2>5 DEF AuthIInv, Lead, Calling
  <1>5. CASE RefreshFails
    BY <1>5, <1>a, <1>b DEF RefreshFails, AuthIInv, AuthTypeOK, Lead, Calling, InLoop
  <1>6. CASE AuthSucceeds
    BY <1>6, <1>b, AuthenticatedKeeps DEF AuthSucceeds
  <1>7. CASE AuthFails
    <2>1. misses' \in 1 .. 2 /\ (misses' = 1 => misses = 0)
      BY <1>7, <1>b DEF AuthFails, Lower
    <2>2. AuthTypeOK'
      BY <1>7, <1>a, <1>b, <2>1 DEF AuthFails, AuthTypeOK, InLoop, Higher
    <2>3. misses' = 1 => access' - timer' >= Margin - CallTime - Retry
      BY <1>7, <1>a, <1>b, <2>1 DEF AuthFails, AuthIInv, Lead, Calling
    <2> QED
      BY <1>7, <2>1, <2>2, <2>3 DEF AuthFails, AuthIInv, Lead, Calling
  <1>8. CASE BackoffOver
    <2>1. /\ access' = access /\ misses' = misses /\ at' = "sleeping" /\ timer = 0
          /\ timer' = SleepFor(access) /\ refresh' = refresh /\ up' = up /\ at = "backoff"
      BY <1>8 DEF BackoffOver, GoToSleep
    <2>2. /\ timer' \in 0 .. MaxSleep
          /\ timer' <= MinSleep \/ access' - timer' >= Margin
      BY <1>b, <2>1, SleepLimits
    <2>3. AuthTypeOK'
      BY <1>a, <1>b, <2>1, <2>2 DEF AuthTypeOK, InLoop, Higher
    <2>4. misses' = 1 => access' - timer' >= Margin - CallTime - Retry - MinSleep
      BY <1>a, <1>b, <2>1, <2>2 DEF AuthIInv, Lead
    <2> QED
      BY <2>1, <2>3, <2>4 DEF AuthIInv, Lead, Calling
  <1>9. CASE ServiceChanges
    BY <1>9, <1>b DEF ServiceChanges, AuthIInv, AuthTypeOK, Lead, Calling
  <1>10. CASE Tick
    <2>1. /\ timer' = timer - 1 /\ timer' \in Nat /\ at' = at /\ misses' = misses /\ up' = up
      BY <1>10, <1>b DEF Tick
    <2>2. /\ access' \in 0 .. AccessLife /\ refresh' \in 0 .. RefreshLife
          /\ access > 0 => access' = access - 1
      BY <1>10, <1>a, <1>b DEF Tick, Higher
    <2>3. AuthTypeOK'
      BY <1>a, <1>b, <2>1, <2>2 DEF AuthIInv, AuthTypeOK, Higher
    <2>4. CASE access > 0
      <3>1. access' - timer' = access - timer
        BY <2>1, <2>2, <2>4, <1>a, <1>b
      <3> QED
        BY <2>1, <2>3, <3>1 DEF AuthIInv, Lead, Calling
    <2>5. CASE access = 0
      BY <1>10, <2>1, <2>3, <2>5, LeadSuffices DEF Tick, AuthIInv, OneMissSurvived, Lead, Calling
    <2> QED
      BY <1>b, <2>4, <2>5
  <1>11. CASE UNCHANGED authVars
    BY <1>11 DEF authVars, AuthIInv, AuthTypeOK, Lead, Calling
  <1> QED
    BY <1>1, <1>2, <1>3, <1>4, <1>5, <1>6, <1>7, <1>8, <1>9, <1>10, <1>11
       DEF AuthNext, token_refresh_loop

\* The invariant holds throughout, whatever the auth service does to the loop.
THEOREM AuthInvariance == AuthSpec => []AuthIInv
  <1> QED
    BY AuthIInvInit, AuthIInvNext, PTL DEF AuthSpec

\* The shape of a region's state, its timers' limits included, at every step
\* of token_refresh_loop.
THEOREM TokensTypeOK == AuthSpec => []AuthTypeOK
  <1>1. AuthIInv => AuthTypeOK
    BY DEF AuthIInv
  <1> QED
    BY <1>1, AuthInvariance, PTL

\* One failed round of token_refresh_loop never lets the access token expire,
\* for all delays that leave Margin room for a round, a pause and a retry.
THEOREM OneMissIsSurvived == AuthSpec => []OneMissSurvived
  BY AuthInvariance, LeadSuffices, PTL
===============================================================================
