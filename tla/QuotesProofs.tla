----------------------------- MODULE QuotesProofs -----------------------------
(***************************************************************************)
(* Quotes, proved for every set of entries, every plan and output that     *)
(* Metis may answer with, every list of tokens and every length of a       *)
(* summary.                                                                *)
(*                                                                         *)
(* That a merged quote is sound needs what has been judged to be carried   *)
(* through the loop (Judged), since nothing is looked at again.  The books *)
(* balance because a cell is taken down once per pass: cells still to be   *)
(* taken have nothing taken (Untaken).  That verdicts keep up follows the  *)
(* pass through the five counters of a token (Lag), and rests on no two    *)
(* checks being between their counts at once (Alone).                      *)
(*                                                                         *)
(* The two sets of books agree at an await because at every moment they    *)
(* differ by the checks at a verdict or at the loop (Agreed); a sum over   *)
(* the tokens is a recursion over the list, so what a count adds to it is  *)
(* shown by induction.  The calendar's loops end, with the date of the day *)
(* they were given, by induction over the days and over the months.        *)
(***************************************************************************)
EXTENDS Quotes, FiniteSetTheorems, SequenceTheorems, NaturalsInduction, WellFoundedInduction,
        TLAPS

-----------------------------------------------------------------------------
\* Induction over numbers, for a set of numbers.

\* A set of numbers that is not empty has a least element.
LEMMA Least ==
    ASSUME NEW T, T \subseteq Nat, T # {}
    PROVE  \E x \in T : \A y \in T : x <= y
  <1> DEFINE R == OpToRel(<, Nat)
  <1>1. IsWellFoundedOn(R, Nat)
    BY NatLessThanWellFounded
  <1>2. \A x, y \in Nat : y < x => <<y, x>> \in R
    BY DEF OpToRel
  <1> HIDE DEF R
  <1>3. PICK x \in T : \A y \in T : ~(<<y, x>> \in R)
    BY <1>1, WFMin
  <1>4. \A y \in T : x \in Nat /\ y \in Nat /\ ~(y < x)
    BY <1>2, <1>3
  <1> QED
    BY ONLY <1>4

\* A set that has 0 and with every number the next has them all.
LEMMA Induct ==
    ASSUME NEW S, 0 \in S, \A n \in Nat : n \in S => n + 1 \in S
    PROVE  Nat \subseteq S
  <1> SUFFICES ASSUME Nat \ S # {} PROVE FALSE
    OBVIOUS
  <1>1. PICK x \in Nat \ S : \A y \in Nat \ S : x <= y
    BY Least
  <1>2. x \in Nat /\ x # 0 /\ x \notin S
    OBVIOUS
  <1>3. x - 1 \in Nat /\ x - 1 < x /\ (x - 1) + 1 = x
    BY <1>2
  <1>4. x - 1 \in S
    BY <1>1, <1>3
  <1> QED
    BY <1>2, <1>3, <1>4

-----------------------------------------------------------------------------
\* The calendar.  Years first: where each begins, and how long it is.

YearLength(y) == IF Books!is_leap(y) THEN 366 ELSE 365
Begins(y) == Books!DaysBefore(y)

LEMMA YearStep ==
    ASSUME NEW y \in Nat
    PROVE  Begins(y) \in Int /\ YearLength(y) \in {365, 366} /\ Begins(y + 1) = Begins(y) + YearLength(y)
  <1>1. \A d \in {4, 100, 400} : y \div d = ((y - 1) \div d) + (IF y % d = 0 THEN 1 ELSE 0)
    OBVIOUS
  <1>2. (y % 400 = 0 => y % 100 = 0) /\ (y % 100 = 0 => y % 4 = 0)
    OBVIOUS
  <1>3. Begins(y) = 365 * (y - 1970) + ((y - 1) \div 4 - 492) - ((y - 1) \div 100 - 19) + ((y - 1) \div 400 - 4)
    BY DEF Begins, Books!DaysBefore
  <1>4. Begins(y + 1) = 365 * (y + 1 - 1970) + (y \div 4 - 492) - (y \div 100 - 19) + (y \div 400 - 4)
    BY DEF Begins, Books!DaysBefore
  <1> QED
    BY <1>1, <1>2, <1>3, <1>4 DEF YearLength, Books!is_leap

LEMMA YearsGrow ==
    ASSUME NEW y \in Nat, NEW k \in Nat
    PROVE  Begins(y) + k <= Begins(y + k)
  <1> DEFINE S == { n \in Nat : Begins(y) + n <= Begins(y + n) }
  <1>1. 0 \in S
    BY YearStep
  <1>2. ASSUME NEW n \in Nat, n \in S
        PROVE  n + 1 \in S
    <2>1. y + n \in Nat /\ y + (n + 1) = (y + n) + 1
      OBVIOUS
    <2>2. /\ Begins(y + n) \in Int /\ YearLength(y + n) \in {365, 366}
          /\ Begins((y + n) + 1) = Begins(y + n) + YearLength(y + n)
      BY <2>1, YearStep
    <2>3. Begins(y) \in Int /\ Begins(y) + n <= Begins(y + n)
      BY <1>2, YearStep
    <2>4. Begins(y) + (n + 1) <= Begins(y + (n + 1))
      BY <2>1, <2>2, <2>3
    <2> QED
      BY <2>4
  <1>3. Nat \subseteq S
    <2> HIDE DEF S
    <2> QED
      BY <1>1, <1>2, Induct
  <1> QED
    BY <1>3

\* The year in which a day lies.
InYear(t, y) == Begins(y) <= t /\ t < Begins(y + 1)
YearOf(t) == CHOOSE y \in Nat : InYear(t, y)

LEMMA OneYear ==
    ASSUME NEW t \in Int, NEW y \in Nat, NEW z \in Nat, InYear(t, y), InYear(t, z)
    PROVE  y = z
  <1>1. \A a, b \in Nat : a < b => Begins(a + 1) <= Begins(b)
    <2> SUFFICES ASSUME NEW a \in Nat, NEW b \in Nat, a < b
                 PROVE  Begins(a + 1) <= Begins(b)
      OBVIOUS
    <2>1. b - (a + 1) \in Nat /\ a + 1 \in Nat /\ (a + 1) + (b - (a + 1)) = b
      OBVIOUS
    <2>2. Begins(a + 1) + (b - (a + 1)) <= Begins((a + 1) + (b - (a + 1)))
      BY ONLY <2>1, YearsGrow
    <2>3. Begins(a + 1) \in Int /\ Begins(b) \in Int
      BY <2>1, YearStep
    <2> QED
      BY <2>1, <2>2, <2>3
  <1>2. \A a \in Nat : Begins(a) \in Int /\ Begins(a + 1) \in Int
    BY YearStep
  <1>3. ~(y < z) /\ ~(z < y)
    BY <1>1, <1>2 DEF InYear
  <1> QED
    BY <1>3

LEMMA SomeYear ==
    ASSUME NEW y \in Nat, NEW t \in Int, Begins(y) <= t
    PROVE  YearOf(t) \in Nat /\ InYear(t, YearOf(t))
  <1>0. \A a \in Nat : Begins(a) \in Int
    BY YearStep
  <1> DEFINE T == { k \in Nat : t < Begins(y + k) }
  <1>1. t - Begins(y) + 1 \in T
    <2>1. t - Begins(y) + 1 \in Nat
      BY <1>0
    <2>2. Begins(y) + (t - Begins(y) + 1) <= Begins(y + (t - Begins(y) + 1))
      BY <2>1, YearsGrow
    <2>3. Begins(y + (t - Begins(y) + 1)) \in Int
      BY <1>0, <2>1
    <2> QED
      BY <1>0, <2>1, <2>2, <2>3
  <1>2. PICK k \in T : \A l \in T : k <= l
    <2>1. T \subseteq Nat /\ T # {}
      BY <1>1
    <2> HIDE DEF T
    <2> QED
      BY <2>1, Least
  <1>3. k \in Nat /\ t < Begins(y + k) /\ k # 0
    BY <1>0
  <1>4. k - 1 \in Nat /\ ~(k - 1 \in T)
    BY <1>2, <1>3
  <1>5. Begins(y + (k - 1)) <= t
    BY <1>0, <1>4
  <1>6. y + (k - 1) \in Nat /\ (y + (k - 1)) + 1 = y + k
    BY <1>3, <1>4
  <1>7. InYear(t, y + (k - 1))
    BY <1>3, <1>5, <1>6 DEF InYear
  <1> QED
    BY <1>6, <1>7 DEF YearOf

\* The loop over years has a solution.
YearStepping(f) == [s \in Nat \X Nat |->
    IF s[1] < YearLength(s[2]) THEN s ELSE f[<<s[1] - YearLength(s[2]), s[2] + 1>>]]

LEMMA YearLoopExists == \E f : f = YearStepping(f)
  <1> DEFINE t(s) == s[1] + Begins(s[2])
             At(s) == <<t(s) - Begins(YearOf(t(s))), YearOf(t(s))>>
             Then(s) == <<s[1] - YearLength(s[2]), s[2] + 1>>
             f == [s \in Nat \X Nat |-> At(s)]
  <1>0. ASSUME NEW s \in Nat \X Nat
        PROVE  /\ s[1] \in Nat /\ s[2] \in Nat /\ s = <<s[1], s[2]>>
               /\ Begins(s[2]) \in Int /\ YearLength(s[2]) \in {365, 366}
               /\ Begins(s[2] + 1) = Begins(s[2]) + YearLength(s[2])
    BY YearStep
  <1>1. ASSUME NEW s \in Nat \X Nat, s[1] < YearLength(s[2])
        PROVE  At(s) = s
    <2>2. t(s) \in Int /\ Begins(s[2]) <= t(s)
      BY <1>0
    <2>3. InYear(t(s), s[2])
      BY <1>0, <1>1 DEF InYear
    <2>4. YearOf(t(s)) = s[2]
      BY <1>0, <2>2, <2>3, SomeYear, OneYear
    <2> QED
      BY <1>0, <2>4
  <1>2. ASSUME NEW s \in Nat \X Nat, ~(s[1] < YearLength(s[2]))
        PROVE  Then(s) \in Nat \X Nat /\ At(s) = At(Then(s))
    <2>1. Then(s) \in Nat \X Nat /\ t(Then(s)) = t(s)
      BY <1>0, <1>2
    <2> HIDE DEF t, Then
    <2> QED
      BY <2>1
  <1> HIDE DEF At, Then
  <1>3. \A s \in Nat \X Nat : f[s] = IF s[1] < YearLength(s[2]) THEN s ELSE f[Then(s)]
    BY <1>1, <1>2
  <1>4. f = [s \in Nat \X Nat |-> IF s[1] < YearLength(s[2]) THEN s ELSE f[Then(s)]]
    <2> DEFINE g == [s \in Nat \X Nat |-> IF s[1] < YearLength(s[2]) THEN s ELSE f[Then(s)]]
    <2>1. \A s \in Nat \X Nat : f[s] = g[s]
      BY <1>3
    <2>2. f = [s \in Nat \X Nat |-> f[s]] /\ g = [s \in Nat \X Nat |-> g[s]]
      OBVIOUS
    <2> HIDE DEF f, g
    <2>3. f = g
      BY <2>1, <2>2
    <2> QED
      BY <2>3 DEF g
  <1>5. f = YearStepping(f)
    <2> HIDE DEF f
    <2> QED
      BY <1>4 DEF YearStepping, Then
  <1> QED
    BY <1>5

LEMMA YearLoopIs ==
    ASSUME NEW s \in Nat \X Nat
    PROVE  Books!YearLoop[s] =
              IF s[1] < YearLength(s[2]) THEN s ELSE Books!YearLoop[<<s[1] - YearLength(s[2]), s[2] + 1>>]
  <1> DEFINE loop == CHOOSE f : f = YearStepping(f)
  <1>1. Books!YearLoop = loop
    BY DEF Books!YearLoop, YearStepping, YearLength
  <1>2. loop = YearStepping(loop)
    BY YearLoopExists
  <1> HIDE DEF loop
  <1>3. loop[s] = IF s[1] < YearLength(s[2]) THEN s ELSE loop[<<s[1] - YearLength(s[2]), s[2] + 1>>]
    BY <1>2 DEF YearStepping
  <1> QED
    BY <1>1, <1>3

\* It stops in the year of the day that it was given.
LEMMA YearLoopStops ==
    ASSUME NEW days \in Nat, NEW y \in Nat
    PROVE  LET s == Books!YearLoop[<<days, y>>]
           IN /\ s \in Nat \X Nat /\ s[1] < YearLength(s[2])
              /\ Begins(s[2]) + s[1] = Begins(y) + days
  <1> DEFINE Stops(s, r) == /\ r \in Nat \X Nat /\ r[1] < YearLength(r[2])
                            /\ Begins(r[2]) + r[1] = Begins(s[2]) + s[1]
             T == { d \in Nat : \E z \in Nat : ~Stops(<<d, z>>, Books!YearLoop[<<d, z>>]) }
  <1>1. SUFFICES ASSUME T # {} PROVE FALSE
    BY DEF T
  <1>2. PICK d \in T : \A c \in T : d <= c
    BY <1>1, Least
  <1>3. PICK z \in Nat : ~Stops(<<d, z>>, Books!YearLoop[<<d, z>>])
    BY <1>2
  <1>4. d \in Nat /\ <<d, z>> \in Nat \X Nat
    BY <1>2
  <1>5. /\ Begins(z) \in Int /\ YearLength(z) \in {365, 366}
        /\ Begins(z + 1) = Begins(z) + YearLength(z)
    BY YearStep
  <1>6. Books!YearLoop[<<d, z>>] =
           IF d < YearLength(z) THEN <<d, z>> ELSE Books!YearLoop[<<d - YearLength(z), z + 1>>]
    BY <1>4, YearLoopIs
  <1>7. CASE d < YearLength(z)
    <2>1. Stops(<<d, z>>, <<d, z>>)
      BY <1>4, <1>7
    <2> HIDE DEF Stops
    <2> QED
      BY <1>3, <1>6, <1>7, <2>1
  <1>8. CASE ~(d < YearLength(z))
    <2>1. d - YearLength(z) \in Nat /\ z + 1 \in Nat /\ ~(d <= d - YearLength(z))
      BY <1>4, <1>5, <1>8
    <2>2. d - YearLength(z) \notin T
      BY <1>2, <2>1
    <2>3. Stops(<<d - YearLength(z), z + 1>>, Books!YearLoop[<<d - YearLength(z), z + 1>>])
      <3> HIDE DEF Stops
      <3> QED
        BY <2>1, <2>2
    <2> DEFINE r == Books!YearLoop[<<d - YearLength(z), z + 1>>]
    <2>4. r = Books!YearLoop[<<d, z>>]
      BY <1>6, <1>8
    <2> HIDE DEF r
    <2>5. Begins(z + 1) + (d - YearLength(z)) = Begins(z) + d
      BY <1>4, <1>5
    <2>6. Stops(<<d, z>>, r)
      BY <2>3, <2>5 DEF r
    <2> HIDE DEF Stops
    <2> QED
      BY <1>3, <2>4, <2>6
  <1> QED
    BY <1>7, <1>8

-----------------------------------------------------------------------------
\* Then months.

MonthLength(y, m) == Books!DaysOfMonth(y, m)
MonthBegins(y, m) == Books!DaysInYear(y, m)

LEMMA MonthLengths ==
    ASSUME NEW y \in Nat, NEW m \in 1 .. 12
    PROVE  Books!MonthDays(y)[m] = MonthLength(y, m) /\ MonthLength(y, m) \in 28 .. 31
  <1>1. m = 1 \/ m = 2 \/ m = 3 \/ m = 4 \/ m = 5 \/ m = 6 \/ m = 7 \/ m = 8 \/ m = 9 \/ m = 10 \/ m = 11 \/ m = 12
    OBVIOUS
  <1>2. Books!is_leap(y) <=> Books!LeapDay(y)
    BY DEF Books!is_leap, Books!LeapDay
  <1> QED
    BY <1>1, <1>2 DEF Books!MonthDays, MonthLength, Books!DaysOfMonth

LEMMA MonthStep ==
    ASSUME NEW y \in Nat
    PROVE  /\ MonthBegins(y, 1) = 0 /\ MonthBegins(y, 13) = YearLength(y)
           /\ \A m \in 1 .. 12 : MonthBegins(y, m + 1) = MonthBegins(y, m) + MonthLength(y, m)
           /\ \A m \in 1 .. 13 : MonthBegins(y, m) \in Nat
  <1> DEFINE L == IF Books!LeapDay(y) THEN 1 ELSE 2
  <1>1. \A m \in 1 .. 13 : MonthBegins(y, m) = (367 * m - 362) \div 12 - (IF m <= 2 THEN 0 ELSE L)
    BY DEF MonthBegins, Books!DaysInYear
  <1>2. MonthBegins(y, 1) = 0 /\ MonthBegins(y, 2) = 31 /\ MonthBegins(y, 3) = 61 - L
    BY <1>1
  <1>3. MonthBegins(y, 4) = 92 - L /\ MonthBegins(y, 5) = 122 - L /\ MonthBegins(y, 6) = 153 - L
    BY <1>1
  <1>4. MonthBegins(y, 7) = 183 - L /\ MonthBegins(y, 8) = 214 - L /\ MonthBegins(y, 9) = 245 - L
    BY <1>1
  <1>5. MonthBegins(y, 10) = 275 - L /\ MonthBegins(y, 11) = 306 - L /\ MonthBegins(y, 12) = 336 - L
        /\ MonthBegins(y, 13) = 367 - L
    BY <1>1
  <1>6. Books!is_leap(y) <=> Books!LeapDay(y)
    BY DEF Books!is_leap, Books!LeapDay
  <1>7. \A m \in 1 .. 13 : m = 1 \/ m = 2 \/ m = 3 \/ m = 4 \/ m = 5 \/ m = 6 \/ m = 7 \/ m = 8
                           \/ m = 9 \/ m = 10 \/ m = 11 \/ m = 12 \/ m = 13
    OBVIOUS
  <1>8. \A m \in 1 .. 13 : MonthBegins(y, m) \in Nat
    BY <1>2, <1>3, <1>4, <1>5, <1>7
  <1>9. ASSUME NEW m \in 1 .. 12
        PROVE  MonthBegins(y, m + 1) = MonthBegins(y, m) + MonthLength(y, m)
    BY <1>2, <1>3, <1>4, <1>5, <1>7 DEF MonthLength, Books!DaysOfMonth
  <1> QED
    BY <1>2, <1>5, <1>6, <1>8, <1>9 DEF YearLength

\* The month in which a day of a year lies; 13 when it lies behind.
InMonth(y, t, m) == MonthBegins(y, m) <= t /\ (m <= 12 => t < MonthBegins(y, m + 1))
MonthOf(y, t) == CHOOSE m \in 1 .. 13 : InMonth(y, t, m)

LEMMA MonthsGrow ==
    ASSUME NEW y \in Nat
    PROVE  \A m, n \in 1 .. 13 : m < n => MonthBegins(y, m + 1) <= MonthBegins(y, n)
  <1>0. \A k \in 1 .. 13 : MonthBegins(y, k) \in Nat
    BY MonthStep
  <1> SUFFICES ASSUME NEW m \in 1 .. 13
               PROVE  \A n \in 1 .. 13 : m < n => MonthBegins(y, m + 1) <= MonthBegins(y, n)
    OBVIOUS
  <1> DEFINE S == { k \in Nat : m + 1 + k <= 13 => MonthBegins(y, m + 1) <= MonthBegins(y, m + 1 + k) }
  <1>1. 0 \in S
    <2>1. m + 1 <= 13 => m + 1 \in 1 .. 13
      OBVIOUS
    <2>2. m + 1 <= 13 => MonthBegins(y, m + 1) \in Nat
      BY ONLY <1>0, <2>1
    <2>3. m + 1 + 0 = m + 1
      OBVIOUS
    <2> QED
      BY <2>2, <2>3
  <1>2. ASSUME NEW k \in Nat, k \in S
        PROVE  k + 1 \in S
    <2> SUFFICES ASSUME m + 1 + (k + 1) <= 13
                 PROVE  MonthBegins(y, m + 1) <= MonthBegins(y, m + 1 + (k + 1))
      OBVIOUS
    <2>1. m + 1 + k \in 1 .. 12 /\ m + 1 + k \in 1 .. 13 /\ m + 1 \in 1 .. 13 /\ m + 1 + (k + 1) = (m + 1 + k) + 1
      OBVIOUS
    <2>2. MonthBegins(y, (m + 1 + k) + 1) = MonthBegins(y, m + 1 + k) + MonthLength(y, m + 1 + k)
      BY <2>1, MonthStep
    <2>3. MonthLength(y, m + 1 + k) \in 28 .. 31
      BY <2>1, MonthLengths
    <2>4. MonthBegins(y, m + 1) \in Nat /\ MonthBegins(y, m + 1 + k) \in Nat
      BY ONLY <1>0, <2>1
    <2>5. MonthBegins(y, m + 1) <= MonthBegins(y, m + 1 + k)
      BY <1>2, <2>1
    <2> QED
      BY ONLY <2>1, <2>2, <2>3, <2>4, <2>5
  <1>3. Nat \subseteq S
    <2> HIDE DEF S
    <2> QED
      BY <1>1, <1>2, Induct
  <1> SUFFICES ASSUME NEW n \in 1 .. 13, m < n
               PROVE  MonthBegins(y, m + 1) <= MonthBegins(y, n)
    OBVIOUS
  <1>4. n - (m + 1) \in Nat /\ m + 1 + (n - (m + 1)) = n
    OBVIOUS
  <1> QED
    BY <1>3, <1>4

LEMMA OneMonth ==
    ASSUME NEW y \in Nat, NEW t \in Nat, NEW m \in 1 .. 13, NEW n \in 1 .. 13,
           InMonth(y, t, m), InMonth(y, t, n)
    PROVE  m = n
  <1>1. \A k \in 1 .. 13 : MonthBegins(y, k) \in Nat
    BY MonthStep
  <1>2. \A k \in 1 .. 12 : k + 1 \in 1 .. 13
    OBVIOUS
  <1>3. (m < n => MonthBegins(y, m + 1) <= MonthBegins(y, n))
        /\ (n < m => MonthBegins(y, n + 1) <= MonthBegins(y, m))
    BY MonthsGrow
  <1>4. ~(m < n) /\ ~(n < m)
    BY <1>1, <1>2, <1>3 DEF InMonth
  <1> QED
    BY <1>4

LEMMA SomeMonth ==
    ASSUME NEW y \in Nat, NEW t \in Nat
    PROVE  MonthOf(y, t) \in 1 .. 13 /\ InMonth(y, t, MonthOf(y, t))
  <1>1. CASE MonthBegins(y, 13) <= t
    <2>1. InMonth(y, t, 13)
      BY <1>1 DEF InMonth
    <2> QED
      BY <2>1 DEF MonthOf
  <1>2. CASE ~(MonthBegins(y, 13) <= t)
    <2> DEFINE T == { k \in Nat : k \in 1 .. 13 /\ t < MonthBegins(y, k) }
    <2>1. 13 \in T
      <3>1. MonthBegins(y, 13) \in Nat
        BY MonthStep
      <3> QED
        BY <1>2, <3>1
    <2>2. PICK k \in T : \A l \in T : k <= l
      <3>1. T \subseteq Nat /\ T # {}
        BY <2>1
      <3> HIDE DEF T
      <3> QED
        BY <3>1, Least
    <2>3. k \in 1 .. 13 /\ t < MonthBegins(y, k) /\ k # 1
      BY MonthStep
    <2>4. k - 1 \in 1 .. 12 /\ (k - 1) + 1 = k /\ k - 1 \notin T
      BY <2>2, <2>3
    <2>5. MonthBegins(y, k - 1) <= t
      <3>1. MonthBegins(y, k - 1) \in Nat
        <4>1. \A j \in 1 .. 13 : MonthBegins(y, j) \in Nat
          BY MonthStep
        <4>2. k - 1 \in 1 .. 13
          BY <2>4
        <4> QED
          BY ONLY <4>1, <4>2
      <3> QED
        BY <2>4, <3>1
    <2>6. InMonth(y, t, k - 1)
      BY <2>3, <2>4, <2>5 DEF InMonth
    <2> QED
      BY <2>4, <2>6 DEF MonthOf
  <1> QED
    BY <1>1, <1>2

\* The loop over months has a solution.
MonthState == Nat \X Nat \X (1 .. 13)
Stays(s) == s[3] > 12 \/ s[1] < Books!MonthDays(s[2])[s[3]]
MonthThen(s) == <<s[1] - Books!MonthDays(s[2])[s[3]], s[2], s[3] + 1>>
MonthStepping(f) == [s \in MonthState |-> IF Stays(s) THEN s ELSE f[MonthThen(s)]]

LEMMA MonthStates ==
    ASSUME NEW s \in MonthState
    PROVE  /\ s[1] \in Nat /\ s[2] \in Nat /\ s[3] \in 1 .. 13 /\ s = <<s[1], s[2], s[3]>>
           /\ MonthBegins(s[2], s[3]) \in Nat
           /\ s[3] <= 12 =>
                 /\ MonthBegins(s[2], s[3] + 1) \in Nat
                 /\ Books!MonthDays(s[2])[s[3]] \in 28 .. 31
                 /\ MonthBegins(s[2], s[3] + 1) = MonthBegins(s[2], s[3]) + Books!MonthDays(s[2])[s[3]]
           /\ ~Stays(s) =>
                 s[3] <= 12 /\ s[1] >= Books!MonthDays(s[2])[s[3]] /\ MonthThen(s) \in MonthState
  <1>1. s[1] \in Nat /\ s[2] \in Nat /\ s[3] \in 1 .. 13 /\ s = <<s[1], s[2], s[3]>>
    BY DEF MonthState
  <1>2. MonthBegins(s[2], s[3]) \in Nat
    BY <1>1, MonthStep
  <1>3. ASSUME s[3] <= 12
        PROVE  /\ MonthBegins(s[2], s[3] + 1) \in Nat
               /\ Books!MonthDays(s[2])[s[3]] \in 28 .. 31
               /\ MonthBegins(s[2], s[3] + 1) = MonthBegins(s[2], s[3]) + Books!MonthDays(s[2])[s[3]]
    <2>1. s[3] \in 1 .. 12
      BY <1>1, <1>3
    <2>2. Books!MonthDays(s[2])[s[3]] = MonthLength(s[2], s[3]) /\ MonthLength(s[2], s[3]) \in 28 .. 31
      BY <1>1, <2>1, MonthLengths
    <2>3. MonthBegins(s[2], s[3] + 1) = MonthBegins(s[2], s[3]) + MonthLength(s[2], s[3])
      BY <1>1, <2>1, MonthStep
    <2> QED
      BY ONLY <1>2, <2>2, <2>3
  <1>4. ASSUME ~Stays(s)
        PROVE  s[3] <= 12 /\ s[1] >= Books!MonthDays(s[2])[s[3]] /\ MonthThen(s) \in MonthState
    <2>1. s[3] <= 12
      BY <1>1, <1>4 DEF Stays
    <2>2. ~(s[1] < Books!MonthDays(s[2])[s[3]])
      BY <1>4 DEF Stays
    <2>3. Books!MonthDays(s[2])[s[3]] \in 28 .. 31
      BY <1>3, <2>1
    <2> QED
      BY ONLY <1>1, <2>1, <2>2, <2>3 DEF MonthThen, MonthState
  <1> QED
    BY ONLY <1>1, <1>2, <1>3, <1>4

LEMMA MonthLoopExists == \E f : f = MonthStepping(f)
  <1> DEFINE t(s) == MonthBegins(s[2], s[3]) + s[1]
             At(s) == <<t(s) - MonthBegins(s[2], MonthOf(s[2], t(s))), s[2], MonthOf(s[2], t(s))>>
             f == [s \in MonthState |-> At(s)]
  <1>1. ASSUME NEW s \in MonthState, Stays(s)
        PROVE  At(s) = s
    <2>1. t(s) \in Nat /\ InMonth(s[2], t(s), s[3])
      BY <1>1, MonthStates DEF InMonth, Stays
    <2>2. MonthOf(s[2], t(s)) = s[3]
      BY <2>1, MonthStates, SomeMonth, OneMonth
    <2>3. t(s) - MonthBegins(s[2], s[3]) = s[1]
      BY MonthStates
    <2> HIDE DEF t
    <2> QED
      BY <2>2, <2>3, MonthStates
  <1>2. ASSUME NEW s \in MonthState, ~Stays(s)
        PROVE  MonthThen(s) \in MonthState /\ At(s) = At(MonthThen(s))
    <2>1. MonthThen(s) \in MonthState /\ t(MonthThen(s)) = t(s)
      <3>1. t(MonthThen(s)) = MonthBegins(s[2], s[3] + 1) + (s[1] - Books!MonthDays(s[2])[s[3]])
        BY DEF MonthThen
      <3> QED
        BY <1>2, <3>1, MonthStates
    <2>2. MonthThen(s)[2] = s[2]
      BY DEF MonthThen
    <2> HIDE DEF t
    <2> QED
      BY <2>1, <2>2
  <1> HIDE DEF At
  <1>3. \A s \in MonthState : f[s] = IF Stays(s) THEN s ELSE f[MonthThen(s)]
    BY <1>1, <1>2
  <1>4. f = MonthStepping(f)
    <2> DEFINE g == MonthStepping(f)
    <2>1. f = [s \in MonthState |-> f[s]] /\ g = [s \in MonthState |-> g[s]]
      BY DEF MonthStepping
    <2>2. \A s \in MonthState : g[s] = IF Stays(s) THEN s ELSE f[MonthThen(s)]
      BY DEF MonthStepping
    <2> HIDE DEF f, g
    <2>3. f = g
      BY <1>3, <2>1, <2>2
    <2> QED
      BY <2>3 DEF g
  <1> QED
    BY <1>4

LEMMA MonthLoopIs ==
    ASSUME NEW s \in MonthState
    PROVE  Books!MonthLoop[s] = IF Stays(s) THEN s ELSE Books!MonthLoop[MonthThen(s)]
  <1> DEFINE loop == CHOOSE f : f = MonthStepping(f)
  <1>1. Books!MonthLoop = loop
    BY DEF Books!MonthLoop, MonthStepping, MonthState, Stays, MonthThen
  <1>2. loop = MonthStepping(loop)
    BY MonthLoopExists
  <1> HIDE DEF loop
  <1>3. loop[s] = IF Stays(s) THEN s ELSE loop[MonthThen(s)]
    BY <1>2 DEF MonthStepping
  <1> QED
    BY <1>1, <1>3

\* It stops in the month of the day that it was given.
LEMMA MonthLoopStops ==
    ASSUME NEW days \in Nat, NEW y \in Nat
    PROVE  LET s == Books!MonthLoop[<<days, y, 1>>]
           IN /\ s \in MonthState /\ s[2] = y
              /\ MonthBegins(y, s[3]) + s[1] = days
              /\ s[3] <= 12 => s[1] < MonthLength(y, s[3])
  <1> DEFINE Stops(s, r) == /\ r \in MonthState /\ r[2] = s[2] /\ Stays(r)
                            /\ MonthBegins(r[2], r[3]) + r[1] = MonthBegins(s[2], s[3]) + s[1]
             S == { k \in Nat : \A s \in MonthState : s[3] + k >= 13 => Stops(s, Books!MonthLoop[s]) }
  <1>0. ASSUME NEW s \in MonthState, Stays(s)
        PROVE  Stops(s, Books!MonthLoop[s])
    BY <1>0, MonthLoopIs
  <1>1. 0 \in S
    <2>1. \A s \in MonthState : s[3] + 0 >= 13 => Stays(s)
      BY MonthStates DEF Stays
    <2> HIDE DEF Stops
    <2> QED
      BY <1>0, <2>1
  <1>2. ASSUME NEW k \in Nat, k \in S
        PROVE  k + 1 \in S
    <2> SUFFICES ASSUME NEW s \in MonthState, s[3] + (k + 1) >= 13, ~Stays(s)
                 PROVE  Stops(s, Books!MonthLoop[s])
      <3> HIDE DEF Stops
      <3> QED
        BY <1>0
    <2> DEFINE u == MonthThen(s)
    <2>1. u \in MonthState /\ u[3] = s[3] + 1 /\ u[2] = s[2] /\ s[3] \in Nat
      BY MonthStates DEF MonthThen
    <2>2. MonthBegins(u[2], u[3]) + u[1] = MonthBegins(s[2], s[3]) + s[1]
      <3>1. u[1] = s[1] - Books!MonthDays(s[2])[s[3]]
        BY DEF MonthThen
      <3> QED
        BY <2>1, <3>1, MonthStates
    <2>3. Books!MonthLoop[s] = Books!MonthLoop[u]
      BY MonthLoopIs
    <2> HIDE DEF u
    <2>4. u[3] + k >= 13
      BY <2>1
    <2>5. Stops(u, Books!MonthLoop[u])
      BY <1>2, <2>1, <2>4
    <2> QED
      BY <2>1, <2>2, <2>3, <2>5
  <1>3. Nat \subseteq S
    <2> HIDE DEF S
    <2> QED
      BY <1>1, <1>2, Induct
  <1> DEFINE a == <<days, y, 1>>
             r == Books!MonthLoop[a]
  <1>4. a \in MonthState /\ a[3] + 12 >= 13 /\ a[1] = days /\ a[2] = y /\ a[3] = 1
    BY DEF MonthState
  <1>5. Stops(a, r)
    <2> HIDE DEF Stops, a
    <2> QED
      BY <1>3, <1>4
  <1>6. MonthBegins(y, 1) = 0
    BY MonthStep
  <1> HIDE DEF r
  <1>7. r[3] <= 12 => r[1] < MonthLength(y, r[3])
    <2> SUFFICES ASSUME r[3] <= 12 PROVE r[1] < MonthLength(y, r[3])
      OBVIOUS
    <2>1. r[3] \in 1 .. 12
      BY <1>5, MonthStates
    <2>2. r[1] < Books!MonthDays(y)[r[3]]
      BY <1>4, <1>5, <2>1 DEF Stays
    <2> QED
      BY <2>1, <2>2, MonthLengths
  <1> QED
    BY <1>4, <1>5, <1>6, <1>7 DEF r

\* epoch_days_to_ymd names the day that it was given, whatever day that is.
LEMMA DatesRight ==
    ASSUME NEW days \in Nat
    PROVE  Books!DateRight(days)
  <1> DEFINE y == Books!YearLoop[<<days, 1970>>]
             m == Books!MonthLoop[<<y[1], y[2], 1>>]
             d == Books!epoch_days_to_ymd(days)
  <1>1. /\ y[1] \in Nat /\ y[2] \in Nat /\ y[1] < YearLength(y[2])
        /\ Begins(y[2]) + y[1] = Begins(1970) + days
    BY YearLoopStops
  <1>2. Begins(1970) = 0
    BY DEF Begins, Books!DaysBefore
  <1>3. d = [year |-> m[2], month |-> m[3], day |-> m[1] + 1]
    BY DEF Books!epoch_days_to_ymd
  <1> HIDE DEF y
  <1>4. /\ m \in MonthState /\ m[2] = y[2] /\ MonthBegins(y[2], m[3]) + m[1] = y[1]
        /\ m[3] <= 12 => m[1] < MonthLength(y[2], m[3])
    BY <1>1, MonthLoopStops
  <1> HIDE DEF m
  <1>5. m[1] \in Nat /\ m[3] \in 1 .. 13
    BY <1>4 DEF MonthState
  <1>6. m[3] # 13
    <2>0. \A z \in Nat : MonthBegins(z, 13) = YearLength(z)
      BY MonthStep
    <2>1. MonthBegins(y[2], 13) = YearLength(y[2])
      BY ONLY <1>1, <2>0
    <2>2. YearLength(y[2]) \in Nat
      BY DEF YearLength
    <2> QED
      BY <1>1, <1>4, <1>5, <2>1, <2>2
  <1> HIDE DEF d
  <1>7. d.year = y[2] /\ d.month = m[3] /\ d.day = m[1] + 1
    BY <1>3, <1>4
  <1>8. m[3] \in 1 .. 12 /\ MonthLength(y[2], m[3]) \in 28 .. 31
    BY <1>1, <1>5, <1>6, MonthLengths
  <1>9. d.month \in 1 .. 12 /\ d.day \in 1 .. MonthLength(d.year, d.month)
    BY ONLY <1>4, <1>5, <1>7, <1>8
  <1>10. MonthBegins(y[2], m[3]) \in Nat /\ Begins(y[2]) \in Int
    <2>1. \A z \in Nat : Begins(z) \in Int
      BY YearStep
    <2>2. \A z \in Nat : \A k \in 1 .. 13 : MonthBegins(z, k) \in Nat
      BY MonthStep
    <2>3. y[2] \in Nat /\ m[3] \in 1 .. 13
      BY <1>1, <1>5
    <2> QED
      BY ONLY <2>1, <2>2, <2>3
  <1>11. days = Begins(d.year) + MonthBegins(d.year, d.month) + d.day - 1
    BY ONLY <1>1, <1>2, <1>4, <1>5, <1>7, <1>10, days \in Nat
  <1> QED
    BY <1>9, <1>11 DEF Books!DateRight, MonthLength, MonthBegins, Begins, d
-----------------------------------------------------------------------------
USE QuotesAssumption

LEMMA Numbers ==
    amount \in Nat /\ MinProfit \in Nat /\ Fees \in Nat \ {0} /\ Outs \subseteq Nat /\ Every \in Nat \ {0}
  BY DEF QuotesAssumption

-----------------------------------------------------------------------------
\* The checks.

Step == {"listed", "leg1", "leg2", "judging", "candidate", "merged", "done"}
AnyPlan == (UNION { Plan[e] : e \in Entry }) \cup {NoPlan}

Shape ==
    /\ step \in [Entry -> Step]
    /\ leg1 \in [Entry -> AnyPlan] /\ leg2 \in [Entry -> AnyPlan]
    /\ out \in [Entry -> Outs \cup {0}]
    /\ merged = [e \in Entry |-> merged[e]]

Judged(e) ==
    /\ leg1[e] \in Plan[e] \cup {NoPlan} /\ leg2[e] \in Plan[e] \cup {NoPlan}
    /\ step[e] \in {"candidate", "merged"} => Profits(e) /\ ~Forbidden(e) /\ ~SharesPool(e)
    /\ step[e] = "merged" =>
          ~MultiHop(e) /\ CanMerge(e) /\ merged[e] = merge_quotes(e, amount + Fees)
    /\ step[e] # "merged" => merged[e] = None

Checks == Shape /\ \A e \in Entry : Judged(e)

LEMMA ChecksInit == Init => Checks
  BY DEF Init, Checks, Shape, Judged, Step, AnyPlan, QuotesAssumption

\* A step concerns one check.
Aside(e) == \A f \in Entry \ {e} :
    step'[f] = step[f] /\ leg1'[f] = leg1[f] /\ leg2'[f] = leg2[f]
    /\ out'[f] = out[f] /\ merged'[f] = merged[f]

LEMMA OneCheck ==
    ASSUME Checks, NEW e \in Entry, Aside(e), Shape', Judged(e)'
    PROVE  Checks'
  <1>1. \A f \in Entry \ {e} : Judged(f)'
    BY DEF Checks, Aside, Judged, Profits, Forbidden, SharesPool, MultiHop, CanMerge, merge_quotes
  <1> QED
    BY <1>1 DEF Checks

LEMMA ChecksStay == Checks /\ UNCHANGED checkVars => Checks'
  BY DEF checkVars, Checks, Shape, Judged, Profits, Forbidden, SharesPool, MultiHop, CanMerge,
         merge_quotes

\* A check ends without a quote.
LEMMA Ends ==
    ASSUME Checks, NEW e \in Entry, step[e] # "merged", Goto(e, "done"), Forget(e), UNCHANGED merged
    PROVE  Checks'
  <1>1. Shape' /\ Aside(e)
    BY DEF Checks, Shape, Goto, Forget, Step, AnyPlan, Aside, QuotesAssumption
  <1>2. step'[e] = "done" /\ leg1'[e] = NoPlan /\ leg2'[e] = NoPlan /\ merged'[e] = None
    BY DEF Checks, Shape, Judged, Goto, Forget
  <1>3. Judged(e)'
    BY <1>2 DEF Judged
  <1> QED
    BY <1>1, <1>3, OneCheck

LEMMA ChecksNext == Checks /\ [Next]_vars => Checks'
  <1> SUFFICES ASSUME Checks, [Next]_vars
               PROVE  Checks'
    OBVIOUS
  <1>1. ASSUME NEW e \in Entry, Begin(e)
        PROVE  Checks'
    <2>1. Shape' /\ Aside(e)
      BY <1>1 DEF Begin, Checks, Shape, Goto, Step, Aside
    <2>2. step'[e] = "leg1" /\ step[e] = "listed"
      BY <1>1 DEF Begin, Checks, Shape, Goto
    <2>3. Judged(e)'
      BY <1>1, <2>2 DEF Begin, Checks, Judged
    <2> QED
      BY <2>1, <2>3, OneCheck
  <1>2. ASSUME NEW e \in Entry, Fails(e)
        PROVE  Checks'
    BY <1>2, Ends DEF Fails
  <1>3. ASSUME NEW e \in Entry, Leg1(e)
        PROVE  Checks'
    <2>1. PICK p \in Plan[e] : leg1' = [leg1 EXCEPT ![e] = p]
      BY <1>3 DEF Leg1
    <2>2. Shape' /\ Aside(e)
      BY <1>3, <2>1 DEF Leg1, Checks, Shape, Goto, Step, AnyPlan, Aside
    <2>3. step'[e] = "leg2" /\ step[e] = "leg1" /\ leg1'[e] = p
      BY <1>3, <2>1 DEF Leg1, Checks, Shape, Goto
    <2>4. Judged(e)'
      BY <1>3, <2>3 DEF Leg1, Checks, Judged
    <2> QED
      BY <2>2, <2>4, OneCheck
  <1>4. ASSUME NEW e \in Entry, Leg2(e)
        PROVE  Checks'
    <2>1. PICK p \in Plan[e], o \in Outs :
             leg2' = [leg2 EXCEPT ![e] = p] /\ out' = [out EXCEPT ![e] = o]
      BY <1>4 DEF Leg2
    <2>2. Shape' /\ Aside(e)
      BY <1>4, <2>1 DEF Leg2, Checks, Shape, Goto, Step, AnyPlan, Aside
    <2>3. step'[e] = "judging" /\ step[e] = "leg2" /\ leg2'[e] = p
      BY <1>4, <2>1 DEF Leg2, Checks, Shape, Goto
    <2>4. Judged(e)'
      BY <1>4, <2>3 DEF Leg2, Checks, Judged
    <2> QED
      BY <2>2, <2>4, OneCheck
  <1>5. ASSUME NEW e \in Entry, Judge(e)
        PROVE  Checks'
    <2>1. CASE Goto(e, "done") /\ Forget(e)
      BY <1>5, <2>1, Ends DEF Judge
    <2>2. CASE Profitable(e)
      <3>1. Shape' /\ Aside(e)
        BY <1>5, <2>2 DEF Judge, Profitable, Checks, Shape, Goto, Step, Aside
      <3>2. step'[e] = "candidate" /\ step[e] = "judging"
        BY <1>5, <2>2 DEF Judge, Profitable, Checks, Shape, Goto
      <3>3. Judged(e)'
        BY <1>5, <2>2, <3>2 DEF Judge, Profitable, Checks, Judged, Profits, Forbidden, SharesPool
      <3> QED
        BY <3>1, <3>3, OneCheck
    <2> QED
      BY <1>5, <2>1, <2>2 DEF Judge, NotProfitable, SamePool
  <1>6. ASSUME NEW e \in Entry, DropResult(e)
        PROVE  Checks'
    BY <1>6, Ends DEF DropResult
  <1>7. ASSUME NEW e \in Entry, Merge(e)
        PROVE  Checks'
    <2>2. Shape' /\ Aside(e)
      BY <1>7 DEF Merge, Checks, Shape, Goto, Step, Aside
    <2>3. /\ step'[e] = "merged" /\ step[e] = "candidate"
          /\ merged'[e] = merge_quotes(e, amount + Fees)
      BY <1>7 DEF Merge, Checks, Shape, Goto
    <2>4. Judged(e)'
      BY <1>7, <2>3
      DEF Merge, Checks, Judged, Profits, Forbidden, SharesPool, MultiHop, CanMerge, merge_quotes
    <2> QED
      BY <2>2, <2>4, OneCheck
  <1>8. CASE UNCHANGED checkVars
    BY <1>8, ChecksStay
  <1> QED
    BY <1>1, <1>2, <1>3, <1>4, <1>5, <1>6, <1>7, <1>8 DEF Next, scan, quote_check, vars

-----------------------------------------------------------------------------
\* What a merged quote is made of.

LEMMA PlanIsSeq ==
    ASSUME NEW e \in Entry, NEW p \in Plan[e] \cup {NoPlan}, p # NoPlan
    PROVE  p \in Seq(HopsIn(p))
  BY DEF HopsIn, QuotesAssumption

\* Two plans in a row.
LEMMA InARow ==
    ASSUME NEW p, NEW q, p \in Seq(ToSet(p)), q \in Seq(ToSet(q))
    PROVE  /\ Len(p) \in Nat /\ Len(q) \in Nat
           /\ p \o q \in Seq(ToSet(p) \cup ToSet(q))
           /\ Len(p \o q) = Len(p) + Len(q)
           /\ DOMAIN (p \o q) = 1 .. Len(p) + Len(q)
           /\ \A i \in DOMAIN (p \o q) : i <= Len(p) => (p \o q)[i] \in ToSet(p)
           /\ \A i \in DOMAIN (p \o q) : i > Len(p) => (p \o q)[i] \in ToSet(q)
  <1> DEFINE S == ToSet(p) \cup ToSet(q)
  <1>1. p \in Seq(S) /\ q \in Seq(S)
    BY SeqMonotonic
  <1>2. /\ Len(p) \in Nat /\ Len(q) \in Nat
        /\ \A i \in 1 .. Len(p) : p[i] \in ToSet(p)
        /\ \A i \in 1 .. Len(q) : q[i] \in ToSet(q)
    BY LenProperties
  <1> HIDE DEF S
  <1>3. /\ p \o q \in Seq(S)
        /\ Len(p \o q) = Len(p) + Len(q)
        /\ \A i \in 1 .. Len(p) + Len(q) :
              (p \o q)[i] = IF i <= Len(p) THEN p[i] ELSE q[i - Len(p)]
    BY <1>1, ConcatProperties
  <1>4. DOMAIN (p \o q) = 1 .. Len(p) + Len(q)
    BY <1>3, LenProperties
  <1>5. ASSUME NEW i \in DOMAIN (p \o q), i <= Len(p)
        PROVE  (p \o q)[i] \in ToSet(p)
    <2>1. i \in 1 .. Len(p) /\ (p \o q)[i] = p[i]
      BY <1>2, <1>3, <1>4, <1>5
    <2> QED
      BY <1>2, <2>1
  <1>6. ASSUME NEW i \in DOMAIN (p \o q), i > Len(p)
        PROVE  (p \o q)[i] \in ToSet(q)
    <2>1. i - Len(p) \in 1 .. Len(q) /\ (p \o q)[i] = q[i - Len(p)]
      BY <1>2, <1>3, <1>4, <1>6
    <2> QED
      BY <1>2, <2>1
  <1> QED
    BY <1>2, <1>3, <1>4, <1>5, <1>6 DEF S

LEMMA SoundIfJudged == Checks => CandidatesSound
  <1> SUFFICES ASSUME Checks, NEW e \in Entry, step[e] = "merged"
               PROVE  LET plan == merged[e].plan
                          split == Len(leg1[e])
                      IN /\ Len(plan) = split + Len(leg2[e])
                         /\ \A i, j \in DOMAIN plan :
                               i <= split /\ split < j /\ plan[i] = plan[j] => plan[i] = NoKey
                         /\ \A i \in DOMAIN plan : plan[i] \notin Banned
                         /\ e \in Direct => Len(plan) = 2
                         /\ MinProfit >= Fees => out[e] > merged[e].floor
    BY DEF CandidatesSound
  <1>0. Judged(e)
    BY DEF Checks
  <1> DEFINE p == leg1[e]
             q == leg2[e]
             both == p \o q
             floor == amount + Fees
  <1>1a. merged[e] = merge_quotes(e, amount + Fees)
    BY <1>0 DEF Judged
  <1>2a. merged[e] = [in |-> amount, floor |-> floor, plan |-> both]
    BY ONLY <1>1a, Zenon DEF merge_quotes
  <1> HIDE DEF both, floor
  <1>3a. merged[e].plan = both /\ merged[e].floor = floor
    BY ONLY <1>2a
  <1>4a. merged[e].plan = p \o q /\ merged[e].floor = amount + Fees
    BY ONLY <1>3a, Zenon DEF both, floor
  <1>1. /\ p \in Plan[e] \cup {NoPlan} /\ q \in Plan[e] \cup {NoPlan}
        /\ Profits(e) /\ ~Forbidden(e) /\ ~SharesPool(e) /\ ~MultiHop(e)
        /\ p # NoPlan /\ q # NoPlan
        /\ merged[e].plan = p \o q /\ merged[e].floor = amount + Fees
    BY <1>0, <1>4a DEF Judged, CanMerge
  <1>2. HopsIn(p) = ToSet(p) /\ HopsIn(q) = ToSet(q)
    BY <1>1 DEF HopsIn
  <1>3. p \in Seq(ToSet(p)) /\ q \in Seq(ToSet(q))
    BY <1>1, <1>2, PlanIsSeq
  <1>4. out[e] \in Nat
    <2>1. out[e] \in Outs \cup {0}
      BY DEF Checks, Shape
    <2>2. Outs \subseteq Nat /\ 0 \in Nat
      BY ONLY Numbers
    <2> QED
      BY ONLY <2>1, <2>2, Zenon
  <1>5. out[e] > amount + MinProfit
    BY <1>1 DEF Profits
  <1>6. ToSet(p) \cap Banned = {} /\ ToSet(q) \cap Banned = {}
    BY <1>1, <1>2 DEF Forbidden, route_uses_forbidden_dex
  <1>7. (ToSet(p) \cap ToSet(q)) \ {NoKey} = {}
    BY <1>1, <1>2 DEF SharesPool, routes_share_pool
  <1>8. e \in Direct => Len(p) + Len(q) = 2
    BY <1>1 DEF MultiHop, hop_count
  <1> HIDE DEF p, q
  <1>9. /\ Len(p) \in Nat /\ Len(q) \in Nat
        /\ Len(p \o q) = Len(p) + Len(q)
        /\ DOMAIN (p \o q) = 1 .. Len(p) + Len(q)
        /\ \A i \in DOMAIN (p \o q) : i <= Len(p) => (p \o q)[i] \in ToSet(p)
        /\ \A i \in DOMAIN (p \o q) : i > Len(p) => (p \o q)[i] \in ToSet(q)
    BY <1>3, InARow
  <1>10. \A i, j \in DOMAIN (p \o q) :
            i <= Len(p) /\ Len(p) < j /\ (p \o q)[i] = (p \o q)[j] => (p \o q)[i] = NoKey
    <2> SUFFICES ASSUME NEW i \in DOMAIN (p \o q), NEW j \in DOMAIN (p \o q),
                        i <= Len(p), Len(p) < j, (p \o q)[i] = (p \o q)[j]
                 PROVE  (p \o q)[i] = NoKey
      OBVIOUS
    <2>1. j > Len(p)
      BY <1>9
    <2>2. (p \o q)[i] \in ToSet(p) /\ (p \o q)[i] \in ToSet(q)
      BY <1>9, <2>1
    <2> QED
      BY ONLY <1>7, <2>2
  <1>11. \A i \in DOMAIN (p \o q) : (p \o q)[i] \notin Banned
    <2> SUFFICES ASSUME NEW i \in DOMAIN (p \o q)
                 PROVE  (p \o q)[i] \notin Banned
      OBVIOUS
    <2>1. (p \o q)[i] \in ToSet(p) \/ (p \o q)[i] \in ToSet(q)
      BY <1>9
    <2> QED
      BY ONLY <1>6, <2>1
  <1>12. MinProfit >= Fees => out[e] > amount + Fees
    BY ONLY <1>4, <1>5, Numbers
  <1> QED
    BY <1>1, <1>8, <1>9, <1>10, <1>11, <1>12 DEF p, q

-----------------------------------------------------------------------------
\* The books: which cell a pass takes when.

LEMMA MintList == Len(Mints) \in Nat /\ DOMAIN Mints = 1 .. Len(Mints)
  BY LenProperties DEF QuotesAssumption

LEMMA FiveCounters ==
    /\ Len(Books!Order) = 5
    /\ Books!Order[1] = "q_sent" /\ Books!Order[2] = "route_ok" /\ Books!Order[3] = "route_fail"
    /\ Books!Order[4] = "profitable" /\ Books!Order[5] = "not_profitable"
  BY DEF Books!Order

LEMMA CellCount == Books!Cells = 5 * Len(Mints) /\ Books!Cells \in Nat
  <1>1. Books!Cells = Len(Mints) * 5
    BY FiveCounters DEF Books!Cells
  <1> QED
    BY <1>1, MintList

\* The cell of a token's k-th counter is taken k-th after the tokens before it.
LEMMA CellOfToken ==
    ASSUME NEW i \in Nat \ {0}, NEW k \in 0 .. 4
    PROVE  Books!CellAt(5 * (i - 1) + k) = <<i, Books!Order[k + 1]>>
  <1> DEFINE n == 5 * (i - 1) + k
  <1>1. n \in Nat /\ (n \div 5) + 1 = i /\ (n % 5) + 1 = k + 1
    OBVIOUS
  <1>2. Books!CellAt(n) = <<(n \div 5) + 1, Books!Order[(n % 5) + 1]>>
    BY FiveCounters DEF Books!CellAt
  <1> QED
    BY <1>1, <1>2

LEMMA CellTaken ==
    ASSUME NEW n \in 0 .. Books!Cells - 1
    PROVE  \E i \in DOMAIN Mints, k \in 0 .. 4 :
              n = 5 * (i - 1) + k /\ Books!CellAt(n) = <<i, Books!Order[k + 1]>>
  <1> DEFINE i == (n \div 5) + 1
             k == n % 5
  <1>1. n \in Nat /\ n < 5 * Len(Mints)
    BY CellCount, MintList
  <1>2. i \in Nat \ {0} /\ i <= Len(Mints) /\ k \in 0 .. 4 /\ n = 5 * (i - 1) + k
    BY <1>1, MintList
  <1>3. i \in DOMAIN Mints
    BY <1>2, MintList
  <1> HIDE DEF i, k
  <1>4. Books!CellAt(n) = <<i, Books!Order[k + 1]>>
    BY <1>2, CellOfToken
  <1> QED
    BY <1>2, <1>3, <1>4

LEMMA CellTyped == \A n \in 0 .. Books!Cells - 1 : Books!CellAt(n) \in Books!Cell
  <1> SUFFICES ASSUME NEW n \in 0 .. Books!Cells - 1
               PROVE  Books!CellAt(n) \in Books!Cell
    OBVIOUS
  <1>1. PICK i \in DOMAIN Mints, k \in 0 .. 4 : Books!CellAt(n) = <<i, Books!Order[k + 1]>>
    BY CellTaken
  <1>2. Books!Order[k + 1] \in Books!Counter
    <2>1. k = 0 \/ k = 1 \/ k = 2 \/ k = 3 \/ k = 4
      OBVIOUS
    <2> QED
      BY <2>1, FiveCounters DEF Books!Counter
  <1> QED
    BY <1>1, <1>2 DEF Books!Cell

LEMMA CellsDiffer ==
    \A m, n \in 0 .. Books!Cells - 1 : Books!CellAt(m) = Books!CellAt(n) => m = n
  <1> SUFFICES ASSUME NEW m \in 0 .. Books!Cells - 1, NEW n \in 0 .. Books!Cells - 1,
                      Books!CellAt(m) = Books!CellAt(n)
               PROVE  m = n
    OBVIOUS
  <1>1. PICK i \in DOMAIN Mints, k \in 0 .. 4 :
           m = 5 * (i - 1) + k /\ Books!CellAt(m) = <<i, Books!Order[k + 1]>>
    BY CellTaken
  <1>2. PICK j \in DOMAIN Mints, l \in 0 .. 4 :
           n = 5 * (j - 1) + l /\ Books!CellAt(n) = <<j, Books!Order[l + 1]>>
    BY CellTaken
  <1>3. i = j /\ Books!Order[k + 1] = Books!Order[l + 1]
    BY <1>1, <1>2
  <1>4. k = l
    <2>1. (k = 0 \/ k = 1 \/ k = 2 \/ k = 3 \/ k = 4) /\ (l = 0 \/ l = 1 \/ l = 2 \/ l = 3 \/ l = 4)
      OBVIOUS
    <2> QED
      BY <1>3, <2>1, FiveCounters
  <1> QED
    BY <1>1, <1>2, <1>3, <1>4

-----------------------------------------------------------------------------
\* Shape of the books, and that they balance.

BookShape ==
    /\ taken \in 0 .. Books!Cells /\ windows \in 0 .. Every - 1
    /\ live \in [Books!Cell -> Nat] /\ total \in [Books!Cell -> Nat]
    /\ snap \in [Books!Cell -> Nat] /\ acc \in [Books!Cell -> Nat]
    /\ told \in [Books!Cell -> Nat] /\ summed \in [Books!Cell -> Nat]

Untaken == \A n \in taken .. Books!Cells - 1 : snap[Books!CellAt(n)] = 0

Ledger == BookShape /\ Untaken /\ BooksBalance

\* What a count changes.
Raised(f, g, mint, counter, n) ==
    \A c \in Books!Cell :
        /\ c[1] \in Books!get(mint) /\ c[2] = counter => g[c] = f[c] + n
        /\ ~(c[1] \in Books!get(mint) /\ c[2] = counter) => g[c] = f[c]

LEMMA CountRaises ==
    ASSUME BookShape, NEW mint, NEW counter, NEW n \in Nat, Books!Count(mint, counter, n)
    PROVE  /\ live' \in [Books!Cell -> Nat] /\ total' \in [Books!Cell -> Nat]
           /\ Raised(live, live', mint, counter, n) /\ Raised(total, total', mint, counter, n)
  BY DEF BookShape, Books!Count, Raised

\* A step of the scanner counts something or nothing.
Counts ==
    \/ UNCHANGED <<live, total>>
    \/ \E e \in Entry, counter \in Books!Counter, n \in {1, 2} : Books!Count(MintOf[e], counter, n)

LEMMA ScanCounts ==
    ASSUME scan
    PROVE  Counts
  <1>1. PICK e \in Entry : quote_check(e) \/ DropResult(e) \/ Merge(e)
    BY DEF scan
  <1>2. CASE Begin(e)
    <2>1. Books!Count(MintOf[e], "q_sent", 2)
      BY <1>2 DEF Begin
    <2> QED
      BY <2>1 DEF Counts, Books!Counter
  <1>3. CASE Fails(e)
    <2>1. Books!Count(MintOf[e], "route_fail", 1)
      BY <1>3 DEF Fails
    <2> QED
      BY <2>1 DEF Counts, Books!Counter
  <1>4. CASE Leg1(e) \/ DropResult(e) \/ Merge(e)
    BY <1>4 DEF Leg1, DropResult, Merge, Counts
  <1>5. CASE Leg2(e)
    <2>1. Books!Count(MintOf[e], "route_ok", 1)
      BY <1>5 DEF Leg2
    <2> QED
      BY <2>1 DEF Counts, Books!Counter
  <1>6. CASE Judge(e)
    <2>1. \/ Books!Count(MintOf[e], "not_profitable", 1)
          \/ Books!Count(MintOf[e], "profitable", 1)
      BY <1>6 DEF Judge, NotProfitable, SamePool, Profitable
    <2> QED
      BY <2>1 DEF Counts, Books!Counter
  <1> QED
    BY <1>1, <1>2, <1>3, <1>4, <1>5, <1>6 DEF quote_check

LEMMA LedgerInit == Init => Ledger
  <1> SUFFICES ASSUME Init PROVE Ledger
    OBVIOUS
  <1>1. /\ taken = 0 /\ windows = 0
        /\ live = Books!Zero /\ total = Books!Zero /\ snap = Books!Zero
        /\ acc = Books!Zero /\ told = Books!Zero /\ summed = Books!Zero
    BY DEF Init, Books!BooksInit
  <1>2. Books!Zero \in [Books!Cell -> Nat] /\ \A c \in Books!Cell : Books!Zero[c] = 0
    BY DEF Books!Zero
  <1>3. BookShape
    BY <1>1, <1>2, CellCount, Numbers DEF BookShape
  <1>4. Untaken
    BY <1>1, <1>2, CellTyped DEF Untaken
  <1>5. BooksBalance
    BY <1>1, <1>2 DEF BooksBalance, Books!BooksBalance
  <1> QED
    BY <1>3, <1>4, <1>5 DEF Ledger

LEMMA LedgerScan ==
    ASSUME Ledger, Counts, UNCHANGED <<taken, snap, acc, windows, told, summed>>
    PROVE  Ledger'
  <1>1. CASE UNCHANGED <<live, total>>
    BY <1>1 DEF Ledger, BookShape, Untaken, BooksBalance, Books!BooksBalance
  <1>2. CASE ~ UNCHANGED <<live, total>>
    <2>1. PICK e \in Entry, counter \in Books!Counter, n \in {1, 2} : Books!Count(MintOf[e], counter, n)
      BY <1>2 DEF Counts
    <2>2. n \in Nat
      OBVIOUS
    <2>3. /\ live' \in [Books!Cell -> Nat] /\ total' \in [Books!Cell -> Nat]
          /\ Raised(live, live', MintOf[e], counter, n)
          /\ Raised(total, total', MintOf[e], counter, n)
      BY <2>1, <2>2, CountRaises DEF Ledger
    <2>4. BookShape'
      BY <2>3 DEF Ledger, BookShape
    <2>5. Untaken'
      BY DEF Ledger, Untaken
    <2>6. BooksBalance'
      <3> SUFFICES ASSUME NEW c \in Books!Cell
                   PROVE  /\ total'[c] = live'[c] + snap[c] + told[c]
                          /\ told[c] = summed[c] + acc[c]
        BY DEF BooksBalance, Books!BooksBalance
      <3>1. /\ live[c] \in Nat /\ snap[c] \in Nat /\ told[c] \in Nat
            /\ total[c] = live[c] + snap[c] + told[c] /\ told[c] = summed[c] + acc[c]
        BY DEF Ledger, BookShape, BooksBalance, Books!BooksBalance
      <3>2. \/ live'[c] = live[c] + n /\ total'[c] = total[c] + n
            \/ live'[c] = live[c] /\ total'[c] = total[c]
        BY <2>3 DEF Raised
      <3> QED
        BY <2>2, <3>1, <3>2
    <2> QED
      BY <2>4, <2>5, <2>6 DEF Ledger
  <1> QED
    BY <1>1, <1>2

LEMMA LedgerSwap ==
    ASSUME Ledger, Books!Swap
    PROVE  Ledger'
  <1>1. PICK d \in Books!Cell : d = Books!CellAt(taken)
    BY CellTyped, CellCount DEF Ledger, BookShape, Books!Swap
  <1>2. /\ snap' = [snap EXCEPT ![d] = live[d]] /\ live' = [live EXCEPT ![d] = 0]
        /\ taken' = taken + 1 /\ taken < Books!Cells
        /\ UNCHANGED <<acc, windows, total, told, summed>>
    BY <1>1 DEF Books!Swap
  <1>3. snap[d] = 0
    BY <1>1, <1>2, CellCount DEF Ledger, BookShape, Untaken
  <1>4. /\ live' \in [Books!Cell -> Nat] /\ snap' \in [Books!Cell -> Nat]
        /\ live'[d] = 0 /\ snap'[d] = live[d]
        /\ \A c \in Books!Cell \ {d} : live'[c] = live[c] /\ snap'[c] = snap[c]
    BY <1>2 DEF Ledger, BookShape
  <1>5. BookShape'
    BY <1>2, <1>4, CellCount DEF Ledger, BookShape
  <1>6. Untaken'
    <2> SUFFICES ASSUME NEW m \in taken' .. Books!Cells - 1
                 PROVE  snap'[Books!CellAt(m)] = 0
      BY DEF Untaken
    <2>1. taken \in Nat /\ m \in taken .. Books!Cells - 1 /\ m # taken
          /\ m \in 0 .. Books!Cells - 1 /\ taken \in 0 .. Books!Cells - 1
      BY <1>2, CellCount DEF Ledger, BookShape
    <2>2. Books!CellAt(m) # d /\ Books!CellAt(m) \in Books!Cell
      BY <1>1, <2>1, CellsDiffer, CellTyped
    <2>3. snap[Books!CellAt(m)] = 0
      BY <2>1 DEF Ledger, Untaken
    <2> QED
      BY <1>4, <2>2, <2>3
  <1>7. BooksBalance'
    <2> SUFFICES ASSUME NEW c \in Books!Cell
                 PROVE  /\ total[c] = live'[c] + snap'[c] + told[c]
                        /\ told[c] = summed[c] + acc[c]
      BY <1>2 DEF BooksBalance, Books!BooksBalance
    <2>1. /\ live[c] \in Nat /\ snap[c] \in Nat /\ told[c] \in Nat
          /\ total[c] = live[c] + snap[c] + told[c] /\ told[c] = summed[c] + acc[c]
      BY DEF Ledger, BookShape, BooksBalance, Books!BooksBalance
    <2>2. CASE c = d
      BY <1>3, <1>4, <2>1, <2>2
    <2>3. CASE c # d
      BY <1>4, <2>1, <2>3
    <2> QED
      BY <2>2, <2>3
  <1> QED
    BY <1>5, <1>6, <1>7 DEF Ledger

LEMMA SumOf ==
    ASSUME NEW f \in [Books!Cell -> Nat], NEW g \in [Books!Cell -> Nat]
    PROVE  /\ Books!Sum(f, g) \in [Books!Cell -> Nat]
           /\ \A c \in Books!Cell : Books!Sum(f, g)[c] = f[c] + g[c]
  BY DEF Books!Sum

LEMMA LedgerReport ==
    ASSUME Ledger, Books!Report
    PROVE  Ledger'
  <1>1. /\ taken' = 0 /\ snap' = Books!Zero /\ told' = Books!Sum(told, snap)
        /\ UNCHANGED <<live, total>>
    BY DEF Books!Report
  <1>2. /\ told \in [Books!Cell -> Nat] /\ snap \in [Books!Cell -> Nat] /\ acc \in [Books!Cell -> Nat]
        /\ summed \in [Books!Cell -> Nat] /\ live \in [Books!Cell -> Nat] /\ total \in [Books!Cell -> Nat]
        /\ windows \in Nat
    BY Numbers DEF Ledger, BookShape
  <1>3. Books!Zero \in [Books!Cell -> Nat] /\ \A c \in Books!Cell : Books!Zero[c] = 0
    BY DEF Books!Zero
  <1>4. /\ Books!Sum(told, snap) \in [Books!Cell -> Nat]
        /\ \A c \in Books!Cell : Books!Sum(told, snap)[c] = told[c] + snap[c]
    BY <1>2, SumOf
  <1>5. /\ Books!Sum(acc, snap) \in [Books!Cell -> Nat]
        /\ \A c \in Books!Cell : Books!Sum(acc, snap)[c] = acc[c] + snap[c]
    BY <1>2, SumOf
  <1>6. /\ windows' \in 0 .. Every - 1
        /\ acc' \in [Books!Cell -> Nat] /\ summed' \in [Books!Cell -> Nat]
        /\ \A c \in Books!Cell : summed'[c] + acc'[c] = summed[c] + acc[c] + snap[c]
    <2>1. CASE windows + 1 < Every /\ acc' = Books!Sum(acc, snap) /\ windows' = windows + 1 /\ summed' = summed
      <3>1. windows' \in 0 .. Every - 1
        BY <1>2, <2>1, Numbers
      <3>2. acc' \in [Books!Cell -> Nat] /\ summed' \in [Books!Cell -> Nat]
        BY <1>2, <1>5, <2>1
      <3>3. ASSUME NEW c \in Books!Cell
            PROVE  summed'[c] + acc'[c] = summed[c] + acc[c] + snap[c]
        <4>1. acc'[c] = acc[c] + snap[c] /\ summed'[c] = summed[c]
          BY <1>5, <2>1
        <4>2. summed[c] \in Nat /\ acc[c] \in Nat /\ snap[c] \in Nat
          BY <1>2
        <4> QED
          BY ONLY <4>1, <4>2
      <3> QED
        BY <3>1, <3>2, <3>3
    <2>2. CASE Books!Summarise
      <3>1. /\ summed' = Books!Sum(summed, Books!Sum(acc, snap)) /\ acc' = Books!Zero /\ windows' = 0
        BY <2>2 DEF Books!Summarise
      <3>2. /\ summed' \in [Books!Cell -> Nat]
            /\ \A c \in Books!Cell : summed'[c] = summed[c] + Books!Sum(acc, snap)[c]
        <4>1. \A g \in [Books!Cell -> Nat] :
                  /\ Books!Sum(summed, g) \in [Books!Cell -> Nat]
                  /\ \A c \in Books!Cell : Books!Sum(summed, g)[c] = summed[c] + g[c]
          BY <1>2, SumOf
        <4>2. /\ Books!Sum(summed, Books!Sum(acc, snap)) \in [Books!Cell -> Nat]
              /\ \A c \in Books!Cell :
                     Books!Sum(summed, Books!Sum(acc, snap))[c] = summed[c] + Books!Sum(acc, snap)[c]
          BY ONLY <4>1, <1>5
        <4> QED
          BY ONLY <4>2, <3>1
      <3>3. windows' \in 0 .. Every - 1
        BY <3>1, Numbers
      <3>4. ASSUME NEW c \in Books!Cell
            PROVE  summed'[c] + acc'[c] = summed[c] + acc[c] + snap[c]
        <4>1. summed'[c] = summed[c] + (acc[c] + snap[c]) /\ acc'[c] = 0
          BY <1>3, <1>5, <3>1, <3>2
        <4>2. summed[c] \in Nat /\ acc[c] \in Nat /\ snap[c] \in Nat
          BY <1>2
        <4> QED
          BY ONLY <4>1, <4>2
      <3> QED
        BY <1>3, <3>1, <3>2, <3>3, <3>4
    <2> QED
      BY <2>1, <2>2 DEF Books!Report
  <1>7. BookShape'
    BY <1>1, <1>2, <1>3, <1>4, <1>6, CellCount DEF BookShape
  <1>8. Untaken'
    BY <1>1, <1>3, CellTyped DEF Untaken
  <1>9. BooksBalance'
    <2> SUFFICES ASSUME NEW c \in Books!Cell
                 PROVE  /\ total'[c] = live'[c] + snap'[c] + told'[c]
                        /\ told'[c] = summed'[c] + acc'[c]
      BY DEF BooksBalance, Books!BooksBalance
    <2>1. /\ live[c] \in Nat /\ snap[c] \in Nat /\ told[c] \in Nat /\ acc[c] \in Nat /\ summed[c] \in Nat
          /\ total[c] = live[c] + snap[c] + told[c] /\ told[c] = summed[c] + acc[c]
      BY <1>2 DEF Ledger, BooksBalance, Books!BooksBalance
    <2>2. /\ total'[c] = total[c] /\ live'[c] = live[c] /\ snap'[c] = 0
          /\ told'[c] = told[c] + snap[c]
          /\ summed'[c] + acc'[c] = summed[c] + acc[c] + snap[c]
      BY <1>1, <1>3, <1>4, <1>6
    <2>3. summed'[c] \in Nat /\ acc'[c] \in Nat
      BY <1>6
    <2> QED
      BY ONLY <2>1, <2>2, <2>3
  <1> QED
    BY <1>7, <1>8, <1>9 DEF Ledger

LEMMA LedgerNext == Ledger /\ [Next]_vars => Ledger'
  <1> SUFFICES ASSUME Ledger, [Next]_vars
               PROVE  Ledger'
    OBVIOUS
  <1>1. CASE scan /\ UNCHANGED <<taken, snap, acc, windows, told, summed>>
    BY <1>1, ScanCounts, LedgerScan
  <1>2. CASE Books!reporter
    BY <1>2, LedgerSwap, LedgerReport DEF Books!reporter
  <1>3. CASE UNCHANGED vars
    BY <1>3 DEF vars, bookVars, Ledger, BookShape, Untaken, BooksBalance, Books!BooksBalance
  <1> QED
    BY <1>1, <1>2, <1>3 DEF Next

-----------------------------------------------------------------------------
\* A route that is counted has its verdict, or is the one that is judged.

RouteOk(i) == <<i, "route_ok">>
Profit(i) == <<i, "profitable">>
NoProfit(i) == <<i, "not_profitable">>

Busy(e) == step[e] \in {"judging", "candidate"}
Alone == \A e, f \in Entry : Busy(e) /\ Busy(f) => e = f

Judging(i) == \E e \in Entry : step[e] = "judging" /\ i \in Books!get(MintOf[e])

Verdict(i) ==
    /\ Judging(i) => total[RouteOk(i)] = total[Profit(i)] + total[NoProfit(i)] + 1
    /\ ~Judging(i) => total[RouteOk(i)] = total[Profit(i)] + total[NoProfit(i)]

Verdicts == Alone /\ \A i \in DOMAIN Mints : Verdict(i)

LEMMA VerdictCells ==
    ASSUME NEW i \in DOMAIN Mints
    PROVE  /\ RouteOk(i) \in Books!Cell /\ Profit(i) \in Books!Cell /\ NoProfit(i) \in Books!Cell
           /\ RouteOk(i)[1] = i /\ Profit(i)[1] = i /\ NoProfit(i)[1] = i
           /\ RouteOk(i)[2] = "route_ok" /\ Profit(i)[2] = "profitable"
           /\ NoProfit(i)[2] = "not_profitable"
  BY DEF RouteOk, Profit, NoProfit, Books!Cell, Books!Counter

LEMMA VerdictsInit == Init => Verdicts
  <1> SUFFICES ASSUME Init PROVE Verdicts
    OBVIOUS
  <1>1. \A e \in Entry : step[e] = "listed"
    BY DEF Init
  <1>2. total = [c \in Books!Cell |-> 0]
    BY DEF Init, Books!BooksInit, Books!Zero
  <1>3. ASSUME NEW i \in DOMAIN Mints
        PROVE  Verdict(i)
    <2>1. total[RouteOk(i)] = 0 /\ total[Profit(i)] = 0 /\ total[NoProfit(i)] = 0
      BY <1>2, VerdictCells
    <2> QED
      BY <1>1, <2>1 DEF Verdict, Judging
  <1> QED
    BY <1>1, <1>3 DEF Verdicts, Alone, Busy

\* A count of something else, by a check that is not judged before or after.
LEMMA VerdictsStay ==
    ASSUME Ledger, Verdicts, \A e \in Entry : step[e] # "judging",
           \A e \in Entry : step'[e] # "judging", Alone',
           \A i \in DOMAIN Mints :
              /\ total'[RouteOk(i)] = total[RouteOk(i)]
              /\ total'[Profit(i)] = total[Profit(i)] /\ total'[NoProfit(i)] = total[NoProfit(i)]
    PROVE  Verdicts'
  <1>1. \A i \in DOMAIN Mints : Verdict(i) /\ ~Judging(i) /\ ~Judging(i)'
    BY DEF Verdicts, Judging
  <1> QED
    BY <1>1 DEF Verdicts, Verdict, RouteOk, Profit, NoProfit

LEMMA OtherCount ==
    ASSUME Ledger, NEW mint, NEW counter \in {"q_sent", "route_fail"}, NEW n \in Nat,
           Books!Count(mint, counter, n)
    PROVE  \A i \in DOMAIN Mints :
              /\ total'[RouteOk(i)] = total[RouteOk(i)]
              /\ total'[Profit(i)] = total[Profit(i)] /\ total'[NoProfit(i)] = total[NoProfit(i)]
  <1>1. Raised(total, total', mint, counter, n)
    BY CountRaises DEF Ledger
  <1> QED
    BY <1>1, VerdictCells DEF Raised

\* A check that goes to its next place, and what the others are.
LEMMA Moves ==
    ASSUME Checks, NEW e \in Entry, NEW s \in Step, Goto(e, s)
    PROVE  step'[e] = s /\ \A f \in Entry \ {e} : step'[f] = step[f]
  BY DEF Checks, Shape, Goto

LEMMA VerdictsQuoted ==
    ASSUME Checks, Ledger, Verdicts, NEW e \in Entry, Leg2(e)
    PROVE  Verdicts'
  <1>1. Goto(e, "judging") /\ Books!Count(MintOf[e], "route_ok", 1)
        /\ \A f \in Entry : step[f] \notin {"judging", "candidate"}
    BY DEF Leg2, AtAwait
  <1>2. step'[e] = "judging" /\ \A f \in Entry \ {e} : step'[f] = step[f]
    BY <1>1, Moves DEF Step
  <1>3. Alone'
    BY <1>1, <1>2 DEF Alone, Busy
  <1>4. Raised(total, total', MintOf[e], "route_ok", 1) /\ total \in [Books!Cell -> Nat]
    BY <1>1, CountRaises DEF Ledger, BookShape
  <1>5. ASSUME NEW i \in DOMAIN Mints
        PROVE  Verdict(i)'
    <2>1. total[RouteOk(i)] = total[Profit(i)] + total[NoProfit(i)]
      BY <1>1 DEF Verdicts, Verdict, Judging
    <2>2. Judging(i)' <=> i \in Books!get(MintOf[e])
      BY <1>1, <1>2 DEF Judging
    <2>3. total'[Profit(i)] = total[Profit(i)] /\ total'[NoProfit(i)] = total[NoProfit(i)]
      BY <1>4, VerdictCells DEF Raised
    <2>4. CASE i \in Books!get(MintOf[e])
      <3>1. total'[RouteOk(i)] = total[RouteOk(i)] + 1
        BY <1>4, <2>4, VerdictCells DEF Raised
      <3>2. total'[RouteOk(i)] = total'[Profit(i)] + total'[NoProfit(i)] + 1
        BY <2>1, <2>3, <3>1
      <3> QED
        BY <2>2, <2>4, <3>2 DEF Verdict, RouteOk, Profit, NoProfit
    <2>5. CASE i \notin Books!get(MintOf[e])
      <3>1. total'[RouteOk(i)] = total[RouteOk(i)]
        BY <1>4, <2>5, VerdictCells DEF Raised
      <3>2. total'[RouteOk(i)] = total'[Profit(i)] + total'[NoProfit(i)]
        BY <2>1, <2>3, <3>1
      <3> QED
        BY <2>2, <2>5, <3>2 DEF Verdict, RouteOk, Profit, NoProfit
    <2> QED
      BY <2>4, <2>5
  <1> QED
    BY <1>3, <1>5 DEF Verdicts

LEMMA VerdictsJudged ==
    ASSUME Checks, Ledger, Verdicts, NEW e \in Entry, Judge(e)
    PROVE  Verdicts'
  <1>1. /\ step[e] = "judging"
        /\ \E s \in {"done", "candidate"} : Goto(e, s)
        /\ \E counter \in {"profitable", "not_profitable"} : Books!Count(MintOf[e], counter, 1)
    BY DEF Judge, NotProfitable, SamePool, Profitable
  <1>2. PICK s \in {"done", "candidate"} : step'[e] = s /\ \A f \in Entry \ {e} : step'[f] = step[f]
    BY <1>1, Moves DEF Step
  <1>3. \A f \in Entry \ {e} : ~Busy(f)
    BY <1>1 DEF Verdicts, Alone, Busy
  <1>4. Alone'
    BY <1>2, <1>3 DEF Alone, Busy
  <1>5. PICK counter \in {"profitable", "not_profitable"} : Books!Count(MintOf[e], counter, 1)
    BY <1>1
  <1>6. Raised(total, total', MintOf[e], counter, 1) /\ total \in [Books!Cell -> Nat]
    BY <1>5, CountRaises DEF Ledger, BookShape
  <1>7. ASSUME NEW i \in DOMAIN Mints
        PROVE  Verdict(i)'
    <2>1. Judging(i) <=> i \in Books!get(MintOf[e])
      BY <1>1, <1>3 DEF Judging, Busy
    <2>2. ~Judging(i)'
      BY <1>2, <1>3 DEF Judging, Busy
    <2>3. /\ total'[RouteOk(i)] = total[RouteOk(i)]
          /\ total[Profit(i)] \in Nat /\ total[NoProfit(i)] \in Nat
      BY <1>6, VerdictCells DEF Raised
    <2>4. CASE i \in Books!get(MintOf[e])
      <3>1. total[RouteOk(i)] = total[Profit(i)] + total[NoProfit(i)] + 1
        BY <2>1, <2>4 DEF Verdicts, Verdict
      <3>2. \/ /\ total'[Profit(i)] = total[Profit(i)] + 1
               /\ total'[NoProfit(i)] = total[NoProfit(i)]
            \/ /\ total'[Profit(i)] = total[Profit(i)]
               /\ total'[NoProfit(i)] = total[NoProfit(i)] + 1
        BY <1>6, <2>4, VerdictCells DEF Raised
      <3>3. total'[RouteOk(i)] = total'[Profit(i)] + total'[NoProfit(i)]
        BY <2>3, <3>1, <3>2
      <3> QED
        BY <2>2, <3>3 DEF Verdict, RouteOk, Profit, NoProfit
    <2>5. CASE i \notin Books!get(MintOf[e])
      <3>1. total[RouteOk(i)] = total[Profit(i)] + total[NoProfit(i)]
        BY <2>1, <2>5 DEF Verdicts, Verdict
      <3>2. total'[Profit(i)] = total[Profit(i)] /\ total'[NoProfit(i)] = total[NoProfit(i)]
        BY <1>6, <2>5, VerdictCells DEF Raised
      <3>3. total'[RouteOk(i)] = total'[Profit(i)] + total'[NoProfit(i)]
        BY <2>3, <3>1, <3>2
      <3> QED
        BY <2>2, <3>3 DEF Verdict, RouteOk, Profit, NoProfit
    <2> QED
      BY <2>4, <2>5
  <1> QED
    BY <1>4, <1>7 DEF Verdicts

LEMMA VerdictsScan ==
    ASSUME Checks, Ledger, Verdicts, scan
    PROVE  Verdicts'
  <1>1. PICK e \in Entry : quote_check(e) \/ DropResult(e) \/ Merge(e)
    BY DEF scan
  <1>2. CASE Begin(e) \/ Fails(e) \/ Leg1(e)
    <2>1. /\ AtAwait
          /\ \E s \in {"leg1", "leg2", "done"} : Goto(e, s)
      BY <1>2 DEF Begin, Fails, Leg1
    <2>2. \A f \in Entry : step[f] \notin {"judging", "candidate"}
      BY <2>1 DEF AtAwait
    <2>3. \A f \in Entry : step'[f] \notin {"judging", "candidate"}
      <3>1. PICK s \in {"leg1", "leg2", "done"} : Goto(e, s)
        BY <2>1
      <3>2. step'[e] = s /\ \A f \in Entry \ {e} : step'[f] = step[f]
        BY <3>1, Moves DEF Step
      <3> QED
        BY <2>2, <3>2
    <2>4. \/ UNCHANGED total
          \/ Books!Count(MintOf[e], "q_sent", 2)
          \/ Books!Count(MintOf[e], "route_fail", 1)
      BY <1>2 DEF Begin, Fails, Leg1
    <2>5. \A i \in DOMAIN Mints :
              /\ total'[RouteOk(i)] = total[RouteOk(i)]
              /\ total'[Profit(i)] = total[Profit(i)] /\ total'[NoProfit(i)] = total[NoProfit(i)]
      BY <2>4, OtherCount
    <2>6. Alone'
      BY <2>3 DEF Alone, Busy
    <2> QED
      BY <2>2, <2>3, <2>5, <2>6, VerdictsStay
  <1>3. CASE Leg2(e)
    BY <1>3, VerdictsQuoted
  <1>4. CASE Judge(e)
    BY <1>4, VerdictsJudged
  <1>5. CASE DropResult(e) \/ Merge(e)
    <2>1. /\ step[e] = "candidate" /\ UNCHANGED total
          /\ \E s \in {"merged", "done"} : Goto(e, s)
      BY <1>5 DEF DropResult, Merge
    <2>2. PICK s \in {"merged", "done"} : step'[e] = s /\ \A f \in Entry \ {e} : step'[f] = step[f]
      BY <2>1, Moves DEF Step
    <2>3. \A f \in Entry \ {e} : ~Busy(f)
      BY <2>1 DEF Verdicts, Alone, Busy
    <2>4. /\ \A f \in Entry : step[f] # "judging" /\ step'[f] # "judging"
          /\ Alone'
      BY <2>1, <2>2, <2>3 DEF Alone, Busy
    <2> QED
      BY <2>1, <2>4, VerdictsStay
  <1> QED
    BY <1>1, <1>2, <1>3, <1>4, <1>5 DEF quote_check

LEMMA VerdictsNext == Checks /\ Ledger /\ Verdicts /\ [Next]_vars => Verdicts'
  <1> SUFFICES ASSUME Checks, Ledger, Verdicts, [Next]_vars
               PROVE  Verdicts'
    OBVIOUS
  <1>1. CASE scan
    BY <1>1, VerdictsScan
  <1>2. CASE UNCHANGED <<step, total>>
    BY <1>2 DEF Verdicts, Alone, Busy, Verdict, Judging, RouteOk, Profit, NoProfit
  <1>3. Books!reporter => UNCHANGED total
    BY DEF Books!reporter, Books!Swap, Books!Report
  <1> QED
    BY <1>1, <1>2, <1>3 DEF Next, vars, checkVars, bookVars

-----------------------------------------------------------------------------
\* A pass through the five counters of a token.  What it has seen of the verdicts
\* covers what it has seen of the routes before it comes to them and once it is
\* past them; in between, those that are still to be taken make up for it.

Before(i) == 5 * (i - 1)
Seen(c) == told[c] + snap[c]

Lag(i) ==
    /\ taken <= Before(i) + 1 \/ taken >= Before(i) + 5 =>
          Seen(RouteOk(i)) <= Seen(Profit(i)) + Seen(NoProfit(i)) + 1
    /\ taken \in {Before(i) + 2, Before(i) + 3} =>
          Seen(RouteOk(i)) <= total[Profit(i)] + total[NoProfit(i)] + 1
    /\ taken = Before(i) + 4 =>
          Seen(RouteOk(i)) <= Seen(Profit(i)) + total[NoProfit(i)] + 1

Lags == \A i \in DOMAIN Mints : Lag(i)

\* Where the cells of a token are.
LEMMA WhereVerdicts ==
    ASSUME NEW i \in DOMAIN Mints
    PROVE  /\ Before(i) \in Nat /\ Before(i) + 5 <= Books!Cells
           /\ Books!CellAt(Before(i) + 1) = RouteOk(i)
           /\ Books!CellAt(Before(i) + 3) = Profit(i)
           /\ Books!CellAt(Before(i) + 4) = NoProfit(i)
  <1>1. i \in Nat \ {0} /\ i <= Len(Mints) /\ Len(Mints) \in Nat
    BY MintList
  <1>2. /\ Books!CellAt(5 * (i - 1) + 1) = <<i, Books!Order[1 + 1]>>
        /\ Books!CellAt(5 * (i - 1) + 3) = <<i, Books!Order[3 + 1]>>
        /\ Books!CellAt(5 * (i - 1) + 4) = <<i, Books!Order[4 + 1]>>
    <2>1. \A k \in 0 .. 4 : Books!CellAt(5 * (i - 1) + k) = <<i, Books!Order[k + 1]>>
      BY <1>1, CellOfToken
    <2>2. 1 \in 0 .. 4 /\ 3 \in 0 .. 4 /\ 4 \in 0 .. 4
      OBVIOUS
    <2> QED
      BY ONLY <2>1, <2>2
  <1>3. Before(i) \in Nat /\ Before(i) + 5 <= Books!Cells
    BY <1>1, CellCount DEF Before
  <1> QED
    BY <1>2, <1>3, FiveCounters DEF Before, RouteOk, Profit, NoProfit

LEMMA WhenTaken ==
    ASSUME NEW i \in DOMAIN Mints, NEW n \in 0 .. Books!Cells - 1
    PROVE  /\ Books!CellAt(n) = RouteOk(i) <=> n = Before(i) + 1
           /\ Books!CellAt(n) = Profit(i) <=> n = Before(i) + 3
           /\ Books!CellAt(n) = NoProfit(i) <=> n = Before(i) + 4
  <1>1. {Before(i) + 1, Before(i) + 3, Before(i) + 4} \subseteq 0 .. Books!Cells - 1
    BY WhereVerdicts, CellCount
  <1> QED
    BY <1>1, WhereVerdicts, CellsDiffer

\* What a pass has seen of a cell is part of what was counted.
LEMMA SeenIsCounted ==
    ASSUME Ledger, NEW c \in Books!Cell
    PROVE  Seen(c) \in Nat /\ total[c] \in Nat /\ live[c] \in Nat /\ total[c] = Seen(c) + live[c]
  <1>1. /\ live[c] \in Nat /\ snap[c] \in Nat /\ told[c] \in Nat
        /\ total[c] = live[c] + snap[c] + told[c]
    BY DEF Ledger, BookShape, BooksBalance, Books!BooksBalance
  <1> QED
    BY ONLY <1>1 DEF Seen

LEMMA LagsInit == Init => Lags
  <1> SUFFICES ASSUME Init, NEW i \in DOMAIN Mints
               PROVE  Lag(i)
    BY DEF Lags
  <1>1. taken = 0 /\ told = [c \in Books!Cell |-> 0] /\ snap = [c \in Books!Cell |-> 0]
    BY DEF Init, Books!BooksInit, Books!Zero
  <1>2. Seen(RouteOk(i)) = 0 /\ Seen(Profit(i)) = 0 /\ Seen(NoProfit(i)) = 0
    BY <1>1, VerdictCells DEF Seen
  <1> QED
    BY <1>1, <1>2, WhereVerdicts DEF Lag

\* The scanner only adds to what was counted.
LEMMA LagsScan ==
    ASSUME Ledger, Lags, Counts, UNCHANGED <<taken, snap, told>>
    PROVE  Lags'
  <1>1. ASSUME NEW c \in Books!Cell
        PROVE  total'[c] \in Nat /\ total'[c] >= total[c]
    <2>1. total[c] \in Nat
      BY SeenIsCounted
    <2>2. CASE UNCHANGED <<live, total>>
      BY <2>1, <2>2
    <2>3. CASE \E e \in Entry, counter \in Books!Counter, n \in {1, 2} :
                  Books!Count(MintOf[e], counter, n)
      <3>1. PICK e \in Entry, counter \in Books!Counter, n \in {1, 2} :
               Books!Count(MintOf[e], counter, n)
        BY <2>3
      <3>2. n \in Nat
        OBVIOUS
      <3>3. Raised(total, total', MintOf[e], counter, n)
        BY <3>1, <3>2, CountRaises DEF Ledger
      <3>4. total'[c] = total[c] + n \/ total'[c] = total[c]
        BY <3>3 DEF Raised
      <3> QED
        BY <2>1, <3>2, <3>4
    <2> QED
      BY <2>2, <2>3 DEF Counts
  <1> SUFFICES ASSUME NEW i \in DOMAIN Mints
               PROVE  Lag(i)'
    BY DEF Lags
  <1>2. /\ Seen(RouteOk(i))' = Seen(RouteOk(i)) /\ Seen(Profit(i))' = Seen(Profit(i))
        /\ Seen(NoProfit(i))' = Seen(NoProfit(i))
    BY DEF Seen, RouteOk, Profit, NoProfit
  <1>3. /\ Seen(RouteOk(i)) \in Nat /\ Seen(Profit(i)) \in Nat /\ Seen(NoProfit(i)) \in Nat
        /\ total[Profit(i)] \in Nat /\ total[NoProfit(i)] \in Nat
    BY SeenIsCounted, VerdictCells
  <1>4. /\ total'[Profit(i)] \in Nat /\ total'[Profit(i)] >= total[Profit(i)]
        /\ total'[NoProfit(i)] \in Nat /\ total'[NoProfit(i)] >= total[NoProfit(i)]
    BY <1>1, VerdictCells
  <1>5. Before(i)' = Before(i) /\ Before(i) \in Nat /\ taken' = taken
        /\ RouteOk(i)' = RouteOk(i) /\ Profit(i)' = Profit(i) /\ NoProfit(i)' = NoProfit(i)
    BY WhereVerdicts DEF Before, RouteOk, Profit, NoProfit
  <1>6. Lag(i)
    BY DEF Lags
  <1> QED
    BY ONLY <1>2, <1>3, <1>4, <1>5, <1>6 DEF Lag

\* What a step of the pass does to what it has seen of a cell.
LEMMA SwapSees ==
    ASSUME Ledger, Books!Swap, NEW c \in Books!Cell
    PROVE  /\ Books!CellAt(taken) = c => told'[c] + snap'[c] = total[c]
           /\ Books!CellAt(taken) # c => told'[c] + snap'[c] = Seen(c)
  <1>1. PICK d \in Books!Cell : d = Books!CellAt(taken)
    BY CellTyped, CellCount DEF Ledger, BookShape, Books!Swap
  <1>2. taken \in taken .. Books!Cells - 1
    BY CellCount DEF Ledger, BookShape, Books!Swap
  <1>3. snap[d] = 0
    BY <1>1, <1>2 DEF Ledger, Untaken
  <1>4. snap'[d] = live[d] /\ told' = told /\ \A b \in Books!Cell \ {d} : snap'[b] = snap[b]
    BY <1>1 DEF Ledger, BookShape, Books!Swap
  <1>5. /\ live[c] \in Nat /\ snap[c] \in Nat /\ told[c] \in Nat
        /\ total[c] = live[c] + snap[c] + told[c]
    BY DEF Ledger, BookShape, BooksBalance, Books!BooksBalance
  <1>6. CASE c = d
    <2>1. told'[c] + snap'[c] = total[c]
      BY <1>3, <1>4, <1>5, <1>6
    <2> QED
      BY <1>1, <1>6, <2>1
  <1>7. CASE c # d
    <2>1. told'[c] + snap'[c] = told[c] + snap[c]
      BY <1>4, <1>7
    <2> QED
      BY <1>1, <1>7, <2>1 DEF Seen
  <1> QED
    BY <1>6, <1>7

LEMMA LagsSwap ==
    ASSUME Ledger, Verdicts, Lags, Books!Swap
    PROVE  Lags'
  <1> SUFFICES ASSUME NEW i \in DOMAIN Mints
               PROVE  Lag(i)'
    BY DEF Lags
  <1>1. taken \in 0 .. Books!Cells - 1 /\ taken \in Nat /\ taken' = taken + 1 /\ total' = total
    BY CellCount DEF Ledger, BookShape, Books!Swap
  <1>2. /\ Books!CellAt(taken) = RouteOk(i) <=> taken = Before(i) + 1
        /\ Books!CellAt(taken) = Profit(i) <=> taken = Before(i) + 3
        /\ Books!CellAt(taken) = NoProfit(i) <=> taken = Before(i) + 4
    BY <1>1, WhenTaken
  <1>3. /\ Seen(RouteOk(i))' = IF taken = Before(i) + 1 THEN total[RouteOk(i)] ELSE Seen(RouteOk(i))
        /\ Seen(Profit(i))' = IF taken = Before(i) + 3 THEN total[Profit(i)] ELSE Seen(Profit(i))
        /\ Seen(NoProfit(i))' = IF taken = Before(i) + 4 THEN total[NoProfit(i)] ELSE Seen(NoProfit(i))
    <2>1. /\ Seen(RouteOk(i))' = told'[RouteOk(i)] + snap'[RouteOk(i)]
          /\ Seen(Profit(i))' = told'[Profit(i)] + snap'[Profit(i)]
          /\ Seen(NoProfit(i))' = told'[NoProfit(i)] + snap'[NoProfit(i)]
      BY DEF Seen, RouteOk, Profit, NoProfit
    <2> QED
      BY <1>2, <2>1, SwapSees, VerdictCells
  <1>4. total[RouteOk(i)] <= total[Profit(i)] + total[NoProfit(i)] + 1
    <2>1. total[RouteOk(i)] \in Nat /\ total[Profit(i)] \in Nat /\ total[NoProfit(i)] \in Nat
      BY SeenIsCounted, VerdictCells
    <2>2. \/ total[RouteOk(i)] = total[Profit(i)] + total[NoProfit(i)] + 1
          \/ total[RouteOk(i)] = total[Profit(i)] + total[NoProfit(i)]
      BY DEF Verdicts, Verdict
    <2> QED
      BY ONLY <2>1, <2>2
  <1>5. /\ Seen(RouteOk(i)) \in Nat /\ Seen(Profit(i)) \in Nat /\ Seen(NoProfit(i)) \in Nat
        /\ total[RouteOk(i)] \in Nat /\ total[Profit(i)] \in Nat /\ total[NoProfit(i)] \in Nat
        /\ Seen(Profit(i)) <= total[Profit(i)] /\ Seen(NoProfit(i)) <= total[NoProfit(i)]
    <2>1. /\ Seen(Profit(i)) \in Nat /\ live[Profit(i)] \in Nat
          /\ total[Profit(i)] = Seen(Profit(i)) + live[Profit(i)]
      BY SeenIsCounted, VerdictCells
    <2>2. /\ Seen(NoProfit(i)) \in Nat /\ live[NoProfit(i)] \in Nat
          /\ total[NoProfit(i)] = Seen(NoProfit(i)) + live[NoProfit(i)]
      BY SeenIsCounted, VerdictCells
    <2>3. Seen(RouteOk(i)) \in Nat /\ total[RouteOk(i)] \in Nat
      BY SeenIsCounted, VerdictCells
    <2> QED
      BY ONLY <2>1, <2>2, <2>3
  <1>6. Before(i)' = Before(i) /\ Before(i) \in Nat
        /\ RouteOk(i)' = RouteOk(i) /\ Profit(i)' = Profit(i) /\ NoProfit(i)' = NoProfit(i)
    BY WhereVerdicts DEF Before, RouteOk, Profit, NoProfit
  <1>7. Lag(i)
    BY DEF Lags
  <1>8. \/ taken <= Before(i) \/ taken = Before(i) + 1 \/ taken = Before(i) + 2
        \/ taken = Before(i) + 3 \/ taken = Before(i) + 4 \/ taken >= Before(i) + 5
    BY ONLY <1>1, <1>6
  <1>9. CASE taken <= Before(i) \/ taken >= Before(i) + 5
    <2>1. /\ Seen(RouteOk(i))' = Seen(RouteOk(i)) /\ Seen(Profit(i))' = Seen(Profit(i))
          /\ Seen(NoProfit(i))' = Seen(NoProfit(i))
      BY ONLY <1>1, <1>3, <1>6, <1>9
    <2>2. Seen(RouteOk(i)) <= Seen(Profit(i)) + Seen(NoProfit(i)) + 1
      BY ONLY <1>1, <1>6, <1>7, <1>9 DEF Lag
    <2>3. taken' <= Before(i) + 1 \/ taken' >= Before(i) + 6
      BY ONLY <1>1, <1>6, <1>9
    <2> QED
      BY ONLY <1>1, <1>6, <2>1, <2>2, <2>3 DEF Lag
  <1>10. CASE taken = Before(i) + 1
    <2>1. Seen(RouteOk(i))' = total[RouteOk(i)] /\ taken' = Before(i) + 2
      BY ONLY <1>1, <1>3, <1>6, <1>10
    <2> QED
      BY ONLY <1>1, <1>4, <1>6, <2>1 DEF Lag
  <1>11. CASE taken = Before(i) + 2
    <2>1. Seen(RouteOk(i))' = Seen(RouteOk(i)) /\ taken' = Before(i) + 3
      BY ONLY <1>1, <1>3, <1>6, <1>11
    <2>2. Seen(RouteOk(i)) <= total[Profit(i)] + total[NoProfit(i)] + 1
      BY ONLY <1>7, <1>11 DEF Lag
    <2> QED
      BY ONLY <1>1, <1>6, <2>1, <2>2 DEF Lag
  <1>12. CASE taken = Before(i) + 3
    <2>1. /\ Seen(RouteOk(i))' = Seen(RouteOk(i)) /\ Seen(Profit(i))' = total[Profit(i)]
          /\ taken' = Before(i) + 4
      BY ONLY <1>1, <1>3, <1>6, <1>12
    <2>2. Seen(RouteOk(i)) <= total[Profit(i)] + total[NoProfit(i)] + 1
      BY ONLY <1>7, <1>12 DEF Lag
    <2> QED
      BY ONLY <1>1, <1>6, <2>1, <2>2 DEF Lag
  <1>13. CASE taken = Before(i) + 4
    <2>1. /\ Seen(RouteOk(i))' = Seen(RouteOk(i)) /\ Seen(Profit(i))' = Seen(Profit(i))
          /\ Seen(NoProfit(i))' = total[NoProfit(i)] /\ taken' = Before(i) + 5
      BY ONLY <1>1, <1>3, <1>6, <1>13
    <2>2. Seen(RouteOk(i)) <= Seen(Profit(i)) + total[NoProfit(i)] + 1
      BY ONLY <1>7, <1>13 DEF Lag
    <2> QED
      BY ONLY <1>1, <1>6, <2>1, <2>2 DEF Lag
  <1> QED
    BY ONLY <1>8, <1>9, <1>10, <1>11, <1>12, <1>13

LEMMA LagsReport ==
    ASSUME Ledger, Lags, Books!Report
    PROVE  Lags'
  <1> SUFFICES ASSUME NEW i \in DOMAIN Mints
               PROVE  Lag(i)'
    BY DEF Lags
  <1>1. /\ taken = Books!Cells /\ taken' = 0 /\ snap' = Books!Zero /\ told' = Books!Sum(told, snap)
        /\ total' = total
    BY DEF Books!Report
  <1>2. \A c \in Books!Cell : told'[c] + snap'[c] = Seen(c)
    <2>1. told \in [Books!Cell -> Nat] /\ snap \in [Books!Cell -> Nat]
      BY DEF Ledger, BookShape
    <2>2. \A c \in Books!Cell : told'[c] = told[c] + snap[c] /\ snap'[c] = 0
      BY <1>1, <2>1, SumOf DEF Books!Zero
    <2> QED
      BY <2>1, <2>2 DEF Seen
  <1>3. /\ Seen(RouteOk(i))' = Seen(RouteOk(i)) /\ Seen(Profit(i))' = Seen(Profit(i))
        /\ Seen(NoProfit(i))' = Seen(NoProfit(i))
    <2>1. /\ Seen(RouteOk(i))' = told'[RouteOk(i)] + snap'[RouteOk(i)]
          /\ Seen(Profit(i))' = told'[Profit(i)] + snap'[Profit(i)]
          /\ Seen(NoProfit(i))' = told'[NoProfit(i)] + snap'[NoProfit(i)]
      BY DEF Seen, RouteOk, Profit, NoProfit
    <2> QED
      BY <1>2, <2>1, VerdictCells
  <1>4. Before(i)' = Before(i) /\ Before(i) \in Nat /\ taken >= Before(i) + 5
    BY <1>1, WhereVerdicts, CellCount DEF Before
  <1>5. Lag(i)
    BY DEF Lags
  <1>6. RouteOk(i)' = RouteOk(i) /\ Profit(i)' = Profit(i) /\ NoProfit(i)' = NoProfit(i)
    BY DEF RouteOk, Profit, NoProfit
  <1>7. Seen(RouteOk(i)) <= Seen(Profit(i)) + Seen(NoProfit(i)) + 1
    BY <1>4, <1>5 DEF Lag
  <1>8. taken' = 0
    BY <1>1
  <1> QED
    BY ONLY <1>3, <1>4, <1>6, <1>7, <1>8 DEF Lag

LEMMA LagsNext == Ledger /\ Verdicts /\ Lags /\ [Next]_vars => Lags'
  <1> SUFFICES ASSUME Ledger, Verdicts, Lags, [Next]_vars
               PROVE  Lags'
    OBVIOUS
  <1>1. CASE scan /\ UNCHANGED <<taken, snap, acc, windows, told, summed>>
    BY <1>1, ScanCounts, LagsScan
  <1>2. CASE Books!reporter
    BY <1>2, LagsSwap, LagsReport DEF Books!reporter
  <1>3. CASE UNCHANGED vars
    BY <1>3 DEF vars, bookVars, Lags, Lag, Seen, Before, RouteOk, Profit, NoProfit
  <1> QED
    BY <1>1, <1>2, <1>3 DEF Next

\* At the end of a window nothing is taken, so what was seen was told.
LEMMA LagsTold == Ledger /\ Lags => VerdictsKeepUp
  <1> SUFFICES ASSUME Ledger, Lags, taken = 0, NEW i \in DOMAIN Mints
               PROVE  told[RouteOk(i)] <= told[Profit(i)] + told[NoProfit(i)] + 1
    BY DEF VerdictsKeepUp, Books!VerdictsKeepUp, RouteOk, Profit, NoProfit
  <1>1. \A n \in 0 .. Books!Cells - 1 : snap[Books!CellAt(n)] = 0
    BY DEF Ledger, Untaken
  <1>2. {Before(i) + 1, Before(i) + 3, Before(i) + 4} \subseteq 0 .. Books!Cells - 1
    BY WhereVerdicts, CellCount
  <1>3. snap[RouteOk(i)] = 0 /\ snap[Profit(i)] = 0 /\ snap[NoProfit(i)] = 0
    BY <1>1, <1>2, WhereVerdicts
  <1>4. told[RouteOk(i)] \in Nat /\ told[Profit(i)] \in Nat /\ told[NoProfit(i)] \in Nat
    BY VerdictCells DEF Ledger, BookShape
  <1>5. Seen(RouteOk(i)) <= Seen(Profit(i)) + Seen(NoProfit(i)) + 1
    BY WhereVerdicts DEF Lags, Lag
  <1> QED
    BY ONLY <1>3, <1>4, <1>5 DEF Seen

-----------------------------------------------------------------------------
\* Every variable has its type.

Counters == met \in [Global -> Nat]

LEMMA CountersInit == Init => Counters
  BY DEF Init, Counters

LEMMA CountersNext == Counters /\ [Next]_vars => Counters'
  <1> SUFFICES ASSUME Counters, [Next]_vars
               PROVE  Counters'
    OBVIOUS
  <1>1. \A S : Counted(S) => Counters'
    BY DEF Counted, Counters
  <1>2. ASSUME NEW e \in Entry, quote_check(e) \/ DropResult(e) \/ Merge(e)
        PROVE  Counters'
    <2>1. CASE Begin(e)
      BY <2>1 DEF Begin, Counters, Global
    <2>2. CASE Fails(e) \/ Leg1(e) \/ Merge(e)
      BY <2>2 DEF Fails, Leg1, Merge, Counters
    <2>3. CASE Leg2(e) \/ DropResult(e)
      BY <1>1, <2>3 DEF Leg2, DropResult
    <2>4. CASE Judge(e)
      <3>1. UNCHANGED met \/ Counted({"dropped_same_pool"}) \/ Counted({"metis_resp_ok"})
        BY <2>4 DEF Judge, NotProfitable, SamePool, Profitable
      <3> QED
        BY <1>1, <3>1 DEF Counters
    <2> QED
      BY <1>2, <2>1, <2>2, <2>3, <2>4 DEF quote_check
  <1>3. CASE UNCHANGED met
    BY <1>3 DEF Counters
  <1> QED
    BY <1>2, <1>3 DEF Next, scan, vars

LEMMA Types == Checks /\ Ledger /\ Counters => TypeOK
  <1> SUFFICES ASSUME Checks, Ledger, Counters
               PROVE  TypeOK
    OBVIOUS
  <1>1. ASSUME NEW e \in Entry
        PROVE  merged[e] = None <=> step[e] # "merged"
    <2>1. CASE step[e] = "merged"
      <3>1. merged[e].floor = amount + Fees
        <4>1. merged[e] = merge_quotes(e, amount + Fees)
          BY <2>1 DEF Checks, Judged
        <4>2. merge_quotes(e, amount + Fees).floor = amount + Fees
          BY DEF merge_quotes
        <4> QED
          BY ONLY <4>1, <4>2
      <3>2. amount + Fees # 0
        BY ONLY Numbers
      <3>3. None.floor = 0
        BY DEF None
      <3>4. merged[e].floor # None.floor
        BY ONLY <3>1, <3>2, <3>3
      <3>5. merged[e] # None
        BY ONLY <3>4
      <3> QED
        BY ONLY <2>1, <3>5
    <2>2. CASE step[e] # "merged"
      BY <2>2 DEF Checks, Judged
    <2> QED
      BY <2>1, <2>2
  <1>2. \A e \in Entry : {leg1[e], leg2[e]} \subseteq Plan[e] \cup {NoPlan}
    BY DEF Checks, Judged
  <1> QED
    BY <1>1, <1>2 DEF TypeOK, Checks, Shape, Step, Ledger, BookShape, Counters

-----------------------------------------------------------------------------
\* What a counter of all tokens together is worth.

Summing(f, k, n, sum) == [i \in 0 .. n |-> IF i = 0 THEN 0 ELSE sum[i - 1] + f[<<i, k>>]]
SumFn(f, k) == CHOOSE sum : sum = Summing(f, k, Len(Mints), sum)
SumUp(f, k) == SumFn(f, k)[Len(Mints)]

LEMMA SumIs == \A k : Sum(k) = SumUp(total, k)
  BY DEF Sum, SumUp, SumFn, Summing

LEMMA SumIsThen == \A k : Sum(k)' = SumUp(total', k)
  BY DEF Sum, SumUp, SumFn, Summing

LEMMA SummingExists ==
    ASSUME NEW f, NEW k, NEW n \in Nat
    PROVE  \E sum : sum = Summing(f, k, n, sum)
  <1> DEFINE S == { m \in Nat : \E sum : sum = Summing(f, k, m, sum) }
  <1>1. 0 \in S
    <2> DEFINE sum == [i \in 0 .. 0 |-> 0]
    <2>1. sum = Summing(f, k, 0, sum)
      BY DEF Summing
    <2> QED
      BY <2>1
  <1>2. ASSUME NEW m \in Nat, m \in S
        PROVE  m + 1 \in S
    <2>1. PICK sum : sum = Summing(f, k, m, sum)
      BY <1>2
    <2> DEFINE more == [i \in 0 .. m + 1 |-> IF i <= m THEN sum[i] ELSE sum[i - 1] + f[<<i, k>>]]
    <2>2. \A i \in 0 .. m : more[i] = sum[i] /\ sum[i] = IF i = 0 THEN 0 ELSE sum[i - 1] + f[<<i, k>>]
      BY <2>1 DEF Summing
    <2>3. \A i \in 0 .. m + 1 : more[i] = IF i = 0 THEN 0 ELSE more[i - 1] + f[<<i, k>>]
      <3> SUFFICES ASSUME NEW i \in 0 .. m + 1
                   PROVE  more[i] = IF i = 0 THEN 0 ELSE more[i - 1] + f[<<i, k>>]
        OBVIOUS
      <3>1. CASE i = 0
        <4>1. 0 \in 0 .. m /\ 0 \in 0 .. m + 1
          OBVIOUS
        <4> HIDE DEF more
        <4>2. more[0] = 0
          BY ONLY <2>2, <4>1
        <4> QED
          BY ONLY <3>1, <4>2
      <3>2. CASE i # 0 /\ i <= m
        <4>1. i \in 0 .. m /\ i - 1 \in 0 .. m
          BY <3>2
        <4> HIDE DEF more
        <4> QED
          BY <2>2, <3>2, <4>1
      <3>3. CASE i = m + 1
        <4>1. m \in 0 .. m /\ i - 1 = m /\ i # 0
          BY <3>3
        <4>2. more[i] = sum[i - 1] + f[<<i, k>>]
          BY <3>3
        <4>3. more[i - 1] = sum[i - 1]
          BY ONLY <2>2, <4>1
        <4> QED
          BY ONLY <4>1, <4>2, <4>3
      <3> QED
        BY <3>1, <3>2, <3>3
    <2>4. more = Summing(f, k, m + 1, more)
      <3> DEFINE other == Summing(f, k, m + 1, more)
      <3>1. more = [i \in 0 .. m + 1 |-> more[i]] /\ other = [i \in 0 .. m + 1 |-> other[i]]
        BY DEF Summing
      <3>2. \A i \in 0 .. m + 1 : other[i] = IF i = 0 THEN 0 ELSE more[i - 1] + f[<<i, k>>]
        BY DEF Summing
      <3> HIDE DEF more, other
      <3>3. more = other
        BY <2>3, <3>1, <3>2
      <3> QED
        BY <3>3 DEF other
    <2> QED
      BY <2>4
  <1>3. Nat \subseteq S
    <2> HIDE DEF S
    <2> QED
      BY <1>1, <1>2, Induct
  <1> QED
    BY <1>3

LEMMA SumSteps ==
    ASSUME NEW f, NEW k
    PROVE  /\ SumFn(f, k)[0] = 0
           /\ \A i \in 1 .. Len(Mints) : SumFn(f, k)[i] = SumFn(f, k)[i - 1] + f[<<i, k>>]
  <1>1. Len(Mints) \in Nat
    BY MintList
  <1>2. SumFn(f, k) = Summing(f, k, Len(Mints), SumFn(f, k))
    <2> DEFINE sum == CHOOSE s : s = Summing(f, k, Len(Mints), s)
    <2>1. sum = Summing(f, k, Len(Mints), sum)
      BY <1>1, SummingExists
    <2> QED
      BY ONLY <2>1, Zenon DEF SumFn
  <1> DEFINE sum == SumFn(f, k)
  <1>3. sum = Summing(f, k, Len(Mints), sum)
    BY <1>2
  <1> HIDE DEF sum
  <1>4. \A i \in 0 .. Len(Mints) : sum[i] = IF i = 0 THEN 0 ELSE sum[i - 1] + f[<<i, k>>]
    BY <1>3 DEF Summing
  <1>5. sum[0] = 0
    <2>1. 0 \in 0 .. Len(Mints)
      BY <1>1
    <2> QED
      BY ONLY <1>4, <2>1
  <1>6. ASSUME NEW i \in 1 .. Len(Mints)
        PROVE  sum[i] = sum[i - 1] + f[<<i, k>>]
    <2>1. i \in 0 .. Len(Mints) /\ i # 0
      BY <1>1
    <2> QED
      BY ONLY <1>4, <2>1
  <1> QED
    BY <1>5, <1>6 DEF sum

\* A sum grows by what one of its terms grows by.
LEMMA SumGrows ==
    ASSUME NEW f, NEW g, NEW k, NEW p \in DOMAIN Mints, NEW d \in Nat,
           \A i \in DOMAIN Mints : f[<<i, k>>] \in Nat,
           g[<<p, k>>] = f[<<p, k>>] + d,
           \A i \in DOMAIN Mints : i # p => g[<<i, k>>] = f[<<i, k>>]
    PROVE  SumUp(f, k) \in Nat /\ SumUp(g, k) = SumUp(f, k) + d
  <1> DEFINE F == SumFn(f, k)
             G == SumFn(g, k)
  <1>1. /\ Len(Mints) \in Nat /\ DOMAIN Mints = 1 .. Len(Mints)
        /\ F[0] = 0 /\ \A i \in 1 .. Len(Mints) : F[i] = F[i - 1] + f[<<i, k>>]
        /\ G[0] = 0 /\ \A i \in 1 .. Len(Mints) : G[i] = G[i - 1] + g[<<i, k>>]
    BY MintList, SumSteps
  <1> HIDE DEF F, G
  <1> DEFINE S == { n \in Nat : n <= Len(Mints) =>
                       F[n] \in Nat /\ G[n] = F[n] + (IF p <= n THEN d ELSE 0) }
  <1>2. 0 \in S
    <2>1. ~(p <= 0)
      BY <1>1
    <2> QED
      BY <1>1, <2>1
  <1>3. ASSUME NEW n \in Nat, n \in S
        PROVE  n + 1 \in S
    <2> SUFFICES ASSUME n + 1 <= Len(Mints)
                 PROVE  F[n + 1] \in Nat /\ G[n + 1] = F[n + 1] + (IF p <= n + 1 THEN d ELSE 0)
      OBVIOUS
    <2>1. n + 1 \in 1 .. Len(Mints) /\ (n + 1) - 1 = n /\ n <= Len(Mints)
      BY <1>1
    <2>2. F[n] \in Nat /\ G[n] = F[n] + (IF p <= n THEN d ELSE 0)
      BY <1>3, <2>1
    <2>3. F[n + 1] = F[n] + f[<<n + 1, k>>] /\ G[n + 1] = G[n] + g[<<n + 1, k>>]
      BY ONLY <1>1, <2>1
    <2>4. f[<<n + 1, k>>] \in Nat /\ (p = n + 1 => g[<<n + 1, k>>] = f[<<n + 1, k>>] + d)
          /\ (p # n + 1 => g[<<n + 1, k>>] = f[<<n + 1, k>>])
      BY <1>1, <2>1
    <2> HIDE DEF S
    <2>5. p \in Nat
      BY <1>1
    <2> QED
      BY ONLY <2>2, <2>3, <2>4, <2>5, n \in Nat, d \in Nat
  <1>4. Nat \subseteq S
    <2> HIDE DEF S
    <2> QED
      BY <1>2, <1>3, Induct
  <1>5. F[Len(Mints)] \in Nat /\ G[Len(Mints)] = F[Len(Mints)] + d
    <2>1. Len(Mints) \in Nat /\ p <= Len(Mints) /\ Len(Mints) <= Len(Mints)
      BY <1>1
    <2>2. Len(Mints) \in S
      BY ONLY <1>4, <2>1
    <2> QED
      BY <2>1, <2>2
  <1> QED
    BY <1>5 DEF SumUp, F, G

LEMMA SumTyped ==
    ASSUME NEW f, NEW k, \A i \in DOMAIN Mints : f[<<i, k>>] \in Nat
    PROVE  SumUp(f, k) \in Nat
  <1>1. CASE DOMAIN Mints = {}
    <2>1. Len(Mints) = 0
      BY <1>1, MintList
    <2> QED
      BY <2>1, SumSteps DEF SumUp
  <1>2. CASE DOMAIN Mints # {}
    <2>1. PICK p \in DOMAIN Mints : TRUE
      BY <1>2
    <2> PICK g : g = f
      OBVIOUS
    <2> PICK d \in Nat : d = 0
      OBVIOUS
    <2>2. /\ \A i \in DOMAIN Mints : f[<<i, k>>] \in Nat
          /\ g[<<p, k>>] = f[<<p, k>>] + d
          /\ \A i \in DOMAIN Mints : i # p => g[<<i, k>>] = f[<<i, k>>]
      OBVIOUS
    <2>3. SumUp(f, k) \in Nat /\ SumUp(g, k) = SumUp(f, k) + d
      BY ONLY <2>2, SumGrows, p \in DOMAIN Mints, d \in Nat
    <2> QED
      BY ONLY <2>3
  <1> QED
    BY <1>1, <1>2

\* A mint of the list has one position: its last.
LEMMA OnePosition ==
    ASSUME NEW mint \in ToSet(Mints)
    PROVE  \E p \in DOMAIN Mints : Books!get(mint) = {p}
  <1>1. Len(Mints) \in Nat /\ DOMAIN Mints = 1 .. Len(Mints)
    BY MintList
  <1>2. PICK i \in DOMAIN Mints : Mints[i] = mint
    BY DEF ToSet
  <1> DEFINE T == { n \in Nat : \A j \in DOMAIN Mints : Mints[j] = mint => j <= n }
  <1>3. Len(Mints) \in T
    BY <1>1
  <1>4. PICK p \in T : \A n \in T : p <= n
    <2>1. T \subseteq Nat /\ T # {}
      BY <1>3
    <2> HIDE DEF T
    <2> QED
      BY <2>1, Least
  <1>5. p \in Nat /\ i <= p /\ p <= Len(Mints) /\ p \in DOMAIN Mints
    BY <1>1, <1>2, <1>3, <1>4
  <1>6. Mints[p] = mint
    <2> SUFFICES ASSUME Mints[p] # mint PROVE FALSE
      OBVIOUS
    <2>1. p - 1 \in T
      BY <1>1, <1>5
    <2>2. ~(p <= p - 1)
      BY <1>5
    <2> QED
      BY <1>4, <2>1, <2>2
  <1>7. \A j \in DOMAIN Mints : Mints[j] = mint => j <= p
    BY <1>4
  <1>8. ASSUME NEW j \in Books!get(mint)
        PROVE  j = p
    <2>1. j \in DOMAIN Mints /\ Mints[j] = mint /\ p <= j
      BY <1>5, <1>6 DEF Books!get
    <2> QED
      BY <1>1, <1>5, <1>7, <2>1
  <1>9. p \in Books!get(mint)
    BY <1>5, <1>6, <1>7 DEF Books!get
  <1> QED
    BY <1>5, <1>8, <1>9

-----------------------------------------------------------------------------
\* How many checks are where.

LEMMA Places ==
    ASSUME NEW S
    PROVE  IsFiniteSet({ e \in Entry : step[e] \in S }) /\ InStep(S) \in Nat
  <1>1. IsFiniteSet(Entry)
    BY DEF QuotesAssumption
  <1>2. IsFiniteSet({ e \in Entry : step[e] \in S })
    BY <1>1, FS_Subset
  <1> QED
    BY <1>2, FS_CardinalityType DEF InStep

One(b) == IF b THEN 1 ELSE 0

LEMMA Moved ==
    ASSUME Checks, NEW e \in Entry, NEW s \in Step, Goto(e, s), NEW S
    PROVE  InStep(S)' = InStep(S) - One(step[e] \in S) + One(s \in S)
  <1> DEFINE A == { f \in Entry : step[f] \in S }
             B == { f \in Entry : step'[f] \in S }
  <1>1. step'[e] = s /\ \A f \in Entry \ {e} : step'[f] = step[f]
    BY DEF Goto, Checks, Shape
  <1>2. IsFiniteSet(A) /\ InStep(S) = Cardinality(A) /\ Cardinality(A) \in Nat
    BY Places DEF InStep
  <1>3. InStep(S)' = Cardinality(B)
    BY DEF InStep
  <1>4. (e \in A <=> step[e] \in S) /\ (e \in B <=> s \in S)
    BY <1>1
  <1>5. A \ {e} = B \ {e}
    BY <1>1
  <1> HIDE DEF A, B
  <1>6. CASE e \in A /\ e \in B
    <2>1. A = B
      BY ONLY <1>5, <1>6
    <2> QED
      BY <1>2, <1>3, <1>4, <1>6, <2>1 DEF One
  <1>7. CASE e \notin A /\ e \notin B
    <2>1. A = B
      BY ONLY <1>5, <1>7
    <2> QED
      BY <1>2, <1>3, <1>4, <1>7, <2>1 DEF One
  <1>8. CASE e \in A /\ e \notin B
    <2>1. B = A \ {e}
      BY <1>5, <1>8
    <2>2. Cardinality(B) = Cardinality(A) - 1
      BY <1>2, <1>8, <2>1, FS_RemoveElement
    <2> QED
      BY <1>2, <1>3, <1>4, <1>8, <2>2 DEF One
  <1>9. CASE e \notin A /\ e \in B
    <2>1. B = A \cup {e}
      BY <1>5, <1>9
    <2>2. Cardinality(B) = Cardinality(A) + 1
      BY <1>2, <1>9, <2>1, FS_AddElement
    <2> QED
      BY <1>2, <1>3, <1>4, <1>9, <2>2 DEF One
  <1> QED
    BY <1>6, <1>7, <1>8, <1>9

LEMMA Unmoved ==
    ASSUME UNCHANGED step, NEW S
    PROVE  InStep(S)' = InStep(S)
  BY DEF InStep

-----------------------------------------------------------------------------
\* What a count does to the totals.

LEMMA SumsTyped == BookShape => \A k \in Books!Counter : Sum(k) \in Nat
  <1> SUFFICES ASSUME BookShape, NEW k \in Books!Counter
               PROVE  Sum(k) \in Nat
    OBVIOUS
  <1>1. \A i \in DOMAIN Mints : total[<<i, k>>] \in Nat
    BY DEF BookShape, Books!Cell
  <1> QED
    BY <1>1, SumTyped, SumIs

LEMMA CountSums ==
    ASSUME BookShape, NEW e \in Entry, NEW counter \in Books!Counter, NEW n \in Nat,
           Books!Count(MintOf[e], counter, n)
    PROVE  /\ Sum(counter)' = Sum(counter) + n
           /\ \A k \in Books!Counter \ {counter} : Sum(k)' = Sum(k)
  <1>0. MintOf[e] \in ToSet(Mints)
    BY DEF QuotesAssumption
  <1>1. PICK p \in DOMAIN Mints : Books!get(MintOf[e]) = {p}
    BY <1>0, OnePosition
  <1>2. Raised(total, total', MintOf[e], counter, n)
    BY CountRaises
  <1> DEFINE f == total
             g == total'
  <1>3. \A i \in DOMAIN Mints, k \in Books!Counter :
           /\ f[<<i, k>>] \in Nat
           /\ i = p /\ k = counter => g[<<i, k>>] = f[<<i, k>>] + n
           /\ ~(i = p /\ k = counter) => g[<<i, k>>] = f[<<i, k>>]
    BY <1>1, <1>2 DEF Raised, BookShape, Books!Cell
  <1> HIDE DEF f, g
  <1>4. SumUp(g, counter) = SumUp(f, counter) + n
    <2>1. /\ \A i \in DOMAIN Mints : f[<<i, counter>>] \in Nat
          /\ g[<<p, counter>>] = f[<<p, counter>>] + n
          /\ \A i \in DOMAIN Mints : i # p => g[<<i, counter>>] = f[<<i, counter>>]
      BY <1>3
    <2>2. SumUp(f, counter) \in Nat /\ SumUp(g, counter) = SumUp(f, counter) + n
      BY ONLY <2>1, SumGrows, p \in DOMAIN Mints, n \in Nat
    <2> QED
      BY <2>2
  <1>5. ASSUME NEW k \in Books!Counter \ {counter}
        PROVE  SumUp(g, k) = SumUp(f, k)
    <2>1. /\ \A i \in DOMAIN Mints : f[<<i, k>>] \in Nat
          /\ g[<<p, k>>] = f[<<p, k>>] + 0
          /\ \A i \in DOMAIN Mints : i # p => g[<<i, k>>] = f[<<i, k>>]
      BY <1>3
    <2>2. SumUp(f, k) \in Nat /\ SumUp(g, k) = SumUp(f, k) + 0
      BY ONLY <2>1, SumGrows, p \in DOMAIN Mints, 0 \in Nat
    <2> QED
      BY <2>2
  <1> QED
    BY <1>4, <1>5, SumIs, SumIsThen DEF f, g

LEMMA SumsStay ==
    ASSUME UNCHANGED total
    PROVE  \A k : Sum(k)' = Sum(k)
  BY SumIs, SumIsThen

-----------------------------------------------------------------------------
\* The two sets of books, with the checks that are between two of their counts.

Agreed ==
    /\ met["metis_req_sent"] = Sum("q_sent")
    /\ met["metis_resp_total"] = Sum("route_ok")
    /\ met["metis_resp_ok"] = Sum("profitable")
    /\ met["dropped_same_pool"] <= Sum("not_profitable")
    /\ Sum("route_ok") = Sum("profitable") + Sum("not_profitable") + InStep({"judging"})
    /\ Sum("q_sent") = 2 * (Sum("route_ok") + Sum("route_fail") + InStep({"leg1", "leg2"}))
    /\ Sum("profitable") = InStep({"merged"}) + InStep({"candidate"})
                           + met["dropped_multi_hop"] + met["dropped_merge_fail"]

LEMMA AgreedInit == Init => Agreed
  <1> SUFFICES ASSUME Init
               PROVE  Agreed
    OBVIOUS
  <1>1. ASSUME NEW k \in Books!Counter
        PROVE  Sum(k) = 0
    <2> DEFINE F == SumFn(total, k)
               S == { n \in Nat : n <= Len(Mints) => F[n] = 0 }
    <2>1. \A i \in DOMAIN Mints : total[<<i, k>>] = 0
      BY DEF Init, Books!BooksInit, Books!Zero, Books!Cell
    <2>2. Len(Mints) \in Nat /\ DOMAIN Mints = 1 .. Len(Mints)
      BY MintList
    <2>3. F[0] = 0 /\ \A i \in 1 .. Len(Mints) : F[i] = F[i - 1] + total[<<i, k>>]
      BY SumSteps
    <2> HIDE DEF F
    <2>4. 0 \in S
      BY <2>3
    <2>5. ASSUME NEW n \in Nat, n \in S
          PROVE  n + 1 \in S
      <3> SUFFICES ASSUME n + 1 <= Len(Mints)
                   PROVE  F[n + 1] = 0
        OBVIOUS
      <3>1. n + 1 \in 1 .. Len(Mints) /\ (n + 1) - 1 = n /\ n <= Len(Mints)
        BY <2>2
      <3>2. F[n + 1] = F[n] + total[<<n + 1, k>>] /\ total[<<n + 1, k>>] = 0
        BY ONLY <2>1, <2>2, <2>3, <3>1
      <3>3. F[n] = 0
        BY <2>5, <3>1
      <3> QED
        BY <3>2, <3>3
    <2>6. Nat \subseteq S
      <3> HIDE DEF S
      <3> QED
        BY <2>4, <2>5, Induct
    <2>7. F[Len(Mints)] = 0
      <3>1. Len(Mints) \in S /\ Len(Mints) <= Len(Mints)
        BY <2>2, <2>6
      <3> QED
        BY <3>1
    <2> QED
      BY <2>7, SumIs DEF SumUp, F
  <1>2. ASSUME NEW S, "listed" \notin S
        PROVE  InStep(S) = 0
    <2>1. { e \in Entry : step[e] \in S } = {}
      BY <1>2 DEF Init
    <2> QED
      BY <2>1, FS_EmptySet DEF InStep
  <1>3. InStep({"judging"}) = 0 /\ InStep({"leg1", "leg2"}) = 0 /\ InStep({"merged"}) = 0
        /\ InStep({"candidate"}) = 0
    BY <1>2
  <1>4. \A g \in Global : met[g] = 0
    BY DEF Init
  <1> QED
    BY <1>1, <1>3, <1>4 DEF Agreed, Global, Books!Counter

LEMMA PlacesMoved ==
    ASSUME Checks, NEW e \in Entry, NEW s \in Step, Goto(e, s)
    PROVE  /\ InStep({"leg1", "leg2"})' = InStep({"leg1", "leg2"})
                 - One(step[e] \in {"leg1", "leg2"}) + One(s \in {"leg1", "leg2"})
           /\ InStep({"judging"})' = InStep({"judging"}) - One(step[e] \in {"judging"}) + One(s \in {"judging"})
           /\ InStep({"candidate"})' = InStep({"candidate"})
                 - One(step[e] \in {"candidate"}) + One(s \in {"candidate"})
           /\ InStep({"merged"})' = InStep({"merged"}) - One(step[e] \in {"merged"}) + One(s \in {"merged"})
  BY Moved

LEMMA Whole ==
    BookShape /\ Counters =>
        /\ Sum("q_sent") \in Nat /\ Sum("route_ok") \in Nat /\ Sum("route_fail") \in Nat
        /\ Sum("profitable") \in Nat /\ Sum("not_profitable") \in Nat
        /\ InStep({"leg1", "leg2"}) \in Nat /\ InStep({"judging"}) \in Nat
        /\ InStep({"candidate"}) \in Nat /\ InStep({"merged"}) \in Nat
        /\ \A g \in Global : met[g] \in Nat
  <1> SUFFICES ASSUME BookShape, Counters
               PROVE  /\ Sum("q_sent") \in Nat /\ Sum("route_ok") \in Nat /\ Sum("route_fail") \in Nat
                      /\ Sum("profitable") \in Nat /\ Sum("not_profitable") \in Nat
                      /\ InStep({"leg1", "leg2"}) \in Nat /\ InStep({"judging"}) \in Nat
                      /\ InStep({"candidate"}) \in Nat /\ InStep({"merged"}) \in Nat
                      /\ \A g \in Global : met[g] \in Nat
    OBVIOUS
  <1>1. \A k \in {"q_sent", "route_ok", "route_fail", "profitable", "not_profitable"} : Sum(k) \in Nat
    BY SumsTyped DEF Books!Counter
  <1>2. \A S : InStep(S) \in Nat
    BY Places
  <1>3. \A g \in Global : met[g] \in Nat
    BY DEF Counters
  <1> QED
    BY ONLY <1>1, <1>2, <1>3

\* A counter of a token counts, and no other does.
LEMMA SumsCount ==
    ASSUME BookShape, NEW e \in Entry, NEW counter \in Books!Counter, NEW n \in Nat,
           Books!Count(MintOf[e], counter, n)
    PROVE  /\ Sum("q_sent")' = Sum("q_sent") + (IF counter = "q_sent" THEN n ELSE 0)
           /\ Sum("route_ok")' = Sum("route_ok") + (IF counter = "route_ok" THEN n ELSE 0)
           /\ Sum("route_fail")' = Sum("route_fail") + (IF counter = "route_fail" THEN n ELSE 0)
           /\ Sum("profitable")' = Sum("profitable") + (IF counter = "profitable" THEN n ELSE 0)
           /\ Sum("not_profitable")' = Sum("not_profitable") + (IF counter = "not_profitable" THEN n ELSE 0)
  <1>1. /\ Sum(counter)' = Sum(counter) + n
        /\ \A k \in Books!Counter \ {counter} : Sum(k)' = Sum(k)
    BY CountSums
  <1>2. \A k \in Books!Counter : Sum(k) \in Nat
    BY SumsTyped
  <1>3. ASSUME NEW k \in Books!Counter
        PROVE  Sum(k)' = Sum(k) + (IF counter = k THEN n ELSE 0)
    <2>1. CASE k = counter
      BY ONLY <1>1, <2>1
    <2>2. CASE k # counter
      <3>1. Sum(k)' = Sum(k) /\ Sum(k) \in Nat
        BY <1>1, <1>2, <2>2
      <3> QED
        BY ONLY <2>2, <3>1
    <2> QED
      BY <2>1, <2>2
  <1> QED
    BY <1>3 DEF Books!Counter

LEMMA MetCounts ==
    ASSUME Counters, NEW k \in Global, Counted({k})
    PROVE  met'[k] = met[k] + 1 /\ \A g \in Global \ {k} : met'[g] = met[g]
  BY DEF Counters, Counted

LEMMA AgreedScan ==
    ASSUME Checks, BookShape, Counters, Agreed,
           NEW e \in Entry, quote_check(e) \/ DropResult(e) \/ Merge(e)
    PROVE  Agreed'
  <1>0. {"listed", "leg1", "leg2", "judging", "candidate", "merged", "done"} = Step
    BY DEF Step
  <1> DEFINE Sums == /\ Sum("q_sent")' = Sum("q_sent") /\ Sum("route_ok")' = Sum("route_ok")
                     /\ Sum("route_fail")' = Sum("route_fail")
                     /\ Sum("profitable")' = Sum("profitable")
                     /\ Sum("not_profitable")' = Sum("not_profitable")
  <1>a. UNCHANGED total => Sums
    BY SumsStay
  <1> HIDE DEF Sums
  <1>1. CASE Begin(e)
    <2>1. /\ step[e] = "listed" /\ Goto(e, "leg1") /\ Books!Count(MintOf[e], "q_sent", 2)
          /\ met' = [met EXCEPT !["metis_req_sent"] = @ + 2]
      BY <1>1 DEF Begin
    <2>2. /\ InStep({"leg1", "leg2"})' = InStep({"leg1", "leg2"}) + 1
          /\ InStep({"judging"})' = InStep({"judging"})
          /\ InStep({"candidate"})' = InStep({"candidate"}) /\ InStep({"merged"})' = InStep({"merged"})
      BY <1>0, <2>1, PlacesMoved, Whole DEF One
    <2>3. /\ Sum("q_sent")' = Sum("q_sent") + 2 /\ Sum("route_ok")' = Sum("route_ok")
          /\ Sum("route_fail")' = Sum("route_fail")
          /\ Sum("profitable")' = Sum("profitable") /\ Sum("not_profitable")' = Sum("not_profitable")
      BY <2>1, SumsCount, Whole DEF Books!Counter
    <2>4. /\ met'["metis_req_sent"] = met["metis_req_sent"] + 2
          /\ \A g \in Global \ {"metis_req_sent"} : met'[g] = met[g]
      BY <2>1 DEF Counters, Global
    <2> QED
      BY ONLY Agreed, <2>2, <2>3, <2>4, Whole, BookShape, Counters DEF Agreed, Global
  <1>2. CASE Fails(e)
    <2>1. /\ (step[e] = "leg1" \/ step[e] = "leg2") /\ Goto(e, "done")
          /\ Books!Count(MintOf[e], "route_fail", 1)
          /\ UNCHANGED met
      BY <1>2 DEF Fails
    <2>2. /\ InStep({"leg1", "leg2"})' = InStep({"leg1", "leg2"}) - 1
          /\ InStep({"judging"})' = InStep({"judging"})
          /\ InStep({"candidate"})' = InStep({"candidate"})
          /\ InStep({"merged"})' = InStep({"merged"})
      BY <1>0, <2>1, PlacesMoved, Whole DEF One
    <2>3. /\ Sum("q_sent")' = Sum("q_sent")
          /\ Sum("route_ok")' = Sum("route_ok")
          /\ Sum("route_fail")' = Sum("route_fail") + 1
          /\ Sum("profitable")' = Sum("profitable")
          /\ Sum("not_profitable")' = Sum("not_profitable")
      BY <2>1, SumsCount, Whole DEF Books!Counter
    <2>4. \A g \in Global : met'[g] = met[g]
      BY <2>1
    <2> QED
      BY ONLY Agreed, <2>2, <2>3, <2>4, Whole, BookShape, Counters DEF Agreed, Global, Sums
  <1>3. CASE Leg1(e)
    <2>1. /\ step[e] = "leg1" /\ Goto(e, "leg2")
          /\ UNCHANGED total
          /\ UNCHANGED met
      BY <1>3 DEF Leg1
    <2>2. /\ InStep({"leg1", "leg2"})' = InStep({"leg1", "leg2"})
          /\ InStep({"judging"})' = InStep({"judging"})
          /\ InStep({"candidate"})' = InStep({"candidate"})
          /\ InStep({"merged"})' = InStep({"merged"})
      BY <1>0, <2>1, PlacesMoved, Whole DEF One
    <2>3. Sums
      BY <1>a, <2>1
    <2>4. \A g \in Global : met'[g] = met[g]
      BY <2>1
    <2> QED
      BY ONLY Agreed, <2>2, <2>3, <2>4, Whole, BookShape, Counters DEF Agreed, Global, Sums
  <1>4. CASE Leg2(e)
    <2>1. /\ step[e] = "leg2" /\ Goto(e, "judging")
          /\ Books!Count(MintOf[e], "route_ok", 1)
          /\ Counted({"metis_resp_total"})
      BY <1>4 DEF Leg2
    <2>2. /\ InStep({"leg1", "leg2"})' = InStep({"leg1", "leg2"}) - 1
          /\ InStep({"judging"})' = InStep({"judging"}) + 1
          /\ InStep({"candidate"})' = InStep({"candidate"})
          /\ InStep({"merged"})' = InStep({"merged"})
      BY <1>0, <2>1, PlacesMoved, Whole DEF One
    <2>3. /\ Sum("q_sent")' = Sum("q_sent")
          /\ Sum("route_ok")' = Sum("route_ok") + 1
          /\ Sum("route_fail")' = Sum("route_fail")
          /\ Sum("profitable")' = Sum("profitable")
          /\ Sum("not_profitable")' = Sum("not_profitable")
      BY <2>1, SumsCount, Whole DEF Books!Counter
    <2>4. /\ met'["metis_resp_total"] = met["metis_resp_total"] + 1
          /\ \A g \in Global \ {"metis_resp_total"} : met'[g] = met[g]
      BY <2>1, MetCounts DEF Global
    <2> QED
      BY ONLY Agreed, <2>2, <2>3, <2>4, Whole, BookShape, Counters DEF Agreed, Global, Sums
  <1>5. CASE Judge(e) /\ NotProfitable(e)
    <2>1. /\ step[e] = "judging" /\ Goto(e, "done")
          /\ Books!Count(MintOf[e], "not_profitable", 1)
          /\ UNCHANGED met
      BY <1>5 DEF Judge, NotProfitable
    <2>2. /\ InStep({"leg1", "leg2"})' = InStep({"leg1", "leg2"})
          /\ InStep({"judging"})' = InStep({"judging"}) - 1
          /\ InStep({"candidate"})' = InStep({"candidate"})
          /\ InStep({"merged"})' = InStep({"merged"})
      BY <1>0, <2>1, PlacesMoved, Whole DEF One
    <2>3. /\ Sum("q_sent")' = Sum("q_sent")
          /\ Sum("route_ok")' = Sum("route_ok")
          /\ Sum("route_fail")' = Sum("route_fail")
          /\ Sum("profitable")' = Sum("profitable")
          /\ Sum("not_profitable")' = Sum("not_profitable") + 1
      BY <2>1, SumsCount, Whole DEF Books!Counter
    <2>4. \A g \in Global : met'[g] = met[g]
      BY <2>1
    <2> QED
      BY ONLY Agreed, <2>2, <2>3, <2>4, Whole, BookShape, Counters DEF Agreed, Global, Sums
  <1>6. CASE Judge(e) /\ SamePool(e)
    <2>1. /\ step[e] = "judging" /\ Goto(e, "done")
          /\ Books!Count(MintOf[e], "not_profitable", 1)
          /\ Counted({"dropped_same_pool"})
      BY <1>6 DEF Judge, SamePool
    <2>2. /\ InStep({"leg1", "leg2"})' = InStep({"leg1", "leg2"})
          /\ InStep({"judging"})' = InStep({"judging"}) - 1
          /\ InStep({"candidate"})' = InStep({"candidate"})
          /\ InStep({"merged"})' = InStep({"merged"})
      BY <1>0, <2>1, PlacesMoved, Whole DEF One
    <2>3. /\ Sum("q_sent")' = Sum("q_sent")
          /\ Sum("route_ok")' = Sum("route_ok")
          /\ Sum("route_fail")' = Sum("route_fail")
          /\ Sum("profitable")' = Sum("profitable")
          /\ Sum("not_profitable")' = Sum("not_profitable") + 1
      BY <2>1, SumsCount, Whole DEF Books!Counter
    <2>4. /\ met'["dropped_same_pool"] = met["dropped_same_pool"] + 1
          /\ \A g \in Global \ {"dropped_same_pool"} : met'[g] = met[g]
      BY <2>1, MetCounts DEF Global
    <2> QED
      BY ONLY Agreed, <2>2, <2>3, <2>4, Whole, BookShape, Counters DEF Agreed, Global, Sums
  <1>7. CASE Judge(e) /\ Profitable(e)
    <2>1. /\ step[e] = "judging" /\ Goto(e, "candidate")
          /\ Books!Count(MintOf[e], "profitable", 1)
          /\ Counted({"metis_resp_ok"})
      BY <1>7 DEF Judge, Profitable
    <2>2. /\ InStep({"leg1", "leg2"})' = InStep({"leg1", "leg2"})
          /\ InStep({"judging"})' = InStep({"judging"}) - 1
          /\ InStep({"candidate"})' = InStep({"candidate"}) + 1
          /\ InStep({"merged"})' = InStep({"merged"})
      BY <1>0, <2>1, PlacesMoved, Whole DEF One
    <2>3. /\ Sum("q_sent")' = Sum("q_sent")
          /\ Sum("route_ok")' = Sum("route_ok")
          /\ Sum("route_fail")' = Sum("route_fail")
          /\ Sum("profitable")' = Sum("profitable") + 1
          /\ Sum("not_profitable")' = Sum("not_profitable")
      BY <2>1, SumsCount, Whole DEF Books!Counter
    <2>4. /\ met'["metis_resp_ok"] = met["metis_resp_ok"] + 1
          /\ \A g \in Global \ {"metis_resp_ok"} : met'[g] = met[g]
      BY <2>1, MetCounts DEF Global
    <2> QED
      BY ONLY Agreed, <2>2, <2>3, <2>4, Whole, BookShape, Counters DEF Agreed, Global, Sums
  <1>8. CASE DropResult(e) /\ Counted({"dropped_multi_hop"})
    <2>1. /\ step[e] = "candidate" /\ Goto(e, "done")
          /\ UNCHANGED total
          /\ Counted({"dropped_multi_hop"})
      BY <1>8 DEF DropResult
    <2>2. /\ InStep({"leg1", "leg2"})' = InStep({"leg1", "leg2"})
          /\ InStep({"judging"})' = InStep({"judging"})
          /\ InStep({"candidate"})' = InStep({"candidate"}) - 1
          /\ InStep({"merged"})' = InStep({"merged"})
      BY <1>0, <2>1, PlacesMoved, Whole DEF One
    <2>3. Sums
      BY <1>a, <2>1
    <2>4. /\ met'["dropped_multi_hop"] = met["dropped_multi_hop"] + 1
          /\ \A g \in Global \ {"dropped_multi_hop"} : met'[g] = met[g]
      BY <2>1, MetCounts DEF Global
    <2>5. /\ met'["metis_req_sent"] = met["metis_req_sent"]
          /\ met'["metis_resp_total"] = met["metis_resp_total"]
          /\ met'["metis_resp_ok"] = met["metis_resp_ok"]
          /\ met'["dropped_same_pool"] = met["dropped_same_pool"]
          /\ met'["dropped_merge_fail"] = met["dropped_merge_fail"]
      BY ONLY <2>4 DEF Global
    <2>6. met["dropped_multi_hop"] \in Nat /\ met["dropped_merge_fail"] \in Nat
      BY Whole DEF Global
    <2>7. InStep({"candidate"}) \in Nat /\ InStep({"merged"}) \in Nat
      BY Whole
    <2> QED
      BY ONLY Agreed, <2>2, <2>3, <2>4, <2>5, <2>6, <2>7 DEF Agreed, Sums
  <1>9. CASE DropResult(e) /\ Counted({"dropped_merge_fail"})
    <2>1. /\ step[e] = "candidate" /\ Goto(e, "done")
          /\ UNCHANGED total
          /\ Counted({"dropped_merge_fail"})
      BY <1>9 DEF DropResult
    <2>2. /\ InStep({"leg1", "leg2"})' = InStep({"leg1", "leg2"})
          /\ InStep({"judging"})' = InStep({"judging"})
          /\ InStep({"candidate"})' = InStep({"candidate"}) - 1
          /\ InStep({"merged"})' = InStep({"merged"})
      BY <1>0, <2>1, PlacesMoved, Whole DEF One
    <2>3. Sums
      BY <1>a, <2>1
    <2>4. /\ met'["dropped_merge_fail"] = met["dropped_merge_fail"] + 1
          /\ \A g \in Global \ {"dropped_merge_fail"} : met'[g] = met[g]
      BY <2>1, MetCounts DEF Global
    <2>5. /\ met'["metis_req_sent"] = met["metis_req_sent"]
          /\ met'["metis_resp_total"] = met["metis_resp_total"]
          /\ met'["metis_resp_ok"] = met["metis_resp_ok"]
          /\ met'["dropped_same_pool"] = met["dropped_same_pool"]
          /\ met'["dropped_multi_hop"] = met["dropped_multi_hop"]
      BY ONLY <2>4 DEF Global
    <2>6. met["dropped_multi_hop"] \in Nat /\ met["dropped_merge_fail"] \in Nat
      BY Whole DEF Global
    <2>7. InStep({"candidate"}) \in Nat /\ InStep({"merged"}) \in Nat
      BY Whole
    <2> QED
      BY ONLY Agreed, <2>2, <2>3, <2>4, <2>5, <2>6, <2>7 DEF Agreed, Sums
  <1>10. CASE Merge(e)
    <2>1. /\ step[e] = "candidate" /\ Goto(e, "merged")
          /\ UNCHANGED total
          /\ UNCHANGED met
      BY <1>10 DEF Merge
    <2>2. /\ InStep({"leg1", "leg2"})' = InStep({"leg1", "leg2"})
          /\ InStep({"judging"})' = InStep({"judging"})
          /\ InStep({"candidate"})' = InStep({"candidate"}) - 1
          /\ InStep({"merged"})' = InStep({"merged"}) + 1
      BY <1>0, <2>1, PlacesMoved, Whole DEF One
    <2>3. Sums
      BY <1>a, <2>1
    <2>4. \A g \in Global : met'[g] = met[g]
      BY <2>1
    <2> QED
      BY ONLY Agreed, <2>2, <2>3, <2>4, Whole, BookShape, Counters DEF Agreed, Global, Sums
  <1>11. Judge(e) => NotProfitable(e) \/ SamePool(e) \/ Profitable(e)
    BY DEF Judge
  <1>12. DropResult(e) => Counted({"dropped_multi_hop"}) \/ Counted({"dropped_merge_fail"})
    BY DEF DropResult
  <1> QED
    BY <1>1, <1>2, <1>3, <1>4, <1>5, <1>6, <1>7, <1>8, <1>9, <1>10, <1>11, <1>12 DEF quote_check

LEMMA AgreedNext == Checks /\ Ledger /\ Counters /\ Agreed /\ [Next]_vars => Agreed'
  <1> SUFFICES ASSUME Checks, Ledger, Counters, Agreed, [Next]_vars
               PROVE  Agreed'
    OBVIOUS
  <1>1. CASE scan
    BY <1>1, AgreedScan DEF scan, Ledger
  <1>2. CASE UNCHANGED <<total, met, step>>
    <2>1. /\ Sum("q_sent")' = Sum("q_sent") /\ Sum("route_ok")' = Sum("route_ok")
          /\ Sum("route_fail")' = Sum("route_fail")
          /\ Sum("profitable")' = Sum("profitable")
          /\ Sum("not_profitable")' = Sum("not_profitable")
      BY <1>2, SumsStay
    <2>2. /\ InStep({"leg1", "leg2"})' = InStep({"leg1", "leg2"})
          /\ InStep({"judging"})' = InStep({"judging"})
          /\ InStep({"candidate"})' = InStep({"candidate"})
          /\ InStep({"merged"})' = InStep({"merged"})
      BY <1>2, Unmoved
    <2>3. met' = met
      BY <1>2
    <2> QED
      BY ONLY Agreed, <2>1, <2>2, <2>3 DEF Agreed
  <1>3. Books!reporter /\ UNCHANGED <<checkVars, met>> => UNCHANGED <<total, met, step>>
    BY DEF Books!reporter, Books!Swap, Books!Report, checkVars
  <1>4. UNCHANGED vars => UNCHANGED <<total, met, step>>
    BY DEF vars, bookVars, checkVars
  <1> QED
    BY <1>1, <1>2, <1>3, <1>4 DEF Next

\* At an await no check is at a verdict and none is at the loop.
LEMMA AgreedAtAwait == Agreed /\ Counters /\ BookShape => BooksAgree
  <1> SUFFICES ASSUME Agreed, Counters, BookShape, AtAwait
               PROVE  BooksAgree
    BY DEF BooksAgree
  <1>1. { e \in Entry : step[e] \in {"judging"} } = {} /\ { e \in Entry : step[e] \in {"candidate"} } = {}
    BY DEF AtAwait
  <1>2. InStep({"judging"}) = 0 /\ InStep({"candidate"}) = 0
    BY <1>1, FS_EmptySet DEF InStep
  <1> QED
    BY ONLY Agreed, Counters, BookShape, <1>2, Whole DEF Agreed, BooksAgree, Global

-----------------------------------------------------------------------------
\* A quote that leaves the loop of scan_all_tokens is a round trip: both legs in a
\* row, no pool in both, none forbidden, two hops when only direct routes were
\* asked for, and worth its fees when min_profit covers them.
THEOREM QuotesSound == Spec => []CandidatesSound
  <1>1. Spec => []Checks
    BY ChecksInit, ChecksNext, PTL DEF Spec
  <1> QED
    BY <1>1, SoundIfJudged, PTL

\* Whatever the scanner counts while the reporter of token_metrics.rs passes over
\* the counters, nothing is lost or told twice.
THEOREM BooksAlwaysBalance == Spec => []BooksBalance
  <1>1. Spec => []Ledger
    BY LedgerInit, LedgerNext, PTL DEF Spec
  <1>2. Ledger => BooksBalance
    BY DEF Ledger
  <1> QED
    BY <1>1, <1>2, PTL

\* The counters of src/metrics.rs and those of src/token_metrics.rs agree at every
\* await of the scan, and account for every check that has begun: for any set of
\* entries and list of tokens, one that lists a token twice included.
THEOREM BooksAlwaysAgree == Spec => []BooksAgree
  <1> DEFINE IInv == Checks /\ Ledger /\ Counters /\ Agreed
  <1>1. Init => IInv
    BY ChecksInit, LedgerInit, CountersInit, AgreedInit
  <1>2. IInv /\ [Next]_vars => IInv'
    BY ChecksNext, LedgerNext, CountersNext, AgreedNext
  <1>3. IInv => BooksAgree
    BY AgreedAtAwait DEF Ledger
  <1> QED
    BY <1>1, <1>2, <1>3, PTL DEF Spec

\* What the reporter has told by the end of a window never lacks more than one
\* verdict for the routes that it has told, at any speed of the two tasks.
THEOREM VerdictsAlwaysKeepUp == Spec => []VerdictsKeepUp
  <1> DEFINE IInv == Checks /\ Ledger /\ Verdicts /\ Lags
  <1>1. Init => IInv
    BY ChecksInit, LedgerInit, VerdictsInit, LagsInit
  <1>2. IInv /\ [Next]_vars => IInv'
    BY ChecksNext, LedgerNext, VerdictsNext, LagsNext
  <1>3. IInv => VerdictsKeepUp
    BY LagsTold
  <1> QED
    BY <1>1, <1>2, <1>3, PTL DEF Spec

\* The types of every variable, and that a check keeps a merged quote just when
\* quote_check's result came through merge_quotes.
THEOREM TypeCorrect == Spec => []TypeOK
  <1>1. Init => Checks /\ Ledger /\ Counters
    BY ChecksInit, LedgerInit, CountersInit
  <1>2. Checks /\ Ledger /\ Counters /\ [Next]_vars => (Checks /\ Ledger /\ Counters)'
    BY ChecksNext, LedgerNext, CountersNext
  <1> QED
    BY <1>1, <1>2, Types, PTL DEF Spec

\* The date in a window's file is the day on which the window ended: now_iso
\* counts any number of days since 1970-01-01 down to the right date.
THEOREM StampsAlwaysRight == Spec => []StampsRight
  <1>1. StampsRight
    BY DatesRight, QuotesAssumption DEF StampsRight, DateOfEachDay, QuotesAssumption
  <1> QED
    BY <1>1, PTL
=============================================================================
