-------------------------- MODULE RateLimiterProofs --------------------------
(***************************************************************************)
(* RateLimiter, proved for every set of tickets, every rate and every      *)
(* resolution of the clock.                                                *)
(*                                                                         *)
(* The argument is that the lazily purged list, purged now, is exactly the *)
(* set of grants of the last second (RemembersTheWindow).  It holds        *)
(* because ageing and purging commute, and with it the length test on the  *)
(* purged list is a test on the window.                                    *)
(***************************************************************************)
EXTENDS RateLimiter, FiniteSetTheorems, TLAPS

IInv == TypeOK /\ RemembersTheWindow

\* What is retained is no longer than the list.
LEMMA RetainedSmaller ==
    ASSUME NEW S, IsFiniteSet(S)
    PROVE  /\ IsFiniteSet(Retained(S))
           /\ Cardinality(Retained(S)) \in Nat
           /\ Cardinality(Retained(S)) <= Cardinality(S)
  <1>1. Retained(S) \in SUBSET S
    BY DEF Retained
  <1> QED
    BY <1>1, FS_Subset, FS_CardinalityType

\* A new entry lengthens a list that has room by one.
LEMMA EntryAdded ==
    ASSUME NEW S, IsFiniteSet(S), HasRoom(S), NEW e
    PROVE  /\ IsFiniteSet(S \cup {e})
           /\ Cardinality(S \cup {e}) <= MaxPerSecond
  <1>1. Cardinality(S) \in Nat /\ Cardinality(S) < MaxPerSecond
    BY FS_CardinalityType DEF HasRoom
  <1>2. /\ IsFiniteSet(S \cup {e})
        /\ Cardinality(S \cup {e}) = IF e \in S THEN Cardinality(S) ELSE Cardinality(S) + 1
    BY FS_AddElement
  <1> QED
    BY <1>1, <1>2, LimiterAssumption DEF LimiterAssumption

\* Ageing every entry does not lengthen the list.
LEMMA OlderNoLonger ==
    ASSUME NEW S, IsFiniteSet(S)
    PROVE  /\ IsFiniteSet({ Older(t) : t \in S })
           /\ Cardinality({ Older(t) : t \in S }) <= Cardinality(S)
  <1> DEFINE T == { Older(t) : t \in S }
             f == [t \in S |-> Older(t)]
  <1>1. f \in Surjection(S, T)
    BY DEF Surjection
  <1> HIDE DEF f
  <1> QED
    BY <1>1, FS_Surjection

\* Ageing an entry keeps its shape, and moves it towards the horizon by a tick.
LEMMA OlderEntry ==
    ASSUME NEW e \in Entry
    PROVE  /\ Older(e) \in Entry
           /\ Older(e).age = IF e.age < SECOND THEN e.age + 1 ELSE e.age
           /\ Older(e).ticket = e.ticket
  BY LimiterAssumption DEF LimiterAssumption, Older, Entry

\* Purging after a tick keeps the entries that a purge before it keeps and
\* that the tick does not push out of the window.
LEMMA PurgeCommutes ==
    ASSUME NEW S \in SUBSET Entry
    PROVE  Retained({ Older(t) : t \in S })
             = { Older(g) : g \in { h \in Retained(S) : h.age + 1 < SECOND } }
  <1> DEFINE L == Retained({ Older(t) : t \in S })
             R == { Older(g) : g \in { h \in Retained(S) : h.age + 1 < SECOND } }
  <1>1. ASSUME NEW x \in L  PROVE x \in R
    <2>1. PICK t \in S : x = Older(t) /\ x.age < SECOND
      BY DEF Retained
    <2>2. t \in Entry /\ t.age \in 0 .. SECOND
      BY DEF Entry
    <2>3. t.age < SECOND /\ t.age + 1 < SECOND
      BY <2>1, <2>2, OlderEntry, LimiterAssumption DEF LimiterAssumption
    <2> QED
      BY <2>1, <2>3 DEF Retained
  <1>2. ASSUME NEW x \in R  PROVE x \in L
    <2>1. PICK g \in S : x = Older(g) /\ g.age < SECOND /\ g.age + 1 < SECOND
      BY DEF Retained
    <2>2. g \in Entry
      OBVIOUS
    <2>3. x.age < SECOND
      BY <2>1, <2>2, OlderEntry
    <2> QED
      BY <2>1, <2>3 DEF Retained
  <1> QED
    BY <1>1, <1>2

LEMMA InitInv == Init => IInv
  BY FS_EmptySet, LimiterAssumption
  DEF Init, IInv, TypeOK, RemembersTheWindow, Retained, LimiterAssumption

\* The three things that can happen to a limiter, whoever makes it happen and
\* whatever becomes of the answer.
LEMMA AcquireInv ==
    ASSUME IInv, NEW c \in Ticket, Acquire(c), answer' \in BOOLEAN
    PROVE  IInv'
  <1> DEFINE e == [ticket |-> c, age |-> 0]
  <1> USE DEF IInv
  <1>1. e \in Entry /\ e.age < SECOND
    BY LimiterAssumption DEF Entry, LimiterAssumption
  <1>2. IsFiniteSet(Retained(timestamps)) /\ HasRoom(Retained(timestamps))
    BY RetainedSmaller DEF Acquire, TypeOK
  <1>3. TypeOK'
    <2>1. timestamps' \subseteq Entry
      BY <1>1 DEF Acquire, TypeOK, Retained
    <2>2. granted' \subseteq [ticket : Ticket, age : 0 .. SECOND - 1]
      BY LimiterAssumption DEF Acquire, TypeOK, LimiterAssumption
    <2>3. IsFiniteSet(timestamps') /\ Cardinality(timestamps') <= MaxPerSecond
      BY <1>2, EntryAdded DEF Acquire
    <2> QED
      BY <2>1, <2>2, <2>3 DEF TypeOK
  <1>4. RemembersTheWindow'
    BY <1>1 DEF Acquire, RemembersTheWindow, Retained
  <1> QED
    BY <1>3, <1>4

LEMMA RefuseInv ==
    ASSUME IInv, Refuse, answer' \in BOOLEAN
    PROVE  IInv'
  <1> USE DEF IInv
  <1>1. TypeOK'
    <2>1. /\ IsFiniteSet(timestamps')
          /\ Cardinality(timestamps') \in Nat
          /\ Cardinality(timestamps') <= Cardinality(timestamps)
      BY RetainedSmaller DEF Refuse, TypeOK
    <2>2. Cardinality(timestamps) \in Nat
      BY FS_CardinalityType DEF TypeOK
    <2>3. timestamps' \subseteq Entry
      BY DEF Refuse, TypeOK, Retained
    <2>4. Cardinality(timestamps') <= MaxPerSecond
      BY <2>1, <2>2, LimiterAssumption DEF TypeOK, LimiterAssumption
    <2>5. granted' = granted
      BY DEF Refuse
    <2> QED
      BY <2>1, <2>3, <2>4, <2>5 DEF TypeOK
  <1>2. RemembersTheWindow'
    BY DEF Refuse, RemembersTheWindow, Retained
  <1> QED
    BY <1>1, <1>2

LEMMA AdvanceInv ==
    ASSUME IInv, Advance, answer' \in BOOLEAN
    PROVE  IInv'
  <1> USE DEF IInv
  <1>1. TypeOK'
    <2>1. timestamps' \subseteq Entry
      BY OlderEntry DEF Advance, TypeOK
    <2>2. granted' \subseteq [ticket : Ticket, age : 0 .. SECOND - 1]
      BY LimiterAssumption DEF Advance, TypeOK, Older, LimiterAssumption
    <2>3. /\ IsFiniteSet(timestamps')
          /\ Cardinality(timestamps') <= Cardinality(timestamps)
      BY OlderNoLonger DEF Advance, TypeOK
    <2>4. Cardinality(timestamps) \in Nat /\ Cardinality(timestamps') \in Nat
      BY <2>3, FS_CardinalityType DEF TypeOK
    <2> QED
      BY <2>1, <2>2, <2>3, <2>4, LimiterAssumption DEF TypeOK, LimiterAssumption
  <1>2. RemembersTheWindow'
    BY PurgeCommutes DEF Advance, TypeOK, RemembersTheWindow
  <1> QED
    BY <1>1, <1>2

LEMMA NextInv == IInv /\ [Next]_vars => IInv'
  <1> SUFFICES ASSUME IInv, [Next]_vars
               PROVE  IInv'
    OBVIOUS
  <1>1. ASSUME NEW c \in Ticket, try_acquire(c)
        PROVE  IInv'
    BY <1>1, AcquireInv, RefuseInv DEF try_acquire
  <1>2. ASSUME Tick
        PROVE  IInv'
    BY <1>2, AdvanceInv DEF Tick, IInv, TypeOK
  <1>3. ASSUME UNCHANGED vars
        PROVE  IInv'
    BY <1>3 DEF vars, IInv, TypeOK, RemembersTheWindow, Retained
  <1> QED
    BY <1>1, <1>2, <1>3 DEF Next

\* The list is well formed and never longer than the capacity that
\* RateLimiter::new reserves.
THEOREM TypeCorrect == Spec => []TypeOK
  <1>1. IInv => TypeOK
    BY DEF IInv
  <1> QED
    BY <1>1, InitInv, NextInv, PTL DEF Spec

\* No grant is forgotten while it counts and none counts after its second:
\* the list purged by try_acquire is the window.
THEOREM WindowRemembered == Spec => []RemembersTheWindow
  <1>1. IInv => RemembersTheWindow
    BY DEF IInv
  <1> QED
    BY <1>1, InitInv, NextInv, PTL DEF Spec

\* try_acquire never grants more than max_per_second calls in any second.
THEOREM WindowBounded == Spec => []WindowBound
  <1>1. IInv => WindowBound
    <2> SUFFICES ASSUME IInv PROVE WindowBound
      OBVIOUS
    <2>1. /\ Cardinality(granted) \in Nat
          /\ Cardinality(granted) <= Cardinality(timestamps)
      BY RetainedSmaller DEF IInv, TypeOK, RemembersTheWindow
    <2>2. Cardinality(timestamps) \in Nat
      BY FS_CardinalityType DEF IInv, TypeOK
    <2> QED
      BY <2>1, <2>2, LimiterAssumption DEF WindowBound, IInv, TypeOK, LimiterAssumption
  <1> QED
    BY <1>1, InitInv, NextInv, PTL DEF Spec

\* The abstract module counts with its own instance of Cardinality.
LEMMA SameCardinality == \A S : Promise!Cardinality(S) = Cardinality(S)
  BY DEF Cardinality, Promise!Cardinality

\* Each step of the limiter is a step of the sliding window it promises:
\* it grants when the last second has room and refuses only when it has not.
THEOREM ImplementsSlidingWindow == Spec => KeepsPromise
  <1>1. Init => Promise!Init
    BY DEF Init, Promise!Init
  <1>2. ASSUME IInv, [Next]_vars
        PROVE  [Promise!Next]_<<granted, answer>>
    <2>1. Retained(timestamps) = granted
      BY <1>2 DEF IInv, RemembersTheWindow
    <2>2. ASSUME NEW c \in Ticket, Acquire(c), answer' = TRUE
          PROVE  Promise!Grant(c)
      BY <2>1, <2>2, SameCardinality DEF Acquire, HasRoom, Promise!Grant
    <2>3. ASSUME Refuse, answer' = FALSE
          PROVE  Promise!Refuse
      <3>1. Cardinality(granted) \in Nat
        BY <1>2, <2>1, RetainedSmaller DEF IInv, TypeOK
      <3> QED
        BY <2>1, <2>3, <3>1, SameCardinality, LimiterAssumption
        DEF Refuse, HasRoom, Promise!Refuse, LimiterAssumption
    <2>4. ASSUME Tick
          PROVE  Promise!Tick
      <3> DEFINE In == { h \in granted : h.age + 1 < SECOND }
      <3>1. \A g \in In : Older(g) = [g EXCEPT !.age = @ + 1]
        BY <1>2, LimiterAssumption DEF Older, IInv, TypeOK, LimiterAssumption
      <3>2. { Older(g) : g \in In } = { [g EXCEPT !.age = @ + 1] : g \in In }
        BY <3>1
      <3> QED
        BY <2>4, <3>2 DEF Tick, Advance, Promise!Tick
    <2> QED
      BY <1>2, <2>2, <2>3, <2>4 DEF Next, try_acquire, vars, Promise!Next
  <1> QED
    BY <1>1, <1>2, InitInv, NextInv, PTL DEF Spec, KeepsPromise, Promise!Spec
=============================================================================
