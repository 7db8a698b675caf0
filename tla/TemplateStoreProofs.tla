------------------------- MODULE TemplateStoreProofs -------------------------
(***************************************************************************)
(* TemplateStore, proved for every finite set of routes, every capacity    *)
(* and any number of restarts.                                             *)
(*                                                                         *)
(* The generations are inductive with two additions.  ColdIsOld: a cold    *)
(* route has been idle for at least as many pushes as the hot generation   *)
(* has routes, because the push that made it cold left the hot generation  *)
(* with one.  Sizes: the generation that a restart overfills stands alone  *)
(* until the first push makes it the cold one.                             *)
(***************************************************************************)
EXTENDS TemplateStore, FiniteSetTheorems, TLAPS

USE StoreAssumption

Hots == Cardinality(DOMAIN hot)
Colds == Cardinality(DOMAIN cold)

ColdIsOld == \A s \in DOMAIN cold : Hots <= idle[s]

Sizes ==
    /\ Hots <= ROUTE_SEG_CAP \/ (Hots <= loaded /\ DOMAIN cold = {})
    /\ Colds <= Larger(ROUTE_SEG_CAP, loaded)

Generations == OneGeneration /\ ColdIsOld /\ UsedRecentlyKept /\ Sizes

-----------------------------------------------------------------------------
\* Maps.

LEMMA EmptyMap == DOMAIN Empty = {} /\ (\A K, V : IsMap(Empty, K, V))
  BY DEF Empty, IsMap

LEMMA WithMap ==
    ASSUME NEW f, NEW K, NEW V, NEW k, NEW v, IsMap(f, K, V), k \in K, v \in V
    PROVE  /\ IsMap(With(f, k, v), K, V)
           /\ DOMAIN With(f, k, v) = DOMAIN f \cup {k}
           /\ With(f, k, v)[k] = v
           /\ \A x \in DOMAIN f \ {k} : With(f, k, v)[x] = f[x]
  BY DEF IsMap, With

LEMMA WithoutMap ==
    ASSUME NEW f, NEW K, NEW V, NEW k, IsMap(f, K, V)
    PROVE  /\ IsMap(Without(f, k), K, V)
           /\ DOMAIN Without(f, k) = DOMAIN f \ {k}
           /\ \A x \in DOMAIN f \ {k} : Without(f, k)[x] = f[x]
  BY DEF IsMap, Without, Restrict

\* Sets of routes are finite and no larger than Sig.
LEMMA RoutesFinite ==
    ASSUME NEW S \in SUBSET Sig
    PROVE  /\ IsFiniteSet(S)
           /\ Cardinality(S) \in Nat
           /\ Cardinality(S) <= Cardinality(Sig)
           /\ Cardinality(Sig) \in Nat
  BY FS_Subset, FS_CardinalityType DEF StoreAssumption

LEMMA SizesAreNat ==
    ASSUME TypeOK
    PROVE  Hots \in Nat /\ Colds \in Nat
  BY RoutesFinite DEF TypeOK, IsMap, Hots, Colds

-----------------------------------------------------------------------------
\* The shape of the state.

LEMMA TypeInit == Init => TypeOK
  <1> SUFFICES ASSUME Init PROVE TypeOK
    OBVIOUS
  <1>1. \A file \in {snap, disk} : IsMap(file.routes, Sig, BOOLEAN) /\ IsMap(file.pairs, Pair, Sig)
    BY EmptyMap DEF Init, NoFile
  <1>2. 0 \in 0 .. Cardinality(Sig) /\ 0 \in 0 .. MaxRestarts
    BY FS_CardinalityType DEF StoreAssumption
  <1>3. idle \in [Sig -> 0 .. Forgotten]
    BY DEF Init, Forgotten, StoreAssumption
  <1> QED
    BY <1>1, <1>2, <1>3, EmptyMap DEF Init, TypeOK

LEMMA PushType ==
    ASSUME TypeOK, NEW kept, NEW s \in Sig, NEW t \in Template,
           IsMap(kept, Sig, Template), PushHot(kept, s, t)
    PROVE  /\ IsMap(hot', Sig, Template) /\ IsMap(cold', Sig, Template)
           /\ idle' \in [Sig -> 0 .. Forgotten]
  <1>1. IsMap(hot, Sig, Template) /\ IsMap(Empty, Sig, Template)
    BY EmptyMap DEF TypeOK
  <1>2. IsMap(With(Empty, s, t), Sig, Template) /\ IsMap(With(hot, s, t), Sig, Template)
    BY <1>1, WithMap
  <1>3. IsMap(hot', Sig, Template) /\ IsMap(cold', Sig, Template)
    <2>1. CASE Cardinality(DOMAIN hot) >= ROUTE_SEG_CAP
      BY <1>1, <1>2, <2>1 DEF PushHot
    <2>2. CASE ~ (Cardinality(DOMAIN hot) >= ROUTE_SEG_CAP)
      BY <1>1, <1>2, <2>2 DEF PushHot
    <2> QED
      BY <2>1, <2>2
  <1>4. idle' \in [Sig -> 0 .. Forgotten]
    BY DEF PushHot, TypeOK, Forgotten, StoreAssumption
  <1> QED
    BY <1>3, <1>4

LEMMA AddedVariantType ==
    ASSUME NEW t \in Template, NEW a \in Amount
    PROVE  AddedVariant(t, a) \in Template
  BY DEF Template, AddedVariant

LEMMA IndexedType ==
    ASSUME TypeOK, NEW s \in Sig
    PROVE  IsMap(Indexed(s), Pair, Sig)
  <1>1. PairOf[s] # NoPair => PairOf[s] \in Pair
    BY DEF StoreAssumption
  <1> QED
    BY <1>1, WithMap DEF Indexed, TypeOK

LEMMA InsertType ==
    ASSUME TypeOK, NEW s \in Sig, NEW a \in Amount, insert_route(s, a)
    PROVE  TypeOK'
  <1>1. /\ IsMap(hot', Sig, Template) /\ IsMap(cold', Sig, Template)
        /\ IsMap(index', Pair, Sig) /\ idle' \in [Sig -> 0 .. Forgotten]
    <2>1. CASE InsertKnown(s, a)
      <3>1. IsMap(index', Pair, Sig) /\ idle' \in [Sig -> 0 .. Forgotten]
        BY <2>1 DEF InsertKnown, TypeOK
      <3>2. CASE s \in DOMAIN hot /\ hot' = [hot EXCEPT ![s] = AddedVariant(@, a)] /\ UNCHANGED cold
        <4>1. hot[s] \in Template
          BY <3>2 DEF TypeOK, IsMap
        <4>2. AddedVariant(hot[s], a) \in Template
          BY <4>1, AddedVariantType
        <4> QED
          BY <3>1, <3>2, <4>2 DEF TypeOK, IsMap
      <3>3. CASE s \in DOMAIN cold /\ cold' = [cold EXCEPT ![s] = AddedVariant(@, a)] /\ UNCHANGED hot
        <4>1. cold[s] \in Template
          BY <3>3 DEF TypeOK, IsMap
        <4>2. AddedVariant(cold[s], a) \in Template
          BY <4>1, AddedVariantType
        <4> QED
          BY <3>1, <3>3, <4>2 DEF TypeOK, IsMap
      <3> QED
        BY <2>1, <3>2, <3>3 DEF InsertKnown
    <2>2. CASE InsertNew(s, a)
      <3>1. PICK found \in Discovered : PushHot(cold, s, [patchable |-> found, variants |-> {a}])
        BY <2>2 DEF InsertNew
      <3>2. [patchable |-> found, variants |-> {a}] \in Template
        BY <3>1 DEF Template, StoreAssumption
      <3>3. IsMap(cold, Sig, Template)
        BY DEF TypeOK
      <3>4. index' = Indexed(s)
        BY <2>2 DEF InsertNew
      <3> QED
        BY <3>1, <3>2, <3>3, <3>4, PushType, IndexedType
    <2> QED
      BY <2>1, <2>2 DEF insert_route
  <1>2. recording' \subseteq Sig
    BY DEF insert_route, TypeOK
  <1> QED
    BY <1>1, <1>2 DEF insert_route, flushVars, TypeOK, startVars

LEMMA GetType ==
    ASSUME TypeOK, get_route
    PROVE  TypeOK'
  <1>1. reader.at # "ready" => reader.sig \in Sig
    BY DEF TypeOK, Ready
  <1>2. CASE HotHit
    BY <1>1, <1>2 DEF HotHit, TypeOK, inner, flushVars, startVars, At, Forgotten, StoreAssumption
  <1>3. CASE Absent
    BY <1>3 DEF Absent, TypeOK, inner, flushVars, startVars
  <1>4. CASE ColdHit
    BY <1>1, <1>4 DEF ColdHit, TypeOK, inner, flushVars, startVars, At, Ready
  <1>5. CASE Promote
    <2>0. IsMap(cold, Sig, Template)
      BY DEF TypeOK
    <2>1. /\ reader.sig \in Sig /\ cold[reader.sig] \in Template
          /\ IsMap(Without(cold, reader.sig), Sig, Template)
      <3>1. reader.sig \in Sig /\ reader.sig \in DOMAIN cold
        BY <1>1, <1>5 DEF Promote, At
      <3>2. cold[reader.sig] \in Template
        BY <2>0, <3>1 DEF IsMap
      <3>3. IsMap(Without(cold, reader.sig), Sig, Template)
        BY <2>0, WithoutMap
      <3> QED
        BY <3>1, <3>2, <3>3
    <2>2. /\ IsMap(hot', Sig, Template) /\ IsMap(cold', Sig, Template)
          /\ idle' \in [Sig -> 0 .. Forgotten]
      BY <1>5, <2>1, PushType DEF Promote
    <2> QED
      BY <1>5, <2>2 DEF Promote, TypeOK, flushVars, startVars
  <1>6. CASE PromoteTooLate
    BY <1>1, <1>6 DEF PromoteTooLate, TypeOK, inner, flushVars, startVars, At, Forgotten, StoreAssumption
  <1> QED
    BY <1>2, <1>3, <1>4, <1>5, <1>6 DEF get_route

LEMMA FlushType ==
    ASSUME TypeOK, flush_to_disk
    PROVE  TypeOK'
  <1>1. CASE ReadRoutes
    <2>1. IsMap(Patchability, Sig, BOOLEAN)
      <3>1. \A s \in DOMAIN hot : hot[s].patchable \in BOOLEAN
        BY DEF TypeOK, IsMap, Template
      <3>2. \A s \in DOMAIN cold : cold[s].patchable \in BOOLEAN
        BY DEF TypeOK, IsMap, Template
      <3> QED
        BY <3>1, <3>2 DEF Patchability, Live, IsMap, TypeOK
    <2>2. snap'.routes = Patchability /\ snap'.pairs = index
      BY <1>1 DEF ReadRoutes
    <2>3. \A file \in {snap', disk'} : IsMap(file.routes, Sig, BOOLEAN) /\ IsMap(file.pairs, Pair, Sig)
      BY <1>1, <2>1, <2>2 DEF ReadRoutes, TypeOK
    <2> QED
      BY <1>1, <2>3 DEF ReadRoutes, TypeOK, inner, startVars
  <1>2. CASE WriteRoutes
    <2>1. IsMap(NoFile.routes, Sig, BOOLEAN) /\ IsMap(NoFile.pairs, Pair, Sig)
      BY EmptyMap DEF NoFile
    <2>2. \A file \in {snap', disk'} : IsMap(file.routes, Sig, BOOLEAN) /\ IsMap(file.pairs, Pair, Sig)
      BY <1>2, <2>1 DEF WriteRoutes, TypeOK
    <2> QED
      BY <1>2, <2>2 DEF WriteRoutes, TypeOK, inner, startVars
  <1>3. CASE ReadHops
    <2>1. unwritten' \subseteq Dex
      BY <1>3 DEF ReadHops, TypeOK, StoreAssumption
    <2> QED
      BY <1>3, <2>1 DEF ReadHops, TypeOK, inner, startVars
  <1>4. CASE \E d \in Dex : WriteHops(d)
    BY <1>4 DEF WriteHops, TypeOK, inner, startVars
  <1>5. CASE Rest
    BY <1>5 DEF Rest, TypeOK, inner, startVars
  <1> QED
    BY <1>1, <1>2, <1>3, <1>4, <1>5 DEF flush_to_disk

\* What a start may read of routes.json is the file or nothing.
LEMMA FileRead ==
    ASSUME TypeOK, NEW file \in {disk, NoFile}
    PROVE  IsMap(file.routes, Sig, BOOLEAN) /\ IsMap(file.pairs, Pair, Sig)
  BY EmptyMap DEF TypeOK, NoFile

LEMMA RestartType ==
    ASSUME TypeOK, Restart
    PROVE  TypeOK'
  <1>0. PICK file \in {disk, NoFile}, missed \in SUBSET Dex :
             StartWith(file.routes, file.pairs, { h \in diskHops : DexOf[h] \notin missed }, missed)
    BY DEF Restart
  <1>a. PICK routes, pairs, known : /\ routes = file.routes /\ pairs = file.pairs
                                    /\ known = { h \in diskHops : DexOf[h] \notin missed }
    OBVIOUS
  <1>b. StartWith(routes, pairs, known, missed)
    BY <1>0, <1>a
  <1>1. IsMap(routes, Sig, BOOLEAN) /\ IsMap(pairs, Pair, Sig)
    BY <1>a, FileRead
  <1>2. IsMap(hot', Sig, Template)
    <2>1. \A s \in DOMAIN routes : [patchable |-> routes[s], variants |-> {}] \in Template
      BY <1>1 DEF IsMap, Template
    <2> QED
      BY <1>b, <1>1, <2>1 DEF StartWith, IsMap
  <1>3. IsMap(cold', Sig, Template) /\ IsMap(index', Pair, Sig)
    BY <1>b, <1>1, EmptyMap DEF StartWith
  <1>4. IsMap(snap'.routes, Sig, BOOLEAN) /\ IsMap(snap'.pairs, Pair, Sig)
    BY <1>b, EmptyMap DEF StartWith, NoFile
  <1>5. idle' \in [Sig -> 0 .. Forgotten]
    BY <1>b DEF StartWith, Forgotten, StoreAssumption
  <1>6. loaded' \in 0 .. Cardinality(Sig)
    BY <1>b, <1>1, RoutesFinite DEF StartWith, IsMap
  <1>7. restarts' \in 0 .. MaxRestarts
    BY <1>b DEF StartWith, TypeOK, StoreAssumption
  <1>8. known \subseteq Hop /\ missed \subseteq Dex
    BY <1>a DEF TypeOK
  <1> QED
    BY <1>b, <1>1, <1>2, <1>3, <1>4, <1>5, <1>6, <1>7, <1>8 DEF StartWith, TypeOK

LEMMA TypeNext == TypeOK /\ [Next]_vars => TypeOK'
  <1> SUFFICES ASSUME TypeOK, [Next]_vars PROVE TypeOK'
    OBVIOUS
  <1>1. ASSUME NEW s \in Sig, AskRoute(s) PROVE TypeOK'
    BY <1>1 DEF AskRoute, TypeOK, inner, flushVars, startVars
  <1>2. ASSUME NEW s \in Sig, AskPair(s) PROVE TypeOK'
    <2>1. index[PairOf[s]] \in Sig
      BY <1>2 DEF AskPair, TypeOK, IsMap
    <2> QED
      BY <1>2, <2>1 DEF AskPair, TypeOK, inner, flushVars, startVars
  <1>3. ASSUME NEW s \in Sig, record_hops(s) PROVE TypeOK'
    BY <1>3 DEF record_hops, TypeOK, flushVars, startVars, StoreAssumption, startVars
  <1>4. CASE UNCHANGED vars
    BY <1>4 DEF vars, inner, flushVars, startVars, TypeOK
  <1> QED
    BY <1>1, <1>2, <1>3, <1>4, InsertType, GetType, FlushType, RestartType DEF Next

\* Every variable keeps its type through lookups, insertions, flushes and
\* restarts in any order.
THEOREM TypeCorrect == Spec => []TypeOK
  BY TypeInit, TypeNext, PTL DEF Spec

-----------------------------------------------------------------------------
\* The two generations.

LEMMA GenerationsInit == Init => Generations
  <1> SUFFICES ASSUME Init PROVE Generations
    OBVIOUS
  <1>1. DOMAIN hot = {} /\ DOMAIN cold = {}
    BY EmptyMap DEF Init
  <1>2. Hots = 0 /\ Colds = 0
    BY <1>1, FS_EmptySet DEF Hots, Colds
  <1>3. \A s \in Sig : ~ (idle[s] <= ROUTE_SEG_CAP)
    BY DEF Init, Forgotten, StoreAssumption
  <1> QED
    BY <1>1, <1>2, <1>3 DEF Init, Generations, OneGeneration, ColdIsOld, UsedRecentlyKept,
         Sizes, Larger, StoreAssumption

\* What push_hot_route does to the two generations.
LEMMA PushedDomains ==
    ASSUME TypeOK, NEW kept, NEW s \in Sig, NEW t, PushHot(kept, s, t),
           IsMap(kept, Sig, Template), s \notin DOMAIN hot
    PROVE  /\ Hots >= ROUTE_SEG_CAP =>
                 DOMAIN cold' = DOMAIN hot /\ DOMAIN hot' = {s} /\ Hots' = 1 /\ Colds' = Hots
           /\ Hots < ROUTE_SEG_CAP =>
                 DOMAIN cold' = DOMAIN kept /\ DOMAIN hot' = DOMAIN hot \cup {s} /\ Hots' = Hots + 1
  <1>1. CASE Hots >= ROUTE_SEG_CAP
    <2>1. cold' = hot /\ hot' = With(Empty, s, t)
      BY <1>1 DEF PushHot, Hots
    <2>2. DOMAIN hot' = {s}
      BY <2>1, EmptyMap DEF With
    <2>3. Hots' = 1 /\ Colds' = Hots
      BY <2>1, <2>2, FS_Singleton DEF Hots, Colds
    <2> QED
      BY <1>1, <2>1, <2>2, <2>3, SizesAreNat DEF StoreAssumption
  <1>2. CASE Hots < ROUTE_SEG_CAP
    <2>1. cold' = kept /\ hot' = With(hot, s, t)
      BY <1>2, SizesAreNat DEF PushHot, Hots, StoreAssumption
    <2>2. DOMAIN hot' = DOMAIN hot \cup {s}
      BY <2>1 DEF With
    <2>3. IsFiniteSet(DOMAIN hot)
      BY RoutesFinite DEF TypeOK, IsMap
    <2>4. Hots' = Hots + 1
      BY <2>2, <2>3, FS_AddElement DEF Hots
    <2> QED
      BY <1>2, <2>1, <2>2, <2>4, SizesAreNat DEF StoreAssumption
  <1> QED
    BY <1>1, <1>2, SizesAreNat DEF StoreAssumption

\* A route that is not in the hot generation is pushed into it.
LEMMA PushKeeps ==
    ASSUME TypeOK, Generations, NEW kept, NEW s \in Sig, NEW t, PushHot(kept, s, t),
           IsMap(kept, Sig, Template), s \notin DOMAIN hot,
           DOMAIN kept = DOMAIN cold \ {s}, UNCHANGED loaded
    PROVE  Generations'
  <1>1. /\ Hots \in Nat /\ Colds \in Nat /\ ROUTE_SEG_CAP \in Nat \ {0} /\ loaded \in Nat
        /\ DOMAIN hot \subseteq Sig /\ DOMAIN cold \subseteq Sig
    BY SizesAreNat, RoutesFinite DEF TypeOK, IsMap, StoreAssumption
  <1>2. /\ idle \in [Sig -> 0 .. ROUTE_SEG_CAP + 1]
        /\ idle'[s] = 0
        /\ \A x \in Sig \ {s} : idle'[x] = IF idle[x] < ROUTE_SEG_CAP + 1 THEN idle[x] + 1 ELSE idle[x]
    BY DEF PushHot, TypeOK, Forgotten
  <1>3. CASE Hots >= ROUTE_SEG_CAP
    <2>1. DOMAIN cold' = DOMAIN hot /\ DOMAIN hot' = {s} /\ Hots' = 1 /\ Colds' = Hots
      BY <1>3, PushedDomains
    <2>2. OneGeneration'
      BY <2>1 DEF OneGeneration
    <2>3. ColdIsOld'
      BY <1>1, <1>2, <2>1 DEF ColdIsOld
    <2>4. ASSUME NEW x \in Sig, x \notin Live'
          PROVE  ~ (idle'[x] <= ROUTE_SEG_CAP)
      <3>1. x # s /\ x \notin DOMAIN hot
        BY <2>1, <2>4 DEF Live
      <3>2. CASE x \in DOMAIN cold
        <4>1. Hots <= idle[x]
          BY <3>2 DEF Generations, ColdIsOld
        <4> QED
          BY <1>1, <1>2, <1>3, <3>1, <4>1
      <3>3. CASE x \notin DOMAIN cold
        <4>1. ~ (idle[x] <= ROUTE_SEG_CAP)
          BY <3>1, <3>3 DEF Generations, UsedRecentlyKept, Live
        <4> QED
          BY <1>1, <1>2, <3>1, <4>1
      <3> QED
        BY <3>2, <3>3
    <2>5. UsedRecentlyKept'
      BY <2>4 DEF UsedRecentlyKept
    <2>6. Sizes'
      BY <1>1, <2>1 DEF Generations, Sizes, Larger
    <2> QED
      BY <2>2, <2>3, <2>5, <2>6 DEF Generations
  <1>4. CASE Hots < ROUTE_SEG_CAP
    <2>1. DOMAIN cold' = DOMAIN cold \ {s} /\ DOMAIN hot' = DOMAIN hot \cup {s} /\ Hots' = Hots + 1
      BY <1>4, PushedDomains
    <2>2. OneGeneration'
      BY <2>1 DEF Generations, OneGeneration
    <2>3. ASSUME NEW x \in DOMAIN cold'
          PROVE  Hots' <= idle'[x]
      <3>1. x \in Sig \ {s} /\ Hots <= idle[x]
        BY <1>1, <2>1 DEF Generations, ColdIsOld
      <3> QED
        BY <1>1, <1>2, <1>4, <2>1, <3>1
    <2>4. ASSUME NEW x \in Sig, x \notin Live'
          PROVE  ~ (idle'[x] <= ROUTE_SEG_CAP)
      <3>1. x # s /\ x \notin Live
        BY <2>1, <2>4 DEF Live
      <3>2. ~ (idle[x] <= ROUTE_SEG_CAP)
        BY <3>1 DEF Generations, UsedRecentlyKept
      <3> QED
        BY <1>1, <1>2, <3>1, <3>2
    <2>5. Colds' <= Colds
      <3>1. IsFiniteSet(DOMAIN cold) /\ DOMAIN cold' \subseteq DOMAIN cold
        BY <1>1, <2>1, RoutesFinite
      <3> QED
        BY <3>1, FS_Subset DEF Colds
    <2>6. Colds' \in Nat
      <3>1. DOMAIN cold' \subseteq Sig
        BY <1>1, <2>1
      <3> QED
        BY <3>1, RoutesFinite DEF Colds
    <2>7. Sizes'
      BY <1>1, <1>4, <2>1, <2>5, <2>6 DEF Generations, Sizes, Larger
    <2> QED
      BY <2>2, <2>3, <2>4, <2>7 DEF Generations, ColdIsOld, UsedRecentlyKept
  <1> QED
    BY <1>1, <1>3, <1>4

\* Steps that leave both generations and their history alone, or reset the
\* history of a hot route.
LEMMA GenerationsStill ==
    ASSUME TypeOK, Generations, UNCHANGED loaded,
           DOMAIN hot' = DOMAIN hot, DOMAIN cold' = DOMAIN cold,
           \/ idle' = idle
           \/ \E s \in DOMAIN hot : idle' = [idle EXCEPT ![s] = 0]
    PROVE  Generations'
  <1>1. Hots' = Hots /\ Colds' = Colds /\ Live' = Live
    BY DEF Hots, Colds, Live
  <1>2. \A x \in Sig \ DOMAIN hot : idle'[x] = idle[x]
    BY DEF TypeOK
  <1>3. DOMAIN cold \subseteq Sig \ DOMAIN hot
    BY DEF Generations, OneGeneration, TypeOK, IsMap
  <1>4. ColdIsOld'
    BY <1>1, <1>2, <1>3 DEF Generations, ColdIsOld
  <1>5. UsedRecentlyKept'
    BY <1>1, <1>2 DEF Generations, UsedRecentlyKept, Live
  <1> QED
    BY <1>1, <1>4, <1>5 DEF Generations, OneGeneration, Sizes

LEMMA GenerationsRestart ==
    ASSUME TypeOK, Restart
    PROVE  Generations'
  <1>0. PICK file \in {disk, NoFile}, missed \in SUBSET Dex :
             StartWith(file.routes, file.pairs, { h \in diskHops : DexOf[h] \notin missed }, missed)
    BY DEF Restart
  <1>1. DOMAIN hot' = DOMAIN file.routes /\ DOMAIN cold' = {}
    BY <1>0, EmptyMap DEF StartWith
  <1>2. DOMAIN file.routes \subseteq Sig
    BY FileRead DEF IsMap
  <1>3. Hots' = loaded' /\ Hots' \in Nat /\ Colds' = 0
    BY <1>0, <1>1, <1>2, RoutesFinite, FS_EmptySet DEF Hots, Colds, StartWith
  <1>4. UsedRecentlyKept'
    BY <1>0, <1>1 DEF StartWith, UsedRecentlyKept, Live, Forgotten, StoreAssumption
  <1>5. Sizes'
    BY <1>1, <1>3 DEF Sizes, Larger, StoreAssumption
  <1> QED
    BY <1>1, <1>4, <1>5 DEF Generations, OneGeneration, ColdIsOld

LEMMA GenerationsNext == TypeOK /\ Generations /\ [Next]_vars => Generations'
  <1> SUFFICES ASSUME TypeOK, Generations, [Next]_vars
               PROVE  Generations'
    OBVIOUS
  <1>1. ASSUME NEW s \in Sig, NEW a \in Amount, insert_route(s, a)
        PROVE  Generations'
    <2>1. UNCHANGED loaded
      BY <1>1 DEF insert_route, startVars
    <2>2. CASE InsertKnown(s, a)
      <3>1. DOMAIN hot' = DOMAIN hot /\ DOMAIN cold' = DOMAIN cold /\ idle' = idle
        BY <2>2 DEF InsertKnown, TypeOK, IsMap
      <3> QED
        BY <2>1, <3>1, GenerationsStill
    <2>3. CASE InsertNew(s, a)
      <3>1. PICK t : PushHot(cold, s, t)
        BY <2>3 DEF InsertNew
      <3>2. s \notin DOMAIN hot /\ DOMAIN cold = DOMAIN cold \ {s} /\ IsMap(cold, Sig, Template)
        <4>1. s \notin DOMAIN hot /\ s \notin DOMAIN cold
          BY <2>3 DEF InsertNew, Live
        <4>2. IsMap(cold, Sig, Template)
          BY DEF TypeOK
        <4>3. DOMAIN cold = DOMAIN cold \ {s}
          BY <4>1
        <4> QED
          BY <4>1, <4>2, <4>3
      <3> QED
        BY <2>1, <3>1, <3>2, PushKeeps
    <2> QED
      BY <1>1, <2>2, <2>3 DEF insert_route
  <1>2. CASE HotHit
    BY <1>2, GenerationsStill DEF HotHit, inner, startVars
  <1>3. CASE Absent \/ ColdHit
    BY <1>3, GenerationsStill DEF Absent, ColdHit, inner, startVars
  <1>4. CASE Promote
    <2>1. reader.sig \in DOMAIN cold /\ IsMap(cold, Sig, Template)
      BY <1>4 DEF Promote, TypeOK
    <2>2. reader.sig \in Sig /\ reader.sig \notin DOMAIN hot
      BY <2>1 DEF Generations, OneGeneration, IsMap
    <2>3. /\ IsMap(Without(cold, reader.sig), Sig, Template)
          /\ DOMAIN Without(cold, reader.sig) = DOMAIN cold \ {reader.sig}
      BY <2>1 DEF IsMap, Without, Restrict
    <2> QED
      BY <1>4, <2>2, <2>3, PushKeeps DEF Promote, startVars
  <1>5. CASE PromoteTooLate
    BY <1>5, GenerationsStill DEF PromoteTooLate, inner, startVars
  <1>6. CASE flush_to_disk
    <2>1. UNCHANGED <<hot, cold, idle, loaded>>
      BY <1>6 DEF flush_to_disk, ReadRoutes, WriteRoutes, ReadHops, WriteHops, Rest, inner, startVars
    <2> QED
      BY <2>1, GenerationsStill
  <1>7. ASSUME NEW s \in Sig, AskRoute(s) \/ AskPair(s) \/ record_hops(s)
        PROVE  Generations'
    BY <1>7, GenerationsStill DEF AskRoute, AskPair, record_hops, inner, startVars
  <1>8. CASE UNCHANGED vars
    BY <1>8, GenerationsStill DEF vars, inner, startVars
  <1> QED
    BY <1>1, <1>2, <1>3, <1>4, <1>5, <1>6, <1>7, <1>8, GenerationsRestart DEF Next, get_route

\* No route is ever in both generations, so no lookup meets a stale copy.
THEOREM NoStaleCopy == Spec => []OneGeneration
  <1>1. Generations => OneGeneration
    BY DEF Generations
  <1> QED
    BY <1>1, TypeInit, TypeNext, GenerationsInit, GenerationsNext, PTL DEF Spec

\* A route that was used survives ROUTE_SEG_CAP pushes of other routes, for
\* every capacity and through promotions, insertions and restarts.
THEOREM RecentUseSurvives == Spec => []UsedRecentlyKept
  <1>1. Generations => UsedRecentlyKept
    BY DEF Generations
  <1> QED
    BY <1>1, TypeInit, TypeNext, GenerationsInit, GenerationsNext, PTL DEF Spec

\* The store never holds more than one full generation beside another that
\* is full or was loaded: a restart is the only way past twice the capacity.
THEOREM GrowthBounded == Spec => []GrowthBound
  <1>1. TypeOK /\ Generations => GrowthBound
    <2> SUFFICES ASSUME TypeOK, Generations PROVE GrowthBound
      OBVIOUS
    <2>1. DOMAIN hot \subseteq Sig /\ DOMAIN cold \subseteq Sig
      BY DEF TypeOK, IsMap
    <2>2. IsFiniteSet(DOMAIN hot) /\ IsFiniteSet(DOMAIN cold) /\ Hots \in Nat /\ Colds \in Nat
      BY <2>1, RoutesFinite DEF Hots, Colds
    <2>3. DOMAIN hot \cap DOMAIN cold = {} /\ loaded \in Nat
      BY RoutesFinite DEF Generations, OneGeneration, TypeOK
    <2>4. Cardinality(Live) = Hots + Colds
      <3>1. Cardinality(DOMAIN hot \cup DOMAIN cold)
              = Cardinality(DOMAIN hot) + Cardinality(DOMAIN cold)
                - Cardinality(DOMAIN hot \cap DOMAIN cold)
        BY <2>2, FS_Union
      <3>2. Cardinality(DOMAIN hot \cap DOMAIN cold) = 0
        BY <2>3, FS_EmptySet
      <3> QED
        BY <2>2, <3>1, <3>2 DEF Live, Hots, Colds
    <2>5. DOMAIN cold = {} => Colds = 0
      BY FS_EmptySet DEF Colds
    <2> QED
      BY <2>2, <2>3, <2>4, <2>5 DEF Generations, Sizes, GrowthBound, Larger, StoreAssumption
  <1> QED
    BY <1>1, TypeInit, TypeNext, GenerationsInit, GenerationsNext, PTL DEF Spec

-----------------------------------------------------------------------------
\* The hop-pair index.

LEMMA CoversFewer ==
    ASSUME NEW pairs, NEW R, NEW S, Covers(pairs, R), S \subseteq R
    PROVE  Covers(pairs, S)
  BY DEF Covers

\* A new route is covered once it is indexed, and nothing else is uncovered.
LEMMA IndexedCovers ==
    ASSUME NEW s \in Sig, NEW R, NEW S, Covers(index, R), S \subseteq R \cup {s}
    PROVE  Covers(Indexed(s), S)
  <1>1. CASE PairOf[s] = NoPair \/ PairOf[s] \in DOMAIN index
    BY <1>1 DEF Indexed, Covers
  <1>2. CASE ~ (PairOf[s] = NoPair \/ PairOf[s] \in DOMAIN index)
    <2>1. /\ Indexed(s) = With(index, PairOf[s], s)
          /\ DOMAIN Indexed(s) = DOMAIN index \cup {PairOf[s]}
          /\ Indexed(s)[PairOf[s]] = s
          /\ \A p \in DOMAIN index : Indexed(s)[p] = index[p]
      BY <1>2 DEF Indexed, With
    <2> QED
      BY <2>1 DEF Covers
  <1> QED
    BY <1>1, <1>2

\* A push leaves no route but the pushed one that was not there before.
LEMMA PushedLive ==
    ASSUME NEW kept, NEW s, NEW t, PushHot(kept, s, t), DOMAIN kept \subseteq DOMAIN cold
    PROVE  Live' \subseteq Live \cup {s}
  BY EmptyMap DEF PushHot, With, Live

LEMMA IndexInit == Init => IndexFaithful
  BY EmptyMap DEF Init, NoFile, IndexFaithful, Covers, Live

LEMMA IndexNext == TypeOK /\ IndexFaithful /\ [Next]_vars => IndexFaithful'
  <1> SUFFICES ASSUME TypeOK, IndexFaithful, [Next]_vars
               PROVE  IndexFaithful'
    OBVIOUS
  <1> DEFINE OnFile(file) == Covers(file.pairs, DOMAIN file.routes)
  <1>0. Covers(index, Live) /\ OnFile(snap) /\ OnFile(disk)
    BY DEF IndexFaithful
  <1>1. SUFFICES Covers(index', Live') /\ OnFile(snap') /\ OnFile(disk')
    BY DEF IndexFaithful, Covers
  <1> HIDE DEF OnFile
  <1>2. ASSUME NEW s \in Sig, NEW a \in Amount, insert_route(s, a)
        PROVE  Covers(index', Live') /\ OnFile(snap') /\ OnFile(disk')
    <2>1. UNCHANGED <<snap, disk>>
      BY <1>2 DEF insert_route, flushVars
    <2>2. CASE InsertKnown(s, a)
      <3>1. DOMAIN hot' = DOMAIN hot /\ DOMAIN cold' = DOMAIN cold /\ index' = index
        BY <2>2 DEF InsertKnown, TypeOK, IsMap
      <3> QED
        BY <1>0, <2>1, <3>1 DEF Live
    <2>3. CASE InsertNew(s, a)
      <3>1. Live' \subseteq Live \cup {s} /\ index' = Indexed(s)
        BY <2>3, PushedLive DEF InsertNew
      <3> QED
        BY <1>0, <2>1, <3>1, IndexedCovers
    <2> QED
      BY <1>2, <2>2, <2>3 DEF insert_route
  <1>3. CASE get_route
    <2>1. UNCHANGED <<index, snap, disk>>
      BY <1>3 DEF get_route, HotHit, Absent, ColdHit, Promote, PromoteTooLate, inner, flushVars, startVars
    <2>2. Live' \subseteq Live
      <3>1. CASE Promote
        <4>1. reader.sig \in Live /\ DOMAIN Without(cold, reader.sig) \subseteq DOMAIN cold
          BY <3>1 DEF Promote, Live, Without, Restrict
        <4> QED
          BY <3>1, <4>1, PushedLive DEF Promote
      <3>2. CASE HotHit \/ Absent \/ ColdHit \/ PromoteTooLate
        BY <3>2 DEF HotHit, Absent, ColdHit, PromoteTooLate, inner, Live
      <3> QED
        BY <1>3, <3>1, <3>2 DEF get_route
    <2> QED
      BY <1>0, <2>1, <2>2, CoversFewer
  <1>4. CASE flush_to_disk
    <2>1. UNCHANGED <<index, hot, cold>> /\ Live' = Live
      BY <1>4 DEF flush_to_disk, ReadRoutes, WriteRoutes, ReadHops, WriteHops, Rest, inner, Live
    <2>2. CASE ReadRoutes
      <3>1. OnFile(snap')
        BY <1>0, <2>2 DEF ReadRoutes, Patchability, OnFile
      <3> QED
        BY <1>0, <2>1, <2>2, <3>1 DEF ReadRoutes
    <2>3. CASE WriteRoutes
      <3>1. OnFile(NoFile)
        BY EmptyMap DEF OnFile, NoFile, Covers
      <3> QED
        BY <1>0, <2>1, <2>3, <3>1 DEF WriteRoutes
    <2>4. CASE ReadHops \/ (\E d \in Dex : WriteHops(d)) \/ Rest
      <3>1. UNCHANGED <<snap, disk>>
        BY <2>4 DEF ReadHops, WriteHops, Rest
      <3> QED
        BY <1>0, <2>1, <3>1
    <2> QED
      BY <1>4, <2>2, <2>3, <2>4 DEF flush_to_disk
  <1>5. CASE Restart
    <2>1. OnFile(NoFile)
      BY EmptyMap DEF OnFile, NoFile, Covers
    <2>2. PICK file \in {disk, NoFile}, missed \in SUBSET Dex :
               StartWith(file.routes, file.pairs, { h \in diskHops : DexOf[h] \notin missed }, missed)
      BY <1>5 DEF Restart
    <2>3. /\ Live' = DOMAIN file.routes /\ index' = file.pairs
          /\ snap' = NoFile /\ disk' = disk
      BY <2>2, EmptyMap DEF StartWith, Live
    <2>4. OnFile(file)
      BY <1>0, <2>1
    <2> QED
      BY <2>1, <2>3, <2>4, <1>0 DEF OnFile
  <1>6. ASSUME NEW s \in Sig, AskRoute(s) \/ AskPair(s) \/ record_hops(s)
        PROVE  Covers(index', Live') /\ OnFile(snap') /\ OnFile(disk')
    <2>1. UNCHANGED <<index, hot, cold, snap, disk>>
      BY <1>6 DEF AskRoute, AskPair, record_hops, inner, flushVars, startVars
    <2> QED
      BY <1>0, <2>1 DEF Live
  <1>7. CASE UNCHANGED vars
    <2>1. UNCHANGED <<index, hot, cold, snap, disk>>
      BY <1>7 DEF vars, inner, flushVars, startVars
    <2> QED
      BY <1>0, <2>1 DEF Live
  <1> QED
    BY <1>2, <1>3, <1>4, <1>5, <1>6, <1>7 DEF Next

\* Tier-2 never serves a route over other pools than those asked for, and
\* every route of the store or of a file has an entry for its pair.
THEOREM IndexNeverMisleads == Spec => []IndexFaithful
  BY TypeInit, TypeNext, IndexInit, IndexNext, PTL DEF Spec

-----------------------------------------------------------------------------
\* Hops on disk: but for the files this process could not read, what is being
\* written was read after all that is there.
Kept == { h \in diskHops : DexOf[h] \notin unread }
HopsOnDisk ==
    /\ Kept \subseteq hops
    /\ flusher = "files" => Kept \subseteq snapHops /\ snapHops \subseteq hops

OnlyUnreadLost == \A h \in diskHops \ diskHops' : DexOf[h] \in unread

LEMMA HopsInit == Init => HopsOnDisk
  BY DEF Init, HopsOnDisk, Kept

\* A file that is written keeps the hops of its DEX, as they were all read.
LEMMA HopsNext == HopsOnDisk /\ [Next]_vars => HopsOnDisk' /\ OnlyUnreadLost
  <1> SUFFICES ASSUME HopsOnDisk, [Next]_vars
               PROVE  HopsOnDisk' /\ OnlyUnreadLost
    OBVIOUS
  <1>1. CASE UNCHANGED <<diskHops, snapHops, flusher, unread>> /\ hops \subseteq hops'
    BY <1>1 DEF HopsOnDisk, Kept, OnlyUnreadLost
  <1>2. ASSUME NEW s \in Sig, AskRoute(s) \/ AskPair(s) \/ record_hops(s)
        PROVE  HopsOnDisk' /\ OnlyUnreadLost
    BY <1>1, <1>2 DEF AskRoute, AskPair, record_hops, inner, flushVars, startVars
  <1>3. ASSUME NEW s \in Sig, NEW a \in Amount, insert_route(s, a)
        PROVE  HopsOnDisk' /\ OnlyUnreadLost
    BY <1>1, <1>3 DEF insert_route, flushVars, startVars
  <1>4. CASE get_route
    BY <1>1, <1>4 DEF get_route, HotHit, Absent, ColdHit, Promote, PromoteTooLate, inner, flushVars,
                      startVars
  <1>5. CASE ReadRoutes \/ WriteRoutes
    BY <1>5 DEF ReadRoutes, WriteRoutes, inner, startVars, HopsOnDisk, Kept, OnlyUnreadLost
  <1>6. CASE ReadHops
    BY <1>6 DEF ReadHops, inner, startVars, HopsOnDisk, Kept, OnlyUnreadLost
  <1>7. ASSUME NEW d \in Dex, WriteHops(d)  PROVE HopsOnDisk' /\ OnlyUnreadLost
    <2>1. UNCHANGED <<hops, snapHops, flusher, unread>> /\ flusher = "files"
      BY <1>7 DEF WriteHops, inner, startVars
    <2>2. \/ diskHops' = diskHops
          \/ diskHops' = { h \in diskHops : DexOf[h] # d } \cup { h \in snapHops : DexOf[h] = d }
      BY <1>7 DEF WriteHops
    <2> QED
      BY <2>1, <2>2 DEF HopsOnDisk, Kept, OnlyUnreadLost
  <1>8. CASE Rest
    BY <1>8 DEF Rest, inner, startVars, HopsOnDisk, Kept, OnlyUnreadLost
  <1>9. CASE Restart
    <2>1. PICK file \in {disk, NoFile}, missed \in SUBSET Dex :
               StartWith(file.routes, file.pairs, { h \in diskHops : DexOf[h] \notin missed }, missed)
      BY <1>9 DEF Restart
    <2>2. /\ hops' = { h \in diskHops : DexOf[h] \notin missed } /\ unread' = missed
          /\ flusher' = "sleeping" /\ diskHops' = diskHops
      BY <2>1 DEF StartWith
    <2> QED
      BY <2>2 DEF HopsOnDisk, Kept, OnlyUnreadLost
  <1>10. CASE UNCHANGED vars
    BY <1>10 DEF vars, inner, flushVars, startVars, HopsOnDisk, Kept, OnlyUnreadLost
  <1> QED
    BY <1>2, <1>3, <1>4, <1>5, <1>6, <1>7, <1>8, <1>9, <1>10 DEF Next, flush_to_disk

\* A hop that reached a file leaves the files only when the process that writes
\* its file could not read it at its start, whatever writes fail and wherever
\* the process stops, for any number of DEXes and restarts.
THEOREM SavedHopsAreKept == Spec => SavedHopsStay
  <1>1. HopsOnDisk /\ [Next]_vars => [\A h \in diskHops \ diskHops' : DexOf[h] \in unread]_vars
    BY HopsNext DEF OnlyUnreadLost
  <1> QED
    BY <1>1, HopsInit, HopsNext, PTL DEF Spec, SavedHopsStay

-----------------------------------------------------------------------------
\* What a stored route can serve.

ServesOn == \A s \in Live \cap Live', a \in Amount :
                restarts' = restarts /\ CanServe(TemplateOf(s), a) => CanServe(TemplateOf(s)', a)

\* A step that leaves both generations alone changes no template.
LEMMA SameServes == ASSUME UNCHANGED <<hot, cold>>  PROVE ServesOn
  BY DEF ServesOn, TemplateOf

\* A push puts in the template that was there, if one was, and a rotation
\* moves the hot templates as they are.
LEMMA PushServes ==
    ASSUME NEW kept, NEW s \in Sig, NEW t, PushHot(kept, s, t),
           TypeOK, OneGeneration, IsMap(kept, Sig, Template),
           s \notin DOMAIN hot, DOMAIN kept = DOMAIN cold \ {s},
           \A x \in DOMAIN kept : kept[x] = cold[x],
           s \in DOMAIN cold => t = cold[s]
    PROVE  ServesOn
  <1> SUFFICES ASSUME NEW x \in Live, x \in Live'
               PROVE  TemplateOf(x)' = TemplateOf(x)
    BY DEF ServesOn
  <1>1. CASE Cardinality(DOMAIN hot) >= ROUTE_SEG_CAP
    <2>1. cold' = hot /\ DOMAIN hot' = {s} /\ hot'[s] = t
      BY <1>1 DEF PushHot, With, Empty
    <2>2. x = s \/ x \in DOMAIN hot
      BY <2>1 DEF Live
    <2> QED
      BY <2>1, <2>2 DEF Live, TemplateOf
  <1>2. CASE ~(Cardinality(DOMAIN hot) >= ROUTE_SEG_CAP)
    <2>1. /\ cold' = kept /\ DOMAIN hot' = DOMAIN hot \cup {s} /\ hot'[s] = t
          /\ \A y \in DOMAIN hot : hot'[y] = hot[y]
      BY <1>2 DEF PushHot, With
    <2> QED
      BY <2>1 DEF Live, TemplateOf
  <1> QED
    BY <1>1, <1>2

\* An insertion adds a variant to the template that is there, in place.
LEMMA InsertServes ==
    ASSUME NEW s \in Sig, NEW a \in Amount, insert_route(s, a), TypeOK, OneGeneration
    PROVE  ServesOn
  <1>1. CASE InsertKnown(s, a)
    <2>1. DOMAIN hot' = DOMAIN hot /\ DOMAIN cold' = DOMAIN cold
      BY <1>1 DEF InsertKnown, TypeOK, IsMap
    <2>2. \A x \in DOMAIN hot : hot'[x] = hot[x] \/ hot'[x] = AddedVariant(hot[x], a)
      BY <1>1 DEF InsertKnown, TypeOK, IsMap
    <2>3. \A x \in DOMAIN cold : cold'[x] = cold[x] \/ cold'[x] = AddedVariant(cold[x], a)
      BY <1>1 DEF InsertKnown, TypeOK, IsMap
    <2>4. \A x \in Live : \/ TemplateOf(x)' = TemplateOf(x)
                          \/ TemplateOf(x)' = AddedVariant(TemplateOf(x), a)
      BY <2>1, <2>2, <2>3 DEF Live, TemplateOf
    <2>5. \A x \in Live : TemplateOf(x) \in Template
      BY DEF Live, TemplateOf, TypeOK, IsMap
    <2>6. ASSUME NEW t \in Template, NEW b \in Amount, CanServe(t, b)
          PROVE  CanServe(AddedVariant(t, a), b)
      BY <2>6 DEF CanServe, AddedVariant, Template
    <2> QED
      BY <2>4, <2>5, <2>6 DEF ServesOn
  <1>2. CASE InsertNew(s, a)
    <2>1. PICK t : PushHot(cold, s, t)
      BY <1>2 DEF InsertNew
    <2>2. s \notin DOMAIN hot /\ s \notin DOMAIN cold /\ IsMap(cold, Sig, Template)
      BY <1>2 DEF InsertNew, Live, TypeOK
    <2>3. DOMAIN cold = DOMAIN cold \ {s}
      BY <2>2
    <2> QED
      BY <2>1, <2>2, <2>3, PushServes
  <1> QED
    BY <1>1, <1>2 DEF insert_route

\* Every step but a restart keeps what a route can serve.
LEMMA NextServes == TypeOK /\ OneGeneration /\ [Next]_vars => ServesOn
  <1> SUFFICES ASSUME TypeOK, OneGeneration, [Next]_vars  PROVE ServesOn
    OBVIOUS
  <1>1. ASSUME NEW s \in Sig, AskRoute(s) \/ AskPair(s) \/ record_hops(s)  PROVE ServesOn
    BY <1>1, SameServes DEF AskRoute, AskPair, record_hops, inner
  <1>2. CASE HotHit \/ Absent \/ ColdHit \/ PromoteTooLate
    BY <1>2, SameServes DEF HotHit, Absent, ColdHit, PromoteTooLate, inner
  <1>3. CASE Promote
    <2>1. reader.sig \in DOMAIN cold /\ IsMap(cold, Sig, Template)
      BY <1>3 DEF Promote, TypeOK
    <2>2. reader.sig \in Sig /\ reader.sig \notin DOMAIN hot
      BY <2>1 DEF OneGeneration, IsMap
    <2>3. /\ IsMap(Without(cold, reader.sig), Sig, Template)
          /\ DOMAIN Without(cold, reader.sig) = DOMAIN cold \ {reader.sig}
          /\ \A x \in DOMAIN cold \ {reader.sig} : Without(cold, reader.sig)[x] = cold[x]
      BY <2>1 DEF IsMap, Without, Restrict
    <2>4. \A x \in DOMAIN Without(cold, reader.sig) : Without(cold, reader.sig)[x] = cold[x]
      BY <2>3
    <2>5. PushHot(Without(cold, reader.sig), reader.sig, cold[reader.sig])
      BY <1>3 DEF Promote
    <2> HIDE DEF Without
    <2> QED
      BY <2>2, <2>3, <2>4, <2>5, PushServes
  <1>4. CASE flush_to_disk
    BY <1>4, SameServes DEF flush_to_disk, ReadRoutes, WriteRoutes, ReadHops, WriteHops, Rest, inner
  <1>5. CASE Restart
    <2>1. restarts' # restarts
      BY <1>5 DEF Restart, StartWith, TypeOK
    <2> QED
      BY <2>1 DEF ServesOn
  <1>6. CASE UNCHANGED vars
    BY <1>6, SameServes DEF vars, inner
  <1> QED
    BY <1>1, <1>2, <1>3, <1>4, <1>5, <1>6, InsertServes DEF Next, get_route

\* What a route can serve it can serve until it is evicted or the process stops,
\* through promotions, rotations and insertions of other amounts.
THEOREM RoutesKeepServing == Spec => KeepsServing
  <1>1. TypeOK /\ Generations /\ [Next]_vars => [ServesOn]_vars
    BY NextServes DEF Generations
  <1>2. [ServesOn]_vars
        <=> [\A s \in Live \cap Live', a \in Amount :
                restarts' = restarts /\ CanServe(TemplateOf(s), a) => CanServe(TemplateOf(s)', a)]_vars
    BY DEF ServesOn
  <1> QED
    BY <1>1, <1>2, TypeInit, TypeNext, GenerationsInit, GenerationsNext, PTL DEF Spec, KeepsServing

=============================================================================
