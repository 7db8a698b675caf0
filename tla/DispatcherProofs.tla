-------------------------- MODULE DispatcherProofs ---------------------------
(***************************************************************************)
(* Dispatcher, proved for every finite set of items and of workers, every  *)
(* age limit, rates and clock resolution.                                  *)
(*                                                                         *)
(* Shape is the part of TypeOK that does not concern the limiters; their   *)
(* part comes from the theorems of RateLimiterProofs, instantiated once    *)
(* for each.  PermitBalance and GaugeBalance are inductive given Shape:    *)
(* each step moves one worker or one push from one place of the balance to *)
(* another.  OneHome is inductive given Shape: the LIFO and the workers'   *)
(* hands pass an item on without a copy.  BurstBound needs CarriedBound,   *)
(* which bounds the hand-overs of every interval up to a second.  The      *)
(* refinement of DispatchPromise rests on all but that, and on NothingLost *)
(* and SlotsFit.                                                           *)
(***************************************************************************)
EXTENDS Dispatcher, FiniteSetTheorems, SequenceTheorems, TLAPS

RestP == INSTANCE RateLimiterProofs WITH timestamps <- restTs, granted <- restGranted,
            answer <- TRUE, Ticket <- Item, MaxPerSecond <- RestRate
GrpcP == INSTANCE RateLimiterProofs WITH timestamps <- grpcTs, granted <- grpcGranted,
            answer <- TRUE, Ticket <- Item, MaxPerSecond <- GrpcRate

Shape ==
    /\ lifo \in Seq(Item)
    /\ permits \in Nat
    /\ queue_depth \in Int
    /\ producer \in [Item -> ProducerStep]
    /\ pc \in [Worker -> WorkerStep]
    /\ held \in [Worker -> Item \cup {NoItem}]
    /\ \A w \in Worker : held[w] # NoItem <=> pc[w] \in InHand
    /\ age \in [Item -> 0 .. MaxAge + 1]
    /\ waited \in [Item -> BOOLEAN]
    /\ slot \in [Item -> {"none", "rest", "grpc"}]
    /\ outcome \in [Item -> Outcome]
    /\ wire \in [Item -> 0 .. SECOND]

Limiters == RestP!IInv /\ GrpcP!IInv

USE DispatcherAssumption

-----------------------------------------------------------------------------
\* The limiters.

LEMMA LimiterConstants == RestP!LimiterAssumption /\ GrpcP!LimiterAssumption
  BY DEF DispatcherAssumption, RestP!LimiterAssumption, GrpcP!LimiterAssumption

LEMMA RestAcquire ==
    ASSUME RestP!IInv, NEW i \in Item, Rest!Acquire(i)
    PROVE  RestP!IInv'
  <1>1. RestP!Acquire(i)
    BY DEF Rest!Acquire, Rest!Fresh, Rest!HasRoom, Rest!Retained, Rest!Cardinality,
           RestP!Acquire, RestP!Fresh, RestP!HasRoom, RestP!Retained, RestP!Cardinality
  <1>2. TRUE' \in BOOLEAN
    OBVIOUS
  <1> QED
    BY ONLY <1>1, <1>2, LimiterConstants, RestP!IInv, RestP!AcquireInv

LEMMA RestRefuse ==
    ASSUME RestP!IInv, Rest!Refuse
    PROVE  RestP!IInv'
  <1>1. RestP!Refuse
    BY DEF Rest!Refuse, Rest!HasRoom, Rest!Retained, Rest!Cardinality,
           RestP!Refuse, RestP!HasRoom, RestP!Retained, RestP!Cardinality
  <1>2. TRUE' \in BOOLEAN
    OBVIOUS
  <1> QED
    BY ONLY <1>1, <1>2, LimiterConstants, RestP!IInv, RestP!RefuseInv

LEMMA RestAdvance ==
    ASSUME RestP!IInv, Rest!Advance
    PROVE  RestP!IInv'
  <1>1. RestP!Advance
    BY DEF Rest!Advance, Rest!Older, RestP!Advance, RestP!Older
  <1>2. TRUE' \in BOOLEAN
    OBVIOUS
  <1> QED
    BY ONLY <1>1, <1>2, LimiterConstants, RestP!IInv, RestP!AdvanceInv

LEMMA GrpcAcquire ==
    ASSUME GrpcP!IInv, NEW i \in Item, Grpc!Acquire(i)
    PROVE  GrpcP!IInv'
  <1>1. GrpcP!Acquire(i)
    BY DEF Grpc!Acquire, Grpc!Fresh, Grpc!HasRoom, Grpc!Retained, Grpc!Cardinality,
           GrpcP!Acquire, GrpcP!Fresh, GrpcP!HasRoom, GrpcP!Retained, GrpcP!Cardinality
  <1>2. TRUE' \in BOOLEAN
    OBVIOUS
  <1> QED
    BY ONLY <1>1, <1>2, LimiterConstants, GrpcP!IInv, GrpcP!AcquireInv

LEMMA GrpcRefuse ==
    ASSUME GrpcP!IInv, Grpc!Refuse
    PROVE  GrpcP!IInv'
  <1>1. GrpcP!Refuse
    BY DEF Grpc!Refuse, Grpc!HasRoom, Grpc!Retained, Grpc!Cardinality,
           GrpcP!Refuse, GrpcP!HasRoom, GrpcP!Retained, GrpcP!Cardinality
  <1>2. TRUE' \in BOOLEAN
    OBVIOUS
  <1> QED
    BY ONLY <1>1, <1>2, LimiterConstants, GrpcP!IInv, GrpcP!RefuseInv

LEMMA GrpcAdvance ==
    ASSUME GrpcP!IInv, Grpc!Advance
    PROVE  GrpcP!IInv'
  <1>1. GrpcP!Advance
    BY DEF Grpc!Advance, Grpc!Older, GrpcP!Advance, GrpcP!Older
  <1>2. TRUE' \in BOOLEAN
    OBVIOUS
  <1> QED
    BY ONLY <1>1, <1>2, LimiterConstants, GrpcP!IInv, GrpcP!AdvanceInv

LEMMA RestUntouched ==
    ASSUME RestP!IInv, UNCHANGED restVars
    PROVE  RestP!IInv'
  BY DEF restVars, RestP!IInv, RestP!TypeOK, RestP!RemembersTheWindow,
         RestP!Retained, RestP!Entry

LEMMA GrpcUntouched ==
    ASSUME GrpcP!IInv, UNCHANGED grpcVars
    PROVE  GrpcP!IInv'
  BY DEF grpcVars, GrpcP!IInv, GrpcP!TypeOK, GrpcP!RemembersTheWindow,
         GrpcP!Retained, GrpcP!Entry

LEMMA LimitersInit == Init => Limiters
  <1> SUFFICES ASSUME Init PROVE Limiters
    OBVIOUS
  <1>1. RestP!Init
    BY DEF Init, RestP!Init
  <1>2. GrpcP!Init
    BY DEF Init, GrpcP!Init
  <1>3. RestP!IInv
    BY ONLY <1>1, LimiterConstants, RestP!InitInv
  <1>4. GrpcP!IInv
    BY ONLY <1>2, LimiterConstants, GrpcP!InitInv
  <1> QED
    BY <1>3, <1>4 DEF Limiters

LEMMA LimitersNext == Shape /\ Limiters /\ [Next]_vars => Limiters'
  <1> SUFFICES ASSUME Shape, Limiters, [Next]_vars
               PROVE  Limiters'
    OBVIOUS
  <1> USE DEF Limiters
  <1>1. CASE Tick
    BY <1>1, RestAdvance, GrpcAdvance DEF Tick
  <1>2. ASSUME NEW i \in Item, push_to_queue(i)
        PROVE  Limiters'
    BY <1>2, RestUntouched, GrpcUntouched DEF push_to_queue, Push, Count, AddPermit
  <1>3. ASSUME NEW w \in Worker, worker(w)
        PROVE  Limiters'
    <2>1. ASSUME pc[w] \in InHand PROVE held[w] \in Item
      BY <2>1 DEF Shape
    <2>2. CASE RestSlot(w)
      BY <2>1, <2>2, RestAcquire, GrpcUntouched DEF RestSlot, At, InHand
    <2>3. CASE RestFull(w)
      BY <2>3, RestRefuse, GrpcUntouched DEF RestFull
    <2>4. CASE GrpcSlot(w)
      BY <2>1, <2>4, GrpcAcquire, RestUntouched DEF GrpcSlot, At, InHand
    <2>5. CASE GrpcFull(w)
      BY <2>5, GrpcRefuse, RestUntouched DEF GrpcFull
    <2>6. CASE Take(w) \/ Pop(w) \/ Inspect(w) \/ PushBack(w) \/ CountBack(w) \/ PermitBack(w)
      BY <2>6, RestUntouched, GrpcUntouched
      DEF Take, Pop, Inspect, PushBack, CountBack, PermitBack
    <2>7. CASE Wake(w) \/ BuildDrop(w) \/ HandOver(w) \/ Reply(w)
      BY <2>7, RestUntouched, GrpcUntouched DEF Wake, BuildDrop, HandOver, Reply
    <2> QED
      BY <1>3, <2>2, <2>3, <2>4, <2>5, <2>6, <2>7 DEF worker
  <1>4. CASE UNCHANGED vars
    BY <1>4, RestUntouched, GrpcUntouched DEF vars
  <1> QED
    BY <1>1, <1>2, <1>3, <1>4 DEF Next

-----------------------------------------------------------------------------
\* The shape of the rest of the state.

LEMMA Shapely == Init => Shape
  BY DEF Init, Shape, ProducerStep, WorkerStep, InHand, Outcome, DispatcherAssumption

\* What pop leaves and returns.
LEMMA Popped ==
    ASSUME NEW s \in Seq(Item), s # <<>>
    PROVE  /\ Len(s) \in Nat \ {0}
           /\ Top(s) \in Item
           /\ Below(s) \in Seq(Item)
           /\ Len(Below(s)) = Len(s) - 1
           /\ DOMAIN Below(s) = 1 .. Len(s) - 1
           /\ \A k \in 1 .. Len(s) - 1 : Below(s)[k] = s[k]
  <1>1. Len(s) \in Nat \ {0} /\ \A k \in 1 .. Len(s) : s[k] \in Item
    BY LenProperties, EmptySeq
  <1>2. /\ Below(s) \in Seq(Item)
        /\ Len(Below(s)) = Len(s) - 1
        /\ \A k \in 1 .. Len(s) - 1 : Below(s)[k] = s[k]
    <2> DEFINE n == Len(s) - 1
    <2>1. n \in Int /\ \A k \in 1 .. n : s[k] \in Item
      BY <1>1
    <2> HIDE DEF n
    <2>2. /\ SubSeq(s, 1, n) \in Seq(Item)
          /\ Len(SubSeq(s, 1, n)) = IF 1 <= n THEN n - 1 + 1 ELSE 0
          /\ \A k \in 1 .. n - 1 + 1 : SubSeq(s, 1, n)[k] = s[1 + k - 1]
      BY <2>1, SubSeqProperties, 1 \in Int
    <2>3. n - 1 + 1 = n /\ \A k \in 1 .. n : 1 + k - 1 = k
      BY <2>1
    <2>4. \A k \in 1 .. n : SubSeq(s, 1, n)[k] = s[k]
      BY <2>2, <2>3
    <2>5. n \in Nat
      BY <1>1 DEF n
    <2>6. Len(SubSeq(s, 1, n)) = n
      BY <2>2, <2>5
    <2> QED
      BY <2>2, <2>4, <2>6 DEF Below, n
  <1> QED
    BY <1>1, <1>2, LenProperties DEF Top

LEMMA ShapeNext == Shape /\ [Next]_vars => Shape'
  <1> SUFFICES ASSUME Shape, [Next]_vars
               PROVE  Shape'
    OBVIOUS
  <1> USE DEF Shape, DispatcherAssumption
  <1>1. CASE Tick
    <2>1. age' \in [Item -> 0 .. MaxAge + 1]
      BY <1>1 DEF Tick
    <2>2. wire' \in [Item -> 0 .. SECOND]
      BY <1>1 DEF Tick
    <2> QED
      BY <1>1, <2>1, <2>2 DEF Tick, queueVars
  <1>2. ASSUME NEW i \in Item, push_to_queue(i)
        PROVE  Shape'
    <2> USE DEF ProducerStep, itemVars
    <2>1. CASE Push(i)
      BY <2>1 DEF Push
    <2>2. CASE Count(i)
      BY <2>2 DEF Count
    <2>3. CASE AddPermit(i)
      BY <2>3 DEF AddPermit
    <2> QED
      BY <1>2, <2>1, <2>2, <2>3 DEF push_to_queue
  <1>3. ASSUME NEW w \in Worker, worker(w)
        PROVE  Shape'
    <2> USE DEF At, Goto, Settle, GiveSlot, MoveOn, queueVars, itemVars, WorkerStep, InHand
    <2>1. CASE Take(w)
      <3>1. permits' \in Nat
        BY <2>1 DEF Take
      <3> QED
        BY <2>1, <3>1 DEF Take
    <2>2. CASE Pop(w)
      <3>1. CASE lifo = <<>>
        BY <2>2, <3>1 DEF Pop
      <3>2. CASE lifo # <<>>
        <4>1. Top(lifo) \in Item /\ Below(lifo) \in Seq(Item)
          BY <3>2, Popped
        <4> QED
          BY <2>2, <3>2, <4>1 DEF Pop
      <3> QED
        BY <3>1, <3>2
    <2>3. CASE Inspect(w)
      <3>1. held[w] \in Item /\ queue_depth' \in Int
        BY <2>3 DEF Inspect
      <3>2. CASE Stale(held[w])
        <4>1. outcome' \in [Item -> Outcome]
          BY <2>3, <3>2 DEF Inspect, Outcome
        <4>2. age' \in [Item -> 0 .. MaxAge + 1]
          <5>1. age' = [age EXCEPT ![held[w]] = 0]
            BY <2>3, <3>2 DEF Inspect
          <5>2. 0 \in 0 .. MaxAge + 1
            OBVIOUS
          <5> QED
            BY <3>1, <5>1, <5>2
        <4>3. /\ pc' = [pc EXCEPT ![w] = "idle"]
              /\ held' = [held EXCEPT ![w] = NoItem]
          BY <2>3, <3>2 DEF Inspect
        <4>4. /\ pc' \in [Worker -> WorkerStep]
              /\ held' \in [Worker -> Item \cup {NoItem}]
              /\ \A v \in Worker : held'[v] # NoItem <=> pc'[v] \in InHand
          BY <4>3
        <4> QED
          BY <2>3, <3>1, <4>1, <4>2, <4>4 DEF Inspect
      <3>3. CASE ~ Stale(held[w])
        BY <2>3, <3>1, <3>3 DEF Inspect
      <3> QED
        BY <3>2, <3>3
    <2>4. CASE RestSlot(w)
      BY <2>4 DEF RestSlot
    <2>5. CASE RestFull(w)
      BY <2>5 DEF RestFull
    <2>6. CASE GrpcSlot(w)
      BY <2>6 DEF GrpcSlot
    <2>7. CASE GrpcFull(w)
      BY <2>7 DEF GrpcFull
    <2>8. CASE PushBack(w)
      BY <2>8 DEF PushBack
    <2>9. CASE CountBack(w)
      BY <2>9 DEF CountBack
    <2>10. CASE PermitBack(w)
      BY <2>10 DEF PermitBack
    <2>11. CASE Wake(w)
      BY <2>11 DEF Wake
    <2>12. CASE BuildDrop(w)
      BY <2>12 DEF BuildDrop, Outcome
    <2>13. CASE HandOver(w)
      BY <2>13 DEF HandOver
    <2>14. CASE Reply(w)
      BY <2>14 DEF Reply, Outcome
    <2> QED
      BY <1>3, <2>1, <2>2, <2>3, <2>4, <2>5, <2>6, <2>7, <2>8, <2>9, <2>10,
         <2>11, <2>12, <2>13, <2>14 DEF worker
  <1>4. CASE UNCHANGED vars
    BY <1>4 DEF vars, queueVars, itemVars
  <1> QED
    BY <1>1, <1>2, <1>3, <1>4 DEF Next

\* Every variable keeps its type, the limiters included: the Vec of each is
\* never longer than its rate, and a worker holds an item exactly between its
\* pop and the end of its loop body.
THEOREM TypeCorrect == Spec => []TypeOK
  <1>1. Shape /\ Limiters => TypeOK
    BY DEF Shape, Limiters, TypeOK, RestP!IInv, GrpcP!IInv,
           RestP!TypeOK, RestP!Entry, RestP!IsFiniteSet, RestP!Cardinality,
           GrpcP!TypeOK, GrpcP!Entry, GrpcP!IsFiniteSet, GrpcP!Cardinality,
           Rest!TypeOK, Rest!Entry, Rest!IsFiniteSet, Rest!Cardinality,
           Grpc!TypeOK, Grpc!Entry, Grpc!IsFiniteSet, Grpc!Cardinality
  <1> QED
    BY <1>1, Shapely, ShapeNext, LimitersInit, LimitersNext, PTL DEF Spec

-----------------------------------------------------------------------------
\* The semaphore and the gauge.

\* What the step from a to b of one task adds to the number of tasks whose
\* step is in S.
Delta(S, a, b) == IF b \in S THEN (IF a \in S THEN 0 ELSE 1)
                  ELSE (IF a \in S THEN 0 - 1 ELSE 0)

Where(D, f, S) == { y \in D : f[y] \in S }

\* g differs from f at most at x.
SameBut(D, x, f, g) == \A y \in D \ {x} : g[y] = f[y]

LEMMA OneMoves ==
    ASSUME NEW D, NEW f, NEW g, NEW x, NEW S,
           IsFiniteSet(D), x \in D, SameBut(D, x, f, g)
    PROVE  Cardinality(Where(D, g, S)) = Cardinality(Where(D, f, S)) + Delta(S, f[x], g[x])
  <1> DEFINE b == g[x]
             F == Where(D, f, S)
             G == Where(D, g, S)
  <1> USE DEF SameBut
  <1>1. IsFiniteSet(F) /\ Cardinality(F) \in Nat
    <2>1. F \in SUBSET D
      BY DEF Where
    <2> QED
      BY <2>1, FS_Subset, FS_CardinalityType
  <1>2. CASE b \in S /\ f[x] \notin S
    <2>1. G = F \cup {x} /\ x \notin F
      BY <1>2 DEF Where
    <2>2. Cardinality(G) = Cardinality(F) + 1
      BY <1>1, <2>1, FS_AddElement
    <2> QED
      BY <1>2, <2>2 DEF Delta
  <1>3. CASE b \notin S /\ f[x] \in S
    <2>1. G = F \ {x} /\ x \in F
      BY <1>3 DEF Where
    <2>2. Cardinality(G) = Cardinality(F) - 1
      BY <1>1, <2>1, FS_RemoveElement
    <2> QED
      BY <1>1, <1>3, <2>2 DEF Delta
  <1>4. CASE b \in S /\ f[x] \in S
    <2>1. G = F
      BY <1>4 DEF Where
    <2> QED
      BY <1>1, <1>4, <2>1 DEF Delta
  <1>5. CASE b \notin S /\ f[x] \notin S
    <2>1. G = F
      BY <1>5 DEF Where
    <2> QED
      BY <1>1, <1>5, <2>1 DEF Delta
  <1> QED
    BY <1>2, <1>3, <1>4, <1>5

LEMMA CountsAreNat ==
    ASSUME NEW S
    PROVE  /\ Cardinality(WorkersAt(S)) \in Nat
           /\ Cardinality(ProducersAt(S)) \in Nat
  <1>1. WorkersAt(S) \in SUBSET Worker /\ ProducersAt(S) \in SUBSET Item
    BY DEF WorkersAt, ProducersAt
  <1>2. IsFiniteSet(WorkersAt(S)) /\ IsFiniteSet(ProducersAt(S))
    BY <1>1, FS_Subset DEF DispatcherAssumption
  <1> QED
    BY <1>2, FS_CardinalityType

LEMMA WorkerMoves ==
    ASSUME Shape, NEW w \in Worker, NEW b, pc' = [pc EXCEPT ![w] = b], NEW S
    PROVE  Cardinality(WorkersAt(S)') = Cardinality(WorkersAt(S)) + Delta(S, pc[w], b)
  <1>1. pc'[w] = b /\ SameBut(Worker, w, pc, pc')
    BY DEF Shape, SameBut
  <1>2. IsFiniteSet(Worker)
    BY DEF DispatcherAssumption
  <1>3. Cardinality(Where(Worker, pc', S)) = Cardinality(Where(Worker, pc, S)) + Delta(S, pc[w], pc'[w])
    BY ONLY <1>1, <1>2, w \in Worker, OneMoves
  <1> QED
    BY <1>1, <1>3 DEF WorkersAt, Where

LEMMA ProducerMoves ==
    ASSUME Shape, NEW i \in Item, NEW b, producer' = [producer EXCEPT ![i] = b], NEW S
    PROVE  Cardinality(ProducersAt(S)') = Cardinality(ProducersAt(S)) + Delta(S, producer[i], b)
  <1>1. producer'[i] = b /\ SameBut(Item, i, producer, producer')
    BY DEF Shape, SameBut
  <1>2. IsFiniteSet(Item)
    BY DEF DispatcherAssumption
  <1>3. Cardinality(Where(Item, producer', S))
          = Cardinality(Where(Item, producer, S)) + Delta(S, producer[i], producer'[i])
    BY ONLY <1>1, <1>2, i \in Item, OneMoves
  <1> QED
    BY <1>1, <1>3 DEF ProducersAt, Where

Balance == PermitBalance /\ GaugeBalance

\* The provers read an equality on Len(lifo) as one on its domain; Queued
\* keeps it a number.
Queued == Len(lifo)

LEMMA QueuedNat ==
    /\ Shape => Queued \in Nat
    /\ Shape' => Queued' \in Nat
  BY DEF Shape, Queued

LEMMA PermitEquation ==
    ASSUME PermitBalance
    PROVE  Queued = permits + Cardinality(WorkersAt({"permitted"}))
                            + Cardinality(ProducersAt({"pushed", "counted"}))
                            + Cardinality(WorkersAt({"repushed", "recounted"}))
  BY Zenon DEF PermitBalance, Queued

LEMMA PermitEquationNext ==
    ASSUME Queued' = permits' + Cardinality(WorkersAt({"permitted"})')
                              + Cardinality(ProducersAt({"pushed", "counted"})')
                              + Cardinality(WorkersAt({"repushed", "recounted"})')
    PROVE  PermitBalance'
  BY Zenon DEF PermitBalance, Queued

\* A step of worker w from a to b that leaves the pushes alone, and what it
\* must do to the LIFO, the semaphore and the gauge.
WorkerEffect(w, a, b) ==
    /\ pc[w] = a
    /\ pc' = [pc EXCEPT ![w] = b]
    /\ producer' = producer
    /\ Queued' - Queued = permits' - permits
           + Delta({"permitted"}, a, b) + Delta({"repushed", "recounted"}, a, b)
    /\ queue_depth' - queue_depth = permits' - permits
           + Delta({"permitted", "popped"}, a, b) + Delta({"recounted"}, a, b)

LEMMA WorkerBalance ==
    ASSUME NEW w, NEW a, NEW b,
           Shape, Shape', Balance, w \in Worker, WorkerEffect(w, a, b)
    PROVE  Balance'
  <1> USE DEF WorkerEffect
  <1>1. /\ Queued \in Nat /\ Queued' \in Nat /\ permits \in Nat /\ permits' \in Nat
        /\ queue_depth \in Int /\ queue_depth' \in Int
    BY QueuedNat DEF Shape
  <1>2. /\ Delta({"permitted"}, a, b) \in Int
        /\ Delta({"repushed", "recounted"}, a, b) \in Int
        /\ Delta({"permitted", "popped"}, a, b) \in Int
        /\ Delta({"recounted"}, a, b) \in Int
    BY DEF Delta
  <1>3. /\ Cardinality(WorkersAt({"permitted"})) \in Nat
        /\ Cardinality(WorkersAt({"repushed", "recounted"})) \in Nat
        /\ Cardinality(WorkersAt({"permitted", "popped"})) \in Nat
        /\ Cardinality(WorkersAt({"recounted"})) \in Nat
        /\ Cardinality(ProducersAt({"pushed", "counted"})) \in Nat
        /\ Cardinality(ProducersAt({"counted"})) \in Nat
    BY CountsAreNat
  <1>4. ProducersAt({"pushed", "counted"})' = ProducersAt({"pushed", "counted"})
        /\ ProducersAt({"counted"})' = ProducersAt({"counted"})
    BY DEF ProducersAt
  <1>5. PermitBalance'
    <2>1. /\ Cardinality(WorkersAt({"permitted"})') = Cardinality(WorkersAt({"permitted"}))
                + Delta({"permitted"}, a, b)
          /\ Cardinality(WorkersAt({"repushed", "recounted"})')
                = Cardinality(WorkersAt({"repushed", "recounted"}))
                + Delta({"repushed", "recounted"}, a, b)
      BY WorkerMoves
    <2>2. Queued = permits + Cardinality(WorkersAt({"permitted"}))
                           + Cardinality(ProducersAt({"pushed", "counted"}))
                           + Cardinality(WorkersAt({"repushed", "recounted"}))
      BY PermitEquation DEF Balance
    <2>3. Queued' = permits' + Cardinality(WorkersAt({"permitted"})')
                             + Cardinality(ProducersAt({"pushed", "counted"})')
                             + Cardinality(WorkersAt({"repushed", "recounted"})')
      BY <1>1, <1>2, <1>3, <1>4, <2>1, <2>2
    <2> QED
      BY <2>3, PermitEquationNext
  <1>6. GaugeBalance'
    <2>1. /\ Cardinality(WorkersAt({"permitted", "popped"})')
                = Cardinality(WorkersAt({"permitted", "popped"}))
                + Delta({"permitted", "popped"}, a, b)
          /\ Cardinality(WorkersAt({"recounted"})') = Cardinality(WorkersAt({"recounted"}))
                + Delta({"recounted"}, a, b)
      BY WorkerMoves
    <2> QED
      BY <1>1, <1>2, <1>3, <1>4, <2>1 DEF Balance, GaugeBalance
  <1> QED
    BY <1>5, <1>6 DEF Balance

\* The same for a step of the push of item i.
ProducerEffect(i, a, b) ==
    /\ producer[i] = a
    /\ producer' = [producer EXCEPT ![i] = b]
    /\ pc' = pc
    /\ Queued' - Queued = permits' - permits + Delta({"pushed", "counted"}, a, b)
    /\ queue_depth' - queue_depth = permits' - permits + Delta({"counted"}, a, b)

LEMMA ProducerBalance ==
    ASSUME NEW i, NEW a, NEW b,
           Shape, Shape', Balance, i \in Item, ProducerEffect(i, a, b)
    PROVE  Balance'
  <1> USE DEF ProducerEffect
  <1>1. /\ Queued \in Nat /\ Queued' \in Nat /\ permits \in Nat /\ permits' \in Nat
        /\ queue_depth \in Int /\ queue_depth' \in Int
    BY QueuedNat DEF Shape
  <1>2. /\ Delta({"pushed", "counted"}, a, b) \in Int
        /\ Delta({"counted"}, a, b) \in Int
    BY DEF Delta
  <1>3. /\ Cardinality(WorkersAt({"permitted"})) \in Nat
        /\ Cardinality(WorkersAt({"repushed", "recounted"})) \in Nat
        /\ Cardinality(WorkersAt({"permitted", "popped"})) \in Nat
        /\ Cardinality(WorkersAt({"recounted"})) \in Nat
        /\ Cardinality(ProducersAt({"pushed", "counted"})) \in Nat
        /\ Cardinality(ProducersAt({"counted"})) \in Nat
    BY CountsAreNat
  <1>4. /\ WorkersAt({"permitted"})' = WorkersAt({"permitted"})
        /\ WorkersAt({"repushed", "recounted"})' = WorkersAt({"repushed", "recounted"})
        /\ WorkersAt({"permitted", "popped"})' = WorkersAt({"permitted", "popped"})
        /\ WorkersAt({"recounted"})' = WorkersAt({"recounted"})
    BY DEF WorkersAt
  <1>5. /\ Cardinality(ProducersAt({"pushed", "counted"})')
              = Cardinality(ProducersAt({"pushed", "counted"}))
              + Delta({"pushed", "counted"}, a, b)
        /\ Cardinality(ProducersAt({"counted"})') = Cardinality(ProducersAt({"counted"}))
              + Delta({"counted"}, a, b)
    BY ProducerMoves
  <1>6. PermitBalance'
    <2>1. Queued = permits + Cardinality(WorkersAt({"permitted"}))
                           + Cardinality(ProducersAt({"pushed", "counted"}))
                           + Cardinality(WorkersAt({"repushed", "recounted"}))
      BY PermitEquation DEF Balance
    <2>2. Queued' = permits' + Cardinality(WorkersAt({"permitted"})')
                             + Cardinality(ProducersAt({"pushed", "counted"})')
                             + Cardinality(WorkersAt({"repushed", "recounted"})')
      BY <1>1, <1>2, <1>3, <1>4, <1>5, <2>1
    <2> QED
      BY <2>2, PermitEquationNext
  <1>7. GaugeBalance'
    <2>1. queue_depth = permits + Cardinality(WorkersAt({"permitted", "popped"}))
                                + Cardinality(ProducersAt({"counted"}))
                                + Cardinality(WorkersAt({"recounted"}))
      BY DEF Balance, GaugeBalance
    <2>2. queue_depth' = permits' + Cardinality(WorkersAt({"permitted", "popped"})')
                                  + Cardinality(ProducersAt({"counted"})')
                                  + Cardinality(WorkersAt({"recounted"})')
      <3>1. queue_depth' = queue_depth + (permits' - permits) + Delta({"counted"}, a, b)
        BY <1>1, <1>2
      <3>2. /\ Cardinality(WorkersAt({"permitted", "popped"})')
                  = Cardinality(WorkersAt({"permitted", "popped"}))
            /\ Cardinality(WorkersAt({"recounted"})') = Cardinality(WorkersAt({"recounted"}))
        BY ONLY <1>4
      <3>3. Cardinality(ProducersAt({"counted"})')
              = Cardinality(ProducersAt({"counted"})) + Delta({"counted"}, a, b)
        BY <1>5
      <3>4. /\ permits \in Int /\ permits' \in Int
            /\ queue_depth \in Int /\ queue_depth' \in Int
            /\ Cardinality(WorkersAt({"permitted", "popped"})) \in Int
            /\ Cardinality(WorkersAt({"recounted"})) \in Int
            /\ Cardinality(ProducersAt({"counted"})) \in Int
            /\ Delta({"counted"}, a, b) \in Int
        BY <1>1, <1>2, <1>3
      <3>5. queue_depth' = permits' + Cardinality(WorkersAt({"permitted", "popped"}))
                 + (Cardinality(ProducersAt({"counted"})) + Delta({"counted"}, a, b))
                 + Cardinality(WorkersAt({"recounted"}))
        BY ONLY <2>1, <3>1, <3>4
      <3> QED
        BY ONLY <3>2, <3>3, <3>5
    <2> QED
      BY <2>2 DEF GaugeBalance
  <1> QED
    BY <1>6, <1>7 DEF Balance

\* The balance gives each taken permit an item.
LEMMA PermitMeansItem == Shape /\ Balance => PopFindsItem
  <1> SUFFICES ASSUME Shape, Balance, NEW w \in Worker, pc[w] = "permitted"
               PROVE  lifo # <<>>
    BY DEF PopFindsItem, At
  <1>1. w \in WorkersAt({"permitted"})
    BY DEF WorkersAt
  <1>2. IsFiniteSet(WorkersAt({"permitted"}))
    <2>1. WorkersAt({"permitted"}) \in SUBSET Worker
      BY DEF WorkersAt
    <2> QED
      BY <2>1, FS_Subset DEF DispatcherAssumption
  <1>3. Cardinality(WorkersAt({"permitted"})) # 0
    BY <1>1, <1>2, FS_EmptySet
  <1>4. /\ Cardinality(WorkersAt({"permitted"})) \in Nat
        /\ Cardinality(WorkersAt({"repushed", "recounted"})) \in Nat
        /\ Cardinality(ProducersAt({"pushed", "counted"})) \in Nat
    BY CountsAreNat
  <1>5. permits \in Nat
    BY DEF Shape
  <1>6. Queued = permits + Cardinality(WorkersAt({"permitted"}))
                         + Cardinality(ProducersAt({"pushed", "counted"}))
                         + Cardinality(WorkersAt({"repushed", "recounted"}))
    BY PermitEquation DEF Balance
  <1>7. Queued # 0
    BY <1>3, <1>4, <1>5, <1>6
  <1> QED
    BY <1>7 DEF Queued

LEMMA BalanceInit == Init => Balance
  <1> SUFFICES ASSUME Init PROVE Balance
    OBVIOUS
  <1>1. /\ WorkersAt({"permitted"}) = {} /\ WorkersAt({"repushed", "recounted"}) = {}
        /\ WorkersAt({"permitted", "popped"}) = {} /\ WorkersAt({"recounted"}) = {}
        /\ ProducersAt({"pushed", "counted"}) = {} /\ ProducersAt({"counted"}) = {}
    BY DEF Init, WorkersAt, ProducersAt
  <1>2. /\ Cardinality(WorkersAt({"permitted"})) = 0
        /\ Cardinality(WorkersAt({"repushed", "recounted"})) = 0
        /\ Cardinality(WorkersAt({"permitted", "popped"})) = 0
        /\ Cardinality(WorkersAt({"recounted"})) = 0
        /\ Cardinality(ProducersAt({"pushed", "counted"})) = 0
        /\ Cardinality(ProducersAt({"counted"})) = 0
    BY <1>1, FS_EmptySet
  <1>3. permits = 0 /\ queue_depth = 0 /\ Len(lifo) = 0
    BY DEF Init
  <1>4. PermitBalance
    BY ONLY <1>2, <1>3 DEF PermitBalance
  <1>5. GaugeBalance
    BY ONLY <1>2, <1>3 DEF GaugeBalance
  <1> QED
    BY <1>4, <1>5 DEF Balance

\* What each step does to the LIFO's length, the semaphore and the gauge.
LEMMA BalanceNext == Shape /\ Balance /\ [Next]_vars => Balance'
  <1> SUFFICES ASSUME Shape, Balance, [Next]_vars
               PROVE  Balance'
    OBVIOUS
  <1>0. Shape'
    BY ShapeNext
  <1>1. ASSUME UNCHANGED <<queueVars, producer, pc>>
        PROVE  Balance'
    BY <1>1 DEF queueVars, Balance, PermitBalance, GaugeBalance, WorkersAt, ProducersAt
  <1>2. Queued \in Nat /\ permits \in Nat /\ queue_depth \in Int
    BY QueuedNat DEF Shape
  <1>3. ASSUME NEW i \in Item, push_to_queue(i)
        PROVE  Balance'
    <2>1. CASE Push(i)
      <3>1. Queued' = Queued + 1
        BY <2>1, AppendProperties DEF Push, Shape, Queued
      <3>2. /\ Delta({"pushed", "counted"}, "absent", "pushed") = 1
            /\ Delta({"counted"}, "absent", "pushed") = 0
        BY DEF Delta
      <3>3. /\ producer[i] = "absent" /\ producer' = [producer EXCEPT ![i] = "pushed"]
            /\ UNCHANGED <<pc, permits, queue_depth>>
        BY <2>1 DEF Push
      <3>9. ProducerEffect(i, "absent", "pushed")
        BY <1>0, <1>2, <3>1, <3>2, <3>3 DEF ProducerEffect
      <3> QED
        BY ONLY <1>0, <3>9, Shape, Balance, i \in Item, ProducerBalance
    <2>2. CASE Count(i)
      <3>1. /\ Delta({"pushed", "counted"}, "pushed", "counted") = 0
            /\ Delta({"counted"}, "pushed", "counted") = 1
        BY DEF Delta
      <3>2. /\ producer[i] = "pushed" /\ producer' = [producer EXCEPT ![i] = "counted"]
            /\ queue_depth' = queue_depth + 1 /\ Queued' = Queued
            /\ UNCHANGED <<pc, permits>>
        BY <2>2 DEF Count, Queued
      <3>9. ProducerEffect(i, "pushed", "counted")
        BY <1>0, <1>2, <3>1, <3>2 DEF ProducerEffect
      <3> QED
        BY ONLY <1>0, <3>9, Shape, Balance, i \in Item, ProducerBalance
    <2>3. CASE AddPermit(i)
      <3>1. /\ Delta({"pushed", "counted"}, "counted", "done") = 0 - 1
            /\ Delta({"counted"}, "counted", "done") = 0 - 1
        BY DEF Delta
      <3>2. /\ producer[i] = "counted" /\ producer' = [producer EXCEPT ![i] = "done"]
            /\ permits' = permits + 1 /\ Queued' = Queued
            /\ UNCHANGED <<pc, queue_depth>>
        BY <2>3 DEF AddPermit, Queued
      <3>9. ProducerEffect(i, "counted", "done")
        BY <1>0, <1>2, <3>1, <3>2 DEF ProducerEffect
      <3> QED
        BY ONLY <1>0, <3>9, Shape, Balance, i \in Item, ProducerBalance
    <2> QED
      BY <1>3, <2>1, <2>2, <2>3 DEF push_to_queue
  <1>4. ASSUME NEW w \in Worker, worker(w)
        PROVE  Balance'
    <2> USE DEF At, Goto
    <2> DEFINE Quiet == {"idle", "rest", "grpc", "refused", "asleep", "building", "sending"}
    <2>1. ASSUME NEW b \in Quiet, pc[w] \in Quiet, pc' = [pc EXCEPT ![w] = b],
                 UNCHANGED <<queueVars, producer>>
          PROVE  Balance'
      <3>1. /\ Delta({"permitted"}, pc[w], b) = 0
            /\ Delta({"repushed", "recounted"}, pc[w], b) = 0
            /\ Delta({"permitted", "popped"}, pc[w], b) = 0
            /\ Delta({"recounted"}, pc[w], b) = 0
        BY <2>1 DEF Delta
      <3>2. Queued' = Queued /\ UNCHANGED <<permits, queue_depth, producer>>
        BY <2>1 DEF queueVars, Queued
      <3>9. WorkerEffect(w, pc[w], b)
        BY <1>0, <1>2, <2>1, <3>1, <3>2 DEF WorkerEffect
      <3> QED
        BY ONLY <1>0, <3>9, Shape, Balance, w \in Worker, WorkerBalance
    <2>2. CASE Take(w)
      <3>1. /\ Delta({"permitted"}, "idle", "permitted") = 1
            /\ Delta({"repushed", "recounted"}, "idle", "permitted") = 0
            /\ Delta({"permitted", "popped"}, "idle", "permitted") = 1
            /\ Delta({"recounted"}, "idle", "permitted") = 0
        BY DEF Delta
      <3>2. /\ pc[w] = "idle" /\ pc' = [pc EXCEPT ![w] = "permitted"]
            /\ permits' = permits - 1 /\ Queued' = Queued
            /\ UNCHANGED <<producer, queue_depth>>
        BY <2>2 DEF Take, Queued
      <3>9. WorkerEffect(w, "idle", "permitted")
        BY <1>0, <1>2, <3>1, <3>2 DEF WorkerEffect
      <3> QED
        BY ONLY <1>0, <3>9, Shape, Balance, w \in Worker, WorkerBalance
    <2>3. CASE Pop(w)
      <3>1. /\ Delta({"permitted"}, "permitted", "popped") = 0 - 1
            /\ Delta({"repushed", "recounted"}, "permitted", "popped") = 0
            /\ Delta({"permitted", "popped"}, "permitted", "popped") = 0
            /\ Delta({"recounted"}, "permitted", "popped") = 0
        BY DEF Delta
      <3>2. lifo # <<>>
        BY <2>3, PermitMeansItem DEF Pop, PopFindsItem
      <3>3. lifo' = Below(lifo)
        BY <2>3, <3>2 DEF Pop
      <3>4. Queued' = Queued - 1
        BY <3>2, <3>3, Popped DEF Shape, Queued
      <3>5. /\ pc[w] = "permitted" /\ pc' = [pc EXCEPT ![w] = "popped"]
            /\ UNCHANGED <<producer, permits, queue_depth>>
        BY <2>3, <3>2 DEF Pop
      <3>9. WorkerEffect(w, "permitted", "popped")
        BY <1>0, <1>2, <3>1, <3>4, <3>5 DEF WorkerEffect
      <3> QED
        BY ONLY <1>0, <3>9, Shape, Balance, w \in Worker, WorkerBalance
    <2>4. CASE Inspect(w)
      <3>1. PICK b \in {"idle", "rest"} : pc' = [pc EXCEPT ![w] = b]
        BY <2>4 DEF Inspect, Settle
      <3>2. /\ Delta({"permitted"}, "popped", b) = 0
            /\ Delta({"repushed", "recounted"}, "popped", b) = 0
            /\ Delta({"permitted", "popped"}, "popped", b) = 0 - 1
            /\ Delta({"recounted"}, "popped", b) = 0
        BY DEF Delta
      <3>3. /\ pc[w] = "popped" /\ queue_depth' = queue_depth - 1 /\ Queued' = Queued
            /\ UNCHANGED <<producer, permits>>
        BY <2>4 DEF Inspect, Queued
      <3>9. WorkerEffect(w, "popped", b)
        BY <1>0, <1>2, <3>1, <3>2, <3>3 DEF WorkerEffect
      <3> QED
        BY ONLY <1>0, <3>9, Shape, Balance, w \in Worker, WorkerBalance
    <2>5. CASE PushBack(w)
      <3>1. /\ Delta({"permitted"}, "refused", "repushed") = 0
            /\ Delta({"repushed", "recounted"}, "refused", "repushed") = 1
            /\ Delta({"permitted", "popped"}, "refused", "repushed") = 0
            /\ Delta({"recounted"}, "refused", "repushed") = 0
        BY DEF Delta
      <3>2. /\ pc[w] = "refused" /\ pc' = [pc EXCEPT ![w] = "repushed"]
            /\ lifo' = Append(lifo, held[w])
            /\ UNCHANGED <<producer, permits, queue_depth>>
        BY <2>5 DEF PushBack
      <3>3. held[w] \in Item
        BY <3>2 DEF Shape, InHand
      <3>4. Queued' = Queued + 1
        BY <3>2, <3>3, AppendProperties DEF Shape, Queued
      <3>9. WorkerEffect(w, "refused", "repushed")
        BY <1>0, <1>2, <3>1, <3>2, <3>4 DEF WorkerEffect
      <3> QED
        BY ONLY <1>0, <3>9, Shape, Balance, w \in Worker, WorkerBalance
    <2>6. CASE CountBack(w)
      <3>1. /\ Delta({"permitted"}, "repushed", "recounted") = 0
            /\ Delta({"repushed", "recounted"}, "repushed", "recounted") = 0
            /\ Delta({"permitted", "popped"}, "repushed", "recounted") = 0
            /\ Delta({"recounted"}, "repushed", "recounted") = 1
        BY DEF Delta
      <3>2. /\ pc[w] = "repushed" /\ pc' = [pc EXCEPT ![w] = "recounted"]
            /\ queue_depth' = queue_depth + 1 /\ Queued' = Queued
            /\ UNCHANGED <<producer, permits>>
        BY <2>6 DEF CountBack, Queued
      <3>9. WorkerEffect(w, "repushed", "recounted")
        BY <1>0, <1>2, <3>1, <3>2 DEF WorkerEffect
      <3> QED
        BY ONLY <1>0, <3>9, Shape, Balance, w \in Worker, WorkerBalance
    <2>7. CASE PermitBack(w)
      <3>1. /\ Delta({"permitted"}, "recounted", "asleep") = 0
            /\ Delta({"repushed", "recounted"}, "recounted", "asleep") = 0 - 1
            /\ Delta({"permitted", "popped"}, "recounted", "asleep") = 0
            /\ Delta({"recounted"}, "recounted", "asleep") = 0 - 1
        BY DEF Delta
      <3>2. /\ pc[w] = "recounted" /\ pc' = [pc EXCEPT ![w] = "asleep"]
            /\ permits' = permits + 1 /\ Queued' = Queued
            /\ UNCHANGED <<producer, queue_depth>>
        BY <2>7 DEF PermitBack, Queued
      <3>9. WorkerEffect(w, "recounted", "asleep")
        BY <1>0, <1>2, <3>1, <3>2 DEF WorkerEffect
      <3> QED
        BY ONLY <1>0, <3>9, Shape, Balance, w \in Worker, WorkerBalance
    <2>8. CASE RestSlot(w) \/ RestFull(w) \/ GrpcSlot(w) \/ GrpcFull(w)
      BY <2>1, <2>8 DEF RestSlot, RestFull, GrpcSlot, GrpcFull, GiveSlot, MoveOn
    <2>9. CASE Wake(w) \/ BuildDrop(w) \/ HandOver(w) \/ Reply(w)
      BY <2>1, <2>9 DEF Wake, BuildDrop, HandOver, Reply, MoveOn, Settle
    <2> QED
      BY <1>4, <2>2, <2>3, <2>4, <2>5, <2>6, <2>7, <2>8, <2>9 DEF worker
  <1> QED
    BY <1>1, <1>3, <1>4 DEF Next, Tick, vars

-----------------------------------------------------------------------------
\* Permits and LIFO agree at every moment of every interleaving of pushes,
\* pops and requeues, the moments between their steps included.
THEOREM PermitsBalanced == Spec => []PermitBalance
  <1>1. Balance => PermitBalance
    BY DEF Balance
  <1> QED
    BY <1>1, Shapely, ShapeNext, BalanceInit, BalanceNext, PTL DEF Spec

\* The queue_depth gauge is off by exactly the pushes, pops and requeues that
\* are between the LIFO and their update of it, for any number of them.
THEOREM GaugeBalanced == Spec => []GaugeBalance
  <1>1. Balance => GaugeBalance
    BY DEF Balance
  <1> QED
    BY <1>1, Shapely, ShapeNext, BalanceInit, BalanceNext, PTL DEF Spec

\* The arm `None => continue` of the worker loop is unreachable.
THEOREM PopAlwaysFindsItem == Spec => []PopFindsItem
  BY Shapely, ShapeNext, BalanceInit, BalanceNext, PermitMeansItem, PTL DEF Spec

\* The queue_depth gauge never shows a negative number.
THEOREM GaugeNeverNegative == Spec => []GaugeNotNegative
  <1>1. Shape /\ Balance => GaugeNotNegative
    <2> SUFFICES ASSUME Shape, Balance PROVE GaugeNotNegative
      OBVIOUS
    <2>1. permits \in Nat
      BY DEF Shape
    <2>2. /\ Cardinality(WorkersAt({"permitted", "popped"})) \in Nat
          /\ Cardinality(WorkersAt({"recounted"})) \in Nat
          /\ Cardinality(ProducersAt({"counted"})) \in Nat
      BY CountsAreNat
    <2> QED
      BY <2>1, <2>2 DEF Balance, GaugeBalance, GaugeNotNegative
  <1> QED
    BY <1>1, Shapely, ShapeNext, BalanceInit, BalanceNext, PTL DEF Spec

-----------------------------------------------------------------------------
\* No item is in two places.

\* What push leaves.
LEMMA Pushed ==
    ASSUME NEW s, NEW e, s \in Seq(Item), e \in Item
    PROVE  /\ Len(s) \in Nat
           /\ DOMAIN s = 1 .. Len(s)
           /\ DOMAIN Append(s, e) = 1 .. Len(s) + 1
           /\ \A k \in 1 .. Len(s) : Append(s, e)[k] = s[k]
           /\ Append(s, e)[Len(s) + 1] = e
  BY AppendProperties, LenProperties

LEMMA OneHomeInit == Init => OneHome
  BY DEF Init, OneHome, Waiting, DispatcherAssumption

\* An item that is nowhere may be put on top of the LIFO.
LEMMA OneHomePush ==
    ASSUME Shape, OneHome, NEW i \in Item, ~ Waiting(i), outcome[i] = "none",
           lifo' = Append(lifo, i), UNCHANGED <<held, outcome>>,
           producer'[i] # "absent",
           \A j \in Item : producer[j] # "absent" => producer'[j] # "absent"
    PROVE  OneHome'
  <1>1. /\ Len(lifo) \in Nat /\ DOMAIN lifo = 1 .. Len(lifo)
        /\ DOMAIN lifo' = 1 .. Len(lifo) + 1
        /\ \A k \in 1 .. Len(lifo) : lifo'[k] = lifo[k]
        /\ lifo'[Len(lifo) + 1] = i
    BY Pushed DEF Shape
  <1>2. \A k \in DOMAIN lifo : lifo[k] # i
    BY DEF Waiting
  <1>3. \A w \in Worker : held[w] # i
    BY DEF Waiting
  <1>4. \A k \in DOMAIN lifo' : k \in DOMAIN lifo \/ k = Len(lifo) + 1
    BY <1>1
  <1>5. \A j, k \in DOMAIN lifo' : lifo'[j] = lifo'[k] => j = k
    BY <1>1, <1>2, <1>4 DEF OneHome
  <1>6. \A w \in Worker, k \in DOMAIN lifo' : lifo'[k] # held'[w]
    BY <1>1, <1>3, <1>4 DEF OneHome
  <1>7. ASSUME NEW j \in Item, Waiting(j)'
        PROVE  producer'[j] # "absent" /\ outcome'[j] = "none"
    <2>1. j = i \/ Waiting(j)
      BY <1>1, <1>4, <1>7 DEF Waiting
    <2> QED
      BY <2>1 DEF OneHome
  <1> QED
    BY <1>5, <1>6, <1>7 DEF OneHome

\* A worker that forgets its item leaves every other item where it is.
LEMMA OneHomeLeave ==
    ASSUME Shape, OneHome, NEW w \in Worker, held[w] \in Item,
           held' = [held EXCEPT ![w] = NoItem], UNCHANGED <<lifo, producer>>,
           \A j \in Item : j # held[w] => outcome'[j] = outcome[j]
    PROVE  OneHome'
  <1>1. \A v \in Worker : held'[v] = IF v = w THEN NoItem ELSE held[v]
    BY DEF Shape
  <1>2. \A k \in DOMAIN lifo : lifo[k] \in Item /\ lifo[k] # NoItem
    BY LenProperties DEF Shape, DispatcherAssumption
  <1>3. \A u, v \in Worker : held'[u] = held'[v] /\ held'[u] # NoItem => u = v
    BY <1>1 DEF OneHome
  <1>4. \A v \in Worker, k \in DOMAIN lifo' : lifo'[k] # held'[v]
    BY <1>1, <1>2 DEF OneHome
  <1>5. ASSUME NEW j \in Item, Waiting(j)'
        PROVE  producer'[j] # "absent" /\ outcome'[j] = "none"
    <2>1. Waiting(j)
      BY <1>1, <1>5 DEF Waiting, DispatcherAssumption
    <2>2. j # held[w]
      <3>1. CASE \E k \in DOMAIN lifo : lifo[k] = j
        BY <3>1 DEF OneHome
      <3>2. CASE \E v \in Worker : held'[v] = j
        BY <1>1, <3>2 DEF OneHome, DispatcherAssumption
      <3> QED
        BY <1>5, <3>1, <3>2 DEF Waiting
    <2> QED
      BY <2>1, <2>2 DEF OneHome
  <1> QED
    BY <1>3, <1>4, <1>5 DEF OneHome

LEMMA OneHomePop ==
    ASSUME Shape, OneHome, NEW w \in Worker, held[w] = NoItem, lifo # <<>>,
           held' = [held EXCEPT ![w] = Top(lifo)], lifo' = Below(lifo),
           UNCHANGED <<producer, outcome>>
    PROVE  OneHome'
  <1> DEFINE n == Len(lifo)
  <1>1. /\ n \in Nat \ {0} /\ DOMAIN lifo = 1 .. n
        /\ DOMAIN lifo' = 1 .. n - 1
        /\ \A k \in 1 .. n - 1 : lifo'[k] = lifo[k]
    BY Popped, LenProperties DEF Shape
  <1>2. Top(lifo) = lifo[n]
    BY DEF Top
  <1> HIDE DEF n
  <1>3. /\ n \in DOMAIN lifo /\ n \notin DOMAIN lifo'
        /\ \A k \in DOMAIN lifo' : k \in DOMAIN lifo /\ k # n /\ lifo'[k] = lifo[k]
    BY <1>1
  <1>4. \A v \in Worker : held'[v] = IF v = w THEN lifo[n] ELSE held[v]
    BY <1>2 DEF Shape
  <1>5. \A j, k \in DOMAIN lifo' : lifo'[j] = lifo'[k] => j = k
    BY <1>3 DEF OneHome
  <1>6. \A u, v \in Worker : held'[u] = held'[v] /\ held'[u] # NoItem => u = v
    BY <1>3, <1>4 DEF OneHome
  <1>7. \A v \in Worker, k \in DOMAIN lifo' : lifo'[k] # held'[v]
    BY <1>3, <1>4 DEF OneHome
  <1>8. ASSUME NEW j \in Item, Waiting(j)'
        PROVE  producer'[j] # "absent" /\ outcome'[j] = "none"
    <2>1. Waiting(j)
      BY <1>3, <1>4, <1>8 DEF Waiting
    <2> QED
      BY <2>1 DEF OneHome
  <1> QED
    BY <1>5, <1>6, <1>7, <1>8 DEF OneHome

LEMMA OneHomeStill ==
    ASSUME OneHome, UNCHANGED <<lifo, held, outcome>>,
           \A j \in Item : producer[j] # "absent" => producer'[j] # "absent"
    PROVE  OneHome'
  BY DEF OneHome, Waiting

\* A worker puts its own item back on top of the LIFO.
LEMMA OneHomePushBack ==
    ASSUME Shape, OneHome, NEW w \in Worker, held[w] \in Item,
           lifo' = Append(lifo, held[w]), held' = [held EXCEPT ![w] = NoItem],
           UNCHANGED <<producer, outcome>>
    PROVE  OneHome'
  <1>1. /\ Len(lifo) \in Nat /\ DOMAIN lifo = 1 .. Len(lifo)
        /\ DOMAIN lifo' = 1 .. Len(lifo) + 1
        /\ \A k \in 1 .. Len(lifo) : lifo'[k] = lifo[k]
        /\ lifo'[Len(lifo) + 1] = held[w]
    BY Pushed DEF Shape
  <1>2. \A k \in DOMAIN lifo : lifo[k] # held[w]
    BY DEF OneHome
  <1>3. \A k \in DOMAIN lifo' : k \in DOMAIN lifo \/ k = Len(lifo) + 1
    BY <1>1
  <1>4. \A k \in DOMAIN lifo' : lifo'[k] = held[w] \/ (k \in DOMAIN lifo /\ lifo'[k] = lifo[k])
    <2> TAKE k \in DOMAIN lifo'
    <2>1. CASE k \in DOMAIN lifo
      BY <1>1, <2>1
    <2>2. CASE k = Len(lifo) + 1
      <3>1. lifo'[Len(lifo) + 1] = held[w]
        BY <1>1
      <3> QED
        BY ONLY <2>2, <3>1
    <2> QED
      BY <1>3, <2>1, <2>2
  <1>5. \A v \in Worker : held'[v] = IF v = w THEN NoItem ELSE held[v]
    BY DEF Shape
  <1>6. \A k \in DOMAIN lifo' : lifo'[k] # NoItem
    BY <1>1, <1>4, LenProperties DEF Shape, DispatcherAssumption
  <1>7. \A j, k \in DOMAIN lifo' : lifo'[j] = lifo'[k] => j = k
    BY <1>1, <1>2, <1>3 DEF OneHome
  <1>8. \A u, v \in Worker : held'[u] = held'[v] /\ held'[u] # NoItem => u = v
    BY <1>5 DEF OneHome
  <1>9. \A v \in Worker, k \in DOMAIN lifo' : lifo'[k] # held'[v]
    <2> SUFFICES ASSUME NEW v \in Worker, NEW k \in DOMAIN lifo'
                 PROVE  lifo'[k] # held'[v]
      OBVIOUS
    <2>1. CASE v = w
      BY <1>5, <1>6, <2>1
    <2>2. CASE v # w
      BY <1>4, <1>5, <2>2 DEF OneHome, DispatcherAssumption
    <2> QED
      BY <2>1, <2>2
  <1>10. ASSUME NEW j \in Item, Waiting(j)'
         PROVE  producer'[j] # "absent" /\ outcome'[j] = "none"
    <2>1. Waiting(j)
      BY <1>4, <1>5, <1>10 DEF Waiting, DispatcherAssumption
    <2> QED
      BY <2>1 DEF OneHome
  <1> QED
    BY <1>7, <1>8, <1>9, <1>10 DEF OneHome

\* No item is finished with before it is pushed.
Untouched == \A i \in Item : producer[i] = "absent" => outcome[i] = "none"

LEMMA OneHomeNext ==
    Shape /\ Balance /\ OneHome /\ Untouched /\ [Next]_vars => OneHome' /\ Untouched'
  <1> SUFFICES ASSUME Shape, Balance, OneHome, Untouched, [Next]_vars
               PROVE  OneHome' /\ Untouched'
    OBVIOUS
  <1>1. CASE Tick
    BY <1>1, OneHomeStill DEF Tick, queueVars, Untouched
  <1>2. ASSUME NEW i \in Item, push_to_queue(i)
        PROVE  OneHome' /\ Untouched'
    <2>1. \A b \in ProducerStep \ {"absent"} : producer' = [producer EXCEPT ![i] = b] =>
            /\ producer'[i] # "absent"
            /\ \A j \in Item : producer[j] # "absent" => producer'[j] # "absent"
      BY DEF Shape
    <2>2. UNCHANGED outcome
          /\ \E b \in ProducerStep \ {"absent"} : producer' = [producer EXCEPT ![i] = b]
      BY <1>2 DEF push_to_queue, Push, Count, AddPermit, itemVars, ProducerStep
    <2>3. Untouched'
      BY <2>1, <2>2 DEF Untouched
    <2>4. CASE Push(i)
      <3>1. ~ Waiting(i) /\ outcome[i] = "none"
        BY <2>4 DEF Push, OneHome, Untouched
      <3>2. lifo' = Append(lifo, i) /\ UNCHANGED <<held, outcome>>
        BY <2>4 DEF Push, itemVars
      <3> QED
        BY <2>1, <2>2, <2>3, <3>1, <3>2, OneHomePush
    <2>5. CASE Count(i) \/ AddPermit(i)
      <3>1. UNCHANGED <<lifo, held, outcome>>
        BY <2>5 DEF Count, AddPermit, itemVars
      <3> QED
        BY <2>1, <2>2, <2>3, <3>1, OneHomeStill
    <2> QED
      BY <1>2, <2>4, <2>5 DEF push_to_queue
  <1>3. ASSUME NEW w \in Worker, worker(w)
        PROVE  OneHome' /\ Untouched'
    <2>1. /\ pc[w] \in InHand => held[w] \in Item
          /\ pc[w] \notin InHand => held[w] = NoItem
      BY DEF Shape
    <2>2. UNCHANGED producer
      BY <1>3 DEF worker, Take, Pop, Inspect, RestSlot, RestFull, GrpcSlot, GrpcFull, PushBack,
                  CountBack, PermitBack, Wake, BuildDrop, HandOver, Reply, GiveSlot, MoveOn
    <2>3. ASSUME NEW o, Settle(w, o), pc[w] \in InHand, UNCHANGED lifo
          PROVE  OneHome' /\ Untouched'
      <3>1. /\ held[w] \in Item /\ held' = [held EXCEPT ![w] = NoItem]
            /\ outcome' = [outcome EXCEPT ![held[w]] = o]
            /\ \A j \in Item : j # held[w] => outcome'[j] = outcome[j]
        <4>1. outcome' = [outcome EXCEPT ![held[w]] = o]
          BY <2>3 DEF Settle
        <4>2. outcome \in [Item -> Outcome]
          BY DEF Shape
        <4>3. \A j \in Item : j # held[w] => outcome'[j] = outcome[j]
          BY ONLY <4>1, <4>2
        <4> QED
          BY <2>1, <2>3, <4>1, <4>3 DEF Settle
      <3>2. OneHome'
        BY <2>1, <2>2, <2>3, <3>1, OneHomeLeave
      <3>3. producer[held[w]] # "absent"
        BY <2>1, <2>3 DEF OneHome, Waiting
      <3>4. Untouched'
        BY <2>2, <3>1, <3>3 DEF Untouched
      <3> QED
        BY <3>2, <3>4
    <2>4. ASSUME UNCHANGED <<lifo, held, outcome>>
          PROVE  OneHome' /\ Untouched'
      BY <2>2, <2>4, OneHomeStill DEF Untouched
    <2>5. CASE Pop(w)
      <3>1. lifo # <<>> /\ held[w] = NoItem
        BY <2>1, <2>5, PermitMeansItem DEF Pop, PopFindsItem, At, InHand
      <3>2. /\ held' = [held EXCEPT ![w] = Top(lifo)] /\ lifo' = Below(lifo)
            /\ UNCHANGED outcome
        BY <2>5, <3>1 DEF Pop, itemVars
      <3>3. OneHome'
        BY <2>2, <3>1, <3>2, OneHomePop
      <3> QED
        BY <2>2, <3>2, <3>3 DEF Untouched
    <2>6. CASE Inspect(w)
      <3>1. pc[w] \in InHand /\ UNCHANGED lifo
        BY <2>6 DEF Inspect, At, InHand
      <3> QED
        BY <2>3, <2>4, <2>6, <3>1 DEF Inspect
    <2>7. CASE PushBack(w)
      <3>1. /\ held[w] \in Item /\ lifo' = Append(lifo, held[w])
            /\ held' = [held EXCEPT ![w] = NoItem] /\ UNCHANGED outcome
        BY <2>1, <2>7 DEF PushBack, At, InHand
      <3>2. OneHome'
        BY <2>2, <3>1, OneHomePushBack
      <3> QED
        BY <2>2, <3>1, <3>2 DEF Untouched
    <2>8. CASE BuildDrop(w) \/ Reply(w)
      <3>1. pc[w] \in InHand /\ UNCHANGED lifo /\ \E o : Settle(w, o)
        BY <2>8 DEF BuildDrop, Reply, At, InHand, queueVars
      <3> QED
        BY <2>3, <3>1
    <2>9. CASE Take(w) \/ CountBack(w) \/ PermitBack(w) \/ Wake(w) \/ HandOver(w)
      BY <2>4, <2>9 DEF Take, CountBack, PermitBack, Wake, HandOver, MoveOn, queueVars, itemVars
    <2>10. CASE RestSlot(w) \/ RestFull(w) \/ GrpcSlot(w) \/ GrpcFull(w)
      BY <2>4, <2>10 DEF RestSlot, RestFull, GrpcSlot, GrpcFull, GiveSlot, MoveOn, queueVars, itemVars
    <2> QED
      BY <1>3, <2>5, <2>6, <2>7, <2>8, <2>9, <2>10 DEF worker
  <1>4. CASE UNCHANGED vars
    BY <1>4, OneHomeStill DEF vars, queueVars, itemVars, Untouched
  <1> QED
    BY <1>1, <1>2, <1>3, <1>4 DEF Next

\* Through every interleaving of pushes, pops and requeues an item is in at
\* most one place, and nowhere once it is finished with: no opportunity is
\* submitted twice.
THEOREM NothingTwice == Spec => []OneHome
  <1>1. Init => Untouched
    BY DEF Init, Untouched
  <1> QED
    BY <1>1, Shapely, ShapeNext, BalanceInit, BalanceNext, OneHomeInit, OneHomeNext, PTL DEF Spec
-----------------------------------------------------------------------------
\* Bursts.

\* The grants counted in a second that ends now do not bound the bundles
\* handed over in it, since a slot may be a second old when its bundle
\* leaves.  What is bounded is, for every k, the items that reached their
\* client in the last k ticks, or may do so now, with a slot that is older.
InBuilding(i) == \E w \in Worker : held[w] = i /\ pc[w] = "building"
Stamped(i, k) == \E t \in restGranted \cup grpcGranted : t.ticket = i /\ t.age < k
Carried(k) == { i \in Item : (InBuilding(i) \/ wire[i] < k) /\ ~ Stamped(i, k) }
CarriedBound == \A k \in 0 .. SECOND : Cardinality(Carried(k)) <= Cardinality(Worker)

IBurst == Shape /\ Limiters /\ CarriedBound

LEMMA WindowsTyped ==
    ASSUME Limiters
    PROVE  /\ restGranted \subseteq [ticket : Item, age : 0 .. SECOND - 1]
           /\ grpcGranted \subseteq [ticket : Item, age : 0 .. SECOND - 1]
  BY DEF Limiters, RestP!IInv, RestP!TypeOK, GrpcP!IInv, GrpcP!TypeOK

\* The workers at one step hold no more items than there are workers.
LEMMA HandsFew ==
    ASSUME NEW p, NEW h
    PROVE  LET B == { h[w] : w \in { v \in Worker : p[v] = "building" } }
           IN  /\ IsFiniteSet(B)
               /\ Cardinality(B) \in Nat
               /\ Cardinality(B) <= Cardinality(Worker)
  <1> DEFINE V == { v \in Worker : p[v] = "building" }
             B == { h[w] : w \in V }
             f == [w \in V |-> h[w]]
  <1>1. f \in Surjection(V, B)
    BY DEF Surjection
  <1>2. /\ IsFiniteSet(V) /\ Cardinality(V) <= Cardinality(Worker)
        /\ Cardinality(V) \in Nat /\ Cardinality(Worker) \in Nat
    <2>1. V \in SUBSET Worker
      OBVIOUS
    <2> QED
      BY <2>1, FS_Subset, FS_CardinalityType DEF DispatcherAssumption
  <1> HIDE DEF f, V, B
  <1>3. IsFiniteSet(B) /\ Cardinality(B) <= Cardinality(V)
    BY <1>1, <1>2, FS_Surjection
  <1>4. Cardinality(B) \in Nat
    BY <1>3, FS_CardinalityType
  <1>5. Cardinality(B) <= Cardinality(Worker)
    BY <1>2, <1>3, <1>4
  <1> QED
    BY <1>3, <1>4, <1>5 DEF B, V

LEMMA CarriedFinite ==
    ASSUME NEW k
    PROVE  IsFiniteSet(Carried(k)) /\ Cardinality(Carried(k)) \in Nat
  <1>1. Carried(k) \in SUBSET Item
    BY DEF Carried
  <1>2. IsFiniteSet(Item)
    BY DEF DispatcherAssumption
  <1> QED
    BY <1>1, <1>2, FS_Subset, FS_CardinalityType

\* A set no larger than what the workers carry is no larger than the pool.
LEMMA Fewer ==
    ASSUME NEW S, IsFiniteSet(S), NEW n \in Nat, Cardinality(S) <= n,
           NEW T, T \subseteq S
    PROVE  Cardinality(T) <= n
  <1>1. Cardinality(S) \in Nat
    BY FS_CardinalityType
  <1>2. IsFiniteSet(T) /\ Cardinality(T) <= Cardinality(S)
    BY FS_Subset
  <1>3. Cardinality(T) \in Nat
    BY <1>2, FS_CardinalityType
  <1> QED
    BY <1>1, <1>2, <1>3

\* As the clock ticks, what left in the last k + 1 ticks left in the last k
\* before, and a slot of that age was as young as well.
LEMMA StampAges ==
    ASSUME Limiters, Tick, NEW k \in 0 .. SECOND - 1, NEW i, Stamped(i, k)
    PROVE  Stamped(i, k + 1)'
  <1>1. PICK t \in restGranted \cup grpcGranted : t.ticket = i /\ t.age < k
    BY DEF Stamped
  <1>2. t \in [ticket : Item, age : 0 .. SECOND - 1] /\ SECOND \in Nat
    BY WindowsTyped DEF DispatcherAssumption
  <1>3. t.age + 1 < SECOND
    BY <1>1, <1>2
  <1> DEFINE u == [t EXCEPT !.age = t.age + 1]
  <1>4. u.ticket = i /\ u.age < k + 1
    BY <1>1, <1>2
  <1>5. u \in restGranted' \cup grpcGranted'
    <2>1. Rest!Older(t) = u /\ Grpc!Older(t) = u
      BY <1>2, <1>3 DEF Rest!Older, Grpc!Older
    <2>2. CASE t \in restGranted
      BY <1>3, <2>1, <2>2 DEF Tick, Rest!Advance
    <2>3. CASE t \in grpcGranted
      BY <1>3, <2>1, <2>3 DEF Tick, Grpc!Advance
    <2> QED
      BY <2>2, <2>3
  <1> HIDE DEF u
  <1> QED
    BY <1>4, <1>5 DEF Stamped

LEMMA CarriedTick ==
    ASSUME Shape, Limiters, Tick, NEW k \in 0 .. SECOND - 1
    PROVE  Carried(k + 1)' \subseteq Carried(k)
  <1> SUFFICES ASSUME NEW i \in Carried(k + 1)'
               PROVE  i \in Carried(k)
    OBVIOUS
  <1>1. i \in Item /\ (InBuilding(i)' \/ wire'[i] < k + 1) /\ ~ Stamped(i, k + 1)'
    BY DEF Carried
  <1>2. ~ Stamped(i, k)
    BY <1>1, StampAges
  <1>3. InBuilding(i)' => InBuilding(i)
    BY DEF Tick, InBuilding
  <1>4. wire'[i] < k + 1 => wire[i] < k
    <2>1. wire[i] \in 0 .. SECOND /\ SECOND \in Nat
      BY <1>1 DEF Shape, DispatcherAssumption
    <2>2. wire'[i] = IF wire[i] < SECOND THEN wire[i] + 1 ELSE wire[i]
      BY <1>1 DEF Tick
    <2> QED
      BY <2>1, <2>2
  <1> QED
    BY <1>1, <1>2, <1>3, <1>4 DEF Carried

\* A step that hands nothing over and brings no item to a builder.
LEMMA CarriedStill ==
    ASSUME NEW k, UNCHANGED wire,
           restGranted \subseteq restGranted', grpcGranted \subseteq grpcGranted',
           \A v \in Worker : pc'[v] = "building" => pc[v] = "building" /\ held'[v] = held[v]
    PROVE  Carried(k)' \subseteq Carried(k)
  <1>1. \A i : InBuilding(i)' => InBuilding(i)
    BY DEF InBuilding
  <1>2. \A i : Stamped(i, k) => Stamped(i, k)'
    BY DEF Stamped
  <1> QED
    BY <1>1, <1>2 DEF Carried

\* A worker that gets a slot starts building with a stamp of this instant.
LEMMA CarriedSlot ==
    ASSUME NEW k \in 1 .. SECOND, NEW w \in Worker, UNCHANGED <<wire, held>>,
           \A v \in Worker \ {w} : pc'[v] = pc[v],
           restGranted \subseteq restGranted', grpcGranted \subseteq grpcGranted',
           [ticket |-> held[w], age |-> 0] \in restGranted' \cup grpcGranted'
    PROVE  Carried(k)' \subseteq Carried(k)
  <1>1. Stamped(held[w], k)'
    <2> DEFINE t == [ticket |-> held[w], age |-> 0]
    <2>1. t.ticket = held[w] /\ t.age < k /\ t \in restGranted' \cup grpcGranted'
      BY DEF DispatcherAssumption
    <2> HIDE DEF t
    <2> QED
      BY <2>1 DEF Stamped
  <1>2. \A i : InBuilding(i)' => InBuilding(i) \/ i = held[w]
    BY DEF InBuilding
  <1>3. \A i : Stamped(i, k) => Stamped(i, k)'
    BY DEF Stamped
  <1> QED
    BY <1>1, <1>2, <1>3 DEF Carried

LEMMA CarriedStep ==
    ASSUME Shape, NEW k \in 1 .. SECOND, ~ Tick, [Next]_vars
    PROVE  Carried(k)' \subseteq Carried(k)
  <1>1. ASSUME NEW i \in Item, push_to_queue(i)
        PROVE  Carried(k)' \subseteq Carried(k)
    BY <1>1, CarriedStill
    DEF push_to_queue, Push, Count, AddPermit, itemVars, restVars, grpcVars
  <1>2. ASSUME NEW w \in Worker, worker(w)
        PROVE  Carried(k)' \subseteq Carried(k)
    <2> USE DEF At, Goto
    <2>1. pc \in [Worker -> WorkerStep] /\ held \in [Worker -> Item \cup {NoItem}]
      BY DEF Shape
    <2>2. CASE Take(w) \/ Pop(w) \/ CountBack(w) \/ PermitBack(w) \/ Wake(w)
      BY <2>1, <2>2, CarriedStill
      DEF Take, Pop, CountBack, PermitBack, Wake, MoveOn, itemVars, restVars, grpcVars
    <2>3. CASE Inspect(w) \/ PushBack(w) \/ BuildDrop(w) \/ Reply(w)
      BY <2>1, <2>3, CarriedStill
      DEF Inspect, PushBack, BuildDrop, Reply, Settle, restVars, grpcVars
    <2>4. CASE RestFull(w) \/ GrpcFull(w)
      BY <2>1, <2>4, CarriedStill
      DEF RestFull, GrpcFull, MoveOn, Rest!Refuse, Grpc!Refuse, itemVars, restVars, grpcVars
    <2>5. CASE RestSlot(w)
      BY <2>1, <2>5, CarriedSlot DEF RestSlot, GiveSlot, Rest!Acquire, grpcVars
    <2>6. CASE GrpcSlot(w)
      BY <2>1, <2>6, CarriedSlot DEF GrpcSlot, GiveSlot, Grpc!Acquire, restVars
    <2>7. CASE HandOver(w)
      <3>1. /\ pc[w] = "building" /\ UNCHANGED <<held, restGranted, grpcGranted>>
            /\ pc' = [pc EXCEPT ![w] = "sending"]
            /\ wire' = [wire EXCEPT ![held[w]] = 0]
        BY <2>7 DEF HandOver, restVars, grpcVars
      <3>2. \A i : InBuilding(i)' => InBuilding(i)
        BY <2>1, <3>1 DEF InBuilding
      <3>3. \A i : Stamped(i, k)' <=> Stamped(i, k)
        BY <3>1 DEF Stamped
      <3>4. \A i \in Item : wire'[i] < k => wire[i] < k \/ InBuilding(i)
        BY <3>1 DEF InBuilding, Shape
      <3> QED
        BY <3>2, <3>3, <3>4 DEF Carried
    <2> QED
      BY <1>2, <2>2, <2>3, <2>4, <2>5, <2>6, <2>7 DEF worker
  <1>3. CASE UNCHANGED vars
    BY <1>3, CarriedStill DEF vars, itemVars, restVars, grpcVars
  <1> QED
    BY <1>1, <1>2, <1>3 DEF Next

\* An item not handed over within the last zero ticks is one being built.
LEMMA CarriedNow ==
    ASSUME Shape
    PROVE  Carried(0) \subseteq { held[w] : w \in { v \in Worker : pc[v] = "building" } }
  BY DEF Carried, InBuilding, Shape, DispatcherAssumption

LEMMA CarriedNowNext ==
    ASSUME Shape'
    PROVE  Carried(0)' \subseteq { held'[w] : w \in { v \in Worker : pc'[v] = "building" } }
  BY DEF Carried, InBuilding, Shape, DispatcherAssumption

LEMMA BurstInit == Init => CarriedBound
  <1> SUFFICES ASSUME Init, NEW k \in 0 .. SECOND
               PROVE  Cardinality(Carried(k)) <= Cardinality(Worker)
    BY DEF CarriedBound
  <1>1. Carried(k) = {}
    BY DEF Init, Carried, InBuilding, DispatcherAssumption
  <1>2. Cardinality(Worker) \in Nat
    BY FS_CardinalityType DEF DispatcherAssumption
  <1> QED
    BY <1>1, <1>2, FS_EmptySet

LEMMA BurstNext == IBurst /\ Shape' /\ [Next]_vars => CarriedBound'
  <1> SUFFICES ASSUME IBurst, Shape', [Next]_vars, NEW k \in 0 .. SECOND
               PROVE  Cardinality(Carried(k)') <= Cardinality(Worker)
    BY DEF CarriedBound
  <1>1. Cardinality(Worker) \in Nat /\ SECOND \in Nat
    BY FS_CardinalityType DEF DispatcherAssumption
  <1>2. \A j \in 0 .. SECOND : IsFiniteSet(Carried(j)) /\ Cardinality(Carried(j)) <= Cardinality(Worker)
    BY CarriedFinite DEF IBurst, CarriedBound
  <1>3. CASE k = 0
    <2> DEFINE B == { held'[w] : w \in { v \in Worker : pc'[v] = "building" } }
    <2>1. IsFiniteSet(B) /\ Cardinality(B) <= Cardinality(Worker)
      BY HandsFew
    <2>2. Carried(k)' \subseteq B
      BY <1>3, CarriedNowNext
    <2> HIDE DEF B
    <2> QED
      BY <1>1, <2>1, <2>2, Fewer
  <1>4. CASE k # 0 /\ Tick
    <2>1. PICK j \in 0 .. SECOND - 1 : k = j + 1
      BY <1>1, <1>4
    <2>2. Carried(k)' \subseteq Carried(j)
      BY <1>4, <2>1, CarriedTick DEF IBurst
    <2>3. j \in 0 .. SECOND
      BY <1>1
    <2> QED
      BY <1>1, <1>2, <2>2, <2>3, Fewer
  <1>5. CASE k # 0 /\ ~ Tick
    <2>1. k \in 1 .. SECOND
      BY <1>1, <1>5
    <2>2. Carried(k)' \subseteq Carried(k)
      BY <1>5, <2>1, CarriedStep DEF IBurst
    <2> QED
      BY <1>1, <1>2, <2>2, Fewer
  <1> QED
    BY <1>3, <1>4, <1>5

\* The items granted in a window are no more than its grants.
Tickets(G) == { t.ticket : t \in G }

LEMMA TicketsFew ==
    ASSUME NEW G, IsFiniteSet(G), NEW n \in Nat, Cardinality(G) <= n
    PROVE  /\ IsFiniteSet(Tickets(G))
           /\ Cardinality(Tickets(G)) \in Nat
           /\ Cardinality(Tickets(G)) <= n
  <1> DEFINE f == [t \in G |-> t.ticket]
  <1>1. f \in Surjection(G, Tickets(G))
    BY DEF Surjection, Tickets
  <1> HIDE DEF f
  <1>2. IsFiniteSet(Tickets(G)) /\ Cardinality(Tickets(G)) <= Cardinality(G)
    BY <1>1, FS_Surjection
  <1>3. Cardinality(Tickets(G)) \in Nat /\ Cardinality(G) \in Nat
    BY <1>2, FS_CardinalityType
  <1> QED
    BY <1>2, <1>3

LEMMA WindowsFew ==
    ASSUME Limiters
    PROVE  /\ IsFiniteSet(restGranted) /\ Cardinality(restGranted) <= RestRate
           /\ IsFiniteSet(grpcGranted) /\ Cardinality(grpcGranted) <= GrpcRate
  <1>1. /\ IsFiniteSet(restTs) /\ Cardinality(restTs) <= RestRate
        /\ restGranted \subseteq restTs
    BY DEF Limiters, RestP!IInv, RestP!TypeOK, RestP!RemembersTheWindow, RestP!Retained,
           RestP!IsFiniteSet, RestP!Cardinality, IsFiniteSet, Cardinality
  <1>2. /\ IsFiniteSet(grpcTs) /\ Cardinality(grpcTs) <= GrpcRate
        /\ grpcGranted \subseteq grpcTs
    BY DEF Limiters, GrpcP!IInv, GrpcP!TypeOK, GrpcP!RemembersTheWindow, GrpcP!Retained,
           GrpcP!IsFiniteSet, GrpcP!Cardinality, IsFiniteSet, Cardinality
  <1> QED
    BY <1>1, <1>2, Fewer, FS_Subset DEF DispatcherAssumption

\* The bound on a union of three sets.
LEMMA ThreeParts ==
    ASSUME NEW A, NEW B, NEW C, IsFiniteSet(A), IsFiniteSet(B), IsFiniteSet(C),
           NEW a \in Nat, NEW b \in Nat, NEW c \in Nat,
           Cardinality(A) <= a, Cardinality(B) <= b, Cardinality(C) <= c,
           NEW S, S \subseteq (A \cup B) \cup C
    PROVE  Cardinality(S) <= a + b + c
  <1>1. /\ IsFiniteSet(A \cup B)
        /\ Cardinality(A \cup B) = Cardinality(A) + Cardinality(B) - Cardinality(A \cap B)
    BY FS_Union
  <1>2. /\ IsFiniteSet((A \cup B) \cup C)
        /\ Cardinality((A \cup B) \cup C)
             = Cardinality(A \cup B) + Cardinality(C) - Cardinality((A \cup B) \cap C)
    BY <1>1, FS_Union
  <1>3. IsFiniteSet(A \cap B) /\ IsFiniteSet((A \cup B) \cap C)
    <2>1. A \cap B \in SUBSET A /\ (A \cup B) \cap C \in SUBSET C
      OBVIOUS
    <2> QED
      BY <2>1, FS_Subset
  <1>4. /\ Cardinality(A) \in Nat /\ Cardinality(B) \in Nat /\ Cardinality(C) \in Nat
        /\ Cardinality(A \cap B) \in Nat /\ Cardinality((A \cup B) \cap C) \in Nat
        /\ Cardinality(A \cup B) \in Nat
    BY <1>1, <1>3, FS_CardinalityType
  <1>5. Cardinality((A \cup B) \cup C) <= a + b + c
    BY <1>1, <1>2, <1>4
  <1> QED
    BY <1>2, <1>5, Fewer

\* What reached a client within the second has a slot of this second or is
\* carried over from the one before.
LEMMA BurstIsBounded == IBurst => BurstBound
  <1> SUFFICES ASSUME IBurst
               PROVE  BurstBound
    OBVIOUS
  <1> DEFINE A == Tickets(restGranted)
             B == Tickets(grpcGranted)
             C == Carried(SECOND)
             S == { i \in Item : wire[i] < SECOND }
  <1>1. /\ RestRate \in Nat /\ GrpcRate \in Nat /\ SECOND \in 0 .. SECOND
        /\ Cardinality(Worker) \in Nat
    BY FS_CardinalityType DEF DispatcherAssumption
  <1>2. IsFiniteSet(A) /\ Cardinality(A) <= RestRate
    BY <1>1, WindowsFew, TicketsFew DEF IBurst
  <1>3. IsFiniteSet(B) /\ Cardinality(B) <= GrpcRate
    BY <1>1, WindowsFew, TicketsFew DEF IBurst
  <1>4. IsFiniteSet(C) /\ Cardinality(C) <= Cardinality(Worker)
    BY <1>1, CarriedFinite DEF IBurst, CarriedBound
  <1>5. S \subseteq (A \cup B) \cup C
    BY DEF Tickets, Carried, Stamped
  <1> HIDE DEF A, B, C
  <1> QED
    BY <1>1, <1>2, <1>3, <1>4, <1>5, ThreeParts DEF BurstBound

\* However long a worker (spawn_workers) builds between try_acquire and
\* send_bundle, the bundles handed to the two clients within any second are
\* at most one per worker more than the two rates.
THEOREM BurstsBounded == Spec => []BurstBound
  <1>1. Init => IBurst
    BY Shapely, LimitersInit, BurstInit DEF IBurst
  <1>2. IBurst /\ [Next]_vars => IBurst'
    BY ShapeNext, LimitersNext, BurstNext DEF IBurst
  <1> QED
    BY <1>1, <1>2, BurstIsBounded, PTL DEF Spec
-----------------------------------------------------------------------------
\* The promise.

\* The stage of an item is read off from where it is.  Two facts make it
\* simpler: an item that was pushed and not finished with is somewhere
\* (NothingLost), and an item has a slot exactly while its worker builds or
\* sends (SlotsFit).  Then the stage follows from the item's own record
\* (Progress), which few steps change.

Before == {"popped", "rest", "grpc", "refused"}
After == {"building", "sending"}

NothingLost == \A i \in Item : producer[i] # "absent" /\ outcome[i] = "none" => Waiting(i)

SlotsFit ==
    /\ \A w \in Worker : pc[w] \in After => slot[held[w]] # "none"
    /\ \A w \in Worker : pc[w] \in Before => slot[held[w]] = "none"
    /\ \A k \in DOMAIN lifo : slot[lifo[k]] = "none"
    /\ \A i \in Item : producer[i] = "absent" => slot[i] = "none"

Homes == Shape /\ Balance /\ OneHome /\ Untouched
RefInv == Homes /\ Limiters /\ NothingLost /\ SlotsFit


-----------------------------------------------------------------------------
\* Nothing is lost.

\* What a worker holds or not, by its step.
LEMMA InHands ==
    ASSUME Shape, NEW w \in Worker
    PROVE  /\ pc[w] \in InHand => held[w] \in Item
           /\ pc[w] \notin InHand => held[w] = NoItem
  BY DEF Shape

LEMMA LostInit == Init => NothingLost /\ SlotsFit
  BY DEF Init, NothingLost, SlotsFit, Before, After

\* Steps that move no item.
LEMMA LostStill ==
    ASSUME NothingLost, UNCHANGED <<lifo, held, outcome>>,
           \A i \in Item : producer'[i] = "absent" <=> producer[i] = "absent"
    PROVE  NothingLost'
  BY DEF NothingLost, Waiting

LEMMA LostPush ==
    ASSUME Shape, NothingLost, NEW i \in Item, lifo' = Append(lifo, i),
           UNCHANGED <<held, outcome>>,
           \A j \in Item \ {i} : producer'[j] = "absent" <=> producer[j] = "absent"
    PROVE  NothingLost'
  <1>1. /\ Len(lifo) \in Nat /\ DOMAIN lifo = 1 .. Len(lifo)
        /\ DOMAIN lifo' = 1 .. Len(lifo) + 1
        /\ \A k \in 1 .. Len(lifo) : lifo'[k] = lifo[k]
        /\ lifo'[Len(lifo) + 1] = i
    BY Pushed DEF Shape
  <1>2. Len(lifo) + 1 \in DOMAIN lifo' /\ \A k \in DOMAIN lifo : k \in DOMAIN lifo' /\ lifo'[k] = lifo[k]
    BY <1>1
  <1>3. Waiting(i)'
    BY <1>1, <1>2 DEF Waiting
  <1>4. \A j \in Item : Waiting(j) => Waiting(j)'
    BY <1>2 DEF Waiting
  <1> QED
    BY <1>3, <1>4 DEF NothingLost

LEMMA LostPop ==
    ASSUME Shape, NothingLost, NEW w \in Worker, held[w] = NoItem, lifo # <<>>,
           held' = [held EXCEPT ![w] = Top(lifo)], lifo' = Below(lifo),
           UNCHANGED <<producer, outcome>>
    PROVE  NothingLost'
  <1> DEFINE n == Len(lifo)
  <1>1. /\ n \in Nat \ {0} /\ DOMAIN lifo = 1 .. n
        /\ DOMAIN lifo' = 1 .. n - 1
        /\ \A k \in 1 .. n - 1 : lifo'[k] = lifo[k]
    BY Popped, LenProperties DEF Shape
  <1>2. Top(lifo) = lifo[n]
    BY DEF Top
  <1> HIDE DEF n
  <1>3. \A k \in DOMAIN lifo : k = n \/ (k \in DOMAIN lifo' /\ lifo'[k] = lifo[k])
    BY <1>1
  <1>4. \A v \in Worker : held'[v] = IF v = w THEN lifo[n] ELSE held[v]
    BY <1>2 DEF Shape
  <1>5. ASSUME NEW j \in Item, Waiting(j)
        PROVE  Waiting(j)'
    <2>1. CASE \E k \in DOMAIN lifo : lifo[k] = j
      BY <1>3, <1>4, <2>1 DEF Waiting
    <2>2. CASE \E v \in Worker : held[v] = j
      BY <1>4, <2>2 DEF Waiting, DispatcherAssumption
    <2> QED
      BY <1>5, <2>1, <2>2 DEF Waiting
  <1> QED
    BY <1>5 DEF NothingLost

LEMMA LostPushBack ==
    ASSUME Shape, NothingLost, NEW w \in Worker, held[w] \in Item,
           lifo' = Append(lifo, held[w]), held' = [held EXCEPT ![w] = NoItem],
           UNCHANGED <<producer, outcome>>
    PROVE  NothingLost'
  <1>1. /\ Len(lifo) \in Nat /\ DOMAIN lifo = 1 .. Len(lifo)
        /\ DOMAIN lifo' = 1 .. Len(lifo) + 1
        /\ \A k \in 1 .. Len(lifo) : lifo'[k] = lifo[k]
        /\ lifo'[Len(lifo) + 1] = held[w]
    BY Pushed DEF Shape
  <1>2. Len(lifo) + 1 \in DOMAIN lifo' /\ \A k \in DOMAIN lifo : k \in DOMAIN lifo' /\ lifo'[k] = lifo[k]
    BY <1>1
  <1>3. \A v \in Worker : v # w => held'[v] = held[v]
    BY DEF Shape
  <1>4. ASSUME NEW j \in Item, Waiting(j)
        PROVE  Waiting(j)'
    <2>1. CASE j = held[w]
      <3>1. lifo'[Len(lifo) + 1] = held[w]
        BY <1>1
      <3> QED
        BY <1>2, <2>1, <3>1 DEF Waiting
    <2>2. CASE j # held[w]
      BY <1>2, <1>3, <1>4, <2>2 DEF Waiting
    <2> QED
      BY <2>1, <2>2
  <1> QED
    BY <1>4 DEF NothingLost

\* A worker lets go of an item it has finished with.
LEMMA LostSettle ==
    ASSUME Shape, NothingLost, NEW w \in Worker, held[w] \in Item, NEW o, o # "none",
           Settle(w, o), UNCHANGED <<lifo, producer>>
    PROVE  NothingLost'
  <1>1. \A v \in Worker : v # w => held'[v] = held[v]
    BY DEF Settle, Shape
  <1>2. outcome'[held[w]] = o /\ \A j \in Item : j # held[w] => outcome'[j] = outcome[j]
    <2>1. outcome' = [outcome EXCEPT ![held[w]] = o]
      BY DEF Settle
    <2>2. outcome \in [Item -> Outcome]
      BY DEF Shape
    <2> QED
      BY ONLY <2>1, <2>2, held[w] \in Item
  <1>3. \A j \in Item : j # held[w] /\ Waiting(j) => Waiting(j)'
    BY <1>1 DEF Waiting
  <1> QED
    BY <1>2, <1>3 DEF NothingLost

LEMMA LostNext == Homes /\ NothingLost /\ [Next]_vars => NothingLost'
  <1> SUFFICES ASSUME Homes, NothingLost, [Next]_vars
               PROVE  NothingLost'
    OBVIOUS
  <1>0. Shape /\ Balance
    BY DEF Homes
  <1>1. CASE Tick
    BY <1>1, LostStill DEF Tick, queueVars
  <1>2. ASSUME NEW i \in Item, push_to_queue(i)
        PROVE  NothingLost'
    <2>1. CASE Push(i)
      <3>1. \A j \in Item \ {i} : producer'[j] = producer[j]
        BY <1>0, <2>1 DEF Push, Shape
      <3>2. lifo' = Append(lifo, i) /\ UNCHANGED <<held, outcome>>
        BY <2>1 DEF Push, itemVars
      <3> QED
        BY <1>0, <3>1, <3>2, LostPush
    <2>2. CASE Count(i) \/ AddPermit(i)
      <3>1. \A j \in Item : producer'[j] = "absent" <=> producer[j] = "absent"
        BY <1>0, <2>2 DEF Count, AddPermit, Shape
      <3>2. UNCHANGED <<lifo, held, outcome>>
        BY <2>2 DEF Count, AddPermit, itemVars
      <3> QED
        BY <3>1, <3>2, LostStill
    <2> QED
      BY <1>2, <2>1, <2>2 DEF push_to_queue
  <1>3. ASSUME NEW w \in Worker, worker(w)
        PROVE  NothingLost'
    <2>1. /\ pc[w] \in InHand => held[w] \in Item
          /\ pc[w] \notin InHand => held[w] = NoItem
      BY <1>0, InHands
    <2>2. UNCHANGED producer
      BY <1>3 DEF worker, Take, Pop, Inspect, RestSlot, RestFull, GrpcSlot, GrpcFull, PushBack,
                  CountBack, PermitBack, Wake, BuildDrop, HandOver, Reply, GiveSlot, MoveOn
    <2>4. ASSUME UNCHANGED <<lifo, held, outcome>>
          PROVE  NothingLost'
      BY <2>2, <2>4, LostStill
    <2>5. CASE Pop(w)
      <3>1. lifo # <<>> /\ held[w] = NoItem
        BY <1>0, <2>1, <2>5, PermitMeansItem DEF Pop, PopFindsItem, At, InHand
      <3>2. /\ held' = [held EXCEPT ![w] = Top(lifo)] /\ lifo' = Below(lifo)
            /\ UNCHANGED outcome
        BY <2>5, <3>1 DEF Pop, itemVars
      <3> QED
        BY <1>0, <2>2, <3>1, <3>2, LostPop
    <2>6. CASE Inspect(w)
      <3>1. held[w] \in Item /\ UNCHANGED lifo
        BY <2>1, <2>6 DEF Inspect, At, InHand
      <3>2. CASE Settle(w, "stale")
        BY <1>0, <2>2, <3>1, <3>2, LostSettle
      <3> QED
        BY <2>4, <2>6, <3>1, <3>2 DEF Inspect
    <2>7. CASE PushBack(w)
      <3>1. /\ held[w] \in Item /\ lifo' = Append(lifo, held[w])
            /\ held' = [held EXCEPT ![w] = NoItem] /\ UNCHANGED outcome
        BY <2>1, <2>7 DEF PushBack, At, InHand
      <3> QED
        BY <1>0, <2>2, <3>1, LostPushBack
    <2>8. CASE BuildDrop(w) \/ Reply(w)
      <3>1. held[w] \in Item /\ UNCHANGED lifo
        BY <2>1, <2>8 DEF BuildDrop, Reply, At, InHand, queueVars
      <3>2. PICK o \in Outcome \ {"none"} : Settle(w, o)
        BY <2>8 DEF BuildDrop, Reply, Outcome
      <3> QED
        BY <1>0, <2>2, <3>1, <3>2, LostSettle
    <2>9. CASE Take(w) \/ CountBack(w) \/ PermitBack(w) \/ Wake(w) \/ HandOver(w)
      BY <2>4, <2>9 DEF Take, CountBack, PermitBack, Wake, HandOver, MoveOn, queueVars, itemVars
    <2>10. CASE RestSlot(w) \/ RestFull(w) \/ GrpcSlot(w) \/ GrpcFull(w)
      BY <2>4, <2>10 DEF RestSlot, RestFull, GrpcSlot, GrpcFull, GiveSlot, MoveOn, queueVars, itemVars
    <2> QED
      BY <1>3, <2>5, <2>6, <2>7, <2>8, <2>9, <2>10 DEF worker
  <1>4. CASE UNCHANGED vars
    BY <1>4, LostStill DEF vars, queueVars, itemVars
  <1> QED
    BY <1>1, <1>2, <1>3, <1>4 DEF Next

-----------------------------------------------------------------------------
\* A slot from the limiter's grant to the end of the item, and not before.

LEMMA FitStill ==
    ASSUME SlotsFit, UNCHANGED <<lifo, held, slot>>,
           \A w \in Worker : pc'[w] \in After => pc[w] \in After,
           \A w \in Worker : pc'[w] \in Before => pc[w] \in Before,
           \A i \in Item : producer'[i] = "absent" => producer[i] = "absent"
    PROVE  SlotsFit'
  BY DEF SlotsFit

LEMMA FitPush ==
    ASSUME Shape, SlotsFit, NEW i \in Item, producer[i] = "absent", lifo' = Append(lifo, i),
           UNCHANGED <<held, slot, pc>>,
           \A j \in Item : producer'[j] = "absent" => producer[j] = "absent"
    PROVE  SlotsFit'
  <1>1. /\ Len(lifo) \in Nat /\ DOMAIN lifo = 1 .. Len(lifo)
        /\ DOMAIN lifo' = 1 .. Len(lifo) + 1
        /\ \A k \in 1 .. Len(lifo) : lifo'[k] = lifo[k]
        /\ lifo'[Len(lifo) + 1] = i
    BY Pushed DEF Shape
  <1>2. \A k \in DOMAIN lifo' : k \in DOMAIN lifo \/ k = Len(lifo) + 1
    BY <1>1
  <1>3. \A k \in DOMAIN lifo' : slot'[lifo'[k]] = "none"
    BY <1>1, <1>2 DEF SlotsFit
  <1> QED
    BY <1>3 DEF SlotsFit

\* A worker moves to a step before the slot with an item that has none.
LEMMA FitPop ==
    ASSUME Shape, SlotsFit, NEW w \in Worker, lifo # <<>>,
           held' = [held EXCEPT ![w] = Top(lifo)], lifo' = Below(lifo),
           pc' = [pc EXCEPT ![w] = "popped"], UNCHANGED <<producer, slot>>
    PROVE  SlotsFit'
  <1> DEFINE n == Len(lifo)
  <1>1. /\ n \in Nat \ {0} /\ DOMAIN lifo = 1 .. n
        /\ DOMAIN lifo' = 1 .. n - 1
        /\ \A k \in 1 .. n - 1 : lifo'[k] = lifo[k]
    BY Popped, LenProperties DEF Shape
  <1>2. Top(lifo) = lifo[n]
    BY DEF Top
  <1> HIDE DEF n
  <1>3. n \in DOMAIN lifo /\ \A k \in DOMAIN lifo' : k \in DOMAIN lifo /\ lifo'[k] = lifo[k]
    BY <1>1
  <1>4. \A v \in Worker : /\ held'[v] = IF v = w THEN lifo[n] ELSE held[v]
                          /\ pc'[v] = IF v = w THEN "popped" ELSE pc[v]
    BY <1>2 DEF Shape
  <1> QED
    BY <1>3, <1>4 DEF SlotsFit, After, Before

\* A worker leaves its item, for good or on top of the LIFO.
LEMMA FitLeave ==
    ASSUME Shape, SlotsFit, NEW w \in Worker, NEW s \in WorkerStep \ InHand,
           held' = [held EXCEPT ![w] = NoItem],
           pc' = [pc EXCEPT ![w] = s], UNCHANGED <<producer, slot>>,
           \A k \in DOMAIN lifo' : slot[lifo'[k]] = "none"
    PROVE  SlotsFit'
  <1>1. \A v \in Worker : /\ v # w => held'[v] = held[v]
                          /\ pc'[v] = IF v = w THEN s ELSE pc[v]
    BY DEF Shape
  <1>2. s \notin After /\ s \notin Before
    BY DEF InHand, After, Before
  <1> QED
    BY <1>1, <1>2 DEF SlotsFit

\* A limiter grants a slot to the item in hand, which is nowhere else.
LEMMA FitSlot ==
    ASSUME Shape, OneHome, SlotsFit, NEW w \in Worker, held[w] \in Item,
           NEW p, p # "none",
           slot' = [slot EXCEPT ![held[w]] = p], pc' = [pc EXCEPT ![w] = "building"],
           UNCHANGED <<lifo, held, producer>>
    PROVE  SlotsFit'
  <1>1. slot'[held[w]] = p /\ \A j : j \in Item /\ j # held[w] => slot'[j] = slot[j]
    BY DEF Shape
  <1>2. \A v \in Worker : pc'[v] = IF v = w THEN "building" ELSE pc[v]
    BY DEF Shape
  <1>3. \A v \in Worker : v # w /\ held[v] \in Item => slot'[held[v]] = slot[held[v]]
    BY <1>1 DEF OneHome, DispatcherAssumption
  <1>4. \A v \in Worker : pc[v] \in After \cup Before => held[v] \in Item
    BY InHands DEF After, Before, InHand
  <1>5. \A k \in DOMAIN lifo : lifo[k] \in Item /\ lifo[k] # held[w]
    BY LenProperties DEF Shape, OneHome
  <1>6. \A i \in Item : producer[i] = "absent" => i # held[w]
    BY DEF OneHome, Waiting
  <1>7. \A v \in Worker : pc'[v] \in After => slot'[held'[v]] # "none"
    BY <1>1, <1>2, <1>3, <1>4 DEF SlotsFit
  <1>8. \A v \in Worker : pc'[v] \in Before => slot'[held'[v]] = "none"
    BY <1>1, <1>2, <1>3, <1>4 DEF SlotsFit, Before
  <1>9. \A k \in DOMAIN lifo' : slot'[lifo'[k]] = "none"
    BY <1>1, <1>5 DEF SlotsFit
  <1>10. \A i \in Item : producer'[i] = "absent" => slot'[i] = "none"
    BY <1>1, <1>6 DEF SlotsFit
  <1> QED
    BY <1>7, <1>8, <1>9, <1>10 DEF SlotsFit

\* A step of a worker that keeps its item on the same side of its slot.
Aside(a, b) == (b \in After => a \in After) /\ (b \in Before => a \in Before)

LEMMA FitGoes ==
    ASSUME Shape, SlotsFit, NEW w \in Worker, NEW a, NEW b, pc[w] = a,
           pc' = [pc EXCEPT ![w] = b], Aside(a, b), UNCHANGED <<lifo, held, producer, slot>>
    PROVE  SlotsFit'
  <1>1. \A v \in Worker : pc'[v] = IF v = w THEN b ELSE pc[v]
    BY DEF Shape
  <1>2. /\ \A v \in Worker : pc'[v] \in After => pc[v] \in After
        /\ \A v \in Worker : pc'[v] \in Before => pc[v] \in Before
    BY <1>1 DEF Aside
  <1> QED
    BY <1>2, FitStill

LEMMA FitNext == Homes /\ SlotsFit /\ [Next]_vars => SlotsFit'
  <1> SUFFICES ASSUME Homes, SlotsFit, [Next]_vars
               PROVE  SlotsFit'
    OBVIOUS
  <1>0. Shape /\ Balance /\ OneHome
    BY DEF Homes
  <1>1. CASE Tick
    BY <1>1, FitStill DEF Tick, queueVars
  <1>2. ASSUME NEW i \in Item, push_to_queue(i)
        PROVE  SlotsFit'
    <2>1. UNCHANGED <<held, slot, pc>>
      BY <1>2 DEF push_to_queue, Push, Count, AddPermit, itemVars
    <2>2. \A j \in Item : producer'[j] = "absent" => producer[j] = "absent"
      BY <1>0, <1>2 DEF push_to_queue, Push, Count, AddPermit, Shape
    <2>3. CASE Push(i)
      BY <1>0, <2>1, <2>2, <2>3, FitPush DEF Push
    <2>4. CASE Count(i) \/ AddPermit(i)
      BY <2>1, <2>2, <2>4, FitStill DEF Count, AddPermit
    <2> QED
      BY <1>2, <2>3, <2>4 DEF push_to_queue
  <1>3. ASSUME NEW w \in Worker, worker(w)
        PROVE  SlotsFit'
    <2>1. /\ pc[w] \in InHand => held[w] \in Item
          /\ pc[w] \notin InHand => held[w] = NoItem
      BY <1>0, InHands
    <2>2. UNCHANGED producer
      BY <1>3 DEF worker, Take, Pop, Inspect, RestSlot, RestFull, GrpcSlot, GrpcFull, PushBack,
                  CountBack, PermitBack, Wake, BuildDrop, HandOver, Reply, GiveSlot, MoveOn
    <2>3. \A k \in DOMAIN lifo : slot[lifo[k]] = "none"
      BY DEF SlotsFit
    <2>4. ASSUME NEW o, Settle(w, o), UNCHANGED <<lifo, slot>>
          PROVE  SlotsFit'
      <3>1. "idle" \in WorkerStep \ InHand
        BY DEF WorkerStep, InHand
      <3> QED
        BY <1>0, <2>2, <2>3, <2>4, <3>1, FitLeave DEF Settle, Goto
    <2>5. CASE Pop(w)
      <3>1. lifo # <<>>
        BY <1>0, <2>5, PermitMeansItem DEF Pop, PopFindsItem, At
      <3>2. /\ held' = [held EXCEPT ![w] = Top(lifo)] /\ lifo' = Below(lifo)
            /\ pc' = [pc EXCEPT ![w] = "popped"] /\ UNCHANGED slot
        BY <2>5, <3>1 DEF Pop, itemVars, Goto
      <3> QED
        BY <1>0, <2>2, <3>1, <3>2, FitPop
    <2>6. CASE Inspect(w)
      <3>1. UNCHANGED <<lifo, slot>>
        BY <2>6 DEF Inspect
      <3>2. CASE Settle(w, "stale")
        BY <2>4, <3>1, <3>2
      <3>3. CASE Goto(w, "rest") /\ UNCHANGED held
        <4>1. pc[w] = "popped" /\ Aside("popped", "rest")
          BY <2>6 DEF Inspect, At, Aside, After, Before
        <4> QED
          BY <1>0, <2>2, <3>1, <3>3, <4>1, FitGoes DEF Goto
      <3> QED
        BY <2>6, <3>2, <3>3 DEF Inspect
    <2>7. CASE PushBack(w)
      <3>1. /\ held[w] \in Item /\ lifo' = Append(lifo, held[w])
            /\ held' = [held EXCEPT ![w] = NoItem] /\ UNCHANGED slot
            /\ pc' = [pc EXCEPT ![w] = "repushed"]
        BY <2>1, <2>7 DEF PushBack, At, InHand, Goto
      <3>2. slot[held[w]] = "none"
        BY <2>7 DEF PushBack, At, SlotsFit, Before
      <3>3. /\ Len(lifo) \in Nat /\ DOMAIN lifo = 1 .. Len(lifo)
            /\ DOMAIN lifo' = 1 .. Len(lifo) + 1
            /\ \A k \in 1 .. Len(lifo) : lifo'[k] = lifo[k]
            /\ lifo'[Len(lifo) + 1] = held[w]
        BY <1>0, <3>1, Pushed DEF Shape
      <3>4. \A k \in DOMAIN lifo' : k \in DOMAIN lifo \/ k = Len(lifo) + 1
        BY <3>3
      <3>5. \A k \in DOMAIN lifo' : slot[lifo'[k]] = "none"
        BY <2>3, <3>2, <3>3, <3>4
      <3>6. "repushed" \in WorkerStep \ InHand
        BY DEF WorkerStep, InHand
      <3> QED
        BY <1>0, <2>2, <3>1, <3>5, <3>6, FitLeave
    <2>8. CASE BuildDrop(w) \/ Reply(w)
      <3>1. UNCHANGED <<lifo, slot>> /\ \E o : Settle(w, o)
        BY <2>8 DEF BuildDrop, Reply, queueVars
      <3> QED
        BY <2>4, <3>1
    <2>9. CASE RestSlot(w) \/ GrpcSlot(w)
      <3>1. held[w] \in Item
        BY <2>1, <2>9 DEF RestSlot, GrpcSlot, At, InHand
      <3>2. PICK p \in {"rest", "grpc"} : slot' = [slot EXCEPT ![held[w]] = p]
        BY <2>9 DEF RestSlot, GrpcSlot, GiveSlot
      <3>3. pc' = [pc EXCEPT ![w] = "building"] /\ UNCHANGED <<lifo, held>>
        BY <2>9 DEF RestSlot, GrpcSlot, GiveSlot, Goto, queueVars
      <3> QED
        BY <1>0, <2>2, <3>1, <3>2, <3>3, FitSlot
    <2>10. CASE RestFull(w) \/ GrpcFull(w) \/ HandOver(w)
      <3>1. PICK b : Goto(w, b) /\ Aside(pc[w], b)
        BY <2>10 DEF RestFull, GrpcFull, HandOver, MoveOn, At, Aside, After, Before
      <3>2. UNCHANGED <<lifo, held, slot>>
        BY <2>10 DEF RestFull, GrpcFull, HandOver, MoveOn, queueVars, itemVars
      <3> QED
        BY <1>0, <2>2, <3>1, <3>2, FitGoes DEF Goto
    <2>11. CASE Take(w) \/ CountBack(w) \/ PermitBack(w) \/ Wake(w)
      <3>1. PICK b : Goto(w, b) /\ Aside(pc[w], b)
        BY <2>11 DEF Take, CountBack, PermitBack, Wake, MoveOn, At, Aside, After, Before
      <3>2. UNCHANGED <<lifo, held, slot>>
        BY <2>11 DEF Take, CountBack, PermitBack, Wake, MoveOn, queueVars, itemVars
      <3> QED
        BY <1>0, <2>2, <3>1, <3>2, FitGoes DEF Goto
    <2> QED
      BY <1>3, <2>5, <2>6, <2>7, <2>8, <2>9, <2>10, <2>11 DEF worker
  <1>4. CASE UNCHANGED vars
    BY <1>4, FitStill DEF vars, queueVars, itemVars
  <1> QED
    BY <1>1, <1>2, <1>3, <1>4 DEF Next

LEMMA RefInvInit == Init => RefInv
  <1>1. Init => Untouched
    BY DEF Init, Untouched
  <1> QED
    BY <1>1, Shapely, BalanceInit, OneHomeInit, LimitersInit, LostInit DEF RefInv, Homes

LEMMA RefInvNext == RefInv /\ [Next]_vars => RefInv'
  BY ShapeNext, BalanceNext, OneHomeNext, LimitersNext, LostNext, FitNext DEF RefInv, Homes

-----------------------------------------------------------------------------
\* The stage of an item from its own record.

Progress(i) ==
    IF producer[i] = "absent" THEN "absent"
    ELSE IF outcome[i] = "sent" THEN "sent"
    ELSE IF outcome[i] # "none" THEN "dropped"
    ELSE IF slot[i] = "none" THEN "waiting" ELSE "slotted"

Stages == [i \in Item |-> Stage(i)]
Windows == [p \in {"rest", "grpc"} |-> IF p = "rest" THEN restGranted ELSE grpcGranted]

ByRecord == Stages = [i \in Item |-> Progress(i)]

LEMMA StagesByRecord == RefInv => ByRecord
  <1> SUFFICES ASSUME RefInv, NEW i \in Item
               PROVE  Stage(i) = Progress(i)
    BY DEF ByRecord, Stages
  <1> USE DEF RefInv, Homes
  <1>1. CASE producer[i] = "absent"
    <2>1. outcome[i] = "none" /\ ~ Waiting(i)
      BY <1>1 DEF Untouched, OneHome
    <2> QED
      BY <1>1, <2>1 DEF Stage, Progress
  <1>2. CASE producer[i] # "absent" /\ outcome[i] = "none"
    <2>1. Waiting(i)
      BY <1>2 DEF NothingLost
    <2> QED
      BY <1>2, <2>1 DEF Stage, Progress
  <1>3. CASE producer[i] # "absent" /\ outcome[i] = "sent"
    BY <1>3 DEF Stage, Progress
  <1>4. CASE producer[i] # "absent" /\ outcome[i] \notin {"none", "sent"}
    BY <1>4 DEF Stage, Progress
  <1> QED
    BY <1>1, <1>2, <1>3, <1>4

LEMMA StagesStayByRecord == RefInv' => ByRecord'
  BY StagesByRecord, PTL

\* A step after which one item, or none, has made progress.
LEMMA OneStage ==
    ASSUME RefInv, RefInv', NEW i \in Item, NEW s, Progress(i)' = s,
           \A j \in Item \ {i} : Progress(j)' = Progress(j)
    PROVE  Stages' = [Stages EXCEPT ![i] = s] /\ Stages[i] = Progress(i)
  <1>1. Stages = [j \in Item |-> Progress(j)]
    BY StagesByRecord DEF ByRecord
  <1>2. Stages' = [j \in Item |-> Progress(j)']
    BY StagesStayByRecord DEF ByRecord
  <1> QED
    BY <1>1, <1>2

LEMMA SameStages ==
    ASSUME RefInv, RefInv', \A j \in Item : Progress(j)' = Progress(j)
    PROVE  Stages' = Stages
  <1>1. Stages = [j \in Item |-> Progress(j)]
    BY StagesByRecord DEF ByRecord
  <1>2. Stages' = [j \in Item |-> Progress(j)']
    BY StagesStayByRecord DEF ByRecord
  <1> QED
    BY <1>1, <1>2

-----------------------------------------------------------------------------
\* The steps of the promise, one for each way in which an item moves on.

\* The abstract module counts with its own instance of Cardinality.
LEMMA SameCardinality ==
    /\ \A S : Promise!Cardinality(S) = Cardinality(S)
    /\ \A S : Rest!Cardinality(S) = Cardinality(S)
    /\ \A S : Grpc!Cardinality(S) = Cardinality(S)
  BY DEF Cardinality, Promise!Cardinality, Rest!Cardinality, Grpc!Cardinality

LEMMA Arrives ==
    ASSUME RefInv, RefInv', NEW i \in Item, Push(i)
    PROVE  Promise!Arrive(i)
  <1>1. outcome[i] = "none" /\ slot[i] = "none"
    BY DEF Push, RefInv, Homes, Untouched, SlotsFit
  <1>2. /\ producer[i] = "absent" /\ producer'[i] = "pushed"
        /\ \A j \in Item \ {i} : producer'[j] = producer[j]
        /\ UNCHANGED <<outcome, slot, age, restGranted, grpcGranted>>
    BY DEF Push, itemVars, restVars, grpcVars, RefInv, Homes, Shape
  <1>3. /\ Progress(i) = "absent" /\ Progress(i)' = "waiting"
        /\ \A j \in Item \ {i} : Progress(j)' = Progress(j)
    BY <1>1, <1>2 DEF Progress
  <1>4. Stages' = [Stages EXCEPT ![i] = "waiting"] /\ Stages[i] = "absent"
    BY <1>3, OneStage
  <1>5. UNCHANGED <<age, Windows>>
    BY <1>2 DEF Windows
  <1> QED
    BY <1>4, <1>5 DEF Promise!Arrive, Stages, Windows

\* An item in a worker's hands has been pushed and not finished with.
LEMMA HeldIsOpen ==
    ASSUME RefInv, NEW w \in Worker, pc[w] \in InHand
    PROVE  /\ held[w] \in Item
           /\ producer[held[w]] # "absent" /\ outcome[held[w]] = "none"
  <1>1. held[w] \in Item
    BY InHands DEF RefInv, Homes
  <1> QED
    BY <1>1 DEF RefInv, Homes, OneHome, Waiting

LEMMA Expires ==
    ASSUME RefInv, RefInv', NEW w \in Worker, Inspect(w), Stale(held[w])
    PROVE  Promise!Expire(held[w])
  <1>0. PICK i \in Item : i = held[w]
    BY HeldIsOpen DEF Inspect, At, InHand
  <1>1. producer[i] # "absent" /\ outcome[i] = "none"
    BY <1>0, HeldIsOpen DEF Inspect, At, InHand
  <1>2. slot[i] = "none"
    BY <1>0 DEF Inspect, At, RefInv, SlotsFit, Before
  <1>3. /\ outcome' = [outcome EXCEPT ![i] = "stale"]
        /\ age' = [age EXCEPT ![i] = 0]
        /\ UNCHANGED <<producer, slot, restGranted, grpcGranted>>
    BY <1>0 DEF Inspect, Settle, restVars, grpcVars
  <1>4. outcome \in [Item -> Outcome] /\ age[i] > MaxAge
    BY <1>0 DEF RefInv, Homes, Shape, Stale
  <1>5. outcome'[i] = "stale" /\ \A j \in Item \ {i} : outcome'[j] = outcome[j]
    BY <1>1, <1>3, <1>4
  <1>6. /\ Progress(i) = "waiting" /\ Progress(i)' = "dropped"
        /\ \A j \in Item \ {i} : Progress(j)' = Progress(j)
    BY <1>1, <1>2, <1>3, <1>5 DEF Progress
  <1>7. Stages' = [Stages EXCEPT ![i] = "dropped"] /\ Stages[i] = "waiting"
    BY <1>1, <1>6, OneStage
  <1>8. UNCHANGED Windows
    BY <1>3 DEF Windows
  <1>9. Promise!Expire(i)
    BY <1>3, <1>4, <1>7, <1>8 DEF Promise!Expire, Stages, Windows
  <1> QED
    BY <1>0, <1>9

\* What the two grants of a slot have in common.
LEMMA GetsSlot ==
    ASSUME RefInv, RefInv', NEW w \in Worker, NEW p \in {"rest", "grpc"},
           pc[w] \in Before, GiveSlot(w, p)
    PROVE  /\ Stages[held[w]] = "waiting"
           /\ Stages' = [Stages EXCEPT ![held[w]] = "slotted"]
           /\ age' = [age EXCEPT ![held[w]] = 0]
  <1>0. PICK i \in Item : i = held[w]
    BY HeldIsOpen DEF Before, InHand
  <1>1. producer[i] # "absent" /\ outcome[i] = "none"
    BY <1>0, HeldIsOpen DEF Before, InHand
  <1>2. slot[i] = "none"
    BY <1>0 DEF RefInv, SlotsFit
  <1>3. /\ slot' = [slot EXCEPT ![i] = p]
        /\ age' = [age EXCEPT ![i] = 0]
        /\ UNCHANGED <<producer, outcome>>
    BY <1>0 DEF GiveSlot
  <1>4. slot \in [Item -> {"none", "rest", "grpc"}]
    BY DEF RefInv, Homes, Shape
  <1>5. slot'[i] = p /\ \A j \in Item \ {i} : slot'[j] = slot[j]
    BY <1>1, <1>3, <1>4
  <1>6. /\ Progress(i) = "waiting" /\ Progress(i)' = "slotted"
        /\ \A j \in Item \ {i} : Progress(j)' = Progress(j)
    BY <1>1, <1>2, <1>3, <1>5 DEF Progress
  <1>7. Stages' = [Stages EXCEPT ![i] = "slotted"] /\ Stages[i] = "waiting"
    BY <1>1, <1>6, OneStage
  <1> QED
    BY <1>0, <1>3, <1>7

LEMMA RestSlots ==
    ASSUME RefInv, RefInv', NEW w \in Worker, RestSlot(w)
    PROVE  Promise!Slot(held[w], "rest")
  <1>1. /\ Stages[held[w]] = "waiting"
        /\ Stages' = [Stages EXCEPT ![held[w]] = "slotted"]
        /\ age' = [age EXCEPT ![held[w]] = 0]
    BY GetsSlot DEF RestSlot, At, Before
  <1>2. Rest!Retained(restTs) = restGranted
    BY DEF RefInv, Limiters, RestP!IInv, RestP!RemembersTheWindow, RestP!Retained, Rest!Retained
  <1>3. Cardinality(restGranted) < RestRate
    BY <1>2, SameCardinality DEF RestSlot, Rest!Acquire, Rest!HasRoom
  <1>4. /\ restGranted' = restGranted \cup {[ticket |-> held[w], age |-> 0]}
        /\ UNCHANGED grpcGranted
    BY DEF RestSlot, Rest!Acquire, grpcVars
  <1>5. /\ Windows["rest"] = restGranted
        /\ Windows' = [Windows EXCEPT !["rest"] = @ \cup {[ticket |-> held[w], age |-> 0]}]
    BY <1>4 DEF Windows
  <1>6. Promise!Rate["rest"] = RestRate
    BY DEF Promise!Rate, Promise!Path
  <1>7. Promise!Cardinality(Windows["rest"]) < Promise!Rate["rest"]
    BY <1>3, <1>5, <1>6, SameCardinality
  <1> QED
    BY <1>1, <1>5, <1>7 DEF Promise!Slot, Stages, Windows

LEMMA GrpcSlots ==
    ASSUME RefInv, RefInv', NEW w \in Worker, GrpcSlot(w)
    PROVE  Promise!Slot(held[w], "grpc")
  <1>1. /\ Stages[held[w]] = "waiting"
        /\ Stages' = [Stages EXCEPT ![held[w]] = "slotted"]
        /\ age' = [age EXCEPT ![held[w]] = 0]
    BY GetsSlot DEF GrpcSlot, At, Before
  <1>2. Grpc!Retained(grpcTs) = grpcGranted
    BY DEF RefInv, Limiters, GrpcP!IInv, GrpcP!RemembersTheWindow, GrpcP!Retained, Grpc!Retained
  <1>3. Cardinality(grpcGranted) < GrpcRate
    BY <1>2, SameCardinality DEF GrpcSlot, Grpc!Acquire, Grpc!HasRoom
  <1>4. /\ grpcGranted' = grpcGranted \cup {[ticket |-> held[w], age |-> 0]}
        /\ UNCHANGED restGranted
    BY DEF GrpcSlot, Grpc!Acquire, restVars
  <1>5. /\ Windows["grpc"] = grpcGranted
        /\ Windows' = [Windows EXCEPT !["grpc"] = @ \cup {[ticket |-> held[w], age |-> 0]}]
    BY <1>4 DEF Windows
  <1>6. Promise!Rate["grpc"] = GrpcRate
    BY DEF Promise!Rate, Promise!Path
  <1>7. Promise!Cardinality(Windows["grpc"]) < Promise!Rate["grpc"]
    BY <1>3, <1>5, <1>6, SameCardinality
  <1> QED
    BY <1>1, <1>5, <1>7 DEF Promise!Slot, Stages, Windows

\* A bundle is dropped by its build, or its client answers.
LEMMA Settles ==
    ASSUME RefInv, RefInv', NEW w \in Worker, BuildDrop(w) \/ Reply(w)
    PROVE  Promise!Settle(held[w])
  <1>0. PICK i \in Item : i = held[w]
    BY HeldIsOpen DEF BuildDrop, Reply, At, InHand
  <1>1. producer[i] # "absent" /\ outcome[i] = "none"
    BY <1>0, HeldIsOpen DEF BuildDrop, Reply, At, InHand
  <1>2. slot[i] # "none"
    BY <1>0 DEF BuildDrop, Reply, At, RefInv, SlotsFit, After
  <1>3. PICK o \in Outcome \ {"none"} : outcome' = [outcome EXCEPT ![i] = o]
    BY <1>0 DEF BuildDrop, Reply, Settle, Outcome
  <1>4. UNCHANGED <<producer, slot, age, restGranted, grpcGranted>>
    BY DEF BuildDrop, Reply, restVars, grpcVars
  <1>5. outcome \in [Item -> Outcome]
    BY DEF RefInv, Homes, Shape
  <1>6. outcome'[i] = o /\ \A j \in Item \ {i} : outcome'[j] = outcome[j]
    BY <1>1, <1>3, <1>5
  <1>7. PICK s \in {"sent", "dropped"} : s = IF o = "sent" THEN "sent" ELSE "dropped"
    OBVIOUS
  <1>8. /\ Progress(i) = "slotted" /\ Progress(i)' = s
        /\ \A j \in Item \ {i} : Progress(j)' = Progress(j)
    BY <1>1, <1>2, <1>3, <1>4, <1>6, <1>7 DEF Progress
  <1>9. Stages' = [Stages EXCEPT ![i] = s] /\ Stages[i] = "slotted"
    BY <1>1, <1>8, OneStage
  <1>10. UNCHANGED Windows
    BY <1>4 DEF Windows
  <1>11. Promise!Settle(i)
    BY <1>4, <1>7, <1>9, <1>10 DEF Promise!Settle, Stages, Windows
  <1> QED
    BY <1>0, <1>11

\* An item ages exactly while it waits.
LEMMA AgeingIsWaiting ==
    ASSUME RefInv, NEW i \in Item
    PROVE  Ageing(i) <=> Stages[i] = "waiting"
  <1>1. Stages[i] = Progress(i)
    BY StagesByRecord DEF ByRecord
  <1> QED
    BY <1>1 DEF Ageing, Progress

\* The window of a limiter ages as the promise says.
LEMMA RestWindowAges ==
    ASSUME RefInv, Rest!Advance
    PROVE  restGranted' = {[g EXCEPT !.age = @ + 1] : g \in {h \in restGranted : h.age + 1 < SECOND}}
  <1> DEFINE In == { h \in restGranted : h.age + 1 < SECOND }
  <1>1. restGranted \subseteq [ticket : Item, age : 0 .. SECOND - 1]
    BY DEF RefInv, Limiters, RestP!IInv, RestP!TypeOK
  <1>2. \A g \in In : Rest!Older(g) = [g EXCEPT !.age = @ + 1]
    BY <1>1 DEF Rest!Older, DispatcherAssumption
  <1>3. { Rest!Older(g) : g \in In } = { [g EXCEPT !.age = @ + 1] : g \in In }
    BY <1>2
  <1> QED
    BY <1>3 DEF Rest!Advance

LEMMA GrpcWindowAges ==
    ASSUME RefInv, Grpc!Advance
    PROVE  grpcGranted' = {[g EXCEPT !.age = @ + 1] : g \in {h \in grpcGranted : h.age + 1 < SECOND}}
  <1> DEFINE In == { h \in grpcGranted : h.age + 1 < SECOND }
  <1>1. grpcGranted \subseteq [ticket : Item, age : 0 .. SECOND - 1]
    BY DEF RefInv, Limiters, GrpcP!IInv, GrpcP!TypeOK
  <1>2. \A g \in In : Grpc!Older(g) = [g EXCEPT !.age = @ + 1]
    BY <1>1 DEF Grpc!Older, DispatcherAssumption
  <1>3. { Grpc!Older(g) : g \in In } = { [g EXCEPT !.age = @ + 1] : g \in In }
    BY <1>2
  <1> QED
    BY <1>3 DEF Grpc!Advance

LEMMA Ticks ==
    ASSUME RefInv, RefInv', Tick
    PROVE  Promise!Tick
  <1>1. Stages' = Stages
    <2>1. UNCHANGED <<producer, outcome, slot>>
      BY DEF Tick
    <2>2. \A j \in Item : Progress(j)' = Progress(j)
      BY <2>1 DEF Progress
    <2> QED
      BY <2>2, SameStages
  <1>2. age' = [i \in Item |-> IF Stages[i] = "waiting" /\ age[i] <= MaxAge
                               THEN age[i] + 1 ELSE age[i]]
    BY AgeingIsWaiting DEF Tick
  <1>3. Windows' = [p \in {"rest", "grpc"} |->
                      {[g EXCEPT !.age = @ + 1] : g \in {h \in Windows[p] : h.age + 1 < SECOND}}]
    <2> DEFINE Aged(S) == {[g EXCEPT !.age = @ + 1] : g \in {h \in S : h.age + 1 < SECOND}}
    <2>1. restGranted' = Aged(restGranted) /\ grpcGranted' = Aged(grpcGranted)
      BY RestWindowAges, GrpcWindowAges DEF Tick
    <2> HIDE DEF Aged
    <2>2. Windows' = [p \in {"rest", "grpc"} |-> Aged(Windows[p])]
      BY <2>1 DEF Windows
    <2> QED
      BY <2>2 DEF Aged
  <1> QED
    BY <1>1, <1>2, <1>3 DEF Promise!Tick, Promise!Path, Stages, Windows

\* Requeues, refusals and the steps between two shared objects are invisible.
LEMMA Stutters ==
    ASSUME RefInv, RefInv', UNCHANGED <<outcome, slot, age, restGranted, grpcGranted>>,
           \A i \in Item : producer'[i] = "absent" <=> producer[i] = "absent"
    PROVE  UNCHANGED <<Stages, age, Windows>>
  <1>1. \A j \in Item : Progress(j)' = Progress(j)
    BY DEF Progress
  <1>2. Stages' = Stages
    BY <1>1, SameStages
  <1> QED
    BY <1>2 DEF Windows

LEMMA PromiseInit == Init => Promise!Init
  <1> SUFFICES ASSUME Init PROVE Promise!Init
    OBVIOUS
  <1>1. \A i \in Item : Progress(i) = "absent"
    BY DEF Init, Progress
  <1>2. Stages = [i \in Item |-> "absent"]
    BY <1>1, RefInvInit, StagesByRecord DEF ByRecord
  <1>3. Windows = [p \in {"rest", "grpc"} |-> {}]
    BY DEF Init, Windows
  <1> QED
    BY <1>2, <1>3 DEF Init, Promise!Init, Promise!Path, Stages, Windows

LEMMA PromiseNext ==
    RefInv /\ RefInv' /\ [Next]_vars => Promise!Next \/ UNCHANGED <<Stages, age, Windows>>
  <1> SUFFICES ASSUME RefInv, RefInv', [Next]_vars
               PROVE  Promise!Next \/ UNCHANGED <<Stages, age, Windows>>
    OBVIOUS
  <1>1. CASE Tick
    BY <1>1, Ticks DEF Promise!Next
  <1>2. ASSUME NEW i \in Item, push_to_queue(i)
        PROVE  Promise!Next \/ UNCHANGED <<Stages, age, Windows>>
    <2>1. CASE Push(i)
      BY <2>1, Arrives DEF Promise!Next
    <2>2. CASE Count(i) \/ AddPermit(i)
      <3>1. \A j \in Item : producer'[j] = "absent" <=> producer[j] = "absent"
        BY <2>2 DEF Count, AddPermit, RefInv, Homes, Shape
      <3>2. UNCHANGED <<outcome, slot, age, restGranted, grpcGranted>>
        BY <2>2 DEF Count, AddPermit, itemVars, restVars, grpcVars
      <3> QED
        BY <3>1, <3>2, Stutters
    <2> QED
      BY <1>2, <2>1, <2>2 DEF push_to_queue
  <1>3. ASSUME NEW w \in Worker, worker(w)
        PROVE  Promise!Next \/ UNCHANGED <<Stages, age, Windows>>
    <2>1. pc[w] \in InHand => held[w] \in Item
      BY HeldIsOpen
    <2>2. CASE Inspect(w)
      <3>1. held[w] \in Item
        BY <2>1, <2>2 DEF Inspect, At, InHand
      <3>2. CASE Stale(held[w])
        BY <2>2, <3>1, <3>2, Expires DEF Promise!Next
      <3>3. CASE ~ Stale(held[w])
        BY <2>2, <3>3, Stutters DEF Inspect, restVars, grpcVars
      <3> QED
        BY <3>2, <3>3
    <2>3. CASE RestSlot(w)
      <3>1. held[w] \in Item
        BY <2>1, <2>3 DEF RestSlot, At, InHand
      <3> QED
        BY <2>3, <3>1, RestSlots DEF Promise!Next, Promise!Path
    <2>4. CASE GrpcSlot(w)
      <3>1. held[w] \in Item
        BY <2>1, <2>4 DEF GrpcSlot, At, InHand
      <3> QED
        BY <2>4, <3>1, GrpcSlots DEF Promise!Next, Promise!Path
    <2>5. CASE BuildDrop(w) \/ Reply(w)
      <3>1. held[w] \in Item
        BY <2>1, <2>5 DEF BuildDrop, Reply, At, InHand
      <3> QED
        BY <2>5, <3>1, Settles DEF Promise!Next
    <2>6. CASE RestFull(w) \/ GrpcFull(w)
      BY <2>6, Stutters
      DEF RestFull, GrpcFull, MoveOn, itemVars, restVars, grpcVars, Rest!Refuse, Grpc!Refuse
    <2>7. CASE Take(w) \/ Pop(w) \/ PushBack(w) \/ HandOver(w)
      BY <2>7, Stutters DEF Take, Pop, PushBack, HandOver, itemVars, restVars, grpcVars
    <2>8. CASE CountBack(w) \/ PermitBack(w) \/ Wake(w)
      BY <2>8, Stutters DEF CountBack, PermitBack, Wake, MoveOn, itemVars, restVars, grpcVars
    <2> QED
      BY <1>3, <2>2, <2>3, <2>4, <2>5, <2>6, <2>7, <2>8 DEF worker
  <1>4. CASE UNCHANGED vars
    BY <1>4, Stutters DEF vars, itemVars, restVars, grpcVars
  <1> QED
    BY <1>1, <1>2, <1>3, <1>4 DEF Next

-----------------------------------------------------------------------------
\* Whatever workers and pushes (spawn_workers, push_to_queue) do between each other's steps, an opportunity is
\* only ever handed over, expired, given a slot within its path's rate, and
\* settled once: the queue, the semaphore, the requeues and the two limiters
\* together implement DispatchPromise.
THEOREM ImplementsPromise == Spec => KeepsPromise
  <1>1. RefInv /\ RefInv' /\ [Next]_vars
          => [Promise!Next]_<<[i \in Item |-> Stage(i)], age,
                [p \in {"rest", "grpc"} |-> IF p = "rest" THEN restGranted ELSE grpcGranted]>>
    BY PromiseNext DEF Stages, Windows
  <1> QED
    BY <1>1, RefInvInit, RefInvNext, PromiseInit, PTL DEF Spec, KeepsPromise, Promise!Spec
=============================================================================
