--------------------------- MODULE SubmissionProofs ---------------------------
(***************************************************************************)
(* Submission, proved for any endpoints, any times and any number of       *)
(* failures in a row.                                                      *)
(*                                                                         *)
(* HashRecent is not inductive: how old the cached hash may get depends on *)
(* how long the refresh task has been at its present step.  Fresh says it: *)
(* each failure has cost a pause and a call, and the rest is in spent.     *)
(* ReportTruthful is not either: what the worker is told is decided from   *)
(* the futures of the call, and those from the engines' answers and from   *)
(* the regions that main had opened before.  Told says how they are tied.  *)
(***************************************************************************)
EXTENDS Submission, TLAPS

\* How long the refresh task may be at a step.
Limit(step) == IF step = "waiting" THEN Interval ELSE CallTime

\* The time since the last round ended.
SinceRound == IF task = "waiting" THEN spent ELSE Interval + spent

\* The age of the cached hash, from the rounds that failed and the present one.
Fresh ==
    /\ spent <= Limit(task)
    /\ misses < MaxMisses => age <= CallTime + misses * (Interval + CallTime) + SinceRound
    /\ blank => ~heard

\* What the client, the call and the report have to do with each other.
Told ==
    /\ client = "on" => \A e \in Grpc : region[e] # "untried"
    /\ worker # "starting" => client # "connecting"
    /\ worker \in {"building", "sending"} /\ path = "grpc" => client = "on"
    /\ report # "none" <=> worker = "sending"
    /\ worker = "sending" =>
          /\ asked = RegionsOf(path)
          /\ \A r \in Endpoint : call[r] = "idle" <=> r \notin asked
          /\ \A r \in asked : call[r] = "refused" => engine[r] = "refused"
          /\ report = "sent" => \E r \in asked : engine[r] = "accepted"
          /\ report = "failed" => \A r \in asked : call[r] # "waiting"

IInv == TypeOK /\ Fresh /\ HashRecent /\ Told

-----------------------------------------------------------------------------
\* The bound is a number, and grows by a pause and a call with each failure.
LEMMA BoundGrows ==
    ASSUME NEW n \in Nat
    PROVE  /\ n * (Interval + CallTime) \in Nat
           /\ (n + 1) * (Interval + CallTime) = n * (Interval + CallTime) + Interval + CallTime
           /\ Cache!Bound(n) \in Nat
           /\ Cache!Bound(n) = CallTime + n * (Interval + CallTime) + Interval + CallTime
  <1>1. Interval \in Nat /\ CallTime \in Nat
    BY SubmissionAssumption DEF SubmissionAssumption
  <1>2. Interval + CallTime \in Nat
    BY <1>1
  <1>3. \A p \in Nat : n * p \in Nat /\ (n + 1) * p = n * p + p /\ (n + 1) * p \in Nat
    OBVIOUS
  <1>4. /\ n * (Interval + CallTime) \in Nat
        /\ (n + 1) * (Interval + CallTime) = n * (Interval + CallTime) + (Interval + CallTime)
        /\ (n + 1) * (Interval + CallTime) \in Nat
    BY <1>2, <1>3
  <1> QED
    BY <1>1, <1>4 DEF Cache!Bound

\* Ages are capped at a number.
LEMMA OldIsNat == Cache!Old \in Nat
  BY BoundGrows, SubmissionAssumption DEF SubmissionAssumption, Cache!Old

\* A hash that Fresh allows is within the bound.
LEMMA FreshInBound ==
    ASSUME TypeOK, Fresh, misses < MaxMisses
    PROVE  age <= Cache!Bound(misses)
  <1>1. Interval \in Nat /\ CallTime \in Nat /\ misses \in Nat /\ age \in Nat /\ spent \in Nat
    BY SubmissionAssumption DEF SubmissionAssumption, TypeOK
  <1>2. SinceRound <= Interval + CallTime /\ SinceRound \in Nat
    BY <1>1 DEF Fresh, Limit, SinceRound
  <1>3. /\ misses * (Interval + CallTime) \in Nat
        /\ Cache!Bound(misses) = CallTime + misses * (Interval + CallTime) + Interval + CallTime
    BY <1>1, BoundGrows
  <1>4. age <= CallTime + misses * (Interval + CallTime) + SinceRound
    BY DEF Fresh
  <1> HIDE DEF SinceRound
  <1> QED
    BY <1>1, <1>2, <1>3, <1>4

-----------------------------------------------------------------------------
\* Init establishes the invariant.
LEMMA InitIInv == Init => IInv
  <1> SUFFICES ASSUME Init  PROVE IInv
    OBVIOUS
  <1>1. /\ Interval \in Nat /\ CallTime \in Nat /\ MaxMisses \in Nat /\ 0 < MaxMisses
        /\ BuildTime \in Nat /\ TIMEOUT \in Nat
    BY SubmissionAssumption DEF SubmissionAssumption
  <1>2. TypeOK
    BY <1>1 DEF Init, TypeOK, NoHash, Cache!CacheInit, Send!SendInit, Endpoint
  <1>3. Fresh
    <2>1. misses * (Interval + CallTime) = 0 /\ spent = 0 /\ task = "waiting" /\ misses = 0
      BY <1>1 DEF Init, Cache!CacheInit
    <2>2. age \in 0 .. CallTime /\ (blank => ~heard)
      BY DEF Init, Cache!CacheInit
    <2> QED
      BY <1>1, <2>1, <2>2 DEF Fresh, Limit, SinceRound
  <1>4. HashRecent /\ Told
    BY DEF Init, HashRecent, Told, Send!SendInit
  <1> QED
    BY <1>2, <1>3, <1>4 DEF IInv

-----------------------------------------------------------------------------
\* What a step that leaves the variables of a part alone keeps.

LEMMA HashStays == HashRecent /\ UNCHANGED <<worker, hash, built>> => HashRecent'
  BY DEF HashRecent, Cache!Bound

LEMMA ToldStays == Told /\ UNCHANGED <<clientVars, worker, path, sendVars>> => Told'
  BY DEF Told, RegionsOf, Open, clientVars, sendVars

LEMMA FreshStays == Fresh /\ UNCHANGED <<age, blank, task, spent, misses, heard>> => Fresh'
  BY DEF Fresh, Limit, SinceRound

\* The parts of the type invariant.
TypeOfClient == client \in {"off", "connecting", "on"}
                /\ region \in [Grpc -> {"untried", "skipped", "authed", "no_auth"}]
TypeOfWorker ==
    /\ worker \in {"starting", "idle", "building", "sending"}
    /\ path \in {"rest", "grpc"} /\ built \in 0 .. BuildTime
    /\ hash \in [age : Nat, blank : BOOLEAN, misses : 0 .. MaxMisses, heard : BOOLEAN]
TypeOfCache ==
    /\ age \in Nat /\ blank \in BOOLEAN /\ task \in {"waiting", "calling"}
    /\ spent \in Nat /\ up \in BOOLEAN /\ misses \in 0 .. MaxMisses /\ heard \in BOOLEAN
TypeOfSend ==
    /\ asked \in SUBSET Endpoint
    /\ call \in [Endpoint -> {"idle", "waiting", "refused", "silent"}]
    /\ engine \in [Endpoint -> {"none", "accepted", "refused"}]
    /\ elapsed \in 0 .. TIMEOUT
    /\ report \in {"none", "sending", "sent", "failed"}

LEMMA TypeParts == TypeOK <=> TypeOfClient /\ TypeOfWorker /\ TypeOfCache /\ TypeOfSend
  BY DEF TypeOK, TypeOfClient, TypeOfWorker, TypeOfCache, TypeOfSend

LEMMA TypePartsNext == TypeOfClient' /\ TypeOfWorker' /\ TypeOfCache' /\ TypeOfSend' => TypeOK'
  BY DEF TypeOK, TypeOfClient, TypeOfWorker, TypeOfCache, TypeOfSend

LEMMA TypePartsStay ==
    /\ TypeOfClient /\ UNCHANGED clientVars => TypeOfClient'
    /\ TypeOfWorker /\ UNCHANGED workerVars => TypeOfWorker'
    /\ TypeOfCache /\ UNCHANGED cacheVars => TypeOfCache'
    /\ TypeOfSend /\ UNCHANGED sendVars => TypeOfSend'
  BY DEF TypeOfClient, TypeOfWorker, TypeOfCache, TypeOfSend,
         clientVars, workerVars, cacheVars, sendVars

-----------------------------------------------------------------------------
\* The refresh task.  A round that succeeds sets the age back to the length of
\* its call; one that fails leaves a pause and a call behind.
LEMMA RefreshIInv == IInv /\ refresh_task => IInv'
  <1> SUFFICES ASSUME IInv, refresh_task  PROVE IInv'
    OBVIOUS
  <1>a. /\ Interval \in Nat /\ CallTime \in Nat /\ MaxMisses \in Nat /\ 0 < MaxMisses
    BY SubmissionAssumption DEF SubmissionAssumption
  <1>b. /\ age \in Nat /\ spent \in Nat /\ misses \in 0 .. MaxMisses /\ misses \in Nat
        /\ task \in {"waiting", "calling"}
    BY <1>a DEF IInv, TypeOK
  <1>c. /\ misses * (Interval + CallTime) \in Nat
        /\ (misses + 1) * (Interval + CallTime) = misses * (Interval + CallTime) + Interval + CallTime
    BY <1>b, BoundGrows
  <1>0. UNCHANGED <<clientVars, workerVars, sendVars>>
    BY DEF refresh_task
  <1>d. HashRecent' /\ Told'
    BY <1>0, HashStays, ToldStays DEF IInv, workerVars
  <1>e. SUFFICES Fresh' /\ TypeOfCache'
    BY <1>0, <1>d, TypeParts, TypePartsStay, TypePartsNext DEF IInv
  <1>f. TypeOfCache
    BY TypeParts DEF IInv
  <1>1. CASE Cache!Ask
    <2>1. task = "waiting" /\ task' = "calling" /\ spent' = 0 /\ UNCHANGED <<age, blank, up, misses, heard>>
      BY <1>1 DEF Cache!Ask
    <2>2. Fresh'
      BY <1>a, <1>b, <1>c, <2>1 DEF IInv, Fresh, Limit, SinceRound
    <2>3. TypeOfCache'
      BY <1>a, <1>b, <1>f, <2>1 DEF TypeOfCache
    <2> QED
      BY <2>2, <2>3
  <1>2. CASE Cache!Refreshed
    <2>1. /\ task = "calling" /\ task' = "waiting" /\ spent' = 0 /\ age' \in 0 .. spent
          /\ misses' = 0 /\ blank' = FALSE /\ heard' = TRUE /\ up' = up
      BY <1>2 DEF Cache!Refreshed
    <2>2. Fresh'
      <3>1. spent <= CallTime
        BY <2>1 DEF IInv, Fresh, Limit
      <3>2. misses' * (Interval + CallTime) = 0
        BY <1>a, <2>1
      <3> QED
        BY <1>a, <1>b, <2>1, <3>1, <3>2 DEF Fresh, Limit, SinceRound
    <2>3. age' \in Nat /\ spent' \in Nat /\ misses' \in 0 .. MaxMisses
      BY <1>a, <1>b, <2>1
    <2>4. TypeOfCache'
      BY <1>f, <2>1, <2>3, Zenon DEF TypeOfCache
    <2> QED
      BY <2>2, <2>4
  <1>3. CASE Cache!RefreshFails
    <2>1. /\ task = "calling" /\ task' = "waiting" /\ spent' = 0
          /\ misses' = Cache!Capped(misses + 1, MaxMisses)
          /\ UNCHANGED <<age, blank, up, heard>>
      BY <1>3 DEF Cache!RefreshFails
    <2>2. /\ misses' \in 0 .. MaxMisses
          /\ misses' < MaxMisses => misses' = misses + 1 /\ misses < MaxMisses
      BY <1>a, <1>b, <2>1 DEF Cache!Capped
    <2>3. Fresh'
      <3>1. CASE misses' < MaxMisses
        <4>1. misses' = misses + 1 /\ misses < MaxMisses
          BY <2>2, <3>1
        <4>2. age <= CallTime + misses * (Interval + CallTime) + (Interval + spent)
          BY <2>1, <4>1 DEF IInv, Fresh, SinceRound
        <4>3. spent <= CallTime
          BY <2>1 DEF IInv, Fresh, Limit
        <4>4. misses' * (Interval + CallTime) = misses * (Interval + CallTime) + Interval + CallTime
          BY <1>c, <4>1
        <4>5. age' <= CallTime + misses' * (Interval + CallTime) + spent'
          BY <1>a, <1>b, <1>c, <2>1, <4>2, <4>3, <4>4
        <4> QED
          BY <1>a, <2>1, <4>5 DEF IInv, Fresh, Limit, SinceRound
      <3>2. CASE ~(misses' < MaxMisses)
        BY <1>a, <2>1, <3>2 DEF IInv, Fresh, Limit, SinceRound
      <3> QED
        BY <3>1, <3>2
    <2>4. TypeOfCache'
      BY <1>a, <1>b, <1>f, <2>1, <2>2 DEF TypeOfCache
    <2> QED
      BY <2>3, <2>4
  <1> QED
    BY <1>1, <1>2, <1>3 DEF refresh_task, Cache!refresh

-----------------------------------------------------------------------------
\* The clock: the hash of a transaction under construction ages with it.
LEMMA TickIInv == IInv /\ Tick => IInv'
  <1> SUFFICES ASSUME IInv, Tick  PROVE IInv'
    OBVIOUS
  <1>a. /\ Interval \in Nat /\ CallTime \in Nat /\ MaxMisses \in Nat /\ 0 < MaxMisses
        /\ BuildTime \in Nat /\ TIMEOUT \in Nat /\ Cache!Old \in Nat
    BY SubmissionAssumption, OldIsNat DEF SubmissionAssumption
  <1>b. TypeOfClient /\ TypeOfWorker /\ TypeOfCache /\ TypeOfSend
    BY TypeParts DEF IInv
  <1>c. /\ built' = IF worker = "building" THEN built + 1 ELSE built
        /\ worker = "building" => built < BuildTime
        /\ hash' = IF worker = "building" THEN [hash EXCEPT !.age = @ + 1] ELSE hash
        /\ UNCHANGED <<worker, path, clientVars>>
    BY DEF Tick
  <1>d. /\ spent < Limit(task)
        /\ spent' = spent + 1 /\ age' = Cache!Capped(age + 1, Cache!Old)
        /\ UNCHANGED <<blank, task, up, misses, heard>>
    BY DEF Tick, Cache!Advance, Limit
  <1>e. /\ report = "sending" => elapsed < TIMEOUT
        /\ elapsed' = IF report = "sending" THEN elapsed + 1 ELSE elapsed
        /\ UNCHANGED <<asked, call, engine, report>>
    BY DEF Tick, Send!Pass
  <1>1. age' \in Nat /\ age' <= age + 1
    BY <1>a, <1>b, <1>d DEF Cache!Capped, TypeOfCache
  <1>2. Fresh'
    <2>1. /\ spent \in Nat /\ age \in Nat /\ misses \in Nat /\ task \in {"waiting", "calling"}
          /\ Limit(task) \in Nat
      BY <1>a, <1>b DEF TypeOfCache, Limit
    <2>2. misses * (Interval + CallTime) \in Nat
      BY <2>1, BoundGrows
    <2>3. spent' <= Limit(task)'
      BY <1>d, <2>1 DEF Limit
    <2>4. SinceRound' = SinceRound + 1 /\ SinceRound \in Nat
      BY <1>a, <1>d, <2>1 DEF SinceRound
    <2>5. misses < MaxMisses => age <= CallTime + misses * (Interval + CallTime) + SinceRound
      BY DEF IInv, Fresh
    <2>6. misses < MaxMisses => age' <= CallTime + misses * (Interval + CallTime) + SinceRound'
      <3> HIDE DEF SinceRound
      <3> QED
        BY <1>a, <1>1, <2>1, <2>2, <2>4, <2>5
    <2>7. blank' => ~heard'
      BY <1>d DEF IInv, Fresh
    <2> QED
      BY <1>d, <2>3, <2>6, <2>7 DEF Fresh
  <1>3. TypeOfWorker'
    <2>1. CASE worker = "building"
      <3>1. built' \in 0 .. BuildTime
        BY <1>a, <1>b, <1>c, <2>1 DEF TypeOfWorker
      <3>2. hash' \in [age : Nat, blank : BOOLEAN, misses : 0 .. MaxMisses, heard : BOOLEAN]
        BY <1>b, <1>c, <2>1 DEF TypeOfWorker
      <3> QED
        BY <1>b, <1>c, <3>1, <3>2 DEF TypeOfWorker
    <2>2. CASE worker # "building"
      BY <1>b, <1>c, <2>2 DEF TypeOfWorker
    <2> QED
      BY <2>1, <2>2
  <1>4. TypeOfCache'
    <2>1. spent' \in Nat
      BY <1>b, <1>d DEF TypeOfCache
    <2> QED
      BY <1>b, <1>d, <1>1, <2>1 DEF TypeOfCache
  <1>5. TypeOfSend'
    <2>1. elapsed' \in 0 .. TIMEOUT
      BY <1>a, <1>b, <1>e DEF TypeOfSend
    <2> QED
      BY <1>b, <1>e, <2>1 DEF TypeOfSend
  <1>6. HashRecent'
    <2>1. CASE worker = "building"
      <3>1. /\ hash.age \in Nat /\ hash.misses \in Nat /\ built \in Nat
            /\ Cache!Bound(hash.misses) \in Nat
        BY <1>a, <1>b, BoundGrows DEF TypeOfWorker
      <3>2. /\ hash'.age = hash.age + 1 /\ hash'.misses = hash.misses
            /\ hash'.blank = hash.blank /\ hash'.heard = hash.heard /\ built' = built + 1
        BY <1>b, <1>c, <2>1 DEF TypeOfWorker
      <3>3. hash.misses < MaxMisses => hash.age <= Cache!Bound(hash.misses) + built
        BY <2>1 DEF IInv, HashRecent
      <3>4. hash'.misses < MaxMisses => hash'.age <= Cache!Bound(hash.misses) + built'
        BY <3>1, <3>2, <3>3
      <3>5. hash'.blank => ~hash'.heard
        BY <2>1, <3>2 DEF IInv, HashRecent
      <3> QED
        BY <3>2, <3>4, <3>5 DEF HashRecent, Cache!Bound
    <2>2. CASE worker # "building"
      BY <1>c, <2>2 DEF HashRecent
    <2> QED
      BY <2>1, <2>2
  <1>7. Told'
    BY <1>c, <1>e DEF IInv, Told, RegionsOf, Open, clientVars
  <1>8. TypeOfClient'
    BY <1>b, <1>c, TypePartsStay
  <1> QED
    BY <1>2, <1>3, <1>4, <1>5, <1>6, <1>7, <1>8, TypePartsNext DEF IInv

-----------------------------------------------------------------------------
\* The start: a region is tried once, and workers start when the client is there.
LEMMA StartIInv == IInv /\ start => IInv'
  <1> SUFFICES ASSUME IInv, start  PROVE IInv'
    OBVIOUS
  <1>a. TypeOfClient /\ TypeOfWorker /\ TypeOfCache /\ TypeOfSend /\ Told /\ Fresh /\ HashRecent
    BY TypeParts DEF IInv
  <1>b. UNCHANGED <<cacheVars, sendVars, path, built, hash>>
    BY DEF start, NoKeypair, connect_region, Connected, spawn_workers, workerVars
  <1>c. TypeOfCache' /\ TypeOfSend' /\ Fresh'
    BY <1>a, <1>b, TypePartsStay, FreshStays DEF cacheVars
  <1>1. CASE client = "connecting" /\ UNCHANGED worker
    <2>1. worker = "starting"
      BY <1>1, <1>a DEF Told
    <2>2. TypeOfClient'
      BY <1>1, <1>a DEF start, NoKeypair, connect_region, Connected, spawn_workers, TypeOfClient
    <2>3. client' = "on" => \A e \in Grpc : region'[e] # "untried"
      BY <1>1 DEF start, NoKeypair, connect_region, Connected, spawn_workers
    <2>4. Told'
      BY <1>1, <1>a, <1>b, <2>1, <2>3 DEF Told, sendVars
    <2>5. HashRecent' /\ TypeOfWorker'
      BY <1>1, <1>a, <1>b, <2>1 DEF HashRecent, TypeOfWorker
    <2> QED
      BY <1>c, <2>2, <2>4, <2>5, TypePartsNext DEF IInv
  <1>2. CASE spawn_workers
    <2>1. worker = "starting" /\ worker' = "idle" /\ client # "connecting" /\ UNCHANGED clientVars
      BY <1>2 DEF spawn_workers
    <2>2. TypeOfClient' /\ TypeOfWorker' /\ HashRecent'
      BY <1>a, <1>b, <2>1, TypePartsStay DEF TypeOfWorker, HashRecent
    <2>3. Told'
      BY <1>a, <1>b, <2>1 DEF Told, clientVars, sendVars
    <2> QED
      BY <1>c, <2>2, <2>3, TypePartsNext DEF IInv
  <1> QED
    BY <1>1, <1>2 DEF start, NoKeypair, connect_region, Connected, workerVars

-----------------------------------------------------------------------------
\* A slot: the transaction is given the hash of the cache.
LEMMA SlotIInv == ASSUME NEW p \in {"rest", "grpc"}, IInv, TakeSlot(p)  PROVE IInv'
  <1>a. TypeOfClient /\ TypeOfWorker /\ TypeOfCache /\ TypeOfSend /\ Told /\ Fresh
    BY TypeParts DEF IInv
  <1>b. /\ worker = "idle" /\ worker' = "building" /\ path' = p /\ built' = 0
        /\ p = "grpc" => client = "on"
        /\ hash' = [age |-> age, blank |-> blank, misses |-> misses, heard |-> heard]
        /\ UNCHANGED <<clientVars, cacheVars, sendVars>>
    BY DEF TakeSlot
  <1>1. TypeOfClient' /\ TypeOfCache' /\ TypeOfSend' /\ Fresh'
    BY <1>a, <1>b, TypePartsStay, FreshStays DEF cacheVars
  <1>2. TypeOfWorker'
    <2>1. 0 \in 0 .. BuildTime
      BY SubmissionAssumption DEF SubmissionAssumption
    <2> QED
      BY <1>a, <1>b, <2>1 DEF TypeOfWorker, TypeOfCache
  <1>3. HashRecent'
    <2>1. misses < MaxMisses => age <= Cache!Bound(misses)
      BY FreshInBound DEF IInv
    <2>2. Cache!Bound(misses) \in Nat
      BY <1>a, BoundGrows, SubmissionAssumption DEF SubmissionAssumption, TypeOfCache
    <2>3. misses < MaxMisses => age <= Cache!Bound(misses) + built'
      BY <1>a, <1>b, <2>1, <2>2 DEF TypeOfCache
    <2>4. blank => ~heard
      BY <1>a DEF Fresh
    <2> QED
      BY <1>b, <2>3, <2>4 DEF HashRecent, Cache!Bound
  <1>4. Told'
    BY <1>a, <1>b DEF Told, clientVars, sendVars
  <1> QED
    BY <1>1, <1>2, <1>3, <1>4, TypePartsNext DEF IInv

\* A worker that is done with a build no longer holds a hash.
LEMMA WorkerDone ==
    ASSUME TypeOfWorker, built' = 0, hash' = NoHash, path' = path, worker' \in {"idle", "sending"}
    PROVE  TypeOfWorker' /\ HashRecent'
  <1>1. 0 \in 0 .. BuildTime /\ 0 \in 0 .. MaxMisses /\ 0 \in Nat
    BY SubmissionAssumption DEF SubmissionAssumption
  <1>2. NoHash \in [age : Nat, blank : BOOLEAN, misses : 0 .. MaxMisses, heard : BOOLEAN]
    BY <1>1 DEF NoHash
  <1> QED
    BY <1>1, <1>2 DEF TypeOfWorker, HashRecent

\* The build drops the transaction or hands it over, to open regions only.
LEMMA BuildIInv == IInv /\ build => IInv'
  <1> SUFFICES ASSUME IInv, build  PROVE IInv'
    OBVIOUS
  <1>a. TypeOfClient /\ TypeOfWorker /\ TypeOfCache /\ TypeOfSend /\ Told /\ Fresh
    BY TypeParts DEF IInv
  <1>b. /\ worker = "building" /\ built' = 0 /\ hash' = NoHash /\ path' = path
        /\ worker' \in {"idle", "sending"}
        /\ UNCHANGED <<clientVars, cacheVars>>
    BY DEF build, BuildDrop, HandOver
  <1>1. TypeOfClient' /\ TypeOfCache' /\ Fresh' /\ TypeOfWorker' /\ HashRecent'
    BY <1>a, <1>b, TypePartsStay, FreshStays, WorkerDone DEF cacheVars
  <1>2. CASE BuildDrop
    <2>1. worker' = "idle" /\ UNCHANGED sendVars
      BY <1>2 DEF BuildDrop
    <2>2. Told' /\ TypeOfSend'
      BY <1>a, <1>b, <2>1, TypePartsStay DEF Told, clientVars, sendVars
    <2> QED
      BY <1>1, <2>2, TypePartsNext DEF IInv
  <1>3. CASE HandOver
    <2>1. /\ worker' = "sending" /\ asked' = RegionsOf(path)
          /\ call' = [r \in Endpoint |-> IF r \in RegionsOf(path) THEN "waiting" ELSE "idle"]
          /\ engine' = [r \in Endpoint |-> "none"]
          /\ elapsed' = 0 /\ report' = "sending"
      BY <1>3 DEF HandOver, Send!Start
    <2>2. RegionsOf(path) \subseteq Endpoint
      BY DEF RegionsOf, Open, Endpoint
    <2>3. RegionsOf(path)' = RegionsOf(path)
      BY <1>b DEF RegionsOf, Open, clientVars
    <2>4. TypeOfSend'
      <3>1. 0 \in 0 .. TIMEOUT
        BY SubmissionAssumption DEF SubmissionAssumption
      <3> QED
        BY <2>1, <2>2, <3>1 DEF TypeOfSend
    <2>5. Told'
      BY <1>a, <1>b, <2>1, <2>2, <2>3 DEF Told, clientVars
    <2> QED
      BY <1>1, <2>4, <2>5, TypePartsNext DEF IInv
  <1> QED
    BY <1>2, <1>3 DEF build

\* The worker takes the report, and the call is over.
LEMMA ReportedIInv == IInv /\ Reported => IInv'
  <1> SUFFICES ASSUME IInv, Reported  PROVE IInv'
    OBVIOUS
  <1>a. TypeOfClient /\ TypeOfWorker /\ TypeOfCache /\ TypeOfSend /\ Told /\ Fresh /\ HashRecent
    BY TypeParts DEF IInv
  <1>b. /\ worker = "sending" /\ worker' = "idle"
        /\ asked' = {} /\ elapsed' = 0 /\ report' = "none"
        /\ call' = [r \in Endpoint |-> "idle"] /\ engine' = [r \in Endpoint |-> "none"]
        /\ UNCHANGED <<path, built, hash, clientVars, cacheVars>>
    BY DEF Reported, Send!Forget
  <1>1. TypeOfClient' /\ TypeOfCache' /\ Fresh' /\ TypeOfWorker' /\ HashRecent'
    BY <1>a, <1>b, TypePartsStay, FreshStays DEF cacheVars, TypeOfWorker, HashRecent
  <1>2. TypeOfSend'
    <2>1. 0 \in 0 .. TIMEOUT
      BY SubmissionAssumption DEF SubmissionAssumption
    <2> QED
      BY <1>b, <2>1 DEF TypeOfSend
  <1>3. Told'
    BY <1>a, <1>b DEF Told, clientVars
  <1> QED
    BY <1>1, <1>2, <1>3, TypePartsNext DEF IInv


-----------------------------------------------------------------------------
\* A step of the call, or of an engine.  The answer that a future took is its
\* engine's; an engine that has decided does not change its mind.
LEMMA CallIInv ==
    ASSUME IInv, UNCHANGED <<clientVars, workerVars, cacheVars>>,
           \/ send_task
           \/ \E r \in Endpoint : Send!Decide(r) \/ Send!Break(r)
    PROVE  IInv'
  <1>a. TypeOfClient /\ TypeOfWorker /\ TypeOfCache /\ TypeOfSend /\ Told /\ Fresh /\ HashRecent
    BY TypeParts DEF IInv
  <1>b. TypeOfClient' /\ TypeOfCache' /\ Fresh' /\ TypeOfWorker' /\ HashRecent'
    BY <1>a, TypePartsStay, FreshStays, HashStays DEF cacheVars, workerVars
  <1>c. RegionsOf(path)' = RegionsOf(path)
    BY DEF RegionsOf, Open, clientVars, workerVars
  <1>d. SUFFICES TypeOfSend' /\ Told'
    BY <1>b, TypePartsNext DEF IInv
  <1>e. UNCHANGED <<client, region, worker, path>>
    BY DEF clientVars, workerVars
  <1>1. ASSUME NEW r \in Endpoint, Send!TakeOk(r)  PROVE TypeOfSend' /\ Told'
    <2>1. /\ report = "sending" /\ call[r] = "waiting" /\ engine[r] = "accepted"
          /\ report' = "sent" /\ UNCHANGED <<asked, call, engine, elapsed>>
      BY <1>1 DEF Send!TakeOk, Send!Returns
    <2>2. worker = "sending" /\ asked = RegionsOf(path)
      BY <1>a, <2>1 DEF Told
    <2>3. r \in asked
      BY <1>a, <2>1, <2>2 DEF Told
    <2> QED
      BY <1>a, <1>c, <1>e, <2>1, <2>2, <2>3 DEF Told, TypeOfSend
  <1>2. ASSUME NEW r \in Endpoint, Send!TakeErr(r)  PROVE TypeOfSend' /\ Told'
    <2>1. /\ report = "sending" /\ call[r] = "waiting" /\ engine[r] = "refused"
          /\ call' = [call EXCEPT ![r] = "refused"] /\ UNCHANGED <<asked, engine, elapsed, report>>
      BY <1>2 DEF Send!TakeErr, Send!Ends
    <2>2. TypeOfSend'
      BY <1>a, <2>1 DEF TypeOfSend
    <2> QED
      BY <1>a, <1>c, <1>e, <2>1, <2>2 DEF Told, TypeOfSend
  <1>3. ASSUME NEW r \in Endpoint, Send!Expire(r) \/ Send!Break(r)  PROVE TypeOfSend' /\ Told'
    <2>1. /\ report = "sending" /\ call[r] = "waiting"
          /\ call' = [call EXCEPT ![r] = "silent"] /\ UNCHANGED <<asked, engine, elapsed, report>>
      BY <1>3 DEF Send!Expire, Send!Break, Send!Ends
    <2>2. TypeOfSend'
      BY <1>a, <2>1 DEF TypeOfSend
    <2> QED
      BY <1>a, <1>c, <1>e, <2>1, <2>2 DEF Told, TypeOfSend
  <1>4. ASSUME Send!GiveUp  PROVE TypeOfSend' /\ Told'
    <2>1. /\ report = "sending" /\ \A r \in asked : call[r] # "waiting"
          /\ report' = "failed" /\ UNCHANGED <<asked, call, engine, elapsed>>
      BY <1>4 DEF Send!GiveUp, Send!Returns
    <2> QED
      BY <1>a, <1>c, <1>e, <2>1 DEF Told, TypeOfSend
  <1>5. ASSUME NEW r \in Endpoint, Send!Decide(r)  PROVE TypeOfSend' /\ Told'
    <2>1. PICK d \in {"accepted", "refused"} :
              /\ r \in asked /\ engine[r] = "none" /\ engine' = [engine EXCEPT ![r] = d]
              /\ UNCHANGED <<asked, call, elapsed, report>>
      BY <1>5 DEF Send!Decide
    <2>2. TypeOfSend'
      BY <1>a, <2>1 DEF TypeOfSend
    <2>3. \A q \in Endpoint : engine[q] # "none" => engine'[q] = engine[q]
      BY <1>a, <2>1 DEF TypeOfSend
    <2>4. \A q \in asked : q \in Endpoint
      BY <1>a DEF TypeOfSend
    <2> QED
      BY <1>a, <1>c, <1>e, <2>1, <2>2, <2>3, <2>4 DEF Told
  <1> QED
    BY <1>1, <1>2, <1>3, <1>4, <1>5 DEF send_task, Send!send_bundle

\* Every step keeps the invariant.
LEMMA NextIInv == IInv /\ [Next]_vars => IInv'
  <1> SUFFICES ASSUME IInv, [Next]_vars  PROVE IInv'
    OBVIOUS
  <1>1. CASE start
    BY <1>1, StartIInv
  <1>2. CASE \E p \in {"rest", "grpc"} : TakeSlot(p)
    BY <1>2, SlotIInv
  <1>3. CASE build
    BY <1>3, BuildIInv
  <1>4. CASE Reported
    BY <1>4, ReportedIInv
  <1>5. CASE Tick
    BY <1>5, TickIInv
  <1>6. CASE refresh_task
    BY <1>6, RefreshIInv
  <1>7. CASE send_task
    BY <1>7, CallIInv DEF send_task
  <1>8. CASE outside
    <2>1. CASE Cache!NodeChanges /\ UNCHANGED <<clientVars, workerVars, sendVars>>
      <3>1. up' = ~up /\ UNCHANGED <<age, blank, task, spent, misses, heard>>
        BY <2>1 DEF Cache!NodeChanges
      <3>2. TypeOfClient /\ TypeOfWorker /\ TypeOfCache /\ TypeOfSend /\ Told /\ Fresh /\ HashRecent
        BY TypeParts DEF IInv
      <3>3. TypeOfCache'
        BY <3>1, <3>2, Zenon DEF TypeOfCache
      <3>4. TypeOfClient' /\ TypeOfWorker' /\ TypeOfSend' /\ Told' /\ Fresh' /\ HashRecent'
        BY <2>1, <3>1, <3>2, TypePartsStay, ToldStays, FreshStays, HashStays DEF workerVars
      <3> QED
        BY <3>3, <3>4, TypePartsNext DEF IInv
    <2> QED
      BY <1>8, <2>1, CallIInv DEF outside
  <1>9. CASE UNCHANGED vars
    <2>1. UNCHANGED <<clientVars, workerVars, cacheVars, sendVars>>
      BY <1>9 DEF vars
    <2>2. TypeOfClient /\ TypeOfWorker /\ TypeOfCache /\ TypeOfSend /\ Told /\ Fresh /\ HashRecent
      BY TypeParts DEF IInv
    <2> QED
      BY <2>1, <2>2, TypePartsStay, TypePartsNext, ToldStays, FreshStays, HashStays
         DEF IInv, workerVars, cacheVars
  <1> QED
    BY <1>1, <1>2, <1>3, <1>4, <1>5, <1>6, <1>7, <1>8, <1>9 DEF Next

-----------------------------------------------------------------------------
\* The shape of the client, the worker, the cache and the broadcast.
THEOREM TypeCorrect == Spec => []TypeOK
  <1>1. IInv => TypeOK
    BY DEF IInv
  <1> QED
    BY <1>1, InitIInv, NextIInv, PTL DEF Spec

\* The hash of a transaction under construction is as recent as the failures of
\* the RPC node allow, whatever the period, the length of calls and of builds;
\* it is all zeros only if no call of the process had succeeded.
THEOREM HashIsRecent == Spec => []HashRecent
  <1>1. IInv => HashRecent
    BY DEF IInv
  <1> QED
    BY <1>1, InitIInv, NextIInv, PTL DEF Spec

\* What the calls tell settles what the report means, for every endpoint of the
\* path and not only for those that were asked: the others were skipped.
LEMMA ToldSuffices == IInv => ReportTruthful
  <1> SUFFICES ASSUME IInv, worker = "sending"
               PROVE  /\ report = "sent" =>
                             \E r \in IF path = "grpc" THEN Grpc ELSE Rest : engine[r] = "accepted"
                      /\ report = "failed" =>
                             \A r \in IF path = "grpc" THEN Grpc ELSE Rest :
                                 \/ r \in Grpc /\ region[r] = "skipped"
                                 \/ call[r] = "silent"
                                 \/ call[r] = "refused" /\ engine[r] = "refused"
    BY DEF ReportTruthful
  <1>a. Told /\ TypeOfClient /\ TypeOfSend
    BY TypeParts DEF IInv
  <1>1. asked = RegionsOf(path) /\ (path = "grpc" => client = "on")
    BY <1>a DEF Told
  <1>2. asked \subseteq (IF path = "grpc" THEN Grpc ELSE Rest)
    BY <1>1 DEF RegionsOf, Open
  <1>3. \A r \in IF path = "grpc" THEN Grpc ELSE Rest :
            r \in asked \/ (r \in Grpc /\ region[r] = "skipped")
    <2>1. CASE path = "grpc"
      <3>1. \A r \in Grpc : region[r] \in {"skipped", "authed", "no_auth"}
        BY <1>a, <1>1, <2>1 DEF Told, TypeOfClient
      <3> QED
        BY <1>1, <2>1, <3>1 DEF RegionsOf, Open
    <2>2. CASE path # "grpc"
      BY <1>1, <2>2 DEF RegionsOf
    <2> QED
      BY <2>1, <2>2
  <1>4. \A r \in asked : call[r] \in {"idle", "waiting", "refused", "silent"}
    BY <1>a DEF TypeOfSend
  <1>5. report = "sent" => \E r \in asked : engine[r] = "accepted"
    BY <1>a DEF Told
  <1>6. report = "failed" => \A r \in asked :
            call[r] = "silent" \/ (call[r] = "refused" /\ engine[r] = "refused")
    <2> SUFFICES ASSUME report = "failed", NEW r \in asked
                 PROVE  call[r] = "silent" \/ (call[r] = "refused" /\ engine[r] = "refused")
      OBVIOUS
    <2>1. r \in Endpoint
      BY <1>a DEF TypeOfSend
    <2>2. call[r] # "waiting" /\ call[r] # "idle"
      BY <1>a, <2>1 DEF Told
    <2>3. call[r] = "refused" => engine[r] = "refused"
      BY <1>a DEF Told
    <2> QED
      BY <1>4, <2>2, <2>3
  <1> QED
    BY <1>2, <1>3, <1>5, <1>6

\* The worker is told the truth about its bundle, for any endpoints and any
\* order of answers, failures and timeouts.
THEOREM WorkerIsToldTheTruth == Spec => []ReportTruthful
  BY InitIInv, NextIInv, ToldSuffices, PTL DEF Spec

=============================================================================
