----------------------------- MODULE Dispatcher ------------------------------
(***************************************************************************)
(* src/arbitrage.rs, spawn_workers and push_to_queue: the LIFO of ready    *)
(* opportunities, the semaphore that counts them, the pool of workers that *)
(* drain it, and the two rate limiters (RateLimiter.tla) a worker asks     *)
(* before it builds and sends.                                             *)
(*                                                                         *)
(* A step is one access to shared state: the LIFO, the semaphore, the      *)
(* queue_depth gauge and each limiter are separate objects, and every      *)
(* other task may run between two of them.  The counters a worker bumps    *)
(* together with a drop are not kept: they count items by outcome.         *)
(*                                                                         *)
(* Time is relative.  An item carries its age in ticks, saturated just     *)
(* above MaxAge, until it gets a slot; a bundle carries the ticks since it *)
(* was handed to a Jito client, saturated at a second.  The retry sleep    *)
(* may end at any time.                                                    *)
(***************************************************************************)
EXTENDS Integers, Sequences, FiniteSets

CONSTANTS Item,      \* opportunities, each pushed by a call of push_to_queue
          Worker,    \* worker tasks (performance.calc_workers)
          NoItem,    \* what a worker holds between two items
          MaxAge,    \* queue_max_age_ms, in ticks
          RestRate,  \* jito.max_bundles_per_second
          GrpcRate,  \* jito_grpc.max_bundles_per_second; 0 stands for no gRPC path
          SECOND     \* ticks in a second

ASSUME DispatcherAssumption ==
    /\ NoItem \notin Item
    /\ IsFiniteSet(Item) /\ IsFiniteSet(Worker)
    /\ MaxAge \in Nat
    /\ RestRate \in Nat /\ GrpcRate \in Nat
    /\ SECOND \in Nat \ {0}

VARIABLES lifo,         \* the Vec<ReadyInstruction>; its last element is popped first
          permits,      \* of the semaphore lifo_sem
          queue_depth,  \* the gauge Metrics::queue_depth
          producer,     \* of an item: how far its push_to_queue call has come
          pc,           \* of a worker: the step it takes next
          held,         \* of a worker: the item it has popped
          age,          \* of an item: ticks since arrived_at
          waited,       \* of an item: waited_for_slot
          slot,         \* of an item: the path whose limiter gave it a slot
          outcome,      \* of an item: how a worker finished with it
          wire,         \* history: ticks since its bundle was handed to a client
          restTs, restGranted,  \* the REST limiter and its history
          grpcTs, grpcGranted   \* the gRPC limiter and its history

queueVars == <<lifo, permits, queue_depth>>
restVars == <<restTs, restGranted>>
grpcVars == <<grpcTs, grpcGranted>>
itemVars == <<age, waited, slot, outcome, wire>>
vars == <<queueVars, producer, pc, held, itemVars, restVars, grpcVars>>

Rest == INSTANCE RateLimiter WITH timestamps <- restTs, granted <- restGranted,
            answer <- TRUE, Ticket <- Item, MaxPerSecond <- RestRate
Grpc == INSTANCE RateLimiter WITH timestamps <- grpcTs, granted <- grpcGranted,
            answer <- TRUE, Ticket <- Item, MaxPerSecond <- GrpcRate

ProducerStep == {"absent", "pushed", "counted", "done"}
WorkerStep == {"idle", "permitted", "popped", "rest", "grpc", "refused",
               "repushed", "recounted", "asleep", "building", "sending"}
Outcome == {"none", "stale", "build_failed", "account_locks", "too_large",
            "sent", "send_failed"}
InHand == {"popped", "rest", "grpc", "refused", "building", "sending"}

Top(s) == s[Len(s)]
Below(s) == SubSeq(s, 1, Len(s) - 1)
At(w, step) == pc[w] = step
Goto(w, step) == pc' = [pc EXCEPT ![w] = step]

\* The worker is done with its item, which ends as o, and goes round its loop.
Settle(w, o) ==
    /\ outcome' = [outcome EXCEPT ![held[w]] = o]
    /\ held' = [held EXCEPT ![w] = NoItem]
    /\ Goto(w, "idle")

\* Nothing is queued, the limiters are empty, every worker waits for a permit.
Init ==
    /\ lifo = <<>> /\ permits = 0 /\ queue_depth = 0
    /\ producer = [i \in Item |-> "absent"]
    /\ pc = [w \in Worker |-> "idle"]
    /\ held = [w \in Worker |-> NoItem]
    /\ age = [i \in Item |-> 0]
    /\ waited = [i \in Item |-> FALSE]
    /\ slot = [i \in Item |-> "none"]
    /\ outcome = [i \in Item |-> "none"]
    /\ wire = [i \in Item |-> SECOND]
    /\ restTs = {} /\ restGranted = {}
    /\ grpcTs = {} /\ grpcGranted = {}

-----------------------------------------------------------------------------
\* push_to_queue, called by the scan loop or by a spawned Tier-3 task.

\* pipeline.lifo.lock().push(item)
Push(i) ==
    /\ producer[i] = "absent"
    /\ producer' = [producer EXCEPT ![i] = "pushed"]
    /\ lifo' = Append(lifo, i)
    /\ UNCHANGED <<permits, queue_depth, pc, held, itemVars, restVars, grpcVars>>

\* metrics.queue_depth.fetch_add(1)
Count(i) ==
    /\ producer[i] = "pushed"
    /\ producer' = [producer EXCEPT ![i] = "counted"]
    /\ queue_depth' = queue_depth + 1
    /\ UNCHANGED <<lifo, permits, pc, held, itemVars, restVars, grpcVars>>

\* pipeline.lifo_sem.add_permits(1)
AddPermit(i) ==
    /\ producer[i] = "counted"
    /\ producer' = [producer EXCEPT ![i] = "done"]
    /\ permits' = permits + 1
    /\ UNCHANGED <<lifo, queue_depth, pc, held, itemVars, restVars, grpcVars>>

push_to_queue(i) == Push(i) \/ Count(i) \/ AddPermit(i)

-----------------------------------------------------------------------------
\* Faulty variants of the worker's steps, for the mutation runs.

\* sem_c.acquire().await without .forget(): the permit comes back
TakeWithoutForget(w) ==
    /\ At(w, "idle") /\ permits > 0
    /\ Goto(w, "permitted")
    /\ UNCHANGED <<queueVars, producer, held, itemVars, restVars, grpcVars>>

\* elapsed >= queue_max_age_ms
StaleTooEarly(i) == age[i] >= MaxAge

\* the requeue skips fetch_add on the gauge
PushBackUncounted(w) ==
    /\ At(w, "refused")
    /\ lifo' = Append(lifo, held[w])
    /\ waited' = [waited EXCEPT ![held[w]] = TRUE]
    /\ held' = [held EXCEPT ![w] = NoItem]
    /\ Goto(w, "recounted")
    /\ UNCHANGED <<permits, queue_depth, producer, age, slot, outcome, wire, restVars, grpcVars>>

\* the requeue forgets to add the permit back
PermitBackNever(w) ==
    /\ At(w, "recounted")
    /\ Goto(w, "asleep")
    /\ UNCHANGED <<queueVars, producer, held, itemVars, restVars, grpcVars>>

\* the limiter is read but the grant is not recorded
RestSlotUnrecorded(w) ==
    /\ At(w, "rest")
    /\ Rest!HasRoom(Rest!Retained(restTs))
    /\ slot' = [slot EXCEPT ![held[w]] = "rest"]
    /\ age' = [age EXCEPT ![held[w]] = 0]
    /\ Goto(w, "building")
    /\ UNCHANGED <<queueVars, producer, held, waited, outcome, wire, restVars, grpcVars>>

\* last().cloned() where pop() is meant
PopByCopy(w) ==
    /\ At(w, "permitted")
    /\ IF lifo = <<>>
       THEN Goto(w, "idle") /\ UNCHANGED held
       ELSE held' = [held EXCEPT ![w] = Top(lifo)] /\ Goto(w, "popped")
    /\ UNCHANGED <<queueVars, producer, itemVars, restVars, grpcVars>>

-----------------------------------------------------------------------------
\* The loop of a worker.

\* sem_c.acquire().await.forget()
Take(w) ==
    /\ At(w, "idle") /\ permits > 0
    /\ permits' = permits - 1
    /\ Goto(w, "permitted")
    /\ UNCHANGED <<lifo, queue_depth, producer, held, itemVars, restVars, grpcVars>>

\* lifo_c.lock().pop(); None => continue
Pop(w) ==
    /\ At(w, "permitted")
    /\ IF lifo = <<>>
       THEN Goto(w, "idle") /\ UNCHANGED <<lifo, held>>
       ELSE /\ held' = [held EXCEPT ![w] = Top(lifo)]
            /\ lifo' = Below(lifo)
            /\ Goto(w, "popped")
    /\ UNCHANGED <<permits, queue_depth, producer, itemVars, restVars, grpcVars>>

\* arrived_at.elapsed() > queue_max_age_ms
Stale(i) == age[i] > MaxAge

\* queue_depth.fetch_sub(1), then the age check
Inspect(w) ==
    /\ At(w, "popped")
    /\ queue_depth' = queue_depth - 1
    /\ IF Stale(held[w])
       THEN Settle(w, "stale") /\ age' = [age EXCEPT ![held[w]] = 0]
       ELSE Goto(w, "rest") /\ UNCHANGED <<held, outcome, age>>
    /\ UNCHANGED <<lifo, permits, producer, waited, slot, wire, restVars, grpcVars>>

\* The item's age no longer matters once it has a slot.
GiveSlot(w, path) ==
    /\ slot' = [slot EXCEPT ![held[w]] = path]
    /\ age' = [age EXCEPT ![held[w]] = 0]
    /\ Goto(w, "building")
    /\ UNCHANGED <<queueVars, producer, held, waited, outcome, wire>>

MoveOn(w, step) ==
    /\ Goto(w, step)
    /\ UNCHANGED <<queueVars, producer, held, itemVars>>

\* jito_limiter.try_acquire() returns true
RestSlot(w) ==
    /\ At(w, "rest")
    /\ Rest!Acquire(held[w])
    /\ GiveSlot(w, "rest")
    /\ UNCHANGED grpcVars

RestFull(w) ==
    /\ At(w, "rest")
    /\ Rest!Refuse
    /\ MoveOn(w, "grpc")
    /\ UNCHANGED grpcVars

\* jito_grpc_limiter.try_acquire() returns true
GrpcSlot(w) ==
    /\ At(w, "grpc")
    /\ Grpc!Acquire(held[w])
    /\ GiveSlot(w, "grpc")
    /\ UNCHANGED restVars

GrpcFull(w) ==
    /\ At(w, "grpc")
    /\ Grpc!Refuse
    /\ MoveOn(w, "refused")
    /\ UNCHANGED restVars

\* Both limiters are full: waited_for_slot is set and the item goes back on top.
PushBack(w) ==
    /\ At(w, "refused")
    /\ lifo' = Append(lifo, held[w])
    /\ waited' = [waited EXCEPT ![held[w]] = TRUE]
    /\ held' = [held EXCEPT ![w] = NoItem]
    /\ Goto(w, "repushed")
    /\ UNCHANGED <<permits, queue_depth, producer, age, slot, outcome, wire, restVars, grpcVars>>

CountBack(w) ==
    /\ At(w, "repushed")
    /\ queue_depth' = queue_depth + 1
    /\ Goto(w, "recounted")
    /\ UNCHANGED <<lifo, permits, producer, held, itemVars, restVars, grpcVars>>

PermitBack(w) ==
    /\ At(w, "recounted")
    /\ permits' = permits + 1
    /\ Goto(w, "asleep")
    /\ UNCHANGED <<lifo, queue_depth, producer, held, itemVars, restVars, grpcVars>>

\* sleep(RATE_RETRY_BACKOFF_MS) is over
Wake(w) ==
    /\ At(w, "asleep")
    /\ MoveOn(w, "idle")
    /\ UNCHANGED <<restVars, grpcVars>>

\* The transaction cannot be built, locks more than 64 accounts, or
\* serializes to more than 1232 bytes.
BuildDrop(w) ==
    /\ At(w, "building")
    /\ \E o \in {"build_failed", "account_locks", "too_large"} : Settle(w, o)
    /\ UNCHANGED <<queueVars, producer, age, waited, slot, wire, restVars, grpcVars>>

\* calc_done is counted and the bundle goes to the client of its path.
HandOver(w) ==
    /\ At(w, "building")
    /\ wire' = [wire EXCEPT ![held[w]] = 0]
    /\ Goto(w, "sending")
    /\ UNCHANGED <<queueVars, producer, held, age, waited, slot, outcome, restVars, grpcVars>>

\* send_bundle returns
Reply(w) ==
    /\ At(w, "sending")
    /\ \E o \in {"sent", "send_failed"} : Settle(w, o)
    /\ UNCHANGED <<queueVars, producer, age, waited, slot, wire, restVars, grpcVars>>

worker(w) ==
    \/ Take(w) \/ Pop(w) \/ Inspect(w)
    \/ RestSlot(w) \/ RestFull(w) \/ GrpcSlot(w) \/ GrpcFull(w)
    \/ PushBack(w) \/ CountBack(w) \/ PermitBack(w) \/ Wake(w)
    \/ BuildDrop(w) \/ HandOver(w) \/ Reply(w)

\* An item's age is read until it has a slot or an outcome.
Ageing(i) == producer[i] # "absent" /\ slot[i] = "none" /\ outcome[i] = "none"

\* The monotonic clock advances.
Tick ==
    /\ age' = [i \in Item |-> IF Ageing(i) /\ age[i] <= MaxAge THEN age[i] + 1 ELSE age[i]]
    /\ wire' = [i \in Item |-> IF wire[i] < SECOND THEN wire[i] + 1 ELSE wire[i]]
    /\ Rest!Advance
    /\ Grpc!Advance
    /\ UNCHANGED <<queueVars, producer, pc, held, waited, slot, outcome>>

Next ==
    \/ Tick
    \/ \E i \in Item : push_to_queue(i)
    \/ \E w \in Worker : worker(w)

Spec == Init /\ [][Next]_vars

\* tokio runs every runnable task, a call of push_to_queue that began ends,
\* requests time out after a second, and the clock does not stop.
Fairness ==
    /\ WF_vars(Tick)
    /\ \A i \in Item : WF_vars(Count(i) \/ AddPermit(i))
    /\ \A w \in Worker : WF_vars(worker(w))

FairSpec == Spec /\ Fairness

-----------------------------------------------------------------------------
\* Shape of the state; a worker holds an item exactly between its pop and
\* the end of its loop body, and the limiters keep their own invariant.
TypeOK ==
    /\ lifo \in Seq(Item)
    /\ permits \in Nat
    /\ queue_depth \in Int
    /\ producer \in [Item -> ProducerStep]
    /\ pc \in [Worker -> WorkerStep]
    /\ held \in [Worker -> Item \cup {NoItem}]
    /\ \A w \in Worker : held[w] # NoItem <=> pc[w] \in InHand
    /\ age \in [Item -> 0 .. MaxAge + 1]
    /\ waited \in [Item -> BOOLEAN]
    /\ slot \in [Item -> {"none", "rest", "grpc"}]
    /\ outcome \in [Item -> Outcome]
    /\ wire \in [Item -> 0 .. SECOND]
    /\ Rest!TypeOK /\ Grpc!TypeOK

WorkersAt(steps) == { w \in Worker : pc[w] \in steps }
ProducersAt(steps) == { i \in Item : producer[i] \in steps }

\* The semaphore accounts for the LIFO: an item in it is covered by a free
\* permit, by one a worker has taken and not yet used, or by one that the
\* push in progress has still to add.
PermitBalance ==
    Len(lifo) = permits + Cardinality(WorkersAt({"permitted"}))
                        + Cardinality(ProducersAt({"pushed", "counted"}))
                        + Cardinality(WorkersAt({"repushed", "recounted"}))

\* queue_depth counts the items whose push was counted and whose pop was not.
GaugeBalance ==
    queue_depth = permits + Cardinality(WorkersAt({"permitted", "popped"}))
                          + Cardinality(ProducersAt({"counted"}))
                          + Cardinality(WorkersAt({"recounted"}))

\* A worker that holds a permit finds an item, whatever the other workers
\* and producers do meanwhile: the arm `None => continue`, which would eat a
\* permit and strand an item, is never taken.
PopFindsItem == \A w \in Worker : At(w, "permitted") => lifo # <<>>

\* The queue_depth gauge never reports a negative depth, although each push
\* and each pop updates it apart from the LIFO.
GaugeNotNegative == queue_depth >= 0

\* Where an item is.
Waiting(i) == (\E k \in DOMAIN lifo : lifo[k] = i) \/ (\E w \in Worker : held[w] = i)
Stage(i) ==
    CASE producer[i] = "absent" -> "absent"
      [] outcome[i] = "sent" -> "sent"
      [] outcome[i] \notin {"none", "sent"} -> "dropped"
      [] outcome[i] = "none" /\ Waiting(i) ->
            IF slot[i] = "none" THEN "waiting" ELSE "slotted"
      [] OTHER -> "lost"

\* No item is in two places: twice in the LIFO, with two workers, or in the
\* LIFO or a worker's hands after it was finished with.  A bundle built from
\* a duplicate would be a second submission of the same opportunity.
OneHome ==
    /\ \A j, k \in DOMAIN lifo : lifo[j] = lifo[k] => j = k
    /\ \A v, w \in Worker : held[v] = held[w] /\ held[v] # NoItem => v = w
    /\ \A w \in Worker, k \in DOMAIN lifo : lifo[k] # held[w]
    /\ \A i \in Item : Waiting(i) => producer[i] # "absent" /\ outcome[i] = "none"

\* The bundles handed to the Jito clients in any second exceed the granted
\* rates by at most one per worker: a worker carries at most one slot from
\* one second into the next while it builds.
BurstBound ==
    Cardinality({ i \in Item : wire[i] < SECOND }) <= RestRate + GrpcRate + Cardinality(Worker)

\* Through requeues, retries and both limiters, the pool keeps its promise
\* to the scanner: nothing is lost, sent twice, sent without a slot, or
\* dropped for age before its time.
Promise == INSTANCE DispatchPromise WITH
    stage <- [i \in Item |-> Stage(i)],
    window <- [p \in {"rest", "grpc"} |-> IF p = "rest" THEN restGranted ELSE grpcGranted]
KeepsPromise == Promise!Spec

\* An opportunity whose push has begun is finished with in the end, even
\* when no slot is ever free for it: no wake-up is lost, and a requeued
\* item that gets no slot becomes stale.  Arrivals are finite here.
EveryItemSettles ==
    \A i \in Item : producer[i] # "absent" ~> outcome[i] # "none"
=============================================================================
