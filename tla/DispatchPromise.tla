--------------------------- MODULE DispatchPromise ---------------------------
(***************************************************************************)
(* What the worker pool of src/arbitrage.rs promises to the scanner, with  *)
(* no queue, no semaphore and no workers: an opportunity handed over waits *)
(* until it gets a slot on one of the two submission paths or is dropped   *)
(* for being too old, and never both; a slot is spent on one attempt,      *)
(* which ends as sent or dropped; and each path hands out at most its rate *)
(* in any second.  Requeueing is invisible.                                *)
(***************************************************************************)
EXTENDS Integers, FiniteSets

CONSTANTS Item,      \* opportunities
          MaxAge,    \* queue_max_age_ms, in ticks
          RestRate,  \* jito.max_bundles_per_second
          GrpcRate,  \* jito_grpc.max_bundles_per_second, 0 without gRPC
          SECOND     \* ticks in a second

VARIABLES stage,   \* of an item: absent, waiting, slotted, sent or dropped
          age,     \* ticks since it was handed over, while it waits
          window   \* of a path: the slots of the last second, [ticket, age]

Path == {"rest", "grpc"}
Rate == [p \in Path |-> IF p = "rest" THEN RestRate ELSE GrpcRate]

Init ==
    /\ stage = [i \in Item |-> "absent"]
    /\ age = [i \in Item |-> 0]
    /\ window = [p \in Path |-> {}]

Arrive(i) ==
    /\ stage[i] = "absent"
    /\ stage' = [stage EXCEPT ![i] = "waiting"]
    /\ UNCHANGED <<age, window>>

Expire(i) ==
    /\ stage[i] = "waiting"
    /\ age[i] > MaxAge
    /\ stage' = [stage EXCEPT ![i] = "dropped"]
    /\ age' = [age EXCEPT ![i] = 0]
    /\ UNCHANGED window

Slot(i, p) ==
    /\ stage[i] = "waiting"
    /\ Cardinality(window[p]) < Rate[p]
    /\ window' = [window EXCEPT ![p] = @ \cup {[ticket |-> i, age |-> 0]}]
    /\ stage' = [stage EXCEPT ![i] = "slotted"]
    /\ age' = [age EXCEPT ![i] = 0]

Settle(i) ==
    /\ stage[i] = "slotted"
    /\ \E s \in {"sent", "dropped"} : stage' = [stage EXCEPT ![i] = s]
    /\ UNCHANGED <<age, window>>

Tick ==
    /\ age' = [i \in Item |-> IF stage[i] = "waiting" /\ age[i] <= MaxAge
                              THEN age[i] + 1 ELSE age[i]]
    /\ window' = [p \in Path |->
                    {[g EXCEPT !.age = @ + 1] : g \in {h \in window[p] : h.age + 1 < SECOND}}]
    /\ UNCHANGED stage

Next ==
    \/ Tick
    \/ \E i \in Item :
         Arrive(i) \/ Expire(i) \/ Settle(i) \/ (\E p \in Path : Slot(i, p))

Spec == Init /\ [][Next]_<<stage, age, window>>
=============================================================================
