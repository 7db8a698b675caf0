---------------------------- MODULE BlockhashCache ----------------------------
(***************************************************************************)
(* src/blockhash_cache.rs: the one hash that every transaction is built    *)
(* with, and the task that replaces it.                                    *)
(*                                                                         *)
(* Of a hash the model keeps how many ticks ago the RPC node named it.     *)
(* Interval is the period of the ticker.  Its ticks are not skipped when a *)
(* call takes longer: after a slow call the next begins at once, after a   *)
(* fast one at the next tick, so always within an Interval.  That a call   *)
(* ends within CallTime is the RPC client's own timeout.                   *)
(***************************************************************************)
EXTENDS Naturals

CONSTANTS Interval,   \* 300 ms
          CallTime,   \* of get_latest_blockhash
          MaxMisses   \* failures in a row are counted up to this

VARIABLES age,     \* ticks since the node named the cached hash
          blank,   \* whether it is Hash::default(), all zeros
          task,    \* the step of the refresh task
          spent,   \* ticks it has been at it
          up,      \* whether the RPC node answers every call
          misses,  \* history: calls in a row that failed
          heard    \* history: whether any call has succeeded

cacheVars == <<age, blank, task, spent, up, misses, heard>>

\* How old a hash can be after so many failures: it may have waited for its
\* answer, and every round since then is a pause and a call.
Bound(n) == CallTime + (n + 1) * (Interval + CallTime)
Old == Bound(MaxMisses)

Capped(n, limit) == IF n < limit THEN n ELSE limit

-----------------------------------------------------------------------------
\* Faulty variants of the definitions below, for the mutation runs.

\* unwrap_or_default in the task as in new()
FailsToDefault ==
    /\ task = "calling" /\ ~up
    /\ task' = "waiting" /\ spent' = 0
    /\ blank' = TRUE
    /\ misses' = Capped(misses + 1, MaxMisses)
    /\ UNCHANGED <<age, up, heard>>

\* a failed call ends the task
FailsForGood ==
    /\ task = "calling" /\ ~up
    /\ task' = "ended" /\ spent' = 0
    /\ misses' = Capped(misses + 1, MaxMisses)
    /\ UNCHANGED <<age, blank, up, heard>>

-----------------------------------------------------------------------------
\* BlockhashCache::new: one call before the task starts; when it fails the
\* hash is all zeros.
CacheInit ==
    /\ age \in 0 .. CallTime
    /\ heard \in BOOLEAN /\ blank = ~heard
    /\ task = "waiting" /\ spent = 0
    /\ up \in BOOLEAN
    /\ misses = 0

\* ticker.tick() is over, and spawn_blocking runs the call.
Ask ==
    /\ task = "waiting"
    /\ task' = "calling" /\ spent' = 0
    /\ UNCHANGED <<age, blank, up, misses, heard>>

\* Ok(Ok(h)): the node named h at some moment of the call.
Refreshed ==
    /\ task = "calling"
    /\ age' \in 0 .. spent
    /\ blank' = FALSE /\ heard' = TRUE /\ misses' = 0
    /\ task' = "waiting" /\ spent' = 0
    /\ UNCHANGED up

\* Ok(Err(e)), Err(e): logged, and the old hash stays.
RefreshFails ==
    /\ task = "calling" /\ ~up
    /\ task' = "waiting" /\ spent' = 0
    /\ misses' = Capped(misses + 1, MaxMisses)
    /\ UNCHANGED <<age, blank, up, heard>>

refresh == Ask \/ Refreshed \/ RefreshFails

NodeChanges ==
    /\ up' = ~up
    /\ UNCHANGED <<age, blank, task, spent, misses, heard>>

\* The clock, for every user of the cache.
Advance ==
    /\ spent < IF task = "waiting" THEN Interval ELSE CallTime
    /\ spent' = spent + 1
    /\ age' = Capped(age + 1, Old)
    /\ UNCHANGED <<blank, task, up, misses, heard>>
=============================================================================
