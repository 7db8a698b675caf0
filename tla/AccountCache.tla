----------------------------- MODULE AccountCache -----------------------------
(***************************************************************************)
(* src/account_cache.rs and the part of src/litesvm_sim.rs that reads it:  *)
(* accounts stream in from a Yellowstone subscription, what is missing is  *)
(* fetched over RPC, and simulations run on what is there.                 *)
(*                                                                         *)
(* The contents of an account are the slot in which it was last written,   *)
(* one write to a slot.                                                    *)
(* The subscription task, the start-up prefetch and the simulations run    *)
(* concurrently; the map's lock is held for one access at a time.          *)
(*                                                                         *)
(* The stream's commitment is "processed": the node at its other end tells *)
(* of the chain's writes in the order of their slots, and at any moment    *)
(* of a write on a fork that the chain abandons, of a slot the chain skips. *)
(* A connection starts from where its node happens to be (from_slot is     *)
(* None), which may be behind what an earlier node has told.  An RPC       *)
(* answers with any past state of an account, of the chain only, as the    *)
(* client's commitment is "finalized".                                     *)
(*                                                                         *)
(* Programs (never injected), malformed updates, pings and the outcome of  *)
(* a simulation are left out; the simulators of the pool share nothing,    *)
(* so one is modelled, with the callers that compete for it.               *)
(***************************************************************************)
EXTENDS Naturals, FiniteSets, Sequences

CONSTANTS Key,
          Streamed,     \* keys the subscription's filters match
          Changing,     \* keys that are written while the program runs
          Caller,       \* tasks that simulate
          Prefetcher,   \* main, which warms the cache up before any of them
          Warm,         \* the accounts it asks for, in order
          Tx,           \* what the transactions refer to: sequences of keys
          FirstBackoff, \* 500 ms
          MaxBackoff,   \* 10 s
          MaxSlot,      \* bound on the slots of the chain
          NoCaller

ASSUME CacheAssumption ==
    /\ Streamed \cup Changing \subseteq Key
    /\ Prefetcher \notin Caller /\ NoCaller \notin Caller \cup {Prefetcher}
    /\ Warm \in Seq(Key) /\ Tx \subseteq Seq(Key)
    /\ {FirstBackoff, MaxBackoff, MaxSlot} \subseteq Nat \ {0}
    /\ FirstBackoff <= MaxBackoff

Asker == Caller \cup {Prefetcher}

VARIABLES slot,        \* the chain's slot
          written,     \* of a key: the slots in which it was written
          stream,      \* the step of the subscription task
          told,        \* the slot up to which its connection has told the chain's writes
          update,      \* the update it is storing
          backoff,     \* how long it sleeps when the stream ends
          stream_slot, \* AccountCache::stream_slot
          cache,       \* AccountCache::inner: of a cached key, the slot of its copy
          pc,          \* of an asker: its step
          tx,          \* of an asker: the accounts it needs
          todo,        \* of an asker: those it has not come to yet
          answer,      \* of an asker: what the RPC returned
          live_slot,   \* of an asker: the slot it read for the clock
          holder,      \* who holds Simulator::svm
          svm_slot,    \* the clock of the LiteSVM
          injected,    \* of an asker: accounts it has put into the LiteSVM
          cold,        \* history: of an asker, what was not cached when it began
          failed,      \* history: of an asker, what the RPC did not return
          lost,        \* history: streamed keys written while no stream was there to tell
          hidden,      \* history: streamed keys whose copy a fetch has overwritten
          fallen,      \* history: stream_slot went back since the slot was last read
          falling      \* history: it had, when the slot last read was

chainVars == <<slot, written>>
streamVars == <<stream, told, update, backoff, stream_slot>>
askVars == <<pc, tx, todo, answer, cold, failed>>
simVars == <<live_slot, holder, svm_slot, injected>>
backVars == <<fallen, falling>>
vars == <<chainVars, streamVars, cache, askVars, simVars, lost, hidden, backVars>>

With(f, k, v) == [x \in DOMAIN f \cup {k} |-> IF x = k THEN v ELSE f[x]]
Newest(slots) == CHOOSE s \in slots : \A t \in slots : t <= s
Lower(m, n) == IF m < n THEN m ELSE n
Goto(a, step) == pc' = [pc EXCEPT ![a] = step]
Cached == DOMAIN cache
KeysOf(seq) == { seq[i] : i \in 1..Len(seq) }
Connected == stream \in {"open", "storing"}
NoUpdate == [key |-> NoCaller, slot |-> 0]

\* Slots in which the chain has no block; a fork may have one.
Skipped == (1..slot) \ UNION { written[k] : k \in Key }

\* Streamed keys with a write that a connection told up to slot n has not told.
Ahead(n) == { k \in Streamed : \E s \in written[k] : n < s }

-----------------------------------------------------------------------------
\* Faulty variants of the definitions below, for the mutation runs.

\* the cache is not consulted
LookAtNothing(a) ==
    /\ pc[a] = "look" /\ todo[a] # <<>>
    /\ Goto(a, "ask")
    /\ UNCHANGED <<cache, todo, answer, failed, hidden>>

\* a failed fetch ends the loop over the accounts, as with `?`
AskFailsForAll(a) ==
    /\ pc[a] = "ask"
    /\ failed' = [failed EXCEPT ![a] = @ \cup {Head(todo[a])}]
    /\ todo' = [todo EXCEPT ![a] = <<>>]
    /\ Goto(a, "look")
    /\ UNCHANGED <<cache, answer, hidden>>

\* only accounts already in the cache are updated
InsertKnown ==
    /\ stream = "storing"
    /\ cache' = IF update.key \in Cached THEN With(cache, update.key, update.slot) ELSE cache
    /\ update' = NoUpdate
    /\ stream' = "open"
    /\ lost' = lost \ {update.key} /\ hidden' = hidden \ {update.key}
    /\ UNCHANGED <<told, backoff, stream_slot, fallen>>

\* a new connection starts from an empty cache
ReconnectAnew ==
    /\ stream = "sleeping"
    /\ stream' = "connecting"
    /\ backoff' = Lower(2 * backoff, MaxBackoff)
    /\ cache' = [k \in {} |-> 0]
    /\ UNCHANGED <<told, update, stream_slot, lost, hidden, fallen>>

\* the slot is read before the mutex is taken
LockAnyway(c) ==
    /\ pc[c] = "look" /\ todo[c] = <<>>
    /\ holder' = c
    /\ cold' = [cold EXCEPT ![c] = {}]
    /\ Goto(c, "load")
    /\ UNCHANGED <<tx, todo, failed, live_slot, svm_slot, injected, backVars>>

-----------------------------------------------------------------------------
\* main: the slot is seeded from an RPC, if it answers, then the subscription
\* is spawned and the prefetch begins.  What an account holds by then counts as
\* written in slot 1.
Init ==
    /\ slot = 1
    /\ written = [k \in Key |-> {1}]
    /\ stream = "connecting" /\ told = 1 /\ update = NoUpdate
    /\ backoff = FirstBackoff
    /\ stream_slot \in {0, slot}
    /\ cache = [k \in {} |-> 0]
    /\ pc = [a \in Asker |-> IF a = Prefetcher THEN "look" ELSE "idle"]
    /\ tx = [a \in Asker |-> IF a = Prefetcher THEN Warm ELSE <<>>]
    /\ todo = tx
    /\ answer = [a \in Asker |-> 0]
    /\ live_slot = [a \in Asker |-> 0]
    /\ holder = NoCaller
    /\ svm_slot = 0
    /\ injected = [a \in Asker |-> {}]
    /\ cold = [a \in Asker |-> IF a = Prefetcher THEN KeysOf(Warm) ELSE {}]
    /\ failed = [a \in Asker |-> {}]
    /\ lost = {} /\ hidden = {}
    /\ fallen = FALSE /\ falling = FALSE

-----------------------------------------------------------------------------
\* The chain: external.
Write(k) ==
    /\ slot < MaxSlot
    /\ slot' = slot + 1
    /\ written' = [written EXCEPT ![k] = @ \cup {slot'}]
    /\ lost' = IF k \in Streamed /\ ~Connected THEN lost \cup {k} ELSE lost
    /\ UNCHANGED <<streamVars, cache, askVars, simVars, hidden, backVars>>

Skip ==
    /\ slot < MaxSlot
    /\ slot' = slot + 1
    /\ UNCHANGED <<written, streamVars, cache, askVars, simVars, lost, hidden, backVars>>

-----------------------------------------------------------------------------
\* The subscription task.

\* The node of the new connection is anywhere on the chain.
Connects ==
    /\ stream = "connecting"
    /\ stream' = "open"
    /\ told' \in 1..slot
    /\ UNCHANGED <<update, backoff, stream_slot, cache, lost, hidden, fallen>>

\* The connection fails, or ends cleanly or not: what it had still to tell is gone.
StreamEnds ==
    /\ stream \in {"connecting", "open"}
    /\ stream' = "sleeping"
    /\ lost' = IF Connected THEN lost \cup Ahead(told) ELSE lost
    /\ told' = 1
    /\ UNCHANGED <<update, backoff, stream_slot, cache, hidden, fallen>>

\* The sleep is over; the next one will be twice as long, also after a good
\* connection.
Reconnect ==
    /\ stream = "sleeping"
    /\ stream' = "connecting"
    /\ backoff' = Lower(2 * backoff, MaxBackoff)
    /\ UNCHANGED <<told, update, stream_slot, cache, lost, hidden, fallen>>

\* The next write of the chain, or one on a fork: external.
TellsNext(u) ==
    \/ /\ u.slot \in written[u.key] /\ told < u.slot
       /\ \A k \in Streamed : \A s \in written[k] : told < s => u.slot <= s
       /\ told' = u.slot
    \/ u.slot \in Skipped /\ UNCHANGED told

\* An update is two accesses to shared state: the slot, whatever it is, then
\* the map.
StoreSlot ==
    /\ stream = "open"
    /\ \E u \in [key : Streamed, slot : 2..slot] :
         /\ TellsNext(u)
         /\ update' = u
         /\ stream_slot' = u.slot
         /\ fallen' = (fallen \/ u.slot < stream_slot)
    /\ stream' = "storing"
    /\ UNCHANGED <<backoff, cache, lost, hidden>>

InsertUpdate ==
    /\ stream = "storing"
    /\ cache' = With(cache, update.key, update.slot)
    /\ update' = NoUpdate
    /\ stream' = "open"
    /\ lost' = lost \ {update.key} /\ hidden' = hidden \ {update.key}
    /\ UNCHANGED <<told, backoff, stream_slot, fallen>>

Subscription ==
    /\ Connects \/ StreamEnds \/ Reconnect \/ StoreSlot \/ InsertUpdate
    /\ UNCHANGED <<chainVars, askVars, simVars, falling>>

-----------------------------------------------------------------------------
\* get_or_fetch, for each account of a transaction or of the prefetch in turn.
\* simulate looks before it calls get_or_fetch, which looks again; an account
\* that is cached stays cached, so the second look decides alone.
Look(a) ==
    /\ pc[a] = "look" /\ todo[a] # <<>>
    /\ IF Head(todo[a]) \in Cached
       THEN todo' = [todo EXCEPT ![a] = Tail(@)] /\ UNCHANGED pc
       ELSE Goto(a, "ask") /\ UNCHANGED todo
    /\ UNCHANGED <<cache, answer, failed, hidden>>

\* rpc.get_account: external.
Answered(a) ==
    /\ pc[a] = "ask"
    /\ \E s \in written[Head(todo[a])] : answer' = [answer EXCEPT ![a] = s]
    /\ Goto(a, "insert")
    /\ UNCHANGED <<cache, todo, failed, hidden>>

AskFails(a) ==
    /\ pc[a] = "ask"
    /\ failed' = [failed EXCEPT ![a] = @ \cup {Head(todo[a])}]
    /\ todo' = [todo EXCEPT ![a] = Tail(@)]
    /\ Goto(a, "look")
    /\ UNCHANGED <<cache, answer, hidden>>

\* The insert does not look whether the stream has been faster.
InsertFetched(a) ==
    LET k == Head(todo[a]) IN
    /\ pc[a] = "insert"
    /\ cache' = With(cache, k, answer[a])
    /\ hidden' = IF k \in Streamed \cap Cached THEN hidden \cup {k} ELSE hidden
    /\ answer' = [answer EXCEPT ![a] = 0]
    /\ todo' = [todo EXCEPT ![a] = Tail(@)]
    /\ Goto(a, "look")
    /\ UNCHANGED failed

GetOrFetch(a) ==
    /\ Look(a) \/ Answered(a) \/ AskFails(a) \/ InsertFetched(a)
    /\ UNCHANGED <<chainVars, streamVars, tx, cold, simVars, lost, backVars>>

-----------------------------------------------------------------------------
\* main: the warm-up is over and the simulators are made.
MakeSimulator ==
    /\ pc[Prefetcher] = "look" /\ todo[Prefetcher] = <<>>
    /\ svm_slot' = stream_slot
    /\ Goto(Prefetcher, "done")
    /\ failed' = [failed EXCEPT ![Prefetcher] = {}]
    /\ fallen' = FALSE /\ falling' = FALSE
    /\ UNCHANGED <<tx, todo, cold, live_slot, holder, injected>>

Begin(c) ==
    /\ pc[c] = "idle" /\ pc[Prefetcher] = "done"
    /\ \E t \in Tx :
         /\ tx' = [tx EXCEPT ![c] = t]
         /\ todo' = [todo EXCEPT ![c] = t]
         /\ cold' = [cold EXCEPT ![c] = KeysOf(t) \ Cached]
    /\ Goto(c, "look")
    /\ UNCHANGED <<failed, simVars, backVars>>

\* Every account has been looked for.
Lock(c) ==
    /\ pc[c] = "look" /\ todo[c] = <<>> /\ holder = NoCaller
    /\ holder' = c
    /\ cold' = [cold EXCEPT ![c] = {}]
    /\ Goto(c, "load")
    /\ UNCHANGED <<tx, todo, failed, live_slot, svm_slot, injected, backVars>>

LoadSlot(c) ==
    /\ pc[c] = "load"
    /\ live_slot' = [live_slot EXCEPT ![c] = stream_slot]
    /\ falling' = fallen /\ fallen' = FALSE
    /\ Goto(c, "warp")
    /\ UNCHANGED <<tx, todo, cold, failed, holder, svm_slot, injected>>

Warp(c) ==
    /\ pc[c] = "warp"
    /\ svm_slot' = live_slot[c]
    /\ live_slot' = [live_slot EXCEPT ![c] = 0]
    /\ todo' = [todo EXCEPT ![c] = tx[c]]
    /\ Goto(c, "inject")
    /\ falling' = FALSE
    /\ UNCHANGED <<tx, cold, failed, holder, injected, fallen>>

\* One account at a time, while the stream goes on.
Inject(c) ==
    /\ pc[c] = "inject" /\ todo[c] # <<>>
    /\ injected' = [injected EXCEPT ![c] = @ \cup ({Head(todo[c])} \cap Cached)]
    /\ todo' = [todo EXCEPT ![c] = Tail(@)]
    /\ UNCHANGED <<pc, tx, cold, failed, live_slot, holder, svm_slot, backVars>>

\* simulate_transaction, and the mutex is released.
Simulated(c) ==
    /\ pc[c] = "inject" /\ todo[c] = <<>>
    /\ holder' = NoCaller
    /\ injected' = [injected EXCEPT ![c] = {}]
    /\ tx' = [tx EXCEPT ![c] = <<>>]
    /\ failed' = [failed EXCEPT ![c] = {}]
    /\ Goto(c, "idle")
    /\ UNCHANGED <<todo, cold, live_slot, svm_slot, backVars>>

Simulation ==
    /\ \/ MakeSimulator
       \/ \E c \in Caller :
            Begin(c) \/ Lock(c) \/ LoadSlot(c) \/ Warp(c) \/ Inject(c) \/ Simulated(c)
    /\ UNCHANGED <<chainVars, streamVars, cache, answer, lost, hidden>>

-----------------------------------------------------------------------------
Next ==
    \/ \E k \in Changing : Write(k)
    \/ Skip
    \/ Subscription
    \/ \E a \in Asker : GetOrFetch(a)
    \/ Simulation

Spec == Init /\ [][Next]_vars

-----------------------------------------------------------------------------
Slots == 0..MaxSlot

\* The variables have their types: a copy is of a slot in which the account was
\* written, on the chain or on a fork, and whoever is past the mutex holds it.
TypeOK ==
    /\ slot \in Slots /\ stream_slot \in Slots /\ svm_slot \in Slots
    /\ written \in [Key -> SUBSET Slots]
    /\ stream \in {"connecting", "open", "storing", "sleeping"}
    /\ told \in Slots
    /\ IF stream = "storing" THEN update \in [key : Streamed, slot : Slots] ELSE update = NoUpdate
    /\ backoff \in FirstBackoff..MaxBackoff
    /\ Cached \subseteq Key /\ \A k \in Cached : cache[k] \in written[k] \cup Skipped
    /\ pc \in [Asker -> {"idle", "look", "ask", "insert", "done", "load", "warp", "inject"}]
    /\ \A a \in Asker : pc[a] \in {"load", "warp", "inject"} <=> holder = a
    /\ lost \cup hidden \subseteq Key
    /\ {fallen, falling} \subseteq BOOLEAN

\* A streamed account that is cached is the newest of the chain, or the newest
\* is still to be told or being stored, but for three reasons: it was written
\* while no subscription was there to tell, a fetch has overwritten the stream's
\* copy, or the copy is from an abandoned fork (run_stream, and the
\* unconditional inserts of run_stream and get_or_fetch).
LiveUnlessLostOrHidden ==
    \A k \in (Streamed \cap Cached) \ (lost \cup hidden) :
        LET newest == Newest(written[k]) IN
        cache[k] \in written[k] =>
            \/ cache[k] = newest
            \/ Connected /\ told < newest
            \/ update = [key |-> k, slot |-> newest]

\* Once an account is cached and no fetch of it is under way, it stays so, and
\* only the stream changes its copy: get_or_fetch asks the RPC only for what is
\* missing, and nothing is ever removed.
Settled(k) ==
    /\ k \in Cached
    /\ \A a \in Asker : pc[a] \in {"ask", "insert"} => Head(todo[a]) # k

SettledStays ==
    [][\A k \in Key : Settled(k) =>
         Settled(k)' /\ (cache'[k] = cache[k] \/ update = [key |-> k, slot |-> cache'[k]])]_vars

\* A simulation asks the RPC only for accounts that were missing when it
\* began (src/litesvm_sim.rs:178-179: "subsequent sims are zero-RPC").
NoRpcForCached ==
    \A a \in Asker : pc[a] \in {"ask", "insert"} => Head(todo[a]) \in cold[a]

\* When a simulation runs, an account of its transaction that is not in the
\* LiteSVM is one that this very simulation asked for in vain: one failed fetch
\* keeps no other account out.
MissingOnlyIfFailed ==
    \A c \in Caller : pc[c] = "inject" /\ todo[c] = <<>> =>
        KeysOf(tx[c]) \ injected[c] \subseteq failed[c]

\* The clock of the LiteSVM goes back only when the stream has: whoever warps
\* it, there is an update of a lower slot between the slot it shows and the one
\* it is set to, as the slot is read under the mutex.  (It does go back then:
\* run_stream stores the slot of every update, of a fork or of a node that lags.)
ClockBackWithStream == [][svm_slot' < svm_slot => falling]_svm_slot
=============================================================================
