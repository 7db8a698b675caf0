---------------------------- MODULE TemplateStore ----------------------------
(***************************************************************************)
(* src/template_cache.rs, TemplateStore: route templates in a hot and a    *)
(* cold generation, the hops seen so far, the hop-pair index, the periodic *)
(* flush to JSON files, and a restart of the process that loads them.      *)
(*                                                                         *)
(* A step is one critical section of the store's RwLock, or one file       *)
(* written.  Three kinds of task use the store: the scan loop looks routes *)
(* up, Tier-3 tasks insert routes and record hops, the flush task saves.   *)
(*                                                                         *)
(* A route is known by its signature.  What its plan says of it is fixed:  *)
(* the hops it takes and, when they are exactly two with a key each, the   *)
(* pair they form.  Of a template the model keeps whether the amounts in   *)
(* its instruction were located (so that it can be patched) and the        *)
(* amounts whose exact instruction is cached.  The statistics seen_count,  *)
(* hit_count and the slots, which nothing reads back, are left out.        *)
(***************************************************************************)
EXTENDS Integers, FiniteSets, Functions

CONSTANTS Sig,            \* route signatures
          Pair, NoPair,   \* hop pairs; NoPair for a route that has none
          PairOf,         \* the pair a route's plan forms
          Hop,            \* hop keys
          HopsOf,         \* the hops of a route's plan
          Dex, DexOf,     \* the DEX of a hop: one file of hops for each
          Amount,         \* in_amounts asked for
          Discovered,     \* what discover_offsets may report: {TRUE}, {FALSE} or both
          ROUTE_SEG_CAP,  \* routes that fill the hot generation
          MaxRestarts     \* bound on the restarts explored

ASSUME StoreAssumption ==
    /\ IsFiniteSet(Sig)
    /\ NoPair \notin Pair
    /\ PairOf \in [Sig -> Pair \cup {NoPair}]
    /\ HopsOf \in [Sig -> SUBSET Hop]
    /\ DexOf \in [Hop -> Dex]
    /\ Discovered \subseteq BOOLEAN
    /\ ROUTE_SEG_CAP \in Nat \ {0}
    /\ MaxRestarts \in Nat

VARIABLES hot, cold,       \* routes_hot, routes_cold: signature to template
          index,           \* hop_pair_index: pair to signature
          hops,            \* the keys of the map of hop templates
          reader,          \* the scan loop's get_route: its step and signature
          recording,       \* routes inserted by Tier-3 tasks that have hops to record
          flusher,         \* the flush task's step
          snap, snapHops,  \* what it read and has not written yet
          unwritten,       \* DEXes whose file it has still to write
          disk, diskHops,  \* routes.json and the hop files
          unread,          \* history: DEXes whose file could not be read at the start
          idle,            \* history: pushes into hot since a route was last used
          loaded,          \* history: routes loaded when this process started
          restarts

inner == <<hot, cold, index, hops>>
flushVars == <<flusher, snap, snapHops, unwritten, disk, diskHops>>
startVars == <<unread, loaded, restarts>>
vars == <<inner, reader, recording, flushVars, idle, startVars>>

Template == [patchable : BOOLEAN, variants : SUBSET Amount]
IsMap(f, K, V) == DOMAIN f \subseteq K /\ f \in [DOMAIN f -> V]
Empty == [x \in {} |-> x]
NoFile == [routes |-> Empty, pairs |-> Empty]

\* HashMap::insert, HashMap::remove
With(f, k, v) == [x \in DOMAIN f \cup {k} |-> IF x = k THEN v ELSE f[x]]
Without(f, k) == Restrict(f, DOMAIN f \ {k})

Live == DOMAIN hot \cup DOMAIN cold
Ready == [at |-> "ready"]
At(step) == reader.at = step
Forgotten == ROUTE_SEG_CAP + 1

Init ==
    /\ hot = Empty /\ cold = Empty /\ index = Empty /\ hops = {}
    /\ reader = Ready
    /\ recording = {}
    /\ flusher = "sleeping" /\ snap = NoFile /\ snapHops = {} /\ unwritten = {}
    /\ disk = NoFile /\ diskHops = {}
    /\ idle = [s \in Sig |-> Forgotten]
    /\ unread = {} /\ loaded = 0 /\ restarts = 0

-----------------------------------------------------------------------------
\* Faulty variants of the definitions below, for the mutation runs.

\* the full segment is dropped instead of becoming the cold one
PushHotDropping(kept, s, t) ==
    /\ IF Cardinality(DOMAIN hot) >= ROUTE_SEG_CAP
       THEN hot' = With(Empty, s, t)
       ELSE hot' = With(hot, s, t)
    /\ cold' = kept
    /\ idle' = [x \in Sig |-> IF x = s THEN 0
                              ELSE IF idle[x] < Forgotten THEN idle[x] + 1 ELSE idle[x]]

\* the cached variants of a route start afresh
AddedVariantOnly(t, a) == [t EXCEPT !.variants = {a}]

-----------------------------------------------------------------------------
\* push_hot_route: when the hot generation is full it becomes the cold one,
\* and what was cold is dropped.  kept is the cold map as the caller left it.
PushHot(kept, s, t) ==
    /\ IF Cardinality(DOMAIN hot) >= ROUTE_SEG_CAP
       THEN cold' = hot /\ hot' = With(Empty, s, t)
       ELSE cold' = kept /\ hot' = With(hot, s, t)
    /\ idle' = [x \in Sig |-> IF x = s THEN 0
                              ELSE IF idle[x] < Forgotten THEN idle[x] + 1 ELSE idle[x]]

\* Another faulty variant, which needs PushHot:
\* promotes the clone it took under the read lock
PromoteStale ==
    /\ At("promote") /\ reader.sig \notin DOMAIN cold
    /\ PushHot(cold, reader.sig, [patchable |-> FALSE, variants |-> {}])
    /\ reader' = Ready
    /\ UNCHANGED <<index, hops, recording, flushVars, startVars>>

-----------------------------------------------------------------------------
\* get_route and get_route_for_hops, called by the scan loop only.

\* get_route(sig) is called.
AskRoute(s) ==
    /\ At("ready")
    /\ reader' = [at |-> "lookup", sig |-> s]
    /\ UNCHANGED <<inner, recording, flushVars, idle, startVars>>

\* get_route_for_hops(plan): the pair's signature is read under one lock, and
\* get_route is called after it is released.
AskPair(s) ==
    /\ At("ready")
    /\ PairOf[s] \in DOMAIN index
    /\ reader' = [at |-> "lookup", sig |-> index[PairOf[s]]]
    /\ UNCHANGED <<inner, recording, flushVars, idle, startVars>>

\* Under the read lock: a hot template is returned.
HotHit ==
    /\ At("lookup") /\ reader.sig \in DOMAIN hot
    /\ idle' = [idle EXCEPT ![reader.sig] = 0]
    /\ reader' = Ready
    /\ UNCHANGED <<inner, recording, flushVars, startVars>>

\* Under the read lock: neither generation has it.
Absent ==
    /\ At("lookup") /\ reader.sig \notin Live
    /\ reader' = Ready
    /\ UNCHANGED <<inner, recording, flushVars, idle, startVars>>

\* Under the read lock: it is cold, so the write lock has to be taken.
ColdHit ==
    /\ At("lookup") /\ reader.sig \in DOMAIN cold \ DOMAIN hot
    /\ reader' = [reader EXCEPT !.at = "promote"]
    /\ UNCHANGED <<inner, recording, flushVars, idle, startVars>>

\* Under the write lock: the cold template moves to the hot generation.
Promote ==
    /\ At("promote") /\ reader.sig \in DOMAIN cold
    /\ PushHot(Without(cold, reader.sig), reader.sig, cold[reader.sig])
    /\ reader' = Ready
    /\ UNCHANGED <<index, hops, recording, flushVars, startVars>>

\* Under the write lock: the cold generation was replaced meanwhile.
PromoteTooLate ==
    /\ At("promote") /\ reader.sig \notin DOMAIN cold
    /\ idle' = IF reader.sig \in DOMAIN hot THEN [idle EXCEPT ![reader.sig] = 0] ELSE idle
    /\ reader' = Ready
    /\ UNCHANGED <<inner, recording, flushVars, startVars>>

get_route == HotHit \/ Absent \/ ColdHit \/ Promote \/ PromoteTooLate

-----------------------------------------------------------------------------
\* insert_route and record_hops, called by a Tier-3 task, one after the other.

\* amount_variants.entry(in_amount).or_insert(swap_ixs)
AddedVariant(t, a) == [t EXCEPT !.variants = @ \cup {a}]

\* hop_pair_index.entry(pair).or_insert(sig), for a route of two keyed hops
Indexed(s) ==
    IF PairOf[s] = NoPair \/ PairOf[s] \in DOMAIN index THEN index
    ELSE With(index, PairOf[s], s)

InsertKnown(s, a) ==
    /\ \/ /\ s \in DOMAIN hot
          /\ hot' = [hot EXCEPT ![s] = AddedVariant(@, a)]
          /\ UNCHANGED cold
       \/ /\ s \in DOMAIN cold \ DOMAIN hot
          /\ cold' = [cold EXCEPT ![s] = AddedVariant(@, a)]
          /\ UNCHANGED hot
    /\ UNCHANGED <<index, idle>>

InsertNew(s, a) ==
    /\ s \notin Live
    /\ \E found \in Discovered : PushHot(cold, s, [patchable |-> found, variants |-> {a}])
    /\ index' = Indexed(s)

\* The task goes on to record the hops; those already known change nothing.
insert_route(s, a) ==
    /\ InsertKnown(s, a) \/ InsertNew(s, a)
    /\ recording' = IF HopsOf[s] \subseteq hops THEN recording ELSE recording \cup {s}
    /\ UNCHANGED <<hops, reader, flushVars, startVars>>

record_hops(s) ==
    /\ s \in recording
    /\ hops' = hops \cup HopsOf[s]
    /\ recording' = recording \ {s}
    /\ UNCHANGED <<hot, cold, index, reader, flushVars, idle, startVars>>

-----------------------------------------------------------------------------
\* flush_to_disk, run by the flush task.

Patchability == [s \in Live |-> IF s \in DOMAIN hot THEN hot[s].patchable ELSE cold[s].patchable]

\* Both generations and the index are copied under one read lock.
ReadRoutes ==
    /\ flusher = "sleeping"
    /\ flusher' = "routes"
    /\ snap' = [routes |-> Patchability, pairs |-> index]
    /\ UNCHANGED <<inner, reader, recording, snapHops, unwritten, disk, diskHops,
                   idle, startVars>>

\* A file is written aside and renamed; when that fails the old one stays.
WriteRoutes ==
    /\ flusher = "routes"
    /\ flusher' = "hops"
    /\ disk' \in {disk, snap}
    /\ snap' = NoFile
    /\ UNCHANGED <<inner, reader, recording, snapHops, unwritten, diskHops,
                   idle, startVars>>

ReadHops ==
    /\ flusher = "hops"
    /\ flusher' = "files"
    /\ snapHops' = hops
    /\ unwritten' = { DexOf[h] : h \in hops }
    /\ UNCHANGED <<inner, reader, recording, snap, disk, diskHops, idle, startVars>>

WriteHops(d) ==
    /\ flusher = "files" /\ d \in unwritten
    /\ unwritten' = unwritten \ {d}
    /\ diskHops' \in {diskHops, { h \in diskHops : DexOf[h] # d } \cup { h \in snapHops : DexOf[h] = d }}
    /\ UNCHANGED <<inner, reader, recording, flusher, snap, snapHops, disk,
                   idle, startVars>>

Rest ==
    /\ flusher = "files" /\ unwritten = {}
    /\ flusher' = "sleeping"
    /\ snapHops' = {}
    /\ UNCHANGED <<inner, reader, recording, snap, unwritten, disk, diskHops,
                   idle, startVars>>

flush_to_disk == ReadRoutes \/ WriteRoutes \/ ReadHops \/ (\E d \in Dex : WriteHops(d)) \/ Rest

-----------------------------------------------------------------------------
\* The process stops anywhere, without a last flush, and starts with what it
\* read: routes, pairs and the hops `known`, all but those of the DEXes `missed`.
\* Every route goes into the hot generation and starts without cached variants.
StartWith(routes, pairs, known, missed) ==
    /\ restarts < MaxRestarts
    /\ hot' = [s \in DOMAIN routes |-> [patchable |-> routes[s], variants |-> {}]]
    /\ cold' = Empty /\ index' = pairs /\ hops' = known
    /\ reader' = Ready
    /\ recording' = {}
    /\ flusher' = "sleeping" /\ snap' = NoFile /\ snapHops' = {} /\ unwritten' = {}
    /\ unread' = missed
    /\ idle' = [s \in Sig |-> IF s \in DOMAIN routes THEN 0 ELSE Forgotten]
    /\ loaded' = Cardinality(DOMAIN routes)
    /\ restarts' = restarts + 1
    /\ UNCHANGED <<disk, diskHops>>

\* Two faulty variants of Restart:
\* the hop files are not read back
RestartWithoutHops == StartWith(disk.routes, disk.pairs, {}, {})

\* hop_pairs is not read back
RestartWithoutPairs == StartWith(disk.routes, Empty, diskHops, {})

\* load_from_disk, then load_routes_from_disk.  A file that cannot be read or
\* parsed is passed over in silence: routes.json, or the hops of some DEXes,
\* of all of them when it is the directory.
Restart ==
    \E file \in {disk, NoFile}, missed \in SUBSET Dex :
        StartWith(file.routes, file.pairs, { h \in diskHops : DexOf[h] \notin missed }, missed)

Next ==
    \/ \E s \in Sig : AskRoute(s) \/ AskPair(s) \/ record_hops(s)
    \/ \E s \in Sig, a \in Amount : insert_route(s, a)
    \/ get_route
    \/ flush_to_disk
    \/ Restart

Spec == Init /\ [][Next]_vars

-----------------------------------------------------------------------------
\* The shape of the store, its files and the tasks that use them.
TypeOK ==
    /\ IsMap(hot, Sig, Template) /\ IsMap(cold, Sig, Template)
    /\ IsMap(index, Pair, Sig)
    /\ hops \subseteq Hop /\ snapHops \subseteq Hop /\ diskHops \subseteq Hop
    /\ reader \in {Ready} \cup [at : {"lookup", "promote"}, sig : Sig]
    /\ recording \subseteq Sig
    /\ flusher \in {"sleeping", "routes", "hops", "files"}
    /\ \A file \in {snap, disk} : IsMap(file.routes, Sig, BOOLEAN) /\ IsMap(file.pairs, Pair, Sig)
    /\ unwritten \subseteq Dex /\ unread \subseteq Dex
    /\ idle \in [Sig -> 0 .. Forgotten]
    /\ loaded \in 0 .. Cardinality(Sig)
    /\ restarts \in 0 .. MaxRestarts

\* A route is in one generation: a template found hot is the only one, so
\* what Tier-3 adds to it cannot be shadowed by an older copy.
OneGeneration == DOMAIN hot \cap DOMAIN cold = {}

\* The two generations approximate least-recently-used: a route just used is
\* still there after ROUTE_SEG_CAP more routes have been pushed, whatever
\* was promoted, inserted or loaded meanwhile.
UsedRecentlyKept == \A s \in Sig : idle[s] <= ROUTE_SEG_CAP => s \in Live

\* The hop-pair index leads from a pair to a route over that very pair, and
\* covers every route the store has, in memory and in what is saved.
Covers(pairs, routes) ==
    /\ \A p \in DOMAIN pairs : PairOf[pairs[p]] = p
    /\ \A s \in routes : PairOf[s] # NoPair => PairOf[s] \in DOMAIN pairs
IndexFaithful ==
    /\ Covers(index, Live)
    /\ Covers(snap.pairs, DOMAIN snap.routes)
    /\ Covers(disk.pairs, DOMAIN disk.routes)

\* How large the store gets: one generation within its capacity, the other
\* no larger than the capacity or what the process loaded.
Larger(m, n) == IF m < n THEN n ELSE m
GrowthBound ==
    Cardinality(Live) <= ROUTE_SEG_CAP + Larger(ROUTE_SEG_CAP, loaded)

\* A Metis answer once cached keeps serving: while the process runs and the
\* route stays in the store, an amount it can serve it can always serve.
CanServe(t, a) == a \in t.variants \/ t.patchable
TemplateOf(s) == IF s \in DOMAIN hot THEN hot[s] ELSE cold[s]
KeepsServing ==
    [][\A s \in Live \cap Live', a \in Amount :
         restarts' = restarts /\ CanServe(TemplateOf(s), a) => CanServe(TemplateOf(s)', a)]_vars

\* A hop that reached a file stays on disk, through failed writes and restarts
\* between any two writes, unless the file of its DEX could not be read when the
\* process started: the next flush writes that file from memory alone.
SavedHopsStay == [][\A h \in diskHops \ diskHops' : DexOf[h] \in unread]_vars
=============================================================================
