------------------------------- MODULE Scanner -------------------------------
(***************************************************************************)
(* src/arbitrage.rs, scan_all_tokens and quote_check, with discover_offsets,*)
(* patch_amounts_b64 and serve_route of src/template_cache.rs: from an     *)
(* entry of the scan to the swap instruction that is pushed for it.        *)
(*                                                                         *)
(* Quotes run concurrently, up to a limit.  The loop takes one result at a *)
(* time and looks for an instruction in three places: the template of the  *)
(* route, the template of a route over the same two pools, and Metis, which*)
(* a task of its own asks.  An instruction's data is a string of digits    *)
(* that somewhere holds two numbers, the amount and the least output; the  *)
(* code finds them by searching.                                           *)
(*                                                                         *)
(* The store is the one TemplateStore models: here a route is stored or    *)
(* not, and may be evicted at any time.  What it holds at the start comes  *)
(* from the files of earlier processes, whose amounts, tip and fee may have*)
(* been others.  An entry stands for one (amount, token, mode) of one scan;*)
(* the order between scans is left open.                                   *)
(*                                                                         *)
(* The reporter moves counters into its report by swap(0): a counter here  *)
(* is the sum of what was reported and what was not.  Increments between   *)
(* which a task does not wait are one step.                                *)
(***************************************************************************)
EXTENDS Naturals, FiniteSets, SequencesExt

CONSTANTS Entry,       \* what the scans ask for
          AmountOf,    \* the amount of an entry
          Direct,      \* entries with only_direct
          Route,       \* routes, by their signature
          Hop, NoKey,  \* keys of hops; of a hop that lacks one of its fields
          HopsOf,      \* of a route: the keys of its hops, in order
          Fee,         \* JITO_TIP_LAMPORTS + NETWORK_FEE_LAMPORTS
          Past,        \* the amounts earlier processes asked for, with their fee
          Disk,        \* what they may have left: routes, pairs and hops
          Base, Width, \* of numbers in instruction data: 256 and 8
          Pre, Post,   \* what Metis may put before the amounts and after them
          Other,       \* outputs it may write instead of the one it was asked for
          MaxQuotes,   \* max_concurrent_quotes
          Config,      \* settings of [template_cache]
          None

Floor(amount) == amount + Fee

ASSUME ScannerAssumption ==
    /\ IsFiniteSet(Entry) /\ None \notin Entry \cup Route
    /\ AmountOf \in [Entry -> Nat] /\ Direct \subseteq Entry
    /\ NoKey \notin Hop /\ HopsOf \in [Route -> Seq(Hop \cup {NoKey})]
    /\ Past \subseteq [amount : Nat, fee : Nat]
    /\ Fee \in Nat /\ Base \in Nat \ {0, 1} /\ Width \in Nat \ {0}
    /\ \A e \in Entry : \A fee \in {Fee} \cup { p.fee : p \in Past } :
          AmountOf[e] + fee < Base ^ Width
    /\ Pre \subseteq Seq(0 .. Base - 1) /\ Post \subseteq Seq(0 .. Base - 1)
    /\ Other \subseteq 0 .. Base ^ Width - 1
    /\ MaxQuotes \in Nat \ {0}
    /\ Config \subseteq [serve_route : BOOLEAN, save_new : BOOLEAN, serve_from_metis : BOOLEAN]

VARIABLES config,  \* the settings of this process
          loop,    \* the step of the scan loop
          step,    \* of an entry: how far it is
          route,   \* of an entry: the route of its merged quotes
          answer,  \* of an entry: the instruction Metis gave its task
          store,   \* of a stored route: its template
          index,   \* hop_pair_index, keyed by the two hops
          hops,    \* the keys of the hop templates
          count,   \* of a counter: how much it has counted
          pushed   \* of an entry: the instructions pushed for it

storeVars == <<store, index, hops>>
vars == <<config, loop, step, route, answer, storeVars, count, pushed>>

\* The counters of the funnel.  Those that stand in no balance (requests sent,
\* same pool, hop hits, times) are left out; those per token are added up.
Counter == {"route_ok", "route_fail", "profitable", "not_profitable", "metis_resp_total",
            "metis_resp_ok", "dropped_multi_hop", "dropped_merge_fail", "dropped_no_serve",
            "tx_dropped", "ix_from_ram", "route_template_hit", "ix_from_metis", "swap_ix_ok",
            "swap_ix_failed", "timeout", "http", "network", "parse", "queue_in"}

-----------------------------------------------------------------------------
\* u64::to_le_bytes
LE(n) == [i \in 1 .. Width |-> (n \div Base ^ (i - 1)) % Base]

\* data[p .. p + 8]
Field(data, p) == SubSeq(data, p, p + Width - 1)

\* What Metis builds for an amount when it writes the output out.
Built(plan, amount, out) == plan.pre \o LE(amount) \o LE(out) \o plan.post

\* Its answer: the plan says what was asked, and what it wrote.
Instruction(plan) == [data |-> Built(plan, plan.amount, plan.out), plan |-> plan]

\* Faulty variants of the definitions below, for the mutation runs.

\* the second copy_from_slice is missing
patch_amount_only(data, p, amount, out) ==
    IF p + 2 * Width - 1 > Len(data) THEN {}
    ELSE { SubSeq(data, 1, p - 1) \o LE(amount) \o SubSeq(data, p + Width, Len(data)) }

\* in_off + 8 >= data.len()
patch_amounts_short(data, p, amount, out) ==
    IF p + 2 * Width - 1 >= Len(data) THEN {}
    ELSE { SubSeq(data, 1, p - 1) \o LE(amount) \o LE(out) \o SubSeq(data, p + 2 * Width, Len(data)) }

-----------------------------------------------------------------------------
\* discover_offsets: the one place of the amount followed by the output; if
\* there is none, the one place of the amount.  None is the empty set.
discover_offsets(data, amount, out) ==
    LET places == 1 .. Len(data) - 2 * Width + 1
        ins == { p \in places : Field(data, p) = LE(amount) }
        both == { p \in ins : Field(data, p + Width) = LE(out) }
        found == IF both # {} THEN both ELSE ins
    IN  IF Cardinality(found) = 1 THEN found ELSE {}

\* patch_amounts_b64: fails when a field would not fit.
patch_amounts(data, p, amount, out) ==
    IF p + 2 * Width - 1 > Len(data) THEN {}
    ELSE { SubSeq(data, 1, p - 1) \o LE(amount) \o LE(out) \o SubSeq(data, p + 2 * Width, Len(data)) }

\* serve_route: the cached answer for the amount, or the base instruction
\* patched.  The output asked for is not looked at.
serve_route(t, amount) ==
    IF amount \in DOMAIN t.variants THEN { t.variants[amount] }
    ELSE LET out == amount + (t.quoted_out - t.in_amount)
             patches == UNION { patch_amounts(t.base.data, p, amount, out) : p \in t.offset }
         IN  { [data |-> d, plan |-> t.base.plan] : d \in patches }

\* get_route and serve_route
Served(r, amount) == IF r \in DOMAIN store THEN serve_route(store[r], amount) ELSE {}

NewTemplate(ix, amount, out) ==
    [base |-> ix, in_amount |-> amount, quoted_out |-> out,
     offset |-> discover_offsets(ix.data, amount, out),
     variants |-> [a \in {amount} |-> ix]]

\* What Metis may answer for a route, an amount and the floor with a fee.  When
\* it writes another output than asked, the amount and the output asked for do
\* not also stand side by side elsewhere: src/template_cache.rs:280-281 calls
\* that impossible.
Plans(r, amount, fee) ==
    { plan \in [route : {r}, amount : {amount}, fee : {fee},
                pre : Pre, post : Post, out : Other \cup {amount + fee}] :
         \/ plan.out = amount + fee
         \/ LET d == Built(plan, amount, plan.out) IN
            \A p \in 1 .. Len(d) - 2 * Width + 1 :
               Field(d, p) = LE(amount) => Field(d, p + Width) # LE(amount + fee) }

With(f, k, v) == [x \in DOMAIN f \cup {k} |-> IF x = k THEN v ELSE f[x]]
Empty == [x \in {} |-> None]
KeyedHops(r) == ToSet(HopsOf[r]) \ {NoKey}
Pair(r) == { HopsOf[r] : h \in IF Len(HopsOf[r]) = 2 /\ NoKey \notin ToSet(HopsOf[r]) THEN {1} ELSE {} }

\* load_routes_from_disk: a route as an earlier process saved it, with an offset
\* or without, and without its variants.
Loaded(r) ==
    UNION { { [NewTemplate(Instruction(plan), p.amount, p.amount + p.fee) EXCEPT !.variants = Empty]
              : plan \in Plans(r, p.amount, p.fee) } : p \in Past }

\* Any routes of those, pairs and hops, each perhaps without the others: files
\* fail, and routes are evicted.
ASSUME DiskAssumption ==
    \A disk \in Disk :
       /\ DOMAIN disk.routes \subseteq Route
       /\ \A r \in DOMAIN disk.routes : disk.routes[r] \in Loaded(r)
       /\ \A h \in DOMAIN disk.pairs : disk.pairs[h] \in Route /\ h \in Pair(disk.pairs[h])
       /\ disk.hops \subseteq Hop

NoFiles == [routes |-> Empty, pairs |-> Empty, hops |-> {}]

Init ==
    /\ config \in Config
    /\ loop = "next"
    /\ step = [e \in Entry |-> "listed"]
    /\ route = [e \in Entry |-> None]
    /\ answer = [e \in Entry |-> None]
    /\ \E disk \in IF config.save_new \/ config.serve_route THEN Disk ELSE {NoFiles} :
          store = disk.routes /\ index = disk.pairs /\ hops = disk.hops
    /\ count = [c \in Counter |-> 0]
    /\ pushed = [e \in Entry |-> {}]

-----------------------------------------------------------------------------
At(e, where) == step[e] = where
Goto(e, where) == step' = [step EXCEPT ![e] = where]
Counts(S) == count' = [c \in Counter |-> IF c \in S THEN count[c] + 1 ELSE count[c]]

\* A candidate is dropped: every reason has a counter of its own.
Drop(e, reason) ==
    /\ Goto(e, "done")
    /\ Counts({reason, "tx_dropped"})

\* push_to_queue; what becomes of it there is Dispatcher's matter.
Push(e, ix, counters) ==
    /\ Goto(e, "done")
    /\ pushed' = [pushed EXCEPT ![e] = @ \cup {ix}]
    /\ Counts(counters \cup {"queue_in"})

\* buffer_unordered: a result that the loop has not taken counts as well.
\* The quotes make progress only while the loop waits for one.
StartQuote(e) ==
    /\ loop = "next" /\ At(e, "listed")
    /\ Cardinality({ f \in Entry : step[f] \in {"quoting", "quoted"} }) < MaxQuotes
    /\ Goto(e, "quoting")
    /\ UNCHANGED <<config, loop, route, answer, storeVars, count, pushed>>

\* quote_check returns None: a request fails or has no output, the output is
\* no profit, a DEX is forbidden, both quotes use one pool.
NotQuoted(e) ==
    /\ loop = "next" /\ At(e, "quoting")
    /\ Goto(e, "done")
    /\ \/ Counts({"route_fail"})
       \/ Counts({"route_ok", "metis_resp_total", "not_profitable"})
    /\ UNCHANGED <<config, loop, route, answer, storeVars, pushed>>

\* quote_check returns a pair of quotes, whose plans together are a route.
Quoted(e) ==
    /\ loop = "next" /\ At(e, "quoting")
    /\ Goto(e, "quoted")
    /\ \E r \in Route : route' = [route EXCEPT ![e] = r]
    /\ Counts({"route_ok", "metis_resp_total", "profitable", "metis_resp_ok"})
    /\ UNCHANGED <<config, loop, answer, storeVars, pushed>>

quote_check(e) == StartQuote(e) \/ NotQuoted(e) \/ Quoted(e)

\* The loop takes a result that it drops.
DropQuoted(e) ==
    /\ loop = "next" /\ At(e, "quoted")
    /\ \/ e \in Direct /\ Len(HopsOf[route[e]]) # 2 /\ Drop(e, "dropped_multi_hop")
       \/ (e \in Direct => Len(HopsOf[route[e]]) = 2) /\ Drop(e, "dropped_merge_fail")
    /\ UNCHANGED <<config, loop, route, answer, storeVars, pushed>>

\* The loop takes a result, and the quotes merge.
TakeQuoted(e) ==
    /\ loop = "next" /\ At(e, "quoted")
    /\ e \in Direct => Len(HopsOf[route[e]]) = 2
    /\ Goto(e, "serving")
    /\ loop' = IF config.serve_route THEN "tier1" ELSE "hops"
    /\ UNCHANGED <<config, route, answer, storeVars, count, pushed>>

FromRam == {"route_template_hit", "ix_from_ram", "swap_ix_ok"}

\* Faulty variants of the definitions below, for the mutation runs.

\* a `continue` is missing
Tier1GoesOn(e) ==
    /\ loop = "tier1" /\ At(e, "serving")
    /\ \/ \E ix \in Served(route[e], AmountOf[e]) :
             /\ pushed' = [pushed EXCEPT ![e] = @ \cup {ix}]
             /\ Counts(FromRam \cup {"queue_in"})
       \/ Served(route[e], AmountOf[e]) = {} /\ UNCHANGED <<count, pushed>>
    /\ loop' = "hops"
    /\ UNCHANGED <<config, step, route, answer, storeVars>>

\* a pair without a template is looked up again
Tier2Again(e) ==
    /\ loop = "pair" /\ At(e, "serving")
    /\ LET indexed == { index[h] : h \in Pair(route[e]) \cap DOMAIN index }
           served == UNION { Served(r, AmountOf[e]) : r \in indexed }
       IN \/ /\ \E ix \in served : Push(e, ix, FromRam)
             /\ loop' = "next"
          \/ /\ served = {}
             /\ loop' = "hops"
             /\ UNCHANGED <<step, count, pushed>>
    /\ UNCHANGED <<config, route, answer, storeVars>>

\* the hops of a route that is known are taken to be known too
insert_route_only(e) ==
    /\ At(e, "inserting")
    /\ LET r == route[e]  a == AmountOf[e] IN
       /\ store' = IF r \notin DOMAIN store THEN With(store, r, NewTemplate(answer[e], a, Floor(a)))
                   ELSE IF a \in DOMAIN store[r].variants THEN store
                   ELSE [store EXCEPT ![r].variants = With(@, a, answer[e])]
       /\ index' = IF r \in DOMAIN store THEN index
                   ELSE [h \in DOMAIN index \cup Pair(r) |-> IF h \in DOMAIN index THEN index[h] ELSE r]
       /\ Goto(e, IF r \in DOMAIN store THEN "pushing" ELSE "recording")
    /\ UNCHANGED <<config, loop, route, answer, hops, count, pushed>>

\* Tier 1: the template of this very route.
Tier1(e) ==
    /\ loop = "tier1" /\ At(e, "serving")
    /\ LET served == Served(route[e], AmountOf[e]) IN
       \/ /\ \E ix \in served : Push(e, ix, FromRam)
          /\ loop' = "next"
       \/ /\ served = {}
          /\ loop' = "hops"
          /\ UNCHANGED <<step, count, pushed>>
    /\ UNCHANGED <<config, route, answer, storeVars>>

\* check_hops: a hop without a key is never known.
AllHit(r) == ToSet(HopsOf[r]) \subseteq hops

\* Tier 2: only with every hop known is the pair looked up.
CheckHops(e) ==
    /\ loop = "hops" /\ At(e, "serving")
    /\ loop' = IF AllHit(route[e]) /\ config.serve_route THEN "pair" ELSE "metis"
    /\ UNCHANGED <<config, step, route, answer, storeVars, count, pushed>>

\* Tier 2, get_route_for_hops: the template of the route that the index names.
Tier2(e) ==
    /\ loop = "pair" /\ At(e, "serving")
    /\ LET indexed == { index[h] : h \in Pair(route[e]) \cap DOMAIN index }
           served == UNION { Served(r, AmountOf[e]) : r \in indexed }
       IN \/ /\ \E ix \in served : Push(e, ix, FromRam)
             /\ loop' = "next"
          \/ /\ served = {}
             /\ loop' = "metis"
             /\ UNCHANGED <<step, count, pushed>>
    /\ UNCHANGED <<config, route, answer, storeVars>>

\* Tier 3: a task asks Metis, and the loop goes on; or it is switched off.
Tier3(e) ==
    /\ loop = "metis" /\ At(e, "serving")
    /\ loop' = "next"
    /\ \/ config.serve_from_metis /\ Goto(e, "asking") /\ UNCHANGED count
       \/ ~config.serve_from_metis /\ Drop(e, "dropped_no_serve")
    /\ UNCHANGED <<config, route, answer, storeVars, pushed>>

scan_all_tokens(e) ==
    DropQuoted(e) \/ TakeQuoted(e) \/ Tier1(e) \/ CheckHops(e) \/ Tier2(e) \/ Tier3(e)

\* The task: Metis fails in one of four ways,
MetisFails(e, kind) ==
    /\ At(e, "asking")
    /\ Goto(e, "done")
    /\ Counts({"swap_ix_failed", "tx_dropped", kind})
    /\ UNCHANGED <<config, loop, route, answer, storeVars, pushed>>

\* or it answers,
MetisAnswers(e) ==
    /\ At(e, "asking")
    /\ \E plan \in Plans(route[e], AmountOf[e], Fee) :
          answer' = [answer EXCEPT ![e] = Instruction(plan)]
    /\ Goto(e, IF config.save_new THEN "inserting" ELSE "pushing")
    /\ Counts({"swap_ix_ok", "ix_from_metis"})
    /\ UNCHANGED <<config, loop, route, storeVars, pushed>>

\* and the answer is saved,
insert_route(e) ==
    /\ At(e, "inserting")
    /\ LET r == route[e]  a == AmountOf[e] IN
       /\ store' = IF r \notin DOMAIN store THEN With(store, r, NewTemplate(answer[e], a, Floor(a)))
                   ELSE IF a \in DOMAIN store[r].variants THEN store
                   ELSE [store EXCEPT ![r].variants = With(@, a, answer[e])]
       /\ index' = IF r \in DOMAIN store THEN index
                   ELSE [h \in DOMAIN index \cup Pair(r) |-> IF h \in DOMAIN index THEN index[h] ELSE r]
    /\ Goto(e, "recording")
    /\ UNCHANGED <<config, loop, route, answer, hops, count, pushed>>

\* its hops are recorded, those that have a key,
record_hops(e) ==
    /\ At(e, "recording")
    /\ hops' = hops \cup KeyedHops(route[e])
    /\ Goto(e, "pushing")
    /\ UNCHANGED <<config, loop, route, answer, store, index, count, pushed>>

\* and it is pushed.
PushAnswer(e) ==
    /\ At(e, "pushing")
    /\ Push(e, answer[e], {})
    /\ UNCHANGED <<config, loop, route, answer, storeVars>>

metis_task(e) ==
    \/ \E kind \in {"timeout", "http", "network", "parse"} : MetisFails(e, kind)
    \/ MetisAnswers(e) \/ insert_route(e) \/ record_hops(e) \/ PushAnswer(e)

\* A rotation of the generations drops a route; the index keeps its entry.
Evict(r) ==
    /\ r \in DOMAIN store
    /\ store' = [x \in DOMAIN store \ {r} |-> store[x]]
    /\ UNCHANGED <<config, loop, step, route, answer, index, hops, count, pushed>>

Finished ==
    /\ \A e \in Entry : At(e, "done")
    /\ UNCHANGED vars

Next ==
    \/ \E e \in Entry : quote_check(e) \/ scan_all_tokens(e) \/ metis_task(e)
    \/ \E r \in Route : Evict(r)
    \/ Finished

Spec == Init /\ [][Next]_vars

\* The loop and its quotes are one task, and each Metis request a task: tokio
\* runs those that can run, and every request ends within its timeout.
FairSpec ==
    /\ Spec
    /\ WF_vars(\E e \in Entry : quote_check(e) \/ scan_all_tokens(e))
    /\ \A e \in Entry : WF_vars(metis_task(e))

-----------------------------------------------------------------------------
Steps == {"listed", "quoting", "quoted", "serving", "asking", "inserting", "recording", "pushing", "done"}

\* The shape of the scan, the store and the counters: one entry at most is being
\* served, just when the loop is at it; and a template's offset leaves room for
\* the field in its data, so that a hit never falls through to Metis.
TypeOK ==
    /\ config \in Config
    /\ loop \in {"next", "tier1", "hops", "pair", "metis"}
    /\ loop # "next" <=> \E e \in Entry : At(e, "serving")
    /\ step \in [Entry -> Steps]
    /\ route \in [Entry -> Route \cup {None}]
    /\ DOMAIN store \subseteq Route
    /\ \A r \in DOMAIN store : store[r].base.plan.route = r /\ Cardinality(store[r].offset) <= 1
    /\ \A h \in DOMAIN index : index[h] \in Route /\ HopsOf[index[h]] = h
    /\ hops \subseteq Hop
    /\ count \in [Counter -> 0 .. Cardinality(Entry)]
    /\ \A r \in DOMAIN store : store[r].offset # {} => \A e \in Entry : Served(r, AmountOf[e]) # {}

\* Whatever place it came from, an instruction that is pushed for an entry is
\* over the entry's pools, and Metis's own answer to this process for the entry's
\* amount, or such an answer for another amount, or to an earlier process, in
\* which both numbers are replaced: by the entry's amount and by its floor.  The
\* floor is the one of the process that asked, with its tip and fee: serve_route
\* does not look at the output the caller passes.
InstructionsRight ==
    \A e \in Entry : \A ix \in pushed[e] :
       LET plan == ix.plan  a == AmountOf[e] IN
       /\ plan.route = route[e] \/ HopsOf[plan.route] = HopsOf[route[e]]
       /\ \/ ix = Instruction(plan) /\ plan.amount = a /\ plan.fee = Fee
          \/ ix.data = Built(plan, a, a + plan.fee)
       /\ plan.fee = Fee \/ [amount |-> plan.amount, fee |-> plan.fee] \in Past

\* insert_route and record_hops are apart, but once the task has done both,
\* Tier 2 is open to the routes this process learned, just if each of their hops
\* has a key: check_hops counts a hop without one as missing, for good.
HopsKnown ==
    \A r \in DOMAIN store :
       \/ DOMAIN store[r].variants = {}
       \/ \E e \in Entry : At(e, "recording") /\ route[e] = r
       \/ AllHit(r) <=> NoKey \notin ToSet(HopsOf[r])

\* The funnel that the reporter prints: every entry is in one place, every
\* candidate is dropped for one reason, fails in one way or is pushed once.
InState(S) == Cardinality({ e \in Entry : step[e] \in S })
Drops == count["dropped_multi_hop"] + count["dropped_merge_fail"] + count["dropped_no_serve"]
         + count["swap_ix_failed"]
FunnelBalances ==
    /\ count["route_ok"] + count["route_fail"] + InState({"listed", "quoting"}) = Cardinality(Entry)
    /\ count["profitable"] + count["not_profitable"] = count["route_ok"]
    /\ Drops + count["swap_ix_ok"] + InState({"quoted", "serving", "asking"}) = count["metis_resp_ok"]
    /\ count["ix_from_ram"] + count["ix_from_metis"] = count["swap_ix_ok"]
    /\ count["queue_in"] + InState({"inserting", "recording", "pushing"}) = count["swap_ix_ok"]
    /\ count["timeout"] + count["http"] + count["network"] + count["parse"] = count["swap_ix_failed"]
    /\ Drops = count["tx_dropped"]

\* Every entry that is quoted ends: as a push or as a drop that is counted.
EveryEntryEnds == \A e \in Entry : At(e, "quoting") ~> At(e, "done")
=============================================================================
