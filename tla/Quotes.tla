-------------------------------- MODULE Quotes --------------------------------
(***************************************************************************)
(* A quote check from its two requests to the merged quote: quote_check    *)
(* and the start of scan_all_tokens's loop body in src/arbitrage.rs,       *)
(* get_quote and merge_quotes of src/metis.rs.  What becomes of a merged   *)
(* quote is Scanner's.  Its counts go into the global metrics and into     *)
(* those of TokenMetrics, whose reporter runs beside it.                   *)
(*                                                                         *)
(* The checks of a scan are futures of one task, the loop's, which takes a *)
(* result as soon as there is one: between two answers of Metis, its only  *)
(* awaits, a check and the loop's part run alone.                          *)
(*                                                                         *)
(* A plan is a sequence of hops, or NoPlan where the JSON has no array.  A *)
(* hop is the pool it goes through: NoKey has no ammKey, Banned are those  *)
(* with a forbidden label or program.                                      *)
(***************************************************************************)
EXTENDS Integers, Sequences, SequencesExt

CONSTANTS Entry,      \* the (amount, token, mode) of one scan
          MintOf,     \* of an entry: its token
          Direct,     \* the entries with only_direct
          amount,     \* lamports in
          MinProfit,  \* min_profit_lamports
          Fees,       \* JITO_TIP_LAMPORTS + NETWORK_FEE_LAMPORTS
          Plan,       \* of an entry: the plans of Metis's answers to its mode
          NoPlan, NoKey, Banned,
          Outs,       \* the outputs that it quotes
          Mints, Every,
          Days        \* days since 1970-01-01 on which a window may end

ASSUME QuotesAssumption ==
    /\ Direct \subseteq Entry /\ NoKey \notin Banned
    /\ amount \in Nat /\ MinProfit \in Nat /\ Fees \in Nat \ {0} /\ Outs \subseteq Nat
    /\ Every \in Nat \ {0}
    /\ Mints \in Seq(ToSet(Mints)) /\ Days \subseteq Nat
    /\ IsFiniteSet(Entry) /\ \A e \in Entry : MintOf[e] \in ToSet(Mints)
    /\ \A e \in Entry : \A p \in Plan[e] \ {NoPlan} : p \in Seq(ToSet(p))

VARIABLES step,   \* of an entry: where it is
          leg1, leg2,  \* of an entry: the plans it was quoted
          out,     \* of an entry: the lamports it was quoted for the second leg
          merged,  \* of an entry: the quote sent on
          met,    \* of a counter of Metrics: its total
          live, taken, snap, acc, windows, total, told, summed

Books == INSTANCE TokenMetrics

bookVars == <<live, taken, snap, acc, windows, total, told, summed>>
checkVars == <<step, leg1, leg2, out, merged>>
vars == <<checkVars, met, bookVars>>

Global == {"metis_req_sent", "metis_resp_total", "metis_resp_ok", "dropped_same_pool",
           "dropped_multi_hop", "dropped_merge_fail"}
None == [in |-> 0, floor |-> 0, plan |-> NoPlan]

Init ==
    /\ step = [e \in Entry |-> "listed"]
    /\ leg1 = [e \in Entry |-> NoPlan] /\ leg2 = [e \in Entry |-> NoPlan]
    /\ out = [e \in Entry |-> 0]
    /\ merged = [e \in Entry |-> None]
    /\ met = [g \in Global |-> 0]
    /\ Books!BooksInit

\* The task is at an await: no check is between two of its counts, and the loop
\* is not at a result.
AtAwait == \A e \in Entry : step[e] \notin {"judging", "candidate"}
Goto(e, s) == step' = [step EXCEPT ![e] = s]
Counted(S) == met' = [g \in Global |-> IF g \in S THEN met[g] + 1 ELSE met[g]]
Forget(e) ==
    /\ leg1' = [leg1 EXCEPT ![e] = NoPlan] /\ leg2' = [leg2 EXCEPT ![e] = NoPlan]
    /\ out' = [out EXCEPT ![e] = 0]

-----------------------------------------------------------------------------
\* Faulty variants of the definitions below, for the mutation runs.

\* the pools of the first hops only are compared
SharePoolFirst(p, q) ==
    /\ p # NoPlan /\ q # NoPlan
    /\ p # <<>> /\ q # <<>> /\ p[1] = q[1] /\ p[1] # NoKey

\* the drop for a shared pool forgets its verdict
SamePoolUncounted(e) ==
    /\ Goto(e, "done") /\ Forget(e)
    /\ Counted({"dropped_same_pool"})
    /\ UNCHANGED <<live, total>>

-----------------------------------------------------------------------------
\* No plan has hops that are keyed, named, or counted, but one counts as one.
HopsIn(p) == IF p = NoPlan THEN {} ELSE ToSet(p)

route_uses_forbidden_dex(p) == HopsIn(p) \cap Banned # {}

routes_share_pool(p, q) == (HopsIn(p) \cap HopsIn(q)) \ {NoKey} # {}

hop_count(p) == IF p = NoPlan THEN 1 ELSE Len(p)

\* quote_check up to its first await.  Both requests are counted at once.
Begin(e) ==
    /\ AtAwait /\ step[e] = "listed"
    /\ Goto(e, "leg1")
    /\ met' = [met EXCEPT !["metis_req_sent"] = @ + 2]
    /\ Books!Count(MintOf[e], "q_sent", 2)
    /\ UNCHANGED <<leg1, leg2, out, merged>>

\* A request fails, or the first leg has no output: return None.
Fails(e) ==
    /\ AtAwait /\ step[e] \in {"leg1", "leg2"}
    /\ Goto(e, "done") /\ Forget(e)
    /\ Books!Count(MintOf[e], "route_fail", 1)
    /\ UNCHANGED <<merged, met>>

\* The first leg is answered with an output, which is the input of the second.
Leg1(e) ==
    /\ AtAwait /\ step[e] = "leg1"
    /\ Goto(e, "leg2")
    /\ \E p \in Plan[e] : leg1' = [leg1 EXCEPT ![e] = p]
    /\ UNCHANGED <<leg2, out, merged, met, live, total>>

\* The second leg is answered; an output that is no number counts as 0.
Leg2(e) ==
    /\ AtAwait /\ step[e] = "leg2"
    /\ Goto(e, "judging")
    /\ \E p \in Plan[e], o \in Outs :
          leg2' = [leg2 EXCEPT ![e] = p] /\ out' = [out EXCEPT ![e] = o]
    /\ Counted({"metis_resp_total"})
    /\ Books!Count(MintOf[e], "route_ok", 1)
    /\ UNCHANGED <<leg1, merged>>

Profits(e) == out[e] > amount + MinProfit
Forbidden(e) == route_uses_forbidden_dex(leg1[e]) \/ route_uses_forbidden_dex(leg2[e])
SharesPool(e) == routes_share_pool(leg1[e], leg2[e])

NotProfitable(e) ==
    /\ ~Profits(e) \/ Forbidden(e)
    /\ Goto(e, "done") /\ Forget(e)
    /\ Books!Count(MintOf[e], "not_profitable", 1)
    /\ UNCHANGED met

SamePool(e) ==
    /\ Goto(e, "done") /\ Forget(e)
    /\ Counted({"dropped_same_pool"})
    /\ Books!Count(MintOf[e], "not_profitable", 1)

Profitable(e) ==
    /\ Profits(e) /\ ~Forbidden(e) /\ ~SharesPool(e)
    /\ Goto(e, "candidate")
    /\ Counted({"metis_resp_ok"})
    /\ Books!Count(MintOf[e], "profitable", 1)
    /\ UNCHANGED <<leg1, leg2, out>>

\* The rest of quote_check has no await.
Judge(e) ==
    /\ step[e] = "judging"
    /\ \/ NotProfitable(e)
       \/ Profits(e) /\ ~Forbidden(e) /\ SharesPool(e) /\ SamePool(e)
       \/ Profitable(e)
    /\ UNCHANGED merged

quote_check(e) == Begin(e) \/ Fails(e) \/ Leg1(e) \/ Leg2(e) \/ Judge(e)

-----------------------------------------------------------------------------
\* merge_quotes: the two plans in a row, with the floor for an output.
CanMerge(e) == leg1[e] # NoPlan /\ leg2[e] # NoPlan
merge_quotes(e, floor) == [in |-> amount, floor |-> floor, plan |-> leg1[e] \o leg2[e]]

MultiHop(e) == e \in Direct /\ hop_count(leg1[e]) + hop_count(leg2[e]) # 2

\* The loop drops a result, or sends the merged quote on.
DropResult(e) ==
    /\ step[e] = "candidate"
    /\ \/ MultiHop(e) /\ Counted({"dropped_multi_hop"})
       \/ ~MultiHop(e) /\ ~CanMerge(e) /\ Counted({"dropped_merge_fail"})
    /\ Goto(e, "done") /\ Forget(e)
    /\ UNCHANGED <<merged, live, total>>

Merge(e) ==
    /\ step[e] = "candidate"
    /\ ~MultiHop(e) /\ CanMerge(e)
    /\ Goto(e, "merged")
    /\ merged' = [merged EXCEPT ![e] = merge_quotes(e, amount + Fees)]
    /\ UNCHANGED <<leg1, leg2, out, met, live, total>>

scan == \E e \in Entry : quote_check(e) \/ DropResult(e) \/ Merge(e)

Next ==
    \/ scan /\ UNCHANGED <<taken, snap, acc, windows, told, summed>>
    \/ Books!reporter /\ UNCHANGED <<checkVars, met>>

Spec == Init /\ [][Next]_vars

-----------------------------------------------------------------------------
\* The shape of the checks and the books; a check keeps a merged quote just when
\* it has got there, and a summary is never overdue.
TypeOK ==
    /\ step \in [Entry -> {"listed", "leg1", "leg2", "judging", "candidate", "merged", "done"}]
    /\ \A e \in Entry : {leg1[e], leg2[e]} \subseteq Plan[e] \cup {NoPlan}
    /\ out \in [Entry -> Outs \cup {0}]
    /\ \A e \in Entry : merged[e] = None <=> step[e] # "merged"
    /\ met \in [Global -> Nat]
    /\ taken \in 0 .. Books!Cells /\ windows \in 0 .. Every - 1
    /\ \A f \in {live, snap, acc, total, told, summed} : f \in [Books!Cell -> Nat]

\* A quote that is sent on is a round trip worth its fees: its plan is the two
\* legs in a row, no pool that names itself is in both, none is forbidden, a
\* direct one has two hops, and when min_profit covers the fees (as config.toml
\* has it) what Metis quoted exceeds the floor that the bundle asks for.
CandidatesSound ==
    \A e \in Entry : step[e] = "merged" =>
        LET plan == merged[e].plan
            split == Len(leg1[e])
        IN /\ Len(plan) = split + Len(leg2[e])
           /\ \A i, j \in DOMAIN plan :
                 i <= split /\ split < j /\ plan[i] = plan[j] => plan[i] = NoKey
           /\ \A i \in DOMAIN plan : plan[i] \notin Banned
           /\ e \in Direct => Len(plan) = 2
           /\ MinProfit >= Fees => out[e] > merged[e].floor

\* The global funnel of Metrics and the books of the tokens are kept apart, in
\* eight places.  They agree whenever no check is between two of its counts: on
\* requests, on complete quotes, on profits, and each check that has begun has
\* failed, is under way, or has one verdict.
Sum(counter) ==
    LET sum[n \in 0 .. Len(Mints)] == IF n = 0 THEN 0 ELSE sum[n - 1] + total[<<n, counter>>]
    IN sum[Len(Mints)]
InStep(S) == Cardinality({ e \in Entry : step[e] \in S })
BooksAgree ==
    AtAwait =>
        /\ met["metis_req_sent"] = Sum("q_sent")
        /\ met["metis_resp_total"] = Sum("route_ok")
        /\ met["metis_resp_ok"] = Sum("profitable")
        /\ met["dropped_same_pool"] <= Sum("not_profitable")
        /\ Sum("route_ok") = Sum("profitable") + Sum("not_profitable")
        /\ Sum("q_sent") = 2 * (Sum("route_ok") + Sum("route_fail") + InStep({"leg1", "leg2"}))
        /\ Sum("profitable") = InStep({"merged"})
                               + met["dropped_multi_hop"] + met["dropped_merge_fail"]

BooksBalance == Books!BooksBalance
VerdictsKeepUp == Books!VerdictsKeepUp

\* On whatever day a window ends, the file names that day (now_iso).
DateOfEachDay == \A d \in Days : Books!DateRight(d)
StampsRight == taken = 0 => DateOfEachDay
=============================================================================
