------------------------------ MODULE AltTables ------------------------------
(***************************************************************************)
(* src/alt_cache.rs and src/transaction.rs: address lookup tables, from    *)
(* the chain through the shared cache into a compiled transaction.         *)
(*                                                                         *)
(* A transaction names an account either in full or by its position in a   *)
(* table.  The position is computed from the cached copy of the table and  *)
(* resolved on the chain, some time later, in the table itself.  Tables on *)
(* the chain only grow.  Workers build at the same time and share the      *)
(* cache, whose lock is released while a table is fetched.                 *)
(*                                                                         *)
(* Of a transaction the model keeps the accounts its three instructions    *)
(* name and how each is referred to.  Sizes, data and signatures are left  *)
(* out; whether an RPC fails is a choice.                                  *)
(***************************************************************************)
EXTENDS Naturals, FiniteSets, SequencesExt

CONSTANTS Worker,
          Table,    \* lookup tables
          Account,  \* accounts the instructions name
          Tip,      \* JITO_TIP_ACCOUNTS
          Fixed,    \* payer and programs: signers and invoked, never looked up
          Swap,     \* what Metis may answer: the accounts and the tables of a swap
          Chain0,   \* the tables on the chain at the start: a set of possibilities
          MaxTable, \* bound on the length of a table
          NoSwap

ASSUME AltAssumption ==
    /\ Tip \subseteq Account \ Fixed /\ Fixed \subseteq Account
    /\ NoSwap \notin Swap /\ IsFiniteSet(Account)
    /\ \A s \in Swap : s.accounts \subseteq Account \ Tip /\ s.tables \in Seq(Table)
    /\ Chain0 \subseteq [Table -> Seq(Account)]
    /\ MaxTable \in Nat

VARIABLES chain,    \* of a table: its addresses on the chain
          cache,    \* AltCache::inner: of a cached table, the copy
          pc,       \* of a worker: its step
          swap,     \* of a worker: the swap it builds a transaction for
          tip,      \* of a worker: the tip account it picked
          todo,     \* of a worker: the tables it has still to get
          fetched,  \* of a worker: a table it fetched and has not inserted yet
          copies    \* of a worker: the copies it has, in the order of the tables

local == <<pc, swap, tip, todo, fetched, copies>>
vars == <<chain, cache, local>>

With(f, k, v) == [x \in DOMAIN f \cup {k} |-> IF x = k THEN v ELSE f[x]]
At(w, step) == pc[w] = step
Goto(w, step) == pc' = [pc EXCEPT ![w] = step]

Init ==
    /\ chain \in Chain0
    /\ cache = [t \in {} |-> <<>>]
    /\ pc = [w \in Worker |-> "idle"]
    /\ swap = [w \in Worker |-> NoSwap]
    /\ tip \in [Worker -> Tip]
    /\ todo = [w \in Worker |-> <<>>]
    /\ fetched = [w \in Worker |-> <<>>]
    /\ copies = [w \in Worker |-> <<>>]

-----------------------------------------------------------------------------
\* Faulty variants of the definitions below, for the mutation runs.

\* HEADER_SIZE is one address too long
KeptShifted(addresses) ==
    SelectSeq(IF addresses = <<>> THEN <<>> ELSE Tail(addresses), LAMBDA a : a \notin Tip)

\* retain without the negation
KeptTips(addresses) == SelectSeq(addresses, LAMBDA a : a \in Tip)

\* the accounts that come from tables are not counted
LockCountOfKeys(w) == Cardinality({ a \in Account : a \in Fixed \cup {tip[w]} })

\* the copy that the first worker inserted is taken for every table
InsertOther(w) ==
    /\ At(w, "insert")
    /\ cache' = With(cache, Head(swap[w].tables), fetched[w])
    /\ copies' = [copies EXCEPT ![w] = Append(@, [key |-> Head(todo[w]), addresses |-> fetched[w]])]
    /\ todo' = [todo EXCEPT ![w] = Tail(@)]
    /\ fetched' = [fetched EXCEPT ![w] = <<>>]
    /\ Goto(w, "tables")
    /\ UNCHANGED <<chain, swap, tip>>

-----------------------------------------------------------------------------
\* addresses.retain(|addr| !tip_pubkeys.contains(addr))
Kept(addresses) ==
    LET kept[n \in 0 .. Len(addresses)] ==
            IF n = 0 THEN <<>>
            ELSE IF addresses[n] \in Tip THEN kept[n - 1]
            ELSE Append(kept[n - 1], addresses[n])
    IN  kept[Len(addresses)]

\* build_arb_transaction starts: a tip account is picked at random.
Begin(w) ==
    /\ At(w, "idle")
    /\ \E s \in Swap, a \in Tip :
          /\ swap' = [swap EXCEPT ![w] = s]
          /\ tip' = [tip EXCEPT ![w] = a]
          /\ todo' = [todo EXCEPT ![w] = s.tables]
    /\ Goto(w, "tables")
    /\ UNCHANGED <<chain, cache, fetched, copies>>

\* if !alt_addresses.contains(&pubkey): Metis may name a table twice.  The code
\* passes over it before it gets any; a list of the worker's own, it is all one.
Taken(w) == { copies[w][i].key : i \in DOMAIN copies[w] }

Again(w) ==
    /\ At(w, "tables") /\ todo[w] # <<>>
    /\ Head(todo[w]) \in Taken(w)
    /\ todo' = [todo EXCEPT ![w] = Tail(@)]
    /\ UNCHANGED <<chain, cache, pc, swap, tip, fetched, copies>>

\* get_or_fetch, under the read lock: the table is cached.
Hit(w) ==
    /\ At(w, "tables") /\ todo[w] # <<>>
    /\ Head(todo[w]) \in DOMAIN cache \ Taken(w)
    /\ copies' = [copies EXCEPT ![w] =
          Append(@, [key |-> Head(todo[w]), addresses |-> cache[Head(todo[w])]])]
    /\ todo' = [todo EXCEPT ![w] = Tail(@)]
    /\ UNCHANGED <<chain, cache, pc, swap, tip, fetched>>

\* get_or_fetch, under the read lock: it is not.
Miss(w) ==
    /\ At(w, "tables") /\ todo[w] # <<>>
    /\ Head(todo[w]) \notin DOMAIN cache \cup Taken(w)
    /\ Goto(w, "fetch")
    /\ UNCHANGED <<chain, cache, swap, tip, todo, fetched, copies>>

\* The RPC answers with the table as it is on the chain, or was some time ago:
\* the client's commitment is "finalized".
Fetch(w) ==
    /\ At(w, "fetch")
    /\ \E n \in 0 .. Len(chain[Head(todo[w])]) :
          fetched' = [fetched EXCEPT ![w] = Kept(SubSeq(chain[Head(todo[w])], 1, n))]
    /\ Goto(w, "insert")
    /\ UNCHANGED <<chain, cache, swap, tip, todo, copies>>

\* What a build has gathered ends with it.
Leave(w) ==
    /\ swap' = [swap EXCEPT ![w] = NoSwap]
    /\ todo' = [todo EXCEPT ![w] = <<>>]
    /\ copies' = [copies EXCEPT ![w] = <<>>]
    /\ Goto(w, "idle")

\* The RPC fails, and with it the build.
FetchFails(w) ==
    /\ At(w, "fetch")
    /\ Leave(w)
    /\ UNCHANGED <<chain, cache, tip, fetched>>

\* The copy goes into the cache, over what another worker put there meanwhile.
Insert(w) ==
    /\ At(w, "insert")
    /\ cache' = With(cache, Head(todo[w]), fetched[w])
    /\ copies' = [copies EXCEPT ![w] =
          Append(@, [key |-> Head(todo[w]), addresses |-> fetched[w]])]
    /\ todo' = [todo EXCEPT ![w] = Tail(@)]
    /\ fetched' = [fetched EXCEPT ![w] = <<>>]
    /\ Goto(w, "tables")
    /\ UNCHANGED <<chain, swap, tip>>

get_or_fetch(w) == Hit(w) \/ Miss(w) \/ Fetch(w) \/ FetchFails(w) \/ Insert(w)

\* All tables are there: the message is compiled and signed.
Compile(w) ==
    /\ At(w, "tables") /\ todo[w] = <<>>
    /\ Goto(w, "built")
    /\ UNCHANGED <<chain, cache, swap, tip, todo, fetched, copies>>

\* The bundle has landed, or was dropped.
Finish(w) ==
    /\ At(w, "built")
    /\ Leave(w)
    /\ UNCHANGED <<chain, cache, tip, fetched>>

build_arb_transaction(w) == Begin(w) \/ Again(w) \/ get_or_fetch(w) \/ Compile(w) \/ Finish(w)

\* The owner of a table extends it on the chain.
Extend(t, a) ==
    /\ Len(chain[t]) < MaxTable
    /\ a \notin ToSet(chain[t])
    /\ chain' = [chain EXCEPT ![t] = Append(@, a)]
    /\ UNCHANGED <<cache, local>>

Next ==
    \/ \E w \in Worker : build_arb_transaction(w)
    \/ \E t \in Table, a \in Account : Extend(t, a)

Spec == Init /\ [][Next]_vars

-----------------------------------------------------------------------------
\* v0::Message::try_compile: an account that may be looked up is, in the
\* first table whose copy has it, at its first position there; the others
\* are static keys.
Named(w) == swap[w].accounts \cup Fixed \cup {tip[w]}
CopiesWith(w, a) == { i \in DOMAIN copies[w] : a \in ToSet(copies[w][i].addresses) }
LookedUp(w) == { a \in Named(w) \ Fixed : CopiesWith(w, a) # {} }
First(s, Test(_)) == CHOOSE i \in DOMAIN s : Test(s[i]) /\ \A j \in 1 .. i - 1 : ~Test(s[j])
CopyOf(w, a) == copies[w][First(copies[w], LAMBDA c : a \in ToSet(c.addresses))]
TableOf(w, a) == CopyOf(w, a).key
IndexOf(w, a) == First(CopyOf(w, a).addresses, LAMBDA b : b = a)

\* What the chain finds there when the transaction executes.
Resolved(w, a) == chain[TableOf(w, a)][IndexOf(w, a)]

\* account_lock_count: static keys and indexes of the lookups.
LockCount(w) ==
    Cardinality(Named(w) \ LookedUp(w)) + Cardinality({ <<TableOf(w, a), IndexOf(w, a)>> : a \in LookedUp(w) })

-----------------------------------------------------------------------------
Step == {"idle", "tables", "fetch", "insert", "built"}

\* The shape of the tables, of the cache's copies and of each worker's build.
TypeOK ==
    /\ chain \in [Table -> Seq(Account)]
    /\ DOMAIN cache \subseteq Table /\ cache \in [DOMAIN cache -> Seq(Account \ Tip)]
    /\ pc \in [Worker -> Step]
    /\ swap \in [Worker -> Swap \cup {NoSwap}]
    /\ tip \in [Worker -> Tip]
    /\ todo \in [Worker -> Seq(Table)]
    /\ fetched \in [Worker -> Seq(Account \ Tip)]
    /\ copies \in [Worker -> Seq([key : Table, addresses : Seq(Account \ Tip)])]

Built == { w \in Worker : At(w, "built") }
Clean(t) == ToSet(chain[t]) \cap Tip = {}

\* A copy is never refreshed, and a slow worker's fetch may replace a newer
\* one; yet in a table without tip accounts every position computed from any
\* copy means on the chain what it meant when it was computed.
LookupsHold ==
    \A w \in Built : \A a \in LookedUp(w) : Clean(TableOf(w, a)) => Resolved(w, a) = a

\* Whatever was fetched when and by whom, each cached copy is what the table
\* was at some time, without its tip accounts.
CopyFaithful ==
    \A t \in DOMAIN cache : \E n \in 0 .. Len(chain[t]) : cache[t] = Kept(SubSeq(chain[t], 1, n))

\* account_lock_count counts each account of the transaction once, although
\* an account may be in several of its tables.
LocksExact ==
    \A w \in Built : LockCount(w) = Cardinality(Named(w))
=============================================================================
