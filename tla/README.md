# Formal model of the circular-arbitrage bot

TLA+ modules, TLC runs and TLAPS proofs for the Rust program of this repository.
File and line references are relative to the repository root.

## 1. Inventory of the system

One tokio process. It scans pairs (amount, token), quotes a circular route
wSOL → token → wSOL at a local Metis server, turns a profitable quote into swap
instructions, builds a transaction and submits it as a Jito bundle over REST or
gRPC.

| component | source | state it keeps | operations |
|---|---|---|---|
| wiring | `src/main.rs` | none after start-up | builds everything in order, then scans for ever |
| scanner | `src/arbitrage.rs` 33–291, 451–681 | up to `max_concurrent_quotes` quote futures, unbounded Tier-3 tasks | `quote_check`, `scan_all_tokens` with its three sources of instructions |
| dispatcher | `src/arbitrage.rs` 295–448 | LIFO `Vec` behind a mutex, a semaphore, the `queue_depth` gauge, `calc_workers` tasks | `push_to_queue`, the worker loop |
| rate limiter | `src/rate_limiter.rs` | `Vec<Instant>`, one limiter per path | `new`, `try_acquire` |
| template store | `src/template_cache.rs` | hot and cold route maps, hop map, hop-pair index, JSON files | `get_route`, `get_route_for_hops`, `insert_route`, `check_hops`, `record_hops`, load, flush every 60 s |
| amount patching | `src/template_cache.rs` 269–369 | none | `discover_offsets`, `patch_amounts_b64`, `serve_route` |
| Jito gRPC | `src/jito_grpc.rs` | per region a channel and optional tokens | `authenticate`, the refresh loop, `send_bundle` |
| Jito REST | `src/jito.rs` | none (HTTP pool) | `send_bundle` |
| transaction builder | `src/transaction.rs` | none | `build_arb_transaction`, `account_lock_count` |
| ALT cache | `src/alt_cache.rs` | map of lookup tables | `get_or_fetch` |
| account cache | `src/account_cache.rs` | map of accounts, `stream_slot` | `get_or_fetch`, `prefetch`, the subscription loop |
| blockhash cache | `src/blockhash_cache.rs` | one hash | a 300 ms refresh task, `get` |
| simulator | `src/litesvm_sim.rs` | a LiteSVM behind a mutex | `simulate` |
| metrics | `src/metrics.rs`, `src/token_metrics.rs` | atomic counters | increments everywhere, a reporter that drains them |
| tables and files | `src/config.rs`, `src/dex_accounts.rs`, `src/program_registry.rs`, `src/tokens.rs`, `src/wallet.rs` | none | read at start-up |
| external or separate | `src/bin/alt_loader.rs`, `scripts/`, `proto/`, `vendor/` | – | – |

How they interact:

- The scanner looks routes up in the template store (Tier 1 by signature, Tier 2
  by hop pair); failing that it spawns a Tier-3 task that asks Metis, inserts
  the route and its hops, and pushes the result. All three end in the queue.
- A push and a worker share the LIFO, the semaphore and the gauge, three
  objects that are not updated together.
- A worker asks the REST limiter, then the gRPC limiter, then builds (blockhash
  cache, ALT cache, perhaps an RPC), then hands the bundle to one client, which
  sends it to all its endpoints at once and returns with the first acceptance.
- A quote check counts in the global and in the token's metrics, which a reporter
  takes down counter by counter meanwhile.
- The flush task reads the store and writes one file of routes and one file of
  hops per DEX; `main` reads them back at the next start.

What is hard: the steps of pushes and workers interleave; a limiter's answer
is used after an `await`; requeued items come back; the store's read lock is
released before the write lock is taken; its files are written one by one and
the process may stop in between; generations rotate; tokens expire while they
are refreshed; caches are filled by checks that precede the fetch. The
"hazards" of `PROJECT.json` list each of these at its line with the properties
that answer for it.

What makes each component correct, in a sentence: the limiter never grants
more than its rate in *any* second, nor refuses without reason; the dispatcher
neither loses nor doubles an opportunity and sends none without a slot; the
store keeps what was used recently, never has two copies of a route, finds
only routes that fit, and gets back from disk what it wrote; the gRPC client
never sends with an expired token because of one failure, and gets over any
outage by itself; a transaction's lookups mean on the chain what they meant when
they were computed, and its locks are counted exactly; a cached account of the chain is old only
where its source had no way to tell, none is fetched twice by one simulation, and a simulator's
clock goes back only when the stream's slot has; an instruction served from
RAM has both its numbers right for its amount, and every entry of a scan
ends in one place that is counted; a merged quote profits by more than the margin
and its two legs share no pool; the counters of a token add up however its reporter and
its checks overlap; a transaction's blockhash is as recent as the node allows, and
a worker that has taken a slot is told the truth about its bundle and told it in the end.

## 2. Modules

| module | models | depends on |
|---|---|---|
| `SlidingWindow` | what a limiter promises: a grant only while fewer than the rate were granted in the last second, a refusal only otherwise | – |
| `RateLimiter` | `src/rate_limiter.rs` as written | refines `SlidingWindow` |
| `DispatchPromise` | what the queue and its workers promise the scanner | `SlidingWindow`-style windows |
| `Dispatcher` | `spawn_workers` and `push_to_queue` | two `INSTANCE`s of `RateLimiter`; refines `DispatchPromise` |
| `TemplateStore` | `TemplateStore` of `src/template_cache.rs` with its files and restarts | – |
| `JitoAuth` | one region of `src/jito_grpc.rs`: authentication and `token_refresh_loop` | – |
| `BlockhashCache` | `src/blockhash_cache.rs` | – |
| `Broadcast` | one `send_bundle` of `src/jito.rs` or `src/jito_grpc.rs` | – |
| `Submission` | how a bundle that has its slot leaves: `JitoGrpcClient::new`, the worker from its slot to the result | `INSTANCE`s of `BlockhashCache` and `Broadcast` |
| `TokenMetrics` | `src/token_metrics.rs`: counters, reporter, calendar | – |
| `Quotes` | `quote_check` of `src/arbitrage.rs`, `get_quote` and `merge_quotes` of `src/metis.rs`, and their counts | `INSTANCE` of `TokenMetrics` |
| `AltTables` | `AltCache` of `src/alt_cache.rs`, `build_arb_transaction` and `account_lock_count` of `src/transaction.rs`, with the tables on the chain | – |
| `Scanner` | `scan_all_tokens` of `src/arbitrage.rs`; `discover_offsets`, `patch_amounts_b64`, `serve_route` of `src/template_cache.rs` | the store of `TemplateStore`, the queue of `Dispatcher` and the checks of `Quotes`, abstracted |
| `AccountCache` | `src/account_cache.rs`, `simulate` of `src/litesvm_sim.rs` up to the LiteSVM, and the part of `main` that starts them | – |
| `RateLimiterProofs`, `DispatcherProofs`, `TemplateStoreProofs`, `ScannerProofs`, `AccountCacheProofs`, `SubmissionProofs`, `QuotesProofs` | the theorems | the modules above, `TLAPS` |
| `BundleProofs` | the theorems about `AltTables` and `JitoAuth`, which share no state: what a bundle cannot do without | both, `TLAPS` |
| `MCRateLimiter`, `MCDispatcher`, `MCTemplateStore`, `MCAltTables`, `MCScanner`, `MCAccountCache`, `MCSubmission`, `MCQuotes` | constants for TLC; in `MCDispatcher` and `MCAltTables` also the statements of the repository that the code does not keep | the modules above |

### RateLimiter

The `Vec<Instant>` is the set `timestamps` of records *ticket, age*: an
`Instant` matters only as its distance from now, so the clock ages every entry
(`Advance`) instead of counting up, which keeps the state finite without a bound
on time. Ages stop at `SECOND`: the code compares with one second only.
`Retained` is line 25's `retain`, `HasRoom` line 27. `granted` is history: every
grant of the last second, whether or not the list still has it. Tickets tell
grants of the same instant apart.

### Dispatcher

`lifo`, `permits` and `queue_depth` are the three shared objects; every access to
one of them is a step of its own. A push is `Push`, `Count`, `AddPermit`. A
worker's loop is `Take` (acquire and forget), `Pop`, `Inspect` (gauge, then age),
`RestSlot`/`RestFull`, `GrpcSlot`/`GrpcFull`, then either `PushBack`,
`CountBack`, `PermitBack`, `Wake` or `BuildDrop`/`HandOver`, `Reply`. What the
build decides (it fails, too many locks, too large, fine) and what the client
answers are choices; the gRPC path is off when `GrpcRate = 0`. `wire`,
`restGranted` and `grpcGranted` are history.

### TemplateStore

A step is one critical section of the store's `RwLock` or one file written. The
scan loop's `get_route` is `AskRoute` or `AskPair`, then, under the read lock,
`HotHit`, `Absent` or `ColdHit`, then under the write lock `Promote` or
`PromoteTooLate`. Tier-3 tasks are `insert_route` followed by `record_hops`. The
flush task is `ReadRoutes`, `WriteRoutes`, `ReadHops`, `WriteHops` per DEX, `Rest`;
each write may fail and leave the old file, as write-aside-and-rename does.
`Restart` may happen anywhere, and any file may fail to be read back: `load_from_disk` and
`load_routes_from_disk` pass over what they cannot read or parse. The next flush then replaces
that file by what memory has; `unread` (history) names the DEXes whose hops were missed at the
last start, and `SavedHopsStay` says that nothing else takes a saved hop away. A template keeps whether its amounts can be
patched and which amounts have an exact instruction; `seen_count`, `hit_count`
and slots are statistics nobody reads and are left out. The routes' hops and
pairs are fixed by the route (`HopsOf`, the keys of the hops that have one, and `PairOf`).
`idle` and `loaded` are history.

### JitoAuth

Its definitions are prefixed (`AuthInit`, `AuthSpec`), as `BundleProofs` extends it beside
`AltTables`. Regions share nothing, so one is modelled. Of a token the model keeps how long it
still lives, which is what `token_refresh_loop` computes from the expiry and the
wall clock; `Tick` ages the tokens and runs the timer of the step the loop is in.
`connect_region` authenticates once; without success the region has no loop for
good. The loop is `GoToSleep` (which `SleepFor` bounds), `Wake`, then `Refreshed`,
`RefreshEmpty` or `RefreshFails`, then `AuthSucceeds` or `AuthFails`, then
`BackoffOver`. `up` says whether the service answers every call; while it is
down any call may still succeed. `misses` is history: rounds in a row without a
token. Assumed: the two clocks agree, no sleep lasts longer than asked, the
calls of one round end within `CallTime` (the channel's timeout is one second),
and a fresh token outlives the margin and the shortest sleep.

### BlockhashCache, Broadcast, Submission

`Submission` starts with the process. `main` connects the gRPC client before it
spawns the workers: `NoKeypair`, or `connect_region` for each endpoint, which skips
an unreachable one and keeps one that does not authenticate; `Connected` goes on
with REST alone when no region is left. `connect()` has no timeout of its own
(src/jito_grpc.rs:143-153; line 147 bounds requests), so nothing makes `connect_region`
happen: a region that is silent in the handshake keeps `main` waiting, before any worker exists. Then the worker repeats `TakeSlot` (which
reads the hash), `BuildDrop` or `HandOver`, and `Reported`. Workers only read what they
share here, so one is modelled. Tokens of the regions are left to `JitoAuth`: an
engine accepts or refuses as it likes.

Of a hash `BlockhashCache` keeps its age. The refresh task is `Ask`, then
`Refreshed` or `RefreshFails`; its ticker bursts, so it waits at most an `Interval`
between two calls, and the RPC client's timeout ends a call within `CallTime`. `up`
says whether the node answers every call; while it is not, any call may still
succeed. `misses` and `heard` are history. `hash` is what the transaction under
construction was given, and ages with it.

The futures of a `Broadcast` are polled by the caller alone, so an engine that
decides after the call has returned decides unheard (`Decide`, any time after
`Start`). A future ends by an acceptance (`TakeOk`, which ends the call and drops
the others), a refusal (`TakeErr`), a broken connection (`Break`) or the timeout
(`Expire`), and `GiveUp` returns the error when none is left. REST and gRPC differ in
what they send and agree in this.

### TokenMetrics, Quotes

The checks of a scan are futures of the loop's task. Their awaits are the two
requests to Metis, so between two answers one check or the loop runs alone:
`AtAwait` guards every resumption. A check is `Begin`, then `Leg1`, `Leg2` or
`Fails` at either, then the verdict (`NotProfitable`, `SamePool`, `Profitable`)
and what the loop does with it (multi-hop and merge drops, or the merged quote).
A plan is the sequence of pools its hops pass, since the guards look at nothing
else: `NoKey` is a hop without an `ammKey`, `Banned` are those with a forbidden
label or program, `NoPlan` stands for JSON without a `routePlan` array.

The reporter of `TokenMetrics` takes down one counter of one token per step
(`Swap`), as the code swaps atomics one by one while checks go on counting,
then writes the window (`Report`) and after `Every` windows the sum (`Summarise`). A
mint listed twice is counted at its last position only (`get`). The date in the
file's name is computed by recursive functions over years and months, as
`now_iso` loops. `total`, `told` and `summed` are history. The time between windows is
left out: a window may begin whenever the last has ended.

### AltTables

Each worker builds a transaction at its own pace: `Begin` (picks the tip account
and the tables), for each table `Again` (named before, and passed over), `Hit`, or `Miss`, `Fetch` (or `FetchFails`) and
`Insert`, then `Compile` and `Finish`. `Fetch` answers with the table as it is on the chain or was at any
earlier time. `Miss` and `Insert` are the two lock
acquisitions of `get_or_fetch`, with the RPC between them. `Extend` is the owner
of a table appending an address on the chain at any time. What `try_compile` does
with the copies (`LookedUp`, `TableOf`, `IndexOf`) and what the chain finds at a
position (`Resolved`) are external and modelled from the Solana SDK calls the
code makes. Tables that are closed on the chain, sizes, data and signatures are
left out; `Metis` answers come from the set `Swap`.

### Scanner

An entry is one (amount, token, mode) of one scan: `StartQuote`, then `NotQuoted` or
`Quoted`, the outcomes whose reasons are in `Quotes`; the loop takes one result at a time (`DropQuoted`, `TakeQuoted`) and tries
`Tier1`, `CheckHops` and `Tier2`, `Tier3`. A Tier-3 task is `MetisFails`, or
`MetisAnswers`, `insert_route`, `record_hops`, `PushAnswer`. Quotes advance only while
the loop waits, since they are futures of its task; Metis tasks advance at any
time. A template's data is a string of digits that holds the amount and the
output between other digits, so the search of `discover_offsets` may find them
elsewhere, find them twice, or not find the output. Each instruction remembers
the plan Metis built it from, which the code does not see and the properties
compare with. The store loses a route at any time (`Evict`), which is all that
`TemplateStore`'s generations do to it; its locks and its flushes are there.
Assumed, as src/template_cache.rs:280-281 says: when Metis writes another output
than asked, the amount and the asked output do not also stand side by side by
accident. Counters are totals over all windows of the reporter, and the increments between
which a task does not wait are one step, so the balances are those between such steps.

A hop without an `ammKey`, `inputMint` or `outputMint` is `NoKey`: `record_hops` passes over it
and `check_hops` counts it as missing, so `HopsKnown` says that Tier 2 opens for the learned
routes without such hops and for no other. What the process loads is one of `Disk`: any routes
that earlier processes learned, with offsets or without, pairs and hops; `Past` are the amounts
those asked for and the tip plus fee they had then. `serve_route` ignores the output its caller passes
and adds to the new amount what the template's output exceeded its own amount by: a template of
another fee keeps the floor of that fee. `InstructionsRight` says just that: both numbers are
replaced, by the entry's amount and by that amount's floor under the fee of the process
that asked for the template.

### AccountCache

The contents of an account are the slot of its last write, one write to a slot. The chain
writes (`Write`) or skips a slot (`Skip`). The subscription task is `Connects`, `StreamEnds`,
`Reconnect`, and for each update `StoreSlot` and `InsertUpdate`, two accesses to shared
state. What an update may be is `TellsNext`: the node of a connection tells of the chain's writes
in the order of their slots (`told` is how far it is), and at any moment of a write on a fork that the chain abandons, in
a slot the chain skips, since the subscription is at commitment *processed*. A new connection starts
wherever its node is, which may be behind what an earlier one has told. So
`stream_slot`, which takes the slot of every update, goes back and forth, and so does the
simulators' clock. `get_or_fetch` is
`Look`, `Answered` or `AskFails`, `InsertFetched`, run by main's prefetch and by the
simulations alike. A simulation goes on with `Lock`, `LoadSlot`, `Warp`, an
`Inject` per account, `Simulated`. `lost` and `hidden` are history: the keys whose
newest write no subscription told, and the streamed ones whose copy a fetch overwrote; `fallen` and
`falling` too: that `stream_slot` went back since a simulation last read it, and that it
had when it was last read. `ClockBackWithStream` says that there is no second way for the clock to
go back, as there would be if a slot were read outside the mutex.
Assumed: a node tells the chain's writes in slot order, and updates are well formed. An RPC
may answer with any past state of the chain, as `RpcClient::new` reads finalized accounts.
The pool's simulators share nothing, so
one is modelled. No other code calls `simulate` today; the subscription and the
prefetch run whenever `simulation.enabled`.

## 3. Runs

| run | question | bounds |
|---|---|---|
| `rate_limiter` | is every second within the rate, every refusal justified, and does a limiter that is asked keep granting? | rate 3, four ticks a second, five tickets |
| `dispatcher` | do LIFO, semaphore and gauge agree under every interleaving, and is the promise kept? | 3 items, 2 workers, rates of one, two ticks a second, `MaxAge` 2 |
| `dispatcher_live` | does every opportunity end, and how many bundles can leave within one second? | 3 items, 1 worker, the gRPC path off |
| `store` | one copy, recent use survives, index faithful; does a saved hop stay saved unless its file could not be read, and does a route go on serving what it could serve? | 3 routes, one of them over a hop pair, capacity 1, templates that cannot be patched, two amounts, one DEX file, one restart |
| `jito_auth` | does a token ever expire because of one failure; does a region recover? | the times of the code in ticks of 5 s, tokens of 450 s and 700 s |
| `alt_tables` | do lookups hold, are copies faithful, are locks counted exactly? | 2 workers, 2 tables of up to 3 addresses, 2 swaps, one of which names a table twice |
| `scanner` | is what is pushed right for its amount; do the counters add up; does every entry end? | 2 entries, 3 routes of which 2 share their pools, numbers of two bits, two layouts of the data, 4 settings, one route with a hop that lacks a key; on disk nothing, one route or two, with or without an offset, of this fee or of a fee of 0 |
| `account_cache` | for which reasons may a copy be old; can a settled one go back; does a cached account cost an RPC; does the clock go back without the stream? | a streamed pool and a fetched mint, 2 simulations, 2 slots that the chain writes or skips, any number of reconnections, a constant backoff, as sleeps take no time here |
| `submission` | is the hash as recent as the node allows, is the report true, does the cache recover, does a worker with a slot come free? | 1 REST and 2 gRPC endpoints, build, interval and call of a tick, 2 misses counted, timeout of 2 ticks |
| `quotes` | is a merged quote sound; do the books of a token add up; is a window never off by more than what is under way; are dates right? | the free and the direct check of a token, plans of one or two pools, forbidden, keyless or no array, outputs at the margin and above, summaries of 2 windows, 1100 days from the epoch and the ends of February in 2000, 2015 and 2100 |
| `dispatcher_doomed`, `alt_tip` | where the code does other than its comments say | section 6 |

Why these bounds are enough: the hazards of the dispatcher need two workers
(one between two steps of the other) and a third item so that the LIFO holds
one while both workers hold theirs; rates of one make both limiters fill at
once; ages matter up to one beyond the limit. The store's rotation needs more
routes than one generation holds; with a capacity of one every push of another
route rotates, so three routes meet hit, promotion, rotation and eviction around
a flush and a restart, and the proofs cover every capacity. One second is two ticks or more so that
the boundary and its interior are different instants. The access token of
`jito_auth` outlives the longest sleep, so every bound of `SleepFor` is met, and
the refresh token dies during a later sleep than the access token, so both ways
of renewing are taken. The tables of `alt_tables` share an address, so an account
may be found in either; one starts empty, with or without the tip account, and
grows while workers hold older copies. In `scanner` one entry can learn the route
by which the other is served, by the same tier or by the other, or both can ask
Metis at once; with two bits to a number, the layouts give data where the first
match is not the field, where the amount is found twice, and where the pair is.
Two slots of `account_cache` after the first let the stream tell a write, then a fork, or a node that
lags tell an earlier slot again, and let the stream bring an older update after a fetch
brought the newer one, or be overwritten by a fetch, in the same behaviour. In
`submission` the RPC client's timeout is 30 s, a hundred ticks, and one tick in the
instance; `HashRecent` is a formula in `CallTime` and proved for every value. Two gRPC
regions are needed for one to accept while the other refuses, is skipped or is
silent. In `quotes` the two checks of one token overlap with each other and with the
reporter between any two counters of the token.

Items and workers are symmetric, and so are the properties of `dispatcher` (its
refinement is a property of steps); `alt_tables` uses the symmetry of workers,
`account_cache` that of simulations, `store` that of its two routes of a single hop and of
amounts (its properties are invariants and properties of steps). No run with
liveness uses symmetry.

### Fairness

`Tick` is weakly fair: the clock does not stop. A push that has begun finishes:
it is three statements without an `await`. Each worker is weakly fair: tokio
schedules every runnable task, and the requests it awaits time out after one
second (`src/jito.rs`, `src/jito_grpc.rs`). Weak fairness of one worker does not
promise it a permit, for which workers compete; `EveryItemSettles` holds because
some worker gets it. Nothing is assumed of arrivals, of which there are finitely
many.

In `scanner` the loop with its quotes is one weakly fair task, and each Metis task
another: their requests end within `quote_timeout_ms`. Evictions are not fair.

In `submission` the clock, the refresh task, the caller of `send_bundle`, the
build and the worker are weakly fair; no node, engine or network owes an answer. Start-up is
not fair, since a handshake may hang: `WorkerReleased` speaks of a worker that has taken a slot, `RpcRecovers` of
the refresh task, which is spawned before the regions are connected.
That a build ends is justified by the RPC client's timeout, its only await being
the tables it fetches. `RpcRecovers` supposes that the node answers from some moment on.

In `rate_limiter` the clock is weakly fair, and so is asking: `EventuallyGrants` is about a limiter that somebody goes on
asking, as the dispatcher's workers do with a requeued item every 20 ms. Which answer is given is the code's. In `jito_auth` the
clock, the refresh loop and the first connection are weakly fair: a task that
may run does, and a sleep ends. The service is not fair: `Recovers` supposes
that from some moment on it answers.

## 4. Proofs

Every theorem holds for all values of the constants under the modules' named
assumptions (`LimiterAssumption`, `DispatcherAssumption`, `StoreAssumption`:
finite sets, naturals, a positive second or capacity; `AuthAssumption`: the
margin covers a failed round, and a fresh token outlives margin and shortest
sleep; `QuotesAssumption`: the fees are positive, as the two constants in
`src/arbitrage.rs` are, lists are sequences, the entries of a scan are finitely many, and
their tokens are on the list, as `main` passes one list to both sides; `AltAssumption` and
`ScannerAssumption`: what the constants are, accounts and entries being finitely many;
`DiskAssumption`: the files hold routes that earlier processes could have saved, and pairs that lead to routes over them).

An induction over data is one over a set of numbers: `Least` (a set of naturals that is not
empty has a least element) comes from the library's facts on well-founded relations, which
need no operator, and `Induct` follows. `BundleProofs` and `QuotesProofs` use them, for
`retain`, for sums over a list and for the loops of the calendar.

- **RateLimiterProofs.** The invariant says that the list holds exactly the grants
  of the last second *or older ones not yet purged*; the bound on the window
  alone is not inductive, since a grant is decided from the list and not from
  the history. From it follow `TypeCorrect`, `WindowRemembered`, `WindowBounded`,
  and the step simulation of `ImplementsSlidingWindow`.
- **DispatcherProofs.** `PermitBalance` and `GaugeBalance` count workers and
  pushes at each step, so the proof is about how cardinalities of those sets
  change; lemmas do it once for all actions. `PopFindsItem` is not inductive
  alone: it follows from the balance, as a worker at "permitted" is counted
  among what covers the LIFO. `NothingTwice` needs in addition that an item not
  yet pushed, or finished with, is nowhere.
  `BurstBound` speaks of what is handed over within a second, and a slot may be older than
  that by the length of a build. `CarriedBound` closes the gap: for every
  k ≤ `SECOND`, what was handed over in the last k ticks or is in a worker's hands with its
  slot, but got that slot k ticks ago or more, is at most one item per worker. Time
  carries it from k to k + 1; at k = `SECOND` the rest are the grants of one window.
  `KeepsPromise`: every step of the dispatcher is a step of
  `DispatchPromise` or a stutter. The stage of an item is defined by where it is;
  two more invariants, that nothing pushed is lost before it ends (`NothingLost`)
  and that it has a slot exactly while its worker builds or sends (`SlotsFit`), let
  it be read off the item's own record, which only six of the steps change.
  The windows come from the limiters' invariant: the list that `try_acquire` purges is
  the window that the promise counts.
- **TemplateStoreProofs.** `RecentUseSurvives` needs a strengthening: the number
  of pushes since a rotation bounds how idle a hot route can be, and a cold
  route is less than a capacity idle more. `GrowthBounded` needs that each
  generation is within the capacity or what was loaded. `IndexNeverMisleads`
  is about memory, what the flush task holds, and the files, together. `SavedHopsAreKept`: memory and
  what the flush task holds have every saved hop but those of the files missed at the last start.

- **BundleProofs.** *Tables.* Every copy, in the cache, on its way or in a worker's hands, is
  what `retain` leaves of a beginning of the table on the chain (`Faithful`), which is what an RPC, however
  late its answer, can have returned: so `CopyFaithful`. A
  table only grows, and what is left of a longer beginning starts with what is left of
  a shorter one (`KeptPrefix`), so a position that held when it was computed still holds: `LookupsHold`.
  `LocksExact`: different accounts are looked up at different positions of the copies
  (`PositionsDiffer`), so the positions counted are as many as the accounts they stand for.
  *Tokens.* That one failed round never lets the token expire depends on
  how much of its life each step has used up. The strengthening `Lead` bounds
  from below how far the token outlives the timer, at each step of the loop and
  for each number of failed rounds: the whole margin at first, less the calls,
  the pause and the shortest sleep after a failure. `AuthAssumption` is what
  keeps that positive: 60 s > 10 s + 30 s + two rounds of calls.

- **ScannerProofs.** What `discover_offsets` returns is where Metis put the two numbers
  (`DiscoverRight`), so what `patch_amounts` makes of the data is what Metis would have
  built for that amount (`PatchRight`), and so is what `serve_route` returns
  (`ServeRight`), for every width and base of the numbers and every data around them. With
  the invariant that all templates and answers under way are right (`StoreRight`), each for the amount and
  the fee it was asked with, this gives
  `InstructionsRight`. `HopsKnown` follows the route from its insertion to its hops, and no hop without a key
  is ever recorded.
  `FunnelBalances` is inductive with three more equations between counters
  (`Funnel`): each step takes one entry from one place to the next and counts it on both
  sides of each balance or on neither.

- **AccountCacheProofs.** Types, `NoRpcForCached`, `ClockBackWithStream` and `SettledStays`
  follow from one invariant. What it adds to the properties:
  what an asker has still to look for and does not
  find was missing when it began; unless `stream_slot` went back since it was last read
  (`fallen`), it is not below what was read, and unless it had gone back by then (`falling`), the slot read under
  the mutex is not below the simulator's clock, which fails for a second reader without the
  mutex; and no simulation runs before the prefetch is over.
  `CacheAssumption` only says what the constants are. `MissingOnlyIfFailed` needs to know of every
  simulation, at each of its steps, where each account of its transaction is: in the cache, among those that
  could not be fetched, not yet come to, or injected (`AllAccountedFor`). `LiveUnlessLostOrHidden` needs `Told`:
  a streamed account's newest write is in the cache, being stored or still to be told, unless
  the write fell between two connections, a fetch came over a newer copy, or the copy is of an abandoned fork; the two
  history variables `lost` and `hidden` say the first two, and there is no fourth way.

- **SubmissionProofs.** `HashRecent` speaks of the hash while a transaction is built,
  but its reason is in the cache: `Fresh` bounds the cached hash's age at every
  moment of the refresh task by the failures in a row, the period, the calls and
  the time of the present round; the worker's copy inherits the bound and ages with
  the build. `ReportTruthful` follows from `Told`, which ties how each future ended
  to what its engine decided, and the regions asked to the regions opened.

- **QuotesProofs.** `CandidatesSound`: what has been judged is carried along
  (`Judged`), as nothing is looked at again between the verdict and the merge; the
  rest is about the two plans in a row. `BooksBalance` needs that a cell still
  to be taken in this pass has nothing taken (`Untaken`), or its swap would lose what was
  there. `VerdictsKeepUp` needs two more: that no two checks are between their
  counts at once (`Alone`, from the guard `AtAwait` of every resumption), so that what was counted is
  one verdict behind at most (`Verdict`); and `Lag`, which follows a pass through the five
  counters of a token: having taken the routes and not yet the verdicts, it is the
  totals of the latter that cover them, and these only grow. That `Order` puts the
  verdicts last is what makes it go through.
  `BooksAgree` holds at awaits only; `Agreed` holds always, and says by how many checks the two
  sets of books differ in between: those at a verdict and those at the loop. A sum over the tokens
  is a recursion over the list, and a token counts at one position of it (`OnePosition`), so a
  count adds to one sum what it adds to the cell (`SumGrows`).
  `StampsRight`: the loops of `epoch_days_to_ymd` are recursive functions, so that they have a value
  at all is the first thing to show (`YearLoopExists`, `MonthLoopExists`: the year and the month in
  which a day lies solve the two recursions); then that they stop, by induction, in that year and month.

Proved and not run: `GrowthBound`, `PermitBalance`, `GaugeNotNegative`,
`RemembersTheWindow`, and the type invariants of `RateLimiter`, `Dispatcher`,
`TemplateStore`, `JitoAuth`, `AccountCache` and `Submission`. TLC checked each of them, as
part of the inductive invariants, before it was proved.

Every invariant and every property of steps that a run checks is proved. Model-checked only: all
liveness (`EventuallyGrants`, `EveryItemSettles`, `Recovers`, `EveryEntryEnds`,
`RpcRecovers`, `WorkerReleased`), which needs fairness and `ENABLED` and is out of the prover's reach.
The two runs of section 6 are counterexamples and have nothing to prove.

## 5. What is not modelled

- `src/metrics.rs`: its counters are in `Quotes` and `Scanner` where they are
  incremented; the reporter that prints them is I/O.
- The bytes of JSON, Borsh and HTTP, and what they cost in time.
- Start-up parsing (`config.rs`, `dex_accounts.rs`, `program_registry.rs`, `tokens.rs`,
  `wallet.rs`): read once, without state; their values are constants here.
- The list of entries of a scan, which is computed in floating point.
- What a simulation finds: vendored LiteSVM. No code calls `simulate` today.
- `src/bin/alt_loader.rs`, `scripts/`, `proto/`: separate tools and generated code.

## 6. Where the code differs from its own words

Each of these has a run that finds it, under the name in parentheses.

1. A transaction over 64 account locks is dropped *after* it took its slot,
   though three comments say that the drop saves the slot (`NoSlotForDoomed`).
2. `get_or_fetch` removes the tip accounts from a table's copy to keep them out of
   the lookups, and so shifts the position of every account behind them: on the
   chain those lookups name other accounts, the tip account among them
   (`TipsStayOut`). In tables without tip accounts positions hold
   (`LookupsHold`).

Seen while modelling, without a run: the store outgrows "hot+cold ≤ 2×" after a
restart, as loading puts both generations into one (`GrowthBound` is the proved
bound that holds); an empty `auth_keypair` is said to fall back to no
authentication (src/config.rs:137-139), but `read_keypair("")` fails and leaves REST
alone; `metis_req_sent`, "Total HTTP requests sent" (src/metrics.rs:9-10), counts two requests up front
even when the second is never sent; a bundle whose request times out counts
as dropped although its engine may have accepted it; hops without an `ammKey` are
invisible to the guard against shared pools; a `min_profit_lamports` below the fees
would send bundles that cannot reach their floor; a step below one lamport makes
the list of entries endless; `queue_max_age_ms` is looked at only on a
pop, so under arrivals that never stop the bottom of the LIFO is neither sent nor
dropped; a fetch may overwrite a newer streamed copy, which then stays old until
the account is written again, as does one written while the stream reconnects
and a copy of an abandoned fork until then too (`LiveUnlessLostOrHidden` says there is no other way); the simulators'
clock follows `stream_slot` back to the slot of a fork or of a node that lags (src/account_cache.rs:216); a hop file that
cannot be read at the start is overwritten by the next flush without what it held (src/template_cache.rs:628-643, 763); a
route loaded from disk is served with the tip and fee of the process that learned it, as `serve_route` ignores
`_new_out`; a region that hangs in the handshake keeps the process from starting (src/jito_grpc.rs:143-153); an account that does not
exist is asked for again by every simulation; a simulation reads its clock before
its accounts and each account by itself; the tables it injects are never fetched
(src/litesvm_sim.rs:196-203); slots are granted before the build, so
bundles of two seconds may leave within one (`BurstBound` is the bound that
holds); when both limiters are full the opportunity is requeued and not
dropped; a hop pair whose first route was evicted is not found again although a
route over it is stored, since `or_insert` never replaces the entry
(src/template_cache.rs:501); the comment of `scan_all_tokens` says that Tier 2 only
counts, while it serves (src/arbitrage.rs:462-464, 582-594); and an answer to `RefreshAccessToken` without a token is logged with "will
re-auth", but the loop sleeps and asks for a refresh again.

## 7. What is left

1. `Scanner` over `TemplateStore` and `Quotes` themselves instead of its abstractions of them,
   or a proof that these abstractions are implemented.
2. Proofs: that the abstractions of item 1 are implemented, step by step, as
   `KeepsPromise` does for the dispatcher; action properties of `Scanner` and `AltTables`
   (what is pushed is never changed; a transaction is compiled once), once a run checks them.
