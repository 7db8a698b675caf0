------------------------------ MODULE Submission ------------------------------
(***************************************************************************)
(* How a bundle that has its slot leaves the process: the gRPC client that *)
(* main connects at start-up (JitoGrpcClient::new), the blockhash that the *)
(* worker takes from BlockhashCache, the build, and the Broadcast over the *)
(* path of the slot.                                                       *)
(*                                                                         *)
(* Workers share the hash and the clients and only read them, so one is    *)
(* modelled, which sends bundle after bundle.  What comes before, the      *)
(* queue and the limiters, is Dispatcher's; what a build does is           *)
(* AltTables's.  A tick is 300 ms.                                         *)
(***************************************************************************)
EXTENDS Naturals

CONSTANTS Rest,       \* jito.urls
          Grpc,       \* jito_grpc.endpoints
          BuildTime,  \* of build_arb_transaction, with the tables it fetches
          Interval, CallTime, MaxMisses, TIMEOUT

ASSUME SubmissionAssumption ==
    /\ Rest \cap Grpc = {}
    /\ BuildTime \in Nat /\ Interval \in Nat /\ CallTime \in Nat /\ TIMEOUT \in Nat
    /\ MaxMisses \in Nat \ {0}

VARIABLES client,  \* the gRPC client: being connected, there, or not
          region,  \* of an endpoint: how its connection went
          worker,  \* the step of the worker
          path,    \* of its slot
          built,   \* ticks its build has taken
          hash,    \* of its transaction: the hash it was given
          age, blank, task, spent, up, misses, heard,
          asked, call, engine, elapsed, report

Endpoint == Rest \cup Grpc
Cache == INSTANCE BlockhashCache
Send == INSTANCE Broadcast WITH Region <- Endpoint

clientVars == <<client, region>>
workerVars == <<worker, path, built, hash>>
cacheVars == <<age, blank, task, spent, up, misses, heard>>
sendVars == <<asked, call, engine, elapsed, report>>
vars == <<clientVars, workerVars, cacheVars, sendVars>>

\* The regions of the client: with or without a token, the channel is open.
Open == { e \in Grpc : region[e] \in {"authed", "no_auth"} }
RegionsOf(p) == IF p = "grpc" THEN Open ELSE Rest

NoHash == [age |-> 0, blank |-> FALSE, misses |-> 0, heard |-> TRUE]

Init ==
    /\ client \in {"off", "connecting"}
    /\ region = [e \in Grpc |-> "untried"]
    /\ worker = "starting" /\ path = "rest" /\ built = 0 /\ hash = NoHash
    /\ Cache!CacheInit
    /\ Send!SendInit

-----------------------------------------------------------------------------
\* async_main: JitoGrpcClient::new, or REST only.

\* read_keypair fails: no region is tried.
NoKeypair ==
    /\ client = "connecting" /\ \A e \in Grpc : region[e] = "untried"
    /\ client' = "off"
    /\ UNCHANGED <<region, workerVars, cacheVars, sendVars>>

\* connect_region: a region that cannot be reached is skipped, one that does
\* not authenticate goes without a token for good.  connect() has no timeout of
\* its own: a region may never get this far, and main waits for it.
connect_region(e) ==
    /\ client = "connecting" /\ region[e] = "untried"
    /\ \E how \in {"skipped", "authed", "no_auth"} : region' = [region EXCEPT ![e] = how]
    /\ UNCHANGED <<client, workerVars, cacheVars, sendVars>>

\* no Jito gRPC regions could be reached: main goes on without gRPC.
Connected ==
    /\ client = "connecting" /\ \A e \in Grpc : region[e] # "untried"
    /\ client' = IF Open = {} THEN "off" ELSE "on"
    /\ UNCHANGED <<region, workerVars, cacheVars, sendVars>>

spawn_workers ==
    /\ worker = "starting" /\ client # "connecting"
    /\ worker' = "idle"
    /\ UNCHANGED <<path, built, hash, clientVars, cacheVars, sendVars>>

-----------------------------------------------------------------------------
\* The worker from its slot to the end of its loop body.

\* A slot of either path, of gRPC only when there is a client; then the hash.
TakeSlot(p) ==
    /\ worker = "idle"
    /\ p = "grpc" => client = "on"
    /\ worker' = "building" /\ path' = p /\ built' = 0
    /\ hash' = [age |-> age, blank |-> blank, misses |-> misses, heard |-> heard]
    /\ UNCHANGED <<clientVars, cacheVars, sendVars>>

\* The build fails, or the transaction is too large or locks too much.
BuildDrop ==
    /\ worker = "building"
    /\ worker' = "idle" /\ built' = 0 /\ hash' = NoHash
    /\ UNCHANGED <<path, clientVars, cacheVars, sendVars>>

HandOver ==
    /\ worker = "building"
    /\ worker' = "sending" /\ built' = 0 /\ hash' = NoHash
    /\ Send!Start(RegionsOf(path))
    /\ UNCHANGED <<path, clientVars, cacheVars>>

Reported ==
    /\ worker = "sending" /\ report \in {"sent", "failed"}
    /\ worker' = "idle"
    /\ Send!Forget
    /\ UNCHANGED <<path, built, hash, clientVars, cacheVars>>

\* The clock.  The hash of a transaction ages while it is built.
Tick ==
    /\ worker = "building" => built < BuildTime
    /\ built' = IF worker = "building" THEN built + 1 ELSE built
    /\ hash' = IF worker = "building" THEN [hash EXCEPT !.age = @ + 1] ELSE hash
    /\ Cache!Advance
    /\ Send!Pass
    /\ UNCHANGED <<worker, path, clientVars>>

-----------------------------------------------------------------------------
start == NoKeypair \/ (\E e \in Grpc : connect_region(e)) \/ Connected \/ spawn_workers
build == BuildDrop \/ HandOver
refresh_task == Cache!refresh /\ UNCHANGED <<clientVars, workerVars, sendVars>>
send_task == Send!send_bundle /\ UNCHANGED <<clientVars, workerVars, cacheVars>>

\* The RPC node, the block engines and the network.
outside ==
    \/ Cache!NodeChanges /\ UNCHANGED <<clientVars, workerVars, sendVars>>
    \/ /\ \E r \in Endpoint : Send!Decide(r) \/ Send!Break(r)
       /\ UNCHANGED <<clientVars, workerVars, cacheVars>>

Next ==
    \/ start \/ (\E p \in {"rest", "grpc"} : TakeSlot(p)) \/ build \/ Reported
    \/ Tick \/ refresh_task \/ send_task \/ outside

Spec == Init /\ [][Next]_vars

\* Time passes, and tasks that can run do.  No answer is owed by anybody, and
\* the start-up is not fair: a region that is silent in the handshake holds main.
FairSpec ==
    /\ Spec
    /\ WF_vars(Tick) /\ WF_vars(refresh_task) /\ WF_vars(send_task)
    /\ WF_vars(build) /\ WF_vars(Reported)

-----------------------------------------------------------------------------
\* The shape of the client, the worker, the cache and the broadcast.
TypeOK ==
    /\ client \in {"off", "connecting", "on"}
    /\ region \in [Grpc -> {"untried", "skipped", "authed", "no_auth"}]
    /\ worker \in {"starting", "idle", "building", "sending"}
    /\ path \in {"rest", "grpc"} /\ built \in 0 .. BuildTime
    /\ hash \in [age : Nat, blank : BOOLEAN, misses : 0 .. MaxMisses, heard : BOOLEAN]
    /\ age \in Nat /\ blank \in BOOLEAN /\ task \in {"waiting", "calling"}
    /\ spent \in Nat /\ up \in BOOLEAN /\ misses \in 0 .. MaxMisses /\ heard \in BOOLEAN
    /\ asked \in SUBSET Endpoint
    /\ call \in [Endpoint -> {"idle", "waiting", "refused", "silent"}]
    /\ engine \in [Endpoint -> {"none", "accepted", "refused"}]
    /\ elapsed \in 0 .. TIMEOUT
    /\ report \in {"none", "sending", "sent", "failed"}

\* Whatever goes on in the refresh task, the hash of a transaction under
\* construction is no older than its node's failures explain, and the time the
\* transaction has been built: one more pause and one more call per failure.
\* It is all zeros only when no call of the process had succeeded yet.
\* (A failure never discards a hash: src/blockhash_cache.rs:34-35, 17.)
HashRecent ==
    worker = "building" =>
        /\ hash.misses < MaxMisses => hash.age <= Cache!Bound(hash.misses) + built
        /\ hash.blank => ~hash.heard

\* What the worker is told is true: "sent" only if a block engine of the path
\* took this bundle, "failed" only if no endpoint of the path that main could
\* open, with a token or without, gave an answer that it took the bundle.  A
\* refusal of one region never hides the acceptance of another.
ReportTruthful ==
    worker = "sending" =>
        /\ report = "sent" =>
               \E r \in IF path = "grpc" THEN Grpc ELSE Rest : engine[r] = "accepted"
        /\ report = "failed" =>
               \A r \in IF path = "grpc" THEN Grpc ELSE Rest :
                   \/ r \in Grpc /\ region[r] = "skipped"
                   \/ call[r] = "silent"
                   \/ call[r] = "refused" /\ engine[r] = "refused"

\* Once the node answers again, the hash is current again and stays so, even
\* after a start without it: the task never gives up, never stays blank.
RpcRecovers == <>[]up => <>[](~blank /\ age <= Cache!Bound(0))

\* No silence of a node, a region or the network holds a worker that has taken
\* a slot for ever: the timeout of a request covers every region it waits for
\* (.timeout in connect_region, and the client of src/jito.rs).
WorkerReleased == worker \in {"building", "sending"} ~> worker = "idle"
=============================================================================
