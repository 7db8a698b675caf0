------------------------------- MODULE Broadcast -------------------------------
(***************************************************************************)
(* One call of send_bundle: src/jito.rs and src/jito_grpc.rs send the same *)
(* bundle to several block engines at once and go by the answers alike.    *)
(*                                                                         *)
(* The futures are polled by the caller only, so nothing takes an answer   *)
(* once the call has returned.  A request that left cannot be called back: *)
(* its engine may decide after the caller has stopped waiting, or never    *)
(* get it.  What is in a request and an answer is left out, the access     *)
(* token too: an engine accepts a bundle or refuses it as it likes.        *)
(***************************************************************************)
EXTENDS Naturals

CONSTANTS Region,   \* REST endpoints and gRPC regions
          TIMEOUT   \* of a request: a second

VARIABLES asked,    \* the regions of this call
          call,     \* of a region: how its future ended, if it has
          engine,   \* of a region: what its block engine decided
          elapsed,  \* ticks since the call began
          report    \* what the call returned, if it has

sendVars == <<asked, call, engine, elapsed, report>>

SendInit ==
    /\ asked = {}
    /\ call = [r \in Region |-> "idle"]
    /\ engine = [r \in Region |-> "none"]
    /\ elapsed = 0 /\ report = "none"

Ends(r, how) == call' = [call EXCEPT ![r] = how]
Returns(what) == report' = what /\ UNCHANGED <<asked, call, engine, elapsed>>

-----------------------------------------------------------------------------
\* Faulty variants of the definitions below, for the mutation runs.

\* `?` on the first result
TakeErrReturns(r) ==
    /\ report = "sending" /\ call[r] = "waiting" /\ engine[r] = "refused"
    /\ Returns("failed")

\* the requests have no timeout
ExpireNever(r) ==
    /\ report = "sending" /\ elapsed = TIMEOUT /\ call[r] = "waiting"
    /\ engine[r] = "refused"
    /\ Ends(r, "silent")
    /\ UNCHANGED <<asked, engine, elapsed, report>>

-----------------------------------------------------------------------------
\* send_bundle: the first next() polls every future, and every request leaves.
Start(regions) ==
    /\ asked' = regions
    /\ call' = [r \in Region |-> IF r \in regions THEN "waiting" ELSE "idle"]
    /\ engine' = [r \in Region |-> "none"]
    /\ elapsed' = 0 /\ report' = "sending"

\* A block engine decides, whether or not anybody still waits for it.
Decide(r) ==
    /\ r \in asked /\ engine[r] = "none"
    /\ \E d \in {"accepted", "refused"} : engine' = [engine EXCEPT ![r] = d]
    /\ UNCHANGED <<asked, call, elapsed, report>>

\* Ok(id) => return Ok(id): the other futures are dropped.
TakeOk(r) ==
    /\ report = "sending" /\ call[r] = "waiting" /\ engine[r] = "accepted"
    /\ Returns("sent")

\* Err(e) => last_err = Some(e)
TakeErr(r) ==
    /\ report = "sending" /\ call[r] = "waiting" /\ engine[r] = "refused"
    /\ Ends(r, "refused")
    /\ UNCHANGED <<asked, engine, elapsed, report>>

\* The connection breaks or cannot be opened, or the answer is unreadable.
Break(r) ==
    /\ report = "sending" /\ call[r] = "waiting"
    /\ Ends(r, "silent")
    /\ UNCHANGED <<asked, engine, elapsed, report>>

\* The request times out, its engine having decided or not.
Expire(r) ==
    /\ report = "sending" /\ elapsed = TIMEOUT /\ call[r] = "waiting"
    /\ Ends(r, "silent")
    /\ UNCHANGED <<asked, engine, elapsed, report>>

\* None: every future has failed, or there was none; the last error returns.
GiveUp ==
    /\ report = "sending" /\ \A r \in asked : call[r] # "waiting"
    /\ Returns("failed")

\* The worker takes the result; what engines decide from now on nobody learns.
Forget ==
    /\ asked' = {} /\ elapsed' = 0 /\ report' = "none"
    /\ call' = [r \in Region |-> "idle"]
    /\ engine' = [r \in Region |-> "none"]

send_bundle == (\E r \in Region : TakeOk(r) \/ TakeErr(r) \/ Expire(r)) \/ GiveUp

\* The clock: no timer of a waiting caller runs past its end.
Pass ==
    /\ report = "sending" => elapsed < TIMEOUT
    /\ elapsed' = IF report = "sending" THEN elapsed + 1 ELSE elapsed
    /\ UNCHANGED <<asked, call, engine, report>>
=============================================================================
