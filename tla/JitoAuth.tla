------------------------------- MODULE JitoAuth -------------------------------
(***************************************************************************)
(* src/jito_grpc.rs: how one region of the gRPC client gets its tokens and *)
(* keeps them fresh.  Regions share nothing: each has its own channel, its *)
(* own tokens and its own token_refresh_loop, so one is modelled.          *)
(*                                                                         *)
(* Time is counted in ticks.  Of a token the model keeps how long it still *)
(* lives, which is what the code computes from its expiry and the wall     *)
(* clock; the two clocks are taken to agree.  A call has to be answered    *)
(* within the channel's timeout, so the calls of one round of the loop     *)
(* take CallTime ticks at most.  Sends read the tokens and change nothing: *)
(* a send attaches the access token whether or not it has expired.         *)
(*                                                                         *)
(* The names that every module has are prefixed here, so that BundleProofs *)
(* can extend this module together with AltTables.                         *)
(***************************************************************************)
EXTENDS Integers

CONSTANTS Margin,       \* refresh this long before the access token expires: 60 s
          MinSleep,     \* 10 s
          MaxSleep,     \* 300 s
          Retry,        \* after a failed authentication: 30 s
          ReauthBelow,  \* a refresh token that lives shorter is not used: 120 s
          CallTime,     \* a refresh and an authentication: three calls of 1 s
          AccessLife,   \* how long the service makes an access token live
          RefreshLife   \* and a refresh token

ASSUME AuthAssumption ==
    /\ {Margin, MinSleep, MaxSleep, Retry, ReauthBelow, CallTime} \subseteq Nat
    /\ {AccessLife, RefreshLife} \subseteq Nat
    /\ MinSleep <= MaxSleep
    /\ Margin > MinSleep + Retry + 2 * CallTime
    /\ AccessLife >= Margin + MinSleep

VARIABLES at,       \* the step of the region's refresh loop
          timer,    \* ticks until its sleep or its calls are over
          access,   \* ticks the access token still lives
          refresh,  \* ticks the refresh token still lives
          up,       \* whether the auth service answers every call
          misses    \* history: rounds in a row that brought no token, up to two

authVars == <<at, timer, access, refresh, up, misses>>

\* Regions without tokens, and regions with a refresh loop.
Tokenless == {"connecting", "skipped", "no_auth"}
InLoop == {"sleeping", "refreshing", "authenticating", "backoff"}

Lower(m, n) == IF m < n THEN m ELSE n
Higher(m, n) == IF m < n THEN n ELSE m

-----------------------------------------------------------------------------
\* Faulty variants of the definitions below, for the mutation runs.

\* saturating_sub(60) is dropped
SleepForAllOfIt(life) == Lower(MaxSleep, Higher(MinSleep, life))

\* a second failure ends the task, as with `?`
AuthFailsForGood ==
    /\ at = "authenticating" /\ ~up
    /\ at' = "no_loop" /\ timer' = Retry
    /\ misses' = Lower(2, misses + 1)
    /\ UNCHANGED <<access, refresh, up>>

-----------------------------------------------------------------------------
\* saturating_sub(60).max(10).min(300)
SleepFor(life) == Lower(MaxSleep, Higher(MinSleep, life - Margin))

\* The top of the loop: the access token's expiry is read and the task sleeps.
GoToSleep ==
    /\ at' = "sleeping"
    /\ timer' = SleepFor(access')

\* GenerateAuthTokens answers with both tokens.
Authenticated ==
    /\ access' = AccessLife
    /\ refresh' = RefreshLife
    /\ misses' = 0
    /\ GoToSleep

AuthInit ==
    /\ at = "connecting" /\ timer = 0
    /\ access = 0 /\ refresh = 0
    /\ up \in BOOLEAN
    /\ misses = 0

\* connect_region: a region that cannot be reached is skipped; one that does
\* not authenticate now has no tokens and no refresh loop, for good.
connect_region ==
    /\ at = "connecting"
    /\ \/ Authenticated
       \/ /\ ~up
          /\ at' \in {"skipped", "no_auth"}
          /\ UNCHANGED <<timer, access, refresh, misses>>
    /\ UNCHANGED up

\* The sleep is over: a refresh token that is about to expire is not used.
Wake ==
    /\ at = "sleeping" /\ timer = 0
    /\ at' = IF refresh < ReauthBelow THEN "authenticating" ELSE "refreshing"
    /\ timer' = CallTime
    /\ UNCHANGED <<access, refresh, up, misses>>

\* RefreshAccessToken brings a new access token; the refresh token stays.
Refreshed ==
    /\ at = "refreshing" /\ refresh > 0
    /\ access' = AccessLife
    /\ misses' = 0
    /\ GoToSleep
    /\ UNCHANGED <<refresh, up>>

\* RefreshAccessToken succeeds without a token: logged, and round again.
RefreshEmpty ==
    /\ at = "refreshing" /\ ~up
    /\ access' = access
    /\ misses' = Lower(2, misses + 1)
    /\ GoToSleep
    /\ UNCHANGED <<refresh, up>>

\* RefreshAccessToken fails, as it does with an expired refresh token.
RefreshFails ==
    /\ at = "refreshing" /\ (~up \/ refresh = 0)
    /\ at' = "authenticating"
    /\ UNCHANGED <<timer, access, refresh, up, misses>>

AuthSucceeds ==
    /\ at = "authenticating"
    /\ Authenticated
    /\ UNCHANGED up

AuthFails ==
    /\ at = "authenticating" /\ ~up
    /\ at' = "backoff" /\ timer' = Retry
    /\ misses' = Lower(2, misses + 1)
    /\ UNCHANGED <<access, refresh, up>>

\* The loop comes round after the pause: it sleeps once more before it tries.
BackoffOver ==
    /\ at = "backoff" /\ timer = 0
    /\ access' = access
    /\ GoToSleep
    /\ UNCHANGED <<refresh, up, misses>>

token_refresh_loop ==
    \/ Wake \/ Refreshed \/ RefreshEmpty \/ RefreshFails
    \/ AuthSucceeds \/ AuthFails \/ BackoffOver

\* The auth service, or the way to it, fails or recovers.
ServiceChanges ==
    /\ up' = ~up
    /\ UNCHANGED <<at, timer, access, refresh, misses>>

\* A tick passes.  No sleep lasts longer than asked, no call longer than its
\* timeout.
Tick ==
    /\ at \in InLoop /\ timer > 0
    /\ timer' = timer - 1
    /\ access' = Higher(0, access - 1)
    /\ refresh' = Higher(0, refresh - 1)
    /\ UNCHANGED <<at, up, misses>>

AuthNext == connect_region \/ token_refresh_loop \/ ServiceChanges \/ Tick

AuthSpec == AuthInit /\ [][AuthNext]_authVars

\* The clock runs, and the task runs when it may.
AuthFairSpec == AuthSpec /\ WF_authVars(Tick) /\ WF_authVars(token_refresh_loop) /\ WF_authVars(connect_region)

-----------------------------------------------------------------------------
\* The shape of a region: its tokens, and the step and timer of its loop.
AuthTypeOK ==
    /\ at \in Tokenless \cup InLoop
    /\ timer \in 0 .. Higher(MaxSleep, Higher(Retry, CallTime))
    /\ access \in 0 .. AccessLife
    /\ refresh \in 0 .. RefreshLife
    /\ up \in BOOLEAN
    /\ misses \in 0 .. 2

\* No send carries an expired token because of one failed round: the minute
\* in hand covers the calls, the pause of 30 s, the shortest sleep and the
\* calls of the next round.  Only two failed rounds in a row let it expire.
OneMissSurvived == at \in InLoop /\ access = 0 => misses = 2

\* Once the auth service answers for good, a region that ever had tokens has
\* a live one for good, whatever failed before and however long.
Live == at \in InLoop /\ access > 0
NeverHadTokens == at \in {"skipped", "no_auth"}
Recovers == <>[]up => <>[](Live \/ NeverHadTokens)
=============================================================================
