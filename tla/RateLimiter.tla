----------------------------- MODULE RateLimiter -----------------------------
(***************************************************************************)
(* src/rate_limiter.rs: the non-blocking sliding-window limiter that sits  *)
(* before each Jito submission path.                                       *)
(*                                                                         *)
(* The code keeps a Vec<Instant> and compares an Instant only with "one    *)
(* second before now".  The model keeps the age of each entry instead, in  *)
(* clock ticks (SECOND ticks to a second) and saturated at SECOND, since   *)
(* all instants a second old or older are treated alike.  An entry also    *)
(* carries the ticket of the call that pushed it, so that two calls at the *)
(* same instant are two entries; the order of the Vec is never used.       *)
(*                                                                         *)
(* try_acquire takes &mut self and every caller holds the Mutex around the *)
(* limiter, so a call is one step.                                         *)
(***************************************************************************)
EXTENDS Integers, FiniteSets

CONSTANTS Ticket,        \* identities of the calls
          MaxPerSecond,  \* max_per_second
          SECOND         \* clock ticks in a second

ASSUME LimiterAssumption ==
    /\ MaxPerSecond \in Nat
    /\ SECOND \in Nat \ {0}

VARIABLES timestamps,  \* the Vec<Instant>, as entries [ticket, age]
          granted,     \* history: every call granted in the last second, with its age
          answer       \* history: what the last call returned

vars == <<timestamps, granted, answer>>

Entry == [ticket : Ticket, age : 0 .. SECOND]

-----------------------------------------------------------------------------
\* Faulty variants of the definitions below, for the mutation runs.

\* retain(|t| t >= one_sec_ago): keeps an entry one instant too long.
RetainedTooLong(entries) == { t \in entries : t.age <= SECOND }

\* the window is one tick short of a second
RetainedTooShort(entries) == { t \in entries : t.age < SECOND - 1 }

\* the retain is skipped
RetainedNever(entries) == entries

-----------------------------------------------------------------------------
\* timestamps.retain(|&t| t > one_sec_ago)
Retained(entries) == { t \in entries : t.age < SECOND }

\* timestamps.len() < max_per_second
HasRoom(entries) == Cardinality(entries) < MaxPerSecond

Init ==
    /\ timestamps = {}
    /\ granted = {}
    /\ answer = TRUE

\* A ticket names one call: it is not reused while an entry carries it.
Fresh(c) == \A t \in timestamps \cup granted : t.ticket # c

\* try_acquire returns true: the purged list has room and gains `now`.
Acquire(c) ==
    /\ Fresh(c)
    /\ HasRoom(Retained(timestamps))
    /\ timestamps' = Retained(timestamps) \cup {[ticket |-> c, age |-> 0]}
    /\ granted' = granted \cup {[ticket |-> c, age |-> 0]}

\* try_acquire returns false; the purge happens all the same.
Refuse ==
    /\ ~ HasRoom(Retained(timestamps))
    /\ timestamps' = Retained(timestamps)
    /\ UNCHANGED granted

try_acquire(c) ==
    \/ Acquire(c) /\ answer' = TRUE
    \/ Refuse /\ answer' = FALSE

\* An instant recedes by one tick, and stops ageing at one second.
Older(t) == [t EXCEPT !.age = IF t.age < SECOND THEN t.age + 1 ELSE t.age]

\* The monotonic clock advances.
Advance ==
    /\ timestamps' = { Older(t) : t \in timestamps }
    /\ granted' = { Older(g) : g \in {h \in granted : h.age + 1 < SECOND} }

Tick == Advance /\ UNCHANGED answer

Next == Tick \/ \E c \in Ticket : try_acquire(c)

Spec == Init /\ [][Next]_vars

\* The clock never stops and the dispatcher keeps asking.
FairSpec == Spec /\ WF_vars(Tick) /\ WF_vars(\E c \in Ticket : try_acquire(c))

-----------------------------------------------------------------------------
\* Shape of the state, and the Vec never outgrows the capacity
\* RateLimiter::new reserves for it (with_capacity(max_per_second)).
TypeOK ==
    /\ timestamps \subseteq Entry
    /\ granted \subseteq [ticket : Ticket, age : 0 .. SECOND - 1]
    /\ answer \in BOOLEAN
    /\ IsFiniteSet(timestamps)
    /\ Cardinality(timestamps) <= MaxPerSecond

\* Between them the states of a behaviour end every one-second window, so
\* this says that no window of one second contains more than
\* max_per_second grants, however the calls fall in it.
WindowBound == Cardinality(granted) <= MaxPerSecond

\* The lazily purged list and the true history agree on the last second:
\* no grant is forgotten while it still counts.
RemembersTheWindow == Retained(timestamps) = granted

\* try_acquire keeps the sliding-window promise: it refuses only when the
\* second that ends at the call is really full, and grants otherwise.
Promise == INSTANCE SlidingWindow
KeepsPromise == Promise!Spec

\* A dispatcher that keeps asking is granted again and again: entries are
\* never stranded in the list (needs max_per_second > 0).
EventuallyGrants == MaxPerSecond > 0 => []<><<answer' = TRUE /\ granted' # granted>>_vars
=============================================================================
