---------------------------- MODULE SlidingWindow ----------------------------
(***************************************************************************)
(* What a rate limiter promises to its callers, without saying how it      *)
(* remembers: a call is granted exactly when fewer than MaxPerSecond calls *)
(* were granted during the second that ends now.                           *)
(*                                                                         *)
(* Time is relative: a grant carries its age in clock ticks, and one       *)
(* second is SECOND ticks.  A grant is forgotten when it is a second old.  *)
(***************************************************************************)
EXTENDS Integers, FiniteSets

CONSTANTS Ticket,        \* identities of the calls
          MaxPerSecond,  \* grants allowed in any second
          SECOND         \* clock ticks in a second

VARIABLES granted,  \* the grants of the last second: [ticket, age]
          answer    \* what the last call returned

Init == granted = {} /\ answer = TRUE

\* Time passes; what was granted a full second ago no longer counts.
Tick ==
    /\ granted' = { [g EXCEPT !.age = @ + 1] : g \in {h \in granted : h.age + 1 < SECOND} }
    /\ UNCHANGED answer

Grant(c) ==
    /\ Cardinality(granted) < MaxPerSecond
    /\ granted' = granted \cup {[ticket |-> c, age |-> 0]}
    /\ answer' = TRUE

Refuse ==
    /\ Cardinality(granted) >= MaxPerSecond
    /\ answer' = FALSE
    /\ UNCHANGED granted

Next == Tick \/ Refuse \/ \E c \in Ticket : Grant(c)

Spec == Init /\ [][Next]_<<granted, answer>>
=============================================================================
