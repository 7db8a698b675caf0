---------------------------- MODULE MCRateLimiter ----------------------------
(* RateLimiter for TLC. *)
EXTENDS RateLimiter, TLC

CONSTANTS c1, c2, c3, c4, c5

Tickets4 == {c1, c2, c3, c4}
Tickets5 == {c1, c2, c3, c4, c5}
=============================================================================
