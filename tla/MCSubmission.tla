------------------------------ MODULE MCSubmission ------------------------------
(* Constants of Submission for TLC. *)
EXTENDS Submission

CONSTANTS r1, g1, g2
Rests == {r1}
Grpcs == {g1, g2}
=============================================================================
