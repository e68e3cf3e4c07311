--------------------------- MODULE MCDecisionLog ---------------------------
(* Up to three requests about two recommendations, and up to two reviews.     *)
EXTENDS DecisionLog, TLC

CONSTANTS q1, q2, q3, c1, c2, e1, e2

Perms == Permutations(Requests) \cup Permutations(Recommendations)
=============================================================================
