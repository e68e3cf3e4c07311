------------------------------ MODULE MCReview ------------------------------
(* Reviews and what is decided of them, in two parts that are taken one at a  *)
(* time: two reviewers with one model and one migration; and three requests   *)
(* about two recommendations beside two reviews.                              *)
EXTENDS ReviewCache, MCDecisionLog

CONSTANTS r1, r2, m1, v1

VARIABLE part    \* "cache" or "log": the other stays as it began

projectVars == <<part, vars, logVars>>

MCInit ==
  /\ part \in {"cache", "log"} /\ Init /\ InitLog
  /\ part = "cache" => asked = [q \in Requests |-> [recommendation |-> c1, kind |-> "invalid"]]
  /\ part = "log" => tool = 1 /\ contents = [f \in Files |-> 1]

MCNext ==
  /\ UNCHANGED part
  /\ \/ part = "cache" /\ Next /\ UNCHANGED logVars
     \/ part = "log" /\ NextLog /\ UNCHANGED vars

MCSpec == MCInit /\ [][MCNext]_projectVars
=============================================================================
