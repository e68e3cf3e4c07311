------------------------------ MODULE MCRunner ------------------------------
(* What runs in a container, in two parts that are taken one at a time: one   *)
(* container run from outside; and the pytest session that is its command,    *)
(* with two tests, of which the first one's teardown and the second one's     *)
(* setup meet.                                                                *)
EXTENDS ContainerRun, TestSession

CONSTANTS t1, t2, q1, i1, i2

VARIABLE part    \* "container" or "session": the other stays as it began

runnerVars == <<part, containerVars, vars>>

TwoTests == <<t1, t2>>

MCInit == part \in {"container", "session"} /\ InitContainer /\ Init

MCNext ==
  /\ UNCHANGED part
  /\ \/ part = "container" /\ NextContainer /\ UNCHANGED vars
     \/ part = "session" /\ Next /\ UNCHANGED containerVars

\* The fairness is the container's.  Of the other part it says nothing: no behaviour of
\* that part satisfies it, and no liveness property is asked of it.
MCSpec == MCInit /\ [][MCNext]_runnerVars /\ Fairness
=============================================================================
