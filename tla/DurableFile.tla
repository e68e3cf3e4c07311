---------------------------- MODULE DurableFile ----------------------------
(***************************************************************************)
(* What store/atomic.py promises about one path: its readers see a         *)
(* sequence of whole documents, and a crash of the machine may take back   *)
(* only documents whose writer had not been told that they were stored.    *)
(***************************************************************************)
EXTENDS Naturals, Sequences

CONSTANT Documents

VARIABLES
  history,    \* documents published at the path, oldest first
  durable,    \* how many of them no crash can take back
  promised    \* documents whose write returned to its caller

vars == <<history, durable, promised>>

Init == history = <<>> /\ durable = 0 /\ promised = {}

\* A document replaces its predecessor in one step.
Publish ==
  /\ \E d \in Documents : history' = Append(history, d)
  /\ UNCHANGED <<durable, promised>>

\* Everything published so far is durable, and one writer is told so.
Promise ==
  /\ durable' = Len(history)
  /\ \E k \in 1..Len(history) : promised' = promised \cup {history[k]}
  /\ UNCHANGED history

\* A power loss takes back any number of the documents not yet durable.
TakeBack ==
  /\ \E k \in durable..Len(history) :
       /\ history' = SubSeq(history, 1, k)
       /\ durable' = k
  /\ UNCHANGED promised

Next == Publish \/ Promise \/ TakeBack

Spec == Init /\ [][Next]_vars
=============================================================================
