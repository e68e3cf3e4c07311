------------------------------- MODULE MCStore -------------------------------
(* What is written under .pgproof, in two parts that are taken one at a time: *)
(* two writers of one path, with three writes in all; and two sessions of one *)
(* project, whose callers make any calls at all, after a finish too, with one *)
(* stage, one shared artifact and two recordings of it before the result, or  *)
(* one such session beside two calls of clean --runs.                         *)
EXTENDS AtomicWrite, CleanRuns, TLC

CONSTANTS w1, w2, r1, r2, s1, a1

VARIABLE part    \* "write" or "session": the other stays as it began

storeVars == <<part, writeVars, cleanVars>>

\* A clean meets one run only: none of its steps, and no write of a run, is about another.
Unused(r) == phase[r] = "open" /\ events[r] \o unlogged[r] = <<>> /\ entries[r] \o unlisted[r] = <<>>
Bounded == cleans > 0 => \E r \in Runs : Unused(r)

MCInit == part \in {"write", "session"} /\ WriteInit /\ InitClean

MCNext ==
  /\ UNCHANGED part
  /\ \/ part = "write" /\ WriteNext /\ UNCHANGED cleanVars
     \/ part = "session" /\ NextClean /\ Bounded' /\ UNCHANGED writeVars

MCSpec == MCInit /\ [][MCNext]_storeVars

\* Nothing tells the two runs apart; ManifestIsFinal is about single steps.
AnyOrder == Permutations({r1, r2})
=============================================================================
