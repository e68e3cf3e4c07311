----------------------------- MODULE MCCapture -----------------------------
(* Two captures of one project, which share schema.json and workload.json.  *)
(* They are alike: nothing but their own files tells one from the other.    *)
EXTENDS Capture, TLC

CONSTANTS r1, r2

Perms == Permutations(Runs)
=============================================================================
