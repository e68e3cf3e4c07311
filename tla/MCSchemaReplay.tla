--------------------------- MODULE MCSchemaReplay ---------------------------
(***************************************************************************)
(* Every graph of three revisions with up to two down_revisions each,      *)
(* known or not; the upgrades are run for the chain of the three.          *)
(***************************************************************************)
EXTENDS SchemaReplay, TLC
CONSTANTS r1, r2, r3, ghost

MCTables == {"a", "b"}
MCChain == (r1 :> <<>>) @@ (r2 :> <<r1>>) @@ (r3 :> <<r2>>)

\* The tables are alike: the first statement, which creates one, creates "a".
FirstIsA == count = 1 /\ upgrade # <<>> => upgrade[1].s.table = "a"

MCSpec ==
  /\ ReplayInit /\ [][ReplayNext /\ FirstIsA']_<<vars, replayVars>>
  /\ WF_<<vars, replayVars>>(Next /\ UNCHANGED replayVars)
=============================================================================
