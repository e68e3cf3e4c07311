------------------------------ MODULE MCSeeding ------------------------------
(***************************************************************************)
(* Three tables and foreign keys of at most three columns: a chain, a      *)
(* diamond's half, cycles of one, two and three tables, mixed cycles.      *)
(***************************************************************************)
EXTENDS Seeding

MCTables == 1..3
MCKeyKinds == KeyKind
=============================================================================
