--------------------------- MODULE MCProofBundle ---------------------------
(* Two bundles of one directory; the second has no evidence, and may be of *)
(* a version that is not read.  The first may have redacted parameters.    *)
EXTENDS Reproduction
CONSTANTS b1, b2, parameters, dataset, evidence
ThreeFiles == <<parameters, dataset, evidence>>
FixedFiles == {parameters, dataset}
DeclaredFiles ==
  [b \in Bundles |-> IF b = b1 THEN {parameters, dataset, evidence} ELSE {parameters, dataset}]
AnyTraits == {[b \in Bundles |-> IF b = b1 THEN t ELSE u] :
  t \in {[version |-> TRUE, bindable |-> x, faster |-> TRUE] : x \in BOOLEAN},
  u \in {[version |-> x, bindable |-> TRUE, faster |-> FALSE] : x \in BOOLEAN}}
=============================================================================
