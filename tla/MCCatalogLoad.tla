---------------------------- MODULE MCCatalogLoad ----------------------------
(* TLC instances of CatalogLoad. *)
EXTENDS CatalogLoad

CONSTANTS k1, k2, k3, c1, c2

\* All keys are requests for one operation of one provider.
OneCircuit == [k \in Keys |-> c1]
\* The first two keys share a circuit, the third has another.
TwoCircuits == [k \in Keys |-> IF k = k3 THEN c2 ELSE c1]
==============================================================================
