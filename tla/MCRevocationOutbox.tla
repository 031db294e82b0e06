-------------------------- MODULE MCRevocationOutbox --------------------------
(* TLC instances of RevocationOutbox. *)
EXTENDS RevocationOutbox

CONSTANTS w1, w2, w3, o1, o2, c1, c2

\* w1 and w2 are drains of one server, w3 of another.
SharedOwner == [w \in Workers |-> IF w = w3 THEN o2 ELSE o1]
\* All drain for one consumer.
OneConsumer == [w \in Workers |-> c1]
=============================================================================
