---------------------------- MODULE MCControlLease ----------------------------
(* TLC instance of ControlLease: two instances, tokens that run out, and a  *)
(* clock long enough for a lease to expire and be taken over.               *)
EXTENDS ControlLease, TLC

Symmetry == Permutations(Servers)

=============================================================================
