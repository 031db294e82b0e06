---------------------------- MODULE MCLiveControl ----------------------------
(* TLC instance of LiveControl. *)
EXTENDS LiveControl, TLC

Symmetry == Permutations(Servers)
=============================================================================
