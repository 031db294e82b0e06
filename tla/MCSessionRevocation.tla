------------------------- MODULE MCSessionRevocation -------------------------
(* TLC instance of SessionRevocation. *)
EXTENDS SessionRevocation

CONSTANTS s1, s2, t1, t2

\* One place for each server.  The task of s1 polls in it; that of s2 has returned when
\* the startup is over, and handlers take its place.
MCServerOf == [d \in Drains |-> IF d = t1 THEN s1 ELSE s2]
==============================================================================
