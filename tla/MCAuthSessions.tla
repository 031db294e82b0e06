--------------------------- MODULE MCAuthSessions ---------------------------
(* TLC instance of AuthSessions. *)
EXTENDS AuthSessions
=============================================================================
