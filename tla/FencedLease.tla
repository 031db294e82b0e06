----------------------------- MODULE FencedLease -----------------------------
(***************************************************************************)
(* What the Live control lease promises to the rest of the server: a token *)
(* that only grows, an owner that never changes hands without a new token, *)
(* and an ownership that ends either by the owner giving it up or by the   *)
(* next grant.  ControlLease (the database row and the statements of       *)
(* src/live/lease.rs) implements this specification; LiveSession builds on *)
(* it, because fencing needs nothing else of the lease.                    *)
(***************************************************************************)
EXTENDS Naturals

CONSTANTS Servers,    \* server instances: one random id per process start
          NoServer,   \* a NULL owner
          MaxFence    \* the largest token (i64::MAX in the code)

ASSUME FencedLeaseAssumption == NoServer \notin Servers /\ MaxFence \in Nat

VARIABLES token, owner

lvars == <<token, owner>>

LeaseTypeOK == token \in 0..MaxFence /\ owner \in Servers \cup {NoServer}

LeaseInit == token = 0 /\ owner = NoServer

\* A new ownership always comes with a new token.
Grant(s) ==
  /\ token < MaxFence
  /\ token' = token + 1
  /\ owner' = s

\* The owner gives the lease up; the token stays.
GiveUp ==
  /\ owner # NoServer
  /\ owner' = NoServer
  /\ token' = token

LeaseNext == (\E s \in Servers : Grant(s)) \/ GiveUp

LeaseSpec == LeaseInit /\ [][LeaseNext]_lvars
=============================================================================
