---------------------------- MODULE MCLiveSession ----------------------------
(* TLC instances of LiveSession.                                            *)
EXTENDS LiveSession, TLC

CONSTANTS k1, k2, u1, u2

MCUserOf == [k \in Keys |-> IF k = k1 THEN u1 ELSE u2]
MCOneUser == [k \in Keys |-> u1]

Symmetry == Permutations(Requests)
CreateSymmetry == Permutations(Requests) \cup Permutations(Sessions)

\* A session that was created at time 1 under token 1 and activated since: the
\* start of the runs that are about the life of a session after its creation.
ReadyInit ==
  LET x == CHOOSE x \in Sessions : TRUE
      s == CHOOSE s \in Servers : TRUE
  IN /\ token = 1 /\ owner = s /\ clock = 1
     /\ session = [y \in Sessions |->
           IF y # x THEN NoRecord
           ELSE [state |-> "ready", revision |-> 3, fence |-> 1, token |-> 1,
                 expires |-> 1 + SessionTtl, hard |-> 1 + HardTtl,
                 mode |-> "server_remux", remux |-> NoJob, key |-> k1,
                 until |-> 1 + ReplayTtl]]
     /\ replay = [k \in Keys |->
           IF k # k1 THEN NoRow
           ELSE [session |-> x, body |-> SomeBody, token |-> 1, expires |-> 1 + ReplayTtl]]
     /\ request = [r \in Requests |-> Idle]

\* Empty tables, with the last token and at a time after which nothing expires: the
\* start of a race between creates.
LateInit ==
  /\ token = MaxFence /\ owner = (CHOOSE s \in Servers : TRUE) /\ clock = MaxTime
  /\ session = [x \in Sessions |-> NoRecord] /\ replay = [k \in Keys |-> NoRow]
  /\ request = [r \in Requests |-> Idle]

LifeSpec == (ReadyInit \/ LateInit) /\ [][Next]_vars
=============================================================================
