----------------------------- MODULE ControlLease -----------------------------
(***************************************************************************)
(* src/live/lease.rs: the single row of live_control_server_leases and the *)
(* repository's acquire, renew and release as the tasks of the server      *)
(* instances call them (src/live/service.rs).                              *)
(*                                                                         *)
(* acquire and renew are two statements: they read the database clock      *)
(* first and use that value, which may be old by then, in an UPDATE.  A    *)
(* refused acquire reads the row again to find out why.  A caller reads    *)
(* runtime.lease before a call and writes it after the call.  Each of      *)
(* these is one step here, and the two tasks of an instance share only     *)
(* runtime.lease, so everything can happen between two of them.            *)
(***************************************************************************)
EXTENDS Naturals

CONSTANTS Servers, NoServer, MaxFence,
          Ttl,        \* the lease's time to live, in clock ticks
          MaxTime     \* bound on the clock

ASSUME ControlLeaseAssumption ==
  /\ NoServer \notin Servers
  /\ MaxFence \in Nat
  /\ Ttl \in Nat \ {0}
  /\ MaxTime \in Nat \ {0}

VARIABLES
  clock,    \* the database's CURRENT_TIMESTAMP
  row,      \* the persisted lease
  lease,    \* per instance: runtime.lease, NoLease if it is None
  call,     \* per instance and task: the call in progress and what it knows
  released  \* history: the tokens under which the row was given up

vars == <<clock, row, lease, call, released>>

\* "heartbeat" is main while it runs initialize, and the heartbeat afterwards;
\* "session" is the session task, which only ever releases (block_and_release).
Tasks == {"heartbeat", "session"}

NoTime == 0                              \* a NULL timestamp; the clock starts at 1
NoLease == [token |-> 0, expires |-> NoTime]

Rows == [owner: Servers \cup {NoServer}, token: 0..MaxFence, expires: Nat]
Leases == [token: 0..MaxFence, expires: Nat]
Results == {"none", "Held", "FenceExhausted", "InvalidState", "Database"}
Places == {"idle", "acquire", "refused", "sleep", "renew", "lost", "store", "release", "forget"}
Calls == [at: Places, now: Nat, lease: Leases, result: Results]

\* A task at a place of a call, with the time it read and the lease it carries.
At(place, now, copy) == [at |-> place, now |-> now, lease |-> copy, result |-> "none"]
Idle == At("idle", NoTime, NoLease)
Holds(s) == lease[s].token # 0            \* runtime.lease is Some

(* One type invariant for the module. *)
TypeOK ==
  /\ clock \in 1..MaxTime
  /\ row \in Rows
  /\ lease \in [Servers -> Leases]
  /\ call \in [Servers -> [Tasks -> Calls]]
  /\ released \subseteq 0..MaxFence

\* The migration inserts the row with token 0 and no owner.
Init ==
  /\ clock = 1
  /\ row = [owner |-> NoServer, token |-> 0, expires |-> NoTime]
  /\ lease = [s \in Servers |-> NoLease]
  /\ call = [s \in Servers |-> [t \in Tasks |-> Idle]]
  /\ released = {}

Tick == clock < MaxTime /\ clock' = clock + 1 /\ UNCHANGED <<row, lease, call, released>>

\* Task t of instance s goes on with `c'.
Continue(s, t, c) == call' = [call EXCEPT ![s][t] = c]

\* An error comes back.  acquire's makes initialize write None; renew's makes the
\* heartbeat release what runtime.lease holds (mark_lease_lost).
Errors(result) == [at |-> "forget", now |-> NoTime, lease |-> NoLease, result |-> result]
RenewErrors == At("lost", NoTime, NoLease)

-----------------------------------------------------------------------------
\* The heartbeat takes its copy of runtime.lease before it sleeps.
CopyLease(s) ==
  /\ call[s].heartbeat.at = "idle"
  /\ Holds(s)
  /\ Continue(s, "heartbeat", At("sleep", NoTime, lease[s]))
  /\ UNCHANGED <<clock, row, lease, released>>

\* database_now: the first statement of acquire and renew.  An instance acquires
\* while it has no lease.
DatabaseNow(s) ==
  LET c == call[s].heartbeat
  IN /\ \/ /\ c.at = "idle" /\ ~ Holds(s)
           /\ Continue(s, "heartbeat", At("acquire", clock, NoLease))
        \/ /\ c.at = "sleep"
           /\ Continue(s, "heartbeat", At("renew", clock, c.lease))
     /\ UNCHANGED <<clock, row, lease, released>>

\* Mutants of the two definitions below: the fence limit forgotten, a takeover
\* one tick early, an expired row granted again under its old token.
AcquirableUnbounded(s, now) == row.owner \in {s, NoServer} \/ row.expires <= now
AcquirableEarly(s, now) ==
  row.token < MaxFence /\ (row.owner \in {s, NoServer} \/ row.expires <= now + 1)
NextTokenReused(s, now) == IF row.owner = NoServer THEN row.token + 1 ELSE row.token

\* The WHERE clause of acquire's UPDATE, for an instance that read `now'.
Acquirable(s, now) ==
  /\ row.token < MaxFence
  /\ \/ row.owner = NoServer
     \/ row.owner = s
     \/ row.expires <= now

\* The same owner keeps its token while its lease has not expired.
NextToken(s, now) ==
  IF row.owner = s /\ row.expires > now THEN row.token ELSE row.token + 1

\* Mutant of the next definition: the expiry is counted from the answer.
ReturnedLate(token, expires) ==
  At("store", NoTime, [token |-> token, expires |-> clock + Ttl])

\* The caller is handed the lease the row has now, and stores it in a later step.
Returned(token, expires) ==
  At("store", NoTime, [token |-> token, expires |-> expires])

\* acquire's UPDATE.  `answered' is FALSE when the statement took effect and
\* its answer was lost: acquire returns Database and the caller has no lease.
Acquire(s, answered) ==
  LET now == call[s].heartbeat.now
      token == NextToken(s, now)
  IN /\ call[s].heartbeat.at = "acquire"
     /\ Acquirable(s, now)
     /\ row' = [owner |-> s, token |-> token, expires |-> now + Ttl]
     /\ Continue(s, "heartbeat", IF answered THEN Returned(token, now + Ttl)
                                  ELSE Errors("Database"))
     /\ UNCHANGED <<clock, lease, released>>

\* acquire's UPDATE matched no row: current() is read by another statement.
AcquireRefused(s) ==
  /\ call[s].heartbeat.at = "acquire"
  /\ ~ Acquirable(s, call[s].heartbeat.now)
  /\ Continue(s, "heartbeat", At("refused", NoTime, NoLease))
  /\ UNCHANGED <<clock, row, lease, released>>

\* What acquire makes of the row it reads after a refusal.
Refusal ==
  IF row.token = MaxFence THEN "FenceExhausted"
  ELSE IF row.owner # NoServer THEN "Held" ELSE "InvalidState"

Current(s) ==
  /\ call[s].heartbeat.at = "refused"
  /\ Continue(s, "heartbeat", Errors(Refusal))
  /\ UNCHANGED <<clock, row, lease, released>>

\* The row is held by `s' under the token of `copy'.
Owns(s, copy) == row.owner = s /\ row.token = copy.token

\* The WHERE clause of renew's UPDATE, for the copy the heartbeat took.
Renewable(s) ==
  LET c == call[s].heartbeat IN Owns(s, c.lease) /\ row.expires > c.now

Renew(s, answered) ==
  LET c == call[s].heartbeat
  IN /\ c.at = "renew"
     /\ Renewable(s)
     /\ row' = [row EXCEPT !.expires = c.now + Ttl]
     /\ Continue(s, "heartbeat", IF answered THEN Returned(row.token, c.now + Ttl)
                                  ELSE RenewErrors)
     /\ UNCHANGED <<clock, lease, released>>

RenewLost(s) ==
  /\ call[s].heartbeat.at = "renew"
  /\ ~ Renewable(s)
  /\ Continue(s, "heartbeat", RenewErrors)
  /\ UNCHANGED <<clock, row, lease, released>>

\* runtime.lease = Some(...), whatever became of the row and of runtime.lease
\* since the UPDATE.
Store(s) ==
  /\ call[s].heartbeat.at = "store"
  /\ lease' = [lease EXCEPT ![s] = call[s].heartbeat.lease]
  /\ Continue(s, "heartbeat", Idle)
  /\ UNCHANGED <<clock, row, released>>

\* mark_lease_lost, block_and_release and release_on_shutdown copy runtime.lease,
\* release what they found and clear runtime.lease, whatever release returned.
BeginRelease(s, t) ==
  /\ call[s][t].at \in {"idle", "sleep", "lost"}
  /\ Continue(s, t, IF Holds(s) THEN At("release", NoTime, lease[s])
                     ELSE At("forget", NoTime, NoLease))
  /\ UNCHANGED <<clock, row, lease, released>>

\* release frees the row only for the owner and token that hold it.
Release(s, t) ==
  LET c == call[s][t]
  IN /\ c.at = "release"
     /\ IF Owns(s, c.lease)
        THEN /\ row' = [row EXCEPT !.owner = NoServer, !.expires = NoTime]
             /\ released' = released \cup {row.token}
        ELSE UNCHANGED <<row, released>>
     /\ Continue(s, t, At("forget", NoTime, NoLease))
     /\ UNCHANGED <<clock, lease>>

Forget(s, t) ==
  /\ call[s][t].at = "forget"
  /\ lease' = [lease EXCEPT ![s] = NoLease]
  /\ Continue(s, t, Idle)
  /\ UNCHANGED <<clock, row, released>>

\* A statement fails and has written nothing.  A process that dies is one that
\* takes no more steps: its instance id does not come back.
Fail(s, t) ==
  LET at == call[s][t].at
  IN /\ \/ at \in {"acquire", "refused", "release"} /\ Continue(s, t, Errors("Database"))
        \/ at \in {"sleep", "renew"} /\ Continue(s, t, RenewErrors)
     /\ UNCHANGED <<clock, row, lease, released>>

-----------------------------------------------------------------------------
Next ==
  \/ Tick
  \/ \E s \in Servers :
       \/ CopyLease(s)
       \/ DatabaseNow(s)
       \/ \E answered \in BOOLEAN : Acquire(s, answered)
       \/ AcquireRefused(s)
       \/ Current(s)
       \/ \E answered \in BOOLEAN : Renew(s, answered)
       \/ RenewLost(s)
       \/ Store(s)
       \/ \E t \in Tasks : BeginRelease(s, t) \/ Release(s, t) \/ Forget(s, t) \/ Fail(s, t)

Spec == Init /\ [][Next]_vars

-----------------------------------------------------------------------------
Unexpired(copy) == copy.expires > clock

(* KeptUntilGivenUp: while the lease in an instance's runtime.lease has not  *)
(* expired the row is that instance's, under that token, although everyone   *)
(* decides with clock values read earlier; unless the instance itself gave   *)
(* the row up.  A renewal that was under way then puts the lease back after  *)
(* block_and_release cleared it (service.rs:950), so that two unexpired      *)
(* copies can exist; at most one of them was not given up.                   *)
KeptUntilGivenUp ==
  \A s \in Servers :
    Unexpired(lease[s]) => Owns(s, lease[s]) \/ lease[s].token \in released

\* What an instance knows of leases: runtime.lease and what its tasks carry.
Copies(s) == {lease[s]} \cup {call[s][t].lease : t \in Tasks}

(* FenceUnique: a fencing token identifies one instance for ever: two       *)
(* instances never know leases with the same token, and whoever knows the   *)
(* row's token is the row's owner or has released it.                       *)
FenceUnique ==
  \A s \in Servers : \A c \in Copies(s) : c.token # 0 =>
    /\ \A q \in Servers \ {s} : \A d \in Copies(q) : d.token # c.token
    /\ c.token = row.token => row.owner \in {s, NoServer}

(* NoEarlyTakeover: acquire never takes the row from an owner whose lease   *)
(* has not expired at the time of the takeover, and an ownership, once      *)
(* established, is never shortened by a late statement.                     *)
NoEarlyTakeover ==
  [][ /\ row.owner # NoServer /\ row'.owner \notin {row.owner, NoServer}
           => row.expires <= clock
      /\ row.owner # NoServer /\ row'.owner # NoServer
           => row'.expires >= row.expires ]_vars

(* CallsInProgress: a call in progress read the clock in the past, and what *)
(* it will write can only extend the lease of an owner that is calling.     *)
CallsInProgress ==
  /\ row.expires <= clock + Ttl
  /\ \A s \in Servers : LET c == call[s].heartbeat IN
       /\ c.now <= clock
       /\ c.at \in {"acquire", "renew"} /\ row.owner = s => row.expires <= c.now + Ttl

(* CopiesAreBehindRow: no copy runs ahead of the row.                       *)
CopiesAreBehindRow ==
  \A s \in Servers : \A c \in Copies(s) :
    /\ c.token <= row.token
    /\ Owns(s, c) => c.expires <= row.expires

(* CopiesAreKept: KeptUntilGivenUp, also for the copies on their way to      *)
(* runtime.lease.                                                            *)
CopiesAreKept ==
  \A s \in Servers : \A c \in Copies(s) : Unexpired(c) => Owns(s, c) \/ c.token \in released

(* ReleasedIsOver: a token under which the row was given up is never again   *)
(* that of an ownership.                                                     *)
ReleasedIsOver ==
  \A k \in released : k <= row.token /\ (k = row.token => row.owner = NoServer)

(* LeaseInv: the inductive invariant of the lease.                           *)
LeaseInv ==
  /\ TypeOK /\ CallsInProgress
  /\ CopiesAreBehindRow /\ CopiesAreKept /\ FenceUnique /\ ReleasedIsOver

(* Fenced: the row implements the abstract fenced lease.                    *)
Abstract == INSTANCE FencedLease WITH token <- row.token, owner <- row.owner
Fenced == Abstract!LeaseSpec
=============================================================================
