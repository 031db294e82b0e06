----------------------------- MODULE LiveSession -----------------------------
(***************************************************************************)
(* src/live/session/repository.rs: the playback sessions and their         *)
(* idempotency (replay) rows, as concurrent requests of several control    *)
(* servers change them.                                                    *)
(*                                                                         *)
(* A request first captures `now', a fencing token and a session snapshot, *)
(* and runs its transaction later.  A transaction is one step: each of     *)
(* them starts by updating the lease row, which serialises it with every   *)
(* other one and with a takeover of the lease.  The exception is create,   *)
(* which looks for a replay row before it takes that lock.                 *)
(*                                                                         *)
(* The lease is the abstract FencedLease.  A server that lost the lease    *)
(* keeps its token until it notices, so a request may carry any token that *)
(* was ever granted.                                                       *)
(***************************************************************************)
EXTENDS FencedLease, FiniteSets

CONSTANTS Sessions, NoSession,
          Requests,     \* concurrent repository calls
          Keys,         \* idempotency keys
          Bodies,       \* request identities sent under a key
          Users, UserOf,       \* the user whose key it is: [Keys -> Users]
          ServerTotal, PerUser,                \* LiveSessionLimits
          SessionTtl, HardTtl, ReplayTtl,      \* lifetimes in clock ticks
          Snapshot,     \* TRUE: SQLite, a transaction whose read was overtaken is
                        \* retried.  FALSE: PostgreSQL at READ COMMITTED.
          CreateLock,   \* TRUE: creates come through the handler, which lets one
                        \* at a time of a key into a server.  FALSE: they do not.
          MaxTime, MaxRevision                 \* bounds on the counters

ASSUME LiveSessionAssumption ==
  /\ NoSession \notin Sessions
  /\ Keys # {} /\ Bodies # {} /\ UserOf \in [Keys -> Users]
  /\ ServerTotal \in Nat /\ PerUser \in Nat
  /\ SessionTtl \in Nat \ {0} /\ HardTtl \in Nat \ {0} /\ ReplayTtl \in Nat \ {0}
  /\ Snapshot \in BOOLEAN /\ CreateLock \in BOOLEAN
  /\ MaxTime \in Nat /\ MaxRevision \in Nat

VARIABLES clock,     \* Utc::now of the servers
          session,   \* live_playback_sessions
          replay,    \* live_session_idempotency
          request    \* the calls in progress

svars == <<clock, session, replay, request>>
vars == <<token, owner, svars>>

-----------------------------------------------------------------------------
Terminal == {"ended", "expired", "failed"}
Working == {"resolving", "planning", "provisioning_egress", "starting_remux", "ready",
            "playing", "reconnecting", "refreshing", "failing_over"}
Absent == "absent"                 \* no row with this id yet
Purged == "purged"                 \* its row was deleted; ids are never reused

\* The non-terminal part of SessionState::can_transition_to.
Successors ==
  [resolving |-> {"planning"},
   planning |-> {"provisioning_egress", "starting_remux", "ready"},
   provisioning_egress |-> {"starting_remux", "ready"},
   starting_remux |-> {"ready"},
   ready |-> {"playing", "reconnecting", "refreshing", "failing_over"},
   playing |-> {"reconnecting", "refreshing", "failing_over"},
   reconnecting |-> {"playing", "ready", "refreshing", "failing_over"},
   refreshing |-> {"playing", "ready", "failing_over"},
   failing_over |-> {"planning", "provisioning_egress", "starting_remux", "ready",
                     "playing", "refreshing"}]

CanTransitionTo(from, next) ==
  from \in Working /\ from # next /\ (next \in Terminal \/ next \in Successors[from])

\* The states the two callers of transition ask for: the activation of a new
\* session, and the first heartbeat of a playing one.
AskedStates(state) ==
  CASE state = "resolving" -> {"planning"}
    [] state = "planning" -> {"provisioning_egress", "ready"}
    [] state = "provisioning_egress" -> {"ready"}
    [] state = "ready" -> {"playing"}
    [] OTHER -> {}

NoJob == 0
Modes == {"unmanaged", "server_remux"}   \* client_direct and server_relay are alike here

\* `remux' is the remux job, named by the token of the server that runs it;
\* `key' and `until' record how the session came to be (its replay row's key
\* and expiry) and are never read by the operations.
SessionRecords ==
  [state: Terminal \cup Working \cup {Absent, Purged}, revision: Nat, fence: Nat, token: Nat,
   expires: Nat, hard: Nat, mode: Modes, remux: Nat, key: Keys, until: Nat]

ReplayRows ==
  [session: Sessions \cup {NoSession}, body: Bodies, token: Nat, expires: Nat]

\* A call in progress: of a mutation ("session") or at one of create's stages.
Stages == {"idle", "session", "queued", "lookup", "delete", "create", "insert"}
Calls ==
  [stage: Stages, now: Nat, fence: Nat,
   session: Sessions \cup {NoSession}, revision: Nat, previous: Nat,  \* the snapshot
   key: Keys, body: Bodies, row: ReplayRows]                          \* of a create

(* One type invariant for the module. *)
TypeOK ==
  /\ LeaseTypeOK
  /\ clock \in Nat
  /\ session \in [Sessions -> SessionRecords]
  /\ replay \in [Keys -> ReplayRows]
  /\ request \in [Requests -> Calls]

SomeKey == CHOOSE k \in Keys : TRUE
SomeBody == CHOOSE b \in Bodies : TRUE
NoRow == [session |-> NoSession, body |-> SomeBody, token |-> 0, expires |-> 0]
NoRecord ==
  [state |-> Absent, revision |-> 0, fence |-> 0, token |-> 0, expires |-> 0, hard |-> 0,
   mode |-> "unmanaged", remux |-> NoJob, key |-> SomeKey, until |-> 0]
Idle ==
  [stage |-> "idle", now |-> 0, fence |-> 0,
   session |-> NoSession, revision |-> 0, previous |-> 0,
   key |-> SomeKey, body |-> SomeBody, row |-> NoRow]

Init ==
  /\ LeaseInit
  /\ clock = 1
  /\ session = [x \in Sessions |-> NoRecord]
  /\ replay = [k \in Keys |-> NoRow]
  /\ request = [r \in Requests |-> Idle]

-----------------------------------------------------------------------------
Tick == clock < MaxTime /\ clock' = clock + 1
        /\ UNCHANGED <<token, owner, session, replay, request>>

LeaseStep == LeaseNext /\ UNCHANGED svars

Exists(x) == session[x].state \notin {Absent, Purged}
IsTerminal(x) == session[x].state \in Terminal
IsLive(x, now) ==     \* non-terminal and not expired at `now'
  session[x].state \in Working /\ session[x].expires > now /\ session[x].hard > now
Remaining(a, b) == a - b      \* mutant of the next definition: time left, not a deadline
Min2(a, b) == IF a <= b THEN a ELSE b

\* A handler captures the time, the token its server was granted and, later, a
\* snapshot of the session; what it does with them is decided when it runs.
BeginCall(r, x, fence, now) ==
  /\ request[r].stage = "idle"
  /\ Exists(x)
  /\ request' = [request EXCEPT ![r] =
        [stage |-> "session", now |-> now, fence |-> fence,
         session |-> x, revision |-> session[x].revision, previous |-> session[x].fence,
         key |-> SomeKey, body |-> SomeBody, row |-> NoRow]]
  /\ UNCHANGED <<token, owner, clock, session, replay>>

\* Every error leaves the database as it was: a lost fence or revision, an
\* expired lease or session, a failed statement, a dropped connection.
Refuse(r) ==
  /\ request[r].stage # "idle"
  /\ request' = [request EXCEPT ![r] = Idle]
  /\ UNCHANGED <<token, owner, clock, session, replay>>

Answer(r) == request' = [request EXCEPT ![r] = Idle]
Advance(r, stage) == request' = [request EXCEPT ![r].stage = stage]

-----------------------------------------------------------------------------
\* Mutants: the fence assertion without the token; a rotation that leaves the
\* replay rows; an adoption that keeps the job, one that keeps the revision, one
\* that writes the wrong token.
FencedByAnyOwner(r) == owner # NoServer
ReplaysNotRotated(x, t, now) == replay
AdoptedKeepingJob(s, fence) == [s EXCEPT !.fence = fence, !.revision = @ + 1]
AdoptedSameRevision(s, fence) == [s EXCEPT !.fence = fence, !.remux = NoJob]

\* assert_active_fence_in_transaction; that the lease has not expired at `now'
\* is a reason to Refuse.
Fenced(r) == token = request[r].fence /\ owner # NoServer

\* validate_mutation and the WHERE clause of the UPDATE that follows.
Mutable(r) ==
  LET s == session[request[r].session]
  IN /\ s.fence = request[r].fence
     /\ s.revision = request[r].revision
     /\ IsLive(request[r].session, request[r].now)

\* prepare_rotated_token: the unexpired replay rows carry the new token.
RotatedReplays(x, t, now) ==
  [k \in Keys |-> IF replay[k].session = x /\ replay[k].expires > now
                  THEN [replay[k] EXCEPT !.token = t] ELSE replay[k]]
ReplaysWithout(x) ==
  [k \in Keys |-> IF replay[k].session = x THEN NoRow ELSE replay[k]]

\* A transaction of request r that turns its session into `s'.
Commit(r, s, rows) ==
  /\ Fenced(r)
  /\ s.revision <= MaxRevision
  /\ session' = [session EXCEPT ![request[r].session] = s]
  /\ replay' = rows
  /\ Answer(r)
  /\ UNCHANGED <<token, owner, clock>>

Target(r) == session[request[r].session]

Transition(r, next) ==
  LET s == Target(r)
  IN /\ Mutable(r)
     /\ next \in AskedStates(s.state)
     /\ CanTransitionTo(s.state, next)
     /\ Commit(r, [s EXCEPT !.state = next, !.revision = @ + 1], replay)

Heartbeat(r) ==
  LET s == Target(r)
  IN /\ Mutable(r)
     /\ Commit(r, [s EXCEPT !.expires = Min2(request[r].now + SessionTtl, s.hard),
                            !.revision = @ + 1], replay)

RotateDeliveryToken(r) ==
  LET s == Target(r)
  IN /\ Mutable(r)
     /\ Commit(r, [s EXCEPT !.token = @ + 1, !.revision = @ + 1],
               RotatedReplays(request[r].session, s.token + 1, request[r].now))

\* A recovery walks through a recovery state inside its transaction; a failover
\* passes through planning as well.
RecoveryActions == {"refresh", "failover"}
RecoveryState(action) == IF action = "refresh" THEN "refreshing" ELSE "failing_over"
RecoveryRevisions(action) == IF action = "failover" THEN 3 ELSE 2

ReplaceForRecovery(r, action, mode) ==
  LET s == Target(r)
      last == IF action = "failover" THEN "planning" ELSE "refreshing"
  IN /\ Mutable(r)
     /\ CanTransitionTo(s.state, RecoveryState(action))
     /\ CanTransitionTo(last, "ready")
     /\ Commit(r, [s EXCEPT !.state = "ready", !.revision = @ + RecoveryRevisions(action),
                            !.token = @ + 1, !.mode = mode, !.remux = NoJob],
               RotatedReplays(request[r].session, s.token + 1, request[r].now))

RecordRecoveryFailure(r, action) ==
  LET s == Target(r)
      resume == IF s.state = "playing" THEN "playing" ELSE "ready"
  IN /\ Mutable(r)
     /\ CanTransitionTo(s.state, RecoveryState(action))
     /\ CanTransitionTo(RecoveryState(action), resume)
     /\ Commit(r, [s EXCEPT !.state = resume, !.revision = @ + 2], replay)

\* Binding a job and clearing it leave the revision alone.
BindRemuxJob(r) ==
  LET s == Target(r)
  IN /\ Mutable(r)
     /\ s.mode = "server_remux"
     /\ s.remux \in {NoJob, request[r].fence}
     /\ Commit(r, [s EXCEPT !.remux = request[r].fence], replay)

ClearRemuxJob(r) ==
  LET s == Target(r)
  IN /\ s.fence = request[r].fence /\ s.remux = request[r].fence
     /\ Commit(r, [s EXCEPT !.remux = NoJob], replay)

\* Ending a session tombstones its secrets (the delivery token is replaced by
\* one nobody has) and removes its replay rows.  It needs no unexpired session.
Terminate(r, reason) ==
  LET x == request[r].session
      s == session[x]
  IN /\ s.state \in Working
     /\ s.revision = request[r].revision /\ s.fence = request[r].fence
     /\ Commit(r, [s EXCEPT !.state = reason, !.revision = @ + 1, !.token = @ + 1,
                            !.remux = NoJob, !.expires = Min2(s.hard, request[r].now)],
               ReplaysWithout(x))

TerminateAgain(r) ==
  IsTerminal(request[r].session) /\ Commit(r, Target(r), ReplaysWithout(request[r].session))

Adopted(s, fence) == [s EXCEPT !.fence = fence, !.revision = @ + 1, !.remux = NoJob]

\* A new control server takes a session over from the fence it saw.
AdoptControlFence(r) ==
  LET s == Target(r)
  IN /\ request[r].previous < request[r].fence
     /\ s.state \in Working
     /\ s.revision = request[r].revision
     /\ s.fence = request[r].previous
     /\ Commit(r, Adopted(s, request[r].fence), replay)

\* Key rotation rewrites the envelopes of a session and its replay rows.  A session
\* whose own envelopes are current keeps its revision, and of what is modelled
\* nothing changes: that call ends as a refused one does.
Reencrypt(r) ==
  LET s == Target(r)
  IN /\ s.fence = request[r].fence /\ s.revision = request[r].revision
     /\ s.state \in Working
     /\ Commit(r, [s EXCEPT !.revision = @ + 1], replay)

\* The last transaction of cleanup: expired replay rows, and terminal sessions
\* past their retention (7 days, longer than any other time here: any moment).
Sweep(r, gone) ==
  LET kept(k) == replay[k].expires > request[r].now /\ replay[k].session \notin gone
  IN /\ Fenced(r)
     /\ \A x \in gone : IsTerminal(x)
     /\ session' = [x \in Sessions |->
                      IF x \in gone THEN [session[x] EXCEPT !.state = Purged] ELSE session[x]]
     /\ replay' = [k \in Keys |-> IF kept(k) THEN replay[k] ELSE NoRow]
     /\ Answer(r)
     /\ UNCHANGED <<token, owner, clock>>

-----------------------------------------------------------------------------
\* The create handler: it captures the time, then queues for the lock of its
\* key (per server, hence per token), and reads the token under it.
BeginCreate(r, key, body) ==
  /\ request[r].stage = "idle"
  /\ request' = [request EXCEPT ![r] =
        [Idle EXCEPT !.stage = "queued", !.now = clock, !.key = key, !.body = body]]
  /\ UNCHANGED <<token, owner, clock, session, replay>>

\* Mutant: the lock taken for the insert only.
CreatingAtInsert(q) == request[q].stage = "insert"

Creating(q) == request[q].stage \in {"lookup", "delete", "create", "insert"}

AcquireCreateLock(r, fence) ==
  /\ request[r].stage = "queued"
  /\ CreateLock => \A q \in Requests :
       ~ (Creating(q) /\ request[q].key = request[r].key /\ request[q].fence = fence)
  /\ request' = [request EXCEPT ![r].stage = "lookup", ![r].fence = fence]
  /\ UNCHANGED <<token, owner, clock, session, replay>>

\* What load_replay_in_transaction makes of a row: nothing there, another
\* request under the same key, expired (to be deleted), a session that can no
\* longer be replayed, or the session to return.
Verdict(r, row) ==
  CASE row.session = NoSession -> "missing"
    [] row.body # request[r].body -> "failed"
    [] row.expires <= request[r].now -> "stale"
    [] OTHER -> IF /\ IsLive(row.session, request[r].now)
                   /\ session[row.session].token = row.token
                THEN "replayed" ELSE "failed"

\* lookup_idempotency.  It deletes an expired row without asking for the fence;
\* the handler goes on to create when it returned nothing.
LookupIdempotency(r) ==
  LET row == replay[request[r].key]
      verdict == Verdict(r, row)
  IN /\ request[r].stage = "lookup"
     /\ \/ verdict = "missing" /\ Advance(r, "create")
        \/ /\ verdict = "stale"
           /\ request' = [request EXCEPT ![r].stage = "delete", ![r].row = row]
        \/ verdict \in {"replayed", "failed"} /\ Answer(r)
     /\ UNCHANGED <<token, owner, clock, session, replay>>

\* Mutants: an overtaken snapshot goes unnoticed, by every statement or by the
\* DELETE of an expired row (a transaction of its own, say).
OvertakenNever(r) == FALSE
DeletesAnyRow(r) == TRUE

\* SQLite refuses to write on a snapshot that was overtaken.
Overtaken(r) == Snapshot /\ replay[request[r].key] # request[r].row

\* The DELETE runs in the transaction that found the row expired.
DeletesRowItRead(r) == ~ Overtaken(r)

\* It names the key only: it removes whatever row is there by now.
DeleteExpired(r) ==
  /\ request[r].stage = "delete"
  /\ DeletesRowItRead(r)
  /\ replay' = [replay EXCEPT ![request[r].key] = NoRow]
  /\ request' = [request EXCEPT ![r].stage = "create", ![r].row = NoRow]
  /\ UNCHANGED <<token, owner, clock, session>>

\* The first half of create_once, before the fence is locked.
CreateLookup(r) ==
  LET row == replay[request[r].key]
      verdict == Verdict(r, row)
  IN /\ request[r].stage = "create"
     /\ \/ /\ verdict \in {"missing", "stale"}
           /\ request' = [request EXCEPT ![r].stage = "insert", ![r].row = row]
        \/ verdict \in {"replayed", "failed"} /\ Answer(r)
     /\ UNCHANGED <<token, owner, clock, session, replay>>

\* create retries a transaction that was overtaken.
CreateRetry(r) ==
  /\ request[r].stage = "insert" /\ Overtaken(r)
  /\ Advance(r, "create")
  /\ UNCHANGED <<token, owner, clock, session, replay>>

\* Mutant: one session too many.
HasCapacityOffByOne(key, now) ==
  Cardinality({y \in Sessions : IsLive(y, now)}) <= ServerTotal

\* enforce_capacity_in_transaction
HasCapacity(key, now) ==
  LET live == {y \in Sessions : IsLive(y, now)}
  IN /\ Cardinality(live) < ServerTotal
     /\ Cardinality({y \in live : UserOf[session[y].key] = UserOf[key]}) < PerUser

Inserting(r) == request[r].stage = "insert" /\ ~ Overtaken(r) /\ Fenced(r)

NewSession(r, mode) ==
  LET now == request[r].now
  IN [state |-> "resolving", revision |-> 1, fence |-> request[r].fence, token |-> 1,
      expires |-> Min2(now + SessionTtl, now + HardTtl), hard |-> now + HardTtl,
      mode |-> mode, remux |-> NoJob, key |-> request[r].key, until |-> now + ReplayTtl]

\* The second half of create_once, under the fence.  A row found expired was
\* deleted by the same transaction, by its key.
CreateInsert(r, x, mode) ==
  LET k == request[r].key
      now == request[r].now
  IN /\ Inserting(r)
     /\ HasCapacity(k, now)
     /\ replay[k].session = NoSession \/ request[r].row.session # NoSession
     /\ session[x].state = Absent
     /\ session' = [session EXCEPT ![x] = NewSession(r, mode)]
     /\ replay' = [replay EXCEPT ![k] = [session |-> x, body |-> request[r].body,
                                         token |-> 1, expires |-> now + ReplayTtl]]
     /\ Answer(r)
     /\ UNCHANGED <<token, owner, clock>>

CreateAtCapacity(r) ==
  /\ Inserting(r)
  /\ ~ HasCapacity(request[r].key, request[r].now)
  /\ Answer(r)
  /\ UNCHANGED <<token, owner, clock, session, replay>>

\* The insert met a row another create put there: roll back, load that one.  An
\* expired one is an error here (RevisionChanged), and its deletion rolled back.
LoadReplayAfterRace(r) ==
  LET row == replay[request[r].key]
  IN /\ Inserting(r)
     /\ HasCapacity(request[r].key, request[r].now)
     /\ row.session # NoSession /\ row # request[r].row
     /\ Answer(r)
     /\ UNCHANGED <<token, owner, clock, session, replay>>

-----------------------------------------------------------------------------
\* The operations on a session.
Operation(r) ==
  \/ \E next \in Working : Transition(r, next)
  \/ Heartbeat(r)
  \/ RotateDeliveryToken(r)
  \/ \E action \in RecoveryActions, mode \in Modes : ReplaceForRecovery(r, action, mode)
  \/ \E action \in RecoveryActions : RecordRecoveryFailure(r, action)
  \/ BindRemuxJob(r)
  \/ ClearRemuxJob(r)
  \/ \E reason \in Terminal : Terminate(r, reason)
  \/ TerminateAgain(r)
  \/ AdoptControlFence(r)
  \/ Reencrypt(r)
  \/ \E gone \in SUBSET Sessions : Sweep(r, gone)

Create(r) ==
  \/ \E k \in Keys, b \in Bodies : BeginCreate(r, k, b)
  \/ \E f \in 1..token : AcquireCreateLock(r, f)
  \/ LookupIdempotency(r)
  \/ DeleteExpired(r)
  \/ CreateLookup(r)
  \/ CreateRetry(r)
  \/ \E x \in Sessions, mode \in Modes : CreateInsert(r, x, mode)
  \/ CreateAtCapacity(r)
  \/ LoadReplayAfterRace(r)

Step(r) ==
  \/ \E x \in Sessions, f \in 1..token, now \in 1..clock : BeginCall(r, x, f, now)
  \/ request[r].stage = "session" /\ Operation(r)
  \/ Create(r)
  \/ Refuse(r)

Next == Tick \/ LeaseStep \/ \E r \in Requests : Step(r)

Spec == Init /\ [][Next]_vars

-----------------------------------------------------------------------------
(* FencedWrites: a session row is only ever written on behalf of the token  *)
(* the lease carries at that moment, while it has an owner: a server that   *)
(* lost the lease, however late its transaction runs, writes nothing of     *)
(* what the repository writes.                                              *)
FencedWrites ==
  [][ \A x \in Sessions : session'[x] # session[x] /\ session'[x].state # Purged
        => session'[x].fence = token /\ owner # NoServer ]_vars

(* SessionOrder: what every reader of a session may rely on.  Its fence,    *)
(* revision and delivery-token revision never go back, a terminal session   *)
(* stays as it ended, and whatever changes besides the remux binding comes  *)
(* with a new revision.                                                     *)
SessionOrder ==
  [][ \A x \in Sessions : LET s == session[x] t == session'[x] IN
        /\ t.fence >= s.fence /\ t.revision >= s.revision /\ t.token >= s.token
        /\ s.state \in Terminal => t \in {s, [s EXCEPT !.state = Purged]}
        /\ t.revision = s.revision /\ t.state # Purged => t = [s EXCEPT !.remux = t.remux]
    ]_vars

(* FenceBehindLease: no session carries a token the lease never granted.    *)
FenceBehindLease == \A x \in Sessions : session[x].fence <= token

(* ReplayValid: a replay row names a session created under its key that has *)
(* not ended, and until it expires it carries that session's present        *)
(* delivery token, through every rotation, recovery, adoption and ending.   *)
(* That the session has not expired is for the retry to see (Verdict).      *)
ReplayValid ==
  \A k \in Keys : replay[k].session # NoSession =>
    LET s == session[replay[k].session]
    IN /\ s.state \in Working
       /\ s.key = k
       /\ replay[k].expires > clock => replay[k].token = s.token

(* JobOfCurrentServer: a remux job bound to a session is one the server     *)
(* holding the session's fence runs, and an ended session has none: no job  *)
(* is left behind by a takeover, a recovery or an ending.                   *)
JobOfCurrentServer ==
  \A x \in Sessions :
    /\ session[x].remux \in {NoJob, session[x].fence}
    /\ session[x].remux # NoJob => session[x].state \in Working /\ session[x].mode = "server_remux"

(* CallsAreStale: a call carries a time of the past, and one on a session    *)
(* names a session and a token that was granted.                             *)
CallsAreStale ==
  \A r \in Requests :
    /\ request[r].now <= clock
    /\ request[r].stage = "session" => request[r].session \in Sessions /\ request[r].fence > 0

(* AbsentIsBlank: an id that is not in the table yet has no version.         *)
AbsentIsBlank ==
  \A x \in Sessions : session[x].state = Absent =>
    session[x].revision = 0 /\ session[x].fence = 0 /\ session[x].token = 0

(* SessionInv: the inductive invariant of the sessions.                      *)
SessionInv ==
  /\ TypeOK /\ CallsAreStale /\ AbsentIsBlank
  /\ FenceBehindLease /\ ReplayValid /\ JobOfCurrentServer

(* AdmissionRespectsCapacity: a session is admitted only while fewer than   *)
(* the limits are live at the moment it is inserted, although create counts *)
(* with the time it captured before the provider was asked.                 *)
Created(x) == session[x].state = Absent /\ session'[x].state # Absent
AdmissionRespectsCapacity ==
  [][ \A x \in Sessions : Created(x) =>
        /\ Cardinality({y \in Sessions : IsLive(y, clock)}) < ServerTotal
        /\ Cardinality({y \in Sessions : IsLive(y, clock)
                          /\ UserOf[session[y].key] = UserOf[session'[x].key]}) < PerUser
    ]_vars

(* OneSessionPerKey: while a session created under an idempotency key is    *)
(* working and its replay window is open, no other session is created       *)
(* under that key, although creates of several servers overlap and delete   *)
(* the expired row by its key.  It takes a database that refuses to write   *)
(* on an overtaken snapshot.                                                *)
OneSessionPerKey ==
  [][ \A x, y \in Sessions :
        Created(x) /\ session[y].state \in Working /\ session[y].key = session'[x].key
          => session[y].until <= clock ]_vars

(* DuplicateGetsReplay: while the replay window of a create is open, a       *)
(* duplicate of it is answered with the session, never with a capacity      *)
(* error caused by the session it duplicates (session/tests.rs,             *)
(* p10_concurrent_duplicate_coalesces_before_capacity_is_consumed).         *)
DuplicateGetsReplay ==
  [][ \A r \in Requests : CreateAtCapacity(r) =>
        LET row == replay[request[r].key]
        IN ~ (row.session # NoSession /\ row.body = request[r].body
              /\ row.expires > request[r].now
              /\ IsLive(row.session, request[r].now)) ]_vars
=============================================================================
