# Elixir server: Live control, sessions, revocations, logins and catalogue loads in TLA+

This directory specifies the part of elixir-server that decides *who may act*: the
control lease that one server of a deployment holds, the playback sessions that server
writes, the account sessions and refresh tokens they rest on, the revocations that end
them, and the way catalogue requests share calls to a provider. Every definition is translated from the Rust source; PROJECT.json maps each
one to its lines. Paths below are relative to the repository, whose crate is in `src/`.

- `tlc -config X.cfg M` runs a model, `tlapm M.tla` checks the proofs of a module.

## 1. The system and its parts

elixir-server is a home media server in Rust (tokio, axum, sqlx over SQLite or
PostgreSQL). It manages a library, acquires media through extensions that run in
containers, plays it back, and streams live television from provider extensions ("Live").

| part | state it keeps | operations | what is hard about it |
|---|---|---|---|
| control lease, `live/lease.rs` | one row: owner, fencing token, expiry | acquire, renew, release, current | the clock is read in one statement and used in the next; the owner may be dead, slow or paused |
| control service, `live/service.rs`, `main.rs` | per process: lifecycle, the lease it believes it has, three tasks | initialize, heartbeat, session task, block / lose / stop, shutdown | three tasks write one runtime state around awaits; a standby takes over; crashes |
| session repository, `live/session/repository.rs` | sessions (state, revision, fence, delivery token, expiry, remux job) and idempotency rows | create, transition, heartbeat, rotate, recover, bind/clear job, terminate, adopt, re-encrypt, purge | stale tokens, stale snapshots and stale times; replays of a create; limits under concurrency; two databases with different isolation |
| session handlers, `http/handlers/live/sessions.rs` | a create lock per key | create, heartbeat, recover, end, activation | provider calls between reading and writing; the activation outlives its request |
| session lifecycle, `live/session/lifecycle.rs` | none of its own | startup reconciliation, drain of the outbox, sweep | bounded compare-and-swap retries; one error stops the server's control |
| session recovery policy, `live/session/recovery.rs` | events, source health and attempts stored with the session | admit, mark failed, record | limits that age out and limits that do not |
| revocation outbox, `auth/revocation.rs` | events, consumers, receipts with claims | append, register, claim, acknowledge, fail, clean up | claims that expire under their worker; owners shared by several drains; late registration |
| catalogue loads, `live/catalog/{coalesce,circuit,service}.rs` | flights in progress, circuit breakers | run, join, leave, admit, record | waiters leave while others join; late outcomes of old calls; eviction |
| catalogue cache and grants, `live/catalog/{cache,grants,public_keys}.rs` | cache rows, signed grants | read, write, purge | stale-while-revalidate, generations |
| relay, remux, egress, artwork, `live/{relay,remux,egress,artwork}` | flights, jobs, tunnels, permits | serve, start, reconcile, reap | ownership across servers; orphans; quotas |
| providers and upstream, `live/{provider,contract,upstream}` | none between requests | calls, validation, fetch | I/O and parsing |
| administration, `live/admin`, `http/handlers/live/admin.rs` | providers, destinations, keys | changes that append revocations and drain them | the answer may precede the revocation's effect |
| authentication, `auth/{sessions,home_profiles,mod}.rs`, `authz.rs` | sessions, refresh tokens, profiles | login, rotate, switch, revoke | concurrent rotation, reuse detection, locks taken in different orders |
| playback, `playback/` | transcoding jobs | decide, queue, run, reap | job limits, abandoned jobs |
| orchestrator and runtime, `orchestrator/`, `runtime/` | plans, operation lock, containers | plan, execute, reconcile, roll back | one step of several fails |
| downloads and acquisition, `download_broker.rs`, `debrid.rs`, `acquisition/` | jobs, subscriptions, imports, route attempts | claim, poll, import | retries of what was already done |
| library, metadata, anime matching, drivers, extensions, network, HTTP surface, database | rows and adapters | see PROJECT.json | mostly single statements, I/O, parsing, heuristics |

**How they interact.** `main` builds the service, calls `initialize` and spawns the
heartbeat and the session task. `initialize` acquires the lease, reconciles egress and
adopts the sessions of earlier servers under the new fencing token; from then on
`control_fencing_token` hands that token to the handlers. A handler reads a session and the
token, talks to providers, and calls the repository, whose transactions re-check the token
against the lease row. A change of rights (logout, provider disabled, key rotated) appends
a revocation in its own transaction; the session task, or the admin handler that made the
change, drains the outbox and ends the sessions concerned. Catalogue requests do not need
control; they meet in the coalescer and the circuit breakers of a process.

**What makes each part correct.** Lease: nobody loses an unexpired
lease but by its own release, and a token names one holder for ever. Service: control is lost towards the closed side, a standby is
not left waiting. Sessions: no write under an overtaken token, versions only grow, replays
answer with what is true now, capacity and one-session-per-key hold under concurrency.
Outbox: nothing is acknowledged or removed that was not applied, everything is applied in
the end. Lifecycle: a revocation is acknowledged only when its sessions have ended, a server
serves only sessions it has adopted. Authentication: a revoked session has no usable token,
a token is replaced once, a revocation is announced once. Catalogue: one load per key, nobody waits for ever, an abandoned load stops, a
circuit recovers.

## 2. The modules

| module | models | uses |
|---|---|---|
| FencedLease | abstract: a token that grows with every grant, and an owner | |
| ControlLease | the statements of `live/lease.rs` over a clock, and the copies of the lease its callers keep | refines FencedLease |
| LiveControl | `live/service.rs` and `main.rs`: processes and their tasks | FencedLease |
| LiveSession | `live/session/repository.rs` under concurrent requests | FencedLease |
| RevocationOutbox | `auth/revocation.rs`, the drain of `live/session/lifecycle.rs` | |
| SessionRevocation | `live/session/lifecycle.rs` between servers, outbox, sessions and requests | FencedLease |
| AuthSessions | `auth/sessions.rs`, statement by statement, over row locks | |
| CatalogLoad | coalescer, circuit breaker and `load_provider` of `live/catalog` | |
| ControlLeaseProofs, LiveControlProofs, LiveSessionProofs, RevocationOutboxProofs, SessionRevocationProofs, AuthSessionsProofs, CatalogLoadProofs | theorems | the module each names |
| MCControlLease, MCLiveControl, MCLiveSession, MCRevocationOutbox, MCSessionRevocation, MCAuthSessions, MCCatalogLoad | symmetry and the functions a cfg cannot write | the module each names |

The lease is the joint between the Live modules. LiveControl, LiveSession and
SessionRevocation are written over the abstract FencedLease (a grant, a release, nothing about time), and
`LeaseImplementsFencedLease` proves that the statements of `lease.rs` behave like it.
LiveControl adds the one thing it needs to know of time, whether the row has expired.

**ControlLease.** `row` is the lease row, `lease[s]` an instance's `runtime.lease`, and
`call[s][t]` the call that one of its two tasks (the heartbeat, which also acquires, and the
session task, which only releases) has in progress, with the time its first statement read
and the copy of the lease it carries. `acquire` and `renew` are two statements
(`DatabaseNow`, then the conditional UPDATE), and a refused acquire has a third (`Current`),
so anyone can act in between. `runtime.lease` is read before a call (`CopyLease`,
`BeginRelease`) and written after it (`Store`, `Forget`) in steps of their own: a renewal
that was under way while the session task released the row is stored all the same
(`service.rs:947-950`). An UPDATE whose answer is lost took effect (`answered`), which is how
an instance comes to own a row it does not know it owns. `released` is history: the tokens
under which the row was given up.

**LiveControl.** Per process: the `runtime` struct (`life`, `lease`), the OnceCell of the
session lifecycle (`cell`), the shutdown token, and the places of the three tasks, of
which every database await is one. `fate` is the lifecycle a closing task will write after
its release; `held` is the token a task copied before its await. A process that restarts
has a new instance id, so a server starts once and there are several of them. `Faults`
selects what may go wrong: each of the database calls, a crash, and "slow", a lease that
expires while its process is alive. The configuration "Live disabled" (lifecycle
`Disabled`, no task does anything) is left out.

**LiveSession.** `session` and `replay` are the two tables, `request` the calls in
progress: a call captures a time, a token and a session snapshot, and applies its
transaction later. Every mutation is one step because each transaction first updates the
lease row (`verify fence`), which serialises it against the others and against a takeover.
`create` is the exception: its look-up of the idempotency row comes before that lock, so
it is modelled in stages. `Snapshot` chooses the isolation: on SQLite a transaction whose
snapshot was overtaken fails and is retried (`Overtaken`, `CreateRetry`), on PostgreSQL at
READ COMMITTED it goes on with what it read. `CreateLock` says whether creates come
through the HTTP handler, whose per-key lock is taken first. Delivery tokens are counted,
not drawn; a remux job is named by the fencing token of the server that started it.

**RevocationOutbox.** An event, a consumer and a receipt are rows; a worker is a drain,
with what it read of the receipt before its compare-and-set. Time appears only as the
flag that a claim is past its `lease_expires_at`: the attempt number names the deadline.
`ClaimScan` is the limit of `claim_next`'s query. `cleanup_acknowledged_before` is called from
tests only and is modelled because the other operations must be safe against it.

**SessionRevocation.** The composition: what happens between a right that goes and the
sessions that rest on it. `right` is everything `current_invalid_reason` and
`require_play_grant` ask for, `event` the receipt of each revocation, `session` the rows
with their fence, and `drain` a drain in progress with its list, the revisions and fences it
saw (`fresh`, `seen`) and the iterations it has used. A place for a drain serves the startup
pass and the session task of a server, or a handler that changed something. Each await on
the database is a step: claim, list, adopt, check, decrypt, end, reload, acknowledge or fail.
Requests have two steps, what they check and their transaction: a create, a heartbeat, an
end, and a "touch", a transition of the activation task, which does not look at the grant
again. `due` is history: the sessions that were there when the right went. All sessions of
the model belong to the profile the revocations are about, and whether the lease row has
expired without having been taken over is not told apart from a lease that is held.

**AuthSessions.** `session` and `token` are the two tables, `slock` and `tlock` the row
locks of PostgreSQL, `call` the requests with the statement they are at and the writes of their open
transaction, which are committed together or not at all. `refresh_session` is its claim, its
load, the extension of the session and the rotation; a reuse turns it into a revocation of
the family. An UPDATE of several rows locks them one by one and looks at each row again when
it gets the lock, as READ COMMITTED does; rows that appear behind its snapshot are not seen.
A cycle of waiters is broken by failing one of them (`Victim`), whose transaction is rolled
back. Tokens and sessions have a bounded supply; the csrf revision has its limit.

**CatalogLoad.** A flight is named by the request that created it; its task goes from
asking the circuit to calling, completing, sending and removing itself from the map, and
waiters join, leave and receive at any point between. A circuit's `until` is the
difference between "open" and "cooled". Evicting takes any entry of a full table, which is
what an unordered map's first key amounts to.

## 3. What the runs check

All runs are exhaustive; the figures are distinct states.

| run | states | asks |
|---|---|---|
| lease | 742,797 | can an instance lose the row under an unexpired lease other than by its own release, is a lease taken before it expired, is the row a FencedLease |
| control | 443,185 | three processes, two tokens, every fault of the lease: are ready servers told apart by their tokens, does a process that lost control stay out of it, is the fence safe at its maximum |
| control_live | 99,860 | two processes with their session tasks: does an overtaken server notice, is the row given up, does a standby get its turn |
| sessions | 1,215,546 | any two calls with stale times, tokens and snapshots, across a takeover |
| creates | 642,878 | overlapping creates of one key on SQLite around a takeover, without the handler's lock: is a duplicate replayed after it was overtaken, can a key get a second session |
| creates_locked | 649,965 | two keys of one user at READ COMMITTED behind the handler's lock of one server: capacity and duplicates |
| outbox | 284,790 | two events, two consumers, three drains of two servers: receipts, claims, acknowledgements and cleanups, and is a revocation acknowledged in the end |
| revocation | 372,059 | two servers across a takeover, one session, one revocation, one request at a time: what does an acknowledged revocation mean, what does a server that serves own, can a startup be disturbed, does a session without its right end |
| auth | 69,836 | two requests on one account session: what survives a revocation, are there two lines of tokens or two announcements, is the profile that a session left the one that is announced, does every request end |
| catalog | 94,117 | three keys, two of which share a circuit, in a table with room for one: one loader, no abandoned load, is every waiter answered |

**Bounds.** Two servers are enough for every race between an owner and a successor; the
third in `control` is there to find no token left. `MaxFence` is the i64 limit of the fence
brought within reach, so its guard is exercised. In `lease` the clock reaches two and a half
lifetimes: a lease can expire, be taken over, and expire again, while two tasks of each
instance are at work; its invariant was also checked with three tokens and one tick more. In `sessions` the clock
outruns session and replay row, and the revision allows any three mutations after creation.
That run starts from a session that was just created, or from empty tables at the end of the
modelled time, where two creates race (`LifeSpec`). In the create runs a third session lets
a key be used again after its first row expired; in `creates` two tokens let a server that
lost the lease take part. `creates_locked` has one server, because the lock it is about is
one server's, so it does not show what happens between two. Their sessions change by
expiring only. `MaxAttempts` stands for i32::MAX;
`MaxFaults` bounds how often claims expire under their worker, fail or are abandoned, since
each of these costs an attempt and a receipt may fail for ever. In `revocation` one server polls and the other, which took over as a
standby, does not: its place for a drain is free for handlers after its startup, so startup
pass, session task and handler all occur, but a task and a handler of one server are not at
work together; that two drains share an owner name is what `outbox` is about. One session
is enough for the races between a drain and the requests on it, and a bound of two
iterations lets a retry succeed and the retries run out. In `auth` two calls at a
time with three tokens let a token be replaced, its replacement be replaced, and either be
presented again; the revision reaches its limit. A third call would add longer cycles of
waiters, and the proofs do not bound the calls. `Threshold = 1` makes every
counted failure open a circuit, the shortest way into the modes between which the races are.
`CHECK_DEADLOCK FALSE` is given where the system may really stop: all processes have exited,
all drains have ended, all requests are answered.

**Fairness.** A tokio runtime polls every ready task and an await on the database comes
back with a result or an error, so tasks are weakly fair; a database that hangs for ever is
not considered.
The heartbeat's shutdown branch is strongly fair: after a shutdown both branches of its
`select!` can be ready, and tokio picks at random, so the branch is enabled again and
again and cannot lose for ever. Time passes: the row of a process that is gone expires,
claims expire, sessions expire, circuits cool. Row locks are queues, in which a
transaction that waits for a lock is not passed over for ever: the steps of a call in `auth`
are strongly fair. The database's deadlock detection always fails one transaction of a
cycle. A row that is being renewed is not forced to expire. A call to
a provider ends because of its hard timeout. Nothing forces a process to start or stop, a
request to be made or abandoned, a drain that has ended to be restarted, or a fault to
happen. `control_live` leaves out the fault "release": if the release fails as well (its
error is only logged, `service.rs:1115`), a renewal in flight can put the lease back into
a blocked server, which then renews the row for ever, and `GivesUpTheRow` does not hold.

## 4. Where code and description disagree

Two runs check a property that quotes a line of the repository, and fail.

- **retry**: a standby whose takeover failed logs "takeover attempt failed; retrying", but
  it is Blocked by then and the heartbeat returns. No fault is needed: `acquire` reports
  "Live control lease has invalid persisted state" (`lease.rs:143`) when the owner releases
  between its UPDATE and its second read, although the row is valid and free.
- **catalog_half_open**: a probe that is cancelled, or ends in an error that is not counted,
  leaves the circuit half-open, which nothing but an eviction or a restart ends.

Other things the models and their reading of the source showed, none of them a property
of a run:

- Two instances can have an unexpired lease in `runtime.lease` at the same time, after one
  of them released it: until it clears the field (`service.rs:1112-1121`), or for good when a
  renewal that was under way puts the lease back (950). The field alone does not say who has
  control; the token does, and KeptUntilGivenUp says that nothing but the own release can
  bring an instance there.
- A duplicate create on PostgreSQL that does not pass the handler's lock (another server's
  does not) is refused for want of the capacity its own twin used; the test
  `p10_concurrent_duplicate_coalesces_before_capacity_is_consumed` runs on SQLite, where
  the overtaken transaction is retried. `creates_locked` with CreateLock = FALSE shows it.
- A request that joins a flight after its last waiter left and before the flight is gone
  is answered with the cancellation of that load.
- A call from before a circuit opened that fails late, while the circuit is half-open, opens
  it again, and after the cool-down a second probe runs beside the first. What does hold is
  ProbeOrLost.
- A server that started as a standby never runs its session task (`service.rs:996`: the
  lifecycle it needs is only created by an `initialize` that got the lease), so after a
  takeover nobody polls the outbox there.
- At READ COMMITTED the unguarded deletion of an expired idempotency row
  (`repository.rs:1757`) can remove a row that a new create just wrote: around a takeover,
  where the two creates come from different servers, one key can have two sessions. The
  deletion asks for no fence, so the server that was overtaken takes part in it
  (OneSessionPerKey under the constants of `creates_locked` with MaxFence = 2 shows it; the
  run `creates` shows that SQLite refuses such a deletion, and `KeysAreUsedOnce` says what
  excludes it elsewhere).
- The replay window of a key is 300 seconds and a session may live for a day, so a session
  outlives its window: a repeated create after that is a new create, counted against the
  session it once created. DuplicateGetsReplay speaks of the open window.
- A drain treats a session that ended meanwhile as done, except in one place: if a client
  ends its session between `list_nonterminal` and `decrypt_secrets` (`repository.rs:403`),
  the drain fails with Expired, and if it is the session task's, `block_and_release` takes
  the server out of control. StartupUndisturbed shows that a startup cannot meet this.
- The same way eight lost compare-and-swaps, or one acknowledge after the claim expired,
  end the control of a server.
- A drain lists the 10,000 oldest sessions that have not ended. Expired rows count, and only
  a startup ends them: behind 10,000 abandoned rows a revocation is acknowledged without its
  sessions having ended (AcknowledgedEnds with ListLimit below MaxSessions). Their expiry is
  what is left.
- A session whose creation looked at the grant before it went and is committed after the
  revocation was applied is not ended by it. It is refused every heartbeat and expires
  (RevokedEnds).
- The deadlock of a refresh and a logout may end with the failure of the transaction that
  revokes a reused family: the reuse is answered with an error and the session lives on.
- A login that verified the old password before a reset committed inserts its session after
  the reset revoked the others (`http/handlers/auth.rs:171`); and the token UPDATE of a
  revoke-all (`sessions.rs:566`), whose snapshot is later than that of its session UPDATE,
  can revoke the token of a login that came between, whose session stays.
- Outside the modules: in `playback/jobs.rs` two `start`s of one session can both find no
  job (911) and insert one each (1028), and two jobs that need two permits each can hold one
  and wait for the other (1473); `recovery.rs:311` never forgets a source it tried;
  `cleanup_acknowledged_before` has no caller but tests.

## 5. What is proved

The proofs hold for every set of servers, requests, sessions, keys, events, consumers and
workers and every value of the limits; the only assumptions are the named ASSUMEs of the
modules (the "none" value of a set is not in it, limits are naturals, functions have their
types, there is a key) and two hypotheses about behaviours, which the theorems that need them
name: `LiveWithinLimit` and `Serialized`, below. TLC has checked the inductive invariants on small instances first.

**ControlLeaseProofs.** KeptUntilGivenUp is about `runtime.lease`, which is written with what
a call returned some steps before, so `LeaseInv` says it of every copy a task carries
(`CopiesAreKept`), and FenceUnique likewise. It adds what calls in progress know (the time a
call read is not in the future, and what it will write does not shorten the row,
`CallsInProgress`), that no copy is ahead of the row (`CopiesAreBehindRow`: the row says who
may take over, the property is about copies), and that a token that was given up never
becomes that of an ownership again (`ReleasedIsOver`). From it: `LeaseInvariant`,
`TypeCorrect`, `LeasesAreKept`, `OneLeaseNotGivenUp`, `FencesAreUnique`,
`NoEarlyTakeoverHolds`, and `LeaseImplementsFencedLease`, a refinement by row.token and
row.owner.

**LiveSessionProofs.** `SessionInv` joins the three invariants with `CallsAreStale` (a call
carries a time of the past and a token that was granted) and `AbsentIsBlank`. The argument
goes through one lemma, `CommitKeepsInv`, that says what a transaction must write; its three
specialisations (replay rows kept, rotated, dropped) cover the operations, each of which has
a step. Theorems: `SessionTypes`, `FencesBehindLease`, `ReplaysStayValid`, `NoOrphanedJobs`,
and the action properties `NoStaleWrites` and `SessionsAreOrdered`.

`CapacityIsRespected` needs neither the handler's lock nor an isolation level: the second half
of a create counts and inserts while it holds the lease row. It counts with an older time than the present, and an older time counts more sessions,
not fewer; for a comparison of counts the table must be finite, which is proved on the way.
Idempotency does need isolation. `KeysInv` says that the row of a session stays while its
window is open, and that a create about to write has seen that its key has none: on SQLite a
create that was overtaken is refused; at READ COMMITTED it must be the only create of its key.
`Serialized` is that condition: the database refuses overtaken transactions, or the creates of
a key that are in progress passed the lock of one server. Without it TLC has a counterexample
(section 4). Under it: `KeysInvariant`, `KeysAreUsedOnce`, `DuplicatesAreReplayed`.

**LiveControlProofs.** Tasks of one process hold copies of a token across awaits and write the
lifecycle over each other. `ControlInv` says for each place of a task what the lifecycle may be
and which copies exist (`TasksOK`), and that copies are never ahead of the row, that the row's
token is known only to its owner or to who gave it up, and that two processes never know the
same token (`TokensOK`). Theorems: `ControlInvariant`, `ControlTypes`,
`ReadyServersAreFenced`, `ControlFailsClosed`, and `ControlUsesTheLease`: the processes take no
step on the row that FencedLease does not allow.

**RevocationOutboxProofs.** `AtLeastOnce` is not inductive because a drain may finish a claim
that another drain of its owner made. `OutboxInv` adds `WorkersApplied` (a drain about to
acknowledge has applied the event itself), `RowsConsistent`, `DrainsBehind` (a drain's
attempt number is never ahead of the receipt's), `CandidatesExpired` (a claimed receipt
chosen as a candidate had expired, unless it changed since) and `ClaimsOwned` (the attempt
a drain holds was written by its owner). The last three are what `ClaimsAreKept` rests
on. It speaks of drains that do not share their owner name with another: for drains that
do, as those of one server, it is false. Theorems: `OutboxInvariant`,
`ReceiptsAreComplete`, `AppliedAtLeastOnce`, `EventsAreNotLost`, `ClaimsAreKept`.

**SessionRevocationProofs.** A revocation is acknowledged many steps after its drain listed the
sessions, and in between sessions end, are adopted, renewed and created. `RevocationInv`
states for each place of a drain which of the due sessions that are still live it has before
it (`Covers`, `DrainCovers`): the rest of its list and the one in hand, none when it
acknowledges; and, for a startup pass that still has the lease, that each session before it is
as the pass saw it and each one behind it has its fence (`StartupOK`). The second holds because
no request is served before the pass is over, and those of earlier servers are fenced off. The
list is cut at ListLimit, so the theorems suppose
`LiveWithinLimit`: no more sessions are live than a pass lists. The code refuses a
configuration of more than 10,000 sessions, which is the limit of the list, but counts only
unexpired ones; section 4 says what happens beyond it. Theorems: `RevocationInvariant`,
`RevocationTypes`, `AcknowledgedRevocationsHaveEnded`, `ServersAdoptEverySession`,
`StartupFailsOnlyFenced`; and, without the hypothesis, `RevocationUsesTheLease`.

**CatalogLoadProofs.** `OneLoader` rests on `MapIsExact` (a flight that was not removed is the
map's flight of its key, and the map holds no other). `AbandonedIsCancelled` rests on
`CountIsExact`: the code decides by an atomic counter, the property is about waiters, so the
counter must be the number of waiters through every join, departure and answer.
`ProbeOrLost` is inductive with `ProbesCall`. Theorems: `CatalogInvariant`, `CatalogTypes`,
`WaiterCountIsExact`, `OneLoaderPerKey`, `AbandonedLoadsAreCancelled`, `HalfOpenHasAProbe`.

**AuthSessionsProofs.** The three invariants are about committed rows, but a row is written
by a transaction that read it several statements before. `AuthInv` therefore says what an
open transaction may rely on: `CallOK`, for each statement it has reached, the locks it holds
and what the locked rows look like; `NewsDistinct`, that two open transactions never insert
the same token; and `RowsConsistent`, that tokens and sessions refer to each other as the
statements leave them. A step of one call leaves the rows another call has locked alone;
that frame argument is a lemma of its own, and every action has a step that uses it.
`RevokedIsDead` is where the order of locks matters: a refresh that has extended the session
holds its row, so a revocation that waits for the row sees the replacement, and one that has
it makes the extension find nothing. `SwitchInv`, on top of it, says that the committed
profile of a session stays the one its request had from the UPDATE of a switch to its
commit. Theorems: `AuthInvariant`, `AuthTypes`, `RevokedSessionsAreDead`, `RotationIsALine`,
`RevocationsAnnouncedOnce`, `NothingIsUndone`, `LeftProfilesAreAnnounced`.

FenceUnique, FenceBehindLease and the types of the outbox are proved and no longer part of a
run; FenceUnique also follows from the refinement the run `lease` checks.

**Only model-checked.** Every invariant and every safety action property of the passing runs is
stated by a theorem. What remains is liveness, because reasoning under fairness is beyond the
prover used: OvertakenStepsDown, GivesUpTheRow, StandbyTakesOver, EventuallyAcknowledged,
EveryWaiterAnswered, EveryCallEnds, RevokedEnds and EventuallyApplied.

## 6. Not modelled

What is left out inside the modelled parts: payloads, descriptors and their encryption, the
readiness flags of components, metrics and logs, panics of spawned tasks, the content of
provider answers, passwords, PINs and the signing of tokens. In RevocationOutbox applying a
revocation is one step, in SessionRevocation attempts and the scan limit of a claim are left
out; each is in the other. What a drain of a handler does after the outbox is empty (reaping
relay, remux and egress) belongs to the parts below. In LiveSession the column
`egress_binding_id`, which `egress/service.rs` writes by statements of its own (1162, 1319),
is left out: FencedWrites and SessionOrder speak of what the repository writes. The list of a
drain is never cut in the run `revocation` (ListLimit = MaxSessions), and no property is about
the moment at which a handler that drained answers.

The parts without a module are in PROJECT.json with the reason for each. By size they are
most of the repository: some 430,000 lines, of which the largest files (debrid, acquisition,
library repair, discovery, extensions, the download broker) are clients of other programs'
interfaces, parsers, SQL over single rows and matching heuristics. The modules here cover the
part in which several actors write the same state and the order of their steps decides; a
model of the rest would be a transcription with nothing for a model checker to find, until
its stateful cores (plan, 4 and 5) are taken out one by one.

## 7. Plan

1. Proofs: what joins the modules. SessionRevocation claims and acknowledges as
   RevocationOutbox does, with attempts and the scan limit left out, and changes sessions as
   LiveSession does, with revisions and replay rows left out; both are stated in prose and
   could be refinements.
2. RecoveryPolicy (`recovery.rs`) as operators checked against a reference definition over
   bounded histories, then its use by the handlers.
3. Delivery: the order in which relay, remux and egress are taken and given back by the
   activation and by the end of a session; the manifest coalescer of the relay as a sibling
   of the catalogue's.
4. Egress reconciliation, remux job admission and reaping, the catalogue cache's
   stale-while-revalidate, playback jobs and their permits.
5. The download broker, the orchestrator's operation lock, acquisition.
