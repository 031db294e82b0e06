----------------------------- MODULE LiveControl -----------------------------
(***************************************************************************)
(* src/live/service.rs as main.rs runs it: how a server process gets, keeps *)
(* and gives up Live control.  Three tasks of a process share its runtime   *)
(* state: main (initialize, then serve), the lease heartbeat, which also    *)
(* takes over when a standby's turn comes, and the session lifecycle.  Each *)
(* await on the database ends a step.                                       *)
(*                                                                          *)
(* The lease row is FencedLease's token and owner plus whether it expired;  *)
(* ControlLease shows that the statements behave like that.  A process that *)
(* starts again has a new instance id, so a member of Servers starts once.  *)
(***************************************************************************)
EXTENDS FencedLease

CONSTANTS Playback,   \* config.playback_enabled
          Faults      \* which of FaultKinds may happen

FaultKinds == {"acquire", "renew", "release", "setup", "reconcile", "reap",
               "lifecycle", "crash", "slow"}

ASSUME LiveControlAssumption == Playback \in BOOLEAN /\ Faults \subseteq FaultKinds

VARIABLES
  expired,    \* the row's expires_at is in the past
  life,       \* per process: runtime.lifecycle
  lease,      \* per process: the token of runtime.lease, 0 for None
  cell,       \* per process: the OnceCell session_lifecycle is set
  shutdown,   \* per process: background_shutdown is cancelled
  at,         \* per process and task: where it is
  fate,       \* per process and task: the lifecycle a closing task will write
  held        \* per process and task: the token of the lease it copied

row == <<token, owner, expired>>
cvars == <<token, owner, expired, life, lease, cell, shutdown, at, fate, held>>

Tasks == {"main", "heartbeat", "session"}
Lifecycles == {"Uninitialized", "LeaseHeld", "ControlReady", "LeaseLost",
               "Blocked", "Stopped"}
Initializing == {"acquire", "refused", "egress", "sessions", "remux"}
Places == Initializing \cup
          {"off", "exited", "serve", "look", "wait", "failed", "sleep", "renewed",
           "reap", "start", "run", "release", "close", "done"}

(* One type invariant for the module. *)
ControlTypeOK ==
  /\ LeaseTypeOK /\ expired \in BOOLEAN
  /\ life \in [Servers -> Lifecycles]
  /\ lease \in [Servers -> 0..MaxFence]
  /\ held \in [Servers -> [Tasks -> 0..MaxFence]]
  /\ cell \in [Servers -> BOOLEAN] /\ shutdown \in [Servers -> BOOLEAN]
  /\ at \in [Servers -> [Tasks -> Places]]
  /\ fate \in [Servers -> [Tasks -> {"Blocked", "LeaseLost", "Stopped"}]]

Everywhere(place) == [t \in Tasks |-> place]
Alive(s) == at[s].main \notin {"off", "exited"}
Moves(s, t, place) == at' = [at EXCEPT ![s][t] = place]
Closes(s, t, to) ==
  Moves(s, t, "release") /\ fate' = [fate EXCEPT ![s][t] = to]

ControlInit ==
  /\ LeaseInit /\ expired = FALSE
  /\ life = [s \in Servers |-> "Uninitialized"]
  /\ lease = [s \in Servers |-> 0]
  /\ held = [s \in Servers |-> [t \in Tasks |-> 0]]
  /\ cell = [s \in Servers |-> FALSE] /\ shutdown = [s \in Servers |-> FALSE]
  /\ at = [s \in Servers |-> Everywhere("off")]
  /\ fate = [s \in Servers |-> [t \in Tasks |-> "Blocked"]]

\* Mutant: any lease that has not expired will do.
AnyFence(s, fence) == fence # 0 /\ ~ expired

\* The row names s with this token and has not expired: what renew and
\* assert_current_fence test.
CurrentFence(s, fence) == owner = s /\ token = fence /\ ~ expired

Expire ==
  /\ owner # NoServer /\ ~ expired
  /\ expired' = TRUE
  /\ UNCHANGED <<token, owner, life, lease, cell, shutdown, at, fate, held>>

-----------------------------------------------------------------------------
(* The process: it starts, serves, is told to stop, and ends.  Its memory    *)
(* goes with it; the row stays.                                              *)
Start(s) ==
  /\ at[s].main = "off"
  /\ Moves(s, "main", "acquire")
  /\ UNCHANGED <<row, life, lease, cell, shutdown, fate, held>>

Gone(s) ==
  /\ at' = [at EXCEPT ![s] = Everywhere("exited")]
  /\ life' = [life EXCEPT ![s] = "Uninitialized"]
  /\ lease' = [lease EXCEPT ![s] = 0]
  /\ held' = [held EXCEPT ![s] = [t \in Tasks |-> 0]]
  /\ UNCHANGED <<cell, shutdown, fate>>

Shutdown(s) ==
  /\ at[s].main = "serve" /\ ~ shutdown[s]
  /\ shutdown' = [shutdown EXCEPT ![s] = TRUE]
  /\ UNCHANGED <<row, life, lease, cell, at, fate, held>>

\* main waits for the two tasks, ten seconds for each at most.
Exit(s) ==
  /\ at[s].main = "serve" /\ shutdown[s]
  /\ {at[s].heartbeat, at[s].session} = {"done"} \/ "slow" \in Faults
  /\ Gone(s)
  /\ UNCHANGED row

Crash(s) == "crash" \in Faults /\ Alive(s) /\ Gone(s) /\ UNCHANGED row

-----------------------------------------------------------------------------
(* initialize, called by main at startup and by the heartbeat of a standby.  *)

\* Mutant: a standby tries once.
AfterOkOnce(s, t, to) ==
  IF t = "main"
  THEN [main |-> "serve", heartbeat |-> "look", session |-> "start"]
  ELSE [at[s] EXCEPT ![t] = IF to = "ControlReady" THEN "look" ELSE "done"]

\* What follows when initialize returns Ok with lifecycle `to', or Err (which
\* ends main, and is logged by the heartbeat).
AfterOk(s, t, to) ==
  IF t = "main"
  THEN [main |-> "serve", heartbeat |-> "look", session |-> "start"]
  ELSE [at[s] EXCEPT ![t] = IF to \in {"ControlReady", "LeaseHeld"} THEN "look" ELSE "done"]
ReturnsOk(s, t, to) ==
  /\ life' = [life EXCEPT ![s] = to]
  /\ at' = [at EXCEPT ![s] = AfterOk(s, t, to)]
ReturnsErr(s, t, to) ==
  IF t = "main"
  THEN Gone(s)
  ELSE /\ life' = [life EXCEPT ![s] = to]
       /\ lease' = [lease EXCEPT ![s] = 0]
       /\ Moves(s, t, "failed")
       /\ UNCHANGED <<cell, shutdown, fate, held>>

\* Mutants: tokens without a bound, and an expired lease granted under its token.
AcquirableUnbounded(s) == owner \in {NoServer, s} \/ expired
NextTokenReused(s) == IF owner = NoServer THEN token + 1 ELSE token

Acquirable(s) == token < MaxFence /\ (owner \in {NoServer, s} \/ expired)
NextToken(s) == IF owner = s /\ ~ expired THEN token ELSE token + 1

AcquireGranted(s, t) ==
  /\ at[s][t] = "acquire" /\ Acquirable(s)
  /\ token' = NextToken(s) /\ owner' = s /\ expired' = FALSE
  /\ life' = [life EXCEPT ![s] = "LeaseHeld"]
  /\ lease' = [lease EXCEPT ![s] = token']
  /\ Moves(s, t, "egress")
  /\ UNCHANGED <<cell, shutdown, fate, held>>

AcquireRefused(s, t) ==
  /\ at[s][t] = "acquire" /\ ~ Acquirable(s)
  /\ Moves(s, t, "refused")
  /\ UNCHANGED <<row, life, lease, cell, shutdown, fate, held>>

\* The row is read again to tell why: held, or its tokens are exhausted.
AcquireHeld(s, t) ==
  /\ at[s][t] = "refused" /\ token < MaxFence /\ owner # NoServer
  /\ ReturnsOk(s, t, "LeaseHeld")
  /\ lease' = [lease EXCEPT ![s] = 0]
  /\ UNCHANGED <<row, cell, shutdown, fate, held>>

FenceExhausted(s, t) ==
  /\ at[s][t] = "refused" /\ token = MaxFence
  /\ ReturnsOk(s, t, "Blocked")
  /\ lease' = [lease EXCEPT ![s] = 0]
  /\ UNCHANGED <<row, cell, shutdown, fate, held>>

\* The row was freed between the two statements: InvalidState, an error.
AcquireOvertaken(s, t) ==
  /\ at[s][t] = "refused" /\ token < MaxFence /\ owner = NoServer
  /\ ReturnsErr(s, t, "Blocked")
  /\ UNCHANGED row

\* A database error; the row may have been granted all the same.
AcquireFails(s, t) ==
  /\ "acquire" \in Faults /\ at[s][t] = "acquire"
  /\ \/ UNCHANGED row
     \/ /\ Acquirable(s)
        /\ token' = NextToken(s) /\ owner' = s /\ expired' = FALSE
  /\ ReturnsErr(s, t, "Blocked")

\* Reconciliation after a grant: protected egress, then (with playback) the
\* sessions, for which the lifecycle is created first, then remux.
EgressReconciled(s, t) ==
  /\ at[s][t] = "egress"
  /\ cell' = [cell EXCEPT ![s] = Playback]
  /\ Moves(s, t, IF Playback THEN "sessions" ELSE "remux")
  /\ UNCHANGED <<row, life, lease, shutdown, fate, held>>

\* The fence is asserted once, at the start of the sessions' reconciliation.
SessionsReconciled(s, t) ==
  /\ at[s][t] = "sessions" /\ CurrentFence(s, lease[s])
  /\ Moves(s, t, "remux")
  /\ UNCHANGED <<row, life, lease, cell, shutdown, fate, held>>

\* What is left: the sessions one by one, revocations and remux, if enabled.
\* ControlReady is then set without another look at the row.
ControlReady(s, t) ==
  /\ at[s][t] = "remux"
  /\ ReturnsOk(s, t, "ControlReady")
  /\ UNCHANGED <<row, lease, cell, shutdown, fate, held>>

\* A failure or a timeout of any of them, or a fence that was overtaken.
ReconcileFails(s, t) ==
  /\ at[s][t] \in {"egress", "sessions", "remux"}
  /\ \/ "reconcile" \in Faults /\ (Playback \/ at[s][t] = "egress")
     \/ Playback /\ at[s][t] # "egress" /\ ~ CurrentFence(s, lease[s])
  /\ Closes(s, t, "Blocked")
  /\ UNCHANGED <<row, life, lease, cell, shutdown, held>>

Initialize(s, t) ==
  \/ AcquireGranted(s, t) \/ AcquireRefused(s, t) \/ AcquireHeld(s, t)
  \/ FenceExhausted(s, t) \/ AcquireOvertaken(s, t) \/ EgressReconciled(s, t)
  \/ SessionsReconciled(s, t) \/ ControlReady(s, t)

-----------------------------------------------------------------------------
(* mark_lease_lost, block_and_release and release_on_shutdown: release the   *)
(* row, then write the lifecycle and forget the lease.                       *)
\* Mutant: the row is not released.
ReleaseForgotten(s, t) ==
  /\ at[s][t] = "release"
  /\ Moves(s, t, "close")
  /\ UNCHANGED <<row, life, lease, cell, shutdown, fate, held>>

ReleaseLease(s, t) ==
  /\ at[s][t] = "release"
  /\ IF owner = s /\ token = lease[s]
     THEN GiveUp /\ expired' = FALSE
     ELSE UNCHANGED row
  /\ Moves(s, t, "close")
  /\ UNCHANGED <<life, lease, cell, shutdown, fate, held>>

ReleaseFails(s, t) ==
  /\ "release" \in Faults /\ at[s][t] = "release"
  /\ Moves(s, t, "close")
  /\ UNCHANGED <<row, life, lease, cell, shutdown, fate, held>>

\* Blocked is written by initialize, which returns Err, and by the session task.
CloseRuntime(s, t) ==
  /\ at[s][t] = "close"
  /\ IF t = "main" \/ (t = "heartbeat" /\ fate[s][t] = "Blocked")
     THEN ReturnsErr(s, t, "Blocked")
     ELSE /\ life' = [life EXCEPT ![s] = fate[s][t]]
          /\ lease' = [lease EXCEPT ![s] = 0]
          /\ Moves(s, t, "done")
          /\ UNCHANGED <<cell, shutdown, fate, held>>
  /\ UNCHANGED row

-----------------------------------------------------------------------------
(* run_lease_heartbeat *)

\* Mutant: the loop does not end when nothing is left to wait for.
KeepsLooking(s) == IF lease[s] # 0 THEN "sleep" ELSE "wait"

AfterLook(s) ==
  IF lease[s] # 0 THEN "sleep"
  ELSE IF life[s] = "LeaseHeld" THEN "wait" ELSE "done"

HeartbeatLook(s) ==
  /\ at[s].heartbeat \in {"look", "failed"}
  /\ held' = [held EXCEPT ![s].heartbeat = lease[s]]
  /\ Moves(s, "heartbeat", AfterLook(s))
  /\ UNCHANGED <<row, life, lease, cell, shutdown, fate>>

HeartbeatShutdown(s) ==
  /\ at[s].heartbeat \in {"wait", "sleep"} /\ shutdown[s]
  /\ Closes(s, "heartbeat", "Stopped")
  /\ UNCHANGED <<row, life, lease, cell, shutdown, held>>

TakeoverAttempt(s) ==
  /\ at[s].heartbeat = "wait"
  /\ Moves(s, "heartbeat", "acquire")
  /\ UNCHANGED <<row, life, lease, cell, shutdown, fate, held>>

\* initialize fails before it reaches the lease, and leaves the runtime alone.
SetupFails(s) ==
  /\ "setup" \in Faults /\ at[s].heartbeat = "wait"
  /\ Moves(s, "heartbeat", "failed")
  /\ UNCHANGED <<row, life, lease, cell, shutdown, fate, held>>

Renew(s) ==
  /\ at[s].heartbeat = "sleep" /\ CurrentFence(s, held[s].heartbeat)
  /\ Moves(s, "heartbeat", "renewed")
  /\ UNCHANGED <<row, life, lease, cell, shutdown, fate, held>>

RenewFails(s) ==
  /\ at[s].heartbeat = "sleep"
  /\ ~ CurrentFence(s, held[s].heartbeat) \/ "renew" \in Faults
  /\ Closes(s, "heartbeat", "LeaseLost")
  /\ UNCHANGED <<row, life, lease, cell, shutdown, held>>

RenewedWritten(s) ==
  /\ at[s].heartbeat = "renewed"
  /\ lease' = [lease EXCEPT ![s] = held[s].heartbeat]
  /\ Moves(s, "heartbeat", "reap")
  /\ UNCHANGED <<row, life, cell, shutdown, fate, held>>

Reaped(s) ==
  /\ at[s].heartbeat = "reap"
  /\ Moves(s, "heartbeat", "look")
  /\ UNCHANGED <<row, life, lease, cell, shutdown, fate, held>>

ReapFails(s) ==
  /\ "reap" \in Faults /\ at[s].heartbeat = "reap"
  /\ Closes(s, "heartbeat", "LeaseLost")
  /\ UNCHANGED <<row, life, lease, cell, shutdown, held>>

-----------------------------------------------------------------------------
(* run_session_lifecycle.  Its loop asserts the fence and drains revocations *)
(* until it fails or is told to stop; a turn that succeeds changes nothing.  *)
SessionStart(s) ==
  /\ at[s].session = "start"
  /\ \/ /\ cell[s] /\ life[s] = "ControlReady" /\ lease[s] # 0
        /\ held' = [held EXCEPT ![s].session = lease[s]]
        /\ Moves(s, "session", "run")
     \/ /\ ~ cell[s] \/ life[s] \notin {"ControlReady", "LeaseHeld"}
        /\ Moves(s, "session", "done")
        /\ UNCHANGED held
  /\ UNCHANGED <<row, life, lease, cell, shutdown, fate>>

SessionShutdown(s) ==
  /\ at[s].session = "run" /\ shutdown[s]
  /\ Moves(s, "session", "done")
  /\ UNCHANGED <<row, life, lease, cell, shutdown, fate, held>>

\* The fence it asserts is the one it started with.
SessionFails(s) ==
  /\ at[s].session = "run" /\ ~ shutdown[s]
  /\ ~ CurrentFence(s, held[s].session) \/ "lifecycle" \in Faults
  /\ Closes(s, "session", "Blocked")
  /\ UNCHANGED <<row, life, lease, cell, shutdown, held>>

-----------------------------------------------------------------------------
(* Steps the program takes by itself, and what may befall it.                *)
Initializes(s) == \E t \in {"main", "heartbeat"} : Initialize(s, t)
Finishes(s) == \E t \in Tasks : ReleaseLease(s, t) \/ CloseRuntime(s, t)
HeartbeatStep(s) ==
  \/ HeartbeatLook(s) \/ TakeoverAttempt(s) \/ Renew(s) \/ RenewFails(s)
  \/ RenewedWritten(s) \/ Reaped(s)
SessionStep(s) == SessionStart(s) \/ SessionShutdown(s) \/ SessionFails(s)
Fault(s) ==
  \/ Crash(s) \/ SetupFails(s) \/ ReapFails(s)
  \/ \E t \in {"main", "heartbeat"} : AcquireFails(s, t) \/ ReconcileFails(s, t)
  \/ \E t \in Tasks : ReleaseFails(s, t)

ControlNext ==
  \/ Expire
  \/ \E s \in Servers :
       \/ Start(s) \/ Shutdown(s) \/ Exit(s)
       \/ Initializes(s) \/ Finishes(s)
       \/ HeartbeatStep(s) \/ HeartbeatShutdown(s)
       \/ SessionStep(s) \/ Fault(s)

ControlSpec == ControlInit /\ [][ControlNext]_cvars

\* An owner that does not renew any more; its lease runs out in time.
Abandoned == owner \in Servers /\ at[owner].heartbeat \in {"off", "done", "exited"}

(* Fairness: every task of a running process is scheduled by the runtime,    *)
(* awaits on the database come back, and time passes.  After a shutdown both *)
(* branches of the heartbeat's select! can be ready and one is picked at     *)
(* random, so the shutdown branch cannot lose for ever.  Nothing forces a    *)
(* process to start, to be told to stop, or a fault to happen.               *)
ControlFairness ==
  /\ WF_cvars(Abandoned /\ Expire)
  /\ \A s \in Servers :
       /\ WF_cvars(\E t \in {"main", "heartbeat"} : Initialize(s, t) \/ ReconcileFails(s, t))
       /\ \A t \in Tasks : WF_cvars(ReleaseLease(s, t) \/ CloseRuntime(s, t))
       /\ WF_cvars(HeartbeatStep(s))
       /\ SF_cvars(HeartbeatShutdown(s))
       /\ WF_cvars(SessionStart(s) \/ SessionShutdown(s))
       /\ WF_cvars(~ CurrentFence(s, held[s].session) /\ SessionFails(s))
       /\ WF_cvars(Exit(s))

ControlFairSpec == ControlSpec /\ ControlFairness

-----------------------------------------------------------------------------
Ready(s) == life[s] = "ControlReady"
Standby(s) == at[s].heartbeat = "wait"

(* ReadyIsFenced: initialize sets ControlReady without looking at the row,   *)
(* and runs without a heartbeat, so two servers can be ready at once.  Then  *)
(* control_fencing_token never gives two of them the same token, and only    *)
(* the row's owner, or nobody, has the row's.                                *)
ReadyIsFenced ==
  \A s \in Servers :
    Ready(s) =>
      /\ lease[s] # 0
      /\ lease[s] = token => owner \in {s, NoServer}
      /\ \A t \in Servers : Ready(t) /\ lease[t] = lease[s] => s = t

(* FailClosed: a process that lost, blocked or stopped Live control never    *)
(* comes back to LeaseHeld or ControlReady, although the heartbeat and the   *)
(* session task write the lifecycle without looking at what the other wrote. *)
FailClosed ==
  [][ \A s \in Servers :
        life[s] \in {"LeaseLost", "Blocked", "Stopped"}
          => life'[s] \notin {"LeaseHeld", "ControlReady"} ]_cvars

(* OvertakenStepsDown: a server that is ready with a token somebody else     *)
(* overtook finds out at its next renewal and stops being ready.             *)
OvertakenStepsDown ==
  \A s \in Servers : (Ready(s) /\ lease[s] # token) ~> ~ Ready(s)

(* GivesUpTheRow: a server that closed Live control, for whatever reason,    *)
(* does not keep the row: it releases it, or it stops renewing it, even when *)
(* a renewal that was in flight writes the lease back into the runtime.      *)
GivesUpTheRow ==
  \A s \in Servers :
    (life[s] \in {"LeaseLost", "Blocked", "Stopped"} /\ owner = s) ~> (owner # s \/ expired)

(* StandbyTakesOver: a server waiting for the lease becomes ready, or blocks *)
(* or stops, unless another server becomes ready before it.                  *)
StandbyTakesOver ==
  \A s \in Servers :
    Standby(s) ~> (~ Standby(s) /\ life[s] # "LeaseHeld") \/ \E t \in Servers : Ready(t)

(* RetriesAfterFailure: the log line "Live control lease takeover attempt    *)
(* failed; retrying" is followed by another attempt.                         *)
RetriesAfterFailure ==
  \A s \in Servers :
    at[s].heartbeat = "failed" ~> at[s].heartbeat = "wait" \/ shutdown[s] \/ ~ Alive(s)
=============================================================================
