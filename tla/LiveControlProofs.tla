--------------------------- MODULE LiveControlProofs ---------------------------
(* Theorems about LiveControl, for any set of server processes, any fence    *)
(* limit, with and without playback, and whichever of the faults may happen. *)
EXTENDS LiveControl, TLAPS

(***************************************************************************)
(* The inductive invariant                                                 *)
(***************************************************************************)

\* The three tasks of a process and what they share.  main runs alone until initialize
\* returns; who is between a grant and ControlReady has the lease in the runtime and the
\* lifecycle still LeaseHeld, because the session task does nothing until it sees
\* ControlReady; a standby waits and tries in LeaseHeld; a heartbeat that renews holds
\* a token.
TasksOK(s) ==
  /\ at[s].main \notin {"serve", "exited"} => at[s].heartbeat = "off" /\ at[s].session = "off"
  /\ at[s].main \in {"off", "acquire", "refused"} => life[s] = "Uninitialized"
  /\ at[s].heartbeat \in {"wait", "acquire", "refused"} => life[s] = "LeaseHeld"
  /\ \A t \in {"main", "heartbeat"} :
       at[s][t] \in {"egress", "sessions", "remux"} => lease[s] # 0 /\ life[s] = "LeaseHeld"
  /\ life[s] = "LeaseHeld" => at[s].session \in {"off", "start", "done"}
  /\ at[s].heartbeat \in {"sleep", "renewed"} => held[s].heartbeat # 0
  /\ Ready(s) => lease[s] # 0

\* The tokens a process has in its memory.
Known(s) == {lease[s]} \cup {held[s][t] : t \in Tasks}

\* No token in memory is ahead of the row; the row's own token is known to its owner only,
\* or to who gave it up; and two processes never know the same one.
TokensOK ==
  /\ owner # NoServer => token # 0
  /\ \A s \in Servers : \A k \in Known(s) \ {0} :
       /\ k <= token
       /\ k = token => owner \in {s, NoServer}
       /\ \A q \in Servers \ {s} : k \notin Known(q)

ControlInv ==
  /\ ControlTypeOK
  /\ \A s \in Servers : TasksOK(s)
  /\ TokensOK

(***************************************************************************)
(* What a step of one process does                                         *)
(***************************************************************************)

\* It leaves the other processes alone.
Local(s) ==
  \A q \in Servers \ {s} :
    at'[q] = at[q] /\ life'[q] = life[q] /\ lease'[q] = lease[q] /\ held'[q] = held[q]

\* It learns no token, and grants none.
LearnsNothing(s) ==
  /\ token' = token
  /\ owner' \in {owner, NoServer}
  /\ Known(s)' \subseteq Known(s) \cup {0}

\* It is granted the lease, whether or not it gets to know.
IsGranted(s) ==
  /\ Acquirable(s)
  /\ token' = NextToken(s) /\ owner' = s
  /\ Known(s)' \subseteq Known(s) \cup {0, token'}

Closed(s) == life[s] \in {"LeaseLost", "Blocked", "Stopped"}

StepOK(s) ==
  /\ ControlTypeOK'
  /\ Local(s)
  /\ TasksOK(s)'
  /\ LearnsNothing(s) \/ IsGranted(s)
  /\ Closed(s) => life'[s] \notin {"LeaseHeld", "ControlReady"}

\* The tokens in memory.
LEMMA KnownTokens ==
  ASSUME NEW s
  PROVE  Known(s) = {lease[s], held[s].main, held[s].heartbeat, held[s].session}
BY DEF Known, Tasks

\* A step of one process that is as described preserves the invariant.
LEMMA StepPreserves ==
  ASSUME ControlInv, NEW s \in Servers, StepOK(s)
  PROVE  ControlInv'
<1>1. \A q \in Servers \ {s} : Known(q)' = Known(q)
  BY KnownTokens DEF StepOK, Local, Known
<1>2. ASSUME NEW q \in Servers PROVE TasksOK(q)'
  BY DEF ControlInv, StepOK, Local, TasksOK, Ready
<1>3. token \in Nat /\ \A q \in Servers : \A k \in Known(q) : k \in Nat
  BY KnownTokens, FencedLeaseAssumption DEF ControlInv, ControlTypeOK, LeaseTypeOK, Tasks
<1>4. TokensOK'
  <2>1. CASE LearnsNothing(s)
    BY <1>1, <2>1 DEF LearnsNothing, ControlInv, TokensOK
  <2>2. CASE IsGranted(s)
    <3>1. token' # 0
      BY <1>3, <2>2, FencedLeaseAssumption DEF IsGranted, NextToken, ControlInv, TokensOK
    <3>2. ASSUME NEW q \in Servers \ {s} PROVE token' \notin Known(q)
      BY <1>3, <2>2, <3>1, FencedLeaseAssumption DEF IsGranted, NextToken, ControlInv, TokensOK
    <3>3. token <= token'
      BY <1>3, <2>2 DEF IsGranted, NextToken
    <3>4. ASSUME NEW q \in Servers, NEW k \in Known(q)' \ {0}
          PROVE  /\ k <= token'
                 /\ k = token' => owner' \in {q, NoServer}
      BY <1>1, <1>3, <2>2, <3>2, <3>3, <3>4 DEF IsGranted, NextToken, ControlInv, TokensOK
    <3>5. ASSUME NEW q \in Servers, NEW k \in Known(q)' \ {0}, NEW p \in Servers \ {q}
          PROVE  k \notin Known(p)'
      BY <1>1, <2>2, <3>2, <3>5 DEF IsGranted, ControlInv, TokensOK
    <3> QED
      BY <3>1, <3>4, <3>5 DEF TokensOK
  <2> QED
    BY <2>1, <2>2 DEF StepOK
<1> QED
  BY <1>2, <1>4 DEF ControlInv, StepOK

\* Before any process started.
LEMMA InitControlInv == ControlInit => ControlInv
<1> SUFFICES ASSUME ControlInit PROVE ControlInv
  OBVIOUS
<1> USE DEF ControlInit, LeaseInit, Everywhere
<1>1. ControlTypeOK
  <2>1. 0 \in 0..MaxFence
    BY FencedLeaseAssumption
  <2> QED
    BY <2>1 DEF ControlTypeOK, LeaseTypeOK, Lifecycles, Places, Initializing
<1>2. ASSUME NEW s \in Servers PROVE TasksOK(s)
  BY DEF TasksOK, Tasks, Ready
<1>3. ASSUME NEW s \in Servers PROVE Known(s) = {0}
  BY KnownTokens DEF Tasks
<1>4. TokensOK
  BY <1>3 DEF TokensOK
<1> QED
  BY <1>1, <1>2, <1>4 DEF ControlInv

(***************************************************************************)
(* Steps that move one task and leave the lifecycle and the tokens alone   *)
(***************************************************************************)

\* Where the tasks are after one moved.
LEMMA Moved ==
  ASSUME ControlTypeOK, NEW s \in Servers, NEW t \in Tasks, NEW place \in Places,
         Moves(s, t, place)
  PROVE  /\ at' \in [Servers -> [Tasks -> Places]]
         /\ at'[s][t] = place
         /\ \A u \in Tasks \ {t} : at'[s][u] = at[s][u]
         /\ \A q \in Servers \ {s} : at'[q] = at[q]
<1>1. at \in [Servers -> [Tasks -> Places]]
  BY DEF ControlTypeOK
<1>2. at' = [at EXCEPT ![s] = [at[s] EXCEPT ![t] = place]]
  BY DEF Moves
<1>3. [at[s] EXCEPT ![t] = place] \in [Tasks -> Places]
  BY <1>1
<1> QED
  BY <1>1, <1>2, <1>3

\* A closing task notes which lifecycle it will write.
LEMMA FateType ==
  ASSUME ControlTypeOK, NEW s \in Servers, NEW t \in Tasks,
         NEW to \in {"Blocked", "LeaseLost", "Stopped"}, Closes(s, t, to)
  PROVE  fate' \in [Servers -> [Tasks -> {"Blocked", "LeaseLost", "Stopped"}]]
BY DEF Closes, ControlTypeOK

\* Such a step is as described when the task may go where it goes.
LEMMA QuietStep ==
  ASSUME ControlInv, NEW s \in Servers, NEW t \in Tasks, NEW place \in Places,
         Moves(s, t, place),
         token' = token, owner' \in {owner, NoServer}, expired' \in BOOLEAN,
         life' = life, lease' = lease, held' = held, shutdown' = shutdown,
         cell' \in [Servers -> BOOLEAN],
         fate' \in [Servers -> [Tasks -> {"Blocked", "LeaseLost", "Stopped"}]],
         \* main stays alone until initialize has returned
         t = "main" => at[s].main \notin {"serve", "exited"} /\ place \notin {"serve", "exited"},
         t = "main" /\ place \in {"off", "acquire", "refused"} =>
           at[s].main \in {"off", "acquire", "refused"},
         t # "main" => at[s][t] # "off",
         \* a standby, or on the way to ControlReady
         t = "heartbeat" /\ place \in {"wait", "acquire", "refused"} =>
           at[s].heartbeat \in {"wait", "acquire", "refused"},
         place \in {"egress", "sessions", "remux"} => at[s][t] \in {"egress", "sessions", "remux"},
         t = "session" => at[s].session = "run" \/ place = "done"
                          \/ at[s].session \in {"release", "close"},
         place \notin {"sleep", "renewed"} \/ at[s][t] = "sleep"
  PROVE  StepOK(s)
<1>1. /\ at' \in [Servers -> [Tasks -> Places]]
      /\ at'[s][t] = place
      /\ \A u \in Tasks \ {t} : at'[s][u] = at[s][u]
      /\ \A q \in Servers \ {s} : at'[q] = at[q]
  BY Moved DEF ControlInv
<1>2. ControlTypeOK'
  BY <1>1 DEF ControlInv, ControlTypeOK, LeaseTypeOK
<1>3. TasksOK(s)'
  BY <1>1 DEF ControlInv, TasksOK, Tasks, Ready
<1>4. Known(s)' = Known(s)
  BY DEF Known
<1> QED
  BY <1>1, <1>2, <1>3, <1>4 DEF StepOK, Local, LearnsNothing, Closed

\* main and the heartbeat in initialize, as long as it has not returned.
LEMMA InitializingStep ==
  ASSUME ControlInv, NEW s \in Servers, NEW t \in {"main", "heartbeat"},
         \/ AcquireRefused(s, t) \/ EgressReconciled(s, t) \/ SessionsReconciled(s, t)
         \/ ReconcileFails(s, t)
  PROVE  StepOK(s)
<1>1. ControlTypeOK /\ LeaseTypeOK /\ t \in Tasks
  BY DEF ControlInv, ControlTypeOK, Tasks
<1>2. CASE AcquireRefused(s, t)
  BY <1>1, <1>2, QuietStep DEF AcquireRefused, row, ControlTypeOK, Places, Initializing
<1>3. CASE EgressReconciled(s, t)
  <2>1. cell' \in [Servers -> BOOLEAN]
    BY <1>1, <1>3, LiveControlAssumption DEF EgressReconciled, ControlTypeOK
  <2> QED
    BY <1>1, <1>3, <2>1, QuietStep DEF EgressReconciled, row, ControlTypeOK, Places, Initializing
<1>4. CASE SessionsReconciled(s, t)
  BY <1>1, <1>4, QuietStep DEF SessionsReconciled, row, ControlTypeOK, Places, Initializing
<1>5. CASE ReconcileFails(s, t)
  <2>1. Closes(s, t, "Blocked")
    BY <1>5 DEF ReconcileFails
  <2>2. Moves(s, t, "release")
    BY <2>1 DEF Closes
  <2> QED
    BY <1>1, <1>5, <2>1, <2>2, FateType, QuietStep
    DEF ReconcileFails, row, ControlTypeOK, Places
<1> QED
  BY <1>2, <1>3, <1>4, <1>5

\* Releasing the row, or failing to.
LEMMA ReleaseStep ==
  ASSUME ControlInv, NEW s \in Servers, NEW t \in Tasks, ReleaseLease(s, t) \/ ReleaseFails(s, t)
  PROVE  StepOK(s)
<1>1. ControlTypeOK
  BY DEF ControlInv
<1>2. /\ at[s][t] = "release" /\ Moves(s, t, "close")
      /\ token' = token /\ owner' \in {owner, NoServer} /\ expired' \in BOOLEAN
      /\ UNCHANGED <<life, lease, cell, shutdown, fate, held>>
  BY <1>1 DEF ReleaseLease, ReleaseFails, row, GiveUp, ControlTypeOK
<1> QED
  BY <1>1, <1>2, QuietStep DEF ControlTypeOK, Places, Tasks

\* The heartbeat as it waits, renews and reaps.
LEMMA HeartbeatQuietStep ==
  ASSUME ControlInv, NEW s \in Servers,
         \/ HeartbeatShutdown(s) \/ TakeoverAttempt(s) \/ SetupFails(s) \/ Renew(s)
         \/ RenewFails(s) \/ Reaped(s) \/ ReapFails(s)
  PROVE  StepOK(s)
<1>1. ControlTypeOK /\ "heartbeat" \in Tasks
  BY DEF ControlInv, Tasks
<1>2. CASE HeartbeatShutdown(s) \/ RenewFails(s) \/ ReapFails(s)
  <2>1. PICK to \in {"LeaseLost", "Stopped"} : Closes(s, "heartbeat", to)
    BY <1>2 DEF HeartbeatShutdown, RenewFails, ReapFails
  <2>2. Moves(s, "heartbeat", "release")
    BY <2>1 DEF Closes
  <2>3. /\ at[s].heartbeat \in {"wait", "sleep", "reap"}
        /\ UNCHANGED <<token, owner, expired, life, lease, cell, shutdown, held>>
    BY <1>2 DEF HeartbeatShutdown, RenewFails, ReapFails, row
  <2>4. fate' \in [Servers -> [Tasks -> {"Blocked", "LeaseLost", "Stopped"}]]
    BY <1>1, <2>1, FateType
  <2> QED
    BY <1>1, <2>2, <2>3, <2>4, QuietStep DEF ControlTypeOK, Places
<1>3. CASE TakeoverAttempt(s)
  BY <1>1, <1>3, QuietStep DEF TakeoverAttempt, row, ControlTypeOK, Places, Initializing
<1>4. CASE SetupFails(s)
  BY <1>1, <1>4, QuietStep DEF SetupFails, row, ControlTypeOK, Places
<1>5. CASE Renew(s)
  BY <1>1, <1>5, QuietStep DEF Renew, row, ControlTypeOK, Places
<1>6. CASE Reaped(s)
  BY <1>1, <1>6, QuietStep DEF Reaped, row, ControlTypeOK, Places
<1> QED
  BY <1>2, <1>3, <1>4, <1>5, <1>6

\* main starts; the session task ends or fails.
LEMMA OtherQuietStep ==
  ASSUME ControlInv, NEW s \in Servers, Start(s) \/ SessionShutdown(s) \/ SessionFails(s)
  PROVE  StepOK(s)
<1>1. ControlTypeOK /\ "main" \in Tasks /\ "session" \in Tasks
  BY DEF ControlInv, Tasks
<1>2. CASE Start(s)
  BY <1>1, <1>2, QuietStep DEF Start, row, ControlTypeOK, Places, Initializing
<1>3. CASE SessionShutdown(s)
  BY <1>1, <1>3, QuietStep DEF SessionShutdown, row, ControlTypeOK, Places
<1>4. CASE SessionFails(s)
  <2>1. Closes(s, "session", "Blocked")
    BY <1>4 DEF SessionFails
  <2>2. Moves(s, "session", "release")
    BY <2>1 DEF Closes
  <2>3. fate' \in [Servers -> [Tasks -> {"Blocked", "LeaseLost", "Stopped"}]]
    BY <1>1, <2>1, FateType
  <2> QED
    BY <1>1, <1>4, <2>2, <2>3, QuietStep DEF SessionFails, row, ControlTypeOK, Places
<1> QED
  BY <1>2, <1>3, <1>4

\* main is told to stop.
LEMMA ShutdownStep ==
  ASSUME ControlInv, NEW s \in Servers, Shutdown(s)
  PROVE  StepOK(s)
<1>1. UNCHANGED <<token, owner, expired, life, lease, cell, at, fate, held>>
  BY DEF Shutdown, row
<1>2. ControlTypeOK'
  BY <1>1 DEF ControlInv, ControlTypeOK, LeaseTypeOK, Shutdown
<1>3. TasksOK(s)'
  BY <1>1 DEF ControlInv, TasksOK, Ready
<1>4. Known(s)' = Known(s)
  BY <1>1 DEF Known
<1> QED
  BY <1>1, <1>2, <1>3, <1>4 DEF StepOK, Local, LearnsNothing, Closed

(***************************************************************************)
(* Steps that write the lifecycle or a lease                               *)
(***************************************************************************)

\* The process is gone, and with it its memory.
LEMMA GoneFacts ==
  ASSUME ControlInv, NEW s \in Servers, Gone(s)
  PROVE  /\ at' \in [Servers -> [Tasks -> Places]]
         /\ life' \in [Servers -> Lifecycles] /\ lease' \in [Servers -> 0..MaxFence]
         /\ held' \in [Servers -> [Tasks -> 0..MaxFence]]
         /\ cell' \in [Servers -> BOOLEAN] /\ shutdown' \in [Servers -> BOOLEAN]
         /\ fate' \in [Servers -> [Tasks -> {"Blocked", "LeaseLost", "Stopped"}]]
         /\ Local(s) /\ TasksOK(s)' /\ Known(s)' = {0}
         /\ life'[s] = "Uninitialized"
<1>1. ControlTypeOK /\ 0 \in 0..MaxFence
  BY FencedLeaseAssumption DEF ControlInv
<1>2. /\ at' \in [Servers -> [Tasks -> Places]]
      /\ held' \in [Servers -> [Tasks -> 0..MaxFence]]
  BY <1>1 DEF Gone, ControlTypeOK, Everywhere, Places
<1>3. /\ life' \in [Servers -> Lifecycles] /\ lease' \in [Servers -> 0..MaxFence]
      /\ cell' \in [Servers -> BOOLEAN] /\ shutdown' \in [Servers -> BOOLEAN]
      /\ fate' \in [Servers -> [Tasks -> {"Blocked", "LeaseLost", "Stopped"}]]
  BY <1>1 DEF Gone, ControlTypeOK, Lifecycles
<1>4. /\ at'[s] = Everywhere("exited") /\ life'[s] = "Uninitialized" /\ lease'[s] = 0
      /\ held'[s] = [t \in Tasks |-> 0]
      /\ Local(s)
  BY <1>1 DEF Gone, ControlTypeOK, Local
<1>5. \A t \in Tasks : at'[s][t] = "exited" /\ held'[s][t] = 0
  BY <1>4 DEF Everywhere
<1>6. TasksOK(s)'
  BY <1>4, <1>5 DEF TasksOK, Tasks, Ready
<1>7. Known(s)' = {0}
  BY <1>4, <1>5 DEF Known, Tasks
<1> QED
  BY <1>2, <1>3, <1>4, <1>6, <1>7

\* initialize returned an error, or the close of Live control ended it.
LEMMA ErrStep ==
  ASSUME ControlInv, NEW s \in Servers, NEW t \in {"main", "heartbeat"}, ReturnsErr(s, t, "Blocked"),
         at[s].heartbeat # "off" \/ t = "main",
         LeaseTypeOK', expired' \in BOOLEAN,
         \/ token' = token /\ owner' \in {owner, NoServer}
         \/ Acquirable(s) /\ token' = NextToken(s) /\ owner' = s
  PROVE  StepOK(s)
<1>1. ControlTypeOK /\ t \in Tasks /\ 0 \in 0..MaxFence
  BY FencedLeaseAssumption DEF ControlInv, Tasks
<1>2. CASE t = "main"
  <2>1. Gone(s)
    BY <1>2 DEF ReturnsErr
  <2> QED
    BY <2>1, GoneFacts DEF StepOK, ControlTypeOK, LearnsNothing, IsGranted, Closed
<1>3. CASE t = "heartbeat"
  <2>1. /\ life' = [life EXCEPT ![s] = "Blocked"]
        /\ lease' = [lease EXCEPT ![s] = 0]
        /\ Moves(s, "heartbeat", "failed")
        /\ UNCHANGED <<cell, shutdown, fate, held>>
    BY <1>3 DEF ReturnsErr
  <2>2. /\ at' \in [Servers -> [Tasks -> Places]]
        /\ at'[s]["heartbeat"] = "failed"
        /\ \A u \in Tasks \ {"heartbeat"} : at'[s][u] = at[s][u]
        /\ \A q \in Servers \ {s} : at'[q] = at[q]
    BY <1>1, <1>3, <2>1, Moved DEF Places
  <2>3. ControlTypeOK'
    BY <1>1, <2>1, <2>2 DEF ControlTypeOK, Lifecycles
  <2>4. life'[s] = "Blocked" /\ lease'[s] = 0 /\ held'[s] = held[s]
    BY <1>1, <2>1 DEF ControlTypeOK
  <2>5. TasksOK(s)'
    BY <1>3, <2>2, <2>4 DEF ControlInv, TasksOK, Tasks, Ready
  <2>6. Known(s)' \subseteq Known(s) \cup {0}
    BY <2>4 DEF Known
  <2>7. Local(s)
    BY <1>1, <2>1, <2>2 DEF Local, ControlTypeOK
  <2>8. LearnsNothing(s) \/ IsGranted(s)
    BY <2>6 DEF LearnsNothing, IsGranted
  <2> QED
    BY <2>3, <2>4, <2>5, <2>7, <2>8 DEF StepOK
<1> QED
  BY <1>2, <1>3

\* initialize returned: main goes on to serve and spawns the two tasks, a standby's
\* heartbeat goes on or ends.
LEMMA OkStep ==
  ASSUME ControlInv, NEW s \in Servers, NEW t \in {"main", "heartbeat"},
         NEW to \in {"LeaseHeld", "ControlReady", "Blocked"}, ReturnsOk(s, t, to),
         at[s][t] \in Initializing, at[s][t] # "acquire",
         lease' \in [Servers -> 0..MaxFence],
         \A q \in Servers \ {s} : lease'[q] = lease[q],
         lease'[s] \in {lease[s], 0},
         to = "ControlReady" => lease'[s] # 0 /\ at[s][t] = "remux",
         UNCHANGED <<token, owner, expired, cell, shutdown, fate, held>>
  PROVE  StepOK(s)
<1>1. ControlTypeOK /\ TasksOK(s)
  BY DEF ControlInv
<1>2. /\ life' = [life EXCEPT ![s] = to]
      /\ at' = [at EXCEPT ![s] = AfterOk(s, t, to)]
  BY DEF ReturnsOk
<1>3. /\ AfterOk(s, t, to) \in [Tasks -> Places]
      /\ AfterOk(s, t, to)["heartbeat"] \in {"look", "done"}
      /\ AfterOk(s, t, to)["main"] = "serve" \/ (t = "heartbeat" /\ AfterOk(s, t, to)["main"] = at[s].main)
      /\ \/ AfterOk(s, t, to)["session"] = "start"
         \/ t = "heartbeat" /\ AfterOk(s, t, to)["session"] = at[s].session
  <2>1. CASE t = "main"
    BY <2>1 DEF AfterOk, Tasks, Places
  <2>2. CASE t = "heartbeat"
    <3>1. at[s] \in [Tasks -> Places]
      BY <1>1 DEF ControlTypeOK
    <3> QED
      BY <2>2, <3>1 DEF AfterOk, Tasks, Places
  <2> QED
    BY <2>1, <2>2
<1>4. /\ life'[s] = to /\ at'[s] = AfterOk(s, t, to)
      /\ life' \in [Servers -> Lifecycles] /\ at' \in [Servers -> [Tasks -> Places]]
      /\ \A q \in Servers \ {s} : life'[q] = life[q] /\ at'[q] = at[q]
  BY <1>1, <1>2, <1>3 DEF ControlTypeOK, Lifecycles
<1>5. ControlTypeOK'
  BY <1>1, <1>4 DEF ControlTypeOK, LeaseTypeOK
<1>6. life[s] \in {"Uninitialized", "LeaseHeld"} /\ (t = "heartbeat" => life[s] = "LeaseHeld")
  BY <1>1 DEF TasksOK, Initializing
<1>7. t = "heartbeat" => at[s].main \in {"serve", "exited"}
  BY <1>1 DEF TasksOK, Initializing
<1>8. t = "heartbeat" => at[s].session \in {"off", "start", "done"}
  BY <1>1, <1>6 DEF TasksOK
<1>9. TasksOK(s)'
  BY <1>3, <1>4, <1>7, <1>8 DEF TasksOK, Tasks, Ready
<1>10. Known(s)' \subseteq Known(s) \cup {0}
  BY DEF Known
<1>11. Local(s) /\ LearnsNothing(s)
  BY <1>4, <1>10 DEF Local, LearnsNothing
<1> QED
  BY <1>5, <1>6, <1>9, <1>11 DEF StepOK, Closed

\* The ends of initialize: the lease is held by another, its tokens are exhausted, or
\* everything was reconciled.
LEMMA InitializedStep ==
  ASSUME ControlInv, NEW s \in Servers, NEW t \in {"main", "heartbeat"},
         AcquireHeld(s, t) \/ FenceExhausted(s, t) \/ ControlReady(s, t)
  PROVE  StepOK(s)
<1>1. ControlTypeOK /\ TasksOK(s) /\ 0 \in 0..MaxFence
  BY FencedLeaseAssumption DEF ControlInv
<1>2. CASE AcquireHeld(s, t) \/ FenceExhausted(s, t)
  <2>1. PICK to \in {"LeaseHeld", "Blocked"} : ReturnsOk(s, t, to)
    BY <1>2 DEF AcquireHeld, FenceExhausted
  <2>2. /\ at[s][t] = "refused"
        /\ lease' = [lease EXCEPT ![s] = 0]
        /\ UNCHANGED <<token, owner, expired, cell, shutdown, fate, held>>
    BY <1>2 DEF AcquireHeld, FenceExhausted, row
  <2>3. /\ lease' \in [Servers -> 0..MaxFence] /\ lease'[s] = 0
        /\ \A q \in Servers \ {s} : lease'[q] = lease[q]
    BY <1>1, <2>2 DEF ControlTypeOK
  <2> QED
    BY <2>1, <2>2, <2>3, OkStep DEF Initializing
<1>3. CASE ControlReady(s, t)
  <2>1. /\ at[s][t] = "remux" /\ ReturnsOk(s, t, "ControlReady")
        /\ UNCHANGED <<token, owner, expired, lease, cell, shutdown, fate, held>>
    BY <1>3 DEF ControlReady, row
  <2>2. lease[s] # 0
    BY <1>1, <2>1 DEF TasksOK
  <2> QED
    BY <1>1, <2>1, <2>2, OkStep DEF Initializing, ControlTypeOK
<1> QED
  BY <1>2, <1>3

\* The row after a grant.
LEMMA GrantTypes ==
  ASSUME ControlInv, NEW s \in Servers, Acquirable(s), token' = NextToken(s), owner' = s
  PROVE  LeaseTypeOK' /\ token' \in 0..MaxFence /\ token' # 0
BY FencedLeaseAssumption
DEF ControlInv, ControlTypeOK, LeaseTypeOK, TokensOK, Acquirable, NextToken

\* The lease is granted: the runtime has it before anything else is done.
LEMMA GrantStep ==
  ASSUME ControlInv, NEW s \in Servers, NEW t \in {"main", "heartbeat"}, AcquireGranted(s, t)
  PROVE  StepOK(s)
<1>1. ControlTypeOK /\ TasksOK(s) /\ t \in Tasks
  BY DEF ControlInv, Tasks
<1>2. /\ at[s][t] = "acquire" /\ Acquirable(s)
      /\ token' = NextToken(s) /\ owner' = s /\ expired' = FALSE
      /\ life' = [life EXCEPT ![s] = "LeaseHeld"]
      /\ lease' = [lease EXCEPT ![s] = token']
      /\ Moves(s, t, "egress")
      /\ UNCHANGED <<cell, shutdown, fate, held>>
  BY DEF AcquireGranted
<1>3. LeaseTypeOK' /\ token' \in 0..MaxFence /\ token' # 0
  BY <1>2, GrantTypes
<1>4. /\ at' \in [Servers -> [Tasks -> Places]]
      /\ at'[s][t] = "egress"
      /\ \A u \in Tasks \ {t} : at'[s][u] = at[s][u]
      /\ \A q \in Servers \ {s} : at'[q] = at[q]
  BY <1>1, <1>2, Moved DEF Places, Initializing
<1>5. ControlTypeOK'
  BY <1>1, <1>2, <1>3, <1>4 DEF ControlTypeOK, Lifecycles
<1>6. /\ life'[s] = "LeaseHeld" /\ lease'[s] = token' /\ held'[s] = held[s]
      /\ \A q \in Servers \ {s} : life'[q] = life[q] /\ lease'[q] = lease[q] /\ held'[q] = held[q]
  BY <1>1, <1>2 DEF ControlTypeOK
<1>7. TasksOK(s)'
  BY <1>1, <1>2, <1>3, <1>4, <1>6 DEF TasksOK, Tasks, Ready
<1>8. Known(s)' \subseteq Known(s) \cup {0, token'}
  BY <1>6 DEF Known
<1>9. ~ Closed(s)
  BY <1>1, <1>2 DEF Closed, TasksOK
<1> QED
  BY <1>2, <1>4, <1>5, <1>6, <1>7, <1>8, <1>9 DEF StepOK, Local, IsGranted

\* The acquisition failed, with or without a grant, or was overtaken by a release.
LEMMA AcquireErrStep ==
  ASSUME ControlInv, NEW s \in Servers, NEW t \in {"main", "heartbeat"},
         AcquireOvertaken(s, t) \/ AcquireFails(s, t)
  PROVE  StepOK(s)
<1>1. ControlTypeOK
  BY DEF ControlInv
<1>2. ReturnsErr(s, t, "Blocked") /\ (at[s].heartbeat # "off" \/ t = "main")
  BY DEF AcquireOvertaken, AcquireFails
<1>3. CASE UNCHANGED row
  BY <1>1, <1>2, <1>3, ErrStep DEF row, ControlTypeOK, LeaseTypeOK
<1>4. CASE ~ UNCHANGED row
  <2>1. Acquirable(s) /\ token' = NextToken(s) /\ owner' = s /\ expired' = FALSE
    BY <1>4 DEF AcquireOvertaken, AcquireFails
  <2>2. LeaseTypeOK'
    BY <2>1, GrantTypes
  <2> QED
    BY <1>2, <2>1, <2>2, ErrStep
<1> QED
  BY <1>3, <1>4

\* A closing task writes the lifecycle and forgets the lease.
LEMMA CloseStep ==
  ASSUME ControlInv, NEW s \in Servers, NEW t \in Tasks, CloseRuntime(s, t)
  PROVE  StepOK(s)
<1>1. ControlTypeOK /\ TasksOK(s) /\ 0 \in 0..MaxFence
  BY FencedLeaseAssumption DEF ControlInv
<1>2. at[s][t] = "close" /\ UNCHANGED <<token, owner, expired>>
  BY DEF CloseRuntime, row
<1>3. CASE t = "main" \/ (t = "heartbeat" /\ fate[s][t] = "Blocked")
  <2>1. ReturnsErr(s, t, "Blocked") /\ t \in {"main", "heartbeat"}
    BY <1>3 DEF CloseRuntime
  <2>2. at[s].heartbeat # "off" \/ t = "main"
    BY <1>2, <1>3
  <2> QED
    BY <1>1, <1>2, <2>1, <2>2, ErrStep DEF ControlTypeOK, LeaseTypeOK
<1>4. CASE ~ (t = "main" \/ (t = "heartbeat" /\ fate[s][t] = "Blocked"))
  <2>1. /\ life' = [life EXCEPT ![s] = fate[s][t]]
        /\ lease' = [lease EXCEPT ![s] = 0]
        /\ Moves(s, t, "done")
        /\ UNCHANGED <<cell, shutdown, fate, held>>
    BY <1>4 DEF CloseRuntime
  <2>2. fate[s][t] \in {"Blocked", "LeaseLost", "Stopped"} /\ t \in {"heartbeat", "session"}
    BY <1>1, <1>4 DEF ControlTypeOK, Tasks
  <2>3. /\ at' \in [Servers -> [Tasks -> Places]]
        /\ at'[s][t] = "done"
        /\ \A u \in Tasks \ {t} : at'[s][u] = at[s][u]
        /\ \A q \in Servers \ {s} : at'[q] = at[q]
    BY <1>1, <2>1, Moved DEF Places
  <2>4. ControlTypeOK'
    BY <1>1, <1>2, <2>1, <2>2, <2>3 DEF ControlTypeOK, LeaseTypeOK, Lifecycles
  <2>5. /\ life'[s] \in {"Blocked", "LeaseLost", "Stopped"} /\ lease'[s] = 0 /\ held'[s] = held[s]
        /\ \A q \in Servers \ {s} : life'[q] = life[q] /\ lease'[q] = lease[q] /\ held'[q] = held[q]
    BY <1>1, <2>1, <2>2 DEF ControlTypeOK
  <2>6. TasksOK(s)'
    BY <1>1, <1>2, <2>2, <2>3, <2>5 DEF TasksOK, Tasks, Ready
  <2>7. Known(s)' \subseteq Known(s) \cup {0}
    BY <2>5 DEF Known
  <2> QED
    BY <1>2, <2>3, <2>4, <2>5, <2>6, <2>7 DEF StepOK, Local, LearnsNothing
<1> QED
  BY <1>3, <1>4

\* The heartbeat copies the runtime's lease.
LEMMA LookStep ==
  ASSUME ControlInv, NEW s \in Servers, HeartbeatLook(s)
  PROVE  StepOK(s)
<1>1. ControlTypeOK /\ TasksOK(s) /\ "heartbeat" \in Tasks
  BY DEF ControlInv, Tasks
<1>2. /\ at[s].heartbeat \in {"look", "failed"}
      /\ held' = [held EXCEPT ![s].heartbeat = lease[s]]
      /\ Moves(s, "heartbeat", AfterLook(s))
      /\ UNCHANGED <<token, owner, expired, life, lease, cell, shutdown, fate>>
  BY DEF HeartbeatLook, row
<1>3. /\ AfterLook(s) \in {"sleep", "wait", "done"}
      /\ AfterLook(s) = "sleep" => lease[s] # 0
      /\ AfterLook(s) = "wait" => life[s] = "LeaseHeld"
  BY DEF AfterLook
<1>4. /\ at' \in [Servers -> [Tasks -> Places]]
      /\ at'[s]["heartbeat"] = AfterLook(s)
      /\ \A u \in Tasks \ {"heartbeat"} : at'[s][u] = at[s][u]
      /\ \A q \in Servers \ {s} : at'[q] = at[q]
  BY <1>1, <1>2, <1>3, Moved DEF Places
<1>5. /\ held' \in [Servers -> [Tasks -> 0..MaxFence]]
      /\ held'[s]["heartbeat"] = lease[s]
      /\ \A u \in Tasks \ {"heartbeat"} : held'[s][u] = held[s][u]
      /\ \A q \in Servers \ {s} : held'[q] = held[q]
  BY <1>1, <1>2 DEF ControlTypeOK
<1>6. ControlTypeOK'
  BY <1>1, <1>2, <1>4, <1>5 DEF ControlTypeOK, LeaseTypeOK
<1>7. TasksOK(s)'
  BY <1>1, <1>2, <1>3, <1>4, <1>5 DEF TasksOK, Tasks, Ready
<1>8. Known(s)' \subseteq Known(s)
  BY <1>2, <1>5 DEF Known, Tasks
<1> QED
  BY <1>2, <1>4, <1>5, <1>6, <1>7, <1>8 DEF StepOK, Local, LearnsNothing, Closed

\* A renewal that succeeded writes the lease it renewed into the runtime, whatever another
\* task wrote there in the meantime.
LEMMA RenewedStep ==
  ASSUME ControlInv, NEW s \in Servers, RenewedWritten(s)
  PROVE  StepOK(s)
<1>1. ControlTypeOK /\ TasksOK(s) /\ "heartbeat" \in Tasks
  BY DEF ControlInv, Tasks
<1>2. /\ at[s].heartbeat = "renewed"
      /\ lease' = [lease EXCEPT ![s] = held[s].heartbeat]
      /\ Moves(s, "heartbeat", "reap")
      /\ UNCHANGED <<token, owner, expired, life, cell, shutdown, fate, held>>
  BY DEF RenewedWritten, row
<1>3. /\ at' \in [Servers -> [Tasks -> Places]]
      /\ at'[s]["heartbeat"] = "reap"
      /\ \A u \in Tasks \ {"heartbeat"} : at'[s][u] = at[s][u]
      /\ \A q \in Servers \ {s} : at'[q] = at[q]
  BY <1>1, <1>2, Moved DEF Places
<1>4. /\ lease' \in [Servers -> 0..MaxFence]
      /\ lease'[s] = held[s].heartbeat
      /\ \A q \in Servers \ {s} : lease'[q] = lease[q]
  BY <1>1, <1>2 DEF ControlTypeOK
<1>5. ControlTypeOK'
  BY <1>1, <1>2, <1>3, <1>4 DEF ControlTypeOK, LeaseTypeOK
<1>6. TasksOK(s)'
  BY <1>1, <1>2, <1>3, <1>4 DEF TasksOK, Tasks, Ready
<1>7. Known(s)' \subseteq Known(s)
  BY <1>2, <1>4 DEF Known, Tasks
<1> QED
  BY <1>2, <1>3, <1>4, <1>5, <1>6, <1>7 DEF StepOK, Local, LearnsNothing, Closed

\* The session task starts with the runtime's lease, or finds nothing to do.
LEMMA SessionStartStep ==
  ASSUME ControlInv, NEW s \in Servers, SessionStart(s)
  PROVE  StepOK(s)
<1>1. ControlTypeOK /\ TasksOK(s) /\ "session" \in Tasks
  BY DEF ControlInv, Tasks
<1>2. /\ at[s].session = "start"
      /\ UNCHANGED <<token, owner, expired, life, lease, cell, shutdown, fate>>
  BY DEF SessionStart, row
<1>3. CASE /\ life[s] = "ControlReady"
           /\ held' = [held EXCEPT ![s].session = lease[s]]
           /\ Moves(s, "session", "run")
  <2>1. /\ at' \in [Servers -> [Tasks -> Places]]
        /\ at'[s]["session"] = "run"
        /\ \A u \in Tasks \ {"session"} : at'[s][u] = at[s][u]
        /\ \A q \in Servers \ {s} : at'[q] = at[q]
    BY <1>1, <1>3, Moved DEF Places
  <2>2. /\ held' \in [Servers -> [Tasks -> 0..MaxFence]]
        /\ held'[s]["session"] = lease[s]
        /\ \A u \in Tasks \ {"session"} : held'[s][u] = held[s][u]
        /\ \A q \in Servers \ {s} : held'[q] = held[q]
    BY <1>1, <1>3 DEF ControlTypeOK
  <2>3. ControlTypeOK'
    BY <1>1, <1>2, <2>1, <2>2 DEF ControlTypeOK, LeaseTypeOK
  <2>4. TasksOK(s)'
    BY <1>1, <1>2, <1>3, <2>1, <2>2 DEF TasksOK, Tasks, Ready
  <2>5. Known(s)' \subseteq Known(s)
    BY <1>2, <2>2 DEF Known, Tasks
  <2> QED
    BY <1>2, <2>1, <2>2, <2>3, <2>4, <2>5 DEF StepOK, Local, LearnsNothing, Closed
<1>4. CASE Moves(s, "session", "done") /\ held' = held
  BY <1>1, <1>2, <1>4, QuietStep DEF ControlTypeOK, Places
<1> QED
  BY <1>3, <1>4 DEF SessionStart

\* The process ends.
LEMMA EndStep ==
  ASSUME ControlInv, NEW s \in Servers, Exit(s) \/ Crash(s)
  PROVE  StepOK(s)
<1>1. Gone(s) /\ UNCHANGED <<token, owner, expired>>
  BY DEF Exit, Crash, row
<1> QED
  BY <1>1, GoneFacts
  DEF ControlInv, ControlTypeOK, LeaseTypeOK, StepOK, LearnsNothing, Closed

\* Every step is a step of one process as described, or changes no more than the row's expiry.
LEMMA EveryStep ==
  ASSUME ControlInv, [ControlNext]_cvars
  PROVE  \/ \E s \in Servers : StepOK(s)
         \/ UNCHANGED <<token, owner, life, lease, cell, shutdown, at, fate, held>>
            /\ expired' \in BOOLEAN
<1>1. CASE UNCHANGED cvars \/ Expire
  BY <1>1 DEF cvars, Expire, ControlInv, ControlTypeOK
<1>2. ASSUME NEW s \in Servers,
             \/ Start(s) \/ Shutdown(s) \/ Exit(s)
             \/ HeartbeatStep(s) \/ HeartbeatShutdown(s) \/ SessionStep(s)
      PROVE  StepOK(s)
  BY <1>2, OtherQuietStep, ShutdownStep, EndStep, LookStep, HeartbeatQuietStep, RenewedStep,
     SessionStartStep
  DEF HeartbeatStep, SessionStep
<1>3. ASSUME NEW s \in Servers, Initializes(s) PROVE StepOK(s)
  BY <1>3, InitializingStep, InitializedStep, GrantStep, AcquireErrStep
  DEF Initializes, Initialize
<1>4. ASSUME NEW s \in Servers, Finishes(s) PROVE StepOK(s)
  BY <1>4, ReleaseStep, CloseStep DEF Finishes
<1>5. ASSUME NEW s \in Servers, Fault(s) PROVE StepOK(s)
  BY <1>5, EndStep, HeartbeatQuietStep, AcquireErrStep, InitializingStep, ReleaseStep DEF Fault
<1> QED
  BY <1>1, <1>2, <1>3, <1>4, <1>5 DEF ControlNext

\* The invariant is preserved.
LEMMA NextControlInv == ControlInv /\ [ControlNext]_cvars => ControlInv'
<1> SUFFICES ASSUME ControlInv, [ControlNext]_cvars PROVE ControlInv'
  OBVIOUS
<1>1. CASE \E s \in Servers : StepOK(s)
  BY <1>1, StepPreserves
<1>2. CASE /\ UNCHANGED <<token, owner, life, lease, cell, shutdown, at, fate, held>>
           /\ expired' \in BOOLEAN
  <2>1. ControlTypeOK'
    BY <1>2 DEF ControlInv, ControlTypeOK, LeaseTypeOK
  <2>2. ASSUME NEW s \in Servers PROVE TasksOK(s)'
    BY <1>2 DEF ControlInv, TasksOK, Ready
  <2>3. TokensOK'
    BY <1>2 DEF ControlInv, TokensOK, Known
  <2> QED
    BY <2>1, <2>2, <2>3 DEF ControlInv
<1> QED
  BY <1>1, <1>2, EveryStep

(***************************************************************************)
(* Theorems                                                                *)
(***************************************************************************)

\* The invariant holds whatever faults happen and however the tasks interleave.
THEOREM ControlInvariant == ControlSpec => []ControlInv
<1> QED
  BY InitControlInv, NextControlInv, PTL DEF ControlSpec

\* The runtime state and the row keep their types; no token passes the limit.
THEOREM ControlTypes == ControlSpec => []ControlTypeOK
<1>1. ControlInv => ControlTypeOK
  BY DEF ControlInv
<1> QED
  BY <1>1, ControlInvariant, PTL

\* A server that is ready has a token no other ready server has, and if it is the row's,
\* nobody else owns the row (service.rs, initialize and control_fencing_token).
THEOREM ReadyServersAreFenced == ControlSpec => []ReadyIsFenced
<1>1. ControlInv => ReadyIsFenced
  <2> SUFFICES ASSUME ControlInv, NEW s \in Servers, Ready(s)
               PROVE  /\ lease[s] # 0
                      /\ lease[s] = token => owner \in {s, NoServer}
                      /\ \A t \in Servers : Ready(t) /\ lease[t] = lease[s] => s = t
    BY DEF ReadyIsFenced
  <2>1. lease[s] # 0
    BY DEF ControlInv, TasksOK
  <2>2. \A q \in Servers : lease[q] \in Known(q)
    BY DEF Known
  <2> QED
    BY <2>1, <2>2 DEF ControlInv, TokensOK
<1> QED
  BY <1>1, ControlInvariant, PTL

\* A process that lost, blocked or stopped Live control never comes back to LeaseHeld or
\* ControlReady (service.rs, the writes of the heartbeat and of the session task).
THEOREM ControlFailsClosed == ControlSpec => FailClosed
<1>1. ControlInv /\ [ControlNext]_cvars =>
        [ \A s \in Servers :
            life[s] \in {"LeaseLost", "Blocked", "Stopped"}
              => life'[s] \notin {"LeaseHeld", "ControlReady"} ]_cvars
  <2> SUFFICES ASSUME ControlInv, [ControlNext]_cvars, NEW s \in Servers,
                      life[s] \in {"LeaseLost", "Blocked", "Stopped"}
               PROVE  life'[s] \notin {"LeaseHeld", "ControlReady"}
    OBVIOUS
  <2>1. ASSUME NEW q \in Servers, StepOK(q)
        PROVE  life'[s] \notin {"LeaseHeld", "ControlReady"}
    BY <2>1 DEF StepOK, Local, Closed
  <2> QED
    BY <2>1, EveryStep
<1> QED
  BY <1>1, ControlInvariant, PTL DEF ControlSpec, FailClosed

\* What the processes do to the row is what the abstract lease allows: an owner changes only
\* with a new token, and a token stays when its owner gives it up.
THEOREM ControlUsesTheLease == ControlSpec => LeaseSpec
<1>1. ControlInit => LeaseInit
  BY DEF ControlInit
<1>2. ControlInv /\ [ControlNext]_cvars => [LeaseNext]_lvars
  <2> SUFFICES ASSUME ControlInv, [ControlNext]_cvars PROVE [LeaseNext]_lvars
    OBVIOUS
  <2>1. ASSUME NEW s \in Servers, StepOK(s) PROVE [LeaseNext]_lvars
    <3>1. CASE LearnsNothing(s)
      BY <3>1 DEF LearnsNothing, LeaseNext, GiveUp, lvars
    <3>2. CASE IsGranted(s)
      BY <3>2 DEF IsGranted, Acquirable, NextToken, LeaseNext, Grant, lvars
    <3> QED
      BY <2>1, <3>1, <3>2 DEF StepOK
  <2> QED
    BY <2>1, EveryStep DEF lvars
<1> QED
  BY <1>1, <1>2, ControlInvariant, PTL DEF ControlSpec, LeaseSpec

=============================================================================
