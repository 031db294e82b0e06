--------------------------- MODULE LiveSessionProofs ---------------------------
(***************************************************************************)
(* Proofs about the session repository for every number of servers,        *)
(* sessions, keys and concurrent calls, both databases, and all limits.    *)
(***************************************************************************)
EXTENDS LiveSession, FiniteSetTheorems, TLAPS

(* The values that stand for "nothing" have the types of the tables.       *)
LEMMA Blanks ==
  /\ NoRow \in ReplayRows
  /\ NoRecord \in SessionRecords
  /\ Idle \in Calls
<1>1. SomeKey \in Keys /\ SomeBody \in Bodies
  BY LiveSessionAssumption DEF SomeKey, SomeBody
<1>2. NoRow \in ReplayRows
  BY <1>1 DEF NoRow, ReplayRows
<1>3. NoRecord \in SessionRecords
  BY <1>1 DEF NoRecord, SessionRecords, Modes, NoJob
<1>4. Idle \in Calls
  BY <1>1, <1>2 DEF Idle, Calls, Stages
<1> QED
  BY <1>2, <1>3, <1>4

(* A session whose fields are set to values of their types is a session.    *)
LEMMA SettingFields ==
  ASSUME NEW s \in SessionRecords
  PROVE  /\ \A v \in Terminal \cup Working \cup {Absent, Purged} :
              [s EXCEPT !.state = v] \in SessionRecords
         /\ \A v \in Nat : /\ [s EXCEPT !.revision = v] \in SessionRecords
                           /\ [s EXCEPT !.fence = v] \in SessionRecords
                           /\ [s EXCEPT !.token = v] \in SessionRecords
                           /\ [s EXCEPT !.expires = v] \in SessionRecords
                           /\ [s EXCEPT !.remux = v] \in SessionRecords
         /\ \A v \in Modes : [s EXCEPT !.mode = v] \in SessionRecords
         /\ s.revision + 1 \in Nat /\ s.revision + 2 \in Nat /\ s.token + 1 \in Nat /\ 0 \in Nat
BY DEF SessionRecords

(* A replay row with another token is the same row otherwise.               *)
LEMMA RotatingRow ==
  ASSUME NEW row \in ReplayRows, NEW t \in Nat
  PROVE  LET new == [row EXCEPT !.token = t]
         IN new \in ReplayRows /\ new.session = row.session /\ new.expires = row.expires
            /\ new.token = t
BY DEF ReplayRows

(* The empty tables satisfy the inductive invariant.                       *)
LEMMA InitSessionInv == Init => SessionInv
<1> SUFFICES ASSUME Init PROVE SessionInv
  OBVIOUS
<1> USE DEF Init, LeaseInit
<1>1. TypeOK
  BY Blanks, FencedLeaseAssumption DEF TypeOK, LeaseTypeOK
<1>2. CallsAreStale
  BY DEF CallsAreStale, Idle
<1>3. AbsentIsBlank /\ FenceBehindLease /\ JobOfCurrentServer
  BY DEF AbsentIsBlank, FenceBehindLease, JobOfCurrentServer, NoRecord, NoJob
<1>4. ReplayValid
  BY DEF ReplayValid, NoRow
<1> QED
  BY <1>1, <1>2, <1>3, <1>4 DEF SessionInv

(* A step that changes only the calls in progress, and leaves each of them *)
(* well formed, preserves the inductive invariant.                         *)
LEMMA CallStep ==
  ASSUME SessionInv, UNCHANGED <<token, owner, clock, session, replay>>,
         request' \in [Requests -> Calls],
         \A r \in Requests : request'[r].now <= clock,
         \A r \in Requests : request'[r].stage = "session" =>
           request'[r].session \in Sessions /\ request'[r].fence > 0
  PROVE  SessionInv'
<1>1. TypeOK'
  BY DEF SessionInv, TypeOK, LeaseTypeOK
<1>2. CallsAreStale'
  BY DEF CallsAreStale
<1>3. AbsentIsBlank' /\ FenceBehindLease' /\ JobOfCurrentServer'
  BY DEF SessionInv, AbsentIsBlank, FenceBehindLease, JobOfCurrentServer
<1>4. ReplayValid'
  BY DEF SessionInv, ReplayValid
<1> QED
  BY <1>1, <1>2, <1>3, <1>4 DEF SessionInv

(* Answering a call keeps the calls well formed.                           *)
LEMMA AnswerKeepsCalls ==
  ASSUME SessionInv, NEW r \in Requests, Answer(r)
  PROVE  /\ request' \in [Requests -> Calls]
         /\ \A q \in Requests : request'[q].now <= clock
         /\ \A q \in Requests : request'[q].stage = "session" =>
              request'[q].session \in Sessions /\ request'[q].fence > 0
<1>1. request' = [request EXCEPT ![r] = Idle] /\ request \in [Requests -> Calls] /\ Idle \in Calls
  BY Blanks DEF Answer, SessionInv, TypeOK
<1>2. clock \in Nat /\ Idle.now = 0 /\ Idle.stage = "idle"
  BY DEF SessionInv, TypeOK, Idle
<1> QED
  BY <1>1, <1>2 DEF SessionInv, CallsAreStale

(* What a transaction must write for the inductive invariant to survive:   *)
(* a fence the lease granted, a job of that fence, and replay rows that    *)
(* follow the delivery token of the session they name.                     *)
LEMMA CommitKeepsInv ==
  ASSUME SessionInv, NEW r \in Requests, NEW s \in SessionRecords,
         NEW rows \in [Keys -> ReplayRows],
         request[r].stage = "session", Commit(r, s, rows),
         s.state # Absent, s.fence <= token,
         s.remux \in {NoJob, s.fence},
         s.remux # NoJob => s.state \in Working /\ s.mode = "server_remux",
         \A k \in Keys : rows[k].session # NoSession =>
           /\ rows[k].session = replay[k].session
           /\ rows[k].session # request[r].session => rows[k] = replay[k]
           /\ rows[k].session = request[r].session =>
                /\ s.state \in Working /\ s.key = session[request[r].session].key
                /\ rows[k].expires > clock => rows[k].token = s.token
  PROVE  SessionInv'
<1> DEFINE x == request[r].session
<1>1. /\ x \in Sessions
      /\ session' = [session EXCEPT ![x] = s]
      /\ replay' = rows
      /\ UNCHANGED <<token, owner, clock>>
      /\ Answer(r)
  BY DEF Commit, SessionInv, CallsAreStale
<1>2. session \in [Sessions -> SessionRecords] /\ session' \in [Sessions -> SessionRecords]
  BY <1>1 DEF SessionInv, TypeOK
<1>3. \A y \in Sessions : session'[y] = IF y = x THEN s ELSE session[y]
  BY <1>1, <1>2
<1> HIDE DEF x
<1>4. TypeOK'
  BY <1>1, <1>2, AnswerKeepsCalls DEF SessionInv, TypeOK, LeaseTypeOK
<1>5. CallsAreStale'
  BY <1>1, AnswerKeepsCalls DEF CallsAreStale
<1>6. AbsentIsBlank'
  BY <1>3 DEF SessionInv, AbsentIsBlank
<1>7. FenceBehindLease'
  BY <1>1, <1>3 DEF SessionInv, FenceBehindLease
<1>8. JobOfCurrentServer'
  BY <1>3 DEF SessionInv, JobOfCurrentServer
<1>9. ReplayValid'
  <2> SUFFICES ASSUME NEW k \in Keys, rows[k].session # NoSession
               PROVE  /\ session'[rows[k].session].state \in Working
                      /\ session'[rows[k].session].key = k
                      /\ rows[k].expires > clock =>
                           rows[k].token = session'[rows[k].session].token
    BY <1>1 DEF ReplayValid
  <2>1. rows[k].session \in Sessions /\ rows[k].session = replay[k].session
    BY DEF ReplayRows
  <2>2. /\ session[replay[k].session].state \in Working
        /\ session[replay[k].session].key = k
        /\ replay[k].expires > clock => replay[k].token = session[replay[k].session].token
    BY <2>1 DEF SessionInv, ReplayValid
  <2>3. CASE rows[k].session = x
    BY <1>3, <2>1, <2>2, <2>3 DEF x
  <2>4. CASE rows[k].session # x
    BY <1>3, <2>1, <2>2, <2>4 DEF x
  <2> QED
    BY <2>3, <2>4
<1> QED
  BY <1>4, <1>5, <1>6, <1>7, <1>8, <1>9 DEF SessionInv

(* A transaction that leaves the replay rows and the delivery token alone.  *)
LEMMA CommitKeepingReplays ==
  ASSUME SessionInv, NEW r \in Requests, NEW s \in SessionRecords,
         request[r].stage = "session", Commit(r, s, replay),
         s.state \in Working, s.fence <= token, s.remux \in {NoJob, s.fence},
         s.remux # NoJob => s.mode = "server_remux",
         s.key = session[request[r].session].key,
         s.token = session[request[r].session].token
  PROVE  SessionInv'
<1>1. replay \in [Keys -> ReplayRows] /\ s.state # Absent
  BY DEF SessionInv, TypeOK, Working, Absent
<1>2. \A k \in Keys : replay[k].session # NoSession /\ replay[k].session = request[r].session
        => (replay[k].expires > clock => replay[k].token = s.token)
  BY DEF SessionInv, ReplayValid
<1> QED
  BY <1>1, <1>2, CommitKeepsInv

(* A transaction that changes the delivery token and rotates the replay     *)
(* rows with it; the rows it leaves are those that expired by the time the  *)
(* call captured, hence by now.                                             *)
LEMMA CommitRotatingReplays ==
  ASSUME SessionInv, NEW r \in Requests, NEW s \in SessionRecords,
         request[r].stage = "session",
         Commit(r, s, RotatedReplays(request[r].session, s.token, request[r].now)),
         s.state \in Working, s.fence <= token, s.remux \in {NoJob, s.fence},
         s.remux # NoJob => s.mode = "server_remux",
         s.key = session[request[r].session].key
  PROVE  SessionInv'
<1> DEFINE x == request[r].session
           rows == RotatedReplays(x, s.token, request[r].now)
<1>1. /\ replay \in [Keys -> ReplayRows] /\ s.state # Absent
      /\ s.token \in Nat /\ request[r].now \in Nat /\ clock \in Nat /\ request[r].now <= clock
  BY DEF SessionInv, TypeOK, Calls, Working, Absent, SessionRecords, CallsAreStale
<1>2. \A k \in Keys : rows[k] = IF replay[k].session = x /\ replay[k].expires > request[r].now
                                THEN [replay[k] EXCEPT !.token = s.token] ELSE replay[k]
  BY DEF RotatedReplays
<1>3. rows \in [Keys -> ReplayRows]
  BY <1>1 DEF RotatedReplays, ReplayRows
<1>4. \A k \in Keys :
        /\ rows[k].session = replay[k].session /\ rows[k].expires = replay[k].expires
        /\ replay[k].session # x => rows[k] = replay[k]
        /\ replay[k].session = x /\ replay[k].expires > clock => rows[k].token = s.token
  <2> SUFFICES ASSUME NEW k \in Keys
               PROVE  /\ rows[k].session = replay[k].session /\ rows[k].expires = replay[k].expires
                      /\ replay[k].session # x => rows[k] = replay[k]
                      /\ replay[k].session = x /\ replay[k].expires > clock
                           => rows[k].token = s.token
    OBVIOUS
  <2>1. replay[k] \in ReplayRows /\ replay[k].expires \in Nat
    BY <1>1 DEF ReplayRows
  <2> DEFINE new == [replay[k] EXCEPT !.token = s.token]
  <2>2. new.session = replay[k].session /\ new.expires = replay[k].expires /\ new.token = s.token
    BY <1>1, <2>1, RotatingRow
  <2>3. rows[k] = IF replay[k].session = x /\ replay[k].expires > request[r].now
                  THEN new ELSE replay[k]
    BY <1>2
  <2> HIDE DEF rows, new
  <2> QED
    BY <1>1, <2>1, <2>2, <2>3
<1>5. Commit(r, s, rows)
  OBVIOUS
<1> HIDE DEF rows
<1> QED
  BY <1>1, <1>3, <1>4, <1>5, CommitKeepsInv

(* A transaction that removes the replay rows of its session.               *)
LEMMA CommitDroppingReplays ==
  ASSUME SessionInv, NEW r \in Requests, NEW s \in SessionRecords,
         request[r].stage = "session", Commit(r, s, ReplaysWithout(request[r].session)),
         s.state # Absent, s.fence <= token, s.remux = NoJob
  PROVE  SessionInv'
<1> DEFINE x == request[r].session
           rows == ReplaysWithout(x)
<1>1. replay \in [Keys -> ReplayRows] /\ NoRow \in ReplayRows /\ NoRow.session = NoSession
  BY Blanks DEF SessionInv, TypeOK, NoRow
<1>2. rows \in [Keys -> ReplayRows]
      /\ \A k \in Keys : rows[k] = IF replay[k].session = x THEN NoRow ELSE replay[k]
  BY <1>1 DEF ReplaysWithout
<1>3. Commit(r, s, rows)
  OBVIOUS
<1> HIDE DEF rows
<1> QED
  BY <1>1, <1>2, <1>3, CommitKeepsInv

(* Every operation on a session preserves the inductive invariant.          *)
LEMMA OperationKeepsInv ==
  ASSUME SessionInv, NEW r \in Requests, request[r].stage = "session", Operation(r)
  PROVE  SessionInv'
<1> DEFINE x == request[r].session
           s == session[x]
           fence == request[r].fence
<1>1. /\ x \in Sessions /\ s \in SessionRecords /\ fence \in Nat /\ fence > 0
      /\ request[r].now \in Nat /\ token \in Nat /\ clock \in Nat
  BY FencedLeaseAssumption
     DEF SessionInv, CallsAreStale, TypeOK, LeaseTypeOK, Calls
<1>2. /\ s.fence <= token /\ s.remux \in {NoJob, s.fence}
      /\ s.remux # NoJob => s.state \in Working /\ s.mode = "server_remux"
  BY <1>1 DEF SessionInv, FenceBehindLease, JobOfCurrentServer
<1>3. Mutable(r) => s.state \in Working /\ s.fence = fence
  BY DEF Mutable, IsLive
<1>4. Target(r) = s
  BY DEF Target
<1> HIDE DEF s
<1> USE DEF NoJob
<1>5. ASSUME NEW next \in Working, Transition(r, next) PROVE SessionInv'
  <2> DEFINE t == [s EXCEPT !.state = next, !.revision = @ + 1]
  <2>1. Mutable(r) /\ Commit(r, t, replay)
    BY <1>5, <1>4 DEF s, Transition
  <2>2. t.state = next /\ t.fence = s.fence /\ t.remux = s.remux
        /\ t.mode = s.mode /\ t.key = s.key /\ t.token = s.token
    BY <1>1 DEF SessionRecords
  <2>3. t \in SessionRecords
    BY <1>1, SettingFields, Zenon
  <2> HIDE DEF t
  <2> QED
    BY <1>1, <1>2, <1>3, <2>1, <2>2, <2>3, CommitKeepingReplays DEF s
<1>6. ASSUME Heartbeat(r) PROVE SessionInv'
  <2> DEFINE until == Min2(request[r].now + SessionTtl, s.hard)
             t == [s EXCEPT !.expires = until, !.revision = @ + 1]
  <2>1. Mutable(r) /\ Commit(r, t, replay)
    BY <1>6, <1>4 DEF s, Heartbeat
  <2>2. until \in Nat
    BY <1>1, LiveSessionAssumption DEF SessionRecords, Min2
  <2> HIDE DEF until
  <2>3. t.state = s.state /\ t.fence = s.fence /\ t.remux = s.remux
        /\ t.mode = s.mode /\ t.key = s.key /\ t.token = s.token
    BY <1>1, <2>2 DEF SessionRecords
  <2>4. t \in SessionRecords
    BY <1>1, <2>2, SettingFields, Zenon
  <2> HIDE DEF t
  <2> QED
    BY <1>1, <1>2, <1>3, <2>1, <2>3, <2>4, CommitKeepingReplays DEF s
<1>7. ASSUME RotateDeliveryToken(r) PROVE SessionInv'
  <2> DEFINE t == [s EXCEPT !.token = @ + 1, !.revision = @ + 1]
  <2>1. t.state = s.state /\ t.fence = s.fence /\ t.remux = s.remux
        /\ t.mode = s.mode /\ t.key = s.key /\ t.token = s.token + 1
    BY <1>1 DEF SessionRecords
  <2>3. t \in SessionRecords
    BY <1>1, SettingFields, Zenon
  <2>2. Mutable(r) /\ Commit(r, t, RotatedReplays(x, s.token + 1, request[r].now))
    BY <1>7, <1>4 DEF s, RotateDeliveryToken
  <2> HIDE DEF t
  <2> QED
    BY <1>1, <1>2, <1>3, <2>1, <2>2, <2>3, CommitRotatingReplays DEF s
<1>8. ASSUME NEW action \in RecoveryActions, NEW mode \in Modes,
             ReplaceForRecovery(r, action, mode)
      PROVE SessionInv'
  <2> DEFINE t == [s EXCEPT !.state = "ready", !.revision = @ + RecoveryRevisions(action),
                            !.token = @ + 1, !.mode = mode, !.remux = NoJob]
  <2>1. s.revision + RecoveryRevisions(action) \in Nat
    BY <1>1 DEF RecoveryRevisions, SessionRecords
  <2>2. t.state = "ready" /\ t.fence = s.fence /\ t.remux = NoJob
        /\ t.key = s.key /\ t.token = s.token + 1
    BY <1>1, <2>1 DEF SessionRecords
  <2>5. t \in SessionRecords
    <3>1. "ready" \in Terminal \cup Working \cup {Absent, Purged}
      BY DEF Working
    <3> QED
      BY <1>1, <2>1, <3>1, SettingFields, Zenon
  <2>3. Mutable(r) /\ Commit(r, t, RotatedReplays(x, s.token + 1, request[r].now))
    BY <1>8, <1>4 DEF s, ReplaceForRecovery
  <2>4. "ready" \in Working
    BY DEF Working
  <2> HIDE DEF t
  <2> QED
    BY <1>1, <1>2, <1>3, <2>2, <2>3, <2>4, <2>5, CommitRotatingReplays DEF s
<1>9. ASSUME NEW action \in RecoveryActions, RecordRecoveryFailure(r, action)
      PROVE SessionInv'
  <2> DEFINE resume == IF s.state = "playing" THEN "playing" ELSE "ready"
             t == [s EXCEPT !.state = resume, !.revision = @ + 2]
  <2>1. Mutable(r) /\ Commit(r, t, replay)
    BY <1>9, <1>4 DEF s, RecordRecoveryFailure
  <2>2. resume \in Working
    BY DEF Working
  <2> HIDE DEF resume
  <2>3. t.state = resume /\ t.fence = s.fence /\ t.remux = s.remux
        /\ t.mode = s.mode /\ t.key = s.key /\ t.token = s.token
    BY <1>1, <2>2 DEF SessionRecords
  <2>4. t \in SessionRecords
    BY <1>1, <2>2, SettingFields, Zenon
  <2> HIDE DEF t
  <2> QED
    BY <1>1, <1>2, <1>3, <2>1, <2>2, <2>3, <2>4, CommitKeepingReplays DEF s
<1>10. ASSUME BindRemuxJob(r) PROVE SessionInv'
  <2> DEFINE t == [s EXCEPT !.remux = fence]
  <2>1. Mutable(r) /\ Commit(r, t, replay) /\ s.mode = "server_remux"
    BY <1>10, <1>4 DEF s, BindRemuxJob
  <2>2. t \in SessionRecords /\ t.state = s.state /\ t.fence = s.fence /\ t.remux = fence
        /\ t.mode = s.mode /\ t.key = s.key /\ t.token = s.token
    BY <1>1 DEF SessionRecords
  <2> HIDE DEF t
  <2> QED
    BY <1>1, <1>2, <1>3, <2>1, <2>2, CommitKeepingReplays DEF s
<1>11. ASSUME ClearRemuxJob(r) PROVE SessionInv'
  <2> DEFINE t == [s EXCEPT !.remux = NoJob]
  <2>1. Commit(r, t, replay) /\ s.remux = fence
    BY <1>11, <1>4 DEF s, ClearRemuxJob
  <2>2. t \in SessionRecords /\ t.state = s.state /\ t.fence = s.fence /\ t.remux = NoJob
        /\ t.mode = s.mode /\ t.key = s.key /\ t.token = s.token
    BY <1>1 DEF SessionRecords
  <2> HIDE DEF t
  <2> QED
    BY <1>1, <1>2, <2>1, <2>2, CommitKeepingReplays DEF s
<1>12. ASSUME NEW reason \in Terminal, Terminate(r, reason) PROVE SessionInv'
  <2> DEFINE until == Min2(s.hard, request[r].now)
             t == [s EXCEPT !.state = reason, !.revision = @ + 1, !.token = @ + 1,
                            !.remux = NoJob, !.expires = until]
  <2>1. Commit(r, t, ReplaysWithout(x))
    BY <1>12 DEF s, Terminate
  <2>2. until \in Nat
    BY <1>1 DEF SessionRecords, Min2
  <2> HIDE DEF until
  <2>3. t.state = reason /\ t.fence = s.fence /\ t.remux = NoJob
    BY <1>1, <2>2 DEF SessionRecords
  <2>5. t \in SessionRecords
    BY <1>1, <2>2, SettingFields, Zenon
  <2>4. reason # Absent
    BY DEF Terminal, Absent
  <2> HIDE DEF t
  <2> QED
    BY <1>1, <1>2, <2>1, <2>3, <2>4, <2>5, CommitDroppingReplays DEF s
<1>13. ASSUME TerminateAgain(r) PROVE SessionInv'
  <2>1. s.state \in Terminal /\ Commit(r, s, ReplaysWithout(x))
    BY <1>13, <1>4 DEF s, TerminateAgain, IsTerminal
  <2>2. s.state # Absent /\ s.state \notin Working
    BY <2>1 DEF Terminal, Absent, Working
  <2> QED
    BY <1>1, <1>2, <2>1, <2>2, CommitDroppingReplays DEF s
<1>14. ASSUME AdoptControlFence(r) PROVE SessionInv'
  <2> DEFINE t == Adopted(s, fence)
  <2>1. Commit(r, t, replay) /\ s.state \in Working /\ fence = token
    BY <1>14, <1>4 DEF s, AdoptControlFence, Commit, Fenced
  <2>2. t.state = s.state /\ t.fence = fence /\ t.remux = NoJob
        /\ t.key = s.key /\ t.token = s.token
    BY <1>1 DEF SessionRecords, Adopted
  <2>3. t \in SessionRecords
    BY <1>1, SettingFields, Zenon DEF Adopted
  <2> HIDE DEF t
  <2> QED
    BY <1>1, <1>2, <2>1, <2>2, <2>3, CommitKeepingReplays DEF s
<1>15. ASSUME Reencrypt(r) PROVE SessionInv'
  <2> DEFINE t == [s EXCEPT !.revision = @ + 1]
  <2>1. Commit(r, t, replay) /\ s.state \in Working
    BY <1>15, <1>4 DEF s, Reencrypt
  <2>2. t \in SessionRecords /\ t.state = s.state /\ t.fence = s.fence /\ t.remux = s.remux
        /\ t.mode = s.mode /\ t.key = s.key /\ t.token = s.token
    BY <1>1 DEF SessionRecords
  <2> HIDE DEF t
  <2> QED
    BY <1>1, <1>2, <2>1, <2>2, CommitKeepingReplays DEF s
<1>16. ASSUME NEW gone \in SUBSET Sessions, Sweep(r, gone) PROVE SessionInv'
  <2>1. /\ UNCHANGED <<token, owner, clock>> /\ Answer(r)
        /\ \A y \in gone : session[y].state \in Terminal
    BY <1>16 DEF Sweep, IsTerminal
  <2>2. session' = [y \in Sessions |-> IF y \in gone THEN [session[y] EXCEPT !.state = Purged]
                                                    ELSE session[y]]
    BY <1>16 DEF Sweep
  <2>3. \A y \in Sessions : session[y] \in SessionRecords
    BY DEF SessionInv, TypeOK
  <2>4. \A y \in Sessions :
          /\ session'[y] \in SessionRecords
          /\ y \notin gone => session'[y] = session[y]
          /\ y \in gone => /\ session'[y].state = Purged
                           /\ session'[y].fence = session[y].fence
                           /\ session'[y].remux = session[y].remux
    <3> SUFFICES ASSUME NEW y \in Sessions
                 PROVE  /\ session'[y] \in SessionRecords
                        /\ y \notin gone => session'[y] = session[y]
                        /\ y \in gone => /\ session'[y].state = Purged
                                         /\ session'[y].fence = session[y].fence
                                         /\ session'[y].remux = session[y].remux
      OBVIOUS
    <3> DEFINE u == session[y]
               t == [u EXCEPT !.state = Purged]
    <3>1. u \in SessionRecords /\ session'[y] = IF y \in gone THEN t ELSE u
      BY <2>2, <2>3
    <3> HIDE DEF u
    <3>2. t \in SessionRecords
      BY <3>1, SettingFields, Zenon
    <3>3. t.state = Purged /\ t.fence = u.fence /\ t.remux = u.remux
      BY <3>1 DEF SessionRecords
    <3> HIDE DEF t
    <3> QED
      BY <3>1, <3>2, <3>3 DEF u
  <2>5. \A k \in Keys :
          (replay'[k] = replay[k] /\ replay[k].session \notin gone) \/ replay'[k] = NoRow
    BY <1>16 DEF Sweep
  <2>6. NoRow.session = NoSession /\ NoRow \in ReplayRows /\ replay \in [Keys -> ReplayRows]
    BY Blanks DEF NoRow, SessionInv, TypeOK
  <2>7. TypeOK'
    <3>1. session' \in [Sessions -> SessionRecords]
      BY <2>2, <2>4
    <3>2. replay' \in [Keys -> ReplayRows]
      BY <1>16, <2>6 DEF Sweep
    <3> QED
      BY <2>1, <3>1, <3>2, AnswerKeepsCalls DEF SessionInv, TypeOK, LeaseTypeOK
  <2>8. CallsAreStale'
    BY <2>1, AnswerKeepsCalls DEF CallsAreStale
  <2>9. AbsentIsBlank'
    BY <2>4 DEF SessionInv, AbsentIsBlank, Absent, Purged
  <2>10. FenceBehindLease'
    BY <2>1, <2>4 DEF SessionInv, FenceBehindLease
  <2>11. JobOfCurrentServer'
    BY <2>1, <2>4 DEF SessionInv, JobOfCurrentServer, Terminal, Working
  <2>12. ReplayValid'
    BY <2>1, <2>4, <2>5, <2>6 DEF SessionInv, ReplayValid, ReplayRows
  <2> QED
    BY <2>7, <2>8, <2>9, <2>10, <2>11, <2>12 DEF SessionInv
<1> QED
  BY <1>5, <1>6, <1>7, <1>8, <1>9, <1>10, <1>11, <1>12, <1>13, <1>14, <1>15, <1>16
     DEF Operation

(* Every step of a create preserves the inductive invariant: only the insert *)
(* writes a session, on an id that no replay row can name.                   *)
LEMMA CreateKeepsInv ==
  ASSUME SessionInv, NEW r \in Requests, Create(r)
  PROVE  SessionInv'
<1>1. /\ request \in [Requests -> Calls] /\ clock \in Nat /\ token \in Nat
      /\ replay \in [Keys -> ReplayRows] /\ NoRow \in ReplayRows /\ Idle \in Calls
      /\ NoRow.session = NoSession /\ Idle.stage = "idle" /\ Idle.now = 0
  BY Blanks, FencedLeaseAssumption DEF SessionInv, TypeOK, LeaseTypeOK, NoRow, Idle
<1>2. \A q \in Requests : /\ request[q].now <= clock
                          /\ request[q].stage = "session" =>
                               request[q].session \in Sessions /\ request[q].fence > 0
  BY DEF SessionInv, CallsAreStale
<1>3. ASSUME NEW k \in Keys, NEW b \in Bodies, BeginCreate(r, k, b) PROVE SessionInv'
  <2> DEFINE c == [Idle EXCEPT !.stage = "queued", !.now = clock, !.key = k, !.body = b]
  <2>1. c \in Calls /\ c.stage = "queued" /\ c.now = clock
    BY <1>1 DEF Calls, Stages, Idle
  <2>2. request' = [request EXCEPT ![r] = c] /\ UNCHANGED <<token, owner, clock, session, replay>>
    BY <1>3 DEF BeginCreate
  <2> HIDE DEF c
  <2> QED
    BY <1>1, <1>2, <2>1, <2>2, CallStep
<1>4. ASSUME NEW f \in 1..token, AcquireCreateLock(r, f) PROVE SessionInv'
  <2> DEFINE d == request[r]
             c == [d EXCEPT !.stage = "lookup", !.fence = f]
  <2>1. c \in Calls /\ c.stage = "lookup" /\ c.now = d.now
    <3>1. d \in Calls /\ f \in Nat
      BY <1>1
    <3> HIDE DEF d
    <3>2. [d EXCEPT !.stage = "lookup"] \in Calls
      BY <3>1 DEF Calls, Stages
    <3>3. \A e \in Calls : [e EXCEPT !.fence = f] \in Calls
      BY <3>1 DEF Calls
    <3>4. c \in Calls
      BY <3>2, <3>3, Zenon
    <3> QED
      BY <3>1, <3>4 DEF Calls
  <2>2. request' = [request EXCEPT ![r] = c] /\ UNCHANGED <<token, owner, clock, session, replay>>
    BY <1>1, <1>4 DEF AcquireCreateLock
  <2> HIDE DEF c
  <2> QED
    BY <1>1, <1>2, <2>1, <2>2, CallStep
<1>5. ASSUME NEW stage \in Stages \ {"session"}, Advance(r, stage),
             UNCHANGED <<token, owner, clock, session, replay>>
      PROVE SessionInv'
  <2> DEFINE c == [request[r] EXCEPT !.stage = stage]
  <2>1. c \in Calls /\ c.stage = stage /\ c.now = request[r].now
    BY <1>1 DEF Calls
  <2>2. request' = [request EXCEPT ![r] = c]
    BY <1>1, <1>5 DEF Advance
  <2> HIDE DEF c
  <2> QED
    BY <1>1, <1>2, <1>5, <2>1, <2>2, CallStep
<1>6. ASSUME Answer(r), UNCHANGED <<token, owner, clock, session, replay>> PROVE SessionInv'
  BY <1>6, AnswerKeepsCalls, CallStep
<1>7. ASSUME NEW stage \in Stages \ {"session"}, NEW row \in ReplayRows,
             request' = [request EXCEPT ![r].stage = stage, ![r].row = row]
      PROVE  /\ request' \in [Requests -> Calls]
             /\ \A q \in Requests : request'[q].now <= clock
             /\ \A q \in Requests : request'[q].stage = "session" =>
                  request'[q].session \in Sessions /\ request'[q].fence > 0
  <2> DEFINE c == [request[r] EXCEPT !.stage = stage, !.row = row]
  <2>1. c \in Calls /\ c.stage = stage /\ c.now = request[r].now
    BY <1>1 DEF Calls
  <2>2. request' = [request EXCEPT ![r] = c]
    BY <1>1, <1>7
  <2> HIDE DEF c
  <2> QED
    BY <1>1, <1>2, <2>1, <2>2
<1>8. request[r].key \in Keys /\ replay[request[r].key] \in ReplayRows
  BY <1>1 DEF Calls
<1>9. "create" \in Stages \ {"session"} /\ "delete" \in Stages \ {"session"}
      /\ "insert" \in Stages \ {"session"}
  BY DEF Stages
<1> DEFINE Remember(stage) ==
             request' = [request EXCEPT ![r].stage = stage, ![r].row = replay[request[r].key]]
<1>18. ASSUME NEW stage \in Stages \ {"session"}, Remember(stage),
              UNCHANGED <<token, owner, clock, session, replay>>
       PROVE SessionInv'
  <2> DEFINE row == replay[request[r].key]
  <2>1. row \in ReplayRows /\ request' = [request EXCEPT ![r].stage = stage, ![r].row = row]
    BY <1>8, <1>18
  <2> HIDE DEF row
  <2>2. /\ request' \in [Requests -> Calls]
        /\ \A q \in Requests : request'[q].now <= clock
        /\ \A q \in Requests : request'[q].stage = "session" =>
             request'[q].session \in Sessions /\ request'[q].fence > 0
    BY <1>7, <2>1
  <2> QED
    BY <1>18, <2>2, CallStep
<1>10. CASE LookupIdempotency(r)
  <2>1. Advance(r, "create") \/ Remember("delete") \/ Answer(r)
    BY <1>10 DEF LookupIdempotency
  <2>2. UNCHANGED <<token, owner, clock, session, replay>>
    BY <1>10 DEF LookupIdempotency
  <2> HIDE DEF Remember
  <2> QED
    BY <1>5, <1>6, <1>9, <1>18, <2>1, <2>2
<1>11. CASE CreateLookup(r)
  <2>1. Remember("insert") \/ Answer(r)
    BY <1>11 DEF CreateLookup
  <2>2. UNCHANGED <<token, owner, clock, session, replay>>
    BY <1>11 DEF CreateLookup
  <2> HIDE DEF Remember
  <2> QED
    BY <1>6, <1>9, <1>18, <2>1, <2>2
<1>12. CASE CreateRetry(r)
  BY <1>5, <1>9, <1>12 DEF CreateRetry
<1>13. CASE CreateAtCapacity(r)
  BY <1>6, <1>13 DEF CreateAtCapacity
<1>14. ASSUME replay' \in {replay, [replay EXCEPT ![request[r].key] = NoRow]},
              request' \in [Requests -> Calls],
              \A q \in Requests : request'[q].now <= clock,
              \A q \in Requests : request'[q].stage = "session" =>
                request'[q].session \in Sessions /\ request'[q].fence > 0,
              UNCHANGED <<token, owner, clock, session>>
       PROVE  SessionInv'
  <2>1. \A k \in Keys : replay'[k] = replay[k] \/ replay'[k] = NoRow
    BY <1>1, <1>8, <1>14
  <2>2. TypeOK'
    <3>1. replay' \in [Keys -> ReplayRows]
      BY <1>1, <1>14
    <3> QED
      BY <1>14, <3>1 DEF SessionInv, TypeOK, LeaseTypeOK
  <2>3. CallsAreStale'
    BY <1>14 DEF CallsAreStale
  <2>5. AbsentIsBlank' /\ FenceBehindLease' /\ JobOfCurrentServer'
    BY <1>14 DEF SessionInv, AbsentIsBlank, FenceBehindLease, JobOfCurrentServer
  <2>4. ReplayValid'
    BY <1>1, <1>14, <2>1 DEF SessionInv, ReplayValid
  <2> QED
    BY <2>2, <2>3, <2>4, <2>5 DEF SessionInv
<1>15. CASE DeleteExpired(r)
  BY <1>1, <1>7, <1>9, <1>14, <1>15 DEF DeleteExpired
<1>16. CASE LoadReplayAfterRace(r)
  BY <1>14, <1>16, AnswerKeepsCalls DEF LoadReplayAfterRace
<1>17. ASSUME NEW x \in Sessions, NEW mode \in Modes, CreateInsert(r, x, mode)
       PROVE SessionInv'
  <2> DEFINE k == request[r].key
             s == NewSession(r, mode)
             row == [session |-> x, body |-> request[r].body, token |-> 1,
                     expires |-> request[r].now + ReplayTtl]
  <2>1. /\ session' = [session EXCEPT ![x] = s] /\ replay' = [replay EXCEPT ![k] = row]
        /\ UNCHANGED <<token, owner, clock>> /\ Answer(r)
        /\ session[x].state = Absent /\ request[r].fence = token
    BY <1>17 DEF CreateInsert, Inserting, Fenced
  <2>2. request[r].now \in Nat /\ request[r].body \in Bodies
    BY <1>1 DEF Calls
  <2>3. row \in ReplayRows /\ row.session = x /\ row.token = 1
    BY <2>2, LiveSessionAssumption DEF ReplayRows
  <2>4. s \in SessionRecords /\ s.state = "resolving" /\ s.fence = token /\ s.token = 1
        /\ s.remux = NoJob /\ s.key = k
    BY <1>1, <1>8, <2>1, <2>2, LiveSessionAssumption
       DEF NewSession, SessionRecords, Min2, NoJob, Working
  <2>5. "resolving" \in Working /\ "resolving" # Absent
    BY DEF Working, Absent
  <2> HIDE DEF row, s
  <2>6. \A y \in Sessions : session'[y] = IF y = x THEN s ELSE session[y]
    BY <2>1 DEF SessionInv, TypeOK
  <2>7. \A j \in Keys : replay'[j] = IF j = k THEN row ELSE replay[j]
    BY <1>1, <2>1
  <2>8. \A j \in Keys : replay[j].session # NoSession =>
          replay[j].session \in Sessions /\ replay[j].session # x
    BY <1>1, <2>1 DEF SessionInv, ReplayValid, ReplayRows, Working, Absent
  <2>9. TypeOK'
    BY <1>1, <2>1, <2>3, <2>4, AnswerKeepsCalls DEF SessionInv, TypeOK, LeaseTypeOK
  <2>10. CallsAreStale'
    BY <2>1, AnswerKeepsCalls DEF CallsAreStale
  <2>11. AbsentIsBlank'
    BY <2>4, <2>5, <2>6 DEF SessionInv, AbsentIsBlank
  <2>12. FenceBehindLease'
    BY <1>1, <2>1, <2>4, <2>6 DEF SessionInv, FenceBehindLease
  <2>13. JobOfCurrentServer'
    BY <2>4, <2>6 DEF SessionInv, JobOfCurrentServer
  <2>14. ReplayValid'
    BY <2>1, <2>3, <2>4, <2>5, <2>6, <2>7, <2>8 DEF SessionInv, ReplayValid
  <2> QED
    BY <2>9, <2>10, <2>11, <2>12, <2>13, <2>14 DEF SessionInv
<1> QED
  BY <1>3, <1>4, <1>10, <1>11, <1>12, <1>13, <1>15, <1>16, <1>17 DEF Create

(* Every step preserves the inductive invariant.                            *)
LEMMA NextSessionInv == SessionInv /\ [Next]_vars => SessionInv'
<1> SUFFICES ASSUME SessionInv, [Next]_vars PROVE SessionInv'
  OBVIOUS
<1>1. CASE Tick
  <2>1. clock' = clock + 1 /\ clock \in Nat /\ UNCHANGED <<token, owner, session, replay, request>>
    BY <1>1 DEF Tick, SessionInv, TypeOK
  <2>2. TypeOK'
    BY <2>1 DEF SessionInv, TypeOK, LeaseTypeOK
  <2>3. CallsAreStale'
    BY <2>1 DEF SessionInv, TypeOK, Calls, CallsAreStale
  <2>4. AbsentIsBlank' /\ FenceBehindLease' /\ JobOfCurrentServer'
    BY <2>1 DEF SessionInv, AbsentIsBlank, FenceBehindLease, JobOfCurrentServer
  <2>5. ReplayValid'
    BY <2>1 DEF SessionInv, TypeOK, ReplayRows, ReplayValid
  <2> QED
    BY <2>2, <2>3, <2>4, <2>5 DEF SessionInv
<1>2. CASE LeaseStep
  <2>1. UNCHANGED svars /\ LeaseTypeOK' /\ token' >= token /\ token \in Nat /\ token' \in Nat
    BY <1>2, FencedLeaseAssumption
       DEF LeaseStep, LeaseNext, Grant, GiveUp, SessionInv, TypeOK, LeaseTypeOK
  <2>2. TypeOK'
    BY <2>1 DEF SessionInv, TypeOK, svars
  <2>3. CallsAreStale' /\ AbsentIsBlank' /\ JobOfCurrentServer' /\ ReplayValid'
    BY <2>1 DEF SessionInv, CallsAreStale, AbsentIsBlank, JobOfCurrentServer, ReplayValid, svars
  <2>4. FenceBehindLease'
    BY <2>1 DEF SessionInv, TypeOK, SessionRecords, FenceBehindLease, svars
  <2> QED
    BY <2>2, <2>3, <2>4 DEF SessionInv
<1>3. ASSUME NEW r \in Requests, Step(r) PROVE SessionInv'
  <2>1. ASSUME NEW x \in Sessions, NEW f \in 1..token, NEW now \in 1..clock,
               BeginCall(r, x, f, now)
        PROVE SessionInv'
    <3> DEFINE c == [stage |-> "session", now |-> now, fence |-> f, session |-> x,
                     revision |-> session[x].revision, previous |-> session[x].fence,
                     key |-> SomeKey, body |-> SomeBody, row |-> NoRow]
    <3>1. /\ f \in Nat /\ f > 0 /\ now \in Nat /\ now <= clock
          /\ session[x].revision \in Nat /\ session[x].fence \in Nat
      BY FencedLeaseAssumption DEF SessionInv, TypeOK, LeaseTypeOK, SessionRecords
    <3>3. SomeKey \in Keys /\ SomeBody \in Bodies /\ NoRow \in ReplayRows
      BY Blanks, LiveSessionAssumption DEF SomeKey, SomeBody
    <3>4. c \in Calls /\ c.stage = "session" /\ c.now = now /\ c.session = x /\ c.fence = f
      BY <3>1, <3>3 DEF Calls, Stages
    <3>5. request' = [request EXCEPT ![r] = c] /\ UNCHANGED <<token, owner, clock, session, replay>>
      BY <2>1 DEF BeginCall
    <3> HIDE DEF c
    <3>6. request \in [Requests -> Calls]
      BY DEF SessionInv, TypeOK
    <3>7. \A q \in Requests : /\ request[q].now <= clock
                              /\ request[q].stage = "session" =>
                                   request[q].session \in Sessions /\ request[q].fence > 0
      BY DEF SessionInv, CallsAreStale
    <3> QED
      BY <3>1, <3>4, <3>5, <3>6, <3>7, CallStep
  <2>2. ASSUME request[r].stage = "session", Operation(r) PROVE SessionInv'
    BY <2>2, OperationKeepsInv
  <2>3. CASE Create(r)
    BY <2>3, CreateKeepsInv
  <2>4. CASE Refuse(r)
    BY <2>4, AnswerKeepsCalls, CallStep DEF Refuse, Answer
  <2> QED
    BY <1>3, <2>1, <2>2, <2>3, <2>4 DEF Step
<1>4. CASE UNCHANGED vars
  <2>1. UNCHANGED <<token, owner, clock, session, replay, request>>
    BY <1>4 DEF vars, svars
  <2> QED
    BY <2>1, CallStep DEF SessionInv, TypeOK, CallsAreStale
<1> QED
  BY <1>1, <1>2, <1>3, <1>4 DEF Next

(* The inductive invariant holds in every reachable state.                  *)
THEOREM SessionInvariant == Spec => []SessionInv
<1>1. Init => SessionInv
  BY InitSessionInv
<1>2. SessionInv /\ [Next]_vars => SessionInv'
  BY NextSessionInv
<1> QED
  BY <1>1, <1>2, PTL DEF Spec

(* The tables and the calls keep their types.                               *)
THEOREM SessionTypes == Spec => []TypeOK
<1>1. SessionInv => TypeOK
  BY DEF SessionInv
<1> QED
  BY <1>1, SessionInvariant, PTL

(* No session carries a fencing token that the lease did not grant.         *)
THEOREM FencesBehindLease == Spec => []FenceBehindLease
<1>1. SessionInv => FenceBehindLease
  BY DEF SessionInv
<1> QED
  BY <1>1, SessionInvariant, PTL

(* A replay row that has not expired names a working session of its key and *)
(* carries its current delivery token.                                      *)
THEOREM ReplaysStayValid == Spec => []ReplayValid
<1>1. SessionInv => ReplayValid
  BY DEF SessionInv
<1> QED
  BY <1>1, SessionInvariant, PTL

(* A bound remux job belongs to the server that holds the session.          *)
THEOREM NoOrphanedJobs == Spec => []JobOfCurrentServer
<1>1. SessionInv => JobOfCurrentServer
  BY DEF SessionInv
<1> QED
  BY <1>1, SessionInvariant, PTL

(* The bodies of the two action properties, for one session.                *)
Fences(x) ==
  session'[x] # session[x] /\ session'[x].state # Purged
    => session'[x].fence = token /\ owner # NoServer
Orders(x) ==
  LET s == session[x] t == session'[x]
  IN /\ t.fence >= s.fence /\ t.revision >= s.revision /\ t.token >= s.token
     /\ s.state \in Terminal => t \in {s, [s EXCEPT !.state = Purged]}
     /\ t.revision = s.revision /\ t.state # Purged => t = [s EXCEPT !.remux = t.remux]

(* A step that leaves the sessions alone satisfies both.                     *)
LEMMA SameSessions ==
  ASSUME SessionInv, session' = session
  PROVE  \A x \in Sessions : Fences(x) /\ Orders(x)
<1> SUFFICES ASSUME NEW x \in Sessions PROVE Fences(x) /\ Orders(x)
  OBVIOUS
<1> DEFINE s == session[x]
<1>1. s \in SessionRecords
  BY DEF SessionInv, TypeOK
<1> HIDE DEF s
<1>2. /\ s.fence >= s.fence /\ s.revision >= s.revision /\ s.token >= s.token
      /\ s = [s EXCEPT !.remux = s.remux]
  BY <1>1 DEF SessionRecords
<1> QED
  BY <1>2 DEF s, Fences, Orders

(* What a transaction must write to satisfy both.                            *)
LEMMA CommitOrders ==
  ASSUME SessionInv, NEW r \in Requests, NEW t, NEW rows,
         request[r].stage = "session", Commit(r, t, rows),
         LET s == session[request[r].session]
         IN /\ t # s => t.fence = request[r].fence
            /\ t.fence >= s.fence /\ t.revision >= s.revision /\ t.token >= s.token
            /\ s.state \in Terminal => t = s
            /\ t.revision = s.revision => t = [s EXCEPT !.remux = t.remux]
  PROVE  \A x \in Sessions : Fences(x) /\ Orders(x)
<1> SUFFICES ASSUME NEW x \in Sessions PROVE Fences(x) /\ Orders(x)
  OBVIOUS
<1>1. /\ session' = [session EXCEPT ![request[r].session] = t]
      /\ token = request[r].fence /\ owner # NoServer
      /\ session \in [Sessions -> SessionRecords]
  BY DEF Commit, Fenced, SessionInv, TypeOK
<1>2. CASE x = request[r].session
  BY <1>1, <1>2 DEF Fences, Orders
<1>3. CASE x # request[r].session
  <2> DEFINE s == session[x]
  <2>1. s \in SessionRecords /\ session'[x] = s
    BY <1>1, <1>3
  <2> HIDE DEF s
  <2>2. /\ s.fence >= s.fence /\ s.revision >= s.revision /\ s.token >= s.token
        /\ s = [s EXCEPT !.remux = s.remux]
    BY <2>1 DEF SessionRecords
  <2> QED
    BY <2>1, <2>2 DEF s, Fences, Orders
<1> QED
  BY <1>2, <1>3

(* Every operation on a session satisfies both.                              *)
LEMMA OperationOrders ==
  ASSUME SessionInv, NEW r \in Requests, request[r].stage = "session", Operation(r)
  PROVE  \A x \in Sessions : Fences(x) /\ Orders(x)
<1> DEFINE Goal == \A x \in Sessions : Fences(x) /\ Orders(x)
           s == session[request[r].session]
           fence == request[r].fence
           now == request[r].now
<1>1. request[r].session \in Sessions /\ fence \in Nat /\ fence > 0
  BY DEF SessionInv, CallsAreStale, TypeOK, Calls
<1>2. s \in SessionRecords
  BY <1>1 DEF SessionInv, TypeOK
<1>3. s.remux # NoJob => s.state \in Working
  BY <1>1 DEF SessionInv, JobOfCurrentServer
<1>4. Mutable(r) => s.state \in Working /\ s.fence = fence
  BY DEF Mutable, IsLive
<1>5. s.state \in Working => s.state \notin Terminal
  BY DEF Working, Terminal
<1>6. Target(r) = s
  BY DEF Target
<1> HIDE DEF Goal, s
<1>7. ASSUME NEW t, NEW rows, Commit(r, t, rows), s.state \in Working,
             t.fence = fence, t.fence >= s.fence, t.token >= s.token,
             t.revision \in Nat, t.revision > s.revision
      PROVE Goal
  <2>1. /\ t # s => t.fence = fence
        /\ t.fence >= s.fence /\ t.revision >= s.revision /\ t.token >= s.token
        /\ s.state \in Terminal => t = s
        /\ t.revision = s.revision => t = [s EXCEPT !.remux = t.remux]
    <3>1. s.revision \in Nat
      BY <1>2 DEF SessionRecords
    <3>2. t.revision > s.revision => t.revision # s.revision /\ t.revision >= s.revision
      BY <1>7, <3>1
    <3> QED
      BY <1>5, <1>7, <3>2
  <2> QED
    BY <1>7, <2>1, CommitOrders DEF s, Goal
<1>8. ASSUME NEW v \in Nat, Commit(r, [s EXCEPT !.remux = v], replay),
             s.state \in Working, s.fence = fence
      PROVE Goal
  <2> DEFINE t == [s EXCEPT !.remux = v]
  <2>1. /\ t.fence = s.fence /\ t.revision = s.revision /\ t.token = s.token /\ t.remux = v
        /\ s.fence >= s.fence /\ s.revision >= s.revision /\ s.token >= s.token
    BY <1>2 DEF SessionRecords
  <2>2. t = [s EXCEPT !.remux = t.remux] /\ Commit(r, t, replay)
    BY <1>8, <2>1
  <2> HIDE DEF t
  <2> QED
    BY <1>5, <1>8, <2>1, <2>2, CommitOrders DEF s, Goal
<1>9. ASSUME NEW next \in Working, Transition(r, next) PROVE Goal
  <2> DEFINE t == [s EXCEPT !.state = next, !.revision = @ + 1]
  <2>1. Commit(r, t, replay) /\ s.state \in Working /\ s.fence = fence
    BY <1>9, <1>4, <1>6 DEF s, Transition
  <2>2. t.fence = s.fence /\ t.token >= s.token /\ t.revision > s.revision
        /\ s.fence >= s.fence /\ t.revision \in Nat
    BY <1>2 DEF SessionRecords
  <2> HIDE DEF t
  <2> QED
    BY <1>7, <2>1, <2>2
<1>10. ASSUME Heartbeat(r) PROVE Goal
  <2> DEFINE t == [s EXCEPT !.expires = Min2(now + SessionTtl, s.hard), !.revision = @ + 1]
  <2>1. Commit(r, t, replay) /\ s.state \in Working /\ s.fence = fence
    BY <1>10, <1>4, <1>6 DEF s, Heartbeat
  <2>2. t.fence = s.fence /\ t.token >= s.token /\ t.revision > s.revision
        /\ s.fence >= s.fence /\ t.revision \in Nat
    BY <1>2 DEF SessionRecords
  <2> HIDE DEF t
  <2> QED
    BY <1>7, <2>1, <2>2
<1>11. ASSUME RotateDeliveryToken(r) PROVE Goal
  <2> DEFINE t == [s EXCEPT !.token = @ + 1, !.revision = @ + 1]
  <2>1. Commit(r, t, RotatedReplays(request[r].session, s.token + 1, now)) /\ s.state \in Working /\ s.fence = fence
    BY <1>11, <1>4, <1>6 DEF s, RotateDeliveryToken
  <2>2. t.fence = s.fence /\ t.token >= s.token /\ t.revision > s.revision
        /\ s.fence >= s.fence /\ t.revision \in Nat
    BY <1>2 DEF SessionRecords
  <2> HIDE DEF t
  <2> QED
    BY <1>7, <2>1, <2>2
<1>12. ASSUME NEW action \in RecoveryActions, NEW mode \in Modes,
              ReplaceForRecovery(r, action, mode)
       PROVE Goal
  <2> DEFINE t == [s EXCEPT !.state = "ready", !.revision = @ + RecoveryRevisions(action),
                            !.token = @ + 1, !.mode = mode, !.remux = NoJob]
  <2>1. Commit(r, t, RotatedReplays(request[r].session, s.token + 1, now)) /\ s.state \in Working /\ s.fence = fence
    BY <1>12, <1>4, <1>6 DEF s, ReplaceForRecovery
  <2>2. t.fence = s.fence /\ t.token >= s.token /\ t.revision > s.revision
        /\ s.fence >= s.fence /\ t.revision \in Nat
    BY <1>2 DEF SessionRecords, RecoveryRevisions
  <2> HIDE DEF t
  <2> QED
    BY <1>7, <2>1, <2>2
<1>13. ASSUME NEW action \in RecoveryActions, RecordRecoveryFailure(r, action) PROVE Goal
  <2> DEFINE t == [s EXCEPT !.state = IF s.state = "playing" THEN "playing" ELSE "ready",
                            !.revision = @ + 2]
  <2>1. Commit(r, t, replay) /\ s.state \in Working /\ s.fence = fence
    BY <1>13, <1>4, <1>6 DEF s, RecordRecoveryFailure
  <2>2. t.fence = s.fence /\ t.token >= s.token /\ t.revision > s.revision
        /\ s.fence >= s.fence /\ t.revision \in Nat
    BY <1>2 DEF SessionRecords
  <2> HIDE DEF t
  <2> QED
    BY <1>7, <2>1, <2>2
<1>14. ASSUME NEW reason \in Terminal, Terminate(r, reason) PROVE Goal
  <2> DEFINE t == [s EXCEPT !.state = reason, !.revision = @ + 1, !.token = @ + 1,
                            !.remux = NoJob, !.expires = Min2(s.hard, now)]
  <2>1. Commit(r, t, ReplaysWithout(request[r].session)) /\ s.state \in Working /\ s.fence = fence
    BY <1>14, <1>4, <1>6 DEF s, Terminate
  <2>2. t.fence = s.fence /\ t.token >= s.token /\ t.revision > s.revision
        /\ s.fence >= s.fence /\ t.revision \in Nat
    BY <1>2 DEF SessionRecords
  <2> HIDE DEF t
  <2> QED
    BY <1>7, <2>1, <2>2
<1>15. ASSUME Reencrypt(r) PROVE Goal
  <2> DEFINE t == [s EXCEPT !.revision = @ + 1]
  <2>1. Commit(r, t, replay) /\ s.state \in Working /\ s.fence = fence
    BY <1>15, <1>4, <1>6 DEF s, Reencrypt
  <2>2. t.fence = s.fence /\ t.token >= s.token /\ t.revision > s.revision
        /\ s.fence >= s.fence /\ t.revision \in Nat
    BY <1>2 DEF SessionRecords
  <2> HIDE DEF t
  <2> QED
    BY <1>7, <2>1, <2>2
<1>16. ASSUME AdoptControlFence(r) PROVE Goal
  <2> DEFINE t == Adopted(s, fence)
  <2>1. Commit(r, t, replay) /\ s.state \in Working /\ s.fence = request[r].previous
        /\ request[r].previous < fence
    BY <1>16, <1>6 DEF s, AdoptControlFence
  <2>2. t.fence = fence /\ t.token >= s.token /\ t.revision > s.revision /\ s.fence \in Nat
        /\ t.revision \in Nat
    BY <1>2 DEF SessionRecords, Adopted
  <2> HIDE DEF t
  <2>3. t.fence >= s.fence
    BY <1>1, <2>1, <2>2
  <2> QED
    BY <1>7, <2>1, <2>2, <2>3
<1>17. ASSUME BindRemuxJob(r) PROVE Goal
  <2>1. Commit(r, [s EXCEPT !.remux = fence], replay)
    BY <1>17, <1>6 DEF s, BindRemuxJob
  <2> QED
    BY <1>1, <1>4, <1>8, <1>17, <2>1 DEF BindRemuxJob
<1>18. ASSUME ClearRemuxJob(r) PROVE Goal
  <2>1. Commit(r, [s EXCEPT !.remux = NoJob], replay) /\ s.fence = fence /\ s.remux = fence
    BY <1>18, <1>6 DEF s, ClearRemuxJob
  <2>2. NoJob \in Nat /\ s.remux # NoJob
    BY <1>1, <2>1 DEF NoJob
  <2> QED
    BY <1>3, <1>8, <2>1, <2>2
<1>19. ASSUME TerminateAgain(r) PROVE Goal
  <2>1. session' = [session EXCEPT ![request[r].session] = session[request[r].session]]
    BY <1>19 DEF TerminateAgain, Commit, Target
  <2>2. session' = session
    BY <1>1, <2>1 DEF SessionInv, TypeOK
  <2> QED
    BY <2>2, SameSessions DEF Goal
<1>20. ASSUME NEW gone \in SUBSET Sessions, Sweep(r, gone) PROVE Goal
  <2> SUFFICES ASSUME NEW y \in Sessions PROVE Fences(y) /\ Orders(y)
    BY DEF Goal
  <2> DEFINE u == session[y]
             t == [u EXCEPT !.state = Purged]
  <2>1. u \in SessionRecords /\ session'[y] = IF y \in gone THEN t ELSE u
    BY <1>20 DEF Sweep, SessionInv, TypeOK
  <2>2. session'[y] = session[y] \/ session'[y] = [session[y] EXCEPT !.state = Purged]
    BY <2>1
  <2> HIDE DEF u
  <2>3. /\ t.fence = u.fence /\ t.revision = u.revision /\ t.token = u.token /\ t.state = Purged
        /\ u.fence >= u.fence /\ u.revision >= u.revision /\ u.token >= u.token
        /\ u = [u EXCEPT !.remux = u.remux]
    BY <2>1 DEF SessionRecords
  <2> HIDE DEF t
  <2>4. Fences(y)
    BY <2>1, <2>3 DEF u, Fences
  <2>5. Orders(y)
    <3>1. t = [u EXCEPT !.state = Purged]
      BY DEF t
    <3> QED
      BY <2>1, <2>3, <3>1 DEF u, Orders
  <2> QED
    BY <2>4, <2>5
<1> QED
  BY <1>9, <1>10, <1>11, <1>12, <1>13, <1>14, <1>15, <1>16, <1>17, <1>18, <1>19, <1>20
     DEF Operation, Goal

(* Every step satisfies both.                                                *)
LEMMA NextOrders ==
  ASSUME SessionInv, [Next]_vars
  PROVE  \A x \in Sessions : Fences(x) /\ Orders(x)
<1> DEFINE Goal == \A x \in Sessions : Fences(x) /\ Orders(x)
<1> HIDE DEF Goal
<1>1. ASSUME session' = session PROVE Goal
  BY <1>1, SameSessions DEF Goal
<1>2. ASSUME NEW r \in Requests, request[r].stage = "session", Operation(r) PROVE Goal
  BY <1>2, OperationOrders DEF Goal
<1>3. ASSUME NEW r \in Requests, NEW x \in Sessions, NEW mode \in Modes,
             CreateInsert(r, x, mode)
      PROVE Goal
  <2> DEFINE t == NewSession(r, mode)
  <2>1. /\ session' = [session EXCEPT ![x] = t] /\ session[x].state = Absent
        /\ request[r].fence = token /\ owner # NoServer
    BY <1>3 DEF CreateInsert, Inserting, Fenced
  <2>2. t.fence = request[r].fence /\ t.revision = 1 /\ t.token = 1
    BY DEF NewSession
  <2>3. session[x].revision = 0 /\ session[x].fence = 0 /\ session[x].token = 0 /\ token \in Nat
    BY <2>1, FencedLeaseAssumption DEF SessionInv, AbsentIsBlank, TypeOK, LeaseTypeOK
  <2> HIDE DEF t
  <2>4. session[x].state \notin Terminal
    BY <2>1 DEF Terminal, Absent
  <2> SUFFICES ASSUME NEW y \in Sessions PROVE Fences(y) /\ Orders(y)
    BY DEF Goal
  <2>5. CASE y = x
    <3>1. session'[y] = t
      BY <2>1, <2>5 DEF SessionInv, TypeOK
    <3> QED
      BY <2>1, <2>2, <2>3, <2>4, <2>5, <3>1 DEF Fences, Orders
  <2>6. CASE y # x
    <3> DEFINE u == session[y]
    <3>1. u \in SessionRecords /\ session'[y] = u
      BY <2>1, <2>6 DEF SessionInv, TypeOK
    <3> HIDE DEF u
    <3>2. /\ u.fence >= u.fence /\ u.revision >= u.revision /\ u.token >= u.token
          /\ u = [u EXCEPT !.remux = u.remux]
      BY <3>1 DEF SessionRecords
    <3> QED
      BY <3>1, <3>2 DEF u, Fences, Orders
  <2> QED
    BY <2>5, <2>6
<1>4. ASSUME NEW r \in Requests, Create(r) PROVE Goal
  <2>1. session' = session \/ \E x \in Sessions, mode \in Modes : CreateInsert(r, x, mode)
    BY <1>4 DEF Create, BeginCreate, AcquireCreateLock, LookupIdempotency, DeleteExpired,
                CreateLookup, CreateRetry, CreateAtCapacity, LoadReplayAfterRace
  <2> QED
    BY <1>1, <1>3, <2>1
<1>5. ASSUME NEW r \in Requests, Step(r) PROVE Goal
  <2>1. session' = session \/ (request[r].stage = "session" /\ Operation(r)) \/ Create(r)
    BY <1>5 DEF Step, BeginCall, Refuse
  <2> QED
    BY <1>1, <1>2, <1>4, <2>1
<1>6. session' = session \/ \E r \in Requests : Step(r)
  BY DEF Next, Tick, LeaseStep, vars, svars
<1> QED
  BY <1>1, <1>5, <1>6 DEF Goal

(* A server that lost the lease never writes a session again, however late  *)
(* its transaction runs: assert_active_fence_in_transaction and the fence   *)
(* of the session row leave no way around the lease's token.                *)
THEOREM NoStaleWrites == Spec => FencedWrites
<1>1. SessionInv /\ [Next]_vars =>
        [ \A x \in Sessions : session'[x] # session[x] /\ session'[x].state # Purged
             => session'[x].fence = token /\ owner # NoServer ]_vars
  BY NextOrders DEF Fences
<1> QED
  BY <1>1, SessionInvariant, PTL DEF Spec, FencedWrites

(* The versions of a session only grow, an ended session stays as it ended, *)
(* and every change but the job's comes with a new revision.                *)
THEOREM SessionsAreOrdered == Spec => SessionOrder
<1>1. SessionInv /\ [Next]_vars =>
        [ \A x \in Sessions : LET s == session[x] t == session'[x] IN
            /\ t.fence >= s.fence /\ t.revision >= s.revision /\ t.token >= s.token
            /\ s.state \in Terminal => t \in {s, [s EXCEPT !.state = Purged]}
            /\ t.revision = s.revision /\ t.state # Purged => t = [s EXCEPT !.remux = t.remux]
        ]_vars
  BY NextOrders DEF Orders
<1> QED
  BY <1>1, SessionInvariant, PTL DEF Spec, SessionOrder

(***************************************************************************)
(* Creation                                                                *)
(***************************************************************************)

(* An operation on a session finds it in the table, and adds none.           *)
LEMMA OperationCreatesNothing ==
  ASSUME SessionInv, NEW r \in Requests, request[r].stage = "session", Operation(r),
         NEW x \in Sessions, session[x].state = Absent
  PROVE  session'[x] = session[x]
<1> DEFINE y == request[r].session
<1>1. y \in Sessions /\ request[r].fence > 0 /\ session \in [Sessions -> SessionRecords]
  BY DEF SessionInv, CallsAreStale, TypeOK
<1>2. Absent \notin Working /\ Absent \notin Terminal
  BY DEF Absent, Working, Terminal
<1>3. ASSUME NEW s, NEW rows, Commit(r, s, rows), session[y].state # Absent
      PROVE  session'[x] = session[x]
  BY <1>1, <1>3 DEF Commit
<1>4. Mutable(r) => session[y].state # Absent
  BY <1>2 DEF Mutable, IsLive
<1>5. CASE \E next \in Working : Transition(r, next)
  BY <1>3, <1>4, <1>5 DEF Transition
<1>6. CASE Heartbeat(r)
  BY <1>3, <1>4, <1>6 DEF Heartbeat
<1>7. CASE RotateDeliveryToken(r)
  BY <1>3, <1>4, <1>7 DEF RotateDeliveryToken
<1>8. CASE \E action \in RecoveryActions, mode \in Modes : ReplaceForRecovery(r, action, mode)
  BY <1>3, <1>4, <1>8 DEF ReplaceForRecovery
<1>9. CASE \E action \in RecoveryActions : RecordRecoveryFailure(r, action)
  BY <1>3, <1>4, <1>9 DEF RecordRecoveryFailure
<1>10. CASE BindRemuxJob(r)
  BY <1>3, <1>4, <1>10 DEF BindRemuxJob
<1>11. CASE ClearRemuxJob(r)
  <2>1. session[y].fence > 0
    BY <1>1, <1>11 DEF ClearRemuxJob, Target
  <2>2. session[y].state # Absent
    BY <1>1, <2>1 DEF SessionInv, AbsentIsBlank
  <2> QED
    BY <1>3, <1>11, <2>2 DEF ClearRemuxJob
<1>12. CASE \E reason \in Terminal : Terminate(r, reason)
  BY <1>2, <1>3, <1>12 DEF Terminate
<1>13. CASE TerminateAgain(r)
  BY <1>2, <1>3, <1>13 DEF TerminateAgain, IsTerminal
<1>14. CASE AdoptControlFence(r)
  BY <1>2, <1>3, <1>14 DEF AdoptControlFence, Target
<1>15. CASE Reencrypt(r)
  BY <1>2, <1>3, <1>15 DEF Reencrypt, Target
<1>16. CASE \E gone \in SUBSET Sessions : Sweep(r, gone)
  BY <1>1, <1>2, <1>16 DEF Sweep, IsTerminal
<1> QED
  BY <1>5, <1>6, <1>7, <1>8, <1>9, <1>10, <1>11, <1>12, <1>13, <1>14, <1>15, <1>16 DEF Operation

(* A session comes to be by the second half of a create, and no other way.   *)
LEMMA OnlyInsertCreates ==
  ASSUME SessionInv, [Next]_vars, NEW x \in Sessions, Created(x)
  PROVE  \E r \in Requests, mode \in Modes : CreateInsert(r, x, mode)
<1>1. session' # session
  BY DEF Created
<1>2. PICK r \in Requests : Step(r)
  BY <1>1 DEF Next, Tick, LeaseStep, vars, svars
<1>3. ~ (request[r].stage = "session" /\ Operation(r))
  BY OperationCreatesNothing DEF Created
<1>4. Create(r)
  BY <1>1, <1>2, <1>3 DEF Step, BeginCall, Refuse
<1>5. PICK y \in Sessions, mode \in Modes : CreateInsert(r, y, mode)
  BY <1>1, <1>4 DEF Create, BeginCreate, AcquireCreateLock, LookupIdempotency, DeleteExpired,
                    CreateLookup, CreateRetry, CreateAtCapacity, LoadReplayAfterRace
<1>6. y = x
  BY <1>5 DEF CreateInsert, Created, SessionInv, TypeOK
<1> QED
  BY <1>5, <1>6

(* The table has finitely many rows at any time, whatever the set of ids.    *)
Rows == {x \in Sessions : session[x].state # Absent}

LEMMA RowsStayFinite == Spec => []IsFiniteSet(Rows)
<1>1. Init => IsFiniteSet(Rows)
  <2> SUFFICES ASSUME Init PROVE IsFiniteSet(Rows)
    OBVIOUS
  <2>1. Rows = {}
    BY DEF Rows, Init, NoRecord
  <2> QED
    BY <2>1, FS_EmptySet
<1>2. SessionInv /\ IsFiniteSet(Rows) /\ [Next]_vars => IsFiniteSet(Rows)'
  <2> SUFFICES ASSUME SessionInv, IsFiniteSet(Rows), [Next]_vars PROVE IsFiniteSet(Rows')
    OBVIOUS
  <2>1. CASE \A x \in Sessions : ~ Created(x)
    <3>1. Rows' \subseteq Rows
      BY <2>1 DEF Rows, Created
    <3> QED
      BY <3>1, FS_Subset
  <2>2. CASE \E x \in Sessions : Created(x)
    <3>1. PICK x \in Sessions : Created(x)
      BY <2>2
    <3>2. PICK r \in Requests, mode \in Modes : CreateInsert(r, x, mode)
      BY <3>1, OnlyInsertCreates
    <3>3. Rows' \subseteq Rows \cup {x}
      BY <3>2 DEF CreateInsert, Rows, SessionInv, TypeOK
    <3>4. IsFiniteSet(Rows \cup {x})
      BY FS_AddElement
    <3> QED
      BY <3>3, <3>4, FS_Subset
  <2> QED
    BY <2>1, <2>2
<1> QED
  BY <1>1, <1>2, SessionInvariant, PTL DEF Spec

(* A session is admitted only below both limits: create counts with a time   *)
(* of the past, at which no fewer sessions were live.                        *)
LEMMA AdmittedBelowLimits ==
  ASSUME SessionInv, IsFiniteSet(Rows), [Next]_vars, NEW x \in Sessions, Created(x)
  PROVE  /\ Cardinality({y \in Sessions : IsLive(y, clock)}) < ServerTotal
         /\ Cardinality({y \in Sessions : IsLive(y, clock)
                           /\ UserOf[session[y].key] = UserOf[session'[x].key]}) < PerUser
<1>1. PICK r \in Requests, mode \in Modes : CreateInsert(r, x, mode)
  BY OnlyInsertCreates
<1> DEFINE k == request[r].key
           now == request[r].now
           then == {y \in Sessions : IsLive(y, now)}
           thenOf == {y \in then : UserOf[session[y].key] = UserOf[k]}
           live == {y \in Sessions : IsLive(y, clock)}
           liveOf == {y \in Sessions : IsLive(y, clock) /\ UserOf[session[y].key] = UserOf[k]}
<1>2. Cardinality(then) < ServerTotal /\ Cardinality(thenOf) < PerUser
  BY <1>1 DEF CreateInsert, HasCapacity
<1>3. session'[x].key = k
  BY <1>1 DEF CreateInsert, NewSession, SessionInv, TypeOK
<1>4. now <= clock /\ now \in Nat /\ clock \in Nat
  BY DEF SessionInv, CallsAreStale, TypeOK, Calls
<1>5. \A y \in Sessions : IsLive(y, clock) => IsLive(y, now)
  BY <1>4 DEF IsLive, SessionInv, TypeOK, SessionRecords
<1>6. then \subseteq Rows
  BY DEF Rows, IsLive, Working, Absent
<1>7. IsFiniteSet(then) /\ IsFiniteSet(thenOf)
  BY <1>6, FS_Subset
<1>8. live \subseteq then /\ liveOf \subseteq thenOf
  BY <1>5
<1>9. Cardinality(live) <= Cardinality(then) /\ Cardinality(liveOf) <= Cardinality(thenOf)
  BY <1>7, <1>8, FS_Subset
<1>10. /\ Cardinality(live) \in Nat /\ Cardinality(then) \in Nat
       /\ Cardinality(liveOf) \in Nat /\ Cardinality(thenOf) \in Nat
  BY <1>7, <1>8, FS_Subset, FS_CardinalityType
<1> HIDE DEF then, thenOf, live, liveOf
<1>11. Cardinality(live) < ServerTotal /\ Cardinality(liveOf) < PerUser
  BY <1>2, <1>9, <1>10, LiveSessionAssumption
<1> QED
  BY <1>3, <1>11 DEF live, liveOf

(* enforce_capacity_in_transaction: with any isolation, any number of         *)
(* servers and creates, and whatever time a create waited.                    *)
THEOREM CapacityIsRespected == Spec => AdmissionRespectsCapacity
<1>1. SessionInv /\ IsFiniteSet(Rows) /\ [Next]_vars =>
        [ \A x \in Sessions : Created(x) =>
            /\ Cardinality({y \in Sessions : IsLive(y, clock)}) < ServerTotal
            /\ Cardinality({y \in Sessions : IsLive(y, clock)
                              /\ UserOf[session[y].key] = UserOf[session'[x].key]}) < PerUser
        ]_vars
  BY AdmittedBelowLimits
<1> QED
  BY <1>1, SessionInvariant, RowsStayFinite, PTL DEF Spec, AdmissionRespectsCapacity

(***************************************************************************)
(* Idempotency: what the creates of a key know of each other               *)
(***************************************************************************)

(* What a create that goes on finds under its key: nothing, or a row that    *)
(* has expired.                                                              *)
Settled(row, now) == row.session = NoSession \/ row.expires <= now

AboutToWrite(r) == request[r].stage \in {"delete", "insert"}

(* The creates of a key do not race with each other: the database refuses    *)
(* overtaken transactions, or they go through the handlers of one server.    *)
Serialized ==
  \/ Snapshot
  \/ /\ CreateLock
     /\ \A q, r \in Requests :
          Creating(q) /\ Creating(r) /\ request[q].key = request[r].key =>
            request[q].fence = request[r].fence

(* KeysInv: the row of a session stays while its window is open; a create    *)
(* about to write has seen that there is none; and, where the database does  *)
(* not refuse it otherwise, it is alone with its key, so that this is so yet.*)
KeysInv ==
  /\ \A y \in Sessions : session[y].state \in Working /\ session[y].until > clock =>
       LET row == replay[session[y].key] IN row.session = y /\ row.expires = session[y].until
  /\ \A r \in Requests : AboutToWrite(r) => Settled(request[r].row, request[r].now)
  /\ ~ Snapshot =>
       /\ \A q, r \in Requests :
            Creating(q) /\ Creating(r) /\ request[q].key = request[r].key => q = r
       /\ \A r \in Requests : AboutToWrite(r) => Settled(replay[request[r].key], request[r].now)

(* What a step may do to the row of a key: change its token, or remove it    *)
(* when it has expired or its session is not working any more.               *)
RowAfter(k) ==
  \/ replay'[k].session = replay[k].session /\ replay'[k].expires = replay[k].expires
  \/ /\ replay'[k] = NoRow
     /\ Settled(replay[k], clock) \/ session'[replay[k].session].state \notin Working

(* What it may do to a session, besides creating it.                         *)
SessionAfter(y) ==
  session'[y].state \in Working =>
    session[y].state \in Working /\ session'[y].key = session[y].key /\ session'[y].until = session[y].until

(* And to a create: it ends, goes on having looked at the row, or begins     *)
(* alone.                                                                    *)
CreateAfter(q) ==
  \/ request'[q] = request[q]
  \/ ~ Creating(q)'
  \/ /\ Creating(q) /\ request'[q].key = request[q].key
     /\ AboutToWrite(q)' => /\ Settled(request'[q].row, request'[q].now)
                            /\ Settled(replay'[request'[q].key], request'[q].now)
  \/ /\ request'[q].stage = "lookup"
     /\ ~ Snapshot => \A p \in Requests \ {q} :
          ~ (Creating(p)' /\ request'[p].key = request'[q].key)

(* A step that does this preserves KeysInv.                                   *)
LEMMA KeysKept ==
  ASSUME SessionInv, SessionInv', KeysInv, clock' >= clock,
         \A y \in Sessions : SessionAfter(y),
         \A k \in Keys : RowAfter(k),
         \A q \in Requests : CreateAfter(q)
  PROVE  KeysInv'
<1>1. /\ clock \in Nat /\ clock' \in Nat /\ NoSession \notin Sessions
      /\ \A y \in Sessions : session[y].key \in Keys /\ session[y].until \in Nat
      /\ \A q \in Requests : request'[q].key \in Keys
  BY LiveSessionAssumption DEF SessionInv, TypeOK, SessionRecords, Calls
<1>2. ASSUME NEW y \in Sessions, session'[y].state \in Working, session'[y].until > clock'
      PROVE  /\ replay'[session'[y].key].session = y
             /\ replay'[session'[y].key].expires = session'[y].until
  <2>1. /\ session[y].state \in Working /\ session'[y].key = session[y].key
        /\ session'[y].until = session[y].until
    BY <1>2 DEF SessionAfter
  <2>2. session[y].until > clock
    BY <1>1, <1>2, <2>1
  <2>3. replay[session[y].key].session = y /\ replay[session[y].key].expires = session[y].until
    BY <2>1, <2>2 DEF KeysInv
  <2>4. ~ Settled(replay[session[y].key], clock)
    BY <1>1, <2>2, <2>3 DEF Settled
  <2> QED
    BY <1>1, <1>2, <2>1, <2>3, <2>4 DEF RowAfter
<1>3. ASSUME NEW r \in Requests, AboutToWrite(r)'
      PROVE  Settled(request'[r].row, request'[r].now)
  BY <1>3 DEF CreateAfter, KeysInv, AboutToWrite, Creating
<1>4. ASSUME ~ Snapshot, NEW q \in Requests, NEW r \in Requests, Creating(q)', Creating(r)',
             request'[q].key = request'[r].key
      PROVE  q = r
  <2>1. ASSUME NEW p \in Requests, Creating(p)'
        PROVE  \/ Creating(p) /\ request'[p].key = request[p].key
               \/ \A o \in Requests \ {p} : ~ (Creating(o)' /\ request'[o].key = request'[p].key)
    BY <1>4, <2>1 DEF CreateAfter, Creating
  <2>2. CASE Creating(q) /\ request'[q].key = request[q].key
             /\ Creating(r) /\ request'[r].key = request[r].key
    BY <1>4, <2>2 DEF KeysInv
  <2> QED
    BY <1>4, <2>1, <2>2
<1>5. ASSUME ~ Snapshot, NEW r \in Requests, AboutToWrite(r)'
      PROVE  Settled(replay'[request'[r].key], request'[r].now)
  <2>1. CASE request'[r] = request[r]
    <3>1. Settled(replay[request[r].key], request[r].now)
      BY <1>5, <2>1 DEF KeysInv, AboutToWrite
    <3>2. RowAfter(request[r].key)
      BY <1>1, <2>1
    <3> QED
      BY <2>1, <3>1, <3>2 DEF RowAfter, Settled, NoRow
  <2>2. CASE request'[r] # request[r]
    BY <1>5, <2>2 DEF CreateAfter, AboutToWrite, Creating
  <2> QED
    BY <2>1, <2>2
<1> QED
  BY <1>2, <1>3, <1>4, <1>5 DEF KeysInv, AboutToWrite, Creating, Settled

(* What a verdict on a row says.                                              *)
LEMMA VerdictSettled ==
  ASSUME NEW r \in Requests, NEW row
  PROVE  /\ Verdict(r, row) \in {"missing", "stale"} => Settled(row, request[r].now)
         /\ Verdict(r, row) = "stale" => row.expires <= request[r].now
BY DEF Verdict, Settled

(* A transaction on a session preserves KeysInv.                              *)
LEMMA CommitKeepsKeys ==
  ASSUME SessionInv, SessionInv', KeysInv, NEW r \in Requests, NEW s, NEW rows,
         request[r].stage = "session", Commit(r, s, rows),
         LET x == request[r].session
         IN /\ s.state \in Working => session[x].state \in Working
            /\ s.key = session[x].key /\ s.until = session[x].until
            /\ \/ rows = replay
               \/ \E t, now : rows = RotatedReplays(x, t, now)
               \/ rows = ReplaysWithout(x) /\ s.state \notin Working
  PROVE  KeysInv'
<1> DEFINE x == request[r].session
<1>1. /\ session' = [session EXCEPT ![x] = s] /\ replay' = rows /\ clock' = clock
      /\ request' = [request EXCEPT ![r] = Idle]
  BY DEF Commit, Answer
<1>2. /\ x \in Sessions /\ clock \in Nat /\ session \in [Sessions -> SessionRecords]
      /\ replay \in [Keys -> ReplayRows] /\ request \in [Requests -> Calls]
  BY DEF SessionInv, TypeOK, CallsAreStale
<1>3. session'[x] = s /\ \A y \in Sessions \ {x} : session'[y] = session[y]
  BY <1>1, <1>2
<1>4. \A y \in Sessions : SessionAfter(y)
  BY <1>3 DEF SessionAfter
<1>5. ASSUME NEW k \in Keys PROVE RowAfter(k)
  <2>1. CASE rows = replay
    BY <1>1, <2>1 DEF RowAfter
  <2>2. CASE \E t, now : rows = RotatedReplays(x, t, now)
    <3>1. PICK t, now : rows = RotatedReplays(x, t, now)
      BY <2>2
    <3>2. replay[k] \in ReplayRows
      BY <1>2
    <3>3. replay'[k] = IF replay[k].session = x /\ replay[k].expires > now
                       THEN [replay[k] EXCEPT !.token = t] ELSE replay[k]
      BY <1>1, <3>1 DEF RotatedReplays
    <3> QED
      BY <3>2, <3>3 DEF RowAfter, ReplayRows
  <2>3. CASE rows = ReplaysWithout(x) /\ s.state \notin Working
    <3>1. replay'[k] = IF replay[k].session = x THEN NoRow ELSE replay[k]
      BY <1>1, <2>3 DEF ReplaysWithout
    <3> QED
      BY <1>3, <2>3, <3>1 DEF RowAfter
  <2> QED
    BY <2>1, <2>2, <2>3
<1>6. \A q \in Requests : CreateAfter(q)
  BY <1>1, <1>2 DEF CreateAfter, Creating, Idle
<1>7. clock' >= clock
  BY <1>1, <1>2
<1> QED
  BY <1>4, <1>5, <1>6, <1>7, KeysKept

(* Every operation on a session does.                                         *)
LEMMA OperationKeepsKeys ==
  ASSUME SessionInv, SessionInv', KeysInv, NEW r \in Requests, request[r].stage = "session",
         Operation(r)
  PROVE  KeysInv'
<1> DEFINE x == request[r].session
           s == session[x]
           fence == request[r].fence
           now == request[r].now
<1>1. x \in Sessions /\ s \in SessionRecords /\ now <= clock /\ now \in Nat /\ clock \in Nat
  BY DEF SessionInv, TypeOK, CallsAreStale, Calls
<1>2. /\ Working \cap Terminal = {} /\ Purged \notin Working
      /\ Mutable(r) => s.state \in Working
      /\ Target(r) = s
  BY DEF Working, Terminal, Purged, Mutable, IsLive, Target
<1> HIDE DEF s
<1>3. ASSUME NEW t, NEW rows, Commit(r, t, rows), t.key = s.key, t.until = s.until,
             t.state \in Working => s.state \in Working,
             \/ rows = replay
             \/ \E u, n : rows = RotatedReplays(x, u, n)
             \/ rows = ReplaysWithout(x) /\ t.state \notin Working
      PROVE  KeysInv'
  BY <1>3, CommitKeepsKeys DEF s
<1>4. CASE \E next \in Working : Transition(r, next)
  <2>1. PICK next \in Working : Transition(r, next)
    BY <1>4
  <2> DEFINE t == [s EXCEPT !.state = next, !.revision = @ + 1]
  <2>2. Commit(r, t, replay) /\ s.state \in Working
    BY <1>2, <2>1 DEF Transition
  <2>3. t.key = s.key /\ t.until = s.until
    BY <1>1 DEF SessionRecords
  <2> HIDE DEF t
  <2> QED
    BY <1>3, <2>2, <2>3
<1>5. CASE Heartbeat(r)
  <2> DEFINE t == [s EXCEPT !.expires = Min2(now + SessionTtl, s.hard), !.revision = @ + 1]
  <2>2. Commit(r, t, replay) /\ s.state \in Working
    BY <1>2, <1>5 DEF Heartbeat
  <2>3. t.key = s.key /\ t.until = s.until
    BY <1>1 DEF SessionRecords
  <2> HIDE DEF t
  <2> QED
    BY <1>3, <2>2, <2>3
<1>6. CASE RotateDeliveryToken(r)
  <2> DEFINE t == [s EXCEPT !.token = @ + 1, !.revision = @ + 1]
  <2>2. Commit(r, t, RotatedReplays(x, s.token + 1, now)) /\ s.state \in Working
    BY <1>2, <1>6 DEF RotateDeliveryToken
  <2>3. t.key = s.key /\ t.until = s.until
    BY <1>1 DEF SessionRecords
  <2> HIDE DEF t
  <2> QED
    BY <1>3, <2>2, <2>3
<1>7. CASE \E action \in RecoveryActions, mode \in Modes : ReplaceForRecovery(r, action, mode)
  <2>1. PICK action \in RecoveryActions, mode \in Modes : ReplaceForRecovery(r, action, mode)
    BY <1>7
  <2> DEFINE t == [s EXCEPT !.state = "ready", !.revision = @ + RecoveryRevisions(action),
                            !.token = @ + 1, !.mode = mode, !.remux = NoJob]
  <2>2. Commit(r, t, RotatedReplays(x, s.token + 1, now)) /\ s.state \in Working
    BY <1>2, <2>1 DEF ReplaceForRecovery
  <2>3. t.key = s.key /\ t.until = s.until
    BY <1>1 DEF SessionRecords
  <2> HIDE DEF t
  <2> QED
    BY <1>3, <2>2, <2>3
<1>8. CASE \E action \in RecoveryActions : RecordRecoveryFailure(r, action)
  <2>1. PICK action \in RecoveryActions : RecordRecoveryFailure(r, action)
    BY <1>8
  <2> DEFINE t == [s EXCEPT !.state = IF s.state = "playing" THEN "playing" ELSE "ready",
                            !.revision = @ + 2]
  <2>2. Commit(r, t, replay) /\ s.state \in Working
    BY <1>2, <2>1 DEF RecordRecoveryFailure
  <2>3. t.key = s.key /\ t.until = s.until
    BY <1>1 DEF SessionRecords
  <2> HIDE DEF t
  <2> QED
    BY <1>3, <2>2, <2>3
<1>9. CASE BindRemuxJob(r) \/ ClearRemuxJob(r)
  <2>1. PICK v : Commit(r, [s EXCEPT !.remux = v], replay)
    BY <1>2, <1>9 DEF BindRemuxJob, ClearRemuxJob
  <2> DEFINE t == [s EXCEPT !.remux = v]
  <2>3. t.key = s.key /\ t.until = s.until /\ t.state = s.state
    BY <1>1 DEF SessionRecords
  <2> HIDE DEF t
  <2> QED
    BY <1>3, <2>1, <2>3 DEF t
<1>10. CASE \E reason \in Terminal : Terminate(r, reason)
  <2>1. PICK reason \in Terminal : Terminate(r, reason)
    BY <1>10
  <2> DEFINE t == [s EXCEPT !.state = reason, !.revision = @ + 1, !.token = @ + 1,
                            !.remux = NoJob, !.expires = Min2(s.hard, now)]
  <2>2. Commit(r, t, ReplaysWithout(x)) /\ s.state \in Working
    BY <2>1 DEF Terminate, s
  <2>3. t.key = s.key /\ t.until = s.until /\ t.state = reason
    BY <1>1 DEF SessionRecords
  <2> HIDE DEF t
  <2> QED
    BY <1>2, <1>3, <2>2, <2>3
<1>11. CASE TerminateAgain(r)
  <2>1. Commit(r, s, ReplaysWithout(x)) /\ s.state \in Terminal
    BY <1>2, <1>11 DEF TerminateAgain, IsTerminal, s
  <2> QED
    BY <1>2, <1>3, <2>1
<1>12. CASE AdoptControlFence(r)
  <2> DEFINE t == Adopted(s, fence)
  <2>2. Commit(r, t, replay) /\ s.state \in Working
    BY <1>2, <1>12 DEF AdoptControlFence
  <2>3. t.key = s.key /\ t.until = s.until
    BY <1>1 DEF SessionRecords, Adopted
  <2> HIDE DEF t
  <2> QED
    BY <1>3, <2>2, <2>3
<1>13. CASE Reencrypt(r)
  <2> DEFINE t == [s EXCEPT !.revision = @ + 1]
  <2>2. Commit(r, t, replay) /\ s.state \in Working
    BY <1>2, <1>13 DEF Reencrypt
  <2>3. t.key = s.key /\ t.until = s.until
    BY <1>1 DEF SessionRecords
  <2> HIDE DEF t
  <2> QED
    BY <1>3, <2>2, <2>3
<1>14. CASE \E gone \in SUBSET Sessions : Sweep(r, gone)
  <2>1. PICK gone \in SUBSET Sessions : Sweep(r, gone)
    BY <1>14
  <2>2. /\ clock' = clock /\ request' = [request EXCEPT ![r] = Idle]
        /\ replay' = [k \in Keys |-> IF replay[k].expires > now /\ replay[k].session \notin gone
                                     THEN replay[k] ELSE NoRow]
        /\ session' = [y \in Sessions |->
                         IF y \in gone THEN [session[y] EXCEPT !.state = Purged] ELSE session[y]]
    BY <2>1 DEF Sweep, Answer
  <2>3. ASSUME NEW y \in Sessions
        PROVE  SessionAfter(y) /\ (y \in gone => session'[y].state \notin Working)
    <3>1. session[y] \in SessionRecords
      BY DEF SessionInv, TypeOK
    <3>2. y \in gone => session'[y].state = Purged
      BY <2>2, <3>1 DEF SessionRecords
    <3>3. y \notin gone => session'[y] = session[y]
      BY <2>2
    <3> QED
      BY <1>2, <3>2, <3>3 DEF SessionAfter
  <2>4. ASSUME NEW k \in Keys PROVE RowAfter(k)
    <3>1. replay[k].expires \in Nat
      BY DEF SessionInv, TypeOK, ReplayRows
    <3>2. replay[k].expires > now \/ Settled(replay[k], clock)
      BY <1>1, <3>1 DEF Settled
    <3> QED
      BY <2>2, <2>3, <3>2 DEF RowAfter
  <2>5. \A q \in Requests : CreateAfter(q)
    BY <2>2 DEF CreateAfter, Creating, Idle, SessionInv, TypeOK
  <2>6. clock' >= clock
    BY <1>1, <2>2
  <2> QED
    BY <2>3, <2>4, <2>5, <2>6, KeysKept
<1> QED
  BY <1>4, <1>5, <1>6, <1>7, <1>8, <1>9, <1>10, <1>11, <1>12, <1>13, <1>14 DEF Operation

(* A create about to write, whose transaction is not refused, finds its key   *)
(* free or expired.                                                           *)
LEMMA WritesToSettled ==
  ASSUME KeysInv, NEW r \in Requests, AboutToWrite(r), ~ Overtaken(r)
  PROVE  Settled(replay[request[r].key], request[r].now)
BY LiveSessionAssumption DEF KeysInv, Overtaken

(* A step of a create that leaves the sessions alone and removes at most the  *)
(* row of its key, when it has expired.                                       *)
LEMMA CreateStepKeepsKeys ==
  ASSUME SessionInv, SessionInv', KeysInv, NEW r \in Requests, NEW c,
         request' = [request EXCEPT ![r] = c], CreateAfter(r),
         UNCHANGED <<clock, session>>,
         \/ replay' = replay
         \/ /\ replay' = [replay EXCEPT ![request[r].key] = NoRow]
            /\ Settled(replay[request[r].key], request[r].now)
  PROVE  KeysInv'
<1>1. /\ clock \in Nat /\ replay \in [Keys -> ReplayRows] /\ request \in [Requests -> Calls]
      /\ request[r].now <= clock /\ request[r].now \in Nat
  BY DEF SessionInv, TypeOK, CallsAreStale, Calls
<1>2. \A y \in Sessions : SessionAfter(y)
  BY DEF SessionAfter
<1>3. ASSUME NEW k \in Keys PROVE RowAfter(k)
  <2>1. CASE replay'[k] = replay[k]
    BY <2>1 DEF RowAfter
  <2>2. CASE replay'[k] # replay[k]
    <3>1. /\ k = request[r].key /\ replay'[k] = NoRow
          /\ Settled(replay[k], request[r].now) /\ replay[k].expires \in Nat
      BY <1>1, <2>2 DEF ReplayRows
    <3>2. Settled(replay[k], clock)
      BY <1>1, <3>1 DEF Settled
    <3> QED
      BY <3>1, <3>2 DEF RowAfter
  <2> QED
    BY <2>1, <2>2
<1>4. \A q \in Requests : CreateAfter(q)
  BY <1>1 DEF CreateAfter
<1>5. clock' >= clock
  BY <1>1
<1> QED
  BY <1>2, <1>3, <1>4, <1>5, KeysKept

(* The insert itself.                                                         *)
LEMMA InsertKeepsKeys ==
  ASSUME SessionInv, SessionInv', KeysInv, NEW r \in Requests, NEW x \in Sessions, NEW mode \in Modes,
         CreateInsert(r, x, mode)
  PROVE  KeysInv'
<1> DEFINE k == request[r].key
           now == request[r].now
           s == NewSession(r, mode)
           row == [session |-> x, body |-> request[r].body, token |-> 1, expires |-> now + ReplayTtl]
<1>1. /\ request[r].stage = "insert" /\ ~ Overtaken(r)
      /\ session' = [session EXCEPT ![x] = s] /\ replay' = [replay EXCEPT ![k] = row]
      /\ request' = [request EXCEPT ![r] = Idle] /\ clock' = clock
  BY DEF CreateInsert, Inserting, Answer
<1>2. /\ clock \in Nat /\ session \in [Sessions -> SessionRecords]
      /\ replay \in [Keys -> ReplayRows] /\ request \in [Requests -> Calls]
      /\ now <= clock /\ now \in Nat /\ k \in Keys /\ NoSession \notin Sessions
  BY LiveSessionAssumption DEF SessionInv, TypeOK, CallsAreStale, Calls
<1>3. s.key = k /\ s.until = now + ReplayTtl /\ row.session = x /\ row.expires = now + ReplayTtl
  BY DEF NewSession
<1>4. Settled(replay[k], now)
  BY <1>1, WritesToSettled DEF AboutToWrite
<1> HIDE DEF s, row, k, now
<1>5. /\ session'[x] = s /\ \A y \in Sessions \ {x} : session'[y] = session[y]
      /\ replay'[k] = row /\ \A j \in Keys \ {k} : replay'[j] = replay[j]
      /\ request'[r] = Idle /\ \A q \in Requests \ {r} : request'[q] = request[q]
  BY <1>1, <1>2
<1>6. ASSUME NEW y \in Sessions, session'[y].state \in Working, session'[y].until > clock'
      PROVE  /\ replay'[session'[y].key].session = y
             /\ replay'[session'[y].key].expires = session'[y].until
  <2>1. CASE y = x
    BY <1>3, <1>5, <2>1
  <2>2. CASE y # x
    <3>1. /\ replay[session[y].key].session = y /\ session[y].until \in Nat /\ session[y].key \in Keys
          /\ replay[session[y].key].expires = session[y].until /\ session[y].until > clock
      BY <1>1, <1>2, <1>5, <1>6, <2>2 DEF KeysInv, SessionRecords
    <3>2. session[y].key # k
      BY <1>2, <1>4, <3>1 DEF Settled
    <3> QED
      BY <1>5, <2>2, <3>1, <3>2
  <2> QED
    BY <2>1, <2>2
<1>7. Idle.stage = "idle"
  BY DEF Idle
<1>8. ASSUME NEW q \in Requests, AboutToWrite(q)'
      PROVE  Settled(request'[q].row, request'[q].now)
  BY <1>5, <1>7, <1>8 DEF KeysInv, AboutToWrite
<1>9. ASSUME ~ Snapshot, NEW q \in Requests, NEW p \in Requests, Creating(q)', Creating(p)',
             request'[q].key = request'[p].key
      PROVE  q = p
  BY <1>5, <1>7, <1>9 DEF KeysInv, Creating
<1>10. ASSUME ~ Snapshot, NEW q \in Requests, AboutToWrite(q)'
       PROVE  Settled(replay'[request'[q].key], request'[q].now)
  <2>1. q # r /\ request'[q] = request[q] /\ AboutToWrite(q)
    BY <1>5, <1>7, <1>10 DEF AboutToWrite
  <2>2. Creating(q) /\ Creating(r)
    BY <1>1, <2>1 DEF AboutToWrite, Creating
  <2>3. request[q].key # k /\ request[q].key \in Keys
    BY <1>2, <1>10, <2>1, <2>2 DEF KeysInv, k, Calls
  <2>4. Settled(replay[request[q].key], request[q].now)
    BY <1>10, <2>1 DEF KeysInv
  <2> QED
    BY <1>5, <2>1, <2>3, <2>4
<1> QED
  BY <1>6, <1>8, <1>9, <1>10 DEF KeysInv, AboutToWrite, Creating, Settled

(* Every step of a create preserves KeysInv, if creates stay serialized.      *)
LEMMA CreateKeepsKeys ==
  ASSUME SessionInv, SessionInv', KeysInv, Serialized', NEW r \in Requests, Create(r)
  PROVE  KeysInv'
<1> DEFINE c == request[r]
           row == replay[c.key]
<1>1. /\ request \in [Requests -> Calls] /\ c \in Calls /\ c.now \in Nat
      /\ row \in ReplayRows
  BY DEF SessionInv, TypeOK, Calls
<1>2. ASSUME Answer(r) PROVE CreateAfter(r)
  BY <1>1, <1>2 DEF Answer, CreateAfter, Creating, Idle
<1>3. CASE \E k \in Keys, b \in Bodies : BeginCreate(r, k, b)
  <2>1. PICK k \in Keys, b \in Bodies : BeginCreate(r, k, b)
    BY <1>3
  <2> DEFINE d == [Idle EXCEPT !.stage = "queued", !.now = clock, !.key = k, !.body = b]
  <2>2. request' = [request EXCEPT ![r] = d] /\ UNCHANGED <<clock, session>> /\ replay' = replay
    BY <2>1 DEF BeginCreate
  <2>3. d.stage = "queued"
    BY DEF Idle
  <2> HIDE DEF d
  <2>4. CreateAfter(r)
    BY <1>1, <2>2, <2>3 DEF CreateAfter, Creating
  <2> QED
    BY <2>2, <2>4, CreateStepKeepsKeys
<1>4. CASE \E f \in 1..token : AcquireCreateLock(r, f)
  <2>1. PICK f \in 1..token : AcquireCreateLock(r, f)
    BY <1>4
  <2> DEFINE d == [c EXCEPT !.stage = "lookup", !.fence = f]
  <2>2. request' = [request EXCEPT ![r] = d] /\ UNCHANGED <<clock, session>> /\ replay' = replay
    BY <1>1, <2>1 DEF AcquireCreateLock, Calls
  <2>3. d.stage = "lookup" /\ d.key = c.key /\ d.fence = f
    BY <1>1 DEF Calls
  <2> HIDE DEF d
  <2>4. request'[r] = d /\ \A q \in Requests \ {r} : request'[q] = request[q]
    BY <1>1, <2>2
  <2>5. ASSUME ~ Snapshot, NEW p \in Requests \ {r}, Creating(p)', request'[p].key = request'[r].key
        PROVE  FALSE
    <3>1. Creating(r)'
      BY <2>3, <2>4 DEF Creating
    <3>2. CreateLock /\ request'[p].fence = request'[r].fence
      BY <2>5, <3>1 DEF Serialized
    <3>3. Creating(p) /\ request[p].key = c.key /\ request[p].fence = f
      BY <2>3, <2>4, <2>5, <3>2 DEF Creating
    <3> QED
      BY <2>1, <3>2, <3>3 DEF AcquireCreateLock
  <2>6. CreateAfter(r)
    BY <2>3, <2>4, <2>5 DEF CreateAfter
  <2> QED
    BY <2>2, <2>6, CreateStepKeepsKeys
<1>5. CASE LookupIdempotency(r)
  <2>1. c.stage = "lookup" /\ UNCHANGED <<clock, session>> /\ replay' = replay
    BY <1>5 DEF LookupIdempotency
  <2>2. CASE Answer(r)
    BY <1>2, <2>1, <2>2, CreateStepKeepsKeys DEF Answer
  <2>3. CASE Advance(r, "create")
    <3>1. request' = [request EXCEPT ![r] = [c EXCEPT !.stage = "create"]]
      BY <1>1, <2>3 DEF Advance
    <3>2. CreateAfter(r)
      BY <1>1, <2>1, <3>1 DEF CreateAfter, Creating, AboutToWrite, Calls
    <3> QED
      BY <2>1, <3>1, <3>2, CreateStepKeepsKeys
  <2>4. CASE /\ Verdict(r, row) = "stale"
             /\ request' = [request EXCEPT ![r].stage = "delete", ![r].row = row]
    <3> DEFINE d == [c EXCEPT !.stage = "delete", !.row = row]
    <3>1. request' = [request EXCEPT ![r] = d]
      BY <1>1, <2>4 DEF Calls
    <3>2. d.key = c.key /\ d.now = c.now /\ d.row = row
      BY <1>1 DEF Calls
    <3> HIDE DEF d
    <3>3. request'[r] = d
      BY <1>1, <3>1
    <3>4. Settled(row, c.now)
      BY <2>4, VerdictSettled
    <3>5. CreateAfter(r)
      BY <2>1, <3>2, <3>3, <3>4 DEF CreateAfter, Creating, Settled
    <3> QED
      BY <2>1, <3>1, <3>5, CreateStepKeepsKeys
  <2> QED
    BY <1>5, <2>2, <2>3, <2>4 DEF LookupIdempotency
<1>6. CASE DeleteExpired(r)
  <2> DEFINE d == [c EXCEPT !.stage = "create", !.row = NoRow]
  <2>1. /\ c.stage = "delete" /\ UNCHANGED <<clock, session>> /\ ~ Overtaken(r)
        /\ replay' = [replay EXCEPT ![c.key] = NoRow]
    BY <1>6 DEF DeleteExpired, DeletesRowItRead
  <2>2. request' = [request EXCEPT ![r] = d]
    BY <1>1, <1>6 DEF DeleteExpired, Calls
  <2>3. d.key = c.key /\ d.stage = "create"
    BY <1>1 DEF Calls
  <2> HIDE DEF d
  <2>4. CreateAfter(r)
    BY <1>1, <2>1, <2>2, <2>3 DEF CreateAfter, Creating, AboutToWrite
  <2>5. Settled(row, c.now)
    BY <2>1, WritesToSettled DEF AboutToWrite
  <2> QED
    BY <2>1, <2>2, <2>4, <2>5, CreateStepKeepsKeys
<1>7. CASE CreateLookup(r)
  <2>1. c.stage = "create" /\ UNCHANGED <<clock, session>> /\ replay' = replay
    BY <1>7 DEF CreateLookup
  <2>2. CASE Answer(r)
    BY <1>2, <2>1, <2>2, CreateStepKeepsKeys DEF Answer
  <2>3. CASE /\ Verdict(r, row) \in {"missing", "stale"}
             /\ request' = [request EXCEPT ![r].stage = "insert", ![r].row = row]
    <3> DEFINE d == [c EXCEPT !.stage = "insert", !.row = row]
    <3>1. request' = [request EXCEPT ![r] = d]
      BY <1>1, <2>3 DEF Calls
    <3>2. d.key = c.key /\ d.now = c.now /\ d.row = row
      BY <1>1 DEF Calls
    <3> HIDE DEF d
    <3>3. request'[r] = d
      BY <1>1, <3>1
    <3>4. Settled(row, c.now)
      BY <2>3, VerdictSettled
    <3>5. CreateAfter(r)
      BY <2>1, <3>2, <3>3, <3>4 DEF CreateAfter, Creating, Settled
    <3> QED
      BY <2>1, <3>1, <3>5, CreateStepKeepsKeys
  <2> QED
    BY <1>7, <2>2, <2>3 DEF CreateLookup
<1>8. CASE CreateRetry(r)
  <2>1. c.stage = "insert" /\ UNCHANGED <<clock, session>> /\ replay' = replay
    BY <1>8 DEF CreateRetry
  <2>2. request' = [request EXCEPT ![r] = [c EXCEPT !.stage = "create"]]
    BY <1>1, <1>8 DEF CreateRetry, Advance
  <2>3. CreateAfter(r)
    BY <1>1, <2>1, <2>2 DEF CreateAfter, Creating, AboutToWrite, Calls
  <2> QED
    BY <2>1, <2>2, <2>3, CreateStepKeepsKeys
<1>9. CASE CreateAtCapacity(r)
  BY <1>2, <1>9, CreateStepKeepsKeys DEF CreateAtCapacity, Answer
<1>10. CASE LoadReplayAfterRace(r)
  BY <1>2, <1>10, CreateStepKeepsKeys DEF LoadReplayAfterRace, Answer
<1> QED
  BY <1>3, <1>4, <1>5, <1>6, <1>7, <1>8, <1>9, <1>10, InsertKeepsKeys DEF Create

(* Every step does.                                                           *)
LEMMA NextKeysInv ==
  SessionInv /\ SessionInv' /\ KeysInv /\ Serialized' /\ [Next]_vars => KeysInv'
<1> SUFFICES ASSUME SessionInv, SessionInv', KeysInv, Serialized', [Next]_vars PROVE KeysInv'
  OBVIOUS
<1>1. clock \in Nat /\ request \in [Requests -> Calls]
  BY DEF SessionInv, TypeOK
<1>2. CASE session' = session /\ replay' = replay /\ request' = request /\ clock' \in {clock, clock + 1}
  <2>1. /\ \A y \in Sessions : SessionAfter(y)
        /\ \A k \in Keys : RowAfter(k)
        /\ \A q \in Requests : CreateAfter(q)
    BY <1>2 DEF SessionAfter, RowAfter, CreateAfter
  <2>2. clock' >= clock
    BY <1>1, <1>2
  <2> QED
    BY <2>1, <2>2, KeysKept
<1>3. ASSUME NEW r \in Requests, Step(r) PROVE KeysInv'
  <2>1. ASSUME NEW x \in Sessions, NEW f \in 1..token, NEW now \in 1..clock, BeginCall(r, x, f, now)
        PROVE  KeysInv'
    <3>1. PICK c : c.stage = "session" /\ request' = [request EXCEPT ![r] = c]
      BY <2>1 DEF BeginCall
    <3>2. CreateAfter(r)
      BY <1>1, <3>1 DEF CreateAfter, Creating
    <3> QED
      BY <2>1, <3>1, <3>2, CreateStepKeepsKeys DEF BeginCall
  <2>2. CASE Refuse(r)
    <3>1. CreateAfter(r)
      BY <1>1, <2>2 DEF Refuse, CreateAfter, Creating, Idle
    <3> QED
      BY <2>2, <3>1, CreateStepKeepsKeys DEF Refuse
  <2> QED
    BY <1>3, <2>1, <2>2, OperationKeepsKeys, CreateKeepsKeys DEF Step
<1> QED
  BY <1>2, <1>3 DEF Next, Tick, LeaseStep, vars, svars

LEMMA InitKeysInv == Init => KeysInv
<1> SUFFICES ASSUME Init PROVE KeysInv
  OBVIOUS
<1>1. /\ \A y \in Sessions : session[y].state = Absent
      /\ \A r \in Requests : request[r].stage = "idle"
  BY DEF Init, NoRecord, Idle
<1> QED
  BY <1>1 DEF KeysInv, AboutToWrite, Creating, Working, Absent

(* What creates of a key know, as long as they are serialized.                *)
THEOREM KeysInvariant == Spec /\ []Serialized => []KeysInv
BY InitKeysInv, NextKeysInv, SessionInvariant, PTL DEF Spec

(* create_once: a key has at most one working session in its replay window,   *)
(* if the database refuses overtaken transactions or the key's creates go     *)
(* through the lock of one server at a time.                                  *)
THEOREM KeysAreUsedOnce == Spec /\ []Serialized => OneSessionPerKey
<1>1. SessionInv /\ KeysInv /\ [Next]_vars =>
        [ \A x, y \in Sessions :
            Created(x) /\ session[y].state \in Working /\ session[y].key = session'[x].key
              => session[y].until <= clock ]_vars
  <2> SUFFICES ASSUME SessionInv, KeysInv, [Next]_vars, NEW x \in Sessions, NEW y \in Sessions,
                      Created(x), session[y].state \in Working, session[y].key = session'[x].key
               PROVE  session[y].until <= clock
    OBVIOUS
  <2>1. PICK r \in Requests, mode \in Modes : CreateInsert(r, x, mode)
    BY OnlyInsertCreates
  <2>2. session'[x].key = request[r].key
    BY <2>1 DEF CreateInsert, NewSession, SessionInv, TypeOK
  <2>3. Settled(replay[request[r].key], request[r].now)
    BY <2>1, WritesToSettled DEF CreateInsert, Inserting, AboutToWrite
  <2>4. /\ clock \in Nat /\ request[r].now \in Nat /\ request[r].now <= clock
        /\ session[y].until \in Nat /\ NoSession \notin Sessions
    BY LiveSessionAssumption DEF SessionInv, TypeOK, CallsAreStale, Calls, SessionRecords
  <2>5. CASE session[y].until > clock
    <3>1. /\ replay[request[r].key].session = y
          /\ replay[request[r].key].expires = session[y].until
      BY <2>2, <2>5 DEF KeysInv
    <3> QED
      BY <2>3, <2>4, <2>5, <3>1 DEF Settled
  <2> QED
    BY <2>4, <2>5
<1> QED
  BY <1>1, SessionInvariant, KeysInvariant, PTL DEF Spec, OneSessionPerKey

(* create_once: under the same conditions a duplicate is never refused for    *)
(* want of capacity while the row of its twin has not expired.                *)
THEOREM DuplicatesAreReplayed == Spec /\ []Serialized => DuplicateGetsReplay
<1>1. SessionInv /\ KeysInv /\ [Next]_vars =>
        [ \A r \in Requests : CreateAtCapacity(r) =>
            LET row == replay[request[r].key]
            IN ~ (row.session # NoSession /\ row.body = request[r].body
                  /\ row.expires > request[r].now
                  /\ IsLive(row.session, request[r].now)) ]_vars
  <2> SUFFICES ASSUME SessionInv, KeysInv, NEW r \in Requests, CreateAtCapacity(r),
                      replay[request[r].key].session # NoSession,
                      replay[request[r].key].expires > request[r].now
               PROVE  FALSE
    OBVIOUS
  <2>1. Settled(replay[request[r].key], request[r].now)
    BY WritesToSettled DEF CreateAtCapacity, Inserting, AboutToWrite
  <2>2. replay[request[r].key].expires \in Nat /\ request[r].now \in Nat
    BY DEF SessionInv, TypeOK, Calls, ReplayRows
  <2> QED
    BY <2>1, <2>2 DEF Settled
<1> QED
  BY <1>1, SessionInvariant, KeysInvariant, PTL DEF Spec, DuplicateGetsReplay
=============================================================================
