-------------------------- MODULE SessionRevocation --------------------------
(* How a right that is taken away ends the Live sessions that rest on it:   *)
(* the lifecycle of src/live/session/lifecycle.rs between the outbox, the   *)
(* session repository and the control lease.  A change of rights appends a  *)
(* revocation; drains (the session task of each server, the startup pass of *)
(* a server that got the lease, handlers that made a change) claim it, list *)
(* the sessions and adopt, re-check and end them one by one, while requests *)
(* create, extend and end sessions and servers take over from each other.   *)
(*                                                                          *)
(* All sessions here belong to the profile the revocations are about, so    *)
(* event_matches_session is true; a revision is represented by the fact     *)
(* whether a snapshot is still up to date.  LiveSession has the             *)
(* transactions in detail, RevocationOutbox the claims, LiveControl the     *)
(* servers.                                                                 *)
EXTENDS FencedLease, FiniteSets

CONSTANTS
  MaxSessions,   \* bound: rows of live_playback_sessions, in the order of created_at
  ListLimit,     \* MAX_ACTIVE_SESSIONS
  MaxEvents,     \* bound: revocations, in the order of occurred_at
  NoEvent,       \* what a startup pass works on
  Drains,        \* places for a drain: of the session task, or of a handler
  ServerOf,      \* [Drains -> Servers]
  Tasks,         \* the place of each server's session task and startup pass
  Polls,         \* the servers that get the lease at their start: a session task that
                 \* starts on a standby returns at once, and polls nothing later
  Requests,
  Retries        \* MAX_CAS_RETRIES

Sessions == 1..MaxSessions
Events == 1..MaxEvents

ASSUME RevocationAssumption ==
  /\ MaxSessions \in Nat /\ ListLimit \in Nat /\ MaxEvents \in Nat /\ Retries \in Nat \ {0}
  /\ NoEvent \notin Events
  /\ ServerOf \in [Drains -> Servers] /\ Tasks \subseteq Drains /\ Polls \subseteq Servers
  /\ \A s \in Servers : \E d \in Tasks : \A c \in Tasks : ServerOf[c] = s <=> c = d

VARIABLES
  server,    \* life and the fence of the runtime
  right,     \* what current_invalid_reason and require_play_grant ask for
  event,     \* the receipt of each revocation, for the one consumer
  due,       \* history: the sessions a revocation has to end
  session,   \* live_playback_sessions
  request,   \* requests between their checks and their transaction
  drain      \* drains in progress, with their snapshots

vars == <<token, owner, server, right, event, due, session, request, drain>>
rows == <<token, owner, right, event, due>>

-----------------------------------------------------------------------------
(* State *)
NoSession == 0

ServerRow == [life : {"standby", "starting", "ready", "closed"}, fence : 0..MaxFence]
\* forced: the event ends a session whatever its rights (ProviderPolicyChanged); handled:
\* the handler that appended it has gone on to its drain.
EventRow == [state : {"none", "pending", "acknowledged"}, claim : Servers \cup {NoServer},
             late : BOOLEAN, forced : BOOLEAN, handled : BOOLEAN]
SessionRow == [state : {"none", "live", "ended"}, fence : 0..MaxFence, expired : BOOLEAN]
RequestRow == [at : {"idle", "create", "beat", "end", "touch"}, x : Sessions \cup {NoSession},
               fence : 0..MaxFence, fresh : BOOLEAN]

\* x: the session in hand; todo: those that come after it; fresh: whose snapshot is up to
\* date; seen: the fences in the snapshots; tries: the iterations used up.
DrainRow == [at : {"off", "poll", "claim", "list", "adopt", "check", "decrypt", "end",
                   "reload", "ack", "fail"},
             handler : BOOLEAN, event : Events \cup {NoEvent}, fence : 0..MaxFence,
             x : Sessions \cup {NoSession}, todo : SUBSET Sessions,
             fresh : SUBSET Sessions, seen : [Sessions -> 0..MaxFence], tries : 0..Retries]

TypeOK ==
  /\ LeaseTypeOK
  /\ server \in [Servers -> ServerRow] /\ right \in BOOLEAN
  /\ event \in [Events -> EventRow] /\ due \in [Events -> SUBSET Sessions]
  /\ session \in [Sessions -> SessionRow]
  /\ request \in [Requests -> RequestRow] /\ drain \in [Drains -> DrainRow]

NoReceipt == [state |-> "none", claim |-> NoServer, late |-> FALSE, forced |-> FALSE,
              handled |-> FALSE]
\* An ended session: nobody looks at its fence or its expiry again.
EndedRow == [state |-> "ended", fence |-> 0, expired |-> FALSE]
IdleRequest == [at |-> "idle", x |-> NoSession, fence |-> 0, fresh |-> FALSE]
Off == [at |-> "off", handler |-> FALSE, event |-> NoEvent, fence |-> 0,
        x |-> NoSession, todo |-> {}, fresh |-> {}, seen |-> [x \in Sessions |-> 0], tries |-> 0]

Init ==
  /\ LeaseInit
  /\ server = [s \in Servers |-> [life |-> "standby", fence |-> 0]]
  /\ right = TRUE
  /\ event = [e \in Events |-> NoReceipt] /\ due = [e \in Events |-> {}]
  /\ session = [x \in Sessions |-> [state |-> "none", fence |-> 0, expired |-> FALSE]]
  /\ request = [r \in Requests |-> IdleRequest] /\ drain = [d \in Drains |-> Off]

Live(x) == session[x].state = "live"

\* assert_active_fence_in_transaction.
Current(fence) == owner # NoServer /\ token = fence

\* A write gives a session a new revision: every snapshot of it is out of date.
DrainsAfter(written) == [d \in Drains |-> [drain[d] EXCEPT !.fresh = @ \ written]]
RequestsAfter(written) ==
  [r \in Requests |-> [request[r] EXCEPT !.fresh = @ /\ request[r].x \notin written]]

First(S) == CHOOSE i \in S : \A j \in S : i <= j

-----------------------------------------------------------------------------
(* Rights and time *)
Append(e, forced) ==
  /\ event[e].state = "none" /\ \A f \in Events : f < e => event[f].state # "none"
  /\ event' = [event EXCEPT ![e].state = "pending", ![e].forced = forced]
  /\ due' = [due EXCEPT ![e] = {x \in Sessions : Live(x)}]
  /\ UNCHANGED <<token, owner, server, session, request, drain>>

\* A grant, a membership, an account session or a provider is taken away; the revocation
\* is appended in the same transaction.
Revoke(e) == right /\ right' = FALSE /\ Append(e, FALSE)

\* The destination policy of the provider changes.
ChangePolicy(e) == Append(e, TRUE) /\ UNCHANGED right

\* The right is given back: sessions that are still there may stay.
Restore ==
  /\ ~ right /\ right' = TRUE
  /\ due' = [e \in Events |-> IF event[e].forced THEN due[e] ELSE {}]
  /\ UNCHANGED <<token, owner, server, event, session, request, drain>>

\* expires_at of a session passes.
Expire(x) ==
  /\ Live(x) /\ ~ session[x].expired
  /\ session' = [session EXCEPT ![x].expired = TRUE]
  /\ UNCHANGED <<rows, server, request, drain>>

\* lease_expires_at of a claim passes.
ExpireClaim(e) ==
  /\ event[e].claim # NoServer /\ ~ event[e].late
  /\ event' = [event EXCEPT ![e].late = TRUE]
  /\ UNCHANGED <<token, owner, right, due, server, session, request, drain>>

-----------------------------------------------------------------------------
(* Servers *)
TaskOf(s) == CHOOSE d \in Tasks : ServerOf[d] = s

\* Mutant: a server that is still reconciling serves requests.
ServesWhenOwner(s) == server[s].life \in {"starting", "ready"}

\* control_fencing_token: there is one for handlers when the control is ready.
Serves(s) == server[s].life = "ready"

\* A server gets the lease, at its start or as a standby, and starts to reconcile.
GetsLease(s) ==
  /\ server[s].life = "standby" /\ Grant(s)
  /\ server' = [server EXCEPT ![s] = [life |-> "starting", fence |-> token + 1]]
  /\ drain' = [drain EXCEPT ![TaskOf(s)] = [Off EXCEPT !.at = "list", !.fence = token + 1]]
  /\ UNCHANGED <<right, event, due, session, request>>

\* mark_lease_lost, by the heartbeat of a server that was overtaken.
StepsDown(s) ==
  /\ server[s].life = "ready" /\ ~ (owner = s /\ Current(server[s].fence))
  /\ server' = [server EXCEPT ![s].life = "closed"]
  /\ UNCHANGED <<rows, session, request, drain>>

\* What server s had under way is gone; its claims stay until they expire.
Vanish(s) ==
  /\ drain' = [d \in Drains |-> IF ServerOf[d] = s THEN Off ELSE drain[d]]
  /\ request' = [r \in Requests |-> IF request[r].fence = server[s].fence THEN IdleRequest
                                    ELSE request[r]]

Crash(s) ==
  /\ server[s].life \in {"starting", "ready"}
  /\ server' = [server EXCEPT ![s].life = "closed"]
  /\ Vanish(s)
  /\ UNCHANGED <<rows, session>>

\* block_and_release: the row is given up if it is still the server's.
BlockAndRelease(s) ==
  /\ server' = [server EXCEPT ![s].life = "closed"]
  /\ owner' = IF owner = s /\ token = server[s].fence THEN NoServer ELSE owner
  /\ token' = token

\* The timeout around reconcile_startup drops it where it is.
StartupTimesOut(s) ==
  /\ server[s].life = "starting"
  /\ BlockAndRelease(s) /\ Vanish(s)
  /\ UNCHANGED <<right, event, due, session>>

-----------------------------------------------------------------------------
(* Requests: what they check first, and then their transaction *)

\* create: the play grant is looked at for the last time before the transaction.
BeginCreate(r, s) ==
  /\ request[r].at = "idle" /\ Serves(s) /\ right
  /\ request' = [request EXCEPT ![r] = [IdleRequest EXCEPT !.at = "create",
                                          !.fence = server[s].fence]]
  /\ UNCHANGED <<rows, server, session, drain>>

Insert(r) ==
  LET unused == {x \in Sessions : session[x].state = "none"}
  IN /\ request[r].at = "create" /\ Current(request[r].fence) /\ unused # {}
     /\ session' = [session EXCEPT ![First(unused)] =
                      [state |-> "live", fence |-> request[r].fence, expired |-> FALSE]]
     /\ request' = [request EXCEPT ![r] = IdleRequest]
     /\ UNCHANGED <<rows, server, drain>>

\* Mutant: a heartbeat does not look at the grant.
AllowedAlways(kind) == TRUE

\* require_play_grant is asked by heartbeats; a client may end its session without it,
\* and the transitions of an activation do not look at it again.
Allowed(kind) == kind = "beat" => right

\* A heartbeat, an end, or a transition of the activation: session, time and fence are
\* read here.
BeginChange(r, s, x, kind) ==
  /\ request[r].at = "idle" /\ Serves(s) /\ Allowed(kind)
  /\ Live(x) /\ (session[x].expired => kind = "end")
  /\ request' = [request EXCEPT ![r] = [at |-> kind, x |-> x, fence |-> server[s].fence,
                                        fresh |-> TRUE]]
  /\ UNCHANGED <<rows, server, session, drain>>

\* The transaction: fence, revision and the session's own fence are as they were.
Change(r) ==
  LET x == request[r].x
  IN /\ request[r].at \in {"beat", "end", "touch"}
     /\ Current(request[r].fence) /\ session[x].fence = request[r].fence /\ request[r].fresh
     /\ session' = [session EXCEPT
                      ![x] = IF request[r].at = "end" THEN EndedRow
                             ELSE [session[x] EXCEPT !.expired = @ /\ request[r].at = "touch"]]
     /\ request' = [RequestsAfter({x}) EXCEPT ![r] = IdleRequest]
     /\ drain' = DrainsAfter({x})
     /\ UNCHANGED <<rows, server>>

\* The transaction is refused, or the request was dropped.
Refuse(r) ==
  /\ request[r].at # "idle"
  /\ request' = [request EXCEPT ![r] = IdleRequest]
  /\ UNCHANGED <<rows, server, session, drain>>

-----------------------------------------------------------------------------
(* Drains *)

\* Mutant: a session of an earlier server is taken as it is.
BehindNever(row) == FALSE

\* The session in hand was last written under an earlier fence.
Behind(row) == row.seen[row.x] < row.fence

\* A drain that is through with its list, or has failed.
Done(row, at) == [Off EXCEPT !.at = at, !.handler = row.handler, !.event = row.event,
                             !.fence = row.fence]

\* The top of the loop of reconcile_session_with_reason, with a snapshot of the session.
TakeUp(row) ==
  IF row.seen[row.x] > row.fence THEN Done(row, "fail")
  ELSE [row EXCEPT !.at = IF Behind(row) THEN "adopt" ELSE "check"]

\* A drain with its session done: the next one, or what comes after the list.
Proceed(row) ==
  IF row.todo = {} THEN Done(row, IF row.event = NoEvent THEN "claim" ELSE "ack")
  ELSE TakeUp([row EXCEPT !.x = First(row.todo), !.todo = @ \ {First(row.todo)},
                          !.tries = 0])

Move(d, row) ==
  /\ drain' = [drain EXCEPT ![d] = row]
  /\ UNCHANGED <<rows, server, session, request>>

Fail(d) == Move(d, Done(drain[d], "fail"))

\* drain_authorization_revocations, called by a handler after its change was committed.
HandlerDrain(d, e) ==
  /\ drain[d].at = "off" /\ Serves(ServerOf[d])
  /\ event[e].state # "none" /\ ~ event[e].handled
  /\ event' = [event EXCEPT ![e].handled = TRUE]
  /\ drain' = [drain EXCEPT ![d] = [Off EXCEPT !.at = "claim", !.handler = TRUE,
                                      !.fence = server[ServerOf[d]].fence]]
  /\ UNCHANGED <<token, owner, right, due, server, session, request>>

\* run: the fence is looked at before each round.
Poll(d) ==
  /\ drain[d].at = "poll"
  /\ \/ Current(drain[d].fence) /\ Move(d, [drain[d] EXCEPT !.at = "claim"])
     \/ ~ Current(drain[d].fence) /\ Fail(d)

\* Mutant: a claim is never taken over.
ClaimableFree(e) == event[e].state = "pending" /\ event[e].claim = NoServer

Claimable(e) == event[e].state = "pending" /\ (event[e].claim = NoServer \/ event[e].late)

\* claim_next.
Claim(d) ==
  LET open == {e \in Events : Claimable(e)}
  IN /\ drain[d].at = "claim" /\ open # {}
     /\ event' = [event EXCEPT ![First(open)].claim = ServerOf[d], ![First(open)].late = FALSE]
     /\ drain' = [drain EXCEPT ![d].at = "list", ![d].event = First(open)]
     /\ UNCHANGED <<token, owner, right, due, server, session, request>>

\* A drain that found nothing: a session task that polls goes on to wait.
Rests(d) == IF ~ drain[d].handler /\ ServerOf[d] \in Polls
            THEN [Off EXCEPT !.at = "poll", !.fence = drain[d].fence] ELSE Off

\* cleanup, at the end of a startup pass: it ends sessions that had expired when the pass
\* began, and it fails when the fence is gone.
Cleanup(d) ==
  LET s == ServerOf[d]
      overdue == {x \in Sessions : /\ Live(x) /\ session[x].expired
                                   /\ session[x].fence = drain[d].fence}
  IN /\ Current(drain[d].fence)
     /\ \E ends \in SUBSET overdue :
          /\ session' = [x \in Sessions |-> IF x \in ends THEN EndedRow ELSE session[x]]
          /\ request' = RequestsAfter(ends)
          /\ drain' = [DrainsAfter(ends) EXCEPT ![d] = Rests(d)]
     /\ server' = [server EXCEPT ![s].life = "ready"]
     /\ UNCHANGED rows

\* Nothing is left to claim: a handler answers, a task sleeps, and the startup pass ends
\* with the cleanup, after which the control is ready.
NothingToClaim(d) ==
  LET starts == ~ drain[d].handler /\ server[ServerOf[d]].life = "starting"
  IN /\ drain[d].at = "claim" /\ \A e \in Events : ~ Claimable(e)
     /\ \/ ~ starts /\ Move(d, Rests(d))
        \/ starts /\ ~ Current(drain[d].fence) /\ Fail(d)
        \/ starts /\ Cleanup(d)

\* The oldest ListLimit of the sessions that have not ended.
Listed ==
  {x \in Sessions : Live(x) /\ Cardinality({y \in Sessions : Live(y) /\ y < x}) < ListLimit}

\* list_nonterminal; the startup pass asserts its fence before.
List(d) ==
  /\ drain[d].at = "list"
  /\ \/ drain[d].event = NoEvent /\ ~ Current(drain[d].fence) /\ Fail(d)
     \/ /\ drain[d].event = NoEvent => Current(drain[d].fence)
        /\ Move(d, Proceed([drain[d] EXCEPT !.todo = Listed, !.fresh = Listed,
                     !.seen = [x \in Sessions |-> IF x \in Listed THEN session[x].fence ELSE 0]]))

\* adopt_control_fence.
Adopt(d) ==
  LET x == drain[d].x
      f == drain[d].fence
  IN /\ drain[d].at = "adopt"
     /\ \/ (~ Current(f) \/ ~ Live(x)) /\ Fail(d)
        \/ /\ Current(f) /\ Live(x) /\ x \notin drain[d].fresh
           /\ Move(d, [drain[d] EXCEPT !.at = "reload"])
        \/ /\ Current(f) /\ Live(x) /\ x \in drain[d].fresh
           /\ session' = [session EXCEPT ![x].fence = f]
           /\ request' = RequestsAfter({x})
           /\ drain' = [DrainsAfter({x}) EXCEPT ![d] =
                          [drain[d] EXCEPT !.at = "check", !.seen[x] = f]]
           /\ UNCHANGED <<rows, server>>

\* current_invalid_reason up to the secrets.  The time is the one at which the session
\* was taken in hand, and its expiry that of the snapshot.
Check(d) ==
  LET x == drain[d].x
      forced == drain[d].event \in Events /\ event[drain[d].event].forced
  IN /\ drain[d].at = "check"
     /\ \/ /\ forced \/ ~ right \/ session[x].expired \/ x \notin drain[d].fresh
           /\ Move(d, [drain[d] EXCEPT !.at = "end"])
        \/ /\ ~ forced /\ right
           /\ Move(d, [drain[d] EXCEPT !.at = "decrypt"])

\* decrypt_secrets refuses a session that has ended meanwhile.
Decrypt(d) ==
  /\ drain[d].at = "decrypt"
  /\ \/ ~ Live(drain[d].x) /\ Fail(d)
     \/ Live(drain[d].x) /\ Move(d, Proceed(drain[d]))

\* terminate: an ended session is fine, a changed one is loaded again.
Terminate(d) ==
  LET x == drain[d].x
      f == drain[d].fence
  IN /\ drain[d].at = "end"
     /\ \/ (~ Current(f) \/ (Live(x) /\ session[x].fence # f)) /\ Fail(d)
        \/ Current(f) /\ ~ Live(x) /\ Move(d, Proceed(drain[d]))
        \/ /\ Current(f) /\ Live(x) /\ session[x].fence = f /\ x \notin drain[d].fresh
           /\ Move(d, [drain[d] EXCEPT !.at = "reload"])
        \/ /\ Current(f) /\ Live(x) /\ session[x].fence = f /\ x \in drain[d].fresh
           /\ session' = [session EXCEPT ![x] = EndedRow]
           /\ request' = RequestsAfter({x})
           /\ drain' = [DrainsAfter({x}) EXCEPT ![d] = Proceed(drain[d])]
           /\ UNCHANGED <<rows, server>>

\* Mutant: a session that would not stop changing is passed over.
RetriesExhaustedOk(row) == Proceed(row)

\* The loop ends with an error.
RetriesExhausted(row) == Done(row, "fail")

\* reload, and the next iteration: one that finds the session ended is the last.
Reload(d) ==
  LET x == drain[d].x
      loaded == [drain[d] EXCEPT !.tries = @ + 1, !.fresh = @ \cup {x},
                                 !.seen[x] = session[x].fence]
  IN /\ drain[d].at = "reload"
     /\ \/ loaded.tries = Retries /\ Move(d, RetriesExhausted(loaded))
        \/ loaded.tries < Retries /\ Live(x) /\ Move(d, TakeUp(loaded))
        \/ loaded.tries < Retries /\ ~ Live(x) /\ Move(d, Proceed(loaded))

\* What finish_claim finds a drain's claim by: the name of its server.
Holds(d) ==
  drain[d].event \in Events
  /\ LET e == event[drain[d].event] IN
       e.state = "pending" /\ e.claim = ServerOf[d] /\ ~ e.late

\* Drain d ends with an error: a handler answers with it; the error of the session task
\* or of the startup pass takes the whole server out of control.
EndsFailed(d) ==
  /\ drain' = [drain EXCEPT ![d] = Off]
  /\ \/ drain[d].handler /\ UNCHANGED <<token, owner, server>>
     \/ ~ drain[d].handler /\ BlockAndRelease(ServerOf[d])
  /\ UNCHANGED <<right, due, session, request>>

\* acknowledge; an error of it is not followed by fail_claim.
Acknowledge(d) ==
  /\ drain[d].at = "ack"
  /\ \/ ~ Holds(d) /\ EndsFailed(d) /\ UNCHANGED event
     \/ /\ Holds(d)
        /\ event' = [event EXCEPT ![drain[d].event] =
                       [@ EXCEPT !.state = "acknowledged", !.claim = NoServer, !.late = FALSE]]
        /\ drain' = [drain EXCEPT ![d].at = "claim", ![d].event = NoEvent]
        /\ UNCHANGED <<token, owner, right, due, server, session, request>>

\* fail_claim, where there is a claim, and the error.
FailClaim(d) ==
  /\ drain[d].at = "fail"
  /\ event' = IF Holds(d) THEN [event EXCEPT ![drain[d].event].claim = NoServer] ELSE event
  /\ EndsFailed(d)

DrainStep(d) ==
  \/ Poll(d) \/ Claim(d) \/ NothingToClaim(d) \/ List(d) \/ Adopt(d) \/ Check(d) \/ Decrypt(d)
  \/ Terminate(d) \/ Reload(d) \/ Acknowledge(d) \/ FailClaim(d)

-----------------------------------------------------------------------------
Next ==
  \/ \E e \in Events : Revoke(e) \/ ChangePolicy(e) \/ ExpireClaim(e)
  \/ Restore
  \/ \E x \in Sessions : Expire(x)
  \/ \E s \in Servers : GetsLease(s) \/ StepsDown(s) \/ Crash(s) \/ StartupTimesOut(s)
  \/ \E r \in Requests :
       \/ Insert(r) \/ Change(r) \/ Refuse(r)
       \/ \E s \in Servers :
            \/ BeginCreate(r, s)
            \/ \E x \in Sessions, kind \in {"beat", "end", "touch"} : BeginChange(r, s, x, kind)
  \/ \E d \in Drains : DrainStep(d) \/ \E e \in Events : HandlerDrain(d, e)

Spec == Init /\ [][Next]_vars

\* Tasks and handlers are polled and the database answers; time passes.  Nobody has to
\* make a request, to change a right or to get the lease.
FairSpec ==
  /\ Spec
  /\ \A d \in Drains : WF_vars(DrainStep(d))
  /\ \A x \in Sessions : WF_vars(Expire(x))
  /\ \A e \in Events : WF_vars(ExpireClaim(e))

-----------------------------------------------------------------------------
(* AcknowledgedEnds: a revocation is acknowledged only when every session    *)
(* that was there when the right went has ended, unless the right came back: *)
(* whoever claimed it, retried, was overtaken or raced with heartbeats.      *)
AcknowledgedEnds ==
  \A e \in Events : event[e].state = "acknowledged" =>
    \A x \in due[e] : session[x].state = "ended"

(* AdoptionComplete: once a server that has the lease serves requests, no    *)
(* session is left under the fence of an earlier one, where neither its      *)
(* client nor a revocation could change it.                                  *)
AdoptionComplete ==
  \A s \in Servers : Serves(s) /\ owner = s /\ token = server[s].fence =>
    \A x \in Sessions : Live(x) => session[x].fence = token

(* StartupUndisturbed: the startup pass of a server fails only when it has   *)
(* lost the lease; no session ends or changes under it, because requests are *)
(* served when it is over and those of earlier servers are fenced off.       *)
StartupUndisturbed ==
  \A d \in Tasks : server[ServerOf[d]].life = "starting" /\ drain[d].at = "fail" =>
    ~ Current(drain[d].fence)

(* RevokedEnds: when a right has gone for good, the sessions that rest on it *)
(* are ended or expire, and do not come back from that: also one whose       *)
(* creation or last heartbeat had looked at the grant before it went and was *)
(* committed after its revocation had been applied.                          *)
RevokedEnds ==
  <>[](~ right) => <>[](\A x \in Sessions : Live(x) => session[x].expired)

(* EventuallyApplied: while a server with a session task has the control, a  *)
(* revocation does not stay pending, whoever claimed it and died.            *)
Polling(s) ==
  server[s].life = "ready" /\ s \in Polls /\ owner = s /\ token = server[s].fence
EventuallyApplied ==
  \A e \in Events :
    event[e].state = "pending" ~> event[e].state # "pending" \/ ~ \E s \in Servers : Polling(s)
=============================================================================
