----------------------------- MODULE AuthSessions -----------------------------
(* Account sessions and their refresh tokens (src/src/auth/sessions.rs):    *)
(* login, refresh with rotation and reuse detection, logout, revoke-all and *)
(* the switch of the active profile, as transactions of PostgreSQL at READ  *)
(* COMMITTED.  One step is one SQL statement, or one row of an UPDATE of    *)
(* several rows: a statement looks at the rows committed when it starts and *)
(* then waits for the lock of each row it wants to write.  What a           *)
(* transaction wrote stays in its record of `call` until it commits.        *)
(* SQLite, with one writer at a time, has a subset of these behaviours.     *)
(*                                                                          *)
(* The sessions are those of one user: no statement meets rows of two.      *)
(* A login makes one token family per session and a refresh keeps it, so    *)
(* the family of a token is named by its session.                           *)
EXTENDS Naturals, FiniteSets

CONSTANTS
  Calls,        \* requests that may be in progress at the same time
  NoCall,
  Sessions,     \* rows of account_sessions
  NoSession,
  MaxTokens,    \* bound: rows of refresh_tokens
  Profiles,     \* profiles the user may select
  OwnProfile,   \* the one a login starts with
  MaxCsrf       \* MAX_CSRF_REVISION

ASSUME CallsAssumption == NoCall \notin Calls
ASSUME SessionsAssumption == NoSession \notin Sessions
ASSUME LimitsAssumption == MaxTokens \in Nat /\ MaxCsrf \in Nat \ {0}
ASSUME ProfilesAssumption == OwnProfile \in Profiles

Tokens == 1..MaxTokens
NoToken == 0

VARIABLES
  session,   \* account_sessions, committed
  token,     \* refresh_tokens, committed
  slock,     \* the call that holds the lock of a session row
  tlock,     \* the call that holds the lock of a token row
  call,      \* calls in progress, with what their transaction has written
  events     \* committed revocation events, counted per session they announce: that
             \* it is revoked, or that it left a profile

vars == <<session, token, slock, tlock, call, events>>

-----------------------------------------------------------------------------
(* State *)

NoRow == [here |-> FALSE, revoked |-> FALSE, csrf |-> 0, expired |-> FALSE,
          profile |-> OwnProfile]
NoTokenRow == [session |-> NoSession, prev |-> NoToken, used |-> FALSE, revoked |-> FALSE]

SessionRow == [here : BOOLEAN, revoked : BOOLEAN, csrf : 0..MaxCsrf, expired : BOOLEAN,
               profile : Profiles]
TokenRow == [session : Sessions \cup {NoSession}, prev : Tokens \cup {NoToken},
             used : BOOLEAN, revoked : BOOLEAN]

\* at: the statement that comes next.  t: the token presented.  scope: the sessions
\* the call is about.  todo: the rows the running UPDATE has still to lock.  The rest
\* is written and not committed: the claim of t, the new revision (and profile) of the
\* session, the replacement token, the revoked sessions and tokens.
Idle == [at |-> "idle", t |-> NoToken, scope |-> {}, todo |-> {}, claimed |-> FALSE,
         bumped |-> FALSE, from |-> OwnProfile, to |-> OwnProfile, new |-> NoToken,
         flips |-> {}, dead |-> {}]

Places == {"idle", "claim", "load", "bump", "rotate", "family", "family_rows", "revoke",
           "session_rows", "tokens", "token_rows", "switch", "diagnose", "commit"}

Call == [at : Places, t : Tokens \cup {NoToken}, scope : SUBSET Sessions,
         todo : SUBSET (Sessions \cup Tokens), claimed : BOOLEAN, bumped : BOOLEAN,
         from : Profiles, to : Profiles, new : Tokens \cup {NoToken},
         flips : SUBSET Sessions, dead : SUBSET Tokens]

TypeOK ==
  /\ session \in [Sessions -> SessionRow]
  /\ token \in [Tokens -> TokenRow]
  /\ slock \in [Sessions -> Calls \cup {NoCall}]
  /\ tlock \in [Tokens -> Calls \cup {NoCall}]
  /\ call \in [Calls -> Call]
  /\ events \in [Sessions -> [revoked : Nat, left : [Profiles -> Nat]]]

Init ==
  /\ session = [s \in Sessions |-> NoRow]
  /\ token = [t \in Tokens |-> NoTokenRow]
  /\ slock = [s \in Sessions |-> NoCall]
  /\ tlock = [t \in Tokens |-> NoCall]
  /\ call = [c \in Calls |-> Idle]
  /\ events = [s \in Sessions |-> [revoked |-> 0, left |-> [p \in Profiles |-> 0]]]

-----------------------------------------------------------------------------
(* What the statements ask of a row *)

\* Mutant: a token that was used may be used again.
ClaimableUsed(t) == ~token[t].revoked
\* The WHERE of the claim.
Claimable(t) == ~token[t].used /\ ~token[t].revoked
\* Mutant: without the limit.
BumpableUnbounded(s) == ~session[s].revoked
\* The WHERE of the UPDATE that extends a session.
Bumpable(s) == ~session[s].revoked /\ session[s].csrf < MaxCsrf
\* Mutant: whatever the profile is by now.
SwitchableAny(s, from) == Bumpable(s)
\* The WHERE of the UPDATE that switches the profile.
Switchable(s, from) == session[s].profile = from /\ Bumpable(s)
\* Mutant: a row that is revoked already is revoked and returned again.
RevocableAgain(s) == session[s].here
\* The WHERE of the UPDATE that revokes a session; true of the row it returns.
Revocable(s) == session[s].here /\ ~session[s].revoked
\* Ids are drawn at random and never meet; here they are handed out in order.
Unused(n) == token[n].session = NoSession /\ \A c \in Calls : call[c].new # n
Fresh(n) == Unused(n) /\ \A m \in Tokens : m < n => ~Unused(m)

\* The tokens a statement of call c sees of its sessions: committed ones and its own.
TokensOf(c) ==
  {t \in Tokens : token[t].session \in call[c].scope \/ t = call[c].new}

\* The one session of a call that is not a revoke-all.
TheSession(c) == CHOOSE s \in Sessions : call[c].scope = {s}

Goto(c, place) == call' = [call EXCEPT ![c].at = place]

\* Mutant: they stay.
ReleasedNever(locks, c) == [r \in DOMAIN locks |-> locks[r]]
\* The locks of call c go with its transaction.
Released(locks, c) == [r \in DOMAIN locks |-> IF locks[r] = c THEN NoCall ELSE locks[r]]

\* A transaction that is rolled back, by its call, by the database or because the
\* request was dropped: nothing of it stays.
Rollback(c) ==
  /\ slock' = Released(slock, c)
  /\ tlock' = Released(tlock, c)
  /\ call' = [call EXCEPT ![c] = Idle]
  /\ UNCHANGED <<session, token, events>>

-----------------------------------------------------------------------------
(* The calls *)

\* issue_login_tokens: its rows are new, so the transaction conflicts with none and is
\* one step.
Login(s, n) ==
  /\ ~session[s].here
  /\ Fresh(n)
  /\ session' = [session EXCEPT ![s] = [NoRow EXCEPT !.here = TRUE, !.csrf = 1]]
  /\ token' = [token EXCEPT ![n] = [NoTokenRow EXCEPT !.session = s]]
  /\ UNCHANGED <<slock, tlock, call, events>>

\* The session's and its last token's expires_at pass.
Expire(s) ==
  /\ session[s].here
  /\ ~session[s].expired
  /\ session' = [session EXCEPT ![s].expired = TRUE]
  /\ UNCHANGED <<token, slock, tlock, call, events>>

\* refresh_session with a token that was issued, at any time: a client that did not
\* get its answer presents a token that is used already.
Refresh(c, t) ==
  /\ call[c].at = "idle"
  /\ token[t].session # NoSession
  /\ call' = [call EXCEPT ![c] =
                [Idle EXCEPT !.at = "claim", !.t = t, !.scope = {token[t].session}]]
  /\ UNCHANGED <<session, token, slock, tlock, events>>

\* revoke_session, for a logout.
Logout(c, s) ==
  /\ call[c].at = "idle"
  /\ session[s].here
  /\ call' = [call EXCEPT ![c] = [Idle EXCEPT !.at = "revoke", !.scope = {s}]]
  /\ UNCHANGED <<session, token, slock, tlock, events>>

\* revoke_all_sessions, or the same statements inside a password reset.
RevokeAll(c) ==
  /\ call[c].at = "idle"
  /\ call' = [call EXCEPT ![c] = [Idle EXCEPT !.at = "revoke", !.scope = Sessions]]
  /\ UNCHANGED <<session, token, slock, tlock, events>>

\* select_active_profile: the profile to leave is the one of the principal, which was
\* loaded when the request came in.
SelectProfile(c, s, p) ==
  /\ call[c].at = "idle"
  /\ session[s].here
  /\ ~session[s].revoked
  /\ p # session[s].profile
  /\ call' = [call EXCEPT ![c] = [Idle EXCEPT !.at = "switch", !.scope = {s},
                                    !.from = session[s].profile, !.to = p]]
  /\ UNCHANGED <<session, token, slock, tlock, events>>

-----------------------------------------------------------------------------
(* The statements of refresh_session *)

\* UPDATE refresh_tokens SET used_at: the claim comes before anything is read.
Claim(c) ==
  /\ call[c].at = "claim"
  /\ \/ /\ Claimable(call[c].t)
        /\ tlock[call[c].t] = NoCall
        /\ tlock' = [tlock EXCEPT ![call[c].t] = c]
        /\ call' = [call EXCEPT ![c].at = "load", ![c].claimed = TRUE]
     \/ /\ ~Claimable(call[c].t)
        /\ Goto(c, "load")
        /\ UNCHANGED tlock
  /\ UNCHANGED <<session, token, slock, events>>

\* load_refresh_state and the checks on it: reuse, revocation, expiry.
Load(c) ==
  LET t == call[c].t
      s == TheSession(c)
      refused == IF call[c].claimed THEN session[s].revoked \/ session[s].expired
                 ELSE ~token[t].used
  IN /\ call[c].at = "load"
     /\ \/ /\ refused
           /\ Rollback(c)
        \/ /\ ~refused
           /\ Goto(c, IF call[c].claimed THEN "bump" ELSE "family")
           /\ UNCHANGED <<session, token, slock, tlock, events>>

\* UPDATE account_sessions SET expires_at, csrf_revision = csrf_revision + 1.
Bump(c) ==
  LET s == TheSession(c)
  IN /\ call[c].at = "bump"
     /\ \/ /\ Bumpable(s)
           /\ slock[s] = NoCall
           /\ slock' = [slock EXCEPT ![s] = c]
           /\ call' = [call EXCEPT ![c].at = "rotate", ![c].bumped = TRUE]
        \/ /\ ~Bumpable(s)
           /\ Goto(c, "family")
           /\ UNCHANGED slock
     /\ UNCHANGED <<session, token, tlock, events>>

\* INSERT of the replacement and its link; then the principal is loaded, which a
\* suspended membership makes invalid.
Rotate(c, n) ==
  /\ call[c].at = "rotate"
  /\ Fresh(n)
  /\ \E place \in {"commit", "family"} :
       call' = [call EXCEPT ![c].at = place, ![c].new = n]
  /\ UNCHANGED <<session, token, slock, tlock, events>>

-----------------------------------------------------------------------------
(* The statements of select_active_profile *)

Switch(c) ==
  LET s == TheSession(c)
  IN /\ call[c].at = "switch"
     /\ \/ /\ Switchable(s, call[c].from)
           /\ slock[s] = NoCall
           /\ slock' = [slock EXCEPT ![s] = c]
           /\ call' = [call EXCEPT ![c].at = "commit", ![c].bumped = TRUE]
        \/ /\ ~Switchable(s, call[c].from)
           /\ Goto(c, "diagnose")
           /\ UNCHANGED slock
     /\ UNCHANGED <<session, token, tlock, events>>

\* The SELECT after an UPDATE that found no row: only a revision at its limit is acted on.
Diagnose(c) ==
  LET s == TheSession(c)
      overflow == /\ ~session[s].revoked
                  /\ session[s].profile = call[c].from
                  /\ session[s].csrf >= MaxCsrf
  IN /\ call[c].at = "diagnose"
     /\ \/ /\ overflow
           /\ Goto(c, "revoke")
           /\ UNCHANGED <<session, token, slock, tlock, events>>
        \/ /\ ~overflow
           /\ Rollback(c)

-----------------------------------------------------------------------------
(* The statements that revoke *)

\* Mutant: once the family is revoked, the session's tokens are not looked at again.
AfterRowsFamilyOnly(place) ==
  CASE place = "family_rows" -> "revoke"
    [] place = "session_rows" -> "commit"
    [] place = "token_rows" -> "commit"
\* Where a call goes when its UPDATE of several rows has written them all.
AfterRows(place) ==
  CASE place = "family_rows" -> "revoke"
    [] place = "session_rows" -> "tokens"
    [] place = "token_rows" -> "commit"

\* An UPDATE of several rows starts: its rows are those it sees now.
Scan(c, place, rows) ==
  /\ call' = [call EXCEPT ![c].at = IF rows = {} THEN AfterRows(place) ELSE place,
                          ![c].todo = rows]
  /\ UNCHANGED <<session, token, slock, tlock, events>>

\* revoke_family_in_transaction, its own statement.
ScanFamily(c) == call[c].at = "family" /\ Scan(c, "family_rows", TokensOf(c))
\* revoke_session_in_transaction and revoke_all_sessions_in_transaction.
ScanSessions(c) ==
  call[c].at = "revoke" /\ Scan(c, "session_rows", {s \in call[c].scope : Revocable(s)})
ScanTokens(c) == call[c].at = "tokens" /\ Scan(c, "token_rows", TokensOf(c))

\* The place of a call that has done one more row of its UPDATE.
PlaceAfter(c, row) ==
  IF call[c].todo = {row} THEN AfterRows(call[c].at) ELSE call[c].at

\* A token row is locked and revoked.
RevokeToken(c, t) ==
  /\ call[c].at \in {"family_rows", "token_rows"}
  /\ t \in call[c].todo
  /\ tlock[t] \in {NoCall, c}
  /\ tlock' = [tlock EXCEPT ![t] = c]
  /\ call' = [call EXCEPT ![c].at = PlaceAfter(c, t), ![c].todo = @ \ {t},
                          ![c].dead = @ \cup {t}]
  /\ UNCHANGED <<session, token, slock, events>>

\* A session row is locked; if it is still not revoked, it is revoked and returned.
RevokeSession(c, s) ==
  /\ call[c].at = "session_rows"
  /\ s \in call[c].todo
  /\ slock[s] \in {NoCall, c}
  /\ \/ /\ Revocable(s)
        /\ slock' = [slock EXCEPT ![s] = c]
        /\ call' = [call EXCEPT ![c].at = PlaceAfter(c, s), ![c].todo = @ \ {s},
                                ![c].flips = @ \cup {s}]
     \/ /\ ~Revocable(s)
        /\ call' = [call EXCEPT ![c].at = PlaceAfter(c, s), ![c].todo = @ \ {s}]
        /\ UNCHANGED slock
  /\ UNCHANGED <<session, token, tlock, events>>

-----------------------------------------------------------------------------
(* The end of a transaction *)

\* Mutant: the revision stays.
SessionAfterSameRevision(c, s) ==
  LET bumped == call[c].bumped /\ s \in call[c].scope
      refreshed == bumped /\ call[c].t # NoToken
  IN [session[s] EXCEPT
        !.revoked = @ \/ s \in call[c].flips,
        !.expired = @ /\ ~refreshed,
        !.profile = IF bumped /\ ~refreshed THEN call[c].to ELSE @]

\* A session row as call c leaves it.
SessionAfter(c, s) ==
  LET bumped == call[c].bumped /\ s \in call[c].scope
      refreshed == bumped /\ call[c].t # NoToken
  IN [session[s] EXCEPT
        !.revoked = @ \/ s \in call[c].flips,
        !.csrf = IF bumped THEN @ + 1 ELSE @,
        !.expired = @ /\ ~refreshed,
        !.profile = IF bumped /\ ~refreshed THEN call[c].to ELSE @]

\* A token row as call c leaves it.
TokenAfter(c, t) ==
  LET row == IF t = call[c].new
             THEN [NoTokenRow EXCEPT !.session = TheSession(c), !.prev = call[c].t]
             ELSE token[t]
  IN [row EXCEPT !.used = @ \/ (call[c].claimed /\ t = call[c].t),
                 !.revoked = @ \/ t \in call[c].dead]

\* The events of a transaction: one for every session it revoked (a revoke-all puts them
\* into one event per home), or one for the switch, with the profile the principal had.
EventsAfter(c, s) ==
  LET switched == call[c].bumped /\ call[c].t = NoToken /\ s \in call[c].scope
  IN [revoked |-> events[s].revoked + IF s \in call[c].flips THEN 1 ELSE 0,
      left |-> [p \in Profiles |->
                  events[s].left[p] + IF switched /\ p = call[c].from THEN 1 ELSE 0]]

Commit(c) ==
  /\ call[c].at = "commit"
  /\ session' = [s \in Sessions |-> SessionAfter(c, s)]
  /\ token' = [t \in Tokens |-> TokenAfter(c, t)]
  /\ events' = [s \in Sessions |-> EventsAfter(c, s)]
  /\ slock' = Released(slock, c)
  /\ tlock' = Released(tlock, c)
  /\ call' = [call EXCEPT ![c] = Idle]

\* A statement fails, or the request is dropped.
Abort(c) == call[c].at # "idle" /\ Rollback(c)

-----------------------------------------------------------------------------
(* Waiting *)

\* The row locks without which call c cannot go on, as the calls that hold them.
WaitsFor(c) ==
  LET t == call[c].t
      s == TheSession(c)
  IN (CASE call[c].at = "claim" -> IF Claimable(t) THEN {tlock[t]} ELSE {}
        [] call[c].at = "bump" -> IF Bumpable(s) THEN {slock[s]} ELSE {}
        [] call[c].at = "switch" -> IF Switchable(s, call[c].from) THEN {slock[s]} ELSE {}
        [] call[c].at \in {"family_rows", "token_rows"} -> {tlock[r] : r \in call[c].todo}
        [] call[c].at = "session_rows" -> {slock[r] : r \in call[c].todo}
        [] OTHER -> {}) \ {c}

\* No row that call c could take next is free.
Waiting(c) == WaitsFor(c) # {} /\ NoCall \notin WaitsFor(c)

\* Calls that wait for each other.
Deadlocked(c) ==
  \E D \in SUBSET Calls : c \in D /\ \A d \in D : Waiting(d) /\ WaitsFor(d) \subseteq D

\* The database breaks the circle by failing a statement of one of them.
Victim(c) == Deadlocked(c) /\ Rollback(c)

-----------------------------------------------------------------------------
(* The specification *)

Begin(c) ==
  \/ \E t \in Tokens : Refresh(c, t)
  \/ \E s \in Sessions : Logout(c, s)
  \/ RevokeAll(c)
  \/ \E s \in Sessions, p \in Profiles : SelectProfile(c, s, p)

Step(c) ==
  \/ Claim(c) \/ Load(c) \/ Bump(c) \/ Switch(c) \/ Diagnose(c)
  \/ ScanFamily(c) \/ ScanSessions(c) \/ ScanTokens(c)
  \/ \E n \in Tokens : Rotate(c, n) \/ RevokeToken(c, n)
  \/ \E s \in Sessions : RevokeSession(c, s)
  \/ Commit(c)

Next ==
  \/ \E s \in Sessions : Expire(s) \/ \E n \in Tokens : Login(s, n)
  \/ \E c \in Calls : Begin(c) \/ Step(c) \/ Abort(c) \/ Victim(c)

Spec == Init /\ [][Next]_vars

\* A lock goes to its waiters in the order they came, so none waits for ever while
\* others get it; the database finds a circle after its deadlock_timeout.
Fairness == \A c \in Calls : SF_vars(Step(c)) /\ WF_vars(Victim(c))

FairSpec == Spec /\ Fairness

-----------------------------------------------------------------------------
(* Properties *)

Live(t) == token[t].session # NoSession /\ ~token[t].used /\ ~token[t].revoked

\* A revoked session has no token that a refresh would still accept: none that was issued
\* before the revocation, none that a refresh inserted while the revocation went through
\* the rows, whichever of them got which lock first.
RevokedIsDead ==
  \A t \in Tokens : token[t].session # NoSession /\ session[token[t].session].revoked
                     => token[t].revoked

\* However many refreshes present it, a token is replaced once: the tokens of a session
\* form a line, and at most the last of them can be used.
OneLine ==
  /\ \A t, u \in Tokens :
       token[t].prev = token[u].prev /\ token[t].prev # NoToken => t = u
  /\ \A t, u \in Tokens :
       Live(t) /\ Live(u) /\ token[t].session = token[u].session => t = u

\* A revocation is announced in the transaction that made it, and by no other: a session
\* that a logout, a reuse, an overflow and a revoke-all end together has one event.
AnnouncedOnce ==
  \A s \in Sessions : events[s].revoked = IF session[s].revoked THEN 1 ELSE 0

\* What a step may do to the committed rows: a row stays, a token stays used or revoked
\* and keeps its session and predecessor, a session stays revoked and keeps its revision
\* once it is, and the revision grows whenever the profile changes or a token is added.
RowsGrow ==
  /\ \A t \in Tokens : token[t].session # NoSession =>
       /\ token'[t].session = token[t].session
       /\ token'[t].prev = token[t].prev
       /\ token[t].used => token'[t].used
       /\ token[t].revoked => token'[t].revoked
  /\ \A s \in Sessions : session[s].here =>
       /\ session'[s].here
       /\ session'[s].csrf >= session[s].csrf
       /\ session[s].revoked => /\ session'[s].revoked
                                /\ session'[s].csrf = session[s].csrf
       /\ \/ session'[s].csrf > session[s].csrf
          \/ /\ session'[s].profile = session[s].profile
             /\ \A t \in Tokens : token'[t].session = s => token[t].session = s

\* What is committed is not taken back, and a CSRF token that was handed out before a
\* refresh or a profile switch is never valid again.
NothingUndone == [][RowsGrow]_vars

\* A session that leaves a profile has one event that names that profile, and there is no
\* other: the consumers end what runs under the profile that was left, although a switch
\* takes it from a principal that was loaded before other switches and refreshes.
ProfileLeftIsAnnounced ==
  [][ \A s \in Sessions, p \in Profiles :
        events'[s].left[p] = events[s].left[p]
          + IF session[s].here /\ session[s].profile = p /\ session'[s].profile # p
            THEN 1 ELSE 0 ]_vars

\* Every call ends: those that wait for each other's rows (a refresh locks its token and
\* then the session, a logout the session and then its tokens) are told apart by the
\* database, and no other waiting lasts.
EveryCallEnds == \A c \in Calls : call[c].at # "idle" ~> call[c].at = "idle"
=============================================================================
