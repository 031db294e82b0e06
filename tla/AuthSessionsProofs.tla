-------------------------- MODULE AuthSessionsProofs --------------------------
(* Theorems about AuthSessions, for any number of calls, sessions and tokens *)
(* and any limit of the revision.                                           *)
EXTENDS AuthSessions, TLAPS

(***************************************************************************)
(* The inductive invariant                                                 *)
(***************************************************************************)

\* What a transaction has written it has locked, and what it relies on it has locked too:
\* the token it claimed is still claimable in the committed table, the session it
\* extended still bumpable, the sessions it revokes still not revoked.  A call that
\* revoked sessions and goes through their tokens misses none of them.
CallOK(c) ==
  /\ call[c].t # NoToken => /\ token[call[c].t].session # NoSession
                            /\ call[c].scope = {token[call[c].t].session}
  /\ call[c].claimed => /\ call[c].t # NoToken
                        /\ tlock[call[c].t] = c
                        /\ Claimable(call[c].t)
  /\ call[c].at \in {"claim", "load", "bump", "rotate"} => call[c].t # NoToken
  /\ call[c].at \in {"bump", "rotate"} => call[c].claimed
  /\ call[c].at = "rotate" => call[c].bumped
  /\ call[c].at = "switch" =>
       \E s \in Sessions : call[c].scope = {s} /\ session[s].here
  /\ call[c].bumped =>
       \E s \in Sessions : /\ call[c].scope = {s}
                           /\ slock[s] = c
                           /\ session[s].here
                           /\ Bumpable(s)
  /\ call[c].new # NoToken => /\ call[c].claimed
                              /\ call[c].bumped
                              /\ token[call[c].new].session = NoSession
  /\ \A s \in call[c].flips : s \in call[c].scope /\ slock[s] = c /\ Revocable(s)
  /\ \A k \in call[c].dead : tlock[k] = c
  /\ call[c].flips # {} =>
       call[c].at \in {"session_rows", "tokens", "token_rows", "commit"}
  /\ call[c].at = "session_rows" => call[c].todo \subseteq call[c].scope
  /\ call[c].at \in {"token_rows", "commit"} =>
       \A k \in Tokens : token[k].session \in call[c].flips
                         \/ (call[c].flips # {} /\ k = call[c].new)
         => \/ k \in call[c].dead
            \/ call[c].at = "token_rows" /\ k \in call[c].todo

\* No two transactions insert the same row.
NewsDistinct ==
  \A c, d \in Calls : call[c].new = call[d].new /\ call[c].new # NoToken => c = d

\* Rows refer to rows: the session of a token exists, its predecessor was used, and
\* nothing is known of a session that does not exist.
RowsConsistent ==
  /\ \A t \in Tokens : token[t].session # NoSession => session[token[t].session].here
  /\ \A t \in Tokens : token[t].session = NoSession => token[t].prev = NoToken /\ ~token[t].used
  /\ \A t \in Tokens : token[t].prev # NoToken => token[token[t].prev].used
  /\ \A s \in Sessions : ~session[s].here => ~session[s].revoked

AuthInv ==
  /\ TypeOK
  /\ \A c \in Calls : CallOK(c)
  /\ NewsDistinct
  /\ RowsConsistent
  /\ RevokedIsDead
  /\ OneLine
  /\ AnnouncedOnce

(***************************************************************************)
(* Lemmas                                                                  *)
(***************************************************************************)

\* The values that stand for nothing have the types of the tables and of calls.
LEMMA Blanks ==
  /\ NoRow \in SessionRow
  /\ NoTokenRow \in TokenRow
  /\ Idle \in Call
  /\ NoToken \notin Tokens
<1>1. 0 \in 0..MaxCsrf
  BY LimitsAssumption
<1>2. NoRow \in SessionRow
  BY <1>1, ProfilesAssumption DEF NoRow, SessionRow
<1>3. NoTokenRow \in TokenRow
  BY DEF NoTokenRow, TokenRow
<1>4. Idle \in Call
  BY ProfilesAssumption DEF Idle, Call, Places
<1>5. NoToken \notin Tokens
  BY DEF NoToken, Tokens
<1> QED
  BY <1>2, <1>3, <1>4, <1>5

\* The session of a call with one session.
LEMMA OneSession ==
  ASSUME NEW c \in Calls, NEW s \in Sessions, call[c].scope = {s}
  PROVE  TheSession(c) = s
BY DEF TheSession

\* An idle call has written nothing and relies on nothing.
LEMMA IdleOK ==
  ASSUME NEW c \in Calls, call[c] = Idle
  PROVE  CallOK(c)
BY DEF CallOK, Idle

\* The empty tables satisfy the invariant.
LEMMA InitAuthInv == Init => AuthInv
<1> SUFFICES ASSUME Init PROVE AuthInv
  OBVIOUS
<1>1. TypeOK
  BY Blanks DEF Init, TypeOK
<1>2. ASSUME NEW c \in Calls PROVE CallOK(c)
  BY IdleOK DEF Init
<1>3. NewsDistinct /\ RowsConsistent
  BY Blanks DEF Init, NewsDistinct, RowsConsistent, Idle, NoRow, NoTokenRow
<1>4. RevokedIsDead /\ OneLine /\ AnnouncedOnce
  BY DEF Init, RevokedIsDead, OneLine, AnnouncedOnce, NoRow, NoTokenRow, Live
<1> QED
  BY <1>1, <1>2, <1>3, <1>4 DEF AuthInv

\* What a step of another call leaves alone: the rows call d has locked, its record, the
\* rows that exist, and the set of tokens of a session d has locked.
Frame(d) ==
  /\ call'[d] = call[d]
  /\ \A k \in Tokens : tlock[k] = d => tlock'[k] = d
  /\ \A k \in Tokens : tlock[k] = d /\ token[k].session # NoSession =>
       token'[k].used = token[k].used /\ token'[k].revoked = token[k].revoked
  /\ \A s \in Sessions : slock[s] = d => slock'[s] = d
  /\ \A s \in Sessions : slock[s] = d /\ session[s].here =>
       session'[s].revoked = session[s].revoked /\ session'[s].csrf = session[s].csrf
  /\ \A s \in Sessions : session[s].here => session'[s].here
  /\ \A k \in Tokens : token[k].session # NoSession => token'[k].session = token[k].session
  /\ \A k \in Tokens : token'[k].session # token[k].session =>
       \A s \in Sessions : slock[s] = d /\ session[s].here => token'[k].session # s
  /\ call[d].new # NoToken => token'[call[d].new].session = NoSession

\* A call that others leave alone stays as it should be.
LEMMA FrameOK ==
  ASSUME TypeOK, NEW d \in Calls, CallOK(d), Frame(d)
  PROVE  CallOK(d)'
<1>1. call[d] \in Call
  BY DEF TypeOK
<1>2. (call[d].t # NoToken => /\ token[call[d].t].session # NoSession
                            /\ call[d].scope = {token[call[d].t].session})'
  BY <1>1 DEF CallOK, Frame, Call
<1>3. (call[d].claimed => /\ call[d].t # NoToken
                        /\ tlock[call[d].t] = d
                        /\ Claimable(call[d].t))'
  BY <1>1 DEF CallOK, Frame, Call, Claimable
<1>4. (call[d].at = "switch" =>
       \E s \in Sessions : call[d].scope = {s} /\ session[s].here)'
  BY DEF CallOK, Frame
<1>5. (call[d].bumped =>
       \E s \in Sessions : /\ call[d].scope = {s}
                           /\ slock[s] = d
                           /\ session[s].here
                           /\ Bumpable(s))'
  BY DEF CallOK, Frame, Bumpable
<1>6. (\A s \in call[d].flips : s \in call[d].scope /\ slock[s] = d /\ Revocable(s))'
  BY <1>1 DEF CallOK, Frame, Revocable, Call
<1>7. (\A k \in call[d].dead : tlock[k] = d)'
  BY <1>1 DEF CallOK, Frame, Call
<1>8. (call[d].at \in {"token_rows", "commit"} =>
       \A k \in Tokens : token[k].session \in call[d].flips
                         \/ (call[d].flips # {} /\ k = call[d].new)
         => \/ k \in call[d].dead
            \/ call[d].at = "token_rows" /\ k \in call[d].todo)'
  <2> SUFFICES ASSUME call[d].at \in {"token_rows", "commit"}, NEW k \in Tokens,
                      token'[k].session \in call[d].flips
                      \/ (call[d].flips # {} /\ k = call[d].new)
               PROVE  \/ k \in call[d].dead
                      \/ call[d].at = "token_rows" /\ k \in call[d].todo
    BY DEF Frame
  <2>1. token'[k].session \in call[d].flips => token'[k].session = token[k].session
    BY <1>1 DEF CallOK, Frame, Call, Revocable
  <2> QED
    BY <2>1 DEF CallOK
<1> QED
  BY <1>2, <1>3, <1>4, <1>5, <1>6, <1>7, <1>8 DEF CallOK, Frame

\* A step of one call inside its transaction: it changes its record and takes or gives
\* back locks, and nothing else.
LEMMA PrivateStep ==
  ASSUME AuthInv, NEW c \in Calls, NEW r \in Call,
         UNCHANGED <<session, token, events>>,
         call' = [call EXCEPT ![c] = r],
         slock' \in [Sessions -> Calls \cup {NoCall}],
         tlock' \in [Tokens -> Calls \cup {NoCall}],
         \A s \in Sessions : slock[s] \in {c, NoCall} \/ slock'[s] = slock[s],
         \A k \in Tokens : tlock[k] \in {c, NoCall} \/ tlock'[k] = tlock[k],
         r.new # NoToken => \A d \in Calls \ {c} : call[d].new # r.new,
         CallOK(c)'
  PROVE  AuthInv'
<1>1. TypeOK'
  BY DEF AuthInv, TypeOK
<1>2. ASSUME NEW d \in Calls, d # c PROVE CallOK(d)'
  <2>1. Frame(d)
    BY <1>2, CallsAssumption DEF Frame, AuthInv, TypeOK, CallOK
  <2> QED
    BY <2>1, FrameOK DEF AuthInv
<1>3. NewsDistinct'
  BY DEF AuthInv, TypeOK, NewsDistinct
<1>4. RowsConsistent' /\ RevokedIsDead' /\ OneLine' /\ AnnouncedOnce'
  BY DEF AuthInv, RowsConsistent, RevokedIsDead, OneLine, AnnouncedOnce, Live
<1> QED
  BY <1>1, <1>2, <1>3, <1>4 DEF AuthInv

\* A step of a call that is not its first: it keeps its token and its sessions, and what
\* it adds to its writes, to become the record r, it has locked.
Grows(c, r) ==
  /\ UNCHANGED <<session, token, events>>
  /\ call' = [call EXCEPT ![c] = r]
  /\ slock' \in [Sessions -> Calls \cup {NoCall}]
  /\ tlock' \in [Tokens -> Calls \cup {NoCall}]
  /\ \A s \in Sessions : \/ slock'[s] = slock[s]
                         \/ slock[s] \in {c, NoCall} /\ slock'[s] = c
  /\ \A k \in Tokens : \/ tlock'[k] = tlock[k]
                       \/ tlock[k] \in {c, NoCall} /\ tlock'[k] = c
  /\ r.t = call[c].t /\ r.scope = call[c].scope
  /\ call[c].claimed => r.claimed
  /\ call[c].bumped => r.bumped
  /\ r.claimed => \/ call[c].claimed
                  \/ r.t # NoToken /\ tlock'[r.t] = c /\ Claimable(r.t)
  /\ r.bumped => \/ call[c].bumped
                 \/ \E s \in Sessions : /\ r.scope = {s}
                                        /\ slock'[s] = c
                                        /\ session[s].here
                                        /\ Bumpable(s)
  /\ r.new # call[c].new => /\ r.claimed /\ r.bumped
                            /\ token[r.new].session = NoSession
                            /\ \A d \in Calls \ {c} : call[d].new # r.new
  /\ \A s \in r.flips : \/ s \in call[c].flips
                        \/ s \in r.scope /\ slock'[s] = c /\ Revocable(s)
  /\ \A k \in r.dead : k \in call[c].dead \/ tlock'[k] = c

\* The place the record says the call is at.
InPlace(r) ==
  /\ r.at \in {"claim", "load", "bump", "rotate"} => r.t # NoToken
  /\ r.at \in {"bump", "rotate"} => r.claimed
  /\ r.at = "rotate" => r.bumped
  /\ r.at # "switch"
  /\ r.flips # {} => r.at \in {"session_rows", "tokens", "token_rows", "commit"}
  /\ r.at = "session_rows" => r.todo \subseteq r.scope
  /\ r.at \in {"token_rows", "commit"} =>
       \A k \in Tokens : token[k].session \in r.flips \/ (r.flips # {} /\ k = r.new)
         => k \in r.dead \/ (r.at = "token_rows" /\ k \in r.todo)

\* Such steps preserve the invariant.
LEMMA GrowingStep ==
  ASSUME AuthInv, NEW c \in Calls, NEW r \in Call, Grows(c, r), InPlace(r)
  PROVE  AuthInv'
<1> USE DEF Grows
<1>1. call'[c] = r /\ call[c] \in Call /\ CallOK(c)
  BY DEF AuthInv, TypeOK
<1>2. (call[c].t # NoToken => /\ token[call[c].t].session # NoSession
                            /\ call[c].scope = {token[call[c].t].session})'
  BY <1>1 DEF CallOK
<1>3. (call[c].claimed => /\ call[c].t # NoToken
                        /\ tlock[call[c].t] = c
                        /\ Claimable(call[c].t))'
  BY <1>1 DEF CallOK, Call, Claimable
<1>4. (call[c].bumped =>
       \E s \in Sessions : /\ call[c].scope = {s}
                           /\ slock[s] = c
                           /\ session[s].here
                           /\ Bumpable(s))'
  <2>1. CASE r.bumped /\ call[c].bumped
    <3>1. PICK s \in Sessions : /\ call[c].scope = {s}
                                /\ slock[s] = c
                                /\ session[s].here
                                /\ Bumpable(s)
      BY <1>1, <2>1 DEF CallOK
    <3>2. slock'[s] = c
      BY <3>1
    <3> QED
      BY <1>1, <3>1, <3>2 DEF Bumpable
  <2> QED
    BY <1>1, <2>1 DEF Bumpable
<1>5. (call[c].new # NoToken => /\ call[c].claimed
                              /\ call[c].bumped
                              /\ token[call[c].new].session = NoSession)'
  BY <1>1 DEF CallOK
<1>6. (\A s \in call[c].flips : s \in call[c].scope /\ slock[s] = c /\ Revocable(s))'
  BY <1>1 DEF CallOK, Call, Revocable
<1>7. (\A k \in call[c].dead : tlock[k] = c)'
  BY <1>1 DEF CallOK, Call
<1>8. CallOK(c)'
  BY <1>1, <1>2, <1>3, <1>4, <1>5, <1>6, <1>7 DEF CallOK, InPlace
<1>9. r.new # NoToken => \A d \in Calls \ {c} : call[d].new # r.new
  BY DEF AuthInv, NewsDistinct
<1> QED
  BY <1>8, <1>9, PrivateStep

(***************************************************************************)
(* Every step preserves the invariant                                      *)
(***************************************************************************)

\* A new call has written nothing.
LEMMA BeginKeepsInv ==
  ASSUME AuthInv, NEW c \in Calls, Begin(c)
  PROVE  AuthInv'
<1>1. CASE \E t \in Tokens : Refresh(c, t)
  <2> PICK t \in Tokens : Refresh(c, t)
    BY <1>1
  <2> DEFINE r == [Idle EXCEPT !.at = "claim", !.t = t, !.scope = {token[t].session}]
  <2>1. token[t].session \in Sessions
    BY DEF AuthInv, TypeOK, TokenRow, Refresh
  <2>2. r \in Call /\ call' = [call EXCEPT ![c] = r]
    BY <2>1, Blanks DEF Refresh, Call, Places
  <2>3. call'[c] = r /\ UNCHANGED <<session, token, slock, tlock, events>>
    BY <2>2 DEF AuthInv, TypeOK, Refresh
  <2>5. /\ r.at = "claim" /\ r.t = t /\ r.scope = {token[t].session} /\ ~r.claimed
        /\ ~r.bumped /\ r.new = NoToken /\ r.flips = {} /\ r.dead = {}
    BY DEF Idle
  <2> HIDE DEF r
  <2>4. CallOK(c)'
    BY <2>3, <2>5, <2>1, SessionsAssumption, Blanks DEF CallOK
  <2> QED
    BY <2>2, <2>3, <2>4, <2>5, PrivateStep DEF AuthInv, TypeOK
<1>2. CASE (\E s \in Sessions : Logout(c, s)) \/ RevokeAll(c)
  <2> PICK z \in SUBSET Sessions :
        /\ call' = [call EXCEPT ![c] = [Idle EXCEPT !.at = "revoke", !.scope = z]]
        /\ UNCHANGED <<session, token, slock, tlock, events>>
    <3>1. CASE RevokeAll(c)
      BY <3>1 DEF RevokeAll
    <3>2. CASE \E s \in Sessions : Logout(c, s)
      <4> PICK s \in Sessions : Logout(c, s)
        BY <3>2
      <4>1. {s} \in SUBSET Sessions
        OBVIOUS
      <4> QED
        BY <4>1 DEF Logout
    <3> QED
      BY <1>2, <3>1, <3>2
  <2> DEFINE r == [Idle EXCEPT !.at = "revoke", !.scope = z]
  <2>2. r \in Call /\ call' = [call EXCEPT ![c] = r]
    BY Blanks DEF Call, Places
  <2>3. call'[c] = r
    BY <2>2 DEF AuthInv, TypeOK
  <2>5. /\ r.at = "revoke" /\ r.t = NoToken /\ ~r.claimed
        /\ ~r.bumped /\ r.new = NoToken /\ r.flips = {} /\ r.dead = {}
    BY DEF Idle
  <2> HIDE DEF r
  <2>4. CallOK(c)'
    BY <2>3, <2>5 DEF CallOK
  <2> QED
    BY <2>2, <2>3, <2>4, <2>5, PrivateStep DEF AuthInv, TypeOK
<1>3. CASE \E s \in Sessions, p \in Profiles : SelectProfile(c, s, p)
  <2> PICK s \in Sessions, p \in Profiles : SelectProfile(c, s, p)
    BY <1>3
  <2> DEFINE r == [Idle EXCEPT !.at = "switch", !.scope = {s},
                               !.from = session[s].profile, !.to = p]
  <2>1. session[s].profile \in Profiles
    BY DEF AuthInv, TypeOK, SessionRow
  <2>2. r \in Call /\ call' = [call EXCEPT ![c] = r]
    BY <2>1, Blanks DEF SelectProfile, Call, Places
  <2>3. call'[c] = r /\ UNCHANGED <<session, token, slock, tlock, events>>
    BY <2>2 DEF AuthInv, TypeOK, SelectProfile
  <2>5. /\ r.at = "switch" /\ r.t = NoToken /\ r.scope = {s} /\ ~r.claimed
        /\ ~r.bumped /\ r.new = NoToken /\ r.flips = {} /\ r.dead = {}
    BY DEF Idle
  <2> HIDE DEF r
  <2>4. CallOK(c)'
    BY <2>3, <2>5 DEF CallOK, SelectProfile
  <2> QED
    BY <2>2, <2>3, <2>4, <2>5, PrivateStep DEF AuthInv, TypeOK
<1> QED
  BY <1>1, <1>2, <1>3 DEF Begin

\* Locks given back are locks of nobody.
LEMMA ReleasedLocks ==
  ASSUME TypeOK, NEW c \in Calls
  PROVE  /\ Released(slock, c) \in [Sessions -> Calls \cup {NoCall}]
         /\ Released(tlock, c) \in [Tokens -> Calls \cup {NoCall}]
         /\ \A s \in Sessions :
              Released(slock, c)[s] = IF slock[s] = c THEN NoCall ELSE slock[s]
         /\ \A k \in Tokens :
              Released(tlock, c)[k] = IF tlock[k] = c THEN NoCall ELSE tlock[k]
BY DEF TypeOK, Released

\* A transaction that is rolled back leaves the others alone.
LEMMA RollbackKeepsInv ==
  ASSUME AuthInv, NEW c \in Calls, Rollback(c)
  PROVE  AuthInv'
<1>1. call'[c] = Idle
  BY DEF AuthInv, TypeOK, Rollback
<1>2. CallOK(c)'
  BY <1>1 DEF CallOK, Idle
<1>3. Idle.new = NoToken
  BY DEF Idle
<1> QED
  BY <1>2, <1>3, Blanks, ReleasedLocks, PrivateStep DEF AuthInv, Rollback

\* A statement that finds no row, or only reads.
LEMMA GotoKeepsInv ==
  ASSUME AuthInv, NEW c \in Calls, NEW p \in Places \ {"switch", "session_rows"},
         Goto(c, p), UNCHANGED <<session, token, slock, tlock, events>>,
         p \in {"claim", "load", "bump", "rotate"} => call[c].t # NoToken,
         p \in {"bump", "rotate"} => call[c].claimed,
         p = "rotate" => call[c].bumped,
         call[c].flips = {}
  PROVE  AuthInv'
<1> DEFINE r == [call[c] EXCEPT !.at = p]
<1>1. call[c] \in Call
  BY DEF AuthInv, TypeOK
<1>2. r \in Call /\ call' = [call EXCEPT ![c] = r]
  BY <1>1 DEF Call, AuthInv, TypeOK, Goto
<1>3. r.new = call[c].new /\ r.flips = {} /\ r.dead = call[c].dead
      /\ r.t = call[c].t /\ r.scope = call[c].scope /\ r.bumped = call[c].bumped
      /\ r.claimed = call[c].claimed /\ r.at = p
  BY <1>1 DEF Call
<1> HIDE DEF r
<1>4. Grows(c, r)
  BY <1>2, <1>3 DEF Grows, AuthInv, TypeOK
<1>5. InPlace(r)
  BY <1>3 DEF InPlace
<1> QED
  BY <1>2, <1>4, <1>5, GrowingStep

\* The statements of a refresh: each relies on rows it has locked.
LEMMA RefreshKeepsInv ==
  ASSUME AuthInv, NEW c \in Calls,
         Claim(c) \/ Load(c) \/ Bump(c) \/ \E n \in Tokens : Rotate(c, n)
  PROVE  AuthInv'
<1>0. call[c] \in Call /\ CallOK(c)
  BY DEF AuthInv, TypeOK
<1>1. CASE Claim(c)
  <2>1. call[c].t \in Tokens /\ call[c].at = "claim"
    BY <1>0, <1>1 DEF Claim, CallOK, Call
  <2>2. CASE /\ Claimable(call[c].t)
             /\ tlock[call[c].t] = NoCall
             /\ tlock' = [tlock EXCEPT ![call[c].t] = c]
             /\ call' = [call EXCEPT ![c].at = "load", ![c].claimed = TRUE]
    <3> DEFINE r == [call[c] EXCEPT !.at = "load", !.claimed = TRUE]
    <3>1. r \in Call /\ call' = [call EXCEPT ![c] = r]
      BY <1>0, <2>2 DEF Call, Places, AuthInv, TypeOK
    <3>2. tlock' \in [Tokens -> Calls \cup {NoCall}]
      BY <2>1, <2>2 DEF AuthInv, TypeOK
    <3>3. r.new = call[c].new /\ r.flips = call[c].flips /\ r.dead = call[c].dead
          /\ r.t = call[c].t /\ r.scope = call[c].scope /\ r.bumped = call[c].bumped
          /\ r.claimed /\ r.at = "load"
      BY <1>0 DEF Call
    <3> HIDE DEF r
    <3>4. \A k \in Tokens : tlock'[k] = tlock[k] \/ (tlock[k] \in {c, NoCall} /\ tlock'[k] = c)
      BY <2>1, <2>2 DEF AuthInv, TypeOK
    <3>5. tlock'[call[c].t] = c
      BY <2>1, <2>2 DEF AuthInv, TypeOK
    <3>6. UNCHANGED <<session, token, slock, events>>
      BY <1>1 DEF Claim
    <3>7. r.flips = {}
      BY <1>0, <2>1, <3>3 DEF CallOK
    <3>8. slock' \in [Sessions -> Calls \cup {NoCall}]
      BY <3>6 DEF AuthInv, TypeOK
    <3>9. Grows(c, r)
      BY <2>1, <2>2, <3>1, <3>2, <3>3, <3>4, <3>5, <3>6, <3>8, Blanks DEF Grows
    <3>10. InPlace(r)
      BY <2>1, <3>3, <3>7, Blanks DEF InPlace
    <3> QED
      BY <3>1, <3>9, <3>10, GrowingStep
  <2>3. CASE ~Claimable(call[c].t) /\ Goto(c, "load") /\ UNCHANGED tlock
    <3>1. call[c].flips = {} /\ call[c].t # NoToken
      BY <1>0, <2>1, Blanks DEF CallOK
    <3>2. UNCHANGED <<session, token, slock, tlock, events>>
      BY <1>1, <2>3 DEF Claim
    <3> QED
      BY <2>3, <3>1, <3>2, GotoKeepsInv DEF Places
  <2> QED
    BY <1>1, <2>2, <2>3 DEF Claim
<1>2. CASE Load(c)
  <2>1. call[c].flips = {} /\ call[c].t # NoToken
    BY <1>0, <1>2 DEF CallOK, Load
  <2>2. CASE Rollback(c)
    BY <2>2, RollbackKeepsInv
  <2>3. CASE /\ Goto(c, IF call[c].claimed THEN "bump" ELSE "family")
             /\ UNCHANGED <<session, token, slock, tlock, events>>
    BY <2>1, <2>3, GotoKeepsInv DEF Places
  <2> QED
    BY <1>2, <2>2, <2>3 DEF Load
<1>3. CASE Bump(c)
  <2>1. /\ call[c].at = "bump" /\ call[c].flips = {} /\ call[c].t # NoToken
        /\ call[c].claimed
    BY <1>0, <1>3 DEF CallOK, Bump
  <2> PICK s \in Sessions : call[c].scope = {s} /\ session[s].here
    <3>1. token[call[c].t].session \in Sessions
      BY <1>0, <2>1 DEF CallOK, Call, AuthInv, TypeOK, TokenRow
    <3> QED
      BY <1>0, <2>1, <3>1 DEF CallOK, Call, AuthInv, RowsConsistent
  <2>2. TheSession(c) = s
    BY OneSession
  <2>3. CASE ~Bumpable(s) /\ Goto(c, "family") /\ UNCHANGED slock
    <3>1. UNCHANGED <<session, token, slock, tlock, events>>
      BY <1>3, <2>3 DEF Bump
    <3> QED
      BY <2>1, <2>3, <3>1, GotoKeepsInv DEF Places
  <2>4. CASE /\ Bumpable(s)
             /\ slock[s] = NoCall
             /\ slock' = [slock EXCEPT ![s] = c]
             /\ call' = [call EXCEPT ![c].at = "rotate", ![c].bumped = TRUE]
    <3> DEFINE r == [call[c] EXCEPT !.at = "rotate", !.bumped = TRUE]
    <3>1. r \in Call /\ call' = [call EXCEPT ![c] = r]
      BY <1>0, <2>4 DEF Call, Places, AuthInv, TypeOK
    <3>2. r.new = call[c].new /\ r.flips = {} /\ r.dead = call[c].dead
          /\ r.t = call[c].t /\ r.scope = call[c].scope /\ r.bumped
          /\ r.claimed /\ r.at = "rotate"
      BY <1>0, <2>1 DEF Call
    <3> HIDE DEF r
    <3>3. UNCHANGED <<session, token, tlock, events>>
      BY <1>3 DEF Bump
    <3>4. Grows(c, r)
      BY <2>1, <2>4, <3>1, <3>2, <3>3 DEF Grows, AuthInv, TypeOK
    <3>5. InPlace(r)
      BY <2>1, <3>2 DEF InPlace
    <3> QED
      BY <3>1, <3>4, <3>5, GrowingStep
  <2> QED
    BY <1>3, <2>2, <2>3, <2>4 DEF Bump
<1>4. CASE \E n \in Tokens : Rotate(c, n)
  <2> PICK n \in Tokens, p \in {"commit", "family"} :
        /\ call[c].at = "rotate"
        /\ Fresh(n)
        /\ call' = [call EXCEPT ![c].at = p, ![c].new = n]
        /\ UNCHANGED <<session, token, slock, tlock, events>>
    BY <1>4 DEF Rotate
  <2> DEFINE r == [call[c] EXCEPT !.at = p, !.new = n]
  <2>1. call[c].claimed /\ call[c].bumped /\ call[c].flips = {}
    BY <1>0 DEF CallOK
  <2>2. r \in Call /\ call' = [call EXCEPT ![c] = r]
    BY <1>0 DEF Call, Places, AuthInv, TypeOK
  <2>3. r.new = n /\ r.flips = {} /\ r.dead = call[c].dead
        /\ r.t = call[c].t /\ r.scope = call[c].scope /\ r.bumped
        /\ r.claimed /\ r.at = p
    BY <1>0, <2>1 DEF Call
  <2> HIDE DEF r
  <2>4. Grows(c, r)
    BY <2>1, <2>2, <2>3 DEF Grows, AuthInv, TypeOK, Fresh, Unused
  <2>5. InPlace(r)
    BY <2>3 DEF InPlace
  <2> QED
    BY <2>2, <2>4, <2>5, GrowingStep
<1> QED
  BY <1>1, <1>2, <1>3, <1>4

\* The statements of a profile switch.
LEMMA SwitchKeepsInv ==
  ASSUME AuthInv, NEW c \in Calls, Switch(c) \/ Diagnose(c)
  PROVE  AuthInv'
<1>0. call[c] \in Call /\ CallOK(c)
  BY DEF AuthInv, TypeOK
<1>1. CASE Switch(c)
  <2>1. call[c].at = "switch" /\ call[c].flips = {}
    BY <1>0, <1>1 DEF CallOK, Switch
  <2> PICK s \in Sessions : call[c].scope = {s} /\ session[s].here
    BY <1>0, <2>1 DEF CallOK
  <2>2. TheSession(c) = s
    BY OneSession
  <2>3. CASE ~Switchable(s, call[c].from) /\ Goto(c, "diagnose") /\ UNCHANGED slock
    <3>1. UNCHANGED <<session, token, slock, tlock, events>>
      BY <1>1, <2>3 DEF Switch
    <3> QED
      BY <2>1, <2>3, <3>1, GotoKeepsInv DEF Places
  <2>4. CASE /\ Switchable(s, call[c].from)
             /\ slock[s] = NoCall
             /\ slock' = [slock EXCEPT ![s] = c]
             /\ call' = [call EXCEPT ![c].at = "commit", ![c].bumped = TRUE]
    <3> DEFINE r == [call[c] EXCEPT !.at = "commit", !.bumped = TRUE]
    <3>1. r \in Call /\ call' = [call EXCEPT ![c] = r]
      BY <1>0, <2>4 DEF Call, Places, AuthInv, TypeOK
    <3>2. r.new = call[c].new /\ r.flips = {} /\ r.dead = call[c].dead
          /\ r.t = call[c].t /\ r.scope = call[c].scope /\ r.bumped
          /\ r.claimed = call[c].claimed /\ r.at = "commit"
      BY <1>0, <2>1 DEF Call
    <3> HIDE DEF r
    <3>3. UNCHANGED <<session, token, tlock, events>>
      BY <1>1 DEF Switch
    <3>4. Grows(c, r)
      BY <2>1, <2>4, <3>1, <3>2, <3>3 DEF Grows, AuthInv, TypeOK, Switchable
    <3>5. InPlace(r)
      BY <2>1, <3>2 DEF InPlace
    <3> QED
      BY <3>1, <3>4, <3>5, GrowingStep
  <2> QED
    BY <1>1, <2>2, <2>3, <2>4 DEF Switch
<1>2. CASE Diagnose(c)
  <2>1. call[c].flips = {}
    BY <1>0, <1>2 DEF CallOK, Diagnose
  <2>2. CASE Rollback(c)
    BY <2>2, RollbackKeepsInv
  <2>3. CASE Goto(c, "revoke") /\ UNCHANGED <<session, token, slock, tlock, events>>
    BY <2>1, <2>3, GotoKeepsInv DEF Places
  <2> QED
    BY <1>2, <2>2, <2>3 DEF Diagnose
<1> QED
  BY <1>1, <1>2

\* An UPDATE of several rows starts with all the rows it has to write.
LEMMA ScanKeepsInv ==
  ASSUME AuthInv, NEW c \in Calls, ScanFamily(c) \/ ScanSessions(c) \/ ScanTokens(c)
  PROVE  AuthInv'
<1>0. call[c] \in Call /\ CallOK(c)
  BY DEF AuthInv, TypeOK
<1>1. ASSUME NEW p \in {"family_rows", "session_rows", "token_rows"},
             NEW rows \in SUBSET (Sessions \cup Tokens),
             Scan(c, p, rows),
             call[c].at \in {"family", "revoke", "tokens"},
             call[c].flips # {} => p = "token_rows",
             p = "session_rows" => rows \subseteq call[c].scope,
             p = "token_rows" => TokensOf(c) \subseteq rows
      PROVE  AuthInv'
  <2> DEFINE next == IF rows = {} THEN AfterRows(p) ELSE p
             r == [call[c] EXCEPT !.at = next, !.todo = rows]
  <2>1. /\ next \in {"family_rows", "session_rows", "token_rows", "revoke", "tokens", "commit"}
        /\ next = "session_rows" => p = "session_rows"
        /\ next \in {"token_rows", "commit"} => p = "token_rows"
        /\ p = "token_rows" => \/ next = "token_rows"
                               \/ next = "commit" /\ rows = {}
    BY <1>1 DEF AfterRows
  <2> HIDE DEF next
  <2>2. r \in Call /\ call' = [call EXCEPT ![c] = r]
    BY <1>0, <1>1, <2>1 DEF Call, Places, AuthInv, TypeOK, Scan, next
  <2>3. r.new = call[c].new /\ r.flips = call[c].flips /\ r.dead = call[c].dead
        /\ r.t = call[c].t /\ r.scope = call[c].scope /\ r.bumped = call[c].bumped
        /\ r.claimed = call[c].claimed /\ r.at = next /\ r.todo = rows
    BY <1>0 DEF Call
  <2> HIDE DEF r
  <2>4. Grows(c, r)
    BY <1>1, <2>2, <2>3 DEF Grows, AuthInv, TypeOK, Scan
  <2>5. ASSUME p = "token_rows", NEW k \in Tokens,
               token[k].session \in r.flips \/ (r.flips # {} /\ k = r.new)
        PROVE  k \in rows
    BY <1>0, <1>1, <2>3, <2>5 DEF CallOK, TokensOf
  <2>6. InPlace(r)
    BY <1>1, <2>1, <2>3, <2>5 DEF InPlace
  <2> QED
    BY <2>2, <2>4, <2>6, GrowingStep
<1>2. TokensOf(c) \in SUBSET (Sessions \cup Tokens)
  BY DEF TokensOf
<1>3. {s \in call[c].scope : Revocable(s)} \in SUBSET (Sessions \cup Tokens)
  BY <1>0 DEF Call
<1>4. CASE ScanFamily(c)
  <2>1. call[c].flips = {}
    BY <1>0, <1>4 DEF CallOK, ScanFamily
  <2> QED
    BY <1>1, <1>2, <1>4, <2>1 DEF ScanFamily
<1>5. CASE ScanSessions(c)
  <2>1. call[c].flips = {}
    BY <1>0, <1>5 DEF CallOK, ScanSessions
  <2> QED
    BY <1>1, <1>3, <1>5, <2>1 DEF ScanSessions
<1>6. CASE ScanTokens(c)
  BY <1>1, <1>2, <1>6 DEF ScanTokens
<1> QED
  BY <1>4, <1>5, <1>6

\* A row of such an UPDATE is locked and written.
LEMMA RowKeepsInv ==
  ASSUME AuthInv, NEW c \in Calls,
         (\E t \in Tokens : RevokeToken(c, t)) \/ (\E s \in Sessions : RevokeSession(c, s))
  PROVE  AuthInv'
<1>0. call[c] \in Call /\ CallOK(c)
  BY DEF AuthInv, TypeOK
<1>1. CASE \E t \in Tokens : RevokeToken(c, t)
  <2> PICK t \in Tokens : RevokeToken(c, t)
    BY <1>1
  <2> DEFINE next == PlaceAfter(c, t)
             r == [call[c] EXCEPT !.at = next, !.todo = @ \ {t}, !.dead = @ \cup {t}]
  <2>1. /\ next \in {"family_rows", "revoke", "token_rows", "commit"}
        /\ call[c].at = "family_rows" => next \in {"family_rows", "revoke"}
        /\ call[c].at = "token_rows" => \/ next = "token_rows"
                                        \/ next = "commit" /\ call[c].todo = {t}
        /\ call[c].at \in {"family_rows", "token_rows"}
    BY DEF RevokeToken, PlaceAfter, AfterRows
  <2> HIDE DEF next
  <2>2. r \in Call /\ call' = [call EXCEPT ![c] = r]
    BY <1>0, <2>1 DEF Call, Places, AuthInv, TypeOK, RevokeToken, next
  <2>3. r.new = call[c].new /\ r.flips = call[c].flips /\ r.dead = call[c].dead \cup {t}
        /\ r.t = call[c].t /\ r.scope = call[c].scope /\ r.bumped = call[c].bumped
        /\ r.claimed = call[c].claimed /\ r.at = next /\ r.todo = call[c].todo \ {t}
    BY <1>0 DEF Call
  <2> HIDE DEF r
  <2>4. Grows(c, r)
    <3>1. /\ tlock' = [tlock EXCEPT ![t] = c] /\ tlock[t] \in {NoCall, c}
          /\ UNCHANGED <<session, token, slock, events>>
      BY DEF RevokeToken
    <3>2. /\ slock' \in [Sessions -> Calls \cup {NoCall}]
          /\ tlock' \in [Tokens -> Calls \cup {NoCall}]
          /\ tlock'[t] = c
          /\ \A k \in Tokens : k # t => tlock'[k] = tlock[k]
      BY <3>1 DEF AuthInv, TypeOK
    <3> QED
      BY <2>2, <2>3, <3>1, <3>2 DEF Grows
  <2>5. InPlace(r)
    <3>1. call[c].at = "family_rows" => call[c].flips = {}
      BY <1>0 DEF CallOK
    <3> QED
      BY <1>0, <2>1, <2>3, <3>1 DEF InPlace, CallOK
  <2> QED
    BY <2>2, <2>4, <2>5, GrowingStep
<1>2. CASE \E s \in Sessions : RevokeSession(c, s)
  <2> PICK s \in Sessions : RevokeSession(c, s)
    BY <1>2
  <2> DEFINE next == PlaceAfter(c, s)
             flips == IF Revocable(s) THEN call[c].flips \cup {s} ELSE call[c].flips
             r == [call[c] EXCEPT !.at = next, !.todo = @ \ {s}, !.flips = flips]
  <2>1. call[c].at = "session_rows" /\ next \in {"session_rows", "tokens"}
    BY DEF RevokeSession, PlaceAfter, AfterRows
  <2> HIDE DEF next
  <2>2. r \in Call
    BY <1>0, <2>1 DEF Call, Places
  <2>3. call' = [call EXCEPT ![c] = r]
    <3>1. CASE Revocable(s)
      BY <1>0, <3>1 DEF AuthInv, TypeOK, RevokeSession, next
    <3>2. CASE ~Revocable(s)
      <4>1. r = [call[c] EXCEPT !.at = next, !.todo = @ \ {s}]
        BY <1>0, <3>2 DEF Call
      <4> QED
        BY <3>2, <4>1 DEF AuthInv, TypeOK, RevokeSession, next
    <3> QED
      BY <3>1, <3>2
  <2>4. r.new = call[c].new /\ r.flips = flips /\ r.dead = call[c].dead
        /\ r.t = call[c].t /\ r.scope = call[c].scope /\ r.bumped = call[c].bumped
        /\ r.claimed = call[c].claimed /\ r.at = next /\ r.todo = call[c].todo \ {s}
    BY <1>0 DEF Call
  <2>5. s \in call[c].scope
    BY <1>0, <2>1 DEF CallOK, RevokeSession
  <2> HIDE DEF r
  <2>6. Grows(c, r)
    <3>1. /\ slock[s] \in {NoCall, c}
          /\ slock' = IF Revocable(s) THEN [slock EXCEPT ![s] = c] ELSE slock
          /\ UNCHANGED <<session, token, tlock, events>>
      BY DEF RevokeSession
    <3>2. /\ slock' \in [Sessions -> Calls \cup {NoCall}]
          /\ tlock' \in [Tokens -> Calls \cup {NoCall}]
          /\ Revocable(s) => slock'[s] = c
          /\ \A x \in Sessions : slock'[x] = slock[x] \/ (x = s /\ slock'[x] = c)
      BY <3>1 DEF AuthInv, TypeOK
    <3>3. \A x \in r.flips : \/ x \in call[c].flips
                             \/ x = s /\ Revocable(s)
      BY <2>4
    <3> QED
      BY <2>3, <2>4, <2>5, <3>1, <3>2, <3>3 DEF Grows
  <2>7. InPlace(r)
    BY <1>0, <2>1, <2>4 DEF InPlace, CallOK
  <2> QED
    BY <2>2, <2>6, <2>7, GrowingStep
<1> QED
  BY <1>1, <1>2

\* A new session, and time passing.
LEMMA SessionsKeepInv ==
  ASSUME AuthInv, NEW s \in Sessions, Expire(s) \/ \E n \in Tokens : Login(s, n)
  PROVE  AuthInv'
<1>1. CASE Expire(s)
  <2>1. TypeOK'
    BY <1>1 DEF AuthInv, TypeOK, Expire, SessionRow
  <2>2. /\ session' \in [Sessions -> SessionRow]
        /\ \A x \in Sessions : /\ session'[x].here = session[x].here
                               /\ session'[x].revoked = session[x].revoked
                               /\ session'[x].csrf = session[x].csrf
    BY <1>1 DEF AuthInv, TypeOK, Expire, SessionRow
  <2>3. ASSUME NEW d \in Calls PROVE CallOK(d)'
    <3>1. Frame(d)
      BY <1>1, <2>2 DEF Frame, Expire, AuthInv, CallOK
    <3> QED
      BY <3>1, FrameOK DEF AuthInv
  <2>4. NewsDistinct'
    BY <1>1 DEF AuthInv, NewsDistinct, Expire
  <2>5. token' = token /\ events' = events
    BY <1>1 DEF Expire
  <2>6. RowsConsistent' /\ RevokedIsDead' /\ OneLine' /\ AnnouncedOnce'
    BY <2>2, <2>5 DEF AuthInv, TypeOK, TokenRow, RowsConsistent, RevokedIsDead, OneLine,
                      AnnouncedOnce, Live
  <2> QED
    BY <2>1, <2>3, <2>4, <2>6 DEF AuthInv
<1>2. CASE \E n \in Tokens : Login(s, n)
  <2> PICK n \in Tokens : Login(s, n)
    BY <1>2
  <2> DEFINE new == [NoRow EXCEPT !.here = TRUE, !.csrf = 1]
             row == [NoTokenRow EXCEPT !.session = s]
  <2>1. /\ new \in SessionRow /\ new.here /\ ~new.revoked
        /\ row \in TokenRow /\ row.session = s /\ row.prev = NoToken /\ ~row.revoked
    <3>1. 1 \in 0..MaxCsrf
      BY LimitsAssumption
    <3>2. new \in SessionRow /\ row \in TokenRow
      BY <3>1, Blanks DEF SessionRow, TokenRow
    <3>3. new.here /\ ~new.revoked
      BY DEF NoRow
    <3>4. row.session = s /\ row.prev = NoToken /\ ~row.revoked
      BY DEF NoTokenRow
    <3> QED
      BY <3>2, <3>3, <3>4
  <2> HIDE DEF new, row
  <2>2. /\ session' = [session EXCEPT ![s] = new] /\ token' = [token EXCEPT ![n] = row]
        /\ ~session[s].here /\ Fresh(n) /\ UNCHANGED <<slock, tlock, call, events>>
    BY DEF Login, new, row
  <2>3. TypeOK'
    BY <2>1, <2>2 DEF AuthInv, TypeOK
  <2>4. /\ \A x \in Sessions : session'[x] = IF x = s THEN new ELSE session[x]
        /\ \A k \in Tokens : token'[k] = IF k = n THEN row ELSE token[k]
        /\ token[n].session = NoSession
    BY <2>2 DEF AuthInv, TypeOK, Fresh, Unused
  <2>5. \A k \in Tokens : token[k].session # s
    BY <2>2, SessionsAssumption DEF AuthInv, RowsConsistent
  <2>6. ASSUME NEW d \in Calls PROVE CallOK(d)'
    <3>1. CallOK(d) /\ call[d] \in Call
      BY DEF AuthInv, TypeOK
    <3>2. call[d].new # n
      BY <2>2 DEF Fresh, Unused
    <3>3. call[d].new # NoToken => token'[call[d].new].session = NoSession
      BY <2>4, <3>1, <3>2 DEF CallOK, Call
    <3>4. Frame(d)
      BY <2>1, <2>2, <2>4, <3>3 DEF Frame
    <3> QED
      BY <3>1, <3>4, FrameOK DEF AuthInv
  <2>7. NewsDistinct'
    BY <2>2 DEF AuthInv, NewsDistinct
  <2>8. RowsConsistent'
    <3>1. \A k \in Tokens : token[k].prev \in Tokens \cup {NoToken}
      BY DEF AuthInv, TypeOK, TokenRow
    <3>2. \A k \in Tokens : token'[k].session # NoSession => session'[token'[k].session].here
      BY <2>1, <2>4, <2>5 DEF AuthInv, TypeOK, TokenRow, RowsConsistent
    <3>3. \A k \in Tokens : token'[k].session = NoSession => token'[k].prev = NoToken /\ ~token'[k].used
      BY <2>1, <2>4, SessionsAssumption DEF AuthInv, RowsConsistent
    <3>4. \A k \in Tokens : token'[k].prev # NoToken => token'[token'[k].prev].used
      <4> SUFFICES ASSUME NEW k \in Tokens, token'[k].prev # NoToken
                   PROVE  token'[token'[k].prev].used
        OBVIOUS
      <4>1. k # n /\ token'[k].prev = token[k].prev /\ token[token[k].prev].used
        BY <2>1, <2>4 DEF AuthInv, RowsConsistent
      <4>2. token[k].prev # n
        BY <2>4, <4>1 DEF AuthInv, RowsConsistent
      <4> QED
        BY <2>4, <3>1, <4>1, <4>2
    <3>5. \A x \in Sessions : ~session'[x].here => ~session'[x].revoked
      BY <2>1, <2>4 DEF AuthInv, RowsConsistent
    <3> QED
      BY <3>2, <3>3, <3>4, <3>5 DEF RowsConsistent
  <2>9. RevokedIsDead' /\ AnnouncedOnce'
    BY <2>1, <2>2, <2>4, <2>5, SessionsAssumption
    DEF AuthInv, TypeOK, TokenRow, RowsConsistent, RevokedIsDead, AnnouncedOnce
  <2>10. OneLine'
    BY <2>1, <2>4, <2>5, SessionsAssumption DEF AuthInv, OneLine, Live, RowsConsistent
  <2> QED
    BY <2>3, <2>6, <2>7, <2>8, <2>9, <2>10 DEF AuthInv
<1> QED
  BY <1>1, <1>2

\* What a commit makes of the rows: the sessions it revoked, the one it extended, the
\* token it claimed, those it revoked and the one it inserted; the others stay.
LEMMA CommitRows ==
  ASSUME AuthInv, NEW c \in Calls, Commit(c)
  PROVE  /\ session' \in [Sessions -> SessionRow]
         /\ token' \in [Tokens -> TokenRow]
         /\ \A s \in Sessions :
              /\ session'[s].here = session[s].here
              /\ session'[s].revoked = (session[s].revoked \/ s \in call[c].flips)
              /\ IF call[c].bumped /\ s \in call[c].scope
                 THEN session'[s].csrf = session[s].csrf + 1
                 ELSE session'[s].csrf = session[s].csrf
                      /\ session'[s].profile = session[s].profile
         /\ \A k \in Tokens : k # call[c].new =>
              /\ token'[k].session = token[k].session
              /\ token'[k].prev = token[k].prev
              /\ token'[k].used = (token[k].used \/ (call[c].claimed /\ k = call[c].t))
              /\ token'[k].revoked = (token[k].revoked \/ k \in call[c].dead)
         /\ \A k \in Tokens : k = call[c].new =>
              /\ call[c].scope = {token'[k].session}
              /\ token'[k].session \in Sessions
              /\ token'[k].prev = call[c].t
              /\ token'[k].revoked = (k \in call[c].dead)
<1>0. call[c] \in Call /\ CallOK(c) /\ session \in [Sessions -> SessionRow]
      /\ token \in [Tokens -> TokenRow]
  BY DEF AuthInv, TypeOK
<1>1. /\ session' = [s \in Sessions |-> SessionAfter(c, s)]
      /\ token' = [k \in Tokens |-> TokenAfter(c, k)]
  BY DEF Commit
<1>2. ASSUME NEW s \in Sessions
      PROVE  /\ SessionAfter(c, s) \in SessionRow
             /\ SessionAfter(c, s).here = session[s].here
             /\ SessionAfter(c, s).revoked = (session[s].revoked \/ s \in call[c].flips)
             /\ IF call[c].bumped /\ s \in call[c].scope
                THEN SessionAfter(c, s).csrf = session[s].csrf + 1
                ELSE SessionAfter(c, s).csrf = session[s].csrf
                     /\ SessionAfter(c, s).profile = session[s].profile
  <2>1. session[s] \in SessionRow
    BY <1>0
  <2>2. session[s].csrf \in Nat /\ session[s].csrf <= MaxCsrf
    BY <2>1, LimitsAssumption DEF SessionRow
  <2>3. call[c].bumped /\ s \in call[c].scope => session[s].csrf + 1 \in 0..MaxCsrf
    BY <1>0, <2>2, LimitsAssumption DEF CallOK, Bumpable
  <2>4. call[c].to \in Profiles /\ session[s].profile \in Profiles
        /\ session[s].csrf \in 0..MaxCsrf
    BY <1>0, <2>1 DEF Call, SessionRow
  <2> QED
    BY <2>1, <2>3, <2>4 DEF SessionAfter, SessionRow
<1>3. ASSUME NEW k \in Tokens, k # call[c].new
      PROVE  /\ TokenAfter(c, k) \in TokenRow
             /\ TokenAfter(c, k).session = token[k].session
             /\ TokenAfter(c, k).prev = token[k].prev
             /\ TokenAfter(c, k).used = (token[k].used \/ (call[c].claimed /\ k = call[c].t))
             /\ TokenAfter(c, k).revoked = (token[k].revoked \/ k \in call[c].dead)
  <2>1. token[k] \in TokenRow
    BY <1>0
  <2> QED
    BY <1>3, <2>1 DEF TokenAfter, TokenRow
<1>4. ASSUME NEW k \in Tokens, k = call[c].new
      PROVE  /\ TokenAfter(c, k) \in TokenRow
             /\ call[c].scope = {TokenAfter(c, k).session}
             /\ TokenAfter(c, k).session \in Sessions
             /\ TokenAfter(c, k).prev = call[c].t
             /\ TokenAfter(c, k).revoked = (k \in call[c].dead)
  <2> PICK s \in Sessions : call[c].scope = {s}
    BY <1>0, <1>4, Blanks DEF CallOK
  <2>1. TheSession(c) = s
    BY OneSession
  <2> DEFINE row == [NoTokenRow EXCEPT !.session = s, !.prev = call[c].t]
  <2>2. row \in TokenRow
    BY <1>0, Blanks DEF TokenRow, Call
  <2>3. row.session = s /\ row.prev = call[c].t /\ ~row.revoked
    BY DEF NoTokenRow
  <2>4. TokenAfter(c, k) = [row EXCEPT !.used = @ \/ (call[c].claimed /\ k = call[c].t),
                                      !.revoked = @ \/ k \in call[c].dead]
    BY <1>4, <2>1 DEF TokenAfter
  <2> HIDE DEF row
  <2>5. /\ row.session \in Sessions \cup {NoSession} /\ row.used \in BOOLEAN
        /\ row.revoked \in BOOLEAN
    BY <2>2 DEF TokenRow
  <2>6. TokenAfter(c, k) \in TokenRow
    BY <2>2, <2>4, <2>5 DEF TokenRow
  <2>7. TokenAfter(c, k).session = row.session /\ TokenAfter(c, k).prev = row.prev
    BY <2>2, <2>4 DEF TokenRow
  <2>8. TokenAfter(c, k).revoked = (row.revoked \/ k \in call[c].dead)
    BY <2>2, <2>4 DEF TokenRow
  <2> QED
    BY <2>3, <2>6, <2>7, <2>8
<1>5. token' \in [Tokens -> TokenRow]
  BY <1>1, <1>3, <1>4
<1> QED
  BY <1>1, <1>2, <1>3, <1>4, <1>5

\* A commit publishes what its transaction wrote.
LEMMA CommitKeepsInv ==
  ASSUME AuthInv, NEW c \in Calls, Commit(c)
  PROVE  AuthInv'
<1> DEFINE n == call[c].new
           t == call[c].t
<1>0. call[c] \in Call /\ CallOK(c) /\ token \in [Tokens -> TokenRow] /\ RowsConsistent
  BY DEF AuthInv, TypeOK
<1>1. /\ slock' \in [Sessions -> Calls \cup {NoCall}]
      /\ tlock' \in [Tokens -> Calls \cup {NoCall}]
      /\ \A x \in Sessions : slock[x] # c => slock'[x] = slock[x]
      /\ \A k \in Tokens : tlock[k] # c => tlock'[k] = tlock[k]
  BY DEF Commit, Released, AuthInv, TypeOK
<1>2. call' = [call EXCEPT ![c] = Idle] /\ call'[c] = Idle
  BY DEF Commit, AuthInv, TypeOK
<1>3. events' \in [Sessions -> [revoked : Nat, left : [Profiles -> Nat]]]
  BY DEF Commit, EventsAfter, AuthInv, TypeOK
<1>4. \A x \in Sessions : events'[x].revoked =
        IF x \in call[c].flips THEN events[x].revoked + 1 ELSE events[x].revoked
  BY DEF Commit, EventsAfter, AuthInv, TypeOK
<1>5. TypeOK'
  BY <1>1, <1>2, <1>3, CommitRows, Blanks DEF AuthInv, TypeOK
<1>6. \A x \in call[c].flips : x \in Sessions /\ slock[x] = c /\ Revocable(x)
  BY <1>0 DEF CallOK, Call
<1>7. call[c].claimed => /\ t \in Tokens /\ tlock[t] = c /\ Claimable(t)
                         /\ token[t].session # NoSession
                         /\ call[c].scope = {token[t].session}
  BY <1>0 DEF CallOK, Call
<1>8. n # NoToken => /\ n \in Tokens /\ call[c].claimed /\ call[c].bumped
                     /\ token[n].session = NoSession /\ t # n
                     /\ t \in Tokens /\ token[t].session = token'[n].session
  BY <1>0, <1>7, CommitRows DEF CallOK, Call
<1>9. call[c].bumped => \A x \in call[c].scope :
        x \in Sessions /\ slock[x] = c /\ session[x].here /\ ~session[x].revoked
  BY <1>0 DEF CallOK, Bumpable
<1>10. ASSUME NEW d \in Calls PROVE CallOK(d)'
  <2>1. CASE d = c
    BY <1>2, <2>1 DEF CallOK, Idle
  <2>2. CASE d # c
    <3>1. call'[d] = call[d] /\ call[d] \in Call /\ CallOK(d)
      BY <1>2, <2>2 DEF AuthInv, TypeOK
    <3>2. \A k \in Tokens : tlock[k] = d /\ token[k].session # NoSession =>
            token'[k].used = token[k].used /\ token'[k].revoked = token[k].revoked
      <4> SUFFICES ASSUME NEW k \in Tokens, tlock[k] = d, token[k].session # NoSession
                   PROVE  token'[k].used = token[k].used /\ token'[k].revoked = token[k].revoked
        OBVIOUS
      <4>1. k # n /\ ~(call[c].claimed /\ k = t) /\ k \notin call[c].dead
        BY <1>0, <1>7, <1>8, <2>2, Blanks DEF CallOK
      <4>2. token[k].used \in BOOLEAN /\ token[k].revoked \in BOOLEAN
        BY <1>0 DEF TokenRow
      <4> QED
        BY <4>1, <4>2, CommitRows
    <3>3. \A x \in Sessions : slock[x] = d /\ session[x].here =>
            session'[x].revoked = session[x].revoked /\ session'[x].csrf = session[x].csrf
      <4> SUFFICES ASSUME NEW x \in Sessions, slock[x] = d
                   PROVE  session'[x].revoked = session[x].revoked
                          /\ session'[x].csrf = session[x].csrf
        OBVIOUS
      <4>1. x \notin call[c].flips /\ ~(call[c].bumped /\ x \in call[c].scope)
        BY <1>6, <1>9, <2>2
      <4>2. session[x].revoked \in BOOLEAN
        BY DEF AuthInv, TypeOK, SessionRow
      <4> QED
        BY <4>1, <4>2, CommitRows
    <3>4. \A k \in Tokens : token'[k].session # token[k].session =>
            \A x \in Sessions : slock[x] = d => token'[k].session # x
      BY <1>8, <1>9, <2>2, CommitRows, Blanks
    <3>5. \A k \in Tokens : token[k].session # NoSession =>
            token'[k].session = token[k].session
      BY <1>8, CommitRows, Blanks
    <3>6. call[d].new # NoToken => token'[call[d].new].session = NoSession
      <4> SUFFICES ASSUME call[d].new # NoToken
                   PROVE  token'[call[d].new].session = NoSession
        OBVIOUS
      <4>1. call[d].new \in Tokens /\ token[call[d].new].session = NoSession
        BY <3>1 DEF Call, CallOK
      <4>2. call[d].new # n
        BY <2>2 DEF AuthInv, NewsDistinct
      <4> QED
        BY <4>1, <4>2, CommitRows
    <3>7. Frame(d)
      BY <1>1, <2>2, <3>1, <3>2, <3>3, <3>4, <3>5, <3>6, CommitRows DEF Frame
    <3> QED
      BY <3>1, <3>7, FrameOK DEF AuthInv
  <2> QED
    BY <2>1, <2>2
<1>11. NewsDistinct'
  BY <1>2 DEF AuthInv, TypeOK, NewsDistinct, Idle
<1>12. RowsConsistent'
  <2>1. \A k \in Tokens : token'[k].session # NoSession => session'[token'[k].session].here
    <3> SUFFICES ASSUME NEW k \in Tokens, token'[k].session # NoSession
                 PROVE  session'[token'[k].session].here
      OBVIOUS
    <3>1. CASE k = n
      BY <1>8, <1>9, <3>1, CommitRows, Blanks
    <3>2. CASE k # n
      BY <1>0, <3>2, CommitRows DEF RowsConsistent, TokenRow
    <3> QED
      BY <3>1, <3>2
  <2>2. \A k \in Tokens : token'[k].session = NoSession => token'[k].prev = NoToken /\ ~token'[k].used
    <3> SUFFICES ASSUME NEW k \in Tokens, token'[k].session = NoSession
                 PROVE  token'[k].prev = NoToken /\ ~token'[k].used
      OBVIOUS
    <3>1. k # n
      BY CommitRows, SessionsAssumption
    <3>2. token[k].session = NoSession /\ token'[k].prev = token[k].prev
          /\ token'[k].used = (token[k].used \/ (call[c].claimed /\ k = t))
      BY <3>1, CommitRows
    <3> QED
      BY <1>0, <1>7, <3>2 DEF RowsConsistent
  <2>3. \A k \in Tokens : token'[k].prev # NoToken => token'[token'[k].prev].used
    <3> SUFFICES ASSUME NEW k \in Tokens, token'[k].prev # NoToken
                 PROVE  token'[token'[k].prev].used
      OBVIOUS
    <3>1. CASE k = n
      BY <1>8, <3>1, CommitRows, Blanks
    <3>2. CASE k # n
      <4>1. /\ token'[k].prev = token[k].prev /\ token[token[k].prev].used
            /\ token[k].prev \in Tokens
        BY <1>0, <3>2, CommitRows DEF RowsConsistent, TokenRow
      <4>2. token[k].prev # n
        BY <1>0, <1>8, <4>1, Blanks DEF RowsConsistent
      <4> QED
        BY <4>1, <4>2, CommitRows
    <3> QED
      BY <3>1, <3>2
  <2>4. \A x \in Sessions : ~session'[x].here => ~session'[x].revoked
    BY <1>0, <1>6, CommitRows DEF RowsConsistent, Revocable
  <2> QED
    BY <2>1, <2>2, <2>3, <2>4 DEF RowsConsistent
<1>13. RevokedIsDead'
  <2> SUFFICES ASSUME NEW k \in Tokens, token'[k].session # NoSession,
                      session'[token'[k].session].revoked
               PROVE  token'[k].revoked
    BY DEF RevokedIsDead
  <2>1. ASSUME NEW x \in call[c].flips, token[k].session = x \/ k = n PROVE k \in call[c].dead
    BY <1>0, <2>1 DEF CallOK, Commit
  <2>2. CASE k = n
    <3> DEFINE x == token'[k].session
    <3>1. x \in Sessions /\ call[c].scope = {x}
      BY <2>2, CommitRows
    <3>2. ~session[x].revoked
      BY <1>8, <1>9, <2>2, <3>1, Blanks
    <3>3. session'[x].revoked = (session[x].revoked \/ x \in call[c].flips)
      BY <3>1, CommitRows
    <3>4. x \in call[c].flips
      BY <3>2, <3>3
    <3> QED
      BY <2>1, <2>2, <3>4, CommitRows
  <2>3. CASE k # n
    <3>1. token'[k].session = token[k].session /\ token[k].session \in Sessions
      BY <1>0, <2>3, CommitRows DEF TokenRow
    <3>2. CASE session[token[k].session].revoked
      BY <2>3, <3>1, <3>2, CommitRows DEF AuthInv, RevokedIsDead
    <3>3. CASE token[k].session \in call[c].flips
      BY <2>1, <2>3, <3>3, CommitRows
    <3> QED
      BY <3>1, <3>2, <3>3, CommitRows
  <2> QED
    BY <2>2, <2>3
<1>14. OneLine'
  <2>1. ASSUME NEW k \in Tokens, NEW u \in Tokens,
               token'[k].prev = token'[u].prev, token'[k].prev # NoToken
        PROVE  k = u
    <3>1. ASSUME NEW x \in Tokens, x # n, n # NoToken PROVE token'[x].prev # t
      BY <1>0, <1>7, <1>8, <3>1, CommitRows, Blanks DEF RowsConsistent, Claimable
    <3>2. CASE k # n /\ u # n
      BY <2>1, <3>2, CommitRows DEF AuthInv, OneLine
    <3> QED
      BY <2>1, <3>1, <3>2, CommitRows, Blanks
  <2>2. ASSUME NEW x \in Tokens, x # n, Live(x)' PROVE Live(x) /\ (n # NoToken => x # t)
    BY <1>8, <2>2, CommitRows DEF Live
  <2>3. ASSUME NEW x \in Tokens, x # n, Live(x)', n # NoToken
        PROVE  token'[x].session # token'[n].session
    <3>1. Live(x) /\ x # t /\ token'[x].session = token[x].session
      BY <2>2, <2>3, CommitRows
    <3>2. Live(t) /\ t \in Tokens
      BY <1>7, <1>8, <2>3 DEF Live, Claimable
    <3> QED
      BY <1>8, <2>3, <3>1, <3>2 DEF AuthInv, OneLine
  <2>4. ASSUME NEW k \in Tokens, NEW u \in Tokens, Live(k)', Live(u)',
               token'[k].session = token'[u].session
        PROVE  k = u
    <3>1. CASE k # n /\ u # n
      <4>1. Live(k) /\ Live(u) /\ token[k].session = token[u].session
        BY <2>2, <2>4, <3>1, CommitRows
      <4> QED
        BY <4>1 DEF AuthInv, OneLine
    <3> QED
      BY <2>3, <2>4, <3>1, Blanks
  <2> QED
    BY <2>1, <2>4 DEF OneLine
<1>15. AnnouncedOnce'
  <2> SUFFICES ASSUME NEW x \in Sessions
               PROVE  events'[x].revoked = IF session'[x].revoked THEN 1 ELSE 0
    BY DEF AnnouncedOnce
  <2>1. events[x].revoked = IF session[x].revoked THEN 1 ELSE 0
    BY DEF AuthInv, AnnouncedOnce
  <2>2. session'[x].revoked = (session[x].revoked \/ x \in call[c].flips)
    BY CommitRows
  <2>3. x \in call[c].flips => ~session[x].revoked
    BY <1>6 DEF Revocable
  <2>4. session[x].revoked \in BOOLEAN
    BY DEF AuthInv, TypeOK, SessionRow
  <2>5. CASE x \in call[c].flips
    <3>1. events'[x].revoked = events[x].revoked + 1
      BY <1>4, <2>5
    <3>2. events[x].revoked = 0
      BY <2>1, <2>3, <2>5
    <3>3. session'[x].revoked
      BY <2>2, <2>5
    <3> QED
      BY <3>1, <3>2, <3>3
  <2>6. CASE x \notin call[c].flips
    BY <1>4, <2>1, <2>2, <2>4, <2>6
  <2> QED
    BY <2>5, <2>6
<1> QED
  BY <1>5, <1>10, <1>11, <1>12, <1>13, <1>14, <1>15 DEF AuthInv

\* The inductive step.
LEMMA NextKeepsInv == AuthInv /\ [Next]_vars => AuthInv'
<1> SUFFICES ASSUME AuthInv, [Next]_vars PROVE AuthInv'
  OBVIOUS
<1>1. CASE UNCHANGED vars
  BY <1>1 DEF vars, AuthInv, TypeOK, CallOK, NewsDistinct, RowsConsistent, RevokedIsDead,
              OneLine, AnnouncedOnce, Live, Claimable, Bumpable, Revocable
<1>2. CASE \E s \in Sessions : Expire(s) \/ \E n \in Tokens : Login(s, n)
  BY <1>2, SessionsKeepInv
<1>3. ASSUME NEW c \in Calls, Begin(c) \/ Step(c) \/ Abort(c) \/ Victim(c)
      PROVE  AuthInv'
  <2>1. CASE Begin(c)
    BY <2>1, BeginKeepsInv
  <2>2. CASE Abort(c) \/ Victim(c)
    BY <2>2, RollbackKeepsInv DEF Abort, Victim
  <2>3. CASE Claim(c) \/ Load(c) \/ Bump(c) \/ \E n \in Tokens : Rotate(c, n)
    BY <2>3, RefreshKeepsInv
  <2>4. CASE Switch(c) \/ Diagnose(c)
    BY <2>4, SwitchKeepsInv
  <2>5. CASE ScanFamily(c) \/ ScanSessions(c) \/ ScanTokens(c)
    BY <2>5, ScanKeepsInv
  <2>6. CASE \/ \E t \in Tokens : RevokeToken(c, t)
             \/ \E s \in Sessions : RevokeSession(c, s)
    BY <2>6, RowKeepsInv
  <2>7. CASE Commit(c)
    BY <2>7, CommitKeepsInv
  <2> QED
    BY <1>3, <2>1, <2>2, <2>3, <2>4, <2>5, <2>6, <2>7 DEF Step
<1> QED
  BY <1>1, <1>2, <1>3 DEF Next

(***************************************************************************)
(* Theorems                                                                *)
(***************************************************************************)

\* In every behaviour of the session calls the invariant holds.
THEOREM AuthInvariant == Spec => []AuthInv
BY InitAuthInv, NextKeepsInv, PTL DEF Spec

\* The tables and the calls keep their types: in particular the CSRF revision, which
\* refresh_session and select_active_profile increment, never passes MAX_CSRF_REVISION.
THEOREM AuthTypes == Spec => []TypeOK
<1>1. AuthInv => TypeOK
  BY DEF AuthInv
<1> QED
  BY <1>1, AuthInvariant, PTL

\* However the statements of refreshes, logouts and revoke-alls interleave, a revoked
\* session is left without a token that refresh_session would accept.
THEOREM RevokedSessionsAreDead == Spec => []RevokedIsDead
<1>1. AuthInv => RevokedIsDead
  BY DEF AuthInv
<1> QED
  BY <1>1, AuthInvariant, PTL

\* Rotation never forks: refresh_session replaces a token once, and at most one token of
\* a session is live.
THEOREM RotationIsALine == Spec => []OneLine
<1>1. AuthInv => OneLine
  BY DEF AuthInv
<1> QED
  BY <1>1, AuthInvariant, PTL

\* Every revocation has one event in the outbox, and every event of the outbox a
\* revocation that was committed with it.
THEOREM RevocationsAnnouncedOnce == Spec => []AnnouncedOnce
<1>1. AuthInv => AnnouncedOnce
  BY DEF AuthInv
<1> QED
  BY <1>1, AuthInvariant, PTL

\* Only a login, an expiry and a commit change committed rows.
LEMMA WhoWrites ==
  ASSUME Next
  PROVE  \/ UNCHANGED <<session, token>>
         \/ \E s \in Sessions : Expire(s) \/ \E n \in Tokens : Login(s, n)
         \/ \E c \in Calls : Commit(c)
<1> SUFFICES ASSUME NEW c \in Calls, Begin(c) \/ Step(c) \/ Abort(c) \/ Victim(c), ~Commit(c)
             PROVE  UNCHANGED <<session, token>>
  BY DEF Next
<1>1. CASE Begin(c)
  BY <1>1 DEF Begin, Refresh, Logout, RevokeAll, SelectProfile
<1>2. CASE Abort(c) \/ Victim(c)
  BY <1>2 DEF Abort, Victim, Rollback
<1>3. CASE Claim(c) \/ Bump(c) \/ Switch(c) \/ Load(c) \/ Diagnose(c)
  BY <1>3 DEF Claim, Bump, Switch, Load, Diagnose, Rollback
<1>4. CASE ScanFamily(c) \/ ScanSessions(c) \/ ScanTokens(c)
  BY <1>4 DEF ScanFamily, ScanSessions, ScanTokens, Scan
<1>5. CASE \E n \in Tokens : Rotate(c, n) \/ RevokeToken(c, n)
  BY <1>5 DEF Rotate, RevokeToken
<1>6. CASE \E s \in Sessions : RevokeSession(c, s)
  BY <1>6 DEF RevokeSession
<1> QED
  BY <1>1, <1>2, <1>3, <1>4, <1>5, <1>6 DEF Step

\* A commit takes nothing back.
LEMMA CommitGrows ==
  ASSUME AuthInv, NEW c \in Calls, Commit(c)
  PROVE  RowsGrow
<1>0. call[c] \in Call /\ CallOK(c)
  BY DEF AuthInv, TypeOK
<1>1. \A s \in Sessions : session[s].csrf \in Nat /\ session[s].revoked \in BOOLEAN
  BY LimitsAssumption DEF AuthInv, TypeOK, SessionRow
<1>2. \A t \in Tokens : token[t].session # NoSession => t # call[c].new
  BY <1>0, Blanks DEF CallOK
<1>3. call[c].bumped => \A s \in call[c].scope : ~session[s].revoked
  BY <1>0 DEF CallOK, Bumpable
<1>4. \A t \in Tokens : t = call[c].new => call[c].bumped
  BY <1>0, Blanks DEF CallOK
<1>5. ASSUME NEW t \in Tokens, token[t].session # NoSession
      PROVE  /\ token'[t].session = token[t].session
             /\ token'[t].prev = token[t].prev
             /\ token[t].used => token'[t].used
             /\ token[t].revoked => token'[t].revoked
  <2>1. /\ token'[t].session = token[t].session
        /\ token'[t].prev = token[t].prev
        /\ token'[t].used = (token[t].used \/ (call[c].claimed /\ t = call[c].t))
        /\ token'[t].revoked = (token[t].revoked \/ t \in call[c].dead)
    BY <1>2, <1>5, CommitRows
  <2> QED
    BY <2>1
<1>6. ASSUME NEW s \in Sessions, session[s].here
      PROVE  /\ session'[s].here
             /\ session'[s].csrf >= session[s].csrf
             /\ session[s].revoked => /\ session'[s].revoked
                                      /\ session'[s].csrf = session[s].csrf
             /\ \/ session'[s].csrf > session[s].csrf
                \/ /\ session'[s].profile = session[s].profile
                   /\ \A t \in Tokens : token'[t].session = s => token[t].session = s
  <2>1. /\ session'[s].here = session[s].here
        /\ session'[s].revoked = (session[s].revoked \/ s \in call[c].flips)
    BY CommitRows
  <2>2. CASE call[c].bumped /\ s \in call[c].scope
    <3>1. session'[s].csrf = session[s].csrf + 1 /\ ~session[s].revoked
      BY <1>3, <2>2, CommitRows
    <3> QED
      BY <1>1, <1>6, <2>1, <3>1
  <2>3. CASE ~(call[c].bumped /\ s \in call[c].scope)
    <3>1. session'[s].csrf = session[s].csrf /\ session'[s].profile = session[s].profile
      BY <2>3, CommitRows
    <3>2. \A t \in Tokens : token'[t].session = s => token[t].session = s
      BY <1>4, <2>3, CommitRows
    <3> QED
      BY <1>1, <1>6, <2>1, <3>1, <3>2
  <2> QED
    BY <2>2, <2>3
<1> QED
  BY <1>5, <1>6 DEF RowsGrow

\* Committed rows are never taken back: no used or revoked token becomes usable, no
\* session is un-revoked, and every change of the profile and every new token comes with
\* a new CSRF revision.
THEOREM NothingIsUndone == Spec => NothingUndone
<1>1. AuthInv /\ [Next]_vars => [RowsGrow]_vars
  <2> SUFFICES ASSUME AuthInv, Next PROVE RowsGrow
    OBVIOUS
  <2>0. \A s \in Sessions : session[s].csrf \in Nat
    BY LimitsAssumption DEF AuthInv, TypeOK, SessionRow
  <2>1. CASE UNCHANGED <<session, token>>
    BY <2>0, <2>1 DEF RowsGrow
  <2>2. ASSUME NEW s \in Sessions, Expire(s) PROVE RowsGrow
    <3>1. token' = token
      BY <2>2 DEF Expire
    <3>2. \A x \in Sessions : /\ session'[x].here = session[x].here
                               /\ session'[x].revoked = session[x].revoked
                               /\ session'[x].csrf = session[x].csrf
                               /\ session'[x].profile = session[x].profile
      BY <2>2 DEF Expire, AuthInv, TypeOK, SessionRow
    <3> QED
      BY <2>0, <3>1, <3>2 DEF RowsGrow
  <2>3. ASSUME NEW s \in Sessions, NEW n \in Tokens, Login(s, n) PROVE RowsGrow
    <3>1. /\ \A x \in Sessions : session[x].here => session'[x] = session[x]
          /\ \A k \in Tokens : k # n => token'[k] = token[k]
          /\ token[n].session = NoSession
          /\ ~session[s].here
      BY <2>3 DEF Login, AuthInv, TypeOK, Fresh, Unused
    <3>2. token'[n].session = s
      BY <2>3 DEF Login, AuthInv, TypeOK, NoTokenRow
    <3> QED
      BY <2>0, <3>1, <3>2 DEF RowsGrow
  <2>4. ASSUME NEW c \in Calls, Commit(c) PROVE RowsGrow
    BY <2>4, CommitGrows
  <2> QED
    BY <2>1, <2>2, <2>3, <2>4, WhoWrites
<1> QED
  BY <1>1, AuthInvariant, PTL DEF Spec, NothingUndone

(***************************************************************************)
(* The profile a switch leaves                                             *)
(***************************************************************************)

\* A call that is to switch the profile has not done so; one that has written the switch
\* holds the session row, whose committed profile is still the one its request had.
SwitchOK(c) ==
  /\ call[c].at = "switch" => call[c].t = NoToken /\ call[c].from # call[c].to
  /\ call[c].bumped /\ call[c].t = NoToken =>
       /\ call[c].from # call[c].to
       /\ \A s \in call[c].scope : session[s].profile = call[c].from

SwitchInv == \A c \in Calls : SwitchOK(c)

\* A step inside a transaction keeps what the request is about.
LEMMA StepKeepsSwitch ==
  ASSUME AuthInv, NEW c \in Calls, SwitchOK(c), Step(c), ~Commit(c)
  PROVE  SwitchOK(c)' /\ session' = session /\ \A d \in Calls \ {c} : call'[d] = call[d]
<1> DEFINE Same(r) == /\ call' = [call EXCEPT ![c] = r] /\ session' = session
                      /\ r.t = call[c].t /\ r.scope = call[c].scope
                      /\ r.from = call[c].from /\ r.to = call[c].to /\ r.at # "switch"
<1>0. call[c] \in Call /\ CallOK(c) /\ call \in [Calls -> Call]
  BY DEF AuthInv, TypeOK
<1>1. ASSUME NEW r, Same(r), r.bumped = call[c].bumped \/ r.t # NoToken
      PROVE  SwitchOK(c)' /\ session' = session /\ \A d \in Calls \ {c} : call'[d] = call[d]
  BY <1>0, <1>1 DEF SwitchOK
<1>2. CASE Rollback(c)
  BY <1>0, <1>2 DEF Rollback, SwitchOK, Idle
<1>3. ASSUME NEW place \in Places \ {"switch"}, Goto(c, place), session' = session
      PROVE  SwitchOK(c)' /\ session' = session /\ \A d \in Calls \ {c} : call'[d] = call[d]
  BY <1>0, <1>3 DEF SwitchOK, Goto, Call
<1>4. CASE Claim(c) \/ Bump(c)
  BY <1>0, <1>4 DEF Claim, Bump, Goto, Call, CallOK, SwitchOK
<1>5. CASE Load(c) \/ Diagnose(c)
  BY <1>2, <1>3, <1>5 DEF Load, Diagnose, Places
<1>6. CASE Switch(c)
  <2> PICK s \in Sessions : call[c].scope = {s}
    BY <1>0, <1>6 DEF CallOK, Switch
  <2>1. TheSession(c) = s
    BY OneSession
  <2> QED
    BY <1>0, <1>6, <2>1 DEF Switch, Switchable, Goto, Call, SwitchOK
<1>7. CASE ScanFamily(c) \/ ScanSessions(c) \/ ScanTokens(c)
  BY <1>0, <1>7 DEF ScanFamily, ScanSessions, ScanTokens, Scan, AfterRows, Call, SwitchOK
<1>8. CASE \E n \in Tokens : Rotate(c, n)
  BY <1>0, <1>8 DEF Rotate, Call, SwitchOK
<1>9. ASSUME NEW n \in Tokens, RevokeToken(c, n)
      PROVE  SwitchOK(c)' /\ session' = session /\ \A d \in Calls \ {c} : call'[d] = call[d]
  BY <1>0, <1>9 DEF RevokeToken, PlaceAfter, AfterRows, Call, SwitchOK
<1>10. ASSUME NEW s \in Sessions, RevokeSession(c, s)
      PROVE  SwitchOK(c)' /\ session' = session /\ \A d \in Calls \ {c} : call'[d] = call[d]
  <2>1. /\ call[c].at = "session_rows" /\ PlaceAfter(c, s) # "switch"
        /\ PlaceAfter(c, s) \in Places
    BY <1>0, <1>10 DEF RevokeSession, PlaceAfter, AfterRows, Places
  <2>2. CASE call' = [call EXCEPT ![c].at = PlaceAfter(c, s), ![c].todo = @ \ {s},
                                  ![c].flips = @ \cup {s}]
    <3> DEFINE r == [call[c] EXCEPT !.at = PlaceAfter(c, s), !.todo = @ \ {s},
                                   !.flips = @ \cup {s}]
    <3>1. Same(r) /\ r.bumped = call[c].bumped
      BY <1>0, <1>10, <2>1, <2>2 DEF RevokeSession, Call
    <3> QED
      BY <1>1, <3>1
  <2>3. CASE call' = [call EXCEPT ![c].at = PlaceAfter(c, s), ![c].todo = @ \ {s}]
    <3> DEFINE r == [call[c] EXCEPT !.at = PlaceAfter(c, s), !.todo = @ \ {s}]
    <3>1. Same(r) /\ r.bumped = call[c].bumped
      BY <1>0, <1>10, <2>1, <2>3 DEF RevokeSession, Call
    <3> QED
      BY <1>1, <3>1
  <2> QED
    BY <1>10, <2>2, <2>3 DEF RevokeSession
<1> QED
  BY <1>4, <1>5, <1>6, <1>7, <1>8, <1>9, <1>10 DEF Step

\* The initial state has no call, and every step keeps SwitchInv.
LEMMA SwitchInvariant == Spec => []SwitchInv
<1>1. Init => SwitchInv
  BY DEF Init, SwitchInv, SwitchOK, Idle
<1>2. AuthInv /\ SwitchInv /\ [Next]_vars => SwitchInv'
  <2> SUFFICES ASSUME AuthInv, SwitchInv, [Next]_vars, NEW c \in Calls PROVE SwitchOK(c)'
    BY DEF SwitchInv
  <2>0. call[c] \in Call /\ CallOK(c) /\ call \in [Calls -> Call] /\ SwitchOK(c)
    BY DEF AuthInv, TypeOK, SwitchInv
  <2>1. CASE UNCHANGED vars
    BY <2>0, <2>1 DEF vars, SwitchOK
  <2>2. ASSUME call' = call, \A s \in Sessions : session[s].here => session'[s].profile = session[s].profile
        PROVE  SwitchOK(c)'
    BY <2>0, <2>2 DEF SwitchOK, CallOK
  <2>3. CASE \E s \in Sessions : Expire(s) \/ \E n \in Tokens : Login(s, n)
    <3>1. session \in [Sessions -> SessionRow]
      BY DEF AuthInv, TypeOK
    <3>2. ASSUME NEW s \in Sessions, Expire(s) PROVE SwitchOK(c)'
      BY <2>2, <3>1, <3>2 DEF Expire, SessionRow
    <3>3. ASSUME NEW s \in Sessions, NEW n \in Tokens, Login(s, n) PROVE SwitchOK(c)'
      BY <2>2, <3>1, <3>3 DEF Login
    <3> QED
      BY <2>3, <3>2, <3>3
  <2>4. ASSUME NEW d \in Calls, Begin(d) PROVE SwitchOK(c)'
    <3>1. session' = session /\ (c # d => call'[c] = call[c])
      BY <2>0, <2>4 DEF Begin, Refresh, Logout, RevokeAll, SelectProfile
    <3>2. c = d => ~call'[c].bumped /\ (call'[c].at = "switch" =>
                     call'[c].t = NoToken /\ call'[c].from # call'[c].to)
      <4>1. CASE \E t \in Tokens : Refresh(d, t)
        BY <2>0, <4>1 DEF Refresh, Idle
      <4>2. CASE (\E s \in Sessions : Logout(d, s)) \/ RevokeAll(d)
        BY <2>0, <4>2 DEF Logout, RevokeAll, Idle
      <4>3. CASE \E s \in Sessions, q \in Profiles : SelectProfile(d, s, q)
        BY <2>0, <4>3 DEF SelectProfile, Idle
      <4> QED
        BY <2>4, <4>1, <4>2, <4>3 DEF Begin
    <3> QED
      BY <2>0, <3>1, <3>2 DEF SwitchOK
  <2>5. ASSUME NEW d \in Calls, Abort(d) \/ Victim(d) PROVE SwitchOK(c)'
    BY <2>0, <2>5 DEF Abort, Victim, Rollback, SwitchOK, Idle
  <2>6. ASSUME NEW d \in Calls, Commit(d) PROVE SwitchOK(c)'
    <3>1. CASE c = d
      BY <2>0, <2>6, <3>1 DEF Commit, SwitchOK, Idle
    <3>2. CASE c # d
      <4>1. call'[c] = call[c] /\ CallOK(d)
        BY <2>0, <2>6, <3>2 DEF Commit, AuthInv
      <4>2. \A s \in Sessions : slock[s] = c => session'[s].profile = session[s].profile
        BY <2>6, <3>2, <4>1, CommitRows DEF CallOK
      <4> QED
        BY <2>0, <4>1, <4>2 DEF SwitchOK, CallOK
    <3> QED
      BY <3>1, <3>2
  <2>7. ASSUME NEW d \in Calls, Step(d), ~Commit(d) PROVE SwitchOK(c)'
    <3>1. SwitchOK(d)' /\ session' = session /\ (c # d => call'[c] = call[c])
      BY <2>7, StepKeepsSwitch DEF SwitchInv
    <3> QED
      BY <2>0, <3>1 DEF SwitchOK
  <2> QED
    BY <2>1, <2>3, <2>4, <2>5, <2>6, <2>7 DEF Next
<1> QED
  BY <1>1, <1>2, AuthInvariant, PTL DEF Spec

\* select_active_profile announces the profile that the session really left, also when
\* other switches and refreshes ran between the load of its principal and its UPDATE.
THEOREM LeftProfilesAreAnnounced == Spec => ProfileLeftIsAnnounced
<1> DEFINE Announced(s, p) ==
      events'[s].left[p] = events[s].left[p]
        + IF session[s].here /\ session[s].profile = p /\ session'[s].profile # p
          THEN 1 ELSE 0
<1>1. AuthInv /\ SwitchInv /\ [Next]_vars =>
        [\A s \in Sessions, p \in Profiles : Announced(s, p)]_vars
  <2> SUFFICES ASSUME AuthInv, SwitchInv, Next, NEW s \in Sessions, NEW p \in Profiles
               PROVE  Announced(s, p)
    OBVIOUS
  <2>0. /\ events[s].left[p] \in Nat /\ session[s] \in SessionRow
        /\ session \in [Sessions -> SessionRow]
    BY DEF AuthInv, TypeOK
  <2>1. ASSUME events' = events, session'[s].profile = session[s].profile PROVE Announced(s, p)
    BY <2>0, <2>1
  <2>2. CASE \E x \in Sessions : Expire(x)
    BY <2>0, <2>1, <2>2 DEF Expire, SessionRow
  <2>3. CASE \E x \in Sessions, n \in Tokens : Login(x, n)
    <3> PICK x \in Sessions, n \in Tokens : Login(x, n)
      BY <2>3
    <3>1. events' = events /\ (s # x => session'[s] = session[s]) /\ ~session[x].here
      BY <2>0 DEF Login
    <3> QED
      BY <2>0, <3>1
  <2>4. ASSUME NEW c \in Calls, Commit(c) PROVE Announced(s, p)
    <3>0. call[c] \in Call /\ CallOK(c) /\ SwitchOK(c)
      BY DEF AuthInv, TypeOK, SwitchInv
    <3>1. events'[s].left[p] = events[s].left[p]
            + IF (call[c].bumped /\ call[c].t = NoToken /\ s \in call[c].scope)
                 /\ p = call[c].from THEN 1 ELSE 0
      BY <2>4 DEF Commit, EventsAfter
    <3>2. session'[s].profile = IF call[c].bumped /\ call[c].t = NoToken /\ s \in call[c].scope
                                THEN call[c].to ELSE session[s].profile
      BY <2>0, <2>4 DEF Commit, SessionAfter, SessionRow
    <3>3. call[c].bumped /\ s \in call[c].scope => session[s].here
      BY <3>0 DEF CallOK
    <3>4. CASE call[c].bumped /\ call[c].t = NoToken /\ s \in call[c].scope
      BY <2>0, <3>0, <3>1, <3>2, <3>3, <3>4 DEF SwitchOK
    <3> QED
      BY <2>0, <3>1, <3>2, <3>4
  <2>5. ASSUME NEW c \in Calls, Begin(c) \/ Step(c) \/ Abort(c) \/ Victim(c), ~Commit(c)
        PROVE  Announced(s, p)
    <3>1. events' = events
      BY <2>5 DEF Begin, Refresh, Logout, RevokeAll, SelectProfile, Step, Claim, Load, Bump, Switch,
                  Diagnose, ScanFamily, ScanSessions, ScanTokens, Scan, Rotate, RevokeToken,
                  RevokeSession, Abort, Victim, Rollback
    <3>2. session' = session
      BY <2>5, StepKeepsSwitch
         DEF SwitchInv, Begin, Refresh, Logout, RevokeAll, SelectProfile, Abort, Victim, Rollback
    <3> QED
      BY <2>1, <3>1, <3>2
  <2> QED
    BY <2>2, <2>3, <2>4, <2>5 DEF Next
<1> QED
  BY <1>1, AuthInvariant, SwitchInvariant, PTL DEF Spec, ProfileLeftIsAnnounced
=============================================================================
