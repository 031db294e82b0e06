----------------------- MODULE SessionRevocationProofs -----------------------
(* Theorems about SessionRevocation, for any servers, drains, requests,      *)
(* sessions, revocations and retries, under one hypothesis where a theorem   *)
(* names it: no more sessions are live at a time than a pass lists.          *)
EXTENDS SessionRevocation, FiniteSetTheorems, WellFoundedInduction, TLAPS

\* What list_nonterminal does not cut off.
LiveWithinLimit == Cardinality({x \in Sessions : Live(x)}) <= ListLimit

(***************************************************************************)
(* The inductive invariant                                                 *)
(***************************************************************************)

\* Every fence was the row's at some time, and a server is known by its own.
FencesOK ==
  /\ \A x \in Sessions : session[x].fence <= token
  /\ \A s \in Servers :
       /\ server[s].fence <= token
       /\ server[s].life = "standby" <=> server[s].fence = 0
       /\ \A q \in Servers \ {s} : server[s].fence # 0 => server[q].fence # server[s].fence

\* A request under way belongs to a server that has been ready, and to a session.
RequestOK(r) ==
  request[r].at # "idle" =>
    /\ \E s \in Servers : server[s].life \in {"ready", "closed"} /\ request[r].fence = server[s].fence
    /\ request[r].at # "create" => request[r].x \in Sessions

\* A revocation is about sessions that were there; while the right is there, only a change
\* of policy has sessions to end.
DueOK ==
  \A e \in Events :
    /\ event[e].state = "none" => due[e] = {}
    /\ right /\ ~ event[e].forced => due[e] = {}
    /\ \A x \in due[e] : session[x].state # "none"

\* The places of a drain with a session in hand.
InHand == {"adopt", "check", "decrypt", "end", "reload"}

\* A drain in `row' works with the fence of its server; while the server starts, the startup
\* pass is its only one.
DrainOK(d, row) ==
  LET life == server[ServerOf[d]].life
  IN /\ row.at \in InHand => row.x \in Sessions /\ row.tries < Retries
     /\ row.at # "off" => row.fence = server[ServerOf[d]].fence /\ life # "standby"
     /\ row.event \in Events => event[row.event].state # "none"
     /\ life = "starting" => IF d \in Tasks THEN ~ row.handler /\ row.at \notin {"off", "poll"}
                             ELSE row.at = "off"

\* What is left to do of a revocation: the sessions `left' of it that are live are in hand
\* or still to come, and there is none when it is going to be acknowledged.
Covers(row, left) ==
  /\ row.at \in InHand => left \subseteq row.todo \cup {row.x}
  /\ row.at = "ack" => left = {}

LeftOf(e) == {x \in due[e] : Live(x)}

\* A drain that found the right there has nothing to end, and that stays so: when the right
\* goes again, another revocation says so.
DrainCovers(row) ==
  row.event \in Events => /\ Covers(row, LeftOf(row.event))
                          /\ row.at = "decrypt" => due[row.event] = {}

\* A startup pass whose fence is the row's: nobody else changes a session, so that each
\* session to come is live and as the pass has seen it, and those behind it have its fence.
Undisturbed(row, sessions, fence) ==
  /\ row.at \notin {"reload", "fail"}
  /\ row.at \in InHand =>
       /\ row.x \notin row.todo
       /\ \A y \in row.todo \cup {row.x} :
            sessions[y].state = "live" /\ y \in row.fresh /\ row.seen[y] = sessions[y].fence
       /\ row.at # "adopt" => sessions[row.x].fence = fence
  /\ ~ (row.at = "list" /\ row.event = NoEvent) =>
       \A y \in Sessions : sessions[y].state = "live" /\ sessions[y].fence # fence =>
         row.at \in InHand /\ y \in row.todo \cup {row.x}

Starting(d, row) == d \in Tasks /\ server[ServerOf[d]].life = "starting" /\ Current(row.fence)

StartupOK(d, row) == Starting(d, row) => Undisturbed(row, session, token)

\* AdoptionComplete, whoever owns the row.
Adopted ==
  \A s \in Servers : Serves(s) /\ Current(server[s].fence) =>
    \A x \in Sessions : Live(x) => session[x].fence = token

RevocationInv ==
  /\ TypeOK
  /\ FencesOK
  /\ \A r \in Requests : RequestOK(r)
  /\ DueOK
  /\ \A d \in Drains : DrainOK(d, drain[d]) /\ DrainCovers(drain[d]) /\ StartupOK(d, drain[d])
  /\ AcknowledgedEnds
  /\ Adopted

(***************************************************************************)
(* Lemmas about the operators of the model                                 *)
(***************************************************************************)

\* A set of naturals that is not empty has a first element.
LEMMA FirstIsIn ==
  ASSUME NEW S \in SUBSET Nat, S # {}
  PROVE  First(S) \in S
<1>1. IsWellFoundedOn(OpToRel(<, Nat), Nat)
  BY NatLessThanWellFounded
<1>2. \E x \in S : \A y \in S : ~ (<<y, x>> \in OpToRel(<, Nat))
  BY <1>1, WFMin
<1>3. PICK x \in S : \A y \in S : ~ (<<y, x>> \in OpToRel(<, Nat))
  BY <1>2
<1>4. \A y \in S : ~ (y < x)
  BY <1>3 DEF OpToRel
<1>5. \A y \in S : x <= y
  BY <1>4
<1> QED
  BY <1>5 DEF First

\* Sessions and revocations are numbered, and 0 is none of them.
LEMMA Numbers ==
  /\ Sessions \subseteq Nat /\ NoSession \notin Sessions
  /\ Events \subseteq Nat
BY RevocationAssumption DEF Sessions, NoSession, Events

\* Each server has one place for its task.
LEMMA TaskPlaces ==
  /\ \A s \in Servers : TaskOf(s) \in Tasks /\ ServerOf[TaskOf(s)] = s
  /\ \A d \in Tasks : ServerOf[d] \in Servers /\ TaskOf(ServerOf[d]) = d
  /\ \A d \in Drains : ServerOf[d] \in Servers
  /\ Tasks \subseteq Drains
<1>1. Tasks \subseteq Drains /\ \A d \in Drains : ServerOf[d] \in Servers
  BY RevocationAssumption
<1>2. ASSUME NEW s \in Servers
      PROVE  /\ TaskOf(s) \in Tasks /\ ServerOf[TaskOf(s)] = s
             /\ \A d \in Tasks : ServerOf[d] = s => TaskOf(s) = d
  <2>1. PICK d \in Tasks : \A c \in Tasks : ServerOf[c] = s <=> c = d
    BY RevocationAssumption
  <2> QED
    BY <2>1 DEF TaskOf
<1> QED
  BY <1>1, <1>2

\* The blank values have their types.
LEMMA Blanks ==
  /\ 0 \in 0..MaxFence
  /\ NoReceipt \in EventRow
  /\ EndedRow \in SessionRow
  /\ IdleRequest \in RequestRow
  /\ Off \in DrainRow
<1>1. 0 \in 0..MaxFence /\ 0 \in 0..Retries
  BY FencedLeaseAssumption, RevocationAssumption
<1>2. NoReceipt \in EventRow
  BY DEF NoReceipt, EventRow
<1>3. EndedRow \in SessionRow
  BY <1>1 DEF EndedRow, SessionRow
<1>4. IdleRequest \in RequestRow
  BY <1>1 DEF IdleRequest, RequestRow
<1>5. Off \in DrainRow
  BY <1>1 DEF Off, DrainRow
<1> QED
  BY <1>1, <1>2, <1>3, <1>4, <1>5

\* A drain through with its list.
LEMMA DoneShape ==
  ASSUME NEW row \in DrainRow, NEW at \in {"claim", "ack", "fail"}
  PROVE  /\ Done(row, at) \in DrainRow
         /\ Done(row, at).at = at
         /\ Done(row, at).handler = row.handler
         /\ Done(row, at).event = row.event
         /\ Done(row, at).fence = row.fence
BY Blanks DEF Done, DrainRow

\* A drain that takes a session up.
LEMMA TakeUpShape ==
  ASSUME NEW row \in DrainRow, row.x \in Sessions
  PROVE  /\ TakeUp(row) \in DrainRow
         /\ TakeUp(row).handler = row.handler
         /\ TakeUp(row).event = row.event
         /\ TakeUp(row).fence = row.fence
         /\ \/ TakeUp(row).at = "fail" /\ row.seen[row.x] > row.fence
            \/ /\ \/ TakeUp(row).at = "adopt"
                  \/ TakeUp(row).at = "check" /\ row.seen[row.x] = row.fence
               /\ TakeUp(row).x = row.x
               /\ TakeUp(row).todo = row.todo
               /\ TakeUp(row).fresh = row.fresh
               /\ TakeUp(row).seen = row.seen
               /\ TakeUp(row).tries = row.tries
<1>1. CASE row.seen[row.x] > row.fence
  <2>1. TakeUp(row) = Done(row, "fail")
    BY <1>1 DEF TakeUp
  <2> QED
    BY <1>1, <2>1, DoneShape
<1>2. CASE ~ (row.seen[row.x] > row.fence)
  <2>1. TakeUp(row) = [row EXCEPT !.at = IF Behind(row) THEN "adopt" ELSE "check"]
    BY <1>2 DEF TakeUp
  <2>2. row.seen[row.x] \in Nat /\ row.fence \in Nat
    BY FencedLeaseAssumption DEF DrainRow
  <2>3. ~ Behind(row) => row.seen[row.x] = row.fence
    BY <1>2, <2>2 DEF Behind
  <2> QED
    BY <2>1, <2>3 DEF DrainRow
<1> QED
  BY <1>1, <1>2

\* A drain that goes on to the next session, or past its list.
LEMMA ProceedShape ==
  ASSUME NEW row \in DrainRow
  PROVE  /\ Proceed(row) \in DrainRow
         /\ Proceed(row).handler = row.handler
         /\ Proceed(row).event = row.event
         /\ Proceed(row).fence = row.fence
         /\ \/ /\ row.todo = {}
               /\ Proceed(row).at = IF row.event = NoEvent THEN "claim" ELSE "ack"
            \/ /\ Proceed(row).at = "fail"
               /\ \E y \in row.todo : row.seen[y] > row.fence
            \/ /\ Proceed(row).x \in row.todo
               /\ \/ Proceed(row).at = "adopt"
                  \/ Proceed(row).at = "check" /\ row.seen[Proceed(row).x] = row.fence
               /\ Proceed(row).todo = row.todo \ {Proceed(row).x}
               /\ Proceed(row).fresh = row.fresh
               /\ Proceed(row).seen = row.seen
               /\ Proceed(row).tries = 0
<1>1. CASE row.todo = {}
  BY <1>1, DoneShape DEF Proceed
<1>2. CASE row.todo # {}
  <2> DEFINE y == First(row.todo)
             next == [row EXCEPT !.x = y, !.todo = @ \ {y}, !.tries = 0]
  <2>1. y \in row.todo /\ y \in Sessions
    BY <1>2, FirstIsIn, Numbers DEF DrainRow
  <2>2. Proceed(row) = TakeUp(next)
    BY <1>2 DEF Proceed
  <2> HIDE DEF y
  <2>3. 0 \in 0..Retries
    BY RevocationAssumption
  <2>4. /\ next \in DrainRow /\ next.x = y /\ next.todo = row.todo \ {y} /\ next.tries = 0
        /\ next.handler = row.handler /\ next.event = row.event /\ next.fence = row.fence
        /\ next.fresh = row.fresh /\ next.seen = row.seen
    BY <2>1, <2>3 DEF DrainRow
  <2> HIDE DEF next
  <2> QED
    BY <2>1, <2>2, <2>4, TakeUpShape
<1> QED
  BY <1>1, <1>2

\* Going on covers what was still to come.
LEMMA ProceedCovers ==
  ASSUME NEW row \in DrainRow, NEW left, left \subseteq row.todo
  PROVE  Covers(Proceed(row), left) /\ Proceed(row).at # "decrypt"
BY ProceedShape DEF Covers, InHand

\* Going on with an undisturbed list: the sessions to come are as they were seen, and the
\* others have the fence.
LEMMA ProceedUndisturbed ==
  ASSUME NEW row \in DrainRow, NEW sessions \in [Sessions -> SessionRow], NEW fence \in Nat,
         row.fence = fence,
         \A y \in Sessions : sessions[y].fence <= fence,
         \A y \in row.todo :
           sessions[y].state = "live" /\ y \in row.fresh /\ row.seen[y] = sessions[y].fence,
         \A y \in Sessions : sessions[y].state = "live" /\ sessions[y].fence # fence => y \in row.todo
  PROVE  Undisturbed(Proceed(row), sessions, fence)
<1>1. \A y \in Sessions : sessions[y].fence \in Nat
  BY FencedLeaseAssumption DEF SessionRow
<1>2. row.todo \subseteq Sessions
  BY DEF DrainRow
<1>3. ~ \E y \in row.todo : row.seen[y] > row.fence
  BY <1>1, <1>2
<1>4. CASE row.todo = {}
  <2>1. Proceed(row).at \in {"claim", "ack"}
    BY <1>4, ProceedShape
  <2> QED
    BY <1>4, <2>1 DEF Undisturbed, InHand
<1>5. CASE row.todo # {}
  <2>1. /\ Proceed(row).x \in row.todo
        /\ \/ Proceed(row).at = "adopt"
           \/ Proceed(row).at = "check" /\ row.seen[Proceed(row).x] = row.fence
        /\ Proceed(row).todo = row.todo \ {Proceed(row).x}
        /\ Proceed(row).fresh = row.fresh
        /\ Proceed(row).seen = row.seen
    BY <1>3, <1>5, ProceedShape
  <2> QED
    BY <2>1 DEF Undisturbed, InHand
<1> QED
  BY <1>4, <1>5

\* A list that is long enough has every live session.
LEMMA AllListed ==
  ASSUME LiveWithinLimit, TypeOK
  PROVE  Listed = {x \in Sessions : Live(x)}
<1> DEFINE live == {x \in Sessions : Live(x)}
<1>1. IsFiniteSet(Sessions)
  BY FS_Interval, RevocationAssumption DEF Sessions
<1>2. IsFiniteSet(live)
  BY <1>1, FS_Subset
<1>3. ASSUME NEW x \in live
      PROVE  Cardinality({y \in Sessions : Live(y) /\ y < x}) < ListLimit
  <2> DEFINE before == {y \in Sessions : Live(y) /\ y < x}
  <2>1. IsFiniteSet(live \ {x}) /\ Cardinality(live \ {x}) = Cardinality(live) - 1
    BY <1>2, <1>3, FS_RemoveElement
  <2>2. before \subseteq live \ {x}
    BY Numbers
  <2>3. IsFiniteSet(before) /\ Cardinality(before) <= Cardinality(live \ {x})
    BY <2>1, <2>2, FS_Subset
  <2>4. /\ Cardinality(before) \in Nat /\ Cardinality(live) \in Nat
        /\ Cardinality(live) <= ListLimit
    BY <1>2, <2>3, FS_CardinalityType DEF LiveWithinLimit
  <2> HIDE DEF before, live
  <2>5. Cardinality(before) < ListLimit
    BY <2>1, <2>3, <2>4, RevocationAssumption
  <2> QED
    BY <2>5 DEF before
<1> QED
  BY <1>3 DEF Listed

(***************************************************************************)
(* Who may write                                                           *)
(***************************************************************************)

\* While a startup pass has the row's fence, no request has it: requests are served when
\* the pass is over.
LEMMA NoRequestDuringStartup ==
  ASSUME RevocationInv, NEW r \in Requests, request[r].at # "idle", Current(request[r].fence),
         NEW c \in Drains
  PROVE  ~ Starting(c, drain[c])
<1> SUFFICES ASSUME Starting(c, drain[c]) PROVE FALSE
  OBVIOUS
<1>1. PICK s \in Servers :
        server[s].life \in {"ready", "closed"} /\ request[r].fence = server[s].fence
  BY DEF RevocationInv, RequestOK
<1>2. DrainOK(c, drain[c])
  BY DEF RevocationInv
<1>3. ServerOf[c] \in Servers /\ server[ServerOf[c]].life = "starting"
      /\ drain[c].fence = server[ServerOf[c]].fence
  BY <1>2, TaskPlaces DEF DrainOK, Starting
<1>4. server[s].fence = server[ServerOf[c]].fence
  BY <1>1, <1>3 DEF Starting, Current
<1> QED
  BY <1>1, <1>3, <1>4 DEF RevocationInv, FencesOK

\* Nor has another drain: handlers drain when the pass is over, and other servers have
\* other fences.
LEMMA NoDrainDuringStartup ==
  ASSUME RevocationInv, NEW d \in Drains, drain[d].at # "off", Current(drain[d].fence),
         NEW c \in Drains, c # d
  PROVE  ~ Starting(c, drain[c])
<1> SUFFICES ASSUME Starting(c, drain[c]) PROVE FALSE
  OBVIOUS
<1>1. DrainOK(c, drain[c]) /\ DrainOK(d, drain[d])
  BY DEF RevocationInv
<1>2. /\ ServerOf[c] \in Servers /\ server[ServerOf[c]].life = "starting"
      /\ drain[c].fence = server[ServerOf[c]].fence
  BY <1>1, TaskPlaces DEF DrainOK, Starting
<1>3. ServerOf[d] \in Servers /\ drain[d].fence = server[ServerOf[d]].fence
  BY <1>1, TaskPlaces DEF DrainOK
<1>4. ServerOf[c] = ServerOf[d]
  BY <1>2, <1>3 DEF Starting, Current, RevocationInv, FencesOK
<1>5. d \in Tasks
  BY <1>1, <1>2, <1>4 DEF DrainOK
<1> QED
  BY <1>4, <1>5, TaskPlaces DEF Starting

(***************************************************************************)
(* Steps of a drain that change nothing else                               *)
(***************************************************************************)

\* A drain that goes on in its pass is still in order.
LEMMA NextRowOK ==
  ASSUME RevocationInv, NEW d \in Drains, drain[d].at # "off", NEW row,
         row.fence = drain[d].fence, row.event = drain[d].event, row.handler = drain[d].handler,
         row.at \notin {"off", "poll"},
         row.at \in InHand => row.x \in Sessions /\ row.tries < Retries
  PROVE  DrainOK(d, row)
<1>1. DrainOK(d, drain[d])
  BY DEF RevocationInv
<1> QED
  BY <1>1 DEF DrainOK

\* What goes on with Proceed, for instance.
LEMMA ProceedRowOK ==
  ASSUME RevocationInv, NEW d \in Drains, drain[d].at # "off", NEW row \in DrainRow,
         row.fence = drain[d].fence, row.event = drain[d].event, row.handler = drain[d].handler
  PROVE  DrainOK(d, Proceed(row)) /\ Proceed(row) \in DrainRow
<1>1. 0 < Retries /\ row.todo \subseteq Sessions
  BY RevocationAssumption DEF DrainRow
<1>2. /\ Proceed(row).at \notin {"off", "poll"}
      /\ Proceed(row).at \in InHand => Proceed(row).x \in Sessions /\ Proceed(row).tries < Retries
  BY <1>1, ProceedShape DEF InHand
<1> QED
  BY <1>2, ProceedShape, NextRowOK

\* A drain that fails has lost the fence, if it is a startup pass.
LEMMA FailRowOK ==
  ASSUME RevocationInv, NEW d \in Drains, drain[d].at # "off", NEW row \in DrainRow,
         row.fence = drain[d].fence, row.event = drain[d].event, row.handler = drain[d].handler
  PROVE  /\ DrainOK(d, Done(row, "fail")) /\ Done(row, "fail") \in DrainRow
         /\ DrainCovers(Done(row, "fail"))
         /\ ~ Starting(d, drain[d]) => StartupOK(d, Done(row, "fail"))
<1>1. DrainOK(d, Done(row, "fail")) /\ Done(row, "fail") \in DrainRow
  BY DoneShape, NextRowOK DEF InHand
<1>2. DrainCovers(Done(row, "fail"))
  BY DoneShape DEF DrainCovers, Covers, InHand
<1>3. ~ Starting(d, drain[d]) => StartupOK(d, Done(row, "fail"))
  BY DoneShape DEF StartupOK, Starting
<1> QED
  BY <1>1, <1>2, <1>3

\* The step itself.
LEMMA MoveStep ==
  ASSUME RevocationInv, NEW d \in Drains, NEW row \in DrainRow, Move(d, row),
         DrainOK(d, row), DrainCovers(row), StartupOK(d, row)
  PROVE  RevocationInv'
<1>1. /\ drain' = [drain EXCEPT ![d] = row]
      /\ token' = token /\ owner' = owner /\ right' = right /\ event' = event /\ due' = due
      /\ server' = server /\ session' = session /\ request' = request
  BY DEF Move, rows
<1>2. TypeOK'
  BY <1>1 DEF RevocationInv, TypeOK, LeaseTypeOK
<1>3. FencesOK' /\ (\A r \in Requests : RequestOK(r)') /\ DueOK' /\ AcknowledgedEnds'
  BY <1>1 DEF RevocationInv, FencesOK, RequestOK, DueOK, AcknowledgedEnds
<1>4. Adopted'
  BY <1>1 DEF RevocationInv, Adopted, Serves, Current, Live
<1>5. ASSUME NEW c \in Drains
      PROVE  (DrainOK(c, drain[c]) /\ DrainCovers(drain[c]) /\ StartupOK(c, drain[c]))'
  <2>1. drain'[c] = IF c = d THEN row ELSE drain[c]
    BY <1>1 DEF RevocationInv, TypeOK
  <2>2. DrainOK(c, drain'[c]) /\ DrainCovers(drain'[c]) /\ StartupOK(c, drain'[c])
    BY <2>1 DEF RevocationInv
  <2>3. DrainOK(c, drain[c])'
    BY <1>1, <2>2 DEF DrainOK
  <2>4. DrainCovers(drain[c])'
    BY <1>1, <2>2 DEF DrainCovers, LeftOf, Live
  <2>5. StartupOK(c, drain[c])'
    BY <1>1, <2>2 DEF StartupOK, Starting, Current
  <2> QED
    BY <2>3, <2>4, <2>5
<1> QED
  BY <1>2, <1>3, <1>4, <1>5 DEF RevocationInv

\* A drain fails.
LEMMA FailStep ==
  ASSUME RevocationInv, NEW d \in Drains, drain[d].at # "off", ~ Starting(d, drain[d]), Fail(d)
  PROVE  RevocationInv'
<1>1. drain[d] \in DrainRow
  BY DEF RevocationInv, TypeOK
<1> QED
  BY <1>1, FailRowOK, MoveStep DEF Fail

\* A drain that is no startup pass with its fence, or not any more, has less to show.
LEMMA NotStarting ==
  ASSUME NEW d, ~ Starting(d, drain[d]), NEW row, row.fence = drain[d].fence
  PROVE  StartupOK(d, row)
BY DEF StartupOK, Starting

\* The session task between two rounds.
LEMMA PollStep ==
  ASSUME RevocationInv, NEW d \in Drains, Poll(d)
  PROVE  RevocationInv'
<1>1. drain[d] \in DrainRow /\ DrainOK(d, drain[d]) /\ drain[d].at = "poll"
  BY DEF RevocationInv, TypeOK, Poll
<1>2. ~ Starting(d, drain[d])
  BY <1>1 DEF DrainOK, Starting
<1>3. CASE Move(d, [drain[d] EXCEPT !.at = "claim"])
  <2> DEFINE row == [drain[d] EXCEPT !.at = "claim"]
  <2>1. /\ row \in DrainRow /\ row.at = "claim" /\ row.fence = drain[d].fence
        /\ row.event = drain[d].event /\ row.handler = drain[d].handler
    BY <1>1 DEF DrainRow
  <2> HIDE DEF row
  <2>2. DrainOK(d, row)
    BY <1>1, <2>1, NextRowOK DEF InHand
  <2>3. DrainCovers(row)
    BY <2>1 DEF DrainCovers, Covers, InHand
  <2>4. StartupOK(d, row)
    BY <1>2, <2>1, NotStarting
  <2> QED
    BY <1>3, <2>1, <2>2, <2>3, <2>4, MoveStep DEF row
<1> QED
  BY <1>1, <1>2, <1>3, FailStep DEF Poll

\* What a drain that rests is like.
LEMMA RestsShape ==
  ASSUME RevocationInv, NEW d \in Drains, drain[d].at # "off"
  PROVE  /\ Rests(d) \in DrainRow
         /\ Rests(d).at \in {"off", "poll"} /\ Rests(d).event = NoEvent
         /\ Rests(d).at = "poll" => Rests(d).fence = drain[d].fence
<1>1. drain[d] \in DrainRow
  BY DEF RevocationInv, TypeOK
<1>2. Off \in DrainRow /\ Off.at = "off" /\ Off.event = NoEvent
  BY Blanks DEF Off
<1> QED
  BY <1>1, <1>2 DEF Rests, DrainRow

\* A drain that found nothing to claim, without a startup's end.
LEMMA RestStep ==
  ASSUME RevocationInv, NEW d \in Drains, drain[d].at = "claim",
         ~ (~ drain[d].handler /\ server[ServerOf[d]].life = "starting"), Move(d, Rests(d))
  PROVE  RevocationInv'
<1>1. DrainOK(d, drain[d])
  BY DEF RevocationInv
<1>2. server[ServerOf[d]].life # "starting"
  BY <1>1 DEF DrainOK
<1>3. DrainOK(d, Rests(d))
  BY <1>1, <1>2, RestsShape, RevocationAssumption DEF DrainOK, InHand
<1>4. DrainCovers(Rests(d))
  BY RestsShape, RevocationAssumption DEF DrainCovers
<1>5. StartupOK(d, Rests(d))
  BY <1>2 DEF StartupOK, Starting
<1> QED
  BY <1>3, <1>4, <1>5, RestsShape, MoveStep

\* A list is loaded.
LEMMA ListStep ==
  ASSUME RevocationInv, LiveWithinLimit, NEW d \in Drains, List(d)
  PROVE  RevocationInv'
<1>1. TypeOK /\ drain[d] \in DrainRow /\ drain[d].at = "list" /\ FencesOK
  BY DEF RevocationInv, TypeOK, List
<1>2. CASE ~ Current(drain[d].fence) /\ Fail(d)
  BY <1>1, <1>2, FailStep DEF Starting
<1>3. CASE ~ (~ Current(drain[d].fence) /\ Fail(d))
  <2> DEFINE row == [drain[d] EXCEPT !.todo = Listed, !.fresh = Listed,
                       !.seen = [x \in Sessions |-> IF x \in Listed THEN session[x].fence ELSE 0]]
  <2>1. Move(d, Proceed(row))
    BY <1>3 DEF List
  <2>2. Listed = {x \in Sessions : Live(x)}
    BY <1>1, AllListed
  <2>3. [x \in Sessions |-> IF x \in Listed THEN session[x].fence ELSE 0] \in [Sessions -> 0..MaxFence]
    BY <1>1, Blanks DEF TypeOK, SessionRow
  <2>4. /\ row \in DrainRow /\ row.todo = Listed /\ row.fresh = Listed
        /\ row.seen = [x \in Sessions |-> IF x \in Listed THEN session[x].fence ELSE 0]
        /\ row.fence = drain[d].fence /\ row.event = drain[d].event
        /\ row.handler = drain[d].handler
    BY <1>1, <2>2, <2>3 DEF DrainRow
  <2> HIDE DEF row
  <2>5. DrainOK(d, Proceed(row)) /\ Proceed(row) \in DrainRow
    BY <1>1, <2>4, ProceedRowOK
  <2>6. DrainCovers(Proceed(row))
    <3> SUFFICES ASSUME Proceed(row).event \in Events
                 PROVE  /\ Covers(Proceed(row), LeftOf(Proceed(row).event))
                        /\ Proceed(row).at # "decrypt"
      BY DEF DrainCovers
    <3>1. LeftOf(Proceed(row).event) \subseteq row.todo
      BY <1>1, <2>2, <2>4 DEF LeftOf, TypeOK
    <3> QED
      BY <2>4, <3>1, ProceedCovers
  <2>7. StartupOK(d, Proceed(row))
    <3> SUFFICES ASSUME Current(Proceed(row).fence)
                 PROVE  Undisturbed(Proceed(row), session, token)
      BY DEF StartupOK, Starting
    <3>1. row.fence = token
      BY <2>4, ProceedShape DEF Current
    <3>2. token \in Nat /\ session \in [Sessions -> SessionRow]
      BY <1>1, FencedLeaseAssumption DEF TypeOK, LeaseTypeOK
    <3> QED
      BY <1>1, <2>2, <2>4, <3>1, <3>2, ProceedUndisturbed DEF FencesOK, Live
  <2> QED
    BY <2>1, <2>5, <2>6, <2>7, MoveStep
<1> QED
  BY <1>2, <1>3

\* A drain with a session in hand that moves on with the same list.
LEMMA SameListStep ==
  ASSUME RevocationInv, NEW d \in Drains, drain[d].at \in InHand, NEW at \in InHand \ {"adopt"},
         Move(d, [drain[d] EXCEPT !.at = at]),
         at = "decrypt" /\ drain[d].event \in Events => due[drain[d].event] = {},
         Starting(d, drain[d]) => drain[d].at # "adopt" /\ at # "reload"
  PROVE  RevocationInv'
<1> DEFINE row == [drain[d] EXCEPT !.at = at]
<1>1. drain[d] \in DrainRow
  BY DEF RevocationInv, TypeOK
<1>2. /\ row \in DrainRow /\ row.at = at /\ row.fence = drain[d].fence /\ row.event = drain[d].event
      /\ row.handler = drain[d].handler /\ row.x = drain[d].x /\ row.todo = drain[d].todo
      /\ row.fresh = drain[d].fresh /\ row.seen = drain[d].seen /\ row.tries = drain[d].tries
  BY <1>1 DEF DrainRow, InHand
<1> HIDE DEF row
<1>3. drain[d].x \in Sessions /\ drain[d].tries < Retries
  BY DEF RevocationInv, DrainOK
<1>4. DrainOK(d, row)
  BY <1>2, <1>3, NextRowOK DEF InHand
<1>5. DrainCovers(row)
  BY <1>2 DEF RevocationInv, DrainCovers, Covers, InHand
<1>6. StartupOK(d, row)
  BY <1>2 DEF RevocationInv, StartupOK, Starting, Undisturbed, InHand
<1> QED
  BY <1>2, <1>4, <1>5, <1>6, MoveStep DEF row

\* The session in hand is re-checked.
LEMMA CheckStep ==
  ASSUME RevocationInv, NEW d \in Drains, Check(d)
  PROVE  RevocationInv'
<1>1. drain[d].at = "check"
  BY DEF Check
<1>2. CASE Move(d, [drain[d] EXCEPT !.at = "end"])
  BY <1>1, <1>2, SameListStep DEF InHand
<1>3. CASE /\ ~ (drain[d].event \in Events /\ event[drain[d].event].forced) /\ right
           /\ Move(d, [drain[d] EXCEPT !.at = "decrypt"])
  <2>1. drain[d].event \in Events => due[drain[d].event] = {}
    BY <1>3 DEF RevocationInv, DueOK
  <2> QED
    BY <1>1, <1>3, <2>1, SameListStep DEF InHand
<1> QED
  BY <1>2, <1>3 DEF Check

\* A drain that is through with the session in hand, which needs no more of it.
LEMMA ProceedStep ==
  ASSUME RevocationInv, NEW d \in Drains, drain[d].at # "off",
         NEW row \in DrainRow, Move(d, Proceed(row)),
         row.fence = drain[d].fence, row.event = drain[d].event, row.handler = drain[d].handler,
         row.event \in Events => LeftOf(row.event) \subseteq row.todo,
         Starting(d, drain[d]) => /\ row = drain[d] /\ row.at \in InHand \ {"adopt"}
  PROVE  RevocationInv'
<1>1. DrainOK(d, Proceed(row)) /\ Proceed(row) \in DrainRow
  BY ProceedRowOK
<1>2. DrainCovers(Proceed(row))
  BY ProceedShape, ProceedCovers DEF DrainCovers
<1>3. StartupOK(d, Proceed(row))
  <2>1. CASE ~ Starting(d, drain[d])
    BY <2>1, ProceedShape, NotStarting
  <2>2. CASE Starting(d, drain[d])
    <3>1. Undisturbed(row, session, token) /\ row.at \in InHand \ {"adopt"}
      BY <2>2 DEF RevocationInv, StartupOK
    <3>2. row.fence = token
      BY <2>2 DEF Starting, Current
    <3>3. /\ token \in Nat /\ session \in [Sessions -> SessionRow]
          /\ \A y \in Sessions : session[y].fence <= token
      BY FencedLeaseAssumption DEF RevocationInv, TypeOK, LeaseTypeOK, FencesOK
    <3>4. Undisturbed(Proceed(row), session, token)
      BY <3>1, <3>2, <3>3, ProceedUndisturbed DEF Undisturbed, InHand
    <3> QED
      BY <3>4 DEF StartupOK
  <2> QED
    BY <2>1, <2>2
<1> QED
  BY <1>1, <1>2, <1>3, MoveStep

\* The secrets are decrypted.
LEMMA DecryptStep ==
  ASSUME RevocationInv, NEW d \in Drains, Decrypt(d)
  PROVE  RevocationInv'
<1>1. /\ drain[d].at = "decrypt" /\ drain[d] \in DrainRow
      /\ DrainCovers(drain[d]) /\ StartupOK(d, drain[d])
  BY DEF RevocationInv, TypeOK, Decrypt
<1>2. CASE ~ Live(drain[d].x) /\ Fail(d)
  <2>1. ~ Starting(d, drain[d])
    BY <1>1, <1>2 DEF StartupOK, Undisturbed, InHand, Live
  <2> QED
    BY <1>1, <1>2, <2>1, FailStep
<1>3. CASE Move(d, Proceed(drain[d]))
  <2>1. drain[d].event \in Events => LeftOf(drain[d].event) \subseteq drain[d].todo
    BY <1>1 DEF DrainCovers, LeftOf
  <2> QED
    BY <1>1, <1>3, <2>1, ProceedStep DEF InHand
<1> QED
  BY <1>2, <1>3 DEF Decrypt

\* The session is loaded again.
LEMMA ReloadStep ==
  ASSUME RevocationInv, NEW d \in Drains, Reload(d)
  PROVE  RevocationInv'
<1> DEFINE x == drain[d].x
           loaded == [drain[d] EXCEPT !.tries = @ + 1, !.fresh = @ \cup {x},
                                      !.seen[x] = session[x].fence]
<1>1. /\ drain[d].at = "reload" /\ drain[d] \in DrainRow /\ DrainOK(d, drain[d])
      /\ DrainCovers(drain[d]) /\ StartupOK(d, drain[d])
  BY DEF RevocationInv, TypeOK, Reload
<1>2. x \in Sessions /\ drain[d].tries < Retries
  BY <1>1 DEF DrainOK, InHand
<1>3. session[x].fence \in 0..MaxFence
  BY <1>2 DEF RevocationInv, TypeOK, SessionRow
<1>4. drain[d].tries + 1 \in 0..Retries
  BY <1>1, <1>2, RevocationAssumption DEF DrainRow
<1>5. /\ loaded \in DrainRow /\ loaded.at = "reload" /\ loaded.tries = drain[d].tries + 1
      /\ loaded.x = x /\ loaded.todo = drain[d].todo /\ loaded.fence = drain[d].fence
      /\ loaded.event = drain[d].event /\ loaded.handler = drain[d].handler
  BY <1>1, <1>2, <1>3, <1>4 DEF DrainRow
<1>6. \/ Move(d, Done(loaded, "fail"))
      \/ loaded.tries < Retries /\ Move(d, TakeUp(loaded))
      \/ ~ Live(x) /\ Move(d, Proceed(loaded))
  BY DEF Reload, RetriesExhausted
<1> HIDE DEF loaded, x
<1>7. ~ Starting(d, drain[d])
  BY <1>1 DEF StartupOK, Undisturbed
<1>8. drain[d].event \in Events => LeftOf(drain[d].event) \subseteq drain[d].todo \cup {x}
  BY <1>1 DEF DrainCovers, Covers, InHand, x
<1>9. CASE Move(d, Done(loaded, "fail"))
  BY <1>1, <1>5, <1>7, <1>9, FailRowOK, MoveStep
<1>10. CASE loaded.tries < Retries /\ Move(d, TakeUp(loaded))
  <2>1. DrainOK(d, TakeUp(loaded))
    BY <1>1, <1>2, <1>5, <1>10, TakeUpShape, NextRowOK DEF InHand
  <2>2. DrainCovers(TakeUp(loaded))
    BY <1>2, <1>5, <1>8, TakeUpShape DEF DrainCovers, Covers, InHand
  <2>3. StartupOK(d, TakeUp(loaded))
    BY <1>2, <1>5, <1>7, TakeUpShape, NotStarting
  <2> QED
    BY <1>2, <1>5, <1>10, <2>1, <2>2, <2>3, TakeUpShape, MoveStep
<1>11. CASE ~ Live(x) /\ Move(d, Proceed(loaded))
  <2>1. drain[d].event \in Events => LeftOf(drain[d].event) \subseteq drain[d].todo
    BY <1>8, <1>11 DEF LeftOf
  <2> QED
    BY <1>1, <1>5, <1>7, <1>11, <2>1, ProceedStep
<1> QED
  BY <1>6, <1>9, <1>10, <1>11

(***************************************************************************)
(* Steps that write, when nobody gets the lease                            *)
(***************************************************************************)

\* What every step does to the sessions: one that ended stays so, and a live one has the
\* fence it had or that of the row.
SessionsAfter ==
  \A y \in Sessions :
    /\ session'[y].fence <= token
    /\ session[y].state = "ended" => session'[y].state = "ended"
    /\ session'[y].state = "none" => session[y].state = "none"
    /\ session'[y].state = "live" =>
         session'[y].fence = token \/ (Live(y) /\ session'[y].fence = session[y].fence)

\* A drain that another step leaves alone, but for the snapshots that are out of date now.
DrainKept(c) ==
  /\ drain'[c].at = drain[c].at /\ drain'[c].handler = drain[c].handler
  /\ drain'[c].event = drain[c].event /\ drain'[c].fence = drain[c].fence
  /\ drain'[c].x = drain[c].x /\ drain'[c].todo = drain[c].todo
  /\ drain'[c].tries = drain[c].tries

\* And a startup pass is left alone with its sessions.
Alone(c) ==
  Starting(c, drain[c]) =>
    /\ drain'[c] = drain[c]
    /\ \A y \in Sessions : session'[y].state = session[y].state /\ session'[y].fence = session[y].fence

\* A drain that went off, as its server did.
DrainGone(c) == drain'[c] = Off /\ server'[ServerOf[c]].life # "starting"

\* A server ends, or becomes ready with every session under its fence.
ServersAfter ==
  \A s \in Servers :
    /\ server'[s].fence = server[s].fence
    /\ \/ server'[s].life = server[s].life
       \/ server[s].life # "standby" /\ server'[s].life = "closed"
       \/ /\ server[s].life = "starting" /\ server'[s].life = "ready"
          /\ \A y \in Sessions : session'[y].state = "live" => session'[y].fence = token

\* A drain that is left alone is still in order.
LEMMA KeptOK ==
  ASSUME RevocationInv, NEW c \in Drains, DrainKept(c), Alone(c),
         SessionsAfter, token' = token, owner' \in {owner, NoServer},
         server'[ServerOf[c]].fence = server[ServerOf[c]].fence,
         \/ server'[ServerOf[c]].life = server[ServerOf[c]].life
         \/ /\ server[ServerOf[c]].life # "standby"
            /\ server'[ServerOf[c]].life \in {"ready", "closed"},
         \A e \in Events : event[e].state # "none" => event'[e].state # "none" /\ due'[e] \subseteq due[e]
  PROVE  DrainOK(c, drain[c])' /\ DrainCovers(drain[c])' /\ StartupOK(c, drain[c])'
<1>1. DrainOK(c, drain[c]) /\ DrainCovers(drain[c]) /\ StartupOK(c, drain[c]) /\ DueOK
  BY DEF RevocationInv
<1>2. DrainOK(c, drain[c])'
  BY <1>1 DEF DrainKept, DrainOK
<1>3. DrainCovers(drain[c])'
  <2> SUFFICES ASSUME drain'[c].event \in Events
               PROVE  /\ Covers(drain'[c], LeftOf(drain[c].event)')
                      /\ drain'[c].at = "decrypt" => due'[drain'[c].event] = {}
    BY DEF DrainCovers
  <2>1. drain[c].event \in Events /\ event[drain[c].event].state # "none"
    BY <1>1 DEF DrainKept, DrainOK
  <2>2. due'[drain[c].event] \subseteq due[drain[c].event]
    BY <2>1
  <2>3. due[drain[c].event] \subseteq Sessions
    BY <2>1 DEF RevocationInv, TypeOK
  <2>4. ASSUME NEW y \in due[drain[c].event], session'[y].state = "live"
        PROVE  Live(y)
    <3>1. y \in Sessions /\ session[y].state # "none"
      BY <1>1, <2>1, <2>3, <2>4 DEF DueOK
    <3>2. session[y].state \in {"none", "live", "ended"}
      BY <3>1 DEF RevocationInv, TypeOK, SessionRow
    <3> QED
      BY <2>4, <3>1, <3>2 DEF SessionsAfter, Live
  <2>5. LeftOf(drain[c].event)' \subseteq LeftOf(drain[c].event)
    BY <2>2, <2>4 DEF LeftOf, Live, DrainKept
  <2> QED
    BY <1>1, <2>1, <2>2, <2>5 DEF DrainCovers, Covers, DrainKept
<1>4. StartupOK(c, drain[c])'
  <2> SUFFICES ASSUME Starting(c, drain[c])'
               PROVE  Undisturbed(drain'[c], session', token')
    BY DEF StartupOK
  <2>1. Starting(c, drain[c])
    BY DEF Starting, Current, DrainKept
  <2>2. Undisturbed(drain[c], session, token)
    BY <1>1, <2>1 DEF StartupOK
  <2>3. /\ drain'[c] = drain[c]
        /\ \A y \in Sessions : session'[y].state = session[y].state /\ session'[y].fence = session[y].fence
    BY <2>1 DEF Alone
  <2>4. /\ drain[c].todo \subseteq Sessions
        /\ drain[c].at \in InHand => drain[c].x \in Sessions
    BY <1>1 DEF RevocationInv, TypeOK, DrainRow, DrainOK
  <2> QED
    BY <2>2, <2>3, <2>4 DEF Undisturbed
<1> QED
  BY <1>2, <1>3, <1>4

\* A drain that went off is in order.
LEMMA GoneOK ==
  ASSUME NEW c \in Drains, DrainGone(c)
  PROVE  DrainOK(c, drain[c])' /\ DrainCovers(drain[c])' /\ StartupOK(c, drain[c])'
<1>1. drain'[c].at = "off" /\ drain'[c].event = NoEvent /\ NoEvent \notin Events
  BY RevocationAssumption DEF DrainGone, Off
<1>2. DrainOK(c, drain[c])'
  BY <1>1 DEF DrainGone, DrainOK, InHand
<1>3. DrainCovers(drain[c])'
  BY <1>1 DEF DrainCovers
<1>4. StartupOK(c, drain[c])'
  BY DEF DrainGone, StartupOK, Starting
<1> QED
  BY <1>2, <1>3, <1>4

\* Any step but a grant preserves the invariant if it does this.
LEMMA StepPreserves ==
  ASSUME RevocationInv, TypeOK', token' = token, owner' \in {owner, NoServer},
         SessionsAfter, ServersAfter,
         \A r \in Requests :
           \/ RequestOK(r)'
           \/ /\ request'[r].at = request[r].at /\ request'[r].x = request[r].x
              /\ request'[r].fence = request[r].fence,
         \A e \in Events : event[e].state # "none" => event'[e].state # "none" /\ due'[e] \subseteq due[e],
         DueOK', AcknowledgedEnds',
         \A c \in Drains :
           \/ DrainKept(c) /\ Alone(c)
           \/ DrainGone(c)
           \/ DrainOK(c, drain[c])' /\ DrainCovers(drain[c])' /\ StartupOK(c, drain[c])'
  PROVE  RevocationInv'
<1>1. FencesOK'
  BY DEF RevocationInv, FencesOK, SessionsAfter, ServersAfter
<1>2. ASSUME NEW r \in Requests PROVE RequestOK(r)'
  <2>1. CASE /\ request'[r].at = request[r].at /\ request'[r].x = request[r].x
             /\ request'[r].fence = request[r].fence
    <3>1. RequestOK(r)
      BY DEF RevocationInv
    <3> QED
      BY <2>1, <3>1 DEF RequestOK, ServersAfter
  <2> QED
    BY <2>1
<1>3. ASSUME NEW c \in Drains
      PROVE  (DrainOK(c, drain[c]) /\ DrainCovers(drain[c]) /\ StartupOK(c, drain[c]))'
  <2>1. ServerOf[c] \in Servers
    BY TaskPlaces
  <2>2. CASE DrainKept(c) /\ Alone(c)
    BY <2>1, <2>2, KeptOK DEF ServersAfter
  <2> QED
    BY <2>2, GoneOK
<1>4. Adopted'
  <2> SUFFICES ASSUME NEW s \in Servers, server'[s].life = "ready", Current(server[s].fence)',
                      NEW y \in Sessions, session'[y].state = "live"
               PROVE  session'[y].fence = token
    BY DEF Adopted, Serves, Live
  <2>1. Current(server[s].fence)
    BY DEF Current, ServersAfter
  <2>2. CASE server[s].life = "ready"
    BY <2>1, <2>2 DEF RevocationInv, Adopted, Serves, SessionsAfter
  <2>3. CASE server[s].life # "ready"
    BY <2>3 DEF ServersAfter
  <2> QED
    BY <2>2, <2>3
<1> QED
  BY <1>1, <1>2, <1>3, <1>4 DEF RevocationInv

\* Revocations, as long as rights are left alone and none is appended or acknowledged.
LEMMA DueKept ==
  ASSUME RevocationInv, SessionsAfter, right' = right, due' = due,
         \A e \in Events : event'[e].state = event[e].state /\ event'[e].forced = event[e].forced
  PROVE  /\ DueOK' /\ AcknowledgedEnds'
         /\ \A e \in Events : event[e].state # "none" => event'[e].state # "none" /\ due'[e] \subseteq due[e]
<1>1. \A e \in Events : due[e] \subseteq Sessions
  BY DEF RevocationInv, TypeOK
<1>2. DueOK'
  BY <1>1 DEF RevocationInv, DueOK, SessionsAfter
<1>3. AcknowledgedEnds'
  BY <1>1 DEF RevocationInv, AcknowledgedEnds, SessionsAfter
<1> QED
  BY <1>2, <1>3

\* Sessions that nobody writes to.
LEMMA SessionsKept ==
  ASSUME RevocationInv, session' = session
  PROVE  SessionsAfter
BY DEF RevocationInv, FencesOK, SessionsAfter, Live

\* A session is added or changed by a request, with the fence of the row.
LEMMA InsertStep ==
  ASSUME RevocationInv, NEW r \in Requests, Insert(r)
  PROVE  RevocationInv'
<1> DEFINE unused == {x \in Sessions : session[x].state = "none"}
           x == First(unused)
           row == [state |-> "live", fence |-> request[r].fence, expired |-> FALSE]
<1>1. /\ request[r].at = "create" /\ Current(request[r].fence) /\ unused # {}
      /\ session' = [session EXCEPT ![x] = row]
      /\ request' = [request EXCEPT ![r] = IdleRequest]
      /\ token' = token /\ owner' = owner /\ right' = right /\ event' = event /\ due' = due
      /\ server' = server /\ drain' = drain
  BY DEF Insert, rows
<1>2. x \in Sessions /\ session[x].state = "none"
  BY <1>1, FirstIsIn, Numbers
<1> HIDE DEF unused, x
<1>3. request[r].fence = token /\ token \in 0..MaxFence /\ token \in Nat
  BY <1>1, FencedLeaseAssumption DEF Current, RevocationInv, TypeOK, LeaseTypeOK
<1>4. TypeOK'
  <2>1. row \in SessionRow
    BY <1>3 DEF SessionRow
  <2> QED
    BY <1>1, <2>1, Blanks DEF RevocationInv, TypeOK, LeaseTypeOK
<1>5. \A y \in Sessions : session'[y] = IF y = x THEN row ELSE session[y]
  BY <1>1 DEF RevocationInv, TypeOK
<1>6. SessionsAfter
  BY <1>2, <1>3, <1>5 DEF SessionsAfter, RevocationInv, FencesOK, Live
<1>7. \A q \in Requests : RequestOK(q)' \/ request'[q] = request[q]
  BY <1>1 DEF RequestOK, IdleRequest, RevocationInv, TypeOK
<1>8. \A c \in Drains : DrainKept(c) /\ Alone(c)
  BY <1>1, NoRequestDuringStartup DEF DrainKept, Alone
<1> QED
  BY <1>1, <1>4, <1>6, <1>7, <1>8, DueKept, StepPreserves DEF ServersAfter

\* What a write does to the snapshots of others.
LEMMA Snapshots ==
  ASSUME RevocationInv, NEW written
  PROVE  /\ RequestsAfter(written) \in [Requests -> RequestRow]
         /\ \A r \in Requests :
              /\ RequestsAfter(written)[r].at = request[r].at
              /\ RequestsAfter(written)[r].x = request[r].x
              /\ RequestsAfter(written)[r].fence = request[r].fence
         /\ DrainsAfter(written) \in [Drains -> DrainRow]
         /\ \A c \in Drains :
              LET row == DrainsAfter(written)[c]
              IN /\ row.at = drain[c].at /\ row.handler = drain[c].handler
                 /\ row.event = drain[c].event /\ row.fence = drain[c].fence
                 /\ row.x = drain[c].x /\ row.todo = drain[c].todo /\ row.tries = drain[c].tries
<1>1. \A r \in Requests : request[r] \in RequestRow
  BY DEF RevocationInv, TypeOK
<1>2. \A c \in Drains : drain[c] \in DrainRow
  BY DEF RevocationInv, TypeOK
<1>3. /\ RequestsAfter(written) \in [Requests -> RequestRow]
      /\ \A r \in Requests :
              /\ RequestsAfter(written)[r].at = request[r].at
              /\ RequestsAfter(written)[r].x = request[r].x
              /\ RequestsAfter(written)[r].fence = request[r].fence
  BY <1>1 DEF RequestsAfter, RequestRow
<1>4. ASSUME NEW c \in Drains
      PROVE  /\ DrainsAfter(written)[c] \in DrainRow
             /\ LET row == DrainsAfter(written)[c]
                IN /\ row.at = drain[c].at /\ row.handler = drain[c].handler
                   /\ row.event = drain[c].event /\ row.fence = drain[c].fence
                   /\ row.x = drain[c].x /\ row.todo = drain[c].todo /\ row.tries = drain[c].tries
  BY <1>2 DEF DrainsAfter, DrainRow
<1>5. DrainsAfter(written) \in [Drains -> DrainRow]
  BY <1>4 DEF DrainsAfter
<1> QED
  BY <1>3, <1>4, <1>5

\* A request changes or ends its session.
LEMMA ChangeStep ==
  ASSUME RevocationInv, NEW r \in Requests, Change(r)
  PROVE  RevocationInv'
<1> DEFINE x == request[r].x
           row == IF request[r].at = "end" THEN EndedRow
                  ELSE [session[x] EXCEPT !.expired = @ /\ request[r].at = "touch"]
<1>1. /\ request[r].at \in {"beat", "end", "touch"}
      /\ Current(request[r].fence) /\ session[x].fence = request[r].fence
      /\ session' = [session EXCEPT ![x] = row]
      /\ request' = [RequestsAfter({x}) EXCEPT ![r] = IdleRequest]
      /\ drain' = DrainsAfter({x})
      /\ token' = token /\ owner' = owner /\ right' = right /\ event' = event /\ due' = due
      /\ server' = server
  BY DEF Change, rows
<1>2. x \in Sessions
  BY <1>1 DEF RevocationInv, RequestOK
<1>3. session[x] \in SessionRow /\ token \in 0..MaxFence /\ token \in Nat
  BY <1>2, FencedLeaseAssumption DEF RevocationInv, TypeOK, LeaseTypeOK
<1>4. /\ row \in SessionRow
      /\ \/ row = EndedRow
         \/ row.state = session[x].state /\ row.fence = session[x].fence
  BY <1>3, Blanks DEF SessionRow
<1> HIDE DEF row, x
<1>5. TypeOK'
  BY <1>1, <1>2, <1>4, Blanks, Snapshots DEF RevocationInv, TypeOK, LeaseTypeOK
<1>6. \A y \in Sessions : session'[y] = IF y = x THEN row ELSE session[y]
  BY <1>1 DEF RevocationInv, TypeOK
<1>7. SessionsAfter
  <2>1. /\ EndedRow.state = "ended" /\ EndedRow.fence = 0
    BY DEF EndedRow
  <2>2. session[x].fence = token
    BY <1>1 DEF Current
  <2> QED
    BY <1>2, <1>3, <1>4, <1>6, <2>1, <2>2 DEF SessionsAfter, RevocationInv, FencesOK, Live
<1>8. ASSUME NEW q \in Requests
      PROVE  \/ RequestOK(q)'
             \/ /\ request'[q].at = request[q].at /\ request'[q].x = request[q].x
                /\ request'[q].fence = request[q].fence
  BY <1>1, Snapshots DEF RequestOK, IdleRequest
<1>9. \A c \in Drains : DrainKept(c) /\ Alone(c)
  BY <1>1, Snapshots, NoRequestDuringStartup DEF DrainKept, Alone
<1> QED
  BY <1>1, <1>5, <1>7, <1>8, <1>9, DueKept, StepPreserves DEF ServersAfter

\* A request begins or ends, and nothing else happens.
LEMMA RequestStep ==
  ASSUME RevocationInv, NEW r \in Requests, NEW row \in RequestRow,
         request' = [request EXCEPT ![r] = row],
         UNCHANGED <<rows, server, session, drain>>,
         row.at # "idle" =>
           /\ \E s \in Servers : Serves(s) /\ row.fence = server[s].fence
           /\ row.at # "create" => row.x \in Sessions
  PROVE  RevocationInv'
<1>1. /\ token' = token /\ owner' = owner /\ right' = right /\ event' = event /\ due' = due
      /\ server' = server /\ session' = session /\ drain' = drain
  BY DEF rows
<1>2. TypeOK'
  BY <1>1 DEF RevocationInv, TypeOK, LeaseTypeOK
<1>3. \A q \in Requests : request'[q] = IF q = r THEN row ELSE request[q]
  BY DEF RevocationInv, TypeOK
<1>4. RequestOK(r)'
  BY <1>1, <1>3 DEF RequestOK, Serves
<1>5. \A c \in Drains : DrainKept(c) /\ Alone(c)
  BY <1>1 DEF DrainKept, Alone
<1> QED
  BY <1>1, <1>2, <1>3, <1>4, <1>5, SessionsKept, DueKept, StepPreserves DEF ServersAfter

\* What a request looks at first, and its refusal.
LEMMA BeginCreateStep ==
  ASSUME RevocationInv, NEW r \in Requests, NEW s \in Servers, BeginCreate(r, s)
  PROVE  RevocationInv'
<1> DEFINE row == [IdleRequest EXCEPT !.at = "create", !.fence = server[s].fence]
<1>1. server[s].fence \in 0..MaxFence
  BY DEF RevocationInv, TypeOK, ServerRow
<1>2. row \in RequestRow /\ row.at = "create" /\ row.fence = server[s].fence
  BY <1>1, Blanks DEF RequestRow, IdleRequest
<1>3. request' = [request EXCEPT ![r] = row] /\ UNCHANGED <<rows, server, session, drain>> /\ Serves(s)
  BY DEF BeginCreate
<1> HIDE DEF row
<1> QED
  BY <1>2, <1>3, RequestStep

LEMMA BeginChangeStep ==
  ASSUME RevocationInv, NEW r \in Requests, NEW s \in Servers, NEW x \in Sessions,
         NEW kind \in {"beat", "end", "touch"}, BeginChange(r, s, x, kind)
  PROVE  RevocationInv'
<1> DEFINE row == [at |-> kind, x |-> x, fence |-> server[s].fence, fresh |-> TRUE]
<1>1. server[s].fence \in 0..MaxFence
  BY DEF RevocationInv, TypeOK, ServerRow
<1>2. row \in RequestRow /\ row.x = x /\ row.fence = server[s].fence
  BY <1>1 DEF RequestRow
<1>3. request' = [request EXCEPT ![r] = row] /\ UNCHANGED <<rows, server, session, drain>> /\ Serves(s)
  BY DEF BeginChange
<1> HIDE DEF row
<1> QED
  BY <1>2, <1>3, RequestStep

LEMMA RefuseStep ==
  ASSUME RevocationInv, NEW r \in Requests, Refuse(r)
  PROVE  RevocationInv'
<1>1. IdleRequest.at = "idle"
  BY DEF IdleRequest
<1> QED
  BY <1>1, Blanks, RequestStep DEF Refuse

\* A drain with the row's fence writes to sessions.
LEMMA WriteStep ==
  ASSUME RevocationInv, NEW d \in Drains, drain[d].at # "off", Current(drain[d].fence),
         NEW written, NEW row \in DrainRow,
         session' \in [Sessions -> SessionRow], SessionsAfter,
         request' = RequestsAfter(written),
         drain' = [DrainsAfter(written) EXCEPT ![d] = row],
         server' \in [Servers -> ServerRow], ServersAfter,
         UNCHANGED rows,
         DrainOK(d, drain[d])', DrainCovers(drain[d])', StartupOK(d, drain[d])'
  PROVE  RevocationInv'
<1>1. token' = token /\ owner' = owner /\ right' = right /\ event' = event /\ due' = due
  BY DEF rows
<1>2. TypeOK'
  BY <1>1, Snapshots DEF RevocationInv, TypeOK, LeaseTypeOK
<1>3. \A r \in Requests : /\ request'[r].at = request[r].at /\ request'[r].x = request[r].x
                          /\ request'[r].fence = request[r].fence
  BY Snapshots
<1>4. ASSUME NEW c \in Drains, c # d PROVE DrainKept(c) /\ Alone(c)
  <2>1. drain'[c] = DrainsAfter(written)[c]
    BY <1>4, Snapshots
  <2> QED
    BY <1>4, <2>1, Snapshots, NoDrainDuringStartup DEF DrainKept, Alone
<1> QED
  BY <1>1, <1>2, <1>3, <1>4, DueKept, StepPreserves

\* A session is adopted.
LEMMA AdoptStep ==
  ASSUME RevocationInv, NEW d \in Drains, Adopt(d)
  PROVE  RevocationInv'
<1> DEFINE x == drain[d].x
           f == drain[d].fence
<1>1. /\ drain[d].at = "adopt" /\ drain[d] \in DrainRow /\ DrainOK(d, drain[d])
      /\ DrainCovers(drain[d]) /\ StartupOK(d, drain[d])
  BY DEF RevocationInv, TypeOK, Adopt
<1>2. x \in Sessions
  BY <1>1 DEF DrainOK, InHand
<1>3. Starting(d, drain[d]) => Current(f) /\ Live(x) /\ x \in drain[d].fresh
  BY <1>1 DEF StartupOK, Starting, Undisturbed, InHand, Live
<1>4. CASE (~ Current(f) \/ ~ Live(x)) /\ Fail(d)
  BY <1>1, <1>3, <1>4, FailStep
<1>5. CASE x \notin drain[d].fresh /\ Move(d, [drain[d] EXCEPT !.at = "reload"])
  BY <1>1, <1>3, <1>5, SameListStep DEF InHand
<1>6. CASE /\ Current(f) /\ Live(x)
           /\ session' = [session EXCEPT ![x].fence = f]
           /\ request' = RequestsAfter({x})
           /\ drain' = [DrainsAfter({x}) EXCEPT ![d] = [drain[d] EXCEPT !.at = "check", !.seen[x] = f]]
           /\ UNCHANGED <<rows, server>>
  <2> DEFINE row == [drain[d] EXCEPT !.at = "check", !.seen[x] = f]
  <2>1. /\ token' = token /\ owner' = owner /\ right' = right /\ event' = event /\ due' = due
        /\ server' = server
    BY <1>6 DEF rows
  <2>2. f = token /\ f \in 0..MaxFence /\ f \in Nat /\ session[x] \in SessionRow
    BY <1>2, <1>6, FencedLeaseAssumption DEF Current, RevocationInv, TypeOK, LeaseTypeOK
  <2>3. /\ row \in DrainRow /\ row.at = "check" /\ row.fence = f /\ row.event = drain[d].event
        /\ row.handler = drain[d].handler /\ row.x = x /\ row.todo = drain[d].todo
        /\ row.fresh = drain[d].fresh /\ row.tries = drain[d].tries
        /\ \A y \in Sessions : row.seen[y] = IF y = x THEN f ELSE drain[d].seen[y]
    BY <1>1, <1>2, <2>2 DEF DrainRow
  <2>4. /\ session' \in [Sessions -> SessionRow]
        /\ \A y \in Sessions : /\ session'[y].state = session[y].state
                               /\ session'[y].fence = IF y = x THEN f ELSE session[y].fence
    BY <1>2, <1>6, <2>2 DEF RevocationInv, TypeOK, SessionRow
  <2>5. drain' = [DrainsAfter({x}) EXCEPT ![d] = row] /\ drain'[d] = row
    BY <1>6, Snapshots
  <2> HIDE DEF row, x, f
  <2>6. SessionsAfter
    BY <2>2, <2>4 DEF SessionsAfter, RevocationInv, FencesOK, Live
  <2>7. DrainOK(d, drain[d])'
    <3>1. DrainOK(d, row)
      BY <1>1, <2>3, NextRowOK DEF DrainOK, InHand, x, f
    <3> QED
      BY <2>1, <2>5, <3>1 DEF DrainOK
  <2>8. DrainCovers(drain[d])'
    <3> SUFFICES ASSUME row.event \in Events
                 PROVE  Covers(row, LeftOf(drain[d].event)')
      BY <2>3, <2>5 DEF DrainCovers
    <3>1. LeftOf(drain[d].event) \subseteq drain[d].todo \cup {x}
      BY <1>1, <2>3 DEF DrainCovers, Covers, InHand, x
    <3>2. due[drain[d].event] \subseteq Sessions
      BY <2>3 DEF RevocationInv, TypeOK
    <3>3. LeftOf(drain[d].event)' = LeftOf(drain[d].event)
      BY <2>1, <2>3, <2>4, <2>5, <3>2 DEF LeftOf, Live
    <3> QED
      BY <2>3, <3>1, <3>3 DEF Covers
  <2>9. StartupOK(d, drain[d])'
    <3> SUFFICES ASSUME Starting(d, drain[d])'
                 PROVE  Undisturbed(row, session', token)
      BY <2>1, <2>5 DEF StartupOK
    <3>1. Starting(d, drain[d])
      BY <2>1, <2>3, <2>5 DEF Starting, Current, f
    <3>2. Undisturbed(drain[d], session, token) /\ drain[d].at = "adopt"
      BY <1>1, <3>1 DEF StartupOK
    <3>3. drain[d].todo \subseteq Sessions
      BY <1>1 DEF DrainRow
    <3>4. /\ x \notin drain[d].todo
          /\ \A y \in drain[d].todo \cup {x} :
               session[y].state = "live" /\ y \in drain[d].fresh /\ drain[d].seen[y] = session[y].fence
          /\ \A y \in Sessions : session[y].state = "live" /\ session[y].fence # token =>
               y \in drain[d].todo \cup {x}
      BY <3>2 DEF Undisturbed, InHand, x
    <3> QED
      BY <1>2, <2>2, <2>3, <2>4, <3>3, <3>4 DEF Undisturbed, InHand
  <2>10. ServersAfter /\ server' \in [Servers -> ServerRow]
    BY <2>1 DEF ServersAfter, RevocationInv, TypeOK
  <2> QED
    BY <1>1, <1>6, <2>3, <2>4, <2>5, <2>6, <2>7, <2>8, <2>9, <2>10, WriteStep DEF f
<1> QED
  BY <1>4, <1>5, <1>6 DEF Adopt

\* A session is ended.
LEMMA TerminateStep ==
  ASSUME RevocationInv, NEW d \in Drains, Terminate(d)
  PROVE  RevocationInv'
<1> DEFINE x == drain[d].x
           f == drain[d].fence
<1>1. /\ drain[d].at = "end" /\ drain[d] \in DrainRow /\ DrainOK(d, drain[d])
      /\ DrainCovers(drain[d]) /\ StartupOK(d, drain[d])
  BY DEF RevocationInv, TypeOK, Terminate
<1>2. x \in Sessions
  BY <1>1 DEF DrainOK, InHand
<1>3. Starting(d, drain[d]) =>
        Current(f) /\ Live(x) /\ x \in drain[d].fresh /\ session[x].fence = f
  BY <1>1 DEF StartupOK, Starting, Current, Undisturbed, InHand, Live
<1>4. drain[d].event \in Events => LeftOf(drain[d].event) \subseteq drain[d].todo \cup {x}
  BY <1>1 DEF DrainCovers, Covers, InHand
<1>5. CASE (~ Current(f) \/ (Live(x) /\ session[x].fence # f)) /\ Fail(d)
  BY <1>1, <1>3, <1>5, FailStep
<1>6. CASE ~ Live(x) /\ Move(d, Proceed(drain[d]))
  <2>1. drain[d].event \in Events => LeftOf(drain[d].event) \subseteq drain[d].todo
    BY <1>4, <1>6 DEF LeftOf
  <2> QED
    BY <1>1, <1>3, <1>6, <2>1, ProceedStep
<1>7. CASE x \notin drain[d].fresh /\ Move(d, [drain[d] EXCEPT !.at = "reload"])
  BY <1>1, <1>3, <1>7, SameListStep DEF InHand
<1>8. CASE /\ Current(f) /\ Live(x)
           /\ session' = [session EXCEPT ![x] = EndedRow]
           /\ request' = RequestsAfter({x})
           /\ drain' = [DrainsAfter({x}) EXCEPT ![d] = Proceed(drain[d])]
           /\ UNCHANGED <<rows, server>>
  <2>1. /\ token' = token /\ owner' = owner /\ right' = right /\ event' = event /\ due' = due
        /\ server' = server
    BY <1>8 DEF rows
  <2>2. f = token /\ token \in Nat
    BY <1>8, FencedLeaseAssumption DEF Current, RevocationInv, TypeOK, LeaseTypeOK
  <2>3. /\ session' \in [Sessions -> SessionRow]
        /\ session'[x].state = "ended" /\ session'[x].fence = 0
        /\ \A y \in Sessions \ {x} : session'[y] = session[y]
    BY <1>2, <1>8, Blanks DEF EndedRow, RevocationInv, TypeOK
  <2>4. drain'[d] = Proceed(drain[d])
    BY <1>8, Snapshots
  <2> HIDE DEF x, f
  <2>5. SessionsAfter
    BY <2>2, <2>3 DEF SessionsAfter, RevocationInv, FencesOK, Live
  <2>6. DrainOK(d, Proceed(drain[d])) /\ Proceed(drain[d]) \in DrainRow
    BY <1>1, ProceedRowOK
  <2>7. DrainOK(d, drain[d])'
    BY <2>1, <2>4, <2>6 DEF DrainOK
  <2>8. DrainCovers(drain[d])'
    <3> SUFFICES ASSUME drain[d].event \in Events
                 PROVE  /\ Covers(Proceed(drain[d]), LeftOf(drain[d].event)')
                        /\ Proceed(drain[d]).at # "decrypt"
      BY <1>1, <2>4, ProceedShape DEF DrainCovers
    <3>1. due[drain[d].event] \subseteq Sessions
      BY DEF RevocationInv, TypeOK
    <3>2. drain'[d].event = drain[d].event
      BY <1>1, <2>4, ProceedShape
    <3>3. LeftOf(drain[d].event)' \subseteq LeftOf(drain[d].event) \ {x}
      BY <2>1, <2>3, <3>1, <3>2 DEF LeftOf, Live
    <3>4. LeftOf(drain[d].event)' \subseteq drain[d].todo
      BY <1>4, <3>3
    <3> QED
      BY <1>1, <3>4, ProceedCovers
  <2>9. StartupOK(d, drain[d])'
    <3> SUFFICES ASSUME Starting(d, drain[d])'
                 PROVE  Undisturbed(Proceed(drain[d]), session', token)
      BY <2>1, <2>4 DEF StartupOK
    <3>1. Starting(d, drain[d])
      BY <1>1, <2>1, <2>4, ProceedShape DEF Starting, Current
    <3>2. Undisturbed(drain[d], session, token)
      BY <1>1, <3>1 DEF StartupOK
    <3>3. drain[d].todo \subseteq Sessions /\ drain[d].fence = token
      BY <1>1, <2>2 DEF DrainRow, f
    <3>4. /\ x \notin drain[d].todo
          /\ \A y \in drain[d].todo \cup {x} :
               session[y].state = "live" /\ y \in drain[d].fresh /\ drain[d].seen[y] = session[y].fence
          /\ \A y \in Sessions : session[y].state = "live" /\ session[y].fence # token =>
               y \in drain[d].todo \cup {x}
      BY <1>1, <3>2 DEF Undisturbed, InHand, x
    <3>5. \A y \in Sessions : session'[y].fence <= token
      BY <2>5 DEF SessionsAfter
    <3>6. \A y \in drain[d].todo :
            session'[y].state = "live" /\ y \in drain[d].fresh /\ drain[d].seen[y] = session'[y].fence
      BY <2>3, <3>3, <3>4
    <3>7. \A y \in Sessions : session'[y].state = "live" /\ session'[y].fence # token => y \in drain[d].todo
      BY <2>3, <3>4
    <3> QED
      BY <1>1, <2>2, <2>3, <3>3, <3>5, <3>6, <3>7, ProceedUndisturbed
  <2>10. ServersAfter /\ server' \in [Servers -> ServerRow]
    BY <2>1 DEF ServersAfter, RevocationInv, TypeOK
  <2> QED
    BY <1>1, <1>8, <2>3, <2>5, <2>6, <2>7, <2>8, <2>9, <2>10, WriteStep DEF f
<1> QED
  BY <1>5, <1>6, <1>7, <1>8 DEF Terminate

\* The end of a startup pass: what it ends had its fence, as all the others have.
LEMMA CleanupStep ==
  ASSUME RevocationInv, NEW d \in Drains, drain[d].at = "claim",
         server[ServerOf[d]].life = "starting", Cleanup(d)
  PROVE  RevocationInv'
<1> DEFINE s == ServerOf[d]
<1>1. PICK ends \in SUBSET {x \in Sessions : Live(x)} :
        /\ session' = [x \in Sessions |-> IF x \in ends THEN EndedRow ELSE session[x]]
        /\ request' = RequestsAfter(ends)
        /\ drain' = [DrainsAfter(ends) EXCEPT ![d] = Rests(d)]
  BY DEF Cleanup
<1>2. /\ Current(drain[d].fence) /\ server' = [server EXCEPT ![s].life = "ready"]
      /\ UNCHANGED rows /\ token' = token
  BY DEF Cleanup, rows
<1>3. s \in Servers /\ DrainOK(d, drain[d]) /\ StartupOK(d, drain[d])
  BY TaskPlaces DEF RevocationInv
<1>4. Starting(d, drain[d])
  BY <1>2, <1>3 DEF Starting, DrainOK
<1>5. \A y \in Sessions : Live(y) => session[y].fence = token
  BY <1>3, <1>4 DEF StartupOK, Undisturbed, InHand, Live
<1>6. token \in Nat
  BY FencedLeaseAssumption DEF RevocationInv, TypeOK, LeaseTypeOK
<1>7. /\ session' \in [Sessions -> SessionRow]
      /\ \A y \in Sessions :
           \/ Live(y) /\ session'[y].state = "ended" /\ session'[y].fence = 0
           \/ session'[y] = session[y]
  BY <1>1, Blanks DEF EndedRow, RevocationInv, TypeOK
<1>8. SessionsAfter
  BY <1>6, <1>7 DEF SessionsAfter, RevocationInv, FencesOK, Live
<1>9. /\ server' \in [Servers -> ServerRow] /\ server'[s].life = "ready"
      /\ server'[s].fence = server[s].fence
      /\ \A q \in Servers \ {s} : server'[q] = server[q]
  BY <1>2, <1>3 DEF RevocationInv, TypeOK, ServerRow
<1>10. ServersAfter
  BY <1>5, <1>7, <1>9 DEF ServersAfter, Live
<1>11. drain'[d] = Rests(d)
  BY <1>1, Snapshots
<1>12. DrainOK(d, drain[d])'
  BY <1>3, <1>9, <1>11, RestsShape, RevocationAssumption DEF DrainOK, InHand
<1>13. DrainCovers(drain[d])'
  BY <1>11, RestsShape, RevocationAssumption DEF DrainCovers
<1>14. StartupOK(d, drain[d])'
  BY <1>9 DEF StartupOK, Starting
<1> QED
  BY <1>1, <1>2, <1>7, <1>8, <1>9, <1>10, <1>12, <1>13, <1>14, RestsShape, WriteStep

\* Nothing is left to claim.
LEMMA NothingToClaimStep ==
  ASSUME RevocationInv, NEW d \in Drains, NothingToClaim(d)
  PROVE  RevocationInv'
<1> DEFINE starts == ~ drain[d].handler /\ server[ServerOf[d]].life = "starting"
<1>1. drain[d].at = "claim"
  BY DEF NothingToClaim
<1>2. CASE ~ starts /\ Move(d, Rests(d))
  BY <1>1, <1>2, RestStep
<1>3. CASE ~ Current(drain[d].fence) /\ Fail(d)
  BY <1>1, <1>3, FailStep DEF Starting
<1>4. CASE starts /\ Cleanup(d)
  BY <1>1, <1>4, CleanupStep
<1> QED
  BY <1>2, <1>3, <1>4 DEF NothingToClaim

(***************************************************************************)
(* Revocations                                                             *)
(***************************************************************************)

\* A step of a drain, or of none, that writes to revocations only.
LEMMA EventStep ==
  ASSUME RevocationInv, NEW d \in Drains, NEW row \in DrainRow,
         drain' = [drain EXCEPT ![d] = row],
         event' \in [Events -> EventRow],
         \A e \in Events : event[e].state # "none" => event'[e].state # "none",
         DueOK', AcknowledgedEnds',
         UNCHANGED <<token, owner, right, due, server, session, request>>,
         DrainOK(d, drain[d])', DrainCovers(drain[d])', StartupOK(d, row)
  PROVE  RevocationInv'
<1>1. /\ token' = token /\ owner' = owner /\ right' = right /\ due' = due
      /\ server' = server /\ session' = session /\ request' = request
  OBVIOUS
<1>2. TypeOK'
  BY <1>1 DEF RevocationInv, TypeOK, LeaseTypeOK
<1>3. \A c \in Drains : drain'[c] = IF c = d THEN row ELSE drain[c]
  BY DEF RevocationInv, TypeOK
<1>4. \A c \in Drains \ {d} : DrainKept(c) /\ Alone(c)
  BY <1>1, <1>3 DEF DrainKept, Alone
<1>5. StartupOK(d, drain[d])'
  <2>1. drain'[d] = row
    BY <1>3
  <2> QED
    BY <1>1, <2>1 DEF StartupOK, Starting, Current
<1> QED
  BY <1>1, <1>2, <1>4, <1>5, SessionsKept, StepPreserves DEF ServersAfter

\* A revocation is claimed.
LEMMA ClaimStep ==
  ASSUME RevocationInv, NEW d \in Drains, Claim(d)
  PROVE  RevocationInv'
<1> DEFINE open == {e \in Events : Claimable(e)}
           e == First(open)
           row == [drain[d] EXCEPT !.at = "list", !.event = e]
<1>1. /\ drain[d].at = "claim" /\ open # {}
      /\ event' = [event EXCEPT ![e].claim = ServerOf[d], ![e].late = FALSE]
      /\ drain' = [drain EXCEPT ![d].at = "list", ![d].event = e]
      /\ UNCHANGED <<token, owner, right, due, server, session, request>>
  BY DEF Claim
<1>2. e \in Events /\ event[e].state = "pending"
  BY <1>1, FirstIsIn, Numbers DEF Claimable
<1> HIDE DEF open, e
<1>3. /\ drain[d] \in DrainRow /\ DrainOK(d, drain[d]) /\ StartupOK(d, drain[d])
      /\ ServerOf[d] \in Servers
  BY TaskPlaces DEF RevocationInv, TypeOK
<1>4. drain' = [drain EXCEPT ![d] = row]
  BY <1>1, <1>3 DEF RevocationInv, TypeOK, DrainRow
<1>5. /\ row \in DrainRow /\ row.at = "list" /\ row.event = e /\ row.fence = drain[d].fence
      /\ row.handler = drain[d].handler
  BY <1>2, <1>3 DEF DrainRow
<1>6. /\ event' \in [Events -> EventRow]
      /\ \A f \in Events : event'[f].state = event[f].state /\ event'[f].forced = event[f].forced
  BY <1>1, <1>2, <1>3 DEF RevocationInv, TypeOK, EventRow
<1> HIDE DEF row
<1>7. SessionsAfter
  BY <1>1, SessionsKept
<1>8. drain'[d] = row
  BY <1>4 DEF RevocationInv, TypeOK
<1>9. DrainOK(d, drain[d])'
  BY <1>1, <1>2, <1>3, <1>5, <1>6, <1>8 DEF DrainOK, InHand
<1>10. DrainCovers(drain[d])'
  BY <1>5, <1>8 DEF DrainCovers, Covers, InHand
<1>11. StartupOK(d, row)
  BY <1>1, <1>3, <1>5 DEF StartupOK, Starting, Undisturbed, InHand
<1> QED
  BY <1>1, <1>4, <1>5, <1>6, <1>7, <1>9, <1>10, <1>11, DueKept, EventStep

\* A handler begins to drain: its server is ready.
LEMMA HandlerDrainStep ==
  ASSUME RevocationInv, NEW d \in Drains, NEW e \in Events, HandlerDrain(d, e)
  PROVE  RevocationInv'
<1> DEFINE row == [Off EXCEPT !.at = "claim", !.handler = TRUE, !.fence = server[ServerOf[d]].fence]
<1>1. /\ Serves(ServerOf[d])
      /\ event' = [event EXCEPT ![e].handled = TRUE]
      /\ drain' = [drain EXCEPT ![d] = row]
      /\ UNCHANGED <<token, owner, right, due, server, session, request>>
  BY DEF HandlerDrain
<1>2. ServerOf[d] \in Servers /\ server[ServerOf[d]].fence \in 0..MaxFence
  BY TaskPlaces DEF RevocationInv, TypeOK, ServerRow
<1>3. /\ row \in DrainRow /\ row.at = "claim" /\ row.event = NoEvent
      /\ row.fence = server[ServerOf[d]].fence
  BY <1>2, Blanks DEF DrainRow, Off
<1>4. /\ event' \in [Events -> EventRow]
      /\ \A f \in Events : event'[f].state = event[f].state /\ event'[f].forced = event[f].forced
  BY <1>1 DEF RevocationInv, TypeOK, EventRow
<1> HIDE DEF row
<1>5. SessionsAfter
  BY <1>1, SessionsKept
<1>6. drain'[d] = row
  BY <1>1 DEF RevocationInv, TypeOK
<1>7. DrainOK(d, drain[d])'
  BY <1>1, <1>3, <1>6, RevocationAssumption DEF DrainOK, InHand, Serves
<1>8. DrainCovers(drain[d])'
  BY <1>3, <1>6, RevocationAssumption DEF DrainCovers
<1>9. StartupOK(d, row)
  BY <1>1 DEF StartupOK, Starting, Serves
<1> QED
  BY <1>1, <1>3, <1>4, <1>5, <1>7, <1>8, <1>9, DueKept, EventStep

\* A revocation is acknowledged: nothing of it was left.
LEMMA AcknowledgedStep ==
  ASSUME RevocationInv, NEW d \in Drains, drain[d].at = "ack", Holds(d),
         event' = [event EXCEPT ![drain[d].event] =
                     [@ EXCEPT !.state = "acknowledged", !.claim = NoServer, !.late = FALSE]],
         drain' = [drain EXCEPT ![d].at = "claim", ![d].event = NoEvent],
         UNCHANGED <<token, owner, right, due, server, session, request>>
  PROVE  RevocationInv'
<1> DEFINE e == drain[d].event
           row == [drain[d] EXCEPT !.at = "claim", !.event = NoEvent]
<1>1. /\ drain[d] \in DrainRow /\ DrainOK(d, drain[d]) /\ DrainCovers(drain[d])
      /\ StartupOK(d, drain[d]) /\ event \in [Events -> EventRow]
  BY DEF RevocationInv, TypeOK
<1>2. e \in Events /\ event[e].state = "pending"
  BY DEF Holds
<1>3. drain' = [drain EXCEPT ![d] = row] /\ drain'[d] = row
  BY DEF RevocationInv, TypeOK, DrainRow
<1>4. /\ row \in DrainRow /\ row.at = "claim" /\ row.event = NoEvent
      /\ row.fence = drain[d].fence /\ row.handler = drain[d].handler
  BY <1>1 DEF DrainRow
<1>5. LeftOf(e) = {}
  BY <1>1, <1>2 DEF DrainCovers, Covers
<1> HIDE DEF row, e
<1>6. /\ event' \in [Events -> EventRow]
      /\ event'[e].state = "acknowledged" /\ event'[e].forced = event[e].forced
      /\ \A f \in Events \ {e} : event'[f] = event[f]
  BY <1>1, <1>2 DEF EventRow, e
<1>7. \A x \in due[e] : session[x].state = "ended"
  <2>1. due[e] \subseteq Sessions /\ \A x \in due[e] : session[x].state # "none"
    BY <1>2 DEF RevocationInv, TypeOK, DueOK
  <2>2. \A x \in Sessions : session[x].state \in {"none", "live", "ended"}
    BY DEF RevocationInv, TypeOK, SessionRow
  <2> QED
    BY <1>5, <2>1, <2>2 DEF LeftOf, Live
<1>8. DueOK'
  BY <1>2, <1>6 DEF RevocationInv, DueOK
<1>9. AcknowledgedEnds'
  BY <1>6, <1>7 DEF RevocationInv, AcknowledgedEnds
<1>10. DrainOK(d, drain[d])'
  BY <1>1, <1>3, <1>4, RevocationAssumption DEF DrainOK, InHand
<1>11. DrainCovers(drain[d])'
  BY <1>3, <1>4, RevocationAssumption DEF DrainCovers
<1>12. StartupOK(d, row)
  BY <1>1, <1>4 DEF StartupOK, Starting, Undisturbed, InHand
<1>13. \A f \in Events : event[f].state # "none" => event'[f].state # "none"
  BY <1>6
<1> QED
  BY <1>3, <1>4, <1>6, <1>8, <1>9, <1>10, <1>11, <1>12, <1>13, EventStep

\* A drain ends with an error; that of a startup pass ends its server.
LEMMA EndsFailedStep ==
  ASSUME RevocationInv, NEW d \in Drains, drain[d].at # "off", EndsFailed(d),
         event' \in [Events -> EventRow],
         \A e \in Events : event'[e].state = event[e].state /\ event'[e].forced = event[e].forced
  PROVE  RevocationInv'
<1> DEFINE s == ServerOf[d]
<1>1. /\ drain' = [drain EXCEPT ![d] = Off]
      /\ right' = right /\ due' = due /\ session' = session /\ request' = request
  BY DEF EndsFailed
<1>2. s \in Servers /\ DrainOK(d, drain[d])
  BY TaskPlaces DEF RevocationInv
<1>3. /\ token' = token /\ owner' \in {owner, NoServer}
      /\ server' \in [Servers -> ServerRow] /\ ServersAfter
      /\ server'[s].life # "starting"
  <2>1. CASE drain[d].handler /\ UNCHANGED <<token, owner, server>>
    BY <1>2, <2>1 DEF DrainOK, ServersAfter, RevocationInv, TypeOK
  <2>2. CASE BlockAndRelease(s)
    <3>1. /\ server' \in [Servers -> ServerRow] /\ server'[s].life = "closed"
          /\ server'[s].fence = server[s].fence
          /\ \A q \in Servers \ {s} : server'[q] = server[q]
      BY <1>2, <2>2 DEF BlockAndRelease, RevocationInv, TypeOK, ServerRow
    <3>2. token' = token /\ owner' \in {owner, NoServer}
      BY <2>2 DEF BlockAndRelease
    <3> QED
      BY <1>2, <3>1, <3>2 DEF DrainOK, ServersAfter
  <2> QED
    BY <2>1, <2>2 DEF EndsFailed
<1>4. TypeOK'
  BY <1>1, <1>3, Blanks DEF RevocationInv, TypeOK, LeaseTypeOK
<1>5. \A c \in Drains : drain'[c] = IF c = d THEN Off ELSE drain[c]
  BY <1>1 DEF RevocationInv, TypeOK
<1>6. \A c \in Drains : DrainGone(c) \/ (DrainKept(c) /\ Alone(c))
  BY <1>1, <1>3, <1>5 DEF DrainGone, DrainKept, Alone
<1> QED
  BY <1>1, <1>3, <1>4, <1>6, SessionsKept, DueKept, StepPreserves

LEMMA AcknowledgeStep ==
  ASSUME RevocationInv, NEW d \in Drains, Acknowledge(d)
  PROVE  RevocationInv'
<1>1. drain[d].at = "ack" /\ event \in [Events -> EventRow]
  BY DEF Acknowledge, RevocationInv, TypeOK
<1>2. CASE EndsFailed(d) /\ UNCHANGED event
  BY <1>1, <1>2, EndsFailedStep
<1>3. CASE ~ (EndsFailed(d) /\ UNCHANGED event)
  BY <1>1, <1>3, AcknowledgedStep DEF Acknowledge
<1> QED
  BY <1>2, <1>3

LEMMA FailClaimStep ==
  ASSUME RevocationInv, NEW d \in Drains, FailClaim(d)
  PROVE  RevocationInv'
<1>1. /\ drain[d].at = "fail" /\ EndsFailed(d) /\ event \in [Events -> EventRow]
      /\ event' = IF Holds(d) THEN [event EXCEPT ![drain[d].event].claim = NoServer] ELSE event
  BY DEF FailClaim, RevocationInv, TypeOK
<1>2. /\ event' \in [Events -> EventRow]
      /\ \A e \in Events : event'[e].state = event[e].state /\ event'[e].forced = event[e].forced
  BY <1>1 DEF EventRow
<1> QED
  BY <1>1, <1>2, EndsFailedStep

\* A revocation is appended, to end the sessions that are there.
LEMMA AppendStep ==
  ASSUME RevocationInv, NEW e \in Events, NEW forced \in BOOLEAN, Append(e, forced),
         right' \in BOOLEAN, right' => right, right' => forced
  PROVE  RevocationInv'
<1>1. /\ event[e].state = "none"
      /\ event' = [event EXCEPT ![e].state = "pending", ![e].forced = forced]
      /\ due' = [due EXCEPT ![e] = {x \in Sessions : Live(x)}]
      /\ token' = token /\ owner' = owner /\ server' = server /\ session' = session
      /\ request' = request /\ drain' = drain
  BY DEF Append
<1>2. /\ event' \in [Events -> EventRow]
      /\ event'[e].state = "pending" /\ event'[e].forced = forced
      /\ \A f \in Events \ {e} : event'[f] = event[f]
  BY <1>1 DEF RevocationInv, TypeOK, EventRow
<1>3. /\ due' \in [Events -> SUBSET Sessions]
      /\ due'[e] = {x \in Sessions : Live(x)}
      /\ \A f \in Events \ {e} : due'[f] = due[f]
  BY <1>1 DEF RevocationInv, TypeOK
<1>4. TypeOK'
  BY <1>1, <1>2, <1>3 DEF RevocationInv, TypeOK, LeaseTypeOK
<1>5. DueOK'
  <2> SUFFICES ASSUME NEW f \in Events
               PROVE  (/\ event[f].state = "none" => due[f] = {}
                       /\ right /\ ~ event[f].forced => due[f] = {}
                       /\ \A x \in due[f] : session[x].state # "none")'
    BY DEF DueOK
  <2>1. CASE f = e
    BY <1>1, <1>2, <1>3, <2>1 DEF Live
  <2>2. CASE f # e
    BY <1>1, <1>2, <1>3, <2>2 DEF RevocationInv, DueOK
  <2> QED
    BY <2>1, <2>2
<1>6. AcknowledgedEnds'
  BY <1>1, <1>2, <1>3 DEF RevocationInv, AcknowledgedEnds
<1>7. \A f \in Events : event[f].state # "none" => event'[f].state # "none" /\ due'[f] \subseteq due[f]
  BY <1>1, <1>2, <1>3
<1>8. \A c \in Drains : DrainKept(c) /\ Alone(c)
  BY <1>1 DEF DrainKept, Alone
<1> QED
  BY <1>1, <1>4, <1>5, <1>6, <1>7, <1>8, SessionsKept, StepPreserves DEF ServersAfter

\* The right comes back.
LEMMA RestoreStep ==
  ASSUME RevocationInv, Restore
  PROVE  RevocationInv'
<1>1. /\ right' = TRUE /\ due' = [e \in Events |-> IF event[e].forced THEN due[e] ELSE {}]
      /\ token' = token /\ owner' = owner /\ server' = server /\ session' = session
      /\ request' = request /\ drain' = drain /\ event' = event
  BY DEF Restore
<1>2. /\ due' \in [Events -> SUBSET Sessions]
      /\ \A e \in Events : due'[e] \subseteq due[e] /\ (~ event[e].forced => due'[e] = {})
  BY <1>1 DEF RevocationInv, TypeOK
<1>3. TypeOK'
  BY <1>1, <1>2 DEF RevocationInv, TypeOK, LeaseTypeOK
<1>4. DueOK'
  BY <1>1, <1>2 DEF RevocationInv, DueOK
<1>5. AcknowledgedEnds'
  BY <1>1, <1>2 DEF RevocationInv, AcknowledgedEnds
<1>6. \A c \in Drains : DrainKept(c) /\ Alone(c)
  BY <1>1 DEF DrainKept, Alone
<1> QED
  BY <1>1, <1>2, <1>3, <1>4, <1>5, <1>6, SessionsKept, StepPreserves DEF ServersAfter

\* Time passes for a session, or for a claim.
LEMMA ExpireStep ==
  ASSUME RevocationInv, NEW x \in Sessions, Expire(x)
  PROVE  RevocationInv'
<1>1. /\ session' = [session EXCEPT ![x].expired = TRUE]
      /\ token' = token /\ owner' = owner /\ right' = right /\ event' = event /\ due' = due
      /\ server' = server /\ request' = request /\ drain' = drain
  BY DEF Expire, rows
<1>2. /\ session' \in [Sessions -> SessionRow]
      /\ \A y \in Sessions : session'[y].state = session[y].state /\ session'[y].fence = session[y].fence
  BY <1>1 DEF RevocationInv, TypeOK, SessionRow
<1>3. TypeOK'
  BY <1>1, <1>2 DEF RevocationInv, TypeOK, LeaseTypeOK
<1>4. SessionsAfter
  BY <1>2 DEF SessionsAfter, RevocationInv, FencesOK, Live
<1>5. \A c \in Drains : DrainKept(c) /\ Alone(c)
  BY <1>1, <1>2 DEF DrainKept, Alone
<1> QED
  BY <1>1, <1>3, <1>4, <1>5, DueKept, StepPreserves DEF ServersAfter

LEMMA ExpireClaimStep ==
  ASSUME RevocationInv, NEW e \in Events, ExpireClaim(e)
  PROVE  RevocationInv'
<1>1. /\ event' = [event EXCEPT ![e].late = TRUE]
      /\ token' = token /\ owner' = owner /\ right' = right /\ due' = due
      /\ server' = server /\ session' = session /\ request' = request /\ drain' = drain
  BY DEF ExpireClaim
<1>2. /\ event' \in [Events -> EventRow]
      /\ \A f \in Events : event'[f].state = event[f].state /\ event'[f].forced = event[f].forced
  BY <1>1 DEF RevocationInv, TypeOK, EventRow
<1>3. TypeOK'
  BY <1>1, <1>2 DEF RevocationInv, TypeOK, LeaseTypeOK
<1>4. \A c \in Drains : DrainKept(c) /\ Alone(c)
  BY <1>1 DEF DrainKept, Alone
<1> QED
  BY <1>1, <1>2, <1>3, <1>4, SessionsKept, DueKept, StepPreserves DEF ServersAfter

(***************************************************************************)
(* Servers                                                                 *)
(***************************************************************************)

\* A server gets the lease: its token is new, so that no other has it.
LEMMA GetsLeaseStep ==
  ASSUME RevocationInv, NEW s \in Servers, GetsLease(s)
  PROVE  RevocationInv'
<1> DEFINE t == TaskOf(s)
           row == [Off EXCEPT !.at = "list", !.fence = token + 1]
           new == [life |-> "starting", fence |-> token + 1]
<1>1. /\ server[s].life = "standby" /\ token' = token + 1 /\ owner' = s /\ token < MaxFence
      /\ server' = [server EXCEPT ![s] = new]
      /\ drain' = [drain EXCEPT ![t] = row]
      /\ right' = right /\ event' = event /\ due' = due /\ session' = session /\ request' = request
  BY DEF GetsLease, Grant
<1>2. t \in Tasks /\ t \in Drains /\ ServerOf[t] = s
  BY TaskPlaces
<1>3. /\ TypeOK /\ FencesOK /\ token \in Nat /\ MaxFence \in Nat
      /\ token + 1 \in 0..MaxFence /\ token + 1 # 0
  BY <1>1, FencedLeaseAssumption DEF RevocationInv, TypeOK, LeaseTypeOK
<1>4. /\ row \in DrainRow /\ row.at = "list" /\ row.event = NoEvent /\ row.fence = token + 1
      /\ ~ row.handler
  BY <1>3, Blanks DEF DrainRow, Off
<1>5. new \in ServerRow /\ new.life = "starting" /\ new.fence = token + 1
  BY <1>3 DEF ServerRow
<1> HIDE DEF row, t, new
<1>6. /\ \A q \in Servers : server'[q] = IF q = s THEN new ELSE server[q]
      /\ \A c \in Drains : drain'[c] = IF c = t THEN row ELSE drain[c]
  BY <1>1, <1>3 DEF TypeOK
<1>7. TypeOK'
  BY <1>1, <1>3, <1>4, <1>5 DEF TypeOK, LeaseTypeOK
<1>8. /\ \A q \in Servers : server[q].fence <= token /\ server[q].fence \in Nat
      /\ \A x \in Sessions : session[x].fence <= token /\ session[x].fence \in Nat
  BY <1>3 DEF FencesOK, TypeOK, ServerRow, SessionRow
<1>9. FencesOK'
  <2>1. \A x \in Sessions : session'[x].fence <= token'
    BY <1>1, <1>3, <1>8
  <2>2. ASSUME NEW q \in Servers
        PROVE  /\ server'[q].fence <= token'
               /\ server'[q].life = "standby" <=> server'[q].fence = 0
               /\ \A p \in Servers \ {q} : server'[q].fence # 0 => server'[p].fence # server'[q].fence
    <3>1. CASE q = s
      BY <1>1, <1>3, <1>5, <1>6, <1>8, <3>1
    <3>2. CASE q # s
      BY <1>1, <1>3, <1>5, <1>6, <1>8, <3>2 DEF FencesOK
    <3> QED
      BY <3>1, <3>2
  <2> QED
    BY <2>1, <2>2 DEF FencesOK
<1>10. \A r \in Requests : RequestOK(r)'
  <2> SUFFICES ASSUME NEW r \in Requests, request[r].at # "idle"
               PROVE  /\ \E q \in Servers : /\ server'[q].life \in {"ready", "closed"}
                                            /\ request[r].fence = server'[q].fence
                      /\ request[r].at # "create" => request[r].x \in Sessions
    BY <1>1 DEF RequestOK
  <2>1. RequestOK(r)
    BY DEF RevocationInv
  <2>2. PICK q \in Servers :
          server[q].life \in {"ready", "closed"} /\ request[r].fence = server[q].fence
    BY <2>1 DEF RequestOK
  <2>3. server'[q] = server[q]
    BY <1>1, <1>6, <2>2
  <2> QED
    BY <2>1, <2>2, <2>3 DEF RequestOK
<1>11. DueOK' /\ AcknowledgedEnds'
  BY <1>1 DEF RevocationInv, DueOK, AcknowledgedEnds
<1>12. ASSUME NEW c \in Drains
       PROVE  (DrainOK(c, drain[c]) /\ DrainCovers(drain[c]) /\ StartupOK(c, drain[c]))'
  <2>1. CASE c = t
    <3>1. drain'[c] = row /\ server'[ServerOf[c]] = new
      BY <1>2, <1>6, <2>1
    <3>2. DrainOK(c, drain[c])'
      BY <1>2, <1>4, <1>5, <2>1, <3>1, RevocationAssumption DEF DrainOK, InHand
    <3>3. DrainCovers(drain[c])'
      BY <1>4, <3>1, RevocationAssumption DEF DrainCovers
    <3>4. StartupOK(c, drain[c])'
      BY <1>4, <3>1 DEF StartupOK, Undisturbed, InHand
    <3> QED
      BY <3>2, <3>3, <3>4
  <2>2. CASE c # t
    <3>1. /\ drain'[c] = drain[c] /\ ServerOf[c] \in Servers
          /\ DrainOK(c, drain[c]) /\ DrainCovers(drain[c])
      BY <1>6, <2>2, TaskPlaces DEF RevocationInv
    <3>2. ServerOf[c] = s => drain[c].at = "off" /\ c \notin Tasks
      BY <1>1, <2>2, <3>1, TaskPlaces DEF DrainOK, t
    <3>3. ServerOf[c] # s => server'[ServerOf[c]] = server[ServerOf[c]]
      BY <1>6, <3>1
    <3>4. DrainOK(c, drain[c])'
      BY <1>1, <3>1, <3>2, <3>3 DEF DrainOK, InHand
    <3>5. DrainCovers(drain[c])'
      BY <1>1, <3>1 DEF DrainCovers, LeftOf, Live
    <3>6. ~ Starting(c, drain[c])'
      <4> SUFFICES ASSUME c \in Tasks, server'[ServerOf[c]].life = "starting",
                          drain[c].fence = token + 1
                   PROVE  FALSE
        BY <1>1, <3>1 DEF Starting, Current
      <4>1. server[ServerOf[c]].life = "starting"
        BY <3>2, <3>3
      <4>2. drain[c].fence = server[ServerOf[c]].fence
        BY <3>1, <4>1 DEF DrainOK
      <4> QED
        BY <1>3, <1>8, <3>1, <4>2
    <3> QED
      BY <3>4, <3>5, <3>6 DEF StartupOK
  <2> QED
    BY <2>1, <2>2
<1>13. Adopted'
  <2> SUFFICES ASSUME NEW q \in Servers, server'[q].life = "ready", server'[q].fence = token + 1
               PROVE  FALSE
    BY <1>1 DEF Adopted, Serves, Current
  <2>1. server'[q] = server[q]
    BY <1>5, <1>6
  <2> QED
    BY <1>3, <1>8, <2>1
<1> QED
  BY <1>7, <1>9, <1>10, <1>11, <1>12, <1>13 DEF RevocationInv

\* A server ends: it steps down, or it is gone with what it had under way.
LEMMA ClosesStep ==
  ASSUME RevocationInv, NEW s \in Servers, server[s].life # "standby",
         server' = [server EXCEPT ![s].life = "closed"],
         token' = token, owner' \in {owner, NoServer},
         UNCHANGED <<right, event, due, session>>,
         Vanish(s) \/ UNCHANGED <<request, drain>>
  PROVE  RevocationInv'
<1>1. right' = right /\ event' = event /\ due' = due /\ session' = session
  OBVIOUS
<1>2. /\ server' \in [Servers -> ServerRow] /\ server'[s].life = "closed"
      /\ server'[s].fence = server[s].fence
      /\ \A q \in Servers \ {s} : server'[q] = server[q]
  BY DEF RevocationInv, TypeOK, ServerRow
<1>3. ServersAfter
  BY <1>2 DEF ServersAfter
<1>4. request' \in [Requests -> RequestRow] /\ drain' \in [Drains -> DrainRow]
  BY Blanks DEF Vanish, RevocationInv, TypeOK
<1>5. TypeOK'
  BY <1>1, <1>2, <1>4 DEF RevocationInv, TypeOK, LeaseTypeOK
<1>6. \A r \in Requests : RequestOK(r)' \/ request'[r] = request[r]
  BY DEF Vanish, RequestOK, IdleRequest
<1>7. \A c \in Drains : DrainGone(c) \/ (DrainKept(c) /\ Alone(c))
  BY <1>1, <1>2 DEF Vanish, DrainGone, DrainKept, Alone
<1> QED
  BY <1>1, <1>3, <1>5, <1>6, <1>7, SessionsKept, DueKept, StepPreserves

LEMMA ServerStep ==
  ASSUME RevocationInv, NEW s \in Servers, StepsDown(s) \/ Crash(s) \/ StartupTimesOut(s)
  PROVE  RevocationInv'
<1>1. CASE StepsDown(s)
  BY <1>1, ClosesStep DEF StepsDown, rows
<1>2. CASE Crash(s)
  BY <1>2, ClosesStep DEF Crash, rows
<1>3. CASE StartupTimesOut(s)
  BY <1>3, ClosesStep DEF StartupTimesOut, BlockAndRelease
<1> QED
  BY <1>1, <1>2, <1>3

(***************************************************************************)
(* The invariant                                                           *)
(***************************************************************************)

\* It holds at the start.
LEMMA InitRevocationInv == Init => RevocationInv
<1> SUFFICES ASSUME Init PROVE RevocationInv
  OBVIOUS
<1>1. /\ token = 0 /\ owner = NoServer /\ 0 \in 0..MaxFence
      /\ server = [s \in Servers |-> [life |-> "standby", fence |-> 0]]
      /\ right = TRUE /\ event = [e \in Events |-> NoReceipt] /\ due = [e \in Events |-> {}]
      /\ session = [x \in Sessions |-> [state |-> "none", fence |-> 0, expired |-> FALSE]]
      /\ request = [r \in Requests |-> IdleRequest] /\ drain = [d \in Drains |-> Off]
  BY Blanks DEF Init, LeaseInit
<1>2. TypeOK
  <2>1. /\ [life |-> "standby", fence |-> 0] \in ServerRow
        /\ [state |-> "none", fence |-> 0, expired |-> FALSE] \in SessionRow
    BY <1>1 DEF ServerRow, SessionRow
  <2>2. /\ LeaseTypeOK /\ server \in [Servers -> ServerRow] /\ session \in [Sessions -> SessionRow]
    BY <1>1, <2>1 DEF LeaseTypeOK
  <2>3. /\ event \in [Events -> EventRow] /\ due \in [Events -> SUBSET Sessions]
        /\ request \in [Requests -> RequestRow] /\ drain \in [Drains -> DrainRow]
    BY <1>1, Blanks
  <2> QED
    BY <1>1, <2>2, <2>3 DEF TypeOK
<1>3. FencesOK
  BY <1>1 DEF FencesOK
<1>4. \A r \in Requests : RequestOK(r)
  BY <1>1 DEF RequestOK, IdleRequest
<1>5. DueOK /\ AcknowledgedEnds
  BY <1>1 DEF DueOK, AcknowledgedEnds
<1>6. ASSUME NEW d \in Drains
      PROVE  DrainOK(d, drain[d]) /\ DrainCovers(drain[d]) /\ StartupOK(d, drain[d])
  <2>1. drain[d].at = "off" /\ drain[d].event = NoEvent /\ NoEvent \notin Events
    BY <1>1, RevocationAssumption DEF Off
  <2>2. server[ServerOf[d]].life = "standby"
    BY <1>1, TaskPlaces
  <2> QED
    BY <2>1, <2>2 DEF DrainOK, DrainCovers, StartupOK, Starting, InHand
<1>7. Adopted
  BY <1>1 DEF Adopted, Current
<1> QED
  BY <1>2, <1>3, <1>4, <1>5, <1>6, <1>7 DEF RevocationInv

\* A step of a drain.
LEMMA DrainStepInv ==
  ASSUME RevocationInv, LiveWithinLimit, NEW d \in Drains, DrainStep(d)
  PROVE  RevocationInv'
BY PollStep, ClaimStep, NothingToClaimStep, ListStep, AdoptStep, CheckStep, DecryptStep,
   TerminateStep, ReloadStep, AcknowledgeStep, FailClaimStep DEF DrainStep

\* A step of rights, of time or of a server.
LEMMA OutsideStepInv ==
  ASSUME RevocationInv,
         \/ \E e \in Events : Revoke(e) \/ ChangePolicy(e) \/ ExpireClaim(e)
         \/ Restore
         \/ \E x \in Sessions : Expire(x)
         \/ \E s \in Servers : GetsLease(s) \/ StepsDown(s) \/ Crash(s) \/ StartupTimesOut(s)
  PROVE  RevocationInv'
<1>1. ASSUME NEW e \in Events, Revoke(e) PROVE RevocationInv'
  BY <1>1, AppendStep DEF Revoke
<1>2. ASSUME NEW e \in Events, ChangePolicy(e) PROVE RevocationInv'
  <2>1. right' = right /\ right \in BOOLEAN
    BY <1>2 DEF ChangePolicy, RevocationInv, TypeOK
  <2>2. Append(e, TRUE)
    BY <1>2 DEF ChangePolicy
  <2>3. right' \in BOOLEAN /\ (right' => right)
    BY <2>1
  <2> QED
    BY <2>2, <2>3, AppendStep, Zenon
<1> QED
  BY <1>1, <1>2, ExpireClaimStep, RestoreStep, ExpireStep, GetsLeaseStep, ServerStep

\* Every step preserves it.
LEMMA NextRevocationInv ==
  RevocationInv /\ LiveWithinLimit /\ [Next]_vars => RevocationInv'
<1> SUFFICES ASSUME RevocationInv, LiveWithinLimit, [Next]_vars PROVE RevocationInv'
  OBVIOUS
<1>1. CASE UNCHANGED vars
  <2>1. /\ token' = token /\ owner' = owner /\ right' = right /\ event' = event /\ due' = due
        /\ server' = server /\ session' = session /\ request' = request /\ drain' = drain
    BY <1>1 DEF vars
  <2>2. TypeOK'
    BY <2>1 DEF RevocationInv, TypeOK, LeaseTypeOK
  <2>3. \A c \in Drains : DrainKept(c) /\ Alone(c)
    BY <2>1 DEF DrainKept, Alone
  <2> QED
    BY <2>1, <2>2, <2>3, SessionsKept, DueKept, StepPreserves DEF ServersAfter
<1>2. ASSUME NEW r \in Requests,
             \/ Insert(r) \/ Change(r) \/ Refuse(r)
             \/ \E s \in Servers :
                  \/ BeginCreate(r, s)
                  \/ \E x \in Sessions, kind \in {"beat", "end", "touch"} : BeginChange(r, s, x, kind)
      PROVE  RevocationInv'
  BY <1>2, InsertStep, ChangeStep, RefuseStep, BeginCreateStep, BeginChangeStep
<1>3. ASSUME NEW d \in Drains, DrainStep(d) \/ \E e \in Events : HandlerDrain(d, e)
      PROVE  RevocationInv'
  BY <1>3, DrainStepInv, HandlerDrainStep
<1> QED
  BY <1>1, <1>2, <1>3, OutsideStepInv DEF Next

\* The invariant of the protocol between servers, drains, requests and rights, while no
\* more sessions are live than a pass lists.
THEOREM RevocationInvariant == Spec /\ []LiveWithinLimit => []RevocationInv
BY InitRevocationInv, NextRevocationInv, PTL DEF Spec

\* TypeOK: rows, claims, requests and drains keep their shapes.
THEOREM RevocationTypes == Spec /\ []LiveWithinLimit => []TypeOK
<1>1. RevocationInv => TypeOK
  BY DEF RevocationInv
<1> QED
  BY <1>1, RevocationInvariant, PTL

\* AcknowledgedEnds: reconcile_session_with_reason and drain_authorization_revocations
\* acknowledge a revocation only when each session it was about has ended, whatever
\* overtakes, retries and races there were, for any number of servers and drains.
THEOREM AcknowledgedRevocationsHaveEnded == Spec /\ []LiveWithinLimit => []AcknowledgedEnds
<1>1. RevocationInv => AcknowledgedEnds
  BY DEF RevocationInv
<1> QED
  BY <1>1, RevocationInvariant, PTL

\* AdoptionComplete: a server that serves requests and has the lease has adopted, in
\* reconcile_startup, every session that is still live.
THEOREM ServersAdoptEverySession == Spec /\ []LiveWithinLimit => []AdoptionComplete
<1>1. RevocationInv => AdoptionComplete
  BY FencedLeaseAssumption DEF RevocationInv, Adopted, AdoptionComplete, Current
<1> QED
  BY <1>1, RevocationInvariant, PTL

\* StartupUndisturbed: reconcile_startup fails only when the lease is lost; nothing it
\* reads is changed under it.
THEOREM StartupFailsOnlyFenced == Spec /\ []LiveWithinLimit => []StartupUndisturbed
<1>1. RevocationInv => StartupUndisturbed
  <2> SUFFICES ASSUME RevocationInv, NEW d \in Tasks, server[ServerOf[d]].life = "starting",
                      drain[d].at = "fail", Current(drain[d].fence)
               PROVE  FALSE
    BY DEF StartupUndisturbed
  <2>1. StartupOK(d, drain[d])
    BY TaskPlaces DEF RevocationInv
  <2> QED
    BY <2>1 DEF StartupOK, Starting, Undisturbed
<1> QED
  BY <1>1, RevocationInvariant, PTL

\* What servers do to the lease here is what FencedLease allows: a grant, or giving it up.
THEOREM RevocationUsesTheLease == Spec => LeaseSpec
<1>1. Init => LeaseInit
  BY DEF Init
<1>2. [Next]_vars => [LeaseNext]_lvars
  <2>1. ASSUME NEW s \in Servers, BlockAndRelease(s) PROVE [LeaseNext]_lvars
    BY <2>1, FencedLeaseAssumption DEF BlockAndRelease, LeaseNext, GiveUp, lvars
  <2>2. ASSUME NEW d \in Drains, DrainStep(d) PROVE [LeaseNext]_lvars
    <3>1. CASE EndsFailed(d)
      BY <2>1, <3>1, TaskPlaces DEF EndsFailed, lvars
    <3>2. CASE UNCHANGED rows
      BY <3>2 DEF rows, lvars
    <3>3. CASE UNCHANGED <<token, owner>>
      BY <3>3 DEF lvars
    <3>4. EndsFailed(d) \/ UNCHANGED rows \/ UNCHANGED <<token, owner>>
      BY <2>2 DEF DrainStep, Poll, Claim, NothingToClaim, Cleanup, List, Adopt, Check, Decrypt,
                  Terminate, Reload, Acknowledge, FailClaim, Fail, Move
    <3> QED
      BY <3>1, <3>2, <3>3, <3>4
  <2>3. ASSUME NEW s \in Servers, GetsLease(s) \/ StepsDown(s) \/ Crash(s) \/ StartupTimesOut(s)
        PROVE  [LeaseNext]_lvars
    BY <2>1, <2>3 DEF GetsLease, StepsDown, Crash, StartupTimesOut, rows, LeaseNext, lvars
  <2>4. ASSUME NEW r \in Requests,
               \/ Insert(r) \/ Change(r) \/ Refuse(r)
               \/ \E s \in Servers :
                    \/ BeginCreate(r, s)
                    \/ \E x \in Sessions, kind \in {"beat", "end", "touch"} : BeginChange(r, s, x, kind)
        PROVE  UNCHANGED lvars
    BY <2>4 DEF Insert, Change, Refuse, BeginCreate, BeginChange, rows, lvars
  <2>5. ASSUME \/ \E e \in Events : Revoke(e) \/ ChangePolicy(e) \/ ExpireClaim(e)
               \/ Restore
               \/ \E x \in Sessions : Expire(x)
               \/ \E d \in Drains, e \in Events : HandlerDrain(d, e)
        PROVE  UNCHANGED lvars
    BY <2>5 DEF Revoke, ChangePolicy, Append, ExpireClaim, Restore, Expire, HandlerDrain, rows, lvars
  <2>6. CASE UNCHANGED vars
    BY <2>6 DEF vars, lvars
  <2> QED
    BY <2>2, <2>3, <2>4, <2>5, <2>6 DEF Next
<1> QED
  BY <1>1, <1>2, PTL DEF Spec, LeaseSpec

=============================================================================
