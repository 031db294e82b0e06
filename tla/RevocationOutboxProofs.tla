------------------------ MODULE RevocationOutboxProofs ------------------------
(***************************************************************************)
(* Proofs about the revocation outbox for every number of events,          *)
(* consumers, owners and concurrent drains, and every number of faults.    *)
(***************************************************************************)
EXTENDS RevocationOutbox, TLAPS

Keys == Events \X Consumers

(* What the types say of one receipt and of one drain.                      *)
LEMMA Typed ==
  ASSUME TypeOK
  PROVE  /\ \A k \in Keys : /\ receipt[k] \in Receipts
                            /\ receipt[k].attempts \in Nat
                            /\ k[1] \in Events /\ k[2] \in Consumers
                            /\ k = <<k[1], k[2]>>
         /\ \A w \in Workers : /\ worker[w] \in Drains /\ worker[w].event \in Events
                               /\ worker[w].row \in Receipts
                               /\ worker[w].row.attempts \in Nat
                               /\ Key(w) \in Keys
                               /\ Key(w)[1] = worker[w].event /\ Key(w)[2] = ConsumerOf[w]
BY OutboxAssumption DEF TypeOK, Keys, Receipts, Drains, Key

(* A receipt whose fields are set to values of their types is a receipt.    *)
LEMMA SettingFields ==
  ASSUME NEW r \in Receipts, NEW s \in {"none", "pending", "acknowledged"}, NEW x \in BOOLEAN,
         NEW o \in Owners \cup {NoOwner}, NEW n \in 0..MaxAttempts
  PROVE  /\ [r EXCEPT !.state = s] \in Receipts
         /\ [r EXCEPT !.expired = x] \in Receipts
         /\ [r EXCEPT !.owner = o, !.attempts = n, !.expired = x] \in Receipts
         /\ [r EXCEPT !.state = s, !.owner = o, !.expired = x] \in Receipts
BY DEF Receipts

(* The two receipts a row starts as.                                        *)
LEMMA Blanks ==
  /\ NoReceipt \in Receipts /\ Pending \in Receipts
  /\ NoReceipt.state = "none" /\ NoReceipt.owner = NoOwner /\ NoReceipt.attempts = 0
  /\ Pending.state = "pending" /\ Pending.owner = NoOwner /\ Pending.attempts = 0
<1>1. NoReceipt \in Receipts
  BY OutboxAssumption DEF NoReceipt, Receipts
<1>2. NoOwner \in Owners \cup {NoOwner} /\ 0 \in 0..MaxAttempts
  BY OutboxAssumption
<1>3. Pending \in Receipts
  BY <1>1, <1>2, SettingFields DEF Pending
<1>4. NoReceipt.state = "none" /\ NoReceipt.owner = NoOwner /\ NoReceipt.attempts = 0
  BY DEF NoReceipt
<1>5. Pending.state = "pending" /\ Pending.owner = NoOwner /\ Pending.attempts = 0
  BY DEF Pending, NoReceipt
<1> QED
  BY <1>1, <1>3, <1>4, <1>5

(* The empty tables satisfy the inductive invariant.                        *)
LEMMA InitOutboxInv == Init => OutboxInv
<1> SUFFICES ASSUME Init PROVE OutboxInv
  OBVIOUS
<1>1. PICK e \in Events :
        worker = [w \in Workers |-> [at |-> "idle", event |-> e, row |-> NoReceipt]]
  BY DEF Init
<1>2. TypeOK
  BY <1>1, Blanks, OutboxAssumption DEF Init, TypeOK, Drains
<1>3. ReceiptsComplete /\ AtLeastOnce /\ RowsConsistent
  BY Blanks DEF Init, ReceiptsComplete, AtLeastOnce, RowsConsistent
<1>4. WorkersApplied /\ DrainsBehind /\ CandidatesExpired /\ ClaimsOwned
  BY <1>1 DEF WorkersApplied, DrainsBehind, CandidatesExpired, ClaimsOwned, Working
<1> QED
  BY <1>2, <1>3, <1>4 DEF OutboxInv

(* A drain that only moves on, keeping the event and the row it knows.      *)
LEMMA MoveKeepsInv ==
  ASSUME OutboxInv, NEW w \in Workers,
         NEW place \in {"idle", "ended", "applied", "failed"},
         Moves(w, place), UNCHANGED <<outbox, seen, consumers, receipt>>,
         applied \subseteq applied', applied' \subseteq Keys, faults' \in 0..MaxFaults,
         place \in {"applied", "failed"} => worker[w].at = "claimed",
         place = "applied" => Key(w) \in applied'
  PROVE  OutboxInv'
<1>0. TypeOK
  BY DEF OutboxInv
<1>1. /\ worker' \in [Workers -> Drains]
      /\ \A v \in Workers : /\ worker'[v].event = worker[v].event
                            /\ worker'[v].row = worker[v].row
                            /\ worker'[v].at = IF v = w THEN place ELSE worker[v].at
                            /\ Key(v)' = Key(v)
  BY <1>0 DEF TypeOK, Moves, Drains, Key
<1>2. TypeOK'
  BY <1>0, <1>1 DEF TypeOK, Keys
<1>3. ReceiptsComplete' /\ AtLeastOnce' /\ RowsConsistent'
  BY DEF OutboxInv, ReceiptsComplete, AtLeastOnce, RowsConsistent
<1>4. WorkersApplied'
  BY <1>1 DEF OutboxInv, WorkersApplied
<1>5. DrainsBehind'
  BY <1>1 DEF OutboxInv, DrainsBehind
<1>6. CandidatesExpired' /\ ClaimsOwned'
  BY <1>1 DEF OutboxInv, CandidatesExpired, ClaimsOwned, Working
<1> QED
  BY <1>2, <1>3, <1>4, <1>5, <1>6 DEF OutboxInv

(* What the tables must keep for the drains that are under way.             *)
LEMMA DrainsKeepInv ==
  ASSUME OutboxInv, worker' = worker, applied' = applied,
         seen \subseteq seen', consumers \subseteq consumers',
         \A w \in Workers : worker[w].at \notin {"idle", "ended"} =>
           \/ receipt'[Key(w)] = NoReceipt
           \/ /\ receipt'[Key(w)].state = receipt[Key(w)].state
              /\ receipt'[Key(w)].owner = receipt[Key(w)].owner
              /\ receipt'[Key(w)].attempts = receipt[Key(w)].attempts
              /\ receipt[Key(w)].expired = TRUE => receipt'[Key(w)].expired = TRUE
  PROVE  WorkersApplied' /\ DrainsBehind' /\ CandidatesExpired' /\ ClaimsOwned'
<1>1. \A w \in Workers : Key(w)' = Key(w)
  BY DEF Key
<1>2. WorkersApplied'
  BY <1>1 DEF OutboxInv, WorkersApplied
<1>3. DrainsBehind'
  <2> SUFFICES ASSUME NEW w \in Workers, worker[w].at \notin {"idle", "ended"}
               PROVE  /\ worker[w].event \in seen' /\ ConsumerOf[w] \in consumers'
                      /\ receipt'[Key(w)].state # "none" =>
                           worker[w].row.attempts <= receipt'[Key(w)].attempts
    BY <1>1 DEF DrainsBehind
  <2> QED
    BY Blanks DEF OutboxInv, DrainsBehind
<1>4. CandidatesExpired'
  <2> SUFFICES ASSUME NEW w \in Workers, worker[w].at = "candidate",
                      worker[w].row.owner # NoOwner, receipt'[Key(w)].owner # NoOwner,
                      receipt'[Key(w)].attempts = worker[w].row.attempts
               PROVE  receipt'[Key(w)].expired = TRUE
    BY <1>1 DEF CandidatesExpired
  <2> QED
    BY Blanks DEF OutboxInv, CandidatesExpired
<1>5. ClaimsOwned'
  <2> SUFFICES ASSUME NEW w \in Workers, worker[w].at \in Working,
                      receipt'[Key(w)].owner # NoOwner,
                      receipt'[Key(w)].attempts = worker[w].row.attempts
               PROVE  receipt'[Key(w)].owner = OwnerOf[w]
    BY <1>1 DEF ClaimsOwned
  <2> QED
    BY Blanks DEF OutboxInv, ClaimsOwned, Working
<1> QED
  BY <1>2, <1>3, <1>4, <1>5

(* An appended event starts with a pending receipt for every consumer.      *)
LEMMA AppendKeepsInv ==
  ASSUME OutboxInv, NEW e \in Events, Append(e)
  PROVE  OutboxInv'
<1>0. TypeOK
  BY DEF OutboxInv
<1>1. \A k \in Keys : receipt'[k] = IF k[1] = e /\ k[2] \in consumers THEN Pending ELSE receipt[k]
  BY DEF Append, Keys
<1>2. receipt' \in [Keys -> Receipts]
  BY <1>0, Typed, Blanks DEF Append, Keys
<1>3. TypeOK'
  BY <1>0, <1>2 DEF TypeOK, Append, Keys
<1>4. ReceiptsComplete'
  BY <1>0, <1>1, Blanks DEF OutboxInv, ReceiptsComplete, Append, Keys, TypeOK
<1>5. AtLeastOnce'
  BY <1>1, Blanks DEF OutboxInv, AtLeastOnce, Append, Keys
<1>8. RowsConsistent'
  BY <1>0, <1>1, Typed, Blanks DEF OutboxInv, RowsConsistent, Append, Keys
<1>6. \A w \in Workers : worker[w].at \notin {"idle", "ended"} => receipt'[Key(w)] = receipt[Key(w)]
  BY <1>0, <1>1, Typed DEF OutboxInv, DrainsBehind, Append, Key
<1>9. WorkersApplied' /\ DrainsBehind' /\ CandidatesExpired' /\ ClaimsOwned'
  BY <1>6, DrainsKeepInv DEF Append
<1> QED
  BY <1>3, <1>4, <1>5, <1>8, <1>9 DEF OutboxInv

(* Registering a consumer adds only receipts that were missing, and no      *)
(* drain of it was under way with one of those.                             *)
LEMMA RegisterKeepsInv ==
  ASSUME OutboxInv, NEW c \in Consumers, RegisterConsumer(c)
  PROVE  OutboxInv'
<1>0. TypeOK
  BY DEF OutboxInv
<1>1. \A k \in Keys : receipt'[k] = IF k[1] \in outbox /\ k[2] = c /\ receipt[k].state = "none"
                                    THEN Pending ELSE receipt[k]
  BY DEF RegisterConsumer, Backfilled, Keys
<1>2. receipt' \in [Keys -> Receipts]
  BY <1>0, Typed, Blanks DEF RegisterConsumer, Backfilled, Keys
<1>3. TypeOK'
  BY <1>0, <1>2 DEF TypeOK, RegisterConsumer, Keys
<1>4. ReceiptsComplete'
  BY <1>0, <1>1, Blanks DEF OutboxInv, ReceiptsComplete, RegisterConsumer, Keys, TypeOK
<1>5. AtLeastOnce'
  BY <1>1, Blanks DEF OutboxInv, AtLeastOnce, RegisterConsumer, Keys
<1>8. RowsConsistent'
  BY <1>0, <1>1, Typed, Blanks DEF OutboxInv, RowsConsistent, RegisterConsumer, Keys
<1>6. \A w \in Workers : worker[w].at \notin {"idle", "ended"} => receipt'[Key(w)] = receipt[Key(w)]
  BY <1>0, <1>1, Typed DEF OutboxInv, DrainsBehind, ReceiptsComplete, RegisterConsumer, Key
<1>9. WorkersApplied' /\ DrainsBehind' /\ CandidatesExpired' /\ ClaimsOwned'
  BY <1>6, DrainsKeepInv DEF RegisterConsumer
<1> QED
  BY <1>3, <1>4, <1>5, <1>8, <1>9 DEF OutboxInv

(* An event that is cleaned up takes its receipts along.                    *)
LEMMA CleanupKeepsInv ==
  ASSUME OutboxInv, NEW e \in Events, Cleanup(e)
  PROVE  OutboxInv'
<1>0. TypeOK
  BY DEF OutboxInv
<1>1. \A k \in Keys : receipt'[k] = IF k[1] = e THEN NoReceipt ELSE receipt[k]
  BY DEF Cleanup, Keys
<1>2. receipt' \in [Keys -> Receipts]
  BY <1>0, Typed, Blanks DEF Cleanup, Keys
<1>3. TypeOK'
  BY <1>0, <1>2 DEF TypeOK, Cleanup, Keys
<1>4. ReceiptsComplete'
  BY <1>0, <1>1 DEF OutboxInv, ReceiptsComplete, Cleanup, Keys, TypeOK
<1>5. AtLeastOnce'
  BY <1>1, Blanks DEF OutboxInv, AtLeastOnce, Cleanup, Keys
<1>8. RowsConsistent'
  BY <1>0, <1>1, Typed, Blanks DEF OutboxInv, RowsConsistent, Cleanup, Keys
<1>6. \A w \in Workers : \/ receipt'[Key(w)] = receipt[Key(w)]
                         \/ receipt'[Key(w)] = NoReceipt
  BY <1>0, <1>1, Typed DEF Cleanup, Key
<1>9. WorkersApplied' /\ DrainsBehind' /\ CandidatesExpired' /\ ClaimsOwned'
  BY <1>6, DrainsKeepInv DEF Cleanup
<1> QED
  BY <1>3, <1>4, <1>5, <1>8, <1>9 DEF OutboxInv

(* A claim that expires stays where it is.                                  *)
LEMMA ExpireKeepsInv ==
  ASSUME OutboxInv, NEW k \in Keys, Expire(k)
  PROVE  OutboxInv'
<1>0. TypeOK
  BY DEF OutboxInv
<1> DEFINE r == [receipt[k] EXCEPT !.expired = TRUE]
<1>a. r \in Receipts /\ r.state = receipt[k].state /\ r.owner = receipt[k].owner
      /\ r.attempts = receipt[k].attempts /\ r.expired = TRUE
  BY <1>0, Typed DEF Receipts
<1>b. receipt' = [receipt EXCEPT ![k] = r] /\ receipt \in [Keys -> Receipts]
  BY <1>0 DEF Expire, TypeOK, Keys
<1> HIDE DEF r
<1>1. /\ receipt' \in [Keys -> Receipts]
      /\ \A x \in Keys : /\ receipt'[x].state = receipt[x].state
                         /\ receipt'[x].owner = receipt[x].owner
                         /\ receipt'[x].attempts = receipt[x].attempts
                         /\ receipt[x].expired = TRUE => receipt'[x].expired = TRUE
  BY <1>a, <1>b
<1>2. faults' \in 0..MaxFaults
  BY <1>0, OutboxAssumption DEF Expire, Wrong, TypeOK
<1>3. TypeOK'
  BY <1>0, <1>1, <1>2 DEF TypeOK, Expire, Keys
<1>4. ReceiptsComplete'
  <2> SUFFICES ASSUME NEW e \in outbox, NEW c \in consumers
               PROVE  receipt'[<<e, c>>].state # "none"
    BY DEF Expire, ReceiptsComplete
  <2>1. <<e, c>> \in Keys
    BY <1>0 DEF TypeOK, Keys
  <2> QED
    BY <1>1, <2>1 DEF OutboxInv, ReceiptsComplete
<1>5. AtLeastOnce'
  BY <1>1 DEF OutboxInv, AtLeastOnce, Expire, Keys
<1>8. RowsConsistent'
  BY <1>1 DEF OutboxInv, RowsConsistent, Expire, Keys
<1>6. \A w \in Workers : Key(w) \in Keys
  BY <1>0, Typed DEF Expire, Key
<1>9. WorkersApplied' /\ DrainsBehind' /\ CandidatesExpired' /\ ClaimsOwned'
  BY <1>1, <1>6, DrainsKeepInv DEF Expire
<1> QED
  BY <1>3, <1>4, <1>5, <1>8, <1>9 DEF OutboxInv

(* A drain that has read a pending receipt of an event in the table, either *)
(* as a candidate (then unclaimed or expired) or to finish its owner's claim.*)
LEMMA ReadKeepsInv ==
  ASSUME OutboxInv, NEW w \in Workers, NEW e \in Events,
         NEW place \in {"candidate", "finish", "release"},
         worker' = [worker EXCEPT ![w] = [at |-> place, event |-> e,
                                          row |-> receipt[<<e, ConsumerOf[w]>>]]],
         UNCHANGED <<outbox, seen, consumers, receipt, applied, faults>>,
         ConsumerOf[w] \in consumers, e \in seen,
         place = "candidate" /\ receipt[<<e, ConsumerOf[w]>>].owner # NoOwner
           => receipt[<<e, ConsumerOf[w]>>].expired = TRUE,
         place # "candidate" => receipt[<<e, ConsumerOf[w]>>].owner = OwnerOf[w],
         place = "finish" => <<e, ConsumerOf[w]>> \in applied
  PROVE  OutboxInv'
<1> DEFINE x == <<e, ConsumerOf[w]>>
<1>0. TypeOK /\ x \in Keys
  BY OutboxAssumption DEF OutboxInv, Keys
<1>1. [at |-> place, event |-> e, row |-> receipt[x]] \in Drains
  BY <1>0, Typed DEF Drains
<1>2. TypeOK'
  BY <1>0, <1>1 DEF TypeOK
<1>3. ReceiptsComplete' /\ AtLeastOnce' /\ RowsConsistent'
  BY DEF OutboxInv, ReceiptsComplete, AtLeastOnce, RowsConsistent
<1>4. \A v \in Workers : v # w => worker'[v] = worker[v] /\ Key(v)' = Key(v)
  BY <1>0 DEF TypeOK, Key
<1>5. /\ worker'[w].at = place /\ worker'[w].event = e /\ worker'[w].row = receipt[x]
      /\ Key(w)' = x
  BY <1>0 DEF TypeOK, Key
<1> HIDE DEF x
<1>6. receipt[x].attempts \in Nat
  BY <1>0, Typed
<1>7. WorkersApplied'
  BY <1>4, <1>5 DEF OutboxInv, WorkersApplied, x
<1>8. DrainsBehind'
  BY <1>4, <1>5, <1>6 DEF OutboxInv, DrainsBehind
<1>9. CandidatesExpired'
  BY <1>4, <1>5 DEF OutboxInv, CandidatesExpired, x
<1>10. ClaimsOwned'
  BY <1>4, <1>5 DEF OutboxInv, ClaimsOwned, Working, x
<1> QED
  BY <1>2, <1>3, <1>7, <1>8, <1>9, <1>10 DEF OutboxInv

LEMMA LoadClaimCandidateKeepsInv ==
  ASSUME OutboxInv, NEW w \in Workers, LoadClaimCandidate(w)
  PROVE  OutboxInv'
<1> DEFINE c == ConsumerOf[w]
<1>1. PICK e \in Scanned(c) :
        /\ Claimable(e, c)
        /\ worker' = [worker EXCEPT ![w] = [at |-> "candidate", event |-> e,
                                            row |-> receipt[<<e, c>>]]]
  BY DEF LoadClaimCandidate
<1>2. c \in consumers /\ UNCHANGED <<outbox, seen, consumers, receipt, applied, faults>>
  BY DEF LoadClaimCandidate
<1>3. e \in outbox
  BY DEF Scanned
<1>4. e \in Events /\ e \in seen /\ <<e, c>> \in Keys
  BY <1>3, OutboxAssumption DEF OutboxInv, TypeOK, RowsConsistent, Keys
<1>5. receipt[<<e, c>>].expired \in BOOLEAN
  BY <1>4, Typed DEF OutboxInv, Receipts
<1>6. receipt[<<e, c>>].owner # NoOwner => receipt[<<e, c>>].expired = TRUE
  BY <1>1, <1>5 DEF Claimable
<1> QED
  BY <1>1, <1>2, <1>4, <1>6, ReadKeepsInv

LEMMA LoadClaimKeepsInv ==
  ASSUME OutboxInv, NEW w \in Workers, LoadClaim(w)
  PROVE  OutboxInv'
<1> DEFINE now == receipt[Key(w)]
<1>0. TypeOK
  BY DEF OutboxInv
<1>1. /\ worker[w].at \in {"applied", "failed"}
      /\ UNCHANGED <<outbox, seen, consumers, receipt, applied, faults>>
  BY DEF LoadClaim
<1>2. CASE now.state = "pending" /\ now.owner = OwnerOf[w] /\ ~ now.expired
  <2> DEFINE place == IF worker[w].at = "applied" THEN "finish" ELSE "release"
             d == [at |-> place, event |-> worker[w].event, row |-> now]
  <2>3. worker' = [worker EXCEPT ![w] = d]
    BY <1>2 DEF LoadClaim
  <2>4. worker[w].event \in Events /\ Key(w) = <<worker[w].event, ConsumerOf[w]>>
    BY <1>0, Typed DEF Key
  <2>5. ConsumerOf[w] \in consumers /\ worker[w].event \in seen
    BY <1>1 DEF OutboxInv, DrainsBehind
  <2>6. place = "finish" => Key(w) \in applied
    BY <1>1 DEF OutboxInv, WorkersApplied
  <2> QED
    BY <1>1, <1>2, <2>3, <2>4, <2>5, <2>6, ReadKeepsInv
<1>3. CASE ~ (now.state = "pending" /\ now.owner = OwnerOf[w] /\ ~ now.expired)
  BY <1>0, <1>1, <1>3, MoveKeepsInv DEF LoadClaim, TypeOK, Keys
<1> QED
  BY <1>2, <1>3

(* A receipt that is still as it was read goes to the next claim: no drain   *)
(* that knows it has seen a claim as new as that.                            *)
LEMMA ClaimCandidateKeepsInv ==
  ASSUME OutboxInv, NEW w \in Workers, ClaimCandidate(w)
  PROVE  OutboxInv'
<1> DEFINE x == Key(w)
           r == Claimed(w)
<1>0. TypeOK /\ x \in Keys /\ receipt[x] \in Receipts /\ receipt[x].attempts \in Nat
  BY Typed DEF OutboxInv
<1>1. /\ worker[w].at = "candidate"
      /\ UNCHANGED <<outbox, seen, consumers, applied, faults>>
  BY DEF ClaimCandidate
<1>2. CASE Unchanged(w) /\ AttemptsLeft(x)
  <2>1. /\ receipt' = [receipt EXCEPT ![x] = r]
        /\ worker' = [worker EXCEPT ![w] = [at |-> "claimed", event |-> worker[w].event,
                                            row |-> r]]
    BY <1>2 DEF ClaimCandidate
  <2>2. receipt[x].state = "pending" /\ receipt[x].attempts + 1 \in 0..MaxAttempts
    BY <1>0, <1>2, OutboxAssumption DEF Unchanged, AttemptsLeft
  <2>3. OwnerOf[w] \in Owners \cup {NoOwner} /\ OwnerOf[w] # NoOwner
    BY OutboxAssumption
  <2>4. /\ r \in Receipts /\ r.state = "pending" /\ r.owner = OwnerOf[w]
        /\ r.attempts = receipt[x].attempts + 1
    BY <1>0, <2>2, <2>3 DEF Claimed, Receipts
  <2> HIDE DEF r
  <2>5. /\ receipt' \in [Keys -> Receipts] /\ receipt'[x] = r
        /\ \A k \in Keys : k # x => receipt'[k] = receipt[k]
    BY <1>0, <2>1, <2>4 DEF TypeOK, Keys
  <2>6. [at |-> "claimed", event |-> worker[w].event, row |-> r] \in Drains
    BY <1>0, <2>4, <2>5, Typed DEF Drains
  <2>7. /\ worker' \in [Workers -> Drains]
        /\ worker'[w].at = "claimed" /\ worker'[w].event = worker[w].event
        /\ worker'[w].row = r /\ Key(w)' = x
        /\ \A v \in Workers : v # w => worker'[v] = worker[v] /\ Key(v)' = Key(v)
    BY <1>0, <2>1, <2>5, <2>6 DEF TypeOK, Key
  <2>8. TypeOK'
    BY <1>0, <1>1, <2>5, <2>7 DEF TypeOK, Keys
  <2>9. \A v \in Workers : Key(v) \in Keys /\ worker[v].row.attempts \in Nat
    BY <1>0, Typed
  <2>10. \A k \in Keys : receipt'[k].state = receipt[k].state
    BY <2>2, <2>4, <2>5
  <2> HIDE DEF x
  <2>11. ReceiptsComplete'
    <3> SUFFICES ASSUME NEW e \in outbox, NEW c \in consumers
                 PROVE  receipt'[<<e, c>>].state # "none"
      BY <1>1 DEF ReceiptsComplete
    <3>1. <<e, c>> \in Keys
      BY <1>0 DEF TypeOK, Keys
    <3> QED
      BY <2>10, <3>1 DEF OutboxInv, ReceiptsComplete
  <2>12. AtLeastOnce'
    BY <1>1, <2>10 DEF OutboxInv, AtLeastOnce, Keys
  <2>13. RowsConsistent'
    BY <1>1, <2>4, <2>5, <2>10 DEF OutboxInv, RowsConsistent, Keys
  <2>14. WorkersApplied'
    BY <1>1, <2>7 DEF OutboxInv, WorkersApplied
  <2>15. \A v \in Workers : v # w /\ worker[v].at \notin {"idle", "ended"} /\ Key(v) = x
           => worker[v].row.attempts < r.attempts
    BY <1>0, <2>2, <2>4, <2>9 DEF OutboxInv, DrainsBehind, x
  <2>16. DrainsBehind'
    <3> SUFFICES ASSUME NEW v \in Workers, worker'[v].at \notin {"idle", "ended"}
                 PROVE  /\ worker'[v].event \in seen /\ ConsumerOf[v] \in consumers
                        /\ receipt'[Key(v)'].state # "none" =>
                             worker'[v].row.attempts <= receipt'[Key(v)'].attempts
      BY <1>1 DEF DrainsBehind
    <3>1. CASE v = w
      BY <1>0, <1>1, <2>4, <2>5, <2>7, <3>1 DEF OutboxInv, DrainsBehind
    <3>2. CASE v # w /\ Key(v) = x
      BY <1>0, <2>4, <2>5, <2>7, <2>9, <2>15, <3>2 DEF OutboxInv, DrainsBehind
    <3>3. CASE v # w /\ Key(v) # x
      BY <2>5, <2>7, <2>9, <3>3 DEF OutboxInv, DrainsBehind
    <3> QED
      BY <3>1, <3>2, <3>3
  <2>17. \A v \in Workers : v # w /\ worker[v].at \notin {"idle", "ended"} =>
           \/ receipt'[Key(v)'] = receipt[Key(v)]
           \/ receipt'[Key(v)'].attempts # worker'[v].row.attempts
    BY <1>0, <2>4, <2>5, <2>7, <2>9, <2>15
  <2>18. CandidatesExpired'
    BY <2>7, <2>17 DEF OutboxInv, CandidatesExpired
  <2>19. ClaimsOwned'
    BY <2>4, <2>5, <2>7, <2>17 DEF OutboxInv, ClaimsOwned, Working
  <2> QED
    BY <2>8, <2>11, <2>12, <2>13, <2>14, <2>16, <2>18, <2>19 DEF OutboxInv
<1>3. CASE ~ (Unchanged(w) /\ AttemptsLeft(x))
  <2>1. (Moves(w, "idle") \/ Moves(w, "ended")) /\ UNCHANGED receipt
    BY <1>3 DEF ClaimCandidate
  <2> QED
    BY <1>0, <1>1, <2>1, MoveKeepsInv DEF TypeOK, Keys
<1> QED
  BY <1>2, <1>3

(* Only who applied the revocation acknowledges it.                          *)
LEMMA FinishClaimKeepsInv ==
  ASSUME OutboxInv, NEW w \in Workers, FinishClaim(w)
  PROVE  OutboxInv'
<1> DEFINE x == Key(w)
           r == Finished(w)
           same == /\ receipt[x].state = "pending" /\ receipt[x].owner = OwnerOf[w]
                   /\ receipt[x].attempts = worker[w].row.attempts
<1>0. TypeOK /\ x \in Keys /\ receipt[x] \in Receipts
  BY Typed DEF OutboxInv
<1>1. /\ worker[w].at \in {"finish", "release"}
      /\ Moves(w, "idle") \/ Moves(w, "ended")
      /\ UNCHANGED <<outbox, seen, consumers, applied, faults>>
  BY DEF FinishClaim
<1>2. CASE ~ same
  <2>1. UNCHANGED receipt
    BY <1>2 DEF FinishClaim
  <2> QED
    BY <1>0, <1>1, <2>1, MoveKeepsInv DEF TypeOK, Keys
<1>3. CASE same
  <2>1. receipt' = [receipt EXCEPT ![x] = r]
    BY <1>3 DEF FinishClaim
  <2>2. /\ r \in Receipts /\ r.owner = NoOwner /\ r.attempts = receipt[x].attempts
        /\ r.state \in {"pending", "acknowledged"}
        /\ r.state = "acknowledged" => worker[w].at = "finish"
    BY <1>0, <1>3, OutboxAssumption DEF Finished, Receipts
  <2> HIDE DEF r
  <2>3. /\ receipt' \in [Keys -> Receipts] /\ receipt'[x] = r
        /\ \A k \in Keys : k # x => receipt'[k] = receipt[k]
    BY <1>0, <2>1, <2>2 DEF TypeOK, Keys
  <2>4. /\ worker' \in [Workers -> Drains]
        /\ worker'[w].at \in {"idle", "ended"}
        /\ \A v \in Workers : v # w => worker'[v] = worker[v] /\ Key(v)' = Key(v)
    BY <1>0, <1>1 DEF TypeOK, Moves, Drains, Key
  <2>5. TypeOK'
    BY <1>0, <1>1, <2>3, <2>4 DEF TypeOK, Keys
  <2>6. \A v \in Workers : Key(v) \in Keys
    BY <1>0, Typed
  <2>7. r.state = "acknowledged" => x \in applied
    BY <2>2 DEF OutboxInv, WorkersApplied
  <2> HIDE DEF x
  <2>8. ReceiptsComplete'
    <3> SUFFICES ASSUME NEW e \in outbox, NEW c \in consumers
                 PROVE  receipt'[<<e, c>>].state # "none"
      BY <1>1 DEF ReceiptsComplete
    <3>1. <<e, c>> \in Keys
      BY <1>0 DEF TypeOK, Keys
    <3> QED
      BY <2>2, <2>3, <3>1 DEF OutboxInv, ReceiptsComplete
  <2>9. AtLeastOnce'
    BY <1>1, <2>3, <2>7 DEF OutboxInv, AtLeastOnce, Keys
  <2>10. RowsConsistent'
    BY <1>0, <1>1, <1>3, <2>2, <2>3 DEF OutboxInv, RowsConsistent, Keys, x
  <2>11. WorkersApplied'
    BY <1>1, <2>4 DEF OutboxInv, WorkersApplied
  <2>12. \A v \in Workers : /\ receipt'[Key(v)].attempts = receipt[Key(v)].attempts
                            /\ receipt'[Key(v)].state # "none" => receipt[Key(v)].state # "none"
                            /\ \/ receipt'[Key(v)].owner = NoOwner
                               \/ receipt'[Key(v)] = receipt[Key(v)]
    BY <1>3, <2>2, <2>3, <2>6 DEF x
  <2>13. DrainsBehind'
    BY <1>1, <2>4, <2>12 DEF OutboxInv, DrainsBehind
  <2>14. CandidatesExpired'
    BY <2>4, <2>12 DEF OutboxInv, CandidatesExpired
  <2>15. ClaimsOwned'
    BY <2>4, <2>12 DEF OutboxInv, ClaimsOwned, Working
  <2> QED
    BY <2>5, <2>8, <2>9, <2>10, <2>11, <2>13, <2>14, <2>15 DEF OutboxInv
<1> QED
  BY <1>2, <1>3

(* Every step preserves the inductive invariant.                             *)
LEMMA NextOutboxInv == OutboxInv /\ [Next]_vars => OutboxInv'
<1> SUFFICES ASSUME OutboxInv, [Next]_vars PROVE OutboxInv'
  OBVIOUS
<1>0. TypeOK
  BY DEF OutboxInv
<1>1. ASSUME NEW e \in Events, Append(e) PROVE OutboxInv'
  BY <1>1, AppendKeepsInv
<1>2. ASSUME NEW e \in Events, Cleanup(e) PROVE OutboxInv'
  BY <1>2, CleanupKeepsInv
<1>3. ASSUME NEW c \in Consumers, RegisterConsumer(c) PROVE OutboxInv'
  BY <1>3, RegisterKeepsInv
<1>4. ASSUME NEW k \in Events \X Consumers, Expire(k) PROVE OutboxInv'
  BY <1>4, ExpireKeepsInv DEF Keys
<1>5. ASSUME NEW w \in Workers, LoadClaimCandidate(w) PROVE OutboxInv'
  BY <1>5, LoadClaimCandidateKeepsInv
<1>6. ASSUME NEW w \in Workers, ClaimCandidate(w) PROVE OutboxInv'
  BY <1>6, ClaimCandidateKeepsInv
<1>7. ASSUME NEW w \in Workers, ApplyRevocation(w) PROVE OutboxInv'
  <2>1. Key(w) \in Keys
    BY <1>0, Typed
  <2> QED
    BY <1>0, <1>7, <2>1, MoveKeepsInv DEF ApplyRevocation, TypeOK, Keys
<1>8. ASSUME NEW w \in Workers, ApplyFails(w) PROVE OutboxInv'
  <2>1. faults' \in 0..MaxFaults
    BY <1>0, <1>8, OutboxAssumption DEF ApplyFails, Wrong, TypeOK
  <2> QED
    BY <1>0, <1>8, <2>1, MoveKeepsInv DEF ApplyFails, TypeOK, Keys
<1>9. ASSUME NEW w \in Workers, LoadClaim(w) PROVE OutboxInv'
  BY <1>9, LoadClaimKeepsInv
<1>10. ASSUME NEW w \in Workers, FinishClaim(w) PROVE OutboxInv'
  BY <1>10, FinishClaimKeepsInv
<1>11. ASSUME NEW w \in Workers, Abandon(w) PROVE OutboxInv'
  <2>1. faults' \in 0..MaxFaults
    BY <1>0, <1>11, OutboxAssumption DEF Abandon, Wrong, TypeOK
  <2> QED
    BY <1>0, <1>11, <2>1, MoveKeepsInv DEF Abandon, TypeOK, Keys
<1>12. ASSUME NEW w \in Workers, Restart(w) PROVE OutboxInv'
  BY <1>0, <1>12, MoveKeepsInv DEF Restart, TypeOK, Keys
<1>13. CASE UNCHANGED vars
  <2>1. \A w \in Workers : Key(w)' = Key(w)
    BY <1>13 DEF vars, Key
  <2>2. TypeOK' /\ ReceiptsComplete' /\ AtLeastOnce' /\ RowsConsistent'
    BY <1>13 DEF vars, OutboxInv, TypeOK, ReceiptsComplete, AtLeastOnce, RowsConsistent
  <2>3. WorkersApplied' /\ DrainsBehind' /\ CandidatesExpired' /\ ClaimsOwned'
    BY <1>13, DrainsKeepInv DEF vars
  <2> QED
    BY <2>2, <2>3 DEF OutboxInv
<1> QED
  BY <1>1, <1>2, <1>3, <1>4, <1>5, <1>6, <1>7, <1>8, <1>9, <1>10, <1>11, <1>12, <1>13
     DEF Next, DrainStep

(* The outbox keeps its inductive invariant.                                 *)
THEOREM OutboxInvariant == Spec => []OutboxInv
BY InitOutboxInv, NextOutboxInv, PTL DEF Spec

(* ReceiptsComplete for every instance: appends, registrations and cleanups  *)
(* leave no registered consumer without a receipt for an event.              *)
THEOREM ReceiptsAreComplete == Spec => []ReceiptsComplete
<1>1. OutboxInv => ReceiptsComplete
  BY DEF OutboxInv
<1> QED
  BY <1>1, OutboxInvariant, PTL

(* AtLeastOnce for every instance: whoever acknowledges a revocation, it was *)
(* applied, also when the acknowledging drain had lost its claim to another  *)
(* drain of its owner.                                                       *)
THEOREM AppliedAtLeastOnce == Spec => []AtLeastOnce
<1>1. OutboxInv => AtLeastOnce
  BY DEF OutboxInv
<1> QED
  BY <1>1, OutboxInvariant, PTL

(* NoEventLost for every instance: cleanup_acknowledged_before removes only  *)
(* events that every registered consumer applied.                            *)
THEOREM EventsAreNotLost == Spec => NoEventLost
<1> DEFINE Kept == \A e \in outbox \ outbox' : \A c \in consumers : <<e, c>> \in applied
<1>1. ASSUME OutboxInv, [Next]_vars PROVE [Kept]_vars
  <2> SUFFICES ASSUME NEW e \in outbox, e \notin outbox', NEW c \in consumers
               PROVE  <<e, c>> \in applied
    OBVIOUS
  <2>0. outbox' = outbox \/ (\E d \in Events : Append(d)) \/ \E d \in Events : Cleanup(d)
    BY <1>1 DEF Next, DrainStep, vars, RegisterConsumer, Expire, LoadClaimCandidate,
                ClaimCandidate, ApplyRevocation, ApplyFails, LoadClaim, FinishClaim,
                Abandon, Restart
  <2>1. PICK d \in Events : Cleanup(d)
    BY <2>0 DEF Append
  <2>2. d = e /\ Settled(e)
    BY <2>1 DEF Cleanup
  <2>3. receipt[<<e, c>>].state = "acknowledged"
    BY <2>2 DEF Settled
  <2>4. <<e, c>> \in Events \X Consumers
    BY <1>1 DEF OutboxInv, TypeOK
  <2> QED
    BY <1>1, <2>3, <2>4 DEF OutboxInv, AtLeastOnce
<1> QED
  BY <1>1, OutboxInvariant, PTL DEF Spec, NoEventLost

(* HolderKeepsClaim: claim_next and finish_claim respect a claim that has    *)
(* not expired, of every drain that does not share its owner name.           *)
THEOREM ClaimsAreKept == Spec => HolderKeepsClaim
<1> DEFINE Keeps == \A w \in Workers :
             Alone(w) /\ Holding(w) /\ worker'[w].at \in Working
               => /\ receipt'[Key(w)].owner = OwnerOf[w]
                  /\ receipt'[Key(w)].attempts = receipt[Key(w)].attempts
<1>1. ASSUME OutboxInv, [Next]_vars PROVE [Keeps]_vars
  <2> SUFFICES ASSUME NEW w \in Workers, Alone(w), Holding(w), worker'[w].at \in Working
               PROVE  /\ receipt'[Key(w)].owner = receipt[Key(w)].owner
                      /\ receipt'[Key(w)].attempts = receipt[Key(w)].attempts
    BY <1>1 DEF OutboxInv, ClaimsOwned, Holding
  <2> DEFINE x == Key(w)
  <2>0. TypeOK /\ x \in Keys /\ x[1] = worker[w].event /\ x[2] = ConsumerOf[w]
    BY <1>1, Typed DEF OutboxInv
  <2>1. /\ receipt[x].owner = OwnerOf[w] /\ receipt[x].owner # NoOwner
        /\ receipt[x].expired # TRUE /\ receipt[x].state = "pending"
        /\ receipt[x].attempts = worker[w].row.attempts
        /\ x[1] \in seen /\ x[2] \in consumers
    BY <1>1, <2>0 DEF Holding, OutboxInv, ClaimsOwned, RowsConsistent, DrainsBehind, Working, Keys
  <2>2. ASSUME NEW e \in Events, Append(e) PROVE receipt'[x] = receipt[x]
    BY <2>0, <2>1, <2>2 DEF Append, Keys
  <2>3. ASSUME NEW e \in Events, Cleanup(e) PROVE receipt'[x] = receipt[x]
    <3>1. CASE x[1] = e
      BY <2>0, <2>1, <2>3, <3>1 DEF Cleanup, Settled, Key
    <3> QED
      BY <2>0, <2>3, <3>1 DEF Cleanup, Keys
  <2>4. ASSUME NEW c \in Consumers, RegisterConsumer(c) PROVE receipt'[x] = receipt[x]
    BY <2>0, <2>1, <2>4 DEF RegisterConsumer, Backfilled, Keys
  <2>5. ASSUME NEW k \in Events \X Consumers, Expire(k)
        PROVE  receipt'[x].owner = receipt[x].owner /\ receipt'[x].attempts = receipt[x].attempts
    BY <2>0, <2>5 DEF Expire, TypeOK, Keys, Receipts
  <2>6. ASSUME NEW v \in Workers, ClaimCandidate(v) PROVE receipt'[x] = receipt[x]
    <3>1. Key(v) = x => ~ Unchanged(v)
      BY <1>1, <2>1, <2>6 DEF Unchanged, ClaimCandidate, OutboxInv, CandidatesExpired
    <3>2. Key(v) \in Keys
      BY <2>0, Typed
    <3> QED
      BY <2>0, <2>6, <3>1, <3>2 DEF ClaimCandidate, TypeOK, Keys
  <2>7. ASSUME NEW v \in Workers, FinishClaim(v) PROVE receipt'[x] = receipt[x]
    <3>1. v # w
      BY <2>0, <2>7 DEF FinishClaim, Moves, Working, TypeOK, Drains
    <3>2. Key(v) = x => receipt[x].owner # OwnerOf[v]
      BY <2>1, <3>1 DEF Alone
    <3>3. Key(v) \in Keys
      BY <2>0, Typed
    <3> QED
      BY <2>0, <2>7, <3>2, <3>3 DEF FinishClaim, TypeOK, Keys
  <2>8. CASE UNCHANGED receipt
    BY <2>8
  <2>9. \/ UNCHANGED receipt
        \/ \E e \in Events : Append(e) \/ Cleanup(e)
        \/ \E c \in Consumers : RegisterConsumer(c)
        \/ \E k \in Events \X Consumers : Expire(k)
        \/ \E v \in Workers : ClaimCandidate(v) \/ FinishClaim(v)
    BY <1>1 DEF Next, DrainStep, vars, LoadClaimCandidate, ApplyRevocation, ApplyFails,
                LoadClaim, Abandon, Restart
  <2> QED
    BY <2>2, <2>3, <2>4, <2>5, <2>6, <2>7, <2>8, <2>9
<1> QED
  BY <1>1, OutboxInvariant, PTL DEF Spec, HolderKeepsClaim
=============================================================================
