--------------------------- MODULE RevocationOutbox ---------------------------
(***************************************************************************)
(* src/auth/revocation.rs and the drain loop of live/session/lifecycle.rs:  *)
(* revocations are appended with the change that causes them, every         *)
(* registered consumer has a receipt for each, and workers claim, apply and *)
(* acknowledge them.                                                        *)
(*                                                                          *)
(* A worker is one drain: a server's session task or one of its admin       *)
(* handlers, which all claim under the same owner name, or one of another   *)
(* server.  claim_next and finish_claim read and then compare-and-set, so   *)
(* each is two steps.  Instead of a clock, a claim's lease_expires_at is    *)
(* named by the attempt that wrote it, and whether it is past is a flag.    *)
(* A drain that meets an error ends: the session task takes its server out  *)
(* of control, a handler fails its request.  What starts again (a restarted *)
(* server drains at startup, another request) is the same worker.           *)
(***************************************************************************)
EXTENDS Naturals, FiniteSets

CONSTANTS Events,       \* numbered by occurred_at, which servers' clocks need not order
          Consumers, Owners, NoOwner,
          Workers, OwnerOf, ConsumerOf,
          ClaimScan,    \* MAX_CLAIM_SCAN: how many pending receipts are looked at
          MaxAttempts,  \* bound on the claims of a receipt (i32::MAX in the code)
          MaxFaults     \* bound on what goes wrong: claims that expire under their
                        \* worker, are abandoned, or whose revocation fails

ASSUME OutboxAssumption ==
  /\ Events \subseteq Nat
  /\ NoOwner \notin Owners
  /\ OwnerOf \in [Workers -> Owners]
  /\ ConsumerOf \in [Workers -> Consumers]
  /\ ClaimScan \in Nat \ {0} /\ MaxAttempts \in Nat \ {0} /\ MaxFaults \in Nat

VARIABLES
  outbox,      \* the events in the table
  seen,        \* events that were ever appended: an id is used once
  consumers,   \* the registered consumers
  receipt,     \* per event and consumer
  worker,      \* per worker: where its drain is
  applied,     \* history: what was applied for whom
  faults       \* how many faults happened

vars == <<outbox, seen, consumers, receipt, worker, applied, faults>>

Receipts == [state: {"none", "pending", "acknowledged"}, owner: Owners \cup {NoOwner},
             attempts: 0..MaxAttempts, expired: BOOLEAN]
NoReceipt == [state |-> "none", owner |-> NoOwner, attempts |-> 0, expired |-> FALSE]
Pending == [NoReceipt EXCEPT !.state = "pending"]

\* `row' is what the worker read of the receipt before its compare-and-set.
Drains == [at: {"idle", "candidate", "claimed", "applied", "failed", "finish", "release",
                "ended"},
           event: Events, row: Receipts]

(* One type invariant for the module. *)
TypeOK ==
  /\ outbox \subseteq Events /\ seen \subseteq Events /\ consumers \subseteq Consumers
  /\ receipt \in [Events \X Consumers -> Receipts]
  /\ worker \in [Workers -> Drains]
  /\ applied \subseteq Events \X Consumers /\ faults \in 0..MaxFaults

Init ==
  /\ outbox = {} /\ seen = {} /\ consumers = {} /\ applied = {} /\ faults = 0
  /\ receipt = [k \in Events \X Consumers |-> NoReceipt]
  /\ \E e \in Events :
       worker = [w \in Workers |-> [at |-> "idle", event |-> e, row |-> NoReceipt]]

Key(w) == <<worker[w].event, ConsumerOf[w]>>
Moves(w, place) == worker' = [worker EXCEPT ![w].at = place]

-----------------------------------------------------------------------------
(* append, register_consumer and cleanup_acknowledged_before, serialized by  *)
(* the registry row.                                                         *)
Append(e) ==
  /\ e \notin seen
  /\ outbox' = outbox \cup {e} /\ seen' = seen \cup {e}
  /\ receipt' = [k \in Events \X Consumers |->
                   IF k[1] = e /\ k[2] \in consumers THEN Pending ELSE receipt[k]]
  /\ UNCHANGED <<consumers, worker, applied, faults>>

\* Mutant: receipts only for events to come.
NotBackfilled(c) == receipt

Backfilled(c) ==
  [k \in Events \X Consumers |->
     IF k[1] \in outbox /\ k[2] = c /\ receipt[k].state = "none" THEN Pending ELSE receipt[k]]

RegisterConsumer(c) ==
  /\ consumers' = consumers \cup {c}
  /\ receipt' = Backfilled(c)
  /\ UNCHANGED <<outbox, seen, worker, applied, faults>>

\* Mutant: a receipt that is missing or claimed does not keep the event.
NobodyWaits(e) == \E c \in Consumers : receipt[<<e, c>>].state = "acknowledged"

Settled(e) == \A c \in consumers : receipt[<<e, c>>].state = "acknowledged"

\* Past its retain_until, an event goes with its receipts.
Cleanup(e) ==
  /\ e \in outbox /\ Settled(e)
  /\ outbox' = outbox \ {e}
  /\ receipt' = [k \in Events \X Consumers |-> IF k[1] = e THEN NoReceipt ELSE receipt[k]]
  /\ UNCHANGED <<seen, consumers, worker, applied, faults>>

Wrong == faults < MaxFaults /\ faults' = faults + 1

Working == {"claimed", "applied", "failed", "finish", "release"}

\* A worker still works under the claim the receipt shows.
Holding(w) ==
  /\ worker[w].at \in Working
  /\ receipt[Key(w)].attempts = worker[w].row.attempts
  /\ receipt[Key(w)].owner # NoOwner /\ ~ receipt[Key(w)].expired

\* A claim's lease_expires_at passes.
Expire(k) ==
  /\ receipt[k].owner # NoOwner /\ ~ receipt[k].expired
  /\ IF \E w \in Workers : Holding(w) /\ Key(w) = k THEN Wrong ELSE UNCHANGED faults
  /\ receipt' = [receipt EXCEPT ![k].expired = TRUE]
  /\ UNCHANGED <<outbox, seen, consumers, worker, applied>>

-----------------------------------------------------------------------------
(* claim_next *)

\* The receipts load_claim_candidate looks at: the oldest pending ones.
Scanned(c) ==
  LET pending == {e \in outbox : receipt[<<e, c>>].state = "pending"}
  IN {e \in pending : Cardinality({f \in pending : f < e}) < ClaimScan}

\* Mutant: a claim of somebody else is taken although it has not expired.
ClaimableAlways(e, c) == TRUE

\* Mutant: nobody takes an expired claim over.
ClaimableUnclaimed(e, c) == receipt[<<e, c>>].owner = NoOwner

Claimable(e, c) == receipt[<<e, c>>].owner = NoOwner \/ receipt[<<e, c>>].expired

AttemptsLeft(k) == receipt[k].attempts < MaxAttempts

LoadClaimCandidate(w) ==
  LET c == ConsumerOf[w]
      candidates == {e \in Scanned(c) : Claimable(e, c)}
  IN /\ worker[w].at = "idle" /\ c \in consumers
     /\ \E e \in candidates :
          /\ \A f \in candidates : e <= f
          /\ AttemptsLeft(<<e, c>>)
          /\ worker' = [worker EXCEPT ![w] = [at |-> "candidate", event |-> e,
                                              row |-> receipt[<<e, c>>]]]
     /\ UNCHANGED <<outbox, seen, consumers, receipt, applied, faults>>

\* The receipt is as it was read: unclaimed, or under the same expired claim.
Unchanged(w) ==
  LET now == receipt[Key(w)]
      row == worker[w].row
  IN /\ now.state = "pending" /\ now.owner = row.owner
     /\ row.owner # NoOwner => now.attempts = row.attempts

Claimed(w) ==
  [receipt[Key(w)] EXCEPT !.owner = OwnerOf[w], !.attempts = @ + 1, !.expired = FALSE]

\* When it is not, PostgreSQL updates no row and the drain looks again; SQLite
\* reports that the transaction cannot write.
ClaimCandidate(w) ==
  /\ worker[w].at = "candidate"
  /\ IF Unchanged(w) /\ AttemptsLeft(Key(w))
     THEN /\ receipt' = [receipt EXCEPT ![Key(w)] = Claimed(w)]
          /\ worker' = [worker EXCEPT ![w] = [at |-> "claimed", event |-> worker[w].event,
                                              row |-> Claimed(w)]]
     ELSE /\ Moves(w, "idle") \/ Moves(w, "ended")
          /\ UNCHANGED receipt
  /\ UNCHANGED <<outbox, seen, consumers, applied, faults>>

-----------------------------------------------------------------------------
(* drain_revocations: apply, then acknowledge or give the claim back.        *)
ApplyRevocation(w) ==
  /\ worker[w].at = "claimed"
  /\ applied' = applied \cup {Key(w)}
  /\ Moves(w, "applied")
  /\ UNCHANGED <<outbox, seen, consumers, receipt, faults>>

ApplyFails(w) ==
  /\ worker[w].at = "claimed"
  /\ Wrong
  /\ Moves(w, "failed")
  /\ UNCHANGED <<outbox, seen, consumers, receipt, applied>>

\* finish_claim reads the claim its owner has on the event, if it has not
\* expired; otherwise the drain ends, with LeaseLost or the error it met.
LoadClaim(w) ==
  LET now == receipt[Key(w)]
  IN /\ worker[w].at \in {"applied", "failed"}
     /\ IF now.state = "pending" /\ now.owner = OwnerOf[w] /\ ~ now.expired
        THEN worker' = [worker EXCEPT ![w] =
               [at |-> IF worker[w].at = "applied" THEN "finish" ELSE "release",
                event |-> worker[w].event, row |-> now]]
        ELSE Moves(w, "ended")
     /\ UNCHANGED <<outbox, seen, consumers, receipt, applied, faults>>

\* Mutant: a claim that is given back counts as acknowledged.
FinishedAlways(w) == [receipt[Key(w)] EXCEPT !.state = "acknowledged", !.owner = NoOwner,
                                             !.expired = FALSE]

Finished(w) ==
  [receipt[Key(w)] EXCEPT !.state = IF worker[w].at = "finish" THEN "acknowledged" ELSE @,
                          !.owner = NoOwner, !.expired = FALSE]

FinishClaim(w) ==
  LET now == receipt[Key(w)]
      same == /\ now.state = "pending" /\ now.owner = OwnerOf[w]
              /\ now.attempts = worker[w].row.attempts
  IN /\ worker[w].at \in {"finish", "release"}
     /\ receipt' = IF same THEN [receipt EXCEPT ![Key(w)] = Finished(w)] ELSE receipt
     /\ Moves(w, IF same /\ worker[w].at = "finish" THEN "idle" ELSE "ended")
     /\ UNCHANGED <<outbox, seen, consumers, applied, faults>>

\* The request is dropped, or the process dies, and the claim stays.  (Before
\* the claim is committed that leaves no trace.)
Abandon(w) ==
  /\ worker[w].at \in Working
  /\ Wrong
  /\ Moves(w, "ended")
  /\ UNCHANGED <<outbox, seen, consumers, receipt, applied>>

\* The server is started again, or another request drains.
Restart(w) ==
  /\ worker[w].at = "ended"
  /\ Moves(w, "idle")
  /\ UNCHANGED <<outbox, seen, consumers, receipt, applied, faults>>

-----------------------------------------------------------------------------
DrainStep(w) ==
  \/ LoadClaimCandidate(w) \/ ClaimCandidate(w) \/ ApplyRevocation(w)
  \/ LoadClaim(w) \/ FinishClaim(w)

Next ==
  \/ \E e \in Events : Append(e) \/ Cleanup(e)
  \/ \E c \in Consumers : RegisterConsumer(c)
  \/ \E k \in Events \X Consumers : Expire(k)
  \/ \E w \in Workers : DrainStep(w) \/ ApplyFails(w) \/ Abandon(w) \/ Restart(w)

Spec == Init /\ [][Next]_vars

(* Fairness: a drain that has not ended is polled for ever and its awaits    *)
(* come back, and time passes every claim that is not finished.  Nothing     *)
(* makes a restart, a request or a fault happen.                             *)
Fairness ==
  /\ \A w \in Workers : WF_vars(DrainStep(w))
  /\ \A k \in Events \X Consumers : WF_vars(Expire(k))

FairSpec == Spec /\ Fairness

-----------------------------------------------------------------------------
(* ReceiptsComplete: however appends, registrations and cleanups interleave, *)
(* every registered consumer has a receipt for every event of the table.     *)
ReceiptsComplete ==
  \A e \in outbox, c \in consumers : receipt[<<e, c>>].state # "none"

(* AtLeastOnce: an acknowledged revocation was applied, whoever acknowledged *)
(* it: a worker may finish a claim that another worker of its owner made.    *)
AtLeastOnce ==
  \A k \in Events \X Consumers : receipt[k].state = "acknowledged" => k \in applied

(* NoEventLost: an event leaves the table only after every consumer that is  *)
(* registered then applied it.                                               *)
NoEventLost ==
  [][ \A e \in outbox \ outbox' : \A c \in consumers : <<e, c>> \in applied ]_vars

(* HolderKeepsClaim: as long as the claim of a working worker has not        *)
(* expired, the receipt stays under it: nobody of another owner takes it,    *)
(* finishes it or gives it back ("a live lease must exclude a second owner", *)
(* a test of revocation.rs).  Drains that share their owner name can finish  *)
(* each other's claims, so it is about a drain that does not.                *)
Alone(w) == \A v \in Workers : OwnerOf[v] = OwnerOf[w] => v = w
HolderKeepsClaim ==
  [][ \A w \in Workers :
        Alone(w) /\ Holding(w) /\ worker'[w].at \in Working
          => /\ receipt'[Key(w)].owner = OwnerOf[w]
             /\ receipt'[Key(w)].attempts = receipt[Key(w)].attempts ]_vars

(* EventuallyAcknowledged: every revocation is in the end acknowledged for   *)
(* every registered consumer, whatever was abandoned, failed or expired, as  *)
(* long as one drain of the consumer is left and no receipt of it has used   *)
(* up its attempts: such a receipt makes every claim_next fail.              *)
EventuallyAcknowledged ==
  \A k \in Events \X Consumers :
    receipt[k].state = "pending" ~>
      \/ receipt[k].state # "pending"
      \/ \E e \in Events : LET row == receipt[<<e, k[2]>>] IN
            row.state = "pending" /\ row.attempts = MaxAttempts
      \/ \A w \in Workers : ConsumerOf[w] = k[2] => worker[w].at = "ended"

-----------------------------------------------------------------------------
(* The inductive invariant behind them.                                     *)

\* Who acknowledges, applied.
WorkersApplied ==
  \A w \in Workers : worker[w].at \in {"applied", "finish"} => Key(w) \in applied

\* The rows the database's keys and checks allow.
RowsConsistent ==
  /\ outbox \subseteq seen
  /\ \A k \in Events \X Consumers :
       /\ receipt[k].state # "none" => k[1] \in outbox
       /\ receipt[k].owner # NoOwner => receipt[k].state = "pending"

\* A drain knows an event of the past, for a registered consumer, and a claim
\* that is not newer than the receipt's.
DrainsBehind ==
  \A w \in Workers : worker[w].at \notin {"idle", "ended"} =>
    /\ worker[w].event \in seen /\ ConsumerOf[w] \in consumers
    /\ receipt[Key(w)].state # "none" =>
         worker[w].row.attempts <= receipt[Key(w)].attempts

\* A claim that was read to be taken over had expired.
CandidatesExpired ==
  \A w \in Workers :
    (/\ worker[w].at = "candidate" /\ worker[w].row.owner # NoOwner
     /\ receipt[Key(w)].owner # NoOwner
     /\ receipt[Key(w)].attempts = worker[w].row.attempts)
      => receipt[Key(w)].expired = TRUE

\* The claim a drain works under was made for its owner.
ClaimsOwned ==
  \A w \in Workers :
    (/\ worker[w].at \in Working /\ receipt[Key(w)].owner # NoOwner
     /\ receipt[Key(w)].attempts = worker[w].row.attempts)
      => receipt[Key(w)].owner = OwnerOf[w]

OutboxInv ==
  /\ TypeOK /\ ReceiptsComplete /\ AtLeastOnce /\ WorkersApplied
  /\ RowsConsistent /\ DrainsBehind /\ CandidatesExpired /\ ClaimsOwned
=============================================================================
