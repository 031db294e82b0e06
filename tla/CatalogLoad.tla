------------------------------ MODULE CatalogLoad ------------------------------
(***************************************************************************)
(* How a catalogue request that the cache cannot answer reaches a provider: *)
(* live/catalog/coalesce.rs (one load per cache key, shared by its waiters), *)
(* live/catalog/circuit.rs (a circuit breaker per provider and operation)   *)
(* and load_provider in live/catalog/service.rs, which runs inside the      *)
(* flight's task and asks the circuit.                                      *)
(*                                                                          *)
(* A flight is named after the request that created it.  Waiters join and   *)
(* leave while the task moves on, each atomic operation a step of its own   *)
(* (`completed' is set as the load returns: after that nothing listens to   *)
(* the upstream token).                                                     *)
(* A circuit's open mode is "open" before its `until' and "cooled" after.   *)
(***************************************************************************)
EXTENDS Naturals, FiniteSets

CONSTANTS Requests, Keys, NoFlight,
          Circuits, CircuitOf,   \* the provider and operation of a cache key
          Threshold,             \* failure_threshold
          MaxEntries             \* max_entries of the circuit table

ASSUME CatalogLoadAssumption ==
  /\ NoFlight \notin Requests
  /\ Keys # {}
  /\ CircuitOf \in [Keys -> Circuits]
  /\ Threshold \in Nat \ {0} /\ MaxEntries \in Nat \ {0}

VARIABLES
  request,   \* per request: its wait
  flights,   \* the coalescer's map
  flight,    \* per flight: its shared state and its task
  circuit,   \* per provider and operation
  entries    \* the circuits that are in the table

vars == <<request, flights, flight, circuit, entries>>

\* "provider" counts against the circuit, "other" does not (an account is required,
\* say); "cache": the answer came but could not be stored.
Results == {"none", "ok", "cache", "provider", "other", "cancelled", "circuit_open"}
Stages == {"none", "loading", "calling", "completed", "sent", "removed"}
Flights == [stage: Stages, key: Keys, waiters: Nat, cancelled: BOOLEAN, probe: BOOLEAN,
            result: Results]
Waits == [at: {"idle", "waiting", "leaving", "left", "answered"},
          flight: Requests \cup {NoFlight}, result: Results]
CircuitStates == [mode: {"closed", "open", "cooled", "half_open"}, failures: 0..Threshold]
NewFlight(k) == [stage |-> "none", key |-> k, waiters |-> 0, cancelled |-> FALSE,
                 probe |-> FALSE, result |-> "none"]
Closed == [mode |-> "closed", failures |-> 0]

(* One type invariant for the module: also, a count of waiters does not      *)
(* wrap, and a circuit that is not in the table has no state.                *)
TypeOK ==
  /\ request \in [Requests -> Waits]
  /\ flights \in [Keys -> Requests \cup {NoFlight}]
  /\ flight \in [Requests -> Flights]
  /\ circuit \in [Circuits -> CircuitStates]
  /\ entries \subseteq Circuits
  /\ \A c \in Circuits \ entries : circuit[c] = Closed

Init ==
  /\ request = [r \in Requests |-> [at |-> "idle", flight |-> NoFlight, result |-> "none"]]
  /\ flights = [k \in Keys |-> NoFlight]
  /\ flight = [r \in Requests |-> NewFlight(CHOOSE k \in Keys : TRUE)]
  /\ circuit = [c \in Circuits |-> Closed] /\ entries = {}

-----------------------------------------------------------------------------
(* The circuit breaker *)

\* What the table may be once the entry of c was looked up or created: when it
\* is full, whichever entry the iteration meets first goes; it may grow all the
\* same, as the size is not looked at under the lock of the insertion.
Touched(c) ==
  IF c \in entries THEN {entries}
  ELSE {entries \cup {c}}
       \cup {(entries \ {d}) \cup {c} : d \in {d \in entries : Cardinality(entries) >= MaxEntries}}

\* The entry of c becomes `state'; an entry that went is as good as new.
SetCircuit(c, state) ==
  \E kept \in Touched(c) :
    /\ entries' = kept
    /\ circuit' = [d \in Circuits |-> IF d = c THEN state
                                      ELSE IF d \in kept THEN circuit[d] ELSE Closed]

\* Mutant: a success forgets the failures and leaves the mode.
SucceededKeepingMode(s) == [s EXCEPT !.failures = 0]

Succeeded(s) == Closed

\* The counter saturates; only whether it reached the threshold matters.
Failed(s) ==
  LET failures == IF s.failures < Threshold THEN s.failures + 1 ELSE Threshold
  IN [mode |-> IF failures = Threshold \/ s.mode = "half_open" THEN "open" ELSE s.mode,
      failures |-> failures]

CoolDown(c) ==
  /\ circuit[c].mode = "open"
  /\ circuit' = [circuit EXCEPT ![c].mode = "cooled"]
  /\ UNCHANGED <<request, flights, flight, entries>>

-----------------------------------------------------------------------------
(* Waiters *)

\* Mutant: a flight nobody waits for any more is not joined but replaced.
JoinableWaited(k) == flights[k] # NoFlight /\ ~ flight[flights[k]].cancelled

Joinable(k) == flights[k] # NoFlight

\* The flight of a leader, whose task is spawned at once.
Lead(k) == [NewFlight(k) EXCEPT !.stage = "loading", !.waiters = 1]

\* run: join the key's flight, or become its leader.
Run(r, k) ==
  LET f == IF Joinable(k) THEN flights[k] ELSE r
  IN /\ request[r].at = "idle"
     /\ request' = [request EXCEPT ![r] = [at |-> "waiting", flight |-> f, result |-> "none"]]
     /\ flights' = [flights EXCEPT ![k] = f]
     /\ flight' = IF f = r
                  THEN [flight EXCEPT ![r] = Lead(k)]
                  ELSE [flight EXCEPT ![f].waiters = @ + 1]
     /\ UNCHANGED <<circuit, entries>>

\* Mutant: the result goes with the flight.
HasResultInMap(f) == flight[f].stage = "sent"

HasResult(f) == flight[f].stage \in {"sent", "removed"}

\* The result is there, also for who came after it; the guard is dropped.
Receive(r) ==
  /\ request[r].at = "waiting" /\ HasResult(request[r].flight)
  /\ request' = [request EXCEPT ![r].at = "answered",
                                ![r].result = flight[request[r].flight].result]
  /\ flight' = [flight EXCEPT ![request[r].flight].waiters = @ - 1]
  /\ UNCHANGED <<flights, circuit, entries>>

\* The waiter's token is cancelled or its request is dropped: remove_waiter
\* takes it out of the count ...
Leave(r) ==
  /\ request[r].at = "waiting"
  /\ request' = [request EXCEPT ![r].at =
                   IF flight[request[r].flight].waiters = 1 THEN "leaving" ELSE "left"]
  /\ flight' = [flight EXCEPT ![request[r].flight].waiters = @ - 1]
  /\ UNCHANGED <<flights, circuit, entries>>

Completed(f) == flight[f].stage \in {"completed", "sent", "removed"}

\* Mutant: the last waiter leaves the load running.
LastOneOutNever(f) == FALSE

LastOneOut(f) == ~ Completed(f)

\* ... and who was the last one cancels a load that has not completed.
CancelUpstream(r) ==
  /\ request[r].at = "leaving"
  /\ request' = [request EXCEPT ![r].at = "left"]
  /\ flight' = [flight EXCEPT ![request[r].flight].cancelled =
                  @ \/ LastOneOut(request[r].flight)]
  /\ UNCHANGED <<flights, circuit, entries>>

-----------------------------------------------------------------------------
(* The flight's task *)
Admit(f) ==
  LET c == CircuitOf[flight[f].key]
      mode == circuit[c].mode
  IN /\ flight[f].stage = "loading"
     /\ IF mode \in {"open", "half_open"}
        THEN flight' = [flight EXCEPT ![f].stage = "completed", ![f].result = "circuit_open"]
        ELSE flight' = [flight EXCEPT ![f].stage = "calling", ![f].probe = (mode = "cooled")]
     /\ SetCircuit(c, IF mode = "cooled" THEN [circuit[c] EXCEPT !.mode = "half_open"]
                      ELSE circuit[c])
     /\ UNCHANGED <<request, flights>>

Returns(f, result) ==
  /\ flight[f].stage = "calling"
  /\ flight' = [flight EXCEPT ![f].stage = "completed", ![f].result = result]
  /\ UNCHANGED <<request, flights>>

CallSucceeds(f) ==
  /\ \E result \in {"ok", "cache"} : Returns(f, result)
  /\ LET c == CircuitOf[flight[f].key] IN SetCircuit(c, Succeeded(circuit[c]))

CallFails(f) ==
  /\ Returns(f, "provider")
  /\ LET c == CircuitOf[flight[f].key] IN SetCircuit(c, Failed(circuit[c]))

\* Errors that circuit_failure does not count leave the circuit alone.
CallRefused(f) == Returns(f, "other") /\ UNCHANGED <<circuit, entries>>

CallCancelled(f) ==
  /\ flight[f].cancelled
  /\ Returns(f, "cancelled")
  /\ UNCHANGED <<circuit, entries>>

Send(f) ==
  /\ flight[f].stage = "completed"
  /\ flight' = [flight EXCEPT ![f].stage = "sent"]
  /\ UNCHANGED <<request, flights, circuit, entries>>

FlightsWithout(f) == [flights EXCEPT ![flight[f].key] = NoFlight]

Remove(f) ==
  /\ flight[f].stage = "sent"
  /\ flight' = [flight EXCEPT ![f].stage = "removed"]
  /\ flights' = FlightsWithout(f)
  /\ UNCHANGED <<request, circuit, entries>>

Task(f) ==
  \/ Admit(f) \/ CallSucceeds(f) \/ CallFails(f) \/ CallRefused(f) \/ CallCancelled(f)
  \/ Send(f) \/ Remove(f)

-----------------------------------------------------------------------------
Next ==
  \/ \E r \in Requests : (\E k \in Keys : Run(r, k)) \/ Receive(r) \/ Leave(r) \/ CancelUpstream(r)
  \/ \E f \in Requests : Task(f)
  \/ \E c \in Circuits : CoolDown(c)

Spec == Init /\ [][Next]_vars

(* Fairness: tasks are polled, a call ends (the hard timeout sees to it),    *)
(* and time passes.  Nobody has to make a request or to leave.               *)
FairSpec ==
  /\ Spec
  /\ \A r \in Requests : WF_vars(Task(r)) /\ WF_vars(Receive(r)) /\ WF_vars(CancelUpstream(r))
  /\ \A c \in Circuits : WF_vars(CoolDown(c))

-----------------------------------------------------------------------------
(* OneLoader: a cache key never has two loads at a time, whoever joins and   *)
(* leaves ("coalescing runs one loader", a test of catalog/tests.rs).        *)
OneLoader ==
  \A f, g \in Requests :
    /\ {flight[f].stage, flight[g].stage} \subseteq {"loading", "calling"}
    /\ flight[f].key = flight[g].key
    => f = g

(* AbandonedIsCancelled: a load that runs while nobody waits for it, and     *)
(* nobody is about to cancel it, has been cancelled ("last coalesced waiter  *)
(* cancels upstream", a test of catalog/tests.rs).                           *)
AbandonedIsCancelled ==
  \A f \in Requests :
    (/\ flight[f].stage \in {"loading", "calling"}
     /\ ~ \E r \in Requests : request[r].flight = f /\ request[r].at \in {"waiting", "leaving"})
      => flight[f].cancelled

(* ProbeOrLost: a half-open circuit waits for a probe that is under way, or  *)
(* for one whose outcome was not recorded: nothing else leaves it half-open. *)
ProbeOrLost ==
  \A c \in Circuits : circuit[c].mode = "half_open" =>
    \E f \in Requests :
      /\ flight[f].probe /\ CircuitOf[flight[f].key] = c
      /\ flight[f].stage = "calling" \/ flight[f].result \in {"other", "cancelled"}

(* EveryWaiterAnswered: who waits gets a result or leaves, also who joins    *)
(* when the result has been sent and the flight is not removed yet.          *)
EveryWaiterAnswered ==
  \A r \in Requests : request[r].at = "waiting" ~> request[r].at # "waiting"

(* HalfOpenEnds: a half-open circuit closes or opens again (handlers tell    *)
(* clients that the refusal of an open circuit is retryable).                *)
HalfOpenEnds ==
  \A c \in Circuits : circuit[c].mode = "half_open" ~> circuit[c].mode # "half_open"
=============================================================================
