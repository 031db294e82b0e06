--------------------------- MODULE CatalogLoadProofs ---------------------------
(* Theorems about CatalogLoad, for any set of requests, of keys and of      *)
(* circuits, finite or not, any threshold and any size of the circuit table. *)
EXTENDS CatalogLoad, FiniteSetTheorems, TLAPS

(***************************************************************************)
(* The inductive invariant                                                 *)
(***************************************************************************)

\* A flight is in the map from its creation to its removal.
InMap == {"loading", "calling", "completed", "sent"}

\* The map and the flights agree: a flight that has not been removed is the flight of its
\* key, and what the map holds for a key is such a flight of that key.
MapIsExact ==
  /\ \A f \in Requests : flight[f].stage \in InMap => flights[flight[f].key] = f
  /\ \A k \in Keys : flights[k] # NoFlight =>
       flight[flights[k]].key = k /\ flight[flights[k]].stage \in InMap

\* A request that was not made has no flight of its own, and one that was made is in some
\* flight that was created.
RequestsOK ==
  \A r \in Requests :
    IF request[r].at = "idle"
    THEN flight[r].stage = "none"
    ELSE request[r].flight \in Requests /\ flight[request[r].flight].stage # "none"

\* A flight is a probe only once the circuit has let it call.
ProbesCall == \A f \in Requests : flight[f].probe => flight[f].stage \notin {"none", "loading"}

Waiters(f) == {r \in Requests : request[r].at = "waiting" /\ request[r].flight = f}

\* The atomic counter of a flight is the number of its waiters.
CountIsExact ==
  \A f \in Requests :
    /\ IsFiniteSet(Waiters(f))
    /\ flight[f].waiters = Cardinality(Waiters(f))

CatalogInv ==
  /\ TypeOK
  /\ MapIsExact
  /\ RequestsOK
  /\ ProbesCall
  /\ CountIsExact
  /\ AbandonedIsCancelled
  /\ ProbeOrLost

(***************************************************************************)
(* Lemmas                                                                  *)
(***************************************************************************)

\* The blank values have the types of flights and of circuits.
LEMMA Blanks ==
  /\ \A k \in Keys : NewFlight(k) \in Flights
  /\ \A k \in Keys : Lead(k) \in Flights
  /\ Closed \in CircuitStates
<1>1. \A k \in Keys : NewFlight(k) \in Flights
  BY DEF NewFlight, Flights, Stages, Results
<1>2. \A k \in Keys : Lead(k) \in Flights
  BY DEF Lead, NewFlight, Flights, Stages, Results
<1>3. Closed \in CircuitStates
  BY CatalogLoadAssumption DEF Closed, CircuitStates
<1> QED
  BY <1>1, <1>2, <1>3

\* What the outcome of a call makes of a circuit is a circuit that is not half-open.
LEMMA Outcomes ==
  ASSUME NEW s \in CircuitStates
  PROVE  /\ Succeeded(s) \in CircuitStates /\ Succeeded(s).mode # "half_open"
         /\ Failed(s) \in CircuitStates /\ Failed(s).mode # "half_open"
<1>1. Succeeded(s) \in CircuitStates /\ Succeeded(s).mode # "half_open"
  BY Blanks DEF Succeeded, Closed
<1>2. Failed(s) \in CircuitStates /\ Failed(s).mode # "half_open"
  BY CatalogLoadAssumption DEF Failed, CircuitStates
<1> QED
  BY <1>1, <1>2

\* Setting a circuit: the table stays a table, the circuit has the state it was given, and
\* any other one keeps its state or is evicted and closed.
LEMMA CircuitSet ==
  ASSUME TypeOK, NEW c \in Circuits, NEW state \in CircuitStates, SetCircuit(c, state)
  PROVE  /\ circuit' \in [Circuits -> CircuitStates]
         /\ entries' \subseteq Circuits
         /\ \A d \in Circuits \ entries' : circuit'[d] = Closed
         /\ circuit'[c] = state
         /\ \A d \in Circuits \ {c} : circuit'[d] \in {circuit[d], Closed}
<1>1. PICK kept \in Touched(c) :
        /\ entries' = kept
        /\ circuit' = [d \in Circuits |-> IF d = c THEN state
                                          ELSE IF d \in kept THEN circuit[d] ELSE Closed]
  BY DEF SetCircuit
<1>2. c \in kept /\ kept \subseteq Circuits
  BY DEF Touched, TypeOK
<1> QED
  BY <1>1, <1>2, Blanks DEF TypeOK

\* The initial state satisfies the invariant: nobody waits.
LEMMA InitCatalogInv == Init => CatalogInv
<1> SUFFICES ASSUME Init PROVE CatalogInv
  OBVIOUS
<1> DEFINE someKey == CHOOSE k \in Keys : TRUE
<1>1. someKey \in Keys
  BY CatalogLoadAssumption
<1> HIDE DEF someKey
<1>2. flight = [r \in Requests |-> NewFlight(someKey)]
  BY DEF Init, someKey
<1>3. TypeOK
  BY <1>1, <1>2, Blanks DEF Init, TypeOK, Waits, Results
<1>4. MapIsExact /\ RequestsOK /\ ProbesCall
  BY <1>2 DEF Init, MapIsExact, RequestsOK, ProbesCall, InMap, NewFlight
<1>5. CountIsExact
  <2> SUFFICES ASSUME NEW f \in Requests
               PROVE  IsFiniteSet(Waiters(f)) /\ flight[f].waiters = Cardinality(Waiters(f))
    BY DEF CountIsExact
  <2>1. Waiters(f) = {}
    BY DEF Init, Waiters
  <2> QED
    BY <1>2, <2>1, FS_EmptySet DEF NewFlight
<1>6. AbandonedIsCancelled
  BY <1>2 DEF AbandonedIsCancelled, NewFlight
<1>7. ProbeOrLost
  BY DEF Init, ProbeOrLost, Closed
<1> QED
  BY <1>3, <1>4, <1>5, <1>6, <1>7 DEF CatalogInv

\* Who waits is counted: a flight with a waiter has a positive count, and when somebody
\* else waits for it too, more than one.
LEMMA WaiterCounts ==
  ASSUME TypeOK, CountIsExact, NEW f \in Requests, NEW r \in Waiters(f)
  PROVE  /\ flight[f].waiters \in Nat \ {0}
         /\ IsFiniteSet(Waiters(f) \ {r})
         /\ Cardinality(Waiters(f) \ {r}) = flight[f].waiters - 1
         /\ flight[f].waiters # 1 => Waiters(f) \ {r} # {}
<1>1. IsFiniteSet(Waiters(f)) /\ flight[f].waiters = Cardinality(Waiters(f))
  BY DEF CountIsExact
<1>2. flight[f].waiters \in Nat
  BY DEF TypeOK, Flights
<1>3. flight[f].waiters # 0
  BY <1>1, FS_EmptySet
<1>4. /\ IsFiniteSet(Waiters(f) \ {r})
      /\ Cardinality(Waiters(f) \ {r}) = flight[f].waiters - 1
  BY <1>1, FS_RemoveElement
<1>5. flight[f].waiters # 1 => Waiters(f) \ {r} # {}
  BY <1>2, <1>4, FS_EmptySet
<1> QED
  BY <1>2, <1>3, <1>4, <1>5

\* A half-open circuit keeps the flight it waits for when no flight and no circuit changes
\* in what ties them together.
LEMMA ProbeFrame ==
  ASSUME TypeOK, ProbeOrLost, circuit' = circuit,
         \A f \in Requests : flight[f].probe =>
           /\ flight'[f].probe /\ flight'[f].key = flight[f].key
           /\ flight'[f].stage = flight[f].stage \/ flight'[f].result \in {"other", "cancelled"}
           /\ flight'[f].result = flight[f].result \/ flight'[f].result \in {"other", "cancelled"}
  PROVE  ProbeOrLost'
BY DEF ProbeOrLost

(***************************************************************************)
(* Each step preserves the invariant                                       *)
(***************************************************************************)

\* Joining a flight or leading a new one.
LEMMA RunStep ==
  ASSUME CatalogInv, NEW r \in Requests, NEW k \in Keys, Run(r, k)
  PROVE  CatalogInv'
<1> DEFINE f == IF Joinable(k) THEN flights[k] ELSE r
<1> USE DEF CatalogInv
<1>1. /\ request[r].at = "idle"
      /\ request' = [request EXCEPT ![r] = [at |-> "waiting", flight |-> f, result |-> "none"]]
      /\ flights' = [flights EXCEPT ![k] = f]
      /\ flight' = IF f = r THEN [flight EXCEPT ![r] = Lead(k)]
                   ELSE [flight EXCEPT ![f].waiters = @ + 1]
      /\ circuit' = circuit /\ entries' = entries
  BY DEF Run
<1>2. flight[r].stage = "none" /\ ~ flight[r].probe
  BY <1>1 DEF RequestsOK, ProbesCall
<1>3. f \in Requests /\ (f = r \/ (flights[k] = f /\ flight[f].key = k /\ flight[f].stage \in InMap))
  BY DEF Joinable, TypeOK, MapIsExact
<1>4. f = r => flights[k] = NoFlight
  BY <1>2 DEF Joinable, MapIsExact, InMap, TypeOK
<1> HIDE DEF f
<1>5. \A g \in Requests : flight[g] \in Flights
  BY DEF TypeOK
<1>6. TypeOK'
  <2>1. request' \in [Requests -> Waits]
    BY <1>1, <1>3 DEF TypeOK, Waits, Results
  <2>2. flight' \in [Requests -> Flights]
    BY <1>1, <1>3, <1>5, Blanks DEF TypeOK, Flights
  <2> QED
    BY <1>1, <1>3, <2>1, <2>2 DEF TypeOK
<1>7. \A g \in Requests \ {f} : flight'[g] = flight[g]
  BY <1>1 DEF TypeOK
<1>8. /\ flight'[f].key = k /\ flight'[f].stage \in InMap
      /\ f # r => /\ flight'[f].stage = flight[f].stage /\ flight'[f].key = flight[f].key
                  /\ flight'[f].probe = flight[f].probe /\ flight'[f].result = flight[f].result
                  /\ flight'[f].cancelled = flight[f].cancelled
  BY <1>1, <1>3, <1>5 DEF Lead, NewFlight, InMap, TypeOK, Flights
<1>9. MapIsExact'
  <2>1. ASSUME NEW g \in Requests, flight'[g].stage \in InMap
        PROVE  flights'[flight'[g].key] = g
    BY <1>1, <1>3, <1>4, <1>7, <1>8, <2>1, CatalogLoadAssumption DEF MapIsExact, TypeOK, Flights
  <2>2. ASSUME NEW j \in Keys, flights'[j] # NoFlight
        PROVE  flight'[flights'[j]].key = j /\ flight'[flights'[j]].stage \in InMap
    BY <1>1, <1>2, <1>3, <1>7, <1>8, <2>2 DEF MapIsExact, TypeOK, InMap
  <2> QED
    BY <2>1, <2>2 DEF MapIsExact
<1>10. RequestsOK' /\ ProbesCall'
  <2>1. RequestsOK'
    BY <1>1, <1>2, <1>3, <1>7, <1>8 DEF RequestsOK, TypeOK, InMap
  <2>2. ~ (f = r /\ flight'[f].probe)
    BY <1>1 DEF Lead, NewFlight, TypeOK
  <2>3. ProbesCall'
    BY <1>3, <1>7, <1>8, <2>2 DEF ProbesCall
  <2> QED
    BY <2>1, <2>3
<1>11. CountIsExact'
  <2> SUFFICES ASSUME NEW g \in Requests
               PROVE  (IsFiniteSet(Waiters(g)) /\ flight[g].waiters = Cardinality(Waiters(g)))'
    BY DEF CountIsExact
  <2>1. IsFiniteSet(Waiters(g)) /\ flight[g].waiters = Cardinality(Waiters(g))
    BY DEF CountIsExact
  <2>2. r \notin Waiters(g)
    BY <1>1 DEF Waiters
  <2>3. CASE g # f
    <3>1. Waiters(g)' = Waiters(g)
      BY <1>1, <2>3 DEF Waiters, TypeOK
    <3> QED
      BY <1>7, <2>1, <2>3, <3>1
  <2>4. CASE g = f
    <3>1. Waiters(g)' = Waiters(g) \cup {r}
      BY <1>1, <2>4 DEF Waiters, TypeOK
    <3>2. IsFiniteSet(Waiters(g)') /\ Cardinality(Waiters(g)') = flight[g].waiters + 1
      BY <2>1, <2>2, <3>1, FS_AddElement
    <3>3. CASE f = r
      <4>1. Waiters(g) = {}
        BY <1>2, <2>4, <3>3 DEF Waiters, RequestsOK
      <4>2. flight[g].waiters = 0
        BY <2>1, <4>1, FS_EmptySet
      <4>3. flight'[g].waiters = 1
        BY <1>1, <2>4, <3>3 DEF Lead, NewFlight, TypeOK
      <4> QED
        BY <3>2, <4>2, <4>3
    <3>4. CASE f # r
      BY <1>1, <1>5, <2>4, <3>2, <3>4 DEF TypeOK, Flights
    <3> QED
      BY <3>3, <3>4
  <2> QED
    BY <2>3, <2>4
<1>12. AbandonedIsCancelled'
  BY <1>1, <1>3, <1>7, <1>8 DEF AbandonedIsCancelled, TypeOK
<1>13. ProbeOrLost'
  BY <1>1, <1>2, <1>3, <1>7, <1>8, ProbeFrame
<1> QED
  BY <1>6, <1>9, <1>10, <1>11, <1>12, <1>13

\* A waiter that receives the result or leaves.
LEMMA LessWaiters ==
  ASSUME CatalogInv, NEW r \in Requests, NEW wait \in Waits,
         request[r].at = "waiting",
         wait.flight = request[r].flight, wait.at \in {"leaving", "left", "answered"},
         wait.at = "left" => flight[wait.flight].waiters # 1,
         wait.at = "answered" => HasResult(wait.flight),
         request' = [request EXCEPT ![r] = wait],
         flight' = [flight EXCEPT ![request[r].flight].waiters = @ - 1],
         UNCHANGED <<flights, circuit, entries>>
  PROVE  CatalogInv'
<1> DEFINE f == request[r].flight
<1> USE DEF CatalogInv
<1>1. f \in Requests /\ flight[f].stage # "none"
  BY DEF RequestsOK
<1> HIDE DEF f
<1>2. r \in Waiters(f)
  BY DEF Waiters, f
<1>3. \A g \in Requests : flight[g] \in Flights
  BY DEF TypeOK
<1>4. \A g \in Requests \ {f} : flight'[g] = flight[g]
  BY DEF TypeOK, f
<1>5. /\ flight'[f].waiters = flight[f].waiters - 1
      /\ flight'[f].key = flight[f].key /\ flight'[f].stage = flight[f].stage
      /\ flight'[f].probe = flight[f].probe /\ flight'[f].result = flight[f].result
      /\ flight'[f].cancelled = flight[f].cancelled
  BY <1>1, <1>3 DEF TypeOK, Flights, f
<1>6. TypeOK'
  <2>1. flight[f].waiters \in Nat \ {0}
    BY <1>1, <1>2, WaiterCounts
  <2>2. flight[f].waiters - 1 \in Nat
    BY <2>1
  <2>3. [flight[f] EXCEPT !.waiters = @ - 1] \in Flights
    BY <1>1, <1>3, <2>2 DEF Flights
  <2>4. flight' = [flight EXCEPT ![f] = [flight[f] EXCEPT !.waiters = @ - 1]]
    BY DEF f
  <2>5. flight' \in [Requests -> Flights]
    BY <2>3, <2>4 DEF TypeOK
  <2> QED
    BY <2>5 DEF TypeOK
<1>7. MapIsExact'
  BY <1>4, <1>5 DEF MapIsExact, TypeOK, Flights
<1>8. RequestsOK' /\ ProbesCall'
  BY <1>1, <1>4, <1>5 DEF RequestsOK, ProbesCall, TypeOK, f
<1>9. \A g \in Requests : Waiters(g)' = IF g = f THEN Waiters(g) \ {r} ELSE Waiters(g)
  BY DEF Waiters, TypeOK, f
<1>10. CountIsExact'
  BY <1>1, <1>2, <1>4, <1>5, <1>9, WaiterCounts DEF CountIsExact
<1>11. AbandonedIsCancelled'
  <2> SUFFICES ASSUME NEW g \in Requests, flight'[g].stage \in {"loading", "calling"},
                      ~ \E q \in Requests : /\ request'[q].flight = g
                                            /\ request'[q].at \in {"waiting", "leaving"}
               PROVE  flight'[g].cancelled
    BY DEF AbandonedIsCancelled
  <2>1. CASE g # f
    BY <1>4, <2>1 DEF AbandonedIsCancelled, TypeOK, f
  <2>2. CASE g = f
    <3>1. wait.at # "leaving"
      BY <2>2 DEF TypeOK, f
    <3>2. wait.at # "answered"
      BY <1>5, <2>2 DEF HasResult, f
    <3>3. Waiters(f) \ {r} # {}
      BY <1>1, <1>2, <3>1, <3>2, WaiterCounts DEF f
    <3>4. PICK q \in Waiters(f) : q # r
      BY <3>3
    <3>5. q \in Requests /\ request'[q].at = "waiting" /\ request'[q].flight = f
      BY <3>4 DEF Waiters, TypeOK
    <3> QED
      BY <2>2, <3>5
  <2> QED
    BY <2>1, <2>2
<1>12. ProbeOrLost'
  BY <1>4, <1>5, ProbeFrame
<1> QED
  BY <1>6, <1>7, <1>8, <1>10, <1>11, <1>12

\* Receiving the result of the flight.
LEMMA ReceiveStep ==
  ASSUME CatalogInv, NEW r \in Requests, Receive(r)
  PROVE  CatalogInv'
<1> DEFINE wait == [request[r] EXCEPT !.at = "answered",
                                      !.result = flight[request[r].flight].result]
<1>1. request[r].flight \in Requests
  BY DEF Receive, CatalogInv, RequestsOK
<1>2. request[r] \in Waits /\ flight[request[r].flight] \in Flights
  BY <1>1 DEF CatalogInv, TypeOK
<1>3. wait \in Waits /\ wait.at = "answered" /\ wait.flight = request[r].flight
  BY <1>2 DEF Waits, Flights
<1>4. /\ request' = [request EXCEPT ![r] = wait]
      /\ request[r].at = "waiting"
      /\ HasResult(request[r].flight)
      /\ flight' = [flight EXCEPT ![request[r].flight].waiters = @ - 1]
      /\ UNCHANGED <<flights, circuit, entries>>
  BY DEF Receive
<1> QED
  BY <1>3, <1>4, LessWaiters

\* Leaving the count of waiters.
LEMMA LeaveStep ==
  ASSUME CatalogInv, NEW r \in Requests, Leave(r)
  PROVE  CatalogInv'
<1> DEFINE wait == [request[r] EXCEPT !.at =
                      IF flight[request[r].flight].waiters = 1 THEN "leaving" ELSE "left"]
<1>1. request[r] \in Waits
  BY DEF CatalogInv, TypeOK
<1>2. /\ wait \in Waits /\ wait.flight = request[r].flight
      /\ wait.at \in {"leaving", "left"}
      /\ wait.at = "left" => flight[wait.flight].waiters # 1
  BY <1>1 DEF Waits
<1>3. /\ request' = [request EXCEPT ![r] = wait]
      /\ request[r].at = "waiting"
      /\ flight' = [flight EXCEPT ![request[r].flight].waiters = @ - 1]
      /\ UNCHANGED <<flights, circuit, entries>>
  BY DEF Leave
<1> QED
  BY <1>2, <1>3, LessWaiters

\* The last waiter cancels the load.
LEMMA CancelUpstreamStep ==
  ASSUME CatalogInv, NEW r \in Requests, CancelUpstream(r)
  PROVE  CatalogInv'
<1> DEFINE f == request[r].flight
<1> USE DEF CatalogInv
<1>1. /\ request[r].at = "leaving"
      /\ request' = [request EXCEPT ![r].at = "left"]
      /\ flight' = [flight EXCEPT ![f].cancelled = @ \/ LastOneOut(f)]
      /\ UNCHANGED <<flights, circuit, entries>>
  BY DEF CancelUpstream
<1>2. f \in Requests /\ flight[f].stage # "none"
  BY <1>1 DEF RequestsOK
<1>3. request[r] \in Waits /\ \A g \in Requests : flight[g] \in Flights
  BY DEF TypeOK
<1>4. \A q \in Requests : /\ request'[q].flight = request[q].flight
                          /\ q # r => request'[q].at = request[q].at
                          /\ request'[r].at = "left"
  BY <1>1, <1>3 DEF TypeOK, Waits
<1> HIDE DEF f
<1>5. \A g \in Requests \ {f} : flight'[g] = flight[g]
  BY <1>1 DEF TypeOK
<1>6. /\ flight'[f].waiters = flight[f].waiters
      /\ flight'[f].key = flight[f].key /\ flight'[f].stage = flight[f].stage
      /\ flight'[f].probe = flight[f].probe /\ flight'[f].result = flight[f].result
      /\ flight'[f].cancelled = (flight[f].cancelled \/ LastOneOut(f))
  BY <1>1, <1>2, <1>3 DEF TypeOK, Flights
<1>7. TypeOK'
  <2>1. request' \in [Requests -> Waits]
    BY <1>1, <1>3 DEF TypeOK, Waits
  <2>2. LastOneOut(f) \in BOOLEAN
    BY DEF LastOneOut
  <2>3. flight' \in [Requests -> Flights]
    BY <1>1, <1>2, <1>3, <2>2 DEF TypeOK, Flights
  <2> QED
    BY <1>1, <2>1, <2>3 DEF TypeOK
<1>8. MapIsExact'
  BY <1>1, <1>5, <1>6 DEF MapIsExact, TypeOK, Flights
<1>9. RequestsOK' /\ ProbesCall'
  BY <1>1, <1>2, <1>4, <1>5, <1>6 DEF RequestsOK, ProbesCall, TypeOK, f
<1>10. CountIsExact'
  <2>1. \A g \in Requests : Waiters(g)' = Waiters(g)
    BY <1>1, <1>4 DEF Waiters
  <2> QED
    BY <1>5, <1>6, <2>1 DEF CountIsExact
<1>11. AbandonedIsCancelled'
  <2> SUFFICES ASSUME NEW g \in Requests, flight'[g].stage \in {"loading", "calling"},
                      ~ \E q \in Requests : /\ request'[q].flight = g
                                            /\ request'[q].at \in {"waiting", "leaving"}
               PROVE  flight'[g].cancelled
    BY DEF AbandonedIsCancelled
  <2>1. CASE g # f
    BY <1>4, <1>5, <2>1 DEF AbandonedIsCancelled, f
  <2>2. CASE g = f
    BY <1>6, <2>2 DEF LastOneOut, Completed
  <2> QED
    BY <2>1, <2>2
<1>12. ProbeOrLost'
  BY <1>1, <1>5, <1>6, ProbeFrame
<1> QED
  BY <1>7, <1>8, <1>9, <1>10, <1>11, <1>12

\* What the steps of a flight's task have in common: they change the stage, the result and
\* the probe flag of their own flight only, and do not touch the requests.
TaskFrame(f) ==
  /\ request' = request
  /\ \A g \in Requests \ {f} : flight'[g] = flight[g]
  /\ flight'[f].key = flight[f].key
  /\ flight'[f].waiters = flight[f].waiters
  /\ flight'[f].cancelled = flight[f].cancelled
  /\ flight[f].stage # "none" /\ flight'[f].stage # "none"
  /\ flight'[f].stage \in {"loading", "calling"} => flight[f].stage \in {"loading", "calling"}
  /\ flight'[f].probe => flight'[f].stage # "loading"

\* Such a step keeps what concerns requests and waiters.
LEMMA TaskFrameOK ==
  ASSUME CatalogInv, NEW f \in Requests, TaskFrame(f)
  PROVE  RequestsOK' /\ ProbesCall' /\ CountIsExact' /\ AbandonedIsCancelled'
<1> USE DEF CatalogInv, TaskFrame
<1>1. RequestsOK' /\ ProbesCall'
  BY DEF RequestsOK, ProbesCall
<1>2. CountIsExact'
  <2>1. \A g \in Requests : Waiters(g)' = Waiters(g)
    BY DEF Waiters
  <2>2. \A g \in Requests : flight'[g].waiters = flight[g].waiters
    OBVIOUS
  <2> QED
    BY <2>1, <2>2 DEF CountIsExact
<1>3. AbandonedIsCancelled'
  BY DEF AbandonedIsCancelled
<1> QED
  BY <1>1, <1>2, <1>3

\* A task that stays in the map keeps the map exact.
LEMMA MapFrame ==
  ASSUME CatalogInv, NEW f \in Requests, TaskFrame(f), flights' = flights,
         flight[f].stage \in InMap, flight'[f].stage \in InMap
  PROVE  MapIsExact'
BY DEF CatalogInv, TypeOK, Flights, TaskFrame, MapIsExact

\* The circuit decides whether the task may call.
LEMMA AdmitStep ==
  ASSUME CatalogInv, NEW f \in Requests, Admit(f)
  PROVE  CatalogInv'
<1> DEFINE c == CircuitOf[flight[f].key]
           mode == circuit[c].mode
           state == IF mode = "cooled" THEN [circuit[c] EXCEPT !.mode = "half_open"]
                    ELSE circuit[c]
<1> USE DEF CatalogInv
<1>1. /\ flight[f].stage = "loading"
      /\ request' = request /\ flights' = flights
      /\ SetCircuit(c, state)
  BY DEF Admit
<1>2. \/ /\ mode \in {"open", "half_open"}
         /\ flight' = [flight EXCEPT ![f].stage = "completed", ![f].result = "circuit_open"]
      \/ /\ mode \notin {"open", "half_open"}
         /\ flight' = [flight EXCEPT ![f].stage = "calling", ![f].probe = (mode = "cooled")]
  BY DEF Admit
<1>3. flight[f] \in Flights /\ c \in Circuits /\ circuit[c] \in CircuitStates
  BY CatalogLoadAssumption DEF TypeOK, Flights
<1>4. state \in CircuitStates /\ (state.mode = "half_open" => mode \in {"cooled", "half_open"})
  BY <1>3 DEF CircuitStates
<1>5. state.mode = "half_open" /\ mode # "cooled" => mode = "half_open"
  BY <1>4
<1> HIDE DEF c, mode, state
<1>6. TaskFrame(f) /\ flight'[f].stage \in {"calling", "completed"}
  BY <1>1, <1>2, <1>3 DEF TaskFrame, TypeOK, Flights
<1>7. flight' \in [Requests -> Flights]
  BY <1>2, <1>3 DEF TypeOK, Flights, Stages, Results
<1>8. TypeOK'
  BY <1>1, <1>3, <1>4, <1>7, CircuitSet DEF TypeOK
<1>9. RequestsOK' /\ ProbesCall' /\ CountIsExact' /\ AbandonedIsCancelled'
  BY <1>6, TaskFrameOK
<1>10. MapIsExact'
  BY <1>1, <1>6, MapFrame DEF InMap
<1>11. ProbeOrLost'
  <2> SUFFICES ASSUME NEW d \in Circuits, circuit'[d].mode = "half_open"
               PROVE  \E g \in Requests :
                        /\ flight'[g].probe /\ CircuitOf[flight'[g].key] = d
                        /\ flight'[g].stage = "calling"
                           \/ flight'[g].result \in {"other", "cancelled"}
    BY DEF ProbeOrLost
  <2>1. CASE d = c /\ mode = "cooled"
    <3>1. flight'[f].probe /\ flight'[f].stage = "calling" /\ flight'[f].key = flight[f].key
      BY <1>2, <1>3, <2>1 DEF TypeOK, Flights
    <3> QED
      BY <2>1, <3>1 DEF c
  <2>2. CASE ~ (d = c /\ mode = "cooled")
    <3>1. circuit[d].mode = "half_open"
      BY <1>1, <1>3, <1>4, <1>5, <2>2, CircuitSet DEF Closed, mode
    <3>2. PICK g \in Requests :
            /\ flight[g].probe /\ CircuitOf[flight[g].key] = d
            /\ flight[g].stage = "calling" \/ flight[g].result \in {"other", "cancelled"}
      BY <3>1 DEF ProbeOrLost
    <3>3. g # f
      BY <1>1, <3>2 DEF ProbesCall
    <3> QED
      BY <1>6, <3>2, <3>3 DEF TaskFrame
  <2> QED
    BY <2>1, <2>2
<1> QED
  BY <1>8, <1>9, <1>10, <1>11

\* A call that returned: the flight is completed, and if it was the probe of a circuit that
\* is still half-open, its outcome was not recorded.
LEMMA ReturnsStep ==
  ASSUME CatalogInv, NEW f \in Requests, NEW result \in Results, Returns(f, result),
         circuit' \in [Circuits -> CircuitStates], entries' \subseteq Circuits,
         \A d \in Circuits \ entries' : circuit'[d] = Closed,
         \A d \in Circuits : circuit'[d].mode = "half_open" =>
           /\ circuit[d].mode = "half_open"
           /\ d = CircuitOf[flight[f].key] => result \in {"other", "cancelled"}
  PROVE  CatalogInv'
<1> USE DEF CatalogInv
<1>1. /\ flight[f].stage = "calling"
      /\ flight' = [flight EXCEPT ![f].stage = "completed", ![f].result = result]
      /\ request' = request /\ flights' = flights
  BY DEF Returns
<1>2. flight[f] \in Flights
  BY DEF TypeOK
<1>3. /\ TaskFrame(f)
      /\ flight'[f].stage = "completed" /\ flight'[f].result = result
      /\ flight'[f].probe = flight[f].probe
  BY <1>1, <1>2 DEF TaskFrame, TypeOK, Flights
<1>4. flight' \in [Requests -> Flights]
  BY <1>1, <1>2 DEF TypeOK, Flights, Stages
<1>5. TypeOK'
  BY <1>1, <1>4 DEF TypeOK
<1>6. RequestsOK' /\ ProbesCall' /\ CountIsExact' /\ AbandonedIsCancelled'
  BY <1>3, TaskFrameOK
<1>7. MapIsExact'
  BY <1>1, <1>3, MapFrame DEF InMap
<1>8. ProbeOrLost'
  <2> SUFFICES ASSUME NEW d \in Circuits, circuit'[d].mode = "half_open"
               PROVE  \E g \in Requests :
                        /\ flight'[g].probe /\ CircuitOf[flight'[g].key] = d
                        /\ flight'[g].stage = "calling"
                           \/ flight'[g].result \in {"other", "cancelled"}
    BY DEF ProbeOrLost
  <2>1. PICK g \in Requests :
          /\ flight[g].probe /\ CircuitOf[flight[g].key] = d
          /\ flight[g].stage = "calling" \/ flight[g].result \in {"other", "cancelled"}
    BY DEF ProbeOrLost
  <2>2. CASE g = f
    BY <1>3, <2>1, <2>2 DEF TaskFrame
  <2>3. CASE g # f
    BY <1>3, <2>1, <2>3 DEF TaskFrame
  <2> QED
    BY <2>2, <2>3
<1> QED
  BY <1>5, <1>6, <1>7, <1>8

\* The four ways a call ends.
LEMMA CallStep ==
  ASSUME CatalogInv, NEW f \in Requests,
         CallSucceeds(f) \/ CallFails(f) \/ CallRefused(f) \/ CallCancelled(f)
  PROVE  CatalogInv'
<1> DEFINE c == CircuitOf[flight[f].key]
<1>1. TypeOK /\ c \in Circuits /\ circuit[c] \in CircuitStates
  BY CatalogLoadAssumption DEF CatalogInv, TypeOK, Flights
<1>2. ASSUME NEW result \in Results, Returns(f, result),
             NEW state \in CircuitStates, state.mode # "half_open", SetCircuit(c, state)
      PROVE  CatalogInv'
  <2> HIDE DEF c
  <2>1. /\ circuit' \in [Circuits -> CircuitStates]
        /\ entries' \subseteq Circuits
        /\ \A d \in Circuits \ entries' : circuit'[d] = Closed
        /\ circuit'[c] = state
        /\ \A d \in Circuits \ {c} : circuit'[d] \in {circuit[d], Closed}
    BY <1>1, <1>2, CircuitSet
  <2>2. \A d \in Circuits : circuit'[d].mode = "half_open" =>
          circuit[d].mode = "half_open" /\ d # c
    BY <1>2, <2>1 DEF Closed
  <2> QED
    BY <1>2, <2>1, <2>2, ReturnsStep DEF c
<1>3. ASSUME NEW result \in {"other", "cancelled"}, Returns(f, result),
             UNCHANGED <<circuit, entries>>
      PROVE  CatalogInv'
  <2>1. result \in Results
    BY DEF Results
  <2> QED
    BY <1>1, <1>3, <2>1, ReturnsStep DEF TypeOK
<1>4. CASE CallSucceeds(f)
  <2>1. PICK result \in {"ok", "cache"} : Returns(f, result)
    BY <1>4 DEF CallSucceeds
  <2>2. SetCircuit(c, Succeeded(circuit[c]))
    BY <1>4 DEF CallSucceeds
  <2>3. result \in Results
    BY DEF Results
  <2> QED
    BY <1>1, <1>2, <2>1, <2>2, <2>3, Outcomes
<1>5. CASE CallFails(f)
  <2>1. Returns(f, "provider") /\ SetCircuit(c, Failed(circuit[c]))
    BY <1>5 DEF CallFails
  <2>2. "provider" \in Results
    BY DEF Results
  <2> QED
    BY <1>1, <1>2, <2>1, <2>2, Outcomes
<1>6. CASE CallRefused(f)
  BY <1>3, <1>6 DEF CallRefused
<1>7. CASE CallCancelled(f)
  BY <1>3, <1>7 DEF CallCancelled
<1> QED
  BY <1>4, <1>5, <1>6, <1>7

\* The result is sent to the waiters, or the flight leaves the map.
LEMMA SendRemoveStep ==
  ASSUME CatalogInv, NEW f \in Requests, Send(f) \/ Remove(f)
  PROVE  CatalogInv'
<1> USE DEF CatalogInv
<1>1. /\ flight[f].stage \in {"completed", "sent"}
      /\ flight' = [flight EXCEPT ![f].stage = IF flight[f].stage = "sent" THEN "removed" ELSE "sent"]
      /\ flights' = IF flight[f].stage = "sent" THEN [flights EXCEPT ![flight[f].key] = NoFlight]
                    ELSE flights
      /\ request' = request /\ circuit' = circuit /\ entries' = entries
  BY DEF Send, Remove, FlightsWithout
<1>2. flight[f] \in Flights
  BY DEF TypeOK
<1>3. /\ TaskFrame(f)
      /\ flight'[f].stage = IF flight[f].stage = "sent" THEN "removed" ELSE "sent"
      /\ flight'[f].probe = flight[f].probe /\ flight'[f].result = flight[f].result
  BY <1>1, <1>2 DEF TaskFrame, TypeOK, Flights
<1>4. TypeOK'
  <2>1. flight' \in [Requests -> Flights]
    BY <1>1, <1>2 DEF TypeOK, Flights, Stages
  <2> QED
    BY <1>1, <1>2, <2>1 DEF TypeOK, Flights
<1>5. RequestsOK' /\ ProbesCall' /\ CountIsExact' /\ AbandonedIsCancelled'
  BY <1>3, TaskFrameOK
<1>6. MapIsExact'
  <2>1. CASE flight[f].stage = "completed"
    BY <1>1, <1>3, <2>1, MapFrame DEF InMap
  <2>2. CASE flight[f].stage = "sent"
    BY <1>1, <1>2, <1>3, <2>2 DEF MapIsExact, InMap, TaskFrame, TypeOK, Flights
  <2> QED
    BY <1>1, <2>1, <2>2
<1>7. ProbeOrLost'
  BY <1>1, <1>3 DEF ProbeOrLost, TaskFrame
<1> QED
  BY <1>4, <1>5, <1>6, <1>7

\* Time passes for an open circuit.
LEMMA CoolDownStep ==
  ASSUME CatalogInv, NEW c \in Circuits, CoolDown(c)
  PROVE  CatalogInv'
<1> USE DEF CatalogInv
<1>1. /\ circuit[c].mode = "open"
      /\ circuit' = [circuit EXCEPT ![c].mode = "cooled"]
      /\ request' = request /\ flights' = flights /\ flight' = flight /\ entries' = entries
  BY DEF CoolDown
<1>2. circuit[c] \in CircuitStates
  BY DEF TypeOK
<1>3. circuit'[c].mode = "cooled" /\ \A d \in Circuits \ {c} : circuit'[d] = circuit[d]
  BY <1>1, <1>2 DEF TypeOK, CircuitStates
<1>4. TypeOK'
  <2>1. c \in entries
    BY <1>1 DEF TypeOK, Closed
  <2>2. circuit' \in [Circuits -> CircuitStates]
    BY <1>1, <1>2 DEF TypeOK, CircuitStates
  <2> QED
    BY <1>1, <1>3, <2>1, <2>2 DEF TypeOK
<1>5. MapIsExact' /\ RequestsOK' /\ ProbesCall' /\ AbandonedIsCancelled'
  BY <1>1 DEF MapIsExact, RequestsOK, ProbesCall, AbandonedIsCancelled
<1>6. CountIsExact'
  BY <1>1 DEF CountIsExact, Waiters
<1>7. ProbeOrLost'
  BY <1>1, <1>3 DEF ProbeOrLost
<1> QED
  BY <1>4, <1>5, <1>6, <1>7

\* Every step of the specification, or none at all, preserves the invariant.
LEMMA NextCatalogInv == CatalogInv /\ [Next]_vars => CatalogInv'
<1> SUFFICES ASSUME CatalogInv, [Next]_vars PROVE CatalogInv'
  OBVIOUS
<1>1. ASSUME NEW r \in Requests, NEW k \in Keys, Run(r, k) PROVE CatalogInv'
  BY <1>1, RunStep
<1>2. ASSUME NEW r \in Requests, Receive(r) \/ Leave(r) \/ CancelUpstream(r) PROVE CatalogInv'
  BY <1>2, ReceiveStep, LeaveStep, CancelUpstreamStep
<1>3. ASSUME NEW f \in Requests, Task(f) PROVE CatalogInv'
  BY <1>3, AdmitStep, CallStep, SendRemoveStep DEF Task
<1>4. ASSUME NEW c \in Circuits, CoolDown(c) PROVE CatalogInv'
  BY <1>4, CoolDownStep
<1>5. CASE UNCHANGED vars
  <2>1. request' = request /\ flights' = flights /\ flight' = flight
        /\ circuit' = circuit /\ entries' = entries
    BY <1>5 DEF vars
  <2>2. TypeOK' /\ MapIsExact' /\ RequestsOK' /\ ProbesCall'
    BY <2>1 DEF CatalogInv, TypeOK, MapIsExact, RequestsOK, ProbesCall
  <2>3. CountIsExact'
    BY <2>1 DEF CatalogInv, CountIsExact, Waiters
  <2>4. AbandonedIsCancelled' /\ ProbeOrLost'
    BY <2>1 DEF CatalogInv, AbandonedIsCancelled, ProbeOrLost
  <2> QED
    BY <2>2, <2>3, <2>4 DEF CatalogInv
<1> QED
  BY <1>1, <1>2, <1>3, <1>4, <1>5 DEF Next

(***************************************************************************)
(* Theorems                                                                *)
(***************************************************************************)

\* The invariant holds whatever requests come, join, leave and are answered.
THEOREM CatalogInvariant == Spec => []CatalogInv
<1> QED
  BY InitCatalogInv, NextCatalogInv, PTL DEF Spec

\* The tables keep their types: the waiter count never goes below zero (the code
\* subtracts with wrap-around), and an evicted circuit has no state left.
THEOREM CatalogTypes == Spec => []TypeOK
<1>1. CatalogInv => TypeOK
  BY DEF CatalogInv
<1> QED
  BY <1>1, CatalogInvariant, PTL

\* The counter that decides who cancels the load is the number of the flight's waiters.
THEOREM WaiterCountIsExact == Spec => []CountIsExact
<1>1. CatalogInv => CountIsExact
  BY DEF CatalogInv
<1> QED
  BY <1>1, CatalogInvariant, PTL

\* A cache key never has two loads at a time (coalesce.rs, run).
THEOREM OneLoaderPerKey == Spec => []OneLoader
<1>1. CatalogInv => OneLoader
  BY DEF CatalogInv, MapIsExact, InMap, OneLoader
<1> QED
  BY <1>1, CatalogInvariant, PTL

\* A load that nobody waits for has been cancelled (coalesce.rs, remove_waiter).
THEOREM AbandonedLoadsAreCancelled == Spec => []AbandonedIsCancelled
<1>1. CatalogInv => AbandonedIsCancelled
  BY DEF CatalogInv
<1> QED
  BY <1>1, CatalogInvariant, PTL

\* A half-open circuit has a probe under way or one whose outcome was not recorded
\* (circuit.rs, admit), also when entries are evicted from the table.
THEOREM HalfOpenHasAProbe == Spec => []ProbeOrLost
<1>1. CatalogInv => ProbeOrLost
  BY DEF CatalogInv
<1> QED
  BY <1>1, CatalogInvariant, PTL

=============================================================================
