--------------------------- MODULE ControlLeaseProofs ---------------------------
(***************************************************************************)
(* Proofs about the control lease for every set of instances, every time   *)
(* to live and every fence limit.                                          *)
(***************************************************************************)
EXTENDS ControlLease, TLAPS

(* What the invariant says of one copy of a lease that instance s has.      *)
CopyOK(s, c) ==
  /\ c.token <= row.token
  /\ Owns(s, c) => c.expires <= row.expires
  /\ Unexpired(c) => Owns(s, c) \/ c.token \in released
  /\ c.token # 0 /\ c.token = row.token => row.owner \in {s, NoServer}

(* Different instances know different tokens.                               *)
TokensApart ==
  \A s \in Servers : \A q \in Servers \ {s} : \A c \in Copies(s) : \A d \in Copies(q) :
    c.token # 0 => d.token # c.token

(* The three conjuncts of LeaseInv about copies, copy by copy.              *)
LEMMA CopyByCopy ==
  (CopiesAreBehindRow /\ CopiesAreKept /\ FenceUnique)
    <=> (TokensApart /\ \A s \in Servers : \A c \in Copies(s) : CopyOK(s, c))
BY DEF CopiesAreBehindRow, CopiesAreKept, FenceUnique, TokensApart, CopyOK

(* The values that stand for "nothing" have their types, and a copy is a     *)
(* lease.                                                                    *)
LEMMA CopyTypes ==
  ASSUME TypeOK
  PROVE  /\ NoLease \in Leases /\ Idle \in Calls
         /\ row.token \in 0..MaxFence /\ row.expires \in Nat /\ row.owner \in Servers \cup {NoServer}
         /\ \A s \in Servers : /\ \A t \in Tasks : call[s][t] \in Calls
                               /\ call[s].heartbeat \in Calls
                               /\ Copies(s) \subseteq Leases
<1> USE ControlLeaseAssumption
<1>1. NoLease \in Leases
  BY DEF NoLease, Leases, NoTime
<1>2. Idle \in Calls
  BY <1>1 DEF At, Idle, Calls, NoTime, Places, Results
<1>3. \A s \in Servers : \A t \in Tasks : call[s][t] \in Calls /\ call[s][t].lease \in Leases
  BY DEF TypeOK, Calls
<1>4. \A s \in Servers : Copies(s) \subseteq Leases
  <2>1. \A s \in Servers : lease[s] \in Leases
    BY DEF TypeOK
  <2> QED
    BY <1>3, <2>1 DEF Copies
<1>5. /\ row.token \in 0..MaxFence /\ row.expires \in Nat
      /\ row.owner \in Servers \cup {NoServer}
  BY DEF TypeOK, Rows
<1>6. \A s \in Servers : call[s].heartbeat \in Calls
  BY <1>3 DEF Tasks
<1> QED
  BY <1>1, <1>2, <1>3, <1>4, <1>5, <1>6

(* The initial state of the lease row satisfies the inductive invariant.    *)
LEMMA InitLeaseInv == Init => LeaseInv
<1> SUFFICES ASSUME Init PROVE LeaseInv
  OBVIOUS
<1> USE ControlLeaseAssumption
<1>1. NoLease \in Leases /\ Idle \in Calls /\ Idle.lease = NoLease
  BY DEF NoLease, Leases, NoTime, At, Idle, Calls, Places, Results
<1>2. TypeOK
  BY <1>1 DEF Init, TypeOK, Rows, NoTime
<1>3. CallsInProgress
  BY DEF Init, CallsInProgress, At, Idle, NoTime, Tasks
<1>4. \A s \in Servers : Copies(s) = {NoLease}
  BY <1>1 DEF Init, Copies, Tasks
<1>5. TokensApart /\ \A s \in Servers : \A c \in Copies(s) : CopyOK(s, c)
  BY <1>4 DEF TokensApart, CopyOK, NoLease, NoTime, Init, Unexpired, Owns
<1>6. ReleasedIsOver
  BY DEF Init, ReleasedIsOver
<1> QED
  BY <1>2, <1>3, <1>5, <1>6, CopyByCopy DEF LeaseInv

(* A task goes on with c: its instance knows the lease of c, and no other    *)
(* instance learns anything.                                                 *)
LEMMA ContinueLearns ==
  ASSUME TypeOK, NEW s \in Servers, NEW t \in Tasks, NEW c \in Calls, Continue(s, t, c)
  PROVE  /\ call' \in [Servers -> [Tasks -> Calls]]
         /\ call'[s][t] = c
         /\ \A q \in Servers, u \in Tasks : <<q, u>> # <<s, t>> => call'[q][u] = call[q][u]
BY DEF TypeOK, Continue

(* What copies there are after a step in which instance s learns the lease   *)
(* `new', in a call or in runtime.lease.                                     *)
LEMMA CopiesAfter ==
  ASSUME TypeOK, NEW s \in Servers, NEW t \in Tasks, NEW c \in Calls, Continue(s, t, c),
         lease' \in {lease, [lease EXCEPT ![s] = NoLease],
                     [lease EXCEPT ![s] = call[s].heartbeat.lease]}
  PROVE  /\ \A q \in Servers \ {s} : Copies(q)' = Copies(q)
         /\ Copies(s)' \subseteq Copies(s) \cup {NoLease, c.lease}
         /\ lease' \in [Servers -> Leases]
<1>1. \A q \in Servers, u \in Tasks : <<q, u>> # <<s, t>> => call'[q][u] = call[q][u]
  BY ContinueLearns
<1>2. call'[s][t] = c
  BY ContinueLearns
<1>3. \A q \in Servers \ {s} : lease'[q] = lease[q]
  BY DEF TypeOK
<1>4. lease'[s] \in {lease[s], NoLease, call[s].heartbeat.lease}
  BY DEF TypeOK
<1>5. \A q \in Servers \ {s} : Copies(q)' = Copies(q)
  BY <1>1, <1>3 DEF Copies
<1>6. lease'[s] \in Copies(s) \cup {NoLease}
  BY <1>4 DEF Copies, Tasks
<1>7. \A u \in Tasks : call'[s][u].lease \in Copies(s) \cup {c.lease}
  BY <1>1, <1>2 DEF Copies
<1>8. lease' \in [Servers -> Leases]
  BY CopyTypes DEF TypeOK, Copies, Tasks
<1> QED
  BY <1>5, <1>6, <1>7, <1>8 DEF Copies

(* A copy that does not own the row stays so, and one that was given up too: *)
(* what the row may do without harm to copies that stay.                     *)
LEMMA StepKeepsCopies ==
  ASSUME LeaseInv, NEW s \in Servers, NEW new \in Leases,
         \A q \in Servers \ {s} : Copies(q)' = Copies(q),
         Copies(s)' \subseteq Copies(s) \cup {NoLease, new},
         TypeOK',
         new \in Copies(s) \cup {NoLease} \/ (new.token = row'.token /\ row'.owner = s),
         \A q \in Servers : \A c \in Copies(q) : CopyOK(q, c)',
         CopyOK(s, NoLease)', CopyOK(s, new)'
  PROVE  (CopiesAreBehindRow /\ CopiesAreKept /\ FenceUnique)'
<1>1. TokensApart /\ \A q \in Servers : \A c \in Copies(q) : CopyOK(q, c)
  BY CopyByCopy DEF LeaseInv
<1>2. \A q \in Servers : \A c \in Copies(q)' : CopyOK(q, c)'
  OBVIOUS
<1>3. TokensApart'
  <2>1. \A q \in Servers \ {s} : \A d \in Copies(q) : d.token # 0 => d.token # new.token
    <3> SUFFICES ASSUME NEW q \in Servers \ {s}, NEW d \in Copies(q), d.token # 0
                 PROVE  d.token # new.token
      OBVIOUS
    <3>1. CASE new \in Copies(s)
      BY <1>1, <3>1 DEF TokensApart
    <3>2. CASE new = NoLease
      BY <3>2 DEF NoLease
    <3>3. CASE new.token = row'.token /\ row'.owner = s
      <4>1. CopyOK(q, d)'
        OBVIOUS
      <4> QED
        BY <3>3, <4>1, ControlLeaseAssumption DEF CopyOK
    <3> QED
      BY <3>1, <3>2, <3>3
  <2>2. ASSUME NEW a \in Servers, NEW b \in Servers \ {a}, NEW c \in Copies(a)', NEW d \in Copies(b)',
               c.token # 0
        PROVE  d.token # c.token
    <3>1. CASE a = s
      BY <1>1, <2>1, <2>2, <3>1 DEF TokensApart, NoLease
    <3>2. CASE b = s
      BY <1>1, <2>1, <2>2, <3>2 DEF TokensApart, NoLease
    <3>3. CASE a # s /\ b # s
      BY <1>1, <2>2, <3>3 DEF TokensApart
    <3> QED
      BY <3>1, <3>2, <3>3
  <2> QED
    BY <2>2 DEF TokensApart
<1> QED
  BY <1>2, <1>3
     DEF CopiesAreBehindRow, CopiesAreKept, FenceUnique, TokensApart, CopyOK, Unexpired, Owns

(* NoLease is harmless to have.                                             *)
LEMMA NoLeaseIsOK ==
  ASSUME TypeOK, NEW s \in Servers
  PROVE  CopyOK(s, NoLease)
BY CopyTypes, ControlLeaseAssumption DEF CopyOK, NoLease, NoTime, Unexpired, Owns, TypeOK

(* What a task of instance s may carry on with after a step that writes      *)
(* nothing to the row: a lease its instance knew, and the time of now.       *)
Harmless(s, c) ==
  /\ c \in Calls
  /\ c.lease \in Copies(s) \cup {NoLease}
  /\ c.now <= clock
  /\ c.at \in {"acquire", "renew"} => c.now = clock

(* A step that writes neither the row nor the clock.                         *)
LEMMA QuietStep ==
  ASSUME LeaseInv, NEW s \in Servers, NEW t \in Tasks, NEW c, Harmless(s, c), Continue(s, t, c),
         lease' = lease \/ lease' = [lease EXCEPT ![s] = NoLease]
           \/ lease' = [lease EXCEPT ![s] = call[s].heartbeat.lease],
         UNCHANGED <<clock, row, released>>
  PROVE  LeaseInv'
<1> USE DEF Harmless
<1> USE ControlLeaseAssumption
<1>1. /\ \A q \in Servers \ {s} : Copies(q)' = Copies(q)
      /\ Copies(s)' \subseteq Copies(s) \cup {NoLease, c.lease}
      /\ lease' \in [Servers -> Leases]
  BY CopiesAfter DEF LeaseInv
<1>2. /\ call' \in [Servers -> [Tasks -> Calls]] /\ call'[s][t] = c
      /\ \A q \in Servers, u \in Tasks : <<q, u>> # <<s, t>> => call'[q][u] = call[q][u]
  BY ContinueLearns DEF LeaseInv
<1>3. TypeOK'
  BY <1>1, <1>2 DEF LeaseInv, TypeOK
<1>4. \A q \in Servers : \/ call'[q]["heartbeat"] = call[q]["heartbeat"]
                         \/ (q = s /\ call'[q]["heartbeat"] = c)
  BY <1>2 DEF Tasks
<1>5. CallsInProgress'
  BY <1>4, CopyTypes DEF LeaseInv, CallsInProgress, Calls
<1>6. \A q \in Servers : \A d \in Copies(q) \cup {NoLease} : CopyOK(q, d)
  BY NoLeaseIsOK, CopyByCopy DEF LeaseInv
<1>7. \A q \in Servers : \A d \in Copies(q) \cup {NoLease} : CopyOK(q, d)'
  BY <1>6 DEF CopyOK, Unexpired, Owns
<1>8. (CopiesAreBehindRow /\ CopiesAreKept /\ FenceUnique)'
  <2>1. c.lease \in Leases
    BY CopyTypes DEF LeaseInv
  <2> QED
    BY <1>1, <1>3, <1>7, <2>1, StepKeepsCopies
<1>9. ReleasedIsOver'
  BY DEF LeaseInv, ReleasedIsOver
<1> QED
  BY <1>3, <1>5, <1>8, <1>9 DEF LeaseInv

(* A step of the heartbeat that writes the row for its instance s and        *)
(* carries on with the lease it wrote, or with none.                         *)
LEMMA WritingStep ==
  ASSUME LeaseInv, NEW s \in Servers, NEW c \in Calls, Continue(s, "heartbeat", c),
         UNCHANGED <<clock, lease, released>>,
         NEW token \in 0..MaxFence, NEW expires \in Nat,
         row' = [owner |-> s, token |-> token, expires |-> expires],
         \/ token = row.token /\ row.owner = s /\ row.expires <= expires
         \/ token = row.token + 1 /\ (row.owner \in {s, NoServer} \/ row.expires <= clock),
         token = row.token + 1 /\ row.owner = s => row.expires <= clock,
         expires <= clock + Ttl,
         c.lease \in {NoLease, [token |-> token, expires |-> expires]},
         c.now = 0, c.at \notin {"acquire", "renew"}
  PROVE  LeaseInv'
<1> USE ControlLeaseAssumption
<1> DEFINE new == [token |-> token, expires |-> expires]
<1>0. "heartbeat" \in Tasks
  BY DEF Tasks
<1>1. /\ \A q \in Servers \ {s} : Copies(q)' = Copies(q)
      /\ Copies(s)' \subseteq Copies(s) \cup {NoLease, c.lease}
      /\ lease' \in [Servers -> Leases]
  BY <1>0, CopiesAfter DEF LeaseInv
<1>2. /\ call' \in [Servers -> [Tasks -> Calls]] /\ call'[s]["heartbeat"] = c
      /\ \A q \in Servers \ {s} : call'[q]["heartbeat"] = call[q]["heartbeat"]
  BY <1>0, ContinueLearns DEF LeaseInv
<1>3. TypeOK'
  BY <1>1, <1>2 DEF LeaseInv, TypeOK, Rows
<1>4. CallsInProgress'
  BY <1>2, CopyTypes DEF LeaseInv, CallsInProgress, Calls, TypeOK
<1>5. new \in Leases
  BY DEF Leases
<1>6. row.token \in Nat /\ row.expires \in Nat /\ clock \in Nat
  BY CopyTypes DEF LeaseInv, TypeOK
<1>7. ASSUME NEW q \in Servers, NEW d \in Copies(q) PROVE CopyOK(q, d)'
  <2>1. CopyOK(q, d) /\ d.token \in Nat /\ d.expires \in Nat
    BY CopyByCopy, CopyTypes DEF LeaseInv, Leases
  <2> QED
    BY <1>6, <2>1 DEF CopyOK, Unexpired, Owns
<1>8. CopyOK(s, NoLease)' /\ CopyOK(s, new)'
  BY <1>6 DEF CopyOK, Unexpired, Owns, NoLease, NoTime
<1>9. (CopiesAreBehindRow /\ CopiesAreKept /\ FenceUnique)'
  <2>1. Copies(s)' \subseteq Copies(s) \cup {NoLease, new}
    BY <1>1
  <2>2. new.token = row'.token /\ row'.owner = s
    OBVIOUS
  <2> HIDE DEF new
  <2> QED
    BY <1>1, <1>3, <1>5, <1>7, <1>8, <2>1, <2>2, StepKeepsCopies
<1>10. ReleasedIsOver'
  BY <1>6 DEF LeaseInv, ReleasedIsOver, TypeOK
<1> QED
  BY <1>3, <1>4, <1>9, <1>10 DEF LeaseInv

(* A release frees the row, and what was its token is a released one.        *)
LEMMA ReleasingStep ==
  ASSUME LeaseInv, NEW s \in Servers, NEW t \in Tasks, Release(s, t), Owns(s, call[s][t].lease)
  PROVE  LeaseInv'
<1> USE ControlLeaseAssumption
<1> DEFINE c == At("forget", NoTime, NoLease)
<1>1. /\ row' = [row EXCEPT !.owner = NoServer, !.expires = NoTime]
      /\ released' = released \cup {row.token}
      /\ Continue(s, t, c) /\ clock' = clock /\ lease' = lease
  BY DEF Release
<1>2. c \in Calls /\ c.lease = NoLease /\ c.now = 0 /\ c.at = "forget" /\ NoLease \in Leases
  BY CopyTypes DEF LeaseInv, At, Calls, NoTime, Places, Results
<1> HIDE DEF c
<1>3. /\ \A q \in Servers \ {s} : Copies(q)' = Copies(q)
      /\ Copies(s)' \subseteq Copies(s) \cup {NoLease, NoLease}
      /\ lease' \in [Servers -> Leases]
  BY <1>1, <1>2, CopiesAfter DEF LeaseInv
<1>4. /\ call' \in [Servers -> [Tasks -> Calls]] /\ call'[s][t] = c
      /\ \A q \in Servers, u \in Tasks : <<q, u>> # <<s, t>> => call'[q][u] = call[q][u]
  BY <1>1, <1>2, ContinueLearns DEF LeaseInv
<1>5. /\ row.token \in Nat /\ row.expires \in Nat /\ clock \in Nat
      /\ row.token \in 0..MaxFence /\ row \in Rows
  BY CopyTypes DEF LeaseInv, TypeOK
<1>6. row'.owner = NoServer /\ row'.token = row.token /\ row'.expires = 0 /\ row' \in Rows
  BY <1>1, <1>5 DEF Rows, NoTime
<1>7. TypeOK'
  BY <1>1, <1>3, <1>4, <1>5, <1>6 DEF LeaseInv, TypeOK
<1>8. \A q \in Servers : \/ call'[q]["heartbeat"] = call[q]["heartbeat"]
                         \/ (q = s /\ call'[q]["heartbeat"] = c)
  BY <1>4 DEF Tasks
<1>9. CallsInProgress'
  BY <1>1, <1>2, <1>5, <1>6, <1>8, CopyTypes DEF LeaseInv, CallsInProgress, Calls
<1>10. ASSUME NEW q \in Servers, NEW d \in Copies(q) \cup {NoLease} PROVE CopyOK(q, d)'
  <2>1. CopyOK(q, d)
    BY CopyByCopy, NoLeaseIsOK DEF LeaseInv
  <2>2. d.token \in Nat /\ d.expires \in Nat
    BY <1>2, CopyTypes DEF LeaseInv, Leases
  <2> QED
    BY <1>1, <1>5, <1>6, <2>1, <2>2 DEF CopyOK, Unexpired, Owns
<1>11. (CopiesAreBehindRow /\ CopiesAreKept /\ FenceUnique)'
  BY <1>2, <1>3, <1>7, <1>10, StepKeepsCopies
<1>12. ReleasedIsOver'
  BY <1>1, <1>5, <1>6 DEF LeaseInv, ReleasedIsOver, TypeOK
<1> QED
  BY <1>7, <1>9, <1>11, <1>12 DEF LeaseInv

(* Every step of the tasks preserves the inductive invariant.               *)
LEMMA NextLeaseInv == LeaseInv /\ [Next]_vars => LeaseInv'
<1> SUFFICES ASSUME LeaseInv, [Next]_vars PROVE LeaseInv'
  OBVIOUS
<1> USE ControlLeaseAssumption
<1>a. TypeOK /\ "heartbeat" \in Tasks /\ NoLease \in Leases /\ Idle \in Calls /\ clock \in Nat
  BY CopyTypes DEF LeaseInv, Tasks, TypeOK
<1>b. \A s \in Servers : /\ lease[s] \in Copies(s) \cap Leases
                         /\ \A t \in Tasks : /\ call[s][t].lease \in Copies(s) \cap Leases
                                             /\ call[s][t] \in Calls
                         /\ call[s].heartbeat.lease \in Copies(s) \cap Leases
                         /\ call[s].heartbeat \in Calls
  BY CopyTypes DEF LeaseInv, Copies, Tasks
<1>c. \A s \in Servers : \A at \in Places, now \in Nat, copy \in (Copies(s) \cap Leases) \cup {NoLease} :
        now <= clock /\ (at \in {"acquire", "renew"} => now = clock) => Harmless(s, At(at, now, copy))
  BY <1>a DEF Harmless, At, Calls, Results
<1>d. \A s \in Servers, result \in Results : Harmless(s, Errors(result))
  BY <1>a DEF Harmless, Errors, Calls, NoTime, Places
<1>e. \A s \in Servers, at \in Places \ {"acquire", "renew"} :
        Harmless(s, At(at, NoTime, lease[s])) /\ Harmless(s, At(at, NoTime, NoLease))
  BY <1>a, <1>b, <1>c DEF NoTime
<1>f. \A s \in Servers : Harmless(s, Idle) /\ Harmless(s, RenewErrors)
  BY <1>e DEF RenewErrors, Idle, Places
<1>1. CASE Tick
  <2>1. TypeOK' /\ CallsInProgress'
    <3>1. row.expires \in Nat /\ \A s \in Servers : call[s].heartbeat.now \in Nat
      BY <1>b, CopyTypes DEF LeaseInv, Calls
    <3>2. TypeOK'
      BY <1>1 DEF Tick, LeaseInv, TypeOK
    <3>3. CallsInProgress'
      BY <1>1, <1>a, <3>1 DEF Tick, LeaseInv, CallsInProgress
    <3> QED
      BY <3>2, <3>3
  <2>2. \A s \in Servers : Copies(s)' = Copies(s) /\ \A c \in Copies(s) : c.expires \in Nat
    BY <1>1, CopyTypes DEF Tick, Copies, LeaseInv, Leases
  <2>3. (CopiesAreBehindRow /\ CopiesAreKept /\ FenceUnique)'
    BY <1>1, <1>a, <2>2
       DEF Tick, LeaseInv, CopiesAreBehindRow, CopiesAreKept, FenceUnique, Unexpired, Owns
  <2>4. ReleasedIsOver'
    BY <1>1 DEF Tick, LeaseInv, ReleasedIsOver
  <2> QED
    BY <2>1, <2>3, <2>4 DEF LeaseInv
<1>2. ASSUME NEW s \in Servers, CopyLease(s) PROVE LeaseInv'
  BY <1>2, <1>a, <1>e, QuietStep DEF CopyLease, Places
<1>3. ASSUME NEW s \in Servers, DatabaseNow(s) PROVE LeaseInv'
  <2>1. PICK c : Harmless(s, c) /\ Continue(s, "heartbeat", c)
    BY <1>3, <1>a, <1>b, <1>c DEF DatabaseNow, Places
  <2> QED
    BY <1>3, <1>a, <2>1, QuietStep DEF DatabaseNow
<1>4. ASSUME NEW s \in Servers, NEW answered \in BOOLEAN, Acquire(s, answered) PROVE LeaseInv'
  <2> DEFINE now == call[s].heartbeat.now
             token == NextToken(s, now)
             c == IF answered THEN Returned(token, now + Ttl) ELSE Errors("Database")
  <2>1. now \in Nat /\ now <= clock /\ (row.owner = s => row.expires <= now + Ttl)
    BY <1>4, <1>b DEF Calls, LeaseInv, CallsInProgress, Acquire
  <2>2. row.token \in 0..MaxFence /\ row.expires \in Nat
    BY CopyTypes DEF LeaseInv
  <2>3. Acquirable(s, now) /\ Continue(s, "heartbeat", c) /\ UNCHANGED <<clock, lease, released>>
        /\ row' = [owner |-> s, token |-> token, expires |-> now + Ttl]
    BY <1>4 DEF Acquire
  <2>4. /\ token \in 0..MaxFence
        /\ \/ token = row.token /\ row.owner = s /\ row.expires <= now + Ttl
           \/ token = row.token + 1 /\ (row.owner \in {s, NoServer} \/ row.expires <= clock)
        /\ token = row.token + 1 /\ row.owner = s => row.expires <= clock
    BY <1>a, <2>1, <2>2, <2>3 DEF Acquirable, NextToken
  <2> HIDE DEF token
  <2>5. /\ c \in Calls /\ c.now = 0 /\ c.at \notin {"acquire", "renew"}
        /\ c.lease \in {NoLease, [token |-> token, expires |-> now + Ttl]}
    <3>1. CASE answered
      BY <1>a, <2>1, <2>4, <3>1 DEF Returned, At, Calls, NoTime, Places, Leases, Results
    <3>2. CASE ~ answered
      BY <1>a, <3>2 DEF Errors, Results, Calls, NoTime, Places
    <3> QED
      BY <3>1, <3>2
  <2>6. now + Ttl \in Nat /\ now + Ttl <= clock + Ttl
    BY <1>a, <2>1
  <2> HIDE DEF c, now
  <2> QED
    BY <2>3, <2>4, <2>5, <2>6, WritingStep
<1>5. ASSUME NEW s \in Servers, AcquireRefused(s) PROVE LeaseInv'
  BY <1>5, <1>a, <1>e, QuietStep DEF AcquireRefused, Places
<1>6. ASSUME NEW s \in Servers, Current(s) PROVE LeaseInv'
  <2>1. Refusal \in Results
    BY DEF Refusal, Results
  <2> QED
    BY <1>6, <1>a, <1>d, <2>1, QuietStep DEF Current
<1>7. ASSUME NEW s \in Servers, NEW answered \in BOOLEAN, Renew(s, answered) PROVE LeaseInv'
  <2> DEFINE now == call[s].heartbeat.now
             c == IF answered THEN Returned(row.token, now + Ttl) ELSE RenewErrors
  <2>1. now \in Nat /\ now <= clock /\ row.owner = s /\ row.expires <= now + Ttl
    BY <1>7, <1>b DEF Calls, LeaseInv, CallsInProgress, Renew, Renewable, Owns
  <2>2. row.token \in 0..MaxFence /\ row.expires \in Nat /\ row \in Rows
    BY CopyTypes DEF LeaseInv, TypeOK
  <2>3. Continue(s, "heartbeat", c) /\ UNCHANGED <<clock, lease, released>>
        /\ row' = [row EXCEPT !.expires = now + Ttl]
    BY <1>7 DEF Renew
  <2>4. row' = [owner |-> s, token |-> row.token, expires |-> now + Ttl]
    BY <2>1, <2>2, <2>3 DEF Rows
  <2>5. /\ c \in Calls /\ c.now = 0 /\ c.at \notin {"acquire", "renew"}
        /\ c.lease \in {NoLease, [token |-> row.token, expires |-> now + Ttl]}
    <3>1. CASE answered
      BY <1>a, <2>1, <2>2, <3>1 DEF Returned, At, Calls, NoTime, Places, Leases, Results
    <3>2. CASE ~ answered
      BY <1>a, <3>2 DEF RenewErrors, At, Calls, NoTime, Places, Results
    <3> QED
      BY <3>1, <3>2
  <2>6. now + Ttl \in Nat /\ now + Ttl <= clock + Ttl /\ row.token # row.token + 1
    BY <1>a, <2>1, <2>2
  <2> HIDE DEF c, now
  <2> QED
    BY <2>1, <2>2, <2>3, <2>4, <2>5, <2>6, WritingStep
<1>8. ASSUME NEW s \in Servers, RenewLost(s) PROVE LeaseInv'
  BY <1>8, <1>a, <1>f, QuietStep DEF RenewLost
<1>9. ASSUME NEW s \in Servers, Store(s) PROVE LeaseInv'
  BY <1>9, <1>a, <1>f, QuietStep DEF Store
<1>10. ASSUME NEW s \in Servers, NEW t \in Tasks, BeginRelease(s, t) PROVE LeaseInv'
  <2>1. CASE Holds(s)
    BY <1>10, <1>e, <2>1, QuietStep DEF BeginRelease, Places
  <2>2. CASE ~ Holds(s)
    BY <1>10, <1>e, <2>2, QuietStep DEF BeginRelease, Places
  <2> QED
    BY <2>1, <2>2
<1>11. ASSUME NEW s \in Servers, NEW t \in Tasks, Release(s, t) PROVE LeaseInv'
  <2>1. CASE Owns(s, call[s][t].lease)
    BY <1>11, <2>1, ReleasingStep
  <2>2. CASE ~ Owns(s, call[s][t].lease)
    BY <1>11, <1>e, <2>2, QuietStep DEF Release, Places
  <2> QED
    BY <2>1, <2>2
<1>12. ASSUME NEW s \in Servers, NEW t \in Tasks, Forget(s, t) PROVE LeaseInv'
  BY <1>12, <1>f, QuietStep DEF Forget
<1>13. ASSUME NEW s \in Servers, NEW t \in Tasks, Fail(s, t) PROVE LeaseInv'
  <2>1. CASE Continue(s, t, Errors("Database"))
    BY <1>13, <1>d, <2>1, QuietStep DEF Fail, Results
  <2>2. CASE Continue(s, t, RenewErrors)
    BY <1>13, <1>f, <2>2, QuietStep DEF Fail
  <2> QED
    BY <1>13, <2>1, <2>2 DEF Fail
<1>14. CASE UNCHANGED vars
  BY <1>14 DEF vars, LeaseInv, TypeOK, CallsInProgress, CopiesAreBehindRow, CopiesAreKept,
               FenceUnique, ReleasedIsOver, Copies, Unexpired, Owns
<1> QED
  BY <1>1, <1>2, <1>3, <1>4, <1>5, <1>6, <1>7, <1>8, <1>9, <1>10, <1>11, <1>12, <1>13, <1>14
     DEF Next

(* LeaseInvariant: the strengthened invariant holds in every reachable     *)
(* state of the lease, whatever the instances and their tasks do and        *)
(* however late their statements run and their answers are stored.         *)
THEOREM LeaseInvariant == Spec => []LeaseInv
BY InitLeaseInv, NextLeaseInv, PTL DEF Spec

(* TypeCorrect: the lease row, the leases instances hold and their calls   *)
(* stay well typed; in particular acquire never pushes the fencing token   *)
(* past its limit.                                                         *)
THEOREM TypeCorrect == Spec => []TypeOK
<1>1. LeaseInv => TypeOK
  BY DEF LeaseInv
<1> QED
  BY <1>1, LeaseInvariant, PTL

(* LeasesAreKept: an instance whose runtime.lease has not expired has the  *)
(* row, unless it gave the row up itself, for any delay between reading    *)
(* the clock, the UPDATE of acquire or renew and the write of the answer   *)
(* (service.rs:947-950), and whatever its other task releases meanwhile.   *)
THEOREM LeasesAreKept == Spec => []KeptUntilGivenUp
<1>1. LeaseInv => KeptUntilGivenUp
  BY DEF LeaseInv, CopiesAreKept, KeptUntilGivenUp, Copies
<1> QED
  BY <1>1, LeaseInvariant, PTL

(* OneLeaseNotGivenUp: of two instances whose runtime.lease has not        *)
(* expired, one has given its row up.                                      *)
THEOREM OneLeaseNotGivenUp ==
  Spec => [](\A s, q \in Servers :
               Unexpired(lease[s]) /\ Unexpired(lease[q]) /\ s # q
                 => {lease[s].token, lease[q].token} \cap released # {})
<1>1. LeaseInv => \A s, q \in Servers :
                    Unexpired(lease[s]) /\ Unexpired(lease[q]) /\ s # q
                      => {lease[s].token, lease[q].token} \cap released # {}
  BY DEF LeaseInv, CopiesAreKept, Copies, Owns
<1> QED
  BY <1>1, LeaseInvariant, PTL

(* FencesAreUnique: a fencing token that acquire returned belongs to one   *)
(* instance for ever, also where a renewal stores it after its release.    *)
THEOREM FencesAreUnique == Spec => []FenceUnique
<1>1. LeaseInv => FenceUnique
  BY DEF LeaseInv
<1> QED
  BY <1>1, LeaseInvariant, PTL

(* NoEarlyTakeoverHolds: acquire takes the row only from an owner whose    *)
(* lease has expired, and no late statement shortens an ownership.         *)
THEOREM NoEarlyTakeoverHolds == Spec => NoEarlyTakeover
<1> DEFINE A == /\ row.owner # NoServer /\ row'.owner \notin {row.owner, NoServer}
                     => row.expires <= clock
                /\ row.owner # NoServer /\ row'.owner # NoServer
                     => row'.expires >= row.expires
<1>1. LeaseInv /\ [Next]_vars => [A]_vars
  <2> SUFFICES ASSUME LeaseInv, Next PROVE A
    OBVIOUS
  <2> USE ControlLeaseAssumption
  <2>1. /\ row \in Rows /\ row.expires \in Nat /\ clock \in Nat
        /\ \A s \in Servers : call[s].heartbeat.now \in Nat
    BY CopyTypes DEF LeaseInv, TypeOK, Calls
  <2>2. CASE UNCHANGED row
    BY <2>1, <2>2
  <2>3. ASSUME NEW s \in Servers, NEW answered \in BOOLEAN, Acquire(s, answered)
        PROVE A
    BY <2>1, <2>3 DEF Acquire, Acquirable, LeaseInv, CallsInProgress
  <2>4. ASSUME NEW s \in Servers, NEW answered \in BOOLEAN, Renew(s, answered) PROVE A
    BY <2>1, <2>4 DEF Renew, Renewable, Owns, LeaseInv, CallsInProgress, Rows
  <2>5. ASSUME NEW s \in Servers, NEW t \in Tasks, Release(s, t) PROVE A
    <3>1. row'.owner = NoServer \/ row' = row
      BY <2>1, <2>5 DEF Release, Rows
    <3> QED
      BY <2>1, <3>1
  <2> HIDE DEF A
  <2> QED
    BY <2>2, <2>3, <2>4, <2>5
       DEF Next, Tick, CopyLease, DatabaseNow, AcquireRefused, Current, RenewLost, Store,
           BeginRelease, Forget, Fail
<1> QED
  BY <1>1, LeaseInvariant, PTL DEF Spec, NoEarlyTakeover

(* LeaseImplementsFencedLease: the statements of lease.rs implement the    *)
(* abstract fenced lease: every step of the row is a grant under a fresh   *)
(* token, a release, or invisible.                                         *)
THEOREM LeaseImplementsFencedLease == Spec => Fenced
<1>1. Init => Abstract!LeaseInit
  BY DEF Init, Abstract!LeaseInit
<1>2. LeaseInv /\ [Next]_vars => [Abstract!LeaseNext]_(Abstract!lvars)
  <2> SUFFICES ASSUME LeaseInv, [Next]_vars
               PROVE [Abstract!LeaseNext]_(Abstract!lvars)
    OBVIOUS
  <2> USE ControlLeaseAssumption
      DEF Abstract!LeaseNext, Abstract!lvars, Abstract!Grant, Abstract!GiveUp
  <2>1. row \in Rows
    BY DEF LeaseInv, TypeOK
  <2>2. CASE UNCHANGED row
    BY <2>2
  <2>3. ASSUME NEW s \in Servers, NEW answered \in BOOLEAN, Acquire(s, answered)
        PROVE [Abstract!LeaseNext]_(Abstract!lvars)
    BY <2>1, <2>3 DEF Acquire, Acquirable, NextToken, Rows
  <2>4. ASSUME NEW s \in Servers, NEW answered \in BOOLEAN, Renew(s, answered)
        PROVE [Abstract!LeaseNext]_(Abstract!lvars)
    BY <2>1, <2>4 DEF Renew, Rows
  <2>5. ASSUME NEW s \in Servers, NEW t \in Tasks, Release(s, t)
        PROVE [Abstract!LeaseNext]_(Abstract!lvars)
    BY <2>1, <2>5 DEF Release, Owns, Rows
  <2> HIDE DEF Abstract!LeaseNext, Abstract!lvars
  <2> QED
    BY <2>2, <2>3, <2>4, <2>5
       DEF Next, Tick, CopyLease, DatabaseNow, AcquireRefused, Current, RenewLost, Store,
           BeginRelease, Forget, Fail, vars
<1> QED
  BY <1>1, <1>2, LeaseInvariant, PTL DEF Spec, Fenced, Abstract!LeaseSpec
=============================================================================
