---------------------------- MODULE HoldRequests ----------------------------
(***************************************************************************)
(* A POST /v1/holds in one API process, synchronous mode: the admission    *)
(* gate of the HTTP middleware, the per-actor rate limit, the seat shield  *)
(* in Redis, a pooled database connection, the reservation transaction,    *)
(* and the way back through every finally clause.                          *)
(*                                                                         *)
(* The request stands for its shield token (a uuid per request).  What the *)
(* transaction decides is the subject of Reservations; here it may refuse, *)
(* commit, or lose its connection.                                         *)
(***************************************************************************)
EXTENDS Naturals, FiniteSets

CONSTANTS
  Requests,     \* requests the process receives
  Seats,        \* seats of one event
  Actors,       \* authenticated subjects
  None,
  HoldLimit,    \* hold_admission_limit
  RateLimit,    \* requests of one actor per window
  PoolMax,      \* pool_max, also the bound on waiting callers
  MaxFailures   \* bound: failed calls to Redis or PostgreSQL

ASSUME RequestAssumption == IsFiniteSet(Requests) /\ None \notin Requests
ASSUME LimitAssumption == HoldLimit \in Nat

VARIABLES
  phase,             \* where each request is
  want,              \* its actor and seats
  admitted,          \* the middleware's flag
  reserve_inflight,  \* app.state.reserve_inflight
  rate,              \* rate:{actor}
  shield,            \* shield:{event}:seat -> request, None once deleted
  acquiring,         \* DB_POOL_ACQUIRING
  in_use,            \* DB_POOL_IN_USE
  conn,              \* requests that have a connection
  locked,            \* row locks: seat -> request
  committed,         \* requests whose transaction is durable
  reply,             \* status of the response, 0 before there is one
  unsure,            \* requests whose COMMIT got no answer
  failures

gateVars == <<admitted, reserve_inflight>>
poolVars == <<acquiring, in_use, conn>>
dbVars == <<locked, committed, unsure>>
vars == <<phase, want, gateVars, rate, shield, poolVars, dbVars, reply, failures>>

Init ==
  /\ phase = [r \in Requests |-> "new"]
  /\ want = [r \in Requests |-> None]
  /\ admitted = [r \in Requests |-> FALSE] /\ reserve_inflight = 0
  /\ rate = [a \in Actors |-> 0]
  /\ shield = [s \in Seats |-> None]
  /\ acquiring = 0 /\ in_use = 0 /\ conn = {}
  /\ locked = [s \in Seats |-> None] /\ committed = {} /\ unsure = {}
  /\ reply = [r \in Requests |-> 0]
  /\ failures = 0

Failing == failures < MaxFailures /\ failures' = failures + 1

To(r, p) == phase' = [phase EXCEPT ![r] = p]

\* An exception becomes the response its handler gives it.
Raise(r, status, p) == To(r, p) /\ reply' = [reply EXCEPT ![r] = status]

-----------------------------------------------------------------------------
(***************************************************************************)
(* The gate and the rate limit.                                            *)
(***************************************************************************)

\* Check and increment in one turn of the event loop; ADMISSION_FULL is
\* answered by the middleware itself.
Arrive(r, a, S) ==
  /\ phase[r] = "new" /\ S # {}
  /\ want' = [want EXCEPT ![r] = [actor |-> a, seats |-> S]]
  /\ IF reserve_inflight >= HoldLimit
     THEN Raise(r, 503, "reply") /\ UNCHANGED gateVars
     ELSE /\ To(r, "input") /\ UNCHANGED reply
          /\ admitted' = [admitted EXCEPT ![r] = TRUE]
          /\ reserve_inflight' = reserve_inflight + 1
  /\ UNCHANGED <<rate, shield, poolVars, dbVars, failures>>

\* The token and the body are validated once the slot is taken (401, 422).
Validate(r) ==
  /\ phase[r] = "input"
  /\ \/ Raise(r, 422, "reply")
     \/ To(r, "rate") /\ UNCHANGED reply
  /\ UNCHANGED <<want, gateVars, rate, shield, poolVars, dbVars, failures>>

Counted(r) == [rate EXCEPT ![want[r].actor] = @ + 1]

\* RATE and rate_limit; a call that times out may have counted.  The use case
\* then refuses repeated or malformed seats.
RateLimited(r) ==
  /\ phase[r] = "rate"
  /\ \/ Failing /\ Raise(r, 503, "reply") /\ rate' \in {rate, Counted(r)}
     \/ /\ rate' = Counted(r) /\ UNCHANGED failures
        /\ IF rate'[want[r].actor] > RateLimit
           THEN Raise(r, 429, "reply")
           ELSE Raise(r, 422, "reply") \/ (To(r, "shield") /\ UNCHANGED reply)
  /\ UNCHANGED <<want, gateVars, shield, poolVars, dbVars>>

\* The window of the actor's counter passes.
RateWindow(a) ==
  /\ rate[a] > 0
  /\ rate' = [rate EXCEPT ![a] = 0]
  /\ UNCHANGED <<phase, want, gateVars, shield, poolVars, dbVars, reply, failures>>

-----------------------------------------------------------------------------
(***************************************************************************)
(* The shield.                                                             *)
(***************************************************************************)
Leased(r) == [s \in Seats |-> IF s \in want[r].seats THEN r ELSE shield[s]]

\* ACQUIRE takes all keys or none.  A call that times out may have run.
Acquire(r) ==
  /\ phase[r] = "shield"
  /\ LET free == \A s \in want[r].seats : shield[s] = None IN
     \/ /\ Failing /\ Raise(r, 503, "reply")
        /\ \/ UNCHANGED shield
           \/ free /\ shield' = Leased(r)
     \/ /\ ~free /\ Raise(r, 409, "reply") /\ UNCHANGED <<shield, failures>>
     \/ /\ free /\ To(r, "pool") /\ shield' = Leased(r) /\ UNCHANGED <<reply, failures>>
  /\ UNCHANGED <<want, gateVars, rate, poolVars, dbVars>>

\* RELEASE deletes only the keys that still carry this token.
Unleased(r) == [s \in Seats |-> IF shield[s] = r THEN None ELSE shield[s]]

\* An error while releasing is swallowed: the lease lapses by itself.
Unshield(r) ==
  /\ phase[r] = "unshield"
  /\ To(r, "reply")
  /\ \/ shield' = Unleased(r) /\ UNCHANGED failures
     \/ Failing /\ UNCHANGED shield
  /\ UNCHANGED <<want, gateVars, rate, poolVars, dbVars, reply>>

\* The two second lease of the request's keys passes.
Lapse(r) ==
  /\ \E s \in Seats : shield[s] = r
  /\ shield' = [s \in Seats |-> IF shield[s] = r THEN None ELSE shield[s]]
  /\ UNCHANGED <<phase, want, gateVars, rate, poolVars, dbVars, reply, failures>>

-----------------------------------------------------------------------------
(***************************************************************************)
(* The pool and the transaction.                                           *)
(***************************************************************************)
Waiting == {r \in Requests : phase[r] = "waiting"}

\* getconn: without a free connection a caller waits, unless as many as the
\* pool's maximum already do.
GetConn(r) ==
  /\ phase[r] = "pool"
  /\ IF Cardinality(conn) < PoolMax \/ Cardinality(Waiting) < PoolMax
     THEN To(r, "waiting") /\ acquiring' = acquiring + 1 /\ UNCHANGED reply
     ELSE Raise(r, 503, "unshield") /\ UNCHANGED acquiring
  /\ UNCHANGED <<want, gateVars, rate, shield, in_use, conn, dbVars, failures>>

\* A connection is handed over.
Connect(r) ==
  /\ phase[r] = "waiting" /\ Cardinality(conn) < PoolMax
  /\ To(r, "lock")
  /\ conn' = conn \cup {r}
  /\ acquiring' = acquiring - 1 /\ in_use' = in_use + 1
  /\ UNCHANGED <<want, gateVars, rate, shield, dbVars, reply, failures>>

\* Mutant of PoolTimeout: the gauge is only decremented on success.
PoolTimeoutUncounted(r) ==
  /\ phase[r] = "waiting"
  /\ Raise(r, 503, "unshield")
  /\ UNCHANGED <<want, gateVars, rate, shield, poolVars, dbVars, failures>>

\* pool_wait_ms pass first.
PoolTimeout(r) ==
  /\ phase[r] = "waiting"
  /\ Raise(r, 503, "unshield")
  /\ acquiring' = acquiring - 1
  /\ UNCHANGED <<want, gateVars, rate, shield, in_use, conn, dbVars, failures>>

\* Mutant of LockNowait: the shield is taken for the lock.
LockNowaitByShield(r) == \A s \in want[r].seats : shield[s] \in {None, r}

\* SELECT ... FOR UPDATE NOWAIT locks every row or raises.
LockNowait(r) == \A s \in want[r].seats : locked[s] = None

\* The same command was committed before.
Replay(r) == \E q \in committed : want[q] = want[r]

\* BEGIN, the idempotency record and the row locks; a replay ends here.
Lock(r) ==
  /\ phase[r] = "lock"
  /\ \/ /\ LockNowait(r)
        /\ locked' = [s \in Seats |-> IF s \in want[r].seats THEN r ELSE locked[s]]
        /\ To(r, "body") /\ UNCHANGED <<reply, failures>>
     \/ ~LockNowait(r) /\ Raise(r, 409, "rollback") /\ UNCHANGED <<locked, failures>>
     \/ Replay(r) /\ Raise(r, 201, "return") /\ UNCHANGED <<locked, failures>>
     \/ Failing /\ (\E e \in {500, 503} : Raise(r, e, "rollback")) /\ UNCHANGED locked
  /\ UNCHANGED <<want, gateVars, rate, shield, poolVars, committed, unsure>>

Unlocked(r) == [s \in Seats |-> IF locked[s] = r THEN None ELSE locked[s]]

\* Mutant of Refuse: the transaction is committed on the way out.
RefuseAndCommit(r) ==
  /\ Raise(r, 409, "return")
  /\ committed' = committed \cup {r}
  /\ locked' = Unlocked(r) /\ UNCHANGED unsure

\* The body raises a Failure (the sale is closed, a seat is taken).
Refuse(r) == Raise(r, 409, "rollback") /\ UNCHANGED dbVars

\* The body refuses, or COMMIT is answered, or it is not.
Commit(r) ==
  /\ phase[r] = "body"
  /\ \/ Refuse(r) /\ UNCHANGED failures
     \/ /\ Raise(r, 201, "return")
        /\ committed' = committed \cup {r}
        /\ locked' = Unlocked(r) /\ UNCHANGED <<unsure, failures>>
     \/ /\ Failing /\ (\E e \in {500, 503} : Raise(r, e, "rollback"))
        /\ unsure' = unsure \cup {r}
        /\ committed' \in {committed, committed \cup {r}}
        /\ locked' = Unlocked(r)
  /\ UNCHANGED <<want, gateVars, rate, shield, poolVars>>

Rollback(r) ==
  /\ phase[r] = "rollback"
  /\ To(r, "return")
  /\ locked' = Unlocked(r)
  /\ UNCHANGED <<want, gateVars, rate, shield, poolVars, committed, unsure, reply, failures>>

\* putconn, whatever became of the transaction: the next caller may have the
\* connection before the gauge is decremented.
Return(r) ==
  /\ phase[r] = "return"
  /\ To(r, "returned")
  /\ conn' = conn \ {r}
  /\ UNCHANGED <<want, gateVars, rate, shield, acquiring, in_use, dbVars, reply, failures>>

Returned(r) ==
  /\ phase[r] = "returned"
  /\ To(r, "unshield")
  /\ in_use' = in_use - 1
  /\ UNCHANGED <<want, gateVars, rate, shield, acquiring, conn, dbVars, reply, failures>>

-----------------------------------------------------------------------------
(***************************************************************************)
(* The response.                                                           *)
(***************************************************************************)

release(r) ==
  /\ admitted' = [admitted EXCEPT ![r] = FALSE]
  /\ reserve_inflight' = IF admitted[r] THEN reserve_inflight - 1 ELSE reserve_inflight

\* http.response.start gives the slot back before anything is sent; sending
\* may then raise.
ResponseStart(r) ==
  /\ phase[r] = "reply" /\ reply[r] # 500
  /\ To(r, "finally")
  /\ release(r)
  /\ UNCHANGED <<want, rate, shield, poolVars, dbVars, reply, failures>>

\* An exception without a handler passes through the middleware.
Unhandled(r) ==
  /\ phase[r] = "reply" /\ reply[r] = 500
  /\ To(r, "finally")
  /\ UNCHANGED <<want, gateVars, rate, shield, poolVars, dbVars, reply, failures>>

\* The middleware's finally clause releases again.
Finally(r) ==
  /\ phase[r] = "finally"
  /\ To(r, "done")
  /\ release(r)
  /\ UNCHANGED <<want, rate, shield, poolVars, dbVars, reply, failures>>

Step(r) ==
  \/ Validate(r) \/ RateLimited(r) \/ Acquire(r) \/ GetConn(r) \/ Connect(r) \/ PoolTimeout(r)
  \/ Lock(r) \/ Commit(r) \/ Rollback(r) \/ Return(r) \/ Returned(r) \/ Unshield(r)
  \/ ResponseStart(r) \/ Unhandled(r) \/ Finally(r)

Next ==
  \/ \E r \in Requests, a \in Actors, S \in SUBSET Seats : Arrive(r, a, S)
  \/ \E r \in Requests : Step(r) \/ Lapse(r)
  \/ \E a \in Actors : RateWindow(a)

Spec == Init /\ [][Next]_vars

-----------------------------------------------------------------------------
(***************************************************************************)
(* Properties.                                                             *)
(***************************************************************************)

\* The gate counts exactly the requests that hold a slot and never exceeds
\* its limit, and the two pool gauges count the callers that wait and those
\* between getting a connection and reporting its return, whichever way each
\* request leaves the middleware and the pool.
CountersAreExact ==
  /\ reserve_inflight = Cardinality({r \in Requests : admitted[r]})
  /\ reserve_inflight <= HoldLimit
  /\ acquiring = Cardinality(Waiting)
  /\ in_use = Cardinality(conn \cup {r \in Requests : phase[r] = "returned"})

\* A request that is over holds no slot, connection or row lock, and a row
\* lock is only ever held by a request with a connection.
NothingLeaks ==
  /\ \A r \in Requests : phase[r] = "done" => ~admitted[r] /\ r \notin conn
  /\ \A s \in Seats : locked[s] # None => locked[s] \in conn

\* Two requests are never both past the row locks of a common seat, even when
\* the shield of the first has lapsed and the second has passed it: "a finite
\* lease is never the ownership authority".
BodyIsExclusive ==
  \A r, q \in Requests :
    phase[r] = "body" /\ phase[q] = "body" /\ r # q => want[r].seats \cap want[q].seats = {}

\* A request never deletes a shield key that another request took after its
\* own lease had lapsed.
ShieldIsFenced ==
  [][\A s \in Seats, r \in Requests :
       shield[s] # None /\ shield'[s] = None /\ phase'[r] # phase[r] => shield[s] = r]_vars

\* A refusal means no hold: only an unanswered COMMIT can leave a client with
\* an error and a hold.
RefusalMeansNoHold ==
  \A r \in Requests : reply[r] >= 400 /\ r \in committed => r \in unsure

=============================================================================
