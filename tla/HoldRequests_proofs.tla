------------------------- MODULE HoldRequests_proofs -------------------------
(***************************************************************************)
(* Proofs about HoldRequests and about the locks of RowLocks, for any      *)
(* number of requests, sessions, seats, actors, orders and failures and    *)
(* any limits.  Of the requests, each counter is tied to the phases of the *)
(* requests (GateInv, PoolInv), each row lock to a request that is still   *)
(* inside its transaction (LockInv), and each commit to the answer of its  *)
(* request (ReplyInv); every step moves one request from a phase to one    *)
(* that these relations allow.  Of the locks, where a transaction of the   *)
(* ledger, the consumer or the simulator may have to wait, what it has     *)
(* locked is of a lower rank (OrderedLocks).                               *)
(***************************************************************************)
EXTENDS HoldRequests, RowLocks, FiniteSetTheorems, TLAPS

USE RequestAssumption, LimitAssumption

Phases ==
  {"new", "input", "rate", "shield", "pool", "waiting", "lock", "body", "rollback",
   "return", "returned", "unshield", "reply", "finally", "done"}

\* Phases between getconn and putconn, and until the gauge is decremented.
Connected == {"lock", "body", "rollback", "return"}
Gauged == Connected \cup {"returned"}

\* Phases in which a transaction is over.
Over == {"return", "returned", "unshield", "reply", "finally", "done"}

Admitted == {r \in Requests : admitted[r]}
Counted_in_use == {r \in Requests : phase[r] \in Gauged}

PhaseTypes == phase \in [Requests -> Phases]

GateInv ==
  /\ admitted \in [Requests -> BOOLEAN]
  /\ \A r \in Requests : admitted[r] => phase[r] \notin {"new", "done"}
  /\ reserve_inflight = Cardinality(Admitted) /\ reserve_inflight <= HoldLimit

PoolInv ==
  /\ conn = {r \in Requests : phase[r] \in Connected}
  /\ acquiring = Cardinality(Waiting)
  /\ in_use = Cardinality(Counted_in_use)

\* want is known once a request arrived; a lock belongs to a transaction that
\* has neither committed nor rolled back, and the body has all of its locks.
LockInv ==
  /\ DOMAIN want = Requests
  /\ \A r \in Requests : phase[r] # "new" => want[r].seats \subseteq Seats
  /\ locked \in [Seats -> Requests \cup {None}]
  /\ \A s \in Seats : locked[s] # None => phase[locked[s]] \in {"body", "rollback"}
  /\ \A r \in Requests : phase[r] = "body" => \A s \in want[r].seats : locked[s] = r

\* A commit that was answered is the end of its transaction.
ReplyInv ==
  /\ reply \in [Requests -> Nat]
  /\ \A r \in Requests : r \in committed /\ r \notin unsure => reply[r] = 201 /\ phase[r] \in Over

RequestInv == PhaseTypes /\ GateInv /\ PoolInv /\ LockInv /\ ReplyInv

-----------------------------------------------------------------------------
(* Counting requests.                                                      *)

\* Cardinalities of sets of requests, with one request more or less.
LEMMA Cards ==
  ASSUME NEW S, S \subseteq Requests, NEW r \in Requests
  PROVE  /\ Cardinality(S) \in Nat
         /\ r \notin S => Cardinality(S \cup {r}) = Cardinality(S) + 1
         /\ r \in S => Cardinality(S \ {r}) = Cardinality(S) - 1
<1>1. IsFiniteSet(S)
  BY FS_Subset
<1> QED
  BY <1>1, FS_CardinalityType, FS_AddElement, FS_RemoveElement

LEMMA NoCards == Cardinality({}) = 0
BY FS_EmptySet

LEMMA InitInv == Init => RequestInv
<1> SUFFICES ASSUME Init PROVE RequestInv
  OBVIOUS
<1>1. Admitted = {} /\ Waiting = {} /\ Counted_in_use = {} /\ conn = {r \in Requests : phase[r] \in Connected}
  BY DEF Init, Admitted, Waiting, Counted_in_use, Connected, Gauged
<1>2. PhaseTypes /\ LockInv /\ ReplyInv
  BY DEF Init, PhaseTypes, Phases, LockInv, ReplyInv
<1>3. GateInv /\ PoolInv
  BY <1>1, NoCards DEF Init, GateInv, PoolInv
<1> QED
  BY <1>2, <1>3 DEF RequestInv

-----------------------------------------------------------------------------
(* The gate.                                                               *)

\* A step that leaves the gate alone and neither starts nor ends a request.
LEMMA GateKept ==
  ASSUME PhaseTypes, GateInv, NEW r \in Requests, NEW p \in Phases \ {"new", "done"},
         To(r, p), UNCHANGED gateVars
  PROVE  GateInv'
<1>1. UNCHANGED <<admitted, reserve_inflight>> /\ Admitted' = Admitted
  BY DEF gateVars, Admitted
<1>2. \A q \in Requests : admitted'[q] => phase'[q] \notin {"new", "done"}
  BY <1>1 DEF PhaseTypes, GateInv, To
<1> QED
  BY <1>1, <1>2 DEF GateInv

\* release: the flag makes the second release of a request harmless.
LEMMA GateReleased ==
  ASSUME PhaseTypes, GateInv, NEW r \in Requests, NEW p \in Phases, To(r, p), release(r)
  PROVE  GateInv'
<1>1. Admitted' = Admitted \ {r}
  BY DEF GateInv, Admitted, release
<1>2. reserve_inflight' = Cardinality(Admitted') /\ reserve_inflight' <= HoldLimit
  <2>1. CASE admitted[r]
    <3>1. r \in Admitted /\ Admitted \subseteq Requests
      BY <2>1 DEF Admitted
    <3> QED
      BY <3>1, <2>1, <1>1, Cards DEF GateInv, release
  <2>2. CASE ~admitted[r]
    BY <2>2, <1>1 DEF GateInv, release, Admitted
  <2> QED
    BY <2>1, <2>2
<1>3. admitted' \in [Requests -> BOOLEAN] /\ \A q \in Requests : admitted'[q] => phase'[q] \notin {"new", "done"}
  BY DEF PhaseTypes, GateInv, To, release
<1> QED
  BY <1>2, <1>3 DEF GateInv

LEMMA GateArrive ==
  ASSUME PhaseTypes, GateInv, NEW r \in Requests, NEW a, NEW S, Arrive(r, a, S)
  PROVE  GateInv'
<1>1. CASE reserve_inflight >= HoldLimit
  <2>1. To(r, "reply") /\ UNCHANGED gateVars
    BY <1>1 DEF Arrive, Raise
  <2> QED
    BY <2>1, GateKept DEF Phases
<1>2. CASE ~(reserve_inflight >= HoldLimit)
  <2>1. /\ To(r, "input") /\ phase[r] = "new"
        /\ admitted' = [admitted EXCEPT ![r] = TRUE] /\ reserve_inflight' = reserve_inflight + 1
    BY <1>2 DEF Arrive
  <2>2. r \notin Admitted /\ Admitted' = Admitted \cup {r} /\ Admitted \subseteq Requests
    BY <2>1 DEF GateInv, Admitted
  <2>3. reserve_inflight' = Cardinality(Admitted') /\ reserve_inflight' <= HoldLimit
    BY <1>2, <2>1, <2>2, Cards DEF GateInv
  <2>4. admitted' \in [Requests -> BOOLEAN] /\ \A q \in Requests : admitted'[q] => phase'[q] \notin {"new", "done"}
    BY <2>1 DEF PhaseTypes, GateInv, To
  <2> QED
    BY <2>3, <2>4 DEF GateInv
<1> QED
  BY <1>1, <1>2

-----------------------------------------------------------------------------
(* The pool.                                                               *)

\* What a move of one request does to the sets the pool's gauges count.
LEMMA PoolMoves ==
  ASSUME PhaseTypes, NEW r \in Requests, NEW p \in Phases, To(r, p)
  PROVE  /\ Waiting' = IF p = "waiting" THEN Waiting \cup {r} ELSE Waiting \ {r}
         /\ Counted_in_use' = IF p \in Gauged THEN Counted_in_use \cup {r} ELSE Counted_in_use \ {r}
         /\ {q \in Requests : phase'[q] \in Connected}
              = IF p \in Connected THEN {q \in Requests : phase[q] \in Connected} \cup {r}
                ELSE {q \in Requests : phase[q] \in Connected} \ {r}
         /\ r \in Waiting <=> phase[r] = "waiting"
         /\ r \in Counted_in_use <=> phase[r] \in Gauged
         /\ Waiting \subseteq Requests /\ Counted_in_use \subseteq Requests
<1>1. \A q \in Requests : phase'[q] = IF q = r THEN p ELSE phase[q]
  BY DEF PhaseTypes, To
<1>2. Waiting' = IF p = "waiting" THEN Waiting \cup {r} ELSE Waiting \ {r}
  BY <1>1 DEF Waiting
<1>3. Counted_in_use' = IF p \in Gauged THEN Counted_in_use \cup {r} ELSE Counted_in_use \ {r}
  BY <1>1 DEF Counted_in_use
<1>4. {q \in Requests : phase'[q] \in Connected}
        = IF p \in Connected THEN {q \in Requests : phase[q] \in Connected} \cup {r}
          ELSE {q \in Requests : phase[q] \in Connected} \ {r}
  BY <1>1
<1> QED
  BY <1>2, <1>3, <1>4 DEF Waiting, Counted_in_use

\* A step that leaves the pool alone and stays on its side of it.
LEMMA PoolKept ==
  ASSUME PhaseTypes, PoolInv, NEW r \in Requests, NEW p \in Phases, To(r, p), UNCHANGED poolVars,
         p = "waiting" <=> phase[r] = "waiting",
         p \in Connected <=> phase[r] \in Connected,
         p \in Gauged <=> phase[r] \in Gauged
  PROVE  PoolInv'
<1>1. Waiting' = Waiting
  BY PoolMoves
<1>3. Counted_in_use' = Counted_in_use
  BY PoolMoves
<1>2. {q \in Requests : phase'[q] \in Connected} = {q \in Requests : phase[q] \in Connected}
  BY PoolMoves
<1> QED
  BY <1>1, <1>2, <1>3 DEF PoolInv, poolVars

LEMMA PoolGetConn ==
  ASSUME PhaseTypes, PoolInv, NEW r \in Requests, GetConn(r)
  PROVE  PoolInv'
<1>1. CASE Cardinality(conn) < PoolMax \/ Cardinality(Waiting) < PoolMax
  <2>1. /\ phase[r] = "pool" /\ To(r, "waiting") /\ acquiring' = acquiring + 1 /\ UNCHANGED <<in_use, conn>>
        /\ "waiting" \in Phases /\ "waiting" \notin Gauged /\ "waiting" \notin Connected
    BY <1>1 DEF GetConn, Phases, Gauged, Connected
  <2>2. /\ Waiting' = Waiting \cup {r} /\ Waiting \subseteq Requests /\ r \notin Waiting
        /\ Counted_in_use' = Counted_in_use
    BY <2>1, PoolMoves DEF Gauged, Connected
  <2>3. {q \in Requests : phase'[q] \in Connected} = {q \in Requests : phase[q] \in Connected}
    BY <2>1, PoolMoves DEF Connected
  <2>4. Cardinality(Waiting') = Cardinality(Waiting) + 1
    BY <2>2, Cards
  <2> QED
    BY <2>1, <2>2, <2>3, <2>4 DEF PoolInv
<1>2. CASE ~(Cardinality(conn) < PoolMax \/ Cardinality(Waiting) < PoolMax)
  <2>1. phase[r] = "pool" /\ To(r, "unshield") /\ UNCHANGED poolVars
    BY <1>2 DEF GetConn, Raise, poolVars
  <2> QED
    BY <2>1, PoolKept DEF Phases, Gauged, Connected
<1> QED
  BY <1>1, <1>2

LEMMA PoolConnect ==
  ASSUME PhaseTypes, PoolInv, NEW r \in Requests, Connect(r)
  PROVE  PoolInv'
<1>1. /\ phase[r] = "waiting" /\ To(r, "lock") /\ conn' = conn \cup {r}
      /\ acquiring' = acquiring - 1 /\ in_use' = in_use + 1
      /\ "lock" \in Phases /\ "lock" \in Gauged /\ "lock" \in Connected /\ "waiting" \notin Gauged
  BY DEF Connect, Phases, Gauged, Connected
<1>2. /\ Waiting' = Waiting \ {r} /\ Waiting \subseteq Requests /\ r \in Waiting
      /\ Counted_in_use' = Counted_in_use \cup {r} /\ Counted_in_use \subseteq Requests /\ r \notin Counted_in_use
  BY <1>1, PoolMoves
<1>3. {q \in Requests : phase'[q] \in Connected} = {q \in Requests : phase[q] \in Connected} \cup {r}
  BY <1>1, PoolMoves
<1>4. Cardinality(Waiting') = Cardinality(Waiting) - 1 /\ Cardinality(Counted_in_use') = Cardinality(Counted_in_use) + 1
  BY <1>2, Cards
<1> QED
  BY <1>1, <1>3, <1>4 DEF PoolInv

LEMMA PoolTimedOut ==
  ASSUME PhaseTypes, PoolInv, NEW r \in Requests, PoolTimeout(r)
  PROVE  PoolInv'
<1>1. /\ phase[r] = "waiting" /\ To(r, "unshield") /\ acquiring' = acquiring - 1 /\ UNCHANGED <<in_use, conn>>
      /\ "unshield" \in Phases
  BY DEF PoolTimeout, Raise, Phases
<1>2. /\ Waiting' = Waiting \ {r} /\ Waiting \subseteq Requests /\ r \in Waiting
      /\ Counted_in_use' = Counted_in_use
  BY <1>1, PoolMoves DEF Gauged, Connected
<1>3. {q \in Requests : phase'[q] \in Connected} = {q \in Requests : phase[q] \in Connected}
  BY <1>1, PoolMoves DEF Connected
<1>4. Cardinality(Waiting') = Cardinality(Waiting) - 1
  BY <1>2, Cards
<1> QED
  BY <1>1, <1>2, <1>3, <1>4 DEF PoolInv

\* putconn, and the gauge after it.
LEMMA PoolReturn ==
  ASSUME PhaseTypes, PoolInv, NEW r \in Requests, Return(r) \/ Returned(r)
  PROVE  PoolInv'
<1>1. CASE Return(r)
  <2>1. /\ phase[r] = "return" /\ To(r, "returned") /\ conn' = conn \ {r} /\ UNCHANGED <<acquiring, in_use>>
        /\ "returned" \in Phases
    BY <1>1 DEF Return, Phases
  <2>w. Waiting' = Waiting
    BY <2>1, PoolMoves
  <2>g. Counted_in_use' = Counted_in_use
    BY <2>1, PoolMoves DEF Gauged, Connected
  <2>2. Waiting' = Waiting /\ Counted_in_use' = Counted_in_use
    BY <2>w, <2>g
  <2>3. {q \in Requests : phase'[q] \in Connected} = {q \in Requests : phase[q] \in Connected} \ {r}
    BY <2>1, PoolMoves DEF Connected
  <2> QED
    BY <2>1, <2>2, <2>3 DEF PoolInv
<1>2. CASE Returned(r)
  <2>1. /\ phase[r] = "returned" /\ To(r, "unshield") /\ in_use' = in_use - 1 /\ UNCHANGED <<acquiring, conn>>
        /\ "unshield" \in Phases
    BY <1>2 DEF Returned, Phases
  <2>2. /\ Waiting' = Waiting
        /\ Counted_in_use' = Counted_in_use \ {r} /\ Counted_in_use \subseteq Requests /\ r \in Counted_in_use
    BY <2>1, PoolMoves DEF Gauged, Connected
  <2>3. {q \in Requests : phase'[q] \in Connected} = {q \in Requests : phase[q] \in Connected}
    BY <2>1, PoolMoves DEF Connected
  <2>4. Cardinality(Counted_in_use') = Cardinality(Counted_in_use) - 1
    BY <2>2, Cards
  <2> QED
    BY <2>1, <2>2, <2>3, <2>4 DEF PoolInv
<1> QED
  BY <1>1, <1>2

-----------------------------------------------------------------------------
(* The row locks.                                                          *)

\* A step without locks: it does not enter the body, and it leaves it only to
\* roll back.
LEMMA LockKept ==
  ASSUME PhaseTypes, LockInv, NEW r \in Requests, NEW p \in Phases \ {"new", "body"},
         To(r, p), UNCHANGED <<want, locked>>, phase[r] # "new",
         phase[r] \in {"body", "rollback"} => p = "rollback"
  PROVE  LockInv'
BY DEF PhaseTypes, LockInv, To

\* The end of a transaction drops the locks of its request and no others.
LEMMA LockDropped ==
  ASSUME PhaseTypes, LockInv, NEW r \in Requests, NEW p \in Phases \ {"new", "body"},
         To(r, p), UNCHANGED want, locked' = Unlocked(r), phase[r] # "new"
  PROVE  LockInv'
<1>1. /\ DOMAIN want' = Requests /\ locked' \in [Seats -> Requests \cup {None}]
      /\ \A q \in Requests : phase'[q] # "new" => want'[q].seats \subseteq Seats
  BY DEF PhaseTypes, LockInv, To, Unlocked
<1>2. \A s \in Seats : locked'[s] # None => phase'[locked'[s]] \in {"body", "rollback"}
  BY DEF PhaseTypes, LockInv, To, Unlocked
<1>3. \A q \in Requests : phase'[q] = "body" => \A s \in want'[q].seats : locked'[s] = q
  BY DEF PhaseTypes, LockInv, To, Unlocked
<1> QED
  BY <1>1, <1>2, <1>3 DEF LockInv

\* FOR UPDATE NOWAIT: the rows were free, so no other body has them.
LEMMA LockTaken ==
  ASSUME PhaseTypes, LockInv, NEW r \in Requests, To(r, "body"), UNCHANGED want, LockNowait(r),
         phase[r] = "lock", locked' = [s \in Seats |-> IF s \in want[r].seats THEN r ELSE locked[s]]
  PROVE  LockInv'
<1>1. /\ DOMAIN want' = Requests /\ locked' \in [Seats -> Requests \cup {None}]
      /\ \A q \in Requests : phase'[q] # "new" => want'[q].seats \subseteq Seats
  BY DEF PhaseTypes, LockInv, To
<1>2. \A s \in Seats : locked'[s] # None => phase'[locked'[s]] \in {"body", "rollback"}
  BY DEF PhaseTypes, LockInv, To
<1>3. ASSUME NEW q \in Requests, phase'[q] = "body", NEW s \in want'[q].seats
      PROVE  locked'[s] = q
  <2>1. CASE q = r
    BY <1>3, <2>1 DEF LockInv
  <2>2. CASE q # r
    <3>1. phase[q] = "body" /\ s \in Seats /\ locked[s] = q
      BY <1>3, <2>2 DEF PhaseTypes, LockInv, To
    <3> QED
      BY <3>1, <2>2 DEF LockNowait
  <2> QED
    BY <2>1, <2>2
<1> QED
  BY <1>1, <1>2, <1>3 DEF LockInv

LEMMA LockArrive ==
  ASSUME PhaseTypes, LockInv, NEW r \in Requests, NEW a, NEW S \in SUBSET Seats, Arrive(r, a, S)
  PROVE  LockInv'
<1>1. /\ phase[r] = "new" /\ UNCHANGED locked
      /\ want' = [want EXCEPT ![r] = [actor |-> a, seats |-> S]]
      /\ To(r, "reply") \/ To(r, "input")
  BY DEF Arrive, Raise, dbVars
<1>2. \A q \in Requests : IF q = r THEN want'[q].seats = S /\ phase'[q] \in {"reply", "input"}
                          ELSE want'[q] = want[q] /\ phase'[q] = phase[q]
  BY <1>1 DEF PhaseTypes, LockInv, To
<1>3. DOMAIN want' = Requests
  BY <1>1 DEF LockInv
<1> QED
  BY <1>1, <1>2, <1>3 DEF LockInv

-----------------------------------------------------------------------------
(* The answers.                                                            *)

\* Nothing is committed, and a request whose transaction is over keeps its
\* answer.
LEMMA ReplyKept ==
  ASSUME PhaseTypes, ReplyInv, NEW r \in Requests, NEW p \in Phases, To(r, p),
         UNCHANGED <<committed, unsure>>,
         \/ UNCHANGED reply
         \/ phase[r] \notin Over /\ \E n \in Nat : reply' = [reply EXCEPT ![r] = n],
         phase[r] \in Over => p \in Over
  PROVE  ReplyInv'
<1>1. \A q \in Requests : q # r => phase'[q] = phase[q] /\ reply'[q] = reply[q]
  BY DEF PhaseTypes, ReplyInv, To
<1>2. reply' \in [Requests -> Nat] /\ phase'[r] = p
  BY DEF PhaseTypes, ReplyInv, To
<1> QED
  BY <1>1, <1>2 DEF ReplyInv

\* COMMIT, answered or not.
LEMMA ReplyCommitted ==
  ASSUME PhaseTypes, ReplyInv, NEW r \in Requests, NEW p \in Phases, To(r, p),
         NEW n \in Nat, reply' = [reply EXCEPT ![r] = n],
         \A q \in Requests : q \in committed' /\ q \notin unsure' =>
           q = r \/ (q \in committed /\ q \notin unsure),
         r \in unsure' \/ (n = 201 /\ p \in Over)
  PROVE  ReplyInv'
<1>1. \A q \in Requests : q # r => phase'[q] = phase[q] /\ reply'[q] = reply[q]
  BY DEF PhaseTypes, ReplyInv, To
<1>2. reply' \in [Requests -> Nat] /\ phase'[r] = p /\ reply'[r] = n
  BY DEF PhaseTypes, ReplyInv, To
<1> QED
  BY <1>1, <1>2 DEF ReplyInv

-----------------------------------------------------------------------------
(* One step per action.                                                    *)

\* The moves that touch neither gate, pool nor locks: a request goes on, or is
\* refused before or after its transaction.
LEMMA PlainMove ==
  ASSUME RequestInv, NEW r \in Requests, NEW p \in Phases \ {"new", "done", "body", "waiting"},
         To(r, p), UNCHANGED <<want, gateVars, poolVars, dbVars>>,
         phase[r] \notin {"new", "waiting", "body", "rollback"},
         p \in Connected <=> phase[r] \in Connected,
         p \in Gauged <=> phase[r] \in Gauged,
         phase[r] \in Over => p \in Over,
         \/ UNCHANGED reply
         \/ phase[r] \notin Over /\ \E n \in Nat : reply' = [reply EXCEPT ![r] = n]
  PROVE  RequestInv'
<1>1. PhaseTypes' /\ UNCHANGED <<locked, committed, unsure>>
  BY DEF RequestInv, PhaseTypes, To, dbVars
<1>2. GateInv'
  BY GateKept DEF RequestInv
<1>3. PoolInv'
  BY PoolKept DEF RequestInv
<1>4. LockInv'
  BY <1>1, LockKept DEF RequestInv
<1>5. ReplyInv'
  BY <1>1, ReplyKept DEF RequestInv
<1> QED
  BY <1>1, <1>2, <1>3, <1>4, <1>5 DEF RequestInv

LEMMA ArriveInv ==
  ASSUME RequestInv, NEW r \in Requests, NEW a, NEW S \in SUBSET Seats, Arrive(r, a, S)
  PROVE  RequestInv'
<1>1. PICK p \in {"reply", "input"} : To(r, p)
  BY DEF Arrive, Raise
<1>2. /\ phase[r] = "new" /\ UNCHANGED poolVars /\ UNCHANGED <<committed, unsure>>
      /\ UNCHANGED reply \/ reply' = [reply EXCEPT ![r] = 503]
  BY DEF Arrive, Raise, dbVars
<1>3. PhaseTypes' /\ p \in Phases
  BY <1>1 DEF RequestInv, PhaseTypes, To, Phases
<1>4. PoolInv'
  BY <1>1, <1>2, <1>3, PoolKept DEF RequestInv, Connected, Gauged
<1>5. ReplyInv'
  BY <1>1, <1>2, <1>3, ReplyKept DEF RequestInv, Over
<1> QED
  BY <1>3, <1>4, <1>5, GateArrive, LockArrive DEF RequestInv

\* Before the pool: the body, the rate limit and the shield.
LEMMA EntryInv ==
  ASSUME RequestInv, NEW r \in Requests, Validate(r) \/ RateLimited(r) \/ Acquire(r)
  PROVE  RequestInv'
<1>1. /\ phase[r] \in {"input", "rate", "shield"}
      /\ UNCHANGED <<want, gateVars, poolVars, dbVars>>
  BY DEF Validate, RateLimited, Acquire
<1>2. \E p \in {"reply", "rate", "shield", "pool"} : To(r, p)
  BY DEF Validate, RateLimited, Acquire, Raise
<1>3. UNCHANGED reply \/ \E n \in {422, 429, 503, 409} : reply' = [reply EXCEPT ![r] = n]
  <2>1. CASE Validate(r)
    BY <2>1 DEF Validate, Raise
  <2>2. CASE RateLimited(r)
    <3>1. Raise(r, 503, "reply") \/ Raise(r, 429, "reply") \/ Raise(r, 422, "reply") \/ UNCHANGED reply
      BY <2>2 DEF RateLimited
    <3> QED
      BY <3>1 DEF Raise
  <2>3. CASE Acquire(r)
    <3>1. Raise(r, 503, "reply") \/ Raise(r, 409, "reply") \/ UNCHANGED reply
      BY <2>3 DEF Acquire
    <3> QED
      BY <3>1 DEF Raise
  <2> QED
    BY <2>1, <2>2, <2>3
<1>4. PICK p \in {"reply", "rate", "shield", "pool"} : To(r, p)
  BY <1>2
<1>5. /\ p \in Phases \ {"new", "done", "body", "waiting"}
      /\ p \notin Connected /\ p \notin Gauged
      /\ phase[r] \notin Connected /\ phase[r] \notin Gauged /\ phase[r] \notin Over
  BY <1>1, <1>4 DEF Phases, Connected, Gauged, Over
<1>6. UNCHANGED reply \/ \E n \in Nat : reply' = [reply EXCEPT ![r] = n]
  BY <1>3
<1> QED
  BY <1>1, <1>4, <1>5, <1>6, PlainMove

\* getconn and its outcomes.
LEMMA CheckoutInv ==
  ASSUME RequestInv, NEW r \in Requests, GetConn(r) \/ Connect(r) \/ PoolTimeout(r)
  PROVE  RequestInv'
<1>1. /\ phase[r] \in {"pool", "waiting"}
      /\ UNCHANGED <<want, gateVars, dbVars>>
      /\ UNCHANGED reply \/ reply' = [reply EXCEPT ![r] = 503]
  BY DEF GetConn, Connect, PoolTimeout, Raise
<1>2. PICK p \in {"waiting", "lock", "unshield"} : To(r, p)
  BY DEF GetConn, Connect, PoolTimeout, Raise
<1>3. PhaseTypes' /\ p \in Phases \ {"new", "done", "body"} /\ UNCHANGED <<locked, committed, unsure>>
  BY <1>1, <1>2 DEF RequestInv, PhaseTypes, To, Phases, dbVars
<1>4. GateInv'
  BY <1>1, <1>2, <1>3, GateKept DEF RequestInv
<1>5. PoolInv'
  BY PoolGetConn, PoolConnect, PoolTimedOut DEF RequestInv
<1>6. LockInv'
  BY <1>1, <1>2, <1>3, LockKept DEF RequestInv
<1>7. ReplyInv'
  BY <1>1, <1>2, <1>3, ReplyKept DEF RequestInv, Over
<1> QED
  BY <1>3, <1>4, <1>5, <1>6, <1>7 DEF RequestInv

LEMMA LockStepInv ==
  ASSUME RequestInv, NEW r \in Requests, Lock(r)
  PROVE  RequestInv'
<1>1. phase[r] = "lock" /\ UNCHANGED <<want, gateVars, poolVars, committed, unsure>>
  BY DEF Lock
<1>2. CASE locked' = locked /\ \E p \in {"rollback", "return"}, n \in {409, 201, 500, 503} : Raise(r, n, p)
  <2>1. PICK p \in {"rollback", "return"} : \E n \in {409, 201, 500, 503} : Raise(r, n, p)
    BY <1>2
  <2>2. To(r, p) /\ \E n \in Nat : reply' = [reply EXCEPT ![r] = n]
    <3>1. PICK n \in {409, 201, 500, 503} : To(r, p) /\ reply' = [reply EXCEPT ![r] = n]
      BY <2>1 DEF Raise
    <3>2. n \in Nat
      OBVIOUS
    <3> QED
      BY <3>1, <3>2
  <2>3. /\ p \in Phases \ {"new", "done", "body", "waiting"}
        /\ p \in Connected /\ p \in Gauged
        /\ phase[r] \in Connected /\ phase[r] \in Gauged /\ phase[r] \notin Over
    BY <1>1, <2>1 DEF Phases, Connected, Gauged, Over
  <2>4. UNCHANGED <<want, gateVars, poolVars, dbVars>>
    BY <1>1, <1>2 DEF dbVars
  <2> QED
    BY <1>1, <2>2, <2>3, <2>4, PlainMove
<1>3. CASE /\ LockNowait(r) /\ To(r, "body") /\ UNCHANGED reply
           /\ locked' = [s \in Seats |-> IF s \in want[r].seats THEN r ELSE locked[s]]
  <2>1. PhaseTypes' /\ "body" \in Phases \ {"new", "done"}
    BY <1>3 DEF RequestInv, PhaseTypes, To, Phases
  <2>2. GateInv'
    BY <1>1, <1>3, <2>1, GateKept DEF RequestInv
  <2>3. PoolInv'
    BY <1>1, <1>3, <2>1, PoolKept DEF RequestInv, Connected, Gauged
  <2>4. LockInv'
    BY <1>1, <1>3, LockTaken DEF RequestInv
  <2>5. ReplyInv'
    BY <1>1, <1>3, <2>1, ReplyKept DEF RequestInv, Over
  <2> QED
    BY <2>1, <2>2, <2>3, <2>4, <2>5 DEF RequestInv
<1> QED
  BY <1>2, <1>3 DEF Lock

\* The end of the body: refused, committed or unanswered.
LEMMA CommitInv ==
  ASSUME RequestInv, NEW r \in Requests, Commit(r)
  PROVE  RequestInv'
<1>1. phase[r] = "body" /\ UNCHANGED <<want, gateVars, poolVars>>
  BY DEF Commit
<1>2. PICK p \in {"rollback", "return"} : To(r, p)
  BY DEF Commit, Refuse, Raise
<1>3. PhaseTypes' /\ p \in Phases \ {"new", "done", "body"}
  BY <1>2 DEF RequestInv, PhaseTypes, To, Phases
<1>4. GateInv'
  BY <1>1, <1>2, <1>3, GateKept DEF RequestInv
<1>5. PoolInv'
  BY <1>1, <1>2, <1>3, PoolKept DEF RequestInv, Connected, Gauged
<1>6. CASE Refuse(r)
  <2>1. To(r, "rollback") /\ reply' = [reply EXCEPT ![r] = 409] /\ UNCHANGED <<locked, committed, unsure>>
    BY <1>6 DEF Refuse, Raise, dbVars
  <2>2. "rollback" \in Phases \ {"new", "body"}
    BY DEF Phases
  <2>3. LockInv'
    BY <1>1, <2>1, <2>2, LockKept DEF RequestInv
  <2>4. phase[r] \notin Over
    BY <1>1 DEF Over
  <2>5. \E n \in Nat : reply' = [reply EXCEPT ![r] = n]
    <3> WITNESS 409 \in Nat
    <3> QED
      BY <2>1
  <2>6. ReplyInv'
    BY <1>2, <1>3, <2>1, <2>4, <2>5, ReplyKept DEF RequestInv
  <2> QED
    BY <1>3, <1>4, <1>5, <2>3, <2>6 DEF RequestInv
<1>7. CASE /\ locked' = Unlocked(r) /\ committed' \in {committed, committed \cup {r}}
           /\ \/ Raise(r, 201, "return") /\ UNCHANGED unsure
              \/ unsure' = unsure \cup {r} /\ \E e \in {500, 503} : Raise(r, e, "rollback")
  <2>1. LockInv'
    BY <1>1, <1>2, <1>3, <1>7, LockDropped DEF RequestInv
  <2>2. \A q \in Requests : q \in committed' /\ q \notin unsure' =>
          q = r \/ (q \in committed /\ q \notin unsure)
    BY <1>7
  <2>3. PICK n \in {201, 500, 503} : reply' = [reply EXCEPT ![r] = n] /\ (r \in unsure' \/ (n = 201 /\ To(r, "return")))
    BY <1>7 DEF Raise
  <2>4. r \in unsure' \/ (n = 201 /\ p \in Over)
    BY <1>2, <2>3 DEF To, Over, RequestInv, PhaseTypes
  <2>5. ReplyInv'
    <3>1. PhaseTypes /\ ReplyInv /\ p \in Phases /\ n \in Nat
      BY <1>3, <2>3 DEF RequestInv
    <3> QED
      BY <1>2, <2>2, <2>3, <2>4, <3>1, ReplyCommitted
  <2> QED
    BY <1>3, <1>4, <1>5, <2>1, <2>5 DEF RequestInv
<1> QED
  BY <1>6, <1>7 DEF Commit

LEMMA RollbackInv ==
  ASSUME RequestInv, NEW r \in Requests, Rollback(r)
  PROVE  RequestInv'
<1>1. /\ phase[r] = "rollback" /\ To(r, "return") /\ locked' = Unlocked(r)
      /\ UNCHANGED <<want, gateVars, poolVars, committed, unsure, reply>>
  BY DEF Rollback
<1>2. PhaseTypes' /\ "return" \in Phases \ {"new", "done", "body"}
  BY <1>1 DEF RequestInv, PhaseTypes, To, Phases
<1>3. GateInv'
  BY <1>1, <1>2, GateKept DEF RequestInv
<1>4. PoolInv'
  BY <1>1, <1>2, PoolKept DEF RequestInv, Connected, Gauged
<1>5. LockInv'
  BY <1>1, <1>2, LockDropped DEF RequestInv
<1>6. ReplyInv'
  BY <1>1, <1>2, ReplyKept DEF RequestInv, Over
<1> QED
  BY <1>2, <1>3, <1>4, <1>5, <1>6 DEF RequestInv

LEMMA ReturnInv ==
  ASSUME RequestInv, NEW r \in Requests, Return(r) \/ Returned(r)
  PROVE  RequestInv'
<1>1. /\ phase[r] \in {"return", "returned"}
      /\ UNCHANGED <<want, gateVars, dbVars, reply>>
  BY DEF Return, Returned
<1>2. PICK p \in {"returned", "unshield"} : To(r, p)
  BY DEF Return, Returned
<1>3. PhaseTypes' /\ p \in Phases \ {"new", "done", "body"} /\ UNCHANGED <<locked, committed, unsure>>
  BY <1>1, <1>2 DEF RequestInv, PhaseTypes, To, Phases, dbVars
<1>4. GateInv'
  BY <1>1, <1>2, <1>3, GateKept DEF RequestInv
<1>5. PoolInv'
  BY PoolReturn DEF RequestInv
<1>6. LockInv'
  BY <1>1, <1>2, <1>3, LockKept DEF RequestInv
<1>7. ReplyInv'
  BY <1>1, <1>2, <1>3, ReplyKept DEF RequestInv, Over
<1> QED
  BY <1>3, <1>4, <1>5, <1>6, <1>7 DEF RequestInv

\* After the transaction: the shield, and an exception on its way out.
LEMMA ExitInv ==
  ASSUME RequestInv, NEW r \in Requests, Unshield(r) \/ Unhandled(r)
  PROVE  RequestInv'
<1>1. /\ phase[r] \in {"unshield", "reply"}
      /\ UNCHANGED <<want, gateVars, poolVars, dbVars, reply>>
  BY DEF Unshield, Unhandled
<1>2. PICK p \in {"reply", "finally"} : To(r, p)
  BY DEF Unshield, Unhandled
<1>3. /\ p \in Phases \ {"new", "done", "body", "waiting"}
      /\ p \notin Connected /\ p \notin Gauged /\ p \in Over
      /\ phase[r] \notin Connected /\ phase[r] \notin Gauged
  BY <1>1, <1>2 DEF Phases, Connected, Gauged, Over
<1> QED
  BY <1>1, <1>2, <1>3, PlainMove

\* The two releases of the slot.
LEMMA ReleaseInv ==
  ASSUME RequestInv, NEW r \in Requests, ResponseStart(r) \/ Finally(r)
  PROVE  RequestInv'
<1>1. /\ phase[r] \in {"reply", "finally"} /\ release(r)
      /\ UNCHANGED <<want, poolVars, dbVars, reply>>
  BY DEF ResponseStart, Finally
<1>2. PICK p \in {"finally", "done"} : To(r, p)
  BY DEF ResponseStart, Finally
<1>3. PhaseTypes' /\ p \in Phases \ {"new", "body"} /\ UNCHANGED <<locked, committed, unsure>>
  BY <1>1, <1>2 DEF RequestInv, PhaseTypes, To, Phases, dbVars
<1>5. GateInv'
  BY <1>1, <1>2, <1>3, GateReleased DEF RequestInv
<1>6. PoolInv'
  BY <1>1, <1>2, <1>3, PoolKept DEF RequestInv, Connected, Gauged
<1>7. LockInv'
  BY <1>1, <1>2, <1>3, LockKept DEF RequestInv
<1>8. ReplyInv'
  BY <1>1, <1>2, <1>3, ReplyKept DEF RequestInv, Over
<1> QED
  BY <1>3, <1>5, <1>6, <1>7, <1>8 DEF RequestInv

\* Time passes in Redis, or nothing happens.
LEMMA QuietInv ==
  ASSUME RequestInv, UNCHANGED <<phase, want, gateVars, poolVars, dbVars, reply>>
  PROVE  RequestInv'
<1>1. PhaseTypes' /\ GateInv'
  BY DEF RequestInv, PhaseTypes, GateInv, Admitted, gateVars
<1>2. PoolInv'
  BY DEF RequestInv, PoolInv, Waiting, Counted_in_use, poolVars
<1>3. LockInv' /\ ReplyInv'
  BY DEF RequestInv, LockInv, ReplyInv, dbVars
<1> QED
  BY <1>1, <1>2, <1>3 DEF RequestInv

LEMMA StepInv == RequestInv /\ [Next]_vars => RequestInv'
<1> SUFFICES ASSUME RequestInv, [Next]_vars PROVE RequestInv'
  OBVIOUS
<1>1. CASE UNCHANGED vars
  BY <1>1, QuietInv DEF vars
<1>2. CASE \E r \in Requests, a \in Actors, S \in SUBSET Seats : Arrive(r, a, S)
  BY <1>2, ArriveInv
<1>3. CASE \E r \in Requests : Step(r)
  BY <1>3, EntryInv, CheckoutInv, LockStepInv, CommitInv, RollbackInv, ReturnInv, ExitInv, ReleaseInv DEF Step
<1>4. CASE (\E r \in Requests : Lapse(r)) \/ \E a \in Actors : RateWindow(a)
  BY <1>4, QuietInv DEF Lapse, RateWindow
<1> QED
  BY <1>1, <1>2, <1>3, <1>4 DEF Next

-----------------------------------------------------------------------------
\* The inductive invariant of a process that serves hold requests.
THEOREM RequestInvariant == Spec => []RequestInv
BY InitInv, StepInv, PTL DEF Spec

\* The admission counter and both pool gauges are exact in every reachable
\* state, and the gate never lets in more than hold_admission_limit.
THEOREM GaugesAreExact == Spec => []CountersAreExact
<1>1. ASSUME RequestInv PROVE CountersAreExact
  <2>1. conn \cup {r \in Requests : phase[r] = "returned"} = Counted_in_use
    BY <1>1 DEF RequestInv, PoolInv, Counted_in_use, Gauged
  <2> QED
    BY <1>1, <2>1 DEF RequestInv, GateInv, PoolInv, CountersAreExact, Admitted
<1> QED
  BY <1>1, RequestInvariant, PTL

\* A finished request leaves no slot, connection or row lock behind.
THEOREM NoRequestLeaks == Spec => []NothingLeaks
<1>1. ASSUME RequestInv PROVE NothingLeaks
  <2>1. \A r \in Requests : phase[r] = "done" => ~admitted[r] /\ r \notin conn
    BY <1>1 DEF RequestInv, GateInv, PoolInv, Connected
  <2>2. \A s \in Seats : locked[s] # None => locked[s] \in conn
    BY <1>1 DEF RequestInv, LockInv, PoolInv, Connected
  <2> QED
    BY <2>1, <2>2 DEF NothingLeaks
<1> QED
  BY <1>1, RequestInvariant, PTL

\* Row locks, not the shield, keep two transactions off a common seat.
THEOREM BodiesAreExclusive == Spec => []BodyIsExclusive
<1>1. RequestInv => BodyIsExclusive
  BY DEF RequestInv, LockInv, BodyIsExclusive
<1> QED
  BY <1>1, RequestInvariant, PTL

\* A client that is refused has no hold, unless COMMIT was not answered.
THEOREM RefusedMeansNoHold == Spec => []RefusalMeansNoHold
<1>1. RequestInv => RefusalMeansNoHold
  BY DEF RequestInv, ReplyInv, RefusalMeansNoHold
<1> QED
  BY <1>1, RequestInvariant, PTL

\* RELEASE deletes only keys that carry the token of the request that calls
\* it, so a late release never opens the shield of another request.
THEOREM ReleaseIsFenced == Spec => ShieldIsFenced
<1> DEFINE Fenced == \A s \in Seats, r \in Requests :
                       shield[s] # None /\ shield'[s] = None /\ phase'[r] # phase[r] => shield[s] = r
<1>1. ASSUME RequestInv, [Next]_vars PROVE [Fenced]_vars
  <2>1. CASE UNCHANGED shield
    BY <2>1
  <2>2. CASE \E q \in Requests : Lapse(q)
    BY <2>2 DEF Lapse
  <2>3. ASSUME NEW q \in Requests, Acquire(q) PROVE Fenced
    <3>1. UNCHANGED shield \/ shield' = Leased(q)
      BY <2>3 DEF Acquire
    <3> QED
      BY <3>1 DEF Leased
  <2>4. ASSUME NEW q \in Requests, Unshield(q) PROVE Fenced
    <3>1. To(q, "reply") /\ (UNCHANGED shield \/ shield' = Unleased(q))
      BY <2>4 DEF Unshield
    <3>2. \A r \in Requests : phase'[r] # phase[r] => r = q
      BY <1>1, <3>1 DEF RequestInv, PhaseTypes, To
    <3>3. \A s \in Seats : shield[s] # None /\ shield'[s] = None => shield[s] = q
      BY <3>1 DEF Unleased
    <3> QED
      BY <3>2, <3>3
  <2>5. CASE \E r \in Requests, a \in Actors, S \in SUBSET Seats : Arrive(r, a, S)
    BY <2>1, <2>5 DEF Arrive
  <2>6. CASE \E q \in Requests : Step(q)
    <3>1. PICK q \in Requests : Step(q)
      BY <2>6
    <3>2. UNCHANGED shield \/ Acquire(q) \/ Unshield(q)
      BY <3>1 DEF Step, Validate, RateLimited, GetConn, Connect, PoolTimeout, Lock, Commit, Rollback,
                  Return, Returned, ResponseStart, Unhandled, Finally
    <3> QED
      BY <2>1, <2>3, <2>4, <3>2
  <2>7. CASE \E a \in Actors : RateWindow(a)
    BY <2>1, <2>7 DEF RateWindow
  <2>8. CASE UNCHANGED vars
    BY <2>8
  <2> QED
    BY <1>1, <2>2, <2>5, <2>6, <2>7, <2>8 DEF Next
<1> QED
  BY <1>1, RequestInvariant, PTL DEF Spec, ShieldIsFenced

-----------------------------------------------------------------------------
(***************************************************************************)
(* The locks.                                                              *)
(***************************************************************************)
LockStep == [mode : {"wait", "nowait"}, row : Rows]

OfEvent(x) == x[1] \in {"refresh", "schedule"}

\* Idempotency keys and event ids first, then what belongs to orders with
\* refunds last, then the tables of the workers.
Rank(x) == IF x[1] = "key" THEN 1 ELSE IF OfEvent(x) THEN 4 ELSE IF x[1] = "refund" THEN 3 ELSE 2

\* A step that waits, for a row that the lock order is about.
Waits(l) == l.mode = "wait" /\ ~OfEvent(l.row)

InOrder(p) == \A i, j \in DOMAIN p : i < j /\ Waits(p[j]) => Rank(p[i].row) < Rank(p[j].row)

\* A transaction that has x may wait only for rows above it.
Above(x, p) == \A j \in DOMAIN p : Waits(p[j]) => Rank(x) < Rank(p[j].row)

IsProgram(p) == p \in Seq(LockStep) /\ InOrder(p)

OrderedLocks ==
  /\ DOMAIN prog = Sessions /\ \A s \in Sessions : IsProgram(prog[s])
  /\ owner \in [Rows -> Sessions \cup {Nobody}]
  /\ \A s \in Sessions : s \notin active => prog[s] = <<>>
  /\ \A x \in Rows, s \in Sessions : owner[x] = s => s \in active /\ Above(x, prog[s])

-----------------------------------------------------------------------------
(***************************************************************************)
(* The programs are in order.                                              *)
(***************************************************************************)
\* Steps that never wait for a row of the lock order.
Plain(p) == p \in Seq(LockStep) /\ \A i \in DOMAIN p : ~Waits(p[i])

LEMMA RowsOf ==
  /\ \A o \in Orders : /\ <<"order", o>> \in Rows /\ <<"payment", o>> \in Rows
                       /\ <<"hold", o>> \in Rows /\ <<"refund", o>> \in Rows
  /\ \A s \in SeatNumbers : <<"seat", s>> \in Rows
  /\ \A k \in Keys : <<"key", k>> \in Rows
  /\ \A e \in Events : <<"refresh", e>> \in Rows /\ <<"schedule", e>> \in Rows
BY DEF Rows

LEMMA NowaitIsPlain ==
  ASSUME NEW t, NEW x, <<t, x>> \in Rows
  PROVE  Plain(<<Nowait(t, x)>>) /\ Nowait(t, x) \in LockStep /\ ~Waits(Nowait(t, x))
<1>1. Nowait(t, x) \in LockStep /\ ~Waits(Nowait(t, x))
  BY DEF Nowait, LockStep, Waits
<1> QED
  BY <1>1 DEF Plain

LEMMA WaitIsStep ==
  ASSUME NEW t, NEW x, <<t, x>> \in Rows
  PROVE  /\ Wait(t, x) \in LockStep
         /\ t \in {"refresh", "schedule"} => ~Waits(Wait(t, x))
         /\ t \notin {"refresh", "schedule"} =>
              Rank(Wait(t, x).row) = IF t = "key" THEN 1 ELSE IF t = "refund" THEN 3 ELSE 2
<1>1. Wait(t, x) \in LockStep
  BY DEF Wait, LockStep
<1>2. Wait(t, x).row = <<t, x>> /\ <<t, x>>[1] = t
  BY DEF Wait
<1>3. t \in {"refresh", "schedule"} => ~Waits(Wait(t, x))
  BY <1>2 DEF Waits, OfEvent
<1>4. t \notin {"refresh", "schedule"} =>
        Rank(Wait(t, x).row) = IF t = "key" THEN 1 ELSE IF t = "refund" THEN 3 ELSE 2
  BY <1>2 DEF Rank, OfEvent
<1> QED
  BY <1>1, <1>3, <1>4

LEMMA PlainConcat ==
  ASSUME NEW p, NEW q, Plain(p), Plain(q)
  PROVE  Plain(p \o q)
<1>1. p \in Seq(LockStep) /\ q \in Seq(LockStep)
  BY DEF Plain
<1>2. p \o q \in Seq(LockStep) /\ DOMAIN (p \o q) = 1..(Len(p) + Len(q))
  BY <1>1
<1>3. ASSUME NEW i \in DOMAIN (p \o q) PROVE ~Waits((p \o q)[i])
  <2>1. CASE i <= Len(p)
    <3>1. (p \o q)[i] = p[i] /\ i \in DOMAIN p
      BY <1>1, <1>2, <1>3, <2>1
    <3> QED
      BY <3>1 DEF Plain
  <2>2. CASE i > Len(p)
    <3>1. (p \o q)[i] = q[i - Len(p)] /\ i - Len(p) \in DOMAIN q
      BY <1>1, <1>2, <1>3, <2>2
    <3> QED
      BY <3>1 DEF Plain
  <2> QED
    BY <1>1, <1>2, <1>3, <2>1, <2>2
<1> QED
  BY <1>2, <1>3 DEF Plain

LEMMA PlainIsProgram ==
  ASSUME NEW p, Plain(p)
  PROVE  IsProgram(p)
BY DEF Plain, IsProgram, InOrder

\* Only the first step of a transaction may wait without further conditions.
LEMMA WaitThenPlain ==
  ASSUME NEW l \in LockStep, NEW q, Plain(q)
  PROVE  IsProgram(<<l>> \o q)
<1>1. q \in Seq(LockStep) /\ <<l>> \in Seq(LockStep)
  BY DEF Plain
<1>2. <<l>> \o q \in Seq(LockStep) /\ DOMAIN (<<l>> \o q) = 1..(1 + Len(q))
  BY <1>1
<1>3. ASSUME NEW j \in DOMAIN (<<l>> \o q), j > 1 PROVE ~Waits((<<l>> \o q)[j])
  <2>1. (<<l>> \o q)[j] = q[j - 1] /\ j - 1 \in DOMAIN q
    BY <1>1, <1>2, <1>3
  <2> QED
    BY <2>1 DEF Plain
<1>4. InOrder(<<l>> \o q)
  BY <1>2, <1>3 DEF InOrder
<1> QED
  BY <1>2, <1>4 DEF IsProgram

LEMMA AscendingSeats ==
  ASSUME NEW T \in SUBSET SeatNumbers, NEW S \in Ascending(T)
  PROVE  S \in Seq(SeatNumbers)
<1>1. Cardinality(SeatNumbers) \in Nat
  BY SeatAssumption, FS_CardinalityType
<1>2. PICK n \in 0..Cardinality(SeatNumbers) : S \in [1..n -> T]
  BY DEF Ascending
<1>3. n \in Nat /\ S \in [1..n -> SeatNumbers]
  BY <1>1, <1>2
<1> QED
  BY <1>3

LEMMA OwnedSeats ==
  ASSUME NEW o \in Orders
  PROVE  Items[o] \in Seq(SeatNumbers) /\ \A S \in Owned(o) : S \in Seq(SeatNumbers)
<1>1. Items[o] \in Seq(SeatNumbers)
  BY SeatAssumption
<1>2. Range(Items[o]) \in SUBSET SeatNumbers
  BY <1>1 DEF Range
<1> QED
  BY <1>1, <1>2, AscendingSeats DEF Owned

LEMMA SeatRowsArePlain ==
  ASSUME NEW S \in Seq(SeatNumbers)
  PROVE  Plain(SeatRows(S))
<1>1. SeatRows(S) = [i \in 1..Len(S) |-> Nowait("seat", S[i])] /\ Len(S) \in Nat
  BY DEF SeatRows
<1>2. \A i \in 1..Len(S) : S[i] \in SeatNumbers
  OBVIOUS
<1>3. \A i \in 1..Len(S) : Nowait("seat", S[i]) \in LockStep /\ ~Waits(Nowait("seat", S[i]))
  BY <1>2, RowsOf, NowaitIsPlain
<1>4. SeatRows(S) \in Seq(LockStep)
  BY <1>1, <1>3
<1> QED
  BY <1>1, <1>3, <1>4 DEF Plain

LEMMA ReleaseHoldIsPlain ==
  ASSUME NEW o \in Orders, NEW S \in Seq(SeatNumbers)
  PROVE  Plain(ReleaseHold(o, S))
BY RowsOf, NowaitIsPlain, SeatRowsArePlain, PlainConcat DEF ReleaseHold

LEMMA ReserveInOrder ==
  ASSUME NEW p \in Programs("reserve") PROVE IsProgram(p)
<1>1. PICK k \in Keys, S \in Ascending(SeatNumbers) : p = Reserve(k, S)
  BY DEF Programs
<1> QED
  BY <1>1, AscendingSeats, SeatRowsArePlain, RowsOf, WaitIsStep, WaitThenPlain DEF Reserve

LEMMA OrderInOrder ==
  ASSUME NEW p \in Programs("order") PROVE IsProgram(p)
<1>1. PICK k \in Keys, o \in Orders : p = OnOrder(k, o)
  BY DEF Programs
<1>2. p = <<Wait("key", k)>> \o <<Nowait("order", o)>>
  BY <1>1 DEF OnOrder
<1> QED
  BY <1>2, RowsOf, NowaitIsPlain, WaitIsStep, WaitThenPlain

LEMMA ReleaseInOrder ==
  ASSUME NEW p \in Programs("release") PROVE IsProgram(p)
<1>0. PICK o \in Orders : \E S \in Owned(o) : p = Release(o, S)
  BY DEF Programs
<1>1. PICK S \in Owned(o) : p = Release(o, S)
  BY <1>0
<1>2. Plain(ReleaseHold(o, S))
  BY OwnedSeats, ReleaseHoldIsPlain
<1> QED
  BY <1>1, <1>2, RowsOf, NowaitIsPlain, PlainConcat, PlainIsProgram DEF Release

LEMMA CallbackInOrder ==
  ASSUME NEW p \in Programs("callback") PROVE IsProgram(p)
<1>0. ASSUME NEW o \in Orders PROVE Plain(CallbackDuplicate(o))
  <2>1. CallbackDuplicate(o) = <<Nowait("order", o)>> \o <<Nowait("payment", o)>>
    BY DEF CallbackDuplicate
  <2> QED
    BY <2>1, RowsOf, NowaitIsPlain, PlainConcat
<1>1. CASE \E o \in Orders : p = CallbackDuplicate(o)
  BY <1>0, <1>1, PlainIsProgram
<1>2. CASE \E o \in Orders : \E S \in Owned(o) : p = Callback(o, S)
  <2>1. PICK o \in Orders : \E S \in Owned(o) : p = Callback(o, S)
    BY <1>2
  <2>2. PICK S \in Owned(o) : p = Callback(o, S)
    BY <2>1
  <2>3. Plain(ReleaseHold(o, S)) /\ Plain(SeatRows(Items[o]))
    BY OwnedSeats, ReleaseHoldIsPlain, SeatRowsArePlain
  <2>4. Plain(CallbackDuplicate(o) \o <<Nowait("hold", o)>>)
    BY <1>0, RowsOf, NowaitIsPlain, PlainConcat
  <2>5. Plain(Callback(o, S))
    BY <2>3, <2>4, PlainConcat DEF Callback
  <2> QED
    BY <2>2, <2>5, PlainIsProgram
<1> QED
  BY <1>1, <1>2 DEF Programs

LEMMA ConsumeInOrder ==
  ASSUME NEW p \in Programs("consume") PROVE IsProgram(p)
<1>1. CASE \E k \in Keys, e \in Events : p = SeatsChanged(k, e)
  <2>1. PICK k \in Keys, e \in Events : p = SeatsChanged(k, e)
    BY <1>1
  <2>2. Wait("refresh", e) \in LockStep /\ ~Waits(Wait("refresh", e))
    BY RowsOf, WaitIsStep
  <2>3. Plain(<<Wait("refresh", e)>>)
    BY <2>2 DEF Plain
  <2>4. p = <<Wait("key", k)>> \o <<Wait("refresh", e)>>
    BY <2>1 DEF SeatsChanged
  <2> QED
    BY <2>3, <2>4, RowsOf, WaitIsStep, WaitThenPlain
<1>2. CASE \E k \in Keys, o \in Orders : p = OrderPaid(k, o) \/ p = RefundRequested(k, o)
  <2>1. PICK k \in Keys, o \in Orders : p = OrderPaid(k, o) \/ p = RefundRequested(k, o)
    BY <1>2
  <2>2. /\ Wait("key", k) \in LockStep /\ Rank(Wait("key", k).row) = 1
        /\ Wait("order", o) \in LockStep /\ Rank(Wait("order", o).row) = 2
        /\ Wait("refund", o) \in LockStep /\ Rank(Wait("refund", o).row) = 3
    BY RowsOf, WaitIsStep
  <2>3. CASE p = OrderPaid(k, o)
    BY <2>2, <2>3 DEF OrderPaid, IsProgram, InOrder
  <2>4. CASE p = RefundRequested(k, o)
    BY <2>2, <2>4 DEF RefundRequested, IsProgram, InOrder
  <2> QED
    BY <2>1, <2>3, <2>4
<1> QED
  BY <1>1, <1>2 DEF Programs

LEMMA SimulateInOrder ==
  ASSUME NEW p \in Programs("simulate") PROVE IsProgram(p)
<1>1. PICK o \in Orders : p = CountDelivery(o)
  BY DEF Programs
<1>2. p = <<Wait("payment", o)>> /\ Wait("payment", o) \in LockStep
  BY <1>1, RowsOf, WaitIsStep DEF CountDelivery
<1> QED
  BY <1>2 DEF IsProgram, InOrder

LEMMA EventsInOrder ==
  ASSUME NEW p \in Programs("refresh") \cup Programs("seed") PROVE IsProgram(p)
<1>1. PICK es \in Sequences2 : p = AcknowledgeRefresh(es) \/ p = SeedSchedule(es)
  BY DEF Programs
<1>2. PICK n \in 1..2 : es \in [1..n -> Events]
  BY DEF Sequences2
<1>3. PICK t \in {"refresh", "schedule"} : p = [i \in 1..n |-> Wait(t, es[i])]
  BY <1>1, <1>2 DEF AcknowledgeRefresh, SeedSchedule
<1>4. \A i \in 1..n : Wait(t, es[i]) \in LockStep /\ ~Waits(Wait(t, es[i]))
  BY <1>2, RowsOf, WaitIsStep
<1>5. p \in Seq(LockStep)
  BY <1>3, <1>4
<1>6. Plain(p)
  BY <1>3, <1>4, <1>5 DEF Plain
<1> QED
  BY <1>6, PlainIsProgram

LEMMA ProgramsInOrder ==
  ASSUME NEW role, NEW p \in Programs(role) PROVE IsProgram(p)
<1>1. role \in {"reserve", "order", "release", "callback", "consume", "simulate", "refresh", "seed"}
  BY DEF Programs
<1> QED
  BY <1>1, ReserveInOrder, OrderInOrder, ReleaseInOrder, CallbackInOrder, ConsumeInOrder,
     SimulateInOrder, EventsInOrder

-----------------------------------------------------------------------------
(***************************************************************************)
(* Every step keeps the locks in order.                                    *)
(***************************************************************************)
LEMMA TailInOrder ==
  ASSUME NEW p, IsProgram(p), p # <<>>
  PROVE  /\ IsProgram(Tail(p)) /\ Head(p).row \in Rows /\ Above(Head(p).row, Tail(p))
         /\ \A x : Above(x, p) => Above(x, Tail(p))
<1>1. p \in Seq(LockStep) /\ InOrder(p)
  BY DEF IsProgram
<1>2. Tail(p) \in Seq(LockStep) /\ Head(p) = p[1] /\ Head(p) \in LockStep /\ 1 \in DOMAIN p
  BY <1>1
<1>3. \A j \in DOMAIN Tail(p) : j \in Nat /\ j + 1 \in DOMAIN p /\ j + 1 > 1 /\ Tail(p)[j] = p[j + 1]
  BY <1>1
<1>4. InOrder(Tail(p))
  BY <1>1, <1>3 DEF InOrder
<1>5. Above(Head(p).row, Tail(p))
  BY <1>1, <1>2, <1>3 DEF InOrder, Above
<1>6. \A x : Above(x, p) => Above(x, Tail(p))
  BY <1>3 DEF Above
<1>7. Head(p).row \in Rows
  BY <1>2 DEF LockStep
<1> QED
  BY <1>2, <1>4, <1>5, <1>6, <1>7 DEF IsProgram

LEMMA EmptyInOrder == IsProgram(<<>>) /\ \A x : Above(x, <<>>)
BY DEF IsProgram, InOrder, Above

LEMMA InitInOrder == LockInit => OrderedLocks
<1> SUFFICES ASSUME LockInit PROVE OrderedLocks
  OBVIOUS
<1>1. prog = [s \in Sessions |-> <<>>] /\ owner = [x \in Rows |-> Nobody]
  BY DEF LockInit
<1>2. \A s \in Sessions : prog[s] = <<>> /\ IsProgram(prog[s])
  BY <1>1, EmptyInOrder
<1>3. \A x \in Rows : owner[x] \notin Sessions
  BY <1>1, SessionAssumption
<1> QED
  BY <1>1, <1>2, <1>3 DEF OrderedLocks

\* The end of a transaction frees its rows and touches no others.
LEMMA EndedInOrder ==
  ASSUME OrderedLocks, NEW s \in Sessions, Ended(s)
  PROVE  OrderedLocks'
<1>1. DOMAIN prog' = Sessions /\ \A t \in Sessions : prog'[t] = IF t = s THEN <<>> ELSE prog[t]
  BY DEF OrderedLocks, Ended
<1>2. owner' \in [Rows -> Sessions \cup {Nobody}]
  BY DEF OrderedLocks, Ended
<1>3. ASSUME NEW x \in Rows, NEW t \in Sessions, owner'[x] = t
      PROVE  owner[x] = t /\ t # s
  BY <1>3, SessionAssumption DEF Ended
<1>4. \A t \in Sessions : IsProgram(prog'[t])
  BY <1>1, EmptyInOrder DEF OrderedLocks
<1>5. \A t \in Sessions : t \notin active' => prog'[t] = <<>>
  BY <1>1 DEF OrderedLocks, Ended
<1>6. ASSUME NEW x \in Rows, NEW t \in Sessions, owner'[x] = t
      PROVE  t \in active' /\ Above(x, prog'[t])
  <2>1. owner[x] = t /\ t # s
    BY <1>3, <1>6
  <2>2. t \in active /\ Above(x, prog[t])
    BY <2>1 DEF OrderedLocks
  <2> QED
    BY <1>1, <2>1, <2>2 DEF Ended
<1> QED
  BY <1>1, <1>2, <1>4, <1>5, <1>6 DEF OrderedLocks

\* A session that was in no transaction starts one and may have claimed rows.
LEMMA BegunInOrder ==
  ASSUME OrderedLocks, NEW s \in Sessions, s \notin active, active' = active \cup {s},
         NEW p, Plain(p), DOMAIN prog' = Sessions,
         \A t \in Sessions : prog'[t] = IF t = s THEN p ELSE prog[t],
         owner' \in [Rows -> Sessions \cup {Nobody}],
         \A x \in Rows : owner'[x] \in {owner[x], s}
  PROVE  OrderedLocks'
<1>1. DOMAIN prog' = Sessions /\ \A t \in Sessions : prog'[t] = IF t = s THEN p ELSE prog[t]
  OBVIOUS
<1>2. \A t \in Sessions : IsProgram(prog'[t])
  BY <1>1, PlainIsProgram DEF OrderedLocks
<1>3. \A t \in Sessions : t \notin active' => prog'[t] = <<>>
  BY <1>1 DEF OrderedLocks
<1>4. ASSUME NEW x \in Rows, NEW t \in Sessions, owner'[x] = t
      PROVE  t \in active' /\ Above(x, prog'[t])
  <2>1. CASE t = s
    BY <1>1, <2>1 DEF Plain, Above
  <2>2. CASE t # s
    <3>1. owner[x] = t
      BY <1>4, <2>2
    <3>2. t \in active /\ Above(x, prog[t])
      BY <3>1 DEF OrderedLocks
    <3> QED
      BY <1>1, <2>2, <3>2
  <2> QED
    BY <2>1, <2>2
<1> QED
  BY <1>1, <1>2, <1>3, <1>4 DEF OrderedLocks

LEMMA BeginInOrder ==
  ASSUME OrderedLocks, NEW s \in Sessions, Begin(s)
  PROVE  OrderedLocks'
<1>1. PICK role \in Roles : \E p \in Programs(role) : prog' = [prog EXCEPT ![s] = p]
  BY DEF Begin
<1>2. PICK p \in Programs(role) : prog' = [prog EXCEPT ![s] = p]
  BY <1>1
<1>3. IsProgram(p)
  BY <1>2, ProgramsInOrder
<1>4. s \notin active /\ active' = active \cup {s} /\ owner' = owner
  BY DEF Begin
<1>5. DOMAIN prog' = Sessions /\ \A t \in Sessions : prog'[t] = IF t = s THEN p ELSE prog[t]
  BY <1>2 DEF OrderedLocks
<1>6. \A t \in Sessions : IsProgram(prog'[t])
  BY <1>3, <1>5 DEF OrderedLocks
<1>7. \A t \in Sessions : t \notin active' => prog'[t] = <<>>
  BY <1>4, <1>5 DEF OrderedLocks
<1>8. ASSUME NEW x \in Rows, NEW t \in Sessions, owner'[x] = t
      PROVE  t \in active' /\ Above(x, prog'[t])
  <2>1. t \in active /\ Above(x, prog[t])
    BY <1>4, <1>8 DEF OrderedLocks
  <2> QED
    BY <1>4, <1>5, <2>1
<1>9. owner' \in [Rows -> Sessions \cup {Nobody}]
  BY <1>4 DEF OrderedLocks
<1> QED
  BY <1>5, <1>6, <1>7, <1>8, <1>9 DEF OrderedLocks

LEMMA ClaimOrdersInOrder ==
  ASSUME OrderedLocks, NEW s \in Sessions, s \notin active, active' = active \cup {s},
         NEW os, os[1] \in Orders, Len(os) # 1 => os[2] \in Orders /\ Len(os) = 2,
         ClaimOrders(s, os)
  PROVE  OrderedLocks'
<1>1. PICK S \in Owned(os[1]), T \in Owned(os[Len(os)]) :
        prog' = [prog EXCEPT ![s] = IF Len(os) = 1 THEN ReleaseHold(os[1], S)
                                    ELSE ReleaseHold(os[1], S) \o ReleaseHold(os[2], T)]
  BY DEF ClaimOrders
<1> DEFINE p == IF Len(os) = 1 THEN ReleaseHold(os[1], S)
                ELSE ReleaseHold(os[1], S) \o ReleaseHold(os[2], T)
<1>2. Plain(ReleaseHold(os[1], S))
  BY OwnedSeats, ReleaseHoldIsPlain
<1>3. Len(os) # 1 => Plain(ReleaseHold(os[2], T))
  BY OwnedSeats, ReleaseHoldIsPlain
<1>4. Plain(p)
  BY <1>2, <1>3, PlainConcat
<1>5. owner' = [x \in Rows |-> IF \E i \in DOMAIN os : x = <<"order", os[i]>> THEN s ELSE owner[x]]
  BY DEF ClaimOrders
<1>6. owner' \in [Rows -> Sessions \cup {Nobody}] /\ \A x \in Rows : owner'[x] \in {owner[x], s}
  BY <1>5 DEF OrderedLocks
<1> HIDE DEF p
<1>7. DOMAIN prog' = Sessions /\ \A t \in Sessions : prog'[t] = IF t = s THEN p ELSE prog[t]
  BY <1>1 DEF p, OrderedLocks
<1> QED
  BY <1>4, <1>6, <1>7, BegunInOrder

LEMMA ClaimRowInOrder ==
  ASSUME OrderedLocks, NEW s \in Sessions, s \notin active, active' = active \cup {s},
         NEW x \in Rows, ClaimRow(s, x)
  PROVE  OrderedLocks'
<1>1. owner' = [owner EXCEPT ![x] = s] /\ prog' = prog
  BY DEF ClaimRow
<1>2. DOMAIN prog' = Sessions /\ \A t \in Sessions : prog'[t] = IF t = s THEN <<>> ELSE prog[t]
  BY <1>1 DEF OrderedLocks
<1>3. owner' \in [Rows -> Sessions \cup {Nobody}] /\ \A y \in Rows : owner'[y] \in {owner[y], s}
  BY <1>1 DEF OrderedLocks
<1>4. Plain(<<>>)
  BY DEF Plain
<1> QED
  BY <1>2, <1>3, <1>4, BegunInOrder

LEMMA BeginClaimInOrder ==
  ASSUME OrderedLocks, NEW s \in Sessions, BeginClaim(s)
  PROVE  OrderedLocks'
<1>1. s \notin active /\ active' = active \cup {s}
  BY DEF BeginClaim
<1>2. ASSUME NEW o \in Orders, ClaimOrders(s, <<o>>) PROVE OrderedLocks'
  <2>1. <<o>>[1] \in Orders /\ Len(<<o>>) = 1
    OBVIOUS
  <2> QED
    BY <1>1, <1>2, <2>1, ClaimOrdersInOrder
<1>3. ASSUME NEW o \in Orders, NEW q \in Orders, ClaimOrders(s, <<o, q>>) PROVE OrderedLocks'
  <2>1. <<o, q>>[1] \in Orders /\ <<o, q>>[2] \in Orders /\ Len(<<o, q>>) = 2
    OBVIOUS
  <2> QED
    BY <1>1, <1>3, <2>1, ClaimOrdersInOrder
<1>4. ASSUME NEW x \in Rows, ClaimRow(s, x) PROVE OrderedLocks'
  BY <1>1, <1>4, ClaimRowInOrder
<1> QED
  BY <1>2, <1>3, <1>4 DEF BeginClaim

LEMMA TakeInOrder ==
  ASSUME OrderedLocks, NEW s \in Sessions, Take(s)
  PROVE  OrderedLocks'
<1>1. PICK x : x = Head(prog[s]).row
  OBVIOUS
<1>2. /\ prog[s] # <<>> /\ owner' = [owner EXCEPT ![x] = s] /\ active' = active
      /\ prog' = [prog EXCEPT ![s] = Tail(prog[s])]
  BY <1>1 DEF Take
<1>3. /\ IsProgram(Tail(prog[s])) /\ x \in Rows /\ Above(x, Tail(prog[s]))
      /\ \A y : Above(y, prog[s]) => Above(y, Tail(prog[s]))
  BY <1>1, <1>2, TailInOrder DEF OrderedLocks
<1>4. DOMAIN prog' = Sessions /\ \A t \in Sessions : prog'[t] = IF t = s THEN Tail(prog[s]) ELSE prog[t]
  BY <1>2 DEF OrderedLocks
<1>5. owner' \in [Rows -> Sessions \cup {Nobody}] /\ \A y \in Rows : owner'[y] = IF y = x THEN s ELSE owner[y]
  BY <1>2, <1>3 DEF OrderedLocks
<1>6. s \in active
  BY <1>2 DEF OrderedLocks
<1>7. \A t \in Sessions : IsProgram(prog'[t])
  BY <1>3, <1>4 DEF OrderedLocks
<1>8. \A t \in Sessions : t \notin active' => prog'[t] = <<>>
  BY <1>2, <1>4, <1>6 DEF OrderedLocks
<1>9. ASSUME NEW y \in Rows, NEW t \in Sessions, owner'[y] = t
      PROVE  t \in active' /\ Above(y, prog'[t])
  <2>1. CASE y = x
    BY <1>2, <1>3, <1>4, <1>5, <1>6, <1>9, <2>1
  <2>2. CASE y # x
    <3>1. t \in active /\ Above(y, prog[t])
      BY <1>5, <1>9, <2>2 DEF OrderedLocks
    <3> QED
      BY <1>2, <1>3, <1>4, <3>1
  <2> QED
    BY <2>1, <2>2
<1> QED
  BY <1>4, <1>5, <1>7, <1>8, <1>9 DEF OrderedLocks

LEMMA ReplayInOrder ==
  ASSUME OrderedLocks, NEW s \in Sessions, Replayed(s)
  PROVE  OrderedLocks'
<1>1. CASE Ended(s)
  BY <1>1, EndedInOrder
<1>2. CASE prog' = [prog EXCEPT ![s] = Tail(prog[s])] /\ active' = active /\ owner' = owner
  <2>0. prog[s] # <<>>
    BY DEF Replayed
  <2>1. IsProgram(Tail(prog[s])) /\ \A y : Above(y, prog[s]) => Above(y, Tail(prog[s]))
    BY <2>0, TailInOrder DEF OrderedLocks
  <2>2. DOMAIN prog' = Sessions /\ \A t \in Sessions : prog'[t] = IF t = s THEN Tail(prog[s]) ELSE prog[t]
    BY <1>2 DEF OrderedLocks
  <2>3. \A t \in Sessions : IsProgram(prog'[t])
    BY <2>1, <2>2 DEF OrderedLocks
  <2>4. \A t \in Sessions : t \notin active' => prog'[t] = <<>>
    BY <1>2, <2>0, <2>2 DEF OrderedLocks
  <2>5. ASSUME NEW y \in Rows, NEW t \in Sessions, owner'[y] = t
        PROVE  t \in active' /\ Above(y, prog'[t])
    <3>1. t \in active /\ Above(y, prog[t])
      BY <1>2, <2>5 DEF OrderedLocks
    <3> QED
      BY <1>2, <2>1, <2>2, <3>1
  <2>6. owner' \in [Rows -> Sessions \cup {Nobody}]
    BY <1>2 DEF OrderedLocks
  <2> QED
    BY <2>2, <2>3, <2>4, <2>5, <2>6 DEF OrderedLocks
<1> QED
  BY <1>1, <1>2 DEF Replayed

LEMMA NextInOrder == OrderedLocks /\ [LockNext]_lockVars => OrderedLocks'
<1> SUFFICES ASSUME OrderedLocks, [LockNext]_lockVars PROVE OrderedLocks'
  OBVIOUS
<1>1. CASE UNCHANGED lockVars
  BY <1>1 DEF OrderedLocks, lockVars, IsProgram, InOrder, Above
<1>2. ASSUME NEW s \in Sessions, Begin(s) \/ BeginClaim(s) \/ Proceed(s) \/ LockTimeout(s) PROVE OrderedLocks'
  <2>1. Refused(s) \/ Finish(s) \/ LockTimeout(s) => Ended(s)
    BY DEF Refused, Finish, LockTimeout
  <2> QED
    BY <1>2, <2>1, BeginInOrder, BeginClaimInOrder, TakeInOrder, ReplayInOrder, EndedInOrder DEF Proceed
<1> QED
  BY <1>1, <1>2 DEF LockNext

-----------------------------------------------------------------------------
(***************************************************************************)
(* No cycle.                                                               *)
(***************************************************************************)
\* The rank of the row that a session waits for.
RankOf(s) == Rank(Head(prog[s]).row)

\* What holds up a session that itself waits in the lock order is of a lower
\* rank than what that one waits for.
LEMMA WaitsAscend ==
  ASSUME OrderedLocks, NEW s \in Sessions, NEW t \in Sessions, Blocker(t) = s,
         Blocker(s) \in Sessions, ~OfEvent(Head(prog[s]).row)
  PROVE  RankOf(t) < RankOf(s) /\ ~OfEvent(Head(prog[t]).row)
<1>1. /\ prog[t] # <<>> /\ owner[Head(prog[t]).row] = s
      /\ prog[s] # <<>> /\ Head(prog[s]).mode = "wait"
  BY SessionAssumption DEF Blocker
<1>2. Head(prog[t]).row \in Rows
  BY <1>1, TailInOrder DEF OrderedLocks
<1>3. Above(Head(prog[t]).row, prog[s])
  BY <1>1, <1>2 DEF OrderedLocks
<1>4. 1 \in DOMAIN prog[s] /\ prog[s][1] = Head(prog[s])
  BY <1>1 DEF OrderedLocks, IsProgram
<1>5. RankOf(t) < RankOf(s)
  BY <1>1, <1>3, <1>4 DEF Above, Waits, RankOf
<1>6. RankOf(s) \in 1..3
  BY DEF RankOf, Rank
<1>7. OfEvent(Head(prog[t]).row) => RankOf(t) = 4
  BY DEF RankOf, Rank, OfEvent
<1>8. ~OfEvent(Head(prog[t]).row)
  BY <1>5, <1>6, <1>7
<1> QED
  BY <1>5, <1>8

\* In a ring every session is waited for, by one that waits lower down: there
\* is no lowest.
LEMMA NoRing ==
  ASSUME OrderedLocks, NEW C \in SUBSET Sessions, Cycle(C), NEW s \in C, ~OfEvent(Head(prog[s]).row)
  PROVE  FALSE
<1> DEFINE Low(n) == {t \in C : ~OfEvent(Head(prog[t]).row) /\ RankOf(t) <= n}
<1>1. ASSUME NEW n \in 1..3, Low(n) # {} PROVE Low(n - 1) # {}
  <2>1. PICK t \in C : ~OfEvent(Head(prog[t]).row) /\ RankOf(t) <= n
    BY <1>1
  <2>2. PICK u \in C : Blocker(u) = t
    BY DEF Cycle
  <2>3. Blocker(t) \in Sessions
    BY DEF Cycle
  <2>4. RankOf(u) < RankOf(t) /\ ~OfEvent(Head(prog[u]).row)
    BY <2>1, <2>2, <2>3, WaitsAscend
  <2>5. RankOf(u) \in 1..4 /\ RankOf(t) \in 1..4
    BY DEF RankOf, Rank
  <2>6. u \in Low(n - 1)
    BY <2>1, <2>4, <2>5
  <2> QED
    BY <2>6
<1>2. s \in Low(3)
  BY DEF RankOf, Rank
<1>3. Low(0) = {}
  BY DEF RankOf, Rank
<1> HIDE DEF Low
<1>4. Low(2) # {}
  BY <1>1, <1>2
<1>5. Low(1) # {}
  BY <1>1, <1>4
<1> QED
  BY <1>1, <1>3, <1>5

\* The locks of every session stay in order: where a transaction of the ledger,
\* the consumer or the simulator may have to wait, what it has locked is of a
\* lower rank.
THEOREM LocksAreOrdered == LockSpec => []OrderedLocks
BY InitInOrder, NextInOrder, PTL DEF LockSpec

\* Sessions never wait in a cycle for keys, orders, payments, holds, seats or
\* refunds: the ledger cannot deadlock in PostgreSQL.
THEOREM NoDeadlock == LockSpec => []NoWaitCycle
<1>1. OrderedLocks => NoWaitCycle
  <2> SUFFICES ASSUME OrderedLocks, NEW C \in SUBSET Sessions, Cycle(C), NEW s \in C
               PROVE  Head(prog[s]).row[1] \in {"refresh", "schedule"}
    BY DEF NoWaitCycle
  <2> QED
    BY NoRing DEF OfEvent
<1> QED
  BY <1>1, LocksAreOrdered, PTL
=============================================================================
