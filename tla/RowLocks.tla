------------------------------- MODULE RowLocks -------------------------------
(***************************************************************************)
(* The row locks that the transactions of the API and of the workers take  *)
(* in PostgreSQL, in the order they take them and with what each does when *)
(* a row is locked: wait (bounded by lock_timeout), NOWAIT, SKIP LOCKED.   *)
(* An insert under a unique key is a lock on the key that waits for a      *)
(* concurrent inserter, and finds nothing to do if that one commits.       *)
(*                                                                         *)
(* What the transactions compute is the subject of Reservations, Outbox    *)
(* and SeatProjection; a transaction is its list of lock steps here.  No   *)
(* name is one of HoldRequests, so that both can be extended.              *)
(***************************************************************************)
EXTENDS Naturals, Sequences, FiniteSets, Functions

CONSTANTS
  Sessions,   \* database sessions
  Orders,     \* orders, each with its hold and its payment
  SeatNumbers,
  Items,      \* Items[o]: the seats of order o, in ascending order
  Keys,       \* idempotency keys and event ids of the inbox
  Events,     \* sale events
  Roles,      \* transactions that occur
  Nobody

ASSUME SessionAssumption == Nobody \notin Sessions

ASSUME SeatAssumption == IsFiniteSet(SeatNumbers) /\ Items \in [Orders -> Seq(SeatNumbers)]

VARIABLES
  prog,     \* lock steps a session's transaction has still to take
  active,   \* sessions in a transaction
  owner,    \* owner[x]: the session that has row x locked, or Nobody
  used      \* unique keys that are committed

lockVars == <<prog, active, owner, used>>

Rows == {<<t, o>> : t \in {"order", "payment", "hold", "refund"}, o \in Orders}
        \cup {<<"seat", s>> : s \in SeatNumbers} \cup {<<"key", k>> : k \in Keys}
        \cup {<<t, e>> : t \in {"refresh", "schedule"}, e \in Events}

LockInit ==
  /\ prog = [s \in Sessions |-> <<>>]
  /\ active = {}
  /\ owner = [x \in Rows |-> Nobody]
  /\ used = {}

Wait(t, x) == [mode |-> "wait", row |-> <<t, x>>]
Nowait(t, x) == [mode |-> "nowait", row |-> <<t, x>>]

-----------------------------------------------------------------------------
(***************************************************************************)
(* The transactions.                                                       *)
(***************************************************************************)

\* Mutant of SeatRows: FOR UPDATE without NOWAIT.
SeatRowsWaiting(S) == [i \in DOMAIN S |-> Wait("seat", S[i])]

\* ... ORDER BY seat_id FOR UPDATE NOWAIT
SeatRows(S) == [i \in DOMAIN S |-> Nowait("seat", S[i])]

\* Some of the seats T, ORDER BY seat_id.
Ascending(T) ==
  {S \in UNION {[1..n -> T] : n \in 0..Cardinality(SeatNumbers)} :
     \A i, j \in DOMAIN S : i < j => S[i] < S[j]}

\* The seats an order's hold still owns: others may have taken the rest.
Owned(o) == Ascending(Range(Items[o]))

\* reserve and persist_reservation_command.
Reserve(k, S) == <<Wait("key", k)>> \o SeatRows(S)

\* checkout and initiate_payment.
OnOrder(k, o) == <<Wait("key", k), Nowait("order", o)>>

\* _release
ReleaseHold(o, S) == <<Nowait("hold", o)>> \o SeatRows(S)

Release(o, S) == <<Nowait("order", o)>> \o ReleaseHold(o, S)

\* callback: a duplicate stops after the payment; a refund or a failure
\* releases the hold after the order's seats were locked.  The insert into
\* payment_callbacks in between is left out: it can wait only for a callback with
\* the same id, and that one takes its later locks with NOWAIT.
CallbackDuplicate(o) == <<Nowait("order", o), Nowait("payment", o)>>

Callback(o, S) == CallbackDuplicate(o) \o <<Nowait("hold", o)>> \o SeatRows(Items[o]) \o ReleaseHold(o, S)

\* consume_event
SeatsChanged(k, e) == <<Wait("key", k), Wait("refresh", e)>>
OrderPaid(k, o) == <<Wait("key", k), Wait("order", o)>>
RefundRequested(k, o) == <<Wait("key", k), Wait("order", o), Wait("refund", o)>>

\* simulate_one counts a delivery.
CountDelivery(o) == <<Wait("payment", o)>>

\* refresh_batch acknowledges the rows it refreshed, one by one.
AcknowledgeRefresh(es) == [i \in DOMAIN es |-> Wait("refresh", es[i])]

\* maintain_schedule inserts the missing rows ORDER BY sale_starts, which
\* leaves events that go on sale together in either order.
SeedSchedule(es) == [i \in DOMAIN es |-> Wait("schedule", es[i])]

Sequences2 == UNION {{es \in [1 .. n -> Events] : IsInjective(es)} : n \in 1 .. 2}

Programs(role) ==
  CASE role = "reserve" -> {Reserve(k, S) : k \in Keys, S \in Ascending(SeatNumbers) \ {<<>>}}
    [] role = "order" -> {OnOrder(k, o) : k \in Keys, o \in Orders}
    [] role = "release" -> UNION {{Release(o, S) : S \in Owned(o)} : o \in Orders}
    [] role = "callback" -> {CallbackDuplicate(o) : o \in Orders}
                            \cup UNION {{Callback(o, S) : S \in Owned(o)} : o \in Orders}
    [] role = "consume" -> {SeatsChanged(k, e) : k \in Keys, e \in Events}
                           \cup {OrderPaid(k, o) : k \in Keys, o \in Orders}
                           \cup {RefundRequested(k, o) : k \in Keys, o \in Orders}
    [] role = "simulate" -> {CountDelivery(o) : o \in Orders}
    [] role = "refresh" -> {AcknowledgeRefresh(es) : es \in Sequences2}
    [] role = "seed" -> {SeedSchedule(es) : es \in Sequences2}
    [] OTHER -> {}

-----------------------------------------------------------------------------
(***************************************************************************)
(* A session.                                                              *)
(***************************************************************************)
Free(x) == owner[x] = Nobody

Begin(s) ==
  /\ s \notin active
  /\ active' = active \cup {s}
  /\ \E role \in Roles : \E p \in Programs(role) : prog' = [prog EXCEPT ![s] = p]
  /\ UNCHANGED <<owner, used>>

\* expire_batch locks orders that nobody has, SKIP LOCKED, and goes on to
\* release each of them.
ClaimOrders(s, os) ==
  /\ "expire" \in Roles
  /\ IsInjective(os) /\ \A i \in DOMAIN os : Free(<<"order", os[i]>>)
  /\ owner' = [x \in Rows |-> IF \E i \in DOMAIN os : x = <<"order", os[i]>> THEN s ELSE owner[x]]
  /\ \E S \in Owned(os[1]), T \in Owned(os[Len(os)]) :
       prog' = [prog EXCEPT ![s] = IF Len(os) = 1 THEN ReleaseHold(os[1], S)
                                   ELSE ReleaseHold(os[1], S) \o ReleaseHold(os[2], T)]

\* The other claims lock rows, SKIP LOCKED, and nothing else: they never wait,
\* and one row stands for those of a batch.
ClaimRow(s, x) ==
  /\ \/ x[1] = "payment" /\ "simulate" \in Roles
     \/ x[1] = "refresh" /\ "refresh" \in Roles
     \/ x \in used /\ x[1] = "schedule" /\ "seed" \in Roles
  /\ Free(x)
  /\ owner' = [owner EXCEPT ![x] = s]
  /\ UNCHANGED prog

BeginClaim(s) ==
  /\ s \notin active
  /\ active' = active \cup {s}
  /\ \/ \E o \in Orders : ClaimOrders(s, <<o>>)
     \/ \E o, q \in Orders : ClaimOrders(s, <<o, q>>)
     \/ \E x \in Rows : ClaimRow(s, x)
  /\ UNCHANGED used

Ended(s) ==
  /\ active' = active \ {s}
  /\ prog' = [prog EXCEPT ![s] = <<>>]
  /\ owner' = [x \in Rows |-> IF owner[x] = s THEN Nobody ELSE owner[x]]

\* The next row is free, or the session has it already.
Take(s) ==
  /\ prog[s] # <<>>
  /\ LET x == Head(prog[s]).row IN
     /\ owner[x] \in {Nobody, s} /\ x \notin used
     /\ owner' = [owner EXCEPT ![x] = s]
  /\ prog' = [prog EXCEPT ![s] = Tail(@)]
  /\ UNCHANGED <<active, used>>

\* ON CONFLICT DO NOTHING: under a committed idempotency key or event id the
\* transaction has nothing left to do; a seeded row is passed over.
Replayed(s) ==
  /\ prog[s] # <<>> /\ Head(prog[s]).row \in used
  /\ \/ Head(prog[s]).row[1] = "key" /\ Ended(s)
     \/ /\ Head(prog[s]).row[1] = "schedule"
        /\ prog' = [prog EXCEPT ![s] = Tail(@)] /\ UNCHANGED <<active, owner>>
  /\ UNCHANGED used

\* NOWAIT raises LockNotAvailable, and the transaction is rolled back.
Refused(s) ==
  /\ prog[s] # <<>>
  /\ Head(prog[s]).mode = "nowait" /\ owner[Head(prog[s]).row] \notin {Nobody, s}
  /\ Ended(s) /\ UNCHANGED used

\* COMMIT, or ROLLBACK when the body raised.
Finish(s) ==
  /\ s \in active /\ prog[s] = <<>>
  /\ Ended(s)
  /\ used' \in {used, used \cup {x \in Rows : x[1] \in {"key", "schedule"} /\ owner[x] = s}}

Blocker(s) ==
  IF prog[s] # <<>> /\ Head(prog[s]).mode = "wait" /\ owner[Head(prog[s]).row] # s
     /\ Head(prog[s]).row \notin used
  THEN owner[Head(prog[s]).row] ELSE Nobody

\* lock_timeout ends a wait, whatever the row.
LockTimeout(s) ==
  /\ Blocker(s) # Nobody
  /\ Ended(s) /\ UNCHANGED used

Proceed(s) == Take(s) \/ Replayed(s) \/ Refused(s) \/ Finish(s)

LockNext == \E s \in Sessions : Begin(s) \/ BeginClaim(s) \/ Proceed(s) \/ LockTimeout(s)

LockSpec == LockInit /\ [][LockNext]_lockVars

-----------------------------------------------------------------------------
(***************************************************************************)
(* Properties.                                                             *)
(***************************************************************************)

\* Sessions that wait for each other in a ring.
Cycle(C) == C # {} /\ \A s \in C : Blocker(s) \in C /\ \E t \in C : Blocker(t) = s

\* The lock order of PostgresReservations, of consume_event and simulate_one,
\* with its NOWAIT clauses, leaves PostgreSQL no deadlock to break: sessions
\* can only wait in a cycle for rows of the refresh and the schedule table,
\* which their workers lock in no fixed order.
NoWaitCycle ==
  \A C \in SUBSET Sessions : Cycle(C) => \A s \in C : Head(prog[s]).row[1] \in {"refresh", "schedule"}
=============================================================================
