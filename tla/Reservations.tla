---------------------------- MODULE Reservations ----------------------------
(***************************************************************************)
(* The PostgreSQL ownership ledger of one event                            *)
(* (infrastructure/reservations.py), with the consumer's effects on orders *)
(* (workers.consume_event).                                                *)
(*                                                                         *)
(* One action is one committed transaction.  A transaction that raises     *)
(* (Failure, a NOWAIT conflict, a lost connection) is rolled back and      *)
(* changes nothing, so only commits appear.  Every transaction reads       *)
(* clock_timestamp() after its row locks and commits later: the parameter  *)
(* t of an action is the time it read, at most MaxLag behind the clock at  *)
(* which its writes become visible.                                        *)
(*                                                                         *)
(* A hold and its order are inserted together and orders.hold_id is        *)
(* UNIQUE, so one identifier stands for both; payment_attempts.order_id is *)
(* UNIQUE, so the same identifier names the payment.                       *)
(***************************************************************************)
EXTENDS Naturals, FiniteSets

CONSTANTS
  Actors,        \* authenticated principals
  Seats,         \* event_seats rows of the event
  Orders,        \* identifiers uuid4() can produce
  Commands,      \* those fixed by Redis-first intake before PostgreSQL sees them
  HoldKeys,      \* idempotency keys of operation "hold"
  OrderKeys,     \* idempotency keys of operation "order"
  PaymentKeys,   \* idempotency keys of operation "payment"
  CallbackIds,   \* callback_id values a provider can send
  None,          \* SQL NULL, or no row
  HoldSeconds,   \* settings.hold_seconds
  SaleStarts,    \* events.sale_starts
  SaleEnds,      \* events.sale_ends
  ExpiryWorkers, \* processes running the expiry loop
  ExpiryLimit,   \* limit of one expire_batch
  MaxLag,        \* bound: longest time from a clock read to its commit
  MaxClock       \* bound: last instant of the model

ASSUME NoneAssumption == None \notin Orders /\ None \notin Actors

ASSUME CommandAssumption == Commands \subseteq Orders

ASSUME TimeAssumption ==
  /\ HoldSeconds \in Nat \ {0}
  /\ SaleStarts \in Nat /\ SaleEnds \in Nat /\ SaleStarts < SaleEnds
  /\ MaxLag \in Nat /\ MaxClock \in Nat

ASSUME LimitAssumption == ExpiryLimit \in 1..100

ASSUME ReplyAssumption == None \notin [seats : SUBSET Seats, order : Orders]

VARIABLES
  clock,             \* clock_timestamp()
  hold_id,           \* event_seats.hold_id
  reserved_until,    \* event_seats.reserved_until, 0 for NULL
  booked_order_id,   \* event_seats.booked_order_id
  version,           \* event_seats.version
  announced,         \* version of the seat named by the last SeatsChanged row
  hold_status,       \* holds.status
  expires_at,        \* holds.expires_at
  actor,             \* orders.actor
  order_status,      \* orders.status
  order_items,       \* seats of the order's order_items rows
  reservation_commands, \* commands persisted as DURABLE
  scanned,           \* orders in the snapshot of each expiry worker
  payment_status,    \* payment_attempts.status
  payment_callbacks, \* ids of payment_callbacks rows
  bookings,          \* bookings rows, as <<seat, order>>
  tickets,           \* tickets rows, as the booking they belong to
  refund_requests,   \* refund_requests.status
  outbox_events,     \* number of outbox rows per event type and order
  consumer_inbox,    \* number of them that a consumer has applied
  idem_hold,         \* idempotency_records of operation "hold"
  idem_order,        \* ... of operation "order"
  idem_payment       \* ... of operation "payment"

seatVars == <<hold_id, reserved_until, booked_order_id, version>>
factVars == <<expires_at, actor, order_items, reservation_commands>>
moneyVars == <<payment_status, payment_callbacks, refund_requests>>
saleVars == <<bookings, tickets>>
streamVars == <<outbox_events, consumer_inbox>>
idemVars == <<idem_hold, idem_order, idem_payment>>
vars == <<clock, seatVars, announced, hold_status, order_status, factVars,
          scanned, moneyVars, saleVars, streamVars, idemVars>>

Absent == "ABSENT"  \* the status of a row that was never inserted
HoldStates == {"ACTIVE", "RELEASED", "EXPIRED", "CONSUMED"}
OrderStates == {"PENDING", "PAID", "FULFILLED", "FAILED", "EXPIRED",
                "REFUND_PENDING", "REFUNDED"}
Outcomes == {"SUCCEEDED", "FAILED"}
EventTypes == {"OrderPaid", "RefundRequested", "TicketsIssued"}
MaxSeatsPerHold == 8

HoldReplies == [seats : SUBSET Seats, order : Orders]
OrderReplies == [order : Orders, status : OrderStates]

TypeOK ==
  /\ clock \in Nat
  /\ hold_id \in [Seats -> Orders \cup {None}]
  /\ reserved_until \in [Seats -> Nat]
  /\ booked_order_id \in [Seats -> Orders \cup {None}]
  /\ version \in [Seats -> Nat]
  /\ announced \in [Seats -> Nat]
  /\ hold_status \in [Orders -> HoldStates \cup {Absent}]
  /\ expires_at \in [Orders -> Nat]
  /\ actor \in [Orders -> Actors \cup {None}]
  /\ order_status \in [Orders -> OrderStates \cup {Absent}]
  /\ order_items \in [Orders -> SUBSET Seats]
  /\ reservation_commands \in SUBSET Commands
  /\ scanned \in [ExpiryWorkers -> SUBSET Orders]
  /\ payment_status \in [Orders -> Outcomes \cup {"PENDING", Absent}]
  /\ payment_callbacks \in SUBSET CallbackIds
  /\ bookings \in SUBSET (Seats \X Orders)
  /\ tickets \in SUBSET (Seats \X Orders)
  /\ refund_requests \in [Orders -> {"PENDING", "REFUNDED", Absent}]
  /\ outbox_events \in [EventTypes -> [Orders -> Nat]]
  /\ consumer_inbox \in [EventTypes -> [Orders -> Nat]]
  /\ idem_hold \in [Actors -> [HoldKeys -> HoldReplies \cup {None}]]
  /\ idem_order \in [Actors -> [OrderKeys -> OrderReplies \cup {None}]]
  /\ idem_payment \in [Actors -> [PaymentKeys -> Orders \cup {None}]]

Init ==
  /\ clock = 0
  /\ hold_id = [s \in Seats |-> None]
  /\ reserved_until = [s \in Seats |-> 0]
  /\ booked_order_id = [s \in Seats |-> None]
  /\ version = [s \in Seats |-> 0]
  /\ announced = [s \in Seats |-> 0]
  /\ hold_status = [o \in Orders |-> Absent]
  /\ expires_at = [o \in Orders |-> 0]
  /\ actor = [o \in Orders |-> None]
  /\ order_status = [o \in Orders |-> Absent]
  /\ order_items = [o \in Orders |-> {}]
  /\ reservation_commands = {}
  /\ scanned = [w \in ExpiryWorkers |-> {}]
  /\ payment_status = [o \in Orders |-> Absent]
  /\ payment_callbacks = {}
  /\ bookings = {}
  /\ tickets = {}
  /\ refund_requests = [o \in Orders |-> Absent]
  /\ outbox_events = [e \in EventTypes |-> [o \in Orders |-> 0]]
  /\ consumer_inbox = [e \in EventTypes |-> [o \in Orders |-> 0]]
  /\ idem_hold = [a \in Actors |-> [k \in HoldKeys |-> None]]
  /\ idem_order = [a \in Actors |-> [k \in OrderKeys |-> None]]
  /\ idem_payment = [a \in Actors |-> [k \in PaymentKeys |-> None]]

-----------------------------------------------------------------------------
(* Helpers of the transactions.                                            *)

\* The instants a transaction that commits now can have read.
ReadTimes == {t \in 0..clock : clock - t <= MaxLag}

Tick ==
  /\ clock < MaxClock
  /\ clock' = clock + 1
  /\ UNCHANGED <<seatVars, announced, hold_status, order_status, factVars,
                 scanned, moneyVars, saleVars, streamVars, idemVars>>

\* event(conn, order, kind, ...): one more outbox row in the transaction.
event(kind, o) ==
  outbox_events' = [outbox_events EXCEPT ![kind][o] = @ + 1]

\* Mutant: the row is built from the versions read before the updates.
SeatsChangedBefore(S) ==
  announced' = [s \in Seats |-> IF s \in S THEN version[s] ELSE announced[s]]

\* A SeatsChanged row naming the seats S, written after the seat updates.
SeatsChanged(S) ==
  announced' = [s \in Seats |-> IF s \in S THEN version'[s] ELSE announced[s]]

\* Mutant: the record is not looked up.
UnusedAlways(record) == TRUE

\* idem: the key has no record.  A known key replays its response, or is a
\* mismatch, and the transaction writes nothing.
Unused(record) == record = None

\* The seat lists that pass validation: distinct, not empty, at most eight.
SeatRequests == {S \in SUBSET Seats : S # {} /\ Cardinality(S) <= MaxSeatsPerHold}

\* A row another hold still owns at t, or that is sold.
Unavailable(s, t) ==
  booked_order_id[s] # None \/ reserved_until[s] > t

\* The inserts and the seat update that reserve and
\* persist_reservation_command share.
InsertHold(a, o, S, expires) ==
  /\ order_status[o] = Absent
  /\ hold_status' = [hold_status EXCEPT ![o] = "ACTIVE"]
  /\ expires_at' = [expires_at EXCEPT ![o] = expires]
  /\ actor' = [actor EXCEPT ![o] = a]
  /\ order_status' = [order_status EXCEPT ![o] = "PENDING"]
  /\ order_items' = [order_items EXCEPT ![o] = S]
  /\ hold_id' = [s \in Seats |-> IF s \in S THEN o ELSE hold_id[s]]
  /\ reserved_until' =
       [s \in Seats |-> IF s \in S THEN expires ELSE reserved_until[s]]
  /\ version' = [s \in Seats |-> IF s \in S THEN version[s] + 1 ELSE version[s]]
  /\ SeatsChanged(S)
  /\ UNCHANGED <<clock, booked_order_id, scanned, moneyVars, saleVars, streamVars>>

\* Mutant: only seats past their deadline are cleared.
ReleasedIfLapsed(B) ==
  {s \in Seats : hold_id[s] \in B /\ booked_order_id[s] = None
                   /\ reserved_until[s] <= clock}

\* The seats whose ownership _release clears for the orders of B.
Released(B) ==
  {s \in Seats : hold_id[s] \in B /\ booked_order_id[s] = None}

\* The seat rows after _release of the orders of B.
ReleaseSeats(B) ==
  /\ hold_id' = [s \in Seats |-> IF s \in Released(B) THEN None ELSE hold_id[s]]
  /\ reserved_until' =
       [s \in Seats |-> IF s \in Released(B) THEN 0 ELSE reserved_until[s]]
  /\ version' =
       [s \in Seats |-> IF s \in Released(B) THEN version[s] + 1 ELSE version[s]]
  /\ UNCHANGED booked_order_id

\* holds.status after _release: WHERE ... AND status='ACTIVE'.
ReleaseHolds(B, state) ==
  hold_status' = [o \in Orders |->
    IF o \in B /\ hold_status[o] = "ACTIVE" THEN state ELSE hold_status[o]]

\* orders.status after _release: WHERE ... AND status='PENDING'.
ReleaseOrders(B) ==
  order_status' = [o \in Orders |->
    IF o \in B /\ order_status[o] = "PENDING" THEN "EXPIRED" ELSE order_status[o]]

-----------------------------------------------------------------------------
(* Holds.                                                                  *)

reserve(a, S, k, o, t) ==
  /\ Unused(idem_hold[a][k])
  /\ SaleStarts <= t /\ t < SaleEnds
  /\ \A s \in S : ~Unavailable(s, t)
  /\ InsertHold(a, o, S, t + HoldSeconds)
  /\ idem_hold' = [idem_hold EXCEPT ![a][k] = [seats |-> S, order |-> o]]
  /\ UNCHANGED <<reservation_commands, idem_order, idem_payment>>

\* persist_reservation_command: the writer inserts the hold that Redis-first
\* intake accepted, with the identifiers and the deadline fixed there.
persist_reservation_command(a, S, k, o, expires, t) ==
  /\ o \notin reservation_commands
  /\ Unused(idem_hold[a][k])
  /\ SaleStarts <= t /\ t < SaleEnds
  /\ expires > t
  /\ \A s \in S : ~Unavailable(s, t) \/ (booked_order_id[s] = None /\ hold_id[s] = o)
  /\ InsertHold(a, o, S, expires)
  /\ idem_hold' = [idem_hold EXCEPT ![a][k] = [seats |-> S, order |-> o]]
  /\ reservation_commands' = reservation_commands \cup {o}
  /\ UNCHANGED <<idem_order, idem_payment>>

\* checkout: records the response under the key and changes nothing else.
checkout(a, o, k, t) ==
  /\ Unused(idem_order[a][k])
  /\ order_status[o] # Absent /\ actor[o] = a
  /\ ~(order_status[o] = "PENDING" /\ expires_at[o] <= t)
  /\ idem_order' =
       [idem_order EXCEPT ![a][k] = [order |-> o, status |-> order_status[o]]]
  /\ UNCHANGED <<clock, seatVars, announced, hold_status, order_status,
                 factVars, scanned, moneyVars, saleVars, streamVars,
                 idem_hold, idem_payment>>

\* release by the owner; PAID and FULFILLED orders raise ALREADY_BOOKED.
release(a, o) ==
  /\ order_status[o] # Absent /\ actor[o] = a
  /\ order_status[o] \notin {"PAID", "FULFILLED"}
  /\ ReleaseSeats({o})
  /\ ReleaseHolds({o}, "RELEASED")
  /\ ReleaseOrders({o})
  /\ SeatsChanged(Released({o}))
  /\ UNCHANGED <<clock, factVars, scanned, moneyVars, saleVars, streamVars, idemVars>>

\* Mutant: cleanup waits for a payment that may never be reported.
OverdueUnlessPaying ==
  {o \in Orders : /\ hold_status[o] = "ACTIVE" /\ expires_at[o] <= clock
                  /\ payment_status[o] # "PENDING"}

\* Rows that join and match in the scan of expire_batch.
Overdue == {o \in Orders : hold_status[o] = "ACTIVE" /\ expires_at[o] <= clock}

\* The scan of expire_batch.  FOR UPDATE OF o locks and re-reads the orders,
\* but the joined holds rows stay those of the statement's snapshot.  A scan
\* that replaces another one follows a rollback.
expire_scan(w) ==
  /\ Overdue # {}
  /\ scanned' = [scanned EXCEPT ![w] = Overdue]
  /\ UNCHANGED <<clock, seatVars, announced, hold_status, order_status,
                 factVars, moneyVars, saleVars, streamVars, idemVars>>

\* The rest of expire_batch: SKIP LOCKED may pass over any order of the scan,
\* so the batch is any set of at most ExpiryLimit of them.
expire_batch(w, B) ==
  /\ B # {} /\ B \subseteq scanned[w] /\ Cardinality(B) <= ExpiryLimit
  /\ scanned' = [scanned EXCEPT ![w] = {}]
  /\ ReleaseSeats(B)
  /\ ReleaseHolds(B, "EXPIRED")
  /\ ReleaseOrders(B)
  /\ SeatsChanged(Released(B))
  /\ UNCHANGED <<clock, factVars, moneyVars, saleVars, streamVars, idemVars>>

-----------------------------------------------------------------------------
(* Payments.                                                               *)

\* initiate_payment: an order has one attempt, which a second key returns.
initiate_payment(a, o, k, t) ==
  /\ Unused(idem_payment[a][k])
  /\ order_status[o] # Absent /\ actor[o] = a
  /\ \/ /\ payment_status[o] # Absent
        /\ UNCHANGED payment_status
     \/ /\ payment_status[o] = Absent
        /\ order_status[o] = "PENDING" /\ expires_at[o] > t
        /\ payment_status' = [payment_status EXCEPT ![o] = "PENDING"]
  /\ idem_payment' = [idem_payment EXCEPT ![a][k] = o]
  /\ UNCHANGED <<clock, seatVars, announced, hold_status, order_status,
                 factVars, scanned, payment_callbacks, refund_requests,
                 saleVars, streamVars, idem_hold, idem_order>>

\* Mutant: a success after the checkout ended is ignored.
payment_decision_discarding(status, valid, outcome) ==
  IF status # "PENDING" THEN "UNCHANGED"
  ELSE IF outcome = "FAILED" THEN "FAILED" ELSE IF valid THEN "BOOK" ELSE "REFUND"

payment_decision(status, valid, outcome) ==
  IF status \in {"PAID", "FULFILLED"} THEN "UNCHANGED"
  ELSE IF outcome = "FAILED"
       THEN IF status = "PENDING" THEN "FAILED" ELSE "UNCHANGED"
       ELSE IF status = "PENDING" /\ valid THEN "BOOK" ELSE "REFUND"

\* Mutant: holds.status alone is trusted.
ValidHoldByStatus(o, t) == order_items[o] # {} /\ hold_status[o] = "ACTIVE"

\* The hold can still be turned into bookings at t.
ValidHold(o, t) ==
  /\ order_items[o] # {}
  /\ hold_status[o] = "ACTIVE" /\ expires_at[o] > t
  /\ \A s \in order_items[o] :
       hold_id[s] = o /\ booked_order_id[s] = None /\ reserved_until[s] > t

\* Decision BOOK.  A seat that already has a bookings row makes the insert
\* violate UNIQUE(event_id, seat_id), which rolls the callback back.
Book(o) ==
  /\ \A s \in order_items[o], p \in Orders : <<s, p>> \notin bookings
  /\ bookings' = bookings \cup (order_items[o] \X {o})
  /\ booked_order_id' =
       [s \in Seats |-> IF hold_id[s] = o THEN o ELSE booked_order_id[s]]
  /\ hold_id' = [s \in Seats |-> IF hold_id[s] = o THEN None ELSE hold_id[s]]
  /\ reserved_until' =
       [s \in Seats |-> IF hold_id[s] = o THEN 0 ELSE reserved_until[s]]
  /\ version' =
       [s \in Seats |-> IF hold_id[s] = o THEN version[s] + 1 ELSE version[s]]
  /\ hold_status' = [hold_status EXCEPT ![o] = "CONSUMED"]
  /\ order_status' = [order_status EXCEPT ![o] = "PAID"]
  /\ event("OrderPaid", o)
  /\ UNCHANGED refund_requests

\* Mutant: the refund is recorded but not published.
RefundUnpublished(o) ==
  /\ ReleaseSeats({o})
  /\ ReleaseHolds({o}, "EXPIRED")
  /\ order_status' = [order_status EXCEPT ![o] = "REFUND_PENDING"]
  /\ refund_requests' =
       [refund_requests EXCEPT ![o] = IF @ = Absent THEN "PENDING" ELSE @]
  /\ UNCHANGED <<bookings, outbox_events>>

\* Decision REFUND: the captured money goes back, the hold is given up.
Refund(o) ==
  /\ ReleaseSeats({o})
  /\ ReleaseHolds({o}, "EXPIRED")
  /\ order_status' = [order_status EXCEPT ![o] = "REFUND_PENDING"]
  /\ refund_requests' =
       [refund_requests EXCEPT ![o] = IF @ = Absent THEN "PENDING" ELSE @]
  /\ event("RefundRequested", o)
  /\ UNCHANGED bookings

\* Decision FAILED.
Fail(o) ==
  /\ ReleaseSeats({o})
  /\ ReleaseHolds({o}, "RELEASED")
  /\ order_status' = [order_status EXCEPT ![o] = "FAILED"]
  /\ UNCHANGED <<refund_requests, bookings, outbox_events>>

\* Decision UNCHANGED.
KeepOrder ==
  UNCHANGED <<seatVars, hold_status, order_status, refund_requests, bookings,
              outbox_events>>

\* What callback does with the order once the outcome is recorded.
Settle(o, t, outcome) ==
  LET decision == payment_decision(order_status[o], ValidHold(o, t), outcome) IN
  \/ decision = "BOOK" /\ Book(o)
  \/ decision = "REFUND" /\ Refund(o)
  \/ decision = "FAILED" /\ Fail(o)
  \/ decision = "UNCHANGED" /\ KeepOrder

\* The payment row says the money was taken; a later callback is a duplicate.
Captured(o) == payment_status[o] = "SUCCEEDED"

\* callback: a known callback id is a duplicate (or a mismatch) and writes
\* nothing; a captured payment only records the id.  The seats that _release
\* names in its own SeatsChanged row are among those of the last one.
callback(c, o, outcome, t) ==
  /\ payment_status[o] # Absent
  /\ c \notin payment_callbacks
  /\ payment_callbacks' = payment_callbacks \cup {c}
  /\ \/ /\ Captured(o)
        /\ KeepOrder
        /\ UNCHANGED <<announced, payment_status>>
     \/ /\ ~Captured(o)
        /\ payment_status' = [payment_status EXCEPT ![o] = outcome]
        /\ Settle(o, t, outcome)
        /\ SeatsChanged(order_items[o])
  /\ UNCHANGED <<clock, factVars, scanned, tickets, consumer_inbox, idemVars>>

-----------------------------------------------------------------------------
(* Consumers (workers.consume_event).  Delivery is at least once and in any *)
(* order; the inbox row committed with the effect makes repeats no-ops.     *)

\* One undelivered row of the kind is applied.
Receive(kind, o) ==
  /\ consumer_inbox[kind][o] < outbox_events[kind][o]
  /\ consumer_inbox' = [consumer_inbox EXCEPT ![kind][o] = @ + 1]

\* The bookings rows of the order.
BookingsOf(o) == {b \in bookings : b[2] = o}

\* OrderPaid: one ticket per booking.  An order that is not PAID raises.
consume_OrderPaid(o) ==
  /\ Receive("OrderPaid", o)
  /\ order_status[o] \in {"PAID", "FULFILLED"}
  /\ tickets' = tickets \cup BookingsOf(o)
  /\ order_status' = [order_status EXCEPT ![o] = "FULFILLED"]
  /\ event("TicketsIssued", o)
  /\ UNCHANGED <<clock, seatVars, announced, hold_status, factVars, scanned,
                 moneyVars, bookings, idemVars>>

\* RefundRequested: the simulated provider refund.
consume_RefundRequested(o) ==
  /\ Receive("RefundRequested", o)
  /\ refund_requests' =
       [refund_requests EXCEPT ![o] = IF @ = Absent THEN Absent ELSE "REFUNDED"]
  /\ order_status' = [order_status EXCEPT ![o] =
       IF @ = "REFUND_PENDING" THEN "REFUNDED" ELSE @]
  /\ UNCHANGED <<clock, seatVars, announced, hold_status, factVars, scanned,
                 payment_status, payment_callbacks, saleVars, outbox_events,
                 idemVars>>

\* TicketsIssued is only logged.
consume_TicketsIssued(o) ==
  /\ Receive("TicketsIssued", o)
  /\ UNCHANGED <<clock, seatVars, announced, hold_status, order_status,
                 factVars, scanned, moneyVars, saleVars, outbox_events,
                 idemVars>>

consume_event(o) ==
  consume_OrderPaid(o) \/ consume_RefundRequested(o) \/ consume_TicketsIssued(o)

-----------------------------------------------------------------------------
Next ==
  \/ Tick
  \/ \E a \in Actors, S \in SeatRequests, k \in HoldKeys, t \in ReadTimes :
       \E o \in Orders \ Commands : reserve(a, S, k, o, t)
  \/ \E a \in Actors, S \in SeatRequests, k \in HoldKeys, t \in ReadTimes :
       \E o \in Commands, expires \in 1..(t + HoldSeconds) :
         persist_reservation_command(a, S, k, o, expires, t)
  \/ \E a \in Actors, o \in Orders, k \in OrderKeys, t \in ReadTimes :
       checkout(a, o, k, t)
  \/ \E a \in Actors, o \in Orders : release(a, o)
  \/ \E w \in ExpiryWorkers : expire_scan(w)
  \/ \E w \in ExpiryWorkers, B \in SUBSET Orders : expire_batch(w, B)
  \/ \E a \in Actors, o \in Orders, k \in PaymentKeys, t \in ReadTimes :
       initiate_payment(a, o, k, t)
  \/ \E c \in CallbackIds, o \in Orders, outcome \in Outcomes, t \in ReadTimes :
       callback(c, o, outcome, t)
  \/ \E o \in Orders : consume_event(o)

Spec == Init /\ [][Next]_vars

-----------------------------------------------------------------------------
(* Properties.                                                             *)

SoldTo(o) == {s \in Seats : booked_order_id[s] = o}
Paid(o) == order_status[o] \in {"PAID", "FULFILLED"}

\* A sale is all or nothing: exactly the paid orders own sold seats, and a
\* paid order owns every seat it was priced for (callback, decision BOOK).
SoldAllOrNothing ==
  \A o \in Orders : SoldTo(o) = IF Paid(o) THEN order_items[o] ELSE {}

\* The bookings table and event_seats.booked_order_id never disagree, so no
\* seat has two bookings and UNIQUE(event_id, seat_id) never rejects a
\* callback that decided to BOOK.
BookingsMatchSeats ==
  bookings = {b \in Seats \X Orders : booked_order_id[b[1]] = b[2]}

\* Until its deadline an active hold owns every seat of its order: nobody
\* else can reserve, expire or buy one of them (reserve, expire_batch).
LiveHoldOwnsItsSeats ==
  \A o \in Orders : hold_status[o] = "ACTIVE" /\ expires_at[o] > clock =>
    \A s \in order_items[o] : hold_id[s] = o /\ reserved_until[s] = expires_at[o]

\* A seat is only ever held for a hold that cleanup can still find: active,
\* of a pending order, with the deadline the seat shows (_release).
HeldSeatsAreRecoverable ==
  \A s \in Seats : hold_id[s] # None =>
    LET o == hold_id[s] IN
    /\ hold_status[o] = "ACTIVE" /\ order_status[o] = "PENDING"
    /\ s \in order_items[o]
    /\ reserved_until[s] = expires_at[o]
    /\ booked_order_id[s] = None

\* "A financial success is never discarded" (payment_decision): captured
\* money is either the price of a paid order or a refund, and never both.
CapturedMoneyIsSettledOnce ==
  \A o \in Orders :
    /\ payment_status[o] = "SUCCEEDED" <=> Paid(o) \/ refund_requests[o] # Absent
    /\ refund_requests[o] = "PENDING" <=> order_status[o] = "REFUND_PENDING"
    /\ refund_requests[o] = "REFUNDED" <=> order_status[o] = "REFUNDED"

\* Each settlement is published exactly once, whatever callbacks repeat:
\* one OrderPaid per paid order and one RefundRequested per refund.
SettlementPublishedOnce ==
  \A o \in Orders :
    /\ outbox_events["OrderPaid"][o] = IF Paid(o) THEN 1 ELSE 0
    /\ outbox_events["RefundRequested"][o] =
         IF refund_requests[o] # Absent THEN 1 ELSE 0
    /\ outbox_events["TicketsIssued"][o] =
         IF order_status[o] = "FULFILLED" THEN 1 ELSE 0

\* A fulfilled order has one ticket per booking and no other order has any
\* (consume_event, OrderPaid).
TicketsMatchFulfilment ==
  tickets = {b \in bookings : order_status[b[2]] = "FULFILLED"}

\* Every committed change of a seat row is named by a SeatsChanged row of the
\* same transaction, so the projection always learns of the newest version.
EveryChangeIsAnnounced == announced = version

\* A key creates at most one hold and every hold comes from exactly one key,
\* with the actor and the seats of its request: replays and retries never
\* reserve twice (idem, remember).
OneHoldPerKey ==
  /\ \A o \in Orders : order_status[o] # Absent =>
       \E a \in Actors, k \in HoldKeys :
         idem_hold[a][k] # None /\ idem_hold[a][k].order = o
  /\ \A a \in Actors, k \in HoldKeys : idem_hold[a][k] # None =>
       /\ actor[idem_hold[a][k].order] = a
       /\ order_items[idem_hold[a][k].order] = idem_hold[a][k].seats
  /\ \A a, b \in Actors, j, k \in HoldKeys :
       idem_hold[a][j] # None /\ idem_hold[b][k] # None
         /\ idem_hold[a][j].order = idem_hold[b][k].order => a = b /\ j = k

\* A sold seat is never given up, released or sold again.
SoldForever ==
  [][\A s \in Seats : booked_order_id[s] # None =>
       booked_order_id'[s] = booked_order_id[s] /\ hold_id'[s] = None]_vars

\* Orders only move forward: a paid order can only be fulfilled, and an order
\* that left PENDING never becomes payable again.
OrderLifecycle ==
  [][\A o \in Orders : order_status'[o] # order_status[o] =>
       <<order_status[o], order_status'[o]>> \in
         {<<Absent, "PENDING">>, <<"PENDING", "PAID">>, <<"PAID", "FULFILLED">>,
          <<"PENDING", "EXPIRED">>, <<"PENDING", "FAILED">>,
          <<"PENDING", "REFUND_PENDING">>, <<"EXPIRED", "REFUND_PENDING">>,
          <<"FAILED", "REFUND_PENDING">>, <<"REFUND_PENDING", "REFUNDED">>}]_vars

\* Before its deadline a hold ends only by its owner's release, a failed
\* payment or a sale: it is never expired, and a success reported for it is
\* never turned into a refund (expire_batch, callback).
DeadlineIsRespected ==
  [][\A o \in Orders : hold_status[o] = "ACTIVE" /\ expires_at[o] > clock =>
       hold_status'[o] # "EXPIRED" /\ order_status'[o] # "REFUND_PENDING"]_vars

\* The row version fences the projection: a seat row changes exactly when
\* its version grows by one.
VersionFencesRow ==
  [][\A s \in Seats :
       /\ version'[s] \in {version[s], version[s] + 1}
       /\ version'[s] = version[s] <=>
            <<hold_id[s], reserved_until[s], booked_order_id[s]>>
              = <<hold_id'[s], reserved_until'[s], booked_order_id'[s]>>]_vars

-----------------------------------------------------------------------------
(* The ledger implements the ownership promise.                            *)

Ownership == INSTANCE SeatOwnership WITH
  Term <- HoldSeconds, Lag <- MaxLag, holder <- hold_id,
  deadline <- reserved_until, buyer <- booked_order_id, basket <- order_items

\* Whatever callbacks, expiry workers, releases and consumers do, the seat
\* rows only ever move as SeatOwnership allows.
ImplementsOwnership == Ownership!OSpec

-----------------------------------------------------------------------------
\* Abandoned inventory comes back: a held seat is eventually freed or sold.
HeldSeatsEventuallyResolve ==
  \A s \in Seats, o \in Orders : hold_id[s] = o ~> hold_id[s] # o

\* Captured money is eventually a ticketed order or a completed refund.
CapturedMoneyEventuallySettles ==
  \A o \in Orders : payment_status[o] = "SUCCEEDED" ~>
    order_status[o] \in {"FULFILLED", "REFUNDED"}
=============================================================================
