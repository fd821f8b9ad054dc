------------------------- MODULE Settlement_proofs --------------------------
(***************************************************************************)
(* Money, tickets and notifications of Reservations, and how its seats      *)
(* change.  SettledRows is inductive on top of OwnershipInv; its extra      *)
(* conjunct, FulfilledOnce, says that the inbox row of OrderPaid and the    *)
(* FULFILLED status are written by the same transaction.                    *)
(***************************************************************************)
EXTENDS Reservations_proofs

\* The consumer has applied OrderPaid exactly for the fulfilled orders.
FulfilledOnce ==
  \A o \in Orders :
    consumer_inbox["OrderPaid"][o] = IF order_status[o] = "FULFILLED" THEN 1 ELSE 0

SettledRows ==
  /\ CapturedMoneyIsSettledOnce /\ SettlementPublishedOnce
  /\ TicketsMatchFulfilment /\ FulfilledOnce

\* The statuses that say money was captured.
Settled == {"PAID", "FULFILLED", "REFUND_PENDING", "REFUNDED"}

\* No money, no tickets and no events at first.
LEMMA InitSettled == Init => SettledRows
BY DEF Init, SettledRows, CapturedMoneyIsSettledOnce, SettlementPublishedOnce,
   TicketsMatchFulfilment, FulfilledOnce, Paid, Absent, EventTypes

\* Steps that capture no money and move no order into or out of Settled.
LEMMA KeepSettled ==
  ASSUME TypeOK, SettledRows,
         \A p \in Orders : \/ order_status'[p] = order_status[p]
                           \/ order_status[p] \notin Settled /\ order_status'[p] \notin Settled,
         \A p \in Orders : payment_status'[p] = "SUCCEEDED" <=> payment_status[p] = "SUCCEEDED",
         UNCHANGED <<refund_requests, outbox_events, bookings, tickets>>,
         consumer_inbox'["OrderPaid"] = consumer_inbox["OrderPaid"]
  PROVE  SettledRows'
<1>1. \A p \in Orders : Paid(p) <=> Paid(p)'
  BY DEF Paid, Settled
<1>2. CapturedMoneyIsSettledOnce'
  BY <1>1 DEF SettledRows, CapturedMoneyIsSettledOnce, Settled
<1>3. SettlementPublishedOnce'
  BY <1>1 DEF SettledRows, SettlementPublishedOnce, Settled
<1>4. TicketsMatchFulfilment'
  BY DEF SettledRows, TicketsMatchFulfilment, Settled, TypeOK
<1>5. FulfilledOnce'
  BY DEF SettledRows, FulfilledOnce, Settled
<1> QED
  BY <1>2, <1>3, <1>4, <1>5 DEF SettledRows

\* A first success of a payment whose hold is valid.
LEMMA BookSettled ==
  ASSUME TypeOK, SettledRows, NEW o \in Orders, Book(o),
         order_status[o] = "PENDING", ~Captured(o),
         payment_status' = [payment_status EXCEPT ![o] = "SUCCEEDED"],
         UNCHANGED <<tickets, consumer_inbox>>
  PROVE  SettledRows'
<1>0. /\ order_status' = [order_status EXCEPT ![o] = "PAID"]
      /\ UNCHANGED refund_requests
      /\ bookings' = bookings \cup (order_items[o] \X {o})
  BY DEF Book
<1>1. CapturedMoneyIsSettledOnce'
  BY <1>0 DEF SettledRows, CapturedMoneyIsSettledOnce, TypeOK, Paid, Captured
<1>2. SettlementPublishedOnce'
  BY <1>0 DEF Book, event, SettledRows, SettlementPublishedOnce, TypeOK, Paid, EventTypes
<1>3. TicketsMatchFulfilment'
  BY <1>0 DEF SettledRows, TicketsMatchFulfilment, TypeOK
<1>4. FulfilledOnce'
  BY <1>0 DEF SettledRows, FulfilledOnce, TypeOK
<1> QED
  BY <1>1, <1>2, <1>3, <1>4 DEF SettledRows

\* A first success of a payment whose hold is gone.
LEMMA RefundSettled ==
  ASSUME TypeOK, SettledRows, NEW o \in Orders, Refund(o),
         ~Paid(o), ~Captured(o),
         payment_status' = [payment_status EXCEPT ![o] = "SUCCEEDED"],
         UNCHANGED <<tickets, consumer_inbox>>
  PROVE  SettledRows'
<1>0. /\ order_status' = [order_status EXCEPT ![o] = "REFUND_PENDING"]
      /\ UNCHANGED bookings
      /\ refund_requests[o] = Absent
      /\ refund_requests' = [refund_requests EXCEPT ![o] = "PENDING"]
  BY DEF Refund, SettledRows, CapturedMoneyIsSettledOnce, Captured, TypeOK
<1>1. CapturedMoneyIsSettledOnce'
  BY <1>0 DEF SettledRows, CapturedMoneyIsSettledOnce, TypeOK, Paid, Absent
<1>2. SettlementPublishedOnce'
  BY <1>0 DEF Refund, event, SettledRows, SettlementPublishedOnce, TypeOK, Paid,
     EventTypes, Absent
<1>3. TicketsMatchFulfilment'
  BY <1>0 DEF SettledRows, TicketsMatchFulfilment, TypeOK, Paid
<1>4. FulfilledOnce'
  BY <1>0 DEF SettledRows, FulfilledOnce, TypeOK, Paid
<1> QED
  BY <1>1, <1>2, <1>3, <1>4 DEF SettledRows

\* callback, for each decision.
LEMMA callbackSettled ==
  ASSUME TypeOK, SettledRows, NEW c \in CallbackIds, NEW o \in Orders,
         NEW outcome \in Outcomes, NEW t \in ReadTimes, callback(c, o, outcome, t)
  PROVE  SettledRows'
<1> DEFINE decision == payment_decision(order_status[o], ValidHold(o, t), outcome)
<1>0. UNCHANGED <<tickets, consumer_inbox>>
  BY DEF callback
<1>1. CASE Captured(o)
  BY <1>0, <1>1, KeepSettled DEF callback, KeepOrder
<1>2. CASE ~Captured(o)
  <2>0. ~Paid(o) /\ Settle(o, t, outcome)
        /\ payment_status' = [payment_status EXCEPT ![o] = outcome]
    BY <1>2 DEF callback, SettledRows, CapturedMoneyIsSettledOnce, Captured
  <2>1. CASE decision = "BOOK" /\ Book(o)
    BY <1>0, <1>2, <2>0, <2>1, BookSettled DEF payment_decision, Outcomes
  <2>2. CASE decision = "REFUND" /\ Refund(o)
    BY <1>0, <1>2, <2>0, <2>2, RefundSettled DEF payment_decision, Outcomes
  <2>3. CASE decision \in {"FAILED", "UNCHANGED"} /\ (Fail(o) \/ KeepOrder)
    <3>1. outcome = "FAILED"
      BY <2>0, <2>3 DEF payment_decision, Paid, Outcomes
    <3>2. \A p \in Orders : payment_status'[p] = "SUCCEEDED" <=> payment_status[p] = "SUCCEEDED"
      BY <1>2, <2>0, <3>1 DEF Captured, TypeOK
    <3>3. UNCHANGED <<refund_requests, outbox_events, bookings>>
      BY <2>3 DEF Fail, KeepOrder
    <3>4. \A p \in Orders : \/ order_status'[p] = order_status[p]
                            \/ order_status[p] \notin Settled /\ order_status'[p] \notin Settled
      <4>1. order_status[o] \notin Settled
        BY <1>2, <2>0 DEF SettledRows, CapturedMoneyIsSettledOnce, Captured, Settled,
           Paid, Absent
      <4> QED
        BY <2>3, <4>1 DEF Fail, KeepOrder, Settled, TypeOK
    <3> QED
      BY <1>0, <3>2, <3>3, <3>4, KeepSettled
  <2> QED
    BY <2>0, <2>1, <2>2, <2>3 DEF Settle
<1> QED
  BY <1>1, <1>2

\* The consumer of OrderPaid issues the tickets of the order, once.
LEMMA OrderPaidSettled ==
  ASSUME TypeOK, SettledRows, NEW o \in Orders, consume_OrderPaid(o)
  PROVE  SettledRows'
<1>0. order_status[o] = "PAID" /\ order_status' = [order_status EXCEPT ![o] = "FULFILLED"]
  BY DEF consume_OrderPaid, Receive, SettledRows, SettlementPublishedOnce,
     FulfilledOnce, Paid
<1>1. CapturedMoneyIsSettledOnce'
  BY <1>0 DEF consume_OrderPaid, SettledRows, CapturedMoneyIsSettledOnce, TypeOK, Paid,
     moneyVars
<1>2. SettlementPublishedOnce'
  BY <1>0 DEF consume_OrderPaid, event, SettledRows, SettlementPublishedOnce, TypeOK,
     Paid, EventTypes, moneyVars
<1>3. TicketsMatchFulfilment'
  BY <1>0 DEF consume_OrderPaid, BookingsOf, SettledRows, TicketsMatchFulfilment, TypeOK
<1>4. FulfilledOnce'
  BY <1>0 DEF consume_OrderPaid, Receive, SettledRows, FulfilledOnce, TypeOK, EventTypes
<1> QED
  BY <1>1, <1>2, <1>3, <1>4 DEF SettledRows

\* The consumer of RefundRequested completes the refund.
LEMMA RefundRequestedSettled ==
  ASSUME TypeOK, SettledRows, NEW o \in Orders, consume_RefundRequested(o)
  PROVE  SettledRows'
<1>0. /\ refund_requests[o] # Absent
      /\ refund_requests' = [refund_requests EXCEPT ![o] = "REFUNDED"]
  <2>1. /\ consumer_inbox["RefundRequested"][o] \in Nat
        /\ consumer_inbox["RefundRequested"][o] < outbox_events["RefundRequested"][o]
    BY DEF consume_RefundRequested, Receive, TypeOK, EventTypes
  <2>2. refund_requests[o] # Absent
    BY <2>1 DEF SettledRows, SettlementPublishedOnce
  <2> QED
    BY <2>2 DEF consume_RefundRequested, TypeOK
<1>1. /\ order_status[o] \in {"REFUND_PENDING", "REFUNDED"}
      /\ order_status' = [order_status EXCEPT ![o] = "REFUNDED"]
  <2>1. refund_requests[o] \in {"PENDING", "REFUNDED"}
    BY <1>0 DEF TypeOK
  <2>2. order_status[o] \in {"REFUND_PENDING", "REFUNDED"}
    BY <2>1 DEF SettledRows, CapturedMoneyIsSettledOnce
  <2> QED
    BY <2>2 DEF consume_RefundRequested, TypeOK
<1>2. UNCHANGED <<payment_status, bookings, tickets, outbox_events>>
      /\ consumer_inbox'["OrderPaid"] = consumer_inbox["OrderPaid"]
  BY DEF consume_RefundRequested, Receive, saleVars, TypeOK, EventTypes
<1>3. CapturedMoneyIsSettledOnce'
  BY <1>0, <1>1, <1>2 DEF SettledRows, CapturedMoneyIsSettledOnce, TypeOK, Paid, Absent
<1>4. SettlementPublishedOnce'
  BY <1>0, <1>1, <1>2 DEF SettledRows, SettlementPublishedOnce, TypeOK, Paid, Absent
<1>5. TicketsMatchFulfilment'
  BY <1>1, <1>2 DEF SettledRows, TicketsMatchFulfilment, TypeOK
<1>6. FulfilledOnce'
  BY <1>1, <1>2 DEF SettledRows, FulfilledOnce, TypeOK
<1> QED
  BY <1>3, <1>4, <1>5, <1>6 DEF SettledRows

\* Every committed transaction preserves SettledRows.
LEMMA NextSettled == TypeOK /\ SettledRows /\ [Next]_vars => SettledRows'
<1> SUFFICES ASSUME TypeOK, SettledRows, [Next]_vars PROVE SettledRows'
  OBVIOUS
<1>1. CASE Tick
  BY <1>1, KeepSettled DEF Tick, moneyVars, saleVars, streamVars
<1>2. ASSUME NEW a \in Actors, NEW S \in SeatRequests, NEW o \in Orders, NEW d,
             InsertHold(a, o, S, d)
      PROVE  SettledRows'
  BY <1>2, KeepSettled
  DEF InsertHold, Settled, Absent, TypeOK, moneyVars, saleVars, streamVars
<1>reserve. ASSUME NEW a \in Actors, NEW S \in SeatRequests, NEW k \in HoldKeys,
                   NEW t \in ReadTimes, NEW o \in Orders \ Commands,
                   reserve(a, S, k, o, t)
            PROVE  SettledRows'
  BY <1>2, <1>reserve DEF reserve
<1>persist. ASSUME NEW a \in Actors, NEW S \in SeatRequests, NEW k \in HoldKeys,
                   NEW t \in ReadTimes, NEW o \in Commands,
                   NEW expires \in 1..(t + HoldSeconds),
                   persist_reservation_command(a, S, k, o, expires, t)
            PROVE  SettledRows'
  BY <1>2, <1>persist, CommandAssumption DEF persist_reservation_command
<1>3. ASSUME NEW a \in Actors, NEW o \in Orders, NEW k \in OrderKeys,
             NEW t \in ReadTimes, checkout(a, o, k, t)
      PROVE  SettledRows'
  BY <1>3, KeepSettled DEF checkout, moneyVars, saleVars, streamVars
<1>4. ASSUME NEW a \in Actors, NEW o \in Orders, release(a, o)
      PROVE  SettledRows'
  BY <1>4, KeepSettled
  DEF release, ReleaseOrders, Settled, TypeOK, moneyVars, saleVars, streamVars
<1>5. ASSUME NEW w \in ExpiryWorkers, expire_scan(w)
      PROVE  SettledRows'
  BY <1>5, KeepSettled DEF expire_scan, moneyVars, saleVars, streamVars
<1>6. ASSUME NEW w \in ExpiryWorkers, NEW B \in SUBSET Orders, expire_batch(w, B)
      PROVE  SettledRows'
  BY <1>6, KeepSettled
  DEF expire_batch, ReleaseOrders, Settled, TypeOK, moneyVars, saleVars, streamVars
<1>7. ASSUME NEW a \in Actors, NEW o \in Orders, NEW k \in PaymentKeys,
             NEW t \in ReadTimes, initiate_payment(a, o, k, t)
      PROVE  SettledRows'
  BY <1>7, KeepSettled DEF initiate_payment, Absent, TypeOK, saleVars, streamVars
<1>8. ASSUME NEW o \in Orders, consume_TicketsIssued(o)
      PROVE  SettledRows'
  BY <1>8, KeepSettled
  DEF consume_TicketsIssued, Receive, TypeOK, EventTypes, moneyVars, saleVars
<1>9. CASE UNCHANGED vars
  BY <1>9, KeepSettled DEF vars, moneyVars, saleVars, streamVars
<1> QED
  BY <1>1, <1>reserve, <1>persist, <1>3, <1>4, <1>5, <1>6, <1>7, <1>8, <1>9, callbackSettled,
     OrderPaidSettled, RefundRequestedSettled
  DEF Next, consume_event

\* SettledRows holds in every reachable state.
THEOREM SettlementInvariant == Spec => []SettledRows
BY TypeCorrect, InitSettled, NextSettled, PTL DEF Spec

\* No captured success is discarded or settled twice: it is the price of a
\* paid order or a refund, in whatever order callbacks, expiry, releases and
\* consumers commit (payment_decision, callback, consume_event).
THEOREM MoneyIsSettledOnce == Spec => []CapturedMoneyIsSettledOnce
<1>1. SettledRows => CapturedMoneyIsSettledOnce
  BY DEF SettledRows
<1> QED
  BY SettlementInvariant, <1>1, PTL

\* callback and consume_event write one OrderPaid, RefundRequested or
\* TicketsIssued row per settlement, however often they are repeated.
THEOREM SettlementsArePublishedOnce == Spec => []SettlementPublishedOnce
<1>1. SettledRows => SettlementPublishedOnce
  BY DEF SettledRows
<1> QED
  BY SettlementInvariant, <1>1, PTL

\* consume_event issues exactly the tickets of the fulfilled orders' bookings.
THEOREM TicketsAreThoseOfFulfilledOrders == Spec => []TicketsMatchFulfilment
<1>1. SettledRows => TicketsMatchFulfilment
  BY DEF SettledRows
<1> QED
  BY SettlementInvariant, <1>1, PTL

-----------------------------------------------------------------------------
(* Notifications.                                                          *)

\* Every transaction that changes seat rows names them in a SeatsChanged row.
LEMMA NextAnnounced ==
  OwnershipInv /\ EveryChangeIsAnnounced /\ [Next]_vars => EveryChangeIsAnnounced'
<1> SUFFICES ASSUME OwnershipInv, EveryChangeIsAnnounced, [Next]_vars
             PROVE  EveryChangeIsAnnounced'
  OBVIOUS
<1> USE DEF EveryChangeIsAnnounced
<1>0. /\ TypeOK /\ TypeOK'
      /\ \A o \in Orders : Released({o}) \subseteq order_items[o]
      /\ \A o \in Orders, s \in Seats : hold_id[s] = o => s \in order_items[o]
  <2>1. TypeOK /\ TypeOK' /\ HeldSeatsAreRecoverable
    BY NextTypeOK DEF OwnershipInv, OwnedRows
  <2>2. \A o \in Orders, s \in Seats : hold_id[s] = o => s \in order_items[o]
    BY <2>1, NoneAssumption DEF HeldSeatsAreRecoverable
  <2> QED
    BY <2>1, <2>2 DEF Released
<1>1. CASE UNCHANGED <<version, announced>>
  BY <1>1
<1>2. ASSUME NEW S \in SUBSET Seats, SeatsChanged(S),
             \A s \in Seats \ S : version'[s] = version[s]
      PROVE  EveryChangeIsAnnounced'
  BY <1>0, <1>2 DEF SeatsChanged, TypeOK
<1>3. ASSUME NEW a \in Actors, NEW S \in SeatRequests, NEW o \in Orders, NEW d,
             InsertHold(a, o, S, d)
      PROVE  EveryChangeIsAnnounced'
  BY <1>2, <1>3 DEF InsertHold, SeatRequests
<1>reserve. ASSUME NEW a \in Actors, NEW S \in SeatRequests, NEW k \in HoldKeys,
                   NEW t \in ReadTimes, NEW o \in Orders \ Commands,
                   reserve(a, S, k, o, t)
            PROVE  EveryChangeIsAnnounced'
  BY <1>3, <1>reserve DEF reserve
<1>persist. ASSUME NEW a \in Actors, NEW S \in SeatRequests, NEW k \in HoldKeys,
                   NEW t \in ReadTimes, NEW o \in Commands,
                   NEW expires \in 1..(t + HoldSeconds),
                   persist_reservation_command(a, S, k, o, expires, t)
            PROVE  EveryChangeIsAnnounced'
  BY <1>3, <1>persist, CommandAssumption DEF persist_reservation_command
<1>4. ASSUME NEW B \in SUBSET Orders, ReleaseSeats(B), SeatsChanged(Released(B))
      PROVE  EveryChangeIsAnnounced'
  <2>1. Released(B) \in SUBSET Seats
    BY DEF Released
  <2> QED
    BY <1>2, <1>4, <2>1 DEF ReleaseSeats
<1>5. ASSUME NEW c \in CallbackIds, NEW o \in Orders, NEW outcome \in Outcomes,
             NEW t \in ReadTimes, callback(c, o, outcome, t)
      PROVE  EveryChangeIsAnnounced'
  <2>1. CASE Captured(o)
    BY <1>1, <1>5, <2>1 DEF callback, KeepOrder, seatVars
  <2>2. CASE ~Captured(o)
    <3>1. SeatsChanged(order_items[o]) /\ Settle(o, t, outcome)
      BY <1>5, <2>2 DEF callback
    <3>2. \A s \in Seats \ order_items[o] : version'[s] = version[s]
      BY <1>0, <3>1 DEF Settle, Book, Refund, Fail, KeepOrder, ReleaseSeats, seatVars
    <3>3. order_items[o] \in SUBSET Seats
      BY <1>0 DEF TypeOK
    <3> QED
      BY <1>2, <3>1, <3>2, <3>3
  <2> QED
    BY <2>1, <2>2
<1>6. (\E a \in Actors, o \in Orders : release(a, o)) => EveryChangeIsAnnounced'
  BY <1>4 DEF release
<1>7. (\E w \in ExpiryWorkers, B \in SUBSET Orders : expire_batch(w, B))
        => EveryChangeIsAnnounced'
  BY <1>4 DEF expire_batch
<1>8. \/ Tick \/ \E w \in ExpiryWorkers : expire_scan(w)
      \/ \E a \in Actors, o \in Orders, k \in OrderKeys, t \in ReadTimes : checkout(a, o, k, t)
      \/ \E a \in Actors, o \in Orders, k \in PaymentKeys, t \in ReadTimes :
           initiate_payment(a, o, k, t)
      \/ \E o \in Orders : consume_event(o)
      \/ UNCHANGED vars
      => UNCHANGED <<version, announced>>
  BY DEF Tick, expire_scan, checkout, initiate_payment, consume_event,
     consume_OrderPaid, consume_RefundRequested, consume_TicketsIssued, vars, seatVars
<1> QED
  BY <1>1, <1>reserve, <1>persist, <1>5, <1>6, <1>7, <1>8 DEF Next

\* The projection is told of every committed seat change: the newest version
\* of each row is the one its last SeatsChanged row was written for.
THEOREM SeatChangesAreAnnounced == Spec => []EveryChangeIsAnnounced
<1>1. Init => EveryChangeIsAnnounced
  BY DEF Init, EveryChangeIsAnnounced
<1> QED
  BY <1>1, NextAnnounced, OwnershipInvariant, PTL DEF Spec

-----------------------------------------------------------------------------
(* The life of an order.                                                   *)

Lifecycle ==
  {<<Absent, "PENDING">>, <<"PENDING", "PAID">>, <<"PAID", "FULFILLED">>,
   <<"PENDING", "EXPIRED">>, <<"PENDING", "FAILED">>,
   <<"PENDING", "REFUND_PENDING">>, <<"EXPIRED", "REFUND_PENDING">>,
   <<"FAILED", "REFUND_PENDING">>, <<"REFUND_PENDING", "REFUNDED">>}

\* Orders only move forward: _release cannot end a paid order, a late success
\* cannot revive an ended one, and a repeated event changes nothing.
THEOREM OrdersMoveForward == Spec => OrderLifecycle
<1>1. OwnershipInv /\ SettledRows /\ [Next]_vars =>
        [\A o \in Orders : order_status'[o] # order_status[o] =>
           <<order_status[o], order_status'[o]>> \in Lifecycle]_vars
  <2> SUFFICES ASSUME OwnershipInv, SettledRows, [Next]_vars, NEW o \in Orders,
                      order_status'[o] # order_status[o]
               PROVE  <<order_status[o], order_status'[o]>> \in Lifecycle
    OBVIOUS
  <2>1. TypeOK
    BY DEF OwnershipInv, OwnedRows
  <2>2. ASSUME NEW a \in Actors, NEW p \in Orders, NEW S, NEW d, InsertHold(a, p, S, d)
        PROVE  <<order_status[o], order_status'[o]>> \in Lifecycle
    BY <2>1, <2>2 DEF InsertHold, TypeOK, Lifecycle
  <2>3. ASSUME NEW B \in SUBSET Orders, ReleaseOrders(B)
        PROVE  <<order_status[o], order_status'[o]>> \in Lifecycle
    BY <2>3 DEF ReleaseOrders, Lifecycle
  <2>4. ASSUME NEW c \in CallbackIds, NEW p \in Orders, NEW outcome \in Outcomes,
               NEW t \in ReadTimes, callback(c, p, outcome, t)
        PROVE  <<order_status[o], order_status'[o]>> \in Lifecycle
    <3>1. ~KeepOrder
      BY DEF KeepOrder
    <3>2. ~Captured(p) /\ Settle(p, t, outcome)
      BY <2>4, <3>1 DEF callback
    <3>3. order_status[p] \in {"PENDING", "EXPIRED", "FAILED"}
      BY <2>1, <2>4, <3>2 DEF callback, Captured, OwnershipInv, OwnedRows, RowsAgree, SettledRows,
         CapturedMoneyIsSettledOnce, TypeOK, Paid, OrderStates, Absent
    <3>4. CASE Book(p) /\ order_status[p] = "PENDING"
      BY <2>1, <3>4 DEF Book, TypeOK, Lifecycle
    <3>5. CASE Refund(p)
      BY <2>1, <3>3, <3>5 DEF Refund, TypeOK, Lifecycle
    <3>6. CASE Fail(p) /\ order_status[p] = "PENDING"
      BY <2>1, <3>6 DEF Fail, TypeOK, Lifecycle
    <3> QED
      BY <3>1, <3>2, <3>4, <3>5, <3>6 DEF Settle, payment_decision
  <2>5. ASSUME NEW p \in Orders, consume_event(p)
        PROVE  <<order_status[o], order_status'[o]>> \in Lifecycle
    <3>1. order_status[p] \in {"PAID", "REFUND_PENDING"}
      BY <2>1, <2>5 DEF consume_event, consume_OrderPaid, consume_RefundRequested,
         consume_TicketsIssued, TypeOK
    <3> QED
      BY <2>1, <2>5 DEF consume_event, consume_OrderPaid, consume_RefundRequested,
         consume_TicketsIssued, TypeOK, Lifecycle
  <2>6. ASSUME NEW a \in Actors, NEW S \in SeatRequests, NEW k \in HoldKeys,
               NEW t \in ReadTimes, NEW p \in Orders \ Commands, reserve(a, S, k, p, t)
        PROVE  <<order_status[o], order_status'[o]>> \in Lifecycle
    BY <2>2, <2>6 DEF reserve
  <2>7. ASSUME NEW a \in Actors, NEW S \in SeatRequests, NEW k \in HoldKeys,
               NEW t \in ReadTimes, NEW p \in Commands,
               NEW expires \in 1..(t + HoldSeconds),
               persist_reservation_command(a, S, k, p, expires, t)
        PROVE  <<order_status[o], order_status'[o]>> \in Lifecycle
    BY <2>2, <2>7, CommandAssumption DEF persist_reservation_command
  <2>8. ASSUME NEW a \in Actors, NEW p \in Orders, release(a, p)
        PROVE  <<order_status[o], order_status'[o]>> \in Lifecycle
    BY <2>3, <2>8 DEF release
  <2>9. ASSUME NEW w \in ExpiryWorkers, NEW B \in SUBSET Orders, expire_batch(w, B)
        PROVE  <<order_status[o], order_status'[o]>> \in Lifecycle
    BY <2>3, <2>9 DEF expire_batch
  <2>10. ~ \/ Tick \/ \E w \in ExpiryWorkers : expire_scan(w)
           \/ \E a \in Actors, p \in Orders, k \in OrderKeys, t \in ReadTimes : checkout(a, p, k, t)
           \/ \E a \in Actors, p \in Orders, k \in PaymentKeys, t \in ReadTimes :
                initiate_payment(a, p, k, t)
           \/ UNCHANGED vars
    BY DEF Tick, expire_scan, checkout, initiate_payment, vars
  <2> QED
    BY <2>4, <2>5, <2>6, <2>7, <2>8, <2>9, <2>10 DEF Next
<1> QED
  BY <1>1, OwnershipInvariant, SettlementInvariant, PTL
  DEF Spec, OrderLifecycle, Lifecycle
-----------------------------------------------------------------------------
(* One hold per idempotency key.  The properties are inductive once it is  *)
(* known that a recorded key names an order that was inserted.             *)

KeysNameOrders ==
  \A a \in Actors, k \in HoldKeys :
    idem_hold[a][k] # None => order_status[idem_hold[a][k].order] # Absent

KeysInv == OneHoldPerKey /\ KeysNameOrders

\* The order in a recorded response.
LEMMA RecordedOrders ==
  ASSUME TypeOK, NEW a \in Actors, NEW k \in HoldKeys, idem_hold[a][k] # None
  PROVE  idem_hold[a][k].order \in Orders
<1>1. idem_hold \in [Actors -> [HoldKeys -> HoldReplies \cup {None}]]
  BY DEF TypeOK
<1>2. idem_hold[a][k] \in HoldReplies
  BY <1>1
<1> QED
  BY <1>2 DEF HoldReplies

\* No order is inserted, and no key.
LEMMA KeepKeys ==
  ASSUME TypeOK, KeysInv, UNCHANGED <<idem_hold, actor, order_items>>,
         \A p \in Orders : order_status'[p] = Absent <=> order_status[p] = Absent
  PROVE  KeysInv'
<1>1. ASSUME NEW a \in Actors, NEW k \in HoldKeys, idem_hold[a][k] # None
      PROVE  idem_hold[a][k].order \in Orders
  BY <1>1, RecordedOrders
<1>2. KeysNameOrders'
  BY <1>1 DEF KeysInv, KeysNameOrders
<1>3. OneHoldPerKey'
  BY DEF KeysInv, OneHoldPerKey
<1> QED
  BY <1>2, <1>3 DEF KeysInv

\* The inserts of a hold and the record of its key.
LEMMA InsertKeys ==
  ASSUME TypeOK, KeysInv, NEW a \in Actors, NEW S \in SUBSET Seats, NEW k \in HoldKeys,
         NEW o \in Orders, NEW d, InsertHold(a, o, S, d), Unused(idem_hold[a][k]),
         idem_hold' = [idem_hold EXCEPT ![a][k] = [seats |-> S, order |-> o]]
  PROVE  KeysInv'
<1> DEFINE r == [seats |-> S, order |-> o]
<1>0. r # None /\ r.order = o /\ r.seats = S
  BY ReplyAssumption
<1> HIDE DEF r
<1>1. \A b \in Actors, j \in HoldKeys :
        idem_hold'[b][j] = IF b = a /\ j = k THEN r ELSE idem_hold[b][j]
  BY DEF TypeOK, r
<1>2. ASSUME NEW b \in Actors, NEW j \in HoldKeys, idem_hold[b][j] # None
      PROVE  /\ idem_hold[b][j].order \in Orders /\ idem_hold[b][j].order # o
             /\ ~(b = a /\ j = k)
  <2>1. idem_hold[b][j].order \in Orders
    BY <1>2, RecordedOrders
  <2>2. idem_hold[b][j].order # o
    BY <1>2 DEF KeysInv, KeysNameOrders, InsertHold
  <2> QED
    BY <1>2, <2>1, <2>2 DEF Unused
<1>3. /\ order_status'[o] # Absent /\ actor'[o] = a /\ order_items'[o] = S
      /\ \A p \in Orders \ {o} : /\ order_status'[p] = order_status[p]
                                 /\ actor'[p] = actor[p] /\ order_items'[p] = order_items[p]
  BY DEF InsertHold, TypeOK, Absent
<1>4. KeysNameOrders'
  BY <1>0, <1>1, <1>2, <1>3 DEF KeysInv, KeysNameOrders
<1>5. \A p \in Orders : order_status'[p] # Absent =>
        \E b \in Actors, j \in HoldKeys : idem_hold'[b][j] # None /\ idem_hold'[b][j].order = p
  <2> SUFFICES ASSUME NEW p \in Orders, order_status'[p] # Absent
               PROVE  \E b \in Actors, j \in HoldKeys :
                        idem_hold'[b][j] # None /\ idem_hold'[b][j].order = p
    OBVIOUS
  <2>1. CASE p = o
    BY <1>0, <1>1, <2>1
  <2>2. CASE p # o
    <3>1. order_status[p] # Absent
      BY <1>3, <2>2
    <3>2. PICK b \in Actors, j \in HoldKeys : idem_hold[b][j] # None /\ idem_hold[b][j].order = p
      BY <3>1 DEF KeysInv, OneHoldPerKey
    <3>3. idem_hold'[b][j] = idem_hold[b][j]
      BY <1>1, <1>2, <3>2
    <3> QED
      BY <3>2, <3>3
  <2> QED
    BY <2>1, <2>2
<1>6. ASSUME NEW b \in Actors, NEW j \in HoldKeys, idem_hold'[b][j] # None
      PROVE  /\ actor'[idem_hold'[b][j].order] = b
             /\ order_items'[idem_hold'[b][j].order] = idem_hold'[b][j].seats
  <2>1. CASE b = a /\ j = k
    BY <1>0, <1>1, <1>3, <2>1
  <2>2. CASE ~(b = a /\ j = k)
    <3>1. idem_hold'[b][j] = idem_hold[b][j] /\ idem_hold[b][j] # None
      BY <1>1, <1>6, <2>2
    <3>2. /\ actor[idem_hold[b][j].order] = b
          /\ order_items[idem_hold[b][j].order] = idem_hold[b][j].seats
      <4>1. \A c \in Actors, i \in HoldKeys : idem_hold[c][i] # None =>
              /\ actor[idem_hold[c][i].order] = c
              /\ order_items[idem_hold[c][i].order] = idem_hold[c][i].seats
        BY DEF KeysInv, OneHoldPerKey
      <4> QED
        BY <3>1, <4>1
    <3>3. idem_hold[b][j].order \in Orders \ {o}
      BY <1>2, <3>1
    <3> QED
      BY <1>3, <3>1, <3>2, <3>3
  <2> QED
    BY <2>1, <2>2
<1>7. ASSUME NEW b \in Actors, NEW c \in Actors, NEW i \in HoldKeys, NEW j \in HoldKeys,
             idem_hold'[b][i] # None, idem_hold'[c][j] # None,
             idem_hold'[b][i].order = idem_hold'[c][j].order
      PROVE  b = c /\ i = j
  <2>1. CASE b = a /\ i = k
    BY <1>0, <1>1, <1>2, <1>7, <2>1
  <2>2. CASE c = a /\ j = k
    BY <1>0, <1>1, <1>2, <1>7, <2>2
  <2>3. CASE ~(b = a /\ i = k) /\ ~(c = a /\ j = k)
    <3>1. idem_hold'[b][i] = idem_hold[b][i] /\ idem_hold'[c][j] = idem_hold[c][j]
      BY <1>1, <2>3
    <3>2. /\ idem_hold[b][i] # None /\ idem_hold[c][j] # None
          /\ idem_hold[b][i].order = idem_hold[c][j].order
      BY <1>7, <3>1
    <3> QED
      BY <3>2 DEF KeysInv, OneHoldPerKey
  <2> QED
    BY <2>1, <2>2, <2>3
<1>8. OneHoldPerKey'
  <2>1. \A b, c \in Actors, i, j \in HoldKeys :
          idem_hold'[b][i] # None /\ idem_hold'[c][j] # None
            /\ idem_hold'[b][i].order = idem_hold'[c][j].order => b = c /\ i = j
    BY <1>7
  <2>2. \A b \in Actors, j \in HoldKeys : idem_hold'[b][j] # None =>
          /\ actor'[idem_hold'[b][j].order] = b
          /\ order_items'[idem_hold'[b][j].order] = idem_hold'[b][j].seats
    BY <1>6
  <2> QED
    BY <1>5, <2>1, <2>2 DEF OneHoldPerKey
<1> QED
  BY <1>4, <1>8 DEF KeysInv

\* Every step keeps one hold per key.
LEMMA NextKeys == OwnershipInv /\ KeysInv /\ [Next]_vars => KeysInv'
<1> SUFFICES ASSUME OwnershipInv, KeysInv, [Next]_vars PROVE KeysInv'
  OBVIOUS
<1>0. TypeOK
  BY DEF OwnershipInv
<1> DEFINE StatusKept == \A p \in Orders : order_status'[p] = Absent <=> order_status[p] = Absent
<1>1. ASSUME NEW a \in Actors, NEW S \in SeatRequests, NEW k \in HoldKeys,
             NEW t \in ReadTimes, NEW o \in Orders \ Commands, reserve(a, S, k, o, t)
      PROVE  KeysInv'
  <2>1. S \in SUBSET Seats /\ o \in Orders
    BY DEF SeatRequests
  <2> QED
    BY <1>1, <2>1, InsertKeys, <1>0 DEF reserve
<1>2. ASSUME NEW a \in Actors, NEW S \in SeatRequests, NEW k \in HoldKeys,
             NEW t \in ReadTimes, NEW o \in Commands,
             NEW expires \in 1..(t + HoldSeconds),
             persist_reservation_command(a, S, k, o, expires, t)
      PROVE  KeysInv'
  <2>1. S \in SUBSET Seats /\ o \in Orders
    BY CommandAssumption DEF SeatRequests
  <2> QED
    BY <1>2, <2>1, InsertKeys, <1>0 DEF persist_reservation_command
<1>3. ASSUME NEW B \in SUBSET Orders, ReleaseOrders(B)
      PROVE  StatusKept
  BY <1>3 DEF ReleaseOrders, Absent
<1>4. ASSUME NEW a \in Actors, NEW o \in Orders, release(a, o)
      PROVE  KeysInv'
  BY <1>3, <1>4, KeepKeys, <1>0 DEF release, factVars, idemVars
<1>5. ASSUME NEW w \in ExpiryWorkers, NEW B \in SUBSET Orders, expire_batch(w, B)
      PROVE  KeysInv'
  BY <1>3, <1>5, KeepKeys, <1>0 DEF expire_batch, factVars, idemVars
<1>6. ASSUME NEW c \in CallbackIds, NEW o \in Orders, NEW outcome \in Outcomes,
             NEW t \in ReadTimes, callback(c, o, outcome, t)
      PROVE  KeysInv'
  <2>1. order_status[o] # Absent
    BY <1>6 DEF callback, OwnershipInv, OwnedRows, RowsAgree
  <2>2. Book(o) \/ Refund(o) \/ Fail(o) \/ KeepOrder
    BY <1>6 DEF callback, Settle
  <2>3. StatusKept
    BY <1>0, <2>1, <2>2 DEF Book, Refund, Fail, KeepOrder, TypeOK, Absent
  <2> QED
    BY <1>6, <2>3, KeepKeys, <1>0 DEF callback, factVars, idemVars
<1>7. ASSUME NEW o \in Orders, consume_event(o)
      PROVE  KeysInv'
  <2>1. StatusKept
    BY <1>0, <1>7 DEF consume_event, consume_OrderPaid, consume_RefundRequested,
       consume_TicketsIssued, TypeOK, Absent
  <2> QED
    BY <1>7, <2>1, KeepKeys, <1>0 DEF consume_event, consume_OrderPaid, consume_RefundRequested,
       consume_TicketsIssued, factVars, idemVars
<1>8. CASE \/ Tick \/ \E w \in ExpiryWorkers : expire_scan(w)
           \/ \E a \in Actors, o \in Orders, k \in OrderKeys, t \in ReadTimes : checkout(a, o, k, t)
           \/ \E a \in Actors, o \in Orders, k \in PaymentKeys, t \in ReadTimes :
                initiate_payment(a, o, k, t)
           \/ UNCHANGED vars
  <2>1. UNCHANGED <<idem_hold, actor, order_items, order_status>>
    BY <1>8 DEF Tick, expire_scan, checkout, initiate_payment, vars, factVars, idemVars
  <2> QED
    BY <1>0, <2>1, KeepKeys
<1> QED
  BY <1>1, <1>2, <1>4, <1>5, <1>6, <1>7, <1>8 DEF Next

\* Replays and retries never reserve twice: a key has at most one hold, and a
\* hold has exactly one key, of its actor and for its seats.
THEOREM KeysHoldOnce == Spec => []OneHoldPerKey
<1>1. Init => KeysInv
  <2> SUFFICES ASSUME Init PROVE KeysInv
    OBVIOUS
  <2>1. idem_hold = [a \in Actors |-> [k \in HoldKeys |-> None]]
    BY DEF Init
  <2>2. \A a \in Actors, k \in HoldKeys : idem_hold[a][k] = None
    BY <2>1
  <2>0. \A o \in Orders : order_status[o] = Absent
    BY DEF Init
  <2>3. OneHoldPerKey
    BY <2>0, <2>2 DEF OneHoldPerKey
  <2>4. KeysNameOrders
    BY <2>2 DEF KeysNameOrders
  <2> QED
    BY <2>3, <2>4 DEF KeysInv
<1> QED
  BY <1>1, NextKeys, OwnershipInvariant, PTL DEF Spec, KeysInv

-----------------------------------------------------------------------------
(***************************************************************************)
(* Seats: what a transaction may never do to them, and that the ledger     *)
(* implements SeatOwnership.  Every step here follows from OwnershipInv.   *)
(***************************************************************************)
USE NoneAssumption, CommandAssumption, TimeAssumption

(* The four ways a transaction changes the seat rows.                      *)

KeepStep == /\ UNCHANGED <<seatVars, order_items>>
            /\ clock' \in {clock, clock + 1}

GrantStep ==
  \E a \in Actors, o \in Orders, S \in SeatRequests, d \in 1..(clock + HoldSeconds) :
    /\ InsertHold(a, o, S, d)
    /\ \A s \in S : booked_order_id[s] = None /\ reserved_until[s] <= clock

GiveUpStep ==
  /\ UNCHANGED <<clock, order_items>>
  /\ \E B \in SUBSET Orders : ReleaseSeats(B)

SellStep ==
  /\ UNCHANGED <<clock, order_items>>
  /\ \E o \in Orders, t \in ReadTimes : ValidHold(o, t) /\ Book(o)

\* Every transaction takes one of them.
LEMMA SeatSteps ==
  ASSUME OwnershipInv, [Next]_vars
  PROVE  KeepStep \/ GrantStep \/ GiveUpStep \/ SellStep
<1>0. TypeOK /\ HeldSeatsAreRecoverable
  BY DEF OwnershipInv, OwnedRows
<1>t. clock \in Nat /\ \A s \in Seats : reserved_until[s] \in Nat
  BY <1>0 DEF TypeOK
<1>1. ASSUME NEW a \in Actors, NEW S \in SeatRequests, NEW k \in HoldKeys,
             NEW t \in ReadTimes, NEW o \in Orders \ Commands, reserve(a, S, k, o, t)
      PROVE  GrantStep
  <2>1. t \in Nat /\ t <= clock /\ clock \in Nat
    BY <1>0, <1>t, ReadTimesAreNat
  <2>2. S \in SUBSET Seats
    BY DEF SeatRequests
  <2>3. \A s \in S : booked_order_id[s] = None /\ reserved_until[s] <= clock
    <3>1. \A s \in S : ~Unavailable(s, t)
      BY <1>1 DEF reserve
    <3> QED
      BY <1>t, <2>1, <2>2, <3>1 DEF Unavailable
  <2>4. InsertHold(a, o, S, t + HoldSeconds) /\ t + HoldSeconds \in 1..(clock + HoldSeconds)
    BY <1>1, <2>1 DEF reserve
  <2> QED
    BY <2>3, <2>4 DEF GrantStep
<1>2. ASSUME NEW a \in Actors, NEW S \in SeatRequests, NEW k \in HoldKeys,
             NEW t \in ReadTimes, NEW o \in Commands, NEW expires \in 1..(t + HoldSeconds),
             persist_reservation_command(a, S, k, o, expires, t)
      PROVE  GrantStep
  <2>1. t \in Nat /\ t <= clock /\ clock \in Nat
    BY <1>0, <1>t, ReadTimesAreNat
  <2>2. S \in SUBSET Seats
    BY DEF SeatRequests
  <2>3. InsertHold(a, o, S, expires) /\ order_status[o] = Absent
    BY <1>2 DEF persist_reservation_command, InsertHold
  <2>4. \A s \in Seats : hold_id[s] # o
    BY <1>0, <2>3 DEF HeldSeatsAreRecoverable, Absent
  <2>5. \A s \in S : booked_order_id[s] = None /\ reserved_until[s] <= clock
    <3>1. \A s \in S : ~Unavailable(s, t) \/ (booked_order_id[s] = None /\ hold_id[s] = o)
      BY <1>2 DEF persist_reservation_command
    <3> QED
      BY <1>t, <2>1, <2>2, <2>4, <3>1 DEF Unavailable
  <2>6. expires \in 1..(clock + HoldSeconds) /\ o \in Orders
    BY <2>1
  <2> QED
    BY <2>3, <2>5, <2>6 DEF GrantStep
<1>3. ASSUME NEW a \in Actors, NEW o \in Orders, release(a, o)
      PROVE  GiveUpStep
  BY <1>3, {o} \in SUBSET Orders DEF release, factVars, GiveUpStep
<1>4. ASSUME NEW w \in ExpiryWorkers, NEW B \in SUBSET Orders, expire_batch(w, B)
      PROVE  GiveUpStep
  BY <1>4 DEF expire_batch, factVars, GiveUpStep
<1>5. ASSUME NEW c \in CallbackIds, NEW o \in Orders, NEW outcome \in Outcomes,
             NEW t \in ReadTimes, callback(c, o, outcome, t)
      PROVE  KeepStep \/ GiveUpStep \/ SellStep
  <2>1. UNCHANGED <<clock, order_items>>
    BY <1>5 DEF callback, factVars
  <2>2. CASE KeepOrder
    BY <2>1, <2>2 DEF KeepOrder, KeepStep
  <2>3. CASE Refund(o) \/ Fail(o)
    BY <2>1, <2>3, {o} \in SUBSET Orders DEF Refund, Fail, GiveUpStep
  <2>4. CASE payment_decision(order_status[o], ValidHold(o, t), outcome) = "BOOK" /\ Book(o)
    <3>1. ValidHold(o, t)
      BY <2>4 DEF payment_decision
    <3> QED
      BY <2>1, <2>4, <3>1 DEF SellStep
  <2> QED
    BY <1>5, <2>2, <2>3, <2>4 DEF callback, Settle
<1>6. Tick => KeepStep
  BY DEF Tick, factVars, KeepStep
<1>7. ASSUME NEW w \in ExpiryWorkers, expire_scan(w)
      PROVE  KeepStep
  BY <1>7 DEF expire_scan, factVars, KeepStep
<1>8. ASSUME NEW a \in Actors, NEW o \in Orders, NEW k \in OrderKeys,
             NEW t \in ReadTimes, checkout(a, o, k, t)
      PROVE  KeepStep
  BY <1>8 DEF checkout, factVars, KeepStep
<1>9. ASSUME NEW a \in Actors, NEW o \in Orders, NEW k \in PaymentKeys,
             NEW t \in ReadTimes, initiate_payment(a, o, k, t)
      PROVE  KeepStep
  BY <1>9 DEF initiate_payment, factVars, KeepStep
<1>10. ASSUME NEW o \in Orders, consume_event(o)
       PROVE  KeepStep
  BY <1>10 DEF consume_event, consume_OrderPaid, consume_RefundRequested,
     consume_TicketsIssued, factVars, KeepStep
<1>11. UNCHANGED vars => KeepStep
  BY DEF vars, factVars, KeepStep
<1> QED
  BY <1>1, <1>2, <1>3, <1>4, <1>5, <1>6, <1>7, <1>8, <1>9, <1>10, <1>11 DEF Next

\* What a sale does to a row.
LEMMA SoldRows ==
  ASSUME SellStep
  PROVE  \E o \in Orders : \A s \in Seats :
           /\ hold_id[s] = o =>
                /\ hold_id'[s] = None /\ reserved_until'[s] = 0 /\ booked_order_id'[s] = o
                /\ version'[s] = version[s] + 1
           /\ hold_id[s] # o =>
                /\ hold_id'[s] = hold_id[s] /\ reserved_until'[s] = reserved_until[s]
                /\ booked_order_id'[s] = booked_order_id[s] /\ version'[s] = version[s]
<1>1. PICK o \in Orders : Book(o)
  BY DEF SellStep
<1> QED
  BY <1>1 DEF Book

\* A sale stays as it is: no transaction clears, releases or resells a row
\* whose booked_order_id is set.
THEOREM SalesAreFinal == Spec => SoldForever
<1>1. OwnershipInv /\ [Next]_vars =>
        [\A s \in Seats : booked_order_id[s] # None =>
           booked_order_id'[s] = booked_order_id[s] /\ hold_id'[s] = None]_vars
  <2> SUFFICES ASSUME OwnershipInv, [Next]_vars, NEW s \in Seats, booked_order_id[s] # None
               PROVE  booked_order_id'[s] = booked_order_id[s] /\ hold_id'[s] = None
    OBVIOUS
  <2>1. hold_id[s] = None /\ TypeOK
    BY DEF OwnershipInv, OwnedRows, HeldSeatsAreRecoverable
  <2>2. CASE KeepStep
    BY <2>1, <2>2 DEF KeepStep, seatVars
  <2>3. CASE GrantStep
    BY <2>1, <2>3 DEF GrantStep, InsertHold
  <2>4. CASE GiveUpStep
    BY <2>1, <2>4 DEF GiveUpStep, ReleaseSeats, Released
  <2>5. CASE SellStep
    BY <2>1, <2>5, SoldRows
  <2> QED
    BY <2>2, <2>3, <2>4, <2>5, SeatSteps
<1> QED
  BY <1>1, OwnershipInvariant, PTL DEF Spec, SoldForever

\* A seat row changes exactly when its version grows by one, which is what the
\* projection and its patches rely on.
THEOREM VersionsFenceRows == Spec => VersionFencesRow
<1>1. OwnershipInv /\ [Next]_vars =>
        [\A s \in Seats :
           /\ version'[s] \in {version[s], version[s] + 1}
           /\ version'[s] = version[s] <=>
                <<hold_id[s], reserved_until[s], booked_order_id[s]>>
                  = <<hold_id'[s], reserved_until'[s], booked_order_id'[s]>>]_vars
  <2> SUFFICES ASSUME OwnershipInv, [Next]_vars, NEW s \in Seats
               PROVE  /\ version'[s] \in {version[s], version[s] + 1}
                      /\ version'[s] = version[s] <=>
                           <<hold_id[s], reserved_until[s], booked_order_id[s]>>
                             = <<hold_id'[s], reserved_until'[s], booked_order_id'[s]>>
    OBVIOUS
  <2>1. /\ TypeOK /\ version[s] \in Nat
        /\ hold_id[s] # None => order_status[hold_id[s]] = "PENDING"
    BY DEF OwnershipInv, OwnedRows, HeldSeatsAreRecoverable, TypeOK
  <2>2. CASE KeepStep
    BY <2>1, <2>2 DEF KeepStep, seatVars
  <2>3. CASE GrantStep
    <3>1. PICK o \in Orders, S \in SeatRequests, d \in 1..(clock + HoldSeconds) :
            /\ order_status[o] = Absent
            /\ hold_id'[s] = IF s \in S THEN o ELSE hold_id[s]
            /\ reserved_until'[s] = IF s \in S THEN d ELSE reserved_until[s]
            /\ version'[s] = IF s \in S THEN version[s] + 1 ELSE version[s]
            /\ booked_order_id' = booked_order_id
      <4>1. PICK a \in Actors, o \in Orders, S \in SeatRequests,
                 d \in 1..(clock + HoldSeconds) : InsertHold(a, o, S, d)
        BY <2>3 DEF GrantStep
      <4>2. /\ order_status[o] = Absent
            /\ hold_id'[s] = IF s \in S THEN o ELSE hold_id[s]
            /\ reserved_until'[s] = IF s \in S THEN d ELSE reserved_until[s]
            /\ version'[s] = IF s \in S THEN version[s] + 1 ELSE version[s]
            /\ booked_order_id' = booked_order_id
        BY <4>1 DEF InsertHold
      <4> QED
        BY <4>2
    <3>2. hold_id[s] # o
      BY <2>1, <3>1 DEF Absent
    <3>3. CASE s \in S
      BY <2>1, <3>1, <3>2, <3>3
    <3>4. CASE s \notin S
      BY <2>1, <3>1, <3>4
    <3> QED
      BY <3>3, <3>4
  <2>4. CASE GiveUpStep
    <3>1. PICK B \in SUBSET Orders :
            /\ hold_id'[s] = IF s \in Released(B) THEN None ELSE hold_id[s]
            /\ reserved_until'[s] = IF s \in Released(B) THEN 0 ELSE reserved_until[s]
            /\ version'[s] = IF s \in Released(B) THEN version[s] + 1 ELSE version[s]
            /\ booked_order_id' = booked_order_id
      BY <2>4 DEF GiveUpStep, ReleaseSeats
    <3>2. s \in Released(B) => hold_id[s] # None
      BY DEF Released
    <3> QED
      BY <2>1, <3>1, <3>2
  <2>5. CASE SellStep
    BY <2>1, <2>5, SoldRows
  <2> QED
    BY <2>2, <2>3, <2>4, <2>5, SeatSteps
<1> QED
  BY <1>1, OwnershipInvariant, PTL DEF Spec, VersionFencesRow

-----------------------------------------------------------------------------
(* Deadlines.                                                              *)

\* No hold is expired before its deadline, whatever expiry workers scanned
\* earlier, and a success reported before it is never turned into a refund.
THEOREM DeadlinesAreRespected == Spec => DeadlineIsRespected
<1>1. OwnershipInv /\ [Next]_vars =>
        [\A o \in Orders : hold_status[o] = "ACTIVE" /\ expires_at[o] > clock =>
           hold_status'[o] # "EXPIRED" /\ order_status'[o] # "REFUND_PENDING"]_vars
  <2> SUFFICES ASSUME OwnershipInv, [Next]_vars, NEW o \in Orders,
                      hold_status[o] = "ACTIVE", expires_at[o] > clock
               PROVE  hold_status'[o] # "EXPIRED" /\ order_status'[o] # "REFUND_PENDING"
    OBVIOUS
  <2>1. TypeOK /\ order_status[o] = "PENDING"
    BY DEF OwnershipInv, OwnedRows, RowsAgree
  <2>2. CASE UNCHANGED <<hold_status, order_status>>
    BY <2>1, <2>2
  <2>3. ASSUME NEW a \in Actors, NEW p \in Orders, NEW S, NEW d, InsertHold(a, p, S, d)
        PROVE  hold_status'[o] # "EXPIRED" /\ order_status'[o] # "REFUND_PENDING"
    BY <2>1, <2>3 DEF InsertHold, TypeOK
  <2>4. ASSUME NEW a \in Actors, NEW p \in Orders, release(a, p)
        PROVE  hold_status'[o] # "EXPIRED" /\ order_status'[o] # "REFUND_PENDING"
    BY <2>1, <2>4 DEF release, ReleaseHolds, ReleaseOrders
  <2>5. ASSUME NEW w \in ExpiryWorkers, NEW B \in SUBSET Orders, expire_batch(w, B)
        PROVE  hold_status'[o] # "EXPIRED" /\ order_status'[o] # "REFUND_PENDING"
    <3>0. SeatTypes
      BY <2>1, SeatTypesOK
    <3>1. o \notin B
      BY <2>5, <3>0 DEF expire_batch, OwnershipInv, OwnedRows, ScansAreOverdue, SeatTypes
    <3> QED
      BY <2>1, <2>5, <3>1 DEF expire_batch, ReleaseHolds, ReleaseOrders
  <2>6. ASSUME NEW c \in CallbackIds, NEW p \in Orders, NEW outcome \in Outcomes,
               NEW t \in ReadTimes, callback(c, p, outcome, t)
        PROVE  hold_status'[o] # "EXPIRED" /\ order_status'[o] # "REFUND_PENDING"
    <3>1. CASE KeepOrder
      BY <2>2, <3>1 DEF KeepOrder
    <3>2. CASE Book(p) \/ Fail(p)
      BY <2>1, <3>2 DEF Book, Fail, ReleaseHolds, TypeOK
    <3>3. CASE /\ payment_decision(order_status[p], ValidHold(p, t), outcome) = "REFUND"
               /\ Refund(p)
      <4>1. p # o
        <5>1. t \in Nat /\ t <= clock /\ clock \in Nat /\ expires_at[o] \in Nat
          BY <2>1, ReadTimesAreNat DEF TypeOK
        <5>2. /\ order_items[o] # {}
              /\ \A s \in order_items[o] : s \in Seats /\ hold_id[s] = o
                                             /\ reserved_until[s] = expires_at[o]
          <6>1. order_items[o] # {}
            BY <2>1 DEF OwnershipInv, OwnedRows, RowsAgree, Absent
          <6>2. order_items[o] \subseteq Seats
            BY <2>1, SeatTypesOK DEF SeatTypes
          <6>3. LiveHoldOwnsItsSeats
            BY DEF OwnershipInv, OwnedRows
          <6> QED
            BY <6>1, <6>2, <6>3 DEF LiveHoldOwnsItsSeats
        <5>3. \A s \in order_items[o] : booked_order_id[s] = None
          BY <5>2 DEF OwnershipInv, OwnedRows, HeldSeatsAreRecoverable
        <5>4. ValidHold(o, t)
          BY <5>1, <5>2, <5>3 DEF ValidHold
        <5> QED
          BY <2>1, <3>3, <5>4 DEF payment_decision
      <4> QED
        BY <2>1, <3>3, <4>1 DEF Refund, ReleaseHolds, TypeOK
    <3> QED
      BY <2>6, <3>1, <3>2, <3>3 DEF callback, Settle
  <2>7. ASSUME NEW p \in Orders, consume_event(p)
        PROVE  hold_status'[o] # "EXPIRED" /\ order_status'[o] # "REFUND_PENDING"
    BY <2>1, <2>7 DEF consume_event, consume_OrderPaid, consume_RefundRequested,
       consume_TicketsIssued, TypeOK
  <2>8. \/ Tick \/ \E w \in ExpiryWorkers : expire_scan(w)
        \/ \E a \in Actors, p \in Orders, k \in OrderKeys, t \in ReadTimes : checkout(a, p, k, t)
        \/ \E a \in Actors, p \in Orders, k \in PaymentKeys, t \in ReadTimes :
             initiate_payment(a, p, k, t)
        \/ UNCHANGED vars
        => UNCHANGED <<hold_status, order_status>>
    BY DEF Tick, expire_scan, checkout, initiate_payment, vars
  <2>9. ASSUME NEW a \in Actors, NEW S \in SeatRequests, NEW k \in HoldKeys,
               NEW t \in ReadTimes, NEW p \in Orders \ Commands, reserve(a, S, k, p, t)
        PROVE  hold_status'[o] # "EXPIRED" /\ order_status'[o] # "REFUND_PENDING"
    BY <2>3, <2>9 DEF reserve
  <2>10. ASSUME NEW a \in Actors, NEW S \in SeatRequests, NEW k \in HoldKeys,
                NEW t \in ReadTimes, NEW p \in Commands,
                NEW expires \in 1..(t + HoldSeconds),
                persist_reservation_command(a, S, k, p, expires, t)
         PROVE  hold_status'[o] # "EXPIRED" /\ order_status'[o] # "REFUND_PENDING"
    BY <2>3, <2>10 DEF persist_reservation_command
  <2> QED
    BY <2>2, <2>4, <2>5, <2>6, <2>7, <2>8, <2>9, <2>10 DEF Next
<1> QED
  BY <1>1, OwnershipInvariant, PTL DEF Spec, DeadlineIsRespected

-----------------------------------------------------------------------------
(* The ledger implements SeatOwnership.                                    *)

\* Each way of changing the seat rows is a step of the abstract promise.
LEMMA StepRefines ==
  OwnershipInv /\ [Next]_vars => [Ownership!ONext]_(Ownership!ownershipVars)
<1> SUFFICES ASSUME OwnershipInv, [Next]_vars
             PROVE  Ownership!ONext \/ UNCHANGED Ownership!ownershipVars
  BY DEF Ownership!ownershipVars
<1>0. TypeOK /\ RowsAgree /\ HeldSeatsAreRecoverable
  BY DEF OwnershipInv, OwnedRows
<1>1. CASE KeepStep
  <2>1. CASE clock' = clock
    BY <1>1, <2>1 DEF KeepStep, seatVars, Ownership!ownershipVars
  <2>2. CASE clock' = clock + 1
    BY <1>1, <2>2 DEF KeepStep, seatVars, Ownership!ONext, Ownership!Advance
  <2> QED
    BY <1>1, <2>1, <2>2 DEF KeepStep
<1>2. CASE GrantStep
  <2>1. PICK a \in Actors, o \in Orders, S \in SeatRequests, d \in 1..(clock + HoldSeconds) :
          /\ InsertHold(a, o, S, d)
          /\ \A s \in S : booked_order_id[s] = None /\ reserved_until[s] <= clock
    BY <1>2 DEF GrantStep
  <2>2. order_items[o] = {} /\ S # {} /\ S \in SUBSET Seats
    BY <1>0, <2>1 DEF InsertHold, RowsAgree, SeatRequests
  <2>3. Ownership!Grant(o, S, d)
    BY <2>1, <2>2 DEF InsertHold, Ownership!Grant
  <2> QED
    BY <2>2, <2>3 DEF Ownership!ONext
<1>3. CASE GiveUpStep
  <2>1. PICK B \in SUBSET Orders : ReleaseSeats(B)
    BY <1>3 DEF GiveUpStep
  <2>2. \A s \in Seats : s \in Released(B) <=> hold_id[s] \in B
    BY <1>0 DEF Released, HeldSeatsAreRecoverable
  <2>3. Ownership!GiveUp(B)
    BY <1>3, <2>1, <2>2 DEF GiveUpStep, ReleaseSeats, Ownership!GiveUp
  <2> QED
    BY <2>3 DEF Ownership!ONext
<1>4. CASE SellStep
  <2>1. PICK o \in Orders, t \in ReadTimes : ValidHold(o, t) /\ Book(o)
    BY <1>4 DEF SellStep
  <2>2. \A s \in Seats : hold_id[s] = o <=> s \in order_items[o]
    BY <1>0, <2>1 DEF ValidHold, HeldSeatsAreRecoverable
  <2>3. \A s \in order_items[o] : reserved_until[s] + MaxLag > clock
    <3> SUFFICES ASSUME NEW s \in order_items[o] PROVE reserved_until[s] + MaxLag > clock
      OBVIOUS
    <3>1. clock \in Nat /\ reserved_until[s] \in Nat
      BY <1>0, SeatTypesOK DEF SeatTypes
    <3>2. reserved_until[s] > t
      BY <2>1 DEF ValidHold
    <3>3. t \in Nat /\ clock <= t + MaxLag /\ MaxLag \in Nat
      BY <3>1, TimeAssumption DEF ReadTimes
    <3> QED
      BY <3>1, <3>2, <3>3
  <2>4. /\ order_items[o] # {}
        /\ \A s \in order_items[o] : hold_id[s] = o /\ reserved_until[s] + MaxLag > clock
    BY <2>1, <2>3 DEF ValidHold
  <2>5. /\ hold_id' = [s \in Seats |-> IF s \in order_items[o] THEN None ELSE hold_id[s]]
        /\ reserved_until' = [s \in Seats |-> IF s \in order_items[o] THEN 0 ELSE reserved_until[s]]
        /\ booked_order_id' =
             [s \in Seats |-> IF s \in order_items[o] THEN o ELSE booked_order_id[s]]
    BY <2>1, <2>2 DEF Book
  <2>6. UNCHANGED <<clock, order_items>>
    BY <1>4 DEF SellStep
  <2>7. Ownership!Sell(o)
    BY <2>4, <2>5, <2>6 DEF Ownership!Sell
  <2> QED
    BY <2>7 DEF Ownership!ONext
<1> QED
  BY <1>1, <1>2, <1>3, <1>4, SeatSteps

\* Every behaviour of the transactions is, on the seat rows, a behaviour of
\* SeatOwnership: grants of free seats, give-ups, and whole-basket sales made
\* in time.
THEOREM LedgerImplementsOwnership == Spec => ImplementsOwnership
<1>1. Init => Ownership!OInit
  BY DEF Init, Ownership!OInit
<1> QED
  BY <1>1, StepRefines, OwnershipInvariant, PTL
  DEF Spec, ImplementsOwnership, Ownership!OSpec
=============================================================================
