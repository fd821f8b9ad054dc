------------------------ MODULE Reservations_proofs -------------------------
(***************************************************************************)
(* Types and seat ownership of Reservations, for any sets of seats, orders, *)
(* actors and workers.  OwnershipInv is the inductive invariant: the four   *)
(* ownership properties, strengthened by RowsAgree (the rows of one order   *)
(* agree with each other) and ScansAreOverdue (what a stale expiry snapshot *)
(* still guarantees).                                                       *)
(***************************************************************************)
EXTENDS Reservations, TLAPS

USE NoneAssumption, CommandAssumption, TimeAssumption

\* Freshly migrated and seeded tables are well typed.
LEMMA InitTypeOK == Init => TypeOK
BY DEF Init, TypeOK, EventTypes

\* A transaction reads an instant that is not in the future.
LEMMA ReadTimesAreNat ==
  ASSUME TypeOK, NEW t \in ReadTimes
  PROVE  t \in Nat /\ t <= clock
BY DEF TypeOK, ReadTimes

\* The inserts of a new hold and order.
LEMMA InsertHoldTypeOK ==
  ASSUME TypeOK, NEW a \in Actors, NEW o \in Orders, NEW S \in SUBSET Seats,
         NEW expires \in Nat, InsertHold(a, o, S, expires),
         idem_hold' \in [Actors -> [HoldKeys -> HoldReplies \cup {None}]],
         reservation_commands' \in SUBSET Commands,
         UNCHANGED <<idem_order, idem_payment>>
  PROVE  TypeOK'
BY DEF TypeOK, InsertHold, SeatsChanged, HoldStates, OrderStates, moneyVars,
       saleVars, streamVars

\* _release keeps the seat and hold rows well typed.
LEMMA ReleaseTypeOK ==
  ASSUME TypeOK, NEW B \in SUBSET Orders, NEW state \in HoldStates,
         ReleaseSeats(B), ReleaseHolds(B, state)
  PROVE  /\ hold_id' \in [Seats -> Orders \cup {None}]
         /\ reserved_until' \in [Seats -> Nat]
         /\ booked_order_id' \in [Seats -> Orders \cup {None}]
         /\ version' \in [Seats -> Nat]
         /\ hold_status' \in [Orders -> HoldStates \cup {Absent}]
BY DEF TypeOK, ReleaseSeats, ReleaseHolds

\* expire_batch.
LEMMA expire_batchTypeOK ==
  ASSUME TypeOK, NEW w \in ExpiryWorkers, NEW B \in SUBSET Orders,
         expire_batch(w, B)
  PROVE  TypeOK'
<1>1. "EXPIRED" \in HoldStates
  BY DEF HoldStates
<1>2. ReleaseSeats(B) /\ ReleaseHolds(B, "EXPIRED")
  BY DEF expire_batch
<1> QED
  BY ReleaseTypeOK, <1>1, <1>2
  DEF TypeOK, expire_batch, ReleaseOrders, SeatsChanged, OrderStates, factVars,
      moneyVars, saleVars, streamVars, idemVars

\* release.
LEMMA releaseTypeOK ==
  ASSUME TypeOK, NEW a \in Actors, NEW o \in Orders, release(a, o)
  PROVE  TypeOK'
<1>1. "RELEASED" \in HoldStates /\ {o} \in SUBSET Orders
  BY DEF HoldStates
<1>2. ReleaseSeats({o}) /\ ReleaseHolds({o}, "RELEASED")
  BY DEF release
<1> QED
  BY ReleaseTypeOK, <1>1, <1>2
  DEF TypeOK, release, ReleaseOrders, SeatsChanged, OrderStates, factVars,
      moneyVars, saleVars, streamVars, idemVars

\* reserve.
LEMMA reserveTypeOK ==
  ASSUME TypeOK, NEW a \in Actors, NEW S \in SUBSET Seats, NEW k \in HoldKeys,
         NEW o \in Orders, NEW t \in ReadTimes, reserve(a, S, k, o, t)
  PROVE  TypeOK'
<1>1. t + HoldSeconds \in Nat
  BY ReadTimesAreNat
<1>2. InsertHold(a, o, S, t + HoldSeconds)
  BY DEF reserve
<1>3. idem_hold' \in [Actors -> [HoldKeys -> HoldReplies \cup {None}]]
  BY DEF reserve, TypeOK, HoldReplies
<1>4. reservation_commands' \in SUBSET Commands /\ UNCHANGED <<idem_order, idem_payment>>
  BY DEF reserve, TypeOK
<1> QED
  BY InsertHoldTypeOK, <1>1, <1>2, <1>3, <1>4

\* persist_reservation_command.
LEMMA persistTypeOK ==
  ASSUME TypeOK, NEW a \in Actors, NEW S \in SUBSET Seats, NEW k \in HoldKeys,
         NEW o \in Commands, NEW t \in ReadTimes,
         NEW expires \in 1..(t + HoldSeconds),
         persist_reservation_command(a, S, k, o, expires, t)
  PROVE  TypeOK'
<1>1. expires \in Nat /\ o \in Orders
  BY ReadTimesAreNat
<1>2. InsertHold(a, o, S, expires)
  BY DEF persist_reservation_command
<1>3. idem_hold' \in [Actors -> [HoldKeys -> HoldReplies \cup {None}]]
  BY <1>1 DEF persist_reservation_command, TypeOK, HoldReplies
<1>4. reservation_commands' \in SUBSET Commands /\ UNCHANGED <<idem_order, idem_payment>>
  BY DEF persist_reservation_command, TypeOK
<1> QED
  BY InsertHoldTypeOK, <1>1, <1>2, <1>3, <1>4

\* checkout.
LEMMA checkoutTypeOK ==
  ASSUME TypeOK, NEW a \in Actors, NEW o \in Orders, NEW k \in OrderKeys,
         NEW t \in ReadTimes, checkout(a, o, k, t)
  PROVE  TypeOK'
<1>1. [order |-> o, status |-> order_status[o]] \in OrderReplies
  BY DEF checkout, TypeOK, OrderReplies
<1> QED
  BY <1>1 DEF TypeOK, checkout, seatVars, factVars, moneyVars, saleVars, streamVars

\* initiate_payment.
LEMMA initiate_paymentTypeOK ==
  ASSUME TypeOK, NEW a \in Actors, NEW o \in Orders, NEW k \in PaymentKeys,
         NEW t \in ReadTimes, initiate_payment(a, o, k, t)
  PROVE  TypeOK'
BY DEF TypeOK, initiate_payment, seatVars, factVars, saleVars, streamVars

\* What Settle leaves well typed, for each decision.
LEMMA SettleTypeOK ==
  ASSUME TypeOK, NEW o \in Orders, NEW t \in ReadTimes, NEW outcome \in Outcomes,
         Settle(o, t, outcome) \/ KeepOrder
  PROVE  /\ hold_id' \in [Seats -> Orders \cup {None}]
         /\ reserved_until' \in [Seats -> Nat]
         /\ booked_order_id' \in [Seats -> Orders \cup {None}]
         /\ version' \in [Seats -> Nat]
         /\ hold_status' \in [Orders -> HoldStates \cup {Absent}]
         /\ order_status' \in [Orders -> OrderStates \cup {Absent}]
         /\ bookings' \in SUBSET (Seats \X Orders)
         /\ refund_requests' \in [Orders -> {"PENDING", "REFUNDED", Absent}]
         /\ outbox_events' \in [EventTypes -> [Orders -> Nat]]
<1>0. "EXPIRED" \in HoldStates /\ "RELEASED" \in HoldStates /\ {o} \in SUBSET Orders
  BY DEF HoldStates
<1>1. CASE Book(o)
  BY <1>1 DEF Book, event, TypeOK, HoldStates, OrderStates, EventTypes
<1>2. CASE Refund(o)
  <2>1. /\ hold_id' \in [Seats -> Orders \cup {None}]
        /\ reserved_until' \in [Seats -> Nat]
        /\ booked_order_id' \in [Seats -> Orders \cup {None}]
        /\ version' \in [Seats -> Nat]
        /\ hold_status' \in [Orders -> HoldStates \cup {Absent}]
    BY <1>0, <1>2, ReleaseTypeOK DEF Refund
  <2>2. refund_requests' \in [Orders -> {"PENDING", "REFUNDED", Absent}]
    BY <1>2 DEF Refund, TypeOK
  <2>3. outbox_events' \in [EventTypes -> [Orders -> Nat]]
    BY <1>2 DEF Refund, event, TypeOK, EventTypes
  <2> QED
    BY <1>2, <2>1, <2>2, <2>3 DEF Refund, TypeOK, OrderStates
<1>3. CASE Fail(o)
  BY <1>0, <1>3, ReleaseTypeOK DEF Fail, TypeOK, OrderStates
<1>4. CASE KeepOrder
  BY <1>4 DEF KeepOrder, TypeOK, seatVars
<1> QED
  BY <1>1, <1>2, <1>3, <1>4 DEF Settle

\* callback.
LEMMA callbackTypeOK ==
  ASSUME TypeOK, NEW c \in CallbackIds, NEW o \in Orders, NEW outcome \in Outcomes,
         NEW t \in ReadTimes, callback(c, o, outcome, t)
  PROVE  TypeOK'
<1>1. Settle(o, t, outcome) \/ KeepOrder
  BY DEF callback
<1>2. announced' \in [Seats -> Nat]
  BY <1>1, SettleTypeOK DEF TypeOK, callback, SeatsChanged
<1>3. payment_status' \in [Orders -> Outcomes \cup {"PENDING", Absent}]
  BY DEF TypeOK, callback
<1> QED
  BY <1>1, <1>2, <1>3, SettleTypeOK DEF TypeOK, callback, factVars, idemVars

\* consume_event.
LEMMA consume_eventTypeOK ==
  ASSUME TypeOK, NEW o \in Orders, consume_event(o)
  PROVE  TypeOK'
<1>1. CASE consume_OrderPaid(o)
  BY <1>1 DEF consume_OrderPaid, Receive, BookingsOf, event, TypeOK, OrderStates,
     EventTypes, seatVars, factVars, moneyVars, idemVars
<1>2. CASE consume_RefundRequested(o)
  BY <1>2 DEF consume_RefundRequested, Receive, TypeOK, OrderStates, EventTypes,
     seatVars, factVars, saleVars, idemVars
<1>3. CASE consume_TicketsIssued(o)
  BY <1>3 DEF consume_TicketsIssued, Receive, TypeOK, EventTypes, seatVars, factVars,
     moneyVars, saleVars, idemVars
<1> QED
  BY <1>1, <1>2, <1>3 DEF consume_event

\* Every committed transaction keeps the tables well typed.
LEMMA NextTypeOK == TypeOK /\ [Next]_vars => TypeOK'
<1> SUFFICES ASSUME TypeOK, [Next]_vars PROVE TypeOK'
  OBVIOUS
<1>1. CASE Tick
  BY <1>1 DEF Tick, TypeOK, seatVars, factVars, moneyVars, saleVars, streamVars, idemVars
<1>2. CASE \E w \in ExpiryWorkers : expire_scan(w)
  BY <1>2 DEF expire_scan, Overdue, TypeOK, seatVars, factVars, moneyVars, saleVars,
     streamVars, idemVars
<1>3. CASE UNCHANGED vars
  BY <1>3 DEF vars, TypeOK, seatVars, factVars, moneyVars, saleVars, streamVars, idemVars
<1> QED
  BY <1>1, <1>2, <1>3, reserveTypeOK, persistTypeOK, checkoutTypeOK, releaseTypeOK,
     expire_batchTypeOK, initiate_paymentTypeOK, callbackTypeOK, consume_eventTypeOK
  DEF Next, SeatRequests

\* Every variable keeps its type in every reachable state.
THEOREM TypeCorrect == Spec => []TypeOK
BY InitTypeOK, NextTypeOK, PTL DEF Spec

-----------------------------------------------------------------------------
(* The inductive invariant.                                                *)

\* How the tables of one order depend on each other: the conjuncts that make
\* the safety properties inductive.
RowsAgree ==
  /\ \A s \in Seats : hold_id[s] = None => reserved_until[s] = 0
  /\ \A o \in Orders :
       /\ hold_status[o] = Absent <=> order_status[o] = Absent
       /\ hold_status[o] = "ACTIVE" <=> order_status[o] = "PENDING"
       /\ hold_status[o] = "CONSUMED" <=> Paid(o)
       /\ order_status[o] = Absent <=> order_items[o] = {}
       /\ order_status[o] = Absent =>
            payment_status[o] = Absent /\ refund_requests[o] = Absent

\* A scanned order exists and its deadline has passed, however stale the scan.
ScansAreOverdue ==
  \A w \in ExpiryWorkers : \A o \in scanned[w] :
    order_status[o] # Absent /\ expires_at[o] <= clock

\* Ownership: who holds and who bought each seat.
OwnedRows ==
  /\ RowsAgree /\ ScansAreOverdue
  /\ HeldSeatsAreRecoverable /\ LiveHoldOwnsItsSeats
  /\ SoldAllOrNothing /\ BookingsMatchSeats

OwnershipInv == TypeOK /\ OwnedRows

\* The part of TypeOK that ownership depends on.
SeatTypes ==
  /\ clock \in Nat
  /\ hold_id \in [Seats -> Orders \cup {None}]
  /\ reserved_until \in [Seats -> Nat]
  /\ booked_order_id \in [Seats -> Orders \cup {None}]
  /\ hold_status \in [Orders -> HoldStates \cup {Absent}]
  /\ expires_at \in [Orders -> Nat]
  /\ order_status \in [Orders -> OrderStates \cup {Absent}]
  /\ order_items \in [Orders -> SUBSET Seats]
  /\ scanned \in [ExpiryWorkers -> SUBSET Orders]
  /\ bookings \in SUBSET (Seats \X Orders)

\* A well-typed ledger has well-typed seats.
LEMMA SeatTypesOK == TypeOK => SeatTypes
BY DEF TypeOK, SeatTypes

(* What the steps below need to know about the other tables.               *)

\* No order is paid for, ended or created.
StatusesKept ==
  \A p \in Orders :
    /\ order_status'[p] = "PENDING" <=> order_status[p] = "PENDING"
    /\ order_status'[p] = Absent <=> order_status[p] = Absent
    /\ Paid(p)' <=> Paid(p)

\* The orders of B are no longer pending; no order is paid for or created.
StatusesEnded(B) ==
  \A p \in Orders :
    /\ order_status'[p] = "PENDING" <=> order_status[p] = "PENDING" /\ p \notin B
    /\ order_status'[p] = Absent <=> order_status[p] = Absent
    /\ Paid(p)' <=> Paid(p)

\* Only existing orders have a payment or a refund.
MoneyFollowsOrders ==
  \A p \in Orders : order_status[p] = Absent =>
    payment_status'[p] = Absent /\ refund_requests'[p] = Absent

\* Scans find overdue orders only.
ScansGrowByOverdue ==
  \A w \in ExpiryWorkers : \A p \in scanned'[w] : p \in scanned[w] \/ p \in Overdue

\* Nothing is held or sold at first.
LEMMA InitOwnership == Init => OwnershipInv
<1> SUFFICES ASSUME Init PROVE OwnershipInv
  OBVIOUS
<1>1. TypeOK
  BY InitTypeOK
<1>2. RowsAgree /\ ScansAreOverdue /\ HeldSeatsAreRecoverable /\ LiveHoldOwnsItsSeats
  BY DEF Init, RowsAgree, ScansAreOverdue, HeldSeatsAreRecoverable,
     LiveHoldOwnsItsSeats, Paid, Absent
<1>3. SoldAllOrNothing /\ BookingsMatchSeats
  BY DEF Init, SoldAllOrNothing, BookingsMatchSeats, SoldTo, Paid, Absent
<1> QED
  BY <1>1, <1>2, <1>3 DEF OwnershipInv, OwnedRows

\* A new hold on seats that are unsold and past their deadline.
LEMMA InsertHoldOwnership ==
  ASSUME SeatTypes, OwnedRows, NEW a \in Actors, NEW o \in Orders,
         NEW S \in SUBSET Seats, S # {}, NEW expires \in Nat,
         \A s \in S : booked_order_id[s] = None /\ reserved_until[s] <= clock,
         InsertHold(a, o, S, expires)
  PROVE  OwnedRows'
<1> USE DEF OwnedRows
<1>0. \A s \in Seats : hold_id[s] # o
  BY DEF InsertHold, HeldSeatsAreRecoverable, Absent
<1>1. RowsAgree'
  BY DEF InsertHold, RowsAgree, SeatTypes, Paid, Absent, moneyVars
<1>2. ScansAreOverdue'
  BY DEF InsertHold, ScansAreOverdue, SeatTypes, Absent
<1>3. HeldSeatsAreRecoverable'
  <2> SUFFICES ASSUME NEW s \in Seats, hold_id'[s] # None
               PROVE  /\ hold_status'[hold_id'[s]] = "ACTIVE"
                      /\ order_status'[hold_id'[s]] = "PENDING"
                      /\ s \in order_items'[hold_id'[s]]
                      /\ reserved_until'[s] = expires_at'[hold_id'[s]]
                      /\ booked_order_id'[s] = None
    BY DEF HeldSeatsAreRecoverable
  <2>1. CASE s \in S
    BY <2>1 DEF InsertHold, SeatTypes
  <2>2. CASE s \notin S
    <3>1. hold_id'[s] = hold_id[s] /\ hold_id[s] # None /\ hold_id[s] # o
      BY <1>0, <2>2 DEF InsertHold
    <3>2. /\ hold_status'[hold_id[s]] = hold_status[hold_id[s]]
          /\ order_status'[hold_id[s]] = order_status[hold_id[s]]
          /\ order_items'[hold_id[s]] = order_items[hold_id[s]]
          /\ expires_at'[hold_id[s]] = expires_at[hold_id[s]]
      BY <3>1 DEF InsertHold, SeatTypes
    <3>3. reserved_until'[s] = reserved_until[s] /\ booked_order_id' = booked_order_id
      BY <2>2 DEF InsertHold
    <3> QED
      BY <3>1, <3>2, <3>3 DEF HeldSeatsAreRecoverable
  <2> QED
    BY <2>1, <2>2
<1>4. LiveHoldOwnsItsSeats'
  <2> SUFFICES ASSUME NEW p \in Orders, hold_status'[p] = "ACTIVE",
                      expires_at'[p] > clock, NEW s \in order_items'[p]
               PROVE  hold_id'[s] = p /\ reserved_until'[s] = expires_at'[p]
    BY DEF LiveHoldOwnsItsSeats, InsertHold
  <2>1. CASE p = o
    BY <2>1 DEF InsertHold, SeatTypes
  <2>2. CASE p # o
    <3>1. /\ s \in order_items[p] /\ s \in Seats
          /\ hold_id[s] = p /\ reserved_until[s] = expires_at[p]
          /\ expires_at[p] > clock
      BY <2>2 DEF InsertHold, LiveHoldOwnsItsSeats, SeatTypes
    <3>2. s \notin S
      BY <3>1 DEF SeatTypes
    <3> QED
      BY <2>2, <3>1, <3>2 DEF InsertHold, SeatTypes
  <2> QED
    BY <2>1, <2>2
<1>5. SoldAllOrNothing'
  <2>1. \A p \in Orders : (Paid(p)' <=> Paid(p)) /\ (Paid(p) => p # o)
    BY DEF InsertHold, Paid, SeatTypes, Absent
  <2>2. \A p \in Orders : Paid(p) => order_items'[p] = order_items[p]
    BY <2>1 DEF InsertHold, SeatTypes
  <2>3. booked_order_id' = booked_order_id
    BY DEF InsertHold
  <2> QED
    BY <2>1, <2>2, <2>3 DEF SoldAllOrNothing, SoldTo
<1>6. BookingsMatchSeats'
  BY DEF InsertHold, BookingsMatchSeats, saleVars
<1> QED
  BY <1>1, <1>2, <1>3, <1>4, <1>5, <1>6

\* The orders of B give up what they hold.
LEMMA ReleaseOwnership ==
  ASSUME SeatTypes, OwnedRows, NEW B \in SUBSET Orders,
         NEW state \in {"RELEASED", "EXPIRED"},
         ReleaseSeats(B), ReleaseHolds(B, state), StatusesEnded(B),
         UNCHANGED <<clock, expires_at, order_items, bookings>>,
         \A w \in ExpiryWorkers : scanned'[w] \subseteq scanned[w],
         MoneyFollowsOrders
  PROVE  OwnedRows'
<1> USE DEF OwnedRows
<1>1. RowsAgree'
  <2>1. \A s \in Seats : hold_id'[s] = None => reserved_until'[s] = 0
    BY DEF ReleaseSeats, RowsAgree, SeatTypes
  <2>2. ASSUME NEW p \in Orders
        PROVE  /\ hold_status'[p] = Absent <=> order_status'[p] = Absent
               /\ hold_status'[p] = "ACTIVE" <=> order_status'[p] = "PENDING"
               /\ hold_status'[p] = "CONSUMED" <=> Paid(p)'
               /\ order_status'[p] = Absent <=> order_items'[p] = {}
    BY DEF ReleaseHolds, RowsAgree, StatusesEnded, Absent
  <2>3. \A p \in Orders : order_status'[p] = Absent =>
          payment_status'[p] = Absent /\ refund_requests'[p] = Absent
    BY DEF StatusesEnded, MoneyFollowsOrders
  <2> QED
    BY <2>1, <2>2, <2>3 DEF RowsAgree
<1>2. ScansAreOverdue'
  BY DEF ScansAreOverdue, StatusesEnded, SeatTypes
<1>3. HeldSeatsAreRecoverable'
  <2> SUFFICES ASSUME NEW s \in Seats, hold_id'[s] # None
               PROVE  /\ hold_status'[hold_id'[s]] = "ACTIVE"
                      /\ order_status'[hold_id'[s]] = "PENDING"
                      /\ s \in order_items'[hold_id'[s]]
                      /\ reserved_until'[s] = expires_at'[hold_id'[s]]
                      /\ booked_order_id'[s] = None
    BY DEF HeldSeatsAreRecoverable
  <2>1. /\ s \notin Released(B) /\ hold_id'[s] = hold_id[s]
        /\ reserved_until'[s] = reserved_until[s] /\ booked_order_id'[s] = booked_order_id[s]
    BY DEF ReleaseSeats
  <2>0. hold_id[s] \in Orders \cup {None}
    BY DEF SeatTypes
  <2>2. hold_id[s] \in Orders /\ hold_id[s] # None /\ booked_order_id[s] = None
    BY <2>0, <2>1 DEF HeldSeatsAreRecoverable
  <2>3. hold_id[s] \notin B
    BY <2>1, <2>2 DEF Released
  <2>4. /\ hold_status'[hold_id[s]] = hold_status[hold_id[s]]
        /\ order_status[hold_id[s]] = "PENDING" => order_status'[hold_id[s]] = "PENDING"
    BY <2>2, <2>3 DEF ReleaseHolds, StatusesEnded
  <2> QED
    BY <2>1, <2>2, <2>4 DEF HeldSeatsAreRecoverable
<1>4. LiveHoldOwnsItsSeats'
  <2>0. LiveHoldOwnsItsSeats /\ \A p \in Orders : order_items[p] \subseteq Seats
    BY DEF SeatTypes
  <2> HIDE DEF OwnedRows
  <2> SUFFICES ASSUME NEW p \in Orders, hold_status'[p] = "ACTIVE",
                      expires_at[p] > clock, NEW s \in order_items[p]
               PROVE  hold_id'[s] = p /\ reserved_until'[s] = expires_at[p]
    BY DEF LiveHoldOwnsItsSeats
  <2>1. p \notin B /\ hold_status[p] = "ACTIVE"
    BY DEF ReleaseHolds
  <2>2. s \in Seats /\ hold_id[s] = p /\ reserved_until[s] = expires_at[p]
    BY <2>0, <2>1 DEF LiveHoldOwnsItsSeats
  <2> QED
    BY <2>1, <2>2 DEF ReleaseSeats, Released
<1>5. SoldAllOrNothing'
  <2>1. \A p \in Orders : SoldTo(p)' = SoldTo(p) /\ (Paid(p)' <=> Paid(p))
    BY DEF ReleaseSeats, SoldTo, StatusesEnded
  <2> QED
    BY <2>1 DEF SoldAllOrNothing
<1>6. BookingsMatchSeats'
  BY DEF ReleaseSeats, BookingsMatchSeats
<1> QED
  BY <1>1, <1>2, <1>3, <1>4, <1>5, <1>6

\* A sale of a hold that is valid at an instant not later than the clock.
LEMMA BookOwnership ==
  ASSUME SeatTypes, OwnedRows, NEW o \in Orders, NEW t \in ReadTimes,
         ValidHold(o, t), Book(o), order_status[o] = "PENDING",
         UNCHANGED <<clock, expires_at, order_items, scanned>>,
         MoneyFollowsOrders
  PROVE  OwnedRows'
<1> USE DEF OwnedRows
<1>0. \A s \in Seats : hold_id[s] = o <=> s \in order_items[o]
  BY DEF ValidHold, HeldSeatsAreRecoverable
<1>00. /\ order_status' = [order_status EXCEPT ![o] = "PAID"]
       /\ hold_status' = [hold_status EXCEPT ![o] = "CONSUMED"]
  BY DEF Book
<1>1. RowsAgree'
  <2>1. \A s \in Seats : hold_id'[s] = None => reserved_until'[s] = 0
    BY DEF Book, RowsAgree
  <2>2. ASSUME NEW p \in Orders
        PROVE  /\ hold_status'[p] = Absent <=> order_status'[p] = Absent
               /\ hold_status'[p] = "ACTIVE" <=> order_status'[p] = "PENDING"
               /\ hold_status'[p] = "CONSUMED" <=> Paid(p)'
               /\ order_status'[p] = Absent <=> order_items'[p] = {}
               /\ order_status'[p] = Absent =>
                    payment_status'[p] = Absent /\ refund_requests'[p] = Absent
    BY <1>00 DEF RowsAgree, Paid, Absent, MoneyFollowsOrders, SeatTypes
  <2> QED
    BY <2>1, <2>2 DEF RowsAgree
<1>2. ScansAreOverdue'
  BY <1>00 DEF ScansAreOverdue, SeatTypes, Absent
<1>3. HeldSeatsAreRecoverable'
  <2> SUFFICES ASSUME NEW s \in Seats, hold_id'[s] # None
               PROVE  /\ hold_status'[hold_id'[s]] = "ACTIVE"
                      /\ order_status'[hold_id'[s]] = "PENDING"
                      /\ s \in order_items'[hold_id'[s]]
                      /\ reserved_until'[s] = expires_at'[hold_id'[s]]
                      /\ booked_order_id'[s] = None
    BY DEF HeldSeatsAreRecoverable
  <2>1. /\ hold_id[s] # o /\ hold_id'[s] = hold_id[s]
        /\ reserved_until'[s] = reserved_until[s] /\ booked_order_id'[s] = booked_order_id[s]
    BY DEF Book
  <2>2. hold_id[s] \in Orders
    BY <2>1 DEF SeatTypes
  <2> QED
    BY <1>00, <2>1, <2>2 DEF HeldSeatsAreRecoverable, SeatTypes
<1>4. LiveHoldOwnsItsSeats'
  <2> SUFFICES ASSUME NEW p \in Orders, hold_status'[p] = "ACTIVE",
                      expires_at[p] > clock, NEW s \in order_items[p]
               PROVE  hold_id'[s] = p /\ reserved_until'[s] = expires_at[p]
    BY DEF LiveHoldOwnsItsSeats
  <2>1. p # o /\ hold_status[p] = "ACTIVE"
    BY <1>00 DEF SeatTypes
  <2>2. s \in Seats /\ hold_id[s] = p /\ reserved_until[s] = expires_at[p]
    BY <2>1 DEF LiveHoldOwnsItsSeats, SeatTypes
  <2> QED
    BY <2>1, <2>2 DEF Book
<1>5. SoldAllOrNothing'
  <2> SUFFICES ASSUME NEW p \in Orders
               PROVE  SoldTo(p)' = IF Paid(p)' THEN order_items[p] ELSE {}
    BY DEF SoldAllOrNothing
  <2>1. \A s \in Seats : s \in order_items[o] => booked_order_id[s] = None
    BY DEF ValidHold
  <2>2. \A s \in Seats : booked_order_id'[s] =
          IF s \in order_items[o] THEN o ELSE booked_order_id[s]
    BY <1>0 DEF Book
  <2>3. CASE p = o
    <3>1. SoldTo(o) = {} /\ Paid(o)' /\ order_items[o] \subseteq Seats
      BY <1>00 DEF SoldAllOrNothing, Paid, SeatTypes
    <3> QED
      BY <2>2, <2>3, <3>1 DEF SoldTo
  <2>4. CASE p # o
    <3>1. SoldTo(p)' = SoldTo(p)
      BY <2>1, <2>2, <2>4 DEF SoldTo
    <3>2. Paid(p)' <=> Paid(p)
      BY <1>00, <2>4 DEF Paid, SeatTypes
    <3> QED
      BY <3>1, <3>2 DEF SoldAllOrNothing
  <2> QED
    BY <2>3, <2>4
<1>6. BookingsMatchSeats'
  <2>1. bookings' = bookings \cup (order_items[o] \X {o})
    BY DEF Book
  <2>2. \A s \in Seats : booked_order_id'[s] =
          IF s \in order_items[o] THEN o ELSE booked_order_id[s]
    BY <1>0 DEF Book
  <2>3. order_items[o] \subseteq Seats /\ \A s \in order_items[o] : booked_order_id[s] = None
    BY DEF ValidHold, SeatTypes
  <2>4. /\ bookings \subseteq Seats \X Orders
        /\ \A s \in Seats, p \in Orders : <<s, p>> \in bookings <=> booked_order_id[s] = p
    BY DEF BookingsMatchSeats
  <2> HIDE DEF OwnedRows
  <2>5. bookings' \subseteq Seats \X Orders
    BY <2>1, <2>3, <2>4
  <2>6. ASSUME NEW s \in Seats, NEW p \in Orders
        PROVE  <<s, p>> \in bookings' <=> booked_order_id'[s] = p
    <3>1. <<s, p>> \in bookings' <=> <<s, p>> \in bookings \/ (s \in order_items[o] /\ p = o)
      BY <2>1
    <3>2. <<s, p>> \in bookings <=> booked_order_id[s] = p
      BY <2>4
    <3>3. CASE s \in order_items[o]
      BY <2>2, <2>3, <3>1, <3>2, <3>3
    <3>4. CASE s \notin order_items[o]
      BY <2>2, <3>1, <3>2, <3>4
    <3> QED
      BY <3>3, <3>4
  <2> QED
    BY <2>5, <2>6 DEF BookingsMatchSeats
<1> QED
  BY <1>1, <1>2, <1>3, <1>4, <1>5, <1>6

\* Steps that leave ownership alone.
LEMMA KeepOwnership ==
  ASSUME SeatTypes, OwnedRows,
         UNCHANGED <<seatVars, hold_status, expires_at, order_items, bookings>>,
         clock' \in {clock, clock + 1},
         StatusesKept, ScansGrowByOverdue, MoneyFollowsOrders
  PROVE  OwnedRows'
<1> USE DEF OwnedRows
<1>1. RowsAgree'
  BY DEF RowsAgree, StatusesKept, MoneyFollowsOrders, seatVars
<1>2. ScansAreOverdue'
  <2> SUFFICES ASSUME NEW w \in ExpiryWorkers, NEW p \in scanned'[w]
               PROVE  order_status'[p] # Absent /\ expires_at[p] <= clock'
    BY DEF ScansAreOverdue
  <2>1. p \in Orders /\ order_status[p] # Absent /\ expires_at[p] <= clock
    <3>1. CASE p \in scanned[w]
      BY <3>1 DEF ScansAreOverdue, SeatTypes
    <3>2. CASE p \in Overdue
      BY <3>2 DEF Overdue, RowsAgree, Absent
    <3> QED
      BY <3>1, <3>2 DEF ScansGrowByOverdue
  <2>2. clock \in Nat /\ expires_at[p] \in Nat
    BY <2>1 DEF SeatTypes
  <2>3. order_status'[p] # Absent
    BY <2>1 DEF StatusesKept
  <2> HIDE DEF OwnedRows
  <2>4. expires_at[p] <= clock => expires_at[p] <= clock'
    <3>1. CASE clock' = clock
      BY <3>1
    <3>2. CASE clock' = clock + 1
      BY <2>2, <3>2
    <3> QED
      BY <3>1, <3>2
  <2> QED
    BY <2>1, <2>3, <2>4
<1>3. HeldSeatsAreRecoverable'
  <2> SUFFICES ASSUME NEW s \in Seats, hold_id[s] # None
               PROVE  order_status'[hold_id[s]] = "PENDING"
    BY DEF HeldSeatsAreRecoverable, seatVars
  <2>1. hold_id[s] \in Orders /\ order_status[hold_id[s]] = "PENDING"
    BY DEF HeldSeatsAreRecoverable, SeatTypes
  <2> QED
    BY <2>1 DEF StatusesKept
<1>4. LiveHoldOwnsItsSeats'
  <2>1. \A p \in Orders : expires_at[p] > clock' => expires_at[p] > clock
    <3> SUFFICES ASSUME NEW p \in Orders, expires_at[p] > clock'
                 PROVE  expires_at[p] > clock
      OBVIOUS
    <3>1. clock \in Nat /\ expires_at[p] \in Nat
      BY DEF SeatTypes
    <3> QED
      BY <3>1
  <2> QED
    BY <2>1 DEF LiveHoldOwnsItsSeats, seatVars
<1>5. SoldAllOrNothing'
  <2>1. \A p \in Orders : SoldTo(p)' = SoldTo(p) /\ (Paid(p)' <=> Paid(p))
    BY DEF SoldTo, StatusesKept, seatVars
  <2> QED
    BY <2>1 DEF SoldAllOrNothing
<1>6. BookingsMatchSeats'
  BY DEF BookingsMatchSeats, seatVars
<1> QED
  BY <1>1, <1>2, <1>3, <1>4, <1>5, <1>6

\* A callback, for each decision.
LEMMA SettleOwnership ==
  ASSUME TypeOK, OwnedRows, NEW c \in CallbackIds, NEW o \in Orders,
         NEW outcome \in Outcomes, NEW t \in ReadTimes, callback(c, o, outcome, t)
  PROVE  OwnedRows'
<1> DEFINE decision == payment_decision(order_status[o], ValidHold(o, t), outcome)
<1>0. SeatTypes
  BY SeatTypesOK
<1>1. /\ UNCHANGED <<clock, expires_at, order_items, scanned>>
      /\ \A w \in ExpiryWorkers : scanned'[w] \subseteq scanned[w]
  BY DEF callback, factVars
<1>2. order_status[o] \in OrderStates
  BY <1>0 DEF callback, OwnedRows, RowsAgree, SeatTypes
<1>3. MoneyFollowsOrders
  <2>1. \A p \in Orders \ {o} :
          payment_status'[p] = payment_status[p] /\ refund_requests'[p] = refund_requests[p]
    BY DEF callback, Settle, Book, Refund, Fail, KeepOrder, TypeOK
  <2>2. order_status[o] # Absent
    BY <1>2 DEF OrderStates, Absent
  <2> QED
    BY <2>1, <2>2 DEF MoneyFollowsOrders, OwnedRows, RowsAgree
<1>4. CASE KeepOrder
  <2>1. /\ UNCHANGED <<seatVars, hold_status, expires_at, order_items, bookings>>
        /\ UNCHANGED order_status
    BY <1>1, <1>4 DEF KeepOrder
  <2>2. StatusesKept /\ ScansGrowByOverdue
    BY <1>1, <2>1 DEF StatusesKept, ScansGrowByOverdue, Paid
  <2> QED
    BY <1>0, <1>1, <1>3, <2>1, <2>2, KeepOwnership
<1>5. CASE decision = "BOOK" /\ Book(o)
  <2>1. ValidHold(o, t) /\ order_status[o] = "PENDING"
    BY <1>5 DEF payment_decision
  <2> QED
    BY <1>0, <1>1, <1>3, <1>5, <2>1, BookOwnership
<1>6. ASSUME NEW state \in {"RELEASED", "EXPIRED"}, ReleaseSeats({o}),
             ReleaseHolds({o}, state), UNCHANGED bookings, ~Paid(o),
             order_status' = [order_status EXCEPT ![o] = "REFUND_PENDING"]
               \/ order_status' = [order_status EXCEPT ![o] = "FAILED"]
      PROVE  OwnedRows'
  <2>1. order_status \in [Orders -> OrderStates \cup {Absent}]
    BY <1>0 DEF SeatTypes
  <2>2. StatusesEnded({o})
    BY <1>2, <1>6, <2>1 DEF StatusesEnded, Paid, OrderStates, Absent
  <2>3. {o} \in SUBSET Orders
    OBVIOUS
  <2> QED
    BY <1>0, <1>1, <1>3, <1>6, <2>2, <2>3, ReleaseOwnership
<1>7. CASE decision = "REFUND" /\ Refund(o)
  <2>1. ~Paid(o)
    BY <1>7 DEF payment_decision, Paid
  <2> QED
    BY <1>6, <1>7, <2>1 DEF Refund
<1>8. CASE decision = "FAILED" /\ Fail(o)
  <2>1. ~Paid(o)
    BY <1>8 DEF payment_decision, Paid
  <2> QED
    BY <1>6, <1>8, <2>1 DEF Fail
<1> QED
  BY <1>4, <1>5, <1>7, <1>8 DEF callback, Settle

\* Every committed transaction preserves the ownership invariant.
LEMMA NextOwnership == OwnershipInv /\ [Next]_vars => OwnershipInv'
<1> SUFFICES ASSUME OwnershipInv, [Next]_vars PROVE OwnedRows'
  BY NextTypeOK DEF OwnershipInv
<1>0. TypeOK /\ OwnedRows /\ SeatTypes
  BY SeatTypesOK DEF OwnershipInv
<1>00. \A p \in Orders : order_status[p] = Absent =>
         payment_status[p] = Absent /\ refund_requests[p] = Absent
  BY <1>0 DEF OwnedRows, RowsAgree
<1>1. ASSUME UNCHANGED <<seatVars, hold_status, expires_at, order_items, bookings,
                         order_status, refund_requests>>,
             clock' \in {clock, clock + 1}, ScansGrowByOverdue,
             \A p \in Orders : order_status[p] = Absent => payment_status'[p] = Absent
      PROVE  OwnedRows'
  <2>1. StatusesKept /\ MoneyFollowsOrders
    BY <1>00, <1>1 DEF StatusesKept, MoneyFollowsOrders, Paid
  <2> QED
    BY <1>0, <1>1, <2>1, KeepOwnership
<1>2. ASSUME UNCHANGED <<seatVars, hold_status, expires_at, order_items, bookings,
                         order_status, refund_requests, payment_status, scanned>>,
             clock' \in {clock, clock + 1}
      PROVE  OwnedRows'
  <2>1. ScansGrowByOverdue
    BY <1>2 DEF ScansGrowByOverdue
  <2> QED
    BY <1>1, <1>2, <1>00, <2>1
<1>3. ASSUME NEW B \in SUBSET Orders, NEW state \in {"RELEASED", "EXPIRED"},
             ReleaseSeats(B), ReleaseHolds(B, state), ReleaseOrders(B),
             UNCHANGED <<clock, factVars, moneyVars, saleVars>>,
             \A p \in B : order_status[p] # Absent,
             \A w \in ExpiryWorkers : scanned'[w] \subseteq scanned[w]
      PROVE  OwnedRows'
  <2>1. StatusesEnded(B)
    BY <1>3 DEF StatusesEnded, ReleaseOrders, Paid, Absent
  <2>2. MoneyFollowsOrders /\ UNCHANGED <<clock, expires_at, order_items, bookings>>
    BY <1>00, <1>3 DEF MoneyFollowsOrders, factVars, moneyVars, saleVars
  <2> QED
    BY <1>0, <1>3, <2>1, <2>2, ReleaseOwnership
<1>4. ASSUME NEW a \in Actors, NEW S \in SeatRequests, NEW k \in HoldKeys,
             NEW t \in ReadTimes, NEW o \in Orders \ Commands,
             reserve(a, S, k, o, t)
      PROVE  OwnedRows'
  <2>1. t \in Nat /\ t <= clock /\ clock \in Nat
    BY <1>0, ReadTimesAreNat DEF SeatTypes
  <2>2. S # {} /\ S \in SUBSET Seats /\ InsertHold(a, o, S, t + HoldSeconds)
    BY <1>4 DEF reserve, SeatRequests
  <2>3. \A s \in S : booked_order_id[s] = None /\ reserved_until[s] <= clock
    <3> SUFFICES ASSUME NEW s \in S PROVE booked_order_id[s] = None /\ reserved_until[s] <= clock
      OBVIOUS
    <3>1. reserved_until[s] \in Nat
      BY <1>0, <2>2 DEF SeatTypes
    <3>2. booked_order_id[s] = None /\ ~(reserved_until[s] > t)
      BY <1>4 DEF reserve, Unavailable
    <3> QED
      BY <2>1, <3>1, <3>2
  <2>4. t + HoldSeconds \in Nat
    BY <2>1
  <2> QED
    BY <1>0, <2>2, <2>3, <2>4, InsertHoldOwnership
<1>5. ASSUME NEW a \in Actors, NEW S \in SeatRequests, NEW k \in HoldKeys,
             NEW t \in ReadTimes, NEW o \in Commands,
             NEW expires \in 1..(t + HoldSeconds),
             persist_reservation_command(a, S, k, o, expires, t)
      PROVE  OwnedRows'
  <2>1. t \in Nat /\ t <= clock /\ clock \in Nat
    BY <1>0, ReadTimesAreNat DEF SeatTypes
  <2>2. S # {} /\ S \in SUBSET Seats /\ InsertHold(a, o, S, expires)
    BY <1>5 DEF persist_reservation_command, SeatRequests
  <2>3. order_status[o] = Absent /\ o \in Orders /\ o # None
    BY <2>2 DEF InsertHold
  <2>4. \A s \in Seats : hold_id[s] # o
    BY <1>0, <2>3 DEF OwnedRows, HeldSeatsAreRecoverable, Absent
  <2>5. \A s \in S : booked_order_id[s] = None /\ reserved_until[s] <= clock
    <3> SUFFICES ASSUME NEW s \in S PROVE booked_order_id[s] = None /\ reserved_until[s] <= clock
      OBVIOUS
    <3>1. reserved_until[s] \in Nat /\ hold_id[s] # o
      BY <1>0, <2>2, <2>4 DEF SeatTypes
    <3>2. booked_order_id[s] = None /\ ~(reserved_until[s] > t)
      BY <1>5, <3>1 DEF persist_reservation_command, Unavailable
    <3> QED
      BY <2>1, <3>1, <3>2
  <2>6. expires \in Nat
    BY <2>1
  <2> QED
    BY <1>0, <2>2, <2>3, <2>5, <2>6, InsertHoldOwnership
<1>6. Tick => OwnedRows'
  BY <1>2 DEF Tick, factVars, moneyVars, saleVars
<1>7. ASSUME NEW a \in Actors, NEW o \in Orders, NEW k \in OrderKeys,
             NEW t \in ReadTimes, checkout(a, o, k, t)
      PROVE  OwnedRows'
  BY <1>2, <1>7 DEF checkout, factVars, moneyVars, saleVars
<1>8. ASSUME NEW a \in Actors, NEW o \in Orders, release(a, o)
      PROVE  OwnedRows'
  <2>1. {o} \in SUBSET Orders /\ "RELEASED" \in {"RELEASED", "EXPIRED"}
    OBVIOUS
  <2>2. /\ ReleaseSeats({o}) /\ ReleaseHolds({o}, "RELEASED") /\ ReleaseOrders({o})
        /\ UNCHANGED <<clock, factVars, moneyVars, saleVars>>
        /\ \A p \in {o} : order_status[p] # Absent
        /\ \A w \in ExpiryWorkers : scanned'[w] \subseteq scanned[w]
    BY <1>8 DEF release
  <2> QED
    BY <1>3, <2>1, <2>2
<1>9. ASSUME NEW w \in ExpiryWorkers, expire_scan(w)
      PROVE  OwnedRows'
  <2>1. /\ UNCHANGED <<seatVars, hold_status, expires_at, order_items, bookings,
                       order_status, refund_requests, payment_status>>
        /\ clock' \in {clock, clock + 1}
    BY <1>9 DEF expire_scan, factVars, moneyVars, saleVars
  <2>2. ScansGrowByOverdue
    BY <1>0, <1>9 DEF expire_scan, ScansGrowByOverdue, SeatTypes
  <2> QED
    BY <1>00, <1>1, <2>1, <2>2
<1>10. ASSUME NEW w \in ExpiryWorkers, NEW B \in SUBSET Orders, expire_batch(w, B)
       PROVE  OwnedRows'
  <2>1. "EXPIRED" \in {"RELEASED", "EXPIRED"}
    OBVIOUS
  <2>2. /\ ReleaseSeats(B) /\ ReleaseHolds(B, "EXPIRED") /\ ReleaseOrders(B)
        /\ UNCHANGED <<clock, factVars, moneyVars, saleVars>>
    BY <1>10 DEF expire_batch
  <2>3. \A p \in B : order_status[p] # Absent
    BY <1>0, <1>10 DEF expire_batch, OwnedRows, ScansAreOverdue
  <2>4. \A v \in ExpiryWorkers : scanned'[v] \subseteq scanned[v]
    BY <1>0, <1>10 DEF expire_batch, SeatTypes
  <2> QED
    BY <1>3, <2>1, <2>2, <2>3, <2>4
<1>11. ASSUME NEW a \in Actors, NEW o \in Orders, NEW k \in PaymentKeys,
              NEW t \in ReadTimes, initiate_payment(a, o, k, t)
       PROVE  OwnedRows'
  <2>1. /\ UNCHANGED <<seatVars, hold_status, expires_at, order_items, bookings,
                       order_status, refund_requests, scanned>>
        /\ clock' \in {clock, clock + 1}
    BY <1>11 DEF initiate_payment, factVars, saleVars
  <2>2. \A p \in Orders : order_status[p] = Absent => payment_status'[p] = Absent
    BY <1>0, <1>00, <1>11 DEF initiate_payment, TypeOK
  <2>3. ScansGrowByOverdue
    BY <2>1 DEF ScansGrowByOverdue
  <2> QED
    BY <1>1, <2>1, <2>2, <2>3
<1>12. ASSUME NEW o \in Orders, consume_event(o)
       PROVE  OwnedRows'
  <2>1. /\ UNCHANGED <<clock, seatVars, hold_status, expires_at, order_items, bookings,
                       scanned, payment_status>>
        /\ clock' \in {clock, clock + 1}
    BY <1>12 DEF consume_event, consume_OrderPaid, consume_RefundRequested,
       consume_TicketsIssued, factVars, moneyVars, saleVars
  <2>2. order_status \in [Orders -> OrderStates \cup {Absent}]
    BY <1>0 DEF SeatTypes
  <2>3. StatusesKept
    BY <1>12, <2>2 DEF consume_event, consume_OrderPaid, consume_RefundRequested,
       consume_TicketsIssued, StatusesKept, Paid, Absent
  <2>4. \A p \in Orders : refund_requests[p] = Absent => refund_requests'[p] = Absent
    BY <1>0, <1>12 DEF consume_event, consume_OrderPaid, consume_RefundRequested,
       consume_TicketsIssued, TypeOK, moneyVars
  <2>5. MoneyFollowsOrders /\ ScansGrowByOverdue
    BY <1>00, <2>1, <2>4 DEF MoneyFollowsOrders, ScansGrowByOverdue
  <2> QED
    BY <1>0, <2>1, <2>3, <2>5, KeepOwnership
<1>13. UNCHANGED vars => OwnedRows'
  BY <1>2 DEF vars, factVars, moneyVars, saleVars
<1> QED
  BY <1>0, <1>4, <1>5, <1>6, <1>7, <1>8, <1>9, <1>10, <1>11, <1>12, <1>13,
     SettleOwnership DEF Next

-----------------------------------------------------------------------------
(* The ownership theorems.                                                 *)

\* OwnershipInv holds in every reachable state, whatever the constants.
THEOREM OwnershipInvariant == Spec => []OwnershipInv
BY InitOwnership, NextOwnership, PTL DEF Spec

\* callback sells every seat of an order or none: exactly the paid orders own
\* sold seats, and each owns all of its order_items.
THEOREM SalesAreAllOrNothing == Spec => []SoldAllOrNothing
<1>1. OwnershipInv => SoldAllOrNothing
  BY DEF OwnershipInv, OwnedRows
<1> QED
  BY OwnershipInvariant, <1>1, PTL

\* The bookings rows callback inserts and event_seats.booked_order_id describe
\* the same sales, so no seat is ever sold to two orders.
THEOREM BookingsAgreeWithSeats == Spec => []BookingsMatchSeats
<1>1. OwnershipInv => BookingsMatchSeats
  BY DEF OwnershipInv, OwnedRows
<1> QED
  BY OwnershipInvariant, <1>1, PTL

\* Until expires_at an ACTIVE hold owns all its seats, although reserve takes
\* over seats past their deadline without looking at the previous hold.
THEOREM LiveHoldsAreExclusive == Spec => []LiveHoldOwnsItsSeats
<1>1. OwnershipInv => LiveHoldOwnsItsSeats
  BY DEF OwnershipInv, OwnedRows
<1> QED
  BY OwnershipInvariant, <1>1, PTL

\* No seat is stranded: a seat with a hold_id belongs to an ACTIVE hold of a
\* PENDING order, which expire_batch selects once the deadline has passed.
THEOREM NoSeatIsStranded == Spec => []HeldSeatsAreRecoverable
<1>1. OwnershipInv => HeldSeatsAreRecoverable
  BY DEF OwnershipInv, OwnedRows
<1> QED
  BY OwnershipInvariant, <1>1, PTL
=============================================================================
