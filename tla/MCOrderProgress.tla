--------------------------- MODULE MCOrderProgress ---------------------------
(***************************************************************************)
(* Small instances of Reservations and Outbox with the fairness that lets  *)
(* orders get on; system says which one runs, the other stays as it        *)
(* started.                                                                *)
(***************************************************************************)
EXTENDS Naturals

CONSTANTS None, a1, a2, s1, o1, o2, k1, c1, c2, e1, p1, w1

VARIABLES
  system,
  clock, hold_id, reserved_until, booked_order_id, version, announced, hold_status, expires_at,
  actor, order_status, order_items, reservation_commands, scanned, payment_status,
  payment_callbacks, bookings, tickets, refund_requests, ledger_outbox, ledger_inbox, idem_hold,
  idem_order, idem_payment,
  outbox_events, published, leased, lease_token, pub, rows, pending, confirmed, inflight, acked,
  log, offset, assigned, position, con, attempts, consumer_inbox, applied, dead_letters,
  replaying, failures

ledgerVars ==
  <<clock, hold_id, reserved_until, booked_order_id, version, announced, hold_status, expires_at,
    actor, order_status, order_items, reservation_commands, scanned, payment_status,
    payment_callbacks, bookings, tickets, refund_requests, ledger_outbox, ledger_inbox, idem_hold,
    idem_order, idem_payment>>

pipelineVars ==
  <<outbox_events, published, leased, lease_token, pub, rows, pending, confirmed, inflight, acked,
    log, offset, assigned, position, con, attempts, consumer_inbox, applied, dead_letters,
    replaying, failures>>

vars == <<system, ledgerVars, pipelineVars>>

Ledger == INSTANCE Reservations WITH
  Actors <- {a1, a2}, Seats <- {s1}, Orders <- {o1, o2}, Commands <- {}, HoldKeys <- {k1},
  OrderKeys <- {}, PaymentKeys <- {k1}, CallbackIds <- {c1, c2}, ExpiryWorkers <- {w1},
  HoldSeconds <- 1, SaleStarts <- 0, SaleEnds <- 2, ExpiryLimit <- 2, MaxLag <- 1, MaxClock <- 3,
  outbox_events <- ledger_outbox, consumer_inbox <- ledger_inbox

Pipeline == INSTANCE Outbox WITH
  Events <- {e1}, Publishers <- {p1}, Consumers <- {c1, c2}, PublisherBatch <- 2,
  MaxAttempts <- 2, MaxFailures <- 3

OnLedger(A) == system = "ledger" /\ A /\ UNCHANGED <<system, pipelineVars>>

OnPipeline(A) == system = "pipeline" /\ A /\ UNCHANGED <<system, ledgerVars>>

Init == system \in {"ledger", "pipeline"} /\ Ledger!Init /\ Pipeline!Init

Next == OnLedger(Ledger!Next) \/ OnPipeline(Pipeline!Next)

\* The clock advances, each expiry loop keeps scanning and finishing its
\* batches (workers.main polls forever), and every outbox row is published and
\* applied in the end: no database outage outlasts the five attempts after
\* which the consumer writes a dead letter, or the dead letter is replayed.
LedgerFairness ==
  /\ WF_vars(OnLedger(Ledger!Tick))
  /\ WF_vars(OnLedger(Ledger!expire_scan(w1)))
  /\ WF_vars(OnLedger(\E B \in SUBSET {o1, o2} : Ledger!expire_batch(w1, B)))
  /\ \A o \in {o1, o2} :
       /\ WF_vars(OnLedger(Ledger!consume_OrderPaid(o)))
       /\ WF_vars(OnLedger(Ledger!consume_RefundRequested(o)))

\* Publishers and consumers loop for ever (main), time passes, and Kafka moves
\* on; nobody has to write events, and no operator has to replay one.
PipelineFairness ==
  /\ WF_vars(OnPipeline(Pipeline!lease_expires(e1)))
  /\ WF_vars(OnPipeline(Pipeline!Publish(p1)))
  /\ WF_vars(OnPipeline(\E q \in {p1, None} : Pipeline!broker_append(q, e1)))
  /\ \A c \in {c1, c2} : WF_vars(OnPipeline(Pipeline!Consume(c) /\ ~Pipeline!consumer_crash(c)))

FairSpec == Init /\ [][Next]_vars /\ LedgerFairness /\ PipelineFairness

-----------------------------------------------------------------------------
\* Of Reservations: expire_batch, release or callback ends every hold on a
\* seat, whoever abandons it.
HeldSeatsEventuallyResolve == Ledger!HeldSeatsEventuallyResolve

\* Of Reservations: what callback recorded as captured becomes a ticketed
\* order or a completed refund.
CapturedMoneyEventuallySettles == Ledger!CapturedMoneyEventuallySettles

\* Of Outbox: publish_batch and consume_one bring every committed outbox row
\* to its effect or to a dead letter.
EveryEventIsHandled == Pipeline!EveryEventIsHandled
=============================================================================
