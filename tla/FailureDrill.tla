----------------------------- MODULE FailureDrill -----------------------------
(***************************************************************************)
(* The outage drills: cloud_failure_drill.py stops Redis, PostgreSQL and   *)
(* Kafka in turn and checks what the API does meanwhile and afterwards;    *)
(* recovery_drill.py is the Kafka outage alone, on a local system.  A      *)
(* drill is a sequence of steps.  Between stop and start a step that       *)
(* raises goes to start first (finally), any other ends the drill.         *)
(***************************************************************************)
EXTENDS Integers, FiniteSets, Sequences

CONSTANT
  MaxFailures    \* bound: commands and requests that fail

Services == {"redis", "postgres", "kafka"}
Seats == {"redis", "postgres"}   \* the seat of a case, named after the service
None == "none"

VARIABLES
  local,            \* recovery_drill.py, not cloud_failure_drill.py
  pc, raising,      \* position in the drill; inside a finally
  ended,            \* none, passed or raised
  start_failed,     \* compose start did not succeed
  up,               \* services that run
  late_stop,        \* services whose stop timed out and may still come
  stray,            \* seats whose request in the outage got no answer
  origin,           \* request that made the hold of a seat: none, outage, retry
  order, payment, delivered, paid_events, tickets,   \* of the Kafka case
  failures

drill == <<local, pc, raising, ended, start_failed>>
services == <<up, late_stop>>
holds == <<stray, origin>>
sale == <<order, payment, delivered, paid_events, tickets>>
vars == <<drill, services, holds, sale, failures>>

Step(o, s) == [op |-> o, svc |-> s]

Outage(s) ==
  <<Step("stop", s), Step("outage hold", s), Step("start", s), Step("ready", s),
    Step("no record", s), Step("retry", s), Step("owner", s)>>

Kafka ==
  <<Step("hold", "kafka"), Step("stop", "kafka"), Step("pay", "kafka"), Step("paid", "kafka"),
    Step("start", "kafka"), Step("fulfilled", "kafka"), Step("delivered", "kafka"), Step("counts", "kafka")>>

KafkaLocal == SubSeq(Kafka, 1, 6)

\* duplicates of the payment
Deliveries == IF local THEN 3 ELSE 5

Steps == IF local THEN KafkaLocal
         ELSE <<Step("ready", "redis")>> \o Outage("redis") \o Outage("postgres") \o Kafka

Init ==
  /\ local \in BOOLEAN
  /\ pc = 1 /\ raising = FALSE /\ ended = None /\ start_failed = FALSE
  /\ up = Services /\ late_stop = {} /\ stray = {} /\ origin = [s \in Seats |-> None]
  /\ order = None /\ payment = FALSE /\ delivered = 0 /\ paid_events = "none" /\ tickets = 0
  /\ failures = 0

Failing == failures < MaxFailures /\ failures' = failures + 1

At(o) == ended = None /\ Steps[pc].op = o
svc == Steps[pc].svc

\* Position of the finally a step is protected by, if any.
Finally == {k \in pc .. Len(Steps) : Steps[k].op = "start" /\ \E j \in 1 .. pc : Steps[j] = Step("stop", Steps[k].svc)}

Continue ==
  /\ pc' = IF pc < Len(Steps) THEN pc + 1 ELSE pc
  /\ ended' = IF pc < Len(Steps) THEN None ELSE "passed"
  /\ UNCHANGED <<local, raising, start_failed>>

\* Mutant of Raise: no finally.
RaiseOnly == ended' = "raised" /\ UNCHANGED <<local, pc, raising, start_failed>>

Raise ==
  IF Finally = {} THEN ended' = "raised" /\ UNCHANGED <<local, pc, raising, start_failed>>
  ELSE pc' \in Finally /\ raising' = TRUE /\ UNCHANGED <<local, ended, start_failed>>

\* An assertion, or a wait that ends when ok holds or at its deadline.
Assert(ok) == IF ok THEN Continue ELSE Raise

-----------------------------------------------------------------------------
\* compose stop: done, refused, or cut off after its timeout (cloud only).
Stop ==
  /\ At("stop")
  /\ \/ up' = up \ {svc} /\ Continue /\ UNCHANGED <<late_stop, failures>>
     \/ Failing /\ Raise /\ UNCHANGED services
     \/ ~local /\ Failing /\ Raise /\ late_stop' = late_stop \cup {svc} /\ UNCHANGED up
  /\ UNCHANGED <<holds, sale>>

StartFails == ended' = "raised" /\ start_failed' = TRUE /\ UNCHANGED <<local, pc, raising>>

Start ==
  /\ At("start")
  /\ \/ up' = up \cup {svc} /\ UNCHANGED failures
        /\ IF raising THEN ended' = "raised" /\ UNCHANGED <<local, pc, raising, start_failed>> ELSE Continue
     \/ Failing /\ UNCHANGED up /\ StartFails
  /\ UNCHANGED <<late_stop, holds, sale>>

\* POST /v1/holds needs Redis and PostgreSQL; otherwise it is answered 503.
Serving == {"redis", "postgres"} \subseteq up

\* The service was stopped, so the API cannot serve: the request of the outage
\* is answered 503, as the drill wants; that it left a hold is what the drill
\* looks for.  Without an answer it raises, and may be served when the API gets
\* to it.
OutageHold ==
  /\ At("outage hold")
  /\ \/ Continue /\ UNCHANGED <<holds, failures>>
     \/ Failing /\ origin' = [origin EXCEPT ![svc] = "outage"] /\ Continue /\ UNCHANGED stray
     \/ Failing /\ Raise /\ stray' = stray \cup {svc} /\ UNCHANGED origin
  /\ UNCHANGED <<services, sale>>

ServeStray(s) ==
  /\ s \in stray /\ stray' = stray \ {s}
  /\ origin' = IF Serving /\ origin[s] = None THEN [origin EXCEPT ![s] = "outage"] ELSE origin
  /\ UNCHANGED <<drill, services, sale, failures>>

Ready == At("ready") /\ Assert(Serving) /\ UNCHANGED <<services, holds, sale, failures>>

\* No idempotency record of the failed key.
NoRecord ==
  /\ At("no record") /\ Assert("postgres" \in up /\ origin[svc] = None)
  /\ UNCHANGED <<services, holds, sale, failures>>

\* The same key again: a new hold, or the recorded one.
Retry ==
  /\ At("retry") /\ Assert(Serving)
  /\ origin' = IF Serving /\ origin[svc] = None THEN [origin EXCEPT ![svc] = "retry"] ELSE origin
  /\ UNCHANGED <<services, stray, sale, failures>>

\* Replay, conflict of another key, and the row of the owner.
Owner == At("owner") /\ Assert(Serving /\ origin[svc] # None) /\ UNCHANGED <<services, holds, sale, failures>>

-----------------------------------------------------------------------------
Hold ==
  /\ At("hold") /\ Assert(Serving) /\ order' = IF Serving THEN "PENDING" ELSE order
  /\ UNCHANGED <<services, holds, payment, delivered, paid_events, tickets, failures>>

Pay ==
  /\ At("pay")
  /\ \/ "postgres" \in up /\ payment' = TRUE /\ Continue /\ UNCHANGED failures
     \/ Failing /\ Raise /\ payment' \in {payment, "postgres" \in up}
  /\ UNCHANGED <<services, holds, order, delivered, paid_events, tickets>>

\* PAID without a ticket, and one event that waits for Kafka.
Paid ==
  /\ At("paid") /\ Assert(order = "PAID" /\ tickets = 0 /\ paid_events = "pending")
  /\ UNCHANGED <<services, holds, sale, failures>>

Fulfilled ==
  /\ At("fulfilled") /\ Assert(order = "FULFILLED" /\ tickets = 1)
  /\ UNCHANGED <<services, holds, sale, failures>>

Delivered ==
  /\ At("delivered") /\ Assert(delivered = Deliveries)
  /\ UNCHANGED <<services, holds, sale, failures>>

\* One booking, ticket, callback and OrderPaid event.
Counts == At("counts") /\ Assert(tickets = 1) /\ UNCHANGED <<services, holds, sale, failures>>

-----------------------------------------------------------------------------
(***************************************************************************)
(* The system under the drill.                                             *)
(***************************************************************************)
LateStop(s) ==
  /\ s \in late_stop /\ up' = up \ {s}
  /\ UNCHANGED <<drill, late_stop, holds, sale, failures>>

Deliver ==
  /\ payment /\ delivered < Deliveries /\ "postgres" \in up /\ delivered' = delivered + 1
  /\ order' = IF order = "PENDING" THEN "PAID" ELSE order
  /\ paid_events' = IF order = "PENDING" THEN "pending" ELSE paid_events
  /\ UNCHANGED <<drill, services, holds, payment, tickets, failures>>

Publish ==
  /\ paid_events = "pending" /\ "kafka" \in up /\ paid_events' = "published"
  /\ UNCHANGED <<drill, services, holds, order, payment, delivered, tickets, failures>>

\* The event can be consumed again; a second ticket is what the drill looks for.
Consume ==
  /\ paid_events = "published" /\ Services \subseteq up
  /\ \/ order = "PAID" /\ tickets' = tickets + 1 /\ order' = "FULFILLED" /\ UNCHANGED failures
     \/ order = "FULFILLED" /\ Failing /\ tickets' = tickets + 1 /\ UNCHANGED order
  /\ UNCHANGED <<drill, services, holds, payment, delivered, paid_events>>

Drill ==
  \/ Stop \/ Start \/ OutageHold \/ Ready \/ NoRecord \/ Retry \/ Owner
  \/ Hold \/ Pay \/ Paid \/ Fulfilled \/ Delivered \/ Counts

Next ==
  \/ Drill \/ Deliver \/ Publish \/ Consume
  \/ \E s \in Seats : ServeStray(s)
  \/ \E s \in Services : LateStop(s)

Spec == Init /\ [][Next]_vars

-----------------------------------------------------------------------------
\* "Always restarts Kafka, even if an assertion fails.": however a drill ends,
\* all services run, unless the start command failed or a stop command was cut
\* off and took effect later.
ServicesAreRestarted == ended # None /\ ~start_failed /\ late_stop = {} => up = Services

\* A drill that passes found a recovered system: no hold comes from a request
\* the API refused, the order is fulfilled with one ticket, and in the cloud
\* all callbacks arrived.
PassMeansRecovered ==
  ended' = "passed" /\ ended = None =>
    /\ order = "FULFILLED" /\ tickets = 1
    /\ ~local => delivered = Deliveries /\ \A s \in Seats : origin[s] = "retry"

=============================================================================
