---------------------------- MODULE CapacityProbe ----------------------------
(***************************************************************************)
(* The local capacity probe (capacity_test.py): journeys of a hold and,    *)
(* for the checkout profile, a payment, started at a fixed rate against a  *)
(* fresh event; then a drain, in which the workers finish what the         *)
(* journeys began; then the verdict.  One tick is the interval between two *)
(* journeys, so journey i is due at time i.                                *)
(***************************************************************************)
EXTENDS Integers, FiniteSets, FiniteSetsExt

CONSTANTS
  Profile,          \* hot, spread or checkout
  Total,            \* number of journeys; they take Total ticks
  Timeout,          \* of a request, in ticks
  Slack,            \* 0.05 seconds in whole ticks: 0 up to a rate of 19
  HoldTimes,        \* values of hold_seconds, in ticks
  Inflight,
  Duplicates,       \* target_deliveries of a payment
  wait_projection,
  MaxTime,          \* bound on the clock
  MaxFailures       \* bound: lost or wrong answers, failed queries, lost maps

Index == 0 .. Total - 1
Never == -1

VARIABLES
  now, hold_seconds,
  pc,          \* check, dispatch, the next query of the drain, verdict, done, raised
  next,        \* the journey that is due next
  task,        \* none, dropped, hold, pay, end
  sent,        \* time of its pending request
  burst,       \* history: journeys started at this instant
  hold_status, pay_status,   \* answers counted: none, 201 or 202, refused, transport_error
  expires,     \* deadline of the durable hold of a journey, or Never
  order,       \* none, PENDING, PAID, FULFILLED, LATE, REFUNDED, EXPIRED
  remaining,   \* deliveries of its payment still to be made
  version,     \* inventory version
  announced,   \* SeatsChanged events not consumed
  dirty,       \* a refresh is requested
  cached,      \* version of the map, or Never
  booked,      \* history: the inventory version that booked a journey's seat, or Never
  seen,        \* what the last drain round read
  projection_done,
  failures

ledger == <<expires, order, remaining, version, announced, booked>>
system == <<ledger, dirty, cached>>
probe == <<pc, next, seen, projection_done>>
journeys == <<task, sent, burst, hold_status, pay_status>>
vars == <<now, hold_seconds, system, probe, journeys, failures>>

All(v) == [i \in Index |-> v]

Nothing ==
  [fulfilled |-> 0, holds |-> 0, tickets |-> 0, remaining |-> FALSE, unconsumed |-> FALSE, version |-> 0,
   pending |-> FALSE, cached |-> Never]

Init ==
  /\ now = 0 /\ hold_seconds \in HoldTimes
  /\ pc = "check" /\ next = 0 /\ projection_done = FALSE
  /\ task = All("none") /\ sent = All(0) /\ burst = 0
  /\ hold_status = All("none") /\ pay_status = All("none")
  /\ expires = All(Never) /\ order = All("none") /\ remaining = All(0)
  /\ version = 0 /\ announced = 0 /\ dirty = FALSE /\ cached = Never /\ booked = All(Never)
  /\ seen = Nothing
  /\ failures = 0

Failing == failures < MaxFailures /\ failures' = failures + 1

Waiting(i) == task[i] \in {"hold", "pay"}
Pending == {i \in Index : Waiting(i)}

\* A request takes no longer than its timeout.  (httpx limits each phase of it.)
Tick ==
  /\ now < MaxTime /\ pc # "check" /\ \A i \in Pending : now < sent[i] + Timeout
  /\ now' = now + 1 /\ burst' = 0
  /\ UNCHANGED <<hold_seconds, system, probe, task, sent, hold_status, pay_status, failures>>

-----------------------------------------------------------------------------
\* Mutant of Allowed: the time of the last request is forgotten.
AllowedUntilDispatched == Profile = "hot" => Total < hold_seconds

\* "Hot run plus request timeout must finish before the hold TTL".
Allowed == Profile = "hot" => Total + Timeout < hold_seconds

Check ==
  /\ pc = "check" /\ pc' = IF Allowed THEN "dispatch" ELSE "raised"
  /\ UNCHANGED <<now, hold_seconds, system, next, seen, projection_done, journeys, failures>>

\* The interval or 50 ms, whichever is longer.
Tolerance == IF Slack > 1 THEN Slack ELSE 1

Late == now - next > Tolerance

Full == Cardinality(Pending) >= Inflight

Dispatch ==
  /\ pc = "dispatch" /\ next < Total /\ now >= next /\ next' = next + 1
  /\ IF Late \/ Full THEN task' = [task EXCEPT ![next] = "dropped"] /\ UNCHANGED <<sent, burst>>
     ELSE /\ task' = [task EXCEPT ![next] = "hold"]
          /\ sent' = [sent EXCEPT ![next] = now] /\ burst' = burst + 1
  /\ UNCHANGED <<now, hold_seconds, system, pc, seen, projection_done, hold_status, pay_status, failures>>

Seat(i) == IF Profile = "hot" THEN 0 ELSE i

Taken(s) ==
  \E j \in Index : /\ Seat(j) = s
                   /\ order[j] \in {"PAID", "FULFILLED"} \/ (order[j] = "PENDING" /\ now < expires[j])

Grant(i) ==
  /\ ~Taken(Seat(i))
  /\ expires' = [expires EXCEPT ![i] = now + hold_seconds]
  /\ order' = [order EXCEPT ![i] = "PENDING"] /\ version' = version + 1
  /\ announced' = announced + 1
  /\ UNCHANGED <<remaining, booked, dirty, cached>>

After(i, status) == task' = [task EXCEPT ![i] = IF Profile = "checkout" /\ status = "201" THEN "pay" ELSE "end"]

\* The first request of a journey.  The API can refuse at any time (409, 429,
\* 503), also with a 503 after a COMMIT that took effect; the answer can be lost
\* on its way or have another status.
Hold(i) ==
  /\ task[i] = "hold"
  /\ \E a \in {"201", "refused", "transport_error"} :
       /\ hold_status' = [hold_status EXCEPT ![i] = a] /\ After(i, a)
       /\ CASE a = "201" -> Grant(i) /\ UNCHANGED failures
            [] a = "refused" -> UNCHANGED <<system, failures>> \/ (Failing /\ Grant(i))
            [] a = "transport_error" -> Failing /\ (Grant(i) \/ UNCHANGED system)
  /\ sent' = [sent EXCEPT ![i] = IF task'[i] = "pay" THEN now ELSE 0]
  /\ UNCHANGED <<now, hold_seconds, probe, burst, pay_status>>

Accept(i) ==
  /\ order[i] = "PENDING" /\ now < expires[i]
  /\ remaining' = [remaining EXCEPT ![i] = Duplicates]
  /\ UNCHANGED <<expires, order, version, announced, booked, dirty, cached>>

Pay(i) ==
  /\ task[i] = "pay" /\ task' = [task EXCEPT ![i] = "end"] /\ sent' = [sent EXCEPT ![i] = 0]
  /\ \E a \in {"202", "refused", "transport_error"} :
       /\ pay_status' = [pay_status EXCEPT ![i] = a]
       /\ CASE a = "202" -> Accept(i) /\ UNCHANGED failures
            [] a = "refused" -> UNCHANGED <<system, failures>> \/ (Failing /\ Accept(i))
            [] a = "transport_error" -> Failing /\ (Accept(i) \/ UNCHANGED system)
  /\ UNCHANGED <<now, hold_seconds, probe, burst, hold_status>>

\* A query that fails outside the monitor ends the run.
QueryFails == Failing /\ pc' = "raised"

\* gather: every journey has ended.  The observation after it can fail.
Gather ==
  /\ pc = "dispatch" /\ next = Total /\ Pending = {}
  /\ (pc' = "states" /\ UNCHANGED failures) \/ QueryFails
  /\ UNCHANGED <<now, hold_seconds, system, next, seen, projection_done, journeys>>

-----------------------------------------------------------------------------
(***************************************************************************)
(* The workers that the drain waits for.                                   *)
(***************************************************************************)
Others == <<now, hold_seconds, probe, journeys>>

\* One callback; the first one books the seat, or comes too late and gives up
\* the hold.
Deliver(i) ==
  /\ remaining[i] > 0 /\ remaining' = [remaining EXCEPT ![i] = @ - 1]
  /\ order' = [order EXCEPT ![i] = CASE @ = "PENDING" /\ now < expires[i] -> "PAID"
                                    [] @ \in {"PENDING", "EXPIRED"} -> "LATE"
                                    [] OTHER -> @]
  /\ version' = version + IF order[i] = "PENDING" THEN 1 ELSE 0
  /\ announced' = announced + IF order'[i] # order[i] THEN 1 ELSE 0
  /\ booked' = [booked EXCEPT ![i] = IF order'[i] = "PAID" /\ @ = Never THEN version' ELSE @]
  /\ UNCHANGED <<expires, dirty, cached, Others, failures>>

\* The consumer handles OrderPaid or RefundRequested.
Fulfil(i) ==
  /\ order[i] \in {"PAID", "LATE"}
  /\ order' = [order EXCEPT ![i] = IF @ = "PAID" THEN "FULFILLED" ELSE "REFUNDED"]
  /\ UNCHANGED <<expires, remaining, version, announced, booked, dirty, cached, Others, failures>>

Expire(i) ==
  /\ order[i] = "PENDING" /\ now >= expires[i] /\ order' = [order EXCEPT ![i] = "EXPIRED"]
  /\ version' = version + 1 /\ announced' = announced + 1
  /\ UNCHANGED <<expires, remaining, booked, dirty, cached, Others, failures>>

\* The consumer handles a SeatsChanged.  Without --wait-projection nobody reads
\* the map.
RequestRefresh ==
  /\ wait_projection /\ announced > 0 /\ announced' = announced - 1 /\ dirty' = TRUE
  /\ UNCHANGED <<expires, order, remaining, version, booked, cached, Others, failures>>

\* Claim, read, PUT and acknowledge; SeatProjection has them apart.
Refresh ==
  /\ dirty /\ dirty' = FALSE /\ cached' = version
  /\ UNCHANGED <<ledger, Others, failures>>

MapLost ==
  /\ cached # Never /\ Failing /\ cached' = Never
  /\ UNCHANGED <<ledger, dirty, Others>>

-----------------------------------------------------------------------------
accepted_payments == Quantify(Index, LAMBDA i : pay_status[i] = "202")
wins == Quantify(Index, LAMBDA i : hold_status[i] = "201")

\* The queries of a drain round, in the order of the code: the counts, then, with
\* --wait-projection, observe.  Each sees what was committed when it began;
\* those that decide nothing are left out.  (No hold is inserted any more when
\* they are counted.)
Queries == <<"states", "tickets", "remaining", "unconsumed", "version", "pending", "cached">>

\* Each in the transaction that fulfils its order.
tickets == Quantify(Index, LAMBDA i : order[i] = "FULFILLED")

Answer(q) ==
  CASE q = "states" -> [seen EXCEPT !.fulfilled = tickets,
                                    !.holds = Quantify(Index, LAMBDA i : expires[i] # Never)]
    [] q = "tickets" -> [seen EXCEPT !.tickets = tickets]
    [] q = "remaining" -> [seen EXCEPT !.remaining = \E i \in Index : remaining[i] > 0]
    [] q = "unconsumed" -> [seen EXCEPT !.unconsumed = announced > 0 \/ \E i \in Index : order[i] \in {"PAID", "LATE"}]
    [] q = "version" -> [seen EXCEPT !.version = version]
    [] q = "pending" -> [seen EXCEPT !.pending = dirty]
    [] q = "cached" -> [seen EXCEPT !.cached = cached]

\* A Redis error counts as no map.
Query(n) ==
  /\ pc = Queries[n]
  /\ \/ /\ seen' = Answer(pc) /\ UNCHANGED failures
        /\ pc' = IF n = 7 \/ (n = 3 /\ ~wait_projection) THEN "decide" ELSE Queries[n + 1]
     \/ pc # "cached" /\ QueryFails /\ UNCHANGED seen
     \/ pc = "cached" /\ Failing /\ seen' = [seen EXCEPT !.cached = Never] /\ pc' = "decide"
  /\ UNCHANGED <<now, hold_seconds, system, next, projection_done, journeys>>

delivery_done == Profile # "checkout" \/ (seen.fulfilled = accepted_payments /\ ~seen.remaining)

\* The lag is None without a map.
cache_version_lag_is_zero == seen.cached # Never /\ seen.cached >= seen.version

\* Mutant of projection_drained: a pending request is enough of a sign.
projection_drainedByRequests == ~wait_projection \/ (~seen.unconsumed /\ ~seen.pending)

projection_drained ==
  ~wait_projection \/ (~seen.unconsumed /\ ~seen.pending /\ cache_version_lag_is_zero)

\* --drain seconds have passed: at any time.
Overdue == TRUE

\* The end of the round: done, out of time, or another round, which reads all
\* again.
DrainDecide ==
  /\ pc = "decide"
  /\ \/ /\ pc' = "verdict" /\ ((delivery_done /\ projection_drained) \/ Overdue)
        /\ projection_done' = projection_drained /\ UNCHANGED seen
     \/ /\ pc' = "states" /\ ~(delivery_done /\ projection_drained)
        /\ seen' = Nothing /\ UNCHANGED projection_done
  /\ UNCHANGED <<now, hold_seconds, system, next, journeys, failures>>

unexpected == {i \in Index : "transport_error" \in {hold_status[i], pay_status[i]}}

correct ==
  /\ seen.holds = wins /\ wins > 0 /\ unexpected = {} /\ (Profile = "hot" => wins = 1)
  /\ Profile = "checkout" =>
       /\ seen.fulfilled = accepted_payments /\ accepted_payments = seen.tickets
       /\ accepted_payments > 0 /\ ~seen.remaining

\* After a last observation and the query of the fulfillment times.
Verdict ==
  /\ pc = "verdict"
  /\ (pc' = "done" /\ UNCHANGED failures) \/ QueryFails
  /\ UNCHANGED <<now, hold_seconds, system, next, seen, projection_done, journeys>>

exit_zero == pc = "done" /\ correct /\ projection_done

Probe == Check \/ Dispatch \/ Gather \/ DrainDecide \/ Verdict \/ \E n \in 1 .. 7 : Query(n)
Answers == \E i \in Index : Hold(i) \/ Pay(i)

Workers == RequestRefresh \/ Refresh \/ MapLost \/ \E i \in Index : Deliver(i) \/ Fulfil(i) \/ Expire(i)

\* Nothing after the exit is looked at.
Next == pc \notin {"done", "raised"} /\ (Tick \/ Probe \/ Answers \/ Workers)

Spec == Init /\ [][Next]_vars

-----------------------------------------------------------------------------
\* "No unbounded queue and no catch-up burst when the generator falls behind":
\* at most Inflight journeys are open, and however far behind the generator is,
\* it starts at one instant only those due within the tolerance: two at rates
\* below 40, and one more for every 20 journeys per second above that.
NoQueueNoBurst ==
  /\ Cardinality(Pending) <= Inflight
  /\ burst <= Tolerance + 1

\* The check before a hot run: with it, no journey can win the seat after the
\* winner's hold ran out, so a second winner is an error of the system.
HotHasOneWinner == Profile = "hot" => wins <= 1

\* correctness_pass of a checkout: every durable hold was acknowledged, no
\* callback is left to deliver, and every accepted payment led to a fulfilled
\* order, unless a payment refused after its COMMIT was fulfilled in its place
\* (the code compares counts).
PassMeansDelivered ==
  exit_zero /\ Profile = "checkout" =>
    /\ \A i \in Index : (expires[i] # Never <=> hold_status[i] = "201") /\ remaining[i] = 0
    /\ \/ \A i \in Index : pay_status[i] = "202" => order[i] = "FULFILLED"
       \/ \E i \in Index : pay_status[i] = "refused" /\ order[i] = "FULFILLED"

\* --wait-projection: a checkout that passes has no payment left to fulfil or
\* refund, and the map it read had every seat its journeys booked, although each query
\* was answered at a time of its own and holds went on lapsing meanwhile.
PassMeansProjected ==
  exit_zero /\ Profile = "checkout" /\ wait_projection =>
    \A i \in Index : order[i] \notin {"PAID", "LATE"} /\ booked[i] <= seen.cached

=============================================================================
