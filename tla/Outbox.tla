-------------------------------- MODULE Outbox --------------------------------
(***************************************************************************)
(* The event pipeline: outbox rows leased by publishers (publish_batch),   *)
(* sent to Kafka, polled by a consumer group whose members try each        *)
(* message a few times, write a dead letter when it keeps failing and only *)
(* then commit the offset (main, role "consumer"), and dead letters        *)
(* replayed by an operator (cli replay).                                   *)
(*                                                                         *)
(* One partition is modelled: a consumer commits the positions of the      *)
(* partitions it polled one message at a time, so partitions do not        *)
(* interact.  Crashes, timeouts, lost answers and rebalances draw on a     *)
(* budget of MaxFailures, after which the infrastructure works.            *)
(***************************************************************************)
EXTENDS Naturals, Sequences, FiniteSets

CONSTANTS
  Events,            \* ids of the rows that transactions add to the outbox
  Publishers,        \* processes with role "publisher"
  Consumers,         \* processes with role "consumer"
  None,
  PublisherBatch,    \* settings.publisher_batch_size
  MaxAttempts,       \* attempts before a dead letter; five in the code
  MaxFailures        \* bound on failures of every kind

ASSUME MemberAssumption == None \notin Publishers /\ None \notin Consumers /\ None \notin Events

ASSUME CountAssumption ==
  PublisherBatch \in Nat \ {0} /\ MaxAttempts \in Nat \ {0} /\ MaxFailures \in Nat

VARIABLES
  outbox_events,  \* the rows
  published,      \* rows with published_at set
  leased,         \* rows whose lease_until has not passed
  lease_token,    \* per row: the publisher whose batch leased it last
  pub,            \* per publisher: where publish_batch is
  rows,           \* per publisher: claimed rows not sent yet
  pending,        \* per publisher: rows sent whose future is not read yet
  confirmed,      \* per publisher: rows whose future succeeded
  inflight,       \* <<publisher or None, row>>: records on their way to the broker
  acked,          \* per publisher: rows of this batch the broker acknowledged
  log,            \* the partition
  offset,         \* the group's committed offset: messages up to it are done
  assigned,       \* the consumer that owns the partition, or None
  position,       \* per consumer: last message fetched
  con,            \* per consumer: where the loop body is
  attempts,       \* per consumer: failed attempts on the current message
  consumer_inbox, \* events whose handler has committed
  applied,        \* per event: how often its handler took effect
  dead_letters,   \* per event: number of dead letters
  replaying,      \* event the operator has replayed but not deleted, or None
  failures

rowVars == <<outbox_events, published, leased, lease_token>>
pubVars == <<pub, rows, pending, confirmed, inflight, acked>>
groupVars == <<offset, assigned, position, con, attempts>>
effectVars == <<consumer_inbox, applied, dead_letters, replaying>>
vars == <<rowVars, pubVars, log, groupVars, effectVars, failures>>

PublisherPhases == {"idle", "send", "await"}
ConsumerPhases == {"poll", "attempt", "dead_letter", "commit"}

TypeOK ==
  /\ outbox_events \in SUBSET Events
  /\ published \in SUBSET Events
  /\ leased \in SUBSET Events
  /\ lease_token \in [Events -> Publishers \cup {None}]
  /\ pub \in [Publishers -> PublisherPhases]
  /\ rows \in [Publishers -> SUBSET Events]
  /\ pending \in [Publishers -> SUBSET Events]
  /\ confirmed \in [Publishers -> SUBSET Events]
  /\ inflight \in SUBSET ((Publishers \cup {None}) \X Events)
  /\ acked \in [Publishers -> SUBSET Events]
  /\ log \in Seq(Events)
  /\ offset \in Nat
  /\ assigned \in Consumers \cup {None}
  /\ position \in [Consumers -> Nat]
  /\ con \in [Consumers -> ConsumerPhases]
  /\ attempts \in [Consumers -> Nat]
  /\ consumer_inbox \in SUBSET Events
  /\ applied \in [Events -> Nat]
  /\ dead_letters \in [Events -> Nat]
  /\ replaying \in Events \cup {None}
  /\ failures \in 0..MaxFailures

Init ==
  /\ outbox_events = {} /\ published = {} /\ leased = {}
  /\ lease_token = [e \in Events |-> None]
  /\ pub = [p \in Publishers |-> "idle"]
  /\ rows = [p \in Publishers |-> {}]
  /\ pending = [p \in Publishers |-> {}]
  /\ confirmed = [p \in Publishers |-> {}]
  /\ inflight = {}
  /\ acked = [p \in Publishers |-> {}]
  /\ log = <<>>
  /\ offset = 0 /\ assigned = None
  /\ position = [c \in Consumers |-> 0]
  /\ con = [c \in Consumers |-> "poll"]
  /\ attempts = [c \in Consumers |-> 0]
  /\ consumer_inbox = {}
  /\ applied = [e \in Events |-> 0]
  /\ dead_letters = [e \in Events |-> 0]
  /\ replaying = None
  /\ failures = 0

\* Something goes wrong in this step.
Failing == failures < MaxFailures /\ failures' = failures + 1

-----------------------------------------------------------------------------
(* The rows and their publishers.                                          *)

\* A business transaction commits one more row.
event(e) ==
  /\ e \notin outbox_events
  /\ outbox_events' = outbox_events \cup {e}
  /\ UNCHANGED <<published, leased, lease_token, pubVars, log, groupVars, effectVars,
                 failures>>

\* published_at IS NULL AND (lease_until IS NULL OR lease_until < now).
Claimable == outbox_events \ (published \cup leased)

\* The first transaction of publish_batch.  SKIP LOCKED passes over rows that
\* an overlapping claim has locked, so any claimable rows may be the oldest
\* ones; nothing below depends on their order.
publish_claim(p, S) ==
  /\ pub[p] = "idle"
  /\ S # {} /\ S \subseteq Claimable /\ Cardinality(S) <= PublisherBatch
  /\ leased' = leased \cup S
  /\ lease_token' = [e \in Events |-> IF e \in S THEN p ELSE lease_token[e]]
  /\ rows' = [rows EXCEPT ![p] = S]
  /\ pub' = [pub EXCEPT ![p] = "send"]
  /\ UNCHANGED <<outbox_events, published, pending, confirmed, inflight, acked, log,
                 groupVars, effectVars, failures>>

\* producer.send returns a future for the record.
publish_send(p, e) ==
  /\ pub[p] = "send" /\ e \in rows[p]
  /\ rows' = [rows EXCEPT ![p] = @ \ {e}]
  /\ pending' = [pending EXCEPT ![p] = @ \cup {e}]
  /\ inflight' = inflight \cup {<<p, e>>}
  /\ UNCHANGED <<rowVars, pub, confirmed, acked, log, groupVars, effectVars, failures>>

\* The loop ends: all rows sent, or the deadline passed or send raised.
publish_stop(p) ==
  /\ pub[p] = "send"
  /\ \/ rows[p] = {} /\ UNCHANGED failures
     \/ rows[p] # {} /\ Failing
  /\ rows' = [rows EXCEPT ![p] = {}]
  /\ pub' = [pub EXCEPT ![p] = "await"]
  /\ UNCHANGED <<rowVars, pending, confirmed, inflight, acked, log, groupVars, effectVars>>

\* future.get: acknowledged; failed for good; or not answered before the
\* deadline, in which case the record may still arrive.
FutureResult(p, e) ==
  \/ /\ e \in acked[p]
     /\ confirmed' = [confirmed EXCEPT ![p] = @ \cup {e}]
     /\ UNCHANGED <<inflight, failures>>
  \/ /\ e \notin acked[p] /\ <<p, e>> \notin inflight
     /\ UNCHANGED <<confirmed, inflight, failures>>
  \/ /\ <<p, e>> \in inflight /\ Failing
     /\ inflight' = (inflight \ {<<p, e>>}) \cup {<<None, e>>}
     /\ UNCHANGED confirmed

future_get(p, e) ==
  /\ pub[p] = "await" /\ e \in pending[p]
  /\ FutureResult(p, e)
  /\ pending' = [pending EXCEPT ![p] = @ \ {e}]
  /\ UNCHANGED <<rowVars, pub, rows, acked, log, groupVars, effectVars>>

\* UPDATE ... WHERE id=ANY(confirmed) AND lease_token=token.
Owned(p) == {e \in confirmed[p] : lease_token[e] = p}

\* The second transaction, and the end of the batch.
publish_confirm(p) ==
  /\ pub[p] = "await" /\ pending[p] = {}
  /\ published' = published \cup Owned(p)
  /\ leased' = leased \ Owned(p)
  /\ confirmed' = [confirmed EXCEPT ![p] = {}]
  /\ acked' = [acked EXCEPT ![p] = {}]
  /\ pub' = [pub EXCEPT ![p] = "idle"]
  /\ UNCHANGED <<outbox_events, lease_token, rows, pending, inflight, log, groupVars,
                 effectVars, failures>>

\* The records of publisher p that nobody waits for any more.
Orphans(p) == {<<None, r[2]>> : r \in {q \in inflight : q[1] = p}}

\* The process dies, or a transaction of publish_batch fails: the rows keep
\* their lease and records already sent may still arrive.
publish_crash(p) ==
  /\ pub[p] # "idle" /\ Failing
  /\ pub' = [pub EXCEPT ![p] = "idle"]
  /\ rows' = [rows EXCEPT ![p] = {}]
  /\ pending' = [pending EXCEPT ![p] = {}]
  /\ confirmed' = [confirmed EXCEPT ![p] = {}]
  /\ acked' = [acked EXCEPT ![p] = {}]
  /\ inflight' = {r \in inflight : r[1] # p} \cup Orphans(p)
  /\ UNCHANGED <<rowVars, log, groupVars, effectVars>>

\* Thirty seconds pass.  While the batch that took the lease is still working
\* on the row this is a failure (a stalled process).
lease_expires(e) ==
  /\ e \in leased
  /\ LET p == lease_token[e] IN
     IF e \in rows[p] \cup pending[p] \cup confirmed[p] THEN Failing ELSE UNCHANGED failures
  /\ leased' = leased \ {e}
  /\ UNCHANGED <<outbox_events, published, lease_token, pubVars, log, groupVars, effectVars>>

\* External: the broker appends a record and acknowledges it; appends it but
\* the answer is lost, so that the producer sends it again; or gives it up.
Acknowledge(q, e) ==
  IF q \in Publishers THEN acked' = [acked EXCEPT ![q] = @ \cup {e}] ELSE UNCHANGED acked

broker_append(q, e) ==
  /\ <<q, e>> \in inflight
  /\ log' = Append(log, e)
  /\ \/ /\ inflight' = inflight \ {<<q, e>>} /\ Acknowledge(q, e)
        /\ UNCHANGED failures
     \/ Failing /\ UNCHANGED <<inflight, acked>>
  /\ UNCHANGED <<rowVars, pub, rows, pending, confirmed, groupVars, effectVars>>

broker_lose(q, e) ==
  /\ <<q, e>> \in inflight /\ Failing
  /\ inflight' = inflight \ {<<q, e>>}
  /\ UNCHANGED <<rowVars, pub, rows, pending, confirmed, acked, log, groupVars, effectVars>>

-----------------------------------------------------------------------------
(* The consumer group.                                                     *)

\* The handler's effects and its inbox row commit together; INSERT ... ON
\* CONFLICT DO NOTHING makes a repeat return without effect.
consume_event(e) ==
  /\ consumer_inbox' = consumer_inbox \cup {e}
  /\ applied' = [applied EXCEPT ![e] = IF e \in consumer_inbox THEN @ ELSE @ + 1]

\* The message that consumer c is working on.
Message(c) == log[position[c]]

\* External: the group hands the partition to a member that is polling; it
\* starts from the committed offset.  Taking it from a member that still has
\* it is a failure: that member goes on with its message, unaware.
rebalance(c) ==
  /\ con[c] = "poll" /\ assigned # c
  /\ IF assigned = None THEN UNCHANGED failures ELSE Failing
  /\ assigned' = c
  /\ position' = [position EXCEPT ![c] = offset]
  /\ UNCHANGED <<rowVars, pubVars, log, offset, con, attempts, effectVars>>

\* consumer.poll(max_records=1).
poll(c) ==
  /\ con[c] = "poll" /\ assigned = c /\ position[c] < Len(log)
  /\ position' = [position EXCEPT ![c] = @ + 1]
  /\ attempts' = [attempts EXCEPT ![c] = 0]
  /\ con' = [con EXCEPT ![c] = "attempt"]
  /\ UNCHANGED <<rowVars, pubVars, log, offset, assigned, effectVars, failures>>

\* An attempt that succeeds.
attempt(c) ==
  /\ con[c] = "attempt"
  /\ consume_event(Message(c))
  /\ con' = [con EXCEPT ![c] = "commit"]
  /\ UNCHANGED <<rowVars, pubVars, log, offset, assigned, position, attempts,
                 dead_letters, replaying, failures>>

\* An attempt that raises: the transaction rolled back, or its commit took
\* effect and only the answer was lost.  After the last one, a dead letter.
attempt_fails(c) ==
  /\ con[c] = "attempt" /\ Failing
  /\ \/ UNCHANGED <<consumer_inbox, applied>>
     \/ consume_event(Message(c))
  /\ attempts' = [attempts EXCEPT ![c] = @ + 1]
  /\ con' = [con EXCEPT ![c] = IF attempts[c] + 1 = MaxAttempts THEN "dead_letter" ELSE "attempt"]
  /\ UNCHANGED <<rowVars, pubVars, log, offset, assigned, position, dead_letters, replaying>>

\* INSERT INTO dead_letters, with a fresh id.
dead_letter(c) ==
  /\ con[c] = "dead_letter"
  /\ dead_letters' = [dead_letters EXCEPT ![Message(c)] = @ + 1]
  /\ con' = [con EXCEPT ![c] = "commit"]
  /\ UNCHANGED <<rowVars, pubVars, log, offset, assigned, position, attempts,
                 consumer_inbox, applied, replaying, failures>>

\* Mutant: the failed dead letter is only logged.
dead_letter_shrugs(c) ==
  /\ con[c] = "dead_letter" /\ Failing
  /\ con' = [con EXCEPT ![c] = "commit"]
  /\ UNCHANGED <<rowVars, pubVars, log, offset, assigned, position, attempts, effectVars>>

\* The insert raises (the row may have been written all the same): the
\* consumer seeks back to the message and abandons the iteration.
dead_letter_fails(c) ==
  /\ con[c] = "dead_letter" /\ Failing
  /\ \/ UNCHANGED dead_letters
     \/ dead_letters' = [dead_letters EXCEPT ![Message(c)] = @ + 1]
  /\ position' = [position EXCEPT ![c] = @ - 1]
  /\ con' = [con EXCEPT ![c] = "poll"]
  /\ UNCHANGED <<rowVars, pubVars, log, offset, assigned, attempts, consumer_inbox,
                 applied, replaying>>

\* consumer.commit() commits the position.  It raises when the partition has
\* been taken away, or when the coordinator does not answer; the position
\* stays where it is.
commit(c) ==
  /\ con[c] = "commit"
  /\ \/ assigned = c /\ offset' = position[c] /\ UNCHANGED failures
     \/ assigned # c /\ UNCHANGED <<offset, failures>>
     \/ assigned = c /\ UNCHANGED offset /\ Failing
  /\ con' = [con EXCEPT ![c] = "poll"]
  /\ UNCHANGED <<rowVars, pubVars, log, assigned, position, attempts, effectVars>>

\* The process dies; the group takes its partition back.
consumer_crash(c) ==
  /\ Failing
  /\ con' = [con EXCEPT ![c] = "poll"]
  /\ assigned' = IF assigned = c THEN None ELSE assigned
  /\ UNCHANGED <<rowVars, pubVars, log, offset, position, attempts, effectVars>>

-----------------------------------------------------------------------------
(* ticketing.cli replay --id.                                              *)

\* Mutant: the letter is deleted whether or not its event is applied.
replay_blindly(e) ==
  /\ replaying = None /\ dead_letters[e] > 0
  /\ replaying' = e
  /\ UNCHANGED <<rowVars, pubVars, log, groupVars, consumer_inbox, applied, dead_letters,
                 failures>>

\* The letter's event is consumed (a handler that raises ends the command).
replay(e) ==
  /\ replaying = None /\ dead_letters[e] > 0
  /\ consume_event(e)
  /\ replaying' = e
  /\ UNCHANGED <<rowVars, pubVars, log, groupVars, dead_letters, failures>>

\* The letter is deleted, unless the command dies first.
replay_delete ==
  /\ replaying # None
  /\ \/ /\ dead_letters' = [dead_letters EXCEPT ![replaying] = @ - 1] /\ UNCHANGED failures
     \/ Failing /\ UNCHANGED dead_letters
  /\ replaying' = None
  /\ UNCHANGED <<rowVars, pubVars, log, groupVars, consumer_inbox, applied>>

-----------------------------------------------------------------------------
Publish(p) ==
  \/ \E S \in SUBSET Events : publish_claim(p, S)
  \/ \E e \in Events : publish_send(p, e) \/ future_get(p, e)
  \/ publish_stop(p) \/ publish_confirm(p) \/ publish_crash(p)

Broker == \E q \in Publishers \cup {None}, e \in Events : broker_append(q, e) \/ broker_lose(q, e)

Consume(c) ==
  \/ rebalance(c) \/ poll(c) \/ attempt(c) \/ attempt_fails(c) \/ dead_letter(c)
  \/ dead_letter_fails(c) \/ commit(c) \/ consumer_crash(c)

Next ==
  \/ \E e \in Events : event(e) \/ lease_expires(e) \/ replay(e)
  \/ \E p \in Publishers : Publish(p)
  \/ Broker
  \/ \E c \in Consumers : Consume(c)
  \/ replay_delete

Spec == Init /\ [][Next]_vars

-----------------------------------------------------------------------------
(* Properties.                                                             *)

\* published_at is set only for rows the broker has: a publisher that crashed,
\* timed out or lost its lease never marks a row that Kafka does not hold.
PublishedRowsReachTheLog == \A e \in published : \E i \in 1..Len(log) : log[i] = e

\* "Durable dead letter before committing Kafka offset": every message at or
\* below the committed offset was applied or has a dead letter, whatever
\* crashes, rebalances, failed commits and replays came between.
DoneMessagesAreHandled ==
  /\ offset <= Len(log)
  /\ \A i \in 1..offset : log[i] \in consumer_inbox \/ dead_letters[log[i]] > 0

\* The inbox makes at-least-once delivery, retries after lost commit answers,
\* a consumer that lost its partition and replays take effect exactly once.
AppliedOnce == \A e \in Events : applied[e] = IF e \in consumer_inbox THEN 1 ELSE 0

\* A consumer that was given the partition back, sought back or failed to
\* commit never moves the group's offset backwards (main, role "consumer").
OffsetNeverGoesBack == [][offset' >= offset]_vars

Delivery == INSTANCE EventDelivery WITH
  written <- outbox_events,
  applied <- {e \in Events : applied[e] > 0},
  aside <- {e \in Events : dead_letters[e] > 0}

\* The pipeline keeps the promise of EventDelivery.
ImplementsDelivery == Delivery!DSpec

\* A committed row is eventually applied or set aside for an operator.
EveryEventIsHandled ==
  \A e \in Events : e \in outbox_events ~> e \in consumer_inbox \/ dead_letters[e] > 0
=============================================================================
