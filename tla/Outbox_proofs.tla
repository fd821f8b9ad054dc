---------------------------- MODULE Outbox_proofs ----------------------------
(***************************************************************************)
(* Proofs about Outbox, for any number of events, publishers, consumers,   *)
(* attempts and failures.  The inductive invariant has three parts:        *)
(*   - RecordsAreRows: whatever is claimed, sent, logged or published is a *)
(*     committed row, and acknowledged rows are in the log;                *)
(*   - GroupPosition: where the owner of the partition stands relative to  *)
(*     the committed offset, and that all it has passed was handled;       *)
(*   - AppliedOnce, with the operator's replayed event already applied.    *)
(***************************************************************************)
EXTENDS Outbox, TLAPS

USE MemberAssumption, CountAssumption

-----------------------------------------------------------------------------
(* Type correctness, one group of variables at a time.                     *)

RowTypes ==
  /\ outbox_events \in SUBSET Events
  /\ published \in SUBSET Events
  /\ leased \in SUBSET Events
  /\ lease_token \in [Events -> Publishers \cup {None}]

BatchTypes ==
  /\ pub \in [Publishers -> PublisherPhases]
  /\ rows \in [Publishers -> SUBSET Events]
  /\ pending \in [Publishers -> SUBSET Events]
  /\ confirmed \in [Publishers -> SUBSET Events]
  /\ inflight \in SUBSET ((Publishers \cup {None}) \X Events)
  /\ acked \in [Publishers -> SUBSET Events]

GroupTypes ==
  /\ offset \in Nat
  /\ assigned \in Consumers \cup {None}
  /\ position \in [Consumers -> Nat]
  /\ con \in [Consumers -> ConsumerPhases]
  /\ attempts \in [Consumers -> Nat]

EffectTypes ==
  /\ consumer_inbox \in SUBSET Events
  /\ applied \in [Events -> Nat]
  /\ dead_letters \in [Events -> Nat]
  /\ replaying \in Events \cup {None}

LogTypes == log \in Seq(Events)

FailureTypes == failures \in 0..MaxFailures

\* The groups make up TypeOK.
LEMMA TypeParts ==
  TypeOK <=> RowTypes /\ BatchTypes /\ GroupTypes /\ EffectTypes /\ LogTypes /\ FailureTypes
BY DEF TypeOK, RowTypes, BatchTypes, GroupTypes, EffectTypes, LogTypes, FailureTypes

\* A group that a step leaves alone stays well typed.
LEMMA KeepTypes ==
  /\ RowTypes /\ UNCHANGED rowVars => RowTypes'
  /\ BatchTypes /\ UNCHANGED pubVars => BatchTypes'
  /\ GroupTypes /\ UNCHANGED groupVars => GroupTypes'
  /\ EffectTypes /\ UNCHANGED effectVars => EffectTypes'
  /\ LogTypes /\ UNCHANGED log => LogTypes'
  /\ FailureTypes /\ (Failing \/ UNCHANGED failures) => FailureTypes'
<1>1. RowTypes /\ UNCHANGED rowVars => RowTypes'
  BY DEF RowTypes, rowVars
<1>2. BatchTypes /\ UNCHANGED pubVars => BatchTypes'
  BY DEF BatchTypes, pubVars
<1>3. GroupTypes /\ UNCHANGED groupVars => GroupTypes'
  BY DEF GroupTypes, groupVars
<1>4. EffectTypes /\ UNCHANGED effectVars => EffectTypes'
  BY DEF EffectTypes, effectVars
<1>5. LogTypes /\ UNCHANGED log => LogTypes'
  BY DEF LogTypes
<1>6. FailureTypes /\ (Failing \/ UNCHANGED failures) => FailureTypes'
  BY DEF FailureTypes, Failing
<1> QED
  BY <1>1, <1>2, <1>3, <1>4, <1>5, <1>6

\* The initial state is well typed.
LEMMA InitTypeOK == Init => TypeOK
BY DEF Init, TypeOK, PublisherPhases, ConsumerPhases

\* A step of a publisher, of a lease or of a transaction keeps the types.
LEMMA PublishTypeOK ==
  ASSUME TypeOK, (\E p \in Publishers : Publish(p))
                   \/ (\E e \in Events : event(e) \/ lease_expires(e))
  PROVE  TypeOK'
<1>0. RowTypes /\ BatchTypes /\ GroupTypes /\ EffectTypes /\ LogTypes /\ FailureTypes
  BY TypeParts
<1> SUFFICES RowTypes' /\ BatchTypes' /\ GroupTypes' /\ EffectTypes' /\ LogTypes'
               /\ FailureTypes'
  BY TypeParts, PTL
<1>1. /\ UNCHANGED <<log, groupVars, effectVars>>
      /\ Failing \/ UNCHANGED failures
  <2>1. ASSUME NEW p \in Publishers, Publish(p)
        PROVE  UNCHANGED <<log, groupVars, effectVars>>
    BY <2>1 DEF Publish, publish_claim, publish_send, publish_stop, future_get,
       publish_confirm, publish_crash
  <2>2. ASSUME NEW p \in Publishers, Publish(p) PROVE Failing \/ UNCHANGED failures
    BY <2>2 DEF Publish, publish_claim, publish_send, publish_stop, future_get,
       FutureResult, publish_confirm, publish_crash
  <2>3. ASSUME NEW e \in Events, event(e) \/ lease_expires(e)
        PROVE  /\ UNCHANGED <<log, groupVars, effectVars>>
               /\ Failing \/ UNCHANGED failures
    BY <2>3 DEF event, lease_expires
  <2> QED
    BY <2>1, <2>2, <2>3
<1>2. RowTypes' /\ BatchTypes'
  <2>1. ASSUME NEW e \in Events, event(e) PROVE RowTypes' /\ BatchTypes'
    BY <1>0, <2>1, KeepTypes DEF event, RowTypes
  <2>2. ASSUME NEW e \in Events, lease_expires(e) PROVE RowTypes' /\ BatchTypes'
    BY <1>0, <2>2, KeepTypes DEF lease_expires, RowTypes
  <2>3. ASSUME NEW p \in Publishers, NEW S \in SUBSET Events, publish_claim(p, S)
        PROVE  RowTypes' /\ BatchTypes'
    <3>1. RowTypes'
      BY <1>0, <2>3 DEF publish_claim, RowTypes
    <3>2. BatchTypes'
      BY <1>0, <2>3 DEF publish_claim, BatchTypes, PublisherPhases
    <3> QED
      BY <3>1, <3>2
  <2>4. ASSUME NEW p \in Publishers, NEW e \in Events, publish_send(p, e)
        PROVE  RowTypes' /\ BatchTypes'
    BY <1>0, <2>4, KeepTypes DEF publish_send, BatchTypes
  <2>5. ASSUME NEW p \in Publishers, NEW e \in Events, future_get(p, e)
        PROVE  RowTypes' /\ BatchTypes'
    <3>1. confirmed' \in [Publishers -> SUBSET Events]
      BY <1>0, <2>5 DEF future_get, FutureResult, BatchTypes
    <3>2. inflight' \in SUBSET ((Publishers \cup {None}) \X Events)
      BY <1>0, <2>5 DEF future_get, FutureResult, BatchTypes
    <3> QED
      BY <1>0, <2>5, <3>1, <3>2, KeepTypes DEF future_get, BatchTypes
  <2>6. ASSUME NEW p \in Publishers, publish_stop(p) PROVE RowTypes' /\ BatchTypes'
    BY <1>0, <2>6, KeepTypes DEF publish_stop, BatchTypes, PublisherPhases
  <2>7. ASSUME NEW p \in Publishers, publish_confirm(p) PROVE RowTypes' /\ BatchTypes'
    <3>1. RowTypes'
      BY <1>0, <2>7 DEF publish_confirm, Owned, RowTypes, BatchTypes
    <3>2. BatchTypes'
      BY <1>0, <2>7 DEF publish_confirm, BatchTypes, PublisherPhases
    <3> QED
      BY <3>1, <3>2
  <2>8. ASSUME NEW p \in Publishers, publish_crash(p) PROVE RowTypes' /\ BatchTypes'
    <3>1. inflight' \in SUBSET ((Publishers \cup {None}) \X Events)
      BY <1>0, <2>8 DEF publish_crash, Orphans, BatchTypes
    <3> QED
      BY <1>0, <2>8, <3>1, KeepTypes DEF publish_crash, BatchTypes, PublisherPhases
  <2> QED
    BY <2>1, <2>2, <2>3, <2>4, <2>5, <2>6, <2>7, <2>8 DEF Publish
<1> QED
  BY <1>0, <1>1, <1>2, KeepTypes

-----------------------------------------------------------------------------
(* The inductive invariant.                                                *)

\* The events in the log.
Logged == {log[i] : i \in 1..Len(log)}

\* Applied, or kept for an operator.
Handled(e) == e \in consumer_inbox \/ dead_letters[e] > 0

RecordsAreRows ==
  /\ \A p \in Publishers : rows[p] \cup pending[p] \subseteq outbox_events
  /\ \A r \in inflight : r[2] \in outbox_events
  /\ \A p \in Publishers : acked[p] \cup confirmed[p] \subseteq Logged
  /\ published \subseteq Logged
  /\ Logged \subseteq outbox_events

GroupPosition ==
  /\ offset <= Len(log)
  /\ \A c \in Consumers :
       /\ position[c] <= Len(log)
       /\ con[c] # "poll" => position[c] > 0
       /\ assigned = c => offset <= position[c]
       /\ assigned = c /\ con[c] # "poll" => offset < position[c]

PassedIsHandled ==
  /\ \A c \in Consumers : assigned = c => \A i \in 1..position[c] :
       Handled(log[i]) \/ (i = position[c] /\ con[c] \in {"attempt", "dead_letter"})
  /\ \A i \in 1..offset : Handled(log[i])

ReplayedIsApplied ==
  replaying # None => replaying \in consumer_inbox /\ dead_letters[replaying] > 0

OutboxInv ==
  /\ TypeOK
  /\ RecordsAreRows
  /\ GroupPosition
  /\ PassedIsHandled
  /\ ReplayedIsApplied
  /\ AppliedOnce

\* The message a consumer works on is an event of the log.
LEMMA MessageIsLogged ==
  ASSUME LogTypes, GroupTypes, GroupPosition, NEW c \in Consumers, con[c] # "poll"
  PROVE  Message(c) \in Events /\ Message(c) \in Logged
<1>1. position[c] \in 1..Len(log)
  BY DEF LogTypes, GroupTypes, GroupPosition
<1> QED
  BY <1>1 DEF LogTypes, Message, Logged

\* A step of the broker, of a consumer or of the operator keeps the types.
LEMMA ConsumeTypeOK ==
  ASSUME TypeOK, GroupPosition, ReplayedIsApplied,
         Broker \/ (\E c \in Consumers : Consume(c)) \/ replay_delete
           \/ (\E e \in Events : replay(e))
  PROVE  TypeOK'
<1>0. RowTypes /\ BatchTypes /\ GroupTypes /\ EffectTypes /\ LogTypes /\ FailureTypes
  BY TypeParts
<1> SUFFICES RowTypes' /\ BatchTypes' /\ GroupTypes' /\ EffectTypes' /\ LogTypes'
               /\ FailureTypes'
  BY TypeParts, PTL
<1>1. ASSUME NEW e \in Events, consume_event(e)
      PROVE  consumer_inbox' \in SUBSET Events /\ applied' \in [Events -> Nat]
  BY <1>0, <1>1 DEF consume_event, EffectTypes
<1>2. CASE Broker
  <2>1. ASSUME NEW q \in Publishers \cup {None}, NEW e \in Events, broker_append(q, e)
        PROVE  BatchTypes' /\ LogTypes'
    <3>1. LogTypes'
      BY <1>0, <2>1 DEF broker_append, LogTypes
    <3>2. acked' \in [Publishers -> SUBSET Events]
      BY <1>0, <2>1 DEF broker_append, Acknowledge, BatchTypes
    <3> QED
      BY <1>0, <2>1, <3>1, <3>2 DEF broker_append, BatchTypes
  <2>2. ASSUME NEW q \in Publishers \cup {None}, NEW e \in Events, broker_lose(q, e)
        PROVE  BatchTypes' /\ LogTypes'
    BY <1>0, <2>2, KeepTypes DEF broker_lose, BatchTypes
  <2>3. UNCHANGED <<rowVars, groupVars, effectVars>> /\ (Failing \/ UNCHANGED failures)
    BY <1>2 DEF Broker, broker_append, broker_lose
  <2> QED
    BY <1>0, <1>2, <2>1, <2>2, <2>3, KeepTypes DEF Broker
<1>3. ASSUME NEW c \in Consumers, Consume(c)
      PROVE  RowTypes' /\ BatchTypes' /\ GroupTypes' /\ EffectTypes' /\ LogTypes'
               /\ FailureTypes'
  <2>1. UNCHANGED <<rowVars, pubVars, log>> /\ (Failing \/ UNCHANGED failures)
    <3>1. UNCHANGED <<rowVars, pubVars, log>>
      BY <1>3 DEF Consume, rebalance, poll, attempt, attempt_fails, dead_letter,
         dead_letter_fails, commit, consumer_crash
    <3>2. Failing \/ UNCHANGED failures
      <4>1. CASE rebalance(c) \/ poll(c) \/ commit(c) \/ consumer_crash(c)
        BY <4>1 DEF rebalance, poll, commit, consumer_crash
      <4>2. CASE attempt(c) \/ attempt_fails(c) \/ dead_letter(c) \/ dead_letter_fails(c)
        BY <4>2 DEF attempt, attempt_fails, dead_letter, dead_letter_fails
      <4> QED
        BY <1>3, <4>1, <4>2 DEF Consume
    <3> QED
      BY <3>1, <3>2
  <2>2. con[c] # "poll" => Message(c) \in Events
    BY <1>0, MessageIsLogged
  <2>3. EffectTypes'
    <3>1. CASE rebalance(c) \/ poll(c) \/ commit(c) \/ consumer_crash(c)
      BY <1>0, <3>1, KeepTypes DEF rebalance, poll, commit, consumer_crash
    <3>2. CASE attempt(c) \/ attempt_fails(c)
      <4>1. Message(c) \in Events
        BY <2>2, <3>2 DEF attempt, attempt_fails
      <4>2. consumer_inbox' \in SUBSET Events /\ applied' \in [Events -> Nat]
        BY <1>0, <1>1, <3>2, <4>1 DEF attempt, attempt_fails, EffectTypes
      <4> QED
        BY <1>0, <3>2, <4>2 DEF attempt, attempt_fails, EffectTypes
    <3>3. CASE dead_letter(c) \/ dead_letter_fails(c)
      <4>1. Message(c) \in Events
        BY <2>2, <3>3 DEF dead_letter, dead_letter_fails
      <4> QED
        BY <1>0, <3>3, <4>1 DEF dead_letter, dead_letter_fails, EffectTypes, effectVars
    <3> QED
      BY <1>3, <3>1, <3>2, <3>3 DEF Consume
  <2>4. GroupTypes'
    <3>0. CASE rebalance(c)
      BY <1>0, <3>0 DEF rebalance, GroupTypes
    <3>4. CASE poll(c)
      <4>1. position' \in [Consumers -> Nat]
        BY <1>0, <3>4 DEF poll, GroupTypes
      <4>2. con' \in [Consumers -> ConsumerPhases] /\ attempts' \in [Consumers -> Nat]
        BY <1>0, <3>4 DEF poll, GroupTypes, ConsumerPhases
      <4> QED
        BY <1>0, <3>4, <4>1, <4>2 DEF poll, GroupTypes
    <3>1. CASE commit(c) \/ consumer_crash(c)
      BY <1>0, <3>1 DEF commit, consumer_crash, GroupTypes, ConsumerPhases
    <3>2. CASE attempt(c) \/ attempt_fails(c) \/ dead_letter(c)
      BY <1>0, <3>2 DEF attempt, attempt_fails, dead_letter, GroupTypes, ConsumerPhases
    <3>3. CASE dead_letter_fails(c)
      <4>1. position[c] - 1 \in Nat
        BY <1>0, <3>3 DEF dead_letter_fails, GroupPosition, GroupTypes
      <4> QED
        BY <1>0, <3>3, <4>1 DEF dead_letter_fails, GroupTypes, ConsumerPhases
    <3> QED
      BY <1>3, <3>0, <3>1, <3>2, <3>3, <3>4 DEF Consume
  <2> QED
    BY <1>0, <2>1, <2>3, <2>4, KeepTypes
<1>4. ASSUME replay_delete \/ (\E e \in Events : replay(e))
      PROVE  RowTypes' /\ BatchTypes' /\ GroupTypes' /\ EffectTypes' /\ LogTypes'
               /\ FailureTypes'
  <2>1. UNCHANGED <<rowVars, pubVars, log, groupVars>> /\ (Failing \/ UNCHANGED failures)
    BY <1>4 DEF replay_delete, replay
  <2>2. EffectTypes'
    <3>1. ASSUME NEW e \in Events, replay(e) PROVE EffectTypes'
      BY <1>0, <1>1, <3>1 DEF replay, EffectTypes
    <3>2. ASSUME replay_delete PROVE EffectTypes'
      BY <1>0, <3>2 DEF replay_delete, ReplayedIsApplied, EffectTypes
    <3> QED
      BY <1>4, <3>1, <3>2
  <2> QED
    BY <1>0, <2>1, <2>2, KeepTypes
<1> QED
  BY <1>2, <1>3, <1>4

-----------------------------------------------------------------------------
(* The records.                                                            *)

\* Nothing has been written at first.
LEMMA InitOutbox == Init => OutboxInv
<1> SUFFICES ASSUME Init PROVE OutboxInv
  OBVIOUS
<1>1. TypeOK
  BY InitTypeOK
<1>2. RecordsAreRows
  BY DEF Init, RecordsAreRows, Logged
<1>3. GroupPosition /\ PassedIsHandled
  BY DEF Init, GroupPosition, PassedIsHandled
<1>4. ReplayedIsApplied /\ AppliedOnce
  BY DEF Init, ReplayedIsApplied, AppliedOnce
<1> QED
  BY <1>1, <1>2, <1>3, <1>4 DEF OutboxInv

\* Appending a record adds its event to the log and keeps the rest in place.
LEMMA AppendLog ==
  ASSUME LogTypes, NEW e \in Events, log' = Append(log, e)
  PROVE  /\ Logged' = Logged \cup {e}
         /\ Len(log') = Len(log) + 1
         /\ \A i \in 1..Len(log) : log'[i] = log[i]
<1>1. Len(log) \in Nat /\ Len(log') = Len(log) + 1
  BY DEF LogTypes
<1>2. /\ \A i \in 1..Len(log) : log'[i] = log[i]
      /\ log'[Len(log) + 1] = e
  BY <1>1 DEF LogTypes
<1>3. \A i \in 1..Len(log') : i \in 1..Len(log) \/ i = Len(log) + 1
  BY <1>1
<1>4. \A i \in 1..Len(log) : i \in 1..Len(log')
  BY <1>1
<1>5. Len(log) + 1 \in 1..Len(log')
  BY <1>1
<1>6. Logged' \subseteq Logged \cup {e}
  BY <1>2, <1>3 DEF Logged
<1>7. Logged \subseteq Logged'
  BY <1>2, <1>4 DEF Logged
<1>8. e \in Logged'
  BY <1>2, <1>5 DEF Logged
<1> QED
  BY <1>1, <1>2, <1>6, <1>7, <1>8

\* A step of a publisher, of a lease or of a transaction.
LEMMA PublishRecords ==
  ASSUME RowTypes, BatchTypes, RecordsAreRows,
         (\E p \in Publishers : Publish(p)) \/ (\E e \in Events : event(e) \/ lease_expires(e))
  PROVE  RecordsAreRows'
<1> USE DEF RecordsAreRows
<1>0. log' = log => Logged' = Logged
  BY DEF Logged
<1>1. ASSUME NEW e \in Events, event(e) PROVE RecordsAreRows'
  BY <1>0, <1>1 DEF event, pubVars
<1>2. ASSUME NEW e \in Events, lease_expires(e) PROVE RecordsAreRows'
  BY <1>0, <1>2 DEF lease_expires, pubVars
<1>3. ASSUME NEW p \in Publishers, NEW S \in SUBSET Events, publish_claim(p, S)
      PROVE  RecordsAreRows'
  BY <1>0, <1>3 DEF publish_claim, Claimable, BatchTypes
<1>4. ASSUME NEW p \in Publishers, NEW e \in Events, publish_send(p, e)
      PROVE  RecordsAreRows'
  BY <1>0, <1>4 DEF publish_send, BatchTypes, rowVars
<1>5. ASSUME NEW p \in Publishers, NEW e \in Events, future_get(p, e)
      PROVE  RecordsAreRows'
  <2>1. \A q \in Publishers : confirmed'[q] \subseteq Logged
    BY <1>5 DEF future_get, FutureResult, BatchTypes
  <2>2. \A r \in inflight' : r[2] \in outbox_events
    BY <1>5 DEF future_get, FutureResult
  <2>3. \A q \in Publishers : pending'[q] \subseteq pending[q]
    BY <1>5 DEF future_get, BatchTypes
  <2> QED
    BY <1>0, <1>5, <2>1, <2>2, <2>3 DEF future_get, rowVars
<1>6. ASSUME NEW p \in Publishers, publish_stop(p) PROVE RecordsAreRows'
  BY <1>0, <1>6 DEF publish_stop, BatchTypes, rowVars
<1>7. ASSUME NEW p \in Publishers, publish_confirm(p) PROVE RecordsAreRows'
  BY <1>0, <1>7 DEF publish_confirm, Owned, BatchTypes
<1>8. ASSUME NEW p \in Publishers, publish_crash(p) PROVE RecordsAreRows'
  <2>1. \A r \in inflight' : r[2] \in outbox_events
    BY <1>8 DEF publish_crash, Orphans
  <2> QED
    BY <1>0, <1>8, <2>1 DEF publish_crash, BatchTypes, rowVars
<1> QED
  BY <1>1, <1>2, <1>3, <1>4, <1>5, <1>6, <1>7, <1>8 DEF Publish

\* A step of the broker.
LEMMA BrokerRecords ==
  ASSUME LogTypes, BatchTypes, RecordsAreRows, Broker
  PROVE  RecordsAreRows'
<1> USE DEF RecordsAreRows
<1>1. ASSUME NEW q \in Publishers \cup {None}, NEW e \in Events, broker_append(q, e)
      PROVE  RecordsAreRows'
  <2>1. Logged' = Logged \cup {e} /\ e \in outbox_events
    BY <1>1, AppendLog DEF broker_append
  <2>2. \A p \in Publishers : acked'[p] \subseteq acked[p] \cup {e}
    BY <1>1 DEF broker_append, Acknowledge, BatchTypes
  <2>3. inflight' \subseteq inflight
    BY <1>1 DEF broker_append
  <2> QED
    BY <1>1, <2>1, <2>2, <2>3 DEF broker_append, rowVars
<1>2. ASSUME NEW q \in Publishers \cup {None}, NEW e \in Events, broker_lose(q, e)
      PROVE  RecordsAreRows'
  BY <1>2 DEF broker_lose, rowVars, Logged
<1> QED
  BY <1>1, <1>2 DEF Broker

-----------------------------------------------------------------------------
(* The group.                                                              *)

\* The part of the invariant about the consumers and the operator.
GroupInv == GroupPosition /\ PassedIsHandled /\ ReplayedIsApplied /\ AppliedOnce

\* Nothing that was handled becomes unhandled.
StaysHandled == \A e \in Events : Handled(e) => Handled(e)'

\* Steps that concern neither the log, the group nor the effects.
LEMMA KeepGroup ==
  ASSUME GroupInv, UNCHANGED <<log, groupVars, effectVars>>
  PROVE  GroupInv'
<1> USE DEF GroupInv, groupVars, effectVars
<1>1. GroupPosition'
  BY DEF GroupPosition
<1>2. PassedIsHandled'
  BY DEF PassedIsHandled, Handled
<1>3. ReplayedIsApplied' /\ AppliedOnce'
  BY DEF ReplayedIsApplied, AppliedOnce
<1> QED
  BY <1>1, <1>2, <1>3

\* The broker appends behind every position.
LEMMA AppendGroup ==
  ASSUME LogTypes, GroupTypes, GroupInv, NEW e \in Events, log' = Append(log, e),
         UNCHANGED <<groupVars, effectVars>>
  PROVE  GroupInv'
<1> USE DEF groupVars, effectVars
<1>1. /\ Len(log') = Len(log) + 1 /\ Len(log) \in Nat
      /\ \A i \in 1..Len(log) : log'[i] = log[i]
  BY AppendLog DEF LogTypes
<1>2. GroupPosition'
  BY <1>1 DEF GroupInv, GroupPosition, GroupTypes
<1>3. \A c \in Consumers : \A i \in 1..position[c] : log'[i] = log[i]
  BY <1>1 DEF GroupInv, GroupPosition, GroupTypes
<1>4. \A i \in 1..offset : log'[i] = log[i]
  BY <1>1 DEF GroupInv, GroupPosition, GroupTypes
<1>5. PassedIsHandled'
  <2>1. PassedIsHandled /\ UNCHANGED <<consumer_inbox, dead_letters, assigned, position, con, offset>>
    BY DEF GroupInv
  <2>2. \A i \in 1..offset : Handled(log[i]) => Handled(log[i])'
    BY <1>4, <2>1 DEF Handled
  <2>3. \A c \in Consumers : \A i \in 1..position[c] : Handled(log[i]) => Handled(log[i])'
    BY <1>3, <2>1 DEF Handled
  <2> QED
    BY <2>1, <2>2, <2>3 DEF PassedIsHandled
<1>6. ReplayedIsApplied' /\ AppliedOnce'
  BY DEF GroupInv, ReplayedIsApplied, AppliedOnce
<1> QED
  BY <1>2, <1>5, <1>6 DEF GroupInv

\* consume_event applies the event exactly once and settles nothing else.
LEMMA ConsumeOnce ==
  ASSUME EffectTypes, AppliedOnce, NEW e \in Events, consume_event(e),
         UNCHANGED dead_letters
  PROVE  AppliedOnce' /\ StaysHandled /\ Handled(e)' /\ e \in consumer_inbox'
<1>1. consumer_inbox' = consumer_inbox \cup {e}
  BY DEF consume_event
<1>2. AppliedOnce'
  BY DEF consume_event, AppliedOnce, EffectTypes
<1> QED
  BY <1>1, <1>2 DEF StaysHandled, Handled

\* The records of a well-typed log are events.
LEMMA LogIndices ==
  ASSUME LogTypes
  PROVE  Len(log) \in Nat /\ \A i \in 1..Len(log) : log[i] \in Events
BY DEF LogTypes

\* What a step of consumer c must do to keep PassedIsHandled: not disturb what
\* was handled, and pass only over handled messages.
LEMMA PassHandled ==
  ASSUME LogTypes, GroupTypes, GroupPosition, PassedIsHandled, StaysHandled,
         NEW c \in Consumers, UNCHANGED <<log, offset, assigned>>,
         \A d \in Consumers \ {c} : position'[d] = position[d] /\ con'[d] = con[d],
         position'[c] \in 0..Len(log),
         assigned = c => \A i \in 1..position'[c] :
           \/ i \in 1..position[c] /\ Handled(log[i])
           \/ Handled(log[i])'
           \/ i = position'[c] /\ con'[c] \in {"attempt", "dead_letter"}
  PROVE  PassedIsHandled'
<1>1. Len(log) \in Nat /\ \A i \in 1..Len(log) : log[i] \in Events
  BY LogIndices
<1>2. \A i \in 1..Len(log) : Handled(log[i]) => Handled(log[i])'
  BY <1>1 DEF StaysHandled
<1>3. \A i \in 1..offset : Handled(log[i])'
  <2>1. \A i \in 1..offset : i \in 1..Len(log)
    BY <1>1 DEF GroupPosition, GroupTypes
  <2> QED
    BY <1>2, <2>1 DEF PassedIsHandled
<1>4. ASSUME assigned = c, NEW i \in 1..position'[c]
      PROVE  Handled(log[i])' \/ (i = position'[c] /\ con'[c] \in {"attempt", "dead_letter"})
  <2>1. i \in 1..Len(log)
    BY <1>1
  <2> QED
    BY <1>2, <1>4, <2>1
<1>5. ASSUME NEW d \in Consumers, d # c, assigned = d, NEW i \in 1..position[d]
      PROVE  Handled(log[i])' \/ (i = position'[d] /\ con'[d] \in {"attempt", "dead_letter"})
  <2>1. i \in 1..Len(log)
    BY <1>1 DEF GroupPosition, GroupTypes
  <2>2. Handled(log[i]) \/ (i = position[d] /\ con[d] \in {"attempt", "dead_letter"})
    BY <1>5 DEF PassedIsHandled
  <2> QED
    BY <1>2, <1>5, <2>1, <2>2
<1>6. ASSUME NEW d \in Consumers, assigned' = d, NEW i \in 1..position'[d]
      PROVE  Handled(log[i])' \/ (i = position'[d] /\ con'[d] \in {"attempt", "dead_letter"})
  <2>1. CASE d = c
    BY <1>4, <1>6, <2>1
  <2>2. CASE d # c
    BY <1>5, <1>6, <2>2
  <2> QED
    BY <2>1, <2>2
<1> QED
  BY <1>3, <1>6 DEF PassedIsHandled, Handled

\* What a step of consumer c must do to keep GroupPosition: leave the others
\* alone and have its own position in place.
LEMMA KeepPositions ==
  ASSUME GroupPosition, NEW c \in Consumers, log' = log, offset' <= Len(log),
         \A d \in Consumers \ {c} : position'[d] = position[d] /\ con'[d] = con[d],
         \A d \in Consumers \ {c} : assigned' = d => assigned = d /\ offset' = offset,
         position'[c] <= Len(log),
         con'[c] # "poll" => position'[c] > 0,
         assigned' = c => offset' <= position'[c],
         assigned' = c /\ con'[c] # "poll" => offset' < position'[c]
  PROVE  GroupPosition'
<1>1. ASSUME NEW d \in Consumers, d # c
      PROVE  /\ position'[d] <= Len(log)
             /\ con'[d] # "poll" => position'[d] > 0
             /\ assigned' = d => offset' <= position'[d]
             /\ assigned' = d /\ con'[d] # "poll" => offset' < position'[d]
  BY <1>1 DEF GroupPosition
<1> QED
  BY <1>1 DEF GroupPosition

\* A step of a consumer.
LEMMA ConsumeGroup ==
  ASSUME LogTypes, GroupTypes, EffectTypes, GroupInv, NEW c \in Consumers, Consume(c)
  PROVE  GroupInv'
<1>0. /\ GroupPosition /\ PassedIsHandled /\ ReplayedIsApplied /\ AppliedOnce
      /\ Len(log) \in Nat /\ \A i \in 1..Len(log) : log[i] \in Events
  BY DEF GroupInv, LogTypes
<1>1. /\ UNCHANGED <<log, replaying>>
      /\ \A d \in Consumers \ {c} : position'[d] = position[d] /\ con'[d] = con[d]
  <2>1. UNCHANGED <<log, replaying>>
    BY DEF Consume, rebalance, poll, attempt, attempt_fails, dead_letter, dead_letter_fails,
       commit, consumer_crash, effectVars
  <2>2. \A d \in Consumers \ {c} : con'[d] = con[d]
    BY DEF Consume, rebalance, poll, attempt, attempt_fails, dead_letter, dead_letter_fails,
       commit, consumer_crash, GroupTypes
  <2>3. \A d \in Consumers \ {c} : position'[d] = position[d]
    BY DEF Consume, rebalance, poll, attempt, attempt_fails, dead_letter, dead_letter_fails,
       commit, consumer_crash, GroupTypes
  <2> QED
    BY <2>1, <2>2, <2>3
<1>2. ASSUME con[c] # "poll"
      PROVE  /\ position[c] \in 1..Len(log)
             /\ Message(c) = log[position[c]] /\ Message(c) \in Events
  BY <1>0, <1>2 DEF GroupPosition, GroupTypes, Message
<1>10. ASSUME /\ offset' <= Len(log) /\ position'[c] <= Len(log)
              /\ con'[c] # "poll" => position'[c] > 0
              /\ assigned' = c => offset' <= position'[c]
              /\ assigned' = c /\ con'[c] # "poll" => offset' < position'[c],
              \A d \in Consumers \ {c} : assigned' = d => assigned = d /\ offset' = offset
       PROVE  GroupPosition'
  BY <1>0, <1>1, <1>10, KeepPositions
<1>20. con[c] # "poll" => \E m \in Events : m = Message(c)
  BY <1>2
<1>3. ASSUME UNCHANGED effectVars
      PROVE  StaysHandled /\ ReplayedIsApplied' /\ AppliedOnce'
  BY <1>0, <1>3 DEF effectVars, StaysHandled, Handled, ReplayedIsApplied, AppliedOnce
<1>21. /\ Len(log) \in Nat /\ offset \in Nat /\ position[c] \in Nat
       /\ offset <= Len(log) /\ position[c] <= Len(log)
       /\ con[c] # "poll" => position[c] > 0
       /\ assigned = c => offset <= position[c]
       /\ assigned = c /\ con[c] # "poll" => offset < position[c]
  <2>1. offset \in Nat /\ position[c] \in Nat
    BY DEF GroupTypes
  <2> QED
    BY <1>0, <2>1 DEF GroupPosition
<1>22. assigned = c => \A i \in 1..position[c] :
         Handled(log[i]) \/ (i = position[c] /\ con[c] \in {"attempt", "dead_letter"})
  BY <1>0 DEF PassedIsHandled
<1>4. CASE rebalance(c)
  <2>1. /\ UNCHANGED <<offset, con, effectVars>> /\ assigned' = c /\ con[c] = "poll"
        /\ position'[c] = offset
    BY <1>4 DEF rebalance, GroupTypes
  <2>2. GroupPosition'
    <3>1. /\ offset' <= Len(log) /\ position'[c] <= Len(log)
          /\ con'[c] # "poll" => position'[c] > 0
          /\ assigned' = c => offset' <= position'[c]
          /\ assigned' = c /\ con'[c] # "poll" => offset' < position'[c]
      BY <1>21, <2>1
    <3>2. \A d \in Consumers \ {c} : assigned' = d => assigned = d /\ offset' = offset
      BY <2>1
    <3> QED
      BY <1>10, <3>1, <3>2
  <2>3. PassedIsHandled'
    BY <1>0, <1>1, <2>1 DEF PassedIsHandled, Handled, effectVars
  <2> QED
    BY <1>3, <2>1, <2>2, <2>3 DEF GroupInv
<1>5. CASE poll(c)
  <2>1. /\ UNCHANGED <<offset, assigned, effectVars>> /\ assigned = c
        /\ position'[c] = position[c] + 1 /\ con'[c] = "attempt" /\ con[c] = "poll"
        /\ position[c] < Len(log)
    BY <1>5 DEF poll, GroupTypes
  <2>2. GroupPosition'
    <3>1. /\ offset' <= Len(log) /\ position'[c] <= Len(log)
          /\ con'[c] # "poll" => position'[c] > 0
          /\ assigned' = c => offset' <= position'[c]
          /\ assigned' = c /\ con'[c] # "poll" => offset' < position'[c]
      BY <1>21, <2>1
    <3>2. \A d \in Consumers \ {c} : assigned' = d => assigned = d /\ offset' = offset
      BY <2>1
    <3> QED
      BY <1>10, <3>1, <3>2
  <2>3. position'[c] \in 0..Len(log)
    BY <1>21, <2>1
  <2>4. \A i \in 1..position'[c] : (i \in 1..position[c] /\ Handled(log[i])) \/ i = position'[c]
    <3>1. \A i \in 1..position'[c] : i \in 1..position[c] \/ i = position'[c]
      BY <1>21, <2>1
    <3>2. \A i \in 1..position[c] : Handled(log[i])
      BY <1>22, <2>1
    <3> QED
      BY <3>1, <3>2
  <2>5. PassedIsHandled'
    BY <1>0, <1>1, <1>3, <2>1, <2>3, <2>4, PassHandled
  <2> QED
    BY <1>3, <2>1, <2>2, <2>5 DEF GroupInv
<1>6. CASE attempt(c) \/ attempt_fails(c)
  <2>1. /\ UNCHANGED <<offset, assigned, position, dead_letters>> /\ con[c] = "attempt"
        /\ con'[c] \in {"attempt", "dead_letter", "commit"}
    BY <1>6 DEF attempt, attempt_fails, GroupTypes
  <2>2. \/ UNCHANGED <<consumer_inbox, applied>> /\ con'[c] \in {"attempt", "dead_letter"}
        \/ consume_event(Message(c))
    BY <1>6 DEF attempt, attempt_fails, GroupTypes
  <2>0. PICK m \in Events : m = Message(c)
    BY <1>20, <2>1
  <2>3. /\ AppliedOnce' /\ StaysHandled
        /\ con'[c] \in {"attempt", "dead_letter"} \/ Handled(m)'
    <3>1. CASE UNCHANGED <<consumer_inbox, applied>> /\ con'[c] \in {"attempt", "dead_letter"}
      BY <1>1, <1>3, <2>1, <3>1 DEF effectVars
    <3>2. CASE consume_event(m)
      BY <1>0, <2>1, <3>2, ConsumeOnce
    <3> QED
      BY <2>0, <2>2, <3>1, <3>2
  <2>4. ReplayedIsApplied'
    BY <1>0, <1>1, <2>1, <2>2 DEF ReplayedIsApplied, consume_event
  <2>5. GroupPosition'
    <3>1. /\ offset' <= Len(log) /\ position'[c] <= Len(log)
          /\ con'[c] # "poll" => position'[c] > 0
          /\ assigned' = c => offset' <= position'[c]
          /\ assigned' = c /\ con'[c] # "poll" => offset' < position'[c]
      BY <1>21, <2>1
    <3>2. \A d \in Consumers \ {c} : assigned' = d => assigned = d /\ offset' = offset
      BY <2>1
    <3> QED
      BY <1>10, <3>1, <3>2
  <2>6. con'[c] \in {"attempt", "dead_letter"} \/ Handled(log[position[c]])'
    <3>1. log'[position'[c]] = m
      BY <1>1, <1>2, <2>0, <2>1
    <3> QED
      BY <2>3, <3>1 DEF Handled
  <2>7. assigned = c => \A i \in 1..position'[c] :
          \/ i \in 1..position[c] /\ Handled(log[i])
          \/ Handled(log[i])'
          \/ i = position'[c] /\ con'[c] \in {"attempt", "dead_letter"}
    BY <1>22, <2>1, <2>6
  <2>8. position'[c] \in 0..Len(log)
    BY <1>21, <2>1
  <2>9. PassedIsHandled'
    BY <1>0, <1>1, <2>1, <2>3, <2>7, <2>8, PassHandled
  <2> QED
    BY <2>3, <2>4, <2>5, <2>9 DEF GroupInv
<1>7. CASE dead_letter(c) \/ dead_letter_fails(c)
  <2>1. /\ UNCHANGED <<offset, assigned, consumer_inbox, applied>> /\ con[c] = "dead_letter"
        /\ \/ con'[c] = "commit" /\ position' = position
              /\ dead_letters' = [dead_letters EXCEPT ![Message(c)] = @ + 1]
           \/ con'[c] = "poll" /\ position'[c] = position[c] - 1
    BY <1>7 DEF dead_letter, dead_letter_fails, GroupTypes
  <2>2. \A e \in Events : /\ dead_letters[e] \in Nat /\ dead_letters'[e] \in Nat
                         /\ dead_letters'[e] >= dead_letters[e]
    <3>1. PICK m \in Events : m = Message(c)
      BY <1>20, <2>1
    <3>2. dead_letters' = dead_letters \/ dead_letters' = [dead_letters EXCEPT ![m] = @ + 1]
      BY <1>7, <3>1 DEF dead_letter, dead_letter_fails
    <3> QED
      BY <3>2 DEF EffectTypes
  <2>3. StaysHandled
    <3>1. \A e \in Events : dead_letters[e] > 0 => dead_letters'[e] > 0
      BY <2>2
    <3> QED
      BY <2>1, <3>1 DEF StaysHandled, Handled
  <2>4. ReplayedIsApplied' /\ AppliedOnce'
    <3>1. replaying # None => replaying \in Events
      BY DEF EffectTypes
    <3>2. ReplayedIsApplied'
      <4>1. \A e \in Events : dead_letters[e] > 0 => dead_letters'[e] > 0
        BY <2>2
      <4> QED
        BY <1>0, <1>1, <2>1, <3>1, <4>1 DEF ReplayedIsApplied
    <3>3. AppliedOnce'
      BY <1>0, <2>1 DEF AppliedOnce
    <3> QED
      BY <3>2, <3>3
  <2>5. position[c] \in 1..Len(log)
    BY <1>2, <2>1
  <2>6. GroupPosition'
    <3>1. CASE con'[c] = "commit" /\ position' = position
      <4>1. /\ offset' <= Len(log) /\ position'[c] <= Len(log)
            /\ con'[c] # "poll" => position'[c] > 0
            /\ assigned' = c => offset' <= position'[c]
            /\ assigned' = c /\ con'[c] # "poll" => offset' < position'[c]
        BY <1>21, <2>1, <3>1
      <4>2. \A d \in Consumers \ {c} : assigned' = d => assigned = d /\ offset' = offset
        BY <2>1
      <4> QED
        BY <1>10, <4>1, <4>2
    <3>2. CASE con'[c] = "poll" /\ position'[c] = position[c] - 1
      <4>1. position[c] \in Nat /\ offset \in Nat /\ Len(log) \in Nat /\ position[c] <= Len(log)
        BY <1>21
      <4>2. assigned = c => offset < position[c]
        BY <1>21, <2>1
      <4>3. position'[c] = position[c] - 1
        BY <3>2
      <4>4. position'[c] <= Len(log) /\ (offset < position[c] => offset <= position'[c])
        BY <4>1, <4>3
      <4>5. offset' = offset /\ assigned' = assigned /\ con'[c] = "poll" /\ offset <= Len(log)
        BY <1>21, <2>1, <3>2
      <4>6. /\ offset' <= Len(log) /\ position'[c] <= Len(log)
            /\ con'[c] # "poll" => position'[c] > 0
            /\ assigned' = c => offset' <= position'[c]
            /\ assigned' = c /\ con'[c] # "poll" => offset' < position'[c]
        BY <4>2, <4>4, <4>5
      <4>7. \A d \in Consumers \ {c} : assigned' = d => assigned = d /\ offset' = offset
        BY <2>1
      <4> QED
        BY <1>10, <4>6, <4>7
    <3> QED
      BY <2>1, <3>1, <3>2
  <2>7. con'[c] = "commit" => Handled(log[position[c]])'
    <3>1. PICK m \in Events : m = Message(c)
      BY <1>20, <2>1
    <3>2. con'[c] = "commit" => dead_letters'[m] > 0
      BY <2>1, <3>1 DEF EffectTypes
    <3>3. con'[c] = "commit" => log'[position'[c]] = m
      BY <1>1, <1>2, <2>1, <3>1
    <3> QED
      BY <3>2, <3>3 DEF Handled
  <2>8. assigned = c => \A i \in 1..position'[c] :
          \/ i \in 1..position[c] /\ Handled(log[i])
          \/ Handled(log[i])'
          \/ i = position'[c] /\ con'[c] \in {"attempt", "dead_letter"}
    <3>1. CASE con'[c] = "commit" /\ position' = position
      BY <1>22, <2>7, <3>1
    <3>2. CASE con'[c] = "poll" /\ position'[c] = position[c] - 1
      <4>1. \A i \in 1..position'[c] : i \in 1..position[c] /\ i # position[c]
        <5>1. position[c] \in Nat
          BY <1>21
        <5> QED
          BY <3>2, <5>1
      <4> QED
        BY <1>22, <4>1
    <3> QED
      BY <2>1, <3>1, <3>2
  <2>9. position'[c] \in 0..Len(log)
    <3>1. position'[c] \in {position[c], position[c] - 1}
      BY <2>1
    <3> QED
      BY <1>21, <2>5, <3>1
  <2>10. PassedIsHandled'
    BY <1>0, <1>1, <2>1, <2>3, <2>8, <2>9, PassHandled
  <2> QED
    BY <2>4, <2>6, <2>10 DEF GroupInv
<1>8. CASE commit(c)
  <2>1. /\ UNCHANGED <<assigned, position, effectVars>>
        /\ con[c] = "commit" /\ con'[c] = "poll"
        /\ offset' = offset \/ (assigned = c /\ offset' = position[c])
    BY <1>8 DEF commit, GroupTypes
  <2>2. GroupPosition'
    <3>1. /\ offset' <= Len(log) /\ position'[c] <= Len(log)
          /\ con'[c] # "poll" => position'[c] > 0
          /\ assigned' = c => offset' <= position'[c]
          /\ assigned' = c /\ con'[c] # "poll" => offset' < position'[c]
      BY <1>21, <2>1
    <3>2. \A d \in Consumers \ {c} : assigned' = d => assigned = d /\ offset' = offset
      BY <2>1
    <3> QED
      BY <1>10, <3>1, <3>2
  <2>3. assigned = c => \A i \in 1..position[c] : Handled(log[i])
    BY <1>22, <2>1
  <2>4. PassedIsHandled'
    <3>1. \A i \in 1..offset' : Handled(log[i])
      BY <1>0, <2>1, <2>3 DEF PassedIsHandled
    <3>2. \A d \in Consumers : assigned = d => \A i \in 1..position[d] :
            Handled(log[i]) \/ (i = position'[d] /\ con'[d] \in {"attempt", "dead_letter"})
      BY <1>0, <1>1, <2>1, <2>3 DEF PassedIsHandled
    <3> QED
      BY <1>1, <2>1, <3>1, <3>2 DEF PassedIsHandled, Handled, effectVars
  <2> QED
    BY <1>3, <2>1, <2>2, <2>4 DEF GroupInv
<1>9. CASE consumer_crash(c)
  <2>1. /\ UNCHANGED <<offset, position, effectVars>> /\ con'[c] = "poll"
        /\ assigned' # c /\ (assigned' = assigned \/ assigned' = None)
    BY <1>9 DEF consumer_crash, GroupTypes
  <2>2. GroupPosition'
    <3>1. \A d \in Consumers : assigned' = d => assigned = d
      BY <2>1, MemberAssumption
    <3> QED
      BY <1>10, <1>21, <2>1, <3>1
  <2>3. PassedIsHandled'
    <3>1. \A i : Handled(log[i])' <=> Handled(log[i])
      BY <1>1, <2>1 DEF Handled, effectVars
    <3>2. \A d \in Consumers : assigned' = d =>
            d # c /\ assigned = d /\ position'[d] = position[d] /\ con'[d] = con[d]
      BY <1>1, <2>1, MemberAssumption
    <3> QED
      BY <1>0, <2>1, <3>1, <3>2 DEF PassedIsHandled
  <2> QED
    BY <1>3, <2>1, <2>2, <2>3 DEF GroupInv
<1> QED
  BY <1>4, <1>5, <1>6, <1>7, <1>8, <1>9 DEF Consume

\* A step of the operator.
LEMMA ReplayGroup ==
  ASSUME LogTypes, GroupTypes, EffectTypes, GroupInv,
         replay_delete \/ (\E e \in Events : replay(e))
  PROVE  GroupInv'
<1>0. GroupPosition /\ PassedIsHandled /\ ReplayedIsApplied /\ AppliedOnce
  BY DEF GroupInv
<1>1. UNCHANGED <<log, offset, assigned, position, con>>
  BY DEF replay_delete, replay, groupVars
<1>2. GroupPosition'
  BY <1>0, <1>1 DEF GroupPosition
<1>3. StaysHandled /\ ReplayedIsApplied' /\ AppliedOnce'
  <2>1. ASSUME NEW e \in Events, replay(e)
        PROVE  StaysHandled /\ ReplayedIsApplied' /\ AppliedOnce'
    <3>1. UNCHANGED dead_letters /\ consume_event(e) /\ replaying' = e /\ dead_letters[e] > 0
      BY <2>1 DEF replay
    <3>2. AppliedOnce' /\ StaysHandled /\ e \in consumer_inbox'
      BY <1>0, <3>1, ConsumeOnce
    <3> QED
      BY <3>1, <3>2 DEF ReplayedIsApplied
  <2>2. ASSUME replay_delete
        PROVE  StaysHandled /\ ReplayedIsApplied' /\ AppliedOnce'
    <3>1. /\ UNCHANGED <<consumer_inbox, applied>> /\ replaying' = None
          /\ replaying \in Events /\ replaying \in consumer_inbox
      BY <1>0, <2>2 DEF replay_delete, ReplayedIsApplied, EffectTypes
    <3>2. \A e \in Events : e = replaying \/ dead_letters'[e] = dead_letters[e]
      BY <2>2 DEF replay_delete, EffectTypes
    <3>3. StaysHandled
      BY <3>1, <3>2 DEF StaysHandled, Handled
    <3> QED
      BY <1>0, <3>1, <3>3 DEF ReplayedIsApplied, AppliedOnce
  <2> QED
    BY <2>1, <2>2
<1>4. PassedIsHandled'
  <2>1. Len(log) \in Nat /\ \A i \in 1..Len(log) : log[i] \in Events
    BY DEF LogTypes
  <2>2. \A i \in 1..Len(log) : Handled(log[i]) => Handled(log[i])'
    <3> SUFFICES ASSUME NEW i \in 1..Len(log), Handled(log[i]) PROVE Handled(log[i])'
      OBVIOUS
    <3>1. PICK e \in Events : e = log[i]
      BY <2>1
    <3>2. Handled(e)'
      BY <1>3, <3>1 DEF StaysHandled
    <3>3. log'[i] = e
      BY <1>1, <3>1
    <3> QED
      BY <3>2, <3>3 DEF Handled
  <2>3. \A i \in 1..offset : i \in 1..Len(log)
    BY <1>0, <2>1 DEF GroupPosition, GroupTypes
  <2>4. \A c \in Consumers : \A i \in 1..position[c] : i \in 1..Len(log)
    BY <1>0, <2>1 DEF GroupPosition, GroupTypes
  <2> QED
    BY <1>0, <1>1, <2>2, <2>3, <2>4 DEF PassedIsHandled
<1> QED
  BY <1>2, <1>3, <1>4 DEF GroupInv

-----------------------------------------------------------------------------
(* The theorems.                                                           *)

\* Every step keeps the invariant.
LEMMA NextOutbox == OutboxInv /\ [Next]_vars => OutboxInv'
<1> SUFFICES ASSUME OutboxInv, [Next]_vars PROVE OutboxInv'
  OBVIOUS
<1>0. /\ RowTypes /\ BatchTypes /\ GroupTypes /\ EffectTypes /\ LogTypes
      /\ TypeOK /\ RecordsAreRows /\ GroupPosition /\ ReplayedIsApplied /\ GroupInv
  BY TypeParts DEF OutboxInv, GroupInv
<1>1. SUFFICES TypeOK' /\ RecordsAreRows' /\ GroupInv'
  BY DEF OutboxInv, GroupInv
<1>2. ASSUME UNCHANGED <<rowVars, pubVars, log>> PROVE RecordsAreRows'
  BY <1>0, <1>2 DEF RecordsAreRows, Logged, rowVars, pubVars
<1>3. CASE (\E p \in Publishers : Publish(p)) \/ (\E e \in Events : event(e) \/ lease_expires(e))
  <2>1. UNCHANGED <<log, groupVars, effectVars>>
    <3>1. ASSUME NEW p \in Publishers, Publish(p)
          PROVE  UNCHANGED <<log, groupVars, effectVars>>
      BY <3>1 DEF Publish, publish_claim, publish_send, publish_stop, future_get,
         publish_confirm, publish_crash
    <3>2. ASSUME NEW e \in Events, event(e) \/ lease_expires(e)
          PROVE  UNCHANGED <<log, groupVars, effectVars>>
      BY <3>2 DEF event, lease_expires
    <3> QED
      BY <1>3, <3>1, <3>2
  <2> QED
    BY <1>0, <1>3, <2>1, PublishTypeOK, PublishRecords, KeepGroup
<1>4. CASE Broker
  <2>1. ASSUME NEW q \in Publishers \cup {None}, NEW e \in Events,
               broker_append(q, e) \/ broker_lose(q, e)
        PROVE  GroupInv'
    <3>1. CASE broker_append(q, e)
      BY <1>0, <3>1, AppendGroup DEF broker_append
    <3>2. CASE broker_lose(q, e)
      BY <1>0, <3>2, KeepGroup DEF broker_lose
    <3> QED
      BY <2>1, <3>1, <3>2
  <2> QED
    BY <1>0, <1>4, <2>1, ConsumeTypeOK, BrokerRecords DEF Broker
<1>5. ASSUME NEW c \in Consumers, Consume(c) PROVE TypeOK' /\ RecordsAreRows' /\ GroupInv'
  <2>1. UNCHANGED <<rowVars, pubVars, log>>
    BY <1>5 DEF Consume, rebalance, poll, attempt, attempt_fails, dead_letter,
       dead_letter_fails, commit, consumer_crash
  <2> QED
    BY <1>0, <1>2, <1>5, <2>1, ConsumeTypeOK, ConsumeGroup
<1>6. CASE replay_delete \/ (\E e \in Events : replay(e))
  <2>1. UNCHANGED <<rowVars, pubVars, log>>
    BY <1>6 DEF replay_delete, replay
  <2> QED
    BY <1>0, <1>2, <1>6, <2>1, ConsumeTypeOK, ReplayGroup
<1>7. CASE UNCHANGED vars
  <2>1. UNCHANGED <<rowVars, pubVars, log, groupVars, effectVars, failures>>
    BY <1>7 DEF vars
  <2>2. RowTypes' /\ BatchTypes' /\ GroupTypes' /\ EffectTypes' /\ LogTypes' /\ FailureTypes'
    BY <1>0, <2>1, KeepTypes, TypeParts
  <2>3. TypeOK'
    BY <2>2, TypeParts, PTL
  <2> QED
    BY <1>0, <1>2, <2>1, <2>3, KeepGroup
<1> QED
  BY <1>3, <1>4, <1>5, <1>6, <1>7 DEF Next

\* The inductive invariant holds of every behaviour.
THEOREM OutboxInvariant == Spec => []OutboxInv
BY InitOutbox, NextOutbox, PTL DEF Spec

\* No publisher ever marks a row that the broker does not have.
THEOREM NoPublishedRowIsMissing == Spec => []PublishedRowsReachTheLog
<1>1. OutboxInv => PublishedRowsReachTheLog
  BY DEF OutboxInv, RecordsAreRows, PublishedRowsReachTheLog, Logged
<1> QED
  BY <1>1, OutboxInvariant, PTL

\* No message at or below the committed offset is lost, for any number of
\* consumers, crashes, rebalances and replays.
THEOREM NoMessageIsLost == Spec => []DoneMessagesAreHandled
<1>1. OutboxInv => DoneMessagesAreHandled
  BY DEF OutboxInv, GroupPosition, PassedIsHandled, Handled, DoneMessagesAreHandled
<1> QED
  BY <1>1, OutboxInvariant, PTL

\* The effects of an event happen once, however often it is delivered.
THEOREM EffectsHappenOnce == Spec => []AppliedOnce
<1>1. OutboxInv => AppliedOnce
  BY DEF OutboxInv
<1> QED
  BY <1>1, OutboxInvariant, PTL

\* The committed offset never moves backwards.
THEOREM OffsetsAdvance == Spec => OffsetNeverGoesBack
<1>1. OutboxInv /\ [Next]_vars => [offset' >= offset]_vars
  <2> SUFFICES ASSUME OutboxInv, [Next]_vars PROVE offset' >= offset
    OBVIOUS
  <2>1. GroupTypes /\ GroupPosition
    BY TypeParts DEF OutboxInv
  <2>2. offset' = offset \/ \E c \in Consumers : assigned = c /\ offset' = position[c]
    <3>1. ASSUME NEW p \in Publishers, Publish(p) PROVE offset' = offset
      BY <3>1 DEF Publish, publish_claim, publish_send, publish_stop, future_get,
         publish_confirm, publish_crash, groupVars
    <3>2. ASSUME NEW e \in Events, event(e) \/ lease_expires(e) \/ replay(e)
          PROVE  offset' = offset
      BY <3>2 DEF event, lease_expires, replay, groupVars
    <3>3. Broker \/ replay_delete => offset' = offset
      BY DEF Broker, broker_append, broker_lose, replay_delete, groupVars
    <3>4. ASSUME NEW c \in Consumers, Consume(c)
          PROVE  offset' = offset \/ (assigned = c /\ offset' = position[c])
      BY <3>4 DEF Consume, rebalance, poll, attempt, attempt_fails, dead_letter,
         dead_letter_fails, commit, consumer_crash
    <3> QED
      BY <3>1, <3>2, <3>3, <3>4 DEF Next, vars, groupVars
  <2> QED
    BY <2>1, <2>2 DEF GroupTypes, GroupPosition
<1> QED
  BY <1>1, OutboxInvariant, PTL DEF Spec, OffsetNeverGoesBack

-----------------------------------------------------------------------------
(* The pipeline implements EventDelivery.                                  *)

\* What a step does to the rows and to the effects.
Quiet == UNCHANGED <<outbox_events, applied, dead_letters>>
Applying(m) ==
  /\ m \in outbox_events /\ consume_event(m) /\ UNCHANGED <<outbox_events, dead_letters>>
SettingAside(m) ==
  /\ m \in outbox_events /\ UNCHANGED <<outbox_events, applied>>
  /\ dead_letters' = [dead_letters EXCEPT ![m] = @ + 1]
Settling(m) ==
  /\ m \in consumer_inbox /\ UNCHANGED <<outbox_events, applied>>
  /\ dead_letters' = [dead_letters EXCEPT ![m] = @ - 1]

\* Dead letters are about committed rows.
DeadLettersAreRows == \A e \in Events : dead_letters[e] > 0 => e \in outbox_events

\* Every step does one of these things, or commits a row.
LEMMA DeliverySteps ==
  ASSUME OutboxInv, DeadLettersAreRows, [Next]_vars
  PROVE  \/ Quiet
         \/ \E e \in Events : event(e)
         \/ \E m \in Events : Applying(m) \/ SettingAside(m) \/ Settling(m)
<1> USE DEF Quiet, effectVars, rowVars
<1>0. /\ GroupTypes /\ EffectTypes /\ LogTypes
      /\ RecordsAreRows /\ GroupPosition /\ ReplayedIsApplied
  BY TypeParts DEF OutboxInv
<1>1. ASSUME NEW p \in Publishers, Publish(p) PROVE Quiet
  BY <1>1 DEF Publish, publish_claim, publish_send, publish_stop, future_get,
     publish_confirm, publish_crash
<1>2. ASSUME NEW e \in Events, lease_expires(e) PROVE Quiet
  BY <1>2 DEF lease_expires
<1>3. Broker => Quiet
  BY DEF Broker, broker_append, broker_lose
<1>4. ASSUME NEW e \in Events, replay(e) PROVE Applying(e)
  BY <1>4 DEF replay, Applying, DeadLettersAreRows
<1>5. replay_delete => Quiet \/ (replaying \in Events /\ Settling(replaying))
  BY <1>0 DEF replay_delete, Settling, ReplayedIsApplied, EffectTypes
<1>6. ASSUME NEW c \in Consumers, Consume(c)
      PROVE  Quiet \/ \E m \in Events : Applying(m) \/ SettingAside(m)
  <2>1. CASE rebalance(c) \/ poll(c) \/ commit(c) \/ consumer_crash(c)
    BY <2>1 DEF rebalance, poll, commit, consumer_crash
  <2>2. CASE attempt(c) \/ attempt_fails(c)
    <3>1. Message(c) \in Events /\ Message(c) \in outbox_events
      BY <1>0, <2>2, MessageIsLogged DEF attempt, attempt_fails, RecordsAreRows
    <3>2. Quiet \/ Applying(Message(c))
      BY <2>2, <3>1 DEF attempt, attempt_fails, Applying
    <3> QED
      BY <3>1, <3>2
  <2>3. CASE dead_letter(c) \/ dead_letter_fails(c)
    <3>1. Message(c) \in Events /\ Message(c) \in outbox_events
      BY <1>0, <2>3, MessageIsLogged DEF dead_letter, dead_letter_fails, RecordsAreRows
    <3>2. Quiet \/ SettingAside(Message(c))
      BY <2>3, <3>1 DEF dead_letter, dead_letter_fails, SettingAside
    <3> QED
      BY <3>1, <3>2
  <2> QED
    BY <1>6, <2>1, <2>2, <2>3 DEF Consume
<1>7. UNCHANGED vars => Quiet
  BY DEF vars
<1> QED
  BY <1>1, <1>2, <1>3, <1>4, <1>5, <1>6, <1>7 DEF Next

\* Dead letters stay about committed rows.
LEMMA NextDeadRows ==
  ASSUME OutboxInv, DeadLettersAreRows, [Next]_vars
  PROVE  DeadLettersAreRows'
<1>0. EffectTypes
  BY TypeParts DEF OutboxInv
<1>1. CASE Quiet \/ \E e \in Events : event(e)
  BY <1>1 DEF Quiet, event, effectVars, DeadLettersAreRows
<1>2. ASSUME NEW m \in Events, Applying(m) \/ SettingAside(m) PROVE DeadLettersAreRows'
  BY <1>0, <1>2 DEF Applying, SettingAside, DeadLettersAreRows, EffectTypes
<1>3. ASSUME NEW m \in Events, Settling(m) PROVE DeadLettersAreRows'
  <2>1. \A e \in Events : dead_letters'[e] > 0 => dead_letters[e] > 0
    BY <1>0, <1>3 DEF Settling, EffectTypes
  <2> QED
    BY <1>3, <2>1 DEF Settling, DeadLettersAreRows
<1> QED
  BY <1>1, <1>2, <1>3, DeliverySteps

\* Every step is a step of EventDelivery, or changes nothing there.
LEMMA DeliveryStep ==
  ASSUME OutboxInv, DeadLettersAreRows, [Next]_vars
  PROVE  [Delivery!DNext]_(Delivery!deliveryVars)
<1> DEFINE done == {e \in Events : applied[e] > 0}
           kept == {e \in Events : dead_letters[e] > 0}
<1>0. /\ EffectTypes /\ AppliedOnce /\ AppliedOnce' /\ done = consumer_inbox
      /\ done' = consumer_inbox'
  <2>1. EffectTypes /\ AppliedOnce
    BY TypeParts DEF OutboxInv
  <2>2. TypeOK' /\ AppliedOnce'
    BY NextOutbox DEF OutboxInv
  <2>3. EffectTypes'
    BY <2>2, TypeParts, PTL
  <2> QED
    BY <2>1, <2>2, <2>3 DEF AppliedOnce, EffectTypes
<1>1. CASE Quiet
  BY <1>1 DEF Quiet, Delivery!deliveryVars
<1>2. ASSUME NEW e \in Events, event(e) PROVE Delivery!Write(e)
  BY <1>2 DEF event, effectVars, Delivery!Write
<1>3. ASSUME NEW m \in Events, Applying(m)
      PROVE  Delivery!Apply(m) \/ UNCHANGED Delivery!deliveryVars
  <2>1. done' = done \cup {m} /\ UNCHANGED <<outbox_events, kept>> /\ m \in outbox_events
    BY <1>0, <1>3 DEF Applying, consume_event
  <2> QED
    BY <2>1 DEF Delivery!Apply, Delivery!deliveryVars
<1>4. ASSUME NEW m \in Events, SettingAside(m)
      PROVE  Delivery!SetAside(m) \/ UNCHANGED Delivery!deliveryVars
  <2>1. kept' = kept \cup {m}
    BY <1>0, <1>4 DEF SettingAside, EffectTypes
  <2>2. UNCHANGED <<outbox_events, done>> /\ m \in outbox_events
    BY <1>4 DEF SettingAside
  <2> QED
    BY <2>1, <2>2 DEF Delivery!SetAside, Delivery!deliveryVars
<1>5. ASSUME NEW m \in Events, Settling(m)
      PROVE  Delivery!Settle(m) \/ UNCHANGED Delivery!deliveryVars
  <2>1. kept' = kept \ {m} \/ kept' = kept
    BY <1>0, <1>5 DEF Settling, EffectTypes
  <2>2. UNCHANGED <<outbox_events, done>> /\ m \in done
    BY <1>0, <1>5 DEF Settling
  <2> QED
    BY <2>1, <2>2 DEF Delivery!Settle, Delivery!deliveryVars
<1> QED
  BY <1>1, <1>2, <1>3, <1>4, <1>5, DeliverySteps DEF Delivery!DNext

\* The pipeline keeps EventDelivery's promise: an event takes effect only after
\* its transaction committed, and is only dropped from the dead letters applied.
THEOREM PipelineImplementsDelivery == Spec => ImplementsDelivery
<1>1. Init => Delivery!DInit /\ DeadLettersAreRows
  BY DEF Init, Delivery!DInit, DeadLettersAreRows
<1>2. OutboxInv /\ DeadLettersAreRows /\ [Next]_vars => DeadLettersAreRows'
  BY NextDeadRows
<1>3. OutboxInv /\ DeadLettersAreRows /\ [Next]_vars => [Delivery!DNext]_(Delivery!deliveryVars)
  BY DeliveryStep
<1> QED
  BY <1>1, <1>2, <1>3, OutboxInvariant, PTL DEF Spec, ImplementsDelivery, Delivery!DSpec
=============================================================================
