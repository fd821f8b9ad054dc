----------------------------- MODULE RedisFirst -----------------------------
(***************************************************************************)
(* Redis-first reservations of one event (its keys share a hash slot):     *)
(* the intake script ENQUEUE owns seats provisionally and queues a command *)
(* on a stream, reservation writers persist commands in PostgreSQL, and    *)
(* the projection keeps writing database rows into the map the intake      *)
(* reads.                                                                  *)
(*                                                                         *)
(* A command id names its hold, its order and their common deadline.  The  *)
(* event's map is either complete or absent here: both an absent map and   *)
(* one marked `updating' make the intake answer SEATMAP_WARMING.           *)
(***************************************************************************)
EXTENDS Integers, Sequences, FiniteSets, Functions

CONSTANTS
  Seats,        \* seat_id values
  Keys,         \* pairs of actor and idempotency key
  Commands,     \* command_id values the intake may draw
  Writers,      \* processes that run persist_reservation_batch
  Clients,      \* browsers that keep one availability body
  None,         \* nothing, SQL NULL or an absent field
  MaxBacklog,   \* redis_reservation_max_backlog
  BatchLimit,   \* count of one stream read
  MaxMaps,      \* bound: times the map is created
  MaxReads,     \* bound: projection reads under way at a time
  MaxFailures   \* bound: crashes, failed calls and slow writers

ASSUME BacklogAssumption == MaxBacklog \in Nat

\* NULL is no command and no status.
ASSUME NoneAssumption ==
  None \notin Commands \cup {"PENDING", "DURABLE", "FAILED", "GONE", "ACTIVE", "BOOKED", "ENDED"}

VARIABLES
  sale_open,    \* whether the sale window is open
  expired,      \* commands whose expires_at has passed
  seatmap,      \* the hash seatmap:v2:{event}
  maps,         \* maps created so far
  idem,         \* reservation-idem: the command of a key
  status,       \* reservation-command: its status, "GONE" once retention passed
  payload,      \* what a command asks for
  stream,       \* entries of the event's stream
  pending,      \* stream entry -> consumer it was delivered to
  row,          \* event_seats
  hold,         \* holds and reservation_commands, by command
  batch,        \* entries a writer has still to handle, in stream order
  step,         \* how far it is with the first of them
  rows,         \* what its snapshot has read
  reads,        \* projection reads not yet written to the map
  cached,       \* the body a browser keeps, with its tag
  failures      \* failures spent

redisVars == <<seatmap, maps, idem, status, stream, pending>>
pgVars == <<row, hold>>
writerVars == <<batch, step, rows>>
vars == <<sale_open, expired, redisVars, payload, pgVars, writerVars, reads, cached, failures>>

NoMap == [incarnation |-> None]

\* The status of a seat row as seat_state and snapshot derive it; neither
\* writes a hold_id into the map.
SeatState(s) ==
  [status |-> IF row[s].booked # None THEN "SOLD"
              ELSE IF row[s].hold # None THEN "HELD" ELSE "AVAILABLE",
   hold_id |-> None, until |-> row[s].hold, source |-> row[s].version]

Init ==
  /\ sale_open = TRUE /\ expired = {}
  /\ row = [s \in Seats |-> [hold |-> None, booked |-> None, version |-> 0]]
  /\ hold = [c \in Commands |-> None]
  /\ seatmap = [incarnation |-> 1, version |-> 0,
                seat |-> [s \in Seats |-> [status |-> "AVAILABLE", hold_id |-> None,
                                           until |-> None, source |-> 0]]]
  /\ maps = 1
  /\ idem = [k \in Keys |-> None]
  /\ status = [c \in Commands |-> None] /\ payload = [c \in Commands |-> None]
  /\ stream = <<>> /\ pending = [c \in Commands |-> None]
  /\ batch = [w \in Writers |-> <<>>]
  /\ step = [w \in Writers |-> "persist"] /\ rows = [w \in Writers |-> None]
  /\ reads = {} /\ cached = [b \in Clients |-> None]
  /\ failures = 0

Failing == failures < MaxFailures /\ failures' = failures + 1

-----------------------------------------------------------------------------
(***************************************************************************)
(* Intake.                                                                 *)
(***************************************************************************)

\* Mutant of Free: a hold is free to take whether or not it has expired.
FreeWhenHeld(s) == seatmap.seat[s].status # "SOLD"

Free(s) ==
  \/ seatmap.seat[s].status = "AVAILABLE"
  \/ seatmap.seat[s].status = "HELD" /\ seatmap.seat[s].until \in expired

\* Every check of ENQUEUE.  A key that is known is answered from its record,
\* or refused as a mismatch, and nothing changes.
Admissible(k, S) ==
  /\ seatmap # NoMap /\ sale_open
  /\ idem[k] = None
  /\ Len(stream) < MaxBacklog
  /\ \A s \in S : Free(s)

\* Each seat written moves the map version by one.
MapVersion(S) == seatmap.version + Cardinality(S)

\* ENQUEUE: all seats, the idempotency record, the command and the stream
\* entry in one script.  A WAIT that falls short only changes the answer.
Enqueue(k, S, c) ==
  /\ S # {} /\ status[c] = None
  /\ Admissible(k, S)
  /\ seatmap' = [seatmap EXCEPT
       !.version = MapVersion(S),
       !.seat = [s \in Seats |-> IF s \in S THEN [@[s] EXCEPT !.status = "HELD", !.hold_id = c,
                                                             !.until = c] ELSE @[s]]]
  /\ idem' = [idem EXCEPT ![k] = c]
  /\ status' = [status EXCEPT ![c] = "PENDING"]
  /\ payload' = [payload EXCEPT ![c] = [key |-> k, seats |-> S]]
  /\ stream' = Append(stream, c)
  /\ UNCHANGED <<sale_open, expired, maps, pending, pgVars, writerVars, reads, cached, failures>>

-----------------------------------------------------------------------------
(***************************************************************************)
(* The writer: persist_reservation_batch.                                  *)
(***************************************************************************)
Idle(w) == batch[w] = <<>>

\* The writer is at this step for the first entry of its batch.
At(w, s) == batch[w] # <<>> /\ step[w] = s

\* Entries are ordered by their id, which only grows.
Precedes(c, d) == \E i, j \in DOMAIN stream : i < j /\ stream[i] = c /\ stream[j] = d

\* What a call with COUNT returns of the entries T: the oldest, in order.
Oldest(T) ==
  {B \in UNION {[1..n -> T] : n \in 0..BatchLimit} :
     /\ \A i, j \in DOMAIN B : i < j => Precedes(B[i], B[j])
     /\ \A c \in T \ Range(B) :
          Len(B) = BatchLimit /\ \A i \in DOMAIN B : Precedes(B[i], c)}

\* Entries no consumer has been given.
Undelivered == {c \in Range(stream) : pending[c] = None}

\* The entries of B are pending for w, which takes them up.
Deliver(w, B) ==
  /\ Idle(w) /\ B # <<>>
  /\ pending' = [c \in Commands |-> IF c \in Range(B) THEN w ELSE pending[c]]
  /\ batch' = [batch EXCEPT ![w] = B]
  /\ UNCHANGED <<sale_open, expired, seatmap, maps, idem, status, stream, payload, pgVars,
                 step, rows, reads, cached>>

\* Mutant of Read: entries leave the stream as they are delivered (NOACK).
ReadNoAck(w) ==
  \E B \in Oldest(Undelivered) :
    /\ Idle(w) /\ B # <<>>
    /\ stream' = SelectSeq(stream, LAMBDA c : c \notin Range(B))
    /\ batch' = [batch EXCEPT ![w] = B]
    /\ UNCHANGED <<sale_open, expired, seatmap, maps, idem, status, pending, payload, pgVars,
                   step, rows, reads, cached, failures>>

\* XREADGROUP with ">": the oldest entries that no consumer has been given.
Read(w) == (\E B \in Oldest(Undelivered) : Deliver(w, B)) /\ UNCHANGED failures

\* A writer still has the entry in hand.
InHand(c) == \E w \in Writers : c \in Range(batch[w])

\* Mutant of Reclaim: a writer leaves its own abandoned entries alone.
ReclaimOthers(w, I) ==
  \E B \in Oldest({c \in I : pending[c] \notin {None, w}}) :
    /\ Deliver(w, B)
    /\ IF \E c \in Range(B) : InHand(c) THEN Failing ELSE UNCHANGED failures

\* XAUTOCLAIM: the oldest of the entries I that were idle for the lease
\* interval.  A writer that still has one of them is slow, a failure.
Reclaim(w, I) ==
  \E B \in Oldest(I \ Undelivered) :
    /\ Deliver(w, B)
    /\ IF \E c \in Range(B) : InHand(c) THEN Failing ELSE UNCHANGED failures

Step(w, s) == step' = [step EXCEPT ![w] = s]

\* Mutant of KeyUsed: the idempotency record of the key is not consulted.
KeyUsedNever(c) == FALSE

\* The idempotency row of the key belongs to another hold.
KeyUsed(c) == \E d \in Commands \ {c} : hold[d] # None /\ payload[d].key = payload[c].key

Taken(c, s) ==
  \/ row[s].booked # None
  \/ row[s].hold \notin {None, c} /\ row[s].hold \notin expired

\* The outcomes of persist_reservation_command that are not infrastructure
\* failures: replayed, refused with a Failure, or committed.
Persist(w) ==
  /\ At(w, "persist")
  /\ LET c == Head(batch[w])
         refused == KeyUsed(c) \/ ~sale_open \/ c \in expired
                    \/ \E s \in payload[c].seats : Taken(c, s)
     IN \/ /\ hold[c] # None
           /\ Step(w, "durable") /\ UNCHANGED pgVars
        \/ /\ hold[c] = None /\ refused
           /\ Step(w, "failed") /\ UNCHANGED pgVars
        \/ /\ hold[c] = None /\ ~refused
           /\ Step(w, "durable")
           /\ hold' = [hold EXCEPT ![c] = "ACTIVE"]
           /\ row' = [s \in Seats |-> IF s \in payload[c].seats
                        THEN [row[s] EXCEPT !.hold = c, !.version = @ + 1] ELSE row[s]]
  /\ UNCHANGED <<sale_open, expired, redisVars, payload, batch, rows, reads, cached, failures>>

\* The batch is abandoned; its entries stay pending until they are reclaimed.
Abandon(w) ==
  /\ batch' = [batch EXCEPT ![w] = <<>>]
  /\ Step(w, "persist")
  /\ rows' = [rows EXCEPT ![w] = None]

\* MARK_DURABLE: a failed or forgotten command makes the writer raise.
MarkDurable(w) ==
  /\ At(w, "durable")
  /\ IF status[Head(batch[w])] \in {"GONE", "FAILED"}
     THEN Abandon(w) /\ UNCHANGED status
     ELSE /\ status' = [status EXCEPT ![Head(batch[w])] = "DURABLE"]
          /\ Step(w, "ack") /\ UNCHANGED <<batch, rows>>
  /\ UNCHANGED <<sale_open, expired, seatmap, maps, idem, stream, pending, payload, pgVars,
                 reads, cached, failures>>

\* Mutant of Owned: compensation frees every seat of the command.
OwnedAll(c) == IF seatmap = NoMap THEN {} ELSE payload[c].seats

\* Seats the map still shows as provisionally held by c.
Owned(c) ==
  IF seatmap = NoMap THEN {} ELSE {s \in payload[c].seats : seatmap.seat[s].hold_id = c}

\* MARK_FAILED: frees the command's own seats, unless it is durable or gone.
MarkFailed(w) ==
  /\ At(w, "failed")
  /\ LET c == Head(batch[w]) IN
       IF status[c] \in {"GONE", "DURABLE"}
       THEN UNCHANGED <<status, seatmap>>
       ELSE /\ status' = [status EXCEPT ![c] = "FAILED"]
            /\ seatmap' = IF Owned(c) = {} THEN seatmap ELSE [seatmap EXCEPT
                 !.version = MapVersion(Owned(c)),
                 !.seat = [s \in Seats |-> IF s \in Owned(c)
                             THEN [@[s] EXCEPT !.status = "AVAILABLE", !.hold_id = None,
                                               !.until = None] ELSE @[s]]]
  /\ Step(w, "snapshot")
  /\ UNCHANGED <<sale_open, expired, maps, idem, stream, pending, payload, pgVars, batch,
                 rows, reads, cached, failures>>

-----------------------------------------------------------------------------
(***************************************************************************)
(* The projection of database rows into the map (PUT).                     *)
(***************************************************************************)
RowStates(S) == [s \in S |-> SeatState(s)]

Selected(src, s) ==
  IF seatmap # NoMap /\ src[s].source <= seatmap.seat[s].source THEN seatmap.seat[s] ELSE src[s]

OldSource(s) == IF seatmap = NoMap THEN 0 ELSE seatmap.seat[s].source

\* A full write takes the sum of row versions for the map's version, a patch
\* adds what its rows advanced.
PutVersion(src) ==
  IF DOMAIN src = Seats
  THEN SumFunction([s \in Seats |-> Selected(src, s).source])
  ELSE seatmap.version
         + SumFunction([s \in DOMAIN src |-> Selected(src, s).source - OldSource(s)])

\* A patch of a map that is not there is refused; its caller snapshots.
Put(src) ==
  /\ seatmap = NoMap => maps < MaxMaps
  /\ IF seatmap = NoMap /\ DOMAIN src # Seats
     THEN UNCHANGED <<seatmap, maps>>
     ELSE /\ seatmap' = [incarnation |-> IF seatmap = NoMap THEN maps + 1
                                         ELSE seatmap.incarnation,
                         version |-> PutVersion(src),
                         seat |-> [s \in Seats |-> IF s \in DOMAIN src THEN Selected(src, s)
                                                   ELSE seatmap.seat[s]]]
          /\ maps' = IF seatmap = NoMap THEN maps + 1 ELSE maps

\* A refresh worker or a reconciler reads the rows of S in one transaction.
ProjectRead(S) ==
  /\ S # {} /\ Cardinality(reads) < MaxReads
  /\ reads' = reads \cup {RowStates(S)}
  /\ UNCHANGED <<sale_open, expired, redisVars, payload, pgVars, writerVars, cached, failures>>

\* What was read reaches the map, later.
ProjectWrite(src) ==
  /\ src \in reads
  /\ reads' = reads \ {src}
  /\ Put(src)
  /\ UNCHANGED <<sale_open, expired, idem, status, stream, pending, payload, pgVars,
                 writerVars, cached, failures>>

\* The writer's own snapshot after a failed command.
SnapshotRead(w) ==
  /\ At(w, "snapshot") /\ rows[w] = None
  /\ rows' = [rows EXCEPT ![w] = RowStates(Seats)]
  /\ UNCHANGED <<sale_open, expired, redisVars, payload, pgVars, batch, step, reads, cached,
                 failures>>

SnapshotWrite(w) ==
  /\ At(w, "snapshot") /\ rows[w] # None
  /\ Put(rows[w])
  /\ Step(w, "ack") /\ rows' = [rows EXCEPT ![w] = None]
  /\ UNCHANGED <<sale_open, expired, idem, status, stream, pending, payload, pgVars, batch,
                 reads, cached, failures>>

\* The entry c, if it is still there, leaves the stream q.
Delete(q, c) ==
  LET i == CHOOSE i \in DOMAIN q : q[i] = c
  IN  IF c \in Range(q) THEN SubSeq(q, 1, i - 1) \o SubSeq(q, i + 1, Len(q)) ELSE q

\* XACK and XDEL, in one step: a crash in between would leave an entry in the
\* stream that is not pending and not delivered again.
Acknowledge(w) ==
  /\ At(w, "ack")
  /\ stream' = Delete(stream, Head(batch[w]))
  /\ pending' = [pending EXCEPT ![Head(batch[w])] = None]
  /\ batch' = [batch EXCEPT ![w] = Tail(@)]
  /\ Step(w, "persist")
  /\ UNCHANGED <<sale_open, expired, seatmap, maps, idem, status, payload, pgVars, rows,
                 reads, cached, failures>>

\* The process dies or a call raises anything but Failure.
WriterFails(w) ==
  /\ ~Idle(w)
  /\ Failing
  /\ Abandon(w)
  /\ UNCHANGED <<sale_open, expired, redisVars, payload, pgVars, reads, cached>>

-----------------------------------------------------------------------------
(***************************************************************************)
(* Durable holds, time, and browsers.                                      *)
(***************************************************************************)

\* The hold is released by its owner, or expires: its seats become free.
EndHold(c) ==
  /\ hold[c] = "ACTIVE"
  /\ hold' = [hold EXCEPT ![c] = "ENDED"]
  /\ row' = [s \in Seats |-> IF row[s].hold = c /\ row[s].booked = None
               THEN [row[s] EXCEPT !.hold = None, !.version = @ + 1] ELSE row[s]]
  /\ UNCHANGED <<sale_open, expired, redisVars, payload, writerVars, reads, cached, failures>>

\* A payment in time books the seats.
Book(c) ==
  /\ hold[c] = "ACTIVE" /\ c \notin expired
  /\ hold' = [hold EXCEPT ![c] = "BOOKED"]
  /\ row' = [s \in Seats |-> IF row[s].hold = c
               THEN [row[s] EXCEPT !.hold = None, !.booked = c, !.version = @ + 1] ELSE row[s]]
  /\ UNCHANGED <<sale_open, expired, redisVars, payload, writerVars, reads, cached, failures>>

Deadline(c) ==
  /\ status[c] # None /\ c \notin expired
  /\ expired' = expired \cup {c}
  /\ UNCHANGED <<sale_open, redisVars, payload, pgVars, writerVars, reads, cached, failures>>

\* retention_seconds pass: the command and its idempotency record expire.  A
\* writer that sits on the entry all that time counts as a failure.
Retention(c) ==
  /\ c \in expired /\ status[c] # "GONE"
  /\ IF InHand(c) THEN Failing ELSE UNCHANGED failures
  /\ status' = [status EXCEPT ![c] = "GONE"]
  /\ idem' = [k \in Keys |-> IF idem[k] = c THEN None ELSE idem[k]]
  /\ UNCHANGED <<sale_open, expired, seatmap, maps, stream, pending, payload, pgVars,
                 writerVars, reads, cached>>

SaleEnds ==
  /\ sale_open
  /\ sale_open' = FALSE
  /\ UNCHANGED <<expired, redisVars, payload, pgVars, writerVars, reads, cached, failures>>

\* The map's TTL passes, or Redis evicts it.
MapLost ==
  /\ seatmap # NoMap /\ maps < MaxMaps
  /\ seatmap' = NoMap
  /\ UNCHANGED <<sale_open, expired, maps, idem, status, stream, pending, payload, pgVars,
                 writerVars, reads, cached, failures>>

Tag == <<seatmap.incarnation, seatmap.version>>
Body == [s \in Seats |-> [status |-> seatmap.seat[s].status, until |-> seatmap.seat[s].until]]

\* BROWSE answers 200: tag and body of one instant.
Browse(b) ==
  /\ cached[b] = None /\ seatmap # NoMap
  /\ cached' = [cached EXCEPT ![b] = [tag |-> Tag, body |-> Body]]
  /\ UNCHANGED <<sale_open, expired, redisVars, payload, pgVars, writerVars, reads, failures>>

Next ==
  \/ \E k \in Keys, S \in SUBSET Seats, c \in Commands : Enqueue(k, S, c)
  \/ \E w \in Writers : Read(w)
  \/ \E w \in Writers, I \in SUBSET Range(stream) : Reclaim(w, I)
  \/ \E w \in Writers : Persist(w)
  \/ \E w \in Writers : MarkDurable(w)
  \/ \E w \in Writers : MarkFailed(w)
  \/ \E w \in Writers : SnapshotRead(w)
  \/ \E w \in Writers : SnapshotWrite(w)
  \/ \E w \in Writers : Acknowledge(w)
  \/ \E w \in Writers : WriterFails(w)
  \/ \E S \in SUBSET Seats : ProjectRead(S)
  \/ \E src \in reads : ProjectWrite(src)
  \/ \E c \in Commands : EndHold(c)
  \/ \E c \in Commands : Book(c)
  \/ \E c \in Commands : Deadline(c)
  \/ \E c \in Commands : Retention(c)
  \/ SaleEnds
  \/ MapLost
  \/ \E b \in Clients : Browse(b)

Spec == Init /\ [][Next]_vars

-----------------------------------------------------------------------------
(***************************************************************************)
(* Properties.                                                             *)
(***************************************************************************)
\* A pending command is on the stream until it is settled: no crash,
\* redelivery or abandoned batch loses an accepted reservation, and the
\* stream never holds more than the configured backlog.
PendingIsQueued ==
  /\ \A c \in Commands : status[c] = "PENDING" => c \in Range(stream)
  /\ Len(stream) <= MaxBacklog

\* A command reported DURABLE has a hold in PostgreSQL, and a key never gets
\* two holds there, even after its Redis record has expired.
DurableIsBacked ==
  /\ \A c \in Commands : status[c] = "DURABLE" => hold[c] # None
  /\ \A c, d \in Commands : hold[c] # None /\ hold[d] # None
       /\ payload[c].key = payload[d].key => c = d

\* Whatever the intake let through, a seat is never booked by a command whose
\* hold ended, and every running, unexpired hold has all of its seats.
DurableOwnership ==
  \A c \in Commands :
    /\ hold[c] = "ACTIVE" /\ c \notin expired
         => \A s \in payload[c].seats : row[s].hold = c /\ row[s].booked = None
    /\ hold[c] = "BOOKED" => \A s \in payload[c].seats : row[s].booked = c
    /\ hold[c] = "ENDED" => \A s \in Seats : row[s].booked # c

\* What mark_durable reports is in PostgreSQL, once per key, and owns its
\* seats there until its deadline.
DurableIsOwned == DurableIsBacked /\ DurableOwnership

\* A step never changes DURABLE or FAILED, which a client that polls takes for
\* final answers.
SettledStatusIsFinal ==
  \A c \in Commands : status[c] \in {"DURABLE", "FAILED"} => status'[c] \in {status[c], "GONE"}

\* A step of fail_command, which compensates a failed command, leaves the
\* seats of a later owner alone.
CompensationIsFenced ==
  \A c \in Commands : status[c] # "FAILED" /\ status'[c] = "FAILED" =>
    \A s \in Seats : seatmap # NoMap /\ seatmap.seat[s].hold_id # c
      => seatmap'.seat[s] = seatmap.seat[s]

\* fail_command frees no seat of a later owner, also after the map was lost
\* and rebuilt, and neither it nor mark_durable takes back an answer.
SettlementIsFenced == [][CompensationIsFenced /\ SettledStatusIsFinal]_vars

\* A command whose reservation may still become, or is, an owner of its seats.
Alive(c) == status[c] \in {"PENDING", "DURABLE"} /\ c \notin expired /\ hold[c] # "ENDED"

\* One winner per seat before PostgreSQL is asked: until a newer database row
\* reaches a seat of the first map, ENQUEUE alone keeps two live commands from
\* sharing the seat.
OneWinnerPerSeat ==
  seatmap # NoMap /\ maps = 1 =>
    \A s \in Seats : seatmap.seat[s].source = 0 =>
      \A c, d \in Commands : Alive(c) /\ Alive(d)
        /\ s \in payload[c].seats \cap payload[d].seats => c = d

\* A command reported FAILED has no hold in PostgreSQL: the client is told
\* the reservation failed, and nothing is left that could be paid.
FailedHasNoHold ==
  \A c \in Commands : status[c] = "FAILED" => hold[c] \in {None, "ENDED"}

\* A step of PUT, which writes a database row to the map, never displaces an
\* unexpired provisional owner whose command is still pending.
ProvisionalOwnerIsKept ==
  [][\A c \in Commands, s \in Seats :
    seatmap # NoMap /\ seatmap' # NoMap /\ seatmap.seat[s].hold_id = c
      /\ status[c] = "PENDING" /\ hold[c] = None /\ status'[c] = "PENDING"
      /\ c \notin expired
      => seatmap'.seat[s].hold_id = c]_vars

\* A browser that revalidates and is told 304 holds the current body.
NotModifiedMeansUnchanged ==
  \A b \in Clients : cached[b] # None /\ seatmap # NoMap /\ cached[b].tag = Tag
    => cached[b].body = Body

\* An entry whose hold is durable but whose Redis record says FAILED or is
\* gone: mark_durable refuses it, and it stays for an operator.
AwaitsOperator(c) ==
  c \in Range(stream) /\ hold[c] # None /\ status[c] \in {"FAILED", "GONE"}

\* Every accepted command is settled, across crashes and abandoned batches,
\* unless an entry that awaits an operator makes writers give up the batches
\* it is claimed in.
CommandsAreSettled ==
  \A c \in Commands : status[c] = "PENDING"
    ~> status[c] # "PENDING" \/ \E d \in Commands : AwaitsOperator(d)

=============================================================================
