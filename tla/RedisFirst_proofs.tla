------------------------- MODULE RedisFirst_proofs --------------------------
(***************************************************************************)
(* What the Redis-first intake promises, for any number of seats, keys,    *)
(* commands, writers and browsers, any backlog, batch and number of maps.  *)
(***************************************************************************)
EXTENDS RedisFirst, TLAPS

Accepted == {c \in Commands : status[c] # None}

\* The commands and their stream.
IntakeInv ==
  /\ status \in [Commands -> {None, "PENDING", "DURABLE", "FAILED", "GONE"}]
  /\ DOMAIN payload = Commands /\ \A c \in Accepted : payload[c].seats \in SUBSET Seats
  /\ expired \in SUBSET Accepted
  /\ stream \in Seq(Commands) /\ Range(stream) \in SUBSET Accepted
  /\ PendingIsQueued

\* What a writer knows of the command in hand: it is stored before it is
\* reported durable, and settled before it leaves the stream.
Known(w) ==
  /\ Idle(w) => step[w] = "persist"
  /\ At(w, "durable") => hold[Head(batch[w])] # None
  /\ At(w, "snapshot") \/ At(w, "ack") => status[Head(batch[w])] # "PENDING"

BatchInv ==
  /\ DOMAIN batch = Writers /\ DOMAIN step = Writers
  /\ \A w \in Writers : /\ batch[w] \in Seq(Commands) /\ Range(batch[w]) \in SUBSET Accepted
                        /\ Known(w)

IsRow(r) ==
  /\ DOMAIN r = {"hold", "booked", "version"} /\ r.version \in Nat
  /\ r.booked # None => r.hold = None

\* Holds and seat rows in PostgreSQL.
HoldInv ==
  /\ hold \in [Commands -> {None, "ACTIVE", "BOOKED", "ENDED"}]
  /\ \A c \in Commands : hold[c] # None => c \in Accepted
  /\ DOMAIN row = Seats /\ \A s \in Seats : IsRow(row[s])
  /\ \A s \in Seats, c \in Commands : row[s].booked = c => hold[c] = "BOOKED"
  /\ DurableIsBacked /\ DurableOwnership

IsSeat(m) == DOMAIN m = {"status", "hold_id", "until", "source"} /\ m.source \in Nat

\* Rows as they are read for the map.
IsRead(src) == DOMAIN src \in SUBSET Seats /\ \A s \in DOMAIN src : IsSeat(src[s])

ReadInv ==
  /\ \A src \in reads : IsRead(src)
  /\ DOMAIN rows = Writers /\ \A w \in Writers : rows[w] # None => IsRead(rows[w])

\* The live command that wants a seat has it, as far as ENQUEUE wrote the map.
Owner(s, c) ==
  seatmap.seat[s].status = "HELD" /\ seatmap.seat[s].hold_id = c /\ seatmap.seat[s].until = c

Owners ==
  \A s \in Seats, c \in Commands :
    seatmap.seat[s].source = 0 /\ Alive(c) /\ s \in payload[c].seats => Owner(s, c)

IsMap(m) ==
  /\ DOMAIN m = {"incarnation", "version", "seat"} /\ DOMAIN m.seat = Seats
  /\ \A s \in Seats : IsSeat(m.seat[s])

MapInv ==
  /\ maps \in Nat \ {0}
  /\ seatmap # NoMap => IsMap(seatmap)
  /\ seatmap # NoMap /\ maps = 1 => Owners

IntakeInvariant == IntakeInv /\ BatchInv /\ HoldInv /\ ReadInv /\ MapInv

-----------------------------------------------------------------------------
(***************************************************************************)
(* At first nothing is accepted, stored or read.                           *)
(***************************************************************************)
LEMMA InitIntake == Init => IntakeInv /\ BatchInv
<1> SUFFICES ASSUME Init PROVE IntakeInv /\ BatchInv
  OBVIOUS
<1>1. /\ status = [c \in Commands |-> None] /\ payload = [c \in Commands |-> None]
      /\ expired = {} /\ stream = <<>>
      /\ batch = [w \in Writers |-> <<>>] /\ step = [w \in Writers |-> "persist"]
  BY DEF Init
<1>2. Accepted = {}
  BY <1>1 DEF Accepted
<1>3. <<>> \in Seq(Commands) /\ Range(<<>>) = {} /\ Len(<<>>) = 0
  BY DEF Range
<1>4. PendingIsQueued
  BY <1>1, <1>3, BacklogAssumption, NoneAssumption DEF PendingIsQueued
<1>5. IntakeInv
  BY <1>1, <1>2, <1>3, <1>4 DEF IntakeInv
<1>6. \A w \in Writers : Known(w)
  BY <1>1 DEF Known, At, Idle
<1>7. BatchInv
  BY <1>1, <1>2, <1>3, <1>6 DEF BatchInv
<1> QED
  BY <1>5, <1>7

LEMMA InitHolds == Init => HoldInv /\ ReadInv
<1> SUFFICES ASSUME Init PROVE HoldInv /\ ReadInv
  OBVIOUS
<1>1. /\ status = [c \in Commands |-> None] /\ hold = [c \in Commands |-> None]
      /\ row = [s \in Seats |-> [hold |-> None, booked |-> None, version |-> 0]]
      /\ reads = {} /\ rows = [w \in Writers |-> None]
  BY DEF Init
<1>2. \A s \in Seats : IsRow(row[s]) /\ row[s].booked = None
  BY <1>1 DEF IsRow
<1>3. DurableIsBacked /\ DurableOwnership
  BY <1>1, NoneAssumption DEF DurableIsBacked, DurableOwnership
<1>4. HoldInv
  BY <1>1, <1>2, <1>3, NoneAssumption DEF HoldInv
<1>5. ReadInv
  BY <1>1 DEF ReadInv
<1> QED
  BY <1>4, <1>5

LEMMA InitMap == Init => MapInv
<1> SUFFICES ASSUME Init PROVE MapInv
  OBVIOUS
<1>1. /\ status = [c \in Commands |-> None] /\ maps = 1
      /\ seatmap = [incarnation |-> 1, version |-> 0,
                    seat |-> [s \in Seats |-> [status |-> "AVAILABLE", hold_id |-> None,
                                               until |-> None, source |-> 0]]]
  BY DEF Init
<1>2. IsMap(seatmap)
  BY <1>1 DEF IsMap, IsSeat
<1>3. \A c \in Commands : ~Alive(c)
  BY <1>1, NoneAssumption DEF Alive
<1>4. Owners
  BY <1>3 DEF Owners
<1> QED
  BY <1>1, <1>2, <1>4 DEF MapInv

LEMMA InitKeeps == Init => IntakeInvariant
BY InitIntake, InitHolds, InitMap DEF IntakeInvariant

-----------------------------------------------------------------------------
(***************************************************************************)
(* Commands go on: what was accepted, settled or stored stays so.          *)
(***************************************************************************)
Onward ==
  \A c \in Commands : /\ status[c] # None => status'[c] # None /\ payload'[c] = payload[c]
                      /\ status[c] # None /\ status[c] # "PENDING" => status'[c] # "PENDING"
                      /\ hold[c] # None => hold'[c] # None

LEMMA HeadAccepted ==
  ASSUME BatchInv, NEW w \in Writers, batch[w] # <<>>
  PROVE  Head(batch[w]) \in Commands /\ status[Head(batch[w])] # None
<1>1. batch[w] \in Seq(Commands) /\ Range(batch[w]) \in SUBSET Accepted
  BY DEF BatchInv
<1>2. Head(batch[w]) \in Range(batch[w])
  BY <1>1 DEF Range
<1> QED
  BY <1>1, <1>2 DEF Accepted

\* Writers that are not at work on their batches.
LEMMA KeptKnown ==
  ASSUME BatchInv, Onward, NEW w \in Writers, batch'[w] = batch[w], step'[w] = step[w]
  PROVE  Known(w)'
<1>1. CASE batch[w] = <<>>
  BY <1>1 DEF Known, At, Idle, BatchInv
<1>2. CASE batch[w] # <<>>
  <2>1. Known(w) /\ Head(batch[w]) \in Commands /\ status[Head(batch[w])] # None
    BY <1>2, HeadAccepted DEF BatchInv
  <2> QED
    BY <1>2, <2>1 DEF Known, At, Idle, Onward
<1> QED
  BY <1>1, <1>2

LEMMA KeptAccepted ==
  ASSUME Onward
  PROVE  Accepted \in SUBSET Accepted'
BY DEF Accepted, Onward

LEMMA KeptBatches ==
  ASSUME BatchInv, Onward, UNCHANGED <<batch, step>>
  PROVE  BatchInv'
<1>1. \A w \in Writers : Known(w)'
  BY KeptKnown
<1>2. \A w \in Writers : Range(batch'[w]) \in SUBSET Accepted'
  BY KeptAccepted DEF BatchInv
<1> QED
  BY <1>1, <1>2 DEF BatchInv

\* One writer takes its next step.
LEMMA StepBatch ==
  ASSUME BatchInv, Onward, NEW v \in Writers,
         DOMAIN batch' = Writers, DOMAIN step' = Writers,
         \A w \in Writers \ {v} : batch'[w] = batch[w] /\ step'[w] = step[w],
         batch'[v] \in Seq(Commands), Range(batch'[v]) \in SUBSET Accepted, Known(v)'
  PROVE  BatchInv'
<1>1. \A w \in Writers : Known(w)'
  BY KeptKnown
<1>2. ASSUME NEW w \in Writers
      PROVE  batch'[w] \in Seq(Commands) /\ Range(batch'[w]) \in SUBSET Accepted'
  <2>1. batch'[w] \in Seq(Commands) /\ Range(batch'[w]) \in SUBSET Accepted
    BY DEF BatchInv
  <2> QED
    BY <2>1, KeptAccepted
<1> QED
  BY <1>1, <1>2 DEF BatchInv

LEMMA KeptIntake ==
  ASSUME IntakeInv, UNCHANGED <<status, payload, expired, stream>>
  PROVE  IntakeInv'
BY DEF IntakeInv, Accepted, PendingIsQueued

\* What COUNT returns is on the stream.
LEMMA OldestOnStream ==
  ASSUME IntakeInv, NEW T \in SUBSET Range(stream), NEW B \in Oldest(T)
  PROVE  B \in Seq(Commands) /\ Range(B) \in SUBSET Accepted
<1>1. T \in SUBSET Accepted /\ T \in SUBSET Commands
  BY DEF IntakeInv, Accepted
<1>2. PICK m \in 0..BatchLimit : B \in [1..m -> T]
  BY DEF Oldest
<1>3. B \in Seq(Commands)
  BY <1>1, <1>2
<1> QED
  BY <1>1, <1>2, <1>3 DEF Range

LEMMA DeliverBatches ==
  ASSUME IntakeInv, BatchInv, NEW w \in Writers, NEW T \in SUBSET Range(stream),
         NEW B \in Oldest(T), Deliver(w, B)
  PROVE  IntakeInv' /\ BatchInv'
<1>1. B \in Seq(Commands) /\ Range(B) \in SUBSET Accepted
  BY OldestOnStream
<1>2. /\ batch' = [batch EXCEPT ![w] = B]
      /\ step[w] = "persist" /\ UNCHANGED <<status, payload, expired, stream, hold, step>>
  BY DEF Deliver, pgVars, BatchInv, Known
<1>3. Onward
  BY <1>2 DEF Onward
<1>4. batch'[w] = B /\ Known(w)'
  BY <1>2 DEF BatchInv, At, Known
<1>5. BatchInv'
  BY <1>1, <1>2, <1>3, <1>4, StepBatch DEF BatchInv
<1> QED
  BY <1>2, <1>5, KeptIntake

-----------------------------------------------------------------------------
(***************************************************************************)
(* Commands and batches, action by action.                                 *)
(***************************************************************************)
LEMMA EnqueueIntake ==
  ASSUME IntakeInv, BatchInv, HoldInv, NEW k \in Keys, NEW S \in SUBSET Seats, NEW c \in Commands,
         Enqueue(k, S, c)
  PROVE  IntakeInv' /\ BatchInv' /\ Onward
<1>1. /\ status[c] = None /\ Len(stream) < MaxBacklog
      /\ status' = [status EXCEPT ![c] = "PENDING"]
      /\ payload' = [payload EXCEPT ![c] = [key |-> k, seats |-> S]]
      /\ stream' = Append(stream, c)
      /\ UNCHANGED <<expired, hold, batch, step>>
  BY DEF Enqueue, Admissible, pgVars, writerVars
<1>2. Onward
  BY <1>1 DEF Onward, IntakeInv
<1>3. Accepted' = Accepted \cup {c}
  BY <1>1, NoneAssumption DEF Accepted, IntakeInv
<1>4. stream' \in Seq(Commands) /\ Len(stream') = Len(stream) + 1 /\ Range(stream') = Range(stream) \cup {c}
  BY <1>1 DEF IntakeInv, Range
<1>5. PendingIsQueued'
  <2>1. Len(stream') <= MaxBacklog
    BY <1>1, <1>4, BacklogAssumption DEF IntakeInv
  <2>2. \A d \in Commands : status'[d] = "PENDING" => d \in Range(stream')
    BY <1>1, <1>4 DEF IntakeInv, PendingIsQueued
  <2> QED
    BY <2>1, <2>2 DEF PendingIsQueued
<1>6. \A d \in Accepted' : payload'[d].seats \in SUBSET Seats
  BY <1>1, <1>3 DEF IntakeInv, Accepted
<1>7. IntakeInv'
  BY <1>1, <1>3, <1>4, <1>5, <1>6 DEF IntakeInv
<1> QED
  BY <1>1, <1>2, <1>7, KeptBatches

LEMMA ReadIntake ==
  ASSUME IntakeInv, BatchInv, NEW w \in Writers,
         Read(w) \/ \E I \in SUBSET Range(stream) : Reclaim(w, I)
  PROVE  IntakeInv' /\ BatchInv' /\ Onward /\ UNCHANGED <<status, expired, pgVars, seatmap, maps, rows, reads, payload>>
<1>1. \E T \in SUBSET Range(stream) : \E B \in Oldest(T) : Deliver(w, B)
  BY DEF Read, Reclaim, Undelivered
<1>2. PICK T \in SUBSET Range(stream) : \E B \in Oldest(T) : Deliver(w, B)
  BY <1>1
<1>3. PICK B \in Oldest(T) : Deliver(w, B)
  BY <1>2
<1>4. UNCHANGED <<status, expired, pgVars, seatmap, maps, rows, reads, payload>>
  BY <1>3 DEF Deliver
<1> QED
  BY <1>3, <1>4, DeliverBatches DEF Onward, pgVars

\* A status that moves on while the stream stays.
LEMMA StatusIntake ==
  ASSUME IntakeInv, NEW c \in Accepted, NEW x \in {"DURABLE", "FAILED", "GONE"},
         status' = [status EXCEPT ![c] = x], UNCHANGED <<payload, expired, stream>>
  PROVE  IntakeInv' /\ Accepted' = Accepted
<1>1. c \in Commands /\ status[c] # None /\ x # None /\ x # "PENDING"
  BY NoneAssumption DEF Accepted
<1>2. \A d \in Commands : status'[d] = IF d = c THEN x ELSE status[d]
  BY <1>1 DEF IntakeInv
<1>3. Accepted' = Accepted
  BY <1>1, <1>2 DEF Accepted
<1>4. PendingIsQueued'
  BY <1>1, <1>2 DEF IntakeInv, PendingIsQueued
<1>5. status' \in [Commands -> {None, "PENDING", "DURABLE", "FAILED", "GONE"}]
  BY <1>1 DEF IntakeInv
<1> QED
  BY <1>3, <1>4, <1>5 DEF IntakeInv

\* A writer goes on with the command in hand.
LEMMA NextStep ==
  ASSUME BatchInv, Onward, NEW w \in Writers, batch[w] # <<>>, NEW x, Step(w, x), batch' = batch,
         x = "durable" => hold'[Head(batch[w])] # None,
         x \in {"snapshot", "ack"} => status'[Head(batch[w])] # "PENDING"
  PROVE  BatchInv'
<1>1. step'[w] = x /\ DOMAIN step' = Writers /\ \A v \in Writers \ {w} : step'[v] = step[v]
  BY DEF BatchInv, Step
<1>2. Known(w)'
  BY <1>1 DEF Known, At, Idle
<1> QED
  BY <1>1, <1>2, StepBatch DEF BatchInv

\* A batch is given up.
LEMMA AbandonBatch ==
  ASSUME BatchInv, Onward, NEW w \in Writers, Abandon(w)
  PROVE  BatchInv'
<1>1. /\ DOMAIN batch' = Writers /\ DOMAIN step' = Writers /\ batch'[w] = <<>> /\ step'[w] = "persist"
      /\ \A v \in Writers \ {w} : batch'[v] = batch[v] /\ step'[v] = step[v]
  BY DEF BatchInv, Abandon, Step
<1>2. Known(w)' /\ <<>> \in Seq(Commands) /\ Range(<<>>) \in SUBSET Accepted
  BY <1>1 DEF Known, At, Idle, Range
<1> QED
  BY <1>1, <1>2, StepBatch

LEMMA PersistIntake ==
  ASSUME IntakeInv, BatchInv, HoldInv, NEW w \in Writers, Persist(w)
  PROVE  IntakeInv' /\ BatchInv'
<1> DEFINE c == Head(batch[w])
<1>1. batch[w] # <<>> /\ c \in Commands
  BY HeadAccepted DEF Persist, At
<1>2. /\ UNCHANGED <<status, payload, expired, stream, batch>>
      /\ Step(w, "durable") \/ Step(w, "failed")
      /\ hold' = hold \/ hold' = [hold EXCEPT ![c] = "ACTIVE"]
      /\ Step(w, "durable") => hold[c] # None \/ hold' = [hold EXCEPT ![c] = "ACTIVE"]
  BY DEF Persist, redisVars, pgVars, Step, BatchInv
<1>3. \A d \in Commands : hold[d] # None => hold'[d] # None
  BY <1>1, <1>2, NoneAssumption DEF HoldInv
<1>4. Onward
  BY <1>2, <1>3 DEF Onward
<1>5. Step(w, "durable") => hold'[c] # None
  BY <1>1, <1>2, <1>3, NoneAssumption DEF HoldInv
<1> HIDE DEF c
<1>6. BatchInv'
  BY <1>1, <1>2, <1>4, <1>5, NextStep DEF c
<1> QED
  BY <1>2, <1>6, KeptIntake

LEMMA MarkDurableIntake ==
  ASSUME IntakeInv, BatchInv, HoldInv, NEW w \in Writers, MarkDurable(w)
  PROVE  /\ IntakeInv' /\ BatchInv' /\ Accepted' = Accepted
         /\ \A d \in Commands : \/ status'[d] = status[d]
                                \/ status[d] \in {"PENDING", "DURABLE"} /\ hold[d] # None /\ status'[d] = "DURABLE"
<1> DEFINE c == Head(batch[w])
<1>1. /\ batch[w] # <<>> /\ c \in Commands /\ status[c] # None /\ hold[c] # None
  BY HeadAccepted DEF MarkDurable, At, BatchInv, Known
<1>2. UNCHANGED <<payload, expired, stream, hold>>
  BY DEF MarkDurable, pgVars
<1> HIDE DEF c
<1>3. CASE status[c] \in {"GONE", "FAILED"}
  <2>1. Abandon(w) /\ status' = status
    BY <1>3 DEF MarkDurable, c
  <2>2. Onward
    BY <1>2, <2>1 DEF Onward
  <2> QED
    BY <1>2, <2>1, <2>2, AbandonBatch, KeptIntake DEF Accepted
<1>4. CASE status[c] \notin {"GONE", "FAILED"}
  <2>1. status' = [status EXCEPT ![c] = "DURABLE"] /\ Step(w, "ack") /\ batch' = batch
    BY <1>4 DEF MarkDurable, c
  <2>2. IntakeInv' /\ Accepted' = Accepted
    BY <1>1, <1>2, <2>1, StatusIntake DEF Accepted
  <2>3. \A d \in Commands : status'[d] = IF d = c THEN "DURABLE" ELSE status[d]
    BY <2>1 DEF IntakeInv
  <2>4. Onward
    BY <1>2, <2>3, NoneAssumption DEF Onward
  <2>5. BatchInv'
    BY <1>1, <2>1, <2>3, <2>4, NextStep DEF c
  <2>6. status[c] \in {"PENDING", "DURABLE"}
    BY <1>1, <1>4 DEF IntakeInv
  <2> QED
    BY <1>1, <2>2, <2>3, <2>5, <2>6
<1> QED
  BY <1>3, <1>4

LEMMA MarkFailedIntake ==
  ASSUME IntakeInv, BatchInv, NEW w \in Writers, MarkFailed(w)
  PROVE  /\ IntakeInv' /\ BatchInv' /\ Accepted' = Accepted
         /\ \A d \in Commands : \/ status'[d] = status[d]
                                \/ d = Head(batch[w]) /\ status[d] \in {"PENDING", "FAILED"} /\ status'[d] = "FAILED"
<1> DEFINE c == Head(batch[w])
<1>1. batch[w] # <<>> /\ c \in Commands /\ status[c] # None
  BY HeadAccepted DEF MarkFailed, At
<1>2. UNCHANGED <<payload, expired, stream, hold, batch>> /\ Step(w, "snapshot")
  BY DEF MarkFailed, pgVars
<1> HIDE DEF c
<1>3. CASE status[c] \in {"GONE", "DURABLE"}
  <2>1. status' = status
    BY <1>3 DEF MarkFailed, c
  <2>2. Onward
    BY <1>2, <2>1 DEF Onward
  <2>3. BatchInv'
    BY <1>1, <1>2, <1>3, <2>1, <2>2, NextStep DEF c
  <2> QED
    BY <1>2, <2>1, <2>3, KeptIntake DEF Accepted
<1>4. CASE status[c] \notin {"GONE", "DURABLE"}
  <2>1. status' = [status EXCEPT ![c] = "FAILED"]
    BY <1>4 DEF MarkFailed, c
  <2>2. IntakeInv' /\ Accepted' = Accepted
    BY <1>1, <1>2, <2>1, StatusIntake DEF Accepted
  <2>3. \A d \in Commands : status'[d] = IF d = c THEN "FAILED" ELSE status[d]
    BY <2>1 DEF IntakeInv
  <2>4. Onward
    BY <1>2, <2>3, NoneAssumption DEF Onward
  <2>5. BatchInv'
    BY <1>1, <1>2, <2>3, <2>4, NextStep DEF c
  <2>6. status[c] \in {"PENDING", "FAILED"}
    BY <1>1, <1>4 DEF IntakeInv
  <2> QED
    BY <2>2, <2>3, <2>5, <2>6 DEF c
<1> QED
  BY <1>3, <1>4

LEMMA SnapshotIntake ==
  ASSUME IntakeInv, BatchInv, NEW w \in Writers, SnapshotRead(w) \/ SnapshotWrite(w)
  PROVE  IntakeInv' /\ BatchInv'
<1>1. UNCHANGED <<status, payload, expired, stream, hold, batch>> /\ At(w, "snapshot")
  BY DEF SnapshotRead, SnapshotWrite, redisVars, pgVars
<1>2. Onward
  BY <1>1 DEF Onward
<1>3. CASE SnapshotRead(w)
  BY <1>1, <1>2, <1>3, KeptBatches, KeptIntake DEF SnapshotRead
<1>4. CASE SnapshotWrite(w)
  <2>1. Step(w, "ack") /\ batch[w] # <<>> /\ status'[Head(batch[w])] # "PENDING"
    BY <1>1, <1>4 DEF SnapshotWrite, BatchInv, Known, At
  <2> QED
    BY <1>1, <1>2, <2>1, NextStep, KeptIntake
<1> QED
  BY <1>3, <1>4

LEMMA Deleted ==
  ASSUME NEW q \in Seq(Commands), NEW c
  PROVE  /\ Delete(q, c) \in Seq(Commands) /\ Len(Delete(q, c)) <= Len(q)
         /\ Range(Delete(q, c)) \in SUBSET Range(q)
         /\ \A d \in Range(q) : d # c => d \in Range(Delete(q, c))
<1>1. CASE c \notin Range(q)
  BY <1>1 DEF Delete
<1>2. CASE c \in Range(q)
  <2>1. PICK k : k = CHOOSE i \in DOMAIN q : q[i] = c
    OBVIOUS
  <2>2. k \in 1..Len(q) /\ q[k] = c
    BY <1>2, <2>1 DEF Range
  <2> DEFINE a == SubSeq(q, 1, k - 1)
             b == SubSeq(q, k + 1, Len(q))
             p == a \o b
  <2>3. Delete(q, c) = p
    BY <1>2, <2>1 DEF Delete
  <2>4. a \in Seq(Commands) /\ Len(a) = k - 1
    BY <2>2
  <2>5. \A i \in 1..(k - 1) : a[i] = q[i]
    BY <2>2
  <2>6. b \in Seq(Commands) /\ Len(b) = Len(q) - k
    BY <2>2
  <2>7. \A i \in 1..(Len(q) - k) : b[i] = q[i + k]
    BY <2>2
  <2> HIDE DEF a, b
  <2>8. p \in Seq(Commands) /\ Len(p) = Len(q) - 1
    BY <2>2, <2>4, <2>6
  <2>9. ASSUME NEW i \in 1..Len(p)
        PROVE  p[i] = IF i < k THEN q[i] ELSE q[i + 1]
    <3>1. CASE i < k
      BY <2>2, <2>4, <2>5, <2>6, <2>8, <3>1
    <3>2. CASE i >= k
      <4>1. p[i] = b[i - (k - 1)] /\ i - (k - 1) \in 1..(Len(q) - k)
        BY <2>2, <2>4, <2>6, <2>8, <3>2
      <4>2. (i - (k - 1)) + k = i + 1
        BY <2>2
      <4>3. b[i - (k - 1)] = q[(i - (k - 1)) + k]
        BY <2>7, <4>1
      <4>4. ~(i < k)
        BY <2>2, <2>8, <3>2
      <4> QED
        BY <4>1, <4>2, <4>3, <4>4
    <3> QED
      BY <2>2, <3>1, <3>2
  <2> HIDE DEF p
  <2>10. Range(p) \in SUBSET Range(q)
    BY <2>2, <2>8, <2>9 DEF Range
  <2>11. ASSUME NEW d \in Range(q), d # c PROVE d \in Range(p)
    <3>1. PICK i \in 1..Len(q) : q[i] = d
      BY DEF Range
    <3>2. CASE i < k
      <4>1. i \in 1..Len(p) /\ p[i] = d
        BY <2>2, <2>8, <2>9, <3>1, <3>2
      <4> QED
        BY <2>8, <4>1 DEF Range
    <3>3. CASE i > k
      <4>1. i - 1 \in 1..Len(p) /\ p[i - 1] = q[(i - 1) + 1]
        BY <2>2, <2>8, <2>9, <3>1, <3>3
      <4>2. (i - 1) + 1 = i
        OBVIOUS
      <4> QED
        BY <2>8, <3>1, <4>1, <4>2 DEF Range
    <3> QED
      BY <2>2, <2>11, <3>1, <3>2, <3>3
  <2> QED
    BY <2>2, <2>3, <2>8, <2>10, <2>11
<1> QED
  BY <1>1, <1>2

LEMMA AcknowledgeIntake ==
  ASSUME IntakeInv, BatchInv, NEW w \in Writers, Acknowledge(w)
  PROVE  IntakeInv' /\ BatchInv'
<1>1. PICK c : c = Head(batch[w])
  OBVIOUS
<1>2. batch[w] # <<>> /\ c \in Commands /\ status[c] # None /\ status[c] # "PENDING"
  BY <1>1, HeadAccepted DEF Acknowledge, At, BatchInv, Known
<1>3. /\ UNCHANGED <<status, payload, expired, hold>> /\ stream' = Delete(stream, c)
      /\ batch' = [batch EXCEPT ![w] = Tail(@)] /\ Step(w, "persist")
  BY <1>1 DEF Acknowledge, pgVars
<1>4. /\ stream' \in Seq(Commands) /\ Len(stream') <= Len(stream) /\ Len(stream) \in Nat
      /\ Range(stream') \in SUBSET Range(stream) /\ \A d \in Range(stream) : d # c => d \in Range(stream')
  BY <1>3, Deleted DEF IntakeInv
<1>5. PendingIsQueued'
  <2>1. Len(stream') <= MaxBacklog
    BY <1>4, BacklogAssumption DEF IntakeInv, PendingIsQueued
  <2>2. \A d \in Commands : status'[d] = "PENDING" => d \in Range(stream')
    BY <1>2, <1>3, <1>4 DEF IntakeInv, PendingIsQueued
  <2> QED
    BY <2>1, <2>2 DEF PendingIsQueued
<1>6. IntakeInv'
  BY <1>3, <1>4, <1>5 DEF IntakeInv, Accepted
<1>7. Onward
  BY <1>3 DEF Onward
<1>8. /\ DOMAIN batch' = Writers /\ DOMAIN step' = Writers
      /\ \A v \in Writers \ {w} : batch'[v] = batch[v] /\ step'[v] = step[v]
      /\ batch'[w] = Tail(batch[w]) /\ step'[w] = "persist"
  BY <1>3 DEF BatchInv, Step
<1>9. batch[w] \in Seq(Commands) /\ Range(batch[w]) \in SUBSET Accepted
  BY DEF BatchInv
<1>10. Tail(batch[w]) \in Seq(Commands) /\ Range(Tail(batch[w])) \in SUBSET Range(batch[w])
  BY <1>2, <1>9 DEF Range
<1>11. Known(w)'
  BY <1>8 DEF Known, At, Idle
<1>12. BatchInv'
  BY <1>7, <1>8, <1>9, <1>10, <1>11, StepBatch
<1> QED
  BY <1>6, <1>12

\* Steps outside the writers and the intake.
LEMMA QuietIntake ==
  ASSUME IntakeInv, BatchInv, Onward, UNCHANGED <<status, payload, expired, stream, batch, step>>
  PROVE  IntakeInv' /\ BatchInv'
BY KeptIntake, KeptBatches

LEMMA DeadlineIntake ==
  ASSUME IntakeInv, BatchInv, NEW c \in Commands, Deadline(c)
  PROVE  IntakeInv' /\ BatchInv' /\ expired \in SUBSET expired'
<1>1. /\ status[c] # None /\ expired' = expired \cup {c}
      /\ UNCHANGED <<status, payload, stream, hold, batch, step>>
  BY DEF Deadline, redisVars, pgVars, writerVars
<1>2. IntakeInv'
  BY <1>1 DEF IntakeInv, Accepted, PendingIsQueued
<1>3. Onward
  BY <1>1 DEF Onward
<1> QED
  BY <1>1, <1>2, <1>3, KeptBatches

LEMMA RetentionIntake ==
  ASSUME IntakeInv, BatchInv, NEW c \in Commands, Retention(c)
  PROVE  /\ IntakeInv' /\ BatchInv' /\ Accepted' = Accepted
         /\ \A d \in Commands : status'[d] = IF d = c THEN "GONE" ELSE status[d]
<1>1. /\ c \in expired /\ status' = [status EXCEPT ![c] = "GONE"]
      /\ UNCHANGED <<payload, expired, stream, hold, batch, step>>
  BY DEF Retention, pgVars, writerVars
<1>2. c \in Accepted
  BY <1>1 DEF IntakeInv
<1>3. IntakeInv' /\ Accepted' = Accepted
  BY <1>1, <1>2, StatusIntake
<1>4. \A d \in Commands : status'[d] = IF d = c THEN "GONE" ELSE status[d]
  BY <1>1 DEF IntakeInv
<1>5. Onward
  BY <1>1, <1>4, NoneAssumption DEF Onward
<1> QED
  BY <1>1, <1>3, <1>4, <1>5, KeptBatches

-----------------------------------------------------------------------------
(***************************************************************************)
(* Holds and seat rows.                                                    *)
(***************************************************************************)
\* Steps that leave PostgreSQL alone.
LEMMA KeptHolds ==
  ASSUME HoldInv, Onward, UNCHANGED <<hold, row>>, expired \in SUBSET expired',
         \A c \in Commands : status'[c] = "DURABLE" => hold[c] # None
  PROVE  HoldInv'
<1>1. \A c \in Commands : hold[c] # None => c \in Accepted /\ payload'[c] = payload[c]
  BY DEF HoldInv, Onward, Accepted
<1>2. DurableIsBacked'
  BY <1>1 DEF HoldInv, DurableIsBacked
<1>3. DurableOwnership'
  BY <1>1, NoneAssumption DEF HoldInv, DurableOwnership
<1>4. \A c \in Commands : hold'[c] # None => c \in Accepted'
  BY <1>1, KeptAccepted
<1> QED
  BY <1>2, <1>3, <1>4 DEF HoldInv

\* The row written by a commit, or left as it was.
LEMMA PersistHolds ==
  ASSUME IntakeInv, BatchInv, HoldInv, NEW w \in Writers, Persist(w)
  PROVE  HoldInv' /\ \A d \in Commands : hold'[d] = hold[d] \/ (hold[d] = None /\ hold'[d] = "ACTIVE")
<1>1. PICK c : c = Head(batch[w])
  OBVIOUS
<1>2. c \in Commands /\ c \in Accepted /\ UNCHANGED <<status, payload, expired>>
  BY <1>1, HeadAccepted DEF Persist, At, redisVars, Accepted
<1>3. CASE UNCHANGED pgVars
  <2>1. Onward
    BY <1>2, <1>3 DEF Onward, pgVars
  <2>2. \A d \in Commands : status'[d] = "DURABLE" => hold[d] # None
    BY <1>2 DEF HoldInv, DurableIsBacked
  <2>3. HoldInv'
    BY <1>2, <1>3, <2>1, <2>2, KeptHolds DEF pgVars
  <2>4. \A d \in Commands : hold'[d] = hold[d]
    BY <1>3 DEF pgVars
  <2> QED
    BY <2>3, <2>4
<1>4. CASE ~UNCHANGED pgVars
  <2>1. /\ hold[c] = None /\ ~KeyUsed(c) /\ c \notin expired
        /\ \A s \in payload[c].seats : ~Taken(c, s)
        /\ hold' = [hold EXCEPT ![c] = "ACTIVE"]
        /\ row' = [s \in Seats |-> IF s \in payload[c].seats
                     THEN [row[s] EXCEPT !.hold = c, !.version = @ + 1] ELSE row[s]]
    BY <1>1, <1>4 DEF Persist
  <2>2. \A d \in Commands : hold'[d] = IF d = c THEN "ACTIVE" ELSE hold[d]
    BY <2>1 DEF HoldInv
  <2>3. ASSUME NEW s \in payload[c].seats
        PROVE  /\ s \in Seats /\ row[s].booked = None /\ row[s].hold \in {None, c} \cup expired
               /\ row'[s].hold = c /\ row'[s].booked = None /\ IsRow(row'[s])
    <3>1. s \in Seats /\ IsRow(row[s]) /\ row[s].booked = None /\ row[s].hold \in {None, c} \cup expired
      BY <1>2, <2>1 DEF IntakeInv, HoldInv, Taken
    <3>2. row'[s] = [row[s] EXCEPT !.hold = c, !.version = @ + 1]
      BY <2>1, <3>1
    <3> QED
      BY <3>1, <3>2 DEF IsRow
  <2>4. \A s \in Seats \ payload[c].seats : row'[s] = row[s]
    BY <2>1
  <2>5. hold' \in [Commands -> {None, "ACTIVE", "BOOKED", "ENDED"}] /\ DOMAIN row' = Seats
    BY <2>1 DEF HoldInv
  <2>6. \A s \in Seats : IsRow(row'[s])
    BY <2>3, <2>4 DEF HoldInv
  <2>7. \A s \in Seats : row'[s].booked = row[s].booked
    BY <2>3, <2>4
  <2>8. ASSUME NEW d \in Commands, NEW s \in Seats, row'[s].booked = d PROVE hold'[d] = "BOOKED"
    BY <2>1, <2>2, <2>7, <2>8, NoneAssumption DEF HoldInv
  <2>9. DurableIsBacked'
    <3>1. \A d \in Commands : status'[d] = "DURABLE" => hold'[d] # None
      BY <1>2, <2>2, NoneAssumption DEF HoldInv, DurableIsBacked
    <3>2. \A d \in Commands \ {c} : hold[d] # None => payload[d].key # payload[c].key
      BY <2>1 DEF KeyUsed
    <3>3. \A d, e \in Commands : hold'[d] # None /\ hold'[e] # None /\ payload'[d].key = payload'[e].key => d = e
      BY <1>2, <2>2, <3>2 DEF HoldInv, DurableIsBacked
    <3> QED
      BY <3>1, <3>3 DEF DurableIsBacked
  <2>10. DurableOwnership'
    <3>1. ASSUME NEW d \in Commands, hold'[d] = "ACTIVE", d \notin expired', NEW s \in payload'[d].seats
          PROVE  row'[s].hold = d /\ row'[s].booked = None
      <4>1. CASE d = c
        BY <1>2, <2>3, <3>1, <4>1
      <4>2. CASE d # c
        <5>1. hold[d] = "ACTIVE" /\ row[s].hold = d /\ row[s].booked = None /\ s \in Seats
          BY <1>2, <2>2, <3>1, <4>2, NoneAssumption DEF HoldInv, DurableOwnership, IntakeInv
        <5>2. s \notin payload[c].seats
          BY <1>2, <2>3, <3>1, <4>2, <5>1, NoneAssumption
        <5> QED
          BY <2>4, <5>1, <5>2
      <4> QED
        BY <4>1, <4>2
    <3>2. ASSUME NEW d \in Commands, hold'[d] = "BOOKED", NEW s \in payload'[d].seats
          PROVE  row'[s].booked = d
      BY <1>2, <2>2, <2>7, <3>2, NoneAssumption DEF HoldInv, DurableOwnership, IntakeInv
    <3>3. \A d \in Commands, s \in Seats : hold'[d] = "ENDED" => row'[s].booked # d
      BY <2>8
    <3> QED
      BY <3>1, <3>2, <3>3 DEF DurableOwnership
  <2>11. \A d \in Commands : hold'[d] # None => d \in Accepted'
    BY <1>2, <2>2 DEF HoldInv, Accepted
  <2>12. HoldInv'
    BY <2>5, <2>6, <2>8, <2>9, <2>10, <2>11 DEF HoldInv
  <2>13. \A d \in Commands : hold'[d] = hold[d] \/ (hold[d] = None /\ hold'[d] = "ACTIVE")
    BY <2>1, <2>2
  <2> QED
    BY <2>12, <2>13
<1> QED
  BY <1>3, <1>4

LEMMA EndHolds ==
  ASSUME IntakeInv, HoldInv, NEW c \in Commands, EndHold(c)
  PROVE  HoldInv' /\ \A d \in Commands : hold'[d] = IF d = c THEN "ENDED" ELSE hold[d]
<1>1. /\ hold[c] = "ACTIVE" /\ hold' = [hold EXCEPT ![c] = "ENDED"]
      /\ row' = [s \in Seats |-> IF row[s].hold = c /\ row[s].booked = None
                   THEN [row[s] EXCEPT !.hold = None, !.version = @ + 1] ELSE row[s]]
      /\ UNCHANGED <<status, payload, expired>>
  BY DEF EndHold, redisVars
<1>2. \A d \in Commands : hold'[d] = IF d = c THEN "ENDED" ELSE hold[d]
  BY <1>1 DEF HoldInv
<1>3. ASSUME NEW s \in Seats
      PROVE  /\ IsRow(row'[s]) /\ row'[s].booked = row[s].booked
             /\ row[s].hold # c => row'[s].hold = row[s].hold
  <2>1. IsRow(row[s])
    BY DEF HoldInv
  <2>2. CASE row[s].hold = c /\ row[s].booked = None
    <3>1. row'[s] = [row[s] EXCEPT !.hold = None, !.version = @ + 1]
      BY <1>1, <2>2
    <3> QED
      BY <2>1, <2>2, <3>1 DEF IsRow
  <2>3. CASE ~(row[s].hold = c /\ row[s].booked = None)
    BY <1>1, <2>1, <2>3
  <2> QED
    BY <2>2, <2>3
<1>4. hold' \in [Commands -> {None, "ACTIVE", "BOOKED", "ENDED"}] /\ DOMAIN row' = Seats
  BY <1>1 DEF HoldInv
<1>5. \A d \in Commands : hold'[d] # None => d \in Accepted'
  BY <1>1, <1>2, NoneAssumption DEF HoldInv, Accepted
<1>6. ASSUME NEW s \in Seats, NEW d \in Commands, row'[s].booked = d PROVE hold'[d] = "BOOKED"
  <2>1. hold[d] = "BOOKED"
    BY <1>3, <1>6 DEF HoldInv
  <2> QED
    BY <1>1, <1>2, <2>1
<1>7. DurableIsBacked'
  <2>1. \A d \in Commands : hold'[d] # None => hold[d] # None
    BY <1>1, <1>2, NoneAssumption
  <2>2. \A d \in Commands : hold[d] # None => hold'[d] # None
    BY <1>1, <1>2, NoneAssumption
  <2> QED
    BY <1>1, <2>1, <2>2 DEF HoldInv, DurableIsBacked
<1>8. DurableOwnership'
  <2>1. ASSUME NEW d \in Commands, hold'[d] = "ACTIVE", d \notin expired', NEW s \in payload'[d].seats
        PROVE  row'[s].hold = d /\ row'[s].booked = None
    <3>1. d # c /\ hold[d] = "ACTIVE" /\ d \in Accepted
      BY <1>2, <2>1, NoneAssumption DEF HoldInv
    <3>2. s \in Seats /\ row[s].hold = d /\ row[s].booked = None
      BY <1>1, <2>1, <3>1 DEF HoldInv, DurableOwnership, IntakeInv
    <3> QED
      BY <1>3, <3>1, <3>2
  <2>2. ASSUME NEW d \in Commands, hold'[d] = "BOOKED", NEW s \in payload'[d].seats
        PROVE  row'[s].booked = d
    <3>1. d # c /\ hold[d] = "BOOKED" /\ d \in Accepted
      BY <1>2, <2>2, NoneAssumption DEF HoldInv
    <3>2. s \in Seats /\ row[s].booked = d
      BY <1>1, <2>2, <3>1 DEF HoldInv, DurableOwnership, IntakeInv
    <3> QED
      BY <1>3, <3>2
  <2>3. \A d \in Commands, s \in Seats : hold'[d] = "ENDED" => row'[s].booked # d
    BY <1>6
  <2> QED
    BY <2>1, <2>2, <2>3 DEF DurableOwnership
<1>9. HoldInv'
  BY <1>3, <1>4, <1>5, <1>6, <1>7, <1>8 DEF HoldInv
<1> QED
  BY <1>2, <1>9

\* A hold that has not expired has all its seats, so they are all booked.
LEMMA BookHolds ==
  ASSUME IntakeInv, HoldInv, NEW c \in Commands, Book(c)
  PROVE  HoldInv' /\ \A d \in Commands : hold'[d] = IF d = c THEN "BOOKED" ELSE hold[d]
<1>1. /\ hold[c] = "ACTIVE" /\ c \notin expired /\ hold' = [hold EXCEPT ![c] = "BOOKED"]
      /\ row' = [s \in Seats |-> IF row[s].hold = c
                   THEN [row[s] EXCEPT !.hold = None, !.booked = c, !.version = @ + 1] ELSE row[s]]
      /\ UNCHANGED <<status, payload, expired>>
  BY DEF Book, redisVars
<1>2. \A d \in Commands : hold'[d] = IF d = c THEN "BOOKED" ELSE hold[d]
  BY <1>1 DEF HoldInv
<1>3. ASSUME NEW s \in Seats
      PROVE  /\ IsRow(row'[s])
             /\ row[s].hold = c => row'[s].booked = c
             /\ row[s].hold # c => row'[s] = row[s]
             /\ row[s].booked # None => row'[s] = row[s]
  <2>1. IsRow(row[s])
    BY DEF HoldInv
  <2>2. CASE row[s].hold = c
    <3>1. row'[s] = [row[s] EXCEPT !.hold = None, !.booked = c, !.version = @ + 1]
      BY <1>1, <2>2
    <3> QED
      BY <2>1, <2>2, <3>1, NoneAssumption DEF IsRow
  <2>3. CASE row[s].hold # c
    BY <1>1, <2>1, <2>3
  <2> QED
    BY <2>2, <2>3
<1>4. hold' \in [Commands -> {None, "ACTIVE", "BOOKED", "ENDED"}] /\ DOMAIN row' = Seats
  BY <1>1 DEF HoldInv
<1>5. \A d \in Commands : hold'[d] # None => d \in Accepted'
  BY <1>1, <1>2, NoneAssumption DEF HoldInv, Accepted
<1>6. ASSUME NEW s \in Seats, NEW d \in Commands, row'[s].booked = d PROVE hold'[d] = "BOOKED"
  <2>1. CASE row[s].hold = c
    BY <1>2, <1>3, <1>6, <2>1
  <2>2. CASE row[s].hold # c
    BY <1>2, <1>3, <1>6, <2>2 DEF HoldInv
  <2> QED
    BY <2>1, <2>2
<1>7. DurableIsBacked'
  <2>1. \A d \in Commands : hold'[d] # None => hold[d] # None
    BY <1>1, <1>2, NoneAssumption
  <2>2. \A d \in Commands : hold[d] # None => hold'[d] # None
    BY <1>1, <1>2, NoneAssumption
  <2> QED
    BY <1>1, <2>1, <2>2 DEF HoldInv, DurableIsBacked
<1>8. DurableOwnership'
  <2>1. ASSUME NEW d \in Commands, hold'[d] = "ACTIVE", d \notin expired', NEW s \in payload'[d].seats
        PROVE  row'[s].hold = d /\ row'[s].booked = None
    <3>1. d # c /\ hold[d] = "ACTIVE" /\ d \in Accepted
      BY <1>2, <2>1, NoneAssumption DEF HoldInv
    <3>2. s \in Seats /\ row[s].hold = d /\ row[s].booked = None
      BY <1>1, <2>1, <3>1 DEF HoldInv, DurableOwnership, IntakeInv
    <3> QED
      BY <1>3, <3>1, <3>2
  <2>2. ASSUME NEW d \in Commands, hold'[d] = "BOOKED", NEW s \in payload'[d].seats
        PROVE  row'[s].booked = d
    <3>1. CASE d = c
      <4>1. s \in Seats /\ row[s].hold = c
        BY <1>1, <2>2, <3>1, NoneAssumption DEF HoldInv, DurableOwnership, IntakeInv
      <4> QED
        BY <1>3, <3>1, <4>1
    <3>2. CASE d # c
      <4>1. hold[d] = "BOOKED" /\ d \in Accepted
        BY <1>2, <2>2, <3>2, NoneAssumption DEF HoldInv
      <4>2. s \in Seats /\ row[s].booked = d
        BY <1>1, <2>2, <4>1 DEF HoldInv, DurableOwnership, IntakeInv
      <4> QED
        BY <1>3, <4>2, NoneAssumption
    <3> QED
      BY <3>1, <3>2
  <2>3. \A d \in Commands, s \in Seats : hold'[d] = "ENDED" => row'[s].booked # d
    BY <1>6
  <2> QED
    BY <2>1, <2>2, <2>3 DEF DurableOwnership
<1>9. HoldInv'
  BY <1>3, <1>4, <1>5, <1>6, <1>7, <1>8 DEF HoldInv
<1> QED
  BY <1>2, <1>9

-----------------------------------------------------------------------------
(***************************************************************************)
(* Reads of rows, and the map.                                             *)
(***************************************************************************)
LEMMA RowsRead ==
  ASSUME HoldInv, NEW S \in SUBSET Seats
  PROVE  IsRead(RowStates(S))
BY DEF HoldInv, IsRow, IsRead, RowStates, SeatState, IsSeat

\* A command that lives after a step lived before it, and wants what it wanted.
Dwindling ==
  \A c \in Commands : Alive(c)' => Alive(c) /\ payload'[c] = payload[c]

LEMMA KeptMap ==
  ASSUME MapInv, Dwindling, UNCHANGED <<seatmap, maps>>
  PROVE  MapInv'
BY DEF MapInv, Owners, Owner, Dwindling, NoMap

LEMMA EnqueueMap ==
  ASSUME IntakeInv, MapInv, NEW k \in Keys, NEW S \in SUBSET Seats, NEW c \in Commands, Enqueue(k, S, c)
  PROVE  MapInv'
<1>1. /\ seatmap # NoMap /\ \A s \in S : Free(s)
      /\ status' = [status EXCEPT ![c] = "PENDING"]
      /\ payload' = [payload EXCEPT ![c] = [key |-> k, seats |-> S]]
      /\ UNCHANGED <<expired, hold, maps>>
  BY DEF Enqueue, Admissible, pgVars
<1>2. seatmap' = [seatmap EXCEPT
        !.version = MapVersion(S),
        !.seat = [s \in Seats |-> IF s \in S THEN [@[s] EXCEPT !.status = "HELD", !.hold_id = c,
                                                              !.until = c] ELSE @[s]]]
  BY DEF Enqueue
<1>3. IsMap(seatmap)
  BY <1>1 DEF MapInv
<1>4. /\ DOMAIN seatmap' = {"incarnation", "version", "seat"} /\ DOMAIN seatmap'.seat = Seats
      /\ \A s \in Seats : seatmap'.seat[s] =
           IF s \in S THEN [seatmap.seat[s] EXCEPT !.status = "HELD", !.hold_id = c, !.until = c]
           ELSE seatmap.seat[s]
  BY <1>2, <1>3 DEF IsMap
<1>5. ASSUME NEW s \in Seats
      PROVE  /\ IsSeat(seatmap'.seat[s]) /\ seatmap'.seat[s].source = seatmap.seat[s].source
             /\ s \in S => Owner(s, c)'
             /\ s \notin S => seatmap'.seat[s] = seatmap.seat[s]
  <2>1. IsSeat(seatmap.seat[s])
    BY <1>3 DEF IsMap
  <2> QED
    BY <1>4, <2>1 DEF IsSeat, Owner
<1>6. IsMap(seatmap')
  BY <1>4, <1>5 DEF IsMap
<1>7. ASSUME maps = 1 PROVE Owners'
  <2> SUFFICES ASSUME NEW s \in Seats, NEW d \in Commands, seatmap'.seat[s].source = 0,
                      Alive(d)', s \in payload'[d].seats
               PROVE  Owner(s, d)'
    BY DEF Owners
  <2>1. CASE d = c
    <3>1. s \in S
      BY <1>1, <2>1 DEF IntakeInv
    <3> QED
      BY <1>5, <2>1, <3>1
  <2>2. CASE d # c
    <3>1. Alive(d) /\ s \in payload[d].seats /\ seatmap.seat[s].source = 0
      BY <1>1, <1>5, <2>2 DEF Alive, IntakeInv
    <3>2. Owner(s, d) /\ d \notin expired
      BY <1>1, <1>7, <3>1 DEF MapInv, Owners, Alive
    <3>3. s \notin S
      BY <1>1, <3>2 DEF Owner, Free
    <3> QED
      BY <1>5, <3>2, <3>3 DEF Owner
  <2> QED
    BY <2>1, <2>2
<1> QED
  BY <1>1, <1>6, <1>7 DEF MapInv

\* fail_command frees the seats of no other command.
LEMMA Compensated ==
  ASSUME IntakeInv, BatchInv, MapInv, NEW w \in Writers, MarkFailed(w)
  PROVE  /\ UNCHANGED <<maps, payload, expired, hold>>
         /\ seatmap' # seatmap => status'[Head(batch[w])] = "FAILED"
         /\ seatmap = NoMap => seatmap' = NoMap
         /\ seatmap # NoMap => /\ IsMap(seatmap')
                               /\ \A s \in Seats : /\ seatmap'.seat[s].source = seatmap.seat[s].source
                                                   /\ seatmap.seat[s].hold_id # Head(batch[w])
                                                        => seatmap'.seat[s] = seatmap.seat[s]
<1>1. PICK c : c = Head(batch[w])
  OBVIOUS
<1>2. UNCHANGED <<maps, payload, expired, hold>>
  BY DEF MarkFailed, pgVars
<1>3. CASE seatmap' = seatmap
  BY <1>2, <1>3 DEF MapInv
<1>4. CASE seatmap' # seatmap
  <2>1. /\ status' = [status EXCEPT ![c] = "FAILED"] /\ Owned(c) # {}
        /\ seatmap' = [seatmap EXCEPT
             !.version = MapVersion(Owned(c)),
             !.seat = [s \in Seats |-> IF s \in Owned(c)
                         THEN [@[s] EXCEPT !.status = "AVAILABLE", !.hold_id = None,
                                           !.until = None] ELSE @[s]]]
    BY <1>1, <1>4 DEF MarkFailed
  <2>2. seatmap # NoMap /\ IsMap(seatmap) /\ \A s \in Owned(c) : seatmap.seat[s].hold_id = c
    BY <2>1 DEF Owned, MapInv
  <2>3. /\ DOMAIN seatmap' = {"incarnation", "version", "seat"} /\ DOMAIN seatmap'.seat = Seats
        /\ \A s \in Seats : seatmap'.seat[s] =
             IF s \in Owned(c)
             THEN [seatmap.seat[s] EXCEPT !.status = "AVAILABLE", !.hold_id = None, !.until = None]
             ELSE seatmap.seat[s]
    BY <2>1, <2>2 DEF IsMap
  <2>4. ASSUME NEW s \in Seats
        PROVE  /\ IsSeat(seatmap'.seat[s]) /\ seatmap'.seat[s].source = seatmap.seat[s].source
               /\ seatmap.seat[s].hold_id # c => seatmap'.seat[s] = seatmap.seat[s]
    <3>1. IsSeat(seatmap.seat[s])
      BY <2>2 DEF IsMap
    <3> QED
      BY <2>2, <2>3, <3>1 DEF IsSeat
  <2>5. IsMap(seatmap')
    BY <2>3, <2>4 DEF IsMap
  <2>6. c \in Commands
    BY <1>1, HeadAccepted DEF MarkFailed, At
  <2>7. status'[c] = "FAILED"
    BY <2>1, <2>6 DEF IntakeInv
  <2> QED
    BY <1>1, <1>2, <2>2, <2>4, <2>5, <2>7
<1> QED
  BY <1>3, <1>4

LEMMA MarkFailedMap ==
  ASSUME IntakeInv, BatchInv, MapInv, NEW w \in Writers, MarkFailed(w)
  PROVE  MapInv'
<1>1. PICK c : c = Head(batch[w])
  OBVIOUS
<1>2. UNCHANGED <<maps, payload, expired, hold>>
  BY Compensated
<1>3. \A d \in Commands : status'[d] # "FAILED" => status'[d] = status[d]
  BY MarkFailedIntake
<1>4. Dwindling
  BY <1>2, <1>3 DEF Dwindling, Alive
<1>5. CASE seatmap' = seatmap
  BY <1>2, <1>4, <1>5, KeptMap
<1>6. CASE seatmap' # seatmap
  <2>1. /\ seatmap # NoMap /\ IsMap(seatmap') /\ status'[c] = "FAILED"
        /\ \A s \in Seats : /\ seatmap'.seat[s].source = seatmap.seat[s].source
                            /\ seatmap.seat[s].hold_id # c => seatmap'.seat[s] = seatmap.seat[s]
    BY <1>1, <1>6, Compensated
  <2>2. ASSUME maps = 1 PROVE Owners'
    <3> SUFFICES ASSUME NEW s \in Seats, NEW d \in Commands, seatmap'.seat[s].source = 0,
                        Alive(d)', s \in payload'[d].seats
                 PROVE  Owner(s, d)'
      BY DEF Owners
    <3>1. d # c
      BY <2>1 DEF Alive
    <3>2. Owner(s, d)
      BY <1>4, <2>1, <2>2 DEF Dwindling, MapInv, Owners
    <3> QED
      BY <2>1, <3>1, <3>2 DEF Owner
  <2> QED
    BY <1>2, <2>1, <2>2 DEF MapInv
<1> QED
  BY <1>5, <1>6

\* A row that PUT writes over a seat has a version above the seat's.
LEMMA PutMap ==
  ASSUME MapInv, Dwindling, NEW src, IsRead(src), Put(src)
  PROVE  MapInv'
<1>1. CASE seatmap = NoMap /\ DOMAIN src # Seats
  BY <1>1, KeptMap DEF Put
<1>2. CASE ~(seatmap = NoMap /\ DOMAIN src # Seats)
  <2>1. /\ DOMAIN seatmap' = {"incarnation", "version", "seat"} /\ DOMAIN seatmap'.seat = Seats
        /\ \A s \in Seats : seatmap'.seat[s] = IF s \in DOMAIN src THEN Selected(src, s)
                                               ELSE seatmap.seat[s]
        /\ maps' = IF seatmap = NoMap THEN maps + 1 ELSE maps
    BY <1>2 DEF Put
  <2>2. CASE seatmap = NoMap
    <3>1. \A s \in Seats : seatmap'.seat[s] = src[s] /\ IsSeat(src[s])
      BY <1>2, <2>1, <2>2 DEF Selected, IsRead
    <3>2. IsMap(seatmap')
      BY <2>1, <3>1 DEF IsMap
    <3>3. maps' \in Nat \ {0} /\ maps' # 1
      BY <2>1, <2>2 DEF MapInv
    <3> QED
      BY <3>2, <3>3 DEF MapInv
  <2>3. CASE seatmap # NoMap
    <3>1. IsMap(seatmap)
      BY <2>3 DEF MapInv
    <3>2. ASSUME NEW s \in Seats
          PROVE  /\ IsSeat(seatmap'.seat[s])
                 /\ seatmap'.seat[s] = seatmap.seat[s] \/ seatmap'.seat[s].source # 0
      <4>1. IsSeat(seatmap.seat[s]) /\ (s \in DOMAIN src => IsSeat(src[s]))
        BY <3>1 DEF IsMap, IsRead
      <4>2. \/ seatmap'.seat[s] = seatmap.seat[s]
            \/ s \in DOMAIN src /\ seatmap'.seat[s] = src[s] /\ ~(src[s].source <= seatmap.seat[s].source)
        BY <2>1, <2>3 DEF Selected
      <4> QED
        BY <4>1, <4>2 DEF IsSeat
    <3>3. IsMap(seatmap')
      BY <2>1, <3>2 DEF IsMap
    <3>4. ASSUME maps = 1 PROVE Owners'
      <4> SUFFICES ASSUME NEW s \in Seats, NEW d \in Commands, seatmap'.seat[s].source = 0,
                          Alive(d)', s \in payload'[d].seats
                   PROVE  Owner(s, d)'
        BY DEF Owners
      <4>1. seatmap'.seat[s] = seatmap.seat[s]
        BY <3>2
      <4>2. Owner(s, d)
        BY <2>3, <3>4, <4>1 DEF Dwindling, MapInv, Owners
      <4> QED
        BY <4>1, <4>2 DEF Owner
    <3> QED
      BY <2>1, <2>3, <3>3, <3>4 DEF MapInv
  <2> QED
    BY <2>2, <2>3
<1> QED
  BY <1>1, <1>2

-----------------------------------------------------------------------------
(***************************************************************************)
(* Every action keeps all five parts.                                      *)
(***************************************************************************)
\* A step that only moves commands on: their statuses, batches and stream.
LEMMA KeptAside ==
  ASSUME HoldInv, ReadInv, MapInv, Onward, UNCHANGED <<hold, row, seatmap, maps, reads, rows>>,
         expired \in SUBSET expired',
         \A c \in Commands : status'[c] \in {"PENDING", "DURABLE"}
           => status[c] \in {"PENDING", "DURABLE"} /\ (status'[c] = "DURABLE" => hold[c] # None)
  PROVE  HoldInv' /\ ReadInv' /\ MapInv'
<1>1. HoldInv'
  BY KeptHolds
<1>2. ReadInv'
  BY DEF ReadInv
<1>3. Dwindling
  BY NoneAssumption DEF Dwindling, Alive, Onward
<1> QED
  BY <1>1, <1>2, <1>3, KeptMap

LEMMA EnqueueKeeps ==
  ASSUME IntakeInvariant, NEW k \in Keys, NEW S \in SUBSET Seats, NEW c \in Commands, Enqueue(k, S, c)
  PROVE  IntakeInvariant'
<1> USE DEF IntakeInvariant
<1>1. IntakeInv' /\ BatchInv' /\ Onward
  BY EnqueueIntake
<1>2. UNCHANGED <<hold, row, expired, reads, rows>> /\ status' = [status EXCEPT ![c] = "PENDING"]
  BY DEF Enqueue, pgVars, writerVars
<1>3. \A d \in Commands : status'[d] = "DURABLE" => hold[d] # None
  BY <1>2 DEF IntakeInv, HoldInv, DurableIsBacked
<1>4. HoldInv'
  BY <1>1, <1>2, <1>3, KeptHolds
<1>5. ReadInv'
  BY <1>2 DEF ReadInv
<1> QED
  BY <1>1, <1>4, <1>5, EnqueueMap

LEMMA DeliveryKeeps ==
  ASSUME IntakeInvariant, NEW w \in Writers, Read(w) \/ \E I \in SUBSET Range(stream) : Reclaim(w, I)
  PROVE  IntakeInvariant' /\ status' = status
<1> USE DEF IntakeInvariant
<1>1. /\ IntakeInv' /\ BatchInv' /\ Onward
      /\ UNCHANGED <<status, expired, pgVars, seatmap, maps, rows, reads, payload>>
  BY ReadIntake
<1>2. HoldInv' /\ ReadInv' /\ MapInv'
  BY <1>1, KeptAside DEF pgVars, HoldInv, DurableIsBacked
<1> QED
  BY <1>1, <1>2

LEMMA PersistKeeps ==
  ASSUME IntakeInvariant, NEW w \in Writers, Persist(w)
  PROVE  IntakeInvariant' /\ status' = status
<1> USE DEF IntakeInvariant
<1>1. IntakeInv' /\ BatchInv'
  BY PersistIntake
<1>2. UNCHANGED <<status, expired, payload, seatmap, maps, reads, rows>>
  BY DEF Persist, redisVars
<1>3. HoldInv' /\ \A d \in Commands : hold'[d] = hold[d] \/ (hold[d] = None /\ hold'[d] = "ACTIVE")
  BY PersistHolds
<1>4. Dwindling
  BY <1>2, <1>3, NoneAssumption DEF Dwindling, Alive
<1>5. ReadInv'
  BY <1>2 DEF ReadInv
<1> QED
  BY <1>1, <1>2, <1>3, <1>4, <1>5, KeptMap

LEMMA AbandonReads ==
  ASSUME ReadInv, NEW w \in Writers, reads' = reads, rows' = rows \/ rows' = [rows EXCEPT ![w] = None]
  PROVE  ReadInv'
BY DEF ReadInv

LEMMA MarkDurableKeeps ==
  ASSUME IntakeInvariant, NEW w \in Writers, MarkDurable(w)
  PROVE  /\ IntakeInvariant'
         /\ \A d \in Commands : \/ status'[d] = status[d]
                                \/ status[d] \in {"PENDING", "DURABLE"} /\ status'[d] = "DURABLE"
<1> USE DEF IntakeInvariant
<1>1. /\ IntakeInv' /\ BatchInv' /\ Accepted' = Accepted
      /\ \A d \in Commands : \/ status'[d] = status[d]
                             \/ status[d] \in {"PENDING", "DURABLE"} /\ hold[d] # None /\ status'[d] = "DURABLE"
  BY MarkDurableIntake
<1>2. UNCHANGED <<seatmap, maps, expired, payload, hold, row, reads>>
  BY DEF MarkDurable, pgVars
<1>3. ReadInv'
  BY AbandonReads DEF MarkDurable, Abandon
<1>4. Onward
  BY <1>1, <1>2, NoneAssumption DEF Onward
<1>5. HoldInv'
  <2>1. \A d \in Commands : status'[d] = "DURABLE" => hold[d] # None
    BY <1>1 DEF HoldInv, DurableIsBacked
  <2> QED
    BY <1>2, <1>4, <2>1, KeptHolds
<1>6. Dwindling
  BY <1>1, <1>2 DEF Dwindling, Alive
<1> QED
  BY <1>1, <1>2, <1>3, <1>5, <1>6, KeptMap

LEMMA MarkFailedKeeps ==
  ASSUME IntakeInvariant, NEW w \in Writers, MarkFailed(w)
  PROVE  IntakeInvariant'
<1> USE DEF IntakeInvariant
<1>1. /\ IntakeInv' /\ BatchInv' /\ Accepted' = Accepted
      /\ \A d \in Commands : status'[d] = status[d] \/ status'[d] = "FAILED"
  BY MarkFailedIntake
<1>2. UNCHANGED <<expired, payload, hold, row, reads, rows>>
  BY DEF MarkFailed, pgVars
<1>3. ReadInv'
  BY <1>2 DEF ReadInv
<1>4. \A d \in Commands : status[d] \notin {None, "PENDING"} => status'[d] # "PENDING"
  BY <1>1
<1>5. Onward
  BY <1>1, <1>2, <1>4, NoneAssumption DEF Onward
<1>6. HoldInv'
  <2>1. \A d \in Commands : status'[d] = "DURABLE" => hold[d] # None
    BY <1>1 DEF HoldInv, DurableIsBacked
  <2> QED
    BY <1>2, <1>5, <2>1, KeptHolds
<1> QED
  BY <1>1, <1>3, <1>6, MarkFailedMap

\* The statuses, holds and rows stay; the map is written or not.
LEMMA SameCommands ==
  ASSUME IntakeInvariant, UNCHANGED <<status, payload, expired, hold, row>>
  PROVE  HoldInv' /\ Dwindling /\ Onward
<1>1. Onward
  BY DEF Onward
<1>2. Dwindling
  BY DEF Dwindling, Alive
<1>3. \A c \in Commands : status'[c] = "DURABLE" => hold[c] # None
  BY DEF IntakeInvariant, HoldInv, DurableIsBacked
<1>4. HoldInv'
  BY <1>1, <1>3, KeptHolds DEF IntakeInvariant
<1> QED
  BY <1>1, <1>2, <1>4

LEMMA SnapshotKeeps ==
  ASSUME IntakeInvariant, NEW w \in Writers, SnapshotRead(w) \/ SnapshotWrite(w)
  PROVE  IntakeInvariant' /\ status' = status
<1>1. IntakeInv' /\ BatchInv'
  BY SnapshotIntake DEF IntakeInvariant
<1>2. UNCHANGED <<status, payload, expired, hold, row, reads>>
  BY DEF SnapshotRead, SnapshotWrite, redisVars, pgVars
<1>3. HoldInv' /\ Dwindling
  BY <1>2, SameCommands
<1>4. CASE SnapshotRead(w)
  <2>1. UNCHANGED <<seatmap, maps>> /\ rows' = [rows EXCEPT ![w] = RowStates(Seats)]
    BY <1>4 DEF SnapshotRead, redisVars
  <2>2. MapInv'
    BY <1>3, <2>1, KeptMap DEF IntakeInvariant
  <2>3. IsRead(RowStates(Seats))
    BY RowsRead DEF IntakeInvariant
  <2>4. ReadInv'
    BY <1>2, <2>1, <2>3 DEF ReadInv, IntakeInvariant
  <2> QED
    BY <1>1, <1>2, <1>3, <2>2, <2>4 DEF IntakeInvariant
<1>5. CASE SnapshotWrite(w)
  <2>1. IsRead(rows[w]) /\ Put(rows[w]) /\ rows' = [rows EXCEPT ![w] = None]
    BY <1>5 DEF SnapshotWrite, IntakeInvariant, ReadInv
  <2>2. MapInv'
    BY <1>3, <2>1, PutMap DEF IntakeInvariant
  <2>3. ReadInv'
    BY <1>2, <2>1, AbandonReads DEF IntakeInvariant
  <2> QED
    BY <1>1, <1>2, <1>3, <2>2, <2>3 DEF IntakeInvariant
<1> QED
  BY <1>4, <1>5

LEMMA AcknowledgeKeeps ==
  ASSUME IntakeInvariant, NEW w \in Writers, Acknowledge(w)
  PROVE  IntakeInvariant' /\ status' = status
<1>1. IntakeInv' /\ BatchInv'
  BY AcknowledgeIntake DEF IntakeInvariant
<1>2. UNCHANGED <<status, payload, expired, hold, row, seatmap, maps, rows, reads>>
  BY DEF Acknowledge, pgVars
<1>3. HoldInv' /\ Dwindling
  BY <1>2, SameCommands
<1>4. ReadInv' /\ MapInv'
  BY <1>2, <1>3, KeptMap DEF IntakeInvariant, ReadInv
<1> QED
  BY <1>1, <1>2, <1>3, <1>4 DEF IntakeInvariant

LEMMA WriterFailsKeeps ==
  ASSUME IntakeInvariant, NEW w \in Writers, WriterFails(w)
  PROVE  IntakeInvariant' /\ status' = status
<1>1. /\ Abandon(w) /\ rows' = [rows EXCEPT ![w] = None]
      /\ UNCHANGED <<status, payload, expired, stream, hold, row, seatmap, maps, reads>>
  BY DEF WriterFails, Abandon, pgVars, redisVars
<1>2. HoldInv' /\ Dwindling /\ Onward
  BY <1>1, SameCommands
<1>3. IntakeInv' /\ BatchInv'
  BY <1>1, <1>2, KeptIntake, AbandonBatch DEF IntakeInvariant
<1>4. ReadInv' /\ MapInv'
  BY <1>1, <1>2, AbandonReads, KeptMap DEF IntakeInvariant
<1> QED
  BY <1>1, <1>2, <1>3, <1>4 DEF IntakeInvariant

\* The projection, the loss of the map, the end of the sale, and browsers.
LEMMA OutsideKeeps ==
  ASSUME IntakeInvariant,
         UNCHANGED <<status, payload, expired, stream, hold, row, batch, step, rows>>,
         MapInv' \/ UNCHANGED <<seatmap, maps>>,
         \A src \in reads' : IsRead(src)
  PROVE  IntakeInvariant' /\ status' = status
<1>1. HoldInv' /\ Dwindling /\ Onward
  BY SameCommands
<1>2. IntakeInv' /\ BatchInv'
  BY <1>1, QuietIntake DEF IntakeInvariant
<1>3. MapInv'
  BY <1>1, KeptMap DEF IntakeInvariant
<1>4. ReadInv'
  BY DEF IntakeInvariant, ReadInv
<1> QED
  BY <1>1, <1>2, <1>3, <1>4 DEF IntakeInvariant

LEMMA ProjectReadKeeps ==
  ASSUME IntakeInvariant, NEW S \in SUBSET Seats, ProjectRead(S)
  PROVE  IntakeInvariant' /\ status' = status
<1>1. /\ UNCHANGED <<status, payload, expired, stream, hold, row, batch, step, rows, seatmap, maps>>
      /\ reads' = reads \cup {RowStates(S)}
  BY DEF ProjectRead, redisVars, pgVars, writerVars
<1>2. IsRead(RowStates(S))
  BY RowsRead DEF IntakeInvariant
<1>3. \A src \in reads' : IsRead(src)
  BY <1>1, <1>2 DEF IntakeInvariant, ReadInv
<1> QED
  BY <1>1, <1>3, OutsideKeeps

LEMMA ProjectWriteKeeps ==
  ASSUME IntakeInvariant, NEW src \in reads, ProjectWrite(src)
  PROVE  IntakeInvariant' /\ status' = status
<1>1. /\ UNCHANGED <<status, payload, expired, stream, hold, row, batch, step, rows>>
      /\ reads' = reads \ {src} /\ Put(src)
  BY DEF ProjectWrite, pgVars, writerVars
<1>2. \A r \in reads : IsRead(r)
  BY DEF IntakeInvariant, ReadInv
<1>3. Dwindling
  BY <1>1, SameCommands
<1>4. MapInv'
  BY <1>1, <1>2, <1>3, PutMap DEF IntakeInvariant
<1> QED
  BY <1>1, <1>2, <1>4, OutsideKeeps

LEMMA QuietKeeps ==
  ASSUME IntakeInvariant, SaleEnds \/ (\E b \in Clients : Browse(b)) \/ UNCHANGED vars
  PROVE  IntakeInvariant' /\ status' = status
<1>1. UNCHANGED <<status, payload, expired, stream, hold, row, batch, step, rows, seatmap, maps, reads>>
  BY DEF SaleEnds, Browse, vars, redisVars, pgVars, writerVars
<1>2. \A src \in reads' : IsRead(src)
  BY <1>1 DEF IntakeInvariant, ReadInv
<1> QED
  BY <1>1, <1>2, OutsideKeeps

LEMMA MapLostKeeps ==
  ASSUME IntakeInvariant, MapLost
  PROVE  IntakeInvariant' /\ status' = status
<1>1. /\ UNCHANGED <<status, payload, expired, stream, hold, row, batch, step, rows, maps, reads>>
      /\ seatmap' = NoMap
  BY DEF MapLost, pgVars, writerVars
<1>2. MapInv'
  BY <1>1 DEF IntakeInvariant, MapInv, NoMap
<1>3. \A src \in reads' : IsRead(src)
  BY <1>1 DEF IntakeInvariant, ReadInv
<1> QED
  BY <1>1, <1>2, <1>3, OutsideKeeps

\* A hold that ends or is booked.
LEMMA HoldKeeps ==
  ASSUME IntakeInvariant, NEW c \in Commands, EndHold(c) \/ Book(c)
  PROVE  IntakeInvariant' /\ status' = status
<1>1. UNCHANGED <<status, payload, expired, stream, batch, step, rows, seatmap, maps, reads>>
  BY DEF EndHold, Book, redisVars, writerVars
<1>2. /\ HoldInv' /\ hold[c] = "ACTIVE"
      /\ \A d \in Commands : hold'[d] = hold[d] \/ (d = c /\ hold'[d] \in {"ENDED", "BOOKED"})
  BY EndHolds, BookHolds DEF EndHold, Book, IntakeInvariant
<1>3. Onward
  BY <1>1, <1>2, NoneAssumption DEF Onward
<1>4. Dwindling
  BY <1>1, <1>2 DEF Dwindling, Alive
<1>5. IntakeInv' /\ BatchInv'
  BY <1>1, <1>3, QuietIntake DEF IntakeInvariant
<1>6. ReadInv' /\ MapInv'
  BY <1>1, <1>4, KeptMap DEF IntakeInvariant, ReadInv
<1> QED
  BY <1>1, <1>2, <1>5, <1>6 DEF IntakeInvariant

LEMMA DeadlineKeeps ==
  ASSUME IntakeInvariant, NEW c \in Commands, Deadline(c)
  PROVE  IntakeInvariant' /\ status' = status
<1>1. IntakeInv' /\ BatchInv' /\ expired \in SUBSET expired'
  BY DeadlineIntake DEF IntakeInvariant
<1>2. UNCHANGED <<status, payload, hold, row, seatmap, maps, reads, rows>>
  BY DEF Deadline, redisVars, pgVars, writerVars
<1>3. Onward
  BY <1>2 DEF Onward
<1>4. HoldInv' /\ ReadInv' /\ MapInv'
  BY <1>1, <1>2, <1>3, KeptAside DEF IntakeInvariant, HoldInv, DurableIsBacked
<1> QED
  BY <1>1, <1>2, <1>4 DEF IntakeInvariant

LEMMA RetentionKeeps ==
  ASSUME IntakeInvariant, NEW c \in Commands, Retention(c)
  PROVE  IntakeInvariant' /\ \A d \in Commands : status'[d] = status[d] \/ status'[d] = "GONE"
<1>1. /\ IntakeInv' /\ BatchInv' /\ Accepted' = Accepted
      /\ \A d \in Commands : status'[d] = IF d = c THEN "GONE" ELSE status[d]
  BY RetentionIntake DEF IntakeInvariant
<1>2. UNCHANGED <<payload, expired, hold, row, seatmap, maps, reads, rows>>
  BY DEF Retention, pgVars, writerVars
<1>3. Onward
  BY <1>1, <1>2, NoneAssumption DEF Onward
<1>4. HoldInv' /\ ReadInv' /\ MapInv'
  BY <1>1, <1>2, <1>3, KeptAside DEF IntakeInvariant, HoldInv, DurableIsBacked
<1> QED
  BY <1>1, <1>4 DEF IntakeInvariant

-----------------------------------------------------------------------------
(***************************************************************************)
(* The theorems.                                                           *)
(***************************************************************************)
LEMMA NextKeeps == IntakeInvariant /\ [Next]_vars => IntakeInvariant'
<1> SUFFICES ASSUME IntakeInvariant, [Next]_vars PROVE IntakeInvariant'
  OBVIOUS
<1>1. ASSUME NEW k \in Keys, NEW S \in SUBSET Seats, NEW c \in Commands, Enqueue(k, S, c)
      PROVE  IntakeInvariant'
  BY <1>1, EnqueueKeeps
<1>2. ASSUME NEW w \in Writers, Read(w) PROVE IntakeInvariant'
  BY <1>2, DeliveryKeeps
<1>3. ASSUME NEW w \in Writers, NEW I \in SUBSET Range(stream), Reclaim(w, I) PROVE IntakeInvariant'
  BY <1>3, DeliveryKeeps
<1>4. ASSUME NEW w \in Writers, Persist(w) PROVE IntakeInvariant'
  BY <1>4, PersistKeeps
<1>5. ASSUME NEW w \in Writers, MarkDurable(w) PROVE IntakeInvariant'
  BY <1>5, MarkDurableKeeps
<1>6. ASSUME NEW w \in Writers, MarkFailed(w) PROVE IntakeInvariant'
  BY <1>6, MarkFailedKeeps
<1>7. ASSUME NEW w \in Writers, SnapshotRead(w) \/ SnapshotWrite(w) PROVE IntakeInvariant'
  BY <1>7, SnapshotKeeps
<1>8. ASSUME NEW w \in Writers, Acknowledge(w) PROVE IntakeInvariant'
  BY <1>8, AcknowledgeKeeps
<1>9. ASSUME NEW w \in Writers, WriterFails(w) PROVE IntakeInvariant'
  BY <1>9, WriterFailsKeeps
<1>10. ASSUME NEW S \in SUBSET Seats, ProjectRead(S) PROVE IntakeInvariant'
  BY <1>10, ProjectReadKeeps
<1>11. ASSUME NEW src \in reads, ProjectWrite(src) PROVE IntakeInvariant'
  BY <1>11, ProjectWriteKeeps
<1>12. ASSUME NEW c \in Commands, EndHold(c) \/ Book(c) PROVE IntakeInvariant'
  BY <1>12, HoldKeeps
<1>13. ASSUME NEW c \in Commands, Deadline(c) PROVE IntakeInvariant'
  BY <1>13, DeadlineKeeps
<1>14. ASSUME NEW c \in Commands, Retention(c) PROVE IntakeInvariant'
  BY <1>14, RetentionKeeps
<1>15. CASE MapLost
  BY <1>15, MapLostKeeps
<1>16. CASE SaleEnds \/ (\E b \in Clients : Browse(b)) \/ UNCHANGED vars
  BY <1>16, QuietKeeps
<1> QED
  BY <1>1, <1>2, <1>3, <1>4, <1>5, <1>6, <1>7, <1>8, <1>9, <1>10, <1>11, <1>12, <1>13,
     <1>14, <1>15, <1>16 DEF Next

\* Accepted commands stay on the stream until they are settled, a writer
\* stores a command before it reports it durable and settles it before it
\* acknowledges it, and holds own their seat rows: what ENQUEUE,
\* persist_reservation_batch and the projection keep true together.
THEOREM IntakeIsConsistent == Spec => []IntakeInvariant
<1>1. Init => IntakeInvariant
  BY InitKeeps
<1>2. IntakeInvariant /\ [Next]_vars => IntakeInvariant'
  BY NextKeeps
<1> QED
  BY <1>1, <1>2, PTL DEF Spec

\* An accepted reservation is never lost before it is settled, whatever
\* crashes, redeliveries and abandoned batches persist_reservation_batch goes
\* through, and ENQUEUE never lets the stream grow past its backlog.
THEOREM AcceptedIsNeverLost == Spec => []PendingIsQueued
<1>1. IntakeInvariant => PendingIsQueued
  BY DEF IntakeInvariant, IntakeInv
<1> QED
  BY <1>1, IntakeIsConsistent, PTL

\* What mark_durable reports is in PostgreSQL, once per key, and owns its
\* seats there until it ends or its deadline passes.
THEOREM DurableIsStored == Spec => []DurableIsOwned
<1>1. IntakeInvariant => DurableIsOwned
  BY DEF IntakeInvariant, HoldInv, DurableIsOwned
<1> QED
  BY <1>1, IntakeIsConsistent, PTL

\* Until a newer database row reaches a seat of the first map, ENQUEUE never
\* gives the seat to two live commands.
THEOREM IntakeSellsOnce == Spec => []OneWinnerPerSeat
<1>1. ASSUME IntakeInvariant PROVE OneWinnerPerSeat
  <2>1. seatmap # NoMap /\ maps = 1 => Owners
    BY <1>1 DEF IntakeInvariant, MapInv
  <2> QED
    BY <2>1 DEF Owners, Owner, OneWinnerPerSeat
<1> QED
  BY <1>1, IntakeIsConsistent, PTL

\* Steps other than fail_command fail no command, and leave answers alone.
LEMMA OthersAreFenced ==
  ASSUME IntakeInvariant,
         \A c \in Commands :
           \/ status'[c] = status[c]
           \/ status[c] \in {"PENDING", "DURABLE"} /\ status'[c] = "DURABLE"
           \/ status[c] = None /\ status'[c] = "PENDING"
           \/ status'[c] = "GONE"
  PROVE  CompensationIsFenced /\ SettledStatusIsFinal
BY NoneAssumption DEF CompensationIsFenced, SettledStatusIsFinal

LEMMA MarkFailedIsFenced ==
  ASSUME IntakeInvariant, NEW w \in Writers, MarkFailed(w)
  PROVE  CompensationIsFenced /\ SettledStatusIsFinal
<1>1. \A d \in Commands :
        \/ status'[d] = status[d]
        \/ d = Head(batch[w]) /\ status[d] \in {"PENDING", "FAILED"} /\ status'[d] = "FAILED"
  BY MarkFailedIntake DEF IntakeInvariant
<1>2. seatmap # NoMap => \A s \in Seats : seatmap.seat[s].hold_id # Head(batch[w])
                           => seatmap'.seat[s] = seatmap.seat[s]
  BY Compensated DEF IntakeInvariant
<1>3. CompensationIsFenced
  BY <1>1, <1>2 DEF CompensationIsFenced
<1>4. SettledStatusIsFinal
  BY <1>1 DEF SettledStatusIsFinal
<1> QED
  BY <1>3, <1>4

LEMMA NextIsFenced ==
  IntakeInvariant /\ [Next]_vars => CompensationIsFenced /\ SettledStatusIsFinal
<1> SUFFICES ASSUME IntakeInvariant, [Next]_vars PROVE CompensationIsFenced /\ SettledStatusIsFinal
  OBVIOUS
<1> DEFINE Fenced == CompensationIsFenced /\ SettledStatusIsFinal
<1>1. ASSUME NEW k \in Keys, NEW S \in SUBSET Seats, NEW c \in Commands, Enqueue(k, S, c) PROVE Fenced
  <2>1. status[c] = None /\ status' = [status EXCEPT ![c] = "PENDING"]
    BY <1>1 DEF Enqueue
  <2>2. \A d \in Commands : status'[d] = status[d] \/ (status[d] = None /\ status'[d] = "PENDING")
    BY <2>1 DEF IntakeInvariant, IntakeInv
  <2> QED
    BY <2>2, OthersAreFenced
<1>2. ASSUME NEW w \in Writers, MarkDurable(w) PROVE Fenced
  BY <1>2, MarkDurableKeeps, OthersAreFenced
<1>3. ASSUME NEW w \in Writers, MarkFailed(w) PROVE Fenced
  BY <1>3, MarkFailedIsFenced
<1>4. ASSUME NEW c \in Commands, Retention(c) PROVE Fenced
  BY <1>4, RetentionKeeps, OthersAreFenced
<1>5. ASSUME status' = status PROVE Fenced
  BY <1>5, OthersAreFenced
<1> HIDE DEF Fenced
<1>6. ASSUME NEW w \in Writers,
             \/ Read(w) \/ \E I \in SUBSET Range(stream) : Reclaim(w, I)
             \/ Persist(w)
             \/ SnapshotRead(w) \/ SnapshotWrite(w)
             \/ Acknowledge(w)
             \/ WriterFails(w)
      PROVE  Fenced
  <2>1. status' = status
    BY <1>6, DeliveryKeeps, PersistKeeps, SnapshotKeeps, AcknowledgeKeeps, WriterFailsKeeps
  <2> QED
    BY <1>5, <2>1
<1>7. ASSUME NEW c \in Commands, EndHold(c) \/ Book(c) \/ Deadline(c) PROVE Fenced
  BY <1>5, <1>7, HoldKeeps, DeadlineKeeps
<1>8. ASSUME NEW S \in SUBSET Seats, ProjectRead(S) PROVE Fenced
  BY <1>5, <1>8, ProjectReadKeeps
<1>9. ASSUME NEW src \in reads, ProjectWrite(src) PROVE Fenced
  BY <1>5, <1>9, ProjectWriteKeeps
<1>10. ASSUME MapLost \/ SaleEnds \/ (\E b \in Clients : Browse(b)) \/ UNCHANGED vars
       PROVE  Fenced
  BY <1>5, <1>10, MapLostKeeps, QuietKeeps
<1>11. Fenced
  BY <1>1, <1>2, <1>3, <1>4, <1>6, <1>7, <1>8, <1>9, <1>10 DEF Next
<1> QED
  BY <1>11 DEF Fenced

\* fail_command frees no seat of a later owner, whatever became of the map,
\* and neither it nor mark_durable takes back an answer a client has polled.
THEOREM SettlementNeverUndone == Spec => SettlementIsFenced
<1>1. IntakeInvariant /\ [Next]_vars => [CompensationIsFenced /\ SettledStatusIsFinal]_vars
  BY NextIsFenced
<1> QED
  BY <1>1, IntakeIsConsistent, PTL DEF Spec, SettlementIsFenced

=============================================================================
