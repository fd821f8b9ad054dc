--------------------------- MODULE SeatProjection ---------------------------
(***************************************************************************)
(* The seat maps in Redis (infrastructure/cache.py) and the workers that   *)
(* keep them up with event_seats (workers.py): SeatsChanged notifications  *)
(* become coalesced refresh requests, refresh workers claim them under a   *)
(* lease, read rows in one transaction and write them with the Lua script  *)
(* PUT, and reconcilers write full snapshots on their own schedule.        *)
(*                                                                         *)
(* A row version stands for the row: event_seats.version changes with      *)
(* every write of the row.  A refresh worker's lease token is a new uuid   *)
(* per batch and a worker runs one batch at a time, so the worker itself   *)
(* stands for its token.  Every readable map counts as seen: a client may  *)
(* poll at any moment.                                                     *)
(***************************************************************************)
EXTENDS Integers, FiniteSets, Functions

CONSTANTS
  Events,        \* events with seats
  Seats,         \* seat_id values of every event
  Workers,       \* processes that run refresh_batch
  Reconcilers,   \* processes that run snapshot on a schedule
  None,          \* SQL NULL, an absent hash field, or nothing
  RefreshLimit,  \* limit of one refresh_batch
  MaxVersion,    \* bound: writes of one seat row
  MaxMaps,       \* bound: times a map is created
  MaxFailures    \* bound: crashes, failed steps, late writes and lapsed leases

\* An event has finitely many seats; NULL is no number and no token.
ASSUME SeatsAssumption == IsFiniteSet(Seats)
ASSUME NoneAssumption == None \notin Int /\ None \notin Workers

VARIABLES
  version,              \* event_seats.version
  outbox,               \* SeatsChanged events that no consumer has applied
  generation,           \* seat_refresh_requests.generation, 0 for no row
  completed_generation, \* seat_refresh_requests.completed_generation
  seat_ids,             \* seat_refresh_requests.seat_ids, None for NULL
  lease_token,          \* seat_refresh_requests.lease_token
  lease_live,           \* whether lease_until is in the future
  rows,                 \* claimed rows a worker has still to project
  completed,            \* rows it has projected, not yet acknowledged
  work,                 \* what each process is projecting
  seatmap,              \* the hash seatmap:v2:{event}
  late,                 \* PUTs whose caller timed out, still to reach Redis
  maps,                 \* incarnations given out so far
  seen,                 \* history: what readers of the map have been shown
  failures              \* failures spent

requestVars == <<generation, completed_generation, seat_ids, lease_token, lease_live>>
workerVars == <<rows, completed, work>>
mapVars == <<seatmap, late, maps, seen>>
vars == <<version, outbox, requestVars, workerVars, mapVars, failures>>

Processes == Workers \cup Reconcilers
Modes == {"full", "patch"}

\* A claimed row carries the generation and seats it had at the claim.
Row == [event : Events, generation : Nat, seat_ids : (SUBSET Seats) \cup {None}]

\* The hash before any field is written.
NoMap == [version |-> None, incarnation |-> None, updating |-> FALSE,
          source |-> [s \in Seats |-> None], stamp |-> [s \in Seats |-> 0]]

Readable(m) == m.version # None /\ ~m.updating

\* What a reader of a readable map is given.
View(m) == [incarnation |-> m.incarnation, version |-> m.version, source |-> m.source]

Init ==
  /\ version = [e \in Events |-> [s \in Seats |-> 0]]
  /\ outbox = {}
  /\ generation = [e \in Events |-> 0]
  /\ completed_generation = [e \in Events |-> 0]
  /\ seat_ids = [e \in Events |-> None]
  /\ lease_token = [e \in Events |-> None]
  /\ lease_live = [e \in Events |-> FALSE]
  /\ rows = [w \in Workers |-> {}]
  /\ completed = [w \in Workers |-> {}]
  /\ work = [p \in Processes |-> None]
  /\ seatmap = [e \in Events |-> NoMap]
  /\ late = {}
  /\ maps = 0
  /\ seen = [e \in Events |-> {}]
  /\ failures = 0

-----------------------------------------------------------------------------
(***************************************************************************)
(* The Lua script PUT, as a function of the hash.                          *)
(***************************************************************************)

\* Mutant of Rejected: a marked map refuses full writes too.
RejectedWhenMarked(m, mode) == m.updating \/ (mode = "patch" /\ m.version = None)

\* A patch needs a complete map to apply to.
Rejected(m, mode) == mode = "patch" /\ (m.version = None \/ m.updating)

\* Mutant of Newer: the last write wins.
NewerAlways(source, old) == TRUE

Newer(source, old) == old = None \/ source > old

ChangedSeats(m, src) ==
  {s \in DOMAIN src : Newer(src[s], m.source[s]) \/ m.updating}

Selected(m, src, s) == IF Newer(src[s], m.source[s]) THEN src[s] ELSE m.source[s]

OldSource(m, s) == IF m.source[s] = None THEN 0 ELSE m.source[s]

\* A full write sums the row versions; a patch adds what its rows advanced.
PutVersion(m, mode, src) ==
  IF mode = "full"
  THEN SumFunction([s \in DOMAIN src |-> Selected(m, src, s)])
  ELSE m.version + SumFunction([s \in DOMAIN src |-> Selected(m, src, s) - OldSource(m, s)])

\* Mutant of WriteSeats: a seat is stamped with its own row version.
WriteSeatsByRow(m, src, part, v) ==
  [m EXCEPT !.source = [s \in Seats |-> IF s \in part THEN Selected(m, src, s) ELSE @[s]],
            !.stamp = [s \in Seats |-> IF s \in part THEN Selected(m, src, s) ELSE @[s]]]

\* The seat fields in part are written and stamped with the new map version.
WriteSeats(m, src, part, v) ==
  [m EXCEPT !.source = [s \in Seats |-> IF s \in part THEN Selected(m, src, s) ELSE @[s]],
            !.stamp = [s \in Seats |-> IF s \in part THEN v ELSE @[s]]]

\* HSETNX: a map keeps its incarnation for as long as it lives.
Incarnation(m, mode, id) ==
  IF mode = "full" /\ m.incarnation = None THEN id ELSE m.incarnation

PUT(m, mode, src, id) ==
  LET v == PutVersion(m, mode, src) IN
    [WriteSeats(m, src, ChangedSeats(m, src), v) EXCEPT
       !.version = v, !.incarnation = Incarnation(m, mode, id), !.updating = FALSE]

\* A script error part way leaves the marker and some of the writes.
InterruptedPut(m, mode, src, id) ==
  LET v == PutVersion(m, mode, src)
      all == PUT(m, mode, src, id) IN
    {[WriteSeats(m, src, part, v) EXCEPT !.updating = TRUE]
       : part \in SUBSET ChangedSeats(m, src)}
    \cup {[all EXCEPT !.updating = TRUE, !.incarnation = m.incarnation], [all EXCEPT !.updating = TRUE]}

Creates(m, mode) == mode = "full" /\ m.incarnation = None

\* The hash of e becomes m.
Store(e, m) ==
  /\ seatmap' = [seatmap EXCEPT ![e] = m]
  /\ maps' = IF m.incarnation # None /\ seatmap[e].incarnation = None
             THEN maps + 1 ELSE maps
  /\ seen' = [seen EXCEPT ![e] = @ \cup (IF Readable(m) THEN {View(m)} ELSE {})]

Failing ==
  /\ failures < MaxFailures
  /\ failures' = failures + 1

-----------------------------------------------------------------------------
(***************************************************************************)
(* Seat writes and the notifications they commit.                          *)
(***************************************************************************)

\* A ledger transaction writes the seats S of e and its SeatsChanged row.
Commit(e, S) ==
  /\ \A s \in S : version[e][s] < MaxVersion
  /\ version' = [version EXCEPT ![e] = [s \in Seats |-> IF s \in S THEN @[s] + 1 ELSE @[s]]]
  /\ outbox' = outbox \cup {[event |-> e, seats |-> S,
                             at |-> SumFunction(version'[e])]}
  /\ UNCHANGED <<requestVars, workerVars, mapVars, failures>>

\* Mutant of MergedSeats: the newest notification replaces the seats.
MergedSeatsLatest(e, ids) == ids

\* ON CONFLICT: a pending request absorbs the new seats, NULL meaning all.
MergedSeats(e, ids) ==
  CASE generation[e] = completed_generation[e] -> ids
    [] generation[e] # completed_generation[e] /\ (seat_ids[e] = None \/ ids = None) -> None
    [] OTHER -> seat_ids[e] \cup ids

request_refresh(e, ids) ==
  /\ generation' = [generation EXCEPT ![e] = @ + 1]
  /\ seat_ids' = [seat_ids EXCEPT ![e] = MergedSeats(e, ids)]
  /\ UNCHANGED <<completed_generation, lease_token, lease_live>>

\* consume_event applies each SeatsChanged once, in any order; a payload
\* written before seats were named asks for the whole event.
ConsumeSeatsChanged(m, ids) ==
  /\ m \in outbox /\ ids \in {m.seats, None}
  /\ outbox' = outbox \ {m}
  /\ request_refresh(m.event, ids)
  /\ UNCHANGED <<version, workerVars, mapVars, failures>>

-----------------------------------------------------------------------------
(***************************************************************************)
(* refresh_batch.                                                          *)
(***************************************************************************)
Idle(w) == rows[w] = {} /\ completed[w] = {} /\ work[w] = None

\* Whether a request may be claimed once its cooldown is over.
Due(e) == generation[e] > completed_generation[e] /\ (lease_token[e] = None \/ ~lease_live[e])

\* The cooldown of a due row may not be over, so any part of them is claimed.
Claim(w, E) ==
  /\ Idle(w)
  /\ E # {} /\ Cardinality(E) <= RefreshLimit /\ \A e \in E : Due(e)
  /\ rows' = [rows EXCEPT ![w] = {[event |-> e, generation |-> generation[e],
                                   seat_ids |-> seat_ids[e]] : e \in E}]
  /\ lease_token' = [e \in Events |-> IF e \in E THEN w ELSE lease_token[e]]
  /\ lease_live' = [e \in Events |-> IF e \in E THEN TRUE ELSE lease_live[e]]
  /\ UNCHANGED <<version, outbox, generation, completed_generation, seat_ids,
                 completed, work, mapVars, failures>>

RowOf(w, e) == CHOOSE r \in rows[w] : r.event = e

\* The read transaction of snapshot or changed_snapshot.
ReadRow(w, r) ==
  /\ r \in rows[w] /\ work[w] = None
  /\ work' = [work EXCEPT ![w] =
       IF r.seat_ids = None
       THEN [event |-> r.event, mode |-> "full", source |-> version[r.event]]
       ELSE [event |-> r.event, mode |-> "patch",
             source |-> [s \in r.seat_ids |-> version[r.event][s]]]]
  /\ UNCHANGED <<version, outbox, requestVars, rows, completed, mapVars, failures>>

\* The read transaction of a reconciler's snapshot, or of the one that a
\* rejected patch falls back to.
ReadAll(p, e) ==
  /\ IF p \in Workers
     THEN work[p] # None /\ work[p].mode = "rejected" /\ work[p].event = e
     ELSE work[p] = None
  /\ work' = [work EXCEPT ![p] = [event |-> e, mode |-> "full", source |-> version[e]]]
  /\ UNCHANGED <<version, outbox, requestVars, rows, completed, mapVars, failures>>

Projected(p, e) ==
  /\ work' = [work EXCEPT ![p] = None]
  /\ IF p \in Workers
     THEN /\ rows' = [rows EXCEPT ![p] = @ \ {RowOf(p, e)}]
          /\ completed' = [completed EXCEPT ![p] = @ \cup {RowOf(p, e)}]
     ELSE UNCHANGED <<rows, completed>>

\* The PUT of the process reaches Redis and answers.
Write(p) ==
  /\ work[p] # None /\ work[p].mode \in Modes
  /\ LET e == work[p].event
         m == seatmap[e]
     IN IF Rejected(m, work[p].mode)
        THEN /\ work' = [work EXCEPT ![p].mode = "rejected"]
             /\ UNCHANGED <<rows, completed, seatmap, maps, seen>>
        ELSE /\ Creates(m, work[p].mode) => maps < MaxMaps
             /\ Store(e, PUT(m, work[p].mode, work[p].source, maps + 1))
             /\ Projected(p, e)
  /\ UNCHANGED <<version, outbox, requestVars, late, failures>>

\* Exceptions of a row are kept until the others are projected; its lease stays.
RowFailed(p) ==
  /\ work' = [work EXCEPT ![p] = None]
  /\ rows' = IF p \in Workers
             THEN [rows EXCEPT ![p] = @ \ {RowOf(p, work[p].event)}] ELSE rows
  /\ UNCHANGED completed

\* The read or the write raises: nothing is written, the script stops part
\* way, or the caller gives up on a PUT that reaches Redis later.
FailRow(p) ==
  /\ work[p] # None
  /\ Failing
  /\ RowFailed(p)
  /\ \/ UNCHANGED mapVars
     \/ LET e == work[p].event IN
          /\ work[p].mode \in Modes /\ ~Rejected(seatmap[e], work[p].mode)
          /\ Creates(seatmap[e], work[p].mode) => maps < MaxMaps
          /\ \E m \in InterruptedPut(seatmap[e], work[p].mode, work[p].source, maps + 1) :
               Store(e, m)
          /\ UNCHANGED late
     \/ /\ work[p].mode \in Modes
        /\ late' = late \cup {work[p]}
        /\ UNCHANGED <<seatmap, maps, seen>>
  /\ UNCHANGED <<version, outbox, requestVars>>

\* A PUT whose caller is gone still runs; its answer goes nowhere.
LateWrite(l) ==
  /\ l \in late
  /\ late' = late \ {l}
  /\ IF Rejected(seatmap[l.event], l.mode)
     THEN UNCHANGED <<seatmap, maps, seen>>
     ELSE /\ Creates(seatmap[l.event], l.mode) => maps < MaxMaps
          /\ Store(l.event, PUT(seatmap[l.event], l.mode, l.source, maps + 1))
  /\ UNCHANGED <<version, outbox, requestVars, workerVars, failures>>

\* The rows whose acknowledgement matches: the lease is still this batch's.
Acknowledged(w) == {r \in completed[w] : lease_token[r.event] = w}

\* Mutant of Acknowledge: whatever is requested by now counts as done.
AcknowledgeLatest(w) ==
  /\ generation' = generation
  /\ completed_generation' = [e \in Events |->
       IF \E r \in Acknowledged(w) : r.event = e THEN generation[e] ELSE completed_generation[e]]
  /\ seat_ids' = [e \in Events |->
       IF \E r \in Acknowledged(w) : r.event = e THEN None ELSE seat_ids[e]]
  /\ lease_token' = [e \in Events |->
       IF \E r \in Acknowledged(w) : r.event = e THEN None ELSE lease_token[e]]
  /\ lease_live' = lease_live

\* A request raised since the claim keeps its generation and its seats.
Acknowledge(w) ==
  /\ generation' = generation
  /\ completed_generation' = [e \in Events |->
       IF \E r \in Acknowledged(w) : r.event = e
       THEN (CHOOSE r \in Acknowledged(w) : r.event = e).generation
       ELSE completed_generation[e]]
  /\ seat_ids' = [e \in Events |->
       IF \E r \in Acknowledged(w) : r.event = e /\ r.generation = generation[e]
       THEN None ELSE seat_ids[e]]
  /\ lease_token' = [e \in Events |->
       IF \E r \in Acknowledged(w) : r.event = e THEN None ELSE lease_token[e]]
  /\ lease_live' = [e \in Events |->
       IF \E r \in Acknowledged(w) : r.event = e THEN FALSE ELSE lease_live[e]]

Complete(w) ==
  /\ rows[w] = {} /\ work[w] = None /\ completed[w] # {}
  /\ Acknowledge(w)
  /\ completed' = [completed EXCEPT ![w] = {}]
  /\ UNCHANGED <<version, outbox, rows, work, mapVars, failures>>

\* The process dies, or the acknowledgement fails and the batch is dropped.
Crash(w) ==
  /\ ~Idle(w)
  /\ Failing
  /\ rows' = [rows EXCEPT ![w] = {}]
  /\ completed' = [completed EXCEPT ![w] = {}]
  /\ work' = [work EXCEPT ![w] = None]
  /\ UNCHANGED <<version, outbox, requestVars, mapVars>>

\* The batch that holds the lease of e is still running.
Held(e) ==
  /\ lease_token[e] # None
  /\ \E r \in rows[lease_token[e]] \cup completed[lease_token[e]] : r.event = e

\* lease_until passes.  A batch that still runs then is a failure of its own.
LeaseLapse(e) ==
  /\ lease_live[e]
  /\ IF Held(e) THEN Failing ELSE UNCHANGED failures
  /\ lease_live' = [lease_live EXCEPT ![e] = FALSE]
  /\ UNCHANGED <<version, outbox, generation, completed_generation, seat_ids,
                 lease_token, workerVars, mapVars>>

\* The key's TTL passes unread, or Redis loses it.
MapLost(e) ==
  /\ seatmap[e] # NoMap
  /\ maps < MaxMaps
  /\ seatmap' = [seatmap EXCEPT ![e] = NoMap]
  /\ UNCHANGED <<version, outbox, requestVars, workerVars, late, maps, seen, failures>>

Next ==
  \/ \E e \in Events, S \in SUBSET Seats : S # {} /\ Commit(e, S)
  \/ \E m \in outbox : \E ids \in {m.seats, None} : ConsumeSeatsChanged(m, ids)
  \/ \E w \in Workers, E \in SUBSET Events : Claim(w, E)
  \/ \E w \in Workers : \E r \in rows[w] : ReadRow(w, r)
  \/ \E p \in Processes, e \in Events : ReadAll(p, e)
  \/ \E p \in Processes : Write(p)
  \/ \E p \in Processes : FailRow(p)
  \/ \E l \in late : LateWrite(l)
  \/ \E w \in Workers : Complete(w)
  \/ \E w \in Workers : Crash(w)
  \/ \E e \in Events : LeaseLapse(e)
  \/ \E e \in Events : MapLost(e)

Spec == Init /\ [][Next]_vars

-----------------------------------------------------------------------------
(***************************************************************************)
(* Properties.                                                             *)
(***************************************************************************)
Sources == Nat \cup {None}
Maps == [version : Sources, incarnation : Sources, updating : BOOLEAN,
         source : [Seats -> Sources], stamp : [Seats -> Nat]]

\* Every variable keeps its type; a full write carries every seat of the event.
TypeOK ==
  /\ version \in [Events -> [Seats -> Nat]]
  /\ outbox \subseteq [event : Events, seats : SUBSET Seats, at : Nat]
  /\ generation \in [Events -> Nat]
  /\ completed_generation \in [Events -> Nat]
  /\ \A e \in Events : completed_generation[e] <= generation[e]
  /\ seat_ids \in [Events -> (SUBSET Seats) \cup {None}]
  /\ lease_token \in [Events -> Workers \cup {None}]
  /\ lease_live \in [Events -> BOOLEAN]
  /\ rows \in [Workers -> SUBSET Row] /\ completed \in [Workers -> SUBSET Row]
  /\ DOMAIN work = Processes
  /\ \A l \in late \cup {work[p] : p \in {q \in Processes : work[q] # None}} :
       /\ l.event \in Events /\ l.mode \in Modes \cup {"rejected"}
       /\ DOMAIN l.source \subseteq Seats
       /\ l.mode = "full" => DOMAIN l.source = Seats
  /\ seatmap \in [Events -> Maps]
  /\ maps \in Nat /\ failures \in 0..MaxFailures

\* Two different maps never carry the same availability ETag (BROWSE builds it
\* from incarnation and version): a 304 only ever confirms the body it was
\* issued with, whatever order snapshots, patches and late writes arrive in.
TagNamesOneMap ==
  \A e \in Events : \A a, b \in seen[e] :
    a.incarnation = b.incarnation /\ a.version = b.version => a.source = b.source

\* GET seat-deltas returns the seats whose stamp is above the client's version.
Delta(m, since) == {s \in Seats : m.stamp[s] > since}

\* A client that read this incarnation of the map at any time and applies the
\* delta since then holds exactly the current map.
DeltasCatchUp ==
  \A e \in Events : Readable(seatmap[e]) =>
    \A a \in seen[e] : a.incarnation = seatmap[e].incarnation =>
      \A s \in Seats : seatmap[e].source[s] = a.source[s] \/ s \in Delta(seatmap[e], a.version)

\* Work on seat s of e is still to come: a notification or a refresh request.
Outstanding(e, s) ==
  \/ \E m \in outbox : m.event = e /\ s \in m.seats
  \/ /\ generation[e] > completed_generation[e]
     /\ seat_ids[e] = None \/ s \in seat_ids[e]

\* Until Redis first loses a map, no reader is left with a seat row that is
\* behind event_seats unless a notification or a request will bring the newer
\* one: acknowledging a generation never erases a request raised during it.
StaleSeatIsRequested ==
  \A e \in Events : Readable(seatmap[e]) /\ maps = 1 =>
    \A s \in Seats : seatmap[e].source[s] < version[e][s] => Outstanding(e, s)

\* While a map lives, no write takes a seat of it back to an older row, not
\* even one that was read long ago (PUT compares source_version per seat).
SeatNeverGoesBack ==
  [][\A e \in Events, s \in Seats :
       seatmap[e].source[s] # None /\ seatmap'[e].source[s] # seatmap[e].source[s]
         => seatmap'[e] = NoMap \/ seatmap'[e].source[s] > seatmap[e].source[s]]_vars

\* Every committed change reaches the map through notification and refresh
\* alone, across crashes, failed rows, interrupted scripts and lost leases,
\* unless the map itself is lost.  (A worker that lost its lease can still
\* leave the map marked as updating after that; reconciliation repairs it.)
ChangesReachTheMap ==
  \A e \in Events, s \in Seats, n \in 1..MaxVersion :
    version[e][s] >= n ~> \/ seatmap[e].source[s] # None /\ seatmap[e].source[s] >= n
                          \/ maps > 0 /\ seatmap[e] = NoMap
                          \/ maps > Cardinality(Events)

\* Reconciliation alone repairs what notifications cannot: a lost map, a map
\* left half written, and a stale snapshot written after the loss.
MapsBecomeCurrent ==
  \A e \in Events : <>[](Readable(seatmap[e]) /\ seatmap[e].source = version[e])

=============================================================================
