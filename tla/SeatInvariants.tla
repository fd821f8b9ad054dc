--------------------------- MODULE SeatInvariants ---------------------------
(***************************************************************************)
(* What is true of SeatProjection in every reachable state: the inductive  *)
(* invariant from which the promises to the readers of the maps follow.    *)
(***************************************************************************)
EXTENDS SeatProjection

(***************************************************************************)
(* The maps.                                                               *)
(***************************************************************************)

Fields == {"version", "incarnation", "updating", "source", "stamp"}

IsMap(m) == DOMAIN m = Fields /\ m.source \in [Seats -> Nat \cup {None}]

\* A readable hash is a whole map, and its version adds up its rows.
Sound(m) ==
  /\ Readable(m) => m.incarnation # None
  /\ m.incarnation # None => \A s \in Seats : m.source[s] # None
  /\ Readable(m) => m.version = SumFunction(m.source)

\* The rows read by a process, or on their way in a late write.
IsRead(l) ==
  /\ DOMAIN l = {"event", "mode", "source"}
  /\ l.event \in Events
  /\ DOMAIN l.source \subseteq Seats
  /\ \A s \in DOMAIN l.source : l.source[s] \in Nat
  /\ l.mode = "full" => DOMAIN l.source = Seats

\* Nothing of m is replaced by an older row in n.
Forward(m, n) ==
  \A s \in Seats : m.source[s] # None /\ n.source[s] # m.source[s] => n.source[s] > m.source[s]

\* n is what a write, whole or cut off, may leave of m.
Grown(m, n, id) ==
  /\ IsMap(n) /\ Sound(n) /\ Forward(m, n)
  /\ n.incarnation = m.incarnation \/ (m.incarnation = None /\ n.incarnation = id)
  /\ ~n.updating => n.version # None /\ \A s \in Seats :
       \/ n.stamp[s] = n.version
       \/ ~m.updating /\ n.stamp[s] = m.stamp[s] /\ n.source[s] = m.source[s]

\* The rows of n, where part of the seats has been written.
Source(m, src, part) == [s \in Seats |-> IF s \in part THEN Selected(m, src, s) ELSE m.source[s]]

\* n is m with the seats in part written and stamped with v.
Written(m, src, part, v, n) ==
  /\ IsMap(n) /\ Forward(m, n) /\ n.source = Source(m, src, part)
  /\ \A s \in Seats : n.stamp[s] = IF s \in part THEN v ELSE m.stamp[s]
  /\ n.version = m.version /\ n.incarnation = m.incarnation /\ n.updating = m.updating
  /\ \A s \in Seats : m.source[s] # None => n.source[s] # None

Below(f, k) == \A s \in Seats : f[s] <= k[s]

MapsInv ==
  /\ DOMAIN seatmap = Events /\ DOMAIN seen = Events /\ maps \in Nat
  /\ \A e \in Events : /\ IsMap(seatmap[e]) /\ Sound(seatmap[e])
                       /\ seatmap[e].incarnation \in (1..maps) \cup {None}

\* The living map m of a reader's incarnation has gone no way but forward, and
\* stamps every seat it changed since above the version that was read.
CatchesUp(a, m) ==
  /\ Below(a.source, m.source)
  /\ ~m.updating => \A s \in Seats : m.source[s] = a.source[s] \/ m.stamp[s] > a.version

IsView(a) == a.source \in [Seats -> Nat] /\ a.version = SumFunction(a.source)

\* The views of one incarnation form a chain.
SeenInv ==
  \A e \in Events :
    /\ \A a \in seen[e] : /\ IsView(a) /\ a.incarnation \in 1..maps
                          /\ a.incarnation = seatmap[e].incarnation => CatchesUp(a, seatmap[e])
    /\ \A a, b \in seen[e] : a.incarnation = b.incarnation =>
         Below(a.source, b.source) \/ Below(b.source, a.source)

\* The hash of one event is replaced by one that a write may leave of it.
Replaced(e) == \E n : Grown(seatmap[e], n, maps + 1) /\ Store(e, n)

Lost(e) == seatmap' = [seatmap EXCEPT ![e] = NoMap] /\ UNCHANGED <<maps, seen>>

\* Every step leaves the maps alone, brings one forward, or loses one.
MapsStep ==
  \/ UNCHANGED <<seatmap, maps, seen>>
  \/ \E e \in Events : Replaced(e)
  \/ \E e \in Events : Lost(e)

-----------------------------------------------------------------------------
(***************************************************************************)
(* What is requested, claimed, read and on its way.                        *)
(***************************************************************************)

RequestsInv ==
  /\ \A m \in outbox : m.event \in Events /\ m.seats \in SUBSET Seats
  /\ seat_ids \in [Events -> (SUBSET Seats) \cup {None}]
  /\ generation \in [Events -> Nat] /\ completed_generation \in [Events -> Nat]
  /\ DOMAIN lease_token = Events

\* A worker at work has the row it works on.
HasRow(w) == work[w] # None => \E r \in rows[w] : r.event = work[w].event

ReadsInv ==
  /\ version \in [Events -> [Seats -> Nat]]
  /\ rows \in [Workers -> SUBSET Row] /\ completed \in [Workers -> SUBSET Row]
  /\ DOMAIN work = Processes
  /\ \A p \in Processes : work[p] # None => IsRead(work[p])
  /\ \A w \in Workers : HasRow(w)
  /\ \A l \in late : IsRead(l) /\ l.mode \in Modes

ProjectionInv == MapsInv /\ RequestsInv /\ ReadsInv

\* What a step does for these two.
Typed == RequestsInv' /\ ReadsInv'

\* Requests and notifications stay as they are.
SameRequests == UNCHANGED <<outbox, seat_ids, generation, completed_generation, lease_token>>

-----------------------------------------------------------------------------
(***************************************************************************)
(* A seat that is behind is asked for.  An acknowledgement takes a request *)
(* away, so what was read for it must still be fresh then: a worker whose  *)
(* claim is current (it holds the lease, and the generation has not moved  *)
(* since) has rows that are as new as event_seats or are announced anew,   *)
(* first in its hands and then in the map.                                 *)
(***************************************************************************)

Asked(r) == IF r.seat_ids = None THEN Seats ELSE r.seat_ids

Announced(e, s) == \E m \in outbox : m.event = e /\ s \in m.seats

Fresh(e, s, v) == v >= version[e][s] \/ Announced(e, s)

Current(w, r) == lease_token[r.event] = w /\ r.generation = generation[r.event]

\* A row that w has claimed under a lease that is still its own.
Claimed(w, r) ==
  lease_token[r.event] = w =>
    /\ completed_generation[r.event] < r.generation
    /\ r.generation <= generation[r.event]
    /\ r.generation = generation[r.event] => seat_ids[r.event] = r.seat_ids

ClaimsInv ==
  /\ \A e \in Events : completed_generation[e] <= generation[e]
  /\ \A w \in Workers : \A r \in rows[w] \cup completed[w] : Claimed(w, r)
  /\ \A w \in Workers : \A r, q \in rows[w] \cup completed[w] : r.event = q.event => r = q

ReadFresh(w, r) ==
  Current(w, r) /\ work[w] # None /\ work[w].event = r.event /\ work[w].mode \in Modes =>
    \A s \in Asked(r) : s \in DOMAIN work[w].source /\ Fresh(r.event, s, work[w].source[s])

DoneFresh(w, r) ==
  Current(w, r) /\ maps = 1 /\ seatmap[r.event].incarnation # None =>
    \A s \in Asked(r) : Fresh(r.event, s, seatmap[r.event].source[s])

FreshInv == \A w \in Workers : /\ \A r \in rows[w] : ReadFresh(w, r)
                               /\ \A r \in completed[w] : DoneFresh(w, r)

\* Before the first map nothing is done, and every written seat is asked for.
NoneDone == maps = 0 => \A w \in Workers : completed[w] = {}

Covered(e, s) ==
  /\ maps = 0 /\ version[e][s] > 0 => Outstanding(e, s)
  /\ maps = 1 /\ seatmap[e].incarnation # None =>
       seatmap[e].source[s] >= version[e][s] \/ Outstanding(e, s)

StaleInv == NoneDone /\ \A e \in Events, s \in Seats : Covered(e, s)

RequestedInv == ClaimsInv /\ FreshInv /\ StaleInv
=============================================================================
