------------------------- MODULE SeatRequests_proofs -------------------------
(***************************************************************************)
(* A step that brings the maps forward, or leaves them alone, leaves every *)
(* seat that is behind event_seats asked for; and one that writes no map   *)
(* leaves requests, claims and reads in form.                              *)
(***************************************************************************)
EXTENDS SeatInvariants, TLAPS

\* What a claimed row is made of.
LEMMA BatchRow ==
  ASSUME ReadsInv, NEW w \in Workers, NEW r \in rows[w] \cup completed[w]
  PROVE  r \in Row /\ r.event \in Events /\ r.generation \in Nat /\ Asked(r) \in SUBSET Seats
<1>1. r \in Row
  BY DEF ReadsInv
<1> QED
  BY <1>1 DEF Row, Asked

\* A readable map is a whole one.
LEMMA StaleIsRequested == MapsInv /\ ReadsInv /\ StaleInv => StaleSeatIsRequested
<1> SUFFICES ASSUME MapsInv, ReadsInv, StaleInv, NEW e \in Events, Readable(seatmap[e]), maps = 1,
                    NEW s \in Seats, seatmap[e].source[s] < version[e][s]
             PROVE  Outstanding(e, s)
  BY DEF StaleSeatIsRequested
<1>1. seatmap[e].incarnation # None
  BY DEF MapsInv, Sound, Readable
<1>2. seatmap[e].source[s] \in Nat /\ version[e][s] \in Nat
  BY <1>1 DEF MapsInv, IsMap, Sound, ReadsInv
<1>3. ~(seatmap[e].source[s] >= version[e][s])
  BY <1>2
<1> QED
  BY <1>1, <1>3 DEF StaleInv, Covered

\* A hash that has no fields.
LEMMA NoMapIsSound == IsMap(NoMap) /\ Sound(NoMap) /\ NoMap.incarnation = None
BY DEF IsMap, Sound, Readable, NoMap, Fields

\* The script's seat writes.
LEMMA WriteSeatsForward ==
  ASSUME NEW m, IsMap(m), NEW l, IsRead(l), NEW v, NEW part \in SUBSET (DOMAIN l.source)
  PROVE  Written(m, l.source, part, v, WriteSeats(m, l.source, part, v))
<1> DEFINE n == WriteSeats(m, l.source, part, v)
           f == Source(m, l.source, part)
<1>1. /\ DOMAIN n = Fields /\ n.source = f
      /\ \A s \in Seats : n.stamp[s] = IF s \in part THEN v ELSE m.stamp[s]
      /\ n.version = m.version /\ n.incarnation = m.incarnation /\ n.updating = m.updating
  BY DEF WriteSeats, IsMap, Fields, Source
<1>2. ASSUME NEW s \in Seats
      PROVE  /\ f[s] \in Nat \cup {None}
             /\ m.source[s] # None /\ f[s] # m.source[s] => f[s] > m.source[s]
             /\ m.source[s] # None => f[s] # None
  <2>1. m.source[s] \in Nat \cup {None} /\ f[s] = IF s \in part THEN Selected(m, l.source, s) ELSE m.source[s]
    BY DEF IsMap, Source
  <2>2. s \in part => l.source[s] \in Nat
    BY DEF IsRead
  <2> HIDE DEF f
  <2> QED
    BY <2>1, <2>2, NoneAssumption DEF Selected, Newer
<1>3. f \in [Seats -> Nat \cup {None}]
  BY <1>2 DEF Source
<1> QED
  BY <1>1, <1>2, <1>3 DEF Written, IsMap, Forward

\* A whole write leaves a whole map, and none of its rows is newer than the map's.
LEMMA PutCovers ==
  ASSUME NEW m, IsMap(m), Sound(m), NEW l, IsRead(l), l.mode \in Modes, ~Rejected(m, l.mode),
         NEW id, id # None
  PROVE  LET n == PUT(m, l.mode, l.source, id) IN
           /\ n.incarnation # None
           /\ \A s \in DOMAIN l.source : n.source[s] \in Nat /\ n.source[s] >= l.source[s]
<1> DEFINE v == PutVersion(m, l.mode, l.source)
           C == ChangedSeats(m, l.source)
           W == WriteSeats(m, l.source, C, v)
           n == PUT(m, l.mode, l.source, id)
<1>1. C \in SUBSET (DOMAIN l.source)
  BY DEF ChangedSeats
<1> HIDE DEF v
<1>2. Written(m, l.source, C, v, W)
  <2> HIDE DEF C
  <2> QED
    BY <1>1, WriteSeatsForward
<1>3. n = [W EXCEPT !.version = v, !.incarnation = Incarnation(m, l.mode, id), !.updating = FALSE]
  BY DEF PUT, v
<1> HIDE DEF W, n
<1>4. l.mode = "patch" => m.incarnation # None
  BY DEF Rejected, Readable, Sound
<1>5. n.source = Source(m, l.source, C) /\ n.incarnation = Incarnation(m, l.mode, id)
  BY <1>2, <1>3 DEF Written, IsMap, Fields
<1>6. n.incarnation # None
  BY <1>4, <1>5 DEF Incarnation, Modes
<1>7. ASSUME NEW s \in DOMAIN l.source PROVE n.source[s] \in Nat /\ n.source[s] >= l.source[s]
  <2>1. s \in Seats /\ l.source[s] \in Nat /\ m.source[s] \in Nat \cup {None}
    BY DEF IsRead, IsMap
  <2>2. n.source[s] = IF s \in C THEN Selected(m, l.source, s) ELSE m.source[s]
    BY <1>5, <2>1 DEF Source
  <2>3. CASE s \in C
    BY <2>1, <2>2, <2>3 DEF Selected, Newer
  <2>4. CASE s \notin C
    <3>1. ~Newer(l.source[s], m.source[s])
      BY <2>4 DEF ChangedSeats
    <3> QED
      BY <2>1, <2>2, <2>4, <3>1 DEF Newer
  <2> QED
    BY <2>3, <2>4
<1> QED
  BY <1>6, <1>7 DEF n

\* A map that lives on, or is created as the first one.
LEMMA FirstMaps ==
  ASSUME MapsInv, NEW d \in Events, NEW n, Grown(seatmap[d], n, maps + 1), Store(d, n)
  PROVE  /\ maps' = 0 => maps = 0
         /\ \A e \in Events : maps' = 1 /\ seatmap'[e].incarnation # None =>
              \/ /\ maps = 1 /\ seatmap[e].incarnation # None
                 /\ \A s \in Seats : /\ seatmap[e].source[s] \in Nat /\ seatmap'[e].source[s] \in Nat
                                     /\ seatmap'[e].source[s] >= seatmap[e].source[s]
              \/ maps = 0 /\ \A s \in Seats : seatmap'[e].source[s] \in Nat
<1>1. maps \in Nat /\ \A e \in Events : /\ IsMap(seatmap[e]) /\ Sound(seatmap[e])
                                        /\ seatmap[e].incarnation \in (1..maps) \cup {None}
  BY DEF MapsInv
<1>2. \A e \in Events : seatmap'[e] = IF e = d THEN n ELSE seatmap[e]
  BY DEF Store, MapsInv
<1>3. maps' = IF n.incarnation # None /\ seatmap[d].incarnation = None THEN maps + 1 ELSE maps
  BY DEF Store
<1>4. maps' = 0 => maps = 0
  BY <1>1, <1>3
<1>5. ASSUME NEW e \in Events, maps' = 1, seatmap'[e].incarnation # None, maps # 0
      PROVE  /\ maps = 1 /\ seatmap[e].incarnation # None
             /\ \A s \in Seats : /\ seatmap[e].source[s] \in Nat /\ seatmap'[e].source[s] \in Nat
                                 /\ seatmap'[e].source[s] >= seatmap[e].source[s]
  <2>1. maps = 1 /\ ~(n.incarnation # None /\ seatmap[d].incarnation = None)
    BY <1>1, <1>3, <1>5
  <2>2. seatmap[e].incarnation # None
    BY <1>2, <1>5, <2>1
  <2>3. \A s \in Seats : seatmap[e].source[s] \in Nat /\ seatmap[e].source[s] # None
    BY <1>1, <2>2 DEF IsMap, Sound
  <2>4. CASE e # d
    BY <1>2, <2>1, <2>2, <2>3, <2>4
  <2>5. CASE e = d
    <3>1. seatmap'[e] = n /\ \A s \in Seats : n.source[s] \in Nat
      BY <1>2, <1>5, <2>5 DEF Grown, IsMap, Sound
    <3>2. \A s \in Seats : n.source[s] = seatmap[e].source[s] \/ n.source[s] > seatmap[e].source[s]
      BY <2>3, <2>5 DEF Grown, Forward
    <3>3. \A s \in Seats : n.source[s] >= seatmap[e].source[s]
      BY <2>3, <3>1, <3>2
    <3> QED
      BY <2>1, <2>2, <2>3, <3>1, <3>3
  <2> QED
    BY <2>4, <2>5
<1>6. ASSUME NEW e \in Events, maps' = 1, seatmap'[e].incarnation # None, maps = 0
      PROVE  \A s \in Seats : seatmap'[e].source[s] \in Nat
  <2>1. seatmap[e].incarnation = None
    BY <1>1, <1>6
  <2>2. seatmap'[e] = n
    BY <1>2, <1>6, <2>1
  <2> QED
    BY <1>6, <2>2 DEF Grown, IsMap, Sound
<1> QED
  BY <1>4, <1>5, <1>6

\* A step of the maps keeps every seat covered, and what is done fresh.
LEMMA MapsKeepStale ==
  ASSUME MapsInv, ReadsInv, FreshInv, StaleInv, MapsStep, SameRequests, UNCHANGED version
  PROVE  /\ maps' = 0 => maps = 0
         /\ \A e \in Events, s \in Seats : Covered(e, s)'
         /\ \A w \in Workers : \A r \in completed[w] : DoneFresh(w, r)'
<1>1. \A e, s : (Outstanding(e, s)' <=> Outstanding(e, s)) /\ (Announced(e, s)' <=> Announced(e, s))
  BY DEF Outstanding, Announced, SameRequests
<1>2. \A w, r : Current(w, r)' <=> Current(w, r)
  BY DEF Current, SameRequests
<1>3. \A e \in Events, s \in Seats : version[e][s] \in Nat
  BY DEF ReadsInv
<1>4. \A w \in Workers : \A r \in completed[w] : r.event \in Events /\ Asked(r) \in SUBSET Seats
  BY BatchRow
<1> DEFINE Lives(e) == /\ maps = 1 /\ seatmap[e].incarnation # None
                       /\ \A s \in Seats : /\ seatmap[e].source[s] \in Nat /\ seatmap'[e].source[s] \in Nat
                                           /\ seatmap'[e].source[s] >= seatmap[e].source[s]
           First(e) == maps = 0 /\ \A s \in Seats : seatmap'[e].source[s] \in Nat
<1>5. /\ maps' = 0 => maps = 0
      /\ \A e \in Events : maps' = 1 /\ seatmap'[e].incarnation # None => Lives(e) \/ First(e)
  <2>1. CASE UNCHANGED <<seatmap, maps, seen>>
    BY <2>1 DEF MapsInv, IsMap, Sound
  <2>2. ASSUME NEW d \in Events, NEW n, Grown(seatmap[d], n, maps + 1), Store(d, n)
        PROVE  /\ maps' = 0 => maps = 0
               /\ \A e \in Events : maps' = 1 /\ seatmap'[e].incarnation # None => Lives(e) \/ First(e)
    BY <2>2, FirstMaps
  <2>3. ASSUME NEW d \in Events, Lost(d)
        PROVE  /\ maps' = 0 => maps = 0
               /\ \A e \in Events : maps' = 1 /\ seatmap'[e].incarnation # None => Lives(e) \/ First(e)
    <3>1. maps' = maps /\ \A e \in Events : seatmap'[e] = IF e = d THEN NoMap ELSE seatmap[e]
      BY <2>3 DEF Lost, MapsInv
    <3> QED
      BY <3>1, NoMapIsSound DEF MapsInv, IsMap, Sound
  <2> QED
    BY <2>1, <2>2, <2>3 DEF MapsStep, Replaced
<1>6. ASSUME NEW e \in Events, NEW s \in Seats PROVE Covered(e, s)'
  <2>1. Covered(e, s) /\ version[e][s] \in Nat
    BY <1>3 DEF StaleInv
  <2>2. maps' = 0 /\ version[e][s] > 0 => Outstanding(e, s)
    BY <1>5, <2>1 DEF Covered
  <2>3. ASSUME maps' = 1, seatmap'[e].incarnation # None
        PROVE  seatmap'[e].source[s] >= version[e][s] \/ Outstanding(e, s)
    <3>1. CASE Lives(e)
      BY <2>1, <3>1 DEF Covered
    <3>2. CASE First(e)
      BY <2>1, <3>2 DEF Covered
    <3> QED
      BY <1>5, <2>3, <3>1, <3>2
  <2> QED
    BY <1>1, <2>2, <2>3 DEF Covered
<1>7. ASSUME NEW w \in Workers, NEW r \in completed[w] PROVE DoneFresh(w, r)'
  <2> SUFFICES ASSUME Current(w, r), maps' = 1, seatmap'[r.event].incarnation # None,
                      NEW s \in Asked(r)
               PROVE  seatmap'[r.event].source[s] >= version[r.event][s] \/ Announced(r.event, s)
    BY <1>1, <1>2 DEF DoneFresh, Fresh, Asked
  <2>1. r.event \in Events /\ s \in Seats /\ version[r.event][s] \in Nat
    BY <1>3, <1>4
  <2>2. maps # 0
    BY DEF StaleInv, NoneDone
  <2>3. Lives(r.event)
    BY <1>5, <2>1, <2>2
  <2>4. seatmap[r.event].source[s] >= version[r.event][s] \/ Announced(r.event, s)
    BY <2>3 DEF FreshInv, DoneFresh, Fresh
  <2> QED
    BY <2>1, <2>3, <2>4
<1> QED
  BY <1>5, <1>6, <1>7

\* The claims of a step that takes up no row and leaves the requests alone.
LEMMA KeptClaims ==
  ASSUME ClaimsInv, SameRequests,
         \A w \in Workers : rows'[w] \cup completed'[w] \subseteq rows[w] \cup completed[w]
  PROVE  ClaimsInv'
<1>1. \A w, r : Claimed(w, r)' <=> Claimed(w, r)
  BY DEF Claimed, SameRequests
<1>2. \A e \in Events : completed_generation'[e] <= generation'[e]
  BY DEF ClaimsInv, SameRequests
<1>3. \A w \in Workers : \A r \in rows'[w] \cup completed'[w] : Claimed(w, r)'
  BY <1>1 DEF ClaimsInv
<1>4. \A w \in Workers : \A r, q \in rows'[w] \cup completed'[w] : r.event = q.event => r = q
  BY DEF ClaimsInv
<1> QED
  BY <1>2, <1>3, <1>4 DEF ClaimsInv

\* What the other workers have read.
LEMMA KeptReadFresh ==
  ASSUME SameRequests, UNCHANGED version, NEW w \in Workers, work'[w] = work[w],
         NEW r, ReadFresh(w, r)
  PROVE  ReadFresh(w, r)'
<1>1. \A e, s, v : Fresh(e, s, v)' <=> Fresh(e, s, v)
  BY DEF Fresh, Announced, SameRequests
<1>2. Current(w, r)' <=> Current(w, r)
  BY DEF Current, SameRequests
<1> QED
  BY <1>1, <1>2 DEF ReadFresh, Asked

\* A worker without work has read nothing.
LEMMA IdleReadFresh == ASSUME NEW w, NEW r, work'[w] = None PROVE ReadFresh(w, r)'
BY DEF ReadFresh

\* Steps that read, drop or finish no row of their own but the given ones.
LEMMA KeptStale ==
  ASSUME ProjectionInv, RequestedInv, MapsStep, SameRequests, UNCHANGED version,
         \A w \in Workers : rows'[w] \subseteq rows[w] /\ completed'[w] \subseteq completed[w],
         \A w \in Workers : \A r \in rows'[w] : ReadFresh(w, r)'
  PROVE  RequestedInv'
<1>1. ClaimsInv'
  BY KeptClaims DEF RequestedInv
<1>2. /\ maps' = 0 => maps = 0
      /\ \A e \in Events, s \in Seats : Covered(e, s)'
      /\ \A w \in Workers : \A r \in completed[w] : DoneFresh(w, r)'
  BY MapsKeepStale DEF ProjectionInv, RequestedInv
<1>3. NoneDone'
  BY <1>2 DEF NoneDone, RequestedInv, StaleInv
<1>4. FreshInv'
  BY <1>2 DEF FreshInv
<1> QED
  BY <1>1, <1>2, <1>3, <1>4 DEF RequestedInv, StaleInv

\* A row that w still has and has not read is as fresh as it was.
LEMMA OthersFresh ==
  ASSUME ProjectionInv, RequestedInv, SameRequests, UNCHANGED version,
         NEW p, work' = [work EXCEPT ![p] = None],
         \A w \in Workers : rows'[w] \subseteq rows[w]
  PROVE  \A w \in Workers : \A r \in rows'[w] : ReadFresh(w, r)'
<1> SUFFICES ASSUME NEW w \in Workers, NEW r \in rows'[w] PROVE ReadFresh(w, r)'
  OBVIOUS
<1>0. w \in DOMAIN work
  BY DEF ProjectionInv, ReadsInv, Processes
<1>1. CASE w = p
  <2>1. work'[w] = None
    BY <1>0, <1>1
  <2> QED
    BY <2>1, IdleReadFresh
<1>2. CASE w # p
  <2>1. work'[w] = work[w] /\ ReadFresh(w, r)
    BY <1>0, <1>2 DEF RequestedInv, FreshInv
  <2> QED
    BY <2>1, KeptReadFresh
<1> QED
  BY <1>1, <1>2

\* A lost map, a lapsed lease, a late write, or nothing at all.
LEMMA QuietStale ==
  ASSUME ProjectionInv, RequestedInv, MapsStep, SameRequests, UNCHANGED <<version, rows, completed, work>>
  PROVE  RequestedInv'
<1>1. ASSUME NEW w \in Workers, NEW r \in rows[w] PROVE ReadFresh(w, r)'
  BY KeptReadFresh DEF RequestedInv, FreshInv
<1> QED
  BY <1>1, KeptStale

\* A worker dies.
LEMMA CrashStale ==
  ASSUME ProjectionInv, RequestedInv, NEW w \in Workers, Crash(w)
  PROVE  RequestedInv'
<1>1. /\ work' = [work EXCEPT ![w] = None] /\ SameRequests
      /\ rows' = [rows EXCEPT ![w] = {}] /\ completed' = [completed EXCEPT ![w] = {}]
      /\ UNCHANGED <<version, seatmap, maps, seen>>
  BY DEF Crash, mapVars, requestVars, SameRequests
<1>2. \A v \in Workers : rows'[v] \subseteq rows[v] /\ completed'[v] \subseteq completed[v]
  BY <1>1 DEF ProjectionInv, ReadsInv
<1>3. \A v \in Workers : \A r \in rows'[v] : ReadFresh(v, r)'
  BY <1>1, <1>2, OthersFresh
<1> QED
  BY <1>1, <1>2, <1>3, KeptStale DEF MapsStep

\* A row fails; its request stays.
LEMMA FailRowStale ==
  ASSUME ProjectionInv, RequestedInv, MapsStep, NEW p \in Processes, FailRow(p)
  PROVE  RequestedInv'
<1>2. /\ work' = [work EXCEPT ![p] = None] /\ SameRequests /\ UNCHANGED <<version, completed>>
      /\ rows' = IF p \in Workers
                 THEN [rows EXCEPT ![p] = @ \ {RowOf(p, work[p].event)}] ELSE rows
  BY DEF FailRow, RowFailed, requestVars, SameRequests
<1>3. \A v \in Workers : rows'[v] \subseteq rows[v] /\ completed'[v] \subseteq completed[v]
  BY <1>2 DEF ProjectionInv, ReadsInv
<1>4. \A v \in Workers : \A r \in rows'[v] : ReadFresh(v, r)'
  BY <1>2, <1>3, OthersFresh
<1> QED
  BY <1>2, <1>3, <1>4, KeptStale

\* What a whole transaction read is fresh for every row of its event.
LEMMA ReadAllStale ==
  ASSUME ProjectionInv, RequestedInv, NEW p \in Processes, NEW e \in Events, ReadAll(p, e)
  PROVE  RequestedInv'
<1>1. /\ work' = [work EXCEPT ![p] = [event |-> e, mode |-> "full", source |-> version[e]]]
      /\ SameRequests /\ UNCHANGED <<version, rows, completed, seatmap, maps, seen>>
  BY DEF ReadAll, mapVars, requestVars, SameRequests
<1>2. ASSUME NEW w \in Workers, NEW r \in rows'[w] PROVE ReadFresh(w, r)'
  <2>1. CASE w = p
    <3>1. work'[w].event = e /\ work'[w].source = version[e]
      BY <1>1, <2>1 DEF ProjectionInv, ReadsInv
    <3>2. version[e] \in [Seats -> Nat] /\ Asked(r) \in SUBSET Seats
      BY <1>1, <1>2, BatchRow DEF ProjectionInv, ReadsInv
    <3>3. \A s \in Asked(r) : s \in Seats /\ version[e][s] >= version[e][s]
      BY <3>2
    <3> QED
      BY <1>1, <3>1, <3>2, <3>3 DEF ReadFresh, Fresh, Asked
  <2>2. CASE w # p
    <3>1. work'[w] = work[w] /\ ReadFresh(w, r)
      BY <1>1, <1>2, <2>2 DEF ProjectionInv, ReadsInv, Processes, RequestedInv, FreshInv
    <3> QED
      BY <1>1, <3>1, KeptReadFresh
  <2> QED
    BY <2>1, <2>2
<1> QED
  BY <1>1, <1>2, KeptStale DEF MapsStep

\* What a claimed row's transaction read is fresh for that row.
LEMMA ReadRowStale ==
  ASSUME ProjectionInv, RequestedInv, NEW p \in Workers, NEW q \in rows[p], ReadRow(p, q)
  PROVE  RequestedInv'
<1> DEFINE l == IF q.seat_ids = None
                THEN [event |-> q.event, mode |-> "full", source |-> version[q.event]]
                ELSE [event |-> q.event, mode |-> "patch",
                      source |-> [s \in q.seat_ids |-> version[q.event][s]]]
<1>1. /\ work' = [work EXCEPT ![p] = l]
      /\ SameRequests /\ UNCHANGED <<version, rows, completed, seatmap, maps, seen>>
  BY DEF ReadRow, mapVars, requestVars, SameRequests
<1>2. q.event \in Events /\ version[q.event] \in [Seats -> Nat] /\ (q.seat_ids = None \/ q.seat_ids \in SUBSET Seats)
  BY DEF ProjectionInv, ReadsInv, Row
<1>3. \A s \in Asked(q) : s \in DOMAIN l.source /\ l.source[s] >= version[q.event][s]
  BY <1>2 DEF Asked
<1>4. l.event = q.event
  OBVIOUS
<1> HIDE DEF l
<1>5. ASSUME NEW w \in Workers, NEW r \in rows'[w] PROVE ReadFresh(w, r)'
  <2>1. CASE w = p
    <3>1. work'[w] = l
      BY <1>1, <2>1 DEF ProjectionInv, ReadsInv, Processes
    <3>2. r.event = q.event => r = q
      BY <1>1, <1>5, <2>1 DEF RequestedInv, ClaimsInv
    <3> QED
      BY <1>1, <1>3, <1>4, <3>1, <3>2 DEF ReadFresh, Fresh, Asked
  <2>2. CASE w # p
    <3>1. work'[w] = work[w] /\ ReadFresh(w, r)
      BY <1>1, <1>5, <2>2 DEF ProjectionInv, ReadsInv, Processes, RequestedInv, FreshInv
    <3> QED
      BY <1>1, <3>1, KeptReadFresh
  <2> QED
    BY <2>1, <2>2
<1> QED
  BY <1>1, <1>5, KeptStale DEF MapsStep

\* PUT, answered.
LEMMA WriteEffect ==
  ASSUME ProjectionInv, NEW p \in Processes, Write(p)
  PROVE  /\ work[p] # None /\ IsRead(work[p]) /\ work[p].mode \in Modes
         /\ SameRequests /\ UNCHANGED version
BY DEF Write, ProjectionInv, ReadsInv, requestVars, SameRequests

\* A rejected patch leaves the worker with nothing to write.
LEMMA RejectedStale ==
  ASSUME ProjectionInv, RequestedInv, MapsStep, NEW p \in Processes, Write(p),
         Rejected(seatmap[work[p].event], work[p].mode)
  PROVE  RequestedInv'
<1>1. work' = [work EXCEPT ![p].mode = "rejected"] /\ UNCHANGED <<rows, completed>>
  BY DEF Write
<1>2. SameRequests /\ UNCHANGED version /\ IsRead(work[p])
  BY WriteEffect
<1>3. ASSUME NEW w \in Workers, NEW r \in rows'[w] PROVE ReadFresh(w, r)'
  <2>1. CASE w = p
    <3>1. work'[w].mode = "rejected"
      BY <1>1, <1>2, <2>1 DEF ProjectionInv, ReadsInv, IsRead
    <3> QED
      BY <3>1 DEF ReadFresh, Modes
  <2>2. CASE w # p
    <3>1. work'[w] = work[w] /\ ReadFresh(w, r)
      BY <1>1, <1>3, <2>2 DEF ProjectionInv, ReadsInv, Processes, RequestedInv, FreshInv
    <3> QED
      BY <1>2, <3>1, KeptReadFresh
  <2> QED
    BY <2>1, <2>2
<1> QED
  BY <1>1, <1>2, <1>3, KeptStale

\* What a whole write leaves in the map.
LEMMA WrittenMap ==
  ASSUME ProjectionInv, NEW p \in Processes, Write(p),
         ~Rejected(seatmap[work[p].event], work[p].mode)
  PROVE  /\ work[p].event \in Events /\ maps' # 0
         /\ \A s \in DOMAIN work[p].source :
              /\ seatmap'[work[p].event].source[s] \in Nat
              /\ seatmap'[work[p].event].source[s] >= work[p].source[s]
<1>0. maps \in Nat /\ maps + 1 # None
  BY NoneAssumption DEF ProjectionInv, MapsInv
<1> DEFINE e == work[p].event
           n == PUT(seatmap[work[p].event], work[p].mode, work[p].source, maps + 1)
<1>1. IsRead(work[p]) /\ work[p].mode \in Modes /\ Store(e, n)
  BY WriteEffect DEF Write
<1>2. /\ e \in Events /\ IsMap(seatmap[e]) /\ Sound(seatmap[e])
      /\ seatmap[e].incarnation \in (1..maps) \cup {None}
  BY <1>1 DEF ProjectionInv, MapsInv, IsRead
<1>4. /\ n.incarnation # None
      /\ \A s \in DOMAIN work[p].source : n.source[s] \in Nat /\ n.source[s] >= work[p].source[s]
  BY <1>0, <1>1, <1>2, PutCovers
<1> HIDE DEF n, e
<1>5. /\ seatmap'[e] = n
      /\ maps' = IF n.incarnation # None /\ seatmap[e].incarnation = None THEN maps + 1 ELSE maps
  BY <1>1, <1>2 DEF Store, ProjectionInv, MapsInv
<1>6. maps' # 0
  BY <1>0, <1>2, <1>4, <1>5
<1> QED
  BY <1>2, <1>4, <1>5, <1>6 DEF e

\* A row that was fresh in the worker's hands is fresh in the map.
LEMMA WrittenFresh ==
  ASSUME ProjectionInv, NEW p \in Workers, p \in Processes, Write(p),
         ~Rejected(seatmap[work[p].event], work[p].mode),
         NEW q, q.event = work[p].event, ReadFresh(p, q)
  PROVE  DoneFresh(p, q)'
<1>1. work[p] # None /\ IsRead(work[p]) /\ work[p].mode \in Modes /\ SameRequests /\ version' = version
  BY WriteEffect
<1> SUFFICES ASSUME Current(p, q), NEW s \in Asked(q)
             PROVE  seatmap'[q.event].source[s] >= version[q.event][s] \/ Announced(q.event, s)
  BY <1>1 DEF DoneFresh, Current, Fresh, Announced, Asked, SameRequests
<1>2. /\ s \in DOMAIN work[p].source
      /\ work[p].source[s] >= version[q.event][s] \/ Announced(q.event, s)
  BY <1>1 DEF ReadFresh, Fresh
<1>3. s \in Seats /\ work[p].source[s] \in Nat
  BY <1>1, <1>2 DEF IsRead
<1>4. /\ q.event \in Events
      /\ seatmap'[q.event].source[s] \in Nat /\ seatmap'[q.event].source[s] >= work[p].source[s]
  BY <1>2, WrittenMap
<1>5. version[q.event][s] \in Nat
  BY <1>3, <1>4 DEF ProjectionInv, ReadsInv
<1> QED
  BY <1>2, <1>3, <1>4, <1>5

\* A worker's row in hand.
LEMMA RowOfWork ==
  ASSUME ReadsInv, NEW w \in Workers, work[w] # None
  PROVE  LET r == RowOf(w, work[w].event) IN r \in rows[w] /\ r \in Row /\ r.event = work[w].event
BY DEF ReadsInv, HasRow, RowOf

\* A worker's row moves on to be acknowledged.
LEMMA WorkerWriteStale ==
  ASSUME ProjectionInv, RequestedInv, MapsStep, NEW p \in Workers, Write(p),
         ~Rejected(seatmap[work[p].event], work[p].mode)
  PROVE  RequestedInv'
<1>1. /\ p \in Processes /\ work[p] # None /\ SameRequests /\ UNCHANGED version
  BY WriteEffect DEF Processes
<1>2. Projected(p, work[p].event)
  BY DEF Write
<1>3. PICK q : q = RowOf(p, work[p].event) /\ q \in rows[p] /\ q.event = work[p].event
  BY <1>1, RowOfWork DEF ProjectionInv
<1>4. /\ work' = [work EXCEPT ![p] = None]
      /\ \A w \in Workers : rows'[w] \subseteq rows[w]
      /\ \A w \in Workers : completed'[w] = IF w = p THEN completed[w] \cup {q} ELSE completed[w]
  BY <1>2, <1>3 DEF Projected, ProjectionInv, ReadsInv
<1>5. ClaimsInv'
  <2>1. \A w \in Workers : rows'[w] \cup completed'[w] \subseteq rows[w] \cup completed[w]
    BY <1>3, <1>4
  <2> QED
    BY <1>1, <2>1, KeptClaims DEF RequestedInv
<1>6. \A w \in Workers : \A r \in rows'[w] : ReadFresh(w, r)'
  BY <1>1, <1>4, OthersFresh
<1>7. /\ \A d \in Events, s \in Seats : Covered(d, s)'
      /\ \A w \in Workers : \A r \in completed[w] : DoneFresh(w, r)'
  BY <1>1, MapsKeepStale DEF ProjectionInv, RequestedInv
<1>8. ReadFresh(p, q)
  BY <1>3 DEF RequestedInv, FreshInv
<1>9. DoneFresh(p, q)'
  BY <1>1, <1>3, <1>8, WrittenFresh
<1>10. FreshInv'
  BY <1>4, <1>6, <1>7, <1>9 DEF FreshInv
<1>11. NoneDone'
  BY <1>1, WrittenMap DEF NoneDone
<1> QED
  BY <1>5, <1>7, <1>10, <1>11 DEF RequestedInv, StaleInv

LEMMA WriteStale ==
  ASSUME ProjectionInv, RequestedInv, MapsStep, NEW p \in Processes, Write(p)
  PROVE  RequestedInv'
<1>1. CASE Rejected(seatmap[work[p].event], work[p].mode)
  BY <1>1, RejectedStale
<1>2. CASE ~Rejected(seatmap[work[p].event], work[p].mode) /\ p \in Workers
  BY <1>2, WorkerWriteStale
<1>3. CASE ~Rejected(seatmap[work[p].event], work[p].mode) /\ p \notin Workers
  <2>1. work' = [work EXCEPT ![p] = None] /\ UNCHANGED <<rows, completed>>
    BY <1>3 DEF Write, Projected
  <2>2. SameRequests /\ UNCHANGED version
    BY WriteEffect
  <2>3. \A w \in Workers : \A r \in rows'[w] : ReadFresh(w, r)'
    BY <2>1, <2>2, OthersFresh
  <2> QED
    BY <2>1, <2>2, <2>3, KeptStale
<1> QED
  BY <1>1, <1>2, <1>3

\* A seat transaction announces the seats it writes.
LEMMA CommitStale ==
  ASSUME ProjectionInv, RequestedInv, NEW d \in Events, NEW S \in SUBSET Seats, Commit(d, S)
  PROVE  RequestedInv'
<1> DEFINE n == [event |-> d, seats |-> S, at |-> SumFunction(version'[d])]
<1>1. /\ outbox' = outbox \cup {n}
      /\ version' = [version EXCEPT ![d] = [s \in Seats |-> IF s \in S THEN @[s] + 1 ELSE @[s]]]
      /\ UNCHANGED <<seat_ids, generation, completed_generation, lease_token,
                     rows, completed, work, seatmap, maps, seen>>
  BY DEF Commit, requestVars, workerVars, mapVars
<1>2. n.event = d /\ n.seats = S
  OBVIOUS
<1> HIDE DEF n
<1>3. version \in [Events -> [Seats -> Nat]]
  BY DEF ProjectionInv, ReadsInv
<1>4. \A e \in Events, s \in Seats : version'[e][s] = version[e][s] \/ Announced(e, s)'
  BY <1>1, <1>2, <1>3 DEF Announced
<1>5. \A e, s : /\ Announced(e, s) => Announced(e, s)'
                /\ Outstanding(e, s) => Outstanding(e, s)'
                /\ Announced(e, s)' => Outstanding(e, s)'
  BY <1>1 DEF Announced, Outstanding
<1>6. \A e \in Events, s \in Seats : \A v : Fresh(e, s, v) => Fresh(e, s, v)'
  BY <1>4, <1>5 DEF Fresh
<1>7. ClaimsInv'
  BY <1>1 DEF RequestedInv, ClaimsInv, Claimed
<1>8. \A w \in Workers : \A r \in rows[w] \cup completed[w] : r.event \in Events /\ Asked(r) \in SUBSET Seats
  BY BatchRow DEF ProjectionInv
<1>9. ASSUME NEW w \in Workers, NEW r \in rows[w] PROVE ReadFresh(w, r)'
  <2>1. ReadFresh(w, r) /\ (Current(w, r)' <=> Current(w, r))
    BY <1>1 DEF RequestedInv, FreshInv, Current
  <2> QED
    BY <1>1, <1>6, <1>8, <2>1 DEF ReadFresh, Asked
<1>10. ASSUME NEW w \in Workers, NEW r \in completed[w] PROVE DoneFresh(w, r)'
  <2>1. DoneFresh(w, r) /\ (Current(w, r)' <=> Current(w, r))
    BY <1>1 DEF RequestedInv, FreshInv, Current
  <2> QED
    BY <1>1, <1>6, <1>8, <2>1 DEF DoneFresh, Asked
<1>11. ASSUME NEW e \in Events, NEW s \in Seats PROVE Covered(e, s)'
  <2>1. Covered(e, s)
    BY DEF RequestedInv, StaleInv
  <2>2. CASE Announced(e, s)'
    BY <1>5, <2>2 DEF Covered
  <2>3. CASE version'[e][s] = version[e][s]
    BY <1>1, <1>5, <2>1, <2>3 DEF Covered
  <2> QED
    BY <1>4, <2>2, <2>3
<1>12. NoneDone'
  BY <1>1 DEF RequestedInv, StaleInv, NoneDone
<1> QED
  BY <1>1, <1>7, <1>9, <1>10, <1>11, <1>12 DEF RequestedInv, FreshInv, StaleInv

\* A notification becomes part of a request of its event.
Consumed(n, ids) ==
  /\ outbox' = outbox \ {n}
  /\ generation' = [generation EXCEPT ![n.event] = @ + 1]
  /\ seat_ids' = [seat_ids EXCEPT ![n.event] = MergedSeats(n.event, ids)]
  /\ UNCHANGED <<completed_generation, lease_token, version, rows, completed, work, seatmap, maps, seen>>

LEMMA ConsumeFrame ==
  ASSUME NEW n, NEW ids, ConsumeSeatsChanged(n, ids)
  PROVE  Consumed(n, ids)
BY DEF Consumed, ConsumeSeatsChanged, request_refresh, workerVars, mapVars

LEMMA ConsumeGeneration ==
  ASSUME RequestsInv, NEW n \in outbox, NEW ids, Consumed(n, ids)
  PROVE  /\ n.event \in Events
         /\ generation[n.event] \in Nat /\ completed_generation[n.event] \in Nat
         /\ generation'[n.event] = generation[n.event] + 1
         /\ seat_ids'[n.event] = MergedSeats(n.event, ids)
         /\ \A e \in Events \ {n.event} : generation'[e] = generation[e] /\ seat_ids'[e] = seat_ids[e]
BY DEF Consumed, RequestsInv

\* The request names what the notification or an earlier request named.
LEMMA ConsumeMerged ==
  ASSUME NEW n \in outbox, NEW ids \in {n.seats, None}, NEW s,
         \/ s \in n.seats
         \/ generation[n.event] # completed_generation[n.event]
            /\ (seat_ids[n.event] = None \/ s \in seat_ids[n.event])
  PROVE  MergedSeats(n.event, ids) = None \/ s \in MergedSeats(n.event, ids)
<1>1. CASE s \in n.seats
  <2>1. ids = None \/ s \in ids
    BY <1>1
  <2> QED
    BY <2>1 DEF MergedSeats
<1>2. CASE /\ generation[n.event] # completed_generation[n.event]
           /\ (seat_ids[n.event] = None \/ s \in seat_ids[n.event])
  BY <1>2 DEF MergedSeats
<1> QED
  BY <1>1, <1>2

\* So what was outstanding is.
LEMMA ConsumeOutstanding ==
  ASSUME RequestsInv, ClaimsInv, NEW n \in outbox, NEW ids \in {n.seats, None}, Consumed(n, ids),
         NEW s, Outstanding(n.event, s)
  PROVE  Outstanding(n.event, s)'
<1> DEFINE d == n.event
<1>1. /\ d \in Events /\ generation[d] \in Nat /\ completed_generation[d] \in Nat
      /\ generation'[d] = generation[d] + 1 /\ seat_ids'[d] = MergedSeats(d, ids)
  BY ConsumeGeneration
<1>2. completed_generation'[d] = completed_generation[d] /\ completed_generation[d] <= generation[d]
  BY <1>1 DEF Consumed, ClaimsInv
<1>3. generation'[d] > completed_generation'[d]
  BY <1>1, <1>2
<1>4. ASSUME \/ s \in n.seats
             \/ generation[d] # completed_generation[d] /\ (seat_ids[d] = None \/ s \in seat_ids[d])
      PROVE  Outstanding(d, s)'
  BY <1>1, <1>3, <1>4, ConsumeMerged DEF Outstanding
<1>5. CASE Announced(d, s) /\ s \notin n.seats
  <2>1. Announced(d, s)'
    BY <1>5 DEF Announced, Consumed
  <2> QED
    BY <2>1 DEF Announced, Outstanding
<1>6. CASE generation[d] > completed_generation[d] /\ (seat_ids[d] = None \/ s \in seat_ids[d])
  BY <1>1, <1>4, <1>6
<1> HIDE DEF d
<1> QED
  BY <1>4, <1>5, <1>6 DEF Outstanding, Announced, d

\* Other events do not notice.
LEMMA ConsumeElsewhere ==
  ASSUME RequestsInv, NEW n \in outbox, NEW ids, Consumed(n, ids), NEW e \in Events, e # n.event, NEW s
  PROVE  /\ Announced(e, s) => Announced(e, s)'
         /\ Outstanding(e, s) => Outstanding(e, s)'
         /\ \A v : Fresh(e, s, v) => Fresh(e, s, v)'
<1>1. /\ generation'[e] = generation[e] /\ seat_ids'[e] = seat_ids[e]
      /\ completed_generation' = completed_generation /\ version' = version
  BY ConsumeGeneration DEF Consumed
<1>2. Announced(e, s) => Announced(e, s)'
  BY DEF Announced, Consumed
<1>3. Outstanding(e, s) => Outstanding(e, s)'
  BY <1>1, <1>2 DEF Outstanding, Announced
<1> QED
  BY <1>1, <1>2, <1>3 DEF Fresh

\* No claim of the event stays current: its generation has moved on.
LEMMA ConsumeClaim ==
  ASSUME RequestsInv, NEW n \in outbox, NEW ids, Consumed(n, ids),
         NEW w, NEW r \in Row, Claimed(w, r)
  PROVE  Claimed(w, r)' /\ (Current(w, r)' => Current(w, r) /\ r.event # n.event)
<1>1. r.event \in Events /\ r.generation \in Nat
  BY DEF Row
<1>2. /\ generation[n.event] \in Nat /\ generation'[n.event] = generation[n.event] + 1
      /\ \A e \in Events \ {n.event} : generation'[e] = generation[e] /\ seat_ids'[e] = seat_ids[e]
      /\ completed_generation' = completed_generation /\ lease_token' = lease_token
  BY ConsumeGeneration DEF Consumed
<1>3. CASE r.event = n.event
  <2>1. r.generation <= generation[n.event] =>
          r.generation # generation'[n.event] /\ r.generation <= generation'[n.event]
    BY <1>1, <1>2
  <2> QED
    BY <1>2, <1>3, <2>1 DEF Claimed, Current
<1>4. CASE r.event # n.event
  BY <1>1, <1>2, <1>4 DEF Claimed, Current
<1> QED
  BY <1>3, <1>4

LEMMA ConsumeClaims ==
  ASSUME RequestsInv, ReadsInv, ClaimsInv, NEW n \in outbox, NEW ids, Consumed(n, ids)
  PROVE  ClaimsInv'
<1>1. rows' = rows /\ completed' = completed /\ completed_generation' = completed_generation
  BY DEF Consumed
<1>2. \A w \in Workers : \A r \in rows[w] \cup completed[w] : Claimed(w, r)'
  BY BatchRow, ConsumeClaim DEF ClaimsInv
<1>3. ASSUME NEW e \in Events PROVE completed_generation[e] <= generation'[e]
  <2>1. completed_generation[e] <= generation[e] /\ completed_generation[e] \in Nat /\ generation[e] \in Nat
    BY DEF ClaimsInv, RequestsInv
  <2>2. generation'[e] = generation[e] \/ generation'[e] = generation[e] + 1
    BY ConsumeGeneration
  <2> QED
    BY <2>1, <2>2
<1>4. \A w \in Workers : \A r, q \in rows[w] \cup completed[w] : r.event = q.event => r = q
  BY DEF ClaimsInv
<1> QED
  BY <1>1, <1>2, <1>3, <1>4 DEF ClaimsInv

LEMMA ConsumeFresh ==
  ASSUME RequestsInv, ReadsInv, ClaimsInv, FreshInv, NEW n \in outbox, NEW ids, Consumed(n, ids)
  PROVE  FreshInv'
<1>1. rows' = rows /\ completed' = completed /\ work' = work /\ seatmap' = seatmap /\ maps' = maps
  BY DEF Consumed
<1>2. ASSUME NEW w \in Workers, NEW r \in rows[w] \cup completed[w]
      PROVE  /\ Current(w, r)' => Current(w, r)
             /\ Current(w, r)' => \A s, v : Fresh(r.event, s, v) => Fresh(r.event, s, v)'
  <2>1. r \in Row /\ r.event \in Events /\ Claimed(w, r)
    BY BatchRow DEF ClaimsInv
  <2>2. Current(w, r)' => Current(w, r) /\ r.event # n.event /\ r.event \in Events
    BY <2>1, ConsumeClaim
  <2> QED
    BY <2>2, ConsumeElsewhere
<1>3. ASSUME NEW w \in Workers, NEW r \in rows[w] PROVE ReadFresh(w, r)'
  <2>1. ReadFresh(w, r)
    BY DEF FreshInv
  <2> QED
    BY <1>1, <1>2, <2>1 DEF ReadFresh, Asked
<1>4. ASSUME NEW w \in Workers, NEW r \in completed[w] PROVE DoneFresh(w, r)'
  <2>1. DoneFresh(w, r)
    BY DEF FreshInv
  <2> QED
    BY <1>1, <1>2, <2>1 DEF DoneFresh, Asked
<1> QED
  BY <1>1, <1>3, <1>4 DEF FreshInv

LEMMA ConsumeStale ==
  ASSUME ProjectionInv, RequestedInv,
         NEW n \in outbox, NEW ids \in {n.seats, None}, ConsumeSeatsChanged(n, ids)
  PROVE  RequestedInv'
<1>1. Consumed(n, ids)
  BY ConsumeFrame
<1>2. ClaimsInv' /\ FreshInv'
  BY <1>1, ConsumeClaims, ConsumeFresh DEF ProjectionInv, RequestedInv
<1>3. version' = version /\ seatmap' = seatmap /\ maps' = maps /\ completed' = completed
  BY <1>1 DEF Consumed
<1>4. ASSUME NEW e \in Events, NEW s \in Seats PROVE Covered(e, s)'
  <2>1. Covered(e, s)
    BY DEF RequestedInv, StaleInv
  <2>2. Outstanding(e, s) => Outstanding(e, s)'
    BY <1>1, ConsumeOutstanding, ConsumeElsewhere DEF ProjectionInv, RequestedInv
  <2> QED
    BY <1>3, <2>1, <2>2 DEF Covered
<1>5. NoneDone'
  BY <1>3 DEF RequestedInv, StaleInv, NoneDone
<1> QED
  BY <1>2, <1>4, <1>5 DEF RequestedInv, StaleInv

\* A batch is claimed by a worker that has none.
LEMMA ClaimStale ==
  ASSUME ProjectionInv, RequestedInv, NEW v \in Workers, NEW E \in SUBSET Events, Claim(v, E)
  PROVE  RequestedInv'
<1> DEFINE R == {[event |-> e, generation |-> generation[e], seat_ids |-> seat_ids[e]] : e \in E}
<1>1. /\ rows[v] = {} /\ completed[v] = {} /\ work[v] = None /\ \A e \in E : Due(e)
      /\ rows' = [rows EXCEPT ![v] = R]
      /\ lease_token' = [e \in Events |-> IF e \in E THEN v ELSE lease_token[e]]
      /\ UNCHANGED <<version, outbox, generation, completed_generation, seat_ids,
                     completed, work, seatmap, maps, seen>>
  BY DEF Claim, Idle, mapVars
<1>2. /\ \A r \in R : /\ r.event \in E /\ r.generation = generation[r.event]
                      /\ r.seat_ids = seat_ids[r.event]
      /\ \A r, q \in R : r.event = q.event => r = q
  <2>1. ASSUME NEW r \in R
        PROVE  /\ r.event \in E
               /\ r = [event |-> r.event, generation |-> generation[r.event], seat_ids |-> seat_ids[r.event]]
    OBVIOUS
  <2> HIDE DEF R
  <2> QED
    BY <2>1
<1> HIDE DEF R
<1>3. \A w \in Workers : rows'[w] = IF w = v THEN R ELSE rows[w]
  BY <1>1 DEF ProjectionInv, ReadsInv
<1>4. \A e \in E : completed_generation[e] < generation[e] /\ generation[e] <= generation[e]
  BY <1>1 DEF Due, ProjectionInv, RequestsInv
<1>5. \A r \in R : Claimed(v, r)'
  BY <1>1, <1>2, <1>4 DEF Claimed
<1>6. ASSUME NEW w \in Workers, w # v, NEW r \in rows[w] \cup completed[w]
      PROVE  Claimed(w, r)' /\ (Current(w, r)' => Current(w, r))
  <2>1. Claimed(w, r) /\ r.event \in Events
    BY BatchRow DEF RequestedInv, ClaimsInv, ProjectionInv
  <2>2. lease_token'[r.event] = w => lease_token[r.event] = w
    BY <1>1, <1>6, <2>1
  <2> QED
    BY <1>1, <2>1, <2>2 DEF Claimed, Current
<1>7. ClaimsInv'
  <2>1. \A w \in Workers : \A r, q \in rows'[w] \cup completed'[w] : r.event = q.event => r = q
    BY <1>1, <1>2, <1>3 DEF RequestedInv, ClaimsInv
  <2>2. \A w \in Workers : \A r \in rows'[w] \cup completed'[w] : Claimed(w, r)'
    BY <1>1, <1>3, <1>5, <1>6
  <2> QED
    BY <1>1, <2>1, <2>2 DEF RequestedInv, ClaimsInv
<1>8. ASSUME NEW w \in Workers, NEW r \in rows'[w] PROVE ReadFresh(w, r)'
  <2>1. CASE w = v
    BY <1>1, <2>1, IdleReadFresh
  <2>2. CASE w # v
    <3>1. ReadFresh(w, r) /\ (Current(w, r)' => Current(w, r))
      BY <1>3, <1>6, <1>8, <2>2 DEF RequestedInv, FreshInv
    <3> QED
      BY <1>1, <3>1 DEF ReadFresh, Fresh, Announced, Asked
  <2> QED
    BY <2>1, <2>2
<1>9. ASSUME NEW w \in Workers, NEW r \in completed'[w] PROVE DoneFresh(w, r)'
  <2>1. w # v /\ r \in completed[w]
    BY <1>1, <1>9
  <2>2. DoneFresh(w, r) /\ (Current(w, r)' => Current(w, r))
    BY <1>6, <2>1 DEF RequestedInv, FreshInv
  <2> QED
    BY <1>1, <2>2 DEF DoneFresh, Fresh, Announced, Asked
<1>10. ASSUME NEW e \in Events, NEW s \in Seats PROVE Covered(e, s)'
  <2>1. Covered(e, s) /\ (Outstanding(e, s)' <=> Outstanding(e, s))
    BY <1>1 DEF RequestedInv, StaleInv, Outstanding
  <2> QED
    BY <1>1, <2>1 DEF Covered
<1>11. NoneDone'
  BY <1>1 DEF RequestedInv, StaleInv, NoneDone
<1> QED
  BY <1>7, <1>8, <1>9, <1>10, <1>11 DEF RequestedInv, FreshInv, StaleInv

\* What an acknowledgement of w does to the request of e.
Acks(w, e) == \E r \in Acknowledged(w) : r.event = e

Acked(w, e, q) ==
  /\ q \in completed[w] /\ q.event = e /\ lease_token[e] = w
  /\ completed_generation'[e] = q.generation /\ lease_token'[e] = None
  /\ seat_ids'[e] = IF q.generation = generation[e] THEN None ELSE seat_ids[e]

LEMMA CompleteFrame ==
  ASSUME ReadsInv, NEW v \in Workers, Complete(v)
  PROVE  /\ rows[v] = {} /\ completed[v] # {}
         /\ \A w \in Workers : completed'[w] = IF w = v THEN {} ELSE completed[w]
         /\ UNCHANGED <<version, outbox, rows, work, seatmap, maps, generation>>
BY DEF Complete, Acknowledge, mapVars, ReadsInv

LEMMA CompleteOther ==
  ASSUME NEW v \in Workers, Complete(v), NEW e \in Events, ~Acks(v, e)
  PROVE  /\ completed_generation'[e] = completed_generation[e]
         /\ seat_ids'[e] = seat_ids[e] /\ lease_token'[e] = lease_token[e]
BY DEF Complete, Acknowledge, Acks

LEMMA CompleteAcked ==
  ASSUME ClaimsInv, NEW v \in Workers, Complete(v), NEW e \in Events, Acks(v, e)
  PROVE  \E q : Acked(v, e, q)
<1> DEFINE q == CHOOSE r \in Acknowledged(v) : r.event = e
<1>1. q \in Acknowledged(v) /\ q.event = e
  BY DEF Acks
<1>2. completed_generation'[e] = q.generation /\ lease_token'[e] = None
  BY DEF Complete, Acknowledge, Acks
<1>3. seat_ids'[e] = IF \E r \in Acknowledged(v) : r.event = e /\ r.generation = generation[e]
                     THEN None ELSE seat_ids[e]
  BY DEF Complete, Acknowledge
<1> HIDE DEF q
<1>4. q \in completed[v] /\ lease_token[e] = v
  BY <1>1 DEF Acknowledged
<1>5. \A r \in Acknowledged(v) : r.event = e => r = q
  BY <1>1, <1>4 DEF Acknowledged, ClaimsInv
<1> QED
  BY <1>1, <1>2, <1>3, <1>4, <1>5 DEF Acked

\* The claims of the other workers: an acknowledged event was not theirs.
LEMMA CompleteClaim ==
  ASSUME ReadsInv, ClaimsInv, NEW v \in Workers, Complete(v),
         NEW w \in Workers, NEW r \in rows'[w] \cup completed'[w]
  PROVE  /\ w # v /\ r \in rows[w] \cup completed[w]
         /\ Claimed(w, r)' /\ (Current(w, r)' => Current(w, r))
<1>1. /\ w # v /\ r \in rows[w] \cup completed[w] /\ generation' = generation
      /\ r.event \in Events /\ Claimed(w, r)
  <2>1. w # v /\ r \in rows[w] \cup completed[w] /\ generation' = generation
    BY CompleteFrame
  <2> QED
    BY <2>1, BatchRow DEF ClaimsInv
<1>2. CASE Acks(v, r.event)
  <2>1. PICK q : Acked(v, r.event, q)
    BY <1>1, <1>2, CompleteAcked
  <2>2. lease_token'[r.event] = None
    BY <2>1 DEF Acked
  <2>3. lease_token'[r.event] # w
    BY <2>2, NoneAssumption
  <2> QED
    BY <1>1, <2>3 DEF Claimed, Current
<1>3. CASE ~Acks(v, r.event)
  <2>1. /\ completed_generation'[r.event] = completed_generation[r.event]
        /\ seat_ids'[r.event] = seat_ids[r.event] /\ lease_token'[r.event] = lease_token[r.event]
    BY <1>1, <1>3, CompleteOther
  <2> QED
    BY <1>1, <2>1 DEF Claimed, Current
<1> QED
  BY <1>2, <1>3

LEMMA CompleteClaims ==
  ASSUME ReadsInv, ClaimsInv, NEW v \in Workers, Complete(v)
  PROVE  ClaimsInv'
<1>1. ASSUME NEW e \in Events PROVE completed_generation'[e] <= generation'[e]
  <2>1. generation' = generation
    BY CompleteFrame
  <2>2. CASE Acks(v, e)
    <3>1. PICK q : Acked(v, e, q)
      BY <2>2, CompleteAcked
    <3>2. Claimed(v, q)
      BY <3>1 DEF Acked, ClaimsInv
    <3> QED
      BY <2>1, <3>1, <3>2 DEF Acked, Claimed
  <2>3. CASE ~Acks(v, e)
    BY <2>1, <2>3, CompleteOther DEF ClaimsInv
  <2> QED
    BY <2>2, <2>3
<1>2. ASSUME NEW w \in Workers, NEW r \in rows'[w] \cup completed'[w],
             NEW q \in rows'[w] \cup completed'[w], r.event = q.event
      PROVE  r = q
  BY <1>2, CompleteClaim DEF ClaimsInv
<1>3. \A w \in Workers : \A r \in rows'[w] \cup completed'[w] : Claimed(w, r)'
  BY CompleteClaim
<1> QED
  BY <1>1, <1>2, <1>3 DEF ClaimsInv

LEMMA CompleteFresh ==
  ASSUME ReadsInv, ClaimsInv, FreshInv, NEW v \in Workers, Complete(v)
  PROVE  FreshInv'
<1>1. UNCHANGED <<version, outbox, rows, work, seatmap, maps>>
  BY CompleteFrame
<1>2. ASSUME NEW w \in Workers, NEW r \in rows'[w] PROVE ReadFresh(w, r)'
  <2>1. ReadFresh(w, r) /\ (Current(w, r)' => Current(w, r))
    BY <1>1, CompleteClaim DEF FreshInv
  <2> QED
    BY <1>1, <2>1 DEF ReadFresh, Fresh, Announced, Asked
<1>3. ASSUME NEW w \in Workers, NEW r \in completed'[w] PROVE DoneFresh(w, r)'
  <2>1. r \in completed[w]
    BY CompleteFrame
  <2>2. DoneFresh(w, r) /\ (Current(w, r)' => Current(w, r))
    BY <2>1, CompleteClaim DEF FreshInv
  <2> QED
    BY <1>1, <2>2 DEF DoneFresh, Fresh, Announced, Asked
<1> QED
  BY <1>2, <1>3 DEF FreshInv

\* A request that ends leaves fresh seats, or seats that are announced.
LEMMA CompleteEnds ==
  ASSUME ReadsInv, ClaimsInv, FreshInv, NEW v \in Workers, Complete(v),
         NEW e \in Events, NEW s \in Seats, maps = 1, seatmap[e].incarnation # None,
         seatmap[e].source[s] >= version[e][s] \/ Outstanding(e, s),
         NEW q, Acked(v, e, q), q.generation = generation[e]
  PROVE  seatmap[e].source[s] >= version[e][s] \/ Announced(e, s)
<1>1. q \in completed[v] /\ q.event = e /\ lease_token[e] = v
  BY DEF Acked
<1>2. Claimed(v, q) /\ DoneFresh(v, q) /\ Current(v, q)
  BY <1>1 DEF ClaimsInv, FreshInv, Current
<1>3. seat_ids[e] = q.seat_ids
  BY <1>1, <1>2 DEF Claimed
<1>4. CASE s \in Asked(q)
  BY <1>1, <1>2, <1>4 DEF DoneFresh, Fresh
<1>5. CASE s \notin Asked(q)
  <2>1. ~(seat_ids[e] = None \/ s \in seat_ids[e])
    BY <1>3, <1>5 DEF Asked
  <2> QED
    BY <2>1 DEF Outstanding, Announced
<1> QED
  BY <1>4, <1>5

\* A request that moved on since the claim stays.
LEMMA CompleteStays ==
  ASSUME RequestsInv, ReadsInv, ClaimsInv, NEW v \in Workers, Complete(v),
         NEW e \in Events, NEW s \in Seats, Outstanding(e, s),
         NEW q, Acked(v, e, q), q.generation # generation[e]
  PROVE  Outstanding(e, s)'
<1>1. /\ q \in completed[v] /\ q.event = e /\ lease_token[e] = v
      /\ completed_generation'[e] = q.generation /\ seat_ids'[e] = seat_ids[e]
  BY DEF Acked
<1>2. q.generation \in Nat /\ generation[e] \in Nat
  BY <1>1, BatchRow DEF RequestsInv
<1>3. q.generation <= generation[e]
  BY <1>1 DEF ClaimsInv, Claimed
<1>4. outbox' = outbox /\ generation' = generation
  BY CompleteFrame
<1>5. generation'[e] > completed_generation'[e]
  BY <1>1, <1>2, <1>3, <1>4
<1> QED
  BY <1>1, <1>4, <1>5 DEF Outstanding

\* A batch is acknowledged: a request ends only where its rows are fresh.
LEMMA CompleteStale ==
  ASSUME ProjectionInv, RequestedInv, NEW v \in Workers, Complete(v)
  PROVE  RequestedInv'
<1>1. RequestsInv /\ ReadsInv /\ ClaimsInv /\ FreshInv /\ StaleInv
  BY DEF ProjectionInv, RequestedInv
<1>2. ClaimsInv' /\ FreshInv'
  BY <1>1, CompleteClaims, CompleteFresh
<1>3. completed[v] # {} /\ UNCHANGED <<version, outbox, seatmap, maps, generation>>
  BY <1>1, CompleteFrame
<1>4. maps # 0
  BY <1>1, <1>3 DEF StaleInv, NoneDone
<1>5. ASSUME NEW e \in Events, NEW s \in Seats, maps = 1, seatmap[e].incarnation # None
      PROVE  seatmap[e].source[s] >= version[e][s] \/ Outstanding(e, s)'
  <2>1. seatmap[e].source[s] >= version[e][s] \/ Outstanding(e, s)
    BY <1>1, <1>5 DEF StaleInv, Covered
  <2>2. Announced(e, s) => Outstanding(e, s)'
    BY <1>3 DEF Announced, Outstanding
  <2>3. CASE ~Acks(v, e)
    <3>1. completed_generation'[e] = completed_generation[e] /\ seat_ids'[e] = seat_ids[e]
      BY <2>3, CompleteOther
    <3> QED
      BY <1>3, <2>1, <3>1 DEF Outstanding
  <2>4. CASE Acks(v, e)
    <3>1. PICK q : Acked(v, e, q)
      BY <1>1, <2>4, CompleteAcked
    <3>2. CASE q.generation = generation[e]
      BY <1>1, <1>5, <2>1, <2>2, <3>1, <3>2, CompleteEnds
    <3>3. CASE q.generation # generation[e]
      BY <1>1, <2>1, <3>1, <3>3, CompleteStays
    <3> QED
      BY <3>2, <3>3
  <2> QED
    BY <2>3, <2>4
<1>6. \A e \in Events, s \in Seats : Covered(e, s)'
  BY <1>3, <1>4, <1>5 DEF Covered
<1>7. NoneDone'
  BY <1>3, <1>4 DEF NoneDone
<1> QED
  BY <1>2, <1>6, <1>7 DEF RequestedInv, StaleInv

\* Every step keeps the seats that are behind asked for.
LEMMA NextRequested == ProjectionInv /\ RequestedInv /\ MapsStep /\ [Next]_vars => RequestedInv'
<1> SUFFICES ASSUME ProjectionInv, RequestedInv, MapsStep, [Next]_vars PROVE RequestedInv'
  OBVIOUS
<1>1. ASSUME SameRequests, UNCHANGED <<version, rows, completed, work>>
      PROVE  RequestedInv'
  BY <1>1, QuietStale
<1>2. ASSUME NEW e \in Events, LeaseLapse(e) PROVE RequestedInv'
  BY <1>1, <1>2 DEF LeaseLapse, workerVars, SameRequests
<1>3. ASSUME NEW e \in Events, MapLost(e) PROVE RequestedInv'
  BY <1>1, <1>3 DEF MapLost, workerVars, requestVars, SameRequests
<1>4. ASSUME NEW l \in late, LateWrite(l) PROVE RequestedInv'
  BY <1>1, <1>4 DEF LateWrite, workerVars, requestVars, SameRequests
<1>5. CASE UNCHANGED vars
  BY <1>1, <1>5 DEF vars, workerVars, requestVars, SameRequests
<1> QED
  BY <1>2, <1>3, <1>4, <1>5, CommitStale, ConsumeStale, ClaimStale, ReadRowStale, ReadAllStale,
     WriteStale, FailRowStale, CompleteStale, CrashStale DEF Next

\* At the start nothing is written and nothing claimed.
LEMMA InitRequested == ASSUME Init PROVE RequestedInv
<1>1. \A w \in Workers : rows[w] = {} /\ completed[w] = {}
  BY DEF Init
<1>2. \A e \in Events : completed_generation[e] <= generation[e]
  BY DEF Init
<1>3. maps = 0 /\ \A e \in Events, s \in Seats : ~(version[e][s] > 0)
  BY DEF Init
<1>4. ClaimsInv /\ FreshInv /\ NoneDone
  BY <1>1, <1>2 DEF ClaimsInv, FreshInv, NoneDone
<1> QED
  BY <1>3, <1>4 DEF RequestedInv, StaleInv, Covered

-----------------------------------------------------------------------------
(***************************************************************************)
(* What is requested, claimed and read keeps its form in the steps that    *)
(* write no map.                                                           *)
(***************************************************************************)
LEMMA KeptRequests == ASSUME RequestsInv, SameRequests PROVE RequestsInv'
BY DEF RequestsInv, SameRequests

\* The process p ends its row, whether it was written or not.
LEMMA EndedReads ==
  ASSUME ReadsInv, NEW p \in Processes, UNCHANGED version,
         work' = [work EXCEPT ![p] = None],
         rows' \in [Workers -> SUBSET Row], completed' \in [Workers -> SUBSET Row],
         \A w \in Workers \ {p} : rows'[w] = rows[w],
         \A l \in late' : IsRead(l) /\ l.mode \in Modes
  PROVE  ReadsInv'
<1>1. /\ DOMAIN work' = Processes
      /\ \A q \in Processes : work'[q] = IF q = p THEN None ELSE work[q]
  BY DEF ReadsInv
<1>2. \A q \in Processes : work'[q] # None => IsRead(work'[q])
  BY <1>1 DEF ReadsInv
<1>3. \A w \in Workers : work'[w] # None => \E r \in rows'[w] : r.event = work'[w].event
  BY <1>1 DEF ReadsInv, HasRow, Processes
<1> QED
  BY <1>1, <1>2, <1>3 DEF ReadsInv, HasRow, IsRead

\* The process p has read some rows.
LEMMA BegunReads ==
  ASSUME ReadsInv, NEW p \in Processes, NEW l, IsRead(l),
         UNCHANGED <<version, rows, completed, late>>, work' = [work EXCEPT ![p] = l],
         p \in Workers => \E r \in rows[p] : r.event = l.event
  PROVE  ReadsInv'
<1>1. /\ DOMAIN work' = Processes
      /\ \A q \in Processes : work'[q] = IF q = p THEN l ELSE work[q]
  BY DEF ReadsInv
<1>2. \A q \in Processes : work'[q] # None => IsRead(work'[q])
  BY <1>1 DEF ReadsInv
<1>3. \A w \in Workers : work'[w] # None => \E r \in rows[w] : r.event = work'[w].event
  BY <1>1 DEF ReadsInv, HasRow, Processes
<1> QED
  BY <1>1, <1>2, <1>3 DEF ReadsInv, HasRow, IsRead

\* Nothing is read.
LEMMA KeptReads ==
  ASSUME ReadsInv, version' \in [Events -> [Seats -> Nat]],
         rows' \in [Workers -> SUBSET Row], completed' \in [Workers -> SUBSET Row],
         \A w \in Workers : work[w] # None => rows'[w] = rows[w],
         UNCHANGED work, late' \subseteq late
  PROVE  ReadsInv'
<1>1. \A w \in Workers : work'[w] # None => \E r \in rows'[w] : r.event = work'[w].event
  BY DEF ReadsInv, HasRow
<1> QED
  BY <1>1 DEF ReadsInv, HasRow, IsRead

\* A seat transaction.
LEMMA CommitStep ==
  ASSUME ProjectionInv, NEW e \in Events, NEW S \in SUBSET Seats, Commit(e, S)
  PROVE  Typed /\ MapsStep
<1>1. version' \in [Events -> [Seats -> Nat]]
  BY DEF Commit, ProjectionInv, ReadsInv
<1>2. UNCHANGED <<rows, completed, work, late, seatmap, maps, seen>>
  BY DEF Commit, workerVars, mapVars
<1>3. ReadsInv'
  BY <1>1, <1>2, KeptReads DEF ProjectionInv, ReadsInv
<1>4. \A m \in outbox' : m.event \in Events /\ m.seats \in SUBSET Seats
  <2> DEFINE n == [event |-> e, seats |-> S, at |-> SumFunction(version'[e])]
  <2>1. outbox' = outbox \cup {n}
    BY DEF Commit
  <2>2. n.event = e /\ n.seats = S
    OBVIOUS
  <2> HIDE DEF n
  <2> QED
    BY <2>1, <2>2 DEF ProjectionInv, RequestsInv
<1>5. UNCHANGED <<seat_ids, generation, completed_generation, lease_token>>
  BY DEF Commit, requestVars
<1> QED
  BY <1>2, <1>3, <1>4, <1>5 DEF Typed, ProjectionInv, RequestsInv, MapsStep

\* The seats of a request that absorbs a notification.
LEMMA MergedType ==
  ASSUME RequestsInv, NEW e \in Events, NEW ids \in (SUBSET Seats) \cup {None}
  PROVE  MergedSeats(e, ids) \in (SUBSET Seats) \cup {None}
<1>1. seat_ids[e] \in (SUBSET Seats) \cup {None}
  BY DEF RequestsInv
<1> QED
  BY <1>1 DEF MergedSeats

\* A notification becomes a request.
LEMMA ConsumeStep ==
  ASSUME ProjectionInv, NEW m \in outbox, NEW ids \in {m.seats, None}, ConsumeSeatsChanged(m, ids)
  PROVE  Typed /\ MapsStep
<1>1. UNCHANGED <<version, rows, completed, work, late, seatmap, maps, seen>>
  BY DEF ConsumeSeatsChanged, workerVars, mapVars
<1>2. ReadsInv'
  BY <1>1, KeptReads DEF ProjectionInv, ReadsInv
<1>3. m.event \in Events /\ ids \in (SUBSET Seats) \cup {None}
  <2>1. m.event \in Events /\ m.seats \in SUBSET Seats
    BY DEF ProjectionInv, RequestsInv
  <2>2. ids = m.seats \/ ids = None
    OBVIOUS
  <2> QED
    BY <2>1, <2>2
<1>4. MergedSeats(m.event, ids) \in (SUBSET Seats) \cup {None}
  BY <1>3, MergedType DEF ProjectionInv
<1>5. /\ outbox' \subseteq outbox
      /\ generation' = [generation EXCEPT ![m.event] = @ + 1]
      /\ seat_ids' = [seat_ids EXCEPT ![m.event] = MergedSeats(m.event, ids)]
      /\ UNCHANGED <<completed_generation, lease_token>>
  BY DEF ConsumeSeatsChanged, request_refresh
<1>6. RequestsInv'
  <2>1. generation' \in [Events -> Nat] /\ seat_ids' \in [Events -> (SUBSET Seats) \cup {None}]
    <3>1. generation \in [Events -> Nat] /\ seat_ids \in [Events -> (SUBSET Seats) \cup {None}]
      BY DEF ProjectionInv, RequestsInv
    <3>2. generation' \in [Events -> Nat]
      BY <1>3, <1>5, <3>1
    <3>3. seat_ids' \in [Events -> (SUBSET Seats) \cup {None}]
      BY <1>3, <1>4, <1>5, <3>1
    <3> QED
      BY <3>2, <3>3
  <2> QED
    BY <1>5, <2>1 DEF ProjectionInv, RequestsInv
<1> QED
  BY <1>1, <1>2, <1>6 DEF Typed, MapsStep

\* Claim.
LEMMA ClaimStep ==
  ASSUME ProjectionInv, NEW w \in Workers, NEW E \in SUBSET Events, Claim(w, E)
  PROVE  Typed /\ MapsStep
<1> DEFINE R == {[event |-> e, generation |-> generation[e], seat_ids |-> seat_ids[e]] : e \in E}
<1>1. R \in SUBSET Row
  <2>1. \A e \in E : /\ e \in Events /\ generation[e] \in Nat
                     /\ seat_ids[e] \in (SUBSET Seats) \cup {None}
    BY DEF ProjectionInv, RequestsInv
  <2> QED
    BY <2>1 DEF Row
<1>2. /\ rows' = [rows EXCEPT ![w] = R] /\ work[w] = None
      /\ UNCHANGED <<version, completed, work, late, seatmap, maps, seen>>
  BY DEF Claim, mapVars, Idle
<1>3. DOMAIN lease_token' = Events /\ UNCHANGED <<outbox, generation, completed_generation, seat_ids>>
  BY DEF Claim
<1> HIDE DEF R
<1>4. /\ rows' \in [Workers -> SUBSET Row]
      /\ \A v \in Workers : work[v] # None => rows'[v] = rows[v]
  BY <1>1, <1>2 DEF ProjectionInv, ReadsInv
<1>5. ReadsInv'
  BY <1>2, <1>4, KeptReads DEF ProjectionInv, ReadsInv
<1>6. RequestsInv'
  BY <1>3 DEF ProjectionInv, RequestsInv
<1> QED
  BY <1>2, <1>5, <1>6 DEF Typed, MapsStep

\* The two read transactions.
LEMMA ReadRowStep ==
  ASSUME ProjectionInv, NEW w \in Workers, NEW r \in rows[w], ReadRow(w, r)
  PROVE  Typed /\ MapsStep
<1> DEFINE l == IF r.seat_ids = None
                THEN [event |-> r.event, mode |-> "full", source |-> version[r.event]]
                ELSE [event |-> r.event, mode |-> "patch",
                      source |-> [s \in r.seat_ids |-> version[r.event][s]]]
<1>1. r \in Row /\ w \in Processes
  BY DEF ProjectionInv, ReadsInv, Processes
<1>2. /\ r.event \in Events /\ version[r.event] \in [Seats -> Nat]
      /\ r.seat_ids # None => r.seat_ids \in SUBSET Seats
  BY <1>1 DEF Row, ProjectionInv, ReadsInv
<1>3. IsRead(l) /\ l.event = r.event
  <2>1. CASE r.seat_ids = None
    BY <1>2, <2>1 DEF IsRead
  <2>2. CASE r.seat_ids # None
    BY <1>2, <2>2 DEF IsRead
  <2> QED
    BY <2>1, <2>2
<1>4. /\ work' = [work EXCEPT ![w] = l] /\ SameRequests
      /\ UNCHANGED <<version, rows, completed, late, seatmap, maps, seen>>
  BY DEF ReadRow, mapVars, requestVars, SameRequests
<1> HIDE DEF l
<1>5. ReadsInv'
  BY <1>1, <1>3, <1>4, BegunReads DEF ProjectionInv
<1> QED
  BY <1>4, <1>5, KeptRequests DEF ProjectionInv, Typed, MapsStep

LEMMA ReadAllStep ==
  ASSUME ProjectionInv, NEW p \in Processes, NEW e \in Events, ReadAll(p, e)
  PROVE  Typed /\ MapsStep
<1> DEFINE l == [event |-> e, mode |-> "full", source |-> version[e]]
<1>1. version[e] \in [Seats -> Nat]
  BY DEF ProjectionInv, ReadsInv
<1>2. IsRead(l) /\ l.event = e
  BY <1>1 DEF IsRead
<1>3. /\ work' = [work EXCEPT ![p] = l] /\ SameRequests
      /\ UNCHANGED <<version, rows, completed, late, seatmap, maps, seen>>
  BY DEF ReadAll, mapVars, requestVars, SameRequests
<1>4. p \in Workers => \E r \in rows[p] : r.event = e
  BY DEF ReadAll, ProjectionInv, ReadsInv, HasRow
<1> HIDE DEF l
<1>5. ReadsInv'
  BY <1>2, <1>3, <1>4, BegunReads DEF ProjectionInv
<1> QED
  BY <1>3, <1>5, KeptRequests DEF ProjectionInv, Typed, MapsStep

\* A row leaves the rows of a worker, to be acknowledged or not.
LEMMA RowsMove ==
  ASSUME ReadsInv, NEW p \in Processes, work[p] # None,
         IF p \in Workers
         THEN rows' = [rows EXCEPT ![p] = @ \ {RowOf(p, work[p].event)}]
         ELSE rows' = rows,
         \/ completed' = completed
         \/ p \in Workers /\ completed' = [completed EXCEPT ![p] = @ \cup {RowOf(p, work[p].event)}]
  PROVE  /\ rows' \in [Workers -> SUBSET Row] /\ completed' \in [Workers -> SUBSET Row]
         /\ \A w \in Workers \ {p} : rows'[w] = rows[w]
<1>1. rows \in [Workers -> SUBSET Row] /\ completed \in [Workers -> SUBSET Row]
  BY DEF ReadsInv
<1>2. p \in Workers => RowOf(p, work[p].event) \in Row
  BY RowOfWork
<1> QED
  BY <1>1, <1>2

\* The acknowledgement of a batch.
LEMMA CompleteStep ==
  ASSUME ProjectionInv, NEW w \in Workers, Complete(w)
  PROVE  Typed /\ MapsStep
<1>1. /\ UNCHANGED <<version, outbox, rows, work, late, seatmap, maps, seen>>
      /\ completed' = [completed EXCEPT ![w] = {}]
  BY DEF Complete, mapVars
<1>2. completed' \in [Workers -> SUBSET Row]
  BY <1>1 DEF ProjectionInv, ReadsInv
<1>3. ReadsInv'
  BY <1>1, <1>2, KeptReads DEF ProjectionInv, ReadsInv
<1>4. Acknowledged(w) \subseteq Row
  BY DEF Acknowledged, ProjectionInv, ReadsInv
<1>5. ASSUME NEW e \in Events, \E r \in Acknowledged(w) : r.event = e
      PROVE  (CHOOSE r \in Acknowledged(w) : r.event = e).generation \in Nat
  <2>1. (CHOOSE r \in Acknowledged(w) : r.event = e) \in Row
    BY <1>4, <1>5
  <2> QED
    BY <2>1 DEF Row
<1>6. /\ generation' = generation
      /\ completed_generation' \in [Events -> Nat]
      /\ seat_ids' \in [Events -> (SUBSET Seats) \cup {None}]
      /\ DOMAIN lease_token' = Events
  <2>1. generation' = generation /\ DOMAIN lease_token' = Events
    BY DEF Complete, Acknowledge
  <2>2. completed_generation' \in [Events -> Nat]
    <3>1. completed_generation' = [e \in Events |->
            IF \E r \in Acknowledged(w) : r.event = e
            THEN (CHOOSE r \in Acknowledged(w) : r.event = e).generation
            ELSE completed_generation[e]]
      BY DEF Complete, Acknowledge
    <3> QED
      BY <1>5, <3>1 DEF ProjectionInv, RequestsInv
  <2>3. seat_ids' \in [Events -> (SUBSET Seats) \cup {None}]
    BY DEF Complete, Acknowledge, ProjectionInv, RequestsInv
  <2> QED
    BY <2>1, <2>2, <2>3
<1>7. RequestsInv'
  BY <1>1, <1>6 DEF ProjectionInv, RequestsInv
<1> QED
  BY <1>1, <1>3, <1>7 DEF Typed, MapsStep

\* A worker dies.
LEMMA CrashStep ==
  ASSUME ProjectionInv, NEW w \in Workers, Crash(w)
  PROVE  Typed /\ MapsStep
<1>1. /\ w \in Processes /\ work' = [work EXCEPT ![w] = None] /\ SameRequests
      /\ rows' = [rows EXCEPT ![w] = {}] /\ completed' = [completed EXCEPT ![w] = {}]
      /\ UNCHANGED <<version, late, seatmap, maps, seen>>
  BY DEF Crash, mapVars, Processes, requestVars, SameRequests
<1>2. /\ rows' \in [Workers -> SUBSET Row] /\ completed' \in [Workers -> SUBSET Row]
      /\ \A v \in Workers \ {w} : rows'[v] = rows[v]
  BY <1>1 DEF ProjectionInv, ReadsInv
<1>3. \A l \in late' : IsRead(l) /\ l.mode \in Modes
  BY <1>1 DEF ProjectionInv, ReadsInv
<1>4. ReadsInv'
  BY <1>1, <1>2, <1>3, EndedReads DEF ProjectionInv
<1> QED
  BY <1>1, <1>4, KeptRequests DEF ProjectionInv, Typed, MapsStep

\* A lease lapses, a map is lost, or nothing happens.
LEMMA QuietStep ==
  ASSUME ProjectionInv, SameRequests, UNCHANGED <<version, rows, completed, work, late>>, MapsStep
  PROVE  Typed /\ MapsStep
<1>1. ReadsInv'
  BY KeptReads DEF ProjectionInv, ReadsInv
<1> QED
  BY <1>1, KeptRequests DEF ProjectionInv, Typed
=============================================================================
