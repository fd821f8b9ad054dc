----------------------------- MODULE BrowseCache -----------------------------
(***************************************************************************)
(* browse_encoded: the API process keeps serialized browse bodies in an    *)
(* LRU shared by its request threads, and reuses one only after Redis has  *)
(* confirmed its tag.                                                      *)
(*                                                                         *)
(* A tag is a fresh number and also stands for the body it names: that a   *)
(* tag names one body is TagNamesOneMap of SeatProjection.                 *)
(***************************************************************************)
EXTENDS Naturals, Sequences, FiniteSets, FiniteSetsExt, SequencesExt

CONSTANTS
  Keys,        \* pairs of event and kind (layout or availability)
  Threads,     \* request threads of the API process
  None,
  Star,        \* the validator "*"
  Length,      \* the length of the body a tag names
  MaxEntries,  \* browse_entries
  MaxBytes,    \* browse_bytes
  MaxTags      \* bound: representations published

VARIABLES
  current,     \* the tag Redis holds for each key, None while warming
  issued,      \* tags published so far
  bodies,      \* _bodies, least recently used first
  body_bytes,  \* _body_bytes
  req,         \* what each thread is serving
  live         \* history: tags that were current while the request ran

vars == <<current, issued, bodies, body_bytes, req, live>>

Tags == 1..MaxTags

Init ==
  /\ current = [k \in Keys |-> None] /\ issued = 0
  /\ bodies = <<>> /\ body_bytes = 0
  /\ req = [t \in Threads |-> None] /\ live = [t \in Threads |-> {}]

\* The projection writes a new map, or the map is lost.
Publish(k, tag) ==
  /\ IF tag = None THEN current[k] # None /\ UNCHANGED issued
     ELSE tag = issued + 1 /\ issued' = tag
  /\ current' = [current EXCEPT ![k] = tag]
  /\ live' = [t \in Threads |-> IF req[t] # None /\ req[t].key = k /\ tag # None
                                THEN live[t] \cup {tag} ELSE live[t]]
  /\ UNCHANGED <<bodies, body_bytes, req>>

Entry(k) == SelectSeq(bodies, LAMBDA b : b.key = k)
Others(k) == SelectSeq(bodies, LAMBDA b : b.key # k)

\* A request for k arrives with the validators of its If-None-Match header;
\* the entry of k, if any, moves to the end and its tag joins them.
Begin(t, k, validators) ==
  /\ req[t] = None
  /\ bodies' = Others(k) \o Entry(k)
  /\ req' = [req EXCEPT ![t] = [key |-> k, validators |-> validators,
                                cached |-> IF Entry(k) = <<>> THEN None ELSE Entry(k)[1],
                                status |-> 0, tag |-> None, body |-> None]]
  /\ live' = [live EXCEPT ![t] = {current[k]} \ {None}]
  /\ UNCHANGED <<current, issued, body_bytes>>

Answer(t, status, tag, body) ==
  req' = [req EXCEPT ![t].status = status, ![t].tag = tag, ![t].body = body]

\* Mutant of Reused: the entry is looked up again.
ReusedNow(t) == IF Entry(req[t].key) = <<>> THEN None ELSE Entry(req[t].key)[1].body

\* The body the thread took a reference to before it asked Redis.
Reused(t) == req[t].cached.body

ClientHas(t, tag) == tag \in req[t].validators \/ Star \in req[t].validators

\* BROWSE and what browse_encoded makes of its answer: unavailable or
\* warming, not modified for the client, the cached body, or a new body that
\* is still to be stored.
Validate(t, up) ==
  /\ req[t] # None /\ req[t].status = 0
  /\ LET tag == current[req[t].key]
         held == req[t].cached # None /\ req[t].cached.tag = tag
     IN \/ /\ ~up \/ tag = None
           /\ Answer(t, 503, None, None)
        \/ /\ up /\ tag # None /\ (ClientHas(t, tag) \/ held)
           /\ IF ClientHas(t, tag) THEN Answer(t, 304, tag, None)
              ELSE Answer(t, 200, tag, Reused(t))
        \/ /\ up /\ tag # None /\ ~ClientHas(t, tag) /\ ~held
           /\ Answer(t, 1, tag, tag)
  /\ UNCHANGED <<current, issued, bodies, body_bytes, live>>

Bytes(q) == MapThenSumSet(LAMBDA i : Length[q[i].body], DOMAIN q)

Fits(q) == Len(q) <= MaxEntries /\ Bytes(q) <= MaxBytes

\* popitem(last=False) until the limits hold: the longest suffix that fits.
Evicted(q) ==
  LET n == Min({i \in 0..Len(q) : Fits(SubSeq(q, i + 1, Len(q)))}) IN SubSeq(q, n + 1, Len(q))

\* The body replaces the entry of its key and the oldest entries make room;
\* one that can never fit is not kept.
Stored(t) ==
  LET rest == Others(req[t].key)
      q == Append(rest, [key |-> req[t].key, tag |-> req[t].tag, body |-> req[t].body])
      kept == IF MaxEntries > 0 /\ Length[req[t].body] <= MaxBytes THEN Evicted(q) ELSE rest
  IN /\ bodies' = kept
     /\ body_bytes' = body_bytes - Bytes(Entry(req[t].key)) + Bytes(kept) - Bytes(rest)

Insert(t) ==
  /\ req[t] # None /\ req[t].status = 1
  /\ Stored(t)
  /\ Answer(t, 200, req[t].tag, req[t].body)
  /\ UNCHANGED <<current, issued, live>>

\* The response is sent.
End(t) ==
  /\ req[t] # None /\ req[t].status \in {200, 304, 503}
  /\ req' = [req EXCEPT ![t] = None]
  /\ live' = [live EXCEPT ![t] = {}]
  /\ UNCHANGED <<current, issued, bodies, body_bytes>>

\* Validators a client may send: none, everything, or a tag it was given.
Validators == {{}, {Star}} \cup {{tag} : tag \in 1..issued}

Next ==
  \/ \E k \in Keys, tag \in Tags \cup {None} : Publish(k, tag)
  \/ \E t \in Threads, k \in Keys, v \in Validators : Begin(t, k, v)
  \/ \E t \in Threads, up \in BOOLEAN : Validate(t, up)
  \/ \E t \in Threads : Insert(t)
  \/ \E t \in Threads : End(t)

Spec == Init /\ [][Next]_vars

-----------------------------------------------------------------------------
\* The accounted bytes are the bytes kept, entries and bytes stay within the
\* limits and a key has one entry, whatever threads replace and evict at once.
CacheWithinLimits ==
  /\ body_bytes = Bytes(bodies)
  /\ Fits(bodies)
  /\ \A i, j \in DOMAIN bodies : bodies[i].key = bodies[j].key => i = j

\* An answer is one instant of Redis during the request: a 200 carries the
\* body its ETag names, even if the entry it reuses was replaced or evicted
\* meanwhile, and a 304 confirms a tag the client itself sent.
AnswerIsOneInstant ==
  \A t \in Threads : req[t] # None /\ req[t].status \in {200, 304} =>
    /\ req[t].tag \in live[t]
    /\ req[t].status = 200 => req[t].body = req[t].tag
    /\ req[t].status = 304 => req[t].validators \cap {req[t].tag, Star} # {}

=============================================================================
