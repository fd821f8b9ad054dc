-------------------------- MODULE MCSeatProjection --------------------------
(***************************************************************************)
(* Small instances of SeatProjection and BrowseCache for TLC; system says  *)
(* which one runs, the other stays as it started.                          *)
(***************************************************************************)
EXTENDS SeatProjection, TLC

CONSTANTS Star, t1, t2

VARIABLES system, current, issued, bodies, body_bytes, req, live

cacheVars == <<current, issued, bodies, body_bytes, req, live>>

\* Bodies of two lengths, of which two long ones do not fit together; a key
\* of the cache takes the name of a seat, which keeps the symmetry group small.
Cache == INSTANCE BrowseCache WITH
  Keys <- Seats, Threads <- {t1, t2}, Length <- <<2, 1, 2>>, MaxEntries <- 2, MaxBytes <- 3, MaxTags <- 3

MCInit == system \in {"projection", "cache"} /\ Init /\ Cache!Init

MCNext ==
  \/ system = "projection" /\ Next /\ UNCHANGED <<system, cacheVars>>
  \/ system = "cache" /\ Cache!Next /\ UNCHANGED <<system, vars>>

MCSpec == MCInit /\ [][MCNext]_<<system, vars, cacheVars>>

Symmetry == Permutations(Events) \cup Permutations(Seats) \cup Permutations(Workers) \cup Permutations({t1, t2})

\* AnswerIsOneInstant and CacheWithinLimits of BrowseCache: browse_encoded
\* sends a tag and a body that were current together, from a cache that stays
\* within its entries and bytes whatever threads replace and evict at once.
CacheIsSound == Cache!AnswerIsOneInstant /\ Cache!CacheWithinLimits
=============================================================================
