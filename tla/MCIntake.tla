------------------------------ MODULE MCIntake ------------------------------
(***************************************************************************)
(* Small instances of RedisFirst for TLC, which stress its parts in turn;  *)
(* system says which one runs:                                             *)
(*   writing     two writers and two commands, no projection               *)
(*   projecting  one seat, whose rows are written to a map that may be lost *)
(*   browsing    a browser, three commands and no writer                   *)
(* and, in specifications of their own,                                    *)
(*   validating  a browser, a writer and the projection                    *)
(***************************************************************************)
EXTENDS RedisFirst, TLC

CONSTANTS s1, k1, k2, c1, c2, c3, w1, w2, b1

VARIABLE system

Wanted == UNION {payload[c].seats : c \in {d \in Commands : payload[d] # None}}

\* What each instance leaves out.  The seats are alike: when writing, s1 is
\* among those the first command wants.
Scope ==
  CASE system = "writing" ->
         /\ reads = {} /\ seatmap # NoMap /\ cached[b1] = None /\ status[c3] = None
         /\ Wanted # {} => s1 \in Wanted
    [] system = "projecting" ->
         /\ batch[w2] = <<>> /\ cached[b1] = None /\ status[c3] = None
         /\ \A c \in Commands : payload[c] # None => payload[c].seats = {s1}
         /\ \A src \in reads : DOMAIN src = Seats
    [] system = "browsing" ->
         reads = {} /\ seatmap # NoMap /\ \A w \in Writers : Idle(w)
    [] system = "validating" ->
         seatmap # NoMap /\ batch[w2] = <<>> /\ status[c3] = None /\ failures = 0

OnIntake == Next /\ UNCHANGED system /\ Scope'

MCInit == system \in {"writing", "projecting", "browsing"} /\ Init

MCSpec == MCInit /\ [][OnIntake]_<<system, vars>>

\* Only the map and its projection.
ProjectingSpec == Init /\ system = "projecting" /\ [][OnIntake]_<<system, vars>>

\* A browser that revalidates while commands are written.
ValidatingSpec == Init /\ system = "validating" /\ [][OnIntake]_<<system, vars>>

Symmetry == Permutations({c1, c2}) \cup Permutations({k1, k2}) \cup Permutations({w1, w2})
=============================================================================
