--------------------------- MODULE SeatOwnership ----------------------------
(***************************************************************************)
(* What the ownership ledger promises, without holds, payments or events:  *)
(* a seat is free, kept for one order until a deadline, or sold.  A kept   *)
(* seat changes hands only after its deadline, an order buys all its seats *)
(* at once or none, and a sale is final (docs/architecture.md, ADR 0001).  *)
(***************************************************************************)
EXTENDS Naturals

CONSTANTS
  Seats, Orders, None,
  Term, \* an order keeps its seats at most this long
  Lag   \* a decision may take effect this long after the clock it read

VARIABLES
  clock,
  holder,    \* the order the seat is kept for
  deadline,  \* until when, 0 for a seat kept for nobody
  buyer,     \* the order the seat is sold to
  basket     \* the seats granted to an order

ownershipVars == <<clock, holder, deadline, buyer, basket>>

OInit ==
  /\ clock = 0
  /\ holder = [s \in Seats |-> None]
  /\ deadline = [s \in Seats |-> 0]
  /\ buyer = [s \in Seats |-> None]
  /\ basket = [o \in Orders |-> {}]

Advance ==
  /\ clock' = clock + 1
  /\ UNCHANGED <<holder, deadline, buyer, basket>>

\* A new order is granted seats nobody owns any more, all of them together.
Grant(o, S, d) ==
  /\ basket[o] = {} /\ S # {}
  /\ \A s \in S : buyer[s] = None /\ deadline[s] <= clock
  /\ holder' = [s \in Seats |-> IF s \in S THEN o ELSE holder[s]]
  /\ deadline' = [s \in Seats |-> IF s \in S THEN d ELSE deadline[s]]
  /\ basket' = [basket EXCEPT ![o] = S]
  /\ UNCHANGED <<clock, buyer>>

\* Some orders give up every seat still kept for them.
GiveUp(B) ==
  /\ holder' = [s \in Seats |-> IF holder[s] \in B THEN None ELSE holder[s]]
  /\ deadline' = [s \in Seats |-> IF holder[s] \in B THEN 0 ELSE deadline[s]]
  /\ UNCHANGED <<clock, buyer, basket>>

\* An order that still has its whole basket, in time, buys it.
Sell(o) ==
  /\ basket[o] # {}
  /\ \A s \in basket[o] : holder[s] = o /\ deadline[s] + Lag > clock
  /\ holder' = [s \in Seats |-> IF s \in basket[o] THEN None ELSE holder[s]]
  /\ deadline' = [s \in Seats |-> IF s \in basket[o] THEN 0 ELSE deadline[s]]
  /\ buyer' = [s \in Seats |-> IF s \in basket[o] THEN o ELSE buyer[s]]
  /\ UNCHANGED <<clock, basket>>

ONext ==
  \/ Advance
  \/ \E o \in Orders, S \in SUBSET Seats, d \in 1..(clock + Term) :
       Grant(o, S, d)
  \/ \E B \in SUBSET Orders : GiveUp(B)
  \/ \E o \in Orders : Sell(o)

OSpec == OInit /\ [][ONext]_ownershipVars
=============================================================================
