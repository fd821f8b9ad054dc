--------------------------- MODULE MCReservations ---------------------------
(***************************************************************************)
(* A small instance of Reservations for TLC.  Identifiers that the code    *)
(* only compares for equality are interchangeable; the orders are not,     *)
(* because one of them is a Redis-first command.                           *)
(***************************************************************************)
EXTENDS Reservations, TLC

Symmetry ==
  Permutations(Seats) \cup Permutations(HoldKeys) \cup Permutations(CallbackIds)
=============================================================================
