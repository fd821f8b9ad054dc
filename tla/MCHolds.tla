------------------------------- MODULE MCHolds -------------------------------
(***************************************************************************)
(* Small instances of HoldRequests and RowLocks for TLC; one of them runs, *)
(* the rest of the state stays as it started.  The requests are run with a *)
(* gate as wide as the pool, without a shortage but with faults, and with  *)
(* a single connection.  RowLocks is run with every transaction, two at a  *)
(* time, and with three at a time of those of orders that may have to      *)
(* wait; its sessions take the names of the requests, which keeps the      *)
(* symmetry group small.                                                   *)
(***************************************************************************)
EXTENDS HoldRequests, RowLocks, TLC

CONSTANTS k1, k2, e1, e2, o1, o2

VARIABLE system

\* The hold of o1 has expired and o2 has taken over seat 1.
ItemsOverlap == (o1 :> <<1, 2>>) @@ (o2 :> <<1>>)

\* No more than two transactions at a time.
Pairs == {S \in SUBSET Sessions : Cardinality(S) <= 2}

\* Transactions with a waiting lock on a key, an order or a payment.
Rings == INSTANCE RowLocks WITH
  Keys <- {k1, k2}, Events <- {e1}, Roles <- {"reserve", "order", "consume", "simulate"}

Gated == INSTANCE HoldRequests WITH HoldLimit <- 2, RateLimit <- 1, PoolMax <- 2

Faulty == INSTANCE HoldRequests WITH HoldLimit <- 2, RateLimit <- 2, PoolMax <- 2, MaxFailures <- 2

\* No more than n requests arrive.
AtMost(n) == Cardinality({r \in Requests : phase'[r] # "new"}) <= n

MCInit ==
  /\ system \in {"pool", "gate", "faults", "locks", "rings"}
  /\ Init
  /\ \/ system # "rings" /\ LockInit
     \/ system = "rings" /\ Rings!LockInit

MCNext ==
  \/ system = "pool" /\ Next /\ UNCHANGED <<system, lockVars>>
  \/ system = "gate" /\ Gated!Next /\ UNCHANGED <<system, lockVars>>
  \/ system = "faults" /\ Faulty!Next /\ AtMost(2) /\ UNCHANGED <<system, lockVars>>
  \/ system = "locks" /\ active' \in Pairs /\ LockNext /\ UNCHANGED <<system, vars>>
  \/ system = "rings" /\ Rings!LockNext /\ UNCHANGED <<system, vars>>

MCSpec == MCInit /\ [][MCNext]_<<system, vars, lockVars>>

Symmetry == Permutations(Requests) \cup Permutations(Seats)
=============================================================================
