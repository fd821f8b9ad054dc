--------------------------- MODULE PaymentSimulator ---------------------------
(***************************************************************************)
(* The payment simulator: threads lease due payment attempts, post the     *)
(* signed callback to the API outside any transaction and count the        *)
(* delivery under the lease.  The API applies a callback once.             *)
(*                                                                         *)
(* A call of simulate_one stands for its token.  lease_until is live,      *)
(* past, or NULL.  What booking or refunding does is in Reservations.      *)
(***************************************************************************)
EXTENDS Naturals, FiniteSets

CONSTANTS
  Payments, Calls, None,
  Target,        \* target_deliveries
  MaxFailures    \* bound: refused or unanswered posts, crashes, leases outlived

ASSUME TargetAssumption == Target \in Nat

VARIABLES
  due,           \* payments whose due_at has passed
  deliveries, lease_token, lease_until,
  phase, at,     \* what each call is doing, and with which payment
  late,          \* posts whose sender gave up and that the API has yet to handle
  received,      \* posts the API has handled
  callbacks,     \* payment_callbacks: the callback id is the payment's
  effects,       \* times the outcome of each payment was applied
  failures

row == <<deliveries, lease_token, lease_until>>
api == <<received, callbacks, effects>>
vars == <<due, row, phase, at, late, api, failures>>

Init ==
  /\ due = {}
  /\ deliveries = [p \in Payments |-> 0]
  /\ lease_token = [p \in Payments |-> None]
  /\ lease_until = [p \in Payments |-> "null"]
  /\ phase = [c \in Calls |-> "idle"] /\ at = [c \in Calls |-> None]
  /\ late = [p \in Payments |-> 0]
  /\ received = [p \in Payments |-> 0] /\ callbacks = {} /\ effects = [p \in Payments |-> 0]
  /\ failures = 0

Failing == failures < MaxFailures /\ failures' = failures + 1

BecomesDue(p) ==
  /\ p \notin due
  /\ due' = due \cup {p}
  /\ UNCHANGED <<row, phase, at, late, api, failures>>

\* lease_until IS NULL OR lease_until < clock_timestamp()
Reclaimable(p) == lease_until[p] # "live"

Claimable == {p \in due : deliveries[p] < Target /\ Reclaimable(p)}

Claim(c, p) ==
  /\ phase[c] = "idle" /\ p \in Claimable
  /\ phase' = [phase EXCEPT ![c] = "leased"] /\ at' = [at EXCEPT ![c] = p]
  /\ lease_token' = [lease_token EXCEPT ![p] = c]
  /\ lease_until' = [lease_until EXCEPT ![p] = "live"]
  /\ UNCHANGED <<due, deliveries, late, api, failures>>

Post(c) ==
  /\ phase[c] = "leased"
  /\ phase' = [phase EXCEPT ![c] = "posted"]
  /\ UNCHANGED <<due, row, at, late, api, failures>>

FirstReceipt(p) == p \notin callbacks

\* The webhook and the callback it runs: a known callback id is a duplicate.
Receive(p) ==
  /\ received' = [received EXCEPT ![p] = @ + 1]
  /\ callbacks' = callbacks \cup {p}
  /\ effects' = IF FirstReceipt(p) THEN [effects EXCEPT ![p] = @ + 1] ELSE effects

Served(c) ==
  /\ phase[c] = "posted"
  /\ Receive(at[c])
  /\ phase' = [phase EXCEPT ![c] = "answered"]
  /\ UNCHANGED <<due, row, at, late, failures>>

\* urlopen raises: the order is locked or the database away, or there is no
\* answer in time and the post may still be handled.
PostFails(c) ==
  /\ phase[c] = "posted" /\ Failing
  /\ late' \in {late, [late EXCEPT ![at[c]] = @ + 1]}
  /\ phase' = [phase EXCEPT ![c] = "idle"] /\ at' = [at EXCEPT ![c] = None]
  /\ UNCHANGED <<due, row, api>>

ServedLate(p) ==
  /\ late[p] > 0
  /\ late' = [late EXCEPT ![p] = @ - 1]
  /\ Receive(p)
  /\ UNCHANGED <<due, row, phase, at, failures>>

\* Mutant of Owned: the delivery is counted whoever has the lease.
OwnedAlways(c) == TRUE

\* WHERE id = ... AND lease_token = ...
Owned(c) == lease_token[at[c]] = c

\* The count ends the lease; the token stays in the row.
Count(c) ==
  /\ phase[c] = "answered"
  /\ IF Owned(c)
     THEN /\ deliveries' = [deliveries EXCEPT ![at[c]] = @ + 1]
          /\ lease_until' = [lease_until EXCEPT ![at[c]] = "null"]
     ELSE UNCHANGED <<deliveries, lease_until>>
  /\ phase' = [phase EXCEPT ![c] = "idle"] /\ at' = [at EXCEPT ![c] = None]
  /\ UNCHANGED <<due, lease_token, late, api, failures>>

\* The process dies, or the count fails: simulate_batch logs and goes on.
Dies(c) ==
  /\ phase[c] # "idle" /\ Failing
  /\ phase' = [phase EXCEPT ![c] = "idle"] /\ at' = [at EXCEPT ![c] = None]
  /\ UNCHANGED <<due, row, late, api>>

\* Fifteen seconds pass; under a call that is still busy only by failure.
LeaseLapse(p) ==
  /\ lease_until[p] = "live"
  /\ IF \E c \in Calls : at[c] = p /\ lease_token[p] = c THEN Failing ELSE UNCHANGED failures
  /\ lease_until' = [lease_until EXCEPT ![p] = "past"]
  /\ UNCHANGED <<due, deliveries, lease_token, phase, at, late, api>>

Work(c) == (\E p \in Payments : Claim(c, p)) \/ Post(c) \/ Served(c) \/ Count(c)

Next ==
  \/ \E p \in Payments : BecomesDue(p) \/ ServedLate(p) \/ LeaseLapse(p)
  \/ \E c \in Calls : Work(c) \/ PostFails(c) \/ Dies(c)

Spec == Init /\ [][Next]_vars

-----------------------------------------------------------------------------
(***************************************************************************)
(* Properties.                                                             *)
(***************************************************************************)

\* A payment's outcome takes effect at most once, although its callback is
\* posted Target times on purpose and again after every lost answer.
AppliedOnce == \A p \in Payments : effects[p] <= 1

\* No more deliveries are counted than were asked for, nor than the API has
\* handled, also when two calls worked on one attempt.
CountsAreDeliveries == \A p \in Payments : deliveries[p] <= Target /\ deliveries[p] <= received[p]

=============================================================================
