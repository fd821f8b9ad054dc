----------------------- MODULE PaymentSimulator_proofs -----------------------
(***************************************************************************)
(* Proofs about PaymentSimulator, for any number of payments, concurrent   *)
(* calls, target deliveries and failures.  A count is believable because   *)
(* of what the owner of the lease still has in front of it: the claim left *)
(* room for one more delivery, and once it is answered the API has handled *)
(* one post more than are counted (OwnerHasRoom, OwnerWasServed).          *)
(***************************************************************************)
EXTENDS PaymentSimulator, TLAPS

USE TargetAssumption

RowTypes ==
  /\ deliveries \in [Payments -> Nat]
  /\ DOMAIN lease_token = Payments

CallTypes ==
  /\ phase \in [Calls -> {"idle", "leased", "posted", "answered"}]
  /\ DOMAIN at = Calls
  /\ \A c \in Calls : phase[c] # "idle" => at[c] \in Payments

ApiTypes ==
  /\ received \in [Payments -> Nat]
  /\ callbacks \in SUBSET Payments
  /\ effects \in [Payments -> Nat]

\* A call that works under the lease of its payment.
Owner(c) == phase[c] # "idle" /\ lease_token[at[c]] = c

\* Nobody has counted since the owner claimed the payment.
OwnerHasRoom == \A c \in Calls : Owner(c) => deliveries[at[c]] < Target

\* The post of an answered owner is not counted yet.
OwnerWasServed == \A c \in Calls : Owner(c) /\ phase[c] = "answered" => deliveries[at[c]] < received[at[c]]

\* payment_callbacks holds exactly the payments that took effect.
EffectsAreRecorded == \A p \in Payments : effects[p] = IF p \in callbacks THEN 1 ELSE 0

SimulatorInv ==
  RowTypes /\ CallTypes /\ ApiTypes /\ OwnerHasRoom /\ OwnerWasServed /\ CountsAreDeliveries /\ EffectsAreRecorded

-----------------------------------------------------------------------------

LEMMA InitInv == Init => SimulatorInv
BY DEF Init, SimulatorInv, RowTypes, CallTypes, ApiTypes, OwnerHasRoom, OwnerWasServed, Owner,
       CountsAreDeliveries, EffectsAreRecorded

\* What is counted keeps its invariant when only the calls' progress changes
\* and no call becomes an owner or an answered one.
LEMMA CallsStop ==
  ASSUME SimulatorInv, NEW c \in Calls, UNCHANGED <<deliveries, lease_token, api>>,
         phase' = [phase EXCEPT ![c] = "idle"], at' = [at EXCEPT ![c] = None]
  PROVE  SimulatorInv'
BY DEF SimulatorInv, RowTypes, CallTypes, ApiTypes, OwnerHasRoom, OwnerWasServed, Owner,
       CountsAreDeliveries, EffectsAreRecorded, api

\* Receive: the API handles one more post of p.
LEMMA ReceiveInv ==
  ASSUME SimulatorInv, NEW p \in Payments, Receive(p)
  PROVE  /\ ApiTypes' /\ EffectsAreRecorded'
         /\ received'[p] = received[p] + 1
         /\ \A q \in Payments : received'[q] >= received[q]
BY DEF SimulatorInv, ApiTypes, EffectsAreRecorded, Receive, FirstReceipt

LEMMA ClaimInv ==
  ASSUME SimulatorInv, NEW c \in Calls, NEW p \in Payments, Claim(c, p)
  PROVE  SimulatorInv'
<1>1. deliveries[p] < Target
  BY DEF Claim, Claimable
<1>2. RowTypes' /\ CallTypes' /\ ApiTypes' /\ CountsAreDeliveries' /\ EffectsAreRecorded'
  BY DEF SimulatorInv, RowTypes, CallTypes, ApiTypes, CountsAreDeliveries, EffectsAreRecorded, Claim, api
<1>3. \A d \in Calls : Owner(d)' => (d = c \/ (Owner(d) /\ phase'[d] = phase[d] /\ at'[d] = at[d]))
  BY DEF SimulatorInv, RowTypes, CallTypes, Owner, Claim
<1>4. phase'[c] = "leased" /\ at'[c] = p /\ UNCHANGED <<deliveries, received>>
  BY DEF SimulatorInv, CallTypes, Claim, api
<1>5. OwnerHasRoom' /\ OwnerWasServed'
  BY <1>1, <1>3, <1>4 DEF SimulatorInv, OwnerHasRoom, OwnerWasServed
<1> QED
  BY <1>2, <1>5 DEF SimulatorInv

LEMMA ServedInv ==
  ASSUME SimulatorInv, NEW c \in Calls, Served(c)
  PROVE  SimulatorInv'
<1>1. at[c] \in Payments
  BY DEF SimulatorInv, CallTypes, Served
<1>2. /\ ApiTypes' /\ EffectsAreRecorded'
      /\ received'[at[c]] = received[at[c]] + 1
      /\ \A q \in Payments : received'[q] >= received[q]
  BY <1>1, ReceiveInv DEF Served
<1>3. RowTypes' /\ CallTypes'
  BY DEF SimulatorInv, RowTypes, CallTypes, Served, row
<1>4. UNCHANGED <<deliveries, lease_token, at>>
  BY DEF Served, row
<1>5. CountsAreDeliveries'
  BY <1>2, <1>4 DEF SimulatorInv, CountsAreDeliveries, RowTypes, ApiTypes
<1>6. \A d \in Calls : d # c => phase'[d] = phase[d]
  BY DEF SimulatorInv, CallTypes, Served
<1>7. OwnerHasRoom'
  BY <1>4, <1>6 DEF SimulatorInv, OwnerHasRoom, Owner, Served
<1>8. OwnerWasServed'
  <2> SUFFICES ASSUME NEW d \in Calls, Owner(d)', phase'[d] = "answered"
               PROVE  deliveries[at[d]] < received'[at[d]]
    BY <1>4 DEF OwnerWasServed
  <2>1. CASE d = c
    BY <2>1, <1>1, <1>2 DEF SimulatorInv, CountsAreDeliveries, RowTypes, ApiTypes
  <2>2. CASE d # c
    <3>1. Owner(d) /\ phase[d] = "answered" /\ at[d] \in Payments
      BY <2>2, <1>4, <1>6 DEF SimulatorInv, CallTypes, Owner
    <3> QED
      BY <3>1, <1>2 DEF SimulatorInv, OwnerWasServed, RowTypes, ApiTypes
  <2> QED
    BY <2>1, <2>2
<1> QED
  BY <1>2, <1>3, <1>5, <1>7, <1>8 DEF SimulatorInv

LEMMA ServedLateInv ==
  ASSUME SimulatorInv, NEW p \in Payments, ServedLate(p)
  PROVE  SimulatorInv'
<1>1. /\ ApiTypes' /\ EffectsAreRecorded'
      /\ \A q \in Payments : received'[q] >= received[q]
  BY ReceiveInv DEF ServedLate
<1>2. RowTypes' /\ CallTypes' /\ OwnerHasRoom'
  BY DEF SimulatorInv, RowTypes, CallTypes, OwnerHasRoom, Owner, ServedLate, row
<1>3. UNCHANGED <<deliveries, lease_token, at, phase>>
  BY DEF ServedLate, row
<1>4. CountsAreDeliveries' /\ OwnerWasServed'
  BY <1>1, <1>3 DEF SimulatorInv, CountsAreDeliveries, OwnerWasServed, Owner, RowTypes, ApiTypes, CallTypes
<1> QED
  BY <1>1, <1>2, <1>4 DEF SimulatorInv

LEMMA CountInv ==
  ASSUME SimulatorInv, NEW c \in Calls, Count(c)
  PROVE  SimulatorInv'
<1>1. CASE ~Owned(c)
  BY <1>1, CallsStop DEF Count
<1>2. CASE Owned(c)
  <2> DEFINE p == at[c]
  <2>1. p \in Payments /\ Owner(c) /\ phase[c] = "answered"
    BY <1>2 DEF SimulatorInv, CallTypes, Count, Owned, Owner
  <2>2. deliveries[p] < Target /\ deliveries[p] < received[p]
    BY <2>1 DEF SimulatorInv, OwnerHasRoom, OwnerWasServed
  <2>3. /\ deliveries' = [deliveries EXCEPT ![p] = @ + 1]
        /\ UNCHANGED <<lease_token, api>>
        /\ phase' = [phase EXCEPT ![c] = "idle"] /\ at' = [at EXCEPT ![c] = None]
    BY <1>2 DEF Count
  <2> HIDE DEF p
  <2>4. RowTypes' /\ CallTypes' /\ ApiTypes' /\ EffectsAreRecorded'
    BY <2>1, <2>3 DEF SimulatorInv, RowTypes, CallTypes, ApiTypes, EffectsAreRecorded, api
  <2>5. CountsAreDeliveries'
    BY <2>1, <2>2, <2>3 DEF SimulatorInv, RowTypes, ApiTypes, CountsAreDeliveries, api
  <2>6. \A d \in Calls : Owner(d)' => Owner(d) /\ d # c /\ at'[d] = at[d] /\ phase'[d] = phase[d] /\ at[d] # p
    BY <2>1, <2>3 DEF SimulatorInv, CallTypes, Owner, p
  <2>7. \A d \in Calls : Owner(d)' => deliveries'[at[d]] = deliveries[at[d]]
    BY <2>3, <2>6 DEF SimulatorInv, RowTypes, CallTypes, Owner
  <2>8. OwnerHasRoom' /\ OwnerWasServed'
    BY <2>3, <2>6, <2>7 DEF SimulatorInv, OwnerHasRoom, OwnerWasServed, api
  <2> QED
    BY <2>4, <2>5, <2>8 DEF SimulatorInv
<1> QED
  BY <1>1, <1>2

\* Steps that touch neither counts nor owners: a payment becomes due, a post
\* is sent, a lease lapses.
LEMMA OtherInv ==
  ASSUME SimulatorInv, UNCHANGED <<deliveries, lease_token, api, at>>,
         phase' \in [Calls -> {"idle", "leased", "posted", "answered"}],
         \A c \in Calls : phase'[c] = phase[c] \/ (phase[c] = "leased" /\ phase'[c] = "posted")
  PROVE  SimulatorInv'
BY DEF SimulatorInv, RowTypes, CallTypes, ApiTypes, OwnerHasRoom, OwnerWasServed, Owner,
       CountsAreDeliveries, EffectsAreRecorded, api

LEMMA StepInv == SimulatorInv /\ [Next]_vars => SimulatorInv'
<1> SUFFICES ASSUME SimulatorInv, [Next]_vars PROVE SimulatorInv'
  OBVIOUS
<1>0. phase \in [Calls -> {"idle", "leased", "posted", "answered"}]
  BY DEF SimulatorInv, CallTypes
<1>1. CASE UNCHANGED vars
  BY <1>0, <1>1, OtherInv DEF vars, row
<1>2. CASE \E p \in Payments : BecomesDue(p) \/ LeaseLapse(p)
  BY <1>0, <1>2, OtherInv DEF BecomesDue, LeaseLapse, row
<1>3. CASE \E p \in Payments : ServedLate(p)
  BY <1>3, ServedLateInv
<1>4. CASE \E c \in Calls : \E p \in Payments : Claim(c, p)
  BY <1>4, ClaimInv
<1>5. CASE \E c \in Calls : Post(c)
  BY <1>0, <1>5, OtherInv DEF Post, row
<1>6. CASE \E c \in Calls : Served(c)
  BY <1>6, ServedInv
<1>7. CASE \E c \in Calls : Count(c)
  BY <1>7, CountInv
<1>8. CASE \E c \in Calls : PostFails(c) \/ Dies(c)
  BY <1>8, CallsStop DEF PostFails, Dies, row
<1> QED
  BY <1>1, <1>2, <1>3, <1>4, <1>5, <1>6, <1>7, <1>8 DEF Next, Work

\* The inductive invariant holds in every reachable state of simulate_batch
\* and the webhook it calls.
THEOREM SimulatorInvariant == Spec => []SimulatorInv
BY InitInv, StepInv, PTL DEF Spec

\* A payment's outcome takes effect at most once, however often its callback
\* is posted, lost, delayed or repeated (payment_callbacks' primary key).
THEOREM CallbacksApplyOnce == Spec => []AppliedOnce
<1>1. SimulatorInv => AppliedOnce
  BY DEF SimulatorInv, EffectsAreRecorded, AppliedOnce
<1> QED
  BY <1>1, SimulatorInvariant, PTL

\* No delivery is counted that was not made, and never more than
\* target_deliveries, whichever calls overlap on one attempt.
THEOREM CountedDeliveriesAreReal == Spec => []CountsAreDeliveries
<1>1. SimulatorInv => CountsAreDeliveries
  BY DEF SimulatorInv
<1> QED
  BY <1>1, SimulatorInvariant, PTL

=============================================================================
