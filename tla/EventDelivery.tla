---------------------------- MODULE EventDelivery ----------------------------
(***************************************************************************)
(* What the event pipeline promises to the transactions that write events  *)
(* and to the handlers that read them: an event is applied only after it   *)
(* was committed and never twice; one that could not be applied is set     *)
(* aside for an operator, and leaves that place only by being applied.     *)
(* Reservations reads its events this way (its operator Receive).          *)
(***************************************************************************)
CONSTANT Events

VARIABLES written,   \* events committed to the outbox
          applied,   \* events whose handler has committed
          aside      \* events with a dead letter

deliveryVars == <<written, applied, aside>>

DInit == written = {} /\ applied = {} /\ aside = {}

Write(e) == /\ e \notin written
            /\ written' = written \cup {e}
            /\ UNCHANGED <<applied, aside>>

Apply(e) == /\ e \in written \ applied
            /\ applied' = applied \cup {e}
            /\ UNCHANGED <<written, aside>>

SetAside(e) == /\ e \in written \ aside
               /\ aside' = aside \cup {e}
               /\ UNCHANGED <<written, applied>>

Settle(e) == /\ e \in aside /\ e \in applied
             /\ aside' = aside \ {e}
             /\ UNCHANGED <<written, applied>>

DNext == \E e \in Events : Write(e) \/ Apply(e) \/ SetAside(e) \/ Settle(e)

DSpec == DInit /\ [][DNext]_deliveryVars
=============================================================================
