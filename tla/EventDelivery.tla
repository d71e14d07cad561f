--------------------------- MODULE EventDelivery ---------------------------
(***************************************************************************)
(* What the transactional outbox promises to the rest of MuID, with no     *)
(* relay, lease, clock or broker: an event committed with a domain         *)
(* transaction reaches the stream, possibly more than once, and is settled *)
(* (never attempted again) only after it has reached it.                   *)
(***************************************************************************)
CONSTANT Events

VARIABLES
    committed,   \* events whose row is in outbox_events
    delivered,   \* events the stream holds
    settled      \* events whose row has published_at set

vars == <<committed, delivered, settled>>

Init ==
    /\ committed = {}
    /\ delivered = {}
    /\ settled = {}

Commit(e) ==
    /\ e \notin committed
    /\ committed' = committed \union {e}
    /\ UNCHANGED <<delivered, settled>>

Deliver(e) ==
    /\ e \in committed
    /\ delivered' = delivered \union {e}
    /\ UNCHANGED <<committed, settled>>

Settle(e) ==
    /\ e \in delivered
    /\ settled' = settled \union {e}
    /\ UNCHANGED <<committed, delivered>>

Next == \E e \in Events : Commit(e) \/ Deliver(e) \/ Settle(e)

Fairness == \A e \in Events : WF_vars(Deliver(e)) /\ WF_vars(Settle(e))

Safety == Init /\ [][Next]_vars

Spec == Safety /\ Fairness

=============================================================================
