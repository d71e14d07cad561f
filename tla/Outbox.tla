------------------------------- MODULE Outbox -------------------------------
(***************************************************************************)
(* The transactional outbox: pkg/outbox/relay.go drains the outbox_events  *)
(* table (infra/postgresoutbox/store.go) into JetStream.  Several relays   *)
(* share the table; each claims one due row under a lease, publishes it    *)
(* with the row id as message id, and marks it published or reschedules    *)
(* it.  Relays stop anywhere; publishes are lost, late, or stored with     *)
(* the acknowledgement lost.                                               *)
(*                                                                         *)
(* Time is relative: every deadline is the number of ticks left to it, so  *)
(* the clock itself is not part of the state.                              *)
(***************************************************************************)
EXTENDS Naturals, FiniteSets

CONSTANTS
    Events,          \* rows of outbox_events
    Relays,          \* relay workers, one per process
    LeaseIds,        \* the uuids Claim can draw; more than can be remembered at once
    NoLease,         \* SQL NULL in lease_id
    LeaseDuration, PublishTimeout, RetryDelay, RetryCap, MaxPerPoll,  \* Config
    DedupWindow,     \* pubsub.ReliableDeliveryHorizon
    AttemptCap,      \* attempt_count above which retryDelay no longer changes
    MaxStops,        \* bound: how often relays stop in one behaviour
    MaxInFlight,     \* bound: publishes on the wire at once
    Pauses           \* TRUE: a relay may be descheduled between two calls

\* Config.valid, with the bounds of the model.
ConfigValid ==
    /\ LeaseDuration \in Nat /\ PublishTimeout \in Nat /\ RetryDelay \in Nat
    /\ RetryCap \in Nat /\ MaxPerPoll \in Nat /\ DedupWindow \in Nat
    /\ LeaseDuration > 0
    /\ PublishTimeout > 0
    /\ PublishTimeout < LeaseDuration
    /\ RetryDelay > 0
    /\ RetryCap >= RetryDelay
    /\ RetryCap + PublishTimeout <= DedupWindow
    /\ LeaseDuration + PublishTimeout <= DedupWindow
    /\ MaxPerPoll > 0

ASSUME ConfigAssumption ==
    /\ ConfigValid
    /\ Events # {}
    /\ NoLease \notin LeaseIds
    /\ AttemptCap \in Nat \ {0}
    /\ MaxStops \in Nat
    /\ MaxInFlight \in Nat
    /\ Pauses \in BOOLEAN

VARIABLES
    rows,     \* outbox_events
    before,   \* ORDER BY next_attempt_at, created_at, id of the pending rows
    stream,   \* what JetStream holds of each event, and its dedup window
    inflight, \* publishes on the wire: event and lease of the attempt
    relay,    \* each worker: where it is and the record it holds
    stops     \* how often a relay stopped

vars == <<rows, before, stream, inflight, relay, stops>>

-----------------------------------------------------------------------------
Leases == LeaseIds \union {NoLease}

Row == [state: {"absent", "pending", "published"},
        lease: Leases,
        leaseLeft: 0..LeaseDuration,
        nextIn: 0..RetryCap,
        attempts: 0..AttemptCap]

\* What the dedup window leaves of itself after the longest an attempt can
\* hold its event back: the publish and the retry delay, or the lease.
Spare ==
    DedupWindow - (IF PublishTimeout + RetryCap > LeaseDuration
                   THEN PublishTimeout + RetryCap ELSE LeaseDuration)

Absent == [state |-> "absent", lease |-> NoLease, leaseLeft |-> 0,
           nextIn |-> 0, attempts |-> 0]

\* stored: the stream has the event; window: ticks the message id is still
\* remembered for; latest: stored by, or since, the latest claim (history);
\* spare: ticks of Spare that have not passed since it was stored, outside the
\* delay and the lease of the latest attempt then (history).
Stored == [stored: BOOLEAN, window: 0..DedupWindow, latest: BOOLEAN,
           spare: 0..DedupWindow]

NotStored == [stored |-> FALSE, window |-> 0, latest |-> FALSE, spare |-> 0]
StoredNow == [stored |-> TRUE, window |-> DedupWindow, latest |-> TRUE, spare |-> Spare]

Message == [event: Events, lease: LeaseIds]

\* pc "idle" waits for the ticker (budget 0) or drains (budget > 0).  left is
\* the publish deadline; held is what is left of the lease the claim got
\* (history: the Record carries the lease id but not its expiry).
Worker == [pc: {"stopped", "idle", "claimed", "publishing", "acked", "failed"},
           event: Events,
           lease: Leases,
           attempt: 0..AttemptCap,
           left: 0..PublishTimeout,
           held: 0..LeaseDuration,
           budget: 0..MaxPerPoll]

Stopped == [pc |-> "stopped", event |-> CHOOSE e \in Events : TRUE,
            lease |-> NoLease, attempt |-> 0, left |-> 0, held |-> 0,
            budget |-> 0]

TypeOK ==
    /\ rows \in [Events -> Row]
    /\ before \subseteq Events \X Events
    /\ stream \in [Events -> Stored]
    /\ inflight \subseteq Message
    /\ relay \in [Relays -> Worker]
    /\ stops \in 0..MaxStops

Init ==
    /\ rows = [e \in Events |-> Absent]
    /\ before = {}
    /\ stream = [e \in Events |-> NotStored]
    /\ inflight = {}
    /\ relay = [r \in Relays |-> Stopped]
    /\ stops = 0

-----------------------------------------------------------------------------
Least(a, b) == IF a < b THEN a ELSE b

Pending == {e \in Events : rows[e].state = "pending"}

\* Mutant of Due: a lease that was never released is held for ever.
DueNeverExpires(e) ==
    /\ rows[e].state = "pending"
    /\ rows[e].nextIn = 0
    /\ rows[e].lease = NoLease

\* next_attempt_at <= now AND (lease_until IS NULL OR lease_until <= now)
Due(e) ==
    /\ rows[e].state = "pending"
    /\ rows[e].nextIn = 0
    /\ rows[e].lease = NoLease \/ rows[e].leaseLeft = 0

\* Mutant of retryDelay: the cap is forgotten and the first attempt doubles too.
retryDelayUncapped(attempt) == RetryDelay * 2 ^ attempt

\* RetryDelay doubled per attempt and capped; a delay that is not in
\* 1..RetryCap-1 is at or above the cap.
retryDelay(attempt) ==
    LET delay == RetryDelay * 2 ^ (attempt - 1)
    IN  IF attempt <= 1 THEN RetryDelay
        ELSE IF delay \in 1..(RetryCap - 1) THEN delay ELSE RetryCap

\* Row order once e is moved to d ticks from now.
Reordered(e, d) ==
    {p \in before : p[1] # e /\ p[2] # e}
        \union {<<a, e>> : a \in {x \in Pending \ {e} : rows[x].nextIn <= d}}
        \union {<<e, b>> : b \in {x \in Pending \ {e} : rows[x].nextIn > d}}

Remembered ==
    {rows[e].lease : e \in Events} \union {relay[r].lease : r \in Relays}
        \union {m.lease : m \in inflight}

Idle(r) == [relay[r] EXCEPT !.pc = "idle", !.lease = NoLease, !.left = 0, !.held = 0]

-----------------------------------------------------------------------------
\* The domain transaction that inserts the row; next_attempt_at is now.
Commit(e) ==
    /\ rows[e].state = "absent"
    /\ rows' = [rows EXCEPT ![e].state = "pending"]
    /\ before' = Reordered(e, 0)
    /\ UNCHANGED <<stream, inflight, relay, stops>>

\* Start: the worker goroutine drains at once.
Start(r) ==
    /\ relay[r].pc = "stopped"
    /\ relay' = [relay EXCEPT ![r] = [Stopped EXCEPT !.pc = "idle", !.budget = MaxPerPoll]]
    /\ UNCHANGED <<rows, before, stream, inflight, stops>>

\* Close, cancelled context or crash: the record in hand is forgotten, and the
\* store calls on the cancelled context fail, so the row keeps its lease.
Stop(r) ==
    /\ relay[r].pc # "stopped"
    /\ stops < MaxStops
    /\ stops' = stops + 1
    /\ relay' = [relay EXCEPT ![r] = Stopped]
    /\ UNCHANGED <<rows, before, stream, inflight>>

\* run: the ticker fires and drain starts again.
Poll(r) ==
    /\ relay[r].pc = "idle"
    /\ relay[r].budget = 0
    /\ relay' = [relay EXCEPT ![r].budget = MaxPerPoll]
    /\ UNCHANGED <<rows, before, stream, inflight, stops>>

\* drain ends early: Claim found nothing it could lock, or failed.
DrainEnds(r) ==
    /\ relay[r].pc = "idle"
    /\ relay[r].budget > 0
    /\ relay' = [relay EXCEPT ![r].budget = 0]
    /\ UNCHANGED <<rows, before, stream, inflight, stops>>

\* store.Claim: one statement leases the first due row.
Claim(r, e, lease) ==
    /\ relay[r].pc = "idle"
    /\ relay[r].budget > 0
    /\ Due(e)
    /\ \A f \in Events : Due(f) => <<f, e>> \notin before
    /\ lease \notin Remembered
    /\ rows' = [rows EXCEPT ![e] =
                   [@ EXCEPT !.lease = lease, !.leaseLeft = LeaseDuration,
                             !.attempts = Least(rows[e].attempts + 1, AttemptCap)]]
    /\ stream' = [stream EXCEPT ![e].latest = FALSE]
    /\ relay' = [relay EXCEPT ![r] =
                    [pc |-> "claimed", event |-> e, lease |-> lease,
                     attempt |-> Least(rows[e].attempts + 1, AttemptCap),
                     left |-> 0, held |-> LeaseDuration, budget |-> @.budget - 1]]
    /\ UNCHANGED <<before, inflight, stops>>

\* deliver: the publish context starts and the message goes out.
Publish(r) ==
    /\ relay[r].pc = "claimed"
    /\ Cardinality(inflight) < MaxInFlight
    /\ relay' = [relay EXCEPT ![r] = [@ EXCEPT !.pc = "publishing", !.left = PublishTimeout]]
    /\ inflight' = inflight \union {[event |-> relay[r].event, lease |-> relay[r].lease]}
    /\ UNCHANGED <<rows, before, stream, stops>>

\* JetStream stores the message, or drops it as a duplicate of one stored
\* within the window; it acknowledges both.  The publisher that waits for
\* this message may get the acknowledgement or lose it.
BrokerStores(m) ==
    /\ m \in inflight
    /\ inflight' = inflight \ {m}
    /\ stream' = IF stream[m.event].window > 0
                 THEN stream
                 ELSE [stream EXCEPT ![m.event] = StoredNow]
    /\ \/ relay' = relay
       \/ \E r \in Relays :
             /\ relay[r].pc = "publishing"
             /\ relay[r].lease = m.lease
             /\ relay' = [relay EXCEPT ![r] = [@ EXCEPT !.pc = "acked", !.left = 0]]
    /\ UNCHANGED <<rows, before, stops>>

BrokerLoses(m) ==
    /\ m \in inflight
    /\ inflight' = inflight \ {m}
    /\ UNCHANGED <<rows, before, stream, relay, stops>>

\* PublishWithContext returns an error: the broker refused, or the timeout hit.
PublishFails(r) ==
    /\ relay[r].pc = "publishing"
    /\ relay' = [relay EXCEPT ![r] = [@ EXCEPT !.pc = "failed", !.left = 0]]
    /\ UNCHANGED <<rows, before, stream, inflight, stops>>

\* Mutant of OwnsLease: the lease_id test is dropped.
OwnsAnyLease(r) == rows[relay[r].event].state = "pending"

\* id = $1 AND lease_id = $2 AND published_at IS NULL
OwnsLease(r) ==
    /\ rows[relay[r].event].lease = relay[r].lease
    /\ rows[relay[r].event].state = "pending"

\* Mutant of MarkPublished: a failed publish is marked too.
MarkPublishedAnyway(r) ==
    /\ relay[r].pc \in {"acked", "failed"}
    /\ OwnsLease(r)
    /\ rows' = [rows EXCEPT ![relay[r].event] =
                    [@ EXCEPT !.state = "published", !.lease = NoLease, !.leaseLeft = 0]]
    /\ before' = {p \in before : p[1] # relay[r].event /\ p[2] # relay[r].event}
    /\ relay' = [relay EXCEPT ![r] = Idle(r)]
    /\ UNCHANGED <<stream, inflight, stops>>

\* store.MarkPublished after a nil publish error.
MarkPublished(r) ==
    /\ relay[r].pc = "acked"
    /\ OwnsLease(r)
    /\ rows' = [rows EXCEPT ![relay[r].event] =
                    [@ EXCEPT !.state = "published", !.lease = NoLease, !.leaseLeft = 0]]
    /\ before' = {p \in before : p[1] # relay[r].event /\ p[2] # relay[r].event}
    /\ relay' = [relay EXCEPT ![r] = Idle(r)]
    /\ UNCHANGED <<stream, inflight, stops>>

\* store.Reschedule after a publish error.
Reschedule(r) ==
    LET e == relay[r].event
        d == retryDelay(relay[r].attempt)
    IN  /\ relay[r].pc = "failed"
        /\ OwnsLease(r)
        /\ rows' = [rows EXCEPT ![e] =
                        [@ EXCEPT !.nextIn = d, !.lease = NoLease, !.leaseLeft = 0]]
        /\ before' = Reordered(e, d)
        /\ relay' = [relay EXCEPT ![r] = Idle(r)]
        /\ UNCHANGED <<stream, inflight, stops>>

\* MarkPublished or Reschedule fails (the lease is lost, or the store is
\* down); the relay logs it and goes on draining.
StoreFails(r) ==
    /\ relay[r].pc \in {"acked", "failed"}
    /\ relay' = [relay EXCEPT ![r] = Idle(r)]
    /\ UNCHANGED <<rows, before, stream, inflight, stops>>

Minus1(n) == IF n = 0 THEN 0 ELSE n - 1

\* What is left to spare of e's window after a tick: a tick of the timers of
\* the attempt that stored it costs nothing.
SpareLeft(e) ==
    IF stream[e].latest /\ (rows[e].leaseLeft > 0 \/ rows[e].nextIn > 0)
    THEN stream[e].spare ELSE Minus1(stream[e].spare)

\* Time passes; a publish never outlives its context, and without Pauses a
\* relay between two calls takes no time.
Tick ==
    /\ \A r \in Relays : relay[r].pc = "publishing" => relay[r].left > 0
    /\ Pauses \/ \A r \in Relays : relay[r].pc \notin {"claimed", "acked", "failed"}
    /\ rows' = [e \in Events |-> [rows[e] EXCEPT !.leaseLeft = Minus1(@), !.nextIn = Minus1(@)]]
    /\ stream' = [e \in Events |->
                     [stream[e] EXCEPT !.window = Minus1(@), !.spare = SpareLeft(e)]]
    /\ relay' = [r \in Relays |-> [relay[r] EXCEPT !.left = Minus1(@), !.held = Minus1(@)]]
    /\ UNCHANGED <<before, inflight, stops>>

RelayStep(r) ==
    \/ Start(r) \/ Stop(r) \/ Poll(r) \/ DrainEnds(r)
    \/ \E e \in Events, l \in LeaseIds : Claim(r, e, l)
    \/ Publish(r) \/ PublishFails(r)
    \/ MarkPublished(r) \/ Reschedule(r) \/ StoreFails(r)

Next ==
    \/ \E e \in Events : Commit(e)
    \/ \E r \in Relays : RelayStep(r)
    \/ \E m \in inflight : BrokerStores(m) \/ BrokerLoses(m)
    \/ Tick

\* The processes are restarted, the ticker fires, the database and the broker
\* may fail any number of times but not for ever.
Fairness ==
    /\ WF_vars(Tick)
    /\ WF_vars(\E m \in inflight : BrokerStores(m) \/ BrokerLoses(m))
    /\ \A r \in Relays :
        /\ WF_vars(Start(r))
        /\ WF_vars(Poll(r))
        /\ SF_vars(\E e \in Events, l \in LeaseIds : Claim(r, e, l))
        /\ WF_vars(Publish(r))
        /\ SF_vars(/\ \E m \in inflight : BrokerStores(m)
                   /\ relay[r].pc = "publishing" /\ relay'[r].pc = "acked")
        /\ WF_vars(PublishFails(r))
        /\ SF_vars(MarkPublished(r))
        /\ SF_vars(Reschedule(r))
        /\ WF_vars(StoreFails(r))

Safety == Init /\ [][Next]_vars

Spec == Safety /\ Fairness

-----------------------------------------------------------------------------
\* Two relays never both hold an unexpired lease on one event: a relay whose
\* lease ran out cannot free or take the lease that replaced it (the lease_id
\* guard of MarkPublished and Reschedule, the lease_until guard of Claim).
OneLiveHolder ==
    \A r1, r2 \in Relays :
        (/\ relay[r1].held > 0 /\ relay[r2].held > 0
         /\ relay[r1].event = relay[r2].event) => r1 = r2

\* The timers of the attempt that stored an event never outlast the stream's
\* memory of its message id (the horizon checks of Config.valid, the cap of
\* retryDelay): the event is stored a second time only after Spare more ticks.
\* Those ticks are all a retry has to be polled, claimed and carried to the
\* broker in, and a further attempt that fails spends them like any wait.
SecondCopyIsLate ==
    [][\A e \in Events :
          stream[e].stored /\ stream'[e].window > stream[e].window
              => stream[e].spare = 0]_vars

\* The outbox implements the abstract delivery promise: an event is settled
\* only once the stream holds it, a settled event is never pending again, and
\* (with Fairness) every committed event is delivered and settled.
Delivery == INSTANCE EventDelivery WITH
    committed <- {e \in Events : rows[e].state # "absent"},
    delivered <- {e \in Events : stream[e].stored},
    settled   <- {e \in Events : rows[e].state = "published"}

DeliverySafety == Delivery!Safety
DeliverySpec == Delivery!Spec

=============================================================================
