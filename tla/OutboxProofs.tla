---------------------------- MODULE OutboxProofs ----------------------------
(***************************************************************************)
(* Theorems of Outbox for every value of its constants: the type           *)
(* invariant, lease exclusion, that the outbox implements EventDelivery's  *)
(* safety, and when the stream may take an event a second time.            *)
(***************************************************************************)
EXTENDS Outbox, TLAPS

\* The delay is never past the cap, whatever the exponential gives.
LEMMA RetryDelayBounded ==
    ASSUME NEW attempt
    PROVE  retryDelay(attempt) \in 0..RetryCap
  BY ConfigAssumption DEF ConfigValid, retryDelay

-----------------------------------------------------------------------------
(***************************************************************************)
(* The inductive invariant.  A busy worker holds a lease id no other       *)
(* worker holds; while its lease runs, the row agrees with it; and what    *)
(* is on the wire, acknowledged or published belongs to a committed row    *)
(* and to the attempt whose lease it carries.                              *)
(***************************************************************************)
Busy(r) == relay[r].pc \in {"claimed", "publishing", "acked", "failed"}

Holding ==
    \A r \in Relays :
        IF Busy(r) THEN relay[r].lease \in LeaseIds
                   ELSE relay[r].lease = NoLease /\ relay[r].held = 0

LeasesDistinct ==
    \A r1, r2 \in Relays :
        (relay[r1].lease = relay[r2].lease /\ relay[r1].lease # NoLease) => r1 = r2

HeldAgrees ==
    \A r \in Relays : relay[r].held > 0 =>
        /\ rows[relay[r].event].lease = relay[r].lease
        /\ rows[relay[r].event].leaseLeft = relay[r].held

MessagesMatch ==
    /\ \A m \in inflight : rows[m.event].state # "absent"
    /\ \A m \in inflight, r \in Relays :
          relay[r].lease = m.lease => relay[r].event = m.event

AttemptsMatch ==
    /\ \A r \in Relays : Busy(r) => rows[relay[r].event].state # "absent"
    /\ \A r \in Relays : relay[r].pc = "acked" => stream[relay[r].event].stored

WindowMeansStored == \A e \in Events : stream[e].window > 0 => stream[e].stored

IInv == /\ TypeOK /\ Holding
        /\ LeasesDistinct /\ HeldAgrees
        /\ MessagesMatch /\ AttemptsMatch /\ WindowMeansStored

-----------------------------------------------------------------------------
(* TypeOK, action by action.                                               *)

\* A row keeps its type when it is leased, marked published or rescheduled.
LEMMA RowLeased ==
    ASSUME NEW w \in Row, NEW l \in Leases, NEW n \in 0..LeaseDuration,
           NEW a \in 0..AttemptCap
    PROVE  [w EXCEPT !.lease = l, !.leaseLeft = n, !.attempts = a] \in Row
  BY DEF Row

LEMMA RowPublished ==
    ASSUME NEW w \in Row, NEW l \in Leases, NEW n \in 0..LeaseDuration
    PROVE  [w EXCEPT !.state = "published", !.lease = l, !.leaseLeft = n] \in Row
  BY DEF Row

LEMMA RowRescheduled ==
    ASSUME NEW w \in Row, NEW l \in Leases, NEW n \in 0..LeaseDuration,
           NEW d \in 0..RetryCap
    PROVE  [w EXCEPT !.nextIn = d, !.lease = l, !.leaseLeft = n] \in Row
  BY DEF Row

\* A worker keeps its type when its publish starts or ends, or it turns idle.
LEMMA WorkerMoved ==
    ASSUME NEW w \in Worker, NEW n \in 0..PublishTimeout,
           NEW pc \in {"publishing", "acked", "failed"}
    PROVE  [w EXCEPT !.pc = pc, !.left = n] \in Worker
  BY DEF Worker

LEMMA WorkerIdled ==
    ASSUME NEW w \in Worker, NEW l \in Leases, NEW n \in 0..PublishTimeout,
           NEW h \in 0..LeaseDuration
    PROVE  [w EXCEPT !.pc = "idle", !.lease = l, !.left = n, !.held = h] \in Worker
  BY DEF Worker

\* The values that stand for NULL and for a timer that has run out are typed.
LEMMA Zeros ==
    /\ NoLease \in Leases
    /\ 0 \in 0..LeaseDuration /\ LeaseDuration \in 0..LeaseDuration
    /\ 0 \in 0..PublishTimeout /\ PublishTimeout \in 0..PublishTimeout
    /\ 0 \in 0..MaxPerPoll /\ MaxPerPoll \in 0..MaxPerPoll
  BY ConfigAssumption DEF Leases, ConfigValid

\* A stopped worker is a worker.
LEMMA StoppedIsWorker == Stopped \in Worker
  <1>1. (CHOOSE e \in Events : TRUE) \in Events
    BY ConfigAssumption
  <1> QED
    BY <1>1, ConfigAssumption DEF Stopped, Worker, Leases, ConfigValid

LEMMA IdleIsWorker ==
    ASSUME TypeOK, NEW r \in Relays
    PROVE  Idle(r) \in Worker
  <1>1. relay[r] \in Worker
    BY DEF TypeOK
  <1> QED
    BY <1>1, Zeros, WorkerIdled DEF Idle

\* What the longest attempt leaves of the window (the horizon checks of
\* Config.valid).
LEMMA SpareFits ==
    /\ Spare \in 0..DedupWindow
    /\ Spare + PublishTimeout + RetryCap <= DedupWindow
    /\ Spare + LeaseDuration <= DedupWindow
  BY ConfigAssumption DEF Spare, ConfigValid

LEMMA TypeInit == Init => TypeOK
  <1> SUFFICES ASSUME Init PROVE TypeOK
    OBVIOUS
  <1>1. Absent \in Row
    BY ConfigAssumption DEF Absent, Row, Leases, ConfigValid
  <1>2. NotStored \in Stored
    BY ConfigAssumption DEF NotStored, Stored, ConfigValid
  <1>3. 0 \in 0..MaxStops
    BY ConfigAssumption
  <1> QED
    BY <1>1, <1>2, <1>3, StoppedIsWorker DEF Init, TypeOK

LEMMA TypeNext == TypeOK /\ Holding /\ [Next]_vars => TypeOK'
  <1> SUFFICES ASSUME TypeOK, Holding, [Next]_vars PROVE TypeOK'
    OBVIOUS
  <1>1. ASSUME NEW e \in Events, Commit(e) PROVE TypeOK'
    <2>1. rows' \in [Events -> Row]
      BY <1>1 DEF TypeOK, Commit, Row
    <2>2. before' \subseteq Events \X Events
      BY <1>1 DEF TypeOK, Commit, Reordered, Pending
    <2> QED
      BY <1>1, <2>1, <2>2 DEF TypeOK, Commit
  <1>2. ASSUME NEW r \in Relays, RelayStep(r) PROVE TypeOK'
    <2>1. CASE Start(r)
      <3>1. Stopped.pc = "stopped" /\ MaxPerPoll \in 0..MaxPerPoll
        BY ConfigAssumption DEF Stopped, ConfigValid
      <3>2. [Stopped EXCEPT !.pc = "idle", !.budget = MaxPerPoll] \in Worker
        BY <3>1, StoppedIsWorker DEF Worker
      <3> QED
        BY <2>1, <3>2 DEF TypeOK, Start
    <2>2. CASE Stop(r)
      <3>1. stops' \in 0..MaxStops
        BY <2>2, ConfigAssumption DEF TypeOK, Stop
      <3> QED
        BY <2>2, <3>1, StoppedIsWorker DEF TypeOK, Stop
    <2>3. CASE Poll(r)
      <3>1. MaxPerPoll \in 0..MaxPerPoll
        BY ConfigAssumption DEF ConfigValid
      <3> QED
        BY <2>3, <3>1 DEF TypeOK, Poll, Worker
    <2>4. CASE DrainEnds(r)
      <3>1. 0 \in 0..MaxPerPoll
        BY ConfigAssumption DEF ConfigValid
      <3> QED
        BY <2>4, <3>1 DEF TypeOK, DrainEnds, Worker
    <2>5. ASSUME NEW e \in Events, NEW l \in LeaseIds, Claim(r, e, l)
          PROVE  TypeOK'
      <3>1. Least(rows[e].attempts + 1, AttemptCap) \in 0..AttemptCap
        BY ConfigAssumption DEF TypeOK, Row, Least
      <3>2. relay[r].budget - 1 \in 0..MaxPerPoll
        BY <2>5, ConfigAssumption DEF TypeOK, Worker, ConfigValid, Claim
      <3>3. relay' \in [Relays -> Worker]
        BY <2>5, <3>1, <3>2, ConfigAssumption
        DEF TypeOK, Claim, Worker, Leases, ConfigValid
      <3>4. rows[e] \in Row /\ l \in Leases
        BY DEF TypeOK, Leases
      <3> DEFINE w == [rows[e] EXCEPT
                          !.lease = l, !.leaseLeft = LeaseDuration,
                          !.attempts = Least(rows[e].attempts + 1, AttemptCap)]
      <3>8. rows' = [rows EXCEPT ![e] = w]
        BY <2>5 DEF Claim
      <3>6. rows' \in [Events -> Row]
        <4>1. w \in Row
          BY <3>1, <3>4, Zeros, RowLeased
        <4> HIDE DEF w
        <4> QED
          BY <3>8, <4>1 DEF TypeOK
      <3>7. stream' \in [Events -> Stored]
        BY <2>5 DEF TypeOK, Claim, Stored
      <3> QED
        BY <2>5, <3>3, <3>6, <3>7 DEF TypeOK, Claim
    <2>6. CASE Publish(r)
      <3>1. relay[r] \in Worker
        BY DEF TypeOK
      <3>2. [relay[r] EXCEPT !.pc = "publishing", !.left = PublishTimeout] \in Worker
        BY <3>1, WorkerMoved, Zeros
      <3>3. [event |-> relay[r].event, lease |-> relay[r].lease] \in Message
        BY <2>6, <3>1 DEF Publish, Holding, Busy, Message, Worker
      <3> QED
        BY <2>6, <3>2, <3>3 DEF TypeOK, Publish
    <2>7. CASE PublishFails(r)
      <3>1. relay[r] \in Worker
        BY DEF TypeOK
      <3>2. [relay[r] EXCEPT !.pc = "failed", !.left = 0] \in Worker
        BY <3>1, WorkerMoved, Zeros
      <3> QED
        BY <2>7, <3>2 DEF TypeOK, PublishFails
    <2>8. CASE MarkPublished(r)
      <3> DEFINE e == relay[r].event
                 w == [rows[e] EXCEPT !.state = "published", !.lease = NoLease,
                                      !.leaseLeft = 0]
      <3>1. w \in Row
        BY Zeros, RowPublished DEF TypeOK, Worker
      <3>2. rows' = [rows EXCEPT ![e] = w] /\ before' \subseteq before
        BY <2>8 DEF MarkPublished
      <3> QED
        <4> HIDE DEF e, w
        <4> QED
          BY <2>8, <3>1, <3>2, IdleIsWorker DEF TypeOK, MarkPublished
    <2>9. CASE Reschedule(r)
      <3> DEFINE e == relay[r].event
                 d == retryDelay(relay[r].attempt)
                 w == [rows[e] EXCEPT !.nextIn = d, !.lease = NoLease,
                                      !.leaseLeft = 0]
      <3>1. e \in Events
        BY DEF TypeOK, Worker
      <3>2. w \in Row
        BY <3>1, Zeros, RowRescheduled, RetryDelayBounded DEF TypeOK
      <3>3. rows' = [rows EXCEPT ![e] = w]
        BY <2>9 DEF Reschedule
      <3>4. before' \subseteq Events \X Events
        BY <2>9, <3>1 DEF TypeOK, Reschedule, Reordered, Pending
      <3> QED
        <4> HIDE DEF e, w
        <4> QED
          BY <2>9, <3>2, <3>3, <3>4, IdleIsWorker DEF TypeOK, Reschedule
    <2>10. CASE StoreFails(r)
      BY <2>10, IdleIsWorker DEF TypeOK, StoreFails
    <2> QED
      BY <1>2, <2>1, <2>2, <2>3, <2>4, <2>5, <2>6, <2>7, <2>8, <2>9, <2>10 DEF RelayStep
  <1>3. ASSUME NEW m \in inflight, BrokerStores(m) PROVE TypeOK'
    <2>1. relay' \in [Relays -> Worker]
      <3>1. CASE relay' = relay
        BY <3>1 DEF TypeOK
      <3>2. ASSUME NEW r \in Relays,
                   relay' = [relay EXCEPT ![r] = [@ EXCEPT !.pc = "acked", !.left = 0]]
            PROVE  relay' \in [Relays -> Worker]
        <4>1. relay[r] \in Worker
          BY DEF TypeOK
        <4>2. [relay[r] EXCEPT !.pc = "acked", !.left = 0] \in Worker
          BY <4>1, WorkerMoved, Zeros
        <4> QED
          BY <3>2, <4>2 DEF TypeOK
      <3> QED
        BY <1>3, <3>1, <3>2 DEF BrokerStores
    <2>2. stream' \in [Events -> Stored]
      <3>1. StoredNow \in Stored
        BY SpareFits, ConfigAssumption DEF StoredNow, Stored, ConfigValid
      <3> QED
        BY <1>3, <3>1 DEF TypeOK, BrokerStores
    <2> QED
      BY <1>3, <2>1, <2>2 DEF TypeOK, BrokerStores
  <1>4. ASSUME NEW m \in inflight, BrokerLoses(m) PROVE TypeOK'
    BY <1>4 DEF TypeOK, BrokerLoses
  <1>5. CASE Tick
    <2>1. \A k \in Nat : \A n \in 0..k : Minus1(n) \in 0..k
      BY DEF Minus1
    <2>2. ASSUME NEW e \in Events
          PROVE  [rows[e] EXCEPT !.leaseLeft = Minus1(@), !.nextIn = Minus1(@)] \in Row
      BY <2>1, ConfigAssumption DEF TypeOK, Row, ConfigValid
    <2>3. ASSUME NEW e \in Events
          PROVE  [stream[e] EXCEPT !.window = Minus1(@), !.spare = SpareLeft(e)] \in Stored
      BY <2>1, ConfigAssumption DEF TypeOK, Stored, SpareLeft, ConfigValid
    <2>4. ASSUME NEW r \in Relays
          PROVE  [relay[r] EXCEPT !.left = Minus1(@), !.held = Minus1(@)] \in Worker
      BY <2>1, ConfigAssumption DEF TypeOK, Worker, ConfigValid
    <2> QED
      BY <1>5, <2>2, <2>3, <2>4 DEF TypeOK, Tick
  <1>6. CASE UNCHANGED vars
    BY <1>6 DEF TypeOK, vars
  <1> QED
    BY <1>1, <1>2, <1>3, <1>4, <1>5, <1>6 DEF Next

-----------------------------------------------------------------------------
(* The rest of the inductive invariant.  Every action but Claim keeps each *)
(* worker's lease and event or turns the worker idle, and a busy worker's  *)
(* row never becomes absent again.                                         *)

LEMMA IInvInit == Init => IInv
  <1> SUFFICES ASSUME Init PROVE IInv
    OBVIOUS
  <1>1. TypeOK
    BY TypeInit
  <1>2. \A r \in Relays :
           relay[r].pc = "stopped" /\ relay[r].lease = NoLease /\ relay[r].held = 0
    BY DEF Init, Stopped
  <1>3. inflight = {}
    BY DEF Init
  <1>4. WindowMeansStored
    BY DEF Init, NotStored, WindowMeansStored
  <1> QED
    BY <1>1, <1>2, <1>3, <1>4
    DEF IInv, Holding, Busy, LeasesDistinct, HeldAgrees, MessagesMatch, AttemptsMatch

\* The end of a publish moves only pc and the publish deadline.
LEMMA MovedFields ==
    ASSUME TypeOK, NEW r \in Relays, NEW pc, NEW n,
           relay' = [relay EXCEPT ![r] = [@ EXCEPT !.pc = pc, !.left = n]]
    PROVE  /\ relay'[r].pc = pc
           /\ \A q \in Relays : /\ relay'[q].lease = relay[q].lease
                                /\ relay'[q].event = relay[q].event
                                /\ relay'[q].held = relay[q].held
                                /\ q # r => relay'[q] = relay[q]
  <1> DEFINE w == [relay[r] EXCEPT !.pc = pc, !.left = n]
  <1>1. /\ w.pc = pc /\ w.lease = relay[r].lease
        /\ w.event = relay[r].event /\ w.held = relay[r].held
    BY DEF TypeOK, Worker
  <1>2. relay' = [relay EXCEPT ![r] = w] /\ relay \in [Relays -> Worker]
    BY DEF TypeOK
  <1> HIDE DEF w
  <1> QED
    BY <1>1, <1>2

\* A finished delivery leaves the worker idle with no lease.
LEMMA IdledFields ==
    ASSUME TypeOK, NEW r \in Relays, relay' = [relay EXCEPT ![r] = Idle(r)]
    PROVE  /\ relay'[r].pc = "idle" /\ relay'[r].lease = NoLease /\ relay'[r].held = 0
           /\ \A q \in Relays : q # r => relay'[q] = relay[q]
  <1>1. Idle(r).pc = "idle" /\ Idle(r).lease = NoLease /\ Idle(r).held = 0
    BY DEF Idle, TypeOK, Worker
  <1> QED
    BY <1>1 DEF TypeOK

LEMMA HoldingNext == IInv /\ [Next]_vars => Holding' /\ LeasesDistinct'
  <1> SUFFICES ASSUME IInv, [Next]_vars PROVE Holding' /\ LeasesDistinct'
    OBVIOUS
  <1> USE DEF IInv
  <1>1. ASSUME NEW r \in Relays, RelayStep(r) PROVE Holding' /\ LeasesDistinct'
    <2>1. CASE Start(r)
      BY <2>1 DEF Start, TypeOK, Worker, Holding, LeasesDistinct, Busy, Stopped
    <2>2. CASE Stop(r)
      BY <2>2 DEF Stop, TypeOK, Worker, Holding, LeasesDistinct, Busy, Stopped
    <2>3. CASE Poll(r) \/ DrainEnds(r)
      BY <2>3 DEF Poll, DrainEnds, TypeOK, Worker, Holding, LeasesDistinct, Busy
    <2>4. ASSUME NEW e \in Events, NEW l \in LeaseIds, Claim(r, e, l)
          PROVE  Holding' /\ LeasesDistinct'
      <3>1. \A q \in Relays : relay[q].lease # l
        BY <2>4 DEF Claim, Remembered
      <3> QED
        BY <2>4, <3>1 DEF Claim, TypeOK, Holding, LeasesDistinct, Busy
    <2>5. CASE Publish(r) \/ PublishFails(r)
      <3>1. /\ Busy(r) /\ Busy(r)'
            /\ \A q \in Relays : /\ relay'[q].lease = relay[q].lease
                                 /\ relay'[q].held = relay[q].held
                                 /\ q # r => relay'[q] = relay[q]
        <4>1. CASE Publish(r)
          <5>1. relay' = [relay EXCEPT
                            ![r] = [@ EXCEPT !.pc = "publishing", !.left = PublishTimeout]]
            BY <4>1 DEF Publish
          <5>2. relay[r].pc = "claimed"
            BY <4>1 DEF Publish
          <5>3. /\ relay'[r].pc = "publishing"
                /\ \A q \in Relays : /\ relay'[q].lease = relay[q].lease
                                     /\ relay'[q].held = relay[q].held
                                     /\ q # r => relay'[q] = relay[q]
            BY <5>1, MovedFields
          <5> QED
            BY <5>2, <5>3 DEF Busy
        <4>2. CASE PublishFails(r)
          <5>1. relay' = [relay EXCEPT ![r] = [@ EXCEPT !.pc = "failed", !.left = 0]]
            BY <4>2 DEF PublishFails
          <5>2. relay[r].pc = "publishing"
            BY <4>2 DEF PublishFails
          <5>3. /\ relay'[r].pc = "failed"
                /\ \A q \in Relays : /\ relay'[q].lease = relay[q].lease
                                     /\ relay'[q].held = relay[q].held
                                     /\ q # r => relay'[q] = relay[q]
            BY <5>1, MovedFields
          <5> QED
            BY <5>2, <5>3 DEF Busy
        <4> QED
          BY <2>5, <4>1, <4>2
      <3> QED
        BY <3>1 DEF Holding, LeasesDistinct, Busy
    <2>6. CASE MarkPublished(r) \/ Reschedule(r) \/ StoreFails(r)
      <3>1. relay' = [relay EXCEPT ![r] = Idle(r)]
        BY <2>6 DEF MarkPublished, Reschedule, StoreFails
      <3>2. /\ relay'[r].pc = "idle" /\ relay'[r].lease = NoLease /\ relay'[r].held = 0
            /\ \A q \in Relays : q # r => relay'[q] = relay[q]
        BY <3>1, IdledFields
      <3> QED
        BY <3>2 DEF Holding, LeasesDistinct, Busy
    <2> QED
      BY <1>1, <2>1, <2>2, <2>3, <2>4, <2>5, <2>6 DEF RelayStep
  <1>2. ASSUME NEW m \in inflight, BrokerStores(m) PROVE Holding' /\ LeasesDistinct'
    <2>1. \A q \in Relays : /\ relay'[q].lease = relay[q].lease
                            /\ relay'[q].held = relay[q].held
                            /\ Busy(q)' <=> Busy(q)
      <3>1. CASE relay' = relay
        BY <3>1 DEF Busy
      <3>2. ASSUME NEW r \in Relays, relay[r].pc = "publishing",
                   relay' = [relay EXCEPT ![r] = [@ EXCEPT !.pc = "acked", !.left = 0]]
            PROVE  \A q \in Relays : /\ relay'[q].lease = relay[q].lease
                                     /\ relay'[q].held = relay[q].held
                                     /\ Busy(q)' <=> Busy(q)
        BY <3>2, MovedFields DEF Busy
      <3> QED
        BY <1>2, <3>1, <3>2 DEF BrokerStores
    <2> QED
      BY <2>1 DEF Holding, LeasesDistinct
  <1>3. ASSUME NEW m \in inflight, BrokerLoses(m) PROVE Holding' /\ LeasesDistinct'
    BY <1>3 DEF BrokerLoses, Holding, LeasesDistinct, Busy
  <1>4. CASE Tick
    BY <1>4 DEF Tick, Minus1, TypeOK, Worker, Holding, LeasesDistinct, Busy
  <1>5. ASSUME NEW e \in Events, Commit(e) PROVE Holding' /\ LeasesDistinct'
    BY <1>5 DEF Commit, Holding, LeasesDistinct, Busy
  <1>6. CASE UNCHANGED vars
    BY <1>6 DEF vars, Holding, LeasesDistinct, Busy
  <1> QED
    BY <1>1, <1>2, <1>3, <1>4, <1>5, <1>6 DEF Next

LEMMA HeldAgreesNext == IInv /\ [Next]_vars => HeldAgrees'
  <1> SUFFICES ASSUME IInv, [Next]_vars PROVE HeldAgrees'
    OBVIOUS
  <1> USE DEF IInv
  <1>0. /\ NoLease \notin LeaseIds
        /\ \A r \in Relays : /\ relay[r].event \in Events
                             /\ relay[r].held \in Nat
                             /\ relay[r].held > 0 => relay[r].lease \in LeaseIds
    BY ConfigAssumption DEF TypeOK, Worker, ConfigValid, Holding
  <1>1. ASSUME NEW r \in Relays, RelayStep(r) PROVE HeldAgrees'
    <2>1. CASE Start(r)
      BY <2>1 DEF Start, TypeOK, HeldAgrees, Stopped
    <2>2. CASE Stop(r)
      BY <2>2 DEF Stop, TypeOK, HeldAgrees, Stopped
    <2>3. CASE Poll(r) \/ DrainEnds(r)
      BY <2>3 DEF Poll, DrainEnds, TypeOK, Worker, HeldAgrees
    <2>4. ASSUME NEW e \in Events, NEW l \in LeaseIds, Claim(r, e, l)
          PROVE  HeldAgrees'
      \* e was free, so no other worker still holds a lease on it.
      <3>1. \A q \in Relays : relay[q].held > 0 => relay[q].event # e
        BY <2>4, <1>0 DEF Claim, Due, HeldAgrees
      <3>2. \A f \in Events : f # e => rows'[f] = rows[f]
        BY <2>4 DEF Claim, TypeOK
      <3>3. rows'[e].lease = l /\ rows'[e].leaseLeft = LeaseDuration
        BY <2>4 DEF Claim, TypeOK, Row
      <3>4. \A q \in Relays : q # r => relay'[q] = relay[q]
        BY <2>4 DEF Claim, TypeOK
      <3>5. /\ relay'[r].event = e /\ relay'[r].lease = l
            /\ relay'[r].held = LeaseDuration
        BY <2>4 DEF Claim, TypeOK
      <3> QED
        BY <1>0, <3>1, <3>2, <3>3, <3>4, <3>5 DEF HeldAgrees
    <2>5. CASE Publish(r) \/ PublishFails(r)
      <3>1. \A q \in Relays : /\ relay'[q].lease = relay[q].lease
                              /\ relay'[q].event = relay[q].event
                              /\ relay'[q].held = relay[q].held
        <4>1. PICK pc \in {"publishing", "failed"}, n \in {0, PublishTimeout} :
                 relay' = [relay EXCEPT ![r] = [@ EXCEPT !.pc = pc, !.left = n]]
          BY <2>5 DEF Publish, PublishFails
        <4> QED
          BY <4>1, MovedFields
      <3> QED
        BY <2>5, <3>1 DEF Publish, PublishFails, HeldAgrees
    <2>6. CASE MarkPublished(r) \/ Reschedule(r)
      \* OwnsLease: the row it writes is held by no other worker.
      <3>1. /\ relay' = [relay EXCEPT ![r] = Idle(r)]
            /\ OwnsLease(r) /\ Busy(r)
        BY <2>6 DEF MarkPublished, Reschedule, Busy
      <3>2. \A f \in Events : f # relay[r].event => rows'[f] = rows[f]
        BY <2>6 DEF MarkPublished, Reschedule, TypeOK
      <3>3. \A q \in Relays : (relay[q].held > 0 /\ q # r)
                                 => relay[q].event # relay[r].event
        BY <1>0, <3>1 DEF OwnsLease, HeldAgrees, LeasesDistinct
      <3>4. relay'[r].held = 0 /\ \A q \in Relays : q # r => relay'[q] = relay[q]
        BY <3>1, IdledFields
      <3> QED
        BY <1>0, <3>2, <3>3, <3>4 DEF HeldAgrees
    <2>7. CASE StoreFails(r)
      <3>1. relay' = [relay EXCEPT ![r] = Idle(r)] /\ rows' = rows
        BY <2>7 DEF StoreFails
      <3>2. relay'[r].held = 0 /\ \A q \in Relays : q # r => relay'[q] = relay[q]
        BY <3>1, IdledFields
      <3> QED
        BY <3>1, <3>2 DEF HeldAgrees
    <2> QED
      BY <1>1, <2>1, <2>2, <2>3, <2>4, <2>5, <2>6, <2>7 DEF RelayStep
  <1>2. ASSUME NEW m \in inflight, BrokerStores(m) PROVE HeldAgrees'
    <2>1. \A q \in Relays : /\ relay'[q].lease = relay[q].lease
                            /\ relay'[q].event = relay[q].event
                            /\ relay'[q].held = relay[q].held
      <3>1. CASE relay' = relay
        BY <3>1
      <3>2. ASSUME NEW r \in Relays,
                   relay' = [relay EXCEPT ![r] = [@ EXCEPT !.pc = "acked", !.left = 0]]
            PROVE  \A q \in Relays : /\ relay'[q].lease = relay[q].lease
                                     /\ relay'[q].event = relay[q].event
                                     /\ relay'[q].held = relay[q].held
        BY <3>2, MovedFields
      <3> QED
        BY <1>2, <3>1, <3>2 DEF BrokerStores
    <2> QED
      BY <1>2, <2>1 DEF BrokerStores, HeldAgrees
  <1>3. ASSUME NEW m \in inflight, BrokerLoses(m) PROVE HeldAgrees'
    BY <1>3 DEF BrokerLoses, HeldAgrees
  <1>4. CASE Tick
    <2>1. \A q \in Relays : /\ relay'[q].lease = relay[q].lease
                            /\ relay'[q].event = relay[q].event
                            /\ relay'[q].held = Minus1(relay[q].held)
      <3> SUFFICES ASSUME NEW q \in Relays
                   PROVE  /\ relay'[q].lease = relay[q].lease
                          /\ relay'[q].event = relay[q].event
                          /\ relay'[q].held = Minus1(relay[q].held)
        OBVIOUS
      <3>1. relay'[q] = [relay[q] EXCEPT !.left = Minus1(@), !.held = Minus1(@)]
        BY <1>4 DEF Tick
      <3>2. relay[q] \in Worker
        BY DEF TypeOK
      <3> QED
        BY <3>1, <3>2 DEF Worker
    <2>2. \A e \in Events : /\ rows'[e].lease = rows[e].lease
                            /\ rows'[e].leaseLeft = Minus1(rows[e].leaseLeft)
      BY <1>4 DEF Tick, TypeOK, Row
    <2> QED
      BY <1>0, <2>1, <2>2 DEF HeldAgrees, Minus1
  <1>5. ASSUME NEW e \in Events, Commit(e) PROVE HeldAgrees'
    BY <1>5 DEF Commit, TypeOK, Row, HeldAgrees
  <1>6. CASE UNCHANGED vars
    BY <1>6 DEF vars, HeldAgrees
  <1> QED
    BY <1>1, <1>2, <1>3, <1>4, <1>5, <1>6 DEF Next

LEMMA MatchNext == IInv /\ [Next]_vars => MessagesMatch' /\ AttemptsMatch'
  <1> SUFFICES ASSUME IInv, [Next]_vars PROVE MessagesMatch' /\ AttemptsMatch'
    OBVIOUS
  <1> USE DEF IInv
  <1>0. /\ \A r \in Relays : relay[r].event \in Events
        /\ \A m \in inflight : m.event \in Events /\ m.lease \in LeaseIds
        /\ NoLease \notin LeaseIds
    BY ConfigAssumption DEF TypeOK, Worker, Message
  \* What the worker steps that neither claim nor publish have in common.
  <1>1. ASSUME inflight' \subseteq inflight,
               \A e \in Events : rows[e].state # "absent" => rows'[e].state # "absent",
               \A e \in Events : stream[e].stored => stream'[e].stored,
               \A q \in Relays :
                  \/ /\ relay'[q].event = relay[q].event
                     /\ relay'[q].lease = relay[q].lease
                     /\ Busy(q)' => Busy(q)
                     /\ relay'[q].pc = "acked" =>
                           relay[q].pc = "acked" \/ stream'[relay[q].event].stored
                  \/ relay'[q].lease = NoLease /\ ~Busy(q)' /\ relay'[q].pc # "acked"
        PROVE  MessagesMatch' /\ AttemptsMatch'
    <2>1. MessagesMatch'
      BY <1>0, <1>1 DEF MessagesMatch
    <2>2. AttemptsMatch'
      BY <1>0, <1>1 DEF AttemptsMatch
    <2> QED
      BY <2>1, <2>2
  <1>2. ASSUME NEW r \in Relays, RelayStep(r) PROVE MessagesMatch' /\ AttemptsMatch'
    <2>1. CASE Start(r) \/ Stop(r)
      <3>0. /\ [Stopped EXCEPT !.pc = "idle", !.budget = MaxPerPoll].lease = NoLease
            /\ [Stopped EXCEPT !.pc = "idle", !.budget = MaxPerPoll].pc = "idle"
            /\ Stopped.lease = NoLease /\ Stopped.pc = "stopped"
        BY DEF Stopped
      <3>1. /\ relay'[r].lease = NoLease /\ relay'[r].pc \in {"idle", "stopped"}
            /\ \A q \in Relays : q # r => relay'[q] = relay[q]
            /\ UNCHANGED <<rows, stream, inflight>>
        BY <2>1, <3>0 DEF Start, Stop, TypeOK
      <3> QED
        BY <1>1, <3>1 DEF Busy
    <2>2. CASE Poll(r) \/ DrainEnds(r)
      <3>1. /\ \A q \in Relays : /\ relay'[q].event = relay[q].event
                                 /\ relay'[q].lease = relay[q].lease
                                 /\ relay'[q].pc = relay[q].pc
            /\ UNCHANGED <<rows, stream, inflight>>
        BY <2>2 DEF Poll, DrainEnds, TypeOK, Worker
      <3> QED
        BY <1>1, <3>1 DEF Busy
    <2>3. ASSUME NEW e \in Events, NEW l \in LeaseIds, Claim(r, e, l)
          PROVE  MessagesMatch' /\ AttemptsMatch'
      <3>1. /\ \A m \in inflight : m.lease # l
            /\ inflight' = inflight
            /\ rows[e].state = "pending"
        BY <2>3 DEF Claim, Remembered, Due
      <3>2. /\ relay'[r].event = e /\ relay'[r].lease = l /\ relay'[r].pc = "claimed"
            /\ \A q \in Relays : q # r => relay'[q] = relay[q]
        BY <2>3 DEF Claim, TypeOK
      <3>3. \A f \in Events : rows'[f].state = rows[f].state
        BY <2>3 DEF Claim, TypeOK, Row
      <3>4. \A f \in Events : stream'[f].stored = stream[f].stored
        BY <2>3 DEF Claim, TypeOK, Stored
      <3>5. MessagesMatch'
        BY <1>0, <3>1, <3>2, <3>3 DEF MessagesMatch
      <3>6. AttemptsMatch'
        BY <1>0, <3>1, <3>2, <3>3, <3>4 DEF AttemptsMatch, Busy
      <3> QED
        BY <3>5, <3>6
    <2>4. CASE Publish(r)
      <3>1. relay' = [relay EXCEPT
                        ![r] = [@ EXCEPT !.pc = "publishing", !.left = PublishTimeout]]
        BY <2>4 DEF Publish
      <3>2. /\ relay'[r].pc = "publishing"
            /\ \A q \in Relays : /\ relay'[q].lease = relay[q].lease
                                 /\ relay'[q].event = relay[q].event
                                 /\ q # r => relay'[q] = relay[q]
        BY <3>1, MovedFields
      <3>3. /\ Busy(r) /\ relay[r].lease \in LeaseIds
            /\ UNCHANGED <<rows, stream>>
        BY <2>4 DEF Publish, Busy, Holding
      <3> DEFINE sent == [event |-> relay[r].event, lease |-> relay[r].lease]
      <3>4. /\ inflight' = inflight \union {sent}
            /\ sent.event = relay[r].event /\ sent.lease = relay[r].lease
        BY <2>4 DEF Publish
      <3> HIDE DEF sent
      <3>5. \A q \in Relays : relay[q].lease = sent.lease => q = r
        BY <1>0, <3>3, <3>4 DEF LeasesDistinct
      <3>6. MessagesMatch'
        BY <3>2, <3>3, <3>4, <3>5 DEF MessagesMatch, AttemptsMatch
      <3>7. AttemptsMatch'
        BY <3>2, <3>3 DEF AttemptsMatch, Busy
      <3> QED
        BY <3>6, <3>7
    <2>5. CASE PublishFails(r)
      <3>1. /\ relay' = [relay EXCEPT ![r] = [@ EXCEPT !.pc = "failed", !.left = 0]]
            /\ relay[r].pc = "publishing"
            /\ UNCHANGED <<rows, stream, inflight>>
        BY <2>5 DEF PublishFails
      <3>2. /\ relay'[r].pc = "failed"
            /\ \A q \in Relays : /\ relay'[q].lease = relay[q].lease
                                 /\ relay'[q].event = relay[q].event
                                 /\ q # r => relay'[q] = relay[q]
        BY <3>1, MovedFields
      <3> QED
        BY <1>1, <3>1, <3>2 DEF Busy
    <2>6. CASE MarkPublished(r) \/ Reschedule(r) \/ StoreFails(r)
      <3>1. /\ relay' = [relay EXCEPT ![r] = Idle(r)]
            /\ UNCHANGED <<stream, inflight>>
        BY <2>6 DEF MarkPublished, Reschedule, StoreFails
      <3>2. \A e \in Events : rows[e].state # "absent" => rows'[e].state # "absent"
        <4>1. CASE MarkPublished(r)
          BY <4>1, <1>0 DEF MarkPublished, TypeOK, Row
        <4>2. CASE Reschedule(r)
          BY <4>2, <1>0 DEF Reschedule, TypeOK, Row
        <4>3. CASE StoreFails(r)
          BY <4>3 DEF StoreFails
        <4> QED
          BY <2>6, <4>1, <4>2, <4>3
      <3>3. /\ relay'[r].pc = "idle" /\ relay'[r].lease = NoLease
            /\ \A q \in Relays : q # r => relay'[q] = relay[q]
        BY <3>1, IdledFields
      <3> QED
        BY <1>1, <3>1, <3>2, <3>3 DEF Busy
    <2> QED
      BY <1>2, <2>1, <2>2, <2>3, <2>4, <2>5, <2>6 DEF RelayStep
  <1>3. ASSUME NEW m \in inflight, BrokerStores(m)
        PROVE  MessagesMatch' /\ AttemptsMatch'
    <2>1. /\ inflight' \subseteq inflight /\ rows' = rows
          /\ \A e \in Events : stream[e].stored => stream'[e].stored
      BY <1>3 DEF BrokerStores, TypeOK, StoredNow
    <2>2. stream'[m.event].stored
      BY <1>0, <1>3 DEF BrokerStores, TypeOK, StoredNow, WindowMeansStored
    <2>3. CASE relay' = relay
      BY <1>1, <2>1, <2>3 DEF Busy
    <2>4. ASSUME NEW r \in Relays, relay[r].pc = "publishing", relay[r].lease = m.lease,
                 relay' = [relay EXCEPT ![r] = [@ EXCEPT !.pc = "acked", !.left = 0]]
          PROVE  MessagesMatch' /\ AttemptsMatch'
      <3>1. /\ relay'[r].pc = "acked"
            /\ \A q \in Relays : /\ relay'[q].lease = relay[q].lease
                                 /\ relay'[q].event = relay[q].event
                                 /\ q # r => relay'[q] = relay[q]
        BY <2>4, MovedFields
      <3>2. relay[r].event = m.event
        BY <1>3, <2>4 DEF MessagesMatch
      <3> QED
        BY <1>1, <2>1, <2>2, <2>4, <3>1, <3>2 DEF Busy
    <2> QED
      BY <1>3, <2>3, <2>4 DEF BrokerStores
  <1>4. ASSUME NEW m \in inflight, BrokerLoses(m)
        PROVE  MessagesMatch' /\ AttemptsMatch'
    BY <1>1, <1>4 DEF BrokerLoses, Busy
  <1>5. CASE Tick
    <2>1. \A q \in Relays : /\ relay'[q].lease = relay[q].lease
                            /\ relay'[q].event = relay[q].event
                            /\ relay'[q].pc = relay[q].pc
      <3> SUFFICES ASSUME NEW q \in Relays
                   PROVE  /\ relay'[q].lease = relay[q].lease
                          /\ relay'[q].event = relay[q].event
                          /\ relay'[q].pc = relay[q].pc
        OBVIOUS
      <3>1. relay'[q] = [relay[q] EXCEPT !.left = Minus1(@), !.held = Minus1(@)]
        BY <1>5 DEF Tick
      <3>2. relay[q] \in Worker
        BY DEF TypeOK
      <3> QED
        BY <3>1, <3>2 DEF Worker
    <2>2. /\ \A e \in Events : rows'[e].state = rows[e].state
          /\ \A e \in Events : stream'[e].stored = stream[e].stored
          /\ inflight' = inflight
      BY <1>5 DEF Tick, TypeOK, Row, Stored
    <2> QED
      BY <1>1, <2>1, <2>2 DEF Busy
  <1>6. ASSUME NEW e \in Events, Commit(e) PROVE MessagesMatch' /\ AttemptsMatch'
    <2>1. /\ \A f \in Events : rows[f].state # "absent" => rows'[f].state # "absent"
          /\ UNCHANGED <<stream, inflight, relay>>
      BY <1>6 DEF Commit, TypeOK, Row
    <2> QED
      BY <1>1, <2>1 DEF Busy
  <1>7. CASE UNCHANGED vars
    BY <1>1, <1>7 DEF vars, Busy
  <1> QED
    BY <1>2, <1>3, <1>4, <1>5, <1>6, <1>7 DEF Next

LEMMA WindowNext == IInv /\ [Next]_vars => WindowMeansStored'
  <1> SUFFICES ASSUME IInv, [Next]_vars PROVE WindowMeansStored'
    OBVIOUS
  <1> USE DEF IInv
  <1>1. ASSUME stream' = stream PROVE WindowMeansStored'
    BY <1>1 DEF WindowMeansStored
  <1>2. ASSUME NEW r \in Relays, RelayStep(r) PROVE WindowMeansStored'
    <2>1. ASSUME NEW e \in Events, NEW l \in LeaseIds, Claim(r, e, l)
          PROVE  WindowMeansStored'
      BY <2>1 DEF Claim, TypeOK, Stored, WindowMeansStored
    <2> QED
      BY <1>1, <1>2, <2>1
      DEF RelayStep, Start, Stop, Poll, DrainEnds, Publish, PublishFails, MarkPublished,
          Reschedule, StoreFails
  <1>3. ASSUME NEW m \in inflight, BrokerStores(m) \/ BrokerLoses(m)
        PROVE  WindowMeansStored'
    <2>1. CASE stream' = stream
      BY <1>1, <2>1
    <2>2. CASE stream' = [stream EXCEPT ![m.event] =
                            StoredNow]
      BY <2>2 DEF TypeOK, WindowMeansStored, StoredNow
    <2> QED
      BY <1>3, <2>1, <2>2 DEF BrokerStores, BrokerLoses
  <1>4. CASE Tick
    <2> SUFFICES ASSUME NEW e \in Events, stream'[e].window > 0
                 PROVE  stream'[e].stored
      BY DEF WindowMeansStored
    <2>1. /\ stream'[e] = [stream[e] EXCEPT !.window = Minus1(@), !.spare = SpareLeft(e)]
          /\ stream[e] \in Stored
      BY <1>4 DEF Tick, TypeOK
    <2>2. stream'[e].window = Minus1(stream[e].window) /\ stream'[e].stored = stream[e].stored
      BY <2>1 DEF Stored
    <2>3. stream[e].window \in Nat
      BY <2>1, ConfigAssumption DEF Stored, ConfigValid
    <2> QED
      BY <2>2, <2>3 DEF Minus1, WindowMeansStored
  <1>5. ASSUME NEW e \in Events, Commit(e) PROVE WindowMeansStored'
    BY <1>1, <1>5 DEF Commit
  <1>6. CASE UNCHANGED vars
    BY <1>1, <1>6 DEF vars
  <1> QED
    BY <1>2, <1>3, <1>4, <1>5, <1>6 DEF Next

LEMMA IInvNext == IInv /\ [Next]_vars => IInv'
  BY TypeNext, HoldingNext, HeldAgreesNext, MatchNext, WindowNext DEF IInv

LEMMA IInvHolds == Safety => []IInv
  BY IInvInit, IInvNext, PTL DEF Safety

-----------------------------------------------------------------------------
\* The outbox's variables keep their types: in particular no row waits longer
\* than RetryCap, whatever the attempt count (relay.go retryDelay).
THEOREM OutboxTypeOK == Safety => []TypeOK
  <1>1. IInv => TypeOK
    BY DEF IInv
  <1> QED
    BY <1>1, IInvHolds, PTL

\* However many relays share the table, at most one holds an unexpired lease
\* on an event (store.go Claim, MarkPublished and Reschedule).
THEOREM OutboxOneLiveHolder == Safety => []OneLiveHolder
  <1>1. IInv => OneLiveHolder
    BY ConfigAssumption
    DEF IInv, OneLiveHolder, HeldAgrees, LeasesDistinct, Holding, TypeOK, Worker, ConfigValid
  <1> QED
    BY <1>1, IInvHolds, PTL

\* The outbox implements EventDelivery's safety: an event is published in the
\* table only when the stream holds it, and never becomes pending again.
THEOREM OutboxDelivers == Safety => DeliverySafety
  <1>1. Init => Delivery!Init
    BY DEF Init, Absent, NotStored, Delivery!Init
  <1>2. IInv /\ [Next]_vars => [Delivery!Next]_(Delivery!vars)
    <2> SUFFICES ASSUME IInv, [Next]_vars PROVE [Delivery!Next]_(Delivery!vars)
      OBVIOUS
    <2> USE DEF IInv
    <2>0. ASSUME \A e \in Events : /\ rows'[e].state = rows[e].state
                                   /\ stream'[e].stored = stream[e].stored
          PROVE  [Delivery!Next]_(Delivery!vars)
      BY <2>0 DEF Delivery!vars
    <2>1. ASSUME NEW e \in Events, Commit(e) PROVE Delivery!Next
      <3>1. /\ rows[e].state = "absent" /\ rows'[e].state = "pending"
            /\ \A f \in Events : f # e => rows'[f] = rows[f]
            /\ stream' = stream
        BY <2>1 DEF Commit, TypeOK, Row
      <3>2. Delivery!Commit(e)
        BY <3>1 DEF Delivery!Commit
      <3> QED
        BY <3>2 DEF Delivery!Next
    <2>2. ASSUME NEW r \in Relays, RelayStep(r) PROVE [Delivery!Next]_(Delivery!vars)
      <3>1. CASE Start(r) \/ Stop(r) \/ Poll(r) \/ DrainEnds(r) \/ Publish(r)
                 \/ PublishFails(r) \/ StoreFails(r)
        BY <3>1, <2>0
        DEF Start, Stop, Poll, DrainEnds, Publish, PublishFails, StoreFails
      <3>2. ASSUME NEW e \in Events, NEW l \in LeaseIds, Claim(r, e, l)
            PROVE  [Delivery!Next]_(Delivery!vars)
        <4>1. \A f \in Events : rows'[f].state = rows[f].state
          BY <3>2 DEF Claim, TypeOK, Row
        <4>2. \A f \in Events : stream'[f].stored = stream[f].stored
          BY <3>2 DEF Claim, TypeOK, Stored
        <4> QED
          BY <4>1, <4>2, <2>0
      <3>3. CASE MarkPublished(r)
        <4>1. PICK e \in Events : e = relay[r].event
          BY DEF TypeOK, Worker
        <4>2. stream[e].stored /\ stream' = stream
          BY <3>3, <4>1 DEF MarkPublished, AttemptsMatch
        <4>3. /\ rows[e].state = "pending" /\ rows'[e].state = "published"
              /\ \A f \in Events : f # e => rows'[f] = rows[f]
          BY <3>3, <4>1 DEF MarkPublished, OwnsLease, TypeOK, Row
        <4>4. Delivery!Settle(e)
          BY <4>1, <4>2, <4>3 DEF Delivery!Settle
        <4> QED
          BY <4>1, <4>4 DEF Delivery!Next
      <3>4. CASE Reschedule(r)
        <4>1. \A f \in Events : rows'[f].state = rows[f].state
          BY <3>4 DEF Reschedule, TypeOK, Row
        <4>2. stream' = stream
          BY <3>4 DEF Reschedule
        <4> QED
          BY <4>1, <4>2, <2>0
      <3> QED
        BY <2>2, <3>1, <3>2, <3>3, <3>4 DEF RelayStep
    <2>3. ASSUME NEW m \in inflight, BrokerStores(m)
          PROVE  [Delivery!Next]_(Delivery!vars)
      <3>1. m.event \in Events /\ rows[m.event].state # "absent" /\ rows' = rows
        BY <2>3 DEF BrokerStores, TypeOK, Message, MessagesMatch
      <3>2. CASE stream' = stream
        BY <3>1, <3>2, <2>0
      <3>3. CASE stream' = [stream EXCEPT ![m.event] =
                              StoredNow]
        <4>1. /\ stream'[m.event].stored
              /\ \A f \in Events : f # m.event => stream'[f] = stream[f]
          BY <3>1, <3>3 DEF TypeOK, StoredNow
        <4>2. Delivery!Deliver(m.event)
          BY <3>1, <4>1 DEF Delivery!Deliver
        <4> QED
          BY <3>1, <4>2 DEF Delivery!Next
      <3> QED
        BY <2>3, <3>2, <3>3 DEF BrokerStores
    <2>4. ASSUME NEW m \in inflight, BrokerLoses(m)
          PROVE  [Delivery!Next]_(Delivery!vars)
      BY <2>0, <2>4 DEF BrokerLoses
    <2>5. CASE Tick
      <3>1. /\ \A e \in Events : rows'[e].state = rows[e].state
            /\ \A e \in Events : stream'[e].stored = stream[e].stored
        BY <2>5 DEF Tick, TypeOK, Row, Stored
      <3> QED
        BY <2>0, <3>1
    <2>6. CASE UNCHANGED vars
      BY <2>0, <2>6 DEF vars
    <2> QED
      BY <2>1, <2>2, <2>3, <2>4, <2>5, <2>6 DEF Next
  <1> QED
    BY <1>1, <1>2, IInvHolds, PTL DEF Safety, DeliverySafety, Delivery!Safety

-----------------------------------------------------------------------------
(***************************************************************************)
(* Retries and the dedup window, for relays that are not descheduled       *)
(* between two calls.  While some of the window is to spare, the window    *)
(* outlasts it, and as long as the latest claim has stored the event also  *)
(* the lease, the delay, and whatever delay a worker that is still         *)
(* publishing may ask for on top of it.                                    *)
(***************************************************************************)
RowInside(e) ==
    LET m == stream[e]
    IN  m.spare > 0 =>
            /\ m.spare <= m.window
            /\ m.latest => /\ rows[e].leaseLeft + m.spare <= m.window
                           /\ rows[e].nextIn + m.spare <= m.window

WorkerInside(r) ==
    LET w == relay[r]
        m == stream[w.event]
    IN  m.latest /\ m.spare > 0 =>
            /\ w.pc = "claimed" => RetryCap + PublishTimeout + m.spare <= m.window
            /\ w.pc \in {"publishing", "failed"} => RetryCap + w.left + m.spare <= m.window

InsideHorizon ==
    /\ \A e \in Events : RowInside(e)
    /\ \A r \in Relays : WorkerInside(r)

\* Nothing of a row or a worker that InsideHorizon reads has moved.
RowStays(e) ==
    /\ stream'[e] = stream[e]
    /\ rows'[e].leaseLeft <= rows[e].leaseLeft /\ rows'[e].nextIn <= rows[e].nextIn

LEMMA RowKeeps ==
    ASSUME TypeOK, TypeOK', NEW e \in Events, RowInside(e), RowStays(e)
    PROVE  RowInside(e)'
  <1>0. /\ rows[e].leaseLeft \in Nat /\ rows[e].nextIn \in Nat
        /\ stream[e].window \in Nat /\ stream[e].spare \in Nat
    BY ConfigAssumption DEF TypeOK, Row, Stored, ConfigValid
  <1>1. PICK l \in Nat, n \in Nat, w \in Nat, s \in Nat :
           /\ l = rows[e].leaseLeft /\ n = rows[e].nextIn
           /\ w = stream[e].window /\ s = stream[e].spare
    BY <1>0
  <1>2. PICK ll \in Nat, nn \in Nat : ll = rows'[e].leaseLeft /\ nn = rows'[e].nextIn
    BY ConfigAssumption DEF TypeOK, Row, ConfigValid
  <1> QED
    BY <1>1, <1>2 DEF RowInside, RowStays

\* The steps of the workers and of the domain transactions.
LEMMA StepsInside ==
    ASSUME TypeOK, TypeOK', InsideHorizon, NEW r \in Relays, RelayStep(r)
    PROVE  InsideHorizon'
  <1>0. /\ relay[r] \in Worker /\ relay[r].event \in Events
        /\ \A q \in Relays : relay[q].event \in Events /\ WorkerInside(q)
        /\ \A e \in Events : RowInside(e) /\ rows[e] \in Row /\ stream[e] \in Stored
    BY DEF TypeOK, Worker, InsideHorizon
  \* It is enough to look at the worker, when the stream does not change.
  <1>1. ASSUME stream' = stream, WorkerInside(r)', \A q \in Relays : q # r => relay'[q] = relay[q]
        PROVE  \A q \in Relays : WorkerInside(q)'
    BY <1>0, <1>1 DEF WorkerInside
  <1>2. ASSUME stream' = stream, rows' = rows
        PROVE  \A e \in Events : RowInside(e)'
    BY <1>0, <1>2 DEF RowInside
  <1>3. CASE Start(r) \/ Stop(r) \/ Poll(r) \/ DrainEnds(r) \/ StoreFails(r)
    <2>1. /\ relay'[r].pc \in {"idle", "stopped"} /\ stream' = stream /\ rows' = rows
          /\ \A q \in Relays : q # r => relay'[q] = relay[q]
      <3>1. CASE Start(r) \/ Stop(r)
        <4>1. PICK w : w = [Stopped EXCEPT !.pc = "idle", !.budget = MaxPerPoll]
          OBVIOUS
        <4>2. w.pc = "idle" /\ Stopped.pc = "stopped"
          BY <4>1 DEF Stopped
        <4>3. relay' = [relay EXCEPT ![r] = w] \/ relay' = [relay EXCEPT ![r] = Stopped]
          BY <3>1, <4>1 DEF Start, Stop
        <4>4. /\ relay'[r].pc \in {"idle", "stopped"}
              /\ \A q \in Relays : q # r => relay'[q] = relay[q]
          BY <4>2, <4>3 DEF TypeOK
        <4> QED
          BY <3>1, <4>4 DEF Start, Stop
      <3>2. CASE Poll(r) \/ DrainEnds(r)
        BY <1>0, <3>2 DEF Poll, DrainEnds, TypeOK, Worker
      <3>3. CASE StoreFails(r)
        BY <3>3, IdledFields DEF StoreFails
      <3> QED
        BY <1>3, <3>1, <3>2, <3>3
    <2>2. WorkerInside(r)'
      BY <2>1 DEF WorkerInside
    <2> QED
      BY <1>1, <1>2, <2>1, <2>2 DEF InsideHorizon
  <1>4. ASSUME NEW e \in Events, NEW l \in LeaseIds, Claim(r, e, l)
        PROVE  InsideHorizon'
    <2>1. /\ ~stream'[e].latest /\ relay'[r].event = e
          /\ stream'[e].spare = stream[e].spare /\ stream'[e].window = stream[e].window
          /\ \A f \in Events : f # e => stream'[f] = stream[f] /\ rows'[f] = rows[f]
          /\ \A q \in Relays : q # r => relay'[q] = relay[q]
      BY <1>0, <1>4 DEF Claim, TypeOK, Stored
    <2>2. \A f \in Events : RowInside(f)'
      BY <1>0, <2>1 DEF RowInside
    <2>3. \A q \in Relays : WorkerInside(q)'
      <3>1. WorkerInside(r)'
        BY <2>1 DEF WorkerInside
      <3>2. ASSUME NEW q \in Relays, q # r PROVE WorkerInside(q)'
        <4>1. relay'[q] = relay[q] /\ relay[q].event \in Events /\ WorkerInside(q)
          BY <1>0, <2>1, <3>2
        <4>2. CASE relay[q].event = e
          BY <2>1, <4>1, <4>2 DEF WorkerInside
        <4>3. CASE relay[q].event # e
          BY <2>1, <4>1, <4>3 DEF WorkerInside
        <4> QED
          BY <4>2, <4>3
      <3> QED
        BY <3>1, <3>2
    <2> QED
      BY <2>2, <2>3 DEF InsideHorizon
  <1>5. CASE Publish(r) \/ PublishFails(r)
    <2>1. stream' = stream /\ rows' = rows
      BY <1>5 DEF Publish, PublishFails
    <2>2. \/ /\ relay[r].pc = "claimed" /\ relay'[r].pc = "publishing"
             /\ relay'[r].left = PublishTimeout
          \/ /\ relay[r].pc = "publishing" /\ relay'[r].pc = "failed"
             /\ relay'[r].left = 0
      <3>1. CASE Publish(r)
        <4>1. PICK w : w = [relay[r] EXCEPT !.pc = "publishing", !.left = PublishTimeout]
          OBVIOUS
        <4>2. w.pc = "publishing" /\ w.left = PublishTimeout
          BY <1>0, <4>1 DEF Worker
        <4>3. relay' = [relay EXCEPT ![r] = w] /\ relay[r].pc = "claimed"
          BY <3>1, <4>1 DEF Publish
        <4> QED
          BY <4>2, <4>3 DEF TypeOK
      <3>2. CASE PublishFails(r)
        <4>1. PICK w : w = [relay[r] EXCEPT !.pc = "failed", !.left = 0]
          OBVIOUS
        <4>2. w.pc = "failed" /\ w.left = 0
          BY <1>0, <4>1 DEF Worker
        <4>3. relay' = [relay EXCEPT ![r] = w] /\ relay[r].pc = "publishing"
          BY <3>2, <4>1 DEF PublishFails
        <4> QED
          BY <4>2, <4>3 DEF TypeOK
      <3> QED
        BY <1>5, <3>1, <3>2
    <2>3. /\ relay'[r].event = relay[r].event
          /\ \A q \in Relays : q # r => relay'[q] = relay[q]
      <3>1. PICK pc, n : relay' = [relay EXCEPT ![r] = [@ EXCEPT !.pc = pc, !.left = n]]
        BY <1>5 DEF Publish, PublishFails
      <3> QED
        BY <3>1, MovedFields
    <2>4. WorkerInside(r)'
      <3>1. PICK n \in Nat, w \in Nat, cap \in Nat, p \in Nat, s \in Nat :
               /\ n = relay[r].left /\ w = stream[relay[r].event].window
               /\ cap = RetryCap /\ p = PublishTimeout /\ s = stream[relay[r].event].spare
        BY <1>0, ConfigAssumption DEF Worker, Stored, ConfigValid
      <3> QED
        BY <1>0, <2>1, <2>2, <2>3, <3>1 DEF WorkerInside
    <2> QED
      BY <1>1, <1>2, <2>1, <2>3, <2>4 DEF InsideHorizon
  <1>6. CASE MarkPublished(r)
    <2>1. PICK e \in Events : e = relay[r].event
      BY <1>0
    <2>2. PICK x : x = [rows[e] EXCEPT !.state = "published", !.lease = NoLease, !.leaseLeft = 0]
      OBVIOUS
    <2>3. x.leaseLeft = 0 /\ x.nextIn = rows[e].nextIn
      BY <1>0, <2>2 DEF Row
    <2>4. rows' = [rows EXCEPT ![e] = x] /\ stream' = stream /\ relay' = [relay EXCEPT ![r] = Idle(r)]
      BY <1>6, <2>1, <2>2 DEF MarkPublished
    <2>5. rows'[e] = x /\ \A f \in Events : f # e => rows'[f] = rows[f]
      BY <2>4 DEF TypeOK
    <2>6. /\ rows[e].leaseLeft \in Nat /\ rows[e].nextIn \in Nat
          /\ \A f \in Events : rows[f].leaseLeft \in Nat /\ rows[f].nextIn \in Nat
      BY <1>0, ConfigAssumption DEF Row, ConfigValid
    <2>7. \A f \in Events : RowInside(f)'
      BY <1>0, <2>3, <2>4, <2>5, <2>6, RowKeeps DEF RowStays
    <2>8. WorkerInside(r)' /\ \A q \in Relays : q # r => relay'[q] = relay[q]
      BY <2>4, IdledFields DEF WorkerInside
    <2> QED
      BY <1>1, <2>4, <2>7, <2>8 DEF InsideHorizon
  <1>7. CASE Reschedule(r)
    <2>1. PICK e \in Events, d \in 0..RetryCap :
             e = relay[r].event /\ d = retryDelay(relay[r].attempt)
      BY <1>0, RetryDelayBounded
    <2>2. PICK x : x = [rows[e] EXCEPT !.nextIn = d, !.lease = NoLease, !.leaseLeft = 0]
      OBVIOUS
    <2>3. x.leaseLeft = 0 /\ x.nextIn = d
      BY <1>0, <2>2 DEF Row
    <2>4. /\ rows' = [rows EXCEPT ![e] = x] /\ stream' = stream
          /\ relay' = [relay EXCEPT ![r] = Idle(r)] /\ relay[r].pc = "failed"
      BY <1>7, <2>1, <2>2 DEF Reschedule
    <2>5. rows'[e] = x /\ \A f \in Events : f # e => rows'[f] = rows[f]
      BY <2>4 DEF TypeOK
    <2>6. RowInside(e)'
      <3>1. PICK n \in Nat, w \in Nat, cap \in Nat, s \in Nat :
               /\ n = relay[r].left /\ cap = RetryCap
               /\ w = stream[e].window /\ s = stream[e].spare
        BY <1>0, ConfigAssumption DEF Worker, Stored, ConfigValid
      <3>2. /\ s > 0 => s <= w
            /\ stream[e].latest /\ s > 0 => cap + n + s <= w
        BY <1>0, <2>1, <2>4, <3>1 DEF WorkerInside, RowInside
      <3> QED
        BY <2>1, <2>3, <2>4, <2>5, <3>1, <3>2 DEF RowInside
    <2>7. \A f \in Events : f # e => RowInside(f)'
      BY <1>0, <2>4, <2>5 DEF RowInside
    <2>8. WorkerInside(r)' /\ \A q \in Relays : q # r => relay'[q] = relay[q]
      BY <2>4, IdledFields DEF WorkerInside
    <2> QED
      BY <1>1, <2>4, <2>6, <2>7, <2>8 DEF InsideHorizon
  <1> QED
    BY <1>3, <1>4, <1>5, <1>6, <1>7 DEF RelayStep

\* A message that is stored opens a new window, the longest there is.
LEMMA StoreInside ==
    ASSUME TypeOK, TypeOK', InsideHorizon, NEW m \in inflight, BrokerStores(m)
    PROVE  InsideHorizon'
  <1>0. /\ m.event \in Events /\ rows' = rows
        /\ \A q \in Relays : relay[q].event \in Events /\ WorkerInside(q)
        /\ \A e \in Events : RowInside(e)
    BY DEF TypeOK, Worker, Message, InsideHorizon, BrokerStores
  <1>1. \A q \in Relays :
           /\ relay'[q].event = relay[q].event
           /\ relay'[q].pc \in {"claimed", "publishing", "failed"} => relay'[q] = relay[q]
    <2>1. CASE relay' = relay
      BY <2>1
    <2>2. ASSUME NEW r \in Relays,
                 relay' = [relay EXCEPT ![r] = [@ EXCEPT !.pc = "acked", !.left = 0]]
          PROVE  \A q \in Relays :
                    /\ relay'[q].event = relay[q].event
                    /\ relay'[q].pc \in {"claimed", "publishing", "failed"} => relay'[q] = relay[q]
      <3>1. /\ relay'[r].pc = "acked"
            /\ \A q \in Relays : relay'[q].event = relay[q].event /\ (q # r => relay'[q] = relay[q])
        BY <2>2, MovedFields
      <3> QED
        BY <3>1
    <2> QED
      BY <2>1, <2>2 DEF BrokerStores
  <1>2. \A e \in Events : \/ stream'[e] = stream[e]
                          \/ stream'[e] = StoredNow
    BY <1>0 DEF BrokerStores, TypeOK
  <1>3. PICK d \in Nat, p \in Nat, cap \in Nat, l \in Nat, s \in Nat :
           /\ d = DedupWindow /\ p = PublishTimeout /\ cap = RetryCap
           /\ l = LeaseDuration /\ s = Spare
           /\ s + p + cap <= d /\ s + l <= d
    BY SpareFits, ConfigAssumption DEF ConfigValid
  <1>4. \A e \in Events : RowInside(e)'
    <2>1. SUFFICES ASSUME NEW e \in Events
                   PROVE  RowInside(e)'
      OBVIOUS
    <2>2. CASE stream'[e] = stream[e]
      BY <1>0, <2>2 DEF RowInside
    <2>3. CASE stream'[e] = StoredNow
      <3>1. PICK held \in 0..l, n \in 0..cap :
               held = rows[e].leaseLeft /\ n = rows[e].nextIn
        BY <1>3 DEF TypeOK, Row
      <3>2. held + s <= d /\ n + s <= d /\ s <= d
        BY <1>3
      <3> QED
        BY <1>0, <1>3, <2>3, <3>1, <3>2 DEF RowInside, StoredNow
    <2> QED
      BY <1>2, <2>2, <2>3
  <1>5. \A q \in Relays : WorkerInside(q)'
    <2>1. SUFFICES ASSUME NEW q \in Relays, relay'[q].pc \in {"claimed", "publishing", "failed"}
                   PROVE  WorkerInside(q)'
      BY DEF WorkerInside
    <2>2. PICK e \in Events, w \in Worker : e = w.event /\ w = relay[q] /\ w = relay'[q]
      BY <1>0, <1>1, <2>1 DEF TypeOK
    <2>3. CASE stream'[e] = stream[e]
      BY <1>0, <2>2, <2>3 DEF WorkerInside
    <2>4. CASE stream'[e] = StoredNow
      <3>1. PICK n \in 0..p : n = w.left
        BY <1>3, <2>2 DEF Worker
      <3>2. cap + n + s <= d /\ cap + p + s <= d
        BY <1>3
      <3> QED
        BY <1>3, <2>2, <2>4, <3>1, <3>2 DEF WorkerInside, StoredNow
    <2> QED
      BY <1>2, <2>2, <2>3, <2>4
  <1> QED
    BY <1>4, <1>5 DEF InsideHorizon

\* Time passes for the window and for every timer at once.
LEMMA TickInside ==
    ASSUME ~Pauses, TypeOK, InsideHorizon, Tick
    PROVE  InsideHorizon'
  <1>1. ASSUME NEW e \in Events
        PROVE  /\ stream'[e].window = Minus1(stream[e].window)
               /\ stream'[e].latest = stream[e].latest
               /\ stream'[e].spare = SpareLeft(e)
               /\ rows'[e].leaseLeft = Minus1(rows[e].leaseLeft)
               /\ rows'[e].nextIn = Minus1(rows[e].nextIn)
    <2>1. /\ stream'[e] = [stream[e] EXCEPT !.window = Minus1(@), !.spare = SpareLeft(e)]
          /\ rows'[e] = [rows[e] EXCEPT !.leaseLeft = Minus1(@), !.nextIn = Minus1(@)]
      BY DEF Tick
    <2>2. stream[e] \in Stored /\ rows[e] \in Row
      BY DEF TypeOK
    <2> QED
      BY <2>1, <2>2 DEF Stored, Row
  <1>2. \A e \in Events : RowInside(e)'
    <2>1. SUFFICES ASSUME NEW e \in Events
                   PROVE  RowInside(e)'
      OBVIOUS
    <2>1a. /\ rows[e].leaseLeft \in Nat /\ rows[e].nextIn \in Nat
           /\ stream[e].window \in Nat /\ stream[e].spare \in Nat
      BY ConfigAssumption DEF TypeOK, Row, Stored, ConfigValid
    <2>1b. PICK l \in Nat, n \in Nat, w \in Nat, s \in Nat :
              /\ l = rows[e].leaseLeft /\ n = rows[e].nextIn
              /\ w = stream[e].window /\ s = stream[e].spare
      BY <2>1a
    <2>2. PICK t \in Nat :
             t = IF stream[e].latest /\ (l > 0 \/ n > 0) THEN s ELSE Minus1(s)
      BY DEF Minus1
    <2>3. s > 0 => s <= w /\ (stream[e].latest => l + s <= w /\ n + s <= w)
      BY <2>1b DEF InsideHorizon, RowInside
    <2>4. t > 0 => /\ t <= Minus1(w)
                   /\ stream[e].latest => Minus1(l) + t <= Minus1(w) /\ Minus1(n) + t <= Minus1(w)
      BY <2>2, <2>3 DEF Minus1
    <2>5. SpareLeft(e) = t
      BY <2>1b, <2>2 DEF SpareLeft
    <2> QED
      BY <1>1, <2>1b, <2>2, <2>4, <2>5 DEF RowInside
  <1>3. \A q \in Relays : WorkerInside(q)'
    <2>1. SUFFICES ASSUME NEW q \in Relays
                   PROVE  WorkerInside(q)'
      OBVIOUS
    <2>2. relay[q] \in Worker /\ relay[q].event \in Events
      BY DEF TypeOK, Worker
    <2>3. relay'[q] = [relay[q] EXCEPT !.left = Minus1(@), !.held = Minus1(@)]
      BY DEF Tick
    <2>4. /\ relay'[q].pc = relay[q].pc /\ relay'[q].event = relay[q].event
          /\ relay'[q].left = Minus1(relay[q].left)
      BY <2>2, <2>3 DEF Worker
    <2>5. /\ relay[q].pc \notin {"claimed", "acked", "failed"}
          /\ relay[q].pc = "publishing" => relay[q].left > 0
      BY DEF Tick
    <2>6a. /\ relay[q].left \in Nat /\ RetryCap \in Nat
           /\ stream[relay[q].event].window \in Nat /\ stream[relay[q].event].spare \in Nat
      BY <2>2, ConfigAssumption DEF TypeOK, Worker, Stored, ConfigValid
    <2>6b. PICK n \in Nat, w \in Nat, cap \in Nat, s \in Nat :
              /\ n = relay[q].left /\ cap = RetryCap
              /\ w = stream[relay[q].event].window /\ s = stream[relay[q].event].spare
      BY <2>6a
    <2>6. PICK t \in Nat : t = SpareLeft(relay[q].event) /\ t <= s
      BY <2>6b DEF SpareLeft, Minus1
    <2>7. relay[q].pc = "publishing" /\ stream[relay[q].event].latest /\ s > 0
             => cap + n + s <= w /\ n > 0
      BY <2>5, <2>6b DEF InsideHorizon, WorkerInside
    <2>8. relay[q].pc = "publishing" /\ stream[relay[q].event].latest /\ t > 0
             => cap + Minus1(n) + t <= Minus1(w)
      BY <2>6, <2>7 DEF Minus1
    <2> QED
      BY <1>1, <2>2, <2>4, <2>5, <2>6b, <2>6, <2>8 DEF WorkerInside
  <1> QED
    BY <1>2, <1>3 DEF InsideHorizon

LEMMA InsideNext ==
    ASSUME ~Pauses, IInv, InsideHorizon, [Next]_vars
    PROVE  InsideHorizon'
  <1>0. TypeOK /\ TypeOK'
    BY TypeNext DEF IInv
  <1>1. ASSUME NEW e \in Events, Commit(e) PROVE InsideHorizon'
    <2>1. /\ stream' = stream /\ relay' = relay
          /\ \A f \in Events : /\ rows'[f].leaseLeft = rows[f].leaseLeft
                               /\ rows'[f].nextIn = rows[f].nextIn
      BY <1>0, <1>1 DEF Commit, TypeOK, Row
    <2> QED
      BY <2>1 DEF InsideHorizon, RowInside, WorkerInside
  <1>2. ASSUME NEW m \in inflight, BrokerLoses(m) PROVE InsideHorizon'
    BY <1>2 DEF BrokerLoses, InsideHorizon, RowInside, WorkerInside
  <1>3. CASE UNCHANGED vars
    BY <1>3 DEF vars, InsideHorizon, RowInside, WorkerInside
  <1> QED
    BY <1>0, <1>1, <1>2, <1>3, StepsInside, StoreInside, TickInside DEF Next

\* A message that is sent again while some of the window is to spare is dropped
\* by the stream: the timers of the attempt that stored it do not outlast the
\* window, and a second copy needs Spare more ticks (relay.go:200, Config.valid).
THEOREM OutboxSecondCopyIsLate == ~Pauses /\ Safety => SecondCopyIsLate
  <1>1. Init => InsideHorizon
    BY DEF Init, InsideHorizon, RowInside, WorkerInside, Stopped, NotStored
  <1>2. ~Pauses /\ IInv /\ InsideHorizon /\ [Next]_vars => InsideHorizon'
    BY InsideNext
  <1>3. ASSUME IInv, InsideHorizon, [Next]_vars, NEW e \in Events,
               stream[e].stored, stream'[e].window > stream[e].window
        PROVE  stream[e].spare = 0
    <2>1. PICK w \in Nat, s \in Nat : w = stream[e].window /\ s = stream[e].spare
      BY <1>3, ConfigAssumption DEF IInv, TypeOK, Stored, ConfigValid
    <2>2. CASE stream'[e].window = stream[e].window
      BY <1>3, <2>1, <2>2
    <2>3. CASE Tick
      <3>1. stream'[e] = [stream[e] EXCEPT !.window = Minus1(@), !.spare = SpareLeft(e)]
        BY <2>3 DEF Tick
      <3>2. stream'[e].window = Minus1(w)
        BY <1>3, <2>1, <3>1 DEF IInv, TypeOK, Stored
      <3> QED
        BY <1>3, <2>1, <3>2 DEF Minus1
    <2>4. ASSUME NEW m \in inflight, BrokerStores(m)
          PROVE  stream[e].spare = 0
      <3>1. stream'[e] # stream[e] => m.event = e /\ ~(stream[e].window > 0)
        BY <1>3, <2>4 DEF BrokerStores, IInv, TypeOK, Message
      <3>2. ~(w > 0)
        BY <1>3, <2>1, <2>2, <3>1
      <3>3. s > 0 => s <= w
        BY <1>3, <2>1 DEF InsideHorizon, RowInside
      <3> QED
        BY <2>1, <3>2, <3>3
    <2>5. ASSUME NEW r \in Relays, NEW f \in Events, NEW l \in LeaseIds, Claim(r, f, l)
          PROVE  stream'[e].window = stream[e].window
      BY <1>3, <2>5 DEF Claim, IInv, TypeOK, Stored
    <2>6. ASSUME NEW r \in Relays, RelayStep(r)
          PROVE  stream'[e].window = stream[e].window
      BY <2>5, <2>6
      DEF RelayStep, Start, Stop, Poll, DrainEnds, Publish, PublishFails, MarkPublished,
          Reschedule, StoreFails
    <2>7. ASSUME NEW f \in Events, Commit(f) PROVE stream'[e].window = stream[e].window
      BY <2>7 DEF Commit
    <2>8. ASSUME NEW m \in inflight, BrokerLoses(m)
          PROVE  stream'[e].window = stream[e].window
      BY <2>8 DEF BrokerLoses
    <2>9. CASE UNCHANGED vars
      BY <2>2, <2>9 DEF vars
    <2> QED
      BY <1>3, <2>2, <2>3, <2>4, <2>6, <2>7, <2>8, <2>9 DEF Next
  <1>4. SUFFICES ASSUME ~Pauses
                 PROVE  Safety => SecondCopyIsLate
    OBVIOUS
  <1>5. IInv /\ InsideHorizon /\ [Next]_vars => IInv' /\ InsideHorizon'
    BY <1>2, <1>4, IInvNext
  <1>6. IInv /\ InsideHorizon /\ [Next]_vars
           => [\A e \in Events : stream[e].stored /\ stream'[e].window > stream[e].window
                                  => stream[e].spare = 0]_vars
    BY <1>3
  <1> QED
    BY <1>1, <1>5, <1>6, IInvInit, PTL DEF Safety, SecondCopyIsLate

=============================================================================
