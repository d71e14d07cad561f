---------------------------- MODULE AuthnProofs ----------------------------
(***************************************************************************)
(* Theorems of SessionIssuer, of LoginFlow and of SigningKeys, and of the  *)
(* instances of MCAuthn, whose types are those of the three.               *)
(*                                                                         *)
(* SessionIssuer, for any number of concurrent calls and any lifetimes:    *)
(* types, the bound of every extension, the bound of every cached          *)
(* snapshot, and that no lookup resolves a session that was revoked before *)
(* it started.                                                             *)
(*                                                                         *)
(* LoginFlow, for any subjects, transitions, concurrent calls and number   *)
(* of attempts: its types, that a session is the session of the account    *)
(* that owns the identity proven for it, and that the proofs that fail on  *)
(* one transition stay bounded.                                            *)
(*                                                                         *)
(* SigningKeys, for any replicas, concurrent calls and checks: its types,  *)
(* that a revoked key stays out of the memory of the replica that revoked  *)
(* it, and that a rotation reaches the gateway.                            *)
(***************************************************************************)
EXTENDS MCAuthn, FiniteSetTheorems, WellFoundedInduction, TLAPS

-----------------------------------------------------------------------------
(* SessionIssuer.                                                          *)

-----------------------------------------------------------------------------
(***************************************************************************)
(* The inductive invariant.  Nobody works on a session that is not there   *)
(* yet; a lookup that came too late is still before its database query; no *)
(* call carries an instant later than the row's absolute expiry to the     *)
(* place where the row is extended.                                        *)
(***************************************************************************)
CallOK(w, r) ==
    /\ r.state = "absent" => w.pc = "idle"
    /\ w.late => r.state = "revoked" /\ w.pc \in {"get", "getId", "cleanup", "db"}
    /\ w.pc \in {"setId", "setSel", "answer", "update"} => w.absolute <= r.absolute
    /\ w.pc = "update" => w.expires <= r.absolute

IInv ==
    /\ TypeOK
    /\ \A q \in Requests : CallOK(req[q], row)
    /\ ExpiryWithinAbsolute /\ SnapshotWithinSession

-----------------------------------------------------------------------------
\* The smaller of two numbers is one of them and no larger than either.
LEMMA LeastBounds ==
    ASSUME NEW a \in Nat, NEW b \in Nat
    PROVE  Least(a, b) \in {a, b} /\ Least(a, b) <= a /\ Least(a, b) <= b
  BY DEF Least

\* A tick keeps an instant in its range and two instants in their order.
LEMMA Minus1Range ==
    ASSUME NEW m \in Nat, NEW n \in 0..m
    PROVE  Minus1(n) \in 0..m
  BY DEF Minus1

LEMMA Minus1Monotone ==
    ASSUME NEW a \in Nat, NEW b \in Nat, a <= b
    PROVE  Minus1(a) <= Minus1(b)
  BY DEF Minus1

\* A call that has ended is a call that satisfies the invariant.
LEMMA IdleIsCall == Idle \in Call
  BY LifetimeAssumption DEF Idle, Call

LEMMA IdleOK ==
    ASSUME NEW r
    PROVE  CallOK(Idle, r)
  BY DEF CallOK, Idle

\* No key is a snapshot that is gone no later than what it describes.
LEMMA NoSnapshotOK == NoSnapshot \in Snapshot /\ NoSnapshot.ttl <= NoSnapshot.expires
  BY LifetimeAssumption DEF NoSnapshot, Snapshot

LEMMA IInvInit == Init => IInv
  <1> SUFFICES ASSUME Init PROVE IInv
    OBVIOUS
  <1>1. TypeOK
    BY IdleIsCall, LifetimeAssumption DEF Init, TypeOK, Session, Snapshot, NoSnapshot
  <1>2. \A q \in Requests : CallOK(req[q], row)
    BY IdleOK DEF Init
  <1> QED
    BY <1>1, <1>2 DEF Init, IInv, ExpiryWithinAbsolute, SnapshotWithinSession, NoSnapshot

-----------------------------------------------------------------------------
(***************************************************************************)
(* What a step of a call does to the call itself.                          *)
(***************************************************************************)

\* The fields of a call whose pc is set, and of one that is set otherwise.
LEMMA MovedCall ==
    ASSUME NEW w \in Call,
           NEW pc \in {"idle", "get", "getId", "cleanup", "db", "answer", "update",
                       "setId", "setSel", "revoke", "delete", "deleteId", "deleteSel"}
    PROVE  /\ [w EXCEPT !.pc = pc] \in Call
           /\ [w EXCEPT !.pc = pc].pc = pc
           /\ [w EXCEPT !.pc = pc].late = w.late
           /\ [w EXCEPT !.pc = pc].expires = w.expires
           /\ [w EXCEPT !.pc = pc].absolute = w.absolute
  BY DEF Call

\* The fields of a call that revokes, creates or looks up when it starts.
LEMMA RevokingCall ==
    ASSUME NEW w \in Call
    PROVE  LET v == [w EXCEPT !.pc = "revoke", !.op = "revoke"] IN
           v \in Call /\ v.pc = "revoke" /\ v.late = w.late
  BY DEF Call

LEMMA CreatingCall ==
    ASSUME NEW w \in Call, NEW expires \in 0..SessionAbsoluteLifetime
    PROVE  LET v == [w EXCEPT !.pc = "setId", !.op = "create", !.expires = expires] IN
           v \in Call /\ v.pc = "setId" /\ v.late = w.late /\ v.absolute = w.absolute
  BY DEF Call

LEMMA LookingCall ==
    ASSUME NEW w \in Call, NEW op \in {"resolve", "refresh"}, NEW late \in BOOLEAN
    PROVE  LET v == [w EXCEPT !.pc = "get", !.op = op, !.late = late] IN
           v \in Call /\ v.pc = "get" /\ v.late = late
  BY DEF Call

\* A call that starts is not late and has read nothing.
LEMMA IdleFields == Idle.late = FALSE /\ Idle.absolute = 0
  BY DEF Idle

\* A call that goes on to a statement where nothing is asked of what it read
\* keeps the invariant; so does one between the statements that keep it.
LEMMA Elsewhere ==
    ASSUME NEW w \in Call, CallOK(w, row), row.state # "absent",
           NEW pc \in {"getId", "cleanup", "db", "delete", "deleteId", "deleteSel", "answer", "setSel"},
           w.late => pc \in {"getId", "cleanup", "db"},
           pc \in {"answer", "setSel"} => w.pc \in {"setId", "setSel", "answer"}
    PROVE  [w EXCEPT !.pc = pc] \in Call /\ CallOK([w EXCEPT !.pc = pc], row)
  <1> DEFINE v == [w EXCEPT !.pc = pc]
  <1>1. v \in Call /\ v.pc = pc /\ v.late = w.late /\ v.absolute = w.absolute
    BY DEF Call
  <1> HIDE DEF v
  <1>2. CallOK(v, row)
    BY <1>1 DEF CallOK
  <1> QED
    BY <1>1, <1>2 DEF v

\* Every step of q replaces q's record by one that satisfies the invariant
\* with the row as it is after the step.
LEMMA StepCall ==
    ASSUME IInv, NEW q \in Requests, Step(q)
    PROVE  \E w \in Call : req' = [req EXCEPT ![q] = w] /\ CallOK(w, row')
  <1> DEFINE Goal == \E w \in Call : req' = [req EXCEPT ![q] = w] /\ CallOK(w, row')
  <1>0. req[q] \in Call /\ CallOK(req[q], row) /\ row \in Session
    BY DEF IInv, TypeOK
  <1>1. ASSUME Return(q) PROVE Goal
    BY <1>1, IdleIsCall, IdleOK DEF Return
  <1>2. ASSUME AfterSet(q), req[q].pc \in {"setId", "setSel"}, row' = row PROVE Goal
    <2>1. CASE Return(q)
      BY <1>1, <2>1
    <2>2. CASE Goto(q, "answer")
      <3>1. row.state # "absent" /\ ~req[q].late
        BY <1>0, <1>2 DEF CallOK
      <3>2. [req[q] EXCEPT !.pc = "answer"] \in Call /\ CallOK([req[q] EXCEPT !.pc = "answer"], row)
        BY <1>0, <1>2, <3>1, Elsewhere
      <3> QED
        BY <1>2, <2>2, <3>2 DEF Goto
    <2> QED
      BY <1>2, <2>1, <2>2 DEF AfterSet
  <1>3. CASE CreateSession(q)
    <2> DEFINE w == [Idle EXCEPT !.pc = "setId", !.op = "create",
                                 !.expires = defaultSessionLifetime]
    <2>0. defaultSessionLifetime \in 0..SessionAbsoluteLifetime
      BY LifetimeAssumption
    <2>1. w \in Call /\ w.pc = "setId" /\ w.late = FALSE /\ w.absolute = 0
      BY <2>0, CreatingCall, IdleIsCall, IdleFields
    <2> HIDE DEF w
    <2>2. row'.state = "active" /\ row'.absolute = SessionAbsoluteLifetime
      BY <1>3 DEF CreateSession
    <2>3. CallOK(w, row')
      BY <2>1, <2>2, LifetimeAssumption DEF CallOK
    <2> QED
      BY <1>3, <2>1, <2>3 DEF CreateSession, w
  <1>4. ASSUME NEW op \in {"resolve", "refresh"}, StartLookup(q, op) PROVE Goal
    <2> DEFINE late == row.state = "revoked"
               w    == [Idle EXCEPT !.pc = "get", !.op = op, !.late = late]
    <2>0. late \in BOOLEAN
      OBVIOUS
    <2> HIDE DEF late
    <2>1. w \in Call /\ w.pc = "get" /\ w.late = late
      BY <2>0, LookingCall, IdleIsCall
    <2> HIDE DEF w
    <2>2. row' = row /\ row.state # "absent"
      BY <1>4 DEF StartLookup, TokenIssued
    <2>3. CallOK(w, row')
      BY <2>1, <2>2 DEF CallOK, late
    <2> QED
      BY <1>4, <2>1, <2>3 DEF StartLookup, w, late
  <1>5. CASE GetSelector(q)
    <2>1. row' = row /\ row.state # "absent"
      BY <1>0, <1>5 DEF GetSelector, At, CallOK
    <2>2. [req[q] EXCEPT !.pc = "getId"] \in Call /\ CallOK([req[q] EXCEPT !.pc = "getId"], row)
      BY <1>0, <2>1, Elsewhere
    <2> QED
      BY <1>1, <1>5, <2>1, <2>2 DEF GetSelector, Goto
  <1>6. CASE GetId(q)
    <2>1. row' = row /\ row.state # "absent"
      BY <1>0, <1>6 DEF GetId, At, CallOK
    <2>2. /\ [req[q] EXCEPT !.pc = "db"] \in Call /\ CallOK([req[q] EXCEPT !.pc = "db"], row)
          /\ [req[q] EXCEPT !.pc = "cleanup"] \in Call
          /\ CallOK([req[q] EXCEPT !.pc = "cleanup"], row)
      BY <1>0, <2>1, Elsewhere
    <2>3. \/ req' = [req EXCEPT ![q] = [req[q] EXCEPT !.pc = "db"]]
          \/ req' = [req EXCEPT ![q] = [req[q] EXCEPT !.pc = "cleanup"]]
      BY <1>6 DEF GetId, Goto
    <2> QED
      BY <2>1, <2>2, <2>3
  <1>7. CASE ReadDB(q)
    <2>1. row' = row
      BY <1>7 DEF ReadDB
    <2>2. CASE row.state = "active"
      <3> DEFINE w == [req[q] EXCEPT !.pc = "setId", !.expires = row.expires,
                                     !.absolute = row.absolute]
      <3>1. /\ w \in Call /\ w.pc = "setId" /\ w.late = req[q].late
            /\ w.absolute = row.absolute
        BY <1>0 DEF Call, Session
      <3>2. ~w.late
        BY <1>0, <2>2, <3>1 DEF CallOK
      <3>3. w.absolute <= row.absolute
        BY <1>0, <3>1, LifetimeAssumption DEF Session
      <3>4. CallOK(w, row)
        BY <2>2, <3>1, <3>2, <3>3 DEF CallOK
      <3> QED
        BY <1>7, <2>1, <2>2, <3>1, <3>4 DEF ReadDB
    <2>3. CASE row.state # "active"
      BY <1>1, <1>7, <2>3 DEF ReadDB
    <2> QED
      BY <2>2, <2>3
  <1>8. CASE SetId(q)
    <2> DEFINE ttl == sessionCacheTTL(req[q].expires)
               w   == [req[q] EXCEPT !.pc = "setSel", !.ttl = ttl]
    <2>1. row' = row /\ req[q].pc = "setId"
      BY <1>8 DEF SetId, At
    <2>2. CASE ttl = 0
      BY <1>2, <1>8, <2>1, <2>2 DEF SetId
    <2>3. CASE ttl # 0
      <3>1. req[q].expires \in Nat /\ MaxSessionCacheTTL \in Nat
        BY <1>0, LifetimeAssumption DEF Call
      <3>2. ttl \in 0..MaxSessionCacheTTL
        BY <3>1, LeastBounds DEF sessionCacheTTL
      <3> HIDE DEF ttl
      <3>3. /\ w \in Call /\ w.pc = "setSel" /\ w.late = req[q].late
            /\ w.absolute = req[q].absolute
        BY <1>0, <3>2 DEF Call
      <3>4. CallOK(w, row)
        BY <1>0, <2>1, <3>3 DEF CallOK
      <3>5. req' = [req EXCEPT ![q] = w]
        BY <1>8, <2>3 DEF SetId, ttl
      <3> QED
        BY <2>1, <3>3, <3>4, <3>5
    <2> QED
      BY <2>2, <2>3
  <1>9. CASE SetSelector(q)
    BY <1>2, <1>9 DEF SetSelector, At
  <1>10. CASE SetFails(q)
    BY <1>2, <1>10 DEF SetFails
  <1>11. CASE Extend(q)
    <2> DEFINE least == Least(defaultSessionLifetime, req[q].absolute)
               w     == [req[q] EXCEPT !.pc = "update", !.expires = least]
    <2>1. row' = row /\ req[q].pc = "answer" /\ req' = [req EXCEPT ![q] = w]
      BY <1>11 DEF Extend, At
    <2>2. req[q].absolute \in 0..SessionAbsoluteLifetime /\ row.absolute \in Nat
      BY <1>0, LifetimeAssumption DEF Call, Session
    <2>3. least \in 0..SessionAbsoluteLifetime /\ least <= req[q].absolute
      BY <2>2, LeastBounds, LifetimeAssumption
    <2> HIDE DEF least
    <2>4. /\ w \in Call /\ w.pc = "update" /\ w.late = req[q].late
          /\ w.absolute = req[q].absolute /\ w.expires = least
      BY <1>0, <2>3 DEF Call
    <2>5. req[q].absolute <= row.absolute /\ ~req[q].late /\ row.state # "absent"
      BY <1>0, <2>1 DEF CallOK
    <2>6. w.expires <= row.absolute
      BY <2>2, <2>3, <2>4, <2>5
    <2>7. CallOK(w, row)
      BY <2>4, <2>5, <2>6 DEF CallOK
    <2> QED
      BY <2>1, <2>4, <2>7
  <1>12. CASE UpdateExpiry(q)
    <2> DEFINE w == [req[q] EXCEPT !.pc = "setId", !.op = "extended"]
    <2>1. /\ w \in Call /\ w.pc = "setId" /\ w.late = req[q].late
          /\ w.absolute = req[q].absolute
      BY <1>0 DEF Call
    <2>2. row'.state = row.state /\ row'.absolute = row.absolute
      BY <1>0, <1>12 DEF UpdateExpiry, Session
    <2>3. CallOK(w, row')
      BY <1>0, <1>12, <2>1, <2>2 DEF UpdateExpiry, At, CallOK
    <2> QED
      BY <1>12, <2>1, <2>3 DEF UpdateExpiry
  <1>13. CASE StartRevoke(q)
    <2> DEFINE w == [Idle EXCEPT !.pc = "revoke", !.op = "revoke"]
    <2>1. w \in Call /\ w.pc = "revoke" /\ w.late = FALSE
      BY RevokingCall, IdleIsCall, IdleFields
    <2> HIDE DEF w
    <2>2. CallOK(w, row')
      BY <1>13, <2>1 DEF StartRevoke, CallOK
    <2> QED
      BY <1>13, <2>1, <2>2 DEF StartRevoke, w
  <1>14. CASE RevokeRow(q)
    <2> DEFINE w == [req[q] EXCEPT !.pc = "delete"]
    <2>1. w \in Call /\ w.pc = "delete" /\ w.late = req[q].late
      BY <1>0, MovedCall
    <2>2. row'.state = "revoked"
      BY <1>0, <1>14 DEF RevokeRow, Session
    <2>3. CallOK(w, row')
      BY <1>0, <1>14, <2>1, <2>2 DEF RevokeRow, At, CallOK
    <2> QED
      BY <1>14, <2>1, <2>3 DEF RevokeRow, Goto
  <1>15. CASE DeleteStart(q)
    <2>1. row' = row /\ row.state # "absent" /\ ~req[q].late
      BY <1>0, <1>15 DEF DeleteStart, At, CallOK
    <2>2. /\ [req[q] EXCEPT !.pc = "deleteId"] \in Call
          /\ CallOK([req[q] EXCEPT !.pc = "deleteId"], row)
      BY <1>0, <2>1, Elsewhere
    <2> QED
      BY <1>1, <1>15, <2>1, <2>2 DEF DeleteStart, Goto
  <1>16. CASE DeleteId(q)
    <2>1. row' = row /\ row.state # "absent" /\ ~req[q].late
      BY <1>0, <1>16 DEF DeleteId, At, CallOK
    <2>2. /\ [req[q] EXCEPT !.pc = "deleteSel"] \in Call
          /\ CallOK([req[q] EXCEPT !.pc = "deleteSel"], row)
      BY <1>0, <2>1, Elsewhere
    <2> QED
      BY <1>16, <2>1, <2>2 DEF DeleteId, Goto
  <1>17. CASE CleanUp(q) \/ Resolved(q) \/ Expired(q) \/ DeleteSelector(q) \/ CallFails(q)
    BY <1>1, <1>17 DEF CleanUp, Resolved, Expired, DeleteSelector, CallFails
  <1> QED
    BY <1>3, <1>4, <1>5, <1>6, <1>7, <1>8, <1>9, <1>10, <1>11, <1>12, <1>13, <1>14,
       <1>15, <1>16, <1>17 DEF Step

-----------------------------------------------------------------------------
(***************************************************************************)
(* What a step does to the row and to the two keys.                        *)
(***************************************************************************)

\* The row as a step of the calls or of the clock may leave it: within its
\* absolute expiry, and never back to an earlier state.
RowMoves ==
    /\ row' \in Session
    /\ row'.expires <= row'.absolute
    /\ row'.state = "absent" => row.state = "absent"
    /\ row.state = "revoked" => row'.state = "revoked"
    /\ row.state # "absent" => row'.absolute = row.absolute

\* Every step of a call moves the row so.
LEMMA StepRow ==
    ASSUME IInv, NEW q \in Requests, Step(q)
    PROVE  RowMoves
  <1>0. /\ row \in Session /\ row.expires <= row.absolute
        /\ req[q] \in Call /\ CallOK(req[q], row)
    BY DEF IInv, TypeOK, ExpiryWithinAbsolute
  <1>1. CASE row' = row
    BY <1>0, <1>1 DEF RowMoves
  <1>2. CASE CreateSession(q)
    <2>1. row' \in Session /\ row'.expires <= row'.absolute
      BY <1>2, LifetimeAssumption DEF CreateSession, Session
    <2>2. row.state = "absent" /\ row'.state = "active"
      BY <1>2 DEF CreateSession
    <2> QED
      BY <2>1, <2>2 DEF RowMoves
  <1>3. CASE UpdateExpiry(q)
    <2>1. row' = [row EXCEPT !.expires = req[q].expires] /\ req[q].pc = "update"
      BY <1>3 DEF UpdateExpiry, At
    <2>2. req[q].expires \in 0..SessionAbsoluteLifetime /\ req[q].expires <= row.absolute
      BY <1>0, <2>1 DEF CallOK, Call
    <2>3. /\ row' \in Session /\ row'.expires = req[q].expires
          /\ row'.absolute = row.absolute /\ row'.state = row.state
      BY <1>0, <2>1, <2>2 DEF Session
    <2> QED
      BY <2>2, <2>3 DEF RowMoves
  <1>4. CASE RevokeRow(q)
    <2>1. row' = [row EXCEPT !.state = "revoked"]
      BY <1>4 DEF RevokeRow
    <2>2. /\ row' \in Session /\ row'.expires = row.expires
          /\ row'.absolute = row.absolute /\ row'.state = "revoked"
      BY <1>0, <2>1 DEF Session
    <2> QED
      BY <1>0, <2>2 DEF RowMoves
  <1>5. row' = row \/ CreateSession(q) \/ UpdateExpiry(q) \/ RevokeRow(q)
    BY DEF Step, StartRevoke, StartLookup, GetSelector, GetId, CleanUp, ReadDB, SetId,
           SetSelector, SetFails, Resolved, Expired, Extend, DeleteStart, DeleteId,
           DeleteSelector, CallFails
  <1> QED
    BY <1>1, <1>2, <1>3, <1>4, <1>5

\* Both keys stay in their types, and the snapshot within its session.
LEMMA StepKeys ==
    ASSUME IInv, NEW q \in Requests, Step(q)
    PROVE  /\ idKey' \in Snapshot /\ idKey'.ttl <= idKey'.expires
           /\ selKey' \in 0..MaxSessionCacheTTL
  <1>0. /\ idKey \in Snapshot /\ idKey.ttl <= idKey.expires
        /\ selKey \in 0..MaxSessionCacheTTL /\ req[q] \in Call
    BY DEF IInv, TypeOK, SnapshotWithinSession
  <1>1. NoSnapshot \in Snapshot /\ NoSnapshot.ttl <= NoSnapshot.expires
    BY NoSnapshotOK
  <1>2. 0 \in 0..MaxSessionCacheTTL
    BY LifetimeAssumption
  <1>3. CASE SetId(q)
    <2> DEFINE ttl == sessionCacheTTL(req[q].expires)
    <2>1. req[q].expires \in Nat /\ MaxSessionCacheTTL \in Nat
      BY <1>0, LifetimeAssumption DEF Call
    <2>2. ttl \in 0..MaxSessionCacheTTL /\ ttl <= req[q].expires
      BY <2>1, LeastBounds DEF sessionCacheTTL
    <2>3. \/ idKey' = idKey
          \/ idKey' = [ttl |-> ttl, expires |-> req[q].expires, absolute |-> req[q].absolute]
      BY <1>3 DEF SetId
    <2>4. selKey' = selKey
      BY <1>3 DEF SetId
    <2> HIDE DEF ttl
    <2>5. req[q].expires \in 0..SessionAbsoluteLifetime
          /\ req[q].absolute \in 0..SessionAbsoluteLifetime
      BY <1>0 DEF Call
    <2> QED
      BY <1>0, <2>2, <2>3, <2>4, <2>5 DEF Snapshot
  <1>4. CASE SetSelector(q)
    BY <1>0, <1>4 DEF SetSelector, Call
  <1>5. CASE idKey' \in {idKey, NoSnapshot} /\ selKey' \in {selKey, 0}
    BY <1>0, <1>1, <1>2, <1>5
  <1>6. \/ SetId(q) \/ SetSelector(q)
        \/ idKey' \in {idKey, NoSnapshot} /\ selKey' \in {selKey, 0}
    BY DEF Step, CreateSession, StartRevoke, StartLookup, GetSelector, GetId, CleanUp,
           ReadDB, SetFails, Resolved, Expired, Extend, UpdateExpiry, RevokeRow,
           DeleteStart, DeleteId, DeleteSelector, CallFails
  <1> QED
    BY <1>3, <1>4, <1>5, <1>6

\* A call that takes no part in the step keeps the invariant.
LEMMA OthersKeep ==
    ASSUME NEW w \in Call, CallOK(w, row), RowMoves
    PROVE  CallOK(w, row')
  BY DEF CallOK, RowMoves

LEMMA StepKeeps ==
    ASSUME IInv, NEW q \in Requests, Step(q)
    PROVE  IInv'
  <1>1. PICK w \in Call : req' = [req EXCEPT ![q] = w] /\ CallOK(w, row')
    BY StepCall
  <1>2. RowMoves
    BY StepRow
  <1>3. /\ idKey' \in Snapshot /\ idKey'.ttl <= idKey'.expires
        /\ selKey' \in 0..MaxSessionCacheTTL
    BY StepKeys
  <1>4. req \in [Requests -> Call] /\ \A p \in Requests : CallOK(req[p], row)
    BY DEF IInv, TypeOK
  <1>5. req' \in [Requests -> Call]
    BY <1>1, <1>4
  <1>6. ASSUME NEW p \in Requests PROVE CallOK(req'[p], row')
    <2>1. CASE p = q
      BY <1>1, <1>4, <2>1
    <2>2. CASE p # q
      <3>1. req'[p] = req[p] /\ req[p] \in Call /\ CallOK(req[p], row)
        BY <1>1, <1>4, <2>2
      <3>2. CallOK(req[p], row')
        BY <1>2, <3>1, OthersKeep
      <3> QED
        BY <3>1, <3>2
    <2> QED
      BY <2>1, <2>2
  <1> QED
    BY <1>2, <1>3, <1>5, <1>6
       DEF IInv, TypeOK, RowMoves, ExpiryWithinAbsolute, SnapshotWithinSession

-----------------------------------------------------------------------------
(***************************************************************************)
(* Time and the cache backend.                                             *)
(***************************************************************************)

LEMMA EvictKeeps == IInv /\ Evict => IInv'
  <1> SUFFICES ASSUME IInv, Evict PROVE IInv'
    OBVIOUS
  <1>1. row' = row /\ req' = req
    BY DEF Evict
  <1>2. NoSnapshot \in Snapshot /\ NoSnapshot.ttl <= NoSnapshot.expires
    BY NoSnapshotOK
  <1>3. /\ idKey' \in Snapshot /\ idKey'.ttl <= idKey'.expires
        /\ selKey' \in 0..MaxSessionCacheTTL
    BY <1>2, LifetimeAssumption DEF Evict, IInv, TypeOK, SnapshotWithinSession
  <1> QED
    BY <1>1, <1>3 DEF IInv, TypeOK, CallOK, ExpiryWithinAbsolute, SnapshotWithinSession

\* A tick ages a call and the row alike.
LEMMA TickCall ==
    ASSUME NEW w \in Call, NEW r \in Session, CallOK(w, r)
    PROVE  LET v == [w EXCEPT !.expires = Minus1(@), !.absolute = Minus1(@)]
               s == [r EXCEPT !.expires = Minus1(@), !.absolute = Minus1(@)]
           IN  v \in Call /\ CallOK(v, s)
  <1> DEFINE v == [w EXCEPT !.expires = Minus1(w.expires), !.absolute = Minus1(w.absolute)]
             s == [r EXCEPT !.expires = Minus1(r.expires), !.absolute = Minus1(r.absolute)]
  <1>0. SessionAbsoluteLifetime \in Nat
    BY LifetimeAssumption
  <1>1. /\ Minus1(w.expires) \in 0..SessionAbsoluteLifetime
        /\ Minus1(w.absolute) \in 0..SessionAbsoluteLifetime
    <2>1. w.expires \in 0..SessionAbsoluteLifetime /\ w.absolute \in 0..SessionAbsoluteLifetime
      BY DEF Call
    <2> QED
      BY <1>0, <2>1, Minus1Range
  <1>2. /\ v \in Call /\ v.pc = w.pc /\ v.late = w.late
        /\ v.expires = Minus1(w.expires) /\ v.absolute = Minus1(w.absolute)
    BY <1>1 DEF Call
  <1>3. s.state = r.state /\ s.absolute = Minus1(r.absolute)
    BY DEF Session
  <1>4. w.expires \in Nat /\ w.absolute \in Nat /\ r.absolute \in Nat
    BY <1>0 DEF Call, Session
  <1>5. /\ w.expires <= r.absolute => Minus1(w.expires) <= Minus1(r.absolute)
        /\ w.absolute <= r.absolute => Minus1(w.absolute) <= Minus1(r.absolute)
    BY <1>4, Minus1Monotone
  <1> HIDE DEF v, s
  <1>6. CallOK(v, s)
    BY <1>2, <1>3, <1>5 DEF CallOK
  <1> QED
    BY <1>2, <1>6 DEF v, s

LEMMA TickKeeps == IInv /\ Tick => IInv'
  <1> SUFFICES ASSUME IInv, Tick PROVE IInv'
    OBVIOUS
  <1>0. /\ row \in Session /\ idKey \in Snapshot /\ selKey \in 0..MaxSessionCacheTTL
        /\ req \in [Requests -> Call] /\ \A q \in Requests : CallOK(req[q], row)
        /\ row.expires <= row.absolute /\ idKey.ttl <= idKey.expires
    BY DEF IInv, TypeOK, ExpiryWithinAbsolute, SnapshotWithinSession
  <1>1. SessionAbsoluteLifetime \in Nat /\ MaxSessionCacheTTL \in Nat
    BY LifetimeAssumption
  <1>2. row' \in Session /\ row'.expires <= row'.absolute
    <2>1. /\ row.expires \in 0..SessionAbsoluteLifetime
          /\ row.absolute \in 0..SessionAbsoluteLifetime
      BY <1>0 DEF Session
    <2>2. /\ Minus1(row.expires) \in 0..SessionAbsoluteLifetime
          /\ Minus1(row.absolute) \in 0..SessionAbsoluteLifetime
      BY <1>1, <2>1, Minus1Range
    <2>3. Minus1(row.expires) <= Minus1(row.absolute)
      BY <1>0, <1>1, <2>1, Minus1Monotone
    <2>4. row' = [row EXCEPT !.expires = Minus1(row.expires), !.absolute = Minus1(row.absolute)]
      BY DEF Tick
    <2>5. /\ row' \in Session /\ row'.expires = Minus1(row.expires)
          /\ row'.absolute = Minus1(row.absolute)
      BY <1>0, <2>2, <2>4 DEF Session
    <2> QED
      BY <2>3, <2>5
  <1>3. idKey' \in Snapshot /\ idKey'.ttl <= idKey'.expires
    <2>1. CASE idKey.ttl <= 1
      <3>1. idKey' = NoSnapshot
        BY <2>1 DEF Tick
      <3> QED
        BY <3>1, NoSnapshotOK
    <2>2. CASE ~(idKey.ttl <= 1)
      <3>1. idKey' = [ttl |-> idKey.ttl - 1, expires |-> Minus1(idKey.expires),
                      absolute |-> Minus1(idKey.absolute)]
        BY <2>2 DEF Tick
      <3>2. /\ idKey.ttl \in 0..MaxSessionCacheTTL
            /\ idKey.expires \in 0..SessionAbsoluteLifetime
            /\ idKey.absolute \in 0..SessionAbsoluteLifetime
        BY <1>0 DEF Snapshot
      <3>3. /\ Minus1(idKey.expires) \in 0..SessionAbsoluteLifetime
            /\ Minus1(idKey.absolute) \in 0..SessionAbsoluteLifetime
            /\ idKey.ttl - 1 \in 0..MaxSessionCacheTTL
        BY <1>1, <2>2, <3>2, Minus1Range
      <3>4. idKey.ttl - 1 <= Minus1(idKey.expires)
        BY <1>0, <2>2, <3>2 DEF Minus1
      <3> QED
        BY <3>1, <3>3, <3>4 DEF Snapshot
    <2> QED
      BY <2>1, <2>2
  <1>4. selKey' \in 0..MaxSessionCacheTTL
    BY <1>0, <1>1, Minus1Range DEF Tick
  <1>5. req' \in [Requests -> Call] /\ \A q \in Requests : CallOK(req'[q], row')
    <2>1. ASSUME NEW q \in Requests
          PROVE  /\ [req[q] EXCEPT !.expires = Minus1(@), !.absolute = Minus1(@)] \in Call
                 /\ CallOK([req[q] EXCEPT !.expires = Minus1(@), !.absolute = Minus1(@)], row')
      BY <1>0, TickCall DEF Tick
    <2> QED
      BY <2>1 DEF Tick
  <1> QED
    BY <1>2, <1>3, <1>4, <1>5
       DEF IInv, TypeOK, ExpiryWithinAbsolute, SnapshotWithinSession

-----------------------------------------------------------------------------
LEMMA IInvNext == IInv /\ [Next]_vars => IInv'
  <1> SUFFICES ASSUME IInv, [Next]_vars PROVE IInv'
    OBVIOUS
  <1>1. CASE \E q \in Requests : Step(q)
    BY <1>1, StepKeeps
  <1>2. CASE Evict
    BY <1>2, EvictKeeps
  <1>3. CASE Tick
    BY <1>3, TickKeeps
  <1>4. CASE UNCHANGED vars
    BY <1>4 DEF vars, IInv, TypeOK, CallOK, ExpiryWithinAbsolute, SnapshotWithinSession
  <1> QED
    BY <1>1, <1>2, <1>3, <1>4 DEF Next

LEMMA IInvHolds == Spec => []IInv
  BY IInvInit, IInvNext, PTL DEF Spec

\* TypeOK of SessionIssuer: the row, both cache keys and every call keep to
\* their types, whatever the lifetimes.
THEOREM SessionTypeOK == Spec => []TypeOK
  <1>1. IInv => TypeOK
    BY DEF IInv
  <1> QED
    BY <1>1, IInvHolds, PTL

\* ExpiryWithinAbsolute: however many refreshes run, and however late the
\* UPDATE of one of them comes, the row never outlives its absolute expiry
\* (the clamp of RefreshSession, issuer.go).
THEOREM SessionExpiryWithinAbsolute == Spec => []ExpiryWithinAbsolute
  <1>1. IInv => ExpiryWithinAbsolute
    BY DEF IInv
  <1> QED
    BY <1>1, IInvHolds, PTL

\* SnapshotWithinSession: sessionCacheTTL bounds a snapshot by the expiry the
\* same call wrote in it, and time keeps it so.
THEOREM SessionSnapshotWithinSession == Spec => []SnapshotWithinSession
  <1>1. IInv => SnapshotWithinSession
    BY DEF IInv
  <1> QED
    BY <1>1, IInvHolds, PTL

\* RevokedNeverResolves: a lookup that starts after the revocation of its
\* session neither resolves nor refreshes it, whatever the cache holds.
THEOREM SessionRevokedNeverResolves == Spec => RevokedNeverResolves
  <1>1. IInv => \A q \in Requests : req[q].late => ~Resolved(q) /\ ~Extend(q)
    BY DEF IInv, CallOK, Resolved, Extend, At
  <1>2. IInv /\ [Next]_vars =>
          [\A q \in Requests : req[q].late => ~Resolved(q) /\ ~Extend(q)]_vars
    BY <1>1
  <1> QED
    BY <1>2, IInvHolds, PTL DEF Spec, RevokedNeverResolves

-----------------------------------------------------------------------------
(* LoginFlow.                                                              *)

-----------------------------------------------------------------------------
(***************************************************************************)
(* The inductive invariant.  An identity has one owner, a call that is     *)
(* about to issue a session holds it, and accounts that are named exist.   *)
(***************************************************************************)
OneOwner == \A i, j \in identities : i.subject = j.subject => i.user = j.user

TransitionFits(t) ==
    transition[t].open /\ transition[t].intent # "login" => transition[t].by \in 1..users

LoginFits(r) ==
    /\ r.wire \in 0..Len(sessions)
    /\ r.pc # "idle" /\ r.pc \notin {"find", "resolve", "create", "validate", "link", "commit",
                                     "revoke", "issue"} => r.t \in Transitions
    /\ r.pc \in {"taken", "shut", "find"} /\ r.intent # "login" => r.by \in 1..users
    /\ r.pc \in {"validate", "link", "commit", "revoke", "issue"} => r.user \in 1..users
    /\ r.pc \in {"revoke", "issue"} => Owners(r.subject) = {r.user}

SessionFits(n) ==
    /\ sessions[n].user \in 1..users
    /\ Owners(sessions[n].subject) = {sessions[n].user}

(***************************************************************************)
(* The proofs that failed on a transition: one for each attempt counted    *)
(* since the counter was last deleted, one for each call that has one to   *)
(* count or that counted it in vain, and maxAuthAttempts for each call     *)
(* that has deleted the counter and not yet the transition.                *)
(***************************************************************************)
Counting(t) == {c \in Logins : login[c].t = t /\ login[c].pc \in {"count", "increment", "drop"}}

Deleting(t) == {c \in Logins : login[c].t = t /\ login[c].pc \in {"close", "shut"}}

Counted(t) ==
    IF transition[t].attempts = maxAuthAttempts
    THEN maxAuthAttempts - 1 ELSE transition[t].attempts

Balance(t) ==
    Counted(t) + Cardinality(Counting(t)) + Cardinality(Deleting(t)) * maxAuthAttempts

FailuresCounted(t) ==
    /\ transition[t].failures <= Cardinality(Logins) * maxAuthAttempts
    /\ transition[t].open /\ ~transition[t].faulty => transition[t].failures <= Balance(t)

AccountsFit ==
    /\ LoginTypeOK
    /\ Len(sessions) <= MaxSessions
    /\ OneOwner
    /\ \A t \in Transitions : TransitionFits(t)
    /\ \A c \in Logins : LoginFits(login[c])
    /\ \A n \in DOMAIN sessions : SessionFits(n)

LoginIInv ==
    /\ AccountsFit
    /\ \A t \in Transitions : FailuresCounted(t)

-----------------------------------------------------------------------------
(* What is not in use.                                                     *)

LEMMA ClosedType ==
    /\ Closed \in Transition
    /\ ~Closed.open /\ Closed.attempts = 0 /\ Closed.failures = 0 /\ Closed.faulty = FALSE
    /\ Closed.intent = "login"
  <1>1. (CHOOSE s \in Subjects : TRUE) \in Subjects
    BY LoginAssumption DEF Subjects
  <1>2. 0 \in 0..maxAuthAttempts /\ 0 \in Nat
    BY LoginAssumption
  <1> QED
    BY <1>1, <1>2 DEF Closed, Transition, None

LEMMA NoLoginType ==
    /\ NoLogin \in Login
    /\ NoLogin.pc = "idle" /\ NoLogin.wire = None /\ NoLogin.t = None /\ NoLogin.user = None
  <1>1. (CHOOSE s \in Subjects : TRUE) \in Subjects
    BY LoginAssumption DEF Subjects
  <1>2. 0 \in 0..MaxSessions
    BY LoginAssumption
  <1> QED
    BY <1>1, <1>2 DEF NoLogin, Login, None

LEMMA NoLoginFits ==
    ASSUME sessions \in Seq(LoggedIn)
    PROVE  LoginFits(NoLogin)
  BY NoLoginType DEF LoginFits, None

LEMMA GoneType ==
    ASSUME LoginTypeOK, NEW t \in Transitions
    PROVE  /\ Gone(t) \in Transition
           /\ ~Gone(t).open /\ Gone(t).failures = transition[t].failures
  BY ClosedType DEF Gone, LoginTypeOK, Transition

-----------------------------------------------------------------------------
(* The accounts, while no account is created or linked and no session is   *)
(* issued: one call, or one transition, moves.                             *)

LEMMA OwnersKept ==
    ASSUME identities' = identities
    PROVE  \A s : Owners(s)' = Owners(s)
  BY DEF Owners

LEMMA LoginMoves ==
    ASSUME AccountsFit, NEW c \in Logins, NEW r \in Login,
           login' = [login EXCEPT ![c] = r],
           UNCHANGED <<accounts, sessions>>, LoginFits(r),
           transition' \in [Transitions -> Transition],
           \A t \in Transitions : TransitionFits(t)'
    PROVE  AccountsFit'
  <1>1. /\ users' = users /\ identities' = identities /\ primary' = primary
        /\ sessions' = sessions
    BY DEF accounts
  <1>2. \A s : Owners(s)' = Owners(s)
    BY <1>1, OwnersKept
  <1>3. LoginTypeOK'
    BY <1>1 DEF AccountsFit, LoginTypeOK
  <1>4. \A d \in Logins : LoginFits(login[d])'
    <2>1. SUFFICES ASSUME NEW d \in Logins
                   PROVE  LoginFits(login[d])'
      OBVIOUS
    <2>2. PICK q : q = login'[d] /\ LoginFits(q)
      BY DEF AccountsFit, LoginTypeOK
    <2>3. Owners(q.subject)' = Owners(q.subject)
      BY <1>2
    <2> QED
      BY <1>1, <2>2, <2>3 DEF LoginFits
  <1>5. \A n \in DOMAIN sessions' : SessionFits(n)'
    BY <1>1, <1>2 DEF AccountsFit, SessionFits
  <1> QED
    BY <1>1, <1>3, <1>4, <1>5 DEF AccountsFit, OneOwner

LEMMA LoginReturns ==
    ASSUME AccountsFit, NEW c \in Logins, LoginReturn(c),
           UNCHANGED <<accounts, sessions>>,
           transition' \in [Transitions -> Transition],
           \A t \in Transitions : TransitionFits(t)'
    PROVE  AccountsFit'
  <1>1. PICK r \in Login : r = NoLogin
    BY NoLoginType
  <1>2. login' = [login EXCEPT ![c] = r] /\ LoginFits(r)
    BY <1>1, NoLoginFits DEF LoginReturn, AccountsFit, LoginTypeOK
  <1> QED
    BY <1>2, LoginMoves

\* The call goes on, and relies on nothing it did not rely on before.
LEMMA LoginGoes ==
    ASSUME AccountsFit, NEW c \in Logins, NEW pc, LoginGoto(c, pc),
           \/ login[c].pc \in {"prove", "count", "increment", "drop"}
              /\ pc \in {"take", "count", "drop", "increment", "close"}
           \/ login[c].pc = "taken" /\ pc = "shut"
           \/ login[c].pc = "shut" /\ pc = "find"
           \/ login[c].pc = "validate" /\ pc = "link"
           \/ login[c].pc = "revoke" /\ pc = "issue",
           UNCHANGED <<accounts, sessions>>,
           transition' \in [Transitions -> Transition],
           \A t \in Transitions : TransitionFits(t)'
    PROVE  AccountsFit'
  <1>1. login[c] \in Login /\ LoginFits(login[c])
    BY DEF AccountsFit, LoginTypeOK
  <1>2. PICK r : r = [login[c] EXCEPT !.pc = pc]
    OBVIOUS
  <1>3. /\ r \in Login /\ r.pc = pc /\ r.t = login[c].t /\ r.wire = login[c].wire
        /\ r.subject = login[c].subject /\ r.intent = login[c].intent /\ r.by = login[c].by
        /\ r.user = login[c].user
    BY <1>1, <1>2 DEF Login
  <1>4. login' = [login EXCEPT ![c] = r]
    BY <1>2 DEF LoginGoto
  <1>5. LoginFits(r)
    BY <1>1, <1>3 DEF LoginFits
  <1> QED
    BY <1>3, <1>4, <1>5, LoginMoves

\* A transition that is gone, or that stays what it is but for what happened to it.
LEMMA TransitionMoves ==
    ASSUME AccountsFit, NEW t \in Transitions, NEW w \in Transition,
           transition' = [transition EXCEPT ![t] = w], users' = users,
           \/ ~w.open
           \/ w.open = transition[t].open /\ w.intent = transition[t].intent /\ w.by = transition[t].by
    PROVE  /\ transition' \in [Transitions -> Transition]
           /\ \A i \in Transitions : TransitionFits(i)'
  BY DEF AccountsFit, LoginTypeOK, TransitionFits

LEMMA TransitionsStay ==
    ASSUME AccountsFit, transition' = transition, users' = users
    PROVE  /\ transition' \in [Transitions -> Transition]
           /\ \A i \in Transitions : TransitionFits(i)'
  BY DEF AccountsFit, LoginTypeOK, TransitionFits

-----------------------------------------------------------------------------
(* Each step, for the accounts.                                            *)

\* A wire token is that of a session, whose account exists.
LEMMA WireKnown ==
    ASSUME AccountsFit, NEW wire \in {None} \union DOMAIN sessions
    PROVE  /\ wire \in 0..Len(sessions) /\ wire \in 0..MaxSessions
           /\ wire # None => sessions[wire].user \in 1..users /\ sessions[wire].user \in Accounts
  <1>1. DOMAIN sessions = 1..Len(sessions) /\ Len(sessions) \in Nat /\ Len(sessions) <= MaxSessions
    BY DEF AccountsFit, LoginTypeOK
  <1>2. wire # None => sessions[wire].user \in 1..users
    BY DEF AccountsFit, SessionFits
  <1>3. 1..users \subseteq Accounts
    BY LoginAssumption DEF AccountsFit, LoginTypeOK, Accounts
  <1> QED
    BY <1>1, <1>2, <1>3, LoginAssumption DEF None

LEMMA StartLoginFits ==
    ASSUME AccountsFit, NEW t \in Transitions, NEW intent \in {"login", "link", "reauth"},
           NEW s \in Subjects, NEW wire \in {None} \union DOMAIN sessions,
           StartLogin(t, intent, s, wire)
    PROVE  AccountsFit'
  <1>1. PICK by \in Accounts \union {None} :
           /\ by = IF wire = None THEN None ELSE sessions[wire].user
           /\ wire # None => by \in 1..users
    BY WireKnown
  <1>2. PICK w : w = [Closed EXCEPT !.open = TRUE, !.intent = intent, !.subject = s,
                                    !.proof = TRUE, !.by = by]
    OBVIOUS
  <1>3. w \in Transition /\ w.open /\ w.intent = intent /\ w.by = by
    BY <1>2, ClosedType DEF Transition
  <1>4. transition' = [transition EXCEPT ![t] = w]
    BY <1>1, <1>2 DEF StartLogin
  <1>5. intent # "login" => by \in 1..users
    BY <1>1 DEF StartLogin
  <1>6. /\ users' = users /\ identities' = identities /\ primary' = primary
        /\ sessions' = sessions /\ login' = login
    BY DEF StartLogin, accounts
  <1>7. transition' \in [Transitions -> Transition] /\ \A i \in Transitions : TransitionFits(i)'
    BY <1>3, <1>4, <1>5, <1>6 DEF AccountsFit, LoginTypeOK, TransitionFits
  <1>8. LoginTypeOK'
    BY <1>6, <1>7 DEF AccountsFit, LoginTypeOK
  <1>9. (\A c \in Logins : LoginFits(login[c])') /\ (\A n \in DOMAIN sessions' : SessionFits(n)')
    BY <1>6, OwnersKept DEF AccountsFit, LoginFits, SessionFits
  <1> QED
    BY <1>6, <1>7, <1>8, <1>9 DEF AccountsFit, OneOwner

\* The steps of no call but StartLogin.
LEMMA TransitionStepFits ==
    ASSUME AccountsFit, NEW t \in Transitions, Renew(t) \/ TransitionExpires(t)
    PROVE  AccountsFit'
  <1>1. /\ users' = users /\ identities' = identities /\ primary' = primary
        /\ sessions' = sessions /\ login' = login
    BY DEF Renew, TransitionExpires, accounts
  <1>2. transition[t] \in Transition
    BY DEF AccountsFit, LoginTypeOK
  <1>3. transition' \in [Transitions -> Transition] /\ \A i \in Transitions : TransitionFits(i)'
    <2>1. CASE Renew(t)
      <3>1. PICK w : w = [transition[t] EXCEPT !.proof = TRUE]
        OBVIOUS
      <3>2. /\ w \in Transition /\ w.open = transition[t].open
            /\ w.intent = transition[t].intent /\ w.by = transition[t].by
        BY <1>2, <3>1 DEF Transition
      <3>3. transition' = [transition EXCEPT ![t] = w]
        BY <2>1, <3>1 DEF Renew
      <3> QED
        BY <1>1, <3>2, <3>3, TransitionMoves
    <2>2. CASE TransitionExpires(t)
      <3>1. PICK w : w = [Gone(t) EXCEPT !.attempts = 0]
        OBVIOUS
      <3>2. w \in Transition /\ ~w.open
        <4>1. 0 \in 0..maxAuthAttempts /\ Gone(t) \in Transition /\ ~Gone(t).open
          BY GoneType, LoginAssumption DEF AccountsFit
        <4> QED
          BY <3>1, <4>1 DEF Transition
      <3>3. transition' = [transition EXCEPT ![t] = w]
        BY <2>2, <3>1 DEF TransitionExpires
      <3> QED
        BY <1>1, <3>2, <3>3, TransitionMoves
    <2> QED
      BY <2>1, <2>2
  <1>4. LoginTypeOK'
    BY <1>1, <1>3 DEF AccountsFit, LoginTypeOK
  <1>5. (\A c \in Logins : LoginFits(login[c])') /\ (\A n \in DOMAIN sessions' : SessionFits(n)')
    BY <1>1, OwnersKept DEF AccountsFit, LoginFits, SessionFits
  <1> QED
    BY <1>1, <1>3, <1>4, <1>5 DEF AccountsFit, OneOwner

LEMMA ContinueLoginFits ==
    ASSUME AccountsFit, NEW c \in Logins, NEW t \in Transitions,
           NEW wire \in {None} \union DOMAIN sessions, ContinueLogin(c, t, wire)
    PROVE  AccountsFit'
  <1>1. PICK s \in Subjects : s = transition[t].subject
    BY DEF AccountsFit, LoginTypeOK, Transition
  <1>2. PICK r : r = [NoLogin EXCEPT !.pc = "prove", !.t = t, !.wire = wire, !.subject = s]
    OBVIOUS
  <1>3. r \in Login /\ r.pc = "prove" /\ r.t = t /\ r.wire = wire
    BY <1>2, WireKnown, NoLoginType DEF Login
  <1>4. login' = [login EXCEPT ![c] = r]
    BY <1>1, <1>2 DEF ContinueLogin
  <1>5. LoginFits(r)
    BY <1>3, WireKnown DEF LoginFits
  <1> QED
    BY <1>3, <1>4, <1>5, LoginMoves, TransitionsStay DEF ContinueLogin, accounts

LEMMA ProveFits ==
    ASSUME AccountsFit, NEW c \in Logins, Prove(c)
    PROVE  AccountsFit'
  <1>1. login[c].pc = "prove" /\ login[c].t \in Transitions
    BY DEF Prove, LoginAt, AccountsFit, LoginFits
  <1>2. PICK t \in Transitions : t = login[c].t
    BY <1>1
  <1>3. transition[t] \in Transition /\ UNCHANGED <<accounts, sessions>> /\ users' = users
    BY DEF AccountsFit, LoginTypeOK, Prove, accounts
  <1>4. CASE LoginReturn(c) /\ transition' = transition
    BY <1>3, <1>4, LoginReturns, TransitionsStay
  <1>5. CASE LoginGoto(c, "take") /\ Proves(c)
             /\ transition' = [transition EXCEPT ![t].proof = login[c].subject \in Passkeys]
    <2>1. PICK proof \in BOOLEAN : proof = (login[c].subject \in Passkeys)
      <3>1. CASE login[c].subject \in Passkeys
        BY <3>1, TRUE = (login[c].subject \in Passkeys), Zenon
      <3>2. CASE login[c].subject \notin Passkeys
        BY <3>2, FALSE = (login[c].subject \in Passkeys), Zenon
      <3> QED
        BY <3>1, <3>2
    <2>2. PICK w : w = [transition[t] EXCEPT !.proof = proof]
      OBVIOUS
    <2>3. /\ w \in Transition /\ w.open = transition[t].open
          /\ w.intent = transition[t].intent /\ w.by = transition[t].by
      BY <1>3, <2>2 DEF Transition
    <2>4. transition' = [transition EXCEPT ![t] = w]
      BY <1>5, <2>1, <2>2
    <2> QED
      BY <1>1, <1>3, <1>5, <2>3, <2>4, TransitionMoves, LoginGoes
  <1>6. CASE LoginGoto(c, "count")
             /\ transition' = [transition EXCEPT ![t].failures =
                                  IF transition[t].faulty THEN @ ELSE @ + 1]
    <2>1. PICK failures \in Nat : failures = IF transition[t].faulty THEN transition[t].failures
                                             ELSE transition[t].failures + 1
      BY <1>3 DEF Transition
    <2>2. PICK w : w = [transition[t] EXCEPT !.failures = failures]
      OBVIOUS
    <2>3. /\ w \in Transition /\ w.open = transition[t].open
          /\ w.intent = transition[t].intent /\ w.by = transition[t].by
      BY <1>3, <2>2 DEF Transition
    <2>4. transition' = [transition EXCEPT ![t] = w]
      BY <1>6, <2>1, <2>2
    <2> QED
      BY <1>1, <1>3, <1>6, <2>3, <2>4, TransitionMoves, LoginGoes
  <1>7. CASE LoginGoto(c, "drop") /\ transition' = transition
    BY <1>1, <1>3, <1>7, LoginGoes, TransitionsStay
  <1> QED
    BY <1>2, <1>4, <1>5, <1>6, <1>7 DEF Prove

LEMMA CountAttemptFits ==
    ASSUME AccountsFit, NEW c \in Logins, CountAttempt(c)
    PROVE  AccountsFit'
  <1>1. transition' = transition /\ users' = users /\ UNCHANGED <<accounts, sessions>>
        /\ login[c].pc = "count"
    BY DEF CountAttempt, accounts, LoginAt
  <1>2. LoginGoto(c, "increment") \/ LoginReturn(c)
    BY DEF CountAttempt
  <1> QED
    BY <1>1, <1>2, LoginGoes, LoginReturns, TransitionsStay

\* The counter of a transition, and what the model notes of its failures.
LEMMA CounterMoves ==
    ASSUME AccountsFit, NEW t \in Transitions, NEW attempts \in 0..maxAuthAttempts,
           NEW faulty \in BOOLEAN, users' = users,
           transition' = [transition EXCEPT ![t] = [@ EXCEPT !.attempts = attempts, !.faulty = faulty]]
    PROVE  /\ transition' \in [Transitions -> Transition]
           /\ \A i \in Transitions : TransitionFits(i)'
  <1>1. transition[t] \in Transition
    BY DEF AccountsFit, LoginTypeOK
  <1>2. PICK w : w = [transition[t] EXCEPT !.attempts = attempts, !.faulty = faulty]
    OBVIOUS
  <1>3. /\ w \in Transition /\ w.open = transition[t].open
        /\ w.intent = transition[t].intent /\ w.by = transition[t].by
    BY <1>1, <1>2 DEF Transition
  <1>4. transition' = [transition EXCEPT ![t] = w]
    BY <1>2
  <1> QED
    BY <1>3, <1>4, TransitionMoves

LEMMA IncrementAttemptsFits ==
    ASSUME AccountsFit, NEW c \in Logins, IncrementAttempts(c)
    PROVE  AccountsFit'
  <1>1. login[c].pc = "increment" /\ login[c].t \in Transitions
    BY DEF IncrementAttempts, LoginAt, AccountsFit, LoginFits
  <1>2. PICK t \in Transitions : t = login[c].t
    BY <1>1
  <1>3. transition[t] \in Transition /\ UNCHANGED <<accounts, sessions>> /\ users' = users
    BY DEF AccountsFit, LoginTypeOK, IncrementAttempts, accounts
  <1>4. PICK attempts \in 0..maxAuthAttempts :
           attempts = IF transition[t].attempts < maxAuthAttempts
                      THEN transition[t].attempts + 1 ELSE transition[t].attempts
    <2>1. transition[t].attempts \in 0..maxAuthAttempts
      BY <1>3 DEF Transition
    <2> QED
      BY <2>1, LoginAssumption
  <1>5. PICK faulty \in BOOLEAN : faulty = transition[t].faulty
    BY <1>3 DEF Transition
  <1>6. transition' = [transition EXCEPT ![t] = [@ EXCEPT !.attempts = attempts, !.faulty = faulty]]
    <2>1. transition' = [transition EXCEPT ![t].attempts = attempts]
      BY <1>2, <1>4 DEF IncrementAttempts
    <2>2. [transition[t] EXCEPT !.attempts = attempts]
             = [transition[t] EXCEPT !.attempts = attempts, !.faulty = faulty]
      BY <1>3, <1>5 DEF Transition
    <2> QED
      BY <2>1, <2>2
  <1>7. LoginGoto(c, "drop") \/ LoginReturn(c)
    BY DEF IncrementAttempts
  <1> QED
    BY <1>1, <1>3, <1>6, <1>7, CounterMoves, LoginGoes, LoginReturns

LEMMA DeleteAttemptsFits ==
    ASSUME AccountsFit, NEW c \in Logins, DeleteAttempts(c)
    PROVE  AccountsFit'
  <1>1. login[c].pc \in {"drop", "taken"} /\ login[c].t \in Transitions
    BY DEF DeleteAttempts, LoginAt, AccountsFit, LoginFits
  <1>2. PICK t \in Transitions : t = login[c].t
    BY <1>1
  <1>3. transition[t] \in Transition /\ UNCHANGED <<accounts, sessions>> /\ users' = users
    BY DEF AccountsFit, LoginTypeOK, DeleteAttempts, accounts
  <1>4. PICK faulty \in BOOLEAN : faulty = transition[t].faulty
    BY <1>3 DEF Transition
  <1>5. 0 \in 0..maxAuthAttempts
    BY LoginAssumption
  <1>6. transition' = [transition EXCEPT ![t] = [@ EXCEPT !.attempts = 0, !.faulty = faulty]]
    <2>1. transition' = [transition EXCEPT ![t].attempts = 0]
      BY <1>2 DEF DeleteAttempts
    <2>2. [transition[t] EXCEPT !.attempts = 0]
             = [transition[t] EXCEPT !.attempts = 0, !.faulty = faulty]
      BY <1>3, <1>4 DEF Transition
    <2> QED
      BY <2>1, <2>2
  <1>7. PICK pc : LoginGoto(c, pc) /\ pc = IF login[c].pc = "drop" THEN "close" ELSE "shut"
    BY DEF DeleteAttempts, LoginAt
  <1> QED
    BY <1>1, <1>3, <1>5, <1>6, <1>7, CounterMoves, LoginGoes

LEMMA DeleteTransitionFits ==
    ASSUME AccountsFit, NEW c \in Logins, DeleteTransition(c)
    PROVE  AccountsFit'
  <1>1. login[c].pc \in {"close", "shut"} /\ login[c].t \in Transitions
    BY DEF DeleteTransition, LoginAt, AccountsFit, LoginFits
  <1>2. PICK t \in Transitions : t = login[c].t
    BY <1>1
  <1>3. UNCHANGED <<accounts, sessions>> /\ users' = users
    BY DEF DeleteTransition, accounts
  <1>4. PICK w \in Transition : w = Gone(t) /\ ~w.open
    BY GoneType DEF AccountsFit
  <1>5. transition' = [transition EXCEPT ![t] = w]
    BY <1>2, <1>4 DEF DeleteTransition
  <1>6. LoginReturn(c) \/ (login[c].pc = "shut" /\ LoginGoto(c, "find"))
    BY <1>1 DEF DeleteTransition, LoginAt
  <1> QED
    BY <1>3, <1>4, <1>5, <1>6, TransitionMoves, LoginGoes, LoginReturns

LEMMA TakeTransitionFits ==
    ASSUME AccountsFit, NEW c \in Logins, TakeTransition(c)
    PROVE  AccountsFit'
  <1>1. /\ login[c].pc = "take" /\ login[c].t \in Transitions
        /\ login[c] \in Login /\ LoginFits(login[c])
    BY DEF TakeTransition, LoginAt, AccountsFit, LoginFits, LoginTypeOK
  <1>2. PICK t \in Transitions : t = login[c].t
    BY <1>1
  <1>3. UNCHANGED <<accounts, sessions>> /\ users' = users /\ transition' = transition
    BY DEF TakeTransition, accounts
  <1>4. CASE transition[t].open
    <2>1. PICK intent \in {"login", "link", "reauth"}, by \in Accounts \union {None} :
             intent = transition[t].intent /\ by = transition[t].by
      BY DEF AccountsFit, LoginTypeOK, Transition
    <2>2. PICK r : r = [login[c] EXCEPT !.pc = "taken", !.intent = intent, !.by = by]
      OBVIOUS
    <2>3. /\ r \in Login /\ r.pc = "taken" /\ r.t = t /\ r.wire = login[c].wire
          /\ r.intent = intent /\ r.by = by
      BY <1>1, <1>2, <2>2 DEF Login
    <2>4. login' = [login EXCEPT ![c] = r]
      BY <1>2, <1>4, <2>1, <2>2 DEF TakeTransition
    <2>5. LoginFits(r)
      BY <1>1, <1>4, <2>1, <2>3 DEF LoginFits, AccountsFit, TransitionFits
    <2> QED
      BY <1>3, <2>3, <2>4, <2>5, LoginMoves, TransitionsStay
  <1>5. CASE ~transition[t].open
    BY <1>2, <1>3, <1>5, LoginReturns, TransitionsStay DEF TakeTransition
  <1> QED
    BY <1>4, <1>5

\* The owners of a subject are accounts, and at most one.
LEMMA OwnersOne ==
    ASSUME AccountsFit, NEW s, NEW u \in Owners(s)
    PROVE  u \in 1..users /\ u \in Accounts /\ Owners(s) = {u}
  <1>1. PICK i \in identities : i.subject = s /\ i.user = u
    BY DEF Owners
  <1>2. i.user \in 1..users
    BY DEF AccountsFit, LoginTypeOK
  <1>3. 1..users \subseteq Accounts
    BY LoginAssumption DEF AccountsFit, LoginTypeOK, Accounts
  <1>4. Owners(s) = {u}
    BY <1>1 DEF Owners, AccountsFit, OneOwner
  <1> QED
    BY <1>1, <1>2, <1>3, <1>4

LEMMA FindUserFits ==
    ASSUME AccountsFit, NEW c \in Logins, FindUser(c)
    PROVE  AccountsFit'
  <1>1. login[c] \in Login /\ LoginFits(login[c]) /\ login[c].pc = "find"
    BY DEF FindUser, LoginAt, AccountsFit, LoginTypeOK
  <1>2. PICK s \in Subjects, wire \in 0..MaxSessions :
           s = login[c].subject /\ wire = login[c].wire
    BY <1>1 DEF Login
  <1>3. PICK found : /\ found = IF Owners(s) = {} THEN None ELSE CHOOSE u \in Owners(s) : TRUE
                     /\ Owners(s) # {} => found \in Owners(s)
    OBVIOUS
  <1>4. PICK user : user = IF login[c].intent = "link" THEN login[c].by ELSE found
    OBVIOUS
  <1>5. PICK pc : pc = IF login[c].intent = "link" THEN "validate"
                       ELSE IF Owners(s) = {} THEN "resolve" ELSE "revoke"
    OBVIOUS
  <1>6. user \in Accounts \union {None}
    BY <1>1, <1>3, <1>4, OwnersOne DEF Login
  <1>7. PICK r : r = [NoLogin EXCEPT !.wire = wire, !.subject = s, !.user = user, !.pc = pc]
    OBVIOUS
  <1>8. /\ r \in Login /\ r.pc = pc /\ r.wire = wire /\ r.subject = s /\ r.user = user
        /\ r.pc \in {"validate", "resolve", "revoke"}
    BY <1>5, <1>6, <1>7, NoLoginType DEF Login
  <1>9. login' = [login EXCEPT ![c] = r]
    BY <1>2, <1>3, <1>4, <1>5, <1>7 DEF FindUser
  <1>10. LoginFits(r)
    <2>1. r.pc = "validate" => user \in 1..users
      BY <1>1, <1>4, <1>5, <1>8 DEF LoginFits
    <2>2. r.pc = "revoke" => user \in 1..users /\ Owners(s) = {user}
      BY <1>3, <1>4, <1>5, <1>8, OwnersOne
    <2> QED
      BY <1>1, <1>2, <1>8, <2>1, <2>2 DEF LoginFits
  <1> QED
    BY <1>8, <1>9, <1>10, LoginMoves, TransitionsStay DEF FindUser, accounts

LEMMA ValidateLinkFits ==
    ASSUME AccountsFit, NEW c \in Logins, ValidateLink(c)
    PROVE  AccountsFit'
  <1>1. /\ transition' = transition /\ users' = users /\ UNCHANGED <<accounts, sessions>>
        /\ login[c].pc = "validate"
    BY DEF ValidateLink, accounts, LoginAt
  <1>2. LoginGoto(c, "link") \/ LoginReturn(c)
    BY DEF ValidateLink
  <1> QED
    BY <1>1, <1>2, LoginGoes, LoginReturns, TransitionsStay

LEMMA ResolveUserFits ==
    ASSUME AccountsFit, NEW c \in Logins, ResolveUser(c)
    PROVE  AccountsFit'
  <1>1. login[c] \in Login /\ LoginFits(login[c])
    BY DEF AccountsFit, LoginTypeOK
  <1>2. PICK s : s = login[c].subject
    OBVIOUS
  <1>3. PICK email : email = IF s \in Federated THEN EmailClaim[s] ELSE s
    OBVIOUS
  <1>4. transition' = transition /\ users' = users /\ UNCHANGED <<accounts, sessions>>
    BY DEF ResolveUser, accounts
  <1>5. CASE s \in Passkeys
    <2>1. login' = [login EXCEPT ![c] = NoLogin]
      BY <1>2, <1>5 DEF ResolveUser
    <2> QED
      BY <1>4, <2>1, LoginReturns, TransitionsStay DEF LoginReturn
  <1>6. CASE s \notin Passkeys /\ Owners(email) = {}
    <2>1. PICK r : r = [login[c] EXCEPT !.pc = "create"]
      OBVIOUS
    <2>2. login' = [login EXCEPT ![c] = r]
      BY <1>2, <1>3, <1>6, <2>1 DEF ResolveUser
    <2>3. r \in Login /\ r.pc = "create" /\ r.wire = login[c].wire
      BY <1>1, <2>1 DEF Login
    <2>4. LoginFits(r)
      BY <1>1, <2>3 DEF LoginFits
    <2> QED
      BY <1>4, <2>2, <2>3, <2>4, LoginMoves, TransitionsStay
  <1>7. CASE s \notin Passkeys /\ Owners(email) # {}
    <2>1. PICK u \in Owners(email) : u = CHOOSE v \in Owners(email) : TRUE
      BY <1>7
    <2>2. u \in 1..users /\ u \in Accounts
      BY OwnersOne
    <2>3. PICK r : r = [login[c] EXCEPT !.pc = "link", !.user = u]
      OBVIOUS
    <2>4. login' = [login EXCEPT ![c] = r]
      BY <1>2, <1>3, <1>7, <2>1, <2>3 DEF ResolveUser
    <2>5. r \in Login /\ r.pc = "link" /\ r.wire = login[c].wire /\ r.user = u
      BY <1>1, <2>2, <2>3 DEF Login
    <2>6. LoginFits(r)
      BY <1>1, <2>2, <2>5 DEF LoginFits
    <2> QED
      BY <1>4, <2>4, <2>5, <2>6, LoginMoves, TransitionsStay
  <1> QED
    BY <1>5, <1>6, <1>7

LEMMA CreateUserFits ==
    ASSUME AccountsFit, NEW c \in Logins, CreateUser(c)
    PROVE  AccountsFit'
  <1>1. /\ login[c] \in Login /\ LoginFits(login[c]) /\ users \in 0..MaxUsers /\ MaxUsers \in Nat
        /\ users' = users + 1 /\ users < MaxUsers
    BY LoginAssumption DEF AccountsFit, LoginTypeOK, CreateUser
  <1>2. PICK u \in Accounts : u = users + 1
    BY <1>1 DEF Accounts
  <1>3. PICK r : r = [login[c] EXCEPT !.pc = "link", !.user = u]
    OBVIOUS
  <1>4. login' = [login EXCEPT ![c] = r]
    BY <1>2, <1>3 DEF CreateUser
  <1>5. r \in Login /\ r.pc = "link" /\ r.wire = login[c].wire /\ r.user = u
    BY <1>1, <1>2, <1>3 DEF Login
  <1>6. /\ identities' = identities /\ primary' = primary /\ transition' = transition
        /\ sessions' = sessions
    BY DEF CreateUser
  <1>7. users' \in 0..MaxUsers /\ 1..users \subseteq 1..users' /\ u \in 1..users'
    BY <1>1, <1>2
  <1>8. \A x : Owners(x)' = Owners(x)
    BY <1>6, OwnersKept
  <1>9. LoginTypeOK'
    <2>1. identities \subseteq [user: 1..users', subject: Subjects]
      BY <1>7 DEF AccountsFit, LoginTypeOK
    <2>2. login' \in [Logins -> Login]
      BY <1>4, <1>5 DEF AccountsFit, LoginTypeOK
    <2> QED
      BY <1>6, <1>7, <2>1, <2>2 DEF AccountsFit, LoginTypeOK
  <1>10. \A d \in Logins : LoginFits(login[d])'
    <2>1. SUFFICES ASSUME NEW d \in Logins
                   PROVE  LoginFits(login[d])'
      OBVIOUS
    <2>2. CASE d = c
      <3>1. login'[c] = r
        BY <1>4 DEF AccountsFit, LoginTypeOK
      <3>2. LoginFits(login[c])' <=> LoginFits(r)'
        BY <3>1 DEF LoginFits
      <3>3. LoginFits(r)'
        BY <1>1, <1>5, <1>6, <1>7 DEF LoginFits
      <3> QED
        BY <2>2, <3>2, <3>3
    <2>3. CASE d # c
      <3>1. PICK q : q = login[d] /\ q = login'[d] /\ LoginFits(q)
        BY <1>4, <2>3 DEF AccountsFit, LoginTypeOK
      <3>2. Owners(q.subject)' = Owners(q.subject)
        BY <1>8
      <3> QED
        BY <1>6, <1>7, <3>1, <3>2 DEF LoginFits
    <2> QED
      BY <2>2, <2>3
  <1>11. \A t \in Transitions : TransitionFits(t)'
    BY <1>6, <1>7 DEF AccountsFit, TransitionFits
  <1>12. \A n \in DOMAIN sessions' : SessionFits(n)'
    BY <1>6, <1>7, <1>8 DEF AccountsFit, SessionFits
  <1> QED
    BY <1>6, <1>9, <1>10, <1>11, <1>12 DEF AccountsFit, OneOwner

LEMMA BeginLinkFits ==
    ASSUME AccountsFit, NEW c \in Logins, BeginLink(c)
    PROVE  AccountsFit'
  <1>1. login[c] \in Login /\ LoginFits(login[c]) /\ login[c].pc = "link"
    BY DEF AccountsFit, LoginTypeOK, BeginLink, LoginAt
  <1>2. transition' = transition /\ users' = users /\ UNCHANGED <<accounts, sessions>>
    BY DEF BeginLink, accounts
  <1>3. CASE Identity(c) \in identities
    BY <1>2, <1>3, LoginReturns, TransitionsStay DEF BeginLink
  <1>4. CASE Identity(c) \notin identities
    <2>1. PICK has \in BOOLEAN : has = \E s \in primary : login[c].user \in Owners(s)
      OBVIOUS
    <2>2. PICK r : r = [login[c] EXCEPT !.pc = "commit", !.hasPrimary = has]
      OBVIOUS
    <2>3. login' = [login EXCEPT ![c] = r]
      BY <1>4, <2>1, <2>2 DEF BeginLink
    <2>4. r \in Login /\ r.pc = "commit" /\ r.wire = login[c].wire /\ r.user = login[c].user
      BY <1>1, <2>2 DEF Login
    <2>5. LoginFits(r)
      BY <1>1, <2>4 DEF LoginFits
    <2> QED
      BY <1>2, <2>3, <2>4, <2>5, LoginMoves, TransitionsStay
  <1> QED
    BY <1>3, <1>4

LEMMA CommitLinkFits ==
    ASSUME AccountsFit, NEW c \in Logins, CommitLink(c)
    PROVE  AccountsFit'
  <1>1. login[c] \in Login /\ LoginFits(login[c]) /\ login[c].pc = "commit"
    BY DEF AccountsFit, LoginTypeOK, CommitLink, LoginAt
  <1>2. transition' = transition /\ users' = users /\ sessions' = sessions
    BY DEF CommitLink
  <1>3. CASE Taken(c)
    BY <1>2, <1>3, LoginReturns, TransitionsStay DEF CommitLink, accounts
  <1>4. CASE ~Taken(c)
    <2>1. PICK s \in Subjects, u \in 1..users : s = login[c].subject /\ u = login[c].user
      BY <1>1 DEF Login, LoginFits
    <2>2. PICK new \in [user: 1..users, subject: Subjects] :
             new = Identity(c) /\ new.user = u /\ new.subject = s
      <3>1. PICK new : new = [user |-> u, subject |-> s]
        OBVIOUS
      <3>2. new \in [user: 1..users, subject: Subjects] /\ new.user = u /\ new.subject = s
        BY <3>1
      <3>3. new = Identity(c)
        BY <2>1, <3>1 DEF Identity
      <3> QED
        BY <3>2, <3>3
    <2>3. identities' = identities \union {new}
      BY <1>4, <2>2 DEF CommitLink
    <2>4. Owners(s) = {} /\ \A i \in identities : i.subject # s
      BY <1>4, <2>1 DEF Taken, Owners
    <2>5. /\ Owners(s)' = {u}
          /\ \A x : x # s => Owners(x)' = Owners(x)
      BY <2>2, <2>3, <2>4 DEF Owners
    <2>6. PICK r : r = [login[c] EXCEPT !.pc = "revoke", !.hasPrimary = FALSE]
      OBVIOUS
    <2>7. login' = [login EXCEPT ![c] = r]
      BY <1>4, <2>6 DEF CommitLink
    <2>8. r \in Login /\ r.pc = "revoke" /\ r.wire = login[c].wire /\ r.user = u /\ r.subject = s
      BY <1>1, <2>1, <2>6 DEF Login
    <2>9. primary' \subseteq {x \in Emails : \E i \in identities' : i.subject = x}
      <3>1. primary' \subseteq primary \union ({s} \intersect Emails)
        BY <1>4, <2>1 DEF CommitLink
      <3> QED
        BY <2>2, <2>3, <3>1 DEF AccountsFit, LoginTypeOK
    <2>10. LoginTypeOK'
      <3>1. identities' \subseteq [user: 1..users, subject: Subjects]
        BY <2>3 DEF AccountsFit, LoginTypeOK
      <3>2. login' \in [Logins -> Login]
        BY <2>7, <2>8 DEF AccountsFit, LoginTypeOK
      <3> QED
        BY <1>2, <2>9, <3>1, <3>2 DEF AccountsFit, LoginTypeOK
    <2>11. OneOwner'
      BY <2>2, <2>3, <2>4 DEF AccountsFit, OneOwner
    <2>12. \A d \in Logins : LoginFits(login[d])'
      <3>1. SUFFICES ASSUME NEW d \in Logins
                     PROVE  LoginFits(login[d])'
        OBVIOUS
      <3>2. CASE d = c
        <4>1. PICK q : q = r /\ q = login'[d]
          BY <2>7, <3>2 DEF AccountsFit, LoginTypeOK
        <4>2. q.subject = s /\ q.user = u /\ q.pc = "revoke" /\ q.wire \in 0..Len(sessions)
          BY <1>1, <2>8, <4>1 DEF LoginFits
        <4>3. Owners(q.subject)' = {q.user}
          BY <2>5, <4>2
        <4> QED
          BY <1>2, <4>1, <4>2, <4>3 DEF LoginFits
      <3>3. CASE d # c
        <4>1. PICK q : q = login[d] /\ q = login'[d] /\ LoginFits(q)
          BY <2>7, <3>3 DEF AccountsFit, LoginTypeOK
        <4>2. q.pc \in {"revoke", "issue"} => q.subject # s /\ Owners(q.subject)' = {q.user}
          BY <2>4, <2>5, <4>1 DEF LoginFits
        <4> QED
          BY <1>2, <4>1, <4>2 DEF LoginFits
      <3> QED
        BY <3>2, <3>3
    <2>13. \A n \in DOMAIN sessions' : SessionFits(n)'
      <3>1. SUFFICES ASSUME NEW n \in DOMAIN sessions
                     PROVE  SessionFits(n)'
        BY <1>2
      <3>2. SessionFits(n)
        BY DEF AccountsFit
      <3>3. PICK x : x = sessions[n].subject
        OBVIOUS
      <3>4. x # s /\ Owners(x)' = Owners(x)
        BY <2>4, <2>5, <3>2, <3>3 DEF SessionFits
      <3> QED
        BY <1>2, <3>2, <3>3, <3>4 DEF SessionFits
    <2>14. \A t \in Transitions : TransitionFits(t)'
      BY <1>2, TransitionsStay
    <2> QED
      BY <1>2, <2>10, <2>11, <2>12, <2>13, <2>14 DEF AccountsFit
  <1> QED
    BY <1>3, <1>4

LEMMA RevokeWireFits ==
    ASSUME AccountsFit, NEW c \in Logins, RevokeWire(c)
    PROVE  AccountsFit'
  <1>1. login[c] \in Login /\ LoginFits(login[c]) /\ login[c].pc = "revoke"
    BY DEF AccountsFit, LoginTypeOK, RevokeWire, LoginAt
  <1>2. /\ transition' = transition /\ users' = users /\ identities' = identities
        /\ primary' = primary
    BY DEF RevokeWire, accounts
  <1>3. /\ sessions' \in Seq(LoggedIn) /\ Len(sessions') = Len(sessions)
        /\ \A n \in DOMAIN sessions : sessions'[n].user = sessions[n].user
                                    /\ sessions'[n].subject = sessions[n].subject
    <2>1. CASE login[c].wire = None
      BY <2>1 DEF RevokeWire, AccountsFit, LoginTypeOK
    <2>2. CASE login[c].wire # None
      <3>1. PICK w \in DOMAIN sessions : w = login[c].wire
        BY <1>1, <2>2 DEF AccountsFit, LoginTypeOK, LoginFits, None
      <3>2. PICK x : x = [sessions[w] EXCEPT !.live = FALSE]
        OBVIOUS
      <3>3. sessions[w] \in LoggedIn
        BY DEF AccountsFit, LoginTypeOK
      <3>4. x \in LoggedIn /\ x.user = sessions[w].user /\ x.subject = sessions[w].subject
        BY <3>2, <3>3 DEF LoggedIn
      <3>5. sessions' = [sessions EXCEPT ![w] = x]
        BY <2>2, <3>1, <3>2 DEF RevokeWire
      <3> QED
        BY <3>4, <3>5 DEF AccountsFit, LoginTypeOK
    <2> QED
      BY <2>1, <2>2
  <1>4. DOMAIN sessions' = DOMAIN sessions
    BY <1>3 DEF AccountsFit, LoginTypeOK
  <1>5. \A x : Owners(x)' = Owners(x)
    BY <1>2, OwnersKept
  <1>6. PICK r : r = [login[c] EXCEPT !.pc = "issue"]
    OBVIOUS
  <1>7. /\ r \in Login /\ r.pc = "issue" /\ r.wire = login[c].wire /\ r.user = login[c].user
        /\ r.subject = login[c].subject
    BY <1>1, <1>6 DEF Login
  <1>8. login' = [login EXCEPT ![c] = r]
    BY <1>6 DEF RevokeWire, LoginGoto
  <1>9. LoginFits(r)
    BY <1>1, <1>7 DEF LoginFits
  <1>10. LoginTypeOK'
    BY <1>2, <1>3, <1>7, <1>8 DEF AccountsFit, LoginTypeOK
  <1>11. \A d \in Logins : LoginFits(login[d])'
    <2>1. SUFFICES ASSUME NEW d \in Logins
                   PROVE  LoginFits(login[d])'
      OBVIOUS
    <2>2. PICK q : q = login'[d] /\ LoginFits(q)
      BY <1>7, <1>8, <1>9 DEF AccountsFit, LoginTypeOK
    <2>3. Owners(q.subject)' = Owners(q.subject)
      BY <1>5
    <2> QED
      BY <1>2, <1>3, <2>2, <2>3 DEF LoginFits
  <1>12. \A n \in DOMAIN sessions' : SessionFits(n)'
    <2>1. SUFFICES ASSUME NEW n \in DOMAIN sessions
                   PROVE  SessionFits(n)'
      BY <1>4
    <2>2. SessionFits(n)
      BY DEF AccountsFit
    <2>3. PICK x : x = sessions[n].subject /\ x = sessions'[n].subject
      BY <1>3
    <2>4. Owners(x)' = Owners(x)
      BY <1>5
    <2> QED
      BY <1>2, <1>3, <2>2, <2>3, <2>4 DEF SessionFits
  <1> QED
    BY <1>2, <1>3, <1>10, <1>11, <1>12, TransitionsStay DEF AccountsFit, OneOwner

LEMMA IssueSessionFits ==
    ASSUME AccountsFit, NEW c \in Logins, IssueSession(c)
    PROVE  AccountsFit'
  <1>1. login[c] \in Login /\ LoginFits(login[c]) /\ login[c].pc = "issue"
    BY DEF AccountsFit, LoginTypeOK, IssueSession, LoginAt
  <1>2. /\ transition' = transition /\ users' = users /\ identities' = identities
        /\ primary' = primary
    BY DEF IssueSession, accounts
  <1>3. PICK x : x = [user |-> login[c].user, subject |-> login[c].subject, live |-> TRUE]
    OBVIOUS
  <1>4. x \in LoggedIn /\ x.user \in 1..users /\ Owners(x.subject) = {x.user}
    <2>1. login[c].user \in 1..users /\ Owners(login[c].subject) = {login[c].user}
      BY <1>1 DEF LoginFits
    <2>2. 1..users \subseteq Accounts
      BY LoginAssumption DEF AccountsFit, LoginTypeOK, Accounts
    <2> QED
      BY <1>1, <1>3, <2>1, <2>2 DEF LoggedIn, Login
  <1>5. sessions' = Append(sessions, x) /\ Len(sessions) < MaxSessions
    BY <1>3 DEF IssueSession
  <1>6. /\ sessions' \in Seq(LoggedIn) /\ Len(sessions') = Len(sessions) + 1
        /\ Len(sessions) \in Nat /\ DOMAIN sessions' = DOMAIN sessions \union {Len(sessions')}
        /\ sessions'[Len(sessions')] = x
        /\ \A n \in DOMAIN sessions : sessions'[n] = sessions[n]
    BY <1>4, <1>5 DEF AccountsFit, LoginTypeOK
  <1>7. Len(sessions') <= MaxSessions /\ 0..Len(sessions) \subseteq 0..Len(sessions')
    BY <1>5, <1>6, LoginAssumption
  <1>8. \A s : Owners(s)' = Owners(s)
    BY <1>2, OwnersKept
  <1>9. login' = [login EXCEPT ![c] = NoLogin]
    BY DEF IssueSession, LoginReturn
  <1>10. LoginTypeOK'
    BY <1>2, <1>6, <1>9, NoLoginType DEF AccountsFit, LoginTypeOK
  <1>11. \A d \in Logins : LoginFits(login[d])'
    <2>1. SUFFICES ASSUME NEW d \in Logins
                   PROVE  LoginFits(login[d])'
      OBVIOUS
    <2>2. PICK q : q = login'[d] /\ LoginFits(q)
      BY <1>9, NoLoginFits DEF AccountsFit, LoginTypeOK
    <2>3. Owners(q.subject)' = Owners(q.subject)
      BY <1>8
    <2> QED
      BY <1>2, <1>7, <2>2, <2>3 DEF LoginFits
  <1>12. \A n \in DOMAIN sessions' : SessionFits(n)'
    <2>1. SUFFICES ASSUME NEW n \in DOMAIN sessions'
                   PROVE  SessionFits(n)'
      OBVIOUS
    <2>2. PICK q : q = sessions'[n] /\ q.user \in 1..users /\ Owners(q.subject) = {q.user}
      BY <1>4, <1>6 DEF AccountsFit, SessionFits
    <2>3. Owners(q.subject)' = Owners(q.subject)
      BY <1>8
    <2> QED
      BY <1>2, <2>2, <2>3 DEF SessionFits
  <1> QED
    BY <1>2, <1>7, <1>10, <1>11, <1>12, TransitionsStay DEF AccountsFit, OneOwner

\* The transition of a call that has one to count or to delete becomes faulty.
LEMMA FaultyFits ==
    ASSUME AccountsFit, NEW t \in Transitions, users' = users,
           transition' = [transition EXCEPT ![t].faulty = TRUE]
    PROVE  /\ transition' \in [Transitions -> Transition]
           /\ \A i \in Transitions : TransitionFits(i)'
  <1>1. transition[t] \in Transition
    BY DEF AccountsFit, LoginTypeOK
  <1>2. PICK w : w = [transition[t] EXCEPT !.faulty = TRUE]
    OBVIOUS
  <1>3. /\ w \in Transition /\ w.open = transition[t].open
        /\ w.intent = transition[t].intent /\ w.by = transition[t].by
    BY <1>1, <1>2 DEF Transition
  <1>4. transition' = [transition EXCEPT ![t] = w]
    BY <1>2
  <1> QED
    BY <1>3, <1>4, TransitionMoves

LEMMA LoginFailsFits ==
    ASSUME AccountsFit, NEW c \in Logins, LoginFails(c)
    PROVE  AccountsFit'
  <1>1. UNCHANGED <<accounts, sessions>> /\ users' = users /\ LoginReturn(c)
    BY DEF LoginFails, accounts
  <1>2. CASE login[c].pc \in {"count", "increment", "drop", "close", "shut"}
    <2>1. PICK t \in Transitions : t = login[c].t
      BY <1>2 DEF AccountsFit, LoginFits
    <2>2. transition' = [transition EXCEPT ![t].faulty = TRUE]
      BY <1>2, <2>1 DEF LoginFails
    <2> QED
      BY <1>1, <2>2, FaultyFits, LoginReturns
  <1>3. CASE login[c].pc \notin {"count", "increment", "drop", "close", "shut"}
    BY <1>1, <1>3, TransitionsStay, LoginReturns DEF LoginFails
  <1> QED
    BY <1>2, <1>3

LEMMA ErrorIgnoredFits ==
    ASSUME AccountsFit, NEW c \in Logins, ErrorIgnored(c)
    PROVE  AccountsFit'
  <1>1. UNCHANGED <<accounts, sessions>> /\ users' = users
    BY DEF ErrorIgnored, accounts
  <1>2. transition' \in [Transitions -> Transition] /\ \A t \in Transitions : TransitionFits(t)'
    <2>1. CASE login[c].pc = "shut"
      <3>1. PICK t \in Transitions : t = login[c].t
        BY <2>1 DEF AccountsFit, LoginFits
      <3>2. transition' = [transition EXCEPT ![t].faulty = TRUE]
        BY <2>1, <3>1 DEF ErrorIgnored, LoginAt
      <3> QED
        BY <1>1, <3>2, FaultyFits
    <2>2. CASE login[c].pc # "shut"
      BY <1>1, <2>2, TransitionsStay DEF ErrorIgnored, LoginAt
    <2> QED
      BY <2>1, <2>2
  <1>3. \/ login[c].pc = "drop" /\ LoginGoto(c, "close")
        \/ login[c].pc = "taken" /\ LoginGoto(c, "shut")
        \/ login[c].pc = "shut" /\ LoginGoto(c, "find")
        \/ login[c].pc = "revoke" /\ LoginGoto(c, "issue")
    BY DEF ErrorIgnored, LoginAt
  <1> QED
    BY <1>1, <1>2, <1>3, LoginGoes

LEMMA AccountsFitNext ==
    ASSUME AccountsFit, [LoginNext]_loginVars
    PROVE  AccountsFit'
  <1>1. CASE LoginNext
    BY <1>1, StartLoginFits, ContinueLoginFits, ProveFits, CountAttemptFits,
       IncrementAttemptsFits, DeleteAttemptsFits, DeleteTransitionFits, TakeTransitionFits,
       FindUserFits, ValidateLinkFits, ResolveUserFits, CreateUserFits, BeginLinkFits,
       CommitLinkFits, RevokeWireFits, IssueSessionFits, TransitionStepFits, LoginFailsFits,
       ErrorIgnoredFits
       DEF LoginNext, LoginSteps, LoginEvents
  <1>2. CASE UNCHANGED loginVars
    <2>1. /\ users' = users /\ identities' = identities /\ primary' = primary
          /\ transition' = transition /\ login' = login /\ sessions' = sessions
      BY <1>2 DEF loginVars
    <2> QED
      BY <2>1 DEF AccountsFit, LoginTypeOK, OneOwner, TransitionFits, LoginFits, SessionFits, Owners
  <1> QED
    BY <1>1, <1>2

-----------------------------------------------------------------------------
(* The counts: which calls count or delete, and how many they are.         *)

\* Where a call is one of those that Counting and Deleting count.
Busy == {"count", "increment", "drop", "close", "shut"}

LEMMA CountsType ==
    ASSUME NEW t
    PROVE  /\ IsFiniteSet(Counting(t)) /\ Cardinality(Counting(t)) \in Nat
           /\ IsFiniteSet(Deleting(t)) /\ Cardinality(Deleting(t)) \in Nat
           /\ Cardinality(Logins) \in Nat
  <1>1. IsFiniteSet(Logins) /\ Counting(t) \subseteq Logins /\ Deleting(t) \subseteq Logins
    BY LoginAssumption DEF Counting, Deleting
  <1>2. IsFiniteSet(Counting(t)) /\ IsFiniteSet(Deleting(t))
    BY <1>1, FS_Subset
  <1> QED
    BY <1>1, <1>2, FS_CardinalityType

LEMMA CountsTypeNext ==
    ASSUME NEW t
    PROVE  /\ IsFiniteSet(Counting(t)') /\ Cardinality(Counting(t)') \in Nat
           /\ IsFiniteSet(Deleting(t)') /\ Cardinality(Deleting(t)') \in Nat
  <1>1. IsFiniteSet(Logins) /\ Counting(t)' \subseteq Logins /\ Deleting(t)' \subseteq Logins
    BY LoginAssumption DEF Counting, Deleting
  <1>2. IsFiniteSet(Counting(t)') /\ IsFiniteSet(Deleting(t)')
    BY <1>1, FS_Subset
  <1> QED
    BY <1>1, <1>2, FS_CardinalityType

\* A set that at most gains or loses one element.
LEMMA OneMore ==
    ASSUME NEW S, NEW T, NEW c, IsFiniteSet(S), IsFiniteSet(T), S \ {c} = T \ {c}
    PROVE  /\ (c \in S <=> c \in T) => Cardinality(T) = Cardinality(S)
           /\ c \notin S /\ c \in T => Cardinality(T) = Cardinality(S) + 1
           /\ c \in S /\ c \notin T => Cardinality(S) = Cardinality(T) + 1
  <1>1. CASE c \in S <=> c \in T
    <2>1. S = T
      BY <1>1
    <2> QED
      BY <1>1, <2>1
  <1>2. CASE c \notin S /\ c \in T
    <2>1. T = S \union {c}
      BY <1>2
    <2> QED
      BY <1>2, <2>1, FS_AddElement
  <1>3. CASE c \in S /\ c \notin T
    <2>1. S = T \union {c}
      BY <1>3
    <2> QED
      BY <1>3, <2>1, FS_AddElement
  <1> QED
    BY <1>1, <1>2, <1>3

LEMMA CountsMove ==
    ASSUME NEW c \in Logins, NEW t, \A d \in Logins \ {c} : login'[d] = login[d]
    PROVE  /\ (c \in Counting(t) <=> c \in Counting(t)')
                 => Cardinality(Counting(t)') = Cardinality(Counting(t))
           /\ c \notin Counting(t) /\ c \in Counting(t)'
                 => Cardinality(Counting(t)') = Cardinality(Counting(t)) + 1
           /\ c \in Counting(t) /\ c \notin Counting(t)'
                 => Cardinality(Counting(t)) = Cardinality(Counting(t)') + 1
           /\ (c \in Deleting(t) <=> c \in Deleting(t)')
                 => Cardinality(Deleting(t)') = Cardinality(Deleting(t))
           /\ c \notin Deleting(t) /\ c \in Deleting(t)'
                 => Cardinality(Deleting(t)') = Cardinality(Deleting(t)) + 1
  <1>1. Counting(t) \ {c} = Counting(t)' \ {c} /\ Deleting(t) \ {c} = Deleting(t)' \ {c}
    BY DEF Counting, Deleting
  <1>2. PICK S, T : S = Counting(t) /\ T = Counting(t)'
    OBVIOUS
  <1>3. PICK D, E : D = Deleting(t) /\ E = Deleting(t)'
    OBVIOUS
  <1>4. IsFiniteSet(S) /\ IsFiniteSet(T) /\ IsFiniteSet(D) /\ IsFiniteSet(E)
    BY <1>2, <1>3, CountsType, CountsTypeNext
  <1>5. /\ (c \in S <=> c \in T) => Cardinality(T) = Cardinality(S)
        /\ c \notin S /\ c \in T => Cardinality(T) = Cardinality(S) + 1
        /\ c \in S /\ c \notin T => Cardinality(S) = Cardinality(T) + 1
    BY <1>1, <1>2, <1>4, OneMore
  <1>6. /\ (c \in D <=> c \in E) => Cardinality(E) = Cardinality(D)
        /\ c \notin D /\ c \in E => Cardinality(E) = Cardinality(D) + 1
    BY <1>1, <1>3, <1>4, OneMore
  <1> QED
    BY <1>2, <1>3, <1>5, <1>6

\* A call that is elsewhere leaves room for one more.
LEMMA CountsRoom ==
    ASSUME NEW t, NEW c \in Logins, c \notin Counting(t), c \notin Deleting(t)
    PROVE  Cardinality(Counting(t)) + Cardinality(Deleting(t)) + 1 <= Cardinality(Logins)
  <1>1. PICK S, D : S = Counting(t) /\ D = Deleting(t)
    OBVIOUS
  <1>2. IsFiniteSet(S) /\ IsFiniteSet(D) /\ S \intersect D = {}
    BY <1>1, CountsType DEF Counting, Deleting
  <1>3. /\ IsFiniteSet(S \union D)
        /\ Cardinality(S \union D) = Cardinality(S) + Cardinality(D) - Cardinality(S \intersect D)
    BY <1>2, FS_Union
  <1>4. Cardinality(S \intersect D) = 0
    BY <1>2, FS_EmptySet
  <1>5. c \notin S \union D /\ (S \union D) \union {c} \subseteq Logins
    BY <1>1 DEF Counting, Deleting
  <1>6. /\ IsFiniteSet((S \union D) \union {c})
        /\ Cardinality((S \union D) \union {c}) = Cardinality(S \union D) + 1
    BY <1>3, <1>5, FS_AddElement
  <1>7. Cardinality((S \union D) \union {c}) <= Cardinality(Logins)
    BY <1>5, FS_Subset, LoginAssumption
  <1>8. Cardinality(S) \in Nat /\ Cardinality(D) \in Nat /\ Cardinality(Logins) \in Nat
    BY <1>1, CountsType
  <1> QED
    BY <1>1, <1>3, <1>4, <1>6, <1>7, <1>8

LEMMA OneMoreTimes ==
    ASSUME NEW a \in Nat, NEW b \in Nat
    PROVE  a * b \in Nat /\ (a + 1) * b = a * b + b
  OBVIOUS

LEMMA BalanceType ==
    ASSUME AccountsFit, NEW t \in Transitions
    PROVE  /\ Counted(t) \in Nat /\ Counted(t) + 1 <= maxAuthAttempts
           /\ Balance(t) \in Nat /\ transition[t].failures \in Nat
           /\ transition[t].attempts \in 0..maxAuthAttempts
  <1>1. PICK a \in 0..maxAuthAttempts : a = transition[t].attempts
    BY DEF AccountsFit, LoginTypeOK, Transition
  <1>2. Counted(t) \in Nat /\ Counted(t) + 1 <= maxAuthAttempts
    BY <1>1, LoginAssumption DEF Counted
  <1>3. Cardinality(Deleting(t)) * maxAuthAttempts \in Nat
    BY CountsType, OneMoreTimes, LoginAssumption
  <1>4. transition[t].failures \in Nat
    BY DEF AccountsFit, LoginTypeOK, Transition
  <1> QED
    BY <1>1, <1>2, <1>3, <1>4, CountsType DEF Balance

LEMMA BalanceTypeNext ==
    ASSUME AccountsFit', NEW t \in Transitions
    PROVE  /\ Counted(t)' \in Nat /\ Counted(t)' + 1 <= maxAuthAttempts
           /\ Balance(t)' \in Nat /\ transition'[t].failures \in Nat
  <1>1. PICK a \in 0..maxAuthAttempts : a = transition'[t].attempts
    BY DEF AccountsFit, LoginTypeOK, Transition
  <1>2. Counted(t)' \in Nat /\ Counted(t)' + 1 <= maxAuthAttempts
    BY <1>1, LoginAssumption DEF Counted
  <1>3. Cardinality(Deleting(t)') * maxAuthAttempts \in Nat
    BY CountsTypeNext, OneMoreTimes, LoginAssumption
  <1>4. transition'[t].failures \in Nat
    BY DEF AccountsFit, LoginTypeOK, Transition
  <1> QED
    BY <1>1, <1>2, <1>3, <1>4, CountsTypeNext DEF Balance

\* A call that begins to delete is worth maxAuthAttempts.
LEMMA BalanceKept ==
    ASSUME AccountsFit, AccountsFit', NEW t \in Transitions,
           \/ /\ Cardinality(Deleting(t)') = Cardinality(Deleting(t))
              /\ Counted(t) + Cardinality(Counting(t))
                    <= Counted(t)' + Cardinality(Counting(t)')
           \/ /\ Cardinality(Deleting(t)') = Cardinality(Deleting(t)) + 1
              /\ Counted(t) + Cardinality(Counting(t))
                    <= Counted(t)' + Cardinality(Counting(t)') + maxAuthAttempts
    PROVE  Balance(t) <= Balance(t)'
  <1>1. PICK a \in Nat, b \in Nat : a = Counted(t) /\ b = Counted(t)'
    BY BalanceType, BalanceTypeNext
  <1>2. PICK p \in Nat, q \in Nat :
           p = Cardinality(Counting(t)) /\ q = Cardinality(Counting(t)')
    BY CountsType, CountsTypeNext
  <1>3. PICK d \in Nat, e \in Nat :
           d = Cardinality(Deleting(t)) /\ e = Cardinality(Deleting(t)')
    BY CountsType, CountsTypeNext
  <1>4. PICK m \in Nat : m = maxAuthAttempts
    BY LoginAssumption
  <1>5. Balance(t) = a + p + d * m /\ Balance(t)' = b + q + e * m
    BY <1>1, <1>2, <1>3, <1>4 DEF Balance
  <1>6. d * m \in Nat /\ (d + 1) * m = d * m + m
    BY OneMoreTimes
  <1>7. CASE e = d /\ a + p <= b + q
    BY <1>5, <1>6, <1>7
  <1>8. CASE e = d + 1 /\ a + p <= b + q + m
    <2>1. e * m = d * m + m
      BY <1>6, <1>8
    <2> QED
      BY <1>5, <1>6, <1>8, <2>1
  <1> QED
    BY <1>1, <1>2, <1>3, <1>4, <1>7, <1>8

LEMMA FailuresKept ==
    ASSUME AccountsFit, AccountsFit', NEW t \in Transitions, FailuresCounted(t),
           transition'[t].failures = transition[t].failures,
           transition'[t].open /\ ~transition'[t].faulty =>
              /\ transition[t].open /\ ~transition[t].faulty
              /\ Balance(t) <= Balance(t)'
    PROVE  FailuresCounted(t)'
  <1>1. PICK f \in Nat, b \in Nat, e \in Nat :
           /\ f = transition[t].failures /\ f = transition'[t].failures
           /\ b = Balance(t) /\ e = Balance(t)'
    BY BalanceType, BalanceTypeNext
  <1> QED
    BY <1>1 DEF FailuresCounted

\* The call moves where nothing is counted, or on another transition.
LEMMA FailuresElsewhere ==
    ASSUME AccountsFit, AccountsFit', NEW c \in Logins, NEW t \in Transitions,
           FailuresCounted(t), \A d \in Logins \ {c} : login'[d] = login[d],
           login[c].pc \in Busy => login[c].t # t,
           login'[c].pc \in Busy => login'[c].t # t,
           transition'[t].failures = transition[t].failures,
           transition'[t].attempts = transition[t].attempts,
           transition'[t].open = transition[t].open,
           transition'[t].faulty = transition[t].faulty
    PROVE  FailuresCounted(t)'
  <1>1. /\ c \notin Counting(t) /\ c \notin Counting(t)'
        /\ c \notin Deleting(t) /\ c \notin Deleting(t)'
    BY DEF Counting, Deleting, Busy
  <1>2. /\ Cardinality(Counting(t)') = Cardinality(Counting(t))
        /\ Cardinality(Deleting(t)') = Cardinality(Deleting(t))
    BY <1>1, CountsMove
  <1>3. Counted(t)' = Counted(t)
    BY DEF Counted
  <1>4. Counted(t) + Cardinality(Counting(t)) <= Counted(t)' + Cardinality(Counting(t)')
    BY <1>2, <1>3, BalanceType, CountsType
  <1>5. Balance(t) <= Balance(t)'
    BY <1>2, <1>4, BalanceKept
  <1> QED
    BY <1>5, FailuresKept

\* No call moves.
LEMMA FailuresStay ==
    ASSUME AccountsFit, AccountsFit', NEW t \in Transitions, FailuresCounted(t), login' = login,
           transition'[t].failures = transition[t].failures,
           transition'[t].open =>
              /\ transition[t].open /\ transition'[t].attempts = transition[t].attempts
              /\ transition'[t].faulty = transition[t].faulty
    PROVE  FailuresCounted(t)'
  <1>1. Counting(t)' = Counting(t) /\ Deleting(t)' = Deleting(t)
    BY DEF Counting, Deleting
  <1>2. transition'[t].open => Counted(t)' = Counted(t)
    BY DEF Counted
  <1>3. transition'[t].open => Balance(t) <= Balance(t)'
    BY <1>1, <1>2, BalanceType DEF Balance
  <1> QED
    BY <1>3, FailuresKept

LEMMA StartLoginCounted ==
    ASSUME AccountsFit, AccountsFit', \A i \in Transitions : FailuresCounted(i),
           NEW t \in Transitions, NEW intent \in {"login", "link", "reauth"},
           NEW s \in Subjects, NEW wire \in {None} \union DOMAIN sessions,
           StartLogin(t, intent, s, wire)
    PROVE  \A i \in Transitions : FailuresCounted(i)'
  <1>1. login' = login /\ \A i \in Transitions : i # t => transition'[i] = transition[i]
    BY DEF StartLogin, AccountsFit, LoginTypeOK
  <1>2. transition'[t].failures = 0
    <2>1. PICK w : w = [Closed EXCEPT !.open = TRUE, !.intent = intent, !.subject = s,
                 !.proof = TRUE, !.by = IF wire = None THEN None ELSE sessions[wire].user]
      OBVIOUS
    <2>2. w.failures = 0
      BY <2>1, ClosedType DEF Transition
    <2>3. transition' = [transition EXCEPT ![t] = w]
      BY <2>1 DEF StartLogin
    <2> QED
      BY <2>2, <2>3 DEF AccountsFit, LoginTypeOK
  <1>3. FailuresCounted(t)'
    <2>1. 0 <= Balance(t)'
      BY BalanceTypeNext
    <2>2. Cardinality(Logins) * maxAuthAttempts \in Nat
      BY CountsType, OneMoreTimes, LoginAssumption
    <2> QED
      BY <1>2, <2>1, <2>2 DEF FailuresCounted
  <1>4. \A i \in Transitions : i # t => FailuresCounted(i)'
    BY <1>1, FailuresStay
  <1> QED
    BY <1>3, <1>4

LEMMA TransitionStepCounted ==
    ASSUME AccountsFit, AccountsFit', \A i \in Transitions : FailuresCounted(i),
           NEW t \in Transitions, Renew(t) \/ TransitionExpires(t)
    PROVE  \A i \in Transitions : FailuresCounted(i)'
  <1>1. login' = login /\ \A i \in Transitions : i # t => transition'[i] = transition[i]
    BY DEF Renew, TransitionExpires, AccountsFit, LoginTypeOK
  <1>2. transition[t] \in Transition
    BY DEF AccountsFit, LoginTypeOK
  <1>3. /\ transition'[t].failures = transition[t].failures
        /\ transition'[t].open =>
              /\ transition[t].open /\ transition'[t].attempts = transition[t].attempts
              /\ transition'[t].faulty = transition[t].faulty
    <2>1. CASE Renew(t)
      <3>1. transition'[t] = [transition[t] EXCEPT !.proof = TRUE]
        BY <2>1 DEF Renew, AccountsFit, LoginTypeOK
      <3> QED
        BY <1>2, <3>1 DEF Transition
    <2>2. CASE TransitionExpires(t)
      <3>1. transition'[t] = [Gone(t) EXCEPT !.attempts = 0]
        BY <2>2 DEF TransitionExpires, AccountsFit, LoginTypeOK
      <3>2. /\ Gone(t) \in Transition /\ ~Gone(t).open
            /\ Gone(t).failures = transition[t].failures
        BY GoneType DEF AccountsFit
      <3> QED
        BY <3>1, <3>2 DEF Transition
    <2> QED
      BY <2>1, <2>2
  <1>4. FailuresCounted(t)'
    BY <1>1, <1>3, FailuresStay
  <1>5. \A i \in Transitions : i # t => FailuresCounted(i)'
    BY <1>1, FailuresStay
  <1> QED
    BY <1>4, <1>5

-----------------------------------------------------------------------------
(* Each step of a call, for the failures.                                  *)

LEMMA Returned ==
    ASSUME AccountsFit, NEW c \in Logins, LoginReturn(c)
    PROVE  /\ \A d \in Logins \ {c} : login'[d] = login[d]
           /\ login'[c].pc = "idle" /\ login'[c].pc \notin Busy
  BY NoLoginType DEF LoginReturn, AccountsFit, LoginTypeOK, Busy

LEMMA WentOn ==
    ASSUME AccountsFit, NEW c \in Logins, NEW pc, LoginGoto(c, pc)
    PROVE  /\ \A d \in Logins \ {c} : login'[d] = login[d]
           /\ login'[c].pc = pc /\ login'[c].t = login[c].t
  <1>1. login[c] \in Login
    BY DEF AccountsFit, LoginTypeOK
  <1>2. login'[c] = [login[c] EXCEPT !.pc = pc]
    BY DEF LoginGoto, AccountsFit, LoginTypeOK
  <1>3. \A d \in Logins \ {c} : login'[d] = login[d]
    BY DEF LoginGoto, AccountsFit, LoginTypeOK
  <1> QED
    BY <1>1, <1>2, <1>3 DEF Login

LEMMA Replaced ==
    ASSUME AccountsFit, NEW c \in Logins, NEW r, login' = [login EXCEPT ![c] = r]
    PROVE  (\A d \in Logins \ {c} : login'[d] = login[d]) /\ login'[c] = r
  BY DEF AccountsFit, LoginTypeOK

\* The steps that count nothing.
LEMMA QuietSteps ==
    ASSUME AccountsFit, NEW c \in Logins,
           \/ \E t \in Transitions, wire \in {None} \union DOMAIN sessions :
                 ContinueLogin(c, t, wire)
           \/ TakeTransition(c) \/ FindUser(c) \/ ValidateLink(c) \/ ResolveUser(c)
           \/ CreateUser(c) \/ BeginLink(c) \/ CommitLink(c) \/ RevokeWire(c) \/ IssueSession(c)
    PROVE  /\ transition' = transition /\ \A d \in Logins \ {c} : login'[d] = login[d]
           /\ login[c].pc \notin Busy /\ login'[c].pc \notin Busy
  <1>1. login[c] \in Login /\ login \in [Logins -> Login]
    BY DEF AccountsFit, LoginTypeOK
  <1>2. CASE \E t \in Transitions, wire \in {None} \union DOMAIN sessions :
                ContinueLogin(c, t, wire)
    <2>1. PICK t \in Transitions, wire \in {None} \union DOMAIN sessions : ContinueLogin(c, t, wire)
      BY <1>2
    <2>2. PICK r : r = [NoLogin EXCEPT !.pc = "prove", !.t = t, !.wire = wire,
                                       !.subject = transition[t].subject]
      OBVIOUS
    <2>3. r.pc = "prove"
      BY <2>2, NoLoginType DEF Login
    <2>4. login' = [login EXCEPT ![c] = r] /\ transition' = transition /\ login[c].pc = "idle"
      BY <2>1, <2>2 DEF ContinueLogin, LoginAt
    <2> QED
      BY <2>3, <2>4, Replaced DEF Busy
  <1>3. CASE TakeTransition(c)
    <2>1. CASE transition[login[c].t].open
      <3>1. PICK r : r = [login[c] EXCEPT !.pc = "taken",
                 !.intent = transition[login[c].t].intent, !.by = transition[login[c].t].by]
        OBVIOUS
      <3>2. r.pc = "taken"
        BY <1>1, <3>1 DEF Login
      <3> QED
        BY <1>3, <2>1, <3>1, <3>2, Replaced DEF TakeTransition, LoginAt, Busy
    <2>2. CASE ~transition[login[c].t].open
      BY <1>3, <2>2, Returned DEF TakeTransition, LoginAt, Busy
    <2> QED
      BY <2>1, <2>2
  <1>4. CASE FindUser(c)
    <2>1. PICK pc : pc = IF login[c].intent = "link" THEN "validate"
                         ELSE IF Owners(login[c].subject) = {} THEN "resolve" ELSE "revoke"
      OBVIOUS
    <2>2. PICK user : user = IF login[c].intent = "link" THEN login[c].by
                             ELSE IF Owners(login[c].subject) = {} THEN None
                                  ELSE CHOOSE u \in Owners(login[c].subject) : TRUE
      OBVIOUS
    <2>3. PICK r : r = [NoLogin EXCEPT !.wire = login[c].wire, !.subject = login[c].subject,
                                       !.user = user, !.pc = pc]
      OBVIOUS
    <2>4. r.pc \notin Busy
      BY <2>1, <2>3, NoLoginType DEF Login, Busy
    <2>5. login' = [login EXCEPT ![c] = r]
      BY <1>4, <2>1, <2>2, <2>3 DEF FindUser
    <2> QED
      BY <1>4, <2>4, <2>5, Replaced DEF FindUser, LoginAt, Busy
  <1>5. CASE ValidateLink(c)
    BY <1>1, <1>5, Returned, WentOn DEF ValidateLink, LoginAt, Busy
  <1>6. CASE ResolveUser(c)
    BY <1>1, <1>6, NoLoginType DEF ResolveUser, LoginAt, Busy, Login
  <1>7. CASE CreateUser(c)
    BY <1>1, <1>7 DEF CreateUser, LoginAt, Busy, Login
  <1>8. CASE BeginLink(c)
    <2>1. CASE Identity(c) \in identities
      BY <1>8, <2>1, Returned DEF BeginLink, LoginAt, Busy
    <2>2. CASE Identity(c) \notin identities
      <3>1. PICK has : has = \E s \in primary : login[c].user \in Owners(s)
        OBVIOUS
      <3>2. PICK r : r = [login[c] EXCEPT !.pc = "commit", !.hasPrimary = has]
        OBVIOUS
      <3>3. r.pc = "commit"
        BY <1>1, <3>2 DEF Login
      <3>4. login' = [login EXCEPT ![c] = r]
        BY <1>8, <2>2, <3>1, <3>2 DEF BeginLink
      <3> QED
        BY <1>8, <3>3, <3>4, Replaced DEF BeginLink, LoginAt, Busy
    <2> QED
      BY <2>1, <2>2
  <1>9. CASE CommitLink(c)
    <2>1. CASE Taken(c)
      BY <1>9, <2>1, Returned DEF CommitLink, LoginAt, Busy
    <2>2. CASE ~Taken(c)
      <3>1. PICK r : r = [login[c] EXCEPT !.pc = "revoke", !.hasPrimary = FALSE]
        OBVIOUS
      <3>2. r.pc = "revoke"
        BY <1>1, <3>1 DEF Login
      <3>3. login' = [login EXCEPT ![c] = r]
        BY <1>9, <2>2, <3>1 DEF CommitLink
      <3> QED
        BY <1>9, <3>2, <3>3, Replaced DEF CommitLink, LoginAt, Busy
    <2> QED
      BY <2>1, <2>2
  <1>10. CASE RevokeWire(c)
    BY <1>1, <1>10, WentOn DEF RevokeWire, LoginAt, Busy
  <1>11. CASE IssueSession(c)
    BY <1>1, <1>11, Returned DEF IssueSession, LoginAt, Busy
  <1> QED
    BY <1>2, <1>3, <1>4, <1>5, <1>6, <1>7, <1>8, <1>9, <1>10, <1>11

LEMMA QuietStepsCounted ==
    ASSUME AccountsFit, AccountsFit', \A i \in Transitions : FailuresCounted(i),
           NEW c \in Logins, transition' = transition,
           \A d \in Logins \ {c} : login'[d] = login[d],
           login[c].pc \notin Busy, login'[c].pc \notin Busy
    PROVE  \A i \in Transitions : FailuresCounted(i)'
  BY FailuresElsewhere

\* The step of a call on its transition leaves the other transitions alone.
LEMMA OthersCounted ==
    ASSUME AccountsFit, AccountsFit', NEW c \in Logins, NEW t \in Transitions,
           \A i \in Transitions : FailuresCounted(i),
           \A d \in Logins \ {c} : login'[d] = login[d],
           login[c].t = t, login'[c].pc \in Busy => login'[c].t = t,
           \A i \in Transitions \ {t} : transition'[i] = transition[i],
           FailuresCounted(t)'
    PROVE  \A i \in Transitions : FailuresCounted(i)'
  <1>1. \A i \in Transitions \ {t} : FailuresCounted(i)'
    BY FailuresElsewhere
  <1> QED
    BY <1>1

\* A proof fails: the call was not counted yet, so that there is room.
LEMMA ProofFailsCounted ==
    ASSUME AccountsFit, AccountsFit', NEW c \in Logins, NEW t \in Transitions,
           FailuresCounted(t), login[c].pc = "prove", login[c].t = t, LoginGoto(c, "count"),
           transition[t].open,
           transition' = [transition EXCEPT ![t].failures =
                             IF transition[t].faulty THEN @ ELSE @ + 1]
    PROVE  FailuresCounted(t)'
  <1>1. transition[t] \in Transition
    BY DEF AccountsFit, LoginTypeOK
  <1>2. PICK w : w = [transition[t] EXCEPT !.failures =
                         IF transition[t].faulty THEN @ ELSE @ + 1]
    OBVIOUS
  <1>3. transition'[t] = w
    BY <1>2 DEF AccountsFit, LoginTypeOK
  <1>4. /\ w.open = transition[t].open /\ w.faulty = transition[t].faulty
        /\ w.attempts = transition[t].attempts
        /\ w.failures = IF transition[t].faulty THEN transition[t].failures
                                                ELSE transition[t].failures + 1
    BY <1>1, <1>2 DEF Transition
  <1>5. CASE transition[t].faulty
    BY <1>3, <1>4, <1>5, FailuresKept
  <1>6. CASE ~transition[t].faulty
    <2>1. PICK f \in Nat, a \in Nat, p \in Nat, d \in Nat, m \in Nat, n \in Nat :
             /\ f = transition[t].failures /\ a = Counted(t) /\ a + 1 <= m
             /\ p = Cardinality(Counting(t)) /\ d = Cardinality(Deleting(t))
             /\ m = maxAuthAttempts /\ n = Cardinality(Logins)
      BY BalanceType, CountsType, LoginAssumption
    <2>2. f <= a + p + d * m
      BY <1>6, <2>1 DEF FailuresCounted, Balance
    <2>3. /\ c \notin Counting(t) /\ c \notin Deleting(t)
          /\ c \in Counting(t)' /\ c \notin Deleting(t)'
      BY WentOn DEF Counting, Deleting
    <2>4. p + d + 1 <= n
      BY <2>1, <2>3, CountsRoom
    <2>5. Cardinality(Counting(t)') = p + 1 /\ Cardinality(Deleting(t)') = d
      BY <2>1, <2>3, WentOn, CountsMove
    <2>6. Counted(t)' = a
      BY <1>3, <1>4, <2>1 DEF Counted
    <2>7. Balance(t)' = a + (p + 1) + d * m
      BY <2>1, <2>5, <2>6 DEF Balance
    <2>8. d * m \in Nat
      BY OneMoreTimes
    <2>9. f + 1 <= Balance(t)'
      BY <2>2, <2>7, <2>8
    <2>10. f + 1 <= n * m
      <3>1. a + p + d * m + 1 <= (p + d + 1) * m
        <4>1. p <= p * m
          BY <2>1
        <4>2. p * m \in Nat /\ d * m \in Nat /\ (p + d + 1) * m = p * m + d * m + m
          OBVIOUS
        <4> QED
          BY <2>1, <4>1, <4>2
      <3>2. (p + d + 1) * m <= n * m
        BY <2>4
      <3>3. (p + d + 1) * m \in Nat /\ n * m \in Nat
        BY OneMoreTimes
      <3> QED
        BY <2>2, <2>8, <3>1, <3>2, <3>3
    <2>11. transition'[t].failures = f + 1
      BY <1>3, <1>4, <1>6, <2>1
    <2> QED
      BY <2>1, <2>9, <2>10, <2>11 DEF FailuresCounted
  <1> QED
    BY <1>5, <1>6

LEMMA ProveCounted ==
    ASSUME AccountsFit, AccountsFit', \A i \in Transitions : FailuresCounted(i),
           NEW c \in Logins, Prove(c)
    PROVE  \A i \in Transitions : FailuresCounted(i)'
  <1>1. login[c].pc = "prove" /\ login[c].t \in Transitions
    BY DEF Prove, LoginAt, AccountsFit, LoginFits
  <1>2. PICK t \in Transitions : t = login[c].t
    BY <1>1
  <1>3. transition[t] \in Transition
    BY DEF AccountsFit, LoginTypeOK
  <1>4. CASE LoginReturn(c) /\ transition' = transition
    BY <1>1, <1>4, Returned, QuietStepsCounted DEF Busy
  <1>5. CASE LoginGoto(c, "take")
             /\ transition' = [transition EXCEPT ![t].proof = login[c].subject \in Passkeys]
    <2>1. PICK proof : proof = (login[c].subject \in Passkeys)
      OBVIOUS
    <2>2. transition'[t] = [transition[t] EXCEPT !.proof = proof]
      BY <1>5, <2>1 DEF AccountsFit, LoginTypeOK
    <2>3. /\ transition'[t].failures = transition[t].failures
          /\ transition'[t].attempts = transition[t].attempts
          /\ transition'[t].open = transition[t].open
          /\ transition'[t].faulty = transition[t].faulty
      BY <1>3, <2>2 DEF Transition
    <2>4. \A i \in Transitions \ {t} : transition'[i] = transition[i]
      BY <1>5 DEF AccountsFit, LoginTypeOK
    <2>5. login'[c].pc \notin Busy /\ login[c].pc \notin Busy
      BY <1>1, <1>5, WentOn DEF Busy
    <2>6. \A d \in Logins \ {c} : login'[d] = login[d]
      BY <1>5, WentOn
    <2> QED
      BY <2>3, <2>4, <2>5, <2>6, FailuresElsewhere
  <1>6. CASE LoginGoto(c, "count") /\ transition[t].open
             /\ transition' = [transition EXCEPT ![t].failures =
                                  IF transition[t].faulty THEN @ ELSE @ + 1]
    <2>1. FailuresCounted(t)'
      BY <1>1, <1>2, <1>6, ProofFailsCounted
    <2>2. \A i \in Transitions \ {t} : transition'[i] = transition[i]
      BY <1>6 DEF AccountsFit, LoginTypeOK
    <2> QED
      BY <1>2, <1>6, <2>1, <2>2, WentOn, OthersCounted
  <1>7. CASE LoginGoto(c, "drop") /\ transition' = transition
    <2>1. /\ c \notin Counting(t) /\ c \notin Deleting(t)
          /\ c \in Counting(t)' /\ c \notin Deleting(t)'
      BY <1>1, <1>2, <1>7, WentOn DEF Counting, Deleting
    <2>2. /\ Cardinality(Counting(t)') = Cardinality(Counting(t)) + 1
          /\ Cardinality(Deleting(t)') = Cardinality(Deleting(t))
      BY <1>7, <2>1, WentOn, CountsMove
    <2>3. Counted(t)' = Counted(t)
      BY <1>7 DEF Counted
    <2>4. Counted(t) + Cardinality(Counting(t)) <= Counted(t)' + Cardinality(Counting(t)')
      BY <2>2, <2>3, BalanceType, CountsType
    <2>5. FailuresCounted(t)'
      BY <1>7, <2>2, <2>4, BalanceKept, FailuresKept
    <2> QED
      BY <1>2, <1>7, <2>5, WentOn, OthersCounted
  <1> QED
    BY <1>1, <1>2, <1>4, <1>5, <1>6, <1>7 DEF Prove

LEMMA CountAttemptCounted ==
    ASSUME AccountsFit, AccountsFit', \A i \in Transitions : FailuresCounted(i),
           NEW c \in Logins, CountAttempt(c)
    PROVE  \A i \in Transitions : FailuresCounted(i)'
  <1>1. login[c].pc = "count" /\ login[c].t \in Transitions /\ transition' = transition
    BY DEF CountAttempt, LoginAt, AccountsFit, LoginFits
  <1>2. PICK t \in Transitions : t = login[c].t
    BY <1>1
  <1>3. CASE transition[t].open /\ LoginGoto(c, "increment")
    <2>1. /\ c \in Counting(t) /\ c \in Counting(t)'
          /\ c \notin Deleting(t) /\ c \notin Deleting(t)'
      BY <1>1, <1>2, <1>3, WentOn DEF Counting, Deleting
    <2>2. /\ Cardinality(Counting(t)') = Cardinality(Counting(t))
          /\ Cardinality(Deleting(t)') = Cardinality(Deleting(t))
      BY <1>3, <2>1, WentOn, CountsMove
    <2>3. Counted(t)' = Counted(t)
      BY <1>1 DEF Counted
    <2>4. Counted(t) + Cardinality(Counting(t)) <= Counted(t)' + Cardinality(Counting(t)')
      BY <2>2, <2>3, BalanceType, CountsType
    <2>5. FailuresCounted(t)'
      BY <1>1, <2>2, <2>4, BalanceKept, FailuresKept
    <2> QED
      BY <1>1, <1>2, <1>3, <2>5, WentOn, OthersCounted
  <1>4. CASE ~transition[t].open /\ LoginReturn(c)
    <2>1. FailuresCounted(t)'
      BY <1>1, <1>4, FailuresKept
    <2> QED
      BY <1>1, <1>2, <1>4, <2>1, Returned, OthersCounted
  <1> QED
    BY <1>2, <1>3, <1>4 DEF CountAttempt

LEMMA IncrementAttemptsCounted ==
    ASSUME AccountsFit, AccountsFit', \A i \in Transitions : FailuresCounted(i),
           NEW c \in Logins, IncrementAttempts(c)
    PROVE  \A i \in Transitions : FailuresCounted(i)'
  <1>1. login[c].pc = "increment" /\ login[c].t \in Transitions
    BY DEF IncrementAttempts, LoginAt, AccountsFit, LoginFits
  <1>2. PICK t \in Transitions : t = login[c].t
    BY <1>1
  <1>3. transition[t] \in Transition
    BY DEF AccountsFit, LoginTypeOK
  <1>4. PICK a \in Nat, m \in Nat : a = transition[t].attempts /\ m = maxAuthAttempts /\ a <= m
    BY BalanceType, LoginAssumption
  <1>5. PICK n : n = IF a < m THEN a + 1 ELSE a
    OBVIOUS
  <1>6. transition' = [transition EXCEPT ![t].attempts = n]
    BY <1>2, <1>4, <1>5 DEF IncrementAttempts
  <1>7. transition'[t] = [transition[t] EXCEPT !.attempts = n]
    BY <1>6 DEF AccountsFit, LoginTypeOK
  <1>8. /\ transition'[t].failures = transition[t].failures /\ transition'[t].attempts = n
        /\ transition'[t].open = transition[t].open
        /\ transition'[t].faulty = transition[t].faulty
    BY <1>3, <1>7 DEF Transition
  <1>9. /\ Counted(t) = IF a = m THEN m - 1 ELSE a
        /\ Counted(t)' = IF n = m THEN m - 1 ELSE n
    BY <1>4, <1>8 DEF Counted
  <1>10. IF a + 1 >= m THEN LoginGoto(c, "drop") ELSE LoginReturn(c)
    BY <1>2, <1>4 DEF IncrementAttempts, TooMany
  <1>11. \A i \in Transitions \ {t} : transition'[i] = transition[i]
    BY <1>6 DEF AccountsFit, LoginTypeOK
  <1>12. c \in Counting(t) /\ c \notin Deleting(t)
    BY <1>1, <1>2 DEF Counting, Deleting
  <1>13. CASE a + 1 >= m
    <2>1. LoginGoto(c, "drop")
      BY <1>10, <1>13
    <2>2. c \in Counting(t)' /\ c \notin Deleting(t)'
      BY <1>2, <2>1, WentOn DEF Counting, Deleting
    <2>3. /\ Cardinality(Counting(t)') = Cardinality(Counting(t))
          /\ Cardinality(Deleting(t)') = Cardinality(Deleting(t))
      BY <1>12, <2>1, <2>2, WentOn, CountsMove
    <2>4. Counted(t)' = Counted(t)
      BY <1>4, <1>5, <1>9, <1>13
    <2>5. Counted(t) + Cardinality(Counting(t)) <= Counted(t)' + Cardinality(Counting(t)')
      BY <2>3, <2>4, BalanceType, CountsType
    <2>6. FailuresCounted(t)'
      BY <1>8, <2>3, <2>5, BalanceKept, FailuresKept
    <2> QED
      BY <1>2, <1>11, <2>1, <2>6, WentOn, OthersCounted
  <1>14. CASE ~(a + 1 >= m)
    <2>1. LoginReturn(c)
      BY <1>10, <1>14
    <2>2. c \notin Counting(t)' /\ c \notin Deleting(t)'
      BY <2>1, Returned DEF Counting, Deleting
    <2>3. /\ Cardinality(Counting(t)) = Cardinality(Counting(t)') + 1
          /\ Cardinality(Deleting(t)') = Cardinality(Deleting(t))
      BY <1>12, <2>1, <2>2, Returned, CountsMove
    <2>4. Counted(t)' = Counted(t) + 1
      BY <1>4, <1>5, <1>9, <1>14
    <2>5. Counted(t) + Cardinality(Counting(t)) <= Counted(t)' + Cardinality(Counting(t)')
      BY <2>3, <2>4, BalanceType, CountsType, CountsTypeNext
    <2>6. FailuresCounted(t)'
      BY <1>8, <2>3, <2>5, BalanceKept, FailuresKept
    <2> QED
      BY <1>2, <1>11, <2>1, <2>6, Returned, OthersCounted
  <1> QED
    BY <1>13, <1>14

\* A call begins to delete, whether or not the counter is gone.
LEMMA DeletingCounted ==
    ASSUME AccountsFit, AccountsFit', NEW c \in Logins, NEW t \in Transitions,
           FailuresCounted(t), login[c].t = t, NEW pc,
           \/ login[c].pc = "drop" /\ pc = "close"
           \/ login[c].pc = "taken" /\ pc = "shut",
           LoginGoto(c, pc),
           transition'[t].failures = transition[t].failures,
           transition'[t].open = transition[t].open,
           transition'[t].faulty = transition[t].faulty
    PROVE  FailuresCounted(t)'
  <1>1. (\A d \in Logins \ {c} : login'[d] = login[d]) /\ login'[c].pc = pc /\ login'[c].t = t
    BY WentOn
  <1>2. c \notin Deleting(t) /\ c \in Deleting(t)' /\ c \notin Counting(t)'
    BY <1>1 DEF Counting, Deleting
  <1>3. /\ Cardinality(Deleting(t)') = Cardinality(Deleting(t)) + 1
        /\ \/ Cardinality(Counting(t)') = Cardinality(Counting(t))
           \/ Cardinality(Counting(t)) = Cardinality(Counting(t)') + 1
    BY <1>1, <1>2, CountsMove
  <1>4. Counted(t) + Cardinality(Counting(t))
           <= Counted(t)' + Cardinality(Counting(t)') + maxAuthAttempts
    BY <1>3, BalanceType, BalanceTypeNext, CountsType, CountsTypeNext, LoginAssumption
  <1>5. Balance(t) <= Balance(t)'
    BY <1>3, <1>4, BalanceKept
  <1> QED
    BY <1>5, FailuresKept

LEMMA DeleteAttemptsCounted ==
    ASSUME AccountsFit, AccountsFit', \A i \in Transitions : FailuresCounted(i),
           NEW c \in Logins, DeleteAttempts(c)
    PROVE  \A i \in Transitions : FailuresCounted(i)'
  <1>1. login[c].pc \in {"drop", "taken"} /\ login[c].t \in Transitions
    BY DEF DeleteAttempts, LoginAt, AccountsFit, LoginFits
  <1>2. PICK t \in Transitions : t = login[c].t
    BY <1>1
  <1>3. transition[t] \in Transition
    BY DEF AccountsFit, LoginTypeOK
  <1>4. PICK pc : LoginGoto(c, pc) /\ pc = IF login[c].pc = "drop" THEN "close" ELSE "shut"
    BY DEF DeleteAttempts, LoginAt
  <1>5. transition'[t] = [transition[t] EXCEPT !.attempts = 0]
    BY <1>2 DEF DeleteAttempts, AccountsFit, LoginTypeOK
  <1>6. /\ transition'[t].failures = transition[t].failures
        /\ transition'[t].open = transition[t].open
        /\ transition'[t].faulty = transition[t].faulty
    BY <1>3, <1>5 DEF Transition
  <1>7. FailuresCounted(t)'
    BY <1>1, <1>2, <1>4, <1>6, DeletingCounted
  <1>8. \A i \in Transitions \ {t} : transition'[i] = transition[i]
    BY <1>2 DEF DeleteAttempts, AccountsFit, LoginTypeOK
  <1> QED
    BY <1>2, <1>4, <1>7, <1>8, WentOn, OthersCounted

LEMMA DeleteTransitionCounted ==
    ASSUME AccountsFit, AccountsFit', \A i \in Transitions : FailuresCounted(i),
           NEW c \in Logins, DeleteTransition(c)
    PROVE  \A i \in Transitions : FailuresCounted(i)'
  <1>1. login[c].pc \in {"close", "shut"} /\ login[c].t \in Transitions
    BY DEF DeleteTransition, LoginAt, AccountsFit, LoginFits
  <1>2. PICK t \in Transitions : t = login[c].t
    BY <1>1
  <1>3. transition'[t] = Gone(t)
    BY <1>2 DEF DeleteTransition, AccountsFit, LoginTypeOK
  <1>4. ~transition'[t].open /\ transition'[t].failures = transition[t].failures
    BY <1>3, GoneType DEF AccountsFit
  <1>5. FailuresCounted(t)'
    BY <1>4, FailuresKept
  <1>6. \A i \in Transitions \ {t} : transition'[i] = transition[i]
    BY <1>2 DEF DeleteTransition, AccountsFit, LoginTypeOK
  <1>7. LoginReturn(c) \/ LoginGoto(c, "find")
    BY DEF DeleteTransition
  <1> QED
    BY <1>2, <1>5, <1>6, <1>7, Returned, WentOn, OthersCounted DEF Busy

\* A call that had to count or to delete fails: its transition is faulty.
LEMMA FaultyCounted ==
    ASSUME AccountsFit, AccountsFit', \A i \in Transitions : FailuresCounted(i),
           NEW c \in Logins, NEW t \in Transitions, login[c].t = t,
           \A d \in Logins \ {c} : login'[d] = login[d], login'[c].pc \notin Busy,
           transition' = [transition EXCEPT ![t].faulty = TRUE]
    PROVE  \A i \in Transitions : FailuresCounted(i)'
  <1>1. transition[t] \in Transition
    BY DEF AccountsFit, LoginTypeOK
  <1>2. transition'[t] = [transition[t] EXCEPT !.faulty = TRUE]
    BY DEF AccountsFit, LoginTypeOK
  <1>3. transition'[t].faulty /\ transition'[t].failures = transition[t].failures
    BY <1>1, <1>2 DEF Transition
  <1>4. FailuresCounted(t)'
    BY <1>3, FailuresKept
  <1>5. \A i \in Transitions \ {t} : transition'[i] = transition[i]
    BY DEF AccountsFit, LoginTypeOK
  <1> QED
    BY <1>4, <1>5, OthersCounted

LEMMA LoginFailsCounted ==
    ASSUME AccountsFit, AccountsFit', \A i \in Transitions : FailuresCounted(i),
           NEW c \in Logins, LoginFails(c)
    PROVE  \A i \in Transitions : FailuresCounted(i)'
  <1>1. LoginReturn(c)
    BY DEF LoginFails
  <1>2. CASE login[c].pc \in Busy
    <2>1. PICK t \in Transitions : t = login[c].t
      BY <1>2 DEF AccountsFit, LoginFits, Busy
    <2>2. transition' = [transition EXCEPT ![t].faulty = TRUE]
      BY <1>2, <2>1 DEF LoginFails, Busy
    <2> QED
      BY <1>1, <2>1, <2>2, Returned, FaultyCounted
  <1>3. CASE login[c].pc \notin Busy
    BY <1>1, <1>3, Returned, QuietStepsCounted DEF LoginFails, Busy
  <1> QED
    BY <1>2, <1>3

LEMMA ErrorIgnoredCounted ==
    ASSUME AccountsFit, AccountsFit', \A i \in Transitions : FailuresCounted(i),
           NEW c \in Logins, ErrorIgnored(c)
    PROVE  \A i \in Transitions : FailuresCounted(i)'
  <1>1. CASE login[c].pc = "revoke" /\ LoginGoto(c, "issue")
    <2>1. transition' = transition
      BY <1>1 DEF ErrorIgnored, LoginAt
    <2> QED
      BY <1>1, <2>1, WentOn, QuietStepsCounted DEF Busy
  <1>2. CASE login[c].pc = "shut" /\ LoginGoto(c, "find")
    <2>1. PICK t \in Transitions : t = login[c].t
      BY <1>2 DEF AccountsFit, LoginFits
    <2>2. transition' = [transition EXCEPT ![t].faulty = TRUE]
      BY <1>2, <2>1 DEF ErrorIgnored, LoginAt
    <2>3. login'[c].pc \notin Busy /\ \A d \in Logins \ {c} : login'[d] = login[d]
      BY <1>2, WentOn DEF Busy
    <2> QED
      BY <2>1, <2>2, <2>3, FaultyCounted
  <1>3. ASSUME NEW pc, LoginGoto(c, pc),
               \/ login[c].pc = "drop" /\ pc = "close"
               \/ login[c].pc = "taken" /\ pc = "shut"
        PROVE  \A i \in Transitions : FailuresCounted(i)'
    <2>1. PICK t \in Transitions : t = login[c].t
      BY <1>3 DEF AccountsFit, LoginFits
    <2>2. transition' = transition
      BY <1>3 DEF ErrorIgnored, LoginAt
    <2>3. FailuresCounted(t)'
      BY <1>3, <2>1, <2>2, DeletingCounted
    <2> QED
      BY <1>3, <2>1, <2>2, <2>3, WentOn, OthersCounted
  <1> QED
    BY <1>1, <1>2, <1>3 DEF ErrorIgnored, LoginAt

-----------------------------------------------------------------------------
LEMMA LoginIInvInit ==
    ASSUME LoginInit
    PROVE  LoginIInv
  <1>1. LoginTypeOK
    BY ClosedType, NoLoginType, LoginAssumption DEF LoginInit, LoginTypeOK
  <1>2. Len(sessions) <= MaxSessions /\ DOMAIN sessions = {}
    BY LoginAssumption DEF LoginInit
  <1>3. \A c \in Logins : LoginFits(login[c])
    BY <1>1, NoLoginFits DEF LoginInit, LoginTypeOK
  <1>4. \A t \in Transitions : TransitionFits(t)
    BY ClosedType DEF LoginInit, TransitionFits
  <1>5. AccountsFit
    BY <1>1, <1>2, <1>3, <1>4 DEF AccountsFit, OneOwner, LoginInit
  <1>6. \A t \in Transitions : FailuresCounted(t)
    <2>1. SUFFICES ASSUME NEW t \in Transitions
                   PROVE  FailuresCounted(t)
      OBVIOUS
    <2>2. transition[t].failures = 0 /\ ~transition[t].open
      BY ClosedType DEF LoginInit
    <2>3. Cardinality(Logins) * maxAuthAttempts \in Nat
      BY CountsType, OneMoreTimes, LoginAssumption
    <2> QED
      BY <2>2, <2>3 DEF FailuresCounted
  <1> QED
    BY <1>5, <1>6 DEF LoginIInv

LEMMA LoginIInvNext ==
    ASSUME LoginIInv, [LoginNext]_loginVars
    PROVE  LoginIInv'
  <1>1. AccountsFit /\ AccountsFit' /\ \A t \in Transitions : FailuresCounted(t)
    BY AccountsFitNext DEF LoginIInv
  <1>2. CASE LoginNext
    <2>1. \A c \in Logins :
             \/ \E t \in Transitions, wire \in {None} \union DOMAIN sessions :
                   ContinueLogin(c, t, wire)
             \/ TakeTransition(c) \/ FindUser(c) \/ ValidateLink(c) \/ ResolveUser(c)
             \/ CreateUser(c) \/ BeginLink(c) \/ CommitLink(c) \/ RevokeWire(c) \/ IssueSession(c)
             => \A i \in Transitions : FailuresCounted(i)'
      BY <1>1, QuietSteps, QuietStepsCounted
    <2>2. \A t \in Transitions : FailuresCounted(t)'
      BY <1>1, <1>2, <2>1, StartLoginCounted, TransitionStepCounted, ProveCounted,
         CountAttemptCounted, IncrementAttemptsCounted, DeleteAttemptsCounted,
         DeleteTransitionCounted, LoginFailsCounted, ErrorIgnoredCounted
         DEF LoginNext, LoginSteps, LoginEvents
    <2> QED
      BY <1>1, <2>2 DEF LoginIInv
  <1>3. CASE UNCHANGED loginVars
    <2>1. login' = login /\ transition' = transition
      BY <1>3 DEF loginVars
    <2>2. \A t \in Transitions : FailuresCounted(t)'
      BY <1>1, <2>1, FailuresStay
    <2> QED
      BY <1>1, <2>2 DEF LoginIInv
  <1> QED
    BY <1>2, <1>3

(***************************************************************************)
(* The invariant holds in every state of every behaviour.                  *)
(***************************************************************************)
THEOREM LoginInvariant == LoginSpec => []LoginIInv
  <1>1. LoginInit => LoginIInv
    BY LoginIInvInit
  <1>2. LoginIInv /\ [LoginNext]_loginVars => LoginIInv'
    BY LoginIInvNext
  <1> QED
    BY <1>1, <1>2, PTL DEF LoginSpec

(***************************************************************************)
(* The types of the stores' rows and of the calls of ContinueLogin.        *)
(***************************************************************************)
THEOREM LoginTypes == LoginSpec => []LoginTypeOK
  <1>1. LoginIInv => LoginTypeOK
    BY DEF LoginIInv, AccountsFit
  <1> QED
    BY <1>1, LoginInvariant, PTL

(***************************************************************************)
(* Whatever first logins and links run at the same time, a session is the  *)
(* session of the one account that owns the identity proven for it.        *)
(***************************************************************************)
THEOREM LoginSessionForOwner == LoginSpec => []SessionForOwner
  <1>1. LoginIInv => SessionForOwner
    BY DEF LoginIInv, AccountsFit, SessionFits, SessionForOwner
  <1> QED
    BY <1>1, LoginInvariant, PTL

(***************************************************************************)
(* However the calls on a transition interleave and delete under each      *)
(* other, no more proofs fail on it than maxAuthAttempts for each of them. *)
(***************************************************************************)
THEOREM LoginFailuresBounded == LoginSpec => []FailuresBounded
  <1>1. LoginIInv => FailuresBounded
    BY DEF LoginIInv, FailuresCounted, FailuresBounded
  <1> QED
    BY <1>1, LoginInvariant, PTL

-----------------------------------------------------------------------------
(* SigningKeys.                                                            *)

-----------------------------------------------------------------------------
(***************************************************************************)
(* The inductive invariant.  What a manager holds, in its memory or in a   *)
(* call, exists; a version in hand to be cached is not one it has dropped  *)
(* for good; and as long as no older version overtook a newer one, nothing *)
(* a call will make current is older than what the manager signed with.    *)
(***************************************************************************)
FetchPlaces == {"current", "latest", "install", "cache", "set", "next", "load", "fetch", "keep"}

KeySetPlaces == {"next", "load", "fetch", "keep"}

CallFits(r) ==
    /\ r.v <= newest /\ r.keys \subseteq 1..newest /\ r.left \subseteq 1..newest
    /\ r.pc \in {"install", "cache", "set", "load", "fetch", "keep", "disable", "forget"} => r.v # 0
    /\ r.pc = "forget" => r.v \in disabled
    /\ r.pc \in {"install", "cache", "keep"} => r.v \notin keyLog[r.m].gone
    /\ r.pc \in {"install", "cache", "set"} /\ ~keyLog[r.m].raced =>
          /\ current[r.m] <= r.v
          /\ \A s \in keyLog[r.m].signed : s <= r.v
    /\ r.op = "keys" => r.pc \in FetchPlaces /\ (r.pc \in KeySetPlaces => r.keys # {})

ManagerFits(m) ==
    /\ keyLog[m].signed \subseteq 1..newest
    /\ keyLog[m].gone \subseteq disabled
    /\ keyLog[m].gone \intersect cached[m] = {}
    /\ ~keyLog[m].raced /\ current[m] # 0 => \A s \in keyLog[m].signed : s <= current[m]

\* The key set the fetch r is collecting has, or will have, the key kid if it has to.
Covers(r, kid) ==
    r.pc \in KeySetPlaces =>
        \/ kid \in r.keys \union r.left \union disabled
        \/ kid + PreviousGenerations < newest

\* A check that waits for a fetch of its own, and one that reads its keys.
CheckFits(k) ==
    /\ check[k].pc = "ask" => ~check[k].own
    /\ check[k].pc = "wait" => jwks.inFlight
    /\ check[k].pc = "wait" /\ check[k].own =>
          \A c \in KeyCalls : keyCall[c].op = "keys" =>
              /\ check[k].kid \in keyLog[keyCall[c].m].signed
              /\ keyLog[keyCall[c].m].raced \/ Covers(keyCall[c], check[k].kid)
    /\ check[k].pc = "parse" /\ check[k].own =>
          \/ check[k].kid \in check[k].keys \union disabled
          \/ check[k].kid + PreviousGenerations < newest

OneFetch ==
    \A c \in KeyCalls : keyCall[c].op = "keys" =>
        /\ jwks.inFlight
        /\ \A d \in KeyCalls : keyCall[d].op = "keys" => c = d

KeysIInv ==
    /\ KeysTypeOK
    /\ \A c \in KeyCalls : CallFits(keyCall[c])
    /\ \A m \in Managers : ManagerFits(m)
    /\ \A k \in Checks : CheckFits(k)
    /\ OneFetch

-----------------------------------------------------------------------------
(* The versions, and what a call is.                                       *)

\* The newest of some versions is one of them.
LEMMA NewestIsOne ==
    ASSUME NEW n \in Nat, NEW S \in SUBSET (1..n), S # {}
    PROVE  Newest(S) \in S
  <1> DEFINE Above(v) == {w \in 1..n : w > v}
             T == {Above(v) : v \in S}
             R == StrictSubsetOrdering(1..n)
  <1>1. T \subseteq FiniteSubsetsOf(1..n) /\ T # {}
    <2>1. IsFiniteSet(1..n)
      BY FS_Interval, SMT
    <2>2. FiniteSubsetsOf(1..n) = SUBSET (1..n)
      BY <2>1, FS_FiniteSubsetsOfFinite, Zenon
    <2>3. T \subseteq SUBSET (1..n) /\ T # {}
      OBVIOUS
    <2> QED
      BY <2>2, <2>3, Zenon
  <1>2. IsWellFoundedOn(R, FiniteSubsetsOf(1..n))
    BY FS_StrictSubsetOrderingWellFounded, Zenon
  <1> HIDE DEF T, R
  <1>3. PICK x \in T : \A y \in T : ~ (<<y, x>> \in R)
    BY <1>1, <1>2, WFMin, Zenon
  <1>4. PICK v \in S : x = Above(v)
    BY DEF T
  <1>5. \A w \in S : w <= v
    <2>1. SUFFICES ASSUME NEW w \in S, w > v
                   PROVE  FALSE
      OBVIOUS
    <2>2. Above(w) \in T /\ Above(w) \subseteq Above(v) /\ w \in Above(v) \ Above(w)
      BY <2>1 DEF T
    <2>3. <<Above(w), Above(v)>> \in R
      BY <2>2 DEF R, StrictSubsetOrdering
    <2> QED
      BY <1>3, <1>4, <2>2, <2>3
  <1> QED
    BY <1>5 DEF Newest

\* The generations published with a version exist, and the older ones are too old.
LEMMA PreviousVersions ==
    ASSUME NEW v \in 1..newest, newest \in MaybeVersion
    PROVE  /\ previousVersionIDs(v) \subseteq 1..newest
           /\ \A kid \in 1..v : \/ kid \in {v} \union previousVersionIDs(v)
                                \/ kid + PreviousGenerations < newest
  BY KeysAssumption DEF previousVersionIDs, MaybeVersion

\* A call that is over is no fetch of the gateway.
LEMMA NoCallType ==
    /\ NoCall \in KeyCall
    /\ NoCall.pc = "idle" /\ NoCall.op = "sign" /\ NoCall.v = 0 /\ NoCall.kid = 0
    /\ NoCall.keys = {} /\ NoCall.left = {}
    /\ NoCall.m \in Managers
  <1>1. (CHOOSE m \in Managers : TRUE) \in Managers
    BY KeysAssumption
  <1> QED
    BY <1>1, KeysAssumption DEF NoCall, KeyCall, MaybeVersion, Versions

\* A call that is over holds nothing.
LEMMA NoCallFits ==
    ASSUME newest \in Nat
    PROVE  CallFits(NoCall)
  BY NoCallType DEF CallFits

-----------------------------------------------------------------------------
(* Steps that only take one call further: nothing the other calls and the  *)
(* gateway rely on changes.                                                *)

LEMMA CallMoves ==
    ASSUME KeysIInv, NEW c \in KeyCalls, NEW r \in KeyCall,
           keyCall' = [keyCall EXCEPT ![c] = r],
           UNCHANGED <<current, gateway, keyLog>>,
           newest' \in MaybeVersion, newest <= newest',
           disabled \subseteq disabled', disabled' \subseteq 1..newest',
           cached' \in [Managers -> SUBSET (1..newest')],
           \A m \in Managers : keyLog[m].gone \intersect cached'[m] = {},
           CallFits(r)',
           r.op = "keys" =>
              /\ keyCall[c].op = "keys" /\ r.m = keyCall[c].m
              /\ \A kid \in MaybeVersion : Covers(keyCall[c], kid) => Covers(r, kid)'
    PROVE  KeysIInv'
  <1>1. KeysTypeOK'
    BY DEF KeysIInv, KeysTypeOK, MaybeVersion, gateway
  <1>2. \A d \in KeyCalls : CallFits(keyCall[d])'
    <2>1. SUFFICES ASSUME NEW d \in KeyCalls
                   PROVE  CallFits(keyCall[d])'
      OBVIOUS
    <2>2. CASE d = c
      <3>1. keyCall'[c] = r
        BY DEF KeysIInv, KeysTypeOK
      <3> QED
        BY <2>2, <3>1 DEF CallFits
    <2>3. CASE d # c
      <3>1. keyCall'[d] = keyCall[d] /\ keyCall[d] \in KeyCall /\ CallFits(keyCall[d])
        BY <2>3 DEF KeysIInv, KeysTypeOK
      <3> QED
        BY <3>1 DEF CallFits, KeysIInv, KeysTypeOK, KeyCall, MaybeVersion
    <2> QED
      BY <2>2, <2>3
  <1>3. \A m \in Managers : ManagerFits(m)'
    <2>1. SUFFICES ASSUME NEW m \in Managers
                   PROVE  ManagerFits(m)'
      OBVIOUS
    <2>2. ManagerFits(m) /\ newest \in Nat /\ newest' \in Nat
      BY KeysAssumption DEF KeysIInv, KeysTypeOK, MaybeVersion
    <2>3. keyLog' = keyLog /\ current' = current
      OBVIOUS
    <2>4. /\ keyLog[m].signed \subseteq 1..newest
          /\ keyLog[m].gone \subseteq disabled
          /\ ~keyLog[m].raced /\ current[m] # 0 => \A s \in keyLog[m].signed : s <= current[m]
      BY <2>2, Zenon DEF ManagerFits
    <2>5. keyLog[m].gone \intersect cached'[m] = {}
      BY Zenon
    <2>6. 1..newest \subseteq 1..newest'
      BY <2>2
    <2>7. keyLog[m].signed \subseteq 1..newest' /\ keyLog[m].gone \subseteq disabled'
      BY <2>4, <2>6, Zenon
    <2> QED
      BY <2>3, <2>4, <2>5, <2>7, Zenon DEF ManagerFits
  <1>4. \A k \in Checks : CheckFits(k)'
    <2>1. SUFFICES ASSUME NEW k \in Checks
                   PROVE  CheckFits(k)'
      OBVIOUS
    <2>2. CheckFits(k) /\ check' = check /\ jwks' = jwks /\ check[k].kid \in MaybeVersion
      BY DEF KeysIInv, KeysTypeOK, Check, gateway
    <2>3. ASSUME check[k].pc = "wait", check[k].own, NEW d \in KeyCalls, keyCall'[d].op = "keys"
          PROVE  /\ check[k].kid \in keyLog[keyCall'[d].m].signed
                 /\ keyLog[keyCall'[d].m].raced \/ Covers(keyCall[d], check[k].kid)'
      <3>1. CASE d = c
        <4>1. keyCall'[c] = r
          BY DEF KeysIInv, KeysTypeOK
        <4> QED
          BY <2>2, <2>3, <3>1, <4>1 DEF CheckFits, Covers
      <3>2. CASE d # c
        <4>1. keyCall'[d] = keyCall[d]
          BY <3>2 DEF KeysIInv, KeysTypeOK
        <4>2. /\ check[k].kid \in keyLog[keyCall[d].m].signed
              /\ keyLog[keyCall[d].m].raced \/ Covers(keyCall[d], check[k].kid)
          BY <2>2, <2>3, <4>1 DEF CheckFits
        <4> QED
          BY <2>2, <4>1, <4>2, KeysAssumption DEF Covers, KeysIInv, KeysTypeOK, MaybeVersion
      <3> QED
        BY <3>1, <3>2
    <2>4. ASSUME check[k].pc = "parse", check[k].own
          PROVE  \/ check[k].kid \in check[k].keys \union disabled'
                 \/ check[k].kid + PreviousGenerations < newest'
      BY <2>2, <2>4, KeysAssumption DEF CheckFits, KeysIInv, KeysTypeOK, MaybeVersion
    <2> QED
      BY <2>2, <2>3, <2>4 DEF CheckFits
  <1>5. OneFetch'
    BY DEF OneFetch, KeysIInv, KeysTypeOK, gateway
  <1> QED
    BY <1>1, <1>2, <1>3, <1>4, <1>5 DEF KeysIInv

\* The call leaves, or goes on to pc with what it holds.
LEMMA AfterGoto ==
    ASSUME KeysTypeOK, NEW c \in KeyCalls, NEW pc,
           pc \in {"current", "latest", "cache", "set", "fetch", "keep", "forget"},
           KeyGoto(c, pc)
    PROVE  \E r \in KeyCall :
              /\ keyCall' = [keyCall EXCEPT ![c] = r]
              /\ r = [keyCall[c] EXCEPT !.pc = pc]
  BY DEF KeysTypeOK, KeyGoto, KeyCall

LEMMA Returns ==
    ASSUME KeysIInv, NEW c \in KeyCalls, KeyReturn(c),
           UNCHANGED <<current, gateway, keyLog>>,
           newest' \in MaybeVersion, newest <= newest',
           disabled \subseteq disabled', disabled' \subseteq 1..newest',
           cached' \in [Managers -> SUBSET (1..newest')],
           \A m \in Managers : keyLog[m].gone \intersect cached'[m] = {}
    PROVE  KeysIInv'
  <1>1. CallFits(NoCall)'
    BY NoCallType, KeysAssumption DEF CallFits, MaybeVersion
  <1>2. PICK r \in KeyCall : r = NoCall
    BY NoCallType
  <1>3. keyCall' = [keyCall EXCEPT ![c] = r]
    BY <1>2 DEF KeyReturn
  <1>4. CallFits(r)'
    BY <1>1, <1>2
  <1>5. r.op # "keys"
    BY <1>2, NoCallType
  <1> QED
    BY <1>3, <1>4, <1>5, CallMoves

\* The same as CallMoves, for steps that change nothing but the call.
LEMMA OnlyCallMoves ==
    ASSUME KeysIInv, NEW c \in KeyCalls, NEW r \in KeyCall,
           keyCall' = [keyCall EXCEPT ![c] = r],
           UNCHANGED <<store, cached, current, gateway, keyLog>>,
           CallFits(r),
           r.op = "keys" =>
              /\ keyCall[c].op = "keys" /\ r.m = keyCall[c].m
              /\ \A kid \in MaybeVersion : Covers(keyCall[c], kid) => Covers(r, kid)
    PROVE  KeysIInv'
  <1>1. CallFits(r)'
    BY DEF CallFits, store
  <1>2. \A kid : Covers(r, kid)' <=> Covers(r, kid)
    BY DEF Covers, store
  <1>3. /\ newest' \in MaybeVersion /\ newest <= newest'
        /\ disabled \subseteq disabled' /\ disabled' \subseteq 1..newest'
        /\ cached' \in [Managers -> SUBSET (1..newest')]
    BY KeysAssumption DEF KeysIInv, KeysTypeOK, MaybeVersion, store
  <1>4. \A m \in Managers : keyLog[m].gone \intersect cached'[m] = {}
    BY Zenon DEF KeysIInv, ManagerFits
  <1> QED
    BY <1>1, <1>2, <1>3, <1>4, CallMoves

LEMMA OnlyReturns ==
    ASSUME KeysIInv, NEW c \in KeyCalls, KeyReturn(c),
           UNCHANGED <<store, cached, current, gateway, keyLog>>
    PROVE  KeysIInv'
  <1>1. PICK r \in KeyCall : r = NoCall
    BY NoCallType
  <1>2. keyCall' = [keyCall EXCEPT ![c] = r]
    BY <1>1 DEF KeyReturn
  <1>3. CallFits(r) /\ r.op # "keys"
    BY <1>1, NoCallType, NoCallFits, KeysAssumption DEF KeysIInv, KeysTypeOK, MaybeVersion
  <1> QED
    BY <1>2, <1>3, OnlyCallMoves

LEMMA StartCallStep ==
    ASSUME KeysIInv, NEW c \in KeyCalls, NEW m \in Managers, NEW kid \in Versions,
           StartCall(c, m, kid)
    PROVE  KeysIInv'
  <1>1. PICK op \in {"sign", "verify", "rotate", "refresh", "revoke"} :
           keyCall' = [keyCall EXCEPT ![c] =
                [NoCall EXCEPT !.op = op, !.m = m,
                               !.kid = IF op \in {"verify", "revoke"} THEN kid ELSE 0,
                               !.pc = CASE op = "sign" -> "current"
                                        [] op = "rotate" -> "add"
                                        [] op = "refresh" -> "latest"
                                        [] OTHER -> "lookup"]]
    BY DEF StartCall
  <1>2. PICK r \in KeyCall :
           /\ r.op = op /\ r.m = m /\ r.pc \in {"current", "add", "latest", "lookup"}
           /\ r.v = 0 /\ r.keys = {} /\ r.left = {}
           /\ keyCall' = [keyCall EXCEPT ![c] = r]
    <2>1. PICK pc \in {"current", "add", "latest", "lookup"} :
             pc = CASE op = "sign" -> "current"
                    [] op = "rotate" -> "add"
                    [] op = "refresh" -> "latest"
                    [] OTHER -> "lookup"
      OBVIOUS
    <2>2. PICK id \in MaybeVersion : id = IF op \in {"verify", "revoke"} THEN kid ELSE 0
      BY KeysAssumption DEF Versions, MaybeVersion
    <2>3. keyCall' = [keyCall EXCEPT ![c] =
                         [NoCall EXCEPT !.op = op, !.m = m, !.kid = id, !.pc = pc]]
      BY <1>1, <2>1, <2>2
    <2>4. PICK r : r = [NoCall EXCEPT !.op = op, !.m = m, !.kid = id, !.pc = pc]
      OBVIOUS
    <2>5. r \in KeyCall /\ r.op = op /\ r.m = m /\ r.pc = pc
          /\ r.v = NoCall.v /\ r.keys = NoCall.keys /\ r.left = NoCall.left
      BY <2>4, NoCallType DEF KeyCall
    <2> QED
      BY <2>3, <2>4, <2>5, NoCallType
  <1>3. CallFits(r) /\ r.op # "keys"
    BY <1>2, KeysAssumption DEF CallFits, KeysIInv, KeysTypeOK, MaybeVersion
  <1> QED
    BY <1>2, <1>3, OnlyCallMoves DEF StartCall

-----------------------------------------------------------------------------
(* Steps that make a version the current one, or use the current one.      *)

\* The call is done with the version v, or goes on to the versions before it.
LEMMA AfterCurrentCall ==
    ASSUME KeysIInv, NEW c \in KeyCalls, NEW v \in 1..newest, AfterCurrent(c, v)
    PROVE  \E r \in KeyCall :
              /\ keyCall' = [keyCall EXCEPT ![c] = r]
              /\ \/ r = NoCall
                 \/ /\ r.pc = "next" /\ r.op = keyCall[c].op /\ r.m = keyCall[c].m
                    /\ r.v = 0 /\ r.keys = {v} /\ r.left = previousVersionIDs(v)
  <1>1. CASE keyCall[c].op \in {"sign", "rotate", "refresh"}
    BY <1>1, NoCallType DEF AfterCurrent, KeyReturn
  <1>2. CASE keyCall[c].op \notin {"sign", "rotate", "refresh"}
    <2>1. newest \in MaybeVersion /\ keyCall[c] \in KeyCall
      BY DEF KeysIInv, KeysTypeOK
    <2>2. PICK left \in SUBSET Versions : left = previousVersionIDs(v)
      <3>1. previousVersionIDs(v) \subseteq 1..newest
        BY <2>1, PreviousVersions
      <3>2. 1..newest \subseteq Versions
        BY <2>1, KeysAssumption DEF MaybeVersion, Versions
      <3> QED
        BY <3>1, <3>2
    <2>3. {v} \in SUBSET Versions /\ 0 \in MaybeVersion
      BY <2>1, KeysAssumption DEF MaybeVersion, Versions
    <2>4. PICK r : r = [keyCall[c] EXCEPT !.pc = "next", !.v = 0, !.keys = {v}, !.left = left]
      OBVIOUS
    <2>5. keyCall' = [keyCall EXCEPT ![c] = r]
      BY <1>2, <2>2, <2>4 DEF AfterCurrent, KeysIInv, KeysTypeOK
    <2>6. r \in KeyCall
      BY <2>1, <2>3, <2>4 DEF KeyCall
    <2>7. /\ r.pc = "next" /\ r.op = keyCall[c].op /\ r.m = keyCall[c].m
          /\ r.v = 0 /\ r.keys = {v} /\ r.left = left
      BY <2>1, <2>4 DEF KeyCall
    <2> QED
      BY <2>2, <2>5, <2>6, <2>7
  <1> QED
    BY <1>1, <1>2

\* What a use of v leaves in the history of the managers.
LEMMA AfterLog ==
    ASSUME KeysTypeOK, NEW c \in KeyCalls, NEW v \in Versions, NEW races \in BOOLEAN,
           Log(c, v, races)
    PROVE  LET m == keyCall[c].m
           IN  /\ keyLog' \in [Managers -> KeyLog]
               /\ \A n \in Managers : n # m => keyLog'[n] = keyLog[n]
               /\ keyLog'[m].gone = keyLog[m].gone
               /\ keyLog'[m].raced = (keyLog[m].raced \/ races)
               /\ keyLog[m].signed \subseteq keyLog'[m].signed
               /\ keyLog'[m].signed \subseteq keyLog[m].signed \union {v}
  <1>1. PICK m \in Managers : m = keyCall[c].m
    BY DEF KeysTypeOK, KeyCall
  <1>2. PICK add \in SUBSET {v} : add = (IF keyCall[c].op = "sign" THEN {v} ELSE {})
    OBVIOUS
  <1>3. keyLog' = [keyLog EXCEPT ![m].signed = @ \union add, ![m].raced = @ \/ races]
    BY <1>1, <1>2 DEF Log
  <1>4. keyLog \in [Managers -> KeyLog]
    BY DEF KeysTypeOK
  <1>5. /\ keyLog'[m].gone = keyLog[m].gone
        /\ keyLog'[m].raced = (keyLog[m].raced \/ races)
        /\ keyLog'[m].signed = keyLog[m].signed \union add
        /\ \A n \in Managers : n # m => keyLog'[n] = keyLog[n]
    BY <1>3, <1>4 DEF KeyLog
  <1>6. keyLog' \in [Managers -> KeyLog]
    <2>1. PICK signed \in SUBSET Versions, raced \in BOOLEAN :
             signed = keyLog[m].signed \union add /\ raced = (keyLog[m].raced \/ races)
      BY <1>2, <1>4 DEF KeyLog
    <2>2. keyLog' = [keyLog EXCEPT ![m].signed = signed, ![m].raced = raced]
      BY <1>3, <2>1
    <2> QED
      BY <1>4, <2>2 DEF KeyLog
  <1> QED
    BY <1>1, <1>2, <1>5, <1>6

\* A version at least as new as what the manager signed with, and as what other
\* calls will make current, or whose use is noted as a race, is safe to use.
LEMMA UseStep ==
    ASSUME KeysIInv, NEW c \in KeyCalls, NEW v \in 1..newest, NEW races \in BOOLEAN,
           keyCall[c].pc \in {"current", "install", "set"},
           AfterCurrent(c, v), Log(c, v, races),
           UNCHANGED <<store, cached, gateway>>,
           current' = [current EXCEPT ![keyCall[c].m] = v],
           ~keyLog[keyCall[c].m].raced =>
              /\ \A s \in keyLog[keyCall[c].m].signed : s <= v
              /\ ~races => \A d \in Holding(c, {"install", "cache", "set"}) : v <= keyCall[d].v
    PROVE  KeysIInv'
  <1>1. PICK m \in Managers : m = keyCall[c].m
    BY DEF KeysIInv, KeysTypeOK, KeyCall
  <1>2. PICK r \in KeyCall :
           /\ keyCall' = [keyCall EXCEPT ![c] = r]
           /\ \/ r = NoCall
              \/ /\ r.pc = "next" /\ r.op = keyCall[c].op /\ r.m = m
                 /\ r.v = 0 /\ r.keys = {v} /\ r.left = previousVersionIDs(v)
    BY <1>1, AfterCurrentCall
  <1>3. newest \in MaybeVersion /\ newest \in Nat /\ v \in Versions
    BY KeysAssumption DEF KeysIInv, KeysTypeOK, MaybeVersion, Versions
  <1>4. /\ keyLog' \in [Managers -> KeyLog]
        /\ \A n \in Managers : n # m => keyLog'[n] = keyLog[n]
        /\ keyLog'[m].gone = keyLog[m].gone
        /\ keyLog'[m].raced = (keyLog[m].raced \/ races)
        /\ keyLog[m].signed \subseteq keyLog'[m].signed
        /\ keyLog'[m].signed \subseteq keyLog[m].signed \union {v}
    BY <1>1, <1>3, AfterLog DEF KeysIInv
  <1>5. /\ newest' = newest /\ disabled' = disabled /\ cached' = cached
        /\ jwks' = jwks /\ check' = check
    BY DEF store, gateway
  <1>6. current' = [current EXCEPT ![m] = v] /\ current'[m] = v
    BY <1>1 DEF KeysIInv, KeysTypeOK
  <1>7. KeysTypeOK'
    <2>1. current' \in [Managers -> 0..newest']
      <3>1. v \in 0..newest
        BY <1>3
      <3>2. current \in [Managers -> 0..newest] /\ newest' = newest
        BY <1>5 DEF KeysIInv, KeysTypeOK
      <3> QED
        BY <1>6, <3>1, <3>2
    <2>2. keyCall' \in [KeyCalls -> KeyCall]
      BY <1>2 DEF KeysIInv, KeysTypeOK
    <2> QED
      BY <1>4, <1>5, <2>1, <2>2 DEF KeysIInv, KeysTypeOK
  <1>8. keyCall'[c] = r /\ \A d \in KeyCalls : d # c => keyCall'[d] = keyCall[d]
    BY <1>2 DEF KeysIInv, KeysTypeOK
  <1>9. \A d \in KeyCalls : CallFits(keyCall[d])'
    <2>1. SUFFICES ASSUME NEW d \in KeyCalls
                   PROVE  CallFits(keyCall[d])'
      OBVIOUS
    <2>2. CASE d = c
      <3>1. CASE r = NoCall
        BY <1>3, <1>5, <1>8, <2>2, <3>1, NoCallType DEF CallFits
      <3>2. CASE r # NoCall
        <4>1. previousVersionIDs(v) \subseteq 1..newest
          BY <1>3, PreviousVersions
        <4> QED
          BY <1>2, <1>3, <1>5, <1>8, <2>2, <3>2, <4>1 DEF CallFits, FetchPlaces
      <3> QED
        BY <3>1, <3>2
    <2>3. CASE d # c
      <3>1. PICK q \in KeyCall : q = keyCall[d] /\ q = keyCall'[d] /\ q.m \in Managers
        BY <1>8, <2>3 DEF KeysIInv, KeysTypeOK, KeyCall
      <3>2. CallFits(q)
        BY <3>1 DEF KeysIInv
      <3>3. CASE q.m # m
        BY <1>4, <1>5, <1>6, <3>1, <3>2, <3>3 DEF CallFits, KeysIInv, KeysTypeOK
      <3>4. CASE q.m = m
        <4>1. ASSUME q.pc \in {"install", "cache", "set"}, ~keyLog'[m].raced
              PROVE  current'[m] <= q.v /\ \A s \in keyLog'[m].signed : s <= q.v
          <5>1. ~keyLog[m].raced /\ ~races
            BY <1>4, <4>1
          <5>2. v <= q.v
            BY <1>1, <2>3, <3>1, <3>4, <4>1, <5>1 DEF Holding
          <5>3. \A s \in keyLog[m].signed : s <= q.v
            BY <3>2, <3>4, <4>1, <5>1 DEF CallFits
          <5> QED
            BY <1>4, <1>6, <5>2, <5>3
        <4> QED
          BY <1>4, <1>5, <3>1, <3>2, <3>4, <4>1 DEF CallFits
      <3> QED
        BY <3>3, <3>4
    <2> QED
      BY <2>2, <2>3
  <1>10. \A n \in Managers : ManagerFits(n)'
    <2>1. SUFFICES ASSUME NEW n \in Managers
                   PROVE  ManagerFits(n)'
      OBVIOUS
    <2>2. ManagerFits(n)
      BY DEF KeysIInv
    <2>3. CASE n # m
      <3>1. keyLog'[n] = keyLog[n] /\ current'[n] = current[n]
        BY <1>4, <1>6, <2>3 DEF KeysIInv, KeysTypeOK
      <3> QED
        BY <1>5, <2>2, <3>1, Zenon DEF ManagerFits
    <2>4. CASE n = m
      <3>1. /\ keyLog'[m].signed \subseteq 1..newest
            /\ ~keyLog'[m].raced => \A s \in keyLog'[m].signed : s <= v
        <4>1. keyLog[m].signed \subseteq 1..newest
          BY <2>2, <2>4 DEF ManagerFits
        <4>2. ~keyLog[m].raced => \A s \in keyLog[m].signed : s <= v
          BY <1>1
        <4>3. \A s \in keyLog'[m].signed : s \in keyLog[m].signed \/ s = v
          BY <1>4, Zenon
        <4>4. v <= v
          BY <1>3
        <4> QED
          BY <1>4, <4>1, <4>2, <4>3, <4>4, Zenon
      <3> QED
        BY <1>4, <1>5, <1>6, <2>2, <2>4, <3>1, Zenon DEF ManagerFits
    <2> QED
      BY <2>3, <2>4
  <1>11. \A k \in Checks : CheckFits(k)'
    <2>1. SUFFICES ASSUME NEW k \in Checks
                   PROVE  CheckFits(k)'
      OBVIOUS
    <2>2. CheckFits(k) /\ check[k].kid \in MaybeVersion
      BY DEF KeysIInv, KeysTypeOK, Check
    <2>3. ASSUME check[k].pc = "wait", check[k].own, NEW d \in KeyCalls, keyCall'[d].op = "keys"
          PROVE  /\ check[k].kid \in keyLog'[keyCall'[d].m].signed
                 /\ keyLog'[keyCall'[d].m].raced \/ Covers(keyCall[d], check[k].kid)'
      <3>1. CASE d = c
        <4>1. r.op = "keys" /\ r # NoCall
          BY <1>8, <2>3, <3>1, NoCallType
        <4>2. keyCall[c].op = "keys" /\ r.m = m
          BY <1>2, <4>1
        <4>3. check[k].kid \in keyLog[m].signed
          BY <1>1, <2>2, <2>3, <4>2 DEF CheckFits
        <4>4. keyLog'[m].raced \/ Covers(keyCall[c], check[k].kid)'
          <5>1. SUFFICES ASSUME ~keyLog'[m].raced
                         PROVE  Covers(keyCall[c], check[k].kid)'
            OBVIOUS
          <5>2. check[k].kid <= v
            BY <1>1, <1>4, <4>3, <5>1
          <5>3. check[k].kid \in 1..v
            <6>1. check[k].kid \in 1..newest
              BY <4>3 DEF KeysIInv, ManagerFits
            <6> QED
              BY <1>3, <5>2, <6>1
          <5>4. \/ check[k].kid \in {v} \union previousVersionIDs(v)
                \/ check[k].kid + PreviousGenerations < newest
            BY <1>3, <5>3, PreviousVersions
          <5> QED
            BY <1>2, <1>5, <1>8, <4>1, <5>4 DEF Covers
        <4> QED
          BY <1>4, <1>8, <3>1, <4>2, <4>3, <4>4
      <3>2. CASE d # c
        <4>1. keyCall'[d] = keyCall[d] /\ keyCall[d].m \in Managers
          BY <1>8, <3>2 DEF KeysIInv, KeysTypeOK, KeyCall
        <4>2. /\ check[k].kid \in keyLog[keyCall[d].m].signed
              /\ keyLog[keyCall[d].m].raced \/ Covers(keyCall[d], check[k].kid)
          BY <2>2, <2>3, <4>1 DEF CheckFits
        <4>3. Covers(keyCall[d], check[k].kid)' <=> Covers(keyCall[d], check[k].kid)
          BY <1>5, <4>1 DEF Covers
        <4> QED
          BY <1>4, <4>1, <4>2, <4>3
      <3> QED
        BY <3>1, <3>2
    <2> QED
      BY <1>5, <2>2, <2>3 DEF CheckFits
  <1>12. OneFetch'
    <2>1. r.op = "keys" => keyCall[c].op = "keys"
      BY <1>2, NoCallType
    <2> QED
      BY <1>5, <1>8, <2>1 DEF OneFetch, KeysIInv
  <1> QED
    BY <1>7, <1>9, <1>10, <1>11, <1>12 DEF KeysIInv

LEMMA CurrentKeyStep ==
    ASSUME KeysIInv, NEW c \in KeyCalls, CurrentKey(c)
    PROVE  KeysIInv'
  <1>1. PICK m \in Managers : m = keyCall[c].m
    BY DEF KeysIInv, KeysTypeOK, KeyCall
  <1>2. keyCall[c].pc = "current" /\ UNCHANGED <<store, cached, current, gateway>>
    BY DEF CurrentKey, KeyAt
  <1>3. CASE current[m] \in cached[m]
    <2>1. PICK v \in 1..newest : v = current[m]
      BY <1>3 DEF KeysIInv, KeysTypeOK
    <2>2. AfterCurrent(c, v) /\ Log(c, v, FALSE)
      BY <1>1, <1>3, <2>1 DEF CurrentKey
    <2>3. current' = [current EXCEPT ![keyCall[c].m] = v]
      BY <1>1, <1>2, <2>1 DEF KeysIInv, KeysTypeOK
    <2>4. ASSUME ~keyLog[keyCall[c].m].raced
          PROVE  /\ \A s \in keyLog[keyCall[c].m].signed : s <= v
                 /\ \A d \in Holding(c, {"install", "cache", "set"}) : v <= keyCall[d].v
      <3>1. \A s \in keyLog[m].signed : s <= v
        BY <1>1, <2>1, <2>4 DEF KeysIInv, ManagerFits
      <3>2. \A d \in Holding(c, {"install", "cache", "set"}) : v <= keyCall[d].v
        BY <1>1, <2>1, <2>4 DEF KeysIInv, CallFits, Holding
      <3> QED
        BY <1>1, <3>1, <3>2
    <2> QED
      BY <1>2, <2>2, <2>3, <2>4, UseStep
  <1>4. CASE current[m] \notin cached[m]
    <2>1. KeyGoto(c, "latest") /\ keyLog' = keyLog
      BY <1>1, <1>4 DEF CurrentKey
    <2>2. PICK r \in KeyCall :
             keyCall' = [keyCall EXCEPT ![c] = r] /\ r = [keyCall[c] EXCEPT !.pc = "latest"]
      BY <2>1, AfterGoto DEF KeysIInv
    <2>3. /\ r.pc = "latest" /\ r.op = keyCall[c].op /\ r.m = keyCall[c].m /\ r.v = keyCall[c].v
          /\ r.keys = keyCall[c].keys /\ r.left = keyCall[c].left
      BY <2>2 DEF KeysIInv, KeysTypeOK, KeyCall
    <2>4. CallFits(r)
      BY <2>3 DEF KeysIInv, CallFits, FetchPlaces, KeySetPlaces
    <2>5. \A kid \in MaybeVersion : Covers(r, kid)
      BY <2>3 DEF Covers, KeySetPlaces
    <2> QED
      BY <1>2, <2>1, <2>2, <2>3, <2>4, <2>5, OnlyCallMoves
  <1> QED
    BY <1>3, <1>4

LEMMA GetLatestStep ==
    ASSUME KeysIInv, NEW c \in KeyCalls, GetLatest(c)
    PROVE  KeysIInv'
  <1>1. keyCall[c] \in KeyCall /\ newest \in MaybeVersion
    BY DEF KeysIInv, KeysTypeOK
  <1>2. PICK r : r = [keyCall[c] EXCEPT !.pc = "install", !.v = newest]
    OBVIOUS
  <1>3. /\ r \in KeyCall
        /\ r.pc = "install" /\ r.op = keyCall[c].op /\ r.m = keyCall[c].m /\ r.v = newest
        /\ r.keys = keyCall[c].keys /\ r.left = keyCall[c].left
    BY <1>1, <1>2 DEF KeyCall
  <1>4. keyCall' = [keyCall EXCEPT ![c] = r]
    BY <1>2 DEF GetLatest
  <1>5. CallFits(r)
    <2>1. CallFits(keyCall[c]) /\ ManagerFits(r.m) /\ r.m \in Managers
      BY <1>1, <1>3 DEF KeysIInv, KeyCall
    <2>2. newest \notin keyLog[r.m].gone /\ newest # 0 /\ newest <= newest /\ newest \in Nat
      BY <1>1, <2>1, KeysAssumption DEF GetLatest, ManagerFits, MaybeVersion
    <2>3. current[r.m] <= newest /\ \A s \in keyLog[r.m].signed : s <= newest
      BY <2>1, <2>2 DEF ManagerFits, KeysIInv, KeysTypeOK
    <2> QED
      BY <1>3, <2>1, <2>2, <2>3 DEF CallFits, FetchPlaces, KeySetPlaces
  <1>6. \A kid \in MaybeVersion : Covers(r, kid)
    BY <1>3 DEF Covers, KeySetPlaces
  <1> QED
    BY <1>3, <1>4, <1>5, <1>6, OnlyCallMoves DEF GetLatest

\* Making the version in hand the current one.
LEMMA MakeCurrentStep ==
    ASSUME KeysIInv, NEW c \in KeyCalls, keyCall[c].pc \in {"install", "set"}, MakeCurrent(c),
           UNCHANGED <<store, cached, gateway>>
    PROVE  KeysIInv'
  <1>1. PICK m \in Managers : m = keyCall[c].m
    BY DEF KeysIInv, KeysTypeOK, KeyCall
  <1>2. PICK v \in 1..newest : v = keyCall[c].v
    BY KeysAssumption DEF KeysIInv, KeysTypeOK, KeyCall, CallFits, MaybeVersion
  <1>3. PICK races \in BOOLEAN : races = Races(c, v)
    BY DEF Races
  <1>4. /\ current' = [current EXCEPT ![keyCall[c].m] = v]
        /\ AfterCurrent(c, v) /\ Log(c, v, races)
    BY <1>2, <1>3 DEF MakeCurrent
  <1>5. ASSUME ~keyLog[keyCall[c].m].raced
        PROVE  /\ \A s \in keyLog[keyCall[c].m].signed : s <= v
               /\ ~races => \A d \in Holding(c, {"install", "cache", "set"}) : v <= keyCall[d].v
    <2>1. \A s \in keyLog[keyCall[c].m].signed : s <= v
      BY <1>2, <1>5 DEF KeysIInv, CallFits
    <2>2. ASSUME ~races, NEW d \in Holding(c, {"install", "cache", "set"})
          PROVE  v <= keyCall[d].v
      <3>1. keyCall[d].v \in Nat
        BY KeysAssumption DEF Holding, KeysIInv, KeysTypeOK, KeyCall, MaybeVersion
      <3>2. ~ (keyCall[d].v < v)
        BY <1>3, <2>2 DEF Races
      <3> QED
        BY <1>2, <3>1, <3>2
    <2> QED
      BY <2>1, <2>2
  <1> QED
    BY <1>4, <1>5, UseStep

LEMMA SetCurrentStep ==
    ASSUME KeysIInv, NEW c \in KeyCalls, SetCurrent(c)
    PROVE  KeysIInv'
  BY MakeCurrentStep DEF SetCurrent, KeyAt

LEMMA InstallStep ==
    ASSUME KeysIInv, NEW c \in KeyCalls, Install(c)
    PROVE  KeysIInv'
  <1>1. CASE keyCall[c].v \in cached[keyCall[c].m] /\ keyCall[c].op # "refresh"
    BY <1>1, MakeCurrentStep DEF Install, KeyAt
  <1>2. CASE ~ (keyCall[c].v \in cached[keyCall[c].m] /\ keyCall[c].op # "refresh")
    <2>1. PICK pc \in {"set", "cache"} :
             KeyGoto(c, pc) /\ UNCHANGED <<store, cached, current, gateway, keyLog>>
      BY <1>2 DEF Install
    <2>2. PICK r \in KeyCall :
             keyCall' = [keyCall EXCEPT ![c] = r] /\ r = [keyCall[c] EXCEPT !.pc = pc]
      BY <2>1, AfterGoto DEF KeysIInv
    <2>3. /\ r.pc = pc /\ r.op = keyCall[c].op /\ r.m = keyCall[c].m /\ r.v = keyCall[c].v
          /\ r.keys = keyCall[c].keys /\ r.left = keyCall[c].left
      BY <2>2 DEF KeysIInv, KeysTypeOK, KeyCall
    <2>4. CallFits(r)
      BY <2>1, <2>3 DEF KeysIInv, CallFits, FetchPlaces, KeySetPlaces, Install, KeyAt
    <2>5. \A kid \in MaybeVersion : Covers(r, kid)
      BY <2>3 DEF Covers, KeySetPlaces
    <2> QED
      BY <2>1, <2>2, <2>3, <2>4, <2>5, OnlyCallMoves
  <1> QED
    BY <1>1, <1>2

-----------------------------------------------------------------------------
(* Steps that fetch and cache versions.                                    *)

\* Caching a version in hand.
LEMMA AfterCaching ==
    ASSUME KeysIInv, NEW c \in KeyCalls, keyCall[c].pc \in {"cache", "keep"},
           cached' = [cached EXCEPT ![keyCall[c].m] = @ \union {keyCall[c].v}]
    PROVE  /\ cached' \in [Managers -> SUBSET (1..newest)]
           /\ \A m \in Managers : keyLog[m].gone \intersect cached'[m] = {}
  <1>1. PICK m \in Managers : m = keyCall[c].m
    BY DEF KeysIInv, KeysTypeOK, KeyCall
  <1>2. PICK v : v = keyCall[c].v
    OBVIOUS
  <1>3. v \in 1..newest /\ v \notin keyLog[m].gone
    BY <1>1, <1>2, KeysAssumption DEF KeysIInv, KeysTypeOK, KeyCall, CallFits, MaybeVersion
  <1>4. cached' = [cached EXCEPT ![m] = @ \union {v}] /\ cached \in [Managers -> SUBSET (1..newest)]
    BY <1>1, <1>2 DEF KeysIInv, KeysTypeOK
  <1>5. cached' \in [Managers -> SUBSET (1..newest)]
    <2>1. PICK s \in SUBSET (1..newest) : s = cached[m] \union {v}
      BY <1>3, <1>4
    <2> QED
      BY <1>4, <2>1
  <1>6. \A n \in Managers : keyLog[n].gone \intersect cached'[n] = {}
    <2>1. SUFFICES ASSUME NEW n \in Managers, NEW x \in keyLog[n].gone, x \in cached'[n]
                   PROVE  FALSE
      OBVIOUS
    <2>2. x \notin cached[n]
      BY <2>1 DEF KeysIInv, ManagerFits
    <2>3. n = m /\ x = v
      BY <1>4, <2>1, <2>2
    <2> QED
      BY <1>3, <2>1, <2>3
  <1> QED
    BY <1>5, <1>6

LEMMA CachePayloadStep ==
    ASSUME KeysIInv, NEW c \in KeyCalls, CachePayload(c)
    PROVE  KeysIInv'
  <1>1. PICK r \in KeyCall :
           keyCall' = [keyCall EXCEPT ![c] = r] /\ r = [keyCall[c] EXCEPT !.pc = "set"]
    BY AfterGoto DEF CachePayload, KeysIInv
  <1>2. /\ r.pc = "set" /\ r.op = keyCall[c].op /\ r.m = keyCall[c].m /\ r.v = keyCall[c].v
        /\ r.keys = keyCall[c].keys /\ r.left = keyCall[c].left
    BY <1>1 DEF KeysIInv, KeysTypeOK, KeyCall
  <1>3. /\ newest' = newest /\ disabled' = disabled /\ current' = current /\ keyLog' = keyLog
        /\ UNCHANGED <<current, gateway, keyLog>>
    BY DEF CachePayload, store
  <1>4. CallFits(r)
    BY <1>2 DEF CachePayload, KeyAt, KeysIInv, CallFits, FetchPlaces, KeySetPlaces
  <1>5. CallFits(r)'
    BY <1>3, <1>4 DEF CallFits
  <1>6. \A kid \in MaybeVersion : Covers(r, kid)'
    BY <1>2 DEF Covers, KeySetPlaces
  <1>7. /\ cached' \in [Managers -> SUBSET (1..newest')]
        /\ \A m \in Managers : keyLog[m].gone \intersect cached'[m] = {}
    BY <1>3, AfterCaching DEF CachePayload, KeyAt
  <1>8. /\ newest' \in MaybeVersion /\ newest <= newest'
        /\ disabled \subseteq disabled' /\ disabled' \subseteq 1..newest'
    BY <1>3, KeysAssumption DEF KeysIInv, KeysTypeOK, MaybeVersion
  <1> QED
    BY <1>1, <1>2, <1>3, <1>5, <1>6, <1>7, <1>8, CallMoves

LEMMA NextPreviousStep ==
    ASSUME KeysIInv, NEW c \in KeyCalls, NextPrevious(c)
    PROVE  KeysIInv'
  <1>1. keyCall[c] \in KeyCall /\ newest \in Nat /\ CallFits(keyCall[c])
    BY KeysAssumption DEF KeysIInv, KeysTypeOK, MaybeVersion
  <1>2. PICK v \in 1..newest : v = Newest(keyCall[c].left)
    BY <1>1, NewestIsOne DEF NextPrevious, CallFits
  <1>3. v \in MaybeVersion
    BY KeysAssumption DEF KeysIInv, KeysTypeOK, MaybeVersion
  <1>4. PICK r : r = [keyCall[c] EXCEPT !.pc = "load", !.v = v]
    OBVIOUS
  <1>5. /\ r \in KeyCall
        /\ r.pc = "load" /\ r.op = keyCall[c].op /\ r.m = keyCall[c].m /\ r.v = v
        /\ r.keys = keyCall[c].keys /\ r.left = keyCall[c].left
    BY <1>1, <1>3, <1>4 DEF KeyCall
  <1>6. keyCall' = [keyCall EXCEPT ![c] = r]
    BY <1>2, <1>4 DEF NextPrevious
  <1>7. CallFits(r)
    BY <1>1, <1>5 DEF CallFits, NextPrevious, KeyAt, FetchPlaces, KeySetPlaces
  <1>8. \A kid \in MaybeVersion : Covers(keyCall[c], kid) => Covers(r, kid)
    BY <1>5 DEF Covers, NextPrevious, KeyAt, KeySetPlaces
  <1> QED
    BY <1>5, <1>6, <1>7, <1>8, OnlyCallMoves DEF NextPrevious

\* keySet has dealt with the version in hand, or Verify is done.
LEMMA AfterLoaded ==
    ASSUME KeysIInv, NEW c \in KeyCalls, NEW found \in BOOLEAN,
           keyCall[c].pc \in {"load", "fetch", "keep"},
           Loaded(c, found)
    PROVE  \E r \in KeyCall :
              /\ keyCall' = [keyCall EXCEPT ![c] = r]
              /\ CallFits(r)
              /\ \/ r = NoCall /\ keyCall[c].op # "keys"
                 \/ /\ r.op = keyCall[c].op /\ r.m = keyCall[c].m /\ r.pc = "next" /\ r.v = 0
                    /\ r.keys = keyCall[c].keys \union (IF found THEN {keyCall[c].v} ELSE {})
                    /\ r.left = keyCall[c].left \ {keyCall[c].v}
  <1>1. keyCall[c] \in KeyCall /\ newest \in Nat /\ CallFits(keyCall[c])
    BY KeysAssumption DEF KeysIInv, KeysTypeOK, MaybeVersion
  <1>2. CASE keyCall[c].keys = {}
    <2>1. keyCall' = [keyCall EXCEPT ![c] = NoCall] /\ keyCall[c].op # "keys"
      BY <1>1, <1>2 DEF Loaded, KeyReturn, CallFits, KeySetPlaces
    <2> QED
      BY <1>1, <2>1, NoCallType, NoCallFits
  <1>3. CASE keyCall[c].keys # {}
    <2>1. PICK v \in 1..newest : v = keyCall[c].v
      BY <1>1, KeysAssumption DEF CallFits, KeyCall, MaybeVersion
    <2>2. v \in Versions /\ 0 \in MaybeVersion
      BY KeysAssumption DEF KeysIInv, KeysTypeOK, MaybeVersion, Versions
    <2>3. PICK keys \in SUBSET Versions :
             keys = keyCall[c].keys \union (IF found THEN {v} ELSE {})
      BY <1>1, <2>2 DEF KeyCall
    <2>4. PICK left \in SUBSET Versions : left = keyCall[c].left \ {v}
      BY <1>1 DEF KeyCall
    <2>5. PICK r : r = [keyCall[c] EXCEPT !.pc = "next", !.v = 0, !.left = left, !.keys = keys]
      OBVIOUS
    <2>6. keyCall' = [keyCall EXCEPT ![c] = r]
      BY <1>3, <2>1, <2>3, <2>4, <2>5 DEF Loaded, KeysIInv, KeysTypeOK
    <2>7. /\ r \in KeyCall
          /\ r.op = keyCall[c].op /\ r.m = keyCall[c].m /\ r.pc = "next" /\ r.v = 0
          /\ r.keys = keys /\ r.left = left
      BY <1>1, <2>2, <2>5 DEF KeyCall
    <2>8. keys \subseteq 1..newest /\ left \subseteq 1..newest /\ keys # {}
      BY <1>1, <1>3, <2>1, <2>3, <2>4 DEF CallFits
    <2>9. CallFits(r)
      BY <1>1, <2>7, <2>8 DEF CallFits, FetchPlaces, KeySetPlaces
    <2> QED
      BY <2>1, <2>3, <2>4, <2>6, <2>7, <2>9
  <1> QED
    BY <1>2, <1>3

\* The version in hand is collected, or skipped because it cannot be read.
LEMMA LoadedStep ==
    ASSUME KeysIInv, NEW c \in KeyCalls, NEW found \in BOOLEAN,
           keyCall[c].pc \in {"load", "fetch", "keep"},
           Loaded(c, found), found \/ keyCall[c].v \in disabled,
           UNCHANGED <<store, current, gateway, keyLog>>,
           cached' \in [Managers -> SUBSET (1..newest)],
           \A m \in Managers : keyLog[m].gone \intersect cached'[m] = {}
    PROVE  KeysIInv'
  <1>1. PICK r \in KeyCall :
           /\ keyCall' = [keyCall EXCEPT ![c] = r]
           /\ CallFits(r)
           /\ \/ r = NoCall /\ keyCall[c].op # "keys"
              \/ /\ r.op = keyCall[c].op /\ r.m = keyCall[c].m /\ r.pc = "next" /\ r.v = 0
                 /\ r.keys = keyCall[c].keys \union (IF found THEN {keyCall[c].v} ELSE {})
                 /\ r.left = keyCall[c].left \ {keyCall[c].v}
    BY AfterLoaded
  <1>2. newest' = newest /\ disabled' = disabled /\ current' = current /\ keyLog' = keyLog
    BY DEF store
  <1>3. CallFits(r)'
    BY <1>1, <1>2 DEF CallFits
  <1>4. ASSUME r.op = "keys"
        PROVE  /\ keyCall[c].op = "keys" /\ r.m = keyCall[c].m
               /\ \A kid \in MaybeVersion : Covers(keyCall[c], kid) => Covers(r, kid)'
    <2>1. r # NoCall
      BY <1>4, NoCallType
    <2>2. \A kid \in MaybeVersion : Covers(keyCall[c], kid) => Covers(r, kid)
      BY <1>1, <2>1 DEF Covers, KeySetPlaces
    <2>3. \A kid \in MaybeVersion : Covers(r, kid)' <=> Covers(r, kid)
      BY <1>2 DEF Covers
    <2> QED
      BY <1>1, <1>4, <2>1, <2>2, <2>3
  <1>5. /\ newest' \in MaybeVersion /\ newest <= newest'
        /\ disabled \subseteq disabled' /\ disabled' \subseteq 1..newest'
        /\ cached' \in [Managers -> SUBSET (1..newest')]
    BY <1>2, KeysAssumption DEF KeysIInv, KeysTypeOK, MaybeVersion
  <1> QED
    BY <1>1, <1>3, <1>4, <1>5, CallMoves

\* The call goes on at pc, in the middle of loadVersion, or of versionForKeyID.
LEMMA GotoStep ==
    ASSUME KeysIInv, NEW c \in KeyCalls, NEW pc, KeyGoto(c, pc),
           \/ keyCall[c].pc = "load" /\ pc = "fetch"
           \/ keyCall[c].pc = "fetch" /\ pc = "keep" /\ keyCall[c].v \notin disabled
           \/ keyCall[c].pc = "lookup" /\ pc = "current",
           UNCHANGED <<store, cached, current, gateway, keyLog>>
    PROVE  KeysIInv'
  <1>1. PICK r \in KeyCall :
           keyCall' = [keyCall EXCEPT ![c] = r] /\ r = [keyCall[c] EXCEPT !.pc = pc]
    BY AfterGoto DEF KeysIInv
  <1>2. keyCall[c] \in KeyCall /\ CallFits(keyCall[c]) /\ ManagerFits(keyCall[c].m)
    BY DEF KeysIInv, KeysTypeOK, KeyCall
  <1>3. /\ r.pc = pc /\ r.op = keyCall[c].op /\ r.m = keyCall[c].m /\ r.v = keyCall[c].v
        /\ r.keys = keyCall[c].keys /\ r.left = keyCall[c].left
    BY <1>1, <1>2 DEF KeyCall
  <1>4. CallFits(r)
    BY <1>2, <1>3 DEF CallFits, ManagerFits, FetchPlaces, KeySetPlaces
  <1>5. \A kid \in MaybeVersion : Covers(keyCall[c], kid) => Covers(r, kid)
    BY <1>3 DEF Covers, KeySetPlaces
  <1> QED
    BY <1>1, <1>3, <1>4, <1>5, OnlyCallMoves

LEMMA LoadVersionStep ==
    ASSUME KeysIInv, NEW c \in KeyCalls, LoadVersion(c)
    PROVE  KeysIInv'
  <1>1. CASE keyCall[c].v \in cached[keyCall[c].m]
    <2>1. \A m \in Managers : keyLog[m].gone \intersect cached'[m] = {}
      BY Zenon DEF LoadVersion, KeysIInv, ManagerFits
    <2> QED
      BY <1>1, <2>1, LoadedStep DEF LoadVersion, KeyAt, KeysIInv, KeysTypeOK
  <1>2. CASE keyCall[c].v \notin cached[keyCall[c].m]
    BY <1>2, GotoStep DEF LoadVersion, KeyAt
  <1> QED
    BY <1>1, <1>2

LEMMA GetVersionStep ==
    ASSUME KeysIInv, NEW c \in KeyCalls, GetVersion(c)
    PROVE  KeysIInv'
  <1>1. CASE keyCall[c].v \in disabled
    <2>1. \A m \in Managers : keyLog[m].gone \intersect cached'[m] = {}
      BY Zenon DEF GetVersion, KeysIInv, ManagerFits
    <2> QED
      BY <1>1, <2>1, LoadedStep DEF GetVersion, KeyAt, KeysIInv, KeysTypeOK
  <1>2. CASE keyCall[c].v \notin disabled
    BY <1>2, GotoStep DEF GetVersion, KeyAt
  <1> QED
    BY <1>1, <1>2

LEMMA KeepVersionStep ==
    ASSUME KeysIInv, NEW c \in KeyCalls, KeepVersion(c)
    PROVE  KeysIInv'
  BY AfterCaching, LoadedStep DEF KeepVersion, KeyAt

-----------------------------------------------------------------------------
(* Steps of versionForKeyID, RevokeSecret and RotateSecret.                *)

LEMMA VersionFoundStep ==
    ASSUME KeysIInv, NEW c \in KeyCalls, keyCall[c].op # "keys",
           keyCall[c].kid \in cached[keyCall[c].m], VersionFound(c),
           UNCHANGED <<store, cached, current, gateway, keyLog>>
    PROVE  KeysIInv'
  <1>1. keyCall[c] \in KeyCall /\ newest \in Nat /\ CallFits(keyCall[c])
    BY KeysAssumption DEF KeysIInv, KeysTypeOK, MaybeVersion
  <1>2. PICK v \in MaybeVersion : v = keyCall[c].kid
    BY <1>1 DEF KeyCall
  <1>3. v \in 1..newest
    BY <1>1, <1>2 DEF KeysIInv, KeysTypeOK, KeyCall
  <1>4. PICK pc \in {"load", "disable"} :
           pc = IF keyCall[c].op = "verify" THEN "load" ELSE "disable"
    OBVIOUS
  <1>5. PICK r : r = [keyCall[c] EXCEPT !.pc = pc, !.v = v, !.keys = {}]
    OBVIOUS
  <1>6. keyCall' = [keyCall EXCEPT ![c] = r]
    BY <1>2, <1>4, <1>5 DEF VersionFound, KeysIInv, KeysTypeOK
  <1>7. /\ r \in KeyCall
        /\ r.pc = pc /\ r.op = keyCall[c].op /\ r.m = keyCall[c].m /\ r.v = v
        /\ r.keys = {} /\ r.left = keyCall[c].left
    BY <1>1, <1>5 DEF KeyCall
  <1>8. CallFits(r)
    BY <1>1, <1>3, <1>7 DEF CallFits
  <1> QED
    BY <1>6, <1>7, <1>8, OnlyCallMoves

LEMMA LookUpStep ==
    ASSUME KeysIInv, NEW c \in KeyCalls, LookUp(c)
    PROVE  KeysIInv'
  <1>1. keyCall[c].op # "keys"
    BY DEF LookUp, KeyAt, KeysIInv, CallFits, FetchPlaces
  <1>2. CASE keyCall[c].kid \in cached[keyCall[c].m]
    BY <1>1, <1>2, VersionFoundStep DEF LookUp
  <1>3. CASE keyCall[c].kid \notin cached[keyCall[c].m]
    BY <1>3, GotoStep DEF LookUp, KeyAt
  <1> QED
    BY <1>2, <1>3

LEMMA LookUpAgainStep ==
    ASSUME KeysIInv, NEW c \in KeyCalls, LookUpAgain(c)
    PROVE  KeysIInv'
  <1>1. CASE keyCall[c].kid \in cached[keyCall[c].m]
    BY <1>1, VersionFoundStep DEF LookUpAgain
  <1>2. CASE keyCall[c].kid \notin cached[keyCall[c].m]
    BY <1>2, OnlyReturns DEF LookUpAgain
  <1> QED
    BY <1>1, <1>2

LEMMA DisableVersionStep ==
    ASSUME KeysIInv, NEW c \in KeyCalls, DisableVersion(c)
    PROVE  KeysIInv'
  <1>1. PICK r \in KeyCall :
           keyCall' = [keyCall EXCEPT ![c] = r] /\ r = [keyCall[c] EXCEPT !.pc = "forget"]
    BY AfterGoto DEF DisableVersion, KeysIInv
  <1>2. /\ keyCall[c] \in KeyCall /\ CallFits(keyCall[c]) /\ newest \in Nat
        /\ keyCall[c].pc = "disable"
    BY KeysAssumption DEF KeysIInv, KeysTypeOK, MaybeVersion, DisableVersion, KeyAt
  <1>3. /\ r.pc = "forget" /\ r.op = keyCall[c].op /\ r.m = keyCall[c].m /\ r.v = keyCall[c].v
        /\ r.keys = keyCall[c].keys /\ r.left = keyCall[c].left
    BY <1>1, <1>2 DEF KeyCall
  <1>4. keyCall[c].v \in 1..newest
    BY <1>2, KeysAssumption DEF CallFits, KeyCall, MaybeVersion
  <1>5. /\ newest' = newest /\ disabled' = disabled \union {keyCall[c].v} /\ cached' = cached
        /\ current' = current /\ keyLog' = keyLog /\ UNCHANGED gateway
    BY DEF DisableVersion
  <1>6. r.op # "keys"
    BY <1>2, <1>3 DEF CallFits, FetchPlaces
  <1>7. CallFits(r)'
    BY <1>2, <1>3, <1>5, <1>6 DEF CallFits
  <1>8. /\ newest' \in MaybeVersion /\ newest <= newest'
        /\ disabled \subseteq disabled' /\ disabled' \subseteq 1..newest'
        /\ cached' \in [Managers -> SUBSET (1..newest')]
    <2>1. disabled \subseteq disabled' /\ disabled' \subseteq 1..newest
      BY <1>4, <1>5, Zenon DEF KeysIInv, KeysTypeOK
    <2>2. newest \in MaybeVersion /\ newest <= newest /\ cached \in [Managers -> SUBSET (1..newest)]
      BY <1>2 DEF KeysIInv, KeysTypeOK
    <2> QED
      BY <1>5, <2>1, <2>2
  <1>9. \A m \in Managers : keyLog[m].gone \intersect cached'[m] = {}
    BY <1>5, Zenon DEF KeysIInv, ManagerFits
  <1> QED
    BY <1>1, <1>5, <1>6, <1>7, <1>8, <1>9, CallMoves

LEMMA AddVersionStep ==
    ASSUME KeysIInv, NEW c \in KeyCalls, AddVersion(c)
    PROVE  KeysIInv'
  <1>1. /\ keyCall[c] \in KeyCall /\ CallFits(keyCall[c]) /\ newest \in Nat
        /\ keyCall[c].pc = "add" /\ newest' = newest + 1 /\ newest' \in MaybeVersion
    BY KeysAssumption DEF KeysIInv, KeysTypeOK, MaybeVersion, AddVersion, KeyAt
  <1>2. PICK r : r = [keyCall[c] EXCEPT !.pc = "cache", !.v = newest']
    OBVIOUS
  <1>3. keyCall' = [keyCall EXCEPT ![c] = r]
    BY <1>1, <1>2 DEF AddVersion, KeysIInv, KeysTypeOK
  <1>4. /\ r \in KeyCall
        /\ r.pc = "cache" /\ r.op = keyCall[c].op /\ r.m = keyCall[c].m /\ r.v = newest'
        /\ r.keys = keyCall[c].keys /\ r.left = keyCall[c].left
    BY <1>1, <1>2 DEF KeyCall
  <1>5. r.op # "keys"
    BY <1>1, <1>4 DEF CallFits, FetchPlaces
  <1>6. /\ disabled' = disabled /\ cached' = cached /\ current' = current /\ keyLog' = keyLog
        /\ UNCHANGED gateway
    BY DEF AddVersion
  <1>7. 1..newest \subseteq 1..newest'
    BY <1>1
  <1>8. CallFits(r)'
    <2>1. ManagerFits(r.m) /\ r.m \in Managers
      BY <1>1, <1>4 DEF KeysIInv, KeyCall
    <2>2. newest' \notin keyLog[r.m].gone
      BY <1>1, <2>1 DEF ManagerFits, KeysIInv, KeysTypeOK
    <2>3. current[r.m] <= newest' /\ \A s \in keyLog[r.m].signed : s <= newest'
      BY <1>1, <2>1 DEF ManagerFits, KeysIInv, KeysTypeOK
    <2>4. r.keys \subseteq 1..newest' /\ r.left \subseteq 1..newest'
      BY <1>1, <1>4, <1>7, Zenon DEF CallFits
    <2> QED
      BY <1>1, <1>4, <1>5, <1>6, <2>2, <2>3, <2>4 DEF CallFits
  <1>9. /\ newest <= newest' /\ disabled \subseteq disabled' /\ disabled' \subseteq 1..newest'
        /\ cached' \in [Managers -> SUBSET (1..newest')]
    BY <1>1, <1>6, <1>7 DEF KeysIInv, KeysTypeOK
  <1>10. \A m \in Managers : keyLog[m].gone \intersect cached'[m] = {}
    BY <1>6, Zenon DEF KeysIInv, ManagerFits
  <1> QED
    BY <1>1, <1>3, <1>4, <1>5, <1>6, <1>8, <1>9, <1>10, CallMoves

\* RevokeSecret drops the version: gone is noted only while no call of the manager
\* is about to cache it.
LEMMA ForgetStep ==
    ASSUME KeysIInv, NEW c \in KeyCalls, Forget(c)
    PROVE  KeysIInv'
  <1>1. PICK m \in Managers : m = keyCall[c].m
    BY DEF KeysIInv, KeysTypeOK, KeyCall
  <1>2. /\ keyCall[c] \in KeyCall /\ CallFits(keyCall[c]) /\ newest \in Nat
        /\ keyCall[c].pc = "forget"
    BY KeysAssumption DEF KeysIInv, KeysTypeOK, MaybeVersion, Forget, KeyAt
  <1>3. PICK v \in 1..newest : v = keyCall[c].v /\ v \in disabled
    BY <1>2, KeysAssumption DEF CallFits, KeyCall, MaybeVersion
  <1>4. PICK held \in BOOLEAN :
           held = \E d \in Holding(c, {"install", "cache", "keep"}) : keyCall[d].v = v
    OBVIOUS
  <1>5. PICK gone \in SUBSET Versions :
           /\ gone = IF held THEN keyLog[m].gone ELSE keyLog[m].gone \union {v}
           /\ gone \subseteq keyLog[m].gone \union {v}
    <2>1. v \in Versions
      BY <1>3, KeysAssumption DEF KeysIInv, KeysTypeOK, MaybeVersion, Versions
    <2>2. keyLog[m].gone \subseteq Versions
      BY DEF KeysIInv, KeysTypeOK, KeyLog
    <2> QED
      BY <2>1, <2>2
  <1>6. PICK cur \in {0, current[m]} : cur = IF current[m] = v THEN 0 ELSE current[m]
    OBVIOUS
  <1>7. PICK keep \in SUBSET cached[m] : keep = cached[m] \ {v}
    OBVIOUS
  <1>8. /\ cached' = [cached EXCEPT ![m] = keep]
        /\ current' = [current EXCEPT ![m] = cur]
        /\ keyCall' = [keyCall EXCEPT ![c] = NoCall]
        /\ keyLog' = [keyLog EXCEPT ![m].gone = gone]
        /\ newest' = newest /\ disabled' = disabled /\ jwks' = jwks /\ check' = check
    BY <1>1, <1>3, <1>4, <1>5, <1>6, <1>7
       DEF Forget, Forgotten, KeyReturn, store, gateway
  <1>9. /\ cached'[m] = keep /\ current'[m] = cur
        /\ keyLog'[m].gone = gone /\ keyLog'[m].signed = keyLog[m].signed
        /\ keyLog'[m].raced = keyLog[m].raced
        /\ \A n \in Managers : n # m => /\ cached'[n] = cached[n] /\ current'[n] = current[n]
                                        /\ keyLog'[n] = keyLog[n]
    BY <1>8 DEF KeysIInv, KeysTypeOK, KeyLog
  <1>10. /\ keyCall'[c] = NoCall
         /\ \A d \in KeyCalls : d # c => keyCall'[d] = keyCall[d]
    BY <1>8 DEF KeysIInv, KeysTypeOK
  <1>11. KeysTypeOK'
    <2>1. cached' \in [Managers -> SUBSET (1..newest)]
      BY <1>7, <1>8 DEF KeysIInv, KeysTypeOK
    <2>2. current' \in [Managers -> 0..newest]
      <3>1. 0 \in 0..newest
        BY <1>2
      <3> QED
        BY <1>8, <3>1 DEF KeysIInv, KeysTypeOK
    <2>3. keyCall' \in [KeyCalls -> KeyCall]
      BY <1>8, NoCallType DEF KeysIInv, KeysTypeOK
    <2>4. keyLog' \in [Managers -> KeyLog]
      BY <1>8 DEF KeysIInv, KeysTypeOK, KeyLog
    <2> QED
      BY <1>8, <2>1, <2>2, <2>3, <2>4 DEF KeysIInv, KeysTypeOK
  <1>12. \A d \in KeyCalls : CallFits(keyCall[d])'
    <2>1. SUFFICES ASSUME NEW d \in KeyCalls
                   PROVE  CallFits(keyCall[d])'
      OBVIOUS
    <2>2. CASE d = c
      BY <1>2, <1>8, <1>10, <2>2, NoCallType DEF CallFits
    <2>3. CASE d # c
      <3>1. PICK q \in KeyCall : q = keyCall[d] /\ q = keyCall'[d] /\ q.m \in Managers
        BY <1>10, <2>3 DEF KeysIInv, KeysTypeOK, KeyCall
      <3>2. CallFits(q)
        BY <3>1 DEF KeysIInv
      <3>3. CASE q.m # m
        BY <1>8, <1>9, <3>1, <3>2, <3>3 DEF CallFits
      <3>4. CASE q.m = m
        <4>1. q.pc \in {"install", "cache", "keep"} => q.v \notin gone
          BY <1>1, <1>4, <1>5, <2>3, <3>1, <3>2, <3>4 DEF CallFits, Holding
        <4>2. q.pc \in {"install", "cache", "set"} /\ ~keyLog[m].raced => cur <= q.v
          <5>1. q.v \in Nat
            BY KeysAssumption DEF KeyCall, MaybeVersion
          <5> QED
            BY <1>6, <3>2, <3>4, <5>1 DEF CallFits
        <4> QED
          BY <1>8, <1>9, <3>1, <3>2, <3>4, <4>1, <4>2 DEF CallFits
      <3> QED
        BY <3>3, <3>4
    <2> QED
      BY <2>2, <2>3
  <1>13. \A n \in Managers : ManagerFits(n)'
    <2>1. SUFFICES ASSUME NEW n \in Managers
                   PROVE  ManagerFits(n)'
      OBVIOUS
    <2>2. ManagerFits(n)
      BY DEF KeysIInv
    <2>3. CASE n # m
      BY <1>8, <1>9, <2>2, <2>3, Zenon DEF ManagerFits
    <2>4. CASE n = m
      <3>1. gone \subseteq disabled /\ gone \intersect keep = {}
        BY <1>3, <1>5, <1>7, <2>2, <2>4 DEF ManagerFits
      <3>2. cur # 0 => cur = current[m] /\ current[m] # 0
        BY <1>6
      <3>3. ~keyLog[m].raced /\ cur # 0 => \A s \in keyLog[m].signed : s <= cur
        BY <2>2, <2>4, <3>2, Zenon DEF ManagerFits
      <3>4. keyLog[m].signed \subseteq 1..newest
        BY <2>2, <2>4, Zenon DEF ManagerFits
      <3> QED
        BY <1>8, <1>9, <2>4, <3>1, <3>3, <3>4, Zenon DEF ManagerFits
    <2> QED
      BY <2>3, <2>4
  <1>14. \A d \in KeyCalls : keyCall'[d].op = "keys" => d # c /\ keyCall'[d] = keyCall[d]
    BY <1>10, NoCallType
  <1>15. \A n \in Managers : keyLog'[n].signed = keyLog[n].signed /\ keyLog'[n].raced = keyLog[n].raced
    BY <1>9
  <1>16. \A k \in Checks : CheckFits(k)'
    <2>1. SUFFICES ASSUME NEW k \in Checks
                   PROVE  CheckFits(k)'
      OBVIOUS
    <2>2. CheckFits(k)
      BY DEF KeysIInv
    <2>3. ASSUME check[k].pc = "wait", check[k].own, NEW d \in KeyCalls, keyCall'[d].op = "keys"
          PROVE  /\ check[k].kid \in keyLog'[keyCall'[d].m].signed
                 /\ keyLog'[keyCall'[d].m].raced \/ Covers(keyCall[d], check[k].kid)'
      <3>1. keyCall'[d] = keyCall[d] /\ keyCall[d].m \in Managers
        BY <1>14, <2>3 DEF KeysIInv, KeysTypeOK, KeyCall
      <3>2. Covers(keyCall[d], check[k].kid)' <=> Covers(keyCall[d], check[k].kid)
        BY <1>8, <3>1 DEF Covers
      <3> QED
        BY <1>15, <2>2, <2>3, <3>1, <3>2 DEF CheckFits
    <2> QED
      BY <1>8, <2>2, <2>3 DEF CheckFits
  <1>17. OneFetch'
    BY <1>8, <1>14 DEF OneFetch, KeysIInv
  <1> QED
    BY <1>11, <1>12, <1>13, <1>16, <1>17 DEF KeysIInv

-----------------------------------------------------------------------------
(* Steps that end the fetch of the gateway.                                *)

\* A check that waited reads the keys, or stops; only keys of a fetch of its own
\* in which no version was overtaken are noted as such.
LEMMA AfterAnswer ==
    ASSUME KeysTypeOK, NEW keys \in SUBSET Versions, NEW raced \in BOOLEAN, NEW ok \in BOOLEAN,
           Answered(keys, raced, ok)
    PROVE  /\ check' \in [Checks -> Check]
           /\ \A k \in Checks : check[k].pc # "wait" => check'[k] = check[k]
           /\ \A k \in Checks : check[k].pc = "wait" =>
                 /\ check'[k].pc \in {"idle", "parse"}
                 /\ check'[k].pc = "parse" /\ check'[k].own =>
                       /\ check[k].own /\ ok /\ ~raced
                       /\ check'[k].kid = check[k].kid /\ check'[k].keys = keys
  <1>1. NoCheck \in Check /\ NoCheck.pc = "idle"
    BY KeysAssumption DEF NoCheck, Check, MaybeVersion
  <1> DEFINE Answer(k) ==
        IF check[k].pc # "wait"
        THEN check[k]
        ELSE CASE ok -> [check[k] EXCEPT !.pc = "parse", !.keys = keys, !.own = @ /\ ~raced]
               [] ~ok /\ jwks.loaded -> [check[k] EXCEPT !.pc = "parse", !.keys = jwks.keys,
                                                         !.own = FALSE]
               [] OTHER -> NoCheck
  <1>2. check' = [k \in Checks |-> Answer(k)]
    BY Zenon DEF Answered
  <1>3. ASSUME NEW k \in Checks
        PROVE  /\ Answer(k) \in Check
               /\ check[k].pc # "wait" => Answer(k) = check[k]
               /\ check[k].pc = "wait" =>
                     /\ Answer(k).pc \in {"idle", "parse"}
                     /\ Answer(k).pc = "parse" /\ Answer(k).own =>
                           /\ check[k].own /\ ok /\ ~raced
                           /\ Answer(k).kid = check[k].kid /\ Answer(k).keys = keys
    <2>1. check[k] \in Check /\ jwks.keys \in SUBSET Versions
      BY DEF KeysTypeOK, Jwks
    <2>2. PICK own \in BOOLEAN : own = (check[k].own /\ ~raced)
      OBVIOUS
    <2>3. PICK loaded \in BOOLEAN : loaded = jwks.loaded
      BY DEF KeysTypeOK, Jwks
    <2>4. check[k].pc # "wait" => Answer(k) = check[k]
      BY Zenon
    <2>5. check[k].pc = "wait" /\ ok =>
             Answer(k) = [check[k] EXCEPT !.pc = "parse", !.keys = keys, !.own = own]
      BY <2>2
    <2>6. check[k].pc = "wait" /\ ~ok /\ loaded =>
             Answer(k) = [check[k] EXCEPT !.pc = "parse", !.keys = jwks.keys, !.own = FALSE]
      BY <2>3
    <2>7. check[k].pc = "wait" /\ ~ok /\ ~loaded => Answer(k) = NoCheck
      BY <2>3
    <2> HIDE DEF Answer
    <2>8. CASE check[k].pc # "wait"
      BY <2>1, <2>4, <2>8
    <2>9. CASE check[k].pc = "wait" /\ ok
      BY <2>1, <2>2, <2>5, <2>9 DEF Check
    <2>10. CASE check[k].pc = "wait" /\ ~ok /\ loaded
      BY <2>1, <2>6, <2>10 DEF Check
    <2>11. CASE check[k].pc = "wait" /\ ~ok /\ ~loaded
      BY <1>1, <2>7, <2>11
    <2> QED
      BY <2>8, <2>9, <2>10, <2>11
  <1> HIDE DEF Answer
  <1> QED
    BY <1>2, <1>3

LEMMA FetchOver ==
    ASSUME KeysIInv, NEW keys \in SUBSET Versions, NEW raced \in BOOLEAN, NEW ok \in BOOLEAN,
           Answered(keys, raced, ok), UNCHANGED store,
           \A c \in KeyCalls : keyCall'[c].op # "keys",
           ok /\ ~raced =>
              \A k \in Checks : check[k].pc = "wait" /\ check[k].own =>
                 \/ check[k].kid \in keys \union disabled
                 \/ check[k].kid + PreviousGenerations < newest
    PROVE  /\ check' \in [Checks -> Check]
           /\ \A k \in Checks : CheckFits(k)'
           /\ OneFetch'
  <1>1. newest' = newest /\ disabled' = disabled
    BY DEF store
  <1>2. /\ check' \in [Checks -> Check]
        /\ \A k \in Checks : check[k].pc # "wait" => check'[k] = check[k]
        /\ \A k \in Checks : check[k].pc = "wait" =>
              /\ check'[k].pc \in {"idle", "parse"}
              /\ check'[k].pc = "parse" /\ check'[k].own =>
                    /\ check[k].own /\ ok /\ ~raced
                    /\ check'[k].kid = check[k].kid /\ check'[k].keys = keys
    BY AfterAnswer DEF KeysIInv
  <1>3. \A k \in Checks : CheckFits(k)'
    <2>1. SUFFICES ASSUME NEW k \in Checks
                   PROVE  CheckFits(k)'
      OBVIOUS
    <2>2. CheckFits(k)
      BY DEF KeysIInv
    <2>3. CASE check[k].pc = "wait"
      <3>1. /\ check'[k].pc # "ask" /\ check'[k].pc # "wait"
            /\ check'[k].pc = "parse" /\ check'[k].own =>
                  \/ check'[k].kid \in check'[k].keys \union disabled
                  \/ check'[k].kid + PreviousGenerations < newest
        BY <1>2, <2>3
      <3> QED
        BY <1>1, <3>1 DEF CheckFits
    <2>4. CASE check[k].pc # "wait"
      <3>1. check'[k] = check[k]
        BY <1>2, <2>4
      <3> QED
        BY <1>1, <2>2, <2>4, <3>1 DEF CheckFits
    <2> QED
      BY <2>3, <2>4
  <1>4. OneFetch'
    BY DEF OneFetch
  <1> QED
    BY <1>2, <1>3, <1>4

\* After the fetch r is over, and its call too, nothing else has changed.
LEMMA FetchReturns ==
    ASSUME KeysIInv, NEW c \in KeyCalls, keyCall[c].op = "keys", KeyReturn(c),
           UNCHANGED <<store, cached, current, keyLog>>,
           jwks' \in Jwks, check' \in [Checks -> Check],
           \A k \in Checks : CheckFits(k)', OneFetch'
    PROVE  KeysIInv'
  <1>1. newest' = newest /\ disabled' = disabled
    BY DEF store
  <1>2. /\ keyCall'[c] = NoCall
        /\ \A d \in KeyCalls : d # c => keyCall'[d] = keyCall[d]
        /\ keyCall' \in [KeyCalls -> KeyCall]
    BY NoCallType DEF KeyReturn, KeysIInv, KeysTypeOK
  <1>3. KeysTypeOK'
    BY <1>1, <1>2 DEF KeysIInv, KeysTypeOK
  <1>4. \A d \in KeyCalls : CallFits(keyCall[d])'
    <2>1. SUFFICES ASSUME NEW d \in KeyCalls
                   PROVE  CallFits(keyCall[d])'
      OBVIOUS
    <2>2. CASE d = c
      BY <1>1, <1>2, <2>2, NoCallType, KeysAssumption
         DEF CallFits, KeysIInv, KeysTypeOK, MaybeVersion
    <2>3. CASE d # c
      <3>1. keyCall'[d] = keyCall[d] /\ CallFits(keyCall[d])
        BY <1>2, <2>3 DEF KeysIInv
      <3> QED
        BY <1>1, <3>1 DEF CallFits
    <2> QED
      BY <2>2, <2>3
  <1>5. \A m \in Managers : ManagerFits(m)'
    BY <1>1, Zenon DEF KeysIInv, ManagerFits
  <1> QED
    BY <1>3, <1>4, <1>5 DEF KeysIInv

\* There is one fetch, so that no call is one when this one is over.
LEMMA NoFetchLeft ==
    ASSUME KeysIInv, NEW c \in KeyCalls, keyCall[c].op = "keys", KeyReturn(c)
    PROVE  \A d \in KeyCalls : keyCall'[d].op # "keys"
  BY NoCallType DEF KeysIInv, KeysTypeOK, OneFetch, KeyReturn

LEMMA KeyCallFailsStep ==
    ASSUME KeysIInv, NEW c \in KeyCalls, KeyCallFails(c)
    PROVE  KeysIInv'
  <1>1. CASE keyCall[c].op = "keys"
    <2>1. jwks' = [jwks EXCEPT !.inFlight = FALSE] /\ Answered({}, FALSE, FALSE)
      BY <1>1 DEF KeyCallFails, FlightLost
    <2>2. jwks' \in Jwks
      BY <2>1 DEF KeysIInv, KeysTypeOK, Jwks
    <2>3. \A d \in KeyCalls : keyCall'[d].op # "keys"
      BY <1>1, NoFetchLeft DEF KeyCallFails
    <2>4. /\ check' \in [Checks -> Check]
          /\ \A k \in Checks : CheckFits(k)'
          /\ OneFetch'
      BY <2>1, <2>3, FetchOver DEF KeyCallFails
    <2> QED
      BY <1>1, <2>2, <2>4, FetchReturns DEF KeyCallFails
  <1>2. CASE keyCall[c].op # "keys"
    BY <1>2, OnlyReturns DEF KeyCallFails, FlightLost
  <1> QED
    BY <1>1, <1>2

LEMMA LandStep ==
    ASSUME KeysIInv, NEW c \in KeyCalls, Land(c)
    PROVE  KeysIInv'
  <1>1. /\ keyCall[c].op = "keys" /\ keyCall[c].pc = "next" /\ keyCall[c].left = {}
        /\ KeyReturn(c) /\ UNCHANGED <<store, cached, current, keyLog>>
    BY DEF Land, KeyAt
  <1>2. PICK keys \in SUBSET Versions : keys = keyCall[c].keys
    BY DEF KeysIInv, KeysTypeOK, KeyCall
  <1>3. PICK raced \in BOOLEAN : raced = keyLog[keyCall[c].m].raced
    BY DEF KeysIInv, KeysTypeOK, KeyCall, KeyLog
  <1>4. Answered(keys, raced, TRUE)
    BY <1>2, <1>3 DEF Land
  <1>5. jwks' \in Jwks
    BY <1>2 DEF Land, Jwks
  <1>6. \A d \in KeyCalls : keyCall'[d].op # "keys"
    BY <1>1, NoFetchLeft
  <1>7. ASSUME ~raced, NEW k \in Checks, check[k].pc = "wait", check[k].own
        PROVE  \/ check[k].kid \in keys \union disabled
               \/ check[k].kid + PreviousGenerations < newest
    BY <1>1, <1>2, <1>3, <1>7 DEF KeysIInv, CheckFits, Covers, KeySetPlaces
  <1>8. /\ check' \in [Checks -> Check]
        /\ \A k \in Checks : CheckFits(k)'
        /\ OneFetch'
    BY <1>1, <1>4, <1>6, <1>7, FetchOver
  <1> QED
    BY <1>1, <1>5, <1>8, FetchReturns

\* A restart ends the calls of the manager, so that none holds an old version.
LEMMA RestartStep ==
    ASSUME KeysIInv, NEW m \in Managers, Restart(m)
    PROVE  KeysIInv'
  <1> DEFINE Lost(d) == keyCall[d].m = m /\ keyCall[d].pc # "idle"
  <1>1. /\ cached' = [cached EXCEPT ![m] = {}]
        /\ current' = [current EXCEPT ![m] = 0]
        /\ keyCall' = [d \in KeyCalls |-> IF Lost(d) THEN NoCall ELSE keyCall[d]]
        /\ keyLog' = [keyLog EXCEPT ![m].raced = FALSE, ![m].gone = {}]
        /\ newest' = newest /\ disabled' = disabled
    BY DEF Restart, store
  <1>2. /\ cached'[m] = {} /\ current'[m] = 0
        /\ keyLog'[m].signed = keyLog[m].signed /\ ~keyLog'[m].raced /\ keyLog'[m].gone = {}
        /\ \A n \in Managers : n # m => /\ cached'[n] = cached[n] /\ current'[n] = current[n]
                                        /\ keyLog'[n] = keyLog[n]
    BY <1>1 DEF KeysIInv, KeysTypeOK, KeyLog
  <1>3. \A d \in KeyCalls : /\ Lost(d) => keyCall'[d] = NoCall
                            /\ ~Lost(d) => keyCall'[d] = keyCall[d]
    BY <1>1
  <1>4. newest \in Nat
    BY KeysAssumption DEF KeysIInv, KeysTypeOK, MaybeVersion
  <1>5. /\ cached' \in [Managers -> SUBSET (1..newest)]
        /\ current' \in [Managers -> 0..newest]
        /\ keyCall' \in [KeyCalls -> KeyCall]
        /\ keyLog' \in [Managers -> KeyLog]
    <2>1. cached' \in [Managers -> SUBSET (1..newest)]
      BY <1>1 DEF KeysIInv, KeysTypeOK
    <2>2. 0 \in 0..newest
      BY <1>4
    <2>3. current' \in [Managers -> 0..newest]
      BY <1>1, <2>2 DEF KeysIInv, KeysTypeOK
    <2>4. keyCall' \in [KeyCalls -> KeyCall]
      BY <1>1, NoCallType DEF KeysIInv, KeysTypeOK
    <2>5. keyLog' \in [Managers -> KeyLog]
      BY <1>1 DEF KeysIInv, KeysTypeOK, KeyLog
    <2> QED
      BY <2>1, <2>3, <2>4, <2>5
  <1>6. \A d \in KeyCalls : CallFits(keyCall[d])'
    <2>1. SUFFICES ASSUME NEW d \in KeyCalls
                   PROVE  CallFits(keyCall[d])'
      OBVIOUS
    <2>2. CASE Lost(d)
      BY <1>1, <1>3, <1>4, <2>2, NoCallType DEF CallFits
    <2>3. CASE ~Lost(d)
      <3>1. keyCall'[d] = keyCall[d] /\ CallFits(keyCall[d]) /\ keyCall[d].m \in Managers
        BY <1>3, <2>3 DEF KeysIInv, KeysTypeOK, KeyCall
      <3>2. CASE keyCall[d].m = m
        BY <1>1, <2>3, <3>1, <3>2 DEF CallFits, FetchPlaces
      <3>3. CASE keyCall[d].m # m
        BY <1>1, <1>2, <3>1, <3>3 DEF CallFits
      <3> QED
        BY <3>2, <3>3
    <2> QED
      BY <2>2, <2>3
  <1>7. \A n \in Managers : ManagerFits(n)'
    <2>1. SUFFICES ASSUME NEW n \in Managers
                   PROVE  ManagerFits(n)'
      OBVIOUS
    <2>2. ManagerFits(n)
      BY DEF KeysIInv
    <2>3. CASE n = m
      BY <1>1, <1>2, <2>2, <2>3 DEF ManagerFits
    <2>4. CASE n # m
      BY <1>1, <1>2, <2>2, <2>4, Zenon DEF ManagerFits
    <2> QED
      BY <2>3, <2>4
  <1>8. /\ jwks' \in Jwks /\ check' \in [Checks -> Check]
        /\ \A k \in Checks : CheckFits(k)'
        /\ OneFetch'
    <2>1. CASE \E d \in KeyCalls : Lost(d) /\ keyCall[d].op = "keys"
      <3>1. jwks' = [jwks EXCEPT !.inFlight = FALSE] /\ Answered({}, FALSE, FALSE)
        BY <2>1 DEF Restart, FlightLost
      <3>2. jwks' \in Jwks
        BY <3>1 DEF KeysIInv, KeysTypeOK, Jwks
      <3>3. \A d \in KeyCalls : keyCall'[d].op # "keys"
        BY <1>3, <2>1, NoCallType DEF KeysIInv, OneFetch
      <3> QED
        BY <3>1, <3>2, <3>3, FetchOver DEF Restart
    <2>2. CASE \A d \in KeyCalls : Lost(d) => keyCall[d].op # "keys"
      <3>1. jwks' = jwks /\ check' = check
        BY <2>2 DEF Restart, FlightLost, gateway
      <3>2. ASSUME NEW d \in KeyCalls, keyCall'[d].op = "keys"
            PROVE  keyCall'[d] = keyCall[d] /\ keyLog'[keyCall[d].m] = keyLog[keyCall[d].m]
        <4>1. ~Lost(d) /\ keyCall'[d] = keyCall[d] /\ keyCall[d].m \in Managers
          BY <1>3, <3>2, NoCallType DEF KeysIInv, KeysTypeOK, KeyCall
        <4>2. keyCall[d].pc # "idle"
          BY <3>2, <4>1 DEF KeysIInv, CallFits, FetchPlaces
        <4> QED
          BY <1>2, <4>1, <4>2
      <3>3. \A k \in Checks : CheckFits(k)'
        <4>1. SUFFICES ASSUME NEW k \in Checks
                       PROVE  CheckFits(k)'
          OBVIOUS
        <4>2. CheckFits(k)
          BY DEF KeysIInv
        <4>3. ASSUME check[k].pc = "wait", check[k].own, NEW d \in KeyCalls, keyCall'[d].op = "keys"
              PROVE  /\ check[k].kid \in keyLog'[keyCall'[d].m].signed
                     /\ keyLog'[keyCall'[d].m].raced \/ Covers(keyCall[d], check[k].kid)'
          <5>1. keyCall'[d] = keyCall[d] /\ keyLog'[keyCall[d].m] = keyLog[keyCall[d].m]
            BY <3>2, <4>3
          <5>2. Covers(keyCall[d], check[k].kid)' <=> Covers(keyCall[d], check[k].kid)
            BY <1>1, <3>1, <5>1 DEF Covers
          <5> QED
            BY <4>2, <4>3, <5>1, <5>2 DEF CheckFits
        <4> QED
          BY <1>1, <3>1, <4>2, <4>3 DEF CheckFits
      <3>4. OneFetch'
        BY <3>1, <3>2 DEF OneFetch, KeysIInv
      <3> QED
        BY <3>1, <3>3, <3>4 DEF KeysIInv, KeysTypeOK
    <2> QED
      BY <2>1, <2>2
  <1>9. KeysTypeOK'
    BY <1>1, <1>5, <1>8 DEF KeysIInv, KeysTypeOK
  <1> QED
    BY <1>6, <1>7, <1>8, <1>9 DEF KeysIInv

-----------------------------------------------------------------------------
(* Steps of the gateway alone.                                             *)

\* One check moves: it does not wait, or it waits for the fetch of another.
LEMMA CheckMoves ==
    ASSUME KeysIInv, NEW k \in Checks, NEW r \in Check,
           check' = [check EXCEPT ![k] = r],
           UNCHANGED <<store, cached, current, keyCall, keyLog>>,
           jwks' \in Jwks, jwks'.inFlight = jwks.inFlight,
           ~r.own, r.pc = "wait" => jwks.inFlight
    PROVE  KeysIInv'
  <1>1. newest' = newest /\ disabled' = disabled
    BY DEF store
  <1>2. KeysTypeOK'
    BY <1>1 DEF KeysIInv, KeysTypeOK
  <1>3. \A c \in KeyCalls : CallFits(keyCall[c])'
    BY <1>1 DEF KeysIInv, CallFits
  <1>4. \A m \in Managers : ManagerFits(m)'
    BY <1>1, Zenon DEF KeysIInv, ManagerFits
  <1>5. \A i \in Checks : CheckFits(i)'
    <2>1. SUFFICES ASSUME NEW i \in Checks
                   PROVE  CheckFits(i)'
      OBVIOUS
    <2>2. CASE i = k
      <3>1. check'[i] = r
        BY <2>2 DEF KeysIInv, KeysTypeOK
      <3> QED
        BY <3>1 DEF CheckFits
    <2>3. CASE i # k
      <3>1. check'[i] = check[i] /\ CheckFits(i)
        BY <2>3 DEF KeysIInv, KeysTypeOK
      <3> QED
        BY <1>1, <3>1 DEF CheckFits, Covers
    <2> QED
      BY <2>2, <2>3
  <1>6. OneFetch'
    BY DEF KeysIInv, OneFetch
  <1> QED
    BY <1>2, <1>3, <1>4, <1>5, <1>6 DEF KeysIInv

LEMMA NoCheckType ==
    NoCheck \in Check /\ NoCheck.pc = "idle" /\ NoCheck.kid = 0 /\ NoCheck.own = FALSE
  BY KeysAssumption DEF NoCheck, Check, MaybeVersion

LEMMA BeginCheckStep ==
    ASSUME KeysIInv, NEW k \in Checks, NEW kid \in Versions, BeginCheck(k, kid)
    PROVE  KeysIInv'
  <1>1. kid \in MaybeVersion /\ jwks.keys \in SUBSET Versions
    BY KeysAssumption DEF Versions, MaybeVersion, KeysIInv, KeysTypeOK, Jwks
  <1>2. PICK r \in Check : check' = [check EXCEPT ![k] = r] /\ ~r.own /\ r.pc # "wait"
    <2>1. CASE jwks.loaded /\ jwks.fresh
      <3>1. PICK r : r = [NoCheck EXCEPT !.pc = "parse", !.kid = kid, !.keys = jwks.keys]
        OBVIOUS
      <3>2. r \in Check /\ ~r.own /\ r.pc # "wait"
        BY <1>1, <3>1, NoCheckType DEF Check
      <3>3. check' = [check EXCEPT ![k] = r]
        BY <2>1, <3>1 DEF BeginCheck
      <3> QED
        BY <3>2, <3>3
    <2>2. CASE ~ (jwks.loaded /\ jwks.fresh)
      <3>1. PICK r : r = [NoCheck EXCEPT !.pc = "ask", !.kid = kid]
        OBVIOUS
      <3>2. r \in Check /\ ~r.own /\ r.pc # "wait"
        BY <1>1, <3>1, NoCheckType DEF Check
      <3>3. check' = [check EXCEPT ![k] = r]
        BY <2>2, <3>1 DEF BeginCheck
      <3> QED
        BY <3>2, <3>3
    <2> QED
      BY <2>1, <2>2
  <1>3. jwks' \in Jwks /\ jwks'.inFlight = jwks.inFlight
    BY DEF BeginCheck, KeysIInv, KeysTypeOK
  <1> QED
    BY <1>2, <1>3, CheckMoves DEF BeginCheck

LEMMA ParseStep ==
    ASSUME KeysIInv, NEW k \in Checks, Parse(k)
    PROVE  KeysIInv'
  <1>1. PICK kid \in MaybeVersion : kid = check[k].kid
    BY DEF KeysIInv, KeysTypeOK, Check
  <1>2. PICK r \in Check : check' = [check EXCEPT ![k] = r] /\ ~r.own /\ r.pc # "wait"
    <2>1. CASE check[k].kid \in check[k].keys \/ Refuses(k)
      BY <2>1, NoCheckType DEF Parse
    <2>2. CASE ~ (check[k].kid \in check[k].keys \/ Refuses(k))
      <3>1. PICK r : r = [NoCheck EXCEPT !.pc = "ask", !.kid = kid, !.forced = TRUE]
        OBVIOUS
      <3>2. r \in Check /\ ~r.own /\ r.pc # "wait"
        BY <3>1, NoCheckType DEF Check
      <3>3. check' = [check EXCEPT ![k] = r]
        BY <1>1, <2>2, <3>1 DEF Parse
      <3> QED
        BY <3>2, <3>3
    <2> QED
      BY <2>1, <2>2
  <1>3. jwks' \in Jwks /\ jwks'.inFlight = jwks.inFlight
    BY DEF Parse, KeysIInv, KeysTypeOK
  <1> QED
    BY <1>2, <1>3, CheckMoves DEF Parse

\* The check that starts the fetch is the only one that waits for it at first.
LEMMA FetchStarts ==
    ASSUME KeysIInv, NEW k \in Checks, check[k].pc = "ask", ~jwks.inFlight,
           NEW c \in KeyCalls, NEW m \in Managers, KeyAt(c, {"idle"}),
           keyCall' = [keyCall EXCEPT ![c] =
                          [NoCall EXCEPT !.pc = "current", !.op = "keys", !.m = m]],
           check' = [check EXCEPT ![k].pc = "wait", ![k].own = check[k].kid \in keyLog[m].signed],
           jwks' = [jwks EXCEPT !.inFlight = TRUE],
           UNCHANGED <<store, cached, current, keyLog>>
    PROVE  KeysIInv'
  <1>1. /\ newest' = newest /\ disabled' = disabled
        /\ cached' = cached /\ current' = current /\ keyLog' = keyLog
    BY DEF store
  <1>2. PICK r : r = [NoCall EXCEPT !.pc = "current", !.op = "keys", !.m = m]
    OBVIOUS
  <1>3. /\ r \in KeyCall /\ r.pc = "current" /\ r.op = "keys" /\ r.m = m
        /\ r.v = 0 /\ r.keys = {} /\ r.left = {}
    BY <1>2, NoCallType DEF KeyCall
  <1>4. /\ keyCall' \in [KeyCalls -> KeyCall] /\ keyCall'[c] = r
        /\ \A d \in KeyCalls : d # c => keyCall'[d] = keyCall[d]
    BY <1>2, <1>3 DEF KeysIInv, KeysTypeOK
  <1>5. PICK own \in BOOLEAN : own = (check[k].kid \in keyLog[m].signed)
    <2>1. CASE check[k].kid \in keyLog[m].signed
      BY <2>1, TRUE = (check[k].kid \in keyLog[m].signed), Zenon
    <2>2. CASE check[k].kid \notin keyLog[m].signed
      BY <2>2, FALSE = (check[k].kid \in keyLog[m].signed), Zenon
    <2> QED
      BY <2>1, <2>2
  <1>6. PICK w : w = [check[k] EXCEPT !.pc = "wait", !.own = own]
    OBVIOUS
  <1>7. check[k] \in Check /\ w \in Check /\ w.pc = "wait" /\ w.own = own /\ w.kid = check[k].kid
    BY <1>6 DEF KeysIInv, KeysTypeOK, Check
  <1>8. /\ check' \in [Checks -> Check] /\ check'[k] = w
        /\ \A i \in Checks : i # k => check'[i] = check[i]
    <2>1. check' = [check EXCEPT ![k] = w]
      BY <1>5, <1>6 DEF KeysIInv, KeysTypeOK
    <2> QED
      BY <1>7, <2>1 DEF KeysIInv, KeysTypeOK
  <1>9. jwks' \in Jwks /\ jwks'.inFlight
    BY DEF KeysIInv, KeysTypeOK, Jwks
  <1>10. KeysTypeOK'
    BY <1>1, <1>4, <1>8, <1>9 DEF KeysIInv, KeysTypeOK
  <1>11. \A d \in KeyCalls : CallFits(keyCall[d])'
    <2>1. SUFFICES ASSUME NEW d \in KeyCalls
                   PROVE  CallFits(keyCall[d])'
      OBVIOUS
    <2>2. CASE d = c
      <3>1. 0 <= newest
        BY KeysAssumption DEF KeysIInv, KeysTypeOK, MaybeVersion
      <3>2. CallFits(r)'
        BY <1>1, <1>3, <3>1 DEF CallFits, FetchPlaces, KeySetPlaces
      <3> QED
        BY <1>4, <2>2, <3>2 DEF CallFits
    <2>3. CASE d # c
      <3>1. PICK q : q = keyCall[d] /\ q = keyCall'[d] /\ CallFits(q)
        BY <1>4, <2>3 DEF KeysIInv
      <3>2. CallFits(q)'
        BY <1>1, <3>1 DEF CallFits
      <3> QED
        BY <3>1, <3>2
    <2> QED
      BY <2>2, <2>3
  <1>12. \A n \in Managers : ManagerFits(n)'
    BY <1>1, Zenon DEF KeysIInv, ManagerFits
  <1>13. \A d \in KeyCalls : keyCall[d].op # "keys"
    BY DEF KeysIInv, OneFetch
  <1>14. \A d \in KeyCalls : keyCall'[d].op = "keys" => d = c
    BY <1>4, <1>13
  <1>15. \A i \in Checks : CheckFits(i)'
    <2>1. SUFFICES ASSUME NEW i \in Checks
                   PROVE  CheckFits(i)'
      OBVIOUS
    <2>2. CASE i = k
      <3>1. ASSUME own
            PROVE  /\ check[k].kid \in keyLog[m].signed
                   /\ Covers(keyCall[c], check[k].kid)'
        BY <1>3, <1>4, <1>5, <3>1 DEF Covers, KeySetPlaces
      <3> QED
        BY <1>3, <1>4, <1>7, <1>8, <1>9, <1>14, <2>2, <3>1 DEF CheckFits, Covers, KeySetPlaces
    <2>3. CASE i # k
      <3>1. check'[i] = check[i] /\ CheckFits(i) /\ check[i].pc # "wait"
        BY <1>8, <2>3 DEF KeysIInv, CheckFits
      <3> QED
        BY <1>1, <3>1 DEF CheckFits
    <2> QED
      BY <2>2, <2>3
  <1>16. OneFetch'
    BY <1>9, <1>14 DEF OneFetch
  <1> QED
    BY <1>10, <1>11, <1>12, <1>15, <1>16 DEF KeysIInv

LEMMA AskStep ==
    ASSUME KeysIInv, NEW k \in Checks, Ask(k)
    PROVE  KeysIInv'
  <1>1. check[k] \in Check /\ ~check[k].own
    BY DEF Ask, KeysIInv, KeysTypeOK, CheckFits
  <1>2. CASE jwks.inFlight
    <2>1. check' = [check EXCEPT ![k].pc = "wait"] /\ UNCHANGED <<keyCall, jwks>>
      BY <1>2 DEF Ask
    <2>2. PICK r : r = [check[k] EXCEPT !.pc = "wait"]
      OBVIOUS
    <2>3. r \in Check /\ ~r.own /\ check' = [check EXCEPT ![k] = r]
      BY <1>1, <2>1, <2>2 DEF Check
    <2> QED
      BY <1>2, <2>1, <2>3, CheckMoves DEF Ask, KeysIInv, KeysTypeOK
  <1>3. CASE ~jwks.inFlight /\ ~check[k].forced /\ jwks.loaded /\ jwks.fresh
    <2>1. check' = [check EXCEPT ![k].pc = "parse", ![k].keys = jwks.keys]
          /\ UNCHANGED <<keyCall, jwks>>
      BY <1>3 DEF Ask
    <2>2. PICK r : r = [check[k] EXCEPT !.pc = "parse", !.keys = jwks.keys]
      OBVIOUS
    <2>3. jwks.keys \in SUBSET Versions
      BY DEF KeysIInv, KeysTypeOK, Jwks
    <2>4. r \in Check /\ ~r.own /\ r.pc # "wait"
      BY <1>1, <2>2, <2>3 DEF Check
    <2>5. check' = [check EXCEPT ![k] = r]
      BY <2>1, <2>2 DEF KeysIInv, KeysTypeOK
    <2> QED
      BY <2>1, <2>4, <2>5, CheckMoves DEF Ask, KeysIInv, KeysTypeOK
  <1>4. CASE ~jwks.inFlight /\ ~ (~check[k].forced /\ jwks.loaded /\ jwks.fresh)
    <2>1. PICK c \in KeyCalls, m \in Managers :
             /\ KeyAt(c, {"idle"})
             /\ keyCall' = [keyCall EXCEPT ![c] =
                   [NoCall EXCEPT !.pc = "current", !.op = "keys", !.m = m]]
             /\ check' = [check EXCEPT ![k].pc = "wait",
                                       ![k].own = check[k].kid \in keyLog[m].signed]
             /\ jwks' = [jwks EXCEPT !.inFlight = TRUE]
      BY <1>4 DEF Ask
    <2> QED
      BY <1>4, <2>1, FetchStarts DEF Ask
  <1> QED
    BY <1>2, <1>3, <1>4

LEMMA StaleStep ==
    ASSUME KeysIInv, Stale
    PROVE  KeysIInv'
  <1>1. jwks' \in Jwks /\ jwks'.inFlight = jwks.inFlight
    BY DEF Stale, KeysIInv, KeysTypeOK, Jwks
  <1>2. KeysTypeOK'
    BY <1>1 DEF Stale, KeysIInv, KeysTypeOK, store
  <1>3. \A c \in KeyCalls : CallFits(keyCall[c])'
    BY DEF Stale, KeysIInv, CallFits, store
  <1>4. \A m \in Managers : ManagerFits(m)'
    BY Zenon DEF Stale, KeysIInv, ManagerFits, store
  <1>5. \A k \in Checks : CheckFits(k)'
    BY <1>1 DEF Stale, KeysIInv, CheckFits, Covers, store
  <1>6. OneFetch'
    BY <1>1 DEF Stale, KeysIInv, OneFetch
  <1> QED
    BY <1>2, <1>3, <1>4, <1>5, <1>6 DEF KeysIInv

-----------------------------------------------------------------------------
(* The theorems.                                                           *)

LEMMA KeysIInvInit == KeysInit => KeysIInv
  <1> SUFFICES ASSUME KeysInit
               PROVE  KeysIInv
    OBVIOUS
  <1>1. \A c \in KeyCalls : keyCall[c] = NoCall
    BY DEF KeysInit
  <1>2. KeysTypeOK
    <2>1. newest \in MaybeVersion /\ 0 \in 0..newest
      BY KeysAssumption DEF KeysInit, MaybeVersion
    <2>2. keyCall \in [KeyCalls -> KeyCall]
      BY NoCallType DEF KeysInit
    <2>3. jwks \in Jwks /\ check \in [Checks -> Check]
      BY NoCheckType DEF KeysInit, Jwks
    <2>4. keyLog \in [Managers -> KeyLog]
      BY DEF KeysInit, KeyLog
    <2> QED
      BY <2>1, <2>2, <2>3, <2>4 DEF KeysInit, KeysTypeOK
  <1>3. \A c \in KeyCalls : CallFits(keyCall[c])
    BY <1>1, NoCallFits DEF KeysInit
  <1>4. \A m \in Managers : ManagerFits(m)
    BY DEF KeysInit, ManagerFits
  <1>5. \A k \in Checks : CheckFits(k)
    BY NoCheckType DEF KeysInit, CheckFits
  <1>6. OneFetch
    BY <1>1, NoCallType DEF OneFetch
  <1> QED
    BY <1>2, <1>3, <1>4, <1>5, <1>6 DEF KeysIInv

LEMMA KeysIInvNext == KeysIInv /\ [KeysNext]_keyVars => KeysIInv'
  <1> SUFFICES ASSUME KeysIInv, [KeysNext]_keyVars
               PROVE  KeysIInv'
    OBVIOUS
  <1>1. ASSUME NEW c \in KeyCalls, NEW m \in Managers, NEW kid \in Versions, StartCall(c, m, kid)
        PROVE  KeysIInv'
    BY <1>1, StartCallStep
  <1>2. ASSUME NEW c \in KeyCalls,
               \/ CurrentKey(c) \/ GetLatest(c) \/ Install(c) \/ CachePayload(c) \/ SetCurrent(c)
        PROVE  KeysIInv'
    BY <1>2, CurrentKeyStep, GetLatestStep, InstallStep, CachePayloadStep, SetCurrentStep
  <1>3. ASSUME NEW c \in KeyCalls,
               \/ NextPrevious(c) \/ LoadVersion(c) \/ GetVersion(c) \/ KeepVersion(c)
               \/ LookUp(c) \/ LookUpAgain(c)
        PROVE  KeysIInv'
    BY <1>3, NextPreviousStep, LoadVersionStep, GetVersionStep, KeepVersionStep,
       LookUpStep, LookUpAgainStep
  <1>4. ASSUME NEW c \in KeyCalls,
               \/ DisableVersion(c) \/ Forget(c) \/ AddVersion(c)
               \/ KeyCallFails(c) \/ Land(c)
        PROVE  KeysIInv'
    BY <1>4, DisableVersionStep, ForgetStep, AddVersionStep, KeyCallFailsStep, LandStep
  <1>5. ASSUME NEW m \in Managers, Restart(m)
        PROVE  KeysIInv'
    BY <1>5, RestartStep
  <1>6. ASSUME NEW k \in Checks,
               (\E kid \in Versions : BeginCheck(k, kid)) \/ Ask(k) \/ Parse(k)
        PROVE  KeysIInv'
    BY <1>6, BeginCheckStep, AskStep, ParseStep
  <1>7. CASE Stale
    BY <1>7, StaleStep
  <1>8. CASE UNCHANGED keyVars
    BY <1>8 DEF keyVars, KeysIInv, KeysTypeOK, CallFits, ManagerFits, CheckFits, Covers, OneFetch
  <1> QED
    BY <1>1, <1>2, <1>3, <1>4, <1>5, <1>6, <1>7, <1>8 DEF KeysNext

(***************************************************************************)
(* The invariant holds in every state of every behaviour.                  *)
(***************************************************************************)
THEOREM KeysInvariant == KeysSpec => []KeysIInv
  BY KeysIInvInit, KeysIInvNext, PTL DEF KeysSpec

(***************************************************************************)
(* What the managers, the calls and the gateway hold is well-formed: every *)
(* version they hold exists in the secret store.                           *)
(***************************************************************************)
THEOREM KeysTypes == KeysSpec => []KeysTypeOK
  <1>1. KeysIInv => KeysTypeOK
    BY DEF KeysIInv
  <1> QED
    BY <1>1, KeysInvariant, PTL

(***************************************************************************)
(* A version that a replica revoked while none of its calls held it is     *)
(* never again in that replica's memory, until it restarts.                *)
(***************************************************************************)
THEOREM KeysRevokedKeyStaysOut == KeysSpec => []RevokedKeyStaysOut
  <1>1. KeysIInv => RevokedKeyStaysOut
    BY Zenon DEF KeysIInv, ManagerFits, RevokedKeyStaysOut
  <1> QED
    BY <1>1, KeysInvariant, PTL

(***************************************************************************)
(* A gateway refuses a token for its key only when the key was revoked, is *)
(* out of the published generations, or was judged by keys other than those *)
(* the replica that signed it returned for this very check.                *)
(***************************************************************************)
THEOREM KeysRotationReachesGateway == KeysSpec => []RotationReachesGateway
  <1>1. KeysIInv => RotationReachesGateway
    <2> SUFFICES ASSUME KeysIInv, NEW k \in Checks, Refuses(k)
                 PROVE  \/ check[k].kid \in disabled
                        \/ check[k].kid + PreviousGenerations < newest
                        \/ check[k].forced /\ ~check[k].own
      BY DEF RotationReachesGateway
    <2>1. check[k].pc = "parse" /\ check[k].kid \notin check[k].keys /\ check[k].forced
      BY DEF Refuses, Retries
    <2>2. CheckFits(k)
      BY DEF KeysIInv
    <2> QED
      BY <2>1, <2>2 DEF CheckFits
  <1> QED
    BY <1>1, KeysInvariant, PTL

-----------------------------------------------------------------------------
(* The instances of MCAuthn.                                               *)

\* The parts share no state and each step is a step of one of them, so a
\* behaviour of the instances is a behaviour of each part, and every theorem
\* above holds of it.
THEOREM AuthnComposes == AuthnSpec => Spec /\ KeysSpec /\ LoginSpec
  <1>1. AuthnInit => Init /\ KeysInit /\ LoginInit
    BY DEF AuthnInit
  <1>2. [AuthnNext]_authnVars => [Next]_vars /\ [KeysNext]_keyVars /\ [LoginNext]_loginVars
    <2>1. \A c \in Logins : LoginFails(c) => LoginNext
      BY DEF LoginNext, LoginEvents
    <2>2. LoginSteps => LoginNext
      BY DEF LoginNext
    <2> QED
      BY <2>1, <2>2 DEF AuthnNext, authnVars
  <1> QED
    BY <1>1, <1>2, PTL DEF AuthnSpec, Spec, KeysSpec, LoginSpec

\* Whatever runs, the rows, the cache keys, the key sets and the calls of the
\* authn service hold what their declarations allow.
THEOREM AuthnTypes == AuthnSpec => []TypesOK
  <1>1. TypeOK /\ KeysTypeOK /\ LoginTypeOK => TypesOK
    BY DEF TypesOK
  <1> QED
    BY <1>1, AuthnComposes, SessionTypeOK, KeysTypes, LoginTypes, PTL

=============================================================================
