--------------------------- MODULE AvatarsProofs ---------------------------
(***************************************************************************)
(* Theorems of Avatars for any number of concurrent calls, sessions and    *)
(* ids: its types, what upload sessions keep to, and which avatar is       *)
(* displayed; and that the instances of MCUserFlows follow one of the two  *)
(* specifications they are made of.                                        *)
(***************************************************************************)
EXTENDS MCUserFlows, DeviceFlowProofs

-----------------------------------------------------------------------------
(***************************************************************************)
(* The inductive invariant.  A call that starts a session has a key nobody *)
(* else has seen; when it is about to commit, the snapshot of its DELETE   *)
(* has what the call itself wrote before and every row it read as stale.   *)
(* So no call has two rows, and what is to be deleted or was deleted is    *)
(* issued and has no row, and never will.                                  *)
(***************************************************************************)
StartPlaces == {"stale", "delete", "start"}

HoldPlaces == {"get", "put", "commit"}

FreshKey(c) ==
    call[c].pc \in StartPlaces =>
        /\ call[c].key \in Keys \ issued
        /\ \A d \in Calls : d # c /\ call[d].pc \in StartPlaces => call[d].key # call[c].key

Supersedes(c) ==
    /\ call[c].pc \in StartPlaces => call[c].stale \subseteq issued
    /\ call[c].pc = "start" =>
          \A r \in pending : r.by = c \/ r.key \in call[c].stale => r \in call[c].seen

Gone(keys) == keys \subseteq issued /\ \A r \in pending : r.key \notin keys

SessionInv ==
    /\ \A r, s \in pending : r.by = s.by => r = s
    /\ \A c \in Calls : FreshKey(c) /\ Supersedes(c) /\ Gone(call[c].drop)
    /\ Gone(avatarLog.dropped)

(***************************************************************************)
(* A session that two completions never held at once is held by one, and   *)
(* once it has brought an avatar it has no row and nobody holds it.        *)
(***************************************************************************)
UsedUp(k) ==
    /\ \A r \in pending : r.key # k
    /\ \A c \in Calls : ~Holds(c, k)

UseInv ==
    /\ \A c \in Calls : call[c].pc \in HoldPlaces => call[c].key \in issued
    /\ \A k \in Keys \ avatarLog.shared :
          /\ \A c, d \in Calls : Holds(c, k) /\ Holds(d, k) => c = d
          /\ \A a \in avatars : a.from = k => UsedUp(k)
    /\ SessionUsedOnce

(***************************************************************************)
(* An id that waits for its row, and every row, has its object.  Until     *)
(* writes overlap only one id waits, it is greater than those that have a  *)
(* row, and the greatest of these was committed last.                      *)
(***************************************************************************)
RowPlaces == {"urlRow", "syntheticRow"}

Newer(id) == \A a \in avatars : a.id < id

IdInv ==
    /\ \A a \in avatars : a.id \in assets
    /\ \A c \in Calls : call[c].pc = "commit" => call[c].id \in assets
    /\ ingest.pc \in RowPlaces => ingest.id \in assets
    /\ ~avatarLog.mixed =>
          /\ \A c, d \in Calls : call[c].pc = "commit" /\ call[d].pc = "commit" => c = d
          /\ \A c \in Calls :
                call[c].pc = "commit" => ingest.pc \notin RowPlaces /\ Newer(call[c].id)
          /\ ingest.pc \in RowPlaces => Newer(ingest.id)
          /\ \A a \in avatars : a.id <= avatarLog.latest
          /\ avatars = {} \/ \E a \in avatars : a.id = avatarLog.latest

AvatarsIInv == AvatarsTypeOK /\ SessionInv /\ UseInv /\ IdInv

-----------------------------------------------------------------------------
\* The fields of the records that calls are made of.
LEMMA StartingIs ==
    ASSUME NEW pc \in StartPlaces, NEW key \in Keys,
           NEW stale \in SUBSET Keys, NEW seen \in SUBSET Pending
    PROVE  /\ Starting(pc, key, stale, seen) \in AvatarCall
           /\ Starting(pc, key, stale, seen).pc = pc
           /\ Starting(pc, key, stale, seen).key = key
           /\ Starting(pc, key, stale, seen).stale = stale
           /\ Starting(pc, key, stale, seen).seen = seen
           /\ Starting(pc, key, stale, seen).drop = {}
  BY DEF Starting, AvatarCall, StartPlaces

LEMMA CompletingIs ==
    ASSUME NEW pc \in HoldPlaces, NEW key \in Keys, NEW id \in {0} \union Ids
    PROVE  /\ Completing(pc, key, id) \in AvatarCall
           /\ Completing(pc, key, id).pc = pc
           /\ Completing(pc, key, id).key = key
           /\ Completing(pc, key, id).id = id
           /\ Completing(pc, key, id).drop = {}
  BY DEF Completing, AvatarCall, HoldPlaces

LEMMA CleaningUpIs ==
    ASSUME NEW keys \in SUBSET Keys
    PROVE  /\ CleaningUp(keys) \in AvatarCall
           /\ CleaningUp(keys).pc = "cleanup"
           /\ CleaningUp(keys).drop = keys
  BY DEF CleaningUp, AvatarCall

LEMMA NoAvatarCallIs ==
    /\ NoAvatarCall \in AvatarCall
    /\ NoAvatarCall.pc = "idle"
    /\ NoAvatarCall.drop = {}
  BY DEF NoAvatarCall, AvatarCall

\* One call moves.
LEMMA OneCallMoves ==
    ASSUME call \in [Calls -> AvatarCall], NEW c \in Calls, NEW w \in AvatarCall,
           call' = [call EXCEPT ![c] = w]
    PROVE  /\ call' \in [Calls -> AvatarCall]
           /\ call'[c] = w
           /\ \A d \in Calls : d # c => call'[d] = call[d]
  OBVIOUS

\* A call moves, the rows stay.
LEMMA SessionMoves ==
    ASSUME SessionInv, call \in [Calls -> AvatarCall],
           NEW c \in Calls, NEW w \in AvatarCall, call' = [call EXCEPT ![c] = w],
           w.pc \in StartPlaces =>
               /\ w.key \in Keys \ issued
               /\ \A d \in Calls : d # c /\ call[d].pc \in StartPlaces => call[d].key # w.key
               /\ w.stale \subseteq issued,
           w.pc = "start" => \A r \in pending : r.by = c \/ r.key \in w.stale => r \in w.seen,
           Gone(w.drop),
           pending' = pending, issued' = issued, Gone(avatarLog.dropped)'
    PROVE  SessionInv'
  <1>1. /\ call'[c] = w
        /\ \A d \in Calls : d # c => call'[d] = call[d]
    BY OneCallMoves
  <1>2. \A r, s \in pending' : r.by = s.by => r = s
    BY DEF SessionInv
  <1>3. ASSUME NEW d \in Calls
        PROVE  FreshKey(d)'
    <2>1. CASE d = c
      BY <1>1, <2>1 DEF FreshKey
    <2>2. CASE d # c
      <3>1. FreshKey(d)
        BY DEF SessionInv
      <3>2. QED
        BY <1>1, <2>2, <3>1 DEF FreshKey
    <2>3. QED
      BY <2>1, <2>2
  <1>4. ASSUME NEW d \in Calls
        PROVE  Supersedes(d)' /\ Gone(call[d].drop)'
    <2>1. CASE d = c
      BY <1>1, <2>1 DEF Supersedes, Gone
    <2>2. CASE d # c
      BY <1>1, <2>2 DEF Supersedes, Gone, SessionInv
    <2>3. QED
      BY <2>1, <2>2
  <1>5. QED
    BY <1>2, <1>3, <1>4 DEF SessionInv

\* A call moves, the rows of both kinds stay.
LEMMA UseMoves ==
    ASSUME UseInv, call \in [Calls -> AvatarCall],
           NEW c \in Calls, NEW w \in AvatarCall, call' = [call EXCEPT ![c] = w],
           w.pc \in HoldPlaces =>
               /\ w.key \in issued
               /\ w.key \notin avatarLog'.shared =>
                     /\ \A d \in Calls : d # c => ~Holds(d, w.key)
                     /\ \A a \in avatars : a.from # w.key,
           pending' = pending, avatars' = avatars, issued' = issued,
           avatarLog.shared \subseteq avatarLog'.shared
    PROVE  UseInv'
  <1>1. /\ call'[c] = w
        /\ \A d \in Calls : d # c => call'[d] = call[d]
    BY OneCallMoves
  <1>2. \A d \in Calls : call'[d].pc \in HoldPlaces => call'[d].key \in issued'
    BY <1>1 DEF UseInv
  <1>3. /\ \A k : Holds(c, k)' <=> w.pc \in HoldPlaces /\ w.key = k
        /\ \A d \in Calls, k \in Keys : d # c => (Holds(d, k)' <=> Holds(d, k))
    BY <1>1 DEF Holds, AvatarAt, HoldPlaces
  <1>4. ASSUME NEW k \in Keys \ avatarLog'.shared
        PROVE  /\ \A d, e \in Calls : Holds(d, k)' /\ Holds(e, k)' => d = e
               /\ \A a \in avatars' : a.from = k => UsedUp(k)'
    <2>1. k \in Keys \ avatarLog.shared
      OBVIOUS
    <2>2. /\ \A d, e \in Calls : Holds(d, k) /\ Holds(e, k) => d = e
          /\ \A a \in avatars : a.from = k => UsedUp(k)
      BY <2>1 DEF UseInv
    <2>3. ASSUME NEW d \in Calls, NEW e \in Calls, Holds(d, k)', Holds(e, k)', d # e
          PROVE  FALSE
      <3>1. CASE d # c /\ e # c
        BY <1>3, <2>2, <2>3, <3>1
      <3>2. CASE d = c
        BY <1>3, <2>3, <3>2
      <3>3. CASE e = c
        BY <1>3, <2>3, <3>3
      <3>4. QED
        BY <3>1, <3>2, <3>3
    <2>4. ASSUME NEW a \in avatars, a.from = k
          PROVE  UsedUp(k)'
      <3>1. UsedUp(k)
        BY <2>2, <2>4
      <3>2. ~Holds(c, k)'
        BY <1>3, <2>4
      <3>3. QED
        BY <1>3, <3>1, <3>2 DEF UsedUp
    <2>5. QED
      BY <2>3, <2>4
  <1>5. SessionUsedOnce'
    BY DEF SessionUsedOnce, UseInv
  <1>6. QED
    BY <1>2, <1>4, <1>5 DEF UseInv

\* A call moves to a place where it has no id, the rest stays.
LEMMA IdMoves ==
    ASSUME IdInv, call \in [Calls -> AvatarCall],
           NEW c \in Calls, NEW w \in AvatarCall, call' = [call EXCEPT ![c] = w],
           w.pc # "commit",
           avatars' = avatars, assets' = assets, ingest' = ingest,
           avatarLog'.mixed = avatarLog.mixed, avatarLog'.latest = avatarLog.latest
    PROVE  IdInv'
  <1>1. /\ call'[c] = w
        /\ \A d \in Calls : d # c => call'[d] = call[d]
    BY OneCallMoves
  <1>2. \A d \in Calls : call'[d].pc = "commit" => call[d].pc = "commit" /\ call'[d] = call[d]
    BY <1>1
  <1>3. QED
    BY <1>2 DEF IdInv, Newer

\* A call moves and nothing else changes, but what is known to be shared.
LEMMA CallMoves ==
    ASSUME AvatarsIInv, NEW c \in Calls, NEW w \in AvatarCall, call' = [call EXCEPT ![c] = w],
           w.pc \in StartPlaces =>
               /\ w.key \in Keys \ issued
               /\ \A d \in Calls : d # c /\ call[d].pc \in StartPlaces => call[d].key # w.key
               /\ w.stale \subseteq issued,
           w.pc = "start" => \A r \in pending : r.by = c \/ r.key \in w.stale => r \in w.seen,
           Gone(w.drop),
           w.pc \in HoldPlaces =>
               /\ w.key \in issued
               /\ w.key \notin avatarLog'.shared =>
                     /\ \A d \in Calls : d # c => ~Holds(d, w.key)
                     /\ \A a \in avatars : a.from # w.key,
           w.pc # "commit",
           UNCHANGED <<pending, avatars, lastId, issued, staged, assets, ingest>>,
           avatarLog' \in AvatarLog, avatarLog.shared \subseteq avatarLog'.shared,
           avatarLog'.dropped = avatarLog.dropped,
           avatarLog'.mixed = avatarLog.mixed, avatarLog'.latest = avatarLog.latest
    PROVE  AvatarsIInv'
  <1>1. call \in [Calls -> AvatarCall]
    BY DEF AvatarsIInv, AvatarsTypeOK
  <1>2. call' \in [Calls -> AvatarCall]
    BY <1>1
  <1>3. AvatarsTypeOK'
    BY <1>2 DEF AvatarsIInv, AvatarsTypeOK
  <1>4. Gone(avatarLog.dropped)'
    BY DEF AvatarsIInv, SessionInv, Gone
  <1>5. SessionInv'
    BY <1>1, <1>4, SessionMoves DEF AvatarsIInv
  <1>6. UseInv'
    BY <1>1, UseMoves DEF AvatarsIInv
  <1>7. IdInv'
    BY <1>1, IdMoves DEF AvatarsIInv
  <1>8. QED
    BY <1>3, <1>5, <1>6, <1>7 DEF AvatarsIInv

\* What the parts of the invariant say of the rows and of one call.
LEMMA PendingTypes ==
    ASSUME AvatarsTypeOK
    PROVE  /\ pending \in SUBSET Pending
           /\ \A r \in pending : r.key \in issued /\ r.by \in Calls
           /\ \A k : k \in KeysOf(pending) <=> \E r \in pending : r.key = k
           /\ KeysOf(pending) \in SUBSET Keys
           /\ KeysOf(pending) \subseteq issued
  <1>1. /\ pending \in SUBSET [key: issued, by: Calls]
        /\ issued \in SUBSET Keys
    BY DEF AvatarsTypeOK
  <1>2. \A r \in pending : r.key \in issued /\ r.by \in Calls
    BY <1>1
  <1>3. \A k : k \in KeysOf(pending) <=> \E r \in pending : r.key = k
    BY DEF KeysOf
  <1>4. pending \in SUBSET Pending
    BY <1>1 DEF Pending
  <1>5. QED
    BY <1>1, <1>2, <1>3, <1>4

LEMMA PresignPutKeeps ==
    ASSUME AvatarsIInv, NEW c \in Calls, NEW k \in Keys, PresignPut(c, k)
    PROVE  AvatarsIInv'
  <1>1. PICK w : w = Starting("stale", k, {}, {})
    OBVIOUS
  <1>2. /\ w \in AvatarCall
        /\ w.pc = "stale" /\ w.key = k /\ w.stale = {} /\ w.drop = {}
    BY <1>1, StartingIs DEF StartPlaces
  <1>3. /\ call' = [call EXCEPT ![c] = w]
        /\ k \notin issued
        /\ \A d \in Calls : call[d].key # k
        /\ UNCHANGED <<pending, avatars, lastId, issued, staged, assets, ingest, avatarLog>>
    BY <1>1 DEF PresignPut, Becomes, table, objects
  <1>4. Gone(w.drop)
    BY <1>2 DEF Gone
  <1>5. avatarLog \in AvatarLog
    BY DEF AvatarsIInv, AvatarsTypeOK
  <1>6. QED
    BY <1>2, <1>3, <1>4, <1>5, CallMoves DEF HoldPlaces

LEMMA ReadStaleKeeps ==
    ASSUME AvatarsIInv, NEW c \in Calls, ReadStale(c)
    PROVE  AvatarsIInv'
  <1>1. PICK pc : pc = IF pending = {} THEN "start" ELSE "delete"
    OBVIOUS
  <1>2. PICK key : key = call[c].key
    OBVIOUS
  <1>3. PICK stale : stale = KeysOf(pending)
    OBVIOUS
  <1>4. /\ call[c].pc = "stale"
        /\ call' = [call EXCEPT ![c] = Starting(pc, key, stale, {})]
        /\ UNCHANGED <<pending, avatars, lastId, issued, staged, assets, ingest, avatarLog>>
    BY <1>1, <1>2, <1>3 DEF ReadStale, AvatarAt, Becomes, table, objects
  <1>5. /\ key \in Keys \ issued
        /\ \A d \in Calls : d # c /\ call[d].pc \in StartPlaces => call[d].key # key
    BY <1>2, <1>4 DEF AvatarsIInv, SessionInv, FreshKey, StartPlaces
  <1>6. stale \in SUBSET Keys /\ stale \subseteq issued
    BY <1>3, PendingTypes DEF AvatarsIInv
  <1>7. pc \in StartPlaces /\ (pc = "start" => pending = {})
    BY <1>1 DEF StartPlaces
  <1>8. PICK w : w = Starting(pc, key, stale, {})
    OBVIOUS
  <1>9. w \in AvatarCall /\ w.pc = pc /\ w.key = key /\ w.stale = stale /\ w.drop = {}
    <2>1. PICK seen \in SUBSET Pending : seen = {}
      OBVIOUS
    <2>2. w = Starting(pc, key, stale, seen) /\ key \in Keys
      BY <1>5, <1>8, <2>1
    <2> QED
      BY <1>6, <1>7, <2>2, StartingIs
  <1>10. Gone(w.drop)
    BY <1>9 DEF Gone
  <1>11. avatarLog \in AvatarLog
    BY DEF AvatarsIInv, AvatarsTypeOK
  <1>12. w.pc \notin HoldPlaces /\ w.pc # "commit"
    BY <1>7, <1>9 DEF StartPlaces, HoldPlaces
  <1>13. QED
    BY <1>4, <1>5, <1>6, <1>7, <1>8, <1>9, <1>10, <1>11, <1>12, CallMoves

LEMMA DeleteStaleKeeps ==
    ASSUME AvatarsIInv, NEW c \in Calls, DeleteStale(c)
    PROVE  AvatarsIInv'
  <1>1. PICK key : key = call[c].key
    OBVIOUS
  <1>2. PICK stale : stale = call[c].stale
    OBVIOUS
  <1>3. PICK seen : seen = pending
    OBVIOUS
  <1>4. /\ call[c].pc = "delete"
        /\ call' = [call EXCEPT ![c] = Starting("start", key, stale, seen)]
        /\ UNCHANGED <<pending, avatars, lastId, issued, staged, assets, ingest, avatarLog>>
    BY <1>1, <1>2, <1>3 DEF DeleteStale, AvatarAt, Becomes, table, objects
  <1>5. /\ key \in Keys \ issued
        /\ \A d \in Calls : d # c /\ call[d].pc \in StartPlaces => call[d].key # key
    BY <1>1, <1>4 DEF AvatarsIInv, SessionInv, FreshKey, StartPlaces
  <1>6. stale \in SUBSET Keys /\ stale \subseteq issued
    BY <1>2, <1>4 DEF AvatarsIInv, AvatarsTypeOK, AvatarCall, SessionInv, Supersedes, StartPlaces
  <1>7. seen \in SUBSET Pending
    BY <1>3, PendingTypes DEF AvatarsIInv
  <1>8. PICK w : w = Starting("start", key, stale, seen)
    OBVIOUS
  <1>9. /\ w \in AvatarCall
        /\ w.pc = "start" /\ w.key = key /\ w.stale = stale /\ w.seen = seen /\ w.drop = {}
    <2>1. "start" \in StartPlaces
      BY DEF StartPlaces
    <2>2. /\ Starting("start", key, stale, seen) \in AvatarCall
          /\ Starting("start", key, stale, seen).pc = "start"
          /\ Starting("start", key, stale, seen).key = key
          /\ Starting("start", key, stale, seen).stale = stale
          /\ Starting("start", key, stale, seen).seen = seen
          /\ Starting("start", key, stale, seen).drop = {}
      BY <2>1, <1>5, <1>6, <1>7, StartingIs
    <2>3. QED
      BY <2>2, <1>8
  <1>10. Gone(w.drop)
    BY <1>9 DEF Gone
  <1>11. avatarLog \in AvatarLog
    BY DEF AvatarsIInv, AvatarsTypeOK
  <1>12. w.pc \notin HoldPlaces /\ w.pc # "commit"
    BY <1>9 DEF HoldPlaces
  <1>13. w.stale \subseteq issued /\ (\A r \in pending : r \in w.seen)
    BY <1>3, <1>6, <1>9
  <1>14. call' = [call EXCEPT ![c] = w]
    BY <1>4, <1>8
  <1>15. QED
    BY <1>4, <1>5, <1>9, <1>10, <1>11, <1>12, <1>13, <1>14, CallMoves

LEMMA FindSessionKeeps ==
    ASSUME AvatarsIInv, NEW c \in Calls, NEW k \in Keys, FindSession(c, k)
    PROVE  AvatarsIInv'
  <1>1. PICK w : w = Completing("get", k, 0)
    OBVIOUS
  <1>2. /\ w \in AvatarCall
        /\ w.pc = "get" /\ w.key = k /\ w.drop = {}
    BY <1>1, CompletingIs DEF HoldPlaces
  <1>3. /\ call' = [call EXCEPT ![c] = w]
        /\ k \in KeysOf(pending)
        /\ UNCHANGED <<pending, avatars, lastId, issued, staged, assets, ingest>>
    BY <1>1 DEF FindSession, Becomes, table, objects
  <1>4. PICK shared : shared = IF \E d \in Calls : Holds(d, k)
                               THEN avatarLog.shared \union {k} ELSE avatarLog.shared
    OBVIOUS
  <1>5. avatarLog' = [avatarLog EXCEPT !.shared = shared]
    BY <1>4 DEF FindSession
  <1>6. avatarLog \in AvatarLog
    BY DEF AvatarsIInv, AvatarsTypeOK
  <1>7. /\ shared \in SUBSET Keys /\ avatarLog.shared \subseteq shared
        /\ k \notin shared => \A d \in Calls : ~Holds(d, k)
    BY <1>4, <1>6 DEF AvatarLog
  <1>8. /\ avatarLog' \in AvatarLog /\ avatarLog'.shared = shared
        /\ avatarLog'.dropped = avatarLog.dropped
        /\ avatarLog'.mixed = avatarLog.mixed /\ avatarLog'.latest = avatarLog.latest
    BY <1>5, <1>6, <1>7 DEF AvatarLog
  <1>9. PICK r \in pending : r.key = k
    BY <1>3, PendingTypes DEF AvatarsIInv
  <1>10. k \in issued
    BY <1>9, PendingTypes DEF AvatarsIInv
  <1>11. ASSUME k \notin shared, NEW a \in avatars
         PROVE  a.from # k
    BY <1>7, <1>9, <1>11 DEF AvatarsIInv, UseInv, UsedUp
  <1>12. Gone(w.drop)
    BY <1>2 DEF Gone
  <1>13. QED
    BY <1>2, <1>3, <1>7, <1>8, <1>10, <1>11, <1>12, CallMoves DEF StartPlaces

LEMMA GetObjectKeeps ==
    ASSUME AvatarsIInv, NEW c \in Calls, GetObject(c)
    PROVE  AvatarsIInv'
  <1>1. PICK k : k = call[c].key
    OBVIOUS
  <1>2. /\ call[c].pc = "get"
        /\ call' = [call EXCEPT ![c] = Completing("put", k, 0)]
        /\ UNCHANGED <<pending, avatars, lastId, issued, staged, assets, ingest, avatarLog>>
    BY <1>1 DEF GetObject, AvatarAt, Becomes, table, objects
  <1>3. k \in issued /\ k \in Keys /\ Holds(c, k)
    BY <1>1, <1>2 DEF AvatarsIInv, AvatarsTypeOK, UseInv, HoldPlaces, Holds, AvatarAt
  <1>4. PICK w : w = Completing("put", k, 0)
    OBVIOUS
  <1>5. w \in AvatarCall /\ w.pc = "put" /\ w.key = k /\ w.drop = {}
    BY <1>3, <1>4, CompletingIs DEF HoldPlaces
  <1>6. ASSUME k \notin avatarLog.shared
        PROVE  /\ \A d \in Calls : d # c => ~Holds(d, k)
               /\ \A a \in avatars : a.from # k
    BY <1>3, <1>6 DEF AvatarsIInv, UseInv, UsedUp
  <1>7. Gone(w.drop)
    BY <1>5 DEF Gone
  <1>8. avatarLog \in AvatarLog
    BY DEF AvatarsIInv, AvatarsTypeOK
  <1>9. QED
    BY <1>2, <1>3, <1>4, <1>5, <1>6, <1>7, <1>8, CallMoves DEF StartPlaces

\* The call is over, or its clean-up.
LEMMA AnsweredKeeps ==
    ASSUME AvatarsIInv, NEW c \in Calls, Answered(c),
           UNCHANGED <<table, lastId, issued, objects, ingest, avatarLog>>
    PROVE  AvatarsIInv'
  <1>1. PICK w : w = NoAvatarCall
    OBVIOUS
  <1>2. w \in AvatarCall /\ w.pc = "idle" /\ w.drop = {}
    BY <1>1, NoAvatarCallIs
  <1>3. /\ call' = [call EXCEPT ![c] = w]
        /\ UNCHANGED <<pending, avatars, lastId, issued, staged, assets, ingest, avatarLog>>
    BY <1>1 DEF Answered, Becomes, table, objects
  <1>4. Gone(w.drop)
    BY <1>2 DEF Gone
  <1>5. avatarLog \in AvatarLog
    BY DEF AvatarsIInv, AvatarsTypeOK
  <1>6. QED
    BY <1>2, <1>3, <1>4, <1>5, CallMoves DEF HoldPlaces, StartPlaces

LEMMA CommitStartKeeps ==
    ASSUME AvatarsIInv, NEW c \in Calls, CommitStart(c)
    PROVE  AvatarsIInv'
  <1>1. PICK k : k = call[c].key
    OBVIOUS
  <1>2. PICK stale : stale = call[c].stale
    OBVIOUS
  <1>3. PICK seen : seen = call[c].seen
    OBVIOUS
  <1>4. PICK row : row = [key |-> k, by |-> c]
    OBVIOUS
  <1>5. PICK w : w = CleaningUp(stale)
    OBVIOUS
  <1>6. /\ call[c].pc = "start"
        /\ pending' = (pending \ seen) \union {row}
        /\ issued' = issued \union {k}
        /\ call' = [call EXCEPT ![c] = w]
        /\ UNCHANGED <<avatars, lastId, staged, assets, ingest, avatarLog>>
    BY <1>1, <1>2, <1>3, <1>4, <1>5 DEF CommitStart, AvatarAt, Becomes, objects
  <1>7. call \in [Calls -> AvatarCall]
    BY DEF AvatarsIInv, AvatarsTypeOK
  <1>8. /\ k \in Keys /\ k \notin issued
        /\ \A d \in Calls : d # c /\ call[d].pc \in StartPlaces => call[d].key # k
        /\ stale \subseteq issued
        /\ \A r \in pending : r.by = c \/ r.key \in stale => r \in seen
    BY <1>1, <1>2, <1>3, <1>6 DEF AvatarsIInv, SessionInv, FreshKey, Supersedes, StartPlaces
  <1>9. row.key = k /\ row.by = c
    BY <1>4
  <1>10. stale \in SUBSET Keys
    BY <1>8 DEF AvatarsIInv, AvatarsTypeOK
  <1>11. w \in AvatarCall /\ w.pc = "cleanup" /\ w.drop = stale
    BY <1>5, <1>10, CleaningUpIs
  <1>12. /\ call' \in [Calls -> AvatarCall]
         /\ call'[c] = w
         /\ \A d \in Calls : d # c => call'[d] = call[d]
    BY <1>6, <1>7, <1>11, OneCallMoves
  <1>13. /\ pending \in SUBSET [key: issued, by: Calls]
         /\ avatars \in SUBSET [id: 1..lastId, from: issued \union {NoKey}]
         /\ issued \in SUBSET Keys
         /\ \A r \in pending : r.key \in issued
         /\ \A a \in avatars : a.from \in issued \union {NoKey}
    BY DEF AvatarsIInv, AvatarsTypeOK
  <1>14. AvatarsTypeOK'
    <2>1. pending' \in SUBSET [key: issued', by: Calls]
      <3>1. row \in [key: issued', by: Calls]
        BY <1>4, <1>6
      <3>2. [key: issued, by: Calls] \subseteq [key: issued', by: Calls]
        BY <1>6
      <3>3. QED
        BY <1>6, <1>13, <3>1, <3>2
    <2>2. avatars' \in SUBSET [id: 1..lastId', from: issued' \union {NoKey}]
      <3>1. [id: 1..lastId, from: issued \union {NoKey}]
                \subseteq [id: 1..lastId', from: issued' \union {NoKey}]
        BY <1>6
      <3>2. QED
        BY <1>6, <1>13, <3>1
    <2>3. issued' \in SUBSET Keys /\ staged' \in SUBSET issued'
      BY <1>6, <1>8 DEF AvatarsIInv, AvatarsTypeOK
    <2>4. QED
      BY <1>6, <1>12, <2>1, <2>2, <2>3 DEF AvatarsIInv, AvatarsTypeOK
  <1>15. SessionInv'
    <2>1. \A r, s \in pending : r.by = s.by => r = s
      BY DEF AvatarsIInv, SessionInv
    <2>2. \A r, s \in pending' : r.by = s.by => r = s
      BY <1>6, <1>8, <1>9, <2>1
    <2>3. ASSUME NEW keys, Gone(keys), keys \subseteq issued
          PROVE  Gone(keys)'
      BY <1>6, <1>8, <1>9, <2>3 DEF Gone
    <2>4. Gone(stale)'
      BY <1>6, <1>8, <1>9 DEF Gone
    <2>5. ASSUME NEW d \in Calls
          PROVE  FreshKey(d)' /\ Supersedes(d)' /\ Gone(call[d].drop)'
      <3>1. CASE d = c
        BY <1>11, <1>12, <2>4, <3>1 DEF FreshKey, Supersedes, StartPlaces
      <3>2. CASE d # c
        <4>1. FreshKey(d) /\ Supersedes(d) /\ Gone(call[d].drop)
          BY DEF AvatarsIInv, SessionInv
        <4>2. call'[d] = call[d]
          BY <1>12, <3>2
        <4>3. FreshKey(d)'
          BY <1>6, <1>8, <1>11, <1>12, <3>2, <4>1, <4>2 DEF FreshKey, StartPlaces
        <4>4. Supersedes(d)'
          BY <1>6, <1>8, <1>9, <3>2, <4>1, <4>2 DEF Supersedes, StartPlaces
        <4>5. Gone(call[d].drop)'
          BY <1>6, <1>8, <1>9, <4>1, <4>2 DEF Gone
        <4>6. QED
          BY <4>3, <4>4, <4>5
      <3>3. QED
        BY <3>1, <3>2
    <2>6. Gone(avatarLog.dropped)'
      BY <1>6, <1>8, <1>9 DEF Gone, AvatarsIInv, SessionInv
    <2>7. QED
      BY <2>2, <2>5, <2>6 DEF SessionInv
  <1>16. UseInv'
    <2>1. \A d \in Calls : call'[d].pc \in HoldPlaces => call'[d] = call[d]
      BY <1>11, <1>12 DEF HoldPlaces
    <2>2. \A d \in Calls : call'[d].pc \in HoldPlaces => call'[d].key \in issued'
      BY <1>6, <2>1 DEF AvatarsIInv, UseInv
    <2>3. \A d \in Calls, key \in Keys : Holds(d, key)' => Holds(d, key)
      BY <2>1 DEF Holds, AvatarAt, HoldPlaces
    <2>4. ASSUME NEW key \in Keys \ avatarLog.shared
          PROVE  /\ \A d, e \in Calls : Holds(d, key)' /\ Holds(e, key)' => d = e
                 /\ \A a \in avatars : a.from = key => UsedUp(key)'
      <3>1. /\ \A d, e \in Calls : Holds(d, key) /\ Holds(e, key) => d = e
            /\ \A a \in avatars : a.from = key => UsedUp(key)
        BY DEF AvatarsIInv, UseInv
      <3>2. ASSUME NEW a \in avatars, a.from = key
            PROVE  UsedUp(key)'
        <4>1. key \in issued /\ key # k
          BY <1>8, <1>13, <3>2, AvatarsAssumption
        <4>2. QED
          BY <1>6, <1>9, <2>3, <3>1, <3>2, <4>1 DEF UsedUp
      <3>3. QED
        BY <2>3, <3>1, <3>2
    <2>5. SessionUsedOnce'
      BY <1>6 DEF AvatarsIInv, UseInv, SessionUsedOnce
    <2>6. QED
      BY <1>6, <2>2, <2>4, <2>5 DEF UseInv
  <1>17. IdInv'
    <2>1. w.pc # "commit"
      BY <1>11
    <2>2. QED
      BY <1>6, <1>7, <1>11, <2>1, IdMoves DEF AvatarsIInv
  <1>18. QED
    BY <1>14, <1>15, <1>16, <1>17 DEF AvatarsIInv

LEMMA CommitCompleteKeeps ==
    ASSUME AvatarsIInv, NEW c \in Calls, CommitComplete(c)
    PROVE  AvatarsIInv'
  <1>1. PICK k : k = call[c].key
    OBVIOUS
  <1>2. PICK id : id = call[c].id
    OBVIOUS
  <1>3. PICK row : row = [id |-> id, from |-> k]
    OBVIOUS
  <1>4. PICK w : w = CleaningUp({k})
    OBVIOUS
  <1>5. /\ call[c].pc = "commit"
        /\ pending' = {r \in pending : r.key # k}
        /\ avatars' = avatars \union {row}
        /\ avatarLog' = [avatarLog EXCEPT !.latest = id]
        /\ call' = [call EXCEPT ![c] = w]
        /\ UNCHANGED <<lastId, issued, staged, assets, ingest>>
    BY <1>1, <1>2, <1>3, <1>4 DEF CommitComplete, AvatarAt, Insert, Becomes, objects
  <1>6. call \in [Calls -> AvatarCall]
    BY DEF AvatarsIInv, AvatarsTypeOK
  <1>7. k \in issued /\ k \in Keys /\ Holds(c, k)
    BY <1>1, <1>5 DEF AvatarsIInv, AvatarsTypeOK, UseInv, HoldPlaces, Holds, AvatarAt
  <1>8. id \in assets /\ id \in 1..lastId
    BY <1>2, <1>5 DEF AvatarsIInv, AvatarsTypeOK, IdInv
  <1>9. w \in AvatarCall /\ w.pc = "cleanup" /\ w.drop = {k}
    BY <1>4, <1>7, CleaningUpIs
  <1>10. /\ call' \in [Calls -> AvatarCall]
         /\ call'[c] = w
         /\ \A d \in Calls : d # c => call'[d] = call[d]
    BY <1>5, <1>6, <1>9, OneCallMoves
  <1>11. lastId \in Nat /\ lastId <= MaxAssets /\ id \in Ids
    BY <1>8, AvatarsAssumption DEF AvatarsIInv, AvatarsTypeOK, Ids
  <1>12. /\ avatarLog' \in AvatarLog /\ avatarLog'.latest = id
         /\ avatarLog'.dropped = avatarLog.dropped /\ avatarLog'.shared = avatarLog.shared
         /\ avatarLog'.mixed = avatarLog.mixed
    BY <1>5, <1>11 DEF AvatarsIInv, AvatarsTypeOK, AvatarLog
  <1>13. row.id = id /\ row.from = k
    BY <1>3
  <1>14. AvatarsTypeOK'
    <2>1. pending' \in SUBSET [key: issued', by: Calls]
      BY <1>5 DEF AvatarsIInv, AvatarsTypeOK
    <2>2. avatars' \in SUBSET [id: 1..lastId', from: issued' \union {NoKey}]
      <3>1. row \in [id: 1..lastId, from: issued \union {NoKey}]
        BY <1>3, <1>7, <1>8
      <3>2. QED
        BY <1>5, <3>1 DEF AvatarsIInv, AvatarsTypeOK
    <2>3. QED
      BY <1>5, <1>10, <1>12, <2>1, <2>2 DEF AvatarsIInv, AvatarsTypeOK
  <1>15. SessionInv'
    <2>1. pending' \subseteq pending
      BY <1>5
    <2>2. \A r, s \in pending' : r.by = s.by => r = s
      BY <2>1 DEF AvatarsIInv, SessionInv
    <2>3. ASSUME NEW d \in Calls
          PROVE  FreshKey(d)' /\ Supersedes(d)' /\ Gone(call[d].drop)'
      <3>1. CASE d = c
        BY <1>5, <1>7, <1>9, <1>10, <3>1 DEF FreshKey, Supersedes, Gone, StartPlaces
      <3>2. CASE d # c
        <4>1. FreshKey(d) /\ Supersedes(d) /\ Gone(call[d].drop)
          BY DEF AvatarsIInv, SessionInv
        <4>2. call'[d] = call[d]
          BY <1>10, <3>2
        <4>3. FreshKey(d)'
          BY <1>5, <1>9, <1>10, <3>2, <4>1, <4>2 DEF FreshKey, StartPlaces
        <4>4. Supersedes(d)' /\ Gone(call[d].drop)'
          BY <1>5, <2>1, <4>1, <4>2 DEF Supersedes, Gone
        <4>5. QED
          BY <4>3, <4>4
      <3>3. QED
        BY <3>1, <3>2
    <2>4. Gone(avatarLog.dropped)'
      BY <1>5, <1>12, <2>1 DEF Gone, AvatarsIInv, SessionInv
    <2>5. QED
      BY <2>2, <2>3, <2>4 DEF SessionInv
  <1>16. UseInv'
    <2>1. \A d \in Calls : call'[d].pc \in HoldPlaces => call'[d] = call[d] /\ d # c
      BY <1>9, <1>10 DEF HoldPlaces
    <2>2. \A d \in Calls : call'[d].pc \in HoldPlaces => call'[d].key \in issued'
      BY <1>5, <2>1 DEF AvatarsIInv, UseInv
    <2>3. \A d \in Calls, key \in Keys : Holds(d, key)' => Holds(d, key) /\ d # c
      BY <2>1 DEF Holds, AvatarAt, HoldPlaces
    <2>4. ASSUME NEW key \in Keys \ avatarLog.shared
          PROVE  /\ \A d, e \in Calls : Holds(d, key)' /\ Holds(e, key)' => d = e
                 /\ \A a \in avatars' : a.from = key => UsedUp(key)'
      <3>1. /\ \A d, e \in Calls : Holds(d, key) /\ Holds(e, key) => d = e
            /\ \A a \in avatars : a.from = key => UsedUp(key)
        BY DEF AvatarsIInv, UseInv
      <3>2. CASE key = k
        BY <1>5, <1>7, <2>3, <3>1, <3>2 DEF UsedUp
      <3>3. CASE key # k
        BY <1>5, <1>13, <2>3, <3>1, <3>3 DEF UsedUp
      <3>4. QED
        BY <3>2, <3>3
    <2>5. SessionUsedOnce'
      <3>1. k \notin avatarLog.shared => \A a \in avatars : a.from # k
        BY <1>7 DEF AvatarsIInv, UseInv, UsedUp
      <3>2. SessionUsedOnce
        BY DEF AvatarsIInv, UseInv
      <3>3. QED
        BY <1>5, <1>12, <1>13, <3>1, <3>2 DEF SessionUsedOnce
    <2>6. QED
      BY <1>12, <2>2, <2>4, <2>5 DEF UseInv
  <1>17. IdInv'
    <2>1. \A d \in Calls : call'[d].pc = "commit" => call[d].pc = "commit" /\ call'[d] = call[d] /\ d # c
      BY <1>9, <1>10
    <2>2. /\ \A a \in avatars' : a.id \in assets'
          /\ \A d \in Calls : call'[d].pc = "commit" => call'[d].id \in assets'
          /\ ingest'.pc \in RowPlaces => ingest'.id \in assets'
      BY <1>5, <1>8, <1>13, <2>1 DEF AvatarsIInv, IdInv
    <2>3. ASSUME ~avatarLog.mixed
          PROVE  /\ \A d \in Calls : call'[d].pc # "commit"
                 /\ ingest.pc \notin RowPlaces
                 /\ \A a \in avatars : a.id < id
      BY <1>2, <1>5, <2>1, <2>3 DEF AvatarsIInv, IdInv, Newer
    <2>4. ASSUME ~avatarLog.mixed
          PROVE  /\ \A a \in avatars' : a.id <= id
                 /\ \E a \in avatars' : a.id = id
      <3>1. \A a \in avatars : a.id \in 1..lastId
        BY DEF AvatarsIInv, AvatarsTypeOK
      <3>2. QED
        BY <1>5, <1>8, <1>11, <1>13, <2>3, <2>4, <3>1
    <2>5. QED
      BY <1>5, <1>12, <2>2, <2>3, <2>4 DEF IdInv, Newer
  <1>18. QED
    BY <1>14, <1>15, <1>16, <1>17 DEF AvatarsIInv

\* An id is made: greater than those with a row, and alone unless writes overlap.
LEMMA MakeIdIs ==
    ASSUME AvatarsTypeOK, MakeId
    PROVE  /\ lastId' = lastId + 1 /\ lastId \in Nat /\ lastId' \in Ids
           /\ \A a \in avatars : a.id < lastId'
           /\ avatarLog' \in AvatarLog
           /\ avatarLog'.dropped = avatarLog.dropped
           /\ avatarLog'.shared = avatarLog.shared
           /\ avatarLog'.latest = avatarLog.latest
           /\ ~avatarLog'.mixed => /\ ~avatarLog.mixed
                                   /\ \A c \in Calls : call[c].pc # "commit"
                                   /\ ingest.pc \notin RowPlaces
  <1>1. /\ lastId \in 0..MaxAssets /\ avatarLog \in AvatarLog
        /\ \A a \in avatars : a.id \in 1..lastId
    BY DEF AvatarsTypeOK
  <1>2. lastId' = lastId + 1 /\ lastId < MaxAssets
    BY DEF MakeId
  <1>3. /\ lastId \in Nat /\ lastId' \in Ids
        /\ \A a \in avatars : a.id < lastId'
    BY <1>1, <1>2, AvatarsAssumption DEF Ids
  <1>4. PICK b \in BOOLEAN : b = (\/ avatarLog.mixed
                                  \/ \E c \in Calls : AvatarAt(c, {"commit"})
                                  \/ ingest.pc \in {"urlRow", "syntheticRow"})
    OBVIOUS
  <1>5. avatarLog' = [avatarLog EXCEPT !.mixed = b]
    BY <1>4, Zenon DEF MakeId
  <1>6. /\ avatarLog' \in AvatarLog
        /\ avatarLog'.dropped = avatarLog.dropped
        /\ avatarLog'.shared = avatarLog.shared
        /\ avatarLog'.latest = avatarLog.latest
        /\ avatarLog'.mixed = b
    BY <1>1, <1>5 DEF AvatarLog
  <1>7. ~b => /\ ~avatarLog.mixed
              /\ \A c \in Calls : call[c].pc # "commit"
              /\ ingest.pc \notin RowPlaces
    BY <1>4 DEF AvatarAt, RowPlaces
  <1>8. QED
    BY <1>2, <1>3, <1>6, <1>7

\* The types after a picture was stored, or not.
LEMMA StoringTypes ==
    ASSUME AvatarsTypeOK, MakeId, assets' \in {assets, assets \union {lastId'}},
           UNCHANGED <<table, issued, staged>>,
           call' \in [Calls -> AvatarCall], ingest' \in Ingest
    PROVE  AvatarsTypeOK'
  <1>1. /\ lastId' = lastId + 1 /\ lastId \in Nat /\ lastId' \in 1..MaxAssets
        /\ avatarLog' \in AvatarLog
    BY MakeIdIs DEF Ids
  <1>2. 1..lastId \subseteq 1..lastId' /\ lastId' \in 1..lastId' /\ lastId' \in 0..MaxAssets
    BY <1>1, AvatarsAssumption
  <1>3. /\ UNCHANGED <<pending, avatars, issued, staged>>
        /\ pending \in SUBSET [key: issued, by: Calls]
        /\ avatars \in SUBSET [id: 1..lastId, from: issued \union {NoKey}]
        /\ issued \in SUBSET Keys
        /\ staged \in SUBSET issued
        /\ assets \in SUBSET (1..lastId)
    BY DEF AvatarsTypeOK, table
  <1>4. [id: 1..lastId, from: issued \union {NoKey}]
            \subseteq [id: 1..lastId', from: issued \union {NoKey}]
    BY <1>2
  <1>5. avatars' \in SUBSET [id: 1..lastId', from: issued' \union {NoKey}]
    BY <1>3, <1>4
  <1>6. assets' \in SUBSET (1..lastId')
    BY <1>2, <1>3
  <1>7. QED
    BY <1>1, <1>2, <1>3, <1>5, <1>6 DEF AvatarsTypeOK

LEMMA PutObjectKeeps ==
    ASSUME AvatarsIInv, NEW c \in Calls, PutObject(c)
    PROVE  AvatarsIInv'
  <1>1. PICK k : k = call[c].key
    OBVIOUS
  <1>2. MakeId /\ AvatarsTypeOK
    BY DEF PutObject, AvatarsIInv
  <1>3. PICK id \in Ids : id = lastId'
    BY <1>2, MakeIdIs
  <1>4. PICK w : w = Completing("commit", k, id)
    OBVIOUS
  <1>5. /\ call[c].pc = "put"
        /\ assets' = assets \union {id}
        /\ call' = [call EXCEPT ![c] = w]
        /\ UNCHANGED <<pending, avatars, issued, staged, ingest>>
    BY <1>1, <1>3, <1>4 DEF PutObject, AvatarAt, Becomes, table
  <1>6. k \in issued /\ k \in Keys /\ Holds(c, k)
    BY <1>1, <1>5 DEF AvatarsIInv, AvatarsTypeOK, UseInv, HoldPlaces, Holds, AvatarAt
  <1>7. w \in AvatarCall /\ w.pc = "commit" /\ w.key = k /\ w.id = id /\ w.drop = {}
    <2>1. "commit" \in HoldPlaces
      BY DEF HoldPlaces
    <2>2. id \in {0} \union Ids
      BY <1>3
    <2>3. /\ Completing("commit", k, id) \in AvatarCall
          /\ Completing("commit", k, id).pc = "commit"
          /\ Completing("commit", k, id).key = k
          /\ Completing("commit", k, id).id = id
          /\ Completing("commit", k, id).drop = {}
      BY <1>6, <2>1, <2>2, CompletingIs
    <2>4. QED
      BY <1>4, <2>3
  <1>8. call \in [Calls -> AvatarCall] /\ ingest \in Ingest
    BY <1>2 DEF AvatarsTypeOK
  <1>9. /\ call' \in [Calls -> AvatarCall]
        /\ call'[c] = w
        /\ \A d \in Calls : d # c => call'[d] = call[d]
    BY <1>5, <1>7, <1>8, OneCallMoves
  <1>10. AvatarsTypeOK'
    BY <1>2, <1>3, <1>5, <1>8, <1>9, StoringTypes DEF table
  <1>11. /\ avatarLog'.dropped = avatarLog.dropped /\ avatarLog'.shared = avatarLog.shared
         /\ avatarLog'.latest = avatarLog.latest
         /\ \A a \in avatars : a.id < id
         /\ ~avatarLog'.mixed => /\ ~avatarLog.mixed
                                 /\ \A d \in Calls : call[d].pc # "commit"
                                 /\ ingest.pc \notin RowPlaces
    BY <1>2, <1>3, MakeIdIs
  <1>12. SessionInv'
    <2>1. Gone(w.drop) /\ w.pc \notin StartPlaces
      BY <1>7 DEF Gone, StartPlaces
    <2>2. Gone(avatarLog.dropped)'
      BY <1>5, <1>11 DEF Gone, AvatarsIInv, SessionInv
    <2>3. w.pc # "start"
      BY <1>7
    <2>4. QED
      BY <1>5, <1>7, <1>8, <2>1, <2>2, <2>3, SessionMoves DEF AvatarsIInv
  <1>13. UseInv'
    <2>1. ASSUME k \notin avatarLog.shared
          PROVE  /\ \A d \in Calls : d # c => ~Holds(d, k)
                 /\ \A a \in avatars : a.from # k
      BY <1>6, <2>1 DEF AvatarsIInv, UseInv, UsedUp
    <2>2. QED
      BY <1>5, <1>6, <1>7, <1>8, <1>11, <2>1, UseMoves DEF AvatarsIInv
  <1>14. IdInv'
    <2>1. \A d \in Calls : d # c /\ call'[d].pc = "commit" => call[d].pc = "commit" /\ call'[d] = call[d]
      BY <1>9
    <2>2. /\ \A a \in avatars' : a.id \in assets'
          /\ \A d \in Calls : call'[d].pc = "commit" => call'[d].id \in assets'
          /\ ingest'.pc \in RowPlaces => ingest'.id \in assets'
      BY <1>5, <1>7, <1>9, <2>1 DEF AvatarsIInv, IdInv
    <2>3. ASSUME ~avatarLog'.mixed
          PROVE  /\ \A d \in Calls : call'[d].pc = "commit" => d = c
                 /\ ingest'.pc \notin RowPlaces
                 /\ \A a \in avatars' : a.id < id
      BY <1>5, <1>11, <2>1, <2>3
    <2>4. ASSUME ~avatarLog'.mixed
          PROVE  /\ \A a \in avatars' : a.id <= avatarLog'.latest
                 /\ avatars' = {} \/ \E a \in avatars' : a.id = avatarLog'.latest
      BY <1>5, <1>11, <2>4 DEF AvatarsIInv, IdInv
    <2>5. ASSUME ~avatarLog'.mixed, NEW d \in Calls, call'[d].pc = "commit"
          PROVE  Newer(call[d].id)'
      BY <1>7, <1>9, <2>3, <2>5 DEF Newer
    <2>6. QED
      BY <2>2, <2>3, <2>4, <2>5 DEF IdInv
  <1>15. QED
    BY <1>10, <1>12, <1>13, <1>14 DEF AvatarsIInv

LEMMA PutFailsKeeps ==
    ASSUME AvatarsIInv, NEW c \in Calls, PutFails(c)
    PROVE  AvatarsIInv'
  <1>1. PICK w : w = NoAvatarCall
    OBVIOUS
  <1>2. w \in AvatarCall /\ w.pc = "idle" /\ w.drop = {}
    BY <1>1, NoAvatarCallIs
  <1>3. /\ MakeId /\ AvatarsTypeOK
        /\ assets' \in {assets, assets \union {lastId'}}
        /\ call' = [call EXCEPT ![c] = w]
        /\ UNCHANGED <<pending, avatars, issued, staged, ingest>>
    BY <1>1 DEF PutFails, Answered, Becomes, AvatarsIInv, table
  <1>4. call \in [Calls -> AvatarCall] /\ ingest \in Ingest
    BY <1>3 DEF AvatarsTypeOK
  <1>5. /\ call' \in [Calls -> AvatarCall]
        /\ call'[c] = w
        /\ \A d \in Calls : d # c => call'[d] = call[d]
    BY <1>2, <1>3, <1>4, OneCallMoves
  <1>6. AvatarsTypeOK'
    BY <1>3, <1>4, <1>5, StoringTypes DEF table
  <1>7. /\ avatarLog'.dropped = avatarLog.dropped /\ avatarLog'.shared = avatarLog.shared
        /\ avatarLog'.latest = avatarLog.latest
        /\ ~avatarLog'.mixed => ~avatarLog.mixed
    BY <1>3, MakeIdIs
  <1>8. SessionInv'
    <2>1. Gone(w.drop) /\ w.pc \notin StartPlaces /\ w.pc # "start"
      BY <1>2 DEF Gone, StartPlaces
    <2>2. Gone(avatarLog.dropped)'
      BY <1>3, <1>7 DEF Gone, AvatarsIInv, SessionInv
    <2>3. QED
      BY <1>2, <1>3, <1>4, <2>1, <2>2, SessionMoves DEF AvatarsIInv
  <1>9. UseInv'
    BY <1>2, <1>3, <1>4, <1>7, UseMoves DEF AvatarsIInv, HoldPlaces
  <1>10. IdInv'
    <2>1. \A d \in Calls : call'[d].pc = "commit" => call[d].pc = "commit" /\ call'[d] = call[d]
      BY <1>2, <1>5
    <2>2. /\ \A a \in avatars' : a.id \in assets'
          /\ \A d \in Calls : call'[d].pc = "commit" => call'[d].id \in assets'
          /\ ingest'.pc \in RowPlaces => ingest'.id \in assets'
      BY <1>3, <2>1 DEF AvatarsIInv, IdInv
    <2>3. QED
      BY <1>3, <1>7, <2>1, <2>2 DEF AvatarsIInv, IdInv, Newer
  <1>11. QED
    BY <1>6, <1>8, <1>9, <1>10 DEF AvatarsIInv

LEMMA DeleteObjectKeeps ==
    ASSUME AvatarsIInv, NEW c \in Calls, NEW k \in Keys, DeleteObject(c, k)
    PROVE  AvatarsIInv'
  <1>1. PICK drop : drop = call[c].drop
    OBVIOUS
  <1>2. PICK w : w = CleaningUp(drop \ {k})
    OBVIOUS
  <1>3. /\ k \in drop
        /\ staged' \subseteq staged
        /\ \/ avatarLog' = avatarLog
           \/ avatarLog' = [avatarLog EXCEPT !.dropped = avatarLog.dropped \union {k}]
        /\ call' = [call EXCEPT ![c] = w]
        /\ UNCHANGED <<pending, avatars, lastId, issued, assets, ingest>>
    BY <1>1, <1>2 DEF DeleteObject, Becomes, table
  <1>4. call \in [Calls -> AvatarCall] /\ avatarLog \in AvatarLog
    BY DEF AvatarsIInv, AvatarsTypeOK
  <1>5. Gone(drop) /\ drop \in SUBSET Keys
    BY <1>1, <1>4 DEF AvatarsIInv, SessionInv, AvatarCall
  <1>6. w \in AvatarCall /\ w.pc = "cleanup" /\ w.drop = drop \ {k}
    BY <1>2, <1>5, CleaningUpIs
  <1>7. call' \in [Calls -> AvatarCall]
    BY <1>3, <1>4, <1>6, OneCallMoves
  <1>8. /\ avatarLog' \in AvatarLog
        /\ avatarLog'.dropped \in {avatarLog.dropped, avatarLog.dropped \union {k}}
        /\ avatarLog'.shared = avatarLog.shared
        /\ avatarLog'.mixed = avatarLog.mixed /\ avatarLog'.latest = avatarLog.latest
    BY <1>3, <1>4 DEF AvatarLog
  <1>9. AvatarsTypeOK'
    BY <1>3, <1>7, <1>8 DEF AvatarsIInv, AvatarsTypeOK
  <1>10. SessionInv'
    <2>1. Gone(w.drop) /\ w.pc \notin StartPlaces /\ w.pc # "start"
      BY <1>5, <1>6 DEF Gone, StartPlaces
    <2>2. Gone(avatarLog.dropped)
      BY DEF AvatarsIInv, SessionInv
    <2>3. Gone(avatarLog.dropped)'
      BY <1>3, <1>5, <1>8, <2>2 DEF Gone
    <2>4. QED
      BY <1>3, <1>4, <1>6, <2>1, <2>3, SessionMoves DEF AvatarsIInv
  <1>11. UseInv'
    BY <1>3, <1>4, <1>6, <1>8, UseMoves DEF AvatarsIInv, HoldPlaces
  <1>12. IdInv'
    <2>1. w.pc # "commit"
      BY <1>6
    <2>2. QED
      BY <1>3, <1>4, <1>6, <1>8, <2>1, IdMoves DEF AvatarsIInv
  <1>13. QED
    BY <1>9, <1>10, <1>11, <1>12 DEF AvatarsIInv

-----------------------------------------------------------------------------
\* The calls and their sessions stay.
LEMMA CallsStay ==
    ASSUME SessionInv, UseInv, UNCHANGED <<pending, avatars, issued, call>>,
           avatarLog'.dropped = avatarLog.dropped, avatarLog'.shared = avatarLog.shared
    PROVE  SessionInv' /\ UseInv'
  <1>1. SessionInv'
    BY DEF SessionInv, FreshKey, Supersedes, Gone
  <1>2. UseInv'
    BY DEF UseInv, UsedUp, Holds, AvatarAt, SessionUsedOnce
  <1>3. QED
    BY <1>1, <1>2

LEMMA ObjectsKeep ==
    ASSUME AvatarsIInv, NEW k \in Keys, Upload(k) \/ Lifecycle(k)
    PROVE  AvatarsIInv'
  <1>1. /\ staged' \subseteq staged \union {k}
        /\ k \in staged' => k \in issued
        /\ UNCHANGED <<pending, avatars, lastId, issued, assets, call, ingest, avatarLog>>
    BY DEF Upload, Lifecycle, table, AvatarsIInv, AvatarsTypeOK
  <1>2. AvatarsTypeOK'
    BY <1>1 DEF AvatarsIInv, AvatarsTypeOK
  <1>3. SessionInv' /\ UseInv'
    BY <1>1, CallsStay DEF AvatarsIInv
  <1>4. IdInv'
    BY <1>1 DEF AvatarsIInv, IdInv, Newer
  <1>5. QED
    BY <1>2, <1>3, <1>4 DEF AvatarsIInv

LEMMA AfterFailureIs ==
    AfterFailure \in Ingest /\ AfterFailure.pc \notin RowPlaces
  BY DEF AfterFailure, Ingest, RowPlaces

\* The ingest is past its row or gives the picture up.
LEMMA IngestMovesOn ==
    ASSUME AvatarsIInv, ingest' \in Ingest, ingest'.pc \notin RowPlaces,
           UNCHANGED <<table, lastId, issued, objects, call, avatarLog>>
    PROVE  AvatarsIInv'
  <1>1. UNCHANGED <<pending, avatars, lastId, issued, staged, assets, call, avatarLog>>
    BY DEF table, objects
  <1>2. AvatarsTypeOK'
    BY <1>1 DEF AvatarsIInv, AvatarsTypeOK
  <1>3. SessionInv' /\ UseInv'
    BY <1>1, CallsStay DEF AvatarsIInv
  <1>4. IdInv'
    BY <1>1 DEF AvatarsIInv, IdInv, Newer
  <1>5. QED
    BY <1>2, <1>3, <1>4 DEF AvatarsIInv

LEMMA IngestFailsKeeps ==
    ASSUME AvatarsIInv, IngestNothing \/ InsertFails \/ IngestStops
    PROVE  AvatarsIInv'
  <1>1. ingest' = AfterFailure \/ ingest' = [pc |-> "done", id |-> 0]
    BY DEF IngestNothing, InsertFails, IngestStops
  <1>2. ingest' \in Ingest /\ ingest'.pc \notin RowPlaces
    <2>1. CASE ingest' = AfterFailure
      BY <2>1, AfterFailureIs
    <2>2. CASE ingest' = [pc |-> "done", id |-> 0]
      BY <2>2 DEF Ingest, RowPlaces
    <2>3. QED
      BY <1>1, <2>1, <2>2
  <1>3. UNCHANGED <<table, lastId, issued, objects, call, avatarLog>>
    BY DEF IngestNothing, InsertFails, IngestStops
  <1>4. QED
    BY <1>2, <1>3, IngestMovesOn

LEMMA IngestStoresKeeps ==
    ASSUME AvatarsIInv, IngestStores \/ IngestPutFails
    PROVE  AvatarsIInv'
  <1>1. /\ MakeId /\ AvatarsTypeOK
        /\ UNCHANGED <<pending, avatars, issued, staged, call>>
        /\ assets' \in {assets, assets \union {lastId'}}
    BY DEF IngestStores, IngestPutFails, AvatarsIInv, table
  <1>2. /\ lastId' \in Ids
        /\ avatarLog'.dropped = avatarLog.dropped /\ avatarLog'.shared = avatarLog.shared
        /\ avatarLog'.latest = avatarLog.latest
        /\ \A a \in avatars : a.id < lastId'
        /\ ~avatarLog'.mixed => /\ ~avatarLog.mixed
                                /\ \A d \in Calls : call[d].pc # "commit"
                                /\ ingest.pc \notin RowPlaces
    BY <1>1, MakeIdIs
  <1>3. \/ ingest' \in Ingest /\ ingest'.pc \notin RowPlaces
        \/ /\ ingest' \in Ingest /\ ingest'.id = lastId' /\ lastId' \in assets'
    <2>1. CASE IngestStores
      <3>1. PICK pc \in RowPlaces : pc = IF ingest.pc = "url" THEN "urlRow" ELSE "syntheticRow"
        BY DEF RowPlaces
      <3>2. PICK id \in Ids : id = lastId'
        BY <1>2
      <3>3. ingest' = [pc |-> pc, id |-> id] /\ id \in assets'
        BY <2>1, <3>1, <3>2 DEF IngestStores
      <3>4. ingest' \in Ingest /\ ingest'.id = id
        BY <3>3 DEF Ingest, RowPlaces
      <3>5. QED
        BY <3>2, <3>3, <3>4
    <2>2. CASE IngestPutFails
      <3>1. ingest' = AfterFailure
        BY <2>2 DEF IngestPutFails
      <3>2. QED
        BY <3>1, AfterFailureIs
    <2>3. QED
      BY <2>1, <2>2
  <1>4. AvatarsTypeOK'
    <2>1. call' \in [Calls -> AvatarCall] /\ ingest' \in Ingest
      BY <1>1, <1>3 DEF AvatarsTypeOK
    <2>2. QED
      BY <1>1, <2>1, StoringTypes DEF table
  <1>5. SessionInv' /\ UseInv'
    BY <1>1, <1>2, CallsStay DEF AvatarsIInv
  <1>6. IdInv'
    <2>1. /\ \A a \in avatars' : a.id \in assets'
          /\ \A d \in Calls : call'[d].pc = "commit" => call'[d].id \in assets'
          /\ ingest'.pc \in RowPlaces => ingest'.id \in assets'
      BY <1>1, <1>3 DEF AvatarsIInv, IdInv
    <2>2. ASSUME ~avatarLog'.mixed
          PROVE  /\ \A d \in Calls : call'[d].pc # "commit"
                 /\ ingest'.pc \in RowPlaces => \A a \in avatars' : a.id < ingest'.id
                 /\ \A a \in avatars' : a.id <= avatarLog'.latest
                 /\ avatars' = {} \/ \E a \in avatars' : a.id = avatarLog'.latest
      BY <1>1, <1>2, <1>3, <2>2 DEF AvatarsIInv, IdInv
    <2>3. QED
      BY <2>1, <2>2 DEF IdInv, Newer
  <1>7. QED
    BY <1>4, <1>5, <1>6 DEF AvatarsIInv

LEMMA InsertCommittedAvatarKeeps ==
    ASSUME AvatarsIInv, InsertCommittedAvatar
    PROVE  AvatarsIInv'
  <1>1. PICK id : id = ingest.id
    OBVIOUS
  <1>2. PICK row : row = [id |-> id, from |-> NoKey]
    OBVIOUS
  <1>3. /\ ingest.pc \in RowPlaces
        /\ avatars' = avatars \union {row}
        /\ avatarLog' = [avatarLog EXCEPT !.latest = id]
        /\ ingest' = [pc |-> "done", id |-> 0] \/ ingest' = AfterFailure
        /\ UNCHANGED <<pending, lastId, issued, staged, assets, call>>
    BY <1>1, <1>2 DEF InsertCommittedAvatar, Insert, RowPlaces, objects
  <1>4. ingest' \in Ingest /\ ingest'.pc \notin RowPlaces
    <2>1. CASE ingest' = AfterFailure
      BY <2>1, AfterFailureIs
    <2>2. CASE ingest' = [pc |-> "done", id |-> 0]
      BY <2>2 DEF Ingest, RowPlaces
    <2>3. QED
      BY <1>3, <2>1, <2>2
  <1>5. id \in assets /\ id \in 1..lastId
    BY <1>1, <1>3 DEF AvatarsIInv, AvatarsTypeOK, IdInv
  <1>6. id \in Ids
    BY <1>5, AvatarsAssumption DEF AvatarsIInv, AvatarsTypeOK, Ids
  <1>7. /\ avatarLog' \in AvatarLog /\ avatarLog'.latest = id
        /\ avatarLog'.dropped = avatarLog.dropped /\ avatarLog'.shared = avatarLog.shared
        /\ avatarLog'.mixed = avatarLog.mixed
    BY <1>3, <1>6 DEF AvatarsIInv, AvatarsTypeOK, AvatarLog
  <1>8. row.id = id /\ row.from = NoKey
    BY <1>2
  <1>9. AvatarsTypeOK'
    <2>1. row \in [id: 1..lastId, from: issued \union {NoKey}]
      BY <1>2, <1>5
    <2>2. avatars' \in SUBSET [id: 1..lastId', from: issued' \union {NoKey}]
      BY <1>3, <2>1 DEF AvatarsIInv, AvatarsTypeOK
    <2>3. QED
      BY <1>3, <1>4, <1>7, <2>2 DEF AvatarsIInv, AvatarsTypeOK
  <1>10. SessionInv'
    BY <1>3, <1>7 DEF AvatarsIInv, SessionInv, FreshKey, Supersedes, Gone
  <1>11. UseInv'
    <2>1. \A a \in avatars' : a.from \in Keys => a \in avatars
      BY <1>3, <1>8, AvatarsAssumption
    <2>2. SessionUsedOnce'
      <3>1. SessionUsedOnce
        BY DEF AvatarsIInv, UseInv
      <3>2. QED
        BY <1>3, <1>7, <1>8, <3>1 DEF SessionUsedOnce
    <2>3. \A c \in Calls, k \in Keys : Holds(c, k)' <=> Holds(c, k)
      BY <1>3 DEF Holds, AvatarAt
    <2>4. \A k \in Keys : UsedUp(k) => UsedUp(k)'
      BY <1>3, <2>3 DEF UsedUp
    <2>5. QED
      BY <1>3, <1>7, <2>1, <2>2, <2>3, <2>4 DEF AvatarsIInv, UseInv
  <1>12. IdInv'
    <2>1. /\ \A a \in avatars' : a.id \in assets'
          /\ \A d \in Calls : call'[d].pc = "commit" => call'[d].id \in assets'
      BY <1>3, <1>5, <1>8 DEF AvatarsIInv, IdInv
    <2>2. ASSUME ~avatarLog.mixed
          PROVE  /\ \A d \in Calls : call'[d].pc # "commit"
                 /\ \A a \in avatars : a.id < id
      BY <1>1, <1>3, <2>2 DEF AvatarsIInv, IdInv, Newer
    <2>3. ASSUME ~avatarLog.mixed
          PROVE  /\ \A a \in avatars' : a.id <= id
                 /\ \E a \in avatars' : a.id = id
      <3>1. /\ \A a \in avatars : a.id \in 1..lastId
            /\ lastId \in Nat
        BY AvatarsAssumption DEF AvatarsIInv, AvatarsTypeOK
      <3>2. QED
        BY <1>3, <1>5, <1>8, <2>2, <2>3, <3>1
    <2>4. QED
      BY <1>4, <1>7, <2>1, <2>2, <2>3 DEF IdInv, Newer
  <1>13. QED
    BY <1>9, <1>10, <1>11, <1>12 DEF AvatarsIInv

-----------------------------------------------------------------------------
LEMMA AvatarsInitHolds ==
    ASSUME AvatarsInit
    PROVE  AvatarsIInv
  <1>1. /\ pending = {} /\ avatars = {} /\ lastId = 0
        /\ issued = {} /\ staged = {} /\ assets = {}
        /\ call = [c \in Calls |-> NoAvatarCall]
        /\ ingest \in [pc: {"url", "synthetic", "done"}, id: {0}]
        /\ avatarLog = [dropped |-> {}, shared |-> {}, mixed |-> FALSE, latest |-> 0]
    BY DEF AvatarsInit
  <1>2. \A c \in Calls : call[c].pc = "idle" /\ call[c].drop = {}
    BY <1>1, NoAvatarCallIs
  <1>3. AvatarsTypeOK
    <2>1. call \in [Calls -> AvatarCall]
      BY <1>1, NoAvatarCallIs
    <2>2. ingest \in Ingest /\ avatarLog \in AvatarLog
      BY <1>1 DEF Ingest, AvatarLog
    <2>3. 0 \in 0..MaxAssets
      BY AvatarsAssumption
    <2>4. QED
      BY <1>1, <2>1, <2>2, <2>3 DEF AvatarsTypeOK
  <1>4. SessionInv
    BY <1>1, <1>2 DEF SessionInv, FreshKey, Supersedes, Gone, StartPlaces
  <1>5. UseInv
    BY <1>1, <1>2 DEF UseInv, Holds, AvatarAt, HoldPlaces, SessionUsedOnce
  <1>6. IdInv
    BY <1>1, <1>2 DEF IdInv, RowPlaces
  <1>7. QED
    BY <1>3, <1>4, <1>5, <1>6 DEF AvatarsIInv

LEMMA AvatarsStepHolds ==
    ASSUME AvatarsIInv, [AvatarsNext]_avatarVars
    PROVE  AvatarsIInv'
  <1>1. CASE UNCHANGED avatarVars
    <2>1. /\ UNCHANGED <<pending, avatars, lastId, issued, staged, assets>>
          /\ UNCHANGED <<call, ingest, avatarLog>>
      BY <1>1 DEF avatarVars
    <2>2. AvatarsTypeOK' /\ IdInv'
      BY <2>1 DEF AvatarsIInv, AvatarsTypeOK, IdInv, Newer
    <2>3. QED
      BY <2>1, <2>2, CallsStay DEF AvatarsIInv
  <1>2. ASSUME NEW c \in Calls, NEW k \in Keys,
               PresignPut(c, k) \/ FindSession(c, k) \/ DeleteObject(c, k)
        PROVE  AvatarsIInv'
    BY <1>2, PresignPutKeeps, FindSessionKeeps, DeleteObjectKeeps
  <1>3. ASSUME NEW c \in Calls, ReadStale(c) \/ DeleteStale(c) \/ CommitStart(c)
        PROVE  AvatarsIInv'
    BY <1>3, ReadStaleKeeps, DeleteStaleKeeps, CommitStartKeeps
  <1>4. ASSUME NEW c \in Calls,
               GetObject(c) \/ PutObject(c) \/ PutFails(c) \/ CommitComplete(c)
        PROVE  AvatarsIInv'
    BY <1>4, GetObjectKeeps, PutObjectKeeps, PutFailsKeeps, CommitCompleteKeeps
  <1>5. ASSUME NEW c \in Calls, CleanedUp(c) \/ AvatarCallFails(c)
        PROVE  AvatarsIInv'
    BY <1>5, AnsweredKeeps DEF CleanedUp, AvatarCallFails
  <1>6. ASSUME \/ IngestStores \/ IngestPutFails \/ IngestNothing
               \/ InsertCommittedAvatar \/ InsertFails \/ IngestStops
        PROVE  AvatarsIInv'
    BY <1>6, IngestStoresKeeps, IngestFailsKeeps, InsertCommittedAvatarKeeps
  <1>7. ASSUME NEW k \in Keys, Upload(k) \/ Lifecycle(k)
        PROVE  AvatarsIInv'
    BY <1>7, ObjectsKeep
  <1>8. QED
    BY <1>1, <1>2, <1>3, <1>4, <1>5, <1>6, <1>7 DEF AvatarsNext, UserCall

\* Rows that calls of their own wrote are no more than the calls.
LEMMA RowsBounded ==
    ASSUME AvatarsTypeOK, \A r, s \in pending : r.by = s.by => r = s
    PROVE  SessionsBounded
  <1>1. PICK f : f = [r \in pending |-> r.by]
    OBVIOUS
  <1>2. \A r \in pending : r.by \in Calls
    BY PendingTypes
  <1>3. f \in Injection(pending, Calls)
    BY <1>1, <1>2 DEF Injection, IsInjective
  <1>4. QED
    BY <1>3, AvatarsAssumption, FS_Injection DEF SessionsBounded

-----------------------------------------------------------------------------
(* The theorems.                                                           *)

\* Every reachable state satisfies the inductive invariant of the avatars.
THEOREM AvatarsInvariant == AvatarsSpec => []AvatarsIInv
  <1>1. AvatarsInit => AvatarsIInv
    BY AvatarsInitHolds
  <1>2. AvatarsIInv /\ [AvatarsNext]_avatarVars => AvatarsIInv'
    BY AvatarsStepHolds
  <1>3. QED
    BY <1>1, <1>2, PTL DEF AvatarsSpec

\* Rows, objects and calls are well-formed in every reachable state.
THEOREM AvatarsTypes == AvatarsSpec => []AvatarsTypeOK
  <1>1. AvatarsIInv => AvatarsTypeOK
    BY DEF AvatarsIInv
  <1>2. QED
    BY <1>1, AvatarsInvariant, PTL

\* For any number of calls at once a user has no more sessions than calls, no
\* session loses its staging object while its row is there, and a session brings
\* one avatar unless two completions held it at once.
THEOREM AvatarSessionsHold == AvatarsSpec => []UploadSessionsHold
  <1>1. AvatarsIInv => UploadSessionsHold
    <2>1. SUFFICES ASSUME AvatarsIInv
                   PROVE  UploadSessionsHold
      OBVIOUS
    <2>2. SessionsBounded
      BY <2>1, RowsBounded DEF AvatarsIInv, SessionInv
    <2>3. LiveSessionKeepsObject
      BY <2>1, PendingTypes DEF AvatarsIInv, SessionInv, Gone, LiveSessionKeepsObject
    <2>4. SessionUsedOnce
      BY <2>1 DEF AvatarsIInv, UseInv
    <2>5. QED
      BY <2>2, <2>3, <2>4 DEF UploadSessionsHold
  <1>2. QED
    BY <1>1, AvatarsInvariant, PTL

\* Every committed row has its object, and the avatar that is displayed is the
\* one committed last unless writes overlapped.
THEOREM AvatarIsDisplayed == AvatarsSpec => []DisplayedAvatar
  <1>1. AvatarsIInv => DisplayedAvatar
    <2>1. SUFFICES ASSUME AvatarsIInv
                   PROVE  DisplayedAvatar
      OBVIOUS
    <2>2. \A a \in avatars : a.id \in assets
      BY <2>1 DEF AvatarsIInv, IdInv
    <2>3. /\ lastId \in Nat /\ avatarLog.latest \in Nat
          /\ \A a \in avatars : a.id \in 1..lastId
      BY <2>1, AvatarsAssumption DEF AvatarsIInv, AvatarsTypeOK, AvatarLog, Ids
    <2>4. ASSUME ~avatarLog.mixed, NEW a \in avatars, Displays(a)
          PROVE  a.id = avatarLog.latest
      <3>1. /\ \A b \in avatars : b.id <= avatarLog.latest
            /\ \E b \in avatars : b.id = avatarLog.latest
        BY <2>1, <2>4 DEF AvatarsIInv, IdInv
      <3>2. \A b \in avatars : b.id <= a.id /\ b.id \in Nat
        BY <2>3, <2>4 DEF Displays
      <3>3. QED
        BY <2>3, <2>4, <3>1, <3>2
    <2>5. QED
      BY <2>2, <2>4 DEF DisplayedAvatar
  <1>2. QED
    BY <1>1, AvatarsInvariant, PTL

-----------------------------------------------------------------------------
(* The instances of MCUserFlows.                                           *)

\* The two flows share no state and each step is a step of one of them, so a
\* behaviour of the instances is a behaviour of each, and every theorem of
\* either holds of it.
THEOREM FlowsCompose == FlowsSpec => Spec /\ AvatarsSpec
  <1>1. FlowsInit => Init /\ AvatarsInit
    BY DEF FlowsInit
  <1>2. [FlowsNext]_flowVars => [Next]_vars /\ [AvatarsNext]_avatarVars
    BY DEF FlowsNext, flowVars
  <1>3. QED
    BY <1>1, <1>2, PTL DEF FlowsSpec, Spec, AvatarsSpec

\* Whatever polls, decisions, uploads and expiries do, the records, rows,
\* objects and calls hold what their declarations allow.
THEOREM FlowsTypes == FlowsSpec => []TypesOK
  <1>1. TypeOK /\ AvatarsTypeOK => TypesOK
    BY DEF TypesOK
  <1>2. QED
    BY <1>1, FlowsCompose, DeviceTypes, AvatarsTypes, PTL

=============================================================================
