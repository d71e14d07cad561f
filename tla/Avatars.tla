------------------------------ MODULE Avatars ------------------------------
(***************************************************************************)
(* The avatar of one user: StartAvatarUpload and CompleteAvatarUpload of   *)
(* internal/profile/core/avatar_upload.go, the ingest of the picture that  *)
(* follows CreateProfile (internal/profile/avataringest), and the choice   *)
(* of the row that is displayed.  Rows of user_avatars and objects of the  *)
(* two buckets are written in steps of their own; no transaction joins     *)
(* them.                                                                   *)
(*                                                                         *)
(* A staging row is its object key.  A committed row and its object have   *)
(* the same id, a UUIDv7: greater than the ids made before, as one process *)
(* makes them; the clocks of several replicas are left out.                *)
(***************************************************************************)
EXTENDS Naturals, FiniteSets

CONSTANTS
    Calls,        \* requests of the user that run at once
    Keys,         \* staging object keys
    NoKey,
    MaxAssets     \* bound: how many ids are made

ASSUME AvatarsAssumption ==
    /\ IsFiniteSet(Calls)
    /\ NoKey \notin Keys
    /\ MaxAssets \in Nat

VARIABLES
    pending,      \* rows whose uploaded_at is NULL, and the call that wrote each
    avatars,      \* committed rows, and the session each comes from (NoKey: the ingest)
    lastId,       \* the last id that was made
    issued,       \* keys of the sessions that were started, with their URLs
    staged,       \* objects in the upload bucket
    assets,       \* objects in the assets bucket
    call,         \* the requests, each with the clean-up it leaves behind
    ingest,       \* the ingest of the first picture
    avatarLog     \* history, see AvatarLog

avatarVars == <<pending, avatars, lastId, issued, staged, assets, call, ingest, avatarLog>>

-----------------------------------------------------------------------------
Ids == 1..MaxAssets

Pending == [key: Keys, by: Calls]

\* pc: "stale" to "start" are StartAvatarUpload, "get" to "commit"
\* CompleteAvatarUpload.  stale: keys of the pending rows it read; seen: the
\* snapshot of its DELETE; drop: staging objects it has still to delete.
AvatarCall ==
    [pc: {"idle", "stale", "delete", "start", "get", "put", "commit", "cleanup"},
     key: Keys \union {NoKey}, id: {0} \union Ids,
     stale: SUBSET Keys, seen: SUBSET Pending, drop: SUBSET Keys]

NoAvatarCall == [pc |-> "idle", key |-> NoKey, id |-> 0, stale |-> {}, seen |-> {}, drop |-> {}]

Starting(pc, key, stale, seen) ==
    [pc |-> pc, key |-> key, id |-> 0, stale |-> stale, seen |-> seen, drop |-> {}]

Completing(pc, key, id) ==
    [pc |-> pc, key |-> key, id |-> id, stale |-> {}, seen |-> {}, drop |-> {}]

CleaningUp(keys) ==
    [pc |-> "cleanup", key |-> NoKey, id |-> 0, stale |-> {}, seen |-> {}, drop |-> keys]

\* "url" and "synthetic" make the picture and store it; "urlRow" and
\* "syntheticRow" insert its row.
Ingest == [pc: {"url", "synthetic", "done"}, id: {0}]
    \union [pc: {"urlRow", "syntheticRow"}, id: Ids]

\* dropped: staging objects the service deleted.  shared: keys that two
\* completions held at once.  mixed: an id was made while another one had no
\* row yet.  latest: the id of the row that was committed last.
AvatarLog == [dropped: SUBSET Keys, shared: SUBSET Keys, mixed: BOOLEAN, latest: {0} \union Ids]

AvatarsTypeOK ==
    /\ pending \in SUBSET [key: issued, by: Calls]
    /\ avatars \in SUBSET [id: 1..lastId, from: issued \union {NoKey}]
    /\ lastId \in 0..MaxAssets
    /\ issued \in SUBSET Keys
    /\ staged \in SUBSET issued
    /\ assets \in SUBSET (1..lastId)
    /\ call \in [Calls -> AvatarCall]
    /\ ingest \in Ingest
    /\ avatarLog \in AvatarLog

\* The profile exists.  Its ingest is about to try the identity's picture, or
\* a synthetic one if that is no https URL; without a picture there is none.
AvatarsInit ==
    /\ pending = {} /\ avatars = {} /\ lastId = 0
    /\ issued = {} /\ staged = {} /\ assets = {}
    /\ call = [c \in Calls |-> NoAvatarCall]
    /\ ingest \in [pc: {"url", "synthetic", "done"}, id: {0}]
    /\ avatarLog = [dropped |-> {}, shared |-> {}, mixed |-> FALSE, latest |-> 0]

-----------------------------------------------------------------------------
AvatarAt(c, pcs) == call[c].pc \in pcs

Becomes(c, w) == call' = [call EXCEPT ![c] = w]

Answered(c) == Becomes(c, NoAvatarCall)

KeysOf(sessions) == {s.key : s \in sessions}

table == <<pending, avatars>>

objects == <<staged, assets>>

-----------------------------------------------------------------------------
(* StartAvatarUpload.                                                      *)

\* The presigned URL of a new key.
PresignPut(c, k) ==
    /\ AvatarAt(c, {"idle"})
    /\ k \notin issued
    /\ \A d \in Calls : call[d].key # k
    /\ Becomes(c, Starting("stale", k, {}, {}))
    /\ UNCHANGED <<table, lastId, issued, objects, ingest, avatarLog>>

\* Mutant of ReadStale: one stale row is not enough to delete.
ReadStaleOffByOne(c) ==
    /\ AvatarAt(c, {"stale"})
    /\ Becomes(c, Starting(IF Cardinality(pending) <= 1 THEN "start" ELSE "delete",
                           call[c].key, KeysOf(pending), {}))
    /\ UNCHANGED <<table, lastId, issued, objects, ingest, avatarLog>>

\* The transaction begins and reads the pending rows; without any there is
\* nothing to delete.
ReadStale(c) ==
    /\ AvatarAt(c, {"stale"})
    /\ Becomes(c, Starting(IF pending = {} THEN "start" ELSE "delete",
                           call[c].key, KeysOf(pending), {}))
    /\ UNCHANGED <<table, lastId, issued, objects, ingest, avatarLog>>

\* Mutant of DeleteStale: the DELETE finds no row.
DeleteStaleNothing(c) ==
    /\ AvatarAt(c, {"delete"})
    /\ Becomes(c, Starting("start", call[c].key, call[c].stale, {}))
    /\ UNCHANGED <<table, lastId, issued, objects, ingest, avatarLog>>

\* The DELETE works on the rows that are pending when it starts; those that
\* are gone when it gets their locks it leaves out.
DeleteStale(c) ==
    /\ AvatarAt(c, {"delete"})
    /\ Becomes(c, Starting("start", call[c].key, call[c].stale, pending))
    /\ UNCHANGED <<table, lastId, issued, objects, ingest, avatarLog>>

\* The new row is inserted and the transaction commits.
CommitStart(c) ==
    /\ AvatarAt(c, {"start"})
    /\ pending' = (pending \ call[c].seen) \union {[key |-> call[c].key, by |-> c]}
    /\ issued' = issued \union {call[c].key}
    /\ Becomes(c, CleaningUp(call[c].stale))
    /\ UNCHANGED <<avatars, lastId, objects, ingest, avatarLog>>

-----------------------------------------------------------------------------
(* CompleteAvatarUpload.                                                   *)

Holds(c, k) == AvatarAt(c, {"get", "put", "commit"}) /\ call[c].key = k

\* The session's row is there and is not completed.
FindSession(c, k) ==
    /\ AvatarAt(c, {"idle"})
    /\ k \in KeysOf(pending)
    /\ Becomes(c, Completing("get", k, 0))
    /\ avatarLog' = [avatarLog EXCEPT !.shared =
                        IF \E d \in Calls : Holds(d, k)
                        THEN avatarLog.shared \union {k} ELSE avatarLog.shared]
    /\ UNCHANGED <<table, lastId, issued, objects, ingest>>

\* The object is read; what does not validate is AvatarCallFails.
GetObject(c) ==
    /\ AvatarAt(c, {"get"})
    /\ call[c].key \in staged
    /\ Becomes(c, Completing("put", call[c].key, 0))
    /\ UNCHANGED <<table, lastId, issued, objects, ingest, avatarLog>>

\* An id is made; another write may have one that has no row yet.
MakeId ==
    /\ lastId < MaxAssets
    /\ lastId' = lastId + 1
    /\ avatarLog' = [avatarLog EXCEPT !.mixed = \/ avatarLog.mixed
                                                \/ \E c \in Calls : AvatarAt(c, {"commit"})
                                                \/ ingest.pc \in {"urlRow", "syntheticRow"}]

\* The picture is stored under its new id.
PutObject(c) ==
    /\ AvatarAt(c, {"put"})
    /\ MakeId
    /\ assets' = assets \union {lastId'}
    /\ Becomes(c, Completing("commit", call[c].key, lastId'))
    /\ UNCHANGED <<table, issued, staged, ingest>>

\* The store answers with an error; the object may be there.
PutFails(c) ==
    /\ AvatarAt(c, {"put"})
    /\ MakeId
    /\ assets' \in {assets, assets \union {lastId'}}
    /\ Answered(c)
    /\ UNCHANGED <<table, issued, staged, ingest>>

\* A row that is ready to be displayed.
Insert(id, from) ==
    /\ avatars' = avatars \union {[id |-> id, from |-> from]}
    /\ avatarLog' = [avatarLog EXCEPT !.latest = id]

\* Mutant of CommitComplete: the pending row stays.
CommitCompleteKept(c) ==
    /\ AvatarAt(c, {"commit"})
    /\ Insert(call[c].id, call[c].key)
    /\ Becomes(c, CleaningUp({call[c].key}))
    /\ UNCHANGED <<pending, lastId, issued, objects, ingest>>

\* The transaction: the session's row, if it is still there, makes room for
\* the completed one.
CommitComplete(c) ==
    /\ AvatarAt(c, {"commit"})
    /\ pending' = {r \in pending : r.key # call[c].key}
    /\ Insert(call[c].id, call[c].key)
    /\ Becomes(c, CleaningUp({call[c].key}))
    /\ UNCHANGED <<lastId, issued, objects, ingest>>

-----------------------------------------------------------------------------
\* goDeleteStagingObjects, and the end of CompleteAvatarUpload: in the
\* background, after the answer; a deletion that fails is only logged.
DeleteObject(c, k) ==
    /\ AvatarAt(c, {"cleanup"})
    /\ k \in call[c].drop
    /\ \/ /\ staged' = staged \ {k}
          /\ avatarLog' = [avatarLog EXCEPT !.dropped = avatarLog.dropped \union {k}]
       \/ UNCHANGED <<staged, avatarLog>>
    /\ Becomes(c, CleaningUp(call[c].drop \ {k}))
    /\ UNCHANGED <<table, lastId, issued, assets, ingest>>

CleanedUp(c) ==
    /\ AvatarAt(c, {"cleanup"})
    /\ call[c].drop = {}
    /\ Answered(c)
    /\ UNCHANGED <<table, lastId, issued, objects, ingest, avatarLog>>

AvatarCallFails(c) ==
    /\ ~AvatarAt(c, {"idle"})
    /\ Answered(c)
    /\ UNCHANGED <<table, lastId, issued, objects, ingest, avatarLog>>

-----------------------------------------------------------------------------
(* backgroundIngest.                                                       *)

\* Mutant of AfterFailure: the id is kept.
AfterFailureKeepsId ==
    [pc |-> IF ingest.pc \in {"url", "urlRow"} THEN "synthetic" ELSE "done", id |-> ingest.id]

\* Where the ingest goes when a step fails.
AfterFailure == [pc |-> IF ingest.pc \in {"url", "urlRow"} THEN "synthetic" ELSE "done",
                 id |-> 0]

\* Mutant of IngestStores: an error of PutObject is ignored.
IngestStoresAnyway ==
    /\ ingest.pc \in {"url", "synthetic"}
    /\ MakeId
    /\ assets' \in {assets, assets \union {lastId'}}
    /\ ingest' = [pc |-> IF ingest.pc = "url" THEN "urlRow" ELSE "syntheticRow", id |-> lastId']
    /\ UNCHANGED <<table, issued, staged, call>>

\* prepareAndUploadFromRaw.
IngestStores ==
    /\ ingest.pc \in {"url", "synthetic"}
    /\ MakeId
    /\ assets' = assets \union {lastId'}
    /\ ingest' = [pc |-> IF ingest.pc = "url" THEN "urlRow" ELSE "syntheticRow", id |-> lastId']
    /\ UNCHANGED <<table, issued, staged, call>>

IngestPutFails ==
    /\ ingest.pc \in {"url", "synthetic"}
    /\ MakeId
    /\ assets' \in {assets, assets \union {lastId'}}
    /\ ingest' = AfterFailure
    /\ UNCHANGED <<table, issued, staged, call>>

\* The picture cannot be fetched, is none, or cannot be converted.
IngestNothing ==
    /\ ingest.pc \in {"url", "synthetic"}
    /\ ingest' = AfterFailure
    /\ UNCHANGED <<table, lastId, issued, objects, call, avatarLog>>

\* InsertCommittedAvatar, one statement; its answer may be lost.
InsertCommittedAvatar ==
    /\ ingest.pc \in {"urlRow", "syntheticRow"}
    /\ Insert(ingest.id, NoKey)
    /\ ingest' \in {[pc |-> "done", id |-> 0], AfterFailure}
    /\ UNCHANGED <<pending, lastId, issued, objects, call>>

InsertFails ==
    /\ ingest.pc \in {"urlRow", "syntheticRow"}
    /\ ingest' = AfterFailure
    /\ UNCHANGED <<table, lastId, issued, objects, call, avatarLog>>

\* The process stops, or three minutes are over.
IngestStops ==
    /\ ingest.pc # "done"
    /\ ingest' = [pc |-> "done", id |-> 0]
    /\ UNCHANGED <<table, lastId, issued, objects, call, avatarLog>>

-----------------------------------------------------------------------------
\* The client puts an object under a URL it was given, as often as it likes.
Upload(k) ==
    /\ k \in issued
    /\ staged' = staged \union {k}
    /\ UNCHANGED <<table, lastId, issued, assets, call, ingest, avatarLog>>

\* The lifecycle rule of the upload bucket.
Lifecycle(k) ==
    /\ k \in staged
    /\ staged' = staged \ {k}
    /\ UNCHANGED <<table, lastId, issued, assets, call, ingest, avatarLog>>

UserCall(c) ==
    \/ \E k \in Keys : PresignPut(c, k) \/ FindSession(c, k) \/ DeleteObject(c, k)
    \/ ReadStale(c) \/ DeleteStale(c) \/ CommitStart(c)
    \/ GetObject(c) \/ PutObject(c) \/ PutFails(c) \/ CommitComplete(c)
    \/ CleanedUp(c) \/ AvatarCallFails(c)

AvatarsNext ==
    \/ \E c \in Calls : UserCall(c)
    \/ IngestStores \/ IngestPutFails \/ IngestNothing
    \/ InsertCommittedAvatar \/ InsertFails \/ IngestStops
    \/ \E k \in Keys : Upload(k) \/ Lifecycle(k)

AvatarsSpec == AvatarsInit /\ [][AvatarsNext]_avatarVars

-----------------------------------------------------------------------------
(***************************************************************************)
(* What a user's upload sessions keep to, whatever starts, completions and *)
(* background deletions do at once.                                        *)
(***************************************************************************)
\* There are no more sessions in flight than calls that ran at once: what a
\* call started before is superseded by what it starts now.
SessionsBounded == Cardinality(pending) <= Cardinality(Calls)

\* A staging object is never deleted while its session's row is there to be
\* completed.
LiveSessionKeepsObject == KeysOf(pending) \cap avatarLog.dropped = {}

\* A session brings one avatar, unless two completions held it at once: none
\* checks in its transaction that the row it read is still there.
SessionUsedOnce ==
    \A a, b \in avatars :
        a.from = b.from /\ a.from \notin avatarLog.shared \union {NoKey} => a = b

(***************************************************************************)
(* The three of them (StartAvatarUpload, CompleteAvatarUpload,             *)
(* goDeleteStagingObjects).                                                *)
(***************************************************************************)
UploadSessionsHold == SessionsBounded /\ LiveSessionKeepsObject /\ SessionUsedOnce

\* Mutant of Displays: the order of the query is ascending.
DisplaysFirst(a) == a \in avatars /\ \A b \in avatars : a.id <= b.id

\* displayAvatar.
Displays(a) == a \in avatars /\ \A b \in avatars : b.id <= a.id

(***************************************************************************)
(* Every committed row names an object that is in the bucket, whatever     *)
(* failed before and whichever picture the ingest fell back to; and the    *)
(* avatar that is displayed is the one that was committed last, unless a   *)
(* write made its id while another one had no row yet (displayAvatar,      *)
(* PutObject and the row in CompleteAvatarUpload and the ingest).          *)
(***************************************************************************)
DisplayedAvatar ==
    /\ \A a \in avatars : a.id \in assets
    /\ ~avatarLog.mixed => \A a \in avatars : Displays(a) => a.id = avatarLog.latest

=============================================================================
