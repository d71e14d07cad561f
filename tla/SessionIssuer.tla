--------------------------- MODULE SessionIssuer ---------------------------
(***************************************************************************)
(* First-party sessions: internal/identity/issuer/issuer.go over the       *)
(* user_sessions table and the two cache keys of                           *)
(* internal/authn/kv/session_cache.go (selector -> id, id -> snapshot).    *)
(* Sessions share nothing, so the model follows one session and one valid  *)
(* wire token of it; each database or cache call of a request is a step.   *)
(*                                                                         *)
(* Every instant is the number of ticks left to it; 0 has passed.          *)
(***************************************************************************)
EXTENDS Naturals

CONSTANTS
    Requests,                    \* concurrent calls with the token
    defaultSessionLifetime, SessionAbsoluteLifetime, MaxSessionCacheTTL

ASSUME LifetimeAssumption ==
    /\ defaultSessionLifetime \in Nat \ {0}
    /\ SessionAbsoluteLifetime \in Nat \ {0}
    /\ MaxSessionCacheTTL \in Nat \ {0}
    /\ defaultSessionLifetime <= SessionAbsoluteLifetime

VARIABLES
    row,       \* the user_sessions row
    idKey,     \* muid:auth:session:id:<id>: the snapshot and its ttl (0: no key)
    selKey,    \* muid:auth:session:sel:<selector>: its ttl (0: no key)
    req        \* the calls

vars == <<row, idKey, selKey, req>>

-----------------------------------------------------------------------------
Session == [state: {"absent", "active", "revoked"},
            expires: 0..SessionAbsoluteLifetime,
            absolute: 0..SessionAbsoluteLifetime]

Snapshot == [ttl: 0..MaxSessionCacheTTL,
             expires: 0..SessionAbsoluteLifetime,
             absolute: 0..SessionAbsoluteLifetime]

NoSnapshot == [ttl |-> 0, expires |-> 0, absolute |-> 0]

\* expires, absolute: what the call has read, or what it is about to write.
\* ttl: what Set computed once for both keys.  late: the session was already
\* revoked when the call started (history).
Call == [pc: {"idle", "get", "getId", "cleanup", "db", "answer", "update",
              "setId", "setSel", "revoke", "delete", "deleteId", "deleteSel"},
         op: {"create", "resolve", "refresh", "extended", "revoke"},
         expires: 0..SessionAbsoluteLifetime,
         absolute: 0..SessionAbsoluteLifetime,
         ttl: 0..MaxSessionCacheTTL,
         late: BOOLEAN]

Idle == [pc |-> "idle", op |-> "resolve", expires |-> 0, absolute |-> 0,
         ttl |-> 0, late |-> FALSE]

TypeOK ==
    /\ row \in Session
    /\ idKey \in Snapshot
    /\ selKey \in 0..MaxSessionCacheTTL
    /\ req \in [Requests -> Call]

Init ==
    /\ row = [state |-> "absent", expires |-> 0, absolute |-> 0]
    /\ idKey = NoSnapshot
    /\ selKey = 0
    /\ req = [q \in Requests |-> Idle]

-----------------------------------------------------------------------------
Least(a, b) == IF a < b THEN a ELSE b

At(q, pc) == req[q].pc = pc

Goto(q, pc) == req' = [req EXCEPT ![q].pc = pc]

\* The call returns, whatever the answer.
Return(q) == req' = [req EXCEPT ![q] = Idle]

\* After the cache was populated: a lookup goes on, the others are done.
AfterSet(q) == IF req[q].op \in {"resolve", "refresh"} THEN Goto(q, "answer") ELSE Return(q)

-----------------------------------------------------------------------------
\* CreateSession: the insert.  The snapshot it caches has no AbsoluteExpiry.
\* (A failure after the insert leaves a row whose token nobody got.)
CreateSession(q) ==
    /\ At(q, "idle")
    /\ row.state = "absent"
    /\ row' = [state |-> "active", expires |-> defaultSessionLifetime,
               absolute |-> SessionAbsoluteLifetime]
    /\ req' = [req EXCEPT ![q] = [Idle EXCEPT !.pc = "setId", !.op = "create",
                                              !.expires = defaultSessionLifetime]]
    /\ UNCHANGED <<idKey, selKey>>

\* The client has the token once CreateSession has returned.
TokenIssued == row.state # "absent" /\ \A p \in Requests : req[p].op # "create"

\* ResolveSessionToken or RefreshSession enters lookupSession.
StartLookup(q, op) ==
    /\ At(q, "idle")
    /\ TokenIssued
    /\ req' = [req EXCEPT ![q] = [Idle EXCEPT !.pc = "get", !.op = op,
                                              !.late = row.state = "revoked"]]
    /\ UNCHANGED <<row, idKey, selKey>>

\* Get, first call.  A miss leaves an empty snapshot, whose zero validator hash
\* never matches the token: ErrSessionNotFound.
GetSelector(q) ==
    /\ At(q, "get")
    /\ IF selKey > 0 THEN Goto(q, "getId") ELSE Return(q)
    /\ UNCHANGED <<row, idKey, selKey>>

\* Get, second call; a selector without a snapshot is stale.
GetId(q) ==
    /\ At(q, "getId")
    /\ Goto(q, IF idKey.ttl > 0 THEN "db" ELSE "cleanup")
    /\ UNCHANGED <<row, idKey, selKey>>

CleanUp(q) ==
    /\ At(q, "cleanup")
    /\ selKey' \in {selKey, 0}
    /\ Return(q)
    /\ UNCHANGED <<row, idKey>>

\* Mutant of ReadDB: the query forgets revoked_at.
ReadDBRevoked(q) ==
    /\ At(q, "db")
    /\ req' = [req EXCEPT ![q] = [@ EXCEPT !.pc = "setId", !.expires = row.expires,
                                          !.absolute = row.absolute]]
    /\ UNCHANGED <<row, idKey, selKey>>

\* A cache hit reads the row; what was cached is not used.
ReadDB(q) ==
    /\ At(q, "db")
    /\ IF row.state = "active"
       THEN req' = [req EXCEPT ![q] = [@ EXCEPT !.pc = "setId", !.expires = row.expires,
                                                !.absolute = row.absolute]]
       ELSE Return(q)
    /\ UNCHANGED <<row, idKey, selKey>>

\* Mutants of sessionCacheTTL: only one of its two bounds.
sessionCacheTTLUncapped(expires) == expires

sessionCacheTTLMax(expires) == MaxSessionCacheTTL

sessionCacheTTL(expires) == Least(expires, MaxSessionCacheTTL)

\* Set: the snapshot under the id, for no longer than the session has left.
SetId(q) ==
    /\ At(q, "setId")
    /\ LET ttl == sessionCacheTTL(req[q].expires)
       IN  IF ttl = 0
           THEN AfterSet(q) /\ UNCHANGED idKey
           ELSE /\ idKey' = [ttl |-> ttl, expires |-> req[q].expires,
                             absolute |-> req[q].absolute]
                /\ req' = [req EXCEPT ![q] = [@ EXCEPT !.pc = "setSel", !.ttl = ttl]]
    /\ UNCHANGED <<row, selKey>>

\* Set, second call: the selector, with the same ttl.
SetSelector(q) ==
    /\ At(q, "setSel")
    /\ selKey' = req[q].ttl
    /\ AfterSet(q)
    /\ UNCHANGED <<row, idKey>>

\* A Set fails; the error is dropped and the call goes on.
SetFails(q) ==
    /\ req[q].pc \in {"setId", "setSel"}
    /\ AfterSet(q)
    /\ UNCHANGED <<row, idKey, selKey>>

\* ResolveSessionToken's answer: the session, ErrSessionExpired or
\* ErrSessionAbsoluteExpiry.
Resolved(q) ==
    /\ At(q, "answer") /\ req[q].op = "resolve"
    /\ req[q].expires > 0 /\ req[q].absolute > 0
    /\ Return(q)
    /\ UNCHANGED <<row, idKey, selKey>>

Expired(q) ==
    /\ At(q, "answer")
    /\ req[q].expires = 0 \/ req[q].absolute = 0
    /\ Return(q)
    /\ UNCHANGED <<row, idKey, selKey>>

\* Mutant of Extend: the clamp to the absolute expiry is forgotten.
ExtendUnclamped(q) ==
    /\ At(q, "answer") /\ req[q].op = "refresh"
    /\ req[q].expires > 0 /\ req[q].absolute > 0
    /\ req' = [req EXCEPT ![q] = [@ EXCEPT !.pc = "update",
                                           !.expires = defaultSessionLifetime]]
    /\ UNCHANGED <<row, idKey, selKey>>

\* RefreshSession: the new expiry, clamped ...
Extend(q) ==
    /\ At(q, "answer") /\ req[q].op = "refresh"
    /\ req[q].expires > 0 /\ req[q].absolute > 0
    /\ req' = [req EXCEPT
                 ![q] = [@ EXCEPT !.pc = "update",
                                  !.expires = Least(defaultSessionLifetime, req[q].absolute)]]
    /\ UNCHANGED <<row, idKey, selKey>>

\* ... written by id only, revoked or not, and then cached.
UpdateExpiry(q) ==
    /\ At(q, "update")
    /\ row' = [row EXCEPT !.expires = req[q].expires]
    /\ req' = [req EXCEPT ![q] = [@ EXCEPT !.pc = "setId", !.op = "extended"]]
    /\ UNCHANGED <<idKey, selKey>>

\* RevokeSessionToken: the row is read, and found if not revoked yet.
StartRevoke(q) ==
    /\ At(q, "idle")
    /\ TokenIssued /\ row.state = "active"
    /\ req' = [req EXCEPT ![q] = [Idle EXCEPT !.pc = "revoke", !.op = "revoke"]]
    /\ UNCHANGED <<row, idKey, selKey>>

RevokeRow(q) ==
    /\ At(q, "revoke")
    /\ row' = [row EXCEPT !.state = "revoked"]
    /\ Goto(q, "delete")
    /\ UNCHANGED <<idKey, selKey>>

\* Delete: the selector is read, then both keys go, one at a time.
DeleteStart(q) ==
    /\ At(q, "delete")
    /\ IF selKey > 0 THEN Goto(q, "deleteId") ELSE Return(q)
    /\ UNCHANGED <<row, idKey, selKey>>

DeleteId(q) ==
    /\ At(q, "deleteId")
    /\ idKey' \in {NoSnapshot, idKey}
    /\ Goto(q, "deleteSel")
    /\ UNCHANGED <<row, selKey>>

DeleteSelector(q) ==
    /\ At(q, "deleteSel")
    /\ selKey' = 0
    /\ Return(q)
    /\ UNCHANGED <<row, idKey>>

\* A call the request cannot do without fails, and so does the request (a
\* failed Get leaves a nil snapshot: the handler panics and is recovered).
CallFails(q) ==
    /\ req[q].pc \in {"get", "getId", "db", "update", "revoke", "delete", "deleteSel"}
    /\ Return(q)
    /\ UNCHANGED <<row, idKey, selKey>>

\* The backend drops a key before its time (eviction, restart).
Evict ==
    /\ idKey.ttl > 0 \/ selKey > 0
    /\ idKey' \in {idKey, NoSnapshot}
    /\ selKey' \in {selKey, 0}
    /\ UNCHANGED <<row, req>>

Minus1(n) == IF n = 0 THEN 0 ELSE n - 1

Tick ==
    /\ row' = [row EXCEPT !.expires = Minus1(@), !.absolute = Minus1(@)]
    /\ idKey' = IF idKey.ttl <= 1 THEN NoSnapshot
                ELSE [ttl |-> idKey.ttl - 1, expires |-> Minus1(idKey.expires),
                      absolute |-> Minus1(idKey.absolute)]
    /\ selKey' = Minus1(selKey)
    /\ req' = [q \in Requests |->
                 [req[q] EXCEPT !.expires = Minus1(@), !.absolute = Minus1(@)]]

Step(q) ==
    \/ CreateSession(q) \/ StartRevoke(q)
    \/ StartLookup(q, "resolve") \/ StartLookup(q, "refresh")
    \/ GetSelector(q) \/ GetId(q) \/ CleanUp(q) \/ ReadDB(q)
    \/ SetId(q) \/ SetSelector(q) \/ SetFails(q)
    \/ Resolved(q) \/ Expired(q) \/ Extend(q) \/ UpdateExpiry(q)
    \/ RevokeRow(q) \/ DeleteStart(q) \/ DeleteId(q) \/ DeleteSelector(q)
    \/ CallFails(q)

Next == (\E q \in Requests : Step(q)) \/ Evict \/ Tick

Spec == Init /\ [][Next]_vars

-----------------------------------------------------------------------------
\* A lookup that starts after the session was revoked never succeeds, however
\* refreshes and other lookups fill the cache behind the revocation.
RevokedNeverResolves ==
    [][\A q \in Requests : req[q].late => ~Resolved(q) /\ ~Extend(q)]_vars

\* No refresh, nor two at once, extends a session past its absolute expiry.
ExpiryWithinAbsolute == row.expires <= row.absolute

\* A cached snapshot is gone no later than the session it describes ("TTL
\* bounded by session expiry", internal/session/cache.go).
SnapshotWithinSession == idKey.ttl <= idKey.expires

\* lookupSession answers ErrSessionNotFound.
NotFound(q) == (GetSelector(q) \/ CleanUp(q) \/ ReadDB(q)) /\ At(q, "idle")'

\* "lookupSession resolves a session token from either the cache or the
\* database": a session that is live in the database is found, cached or not.
LiveSessionIsFound ==
    [][\A q \in Requests :
         (row.state = "active" /\ row.expires > 0) => ~NotFound(q)]_vars

=============================================================================
