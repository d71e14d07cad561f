--------------------------- MODULE RefreshTokens ---------------------------
(***************************************************************************)
(* Refresh-token rotation (internal/authn/oidc/refresh.go) and consent     *)
(* revocation (consent.go) for the tokens of one user at one client.       *)
(* Postgres runs every transaction at READ COMMITTED: an UPDATE works on   *)
(* the rows committed when it starts, waits for rows another transaction   *)
(* has changed, and tests its WHERE clause again on what that committed.   *)
(***************************************************************************)
EXTENDS Naturals, FiniteSets

CONSTANTS
    Tokens,      \* rows of oidc_refresh_tokens (fresh uuids)
    Requests,    \* concurrent token-endpoint and RevokeConsent calls
    NoToken      \* SQL NULL

ASSUME NoTokenAssumption == NoToken \notin Tokens

VARIABLES
    row,       \* oidc_refresh_tokens, committed
    grant,     \* oidc_grants row of the pair: active (TRUE) or revoked
    known,     \* tokens some client holds: returned by a call that succeeded
    req,       \* each call: where it is and what it read
    quiet      \* families revoked by an UPDATE no rotation of theirs overlapped (history)

vars == <<row, grant, known, req, quiet>>

-----------------------------------------------------------------------------
MaybeToken == Tokens \union {NoToken}

Row == [exists: BOOLEAN, family: MaybeToken, parent: MaybeToken,
        used: BOOLEAN, revoked: BOOLEAN, expired: BOOLEAN]

Absent == [exists |-> FALSE, family |-> NoToken, parent |-> NoToken,
           used |-> FALSE, revoked |-> FALSE, expired |-> FALSE]

\* "resolved": the row was read valid; "claimed": the rotation transaction has
\* set used_at and holds the row; "inserted": it has also inserted the child;
\* "committed": the access token is still to be minted; "revoking": a family
\* revocation is due; "updating": that UPDATE runs on its snapshot; "consent"
\* and "sweeping" are the two statements of RevokeConsent.
Request == [pc: {"idle", "resolved", "claimed", "inserted", "committed",
                 "revoking", "updating", "consent", "sweeping"},
            token: MaybeToken, child: MaybeToken, family: MaybeToken,
            snapshot: SUBSET Tokens, alone: BOOLEAN]

Idle == [pc |-> "idle", token |-> NoToken, child |-> NoToken,
         family |-> NoToken, snapshot |-> {}, alone |-> FALSE]

TypeOK ==
    /\ row \in [Tokens -> Row]
    /\ grant \in BOOLEAN
    /\ known \subseteq Tokens
    /\ req \in [Requests -> Request]
    /\ quiet \subseteq Tokens

Init ==
    /\ row = [t \in Tokens |-> Absent]
    /\ grant = TRUE
    /\ known = {}
    /\ req = [q \in Requests |-> Idle]
    /\ quiet = {}

-----------------------------------------------------------------------------
Exists == {t \in Tokens : row[t].exists}

\* UsedAtIsNil, RevokedAtIsNil: the token can still be rotated.
Live(t) == row[t].exists /\ ~row[t].used /\ ~row[t].revoked

\* The row lock an open rotation transaction holds.
Locked(t) == \E q \in Requests :
    req[q].pc \in {"claimed", "inserted"} /\ req[q].token = t

\* Ids an open transaction has inserted but not committed.
Pending == {req[q].child : q \in {p \in Requests : req[p].pc = "inserted"}}

Fresh == Tokens \ (Exists \union Pending)

\* A rotation transaction of the family is open.
Rotating(f) == \E q \in Requests :
    req[q].pc \in {"claimed", "inserted"} /\ req[q].family = f

NewRow(family, parent) ==
    [exists |-> TRUE, family |-> family, parent |-> parent,
     used |-> FALSE, revoked |-> FALSE, expired |-> FALSE]

-----------------------------------------------------------------------------
\* issueRefreshToken with a nil family: a code or device redemption.
Issue(t) ==
    /\ t \in Fresh
    /\ row' = [row EXCEPT ![t] = NewRow(t, NoToken)]
    /\ known' = known \union {t}
    /\ UNCHANGED <<grant, req, quiet>>

\* expires_at passes.
Expire(t) ==
    /\ row[t].exists /\ ~row[t].expired
    /\ row' = [row EXCEPT ![t].expired = TRUE]
    /\ UNCHANGED <<grant, known, req, quiet>>

\* resolveRefreshToken: the row is read and valid.
Resolve(q, t) ==
    /\ req[q].pc = "idle"
    /\ t \in known
    /\ Live(t) /\ ~row[t].expired
    /\ req' = [req EXCEPT ![q] = [Idle EXCEPT !.pc = "resolved", !.token = t,
                                              !.family = row[t].family]]
    /\ UNCHANGED <<row, grant, known, quiet>>

\* resolveRefreshToken: a used or revoked token is reuse.
ResolveReused(q, t) ==
    /\ req[q].pc = "idle"
    /\ t \in known
    /\ row[t].used \/ row[t].revoked
    /\ req' = [req EXCEPT ![q] = [Idle EXCEPT !.pc = "revoking", !.token = t,
                                              !.family = row[t].family]]
    /\ UNCHANGED <<row, grant, known, quiet>>

\* RevokeToken: the token read live is to be revoked with its family.
RevokeToken(q) ==
    /\ req[q].pc = "resolved"
    /\ req' = [req EXCEPT ![q].pc = "revoking"]
    /\ UNCHANGED <<row, grant, known, quiet>>

\* AuthorizeUser or the scope check refuses, or a call fails before the
\* transaction: nothing is written.
Refuse(q) ==
    /\ req[q].pc = "resolved"
    /\ req' = [req EXCEPT ![q] = Idle]
    /\ UNCHANGED <<row, grant, known, quiet>>

\* q's transaction opens and holds its row; a family UPDATE under way is no
\* longer alone.
Claimed(q) == [p \in Requests |->
    IF p = q THEN [req[q] EXCEPT !.pc = "claimed"]
    ELSE [req[p] EXCEPT !.alone = @ /\ req[p].family # req[q].family]]

\* Mutants of Claim: the UPDATE without UsedAtIsNil, without RevokedAtIsNil,
\* and a SELECT then UPDATE that does not wait for the row lock.
ClaimUsed(q) ==
    /\ req[q].pc = "resolved"
    /\ ~Locked(req[q].token)
    /\ ~row[req[q].token].revoked
    /\ req' = Claimed(q)
    /\ UNCHANGED <<row, grant, known, quiet>>

ClaimRevoked(q) ==
    /\ req[q].pc = "resolved"
    /\ ~Locked(req[q].token)
    /\ ~row[req[q].token].used
    /\ req' = Claimed(q)
    /\ UNCHANGED <<row, grant, known, quiet>>

ClaimUnlocked(q) ==
    /\ req[q].pc = "resolved"
    /\ Live(req[q].token)
    /\ req' = Claimed(q)
    /\ UNCHANGED <<row, grant, known, quiet>>

\* The conditional UPDATE that claims the row, once no one else holds it.
Claim(q) ==
    /\ req[q].pc = "resolved"
    /\ ~Locked(req[q].token)
    /\ Live(req[q].token)
    /\ req' = Claimed(q)
    /\ UNCHANGED <<row, grant, known, quiet>>

\* claimed == 0: the token was rotated or revoked in between.
ClaimLost(q) ==
    /\ req[q].pc = "resolved"
    /\ ~Locked(req[q].token)
    /\ ~Live(req[q].token)
    /\ req' = [req EXCEPT ![q].pc = "revoking"]
    /\ UNCHANGED <<row, grant, known, quiet>>

\* Mutant of Insert: the caller does not get the new token.
InsertUnreturned(q, t) ==
    /\ req[q].pc = "claimed"
    /\ t \in Fresh
    /\ req' = [req EXCEPT ![q].pc = "inserted"]
    /\ UNCHANGED <<row, grant, known, quiet>>

\* issueRefreshToken inside the transaction.
Insert(q, t) ==
    /\ req[q].pc = "claimed"
    /\ t \in Fresh
    /\ req' = [req EXCEPT ![q].pc = "inserted", ![q].child = t]
    /\ UNCHANGED <<row, grant, known, quiet>>

\* The insert or the commit fails: the claim is undone with it.
Rollback(q) ==
    /\ req[q].pc \in {"claimed", "inserted"}
    /\ req' = [req EXCEPT ![q] = Idle]
    /\ UNCHANGED <<row, grant, known, quiet>>

Commit(q) ==
    /\ req[q].pc = "inserted"
    /\ row' = [row EXCEPT ![req[q].token].used = TRUE,
                          ![req[q].child] = NewRow(req[q].family, req[q].token)]
    /\ req' = [req EXCEPT ![q].pc = "committed"]
    /\ UNCHANGED <<grant, known, quiet>>

\* mintAccessToken, after the commit: only its success hands the child out.
Mint(q) ==
    /\ req[q].pc = "committed"
    /\ known' = known \union {req[q].child}
    /\ req' = [req EXCEPT ![q] = Idle]
    /\ UNCHANGED <<row, grant, quiet>>

MintFails(q) ==
    /\ req[q].pc = "committed"
    /\ req' = [req EXCEPT ![q] = Idle]
    /\ UNCHANGED <<row, grant, known, quiet>>

\* revokeRefreshFamily starts: its snapshot is what is committed now.
RevokeStart(q) ==
    /\ req[q].pc = "revoking"
    /\ req' = [req EXCEPT
                 ![q].pc = "updating",
                 ![q].snapshot = {t \in Exists : /\ row[t].family = req[q].family
                                                 /\ ~row[t].revoked},
                 ![q].alone = ~Rotating(req[q].family)]
    /\ UNCHANGED <<row, grant, known, quiet>>

Revoked(snapshot) ==
    [t \in Tokens |-> IF t \in snapshot THEN [row[t] EXCEPT !.revoked = TRUE] ELSE row[t]]

\* ... and ends once no row of the snapshot is held by a transaction.
RevokeFamily(q) ==
    /\ req[q].pc = "updating"
    /\ \A t \in req[q].snapshot : ~Locked(t)
    /\ row' = Revoked(req[q].snapshot)
    /\ quiet' = IF req[q].alone THEN quiet \union {req[q].family} ELSE quiet
    /\ req' = [req EXCEPT ![q] = Idle]
    /\ UNCHANGED <<grant, known>>

\* revokeRefreshFamily fails (the error is only logged), or RevokeConsent's
\* transaction is rolled back.
RevokeFails(q) ==
    /\ req[q].pc \in {"revoking", "updating", "consent", "sweeping"}
    /\ req' = [req EXCEPT ![q] = Idle]
    /\ UNCHANGED <<row, grant, known, quiet>>

\* RevokeConsent: the grant UPDATE (held until commit), then the token UPDATE.
ConsentStart(q) ==
    /\ req[q].pc = "idle"
    /\ \A p \in Requests : req[p].pc \notin {"consent", "sweeping"}
    /\ req' = [req EXCEPT ![q].pc = "consent"]
    /\ UNCHANGED <<row, grant, known, quiet>>

ConsentSweep(q) ==
    /\ req[q].pc = "consent"
    /\ req' = [req EXCEPT ![q].pc = "sweeping",
                          ![q].snapshot = {t \in Exists : ~row[t].revoked}]
    /\ UNCHANGED <<row, grant, known, quiet>>

RevokeConsent(q) ==
    /\ req[q].pc = "sweeping"
    /\ \A t \in req[q].snapshot : ~Locked(t)
    /\ row' = Revoked(req[q].snapshot)
    /\ grant' = FALSE
    /\ req' = [req EXCEPT ![q] = Idle]
    /\ UNCHANGED <<known, quiet>>

\* upsertGrant of a new consent clears revoked_at; it waits for the grant row.
Approve ==
    /\ ~grant
    /\ \A p \in Requests : req[p].pc \notin {"consent", "sweeping"}
    /\ grant' = TRUE
    /\ UNCHANGED <<row, known, req, quiet>>

Step(q) ==
    \/ \E t \in Tokens : Resolve(q, t) \/ ResolveReused(q, t) \/ Insert(q, t)
    \/ RevokeToken(q) \/ Refuse(q) \/ Claim(q) \/ ClaimLost(q) \/ Rollback(q) \/ Commit(q)
    \/ Mint(q) \/ MintFails(q)
    \/ RevokeStart(q) \/ RevokeFamily(q) \/ RevokeFails(q)
    \/ ConsentStart(q) \/ ConsentSweep(q) \/ RevokeConsent(q)

Next ==
    \/ \E t \in Tokens : Issue(t) \/ Expire(t)
    \/ Approve
    \/ \E q \in Requests : Step(q)

Spec == Init /\ [][Next]_vars

-----------------------------------------------------------------------------
\* However rotations, replays and revocations interleave, a family never has
\* two tokens that can still be rotated, so a stolen chain cannot run beside
\* the client's (the claim UPDATE and its row lock).
OneLiveTokenPerFamily ==
    \A t, u \in Tokens :
        (Live(t) /\ Live(u) /\ row[t].family = row[u].family) => t = u

\* No token is ever rotated twice: two concurrent refreshes of one token
\* leave one child.
OneChildPerToken ==
    \A t, u \in Exists :
        (row[t].parent = row[u].parent /\ row[t].parent # NoToken) => t = u

\* A family revoked by an UPDATE that overlaps no rotation of it stays dead:
\* calls that had resolved one of its tokens before lose the claim.
QuietRevocationHolds ==
    \A t \in Tokens : row[t].family \in quiet => ~Live(t)

\* A token revoked in the table is never rotated afterwards.
RevokedNeverRotates ==
    [][\A t \in Tokens :
         row[t].revoked =>
            {u \in Exists : row[u].parent = t}' = {u \in Exists : row[u].parent = t}]_vars

\* "revokes every live token in a rotation family" (revokeRefreshFamily), and
\* "all of the user's refresh-token families" (RevokeConsent): no token of a
\* family is live when the UPDATE that revokes the family has run.
RevokesEveryLiveToken ==
    [][\A q \in Requests :
         LET families == IF RevokeFamily(q) THEN {req[q].family}
                         ELSE {row[u].family : u \in req[q].snapshot}
         IN  RevokeFamily(q) \/ RevokeConsent(q) =>
                \A t \in Tokens : row'[t].family \in families => ~Live(t)']_vars

=============================================================================
