------------------------- MODULE AuthorizationCode -------------------------
(***************************************************************************)
(* The authorization code grant of one OIDC client: Authorize,             *)
(* DecideConsent and upsertGrant (internal/authn/oidc/provider.go), the    *)
(* code exchange (exchange.go, tokens.go), RevokeConsent (consent.go) and  *)
(* the two stores of single-use keys (store/pending_store.go,              *)
(* code_store.go).  Each query and each key-value call is a step; a key    *)
(* may expire at any moment, which covers every timing.                    *)
(*                                                                         *)
(* The names of this module are its own, so that a module can extend it    *)
(* together with the other protocols of the authn process.                 *)
(***************************************************************************)
EXTENDS Naturals, FiniteSets

CONSTANTS
    CodeUsers,
    Scopes,
    Auths,      \* authorization requests: each has one pending id and one code
    CodeCalls,  \* concurrent calls
    Nobody

ASSUME NobodyAssumption == Nobody \notin CodeUsers

VARIABLES
    asked,     \* who asked for what in each authorization, Nobody: unused
    pending,   \* the authorizations with a key muid:oidc:authz:<id>
    code,      \* the authorizations with a key muid:oidc:code:<code>
    grants,    \* oidc_grants: the row of each user for the client
    family,    \* oidc_refresh_tokens: the family issued for an authorization
    codeCall,  \* the calls: where they are and what they read
    consent    \* history of each user's decisions, see Consent

stores == <<pending, code, family>>

codeVars == <<asked, pending, code, grants, family, codeCall, consent>>

-----------------------------------------------------------------------------
Authorization == [user: CodeUsers \union {Nobody}, scopes: SUBSET Scopes]

Grant == [state: {"absent", "active", "revoked"}, scopes: SUBSET Scopes]

\* minted: how often tokens were minted; state: the first refresh token's.
Family == [minted: 0..1, state: {"none", "live", "revoked"}]

Auth == Auths \union {Nobody}

\* pc is the next query or key-value call; merged: the scopes upsertGrant
\* writes; by: the user of the session.
CodeCall == [pc: {"idle", "hasConsent", "createPending", "claimPending", "readGrant",
              "createGrant", "updateGrant", "createCode", "claimCode", "mint", "refresh"},
         auth: Auth, by: CodeUsers \union {Nobody}, merged: SUBSET Scopes]

CallIdle == [pc |-> "idle", auth |-> Nobody, by |-> Nobody, merged |-> {}]

\* since: what the user's decisions on authorizations of their own, applied one
\* after the other, add up to since the last revocation; serial: no write of
\* the user's grant came between another one's read and write since the last
\* revocation that did not; cut: the authorizations that were over (no key, no
\* call) when the consent was last revoked.
Consent == [since: SUBSET Scopes, serial: BOOLEAN, cut: SUBSET Auths]

CodeTypeOK ==
    /\ asked \in [Auths -> Authorization]
    /\ pending \subseteq Auths
    /\ code \subseteq Auths
    /\ grants \in [CodeUsers -> Grant]
    /\ family \in [Auths -> Family]
    /\ codeCall \in [CodeCalls -> CodeCall]
    /\ consent \in [CodeUsers -> Consent]

CodeInit ==
    /\ asked = [a \in Auths |-> [user |-> Nobody, scopes |-> {}]]
    /\ pending = {}
    /\ code = {}
    /\ grants = [u \in CodeUsers |-> [state |-> "absent", scopes |-> {}]]
    /\ family = [a \in Auths |-> [minted |-> 0, state |-> "none"]]
    /\ codeCall = [c \in CodeCalls |-> CallIdle]
    /\ consent = [u \in CodeUsers |-> [since |-> {}, serial |-> TRUE, cut |-> {}]]

-----------------------------------------------------------------------------
CodeGoto(c, pc) == codeCall' = [codeCall EXCEPT ![c].pc = pc]

CodeReturn(c) == codeCall' = [codeCall EXCEPT ![c] = CallIdle]

Granted(u) == IF grants[u].state = "active" THEN grants[u].scopes ELSE {}

\* The calls that are between the read and the write of the grant of u.
Upserting(u) ==
    {c \in CodeCalls : codeCall[c].by = u /\ codeCall[c].pc \in {"createGrant", "updateGrant"}}

\* The authorizations of u that no key and no call can continue.
Over(u) ==
    {a \in Auths : /\ asked[a].user = u
                   /\ a \notin pending \union code
                   /\ \A c \in CodeCalls : codeCall[c].auth # a}

-----------------------------------------------------------------------------
\* Authorize: the request and the client are valid and the policy admits the
\* user (otherwise nothing changes).
Authorize(c, u, a, scopes) ==
    /\ codeCall[c].pc = "idle"
    /\ asked[a].user = Nobody
    /\ asked' = [asked EXCEPT ![a] = [user |-> u, scopes |-> scopes]]
    /\ codeCall' = [codeCall EXCEPT ![c] =
                      [CallIdle EXCEPT !.pc = "hasConsent", !.auth = a, !.by = u]]
    /\ UNCHANGED <<stores, grants, consent>>

\* hasConsent: a code at once, or (prompt=consent, or not covered) the consent
\* screen, which prompt=none refuses.
hasConsent(c) ==
    LET u == codeCall[c].by
    IN  /\ codeCall[c].pc = "hasConsent"
        /\ \/ asked[codeCall[c].auth].scopes \subseteq Granted(u) /\ CodeGoto(c, "createCode")
           \/ CodeGoto(c, "createPending")
           \/ CodeReturn(c)
        /\ UNCHANGED <<asked, stores, grants, consent>>

\* requireConsent: pendings.Create, SetNX of a fresh id.
requireConsent(c) ==
    /\ codeCall[c].pc = "createPending"
    /\ pending' = pending \union {codeCall[c].auth}
    /\ CodeReturn(c)
    /\ UNCHANGED <<asked, code, grants, family, consent>>

\* DecideConsent of whatever session: pendings.Consume reads the key ...
DecideConsent(c, u, a) ==
    /\ codeCall[c].pc = "idle"
    /\ a \in pending
    /\ codeCall' = [codeCall EXCEPT ![c] =
                      [CallIdle EXCEPT !.pc = "claimPending", !.auth = a, !.by = u]]
    /\ UNCHANGED <<asked, stores, grants, consent>>

\* Mutant of MayDecide: the decision is not checked against the pending user.
MayDecideAnyone(c) == codeCall[c].by # Nobody

MayDecide(c) == asked[codeCall[c].auth].user = codeCall[c].by

\* ... and deletes it by its value: of two decisions one finds it gone.  A
\* wrong user, a denial and a client or policy that refuses meanwhile end here.
ClaimPending(c) ==
    LET a == codeCall[c].auth
    IN  /\ codeCall[c].pc = "claimPending"
        /\ pending' = pending \ {a}
        /\ \/ CodeReturn(c)
           \/ a \in pending /\ MayDecide(c) /\ CodeGoto(c, "readGrant")
        /\ UNCHANGED <<asked, code, grants, family, consent>>

-----------------------------------------------------------------------------
\* Mutant of Merged: the scopes of a revoked grant are kept.
MergedRevoked(u, scopes) == grants[u].scopes \union scopes

\* A revoked grant starts over from what is approved now.
Merged(u, scopes) == Granted(u) \union scopes

\* upsertGrant reads the row and merges in memory ...
readGrant(c) ==
    LET u == codeCall[c].by
    IN  /\ codeCall[c].pc = "readGrant"
        /\ codeCall' = [codeCall EXCEPT ![c] =
              [@ EXCEPT !.pc = IF grants[u].state = "absent" THEN "createGrant" ELSE "updateGrant",
                        !.merged = Merged(u, asked[codeCall[c].auth].scopes)]]
        /\ UNCHANGED <<asked, stores, grants, consent>>

\* ... and creates it (one row per user and client) or updates it by id.
writeGrant(c) ==
    LET u == codeCall[c].by
        a == codeCall[c].auth
    IN  /\ \/ codeCall[c].pc = "createGrant" /\ grants[u].state = "absent"
           \/ codeCall[c].pc = "updateGrant"
        /\ grants' = [grants EXCEPT ![u] = [state |-> "active", scopes |-> codeCall[c].merged]]
        /\ consent' = [consent EXCEPT
              ![u].since = @ \union (IF asked[a].user = u THEN asked[a].scopes ELSE {}),
              ![u].serial = @ /\ Upserting(u) = {c}]
        /\ CodeGoto(c, "createCode")
        /\ UNCHANGED <<asked, stores>>

\* codes.Create.
createCode(c) ==
    /\ codeCall[c].pc = "createCode"
    /\ code' = code \union {codeCall[c].auth}
    /\ CodeReturn(c)
    /\ UNCHANGED <<asked, pending, grants, family, consent>>

\* exchangeAuthorizationCode: codes.Consume reads the key ...
Exchange(c, a) ==
    /\ codeCall[c].pc = "idle"
    /\ a \in code
    /\ codeCall' = [codeCall EXCEPT ![c] = [CallIdle EXCEPT !.pc = "claimCode", !.auth = a]]
    /\ UNCHANGED <<asked, stores, grants, consent>>

\* Mutant of Consumed: Consume deletes the key without comparing it.
ConsumedAnyway(a) == TRUE

Consumed(a) == a \in code

\* ... and deletes it by its value, before the client, the redirect URI and the
\* code verifier are checked.
ClaimCode(c) ==
    LET a == codeCall[c].auth
    IN  /\ codeCall[c].pc = "claimCode"
        /\ code' = code \ {a}
        /\ CodeReturn(c) \/ (Consumed(a) /\ CodeGoto(c, "mint"))
        /\ UNCHANGED <<asked, pending, grants, family, consent>>

\* mintTokens: the access and ID tokens, then the refresh token if the client
\* has that grant.
mintTokens(c) ==
    LET a == codeCall[c].auth
    IN  /\ codeCall[c].pc = "mint"
        /\ family[a].minted < 2
        /\ family' = [family EXCEPT ![a].minted = @ + 1]
        /\ CodeGoto(c, "refresh") \/ CodeReturn(c)
        /\ UNCHANGED <<asked, pending, code, grants, consent>>

issueRefreshToken(c) ==
    /\ codeCall[c].pc = "refresh"
    /\ family' = [family EXCEPT ![codeCall[c].auth].state = "live"]
    /\ CodeReturn(c)
    /\ UNCHANGED <<asked, pending, code, grants, consent>>

\* The database, the key-value store or the signer fails: the call ends and
\* what it claimed or wrote so far stays.
CodeCallFails(c) ==
    /\ codeCall[c].pc # "idle"
    /\ CodeReturn(c)
    /\ UNCHANGED <<asked, stores, grants, consent>>

-----------------------------------------------------------------------------
\* Mutant of FamiliesRevoked: the refresh tokens are forgotten.
FamiliesRevokedNot(u) == family

FamiliesRevoked(u) ==
    [a \in Auths |-> IF asked[a].user = u /\ family[a].state = "live"
                     THEN [family[a] EXCEPT !.state = "revoked"] ELSE family[a]]

\* RevokeConsent: one transaction over the grant and the refresh tokens.
WithdrawConsent(u) ==
    /\ grants' = [grants EXCEPT ![u].state = IF @ = "active" THEN "revoked" ELSE @]
    /\ family' = FamiliesRevoked(u)
    /\ consent' = [consent EXCEPT ![u] =
          [@ EXCEPT !.since = {}, !.serial = Upserting(u) = {}, !.cut = Over(u)]]
    /\ UNCHANGED <<asked, pending, code, codeCall>>

\* pendingTTL and codeTTL.
KeyExpires(a) ==
    /\ a \in pending \union code
    /\ pending' = pending \ {a}
    /\ code' = code \ {a}
    /\ UNCHANGED <<asked, grants, family, codeCall, consent>>

CodeStep(c) ==
    \/ hasConsent(c) \/ requireConsent(c) \/ ClaimPending(c)
    \/ readGrant(c) \/ writeGrant(c) \/ createCode(c)
    \/ ClaimCode(c) \/ mintTokens(c) \/ issueRefreshToken(c)
    \/ CodeCallFails(c)

CodeNext ==
    \/ \E c \in CodeCalls :
          \/ \E a \in Auths, u \in CodeUsers :
                \/ \E s \in SUBSET Scopes \ {{}} : Authorize(c, u, a, s)
                \/ DecideConsent(c, u, a)
          \/ \E a \in Auths : Exchange(c, a)
          \/ CodeStep(c)
    \/ \E u \in CodeUsers : WithdrawConsent(u)
    \/ \E a \in Auths : KeyExpires(a)

CodeSpec == CodeInit /\ [][CodeNext]_codeVars

-----------------------------------------------------------------------------
CallsAt(a, pcs) == {c \in CodeCalls : codeCall[c].auth = a /\ codeCall[c].pc \in pcs}

\* Where an authorization is, from the keys and the calls alone.
Stage(a) ==
    IF CallsAt(a, {"mint"}) # {} THEN "claimed"
    ELSE IF family[a].minted > 0 THEN "paid"
    ELSE IF a \in code THEN "coded"
    ELSE IF CallsAt(a, {"readGrant", "createGrant", "updateGrant", "createCode"}) # {}
         THEN "allowed"
    ELSE IF a \in pending THEN "asked"
    ELSE IF asked[a].user = Nobody \/ CallsAt(a, {"hasConsent", "createPending"}) # {}
         THEN "none"
    ELSE "closed"

Lifecycle == INSTANCE CodeLifecycle WITH
    stage   <- [a \in Auths |-> Stage(a)],
    payouts <- [a \in Auths |-> family[a].minted]

\* Two decisions on one consent screen, two exchanges of one code and an
\* expiry in between: an authorization is decided once, its code is claimed
\* once ("concurrent consumers see ErrNotFound") and tokens are minted once.
CodeLifecycleHolds == Lifecycle!Spec

\* A family that was over when its user revoked the consent, no key and no call
\* left of its authorization, is not live again.
RevocationReachesFamilies ==
    \A u \in CodeUsers : \A a \in consent[u].cut : family[a].state # "live"

\* As long as no write of the grant came between another one's read and write
\* (upsertGrant merges in memory), the active scopes are what the user, and
\* nobody else, approved since the last revocation: no scope of a revoked grant
\* comes back, none is lost, none is from an authorization of another user.
GrantFollowsDecisions ==
    \A u \in CodeUsers : consent[u].serial => Granted(u) = consent[u].since

=============================================================================
