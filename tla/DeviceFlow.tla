----------------------------- MODULE DeviceFlow -----------------------------
(***************************************************************************)
(* The device authorization grant: internal/authn/oidc/device.go over the  *)
(* key-value records of internal/authn/oidc/store/device_store.go.  Every  *)
(* key-value call of a request is a step of its own; a key with a lifetime *)
(* may go at any moment (Expire), which covers every timing.               *)
(***************************************************************************)
EXTENDS Naturals, FiniteSets

CONSTANTS
    Codes,       \* device codes, fresh random tokens
    UserCodes,   \* what users type, unique among the live keys
    Users,
    Clients,
    Requests,    \* concurrent calls
    MaxMints,    \* bound: no poll of a code starts once it minted so often
    None

ASSUME NoneAssumption == None \notin Codes \union UserCodes \union Users \union Clients

ASSUME BoundAssumption == MaxMints \in Nat /\ IsFiniteSet(Requests)

VARIABLES
    device,     \* muid:oidc:device:<code>: the record
    userCode,   \* muid:oidc:device:user_code:<user code>: the device code
    throttle,   \* muid:oidc:device:poll:<code>: the codes polled within the interval
    grant,      \* oidc_grants: the users who consented to each client
    req,        \* the calls: where they are and what they read
    log         \* history of each code, see Log

vars == <<device, userCode, throttle, grant, req, log>>

-----------------------------------------------------------------------------
Record == [client: Clients, userCode: UserCodes,
           status: {"pending", "approved", "denied"}, user: Users \union {None}]

MaybeRecord == Record \union {[client |-> None]}

NoRecord == [client |-> None]

Call == [pc: {"idle", "setDevice", "getUser", "getDevice", "authorize", "upsert", "ttl",
              "set", "consume", "compare", "cleanup", "drop", "recheck", "mint"},
         code: Codes \union {None}, userCode: UserCodes \union {None},
         by: Users \union Clients \union {None}, approve: BOOLEAN, record: MaybeRecord]

Idle == [pc |-> "idle", code |-> None, userCode |-> None, by |-> None,
         approve |-> FALSE, record |-> NoRecord]

\* client: who started the code (None: unused).  approvers: the users whose
\* approval passed the access policy; withdrawn: those who revoked their
\* consent since.  denied: some decision denied it.
\* contended: two decisions on it overlapped.  minted: how often tokens were
\* minted; to: for whom.
Log == [client: Clients \union {None}, approvers: SUBSET Users,
        withdrawn: SUBSET Users, denied: BOOLEAN, contended: BOOLEAN,
        minted: 0..(MaxMints + Cardinality(Requests)),
        to: SUBSET (Users \X Clients)]

TypeOK ==
    /\ device \in [Codes -> MaybeRecord]
    /\ userCode \in [UserCodes -> Codes \union {None}]
    /\ throttle \subseteq Codes
    /\ grant \subseteq Users \X Clients
    /\ req \in [Requests -> Call]
    /\ log \in [Codes -> Log]

Init ==
    /\ device = [c \in Codes |-> NoRecord]
    /\ userCode = [u \in UserCodes |-> None]
    /\ throttle = {}
    /\ grant = {}
    /\ req = [q \in Requests |-> Idle]
    /\ log = [c \in Codes |-> [client |-> None, approvers |-> {}, withdrawn |-> {},
                               denied |-> FALSE, contended |-> FALSE, minted |-> 0, to |-> {}]]

-----------------------------------------------------------------------------
At(q, pc) == req[q].pc = pc

Goto(q, pc) == req' = [req EXCEPT ![q].pc = pc]

Return(q) == req' = [req EXCEPT ![q] = Idle]

\* The other decisions on c that have read its record and not written it yet.
Deciding(c, q) ==
    {p \in Requests \ {q} : req[p].code = c /\ req[p].pc \in {"authorize", "upsert", "ttl", "set"}}

-----------------------------------------------------------------------------
\* StartDeviceAuthorization, Create: a user code that is free (the loop retries
\* a taken one) is reserved for a fresh device code.
StartDeviceAuthorization(q, client, c, u) ==
    /\ At(q, "idle")
    /\ log[c].client = None
    /\ userCode[u] = None
    /\ userCode' = [userCode EXCEPT ![u] = c]
    /\ log' = [log EXCEPT ![c].client = client]
    /\ req' = [req EXCEPT ![q] = [Idle EXCEPT !.pc = "setDevice", !.code = c, !.userCode = u]]
    /\ UNCHANGED <<device, throttle, grant>>

\* Create: the record; the client learns the codes when it is stored.
CreateRecord(q) ==
    LET c == req[q].code IN
    /\ At(q, "setDevice")
    /\ device' = [device EXCEPT ![c] =
                    [client |-> log[c].client, userCode |-> req[q].userCode,
                     status |-> "pending", user |-> None]]
    /\ Return(q)
    /\ UNCHANGED <<userCode, throttle, grant, log>>

\* DecideDeviceAuthorization enters with the code a user typed.
StartDecision(q, user, u, approve) ==
    /\ At(q, "idle")
    /\ req' = [req EXCEPT ![q] = [Idle EXCEPT !.pc = "getUser", !.by = user, !.userCode = u,
                                              !.approve = approve]]
    /\ UNCHANGED <<device, userCode, throttle, grant, log>>

\* GetByUserCode, first call.
GetUserCode(q) ==
    LET c == userCode[req[q].userCode] IN
    /\ At(q, "getUser")
    /\ IF c = None THEN Return(q)
       ELSE req' = [req EXCEPT ![q] = [@ EXCEPT !.pc = "getDevice", !.code = c]]
    /\ UNCHANGED <<device, userCode, throttle, grant, log>>

\* Mutant of DecideRecord: a decided record may be decided again.
DecideRecordAgain(q) ==
    LET c == req[q].code IN
    /\ At(q, "getDevice")
    /\ IF device[c] = NoRecord
       THEN Return(q) /\ UNCHANGED log
       ELSE /\ req' = [req EXCEPT ![q] =
                         [@ EXCEPT !.pc = IF req[q].approve THEN "authorize" ELSE "ttl",
                                   !.record = IF req[q].approve THEN device[c]
                                              ELSE [device[c] EXCEPT !.status = "denied"]]]
            /\ log' = [log EXCEPT ![c].contended = @ \/ Deciding(c, q) # {}]
    /\ UNCHANGED <<device, userCode, throttle, grant>>

\* GetByUserCode, second call, and the status check.
DecideRecord(q) ==
    LET c == req[q].code IN
    /\ At(q, "getDevice")
    /\ IF device[c] = NoRecord \/ device[c].status # "pending"
       THEN Return(q) /\ UNCHANGED log
       ELSE /\ req' = [req EXCEPT ![q] =
                         [@ EXCEPT !.pc = IF req[q].approve THEN "authorize" ELSE "ttl",
                                   !.record = IF req[q].approve THEN device[c]
                                              ELSE [device[c] EXCEPT !.status = "denied"]]]
            /\ log' = [log EXCEPT ![c].contended = @ \/ Deciding(c, q) # {}]
    /\ UNCHANGED <<device, userCode, throttle, grant>>

\* AuthorizeUser in the decision: allowed, refused by the access policy (the
\* record is then denied), or the client is gone and the call fails.
DecideAccess(q) ==
    /\ At(q, "authorize")
    /\ \/ /\ req' = [req EXCEPT ![q] = [@ EXCEPT !.pc = "upsert", !.record.status = "approved",
                                                 !.record.user = req[q].by]]
          /\ log' = [log EXCEPT ![req[q].code].approvers = @ \union {req[q].by}]
       \/ /\ req' = [req EXCEPT ![q] = [@ EXCEPT !.pc = "ttl", !.record.status = "denied"]]
          /\ UNCHANGED log
    /\ UNCHANGED <<device, userCode, throttle, grant>>

\* Mutant of UpsertGrant: its error is ignored.
UpsertGrantUnchecked(q) ==
    /\ At(q, "upsert")
    /\ grant' \in {grant, grant \union {<<req[q].by, req[q].record.client>>}}
    /\ Goto(q, "ttl")
    /\ UNCHANGED <<device, userCode, throttle, log>>

\* upsertGrant; which scopes are granted is left out.
UpsertGrant(q) ==
    /\ At(q, "upsert")
    /\ grant' = grant \union {<<req[q].by, req[q].record.client>>}
    /\ Goto(q, "ttl")
    /\ UNCHANGED <<device, userCode, throttle, log>>

\* Update, first call: a record that is gone is not written.
UpdateTTL(q) ==
    /\ At(q, "ttl")
    /\ IF device[req[q].code] = NoRecord THEN Return(q) ELSE Goto(q, "set")
    /\ UNCHANGED <<device, userCode, throttle, grant, log>>

\* Update, second call: the key is set whatever is there by now.
UpdateSet(q) ==
    LET c == req[q].code IN
    /\ At(q, "set")
    /\ device' = [device EXCEPT ![c] = req[q].record]
    /\ log' = [log EXCEPT ![c].denied = @ \/ req[q].record.status = "denied"]
    /\ Return(q)
    /\ UNCHANGED <<userCode, throttle, grant>>

-----------------------------------------------------------------------------
\* redeemDeviceCode enters; AllowPoll turns away a poll within the interval.
RedeemDeviceCode(q, client, c) ==
    /\ At(q, "idle")
    /\ log[c].client # None
    /\ \A p \in Requests : ~(At(p, "setDevice") /\ req[p].code = c)
    /\ log[c].minted < MaxMints
    /\ c \notin throttle
    /\ throttle' = throttle \union {c}
    /\ req' = [req EXCEPT ![q] = [Idle EXCEPT !.pc = "consume", !.code = c, !.by = client]]
    /\ UNCHANGED <<device, userCode, grant, log>>

\* Mutant of ConsumeRead: the status is not looked at.
ConsumeAny(q) ==
    LET c == req[q].code IN
    /\ At(q, "consume")
    /\ IF device[c] = NoRecord
       THEN Return(q)
       ELSE req' = [req EXCEPT ![q] = [@ EXCEPT !.pc = "compare", !.record = device[c]]]
    /\ UNCHANGED <<device, userCode, throttle, grant, log>>

\* ConsumeApproved reads the record.  A pending one stays; a denied one is
\* deleted by the poll that reports it.
ConsumeRead(q) ==
    LET c == req[q].code IN
    /\ At(q, "consume")
    /\ IF device[c] = NoRecord \/ device[c].status = "pending"
       THEN Return(q)
       ELSE req' = [req EXCEPT ![q] =
                      [@ EXCEPT !.pc = IF device[c].status = "approved" THEN "compare" ELSE "cleanup",
                                !.record = device[c]]]
    /\ UNCHANGED <<device, userCode, throttle, grant, log>>

\* Mutant of ConsumeClaim: a plain delete instead of CompareAndDelete.
ConsumeClaimDeleted(q) ==
    LET c == req[q].code IN
    /\ At(q, "compare")
    /\ device' = [device EXCEPT ![c] = NoRecord]
    /\ Goto(q, "cleanup")
    /\ UNCHANGED <<userCode, throttle, grant, log>>

\* CompareAndDelete: the record is claimed if it still is what was read.
ConsumeClaim(q) ==
    LET c == req[q].code IN
    /\ At(q, "compare")
    /\ IF device[c] = req[q].record
       THEN device' = [device EXCEPT ![c] = NoRecord] /\ Goto(q, "cleanup")
       ELSE Return(q) /\ UNCHANGED device
    /\ UNCHANGED <<userCode, throttle, grant, log>>

\* The user-code key goes, whichever device code it names by now; its error is
\* ignored.
DeleteUserCode(q) ==
    /\ At(q, "cleanup")
    /\ userCode' \in {userCode, [userCode EXCEPT ![req[q].record.userCode] = None]}
    /\ Goto(q, IF req[q].record.status = "denied" THEN "drop" ELSE "recheck")
    /\ UNCHANGED <<device, throttle, grant, log>>

\* Delete, after a denial.
DeleteDenied(q) ==
    /\ At(q, "drop")
    /\ device' = [device EXCEPT ![req[q].code] = NoRecord]
    /\ Return(q)
    /\ UNCHANGED <<userCode, throttle, grant, log>>

\* The code must be the polling client's own; AuthorizeUser is asked again (a
\* refusal is CallFails).
RedeemRecheck(q) ==
    /\ At(q, "recheck")
    /\ IF req[q].record.client = req[q].by THEN Goto(q, "mint") ELSE Return(q)
    /\ UNCHANGED <<device, userCode, throttle, grant, log>>

MintTokens(q) ==
    /\ At(q, "mint")
    /\ log' = [log EXCEPT ![req[q].code].minted = @ + 1,
                          ![req[q].code].to = @ \union {<<req[q].record.user, req[q].by>>}]
    /\ Return(q)
    /\ UNCHANGED <<device, userCode, throttle, grant>>

\* A key-value, database or policy call fails, or the process dies: the call
\* ends where it is.  A write whose answer is lost is the write and then this.
CallFails(q) ==
    /\ ~At(q, "idle")
    /\ Return(q)
    /\ UNCHANGED <<device, userCode, throttle, grant, log>>

\* RevokeConsent: the transaction that revokes the grant.  The device records
\* are left alone: the polls of an approved code do not look at the grant.
RevokeConsent(v, k) ==
    /\ <<v, k>> \in grant
    /\ grant' = grant \ {<<v, k>>}
    /\ log' = [c \in Codes |->
                 IF log[c].client = k /\ v \in log[c].approvers
                 THEN [log[c] EXCEPT !.withdrawn = @ \union {v}] ELSE log[c]]
    /\ UNCHANGED <<device, userCode, throttle, req>>

\* A key reaches the end of its lifetime.
Expire ==
    /\ \/ \E c \in Codes : /\ device[c] # NoRecord
                           /\ device' = [device EXCEPT ![c] = NoRecord]
                           /\ UNCHANGED <<userCode, throttle>>
       \/ \E u \in UserCodes : /\ userCode[u] # None
                               /\ userCode' = [userCode EXCEPT ![u] = None]
                               /\ UNCHANGED <<device, throttle>>
       \/ \E c \in throttle : throttle' = throttle \ {c} /\ UNCHANGED <<device, userCode>>
    /\ UNCHANGED <<grant, req, log>>

Decide(q) ==
    \/ GetUserCode(q) \/ DecideRecord(q) \/ DecideAccess(q) \/ UpsertGrant(q)
    \/ UpdateTTL(q) \/ UpdateSet(q)

Redeem(q) ==
    \/ ConsumeRead(q) \/ ConsumeClaim(q) \/ DeleteUserCode(q) \/ DeleteDenied(q)
    \/ RedeemRecheck(q) \/ MintTokens(q)

Next ==
    \/ \E q \in Requests :
          \/ \E k \in Clients, c \in Codes, u \in UserCodes : StartDeviceAuthorization(q, k, c, u)
          \/ CreateRecord(q)
          \/ \E v \in Users, u \in UserCodes, approve \in BOOLEAN : StartDecision(q, v, u, approve)
          \/ Decide(q)
          \/ \E k \in Clients, c \in Codes : RedeemDeviceCode(q, k, c)
          \/ Redeem(q)
          \/ CallFails(q)
    \/ \E v \in Users, k \in Clients : RevokeConsent(v, k)
    \/ Expire

Spec == Init /\ [][Next]_vars

-----------------------------------------------------------------------------
\* "concurrent polls cannot both mint tokens" (ConsumeApproved): however polls
\* race, and whatever expires, a code mints tokens once unless two decisions
\* on it overlapped (then the later write of the record revives a code that a
\* poll has consumed).
MintsOnce == \A c \in Codes : ~log[c].contended => log[c].minted <= 1

\* Tokens follow an approval: they are minted for the client that started the
\* code and for a user who approved that very code, and whose consent was
\* stored then and still is unless the user has revoked it since, overlaps or
\* not; and a denial is final: a code whose decisions never overlapped and one
\* of which denied it, by the user or by the access policy, never mints tokens.
MintsFollowApproval ==
    \A c \in Codes :
        /\ \A v \in Users, k \in Clients : <<v, k>> \in log[c].to =>
              /\ v \in log[c].approvers
              /\ k = log[c].client
              /\ <<v, k>> \in grant \/ v \in log[c].withdrawn
        /\ ~log[c].contended /\ log[c].denied => log[c].minted = 0

=============================================================================
