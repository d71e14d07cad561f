---------------------------- MODULE SigningKeys ----------------------------
(***************************************************************************)
(* The signing keys: the manager of internal/signature/manager.go, with    *)
(* its in-memory keys over the versions of one secret, and the verifier of *)
(* the gateways (pkg/gateway/jwtauth), with its cached key set and the one *)
(* fetch that concurrent requests share.  Every section under the mutex    *)
(* and every call of the secret store is a step.                           *)
(*                                                                         *)
(* A key id stands for its version (keyID is injective), so the two maps   *)
(* of the manager, which are always written together, are one set.         *)
(***************************************************************************)
EXTENDS Naturals, FiniteSets

CONSTANTS
    Managers,
    Followers,            \* managers with cfg.ReadOnly
    KeyCalls,             \* concurrent calls of managers
    Checks,               \* requests a gateway verifies at once
    PreviousGenerations,
    MaxVersion            \* bound: how many versions the secret gets

ASSUME KeysAssumption ==
    /\ Managers # {}
    /\ Followers \subseteq Managers
    /\ PreviousGenerations \in Nat \ {0}
    /\ MaxVersion \in Nat

VARIABLES
    newest,     \* the secret store: versions 1..newest ...
    disabled,   \* ... of which these cannot be read
    cached,     \* cacheByVersion and versionByKeyID of each manager
    current,    \* currentVersion of each manager, 0: none
    keyCall,    \* the calls: where they are and what they hold
    jwks,       \* the gateway's cache, its age and its fetch in flight
    check,      \* the requests the gateway verifies
    keyLog      \* history of each manager, see KeyLog

keyVars == <<newest, disabled, cached, current, keyCall, jwks, check, keyLog>>

store == <<newest, disabled>>

gateway == <<jwks, check>>

-----------------------------------------------------------------------------
Versions == 1..MaxVersion

MaybeVersion == 0..MaxVersion

\* pc: "current" to "set" are currentKey; "load" to "keep" loadVersion; "next"
\* the loop of keySet over left.  kid: the key id asked for; v: the version in
\* hand; keys: collected so far.
KeyCall == [pc: {"idle", "current", "latest", "install", "cache", "set", "next", "load",
                 "fetch", "keep", "lookup", "disable", "forget", "add"},
            op: {"sign", "verify", "keys", "rotate", "refresh", "revoke"},
            m: Managers, kid: MaybeVersion, v: MaybeVersion,
            keys: SUBSET Versions, left: SUBSET Versions]

NoCall == [pc |-> "idle", op |-> "sign", m |-> CHOOSE m \in Managers : TRUE,
           kid |-> 0, v |-> 0, keys |-> {}, left |-> {}]

\* loaded: the cache is not nil; inFlight: the singleflight group is busy.
Jwks == [keys: SUBSET Versions, loaded: BOOLEAN, fresh: BOOLEAN, inFlight: BOOLEAN]

\* own: the fetch was started for this check and served by a replica that had
\* signed with kid before and not raced (see KeyLog) when it answered.
Check == [pc: {"idle", "ask", "wait", "parse"}, kid: MaybeVersion, keys: SUBSET Versions,
          forced: BOOLEAN, own: BOOLEAN]

NoCheck == [pc |-> "idle", kid |-> 0, keys |-> {}, forced |-> FALSE, own |-> FALSE]

\* signed: what the manager signed with.  raced: since its start a version was
\* made current while another call still held an older one to make current.
\* gone: revoked here while no call held the version to cache it.
KeyLog == [signed: SUBSET Versions, raced: BOOLEAN, gone: SUBSET Versions]

KeysTypeOK ==
    /\ newest \in MaybeVersion
    /\ disabled \subseteq 1..newest
    /\ cached \in [Managers -> SUBSET (1..newest)]
    /\ current \in [Managers -> 0..newest]
    /\ keyCall \in [KeyCalls -> KeyCall]
    /\ jwks \in Jwks
    /\ check \in [Checks -> Check]
    /\ keyLog \in [Managers -> KeyLog]

KeysInit ==
    /\ newest = 0
    /\ disabled = {}
    /\ cached = [m \in Managers |-> {}]
    /\ current = [m \in Managers |-> 0]
    /\ keyCall = [c \in KeyCalls |-> NoCall]
    /\ jwks = [keys |-> {}, loaded |-> FALSE, fresh |-> FALSE, inFlight |-> FALSE]
    /\ check = [k \in Checks |-> NoCheck]
    /\ keyLog = [m \in Managers |-> [signed |-> {}, raced |-> FALSE, gone |-> {}]]

-----------------------------------------------------------------------------
KeyAt(c, pcs) == keyCall[c].pc \in pcs

KeyGoto(c, pc) == keyCall' = [keyCall EXCEPT ![c].pc = pc]

KeyReturn(c) == keyCall' = [keyCall EXCEPT ![c] = NoCall]

\* The calls of c's manager that hold a version at one of these points.
Holding(c, pcs) ==
    {d \in KeyCalls \ {c} : keyCall[d].m = keyCall[c].m /\ keyCall[d].pc \in pcs}

\* Mutants of previousVersionIDs: one generation short; counting down to zero.
previousVersionIDsShort(v) == {w \in 1..(v - 1) : w + PreviousGenerations > v}

previousVersionIDsZero(v) == {w \in 0..(v - 1) : w + PreviousGenerations >= v}

previousVersionIDs(v) == {w \in 1..(v - 1) : w + PreviousGenerations >= v}

Newest(versions) == CHOOSE v \in versions : \A w \in versions : w <= v

-----------------------------------------------------------------------------
\* Sign, Verify, PublicKeys (see Await), RotateSecret, RevokeSecret and the
\* jobs of the ticker enter; a manager runs one job at a time.
StartCall(c, m, kid) ==
    /\ KeyAt(c, {"idle"})
    /\ \E op \in {"sign", "verify", "rotate", "refresh", "revoke"} :
          /\ op \in {"rotate", "revoke"} => m \notin Followers
          /\ op = "refresh" => m \in Followers
          /\ op \in {"rotate", "refresh"} =>
                \A d \in KeyCalls : keyCall[d].m = m => keyCall[d].op # op
          /\ keyCall' = [keyCall EXCEPT ![c] =
                [NoCall EXCEPT !.op = op, !.m = m,
                               !.kid = IF op \in {"verify", "revoke"} THEN kid ELSE 0,
                               !.pc = CASE op = "sign" -> "current"
                                        [] op = "rotate" -> "add"
                                        [] op = "refresh" -> "latest"
                                        [] OTHER -> "lookup"]]
    /\ UNCHANGED <<store, cached, current, gateway, keyLog>>

\* What the call does once currentKey has the key v: Sign signs and the jobs are
\* done; keySet goes on with the previous versions.
AfterCurrent(c, v) ==
    IF keyCall[c].op \in {"sign", "rotate", "refresh"}
    THEN KeyReturn(c)
    ELSE keyCall' = [keyCall EXCEPT ![c].pc = "next", ![c].v = 0, ![c].keys = {v},
                                    ![c].left = previousVersionIDs(v)]

\* Another call is about to make an older version current.
Races(c, v) ==
    \E d \in Holding(c, {"install", "cache", "set"}) : keyCall[d].v < v

Log(c, v, races) ==
    LET m == keyCall[c].m
    IN  keyLog' = [keyLog EXCEPT
            ![m].signed = @ \union (IF keyCall[c].op = "sign" THEN {v} ELSE {}),
            ![m].raced = @ \/ races]

\* currentKey, first section.
CurrentKey(c) ==
    LET v == current[keyCall[c].m]
    IN  /\ KeyAt(c, {"current"})
        /\ IF v \in cached[keyCall[c].m]
           THEN AfterCurrent(c, v) /\ Log(c, v, FALSE)
           ELSE KeyGoto(c, "latest") /\ UNCHANGED keyLog
        /\ UNCHANGED <<store, cached, current, gateway>>

\* GetSecret of "latest", the newest version: it fails (KeyCallFails) while that
\* one is disabled.
GetLatest(c) ==
    /\ KeyAt(c, {"latest"})
    /\ newest \notin disabled \union {0}
    /\ keyCall' = [keyCall EXCEPT ![c].pc = "install", ![c].v = newest]
    /\ UNCHANGED <<store, cached, current, gateway, keyLog>>

\* currentVersion = version, and the key is at hand.
MakeCurrent(c) ==
    LET v == keyCall[c].v
    IN  /\ current' = [current EXCEPT ![keyCall[c].m] = v]
        /\ AfterCurrent(c, v)
        /\ Log(c, v, Races(c, v))

\* The section after the fetch: currentKey makes a version that is cached by now
\* current at once, refreshCurrent only skips cachePayload.
Install(c) ==
    /\ KeyAt(c, {"install"})
    /\ IF keyCall[c].v \in cached[keyCall[c].m] /\ keyCall[c].op # "refresh"
       THEN MakeCurrent(c)
       ELSE /\ KeyGoto(c, IF keyCall[c].v \in cached[keyCall[c].m] THEN "set" ELSE "cache")
            /\ UNCHANGED <<current, keyLog>>
    /\ UNCHANGED <<store, cached, gateway>>

\* cachePayload.
CachePayload(c) ==
    /\ KeyAt(c, {"cache"})
    /\ cached' = [cached EXCEPT ![keyCall[c].m] = @ \union {keyCall[c].v}]
    /\ KeyGoto(c, "set")
    /\ UNCHANGED <<store, current, gateway, keyLog>>

\* The section that only sets currentVersion.
SetCurrent(c) ==
    /\ KeyAt(c, {"set"})
    /\ MakeCurrent(c)
    /\ UNCHANGED <<store, cached, gateway>>

-----------------------------------------------------------------------------
\* keySet: the next of the previous versions, newest first.
NextPrevious(c) ==
    /\ KeyAt(c, {"next"})
    /\ keyCall[c].left # {}
    /\ keyCall' = [keyCall EXCEPT ![c].pc = "load", ![c].v = Newest(keyCall[c].left)]
    /\ UNCHANGED <<store, cached, current, gateway, keyLog>>

\* keySet collects the version in hand, or skips it; Verify has its answer.
Loaded(c, found) ==
    IF keyCall[c].keys = {}
    THEN KeyReturn(c)
    ELSE keyCall' = [keyCall EXCEPT
            ![c].pc = "next", ![c].v = 0, ![c].left = @ \ {keyCall[c].v},
            ![c].keys = @ \union (IF found THEN {keyCall[c].v} ELSE {})]

\* loadVersion, the section before the fetch.
LoadVersion(c) ==
    /\ KeyAt(c, {"load"})
    /\ IF keyCall[c].v \in cached[keyCall[c].m] THEN Loaded(c, TRUE) ELSE KeyGoto(c, "fetch")
    /\ UNCHANGED <<store, cached, current, gateway, keyLog>>

\* GetSecret of one version.
GetVersion(c) ==
    /\ KeyAt(c, {"fetch"})
    /\ IF keyCall[c].v \in disabled THEN Loaded(c, FALSE) ELSE KeyGoto(c, "keep")
    /\ UNCHANGED <<store, cached, current, gateway, keyLog>>

\* cachePayload of loadVersion.
KeepVersion(c) ==
    /\ KeyAt(c, {"keep"})
    /\ cached' = [cached EXCEPT ![keyCall[c].m] = @ \union {keyCall[c].v}]
    /\ Loaded(c, TRUE)
    /\ UNCHANGED <<store, current, gateway, keyLog>>

\* versionByKeyID has the key id: Verify loads the version, RevokeSecret revokes it.
VersionFound(c) ==
    keyCall' = [keyCall EXCEPT
        ![c].pc = IF keyCall[c].op = "verify" THEN "load" ELSE "disable",
        ![c].v = keyCall[c].kid, ![c].keys = {}]

\* versionForKeyID, before keySet.
LookUp(c) ==
    /\ KeyAt(c, {"lookup"})
    /\ IF keyCall[c].kid \in cached[keyCall[c].m] THEN VersionFound(c) ELSE KeyGoto(c, "current")
    /\ UNCHANGED <<store, cached, current, gateway, keyLog>>

\* versionForKeyID, after keySet.
LookUpAgain(c) ==
    /\ KeyAt(c, {"next"})
    /\ keyCall[c].left = {}
    /\ keyCall[c].op \in {"verify", "revoke"}
    /\ IF keyCall[c].kid \in cached[keyCall[c].m] THEN VersionFound(c) ELSE KeyReturn(c)
    /\ UNCHANGED <<store, cached, current, gateway, keyLog>>

-----------------------------------------------------------------------------
\* RevokeSecret of the store.
DisableVersion(c) ==
    /\ KeyAt(c, {"disable"})
    /\ disabled' = disabled \union {keyCall[c].v}
    /\ KeyGoto(c, "forget")
    /\ UNCHANGED <<newest, cached, current, gateway, keyLog>>

\* Mutant of Forgotten: a revoked version stays cached unless it is the current one.
ForgottenCurrent(m, v) == cached[m] \ ({v} \intersect {current[m]})

Forgotten(m, v) == cached[m] \ {v}

\* RevokeSecret drops the version from the manager's maps.
Forget(c) ==
    LET m == keyCall[c].m
        v == keyCall[c].v
        held == \E d \in Holding(c, {"install", "cache", "keep"}) : keyCall[d].v = v
    IN  /\ KeyAt(c, {"forget"})
        /\ cached' = [cached EXCEPT ![m] = Forgotten(m, v)]
        /\ current' = [current EXCEPT ![m] = IF @ = v THEN 0 ELSE @]
        /\ KeyReturn(c)
        /\ keyLog' = [keyLog EXCEPT ![m].gone = IF held THEN @ ELSE @ \union {v}]
        /\ UNCHANGED <<store, gateway>>

\* RotateSecret of the store; the version is cached and made current as by Sign.
AddVersion(c) ==
    /\ KeyAt(c, {"add"})
    /\ newest < MaxVersion
    /\ newest' = newest + 1
    /\ keyCall' = [keyCall EXCEPT ![c].pc = "cache", ![c].v = newest + 1]
    /\ UNCHANGED <<disabled, cached, current, gateway, keyLog>>

-----------------------------------------------------------------------------
\* The gateway.  The checks that wait for the shared fetch read the keys it got,
\* or, when it failed, the cache.
Answered(keys, raced, ok) ==
    check' = [k \in Checks |->
        IF check[k].pc # "wait"
        THEN check[k]
        ELSE CASE ok -> [check[k] EXCEPT !.pc = "parse", !.keys = keys, !.own = @ /\ ~raced]
               [] ~ok /\ jwks.loaded -> [check[k] EXCEPT !.pc = "parse", !.keys = jwks.keys,
                                                         !.own = FALSE]
               [] OTHER -> NoCheck]

\* The fetch, served by one of lost, fails.
FlightLost(lost) ==
    IF \E c \in lost : keyCall[c].op = "keys"
    THEN jwks' = [jwks EXCEPT !.inFlight = FALSE] /\ Answered({}, FALSE, FALSE)
    ELSE UNCHANGED gateway

\* A call of the secret store fails and its call returns the error.
KeyCallFails(c) ==
    /\ KeyAt(c, {"latest", "fetch", "disable", "add"})
    /\ KeyReturn(c)
    /\ FlightLost({c})
    /\ UNCHANGED <<store, cached, current, keyLog>>

\* A replica restarts: its memory is gone, and so are its calls.
Restart(m) ==
    LET lost == {c \in KeyCalls : keyCall[c].m = m /\ keyCall[c].pc # "idle"}
    IN  /\ cached' = [cached EXCEPT ![m] = {}]
        /\ current' = [current EXCEPT ![m] = 0]
        /\ keyCall' = [c \in KeyCalls |-> IF c \in lost THEN NoCall ELSE keyCall[c]]
        /\ keyLog' = [keyLog EXCEPT ![m].raced = FALSE, ![m].gone = {}]
        /\ FlightLost(lost)
        /\ UNCHANGED store

\* Verify of a token some manager signed with kid.
BeginCheck(k, kid) ==
    /\ check[k].pc = "idle"
    /\ \E m \in Managers : kid \in keyLog[m].signed
    /\ check' = [check EXCEPT ![k] =
          IF jwks.loaded /\ jwks.fresh
          THEN [NoCheck EXCEPT !.pc = "parse", !.kid = kid, !.keys = jwks.keys]
          ELSE [NoCheck EXCEPT !.pc = "ask", !.kid = kid]]
    /\ UNCHANGED <<store, cached, current, keyCall, jwks, keyLog>>

\* group.Do: join the fetch in flight, find the cache repopulated, or have one of
\* the replicas run PublicKeys.
Ask(k) ==
    /\ check[k].pc = "ask"
    /\ \/ /\ jwks.inFlight
          /\ check' = [check EXCEPT ![k].pc = "wait"]
          /\ UNCHANGED <<keyCall, jwks>>
       \/ /\ ~jwks.inFlight /\ ~check[k].forced /\ jwks.loaded /\ jwks.fresh
          /\ check' = [check EXCEPT ![k].pc = "parse", ![k].keys = jwks.keys]
          /\ UNCHANGED <<keyCall, jwks>>
       \/ /\ ~jwks.inFlight /\ ~(~check[k].forced /\ jwks.loaded /\ jwks.fresh)
          /\ \E c \in KeyCalls, m \in Managers :
                /\ KeyAt(c, {"idle"})
                /\ keyCall' = [keyCall EXCEPT ![c] =
                      [NoCall EXCEPT !.pc = "current", !.op = "keys", !.m = m]]
                /\ check' = [check EXCEPT ![k].pc = "wait",
                                         ![k].own = check[k].kid \in keyLog[m].signed]
          /\ jwks' = [jwks EXCEPT !.inFlight = TRUE]
    /\ UNCHANGED <<store, cached, current, keyLog>>

\* The fetch succeeds: keySet is complete.
Land(c) ==
    /\ KeyAt(c, {"next"})
    /\ keyCall[c].op = "keys" /\ keyCall[c].left = {}
    /\ jwks' = [keys |-> keyCall[c].keys, loaded |-> TRUE, fresh |-> TRUE, inFlight |-> FALSE]
    /\ Answered(keyCall[c].keys, keyLog[keyCall[c].m].raced, TRUE)
    /\ KeyReturn(c)
    /\ UNCHANGED <<store, cached, current, keyLog>>

\* The cache reaches its TTL.
Stale ==
    /\ jwks.fresh
    /\ jwks' = [jwks EXCEPT !.fresh = FALSE]
    /\ UNCHANGED <<store, cached, current, keyCall, check, keyLog>>

\* Mutant of Retries: a token with an unknown key is refused at once.
RetriesNever(k) == FALSE

\* Verify repeats an unknown key once, and then past the cache.
Retries(k) == ~check[k].forced

Refuses(k) == check[k].pc = "parse" /\ check[k].kid \notin check[k].keys /\ ~Retries(k)

\* parse, with the keys the check was given.
Parse(k) ==
    /\ check[k].pc = "parse"
    /\ check' = [check EXCEPT ![k] =
          IF check[k].kid \in check[k].keys \/ Refuses(k)
          THEN NoCheck
          ELSE [NoCheck EXCEPT !.pc = "ask", !.kid = check[k].kid, !.forced = TRUE]]
    /\ UNCHANGED <<store, cached, current, keyCall, jwks, keyLog>>

-----------------------------------------------------------------------------
KeysNext ==
    \/ \E c \in KeyCalls :
          \/ \E m \in Managers, kid \in Versions : StartCall(c, m, kid)
          \/ CurrentKey(c) \/ GetLatest(c) \/ Install(c) \/ CachePayload(c) \/ SetCurrent(c)
          \/ NextPrevious(c) \/ LoadVersion(c) \/ GetVersion(c) \/ KeepVersion(c)
          \/ LookUp(c) \/ LookUpAgain(c)
          \/ DisableVersion(c) \/ Forget(c) \/ AddVersion(c)
          \/ KeyCallFails(c) \/ Land(c)
    \/ \E m \in Managers : Restart(m)
    \/ \E k \in Checks : (\E kid \in Versions : BeginCheck(k, kid)) \/ Ask(k) \/ Parse(k)
    \/ Stale

KeysSpec == KeysInit /\ [][KeysNext]_keyVars

-----------------------------------------------------------------------------
(***************************************************************************)
(* RevokeSecret is final where it ran: a version that was revoked while no *)
(* call of that manager held its payload is not cached there again, though *)
(* keySet, Verify and Sign load versions at any time, so that Verify of a  *)
(* token signed with it says no.                                           *)
(***************************************************************************)
RevokedKeyStaysOut ==
    \A m \in Managers : keyLog[m].gone \intersect cached[m] = {}

(***************************************************************************)
(* A rotation reaches the gateway at once: however old its cached keys,    *)
(* a check refuses a token only if its key was revoked, has fallen out of  *)
(* the generations the replicas publish, or the keys it was judged by,     *)
(* fetched past the cache, are not those that the replica which signed the *)
(* token returned for this very check: the fetch was shared, failed, was   *)
(* answered by a replica that did not sign with the key, or by one on      *)
(* which an older version had overtaken a newer one as the current one.    *)
(***************************************************************************)
RotationReachesGateway ==
    \A k \in Checks : Refuses(k) =>
        \/ check[k].kid \in disabled
        \/ check[k].kid + PreviousGenerations < newest
        \/ check[k].forced /\ ~check[k].own

=============================================================================
