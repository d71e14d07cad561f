# A verification project for muid

muid is an identity platform in Go: a public and an internal gateway in front of
an authentication service (login, sessions, an OpenID Connect provider), an
authorization service (organizations, roles, casbin rules), a profile service and
a mailer, on PostgreSQL, a key-value store (Redis) and NATS JetStream.

This directory holds TLA+ modules that model its state-changing core, TLC
configurations that check them on small instances, and TLAPS proofs of the
theorems that matter most for every instance. Paths below are relative to the
repository root (`src/` in `PROJECT.json`). `PROJECT.json` maps every definition
to the lines it models and lists runs, mutants, findings, hazards and theorems.

To check a module or a proof:

    tlc -workers 2 -config OutboxLeases.cfg MCOutbox
    tlapm OutboxProofs.tla

## 1. Inventory

| Component | State it keeps | Operations | What makes it correct | Module |
|---|---|---|---|---|
| Transactional outbox: `pkg/outbox`, `infra/postgresoutbox` | table `outbox_events` (published_at, lease_id, lease_until, next_attempt_at, attempts) | claim, publish, mark published, reschedule, start, close | one live lease per event; settled only after the stream stored it; eventually delivered; an attempt's timers stay within the broker's deduplication window | `Outbox`, `EventDelivery` |
| Refresh-token rotation: `internal/authn/oidc/refresh.go`, `tokens.go`, `consent.go` | table `oidc_refresh_tokens` (family, parent, used, revoked), `oidc_grants` | issue, rotate, revoke a token, a family or a consent, reuse detection | one live token per family, one child per token, a revocation is final | `RefreshTokens` |
| Sessions and their cache: `internal/identity/issuer`, `internal/authn/kv/session_cache.go` | table `user_sessions`; keys selector -> id and id -> snapshot | create, resolve, refresh, revoke | a revoked session never resolves; extension stays within the absolute expiry; a live session is found | `SessionIssuer` |
| Organization, its members and roles: `internal/authz/policy/{org,members,roles,manager,events,adapter}.go` | tables `organizations`, `organization_members`, `organization_roles`, `casbin_rule`; the in-memory enforcer of each replica | create, delete organization; add, remove, change member; create, update, delete role; reload | rules mirror rows; non-members have none; an owner remains; memory converges to storage | `OrgMembers` |
| Device authorization: `internal/authn/oidc/device.go`, `store/device_store.go` | keys of device code, user code, poll throttle; `oidc_grants` | start, decide, poll | one mint per approval; a denial is final; minted only for who approved | `DeviceFlow` |
| One-time codes: `internal/authn/kv/otp_store.go` | keys of challenge, attempts, two cooldowns | create, verify, revoke | a code is used once; guesses and sends are bounded | `OTPStore` |
| Authorization client: `pkg/authzclient`, `internal/authz/policy/queries.go` | shared role cache, local role cache, casbin model, policy snapshot | enforce, evict, reload page by page, rebuild | the model mirrors the caches; evicted or changed roles are not reused from them for long; a reload misses no rule | `AuthzClient`, `PolicyPages` |
| OIDC authorization code: `internal/authn/oidc/{provider,exchange,consent}.go`, `store/{code,pending}_store.go` | keys of codes and pending consents; `oidc_grants`; the first row of a refresh-token family | authorize, decide consent, exchange, revoke consent | an authorization is decided once and paid out once; the grant is what the user approved; a revocation reaches what is over | `CodeLifecycle`, `AuthorizationCode` |
| Login challenges: `internal/authn/grpc/session.go`, `internal/authn/kv/transition_store.go`, `internal/identity/{method,manager,resolver,policy}` | transition and attempt keys | start, continue (email, federated, passkey), link, re-authenticate | a session belongs to the one owner of the identity proven; failed proofs are bounded | `LoginFlow` |
| Identities and account API: `internal/identity/store`, `internal/authn/account` | `user_refs`, `user_identities`, `user_emails` and the tables of the other methods | find, link | an identity has one owner | `LoginFlow` (the account API only reads) |
| Signing keys: `internal/signature`, `pkg/gateway/jwtauth` | secret versions; per replica the keys in memory and the current version; per gateway the cached key set and its shared fetch | sign, verify, publish, rotate, revoke, refresh; check a token | a revoked key stays out; a rotation reaches the gateway at once | `SigningKeys` |
| Seeding, static policy: `internal/authz/policy/{seed,staticconfig}.go` | static rules, PolicyRevision | seed, reconcile | replicas that reconcile together agree | not modelled |
| NATS publish and subscribe: `infra/nats` | streams, consumers | publish, subscribe with backoff | a handled message is acknowledged, a failed one comes back | publish side in `Outbox` |
| Avatars: `internal/profile/core/avatar_*.go`, `internal/profile/avataringest` | table `user_avatars` (pending and committed rows), objects of the upload and the assets bucket | start, complete an upload; clean up in the background; ingest the first picture; display | sessions are bounded and keep their object; a session brings one avatar; a row names an object that exists; the latest is displayed | `Avatars` |
| Profiles: `internal/profile` | profile rows | create, update, delete | a row is written by one transaction | not modelled |
| Gateway middleware: `pkg/gateway` | rate and risk counters, proof-of-work challenges, cached keys | allow, score, solve, verify | windows are bounded; a solution is spent once | key cache in `SigningKeys` |
| Client resilience: `pkg/grpc_utils` | none shared | retry, deadline | | not modelled |
| Mailer, gateways, adapters, tokens, wiring, generated code | none of their own | translation | pure, or the adapted service's | not modelled |

How they interact. Services call each other over gRPC (the authorization client
asks the authz service for roles and policies, the gateways call all of them).
The authz service announces policy changes on NATS at most once; the clients'
periodic reload heals what is lost. A domain event is a row of `outbox_events`
that a relay publishes with the row's id as message id. The OIDC provider and the
session issuer share PostgreSQL but no row; the device flow, the OTP store, the
session cache and the role cache share the key-value store but no key. The code flow and the
device flow do share the `oidc_grants` row of a user and a client, through one function
(`upsertGrant`): `AuthorizationCode` has it with two concurrent calls, and a decision on a
device is to it like one on a consent screen. This is why
each module stands alone: where two components do share a state (relay and broker,
call and reload, replicas and shared cache, signing replicas and gateway, code and first
refresh token) they are in one module.

The hard behaviours are all of one kind: a request is a sequence of statements
and key-value calls, and another request, a reload, an expiry or a failure falls
between two of them. Every module therefore takes the single statement or
key-value call as its step. `PROJECT.json` lists the hazards one by one, each at
its line.

## 2. The modules and the code

Conventions. A request is a record of `req` (`call`, `relay`): `pc` names the next
call it makes, the other fields are what it read; `Idle` is a request that is not
running. The action of a `pc` has the code's condition as its guard. An operator that
makes a request end is `Return`. A failed call, a cancelled context and a crash of
the process are one action, `CallFails` (in some modules a failure of one kind has
its own): they leave the stores as they are and the request is gone. A call that
took effect and whose answer was lost is the call and then `CallFails`. Operators
whose comment says *Mutant of ...* belong to no specification: each is a
definition with a plausible bug, which the run's property must find.

**EventDelivery** is the abstract promise of an outbox: an event is committed,
delivered, then settled; under fairness every committed event is settled.

**Outbox** has one action for each statement of `Store` (`Claim`, `MarkPublished`,
`Reschedule`) and each step of `Relay.run`, `drain` and `deliver`, the stream with
its deduplication window, and messages in flight that the broker stores or loses.
`Spare` is what the window exceeds one attempt's timers by; `spare` in `stream` is history, the ticks
of it that are left. Time is in ticks; `Tick` lowers every timer. `Pauses` lets a relay sleep past its
timeout and its lease. No binary under `cmd/` starts a relay and no migration in
the tree creates `outbox_events`; the model is of the library as its interface is
written.

**RefreshTokens** follows `Resolve` (the read), the rotation's transaction by
statement (`Claim`, `Insert`, `Commit`, `Rollback`), minting after the commit, and the
two kinds of bulk revocation, under READ COMMITTED: an UPDATE sees the rows that were
committed when it starts (`snapshot`), waits for their locks, then re-evaluates.

**SessionIssuer** follows one session and one token of it, since sessions share
no row and no key. It has the two cache keys apart, the snapshot that `CreateSession`
caches without an absolute expiry, and `lookupSession` as written: a cache miss is
answered without asking the database.

**CodeLifecycle** is the abstract promise of the authorization code grant: an
authorization is allowed at most once, becomes at most one code, the code is claimed and pays
out tokens at most once, and what is closed stays closed.

**AuthorizationCode** gives a step to each query and each key-value call of `Authorize`,
`DecideConsent`, `upsertGrant` and the exchange; a code or a pending consent may expire at any
moment. `RevokeConsent` is one transaction. `Stage` computes from the keys and the
calls alone where an authorization is, which is the refinement mapping to
`CodeLifecycle`. `consent` is history: what a user's decisions add up to, whether
writes of the grant overlapped, and which authorizations were over at the last revocation.

**SigningKeys** gives a step to each section under the manager's mutex and each call of
the secret store, for managers that rotate and managers that only follow, so that what a call
holds between sections (a version, a payload) can be stale when it is used. The gateway's verifier is in
the same module: its cached key set, the one fetch that concurrent checks share
(`singleflight`), and the second try past the cache. A key id stands for its version.

**LoginFlow** follows `StartLogin` and `ContinueLogin` through the transition, its
attempt counter under a key of its own, the user resolver, the link policy and the
identity stores, to the session. An inserting transaction is two steps (its
reads, and its last insert with the commit). A proof is whether it verifies; the code of an email is
`OTPStore`, the session issued is `SessionIssuer`.

**Avatars** has one action for each statement and each object-store call of `StartAvatarUpload`, of
`CompleteAvatarUpload` and of the ingest that follows `CreateProfile`. The first one's transaction is three steps under READ
COMMITTED: the SELECT of the pending rows, the DELETE with a snapshot of its own, the INSERT with
the commit. The background deletions go on after the answer; clients put objects, and the bucket's
lifecycle rule deletes them, at any moment. Validation and conversion of the picture are an input. Ids grow as
one process makes them.

**OrgMembers** gives a call's queries (`FindMember`, `FindRole`, `guardOwnerGrant`,
`guardLastOwner`, `CheckAssigned`) a step each. The transaction is one step, because
transactions that could interfere lock a row both write (the member row, the role
row, or the `PolicyRevision` row at the end), and a role that is being named is
locked against deletion by the foreign key; what a transaction uses from before it
began is in the call's record. The exception is `DeleteRole`, which deletes the rules of the name first (`roles.go:302`)
and locks the role row after (`:319`): a transaction that inserts such rules (`RulesInserted`) marks the calls about
to delete them, which may then miss any of them. Then come the in-memory deltas and
the reload in two steps (`LoadPolicy`, `ApplyPolicy`). The organization comes and goes in
one transaction each; a row added to it while it is being deleted makes
the foreign keys refuse one of the two. `requireOrganization` is not a step: what it would find gone, the
query or the transaction after it finds gone too.

**DeviceFlow**, **OTPStore** and **AuthzClient** have one action for each key-value
call or remote call of the functions named in their comments. In `DeviceFlow` any key may expire at any
moment, which covers every lifetime; `RevokeConsent` may revoke a stored grant at any moment, and `withdrawn` in the log
remembers whose. In `OTPStore` the challenge and its
counter end with the lifetime of the code that set them, and ignored errors are counted in
`lost`. In `AuthzClient` lifetimes are ticks, because its promise is about how long
changed roles are reused. It has `rebuildLocked` in three steps: `Enforce` reads
the model without the mutex, so it can see it half built. Its `LoadPolicies` reads the grants at once.
A casbin model is its two rule tables and the links of its role manager, which is what `Enforce` matches. casbin is not
in the tree (`go.mod` names v2.135); `Grouped`, `Ungrouped` and `Cleared` state what the code's calls do to it:
adding a grouping rule adds its link, removing one that is in the table removes it, and `ClearPolicy` empties the
tables and keeps the links. `dropped` is history: the roles of entries a rebuild found
expired. `RenameRole` is `UpdateRole` with a new name: the role's name changes at authz, and the event is that of a
change of grants. A user has at most one role in an organization (`UserRoles`), as `Resolved` says.

**PolicyPages** is what that read is: one query for a page, by id after the page token, while
`CreateRole`, `UpdateRole` and `DeleteRole` replace grants, each time under new ids.

**MCTokens**, **MCAuthn**, **MCUserFlows** and **MCAuthzClient** run parts together that share no state: a variable
`focus`, chosen initially, says which of them a behaviour follows, and the others stutter. This is a union of
the state spaces, never a product, and each part's properties are checked in all of them.

## 3. The runs

| Run | Instance | What it shows |
|---|---|---|
| `outbox_leases` | 1 event, 2 relays that pause, 4 leases | `OneLiveHolder`; `DeliverySafety` although a relay acts on a lease it has lost |
| `outbox_delivery` | 2 events, 1 relay with a restart, window 3, lease 2, timeout and delay 1, fairness | the refinement with liveness (`DeliverySpec`), and `SecondCopyIsLate`: with `Spare` 1, a second copy is stored only after a tick outside the timers of the attempt that stored the first |
| `tokens` | rotation: 3 tokens, 2 calls; code: 2 users, 2 scopes, 2 authorizations, 2 calls | one live token per family, one child per token, `RevokedNeverRotates`, a revocation that overlaps no rotation is final; the code flow implements `CodeLifecycle`, `GrantFollowsDecisions`, `RevocationReachesFamilies` |
| `revokes_every_live_token` | 3 tokens, 2 calls | **violated**: a revocation misses the child of a rotation in flight |
| `authn` | sessions: 2 calls, lifetimes 3, 4, cache 2; keys: 2 replicas, 3 versions, 1 check, 2 calls; logins: 2 transitions, 2 calls, 2 accounts, 2 sessions | `RevokedNeverResolves`, `ExpiryWithinAbsolute`, `SnapshotWithinSession`; `RevokedKeyStaysOut`, `RotationReachesGateway`; `SessionForOwner`, `FailuresBounded` |
| `live_session_is_found` | sessions as in `authn` | **violated**: a session that is not cached is not found |
| `org_members_alone` | 2 users, 2 roles, 3 names, 1 call, reloads | `PolicyMirrored`: rules mirror rows; an owner remains, `DriftHeals` |
| `org_members` | same, 2 calls, no memory | `NonMembersHaveNoRules` |
| `last_owner` | 2 users, 2 calls | **violated**: two owners go at once |
| `user_flows` | device: 1 code, 2 users, 2 clients, 3 calls; avatar: 2 calls, 4 sessions and ids, of which at most 3 ids | `MintsOnce`, `MintsFollowApproval`; `UploadSessionsHold`, `DisplayedAvatar` |
| `otp_store` | 2 calls, 2 codes, 2 attempts, 1 lost call | `CodeUsedOnce`, `GuessesBounded`, `SendsBounded` |
| `authz_client` | 2 replicas, 2 lookups, 2 role names, 1 change (membership, name or grants); one reload of 2 roles with 2 permissions, 5 rows, pages of 1 | `ModelMirrorsCaches`, `EvictedRolesStayOut`, `RolesStayBounded`; `SnapshotWithinReload` |

### Bounds, and why they are enough

* Requests: two (three for the device flow, which has three kinds). The races named
  in the hazards are of two requests, or of two and a timer, which is an action.
* `LeaseIds`, `AttemptCap`, `MaxStops`, `MaxInFlight` in `Outbox`: leases come
  from `uuid.New` and are reused here only once nothing remembers them; `attempts` stops
  counting at a cap at or past the one where `retryDelay` is constant. Durations are the smallest that satisfy
  `Config.valid` and keep every order of expiry possible.
* Three tokens: a parent, a child and a grandchild, or two families. Both `Issue` and
  `Resolve` are free to take any.
* Session lifetimes 3 and 4 let a refresh be clamped by the absolute expiry; a cache
  lifetime of 2 lets the cache expire before, with or after a refresh.
* Two authorizations, two users, two scopes: one user decides twice, or two users decide on
  one consent screen; scopes are lost, kept or brought back.
* `MCAuthn!Within` bounds each part of `authn` by what its hazards need.
  `rotation`: one replica and three versions, one more than it publishes, without revocation.
  `replicas`: one replica signs and rotates, the second follows and answers the gateway; two versions.
  `revocation`: one replica, two versions, no gateway, all operations. `attempts`: one transition, one account, one session,
  email or passkey, every failure and deletion. `linking`: two accounts,
  two sessions and two transitions, no failed proof, no re-authentication and
  no passkey at login; sessions are sent along to link only. `newest`, `users` and `sessions` only grow, so the
  bounds end behaviours and hide no step before. `OutOfBounds` lets a call at such a bound fail.
* `MaxId` 5 and pages of one row: two permissions are moved behind the cursor and one more
  change follows. One reload, because reloads share nothing until they are applied.
* `MaxCodes` 2 and `maxAttempts` 2: the last guess is not the first, and a guess
  at an older code races a new code. `MaxLost` 1: properties that count are conditioned on
  no loss; losses are modelled so that the others hold with them.
* `MaxMints` 1 bounds polls after a mint; a second mint can still happen. Once a consent was revoked, two calls of the
  device flow run at once (`MCUserFlows!Within`), and three before.
* `MCUserFlows!Within`: while the ingest runs, one upload session races it; after it, three sessions and the ids of
  committed pictures share a bound of 5. Three sessions of two calls are one more than `SessionsBounded` allows, two ids
  are what a wrong order needs.
* `MaxChanges` 1: the promises are about one change and what is cached from before
  it. `RoleCacheTTL` 2 tells a fresh entry from one about to end; `Reloading`
  follows the reloads of one replica, and the run starts without grants. Two role names, an old and a new one.
  `MCAuthzClient!Within`: reloads, and the links they leave, are followed while the other replica caches nothing, since
  replicas share only the shared cache, which a reload does not touch; and two lookups overlap where there is no reload
  and nothing but the membership has changed. The theorems have none of these bounds.
* `Watched` in `OrgMembers`: the enforcer's copy of each rule is independent of the
  others, so few rules are followed in memory; the stored rules are all modelled.

Symmetry is used over requests, users or tokens where no property of the run is a
liveness property. `MCAuthzClient`'s `ClientInit` and `MCUserFlows`'s `FlowsInit` restrict only the initial state.

### Fairness

`Outbox!Fairness`: a relay that is running keeps polling (`Relay.run` has a ticker), its
publish ends by its context's timeout, and an attempt that keeps being made is
at some time stored, acknowledged and recorded. The last is strong fairness of the external broker
and database, not of the code; without it nothing can be promised. A stopped relay is
started again. `OrgMembers!Fairness`: the reload ticker fires and a load that began
ends. Calls are given no fairness there: `DriftHeals` starts from their having ended.
The other specifications state no fairness: their properties are about what may never happen.

### Findings

1. *A live session is not found* (`issuer.go:318`). `lookupSession` branches on
   `cacheHit` the wrong way round. At the latest when the cache key expires, after an hour, the
   session is lost to its user, although the row is live.
2. *A family revocation can miss a token* (`refresh.go:215`). Its UPDATE waits for the row
   lock of a rotation and does not see the child that rotation commits. The
   same holds of `RevokeConsent`.
3. *The last owner can go* (`members.go:308`). `guardLastOwner` counts before the
   transaction and nothing repeats the count in it.

Noticed while modelling, and kept out of the invariants by an explicit condition
(the condition is in the property and in its comment):

* Two decisions on one user code that overlap can write the record after a poll has consumed
  it, so that it mints again (`device_store.go:154`; `MintsOnce` excludes overlapping decisions).
* `ChangeMemberRole` reads role names before its transaction, so overlapping calls can
  leave a member with the rule of an older name (`members.go:195`);
  `PolicyMirrored` is checked for one call at a time.
* `RevokeOTP` and the clean-up after a success delete the attempts counter
  separately from the challenge: an overlapping call can reset the counter of a live code (`otp_store.go:230`, `:258`;
  `reset` in `GuessesBounded`). An error of `TTL` lets a guess go uncounted (`:236`).
* The cooldown is checked before and set after the challenge is written: calls that
  overlap each send (`SendsBounded` allows one mail per overlapping call).
* The deduplication window bounds one attempt's timers, not the time until a copy: with the defaults `Spare` is 600 - 310 =
  290 seconds, so one lost acknowledgement at the delay's cap is covered unless the retry waits that much
  longer, and a second one in a row (310 more) is not. `Config.valid` also accepts a `Spare` of 0
  (`relay_test.go:163`), where the timers alone outlast the window by the time of the next poll. `pubsub/interface.go:14` asks consumers
  to be idempotent all the same; `SecondCopyIsLate` says exactly what the horizon checks buy.
* `RevokeConsent` leaves device codes alone, and the poll of an approved one re-checks the access policy but not the grant
  (`device.go:238`): a consent revoked between approval and poll still yields tokens, and a refresh-token family, without a stored
  consent (`withdrawn` in `MintsFollowApproval`).
* Overlapping with an `UpdateRole` or another call that inserts rules of the name, `DeleteRole` can leave grants of a
  role that is gone (`roles.go:302`, `:319`); a role created later under the name then cannot be inserted, or starts with them. `PolicyMirrored` is checked for one call at a time.
* "RoleCacheTTL bounds how long a user's resolved roles are reused" (`authzclient/enforcer.go:43`), but an answer that is about to end
  in the shared cache starts a whole lifetime in the local one: two lifetimes, which is what `RolesStayBounded` says.
* "rebuildLocked resets the casbin model" (`enforcer.go:207`), but the role manager's links stay, and an entry that expired is deleted
  without `RemoveGroupingPolicy` (`:224`): `Enforce` goes on matching its roles until a later lookup inserts the
  same ones and they are evicted, which no bound on time ensures
  (`dropped` in `ModelMirrorsCaches`; `RolesStayBounded` is about the caches only). Since `Enforce` resolves the user first, the
  new roles are then matched beside the old. The hierarchy rules (`g` rules of the policy snapshot) of an older snapshot
  stay linked in the same way; they are not modelled.
* A rename announces `ROLE_GRANTS_CHANGED` only (`roles.go:246`), on which a service reloads and evicts nothing: it uses the old
  name, for up to two lifetimes, although it missed no event (`recent` in `EvictedRolesStayOut`).
* `evictOrganization` deletes only the shared keys its own replica has cached
  (`roles.go:164`); other keys last until they expire (`RolesStayBounded`).
* An eviction between a lookup's answer and its insertion is undone by it
  (`raced` in `EvictedRolesStayOut`).
* `Enforce` during a rebuild sees an empty model and denies (`enforcer.go:210`).
* `upsertGrant` merges scopes in memory: of two approvals at once one loses its scopes, and a
  revocation in between is cleared (`provider.go:418`; `serial` in `GrantFollowsDecisions`). `RevokeConsent`
  leaves pending consents, codes and exchanges alone, which yield a live family afterwards (`consent.go:92`;
  `cut` in `RevocationReachesFamilies`).
* `currentKey` and `refreshCurrent` set the current version after an unlocked fetch, so an older one may
  overtake a newer one on a replica (`signature/manager.go:286`; `raced`), and a version
  whose payload a call holds while `RevokeSecret` runs is cached again (`:209`; `gone`).
* A new key signs at once, although `docs/IDP_ROADMAP.md:86` plans to publish it first. Behind a shared or failed
  fetch, or one answered by a replica that lags, a check refuses a valid token once (`own` in
  `RotationReachesGateway`).
* A transition that survives its deletion, or that two calls read, goes on twice: the loser of two first
  logins leaves an account and a profile without an identity, and a passkey's proof brings two sessions
  (`session.go:368`). `ContinueLogin` answers Internal for a transition that is gone.
* `StartAvatarUpload` promises that "at most one upload session is in flight per user" (`avatar_upload.go:39`). Two calls
  at once both find nothing to delete and both insert (`:82`; `SessionsBounded` allows one session per call), and a row the
  DELETE finds beyond what the SELECT read leaves its staging object to the lifecycle rule.
* `CompleteAvatarUpload` ignores that its DELETE finds no row: a session that was superseded while its picture was
  converted is committed all the same, and two overlapping completions of one session bring two avatars
  (`:232`; `shared` in `SessionUsedOnce`).
* The id of an avatar is made before the object is stored and the row committed (`:209`): of two
  overlapping writes the later commit may have the smaller id, and is not displayed, although the schema says "max(id) is
  deterministic latest completed asset" (`ent/schema/useravatar.go:21`; `mixed` in `DisplayedAvatar`).
* `createProfileRow` tries the next username after a unique violation (`profile.go:97`), in the transaction
  that PostgreSQL has aborted by then.
* A re-authentication that proves an identity of another user ends as a session of that user.
* An account whose first login was federated has no `user_emails` row, and `GetMyAccount` answers
  `ErrInvalidState` (`account/reader.go:62`); two email links at once make two primary addresses
  (`email_store.go:73`).
* `pageRules` relies on "id order is stable insertion order" (`queries.go:252`); UUIDv7 of two replicas, or commits out of order,
  break it, and a reload can then miss a rule that UpdateRole moved (`early` in `SnapshotWithinReload`) until the next
  reload.
* `createOrganization` (`authz/grpc/org_create.go`) leaves it to the caller to retry when the profile service fails, but
  the organization is committed and its name is not unique: a retry makes a second one. `DeleteOrganization`
  leaves the profile.

## 4. What is proved

**OutboxProofs**, for any sets of relays and events and any constants that satisfy
`ConfigAssumption` (which includes `Config.valid`):

* `OutboxTypeOK`, `OutboxOneLiveHolder`, and `OutboxDelivers`: `Outbox` implements
  the safety part of `EventDelivery`.
* `OneLiveHolder` and the refinement are not inductive. `IInv` adds: a relay that holds an
  event has a lease (`Holding`) and no two relays the same one (`LeasesDistinct`); a lease a relay
  counts as unexpired is the row's, with the row's time left (`HeldAgrees`), so two holders
  of one event would share a lease; messages in flight carry the event of the lease
  they were sent under (`MessagesMatch`), so that a late acknowledgement cannot
  settle another event; an acknowledged attempt's event is stored (`AttemptsMatch`). Mapping each
  action to `Deliver`, `Settle`, `Commit` or a stutter then is by cases.
* `OutboxSecondCopyIsLate`: while some of an event's `Spare` is left (`m.spare > 0`), its window covers that and the row's lease or
  delay (`RowInside`), and, for a running attempt that stored it, `RetryCap` and the attempt's timeout (`WorkerInside`); together
  `InsideHorizon`. `SpareFits` is the two horizon checks of `Config.valid`. The hypothesis is `~Pauses`: a relay
  descheduled past its lease may reschedule late.
* `RetryDelayBounded` states the arithmetic of the capped exponential.

**TokenProofs**, of `RefreshTokens`, for any tokens and requests:

* `RefreshTypeOK`, `RefreshOneLiveToken`, `RefreshOneChild`, `RefreshRevokedNeverRotates`,
  `RefreshQuietRevocation`.
* `IInv` ties rows to calls: a parent is a used row of the same family (`RowsMatch`), the
  open rotation of a call holds a live token that no other open rotation holds
  (`RequestsMatch`, `Exclusive`), so the child it commits replaces the only
  live token. `RowsKept` and `RowCases` say which rows an action can touch, so each part of the
  invariant has a short case analysis.
* `QuietIInv` adds, for a revocation, that its UPDATE has every live row of the family in its snapshot as
  long as no rotation of the family was open meanwhile. `LiveOrigins` says where a live row
  comes from, which leaves a rotation as the only way a family gets one.

**TokenProofs**, of `AuthorizationCode`, for any users, scopes, authorizations and calls:

* `CodeTypes`, `CodeGrantFollowsDecisions`, `CodeRevocationReachesFamilies`, and
  `CodeImplementsLifecycle`: the flow implements `CodeLifecycle`.
* `CodeIInv`: before its tokens are minted an authorization is in one place, the key of its consent screen, the key of
  its code or one call (`OnePlace`), which makes `Stage` a function of the state that every action moves by
  one step of `CodeLifecycle` or not at all; what was over at a revocation stays over
  (`CutIsOver`); and what a call is about to write into the grant is the row's scopes plus those it was asked for, as
  long as no other write came in between (`MergesCurrent`).

**AuthnProofs**, of `SessionIssuer`, for any number of calls and any lifetimes that satisfy
`LifetimeAssumption`:

* `SessionTypeOK`, `SessionExpiryWithinAbsolute`, `SessionSnapshotWithinSession`,
  `SessionRevokedNeverResolves`.
* `IInv` adds what the `pc` of a call says about the row (`CallOK`): nobody works on a
  session that is not there; what a call will extend the row to is within the row's absolute
  expiry, so an UPDATE that comes late cannot exceed it; a lookup that started after the
  revocation is still before its database query, because that query is the only way on and finds no
  row. The row in turn only moves forward (`RowMoves`), which keeps every other call's part;
  a tick takes the same amount from both sides (`TickCall`).

**AuthnProofs**, of `SigningKeys`, for any replicas, calls, checks, versions and generations:

* `KeysTypes`, `KeysRevokedKeyStaysOut`, `KeysRotationReachesGateway`.
* `KeysIInv`: a version a call is about to cache is not one its manager dropped for good, and, as long as nothing
  overtook (`raced`), is not older than what the manager signed with (`CallFits`, `ManagerFits`); there is one fetch at a time
  (`OneFetch`), and the key set that it collects for a check of its own has, or has still to
  load, the key of that check, unless it was revoked or is past the generations (`Covers`, `CheckFits`).
  `NewestIsOne` is well-founded induction on the versions.

**AuthnProofs**, of `LoginFlow`, for any subjects, transitions, accounts, calls and `maxAuthAttempts`:

* `LoginTypes`, `LoginSessionForOwner`, `LoginFailuresBounded`.
* `LoginIInv`: an identity has one owner, and a call that issues a session has been told who
  (`OneOwner`, `LoginFits`). For the bound, an open transition's failures are at most its `Balance`: what
  its counter says, one for each call that has a failure to count, and `maxAuthAttempts` for each call that has deleted the
  counter and not yet the transition. A call is in one of these places at a time, so deletions
  pay for the count they erase.

**DeviceFlowProofs**, for any codes, users, clients and calls:

* `DeviceTypes`, `DeviceMintsOnce`, `DeviceMintsFollowApproval`.
* `DeviceIInv`: a record that says approved was approved by the user it names, for the client of the code, with
  the grant stored unless that user revoked it since (`RecordFits`); and as long as its decisions have not overlapped, at most one of these has the
  code: a decision under way, an approved record, a call that claimed it, the tokens, a denial (`Exclusive`).
  The second half is needed because the record is rewritten without a comparison.

**AvatarsProofs**, of `Avatars`, for any calls, keys and `MaxAssets`:

* `AvatarsTypes`, `AvatarSessionsHold`, `AvatarIsDisplayed`.
* None of the properties is inductive. `SessionInv`: when a call is about to commit its row, the snapshot of its
  DELETE has every row it wrote before and every row it read as stale (`Supersedes`), so no two rows are of one
  call, and rows map injectively into calls; a key that was deleted, or that a call is about to delete, is
  issued and has no row (`Gone`), and as new keys are fresh (`FreshKey`) it never has one again. `UseInv`: a session no two
  completions shared is held by one, and has neither row nor holder once it has brought an avatar (`UsedUp`). `IdInv`: an
  id that waits for its row has its object; until writes overlap one id waits at most, and it is
  greater than every id that has a row.

**OTPStoreProofs**, for any number of calls, codes, lost calls and any `maxAttempts`:

* `OTPTypes`, `OTPCodeUsedOnce`, `OTPGuessesBounded`, `OTPSendsBounded`.
* `OTPIInv` counts calls. The counter stays below `maxAttempts` plus the calls that are about to delete it and the
  deletions that were lost (`CountFits`); a guess joins those that are compared and not answered yet (`Guessing`) only
  at a challenge whose rejected guesses the counter covers, and the calls about to delete the counter are none of
  them (`GuessesFit`); mails sent and calls past the recipient's cooldown are one per call (`SendsFit`).
* The bounds for calls that do not overlap are another induction, `OnlyCall`, on the one call that runs: what it read
  is still so, the counter is zero from its deletion to that of the challenge, and the counter that
  is there has the lifetime of the challenge that is there, so it cannot expire first.

**OrgMembersProofs**:

* For any number of calls, with rules that `DeleteRole` misses: `MembersTypes` and `MembersHaveTheRules`. `NonMembersHaveNoRules` needs that
  a change of role which has not been told that its row is gone still has one (`RowThere`).
* For calls that do not overlap (`Alone`: one call at a time, any number of them one after the other): `AloneMirrors` and
  `AloneOwnerRemains`. `AloneIInv` adds what the schema's unique keys and foreign keys say of the rows
  (`UniqueNames`, `RolesNamed`, `Dissolved`) and that what a call read is still so when it writes (`Current`), the count of
  owners included. `Alone` cannot be dropped: `last_owner` refutes one, the note on
  `ChangeMemberRole` above the other.

**AuthzClientProofs**, of `AuthzClient`, for any replicas, calls, roles and `RoleCacheTTL`:

* `ClientTypes`, `ClientModelMirrors`, `ClientEvictedStayOut`, `ClientRolesStayBounded`.
* `ClientIInv`: between the steps of a rebuild the policies are already those of the snapshot, and the links are of cached or dropped
  roles at every step (`ModelFits`). A replica
  that no membership event waits for has nothing older in the shared cache, and no call is
  about to put it there; once `evictRoles` is through, nothing older is in the local cache or in a lookup for it
  (`EvictionFits`). That has to be said of each queue separately: any replica's eviction clears the shared key for all.
  Older roles age: what is left of an entry and the time since the change together stay within one
  lifetime in the shared cache and two in the local one (`SharedFits`, `LocalFits`, `LookupFits`), because a hit in the
  shared cache is not written back.

**AuthzClientProofs**, of `PolicyPages`, for any roles, permissions and `PageSize`:

* `PagesTypes`, `PagesSnapshot`.
* `PagesIInv`: ids are unique, the token is 0 or an id that was used, and a rule that was stored all the time is collected or
  has a row after the token (`ReloadFits`): a rule that UpdateRole moves gets an id above all used ones, hence behind
  the token, unless its row came in early. `FirstRows` and `NextTokenEndsPage` say what `LIMIT` and the last id of
  a page give: no row lies between the page and the token. The greatest id exists by well-founded induction on finite sets.

**The compositions.** `AuthnComposes`, `TokensCompose`, `FlowsCompose` and `ClientComposes`: a behaviour of the
specification that a run checks is a behaviour of each of its parts, so the theorems about the parts hold of what TLC explores;
`AuthnTypes`, `TokensTypes`, `FlowsTypes` and `ClientTypesOK` draw from it the type invariant `TypesOK` of the whole.
Where an MC module starts a part from fewer states, or lets it take fewer steps, that is the content of
these theorems: in `MCAuthn` the calls that the bounds leave without a next step fail, which is a step of `LoginFlow` too.

The assumptions are the named ASSUMEs of the modules, and the two hypotheses named above
(`~Pauses`, `Alone`). Beyond the sanity of timing constants and of sentinel values (`None` is no user) they say that there is a manager, a subject, an
event, and that the calls running at once, and the users of an organization, are finitely many. Bounds that
are guards of the models (`MaxVersion`, `MaxMints`, `MaxSessions`, `AttemptCap`, `MaxChanges`, `MaxId`) are arbitrary
numbers in the theorems. The proofs are about the models: that a model is faithful to the code is what `map`
and review are for.

The proofs had TLC check every inductive invariant first, and they changed the models in a few places.
`OrgMembers!FindMember` had kept the mark of a deleted row when the user was a member again, which
lost behaviours. CASE expressions with overlapping guards, whose choice TLA+ leaves open, are
IFs. The bound `TypeOK` of `OTPStore` gives the counter left out the deletions that are lost. The rest only states a
step differently: nested EXCEPTs, a typed set.

Every invariant and every action property of the passing runs is stated by a theorem. Only model-checked: liveness
(`DeliverySpec`'s fairness part, `DriftHeals`), since it needs fairness and ENABLED, which the prover does not handle. What a function
defined by recursion computes for every input would need induction over
data, which the provers cannot do; none of the modules needs it.

## 5. What is not modelled, and why

* Hashing, signing, token encoding, scopes and claims: data the properties do not tell
  apart. A guessed or wrong token is one that matches nothing.
* Access-policy verdicts, client authentication: inputs, taken both ways.
* Serialization failures and deadlock victims of PostgreSQL: a transaction that fails.
* `Reconcile`: it locks the PolicyRevision row before it reads, and what it
  writes is a set difference; replicas with different configurations would undo each other, which is a matter of deployment.
  Raw rules are written as given: no relation to rows is promised of them.
* `RevokeIdentity` has no caller. No read-only key manager is built outside tests; `Followers` are modelled as the
  code is written. GCP's "latest" fails while the newest version is disabled, and so does `GetLatest`.
* JetStream subscriptions: a message is redelivered after the first backoff step although its handler may still run (`pubsub.go:185`);
  a message may be handled twice at once, and no code promises otherwise.
* Rate and risk counters, the proof-of-work challenge, retries of gRPC clients: counters with a lifetime in the
  key-value store, or no state.
* Profiles: a row that one transaction writes; pictures are data transformation.
* Gateways, mailer handlers, adapters, token codecs, wiring and generated code keep
  no state of their own that another actor changes under them. Generated code (ent, protobuf, GraphQL) is
  most of the repository's lines: what the modules use of it is the schemas' keys and fields.

## 6. Plan

What is left, most important first.

1. `Subscription`: JetStream redelivery against a slow handler, composed with `Outbox` at the stream.
2. The proof-of-work challenge.
3. Creation of an organization together with its profile, and the retry of it.
