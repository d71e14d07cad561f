----------------------------- MODULE AuthzClient -----------------------------
(***************************************************************************)
(* The local enforcers that services embed: pkg/authzclient.  The roles of *)
(* a user in an organization come from the authz service through a cache   *)
(* that replicas share (KV) and one of their own; each replica's casbin    *)
(* model holds the role grants of its namespace (p), the groupings of the  *)
(* cached roles (g) and the links its role manager has made of them.  One  *)
(* user and one organization are followed; a user has at most one role     *)
(* there, whose name is what the services see.                             *)
(***************************************************************************)
EXTENDS Naturals, Sequences

CONSTANTS
    Replicas,
    Requests,       \* concurrent Enforce or IsMember calls
    Roles,
    RoleCacheTTL,   \* in ticks
    MaxChanges,     \* bound: changes of the roles or the grants at authz
    Reloading       \* the replicas whose policy reloads are followed

ASSUME CacheAssumption ==
    /\ RoleCacheTTL \in Nat \ {0}
    /\ MaxChanges \in Nat
    /\ Reloading \subseteq Replicas

VARIABLES
    truth,     \* the user's roles at authz
    recent,    \* what they have been since the last membership event (history)
    grants,    \* the roles with grants in the namespace, at authz
    deleted,   \* the organization was deleted
    changes, since,   \* changes so far; ticks since the roles last changed
    kvRoles,   \* authz:roles:<namespace>:<org>:<user>
    cache,     \* roleCache of each replica
    snapshot,  \* policyRules of each replica
    model,     \* casbin model of each replica
    rebuild,   \* rebuildLocked of each replica: the calls it has still to make
    loads,     \* snapshots read from authz and not yet applied
    events,    \* policy-change events a replica has not handled
    missed,    \* replicas an eviction was lost to (history)
    raced,     \* an eviction ran while a lookup held older roles (history)
    dropped,   \* roles of entries a rebuild found expired, per replica (history)
    req        \* the calls

authz == <<truth, recent, grants, deleted, changes, since>>
policy == <<snapshot, rebuild, loads>>
bus == <<events, missed>>

vars == <<authz, kvRoles, cache, policy, model, bus, raced, dropped, req>>

-----------------------------------------------------------------------------
\* left: ticks to the end of the lifetime.  A key of the shared cache is gone
\* at 0; an entry of the local one stays and is not used.
Entry == [cached: BOOLEAN, roles: SUBSET Roles, left: 0..RoleCacheTTL]

NoEntry == [cached |-> FALSE, roles |-> {}, left |-> 0]

\* Mutant of Fresh: one tick too many.
FreshTooLong(roles) == [cached |-> TRUE, roles |-> roles, left |-> RoleCacheTTL + 1]

Fresh(roles) == [cached |-> TRUE, roles |-> roles, left |-> RoleCacheTTL]

\* UserRoles: what ListUserOrganizationRoles can answer.
Resolved == {{}} \union {{role} : role \in Roles}

Call == [pc: {"idle", "kv", "rpc", "kvSet", "insert", "decide"}, at: Replicas, roles: SUBSET Roles]

\* A casbin model: its two tables of rules, and the role manager's links,
\* which are what a request is matched against.
Model == [p: SUBSET Roles, g: SUBSET Roles, links: SUBSET Roles]

MaxSince == 2 * RoleCacheTTL - 1

TypeOK ==
    /\ truth \in Resolved /\ recent \subseteq Resolved
    /\ grants \subseteq Roles /\ deleted \in BOOLEAN
    /\ changes \in 0..MaxChanges /\ since \in 0..MaxSince
    /\ kvRoles \in Entry
    /\ cache \in [Replicas -> Entry]
    /\ snapshot \in [Replicas -> SUBSET Roles]
    /\ model \in [Replicas -> Model]
    /\ rebuild \in [Replicas -> {"done", "policies", "groupings"}]
    /\ loads \in [Replicas -> SUBSET SUBSET Roles]
    /\ events \in [Replicas -> Seq({"membership", "evicting", "organization"})]
    /\ missed \subseteq Replicas
    /\ raced \in BOOLEAN
    /\ dropped \in [Replicas -> SUBSET Roles]
    /\ req \in [Requests -> Call]

\* Start has loaded the policies and subscribed.
Init ==
    /\ truth \in Resolved /\ recent = {truth}
    /\ grants \in SUBSET Roles /\ deleted = FALSE
    /\ changes = 0 /\ since = MaxSince
    /\ kvRoles = NoEntry
    /\ cache = [r \in Replicas |-> NoEntry]
    /\ snapshot = [r \in Replicas |-> grants]
    /\ model = [r \in Replicas |-> [p |-> grants, g |-> {}, links |-> {}]]
    /\ rebuild = [r \in Replicas |-> "done"]
    /\ loads = [r \in Replicas |-> {}]
    /\ events = [r \in Replicas |-> <<>>]
    /\ missed = {} /\ raced = FALSE
    /\ dropped = [r \in Replicas |-> {}]
    /\ req \in [Requests -> [pc: {"idle"}, at: Replicas, roles: {{}}]]

-----------------------------------------------------------------------------
At(q, pc) == req[q].pc = pc

Goto(q, pc) == req' = [req EXCEPT ![q].pc = pc]

Hold(q, pc, roles) == req' = [req EXCEPT ![q].pc = pc, ![q].roles = roles]

\* e.mu is free: rebuildLocked holds it from its first to its last call.
Unlocked(r) == rebuild[r] = "done"

\* AddGroupingPolicy and RemoveGroupingPolicy, for each of the roles: a rule
\* that is not in the table is not removed, nor is its link.
Grouped(m, roles) == [p |-> m.p, g |-> m.g \union roles, links |-> m.links \union roles]

Ungrouped(m, roles) == [p |-> m.p, g |-> m.g \ roles, links |-> m.links \ (roles \cap m.g)]

\* casbin's ClearPolicy: the tables, not the links.
Cleared(m) == [p |-> {}, g |-> {}, links |-> m.links]

Holding(q) == req[q].pc \in {"kvSet", "insert"}

-----------------------------------------------------------------------------
\* A change at authz: the event reaches a replica or is lost to it.
Announce(kind) ==
    \E lost \in SUBSET Replicas :
        /\ events' = [r \in Replicas |-> IF r \in lost THEN events[r] ELSE Append(events[r], kind)]
        /\ missed' = missed \union lost

ChangeMembership(roles) ==
    /\ changes < MaxChanges /\ ~deleted
    /\ roles # truth
    /\ truth' = roles /\ recent' = {roles}
    /\ changes' = changes + 1 /\ since' = 0
    /\ Announce("membership")
    /\ UNCHANGED <<grants, deleted, kvRoles, cache, policy, model, raced, dropped, req>>

DeleteOrganization ==
    /\ changes < MaxChanges /\ ~deleted
    /\ truth' = {} /\ recent' = {{}} /\ deleted' = TRUE
    /\ changes' = changes + 1 /\ since' = 0
    /\ Announce("organization")
    /\ UNCHANGED <<grants, kvRoles, cache, policy, model, raced, dropped, req>>

\* UpdateRole with a new name, of the user's role: its grants are replaced with
\* it.  The event is the one of a change of grants: a replica reloads its
\* policies, and evicts nothing.
RenameRole(old, new, kept) ==
    /\ changes < MaxChanges /\ ~deleted
    /\ truth = {old} /\ new # old /\ kept \subseteq {new}
    /\ truth' = {new} /\ recent' = recent \union {{new}}
    /\ grants' = (grants \ {old}) \union kept
    /\ changes' = changes + 1 /\ since' = 0
    /\ UNCHANGED <<deleted, kvRoles, cache, policy, model, bus, raced, dropped, req>>

\* Its event makes a replica reload, which it also does on its own (LoadPolicies).
ChangeGrants(roles) ==
    /\ changes < MaxChanges
    /\ grants' = roles
    /\ changes' = changes + 1
    /\ UNCHANGED <<truth, recent, deleted, since, kvRoles, cache, policy, model, bus, raced, dropped, req>>

-----------------------------------------------------------------------------
\* ensureRoles: an entry that is alive is used.
EnsureRoles(q) ==
    LET r == req[q].at IN
    /\ At(q, "idle")
    /\ Unlocked(r)
    /\ Goto(q, IF cache[r].cached /\ cache[r].left > 0 THEN "decide" ELSE "kv")
    /\ UNCHANGED <<authz, kvRoles, cache, policy, model, bus, raced, dropped>>

\* Mutant of GetShared: a hit is written back with a new lifetime.
GetSharedRefreshed(q) ==
    /\ At(q, "kv")
    /\ IF kvRoles.cached THEN Hold(q, "kvSet", kvRoles.roles) ELSE Goto(q, "rpc")
    /\ UNCHANGED <<authz, kvRoles, cache, policy, model, bus, raced, dropped>>

\* lookupRoles: the shared cache; an error counts as a miss.
GetShared(q) ==
    /\ At(q, "kv")
    /\ \/ kvRoles.cached /\ Hold(q, "insert", kvRoles.roles)
       \/ Goto(q, "rpc")
    /\ UNCHANGED <<authz, kvRoles, cache, policy, model, bus, raced, dropped>>

\* ListUserOrganizationRoles; an error ends the call.
AskAuthz(q) ==
    /\ At(q, "rpc")
    /\ \/ Hold(q, "kvSet", truth)
       \/ Goto(q, "idle")
    /\ UNCHANGED <<authz, kvRoles, cache, policy, model, bus, raced, dropped>>

\* The answer goes into the shared cache; an error is logged.
SetShared(q) ==
    /\ At(q, "kvSet")
    /\ kvRoles' \in {kvRoles, Fresh(req[q].roles)}
    /\ Goto(q, "insert")
    /\ UNCHANGED <<authz, cache, policy, model, bus, raced, dropped>>

\* Mutant of InsertRoles: the old groupings are not removed.
InsertRolesKept(q) ==
    LET r == req[q].at IN
    /\ At(q, "insert")
    /\ Unlocked(r)
    /\ cache' = [cache EXCEPT ![r] = Fresh(req[q].roles)]
    /\ model' = [model EXCEPT ![r] = Grouped(@, req[q].roles)]
    /\ Hold(q, "decide", {})
    /\ UNCHANGED <<authz, kvRoles, policy, bus, raced, dropped>>

\* ensureRoles again: the entry and its groupings replace the old ones.
InsertRoles(q) ==
    LET r == req[q].at IN
    /\ At(q, "insert")
    /\ Unlocked(r)
    /\ cache' = [cache EXCEPT ![r] = Fresh(req[q].roles)]
    /\ model' = [model EXCEPT ![r] = Grouped(Ungrouped(@, cache[r].roles), req[q].roles)]
    /\ Hold(q, "decide", {})
    /\ UNCHANGED <<authz, kvRoles, policy, bus, raced, dropped>>

\* Enforce reads the model, without e.mu.
Decide(q) ==
    /\ At(q, "decide")
    /\ Goto(q, "idle")
    /\ UNCHANGED <<authz, kvRoles, cache, policy, model, bus, raced, dropped>>

-----------------------------------------------------------------------------
\* Mutant of EvictShared: the shared key is left alone.
EvictSharedSkipped(r) ==
    /\ events[r] # <<>> /\ Head(events[r]) = "membership"
    /\ events' = [events EXCEPT ![r] = <<"evicting">> \o Tail(@)]
    /\ UNCHANGED <<authz, kvRoles, cache, policy, missed, model, raced, dropped, req>>

\* evictRoles, first call: the shared key; an error is logged.
EvictShared(r) ==
    /\ events[r] # <<>> /\ Head(events[r]) = "membership"
    /\ \/ kvRoles' = NoEntry /\ UNCHANGED missed
       \/ missed' = missed \union {r} /\ UNCHANGED kvRoles
    /\ events' = [events EXCEPT ![r] = <<"evicting">> \o Tail(@)]
    /\ raced' = (raced \/ \E q \in Requests : At(q, "kvSet") /\ req[q].roles \notin recent)
    /\ UNCHANGED <<authz, cache, policy, model, dropped, req>>

Forgotten(r) ==
    /\ cache' = [cache EXCEPT ![r] = NoEntry]
    /\ model' = [model EXCEPT ![r] = Ungrouped(@, cache[r].roles)]
    /\ events' = [events EXCEPT ![r] = Tail(@)]
    /\ raced' = (raced \/ \E q \in Requests :
                            Holding(q) /\ req[q].at = r /\ req[q].roles \notin recent)

\* evictRoles, under e.mu.
EvictLocal(r) ==
    /\ events[r] # <<>> /\ Head(events[r]) = "evicting"
    /\ Unlocked(r)
    /\ Forgotten(r)
    /\ UNCHANGED <<authz, kvRoles, policy, missed, dropped, req>>

\* evictOrganization: only the keys this replica has cached are deleted from
\* the shared cache too.
EvictOrganization(r) ==
    /\ events[r] # <<>> /\ Head(events[r]) = "organization"
    /\ Unlocked(r)
    /\ kvRoles' \in IF cache[r].cached THEN {NoEntry, kvRoles} ELSE {kvRoles}
    /\ Forgotten(r)
    /\ UNCHANGED <<authz, policy, missed, dropped, req>>

-----------------------------------------------------------------------------
\* reloadPolicies, by the ticker or an event: the snapshot is read,
LoadPolicies(r) ==
    /\ r \in Reloading
    /\ loads' = [loads EXCEPT ![r] = @ \union {grants}]
    /\ UNCHANGED <<authz, kvRoles, cache, snapshot, rebuild, model, bus, raced, dropped, req>>

\* and under e.mu the rules are cleared, but not the role manager's links
\* (reloads may finish in any order),
ClearPolicy(r, rules) ==
    /\ rules \in loads[r]
    /\ Unlocked(r)
    /\ snapshot' = [snapshot EXCEPT ![r] = rules]
    /\ loads' = [loads EXCEPT ![r] = @ \ {rules}]
    /\ model' = [model EXCEPT ![r] = Cleared(@)]
    /\ rebuild' = [rebuild EXCEPT ![r] = "policies"]
    /\ UNCHANGED <<authz, kvRoles, cache, bus, raced, dropped, req>>

\* the policies are added,
AddPolicies(r) ==
    /\ rebuild[r] = "policies"
    /\ model' = [model EXCEPT ![r].p = snapshot[r]]
    /\ rebuild' = [rebuild EXCEPT ![r] = "groupings"]
    /\ UNCHANGED <<authz, kvRoles, cache, snapshot, loads, bus, raced, dropped, req>>

\* and the groupings of the entries that have not expired.  The others go, but
\* not the links made of them.
AddGroupingPolicies(r) ==
    /\ rebuild[r] = "groupings"
    /\ cache' = [cache EXCEPT ![r] = IF @.left = 0 THEN NoEntry ELSE @]
    /\ model' = [model EXCEPT ![r] = Grouped(@, cache'[r].roles)]
    /\ dropped' = [dropped EXCEPT ![r] = @ \union (cache[r].roles \ cache'[r].roles)]
    /\ rebuild' = [rebuild EXCEPT ![r] = "done"]
    /\ UNCHANGED <<authz, kvRoles, snapshot, loads, bus, raced, req>>

Older(entry) ==
    [entry EXCEPT !.left = IF @ = 0 THEN 0 ELSE @ - 1]

\* Time passes, but a lookup that holds an answer takes less than a tick.
Tick ==
    /\ \A q \in Requests : ~Holding(q)
    /\ kvRoles' = IF kvRoles.left <= 1 THEN NoEntry ELSE Older(kvRoles)
    /\ cache' = [r \in Replicas |-> Older(cache[r])]
    /\ since' = IF since = MaxSince THEN since ELSE since + 1
    /\ UNCHANGED <<truth, recent, grants, deleted, changes, policy, model, bus, raced, dropped, req>>

Lookup(q) ==
    EnsureRoles(q) \/ GetShared(q) \/ AskAuthz(q) \/ SetShared(q) \/ InsertRoles(q) \/ Decide(q)

Reload(r) ==
    \/ LoadPolicies(r) \/ AddPolicies(r) \/ AddGroupingPolicies(r)
    \/ \E rules \in loads[r] : ClearPolicy(r, rules)

Next ==
    \/ \E roles \in Resolved : ChangeMembership(roles)
    \/ \E old, new \in Roles : \E kept \in SUBSET {new} : RenameRole(old, new, kept)
    \/ \E roles \in SUBSET Roles : ChangeGrants(roles)
    \/ DeleteOrganization
    \/ \E q \in Requests : Lookup(q)
    \/ \E r \in Replicas : EvictShared(r) \/ EvictLocal(r) \/ EvictOrganization(r) \/ Reload(r)
    \/ Tick

Spec == Init /\ [][Next]_vars

-----------------------------------------------------------------------------
\* Outside a rebuild the rules of a model are the last policy snapshot and the
\* groupings of the cached roles, and Enforce matches requests against links to
\* all of those roles and to no other, however lookups, evictions, expiries and
\* reloads followed each other, except to roles of an entry that had expired
\* when a rebuild dropped it: their links stay.  (In a rebuild the policies are
\* away for a while and Enforce denies.)
ModelMirrorsCaches ==
    \A r \in Replicas : Unlocked(r) =>
        /\ model[r].p = snapshot[r]
        /\ model[r].g = cache[r].roles
        /\ cache[r].roles \subseteq model[r].links
        /\ model[r].links \subseteq cache[r].roles \union dropped[r]

\* A replica that has handled every membership event caches no roles of before
\* the last of them, unless an eviction was lost or overtook a lookup that held
\* such roles.  (A rename sends no such event: the name of before may stay.)
EvictedRolesStayOut ==
    \A r \in Replicas :
        (/\ events[r] = <<>> /\ r \notin missed
         /\ ~raced /\ ~deleted
         /\ cache[r].cached)
        => \/ cache[r].roles \in recent
           \/ cache[r].left = 0

\* Roles that changed are reused from the caches for less than two lifetimes
\* more, one in each cache, whatever events are lost and whether the change
\* sends one or not.  (This bounds the caches: a link that a rebuild left in
\* the model is not bounded.)
RolesStayBounded ==
    since = MaxSince =>
        \A r \in Replicas :
            cache[r].cached /\ cache[r].left > 0 => cache[r].roles = truth

=============================================================================
