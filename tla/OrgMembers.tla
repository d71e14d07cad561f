----------------------------- MODULE OrgMembers -----------------------------
(***************************************************************************)
(* One organization, its members and roles: internal/authz/policy (org.go, *)
(* members.go, roles.go).  A call first reads and checks, query by query,  *)
(* then writes the relational rows and the casbin rules in one             *)
(* transaction, then applies the delta to the enforcer of its process      *)
(* while periodic and event-driven reloads replace it.                     *)
(*                                                                         *)
(* The transactions conflict on the member, role and rule rows they share  *)
(* and take the PolicyRevision row last, so each is one step; but what     *)
(* DeleteRole deletes first is what its first statement could see.         *)
(***************************************************************************)
EXTENDS Naturals, FiniteSets

CONSTANTS
    Users,
    Roles,       \* ids of organization_roles rows
    Names,       \* role names
    RoleOwner,   \* the name of the owner role, the one system role modelled
    Calls,       \* concurrent calls on this organization
    Watched,     \* the rules followed into the memory of one replica
    None         \* no user, role or name

\* A casbin rule of the organization: <<user, role>> is its g rule, <<role>>
\* stands for the p rules that are the role's grants.
Rules == (Users \X Names) \union {<<n>> : n \in Names}

ASSUME NamesAssumption ==
    /\ RoleOwner \in Names
    /\ Watched \subseteq Rules
    /\ None \notin Users \union Roles \union Names

ASSUME UsersAssumption == IsFiniteSet(Users)

VARIABLES
    organization,   \* organizations: the row, with an id of its own
    member,   \* organization_members: the role of each user
    name,     \* organization_roles: the name of each role
    gRules,   \* casbin_rule, ptype g: user and role name
    pRules,   \* casbin_rule, ptype p: the roles that have grants
    enforcer, \* the watched rules one replica has in memory
    loads,    \* what LoadPolicy has read of them and not applied yet
    call      \* the calls: where they are and what they read

stored == <<organization, member, name, gRules, pRules>>

vars == <<organization, member, name, gRules, pRules, enforcer, loads, call>>

-----------------------------------------------------------------------------
MaybeUser == Users \union {None}
MaybeRole == Roles \union {None}
MaybeName == Names \union {None}

\* pc is the next query of the call, "tx" its transaction, and the last four
\* what is left to do in memory.  old and new are role names; gone: the member
\* row that was read has been deleted or, for DeleteRole, rules of its name were
\* written since its transaction may have begun.
Call == [pc: {"idle", "member", "role", "ownerGrant", "lastOwner", "assigned", "tx",
              "removeRule", "addRule", "removeGrants", "removeMembers", "load"},
         op: {"add", "remove", "change", "create", "update", "delete", "dissolve"},
         user: MaybeUser, role: MaybeRole,
         old: MaybeName, new: MaybeName, gone: BOOLEAN]

Idle == [pc |-> "idle", op |-> "add", user |-> None,
         role |-> None, old |-> None, new |-> None, gone |-> FALSE]

TypeOK ==
    /\ organization \in {"none", "exists", "deleted"}
    /\ member \in [Users -> MaybeRole]
    /\ name \in [Roles -> MaybeName]
    /\ gRules \subseteq Users \X Names
    /\ pRules \subseteq Names
    /\ enforcer \subseteq Watched
    /\ loads \subseteq SUBSET Watched
    /\ call \in [Calls -> Call]

Init ==
    /\ organization = "none"
    /\ member = [u \in Users |-> None]
    /\ name = [r \in Roles |-> None]
    /\ gRules = {}
    /\ pRules = {}
    /\ enforcer = {}
    /\ loads = {}
    /\ call = [c \in Calls |-> Idle]

-----------------------------------------------------------------------------
RoleOf(u) == IF member[u] = None THEN None ELSE name[member[u]]

\* What LoadPolicy reads.
Policy == (gRules \union {<<n>> : n \in pRules}) \cap Watched

Owners == {u \in Users : RoleOf(u) = RoleOwner}

Named(n) == {r \in Roles : name[r] = n}

\* Ids are fresh uuids.
FreshRoles == {r \in Roles : name[r] = None /\ \A c \in Calls : call[c].role # r}

At(c, pc, ops) == call[c].pc = pc /\ call[c].op \in ops

Return(c) == call' = [call EXCEPT ![c] = Idle]

Goto(c, pc) == call' = [call EXCEPT ![c].pc = pc]

Start(c, request) == call[c].pc = "idle" /\ call' = [call EXCEPT ![c] = request]

\* c commits rules that name the role n and goes on.  The DELETE of another
\* call's DeleteRole, its first statement, may have run without seeing them.
RulesInserted(c, n, pc) ==
    [d \in Calls |->
        IF d = c THEN [call[c] EXCEPT !.pc = pc]
        ELSE [call[d] EXCEPT !.gone = @ \/ (At(d, "tx", {"delete"}) /\ call[d].old = n)]]

-----------------------------------------------------------------------------
\* CreateOrganization is one transaction: the row, the system role, the first
\* owner and the owner's rule.
CreateOrganization(c, u) ==
    /\ organization = "none"
    /\ organization' = "exists"
    /\ \E r \in FreshRoles :
          /\ name' = [name EXCEPT ![r] = RoleOwner]
          /\ member' = [member EXCEPT ![u] = r]
    /\ gRules' = {<<u, RoleOwner>>}
    /\ Start(c, [Idle EXCEPT !.pc = "addRule", !.user = u, !.new = RoleOwner])
    /\ UNCHANGED <<pRules, enforcer, loads>>

\* AddMember, RemoveMember, ChangeMemberRole (SetMember is an add or a change
\* by no actor) and the role operations enter.
StartMember(c, u, n) ==
    /\ \/ Start(c, [Idle EXCEPT !.pc = "role", !.op = "add", !.user = u, !.new = n])
       \/ Start(c, [Idle EXCEPT !.pc = "member", !.op = "change", !.user = u,
                                !.new = n])
       \/ Start(c, [Idle EXCEPT !.pc = "member", !.op = "remove", !.user = u])
    /\ UNCHANGED <<stored, enforcer, loads>>

\* Mutant of StartRole: finalName is not defaulted to the name.
StartRoleUnnamed(c, n, m) ==
    /\ \/ m # RoleOwner /\ Start(c, [Idle EXCEPT !.pc = "tx", !.op = "create", !.new = m])
       \/ /\ m = n \/ m # RoleOwner
          /\ Start(c, [Idle EXCEPT !.pc = "role", !.op = "update", !.old = n,
                                   !.new = IF m = n THEN None ELSE m])
       \/ Start(c, [Idle EXCEPT !.pc = "role", !.op = "delete", !.old = n])
    /\ UNCHANGED <<stored, enforcer, loads>>

\* A custom role cannot take a system name; UpdateRole may keep its name.
StartRole(c, n, m) ==
    /\ \/ m # RoleOwner /\ Start(c, [Idle EXCEPT !.pc = "tx", !.op = "create", !.new = m])
       \/ /\ m = n \/ m # RoleOwner
          /\ Start(c, [Idle EXCEPT !.pc = "role", !.op = "update", !.old = n, !.new = m])
       \/ Start(c, [Idle EXCEPT !.pc = "role", !.op = "delete", !.old = n])
    /\ UNCHANGED <<stored, enforcer, loads>>

\* memberWithRole; a change to the role the member has is done.
FindMember(c) ==
    /\ At(c, "member", {"remove", "change"})
    /\ LET old == RoleOf(call[c].user)
       IN  IF old = None \/ old = call[c].new THEN Return(c)
           ELSE call' = [call EXCEPT ![c] =
                   [@ EXCEPT !.old = old, !.gone = FALSE,
                             !.pc = IF call[c].op = "change" THEN "role"
                                    ELSE IF old = RoleOwner THEN "ownerGrant" ELSE "tx"]]
    /\ UNCHANGED <<stored, enforcer, loads>>

\* roleByName for the role that is granted (requireOrganization before it finds
\* no less: without the organization there is no role) ...
FindGrantedRole(c) ==
    /\ At(c, "role", {"add", "change"})
    /\ \/ Named(call[c].new) = {} /\ Return(c)
       \/ \E r \in Named(call[c].new) :
             call' = [call EXCEPT ![c] =
                [@ EXCEPT !.role = r,
                          !.pc = IF RoleOwner \in {call[c].old, call[c].new}
                                 THEN "ownerGrant" ELSE "tx"]]
    /\ UNCHANGED <<stored, enforcer, loads>>

\* ... and for the one that is updated or deleted: system roles are not.
FindRole(c) ==
    /\ At(c, "role", {"update", "delete"})
    /\ \/ (Named(call[c].old) = {} \/ call[c].old = RoleOwner) /\ Return(c)
       \/ \E r \in Named(call[c].old) :
             /\ call[c].old # RoleOwner
             /\ call' = [call EXCEPT ![c] =
                   [@ EXCEPT !.role = r,
                             !.pc = IF call[c].op = "delete" THEN "assigned" ELSE "tx"]]
    /\ UNCHANGED <<stored, enforcer, loads>>

\* guardOwnerGrant: only an owner, or the platform (None), grants or revokes
\* owner.  The actor is an argument of the call that is used here only.
guardOwnerGrant(c, actor) ==
    /\ call[c].pc = "ownerGrant"
    /\ IF actor \in Owners \union {None}
       THEN Goto(c, IF call[c].old = RoleOwner THEN "lastOwner" ELSE "tx")
       ELSE Return(c)
    /\ UNCHANGED <<stored, enforcer, loads>>

\* Mutant of guardLastOwner: an off-by-one in owners <= 1.
guardLastOwnerOffByOne(c) ==
    /\ call[c].pc = "lastOwner"
    /\ IF Cardinality(Owners) < 1 THEN Return(c) ELSE Goto(c, "tx")
    /\ UNCHANGED <<stored, enforcer, loads>>

guardLastOwner(c) ==
    /\ call[c].pc = "lastOwner"
    /\ IF Cardinality(Owners) <= 1 THEN Return(c) ELSE Goto(c, "tx")
    /\ UNCHANGED <<stored, enforcer, loads>>

\* DeleteRole: a role that a member has is in use.
CheckAssigned(c) ==
    /\ call[c].pc = "assigned"
    /\ IF \E u \in Users : member[u] = call[c].role THEN Return(c) ELSE Goto(c, "tx")
    /\ UNCHANGED <<stored, enforcer, loads>>

-----------------------------------------------------------------------------
\* AddMember's transaction: (organization_id, user_id) and the rule are
\* unique, and the role must still be there.
AddMember(c) ==
    /\ At(c, "tx", {"add"})
    /\ member[call[c].user] = None
    /\ name[call[c].role] # None
    /\ <<call[c].user, call[c].new>> \notin gRules
    /\ member' = [member EXCEPT ![call[c].user] = call[c].role]
    /\ gRules' = gRules \union {<<call[c].user, call[c].new>>}
    /\ call' = RulesInserted(c, call[c].new, "addRule")
    /\ UNCHANGED <<organization, name, pRules, enforcer, loads>>

\* The calls once c, which is next then, has deleted the member rows of users.
RowsDeleted(c, users, next) ==
    [d \in Calls |-> IF d = c THEN next
                     ELSE [call[d] EXCEPT !.gone = @ \/ call[d].user \in users]]

\* Mutant of RulesRemoved: only the rule of the role that was read.
RulesRemovedByRole(u, old) == gRules \ {<<u, old>>}

\* Every g rule of the user goes, not just that of the role that was read.
RulesRemoved(u, old) == {g \in gRules : g[1] # u}

\* RemoveMember's transaction: the row by its id, and the rules.
RemoveMember(c) ==
    /\ At(c, "tx", {"remove"})
    /\ ~call[c].gone
    /\ member' = [member EXCEPT ![call[c].user] = None]
    /\ gRules' = RulesRemoved(call[c].user, call[c].old)
    /\ call' = RowsDeleted(c, {call[c].user}, [call[c] EXCEPT !.pc = "removeRule"])
    /\ UNCHANGED <<organization, name, pRules, enforcer, loads>>

\* Mutant of RulesChanged: the rule of the old role is kept.
RulesChangedKept(u, old, new) == gRules \union {<<u, new>>}

RulesChanged(u, old, new) == (gRules \ {<<u, old>>}) \union {<<u, new>>}

\* ChangeMemberRole's transaction: the old rule, if it is there, is replaced.
ChangeMemberRole(c) ==
    /\ At(c, "tx", {"change"})
    /\ ~call[c].gone
    /\ name[call[c].role] # None
    /\ <<call[c].user, call[c].new>> \notin gRules
    /\ member' = [member EXCEPT ![call[c].user] = call[c].role]
    /\ gRules' = RulesChanged(call[c].user, call[c].old, call[c].new)
    /\ call' = RulesInserted(c, call[c].new, "removeRule")
    /\ UNCHANGED <<organization, name, pRules, enforcer, loads>>

CreateRole(c) ==
    /\ At(c, "tx", {"create"})
    /\ organization = "exists"
    /\ Named(call[c].new) = {}
    /\ call[c].new \notin pRules
    /\ \E r \in FreshRoles : name' = [name EXCEPT ![r] = call[c].new]
    /\ pRules' = pRules \union {call[c].new}
    /\ call' = RulesInserted(c, call[c].new, "addRule")
    /\ UNCHANGED <<organization, member, gRules, enforcer, loads>>

\* Mutant of GrantsUpdated: the grants under the old name stay.
GrantsUpdatedKept(old, new) == pRules \union {new}

GrantsUpdated(old, new) == (pRules \ {old}) \union {new}

Renamed(g, old, new) == IF g[2] = old THEN <<g[1], new>> ELSE g

\* UpdateRole's transaction, by role id: the name, the grants stored under the
\* name that was read, and the rules of the members.  Role names and rules are
\* unique.
UpdateRole(c) ==
    LET old == call[c].old
        new == call[c].new
    IN  /\ At(c, "tx", {"update"})
        /\ name[call[c].role] # None
        /\ new # old =>
              /\ Named(new) \subseteq {call[c].role}
              /\ new \notin pRules
              /\ \A u \in Users : <<u, old>> \in gRules => <<u, new>> \notin gRules
        /\ name' = IF new = old THEN name ELSE [name EXCEPT ![call[c].role] = new]
        /\ pRules' = GrantsUpdated(old, new)
        /\ gRules' = {Renamed(g, old, new) : g \in gRules}
        /\ call' = RulesInserted(c, new, "load")
        /\ UNCHANGED <<organization, member, enforcer, loads>>

\* DeleteRole's transaction: the rules of the name that was read, of which those
\* committed since it began may be missed, and then the role row.  The foreign
\* key of organization_members refuses a role that was assigned since.
DeleteRole(c) ==
    /\ At(c, "tx", {"delete"})
    /\ name[call[c].role] # None
    /\ \A u \in Users : member[u] # call[c].role
    /\ name' = [name EXCEPT ![call[c].role] = None]
    /\ \/ pRules' = pRules \ {call[c].old}
       \/ call[c].gone /\ UNCHANGED pRules
    /\ \E missed \in SUBSET {g \in gRules : g[2] = call[c].old} :
          /\ missed # {} => call[c].gone
          /\ gRules' = {g \in gRules : g[2] # call[c].old \/ g \in missed}
    /\ Goto(c, "removeGrants")
    /\ UNCHANGED <<organization, member, enforcer, loads>>

\* DeleteOrganization: the transaction deletes the members, the roles, the row
\* and every rule of the organization; a row that another one adds meanwhile
\* makes its foreign keys refuse.
DeleteOrganization(c) ==
    /\ organization = "exists"
    /\ call[c].pc = "idle"
    /\ organization' = "deleted"
    /\ member' = [u \in Users |-> None]
    /\ name' = [r \in Roles |-> None]
    /\ gRules' = {}
    /\ pRules' = {}
    /\ call' = RowsDeleted(c, Users, [Idle EXCEPT !.pc = "removeGrants", !.op = "dissolve"])
    /\ UNCHANGED <<enforcer, loads>>

\* A constraint, a missing row or the database refuses; nothing is written.
TxFails(c) ==
    /\ call[c].pc = "tx"
    /\ Return(c)
    /\ UNCHANGED <<stored, enforcer, loads>>

-----------------------------------------------------------------------------
\* memoryRemoveRules; a change goes on with memoryAddRules.
memoryRemoveRules(c) ==
    /\ call[c].pc = "removeRule"
    /\ enforcer' = enforcer \ {<<call[c].user, call[c].old>>}
    /\ IF call[c].op = "change" THEN Goto(c, "addRule") ELSE Return(c)
    /\ UNCHANGED <<stored, loads>>

memoryAddRules(c) ==
    /\ call[c].pc = "addRule"
    /\ enforcer' = (enforcer \union (IF call[c].op = "create" THEN {<<call[c].new>>}
                                     ELSE {<<call[c].user, call[c].new>>})) \cap Watched
    /\ Return(c)
    /\ UNCHANGED <<stored, loads>>

\* DeleteRole removes the role's grants, and no g rule, from memory;
\* DeleteOrganization all grants, ...
RemoveFilteredPolicy(c) ==
    /\ call[c].pc = "removeGrants"
    /\ IF call[c].op = "delete"
       THEN enforcer' = enforcer \ {<<call[c].old>>} /\ Return(c)
       ELSE enforcer' = enforcer \ {<<n>> : n \in Names} /\ Goto(c, "removeMembers")
    /\ UNCHANGED <<stored, loads>>

\* ... and then all g rules.
RemoveFilteredGroupingPolicy(c) ==
    /\ call[c].pc = "removeMembers"
    /\ enforcer' = enforcer \ (Users \X Names)
    /\ Return(c)
    /\ UNCHANGED <<stored, loads>>

\* LoadPolicy reads the table under the enforcer's read lock, and applies what
\* it read once it has the write lock: for UpdateRole ...
LoadAfterUpdate(c) ==
    /\ call[c].pc = "load"
    /\ loads' = loads \union {Policy}
    /\ Return(c)
    /\ UNCHANGED <<stored, enforcer>>

\* The call ran on another replica, or a delta failed: it is logged and the call
\* goes on.
NoDelta(c) ==
    /\ call[c].pc \in {"removeRule", "addRule", "removeGrants", "removeMembers", "load"}
    /\ \/ Return(c)
       \/ At(c, "removeRule", {"change"}) /\ Goto(c, "addRule")
       \/ At(c, "removeGrants", {"dissolve"}) /\ Goto(c, "removeMembers")
    /\ UNCHANGED <<stored, enforcer, loads>>

\* Mutant of LoadPolicy: no ticker, only a change makes the replica reload.
LoadPolicyOnChange ==
    /\ loads = {}
    /\ \E c \in Calls : call[c].pc \in {"removeRule", "addRule", "removeGrants"}
    /\ loads' = {Policy}
    /\ UNCHANGED <<stored, enforcer, call>>

\* ... and for the ticker, a change event of another replica, or a restart.
LoadPolicy ==
    /\ loads = {}
    /\ loads' = {Policy}
    /\ UNCHANGED <<stored, enforcer, call>>

ApplyPolicy(policy) ==
    /\ enforcer' = policy
    /\ loads' = loads \ {policy}
    /\ UNCHANGED <<stored, call>>

Check(c) ==
    \/ FindMember(c) \/ FindGrantedRole(c) \/ FindRole(c)
    \/ guardLastOwner(c) \/ CheckAssigned(c)

Transaction(c) ==
    \/ AddMember(c) \/ RemoveMember(c) \/ ChangeMemberRole(c)
    \/ CreateRole(c) \/ UpdateRole(c) \/ DeleteRole(c) \/ TxFails(c)
    \/ DeleteOrganization(c)

Memory(c) ==
    \/ memoryRemoveRules(c) \/ memoryAddRules(c) \/ RemoveFilteredPolicy(c)
    \/ RemoveFilteredGroupingPolicy(c) \/ LoadAfterUpdate(c) \/ NoDelta(c)

Next ==
    \/ \E c \in Calls :
          \/ \E u \in Users : CreateOrganization(c, u)
          \/ \E u \in Users, n \in Names : StartMember(c, u, n)
          \/ \E actor \in MaybeUser : guardOwnerGrant(c, actor)
          \/ \E n, m \in Names : StartRole(c, n, m)
          \/ Check(c) \/ Transaction(c) \/ Memory(c)
    \/ LoadPolicy
    \/ \E policy \in loads : ApplyPolicy(policy)

Safety == Init /\ [][Next]_vars

\* The reload ticker keeps firing and a load that has started ends.
Fairness ==
    /\ WF_vars(LoadPolicy)
    /\ WF_vars(\E policy \in loads : ApplyPolicy(policy))

Spec == Safety /\ Fairness

-----------------------------------------------------------------------------
\* A user who is not a member has no rule in storage, whatever changes and
\* renames were under way when the member was removed or the organization
\* deleted.
NonMembersHaveNoRules == \A g \in gRules : member[g[1]] # None

\* "the g-rule mirroring one membership row" (membershipRule): the rules in
\* storage are exactly, for each member, the rule of the role the member row
\* names, and, for each custom role, grants under its current name.
PolicyMirrored ==
    /\ gRules = {<<u, RoleOf(u)>> : u \in {v \in Users : member[v] # None}}
    /\ pRules = {name[r] : r \in Roles} \ {None, RoleOwner}

\* RemoveMember "never removes the last owner", and guardLastOwner rejects
\* changes "that would leave the organization without an owner".
OwnerRemains == organization = "exists" => Owners # {}

\* Once no call runs, the periodic reload brings the enforcer in line with the
\* table for good, whatever order deltas and reloads were applied in.
DriftHeals ==
    <>[](\A c \in Calls : call[c].pc = "idle")
        => <>[](enforcer = Policy)

=============================================================================
