-------------------------- MODULE OrgMembersProofs --------------------------
(***************************************************************************)
(* Theorems of OrgMembers: for any number of concurrent calls its types,   *)
(* and that whoever is no member has no rule in storage; for calls that do *)
(* not overlap, that the rules mirror the rows and an owner remains.       *)
(***************************************************************************)
EXTENDS OrgMembers, FiniteSetTheorems, TLAPS

-----------------------------------------------------------------------------
(***************************************************************************)
(* The inductive invariant of concurrent calls.  A call carries what its   *)
(* next step needs; and one that is about to give a member another role,   *)
(* and has not been told that the row is gone, still has the row.          *)
(***************************************************************************)
Decided == {"ownerGrant", "lastOwner", "assigned", "tx"}

CallFits(r) ==
    /\ r.pc # "idle" /\ r.op \in {"add", "remove", "change"} => r.user \in Users
    /\ r.pc # "idle" /\ r.op \in {"add", "change", "create", "update"} => r.new \in Names
    /\ r.pc # "idle" /\ r.op \in {"update", "delete"} => r.old \in Names
    /\ r.pc \in Decided /\ r.op \in {"add", "change", "update", "delete"} => r.role \in Roles

RowThere(r) ==
    r.op = "change" /\ r.pc \in {"role"} \union Decided /\ ~r.gone => member[r.user] # None

MembersIInv ==
    /\ TypeOK
    /\ \A c \in Calls : CallFits(call[c]) /\ RowThere(call[c])
    /\ NonMembersHaveNoRules

(***************************************************************************)
(* The inductive invariant of a call that runs alone: what it read is      *)
(* still so when it uses it, and its checks passed on the rows it writes.  *)
(***************************************************************************)
Alone == \A c, d \in Calls : c = d

UniqueNames == \A r, s \in Roles : name[r] = name[s] => r = s \/ name[r] = None

RolesNamed == \A u \in Users : member[u] # None => name[member[u]] # None

Dissolved ==
    organization # "exists" =>
        /\ \A u \in Users : member[u] = None
        /\ \A r \in Roles : name[r] = None

Current(r) ==
    /\ ~r.gone
    /\ r.op \in {"remove", "change"} /\ r.pc \in {"role"} \union Decided =>
          /\ member[r.user] # None /\ r.old = RoleOf(r.user) /\ r.old # r.new
          /\ r.pc = "tx" /\ r.old = RoleOwner => Cardinality(Owners) > 1
    /\ r.op \in {"add", "change"} /\ r.pc \in Decided => name[r.role] = r.new
    /\ r.op \in {"update", "delete"} /\ r.pc \in Decided => name[r.role] = r.old /\ r.old # RoleOwner
    /\ r.pc = "assigned" => r.op = "delete"
    /\ r.op = "create" /\ r.pc # "idle" => r.new # RoleOwner
    /\ r.op = "update" /\ r.pc # "idle" => r.new = r.old \/ r.new # RoleOwner

AloneIInv ==
    /\ MembersIInv
    /\ UniqueNames /\ RolesNamed /\ Dissolved
    /\ PolicyMirrored /\ OwnerRemains
    /\ \A c \in Calls : Current(call[c])

-----------------------------------------------------------------------------
(* A call moves on.                                                        *)

LEMMA NoneIsNoOne ==
    /\ \A x \in Users \union Roles \union Names : x # None
    /\ RoleOwner \in Names /\ RoleOwner # None /\ Watched \subseteq Rules
    /\ IsFiniteSet(Users)
  BY NamesAssumption, UsersAssumption

LEMMA IdleFits ==
    /\ Idle \in Call /\ Idle.pc = "idle" /\ Idle.op = "add" /\ ~Idle.gone
    /\ Idle.user = None /\ Idle.role = None /\ Idle.old = None /\ Idle.new = None
    /\ CallFits(Idle) /\ RowThere(Idle) /\ RowThere(Idle)'
  <1>1. /\ Idle \in Call /\ Idle.pc = "idle" /\ Idle.op = "add" /\ ~Idle.gone
        /\ Idle.user = None /\ Idle.role = None /\ Idle.old = None /\ Idle.new = None
    BY DEF Idle, Call, MaybeUser, MaybeRole, MaybeName
  <1> QED
    BY <1>1 DEF CallFits, RowThere, Decided

LEMMA CallHas ==
    ASSUME MembersIInv, NEW c \in Calls, NEW s, s = call[c]
    PROVE  s \in Call /\ CallFits(s) /\ RowThere(s)
  BY DEF MembersIInv, TypeOK

\* c moves to r and no member row goes: the other calls still fit.
LEMMA CallsKeep ==
    ASSUME MembersIInv, NEW c \in Calls, NEW r \in Call, CallFits(r), RowThere(r)',
           call' = [call EXCEPT ![c] = r],
           \A u \in Users : member[u] # None => member'[u] # None
    PROVE  /\ call' \in [Calls -> Call]
           /\ \A d \in Calls : CallFits(call[d])' /\ RowThere(call[d])'
  <1>1. call \in [Calls -> Call]
    BY DEF MembersIInv, TypeOK
  <1>2. call' \in [Calls -> Call] /\ \A d \in Calls : call'[d] = IF d = c THEN r ELSE call[d]
    BY <1>1
  <1>3. ASSUME NEW d \in Calls
        PROVE  CallFits(call[d])' /\ RowThere(call[d])'
    <2>1. CASE d = c
      <3>1. call'[d] = r
        BY <1>2, <2>1
      <3> QED
        BY <3>1 DEF CallFits
    <2>2. CASE d # c
      <3>1. PICK s : s = call[d]
        OBVIOUS
      <3>2. CallFits(s) /\ RowThere(s)
        BY <3>1, CallHas
      <3>3. RowThere(s)'
        BY <3>2 DEF CallFits, RowThere, Decided
      <3>4. call'[d] = s
        BY <1>2, <2>2, <3>1
      <3> QED
        BY <3>2, <3>3, <3>4 DEF CallFits
    <2> QED
      BY <2>1, <2>2
  <1> QED
    BY <1>2, <1>3

\* A step that reads the rows, or works in memory.
LEMMA ReadStep ==
    ASSUME MembersIInv, NEW c \in Calls, NEW r \in Call, CallFits(r), RowThere(r),
           call' = [call EXCEPT ![c] = r], UNCHANGED stored,
           enforcer' \subseteq Watched, loads' \subseteq SUBSET Watched
    PROVE  MembersIInv'
  <1>1. /\ organization' = organization /\ member' = member /\ name' = name
        /\ gRules' = gRules /\ pRules' = pRules
    BY DEF stored
  <1>2. RowThere(r)'
    BY <1>1 DEF RowThere
  <1>3. call' \in [Calls -> Call] /\ \A d \in Calls : CallFits(call[d])' /\ RowThere(call[d])'
    BY <1>1, <1>2, CallsKeep
  <1>4. TypeOK'
    BY <1>1, <1>3 DEF MembersIInv, TypeOK
  <1>5. NonMembersHaveNoRules'
    BY <1>1 DEF MembersIInv, NonMembersHaveNoRules
  <1> QED
    BY <1>3, <1>4, <1>5 DEF MembersIInv

LEMMA MemoryTypes ==
    ASSUME MembersIInv
    PROVE  /\ enforcer \subseteq Watched /\ loads \subseteq SUBSET Watched
           /\ Policy \subseteq Watched
  BY DEF MembersIInv, TypeOK, Policy

LEMMA ReturnStep ==
    ASSUME MembersIInv, NEW c \in Calls, Return(c), UNCHANGED stored,
           enforcer' \subseteq Watched, loads' \subseteq SUBSET Watched
    PROVE  MembersIInv'
  <1>1. PICK r : r = Idle
    OBVIOUS
  <1>2. r \in Call /\ CallFits(r) /\ RowThere(r)
    <2>1. Idle \in Call /\ CallFits(Idle) /\ RowThere(Idle)
      BY IdleFits
    <2> QED
      BY <1>1, <2>1
  <1>3. call' = [call EXCEPT ![c] = r]
    BY <1>1 DEF Return
  <1> QED
    BY <1>2, <1>3, ReadStep

\* What a call is after Goto.
LEMMA GotoFits ==
    ASSUME MembersIInv, NEW c \in Calls, NEW pc, Goto(c, pc), NEW s, s = call[c],
           s.pc # "idle",
           pc \in {"tx", "lastOwner", "removeRule", "addRule", "removeGrants",
                   "removeMembers", "load"},
           pc \in Decided => s.pc \in Decided
    PROVE  \E r \in Call :
              /\ CallFits(r) /\ RowThere(r)
              /\ r.pc = pc /\ r.op = s.op /\ r.user = s.user /\ r.role = s.role
              /\ r.old = s.old /\ r.new = s.new /\ r.gone = s.gone
              /\ call' = [call EXCEPT ![c] = r]
  <1>1. s \in Call /\ CallFits(s) /\ RowThere(s)
    BY CallHas
  <1>2. PICK r : r = [s EXCEPT !.pc = pc]
    OBVIOUS
  <1>3. /\ r \in Call /\ r.pc = pc /\ r.op = s.op /\ r.user = s.user /\ r.role = s.role
        /\ r.old = s.old /\ r.new = s.new /\ r.gone = s.gone
    BY <1>1, <1>2 DEF Call
  <1>4. CallFits(r)
    BY <1>1, <1>3 DEF CallFits
  <1>5. RowThere(r)
    BY <1>1, <1>3 DEF RowThere
  <1>6. call' = [call EXCEPT ![c] = r]
    BY <1>2 DEF Goto, MembersIInv, TypeOK
  <1> QED
    BY <1>3, <1>4, <1>5, <1>6

LEMMA GotoStep ==
    ASSUME MembersIInv, NEW c \in Calls, NEW pc, Goto(c, pc), call[c].pc # "idle",
           pc \in {"tx", "lastOwner", "removeRule", "addRule", "removeGrants",
                   "removeMembers", "load"},
           pc \in Decided => call[c].pc \in Decided,
           UNCHANGED stored, enforcer' \subseteq Watched, loads' \subseteq SUBSET Watched
    PROVE  MembersIInv'
  <1>1. PICK s : s = call[c]
    OBVIOUS
  <1>2. PICK r \in Call : CallFits(r) /\ RowThere(r) /\ call' = [call EXCEPT ![c] = r]
    BY <1>1, GotoFits
  <1> QED
    BY <1>2, ReadStep

-----------------------------------------------------------------------------
(* The steps that start a call, read, or work in memory.                   *)

LEMMA StartStep ==
    ASSUME MembersIInv, NEW c \in Calls, NEW r \in Call, Start(c, r),
           CallFits(r), RowThere(r), UNCHANGED <<stored, enforcer, loads>>
    PROVE  MembersIInv'
  BY MemoryTypes, ReadStep DEF Start

LEMMA StartMemberNext ==
    ASSUME MembersIInv, NEW c \in Calls, NEW u \in Users, NEW n \in Names,
           StartMember(c, u, n)
    PROVE  MembersIInv'
  <1>1. UNCHANGED <<stored, enforcer, loads>>
    BY DEF StartMember
  <1>2. CASE Start(c, [Idle EXCEPT !.pc = "role", !.op = "add", !.user = u, !.new = n])
    <2>1. PICK r : r = [Idle EXCEPT !.pc = "role", !.op = "add", !.user = u, !.new = n]
      OBVIOUS
    <2>2. r \in Call /\ r.pc = "role" /\ r.op = "add" /\ r.user = u /\ r.new = n
      BY <2>1 DEF Idle, Call, MaybeUser, MaybeRole, MaybeName
    <2>3. CallFits(r) /\ RowThere(r)
      BY <2>2 DEF CallFits, RowThere, Decided
    <2> QED
      BY <1>1, <1>2, <2>1, <2>2, <2>3, StartStep
  <1>3. CASE Start(c, [Idle EXCEPT !.pc = "member", !.op = "change", !.user = u, !.new = n])
    <2>1. PICK r : r = [Idle EXCEPT !.pc = "member", !.op = "change", !.user = u, !.new = n]
      OBVIOUS
    <2>2. r \in Call /\ r.pc = "member" /\ r.op = "change" /\ r.user = u /\ r.new = n
      BY <2>1 DEF Idle, Call, MaybeUser, MaybeRole, MaybeName
    <2>3. CallFits(r) /\ RowThere(r)
      BY <2>2 DEF CallFits, RowThere, Decided
    <2> QED
      BY <1>1, <1>3, <2>1, <2>2, <2>3, StartStep
  <1>4. CASE Start(c, [Idle EXCEPT !.pc = "member", !.op = "remove", !.user = u])
    <2>1. PICK r : r = [Idle EXCEPT !.pc = "member", !.op = "remove", !.user = u]
      OBVIOUS
    <2>2. r \in Call /\ r.pc = "member" /\ r.op = "remove" /\ r.user = u
      BY <2>1 DEF Idle, Call, MaybeUser, MaybeRole, MaybeName
    <2>3. CallFits(r) /\ RowThere(r)
      BY <2>2 DEF CallFits, RowThere, Decided
    <2> QED
      BY <1>1, <1>4, <2>1, <2>2, <2>3, StartStep
  <1> QED
    BY <1>2, <1>3, <1>4 DEF StartMember

LEMMA StartRoleNext ==
    ASSUME MembersIInv, NEW c \in Calls, NEW n \in Names, NEW m \in Names,
           StartRole(c, n, m)
    PROVE  MembersIInv'
  <1>1. UNCHANGED <<stored, enforcer, loads>>
    BY DEF StartRole
  <1>2. CASE Start(c, [Idle EXCEPT !.pc = "tx", !.op = "create", !.new = m])
    <2>1. PICK r : r = [Idle EXCEPT !.pc = "tx", !.op = "create", !.new = m]
      OBVIOUS
    <2>2. r \in Call /\ r.pc = "tx" /\ r.op = "create" /\ r.new = m
      BY <2>1 DEF Idle, Call, MaybeUser, MaybeRole, MaybeName
    <2>3. CallFits(r) /\ RowThere(r)
      BY <2>2 DEF CallFits, RowThere, Decided
    <2> QED
      BY <1>1, <1>2, <2>1, <2>2, <2>3, StartStep
  <1>3. CASE Start(c, [Idle EXCEPT !.pc = "role", !.op = "update", !.old = n, !.new = m])
    <2>1. PICK r : r = [Idle EXCEPT !.pc = "role", !.op = "update", !.old = n, !.new = m]
      OBVIOUS
    <2>2. r \in Call /\ r.pc = "role" /\ r.op = "update" /\ r.old = n /\ r.new = m
      BY <2>1 DEF Idle, Call, MaybeUser, MaybeRole, MaybeName
    <2>3. CallFits(r) /\ RowThere(r)
      BY <2>2 DEF CallFits, RowThere, Decided
    <2> QED
      BY <1>1, <1>3, <2>1, <2>2, <2>3, StartStep
  <1>4. CASE Start(c, [Idle EXCEPT !.pc = "role", !.op = "delete", !.old = n])
    <2>1. PICK r : r = [Idle EXCEPT !.pc = "role", !.op = "delete", !.old = n]
      OBVIOUS
    <2>2. r \in Call /\ r.pc = "role" /\ r.op = "delete" /\ r.old = n
      BY <2>1 DEF Idle, Call, MaybeUser, MaybeRole, MaybeName
    <2>3. CallFits(r) /\ RowThere(r)
      BY <2>2 DEF CallFits, RowThere, Decided
    <2> QED
      BY <1>1, <1>4, <2>1, <2>2, <2>3, StartStep
  <1> QED
    BY <1>2, <1>3, <1>4 DEF StartRole

LEMMA NamesOfMembers ==
    ASSUME MembersIInv
    PROVE  /\ \A u \in Users : RoleOf(u) \in MaybeName /\ (RoleOf(u) # None => member[u] \in Roles)
           /\ \A n : Named(n) \subseteq Roles
  BY DEF MembersIInv, TypeOK, RoleOf, Named, MaybeRole, MaybeName

\* What FindMember reads.
LEMMA FindMemberReads ==
    ASSUME MembersIInv, NEW c \in Calls, FindMember(c), NEW s, s = call[c]
    PROVE  \/ Return(c)
           \/ \E r \in Call :
                 /\ CallFits(r) /\ RowThere(r)
                 /\ call' = [call EXCEPT ![c] = r]
                 /\ r.op = s.op /\ r.op \in {"remove", "change"} /\ r.user = s.user /\ r.new = s.new
                 /\ ~r.gone /\ r.old = RoleOf(r.user) /\ r.old # None /\ r.old # r.new
                 /\ r.pc = IF r.op = "change" THEN "role"
                           ELSE IF r.old = RoleOwner THEN "ownerGrant" ELSE "tx"
  <1>1. s \in Call /\ CallFits(s) /\ s.pc = "member" /\ s.op \in {"remove", "change"}
    BY CallHas DEF FindMember, At
  <1>2. s.user \in Users
    BY <1>1 DEF CallFits
  <1>3. PICK o : o = RoleOf(s.user)
    OBVIOUS
  <1>4. o \in MaybeName /\ (o # None => member[s.user] \in Roles)
    BY <1>2, <1>3, NamesOfMembers
  <1>5. CASE o = None \/ o = s.new
    BY <1>3, <1>5 DEF FindMember
  <1>6. CASE ~(o = None \/ o = s.new)
    <2>1. PICK p : p = IF s.op = "change" THEN "role"
                       ELSE IF o = RoleOwner THEN "ownerGrant" ELSE "tx"
      OBVIOUS
    <2>2. PICK r : r = [s EXCEPT !.old = o, !.gone = FALSE, !.pc = p]
      OBVIOUS
    <2>3. /\ r \in Call /\ r.pc = p /\ r.op = s.op /\ r.user = s.user /\ r.new = s.new
          /\ r.old = o /\ ~r.gone
      BY <1>1, <1>4, <2>1, <2>2 DEF Call
    <2>4. call' = [call EXCEPT ![c] = r]
      BY <1>3, <1>6, <2>1, <2>2 DEF FindMember, MembersIInv, TypeOK
    <2>5. CallFits(r)
      BY <1>1, <2>1, <2>3 DEF CallFits, Decided
    <2>6. RowThere(r)
      BY <1>2, <1>4, <1>6, <2>3, NoneIsNoOne DEF RowThere
    <2> QED
      BY <1>1, <1>3, <1>6, <2>1, <2>3, <2>4, <2>5, <2>6
  <1> QED
    BY <1>5, <1>6

LEMMA FindMemberNext ==
    ASSUME MembersIInv, NEW c \in Calls, FindMember(c)
    PROVE  MembersIInv'
  <1>1. UNCHANGED <<stored, enforcer, loads>>
    BY DEF FindMember
  <1>2. PICK s : s = call[c]
    OBVIOUS
  <1>3. \/ Return(c)
        \/ \E r \in Call : CallFits(r) /\ RowThere(r) /\ call' = [call EXCEPT ![c] = r]
    BY <1>2, FindMemberReads
  <1> QED
    BY <1>1, <1>3, MemoryTypes, ReturnStep, ReadStep

\* What FindGrantedRole reads.
LEMMA FindGrantedRoleReads ==
    ASSUME MembersIInv, NEW c \in Calls, FindGrantedRole(c), NEW s, s = call[c]
    PROVE  \/ Return(c)
           \/ \E r \in Call :
                 /\ CallFits(r) /\ RowThere(r)
                 /\ call' = [call EXCEPT ![c] = r]
                 /\ s.pc = "role"
                 /\ r.op = s.op /\ r.op \in {"add", "change"} /\ r.user = s.user
                 /\ r.old = s.old /\ r.new = s.new /\ r.gone = s.gone
                 /\ r.role \in Roles /\ name[r.role] = r.new
                 /\ r.pc = IF RoleOwner \in {r.old, r.new} THEN "ownerGrant" ELSE "tx"
  <1>1. s \in Call /\ CallFits(s) /\ RowThere(s) /\ s.pc = "role" /\ s.op \in {"add", "change"}
    BY CallHas DEF FindGrantedRole, At
  <1>2. CASE Return(c)
    BY <1>2
  <1>3. ASSUME NEW x \in Named(s.new),
               call' = [call EXCEPT ![c] =
                   [@ EXCEPT !.role = x,
                             !.pc = IF RoleOwner \in {call[c].old, call[c].new}
                                    THEN "ownerGrant" ELSE "tx"]]
        PROVE  \E r \in Call :
                 /\ CallFits(r) /\ RowThere(r)
                 /\ call' = [call EXCEPT ![c] = r]
                 /\ s.pc = "role"
                 /\ r.op = s.op /\ r.op \in {"add", "change"} /\ r.user = s.user
                 /\ r.old = s.old /\ r.new = s.new /\ r.gone = s.gone
                 /\ r.role \in Roles /\ name[r.role] = r.new
                 /\ r.pc = IF RoleOwner \in {r.old, r.new} THEN "ownerGrant" ELSE "tx"
    <2>1. x \in Roles /\ name[x] = s.new
      BY DEF Named
    <2>2. PICK p : p = IF RoleOwner \in {s.old, s.new} THEN "ownerGrant" ELSE "tx"
      OBVIOUS
    <2>3. PICK r : r = [s EXCEPT !.role = x, !.pc = p]
      OBVIOUS
    <2>4. /\ r \in Call /\ r.pc = p /\ r.op = s.op /\ r.user = s.user /\ r.new = s.new
          /\ r.old = s.old /\ r.gone = s.gone /\ r.role = x
      BY <1>1, <2>1, <2>2, <2>3 DEF Call, MaybeRole
    <2>5. call' = [call EXCEPT ![c] = r]
      BY <1>3, <2>2, <2>3 DEF MembersIInv, TypeOK
    <2>6. CallFits(r)
      BY <1>1, <2>1, <2>2, <2>4 DEF CallFits, Decided
    <2>7. RowThere(r)
      BY <1>1, <2>2, <2>4 DEF RowThere, Decided
    <2> QED
      BY <1>1, <2>1, <2>2, <2>4, <2>5, <2>6, <2>7
  <1> QED
    BY <1>2, <1>3 DEF FindGrantedRole

LEMMA FindGrantedRoleNext ==
    ASSUME MembersIInv, NEW c \in Calls, FindGrantedRole(c)
    PROVE  MembersIInv'
  <1>1. UNCHANGED <<stored, enforcer, loads>>
    BY DEF FindGrantedRole
  <1>2. PICK s : s = call[c]
    OBVIOUS
  <1>3. \/ Return(c)
        \/ \E r \in Call : CallFits(r) /\ RowThere(r) /\ call' = [call EXCEPT ![c] = r]
    BY <1>2, FindGrantedRoleReads
  <1> QED
    BY <1>1, <1>3, MemoryTypes, ReturnStep, ReadStep

\* What FindRole reads.
LEMMA FindRoleReads ==
    ASSUME MembersIInv, NEW c \in Calls, FindRole(c), NEW s, s = call[c]
    PROVE  \/ Return(c)
           \/ \E r \in Call :
                 /\ CallFits(r) /\ RowThere(r)
                 /\ call' = [call EXCEPT ![c] = r]
                 /\ s.pc = "role"
                 /\ r.op = s.op /\ r.op \in {"update", "delete"}
                 /\ r.old = s.old /\ r.new = s.new /\ r.gone = s.gone
                 /\ r.role \in Roles /\ name[r.role] = r.old /\ r.old # RoleOwner
                 /\ r.pc = IF r.op = "delete" THEN "assigned" ELSE "tx"
  <1>1. s \in Call /\ CallFits(s) /\ s.pc = "role" /\ s.op \in {"update", "delete"}
    BY CallHas DEF FindRole, At
  <1>2. CASE Return(c)
    BY <1>2
  <1>3. ASSUME NEW x \in Named(s.old), s.old # RoleOwner,
               call' = [call EXCEPT ![c] =
                   [@ EXCEPT !.role = x,
                             !.pc = IF call[c].op = "delete" THEN "assigned" ELSE "tx"]]
        PROVE  \E r \in Call :
                 /\ CallFits(r) /\ RowThere(r)
                 /\ call' = [call EXCEPT ![c] = r]
                 /\ s.pc = "role"
                 /\ r.op = s.op /\ r.op \in {"update", "delete"}
                 /\ r.old = s.old /\ r.new = s.new /\ r.gone = s.gone
                 /\ r.role \in Roles /\ name[r.role] = r.old /\ r.old # RoleOwner
                 /\ r.pc = IF r.op = "delete" THEN "assigned" ELSE "tx"
    <2>1. x \in Roles /\ name[x] = s.old
      BY DEF Named
    <2>2. PICK p : p = IF s.op = "delete" THEN "assigned" ELSE "tx"
      OBVIOUS
    <2>3. PICK r : r = [s EXCEPT !.role = x, !.pc = p]
      OBVIOUS
    <2>4. /\ r \in Call /\ r.pc = p /\ r.op = s.op /\ r.user = s.user /\ r.new = s.new
          /\ r.old = s.old /\ r.gone = s.gone /\ r.role = x
      BY <1>1, <2>1, <2>2, <2>3 DEF Call, MaybeRole
    <2>5. call' = [call EXCEPT ![c] = r]
      BY <1>3, <2>2, <2>3 DEF MembersIInv, TypeOK
    <2>6. CallFits(r) /\ RowThere(r)
      BY <1>1, <2>1, <2>2, <2>4 DEF CallFits, RowThere, Decided
    <2> QED
      BY <1>1, <1>3, <2>1, <2>2, <2>4, <2>5, <2>6
  <1> QED
    BY <1>2, <1>3 DEF FindRole

LEMMA FindRoleNext ==
    ASSUME MembersIInv, NEW c \in Calls, FindRole(c)
    PROVE  MembersIInv'
  <1>1. UNCHANGED <<stored, enforcer, loads>>
    BY DEF FindRole
  <1>2. PICK s : s = call[c]
    OBVIOUS
  <1>3. \/ Return(c)
        \/ \E r \in Call : CallFits(r) /\ RowThere(r) /\ call' = [call EXCEPT ![c] = r]
    BY <1>2, FindRoleReads
  <1> QED
    BY <1>1, <1>3, MemoryTypes, ReturnStep, ReadStep

LEMMA GuardsNext ==
    ASSUME MembersIInv, NEW c \in Calls,
           \/ \E actor \in MaybeUser : guardOwnerGrant(c, actor)
           \/ guardLastOwner(c) \/ CheckAssigned(c)
    PROVE  MembersIInv'
  <1>1. UNCHANGED <<stored, enforcer, loads>> /\ call[c].pc \in {"ownerGrant", "lastOwner", "assigned"}
    BY DEF guardOwnerGrant, guardLastOwner, CheckAssigned
  <1>2. Return(c) \/ Goto(c, "tx") \/ Goto(c, "lastOwner")
    BY DEF guardOwnerGrant, guardLastOwner, CheckAssigned
  <1>3. call[c].pc # "idle" /\ call[c].pc \in Decided
    BY <1>1 DEF Decided
  <1> QED
    BY <1>1, <1>2, <1>3, MemoryTypes, ReturnStep, GotoStep

LEMMA MemoryNext ==
    ASSUME MembersIInv, NEW c \in Calls, Memory(c)
    PROVE  MembersIInv'
  <1>1. /\ UNCHANGED stored /\ call[c].pc # "idle"
        /\ \/ Return(c) \/ Goto(c, "addRule") \/ Goto(c, "removeMembers")
    BY DEF Memory, memoryRemoveRules, memoryAddRules, RemoveFilteredPolicy,
           RemoveFilteredGroupingPolicy, LoadAfterUpdate, NoDelta
  <1>2. enforcer' \subseteq Watched /\ loads' \subseteq SUBSET Watched
    BY MemoryTypes
    DEF Memory, memoryRemoveRules, memoryAddRules, RemoveFilteredPolicy,
        RemoveFilteredGroupingPolicy, LoadAfterUpdate, NoDelta
  <1>3. "addRule" \notin Decided /\ "removeMembers" \notin Decided
    BY DEF Decided
  <1> QED
    BY <1>1, <1>2, <1>3, ReturnStep, GotoStep

\* A reload reads the rows and moves no call.
LEMMA LoadsNext ==
    ASSUME MembersIInv, LoadPolicy \/ (\E policy \in loads : ApplyPolicy(policy)) \/ UNCHANGED vars
    PROVE  /\ MembersIInv'
           /\ UNCHANGED <<organization, member, name, gRules, pRules, call>>
  <1>1. UNCHANGED <<organization, member, name, gRules, pRules, call>>
    BY DEF LoadPolicy, ApplyPolicy, stored, vars
  <1>2. enforcer' \subseteq Watched /\ loads' \subseteq SUBSET Watched
    BY MemoryTypes DEF LoadPolicy, ApplyPolicy, vars
  <1>3. TypeOK'
    BY <1>1, <1>2 DEF MembersIInv, TypeOK
  <1>4. NonMembersHaveNoRules'
    BY <1>1 DEF MembersIInv, NonMembersHaveNoRules
  <1>5. \A c \in Calls : CallFits(call[c])' /\ RowThere(call[c])'
    BY <1>1 DEF MembersIInv, CallFits, RowThere
  <1> QED
    BY <1>1, <1>3, <1>4, <1>5 DEF MembersIInv

-----------------------------------------------------------------------------
(* The transactions.                                                       *)

\* A transaction that deletes no member row.
LEMMA WriteStep ==
    ASSUME MembersIInv, NEW c \in Calls, NEW r \in Call, CallFits(r), RowThere(r)',
           call' = [call EXCEPT ![c] = r],
           \A u \in Users : member[u] # None => member'[u] # None,
           organization' \in {"none", "exists", "deleted"},
           member' \in [Users -> MaybeRole], name' \in [Roles -> MaybeName],
           gRules' \subseteq Users \X Names, pRules' \subseteq Names,
           UNCHANGED <<enforcer, loads>>, NonMembersHaveNoRules'
    PROVE  MembersIInv'
  <1>1. call' \in [Calls -> Call] /\ \A d \in Calls : CallFits(call[d])' /\ RowThere(call[d])'
    BY CallsKeep
  <1>2. TypeOK'
    BY <1>1 DEF MembersIInv, TypeOK
  <1> QED
    BY <1>1, <1>2 DEF MembersIInv

LEMMA CreateOrganizationNext ==
    ASSUME MembersIInv, NEW c \in Calls, NEW u \in Users, CreateOrganization(c, u)
    PROVE  MembersIInv'
  <1>1. PICK r : r = [Idle EXCEPT !.pc = "addRule", !.user = u, !.new = RoleOwner]
    OBVIOUS
  <1>2. r \in Call /\ r.pc = "addRule" /\ r.op = "add" /\ r.user = u /\ r.new = RoleOwner
    BY <1>1, NoneIsNoOne DEF Idle, Call, MaybeUser, MaybeRole, MaybeName
  <1>3. CallFits(r) /\ RowThere(r)'
    BY <1>2, NoneIsNoOne DEF CallFits, RowThere, Decided
  <1>4. call' = [call EXCEPT ![c] = r]
    BY <1>1 DEF CreateOrganization, Start
  <1>5. PICK x \in Roles : name' = [name EXCEPT ![x] = RoleOwner] /\ member' = [member EXCEPT ![u] = x]
    BY DEF CreateOrganization, FreshRoles
  <1>6. /\ organization' = "exists" /\ gRules' = {<<u, RoleOwner>>}
        /\ UNCHANGED <<pRules, enforcer, loads>>
    BY DEF CreateOrganization
  <1>7. /\ member' \in [Users -> MaybeRole] /\ name' \in [Roles -> MaybeName]
        /\ gRules' \subseteq Users \X Names /\ pRules' \subseteq Names
        /\ \A v \in Users : member[v] # None => member'[v] # None
        /\ member'[u] # None
    BY <1>5, <1>6, NoneIsNoOne DEF MembersIInv, TypeOK, MaybeRole, MaybeName
  <1>8. NonMembersHaveNoRules'
    BY <1>6, <1>7 DEF NonMembersHaveNoRules
  <1> QED
    BY <1>2, <1>3, <1>4, <1>6, <1>7, <1>8, WriteStep

\* c writes rules: the calls that delete rules of that name are told.
LEMMA InsertFits ==
    ASSUME MembersIInv, NEW c \in Calls, NEW n, NEW pc, call' = RulesInserted(c, n, pc),
           call[c].pc = "tx", pc \in {"removeRule", "addRule", "load"},
           \A u \in Users : member[u] # None => member'[u] # None
    PROVE  /\ call' \in [Calls -> Call]
           /\ \A d \in Calls : CallFits(call[d])' /\ RowThere(call[d])'
  <1>1. ASSUME NEW d \in Calls
        PROVE  call'[d] \in Call /\ CallFits(call[d])' /\ RowThere(call[d])'
    <2>1. PICK s : s = call[d]
      OBVIOUS
    <2>2. s \in Call /\ CallFits(s) /\ RowThere(s)
      BY <2>1, CallHas
    <2>3. CASE d = c
      <3>1. PICK t : t = [s EXCEPT !.pc = pc]
        OBVIOUS
      <3>2. call'[d] = t
        BY <2>1, <2>3, <3>1 DEF RulesInserted
      <3>3. /\ t \in Call /\ t.pc = pc /\ t.op = s.op /\ t.user = s.user /\ t.role = s.role
            /\ t.old = s.old /\ t.new = s.new
        BY <2>2, <3>1 DEF Call
      <3>4. CallFits(t)
        BY <2>1, <2>2, <2>3, <3>3 DEF CallFits, Decided
      <3>5. RowThere(t)'
        BY <3>3 DEF RowThere, Decided
      <3> QED
        BY <3>2, <3>3, <3>4, <3>5 DEF CallFits
    <2>4. CASE d # c
      <3>1. PICK b \in BOOLEAN : b = (At(d, "tx", {"delete"}) /\ call[d].old = n)
        <4>1. (At(d, "tx", {"delete"}) /\ call[d].old = n) \in BOOLEAN
          BY DEF At
        <4> QED
          BY <4>1
      <3>2. PICK t : t = [s EXCEPT !.gone = @ \/ b]
        OBVIOUS
      <3>3. call'[d] = t
        BY <2>1, <2>4, <3>1, <3>2 DEF RulesInserted
      <3>4. /\ t \in Call /\ t.pc = s.pc /\ t.op = s.op /\ t.user = s.user /\ t.role = s.role
            /\ t.old = s.old /\ t.new = s.new /\ t.gone = (s.gone \/ b)
        BY <2>2, <3>2 DEF Call
      <3>5. CallFits(t)
        BY <2>2, <3>4 DEF CallFits
      <3>6. RowThere(t)'
        BY <2>2, <3>4 DEF CallFits, RowThere, Decided
      <3> QED
        BY <3>3, <3>4, <3>5, <3>6 DEF CallFits
    <2> QED
      BY <2>3, <2>4
  <1>2. call' \in [Calls -> Call]
    BY <1>1 DEF RulesInserted
  <1> QED
    BY <1>1, <1>2

LEMMA InsertStep ==
    ASSUME MembersIInv, NEW c \in Calls, NEW n, NEW pc, call' = RulesInserted(c, n, pc),
           call[c].pc = "tx", pc \in {"removeRule", "addRule", "load"},
           \A u \in Users : member[u] # None => member'[u] # None,
           organization' \in {"none", "exists", "deleted"},
           member' \in [Users -> MaybeRole], name' \in [Roles -> MaybeName],
           gRules' \subseteq Users \X Names, pRules' \subseteq Names,
           UNCHANGED <<enforcer, loads>>, NonMembersHaveNoRules'
    PROVE  MembersIInv'
  <1>1. call' \in [Calls -> Call] /\ \A d \in Calls : CallFits(call[d])' /\ RowThere(call[d])'
    BY InsertFits
  <1>2. TypeOK'
    BY <1>1 DEF MembersIInv, TypeOK
  <1> QED
    BY <1>1, <1>2 DEF MembersIInv

LEMMA AddMemberNext ==
    ASSUME MembersIInv, NEW c \in Calls, AddMember(c)
    PROVE  MembersIInv'
  <1>1. PICK s : s = call[c]
    OBVIOUS
  <1>2. s \in Call /\ CallFits(s) /\ s.pc = "tx" /\ s.op = "add"
    BY <1>1, CallHas DEF AddMember, At
  <1>3. s.user \in Users /\ s.new \in Names /\ s.role \in Roles
    BY <1>2 DEF CallFits, Decided
  <1>4. call' = RulesInserted(c, s.new, "addRule") /\ call[c].pc = "tx"
    BY <1>1, <1>2 DEF AddMember
  <1>5. /\ member' = [member EXCEPT ![s.user] = s.role]
        /\ gRules' = gRules \union {<<s.user, s.new>>}
        /\ UNCHANGED <<organization, name, pRules, enforcer, loads>>
    BY <1>1 DEF AddMember
  <1>6. /\ member' \in [Users -> MaybeRole] /\ name' \in [Roles -> MaybeName]
        /\ gRules' \subseteq Users \X Names /\ pRules' \subseteq Names
        /\ organization' \in {"none", "exists", "deleted"}
        /\ \A v \in Users : member[v] # None => member'[v] # None
        /\ member'[s.user] # None
    BY <1>3, <1>5, NoneIsNoOne DEF MembersIInv, TypeOK, MaybeRole
  <1>7. NonMembersHaveNoRules'
    BY <1>5, <1>6 DEF MembersIInv, TypeOK, NonMembersHaveNoRules
  <1> QED
    BY <1>4, <1>5, <1>6, <1>7, InsertStep

LEMMA ChangeMemberRoleNext ==
    ASSUME MembersIInv, NEW c \in Calls, ChangeMemberRole(c)
    PROVE  MembersIInv'
  <1>1. PICK s : s = call[c]
    OBVIOUS
  <1>2. s \in Call /\ CallFits(s) /\ s.pc = "tx" /\ s.op = "change"
    BY <1>1, CallHas DEF ChangeMemberRole, At
  <1>3. s.user \in Users /\ s.new \in Names /\ s.role \in Roles
    BY <1>2 DEF CallFits, Decided
  <1>4. call' = RulesInserted(c, s.new, "removeRule") /\ call[c].pc = "tx"
    BY <1>1, <1>2 DEF ChangeMemberRole
  <1>5. /\ member' = [member EXCEPT ![s.user] = s.role]
        /\ gRules' = (gRules \ {<<s.user, s.old>>}) \union {<<s.user, s.new>>}
        /\ UNCHANGED <<organization, name, pRules, enforcer, loads>>
    BY <1>1 DEF ChangeMemberRole, RulesChanged
  <1>6. /\ member' \in [Users -> MaybeRole] /\ name' \in [Roles -> MaybeName]
        /\ gRules' \subseteq Users \X Names /\ pRules' \subseteq Names
        /\ organization' \in {"none", "exists", "deleted"}
        /\ \A v \in Users : member[v] # None => member'[v] # None
        /\ member'[s.user] # None
    BY <1>3, <1>5, NoneIsNoOne DEF MembersIInv, TypeOK, MaybeRole
  <1>7. NonMembersHaveNoRules'
    BY <1>5, <1>6 DEF MembersIInv, TypeOK, NonMembersHaveNoRules
  <1> QED
    BY <1>4, <1>5, <1>6, <1>7, InsertStep

LEMMA CreateRoleNext ==
    ASSUME MembersIInv, NEW c \in Calls, CreateRole(c)
    PROVE  MembersIInv'
  <1>1. PICK s : s = call[c]
    OBVIOUS
  <1>2. s \in Call /\ CallFits(s) /\ s.pc = "tx" /\ s.op = "create"
    BY <1>1, CallHas DEF CreateRole, At
  <1>3. s.new \in Names
    BY <1>2 DEF CallFits
  <1>4. call' = RulesInserted(c, s.new, "addRule") /\ call[c].pc = "tx"
    BY <1>1, <1>2 DEF CreateRole
  <1>5. PICK x \in Roles : name' = [name EXCEPT ![x] = s.new]
    BY <1>1 DEF CreateRole, FreshRoles
  <1>6. /\ pRules' = pRules \union {s.new}
        /\ UNCHANGED <<organization, member, gRules, enforcer, loads>>
    BY <1>1 DEF CreateRole
  <1>7. /\ member' \in [Users -> MaybeRole] /\ name' \in [Roles -> MaybeName]
        /\ gRules' \subseteq Users \X Names /\ pRules' \subseteq Names
        /\ organization' \in {"none", "exists", "deleted"}
        /\ \A v \in Users : member[v] # None => member'[v] # None
    BY <1>3, <1>5, <1>6 DEF MembersIInv, TypeOK, MaybeName
  <1>8. NonMembersHaveNoRules'
    BY <1>6 DEF MembersIInv, NonMembersHaveNoRules
  <1> QED
    BY <1>4, <1>6, <1>7, <1>8, InsertStep

LEMMA UpdateRoleNext ==
    ASSUME MembersIInv, NEW c \in Calls, UpdateRole(c)
    PROVE  MembersIInv'
  <1>1. PICK s : s = call[c]
    OBVIOUS
  <1>2. s \in Call /\ CallFits(s) /\ s.pc = "tx" /\ s.op = "update"
    BY <1>1, CallHas DEF UpdateRole, At
  <1>3. s.old \in Names /\ s.new \in Names /\ s.role \in Roles
    BY <1>2 DEF CallFits, Decided
  <1>4. call' = RulesInserted(c, s.new, "load") /\ call[c].pc = "tx"
    BY <1>1, <1>2 DEF UpdateRole
  <1>5. /\ name' = IF s.new = s.old THEN name ELSE [name EXCEPT ![s.role] = s.new]
        /\ pRules' = (pRules \ {s.old}) \union {s.new}
        /\ gRules' = {Renamed(g, s.old, s.new) : g \in gRules}
        /\ UNCHANGED <<organization, member, enforcer, loads>>
    BY <1>1 DEF UpdateRole, GrantsUpdated
  <1>6. ASSUME NEW g \in gRules
        PROVE  Renamed(g, s.old, s.new) \in Users \X Names /\ Renamed(g, s.old, s.new)[1] = g[1]
    <2>1. g \in Users \X Names
      BY DEF MembersIInv, TypeOK
    <2> QED
      BY <1>3, <2>1 DEF Renamed
  <1>7. /\ name' \in [Roles -> MaybeName]
        /\ pRules' \subseteq Names /\ gRules' \subseteq Users \X Names
    <2>1. name' \in [Roles -> MaybeName]
      BY <1>3, <1>5 DEF MembersIInv, TypeOK, MaybeName
    <2>2. gRules' \subseteq Users \X Names
      BY <1>5, <1>6
    <2>3. pRules' \subseteq Names
      BY <1>3, <1>5 DEF MembersIInv, TypeOK
    <2> QED
      BY <2>1, <2>2, <2>3
  <1>8. /\ member' \in [Users -> MaybeRole] /\ organization' \in {"none", "exists", "deleted"}
        /\ \A v \in Users : member[v] # None => member'[v] # None
    BY <1>5 DEF MembersIInv, TypeOK
  <1>9. NonMembersHaveNoRules'
    BY <1>5, <1>6 DEF MembersIInv, NonMembersHaveNoRules
  <1> QED
    BY <1>4, <1>5, <1>7, <1>8, <1>9, InsertStep

LEMMA DeleteRoleNext ==
    ASSUME MembersIInv, NEW c \in Calls, DeleteRole(c)
    PROVE  MembersIInv'
  <1>1. PICK s : s = call[c]
    OBVIOUS
  <1>2. s \in Call /\ s.pc = "tx"
    BY <1>1, CallHas DEF DeleteRole, At
  <1>3. PICK r \in Call : /\ CallFits(r) /\ r.pc = "removeGrants"
                          /\ call' = [call EXCEPT ![c] = r]
    BY <1>1, <1>2, GotoFits DEF DeleteRole, Decided
  <1>4. RowThere(r)'
    BY <1>3 DEF RowThere, Decided
  <1>5. /\ name' = [name EXCEPT ![s.role] = None]
        /\ pRules' \subseteq pRules /\ gRules' \subseteq gRules
        /\ UNCHANGED <<organization, member, enforcer, loads>>
    BY <1>1 DEF DeleteRole
  <1>6. /\ member' \in [Users -> MaybeRole] /\ name' \in [Roles -> MaybeName]
        /\ gRules' \subseteq Users \X Names /\ pRules' \subseteq Names
        /\ organization' \in {"none", "exists", "deleted"}
        /\ \A v \in Users : member[v] # None => member'[v] # None
    BY <1>5 DEF MembersIInv, TypeOK, MaybeName
  <1>7. NonMembersHaveNoRules'
    BY <1>5 DEF MembersIInv, NonMembersHaveNoRules
  <1> QED
    BY <1>3, <1>4, <1>5, <1>6, <1>7, WriteStep

\* Member rows go: the calls that read one of them are told.
LEMMA RowsDeletedFit ==
    ASSUME MembersIInv, NEW c \in Calls, NEW users, NEW r \in Call, CallFits(r), RowThere(r)',
           call' = RowsDeleted(c, users, r),
           \A u \in Users \ users : member'[u] = member[u]
    PROVE  /\ call' \in [Calls -> Call]
           /\ \A d \in Calls : CallFits(call[d])' /\ RowThere(call[d])'
  <1>1. ASSUME NEW d \in Calls
        PROVE  call'[d] \in Call /\ CallFits(call[d])' /\ RowThere(call[d])'
    <2>1. CASE d = c
      <3>1. call'[d] = r
        BY <2>1 DEF RowsDeleted
      <3> QED
        BY <3>1 DEF CallFits
    <2>2. CASE d # c
      <3>1. PICK s : s = call[d]
        OBVIOUS
      <3>2. s \in Call /\ CallFits(s) /\ RowThere(s)
        BY <3>1, CallHas
      <3>3. PICK b \in BOOLEAN : b = (s.user \in users)
        <4>1. CASE s.user \in users
          BY <4>1, TRUE = (s.user \in users), Zenon
        <4>2. CASE s.user \notin users
          BY <4>2, FALSE = (s.user \in users), Zenon
        <4> QED
          BY <4>1, <4>2
      <3>4. PICK t : t = [s EXCEPT !.gone = @ \/ b]
        OBVIOUS
      <3>5. call'[d] = t
        BY <2>2, <3>1, <3>3, <3>4 DEF RowsDeleted
      <3>6. /\ t \in Call /\ t.pc = s.pc /\ t.op = s.op /\ t.user = s.user /\ t.role = s.role
            /\ t.old = s.old /\ t.new = s.new /\ t.gone = (s.gone \/ b)
        BY <3>2, <3>4 DEF Call
      <3>7. CallFits(t)
        BY <3>2, <3>6 DEF CallFits
      <3>8. RowThere(t)'
        <4>1. SUFFICES ASSUME t.op = "change", t.pc \in {"role"} \union Decided, ~t.gone
                       PROVE  member'[t.user] # None
          BY DEF RowThere
        <4>2. s.user \in Users /\ member[s.user] # None
          BY <3>2, <3>6, <4>1 DEF CallFits, RowThere, Decided
        <4>3. ~b
          BY <3>6, <4>1
        <4>4. s.user \notin users
          BY <3>3, <4>3
        <4> QED
          BY <3>6, <4>2, <4>4
      <3> QED
        BY <3>5, <3>6, <3>7, <3>8 DEF CallFits
    <2> QED
      BY <2>1, <2>2
  <1>2. call' \in [Calls -> Call]
    BY <1>1 DEF RowsDeleted
  <1> QED
    BY <1>1, <1>2

LEMMA RemoveMemberNext ==
    ASSUME MembersIInv, NEW c \in Calls, RemoveMember(c)
    PROVE  MembersIInv'
  <1>1. PICK s : s = call[c]
    OBVIOUS
  <1>2. s \in Call /\ CallFits(s) /\ s.pc = "tx" /\ s.op = "remove"
    BY <1>1, CallHas DEF RemoveMember, At
  <1>3. s.user \in Users
    BY <1>2 DEF CallFits
  <1>4. PICK r : r = [s EXCEPT !.pc = "removeRule"]
    OBVIOUS
  <1>5. r \in Call /\ r.pc = "removeRule" /\ r.op = "remove" /\ r.user = s.user
    BY <1>2, <1>4 DEF Call
  <1>6. CallFits(r) /\ RowThere(r)'
    BY <1>3, <1>5 DEF CallFits, RowThere, Decided
  <1>7. /\ member' = [member EXCEPT ![s.user] = None]
        /\ gRules' = {g \in gRules : g[1] # s.user}
        /\ call' = RowsDeleted(c, {s.user}, r)
        /\ UNCHANGED <<organization, name, pRules, enforcer, loads>>
    BY <1>1, <1>4 DEF RemoveMember, RulesRemoved
  <1>8. \A u \in Users \ {s.user} : member'[u] = member[u]
    BY <1>7 DEF MembersIInv, TypeOK
  <1>9. call' \in [Calls -> Call] /\ \A d \in Calls : CallFits(call[d])' /\ RowThere(call[d])'
    BY <1>5, <1>6, <1>7, <1>8, RowsDeletedFit
  <1>10. TypeOK'
    BY <1>7, <1>9 DEF MembersIInv, TypeOK, MaybeRole
  <1>11. NonMembersHaveNoRules'
    BY <1>7, <1>8 DEF MembersIInv, TypeOK, NonMembersHaveNoRules
  <1> QED
    BY <1>9, <1>10, <1>11 DEF MembersIInv

LEMMA DeleteOrganizationNext ==
    ASSUME MembersIInv, NEW c \in Calls, DeleteOrganization(c)
    PROVE  MembersIInv'
  <1>1. PICK r : r = [Idle EXCEPT !.pc = "removeGrants", !.op = "dissolve"]
    OBVIOUS
  <1>2. r \in Call /\ r.pc = "removeGrants" /\ r.op = "dissolve"
    BY <1>1 DEF Idle, Call, MaybeUser, MaybeRole, MaybeName
  <1>3. CallFits(r) /\ RowThere(r)'
    BY <1>2 DEF CallFits, RowThere, Decided
  <1>4. /\ organization' = "deleted" /\ member' = [u \in Users |-> None]
        /\ name' = [x \in Roles |-> None] /\ gRules' = {} /\ pRules' = {}
        /\ call' = RowsDeleted(c, Users, r) /\ UNCHANGED <<enforcer, loads>>
    BY <1>1 DEF DeleteOrganization
  <1>5. call' \in [Calls -> Call] /\ \A d \in Calls : CallFits(call[d])' /\ RowThere(call[d])'
    BY <1>2, <1>3, <1>4, RowsDeletedFit
  <1>6. TypeOK'
    BY <1>4, <1>5 DEF MembersIInv, TypeOK, MaybeRole, MaybeName
  <1>7. NonMembersHaveNoRules'
    BY <1>4 DEF NonMembersHaveNoRules
  <1> QED
    BY <1>5, <1>6, <1>7 DEF MembersIInv

LEMMA TxFailsNext ==
    ASSUME MembersIInv, NEW c \in Calls, TxFails(c)
    PROVE  MembersIInv'
  BY MemoryTypes, ReturnStep DEF TxFails

LEMMA MembersInit ==
    ASSUME Init
    PROVE  MembersIInv
  <1>1. TypeOK
    BY IdleFits DEF Init, TypeOK, MaybeRole, MaybeName
  <1>2. \A c \in Calls : call[c] = Idle
    BY DEF Init
  <1>3. \A c \in Calls : CallFits(call[c]) /\ RowThere(call[c])
    BY <1>2, IdleFits
  <1>4. NonMembersHaveNoRules
    BY DEF Init, NonMembersHaveNoRules
  <1> QED
    BY <1>1, <1>3, <1>4 DEF MembersIInv

LEMMA MembersNext ==
    ASSUME MembersIInv, [Next]_vars
    PROVE  MembersIInv'
  <1>1. CASE LoadPolicy \/ (\E policy \in loads : ApplyPolicy(policy)) \/ UNCHANGED vars
    BY <1>1, LoadsNext
  <1>2. ASSUME NEW c \in Calls, NEW u \in Users, CreateOrganization(c, u)
        PROVE  MembersIInv'
    BY <1>2, CreateOrganizationNext
  <1>3. ASSUME NEW c \in Calls, NEW u \in Users, NEW n \in Names, StartMember(c, u, n)
        PROVE  MembersIInv'
    BY <1>3, StartMemberNext
  <1>4. ASSUME NEW c \in Calls, NEW n \in Names, NEW m \in Names, StartRole(c, n, m)
        PROVE  MembersIInv'
    BY <1>4, StartRoleNext
  <1>5. ASSUME NEW c \in Calls, (\E actor \in MaybeUser : guardOwnerGrant(c, actor)) \/ Check(c)
        PROVE  MembersIInv'
    BY <1>5, FindMemberNext, FindGrantedRoleNext, FindRoleNext, GuardsNext DEF Check
  <1>6. ASSUME NEW c \in Calls, Transaction(c)
        PROVE  MembersIInv'
    BY <1>6, AddMemberNext, RemoveMemberNext, ChangeMemberRoleNext, CreateRoleNext,
       UpdateRoleNext, DeleteRoleNext, TxFailsNext, DeleteOrganizationNext DEF Transaction
  <1>7. ASSUME NEW c \in Calls, Memory(c)
        PROVE  MembersIInv'
    BY <1>7, MemoryNext
  <1> QED
    BY <1>1, <1>2, <1>3, <1>4, <1>5, <1>6, <1>7 DEF Next

\* Every reachable state satisfies the invariant of concurrent calls.
THEOREM MembersInvariant == Safety => []MembersIInv
  <1>1. Init => MembersIInv
    BY MembersInit
  <1>2. MembersIInv /\ [Next]_vars => MembersIInv'
    BY MembersNext
  <1> QED
    BY <1>1, <1>2, PTL DEF Safety

\* The rows, rules, replica and calls of internal/authz/policy have their types.
THEOREM MembersTypes == Safety => []TypeOK
  <1>1. MembersIInv => TypeOK
    BY DEF MembersIInv
  <1> QED
    BY <1>1, MembersInvariant, PTL

\* Whatever calls overlap, a user without a member row has no g rule in storage:
\* RemoveMember takes every rule of the user along, and a change of role that
\* read the row before it was deleted does not bring one back.
THEOREM MembersHaveTheRules == Safety => []NonMembersHaveNoRules
  <1>1. MembersIInv => NonMembersHaveNoRules
    BY DEF MembersIInv
  <1> QED
    BY <1>1, MembersInvariant, PTL

-----------------------------------------------------------------------------
(* A call that runs alone: its reads.                                      *)

\* PolicyMirrored and OwnerRemains, rule by rule.
Mirrored ==
    /\ \A u \in Users, n \in Names :
          <<u, n>> \in gRules <=> member[u] # None /\ name[member[u]] = n
    /\ \A n \in Names : n \in pRules <=> n # RoleOwner /\ \E r \in Roles : name[r] = n

Owned == \E u \in Users : member[u] # None /\ name[member[u]] = RoleOwner

Rows ==
    /\ UniqueNames /\ RolesNamed /\ Dissolved
    /\ Mirrored
    /\ organization = "exists" => Owned

LEMMA RowsMean ==
    TypeOK /\ UniqueNames /\ RolesNamed /\ Dissolved
        => (Rows <=> PolicyMirrored /\ OwnerRemains)
  <1> SUFFICES ASSUME TypeOK, UniqueNames, RolesNamed, Dissolved
               PROVE  Rows <=> PolicyMirrored /\ OwnerRemains
    OBVIOUS
  <1>1. \A u \in Users : member[u] # None =>
            member[u] \in Roles /\ name[member[u]] \in Names /\ RoleOf(u) = name[member[u]]
    BY DEF TypeOK, RolesNamed, RoleOf, MaybeRole, MaybeName
  <1>2. Owned <=> Owners # {}
    <2>1. \A u \in Users : RoleOf(u) = RoleOwner <=> member[u] # None /\ name[member[u]] = RoleOwner
      BY NoneIsNoOne DEF RoleOf
    <2> QED
      BY <2>1 DEF Owned, Owners
  <1>3. (\A u \in Users, n \in Names :
            <<u, n>> \in gRules <=> member[u] # None /\ name[member[u]] = n)
        <=> gRules = {<<u, RoleOf(u)>> : u \in {v \in Users : member[v] # None}}
    <2> DEFINE G == {<<u, RoleOf(u)>> : u \in {v \in Users : member[v] # None}}
    <2>1. G \subseteq Users \X Names /\ gRules \subseteq Users \X Names
      BY <1>1 DEF TypeOK
    <2>2. \A u \in Users, n \in Names :
             <<u, n>> \in G <=> member[u] # None /\ name[member[u]] = n
      BY <1>1
    <2> HIDE DEF G
    <2>3. gRules = G <=> \A u \in Users, n \in Names : <<u, n>> \in gRules <=> <<u, n>> \in G
      BY <2>1
    <2>4. (\A u \in Users, n \in Names :
             <<u, n>> \in gRules <=> member[u] # None /\ name[member[u]] = n) <=> gRules = G
      BY <2>2, <2>3
    <2> QED
      BY <2>4 DEF G
  <1>4. (\A n \in Names : n \in pRules <=> n # RoleOwner /\ \E r \in Roles : name[r] = n)
        <=> pRules = {name[r] : r \in Roles} \ {None, RoleOwner}
    <2> DEFINE P == {name[r] : r \in Roles} \ {None, RoleOwner}
    <2>1. P \subseteq Names /\ pRules \subseteq Names
      BY DEF TypeOK, MaybeName
    <2>2. \A n \in Names : n \in P <=> n # RoleOwner /\ \E r \in Roles : name[r] = n
      BY NoneIsNoOne
    <2> HIDE DEF P
    <2>3. pRules = P <=> \A n \in Names : n \in pRules <=> n \in P
      BY <2>1
    <2>4. (\A n \in Names : n \in pRules <=> n # RoleOwner /\ \E r \in Roles : name[r] = n)
          <=> pRules = P
      BY <2>2, <2>3
    <2> QED
      BY <2>4 DEF P
  <1> QED
    BY <1>2, <1>3, <1>4 DEF Rows, Mirrored, PolicyMirrored, OwnerRemains

LEMMA RowsMeanNext ==
    (TypeOK /\ UniqueNames /\ RolesNamed /\ Dissolved
        => (Rows <=> PolicyMirrored /\ OwnerRemains))'
  BY RowsMean, PTL

\* The lone call moves to r and the rows stay in order.
LEMMA AloneStep ==
    ASSUME Alone, AloneIInv, MembersIInv', NEW c \in Calls, NEW r,
           call' = [call EXCEPT ![c] = r], Current(r)', Rows'
    PROVE  AloneIInv'
  <1>1. \A d \in Calls : call'[d] = r
    BY DEF Alone, AloneIInv, MembersIInv, TypeOK
  <1>2. \A d \in Calls : Current(call[d])'
    BY <1>1 DEF Current
  <1>3. UniqueNames' /\ RolesNamed' /\ Dissolved' /\ TypeOK'
    BY DEF Rows, MembersIInv
  <1>4. PolicyMirrored' /\ OwnerRemains'
    BY <1>3, RowsMeanNext
  <1> QED
    BY <1>2, <1>3, <1>4 DEF AloneIInv

LEMMA AloneHas ==
    ASSUME AloneIInv, NEW c \in Calls, NEW s, s = call[c]
    PROVE  s \in Call /\ CallFits(s) /\ Current(s) /\ Rows /\ MembersIInv
  BY CallHas, RowsMean DEF AloneIInv, MembersIInv

\* The lone call reads.
LEMMA AloneRead ==
    ASSUME Alone, AloneIInv, MembersIInv', NEW c \in Calls, NEW r,
           call' = [call EXCEPT ![c] = r], Current(r), UNCHANGED stored
    PROVE  AloneIInv'
  <1>1. UNCHANGED <<organization, member, name, gRules, pRules>>
    BY DEF stored
  <1>2. Current(r)'
    BY <1>1 DEF Current, RoleOf, Owners
  <1>3. PICK s : s = call[c]
    OBVIOUS
  <1>4. Rows
    BY <1>3, AloneHas
  <1>5. Rows'
    BY <1>1, <1>4 DEF Rows, UniqueNames, RolesNamed, Dissolved, Mirrored, Owned
  <1> QED
    BY <1>2, <1>5, AloneStep

LEMMA AloneReturn ==
    ASSUME Alone, AloneIInv, MembersIInv', NEW c \in Calls, Return(c), UNCHANGED stored
    PROVE  AloneIInv'
  <1>1. Current(Idle)
    BY IdleFits DEF Current, Decided
  <1>2. call' = [call EXCEPT ![c] = Idle]
    BY DEF Return
  <1>3. PICK r : r = Idle
    OBVIOUS
  <1>4. Current(r) /\ call' = [call EXCEPT ![c] = r]
    BY <1>1, <1>2, <1>3
  <1> QED
    BY <1>4, AloneRead

LEMMA AloneEnters ==
    ASSUME Alone, AloneIInv, MembersIInv', NEW c \in Calls, NEW r, Start(c, r), UNCHANGED stored,
           ~r.gone,
           \/ r.pc = "role" /\ r.op = "add"
           \/ r.pc = "member" /\ r.op \in {"change", "remove"}
           \/ r.pc = "tx" /\ r.op = "create" /\ r.new # RoleOwner
           \/ r.pc = "role" /\ r.op = "update" /\ (r.new = r.old \/ r.new # RoleOwner)
           \/ r.pc = "role" /\ r.op = "delete"
    PROVE  AloneIInv'
  <1>1. Current(r)
    BY DEF Current, Decided
  <1>2. call' = [call EXCEPT ![c] = r]
    BY DEF Start
  <1> QED
    BY <1>1, <1>2, AloneRead

LEMMA AloneStartMember ==
    ASSUME Alone, AloneIInv, MembersIInv', NEW c \in Calls, NEW u \in Users, NEW n \in Names,
           StartMember(c, u, n)
    PROVE  AloneIInv'
  <1>1. UNCHANGED stored
    BY DEF StartMember
  <1>2. CASE Start(c, [Idle EXCEPT !.pc = "role", !.op = "add", !.user = u, !.new = n])
    <2>1. PICK r : r = [Idle EXCEPT !.pc = "role", !.op = "add", !.user = u, !.new = n]
      OBVIOUS
    <2>2. ~r.gone /\ r.pc = "role" /\ r.op = "add"
      BY <2>1 DEF Idle
    <2> QED
      BY <1>1, <1>2, <2>1, <2>2, AloneEnters
  <1>3. CASE Start(c, [Idle EXCEPT !.pc = "member", !.op = "change", !.user = u, !.new = n])
    <2>1. PICK r : r = [Idle EXCEPT !.pc = "member", !.op = "change", !.user = u, !.new = n]
      OBVIOUS
    <2>2. ~r.gone /\ r.pc = "member" /\ r.op = "change"
      BY <2>1 DEF Idle
    <2> QED
      BY <1>1, <1>3, <2>1, <2>2, AloneEnters
  <1>4. CASE Start(c, [Idle EXCEPT !.pc = "member", !.op = "remove", !.user = u])
    <2>1. PICK r : r = [Idle EXCEPT !.pc = "member", !.op = "remove", !.user = u]
      OBVIOUS
    <2>2. ~r.gone /\ r.pc = "member" /\ r.op = "remove"
      BY <2>1 DEF Idle
    <2> QED
      BY <1>1, <1>4, <2>1, <2>2, AloneEnters
  <1> QED
    BY <1>2, <1>3, <1>4 DEF StartMember

LEMMA AloneStartRole ==
    ASSUME Alone, AloneIInv, MembersIInv', NEW c \in Calls, NEW n \in Names, NEW m \in Names,
           StartRole(c, n, m)
    PROVE  AloneIInv'
  <1>1. UNCHANGED stored
    BY DEF StartRole
  <1>2. CASE m # RoleOwner /\ Start(c, [Idle EXCEPT !.pc = "tx", !.op = "create", !.new = m])
    <2>1. PICK r : r = [Idle EXCEPT !.pc = "tx", !.op = "create", !.new = m]
      OBVIOUS
    <2>2. ~r.gone /\ r.pc = "tx" /\ r.op = "create" /\ r.new # RoleOwner
      BY <1>2, <2>1 DEF Idle
    <2> QED
      BY <1>1, <1>2, <2>1, <2>2, AloneEnters
  <1>3. CASE /\ (m = n \/ m # RoleOwner)
             /\ Start(c, [Idle EXCEPT !.pc = "role", !.op = "update", !.old = n, !.new = m])
    <2>1. PICK r : r = [Idle EXCEPT !.pc = "role", !.op = "update", !.old = n, !.new = m]
      OBVIOUS
    <2>2. ~r.gone /\ r.pc = "role" /\ r.op = "update" /\ (r.new = r.old \/ r.new # RoleOwner)
      BY <1>3, <2>1 DEF Idle
    <2> QED
      BY <1>1, <1>3, <2>1, <2>2, AloneEnters
  <1>4. CASE Start(c, [Idle EXCEPT !.pc = "role", !.op = "delete", !.old = n])
    <2>1. PICK r : r = [Idle EXCEPT !.pc = "role", !.op = "delete", !.old = n]
      OBVIOUS
    <2>2. ~r.gone /\ r.pc = "role" /\ r.op = "delete"
      BY <2>1 DEF Idle
    <2> QED
      BY <1>1, <1>4, <2>1, <2>2, AloneEnters
  <1> QED
    BY <1>2, <1>3, <1>4 DEF StartRole

LEMMA AloneFind ==
    ASSUME Alone, AloneIInv, MembersIInv', NEW c \in Calls,
           FindMember(c) \/ FindGrantedRole(c) \/ FindRole(c)
    PROVE  AloneIInv'
  <1>1. UNCHANGED stored
    BY DEF FindMember, FindGrantedRole, FindRole
  <1>2. PICK s : s = call[c]
    OBVIOUS
  <1>3. s \in Call /\ Current(s) /\ MembersIInv
    BY <1>2, AloneHas
  <1>4. CASE Return(c)
    BY <1>1, <1>4, AloneReturn
  <1>5. CASE FindMember(c) /\ ~Return(c)
    <2>1. PICK r \in Call :
             /\ call' = [call EXCEPT ![c] = r]
             /\ r.op \in {"remove", "change"}
             /\ ~r.gone /\ r.old = RoleOf(r.user) /\ r.old # None /\ r.old # r.new
             /\ r.pc = IF r.op = "change" THEN "role"
                       ELSE IF r.old = RoleOwner THEN "ownerGrant" ELSE "tx"
      BY <1>2, <1>3, <1>5, FindMemberReads
    <2>2. member[r.user] # None
      BY <2>1 DEF RoleOf
    <2>3. ~(r.op = "change" /\ r.pc \in Decided) /\ ~(r.pc = "tx" /\ r.old = RoleOwner)
      BY <2>1 DEF Decided
    <2>4. Current(r)
      BY <2>1, <2>2, <2>3 DEF Current
    <2> QED
      BY <1>1, <2>1, <2>4, AloneRead
  <1>6. CASE FindGrantedRole(c) /\ ~Return(c)
    <2>1. PICK r \in Call :
             /\ call' = [call EXCEPT ![c] = r]
             /\ s.pc = "role"
             /\ r.op = s.op /\ r.op \in {"add", "change"} /\ r.user = s.user
             /\ r.old = s.old /\ r.new = s.new /\ r.gone = s.gone
             /\ name[r.role] = r.new
             /\ r.pc = IF RoleOwner \in {r.old, r.new} THEN "ownerGrant" ELSE "tx"
      BY <1>2, <1>3, <1>6, FindGrantedRoleReads
    <2>2. ~(r.pc = "tx" /\ r.old = RoleOwner)
      BY <2>1
    <2>3. r.op = "change" => member[r.user] # None /\ r.old = RoleOf(r.user) /\ r.old # r.new
      BY <1>3, <2>1 DEF Current
    <2>4. Current(r)
      BY <1>3, <2>1, <2>2, <2>3 DEF Current
    <2> QED
      BY <1>1, <2>1, <2>4, AloneRead
  <1>7. CASE FindRole(c) /\ ~Return(c)
    <2>1. PICK r \in Call :
             /\ call' = [call EXCEPT ![c] = r]
             /\ s.pc = "role"
             /\ r.op = s.op /\ r.op \in {"update", "delete"}
             /\ r.old = s.old /\ r.new = s.new /\ r.gone = s.gone
             /\ name[r.role] = r.old /\ r.old # RoleOwner
             /\ r.pc = IF r.op = "delete" THEN "assigned" ELSE "tx"
      BY <1>2, <1>3, <1>7, FindRoleReads
    <2>2. Current(r)
      BY <1>3, <2>1 DEF Current
    <2> QED
      BY <1>1, <2>1, <2>2, AloneRead
  <1> QED
    BY <1>4, <1>5, <1>6, <1>7

LEMMA AloneGuards ==
    ASSUME Alone, AloneIInv, MembersIInv', NEW c \in Calls,
           \/ \E actor \in MaybeUser : guardOwnerGrant(c, actor)
           \/ guardLastOwner(c) \/ CheckAssigned(c)
    PROVE  AloneIInv'
  <1>1. UNCHANGED stored
    BY DEF guardOwnerGrant, guardLastOwner, CheckAssigned
  <1>2. PICK s : s = call[c]
    OBVIOUS
  <1>3. s \in Call /\ Current(s) /\ MembersIInv
    BY <1>2, AloneHas
  <1>4. PICK pc \in {"tx", "lastOwner", "return"} :
           /\ pc = "return" => Return(c)
           /\ pc # "return" => Goto(c, pc)
           /\ s.pc \in {"ownerGrant", "lastOwner", "assigned"}
           /\ s.pc = "ownerGrant" /\ pc = "tx" => s.old # RoleOwner
           /\ s.pc = "lastOwner" /\ pc = "tx" => ~(Cardinality(Owners) <= 1)
           /\ s.pc = "assigned" => pc # "lastOwner"
    <2>1. CASE \E actor \in MaybeUser : guardOwnerGrant(c, actor)
      BY <1>2, <2>1 DEF guardOwnerGrant
    <2>2. CASE guardLastOwner(c)
      BY <1>2, <2>2 DEF guardLastOwner
    <2>3. CASE CheckAssigned(c)
      BY <1>2, <2>3 DEF CheckAssigned
    <2> QED
      BY <2>1, <2>2, <2>3
  <1>5. CASE pc = "return"
    BY <1>1, <1>4, <1>5, AloneReturn
  <1>6. CASE pc # "return"
    <2>1. s.pc # "idle" /\ s.pc \in Decided /\ pc \in {"tx", "lastOwner"} /\ Goto(c, pc)
      BY <1>4, <1>6 DEF Decided
    <2>2. PICK r \in Call :
             /\ r.pc = pc /\ r.op = s.op /\ r.user = s.user /\ r.role = s.role
             /\ r.old = s.old /\ r.new = s.new /\ r.gone = s.gone
             /\ call' = [call EXCEPT ![c] = r]
      BY <1>2, <1>3, <2>1, GotoFits
    <2>3. r.pc = "tx" /\ r.old = RoleOwner /\ r.op \in {"remove", "change"}
              => Cardinality(Owners) > 1
      <3>1. SUFFICES ASSUME r.pc = "tx", r.old = RoleOwner, s.pc = "lastOwner"
                     PROVE  Cardinality(Owners) > 1
        BY <1>3, <1>4, <2>2 DEF Current
      <3>2. ~(Cardinality(Owners) <= 1)
        BY <1>4, <2>2, <3>1
      <3>3. Owners \subseteq Users
        BY DEF Owners
      <3>4. Cardinality(Owners) \in Nat
        BY <3>3, NoneIsNoOne, FS_Subset, FS_CardinalityType
      <3> QED
        BY <3>2, <3>4
    <2>4. Current(r)
      BY <1>3, <2>1, <2>2, <2>3 DEF Current, Decided
    <2> QED
      BY <1>1, <2>2, <2>4, AloneRead
  <1> QED
    BY <1>5, <1>6

-----------------------------------------------------------------------------
(* A call that runs alone: its writes.                                     *)

\* The transaction is over: what was read is no longer used.
LEMMA DoneCurrent ==
    ASSUME NEW s, NEW r, Current(s), s.pc # "idle",
           r.pc \in {"removeRule", "addRule", "removeGrants", "removeMembers", "load"},
           r.op = s.op, r.old = s.old, r.new = s.new, r.gone = s.gone
    PROVE  Current(r) /\ Current(r)'
  BY DEF Current, Decided

\* The rows, as facts about functions.
LEMMA RowTypes ==
    ASSUME MembersIInv
    PROVE  /\ member \in [Users -> MaybeRole] /\ name \in [Roles -> MaybeName]
           /\ gRules \subseteq Users \X Names /\ pRules \subseteq Names
           /\ \A u \in Users : member[u] = None \/ member[u] \in Roles
           /\ \A r \in Roles : name[r] = None \/ name[r] \in Names
           /\ None \notin Roles /\ None \notin Names /\ None \notin Users /\ RoleOwner \in Names
  BY NamesAssumption DEF MembersIInv, TypeOK, MaybeRole, MaybeName

LEMMA RowsDeletedAlone ==
    ASSUME Alone, NEW c \in Calls, NEW users, NEW r, MembersIInv, call' = RowsDeleted(c, users, r)
    PROVE  call' = [call EXCEPT ![c] = r]
  <1>1. \A d \in Calls : d = c
    BY DEF Alone
  <1>2. DOMAIN call = Calls
    BY DEF MembersIInv, TypeOK
  <1> QED
    BY <1>1, <1>2 DEF RowsDeleted

LEMMA RulesInsertedAlone ==
    ASSUME Alone, NEW c \in Calls, NEW n, NEW pc, MembersIInv, call' = RulesInserted(c, n, pc)
    PROVE  Goto(c, pc)
  <1>1. \A d \in Calls : d = c
    BY DEF Alone
  <1>2. DOMAIN call = Calls
    BY DEF MembersIInv, TypeOK
  <1>3. call' = [d \in Calls |-> [call[c] EXCEPT !.pc = pc]]
    BY <1>1 DEF RulesInserted
  <1> QED
    BY <1>1, <1>2, <1>3 DEF Goto

\* With more than one owner there is one besides any user.
LEMMA AnotherOwner ==
    ASSUME Cardinality(Owners) > 1, NEW u \in Users
    PROVE  \E v \in Users \ {u} : member[v] # None /\ name[member[v]] = RoleOwner
  <1>1. SUFFICES ASSUME Owners \subseteq {u}
                 PROVE  FALSE
    BY NoneIsNoOne DEF Owners, RoleOf
  <1>2. IsFiniteSet({u}) /\ Cardinality({u}) = 1
    BY FS_Singleton
  <1>3. IsFiniteSet(Owners) /\ Cardinality(Owners) <= 1
    BY <1>1, <1>2, FS_Subset
  <1>4. Cardinality(Owners) \in Nat
    BY <1>3, FS_CardinalityType
  <1> QED
    BY <1>3, <1>4

LEMMA AloneCreateOrganization ==
    ASSUME Alone, AloneIInv, MembersIInv', NEW c \in Calls, NEW u \in Users,
           CreateOrganization(c, u)
    PROVE  AloneIInv'
  <1>1. PICK s : s = call[c]
    OBVIOUS
  <1>2. Rows /\ MembersIInv
    BY <1>1, AloneHas
  <1>3. PICK r : r = [Idle EXCEPT !.pc = "addRule", !.user = u, !.new = RoleOwner]
    OBVIOUS
  <1>4. r.pc = "addRule" /\ r.op = "add" /\ ~r.gone
    BY <1>3 DEF Idle
  <1>5. call' = [call EXCEPT ![c] = r] /\ Current(r)'
    BY <1>3, <1>4 DEF CreateOrganization, Start, Current, Decided
  <1>6. PICK x \in Roles : name' = [name EXCEPT ![x] = RoleOwner] /\ member' = [member EXCEPT ![u] = x]
    BY DEF CreateOrganization, FreshRoles
  <1>7. organization = "none" /\ organization' = "exists" /\ gRules' = {<<u, RoleOwner>>}
        /\ pRules' = pRules
    BY DEF CreateOrganization
  <1>8. /\ \A v \in Users : member'[v] = IF v = u THEN x ELSE None
        /\ \A y \in Roles : name'[y] = IF y = x THEN RoleOwner ELSE None
    BY <1>2, <1>6, <1>7, RowTypes DEF Rows, Dissolved
  <1>9. \A n \in Names : n \notin pRules
    BY <1>2, <1>7, RowTypes DEF Rows, Dissolved, Mirrored
  <1>10. Mirrored'
    BY <1>2, <1>7, <1>8, <1>9, RowTypes DEF Mirrored
  <1>11. UniqueNames' /\ RolesNamed' /\ Dissolved' /\ Owned'
    BY <1>2, <1>7, <1>8, RowTypes DEF UniqueNames, RolesNamed, Dissolved, Owned
  <1>12. Rows'
    BY <1>10, <1>11 DEF Rows
  <1> QED
    BY <1>5, <1>12, AloneStep

LEMMA AloneAddMember ==
    ASSUME Alone, AloneIInv, MembersIInv', NEW c \in Calls, AddMember(c)
    PROVE  AloneIInv'
  <1>1. PICK s : s = call[c]
    OBVIOUS
  <1>2. /\ CallFits(s) /\ Current(s) /\ Rows /\ MembersIInv /\ s.pc = "tx" /\ s.op = "add"
    BY <1>1, AloneHas DEF AddMember, At
  <1>3. s.user \in Users /\ s.new \in Names /\ s.role \in Roles /\ name[s.role] = s.new
    BY <1>2 DEF CallFits, Current, Decided
  <1>4. PICK r \in Call : /\ r.pc = "addRule" /\ r.op = s.op /\ r.old = s.old /\ r.new = s.new
                          /\ r.gone = s.gone /\ call' = [call EXCEPT ![c] = r]
    <2>1. call' = RulesInserted(c, s.new, "addRule")
      BY <1>1 DEF AddMember
    <2>2. Goto(c, "addRule")
      BY <1>2, <2>1, RulesInsertedAlone
    <2> QED
      BY <1>1, <1>2, <2>2, GotoFits DEF Decided
  <1>5. Current(r)'
    BY <1>2, <1>4, DoneCurrent
  <1>6. /\ member[s.user] = None
        /\ member' = [member EXCEPT ![s.user] = s.role]
        /\ gRules' = gRules \union {<<s.user, s.new>>}
        /\ UNCHANGED <<organization, name, pRules>>
    BY <1>1 DEF AddMember
  <1>7. \A u \in Users : member'[u] = IF u = s.user THEN s.role ELSE member[u]
    BY <1>2, <1>6, RowTypes
  <1>8. Mirrored'
    <2>1. ASSUME NEW u \in Users, NEW n \in Names
          PROVE  <<u, n>> \in gRules' <=> member'[u] # None /\ name'[member'[u]] = n
      <3>1. CASE u = s.user
        <4>1. <<u, n>> \notin gRules
          BY <1>2, <1>6, <3>1 DEF Rows, Mirrored
        <4> QED
          BY <1>2, <1>3, <1>6, <1>7, <3>1, <4>1, RowTypes
      <3>2. CASE u # s.user
        <4>1. <<u, n>> \in gRules' <=> <<u, n>> \in gRules
          BY <1>6, <3>2
        <4> QED
          BY <1>2, <1>6, <1>7, <3>2, <4>1 DEF Rows, Mirrored
      <3> QED
        BY <3>1, <3>2
    <2>2. \A n \in Names : n \in pRules' <=> n # RoleOwner /\ \E x \in Roles : name'[x] = n
      BY <1>2, <1>6 DEF Rows, Mirrored
    <2> QED
      BY <2>1, <2>2 DEF Mirrored
  <1>9. UniqueNames' /\ RolesNamed'
    BY <1>2, <1>3, <1>6, <1>7, RowTypes DEF Rows, UniqueNames, RolesNamed
  <1>10. organization = "exists"
    BY <1>2, <1>3, RowTypes DEF Rows, Dissolved
  <1>11. Dissolved' /\ Owned'
    BY <1>2, <1>6, <1>7, <1>10 DEF Rows, Dissolved, Owned
  <1>12. Rows'
    BY <1>8, <1>9, <1>11 DEF Rows
  <1> QED
    BY <1>4, <1>5, <1>12, AloneStep

LEMMA AloneChangeMemberRole ==
    ASSUME Alone, AloneIInv, MembersIInv', NEW c \in Calls, ChangeMemberRole(c)
    PROVE  AloneIInv'
  <1>1. PICK s : s = call[c]
    OBVIOUS
  <1>2. /\ CallFits(s) /\ Current(s) /\ Rows /\ MembersIInv /\ s.pc = "tx" /\ s.op = "change"
    BY <1>1, AloneHas DEF ChangeMemberRole, At
  <1>3. /\ s.user \in Users /\ s.new \in Names /\ s.role \in Roles /\ name[s.role] = s.new
        /\ member[s.user] # None /\ name[member[s.user]] = s.old /\ s.old # s.new
        /\ s.old = RoleOwner => Cardinality(Owners) > 1
    BY <1>2 DEF CallFits, Current, Decided, RoleOf
  <1>4. PICK r \in Call : /\ r.pc = "removeRule" /\ r.op = s.op /\ r.old = s.old /\ r.new = s.new
                          /\ r.gone = s.gone /\ call' = [call EXCEPT ![c] = r]
    <2>1. call' = RulesInserted(c, s.new, "removeRule")
      BY <1>1 DEF ChangeMemberRole
    <2>2. Goto(c, "removeRule")
      BY <1>2, <2>1, RulesInsertedAlone
    <2> QED
      BY <1>1, <1>2, <2>2, GotoFits DEF Decided
  <1>5. Current(r)'
    BY <1>2, <1>4, DoneCurrent
  <1>6. /\ member' = [member EXCEPT ![s.user] = s.role]
        /\ gRules' = (gRules \ {<<s.user, s.old>>}) \union {<<s.user, s.new>>}
        /\ UNCHANGED <<organization, name, pRules>>
    BY <1>1 DEF ChangeMemberRole, RulesChanged
  <1>7. \A u \in Users : member'[u] = IF u = s.user THEN s.role ELSE member[u]
    BY <1>2, <1>6, RowTypes
  <1>8. Mirrored'
    <2>1. ASSUME NEW u \in Users, NEW n \in Names
          PROVE  <<u, n>> \in gRules' <=> member'[u] # None /\ name'[member'[u]] = n
      <3>1. CASE u = s.user
        <4>1. <<u, n>> \in gRules <=> n = s.old
          BY <1>2, <1>3, <3>1 DEF Rows, Mirrored
        <4>2. <<u, n>> \in gRules' <=> n = s.new
          BY <1>6, <3>1, <4>1
        <4> QED
          BY <1>2, <1>3, <1>6, <1>7, <3>1, <4>2, RowTypes
      <3>2. CASE u # s.user
        <4>1. <<u, n>> \in gRules' <=> <<u, n>> \in gRules
          BY <1>6, <3>2
        <4> QED
          BY <1>2, <1>6, <1>7, <3>2, <4>1 DEF Rows, Mirrored
      <3> QED
        BY <3>1, <3>2
    <2>2. \A n \in Names : n \in pRules' <=> n # RoleOwner /\ \E x \in Roles : name'[x] = n
      BY <1>2, <1>6 DEF Rows, Mirrored
    <2> QED
      BY <2>1, <2>2 DEF Mirrored
  <1>9. UniqueNames' /\ RolesNamed'
    BY <1>2, <1>3, <1>6, <1>7, RowTypes DEF Rows, UniqueNames, RolesNamed
  <1>10. organization = "exists" /\ Owned
    BY <1>2, <1>3, RowTypes DEF Rows, Dissolved
  <1>11. Dissolved' /\ Owned'
    <2>1. PICK v \in Users : /\ member[v] # None /\ name[member[v]] = RoleOwner
                             /\ v # s.user
      <3>1. CASE s.old = RoleOwner
        BY <1>3, <3>1, AnotherOwner
      <3>2. CASE s.old # RoleOwner
        BY <1>3, <1>10, <3>2 DEF Owned
      <3> QED
        BY <3>1, <3>2
    <2> QED
      BY <1>6, <1>7, <1>10, <2>1 DEF Dissolved, Owned
  <1>12. Rows'
    BY <1>8, <1>9, <1>11 DEF Rows
  <1> QED
    BY <1>4, <1>5, <1>12, AloneStep

LEMMA AloneRemoveMember ==
    ASSUME Alone, AloneIInv, MembersIInv', NEW c \in Calls, RemoveMember(c)
    PROVE  AloneIInv'
  <1>1. PICK s : s = call[c]
    OBVIOUS
  <1>2. /\ s \in Call /\ CallFits(s) /\ Current(s) /\ Rows /\ MembersIInv
        /\ s.pc = "tx" /\ s.op = "remove"
    BY <1>1, AloneHas DEF RemoveMember, At
  <1>3. /\ s.user \in Users
        /\ member[s.user] # None /\ name[member[s.user]] = s.old
        /\ s.old = RoleOwner => Cardinality(Owners) > 1
    BY <1>2 DEF CallFits, Current, Decided, RoleOf
  <1>4. PICK r : r = [s EXCEPT !.pc = "removeRule"]
    OBVIOUS
  <1>5. /\ r.pc = "removeRule" /\ r.op = s.op /\ r.old = s.old /\ r.new = s.new
        /\ r.gone = s.gone
    BY <1>2, <1>4 DEF Call
  <1>6. /\ member' = [member EXCEPT ![s.user] = None]
        /\ gRules' = {g \in gRules : g[1] # s.user}
        /\ call' = RowsDeleted(c, {s.user}, r)
        /\ UNCHANGED <<organization, name, pRules>>
    BY <1>1, <1>4 DEF RemoveMember, RulesRemoved
  <1>7. call' = [call EXCEPT ![c] = r] /\ Current(r)'
    BY <1>2, <1>5, <1>6, RowsDeletedAlone, DoneCurrent
  <1>8. \A u \in Users : member'[u] = IF u = s.user THEN None ELSE member[u]
    BY <1>2, <1>6, RowTypes
  <1>9. Mirrored'
    <2>1. ASSUME NEW u \in Users, NEW n \in Names
          PROVE  <<u, n>> \in gRules' <=> member'[u] # None /\ name'[member'[u]] = n
      <3>1. <<u, n>> \in gRules' <=> <<u, n>> \in gRules /\ u # s.user
        BY <1>6
      <3>2. <<u, n>> \in gRules <=> member[u] # None /\ name[member[u]] = n
        BY <1>2 DEF Rows, Mirrored
      <3> QED
        BY <1>6, <1>8, <3>1, <3>2
    <2>2. \A n \in Names : n \in pRules' <=> n # RoleOwner /\ \E x \in Roles : name'[x] = n
      BY <1>2, <1>6 DEF Rows, Mirrored
    <2> QED
      BY <2>1, <2>2 DEF Mirrored
  <1>10. UniqueNames' /\ RolesNamed'
    BY <1>2, <1>6, <1>8 DEF Rows, UniqueNames, RolesNamed
  <1>11. organization = "exists" /\ Owned
    BY <1>2, <1>3 DEF Rows, Dissolved
  <1>12. Dissolved' /\ Owned'
    <2>1. PICK v \in Users : /\ member[v] # None /\ name[member[v]] = RoleOwner
                             /\ v # s.user
      <3>1. CASE s.old = RoleOwner
        BY <1>3, <3>1, AnotherOwner
      <3>2. CASE s.old # RoleOwner
        BY <1>3, <1>11, <3>2 DEF Owned
      <3> QED
        BY <3>1, <3>2
    <2> QED
      BY <1>6, <1>8, <1>11, <2>1 DEF Dissolved, Owned
  <1>13. Rows'
    BY <1>9, <1>10, <1>12 DEF Rows
  <1> QED
    BY <1>7, <1>13, AloneStep

LEMMA AloneCreateRole ==
    ASSUME Alone, AloneIInv, MembersIInv', NEW c \in Calls, CreateRole(c)
    PROVE  AloneIInv'
  <1>1. PICK s : s = call[c]
    OBVIOUS
  <1>2. /\ CallFits(s) /\ Current(s) /\ Rows /\ MembersIInv /\ s.pc = "tx" /\ s.op = "create"
    BY <1>1, AloneHas DEF CreateRole, At
  <1>3. s.new \in Names /\ s.new # RoleOwner
    BY <1>2 DEF CallFits, Current
  <1>4. PICK r \in Call : /\ r.pc = "addRule" /\ r.op = s.op /\ r.old = s.old /\ r.new = s.new
                          /\ r.gone = s.gone /\ call' = [call EXCEPT ![c] = r]
    <2>1. call' = RulesInserted(c, s.new, "addRule")
      BY <1>1 DEF CreateRole
    <2>2. Goto(c, "addRule")
      BY <1>2, <2>1, RulesInsertedAlone
    <2> QED
      BY <1>1, <1>2, <2>2, GotoFits DEF Decided
  <1>5. Current(r)'
    BY <1>2, <1>4, DoneCurrent
  <1>6. PICK x \in Roles : name[x] = None /\ name' = [name EXCEPT ![x] = s.new]
    BY <1>1 DEF CreateRole, FreshRoles
  <1>7. /\ organization = "exists" /\ \A y \in Roles : name[y] # s.new
        /\ pRules' = pRules \union {s.new}
        /\ UNCHANGED <<organization, member, gRules>>
    BY <1>1 DEF CreateRole, Named
  <1>8. \A y \in Roles : name'[y] = IF y = x THEN s.new ELSE name[y]
    BY <1>2, <1>6, RowTypes
  <1>9. \A u \in Users : member[u] # None => member[u] \in Roles /\ member[u] # x
    BY <1>2, <1>6, RowTypes DEF Rows, RolesNamed
  <1>10. Mirrored'
    <2>1. \A u \in Users, n \in Names :
             <<u, n>> \in gRules' <=> member'[u] # None /\ name'[member'[u]] = n
      BY <1>2, <1>7, <1>8, <1>9 DEF Rows, Mirrored
    <2>2. ASSUME NEW n \in Names
          PROVE  n \in pRules' <=> n # RoleOwner /\ \E y \in Roles : name'[y] = n
      <3>1. (\E y \in Roles : name'[y] = n) <=> n = s.new \/ \E y \in Roles : name[y] = n
        BY <1>2, <1>6, <1>8, RowTypes
      <3>2. n \in pRules <=> n # RoleOwner /\ \E y \in Roles : name[y] = n
        BY <1>2 DEF Rows, Mirrored
      <3> QED
        BY <1>3, <1>7, <3>1, <3>2
    <2> QED
      BY <2>1, <2>2 DEF Mirrored
  <1>11. UniqueNames'
    BY <1>2, <1>6, <1>7, <1>8 DEF Rows, UniqueNames
  <1>12. RolesNamed'
    BY <1>2, <1>7, <1>8, <1>9 DEF Rows, RolesNamed
  <1>13. Dissolved' /\ Owned'
    BY <1>2, <1>7, <1>8, <1>9 DEF Rows, Dissolved, Owned
  <1>14. Rows'
    BY <1>10, <1>11, <1>12, <1>13 DEF Rows
  <1> QED
    BY <1>4, <1>5, <1>14, AloneStep

LEMMA AloneUpdateRole ==
    ASSUME Alone, AloneIInv, MembersIInv', NEW c \in Calls, UpdateRole(c)
    PROVE  AloneIInv'
  <1>1. PICK s : s = call[c]
    OBVIOUS
  <1>2. /\ CallFits(s) /\ Current(s) /\ Rows /\ MembersIInv /\ s.pc = "tx" /\ s.op = "update"
    BY <1>1, AloneHas DEF UpdateRole, At
  <1>3. /\ s.old \in Names /\ s.new \in Names /\ s.role \in Roles /\ name[s.role] = s.old
        /\ s.old # RoleOwner /\ s.new # RoleOwner
    BY <1>2 DEF CallFits, Current, Decided
  <1>4. PICK r \in Call : /\ r.pc = "load" /\ r.op = s.op /\ r.old = s.old /\ r.new = s.new
                          /\ r.gone = s.gone /\ call' = [call EXCEPT ![c] = r]
    <2>1. call' = RulesInserted(c, s.new, "load")
      BY <1>1 DEF UpdateRole
    <2>2. Goto(c, "load")
      BY <1>2, <2>1, RulesInsertedAlone
    <2> QED
      BY <1>1, <1>2, <2>2, GotoFits DEF Decided
  <1>5. Current(r)'
    BY <1>2, <1>4, DoneCurrent
  <1>6. /\ name' = IF s.new = s.old THEN name ELSE [name EXCEPT ![s.role] = s.new]
        /\ pRules' = (pRules \ {s.old}) \union {s.new}
        /\ gRules' = {Renamed(g, s.old, s.new) : g \in gRules}
        /\ UNCHANGED <<organization, member>>
        /\ s.new # s.old => Named(s.new) \subseteq {s.role}
    BY <1>1 DEF UpdateRole, GrantsUpdated
  <1>7. \A y \in Roles : name'[y] = IF y = s.role THEN s.new ELSE name[y]
    BY <1>2, <1>3, <1>6, RowTypes
  <1>8. \A y \in Roles : /\ name[y] = s.old => y = s.role
                         /\ name[y] = s.new => y = s.role /\ s.new = s.old
    <2>1. \A y \in Roles : name[y] = s.old => y = s.role
      BY <1>2, <1>3, RowTypes DEF Rows, UniqueNames
    <2>2. \A y \in Roles : name[y] = s.new => y = s.role
      BY <1>3, <1>6, <2>1 DEF Named
    <2> QED
      BY <1>3, <2>1, <2>2
  <1>9. \A u \in Users : member[u] # None => member[u] \in Roles /\ name[member[u]] # None
    BY <1>2, RowTypes DEF Rows, RolesNamed
  <1>10. Mirrored'
    <2>1. ASSUME NEW u \in Users, NEW n \in Names
          PROVE  <<u, n>> \in gRules' <=> member'[u] # None /\ name'[member'[u]] = n
      <3>1. <<u, n>> \in gRules' <=>
                \/ n = s.new /\ <<u, s.old>> \in gRules
                \/ n # s.old /\ <<u, n>> \in gRules
        <4>1. gRules \subseteq Users \X Names
          BY <1>2, RowTypes
        <4>2. ASSUME <<u, n>> \in gRules'
              PROVE  \/ n = s.new /\ <<u, s.old>> \in gRules
                     \/ n # s.old /\ <<u, n>> \in gRules
          <5>1. PICK g \in gRules : <<u, n>> = Renamed(g, s.old, s.new)
            BY <1>6, <4>2
          <5>2. g = <<g[1], g[2]>>
            BY <4>1
          <5> QED
            BY <5>1, <5>2 DEF Renamed
        <4>3. ASSUME n = s.new, <<u, s.old>> \in gRules
              PROVE  <<u, n>> \in gRules'
          <5>1. Renamed(<<u, s.old>>, s.old, s.new) = <<u, n>>
            BY <4>3 DEF Renamed
          <5> QED
            BY <1>6, <4>3, <5>1
        <4>4. ASSUME n # s.old, <<u, n>> \in gRules
              PROVE  <<u, n>> \in gRules'
          <5>1. Renamed(<<u, n>>, s.old, s.new) = <<u, n>>
            BY <4>4 DEF Renamed
          <5> QED
            BY <1>6, <4>4, <5>1
        <4> QED
          BY <4>2, <4>3, <4>4
      <3>2. /\ <<u, n>> \in gRules <=> member[u] # None /\ name[member[u]] = n
            /\ <<u, s.old>> \in gRules <=> member[u] # None /\ name[member[u]] = s.old
        BY <1>2, <1>3 DEF Rows, Mirrored
      <3>3. CASE member[u] = None
        BY <1>6, <3>1, <3>2, <3>3
      <3>4. CASE member[u] # None /\ member[u] = s.role
        BY <1>3, <1>6, <1>7, <3>1, <3>2, <3>4
      <3>5. CASE member[u] # None /\ member[u] # s.role
        BY <1>6, <1>7, <1>8, <1>9, <3>1, <3>2, <3>5
      <3> QED
        BY <3>3, <3>4, <3>5
    <2>2. ASSUME NEW n \in Names
          PROVE  n \in pRules' <=> n # RoleOwner /\ \E y \in Roles : name'[y] = n
      <3>1. (\E y \in Roles : name'[y] = n)
                <=> n = s.new \/ (n # s.old /\ \E y \in Roles : name[y] = n)
        BY <1>3, <1>7, <1>8
      <3>2. n \in pRules <=> n # RoleOwner /\ \E y \in Roles : name[y] = n
        BY <1>2 DEF Rows, Mirrored
      <3> QED
        BY <1>3, <1>6, <3>1, <3>2
    <2> QED
      BY <2>1, <2>2 DEF Mirrored
  <1>11. UniqueNames'
    BY <1>2, <1>7, <1>8 DEF Rows, UniqueNames
  <1>12. RolesNamed'
    BY <1>2, <1>3, <1>6, <1>7, <1>9, RowTypes DEF RolesNamed
  <1>13. organization = "exists" /\ Owned
    BY <1>2, <1>3, RowTypes DEF Rows, Dissolved
  <1>14. Dissolved' /\ Owned'
    BY <1>3, <1>6, <1>7, <1>9, <1>13 DEF Dissolved, Owned
  <1>15. Rows'
    BY <1>10, <1>11, <1>12, <1>14 DEF Rows
  <1> QED
    BY <1>4, <1>5, <1>15, AloneStep

LEMMA AloneDeleteRole ==
    ASSUME Alone, AloneIInv, MembersIInv', NEW c \in Calls, DeleteRole(c)
    PROVE  AloneIInv'
  <1>1. PICK s : s = call[c]
    OBVIOUS
  <1>2. /\ CallFits(s) /\ Current(s) /\ Rows /\ MembersIInv /\ s.pc = "tx" /\ s.op = "delete"
    BY <1>1, AloneHas DEF DeleteRole, At
  <1>3. s.old \in Names /\ s.role \in Roles /\ name[s.role] = s.old /\ s.old # RoleOwner
    BY <1>2 DEF CallFits, Current, Decided
  <1>4. PICK r \in Call : /\ r.pc = "removeGrants" /\ r.op = s.op /\ r.old = s.old
                          /\ r.new = s.new /\ r.gone = s.gone
                          /\ call' = [call EXCEPT ![c] = r]
    BY <1>1, <1>2, GotoFits DEF DeleteRole, Decided
  <1>5. Current(r)'
    BY <1>2, <1>4, DoneCurrent
  <1>6. /\ \A u \in Users : member[u] # s.role
        /\ name' = [name EXCEPT ![s.role] = None]
        /\ pRules' = pRules \ {s.old}
        /\ gRules' = {g \in gRules : g[2] # s.old}
        /\ UNCHANGED <<organization, member>>
    <2>1. ~s.gone
      BY <1>2 DEF Current
    <2>2. PICK missed : /\ missed # {} => s.gone
                        /\ gRules' = {g \in gRules : g[2] # s.old \/ g \in missed}
      BY <1>1 DEF DeleteRole
    <2>3. missed = {}
      BY <2>1, <2>2
    <2> QED
      BY <1>1, <2>1, <2>2, <2>3 DEF DeleteRole
  <1>7. \A y \in Roles : name'[y] = IF y = s.role THEN None ELSE name[y]
    BY <1>2, <1>6, RowTypes
  <1>8. \A y \in Roles : name[y] = s.old => y = s.role
    BY <1>2, <1>3, RowTypes DEF Rows, UniqueNames
  <1>9. \A u \in Users : member[u] # None =>
            member[u] \in Roles /\ name[member[u]] # None /\ name[member[u]] # s.old
    BY <1>2, <1>6, <1>8, RowTypes DEF Rows, RolesNamed
  <1>10. Mirrored'
    <2>1. ASSUME NEW u \in Users, NEW n \in Names
          PROVE  <<u, n>> \in gRules' <=> member'[u] # None /\ name'[member'[u]] = n
      <3>1. <<u, n>> \in gRules' <=> <<u, n>> \in gRules /\ n # s.old
        BY <1>6
      <3>2. <<u, n>> \in gRules <=> member[u] # None /\ name[member[u]] = n
        BY <1>2 DEF Rows, Mirrored
      <3> QED
        BY <1>6, <1>7, <1>9, <3>1, <3>2
    <2>2. ASSUME NEW n \in Names
          PROVE  n \in pRules' <=> n # RoleOwner /\ \E y \in Roles : name'[y] = n
      <3>1. (\E y \in Roles : name'[y] = n) <=> n # s.old /\ \E y \in Roles : name[y] = n
        BY <1>2, <1>3, <1>7, <1>8, RowTypes
      <3>2. n \in pRules <=> n # RoleOwner /\ \E y \in Roles : name[y] = n
        BY <1>2 DEF Rows, Mirrored
      <3> QED
        BY <1>6, <3>1, <3>2
    <2> QED
      BY <2>1, <2>2 DEF Mirrored
  <1>11. UniqueNames'
    BY <1>2, <1>7 DEF Rows, UniqueNames
  <1>12. RolesNamed'
    BY <1>6, <1>7, <1>9 DEF RolesNamed
  <1>13. organization = "exists" /\ Owned
    BY <1>2, <1>3, RowTypes DEF Rows, Dissolved
  <1>14. Dissolved' /\ Owned'
    BY <1>6, <1>7, <1>9, <1>13 DEF Dissolved, Owned
  <1>15. Rows'
    BY <1>10, <1>11, <1>12, <1>14 DEF Rows
  <1> QED
    BY <1>4, <1>5, <1>15, AloneStep

LEMMA AloneDeleteOrganization ==
    ASSUME Alone, AloneIInv, MembersIInv', NEW c \in Calls, DeleteOrganization(c)
    PROVE  AloneIInv'
  <1>1. PICK s : s = call[c]
    OBVIOUS
  <1>2. MembersIInv
    BY <1>1, AloneHas
  <1>3. PICK r : r = [Idle EXCEPT !.pc = "removeGrants", !.op = "dissolve"]
    OBVIOUS
  <1>4. r.pc = "removeGrants" /\ r.op = "dissolve" /\ ~r.gone
    BY <1>3 DEF Idle
  <1>5. /\ organization' = "deleted" /\ member' = [u \in Users |-> None]
        /\ name' = [x \in Roles |-> None] /\ gRules' = {} /\ pRules' = {}
        /\ call' = RowsDeleted(c, Users, r)
    BY <1>3 DEF DeleteOrganization
  <1>6. call' = [call EXCEPT ![c] = r] /\ Current(r)'
    BY <1>2, <1>4, <1>5, RowsDeletedAlone DEF Current, Decided
  <1>7. /\ \A u \in Users : member'[u] = None
        /\ \A x \in Roles : name'[x] = None
        /\ \A n \in Names : n # None
    BY <1>5, NoneIsNoOne
  <1>8. Rows'
    BY <1>5, <1>7 DEF Rows, UniqueNames, RolesNamed, Dissolved, Mirrored
  <1> QED
    BY <1>6, <1>8, AloneStep

-----------------------------------------------------------------------------
(* A call that runs alone: memory, and the theorems.                       *)

LEMMA AloneTxFails ==
    ASSUME Alone, AloneIInv, MembersIInv', NEW c \in Calls, TxFails(c)
    PROVE  AloneIInv'
  <1>1. Return(c) /\ UNCHANGED stored
    BY DEF TxFails
  <1> QED
    BY <1>1, AloneReturn

LEMMA AloneMemory ==
    ASSUME Alone, AloneIInv, MembersIInv', NEW c \in Calls, Memory(c)
    PROVE  AloneIInv'
  <1>1. PICK s : s = call[c]
    OBVIOUS
  <1>2. s \in Call /\ Current(s) /\ MembersIInv
    BY <1>1, AloneHas
  <1>3. /\ UNCHANGED stored /\ s.pc # "idle"
        /\ \/ Return(c) \/ Goto(c, "addRule") \/ Goto(c, "removeMembers")
    BY <1>1 DEF Memory, memoryRemoveRules, memoryAddRules, RemoveFilteredPolicy,
                RemoveFilteredGroupingPolicy, LoadAfterUpdate, NoDelta
  <1>4. CASE Return(c)
    BY <1>3, <1>4, AloneReturn
  <1>5. ASSUME NEW pc \in {"addRule", "removeMembers"}, Goto(c, pc)
        PROVE  AloneIInv'
    <2>1. pc \notin Decided
      BY DEF Decided
    <2>2. PICK r \in Call : /\ r.pc = pc /\ r.op = s.op /\ r.old = s.old /\ r.new = s.new
                            /\ r.gone = s.gone /\ call' = [call EXCEPT ![c] = r]
      BY <1>1, <1>2, <1>3, <1>5, <2>1, GotoFits
    <2>3. Current(r)
      BY <1>2, <1>3, <2>2, DoneCurrent
    <2> QED
      BY <1>3, <2>2, <2>3, AloneRead
  <1> QED
    BY <1>3, <1>4, <1>5

LEMMA AloneLoads ==
    ASSUME AloneIInv, MembersIInv',
           LoadPolicy \/ (\E policy \in loads : ApplyPolicy(policy)) \/ UNCHANGED vars
    PROVE  AloneIInv'
  <1>1. UNCHANGED <<organization, member, name, gRules, pRules, call>>
    BY DEF LoadPolicy, ApplyPolicy, stored, vars
  <1>2. /\ UniqueNames' /\ RolesNamed' /\ Dissolved'
        /\ PolicyMirrored' /\ OwnerRemains'
    BY <1>1 DEF AloneIInv, UniqueNames, RolesNamed, Dissolved, PolicyMirrored, OwnerRemains,
                Owners, RoleOf
  <1>3. \A c \in Calls : Current(call[c])'
    BY <1>1 DEF AloneIInv, Current, RoleOf, Owners
  <1> QED
    BY <1>2, <1>3 DEF AloneIInv

LEMMA AloneInit ==
    ASSUME Init
    PROVE  AloneIInv
  <1>1. MembersIInv
    BY MembersInit
  <1>2. /\ organization = "none" /\ gRules = {} /\ pRules = {}
        /\ \A u \in Users : member[u] = None
        /\ \A r \in Roles : name[r] = None
    BY DEF Init
  <1>3. UniqueNames /\ RolesNamed /\ Dissolved
    BY <1>2 DEF UniqueNames, RolesNamed, Dissolved
  <1>4. Rows
    BY <1>2, <1>3, NoneIsNoOne DEF Rows, Mirrored
  <1>5. PolicyMirrored /\ OwnerRemains
    BY <1>1, <1>3, <1>4, RowsMean DEF MembersIInv
  <1>6. \A c \in Calls : call[c] = Idle
    BY DEF Init
  <1>7. Current(Idle)
    BY IdleFits DEF Current, Decided
  <1>8. \A c \in Calls : Current(call[c])
    BY <1>6, <1>7
  <1> QED
    BY <1>1, <1>3, <1>5, <1>8 DEF AloneIInv

LEMMA AloneNext ==
    ASSUME Alone, AloneIInv, [Next]_vars
    PROVE  AloneIInv'
  <1>1. MembersIInv'
    BY MembersNext DEF AloneIInv
  <1>2. CASE LoadPolicy \/ (\E policy \in loads : ApplyPolicy(policy)) \/ UNCHANGED vars
    BY <1>1, <1>2, AloneLoads
  <1>3. ASSUME NEW c \in Calls, NEW u \in Users, CreateOrganization(c, u)
        PROVE  AloneIInv'
    BY <1>1, <1>3, AloneCreateOrganization
  <1>4. ASSUME NEW c \in Calls, NEW u \in Users, NEW n \in Names, StartMember(c, u, n)
        PROVE  AloneIInv'
    BY <1>1, <1>4, AloneStartMember
  <1>5. ASSUME NEW c \in Calls, NEW n \in Names, NEW m \in Names, StartRole(c, n, m)
        PROVE  AloneIInv'
    BY <1>1, <1>5, AloneStartRole
  <1>6. ASSUME NEW c \in Calls, (\E actor \in MaybeUser : guardOwnerGrant(c, actor)) \/ Check(c)
        PROVE  AloneIInv'
    BY <1>1, <1>6, AloneFind, AloneGuards DEF Check
  <1>7. ASSUME NEW c \in Calls, Transaction(c)
        PROVE  AloneIInv'
    BY <1>1, <1>7, AloneAddMember, AloneRemoveMember, AloneChangeMemberRole, AloneCreateRole,
       AloneUpdateRole, AloneDeleteRole, AloneTxFails, AloneDeleteOrganization DEF Transaction
  <1>8. ASSUME NEW c \in Calls, Memory(c)
        PROVE  AloneIInv'
    BY <1>1, <1>8, AloneMemory
  <1> QED
    BY <1>2, <1>3, <1>4, <1>5, <1>6, <1>7, <1>8 DEF Next

\* Every reachable state satisfies the invariant of calls that do not overlap.
THEOREM AloneInvariant == Alone /\ Safety => []AloneIInv
  <1>1. Init => AloneIInv
    BY AloneInit
  <1>2. Alone /\ AloneIInv /\ [Next]_vars => AloneIInv'
    BY AloneNext
  <1>3. ASSUME Alone
        PROVE  AloneIInv /\ [Next]_vars => AloneIInv'
    BY <1>2, <1>3
  <1>4. ASSUME Alone
        PROVE  Safety => []AloneIInv
    BY <1>1, <1>3, <1>4, PTL DEF Safety
  <1> QED
    BY <1>4

\* When the calls on an organization do not overlap, the rules in storage are
\* exactly those of the member and role rows: the transactions of members.go and
\* roles.go change both alike, renames and deleted roles included.
THEOREM AloneMirrors == Alone /\ Safety => []PolicyMirrored
  <1>1. AloneIInv => PolicyMirrored
    BY DEF AloneIInv
  <1> QED
    BY <1>1, AloneInvariant, PTL

\* When the calls on an organization do not overlap, guardLastOwner suffices:
\* the organization has an owner as long as it exists.  (Calls that overlap can
\* remove the last two owners.)
THEOREM AloneOwnerRemains == Alone /\ Safety => []OwnerRemains
  <1>1. AloneIInv => OwnerRemains
    BY DEF AloneIInv
  <1> QED
    BY <1>1, AloneInvariant, PTL

=============================================================================
