------------------------- MODULE AuthzClientProofs -------------------------
(***************************************************************************)
(* Theorems of AuthzClient, for any number of replicas and concurrent      *)
(* calls, any roles and lifetime of the caches, and of PolicyPages, for    *)
(* any roles, permissions and page size; and that the instances of         *)
(* MCAuthzClient keep the types of both.                                   *)
(***************************************************************************)
EXTENDS MCAuthzClient, FiniteSetTheorems, TLAPS

-----------------------------------------------------------------------------
(* AuthzClient.                                                            *)

(***************************************************************************)
(* The inductive invariant.  The rules of a model are what it was built    *)
(* from, and a link is that of a cached role or of a dropped entry.  A     *)
(* replica without an event of a change before it and without a lost       *)
(* eviction has nothing older than the change, once evictRoles has been    *)
(* through the caches.  What is older than the roles ages with them.       *)
(***************************************************************************)
ModelFits(r) ==
    /\ rebuild[r] # "policies" => model[r].p = snapshot[r]
    /\ model[r].g = IF Unlocked(r) THEN cache[r].roles ELSE {}
    /\ model[r].g \subseteq model[r].links
    /\ model[r].links \subseteq cache[r].roles \union dropped[r]

NoMembership(queue) == \A i \in 1..Len(queue) : queue[i] # "membership"

EvictionFits(r) ==
    ~raced /\ ~deleted /\ r \notin missed =>
        /\ NoMembership(events[r]) =>
              /\ kvRoles.cached => kvRoles.roles \in recent
              /\ \A q \in Requests : At(q, "kvSet") => req[q].roles \in recent
        /\ events[r] = <<>> =>
              /\ cache[r].cached => cache[r].roles \in recent
              /\ \A q \in Requests : Holding(q) /\ req[q].at = r => req[q].roles \in recent

SharedFits ==
    /\ truth \in recent
    /\ kvRoles.cached => kvRoles.left > 0
    /\ kvRoles.cached /\ kvRoles.roles # truth => since + kvRoles.left <= RoleCacheTTL

LocalFits(r) ==
    cache[r].cached /\ cache[r].left > 0 /\ cache[r].roles # truth =>
        since + cache[r].left <= MaxSince

LookupFits(q) ==
    /\ At(q, "kvSet") /\ req[q].roles # truth => since = 0
    /\ At(q, "insert") /\ req[q].roles # truth => since < RoleCacheTTL

ClientIInv ==
    /\ TypeOK
    /\ \A r \in Replicas : ModelFits(r) /\ EvictionFits(r) /\ LocalFits(r)
    /\ SharedFits
    /\ \A q \in Requests : LookupFits(q)

-----------------------------------------------------------------------------
(* Entries, queues of events and calls.                                    *)

Event == {"membership", "evicting", "organization"}

Places == {"idle", "kv", "rpc", "kvSet", "insert", "decide"}

LEMMA Lifetime ==
    /\ RoleCacheTTL \in Nat /\ RoleCacheTTL > 0 /\ MaxChanges \in Nat
    /\ MaxSince \in Nat /\ MaxSince >= RoleCacheTTL
  BY CacheAssumption DEF MaxSince

LEMMA EntryTypes ==
    /\ NoEntry \in Entry /\ NoEntry.cached = FALSE /\ NoEntry.roles = {} /\ NoEntry.left = 0
    /\ \A roles \in SUBSET Roles :
          /\ Fresh(roles) \in Entry
          /\ Fresh(roles).cached = TRUE /\ Fresh(roles).roles = roles
          /\ Fresh(roles).left = RoleCacheTTL
  BY Lifetime DEF Entry, NoEntry, Fresh

LEMMA Resolutions == {} \in Resolved /\ \A roles \in Resolved : roles \subseteq Roles
  BY DEF Resolved

LEMMA Groupings ==
    ASSUME NEW m \in Model, NEW roles \in SUBSET Roles
    PROVE  /\ Grouped(m, roles) \in Model /\ Grouped(m, roles).p = m.p
           /\ Grouped(m, roles).g = m.g \union roles
           /\ Grouped(m, roles).links = m.links \union roles
           /\ Ungrouped(m, roles) \in Model /\ Ungrouped(m, roles).p = m.p
           /\ Ungrouped(m, roles).g = m.g \ roles
           /\ Ungrouped(m, roles).links = m.links \ (roles \cap m.g)
           /\ Cleared(m) \in Model /\ Cleared(m).g = {} /\ Cleared(m).links = m.links
  BY DEF Grouped, Ungrouped, Cleared, Model

LEMMA OlderEntry ==
    ASSUME NEW e \in Entry
    PROVE  /\ Older(e) \in Entry /\ Older(e).cached = e.cached /\ Older(e).roles = e.roles
           /\ Older(e).left = IF e.left = 0 THEN 0 ELSE e.left - 1
           /\ e.left \in Nat /\ e.left <= RoleCacheTTL
  BY Lifetime DEF Entry, Older

LEMMA Queues ==
    ASSUME NEW s \in Seq(Event)
    PROVE  /\ \A e \in Event : /\ Append(s, e) \in Seq(Event) /\ Append(s, e) # <<>>
                               /\ e = "membership" => ~NoMembership(Append(s, e))
           /\ s # <<>> => /\ Tail(s) \in Seq(Event)
                          /\ <<"evicting">> \o Tail(s) \in Seq(Event)
                          /\ <<"evicting">> \o Tail(s) # <<>>
                          /\ NoMembership(Tail(s)) /\ Head(s) # "membership" => NoMembership(s)
  <1>1. ASSUME NEW e \in Event
        PROVE  /\ Append(s, e) \in Seq(Event) /\ Append(s, e) # <<>>
               /\ e = "membership" => ~NoMembership(Append(s, e))
    BY DEF NoMembership
  <1>2. ASSUME s # <<>>
        PROVE  /\ Tail(s) \in Seq(Event)
               /\ <<"evicting">> \o Tail(s) \in Seq(Event)
               /\ <<"evicting">> \o Tail(s) # <<>>
    BY <1>2 DEF Event
  <1>3. ASSUME s # <<>>, NoMembership(Tail(s)), Head(s) # "membership", NEW i \in 1..Len(s)
        PROVE  s[i] # "membership"
    <2>1. CASE i = 1
      BY <1>3, <2>1
    <2>2. CASE i # 1
      <3>1. i - 1 \in 1..Len(Tail(s)) /\ Tail(s)[i - 1] = s[i]
        BY <1>3, <2>2
      <3> QED
        BY <1>3, <3>1 DEF NoMembership
    <2> QED
      BY <2>1, <2>2
  <1> QED
    BY <1>1, <1>2, <1>3 DEF NoMembership

LEMMA Moved ==
    ASSUME TypeOK, NEW q \in Requests, NEW r \in Call, req' = [req EXCEPT ![q] = r]
    PROVE  /\ req' \in [Requests -> Call] /\ req'[q] = r
           /\ \A p \in Requests : p # q => req'[p] = req[p]
  BY DEF TypeOK

LEMMA Moves ==
    ASSUME TypeOK, NEW q \in Requests
    PROVE  /\ req[q] \in Call /\ req[q].at \in Replicas /\ req[q].roles \subseteq Roles
           /\ \A pc \in Places : Goto(q, pc) =>
                 \E r \in Call : /\ r.pc = pc /\ r.at = req[q].at /\ r.roles = req[q].roles
                                 /\ req' = [req EXCEPT ![q] = r]
           /\ \A pc \in Places, roles \in SUBSET Roles : Hold(q, pc, roles) =>
                 \E r \in Call : /\ r.pc = pc /\ r.at = req[q].at /\ r.roles = roles
                                 /\ req' = [req EXCEPT ![q] = r]
  <1>1. req \in [Requests -> Call]
    BY DEF TypeOK
  <1>2. PICK s \in Call : s = req[q]
    BY <1>1
  <1>3. ASSUME NEW pc \in Places, Goto(q, pc)
        PROVE  \E r \in Call : /\ r.pc = pc /\ r.at = s.at /\ r.roles = s.roles
                               /\ req' = [req EXCEPT ![q] = r]
    <2>1. PICK r : r = [s EXCEPT !.pc = pc]
      OBVIOUS
    <2>2. r \in Call /\ r.pc = pc /\ r.at = s.at /\ r.roles = s.roles
      BY <2>1 DEF Call, Places
    <2>3. req' = [req EXCEPT ![q] = r]
      BY <1>2, <1>3, <2>1 DEF Goto
    <2> QED
      BY <2>2, <2>3
  <1>4. ASSUME NEW pc \in Places, NEW roles \in SUBSET Roles, Hold(q, pc, roles)
        PROVE  \E r \in Call : /\ r.pc = pc /\ r.at = s.at /\ r.roles = roles
                               /\ req' = [req EXCEPT ![q] = r]
    <2>1. PICK t : t = [s EXCEPT !.pc = pc]
      OBVIOUS
    <2>2. PICK r : r = [t EXCEPT !.roles = roles]
      OBVIOUS
    <2>3. t \in Call /\ t.pc = pc /\ t.at = s.at
      BY <2>1 DEF Call, Places
    <2>4. r \in Call /\ r.pc = pc /\ r.at = s.at /\ r.roles = roles
      BY <2>2, <2>3 DEF Call
    <2>5. PICK f : f = [req EXCEPT ![q].pc = pc]
      OBVIOUS
    <2>6. f = [req EXCEPT ![q] = t] /\ req' = [f EXCEPT ![q].roles = roles]
      BY <1>2, <1>4, <2>1, <2>5 DEF Hold
    <2>7. req' = [req EXCEPT ![q] = r]
      BY <1>1, <2>2, <2>6
    <2> QED
      BY <2>4, <2>7
  <1> QED
    BY <1>2, <1>3, <1>4 DEF Call

-----------------------------------------------------------------------------
(* The steps of a lookup.                                                  *)

\* A call moves on, and no cache changes.
LEMMA LookupMoves ==
    ASSUME ClientIInv, NEW q \in Requests, NEW c \in Call, req' = [req EXCEPT ![q] = c],
           c.at = req[q].at,
           \/ c.pc \notin {"kvSet", "insert"}
           \/ c.pc = "kvSet" /\ c.roles = truth
           \/ c.pc = "insert" /\ kvRoles.cached /\ c.roles = kvRoles.roles,
           UNCHANGED <<authz, kvRoles, cache, policy, model, bus, raced, dropped>>
    PROVE  ClientIInv'
  <1>1. /\ TypeOK /\ SharedFits
        /\ \A r \in Replicas : ModelFits(r) /\ EvictionFits(r) /\ LocalFits(r)
        /\ \A p \in Requests : LookupFits(p)
    BY DEF ClientIInv
  <1>2. /\ req' \in [Requests -> Call] /\ req'[q] = c
        /\ \A p \in Requests : p # q => req'[p] = req[p]
    BY <1>1, Moved
  <1>3. TypeOK'
    BY <1>1, <1>2 DEF TypeOK, authz, policy, bus
  <1>4. SharedFits'
    BY <1>1 DEF SharedFits, authz
  <1>5. ASSUME NEW r \in Replicas
        PROVE  ModelFits(r)' /\ EvictionFits(r)' /\ LocalFits(r)'
    <2>1. ModelFits(r) /\ EvictionFits(r) /\ LocalFits(r)
      BY <1>1
    <2>2. ModelFits(r)' /\ LocalFits(r)'
      BY <2>1 DEF ModelFits, LocalFits, Unlocked, authz, policy
    <2>3. EvictionFits(r)'
      <3>1. SUFFICES ASSUME ~raced, ~deleted, r \notin missed, NEW p \in Requests
                     PROVE  /\ NoMembership(events[r]) /\ req'[p].pc = "kvSet" => req'[p].roles \in recent
                            /\ events[r] = <<>> /\ req'[p].pc \in {"kvSet", "insert"} /\ req'[p].at = r
                               => req'[p].roles \in recent
        BY <2>1 DEF EvictionFits, authz, bus, At, Holding
      <3>2. events[r] = <<>> => NoMembership(events[r])
        BY DEF NoMembership
      <3>3. CASE p = q
        <4>1. truth \in recent
          BY <1>1 DEF SharedFits
        <4> QED
          BY <1>2, <2>1, <3>1, <3>2, <3>3, <4>1 DEF EvictionFits
      <3>4. CASE p # q
        BY <1>2, <2>1, <3>1, <3>4 DEF EvictionFits, At, Holding
      <3> QED
        BY <3>3, <3>4
    <2> QED
      BY <2>2, <2>3
  <1>6. ASSUME NEW p \in Requests
        PROVE  LookupFits(p)'
    <2>1. CASE p = q
      <3>1. kvRoles.cached /\ kvRoles.roles # truth => since < RoleCacheTTL
        BY <1>1, Lifetime DEF SharedFits, TypeOK, Entry
      <3> QED
        BY <1>2, <2>1, <3>1 DEF LookupFits, At, authz
    <2>2. CASE p # q
      BY <1>1, <1>2, <2>2 DEF LookupFits, At, authz
    <2> QED
      BY <2>1, <2>2
  <1> QED
    BY <1>3, <1>4, <1>5, <1>6 DEF ClientIInv

LEMMA EnsureRolesKeeps ==
    ASSUME ClientIInv, NEW q \in Requests, EnsureRoles(q)
    PROVE  ClientIInv'
  <1>1. TypeOK
    BY DEF ClientIInv
  <1>2. PICK pc \in {"decide", "kv"} : Goto(q, pc)
    BY DEF EnsureRoles
  <1>3. PICK c \in Call : /\ c.pc = pc /\ c.at = req[q].at
                          /\ req' = [req EXCEPT ![q] = c]
    BY <1>1, <1>2, Moves DEF Places
  <1>4. c.pc \notin {"kvSet", "insert"}
    BY <1>3
  <1> QED
    BY <1>3, <1>4, LookupMoves DEF EnsureRoles

LEMMA GetSharedKeeps ==
    ASSUME ClientIInv, NEW q \in Requests, GetShared(q)
    PROVE  ClientIInv'
  <1>1. TypeOK
    BY DEF ClientIInv
  <1>2. CASE kvRoles.cached /\ Hold(q, "insert", kvRoles.roles)
    <2>1. PICK roles \in SUBSET Roles : roles = kvRoles.roles
      BY <1>1 DEF TypeOK, Entry
    <2>2. PICK c \in Call : /\ c.pc = "insert" /\ c.at = req[q].at /\ c.roles = roles
                            /\ req' = [req EXCEPT ![q] = c]
      BY <1>1, <1>2, <2>1, Moves DEF Places
    <2> QED
      BY <1>2, <2>1, <2>2, LookupMoves DEF GetShared
  <1>3. CASE Goto(q, "rpc")
    <2>1. PICK c \in Call : /\ c.pc = "rpc" /\ c.at = req[q].at
                            /\ req' = [req EXCEPT ![q] = c]
      BY <1>1, <1>3, Moves DEF Places
    <2>2. c.pc \notin {"kvSet", "insert"}
      BY <2>1
    <2> QED
      BY <2>1, <2>2, LookupMoves DEF GetShared
  <1> QED
    BY <1>2, <1>3 DEF GetShared

LEMMA AskAuthzKeeps ==
    ASSUME ClientIInv, NEW q \in Requests, AskAuthz(q)
    PROVE  ClientIInv'
  <1>1. TypeOK
    BY DEF ClientIInv
  <1>2. CASE Hold(q, "kvSet", truth)
    <2>1. PICK roles \in SUBSET Roles : roles = truth
      BY <1>1, Resolutions DEF TypeOK
    <2>2. PICK c \in Call : /\ c.pc = "kvSet" /\ c.at = req[q].at /\ c.roles = roles
                            /\ req' = [req EXCEPT ![q] = c]
      BY <1>1, <1>2, <2>1, Moves DEF Places
    <2> QED
      BY <2>1, <2>2, LookupMoves DEF AskAuthz
  <1>3. CASE Goto(q, "idle")
    <2>1. PICK c \in Call : /\ c.pc = "idle" /\ c.at = req[q].at
                            /\ req' = [req EXCEPT ![q] = c]
      BY <1>1, <1>3, Moves DEF Places
    <2>2. c.pc \notin {"kvSet", "insert"}
      BY <2>1
    <2> QED
      BY <2>1, <2>2, LookupMoves DEF AskAuthz
  <1> QED
    BY <1>2, <1>3 DEF AskAuthz

LEMMA DecideKeeps ==
    ASSUME ClientIInv, NEW q \in Requests, Decide(q)
    PROVE  ClientIInv'
  <1>1. TypeOK
    BY DEF ClientIInv
  <1>2. PICK c \in Call : /\ c.pc = "idle" /\ c.at = req[q].at
                          /\ req' = [req EXCEPT ![q] = c]
    BY <1>1, Moves DEF Decide, Places
  <1>3. c.pc \notin {"kvSet", "insert"}
    BY <1>2
  <1> QED
    BY <1>2, <1>3, LookupMoves DEF Decide

LEMMA SetSharedKeeps ==
    ASSUME ClientIInv, NEW q \in Requests, SetShared(q)
    PROVE  ClientIInv'
  <1>1. /\ TypeOK /\ SharedFits
        /\ \A r \in Replicas : ModelFits(r) /\ EvictionFits(r) /\ LocalFits(r)
        /\ \A p \in Requests : LookupFits(p)
    BY DEF ClientIInv
  <1>2. /\ req[q].pc = "kvSet" /\ kvRoles' \in {kvRoles, Fresh(req[q].roles)}
        /\ UNCHANGED <<authz, cache, policy, model, bus, raced, dropped>>
    BY DEF SetShared, At
  <1>3. PICK c \in Call : /\ c.pc = "insert" /\ c.at = req[q].at /\ c.roles = req[q].roles
                          /\ req' = [req EXCEPT ![q] = c]
    BY <1>1, Moves DEF SetShared, Places
  <1>4. /\ req' \in [Requests -> Call] /\ req'[q] = c
        /\ \A p \in Requests : p # q => req'[p] = req[p]
    BY <1>1, <1>3, Moved
  <1>5. PICK roles \in SUBSET Roles : roles = req[q].roles
    BY <1>1, Moves
  <1>6. /\ Fresh(roles) \in Entry /\ Fresh(roles).cached = TRUE
        /\ Fresh(roles).roles = roles /\ Fresh(roles).left = RoleCacheTTL
    BY EntryTypes
  <1>7. TypeOK'
    BY <1>1, <1>2, <1>4, <1>5, <1>6 DEF TypeOK, authz, policy, bus
  <1>8. SharedFits'
    <2>1. roles # truth => since = 0
      BY <1>1, <1>2, <1>5 DEF LookupFits, At
    <2> QED
      BY <1>1, <1>2, <1>5, <1>6, <2>1, Lifetime DEF SharedFits, authz
  <1>9. ASSUME NEW r \in Replicas
        PROVE  ModelFits(r)' /\ EvictionFits(r)' /\ LocalFits(r)'
    <2>1. ModelFits(r) /\ EvictionFits(r) /\ LocalFits(r)
      BY <1>1
    <2>2. ModelFits(r)' /\ LocalFits(r)'
      BY <1>2, <2>1 DEF ModelFits, LocalFits, Unlocked, authz, policy
    <2>3. EvictionFits(r)'
      <3>1. SUFFICES ASSUME ~raced, ~deleted, r \notin missed
                     PROVE  /\ NoMembership(events[r]) =>
                                  /\ kvRoles'.cached => kvRoles'.roles \in recent
                                  /\ \A p \in Requests : req'[p].pc = "kvSet" => req'[p].roles \in recent
                            /\ events[r] = <<>> =>
                                  /\ cache[r].cached => cache[r].roles \in recent
                                  /\ \A p \in Requests :
                                        req'[p].pc \in {"kvSet", "insert"} /\ req'[p].at = r
                                        => req'[p].roles \in recent
        BY <1>2 DEF EvictionFits, authz, bus, At, Holding
      <3>2. NoMembership(events[r]) => roles \in recent
        BY <1>2, <1>5, <2>1, <3>1 DEF EvictionFits, At
      <3>3. events[r] = <<>> => NoMembership(events[r])
        BY DEF NoMembership
      <3>4. NoMembership(events[r]) =>
               /\ kvRoles'.cached => kvRoles'.roles \in recent
               /\ \A p \in Requests : req'[p].pc = "kvSet" => req'[p].roles \in recent
        BY <1>2, <1>3, <1>4, <1>5, <1>6, <2>1, <3>1, <3>2 DEF EvictionFits, At
      <3>5. events[r] = <<>> =>
               /\ cache[r].cached => cache[r].roles \in recent
               /\ \A p \in Requests :
                     req'[p].pc \in {"kvSet", "insert"} /\ req'[p].at = r
                     => req'[p].roles \in recent
        BY <1>3, <1>4, <1>5, <2>1, <3>1, <3>2, <3>3 DEF EvictionFits, At, Holding
      <3> QED
        BY <3>4, <3>5
    <2> QED
      BY <2>2, <2>3
  <1>10. ASSUME NEW p \in Requests
         PROVE  LookupFits(p)'
    <2>1. CASE p = q
      <3>1. roles # truth => since < RoleCacheTTL
        BY <1>1, <1>2, <1>5, Lifetime DEF LookupFits, At
      <3> QED
        BY <1>2, <1>3, <1>4, <1>5, <2>1, <3>1 DEF LookupFits, At, authz
    <2>2. CASE p # q
      BY <1>1, <1>2, <1>4, <2>2 DEF LookupFits, At, authz
    <2> QED
      BY <2>1, <2>2
  <1> QED
    BY <1>7, <1>8, <1>9, <1>10 DEF ClientIInv

LEMMA InsertRolesKeeps ==
    ASSUME ClientIInv, NEW q \in Requests, InsertRoles(q)
    PROVE  ClientIInv'
  <1>1. /\ TypeOK /\ SharedFits
        /\ \A r \in Replicas : ModelFits(r) /\ EvictionFits(r) /\ LocalFits(r)
        /\ \A p \in Requests : LookupFits(p)
    BY DEF ClientIInv
  <1>2. PICK k \in Replicas, roles \in SUBSET Roles : k = req[q].at /\ roles = req[q].roles
    BY <1>1, Moves
  <1>3. /\ req[q].pc = "insert" /\ rebuild[k] = "done"
        /\ cache' = [cache EXCEPT ![k] = Fresh(roles)]
        /\ model' = [model EXCEPT ![k] = Grouped(Ungrouped(@, cache[k].roles), roles)]
        /\ UNCHANGED <<authz, kvRoles, policy, bus, raced, dropped>>
    BY <1>2 DEF InsertRoles, At, Unlocked
  <1>4. PICK c \in Call : /\ c.pc = "decide" /\ c.at = k /\ c.roles = {}
                          /\ req' = [req EXCEPT ![q] = c]
    BY <1>1, <1>2, Moves DEF InsertRoles, Places
  <1>5. /\ req' \in [Requests -> Call] /\ req'[q] = c
        /\ \A p \in Requests : p # q => req'[p] = req[p]
    BY <1>1, <1>4, Moved
  <1>6. /\ Fresh(roles) \in Entry /\ Fresh(roles).cached = TRUE
        /\ Fresh(roles).roles = roles /\ Fresh(roles).left = RoleCacheTTL
    BY EntryTypes
  <1>7. /\ cache' \in [Replicas -> Entry] /\ cache'[k] = Fresh(roles)
        /\ \A r \in Replicas : r # k => cache'[r] = cache[r]
    BY <1>1, <1>3, <1>6 DEF TypeOK
  <1>8. /\ model' \in [Replicas -> Model]
        /\ model'[k].p = model[k].p /\ model'[k].g = roles
        /\ roles \subseteq model'[k].links
        /\ model'[k].links \subseteq roles \union dropped[k]
        /\ \A r \in Replicas : r # k => model'[r] = model[r]
    <2>1. PICK m \in Model, old \in SUBSET Roles : m = model[k] /\ old = cache[k].roles
      BY <1>1 DEF TypeOK, Entry
    <2>2. m.g = old /\ m.links \subseteq old \union dropped[k]
      BY <1>1, <1>3, <2>1 DEF ModelFits, Unlocked
    <2>3. PICK u \in Model : /\ u = Ungrouped(m, old) /\ u.p = m.p /\ u.g = {}
                             /\ u.links \subseteq dropped[k]
      BY <2>2, Groupings
    <2>4. PICK n \in Model : /\ n = Grouped(u, roles) /\ n.p = u.p /\ n.g = u.g \union roles
                             /\ n.links = u.links \union roles
      BY Groupings
    <2>5. model' = [model EXCEPT ![k] = n]
      BY <1>3, <2>1, <2>3, <2>4
    <2> QED
      BY <1>1, <2>1, <2>3, <2>4, <2>5 DEF TypeOK
  <1>9. TypeOK'
    BY <1>1, <1>3, <1>5, <1>7, <1>8 DEF TypeOK, authz, policy, bus
  <1>10. SharedFits'
    BY <1>1, <1>3 DEF SharedFits, authz
  <1>11. ASSUME NEW r \in Replicas
         PROVE  ModelFits(r)' /\ EvictionFits(r)' /\ LocalFits(r)'
    <2>1. ModelFits(r) /\ EvictionFits(r) /\ LocalFits(r)
      BY <1>1
    <2>2. ModelFits(r)'
      BY <1>3, <1>6, <1>7, <1>8, <2>1 DEF ModelFits, Unlocked, policy
    <2>3. LocalFits(r)'
      <3>1. roles # truth => since < RoleCacheTTL
        BY <1>1, <1>2, <1>3 DEF LookupFits, At
      <3>2. since \in Nat /\ (since < RoleCacheTTL => since + RoleCacheTTL <= MaxSince)
        BY <1>1, Lifetime DEF TypeOK, MaxSince
      <3> QED
        BY <1>3, <1>6, <1>7, <2>1, <3>1, <3>2 DEF LocalFits, authz
    <2>4. EvictionFits(r)'
      <3>1. SUFFICES ASSUME ~raced, ~deleted, r \notin missed
                     PROVE  /\ NoMembership(events[r]) =>
                                  /\ kvRoles.cached => kvRoles.roles \in recent
                                  /\ \A p \in Requests : req'[p].pc = "kvSet" => req'[p].roles \in recent
                            /\ events[r] = <<>> =>
                                  /\ cache'[r].cached => cache'[r].roles \in recent
                                  /\ \A p \in Requests :
                                        req'[p].pc \in {"kvSet", "insert"} /\ req'[p].at = r
                                        => req'[p].roles \in recent
        BY <1>3 DEF EvictionFits, authz, bus, At, Holding
      <3>2. events[r] = <<>> /\ r = k => roles \in recent
        BY <1>2, <1>3, <2>1, <3>1 DEF EvictionFits, At, Holding
      <3> QED
        BY <1>4, <1>5, <1>6, <1>7, <2>1, <3>1, <3>2 DEF EvictionFits, At, Holding
    <2> QED
      BY <2>2, <2>3, <2>4
  <1>12. ASSUME NEW p \in Requests
         PROVE  LookupFits(p)'
    BY <1>1, <1>3, <1>4, <1>5 DEF LookupFits, At, authz
  <1> QED
    BY <1>9, <1>10, <1>11, <1>12 DEF ClientIInv

-----------------------------------------------------------------------------
(* The steps of an eviction.                                               *)

LEMMA EvictSharedKeeps ==
    ASSUME ClientIInv, NEW k \in Replicas, EvictShared(k)
    PROVE  ClientIInv'
  <1>1. /\ TypeOK /\ SharedFits
        /\ \A r \in Replicas : ModelFits(r) /\ EvictionFits(r) /\ LocalFits(r)
        /\ \A p \in Requests : LookupFits(p)
    BY DEF ClientIInv
  <1>2. PICK s \in Seq(Event) : s = events[k]
    BY <1>1 DEF TypeOK, Event
  <1>3. /\ s # <<>>
        /\ \/ kvRoles' = NoEntry /\ missed' = missed
           \/ missed' = missed \union {k} /\ kvRoles' = kvRoles
        /\ UNCHANGED <<authz, cache, policy, model, dropped, req>>
    BY <1>2 DEF EvictShared
  <1>4. PICK t \in Seq(Event) : t = <<"evicting">> \o Tail(s) /\ t # <<>>
    BY <1>2, <1>3, Queues
  <1>5. events' = [events EXCEPT ![k] = t]
    BY <1>2, <1>4 DEF EvictShared
  <1>6. /\ events' \in [Replicas -> Seq(Event)] /\ events'[k] = t
        /\ \A r \in Replicas : r # k => events'[r] = events[r]
    BY <1>1, <1>5 DEF TypeOK, Event
  <1>7. /\ raced' \in BOOLEAN
        /\ ~raced' => ~raced /\ \A q \in Requests : At(q, "kvSet") => req[q].roles \in recent
    <2>1. PICK b \in BOOLEAN : b = (raced \/ \E q \in Requests : At(q, "kvSet") /\ req[q].roles \notin recent)
      OBVIOUS
    <2>2. raced' = b
      BY <2>1 DEF EvictShared
    <2>3. ~b => ~raced /\ \A q \in Requests : At(q, "kvSet") => req[q].roles \in recent
      BY <2>1, Zenon
    <2> QED
      BY <2>2, <2>3
  <1>8. TypeOK'
    BY <1>1, <1>3, <1>6, <1>7, EntryTypes DEF TypeOK, Event, authz, policy
  <1>9. SharedFits'
    BY <1>1, <1>3, EntryTypes DEF SharedFits, authz
  <1>10. ASSUME NEW r \in Replicas
         PROVE  ModelFits(r)' /\ EvictionFits(r)' /\ LocalFits(r)'
    <2>1. ModelFits(r) /\ EvictionFits(r) /\ LocalFits(r)
      BY <1>1
    <2>2. ModelFits(r)' /\ LocalFits(r)'
      BY <1>3, <2>1 DEF ModelFits, LocalFits, Unlocked, authz, policy
    <2>3. EvictionFits(r)'
      <3>1. SUFFICES ASSUME ~raced', ~deleted, r \notin missed'
                     PROVE  /\ NoMembership(events'[r]) =>
                                  /\ kvRoles'.cached => kvRoles'.roles \in recent
                                  /\ \A q \in Requests : At(q, "kvSet") => req[q].roles \in recent
                            /\ events'[r] = <<>> =>
                                  /\ cache[r].cached => cache[r].roles \in recent
                                  /\ \A q \in Requests :
                                        Holding(q) /\ req[q].at = r => req[q].roles \in recent
        BY <1>3 DEF EvictionFits, authz, At, Holding
      <3>2. ~raced /\ r \notin missed
        BY <1>3, <1>7, <3>1
      <3>3. CASE r = k
        BY <1>3, <1>4, <1>6, <1>7, <3>1, <3>3, EntryTypes
      <3>4. CASE r # k
        BY <1>3, <1>6, <1>7, <2>1, <3>1, <3>2, <3>4, EntryTypes DEF EvictionFits
      <3> QED
        BY <3>3, <3>4
    <2> QED
      BY <2>2, <2>3
  <1>11. \A p \in Requests : LookupFits(p)'
    BY <1>1, <1>3 DEF LookupFits, At, authz
  <1> QED
    BY <1>8, <1>9, <1>10, <1>11 DEF ClientIInv

LEMMA ForgottenKeeps ==
    ASSUME ClientIInv, NEW k \in Replicas, events[k] # <<>>, Head(events[k]) # "membership",
           Unlocked(k), Forgotten(k), kvRoles' \in {kvRoles, NoEntry},
           UNCHANGED <<authz, policy, missed, dropped, req>>
    PROVE  ClientIInv'
  <1>1. /\ TypeOK /\ SharedFits
        /\ \A r \in Replicas : ModelFits(r) /\ EvictionFits(r) /\ LocalFits(r)
        /\ \A p \in Requests : LookupFits(p)
    BY DEF ClientIInv
  <1>2. PICK s \in Seq(Event) : s = events[k]
    BY <1>1 DEF TypeOK, Event
  <1>3. PICK t \in Seq(Event) : t = Tail(s) /\ (NoMembership(t) => NoMembership(s))
    BY <1>2, Queues
  <1>4. events' = [events EXCEPT ![k] = t]
    BY <1>2, <1>3 DEF Forgotten
  <1>5. /\ events' \in [Replicas -> Seq(Event)] /\ events'[k] = t
        /\ \A r \in Replicas : r # k => events'[r] = events[r]
    BY <1>1, <1>4 DEF TypeOK, Event
  <1>6. /\ cache' \in [Replicas -> Entry] /\ cache'[k] = NoEntry
        /\ \A r \in Replicas : r # k => cache'[r] = cache[r]
    BY <1>1, EntryTypes DEF TypeOK, Forgotten
  <1>7. /\ model' \in [Replicas -> Model]
        /\ model'[k].p = model[k].p /\ model'[k].g = {}
        /\ model'[k].links \subseteq dropped[k]
        /\ \A r \in Replicas : r # k => model'[r] = model[r]
    <2>1. PICK m \in Model, old \in SUBSET Roles : m = model[k] /\ old = cache[k].roles
      BY <1>1 DEF TypeOK, Entry
    <2>2. m.g = old /\ m.links \subseteq old \union dropped[k]
      BY <1>1, <2>1 DEF ModelFits
    <2>3. PICK n \in Model : /\ n = Ungrouped(m, old) /\ n.p = m.p /\ n.g = {}
                             /\ n.links \subseteq dropped[k]
      BY <2>2, Groupings
    <2>4. model' = [model EXCEPT ![k] = n]
      BY <2>1, <2>3 DEF Forgotten
    <2> QED
      BY <1>1, <2>1, <2>3, <2>4 DEF TypeOK
  <1>8. /\ raced' \in BOOLEAN
        /\ ~raced' => /\ ~raced
                      /\ \A q \in Requests : Holding(q) /\ req[q].at = k => req[q].roles \in recent
    <2>1. PICK b \in BOOLEAN : b = (raced \/ \E q \in Requests : Holding(q) /\ req[q].at = k /\ req[q].roles \notin recent)
      OBVIOUS
    <2>2. raced' = b
      BY <2>1 DEF Forgotten
    <2>3. ~b => /\ ~raced
                /\ \A q \in Requests : Holding(q) /\ req[q].at = k => req[q].roles \in recent
      BY <2>1, Zenon
    <2> QED
      BY <2>2, <2>3
  <1>9. TypeOK'
    BY <1>1, <1>5, <1>6, <1>7, <1>8, EntryTypes DEF TypeOK, Event, authz, policy
  <1>10. SharedFits'
    BY <1>1, EntryTypes DEF SharedFits, authz
  <1>11. ASSUME NEW r \in Replicas
         PROVE  ModelFits(r)' /\ EvictionFits(r)' /\ LocalFits(r)'
    <2>1. ModelFits(r) /\ EvictionFits(r) /\ LocalFits(r)
      BY <1>1
    <2>2. ModelFits(r)' /\ LocalFits(r)'
      BY <1>6, <1>7, <2>1, EntryTypes DEF ModelFits, LocalFits, Unlocked, authz, policy
    <2>3. EvictionFits(r)'
      <3>1. SUFFICES ASSUME ~raced', ~deleted, r \notin missed
                     PROVE  /\ NoMembership(events'[r]) =>
                                  /\ kvRoles'.cached => kvRoles'.roles \in recent
                                  /\ \A q \in Requests : At(q, "kvSet") => req[q].roles \in recent
                            /\ events'[r] = <<>> =>
                                  /\ cache'[r].cached => cache'[r].roles \in recent
                                  /\ \A q \in Requests :
                                        Holding(q) /\ req[q].at = r => req[q].roles \in recent
        BY DEF EvictionFits, authz, At, Holding
      <3>2. ~raced
        BY <1>8, <3>1
      <3>3. NoMembership(events'[r]) => NoMembership(events[r])
        BY <1>2, <1>3, <1>5
      <3>4. NoMembership(events'[r]) =>
               /\ kvRoles'.cached => kvRoles'.roles \in recent
               /\ \A q \in Requests : At(q, "kvSet") => req[q].roles \in recent
        BY <2>1, <3>1, <3>2, <3>3, EntryTypes DEF EvictionFits
      <3>5. events'[r] = <<>> =>
               /\ cache'[r].cached => cache'[r].roles \in recent
               /\ \A q \in Requests :
                     Holding(q) /\ req[q].at = r => req[q].roles \in recent
        <4>1. CASE r = k
          BY <1>6, <1>8, <3>1, <4>1, EntryTypes
        <4>2. CASE r # k
          BY <1>5, <1>6, <2>1, <3>1, <3>2, <4>2 DEF EvictionFits
        <4> QED
          BY <4>1, <4>2
      <3> QED
        BY <3>4, <3>5
    <2> QED
      BY <2>2, <2>3
  <1>12. \A p \in Requests : LookupFits(p)'
    BY <1>1 DEF LookupFits, At, authz
  <1> QED
    BY <1>9, <1>10, <1>11, <1>12 DEF ClientIInv

LEMMA EvictLocalKeeps ==
    ASSUME ClientIInv, NEW r \in Replicas, EvictLocal(r)
    PROVE  ClientIInv'
  BY ForgottenKeeps DEF EvictLocal

LEMMA EvictOrganizationKeeps ==
    ASSUME ClientIInv, NEW r \in Replicas, EvictOrganization(r)
    PROVE  ClientIInv'
  BY ForgottenKeeps DEF EvictOrganization

-----------------------------------------------------------------------------
(* The steps of a reload.                                                  *)

\* No role is older than it was, and no lookup moves.
LEMMA ReloadKept ==
    ASSUME ClientIInv, TypeOK', UNCHANGED <<authz, kvRoles, bus, raced, req>>,
           \A r \in Replicas : cache'[r] \in {cache[r], NoEntry},
           \A r \in Replicas : ModelFits(r)'
    PROVE  ClientIInv'
  <1>1. /\ TypeOK /\ SharedFits
        /\ \A r \in Replicas : EvictionFits(r) /\ LocalFits(r)
        /\ \A p \in Requests : LookupFits(p)
    BY DEF ClientIInv
  <1>2. SharedFits' /\ \A p \in Requests : LookupFits(p)'
    BY <1>1 DEF SharedFits, LookupFits, At, authz
  <1>3. \A r \in Replicas : EvictionFits(r)'
    BY <1>1, EntryTypes DEF EvictionFits, At, Holding, authz, bus
  <1>4. \A r \in Replicas : LocalFits(r)'
    BY <1>1, EntryTypes DEF LocalFits, authz
  <1> QED
    BY <1>2, <1>3, <1>4 DEF ClientIInv

LEMMA LoadPoliciesKeeps ==
    ASSUME ClientIInv, NEW k \in Replicas, LoadPolicies(k)
    PROVE  ClientIInv'
  <1>1. TypeOK /\ \A r \in Replicas : ModelFits(r)
    BY DEF ClientIInv
  <1>2. /\ UNCHANGED <<authz, kvRoles, cache, snapshot, rebuild, model, bus, raced, dropped, req>>
        /\ loads' = [loads EXCEPT ![k] = @ \union {grants}]
    BY DEF LoadPolicies
  <1>3. loads' \in [Replicas -> SUBSET SUBSET Roles]
    BY <1>1, <1>2 DEF TypeOK
  <1>4. TypeOK'
    BY <1>1, <1>2, <1>3 DEF TypeOK, authz, bus
  <1>5. \A r \in Replicas : ModelFits(r)'
    BY <1>1, <1>2 DEF ModelFits, Unlocked
  <1> QED
    BY <1>2, <1>4, <1>5, ReloadKept

LEMMA ClearPolicyKeeps ==
    ASSUME ClientIInv, NEW k \in Replicas, NEW rules \in loads[k], ClearPolicy(k, rules)
    PROVE  ClientIInv'
  <1>1. TypeOK /\ \A r \in Replicas : ModelFits(r)
    BY DEF ClientIInv
  <1>2. /\ UNCHANGED <<authz, kvRoles, cache, bus, raced, dropped, req>>
        /\ snapshot' = [snapshot EXCEPT ![k] = rules]
        /\ loads' = [loads EXCEPT ![k] = @ \ {rules}]
        /\ model' = [model EXCEPT ![k] = Cleared(@)]
        /\ rebuild' = [rebuild EXCEPT ![k] = "policies"]
    BY DEF ClearPolicy
  <1>3. loads' \in [Replicas -> SUBSET SUBSET Roles] /\ rules \subseteq Roles
    BY <1>1, <1>2 DEF TypeOK
  <1>4. /\ model' \in [Replicas -> Model]
        /\ model'[k].g = {} /\ model'[k].links = model[k].links
        /\ \A r \in Replicas : r # k => model'[r] = model[r]
    <2>1. PICK m \in Model : m = model[k]
      BY <1>1 DEF TypeOK
    <2>2. PICK n \in Model : n = Cleared(m) /\ n.g = {} /\ n.links = m.links
      BY Groupings
    <2>3. model' = [model EXCEPT ![k] = n]
      BY <1>2, <2>1, <2>2
    <2> QED
      BY <1>1, <2>1, <2>2, <2>3 DEF TypeOK
  <1>5. /\ rebuild' \in [Replicas -> {"done", "policies", "groupings"}] /\ rebuild'[k] = "policies"
        /\ \A r \in Replicas : r # k => rebuild'[r] = rebuild[r]
    BY <1>1, <1>2 DEF TypeOK
  <1>6. /\ snapshot' \in [Replicas -> SUBSET Roles]
        /\ \A r \in Replicas : r # k => snapshot'[r] = snapshot[r]
    BY <1>1, <1>2, <1>3 DEF TypeOK
  <1>7. TypeOK'
    BY <1>1, <1>2, <1>3, <1>4, <1>5, <1>6 DEF TypeOK, authz, bus
  <1>8. ASSUME NEW r \in Replicas
        PROVE  ModelFits(r)'
    <2>1. CASE r = k
      BY <1>1, <1>2, <1>4, <1>5, <2>1 DEF ModelFits, Unlocked
    <2>2. CASE r # k
      BY <1>1, <1>2, <1>4, <1>5, <1>6, <2>2 DEF ModelFits, Unlocked
    <2> QED
      BY <2>1, <2>2
  <1> QED
    BY <1>2, <1>7, <1>8, ReloadKept

LEMMA AddPoliciesKeeps ==
    ASSUME ClientIInv, NEW k \in Replicas, AddPolicies(k)
    PROVE  ClientIInv'
  <1>1. TypeOK /\ \A r \in Replicas : ModelFits(r)
    BY DEF ClientIInv
  <1>2. /\ UNCHANGED <<authz, kvRoles, cache, snapshot, loads, bus, raced, dropped, req>>
        /\ model' = [model EXCEPT ![k].p = snapshot[k]]
        /\ rebuild' = [rebuild EXCEPT ![k] = "groupings"] /\ rebuild[k] = "policies"
    BY DEF AddPolicies
  <1>3. /\ model' \in [Replicas -> Model]
        /\ model'[k].p = snapshot[k] /\ model'[k].g = model[k].g
        /\ model'[k].links = model[k].links
        /\ \A r \in Replicas : r # k => model'[r] = model[r]
    <2>1. PICK m \in Model, rules \in SUBSET Roles :
             m = model[k] /\ rules = snapshot[k]
      BY <1>1 DEF TypeOK
    <2>2. PICK n : n = [m EXCEPT !.p = rules]
      OBVIOUS
    <2>3. model' = [model EXCEPT ![k] = n]
      BY <1>2, <2>1, <2>2
    <2>4. n \in Model /\ n.p = rules /\ n.g = m.g /\ n.links = m.links
      BY <2>2 DEF Model
    <2> QED
      BY <1>1, <2>1, <2>3, <2>4 DEF TypeOK
  <1>4. /\ rebuild' \in [Replicas -> {"done", "policies", "groupings"}] /\ rebuild'[k] = "groupings"
        /\ \A r \in Replicas : r # k => rebuild'[r] = rebuild[r]
    BY <1>1, <1>2 DEF TypeOK
  <1>5. TypeOK'
    BY <1>1, <1>2, <1>3, <1>4 DEF TypeOK, authz, bus
  <1>6. \A r \in Replicas : ModelFits(r)'
    BY <1>1, <1>2, <1>3, <1>4 DEF ModelFits, Unlocked
  <1> QED
    BY <1>2, <1>5, <1>6, ReloadKept

LEMMA AddGroupingPoliciesKeeps ==
    ASSUME ClientIInv, NEW k \in Replicas, AddGroupingPolicies(k)
    PROVE  ClientIInv'
  <1>1. TypeOK /\ \A r \in Replicas : ModelFits(r)
    BY DEF ClientIInv
  <1>2. PICK e : e = IF cache[k].left = 0 THEN NoEntry ELSE cache[k]
    OBVIOUS
  <1>3. e \in Entry /\ e \in {cache[k], NoEntry} /\ e.roles \subseteq Roles
    BY <1>1, <1>2, EntryTypes DEF TypeOK, Entry
  <1>4. /\ rebuild[k] = "groupings"
        /\ UNCHANGED <<authz, kvRoles, snapshot, loads, bus, raced, req>>
        /\ cache' = [cache EXCEPT ![k] = e]
        /\ rebuild' = [rebuild EXCEPT ![k] = "done"]
    BY <1>2 DEF AddGroupingPolicies
  <1>5. /\ cache' \in [Replicas -> Entry] /\ cache'[k] = e
        /\ \A r \in Replicas : r # k => cache'[r] = cache[r]
    BY <1>1, <1>3, <1>4 DEF TypeOK
  <1>6. /\ dropped' \in [Replicas -> SUBSET Roles]
        /\ dropped'[k] = dropped[k] \union (cache[k].roles \ e.roles)
        /\ \A r \in Replicas : r # k => dropped'[r] = dropped[r]
    <2>1. cache[k].roles \subseteq Roles
      BY <1>1 DEF TypeOK, Entry
    <2> QED
      BY <1>1, <1>5, <2>1 DEF AddGroupingPolicies, TypeOK
  <1>7. /\ model' \in [Replicas -> Model]
        /\ model'[k].p = model[k].p /\ model'[k].g = e.roles
        /\ model'[k].links = model[k].links \union e.roles
        /\ \A r \in Replicas : r # k => model'[r] = model[r]
    <2>1. PICK m \in Model, roles \in SUBSET Roles : m = model[k] /\ roles = e.roles
      BY <1>1, <1>3 DEF TypeOK
    <2>2. m.g = {}
      BY <1>1, <1>4, <2>1 DEF ModelFits, Unlocked
    <2>3. PICK n \in Model : /\ n = Grouped(m, roles) /\ n.p = m.p /\ n.g = m.g \union roles
                             /\ n.links = m.links \union roles
      BY Groupings
    <2>4. model' = [model EXCEPT ![k] = n]
      BY <1>5, <2>1, <2>3 DEF AddGroupingPolicies
    <2> QED
      BY <1>1, <2>1, <2>2, <2>3, <2>4 DEF TypeOK
  <1>8. /\ rebuild' \in [Replicas -> {"done", "policies", "groupings"}] /\ rebuild'[k] = "done"
        /\ \A r \in Replicas : r # k => rebuild'[r] = rebuild[r]
    BY <1>1, <1>4 DEF TypeOK
  <1>9. TypeOK'
    BY <1>1, <1>4, <1>5, <1>6, <1>7, <1>8 DEF TypeOK, authz, bus
  <1>10. ASSUME NEW r \in Replicas
         PROVE  ModelFits(r)'
    <2>1. CASE r = k
      BY <1>1, <1>4, <1>5, <1>6, <1>7, <1>8, <2>1 DEF ModelFits, Unlocked
    <2>2. CASE r # k
      BY <1>1, <1>4, <1>5, <1>6, <1>7, <1>8, <2>2 DEF ModelFits, Unlocked
    <2> QED
      BY <2>1, <2>2
  <1>11. \A r \in Replicas : cache'[r] \in {cache[r], NoEntry}
    BY <1>3, <1>5
  <1> QED
    BY <1>4, <1>9, <1>10, <1>11, ReloadKept

-----------------------------------------------------------------------------
(* The changes at authz, and time.                                         *)

LEMMA Announced ==
    ASSUME TypeOK, NEW kind \in Event, Announce(kind)
    PROVE  /\ events' \in [Replicas -> Seq(Event)]
           /\ missed \subseteq missed' /\ missed' \subseteq Replicas
           /\ \A r \in Replicas \ missed' : events'[r] = Append(events[r], kind)
  <1>1. events \in [Replicas -> Seq(Event)] /\ missed \subseteq Replicas
    BY DEF TypeOK, Event
  <1>2. PICK lost \in SUBSET Replicas :
          /\ events' = [r \in Replicas |-> IF r \in lost THEN events[r] ELSE Append(events[r], kind)]
          /\ missed' = missed \union lost
    BY DEF Announce
  <1>3. ASSUME NEW r \in Replicas
        PROVE  events'[r] \in Seq(Event) /\ (r \notin missed' => events'[r] = Append(events[r], kind))
    <2>1. PICK s \in Seq(Event) : s = events[r]
      BY <1>1
    <2> QED
      BY <1>2, <2>1, Queues
  <1> QED
    BY <1>1, <1>2, <1>3

\* The roles change: what is cached or looked up may be older from now on.
LEMMA RolesChange ==
    ASSUME ClientIInv, truth' \in Resolved, recent' = {truth'}, deleted' \in BOOLEAN,
           changes' \in 0..MaxChanges, since' = 0, NEW kind \in Event, Announce(kind), deleted' \/ kind = "membership",
           UNCHANGED <<grants, kvRoles, cache, policy, model, raced, dropped, req>>
    PROVE  ClientIInv'
  <1>1. /\ TypeOK /\ SharedFits
        /\ \A r \in Replicas : ModelFits(r)
    BY DEF ClientIInv
  <1>2. /\ events' \in [Replicas -> Seq(Event)] /\ missed' \subseteq Replicas
        /\ \A r \in Replicas \ missed' : events'[r] = Append(events[r], kind)
    BY <1>1, Announced
  <1>3. TypeOK'
    BY <1>1, <1>2, Lifetime DEF TypeOK, Event, policy
  <1>4. SharedFits'
    BY <1>1, Lifetime DEF SharedFits, TypeOK, Entry
  <1>5. ASSUME NEW r \in Replicas
        PROVE  ModelFits(r)' /\ EvictionFits(r)' /\ LocalFits(r)'
    <2>1. ModelFits(r)'
      BY <1>1 DEF ModelFits, Unlocked, policy
    <2>2. LocalFits(r)'
      <3>1. cache[r].left \in 0..RoleCacheTTL
        BY <1>1 DEF TypeOK, Entry
      <3> QED
        BY <3>1, Lifetime DEF LocalFits
    <2>3. EvictionFits(r)'
      <3>1. SUFFICES ASSUME ~deleted', r \notin missed'
                     PROVE  ~NoMembership(events'[r]) /\ events'[r] # <<>>
        BY DEF EvictionFits
      <3>2. PICK s \in Seq(Event) : s = events[r]
        BY <1>1 DEF TypeOK, Event
      <3>3. PICK t : t = Append(s, kind)
        OBVIOUS
      <3>4. kind = "membership" => ~NoMembership(t)
        BY <3>3, Queues
      <3>5. t # <<>>
        BY <3>3, Queues
      <3>6. events'[r] = t
        BY <1>2, <3>1, <3>2, <3>3
      <3> QED
        BY <3>1, <3>4, <3>5, <3>6, Zenon
    <2> QED
      BY <2>1, <2>2, <2>3
  <1>6. \A q \in Requests : LookupFits(q)'
    BY Lifetime DEF LookupFits
  <1> QED
    BY <1>3, <1>4, <1>5, <1>6 DEF ClientIInv

LEMMA ChangeMembershipKeeps ==
    ASSUME ClientIInv, NEW roles \in Resolved, ChangeMembership(roles)
    PROVE  ClientIInv'
  <1>1. TypeOK
    BY DEF ClientIInv
  <1>2. /\ truth' \in Resolved /\ recent' = {truth'}
        /\ deleted' \in BOOLEAN /\ changes' \in 0..MaxChanges
        /\ since' = 0 /\ Announce("membership")
        /\ UNCHANGED <<grants, kvRoles, cache, policy, model, raced, dropped, req>>
    BY <1>1, Lifetime DEF ChangeMembership, TypeOK
  <1> QED
    BY <1>2, RolesChange DEF Event

LEMMA DeleteOrganizationKeeps ==
    ASSUME ClientIInv, DeleteOrganization
    PROVE  ClientIInv'
  <1>1. TypeOK
    BY DEF ClientIInv
  <1>2. /\ truth' \in Resolved /\ recent' = {truth'}
        /\ deleted' \in BOOLEAN /\ changes' \in 0..MaxChanges
        /\ since' = 0 /\ Announce("organization") /\ deleted'
        /\ UNCHANGED <<grants, kvRoles, cache, policy, model, raced, dropped, req>>
    BY <1>1, Lifetime, Resolutions DEF DeleteOrganization, TypeOK
  <1> QED
    BY <1>2, RolesChange DEF Event

\* No replica hears of a rename, which only adds to the recent roles.
LEMMA RenameRoleKeeps ==
    ASSUME ClientIInv, NEW old \in Roles, NEW new \in Roles, NEW kept \in SUBSET {new},
           RenameRole(old, new, kept)
    PROVE  ClientIInv'
  <1>1. /\ TypeOK /\ SharedFits
        /\ \A r \in Replicas : ModelFits(r) /\ EvictionFits(r)
    BY DEF ClientIInv
  <1>2. /\ truth' = {new} /\ recent' = recent \union {{new}}
        /\ grants' = (grants \ {old}) \union kept
        /\ changes < MaxChanges /\ changes' = changes + 1 /\ since' = 0
        /\ UNCHANGED <<deleted, kvRoles, cache, policy, model, bus, raced, dropped, req>>
    BY DEF RenameRole
  <1>3. {new} \in Resolved
    BY DEF Resolved
  <1>4. TypeOK'
    <2>1. truth' \in Resolved /\ recent' \subseteq Resolved /\ grants' \subseteq Roles
      BY <1>1, <1>2, <1>3 DEF TypeOK
    <2>2. changes' \in 0..MaxChanges /\ since' \in 0..MaxSince
      BY <1>1, <1>2, Lifetime DEF TypeOK
    <2> QED
      BY <1>1, <1>2, <2>1, <2>2 DEF TypeOK, policy, bus
  <1>5. SharedFits'
    BY <1>1, <1>2, Lifetime DEF SharedFits, TypeOK, Entry
  <1>6. ASSUME NEW r \in Replicas
        PROVE  ModelFits(r)' /\ EvictionFits(r)' /\ LocalFits(r)'
    <2>1. ModelFits(r)'
      BY <1>1, <1>2 DEF ModelFits, Unlocked, policy
    <2>2. LocalFits(r)'
      <3>1. cache[r].left \in 0..RoleCacheTTL
        BY <1>1 DEF TypeOK, Entry
      <3> QED
        BY <1>2, <3>1, Lifetime DEF LocalFits
    <2>3. EvictionFits(r)'
      BY <1>1, <1>2 DEF EvictionFits, At, Holding, bus
    <2> QED
      BY <2>1, <2>2, <2>3
  <1>7. \A q \in Requests : LookupFits(q)'
    BY <1>2, Lifetime DEF LookupFits
  <1> QED
    BY <1>4, <1>5, <1>6, <1>7 DEF ClientIInv

LEMMA ChangeGrantsKeeps ==
    ASSUME ClientIInv, NEW roles \in SUBSET Roles, ChangeGrants(roles)
    PROVE  ClientIInv'
  <1>1. /\ TypeOK /\ SharedFits
        /\ \A r \in Replicas : ModelFits(r) /\ EvictionFits(r) /\ LocalFits(r)
        /\ \A q \in Requests : LookupFits(q)
    BY DEF ClientIInv
  <1>2. /\ grants' = roles /\ changes' = changes + 1 /\ changes < MaxChanges
        /\ UNCHANGED <<truth, recent, deleted, since, kvRoles, cache, policy, model, bus, raced, dropped, req>>
    BY DEF ChangeGrants
  <1>3. TypeOK'
    BY <1>1, <1>2, Lifetime DEF TypeOK, policy, bus
  <1>4. SharedFits'
    BY <1>1, <1>2 DEF SharedFits
  <1>5. \A r \in Replicas : ModelFits(r)' /\ EvictionFits(r)' /\ LocalFits(r)'
    BY <1>1, <1>2 DEF ModelFits, EvictionFits, LocalFits, Unlocked, At, Holding, policy, bus
  <1>6. \A q \in Requests : LookupFits(q)'
    BY <1>1, <1>2 DEF LookupFits, At
  <1> QED
    BY <1>3, <1>4, <1>5, <1>6 DEF ClientIInv

LEMMA TickKeeps ==
    ASSUME ClientIInv, Tick
    PROVE  ClientIInv'
  <1>1. /\ TypeOK /\ SharedFits
        /\ \A r \in Replicas : ModelFits(r) /\ EvictionFits(r) /\ LocalFits(r)
    BY DEF ClientIInv
  <1>2. /\ \A q \in Requests : ~Holding(q)
        /\ cache' = [r \in Replicas |-> Older(cache[r])]
        /\ UNCHANGED <<truth, recent, grants, deleted, changes, policy, model, bus, raced, dropped, req>>
    BY DEF Tick
  <1>3. PICK n \in 0..MaxSince : n = since
    BY <1>1 DEF TypeOK
  <1>4. since' \in 0..MaxSince /\ since' <= n + 1
    BY <1>3, Lifetime DEF Tick
  <1>5. PICK e \in Entry : e = kvRoles
    BY <1>1 DEF TypeOK
  <1>6. PICK o \in Entry : /\ o = Older(e) /\ o.cached = e.cached /\ o.roles = e.roles
                           /\ o.left = IF e.left = 0 THEN 0 ELSE e.left - 1
    BY OlderEntry
  <1>7. e.left \in Nat /\ kvRoles' = IF e.left <= 1 THEN NoEntry ELSE o
    BY <1>5, <1>6, OlderEntry DEF Tick
  <1>8. ASSUME NEW r \in Replicas
        PROVE  /\ cache'[r] \in Entry /\ cache'[r].cached = cache[r].cached
               /\ cache'[r].roles = cache[r].roles
               /\ cache[r].left \in Nat
               /\ cache'[r].left = IF cache[r].left = 0 THEN 0 ELSE cache[r].left - 1
    <2>1. PICK f \in Entry : f = cache[r]
      BY <1>1 DEF TypeOK
    <2>2. cache'[r] = Older(f)
      BY <1>2, <2>1
    <2> QED
      BY <2>1, <2>2, OlderEntry
  <1>9. TypeOK'
    <2>1. cache' \in [Replicas -> Entry]
      BY <1>2, <1>8
    <2>2. kvRoles' \in Entry
      BY <1>7, EntryTypes
    <2> QED
      BY <1>1, <1>2, <1>4, <2>1, <2>2 DEF TypeOK, policy, bus
  <1>10. SharedFits'
    BY <1>1, <1>2, <1>3, <1>4, <1>5, <1>6, <1>7, Lifetime, EntryTypes DEF SharedFits
  <1>11. ASSUME NEW r \in Replicas
         PROVE  ModelFits(r)' /\ EvictionFits(r)' /\ LocalFits(r)'
    <2>1. ModelFits(r) /\ EvictionFits(r) /\ LocalFits(r)
      BY <1>1
    <2>2. ModelFits(r)'
      BY <1>2, <1>8, <2>1 DEF ModelFits, Unlocked, policy
    <2>3. LocalFits(r)'
      BY <1>2, <1>3, <1>4, <1>8, <2>1, Lifetime DEF LocalFits
    <2>4. EvictionFits(r)'
      BY <1>2, <1>5, <1>6, <1>7, <1>8, <2>1, EntryTypes DEF EvictionFits, At, Holding, bus
    <2> QED
      BY <2>2, <2>3, <2>4
  <1>12. \A q \in Requests : LookupFits(q)'
    BY <1>2 DEF LookupFits, At, Holding
  <1> QED
    BY <1>9, <1>10, <1>11, <1>12 DEF ClientIInv

-----------------------------------------------------------------------------
(* The theorems.                                                           *)

LEMMA ClientIInvInit == Init => ClientIInv
  <1>1. SUFFICES ASSUME Init
                 PROVE  ClientIInv
    OBVIOUS
  <1>2. /\ truth \in Resolved /\ recent = {truth} /\ grants \subseteq Roles /\ deleted = FALSE
        /\ changes = 0 /\ since = MaxSince /\ kvRoles = NoEntry
        /\ missed = {} /\ raced = FALSE
        /\ cache = [r \in Replicas |-> NoEntry]
        /\ snapshot = [r \in Replicas |-> grants]
        /\ model = [r \in Replicas |-> [p |-> grants, g |-> {}, links |-> {}]]
        /\ rebuild = [r \in Replicas |-> "done"]
        /\ loads = [r \in Replicas |-> {}]
        /\ events = [r \in Replicas |-> <<>>]
        /\ dropped = [r \in Replicas |-> {}]
    BY <1>1 DEF Init
  <1>3. req \in [Requests -> Call] /\ \A q \in Requests : req[q].pc = "idle"
    <2>1. req \in [Requests -> [pc: {"idle"}, at: Replicas, roles: {{}}]]
      BY <1>1 DEF Init
    <2>2. [pc: {"idle"}, at: Replicas, roles: {{}}] \subseteq Call
      BY DEF Call
    <2> QED
      BY <2>1, <2>2
  <1>4. TypeOK
    <2>1. cache \in [Replicas -> Entry] /\ kvRoles \in Entry
      BY <1>2, EntryTypes
    <2>2. model \in [Replicas -> Model] /\ dropped \in [Replicas -> SUBSET Roles]
      BY <1>2 DEF Model
    <2>3. events \in [Replicas -> Seq({"membership", "evicting", "organization"})]
      BY <1>2
    <2>4. /\ rebuild \in [Replicas -> {"done", "policies", "groupings"}]
          /\ snapshot \in [Replicas -> SUBSET Roles]
          /\ loads \in [Replicas -> SUBSET SUBSET Roles]
      BY <1>2
    <2>5. changes \in 0..MaxChanges /\ since \in 0..MaxSince
      BY <1>2, Lifetime
    <2> QED
      BY <1>2, <1>3, <2>1, <2>2, <2>3, <2>4, <2>5 DEF TypeOK
  <1>5. SharedFits /\ \A q \in Requests : LookupFits(q)
    BY <1>2, <1>3, EntryTypes DEF SharedFits, LookupFits, At
  <1>6. ASSUME NEW r \in Replicas
        PROVE  ModelFits(r) /\ EvictionFits(r) /\ LocalFits(r)
    BY <1>2, <1>3, EntryTypes DEF ModelFits, EvictionFits, LocalFits, Unlocked, At, Holding
  <1> QED
    BY <1>4, <1>5, <1>6 DEF ClientIInv

LEMMA ClientIInvNext == ClientIInv /\ [Next]_vars => ClientIInv'
  <1>1. SUFFICES ASSUME ClientIInv, [Next]_vars
                 PROVE  ClientIInv'
    OBVIOUS
  <1>2. /\ \A roles \in Resolved : ChangeMembership(roles) => ClientIInv'
        /\ \A roles \in SUBSET Roles : ChangeGrants(roles) => ClientIInv'
        /\ \A old, new \in Roles : \A kept \in SUBSET {new} :
              RenameRole(old, new, kept) => ClientIInv'
    BY <1>1, ChangeMembershipKeeps, ChangeGrantsKeeps, RenameRoleKeeps
  <1>3. CASE DeleteOrganization
    BY <1>1, <1>3, DeleteOrganizationKeeps
  <1>4. ASSUME NEW q \in Requests, Lookup(q)
        PROVE  ClientIInv'
    BY <1>1, <1>4, EnsureRolesKeeps, GetSharedKeeps, AskAuthzKeeps, SetSharedKeeps,
       InsertRolesKeeps, DecideKeeps DEF Lookup
  <1>5. ASSUME NEW r \in Replicas, EvictShared(r) \/ EvictLocal(r) \/ EvictOrganization(r)
        PROVE  ClientIInv'
    BY <1>1, <1>5, EvictSharedKeeps, EvictLocalKeeps, EvictOrganizationKeeps
  <1>6. ASSUME NEW r \in Replicas, Reload(r)
        PROVE  ClientIInv'
    BY <1>1, <1>6, LoadPoliciesKeeps, AddPoliciesKeeps, AddGroupingPoliciesKeeps,
       ClearPolicyKeeps DEF Reload
  <1>7. CASE Tick
    BY <1>1, <1>7, TickKeeps
  <1>8. CASE UNCHANGED vars
    BY <1>1, <1>8
    DEF ClientIInv, TypeOK, ModelFits, EvictionFits, LocalFits, SharedFits, LookupFits,
        Unlocked, At, Holding, vars, authz, policy, bus
  <1> QED
    BY <1>1, <1>2, <1>3, <1>4, <1>5, <1>6, <1>7, <1>8 DEF Next

(***************************************************************************)
(* Every step of pkg/authzclient keeps the models in step with the caches  *)
(* and the caches with the events and the time since the last change.      *)
(***************************************************************************)
THEOREM ClientInvariant == Spec => []ClientIInv
  BY ClientIInvInit, ClientIInvNext, PTL DEF Spec

(***************************************************************************)
(* The caches, models, events and calls have their types.                  *)
(***************************************************************************)
THEOREM ClientTypes == Spec => []TypeOK
  <1>1. ClientIInv => TypeOK
    BY DEF ClientIInv
  <1> QED
    BY <1>1, ClientInvariant, PTL

(***************************************************************************)
(* Outside a rebuild the rules of a replica's casbin model are its last    *)
(* policy snapshot and the groupings of the roles it has cached, and the   *)
(* links Enforce matches against are those of these roles and of entries   *)
(* that rebuildLocked found expired and dropped with no                    *)
(* RemoveGroupingPolicy: ensureRoles, evictRoles, evictOrganization and    *)
(* rebuildLocked (pkg/authzclient) keep them in step, however many         *)
(* replicas, lookups and reloads there are.                                *)
(***************************************************************************)
THEOREM ClientModelMirrors == Spec => []ModelMirrorsCaches
  <1>1. ClientIInv => ModelMirrorsCaches
    BY DEF ClientIInv, ModelFits, Unlocked, ModelMirrorsCaches
  <1> QED
    BY <1>1, ClientInvariant, PTL

(***************************************************************************)
(* A replica that has handled every membership event caches only roles the *)
(* user has had since the last of them, unless an eviction was lost or     *)
(* overtook a lookup that held older ones: evictRoles (pkg/authzclient)    *)
(* empties the shared cache first and the local one under the lock.  The   *)
(* names a role has had between two renames all count: UpdateRole sends no *)
(* event that evicts.                                                      *)
(***************************************************************************)
THEOREM ClientEvictedStayOut == Spec => []EvictedRolesStayOut
  <1>1. ClientIInv => EvictedRolesStayOut
    BY DEF ClientIInv, EvictionFits, EvictedRolesStayOut
  <1> QED
    BY <1>1, ClientInvariant, PTL

(***************************************************************************)
(* Roles that changed, by a change of the membership or by a rename, are   *)
(* reused from the caches for less than two lifetimes more, one in each    *)
(* cache, whatever events are lost or never sent: lookupRoles              *)
(* (pkg/authzclient) gives no entry of the shared cache a second lifetime  *)
(* there.  It says nothing of links left in the model.                     *)
(***************************************************************************)
THEOREM ClientRolesStayBounded == Spec => []RolesStayBounded
  <1>1. ASSUME ClientIInv, since = MaxSince, NEW r \in Replicas,
               cache[r].cached, cache[r].left > 0
        PROVE  cache[r].roles = truth
    <2>1. cache[r].left \in Nat
      BY <1>1 DEF ClientIInv, TypeOK, Entry
    <2> QED
      BY <1>1, <2>1, Lifetime DEF ClientIInv, LocalFits
  <1>2. ClientIInv => RolesStayBounded
    BY <1>1 DEF RolesStayBounded
  <1> QED
    BY <1>2, ClientInvariant, PTL

-----------------------------------------------------------------------------
(* PolicyPages.                                                            *)

(***************************************************************************)
(* The inductive invariant.  Of the rules that were stored all the time,   *)
(* one that is not yet collected has a row after the page token: a rule    *)
(* that is replaced gets an id above all that were used, and the token is  *)
(* one that was.                                                           *)
(***************************************************************************)
IdsDiffer(table) == \A a, b \in table : a.id = b.id => a = b

ReloadFits(p, table, used) ==
    p.pc = "page" =>
        /\ p.token = 0 \/ p.token \in used
        /\ p.rules \subseteq p.meanwhile /\ RulesOf(table) \subseteq p.meanwhile
        /\ p.throughout \subseteq RulesOf(table)
        /\ ~p.early => \A g \in p.throughout :
              g \in p.rules \/ \E row \in table : row.rule = g /\ row.id > p.token

PagesIInv ==
    /\ PagesTypeOK /\ IdsDiffer(rows)
    /\ ReloadFits(paging, rows, spent)
    /\ SnapshotWithinReload

-----------------------------------------------------------------------------
(* The rows of a page.                                                     *)

LEMMA GreatestId ==
    ASSUME NEW S \in SUBSET Ids, S # {}
    PROVE  \E v \in S : \A w \in S : w <= v
  <1> DEFINE Above(v) == {w \in Ids : w > v}
             T == {Above(v) : v \in S}
             R == StrictSubsetOrdering(Ids)
  <1>1. T \subseteq FiniteSubsetsOf(Ids) /\ T # {}
    <2>1. IsFiniteSet(Ids)
      BY PagesAssumption, FS_Interval, SMT DEF Ids
    <2>2. FiniteSubsetsOf(Ids) = SUBSET Ids
      BY <2>1, FS_FiniteSubsetsOfFinite, Zenon
    <2>3. T \subseteq SUBSET Ids /\ T # {}
      OBVIOUS
    <2> QED
      BY <2>2, <2>3, Zenon
  <1>2. IsWellFoundedOn(R, FiniteSubsetsOf(Ids))
    BY FS_StrictSubsetOrderingWellFounded, Zenon
  <1> HIDE DEF T, R
  <1>3. PICK x \in T : \A y \in T : ~ (<<y, x>> \in R)
    BY <1>1, <1>2, WFMin, Zenon
  <1>4. PICK v \in S : x = Above(v)
    BY DEF T
  <1>5. ASSUME NEW w \in S, w > v
        PROVE  FALSE
    <2>1. Above(w) \in T /\ Above(w) \subseteq Above(v) /\ w \in Above(v) \ Above(w)
      BY <1>5, PagesAssumption DEF T, Ids
    <2>2. <<Above(w), Above(v)>> \in R
      BY <2>1 DEF R, StrictSubsetOrdering
    <2> QED
      BY <1>3, <1>4, <2>1, <2>2
  <1> QED
    BY <1>5, PagesAssumption DEF Ids

LEMMA LeastId ==
    ASSUME NEW S \in SUBSET Ids, S # {}
    PROVE  \E v \in S : \A w \in S : v <= w
  <1>1. PICK T : T = {MaxId + 1 - v : v \in S}
    OBVIOUS
  <1>2. T \in SUBSET Ids /\ T # {}
    <2>1. ASSUME NEW v \in S
          PROVE  MaxId + 1 - v \in Ids
      BY PagesAssumption DEF Ids
    <2> QED
      BY <1>1, <2>1
  <1>3. PICK u \in T : \A w \in T : w <= u
    BY <1>2, GreatestId
  <1>4. PICK v \in S : u = MaxId + 1 - v
    BY <1>1, <1>3
  <1>5. ASSUME NEW w \in S
        PROVE  v <= w
    <2>1. MaxId + 1 - w <= u
      BY <1>1, <1>3
    <2> QED
      BY <1>4, <2>1, PagesAssumption DEF Ids
  <1> QED
    BY <1>5

Table == SUBSET [id: Ids, rule: Grants]

\* Rows that differ in their ids are no more than there are ids.
LEMMA TablesAreFinite ==
    ASSUME NEW table \in Table, IdsDiffer(table)
    PROVE  IsFiniteSet(table)
  <1>1. PICK f : f = [row \in table |-> row.id]
    OBVIOUS
  <1>2. f \in Injection(table, Ids)
    BY <1>1 DEF Injection, IsInjective, IdsDiffer, Table
  <1>3. IsFiniteSet(Ids)
    BY PagesAssumption, FS_Interval, SMT DEF Ids
  <1> QED
    BY <1>2, <1>3, FS_Injection

Below(table, row) == {other \in table : other.id < row.id}

\* A page has the first rows; all of them, when they are no more than its size.
LEMMA FirstRows ==
    ASSUME NEW table \in Table, IsFiniteSet(table), NEW n \in Nat \ {0}
    PROVE  /\ First(n, table) \subseteq table
           /\ \A row \in First(n, table), other \in table :
                 other.id <= row.id => other \in First(n, table)
           /\ table # {} => First(n, table) # {}
           /\ Cardinality(table) <= n => First(n, table) = table
  <1>1. /\ First(n, table) = {row \in table : Cardinality(Below(table, row)) < n}
        /\ \A row \in table : row.id \in Ids
    BY DEF First, Below, Table
  <1>2. \A row \in table : row.id \in Nat
    BY <1>1, PagesAssumption DEF Ids
  <1>3. ASSUME NEW row \in table
        PROVE  /\ IsFiniteSet(Below(table, row)) /\ Cardinality(Below(table, row)) \in Nat
               /\ Cardinality(Below(table, row)) < Cardinality(table)
    <2>1. Below(table, row) \in SUBSET table
      BY DEF Below
    <2>2. row \notin Below(table, row)
      BY <1>2 DEF Below
    <2>3. IsFiniteSet(Below(table, row)) /\ Cardinality(Below(table, row)) <= Cardinality(table)
      BY <2>1, FS_Subset
    <2>4. Cardinality(Below(table, row)) # Cardinality(table)
      BY <2>1, <2>2, FS_Subset
    <2>5. Cardinality(Below(table, row)) \in Nat /\ Cardinality(table) \in Nat
      BY <2>3, FS_CardinalityType
    <2> QED
      BY <2>3, <2>4, <2>5
  <1>4. ASSUME NEW row \in First(n, table), NEW other \in table, other.id <= row.id
        PROVE  other \in First(n, table)
    <2>1. row \in table /\ Cardinality(Below(table, row)) < n
      BY <1>1
    <2>2. ASSUME NEW third \in table, third.id < other.id
          PROVE  third.id < row.id
      BY <1>2, <1>4, <2>1, <2>2
    <2>3. Below(table, other) \in SUBSET Below(table, row)
      BY <2>2 DEF Below
    <2>4. Cardinality(Below(table, other)) <= Cardinality(Below(table, row))
      BY <1>3, <2>1, <2>3, FS_Subset
    <2>5. /\ Cardinality(Below(table, other)) \in Nat
          /\ Cardinality(Below(table, row)) \in Nat
      BY <1>3, <2>1
    <2> QED
      BY <1>1, <2>1, <2>4, <2>5
  <1>5. ASSUME table # {}
        PROVE  First(n, table) # {}
    <2>1. PICK S : S = {row.id : row \in table}
      OBVIOUS
    <2>2. S \in SUBSET Ids /\ S # {}
      BY <1>1, <1>5, <2>1
    <2>3. PICK v \in S : \A w \in S : v <= w
      BY <2>2, LeastId
    <2>4. PICK row \in table : v = row.id
      BY <2>1, <2>3
    <2>5. Below(table, row) = {}
      <3>1. ASSUME NEW other \in table
            PROVE  ~(other.id < row.id)
        BY <1>2, <2>1, <2>3, <2>4
      <3> QED
        BY <3>1 DEF Below
    <2>6. Cardinality(Below(table, row)) = 0
      BY <2>5, FS_EmptySet
    <2> QED
      BY <1>1, <2>4, <2>6
  <1>6. ASSUME Cardinality(table) <= n
        PROVE  First(n, table) = table
    <2>1. Cardinality(table) \in Nat
      BY FS_CardinalityType
    <2>2. \A row \in table : Cardinality(Below(table, row)) < n
      BY <1>3, <1>6, <2>1
    <2> QED
      BY <1>1, <2>2
  <1> QED
    BY <1>1, <1>4, <1>5, <1>6

\* The next token is the id of a row of the page, and no row is between them.
LEMMA NextTokenEndsPage ==
    ASSUME NEW after \in Table, IsFiniteSet(after), after # {}
    PROVE  /\ NextToken(after) \in {row.id : row \in after}
           /\ \A row \in after : row \in First(PageSize, after) \/ row.id > NextToken(after)
  <1>1. PICK page : page = First(PageSize, after)
    OBVIOUS
  <1>2. /\ page \subseteq after /\ page # {}
        /\ \A row \in page, other \in after : other.id <= row.id => other \in page
    BY <1>1, FirstRows, PagesAssumption
  <1>3. PICK S : S = {row.id : row \in page}
    OBVIOUS
  <1>4. S \in SUBSET Ids /\ S # {}
    BY <1>2, <1>3 DEF Table
  <1>5. \E id \in S : \A row \in page : row.id <= id
    BY <1>3, <1>4, GreatestId
  <1>6. PICK token : token = NextToken(after)
    OBVIOUS
  <1>7. token = CHOOSE id \in S : \A row \in page : row.id <= id
    BY <1>1, <1>3, <1>6 DEF NextToken, LastId
  <1>8. token \in S
    BY <1>5, <1>7
  <1>9. PICK last \in page : last.id = token
    BY <1>3, <1>8
  <1>10. ASSUME NEW row \in after, row \notin page
         PROVE  row.id > token
    <2>1. ~(row.id <= last.id)
      BY <1>2, <1>10
    <2>2. row.id \in Ids /\ last.id \in Ids
      BY <1>2 DEF Table
    <2> QED
      BY <1>9, <2>1, <2>2 DEF Ids
  <1> QED
    BY <1>1, <1>2, <1>6, <1>9, <1>10

-----------------------------------------------------------------------------
(* The steps of a reload and of the policy manager.                        *)

LEMMA BeginReloadKeeps ==
    ASSUME PagesIInv, BeginReload
    PROVE  PagesIInv'
  <1>1. PagesTypeOK /\ IdsDiffer(rows)
    BY DEF PagesIInv
  <1>2. PICK stored \in SUBSET Grants : stored = RulesOf(rows)
    BY <1>1 DEF PagesTypeOK, RulesOf
  <1>3. PICK t : t = [NoPaging EXCEPT !.pc = "page"]
    OBVIOUS
  <1>4. t = [pc |-> "page", token |-> 0, rules |-> {},
             throughout |-> {}, meanwhile |-> {}, early |-> FALSE]
    BY <1>3 DEF NoPaging
  <1>5. PICK u : u = [t EXCEPT !.throughout = stored]
    OBVIOUS
  <1>6. u = [pc |-> "page", token |-> 0, rules |-> {},
             throughout |-> stored, meanwhile |-> {}, early |-> FALSE]
    BY <1>4, <1>5
  <1>7. paging' = [u EXCEPT !.meanwhile = stored]
    BY <1>2, <1>3, <1>5 DEF BeginReload
  <1>8. paging' = [pc |-> "page", token |-> 0, rules |-> {},
                   throughout |-> stored, meanwhile |-> stored, early |-> FALSE]
    BY <1>6, <1>7
  <1>9. PagesTypeOK'
    <2>1. PICK z \in 0..MaxId : z = 0
      BY PagesAssumption
    <2>2. [pc |-> "page", token |-> z, rules |-> {},
           throughout |-> stored, meanwhile |-> stored, early |-> FALSE] \in Paging
      BY DEF Paging
    <2> QED
      BY <1>1, <1>8, <2>1, <2>2 DEF PagesTypeOK, BeginReload
  <1>10. IdsDiffer(rows)'
    BY <1>1 DEF IdsDiffer, BeginReload
  <1>11. ReloadFits(paging, rows, spent)'
    <2>1. \A g \in stored : \E row \in rows : row.rule = g /\ row.id > 0
      BY <1>1, <1>2, PagesAssumption DEF PagesTypeOK, RulesOf, Ids
    <2>2. rows' = rows
      BY DEF BeginReload
    <2> QED
      BY <1>2, <1>8, <2>1, <2>2 DEF ReloadFits, RulesOf
  <1>12. SnapshotWithinReload'
    BY <1>8 DEF SnapshotWithinReload
  <1> QED
    BY <1>9, <1>10, <1>11, <1>12 DEF PagesIInv

LEMMA EndReloadKeeps ==
    ASSUME PagesIInv, EndReload
    PROVE  PagesIInv'
  <1>1. PagesTypeOK /\ IdsDiffer(rows)
    BY DEF PagesIInv
  <1>2. rows' = rows /\ spent' = spent /\ paging' = NoPaging
    BY DEF EndReload
  <1>3. NoPaging \in Paging /\ NoPaging.pc = "idle"
    BY PagesAssumption DEF NoPaging, Paging
  <1> QED
    BY <1>1, <1>2, <1>3
    DEF PagesIInv, PagesTypeOK, IdsDiffer, ReloadFits, SnapshotWithinReload

LEMMA PageKeeps ==
    ASSUME PagesIInv, Page
    PROVE  PagesIInv'
  <1>1. PagesTypeOK /\ IdsDiffer(rows) /\ ReloadFits(paging, rows, spent)
    BY DEF PagesIInv
  <1>2. PICK p \in Paging : p = paging
    BY <1>1 DEF PagesTypeOK
  <1>3. p.pc = "page" /\ rows' = rows /\ spent' = spent
    BY <1>2 DEF Page
  <1>4. PICK after \in Table : after = {row \in rows : row.id > p.token}
    BY <1>1 DEF PagesTypeOK, Table
  <1>5. PICK page : page = First(PageSize, after)
    OBVIOUS
  <1>6. IsFiniteSet(after)
    BY <1>1, <1>4, TablesAreFinite DEF IdsDiffer
  <1>7. page \subseteq after /\ (Cardinality(after) <= PageSize => page = after)
    BY <1>5, <1>6, FirstRows, PagesAssumption
  <1>8. PICK collected \in SUBSET Grants : collected = p.rules \union RulesOf(page)
    <2>1. RulesOf(page) \subseteq Grants
      BY <1>7 DEF RulesOf, Table
    <2> QED
      BY <2>1 DEF Paging
  <1>9. collected \subseteq p.meanwhile
    BY <1>1, <1>2, <1>3, <1>4, <1>7, <1>8 DEF ReloadFits, RulesOf
  <1>10. PICK read \in Paging :
           /\ read = [p EXCEPT !.rules = collected]
           /\ read.pc = p.pc /\ read.rules = collected
           /\ read.throughout = p.throughout /\ read.meanwhile = p.meanwhile
           /\ read.early = p.early
    <2>1. PICK read : read = [p EXCEPT !.rules = collected]
      OBVIOUS
    <2>2. /\ read \in Paging /\ read.pc = p.pc /\ read.rules = collected
          /\ read.throughout = p.throughout /\ read.meanwhile = p.meanwhile
          /\ read.early = p.early
      BY <2>1 DEF Paging
    <2> QED
      BY <2>1, <2>2
  <1>11. paging' = IF Cardinality(after) > PageSize
                   THEN [read EXCEPT !.token = NextToken(after)]
                   ELSE [read EXCEPT !.token = 0, !.pc = "apply"]
    BY <1>2, <1>4, <1>5, <1>8, <1>10 DEF Page
  <1>12. IdsDiffer(rows)'
    BY <1>1, <1>3 DEF IdsDiffer
  <1>13. ASSUME paging' \in Paging, ReloadFits(paging', rows, spent), SnapshotWithinReload'
         PROVE  PagesIInv'
    BY <1>1, <1>3, <1>12, <1>13 DEF PagesIInv, PagesTypeOK, ReloadFits
  <1>14. Cardinality(after) \in Nat
    BY <1>6, FS_CardinalityType
  <1>15. CASE Cardinality(after) > PageSize
    <2>1. after # {}
      BY <1>15, PagesAssumption, FS_EmptySet
    <2>2. PICK token : token = NextToken(after)
      OBVIOUS
    <2>3. /\ token \in {row.id : row \in after}
          /\ \A row \in after : row \in page \/ row.id > token
      BY <1>5, <1>6, <2>1, <2>2, NextTokenEndsPage
    <2>4. token \in spent /\ token \in 0..MaxId
      <3>1. PICK row \in after : token = row.id
        BY <2>3
      <3>2. row.id \in spent /\ spent \subseteq Ids
        BY <1>1, <1>4, <3>1 DEF PagesTypeOK
      <3>3. Ids \subseteq 0..MaxId
        BY PagesAssumption DEF Ids
      <3> QED
        BY <3>1, <3>2, <3>3
    <2>5. paging' = [read EXCEPT !.token = token]
      BY <1>11, <1>15, <2>2
    <2>6. /\ paging' \in Paging /\ paging'.pc = "page" /\ paging'.token = token
          /\ paging'.rules = collected
          /\ paging'.throughout = p.throughout /\ paging'.meanwhile = p.meanwhile
          /\ paging'.early = p.early
      BY <1>3, <1>10, <2>4, <2>5 DEF Paging
    <2>7. ASSUME ~p.early, NEW g \in p.throughout, g \notin collected
          PROVE  \E row \in rows : row.rule = g /\ row.id > token
      <3>1. PICK row \in rows : row.rule = g /\ row.id > p.token
        BY <1>1, <1>2, <1>3, <1>8, <2>7 DEF ReloadFits
      <3>2. row \in after /\ row \notin page
        BY <1>4, <1>8, <2>7, <3>1 DEF RulesOf
      <3> QED
        BY <2>3, <3>1, <3>2
    <2>8. ReloadFits(paging', rows, spent)
      BY <1>1, <1>2, <1>3, <1>9, <2>4, <2>6, <2>7 DEF ReloadFits
    <2> QED
      BY <1>13, <2>6, <2>8 DEF SnapshotWithinReload
  <1>16. CASE ~(Cardinality(after) > PageSize)
    <2>1. page = after
      BY <1>7, <1>14, <1>16, PagesAssumption
    <2>2. paging' = [read EXCEPT !.token = 0, !.pc = "apply"]
      BY <1>11, <1>16
    <2>3. /\ paging' \in Paging /\ paging'.pc = "apply" /\ paging'.rules = collected
          /\ paging'.throughout = p.throughout /\ paging'.meanwhile = p.meanwhile
          /\ paging'.early = p.early
      <3>1. PICK z \in 0..MaxId : z = 0
        BY PagesAssumption
      <3>2. PICK t : t = [read EXCEPT !.token = z]
        OBVIOUS
      <3>3. /\ t \in Paging /\ t.rules = collected
            /\ t.throughout = p.throughout /\ t.meanwhile = p.meanwhile /\ t.early = p.early
        BY <1>10, <3>2 DEF Paging
      <3>4. paging' = [t EXCEPT !.pc = "apply"]
        BY <2>2, <3>1, <3>2
      <3> QED
        BY <3>3, <3>4 DEF Paging
    <2>4. ASSUME ~p.early, NEW g \in p.throughout
          PROVE  g \in collected
      BY <1>1, <1>2, <1>3, <1>4, <1>8, <2>1, <2>4 DEF ReloadFits, RulesOf
    <2>5. SnapshotWithinReload'
      BY <1>9, <2>3, <2>4 DEF SnapshotWithinReload
    <2> QED
      BY <1>13, <2>3, <2>5 DEF ReloadFits
  <1> QED
    BY <1>15, <1>16

\* A rule that is replaced moves behind the token, unless its row came in early.
LEMMA ReplaceGrantsKeeps ==
    ASSUME PagesIInv, NEW old \in PolicyRoles, NEW new \in PolicyRoles,
           NEW permissions \in SUBSET Permissions, ReplaceGrants(old, new, permissions)
    PROVE  PagesIInv'
  <1>1. PagesTypeOK /\ IdsDiffer(rows) /\ ReloadFits(paging, rows, spent) /\ SnapshotWithinReload
    BY DEF PagesIInv
  <1>2. PICK p \in Paging : p = paging
    BY <1>1 DEF PagesTypeOK
  <1>3. PICK granted \in SUBSET Grants : granted = {new} \X permissions
    BY DEF Grants
  <1>4. PICK kept : kept = {row \in rows : row.rule[1] # old}
    OBVIOUS
  <1>5. PICK ids \in [granted -> Ids \ spent] :
          /\ \A g, h \in granted : ids[g] = ids[h] => g = h
          /\ rows' = kept \union Rows(granted, ids)
          /\ spent' = spent \union {ids[g] : g \in granted}
          /\ Observe(rows', \E g \in granted : \E id \in spent : ids[g] < id)
    BY <1>3, <1>4 DEF ReplaceGrants
  <1>6. /\ kept \subseteq rows
        /\ \A row \in rows' : row \in kept \/ \E g \in granted : row = [id |-> ids[g], rule |-> g]
        /\ \A g \in granted : ids[g] \in Ids \ spent
    BY <1>4, <1>5 DEF Rows
  <1>7. spent' \subseteq Ids /\ spent \subseteq spent' /\ rows' \subseteq [id: spent', rule: Grants]
    BY <1>1, <1>5, <1>6 DEF PagesTypeOK
  <1>8. IdsDiffer(rows)'
    <2>1. SUFFICES ASSUME NEW a \in rows', NEW b \in rows', a.id = b.id
                   PROVE  a = b
      BY DEF IdsDiffer
    <2>2. \A row \in rows : row.id \in spent
      BY <1>1 DEF PagesTypeOK
    <2>3. CASE a \in kept
      <3>1. b \in kept
        BY <1>6, <2>1, <2>2, <2>3
      <3> QED
        BY <1>1, <1>6, <2>1, <2>3, <3>1 DEF IdsDiffer
    <2>4. CASE a \notin kept
      <3>1. PICK g \in granted : a = [id |-> ids[g], rule |-> g]
        BY <1>6, <2>4
      <3>2. b \notin kept
        BY <1>6, <2>1, <2>2, <3>1
      <3>3. PICK h \in granted : b = [id |-> ids[h], rule |-> h]
        BY <1>6, <3>2
      <3>4. g = h
        BY <1>5, <2>1, <3>1, <3>3
      <3> QED
        BY <3>1, <3>3, <3>4
    <2> QED
      BY <2>3, <2>4
  <1>9. PICK stored \in SUBSET Grants : stored = RulesOf(rows')
    <2>1. PICK table \in SUBSET [id: spent', rule: Grants] : table = rows'
      BY <1>7
    <2>2. RulesOf(table) \subseteq Grants
      BY DEF RulesOf
    <2> QED
      BY <2>1, <2>2
  <1>10. PICK early \in BOOLEAN : early = \E g \in granted : \E id \in spent : ids[g] < id
    OBVIOUS
  <1>11. CASE p.pc # "page"
    <2>1. paging' = paging
      BY <1>2, <1>5, <1>11 DEF Observe
    <2> QED
      BY <1>1, <1>2, <1>7, <1>8, <1>11, <2>1
      DEF PagesIInv, PagesTypeOK, ReloadFits, SnapshotWithinReload
  <1>12. CASE p.pc = "page"
    <2>1. PICK next : next = [p EXCEPT !.throughout = @ \intersect stored,
                                       !.meanwhile = @ \union stored,
                                       !.early = @ \/ early]
      OBVIOUS
    <2>2. paging' = next
      BY <1>2, <1>5, <1>9, <1>10, <1>12, <2>1 DEF Observe
    <2>3. /\ next \in Paging /\ next.pc = p.pc /\ next.token = p.token /\ next.rules = p.rules
          /\ next.throughout = p.throughout \intersect stored
          /\ next.meanwhile = p.meanwhile \union stored
          /\ ~next.early => ~p.early /\ ~early
      <3>1. PICK b \in BOOLEAN : b = (p.early \/ early)
        OBVIOUS
      <3>2. ~b => ~p.early /\ ~early
        BY <3>1, Zenon
      <3>3. PICK t : t = [p EXCEPT !.throughout = p.throughout \intersect stored]
        OBVIOUS
      <3>4. /\ t \in Paging /\ t.pc = p.pc /\ t.token = p.token /\ t.rules = p.rules
            /\ t.throughout = p.throughout \intersect stored /\ t.meanwhile = p.meanwhile
            /\ t.early = p.early
        BY <3>3 DEF Paging
      <3>5. PICK u : u = [t EXCEPT !.meanwhile = p.meanwhile \union stored]
        OBVIOUS
      <3>6. /\ u \in Paging /\ u.pc = p.pc /\ u.token = p.token /\ u.rules = p.rules
            /\ u.throughout = p.throughout \intersect stored
            /\ u.meanwhile = p.meanwhile \union stored /\ u.early = p.early
        BY <3>4, <3>5 DEF Paging
      <3>7. PICK v : v = [u EXCEPT !.early = b]
        OBVIOUS
      <3>8. /\ v \in Paging /\ v.pc = p.pc /\ v.token = p.token /\ v.rules = p.rules
            /\ v.throughout = p.throughout \intersect stored
            /\ v.meanwhile = p.meanwhile \union stored /\ v.early = b
        BY <3>6, <3>7 DEF Paging
      <3>9. next = v
        BY <2>1, <3>1, <3>3, <3>5, <3>7
      <3> QED
        BY <3>2, <3>8, <3>9
    <2>4. ASSUME ~p.early, ~early, NEW g \in p.throughout \intersect stored, g \notin p.rules
          PROVE  \E row \in rows' : row.rule = g /\ row.id > p.token
      <3>1. PICK row \in rows : row.rule = g /\ row.id > p.token
        BY <1>1, <1>2, <1>12, <2>4 DEF ReloadFits
      <3>2. PICK other \in rows' : other.rule = g
        BY <1>9, <2>4 DEF RulesOf
      <3>3. CASE row \in kept
        BY <1>5, <3>1, <3>3
      <3>4. CASE row \notin kept
        <4>1. other \notin kept
          BY <1>4, <3>1, <3>2, <3>4
        <4>2. PICK h \in granted : other = [id |-> ids[h], rule |-> h]
          BY <1>6, <4>1
        <4>3. other.id = ids[h] /\ ids[h] \in Ids \ spent
          BY <1>6, <4>2
        <4>4. \A id \in spent : ~(ids[h] < id)
          BY <1>10, <2>4
        <4>5. p.token = 0 \/ p.token \in spent
          BY <1>1, <1>2, <1>12 DEF ReloadFits
        <4>6. Ids \subseteq Nat \ {0} /\ spent \subseteq Ids
          BY <1>1, PagesAssumption DEF Ids, PagesTypeOK
        <4>7. PICK n \in Nat \ {0}, m \in Nat : n = ids[h] /\ m = p.token
          BY <4>3, <4>5, <4>6
        <4>8. m = 0 \/ (m \in spent /\ ~(n < m) /\ n # m)
          BY <4>3, <4>4, <4>5, <4>7
        <4>9. ids[h] > p.token
          BY <4>7, <4>8
        <4> QED
          BY <3>2, <4>3, <4>9
      <3> QED
        BY <3>3, <3>4
    <2>5. ReloadFits(next, rows', spent')
      <3>1. p.token = 0 \/ p.token \in spent'
        BY <1>1, <1>2, <1>7, <1>12 DEF ReloadFits
      <3>2. p.rules \subseteq p.meanwhile
        BY <1>1, <1>2, <1>12 DEF ReloadFits
      <3> QED
        BY <1>9, <2>3, <2>4, <3>1, <3>2 DEF ReloadFits
    <2>6. ReloadFits(paging, rows, spent)'
      BY <2>2, <2>5 DEF ReloadFits
    <2>7. SnapshotWithinReload'
      BY <1>12, <2>2, <2>3 DEF SnapshotWithinReload
    <2> QED
      BY <1>7, <1>8, <2>2, <2>3, <2>6, <2>7 DEF PagesIInv, PagesTypeOK
  <1> QED
    BY <1>11, <1>12

LEMMA PagesInitFits == PagesInit => PagesIInv
  <1>1. NoPaging \in Paging /\ NoPaging.pc = "idle"
    BY PagesAssumption DEF NoPaging, Paging
  <1> QED
    BY <1>1 DEF PagesInit, PagesIInv, PagesTypeOK, IdsDiffer, ReloadFits, SnapshotWithinReload

LEMMA PagesNextKeeps == PagesIInv /\ [PagesNext]_pageVars => PagesIInv'
  <1>1. SUFFICES ASSUME PagesIInv, [PagesNext]_pageVars
                 PROVE  PagesIInv'
    OBVIOUS
  <1>2. ASSUME NEW old \in PolicyRoles, NEW new \in PolicyRoles,
               NEW permissions \in SUBSET Permissions, ReplaceGrants(old, new, permissions)
        PROVE  PagesIInv'
    BY <1>1, <1>2, ReplaceGrantsKeeps
  <1>3. CASE BeginReload
    BY <1>1, <1>3, BeginReloadKeeps
  <1>4. CASE Page
    BY <1>1, <1>4, PageKeeps
  <1>5. CASE EndReload
    BY <1>1, <1>5, EndReloadKeeps
  <1>6. CASE UNCHANGED pageVars
    BY <1>1, <1>6
    DEF PagesIInv, PagesTypeOK, IdsDiffer, ReloadFits, SnapshotWithinReload, pageVars
  <1> QED
    BY <1>1, <1>2, <1>3, <1>4, <1>5, <1>6 DEF PagesNext

(***************************************************************************)
(* Between the pages of a reload a rule that was stored all the time is    *)
(* collected, or has a row after the page token.                           *)
(***************************************************************************)
THEOREM PagesInvariant == PagesSpec => []PagesIInv
  BY PagesInitFits, PagesNextKeeps, PTL DEF PagesSpec

(***************************************************************************)
(* The table of grants and the state of a reload have their types.         *)
(***************************************************************************)
THEOREM PagesTypes == PagesSpec => []PagesTypeOK
  <1>1. PagesIInv => PagesTypeOK
    BY DEF PagesIInv
  <1> QED
    BY <1>1, PagesInvariant, PTL

(***************************************************************************)
(* The rules a reload has collected with NamespacePolicies, page by page,  *)
(* were each stored while it ran; and when no row came in before older     *)
(* ones, none that was stored all the time is missing, for every page size *)
(* and however grants were replaced between the pages.                     *)
(***************************************************************************)
THEOREM PagesSnapshot == PagesSpec => []SnapshotWithinReload
  <1>1. PagesIInv => SnapshotWithinReload
    BY DEF PagesIInv
  <1> QED
    BY <1>1, PagesInvariant, PTL

-----------------------------------------------------------------------------
(* The instances of MCAuthzClient.                                         *)

\* Caches and pages share no state and each step is a step of one of them, so
\* a behaviour of the instances is a behaviour of each, and every theorem above
\* holds of it.
THEOREM ClientComposes == ClientSpec => Spec /\ PagesSpec
  <1>1. ClientInit => Init /\ PagesInit
    BY DEF ClientInit
  <1>2. [ClientNext]_clientVars => [Next]_vars /\ [PagesNext]_pageVars
    BY DEF ClientNext, clientVars
  <1> QED
    BY <1>1, <1>2, PTL DEF ClientSpec, Spec, PagesSpec

\* Whatever changes, expires and is lost, the caches, the events, the pages and
\* the calls hold what their declarations allow.
THEOREM ClientTypesOK == ClientSpec => []TypesOK
  <1>1. TypeOK /\ PagesTypeOK => TypesOK
    BY DEF TypesOK
  <1> QED
    BY <1>1, ClientComposes, ClientTypes, PagesTypes, PTL

=============================================================================
