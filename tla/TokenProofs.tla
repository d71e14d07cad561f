---------------------------- MODULE TokenProofs ----------------------------
(***************************************************************************)
(* Theorems of the two halves of the token endpoint, RefreshTokens and     *)
(* AuthorizationCode.                                                      *)
(*                                                                         *)
(* RefreshTokens, for any number of tokens and concurrent calls: the type  *)
(* invariant, at most one live token per family, at most one child per     *)
(* token, and that a revocation is final.                                  *)
(*                                                                         *)
(* AuthorizationCode, for any users, scopes, authorizations and concurrent *)
(* calls: its types, that it implements CodeLifecycle, that a revocation   *)
(* reaches the families it finds over, and that a grant holds what its     *)
(* user decided.                                                           *)
(*                                                                         *)
(* The instances of MCTokens keep the types of both.                       *)
(***************************************************************************)
EXTENDS MCTokens, TLAPS

-----------------------------------------------------------------------------
(* RefreshTokens.                                                          *)

-----------------------------------------------------------------------------
(***************************************************************************)
(* The inductive invariant.  Every row's family and parent are rows, and a *)
(* parent is used; a call that has read a row still finds its family       *)
(* there; a rotation transaction owns a row that is live until it commits, *)
(* and an id that is nobody else's.                                        *)
(***************************************************************************)
Open(q) == req[q].pc \in {"claimed", "inserted"}

RowsMatch ==
    /\ known \subseteq Exists
    /\ \A t \in Exists :
        /\ row[t].family \in Exists
        /\ row[t].parent # NoToken =>
              row[t].parent \in Exists /\ row[row[t].parent].used

RequestsMatch ==
    \A q \in Requests :
        /\ req[q].pc \in {"resolved", "claimed", "inserted", "committed",
                          "revoking", "updating"} => req[q].family \in Exists
        /\ req[q].pc \in {"resolved", "claimed", "inserted"} =>
              req[q].token \in Exists /\ row[req[q].token].family = req[q].family
        /\ Open(q) => Live(req[q].token)
        /\ req[q].pc = "inserted" => req[q].child \in Tokens \ Exists
        /\ req[q].pc = "committed" => req[q].child \in Exists

Exclusive ==
    \A p, q \in Requests :
        /\ (Open(p) /\ Open(q) /\ req[p].token = req[q].token) => p = q
        /\ (/\ req[p].pc = "inserted" /\ req[q].pc = "inserted"
            /\ req[p].child = req[q].child) => p = q

IInv ==
    /\ TypeOK
    /\ RowsMatch /\ RequestsMatch /\ Exclusive
    /\ OneLiveTokenPerFamily
    /\ OneChildPerToken

-----------------------------------------------------------------------------
\* An inserted row is a row.
LEMMA NewRowType ==
    ASSUME NEW f \in MaybeToken, NEW p \in MaybeToken
    PROVE  NewRow(f, p) \in Row
  BY DEF NewRow, Row

LEMMA IdleType == Idle \in Request
  BY DEF Idle, Request, MaybeToken

LEMMA TypeInit == Init => TypeOK
  BY IdleType DEF Init, TypeOK, Absent, Row, MaybeToken

LEMMA TypeNext == IInv /\ [Next]_vars => TypeOK'
  <1> SUFFICES ASSUME IInv, [Next]_vars PROVE TypeOK'
    OBVIOUS
  <1> USE DEF IInv
  <1>1. ASSUME NEW t \in Tokens, Issue(t) PROVE TypeOK'
    <2>1. NewRow(t, NoToken) \in Row
      BY NewRowType DEF MaybeToken
    <2> QED
      BY <1>1, <2>1 DEF Issue, TypeOK
  <1>2. ASSUME NEW t \in Tokens, Expire(t) PROVE TypeOK'
    BY <1>2 DEF Expire, TypeOK, Row
  <1>3. CASE Approve
    BY <1>3 DEF Approve, TypeOK
  <1>4. ASSUME NEW q \in Requests, Step(q) PROVE TypeOK'
    <2>0. req[q] \in Request
      BY DEF TypeOK
    <2>1. ASSUME NEW t \in Tokens, Resolve(q, t) PROVE TypeOK'
      <3>1. row[t].family \in MaybeToken
        BY DEF TypeOK, Row
      <3>2. [Idle EXCEPT !.pc = "resolved", !.token = t, !.family = row[t].family] \in Request
        BY <3>1 DEF Idle, Request, MaybeToken
      <3> QED
        BY <2>1, <3>2 DEF Resolve, TypeOK
    <2>2. ASSUME NEW t \in Tokens, ResolveReused(q, t) PROVE TypeOK'
      <3>1. row[t].family \in MaybeToken
        BY DEF TypeOK, Row
      <3>2. [Idle EXCEPT !.pc = "revoking", !.token = t, !.family = row[t].family] \in Request
        BY <3>1 DEF Idle, Request, MaybeToken
      <3> QED
        BY <2>2, <3>2 DEF ResolveReused, TypeOK
    <2>3. ASSUME NEW t \in Tokens, Insert(q, t) PROVE TypeOK'
      <3>1. [req[q] EXCEPT !.pc = "inserted", !.child = t] \in Request
        BY <2>0 DEF Request, MaybeToken
      <3> QED
        BY <2>3, <3>1 DEF Insert, TypeOK
    <2>4. CASE Refuse(q) \/ Rollback(q) \/ MintFails(q) \/ RevokeFails(q)
      BY <2>4, IdleType DEF Refuse, Rollback, MintFails, RevokeFails, TypeOK
    <2>5. CASE Claim(q)
      <3>1. \A p \in Requests :
              /\ [req[q] EXCEPT !.pc = "claimed"] \in Request
              /\ [req[p] EXCEPT !.alone = @ /\ req[p].family # req[q].family] \in Request
        BY <2>0 DEF TypeOK, Request
      <3> QED
        BY <2>5, <3>1 DEF Claim, Claimed, TypeOK
    <2>6. CASE RevokeToken(q) \/ ClaimLost(q) \/ ConsentStart(q)
      BY <2>6, <2>0 DEF RevokeToken, ClaimLost, ConsentStart, TypeOK, Request
    <2>7. CASE Commit(q)
      <3>1. /\ req[q].token \in Tokens /\ req[q].child \in Tokens
            /\ req[q].family \in MaybeToken
        BY <2>7 DEF Commit, RequestsMatch, Open, Exists, TypeOK, Request
      <3>2. NewRow(req[q].family, req[q].token) \in Row
        BY <3>1, NewRowType DEF MaybeToken
      <3>6. row[req[q].token] \in Row
        BY <3>1 DEF TypeOK
      <3>5. [row[req[q].token] EXCEPT !.used = TRUE] \in Row
        BY <3>6 DEF Row
      <3>3. row' \in [Tokens -> Row]
        BY <2>7, <3>2, <3>5 DEF Commit, TypeOK
      <3>4. req' \in [Requests -> Request]
        BY <2>7, <2>0 DEF Commit, TypeOK, Request
      <3> QED
        BY <2>7, <3>3, <3>4 DEF Commit, TypeOK
    <2>8. CASE Mint(q)
      BY <2>8, IdleType DEF Mint, TypeOK, RequestsMatch, Exists
    <2>9. CASE RevokeStart(q)
      <3> DEFINE s == {t \in Exists : /\ row[t].family = req[q].family
                                      /\ ~row[t].revoked}
                 a == ~Rotating(req[q].family)
      <3>1. s \in SUBSET Tokens /\ a \in BOOLEAN
        <4>1. s \in SUBSET Tokens
          BY DEF Exists
        <4>2. a \in BOOLEAN
          OBVIOUS
        <4> QED
          BY <4>1, <4>2
      <3>3. req' = [req EXCEPT ![q].pc = "updating", ![q].snapshot = s, ![q].alone = a]
        BY <2>9 DEF RevokeStart
      <3> HIDE DEF s, a
      <3>2. [req[q] EXCEPT !.pc = "updating", !.snapshot = s, !.alone = a] \in Request
        BY <2>0, <3>1 DEF Request
      <3>4. req' \in [Requests -> Request]
        BY <3>2, <3>3 DEF TypeOK
      <3> QED
        BY <2>9, <3>4 DEF RevokeStart, TypeOK
    <2>10. CASE RevokeFamily(q) \/ RevokeConsent(q)
      <3>1. Revoked(req[q].snapshot) \in [Tokens -> Row]
        BY DEF Revoked, TypeOK, Row
      <3>2. req[q].pc = "updating" => req[q].family \in Tokens
        BY DEF RequestsMatch, Exists
      <3> QED
        BY <2>10, <3>1, <3>2, IdleType DEF RevokeFamily, RevokeConsent, TypeOK
    <2>11. CASE ConsentSweep(q)
      <3> DEFINE s == {t \in Exists : ~row[t].revoked}
      <3>1. s \in SUBSET Tokens
        BY DEF Exists
      <3> HIDE DEF s
      <3>2. [req[q] EXCEPT !.pc = "sweeping", !.snapshot = s] \in Request
        BY <2>0, <3>1 DEF Request
      <3> QED
        BY <2>11, <3>2 DEF ConsentSweep, TypeOK, s
    <2> QED
      BY <1>4, <2>1, <2>2, <2>3, <2>4, <2>5, <2>6, <2>7, <2>8, <2>9, <2>10, <2>11 DEF Step
  <1>5. CASE UNCHANGED vars
    BY <1>5 DEF vars, TypeOK
  <1> QED
    BY <1>1, <1>2, <1>3, <1>4, <1>5 DEF Next

-----------------------------------------------------------------------------
(* What an action does to the rows, in one of five ways: nothing, a new    *)
(* root, an expiry, a rotation, or a revocation.                           *)

NewRoot(t) == /\ t \in Fresh
              /\ row' = [row EXCEPT ![t] = NewRow(t, NoToken)]
              /\ known' = known \union {t} /\ req' = req

\* An existing row keeps its family and its parent, and never gets used_at or
\* revoked_at cleared.
Kept(t) == /\ row'[t].exists
           /\ row'[t].family = row[t].family /\ row'[t].parent = row[t].parent
           /\ row[t].used => row'[t].used
           /\ row[t].revoked => row'[t].revoked

\* The two records an insertion or a claim leaves.
LEMMA FieldsOfNewRow ==
    ASSUME NEW f, NEW p
    PROVE  /\ NewRow(f, p).exists /\ NewRow(f, p).family = f /\ NewRow(f, p).parent = p
           /\ ~NewRow(f, p).used /\ ~NewRow(f, p).revoked
  BY DEF NewRow

\* What Commit does, row by row.
LEMMA CommitRows ==
    ASSUME IInv, NEW q \in Requests, Commit(q)
    PROVE  /\ req[q].token \in Exists /\ Live(req[q].token)
           /\ row[req[q].token].family = req[q].family /\ req[q].family \in Exists
           /\ req[q].child \in Tokens \ Exists
           /\ row'[req[q].child] = NewRow(req[q].family, req[q].token)
           /\ row'[req[q].token] = [row[req[q].token] EXCEPT !.used = TRUE]
           /\ \A t \in Tokens : t \notin {req[q].token, req[q].child} => row'[t] = row[t]
  <1>1. /\ req[q].token \in Exists /\ Live(req[q].token)
        /\ row[req[q].token].family = req[q].family /\ req[q].family \in Exists
        /\ req[q].child \in Tokens \ Exists
    BY DEF Commit, IInv, RequestsMatch, Open
  <1>2. req[q].token # req[q].child /\ req[q].token \in Tokens
    BY <1>1 DEF Exists
  <1>3. row' = [row EXCEPT ![req[q].token].used = TRUE,
                           ![req[q].child] = NewRow(req[q].family, req[q].token)]
    BY DEF Commit
  <1> QED
    BY <1>1, <1>2, <1>3 DEF IInv, TypeOK

\* What a revocation does, row by row.
LEMMA RevokedRows ==
    ASSUME TypeOK, NEW s, row' = Revoked(s), NEW t \in Tokens
    PROVE  /\ row'[t].exists = row[t].exists /\ row'[t].family = row[t].family
           /\ row'[t].parent = row[t].parent /\ row'[t].used = row[t].used
           /\ row'[t].revoked = (row[t].revoked \/ t \in s)
  <1>1. row'[t] = IF t \in s THEN [row[t] EXCEPT !.revoked = TRUE] ELSE row[t]
    BY DEF Revoked
  <1>2. row[t] \in Row
    BY DEF TypeOK
  <1>3. CASE t \in s
    BY <1>1, <1>2, <1>3 DEF Row
  <1>4. CASE t \notin s
    BY <1>1, <1>2, <1>4 DEF Row
  <1> QED
    BY <1>3, <1>4

\* Which actions touch the rows.
LEMMA RowCases ==
    ASSUME IInv, [Next]_vars
    PROVE  \/ row' = row
           \/ \E t \in Tokens : NewRoot(t)
           \/ \E t \in Exists : /\ row' = [row EXCEPT ![t].expired = TRUE]
                                /\ UNCHANGED <<known, req>>
           \/ \E q \in Requests : Commit(q)
           \/ \E q \in Requests : RevokeFamily(q) \/ RevokeConsent(q)
  <1>1. ASSUME NEW t \in Tokens, Issue(t) PROVE NewRoot(t)
    BY <1>1 DEF Issue, NewRoot
  <1>2. ASSUME NEW t \in Tokens, Expire(t)
        PROVE  /\ t \in Exists
               /\ row' = [row EXCEPT ![t].expired = TRUE] /\ UNCHANGED <<known, req>>
    BY <1>2 DEF Expire, Exists
  <1>3. ASSUME NEW q \in Requests, Step(q)
        PROVE  row' = row \/ Commit(q) \/ RevokeFamily(q) \/ RevokeConsent(q)
    BY <1>3 DEF Step, Resolve, ResolveReused, RevokeToken, Insert, Refuse, Claim, ClaimLost, Rollback,
                Mint, MintFails, RevokeStart, RevokeFails, ConsentStart, ConsentSweep
  <1>4. Approve \/ UNCHANGED vars => row' = row
    BY DEF Approve, vars
  <1> QED
    BY <1>1, <1>2, <1>3, <1>4 DEF Next

LEMMA RowsKept ==
    ASSUME IInv, [Next]_vars, NEW t \in Exists
    PROVE  Kept(t)
  <1>0. t \in Tokens /\ row[t].exists /\ row[t] \in Row
    BY DEF Exists, IInv, TypeOK
  <1>1. CASE row' = row
    BY <1>0, <1>1 DEF Kept
  <1>2. ASSUME NEW u \in Tokens, NewRoot(u) PROVE Kept(t)
    <2>1. row'[t] = row[t]
      BY <1>0, <1>2 DEF NewRoot, Fresh, Exists, IInv, TypeOK
    <2> QED
      BY <1>0, <2>1 DEF Kept
  <1>3. ASSUME NEW u \in Exists, row' = [row EXCEPT ![u].expired = TRUE] PROVE Kept(t)
    BY <1>0, <1>3 DEF Kept, IInv, TypeOK, Row
  <1>4. ASSUME NEW q \in Requests, Commit(q) PROVE Kept(t)
    <2>1. t # req[q].child
      BY <1>4, CommitRows
    <2>2. CASE t = req[q].token
      <3>1. row'[t] = [row[t] EXCEPT !.used = TRUE]
        BY <1>4, <2>2, CommitRows
      <3> QED
        BY <1>0, <3>1 DEF Kept, Row
    <2>3. CASE t # req[q].token
      <3>1. row'[t] = row[t]
        BY <1>0, <1>4, <2>1, <2>3, CommitRows
      <3> QED
        BY <1>0, <3>1 DEF Kept
    <2> QED
      BY <2>2, <2>3
  <1>5. ASSUME NEW q \in Requests, RevokeFamily(q) \/ RevokeConsent(q) PROVE Kept(t)
    <2>1. row' = Revoked(req[q].snapshot)
      BY <1>5 DEF RevokeFamily, RevokeConsent
    <2> QED
      BY <1>0, <2>1, RevokedRows DEF Kept, IInv
  <1> QED
    BY <1>1, <1>2, <1>3, <1>4, <1>5, RowCases

-----------------------------------------------------------------------------
(* The row invariants.                                                     *)

LEMMA RowsNext == IInv /\ [Next]_vars => RowsMatch' /\ OneChildPerToken'
  <1> SUFFICES ASSUME IInv, [Next]_vars PROVE RowsMatch' /\ OneChildPerToken'
    OBVIOUS
  <1>0. Exists \subseteq Exists' /\ \A t \in Exists : Kept(t)
    BY RowsKept DEF Kept, Exists
  \* It is enough to look at the rows that are new.
  <1>1. ASSUME known' \subseteq Exists',
               \A t \in Exists' \ Exists :
                  /\ row'[t].family \in Exists'
                  /\ row'[t].parent # NoToken =>
                        /\ row'[t].parent \in Exists' /\ row'[row'[t].parent].used
                        /\ \A u \in Exists' : row'[u].parent = row'[t].parent => u = t
        PROVE  RowsMatch' /\ OneChildPerToken'
    <2>1. RowsMatch'
      <3>1. \A t \in Exists' : row'[t].family \in Exists'
        BY <1>0, <1>1 DEF Kept, IInv, RowsMatch
      <3>2. \A t \in Exists' : row'[t].parent # NoToken =>
                row'[t].parent \in Exists' /\ row'[row'[t].parent].used
        BY <1>0, <1>1 DEF Kept, IInv, RowsMatch
      <3> QED
        BY <1>1, <3>1, <3>2 DEF RowsMatch
    <2>2. OneChildPerToken'
      BY <1>0, <1>1 DEF Kept, IInv, OneChildPerToken
    <2> QED
      BY <2>1, <2>2
  <1>2. ASSUME NEW t \in Tokens, NewRoot(t) PROVE RowsMatch' /\ OneChildPerToken'
    <2>1. /\ row'[t] = NewRow(t, NoToken)
          /\ \A u \in Tokens : u # t => row'[u] = row[u]
          /\ known' = known \union {t}
      BY <1>2 DEF NewRoot, IInv, TypeOK
    <2>2. t \in Exists' /\ Exists' \subseteq Exists \union {t}
      BY <2>1, FieldsOfNewRow DEF Exists
    <2>3. row'[t].family = t /\ row'[t].parent = NoToken
      BY <2>1, FieldsOfNewRow
    <2>4. known' \subseteq Exists'
      BY <1>0, <2>1, <2>2 DEF IInv, RowsMatch
    <2> QED
      BY <1>1, <2>2, <2>3, <2>4
  <1>3. ASSUME NEW q \in Requests, Commit(q) PROVE RowsMatch' /\ OneChildPerToken'
    <2> DEFINE t == req[q].token
               c == req[q].child
    <2>1. /\ t \in Exists /\ Live(t) /\ row[t].family = req[q].family
          /\ req[q].family \in Exists /\ c \in Tokens \ Exists
          /\ row'[c] = NewRow(req[q].family, t)
          /\ row'[t] = [row[t] EXCEPT !.used = TRUE]
          /\ \A u \in Tokens : u \notin {t, c} => row'[u] = row[u]
      BY <1>3, CommitRows
    <2> HIDE DEF t, c
    <2>2. row'[t].used /\ row'[c].family = req[q].family /\ row'[c].parent = t
      BY <2>1, FieldsOfNewRow DEF Exists, IInv, TypeOK, Row
    <2>3. Exists' \subseteq Exists \union {c}
      BY <2>1 DEF Exists
    <2>4. \A u \in Exists : row'[u].parent # t
      BY <1>0, <2>1, NoTokenAssumption DEF Kept, IInv, RowsMatch, Live, Exists
    <2>5. known' \subseteq Exists'
      BY <1>0, <1>3 DEF Commit, IInv, RowsMatch
    <2> QED
      BY <1>0, <1>1, <2>1, <2>2, <2>3, <2>4, <2>5
  <1>4. ASSUME Exists' \subseteq Exists, known' \subseteq Exists
        PROVE  RowsMatch' /\ OneChildPerToken'
    BY <1>0, <1>1, <1>4
  <1>5. ASSUME NEW t \in Exists, row' = [row EXCEPT ![t].expired = TRUE], known' = known
        PROVE  RowsMatch' /\ OneChildPerToken'
    <2>1. Exists' \subseteq Exists
      BY <1>5 DEF Exists, IInv, TypeOK, Row
    <2> QED
      BY <1>4, <1>5, <2>1 DEF IInv, RowsMatch
  <1>6. ASSUME NEW q \in Requests, RevokeFamily(q) \/ RevokeConsent(q)
        PROVE  RowsMatch' /\ OneChildPerToken'
    <2>1. row' = Revoked(req[q].snapshot) /\ known' = known
      BY <1>6 DEF RevokeFamily, RevokeConsent
    <2>2. Exists' \subseteq Exists
      BY <2>1, RevokedRows DEF Exists, IInv
    <2> QED
      BY <1>4, <2>1, <2>2 DEF IInv, RowsMatch
  <1>7. CASE row' = row
    <2>1. Exists' = Exists
      BY <1>7 DEF Exists
    <2>2. known' \subseteq Exists
      <3>1. ASSUME NEW t \in Tokens, Issue(t) PROVE t \in Exists
        <4>1. row'[t] = NewRow(t, NoToken)
          BY <3>1 DEF Issue, IInv, TypeOK
        <4> QED
          BY <1>7, <4>1, FieldsOfNewRow DEF Exists
      <3>2. ASSUME NEW q \in Requests, Mint(q) PROVE known' \subseteq Exists
        BY <3>2 DEF Mint, IInv, RowsMatch, RequestsMatch
      <3>3. \/ known' = known
            \/ \E t \in Tokens : Issue(t) /\ known' = known \union {t}
            \/ \E q \in Requests : Mint(q)
        BY DEF Next, vars, Issue, Expire, Approve, Step, Resolve, ResolveReused, Insert,
               RevokeToken, Refuse, Claim, ClaimLost, Rollback, Commit, MintFails, RevokeStart,
               RevokeFamily, RevokeFails, ConsentStart, ConsentSweep, RevokeConsent
      <3> QED
        BY <3>1, <3>2, <3>3 DEF IInv, RowsMatch
    <2> QED
      BY <1>4, <2>1, <2>2
  <1> QED
    BY <1>2, <1>3, <1>5, <1>6, <1>7, RowCases

LEMMA LiveNext == IInv /\ [Next]_vars => OneLiveTokenPerFamily'
  <1> SUFFICES ASSUME IInv, [Next]_vars PROVE OneLiveTokenPerFamily'
    OBVIOUS
  <1>0. \A t \in Exists : Kept(t)
    BY RowsKept
  \* It is enough that no second token becomes live.
  <1>1. ASSUME NEW f, NEW c,
               \A t \in Tokens : Live(t)' =>
                  \/ Live(t) /\ row'[t].family = row[t].family /\ row[t].family # f
                  \/ t = c /\ row'[t].family = f
        PROVE  OneLiveTokenPerFamily'
    BY <1>1 DEF IInv, OneLiveTokenPerFamily
  <1>2. ASSUME \A t \in Tokens : Live(t)' => Live(t)
        PROVE  OneLiveTokenPerFamily'
    <2>1. \A t \in Tokens : Live(t)' => row'[t].family = row[t].family
      BY <1>0, <1>2 DEF Live, Kept, Exists
    <2> QED
      BY <1>2, <2>1 DEF IInv, OneLiveTokenPerFamily
  <1>3. ASSUME NEW t \in Tokens, NewRoot(t) PROVE OneLiveTokenPerFamily'
    <2>1. /\ row'[t].family = t /\ t \notin Exists
          /\ \A u \in Tokens : u # t => row'[u] = row[u]
      BY <1>3, FieldsOfNewRow DEF NewRoot, Fresh, IInv, TypeOK
    <2>2. \A u \in Exists : row[u].family # t
      BY <2>1 DEF IInv, RowsMatch
    <2> QED
      BY <1>1, <2>1, <2>2 DEF Live, Exists
  <1>4. ASSUME NEW q \in Requests, Commit(q) PROVE OneLiveTokenPerFamily'
    <2> DEFINE t == req[q].token
               c == req[q].child
               f == req[q].family
    <2>1. /\ t \in Exists /\ Live(t) /\ row[t].family = f
          /\ c \in Tokens \ Exists
          /\ row'[c] = NewRow(f, t)
          /\ row'[t] = [row[t] EXCEPT !.used = TRUE]
          /\ \A u \in Tokens : u \notin {t, c} => row'[u] = row[u]
      BY <1>4, CommitRows
    <2> HIDE DEF t, c, f
    <2>2. row'[t].used /\ row'[c].family = f /\ t \in Tokens
      BY <2>1, FieldsOfNewRow DEF Exists, IInv, TypeOK, Row
    <2>3. \A u \in Tokens : (Live(u) /\ u # t) => row[u].family # f
      BY <2>1, <2>2 DEF IInv, OneLiveTokenPerFamily
    <2>4. \A u \in Tokens : Live(u)' =>
             \/ Live(u) /\ row'[u].family = row[u].family /\ row[u].family # f
             \/ u = c /\ row'[u].family = f
      BY <2>1, <2>2, <2>3 DEF Live
    <2> QED
      BY <2>4 DEF IInv, OneLiveTokenPerFamily
  <1>5. ASSUME NEW t \in Exists, row' = [row EXCEPT ![t].expired = TRUE]
        PROVE  OneLiveTokenPerFamily'
    <2>1. \A u \in Tokens : Live(u)' => Live(u)
      BY <1>5 DEF Live, IInv, TypeOK, Row
    <2> QED
      BY <1>2, <2>1
  <1>6. ASSUME NEW q \in Requests, RevokeFamily(q) \/ RevokeConsent(q)
        PROVE  OneLiveTokenPerFamily'
    <2>1. row' = Revoked(req[q].snapshot)
      BY <1>6 DEF RevokeFamily, RevokeConsent
    <2>2. \A u \in Tokens : Live(u)' => Live(u)
      BY <2>1, RevokedRows DEF Live, IInv
    <2> QED
      BY <1>2, <2>2
  <1>7. CASE row' = row
    BY <1>2, <1>7 DEF Live
  <1> QED
    BY <1>3, <1>4, <1>5, <1>6, <1>7, RowCases

-----------------------------------------------------------------------------
(* The request invariants.                                                 *)

Match(q) ==
    /\ req[q].pc \in {"resolved", "claimed", "inserted", "committed",
                      "revoking", "updating"} => req[q].family \in Exists
    /\ req[q].pc \in {"resolved", "claimed", "inserted"} =>
          req[q].token \in Exists /\ row[req[q].token].family = req[q].family
    /\ Open(q) => Live(req[q].token)
    /\ req[q].pc = "inserted" => req[q].child \in Tokens \ Exists
    /\ req[q].pc = "committed" => req[q].child \in Exists

\* While a transaction holds its row nobody changes it, and nobody inserts
\* the id it has drawn.
LEMMA HeldRows ==
    ASSUME IInv, [Next]_vars, NEW p \in Requests, Open(p), Open(p)', NEW t \in Tokens
    PROVE  /\ t = req[p].token => Live(t)'
           /\ (req[p].pc = "inserted" /\ t = req[p].child) => t \notin Exists'
  <1>0. /\ t = req[p].token => Live(t) /\ t \in Exists
        /\ (req[p].pc = "inserted" /\ t = req[p].child) => t \notin Exists
    BY DEF IInv, RequestsMatch, Open, Live, Exists
  <1>1. CASE row' = row
    BY <1>0, <1>1 DEF Live, Exists
  <1>2. ASSUME NEW u \in Tokens, NewRoot(u)
        PROVE  /\ t = req[p].token => Live(t)'
               /\ (req[p].pc = "inserted" /\ t = req[p].child) => t \notin Exists'
    <2>1. /\ u \notin Exists /\ (req[p].pc = "inserted" => u # req[p].child)
          /\ \A v \in Tokens : v # u => row'[v] = row[v]
      BY <1>2 DEF NewRoot, Fresh, Pending, IInv, TypeOK
    <2> QED
      BY <1>0, <2>1 DEF Live, Exists
  <1>3. ASSUME NEW u \in Exists, row' = [row EXCEPT ![u].expired = TRUE]
        PROVE  /\ t = req[p].token => Live(t)'
               /\ (req[p].pc = "inserted" /\ t = req[p].child) => t \notin Exists'
    <2>1. /\ row'[t].exists = row[t].exists /\ row'[t].used = row[t].used
          /\ row'[t].revoked = row[t].revoked
      BY <1>3 DEF IInv, TypeOK, Row
    <2> QED
      BY <1>0, <2>1 DEF Live, Exists
  <1>4. ASSUME NEW q \in Requests, Commit(q)
        PROVE  /\ t = req[p].token => Live(t)'
               /\ (req[p].pc = "inserted" /\ t = req[p].child) => t \notin Exists'
    <2>1. p # q
      BY <1>4 DEF Commit, Open, IInv, TypeOK, Request
    <2>2. req[q].pc = "inserted"
      BY <1>4 DEF Commit
    <2>3. /\ t = req[p].token => t # req[q].token
          /\ (req[p].pc = "inserted" /\ t = req[p].child) => t # req[q].child
      BY <2>1, <2>2 DEF IInv, Exclusive, Open
    <2>4. /\ req[q].token \in Exists /\ req[q].child \in Tokens \ Exists
          /\ \A v \in Tokens : v \notin {req[q].token, req[q].child} => row'[v] = row[v]
      BY <1>4, CommitRows
    <2> QED
      BY <1>0, <2>3, <2>4 DEF Live, Exists
  <1>5. ASSUME NEW q \in Requests, RevokeFamily(q) \/ RevokeConsent(q)
        PROVE  /\ t = req[p].token => Live(t)'
               /\ (req[p].pc = "inserted" /\ t = req[p].child) => t \notin Exists'
    <2>1. /\ row' = Revoked(req[q].snapshot)
          /\ t = req[p].token => t \notin req[q].snapshot
      BY <1>5 DEF RevokeFamily, RevokeConsent, Locked, Open
    <2>2. /\ row'[t].exists = row[t].exists /\ row'[t].used = row[t].used
          /\ row'[t].revoked = (row[t].revoked \/ t \in req[q].snapshot)
      BY <2>1, RevokedRows DEF IInv
    <2> QED
      BY <1>0, <2>1, <2>2 DEF Live, Exists
  <1> QED
    BY <1>1, <1>2, <1>3, <1>4, <1>5, RowCases

\* A call the step leaves alone still matches the rows.
LEMMA SameCallMatches ==
    ASSUME IInv, [Next]_vars, NEW p \in Requests,
           req'[p].pc = req[p].pc, req'[p].token = req[p].token,
           req'[p].child = req[p].child, req'[p].family = req[p].family
    PROVE  Match(p)'
  <1>1. Match(p) /\ Exists \subseteq Tokens
    BY DEF IInv, RequestsMatch, Match, Exists
  <1>2. \A t \in Exists : t \in Exists' /\ row'[t].family = row[t].family
    BY RowsKept DEF Kept, Exists
  <1>3. CASE Open(p)
    <2>1. Open(p)' /\ req[p].pc \in {"claimed", "inserted"}
      BY <1>3 DEF Open
    <2>2. \A t \in Tokens :
             /\ t = req[p].token => Live(t)'
             /\ (req[p].pc = "inserted" /\ t = req[p].child) => t \notin Exists'
      BY <1>3, <2>1, HeldRows
    <2> QED
      BY <1>1, <1>2, <2>1, <2>2 DEF Match, Open, Live
  <1>4. CASE ~Open(p)
    BY <1>1, <1>2, <1>4 DEF Match, Open
  <1> QED
    BY <1>3, <1>4

LEMMA RequestsNext == IInv /\ [Next]_vars => RequestsMatch' /\ Exclusive'
  <1> SUFFICES ASSUME IInv, [Next]_vars PROVE RequestsMatch' /\ Exclusive'
    OBVIOUS
  <1> DEFINE Same(p) == /\ req'[p].pc = req[p].pc /\ req'[p].token = req[p].token
                        /\ req'[p].child = req[p].child /\ req'[p].family = req[p].family
  <1>0. /\ \A q \in Requests : Match(q)
        /\ req \in [Requests -> Request] /\ Exists \subseteq Tokens
    BY DEF IInv, RequestsMatch, Match, TypeOK, Exists
  <1>1. ASSUME \A p \in Requests : Same(p) PROVE RequestsMatch' /\ Exclusive'
    <2>1. RequestsMatch'
      BY <1>1, SameCallMatches DEF RequestsMatch, Match
    <2>2. Exclusive'
      BY <1>1 DEF IInv, Exclusive, Open
    <2> QED
      BY <2>1, <2>2
  \* One call moves: it matches, and it opens or inserts nothing another has.
  <1>2. ASSUME NEW q \in Requests, Match(q)',
               \A p \in Requests : p # q => Same(p),
               Open(q)' => \/ Open(q) /\ req'[q].token = req[q].token
                           \/ \A p \in Requests : Open(p) => req[p].token # req'[q].token,
               req'[q].pc = "inserted" =>
                  \A p \in Requests : req[p].pc = "inserted" => req[p].child # req'[q].child
        PROVE  RequestsMatch' /\ Exclusive'
    <2>1. RequestsMatch'
      BY <1>2, SameCallMatches DEF RequestsMatch, Match
    <2>2. Exclusive'
      BY <1>2 DEF IInv, Exclusive, Open
    <2> QED
      BY <2>1, <2>2
  <1>3. ASSUME NEW q \in Requests, Step(q) PROVE RequestsMatch' /\ Exclusive'
    <2>0. Match(q) /\ req[q] \in Request
      BY <1>0
    <2>1. ASSUME NEW t \in Tokens, Resolve(q, t) \/ ResolveReused(q, t)
          PROVE  RequestsMatch' /\ Exclusive'
      <3>1. /\ req'[q].pc \in {"resolved", "revoking"} /\ req'[q].token = t
            /\ req'[q].family = row[t].family /\ row' = row /\ t \in known
            /\ \A p \in Requests : p # q => req'[p] = req[p]
        <4>1. CASE Resolve(q, t)
          <5>1. req'[q] = [Idle EXCEPT !.pc = "resolved", !.token = t,
                                       !.family = row[t].family]
            BY <1>0, <4>1 DEF Resolve
          <5> QED
            BY <1>0, <4>1, <5>1 DEF Resolve, Idle
        <4>2. CASE ResolveReused(q, t)
          <5>1. req'[q] = [Idle EXCEPT !.pc = "revoking", !.token = t,
                                       !.family = row[t].family]
            BY <1>0, <4>2 DEF ResolveReused
          <5> QED
            BY <1>0, <4>2, <5>1 DEF ResolveReused, Idle
        <4> QED
          BY <2>1, <4>1, <4>2
      <3>2. t \in Exists /\ row[t].family \in Exists
        BY <3>1 DEF IInv, RowsMatch
      <3>3. Match(q)'
        BY <3>1, <3>2 DEF Match, Open, Exists
      <3> QED
        BY <1>2, <3>1, <3>3 DEF Open
    <2>2. ASSUME NEW t \in Tokens, Insert(q, t) PROVE RequestsMatch' /\ Exclusive'
      <3>1. /\ req[q].pc = "claimed" /\ t \in Fresh /\ row' = row
            /\ req'[q].pc = "inserted" /\ req'[q].child = t
            /\ req'[q].token = req[q].token /\ req'[q].family = req[q].family
            /\ \A p \in Requests : p # q => req'[p] = req[p]
        BY <1>0, <2>0, <2>2 DEF Insert, Request
      <3>2. /\ t \notin Exists
            /\ \A p \in Requests : req[p].pc = "inserted" => req[p].child # t
        BY <3>1 DEF Fresh, Pending
      <3>3. Match(q)'
        BY <2>0, <3>1, <3>2 DEF Match, Open, Live, Exists
      <3> QED
        BY <1>2, <3>1, <3>2, <3>3 DEF Open
    <2>3. ASSUME req' = [req EXCEPT ![q] = Idle] PROVE RequestsMatch' /\ Exclusive'
      <3>1. req'[q].pc = "idle" /\ \A p \in Requests : p # q => req'[p] = req[p]
        BY <1>0, <2>3 DEF Idle
      <3>2. Match(q)'
        BY <3>1 DEF Match, Open
      <3> QED
        BY <1>2, <3>1, <3>2 DEF Open
    <2>4. CASE Claim(q)
      <3>1. /\ req[q].pc = "resolved" /\ Live(req[q].token) /\ ~Locked(req[q].token)
            /\ row' = row /\ req' = Claimed(q)
        BY <2>4 DEF Claim
      <3>2. /\ req'[q].pc = "claimed" /\ req'[q].token = req[q].token
            /\ req'[q].family = req[q].family
        BY <2>0, <3>1 DEF Claimed, Request
      <3>3. \A p \in Requests : p # q => Same(p)
        <4> SUFFICES ASSUME NEW p \in Requests, p # q PROVE Same(p)
          OBVIOUS
        <4>1. req'[p] = [req[p] EXCEPT !.alone = @ /\ req[p].family # req[q].family]
          BY <3>1 DEF Claimed
        <4>2. req[p] \in Request
          BY <1>0
        <4> QED
          BY <4>1, <4>2 DEF Request
      <3>4. Match(q)'
        BY <2>0, <3>1, <3>2 DEF Match, Open, Live, Exists
      <3>5. \A p \in Requests : Open(p) => req[p].token # req[q].token
        BY <3>1 DEF Locked, Open
      <3> QED
        BY <1>2, <3>2, <3>3, <3>4, <3>5
    <2>5. CASE RevokeToken(q) \/ ClaimLost(q) \/ RevokeStart(q) \/ ConsentStart(q) \/ ConsentSweep(q)
      <3>1. /\ req'[q].pc \in {"revoking", "updating", "consent", "sweeping"}
            /\ req'[q].pc \in {"revoking", "updating"} =>
                  /\ req[q].pc \in {"resolved", "revoking"}
                  /\ req'[q].family = req[q].family
            /\ row' = row
            /\ \A p \in Requests : p # q => req'[p] = req[p]
        <4>1. CASE RevokeToken(q) \/ ClaimLost(q)
          BY <1>0, <2>0, <4>1 DEF RevokeToken, ClaimLost, Request
        <4>2. CASE RevokeStart(q)
          BY <1>0, <2>0, <4>2 DEF RevokeStart, Request
        <4>3. CASE ConsentStart(q)
          BY <1>0, <2>0, <4>3 DEF ConsentStart, Request
        <4>4. CASE ConsentSweep(q)
          BY <1>0, <2>0, <4>4 DEF ConsentSweep, Request
        <4> QED
          BY <2>5, <4>1, <4>2, <4>3, <4>4
      <3>2. Match(q)'
        BY <2>0, <3>1 DEF Match, Open, Exists
      <3> QED
        BY <1>2, <3>1, <3>2 DEF Open
    <2>6. CASE Commit(q)
      <3>1. /\ req'[q].pc = "committed" /\ req'[q].child = req[q].child
            /\ req'[q].family = req[q].family
            /\ \A p \in Requests : p # q => req'[p] = req[p]
        BY <1>0, <2>0, <2>6 DEF Commit, Request
      <3>2. /\ req[q].family \in Exists /\ req[q].child \in Tokens
            /\ row'[req[q].child].exists
        <4>1. /\ req[q].family \in Exists /\ req[q].child \in Tokens
              /\ row'[req[q].child] = NewRow(req[q].family, req[q].token)
          BY <2>6, CommitRows
        <4> QED
          BY <4>1, FieldsOfNewRow
      <3>3. req[q].family \in Exists' /\ req[q].child \in Exists'
        BY <3>2, RowsKept DEF Kept, Exists
      <3>4. Match(q)'
        BY <3>1, <3>3 DEF Match, Open
      <3> QED
        BY <1>2, <3>1, <3>4 DEF Open
    <2>7. \/ \E t \in Tokens : Resolve(q, t) \/ ResolveReused(q, t)
          \/ \E t \in Tokens : Insert(q, t)
          \/ req' = [req EXCEPT ![q] = Idle]
          \/ Claim(q)
          \/ RevokeToken(q) \/ ClaimLost(q) \/ RevokeStart(q) \/ ConsentStart(q) \/ ConsentSweep(q)
          \/ Commit(q)
      BY <1>3 DEF Step, Refuse, Rollback, Mint, MintFails, RevokeFamily, RevokeFails,
                  RevokeConsent
    <2> QED
      BY <2>1, <2>2, <2>3, <2>4, <2>5, <2>6, <2>7
  <1>4. ASSUME req' = req PROVE RequestsMatch' /\ Exclusive'
    BY <1>1, <1>4
  <1> QED
    BY <1>3, <1>4 DEF Next, Issue, Expire, Approve, vars

LEMMA IInvInit == Init => IInv
  <1> SUFFICES ASSUME Init PROVE IInv
    OBVIOUS
  <1>1. Exists = {} /\ known = {}
    BY DEF Init, Exists, Absent
  <1>2. \A q \in Requests : req[q].pc = "idle"
    BY DEF Init, Idle
  <1>3. \A t \in Tokens : ~Live(t)
    BY <1>1 DEF Live, Exists
  <1> QED
    BY <1>1, <1>2, <1>3, TypeInit
    DEF IInv, RowsMatch, RequestsMatch, Exclusive, Open, OneLiveTokenPerFamily,
        OneChildPerToken

LEMMA IInvNext == IInv /\ [Next]_vars => IInv'
  BY TypeNext, RowsNext, LiveNext, RequestsNext DEF IInv

LEMMA IInvHolds == Spec => []IInv
  BY IInvInit, IInvNext, PTL DEF Spec

-----------------------------------------------------------------------------
\* Rows, calls and the tokens clients hold keep their types.
THEOREM RefreshTypeOK == Spec => []TypeOK
  <1>1. IInv => TypeOK
    BY DEF IInv
  <1> QED
    BY <1>1, IInvHolds, PTL

\* However many refreshes, replays and revocations run at once, a rotation
\* family never has two tokens that can still be rotated (rotateRefreshToken).
THEOREM RefreshOneLiveToken == Spec => []OneLiveTokenPerFamily
  <1>1. IInv => OneLiveTokenPerFamily
    BY DEF IInv
  <1> QED
    BY <1>1, IInvHolds, PTL

\* No refresh token is exchanged twice.
THEOREM RefreshOneChild == Spec => []OneChildPerToken
  <1>1. IInv => OneChildPerToken
    BY DEF IInv
  <1> QED
    BY <1>1, IInvHolds, PTL

\* A token revoked in the table is never rotated afterwards.
THEOREM RefreshRevokedNeverRotates == Spec => RevokedNeverRotates
  <1>1. IInv /\ [Next]_vars =>
          [\A t \in Tokens : row[t].revoked =>
              {u \in Exists : row[u].parent = t}' = {u \in Exists : row[u].parent = t}]_vars
    <2> SUFFICES ASSUME IInv, [Next]_vars, NEW t \in Tokens, row[t].revoked
                 PROVE  {u \in Exists : row[u].parent = t}' = {u \in Exists : row[u].parent = t}
      OBVIOUS
    <2>1. \A u \in Exists : u \in Exists' /\ row'[u].parent = row[u].parent
      BY RowsKept DEF Kept, Exists
    <2>2. \A u \in Exists' : u \notin Exists => row'[u].parent # t
      <3>1. ASSUME NEW v \in Tokens, NewRoot(v)
            PROVE  \A u \in Exists' : u \notin Exists => row'[u].parent # t
        BY <3>1, FieldsOfNewRow, NoTokenAssumption DEF NewRoot, IInv, TypeOK, Exists
      <3>2. ASSUME NEW q \in Requests, Commit(q)
            PROVE  \A u \in Exists' : u \notin Exists => row'[u].parent # t
        <4>3. /\ req[q].child \in Tokens /\ Live(req[q].token)
              /\ row'[req[q].child] = NewRow(req[q].family, req[q].token)
          BY <3>2, CommitRows
        <4>1. /\ req[q].token # t
              /\ row'[req[q].child].parent = req[q].token
          BY <4>3, FieldsOfNewRow DEF Live
        <4>2. \A u \in Exists' : u \notin Exists => u = req[q].child
          BY <3>2, CommitRows DEF Exists
        <4> QED
          BY <4>1, <4>2
      <3>3. ASSUME NEW u \in Exists, row' = [row EXCEPT ![u].expired = TRUE]
            PROVE  Exists' \subseteq Exists
        BY <3>3 DEF Exists, IInv, TypeOK, Row
      <3>4. ASSUME NEW q \in Requests, RevokeFamily(q) \/ RevokeConsent(q)
            PROVE  Exists' \subseteq Exists
        BY <3>4, RevokedRows DEF RevokeFamily, RevokeConsent, Exists, IInv
      <3>5. row' = row => Exists' \subseteq Exists
        BY DEF Exists
      <3> QED
        BY <3>1, <3>2, <3>3, <3>4, <3>5, RowCases
    <2> QED
      BY <2>1, <2>2
  <1> QED
    BY <1>1, IInvHolds, PTL DEF Spec, RevokedNeverRotates

-----------------------------------------------------------------------------
(***************************************************************************)
(* What a quiet revocation leaves.  The UPDATE that no rotation of the     *)
(* family overlaps has every live row of the family in its snapshot: a row *)
(* comes to a family by a rotation alone, and that one would be open now.  *)
(***************************************************************************)
QuietMatch ==
    /\ quiet \subseteq Exists
    /\ QuietRevocationHolds

AloneMatches(q) ==
    req[q].pc = "updating" /\ req[q].alone =>
       /\ ~Rotating(req[q].family)
       /\ \A t \in Tokens :
             Live(t) /\ row[t].family = req[q].family => t \in req[q].snapshot

QuietIInv ==
    /\ IInv
    /\ QuietMatch
    /\ \A q \in Requests : AloneMatches(q)

\* Where a live row comes from: it was live, it begins a family, or a
\* rotation of its family has committed it.
LEMMA LiveOrigins ==
    ASSUME IInv, [Next]_vars, NEW t \in Tokens, Live(t)'
    PROVE  \/ Live(t) /\ row'[t].family = row[t].family
           \/ row'[t].family \notin Exists
           \/ \E q \in Requests : Open(q) /\ req[q].family = row'[t].family
  <1>1. CASE row' = row
    BY <1>1 DEF Live
  <1>2. ASSUME NEW u \in Tokens, NewRoot(u)
        PROVE  \/ Live(t) /\ row'[t].family = row[t].family
               \/ row'[t].family \notin Exists
    <2>1. /\ row'[u] = NewRow(u, NoToken) /\ u \notin Exists
          /\ \A v \in Tokens : v # u => row'[v] = row[v]
      BY <1>2 DEF NewRoot, Fresh, IInv, TypeOK
    <2>2. row'[u].family = u
      BY <2>1, FieldsOfNewRow
    <2> QED
      BY <2>1, <2>2 DEF Live
  <1>3. ASSUME NEW u \in Exists, row' = [row EXCEPT ![u].expired = TRUE]
        PROVE  Live(t) /\ row'[t].family = row[t].family
    BY <1>3 DEF IInv, TypeOK, Row, Live
  <1>4. ASSUME NEW q \in Requests, Commit(q)
        PROVE  \/ Live(t) /\ row'[t].family = row[t].family
               \/ Open(q) /\ req[q].family = row'[t].family
    <2>1. /\ req[q].token \in Exists
          /\ row'[req[q].child] = NewRow(req[q].family, req[q].token)
          /\ row'[req[q].token] = [row[req[q].token] EXCEPT !.used = TRUE]
          /\ \A v \in Tokens : v \notin {req[q].token, req[q].child} => row'[v] = row[v]
      BY <1>4, CommitRows
    <2>2. CASE t = req[q].child
      BY <1>4, <2>1, <2>2, FieldsOfNewRow DEF Commit, Open
    <2>3. CASE t = req[q].token
      <3>1. row[t] \in Row
        BY DEF IInv, TypeOK
      <3>2. row'[t].used
        BY <2>1, <2>3, <3>1 DEF Row
      <3> QED
        BY <3>2 DEF Live
    <2>4. CASE t \notin {req[q].token, req[q].child}
      BY <2>1, <2>4 DEF Live
    <2> QED
      BY <2>2, <2>3, <2>4
  <1>5. ASSUME NEW q \in Requests, RevokeFamily(q) \/ RevokeConsent(q)
        PROVE  Live(t) /\ row'[t].family = row[t].family
    <2>1. row' = Revoked(req[q].snapshot)
      BY <1>5 DEF RevokeFamily, RevokeConsent
    <2> QED
      BY <2>1, RevokedRows DEF Live, IInv
  <1> QED
    BY <1>1, <1>2, <1>3, <1>4, <1>5, RowCases

\* A rotation of a family holds one of its live rows.
LEMMA RotatingHasLive ==
    ASSUME IInv, NEW q \in Requests, Open(q)
    PROVE  \E t \in Tokens : Live(t) /\ row[t].family = req[q].family
  BY DEF IInv, RequestsMatch, Open, Exists

\* How the calls move, as far as rotations and family UPDATEs go.
LEMMA CallOrigins ==
    ASSUME IInv, [Next]_vars, NEW q \in Requests
    PROVE  /\ Open(q)' => req'[q].family = req[q].family /\ (Open(q) \/ Claim(q))
           /\ req'[q].pc = "updating" =>
                 \/ RevokeStart(q)
                 \/ /\ req[q].pc = "updating" /\ req'[q].family = req[q].family
                    /\ req'[q].snapshot = req[q].snapshot
                    /\ req'[q].alone =>
                          /\ req[q].alone
                          /\ \A p \in Requests : Claim(p) => req[p].family # req[q].family
  <1> DEFINE Goal == /\ Open(q)' => req'[q].family = req[q].family /\ (Open(q) \/ Claim(q))
                     /\ req'[q].pc = "updating" =>
                           \/ RevokeStart(q)
                           \/ /\ req[q].pc = "updating" /\ req'[q].family = req[q].family
                              /\ req'[q].snapshot = req[q].snapshot
                              /\ req'[q].alone =>
                                    /\ req[q].alone
                                    /\ \A p \in Requests : Claim(p) => req[p].family # req[q].family
  <1>1. req \in [Requests -> Request] /\ req[q] \in Request
    BY DEF IInv, TypeOK
  \* Only Claim has the others' alone in hand.
  <1>2. ASSUME NEW p \in Requests, Claim(p) PROVE Goal
    <2>1. req' = Claimed(p) /\ req[p].pc = "resolved"
      BY <1>2 DEF Claim
    <2>2. CASE q = p
      <3>1. req'[q] = [req[q] EXCEPT !.pc = "claimed"]
        BY <2>1, <2>2 DEF Claimed
      <3> QED
        BY <1>1, <1>2, <2>2, <3>1 DEF Request, Open
    <2>3. CASE q # p
      <3>1. req'[q] = [req[q] EXCEPT !.alone = @ /\ req[q].family # req[p].family]
        BY <2>1, <2>3 DEF Claimed
      <3>2. /\ req'[q].pc = req[q].pc /\ req'[q].family = req[q].family
            /\ req'[q].snapshot = req[q].snapshot
            /\ req'[q].alone = (req[q].alone /\ req[q].family # req[p].family)
        BY <1>1, <3>1 DEF Request
      <3>3. ASSUME NEW r \in Requests, Claim(r), r # p PROVE FALSE
        <4>1. req'[r] = [req[r] EXCEPT !.alone = @ /\ req[r].family # req[p].family]
          BY <2>1, <3>3 DEF Claimed
        <4>2. req' = Claimed(r) /\ req[r].pc = "resolved"
          BY <3>3 DEF Claim
        <4>3. req'[r] = [req[r] EXCEPT !.pc = "claimed"]
          BY <4>2 DEF Claimed
        <4>4. req[r] \in Request
          BY <1>1
        <4> QED
          BY <4>1, <4>2, <4>3, <4>4 DEF Request
      <3> QED
        BY <3>2, <3>3 DEF Open
    <2> QED
      BY <2>2, <2>3
  <1>3. ASSUME req'[q] = req[q], \A p \in Requests : ~Claim(p) PROVE Goal
    BY <1>3 DEF Open
  <1>4. ASSUME NEW p \in Requests, Step(p), \A r \in Requests : ~Claim(r), q # p PROVE Goal
    <2>1. req'[q] = req[q]
      BY <1>1, <1>4 DEF Step, Resolve, ResolveReused, RevokeToken, Insert, Refuse, ClaimLost, Rollback,
                        Commit, Mint, MintFails, RevokeStart, RevokeFamily, RevokeFails,
                        ConsentStart, ConsentSweep, RevokeConsent
    <2> QED
      BY <1>3, <1>4, <2>1
  <1>5. ASSUME Step(q), \A r \in Requests : ~Claim(r) PROVE Goal
    <2>1. CASE RevokeStart(q)
      <3>1. req'[q].pc = "updating"
        BY <1>1, <2>1 DEF RevokeStart, Request
      <3> QED
        BY <2>1, <3>1 DEF Open
    <2>2. CASE \E t \in Tokens : Insert(q, t)
      <3>1. PICK t \in Tokens : Insert(q, t)
        BY <2>2
      <3>2. req[q].pc = "claimed" /\ req'[q].pc = "inserted" /\ req'[q].family = req[q].family
        BY <1>1, <3>1 DEF Insert, Request
      <3> QED
        BY <3>2 DEF Open
    <2>3. CASE \/ \E t \in Tokens : Resolve(q, t) \/ ResolveReused(q, t)
               \/ RevokeToken(q) \/ ClaimLost(q) \/ Commit(q) \/ ConsentStart(q) \/ ConsentSweep(q)
      <3>1. req'[q].pc \notin {"claimed", "inserted", "updating"}
        <4>1. CASE \E t \in Tokens : Resolve(q, t) \/ ResolveReused(q, t)
          <5>1. PICK t \in Tokens : Resolve(q, t) \/ ResolveReused(q, t)
            BY <4>1
          <5>2. \/ req'[q] = [Idle EXCEPT !.pc = "resolved", !.token = t, !.family = row[t].family]
                \/ req'[q] = [Idle EXCEPT !.pc = "revoking", !.token = t, !.family = row[t].family]
            BY <1>1, <5>1 DEF Resolve, ResolveReused
          <5> QED
            BY <5>2 DEF Idle
        <4>2. CASE RevokeToken(q) \/ ClaimLost(q) \/ Commit(q) \/ ConsentStart(q) \/ ConsentSweep(q)
          BY <1>1, <4>2 DEF RevokeToken, ClaimLost, Commit, ConsentStart, ConsentSweep, Request
        <4> QED
          BY <2>3, <4>1, <4>2
      <3> QED
        BY <3>1 DEF Open
    <2>4. CASE req' = [req EXCEPT ![q] = Idle]
      BY <1>1, <2>4 DEF Open, Idle
    <2> QED
      BY <1>5, <2>1, <2>2, <2>3, <2>4 DEF Step, Refuse, Rollback, Mint, MintFails, RevokeFamily,
                                          RevokeFails, RevokeConsent
  <1>6. CASE \E p \in Requests : Claim(p)
    BY <1>2, <1>6
  <1>7. CASE \A p \in Requests : ~Claim(p)
    <2>1. CASE \E p \in Requests : Step(p)
      BY <1>4, <1>5, <1>7, <2>1
    <2>2. CASE req' = req
      BY <1>3, <1>7, <2>2
    <2> QED
      BY <2>1, <2>2 DEF Next, Issue, Expire, Approve, vars
  <1> QED
    BY <1>6, <1>7

LEMMA AloneNext ==
    ASSUME QuietIInv, [Next]_vars, NEW q \in Requests
    PROVE  AloneMatches(q)'
  <1> SUFFICES ASSUME req'[q].pc = "updating", req'[q].alone
               PROVE  /\ ~Rotating(req[q].family)'
                      /\ \A t \in Tokens :
                            Live(t)' /\ row'[t].family = req'[q].family => t \in req'[q].snapshot
    BY DEF AloneMatches
  <1>0. IInv /\ AloneMatches(q)
    BY DEF QuietIInv
  <1>1. CASE RevokeStart(q)
    <2>1. PICK s, a : /\ s = {t \in Exists : row[t].family = req[q].family /\ ~row[t].revoked}
                      /\ a = ~Rotating(req[q].family)
      OBVIOUS
    <2>2. req' = [req EXCEPT ![q].pc = "updating", ![q].snapshot = s, ![q].alone = a] /\ row' = row
      BY <1>1, <2>1 DEF RevokeStart
    <2>3. /\ req'[q].family = req[q].family /\ req'[q].snapshot = s /\ req'[q].alone = a
          /\ \A p \in Requests : p # q => req'[p] = req[p]
      BY <1>0, <2>2 DEF IInv, TypeOK, Request
    <2>4. ~Rotating(req[q].family)
      BY <2>1, <2>3
    <2>5. ~Rotating(req[q].family)'
      BY <2>3, <2>4 DEF Rotating
    <2>6. \A t \in Tokens :
             Live(t)' /\ row'[t].family = req'[q].family => t \in req'[q].snapshot
      BY <2>1, <2>2, <2>3 DEF Live, Exists
    <2> QED
      BY <2>5, <2>6
  <1>2. CASE ~RevokeStart(q)
    <2>1. /\ req[q].pc = "updating" /\ req'[q].family = req[q].family
          /\ req'[q].snapshot = req[q].snapshot /\ req[q].alone
          /\ \A p \in Requests : Claim(p) => req[p].family # req[q].family
      BY <1>0, <1>2, CallOrigins
    <2>2. PICK f : f = req[q].family /\ f = req'[q].family
      BY <2>1
    <2>3. /\ ~Rotating(f) /\ f \in Exists
          /\ \A t \in Tokens : Live(t) /\ row[t].family = f => t \in req[q].snapshot
      BY <1>0, <2>1, <2>2 DEF AloneMatches, IInv, RequestsMatch
    <2>4. ~Rotating(f)'
      <3>1. \A p \in Requests : Open(p)' => req'[p].family # f
        BY <1>0, <2>1, <2>2, <2>3, CallOrigins DEF Rotating, Open
      <3> QED
        BY <3>1 DEF Rotating, Open
    <2>5. \A t \in Tokens : Live(t)' /\ row'[t].family = f => t \in req[q].snapshot
      <3>1. SUFFICES ASSUME NEW t \in Tokens, Live(t)', row'[t].family = f
                     PROVE  t \in req[q].snapshot
        OBVIOUS
      <3>2. ~\E p \in Requests : Open(p) /\ req[p].family = f
        BY <2>3 DEF Rotating, Open
      <3> QED
        BY <1>0, <2>3, <3>1, <3>2, LiveOrigins
    <2> QED
      BY <2>1, <2>2, <2>4, <2>5
  <1> QED
    BY <1>1, <1>2

LEMMA QuietNext ==
    ASSUME QuietIInv, [Next]_vars
    PROVE  QuietMatch'
  <1>0. IInv /\ QuietMatch /\ \A q \in Requests : AloneMatches(q)
    BY DEF QuietIInv
  <1>1. Exists \subseteq Exists'
    BY <1>0, RowsKept DEF Kept, Exists
  \* The families that were quiet.
  <1>2. \A t \in Tokens : row'[t].family \in quiet => ~Live(t)'
    <2>1. SUFFICES ASSUME NEW t \in Tokens, row'[t].family \in quiet, Live(t)'
                   PROVE  FALSE
      OBVIOUS
    <2>2. PICK f : f = row'[t].family
      OBVIOUS
    <2>3. f \in Exists /\ \A u \in Tokens : Live(u) => row[u].family # f
      BY <1>0, <2>1, <2>2 DEF QuietMatch, QuietRevocationHolds
    <2>4. \A q \in Requests : Open(q) => req[q].family # f
      BY <1>0, <2>3, RotatingHasLive
    <2> QED
      BY <1>0, <2>1, <2>2, <2>3, <2>4, LiveOrigins
  <1>3. CASE quiet' = quiet
    BY <1>0, <1>1, <1>2, <1>3 DEF QuietMatch, QuietRevocationHolds
  <1>4. ASSUME NEW q \in Requests, RevokeFamily(q), req[q].alone, quiet' = quiet \union {req[q].family}
        PROVE  QuietMatch'
    <2>1. PICK f : f = req[q].family
      OBVIOUS
    <2>2. /\ req[q].pc = "updating" /\ row' = Revoked(req[q].snapshot) /\ f \in Exists
          /\ \A t \in Tokens : Live(t) /\ row[t].family = f => t \in req[q].snapshot
      BY <1>0, <1>4, <2>1 DEF RevokeFamily, AloneMatches, IInv, RequestsMatch
    <2>3. \A t \in Tokens : row'[t].family = f => ~Live(t)'
      <3>1. SUFFICES ASSUME NEW t \in Tokens, row'[t].family = f, Live(t)'
                     PROVE  FALSE
        OBVIOUS
      <3>2. /\ row'[t].exists = row[t].exists /\ row'[t].family = row[t].family
            /\ row'[t].used = row[t].used
            /\ row'[t].revoked = (row[t].revoked \/ t \in req[q].snapshot)
        BY <1>0, <2>2, RevokedRows DEF IInv
      <3> QED
        BY <2>2, <3>1, <3>2 DEF Live
    <2> QED
      BY <1>0, <1>1, <1>2, <1>4, <2>1, <2>2, <2>3 DEF QuietMatch, QuietRevocationHolds
  <1>5. \/ quiet' = quiet
        \/ \E q \in Requests : /\ RevokeFamily(q) /\ req[q].alone
                               /\ quiet' = quiet \union {req[q].family}
    <2>1. ASSUME NEW q \in Requests, Step(q)
          PROVE  \/ quiet' = quiet
                 \/ /\ RevokeFamily(q) /\ req[q].alone
                    /\ quiet' = quiet \union {req[q].family}
      BY <2>1 DEF Step, Resolve, ResolveReused, RevokeToken, Insert, Refuse, Claim, ClaimLost, Rollback,
                  Commit, Mint, MintFails, RevokeStart, RevokeFamily, RevokeFails, ConsentStart,
                  ConsentSweep, RevokeConsent
    <2> QED
      BY <2>1 DEF Next, Issue, Expire, Approve, vars
  <1> QED
    BY <1>3, <1>4, <1>5

\* A family revoked by an UPDATE that no rotation of it overlaps stays dead:
\* no later refresh, and none that had read a token before, revives it.
THEOREM RefreshQuietRevocation == Spec => []QuietRevocationHolds
  <1>1. Init => QuietIInv
    BY IInvInit DEF Init, QuietIInv, QuietMatch, QuietRevocationHolds, AloneMatches, Idle
  <1>2. QuietIInv /\ [Next]_vars => QuietIInv'
    BY IInvNext, QuietNext, AloneNext DEF QuietIInv
  <1>3. QuietIInv => QuietRevocationHolds
    BY DEF QuietIInv, QuietMatch
  <1> QED
    BY <1>1, <1>2, <1>3, PTL DEF Spec

-----------------------------------------------------------------------------
(* AuthorizationCode.                                                      *)

-----------------------------------------------------------------------------
(***************************************************************************)
(* The inductive invariant.  Before its tokens are minted an authorization *)
(* is in one place only: the key of its consent screen, the key of its     *)
(* code, or one call.  What is over at a revocation stays over.  A call    *)
(* that is about to write a grant belongs to the user who was asked, and,  *)
(* as long as no other write came in between, holds what the row will be.  *)
(***************************************************************************)
HeldAt == {"hasConsent", "createPending", "readGrant", "createGrant", "updateGrant",
           "createCode", "mint"}

Holders(a) == CallsAt(a, HeldAt)

CallMatches(c) ==
    /\ codeCall[c].pc # "idle" =>
          codeCall[c].auth \in Auths /\ asked[codeCall[c].auth].user # Nobody
    /\ codeCall[c].pc \in {"readGrant", "createGrant", "updateGrant"} =>
          asked[codeCall[c].auth].user = codeCall[c].by

OnePlace(a) ==
    /\ asked[a].user = Nobody => a \notin pending \union code /\ family[a].minted = 0
    /\ a \in pending => a \notin code
    /\ a \in pending \union code => Holders(a) = {}
    /\ a \in pending \union code \/ Holders(a) # {} => family[a].minted = 0
    /\ \A c, d \in Holders(a) : c = d

CutIsOver ==
    \A u \in CodeUsers : \A a \in consent[u].cut :
        /\ asked[a].user # Nobody
        /\ a \notin pending \union code
        /\ \A c \in CodeCalls : codeCall[c].pc # "idle" => codeCall[c].auth # a
        /\ family[a].state # "live"

MergesCurrent ==
    \A u \in CodeUsers : consent[u].serial =>
        \A c \in Upserting(u) :
            codeCall[c].merged = Granted(u) \union asked[codeCall[c].auth].scopes

CodeIInv ==
    /\ CodeTypeOK
    /\ \A c \in CodeCalls : CallMatches(c)
    /\ \A a \in Auths : OnePlace(a)
    /\ CutIsOver
    /\ MergesCurrent
    /\ GrantFollowsDecisions

-----------------------------------------------------------------------------
(* What the calls look like after a step of c.                             *)

OthersStay(c) == \A d \in CodeCalls : d # c => codeCall'[d] = codeCall[d]

LEMMA CodeIdleType == CallIdle \in CodeCall /\ CallIdle.pc = "idle"
  BY DEF CallIdle, CodeCall, Auth

LEMMA AfterReturn ==
    ASSUME CodeTypeOK, NEW c \in CodeCalls, CodeReturn(c)
    PROVE  /\ codeCall' \in [CodeCalls -> CodeCall]
           /\ OthersStay(c)
           /\ codeCall'[c].pc = "idle"
  BY CodeIdleType DEF CodeTypeOK, CodeReturn, OthersStay

LEMMA AfterGoto ==
    ASSUME CodeTypeOK, NEW c \in CodeCalls,
           NEW pc \in {"createPending", "readGrant", "createCode", "mint", "refresh"},
           CodeGoto(c, pc)
    PROVE  /\ codeCall' \in [CodeCalls -> CodeCall]
           /\ OthersStay(c)
           /\ codeCall'[c].pc = pc /\ codeCall'[c].auth = codeCall[c].auth
           /\ codeCall'[c].by = codeCall[c].by
  <1>1. codeCall[c] \in CodeCall
    BY DEF CodeTypeOK
  <1>2. [codeCall[c] EXCEPT !.pc = pc] \in CodeCall
    BY <1>1 DEF CodeCall
  <1>3. codeCall' = [codeCall EXCEPT ![c] = [codeCall[c] EXCEPT !.pc = pc]]
    BY DEF CodeGoto
  <1> HIDE DEF CodeGoto
  <1>4. codeCall'[c] = [codeCall[c] EXCEPT !.pc = pc]
    BY <1>3 DEF CodeTypeOK
  <1> QED
    BY <1>1, <1>2, <1>3, <1>4 DEF CodeTypeOK, OthersStay, CodeCall

\* A call that enters.
LEMMA AfterEnter ==
    ASSUME CodeTypeOK, NEW c \in CodeCalls, NEW a \in Auths, NEW u \in CodeUsers \union {Nobody},
           NEW pc \in {"hasConsent", "claimPending", "claimCode"},
           codeCall' = [codeCall EXCEPT ![c] =
                          [CallIdle EXCEPT !.pc = pc, !.auth = a, !.by = u]]
    PROVE  /\ codeCall' \in [CodeCalls -> CodeCall]
           /\ OthersStay(c)
           /\ codeCall'[c].pc = pc /\ codeCall'[c].auth = a
  <1>1. [CallIdle EXCEPT !.pc = pc, !.auth = a, !.by = u] \in CodeCall
    BY DEF CallIdle, CodeCall, Auth
  <1>2. codeCall'[c] = [CallIdle EXCEPT !.pc = pc, !.auth = a, !.by = u]
    BY DEF CodeTypeOK
  <1> QED
    BY <1>1, <1>2 DEF CodeTypeOK, OthersStay, CallIdle

\* Exchange sets no user.
LEMMA AfterExchange ==
    ASSUME CodeTypeOK, NEW c \in CodeCalls, NEW a \in Auths, Exchange(c, a)
    PROVE  /\ codeCall' \in [CodeCalls -> CodeCall]
           /\ OthersStay(c)
           /\ codeCall'[c].pc = "claimCode" /\ codeCall'[c].auth = a
  <1>1. [CallIdle EXCEPT !.pc = "claimCode", !.auth = a] \in CodeCall
    BY DEF CallIdle, CodeCall, Auth
  <1>2. codeCall'[c] = [CallIdle EXCEPT !.pc = "claimCode", !.auth = a]
    BY DEF CodeTypeOK, Exchange
  <1> QED
    BY <1>1, <1>2 DEF CodeTypeOK, OthersStay, CallIdle, Exchange

LEMMA AfterReadGrant ==
    ASSUME CodeTypeOK, NEW c \in CodeCalls, CallMatches(c), readGrant(c)
    PROVE  /\ codeCall' \in [CodeCalls -> CodeCall]
           /\ OthersStay(c)
           /\ codeCall'[c].pc \in {"createGrant", "updateGrant"}
           /\ codeCall'[c].auth = codeCall[c].auth /\ codeCall'[c].by = codeCall[c].by
           /\ codeCall'[c].merged =
                 Granted(codeCall[c].by) \union asked[codeCall[c].auth].scopes
  <1> DEFINE u  == codeCall[c].by
             a  == codeCall[c].auth
             pc == IF grants[u].state = "absent" THEN "createGrant" ELSE "updateGrant"
             ms == Granted(u) \union asked[a].scopes
  <1>1. codeCall[c] \in CodeCall
    BY DEF CodeTypeOK
  <1>2. a \in Auths /\ u \in CodeUsers
    BY <1>1 DEF readGrant, CallMatches, CodeTypeOK, Authorization, CodeCall
  <1>3. ms \in SUBSET Scopes
    BY <1>2 DEF CodeTypeOK, Granted, Grant, Authorization
  <1>4. pc \in {"createGrant", "updateGrant"}
    OBVIOUS
  <1>5. codeCall' = [codeCall EXCEPT ![c] = [codeCall[c] EXCEPT !.pc = pc, !.merged = ms]]
    BY DEF readGrant, Merged
  <1> HIDE DEF u, a, pc, ms
  <1>6. [codeCall[c] EXCEPT !.pc = pc, !.merged = ms] \in CodeCall
    BY <1>1, <1>3, <1>4 DEF CodeCall
  <1>7. codeCall'[c] = [codeCall[c] EXCEPT !.pc = pc, !.merged = ms]
    BY <1>5 DEF CodeTypeOK
  <1>8. /\ codeCall'[c].pc = pc /\ codeCall'[c].merged = ms
        /\ codeCall'[c].auth = codeCall[c].auth /\ codeCall'[c].by = codeCall[c].by
    BY <1>1, <1>7 DEF CodeCall
  <1> QED
    BY <1>4, <1>5, <1>6, <1>8 DEF CodeTypeOK, OthersStay, u, a, ms

-----------------------------------------------------------------------------
(* Types.                                                                  *)

\* Where a call that is under way is, and whom it is for.
LEMMA CallTypes ==
    ASSUME CodeIInv, NEW c \in CodeCalls
    PROVE  /\ codeCall[c].pc # "idle" =>
                 codeCall[c].auth \in Auths /\ asked[codeCall[c].auth].user \in CodeUsers
           /\ codeCall[c].pc \in {"readGrant", "createGrant", "updateGrant"} =>
                 /\ codeCall[c].by \in CodeUsers
                 /\ asked[codeCall[c].auth].user = codeCall[c].by
           /\ codeCall[c].merged \subseteq Scopes
  BY DEF CodeIInv, CallMatches, CodeTypeOK, Authorization, CodeCall

LEMMA CodeTypeInit == CodeInit => CodeTypeOK
  BY CodeIdleType DEF CodeInit, CodeTypeOK, Authorization, Grant, Consent, Family

LEMMA FamilyTypes ==
    ASSUME CodeTypeOK, NEW a \in Auths
    PROVE  /\ family[a] \in Family
           /\ [family[a] EXCEPT !.minted = 1] \in Family
           /\ \A s \in {"live", "revoked"} : [family[a] EXCEPT !.state = s] \in Family
  BY DEF CodeTypeOK, Family

LEMMA CallStepTypes ==
    ASSUME CodeIInv, NEW c \in CodeCalls, CodeStep(c)
    PROVE  CodeTypeOK'
  <1>0. CodeTypeOK /\ CallMatches(c)
    BY DEF CodeIInv
  <1>1. CASE hasConsent(c)
    <2>1. codeCall' \in [CodeCalls -> CodeCall]
      BY <1>0, <1>1, AfterGoto, AfterReturn DEF hasConsent
    <2> QED
      BY <1>0, <1>1, <2>1 DEF hasConsent, stores, CodeTypeOK
  <1>2. CASE requireConsent(c)
    <2>1. codeCall' \in [CodeCalls -> CodeCall]
      BY <1>0, <1>2, AfterReturn DEF requireConsent
    <2> QED
      BY <1>0, <1>2, <2>1, CallTypes DEF requireConsent, CodeTypeOK
  <1>3. CASE ClaimPending(c)
    <2>1. codeCall' \in [CodeCalls -> CodeCall]
      BY <1>0, <1>3, AfterGoto, AfterReturn DEF ClaimPending
    <2> QED
      BY <1>0, <1>3, <2>1 DEF ClaimPending, CodeTypeOK
  <1>4. CASE readGrant(c)
    <2>1. codeCall' \in [CodeCalls -> CodeCall]
      BY <1>0, <1>4, AfterReadGrant
    <2> QED
      BY <1>0, <1>4, <2>1 DEF readGrant, stores, CodeTypeOK
  <1>5. CASE writeGrant(c)
    <2> DEFINE u == codeCall[c].by
               a == codeCall[c].auth
               s == consent[u].since \union (IF asked[a].user = u THEN asked[a].scopes ELSE {})
               l == consent[u].serial /\ Upserting(u) = {c}
    <2>1. codeCall' \in [CodeCalls -> CodeCall]
      BY <1>0, <1>5, AfterGoto DEF writeGrant
    <2>2. u \in CodeUsers /\ a \in Auths /\ codeCall[c].merged \in SUBSET Scopes
      BY <1>5, CallTypes DEF writeGrant
    <2>3. grants' \in [CodeUsers -> Grant]
      BY <1>0, <1>5, <2>2 DEF writeGrant, CodeTypeOK, Grant
    <2>4. s \in SUBSET Scopes /\ l \in BOOLEAN
      BY <1>0, <2>2 DEF CodeTypeOK, Consent, Authorization
    <2>5. consent' = [consent EXCEPT ![u].since = s, ![u].serial = l]
      BY <1>5 DEF writeGrant
    <2>6. UNCHANGED <<asked, pending, code, family>>
      BY <1>5 DEF writeGrant, stores
    <2> HIDE DEF u, a, s, l
    <2>7. [consent[u] EXCEPT !.since = s, !.serial = l] \in Consent
      BY <1>0, <2>2, <2>4 DEF CodeTypeOK, Consent
    <2>8. consent' \in [CodeUsers -> Consent]
      BY <1>0, <2>5, <2>7 DEF CodeTypeOK
    <2> QED
      BY <1>0, <2>1, <2>3, <2>6, <2>8 DEF CodeTypeOK
  <1>6. CASE createCode(c)
    <2>1. codeCall' \in [CodeCalls -> CodeCall]
      BY <1>0, <1>6, AfterReturn DEF createCode
    <2> QED
      BY <1>0, <1>6, <2>1, CallTypes DEF createCode, CodeTypeOK
  <1>7. CASE ClaimCode(c)
    <2>1. codeCall' \in [CodeCalls -> CodeCall]
      BY <1>0, <1>7, AfterGoto, AfterReturn DEF ClaimCode
    <2> QED
      BY <1>0, <1>7, <2>1 DEF ClaimCode, CodeTypeOK
  <1>8. CASE mintTokens(c)
    <2> DEFINE a == codeCall[c].auth
    <2>1. codeCall' \in [CodeCalls -> CodeCall]
      BY <1>0, <1>8, AfterGoto, AfterReturn DEF mintTokens
    <2>2. a \in Auths /\ c \in Holders(a)
      BY <1>8, CallTypes DEF mintTokens, Holders, CallsAt, HeldAt
    <2>3. family[a].minted = 0
      BY <2>2 DEF CodeIInv, OnePlace
    <2>4. family' = [family EXCEPT ![a] = [family[a] EXCEPT !.minted = 1]]
      BY <1>8, <2>3 DEF mintTokens
    <2>5. family' \in [Auths -> Family]
      BY <1>0, <2>2, <2>4, FamilyTypes DEF CodeTypeOK
    <2> QED
      BY <1>0, <1>8, <2>1, <2>5 DEF mintTokens, CodeTypeOK
  <1>9. CASE issueRefreshToken(c)
    <2> DEFINE a == codeCall[c].auth
    <2>1. codeCall' \in [CodeCalls -> CodeCall]
      BY <1>0, <1>9, AfterReturn DEF issueRefreshToken
    <2>2. a \in Auths
      BY <1>9, CallTypes DEF issueRefreshToken
    <2>3. family' = [family EXCEPT ![a] = [family[a] EXCEPT !.state = "live"]]
      BY <1>9 DEF issueRefreshToken
    <2>4. family' \in [Auths -> Family]
      BY <1>0, <2>2, <2>3, FamilyTypes DEF CodeTypeOK
    <2> QED
      BY <1>0, <1>9, <2>1, <2>4 DEF issueRefreshToken, CodeTypeOK
  <1>10. CASE CodeCallFails(c)
    <2>1. codeCall' \in [CodeCalls -> CodeCall]
      BY <1>0, <1>10, AfterReturn DEF CodeCallFails
    <2> QED
      BY <1>0, <1>10, <2>1 DEF CodeCallFails, stores, CodeTypeOK
  <1> QED
    BY <1>1, <1>2, <1>3, <1>4, <1>5, <1>6, <1>7, <1>8, <1>9, <1>10 DEF CodeStep

LEMMA CodeTypeNext == CodeIInv /\ [CodeNext]_codeVars => CodeTypeOK'
  <1> SUFFICES ASSUME CodeIInv, [CodeNext]_codeVars PROVE CodeTypeOK'
    OBVIOUS
  <1>0. CodeTypeOK
    BY DEF CodeIInv
  <1>1. ASSUME NEW c \in CodeCalls, NEW a \in Auths, NEW u \in CodeUsers,
               NEW s \in SUBSET Scopes, Authorize(c, u, a, s)
        PROVE  CodeTypeOK'
    <2>1. codeCall' \in [CodeCalls -> CodeCall]
      BY <1>0, <1>1, AfterEnter DEF Authorize
    <2>2. asked' \in [Auths -> Authorization]
      BY <1>0, <1>1 DEF Authorize, CodeTypeOK, Authorization
    <2> QED
      BY <1>0, <1>1, <2>1, <2>2 DEF Authorize, stores, CodeTypeOK
  <1>2. ASSUME NEW c \in CodeCalls, NEW a \in Auths, NEW u \in CodeUsers,
               DecideConsent(c, u, a)
        PROVE  CodeTypeOK'
    <2>1. codeCall' \in [CodeCalls -> CodeCall]
      BY <1>0, <1>2, AfterEnter DEF DecideConsent
    <2> QED
      BY <1>0, <1>2, <2>1 DEF DecideConsent, stores, CodeTypeOK
  <1>3. ASSUME NEW c \in CodeCalls, NEW a \in Auths, Exchange(c, a)
        PROVE  CodeTypeOK'
    <2>1. codeCall' \in [CodeCalls -> CodeCall]
      BY <1>0, <1>3, AfterExchange
    <2> QED
      BY <1>0, <1>3, <2>1 DEF Exchange, stores, CodeTypeOK
  <1>4. ASSUME NEW u \in CodeUsers, WithdrawConsent(u) PROVE CodeTypeOK'
    <2>1. grants' \in [CodeUsers -> Grant]
      BY <1>0, <1>4 DEF WithdrawConsent, CodeTypeOK, Grant
    <2>2. family' \in [Auths -> Family]
      BY <1>0, <1>4, FamilyTypes DEF WithdrawConsent, FamiliesRevoked
    <2>3. consent' \in [CodeUsers -> Consent]
      <3> DEFINE l == Upserting(u) = {}
                 o == Over(u)
      <3>1. l \in BOOLEAN /\ o \in SUBSET Auths
        BY DEF Over
      <3>2. consent' = [consent EXCEPT ![u] =
                          [consent[u] EXCEPT !.since = {}, !.serial = l, !.cut = o]]
        BY <1>4 DEF WithdrawConsent
      <3> HIDE DEF l, o
      <3>3. [consent[u] EXCEPT !.since = {}, !.serial = l, !.cut = o] \in Consent
        BY <1>0, <3>1 DEF CodeTypeOK, Consent
      <3> QED
        BY <1>0, <3>2, <3>3 DEF CodeTypeOK
    <2> QED
      BY <1>0, <1>4, <2>1, <2>2, <2>3 DEF WithdrawConsent, CodeTypeOK
  <1>5. ASSUME NEW a \in Auths, KeyExpires(a) PROVE CodeTypeOK'
    BY <1>0, <1>5 DEF KeyExpires, CodeTypeOK
  <1>6. CASE UNCHANGED codeVars
    BY <1>0, <1>6 DEF codeVars, CodeTypeOK
  <1> QED
    BY <1>1, <1>2, <1>3, <1>4, <1>5, <1>6, CallStepTypes DEF CodeNext

-----------------------------------------------------------------------------
(***************************************************************************)
(* What a step of one call does to one authorization x, and that it leaves *)
(* the others alone.  Where x is moves in one of the ways of Effect.       *)
(***************************************************************************)
StepOn(c, x) ==
    /\ OthersStay(c)
    /\ \A a \in Auths : a # x =>
          /\ asked'[a] = asked[a] /\ family'[a] = family[a]
          /\ a \in pending' <=> a \in pending
          /\ a \in code' <=> a \in code
    /\ asked[x].user # Nobody => asked'[x] = asked[x]
    /\ codeCall[c].pc # "idle" => codeCall[c].auth = x
    /\ codeCall'[c].pc # "idle" => codeCall'[c].auth = x
    /\ \A u \in CodeUsers : consent'[u].cut = consent[u].cut

Unmoved(x) ==
    /\ x \in pending' <=> x \in pending
    /\ x \in code' <=> x \in code
    /\ family'[x].minted = family[x].minted

\* c starts the authorization x.
Enters(c, x) ==
    /\ asked[x].user = Nobody /\ asked'[x].user # Nobody
    /\ Unmoved(x)
    /\ codeCall'[c].pc = "hasConsent"

\* c is on x before and after, or neither.
Goes(c, x, from, to) ==
    /\ asked[x].user # Nobody
    /\ Unmoved(x)
    /\ codeCall[c].pc \in from /\ codeCall'[c].pc \in to

\* c leaves x in the key of its consent screen, or of its code.
Parks(c, x) ==
    /\ x \in pending' \/ x \in code'
    /\ x \in pending' => codeCall[c].pc = "createPending"
    /\ x \in code' => codeCall[c].pc = "createCode"
    /\ family'[x].minted = family[x].minted
    /\ codeCall'[c].pc = "idle"

\* c takes x from its key, to go on with it or to drop it.
Takes(c, x) ==
    /\ x \in pending \union code /\ x \notin pending' \union code'
    /\ family'[x].minted = family[x].minted
    /\ \/ codeCall'[c].pc = "idle"
       \/ x \in pending /\ codeCall'[c].pc = "readGrant"
       \/ x \in code /\ codeCall'[c].pc = "mint"

Pays(c, x) ==
    /\ codeCall[c].pc = "mint" /\ codeCall'[c].pc \in {"idle", "refresh"}
    /\ x \notin pending' \union code'
    /\ family'[x].minted = family[x].minted + 1

Off == {"idle", "claimPending", "claimCode", "refresh"}

Deciding == {"readGrant", "createGrant", "updateGrant", "createCode"}

Effect(c, x) ==
    \/ Enters(c, x)
    \/ Goes(c, x, Off, Off)
    \/ Goes(c, x, HeldAt, {"idle"})
    \/ Goes(c, x, {"hasConsent"}, {"createPending", "createCode"})
    \/ Goes(c, x, Deciding, Deciding)
    \/ Parks(c, x) \/ Takes(c, x) \/ Pays(c, x)

\* An authorization that is not over: unused, in a key or with a call.
Current(c, x) ==
    asked[x].user = Nobody \/ x \in pending \union code \/ codeCall[c].pc # "idle"

\* A call enters.
Enter(c, x) ==
    \/ \E u \in CodeUsers, s \in SUBSET Scopes : Authorize(c, u, x, s)
    \/ \E u \in CodeUsers : DecideConsent(c, u, x)
    \/ Exchange(c, x)

LEMMA EnterEffects ==
    ASSUME CodeIInv, NEW c \in CodeCalls, NEW x \in Auths, Enter(c, x)
    PROVE  /\ StepOn(c, x) /\ Effect(c, x) /\ Current(c, x) /\ CallMatches(c)'
           /\ codeCall'[c].pc \in {"hasConsent", "claimPending", "claimCode"}
  <1> DEFINE Goal == /\ StepOn(c, x) /\ Effect(c, x) /\ Current(c, x) /\ CallMatches(c)'
                     /\ codeCall'[c].pc \in {"hasConsent", "claimPending", "claimCode"}
  <1>0. CodeTypeOK
    BY DEF CodeIInv
  <1>1. ASSUME NEW u \in CodeUsers, NEW s \in SUBSET Scopes, Authorize(c, u, x, s)
        PROVE  Goal
    <2>1. /\ OthersStay(c) /\ codeCall'[c].pc = "hasConsent" /\ codeCall'[c].auth = x
      BY <1>0, <1>1, AfterEnter DEF Authorize
    <2>2. /\ asked'[x].user = u /\ u # Nobody
          /\ \A a \in Auths : a # x => asked'[a] = asked[a]
      BY <1>0, <1>1, NobodyAssumption DEF Authorize, CodeTypeOK
    <2>3. StepOn(c, x) /\ Enters(c, x)
      BY <1>1, <2>1, <2>2 DEF Authorize, StepOn, Enters, Unmoved, stores
    <2> QED
      BY <1>1, <2>1, <2>2, <2>3 DEF Effect, Current, CallMatches, Authorize
  <1>2. ASSUME NEW u \in CodeUsers, DecideConsent(c, u, x)
        PROVE  Goal
    <2>1. /\ OthersStay(c) /\ codeCall'[c].pc = "claimPending" /\ codeCall'[c].auth = x
      BY <1>0, <1>2, AfterEnter DEF DecideConsent
    <2>2. x \in pending /\ asked[x].user # Nobody /\ codeCall[c].pc = "idle"
      BY <1>2 DEF DecideConsent, CodeIInv, OnePlace
    <2>3. StepOn(c, x) /\ Goes(c, x, Off, Off)
      BY <1>2, <2>1, <2>2 DEF DecideConsent, StepOn, Goes, Unmoved, Off, stores
    <2> QED
      BY <1>2, <2>1, <2>2, <2>3 DEF Effect, Current, CallMatches, DecideConsent
  <1>3. CASE Exchange(c, x)
    <2>1. /\ OthersStay(c) /\ codeCall'[c].pc = "claimCode" /\ codeCall'[c].auth = x
      BY <1>0, <1>3, AfterExchange
    <2>2. x \in code /\ asked[x].user # Nobody /\ codeCall[c].pc = "idle"
      BY <1>3 DEF Exchange, CodeIInv, OnePlace
    <2>3. StepOn(c, x) /\ Goes(c, x, Off, Off)
      BY <1>3, <2>1, <2>2 DEF Exchange, StepOn, Goes, Unmoved, Off, stores
    <2> QED
      BY <1>3, <2>1, <2>2, <2>3 DEF Effect, Current, CallMatches, Exchange
  <1> QED
    BY <1>1, <1>2, <1>3 DEF Enter

LEMMA StepEffects ==
    ASSUME CodeIInv, NEW c \in CodeCalls, CodeStep(c)
    PROVE  LET x == codeCall[c].auth
           IN  /\ x \in Auths
               /\ StepOn(c, x) /\ Effect(c, x) /\ Current(c, x) /\ CallMatches(c)'
  <1> DEFINE x == codeCall[c].auth
  <1>0. CodeTypeOK
    BY DEF CodeIInv
  <1>1. codeCall[c].pc # "idle"
    BY DEF CodeStep, hasConsent, requireConsent, ClaimPending, readGrant, writeGrant, createCode,
           ClaimCode, mintTokens, issueRefreshToken, CodeCallFails
  <1>2. x \in Auths /\ asked[x].user # Nobody /\ asked[x].user \in CodeUsers
    BY <1>1, CallTypes, NobodyAssumption
  <1>3. OnePlace(x) /\ CallMatches(c) /\ codeCall[c] \in CodeCall
    BY <1>0, <1>2 DEF CodeIInv, CodeTypeOK
  <1>4. codeCall[c].pc \in HeldAt => c \in Holders(x)
    BY DEF Holders, CallsAt
  <1>5. codeCall[c].pc \notin Off => codeCall[c].pc \in HeldAt
    BY <1>3 DEF Off, HeldAt, CodeCall
  <1>6. /\ codeCall[c].pc \in HeldAt => x \notin pending /\ x \notin code /\ family[x].minted = 0
        /\ x \in pending => x \notin code
    BY <1>3, <1>4 DEF OnePlace
  <1> HIDE DEF x
  <1>7. CASE hasConsent(c)
    <2>1. /\ OthersStay(c) /\ codeCall'[c].pc \in {"createCode", "createPending", "idle"}
          /\ codeCall'[c].pc # "idle" => codeCall'[c].auth = x
      BY <1>0, <1>7, AfterGoto, AfterReturn DEF hasConsent, x
    <2>2. codeCall[c].pc = "hasConsent" /\ UNCHANGED <<asked, pending, code, family, consent>>
      BY <1>7 DEF hasConsent, stores
    <2>3. StepOn(c, x)
      BY <2>1, <2>2 DEF StepOn, x
    <2>4. Effect(c, x)
      BY <1>2, <2>1, <2>2 DEF Effect, Goes, Unmoved, HeldAt
    <2> QED
      BY <1>1, <1>2, <2>1, <2>2, <2>3, <2>4 DEF Current, CallMatches, x
  <1>8. CASE requireConsent(c)
    <2>1. OthersStay(c) /\ codeCall'[c].pc = "idle"
      BY <1>0, <1>8, AfterReturn DEF requireConsent
    <2>2. /\ codeCall[c].pc = "createPending" /\ UNCHANGED <<asked, code, family, consent>>
          /\ pending' = pending \union {x}
      BY <1>8 DEF requireConsent, x
    <2>3. StepOn(c, x)
      BY <2>1, <2>2 DEF StepOn, x
    <2>4. Parks(c, x)
      BY <1>6, <2>1, <2>2 DEF Parks, HeldAt
    <2> QED
      BY <1>1, <1>2, <2>1, <2>2, <2>3, <2>4 DEF Effect, Current, CallMatches, x
  <1>9. CASE ClaimPending(c)
    <2>1. /\ OthersStay(c)
          /\ \/ codeCall'[c].pc = "idle"
             \/ /\ codeCall'[c].pc = "readGrant" /\ x \in pending
                /\ codeCall'[c].auth = x /\ codeCall'[c].by = asked[x].user
      BY <1>0, <1>9, AfterGoto, AfterReturn DEF ClaimPending, MayDecide, x
    <2>2. /\ codeCall[c].pc = "claimPending" /\ UNCHANGED <<asked, code, family, consent>>
          /\ pending' = pending \ {x}
      BY <1>9 DEF ClaimPending, x
    <2>3. StepOn(c, x)
      BY <2>1, <2>2 DEF StepOn, x
    <2>4. Effect(c, x)
      <3>1. CASE x \in pending
        BY <1>6, <2>1, <2>2, <3>1 DEF Effect, Takes
      <3>2. CASE x \notin pending
        BY <1>2, <2>1, <2>2, <3>2 DEF Effect, Goes, Unmoved, Off
      <3> QED
        BY <3>1, <3>2
    <2> QED
      BY <1>1, <1>2, <2>1, <2>2, <2>3, <2>4 DEF Current, CallMatches, x
  <1>10. CASE readGrant(c)
    <2>1. /\ OthersStay(c) /\ codeCall'[c].pc \in {"createGrant", "updateGrant"}
          /\ codeCall'[c].auth = x /\ codeCall'[c].by = codeCall[c].by
      BY <1>0, <1>3, <1>10, AfterReadGrant DEF x
    <2>2. codeCall[c].pc = "readGrant" /\ UNCHANGED <<asked, pending, code, family, consent>>
      BY <1>10 DEF readGrant, stores
    <2>3. StepOn(c, x)
      BY <2>1, <2>2 DEF StepOn, x
    <2>4. Effect(c, x)
      BY <1>2, <2>1, <2>2 DEF Effect, Goes, Unmoved, Deciding
    <2> QED
      BY <1>1, <1>2, <1>3, <2>1, <2>2, <2>3, <2>4 DEF Current, CallMatches, x
  <1>11. CASE writeGrant(c)
    <2>1. OthersStay(c) /\ codeCall'[c].pc = "createCode" /\ codeCall'[c].auth = x
      BY <1>0, <1>11, AfterGoto DEF writeGrant, x
    <2>2. /\ codeCall[c].pc \in {"createGrant", "updateGrant"}
          /\ UNCHANGED <<asked, pending, code, family>>
          /\ \A u \in CodeUsers : consent'[u].cut = consent[u].cut
      BY <1>0, <1>11 DEF writeGrant, stores, CodeTypeOK, Consent
    <2>3. StepOn(c, x)
      BY <2>1, <2>2 DEF StepOn, x
    <2>4. Effect(c, x)
      BY <1>2, <2>1, <2>2 DEF Effect, Goes, Unmoved, Deciding
    <2> QED
      BY <1>1, <1>2, <2>1, <2>2, <2>3, <2>4 DEF Current, CallMatches, x
  <1>12. CASE createCode(c)
    <2>1. OthersStay(c) /\ codeCall'[c].pc = "idle"
      BY <1>0, <1>12, AfterReturn DEF createCode
    <2>2. /\ codeCall[c].pc = "createCode" /\ UNCHANGED <<asked, pending, family, consent>>
          /\ code' = code \union {x}
      BY <1>12 DEF createCode, x
    <2>3. StepOn(c, x)
      BY <2>1, <2>2 DEF StepOn, x
    <2>4. Parks(c, x)
      BY <1>6, <2>1, <2>2 DEF Parks, HeldAt
    <2> QED
      BY <1>1, <1>2, <2>1, <2>2, <2>3, <2>4 DEF Effect, Current, CallMatches, x
  <1>13. CASE ClaimCode(c)
    <2>1. /\ OthersStay(c)
          /\ \/ codeCall'[c].pc = "idle"
             \/ codeCall'[c].pc = "mint" /\ x \in code /\ codeCall'[c].auth = x
      BY <1>0, <1>13, AfterGoto, AfterReturn DEF ClaimCode, Consumed, x
    <2>2. /\ codeCall[c].pc = "claimCode" /\ UNCHANGED <<asked, pending, family, consent>>
          /\ code' = code \ {x}
      BY <1>13 DEF ClaimCode, x
    <2>3. StepOn(c, x)
      BY <2>1, <2>2 DEF StepOn, x
    <2>4. Effect(c, x)
      <3>1. CASE x \in code
        BY <1>6, <2>1, <2>2, <3>1 DEF Effect, Takes
      <3>2. CASE x \notin code
        BY <1>2, <2>1, <2>2, <3>2 DEF Effect, Goes, Unmoved, Off
      <3> QED
        BY <3>1, <3>2
    <2> QED
      BY <1>1, <1>2, <2>1, <2>2, <2>3, <2>4 DEF Current, CallMatches, x
  <1>14. CASE mintTokens(c)
    <2>1. /\ OthersStay(c) /\ codeCall'[c].pc \in {"idle", "refresh"}
          /\ codeCall'[c].pc # "idle" => codeCall'[c].auth = x
      BY <1>0, <1>14, AfterGoto, AfterReturn DEF mintTokens, x
    <2>2. /\ codeCall[c].pc = "mint" /\ UNCHANGED <<asked, pending, code, consent>>
          /\ family' = [family EXCEPT ![x].minted = @ + 1]
      BY <1>14 DEF mintTokens, x
    <2>3. /\ \A a \in Auths : a # x => family'[a] = family[a]
          /\ family'[x].minted = family[x].minted + 1
      BY <1>0, <1>2, <2>2 DEF CodeTypeOK, Family
    <2>4. StepOn(c, x)
      BY <2>1, <2>2, <2>3 DEF StepOn, x
    <2>5. Pays(c, x)
      BY <1>6, <2>1, <2>2, <2>3 DEF Pays, HeldAt
    <2> QED
      BY <1>1, <1>2, <2>1, <2>2, <2>4, <2>5 DEF Effect, Current, CallMatches, x
  <1>15. CASE issueRefreshToken(c)
    <2>1. OthersStay(c) /\ codeCall'[c].pc = "idle"
      BY <1>0, <1>15, AfterReturn DEF issueRefreshToken
    <2>2. /\ codeCall[c].pc = "refresh" /\ UNCHANGED <<asked, pending, code, consent>>
          /\ family' = [family EXCEPT ![x].state = "live"]
      BY <1>15 DEF issueRefreshToken, x
    <2>3. /\ \A a \in Auths : a # x => family'[a] = family[a]
          /\ family'[x].minted = family[x].minted
      BY <1>0, <1>2, <2>2 DEF CodeTypeOK, Family
    <2>4. StepOn(c, x)
      BY <2>1, <2>2, <2>3 DEF StepOn, x
    <2>5. Effect(c, x)
      BY <1>2, <2>1, <2>2, <2>3 DEF Effect, Goes, Unmoved, Off
    <2> QED
      BY <1>1, <1>2, <2>1, <2>2, <2>4, <2>5 DEF Current, CallMatches, x
  <1>16. CASE CodeCallFails(c)
    <2>1. OthersStay(c) /\ codeCall'[c].pc = "idle"
      BY <1>0, <1>16, AfterReturn DEF CodeCallFails
    <2>2. UNCHANGED <<asked, pending, code, family, consent>>
      BY <1>16 DEF CodeCallFails, stores
    <2>3. StepOn(c, x)
      BY <2>1, <2>2 DEF StepOn, x
    <2>4. Effect(c, x)
      BY <1>2, <1>5, <2>1, <2>2 DEF Effect, Goes, Unmoved, Off
    <2> QED
      BY <1>1, <1>2, <2>1, <2>2, <2>3, <2>4 DEF Current, CallMatches, x
  <1> QED
    BY <1>2, <1>7, <1>8, <1>9, <1>10, <1>11, <1>12, <1>13, <1>14, <1>15, <1>16 DEF CodeStep, x

-----------------------------------------------------------------------------
(* The calls and the places of the authorizations.                         *)

\* Who is on an authorization after a step of c on x.
LEMMA HoldersAfter ==
    ASSUME CodeIInv, NEW c \in CodeCalls, NEW x \in Auths, StepOn(c, x)
    PROVE  /\ \A a \in Auths : a # x => Holders(a)' = Holders(a)
           /\ \A d \in CodeCalls : d # c => (d \in Holders(x)' <=> d \in Holders(x))
           /\ c \in Holders(x)' <=> codeCall'[c].pc \in HeldAt
           /\ c \in Holders(x) <=> codeCall[c].pc \in HeldAt
  <1>1. \A d \in CodeCalls : d # c => codeCall'[d] = codeCall[d]
    BY DEF StepOn, OthersStay
  <1>2. /\ codeCall[c].pc \in HeldAt => codeCall[c].auth = x
        /\ codeCall'[c].pc \in HeldAt => codeCall'[c].auth = x
    BY DEF StepOn, HeldAt
  <1> QED
    BY <1>1, <1>2 DEF Holders, CallsAt

\* A call alone holds its authorization, which is in no key and not paid.
LEMMA HolderAlone ==
    ASSUME CodeIInv, NEW c \in CodeCalls, NEW x \in Auths, c \in Holders(x)
    PROVE  /\ Holders(x) = {c}
           /\ x \notin pending /\ x \notin code /\ family[x].minted = 0
           /\ asked[x].user # Nobody
  <1>1. OnePlace(x) /\ CallMatches(c)
    BY DEF CodeIInv
  <1>2. asked[x].user # Nobody
    BY <1>1 DEF CallMatches, Holders, CallsAt, HeldAt
  <1> QED
    BY <1>1, <1>2 DEF OnePlace

\* Nobody holds an authorization that is unused.
LEMMA UnusedFree ==
    ASSUME CodeIInv, NEW x \in Auths, asked[x].user = Nobody
    PROVE  Holders(x) = {} /\ x \notin pending /\ x \notin code /\ family[x].minted = 0
  <1>1. \A c \in CodeCalls : c \notin Holders(x)
    BY HolderAlone
  <1> QED
    BY <1>1 DEF CodeIInv, OnePlace, Holders, CallsAt

LEMMA PlaceAfter ==
    ASSUME CodeIInv, NEW c \in CodeCalls, NEW x \in Auths, StepOn(c, x), Effect(c, x)
    PROVE  OnePlace(x)'
  <1>0. OnePlace(x) /\ Holders(x) \subseteq CodeCalls /\ Holders(x)' \subseteq CodeCalls
    BY DEF CodeIInv, Holders, CallsAt
  <1>1. CASE Enters(c, x)
    <2>1. Holders(x) = {} /\ x \notin pending /\ x \notin code /\ family[x].minted = 0
      BY <1>1, UnusedFree DEF Enters
    <2>2. Holders(x)' \subseteq {c}
      BY <1>0, <2>1, HoldersAfter
    <2> QED
      BY <1>1, <2>1, <2>2 DEF Enters, Unmoved, OnePlace
  <1>2. ASSUME asked[x].user # Nobody PROVE asked'[x].user # Nobody
    BY <1>2 DEF StepOn
  <1>3. CASE Goes(c, x, Off, Off)
    <2>1. Holders(x)' = Holders(x)
      BY <1>0, <1>3, HoldersAfter DEF Goes, Off, HeldAt
    <2> QED
      BY <1>0, <1>2, <1>3, <2>1 DEF Goes, Unmoved, OnePlace
  <1>4. ASSUME c \in Holders(x), asked[x].user # Nobody, Unmoved(x) PROVE OnePlace(x)'
    <2>1. Holders(x)' \subseteq {c}
      BY <1>0, <1>4, HolderAlone, HoldersAfter
    <2> QED
      BY <1>2, <1>4, <2>1, HolderAlone DEF Unmoved, OnePlace
  <1>5. ASSUME codeCall[c].pc \in HeldAt PROVE c \in Holders(x)
    BY <1>5, HoldersAfter
  <1>6. CASE \/ Goes(c, x, HeldAt, {"idle"})
             \/ Goes(c, x, {"hasConsent"}, {"createPending", "createCode"})
             \/ Goes(c, x, Deciding, Deciding)
    <2>1. codeCall[c].pc \in HeldAt /\ asked[x].user # Nobody /\ Unmoved(x)
      BY <1>6 DEF Goes, Deciding, HeldAt
    <2> QED
      BY <1>4, <1>5, <2>1
  <1>7. CASE Parks(c, x)
    <2>1. c \in Holders(x) /\ codeCall'[c].pc = "idle"
      BY <1>5, <1>7 DEF Parks, HeldAt
    <2>2. Holders(x)' = {}
      BY <1>0, <2>1, HolderAlone, HoldersAfter DEF HeldAt
    <2>3. ~(x \in pending' /\ x \in code')
      BY <1>7 DEF Parks
    <2> QED
      BY <1>2, <1>7, <2>1, <2>2, <2>3, HolderAlone DEF Parks, OnePlace
  <1>8. CASE Takes(c, x)
    <2>1. Holders(x) = {} /\ family[x].minted = 0 /\ asked[x].user # Nobody
      BY <1>0, <1>8 DEF Takes, OnePlace
    <2>2. Holders(x)' \subseteq {c}
      BY <1>0, <2>1, HoldersAfter
    <2> QED
      BY <1>2, <1>8, <2>1, <2>2 DEF Takes, OnePlace
  <1>9. CASE Pays(c, x)
    <2>1. c \in Holders(x) /\ codeCall'[c].pc \notin HeldAt
      BY <1>5, <1>9 DEF Pays, HeldAt
    <2>2. Holders(x)' = {}
      BY <1>0, <2>1, HolderAlone, HoldersAfter
    <2> QED
      BY <1>2, <1>9, <2>1, <2>2, HolderAlone DEF Pays, OnePlace
  <1> QED
    BY <1>1, <1>3, <1>6, <1>7, <1>8, <1>9 DEF Effect

\* A step of a call keeps the calls, the places and what is over.
LEMMA CallKeeps ==
    ASSUME CodeIInv, NEW c \in CodeCalls, NEW x \in Auths,
           StepOn(c, x), Effect(c, x), Current(c, x), CallMatches(c)'
    PROVE  /\ \A d \in CodeCalls : CallMatches(d)'
           /\ \A a \in Auths : OnePlace(a)'
  <1>1. \A a \in Auths : asked[a].user # Nobody => asked'[a] = asked[a]
    BY DEF StepOn
  <1>2. ASSUME NEW d \in CodeCalls, d # c PROVE CallMatches(d)'
    <2>1. codeCall'[d] = codeCall[d] /\ CallMatches(d)
      BY <1>2 DEF StepOn, OthersStay, CodeIInv
    <2> QED
      BY <1>1, <2>1 DEF CallMatches
  <1>3. ASSUME NEW a \in Auths, a # x PROVE OnePlace(a)'
    <2>1. OnePlace(a) /\ Holders(a)' = Holders(a)
      BY <1>3, HoldersAfter DEF CodeIInv
    <2> QED
      BY <1>3, <2>1 DEF StepOn, OnePlace
  <1> QED
    BY <1>2, <1>3, PlaceAfter

\* What was over at a revocation is not touched by a later step.
LEMMA CutKept ==
    ASSUME CodeIInv, NEW c \in CodeCalls, NEW x \in Auths, StepOn(c, x), Current(c, x)
    PROVE  CutIsOver'
  <1> SUFFICES ASSUME NEW u \in CodeUsers, NEW a \in consent[u].cut
               PROVE  /\ asked'[a].user # Nobody
                      /\ a \notin pending' /\ a \notin code'
                      /\ \A d \in CodeCalls : codeCall'[d].pc # "idle" => codeCall'[d].auth # a
                      /\ family'[a].state # "live"
    BY DEF CutIsOver, StepOn
  <1>1. /\ asked[a].user # Nobody /\ a \notin pending /\ a \notin code
        /\ \A d \in CodeCalls : codeCall[d].pc # "idle" => codeCall[d].auth # a
        /\ family[a].state # "live" /\ a \in Auths
    BY DEF CodeIInv, CutIsOver, CodeTypeOK, Consent
  <1>2. a # x
    BY <1>1 DEF Current, StepOn
  <1> QED
    BY <1>1, <1>2 DEF StepOn, OthersStay

-----------------------------------------------------------------------------
(* The grants.                                                             *)

\* The grants and the decisions stay, and c is not about to write afterwards,
\* or has just read what it merges.
LEMMA MergesKept ==
    ASSUME CodeIInv, NEW c \in CodeCalls, NEW x \in Auths, StepOn(c, x),
           UNCHANGED <<grants, consent>>,
           codeCall'[c].pc \in {"createGrant", "updateGrant"} =>
              /\ codeCall'[c].auth = x /\ asked'[x] = asked[x]
              /\ codeCall'[c].merged = Granted(codeCall'[c].by) \union asked[x].scopes
    PROVE  MergesCurrent' /\ GrantFollowsDecisions'
  <1>1. \A u \in CodeUsers : Granted(u)' = Granted(u)
    BY DEF Granted
  <1>2. GrantFollowsDecisions'
    BY <1>1 DEF CodeIInv, GrantFollowsDecisions
  <1>3. ASSUME NEW u \in CodeUsers, consent[u].serial, NEW d \in Upserting(u)'
        PROVE  codeCall'[d].merged = Granted(u) \union asked'[codeCall'[d].auth].scopes
    <2>1. d \in CodeCalls /\ codeCall'[d].by = u /\ codeCall'[d].pc \in {"createGrant", "updateGrant"}
      BY <1>3 DEF Upserting
    <2>2. CASE d = c
      BY <2>1, <2>2
    <2>3. CASE d # c
      <3>1. codeCall'[d] = codeCall[d] /\ CallMatches(d)
        BY <2>1, <2>3 DEF StepOn, OthersStay, CodeIInv
      <3>2. d \in Upserting(u)
        BY <2>1, <3>1 DEF Upserting
      <3>3. codeCall[d].auth \in Auths /\ asked[codeCall[d].auth].user # Nobody
        BY <2>1, <3>1 DEF CallMatches
      <3>4. asked'[codeCall[d].auth] = asked[codeCall[d].auth]
        BY <3>3 DEF StepOn
      <3> QED
        BY <1>3, <3>1, <3>2, <3>4 DEF CodeIInv, MergesCurrent
    <2> QED
      BY <2>2, <2>3
  <1> QED
    BY <1>1, <1>2, <1>3 DEF MergesCurrent

LEMMA MergesAfterStep ==
    ASSUME CodeIInv, NEW c \in CodeCalls, CodeStep(c)
    PROVE  MergesCurrent' /\ GrantFollowsDecisions'
  <1> DEFINE x == codeCall[c].auth
  <1>0. CodeTypeOK /\ x \in Auths /\ StepOn(c, x)
    BY StepEffects DEF CodeIInv
  <1>1. CASE readGrant(c)
    <2>1. /\ codeCall'[c].auth = x
          /\ codeCall'[c].merged = Granted(codeCall'[c].by) \union asked[x].scopes
      BY <1>0, <1>1, AfterReadGrant DEF CodeIInv
    <2> QED
      BY <1>0, <1>1, <2>1, MergesKept DEF readGrant
  <1>2. CASE writeGrant(c)
    <2>0. PICK u \in CodeUsers, ms \in SUBSET Scopes :
             /\ codeCall[c].by = u /\ asked[x].user = u /\ codeCall[c].merged = ms
      BY <1>2, CallTypes DEF writeGrant
    <2>1. /\ codeCall[c].pc \in {"createGrant", "updateGrant"}
          /\ c \in Upserting(u)
      BY <1>2, <2>0 DEF writeGrant, Upserting
    <2>2. /\ grants' = [grants EXCEPT ![u] = [state |-> "active", scopes |-> ms]]
          /\ consent' = [consent EXCEPT ![u].since = @ \union asked[x].scopes,
                                        ![u].serial = @ /\ Upserting(u) = {c}]
          /\ asked' = asked
      BY <1>2, <2>0 DEF writeGrant
    <2>3. OthersStay(c) /\ codeCall'[c].pc = "createCode"
      BY <1>0, <1>2, AfterGoto DEF writeGrant
    <2>4. /\ consent'[u].since = consent[u].since \union asked[x].scopes
          /\ consent'[u].serial => consent[u].serial /\ Upserting(u) = {c}
          /\ \A v \in CodeUsers : v # u => consent'[v] = consent[v]
      BY <1>0, <2>0, <2>1, <2>2 DEF CodeTypeOK, Consent
    <2>5. Granted(u)' = ms /\ \A v \in CodeUsers : v # u => Granted(v)' = Granted(v)
      BY <1>0, <2>0, <2>1, <2>2 DEF CodeTypeOK, Granted
    <2>6. consent[u].serial => ms = Granted(u) \union asked[x].scopes /\ Granted(u) = consent[u].since
      BY <2>0, <2>1 DEF CodeIInv, MergesCurrent, GrantFollowsDecisions
    <2>7. GrantFollowsDecisions'
      BY <2>4, <2>5, <2>6 DEF CodeIInv, GrantFollowsDecisions
    <2>8. \A v \in CodeUsers : Upserting(v)' \subseteq Upserting(v) \ {c}
      BY <2>3 DEF OthersStay, Upserting
    <2>9. \A v \in CodeUsers : \A d \in Upserting(v)' : codeCall'[d] = codeCall[d]
      BY <2>3, <2>8 DEF OthersStay, Upserting
    <2>10. MergesCurrent'
      <3> SUFFICES ASSUME NEW v \in CodeUsers, consent'[v].serial, NEW d \in Upserting(v)'
                   PROVE  codeCall'[d].merged = Granted(v)' \union asked'[codeCall'[d].auth].scopes
        BY DEF MergesCurrent
      <3>1. v # u
        BY <2>4, <2>8
      <3>2. d \in Upserting(v) /\ codeCall'[d] = codeCall[d] /\ consent[v].serial
        BY <2>4, <2>8, <2>9, <3>1
      <3>3. codeCall[d].merged = Granted(v) \union asked[codeCall[d].auth].scopes
        BY <3>2 DEF CodeIInv, MergesCurrent
      <3> QED
        BY <2>2, <2>5, <3>1, <3>2, <3>3
    <2> QED
      BY <2>7, <2>10
  <1>3. CASE ~readGrant(c) /\ ~writeGrant(c)
    <2>1. codeCall'[c].pc \notin {"createGrant", "updateGrant"}
      BY <1>0, <1>3, AfterGoto, AfterReturn
      DEF CodeStep, hasConsent, requireConsent, ClaimPending, createCode, ClaimCode, mintTokens,
          issueRefreshToken, CodeCallFails
    <2>2. UNCHANGED <<grants, consent>>
      BY <1>3 DEF CodeStep, hasConsent, requireConsent, ClaimPending, createCode, ClaimCode,
                  mintTokens, issueRefreshToken, CodeCallFails
    <2> QED
      BY <1>0, <2>1, <2>2, MergesKept
  <1> QED
    BY <1>1, <1>2, <1>3

-----------------------------------------------------------------------------
LEMMA CodeIInvInit == CodeInit => CodeIInv
  <1> SUFFICES ASSUME CodeInit PROVE CodeIInv
    OBVIOUS
  <1>1. \A c \in CodeCalls : codeCall[c].pc = "idle"
    BY CodeIdleType DEF CodeInit
  <1>2. \A a \in Auths : Holders(a) = {}
    BY <1>1 DEF Holders, CallsAt, HeldAt
  <1>3. \A u \in CodeUsers : Upserting(u) = {} /\ Granted(u) = {}
    BY <1>1 DEF CodeInit, Upserting, Granted
  <1>4. \A c \in CodeCalls : CallMatches(c)
    BY <1>1 DEF CallMatches
  <1>5. \A a \in Auths : OnePlace(a)
    BY <1>2 DEF CodeInit, OnePlace
  <1>6. CutIsOver
    BY DEF CodeInit, CutIsOver
  <1>7. MergesCurrent /\ GrantFollowsDecisions
    BY <1>3 DEF CodeInit, MergesCurrent, GrantFollowsDecisions
  <1> QED
    BY <1>4, <1>5, <1>6, <1>7, CodeTypeInit DEF CodeIInv

LEMMA CodeIInvNext == CodeIInv /\ [CodeNext]_codeVars => CodeIInv'
  <1> SUFFICES ASSUME CodeIInv, [CodeNext]_codeVars PROVE CodeIInv'
    OBVIOUS
  <1>0. CodeTypeOK /\ CodeTypeOK'
    BY CodeTypeNext DEF CodeIInv
  <1>1. ASSUME NEW c \in CodeCalls, NEW x \in Auths, Enter(c, x) PROVE CodeIInv'
    <2>1. /\ StepOn(c, x) /\ Effect(c, x) /\ Current(c, x) /\ CallMatches(c)'
          /\ codeCall'[c].pc \in {"hasConsent", "claimPending", "claimCode"}
      BY <1>1, EnterEffects
    <2>2. UNCHANGED <<grants, consent>>
      BY <1>1 DEF Enter, Authorize, DecideConsent, Exchange
    <2> QED
      BY <1>0, <2>1, <2>2, CallKeeps, CutKept, MergesKept DEF CodeIInv
  <1>2. ASSUME NEW c \in CodeCalls, CodeStep(c) PROVE CodeIInv'
    BY <1>0, <1>2, StepEffects, CallKeeps, CutKept, MergesAfterStep DEF CodeIInv
  <1>3. ASSUME NEW u \in CodeUsers, WithdrawConsent(u) PROVE CodeIInv'
    <2>1. UNCHANGED <<asked, pending, code, codeCall>>
      BY <1>3 DEF WithdrawConsent
    <2>2. \A a \in Auths : family'[a].minted = family[a].minted
                           /\ (family'[a].state = "live" => family[a].state = "live")
      BY <1>0, <1>3 DEF WithdrawConsent, FamiliesRevoked, CodeTypeOK, Family
    <2>3. \A a \in Auths : asked[a].user = u => family'[a].state # "live"
      BY <1>0, <1>3 DEF WithdrawConsent, FamiliesRevoked, CodeTypeOK, Family
    <2>4. /\ consent'[u].since = {} /\ consent'[u].cut = Over(u)
          /\ consent'[u].serial = (Upserting(u) = {})
          /\ \A v \in CodeUsers : v # u => consent'[v] = consent[v]
      BY <1>0, <1>3 DEF WithdrawConsent, CodeTypeOK, Consent
    <2>5. Granted(u)' = {} /\ \A v \in CodeUsers : v # u => Granted(v)' = Granted(v)
      BY <1>0, <1>3 DEF WithdrawConsent, CodeTypeOK, Grant, Granted
    <2>6. \A v \in CodeUsers : Upserting(v)' = Upserting(v)
      BY <2>1 DEF Upserting
    <2>7. \A c \in CodeCalls : CallMatches(c)'
      BY <2>1 DEF CodeIInv, CallMatches
    <2>8. \A a \in Auths : OnePlace(a)'
      BY <2>1, <2>2 DEF CodeIInv, OnePlace, Holders, CallsAt
    <2>9. CutIsOver'
      <3>1. ASSUME NEW v \in CodeUsers, v # u, NEW a \in consent[v].cut
            PROVE  /\ asked[a].user # Nobody /\ a \notin pending \union code
                   /\ \A c \in CodeCalls : codeCall[c].pc # "idle" => codeCall[c].auth # a
                   /\ family'[a].state # "live"
        <4>1. a \in Auths
          BY <1>0 DEF CodeTypeOK, Consent
        <4> QED
          BY <2>2, <4>1 DEF CodeIInv, CutIsOver
      <3>2. ASSUME NEW a \in Over(u)
            PROVE  /\ asked[a].user # Nobody /\ a \notin pending \union code
                   /\ \A c \in CodeCalls : codeCall[c].pc # "idle" => codeCall[c].auth # a
                   /\ family'[a].state # "live"
        BY <2>3, NobodyAssumption DEF Over
      <3> QED
        BY <2>1, <2>4, <3>1, <3>2 DEF CutIsOver
    <2>10. GrantFollowsDecisions'
      BY <2>4, <2>5 DEF CodeIInv, GrantFollowsDecisions
    <2>11. MergesCurrent'
      <3> SUFFICES ASSUME NEW v \in CodeUsers, consent'[v].serial, NEW d \in Upserting(v)
                   PROVE  codeCall'[d].merged = Granted(v)' \union asked'[codeCall'[d].auth].scopes
        BY <2>6 DEF MergesCurrent
      <3>1. v # u
        BY <2>4
      <3>2. codeCall[d].merged = Granted(v) \union asked[codeCall[d].auth].scopes
        BY <2>4, <3>1 DEF CodeIInv, MergesCurrent
      <3> QED
        BY <2>1, <2>5, <3>1, <3>2
    <2> QED
      BY <1>0, <2>7, <2>8, <2>9, <2>10, <2>11 DEF CodeIInv
  <1>4. ASSUME NEW a \in Auths, KeyExpires(a) PROVE CodeIInv'
    <2>1. /\ UNCHANGED <<asked, grants, family, codeCall, consent>>
          /\ pending' \subseteq pending /\ code' \subseteq code
      BY <1>4 DEF KeyExpires
    <2>2. \A b \in Auths : Holders(b)' = Holders(b)
      BY <2>1 DEF Holders, CallsAt
    <2>3. \A b \in Auths : OnePlace(b)'
      BY <2>1, <2>2 DEF CodeIInv, OnePlace
    <2>4. CutIsOver'
      BY <2>1 DEF CodeIInv, CutIsOver
    <2>5. MergesCurrent' /\ GrantFollowsDecisions'
      BY <2>1 DEF CodeIInv, MergesCurrent, GrantFollowsDecisions, Upserting, Granted
    <2>6. \A c \in CodeCalls : CallMatches(c)'
      BY <2>1 DEF CodeIInv, CallMatches
    <2> QED
      BY <1>0, <2>3, <2>4, <2>5, <2>6 DEF CodeIInv
  <1>5. CASE UNCHANGED codeVars
    BY <1>0, <1>5 DEF codeVars, CodeIInv, CallMatches, OnePlace, Holders, CallsAt, CutIsOver,
                      MergesCurrent, GrantFollowsDecisions, Upserting, Granted
  <1> QED
    BY <1>1, <1>2, <1>3, <1>4, <1>5 DEF CodeNext, Enter

LEMMA CodeIInvHolds == CodeSpec => []CodeIInv
  BY CodeIInvInit, CodeIInvNext, PTL DEF CodeSpec

-----------------------------------------------------------------------------
(* The stages of CodeLifecycle.                                            *)

Phase(pc) == IF pc = "mint" THEN "claimed" ELSE IF pc \in Deciding THEN "allowed" ELSE "none"

\* Where an authorization is decides its stage.
StageIs(x) ==
    /\ \A c \in Holders(x) : Stage(x) = Phase(codeCall[c].pc)
    /\ x \in pending => Stage(x) = "asked"
    /\ x \in code => Stage(x) = "coded"
    /\ Holders(x) = {} /\ family[x].minted > 0 => Stage(x) = "paid"
    /\ Holders(x) = {} /\ x \notin pending /\ x \notin code /\ family[x].minted = 0 =>
          Stage(x) = IF asked[x].user = Nobody THEN "none" ELSE "closed"

LEMMA StageKnown == \A x \in Auths : CodeTypeOK /\ OnePlace(x) => StageIs(x)
  <1> SUFFICES ASSUME NEW x \in Auths, CodeTypeOK, OnePlace(x) PROVE StageIs(x)
    OBVIOUS
  <1>0. family[x].minted \in 0..1
    BY DEF CodeTypeOK, Family
  <1>1. ASSUME NEW c \in Holders(x) PROVE Stage(x) = Phase(codeCall[c].pc)
    <2>1. /\ x \notin pending /\ x \notin code /\ family[x].minted = 0
          /\ \A d \in Holders(x) : d = c
      BY <1>1 DEF OnePlace
    <2>2. c \in CodeCalls /\ codeCall[c].auth = x /\ codeCall[c].pc \in HeldAt
      BY <1>1 DEF Holders, CallsAt
    <2>3. /\ CallsAt(x, {"mint"}) # {} <=> codeCall[c].pc = "mint"
          /\ CallsAt(x, {"readGrant", "createGrant", "updateGrant", "createCode"}) # {}
                <=> codeCall[c].pc \in Deciding
          /\ CallsAt(x, {"hasConsent", "createPending"}) # {}
                <=> codeCall[c].pc \in {"hasConsent", "createPending"}
      BY <2>1, <2>2 DEF Holders, CallsAt, HeldAt, Deciding
    <2> QED
      BY <2>1, <2>2, <2>3 DEF Stage, Phase, HeldAt, Deciding
  <1>2. ASSUME Holders(x) = {}
        PROVE  /\ CallsAt(x, {"mint"}) = {}
               /\ CallsAt(x, {"readGrant", "createGrant", "updateGrant", "createCode"}) = {}
               /\ CallsAt(x, {"hasConsent", "createPending"}) = {}
    BY <1>2 DEF Holders, CallsAt, HeldAt
  <1>3. x \in pending => Stage(x) = "asked"
    BY <1>2 DEF OnePlace, Stage
  <1>4. x \in code => Stage(x) = "coded"
    BY <1>2 DEF OnePlace, Stage
  <1>5. Holders(x) = {} /\ family[x].minted > 0 => Stage(x) = "paid"
    BY <1>2 DEF Stage
  <1>6. Holders(x) = {} /\ x \notin pending /\ x \notin code /\ family[x].minted = 0 =>
          Stage(x) = IF asked[x].user = Nobody THEN "none" ELSE "closed"
    BY <1>2 DEF Stage
  <1> QED
    BY <1>1, <1>3, <1>4, <1>5, <1>6 DEF StageIs

LEMMA StageKnownNext == (\A x \in Auths : CodeTypeOK /\ OnePlace(x) => StageIs(x))'
  BY StageKnown, PTL

\* A step of the lifecycle of one authorization.
LEMMA LifecycleStep ==
    ASSUME NEW x \in Auths,
           \A a \in Auths : a # x => /\ Stage(a)' = Stage(a)
                                     /\ family'[a].minted = family[a].minted,
           \/ /\ family'[x].minted = family[x].minted
              /\ \/ Stage(x)' = Stage(x)
                 \/ Stage(x) = "none" /\ Stage(x)' = "asked"
                 \/ Stage(x) \in {"none", "asked"} /\ Stage(x)' = "allowed"
                 \/ Stage(x) = "allowed" /\ Stage(x)' = "coded"
                 \/ Stage(x) = "coded" /\ Stage(x)' = "claimed"
                 \/ /\ Stage(x) \in {"none", "asked", "allowed", "coded", "claimed"}
                    /\ Stage(x)' = "closed"
           \/ /\ family'[x].minted = family[x].minted + 1
              /\ Stage(x) = "claimed" /\ Stage(x)' = "paid"
    PROVE  [Lifecycle!Next]_(Lifecycle!vars)
  <1> DEFINE stage == [a \in Auths |-> Stage(a)]
             payouts == [a \in Auths |-> family[a].minted]
  <1>1. stage' = [stage EXCEPT ![x] = Stage(x)']
    OBVIOUS
  <1>2. payouts' = [payouts EXCEPT ![x] = family'[x].minted]
    OBVIOUS
  <1>3. CASE /\ family'[x].minted = family[x].minted
             /\ \/ Stage(x)' = Stage(x)
                \/ Stage(x) = "none" /\ Stage(x)' = "asked"
                \/ Stage(x) \in {"none", "asked"} /\ Stage(x)' = "allowed"
                \/ Stage(x) = "allowed" /\ Stage(x)' = "coded"
                \/ Stage(x) = "coded" /\ Stage(x)' = "claimed"
                \/ /\ Stage(x) \in {"none", "asked", "allowed", "coded", "claimed"}
                   /\ Stage(x)' = "closed"
    <2>1. payouts' = payouts
      BY <1>2, <1>3
    <2>2. CASE Stage(x)' = Stage(x)
      BY <1>1, <2>1, <2>2 DEF Lifecycle!vars
    <2>3. CASE Stage(x) = "none" /\ Stage(x)' = "asked"
      BY <1>1, <2>1, <2>3 DEF Lifecycle!Next, Lifecycle!Ask, Lifecycle!Move
    <2>4. CASE Stage(x) \in {"none", "asked"} /\ Stage(x)' = "allowed"
      BY <1>1, <2>1, <2>4 DEF Lifecycle!Next, Lifecycle!Allow, Lifecycle!Move
    <2>5. CASE Stage(x) = "allowed" /\ Stage(x)' = "coded"
      BY <1>1, <2>1, <2>5 DEF Lifecycle!Next, Lifecycle!CreateCode, Lifecycle!Move
    <2>6. CASE Stage(x) = "coded" /\ Stage(x)' = "claimed"
      BY <1>1, <2>1, <2>6 DEF Lifecycle!Next, Lifecycle!Claim, Lifecycle!Move
    <2>7. CASE /\ Stage(x) \in {"none", "asked", "allowed", "coded", "claimed"}
               /\ Stage(x)' = "closed"
      BY <1>1, <2>1, <2>7 DEF Lifecycle!Next, Lifecycle!Close, Lifecycle!Move
    <2> QED
      BY <1>3, <2>2, <2>3, <2>4, <2>5, <2>6, <2>7
  <1>4. CASE /\ family'[x].minted = family[x].minted + 1
             /\ Stage(x) = "claimed" /\ Stage(x)' = "paid"
    <2>1. Lifecycle!Pay(x)
      BY <1>1, <1>2, <1>4 DEF Lifecycle!Pay, Lifecycle!Move
    <2> QED
      BY <2>1 DEF Lifecycle!Next
  <1> QED
    BY <1>3, <1>4

\* A step of c on x moves x along its lifecycle and leaves the others.
LEMMA CallImplements ==
    ASSUME CodeIInv, CodeIInv', NEW c \in CodeCalls, NEW x \in Auths, StepOn(c, x), Effect(c, x)
    PROVE  [Lifecycle!Next]_(Lifecycle!vars)
  <1>0. OnePlace(x) /\ StageIs(x) /\ OnePlace(x)' /\ StageIs(x)' /\ CodeTypeOK
    BY StageKnown, StageKnownNext DEF CodeIInv
  <1>1. ASSUME NEW a \in Auths, a # x
        PROVE  Stage(a)' = Stage(a) /\ family'[a].minted = family[a].minted
    <2>1. /\ asked'[a] = asked[a] /\ family'[a] = family[a]
          /\ a \in pending' <=> a \in pending
          /\ a \in code' <=> a \in code
      BY <1>1 DEF StepOn
    <2>2. /\ \A d \in CodeCalls : d # c => codeCall'[d] = codeCall[d]
          /\ codeCall[c].pc = "idle" \/ codeCall[c].auth # a
          /\ codeCall'[c].pc = "idle" \/ codeCall'[c].auth # a
      BY <1>1 DEF StepOn, OthersStay
    <2>3. /\ CallsAt(a, {"mint"})' = CallsAt(a, {"mint"})
          /\ CallsAt(a, {"readGrant", "createGrant", "updateGrant", "createCode"})'
                = CallsAt(a, {"readGrant", "createGrant", "updateGrant", "createCode"})
          /\ CallsAt(a, {"hasConsent", "createPending"})'
                = CallsAt(a, {"hasConsent", "createPending"})
      BY <2>2 DEF CallsAt
    <2> QED
      BY <2>1, <2>3 DEF Stage
  <1>2. /\ Holders(x) \subseteq CodeCalls /\ Holders(x)' \subseteq CodeCalls
        /\ codeCall[c].pc \in HeldAt => Stage(x) = Phase(codeCall[c].pc)
        /\ codeCall'[c].pc \in HeldAt => Stage(x)' = Phase(codeCall'[c].pc)
    BY <1>0, HoldersAfter DEF StageIs, Holders, CallsAt
  <1>3. ASSUME codeCall[c].pc \in HeldAt, codeCall'[c].pc \notin HeldAt PROVE Holders(x)' = {}
    <2>1. c \in Holders(x)
      BY <1>3, HoldersAfter
    <2> QED
      BY <1>2, <1>3, <2>1, HolderAlone, HoldersAfter
  <1>4. asked[x].user # Nobody => asked'[x].user # Nobody
    BY DEF StepOn
  <1>5. CASE Enters(c, x)
    <2>1. /\ Holders(x) = {} /\ x \notin pending /\ x \notin code /\ family[x].minted = 0
      BY <1>5, UnusedFree DEF Enters
    <2>2. Stage(x) = "none"
      BY <1>0, <1>5, <2>1 DEF StageIs, Enters
    <2>3. Stage(x)' = "none"
      BY <1>2, <1>5 DEF Enters, HeldAt, Deciding, Phase
    <2> QED
      BY <1>1, <1>5, <2>2, <2>3, LifecycleStep DEF Enters, Unmoved
  <1>6. CASE Goes(c, x, Off, Off)
    <2>1. /\ \A d \in CodeCalls : d # c => codeCall'[d] = codeCall[d]
          /\ codeCall[c].pc \in Off /\ codeCall'[c].pc \in Off
      BY <1>6 DEF Goes, StepOn, OthersStay
    <2>2. /\ CallsAt(x, {"mint"})' = CallsAt(x, {"mint"})
          /\ CallsAt(x, {"readGrant", "createGrant", "updateGrant", "createCode"})'
                = CallsAt(x, {"readGrant", "createGrant", "updateGrant", "createCode"})
          /\ CallsAt(x, {"hasConsent", "createPending"})'
                = CallsAt(x, {"hasConsent", "createPending"})
      BY <2>1 DEF CallsAt, Off
    <2>3. Stage(x)' = Stage(x)
      BY <1>4, <1>6, <2>2 DEF Goes, Unmoved, Stage
    <2> QED
      BY <1>1, <1>6, <2>3, LifecycleStep DEF Goes, Unmoved
  <1>7. CASE Goes(c, x, HeldAt, {"idle"})
    <2>1. c \in Holders(x) /\ Holders(x)' = {}
      BY <1>3, <1>7, HoldersAfter DEF Goes, HeldAt
    <2>2. Stage(x)' = "closed"
      BY <1>0, <1>4, <1>7, <2>1, HolderAlone DEF Goes, Unmoved, StageIs
    <2>3. Stage(x) \in {"none", "allowed", "claimed"}
      BY <1>2, <1>7 DEF Goes, Phase
    <2> QED
      BY <1>1, <1>7, <2>2, <2>3, LifecycleStep DEF Goes, Unmoved
  <1>8. CASE Goes(c, x, {"hasConsent"}, {"createPending", "createCode"})
    <2>1. Stage(x) = "none" /\ Stage(x)' \in {"none", "allowed"}
      BY <1>2, <1>8 DEF Goes, HeldAt, Deciding, Phase
    <2> QED
      BY <1>1, <1>8, <2>1, LifecycleStep DEF Goes, Unmoved
  <1>9. CASE Goes(c, x, Deciding, Deciding)
    <2>1. Stage(x) = "allowed" /\ Stage(x)' = "allowed"
      BY <1>2, <1>9 DEF Goes, HeldAt, Deciding, Phase
    <2> QED
      BY <1>1, <1>9, <2>1, LifecycleStep DEF Goes, Unmoved
  <1>10. CASE Parks(c, x)
    <2>1. \/ Stage(x) = "none" /\ Stage(x)' = "asked"
          \/ Stage(x) = "allowed" /\ Stage(x)' = "coded"
      BY <1>0, <1>2, <1>10 DEF Parks, StageIs, HeldAt, Deciding, Phase
    <2> QED
      BY <1>1, <1>10, <2>1, LifecycleStep DEF Parks
  <1>11. CASE Takes(c, x)
    <2>1. /\ x \in pending => Stage(x) = "asked"
          /\ x \in code => Stage(x) = "coded"
      BY <1>0 DEF StageIs
    <2>2. CASE codeCall'[c].pc = "idle"
      <3>1. Holders(x) = {} /\ family[x].minted = 0 /\ asked[x].user # Nobody
        BY <1>0, <1>11 DEF Takes, OnePlace
      <3>2. Holders(x)' = {}
        BY <1>2, <2>2, <3>1, HoldersAfter DEF HeldAt
      <3>3. Stage(x)' = "closed"
        BY <1>0, <1>4, <1>11, <3>1, <3>2 DEF Takes, StageIs
      <3> QED
        BY <1>1, <1>11, <2>1, <3>3, LifecycleStep DEF Takes
    <2>3. CASE x \in pending /\ codeCall'[c].pc = "readGrant"
      <3>1. Stage(x)' = "allowed"
        BY <1>2, <2>3 DEF HeldAt, Deciding, Phase
      <3> QED
        BY <1>1, <1>11, <2>1, <2>3, <3>1, LifecycleStep DEF Takes
    <2>4. CASE x \in code /\ codeCall'[c].pc = "mint"
      <3>1. Stage(x)' = "claimed"
        BY <1>2, <2>4 DEF HeldAt, Phase
      <3> QED
        BY <1>1, <1>11, <2>1, <2>4, <3>1, LifecycleStep DEF Takes
    <2> QED
      BY <1>11, <2>2, <2>3, <2>4 DEF Takes
  <1>12. CASE Pays(c, x)
    <2>1. c \in Holders(x) /\ Holders(x)' = {} /\ Stage(x) = "claimed"
      BY <1>2, <1>3, <1>12, HoldersAfter DEF Pays, HeldAt, Phase
    <2>2. family[x].minted = 0
      BY <2>1, HolderAlone
    <2>3. Stage(x)' = "paid"
      BY <1>0, <1>12, <2>1, <2>2 DEF Pays, StageIs
    <2> QED
      BY <1>1, <1>12, <2>1, <2>3, LifecycleStep DEF Pays
  <1> QED
    BY <1>5, <1>6, <1>7, <1>8, <1>9, <1>10, <1>11, <1>12 DEF Effect

-----------------------------------------------------------------------------
\* The keys, rows and calls keep their types; in particular tokens are minted
\* at most once for an authorization (mintTokens).
THEOREM CodeTypes == CodeSpec => []CodeTypeOK
  <1>1. CodeIInv => CodeTypeOK
    BY DEF CodeIInv
  <1> QED
    BY <1>1, CodeIInvHolds, PTL

\* As long as no write of a grant came between the read and the write of
\* another (upsertGrant), the active scopes are what the user approved since
\* the last revocation.
THEOREM CodeGrantFollowsDecisions == CodeSpec => []GrantFollowsDecisions
  <1>1. CodeIInv => GrantFollowsDecisions
    BY DEF CodeIInv
  <1> QED
    BY <1>1, CodeIInvHolds, PTL

\* A family that is over when its user revokes the consent is never live again
\* (RevokeConsent).
THEOREM CodeRevocationReachesFamilies == CodeSpec => []RevocationReachesFamilies
  <1>1. CodeIInv => RevocationReachesFamilies
    BY DEF CodeIInv, CutIsOver, RevocationReachesFamilies
  <1> QED
    BY <1>1, CodeIInvHolds, PTL

\* The code grant implements CodeLifecycle: however calls race and whatever
\* expires or fails, an authorization is decided once, becomes one code, is
\* claimed once and pays out once (DecideConsent, exchangeAuthorizationCode).
THEOREM CodeImplementsLifecycle == CodeSpec => CodeLifecycleHolds
  <1>1. CodeInit => Lifecycle!Init
    <2> SUFFICES ASSUME CodeInit PROVE Lifecycle!Init
      OBVIOUS
    <2>1. \A c \in CodeCalls : codeCall[c].pc = "idle"
      BY CodeIdleType DEF CodeInit
    <2>2. \A a \in Auths : Stage(a) = "none" /\ family[a].minted = 0
      BY <2>1 DEF CodeInit, Stage, CallsAt
    <2> QED
      BY <2>2 DEF Lifecycle!Init
  <1>2. CodeIInv /\ CodeIInv' /\ [CodeNext]_codeVars => [Lifecycle!Next]_(Lifecycle!vars)
    <2> SUFFICES ASSUME CodeIInv, CodeIInv', [CodeNext]_codeVars
                 PROVE  [Lifecycle!Next]_(Lifecycle!vars)
      OBVIOUS
    <2>1. ASSUME NEW c \in CodeCalls, NEW x \in Auths, Enter(c, x)
          PROVE  [Lifecycle!Next]_(Lifecycle!vars)
      BY <2>1, EnterEffects, CallImplements
    <2>2. ASSUME NEW c \in CodeCalls, CodeStep(c) PROVE [Lifecycle!Next]_(Lifecycle!vars)
      BY <2>2, StepEffects, CallImplements
    <2>3. ASSUME \A a \in Auths : Stage(a)' = Stage(a) /\ family'[a].minted = family[a].minted
          PROVE  [Lifecycle!Next]_(Lifecycle!vars)
      BY <2>3 DEF Lifecycle!vars
    <2>4. ASSUME NEW u \in CodeUsers, WithdrawConsent(u)
          PROVE  [Lifecycle!Next]_(Lifecycle!vars)
      <3>1. \A a \in Auths : family'[a].minted = family[a].minted
        BY <2>4 DEF WithdrawConsent, FamiliesRevoked, CodeIInv, CodeTypeOK, Family
      <3>2. UNCHANGED <<asked, pending, code, codeCall>>
        BY <2>4 DEF WithdrawConsent
      <3>3. \A a \in Auths : Stage(a)' = Stage(a)
        BY <3>1, <3>2 DEF Stage, CallsAt
      <3> QED
        BY <2>3, <3>1, <3>3
    <2>5. ASSUME NEW x \in Auths, KeyExpires(x) PROVE [Lifecycle!Next]_(Lifecycle!vars)
      <3>1. /\ UNCHANGED <<asked, family, codeCall>>
            /\ x \in pending \union code
            /\ pending' = pending \ {x} /\ code' = code \ {x}
        BY <2>5 DEF KeyExpires
      <3>2. /\ OnePlace(x) /\ StageIs(x) /\ StageIs(x)'
        BY StageKnown, StageKnownNext DEF CodeIInv
      <3>3. /\ Stage(x) \in {"asked", "coded"}
            /\ Holders(x) = {} /\ family[x].minted = 0 /\ asked[x].user # Nobody
        BY <3>1, <3>2 DEF StageIs, OnePlace
      <3>4. Holders(x)' = {}
        BY <3>1, <3>3 DEF Holders, CallsAt
      <3>5. Stage(x)' = "closed"
        BY <3>1, <3>2, <3>3, <3>4 DEF StageIs
      <3>6. \A a \in Auths : a # x => Stage(a)' = Stage(a) /\ family'[a].minted = family[a].minted
        BY <3>1 DEF Stage, CallsAt
      <3> QED
        BY <3>1, <3>3, <3>5, <3>6, LifecycleStep
    <2>6. CASE UNCHANGED codeVars
      <3>1. \A a \in Auths : Stage(a)' = Stage(a)
        BY <2>6 DEF codeVars, Stage, CallsAt
      <3> QED
        BY <2>3, <2>6, <3>1 DEF codeVars
    <2> QED
      BY <2>1, <2>2, <2>4, <2>5, <2>6 DEF CodeNext, Enter
  <1> QED
    BY <1>1, <1>2, CodeIInvHolds, PTL DEF CodeSpec, CodeLifecycleHolds, Lifecycle!Spec

-----------------------------------------------------------------------------
(* The instances of MCTokens.                                              *)

\* The two halves share no state and each step is a step of one of them, so a
\* behaviour of the instances is a behaviour of each half, and every theorem
\* above holds of it.
THEOREM TokensCompose == TokensSpec => Spec /\ CodeSpec
  <1>1. TokensInit => Init /\ CodeInit
    BY DEF TokensInit
  <1>2. [TokensNext]_tokenVars => [Next]_vars /\ [CodeNext]_codeVars
    BY DEF TokensNext, tokenVars
  <1> QED
    BY <1>1, <1>2, PTL DEF TokensSpec, Spec, CodeSpec

\* Whatever the token endpoint and the expiries do, the rows, the keys and the
\* calls hold what their declarations allow.
THEOREM TokensTypes == TokensSpec => []TypesOK
  <1>1. TypeOK /\ CodeTypeOK => TypesOK
    BY DEF TypesOK
  <1> QED
    BY <1>1, TokensCompose, RefreshTypeOK, CodeTypes, PTL

=============================================================================
