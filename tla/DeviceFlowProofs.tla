-------------------------- MODULE DeviceFlowProofs --------------------------
(***************************************************************************)
(* Theorems of DeviceFlow for any codes, users, clients and concurrent     *)
(* calls: its types, that a code mints tokens once, and that what it mints *)
(* follows an approval.                                                    *)
(***************************************************************************)
EXTENDS DeviceFlow, FiniteSetTheorems, TLAPS

-----------------------------------------------------------------------------
(***************************************************************************)
(* The inductive invariant.  A call carries what its next step needs; a    *)
(* record that says approved was approved, by the user it names and for    *)
(* the client of the code; a code nobody has decided has no call that      *)
(* could mint; and as long as the decisions on a code have not overlapped, *)
(* at most one of these has the code: a decision, an approved record, a    *)
(* call that claimed it, the tokens, a denial.                             *)
(***************************************************************************)
Deciders == {"authorize", "upsert", "ttl", "set"}

Holders == {"compare", "cleanup", "drop", "recheck", "mint"}

\* The users who approved c and whose consent to its client is stored, or was
\* until they revoked it.
Consents(c) ==
    {v \in log[c].approvers : <<v, log[c].client>> \in grant \/ v \in log[c].withdrawn}

RecordFits(c, record) ==
    /\ record.client = log[c].client
    /\ record.status = "approved" => record.user \in Consents(c)

CallFits(r) ==
    /\ r.pc \in {"setDevice", "getDevice", "consume"} \union Deciders \union Holders =>
          r.code \in Codes
    /\ r.pc \in {"setDevice", "getUser"} => r.userCode \in UserCodes
    /\ r.pc = "setDevice" => log[r.code].client # None
    /\ r.pc \in {"getUser", "getDevice"} \union Deciders => r.by \in Users
    /\ r.pc \in {"consume"} \union Holders => r.by \in Clients
    /\ r.pc \in Deciders \union Holders =>
          r.record \in Record /\ r.record.client = log[r.code].client
    /\ r.pc = "upsert" => r.record.status = "approved" /\ r.record.user = r.by
                          /\ r.by \in log[r.code].approvers
    /\ r.pc \in {"ttl", "set"} \union Holders => r.record.status # "pending"
    /\ r.pc \in {"compare", "recheck", "mint"} => r.record.status = "approved"
    /\ r.pc = "mint" => r.record.client = r.by
    /\ r.pc \in {"ttl", "set"} \union Holders => RecordFits(r.code, r.record)

StoredBy(c, q) == req[q].code = c /\ req[q].pc = "setDevice"

DecidedBy(c, q) == req[q].code = c /\ req[q].pc \in Deciders

HeldBy(c, q) == req[q].code = c /\ req[q].pc \in Holders

\* q has claimed the approved record of c and is about to mint.
ClaimedBy(c, q) ==
    /\ req[q].code = c
    /\ req[q].pc \in {"cleanup", "recheck", "mint"}
    /\ req[q].record.status = "approved"

Unwritten(c) ==
    \/ log[c].client = None
    \/ \E q \in Requests : StoredBy(c, q)

Status(c) == IF device[c] = NoRecord THEN "none" ELSE device[c].status

Undecided(c) == log[c].minted = 0 /\ ~log[c].denied

CodeFits(c) ==
    /\ device[c] # NoRecord => RecordFits(c, device[c])
    /\ \A v \in Users, k \in Clients : <<v, k>> \in log[c].to =>
          v \in Consents(c) /\ k = log[c].client
    /\ \A p, q \in Requests : StoredBy(c, p) /\ StoredBy(c, q) => p = q
    /\ Unwritten(c) =>
          /\ Status(c) = "none" /\ Undecided(c) /\ log[c].to = {}
          /\ \A q \in Requests : ~DecidedBy(c, q) /\ ~HeldBy(c, q)
    /\ Status(c) = "pending" => Undecided(c) /\ \A q \in Requests : ~HeldBy(c, q)

Exclusive(c) ==
    ~log[c].contended =>
        /\ log[c].minted <= 1
        /\ log[c].denied => log[c].minted = 0
        /\ \A p, q \in Requests : DecidedBy(c, p) /\ DecidedBy(c, q) => p = q
        /\ \A p, q \in Requests : ClaimedBy(c, p) /\ ClaimedBy(c, q) => p = q
        /\ \A q \in Requests : DecidedBy(c, q) =>
              /\ Status(c) \in {"none", "pending"} /\ Undecided(c)
              /\ \A p \in Requests : ~ClaimedBy(c, p)
        /\ Status(c) = "approved" =>
              Undecided(c) /\ \A q \in Requests : ~ClaimedBy(c, q)
        /\ \A q \in Requests : ClaimedBy(c, q) => Undecided(c)

Polling(c) == {q \in Requests : req[q].code = c /\ req[q].pc \in {"consume"} \union Holders}

\* No call polls a code once it minted MaxMints times.
MintsFit(c) == log[c].minted + Cardinality(Polling(c)) <= MaxMints + Cardinality(Requests)

DeviceIInv ==
    /\ TypeOK
    /\ \A q \in Requests : CallFits(req[q])
    /\ \A c \in Codes : CodeFits(c) /\ Exclusive(c) /\ MintsFit(c)

-----------------------------------------------------------------------------
(* What a step leaves as it was.                                           *)

LEMMA NoRecordFields ==
    /\ NoRecord \in MaybeRecord
    /\ NoRecord \notin Record
    /\ \A r \in MaybeRecord : r # NoRecord => r \in Record
    /\ Idle \in Call /\ Idle.pc = "idle"
  <1>1. NoRecord.client = None
    BY DEF NoRecord
  <1>2. \A r \in Record : r.client # None
    BY NoneAssumption DEF Record
  <1>3. Idle \in Call /\ Idle.pc = "idle"
    BY DEF Idle, Call, MaybeRecord, NoRecord
  <1> QED
    BY <1>1, <1>2, <1>3 DEF MaybeRecord, NoRecord

\* The history of a code only grows: a client is never replaced, an approval
\* never forgotten, and a consent at most withdrawn.
LogGrows ==
    \A c \in Codes : /\ log[c].client # None => log'[c].client = log[c].client
                     /\ log[c].approvers \subseteq log'[c].approvers
                     /\ log[c].client # None => Consents(c) \subseteq Consents(c)'

LEMMA RecordKeeps ==
    ASSUME NEW c \in Codes, NEW r \in Record, RecordFits(c, r),
           LogGrows
    PROVE  RecordFits(c, r)'
  <1>1. r.client # None
    BY NoneAssumption DEF Record
  <1> QED
    BY <1>1 DEF RecordFits, LogGrows

LEMMA CallKeeps ==
    ASSUME NEW r \in Call, CallFits(r), LogGrows
    PROVE  CallFits(r)'
  <1>1. r.pc \in Deciders \union Holders =>
            /\ r.code \in Codes /\ r.record \in Record
            /\ r.record.client = log[r.code].client /\ r.record.client # None
    BY NoneAssumption DEF CallFits, Record
  <1>2. r.pc \in Deciders \union Holders => r.record.client = log'[r.code].client
    BY <1>1 DEF LogGrows, Consents
  <1>3. r.pc = "setDevice" => log'[r.code].client # None
    BY DEF CallFits, LogGrows
  <1>4. r.pc = "upsert" => r.by \in log'[r.code].approvers
    BY <1>1 DEF CallFits, LogGrows, Deciders
  <1>5. r.pc \in {"ttl", "set"} \union Holders => RecordFits(r.code, r.record)'
    <2> SUFFICES ASSUME r.pc \in {"ttl", "set"} \union Holders
                 PROVE  RecordFits(r.code, r.record)'
      OBVIOUS
    <2>1. r.code \in Codes /\ r.record \in Record /\ RecordFits(r.code, r.record)
      BY <1>1 DEF CallFits, Deciders
    <2> QED
      BY <2>1, RecordKeeps
  <1> QED
    BY <1>2, <1>3, <1>4, <1>5 DEF CallFits

\* One call moves to r: all calls fit if r does.
LEMMA CallsKeep ==
    ASSUME DeviceIInv, NEW q \in Requests, NEW r \in Call, CallFits(r)',
           req' = [req EXCEPT ![q] = r], LogGrows
    PROVE  /\ req' \in [Requests -> Call]
           /\ \A p \in Requests : CallFits(req[p])'
  <1>1. req \in [Requests -> Call]
    BY DEF DeviceIInv, TypeOK
  <1>2. req' \in [Requests -> Call] /\ \A p \in Requests : req'[p] = IF p = q THEN r ELSE req[p]
    BY <1>1
  <1>3. ASSUME NEW p \in Requests
        PROVE  CallFits(req[p])'
    <2>1. PICK s : s = req[p]
      OBVIOUS
    <2>2. s \in Call /\ CallFits(s)
      BY <1>1, <2>1 DEF DeviceIInv
    <2>3. CallFits(s)'
      BY <2>2, CallKeeps
    <2>4. CASE p = q
      <3>1. req'[p] = r
        BY <1>2, <2>4
      <3> QED
        BY <3>1
    <2>5. CASE p # q
      <3>1. req'[p] = s
        BY <1>2, <2>1, <2>5
      <3> QED
        BY <3>1, <2>3
    <2> QED
      BY <2>4, <2>5
  <1> QED
    BY <1>2, <1>3

\* A code none of whose calls gets further, and whose record at most goes.
LEMMA CodeKeeps ==
    ASSUME DeviceIInv, NEW c \in Codes, LogGrows,
           device'[c] \in {device[c], NoRecord},
           log'[c].client = log[c].client, log'[c].to = log[c].to,
           log'[c].minted = log[c].minted, log'[c].denied = log[c].denied,
           log'[c].contended = log[c].contended,
           \A p \in Requests : /\ StoredBy(c, p)' => StoredBy(c, p)
                               /\ DecidedBy(c, p)' => DecidedBy(c, p)
                               /\ HeldBy(c, p)' => HeldBy(c, p)
                               /\ ClaimedBy(c, p)' => ClaimedBy(c, p)
    PROVE  CodeFits(c)' /\ Exclusive(c)'
  <1>1. CodeFits(c) /\ Exclusive(c) /\ device[c] \in MaybeRecord
    BY DEF DeviceIInv, TypeOK
  <1>2. Undecided(c)' <=> Undecided(c)
    BY DEF Undecided
  <1>3. Status(c)' \in {Status(c), "none"}
    BY DEF Status
  <1>4. Status(c) # "none" \/ Status(c)' = "none"
    BY <1>3
  <1>5. device'[c] # NoRecord => RecordFits(c, device[c])'
    <2> SUFFICES ASSUME device'[c] # NoRecord
                 PROVE  RecordFits(c, device[c])'
      OBVIOUS
    <2>1. PICK r : r = device[c]
      OBVIOUS
    <2>2. r \in Record /\ RecordFits(c, r) /\ device'[c] = r
      BY <1>1, <2>1, NoRecordFields DEF CodeFits
    <2>3. RecordFits(c, r)'
      BY <2>2, RecordKeeps
    <2> QED
      BY <2>2, <2>3
  <1>6. \A v \in Users, k \in Clients : <<v, k>> \in log'[c].to =>
           v \in Consents(c)' /\ k = log'[c].client
    BY <1>1, NoneAssumption DEF CodeFits, LogGrows
  <1>7. Unwritten(c)' => Unwritten(c)
    BY DEF Unwritten
  <1>8. \A p, q \in Requests : StoredBy(c, p)' /\ StoredBy(c, q)' => p = q
    BY <1>1 DEF CodeFits
  <1>9. Unwritten(c)' =>
          /\ Status(c)' = "none" /\ Undecided(c)' /\ log'[c].to = {}
          /\ \A q \in Requests : ~DecidedBy(c, q)' /\ ~HeldBy(c, q)'
    BY <1>1, <1>2, <1>3, <1>7 DEF CodeFits
  <1>10. Status(c)' = "pending" => Undecided(c)' /\ \A q \in Requests : ~HeldBy(c, q)'
    BY <1>1, <1>2, <1>3 DEF CodeFits
  <1>11. CodeFits(c)'
    BY <1>5, <1>6, <1>9, <1>10, <1>8 DEF CodeFits
  <1>12. Exclusive(c)'
    BY <1>1, <1>2, <1>3 DEF Exclusive
  <1> QED
    BY <1>11, <1>12

LEMMA PollingFinite ==
    ASSUME DeviceIInv, NEW c \in Codes
    PROVE  /\ IsFiniteSet(Polling(c)) /\ Cardinality(Polling(c)) \in Nat
           /\ Cardinality(Polling(c)) <= Cardinality(Requests)
           /\ Cardinality(Requests) \in Nat /\ MaxMints \in Nat
           /\ log[c].minted \in Nat
  <1>1. Polling(c) \subseteq Requests
    BY DEF Polling
  <1>2. IsFiniteSet(Polling(c)) /\ Cardinality(Polling(c)) <= Cardinality(Requests)
    BY <1>1, BoundAssumption, FS_Subset
  <1>3. Cardinality(Polling(c)) \in Nat /\ Cardinality(Requests) \in Nat
    BY <1>2, BoundAssumption, FS_CardinalityType
  <1>4. log[c] \in Log
    BY DEF DeviceIInv, TypeOK
  <1> QED
    BY <1>2, <1>3, <1>4, BoundAssumption DEF Log

LEMMA MintsKeep ==
    ASSUME DeviceIInv, NEW c \in Codes, log'[c].minted = log[c].minted,
           Polling(c)' \subseteq Polling(c)
    PROVE  MintsFit(c)'
  <1>1. Cardinality(Polling(c)') <= Cardinality(Polling(c)) /\ IsFiniteSet(Polling(c)')
    BY PollingFinite, FS_Subset
  <1>2. Cardinality(Polling(c)') \in Nat
    BY <1>1, FS_CardinalityType
  <1>3. MintsFit(c)
    BY DEF DeviceIInv
  <1> QED
    BY <1>1, <1>2, <1>3, PollingFinite DEF MintsFit

\* q moves to r and gets no further with any code: not to a decision, not to
\* the record of one, not to a claim.
NoFurther(q, r) ==
    LET s == req[q] IN
    /\ r.pc # "setDevice"
    /\ r.pc \in Deciders => s.pc \in Deciders /\ s.code = r.code
    /\ r.pc \in Holders => s.pc \in Holders /\ s.code = r.code
    /\ r.pc \in {"cleanup", "recheck", "mint"} /\ r.record.status = "approved" =>
          /\ s.pc \in {"cleanup", "recheck", "mint"} /\ s.code = r.code
          /\ s.record.status = "approved"

LEMMA NoFurtherHolds ==
    ASSUME DeviceIInv, NEW q \in Requests, NEW r \in Call, NoFurther(q, r),
           req' = [req EXCEPT ![q] = r], NEW c \in Codes, NEW p \in Requests
    PROVE  /\ DecidedBy(c, p)' => DecidedBy(c, p)
           /\ HeldBy(c, p)' => HeldBy(c, p)
           /\ ClaimedBy(c, p)' => ClaimedBy(c, p)
           /\ StoredBy(c, p)' => StoredBy(c, p)
  <1>1. req'[p] = IF p = q THEN r ELSE req[p]
    BY DEF DeviceIInv, TypeOK
  <1>2. CASE p = q
    <2>1. req'[p] = r
      BY <1>1, <1>2
    <2> QED
      BY <1>2, <2>1 DEF NoFurther, DecidedBy, HeldBy, ClaimedBy, StoredBy
  <1>3. CASE p # q
    <2>1. req'[p] = req[p]
      BY <1>1, <1>3
    <2> QED
      BY <2>1 DEF DecidedBy, HeldBy, ClaimedBy, StoredBy
  <1> QED
    BY <1>2, <1>3

\* Such a call is no new poll either, unless it is one of "consume".
LEMMA NoFurtherPolls ==
    ASSUME DeviceIInv, NEW q \in Requests, NEW r \in Call, NoFurther(q, r),
           r.pc # "consume", req' = [req EXCEPT ![q] = r], NEW c \in Codes
    PROVE  Polling(c)' \subseteq Polling(c)
  <1>1. \A p \in Requests : req'[p] = IF p = q THEN r ELSE req[p]
    BY DEF DeviceIInv, TypeOK
  <1>2. ASSUME NEW p \in Requests, req'[p].code = c, req'[p].pc \in {"consume"} \union Holders
        PROVE  req[p].code = c /\ req[p].pc \in {"consume"} \union Holders
    <2>1. CASE p = q
      <3>1. req'[p] = r
        BY <1>1, <2>1
      <3> QED
        BY <1>2, <2>1, <3>1 DEF NoFurther
    <2>2. CASE p # q
      BY <1>1, <1>2, <2>2
    <2> QED
      BY <2>1, <2>2
  <1> QED
    BY <1>2 DEF Polling

\* Steps that only move a call on, and at most delete records.
LEMMA QuietStep ==
    ASSUME DeviceIInv, NEW q \in Requests, NEW r \in Call, NoFurther(q, r), CallFits(r)',
           r.pc # "consume",
           req' = [req EXCEPT ![q] = r], log' = log,
           grant \subseteq grant', grant' \subseteq Users \X Clients,
           throttle' \subseteq Codes,
           userCode' \in [UserCodes -> Codes \union {None}],
           device' \in [Codes -> MaybeRecord],
           \A c \in Codes : device'[c] \in {device[c], NoRecord}
    PROVE  DeviceIInv'
  <1>1. LogGrows
    BY DEF LogGrows, Consents
  <1>2. req' \in [Requests -> Call] /\ \A p \in Requests : CallFits(req[p])'
    BY <1>1, CallsKeep
  <1>3. TypeOK'
    BY <1>2 DEF DeviceIInv, TypeOK
  <1>4. ASSUME NEW c \in Codes
        PROVE  CodeFits(c)' /\ Exclusive(c)' /\ MintsFit(c)'
    <2>1. \A p \in Requests : /\ DecidedBy(c, p)' => DecidedBy(c, p)
                              /\ HeldBy(c, p)' => HeldBy(c, p)
                              /\ ClaimedBy(c, p)' => ClaimedBy(c, p)
                              /\ StoredBy(c, p)' => StoredBy(c, p)
      BY NoFurtherHolds
    <2>2. CodeFits(c)' /\ Exclusive(c)'
      BY <1>1, <2>1, CodeKeeps
    <2>3. MintsFit(c)'
      BY NoFurtherPolls, MintsKeep
    <2> QED
      BY <2>2, <2>3
  <1> QED
    BY <1>2, <1>3, <1>4 DEF DeviceIInv

LEMMA IdleQuiet ==
    ASSUME DeviceIInv, NEW q \in Requests
    PROVE  Idle \in Call /\ NoFurther(q, Idle) /\ CallFits(Idle)' /\ Idle.pc # "consume"
  BY NoRecordFields DEF NoFurther, CallFits, Deciders, Holders

LEMMA ReturnQuiet ==
    ASSUME DeviceIInv, NEW q \in Requests, Return(q),
           UNCHANGED <<userCode, throttle, grant, log>>,
           device' \in [Codes -> MaybeRecord],
           \A c \in Codes : device'[c] \in {device[c], NoRecord}
    PROVE  DeviceIInv'
  <1>1. PICK r : r = Idle
    OBVIOUS
  <1>2. /\ userCode' \in [UserCodes -> Codes \union {None}]
        /\ throttle' \subseteq Codes /\ grant \subseteq grant' /\ grant' \subseteq Users \X Clients
        /\ log' = log
    BY DEF DeviceIInv, TypeOK
  <1>3. r \in Call /\ NoFurther(q, r) /\ CallFits(r)' /\ r.pc # "consume"
    BY <1>1, IdleQuiet
  <1>4. req' = [req EXCEPT ![q] = r]
    BY <1>1 DEF Return
  <1> QED
    BY <1>2, <1>3, <1>4, QuietStep

\* Goto: the record and the code stay in hand.
LEMMA GotoQuiet ==
    ASSUME DeviceIInv, NEW q \in Requests, NEW pc, Goto(q, pc), log' = log,
           NEW s, s = req[q],
           device' = device, throttle' = throttle,
           userCode' \in [UserCodes -> Codes \union {None}],
           grant \subseteq grant', grant' \subseteq Users \X Clients,
           \/ /\ s.pc \in {"upsert", "ttl"} /\ pc \in {"ttl", "set"}
              /\ s.record.status # "pending"
              /\ RecordFits(s.code, s.record)'
           \/ s.pc = "cleanup" /\ pc \in {"drop", "recheck"}
              /\ (pc = "recheck" => s.record.status = "approved")
           \/ s.pc = "recheck" /\ pc = "mint" /\ s.record.client = s.by
    PROVE  DeviceIInv'
  <1>1. s = req[q]
    OBVIOUS
  <1>2. s \in Call /\ CallFits(s)
    BY <1>1 DEF DeviceIInv, TypeOK
  <1>3. PICK r : r = [s EXCEPT !.pc = pc]
    OBVIOUS
  <1>4. /\ r \in Call /\ r.pc = pc /\ r.code = s.code /\ r.by = s.by /\ r.record = s.record
        /\ r.userCode = s.userCode
    BY <1>1, <1>2, <1>3 DEF Call
  <1>5. req' = [req EXCEPT ![q] = r]
    BY <1>1, <1>3 DEF Goto, DeviceIInv, TypeOK
  <1>6. LogGrows
    BY DEF LogGrows, Consents
  <1>7. CallFits(s)'
    BY <1>2, <1>6, CallKeeps
  <1>8. NoFurther(q, r) /\ r.pc # "consume"
    BY <1>1, <1>4 DEF NoFurther, Deciders, Holders
  <1>9. CallFits(r)'
    <2>1. r.pc \in {"ttl", "set"} \union Holders => RecordFits(r.code, r.record)'
      BY <1>1, <1>4, <1>7 DEF CallFits, Deciders, Holders
    <2>2. /\ r.pc \in {"ttl", "set", "drop", "recheck", "mint"}
          /\ r.pc \in {"ttl", "set"} => s.pc \in {"upsert", "ttl"} /\ s.record.status # "pending"
          /\ r.pc \notin {"ttl", "set"} => s.pc \in {"cleanup", "recheck"}
          /\ r.pc = "recheck" => s.record.status = "approved"
          /\ r.pc = "mint" => s.pc = "recheck" /\ s.record.client = s.by
      BY <1>1, <1>4
    <2>3. /\ s.code \in Codes /\ s.record \in Record
          /\ s.record.client = log'[s.code].client
          /\ s.pc \in {"upsert", "ttl"} => s.by \in Users
          /\ s.pc \in {"cleanup", "recheck"} => s.by \in Clients
          /\ s.pc = "recheck" => s.record.status = "approved"
          /\ s.pc \in {"cleanup", "recheck"} => s.record.status # "pending"
      BY <1>7, <2>2 DEF CallFits, Deciders, Holders
    <2> QED
      BY <1>4, <2>1, <2>2, <2>3 DEF CallFits, Deciders, Holders
  <1>10. /\ throttle' \subseteq Codes /\ device' \in [Codes -> MaybeRecord]
         /\ \A c \in Codes : device'[c] \in {device[c], NoRecord}
    BY DEF DeviceIInv, TypeOK
  <1> QED
    BY <1>4, <1>5, <1>8, <1>9, <1>10, QuietStep

-----------------------------------------------------------------------------
(* The steps that move a call on and decide, claim and mint nothing.       *)

\* What holds of the call that takes a step.
LEMMA CallHas ==
    ASSUME DeviceIInv, NEW q \in Requests, NEW s, s = req[q]
    PROVE  s \in Call /\ CallFits(s)
  BY DEF DeviceIInv, TypeOK

LEMMA StartDecisionNext ==
    ASSUME DeviceIInv, NEW q \in Requests, NEW user \in Users, NEW u \in UserCodes,
           NEW approve \in BOOLEAN, StartDecision(q, user, u, approve)
    PROVE  DeviceIInv'
  <1>1. PICK r : r = [Idle EXCEPT !.pc = "getUser", !.by = user, !.userCode = u,
                                  !.approve = approve]
    OBVIOUS
  <1>2. r \in Call /\ r.pc = "getUser" /\ r.userCode = u /\ r.by = user
    BY <1>1 DEF Idle, Call, MaybeRecord, NoRecord
  <1>3. NoFurther(q, r) /\ CallFits(r)' /\ r.pc # "consume"
    BY <1>2 DEF NoFurther, CallFits, Deciders, Holders
  <1>4. req' = [req EXCEPT ![q] = r]
    BY <1>1 DEF StartDecision
  <1>5. UNCHANGED <<device, userCode, throttle, grant, log>>
    BY DEF StartDecision
  <1> QED
    BY <1>2, <1>3, <1>4, <1>5, QuietStep DEF DeviceIInv, TypeOK

LEMMA GetUserCodeNext ==
    ASSUME DeviceIInv, NEW q \in Requests, GetUserCode(q)
    PROVE  DeviceIInv'
  <1>1. UNCHANGED <<device, userCode, throttle, grant, log>>
    BY DEF GetUserCode
  <1>2. PICK s : s = req[q]
    OBVIOUS
  <1>3. s \in Call /\ CallFits(s) /\ s.pc = "getUser"
    BY <1>2, CallHas DEF GetUserCode, At
  <1>4. PICK c : c = userCode[s.userCode]
    OBVIOUS
  <1>5. c \in Codes \union {None}
    BY <1>3, <1>4 DEF CallFits, DeviceIInv, TypeOK
  <1>6. CASE c = None
    <2>1. Return(q)
      BY <1>2, <1>4, <1>6 DEF GetUserCode
    <2> QED
      BY <1>1, <2>1, ReturnQuiet DEF DeviceIInv, TypeOK
  <1>7. CASE c # None
    <2>1. PICK r : r = [s EXCEPT !.pc = "getDevice", !.code = c]
      OBVIOUS
    <2>2. r \in Call /\ r.pc = "getDevice" /\ r.code = c /\ r.by = s.by
      BY <1>3, <1>5, <2>1 DEF Call
    <2>3. s.by \in Users
      BY <1>3 DEF CallFits
    <2>4. NoFurther(q, r) /\ CallFits(r)' /\ r.pc # "consume"
      BY <1>5, <1>7, <2>2, <2>3 DEF NoFurther, CallFits, Deciders, Holders
    <2>5. req' = [req EXCEPT ![q] = r]
      BY <1>2, <1>4, <1>7, <2>1 DEF GetUserCode, DeviceIInv, TypeOK
    <2> QED
      BY <1>1, <2>2, <2>4, <2>5, QuietStep DEF DeviceIInv, TypeOK
  <1> QED
    BY <1>6, <1>7

LEMMA UpsertGrantNext ==
    ASSUME DeviceIInv, NEW q \in Requests, UpsertGrant(q)
    PROVE  DeviceIInv'
  <1>1. PICK s : s = req[q]
    OBVIOUS
  <1>2. s \in Call /\ CallFits(s) /\ s.pc = "upsert"
    BY <1>1, CallHas DEF UpsertGrant, At
  <1>3. /\ s.code \in Codes /\ s.by \in Users /\ s.record \in Record
        /\ s.record.status = "approved" /\ s.record.user = s.by
        /\ s.record.client = log[s.code].client /\ s.by \in log[s.code].approvers
        /\ s.record.client \in Clients
    BY <1>2 DEF CallFits, Deciders, Record
  <1>4. /\ grant' = grant \union {<<s.by, s.record.client>>}
        /\ Goto(q, "ttl")
        /\ device' = device /\ userCode' = userCode /\ throttle' = throttle /\ log' = log
    BY <1>1 DEF UpsertGrant
  <1>5. grant \subseteq grant' /\ grant' \subseteq Users \X Clients
    BY <1>3, <1>4 DEF DeviceIInv, TypeOK
  <1>6. RecordFits(s.code, s.record)'
    BY <1>3, <1>4 DEF RecordFits, Consents
  <1> QED
    BY <1>1, <1>2, <1>3, <1>4, <1>5, <1>6, GotoQuiet DEF DeviceIInv, TypeOK

LEMMA UpdateTTLNext ==
    ASSUME DeviceIInv, NEW q \in Requests, UpdateTTL(q)
    PROVE  DeviceIInv'
  <1>1. UNCHANGED <<device, userCode, throttle, grant, log>>
    BY DEF UpdateTTL
  <1>2. CASE Return(q)
    BY <1>1, <1>2, ReturnQuiet DEF DeviceIInv, TypeOK
  <1>3. CASE Goto(q, "set")
    <2>1. PICK s : s = req[q]
      OBVIOUS
    <2>2. s \in Call /\ CallFits(s) /\ s.pc = "ttl"
      BY <2>1, CallHas DEF UpdateTTL, At
    <2>3. s.record.status # "pending" /\ RecordFits(s.code, s.record)
      BY <2>2 DEF CallFits
    <2>4. RecordFits(s.code, s.record)'
      BY <1>1, <2>3 DEF RecordFits, Consents
    <2> QED
      BY <1>1, <1>3, <2>1, <2>2, <2>3, <2>4, GotoQuiet DEF DeviceIInv, TypeOK
  <1> QED
    BY <1>2, <1>3 DEF UpdateTTL

LEMMA DeleteUserCodeNext ==
    ASSUME DeviceIInv, NEW q \in Requests, DeleteUserCode(q)
    PROVE  DeviceIInv'
  <1>1. PICK s : s = req[q]
    OBVIOUS
  <1>2. s \in Call /\ CallFits(s) /\ s.pc = "cleanup"
    BY <1>1, CallHas DEF DeleteUserCode, At
  <1>3. UNCHANGED <<device, throttle, grant, log>>
    BY DEF DeleteUserCode
  <1>4. userCode' \in [UserCodes -> Codes \union {None}]
    BY DEF DeleteUserCode, DeviceIInv, TypeOK
  <1>5. CASE s.record.status = "denied"
    <2>1. Goto(q, "drop")
      BY <1>1, <1>5 DEF DeleteUserCode
    <2> QED
      BY <1>1, <1>2, <1>3, <1>4, <2>1, GotoQuiet DEF DeviceIInv, TypeOK
  <1>6. CASE s.record.status # "denied"
    <2>1. Goto(q, "recheck")
      BY <1>1, <1>6 DEF DeleteUserCode
    <2>2. s.record.status = "approved"
      BY <1>2, <1>6 DEF CallFits, Holders, Record
    <2> QED
      BY <1>1, <1>2, <1>3, <1>4, <2>1, <2>2, GotoQuiet DEF DeviceIInv, TypeOK
  <1> QED
    BY <1>5, <1>6

LEMMA DeleteDeniedNext ==
    ASSUME DeviceIInv, NEW q \in Requests, DeleteDenied(q)
    PROVE  DeviceIInv'
  <1>1. Return(q) /\ UNCHANGED <<userCode, throttle, grant, log>>
    BY DEF DeleteDenied
  <1>2. PICK c : c = req[q].code
    OBVIOUS
  <1>3. device' = [device EXCEPT ![c] = NoRecord]
    BY <1>2 DEF DeleteDenied
  <1>4. /\ device' \in [Codes -> MaybeRecord]
        /\ \A d \in Codes : device'[d] \in {device[d], NoRecord}
    BY <1>3, NoRecordFields DEF DeviceIInv, TypeOK
  <1> QED
    BY <1>1, <1>4, ReturnQuiet

LEMMA RedeemRecheckNext ==
    ASSUME DeviceIInv, NEW q \in Requests, RedeemRecheck(q)
    PROVE  DeviceIInv'
  <1>1. UNCHANGED <<device, userCode, throttle, grant, log>>
    BY DEF RedeemRecheck
  <1>2. PICK s : s = req[q]
    OBVIOUS
  <1>3. s.pc = "recheck"
    BY <1>2 DEF RedeemRecheck, At
  <1>4. CASE s.record.client = s.by
    <2>1. Goto(q, "mint")
      BY <1>2, <1>4 DEF RedeemRecheck
    <2> QED
      BY <1>1, <1>2, <1>3, <1>4, <2>1, GotoQuiet DEF DeviceIInv, TypeOK
  <1>5. CASE s.record.client # s.by
    <2>1. Return(q)
      BY <1>2, <1>5 DEF RedeemRecheck
    <2> QED
      BY <1>1, <2>1, ReturnQuiet DEF DeviceIInv, TypeOK
  <1> QED
    BY <1>4, <1>5

LEMMA CallFailsNext ==
    ASSUME DeviceIInv, NEW q \in Requests, CallFails(q)
    PROVE  DeviceIInv'
  BY ReturnQuiet DEF CallFails, DeviceIInv, TypeOK

-----------------------------------------------------------------------------
(* The steps that decide, claim or mint.                                   *)

\* What q is once it moved to r; the other calls are what they were.
LEMMA Moved ==
    ASSUME DeviceIInv, NEW q \in Requests, NEW r \in Call, req' = [req EXCEPT ![q] = r],
           NEW c \in Codes
    PROVE  /\ DecidedBy(c, q)' <=> r.code = c /\ r.pc \in Deciders
           /\ HeldBy(c, q)' <=> r.code = c /\ r.pc \in Holders
           /\ ClaimedBy(c, q)' <=> /\ r.code = c /\ r.pc \in {"cleanup", "recheck", "mint"}
                                   /\ r.record.status = "approved"
           /\ StoredBy(c, q)' <=> r.code = c /\ r.pc = "setDevice"
           /\ \A p \in Requests \ {q} :
                 /\ DecidedBy(c, p)' <=> DecidedBy(c, p)
                 /\ HeldBy(c, p)' <=> HeldBy(c, p)
                 /\ ClaimedBy(c, p)' <=> ClaimedBy(c, p)
                 /\ StoredBy(c, p)' <=> StoredBy(c, p)
  <1>1. req'[q] = r
    BY DEF DeviceIInv, TypeOK
  <1>2. ASSUME NEW p \in Requests \ {q}
        PROVE  req'[p] = req[p]
    BY DEF DeviceIInv, TypeOK
  <1>3. ASSUME NEW p \in Requests \ {q}
        PROVE  /\ DecidedBy(c, p)' <=> DecidedBy(c, p)
               /\ HeldBy(c, p)' <=> HeldBy(c, p)
               /\ ClaimedBy(c, p)' <=> ClaimedBy(c, p)
               /\ StoredBy(c, p)' <=> StoredBy(c, p)
    BY <1>2, <1>3 DEF DecidedBy, HeldBy, ClaimedBy, StoredBy
  <1> QED
    BY <1>1, <1>3 DEF DecidedBy, HeldBy, ClaimedBy, StoredBy

\* A step of q with one code leaves the other codes as they were.
LEMMA OtherCodes ==
    ASSUME DeviceIInv, NEW q \in Requests, NEW r \in Call, req' = [req EXCEPT ![q] = r],
           NEW d \in Codes, r.pc = "idle" \/ r.code # d,
           device'[d] = device[d], log'[d] = log[d], LogGrows
    PROVE  CodeFits(d)' /\ Exclusive(d)' /\ MintsFit(d)'
  <1>1. \A p \in Requests : req'[p] = IF p = q THEN r ELSE req[p]
    BY DEF DeviceIInv, TypeOK
  <1>2. ~(r.code = d /\ r.pc \in {"setDevice", "consume"} \union Deciders \union Holders)
    BY DEF Deciders, Holders
  <1>3. \A p \in Requests : /\ DecidedBy(d, p)' => DecidedBy(d, p)
                            /\ HeldBy(d, p)' => HeldBy(d, p)
                            /\ ClaimedBy(d, p)' => ClaimedBy(d, p)
                            /\ StoredBy(d, p)' => StoredBy(d, p)
    <2>1. ~DecidedBy(d, q)' /\ ~HeldBy(d, q)' /\ ~ClaimedBy(d, q)'
          /\ ~StoredBy(d, q)'
      <3>1. req'[q] = r
        BY <1>1
      <3> QED
        BY <1>2, <3>1 DEF DecidedBy, HeldBy, ClaimedBy, StoredBy, Holders
    <2>2. ASSUME NEW p \in Requests, p # q
          PROVE  req'[p] = req[p]
      BY <1>1, <2>2
    <2> QED
      BY <2>1, <2>2 DEF DecidedBy, HeldBy, ClaimedBy, StoredBy
  <1>4. CodeFits(d)' /\ Exclusive(d)'
    BY <1>3, CodeKeeps
  <1>5. ASSUME NEW p \in Requests, req'[p].code = d, req'[p].pc \in {"consume"} \union Holders
        PROVE  req[p].code = d /\ req[p].pc \in {"consume"} \union Holders
    <2>1. p # q
      BY <1>1, <1>2, <1>5
    <2> QED
      BY <1>1, <1>5, <2>1
  <1>6. Polling(d)' \subseteq Polling(d)
    BY <1>5 DEF Polling
  <1> QED
    BY <1>4, <1>6, MintsKeep

LEMMA StartDeviceAuthorizationNext ==
    ASSUME DeviceIInv, NEW q \in Requests, NEW k \in Clients, NEW c \in Codes,
           NEW u \in UserCodes, StartDeviceAuthorization(q, k, c, u)
    PROVE  DeviceIInv'
  <1>1. PICK r : r = [Idle EXCEPT !.pc = "setDevice", !.code = c, !.userCode = u]
    OBVIOUS
  <1>2. r \in Call /\ r.pc = "setDevice" /\ r.code = c /\ r.userCode = u
    BY <1>1 DEF Idle, Call, MaybeRecord, NoRecord
  <1>3. /\ At(q, "idle") /\ log[c].client = None
        /\ req' = [req EXCEPT ![q] = r]
        /\ log' = [log EXCEPT ![c].client = k]
        /\ userCode' = [userCode EXCEPT ![u] = c]
        /\ device' = device /\ throttle' = throttle /\ grant' = grant
    BY <1>1 DEF StartDeviceAuthorization
  <1>4. PICK l : l = [log[c] EXCEPT !.client = k]
    OBVIOUS
  <1>5. log[c] \in Log /\ log \in [Codes -> Log]
    BY DEF DeviceIInv, TypeOK
  <1>6. /\ l \in Log /\ l.client = k /\ l.approvers = log[c].approvers
        /\ l.denied = log[c].denied /\ l.contended = log[c].contended /\ l.withdrawn = log[c].withdrawn
        /\ l.minted = log[c].minted /\ l.to = log[c].to
    BY <1>4, <1>5 DEF Log
  <1>7. log' = [log EXCEPT ![c] = l] /\ log' \in [Codes -> Log] /\ log'[c] = l
    BY <1>3, <1>4, <1>5, <1>6
  <1>8. LogGrows
    BY <1>3, <1>5, <1>6, <1>7 DEF LogGrows, Consents
  <1>9. CallFits(r)'
    BY <1>2, <1>6, <1>7, NoneAssumption DEF CallFits, Deciders, Holders
  <1>10. req' \in [Requests -> Call] /\ \A p \in Requests : CallFits(req[p])'
    BY <1>2, <1>3, <1>8, <1>9, CallsKeep
  <1>11. TypeOK'
    BY <1>3, <1>7, <1>10 DEF DeviceIInv, TypeOK
  <1>12. CodeFits(c)' /\ Exclusive(c)'
    <2>1. Unwritten(c)
      BY <1>3 DEF Unwritten
    <2>2. /\ DecidedBy(c, q)' => DecidedBy(c, q)
          /\ HeldBy(c, q)' => HeldBy(c, q)
          /\ ClaimedBy(c, q)' => ClaimedBy(c, q)
      BY <1>2, <1>3, Moved DEF Deciders, Holders
    <2>3. \A p \in Requests : /\ DecidedBy(c, p)' => DecidedBy(c, p)
                              /\ HeldBy(c, p)' => HeldBy(c, p)
                              /\ ClaimedBy(c, p)' => ClaimedBy(c, p)
      <3>1. \A p \in Requests \ {q} :
               /\ DecidedBy(c, p)' <=> DecidedBy(c, p)
               /\ HeldBy(c, p)' <=> HeldBy(c, p)
               /\ ClaimedBy(c, p)' <=> ClaimedBy(c, p)
        BY <1>2, <1>3, Moved
      <3> QED
        BY <2>2, <3>1
    <2>4. CodeFits(c) /\ Exclusive(c)
      BY DEF DeviceIInv
    <2>5. Status(c)' = "none" /\ Undecided(c)' /\ log'[c].to = {}
      BY <1>3, <1>6, <1>7, <2>1, <2>4 DEF CodeFits, Undecided, Status
    <2>6. \A p \in Requests : ~DecidedBy(c, p)' /\ ~HeldBy(c, p)'
      BY <2>1, <2>3, <2>4 DEF CodeFits
    <2>7. \A p \in Requests : ~ClaimedBy(c, p)'
      BY <2>6 DEF ClaimedBy, HeldBy, Holders
    <2>8. device'[c] = NoRecord
      BY <1>3, <2>1, <2>4, NoRecordFields DEF CodeFits, Status, DeviceIInv, TypeOK, Record
    <2>9. \A p \in Requests : StoredBy(c, p)' => p = q
      <3>1. ASSUME NEW p \in Requests \ {q}, StoredBy(c, p)'
            PROVE  FALSE
        <4>1. PICK t : t = req[p]
          OBVIOUS
        <4>2. t.code = c /\ t.pc = "setDevice"
          BY <1>2, <1>3, <3>1, <4>1, Moved DEF StoredBy
        <4> QED
          BY <1>3, <4>1, <4>2, CallHas DEF CallFits
      <3> QED
        BY <3>1
    <2> QED
      BY <2>5, <2>6, <2>7, <2>8, <2>9 DEF CodeFits, Exclusive, Undecided
  <1>13. MintsFit(c)'
    <2>2. \A p \in Requests : req'[p] = IF p = q THEN r ELSE req[p]
      BY <1>2, <1>3 DEF DeviceIInv, TypeOK
    <2>3. Polling(c)' \subseteq Polling(c)
      BY <1>2, <2>2 DEF Polling, Holders
    <2> QED
      BY <1>6, <1>7, <2>3, MintsKeep
  <1>14. ASSUME NEW d \in Codes, d # c
         PROVE  CodeFits(d)' /\ Exclusive(d)' /\ MintsFit(d)'
    BY <1>2, <1>3, <1>5, <1>7, <1>8, <1>14, OtherCodes
  <1> QED
    BY <1>10, <1>11, <1>12, <1>13, <1>14 DEF DeviceIInv

\* A step of q with c, once c and q are seen to fit.
LEMMA CodeStep ==
    ASSUME DeviceIInv, NEW q \in Requests, NEW r \in Call, req' = [req EXCEPT ![q] = r],
           NEW c \in Codes, r.pc = "idle" \/ r.code = c,
           LogGrows, CallFits(r)', UNCHANGED <<userCode, grant>>, throttle' \subseteq Codes,
           device' \in [Codes -> MaybeRecord], log' \in [Codes -> Log],
           \A d \in Codes \ {c} : device'[d] = device[d] /\ log'[d] = log[d],
           CodeFits(c)', Exclusive(c)', MintsFit(c)'
    PROVE  DeviceIInv'
  <1>2. req' \in [Requests -> Call] /\ \A p \in Requests : CallFits(req[p])'
    BY CallsKeep
  <1>3. TypeOK'
    BY <1>2 DEF DeviceIInv, TypeOK
  <1>4. ASSUME NEW d \in Codes, d # c
        PROVE  CodeFits(d)' /\ Exclusive(d)' /\ MintsFit(d)'
    <2>1. device'[d] = device[d] /\ log'[d] = log[d]
      BY <1>4
    <2>2. r.pc = "idle" \/ r.code # d
      BY <1>4
    <2> QED
      BY <2>1, <2>2, OtherCodes
  <1> QED
    BY <1>2, <1>3, <1>4 DEF DeviceIInv

\* A call that was not polling c and is not now, or that was, adds no poll.
LEMMA PollsKeep ==
    ASSUME DeviceIInv, NEW q \in Requests, NEW r \in Call, req' = [req EXCEPT ![q] = r],
           NEW c \in Codes, log'[c].minted = log[c].minted, NEW s, s = req[q],
           r.code = c /\ r.pc \in {"consume"} \union Holders =>
               s.code = c /\ s.pc \in {"consume"} \union Holders
    PROVE  MintsFit(c)'
  <1>1. \A p \in Requests : req'[p] = IF p = q THEN r ELSE req[p]
    BY DEF DeviceIInv, TypeOK
  <1>2. ASSUME NEW p \in Requests, req'[p].code = c, req'[p].pc \in {"consume"} \union Holders
        PROVE  req[p].code = c /\ req[p].pc \in {"consume"} \union Holders
    <2>1. CASE p = q
      <3>1. req'[p] = r
        BY <1>1, <2>1
      <3> QED
        BY <1>2, <2>1, <3>1
    <2>2. CASE p # q
      BY <1>1, <1>2, <2>2
    <2> QED
      BY <2>1, <2>2
  <1>3. Polling(c)' \subseteq Polling(c)
    BY <1>2 DEF Polling
  <1> QED
    BY <1>3, MintsKeep

LEMMA CreateRecordNext ==
    ASSUME DeviceIInv, NEW q \in Requests, CreateRecord(q)
    PROVE  DeviceIInv'
  <1>1. PICK s : s = req[q]
    OBVIOUS
  <1>2. s \in Call /\ CallFits(s) /\ s.pc = "setDevice"
    BY <1>1, CallHas DEF CreateRecord, At
  <1>3. PICK c : c = s.code
    OBVIOUS
  <1>4. c \in Codes /\ s.userCode \in UserCodes /\ log[c].client # None
    BY <1>2, <1>3 DEF CallFits
  <1>5. log \in [Codes -> Log] /\ log[c] \in Log /\ device \in [Codes -> MaybeRecord]
    BY <1>4 DEF DeviceIInv, TypeOK
  <1>6. PICK n : n = [client |-> log[c].client, userCode |-> s.userCode,
                      status |-> "pending", user |-> None]
    OBVIOUS
  <1>7. n \in Record /\ n.client = log[c].client /\ n.status = "pending"
    BY <1>4, <1>5, <1>6 DEF Record, Log
  <1>8. n # NoRecord /\ n \in MaybeRecord
    BY <1>7, NoRecordFields DEF MaybeRecord
  <1>9. /\ device' = [device EXCEPT ![c] = n]
        /\ req' = [req EXCEPT ![q] = Idle]
        /\ UNCHANGED <<userCode, throttle, grant, log>>
    BY <1>1, <1>3, <1>6 DEF CreateRecord, Return
  <1>10. /\ device' \in [Codes -> MaybeRecord] /\ device'[c] = n
         /\ \A d \in Codes \ {c} : device'[d] = device[d]
    BY <1>4, <1>5, <1>8, <1>9
  <1>11. LogGrows /\ CallFits(Idle)' /\ Idle \in Call /\ Idle.pc = "idle"
    BY <1>9, NoRecordFields, IdleQuiet DEF LogGrows, Consents
  <1>12. CodeFits(c)' /\ Exclusive(c)'
    <2>1. Unwritten(c)
      BY <1>1, <1>2, <1>3 DEF Unwritten, StoredBy
    <2>2. Undecided(c) /\ log[c].to = {} /\ \A p \in Requests : ~DecidedBy(c, p) /\ ~HeldBy(c, p)
      BY <1>4, <2>1 DEF DeviceIInv, CodeFits
    <2>3. \A p \in Requests : ~DecidedBy(c, p)' /\ ~HeldBy(c, p)'
      <3>1. ~DecidedBy(c, q)' /\ ~HeldBy(c, q)'
        BY <1>4, <1>9, <1>11, Moved DEF Deciders, Holders
      <3> QED
        BY <1>4, <1>9, <1>11, <2>2, <3>1, Moved
    <2>4. \A p \in Requests : ~ClaimedBy(c, p)'
      BY <2>3 DEF ClaimedBy, HeldBy, Holders
    <2>5. Status(c)' = "pending"
      BY <1>7, <1>8, <1>10 DEF Status
    <2>6. RecordFits(c, n)'
      BY <1>7, <1>9 DEF RecordFits
    <2>7. RecordFits(c, device[c])'
      BY <1>10, <2>6
    <2>8. \A p \in Requests : ~StoredBy(c, p)'
      <3>1. StoredBy(c, q) /\ ~StoredBy(c, q)'
        <4>1. req'[q] = Idle
          BY <1>9 DEF DeviceIInv, TypeOK
        <4> QED
          BY <1>1, <1>2, <1>3, <1>11, <4>1 DEF StoredBy
      <3>2. \A p \in Requests : StoredBy(c, p) => p = q
        BY <1>4, <3>1 DEF DeviceIInv, CodeFits
      <3> QED
        BY <1>4, <1>9, <1>11, <3>1, <3>2, Moved
    <2>9. Undecided(c)' /\ log'[c].to = {}
      BY <1>9, <2>2 DEF Undecided
    <2> QED
      <3>1. ~Unwritten(c)'
        BY <1>4, <1>9, <2>8 DEF Unwritten
      <3> QED
        BY <2>3, <2>4, <2>5, <2>7, <2>8, <2>9, <3>1 DEF CodeFits, Exclusive, Undecided
  <1>13. MintsFit(c)'
    BY <1>1, <1>4, <1>9, <1>11, PollsKeep DEF Holders
  <1>14. log' \in [Codes -> Log] /\ throttle' \subseteq Codes
    BY <1>9 DEF DeviceIInv, TypeOK
  <1> QED
    BY <1>4, <1>9, <1>10, <1>11, <1>12, <1>13, <1>14, CodeStep

LEMMA DecideRecordNext ==
    ASSUME DeviceIInv, NEW q \in Requests, DecideRecord(q)
    PROVE  DeviceIInv'
  <1>1. PICK s : s = req[q]
    OBVIOUS
  <1>2. s \in Call /\ CallFits(s) /\ s.pc = "getDevice"
    BY <1>1, CallHas DEF DecideRecord, At
  <1>3. PICK c : c = s.code
    OBVIOUS
  <1>4. c \in Codes /\ s.by \in Users
    BY <1>2, <1>3 DEF CallFits
  <1>5. PICK n : n = device[c]
    OBVIOUS
  <1>6. UNCHANGED <<device, userCode, throttle, grant>>
    BY DEF DecideRecord
  <1>7. CASE n = NoRecord \/ n.status # "pending"
    <2>1. Return(q) /\ UNCHANGED log
      BY <1>1, <1>3, <1>5, <1>7 DEF DecideRecord
    <2> QED
      BY <1>6, <2>1, ReturnQuiet DEF DeviceIInv, TypeOK
  <1>8. CASE ~(n = NoRecord \/ n.status # "pending")
    <2>1. /\ n \in Record /\ n.status = "pending" /\ RecordFits(c, n)
          /\ n.client = log[c].client
      BY <1>4, <1>5, <1>8, NoRecordFields DEF DeviceIInv, TypeOK, CodeFits, RecordFits
    <2>2. PICK m : m = IF s.approve THEN n ELSE [n EXCEPT !.status = "denied"]
      OBVIOUS
    <2>3. /\ m \in Record /\ m.client = log[c].client
          /\ ~s.approve => m.status = "denied"
          /\ s.approve \in BOOLEAN
      BY <1>2, <2>1, <2>2 DEF Record, Call
    <2>4. PICK r : r = [s EXCEPT !.pc = IF s.approve THEN "authorize" ELSE "ttl", !.record = m]
      OBVIOUS
    <2>5. /\ r \in Call /\ r.code = c /\ r.by = s.by /\ r.record = m
          /\ r.pc \in {"authorize", "ttl"} /\ (r.pc = "ttl" => m.status = "denied")
      BY <1>2, <1>3, <2>3, <2>4 DEF Call, MaybeRecord
    <2>6. PICK b \in BOOLEAN : b = (Deciding(c, q) # {})
      OBVIOUS
    <2>7. log \in [Codes -> Log] /\ log[c] \in Log
      BY <1>4 DEF DeviceIInv, TypeOK
    <2>8. PICK l : l = [log[c] EXCEPT !.contended = @ \/ b]
      OBVIOUS
    <2>9. /\ l \in Log /\ l.client = log[c].client /\ l.approvers = log[c].approvers
          /\ l.denied = log[c].denied /\ l.minted = log[c].minted /\ l.to = log[c].to
          /\ l.withdrawn = log[c].withdrawn
          /\ l.contended = (log[c].contended \/ b)
      BY <2>7, <2>8 DEF Log
    <2>10. req' = [req EXCEPT ![q] = r] /\ log' = [log EXCEPT ![c].contended = @ \/ b]
      BY <1>1, <1>3, <1>5, <1>8, <2>2, <2>4, <2>6 DEF DecideRecord, DeviceIInv, TypeOK
    <2>11. /\ log' \in [Codes -> Log] /\ log'[c] = l
           /\ \A d \in Codes \ {c} : log'[d] = log[d]
      BY <1>4, <2>7, <2>8, <2>9, <2>10
    <2>12. LogGrows
      BY <1>6, <2>9, <2>11 DEF LogGrows, Consents
    <2>13. CallFits(r)'
      <3>1. m.client = log'[c].client
        BY <2>3, <2>9, <2>11
      <3>2. r.pc = "ttl" => RecordFits(c, m)'
        BY <2>5, <3>1 DEF RecordFits
      <3> QED
        BY <1>4, <2>3, <2>5, <3>1, <3>2 DEF CallFits, Deciders, Holders
    <2>14. /\ \A p \in Requests \ {q} : DecidedBy(c, p)' <=> DecidedBy(c, p)
           /\ \A p \in Requests : /\ HeldBy(c, p)' => HeldBy(c, p)
                                  /\ StoredBy(c, p)' => StoredBy(c, p)
      <3>1. ~HeldBy(c, q)' /\ ~StoredBy(c, q)'
        BY <1>4, <2>5, <2>10, Moved DEF Holders
      <3> QED
        BY <1>4, <2>5, <2>10, <3>1, Moved
    <2>15. Status(c) = "pending" /\ Status(c)' = "pending"
      BY <1>5, <1>6, <1>8, <2>1 DEF Status
    <2>16. /\ Undecided(c) /\ \A p \in Requests : ~HeldBy(c, p)
           /\ ~Unwritten(c)
      BY <1>4, <2>15 DEF DeviceIInv, CodeFits
    <2>17. Undecided(c)' /\ ~Unwritten(c)' /\ \A p \in Requests : ~HeldBy(c, p)'
      BY <2>9, <2>11, <2>14, <2>16 DEF Undecided, Unwritten
    <2>18. \A p \in Requests : ~ClaimedBy(c, p)'
      BY <2>17 DEF ClaimedBy, HeldBy, Holders
    <2>19. CodeFits(c)'
      <3>1. RecordFits(c, n)'
        BY <1>4, <2>1, <2>12, <1>6, RecordKeeps
      <3>2. RecordFits(c, device[c])'
        BY <1>5, <1>6, <3>1
      <3>3. \A p, p2 \in Requests : StoredBy(c, p)' /\ StoredBy(c, p2)' => p = p2
        BY <1>4, <2>14 DEF DeviceIInv, CodeFits
      <3>4. \A v \in Users, k \in Clients : <<v, k>> \in log'[c].to =>
               v \in Consents(c)' /\ k = log'[c].client
        BY <1>4, <1>6, <2>9, <2>11 DEF DeviceIInv, CodeFits, Consents
      <3> QED
        BY <2>15, <2>17, <3>2, <3>3, <3>4 DEF CodeFits
    <2>20. Exclusive(c)'
      <3>1. ASSUME ~log'[c].contended
            PROVE  \A p \in Requests \ {q} : ~DecidedBy(c, p)'
        <4>1. ~b
          BY <2>9, <2>11, <3>1
        <4>2. Deciding(c, q) = {}
          BY <2>6, <4>1
        <4>3. \A p \in Requests \ {q} : ~DecidedBy(c, p)
          BY <4>2 DEF Deciding, DecidedBy, Deciders
        <4> QED
          BY <2>14, <4>3
      <3> QED
        BY <2>15, <2>17, <2>18, <3>1 DEF Exclusive, Undecided
    <2>21. MintsFit(c)'
      <3>1. log'[c].minted = log[c].minted
        BY <2>9, <2>11
      <3>2. r \in Call /\ r.pc \notin {"consume"} \union Holders
        BY <2>5 DEF Holders
      <3>3. req' = [req EXCEPT ![q] = r]
        BY <2>10
      <3> QED
        BY <1>1, <1>4, <3>1, <3>2, <3>3, PollsKeep
    <2>22. /\ device' \in [Codes -> MaybeRecord] /\ throttle' \subseteq Codes
           /\ \A d \in Codes \ {c} : device'[d] = device[d]
      BY <1>6 DEF DeviceIInv, TypeOK
    <2> QED
      BY <1>4, <1>6, <2>5, <2>10, <2>11, <2>12, <2>13, <2>19, <2>20, <2>21, <2>22, CodeStep
  <1> QED
    BY <1>7, <1>8

LEMMA DecideAccessNext ==
    ASSUME DeviceIInv, NEW q \in Requests, DecideAccess(q)
    PROVE  DeviceIInv'
  <1>1. PICK s : s = req[q]
    OBVIOUS
  <1>2. s \in Call /\ CallFits(s) /\ s.pc = "authorize"
    BY <1>1, CallHas DEF DecideAccess, At
  <1>3. PICK c : c = s.code
    OBVIOUS
  <1>4. /\ c \in Codes /\ s.by \in Users /\ s.record \in Record
        /\ s.record.client = log[c].client
    BY <1>2, <1>3 DEF CallFits, Deciders
  <1>5. UNCHANGED <<device, userCode, throttle, grant>>
    BY DEF DecideAccess
  <1>6. log \in [Codes -> Log] /\ log[c] \in Log
    BY <1>4 DEF DeviceIInv, TypeOK
  <1>7. CASE /\ req' = [req EXCEPT ![q] = [@ EXCEPT !.pc = "upsert", !.record.status = "approved",
                                                   !.record.user = req[q].by]]
             /\ log' = [log EXCEPT ![req[q].code].approvers = @ \union {req[q].by}]
    <2>1. PICK m : m = [s.record EXCEPT !.status = "approved", !.user = s.by]
      OBVIOUS
    <2>2. /\ m \in Record /\ m.client = log[c].client /\ m.status = "approved" /\ m.user = s.by
      BY <1>4, <2>1 DEF Record
    <2>3. PICK r : r = [s EXCEPT !.pc = "upsert", !.record = m]
      OBVIOUS
    <2>4. r \in Call /\ r.code = c /\ r.by = s.by /\ r.record = m /\ r.pc = "upsert"
      BY <1>2, <1>3, <2>2, <2>3 DEF Call, MaybeRecord
    <2>5. req' = [req EXCEPT ![q] = r]
      BY <1>1, <1>2, <1>4, <1>7, <2>1, <2>3 DEF DeviceIInv, TypeOK, Call, Record
    <2>6. PICK l : l = [log[c] EXCEPT !.approvers = @ \union {s.by}]
      OBVIOUS
    <2>7. /\ l \in Log /\ l.client = log[c].client /\ l.approvers = log[c].approvers \union {s.by}
          /\ l.denied = log[c].denied /\ l.minted = log[c].minted /\ l.to = log[c].to
          /\ l.contended = log[c].contended /\ l.withdrawn = log[c].withdrawn
      BY <1>4, <1>6, <2>6 DEF Log
    <2>8. /\ log' \in [Codes -> Log] /\ log'[c] = l
          /\ \A d \in Codes \ {c} : log'[d] = log[d]
      BY <1>1, <1>3, <1>4, <1>6, <1>7, <2>6, <2>7
    <2>9. LogGrows
      BY <1>5, <2>7, <2>8 DEF LogGrows, Consents
    <2>10. CallFits(r)'
      BY <1>4, <2>2, <2>4, <2>7, <2>8 DEF CallFits, Deciders, Holders
    <2>11. \A p \in Requests : /\ StoredBy(c, p)' => StoredBy(c, p)
                               /\ DecidedBy(c, p)' => DecidedBy(c, p)
                               /\ HeldBy(c, p)' => HeldBy(c, p)
                               /\ ClaimedBy(c, p)' => ClaimedBy(c, p)
      <3>1. ~StoredBy(c, q)' /\ DecidedBy(c, q) /\ ~HeldBy(c, q)' /\ ~ClaimedBy(c, q)'
        BY <1>1, <1>2, <1>3, <1>4, <2>4, <2>5, Moved DEF DecidedBy, Deciders, Holders
      <3> QED
        BY <1>4, <2>4, <2>5, <3>1, Moved
    <2>12. CodeFits(c)' /\ Exclusive(c)'
      BY <1>4, <1>5, <2>7, <2>8, <2>9, <2>11, CodeKeeps
    <2>13. MintsFit(c)'
      BY <1>1, <1>4, <2>4, <2>5, <2>7, <2>8, PollsKeep DEF Holders
    <2>14. /\ device' \in [Codes -> MaybeRecord] /\ throttle' \subseteq Codes
           /\ \A d \in Codes \ {c} : device'[d] = device[d]
      BY <1>5 DEF DeviceIInv, TypeOK
    <2> QED
      BY <1>4, <1>5, <2>4, <2>5, <2>8, <2>9, <2>10, <2>12, <2>13, <2>14, CodeStep
  <1>8. CASE /\ req' = [req EXCEPT ![q] = [@ EXCEPT !.pc = "ttl", !.record.status = "denied"]]
             /\ log' = log
    <2>1. PICK m : m = [s.record EXCEPT !.status = "denied"]
      OBVIOUS
    <2>2. /\ m \in Record /\ m.client = log[c].client /\ m.status = "denied"
      BY <1>4, <2>1 DEF Record
    <2>3. PICK r : r = [s EXCEPT !.pc = "ttl", !.record = m]
      OBVIOUS
    <2>4. r \in Call /\ r.code = c /\ r.by = s.by /\ r.record = m /\ r.pc = "ttl"
      BY <1>2, <1>3, <2>2, <2>3 DEF Call, MaybeRecord
    <2>5. req' = [req EXCEPT ![q] = r]
      BY <1>1, <1>2, <1>4, <1>8, <2>1, <2>3 DEF DeviceIInv, TypeOK, Call, Record
    <2>6. NoFurther(q, r)
      BY <1>1, <1>2, <1>3, <2>4 DEF NoFurther, Deciders, Holders
    <2>7. CallFits(r)'
      BY <1>4, <1>8, <2>2, <2>4 DEF CallFits, Deciders, Holders, RecordFits
    <2> QED
      BY <1>5, <1>8, <2>4, <2>5, <2>6, <2>7, QuietStep DEF DeviceIInv, TypeOK
  <1> QED
    BY <1>7, <1>8 DEF DecideAccess

LEMMA UpdateSetNext ==
    ASSUME DeviceIInv, NEW q \in Requests, UpdateSet(q)
    PROVE  DeviceIInv'
  <1>1. PICK s : s = req[q]
    OBVIOUS
  <1>2. s \in Call /\ CallFits(s) /\ s.pc = "set"
    BY <1>1, CallHas DEF UpdateSet, At
  <1>3. PICK c : c = s.code
    OBVIOUS
  <1>4. PICK n : n = s.record
    OBVIOUS
  <1>5. /\ c \in Codes /\ n \in Record /\ n.client = log[c].client /\ n.client # None
        /\ n.status \in {"approved", "denied"} /\ RecordFits(c, n)
    BY <1>2, <1>3, <1>4, NoneAssumption DEF CallFits, Deciders, Record
  <1>6. PICK b \in BOOLEAN : b = (n.status = "denied")
    OBVIOUS
  <1>7. /\ device' = [device EXCEPT ![c] = n]
        /\ log' = [log EXCEPT ![c].denied = @ \/ b]
        /\ req' = [req EXCEPT ![q] = Idle]
        /\ UNCHANGED <<userCode, throttle, grant>>
    BY <1>1, <1>3, <1>4, <1>6 DEF UpdateSet, Return
  <1>8. n \in MaybeRecord /\ n # NoRecord
    BY <1>5, NoRecordFields DEF MaybeRecord
  <1>9. log \in [Codes -> Log] /\ log[c] \in Log /\ device \in [Codes -> MaybeRecord]
    BY <1>5 DEF DeviceIInv, TypeOK
  <1>10. PICK l : l = [log[c] EXCEPT !.denied = @ \/ b]
    OBVIOUS
  <1>11. /\ l \in Log /\ l.client = log[c].client /\ l.approvers = log[c].approvers
         /\ l.contended = log[c].contended /\ l.withdrawn = log[c].withdrawn /\ l.minted = log[c].minted /\ l.to = log[c].to
         /\ l.denied = (log[c].denied \/ b)
    BY <1>9, <1>10 DEF Log
  <1>12. /\ log' \in [Codes -> Log] /\ log'[c] = l
         /\ device' \in [Codes -> MaybeRecord] /\ device'[c] = n
         /\ \A d \in Codes \ {c} : device'[d] = device[d] /\ log'[d] = log[d]
    BY <1>5, <1>7, <1>8, <1>9, <1>10, <1>11
  <1>13. LogGrows
    BY <1>7, <1>11, <1>12 DEF LogGrows, Consents
  <1>14. Idle \in Call /\ CallFits(Idle)' /\ Idle.pc = "idle"
    BY NoRecordFields, IdleQuiet
  <1>15. CodeFits(c) /\ Exclusive(c) /\ DecidedBy(c, q) /\ log[c].client # None
    BY <1>1, <1>2, <1>3, <1>5 DEF DeviceIInv, DecidedBy, Deciders
  <1>16. \A p \in Requests : /\ StoredBy(c, p)' => StoredBy(c, p)
                             /\ DecidedBy(c, p)' => DecidedBy(c, p) /\ p # q
                             /\ ClaimedBy(c, p)' => ClaimedBy(c, p)
    <2>1. ~StoredBy(c, q)' /\ ~DecidedBy(c, q)' /\ ~HeldBy(c, q)' /\ ~ClaimedBy(c, q)'
      <3>1. req'[q] = Idle
        BY <1>7 DEF DeviceIInv, TypeOK
      <3> QED
        BY <1>14, <3>1 DEF StoredBy, DecidedBy, HeldBy, ClaimedBy, Deciders, Holders
    <2> QED
      BY <1>5, <1>7, <1>14, <2>1, Moved
  <1>17. Status(c)' \in {"approved", "denied"}
    BY <1>5, <1>8, <1>12 DEF Status
  <1>18. CodeFits(c)'
    <2>1. RecordFits(c, n)'
      BY <1>5, <1>13, RecordKeeps
    <2>2. RecordFits(c, device[c])'
      BY <1>12, <2>1
    <2>3. ~Unwritten(c)'
      <3>1. ~Unwritten(c)
        BY <1>15 DEF CodeFits
      <3> QED
        BY <1>11, <1>12, <1>16, <3>1 DEF Unwritten
    <2>4. \A p, p2 \in Requests : StoredBy(c, p)' /\ StoredBy(c, p2)' => p = p2
      BY <1>15, <1>16 DEF CodeFits
    <2>5. \A v \in Users, k \in Clients : <<v, k>> \in log'[c].to =>
             v \in Consents(c)' /\ k = log'[c].client
      BY <1>7, <1>11, <1>12, <1>15 DEF CodeFits, Consents
    <2> QED
      BY <1>17, <2>2, <2>3, <2>4, <2>5 DEF CodeFits
  <1>19. Exclusive(c)'
    <2>1. SUFFICES ASSUME ~log[c].contended
                   PROVE  Exclusive(c)'
      BY <1>11, <1>12 DEF Exclusive
    <2>2. /\ Undecided(c) /\ \A p \in Requests : ~ClaimedBy(c, p)
          /\ \A p \in Requests : DecidedBy(c, p) => p = q
      BY <1>15, <2>1 DEF Exclusive
    <2>3. \A p \in Requests : ~DecidedBy(c, p)' /\ ~ClaimedBy(c, p)'
      BY <1>16, <2>2
    <2>4. log'[c].minted = 0
      BY <1>11, <1>12, <2>2 DEF Undecided
    <2>5. Status(c)' = "approved" => Undecided(c)'
      <3>1. n.status = "approved" => ~l.denied
        BY <1>6, <1>11, <2>2 DEF Undecided
      <3> QED
        BY <1>8, <1>12, <2>4, <3>1 DEF Undecided, Status
    <2> QED
      BY <2>3, <2>4, <2>5 DEF Exclusive
  <1>20. MintsFit(c)'
    BY <1>1, <1>5, <1>7, <1>11, <1>12, <1>14, PollsKeep DEF Holders
  <1>21. throttle' \subseteq Codes
    BY <1>7 DEF DeviceIInv, TypeOK
  <1> QED
    BY <1>5, <1>7, <1>12, <1>13, <1>14, <1>18, <1>19, <1>20, <1>21, CodeStep

LEMMA RedeemDeviceCodeNext ==
    ASSUME DeviceIInv, NEW q \in Requests, NEW client \in Clients, NEW c \in Codes,
           RedeemDeviceCode(q, client, c)
    PROVE  DeviceIInv'
  <1>1. PICK r : r = [Idle EXCEPT !.pc = "consume", !.code = c, !.by = client]
    OBVIOUS
  <1>2. r \in Call /\ r.pc = "consume" /\ r.code = c /\ r.by = client
    BY <1>1 DEF Idle, Call, MaybeRecord, NoRecord
  <1>3. /\ log[c].minted < MaxMints
        /\ req' = [req EXCEPT ![q] = r]
        /\ throttle' = throttle \union {c}
        /\ UNCHANGED <<device, userCode, grant, log>>
    BY <1>1 DEF RedeemDeviceCode
  <1>4. LogGrows
    BY <1>3 DEF LogGrows, Consents
  <1>5. CallFits(r)'
    BY <1>2 DEF CallFits, Deciders, Holders
  <1>6. \A p \in Requests : /\ StoredBy(c, p)' => StoredBy(c, p)
                            /\ DecidedBy(c, p)' => DecidedBy(c, p)
                            /\ HeldBy(c, p)' => HeldBy(c, p)
                            /\ ClaimedBy(c, p)' => ClaimedBy(c, p)
    <2>1. ~StoredBy(c, q)' /\ ~DecidedBy(c, q)' /\ ~HeldBy(c, q)' /\ ~ClaimedBy(c, q)'
      BY <1>2, <1>3, Moved DEF Deciders, Holders
    <2> QED
      BY <1>2, <1>3, <2>1, Moved
  <1>7. CodeFits(c)' /\ Exclusive(c)'
    BY <1>3, <1>4, <1>6, CodeKeeps
  <1>8. MintsFit(c)'
    <2>1. Polling(c)' \subseteq Requests
      BY DEF Polling
    <2>2. IsFiniteSet(Polling(c)') /\ Cardinality(Polling(c)') <= Cardinality(Requests)
      BY <2>1, BoundAssumption, FS_Subset
    <2>3. Cardinality(Polling(c)') \in Nat
      BY <2>2, FS_CardinalityType
    <2> QED
      BY <1>3, <2>2, <2>3, PollingFinite DEF MintsFit
  <1>9. /\ device' \in [Codes -> MaybeRecord] /\ log' \in [Codes -> Log]
        /\ throttle' \subseteq Codes
        /\ \A d \in Codes \ {c} : device'[d] = device[d] /\ log'[d] = log[d]
    BY <1>3 DEF DeviceIInv, TypeOK
  <1> QED
    BY <1>2, <1>3, <1>4, <1>5, <1>7, <1>8, <1>9, CodeStep

LEMMA ConsumeReadNext ==
    ASSUME DeviceIInv, NEW q \in Requests, ConsumeRead(q)
    PROVE  DeviceIInv'
  <1>1. PICK s : s = req[q]
    OBVIOUS
  <1>2. s \in Call /\ CallFits(s) /\ s.pc = "consume"
    BY <1>1, CallHas DEF ConsumeRead, At
  <1>3. PICK c : c = s.code
    OBVIOUS
  <1>4. c \in Codes /\ s.by \in Clients
    BY <1>2, <1>3 DEF CallFits
  <1>5. PICK n : n = device[c]
    OBVIOUS
  <1>6. UNCHANGED <<device, userCode, throttle, grant, log>>
    BY DEF ConsumeRead
  <1>7. CASE n = NoRecord \/ n.status = "pending"
    <2>1. Return(q)
      BY <1>1, <1>3, <1>5, <1>7 DEF ConsumeRead
    <2> QED
      BY <1>6, <2>1, ReturnQuiet DEF DeviceIInv, TypeOK
  <1>8. CASE ~(n = NoRecord \/ n.status = "pending")
    <2>1. /\ n \in Record /\ n.status \in {"approved", "denied"} /\ RecordFits(c, n)
          /\ n.client = log[c].client
      <3>1. n \in Record
        BY <1>4, <1>5, <1>8, NoRecordFields DEF DeviceIInv, TypeOK
      <3>2. RecordFits(c, n)
        BY <1>4, <1>5, <1>8 DEF DeviceIInv, CodeFits
      <3> QED
        BY <1>8, <3>1, <3>2 DEF Record, RecordFits
    <2>2. PICK r : r = [s EXCEPT !.pc = IF n.status = "approved" THEN "compare" ELSE "cleanup",
                                 !.record = n]
      OBVIOUS
    <2>3. /\ r \in Call /\ r.code = c /\ r.by = s.by /\ r.record = n
          /\ r.pc \in {"compare", "cleanup"} /\ (r.pc = "compare" <=> n.status = "approved")
      BY <1>2, <1>3, <2>1, <2>2 DEF Call, MaybeRecord
    <2>4. req' = [req EXCEPT ![q] = r]
      BY <1>1, <1>3, <1>5, <1>8, <2>2 DEF ConsumeRead, DeviceIInv, TypeOK
    <2>5. LogGrows
      BY <1>6 DEF LogGrows, Consents
    <2>6. CallFits(r)'
      <3>1. RecordFits(c, n)' /\ n.client = log'[c].client
        BY <1>4, <1>6, <2>1, <2>5, RecordKeeps
      <3> QED
        BY <1>4, <2>1, <2>3, <3>1 DEF CallFits, Deciders, Holders
    <2>7. \A p \in Requests : /\ StoredBy(c, p)' => StoredBy(c, p)
                              /\ DecidedBy(c, p)' => DecidedBy(c, p)
                              /\ ClaimedBy(c, p)' => ClaimedBy(c, p)
      <3>1. ~StoredBy(c, q)' /\ ~DecidedBy(c, q)' /\ ~ClaimedBy(c, q)'
        BY <1>4, <2>1, <2>3, <2>4, Moved DEF Deciders
      <3> QED
        BY <1>4, <2>3, <2>4, <3>1, Moved
    <2>8. Status(c) \in {"approved", "denied"} /\ Status(c)' = Status(c)
      BY <1>5, <1>6, <1>8, <2>1 DEF Status
    <2>9. CodeFits(c) /\ Exclusive(c)
      BY <1>4 DEF DeviceIInv
    <2>10. ~Unwritten(c)'
      <3>1. ~Unwritten(c)
        BY <2>8, <2>9 DEF CodeFits
      <3> QED
        BY <1>6, <2>7, <3>1 DEF Unwritten
    <2>11. CodeFits(c)'
      <3>1. RecordFits(c, device[c])'
        BY <1>5, <1>6, <2>1 DEF RecordFits, Consents
      <3>2. \A p, p2 \in Requests : StoredBy(c, p)' /\ StoredBy(c, p2)' => p = p2
        BY <2>7, <2>9 DEF CodeFits
      <3>3. \A v \in Users, k \in Clients : <<v, k>> \in log'[c].to =>
               v \in Consents(c)' /\ k = log'[c].client
        BY <1>6, <2>9 DEF CodeFits, Consents
      <3> QED
        BY <2>8, <2>10, <3>1, <3>2, <3>3 DEF CodeFits
    <2>12. Exclusive(c)'
      BY <1>6, <2>7, <2>8, <2>9 DEF Exclusive, Undecided
    <2>13. MintsFit(c)'
      BY <1>1, <1>2, <1>3, <1>4, <1>6, <2>3, <2>4, PollsKeep DEF Holders
    <2>14. /\ device' \in [Codes -> MaybeRecord] /\ log' \in [Codes -> Log]
           /\ throttle' \subseteq Codes
           /\ \A d \in Codes \ {c} : device'[d] = device[d] /\ log'[d] = log[d]
      BY <1>6 DEF DeviceIInv, TypeOK
    <2> QED
      BY <1>4, <1>6, <2>3, <2>4, <2>5, <2>6, <2>11, <2>12, <2>13, <2>14, CodeStep
  <1> QED
    BY <1>7, <1>8

LEMMA ConsumeClaimNext ==
    ASSUME DeviceIInv, NEW q \in Requests, ConsumeClaim(q)
    PROVE  DeviceIInv'
  <1>1. PICK s : s = req[q]
    OBVIOUS
  <1>2. s \in Call /\ CallFits(s) /\ s.pc = "compare"
    BY <1>1, CallHas DEF ConsumeClaim, At
  <1>3. PICK c : c = s.code
    OBVIOUS
  <1>4. /\ c \in Codes /\ s.by \in Clients /\ s.record \in Record
        /\ s.record.status = "approved" /\ s.record.client = log[c].client
        /\ RecordFits(c, s.record)
    BY <1>2, <1>3 DEF CallFits, Holders
  <1>5. UNCHANGED <<userCode, throttle, grant, log>>
    BY DEF ConsumeClaim
  <1>6. CASE device[c] # s.record
    <2>1. Return(q) /\ UNCHANGED device
      BY <1>1, <1>3, <1>6 DEF ConsumeClaim
    <2> QED
      BY <1>5, <2>1, ReturnQuiet DEF DeviceIInv, TypeOK
  <1>7. CASE device[c] = s.record
    <2>1. device' = [device EXCEPT ![c] = NoRecord] /\ Goto(q, "cleanup")
      BY <1>1, <1>3, <1>7 DEF ConsumeClaim
    <2>2. /\ device' \in [Codes -> MaybeRecord] /\ device'[c] = NoRecord
          /\ \A d \in Codes \ {c} : device'[d] = device[d] /\ log'[d] = log[d]
      BY <1>4, <1>5, <2>1, NoRecordFields DEF DeviceIInv, TypeOK
    <2>3. PICK r : r = [s EXCEPT !.pc = "cleanup"]
      OBVIOUS
    <2>4. /\ r \in Call /\ r.code = c /\ r.by = s.by /\ r.record = s.record /\ r.pc = "cleanup"
      BY <1>2, <1>3, <2>3 DEF Call
    <2>5. req' = [req EXCEPT ![q] = r]
      BY <1>1, <2>1, <2>3 DEF Goto, DeviceIInv, TypeOK
    <2>6. LogGrows
      BY <1>5 DEF LogGrows, Consents
    <2>7. CallFits(r)'
      <3>1. RecordFits(c, s.record)' /\ s.record.client = log'[c].client
        BY <1>4, <1>5, <2>6, RecordKeeps
      <3> QED
        BY <1>4, <2>4, <3>1 DEF CallFits, Deciders, Holders
    <2>8. Status(c) = "approved" /\ Status(c)' = "none"
      BY <1>4, <1>7, <2>2, NoRecordFields DEF Status
    <2>9. CodeFits(c) /\ Exclusive(c)
      BY <1>4 DEF DeviceIInv
    <2>10. \A p \in Requests : /\ StoredBy(c, p)' => StoredBy(c, p)
                               /\ DecidedBy(c, p)' => DecidedBy(c, p)
                               /\ p # q => (ClaimedBy(c, p)' => ClaimedBy(c, p))
      <3>1. ~StoredBy(c, q)' /\ ~DecidedBy(c, q)'
        BY <1>4, <2>4, <2>5, Moved DEF Deciders
      <3> QED
        BY <1>4, <2>4, <2>5, <3>1, Moved
    <2>11. ~Unwritten(c)'
      <3>1. ~Unwritten(c)
        BY <2>8, <2>9 DEF CodeFits
      <3> QED
        BY <1>5, <2>10, <3>1 DEF Unwritten
    <2>12. CodeFits(c)'
      <3>1. \A p, p2 \in Requests : StoredBy(c, p)' /\ StoredBy(c, p2)' => p = p2
        BY <2>9, <2>10 DEF CodeFits
      <3>2. \A v \in Users, k \in Clients : <<v, k>> \in log'[c].to =>
               v \in Consents(c)' /\ k = log'[c].client
        BY <1>5, <2>9 DEF CodeFits, Consents
      <3> QED
        BY <2>2, <2>8, <2>11, <3>1, <3>2 DEF CodeFits
    <2>13. Exclusive(c)'
      <3>1. SUFFICES ASSUME ~log[c].contended
                     PROVE  Exclusive(c)'
        BY <1>5 DEF Exclusive
      <3>2. Undecided(c) /\ \A p \in Requests : ~ClaimedBy(c, p)
        BY <2>8, <2>9, <3>1 DEF Exclusive
      <3>3. \A p \in Requests : ~DecidedBy(c, p)
        BY <2>8, <2>9, <3>1 DEF Exclusive
      <3>4. /\ \A p \in Requests : ~DecidedBy(c, p)'
            /\ \A p \in Requests : ClaimedBy(c, p)' => p = q
        BY <2>10, <3>2, <3>3
      <3>5. Undecided(c)'
        BY <1>5, <3>2 DEF Undecided
      <3> QED
        BY <2>8, <3>4, <3>5 DEF Exclusive, Undecided
    <2>14. MintsFit(c)'
      BY <1>1, <1>2, <1>3, <1>4, <1>5, <2>4, <2>5, PollsKeep DEF Holders
    <2>15. log' \in [Codes -> Log] /\ throttle' \subseteq Codes
      BY <1>5 DEF DeviceIInv, TypeOK
    <2> QED
      BY <1>4, <1>5, <2>2, <2>4, <2>5, <2>6, <2>7, <2>12, <2>13, <2>14, <2>15, CodeStep
  <1> QED
    BY <1>6, <1>7

LEMMA MintTokensNext ==
    ASSUME DeviceIInv, NEW q \in Requests, MintTokens(q)
    PROVE  DeviceIInv'
  <1>1. PICK s : s = req[q]
    OBVIOUS
  <1>2. s \in Call /\ CallFits(s) /\ s.pc = "mint"
    BY <1>1, CallHas DEF MintTokens, At
  <1>3. PICK c : c = s.code
    OBVIOUS
  <1>4. /\ c \in Codes /\ s.by \in Clients /\ s.record \in Record
        /\ s.record.status = "approved" /\ s.record.client = log[c].client
        /\ s.record.client = s.by /\ RecordFits(c, s.record)
    BY <1>2, <1>3 DEF CallFits, Holders
  <1>5. PICK v : v = s.record.user
    OBVIOUS
  <1>6. v \in Consents(c) /\ s.by = log[c].client /\ v \in log[c].approvers
    BY <1>4, <1>5 DEF RecordFits, Consents
  <1>7. log \in [Codes -> Log] /\ log[c] \in Log
    BY <1>4 DEF DeviceIInv, TypeOK
  <1>8. v \in Users
    BY <1>6, <1>7 DEF Log
  <1>9. /\ log' = [log EXCEPT ![c].minted = @ + 1, ![c].to = @ \union {<<v, s.by>>}]
        /\ req' = [req EXCEPT ![q] = Idle]
        /\ UNCHANGED <<device, userCode, throttle, grant>>
    BY <1>1, <1>3, <1>5 DEF MintTokens, Return
  <1>10. Idle \in Call /\ CallFits(Idle)' /\ Idle.pc = "idle"
    BY NoRecordFields, IdleQuiet
  <1>11. q \in Polling(c)
    BY <1>1, <1>2, <1>3 DEF Polling, Holders
  <1>12. /\ Cardinality(Polling(c)') + 1 = Cardinality(Polling(c))
         /\ Cardinality(Polling(c)') \in Nat
    <2>1. \A p \in Requests : req'[p] = IF p = q THEN Idle ELSE req[p]
      BY <1>9 DEF DeviceIInv, TypeOK
    <2>2. Polling(c)' = Polling(c) \ {q}
      BY <1>10, <2>1 DEF Polling, Holders
    <2>3. /\ IsFiniteSet(Polling(c)) /\ Cardinality(Polling(c)) \in Nat
      BY <1>4, PollingFinite
    <2>4. /\ Cardinality(Polling(c) \ {q}) = Cardinality(Polling(c)) - 1
          /\ IsFiniteSet(Polling(c) \ {q})
      BY <1>11, <2>3, FS_RemoveElement
    <2>5. Cardinality(Polling(c) \ {q}) \in Nat
      BY <2>4, FS_CardinalityType
    <2> QED
      BY <2>2, <2>3, <2>4, <2>5
  <1>13. PICK l : l = [log[c] EXCEPT !.minted = @ + 1, !.to = @ \union {<<v, s.by>>}]
    OBVIOUS
  <1>14. log[c].minted + 1 \in 0..(MaxMints + Cardinality(Requests))
    <2>1. MintsFit(c)
      BY <1>4 DEF DeviceIInv
    <2> QED
      BY <1>4, <1>12, <2>1, PollingFinite DEF MintsFit
  <1>15. /\ l \in Log /\ l.client = log[c].client /\ l.approvers = log[c].approvers
         /\ l.contended = log[c].contended /\ l.withdrawn = log[c].withdrawn /\ l.denied = log[c].denied
         /\ l.minted = log[c].minted + 1 /\ l.to = log[c].to \union {<<v, s.by>>}
    <2>1. PICK n : n = log[c].minted + 1
      OBVIOUS
    <2>2. PICK t : t = log[c].to \union {<<v, s.by>>}
      OBVIOUS
    <2>3. n \in 0..(MaxMints + Cardinality(Requests)) /\ t \in SUBSET (Users \X Clients)
      BY <1>4, <1>7, <1>8, <1>14, <2>1, <2>2 DEF Log
    <2>4. l = [log[c] EXCEPT !.minted = n, !.to = t]
      BY <1>7, <1>13, <2>1, <2>2 DEF Log
    <2>5. /\ l \in Log /\ l.client = log[c].client /\ l.approvers = log[c].approvers
          /\ l.contended = log[c].contended /\ l.withdrawn = log[c].withdrawn /\ l.denied = log[c].denied
          /\ l.minted = n /\ l.to = t
      BY <1>7, <2>3, <2>4 DEF Log
    <2> QED
      BY <2>1, <2>2, <2>5
  <1>16. /\ log' \in [Codes -> Log] /\ log'[c] = l
         /\ \A d \in Codes \ {c} : log'[d] = log[d]
    <2>1. log' = [log EXCEPT ![c] = l]
      BY <1>4, <1>7, <1>9, <1>13, <1>15 DEF Log
    <2> QED
      BY <1>4, <1>7, <1>15, <2>1
  <1>17. /\ device' \in [Codes -> MaybeRecord] /\ throttle' \subseteq Codes
         /\ \A d \in Codes \ {c} : device'[d] = device[d]
    BY <1>9 DEF DeviceIInv, TypeOK
  <1>18. LogGrows
    BY <1>9, <1>15, <1>16 DEF LogGrows, Consents
  <1>19. CodeFits(c) /\ Exclusive(c) /\ HeldBy(c, q) /\ ClaimedBy(c, q)
    BY <1>1, <1>2, <1>3, <1>4 DEF DeviceIInv, HeldBy, ClaimedBy, Holders
  <1>20. \A p \in Requests : /\ StoredBy(c, p)' => StoredBy(c, p)
                             /\ DecidedBy(c, p)' => DecidedBy(c, p)
                             /\ HeldBy(c, p)' => HeldBy(c, p)
                             /\ ClaimedBy(c, p)' => ClaimedBy(c, p) /\ p # q
    <2>1. ~StoredBy(c, q)' /\ ~DecidedBy(c, q)' /\ ~HeldBy(c, q)' /\ ~ClaimedBy(c, q)'
      <3>1. req'[q] = Idle
        BY <1>9 DEF DeviceIInv, TypeOK
      <3> QED
        BY <1>10, <3>1 DEF StoredBy, DecidedBy, HeldBy, ClaimedBy, Deciders, Holders
    <2> QED
      BY <1>4, <1>9, <1>10, <2>1, Moved
  <1>21. Status(c)' = Status(c) /\ Status(c) # "pending"
    BY <1>9, <1>19 DEF Status, CodeFits
  <1>22. CodeFits(c)'
    <2>1. device'[c] # NoRecord => RecordFits(c, device[c])'
      BY <1>4, <1>9, <1>15, <1>16, <1>19 DEF CodeFits, RecordFits, Consents
    <2>2. ~Unwritten(c)'
      <3>1. ~Unwritten(c)
        BY <1>19 DEF CodeFits
      <3> QED
        BY <1>15, <1>16, <1>20, <3>1 DEF Unwritten
    <2>3. \A p, p2 \in Requests : StoredBy(c, p)' /\ StoredBy(c, p2)' => p = p2
      BY <1>19, <1>20 DEF CodeFits
    <2>4. \A w \in Users, k \in Clients : <<w, k>> \in log'[c].to =>
             w \in Consents(c)' /\ k = log'[c].client
      BY <1>6, <1>9, <1>15, <1>16, <1>19 DEF CodeFits, Consents
    <2> QED
      BY <1>21, <2>1, <2>2, <2>3, <2>4 DEF CodeFits
  <1>23. Exclusive(c)'
    <2>1. SUFFICES ASSUME ~log[c].contended
                   PROVE  Exclusive(c)'
      BY <1>15, <1>16 DEF Exclusive
    <2>2. /\ Undecided(c) /\ Status(c) # "approved"
          /\ \A p \in Requests : ~DecidedBy(c, p)
          /\ \A p \in Requests : ClaimedBy(c, p) => p = q
      BY <1>19, <2>1 DEF Exclusive
    <2>3. \A p \in Requests : ~DecidedBy(c, p)' /\ ~ClaimedBy(c, p)'
      BY <1>20, <2>2
    <2>4. log'[c].minted = 1 /\ ~log'[c].denied
      BY <1>15, <1>16, <2>2 DEF Undecided
    <2> QED
      BY <1>21, <2>2, <2>3, <2>4 DEF Exclusive
  <1>24. MintsFit(c)'
    <2>1. MintsFit(c)
      BY <1>4 DEF DeviceIInv
    <2> QED
      BY <1>4, <1>12, <1>15, <1>16, <2>1, PollingFinite DEF MintsFit
  <1> QED
    BY <1>4, <1>9, <1>10, <1>16, <1>17, <1>18, <1>22, <1>23, <1>24, CodeStep

\* Keys may go while no call moves.
LEMMA KeysGo ==
    ASSUME DeviceIInv, req' = req, log' = log, grant' = grant,
           device' \in [Codes -> MaybeRecord],
           \A d \in Codes : device'[d] \in {device[d], NoRecord},
           userCode' \in [UserCodes -> Codes \union {None}],
           throttle' \subseteq Codes
    PROVE  DeviceIInv'
  <1>1. req' = req /\ log' = log /\ grant' = grant
    OBVIOUS
  <1>2. /\ device' \in [Codes -> MaybeRecord]
        /\ \A d \in Codes : device'[d] \in {device[d], NoRecord}
        /\ userCode' \in [UserCodes -> Codes \union {None}]
        /\ throttle' \subseteq Codes
    OBVIOUS
  <1>3. TypeOK'
    BY <1>1, <1>2 DEF DeviceIInv, TypeOK
  <1>4. LogGrows
    BY <1>1 DEF LogGrows, Consents
  <1>5. ASSUME NEW q \in Requests
        PROVE  CallFits(req[q])'
    <2>1. PICK s : s = req[q]
      OBVIOUS
    <2>2. CallFits(s)'
      BY <1>4, <2>1, CallHas, CallKeeps
    <2> QED
      BY <1>1, <2>1, <2>2
  <1>6. ASSUME NEW c \in Codes
        PROVE  CodeFits(c)' /\ Exclusive(c)' /\ MintsFit(c)'
    <2>1. \A p \in Requests : /\ StoredBy(c, p)' => StoredBy(c, p)
                              /\ DecidedBy(c, p)' => DecidedBy(c, p)
                              /\ HeldBy(c, p)' => HeldBy(c, p)
                              /\ ClaimedBy(c, p)' => ClaimedBy(c, p)
      BY <1>1 DEF StoredBy, DecidedBy, HeldBy, ClaimedBy
    <2>2. CodeFits(c)' /\ Exclusive(c)'
      BY <1>1, <1>2, <1>4, <2>1, CodeKeeps
    <2>3. Polling(c)' \subseteq Polling(c)
      BY <1>1 DEF Polling
    <2>4. MintsFit(c)'
      BY <1>1, <2>3, MintsKeep
    <2> QED
      BY <2>2, <2>4
  <1> QED
    BY <1>3, <1>5, <1>6 DEF DeviceIInv

LEMMA ExpireNext ==
    ASSUME DeviceIInv, Expire
    PROVE  DeviceIInv'
  <1>1. req' = req /\ log' = log /\ grant' = grant
    BY DEF Expire
  <1>2. /\ device' \in [Codes -> MaybeRecord]
        /\ \A d \in Codes : device'[d] \in {device[d], NoRecord}
        /\ userCode' \in [UserCodes -> Codes \union {None}]
        /\ throttle' \subseteq Codes
    BY NoRecordFields DEF Expire, DeviceIInv, TypeOK
  <1> QED
    BY <1>1, <1>2, KeysGo

\* RevokeConsent: the consent of an approval is withdrawn, and stays so.
LEMMA RevokeConsentNext ==
    ASSUME DeviceIInv, NEW v \in Users, NEW k \in Clients, RevokeConsent(v, k)
    PROVE  DeviceIInv'
  <1>1. /\ grant' = grant \ {<<v, k>>}
        /\ UNCHANGED <<device, userCode, throttle, req>>
    BY DEF RevokeConsent
  <1>2. log \in [Codes -> Log]
    BY DEF DeviceIInv, TypeOK
  <1>3. ASSUME NEW c \in Codes
        PROVE  /\ log'[c] \in Log
               /\ log'[c].client = log[c].client /\ log'[c].approvers = log[c].approvers
               /\ log'[c].denied = log[c].denied /\ log'[c].minted = log[c].minted
               /\ log'[c].contended = log[c].contended /\ log'[c].to = log[c].to
               /\ log[c].withdrawn \subseteq log'[c].withdrawn
               /\ log[c].client = k /\ v \in log[c].approvers => v \in log'[c].withdrawn
    <2>1. PICK w : w = log[c].withdrawn \union {v}
      OBVIOUS
    <2>2. w \in SUBSET Users
      BY <1>2, <2>1 DEF Log
    <2>3. PICK l : l = [log[c] EXCEPT !.withdrawn = w]
      OBVIOUS
    <2>4. /\ l \in Log /\ l.withdrawn = w
          /\ l.client = log[c].client /\ l.approvers = log[c].approvers
          /\ l.denied = log[c].denied /\ l.minted = log[c].minted
          /\ l.contended = log[c].contended /\ l.to = log[c].to
      BY <1>2, <2>2, <2>3 DEF Log
    <2>5. log'[c] = IF log[c].client = k /\ v \in log[c].approvers THEN l ELSE log[c]
      BY <2>1, <2>3 DEF RevokeConsent
    <2> QED
      BY <1>2, <2>1, <2>4, <2>5
  <1>4. log' \in [Codes -> Log]
    <2>1. log' = [c \in Codes |-> log'[c]]
      BY DEF RevokeConsent
    <2> QED
      BY <1>3, <2>1
  <1>5. TypeOK'
    BY <1>1, <1>4 DEF DeviceIInv, TypeOK
  <1>6. LogGrows
    <2>1. SUFFICES ASSUME NEW c \in Codes
                   PROVE  Consents(c) \subseteq Consents(c)'
      BY <1>3 DEF LogGrows
    <2>2. SUFFICES ASSUME NEW u \in Consents(c)
                   PROVE  u \in Consents(c)'
      OBVIOUS
    <2>3. CASE <<u, log[c].client>> = <<v, k>>
      BY <1>3, <2>3 DEF Consents
    <2>4. CASE <<u, log[c].client>> # <<v, k>>
      BY <1>1, <1>3, <2>4 DEF Consents
    <2> QED
      BY <2>3, <2>4
  <1>7. ASSUME NEW q \in Requests
        PROVE  CallFits(req[q])'
    <2>1. PICK s : s = req[q]
      OBVIOUS
    <2>2. CallFits(s)'
      BY <1>6, <2>1, CallHas, CallKeeps
    <2> QED
      BY <1>1, <2>1, <2>2
  <1>8. ASSUME NEW c \in Codes
        PROVE  CodeFits(c)' /\ Exclusive(c)' /\ MintsFit(c)'
    <2>1. \A p \in Requests : /\ StoredBy(c, p)' => StoredBy(c, p)
                              /\ DecidedBy(c, p)' => DecidedBy(c, p)
                              /\ HeldBy(c, p)' => HeldBy(c, p)
                              /\ ClaimedBy(c, p)' => ClaimedBy(c, p)
      BY <1>1 DEF StoredBy, DecidedBy, HeldBy, ClaimedBy
    <2>2. CodeFits(c)' /\ Exclusive(c)'
      BY <1>1, <1>3, <1>6, <2>1, CodeKeeps
    <2>3. Polling(c)' \subseteq Polling(c)
      BY <1>1 DEF Polling
    <2>4. MintsFit(c)'
      BY <1>3, <2>3, MintsKeep
    <2> QED
      BY <2>2, <2>4
  <1> QED
    BY <1>5, <1>7, <1>8 DEF DeviceIInv

LEMMA InitHolds ==
    ASSUME Init
    PROVE  DeviceIInv
  <1>1. Cardinality(Requests) \in Nat
    BY BoundAssumption, FS_CardinalityType
  <1>2. \A q \in Requests : req[q] = Idle
    BY DEF Init
  <1>3. ASSUME NEW c \in Codes
        PROVE  /\ device[c] = NoRecord /\ log[c].client = None /\ log[c].approvers = {}
               /\ ~log[c].denied /\ ~log[c].contended /\ log[c].minted = 0 /\ log[c].to = {}
               /\ log[c].withdrawn = {}
    BY DEF Init
  <1>4. TypeOK
    <2>1. log \in [Codes -> Log]
      <3>1. 0 \in 0..(MaxMints + Cardinality(Requests))
        BY <1>1, BoundAssumption
      <3>2. [client |-> None, approvers |-> {}, denied |-> FALSE,
             contended |-> FALSE, minted |-> 0, to |-> {}, withdrawn |-> {}] \in Log
        BY <3>1 DEF Log
      <3> QED
        BY <3>2 DEF Init
    <2> QED
      BY <2>1, NoRecordFields DEF Init, TypeOK
  <1>5. \A q \in Requests : CallFits(req[q])
    BY <1>2, NoRecordFields DEF CallFits, Deciders, Holders
  <1>6. ASSUME NEW c \in Codes
        PROVE  CodeFits(c) /\ Exclusive(c) /\ MintsFit(c)
    <2>1. \A q \in Requests : /\ ~StoredBy(c, q) /\ ~DecidedBy(c, q)
                              /\ ~HeldBy(c, q) /\ ~ClaimedBy(c, q)
      BY <1>2, NoRecordFields DEF StoredBy, DecidedBy, HeldBy, ClaimedBy, Deciders, Holders
    <2>2. Status(c) = "none" /\ Undecided(c)
      BY <1>3 DEF Status, Undecided
    <2>3. CodeFits(c) /\ Exclusive(c)
      BY <1>3, <2>1, <2>2 DEF CodeFits, Exclusive
    <2>4. Polling(c) = {}
      BY <1>2, NoRecordFields DEF Polling, Holders
    <2>5. MintsFit(c)
      BY <1>1, <1>3, <2>4, FS_EmptySet, BoundAssumption DEF MintsFit
    <2> QED
      BY <2>3, <2>5
  <1> QED
    BY <1>4, <1>5, <1>6 DEF DeviceIInv

LEMMA StepHolds ==
    ASSUME DeviceIInv, [Next]_vars
    PROVE  DeviceIInv'
  <1>1. CASE UNCHANGED vars
    <2>1. UNCHANGED <<device, userCode, throttle, grant, req, log>>
      BY <1>1 DEF vars
    <2> QED
      BY <2>1, KeysGo DEF DeviceIInv, TypeOK
  <1>2. ASSUME NEW q \in Requests, NEW k \in Clients, NEW c \in Codes, NEW u \in UserCodes,
               StartDeviceAuthorization(q, k, c, u)
        PROVE  DeviceIInv'
    BY <1>2, StartDeviceAuthorizationNext
  <1>3. ASSUME NEW q \in Requests, CreateRecord(q)
        PROVE  DeviceIInv'
    BY <1>3, CreateRecordNext
  <1>4. ASSUME NEW q \in Requests, NEW v \in Users, NEW u \in UserCodes, NEW approve \in BOOLEAN,
               StartDecision(q, v, u, approve)
        PROVE  DeviceIInv'
    BY <1>4, StartDecisionNext
  <1>5. ASSUME NEW q \in Requests, Decide(q)
        PROVE  DeviceIInv'
    BY <1>5, GetUserCodeNext, DecideRecordNext, DecideAccessNext, UpsertGrantNext,
       UpdateTTLNext, UpdateSetNext DEF Decide
  <1>6. ASSUME NEW q \in Requests, NEW k \in Clients, NEW c \in Codes,
               RedeemDeviceCode(q, k, c)
        PROVE  DeviceIInv'
    BY <1>6, RedeemDeviceCodeNext
  <1>7. ASSUME NEW q \in Requests, Redeem(q)
        PROVE  DeviceIInv'
    BY <1>7, ConsumeReadNext, ConsumeClaimNext, DeleteUserCodeNext, DeleteDeniedNext,
       RedeemRecheckNext, MintTokensNext DEF Redeem
  <1>8. ASSUME NEW q \in Requests, CallFails(q)
        PROVE  DeviceIInv'
    BY <1>8, CallFailsNext
  <1>9. CASE Expire
    BY <1>9, ExpireNext
  <1>10. ASSUME NEW v \in Users, NEW k \in Clients, RevokeConsent(v, k)
         PROVE  DeviceIInv'
    BY <1>10, RevokeConsentNext
  <1> QED
    BY <1>1, <1>2, <1>3, <1>4, <1>5, <1>6, <1>7, <1>8, <1>9, <1>10 DEF Next

-----------------------------------------------------------------------------
(* The theorems.                                                           *)

\* Every reachable state satisfies the inductive invariant of the device grant.
THEOREM DeviceInvariant == Spec => []DeviceIInv
  <1>1. Init => DeviceIInv
    BY InitHolds
  <1>2. DeviceIInv /\ [Next]_vars => DeviceIInv'
    BY StepHolds
  <1> QED
    BY <1>1, <1>2, PTL DEF Spec

\* The records, calls and histories of device.go and device_store.go have their
\* types; a code is minted at most once more by each concurrent call.
THEOREM DeviceTypes == Spec => []TypeOK
  <1>1. DeviceIInv => TypeOK
    BY DEF DeviceIInv
  <1> QED
    BY <1>1, DeviceInvariant, PTL

\* However many polls of redeemDeviceCode race, and whatever keys expire, a code
\* mints tokens at most once unless two decisions on it overlapped.
THEOREM DeviceMintsOnce == Spec => []MintsOnce
  <1>1. DeviceIInv => MintsOnce
    BY DEF DeviceIInv, Exclusive, MintsOnce
  <1> QED
    BY <1>1, DeviceInvariant, PTL

\* Tokens are minted for the client that started the code and for a user who
\* approved it and whose consent is stored, or was until the user revoked it
\* after the approval; a denial is final unless two decisions overlapped.
THEOREM DeviceMintsFollowApproval == Spec => []MintsFollowApproval
  <1>1. DeviceIInv => MintsFollowApproval
    BY DEF DeviceIInv, CodeFits, Consents, Exclusive, MintsFollowApproval
  <1> QED
    BY <1>1, DeviceInvariant, PTL

=============================================================================
