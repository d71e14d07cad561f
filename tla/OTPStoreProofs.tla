--------------------------- MODULE OTPStoreProofs ---------------------------
(***************************************************************************)
(* Theorems of OTPStore for any number of concurrent calls, codes,         *)
(* attempts and lost calls: its types, that a code is used once, and the   *)
(* bounds of the wrong guesses at a code and of the mails to a recipient.  *)
(***************************************************************************)
EXTENDS OTPStore, FiniteSetTheorems, TLAPS

-----------------------------------------------------------------------------
(***************************************************************************)
(* The inductive invariant.  The counter and the mails are bounded by      *)
(* counting the calls that are at the right place; of a call that runs     *)
(* alone, what it read is still so.  Shapes is TypeOK without the bounds   *)
(* that the rest of the invariant gives.                                   *)
(***************************************************************************)
Shapes ==
    /\ challenge \in 0..issued
    /\ attempts \in [count: Nat, until: 0..issued]
    /\ cooldown \in BOOLEAN /\ recipientCooldown \in BOOLEAN
    /\ issued \in 0..MaxCodes
    /\ ended \in 0..issued
    /\ req \in [Requests -> Call]
    /\ lost \in 0..MaxLost
    /\ log \in [accepted: [Codes -> Nat], rejected: [Codes -> 0..MaxRejected],
                reset: SUBSET Codes, sent: Nat, alone: BOOLEAN]

Deleting == {q \in Requests : req[q].pc = "delAttempts"}

Mailing == {q \in Requests : req[q].pc \in {"setCooldown", "setRecipient"}}

\* The calls that found no cooldown of the recipient and have not mailed yet.
Passed ==
    {q \in Requests :
        /\ req[q].op = "create"
        /\ req[q].pc \in {"delAttempts", "delCooldown", "delChallenge", "set",
                          "setCooldown", "setRecipient"}}

\* The calls whose guess at n was wrong and is to be answered.
Guessing(n) == {q \in Requests : req[q].code = n /\ req[q].pc \in {"ttl", "increment"}}

CallFits(r) ==
    /\ r.pc \in {"claim", "ttl", "increment"} => r.code \in 1..issued
    /\ r.pc = "increment" => r.until \in 1..issued
    /\ r.pc \in {"cooldown", "recipient", "set", "setCooldown", "setRecipient"} =>
          r.op = "create"
    /\ r.pc \in {"get", "claim", "clearAttempts", "clearCooldown", "ttl", "increment"} =>
          r.op = "verify"

CodeFits(n) ==
    /\ log.accepted[n] <= 1 /\ log.accepted[n] <= R
    /\ challenge = n => log.accepted[n] = 0
    /\ n > issued => log.accepted[n] = 0 /\ log.rejected[n] = 0

CountFits == attempts.count + 1 <= maxAttempts + Cardinality(Deleting) + lost

MailsFit ==
    /\ log.sent + Cardinality(Mailing) <= issued + (IF recipientCooldown THEN 1 ELSE 0)
    /\ Cardinality(Mailing) <= issued

SendsFit ==
    lost = 0 =>
        /\ ~recipientCooldown => log.sent = 0
        /\ log.sent + Cardinality(Passed) <= R + 1

GuessesFit(n) ==
    lost = 0 /\ n \notin log.reset =>
        /\ log.rejected[n] + Cardinality(Guessing(n)) + 1 <= maxAttempts + R
        /\ challenge = n => log.rejected[n] <= attempts.count

OneCall == \A p, q \in Requests : req[p].pc # "idle" /\ req[q].pc # "idle" => p = q

CallAlone(r) ==
    /\ r.pc \in {"delCooldown", "delChallenge", "set"} => attempts.count = 0
    /\ r.pc = "increment" /\ challenge # 0 => r.until = challenge
    /\ r.pc = "clearAttempts" => challenge = 0

CodeAlone(n) ==
    /\ log.rejected[n] <= maxAttempts
    /\ Guessing(n) # {} => log.rejected[n] < maxAttempts
    /\ /\ challenge = n /\ n > ended
       /\ \A q \in Requests : req[q].pc \notin {"delCooldown", "delChallenge"}
       => log.rejected[n] <= attempts.count

AloneFits ==
    log.alone =>
        /\ OneCall
        /\ lost = 0 =>
              /\ attempts.count > 0 /\ challenge # 0 => attempts.until = challenge
              /\ log.sent <= 1
              /\ Passed # {} => log.sent = 0
              /\ \A q \in Requests : CallAlone(req[q])
              /\ \A n \in Codes : CodeAlone(n)

OTPIInv ==
    /\ Shapes
    /\ \A q \in Requests : CallFits(req[q])
    /\ \A n \in Codes : CodeFits(n) /\ GuessesFit(n)
    /\ CountFits /\ MailsFit /\ SendsFit
    /\ AloneFits

-----------------------------------------------------------------------------
(* Counting calls.                                                         *)

LEMMA Bounds ==
    /\ maxAttempts \in Nat \ {0} /\ MaxCodes \in Nat /\ MaxLost \in Nat
    /\ IsFiniteSet(Requests) /\ R \in Nat /\ MaxRejected \in Nat
  BY BoundsAssumption, FS_CardinalityType DEF R, MaxRejected

\* A set of calls, and two that are disjoint.
LEMMA CallsCount ==
    ASSUME NEW S, S \subseteq Requests
    PROVE  IsFiniteSet(S) /\ Cardinality(S) \in Nat /\ Cardinality(S) <= R
  BY Bounds, FS_Subset, FS_CardinalityType DEF R

LEMMA CallsCountApart ==
    ASSUME NEW S, NEW T, S \subseteq Requests, T \subseteq Requests, S \intersect T = {}
    PROVE  Cardinality(S) + Cardinality(T) <= R
  <1>1. IsFiniteSet(S) /\ IsFiniteSet(T) /\ IsFiniteSet(S \union T)
    BY CallsCount
  <1>2. Cardinality(S \union T) = Cardinality(S) + Cardinality(T) - Cardinality(S \intersect T)
    BY <1>1, FS_Union
  <1>3. Cardinality(S \intersect T) = 0
    BY FS_EmptySet
  <1>4. Cardinality(S \union T) <= R
    BY CallsCount
  <1> QED
    BY <1>2, <1>3, <1>4, CallsCount

\* A set that at most gains or loses one call.
LEMMA OneMoves ==
    ASSUME NEW q \in Requests, NEW S, NEW T, S \subseteq Requests, T \subseteq Requests,
           S \ {q} = T \ {q}
    PROVE  /\ (q \in S <=> q \in T) => Cardinality(T) = Cardinality(S)
           /\ q \notin S /\ q \in T => Cardinality(T) = Cardinality(S) + 1
           /\ q \in S /\ q \notin T => Cardinality(S) = Cardinality(T) + 1
  <1>1. IsFiniteSet(S) /\ IsFiniteSet(T)
    BY CallsCount
  <1>2. CASE q \in S <=> q \in T
    <2>1. S = T
      BY <1>2
    <2> QED
      BY <1>2, <2>1
  <1>3. CASE q \notin S /\ q \in T
    <2>1. T = S \union {q}
      BY <1>3
    <2> QED
      BY <1>1, <1>3, <2>1, FS_AddElement
  <1>4. CASE q \in S /\ q \notin T
    <2>1. S = T \union {q}
      BY <1>4
    <2> QED
      BY <1>1, <1>4, <2>1, FS_AddElement
  <1> QED
    BY <1>2, <1>3, <1>4

LEMMA Moved ==
    ASSUME Shapes, NEW q \in Requests, NEW r \in Call, req' = [req EXCEPT ![q] = r]
    PROVE  /\ req' \in [Requests -> Call] /\ req'[q] = r
           /\ \A p \in Requests : p # q => req'[p] = req[p]
           /\ Deleting' \ {q} = Deleting \ {q} /\ Mailing' \ {q} = Mailing \ {q}
           /\ Passed' \ {q} = Passed \ {q}
           /\ \A n : Guessing(n)' \ {q} = Guessing(n) \ {q}
  <1>1. req \in [Requests -> Call]
    BY DEF Shapes
  <1>2. /\ req' \in [Requests -> Call] /\ req'[q] = r
        /\ \A p \in Requests : p # q => req'[p] = req[p]
    BY <1>1
  <1> QED
    BY <1>2 DEF Deleting, Mailing, Passed, Guessing

LEMMA Numbers ==
    ASSUME Shapes
    PROVE  /\ attempts.count \in Nat /\ attempts.until \in 0..issued
           /\ issued \in Nat /\ ended \in Nat /\ challenge \in Nat /\ lost \in Nat
           /\ challenge <= issued /\ issued <= MaxCodes
           /\ log.sent \in Nat /\ log.reset \subseteq Codes /\ log.alone \in BOOLEAN
           /\ log.accepted \in [Codes -> Nat] /\ log.rejected \in [Codes -> 0..MaxRejected]
           /\ \A n \in Codes : log.accepted[n] \in Nat /\ log.rejected[n] \in Nat
  BY Bounds DEF Shapes

LEMMA NumbersNext ==
    (Shapes =>
           /\ attempts.count \in Nat /\ attempts.until \in 0..issued
           /\ issued \in Nat /\ ended \in Nat /\ challenge \in Nat /\ lost \in Nat
           /\ challenge <= issued /\ issued <= MaxCodes
           /\ log.sent \in Nat /\ log.reset \subseteq Codes /\ log.alone \in BOOLEAN
           /\ log.accepted \in [Codes -> Nat] /\ log.rejected \in [Codes -> 0..MaxRejected]
           /\ \A n \in Codes : log.accepted[n] \in Nat /\ log.rejected[n] \in Nat)'
  BY Numbers, PTL

-----------------------------------------------------------------------------
(* What keeps each part, when q moves from s to r.                         *)

LEMMA CountKept ==
    ASSUME Shapes, Shapes', CountFits, NEW q \in Requests, NEW s, s = req[q], NEW r \in Call,
           req' = [req EXCEPT ![q] = r], lost' = lost \/ lost' = lost + 1,
           \/ attempts'.count = 0
           \/ /\ attempts'.count = attempts.count
              /\ s.pc = "delAttempts" /\ r.pc # "delAttempts" => lost' = lost + 1
           \/ /\ attempts'.count = attempts.count + 1 /\ s.pc # "delAttempts"
              /\ r.pc = "delAttempts" \/ attempts'.count < maxAttempts
    PROVE  CountFits'
  <1>1. PICK S, T : S = Deleting /\ T = Deleting'
    OBVIOUS
  <1>2. /\ S \subseteq Requests /\ T \subseteq Requests /\ S \ {q} = T \ {q}
        /\ q \in S <=> s.pc = "delAttempts"
        /\ q \in T <=> r.pc = "delAttempts"
    BY <1>1, Moved DEF Deleting
  <1>3. PICK d \in Nat, e \in Nat : d = Cardinality(S) /\ e = Cardinality(T)
    BY <1>2, CallsCount
  <1>4. /\ (q \in S <=> q \in T) => e = d
        /\ q \notin S /\ q \in T => e = d + 1
        /\ q \in S /\ q \notin T => d = e + 1
    BY <1>2, <1>3, OneMoves
  <1>5. PICK a \in Nat, b \in Nat, l \in Nat, m \in Nat, k \in Nat \ {0} :
           /\ a = attempts.count /\ b = attempts'.count /\ l = lost /\ m = lost' /\ k = maxAttempts
    BY Numbers, NumbersNext, Bounds
  <1>6. a + 1 <= k + d + l
    BY <1>1, <1>3, <1>5 DEF CountFits
  <1>7. b + 1 <= k + e + m
    BY <1>2, <1>4, <1>5, <1>6
  <1> QED
    BY <1>1, <1>3, <1>5, <1>7 DEF CountFits

LEMMA MailsKept ==
    ASSUME Shapes, Shapes', MailsFit, NEW q \in Requests, NEW s, s = req[q], NEW r \in Call,
           req' = [req EXCEPT ![q] = r], recipientCooldown => recipientCooldown',
           \/ /\ log'.sent = log.sent /\ issued' = issued
              /\ r.pc \in {"setCooldown", "setRecipient"} => s.pc \in {"setCooldown", "setRecipient"}
           \/ log'.sent = log.sent /\ issued' = issued + 1
           \/ /\ log'.sent = log.sent + 1 /\ issued' = issued
              /\ s.pc = "setRecipient" /\ r.pc = "idle"
    PROVE  MailsFit'
  <1>1. PICK S, T : S = Mailing /\ T = Mailing'
    OBVIOUS
  <1>2. /\ S \subseteq Requests /\ T \subseteq Requests /\ S \ {q} = T \ {q}
        /\ q \in S <=> s.pc \in {"setCooldown", "setRecipient"}
        /\ q \in T <=> r.pc \in {"setCooldown", "setRecipient"}
    BY <1>1, Moved DEF Mailing
  <1>3. PICK d \in Nat, e \in Nat : d = Cardinality(S) /\ e = Cardinality(T)
    BY <1>2, CallsCount
  <1>4. /\ (q \in S <=> q \in T) => e = d
        /\ q \notin S /\ q \in T => e = d + 1
        /\ q \in S /\ q \notin T => d = e + 1
    BY <1>2, <1>3, OneMoves
  <1>5. PICK a \in Nat, b \in Nat, i \in Nat, j \in Nat, x \in Nat, y \in Nat :
           /\ a = log.sent /\ b = log'.sent /\ i = issued /\ j = issued'
           /\ x = (IF recipientCooldown THEN 1 ELSE 0) /\ y = (IF recipientCooldown' THEN 1 ELSE 0)
    BY Numbers, NumbersNext
  <1>6. x <= y
    BY <1>5
  <1>7. a + d <= i + x /\ d <= i
    BY <1>1, <1>3, <1>5 DEF MailsFit
  <1>8. b + e <= j + y /\ e <= j
    BY <1>2, <1>4, <1>5, <1>6, <1>7
  <1> QED
    BY <1>1, <1>3, <1>5, <1>8 DEF MailsFit

InPassed(r) ==
    /\ r.op = "create"
    /\ r.pc \in {"delAttempts", "delCooldown", "delChallenge", "set",
                 "setCooldown", "setRecipient"}

LEMMA SendsKept ==
    ASSUME Shapes, Shapes', SendsFit, NEW q \in Requests, NEW s, s = req[q], NEW r \in Call,
           req' = [req EXCEPT ![q] = r], lost' = lost \/ lost' = lost + 1,
           \/ /\ log'.sent = log.sent /\ recipientCooldown' = recipientCooldown
              /\ InPassed(r) => InPassed(s) \/ ~recipientCooldown
           \/ /\ log'.sent = log.sent + 1 /\ InPassed(s) /\ ~InPassed(r)
              /\ recipientCooldown' \/ lost' = lost + 1
    PROVE  SendsFit'
  <1>1. PICK S, T : S = Passed /\ T = Passed'
    OBVIOUS
  <1>2. /\ S \subseteq Requests /\ T \subseteq Requests /\ S \ {q} = T \ {q}
        /\ q \in S <=> InPassed(s)
        /\ q \in T <=> InPassed(r)
    BY <1>1, Moved DEF Passed, InPassed
  <1>3. PICK d \in Nat, e \in Nat : d = Cardinality(S) /\ e = Cardinality(T) /\ e <= R
    BY <1>2, CallsCount
  <1>4. /\ (q \in S <=> q \in T) => e = d
        /\ q \in S /\ q \notin T => d = e + 1
    BY <1>2, <1>3, OneMoves
  <1>5. PICK a \in Nat, b \in Nat, k \in Nat :
           a = log.sent /\ b = log'.sent /\ k = R
    BY Numbers, NumbersNext, Bounds
  <1>6. lost' = 0 => lost = 0
    BY Numbers
  <1>7. SUFFICES ASSUME lost = 0, lost' = 0
                 PROVE  (~recipientCooldown' => b = 0) /\ b + e <= k + 1
    BY <1>1, <1>3, <1>5, <1>6 DEF SendsFit
  <1>8. (~recipientCooldown => a = 0) /\ a + d <= k + 1
    BY <1>1, <1>3, <1>5, <1>7 DEF SendsFit
  <1> QED
    BY <1>2, <1>3, <1>4, <1>5, <1>7, <1>8

\* A call that comes to guess at n found the challenge n there: the counter
\* bounds what was rejected, and the calls that delete it are not guessing.
LEMMA GuessesKept ==
    ASSUME Shapes, Shapes', CountFits, NEW n \in Codes, GuessesFit(n),
           NEW q \in Requests, NEW s, s = req[q], NEW r \in Call,
           req' = [req EXCEPT ![q] = r], lost' = lost \/ lost' = lost + 1,
           log.reset \subseteq log'.reset,
           \/ /\ log'.rejected[n] = log.rejected[n]
              /\ r.code = n /\ r.pc \in {"ttl", "increment"} =>
                    \/ s.code = n /\ s.pc \in {"ttl", "increment"}
                    \/ s.pc = "get" /\ challenge = n
           \/ /\ log'.rejected[n] \in {log.rejected[n], log.rejected[n] + 1}
              /\ s.code = n /\ s.pc \in {"ttl", "increment"}
              /\ r.pc \notin {"ttl", "increment"},
           lost = 0 /\ lost' = 0 /\ n \notin log.reset /\ n \notin log'.reset /\ challenge' = n
              /\ (challenge = n => log.rejected[n] <= attempts.count)
              => log'.rejected[n] <= attempts'.count
    PROVE  GuessesFit(n)'
  <1>1. PICK S, T, D : S = Guessing(n) /\ T = Guessing(n)' /\ D = Deleting
    OBVIOUS
  <1>2. /\ S \subseteq Requests /\ T \subseteq Requests /\ S \ {q} = T \ {q} /\ D \subseteq Requests
        /\ q \in S <=> s.code = n /\ s.pc \in {"ttl", "increment"}
        /\ q \in T <=> r.code = n /\ r.pc \in {"ttl", "increment"}
        /\ q \in D <=> s.pc = "delAttempts"
    BY <1>1, Moved DEF Guessing, Deleting
  <1>3. PICK d \in Nat, e \in Nat, f \in Nat :
           d = Cardinality(S) /\ e = Cardinality(T) /\ f = Cardinality(D)
    BY <1>2, CallsCount
  <1>4. /\ (q \in S <=> q \in T) => e = d
        /\ q \notin S /\ q \in T => e = d + 1
        /\ q \in S /\ q \notin T => d = e + 1
    BY <1>2, <1>3, OneMoves
  <1>5. PICK a \in Nat, b \in Nat, x \in Nat, k \in Nat \ {0}, m \in Nat :
           /\ a = log.rejected[n] /\ b = log'.rejected[n] /\ x = attempts.count
           /\ k = maxAttempts /\ m = R
    BY Numbers, NumbersNext, Bounds
  <1>6. lost' = 0 => lost = 0
    BY Numbers
  <1>7. SUFFICES ASSUME lost = 0, lost' = 0, n \notin log.reset, n \notin log'.reset
                 PROVE  b + e + 1 <= k + m /\ (challenge' = n => b <= attempts'.count)
    BY <1>1, <1>3, <1>5, <1>6 DEF GuessesFit
  <1>8. a + d + 1 <= k + m /\ (challenge = n => a <= x)
    BY <1>1, <1>3, <1>5, <1>7 DEF GuessesFit
  <1>9. challenge' = n => b <= attempts'.count
    BY <1>5, <1>7, <1>8
  <1>10. CASE q \notin S /\ q \in T
    <2>1. s.pc = "get" /\ challenge = n /\ b = a
      BY <1>2, <1>5, <1>10
    <2>2. x + 1 <= k + f
      BY <1>1, <1>3, <1>5, <1>7 DEF CountFits
    <2>3. T \intersect D = {}
      BY <1>1, <1>2, <2>1, Zenon DEF Guessing, Deleting
    <2>4. e + f <= m
      BY <1>2, <1>3, <1>5, <2>3, CallsCountApart
    <2> QED
      BY <1>8, <1>9, <2>1, <2>2, <2>4
  <1>11. CASE q \in S \/ q \notin T
    BY <1>2, <1>4, <1>5, <1>8, <1>9, <1>11
  <1> QED
    BY <1>10, <1>11

-----------------------------------------------------------------------------
(***************************************************************************)
(* AloneFits of the only call that runs, which is r.                       *)
(***************************************************************************)
CodeWith(n, r) ==
    /\ log.rejected[n] <= maxAttempts
    /\ r.code = n /\ r.pc \in {"ttl", "increment"} => log.rejected[n] < maxAttempts
    /\ /\ challenge = n /\ n > ended
       /\ r.pc \notin {"delCooldown", "delChallenge"}
       => log.rejected[n] <= attempts.count

OnlyCall(r) ==
    /\ attempts.count > 0 /\ challenge # 0 => attempts.until = challenge
    /\ log.sent <= 1
    /\ InPassed(r) => log.sent = 0
    /\ CallAlone(r)
    /\ \A n \in Codes : CodeWith(n, r)

OthersIdle(q) == \A p \in Requests : p # q => req[p].pc = "idle"

LEMMA OnlyCallOf ==
    ASSUME Shapes, AloneFits, log.alone, lost = 0, NEW q \in Requests, OthersIdle(q),
           NEW s, s = req[q]
    PROVE  OnlyCall(s)
  <1>1. /\ attempts.count > 0 /\ challenge # 0 => attempts.until = challenge
        /\ log.sent <= 1
        /\ Passed # {} => log.sent = 0
        /\ CallAlone(req[q])
        /\ \A n \in Codes : CodeAlone(n)
    BY DEF AloneFits
  <1>2. CallAlone(s)
    BY <1>1
  <1>3. InPassed(s) => log.sent = 0
    <2>1. InPassed(s) => q \in Passed
      BY DEF InPassed, Passed
    <2> QED
      BY <1>1, <2>1
  <1>4. ASSUME NEW n \in Codes
        PROVE  CodeWith(n, s)
    <2>1. CodeAlone(n)
      BY <1>1
    <2>2. s.code = n /\ s.pc \in {"ttl", "increment"} => q \in Guessing(n)
      BY DEF Guessing
    <2>3. s.pc \notin {"delCooldown", "delChallenge"} =>
             \A p \in Requests : req[p].pc \notin {"delCooldown", "delChallenge"}
      BY DEF OthersIdle
    <2> QED
      BY <2>1, <2>2, <2>3 DEF CodeAlone, CodeWith
  <1> QED
    BY <1>1, <1>2, <1>3, <1>4 DEF OnlyCall

LEMMA OnlyCallGives ==
    ASSUME Shapes, NEW q \in Requests, OthersIdle(q), NEW r, r = req[q],
           lost = 0 => OnlyCall(r)
    PROVE  AloneFits
  <1>1. OneCall
    BY DEF OneCall, OthersIdle
  <1>2. SUFFICES ASSUME lost = 0, OnlyCall(r)
                 PROVE  /\ attempts.count > 0 /\ challenge # 0 => attempts.until = challenge
                        /\ log.sent <= 1
                        /\ Passed # {} => log.sent = 0
                        /\ \A p \in Requests : CallAlone(req[p])
                        /\ \A n \in Codes : CodeAlone(n)
    BY <1>1 DEF AloneFits
  <1>3. Passed # {} => log.sent = 0
    <2>1. Passed # {} => InPassed(r)
      BY DEF Passed, InPassed, OthersIdle
    <2> QED
      BY <1>2, <2>1 DEF OnlyCall
  <1>4. ASSUME NEW p \in Requests
        PROVE  CallAlone(req[p])
    BY <1>2 DEF OnlyCall, CallAlone, OthersIdle
  <1>5. ASSUME NEW n \in Codes
        PROVE  CodeAlone(n)
    <2>1. CodeWith(n, r)
      BY <1>2 DEF OnlyCall
    <2>2. Guessing(n) # {} => r.code = n /\ r.pc \in {"ttl", "increment"}
      BY DEF Guessing, OthersIdle
    <2> QED
      BY <2>1, <2>2 DEF CodeAlone, CodeWith
  <1> QED
    BY <1>2, <1>3, <1>4, <1>5 DEF OnlyCall

LEMMA OnlyCallGivesNext ==
    ASSUME NEW q \in Requests, NEW r
    PROVE  (Shapes /\ OthersIdle(q) /\ r = req[q] /\ (lost = 0 => OnlyCall(r)) => AloneFits)'
  <1>1. Shapes /\ OthersIdle(q) /\ r = req[q] /\ (lost = 0 => OnlyCall(r)) => AloneFits
    BY OnlyCallGives
  <1> QED
    BY <1>1, PTL

LEMMA AloneKept ==
    ASSUME Shapes, Shapes', AloneFits, NEW q \in Requests, NEW s, s = req[q], NEW r \in Call,
           req' = [req EXCEPT ![q] = r], lost' = lost \/ lost' = lost + 1,
           log'.alone => log.alone /\ (s.pc # "idle" \/ OthersIdle(q)),
           lost = 0 /\ lost' = 0 /\ OthersIdle(q) /\ OnlyCall(s) => OnlyCall(r)'
    PROVE  AloneFits'
  <1>1. SUFFICES ASSUME log'.alone
                 PROVE  AloneFits'
    BY DEF AloneFits
  <1>2. OthersIdle(q)
    BY <1>1 DEF AloneFits, OneCall, OthersIdle
  <1>3. lost' = 0 => lost = 0
    BY Numbers
  <1>4. lost = 0 => OnlyCall(s)
    BY <1>1, <1>2, OnlyCallOf
  <1>5. lost' = 0 => OnlyCall(r)'
    BY <1>2, <1>3, <1>4
  <1>6. OthersIdle(q)' /\ r = req'[q]
    BY <1>2, Moved DEF OthersIdle
  <1> QED
    BY <1>5, <1>6, OnlyCallGivesNext

-----------------------------------------------------------------------------
(* What every step of a call has in common.                                *)

LEMMA CallsKept ==
    ASSUME Shapes, Shapes', \A p \in Requests : CallFits(req[p]),
           NEW q \in Requests, NEW r \in Call, req' = [req EXCEPT ![q] = r],
           issued' = issued \/ issued' = issued + 1, CallFits(r)'
    PROVE  \A p \in Requests : CallFits(req[p])'
  <1>1. PICK i \in Nat, j \in Nat : i = issued /\ j = issued'
    BY Numbers, NumbersNext
  <1>2. i <= j
    BY <1>1
  <1> SUFFICES ASSUME NEW p \in Requests
               PROVE  CallFits(req[p])'
    OBVIOUS
  <1>3. CASE p = q
    <2>1. req'[p] = r
      BY <1>3, Moved
    <2> QED
      BY <2>1 DEF CallFits
  <1>4. CASE p # q
    <2>1. PICK c : c = req[p]
      OBVIOUS
    <2>2. c = req'[p] /\ CallFits(c) /\ c \in Call
      BY <1>4, <2>1, Moved DEF Shapes
    <2>3. \A n \in 1..i : n \in 1..j
      BY <1>2
    <2>4. CallFits(c)'
      BY <1>1, <2>2, <2>3 DEF CallFits
    <2> QED
      BY <2>2, <2>4 DEF CallFits
  <1> QED
    BY <1>3, <1>4

\* The codes when no guess is answered.
LEMMA CodesKept ==
    ASSUME Shapes, Shapes', NEW n \in Codes, CodeFits(n),
           log'.accepted = log.accepted, log'.rejected = log.rejected,
           \/ issued' = issued /\ challenge' \in {challenge, 0}
           \/ issued' = issued + 1 /\ challenge' = issued'
    PROVE  CodeFits(n)'
  <1>1. PICK a \in Nat, b \in Nat, i \in Nat, j \in Nat, x \in Nat, y \in Nat, m \in Nat :
           /\ a = log.accepted[n] /\ b = log.rejected[n] /\ i = issued /\ j = issued'
           /\ x = challenge /\ y = challenge' /\ m = R
    BY Numbers, NumbersNext, Bounds
  <1>2. n \in Nat \ {0}
    BY Bounds DEF Codes
  <1>3. /\ a <= 1 /\ a <= m
        /\ x = n => a = 0
        /\ n > i => a = 0 /\ b = 0
    BY <1>1 DEF CodeFits
  <1>4. (j = i /\ y \in {x, 0}) \/ (j = i + 1 /\ y = j)
    BY <1>1
  <1>5. (y = n => a = 0) /\ (n > j => a = 0 /\ b = 0)
    BY <1>2, <1>3, <1>4
  <1> QED
    BY <1>1, <1>3, <1>5 DEF CodeFits

\* A step of q that only moves on, from s to r.
LEMMA QuietKept ==
    ASSUME OTPIInv, NEW q \in Requests, NEW s, s = req[q], NEW r \in Call,
           req' = [req EXCEPT ![q] = r], s.pc # "idle",
           challenge' = challenge, attempts' = attempts, issued' = issued, ended' = ended,
           recipientCooldown' = recipientCooldown, log' = log,
           cooldown' \in BOOLEAN, lost' \in {lost, lost + 1}, lost' \in 0..MaxLost,
           CallFits(r),
           s.pc = "delAttempts" /\ r.pc # "delAttempts" => lost' = lost + 1,
           r.pc \in {"setCooldown", "setRecipient"} => s.pc \in {"setCooldown", "setRecipient"},
           InPassed(r) => InPassed(s) \/ ~recipientCooldown,
           \A n \in Codes : r.code = n /\ r.pc \in {"ttl", "increment"} =>
              \/ s.code = n /\ s.pc \in {"ttl", "increment"}
              \/ s.pc = "get" /\ challenge = n,
           lost = 0 /\ lost' = 0 /\ OthersIdle(q) /\ OnlyCall(s) => OnlyCall(r)
    PROVE  OTPIInv'
  <1>1. /\ Shapes /\ \A p \in Requests : CallFits(req[p])
        /\ \A n \in Codes : CodeFits(n) /\ GuessesFit(n)
        /\ CountFits /\ MailsFit /\ SendsFit /\ AloneFits
    BY DEF OTPIInv
  <1>2. Shapes'
    <2>1. req' \in [Requests -> Call]
      BY <1>1, Moved
    <2> QED
      BY <1>1, <2>1 DEF Shapes
  <1>3. \A p \in Requests : CallFits(req[p])'
    <2>1. CallFits(r)'
      BY DEF CallFits
    <2> QED
      BY <1>1, <1>2, <2>1, CallsKept
  <1>4. ASSUME NEW n \in Codes
        PROVE  CodeFits(n)'
    BY <1>1, <1>2, CodesKept
  <1>5. ASSUME NEW n \in Codes
        PROVE  GuessesFit(n)'
    <2>1. /\ log.reset \subseteq log'.reset /\ log'.rejected[n] = log.rejected[n]
          /\ challenge' = n /\ (challenge = n => log.rejected[n] <= attempts.count)
             => log'.rejected[n] <= attempts'.count
      OBVIOUS
    <2> QED
      BY <1>1, <1>2, <2>1, GuessesKept
  <1>6. CountFits'
    BY <1>1, <1>2, CountKept
  <1>7. MailsFit'
    BY <1>1, <1>2, MailsKept
  <1>8. SendsFit'
    BY <1>1, <1>2, SendsKept
  <1>9. AloneFits'
    <2>1. OnlyCall(r) => OnlyCall(r)'
      BY DEF OnlyCall, CallAlone, CodeWith
    <2> QED
      BY <1>1, <1>2, <2>1, AloneKept
  <1> QED
    BY <1>2, <1>3, <1>4, <1>5, <1>6, <1>7, <1>8, <1>9 DEF OTPIInv

-----------------------------------------------------------------------------
(* The steps of a call that change no key the invariant is about.          *)

Places ==
    {"idle", "cooldown", "recipient", "delAttempts", "delCooldown", "delChallenge",
     "set", "setCooldown", "setRecipient",
     "get", "claim", "clearAttempts", "clearCooldown", "ttl", "increment"}

\* The call that Goto, Forget and Return leave.
LEMMA Moves ==
    ASSUME Shapes, NEW q \in Requests
    PROVE  /\ req[q] \in Call /\ req \in [Requests -> Call]
           /\ \A pc \in Places : Goto(q, pc) =>
                 \E r \in Call : /\ r = [req[q] EXCEPT !.pc = pc]
                                 /\ req' = [req EXCEPT ![q] = r]
           /\ \A pc \in Places : Forget(q, pc) =>
                 \E r \in Call : /\ r = [Idle EXCEPT !.pc = pc, !.op = "verify"]
                                 /\ req' = [req EXCEPT ![q] = r]
           /\ Idle \in Call
           /\ Return(q) => req' = [req EXCEPT ![q] = Idle]
  <1>1. req[q] \in Call /\ req \in [Requests -> Call]
    BY DEF Shapes
  <1>2. ASSUME NEW pc \in Places, NEW s \in Call
        PROVE  [s EXCEPT !.pc = pc] \in Call
    BY DEF Call, Places
  <1>3. Idle \in Call
    BY Bounds DEF Idle, Call
  <1>4. ASSUME NEW pc \in Places
        PROVE  [Idle EXCEPT !.pc = pc, !.op = "verify"] \in Call
    <2>1. PICK i \in Call : i = Idle
      BY <1>3
    <2>2. PICK j \in Call : j = [i EXCEPT !.pc = pc]
      BY <1>2
    <2>3. [j EXCEPT !.op = "verify"] \in Call
      BY DEF Call
    <2>4. [i EXCEPT !.pc = pc, !.op = "verify"] = [j EXCEPT !.op = "verify"]
      BY <2>2
    <2> QED
      BY <2>1, <2>3, <2>4
  <1>5. ASSUME NEW pc \in Places, Goto(q, pc)
        PROVE  \E r \in Call : r = [req[q] EXCEPT !.pc = pc] /\ req' = [req EXCEPT ![q] = r]
    <2>1. PICK s \in Call : s = req[q]
      BY <1>1
    <2>2. PICK r : r = [s EXCEPT !.pc = pc]
      OBVIOUS
    <2>3. r \in Call
      BY <1>2, <2>2
    <2>4. req' = [req EXCEPT ![q] = r]
      BY <1>5, <2>1, <2>2 DEF Goto
    <2> QED
      BY <2>1, <2>2, <2>3, <2>4
  <1>6. ASSUME NEW pc \in Places, Forget(q, pc)
        PROVE  \E r \in Call : /\ r = [Idle EXCEPT !.pc = pc, !.op = "verify"]
                               /\ req' = [req EXCEPT ![q] = r]
    BY <1>4, <1>6 DEF Forget
  <1> QED
    BY <1>1, <1>3, <1>5, <1>6 DEF Return

LEMMA Losing ==
    ASSUME Shapes, lost' = lost \/ (lost < MaxLost /\ lost' = lost + 1)
    PROVE  /\ lost' \in {lost, lost + 1} /\ lost' \in 0..MaxLost
           /\ lost' = lost + 1 => lost' # 0
  BY Numbers, Bounds DEF Shapes

LEMMA CheckCooldownKeeps ==
    ASSUME OTPIInv, NEW q \in Requests, CheckCooldown(q)
    PROVE  OTPIInv'
  <1>1. Shapes /\ CallFits(req[q])
    BY DEF OTPIInv
  <1>2. PICK s \in Call : s = req[q]
    BY <1>1, Moves
  <1>3. /\ s.pc = "cooldown" /\ s.op = "create"
        /\ UNCHANGED <<keys, issued, ended, lost, log>>
    BY <1>1, <1>2 DEF CheckCooldown, At, CallFits
  <1>4. PICK r \in Call : /\ req' = [req EXCEPT ![q] = r]
                          /\ r = Idle \/ r = [s EXCEPT !.pc = "recipient"]
    BY <1>1, <1>2, Moves DEF CheckCooldown, Places
  <1>5. r.pc \in {"idle", "recipient"} /\ r.op = "create"
    BY <1>3, <1>4 DEF Idle, Call
  <1>6. CallFits(r) /\ ~InPassed(r)
    BY <1>5 DEF CallFits, InPassed
  <1>7. OnlyCall(s) => OnlyCall(r)
    BY <1>3, <1>5, <1>6 DEF OnlyCall, CallAlone, CodeWith
  <1>8. cooldown' \in BOOLEAN /\ lost' \in 0..MaxLost /\ lost' = lost
    BY <1>1, <1>3 DEF keys, Shapes
  <1> QED
    BY <1>2, <1>3, <1>4, <1>5, <1>6, <1>7, <1>8, QuietKept DEF keys

\* A call that returns.
LEMMA Returned ==
    /\ CallFits(Idle) /\ ~InPassed(Idle)
    /\ Idle.pc = "idle" /\ Idle.op = "create" /\ Idle.code = 0
    /\ \A s \in Call : s.pc \notin {"delCooldown", "delChallenge"} /\ OnlyCall(s) => OnlyCall(Idle)
  <1>1. Idle.pc = "idle" /\ Idle.op = "create" /\ Idle.code = 0
    BY DEF Idle
  <1>2. CallFits(Idle) /\ ~InPassed(Idle)
    BY <1>1 DEF CallFits, InPassed
  <1>3. ASSUME NEW s \in Call, s.pc \notin {"delCooldown", "delChallenge"}, OnlyCall(s)
        PROVE  OnlyCall(Idle)
    BY <1>1, <1>2, <1>3 DEF OnlyCall, CallAlone, CodeWith
  <1> QED
    BY <1>1, <1>2, <1>3

LEMMA CheckRecipientKeeps ==
    ASSUME OTPIInv, NEW q \in Requests, CheckRecipient(q)
    PROVE  OTPIInv'
  <1>1. Shapes /\ CallFits(req[q]) /\ SendsFit
    BY DEF OTPIInv
  <1>2. PICK s \in Call : s = req[q]
    BY <1>1, Moves
  <1>3. /\ s.pc = "recipient" /\ s.op = "create"
        /\ UNCHANGED <<keys, issued, ended, lost, log>>
    BY <1>1, <1>2 DEF CheckRecipient, At, CallFits
  <1>4. PICK r \in Call : /\ req' = [req EXCEPT ![q] = r]
                          /\ r = Idle \/ (r = [s EXCEPT !.pc = "delAttempts"] /\ ~recipientCooldown)
    BY <1>1, <1>2, Moves DEF CheckRecipient, Places
  <1>5. r.pc = "idle" \/ (r.pc = "delAttempts" /\ ~recipientCooldown)
    BY <1>3, <1>4, Returned DEF Call
  <1>6. CallFits(r)
    BY <1>5 DEF CallFits
  <1>7. lost = 0 /\ OnlyCall(s) => OnlyCall(r)
    <2>1. InPassed(r) /\ lost = 0 => log.sent = 0
      BY <1>1, <1>5 DEF SendsFit, InPassed
    <2> QED
      BY <1>3, <1>5, <2>1 DEF OnlyCall, CallAlone, CodeWith
  <1>8. cooldown' \in BOOLEAN /\ lost' \in 0..MaxLost /\ lost' = lost
    BY <1>1, <1>3 DEF keys, Shapes
  <1>9. InPassed(r) => ~recipientCooldown
    BY <1>5 DEF InPassed
  <1> QED
    BY <1>2, <1>3, <1>4, <1>5, <1>6, <1>7, <1>8, <1>9, QuietKept DEF keys

LEMMA GetChallengeKeeps ==
    ASSUME OTPIInv, NEW q \in Requests, GetChallenge(q)
    PROVE  OTPIInv'
  <1>1. Shapes /\ CallFits(req[q]) /\ CountFits
    BY DEF OTPIInv
  <1>2. PICK s \in Call : s = req[q]
    BY <1>1, Moves
  <1>3. /\ s.pc = "get" /\ s.op = "verify"
        /\ UNCHANGED <<keys, issued, ended, lost, log>>
    BY <1>1, <1>2 DEF GetChallenge, At, CallFits
  <1>4. PICK r \in Call : /\ req' = [req EXCEPT ![q] = r]
                          /\ \/ r = Idle
                             \/ /\ r.pc \in {"delAttempts", "claim", "ttl"} /\ r.op = "verify"
                                /\ r.code = challenge /\ challenge # 0
                                /\ challenge <= ended => r.pc = "delAttempts"
    <2>1. CASE challenge = 0
      BY <1>1, <2>1, Moves DEF GetChallenge
    <2>2. CASE challenge # 0
      <3>1. PICK pc : /\ pc \in IF challenge <= ended THEN {"delAttempts"} ELSE {"claim", "ttl"}
                      /\ req' = [req EXCEPT ![q] = [s EXCEPT !.pc = pc, !.code = challenge]]
        BY <1>1, <1>2, <2>2, Moves DEF GetChallenge
      <3>2. challenge \in 0..MaxCodes
        BY <1>1, Bounds DEF Shapes
      <3>3. PICK t \in Call : t = [s EXCEPT !.pc = pc]
        BY <3>1 DEF Call
      <3>4. PICK r : r = [t EXCEPT !.code = challenge]
        OBVIOUS
      <3>5. r \in Call /\ r.pc = pc /\ r.op = "verify" /\ r.code = challenge
        BY <1>3, <3>1, <3>2, <3>3, <3>4 DEF Call
      <3>6. req' = [req EXCEPT ![q] = r]
        BY <3>1, <3>3, <3>4
      <3> QED
        BY <2>2, <3>1, <3>5, <3>6
    <2> QED
      BY <2>1, <2>2
  <1>5. CallFits(r) /\ ~InPassed(r)
    <2>1. challenge # 0 => challenge \in 1..issued
      BY <1>1 DEF Shapes
    <2>2. CASE r = Idle
      BY <2>2, Returned
    <2>3. CASE r # Idle
      BY <1>4, <2>1, <2>3 DEF CallFits, InPassed
    <2> QED
      BY <2>2, <2>3
  <1>6. lost = 0 /\ OthersIdle(q) /\ OnlyCall(s) => OnlyCall(r)
    <2> SUFFICES ASSUME lost = 0, OthersIdle(q), OnlyCall(s)
                 PROVE  OnlyCall(r)
      OBVIOUS
    <2>1. CASE r = Idle
      BY <1>3, <2>1, Returned
    <2>2. CASE r # Idle
      <3>1. Deleting = {}
        BY <1>2, <1>3, Zenon DEF Deleting, OthersIdle
      <3>2. attempts.count < maxAttempts
        BY <1>1, <3>1, FS_EmptySet, Numbers, Bounds DEF CountFits
      <3>3. ASSUME NEW n \in Codes
            PROVE  CodeWith(n, r)
        <4>1. CodeWith(n, s)
          BY DEF OnlyCall
        <4>2. n \in Nat /\ log.rejected[n] \in Nat
          BY <1>1, Bounds, Numbers DEF Codes
        <4> QED
          BY <1>1, <1>3, <1>4, <2>2, <3>2, <4>1, <4>2, Numbers, Bounds DEF CodeWith
      <3>4. CallAlone(r)
        BY <1>4, <2>2 DEF CallAlone
      <3> QED
        BY <1>5, <3>3, <3>4 DEF OnlyCall
    <2> QED
      BY <2>1, <2>2
  <1>7. cooldown' \in BOOLEAN /\ lost' \in 0..MaxLost /\ lost' = lost
    BY <1>1, <1>3 DEF keys, Shapes
  <1>8. ASSUME NEW n \in Codes, r.code = n, r.pc \in {"ttl", "increment"}
        PROVE  challenge = n
    BY <1>4, <1>8, Returned
  <1>9. r.pc \notin {"setCooldown", "setRecipient"}
    BY <1>4, Returned
  <1> QED
    BY <1>2, <1>3, <1>4, <1>5, <1>6, <1>7, <1>8, <1>9, QuietKept DEF keys

LEMMA CallFailsKeeps ==
    ASSUME OTPIInv, NEW q \in Requests, CallFails(q)
    PROVE  OTPIInv'
  <1>1. Shapes
    BY DEF OTPIInv
  <1>2. PICK s \in Call : s = req[q]
    BY <1>1, Moves
  <1>3. /\ s.pc # "idle" /\ UNCHANGED <<keys, issued, ended, log>>
        /\ IF s.pc \in {"delAttempts", "delCooldown", "delChallenge"}
           THEN lost < MaxLost /\ lost' = lost + 1 ELSE lost' = lost
    BY <1>2 DEF CallFails, At, Revoking
  <1>4. Idle \in Call /\ req' = [req EXCEPT ![q] = Idle]
    BY <1>1, Moves DEF CallFails
  <1>5. lost = 0 /\ lost' = 0 /\ OnlyCall(s) => OnlyCall(Idle)
    <2>1. lost' = lost => s.pc \notin {"delCooldown", "delChallenge"}
      BY <1>1, <1>3, Numbers
    <2> QED
      BY <2>1, Returned
  <1>6. cooldown' \in BOOLEAN /\ lost' \in {lost, lost + 1} /\ lost' \in 0..MaxLost
    BY <1>1, <1>3, Losing DEF keys, Shapes
  <1>7. /\ s.pc = "delAttempts" => lost' = lost + 1
        /\ Idle.pc \notin {"setCooldown", "setRecipient", "ttl", "increment"}
    BY <1>3, Returned
  <1> QED
    BY <1>2, <1>3, <1>4, <1>5, <1>6, <1>7, Returned, QuietKept DEF keys

LEMMA DeleteCooldownKeeps ==
    ASSUME OTPIInv, NEW q \in Requests, DeleteCooldown(q)
    PROVE  OTPIInv'
  <1>1. Shapes /\ CallFits(req[q])
    BY DEF OTPIInv
  <1>2. PICK s \in Call : s = req[q]
    BY <1>1, Moves
  <1>3. /\ s.pc = "delCooldown" /\ UNCHANGED <<challenge, attempts, recipientCooldown, issued, ended, log>>
        /\ lost' = lost \/ (lost < MaxLost /\ lost' = lost + 1)
        /\ cooldown' \in {cooldown, FALSE}
    BY <1>2 DEF DeleteCooldown, Ignored, At
  <1>4. PICK r \in Call : /\ req' = [req EXCEPT ![q] = r]
                          /\ r = [s EXCEPT !.pc = "delChallenge"]
    BY <1>1, <1>2, Moves DEF DeleteCooldown, Places
  <1>5. r.pc = "delChallenge" /\ r.op = s.op
    BY <1>4 DEF Call
  <1>6. CallFits(r) /\ (InPassed(r) => InPassed(s))
    BY <1>3, <1>5 DEF CallFits, InPassed
  <1>7. OnlyCall(s) => OnlyCall(r)
    BY <1>3, <1>5, <1>6 DEF OnlyCall, CallAlone, CodeWith
  <1>8. cooldown' \in BOOLEAN /\ lost' \in {lost, lost + 1} /\ lost' \in 0..MaxLost
    BY <1>1, <1>3, Losing DEF Shapes
  <1> QED
    BY <1>2, <1>3, <1>4, <1>5, <1>6, <1>7, <1>8, QuietKept

LEMMA SetCooldownKeeps ==
    ASSUME OTPIInv, NEW q \in Requests, SetCooldown(q)
    PROVE  OTPIInv'
  <1>1. Shapes /\ CallFits(req[q])
    BY DEF OTPIInv
  <1>2. PICK s \in Call : s = req[q]
    BY <1>1, Moves
  <1>3. /\ s.pc = "setCooldown" /\ s.op = "create"
        /\ UNCHANGED <<challenge, attempts, recipientCooldown, issued, ended, log>>
        /\ lost' = lost \/ (lost < MaxLost /\ lost' = lost + 1)
        /\ cooldown' \in {cooldown, TRUE}
    BY <1>1, <1>2 DEF SetCooldown, Ignored, At, CallFits
  <1>4. PICK r \in Call : /\ req' = [req EXCEPT ![q] = r]
                          /\ r = [s EXCEPT !.pc = "setRecipient"]
    BY <1>1, <1>2, Moves DEF SetCooldown, Places
  <1>5. r.pc = "setRecipient" /\ r.op = "create"
    BY <1>3, <1>4 DEF Call
  <1>6. CallFits(r) /\ InPassed(s)
    BY <1>3, <1>5 DEF CallFits, InPassed
  <1>7. OnlyCall(s) => OnlyCall(r)
    BY <1>3, <1>5, <1>6 DEF OnlyCall, CallAlone, CodeWith
  <1>8. cooldown' \in BOOLEAN /\ lost' \in {lost, lost + 1} /\ lost' \in 0..MaxLost
    BY <1>1, <1>3, Losing DEF Shapes
  <1> QED
    BY <1>2, <1>3, <1>4, <1>5, <1>6, <1>7, <1>8, QuietKept

LEMMA ClearCooldownKeeps ==
    ASSUME OTPIInv, NEW q \in Requests, ClearCooldown(q)
    PROVE  OTPIInv'
  <1>1. Shapes /\ CallFits(req[q])
    BY DEF OTPIInv
  <1>2. PICK s \in Call : s = req[q]
    BY <1>1, Moves
  <1>3. /\ s.pc = "clearCooldown"
        /\ UNCHANGED <<challenge, attempts, recipientCooldown, issued, ended, log>>
        /\ lost' = lost \/ (lost < MaxLost /\ lost' = lost + 1)
        /\ cooldown' \in {cooldown, FALSE}
    BY <1>2 DEF ClearCooldown, Ignored, At
  <1>4. Idle \in Call /\ req' = [req EXCEPT ![q] = Idle]
    BY <1>1, Moves DEF ClearCooldown
  <1>5. OnlyCall(s) => OnlyCall(Idle)
    BY <1>3, Returned
  <1>6. cooldown' \in BOOLEAN /\ lost' \in {lost, lost + 1} /\ lost' \in 0..MaxLost
    BY <1>1, <1>3, Losing DEF Shapes
  <1>7. Idle.pc \notin {"setCooldown", "setRecipient", "ttl", "increment"}
    BY Returned
  <1> QED
    BY <1>2, <1>3, <1>4, <1>5, <1>6, <1>7, Returned, QuietKept

-----------------------------------------------------------------------------
(* The counter is deleted: by a revocation, or by the guess that was right. *)

Logs == [accepted: [Codes -> Nat], rejected: [Codes -> 0..MaxRejected],
         reset: SUBSET Codes, sent: Nat, alone: BOOLEAN]

LEMMA Forgotten ==
    ASSUME Shapes, ForgetAttempts
    PROVE  /\ attempts' = NoAttempts /\ attempts'.count = 0
           /\ attempts' \in [count: Nat, until: 0..issued]
           /\ log' \in Logs
           /\ log'.accepted = log.accepted /\ log'.rejected = log.rejected
           /\ log'.sent = log.sent /\ log'.alone = log.alone
           /\ log.reset \subseteq log'.reset
           /\ \A n \in Codes : n \notin log'.reset /\ challenge = n => attempts.count = 0
  <1>1. /\ log \in Logs /\ issued \in Nat /\ attempts.count \in Nat
        /\ challenge # 0 => challenge \in Codes
    BY Bounds DEF Shapes, Logs, Codes
  <1>2. PICK x : x = IF attempts.count > 0 /\ challenge # 0
                     THEN log.reset \union {challenge} ELSE log.reset
    OBVIOUS
  <1>3. log' = [log EXCEPT !.reset = x] /\ attempts' = NoAttempts
    BY <1>2 DEF ForgetAttempts
  <1>4. x \subseteq Codes /\ log.reset \subseteq x
    BY <1>1, <1>2 DEF Logs
  <1>5. /\ log' \in Logs /\ log'.reset = x
        /\ log'.accepted = log.accepted /\ log'.rejected = log.rejected
        /\ log'.sent = log.sent /\ log'.alone = log.alone
    BY <1>1, <1>3, <1>4 DEF Logs
  <1>6. attempts'.count = 0 /\ attempts' \in [count: Nat, until: 0..issued]
    BY <1>1, <1>3 DEF NoAttempts
  <1>7. \A n \in Codes : n \notin x /\ challenge = n => attempts.count = 0
    BY <1>1, <1>2, Bounds DEF Codes
  <1> QED
    BY <1>3, <1>4, <1>5, <1>6, <1>7

LEMMA ForgetKept ==
    ASSUME OTPIInv, ForgetAttempts,
           NEW q \in Requests, NEW s, s = req[q], NEW r \in Call,
           req' = [req EXCEPT ![q] = r], r.op = s.op,
           \/ s.pc = "delAttempts" /\ r.pc = "delCooldown"
           \/ s.pc = "clearAttempts" /\ r.pc = "clearCooldown",
           UNCHANGED <<challenge, cooldown, recipientCooldown, issued, ended, lost>>
    PROVE  OTPIInv'
  <1>1. /\ Shapes /\ \A p \in Requests : CallFits(req[p])
        /\ \A n \in Codes : CodeFits(n) /\ GuessesFit(n)
        /\ CountFits /\ MailsFit /\ SendsFit /\ AloneFits
    BY DEF OTPIInv
  <1>2. /\ attempts'.count = 0 /\ attempts' \in [count: Nat, until: 0..issued]
        /\ log' \in Logs
        /\ log'.accepted = log.accepted /\ log'.rejected = log.rejected
        /\ log'.sent = log.sent /\ log'.alone = log.alone
        /\ log.reset \subseteq log'.reset
        /\ \A n \in Codes : n \notin log'.reset /\ challenge = n => attempts.count = 0
    BY <1>1, Forgotten
  <1>3. Shapes'
    <2>1. req' \in [Requests -> Call]
      BY <1>1, Moved
    <2> QED
      BY <1>1, <1>2, <2>1 DEF Shapes, Logs
  <1>4. CallFits(r)' /\ (InPassed(r) => InPassed(s))
    <2>1. CallFits(s)
      BY <1>1
    <2> QED
      BY <2>1 DEF CallFits, InPassed
  <1>5. \A p \in Requests : CallFits(req[p])'
    BY <1>1, <1>3, <1>4, CallsKept
  <1>6. ASSUME NEW n \in Codes
        PROVE  CodeFits(n)'
    BY <1>1, <1>2, <1>3, CodesKept
  <1>7. ASSUME NEW n \in Codes
        PROVE  GuessesFit(n)'
    <2>1. n \notin log'.reset /\ challenge' = n
             /\ (challenge = n => log.rejected[n] <= attempts.count)
             => log'.rejected[n] <= attempts'.count
      BY <1>2
    <2>2. log'.rejected[n] = log.rejected[n] /\ r.pc \notin {"ttl", "increment"}
      BY <1>2
    <2> QED
      BY <1>1, <1>2, <1>3, <2>1, <2>2, GuessesKept
  <1>8. CountFits'
    BY <1>1, <1>2, <1>3, CountKept
  <1>9. MailsFit'
    BY <1>1, <1>2, <1>3, MailsKept
  <1>10. SendsFit'
    BY <1>1, <1>2, <1>3, <1>4, SendsKept
  <1>11. AloneFits'
    <2>1. ASSUME OnlyCall(s)
          PROVE  OnlyCall(r)'
      <3>1. CallAlone(r)'
        BY <1>2 DEF CallAlone
      <3>2. ASSUME NEW n \in Codes
            PROVE  CodeWith(n, r)'
        <4>1. CodeWith(n, s) /\ CallAlone(s)
          BY <2>1 DEF OnlyCall
        <4>2. n # 0
          BY Bounds DEF Codes
        <4> QED
          BY <1>2, <4>1, <4>2 DEF CodeWith, CallAlone
      <3> QED
        BY <1>2, <1>4, <2>1, <3>1, <3>2 DEF OnlyCall, InPassed
    <2> QED
      BY <1>1, <1>2, <1>3, <2>1, AloneKept
  <1> QED
    BY <1>3, <1>5, <1>6, <1>7, <1>8, <1>9, <1>10, <1>11 DEF OTPIInv

LEMMA DeleteAttemptsKeeps ==
    ASSUME OTPIInv, NEW q \in Requests, DeleteAttempts(q)
    PROVE  OTPIInv'
  <1>1. Shapes /\ CallFits(req[q])
    BY DEF OTPIInv
  <1>2. PICK s \in Call : s = req[q]
    BY <1>1, Moves
  <1>3. /\ s.pc = "delAttempts"
        /\ UNCHANGED <<challenge, cooldown, recipientCooldown, issued, ended>>
    BY <1>2 DEF DeleteAttempts, At
  <1>4. PICK r \in Call : /\ req' = [req EXCEPT ![q] = r]
                          /\ r = [s EXCEPT !.pc = "delCooldown"]
    BY <1>1, <1>2, Moves DEF DeleteAttempts, Places
  <1>5. r.pc = "delCooldown" /\ r.op = s.op
    BY <1>4 DEF Call
  <1>6. CASE ForgetAttempts /\ UNCHANGED lost
    BY <1>2, <1>3, <1>4, <1>5, <1>6, ForgetKept
  <1>7. CASE UNCHANGED <<attempts, log>> /\ lost < MaxLost /\ lost' = lost + 1
    <2>1. CallFits(r) /\ (InPassed(r) => InPassed(s))
      BY <1>3, <1>5 DEF CallFits, InPassed
    <2>2. /\ cooldown' \in BOOLEAN /\ lost' \in {lost, lost + 1} /\ lost' \in 0..MaxLost
          /\ lost' # 0
      BY <1>1, <1>3, <1>7, Losing DEF Shapes
    <2> QED
      BY <1>2, <1>3, <1>4, <1>5, <1>7, <2>1, <2>2, QuietKept
  <1> QED
    BY <1>6, <1>7 DEF DeleteAttempts, Ignored

LEMMA ClearAttemptsKeeps ==
    ASSUME OTPIInv, NEW q \in Requests, ClearAttempts(q)
    PROVE  OTPIInv'
  <1>1. Shapes /\ CallFits(req[q])
    BY DEF OTPIInv
  <1>2. PICK s \in Call : s = req[q]
    BY <1>1, Moves
  <1>3. /\ s.pc = "clearAttempts" /\ s.op = "verify"
        /\ UNCHANGED <<challenge, cooldown, recipientCooldown, issued, ended>>
    BY <1>1, <1>2 DEF ClearAttempts, At, CallFits
  <1>4. PICK r \in Call : /\ req' = [req EXCEPT ![q] = r]
                          /\ r = [s EXCEPT !.pc = "clearCooldown"]
    BY <1>1, <1>2, Moves DEF ClearAttempts, Places
  <1>5. r.pc = "clearCooldown" /\ r.op = s.op
    BY <1>4 DEF Call
  <1>6. CASE ForgetAttempts /\ UNCHANGED lost
    BY <1>2, <1>3, <1>4, <1>5, <1>6, ForgetKept
  <1>7. CASE UNCHANGED <<attempts, log>> /\ lost < MaxLost /\ lost' = lost + 1
    <2>1. CallFits(r) /\ ~InPassed(r)
      BY <1>3, <1>5 DEF CallFits, InPassed
    <2>2. /\ cooldown' \in BOOLEAN /\ lost' \in {lost, lost + 1} /\ lost' \in 0..MaxLost
          /\ lost' # 0
      BY <1>1, <1>3, <1>7, Losing DEF Shapes
    <2> QED
      BY <1>2, <1>3, <1>4, <1>5, <1>7, <2>1, <2>2, QuietKept
  <1> QED
    BY <1>6, <1>7 DEF ClearAttempts, Ignored

-----------------------------------------------------------------------------
(* The challenge is deleted, set and claimed.                              *)

LEMMA DeleteChallengeKeeps ==
    ASSUME OTPIInv, NEW q \in Requests, DeleteChallenge(q)
    PROVE  OTPIInv'
  <1>1. /\ Shapes /\ \A p \in Requests : CallFits(req[p])
        /\ \A n \in Codes : CodeFits(n) /\ GuessesFit(n) /\ n # 0
        /\ CountFits /\ MailsFit /\ SendsFit /\ AloneFits
    BY Bounds DEF OTPIInv, Codes
  <1>2. PICK s \in Call : s = req[q]
    BY <1>1, Moves
  <1>3. /\ s.pc = "delChallenge"
        /\ UNCHANGED <<attempts, cooldown, recipientCooldown, issued, ended, log>>
        /\ \/ challenge' = 0 /\ UNCHANGED lost
           \/ s.op = "verify" /\ lost < MaxLost /\ lost' = lost + 1 /\ UNCHANGED challenge
    BY <1>2 DEF DeleteChallenge, At
  <1>4. PICK r \in Call : /\ req' = [req EXCEPT ![q] = r]
                          /\ IF s.op = "create" THEN r = [s EXCEPT !.pc = "set"] ELSE r = Idle
    BY <1>1, <1>2, Moves DEF DeleteChallenge, Places
  <1>5. \/ s.op = "create" /\ r.op = "create" /\ r.pc = "set"
        \/ s.op # "create" /\ r = Idle /\ r.pc = "idle"
    BY <1>4, Returned DEF Call
  <1>6. CallFits(r) /\ (InPassed(r) => InPassed(s))
    BY <1>3, <1>5 DEF CallFits, InPassed
  <1>7. CASE challenge' = 0 /\ UNCHANGED lost
    <2>1. Shapes'
      <3>1. req' \in [Requests -> Call]
        BY <1>1, <1>4, Moved
      <3> QED
        BY <1>1, <1>3, <1>7, <3>1 DEF Shapes
    <2>2. \A p \in Requests : CallFits(req[p])'
      <3>1. CallFits(r)'
        BY <1>3, <1>6 DEF CallFits
      <3> QED
        BY <1>1, <1>3, <1>4, <2>1, <3>1, CallsKept
    <2>3. ASSUME NEW n \in Codes
          PROVE  CodeFits(n)'
      BY <1>1, <1>3, <1>7, <2>1, CodesKept
    <2>4. ASSUME NEW n \in Codes
          PROVE  GuessesFit(n)'
      <3>1. log.reset \subseteq log'.reset /\ log'.rejected[n] = log.rejected[n] /\ challenge' # n
        BY <1>1, <1>3, <1>7
      <3>2. r.pc \notin {"ttl", "increment"}
        BY <1>5
      <3> QED
        BY <1>1, <1>2, <1>3, <1>4, <1>7, <2>1, <3>1, <3>2, GuessesKept
    <2>5. CountFits'
      BY <1>1, <1>2, <1>3, <1>4, <1>7, <2>1, CountKept
    <2>6. MailsFit'
      <3>1. r.pc \notin {"setCooldown", "setRecipient"}
        BY <1>5
      <3> QED
        BY <1>1, <1>2, <1>3, <1>4, <1>7, <2>1, <3>1, MailsKept
    <2>7. SendsFit'
      BY <1>1, <1>2, <1>3, <1>4, <1>6, <1>7, <2>1, SendsKept
    <2>8. AloneFits'
      <3>1. ASSUME OnlyCall(s)
            PROVE  OnlyCall(r)'
        <4>1. CallAlone(r)'
          BY <1>3, <1>5, <1>7, <3>1 DEF CallAlone, OnlyCall
        <4>2. \A n \in Codes : CodeWith(n, r)'
          BY <1>1, <1>3, <1>5, <1>7, <3>1 DEF CodeWith, OnlyCall
        <4> QED
          BY <1>3, <1>6, <1>7, <3>1, <4>1, <4>2 DEF OnlyCall, InPassed
      <3> QED
        BY <1>1, <1>2, <1>3, <1>4, <1>7, <2>1, <3>1, AloneKept
    <2> QED
      BY <2>1, <2>2, <2>3, <2>4, <2>5, <2>6, <2>7, <2>8 DEF OTPIInv
  <1>8. CASE s.op = "verify" /\ lost < MaxLost /\ lost' = lost + 1 /\ UNCHANGED challenge
    <2>1. /\ cooldown' \in BOOLEAN /\ lost' \in {lost, lost + 1} /\ lost' \in 0..MaxLost
          /\ lost' # 0
      BY <1>1, <1>3, <1>8, Losing DEF Shapes
    <2>2. r = Idle /\ r.pc = "idle"
      BY <1>5, <1>8
    <2> QED
      BY <1>2, <1>3, <1>4, <1>6, <1>8, <2>1, <2>2, QuietKept
  <1> QED
    BY <1>3, <1>7, <1>8

LEMMA SetChallengeKeeps ==
    ASSUME OTPIInv, NEW q \in Requests, SetChallenge(q)
    PROVE  OTPIInv'
  <1>1. /\ Shapes /\ \A p \in Requests : CallFits(req[p])
        /\ \A n \in Codes : CodeFits(n) /\ GuessesFit(n)
        /\ CountFits /\ MailsFit /\ SendsFit /\ AloneFits
    BY DEF OTPIInv
  <1>2. PICK s \in Call : s = req[q]
    BY <1>1, Moves
  <1>3. /\ s.pc = "set" /\ s.op = "create"
        /\ issued < MaxCodes /\ issued' = issued + 1 /\ challenge' = issued + 1
        /\ UNCHANGED <<attempts, cooldown, recipientCooldown, ended, lost, log>>
    BY <1>1, <1>2 DEF SetChallenge, At, CallFits
  <1>4. PICK r \in Call : /\ req' = [req EXCEPT ![q] = r]
                          /\ r = [s EXCEPT !.pc = "setCooldown"]
    BY <1>1, <1>2, Moves DEF SetChallenge, Places
  <1>5. r.pc = "setCooldown" /\ r.op = "create"
    BY <1>3, <1>4 DEF Call
  <1>6. CallFits(r)' /\ InPassed(s)
    BY <1>3, <1>5 DEF CallFits, InPassed
  <1>7. Shapes'
    <2>1. req' \in [Requests -> Call]
      BY <1>1, <1>4, Moved
    <2>2. \A x \in 0..issued : x \in 0..issued'
      BY <1>1, <1>3, Numbers
    <2>3. /\ challenge' \in 0..issued' /\ issued' \in 0..MaxCodes
          /\ attempts' \in [count: Nat, until: 0..issued']
      BY <1>1, <1>3, <2>2, Numbers, Bounds DEF Shapes
    <2> QED
      BY <1>1, <1>3, <2>1, <2>2, <2>3 DEF Shapes
  <1>8. \A p \in Requests : CallFits(req[p])'
    BY <1>1, <1>3, <1>4, <1>6, <1>7, CallsKept
  <1>9. ASSUME NEW n \in Codes
        PROVE  CodeFits(n)'
    BY <1>1, <1>3, <1>7, CodesKept
  <1>10. ASSUME NEW n \in Codes, challenge' = n
         PROVE  log.rejected[n] = 0 /\ log.rejected[n] <= attempts.count
    <2>1. n > issued
      BY <1>1, <1>3, <1>10, Numbers
    <2> QED
      BY <1>1, <2>1, Numbers DEF CodeFits
  <1>11. ASSUME NEW n \in Codes
         PROVE  GuessesFit(n)'
    <2>1. /\ log.reset \subseteq log'.reset /\ log'.rejected[n] = log.rejected[n]
          /\ challenge' = n => log'.rejected[n] <= attempts'.count
          /\ r.pc \notin {"ttl", "increment"}
      BY <1>3, <1>5, <1>10
    <2> QED
      BY <1>1, <1>2, <1>3, <1>4, <1>7, <2>1, GuessesKept
  <1>12. CountFits'
    BY <1>1, <1>2, <1>3, <1>4, <1>7, CountKept
  <1>13. MailsFit'
    BY <1>1, <1>2, <1>3, <1>4, <1>7, MailsKept
  <1>14. SendsFit'
    BY <1>1, <1>2, <1>3, <1>4, <1>6, <1>7, SendsKept
  <1>15. AloneFits'
    <2>1. ASSUME OnlyCall(s)
          PROVE  OnlyCall(r)'
      <3>1. CallAlone(r)'
        BY <1>5 DEF CallAlone
      <3>2. ASSUME NEW n \in Codes
            PROVE  CodeWith(n, r)'
        BY <1>3, <1>5, <1>10, <2>1 DEF CodeWith, OnlyCall
      <3>3. attempts.count = 0
        BY <1>3, <2>1 DEF CallAlone, OnlyCall
      <3> QED
        BY <1>3, <1>6, <2>1, <3>1, <3>2, <3>3 DEF OnlyCall
    <2> QED
      BY <1>1, <1>2, <1>3, <1>4, <1>7, <2>1, AloneKept
  <1> QED
    BY <1>7, <1>8, <1>9, <1>11, <1>12, <1>13, <1>14, <1>15 DEF OTPIInv

LEMMA SetRecipientCooldownKeeps ==
    ASSUME OTPIInv, NEW q \in Requests, SetRecipientCooldown(q)
    PROVE  OTPIInv'
  <1>1. /\ Shapes /\ \A p \in Requests : CallFits(req[p])
        /\ \A n \in Codes : CodeFits(n) /\ GuessesFit(n)
        /\ CountFits /\ MailsFit /\ SendsFit /\ AloneFits
    BY DEF OTPIInv
  <1>2. PICK s \in Call : s = req[q]
    BY <1>1, Moves
  <1>3. /\ s.pc = "setRecipient" /\ s.op = "create"
        /\ UNCHANGED <<challenge, attempts, cooldown, issued, ended>>
        /\ \/ recipientCooldown' = TRUE /\ lost' = lost
           \/ recipientCooldown' = recipientCooldown /\ lost < MaxLost /\ lost' = lost + 1
    BY <1>1, <1>2 DEF SetRecipientCooldown, At, Ignored, CallFits
  <1>4. Idle \in Call /\ req' = [req EXCEPT ![q] = Idle]
    BY <1>1, Moves DEF SetRecipientCooldown
  <1>5. /\ log' \in Logs /\ log'.sent = log.sent + 1
        /\ log'.accepted = log.accepted /\ log'.rejected = log.rejected
        /\ log'.reset = log.reset /\ log'.alone = log.alone
    <2>1. log \in Logs /\ log' = [log EXCEPT !.sent = @ + 1]
      BY <1>1 DEF SetRecipientCooldown, Shapes, Logs
    <2> QED
      BY <2>1 DEF Logs
  <1>6. lost' \in {lost, lost + 1} /\ lost' \in 0..MaxLost
    BY <1>1, <1>3, Losing
  <1>7. Shapes'
    <2>1. req' \in [Requests -> Call]
      BY <1>1, <1>4, Moved
    <2> QED
      BY <1>1, <1>3, <1>5, <1>6, <2>1 DEF Shapes, Logs
  <1>8. CallFits(Idle)' /\ InPassed(s) /\ ~InPassed(Idle)
    <2>1. CallFits(Idle)'
      BY Returned DEF CallFits
    <2> QED
      BY <1>3, <2>1, Returned DEF InPassed
  <1>9. \A p \in Requests : CallFits(req[p])'
    BY <1>1, <1>3, <1>4, <1>7, <1>8, CallsKept
  <1>10. ASSUME NEW n \in Codes
         PROVE  CodeFits(n)'
    BY <1>1, <1>3, <1>5, <1>7, CodesKept
  <1>11. ASSUME NEW n \in Codes
         PROVE  GuessesFit(n)'
    <2>1. /\ log.reset \subseteq log'.reset /\ log'.rejected[n] = log.rejected[n]
          /\ Idle.pc \notin {"ttl", "increment"}
          /\ challenge' = n /\ (challenge = n => log.rejected[n] <= attempts.count)
             => log'.rejected[n] <= attempts'.count
      BY <1>3, <1>5, Returned
    <2> QED
      BY <1>1, <1>2, <1>4, <1>6, <1>7, <2>1, GuessesKept
  <1>12. CountFits'
    BY <1>1, <1>2, <1>3, <1>4, <1>6, <1>7, CountKept
  <1>13. MailsFit'
    <2>1. recipientCooldown => recipientCooldown'
      BY <1>3, Zenon
    <2>2. /\ log'.sent = log.sent + 1 /\ issued' = issued
          /\ s.pc = "setRecipient" /\ Idle.pc = "idle"
      BY <1>3, <1>5, Returned
    <2> QED
      BY <1>1, <1>2, <1>4, <1>7, <2>1, <2>2, MailsKept
  <1>14. SendsFit'
    BY <1>1, <1>2, <1>3, <1>4, <1>5, <1>7, <1>8, SendsKept
  <1>15. AloneFits'
    <2>1. ASSUME OnlyCall(s)
          PROVE  OnlyCall(Idle)'
      <3>1. log.sent = 0 /\ OnlyCall(Idle)
        BY <1>2, <1>3, <1>8, <2>1, Returned DEF OnlyCall
      <3> QED
        BY <1>3, <1>5, <1>8, <3>1 DEF OnlyCall, CallAlone, CodeWith
    <2> QED
      BY <1>1, <1>2, <1>3, <1>4, <1>5, <1>7, <2>1, AloneKept
  <1> QED
    BY <1>7, <1>9, <1>10, <1>11, <1>12, <1>13, <1>14, <1>15 DEF OTPIInv

LEMMA ClaimChallengeKeeps ==
    ASSUME OTPIInv, NEW q \in Requests, ClaimChallenge(q)
    PROVE  OTPIInv'
  <1>1. /\ Shapes /\ \A p \in Requests : CallFits(req[p])
        /\ \A n \in Codes : CodeFits(n) /\ GuessesFit(n) /\ n # 0
        /\ CountFits /\ MailsFit /\ SendsFit /\ AloneFits
    BY Bounds DEF OTPIInv, Codes
  <1>2. PICK s \in Call : s = req[q]
    BY <1>1, Moves
  <1>3. /\ s.pc = "claim" /\ s.op = "verify" /\ s.code \in 1..issued
        /\ UNCHANGED <<attempts, cooldown, recipientCooldown, issued, ended, lost>>
    BY <1>1, <1>2 DEF ClaimChallenge, At, CallFits
  <1>4. CASE challenge = s.code
    <2>1. PICK r \in Call : /\ req' = [req EXCEPT ![q] = r]
                            /\ r = [Idle EXCEPT !.pc = "clearAttempts", !.op = "verify"]
      BY <1>1, <1>2, <1>4, Moves DEF ClaimChallenge, Places
    <2>2. r.pc = "clearAttempts" /\ r.op = "verify"
      BY <2>1 DEF Idle
    <2>3. challenge' = 0
      BY <1>2, <1>4 DEF ClaimChallenge
    <2>4. PICK c \in Codes : c = s.code
      BY <1>1, <1>3, Numbers, Bounds DEF Codes
    <2>5. log.accepted[c] = 0
      BY <1>1, <1>4, <2>4 DEF CodeFits
    <2>6. log' = [log EXCEPT !.accepted = [log.accepted EXCEPT ![c] = @ + 1]]
      BY <1>2, <1>4, <2>4 DEF ClaimChallenge
    <2>7. PICK f : f = [log.accepted EXCEPT ![c] = @ + 1]
      OBVIOUS
    <2>8. f \in [Codes -> Nat] /\ f[c] = 1 /\ \A n \in Codes : n # c => f[n] = log.accepted[n]
      BY <1>1, <2>5, <2>7, Numbers
    <2>9. log \in Logs
      BY <1>1 DEF Shapes, Logs
    <2>10. /\ log' \in Logs /\ log'.accepted = f
           /\ log'.sent = log.sent /\ log'.rejected = log.rejected
           /\ log'.reset = log.reset /\ log'.alone = log.alone
      BY <2>6, <2>7, <2>8, <2>9 DEF Logs
    <2>11. Shapes'
      <3>1. req' \in [Requests -> Call]
        BY <1>1, <2>1, Moved
      <3> QED
        BY <1>1, <1>3, <2>3, <2>10, <3>1 DEF Shapes, Logs
    <2>12. CallFits(r)' /\ ~InPassed(r)
      BY <2>2 DEF CallFits, InPassed
    <2>13. \A p \in Requests : CallFits(req[p])'
      BY <1>1, <1>3, <2>1, <2>11, <2>12, CallsKept
    <2>14. 1 <= R
      <3>1. PICK S, T : S = {} /\ T = {q}
        OBVIOUS
      <3>2. S \subseteq Requests /\ T \subseteq Requests /\ S \ {q} = T \ {q} /\ q \notin S /\ q \in T
        BY <3>1
      <3>3. Cardinality(T) = Cardinality(S) + 1
        BY <3>2, OneMoves
      <3> QED
        BY <3>1, <3>2, <3>3, FS_EmptySet, CallsCount
    <2>15. ASSUME NEW n \in Codes
           PROVE  CodeFits(n)'
      <3>1. CodeFits(n) /\ challenge' # n /\ issued' = issued
        BY <1>1, <1>3, <2>3
      <3>2. CASE n = c
        <4>1. ~(n > issued)
          BY <1>1, <1>3, <2>4, <3>2, Numbers
        <4> QED
          BY <2>8, <2>10, <2>14, <3>1, <3>2, <4>1 DEF CodeFits
      <3>3. CASE n # c
        BY <2>8, <2>10, <3>1, <3>3 DEF CodeFits
      <3> QED
        BY <3>2, <3>3
    <2>16. ASSUME NEW n \in Codes
           PROVE  GuessesFit(n)'
      <3>1. /\ log.reset \subseteq log'.reset /\ log'.rejected[n] = log.rejected[n]
            /\ r.pc \notin {"ttl", "increment"} /\ challenge' # n
        BY <1>1, <2>2, <2>3, <2>10
      <3> QED
        BY <1>1, <1>2, <1>3, <2>1, <2>11, <3>1, GuessesKept
    <2>17. CountFits'
      BY <1>1, <1>2, <1>3, <2>1, <2>11, CountKept
    <2>18. MailsFit'
      BY <1>1, <1>2, <1>3, <2>1, <2>2, <2>10, <2>11, MailsKept
    <2>19. SendsFit'
      BY <1>1, <1>2, <1>3, <2>1, <2>10, <2>11, <2>12, SendsKept
    <2>20. AloneFits'
      <3>1. ASSUME OnlyCall(s)
            PROVE  OnlyCall(r)'
        <4>1. CallAlone(r)'
          BY <2>2, <2>3 DEF CallAlone
        <4>2. \A n \in Codes : CodeWith(n, r)'
          BY <1>1, <1>3, <2>2, <2>3, <2>10, <3>1 DEF CodeWith, OnlyCall
        <4> QED
          BY <1>3, <2>3, <2>10, <2>12, <3>1, <4>1, <4>2 DEF OnlyCall, InPassed
      <3> QED
        BY <1>1, <1>2, <1>3, <2>1, <2>10, <2>11, <3>1, AloneKept
    <2> QED
      BY <2>11, <2>13, <2>15, <2>16, <2>17, <2>18, <2>19, <2>20 DEF OTPIInv
  <1>5. CASE challenge # s.code
    <2>1. /\ UNCHANGED <<challenge, log>> /\ Idle \in Call
          /\ req' = [req EXCEPT ![q] = Idle]
      BY <1>1, <1>2, <1>5, Moves DEF ClaimChallenge
    <2>2. cooldown' \in BOOLEAN /\ lost' \in 0..MaxLost
      BY <1>1, <1>3 DEF Shapes
    <2>3. OnlyCall(s) => OnlyCall(Idle)
      BY <1>3, Returned
    <2>4. Idle.pc \notin {"setCooldown", "setRecipient", "ttl", "increment"}
      BY Returned
    <2> QED
      BY <1>2, <1>3, <2>1, <2>2, <2>3, <2>4, Returned, QuietKept
  <1> QED
    BY <1>4, <1>5

-----------------------------------------------------------------------------
(* A wrong guess is answered.                                              *)

LEMMA Rejecting ==
    ASSUME Shapes, NEW q \in Requests, Reject(q), NEW c \in Codes, c = req[q].code
    PROVE  /\ log' \in Logs /\ log'.accepted = log.accepted /\ log'.sent = log.sent
           /\ log'.reset = log.reset /\ log'.alone = log.alone
           /\ log'.rejected[c] \in {log.rejected[c], log.rejected[c] + 1}
           /\ \A n \in Codes : n # c => log'.rejected[n] = log.rejected[n]
  <1>1. log \in Logs
    BY DEF Shapes, Logs
  <1>2. PICK x : x = IF log.rejected[c] < MaxRejected THEN log.rejected[c] + 1 ELSE log.rejected[c]
    OBVIOUS
  <1>3. x \in 0..MaxRejected /\ x \in {log.rejected[c], log.rejected[c] + 1}
    BY <1>2, Numbers, Bounds DEF Shapes
  <1>4. PICK f : f = [log.rejected EXCEPT ![c] = x]
    OBVIOUS
  <1>5. /\ f \in [Codes -> 0..MaxRejected] /\ f[c] = x
        /\ \A n \in Codes : n # c => f[n] = log.rejected[n]
    BY <1>1, <1>3, <1>4 DEF Logs
  <1>6. log' = [log EXCEPT !.rejected = f]
    BY <1>2, <1>4 DEF Reject
  <1> QED
    BY <1>1, <1>3, <1>5, <1>6 DEF Logs

\* The codes when a guess at an issued one is rejected.
LEMMA CodesRejected ==
    ASSUME Shapes, Shapes', NEW n \in Codes, CodeFits(n), NEW c \in Codes, c \in 1..issued,
           log'.accepted = log.accepted, n # c => log'.rejected[n] = log.rejected[n],
           issued' = issued /\ challenge' = challenge
    PROVE  CodeFits(n)'
  <1>1. n = c => ~(n > issued)
    BY Numbers
  <1> QED
    BY <1>1 DEF CodeFits

LEMMA ReadTTLKeeps ==
    ASSUME OTPIInv, NEW q \in Requests, ReadTTL(q)
    PROVE  OTPIInv'
  <1>1. /\ Shapes /\ \A p \in Requests : CallFits(req[p])
        /\ \A n \in Codes : CodeFits(n) /\ GuessesFit(n) /\ n # 0
        /\ CountFits /\ MailsFit /\ SendsFit /\ AloneFits
    BY Bounds DEF OTPIInv, Codes
  <1>2. PICK s \in Call : s = req[q]
    BY <1>1, Moves
  <1>3. /\ s.pc = "ttl" /\ s.op = "verify" /\ s.code \in 1..issued
        /\ UNCHANGED <<keys, issued, ended>>
    BY <1>1, <1>2 DEF ReadTTL, At, CallFits
  <1>4. CASE /\ challenge # 0
             /\ req' = [req EXCEPT ![q] = [@ EXCEPT !.pc = "increment", !.until = challenge]]
             /\ UNCHANGED <<lost, log>>
    <2>1. challenge \in 0..MaxCodes /\ challenge \in 1..issued
      BY <1>1, <1>4, Numbers, Bounds DEF Shapes
    <2>2. PICK t \in Call : t = [s EXCEPT !.pc = "increment"]
      BY DEF Call
    <2>3. PICK r : r = [t EXCEPT !.until = challenge]
      OBVIOUS
    <2>4. /\ r \in Call /\ r.pc = "increment" /\ r.op = s.op
          /\ r.code = s.code /\ r.until = challenge
      BY <2>1, <2>2, <2>3 DEF Call
    <2>5. req' = [req EXCEPT ![q] = r]
      BY <1>1, <1>2, <1>4, <2>2, <2>3, Moves
    <2>6. CallFits(r) /\ ~InPassed(r)
      BY <1>3, <2>1, <2>4 DEF CallFits, InPassed
    <2>7. OnlyCall(s) => OnlyCall(r)
      BY <1>3, <2>4, <2>6 DEF OnlyCall, CallAlone, CodeWith
    <2>8. cooldown' \in BOOLEAN /\ lost' \in 0..MaxLost
      BY <1>1, <1>3, <1>4 DEF Shapes, keys
    <2> QED
      BY <1>2, <1>3, <1>4, <2>4, <2>5, <2>6, <2>7, <2>8, QuietKept DEF keys
  <1>5. CASE /\ Return(q) /\ Reject(q)
             /\ IF challenge = 0 THEN UNCHANGED lost ELSE lost < MaxLost /\ lost' = lost + 1
    <2>1. Idle \in Call /\ req' = [req EXCEPT ![q] = Idle]
      BY <1>1, <1>5, Moves
    <2>2. PICK c \in Codes : c = s.code /\ c \in 1..issued
      BY <1>1, <1>3, Numbers, Bounds DEF Codes
    <2>3. /\ log' \in Logs /\ log'.accepted = log.accepted /\ log'.sent = log.sent
          /\ log'.reset = log.reset /\ log'.alone = log.alone
          /\ log'.rejected[c] \in {log.rejected[c], log.rejected[c] + 1}
          /\ \A n \in Codes : n # c => log'.rejected[n] = log.rejected[n]
      BY <1>1, <1>2, <1>5, <2>2, Rejecting
    <2>4. lost' \in {lost, lost + 1} /\ lost' \in 0..MaxLost /\ (lost' = 0 => challenge = 0)
      BY <1>1, <1>5, Losing
    <2>5. Shapes'
      <3>1. req' \in [Requests -> Call]
        BY <1>1, <2>1, Moved
      <3> QED
        BY <1>1, <1>3, <2>3, <2>4, <3>1 DEF Shapes, Logs, keys
    <2>6. CallFits(Idle)'
      BY Returned DEF CallFits
    <2>7. \A p \in Requests : CallFits(req[p])'
      BY <1>1, <1>3, <2>1, <2>5, <2>6, CallsKept
    <2>8. ASSUME NEW n \in Codes
          PROVE  CodeFits(n)'
      BY <1>1, <1>3, <2>2, <2>3, <2>5, CodesRejected DEF keys
    <2>9. ASSUME NEW n \in Codes
          PROVE  GuessesFit(n)'
      <3>1. \/ log'.rejected[n] = log.rejected[n]
            \/ log'.rejected[n] \in {log.rejected[n], log.rejected[n] + 1} /\ s.code = n
        BY <2>2, <2>3
      <3>2. Idle.pc \notin {"ttl", "increment"} /\ log.reset \subseteq log'.reset
        BY <2>3, Returned
      <3>3. lost' = 0 => challenge' # n
        BY <1>1, <1>3, <2>4 DEF keys
      <3> QED
        BY <1>1, <1>2, <1>3, <2>1, <2>4, <2>5, <3>1, <3>2, <3>3, GuessesKept
    <2>10. CountFits'
      BY <1>1, <1>2, <1>3, <2>1, <2>4, <2>5, CountKept DEF keys
    <2>11. MailsFit'
      BY <1>1, <1>2, <1>3, <2>1, <2>3, <2>5, Returned, MailsKept DEF keys
    <2>12. SendsFit'
      BY <1>1, <1>2, <1>3, <2>1, <2>3, <2>4, <2>5, Returned, SendsKept DEF keys
    <2>13. AloneFits'
      <3>1. ASSUME OnlyCall(s), lost' = 0
            PROVE  OnlyCall(Idle)'
        <4>1. CallAlone(Idle)'
          BY Returned DEF CallAlone
        <4>2. ASSUME NEW n \in Codes
              PROVE  CodeWith(n, Idle)'
          <5>1. CodeWith(n, s) /\ challenge' # n
            BY <1>1, <1>3, <2>4, <3>1 DEF OnlyCall, keys
          <5>2. log'.rejected[n] <= maxAttempts
            BY <1>1, <1>3, <2>2, <2>3, <5>1, Numbers, Bounds DEF CodeWith
          <5> QED
            BY <5>1, <5>2, Returned DEF CodeWith
        <4> QED
          BY <1>3, <2>3, <3>1, <4>1, <4>2, Returned DEF OnlyCall, InPassed, keys
      <3> QED
        BY <1>1, <1>2, <1>3, <2>1, <2>3, <2>4, <2>5, <3>1, AloneKept
    <2> QED
      BY <2>5, <2>7, <2>8, <2>9, <2>10, <2>11, <2>12, <2>13 DEF OTPIInv
  <1> QED
    BY <1>4, <1>5 DEF ReadTTL

LEMMA IncrementAttemptsKeeps ==
    ASSUME OTPIInv, NEW q \in Requests, IncrementAttempts(q)
    PROVE  OTPIInv'
  <1>1. /\ Shapes /\ \A p \in Requests : CallFits(req[p])
        /\ \A n \in Codes : CodeFits(n) /\ GuessesFit(n) /\ n # 0
        /\ CountFits /\ MailsFit /\ SendsFit /\ AloneFits
    BY Bounds DEF OTPIInv, Codes
  <1>2. PICK s \in Call : s = req[q]
    BY <1>1, Moves
  <1>3. /\ s.pc = "increment" /\ s.op = "verify" /\ s.code \in 1..issued /\ s.until \in 1..issued
        /\ UNCHANGED <<challenge, cooldown, recipientCooldown, issued, ended, lost>>
    BY <1>1, <1>2 DEF IncrementAttempts, At, CallFits
  <1>4. /\ attempts' \in [count: Nat, until: 0..issued]
        /\ attempts'.count = attempts.count + 1
        /\ attempts'.until = IF attempts.count = 0 THEN s.until ELSE attempts.until
    <2>1. attempts \in [count: Nat, until: 0..issued] /\ s.until \in 0..issued /\ attempts.count \in Nat
      BY <1>1, <1>3, Numbers DEF Shapes
    <2>2. attempts' = IF attempts.count = 0 THEN [count |-> 1, until |-> s.until]
                      ELSE [attempts EXCEPT !.count = @ + 1]
      BY <1>2 DEF IncrementAttempts, Counted
    <2> QED
      BY <2>1, <2>2
  <1>5. PICK r \in Call : /\ req' = [req EXCEPT ![q] = r]
                          /\ IF attempts'.count >= maxAttempts
                             THEN r = [Idle EXCEPT !.pc = "delAttempts", !.op = "verify"]
                             ELSE r = Idle
    <2>1. Shapes
      BY <1>1
    <2>2. CASE attempts'.count >= maxAttempts
      BY <2>1, <2>2, Moves DEF IncrementAttempts, Places
    <2>3. CASE ~(attempts'.count >= maxAttempts)
      BY <2>1, <2>3, Moves DEF IncrementAttempts
    <2> QED
      BY <2>2, <2>3
  <1>6. /\ r.pc = "delAttempts" \/ (r.pc = "idle" /\ attempts'.count < maxAttempts)
        /\ r.pc = "delAttempts" => r.op = "verify"
    <2>1. PICK x \in Nat, k \in Nat : x = attempts'.count /\ k = maxAttempts
      BY <1>1, <1>4, Numbers, Bounds
    <2>2. CASE x >= k
      <3>1. r = [Idle EXCEPT !.pc = "delAttempts", !.op = "verify"]
        BY <1>5, <2>1, <2>2
      <3> QED
        BY <3>1 DEF Idle
    <2>3. CASE x < k
      <3>1. r = Idle
        BY <1>5, <2>1, <2>3
      <3> QED
        BY <2>1, <2>3, <3>1, Returned
    <2> QED
      BY <2>1, <2>2, <2>3
  <1>7. PICK c \in Codes : c = s.code /\ c \in 1..issued
    BY <1>1, <1>3, Numbers, Bounds DEF Codes
  <1>8. /\ log' \in Logs /\ log'.accepted = log.accepted /\ log'.sent = log.sent
        /\ log'.reset = log.reset /\ log'.alone = log.alone
        /\ log'.rejected[c] \in {log.rejected[c], log.rejected[c] + 1}
        /\ \A n \in Codes : n # c => log'.rejected[n] = log.rejected[n]
    BY <1>1, <1>2, <1>7, Rejecting DEF IncrementAttempts
  <1>9. Shapes'
    <2>1. req' \in [Requests -> Call]
      BY <1>1, <1>5, Moved
    <2> QED
      BY <1>1, <1>3, <1>4, <1>8, <2>1 DEF Shapes, Logs
  <1>10. CallFits(r)' /\ ~InPassed(r)
    BY <1>6 DEF CallFits, InPassed
  <1>11. \A p \in Requests : CallFits(req[p])'
    BY <1>1, <1>3, <1>5, <1>9, <1>10, CallsKept
  <1>12. ASSUME NEW n \in Codes
         PROVE  CodeFits(n)'
    BY <1>1, <1>3, <1>7, <1>8, <1>9, CodesRejected
  <1>13. ASSUME NEW n \in Codes
         PROVE  /\ log'.rejected[n] \in {log.rejected[n], log.rejected[n] + 1}
                /\ log.rejected[n] <= attempts.count => log'.rejected[n] <= attempts'.count
    <2>1. PICK a \in Nat, b \in Nat, x \in Nat, y \in Nat :
             /\ a = log.rejected[n] /\ b = log'.rejected[n]
             /\ x = attempts.count /\ y = attempts'.count
      BY <1>1, <1>9, Numbers, NumbersNext
    <2>2. b \in {a, a + 1}
      BY <1>7, <1>8, <2>1
    <2>3. y = x + 1
      BY <1>4, <2>1
    <2> QED
      BY <2>1, <2>2, <2>3
  <1>14. ASSUME NEW n \in Codes
         PROVE  GuessesFit(n)'
    <2>1. \/ log'.rejected[n] = log.rejected[n]
          \/ log'.rejected[n] \in {log.rejected[n], log.rejected[n] + 1} /\ s.code = n
      BY <1>7, <1>8
    <2>2. r.pc \notin {"ttl", "increment"} /\ log.reset \subseteq log'.reset
      BY <1>6, <1>8
    <2>3. challenge' = n /\ (challenge = n => log.rejected[n] <= attempts.count)
             => log'.rejected[n] <= attempts'.count
      BY <1>3, <1>13
    <2> QED
      BY <1>1, <1>2, <1>3, <1>5, <1>9, <2>1, <2>2, <2>3, GuessesKept
  <1>15. CountFits'
    BY <1>1, <1>2, <1>3, <1>4, <1>5, <1>6, <1>9, CountKept
  <1>16. MailsFit'
    BY <1>1, <1>2, <1>3, <1>5, <1>6, <1>8, <1>9, MailsKept
  <1>17. SendsFit'
    BY <1>1, <1>2, <1>3, <1>5, <1>8, <1>9, <1>10, SendsKept
  <1>18. AloneFits'
    <2>1. ASSUME OnlyCall(s)
          PROVE  OnlyCall(r)'
      <3>1. CallAlone(r)'
        BY <1>6 DEF CallAlone
      <3>2. ASSUME NEW n \in Codes
            PROVE  CodeWith(n, r)'
        <4>1. CodeWith(n, s)
          BY <2>1 DEF OnlyCall
        <4>2. log'.rejected[n] <= maxAttempts
          BY <1>1, <1>3, <1>7, <1>8, <4>1, Numbers, Bounds DEF CodeWith
        <4> QED
          BY <1>3, <1>6, <1>13, <4>1, <4>2 DEF CodeWith
      <3>3. challenge' # 0 => attempts'.until = challenge'
        BY <1>1, <1>3, <1>4, <2>1, Numbers DEF OnlyCall, CallAlone
      <3> QED
        BY <1>8, <1>10, <2>1, <3>1, <3>2, <3>3 DEF OnlyCall, InPassed
    <2> QED
      BY <1>1, <1>2, <1>3, <1>5, <1>8, <1>9, <2>1, AloneKept
  <1> QED
    BY <1>9, <1>11, <1>12, <1>14, <1>15, <1>16, <1>17, <1>18 DEF OTPIInv

-----------------------------------------------------------------------------
(* A call begins.                                                          *)

LEMMA EnterKept ==
    ASSUME OTPIInv, NEW q \in Requests, NEW r \in Call, Enter(q, r),
           r.pc \in {"cooldown", "get"}, CallFits(r)
    PROVE  OTPIInv'
  <1>1. /\ Shapes /\ \A p \in Requests : CallFits(req[p])
        /\ \A n \in Codes : CodeFits(n) /\ GuessesFit(n)
        /\ CountFits /\ MailsFit /\ SendsFit /\ AloneFits
    BY DEF OTPIInv
  <1>2. PICK s \in Call : s = req[q]
    BY <1>1, Moves
  <1>3. /\ s.pc = "idle" /\ req' = [req EXCEPT ![q] = r]
        /\ UNCHANGED <<keys, issued, ended, lost>>
    BY <1>2 DEF Enter, At
  <1>4. /\ log' \in Logs
        /\ log'.accepted = log.accepted /\ log'.rejected = log.rejected
        /\ log'.reset = log.reset /\ log'.sent = log.sent
        /\ log'.alone => log.alone /\ OthersIdle(q)
    <2>1. PICK b \in BOOLEAN : b = (log.alone /\ \A p \in Requests : At(p, "idle"))
      OBVIOUS
    <2>2. log \in Logs /\ log' = [log EXCEPT !.alone = b]
      BY <1>1, <2>1 DEF Shapes, Logs, Enter
    <2>3. b => log.alone /\ OthersIdle(q)
      BY <2>1, Zenon DEF At, OthersIdle
    <2> QED
      BY <2>2, <2>3 DEF Logs
  <1>5. Shapes'
    <2>1. req' \in [Requests -> Call]
      BY <1>1, <1>3, Moved
    <2> QED
      BY <1>1, <1>3, <1>4, <2>1 DEF Shapes, Logs, keys
  <1>6. CallFits(r)' /\ ~InPassed(r) /\ r.pc \notin {"ttl", "increment", "setCooldown", "setRecipient"}
    BY <1>3 DEF CallFits, InPassed
  <1>7. \A p \in Requests : CallFits(req[p])'
    BY <1>1, <1>3, <1>5, <1>6, CallsKept
  <1>8. ASSUME NEW n \in Codes
        PROVE  CodeFits(n)'
    BY <1>1, <1>3, <1>4, <1>5, CodesKept DEF keys
  <1>9. ASSUME NEW n \in Codes
        PROVE  GuessesFit(n)'
    <2>1. log.reset \subseteq log'.reset /\ log'.rejected[n] = log.rejected[n]
      BY <1>4
    <2> QED
      BY <1>1, <1>2, <1>3, <1>5, <1>6, <2>1, GuessesKept DEF keys
  <1>10. CountFits'
    BY <1>1, <1>2, <1>3, <1>5, CountKept DEF keys
  <1>11. MailsFit'
    BY <1>1, <1>2, <1>3, <1>4, <1>5, <1>6, MailsKept DEF keys
  <1>12. SendsFit'
    BY <1>1, <1>2, <1>3, <1>4, <1>5, <1>6, SendsKept DEF keys
  <1>13. AloneFits'
    <2>1. ASSUME OnlyCall(s)
          PROVE  OnlyCall(r)'
      BY <1>3, <1>4, <1>6, <2>1 DEF OnlyCall, CallAlone, CodeWith, InPassed, keys
    <2> QED
      BY <1>1, <1>2, <1>3, <1>4, <1>5, <2>1, AloneKept
  <1> QED
    BY <1>5, <1>7, <1>8, <1>9, <1>10, <1>11, <1>12, <1>13 DEF OTPIInv

LEMMA StartCreateKeeps ==
    ASSUME OTPIInv, NEW q \in Requests, StartCreate(q)
    PROVE  OTPIInv'
  <1>1. PICK r : r = [Idle EXCEPT !.pc = "cooldown"]
    OBVIOUS
  <1>2. PICK i \in Call : i = Idle
    BY Moves DEF OTPIInv
  <1>3. r \in Call /\ r.pc = "cooldown" /\ r.op = "create"
    BY <1>1, <1>2, Returned DEF Call
  <1>4. CallFits(r)
    BY <1>3 DEF CallFits
  <1> QED
    BY <1>1, <1>3, <1>4, EnterKept DEF StartCreate

LEMMA StartVerifyKeeps ==
    ASSUME OTPIInv, NEW q \in Requests, StartVerify(q)
    PROVE  OTPIInv'
  <1>1. PICK r : r = [Idle EXCEPT !.pc = "get", !.op = "verify"]
    OBVIOUS
  <1>2. PICK i \in Call : i = Idle
    BY Moves DEF OTPIInv
  <1>3. PICK j \in Call : j = [i EXCEPT !.pc = "get"] /\ j.pc = "get"
    <2>1. PICK j : j = [i EXCEPT !.pc = "get"]
      OBVIOUS
    <2>2. j \in Call /\ j.pc = "get"
      BY <2>1 DEF Call
    <2> QED
      BY <2>1, <2>2
  <1>4. r = [j EXCEPT !.op = "verify"]
    BY <1>1, <1>2, <1>3
  <1>5. r \in Call /\ r.pc = "get" /\ r.op = "verify"
    BY <1>3, <1>4 DEF Call
  <1>6. CallFits(r)
    BY <1>5 DEF CallFits
  <1> QED
    BY <1>1, <1>5, <1>6, EnterKept DEF StartVerify

-----------------------------------------------------------------------------
(* The steps of the environment: another transition mails the recipient,   *)
(* lifetimes and keys end.                                                 *)

LEMMA Still ==
    ASSUME req' = req
    PROVE  /\ Deleting' = Deleting /\ Mailing' = Mailing /\ Passed' = Passed
           /\ \A n : Guessing(n)' = Guessing(n)
           /\ OneCall => OneCall'
  BY DEF Deleting, Mailing, Passed, Guessing, OneCall

LEMMA OtherTransitionKeeps ==
    ASSUME OTPIInv, OtherTransition
    PROVE  OTPIInv'
  <1>1. /\ Shapes /\ \A p \in Requests : CallFits(req[p])
        /\ \A n \in Codes : CodeFits(n) /\ GuessesFit(n)
        /\ CountFits /\ MailsFit /\ SendsFit /\ AloneFits
    BY DEF OTPIInv
  <1>2. /\ ~recipientCooldown /\ recipientCooldown' = TRUE
        /\ UNCHANGED <<challenge, attempts, cooldown, issued, ended, req, lost>>
    BY DEF OtherTransition
  <1>3. /\ log' \in Logs
        /\ log'.accepted = log.accepted /\ log'.rejected = log.rejected
        /\ log'.reset = log.reset /\ log'.sent = log.sent + 1
        /\ log'.alone => log.alone /\ \A p \in Requests : req[p].pc = "idle"
    <2>1. PICK b \in BOOLEAN : b = (log.alone /\ \A p \in Requests : At(p, "idle"))
      OBVIOUS
    <2>2. log' = [log EXCEPT !.sent = @ + 1, !.alone = b]
      BY <2>1 DEF OtherTransition
    <2>3. b => log.alone /\ \A p \in Requests : req[p].pc = "idle"
      BY <2>1, Zenon DEF At
    <2>4. PICK l : l = [log EXCEPT !.sent = @ + 1]
      OBVIOUS
    <2>5. log \in Logs
      BY <1>1 DEF Shapes, Logs
    <2>6. /\ l \in Logs
          /\ l.accepted = log.accepted /\ l.rejected = log.rejected
          /\ l.reset = log.reset /\ l.sent = log.sent + 1
      BY <2>4, <2>5 DEF Logs
    <2>7. log' = [l EXCEPT !.alone = b]
      BY <2>2, <2>4
    <2> QED
      BY <2>3, <2>6, <2>7 DEF Logs
  <1>4. Shapes'
    BY <1>1, <1>2, <1>3 DEF Shapes, Logs
  <1>5. \A p \in Requests : CallFits(req[p])'
    BY <1>1, <1>2 DEF CallFits
  <1>6. \A n \in Codes : CodeFits(n)'
    BY <1>1, <1>2, <1>3 DEF CodeFits
  <1>7. \A n \in Codes : GuessesFit(n)'
    BY <1>1, <1>2, <1>3, Still DEF GuessesFit
  <1>8. CountFits'
    BY <1>1, <1>2, Still DEF CountFits
  <1>9. MailsFit'
    <2>1. PICK d \in Nat, a \in Nat, i \in Nat :
             d = Cardinality(Mailing) /\ a = log.sent /\ i = issued
      BY <1>1, CallsCount, Numbers DEF Mailing
    <2>2. a + d <= i /\ d <= i
      BY <1>1, <1>2, <2>1 DEF MailsFit
    <2>3. (a + 1) + d <= i + 1 /\ d <= i
      BY <2>2
    <2> QED
      BY <1>2, <1>3, <2>1, <2>3, Still DEF MailsFit
  <1>10. SendsFit'
    <2>1. PICK d \in Nat, k \in Nat : d = Cardinality(Passed) /\ k = R /\ d <= k
      BY CallsCount, Bounds DEF Passed
    <2>2. lost = 0 => log.sent = 0
      BY <1>1, <1>2 DEF SendsFit
    <2>3. (0 + 1) + d <= k + 1
      BY <2>1
    <2> QED
      BY <1>2, <1>3, <2>1, <2>2, <2>3, Still DEF SendsFit
  <1>11. AloneFits'
    <2> SUFFICES ASSUME log'.alone
                 PROVE  AloneFits'
      BY DEF AloneFits
    <2>1. AloneFits /\ log.alone /\ \A p \in Requests : req[p].pc = "idle"
      BY <1>1, <1>3
    <2>2. Passed' = {}
      BY <1>2, <2>1, Still, Zenon DEF Passed
    <2>3. lost = 0 => log'.sent = 1
      BY <1>1, <1>2, <1>3 DEF SendsFit
    <2>4. OneCall'
      BY <1>2, <2>1, Still DEF AloneFits
    <2>5. ASSUME lost' = 0, NEW n \in Codes
          PROVE  CodeAlone(n)'
      <3>1. CodeAlone(n) /\ Guessing(n)' = Guessing(n)
        BY <1>2, <2>1, <2>5, Still DEF AloneFits
      <3> QED
        BY <1>2, <1>3, <2>1, <3>1 DEF CodeAlone
    <2>6. lost' = 0 => \A p \in Requests : CallAlone(req[p])'
      BY <1>2, <2>1 DEF AloneFits, CallAlone
    <2> QED
      BY <1>2, <2>1, <2>2, <2>3, <2>4, <2>5, <2>6 DEF AloneFits
  <1> QED
    BY <1>4, <1>5, <1>6, <1>7, <1>8, <1>9, <1>10, <1>11 DEF OTPIInv

LEMMA EndOfLifetimeKeeps ==
    ASSUME OTPIInv, EndOfLifetime
    PROVE  OTPIInv'
  <1>1. /\ Shapes /\ \A p \in Requests : CallFits(req[p])
        /\ \A n \in Codes : CodeFits(n) /\ GuessesFit(n)
        /\ CountFits /\ MailsFit /\ SendsFit /\ AloneFits
    BY DEF OTPIInv
  <1>2. /\ ended < issued /\ ended' = ended + 1
        /\ UNCHANGED <<keys, issued, req, lost, log>>
    BY DEF EndOfLifetime
  <1>3. Shapes'
    <2>1. ended' \in 0..issued
      BY <1>1, <1>2, Numbers
    <2> QED
      BY <1>1, <1>2, <2>1 DEF Shapes, keys
  <1>4. \A p \in Requests : CallFits(req[p])'
    BY <1>1, <1>2 DEF CallFits
  <1>5. \A n \in Codes : CodeFits(n)' /\ GuessesFit(n)'
    BY <1>1, <1>2, Still DEF CodeFits, GuessesFit, keys
  <1>6. CountFits' /\ MailsFit' /\ SendsFit'
    BY <1>1, <1>2, Still DEF CountFits, MailsFit, SendsFit, keys
  <1>7. AloneFits'
    <2> SUFFICES ASSUME log'.alone
                 PROVE  AloneFits'
      BY DEF AloneFits
    <2>1. AloneFits /\ log.alone
      BY <1>1, <1>2
    <2>2. OneCall'
      BY <1>2, <2>1, Still DEF AloneFits
    <2>3. ASSUME lost' = 0, NEW n \in Codes
          PROVE  CodeAlone(n)'
      <3>1. CodeAlone(n) /\ Guessing(n)' = Guessing(n)
        BY <1>2, <2>1, <2>3, Still DEF AloneFits
      <3>2. n > ended' => n > ended
        BY <1>1, <1>2, Numbers, Bounds DEF Codes
      <3> QED
        BY <1>2, <3>1, <3>2 DEF CodeAlone, keys
    <2>4. lost' = 0 => \A p \in Requests : CallAlone(req[p])'
      BY <1>2, <2>1 DEF AloneFits, CallAlone, keys
    <2> QED
      BY <1>2, <2>1, <2>2, <2>3, <2>4, Still DEF AloneFits, keys
  <1> QED
    BY <1>3, <1>4, <1>5, <1>6, <1>7 DEF OTPIInv

LEMMA ChallengeExpires ==
    ASSUME OTPIInv, challenge' = 0,
           UNCHANGED <<attempts, cooldown, recipientCooldown, log, issued, ended, req, lost>>
    PROVE  OTPIInv'
  <1>1. /\ Shapes /\ \A p \in Requests : CallFits(req[p])
        /\ \A n \in Codes : CodeFits(n) /\ GuessesFit(n) /\ n # 0
        /\ CountFits /\ MailsFit /\ SendsFit /\ AloneFits
    BY Bounds DEF OTPIInv, Codes
  <1>2. Shapes'
    BY <1>1, Numbers DEF Shapes
  <1>3. \A p \in Requests : CallFits(req[p])'
    BY <1>1 DEF CallFits
  <1>4. \A n \in Codes : CodeFits(n)' /\ GuessesFit(n)'
    BY <1>1, Still DEF CodeFits, GuessesFit
  <1>5. CountFits' /\ MailsFit' /\ SendsFit'
    BY <1>1, Still DEF CountFits, MailsFit, SendsFit
  <1>6. AloneFits'
    <2> SUFFICES ASSUME log'.alone
                 PROVE  AloneFits'
      BY DEF AloneFits
    <2>1. AloneFits /\ log.alone
      BY <1>1
    <2>2. OneCall'
      BY <2>1, Still DEF AloneFits
    <2>3. ASSUME lost' = 0, NEW n \in Codes
          PROVE  CodeAlone(n)'
      <3>1. CodeAlone(n) /\ Guessing(n)' = Guessing(n)
        BY <2>1, <2>3, Still DEF AloneFits
      <3> QED
        BY <1>1, <3>1 DEF CodeAlone
    <2>4. lost' = 0 => \A p \in Requests : CallAlone(req[p])'
      BY <2>1 DEF AloneFits, CallAlone
    <2> QED
      BY <2>1, <2>2, <2>3, <2>4, Still DEF AloneFits
  <1> QED
    BY <1>2, <1>3, <1>4, <1>5, <1>6 DEF OTPIInv

LEMMA AttemptsExpire ==
    ASSUME OTPIInv, attempts.until \in 1..ended, ForgetAttempts,
           UNCHANGED <<challenge, cooldown, recipientCooldown, issued, ended, req, lost>>
    PROVE  OTPIInv'
  <1>1. /\ Shapes /\ \A p \in Requests : CallFits(req[p])
        /\ \A n \in Codes : CodeFits(n) /\ GuessesFit(n) /\ n # 0
        /\ CountFits /\ MailsFit /\ SendsFit /\ AloneFits
    BY Bounds DEF OTPIInv, Codes
  <1>2. /\ attempts'.count = 0 /\ attempts' \in [count: Nat, until: 0..issued]
        /\ log' \in Logs
        /\ log'.accepted = log.accepted /\ log'.rejected = log.rejected
        /\ log'.sent = log.sent /\ log'.alone = log.alone
        /\ log.reset \subseteq log'.reset
        /\ \A n \in Codes : n \notin log'.reset /\ challenge = n => attempts.count = 0
    BY <1>1, Forgotten
  <1>3. Shapes'
    BY <1>1, <1>2 DEF Shapes, Logs
  <1>4. \A p \in Requests : CallFits(req[p])'
    BY <1>1 DEF CallFits
  <1>5. ASSUME NEW n \in Codes
        PROVE  CodeFits(n)' /\ GuessesFit(n)'
    <2>1. CodeFits(n) /\ GuessesFit(n) /\ Guessing(n)' = Guessing(n)
      BY <1>1, Still
    <2>2. CodeFits(n)'
      BY <1>2, <2>1 DEF CodeFits
    <2>3. n \notin log'.reset => n \notin log.reset
      BY <1>2
    <2>4. GuessesFit(n)'
      BY <1>2, <2>1, <2>3 DEF GuessesFit
    <2> QED
      BY <2>2, <2>4
  <1>6. CountFits'
    <2>1. PICK d \in Nat, l \in Nat, k \in Nat \ {0} :
             d = Cardinality(Deleting) /\ l = lost /\ k = maxAttempts
      BY <1>1, CallsCount, Numbers, Bounds DEF Deleting
    <2>2. 0 + 1 <= k + d + l
      BY <2>1
    <2> QED
      BY <1>2, <2>1, <2>2, Still DEF CountFits
  <1>7. MailsFit' /\ SendsFit'
    BY <1>1, <1>2, Still DEF MailsFit, SendsFit
  <1>8. AloneFits'
    <2> SUFFICES ASSUME log'.alone
                 PROVE  AloneFits'
      BY DEF AloneFits
    <2>1. AloneFits /\ log.alone
      BY <1>1, <1>2
    <2>2. OneCall'
      BY <2>1, Still DEF AloneFits
    <2>3. ASSUME lost' = 0, NEW n \in Codes
          PROVE  CodeAlone(n)'
      <3>1. /\ CodeAlone(n) /\ Guessing(n)' = Guessing(n)
            /\ attempts.count > 0 /\ challenge # 0 => attempts.until = challenge
        BY <2>1, <2>3, Still DEF AloneFits
      <3>2. challenge = n /\ n > ended => attempts.count = 0
        BY <1>1, <3>1, Numbers
      <3> QED
        BY <1>2, <3>1, <3>2 DEF CodeAlone
    <2>4. lost' = 0 => \A p \in Requests : CallAlone(req[p])'
      BY <1>2, <2>1 DEF AloneFits, CallAlone
    <2> QED
      BY <1>2, <2>1, <2>2, <2>3, <2>4, Still DEF AloneFits
  <1> QED
    BY <1>3, <1>4, <1>5, <1>6, <1>7, <1>8 DEF OTPIInv

LEMMA CooldownExpires ==
    ASSUME OTPIInv, cooldown' = FALSE,
           UNCHANGED <<challenge, attempts, recipientCooldown, log, issued, ended, req, lost>>
    PROVE  OTPIInv'
  <1>1. /\ Shapes /\ \A p \in Requests : CallFits(req[p])
        /\ \A n \in Codes : CodeFits(n) /\ GuessesFit(n)
        /\ CountFits /\ MailsFit /\ SendsFit /\ AloneFits
    BY DEF OTPIInv
  <1>2. Shapes'
    BY <1>1 DEF Shapes
  <1>3. \A p \in Requests : CallFits(req[p])'
    BY <1>1 DEF CallFits
  <1>4. \A n \in Codes : CodeFits(n)' /\ GuessesFit(n)'
    BY <1>1, Still DEF CodeFits, GuessesFit
  <1>5. CountFits' /\ MailsFit' /\ SendsFit'
    BY <1>1, Still DEF CountFits, MailsFit, SendsFit
  <1>6. AloneFits'
    <2>1. \A n \in Codes : CodeAlone(n) => CodeAlone(n)'
      BY Still DEF CodeAlone
    <2>2. \A p \in Requests : CallAlone(req[p]) => CallAlone(req[p])'
      BY DEF CallAlone
    <2> QED
      BY <1>1, <2>1, <2>2, Still DEF AloneFits
  <1> QED
    BY <1>2, <1>3, <1>4, <1>5, <1>6 DEF OTPIInv

LEMMA RecipientCooldownExpires ==
    ASSUME OTPIInv, recipientCooldown' = FALSE, log' = [log EXCEPT !.sent = 0],
           UNCHANGED <<challenge, attempts, cooldown, issued, ended, req, lost>>
    PROVE  OTPIInv'
  <1>1. /\ Shapes /\ \A p \in Requests : CallFits(req[p])
        /\ \A n \in Codes : CodeFits(n) /\ GuessesFit(n)
        /\ CountFits /\ MailsFit /\ SendsFit /\ AloneFits
    BY DEF OTPIInv
  <1>2. /\ log' \in Logs /\ log'.sent = 0
        /\ log'.accepted = log.accepted /\ log'.rejected = log.rejected
        /\ log'.reset = log.reset /\ log'.alone = log.alone
    BY <1>1 DEF Shapes, Logs
  <1>3. Shapes'
    BY <1>1, <1>2 DEF Shapes, Logs
  <1>4. \A p \in Requests : CallFits(req[p])'
    BY <1>1 DEF CallFits
  <1>5. \A n \in Codes : CodeFits(n)' /\ GuessesFit(n)'
    BY <1>1, <1>2, Still DEF CodeFits, GuessesFit
  <1>6. CountFits'
    BY <1>1, Still DEF CountFits
  <1>7. MailsFit'
    <2>1. PICK d \in Nat, i \in Nat : d = Cardinality(Mailing) /\ i = issued
      BY <1>1, CallsCount, Numbers DEF Mailing
    <2>2. d <= i
      BY <1>1, <2>1 DEF MailsFit
    <2>3. 0 + d <= i + 0
      BY <2>2
    <2> QED
      BY <1>2, <2>1, <2>2, <2>3, Still DEF MailsFit
  <1>8. SendsFit'
    <2>1. PICK d \in Nat, k \in Nat : d = Cardinality(Passed) /\ k = R /\ d <= k
      BY CallsCount, Bounds DEF Passed
    <2>2. 0 + d <= k + 1
      BY <2>1
    <2> QED
      BY <1>2, <2>1, <2>2, Still DEF SendsFit
  <1>9. AloneFits'
    <2>1. \A n \in Codes : CodeAlone(n) => CodeAlone(n)'
      BY <1>2, Still DEF CodeAlone
    <2>2. \A p \in Requests : CallAlone(req[p]) => CallAlone(req[p])'
      BY DEF CallAlone
    <2> QED
      BY <1>1, <1>2, <2>1, <2>2, Still DEF AloneFits
  <1> QED
    BY <1>3, <1>4, <1>5, <1>6, <1>7, <1>8, <1>9 DEF OTPIInv

LEMMA ExpireKeeps ==
    ASSUME OTPIInv, Expire
    PROVE  OTPIInv'
  BY ChallengeExpires, AttemptsExpire, CooldownExpires, RecipientCooldownExpires DEF Expire

-----------------------------------------------------------------------------
(* The invariant and what it implies.                                      *)

LEMMA OTPInit ==
    ASSUME Init
    PROVE  OTPIInv
  <1>1. /\ \A q \in Requests : req[q] = Idle
        /\ challenge = 0 /\ attempts.count = 0 /\ issued = 0 /\ ended = 0 /\ lost = 0
        /\ ~recipientCooldown
        /\ log.sent = 0 /\ log.reset = {}
        /\ \A n \in Codes : log.accepted[n] = 0 /\ log.rejected[n] = 0 /\ n # 0
    BY Bounds DEF Init, NoAttempts, Codes
  <1>2. Shapes
    <2>1. Idle \in Call
      BY Bounds DEF Idle, Call
    <2>2. attempts \in [count: Nat, until: 0..issued] /\ 0 \in 0..MaxRejected
      BY Bounds DEF Init, NoAttempts
    <2>3. log \in [accepted: [Codes -> Nat], rejected: [Codes -> 0..MaxRejected],
                   reset: SUBSET Codes, sent: Nat, alone: BOOLEAN]
      BY <2>2 DEF Init
    <2>4. req \in [Requests -> Call] /\ cooldown \in BOOLEAN /\ recipientCooldown \in BOOLEAN
      BY <2>1 DEF Init
    <2>5. issued \in 0..MaxCodes /\ lost \in 0..MaxLost
          /\ challenge \in 0..issued /\ ended \in 0..issued
      BY <1>1, Bounds
    <2> QED
      BY <2>2, <2>3, <2>4, <2>5 DEF Shapes
  <1>3. Deleting = {} /\ Mailing = {} /\ Passed = {} /\ \A n : Guessing(n) = {}
    BY <1>1, Returned DEF Deleting, Mailing, Passed, Guessing
  <1>4. Cardinality(Deleting) = 0 /\ Cardinality(Mailing) = 0 /\ Cardinality(Passed) = 0
        /\ \A n : Cardinality(Guessing(n)) = 0
    BY <1>3, FS_EmptySet
  <1>5. \A q \in Requests : CallFits(req[q])
    BY <1>1, Returned
  <1>6. ASSUME NEW n \in Codes
        PROVE  CodeFits(n) /\ GuessesFit(n)
    BY <1>1, <1>4, Bounds DEF CodeFits, GuessesFit
  <1>7. CountFits /\ MailsFit /\ SendsFit
    BY <1>1, <1>4, Bounds DEF CountFits, MailsFit, SendsFit
  <1>8. AloneFits
    <2>1. OneCall
      BY <1>1, Returned DEF OneCall
    <2>2. \A q \in Requests : CallAlone(req[q])
      BY <1>1, Returned DEF CallAlone
    <2>3. \A n \in Codes : CodeAlone(n)
      BY <1>1, <1>3, Bounds DEF CodeAlone
    <2> QED
      BY <1>1, <1>3, <2>1, <2>2, <2>3 DEF AloneFits
  <1> QED
    BY <1>2, <1>5, <1>6, <1>7, <1>8 DEF OTPIInv

LEMMA OTPNext ==
    ASSUME OTPIInv, [Next]_vars
    PROVE  OTPIInv'
  <1>1. CASE UNCHANGED vars
    <2>1. \A q \in Requests : CallFits(req[q]) => CallFits(req[q])'
      BY <1>1 DEF CallFits, vars, keys
    <2>2. Shapes => Shapes'
      BY <1>1 DEF Shapes, vars, keys
    <2>3. ASSUME NEW n \in Codes
          PROVE  CodeFits(n) /\ GuessesFit(n) => CodeFits(n)' /\ GuessesFit(n)'
      <3>1. CodeFits(n) => CodeFits(n)'
        BY <1>1 DEF CodeFits, vars, keys
      <3>2. Guessing(n)' = Guessing(n)
        BY <1>1, Still DEF vars
      <3>3. GuessesFit(n) => GuessesFit(n)'
        BY <1>1, <3>2 DEF GuessesFit, vars, keys
      <3> QED
        BY <3>1, <3>3
    <2>4. CountFits /\ MailsFit /\ SendsFit => CountFits' /\ MailsFit' /\ SendsFit'
      BY <1>1, Still DEF CountFits, MailsFit, SendsFit, vars, keys
    <2>5. AloneFits => AloneFits'
      <3>1. \A n \in Codes : CodeAlone(n) => CodeAlone(n)'
        BY <1>1, Still DEF CodeAlone, vars, keys
      <3>2. \A p \in Requests : CallAlone(req[p]) => CallAlone(req[p])'
        BY <1>1 DEF CallAlone, vars, keys
      <3> QED
        BY <1>1, <3>1, <3>2, Still DEF AloneFits, vars, keys
    <2> QED
      BY <2>1, <2>2, <2>3, <2>4, <2>5 DEF OTPIInv
  <1>2. CASE \E q \in Requests : CreateOTP(q)
    BY <1>2, StartCreateKeeps, CheckCooldownKeeps, CheckRecipientKeeps, SetChallengeKeeps,
       SetCooldownKeeps, SetRecipientCooldownKeeps DEF CreateOTP
  <1>3. CASE \E q \in Requests : VerifyOTP(q)
    BY <1>3, StartVerifyKeeps, GetChallengeKeeps, ClaimChallengeKeeps, ClearAttemptsKeeps,
       ClearCooldownKeeps, ReadTTLKeeps, IncrementAttemptsKeeps DEF VerifyOTP
  <1>4. CASE \E q \in Requests : RevokeOTP(q)
    BY <1>4, DeleteAttemptsKeeps, DeleteCooldownKeeps, DeleteChallengeKeeps DEF RevokeOTP
  <1>5. CASE \E q \in Requests : CallFails(q)
    BY <1>5, CallFailsKeeps
  <1>6. CASE OtherTransition \/ EndOfLifetime \/ Expire
    BY <1>6, OtherTransitionKeeps, EndOfLifetimeKeeps, ExpireKeeps
  <1> QED
    BY <1>1, <1>2, <1>3, <1>4, <1>5, <1>6 DEF Next

LEMMA TypesFollow ==
    ASSUME OTPIInv
    PROVE  TypeOK
  <1>1. Shapes /\ CountFits /\ MailsFit /\ \A n \in Codes : CodeFits(n)
    BY DEF OTPIInv
  <1>2. attempts.count <= maxAttempts + R + MaxLost - 1
    <2>1. PICK d \in Nat, x \in Nat, l \in Nat, k \in Nat, m \in Nat, v \in Nat :
             /\ d = Cardinality(Deleting) /\ x = attempts.count /\ l = lost
             /\ k = maxAttempts /\ m = R /\ v = MaxLost
      BY <1>1, CallsCount, Numbers, Bounds DEF Deleting
    <2>2. d <= m /\ l <= v
      BY <1>1, <2>1, CallsCount, Bounds DEF Deleting, Shapes
    <2>3. x + 1 <= k + d + l
      BY <1>1, <2>1 DEF CountFits
    <2>4. x <= k + m + v - 1
      BY <2>2, <2>3
    <2> QED
      BY <2>1, <2>4
  <1>3. attempts \in [count: 0..(maxAttempts + R + MaxLost - 1), until: 0..issued]
    <2>1. attempts \in [count: Nat, until: 0..issued]
      BY <1>1 DEF Shapes
    <2>2. PICK m \in Int : m = maxAttempts + R + MaxLost - 1
      BY Bounds
    <2>3. attempts.count \in 0..m
      BY <1>2, <2>1, <2>2
    <2>4. attempts \in [count: 0..m, until: 0..issued]
      BY <2>1, <2>3
    <2> QED
      BY <2>2, <2>4
  <1>4. log.sent \in 0..(MaxCodes + 1)
    <2>1. PICK d \in Nat, x \in Nat, i \in Nat, m \in Nat :
             /\ d = Cardinality(Mailing) /\ x = log.sent /\ i = issued /\ m = MaxCodes /\ i <= m
      BY <1>1, CallsCount, Numbers, Bounds DEF Mailing
    <2>2. x + d <= i + 1
      BY <1>1, <2>1 DEF MailsFit
    <2> QED
      BY <2>1, <2>2
  <1>5. log.accepted \in [Codes -> 0..R]
    <2>1. log.accepted \in [Codes -> Nat]
      BY <1>1 DEF Shapes
    <2>2. \A n \in Codes : log.accepted[n] \in 0..R
      BY <1>1, <2>1, Bounds DEF CodeFits
    <2> QED
      BY <2>1, <2>2
  <1>6. log \in Log
    BY <1>1, <1>4, <1>5 DEF Shapes, Log
  <1> QED
    BY <1>1, <1>3, <1>6 DEF Shapes, TypeOK

\* The invariant holds in every reachable state.
THEOREM OTPInvariant == Spec => []OTPIInv
  <1>1. Init => OTPIInv
    BY OTPInit
  <1>2. OTPIInv /\ [Next]_vars => OTPIInv'
    BY OTPNext
  <1> QED
    BY <1>1, <1>2, PTL DEF Spec

\* TypeOK: every key, call and history counter stays in its range; the counter of
\* wrong guesses passes maxAttempts by the calls that are about to delete it and
\* the deletions that were lost.
THEOREM OTPTypes == Spec => []TypeOK
  <1>1. OTPIInv => TypeOK
    BY TypesFollow
  <1> QED
    BY <1>1, OTPInvariant, PTL

\* CodeUsedOnce: CompareAndDelete accepts a code once, for any number of calls of
\* VerifyOTP, CreateOTP and RevokeOTP in any order.
THEOREM OTPCodeUsedOnce == Spec => []CodeUsedOnce
  <1>1. OTPIInv => CodeUsedOnce
    BY DEF OTPIInv, CodeFits, CodeUsedOnce
  <1> QED
    BY <1>1, OTPInvariant, PTL

\* GuessesBounded: calls that do not overlap answer maxAttempts wrong guesses at a
\* code; calls that do, fewer than maxAttempts plus their number, as long as the
\* counter of the live challenge was not deleted.
THEOREM OTPGuessesBounded == Spec => []GuessesBounded
  <1>1. ASSUME OTPIInv, NEW n \in Codes
        PROVE  /\ log.alone /\ lost = 0 => log.rejected[n] <= maxAttempts
               /\ n \notin log.reset /\ lost = 0 => log.rejected[n] < maxAttempts + R
    <2>1. Shapes /\ GuessesFit(n) /\ AloneFits
      BY <1>1 DEF OTPIInv
    <2>2. log.alone /\ lost = 0 => log.rejected[n] <= maxAttempts
      BY <2>1 DEF AloneFits, CodeAlone
    <2>3. PICK d \in Nat, x \in Nat, k \in Nat, m \in Nat :
             /\ d = Cardinality(Guessing(n)) /\ x = log.rejected[n] /\ k = maxAttempts /\ m = R
      BY <2>1, CallsCount, Numbers, Bounds DEF Guessing
    <2>4. n \notin log.reset /\ lost = 0 => x + d + 1 <= k + m
      BY <2>1, <2>3 DEF GuessesFit
    <2>5. n \notin log.reset /\ lost = 0 => x < k + m
      BY <2>3, <2>4
    <2> QED
      BY <2>2, <2>3, <2>5
  <1>2. OTPIInv => GuessesBounded
    BY <1>1 DEF GuessesBounded
  <1> QED
    BY <1>2, OTPInvariant, PTL

\* SendsBounded: while the recipient's cooldown lasts, calls that do not overlap
\* send one mail; calls that do, one each and the other transition's.
THEOREM OTPSendsBounded == Spec => []SendsBounded
  <1>1. ASSUME OTPIInv, lost = 0
        PROVE  log.sent <= IF log.alone THEN 1 ELSE R + 1
    <2>1. Shapes /\ SendsFit /\ AloneFits
      BY <1>1 DEF OTPIInv
    <2>2. log.alone => log.sent <= 1
      BY <1>1, <2>1 DEF AloneFits
    <2>3. PICK d \in Nat, x \in Nat, m \in Nat :
             d = Cardinality(Passed) /\ x = log.sent /\ m = R
      BY <2>1, CallsCount, Numbers, Bounds DEF Passed
    <2>4. x + d <= m + 1
      BY <1>1, <2>1, <2>3 DEF SendsFit
    <2>5. x <= m + 1
      BY <2>3, <2>4
    <2> QED
      BY <2>2, <2>3, <2>5
  <1>2. OTPIInv => SendsBounded
    BY <1>1 DEF SendsBounded
  <1> QED
    BY <1>2, OTPInvariant, PTL

=============================================================================
