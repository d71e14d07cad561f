------------------------------ MODULE OTPStore ------------------------------
(***************************************************************************)
(* One-time codes of an email login: internal/authn/kv/otp_store.go.  The  *)
(* challenge, its counter of wrong guesses and the two send cooldowns are  *)
(* keys of their own; every key-value call is a step.  One transition and  *)
(* its recipient are modelled; codes are numbered as they are issued.      *)
(***************************************************************************)
EXTENDS Naturals, FiniteSets

CONSTANTS
    Requests,      \* concurrent calls
    maxAttempts,
    MaxCodes,      \* bound: codes issued
    MaxLost        \* bound: calls that fail unnoticed or in a revocation

ASSUME BoundsAssumption ==
    /\ maxAttempts \in Nat \ {0}
    /\ MaxCodes \in Nat
    /\ MaxLost \in Nat
    /\ IsFiniteSet(Requests)

VARIABLES
    challenge,          \* key: the code it holds, 0 without one
    attempts,           \* attemptsKey: count, and the code whose lifetime it has (0: no key)
    cooldown,           \* sendCooldownKey exists
    recipientCooldown,  \* recipientCooldownKey exists
    issued,             \* codes issued so far
    ended,              \* codes whose lifetime is over; they end as issued
    req,                \* the calls: where they are and what they read
    lost,               \* failures so far that were ignored or cut a revocation short
    log                 \* history, see Log

keys == <<challenge, attempts, cooldown, recipientCooldown>>

vars == <<keys, issued, ended, req, lost, log>>

-----------------------------------------------------------------------------
Codes == 1..MaxCodes

R == Cardinality(Requests)

NoAttempts == [count |-> 0, until |-> 0]

\* until: the code whose remaining lifetime the TTL call returned.
Call == [pc: {"idle", "cooldown", "recipient", "delAttempts", "delCooldown", "delChallenge",
              "set", "setCooldown", "setRecipient",
              "get", "claim", "clearAttempts", "clearCooldown", "ttl", "increment"},
         op: {"create", "verify"}, code: 0..MaxCodes, until: 0..MaxCodes]

Idle == [pc |-> "idle", op |-> "create", code |-> 0, until |-> 0]

\* accepted, rejected: the guesses at each code that were answered (the latter
\* counted to MaxRejected).  reset: the codes whose wrong guesses were forgotten
\* while they could be guessed.  sent: mails to the recipient since their cooldown
\* last ran out.  alone: no two calls overlapped.
MaxRejected == maxAttempts + R

Log == [accepted: [Codes -> 0..R], rejected: [Codes -> 0..MaxRejected],
        reset: SUBSET Codes, sent: 0..(MaxCodes + 1), alone: BOOLEAN]

TypeOK ==
    /\ challenge \in 0..issued
    /\ attempts \in [count: 0..(maxAttempts + R + MaxLost - 1), until: 0..issued]
    /\ cooldown \in BOOLEAN /\ recipientCooldown \in BOOLEAN
    /\ issued \in 0..MaxCodes
    /\ ended \in 0..issued
    /\ req \in [Requests -> Call]
    /\ lost \in 0..MaxLost
    /\ log \in Log

Init ==
    /\ challenge = 0
    /\ attempts = NoAttempts
    /\ cooldown = FALSE /\ recipientCooldown = FALSE
    /\ issued = 0 /\ ended = 0 /\ lost = 0
    /\ req = [q \in Requests |-> Idle]
    /\ log = [accepted |-> [n \in Codes |-> 0], rejected |-> [n \in Codes |-> 0],
              reset |-> {}, sent |-> 0, alone |-> TRUE]

-----------------------------------------------------------------------------
At(q, pc) == req[q].pc = pc

Goto(q, pc) == req' = [req EXCEPT ![q].pc = pc]

\* Goes on without what was read.
Forget(q, pc) == req' = [req EXCEPT ![q] = [Idle EXCEPT !.pc = pc, !.op = "verify"]]

Return(q) == req' = [req EXCEPT ![q] = Idle]

\* A call whose error nobody looks at has its effect or is lost.
Ignored(effect, noEffect) ==
    \/ effect /\ UNCHANGED lost
    \/ noEffect /\ lost < MaxLost /\ lost' = lost + 1

Enter(q, call) ==
    /\ At(q, "idle")
    /\ req' = [req EXCEPT ![q] = call]
    /\ log' = [log EXCEPT !.alone = @ /\ \A p \in Requests : At(p, "idle")]
    /\ UNCHANGED <<keys, issued, ended, lost>>

Reject(q) ==
    log' = [log EXCEPT !.rejected[req[q].code] = IF @ < MaxRejected THEN @ + 1 ELSE @]

ForgetAttempts ==
    /\ attempts' = NoAttempts
    /\ log' = [log EXCEPT !.reset = IF attempts.count > 0 /\ challenge # 0
                                   THEN @ \union {challenge} ELSE @]

-----------------------------------------------------------------------------
\* CreateOTP, for the first mail of the transition or a resend.
StartCreate(q) == Enter(q, [Idle EXCEPT !.pc = "cooldown"])

CheckCooldown(q) ==
    /\ At(q, "cooldown")
    /\ IF cooldown THEN Return(q) ELSE Goto(q, "recipient")
    /\ UNCHANGED <<keys, issued, ended, lost, log>>

\* Mutant of CheckRecipient: only the transition's own cooldown counts.
CheckRecipientNot(q) ==
    /\ At(q, "recipient")
    /\ Goto(q, "delAttempts")
    /\ UNCHANGED <<keys, issued, ended, lost, log>>

CheckRecipient(q) ==
    /\ At(q, "recipient")
    /\ IF recipientCooldown THEN Return(q) ELSE Goto(q, "delAttempts")
    /\ UNCHANGED <<keys, issued, ended, lost, log>>

\* RevokeOTP: the counter and the cooldown go first, their errors are ignored.
DeleteAttempts(q) ==
    /\ At(q, "delAttempts")
    /\ Ignored(ForgetAttempts, UNCHANGED <<attempts, log>>)
    /\ Goto(q, "delCooldown")
    /\ UNCHANGED <<challenge, cooldown, recipientCooldown, issued, ended>>

DeleteCooldown(q) ==
    /\ At(q, "delCooldown")
    /\ Ignored(cooldown' = FALSE, cooldown' = cooldown)
    /\ Goto(q, "delChallenge")
    /\ UNCHANGED <<challenge, attempts, recipientCooldown, issued, ended, log>>

\* Then whatever challenge is there by now.  VerifyOTP ignores the error,
\* CreateOTP ends with it (CallFails).
DeleteChallenge(q) ==
    /\ At(q, "delChallenge")
    /\ \/ challenge' = 0 /\ UNCHANGED lost
       \/ req[q].op = "verify" /\ lost < MaxLost /\ lost' = lost + 1 /\ UNCHANGED challenge
    /\ IF req[q].op = "create" THEN Goto(q, "set") ELSE Return(q)
    /\ UNCHANGED <<attempts, cooldown, recipientCooldown, issued, ended, log>>

SetChallenge(q) ==
    /\ At(q, "set")
    /\ issued < MaxCodes
    /\ issued' = issued + 1
    /\ challenge' = issued + 1
    /\ Goto(q, "setCooldown")
    /\ UNCHANGED <<attempts, cooldown, recipientCooldown, ended, lost, log>>

SetCooldown(q) ==
    /\ At(q, "setCooldown")
    /\ Ignored(cooldown' = TRUE, cooldown' = cooldown)
    /\ Goto(q, "setRecipient")
    /\ UNCHANGED <<challenge, attempts, recipientCooldown, issued, ended, log>>

\* The last key; CreateOTP returns and the code is mailed.
SetRecipientCooldown(q) ==
    /\ At(q, "setRecipient")
    /\ Ignored(recipientCooldown' = TRUE, recipientCooldown' = recipientCooldown)
    /\ log' = [log EXCEPT !.sent = @ + 1]
    /\ Return(q)
    /\ UNCHANGED <<challenge, attempts, cooldown, issued, ended>>

\* The recipient starts another login: another transition mails them (its
\* CreateOTP is one step here, on the one key it shares with this one).
OtherTransition ==
    /\ ~recipientCooldown
    /\ recipientCooldown' = TRUE
    /\ log' = [log EXCEPT !.sent = @ + 1, !.alone = @ /\ \A p \in Requests : At(p, "idle")]
    /\ UNCHANGED <<challenge, attempts, cooldown, issued, ended, req, lost>>

-----------------------------------------------------------------------------
\* VerifyOTP.
StartVerify(q) == Enter(q, [Idle EXCEPT !.pc = "get", !.op = "verify"])

\* The challenge is read and compared with the guess, which may be right or
\* wrong; an expired one is revoked.
GetChallenge(q) ==
    /\ At(q, "get")
    /\ IF challenge = 0 THEN Return(q)
       ELSE \E pc \in IF challenge <= ended THEN {"delAttempts"} ELSE {"claim", "ttl"} :
              req' = [req EXCEPT ![q] = [@ EXCEPT !.pc = pc, !.code = challenge]]
    /\ UNCHANGED <<keys, issued, ended, lost, log>>

\* Mutant of ClaimChallenge: a plain delete instead of CompareAndDelete.
ClaimChallengeDeleted(q) ==
    /\ At(q, "claim")
    /\ challenge' = 0
    /\ Forget(q, "clearAttempts")
    /\ log' = [log EXCEPT !.accepted[req[q].code] = @ + 1]
    /\ UNCHANGED <<attempts, cooldown, recipientCooldown, issued, ended, lost>>

\* CompareAndDelete: the code is accepted if the key still holds what was read.
ClaimChallenge(q) ==
    /\ At(q, "claim")
    /\ IF challenge = req[q].code
       THEN /\ challenge' = 0
            /\ Forget(q, "clearAttempts")
            /\ log' = [log EXCEPT !.accepted[req[q].code] = @ + 1]
       ELSE Return(q) /\ UNCHANGED <<challenge, log>>
    /\ UNCHANGED <<attempts, cooldown, recipientCooldown, issued, ended, lost>>

ClearAttempts(q) ==
    /\ At(q, "clearAttempts")
    /\ Ignored(ForgetAttempts, UNCHANGED <<attempts, log>>)
    /\ Goto(q, "clearCooldown")
    /\ UNCHANGED <<challenge, cooldown, recipientCooldown, issued, ended>>

ClearCooldown(q) ==
    /\ At(q, "clearCooldown")
    /\ Ignored(cooldown' = FALSE, cooldown' = cooldown)
    /\ Return(q)
    /\ UNCHANGED <<challenge, attempts, recipientCooldown, issued, ended, log>>

\* A wrong guess: the lifetime of whatever challenge is there by now.  Without
\* one, or on an error, the guess is answered and not counted.
ReadTTL(q) ==
    /\ At(q, "ttl")
    /\ \/ /\ challenge # 0
          /\ req' = [req EXCEPT ![q] = [@ EXCEPT !.pc = "increment", !.until = challenge]]
          /\ UNCHANGED <<lost, log>>
       \/ /\ Return(q) /\ Reject(q)
          /\ IF challenge = 0 THEN UNCHANGED lost ELSE lost < MaxLost /\ lost' = lost + 1
    /\ UNCHANGED <<keys, issued, ended>>

\* IncrementWithTTL: the lifetime is set when the key has none.
Counted(q) ==
    IF attempts.count = 0 THEN [count |-> 1, until |-> req[q].until]
    ELSE [attempts EXCEPT !.count = @ + 1]

\* Mutant of IncrementAttempts: one guess too many.
IncrementAttemptsOffByOne(q) ==
    /\ At(q, "increment")
    /\ attempts' = Counted(q)
    /\ Reject(q)
    /\ IF attempts'.count > maxAttempts THEN Forget(q, "delAttempts") ELSE Return(q)
    /\ UNCHANGED <<challenge, cooldown, recipientCooldown, issued, ended, lost>>

\* The last guess that is allowed revokes the challenge (ErrTooManyAttempts).
IncrementAttempts(q) ==
    /\ At(q, "increment")
    /\ attempts' = Counted(q)
    /\ Reject(q)
    /\ IF attempts'.count >= maxAttempts THEN Forget(q, "delAttempts") ELSE Return(q)
    /\ UNCHANGED <<challenge, cooldown, recipientCooldown, issued, ended, lost>>

Revoking(q) == req[q].pc \in {"delAttempts", "delCooldown", "delChallenge"}

\* A key-value call whose error is returned fails, or the process dies; a
\* revocation that is cut short may have reset the counter of a live challenge.
CallFails(q) ==
    /\ ~At(q, "idle")
    /\ IF Revoking(q) THEN lost < MaxLost /\ lost' = lost + 1 ELSE UNCHANGED lost
    /\ Return(q)
    /\ UNCHANGED <<keys, issued, ended, log>>

-----------------------------------------------------------------------------
\* The lifetime of the oldest code is over: ExpireAt has passed.
EndOfLifetime ==
    /\ ended < issued
    /\ ended' = ended + 1
    /\ UNCHANGED <<keys, issued, req, lost, log>>

\* A key goes: the challenge and its counter with their lifetimes, a cooldown,
\* which is shorter, at any time.
Expire ==
    /\ \/ /\ challenge \in 1..ended
          /\ challenge' = 0
          /\ UNCHANGED <<attempts, cooldown, recipientCooldown, log>>
       \/ /\ attempts.until \in 1..ended
          /\ ForgetAttempts
          /\ UNCHANGED <<challenge, cooldown, recipientCooldown>>
       \/ /\ cooldown
          /\ cooldown' = FALSE
          /\ UNCHANGED <<challenge, attempts, recipientCooldown, log>>
       \/ /\ recipientCooldown
          /\ recipientCooldown' = FALSE
          /\ log' = [log EXCEPT !.sent = 0]
          /\ UNCHANGED <<challenge, attempts, cooldown>>
    /\ UNCHANGED <<issued, ended, req, lost>>

RevokeOTP(q) == DeleteAttempts(q) \/ DeleteCooldown(q) \/ DeleteChallenge(q)

CreateOTP(q) ==
    \/ StartCreate(q) \/ CheckCooldown(q) \/ CheckRecipient(q)
    \/ SetChallenge(q) \/ SetCooldown(q) \/ SetRecipientCooldown(q)

VerifyOTP(q) ==
    \/ StartVerify(q) \/ GetChallenge(q) \/ ClaimChallenge(q) \/ ClearAttempts(q) \/ ClearCooldown(q)
    \/ ReadTTL(q) \/ IncrementAttempts(q)

Next ==
    \/ \E q \in Requests : CreateOTP(q) \/ VerifyOTP(q) \/ RevokeOTP(q) \/ CallFails(q)
    \/ OtherTransition
    \/ EndOfLifetime
    \/ Expire

Spec == Init /\ [][Next]_vars

-----------------------------------------------------------------------------
\* "preventing double-use under concurrent verification calls" (VerifyOTP): a
\* code is accepted once, whatever new codes, revocations and guesses race it.
CodeUsedOnce == \A n \in Codes : log.accepted[n] <= 1

\* "maxAttempts is the maximum number of failed verification attempts before
\* the challenge is revoked" (NewKVOTPStore) when calls do not overlap.  When
\* they do, those already past the comparison come on top; and the bound is
\* gone once a call that overlaps has deleted the counter of a live challenge.
GuessesBounded ==
    \A n \in Codes :
        /\ log.alone /\ lost = 0 => log.rejected[n] <= maxAttempts
        /\ n \notin log.reset /\ lost = 0 => log.rejected[n] < maxAttempts + R

\* While the recipient's cooldown lasts one mail goes out, or as many as calls
\* (and the other transition's) passed the check together, unless a write of
\* the cooldown was lost.
SendsBounded ==
    lost = 0 => log.sent <= IF log.alone THEN 1 ELSE R + 1

=============================================================================
