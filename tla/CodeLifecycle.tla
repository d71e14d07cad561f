--------------------------- MODULE CodeLifecycle ---------------------------
(***************************************************************************)
(* What the authorization code grant promises of one authorization, with   *)
(* no store, consent table or concurrent call: it is allowed at most once, *)
(* by a decision or by an earlier consent, becomes at most one code, the   *)
(* code is claimed at most once and pays out tokens at most once, and      *)
(* whatever is closed stays closed.                                        *)
(***************************************************************************)
EXTENDS Naturals

CONSTANT Auths

VARIABLES
    stage,    \* where each authorization is
    payouts   \* how often tokens were minted for it

vars == <<stage, payouts>>

Stages == {"none", "asked", "allowed", "coded", "claimed", "paid", "closed"}

Init ==
    /\ stage = [a \in Auths |-> "none"]
    /\ payouts = [a \in Auths |-> 0]

Move(a, from, to) ==
    /\ stage[a] \in from
    /\ stage' = [stage EXCEPT ![a] = to]

\* The consent screen opens.
Ask(a) == Move(a, {"none"}, "asked") /\ UNCHANGED payouts

\* The user approves, or had already consented to what is requested.
Allow(a) == Move(a, {"none", "asked"}, "allowed") /\ UNCHANGED payouts

CreateCode(a) == Move(a, {"allowed"}, "coded") /\ UNCHANGED payouts

Claim(a) == Move(a, {"coded"}, "claimed") /\ UNCHANGED payouts

Pay(a) ==
    /\ Move(a, {"claimed"}, "paid")
    /\ payouts' = [payouts EXCEPT ![a] = @ + 1]

\* Denied, refused, expired or failed.
Close(a) ==
    /\ Move(a, {"none", "asked", "allowed", "coded", "claimed"}, "closed")
    /\ UNCHANGED payouts

Next == \E a \in Auths :
    Ask(a) \/ Allow(a) \/ CreateCode(a) \/ Claim(a) \/ Pay(a) \/ Close(a)

Spec == Init /\ [][Next]_vars

=============================================================================
