------------------------------ MODULE MCAuthn ------------------------------
(***************************************************************************)
(* Small instances, for TLC, of three parts of the authn service that run  *)
(* in one process and share no state: a behaviour follows one of them, and *)
(* focus says which, with which bounds.                                    *)
(***************************************************************************)
EXTENDS SessionIssuer, SigningKeys, LoginFlow, TLC

CONSTANTS m1, m2, e1, p1   \* the replicas, the email address and the passkey

VARIABLE focus

authnVars == <<vars, keyVars, loginVars, focus>>

AuthnInit ==
    /\ Init /\ KeysInit /\ LoginInit
    /\ focus \in {"session", "rotation", "replicas", "revocation", "attempts", "linking"}

\* A call that the bounds of the instance leave without a next step.
OutOfBounds(c) ==
    \/ LoginAt(c, "create") /\ users = MaxUsers
    \/ LoginAt(c, "issue") /\ Len(sessions) = MaxSessions

AuthnNext ==
    /\ \/ /\ focus = "session" /\ Next
          /\ UNCHANGED <<keyVars, loginVars>>
       \/ /\ focus \in {"rotation", "replicas", "revocation"} /\ KeysNext
          /\ UNCHANGED <<vars, loginVars>>
       \/ /\ focus = "attempts" /\ LoginNext
          /\ UNCHANGED <<vars, keyVars>>
       \/ /\ focus = "linking"
          /\ LoginSteps \/ \E c \in Logins : OutOfBounds(c) /\ LoginFails(c)
          /\ UNCHANGED <<vars, keyVars>>
    /\ UNCHANGED focus

AuthnSpec == AuthnInit /\ [][AuthnNext]_authnVars

-----------------------------------------------------------------------------
EmailOf == [f \in Federated |-> e1]

Publishing == \A c \in KeyCalls : keyCall[c].op \notin {"revoke", "verify"}

OneReplica == \A c \in KeyCalls : keyCall[c].m = m1

\* The second replica follows, and answers the gateway.
Following ==
    \A c \in KeyCalls : KeyAt(c, {"idle"})
        \/ (keyCall[c].m = m2 <=> keyCall[c].op \in {"keys", "refresh"})

\* Nobody asks for a code or a passkey again; only links bring a session.
Linking ==
    /\ \A t \in Transitions : /\ transition[t].failures = 0 /\ transition[t].subject # p1
                              /\ transition[t].intent # "reauth"
    /\ \A c \in Logins :
          /\ ~LoginAt(c, "drop")
          /\ OnTransition(c) /\ login[c].wire # None /\ transition[login[c].t].open =>
                transition[login[c].t].intent = "link"

Within ==
    CASE focus = "rotation"   -> Publishing /\ OneReplica
      [] focus = "replicas"   -> Publishing /\ Following /\ newest <= 2
      [] focus = "revocation" -> OneReplica /\ newest <= 2 /\ \A k \in Checks : check[k].pc = "idle"
      [] focus = "attempts"   ->
            /\ users <= 1 /\ Len(sessions) <= 1
            /\ Cardinality({t \in Transitions : transition[t] # Closed}) <= 1
            /\ \A t \in Transitions : transition[t].subject \notin Federated
      [] focus = "linking"    -> Linking
      [] OTHER -> TRUE

\* The calls of every part are the same two.
Symmetry == Permutations(Requests) \union Permutations(Transitions)

-----------------------------------------------------------------------------
(***************************************************************************)
(* The state of the sessions, of the signing keys and of the login flow is *)
(* well-formed.                                                            *)
(***************************************************************************)
TypesOK == TypeOK /\ KeysTypeOK /\ LoginTypeOK

=============================================================================
