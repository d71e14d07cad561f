----------------------------- MODULE LoginFlow -----------------------------
(***************************************************************************)
(* Logging in and linking identities: StartLogin and ContinueLogin of      *)
(* internal/authn/grpc/session.go, with the transitions of                 *)
(* internal/authn/kv/transition_store.go, the methods of                   *)
(* internal/identity/method, the user resolver and the identity stores.    *)
(* Each call of the key-value store or the database is a step, and a       *)
(* transaction is two: its reads, and its last insert with the commit.     *)
(*                                                                         *)
(* A subject is what identifies a person to a provider: an email address,  *)
(* the subject of a federated provider or a passkey credential.            *)
(***************************************************************************)
EXTENDS Naturals, FiniteSets, Sequences

CONSTANTS
    Emails, Federated, Passkeys,
    EmailClaim,           \* the email address in the claims of a federated subject
    Transitions, Logins,  \* login challenges; concurrent calls of ContinueLogin
    maxAuthAttempts,
    MaxUsers, MaxSessions \* bounds: accounts and sessions ever created

ASSUME LoginAssumption ==
    /\ Emails \intersect Federated = {}
    /\ Emails \intersect Passkeys = {}
    /\ Federated \intersect Passkeys = {}
    /\ Emails \union Federated \union Passkeys # {}
    /\ EmailClaim \in [Federated -> Emails]
    /\ IsFiniteSet(Logins)
    /\ maxAuthAttempts \in Nat \ {0}
    /\ MaxUsers \in Nat /\ MaxSessions \in Nat

VARIABLES
    users,       \* user_refs: the accounts are 1..users
    identities,  \* user_identities, each with its row of the method's table
    primary,     \* the user_emails rows with is_primary
    transition,  \* the transitions in the key-value store
    login,       \* the calls of ContinueLogin
    sessions     \* the sessions issued, see SessionIssuer

loginVars == <<users, identities, primary, transition, login, sessions>>

accounts == <<users, identities, primary>>

-----------------------------------------------------------------------------
Subjects == Emails \union Federated \union Passkeys

Accounts == 1..MaxUsers

\* No account, no session, no transition.
None == 0

\* by: OperationUserID.  attempts: the counter under its own key, which may
\* outlive the transition.  proof: a valid proof of the subject is at hand.
\* failures counts the proofs that failed (history), until a call that had to
\* count or to delete failed on the way (faulty).
Transition ==
    [open: BOOLEAN, intent: {"login", "link", "reauth"}, subject: Subjects,
     by: Accounts \union {None}, attempts: 0..maxAuthAttempts, proof: BOOLEAN, failures: Nat, faulty: BOOLEAN]

\* wire: the session in the authorization header; intent, by: read with the
\* transition; user: resolved so far; hasPrimary: read in LinkIdentity.
Login ==
    [pc: {"idle", "prove", "count", "increment", "drop", "close", "take", "taken", "shut",
          "find", "resolve", "create", "validate", "link", "commit", "revoke", "issue"},
     t: Transitions \union {None}, wire: 0..MaxSessions, subject: Subjects,
     intent: {"login", "link", "reauth"}, by: Accounts \union {None},
     user: Accounts \union {None}, hasPrimary: BOOLEAN]

LoggedIn == [user: Accounts, subject: Subjects, live: BOOLEAN]

Closed == [open |-> FALSE, intent |-> "login", subject |-> CHOOSE s \in Subjects : TRUE,
           by |-> None, attempts |-> 0, proof |-> FALSE, failures |-> 0,
           faulty |-> FALSE]

NoLogin == [pc |-> "idle", t |-> None, wire |-> None,
            subject |-> CHOOSE s \in Subjects : TRUE, intent |-> "login", by |-> None,
            user |-> None, hasPrimary |-> FALSE]

LoginTypeOK ==
    /\ users \in 0..MaxUsers
    /\ identities \subseteq [user: 1..users, subject: Subjects]
    /\ primary \subseteq {s \in Emails : \E i \in identities : i.subject = s}
    /\ transition \in [Transitions -> Transition]
    /\ login \in [Logins -> Login]
    /\ sessions \in Seq(LoggedIn)

LoginInit ==
    /\ users = 0
    /\ identities = {}
    /\ primary = {}
    /\ transition = [t \in Transitions |-> Closed]
    /\ login = [c \in Logins |-> NoLogin]
    /\ sessions = <<>>

-----------------------------------------------------------------------------
LoginAt(c, pc) == login[c].pc = pc

LoginGoto(c, pc) == login' = [login EXCEPT ![c].pc = pc]

LoginReturn(c) == login' = [login EXCEPT ![c] = NoLogin]

\* The call may still read or write its transition.
OnTransition(c) ==
    login[c].pc \in {"prove", "count", "increment", "drop", "close", "take", "taken", "shut"}

\* The transition without the data that is gone with its key.
Gone(t) == [Closed EXCEPT !.attempts = transition[t].attempts,
                          !.failures = transition[t].failures,
                          !.faulty = transition[t].faulty]

Owners(s) == {i.user : i \in {j \in identities : j.subject = s}}

\* ResolveSessionToken of a wire token, or no token at all.
Valid(wire) == wire # None => sessions[wire].live

\* StartLogin: linking and re-authentication need a session.  The key is a new
\* one, so a transition that is gone and that no call holds is used again.  An
\* email is sent a code, a federated provider asked; a passkey registration is
\* the only way for a passkey to be linked.
StartLogin(t, intent, s, wire) ==
    /\ ~transition[t].open
    /\ \A c \in Logins : OnTransition(c) => login[c].t # t
    /\ Valid(wire)
    /\ intent = "login" <=> wire = None
    /\ transition' = [transition EXCEPT ![t] =
          [Closed EXCEPT !.open = TRUE, !.intent = intent, !.subject = s, !.proof = TRUE,
                         !.by = IF wire = None THEN None ELSE sessions[wire].user]]
    /\ UNCHANGED <<accounts, login, sessions>>

\* A resend of the code, or a second authorization at the federated provider.
Renew(t) ==
    /\ transition[t].open /\ ~transition[t].proof
    /\ transition' = [transition EXCEPT ![t].proof = TRUE]
    /\ UNCHANGED <<accounts, login, sessions>>

\* The transition reaches its TTL, and its counter with it.
TransitionExpires(t) ==
    /\ transition[t].open
    /\ transition' = [transition EXCEPT ![t] = [Gone(t) EXCEPT !.attempts = 0]]
    /\ UNCHANGED <<accounts, login, sessions>>

\* ContinueLogin up to verifyProof.
ContinueLogin(c, t, wire) ==
    /\ LoginAt(c, "idle")
    /\ transition[t].open
    /\ Valid(wire)
    /\ transition[t].intent # "login" =>
          wire # None /\ sessions[wire].user = transition[t].by
    /\ login' = [login EXCEPT ![c] =
          [NoLogin EXCEPT !.pc = "prove", !.t = t, !.wire = wire,
                          !.subject = transition[t].subject]]
    /\ UNCHANGED <<accounts, transition, sessions>>

\* A proof verifies: VerifyOTP and the federated provider take a code once, a
\* passkey's response verifies as often as it is sent, for a credential that is
\* registered unless this is its registration.
Proves(c) ==
    LET t == login[c].t
    IN  /\ transition[t].proof
        /\ login[c].subject \in Passkeys =>
              transition[t].intent = "link" \/ Owners(login[c].subject) # {}

\* idm.Continue: the transition is gone; the proof verifies; it fails; or it is
\* not one of this method and the transition goes.
Prove(c) ==
    LET t == login[c].t
    IN  /\ LoginAt(c, "prove")
        /\ \/ /\ ~transition[t].open
              /\ LoginReturn(c)
              /\ UNCHANGED transition
           \/ /\ transition[t].open /\ Proves(c)
              /\ LoginGoto(c, "take")
              /\ transition' =
                    [transition EXCEPT ![t].proof = login[c].subject \in Passkeys]
           \/ /\ transition[t].open
              /\ LoginGoto(c, "count")
              /\ transition' = [transition EXCEPT ![t].failures =
                    IF transition[t].faulty THEN @ ELSE @ + 1]
           \/ /\ transition[t].open
              /\ LoginGoto(c, "drop")
              /\ UNCHANGED transition
        /\ UNCHANGED <<accounts, sessions>>

-----------------------------------------------------------------------------
\* IncrementAttempts, the TTL of the transition.
CountAttempt(c) ==
    /\ LoginAt(c, "count")
    /\ IF transition[login[c].t].open THEN LoginGoto(c, "increment") ELSE LoginReturn(c)
    /\ UNCHANGED <<accounts, transition, sessions>>

\* Mutant of TooMany: one attempt more.
TooManyLater(attempts) == attempts > maxAuthAttempts

TooMany(attempts) == attempts >= maxAuthAttempts

\* IncrementAttempts, the counter, and what handleFailureStep makes of it.  The
\* model stops counting at maxAuthAttempts: beyond it nothing tells values apart.
IncrementAttempts(c) ==
    LET t == login[c].t
    IN  /\ LoginAt(c, "increment")
        /\ transition' = [transition EXCEPT ![t].attempts =
              IF @ < maxAuthAttempts THEN @ + 1 ELSE @]
        /\ IF TooMany(transition[t].attempts + 1) THEN LoginGoto(c, "drop") ELSE LoginReturn(c)
        /\ UNCHANGED <<accounts, sessions>>

\* Delete of the transition store: the counter first ...
DeleteAttempts(c) ==
    /\ LoginAt(c, "drop") \/ LoginAt(c, "taken")
    /\ transition' = [transition EXCEPT ![login[c].t].attempts = 0]
    /\ LoginGoto(c, IF LoginAt(c, "drop") THEN "close" ELSE "shut")
    /\ UNCHANGED <<accounts, sessions>>

\* ... then the transition; the errors of both are ignored.
DeleteTransition(c) ==
    /\ LoginAt(c, "close") \/ LoginAt(c, "shut")
    /\ transition' = [transition EXCEPT ![login[c].t] = Gone(login[c].t)]
    /\ IF LoginAt(c, "close") THEN LoginReturn(c) ELSE LoginGoto(c, "find")
    /\ UNCHANGED <<accounts, sessions>>

-----------------------------------------------------------------------------
\* handleVerifiedStep, Get of the transition, which another call may have deleted.
TakeTransition(c) ==
    LET t == login[c].t
    IN  /\ LoginAt(c, "take")
        /\ IF transition[t].open
           THEN login' = [login EXCEPT ![c] =
                   [@ EXCEPT !.pc = "taken", !.intent = transition[t].intent,
                             !.by = transition[t].by]]
           ELSE LoginReturn(c)
        /\ UNCHANGED <<accounts, transition, sessions>>

\* FindUser, and the choice resolveUserID makes.
FindUser(c) ==
    LET owners == Owners(login[c].subject)
        found == IF owners = {} THEN None ELSE CHOOSE u \in owners : TRUE
    IN  /\ LoginAt(c, "find")
        /\ login' = [login EXCEPT ![c] =
              [NoLogin EXCEPT
                 !.wire = login[c].wire, !.subject = login[c].subject,
                 !.user = IF login[c].intent = "link" THEN login[c].by ELSE found,
                 !.pc = IF login[c].intent = "link" THEN "validate"
                        ELSE IF owners = {} THEN "resolve" ELSE "revoke"]]
        /\ UNCHANGED <<accounts, transition, sessions>>

\* ValidateLink: an identity that exists is not linked again.
ValidateLink(c) ==
    /\ LoginAt(c, "validate")
    /\ IF Owners(login[c].subject) = {} THEN LoginGoto(c, "link") ELSE LoginReturn(c)
    /\ UNCHANGED <<accounts, transition, sessions>>

\* ResolveUser by the email address of the claims; a passkey has none.
ResolveUser(c) ==
    LET s == login[c].subject
        email == IF s \in Federated THEN EmailClaim[s] ELSE s
    IN  /\ LoginAt(c, "resolve")
        /\ login' = [login EXCEPT ![c] =
              CASE s \in Passkeys -> NoLogin
                [] s \notin Passkeys /\ Owners(email) = {} -> [@ EXCEPT !.pc = "create"]
                [] OTHER -> [@ EXCEPT !.pc = "link", !.user = CHOOSE u \in Owners(email) : TRUE]]
        /\ UNCHANGED <<accounts, transition, sessions>>

\* CreateProfile of the profile service, and the user_refs row.
CreateUser(c) ==
    /\ LoginAt(c, "create")
    /\ users < MaxUsers
    /\ users' = users + 1
    /\ login' = [login EXCEPT ![c] = [@ EXCEPT !.pc = "link", !.user = users + 1]]
    /\ UNCHANGED <<identities, primary, transition, sessions>>

-----------------------------------------------------------------------------
Identity(c) == [user |-> login[c].user, subject |-> login[c].subject]

\* LinkIdentity: the user_identities row, unique for the user and the subject (an
\* insert waits for the transaction that holds the key), and, for an email, the
\* question whether the user has a primary one.
BeginLink(c) ==
    /\ LoginAt(c, "link")
    /\ \A d \in Logins : LoginAt(d, "commit") => Identity(d) # Identity(c)
    /\ IF Identity(c) \in identities
       THEN LoginReturn(c)
       ELSE login' = [login EXCEPT ![c] =
               [@ EXCEPT !.pc = "commit",
                         !.hasPrimary = \E s \in primary : login[c].user \in Owners(s)]]
    /\ UNCHANGED <<accounts, transition, sessions>>

\* Mutant of Taken: only the unique key of user_identities.
TakenByUser(c) == Identity(c) \in identities

\* The unique key of the method's own table (email, provider and subject,
\* credential id): ErrIdentityAlreadyLinked, and the transaction rolls back.
Taken(c) == Owners(login[c].subject) # {}

\* LinkIdentity: the row of the method's table, and the commit.
CommitLink(c) ==
    /\ LoginAt(c, "commit")
    /\ IF Taken(c)
       THEN LoginReturn(c) /\ UNCHANGED <<identities, primary>>
       ELSE /\ identities' = identities \union {Identity(c)}
            /\ primary' = IF login[c].subject \in Emails /\ ~login[c].hasPrimary
                          THEN primary \union {login[c].subject}
                          ELSE primary
            /\ login' = [login EXCEPT ![c] = [@ EXCEPT !.pc = "revoke", !.hasPrimary = FALSE]]
    /\ UNCHANGED <<users, transition, sessions>>

\* The session the call came with is revoked; an error is ignored.
RevokeWire(c) ==
    /\ LoginAt(c, "revoke")
    /\ sessions' = IF login[c].wire = None
                   THEN sessions
                   ELSE [sessions EXCEPT ![login[c].wire].live = FALSE]
    /\ LoginGoto(c, "issue")
    /\ UNCHANGED <<accounts, transition>>

\* CreateSession.
IssueSession(c) ==
    /\ LoginAt(c, "issue")
    /\ Len(sessions) < MaxSessions
    /\ sessions' = Append(sessions, [user |-> login[c].user, subject |-> login[c].subject,
                                     live |-> TRUE])
    /\ LoginReturn(c)
    /\ UNCHANGED <<accounts, transition>>

\* A store, the database or the profile service fails, or the process stops: the
\* call goes no further.
LoginFails(c) ==
    /\ ~LoginAt(c, "idle")
    /\ LoginReturn(c)
    /\ transition' =
          IF login[c].pc \in {"count", "increment", "drop", "close", "shut"}
          THEN [transition EXCEPT ![login[c].t].faulty = TRUE]
          ELSE transition
    /\ UNCHANGED <<accounts, sessions>>

\* An error of Delete or of RevokeSessionToken is ignored.
ErrorIgnored(c) ==
    /\ \/ LoginAt(c, "drop") /\ LoginGoto(c, "close")
       \/ LoginAt(c, "taken") /\ LoginGoto(c, "shut")
       \/ LoginAt(c, "shut") /\ LoginGoto(c, "find")
       \/ LoginAt(c, "revoke") /\ LoginGoto(c, "issue")
    /\ transition' = IF LoginAt(c, "shut")
                     THEN [transition EXCEPT ![login[c].t].faulty = TRUE]
                     ELSE transition
    /\ UNCHANGED <<accounts, sessions>>

-----------------------------------------------------------------------------
LoginSteps ==
    \/ \E t \in Transitions, intent \in {"login", "link", "reauth"}, s \in Subjects,
          wire \in {None} \union DOMAIN sessions : StartLogin(t, intent, s, wire)
    \/ \E c \in Logins :
          \/ \E t \in Transitions, wire \in {None} \union DOMAIN sessions :
                ContinueLogin(c, t, wire)
          \/ Prove(c) \/ CountAttempt(c) \/ IncrementAttempts(c)
          \/ DeleteAttempts(c) \/ DeleteTransition(c)
          \/ TakeTransition(c) \/ FindUser(c) \/ ValidateLink(c)
          \/ ResolveUser(c) \/ CreateUser(c) \/ BeginLink(c) \/ CommitLink(c)
          \/ RevokeWire(c) \/ IssueSession(c)

\* What happens between the steps of the calls: new proofs, time and failures.
LoginEvents ==
    \/ \E t \in Transitions : Renew(t) \/ TransitionExpires(t)
    \/ \E c \in Logins : LoginFails(c) \/ ErrorIgnored(c)

LoginNext == LoginSteps \/ LoginEvents

LoginSpec == LoginInit /\ [][LoginNext]_loginVars

-----------------------------------------------------------------------------
(***************************************************************************)
(* A session is the session of the one account that owns the identity that *)
(* was proven for it, whatever first logins and links of that identity,    *)
(* by the same person or by several, ran at the same time.                 *)
(***************************************************************************)
SessionForOwner ==
    \A n \in DOMAIN sessions : Owners(sessions[n].subject) = {sessions[n].user}

(***************************************************************************)
(* However the calls on a transition interleave, and whatever they delete  *)
(* under each other, the proofs that fail on it stay bounded.              *)
(***************************************************************************)
FailuresBounded ==
    \A t \in Transitions :
        transition[t].failures <= Cardinality(Logins) * maxAuthAttempts

=============================================================================
