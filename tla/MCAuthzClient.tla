--------------------------- MODULE MCAuthzClient ---------------------------
(***************************************************************************)
(* Small instances, for TLC, of the local enforcers: their caches, events  *)
(* and reloads, and the pages one reload reads.  A behaviour follows one   *)
(* of the two; focus says which.                                           *)
(***************************************************************************)
EXTENDS AuthzClient, PolicyPages, TLC

VARIABLE focus

clientVars == <<vars, pageVars, focus>>

\* No role has grants to begin with: which ones do matters to no lookup.
ClientInit ==
    /\ Init /\ PagesInit
    /\ grants = {}
    /\ focus \in {"caches", "pages"}
    /\ focus = "pages" => truth = {} /\ \A q \in Requests : req[q].at \in Reloading

ClientNext ==
    /\ \/ focus = "caches" /\ Next /\ UNCHANGED pageVars
       \/ focus = "pages" /\ PagesNext /\ UNCHANGED vars
    /\ UNCHANGED focus

ClientSpec == ClientInit /\ [][ClientNext]_clientVars

\* A reload is under way, or has left links behind, beside replicas that cache
\* nothing; and two calls overlap only where neither is the case and nothing but
\* the membership has changed.
Reloads(r) == loads[r] # {} \/ ~Unlocked(r) \/ dropped[r] # {}

Within ==
    /\ \A r, s \in Replicas : r # s /\ Reloads(r) => ~cache[s].cached
    /\ \/ \A q1, q2 \in Requests : At(q1, "idle") \/ At(q2, "idle") \/ q1 = q2
       \/ /\ \A r \in Replicas : ~Reloads(r)
          /\ ~deleted /\ grants = {} /\ recent = {truth}

Symmetry ==
    Permutations(Requests) \union Permutations(Roles) \union Permutations(PolicyRoles) \union Permutations(Permissions)

-----------------------------------------------------------------------------
(***************************************************************************)
(* The state of the caches and of the paged reload is well-formed.         *)
(***************************************************************************)
TypesOK == TypeOK /\ PagesTypeOK

=============================================================================
