---------------------------- MODULE MCOrgMembers ----------------------------
(***************************************************************************)
(* Small instances of OrgMembers for TLC.                                  *)
(***************************************************************************)
EXTENDS OrgMembers, TLC

\* RoleOwner is the one name that is told apart.
Symmetry == Permutations(Users) \union Permutations(Roles) \union Permutations(Calls)
                \union Permutations(Names \ {RoleOwner})

\* The rules of one user.
WatchedRules == {<<CHOOSE u \in Users : TRUE, n>> : n \in Names}

=============================================================================
