------------------------------ MODULE MCTokens ------------------------------
(***************************************************************************)
(* Small instances, for TLC, of the two halves of the token endpoint: the  *)
(* authorization code up to the first refresh token, and the rotation of a *)
(* refresh token from there.  A behaviour follows one of them; focus says  *)
(* which.                                                                  *)
(***************************************************************************)
EXTENDS RefreshTokens, AuthorizationCode, TLC

VARIABLE focus

tokenVars == <<vars, codeVars, focus>>

TokensInit == Init /\ CodeInit /\ focus \in {"rotation", "code"}

TokensNext ==
    /\ \/ focus = "rotation" /\ Next /\ UNCHANGED codeVars
       \/ focus = "code" /\ CodeNext /\ UNCHANGED vars
    /\ UNCHANGED focus

TokensSpec == TokensInit /\ [][TokensNext]_tokenVars

\* The calls of both halves are the same.
Symmetry == Permutations(Tokens) \union Permutations(Requests)

-----------------------------------------------------------------------------
(***************************************************************************)
(* The rows and calls of the rotation and of the authorization code flow   *)
(* are well-formed.                                                        *)
(***************************************************************************)
TypesOK == TypeOK /\ CodeTypeOK

=============================================================================
