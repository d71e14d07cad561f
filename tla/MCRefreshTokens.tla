-------------------------- MODULE MCRefreshTokens --------------------------
(***************************************************************************)
(* Small instances of RefreshTokens for TLC.                               *)
(***************************************************************************)
EXTENDS RefreshTokens, TLC

Symmetry == Permutations(Tokens) \union Permutations(Requests)

=============================================================================
