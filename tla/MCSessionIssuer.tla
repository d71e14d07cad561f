-------------------------- MODULE MCSessionIssuer --------------------------
(***************************************************************************)
(* Small instances of SessionIssuer for TLC.                               *)
(***************************************************************************)
EXTENDS SessionIssuer, TLC

Symmetry == Permutations(Requests)

=============================================================================
