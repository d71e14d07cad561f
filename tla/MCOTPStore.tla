----------------------------- MODULE MCOTPStore -----------------------------
(***************************************************************************)
(* Small instances of OTPStore for TLC.                                    *)
(***************************************************************************)
EXTENDS OTPStore, TLC

Symmetry == Permutations(Requests)

=============================================================================
