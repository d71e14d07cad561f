------------------------------ MODULE MCOutbox ------------------------------
(***************************************************************************)
(* Small instances of Outbox for TLC.                                      *)
(***************************************************************************)
EXTENDS Outbox, TLC

\* Lease ids and relays are interchangeable; events are not (Delivery names them).
Symmetry == Permutations(LeaseIds) \union Permutations(Relays)

=============================================================================
