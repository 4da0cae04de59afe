-------------------------- MODULE MCDispatchBroker --------------------------
(* A small instance of DispatchBroker for TLC. *)
EXTENDS DispatchBroker, TLC

CONSTANTS first, second

TwoInvocations == {first, second}
Symmetry == Permutations(TwoInvocations)
=============================================================================
