-------------------------- MODULE MCVerificationLoop --------------------------
(* Small instances of VerificationLoop: builds of one node, and repairs. *)
EXTENDS VerificationLoop

CONSTANT c1

=============================================================================
