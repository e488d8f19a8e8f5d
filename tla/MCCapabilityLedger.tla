-------------------------- MODULE MCCapabilityLedger --------------------------
(* Instances of CapabilityLedger for TLC. *)
EXTENDS CapabilityLedger, TLC

\* One content is like another.
Symmetry == Permutations(Contents)
=============================================================================
