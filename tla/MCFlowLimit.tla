---------------------------- MODULE MCFlowLimit ----------------------------
(* Small instances of FlowLimit for TLC. *)
EXTENDS FlowLimit, TLC

\* Sound for the invariants only.
Symmetry == Permutations(Handlers) \cup Permutations(Keys)
=============================================================================
