---------------------------- MODULE MCSealedStore ----------------------------
(***************************************************************************)
(* Two processes that may overlap: one daemon starts while another runs.   *)
(***************************************************************************)
EXTENDS SealedStore, TLC

CONSTANTS p1, p2

MCProcs == {p1, p2}
MCSymmetry == Permutations(MCProcs)

=============================================================================
