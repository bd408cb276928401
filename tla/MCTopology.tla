------------------------------ MODULE MCTopology ------------------------------
(* Topology for TLC. *)
EXTENDS Topology, TLC

CONSTANTS a, b, c, d  \* addresses of Deployments

INSTANCE Deployments

SlotSymmetry == Permutations(Slots)
=============================================================================
