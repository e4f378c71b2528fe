--------------------------- MODULE MCSpendability ----------------------------
(* Small instances of SpendabilitySync for TLC: two pools, a birthday at the *)
(* first block and a chain of a few blocks.                                  *)
EXTENDS SpendabilitySync, TLC

CONSTANTS sapling, ironwood
MCPools == {sapling, ironwood}

\* The two pools play the same part in every statement.
PoolSymmetry == Permutations(MCPools)
=============================================================================
