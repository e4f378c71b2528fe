---------------------------- MODULE MCSyncControl ----------------------------
(* Small instances of SyncControl for TLC: the concurrent callers are         *)
(* interchangeable, and each cfg chooses the operations that are called.      *)
EXTENDS SyncControl, TLC

CONSTANTS c1, c2, c3
TwoCallers == {c1, c2}
ThreeCallers == {c1, c2, c3}
CallerSymmetry == Permutations(Callers)
=============================================================================
