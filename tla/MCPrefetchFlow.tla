--------------------------- MODULE MCPrefetchFlow ---------------------------
(***************************************************************************)
(* TLC instance of PrefetchFlow: sparse and dense blocks in turn.          *)
(***************************************************************************)
EXTENDS PrefetchFlow

SparseAndDense == [h \in 1..LastBlock |-> IF h % 3 = 2 THEN 3 ELSE 1]
\* Block 5 outweighs the admission size.
OneOversized == [h \in 1..LastBlock |-> IF h = 5 THEN 9 ELSE IF h % 3 = 2 THEN 2 ELSE 1]
=============================================================================
