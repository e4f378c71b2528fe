---------------------------- MODULE MCChainSync ----------------------------
(***************************************************************************)
(* TLC instance of ChainSync: two pools, one of them with empty blocks.    *)
(***************************************************************************)
EXTENDS ChainSync

CONSTANTS Sapling, Ironwood, OwnedHeight

TwoPools == {Sapling, Ironwood}
AllOrOdd == [p \in TwoPools |-> IF p = Sapling THEN 1..Top ELSE {h \in 1..Top : h % 2 = 1}]
OneNote == [p \in TwoPools |-> IF p = Sapling THEN {OwnedHeight} \cap (1..Top) ELSE {}]
=============================================================================
