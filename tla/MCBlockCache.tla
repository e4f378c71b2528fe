---------------------------- MODULE MCBlockCache ----------------------------
(***************************************************************************)
(* TLC instance of BlockCache: an old wallet and one created later.        *)
(***************************************************************************)
EXTENDS BlockCache, TLC

CONSTANTS Old, New
BirthdayOf == (Old :> 1) @@ (New :> 3)
Legacy == {{1, 2}}
=============================================================================
