------------------------------- MODULE ScanLog -------------------------------
(***************************************************************************)
(* What the commitment trees promise: the wallet keeps a log of the blocks *)
(* it has absorbed.  The log starts as a prefix of the chain the server    *)
(* shows, grows only by blocks that follow its last block, and otherwise   *)
(* only loses a suffix.  A reader who knows a log entry knows every        *)
(* commitment below it, which is what makes an anchor root meaningful.     *)
(*                                                                         *)
(* A block is identified by its height and the branch that minted it.      *)
(* lineage[b] holds the branches of the blocks below the first block of b, *)
(* so a block determines all its ancestors.                                *)
(***************************************************************************)
EXTENDS Integers, Sequences

VARIABLES
    lineage,  \* one entry per branch; the last branch is the server's chain
    tip,      \* height of the server's chain
    log       \* branch of every absorbed block, by height

Branch == Len(lineage)

\* The branch of the ancestor at height k of a block of branch b.
Ancestor(b, k) == IF k <= Len(lineage[b]) THEN lineage[b][k] ELSE b

\* The chain up to height h, seen from branch b.
ChainTo(b, h) == [k \in 1..h |-> Ancestor(b, k)]

IsPrefixOf(s, t) == Len(s) <= Len(t) /\ s = SubSeq(t, 1, Len(s))

Init == log = <<>>

\* Absorb blocks that follow the last one.
Extend ==
    \E b \in 1..Branch : \E h \in Len(log) + 1..tip :
        /\ IsPrefixOf(log, ChainTo(b, h))
        /\ log' = ChainTo(b, h)

\* Forget a suffix, or everything.
Rewind == \E h \in 0..Len(log) : log' = SubSeq(log, 1, h)

\* Start again from a tree state the server supplies.
Seed == \E h \in 1..tip : log' = ChainTo(Branch, h)

Next == Extend \/ Rewind \/ Seed

Spec == Init /\ [][Next]_log
==============================================================================
