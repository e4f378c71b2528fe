---------------------------- MODULE MCNoteLedger ----------------------------
(***************************************************************************)
(* TLC instance of NoteLedger: one note received, which this wallet may    *)
(* spend with or without change, and another device of the same seed too.  *)
(***************************************************************************)
EXTENDS NoteLedger

CONSTANTS First, Change, Receive, Pay, Sweep

TwoNotes == {First, Change}
ThreeTxs == {Receive, Pay, Sweep}
Outs == [t \in ThreeTxs |-> IF t = Receive THEN {First} ELSE IF t = Pay THEN {Change} ELSE {}]
Ins == [t \in ThreeTxs |-> IF t = Receive THEN {} ELSE {First}]
=============================================================================
