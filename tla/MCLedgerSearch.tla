--------------------------- MODULE MCLedgerSearch ---------------------------
(***************************************************************************)
(* TLC instance of NoteLedger (one note received, which this wallet may    *)
(* spend with or without change, and another device of the same seed too)  *)
(* and, side by side with it, of the ancestor search, which the ledger's   *)
(* rollback takes as one step.  They share no state, so each is explored   *)
(* while the other rests.  The actions are listed one by one so that TLC   *)
(* counts the steps of each.                                               *)
(***************************************************************************)
EXTENDS MCNoteLedger, AncestorSearch

CONSTANT MaxEvents   \* bound: runs, repairs, reorganisations, faults and payments together

VARIABLE part   \* the one that is explored

InLedger == part = "ledger"
InSearch == part = "search"

\* A payment of our own, with the steps that record it, counts as two events.
Paid == IF DOMAIN plans \cup DOMAIN pool = {} THEN 0 ELSE 2
Events == runs + repairs + branch - 1 + faults + Paid
OnlyLedger == UNCHANGED <<part, searchVars>> /\ Events' <= MaxEvents
OnlySearch == UNCHANGED <<part, vars>>

\* One initial state of a part at rest stands for all.
LedgerInit ==
    /\ Init /\ SearchInit
    /\ part \in {"ledger", "search"}
    /\ part # "search" => shared = 0
LedgerNext ==
    \/ InLedger /\ Mine /\ OnlyLedger
    \/ InLedger /\ Reorg /\ OnlyLedger
    \/ InLedger /\ StartRun /\ OnlyLedger
    \/ InLedger /\ Rescan /\ OnlyLedger
    \/ InLedger /\ Repair /\ OnlyLedger
    \/ InLedger /\ Fetch /\ OnlyLedger
    \/ InLedger /\ BoundaryReorg /\ OnlyLedger
    \/ InLedger /\ MonitorReorg /\ OnlyLedger
    \/ InLedger /\ Persist /\ OnlyLedger
    \/ InLedger /\ ApplySpends /\ OnlyLedger
    \/ InLedger /\ ApplySpendsFails /\ OnlyLedger
    \/ InLedger /\ Save /\ OnlyLedger
    \/ InLedger /\ StopRun /\ OnlyLedger
    \/ InLedger /\ BuildTx /\ OnlyLedger
    \/ InLedger /\ SignTx /\ OnlyLedger
    \/ InLedger /\ Broadcast /\ OnlyLedger
    \/ InLedger /\ AnswerLost /\ OnlyLedger
    \/ InLedger /\ RecordMark /\ OnlyLedger
    \/ InLedger /\ RecordIntent /\ OnlyLedger
    \/ InLedger /\ RecordFails /\ OnlyLedger
    \/ InLedger /\ ReleaseExpired /\ OnlyLedger
    \/ InLedger /\ Crash /\ OnlyLedger
    \/ InSearch /\ BeginSearch /\ OnlySearch
    \/ InSearch /\ Probe /\ OnlySearch
    \/ InSearch /\ Halve /\ OnlySearch
    \/ InSearch /\ HalveDone /\ OnlySearch
    \/ InSearch /\ Walk /\ OnlySearch
    \/ InSearch /\ WalkDone /\ OnlySearch
    \/ InSearch /\ SearchFails /\ OnlySearch
    \/ InSearch /\ Fork /\ OnlySearch
LedgerSpec == LedgerInit /\ [][LedgerNext]_<<part, vars, searchVars>>
=============================================================================
