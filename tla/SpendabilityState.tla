-------------------------- MODULE SpendabilityState --------------------------
(***************************************************************************)
(* The durable tables that decide whether a wallet may spend, and the SQL  *)
(* statements that update them: the single `spendability_state` row, the   *)
(* `scan_queue` (FoundNote repair rows and the historic row), and the      *)
(* commitment-tree checkpoints the spend anchor is snapped to.             *)
(*                                                                         *)
(* Every operator here is one statement (or one read) of the storage       *)
(* crate: it takes the value of a table and returns the new value.  The    *)
(* module has no variables; SpendabilitySync runs the statements.          *)
(*                                                                         *)
(* `reason_code` and `updated_at` are left out: the public status          *)
(* recomputes the reason, every statement that stores `spendable` stores   *)
(* the reason OK with it, and no control decision reads the timestamp.     *)
(***************************************************************************)
EXTENDS Integers, FiniteSetsExt

CONSTANTS
    Pools,      \* shielded pools that own a commitment tree (Sapling, Ironwood)
    Birthday,   \* get_wallet_birthday_height: the account's lowest key birthday
    MinConf     \* SPENDABILITY_MIN_CONFIRMATIONS

ASSUME PoolsAssumption == IsFiniteSet(Pools) /\ Pools # {}
ASSUME BirthdayAssumption == Birthday \in Nat \ {0}
ASSUME MinConfAssumption == MinConf \in Nat

AtLeast(a, b) == IF a >= b THEN a ELSE b
AtMost(a, b) == IF a <= b THEN a ELSE b
\* u64::saturating_sub
Minus(a, b) == IF a >= b THEN a - b ELSE 0
\* `CASE WHEN old > 0 AND old < new THEN old ELSE new END`
MinNonZero(old, new) == IF old > 0 /\ old < new THEN old ELSE new

-----------------------------------------------------------------------------
(* The spendability_state row *)

Row == [spendable : BOOLEAN, rescan_required : BOOLEAN, required : Nat,
        generation : Nat, target : Nat, anchor : Nat, validated : Nat,
        repair_queued : BOOLEAN, repair_from : Nat, interrupted : BOOLEAN]

\* A new wallet starts behind the rescan gate.
DefaultRow ==
    [spendable |-> FALSE, rescan_required |-> TRUE, required |-> 0,
     generation |-> 0, target |-> 0, anchor |-> 0, validated |-> 0,
     repair_queued |-> FALSE, repair_from |-> 0, interrupted |-> FALSE]

\* An imported key's history is still owed: required_rescan_from_height > 0.
ReplayOwed(r) == r.required > 0

\* Mutant: a newly verified tip also moves the spend anchor.
RecordKnownSyncHeightMovesAnchor(r, h) ==
    [r EXCEPT !.target = AtLeast(@, h), !.anchor = AtLeast(@, h)]

RecordKnownSyncHeight(r, h) ==
    IF h = 0 THEN r
    ELSE [r EXCEPT !.target = AtLeast(@, h),
                   !.anchor = IF @ = 0 THEN h ELSE @]

\* Mutant: the interruption latch survives into the rescan.
BeginRescanKeepsLatch(r, target, anchor) ==
    [r EXCEPT !.spendable = FALSE, !.rescan_required = TRUE,
              !.target = AtLeast(@, target), !.anchor = anchor,
              !.repair_queued = FALSE, !.repair_from = 0]

BeginRescan(r, target, anchor) ==
    [r EXCEPT !.spendable = FALSE, !.rescan_required = TRUE,
              !.target = AtLeast(@, target), !.anchor = anchor,
              !.repair_queued = FALSE, !.repair_from = 0,
              !.interrupted = FALSE]

MarkSyncInterrupted(r) == [r EXCEPT !.spendable = FALSE, !.interrupted = TRUE]

MarkRescanRequired(r) ==
    [r EXCEPT !.spendable = FALSE, !.rescan_required = TRUE,
              !.repair_queued = FALSE, !.repair_from = 0]

\* The gate opens only for the import generation the replay was planned for
\* and only if the replay began at or below the required height.
ReplayEligible(r, generation, from) ==
    /\ r.rescan_required
    /\ r.required > 0
    /\ r.generation = generation
    /\ from <= r.required

\* Mutant: a completed replay is taken for a validated anchor.
CompleteRequiredRescanValidates(r, generation, from) ==
    IF ~ReplayEligible(r, generation, from) THEN r
    ELSE [r EXCEPT !.rescan_required = FALSE, !.required = 0, !.validated = r.anchor]

CompleteRequiredRescan(r, generation, from) ==
    IF ~ReplayEligible(r, generation, from) THEN r
    ELSE [r EXCEPT !.spendable = ~r.repair_queued /\ r.anchor > 0
                                                  /\ r.validated >= r.anchor,
                   !.rescan_required = FALSE, !.required = 0]

\* Mutant: finalizing always opens the rescan gate.
MarkSyncFinalizingOpensGate(r, target, anchor) ==
    [r EXCEPT !.spendable = FALSE, !.rescan_required = FALSE,
              !.target = target, !.anchor = anchor]

\* Mutant: finalizing releases the interruption latch.
MarkSyncFinalizingReleases(r, target, anchor) ==
    [r EXCEPT !.spendable = FALSE, !.rescan_required = ReplayOwed(r),
              !.target = target, !.anchor = anchor, !.interrupted = FALSE]

MarkSyncFinalizing(r, target, anchor) ==
    [r EXCEPT !.spendable = FALSE, !.rescan_required = ReplayOwed(r),
              !.target = target, !.anchor = anchor]

MarkValidated(r, target, anchor) ==
    [r EXCEPT !.spendable = ~ReplayOwed(r), !.rescan_required = ReplayOwed(r),
              !.target = target, !.anchor = anchor, !.validated = anchor,
              !.repair_queued = FALSE, !.repair_from = 0,
              !.interrupted = FALSE]

\* mark_repair_pending_without_enqueue, and the UPDATE of queue_repair_range
MarkRepairPending(r, from) ==
    [r EXCEPT !.spendable = FALSE, !.rescan_required = ReplayOwed(r),
              !.repair_queued = TRUE,
              !.repair_from = MinNonZero(@, AtLeast(from, 1))]

\* Mutant: a later import overwrites the replay floor of an earlier one.
ImportGateOverwrites(r, birthday) ==
    [r EXCEPT !.spendable = FALSE, !.rescan_required = TRUE,
              !.required = birthday, !.generation = @ + 1,
              !.repair_queued = FALSE, !.repair_from = 0]

\* The gate an import of a spending key born at `birthday` raises.
ImportGate(r, birthday) ==
    [r EXCEPT !.spendable = FALSE, !.rescan_required = TRUE,
              !.required = MinNonZero(@, birthday),
              !.generation = @ + 1,
              !.repair_queued = FALSE, !.repair_from = 0]

\* Mutant: a rewind forgets the rescan gate.
TruncateRowOpensGate(r, h) ==
    [r EXCEPT !.spendable = FALSE, !.rescan_required = FALSE,
              !.target = AtMost(@, h), !.anchor = AtMost(@, h),
              !.validated = AtMost(@, h),
              !.repair_queued = FALSE, !.repair_from = 0]

\* The row's part of truncate_above_height
TruncateRow(r, h) ==
    [r EXCEPT !.spendable = FALSE,
              !.target = IF r.rescan_required THEN @ ELSE AtMost(@, h),
              !.anchor = AtMost(@, h), !.validated = AtMost(@, h),
              !.repair_queued = FALSE, !.repair_from = 0]

-----------------------------------------------------------------------------
(* The scan queue.  `found` is the set of FoundNote rows that are not done; *)
(* `hist` holds the merged historic row, if any.  Ranges are half open.     *)

HistRow == [start : Nat, end : Nat]
FoundRow == [start : Nat, end : Nat, status : {"pending", "in_progress"}]

Overlaps(a, b) == ~(a.end <= b.start \/ a.start >= b.end)
Covers(a, b) == a.start <= b.start /\ a.end >= b.end

\* The SELECT of queue_range: the rows that overlap the request.
QueueSelect(found, req) == {r \in found : Overlaps(r, req)}

\* The rest of queue_range, given what its SELECT returned.  Rows are deleted
\* by id, so a pending row that was activated since the SELECT goes as well.
QueueCommit(found, seen, req) ==
    LET pending == {r \in seen : r.status = "pending"}
        active == seen \ pending
        deleted == {r \in found : \/ r \in pending
                                  \/ [r EXCEPT !.status = "pending"]
                                        \in pending \ found}
        merged == [start |-> Min({req.start} \cup {r.start : r \in pending}),
                   end |-> Max({req.end} \cup {r.end : r \in pending}),
                   status |-> "pending"]
    IN IF \/ req.start >= req.end
          \/ pending = {} /\ \E r \in active : Covers(r, req)
       THEN found
       ELSE (found \ deleted) \cup {merged}

QueueRange(found, req) == QueueCommit(found, QueueSelect(found, req), req)

RecordHistoric(hist, start, end) ==
    IF start >= end THEN hist
    ELSE {[start |-> Min({start} \cup {h.start : h \in hist}),
           end |-> Max({end} \cup {h.end : h \in hist})]}

\* next_found_note_range: an in_progress row first, then the lowest start.
NextFound(found) ==
    LET active == {r \in found : r.status = "in_progress"}
        ready == IF active # {} THEN active ELSE found
    IN CHOOSE r \in ready : \A q \in ready : r.start <= q.start

MarkInProgress(found, row) ==
    (found \ {row}) \cup {[row EXCEPT !.status = "in_progress"]}

MarkFoundDoneThrough(found, end) ==
    {r \in found : ~(r.status = "in_progress" /\ r.end <= end)}

\* DELETE FROM scan_queue WHERE range_end > height + 1
TruncateQueue(rows, h) == {r \in rows : r.end <= h + 1}

-----------------------------------------------------------------------------
(* Target and anchor *)

\* Mutant: the exclusive end of the historic row is read as a scanned height.
ScanQueueExtremaInclusive(hist) ==
    {[min |-> AtLeast(h.start, 1), max |-> h.end] :
        h \in {x \in hist : x.end > x.start}}

ScanQueueExtrema(hist) ==
    {[min |-> AtLeast(h.start, 1), max |-> Minus(h.end, 1)] :
        h \in {x \in hist : x.end > x.start}}

\* snap_to_checkpoint: per pool the newest checkpoint in [floor, ceiling],
\* and the lower of the two; `ceiling` when no pool has one.
SnapToCheckpoint(cps, ceiling, floor) ==
    LET inRange(p) == {c \in cps[p] : floor <= c /\ c <= ceiling}
        newest == {Max(inRange(p)) : p \in {q \in Pools : inRange(q) # {}}}
    IN IF newest = {} THEN ceiling ELSE Min(newest)

\* get_target_and_anchor_heights_for_account: {} stands for None.
TargetAndAnchor(hist, cps) ==
    {LET target == x.max + 1
         floor == AtLeast(x.min, Birthday)
         ideal == AtLeast(Minus(target, AtLeast(MinConf, 1)), floor)
     IN [target |-> target, anchor |-> SnapToCheckpoint(cps, ideal, floor),
         ideal |-> ideal] : x \in ScanQueueExtrema(hist)}

Heights(hist, cps) ==
    {t \in TargetAndAnchor(hist, cps) : t.ideal <= t.target /\ t.anchor <= t.target}

\* The newest checkpoint both trees hold at or below h; 0 when there is none.
CommonCheckpoint(cps, h) ==
    Max({0} \cup {c \in 0..h : \A p \in Pools : c \in cps[p]})

-----------------------------------------------------------------------------
(* The public status: what the API reports and every spend path requires. *)

EpochOk(r) == r.anchor # 0 /\ r.validated >= r.anchor

PublicSpendable(r, found) ==
    /\ ~r.rescan_required
    /\ ~(r.repair_queued \/ found # {})
    /\ ~r.interrupted
    /\ EpochOk(r)

\* What remove_imported_spending_key requires of the sync state; its conditions on
\* sync_state.target_height, which is not modelled, are left out.
RemovalAllowed(r, found, local) ==
    /\ local # 0
    /\ local >= r.target
    /\ EpochOk(r)
    /\ ~r.rescan_required /\ r.required = 0
    /\ ~r.repair_queued /\ ~r.interrupted
    /\ found = {}
=============================================================================
