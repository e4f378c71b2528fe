-------------------------- MODULE SpendabilitySync ---------------------------
(***************************************************************************)
(* The actors that run the statements of SpendabilityState against one     *)
(* wallet database:                                                        *)
(*                                                                         *)
(*   - the sync engine (SyncEngine::sync_range_internal and what it calls),*)
(*     run as a foreground follow-tip sync, a bounded background sync or a *)
(*     bounded rescan;                                                     *)
(*   - the rescan controller, which rewinds the database statement by      *)
(*     statement before it spawns the rescan engine;                       *)
(*   - the import of a spending key;                                       *)
(*   - the broadcaster, which queues a witness repair from another database*)
(*     connection when the network rejects a transaction's anchor;         *)
(*   - the server's chain, which grows and reorganises.                    *)
(*                                                                         *)
(* The per-wallet operation lock is represented by its effect: an engine,  *)
(* the rescan controller and a key import never run at the same time.      *)
(* Statements commit one by one (PersistenceWorker does not wrap a job in  *)
(* a transaction), so a crash, and the broadcaster, can come between the   *)
(* reads and the writes of one engine job.                                 *)
(***************************************************************************)
EXTENDS SpendabilityState

CONSTANTS
    PerBlockDepth,  \* distance to the target at which every block is checkpointed
    MaxTip,         \* bound: highest block the server mines
    MaxGen,         \* bound: key imports
    MaxDisturb      \* bound: reorgs, failures, cancels, crashes, witness gaps,
                    \* rejected anchors and user rescans together

ASSUME PerBlockDepthAssumption == PerBlockDepth \in Nat
ASSUME MaxTipAssumption == MaxTip \in Nat /\ MaxTip >= Birthday
ASSUME MaxGenAssumption == MaxGen \in Nat
ASSUME MaxDisturbAssumption == MaxDisturb \in Nat

VARIABLES
    row,      \* the spendability_state row
    found,    \* FoundNote rows of scan_queue that are pending or in progress
    hist,     \* the historic row of scan_queue, as a set of at most one
    cps,      \* per pool, the heights of the retained tree checkpoints
    local,    \* sync_state.local_height, the persisted scan cursor
    tip,      \* the server's chain tip
    eng,      \* the running sync engine
    ctl,      \* the rescan controller
    brd,      \* the broadcaster
    owed,     \* history variable: birthdays of imported keys whose history no
              \* completed replay has scanned
    disturb   \* disturbances used up so far

tables == <<row, found, hist, cps, local>>
vars == <<tables, tip, eng, ctl, brd, owed, disturb>>

Kinds == {"sync", "background", "rescan"}
NoReplay == [from |-> 0, generation |-> 0]
NoPlan == [op |-> "none", a |-> 0, b |-> 0]
NoRepair == [start |-> 0, end |-> 0]

EngIdle == [pc |-> "idle", kind |-> "sync", start |-> 0, cur |-> 0, end |-> 0,
            checked |-> 0, tried |-> {}, repair |-> NoRepair,
            req |-> NoReplay, from |-> 0, plan |-> NoPlan]
CtlIdle == [pc |-> "idle", from |-> 0, req |-> NoReplay]
BrdIdle == [pc |-> "idle", rng |-> NoRepair, seen |-> {}]

Running == eng.pc # "idle"
\* The operation lock is free and no task is registered.
Quiet == eng.pc = "idle" /\ ctl.pc = "idle"
Follow == eng.kind = "sync"

Disturb == disturb < MaxDisturb /\ disturb' = disturb + 1

\* required_key_replay
ReplayPending == row.rescan_required /\ row.required # 0
ReplayRequirement ==
    IF ReplayPending THEN [from |-> row.required, generation |-> row.generation]
    ELSE NoReplay

\* The height an engine resumes at: the block after the cursor, or the birthday.
ResumeHeight == AtLeast(IF local > 0 THEN local + 1 ELSE Birthday, Birthday)

Spendable == PublicSpendable(row, found)

\* truncate_above_height, one transaction over every chain-derived table
Truncate(h) ==
    LET common == CommonCheckpoint(cps, h)
    IN /\ row' = TruncateRow(row, h)
       /\ found' = TruncateQueue(found, h)
       /\ hist' = TruncateQueue(hist, h)
       /\ cps' = [p \in Pools |-> {c \in cps[p] : c <= common}]
       /\ local' = common

Init ==
    /\ row = DefaultRow
    /\ found = {}
    /\ hist = {}
    /\ cps = [p \in Pools |-> {}]
    /\ local = 0
    /\ tip = Birthday
    /\ eng = EngIdle
    /\ ctl = CtlIdle
    /\ brd = BrdIdle
    /\ owed = {}
    /\ disturb = 0

-----------------------------------------------------------------------------
(* Starting an engine *)

\* start_sync: a pending key replay is turned into a rescan instead.
StartSync ==
    /\ Quiet
    /\ ~ReplayPending
    /\ eng' = [EngIdle EXCEPT !.pc = "connect", !.kind = "sync",
                              !.start = ResumeHeight, !.cur = ResumeHeight]
    /\ UNCHANGED <<tables, tip, ctl, brd, owed, disturb>>

\* Background work records the verified tip and stops there when the wallet is
\* already current; otherwise it syncs a bounded range.
StartBackground ==
    /\ Quiet
    /\ ~ReplayPending
    /\ row' = RecordKnownSyncHeight(row, tip)
    /\ \/ /\ tip <= ResumeHeight
          /\ UNCHANGED eng
       \/ /\ tip > ResumeHeight
          /\ \E e \in ResumeHeight..tip :
                eng' = [EngIdle EXCEPT !.pc = "connect", !.kind = "background",
                                       !.start = ResumeHeight,
                                       !.cur = ResumeHeight, !.end = e]
    /\ UNCHANGED <<found, hist, cps, local, tip, ctl, brd, owed, disturb>>

\* validated_server_info, record_verified_chain_tip and select_sync_target
Connect ==
    /\ eng.pc = "connect"
    /\ row' = RecordKnownSyncHeight(row, tip)
    /\ eng' = [eng EXCEPT !.pc = "resume",
                          !.end = CASE eng.kind = "sync" -> tip
                                    [] eng.kind = "background" -> @
                                    [] eng.kind = "rescan" -> AtLeast(tip, eng.start)]
    /\ UNCHANGED <<found, hist, cps, local, tip, ctl, brd, owed, disturb>>

\* validate_resume_chain finds the local tip on the server's chain.
ResumeMatches ==
    /\ eng.pc = "resume"
    /\ eng' = [eng EXCEPT !.pc = "prepare"]
    /\ UNCHANGED <<tables, tip, ctl, brd, owed, disturb>>

\* The heights a reorg below `next` can roll back to: a common ancestor below
\* the divergent block, or the block before the birthday when there is none.
Ancestors(next) == (Birthday - 1)..(next - 2)

\* validate_resume_chain finds a reorg and rolls back to the common ancestor.
ResumeReorg ==
    /\ eng.pc = "resume"
    /\ eng.start - 1 <= eng.end
    /\ Disturb
    /\ \E h \in Ancestors(eng.start) :
          /\ Truncate(h)
          /\ eng' = [eng EXCEPT !.pc = "prepare", !.start = AtLeast(h + 1, 1),
                                !.cur = AtLeast(h + 1, 1)]
    /\ UNCHANGED <<tip, ctl, brd, owed>>

\* The trees an engine that starts at `start` works on, and the block it reads
\* first: trees kept, emptied at Sapling activation, seeded by the server, or
\* rewound to an older checkpoint when the server cannot seed them.
TreeChoices(start, cur) ==
    LET common == CommonCheckpoint(cps, start - 1)
        seeded == [trees |-> [p \in Pools |-> {start - 1}], cur |-> cur]
        rewound == [trees |-> [p \in Pools |-> {c \in cps[p] : c <= common}],
                    cur |-> common + 1]
    IN CASE start <= 1 -> {[trees |-> [p \in Pools |-> {}], cur |-> 1]}
         [] start > 1 /\ common = start - 1 -> {[trees |-> cps, cur |-> cur]}
         [] OTHER -> {seeded} \cup (IF common > 0 THEN {rewound} ELSE {})

\* Resume a queued repair (follow-tip runs only), initialise the trees, and
\* bootstrap the historic row up to the first block to be read.
Prepare ==
    /\ eng.pc = "prepare"
    /\ LET resume == Follow /\ found # {}
           next == NextFound(found)
           cur0 == IF resume THEN AtMost(eng.cur, AtLeast(next.start, 1)) ELSE eng.cur
       IN /\ found' = IF resume THEN MarkInProgress(found, next) ELSE found
          /\ row' = IF resume THEN MarkRepairPending(row, next.start) ELSE row
          /\ \E t \in TreeChoices(eng.start, cur0) :
                /\ cps' = t.trees
                /\ eng' = [eng EXCEPT !.pc = "outer", !.cur = t.cur]
                /\ hist' = RecordHistoric(hist, Birthday,
                                          AtLeast(t.cur + 1, Birthday + 1))
    /\ UNCHANGED <<local, tip, ctl, brd, owed, disturb>>

-----------------------------------------------------------------------------
(* Ending an engine *)

\* What the task writes when the engine returns an error.
FailRow(kind, r) ==
    CASE kind = "sync" -> MarkSyncInterrupted(r)
      [] kind = "rescan" -> MarkRescanRequired(r)
      [] kind = "background" -> r

Fail ==
    /\ Running /\ eng.pc # "done"
    /\ Disturb
    /\ row' = FailRow(eng.kind, row)
    /\ eng' = EngIdle
    /\ UNCHANGED <<found, hist, cps, local, tip, ctl, brd, owed>>

\* Cancellation is seen between batches and in network waits.  A cancelled sync
\* writes nothing and a cancelled rescan leaves the wallet behind the rescan gate;
\* a background sync that times out is dropped wherever it is.
Cancel ==
    /\ \/ eng.pc \in {"connect", "resume", "prepare", "scan", "monitor"}
       \/ Running /\ eng.kind = "background" /\ eng.pc # "done"
    /\ Disturb
    /\ row' = IF eng.kind = "rescan" THEN MarkRescanRequired(row) ELSE row
    /\ eng' = EngIdle
    /\ UNCHANGED <<found, hist, cps, local, tip, ctl, brd, owed>>

\* A bounded engine returns Ok; a rescan discharges the replay it was planned for.
Finish ==
    /\ eng.pc = "done"
    /\ row' = IF eng.req # NoReplay
              THEN CompleteRequiredRescan(row, eng.req.generation, eng.from)
              ELSE row
    /\ owed' = IF eng.kind = "rescan" THEN {b \in owed : b < eng.from} ELSE owed
    /\ eng' = EngIdle
    /\ UNCHANGED <<found, hist, cps, local, tip, ctl, brd, disturb>>

\* The process dies: the tables survive, every actor is gone.
Crash ==
    /\ Disturb
    /\ eng' = EngIdle
    /\ ctl' = CtlIdle
    /\ brd' = BrdIdle
    /\ UNCHANGED <<tables, tip, owed>>

-----------------------------------------------------------------------------
(* The repair loop: activate, roll back, replay *)

ActivateRepair ==
    /\ eng.pc = "outer"
    /\ found # {}
    /\ LET next == NextFound(found)
           rng == [start |-> AtLeast(next.start, 1),
                   end |-> AtLeast(next.end, AtLeast(next.start, 1) + 1)]
           pending == MarkRepairPending(row, rng.start)
       IN /\ found' = MarkInProgress(found, next)
          /\ \/ /\ rng \notin eng.tried
                /\ row' = pending
                /\ eng' = [eng EXCEPT !.pc = "rollback", !.repair = rng,
                                      !.tried = @ \cup {rng},
                                      !.checked = AtMost(@, rng.start - 1)]
             \/ /\ rng \in eng.tried  \* unresolved after a complete replay
                /\ row' = FailRow(eng.kind, pending)
                /\ eng' = EngIdle
    /\ UNCHANGED <<hist, cps, local, tip, ctl, brd, owed, disturb>>

NoRepairQueued ==
    /\ eng.pc = "outer"
    /\ found = {}
    /\ eng' = [eng EXCEPT !.pc = "scan"]
    /\ UNCHANGED <<tables, tip, ctl, brd, owed, disturb>>

RepairRollback ==
    /\ eng.pc = "rollback"
    /\ Truncate(eng.repair.start - 1)
    /\ eng' = [eng EXCEPT !.pc = "scan", !.cur = local' + 1,
                          !.end = AtLeast(AtLeast(@, eng.repair.end - 1), local' + 1)]
    /\ UNCHANGED <<tip, ctl, brd, owed, disturb>>

-----------------------------------------------------------------------------
(* Scanning *)

\* Checkpoints a batch cur..b leaves: one per block near the target; farther
\* away each pool checkpoints only what it owns, or the batch end is checkpointed.
BatchCheckpoints(b) ==
    IF eng.end - b <= PerBlockDepth THEN {[p \in Pools |-> eng.cur..b]}
    ELSE [Pools -> SUBSET {b}]

\* One batch: trees, then the cursor, then (when an auxiliary flush is due) the
\* historic row and the retirement of the repairs the cursor has passed.
ScanBatch ==
    /\ eng.pc = "scan"
    /\ eng.cur <= eng.end
    /\ \E b \in eng.cur..eng.end, flush, aux \in BOOLEAN :
          /\ b = eng.end => flush /\ aux
          /\ aux => flush
          /\ flush /\ ~Follow => aux
          /\ \E new \in BatchCheckpoints(b) :
                cps' = [p \in Pools |-> cps[p] \cup new[p]]
          /\ local' = IF flush THEN b ELSE local
          /\ hist' = IF aux THEN RecordHistoric(hist, Birthday,
                                                AtLeast(b + 1, Birthday + 1))
                     ELSE hist
          /\ found' = IF aux THEN MarkFoundDoneThrough(found, b + 1) ELSE found
          /\ eng' = [eng EXCEPT !.cur = b + 1, !.pc = IF aux THEN "aux" ELSE "scan"]
    /\ UNCHANGED <<row, tip, ctl, brd, owed, disturb>>

\* validate_batch_boundary fails: roll back to the common ancestor and go on.
ScanReorg ==
    /\ eng.pc = "scan"
    /\ eng.cur <= eng.end
    /\ Disturb
    /\ \E h \in Ancestors(eng.cur) :
          /\ Truncate(h)
          /\ eng' = [eng EXCEPT !.cur = AtLeast(h + 1, 1)]
    /\ UNCHANGED <<tip, ctl, brd, owed>>

\* The decision of save_sync_state's auxiliary part, from one read of the tables.
AuxPlan ==
    LET ta == Heights(hist, cps)
        t == CHOOSE x \in ta : TRUE
        atTarget == eng.cur >= t.target
        validatedForAnchor == row.spendable /\ row.validated >= t.anchor
        recentlyValidated == /\ row.spendable
                             /\ row.validated > 0
                             /\ Minus(t.anchor, row.validated) <= MinConf
        finalize(target, anchor) == [op |-> "finalize", a |-> target, b |-> anchor]
    IN CASE ta = {} -> IF row.required = 0 /\ ~row.repair_queued
                       THEN finalize(row.target, row.anchor) ELSE NoPlan
         [] ta # {} /\ found # {} ->
               [op |-> "repair", a |-> NextFound(found).start, b |-> 0]
         [] OTHER -> IF (~atTarget \/ ~validatedForAnchor) /\ ~recentlyValidated
                     THEN finalize(t.target, t.anchor) ELSE NoPlan

ApplyPlan(plan, r) ==
    CASE plan.op = "none" -> r
      [] plan.op = "repair" -> MarkRepairPending(r, plan.a)
      [] plan.op = "finalize" -> MarkSyncFinalizing(r, plan.a, plan.b)
      [] plan.op = "validate" -> MarkValidated(r, plan.a, plan.b)
      [] plan.op = "gap" -> MarkRepairPending(r, plan.a)

AuxRead ==
    /\ eng.pc = "aux"
    /\ eng' = [eng EXCEPT !.pc = "auxWrite", !.plan = AuxPlan]
    /\ UNCHANGED <<tables, tip, ctl, brd, owed, disturb>>

AuxWrite ==
    /\ eng.pc = "auxWrite"
    /\ row' = ApplyPlan(eng.plan, row)
    /\ eng' = [eng EXCEPT !.pc = "scan", !.plan = NoPlan]
    /\ UNCHANGED <<found, hist, cps, local, tip, ctl, brd, owed, disturb>>

-----------------------------------------------------------------------------
(* At the target: checkpoint it, check the witnesses, validate or repair *)

\* The height the witness check runs at.
CheckHeight == IF Follow THEN eng.cur - 1 ELSE eng.end

ScanDone ==
    /\ eng.pc = "scan"
    /\ eng.cur > eng.end
    /\ cps' = [p \in Pools |-> cps[p] \cup {CheckHeight}]
    /\ eng' = [eng EXCEPT !.pc = "check"]
    /\ UNCHANGED <<row, found, hist, local, tip, ctl, brd, owed, disturb>>

\* Mutant: a height is never checked twice, whatever became of the row.
SkipCheckOnce(anchor) == row.rescan_required \/ eng.checked >= CheckHeight

\* The check is left out behind the rescan gate, and when this height was checked
\* before and the row is still validated for the anchor.
SkipCheck(anchor) ==
    \/ row.rescan_required
    \/ /\ eng.checked >= CheckHeight
       /\ row.spendable /\ ~row.repair_queued
       /\ row.validated >= anchor

\* check_witnesses_with_db up to its write; `done` says whether the check counts
\* as made at this height (last_witness_check_height).
CheckRead ==
    /\ eng.pc = "check"
    /\ LET ta == Heights(hist, cps)
           t == CHOOSE x \in ta : TRUE
           target == AtLeast(t.target, 1)
           anchor == AtLeast(t.anchor, 1)
           skip == SkipCheck(anchor)
           through == AtLeast(anchor + 1, CheckHeight + 1)
           left == MarkFoundDoneThrough(found, through)
           plan(op, a, b, done) ==
              eng' = [eng EXCEPT !.pc = "checkWrite",
                                 !.plan = [op |-> op, a |-> a, b |-> b],
                                 !.checked = IF done THEN AtLeast(@, CheckHeight) ELSE @]
       IN \/ /\ ta = {}
             /\ IF row.required = 0 /\ ~row.repair_queued
                THEN plan("finalize", row.target, row.anchor, FALSE)
                ELSE plan("none", 0, 0, FALSE)
             /\ UNCHANGED <<found, disturb>>
          \/ /\ ta # {} /\ skip
             /\ plan("none", 0, 0, FALSE)
             /\ UNCHANGED <<found, disturb>>
          \/ /\ ta # {} /\ ~skip       \* every witness is there
             /\ found' = left
             /\ IF left # {} THEN plan("repair", NextFound(left).start, 0, TRUE)
                ELSE plan("validate", target, anchor, TRUE)
             /\ UNCHANGED disturb
          \/ /\ ta # {} /\ ~skip       \* witnesses are missing from block f on
             /\ Disturb
             /\ \E f \in Birthday..anchor : plan("gap", f, anchor + 1, TRUE)
             /\ UNCHANGED found
    /\ UNCHANGED <<row, hist, cps, local, tip, ctl, brd, owed>>

CheckWrite ==
    /\ eng.pc = "checkWrite"
    /\ row' = ApplyPlan(eng.plan, row)
    /\ found' = IF eng.plan.op = "gap"
                THEN QueueRange(found, [start |-> eng.plan.a, end |-> eng.plan.b])
                ELSE found
    /\ eng' = [eng EXCEPT !.plan = NoPlan, !.repair = NoRepair,
                          !.pc = IF eng.plan.op = "gap" THEN "outer"
                                 ELSE IF Follow THEN "monitor" ELSE "done"]
    /\ UNCHANGED <<hist, cps, local, tip, ctl, brd, owed, disturb>>

\* Follow-tip: poll the server; new blocks extend the target.
MonitorPoll ==
    /\ eng.pc = "monitor"
    /\ eng' = [eng EXCEPT !.pc = "outer",
                          !.end = IF tip > eng.cur - 1 THEN tip ELSE @]
    /\ UNCHANGED <<tables, tip, ctl, brd, owed, disturb>>

MonitorReorg ==
    /\ eng.pc = "monitor"
    /\ eng.cur - 1 <= tip
    /\ Disturb
    /\ \E h \in Ancestors(eng.cur) :
          /\ Truncate(h)
          /\ eng' = [eng EXCEPT !.pc = "outer",
                                !.cur = AtLeast(h + 1, 1),
                                !.end = AtLeast(tip, h + 1)]
    /\ UNCHANGED <<tip, ctl, brd, owed>>

-----------------------------------------------------------------------------
(* The rescan controller: four statements, each its own transaction *)

\* Mutant: the user's start height wins over the required replay floor.
UnclampedRescanStart(from, req) == from

\* clamp_rescan_start
ClampRescanStart(from, req) ==
    IF req = NoReplay THEN from ELSE AtMost(from, req.from)

\* The user asks for a rescan, or start_sync finds a pending key replay.
RescanRequest ==
    /\ Quiet
    /\ IF ReplayPending THEN UNCHANGED disturb ELSE Disturb
    /\ \E from \in Birthday..tip :
          ctl' = [pc |-> "begin", from |-> ClampRescanStart(from, ReplayRequirement),
                  req |-> ReplayRequirement]
    /\ UNCHANGED <<tables, tip, eng, brd, owed>>

\* Mutant: the anchor is set one block too low.
RescanBeginOffByOne ==
    /\ ctl.pc = "begin"
    /\ row' = BeginRescan(row, AtLeast(row.target, ctl.from - 1), ctl.from - 2)
    /\ ctl' = [ctl EXCEPT !.pc = "truncate"]
    /\ UNCHANGED <<found, hist, cps, local, tip, eng, brd, owed, disturb>>

RescanBegin ==
    /\ ctl.pc = "begin"
    /\ row' = BeginRescan(row, AtLeast(row.target, ctl.from - 1), ctl.from - 1)
    /\ ctl' = [ctl EXCEPT !.pc = "truncate"]
    /\ UNCHANGED <<found, hist, cps, local, tip, eng, brd, owed, disturb>>

RescanTruncate ==
    /\ ctl.pc = "truncate"
    /\ Truncate(ctl.from - 1)
    /\ ctl' = [ctl EXCEPT !.pc = "reset"]
    /\ UNCHANGED <<tip, eng, brd, owed, disturb>>

\* reset_sync_state with plan_rescan_start's retained tree height
RescanReset ==
    /\ ctl.pc = "reset"
    /\ local' = AtMost(local, ctl.from - 1)
    /\ ctl' = [ctl EXCEPT !.pc = "clear"]
    /\ UNCHANGED <<row, found, hist, cps, tip, eng, brd, owed, disturb>>

RescanClear ==
    /\ ctl.pc = "clear"
    /\ found' = {}
    /\ hist' = {}
    /\ ctl' = [ctl EXCEPT !.pc = "spawn"]
    /\ UNCHANGED <<row, cps, local, tip, eng, brd, owed, disturb>>

RescanSpawn ==
    /\ ctl.pc = "spawn"
    /\ ctl' = CtlIdle
    /\ eng' = [EngIdle EXCEPT !.pc = "connect", !.kind = "rescan",
                              !.start = ctl.from, !.cur = ctl.from,
                              !.from = ctl.from, !.req = ctl.req]
    /\ UNCHANGED <<tables, tip, brd, owed, disturb>>

\* A statement of the controller fails: the request returns its error.
RescanAbort ==
    /\ ctl.pc # "idle"
    /\ Disturb
    /\ ctl' = CtlIdle
    /\ UNCHANGED <<tables, tip, eng, brd, owed>>

-----------------------------------------------------------------------------
(* Key import, broadcast and the chain *)

\* import_spending_key under the exclusive lock: the birthday must not exceed
\* the known tip, which is the row's target height.  Birthday is the account's
\* lowest key birthday, the floor every engine lowers its own to.
ImportKey ==
    /\ Quiet
    /\ row.generation < MaxGen
    /\ \E b \in Birthday..row.target :
          /\ row' = ImportGate(row, b)
          /\ owed' = owed \cup {b}
    /\ UNCHANGED <<found, hist, cps, local, tip, eng, ctl, brd, disturb>>

\* A transaction is built and signed: the public status admits it and the
\* selection anchors can be computed.
SignTransaction ==
    /\ brd.pc = "idle"
    /\ Spendable
    /\ Heights(hist, cps) # {}
    /\ brd' = [brd EXCEPT !.pc = "signed"]
    /\ UNCHANGED <<tables, tip, eng, ctl, owed, disturb>>

BroadcastAccepted ==
    /\ brd.pc = "signed"
    /\ brd' = BrdIdle
    /\ UNCHANGED <<tables, tip, eng, ctl, owed, disturb>>

\* The node answers unknown-anchor: the repair range is read off the row before
\* the tree states are fetched over the network.
BroadcastRejected ==
    /\ brd.pc = "signed"
    /\ Disturb
    /\ LET from == AtLeast(row.anchor, 1)
       IN brd' = [brd EXCEPT !.pc = "rejected",
                             !.rng = [start |-> from,
                                      end |-> AtLeast(row.target, from) + 1]]
    /\ UNCHANGED <<tables, tip, eng, ctl, owed>>

\* queue_repair_range: latch the row, then queue_range's SELECT, then its commit.
RepairLatch ==
    /\ brd.pc = "rejected"
    /\ row' = MarkRepairPending(row, brd.rng.start)
    /\ brd' = [brd EXCEPT !.pc = "latched"]
    /\ UNCHANGED <<found, hist, cps, local, tip, eng, ctl, owed, disturb>>

RepairSelect ==
    /\ brd.pc = "latched"
    /\ brd' = [brd EXCEPT !.pc = "selected", !.seen = QueueSelect(found, brd.rng)]
    /\ UNCHANGED <<tables, tip, eng, ctl, owed, disturb>>

RepairInsert ==
    /\ brd.pc = "selected"
    /\ found' = QueueCommit(found, brd.seen, brd.rng)
    /\ brd' = BrdIdle
    /\ UNCHANGED <<row, hist, cps, local, tip, eng, ctl, owed, disturb>>

TipAdvances ==
    /\ tip < MaxTip
    /\ tip' = tip + 1
    /\ UNCHANGED <<tables, eng, ctl, brd, owed, disturb>>

-----------------------------------------------------------------------------
EngineStep ==
    \/ Connect \/ ResumeMatches \/ Prepare
    \/ ActivateRepair \/ NoRepairQueued \/ RepairRollback
    \/ ScanBatch \/ AuxRead \/ AuxWrite
    \/ ScanDone \/ CheckRead \/ CheckWrite \/ MonitorPoll \/ Finish

ControllerStep ==
    \/ RescanBegin \/ RescanTruncate \/ RescanReset \/ RescanClear \/ RescanSpawn

BroadcastStep == RepairLatch \/ RepairSelect \/ RepairInsert

Next ==
    \/ StartSync \/ StartBackground
    \/ EngineStep
    \/ ResumeReorg \/ ScanReorg \/ MonitorReorg
    \/ Fail \/ Cancel \/ Crash
    \/ RescanRequest \/ ControllerStep \/ RescanAbort
    \/ ImportKey
    \/ SignTransaction \/ BroadcastAccepted \/ BroadcastRejected \/ BroadcastStep
    \/ TipAdvances

Spec == Init /\ [][Next]_vars

\* A running task keeps running, and a required key replay is retried: start_sync
\* turns every later start into the replay until it is discharged.
Fairness ==
    /\ WF_vars(EngineStep)
    /\ WF_vars(ControllerStep)
    /\ WF_vars(BroadcastStep)
    /\ WF_vars(ReplayPending /\ RescanRequest)

FairSpec == Spec /\ Fairness

-----------------------------------------------------------------------------
(* Safety *)

EnginePcs == {"idle", "connect", "resume", "prepare", "outer", "rollback", "scan",
              "aux", "auxWrite", "check", "checkWrite", "monitor", "done"}
PlanOps == {"none", "repair", "finalize", "validate", "gap"}
Replays == [from : Nat, generation : Nat]

Engines == [pc : EnginePcs, kind : Kinds, start : Nat, cur : Nat, end : Nat,
            checked : Nat, tried : SUBSET HistRow, repair : HistRow,
            req : Replays, from : Nat,
            plan : [op : PlanOps, a : Nat, b : Nat]]
Controllers == [pc : {"idle", "begin", "truncate", "reset", "clear", "spawn"},
                from : Nat, req : Replays]
Broadcasters == [pc : {"idle", "signed", "rejected", "latched", "selected"},
                 rng : HistRow, seen : SUBSET FoundRow]

\* Every table and every actor holds a value of its declared type.
TypeOK ==
    /\ row \in Row
    /\ found \in SUBSET FoundRow
    /\ hist \in SUBSET HistRow
    /\ cps \in [Pools -> SUBSET Nat]
    /\ local \in Nat
    /\ tip \in Nat
    /\ eng \in Engines
    /\ ctl \in Controllers
    /\ brd \in Broadcasters
    /\ owed \in SUBSET Nat
    /\ disturb \in Nat

\* An unfinished imported-key replay keeps the rescan gate closed through every
\* sync, repair, reorg, failure and crash: no statement of spendability_state.rs
\* reopens it except the completion of an eligible replay.
ReplayGate == row.required > 0 => row.rescan_required

\* The durable replay floor never forgets a key: while some imported key's
\* history is unscanned the row requires a replay that begins at or below its
\* birthday (imports merge floors; completion checks generation and start).
KeyHistoryOwed ==
    \A b \in owed : row.required > 0 /\ row.required <= b

\* No spend is admitted while an imported key's history has not been replayed.
SpendNeedsKeyHistory == Spendable => owed = {}

\* The stored `spendable` flag, which save_sync_state trusts to keep a wallet
\* open while its anchor drifts, is raised only over an open row: no gate or
\* latch is set and the stored anchor is validated.
StoredSpendableSound ==
    row.spendable => /\ ~row.rescan_required
                     /\ row.required = 0
                     /\ ~row.repair_queued
                     /\ ~row.interrupted
                     /\ row.anchor > 0
                     /\ row.validated >= row.anchor

\* A rescan runs over a row whose interruption latch begin_rescan released: the
\* controller and an engine never own the wallet together, a replay is only ever
\* carried by a rescan, and no failure of another task latches the row meanwhile.
RescanUninterrupted ==
    /\ ctl.pc # "idle" => ~Running
    /\ eng.req # NoReplay => eng.kind = "rescan"
    /\ eng.kind = "rescan" \/ ctl.pc \in {"truncate", "reset", "clear", "spawn"}
          => ~row.interrupted

\* The anchor a witness check is about to record as validated was scanned: it lies
\* in the historic row, which no other actor moves between the check's read of
\* the tables and its write.
ValidationPlanSound ==
    /\ \A h \in hist : h.start = Birthday /\ h.end > Birthday
    /\ eng.plan.op = "validate" =>
          /\ eng.pc = "checkWrite"
          /\ eng.plan.b > 0
          /\ \E h \in hist : eng.plan.b < h.end

\* A failed sync stays visible: the interruption latch is released only by a
\* witness check that validates an anchor, or under the stronger rescan gate.
InterruptionLatched ==
    [][row.interrupted /\ ~row'.interrupted
          => row'.rescan_required \/ (row'.spendable /\ row'.validated = row'.anchor)]_vars

\* Only the witness check at the target raises the validated anchor, and never
\* above a height that the historic row has recorded as scanned.
ValidationIsEarned ==
    [][row'.validated > row.validated
          => /\ eng.pc = "checkWrite" /\ eng.plan.op = "validate"
             /\ \E h \in hist : row'.validated < h.end]_vars

(* Liveness *)

\* A follow-tip sync that is left running keeps bringing the wallet back to
\* spendable, whatever was queued or rolled back before, unless the wallet is
\* behind the rescan gate.
FollowTipConverges ==
    <>[](Running /\ Follow) => []<>(Spendable \/ row.rescan_required)

\* A required key replay is eventually discharged: the gate cannot be stuck
\* behind a replay that always ends ineligible.
ReplayDischarged == ReplayPending ~> ~ReplayPending

\* "a deterministic path to re-validate at the current tip even when the tip
\* height hasn't advanced", for a wallet that is finalizing "or was downgraded by
\* a prior run" (the monitoring loop of sync_range_internal).
RevalidatesAtTip == <>[](Running /\ Follow) => []<>Spendable

(* What comments of the code say, and the code does not guarantee *)

\* "reports ERR_RESCAN_REQUIRED and spendable = false for the whole rescan ...
\* so the wallet cannot become spendable in between" (begin_rescan).
NotSpendableDuringRescan ==
    [][eng.kind = "rescan" /\ Running /\ ~Spendable /\ Spendable'
          => eng.pc \in {"checkWrite", "done"}]_vars

\* "The persisted flag is therefore a durable latch" until witness
\* reconstruction and anchor validation finish (load_spendability_status_internal).
RepairLatchHolds == eng.repair # NoRepair /\ eng.pc # "rollback" => ~Spendable

\* "Existing in_progress rows are never replaced" (queue_range).
ActiveRepairNotReplaced ==
    [][brd.pc = "selected" /\ brd'.pc = "idle" /\ eng' = eng /\ disturb' = disturb
          => \A r \in found : r.status = "in_progress" => r \in found']_vars

\* Only verified server heights become the known tip that an import's birthday is
\* checked against, so no key is accepted with "a spending-key birthday that the
\* chain has not actually reached" (record_verified_chain_tip).
ImportedBirthdayReached == \A b \in owed : b <= tip

\* "Finish syncing and any required rescan before removing an imported key": once
\* a follow-tip sync has validated the tip and idles, removal is allowed.
SyncedWalletAllowsRemoval ==
    eng.pc = "monitor" /\ Spendable /\ local = tip
        => RemovalAllowed(row, found, local)
=============================================================================
