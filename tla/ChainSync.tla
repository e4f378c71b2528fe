------------------------------ MODULE ChainSync ------------------------------
(***************************************************************************)
(* How the sync engine (sync.rs) carries the chain into the wallet's two   *)
(* commitment trees: the durable cursor, the window of canonical block     *)
(* hashes, the trees with their checkpoints, the persistence worker's      *)
(* cached copy of the trees, and the reorg, resume, repair and rescan      *)
(* paths that rewind them.                                                 *)
(*                                                                         *)
(* A batch is committed in several transactions: the trees first, then a   *)
(* checkpoint when one is due, then the cursor with its hash rows.  The    *)
(* engine can be interrupted between any two of them, the chain can        *)
(* reorganise at any time, and what the worker caches is only a copy.      *)
(*                                                                         *)
(* A block is its height and the branch that minted it (see ScanLog); a    *)
(* block with a commitment in a pool puts one leaf, the block itself, into *)
(* that pool's tree.                                                       *)
(***************************************************************************)
EXTENDS Integers, Sequences, FiniteSets, FiniteSetsExt

CONSTANTS
    Pools,          \* the shielded pools
    Outputs,        \* Outputs[p]: heights whose block has a commitment in p
    Owned,          \* Owned[p]: heights whose commitment belongs to the wallet
    Activation,     \* sapling_activation_height
    Birthday,       \* the wallet's birthday height
    PruningDepth,   \* SHARDTREE_PRUNING_DEPTH
    SearchDepth,    \* MAX_REORG_SEARCH_DEPTH
    Top,            \* bound: height of the chain
    FirstFork,      \* bound: lowest height a reorganisation replaces
    MaxReorgs,      \* bound: reorganisations
    MaxStops,       \* bound: interrupted runs
    MaxRescans,     \* bound: a rescan is among the first interruptions
    MaxRepairs,     \* bound: witness repairs
    MidBatch        \* runs may also be interrupted inside a batch

ASSUME PoolsAssumption == IsFiniteSet(Pools) /\ Pools # {}
\* No block below the activation of the first pool has a shielded output.
ASSUME OutputsAssumption == Outputs \in [Pools -> SUBSET (Activation..Top)]
ASSUME OwnedAssumption == \A p \in Pools : Owned[p] \subseteq Outputs[p]
ASSUME HeightsAssumption ==
    /\ {Activation, Birthday, FirstFork, Top} \subseteq Nat \ {0}
    /\ Activation <= Birthday /\ Birthday <= Top
ASSUME BoundsAssumption ==
    /\ {PruningDepth, SearchDepth, MaxReorgs, MaxStops, MaxRescans, MaxRepairs} \subseteq Nat
    /\ PruningDepth > 0 /\ MidBatch \in BOOLEAN

VARIABLES
    lineage,  \* the branches of the chain, see ScanLog
    tip,      \* height of the server's chain
    db,       \* the wallet database: cursor, hash rows, trees
    cache,    \* the persistence worker's cached trees
    eng,      \* the engine's run
    stops,    \* runs interrupted so far
    repairs,  \* witness repairs so far
    torn,     \* history: a run ended with trees that go on above the cursor
    orphan,   \* history: a checkpoint with no hash row was reorganised away
    deep      \* history: a run went on above the height its trees were rewound to

vars == <<lineage, tip, db, cache, eng, stops, repairs, torn, orphan, deep>>

-----------------------------------------------------------------------------
(* The chain.                                                              *)

Branch == Len(lineage)
Ancestor(b, k) == IF k <= Len(lineage[b]) THEN lineage[b][k] ELSE b
Block(h) == <<h, Ancestor(Branch, h)>>

\* The leaves pool p has when a block's whole history is absorbed.
LeavesTo(p, b, h) ==
    LET hs == {k \in Outputs[p] : k <= h}
        nth(i) == CHOOSE k \in hs : Cardinality({j \in hs : j <= k}) = i
    IN [i \in 1..Cardinality(hs) |-> <<nth(i), Ancestor(b, nth(i))>>]

-----------------------------------------------------------------------------
(* Commitment trees (shardtree, shardtree_store.rs).  size gives for every *)
(* checkpoint the number of leaves below it.                               *)

Hole == <<0, 0>>
EmptyTree == [leaves |-> <<>>, size |-> [h \in {} |-> 0], kept |-> {}]
NoTrees == [p \in Pools |-> EmptyTree]
Checkpoints(t) == DOMAIN t.size

\* ShardTree::prune_excess_checkpoints: retained checkpoints stay.
Prune(t) ==
    LET loose == Checkpoints(t) \ t.kept
        stay == {h \in loose : Cardinality({k \in loose : k > h}) < PruningDepth}
    IN [t EXCEPT !.size = [h \in stay \cup (t.kept \cap Checkpoints(t)) |-> t.size[h]]]

\* ShardTree::checkpoint: ignored at or below the newest checkpoint.
AddCheckpoint(t, h) ==
    IF \E k \in Checkpoints(t) : k >= h THEN t
    ELSE Prune([t EXCEPT !.size = [k \in Checkpoints(t) \cup {h} |->
                                     IF k = h THEN Len(t.leaves) ELSE t.size[k]]])

\* ShardTree::ensure_retained
Retain(t, h) == [t EXCEPT !.kept = @ \cup {h}]

\* ShardTree::truncate_to_checkpoint; retained ids survive the truncation.
TruncateTree(t, h) ==
    [t EXCEPT !.leaves = SubSeq(@, 1, t.size[h]),
              !.size = [k \in {j \in Checkpoints(t) : j <= h} |-> t.size[k]]]

Common(trees) == {h \in 0..Top : \A p \in Pools : h \in Checkpoints(trees[p])}
NewestCommon(trees, h) ==
    LET cs == {k \in Common(trees) : k <= h} IN IF cs = {} THEN -1 ELSE Max(cs)
NewestCheckpoint(t) == IF Checkpoints(t) = {} THEN -1 ELSE Max(Checkpoints(t))

\* recover_position_counters_from_shardtree: the largest position of any checkpoint.
RecoverPositions(trees) ==
    [p \in Pools |-> Max({0} \cup {trees[p].size[h] : h \in Checkpoints(trees[p])})]

-----------------------------------------------------------------------------
(* One batch of blocks enters a tree (update_commitment_trees,             *)
(* apply_pool_batches).  batch is a sequence of blocks of adjacent heights.*)

First(batch) == batch[1][1]
Final(batch) == batch[Len(batch)][1]
BlockAt(batch, h) == batch[h - First(batch) + 1]
Heights(batch) == First(batch)..Final(batch)

\* Leaves of the batch before height h: the position counter's advance.
Before(p, batch, h) == Cardinality({k \in Outputs[p] : First(batch) <= k /\ k < h})

\* Blocks at or below the newest committed checkpoint are skipped; the
\* position counter has advanced over them all the same.
Applied(p, batch, t) == {h \in Heights(batch) : h > NewestCheckpoint(t)}
AppliedLeaves(p, batch, t) == Applied(p, batch, t) \cap Outputs[p]

Slot(p, batch, pos, h) == pos + Before(p, batch, h) + 1

\* batch_insert refuses a leaf where the tree already holds another one.
Conflict(p, batch, pos, t) ==
    \E h \in AppliedLeaves(p, batch, t) :
        LET i == Slot(p, batch, pos, h)
        IN i <= Len(t.leaves) /\ t.leaves[i] \notin {Hole, BlockAt(batch, h)}

InsertLeaves(p, batch, pos, t) ==
    LET hs == AppliedLeaves(p, batch, t)
        n == Max({Len(t.leaves)} \cup {Slot(p, batch, pos, h) : h \in hs})
    IN [i \in 1..n |->
          IF \E h \in hs : Slot(p, batch, pos, h) = i
          THEN BlockAt(batch, CHOOSE h \in hs : Slot(p, batch, pos, h) = i)
          ELSE IF i <= Len(t.leaves) THEN t.leaves[i] ELSE Hole]

\* FrontierCheckpointMode: every block near the target, else owned notes only.
PerBlock(batch, end) == end - Final(batch) <= PruningDepth
CheckpointDue(p, h, perBlock) == perBlock \/ h \in Owned[p]

InsertBatch(p, batch, pos, perBlock, t) ==
    LET marks == {h \in Applied(p, batch, t) : CheckpointDue(p, h, perBlock)}
        sizeAt(h) == IF h \in Outputs[p] THEN Slot(p, batch, pos, h)
                     ELSE Max({Len(t.leaves), pos + Before(p, batch, h)})
    IN Prune([t EXCEPT
          !.leaves = InsertLeaves(p, batch, pos, t),
          !.size = [h \in Checkpoints(t) \cup marks |->
                      IF h \in marks THEN sizeAt(h) ELSE t.size[h]]])

-----------------------------------------------------------------------------
(* The durable rows.                                                       *)

RowHeights(rows) == DOMAIN rows

\* truncate_above_height.  The trees go to their newest common checkpoint,
\* the cursor with them, every other table to the requested height.
ReplayHeight(d, h) == Max({NewestCommon(d.trees, h), 0})
TruncateAboveKeepsCursor(d, h) ==   \* mutant
    [local |-> h,
     rows |-> [k \in {j \in RowHeights(d.rows) : j <= h} |-> d.rows[k]],
     trees |-> [p \in Pools |->
                  IF NewestCommon(d.trees, h) < 0 THEN EmptyTree
                  ELSE TruncateTree(d.trees[p], NewestCommon(d.trees, h))]]
TruncateAboveKeepsTrees(d, h) ==    \* mutant
    [d EXCEPT !.local = ReplayHeight(d, h),
              !.rows = [k \in {j \in RowHeights(d.rows) : j <= h} |-> d.rows[k]]]
TruncateAbove(d, h) ==
    [local |-> ReplayHeight(d, h),
     rows |-> [k \in {j \in RowHeights(d.rows) : j <= h} |-> d.rows[k]],
     trees |-> [p \in Pools |->
                  IF NewestCommon(d.trees, h) < 0 THEN EmptyTree
                  ELSE TruncateTree(d.trees[p], NewestCommon(d.trees, h))]]

\* save_sync_progress: cursor and hash rows in one transaction.  The window
\* handed over is the batch's (canonical_block_window).
SaveProgress(d, batch) ==
    LET e == Final(batch)
        window == {h \in Heights(batch) : h >= e - SearchDepth}
        keep == {h \in RowHeights(d.rows) \cup window : h >= e - SearchDepth}
    IN [d EXCEPT !.local = e,
                 !.rows = [h \in keep |-> IF h \in window THEN BlockAt(batch, h)
                                          ELSE d.rows[h]]]

-----------------------------------------------------------------------------
(* Locating a reorganisation.                                              *)

\* The remote block at a height has the hash of the local row.
Matches(rows, h) == h <= tip /\ rows[h] = Block(h)

\* find_common_ancestor_bounded: the newest local row the server shares, -1
\* when no row of the window does.  AncestorSearch models its probes.
FindCommonAncestor(rows, div) ==
    LET stop == Max({div - SearchDepth, Birthday - 1})
        same == {h \in RowHeights(rows) \cap (stop..div) : Matches(rows, h)}
    IN IF same = {} THEN -1 ELSE Max(same)

\* rollback_to_common_ancestor: where the data is truncated.
AncestorOrFloor(rows, div) ==
    LET a == FindCommonAncestor(rows, div) IN IF a < 0 THEN Birthday - 1 ELSE a

-----------------------------------------------------------------------------
(* The engine's run.                                                       *)

NoBlock == Hole
NoTarget == 0
NoCache == [p \in {} |-> EmptyTree]
Idle == [pc |-> "idle", follow |-> FALSE, gap |-> FALSE, start |-> 0, cur |-> 0,
         end |-> 0, last |-> 0, prev |-> NoBlock, batch |-> <<>>,
         pos |-> [p \in Pools |-> 0], prog |-> 0, target |-> NoTarget, ckpt |-> FALSE]

Init ==
    /\ lineage = <<<<>>>>
    /\ tip = Birthday
    /\ db = [local |-> 0, rows |-> [h \in {} |-> NoBlock], trees |-> NoTrees]
    /\ cache = NoCache
    /\ eng = Idle
    /\ stops = 0 /\ repairs = 0
    /\ torn = FALSE /\ orphan = FALSE /\ deep = FALSE

chainVars == <<lineage, tip>>
counters == <<stops, repairs, torn, orphan, deep>>

\* A block arrives.
Grow ==
    /\ tip < Top
    /\ tip' = tip + 1
    /\ UNCHANGED <<lineage, db, cache, eng, counters>>

\* The batch whose trees are written and whose hash rows are still to come.
MidBatchPcs == {"notes", "ckpt", "save"}
InFlight == IF eng.pc \in MidBatchPcs THEN Heights(eng.batch) ELSE {}

\* A run may go on from a checkpoint at or above h, with commitments below it,
\* whose block hash the wallet has not recorded.
Unanchored(h) ==
    \E k \in Common(db.trees) \ (RowHeights(db.rows) \cup InFlight) :
        h <= k /\ \E p \in Pools : db.trees[p].size[k] > 0

\* The same for a batch that was replaced while it was written, when the run
\* leaves it without recording its hashes.
Stranded ==
    \E k \in (Common(db.trees) \cap InFlight) \ RowHeights(db.rows) :
        BlockAt(eng.batch, k) # Block(k)

\* The server's chain is replaced from height h on.
Reorg ==
    /\ Branch <= MaxReorgs
    /\ \E h \in FirstFork..tip :
         /\ lineage' = Append(lineage, [k \in 1..(h - 1) |-> Ancestor(Branch, k)])
         /\ orphan' = (orphan \/ Unanchored(h))
    /\ UNCHANGED <<tip, db, cache, eng, stops, repairs, torn, deep>>

\* sync_from_birthday, sync_range_to_latest: resume after the cursor.  The
\* bounded form is only called with blocks left to scan.
Start ==
    /\ eng.pc = "idle"
    /\ \E follow \in BOOLEAN :
         LET start == Max({Birthday, IF db.local > 0 THEN db.local + 1 ELSE Birthday})
         IN /\ follow \/ start < tip
            /\ eng' = [Idle EXCEPT !.pc = "validate", !.follow = follow, !.gap = TRUE,
                                   !.start = start, !.prog = start - 1, !.end = tip]
    /\ UNCHANGED <<chainVars, db, cache, counters>>

\* A rescan truncates first, then syncs from the requested height; a gap in
\* the hash rows is intended (PreserveHistoricalBootstrap).
StartRescan ==
    /\ eng.pc = "idle" /\ stops < MaxRescans
    /\ stops' = stops + 1
    /\ \E from \in Birthday..tip :
         /\ db' = TruncateAbove(db, from - 1)
         /\ eng' = [Idle EXCEPT !.pc = "validate", !.start = from, !.prog = from - 1,
                                !.end = Max({tip, from})]
    /\ UNCHANGED <<chainVars, cache, repairs, torn, orphan, deep>>

\* The height validate_resume_chain compares, and whether the rows stop short.
ResumeRow(rows, h) ==
    IF h \in RowHeights(rows) THEN <<h, FALSE>>
    ELSE IF RowHeights(rows) # {} /\ Max(RowHeights(rows)) < h
         THEN <<Max(RowHeights(rows)), TRUE>> ELSE <<0, FALSE>>

\* validate_resume_chain: the data is rewound to the second component when it
\* is not negative; the run goes on at the first.
ValidateResumeGapOnly(rows, start, end, repairGap) ==   \* mutant
    LET row == ResumeRow(rows, start - 1)
    IN IF row[1] # 0 /\ row[2] /\ repairGap THEN <<row[1] + 1, row[1]>> ELSE <<start, -1>>
ValidateResume(rows, start, end, repairGap) ==
    LET row == ResumeRow(rows, start - 1)
    IN IF start = 1 \/ start - 1 > end \/ row[1] = 0 \/ row[1] > end THEN <<start, -1>>
       ELSE IF Matches(rows, row[1])
            THEN IF row[2] /\ repairGap THEN <<row[1] + 1, row[1]>> ELSE <<start, -1>>
            ELSE LET a == AncestorOrFloor(rows, row[1]) IN <<a + 1, a>>

Validate ==
    /\ eng.pc = "validate"
    /\ LET v == ValidateResume(db.rows, eng.start, eng.end, eng.gap)
       IN /\ db' = IF v[2] < 0 THEN db ELSE TruncateAbove(db, v[2])
          /\ eng' = [eng EXCEPT !.pc = "init", !.start = v[1], !.cur = v[1],
                                !.prog = v[1] - 1, !.last = v[1] - 1]
    /\ UNCHANGED <<chainVars, cache, counters>>

Loaded(e, trees) == [e EXCEPT !.pc = "outer", !.pos = RecoverPositions(trees)]

\* prepare_shardtrees_for_replay: the run starts at or below the activation.
InitFromActivation ==
    /\ eng.pc = "init" /\ eng.start <= Activation
    /\ LET base == Activation - 1
           trees == [p \in Pools |-> AddCheckpoint(EmptyTree, base)]
       IN /\ db' = [db EXCEPT !.trees = trees, !.local = base]
          /\ eng' = Loaded([eng EXCEPT !.cur = Activation, !.last = base, !.prog = base,
                              !.target = IF Activation < eng.start THEN eng.start - 1
                                         ELSE NoTarget], trees)
    /\ UNCHANGED <<chainVars, cache, counters>>

\* The trees already have the checkpoint the run starts from.
InitLocal ==
    /\ eng.pc = "init" /\ eng.start > Activation
    /\ eng.start - 1 \in Common(db.trees)
    /\ db' = [db EXCEPT !.trees = [p \in Pools |-> Retain(@[p], eng.start - 1)]]
    /\ eng' = Loaded(eng, db.trees)
    /\ UNCHANGED <<chainVars, cache, counters>>

\* seed_shardtrees_from_tree_state: the server's frontier replaces the trees.
InitSeed ==
    /\ eng.pc = "init" /\ eng.start > Activation
    /\ eng.start - 1 \notin Common(db.trees) /\ eng.start - 1 <= tip
    /\ LET h == eng.start - 1
           trees == [p \in Pools |->
              Retain(AddCheckpoint([EmptyTree EXCEPT !.leaves = LeavesTo(p, Branch, h)], h), h)]
       IN /\ db' = [db EXCEPT !.trees = trees]
          /\ eng' = Loaded(eng, trees)
    /\ UNCHANGED <<chainVars, cache, counters>>

\* No tree state from the server: resume a replay that an earlier run began.
PartialReplay(d, h) ==
    IF d.local < Activation - 1 \/ d.local >= h THEN -1 ELSE NewestCommon(d.trees, d.local)
InitReplay ==
    /\ eng.pc = "init" /\ eng.start > Activation
    /\ eng.start - 1 \notin Common(db.trees)
    /\ LET c == PartialReplay(db, eng.start - 1)
           trees == [p \in Pools |-> TruncateTree(db.trees[p], c)]
       IN /\ c >= Activation - 1
          /\ db' = [db EXCEPT !.trees = trees, !.local = c]
          /\ eng' = Loaded([eng EXCEPT !.cur = c + 1, !.last = c, !.prog = c,
                              !.target = eng.start - 1], trees)
    /\ UNCHANGED <<chainVars, cache, counters>>

\* rollback_to_checkpoint through the worker: its cache is dropped first.
RollbackKeepsCache(h) ==   \* mutant
    /\ db' = TruncateAbove(db, h)
    /\ UNCHANGED cache
Rollback(h) ==
    /\ db' = TruncateAbove(db, h)
    /\ cache' = NoCache

\* Queued witness repair at the head of the outer loop.  The replay starts
\* after the height the trees really went back to.
Repair ==
    /\ eng.pc = "outer" /\ repairs < MaxRepairs
    /\ repairs' = repairs + 1
    /\ \E from \in Birthday..eng.prog :
         /\ Rollback(from - 1)
         /\ LET back == ReplayHeight(db, from - 1)
            IN eng' = [eng EXCEPT !.pc = "main", !.cur = back + 1, !.prog = back,
                         !.end = Max({@, from, back + 1}), !.last = back,
                         !.prev = NoBlock, !.pos = RecoverPositions(db'.trees)]
    /\ UNCHANGED <<chainVars, stops, torn, orphan, deep>>

NoRepair ==
    /\ eng.pc = "outer"
    /\ eng' = [eng EXCEPT !.pc = "main"]
    /\ UNCHANGED <<chainVars, db, cache, counters>>

\* The next batch: any number of blocks up to the target.
Fetch ==
    /\ eng.pc = "main" /\ eng.cur <= eng.end
    /\ LET last == IF eng.target # NoTarget /\ eng.cur <= eng.target
                   THEN Min({eng.target, eng.end}) ELSE eng.end
       IN \E e \in eng.cur..Min({last, tip}) :
            eng' = [eng EXCEPT !.pc = "batch",
                      !.batch = [i \in 1..(e - eng.cur + 1) |-> Block(eng.cur + i - 1)]]
    /\ UNCHANGED <<chainVars, db, cache, counters>>

\* The parent of the batch's first block.
Parent(batch) == <<First(batch) - 1, Ancestor(batch[1][2], First(batch) - 1)>>

\* validate_batch_boundary
BoundaryRowOnly ==   \* mutant
    eng.cur - 1 \in RowHeights(db.rows) => Parent(eng.batch) = db.rows[eng.cur - 1]
BoundaryValid ==
    \/ eng.cur <= 1
    \/ IF eng.prev # NoBlock THEN Parent(eng.batch) = eng.prev
       ELSE eng.cur - 1 \in RowHeights(db.rows) => Parent(eng.batch) = db.rows[eng.cur - 1]

\* The batch does not follow what was scanned: back to the common ancestor.
BoundaryReorg ==
    /\ eng.pc = "batch" /\ ~BoundaryValid
    /\ LET a == AncestorOrFloor(db.rows, eng.cur - 1)
       IN /\ Rollback(a)
          /\ eng' = [eng EXCEPT !.pc = "main", !.cur = a + 1, !.last = a, !.batch = <<>>,
                                !.prev = NoBlock, !.pos = RecoverPositions(db'.trees)]
          /\ deep' = (deep \/ ReplayHeight(db, a) < a)
    /\ UNCHANGED <<chainVars, stops, repairs, torn, orphan>>

\* The trees the worker works on: its cache, loaded when it has none.
WorkerTrees == IF cache = NoCache THEN db.trees ELSE cache

\* update_commitment_trees through PersistShardtrees: one transaction for
\* both pools; the position counters advance over the whole batch.
CommitTrees ==
    /\ eng.pc = "batch" /\ BoundaryValid
    /\ \A p \in Pools : ~Conflict(p, eng.batch, eng.pos[p], WorkerTrees[p])
    /\ LET dense == PerBlock(eng.batch, eng.end)
           trees == [p \in Pools |->
                       InsertBatch(p, eng.batch, eng.pos[p], dense, WorkerTrees[p])]
           done == /\ \E p \in Pools : Final(eng.batch) \in Applied(p, eng.batch, WorkerTrees[p])
                   /\ \A p \in Pools : CheckpointDue(p, Final(eng.batch), dense)
       IN /\ db' = [db EXCEPT !.trees = trees]
          /\ cache' \in {trees, NoCache}
          /\ eng' = [eng EXCEPT !.pc = "notes", !.ckpt = done,
                       !.last = IF done THEN Final(eng.batch) ELSE @,
                       !.pos = [p \in Pools |-> @[p] + Before(p, eng.batch, Final(eng.batch) + 1)]]
    /\ UNCHANGED <<chainVars, counters>>

\* persist_notes moves the cursor to the newest note of the batch, without a
\* hash row; the rows follow when the whole batch is saved.
NotesIn(batch) == (UNION {Owned[p] : p \in Pools}) \cap Heights(batch)
PersistNotes ==
    /\ eng.pc = "notes"
    /\ db' = [db EXCEPT !.local = IF NotesIn(eng.batch) = {} THEN @ ELSE Max(NotesIn(eng.batch))]
    /\ eng' = [eng EXCEPT !.pc = "ckpt"]
    /\ UNCHANGED <<chainVars, cache, counters>>

\* checkpoint_tip and, for a major checkpoint, ensure_retained.
WorkerCheckpoint(h, retain) ==
    LET trees == [p \in Pools |->
                    LET t == AddCheckpoint(WorkerTrees[p], h) IN IF retain THEN Retain(t, h) ELSE t]
    IN /\ db' = [db EXCEPT !.trees = trees]
       /\ cache' \in {trees, NoCache}

\* Emergency, mini, major or replay checkpoint at the end of the batch; which
\* one is due depends on counters and sizes the model leaves open.
BatchCheckpoint ==
    /\ eng.pc = "ckpt"
    /\ LET e == Final(eng.batch)
           due == eng.target # NoTarget /\ e >= eng.target
       IN \E major \in BOOLEAN :
            /\ WorkerCheckpoint(e, major \/ due)
            /\ eng' = [eng EXCEPT !.pc = "save", !.ckpt = TRUE, !.last = e,
                                  !.target = IF due THEN NoTarget ELSE @]
    /\ UNCHANGED <<chainVars, counters>>

\* No checkpoint is due beyond those the batch itself embeds.
SkipCheckpoint ==
    /\ eng.pc = "ckpt"
    /\ ~(eng.target # NoTarget /\ Final(eng.batch) >= eng.target)
    /\ eng' = [eng EXCEPT !.pc = "save"]
    /\ UNCHANGED <<chainVars, db, cache, counters>>

Advance(e) == [e EXCEPT !.pc = "main", !.prev = e.batch[Len(e.batch)], !.batch = <<>>,
                        !.cur = Final(e.batch) + 1, !.prog = Final(e.batch), !.ckpt = FALSE]

\* save_sync_state: a checkpoint, the target or the flush period forces it.
SaveState ==
    /\ eng.pc = "save" /\ (eng.target # NoTarget => eng.ckpt)
    /\ db' = SaveProgress(db, eng.batch)
    /\ eng' = Advance(eng)
    /\ UNCHANGED <<chainVars, cache, counters>>

\* The flush period has not elapsed.
SkipSave ==
    /\ eng.pc = "save" /\ ~eng.ckpt /\ Final(eng.batch) < eng.end
    /\ eng' = Advance(eng)
    /\ orphan' = (orphan \/ Stranded)
    /\ UNCHANGED <<chainVars, db, cache, stops, repairs, torn, deep>>

\* The range is scanned: a checkpoint at its end.  A bounded run returns, a
\* following one goes on to monitor the chain.
Finish ==
    /\ eng.pc = "main" /\ eng.cur > eng.end
    /\ LET h == IF eng.follow THEN eng.prog ELSE eng.end
       IN /\ IF ~eng.follow \/ h > eng.last
             THEN WorkerCheckpoint(h, FALSE) ELSE UNCHANGED <<db, cache>>
          /\ eng' = [eng EXCEPT !.pc = IF eng.follow THEN "monitor" ELSE "return",
                                !.last = Max({@, h})]
    /\ UNCHANGED <<chainVars, counters>>

\* The bounded run returns; its worker goes with it.
Return ==
    /\ eng.pc = "return"
    /\ eng' = Idle
    /\ cache' = NoCache
    /\ UNCHANGED <<chainVars, db, counters>>

\* The monitor asks for the tip and validates the scanned chain.  It rewinds
\* on its own connection: the worker keeps its cache, and the hash of the
\* last scanned block stays as it was.
Monitor ==
    /\ eng.pc = "monitor"
    /\ LET v == ValidateResume(db.rows, eng.prog + 1, tip, TRUE)
       IN IF v[1] <= eng.prog
          THEN /\ db' = TruncateAbove(db, v[2])
               /\ deep' = (deep \/ ReplayHeight(db, v[2]) < v[2])
               /\ eng' = [eng EXCEPT !.pc = "outer", !.cur = v[1], !.last = v[1] - 1,
                            !.end = Max({tip, v[1]}), !.pos = RecoverPositions(db'.trees)]
          ELSE /\ tip > eng.prog
               /\ eng' = [eng EXCEPT !.pc = "outer", !.cur = eng.prog + 1, !.end = tip]
               /\ UNCHANGED <<db, deep>>
    /\ UNCHANGED <<chainVars, cache, stops, repairs, torn, orphan>>

\* The next run will take its trees as they are, yet one of them has a
\* checkpoint or leaves above the height it resumes from.
Torn ==
    LET h == Max({db.local, Birthday - 1})
    IN /\ h \in Common(db.trees)
       /\ \E p \in Pools : \/ NewestCheckpoint(db.trees[p]) > h
                            \/ Len(db.trees[p].leaves) > db.trees[p].size[h]

\* Cancelled between batches or while a remote call fails, and inside a batch
\* by an error, an aborted task or a crash.
Stop ==
    /\ eng.pc # "idle" /\ stops < MaxStops
    /\ eng.pc \in MidBatchPcs => MidBatch
    /\ stops' = stops + 1
    /\ torn' = (torn \/ Torn) /\ orphan' = (orphan \/ Stranded)
    /\ eng' = Idle
    /\ cache' = NoCache
    /\ UNCHANGED <<chainVars, db, repairs, deep>>

\* batch_insert reports a conflicting leaf: the run fails.
InsertFails ==
    /\ eng.pc = "batch" /\ BoundaryValid
    /\ \E p \in Pools : Conflict(p, eng.batch, eng.pos[p], WorkerTrees[p])
    /\ eng' = Idle
    /\ cache' = NoCache
    /\ UNCHANGED <<chainVars, db, counters>>

Engine ==
    \/ Start \/ Validate \/ InitFromActivation \/ InitLocal \/ InitSeed \/ InitReplay
    \/ Repair \/ NoRepair \/ Fetch \/ BoundaryReorg \/ CommitTrees \/ InsertFails
    \/ PersistNotes \/ BatchCheckpoint \/ SkipCheckpoint \/ SaveState \/ SkipSave \/ Finish \/ Return \/ Monitor

Next == Grow \/ Reorg \/ Engine \/ StartRescan \/ Stop

Spec == Init /\ [][Next]_vars

\* ENABLED Engine, spelled out: only a missing block, a missing tree state or
\* an unchanged chain keeps the engine waiting.
CanStep ==
    /\ eng.pc = "init" => \/ eng.start <= tip + 1
                          \/ eng.start - 1 \in Common(db.trees)
                          \/ PartialReplay(db, eng.start - 1) >= Activation - 1
    /\ eng.pc = "main" => eng.cur > eng.end \/ eng.cur <= tip
    /\ eng.pc = "monitor" => \/ tip > eng.prog
                             \/ ValidateResume(db.rows, eng.prog + 1, tip, TRUE)[1] <= eng.prog

\* Weak fairness of Engine.  Grow, Reorg, Stop and StartRescan are bounded,
\* so steps that change the engine's record infinitely often are its own.
EngineFair == []<>~CanStep \/ []<><<eng' # eng>>_vars
FairSpec == Spec /\ EngineFair

-----------------------------------------------------------------------------
Trees == [leaves : Seq((0..Top) \X (0..MaxReorgs + 1)),
          size : UNION {[hs -> 0..2 * Top] : hs \in SUBSET (0..Top)},
          kept : SUBSET (0..Top)]
Pcs == {"idle", "validate", "init", "outer", "main", "batch", "notes", "ckpt",
        "save", "return", "monitor"}

\* The shape of the state: heights stay within the chain, the cursor and the
\* checkpoints within it, the engine at a known step.
TypeOK ==
    /\ Branch \in 1..(MaxReorgs + 1) /\ tip \in Birthday..Top
    /\ db.local \in 0..Top
    /\ RowHeights(db.rows) \subseteq 1..Top
    /\ \A p \in Pools : db.trees[p] \in Trees
    /\ cache # NoCache => \A p \in Pools : cache[p] \in Trees
    /\ eng.pc \in Pcs /\ eng.cur \in 0..(Top + 1) /\ eng.prog \in 0..Top /\ eng.end \in 0..Top

\* The three known ways the trees part from the chain, one per history variable.
Excused == torn \/ orphan \/ deep

OnBranch(p, t, b) ==
    /\ Len(t.leaves) <= Cardinality(Outputs[p])
    /\ t.leaves = SubSeq(LeavesTo(p, b, Top), 1, Len(t.leaves))
    /\ \A h \in Checkpoints(t) : t.size[h] = Cardinality({k \in Outputs[p] : k <= h})

\* Reorgs, resumes, repairs, rescans and replays never mix two branches, skip
\* or repeat a commitment: both trees always hold one real chain's leaves and
\* every checkpoint stands after exactly the leaves of its height.  The
\* exceptions are the ones the history variables name: a run interrupted with
\* trees ahead of the cursor, a checkpoint without a hash row (a seed, or a
\* cursor persist_notes moved) reorganised away, and a run that goes on above
\* the height truncate_above_height rewound the trees to.
TreesOnChain ==
    Excused \/ \E b \in 1..Branch : \A p \in Pools : OnBranch(p, db.trees[p], b)

\* validate_resume_chain looks at one hash, the row at the cursor: when it is
\* the server's, the trees below the cursor are the server's too, in both
\* pools.  Rows a rollback kept from an abandoned branch never vouch for it.
ResumeSound ==
    LET h == db.local
    IN Excused \/
       (h \in RowHeights(db.rows) /\ Matches(db.rows, h) =>
          \A p \in Pools :
             LET below == LeavesTo(p, Branch, h)
             IN SubSeq(db.trees[p].leaves, 1, Len(below)) = below)

\* Whenever the worker is about to use its cached trees they equal the
\* database's, although the monitor rewinds the database behind its back.
CacheCoherent ==
    \/ cache = NoCache \/ cache = db.trees
    \/ eng.pc \in {"outer", "return"}
    \/ eng.pc = "main" /\ eng.cur <= eng.end
    \/ eng.pc = "batch" /\ ~BoundaryValid

\* The cursor never claims blocks whose commitments the trees have not
\* absorbed: a crash at any point leaves the trees level with it or ahead.
CursorBacked ==
    deep \/ \A p \in Pools :
        Len(db.trees[p].leaves) >= Cardinality({k \in Outputs[p] : k <= db.local})

\* Once the chain stops changing and nobody interrupts the engine, the wallet
\* ends up, and stays, at the tip with the tip's own trees.
Synced ==
    /\ db.local = tip
    /\ \A p \in Pools : db.trees[p].leaves = LeavesTo(p, Branch, tip)
CatchesUp == <>[](Excused \/ Synced)

\* The blocks below the newest common checkpoint, read off a pool that has a
\* commitment in every block: what ScanLog calls the log.
Scanned(p) ==
    LET t == db.trees[p]
        h == NewestCommon(db.trees, Top)
    IN IF h < 0 THEN <<>> ELSE [k \in 1..t.size[h] |-> t.leaves[k][2]]
Full == CHOOSE p \in Pools : Outputs[p] = 1..Top
Log == INSTANCE ScanLog WITH log <- Scanned(Full)

\* The trees implement the scan log.
ImplementsScanLog == Log!Spec

\* A batch is either completely visible or not visible at all
\* (docs/sync-engine.md:190): a run that resumes finds the trees at the
\* cursor, so it never absorbs a commitment at a wrong position.
BatchAtomic == \E b \in 1..Branch : \A p \in Pools : OnBranch(p, db.trees[p], b)
=============================================================================
