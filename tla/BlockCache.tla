----------------------------- MODULE BlockCache -----------------------------
(***************************************************************************)
(* The block cache that every wallet on one endpoint shares (block_cache.rs *)
(* and its readers in sync.rs): rows of compact blocks, a table of the      *)
(* intervals known to be complete, and one download lease per range so that *)
(* two wallets do not fetch the same blocks twice.  The server's chain may  *)
(* reorganise at any point, also between reading a cached block and asking  *)
(* the server about it.                                                     *)
(*                                                                          *)
(* A block is its height and the branch it belongs to: branch 1 leaves      *)
(* branch 0 at height fork.  Per wallet, a batch is handed from the cache   *)
(* or the stream to the scanner and scanned before the next one is taken;   *)
(* PrefetchFlow has the pipeline between the two.  A wallet's memory of     *)
(* what it scanned is its cursor and the hash rows of chain_blocks: finding *)
(* a note moves the cursor at once, the rows follow at the next flush, and  *)
(* a run may end in between.                                                *)
(***************************************************************************)
EXTENDS Integers, Sequences, FiniteSets, FiniteSetsExt, SequencesExt

CONSTANTS
    Wallets,
    Birthday,       \* Birthday[w]: first height the wallet scans
    Tip,            \* height of the chain
    BatchBlocks,    \* bound: blocks of a batch or a segment
    LegacyHeights,  \* sets of rows a cache from before coverage may hold
    MaxReorgs,      \* bound
    MaxTrouble      \* bound: cancelled runs and failed streams

ASSUME CacheAssumption ==
    /\ {Tip, BatchBlocks} \subseteq Nat \ {0} /\ {MaxReorgs, MaxTrouble} \subseteq Nat
    /\ Birthday \in [Wallets -> 1..Tip]
    /\ LegacyHeights \subseteq SUBSET (1..Tip)

VARIABLES
    fork,      \* where branch 1 starts
    side,      \* the branch the server follows
    reorgs,
    rows,      \* table blocks: the branch of the row at a height, or Missing
    coverage,  \* table block_coverage: <<range_start, range_end>>
    leases,    \* INFLIGHT_RANGES: [by, from, to]
    eng,       \* each wallet's engine
    scanned,   \* the branches of the blocks each wallet has scanned
    store,     \* each wallet's sync_state cursor and chain_blocks hash rows
    trouble,
    adrift     \* history: wallets whose run left scanned blocks its rows do not vouch for

vars == <<fork, side, reorgs, rows, coverage, leases, eng, scanned, store, trouble, adrift>>
tables == <<rows, coverage>>
wallet == <<scanned, store, adrift>>
world == <<fork, side, reorgs>>

Missing == -1
None == <<1, 0>>            \* an empty interval: no validated range
Heights == 1..Tip
ServerBlock(h) == IF side = 1 /\ h >= fork THEN 1 ELSE 0

\* Block b at height h names block a at h - 1 as its parent.
Links(a, b, h) == a = b \/ (a = 0 /\ b = 1 /\ h = fork)
Linked(blocks, from) ==
    \A i \in 1..Len(blocks) - 1 : Links(blocks[i], blocks[i + 1], from + i)

Current(w) == Birthday[w] + Len(scanned[w])
ScannedTo(w, h) == SubSeq(scanned[w], 1, h + 1 - Birthday[w])
\* prev is previous_processed_hash.
Idle == [pc |-> "idle", range |-> None, blocks |-> <<>>, to |-> 0, lead |-> FALSE, tail |-> Missing,
         behind |-> None, prev |-> Missing]

Init ==
    /\ fork \in Heights /\ side = 0 /\ reorgs = 0 /\ trouble = 0
    /\ \E held \in LegacyHeights : rows = [h \in Heights |-> IF h \in held THEN 0 ELSE Missing]
    /\ coverage = {} /\ leases = {}
    /\ eng = [w \in Wallets |-> Idle]
    /\ scanned = [w \in Wallets |-> <<>>]
    /\ store = [w \in Wallets |-> [cursor |-> Birthday[w] - 1, hash |-> [h \in Heights |-> Missing]]]
    /\ adrift = {}

-----------------------------------------------------------------------------
(* The tables.                                                             *)

\* record_coverage_tx: overlapping and adjacent intervals become one.
Recorded(cov, s, e) ==
    LET touching == {r \in cov : r[2] >= s - 1 /\ r[1] <= e + 1}
    IN (cov \ touching) \cup {<<Min({s} \cup {r[1] : r \in touching}),
                                Max({e} \cup {r[2] : r \in touching})>>}

\* remove_coverage_tx
RemovedWholesale(cov, s, e) ==   \* mutant: keeps the part past the range by its old bounds
    {r \in cov : ~(r[1] <= e /\ r[2] >= s)} \cup
    {<<r[1], r[2]>> : r \in {r \in cov : r[1] < s /\ r[2] >= s}} \cup
    {<<e + 1, r[2]>> : r \in {r \in cov : r[1] <= e /\ r[2] > e}}
Removed(cov, s, e) ==
    LET hit == {r \in cov : r[1] <= e /\ r[2] >= s}
    IN (cov \ hit) \cup {<<r[1], s - 1>> : r \in {q \in hit : q[1] < s}}
                   \cup {<<e + 1, r[2]>> : r \in {q \in hit : q[2] > e}}

DeleteRange(s, e) ==
    /\ rows' = [h \in Heights |-> IF h \in s..e THEN Missing ELSE rows[h]]
    /\ coverage' = Removed(coverage, s, e)

DeleteAbove(height) ==
    /\ rows' = [h \in Heights |-> IF h > height THEN Missing ELSE rows[h]]
    /\ coverage' = {<<r[1], Min({r[2], height})>> : r \in {q \in coverage : q[1] <= height}}

\* store_blocks, one transaction.
StoreBlocks(from, blocks) ==
    LET to == from + Len(blocks) - 1
    IN /\ rows' = [h \in Heights |-> IF h \in from..to THEN blocks[h - from + 1] ELSE rows[h]]
       /\ coverage' = Recorded(coverage, from, to)

\* coverage_end: 0 when no interval contains the height.
CoverageEnd(h) == Max({0} \cup {r[2] : r \in {q \in coverage : q[1] <= h /\ q[2] >= h}})
\* The last row of the unbroken run that starts at h, or h - 1.
RunEnd(h) == Max({h - 1} \cup {t \in h..Tip : \A k \in h..t : rows[k] # Missing})

\* contiguous_end: rows outside the recorded coverage do not count, except in a
\* cache that has none recorded yet.
ContiguousEnd(h) ==
    IF CoverageEnd(h) # 0 THEN CoverageEnd(h)
    ELSE IF coverage # {} THEN h - 1 ELSE RunEnd(h)
\* What load_bounded_work_range_for_upgrade can return.
LoadEnd(h) ==
    IF CoverageEnd(h) # 0 THEN Min({RunEnd(h), CoverageEnd(h)})
    ELSE IF coverage # {} THEN h - 1 ELSE RunEnd(h)

-----------------------------------------------------------------------------
(* Leases.                                                                 *)

Overlaps(l, from, to) == from <= l.to /\ to >= l.from

\* The lease ends, by completion or by being dropped: every follower wakes.
Released(w, e) ==
    LET mine == {l \in leases : l.by = w}
    IN /\ leases' = leases \ mine
       /\ eng' = [v \in Wallets |->
                    IF v = w THEN [e EXCEPT !.lead = FALSE, !.tail = Missing]
                    ELSE IF eng[v].pc = "wait" /\ \E l \in mine : eng[v].behind = <<l.from, l.to>>
                         THEN [eng[v] EXCEPT !.pc = "route", !.behind = None]
                    ELSE eng[v]]
\* A token that is dropped unfinished.
DroppedSilently(w, e) ==   \* mutant
    /\ leases' = {l \in leases : l.by # w}
    /\ eng' = [eng EXCEPT ![w] = [e EXCEPT !.lead = FALSE, !.tail = Missing]]
Dropped(w, e) == Released(w, e)

-----------------------------------------------------------------------------
(* A wallet's engine.                                                      *)

At(w, pc) == eng[w].pc = pc
Goes(w, e) == eng' = [eng EXCEPT ![w] = e]

\* load_chain_block and its neighbours.
HashRows(w) == {h \in Heights : store[w].hash[h] # Missing}
HashAt(w, h) == IF h \in Heights THEN store[w].hash[h] ELSE Missing

\* find_common_ancestor, or the birthday: the newest hash row the server shares.
Ancestor(w, below) ==
    Max({Birthday[w] - 1} \cup {h \in HashRows(w) : h <= below /\ store[w].hash[h] = ServerBlock(h)})

\* rollback_to_checkpoint and invalidate_block_cache_above.  The rows go back to
\* the height a, the cursor to a tree checkpoint at or below it.
RolledBack(w, a) ==
    /\ scanned' = [scanned EXCEPT ![w] = ScannedTo(w, a)]
    /\ \E c \in Birthday[w] - 1..a :
         store' = [store EXCEPT ![w] = [cursor |-> c,
                     hash |-> [h \in Heights |-> IF h > a THEN Missing ELSE @.hash[h]]]]
    /\ DeleteAbove(a)
    /\ UNCHANGED adrift

\* The hash row validate_resume_chain compares: the one at the cursor, else the
\* newest one when that is below it, else none (0).
ResumeRow(w) ==
    LET newest == Max({0} \cup HashRows(w))
    IN IF HashAt(w, store[w].cursor) # Missing THEN store[w].cursor
       ELSE IF newest < store[w].cursor THEN newest ELSE 0

\* Where validate_resume_chain lets the run go on after: the cursor when there is
\* nothing to compare, the row when the server has it, else the common ancestor.
ResumeAfter(w) ==
    LET r == ResumeRow(w)
    IN IF r = 0 THEN store[w].cursor
       ELSE IF store[w].hash[r] = ServerBlock(r) THEN r ELSE Ancestor(w, r)

\* A run starts where there is something left to scan or to rewind.
StartRun(w) ==
    /\ At(w, "idle") /\ ResumeAfter(w) < Tip
    /\ Goes(w, [Idle EXCEPT !.pc = "horizon"])
    /\ IF ResumeAfter(w) < store[w].cursor THEN RolledBack(w, ResumeAfter(w)) ELSE UNCHANGED <<wallet, tables>>
    /\ UNCHANGED <<world, leases, trouble>>

\* validate_cache_horizon reads how far the cache reaches and its last block.
ReadHorizon(w) ==
    /\ At(w, "horizon")
    /\ LET s == Current(w)
           e == ContiguousEnd(s)
       IN IF e < s
          THEN Goes(w, [eng[w] EXCEPT !.pc = "route"]) /\ UNCHANGED tables
          ELSE IF rows[e] = Missing
          THEN Goes(w, [eng[w] EXCEPT !.pc = "route"]) /\ DeleteRange(s, e)
          ELSE /\ Goes(w, [eng[w] EXCEPT !.pc = "anchor", !.to = e, !.blocks = <<rows[e]>>])
               /\ coverage' = IF CoverageEnd(s) # 0 THEN coverage ELSE Recorded(coverage, s, e)
               /\ UNCHANGED rows
    /\ UNCHANGED <<world, leases, wallet, trouble>>

\* The server's answer for the anchor: same block, another one, or an error.
CheckAnchor(w) ==
    /\ At(w, "anchor")
    /\ LET s == Current(w)
           e == eng[w].to
           next == [eng[w] EXCEPT !.pc = "route", !.blocks = <<>>, !.to = 0]
       IN \/ /\ eng[w].blocks[1] = ServerBlock(e)
             /\ Goes(w, [next EXCEPT !.range = <<s, e>>]) /\ UNCHANGED tables
          \/ /\ eng[w].blocks[1] # ServerBlock(e)
             /\ Goes(w, next) /\ DeleteRange(s, e)
          \/ Goes(w, next) /\ UNCHANGED tables
    /\ UNCHANGED <<world, leases, wallet, trouble>>

\* The next batch is read from the cache, or is not there.
Route(w) ==
    /\ At(w, "route")
    /\ LET s == Current(w)
           e == Min({LoadEnd(s), s + BatchBlocks - 1})
       IN \/ s > Tip /\ Goes(w, Idle)
          \/ s <= Tip /\ e < s /\ Goes(w, [eng[w] EXCEPT !.pc = "lease"])
          \/ s <= Tip /\ \E to \in s..e :
               Goes(w, [eng[w] EXCEPT !.pc = "check", !.to = to, !.blocks = SubSeq(rows, s, to)])
    /\ UNCHANGED <<world, tables, leases, wallet, trouble>>

Accepted(w) == [eng[w] EXCEPT !.pc = "scan"]
Refused(w) == [eng[w] EXCEPT !.pc = "lease", !.blocks = <<>>, !.to = 0]

\* cached_blocks_are_canonical
CheckBatch(w) ==
    /\ At(w, "check")
    /\ LET s == Current(w)
           e == eng[w].to
           linked == Linked(eng[w].blocks, s)
           trusted == eng[w].range[1] <= s /\ e <= eng[w].range[2]
       IN \/ linked /\ trusted /\ Goes(w, Accepted(w)) /\ UNCHANGED tables
          \/ /\ linked /\ ~trusted /\ Last(eng[w].blocks) = ServerBlock(e)
             /\ Goes(w, Accepted(w)) /\ UNCHANGED tables
          \/ /\ ~linked \/ (~trusted /\ Last(eng[w].blocks) # ServerBlock(e))
             /\ Goes(w, Refused(w)) /\ DeleteRange(s, e)
    /\ UNCHANGED <<world, leases, wallet, trouble>>

\* The server cannot be asked: the batch is dropped from the cache as well.
CheckBatchUnanswered(w) ==
    /\ At(w, "check") /\ trouble < MaxTrouble
    /\ ~(eng[w].range[1] <= Current(w) /\ eng[w].to <= eng[w].range[2])
    /\ Goes(w, Refused(w)) /\ DeleteRange(Current(w), eng[w].to)
    /\ trouble' = trouble + 1
    /\ UNCHANGED <<world, leases, wallet>>

\* acquire_inflight: follow a lease that overlaps, or lead.
Acquire(w) ==
    /\ At(w, "lease")
    /\ \/ \E l \in leases : /\ Overlaps(l, Current(w), Tip)
                            /\ Goes(w, [eng[w] EXCEPT !.pc = "wait", !.behind = <<l.from, l.to>>])
                            /\ UNCHANGED leases
       \/ /\ \A l \in leases : ~Overlaps(l, Current(w), Tip)
          /\ leases' = leases \cup {[by |-> w, from |-> Current(w), to |-> Tip]}
          /\ Goes(w, [eng[w] EXCEPT !.pc = "stream", !.lead = TRUE])
    /\ UNCHANGED <<world, tables, wallet, trouble>>

\* The next segment of the stream, linked to the one before; storing it may fail.
Stream(w) ==
    /\ At(w, "stream")
    /\ LET s == Current(w)
       IN \E to \in s..Min({Tip, s + BatchBlocks - 1}) :
            LET blocks == [i \in 1..to - s + 1 |-> ServerBlock(s + i - 1)]
            IN /\ eng[w].tail = Missing \/ Links(eng[w].tail, blocks[1], s)
               /\ Goes(w, [eng[w] EXCEPT !.pc = "scan", !.blocks = blocks, !.to = to,
                                         !.tail = Last(blocks)])
               /\ StoreBlocks(s, blocks) \/ UNCHANGED tables
    /\ UNCHANGED <<world, leases, wallet, trouble>>

\* The stream breaks, because the server changed branch or by itself; the
\* scanner starts a new producer.
StreamBreaks(w) ==
    /\ At(w, "stream")
    /\ \/ eng[w].tail # Missing /\ ~Links(eng[w].tail, ServerBlock(Current(w)), Current(w)) /\ UNCHANGED trouble
       \/ trouble < MaxTrouble /\ trouble' = trouble + 1
    /\ Dropped(w, [eng[w] EXCEPT !.pc = "route"])
    /\ UNCHANGED <<world, tables, wallet>>

\* validate_batch_boundary: the batch must name the block scanned before it, known
\* from this run or from a hash row; without either it is accepted.
Known(w) == IF eng[w].prev # Missing THEN eng[w].prev ELSE HashAt(w, Current(w) - 1)
BoundaryTrusted(w) ==   \* mutant
    (Known(w) # Missing /\ ~(eng[w].range[1] <= Current(w) /\ eng[w].to <= eng[w].range[2]))
        => Links(Known(w), eng[w].blocks[1], Current(w))
BoundaryValid(w) ==
    Known(w) # Missing => Links(Known(w), eng[w].blocks[1], Current(w))

\* The batch is scanned; persist_notes moves the cursor to the highest note found.
Scan(w) ==
    /\ At(w, "scan") /\ BoundaryValid(w)
    /\ scanned' = [scanned EXCEPT ![w] = @ \o eng[w].blocks]
    /\ \E note \in {store[w].cursor} \cup (Current(w)..eng[w].to) :
         store' = [store EXCEPT ![w].cursor = note]
    /\ Goes(w, [eng[w] EXCEPT !.pc = "save"])
    /\ UNCHANGED <<world, tables, leases, adrift, trouble>>

\* The engine after a batch: the next one, from the stream it leads or the cache.
Onward(w) ==
    LET e == [eng[w] EXCEPT !.blocks = <<>>, !.to = 0, !.prev = Last(eng[w].blocks)]
    IN IF ~eng[w].lead THEN Goes(w, [e EXCEPT !.pc = "route"]) /\ UNCHANGED leases
       ELSE IF eng[w].to < Tip THEN Goes(w, [e EXCEPT !.pc = "stream"]) /\ UNCHANGED leases
       ELSE Released(w, Idle)

\* The batch in hand, by height, and a row kept from before that it contradicts.
BatchStart(w) == eng[w].to - Len(eng[w].blocks) + 1
BatchBlock(w, h) == eng[w].blocks[h - BatchStart(w) + 1]
Contradicts(w, below) ==
    \E h \in BatchStart(w)..below : store[w].hash[h] \notin {Missing, BatchBlock(w, h)}

\* save_sync_progress: the cursor and the batch's hash rows.
Flush(w) ==
    /\ At(w, "save")
    /\ store' = [store EXCEPT ![w] = [cursor |-> eng[w].to,
                   hash |-> [h \in Heights |-> IF h \in BatchStart(w)..eng[w].to THEN BatchBlock(w, h)
                                               ELSE @.hash[h]]]]
    /\ Onward(w)
    /\ UNCHANGED <<world, tables, scanned, adrift, trouble>>

\* The flush is not due, which at the end of the range it always is.
NoFlush(w) ==
    /\ At(w, "save") /\ eng[w].to < Tip
    /\ adrift' = IF Contradicts(w, eng[w].to) THEN adrift \cup {w} ELSE adrift
    /\ Onward(w)
    /\ UNCHANGED <<world, tables, scanned, store, trouble>>

\* A reorganisation at the batch boundary.
BoundaryReorg(w) ==
    /\ At(w, "scan") /\ ~BoundaryValid(w)
    /\ RolledBack(w, Ancestor(w, Current(w) - 1))
    /\ Dropped(w, [Idle EXCEPT !.pc = "route"])
    /\ UNCHANGED <<world, trouble>>

\* No hash row vouches for the cursor the run leaves.
Unwitnessed(w) ==
    \/ store[w].cursor >= Birthday[w] /\ ResumeRow(w) = 0
    \/ At(w, "save") /\ Contradicts(w, store[w].cursor)

\* The run is cancelled; its tasks and its lease are dropped.  What it scanned
\* above the cursor will be scanned again.
Cancel(w) ==
    /\ ~At(w, "idle") /\ trouble < MaxTrouble
    /\ trouble' = trouble + 1
    /\ Dropped(w, Idle)
    /\ scanned' = [scanned EXCEPT ![w] = ScannedTo(w, store[w].cursor)]
    /\ adrift' = IF Unwitnessed(w) THEN adrift \cup {w} ELSE adrift
    /\ UNCHANGED <<world, tables, store>>

Reorg ==
    /\ reorgs < MaxReorgs
    /\ reorgs' = reorgs + 1
    /\ side' = 1 - side
    /\ UNCHANGED <<fork, tables, leases, eng, wallet, trouble>>

Engine(w) ==
    StartRun(w) \/ ReadHorizon(w) \/ CheckAnchor(w) \/ Route(w) \/ CheckBatch(w) \/ Acquire(w)
    \/ Stream(w) \/ Scan(w) \/ Flush(w) \/ NoFlush(w) \/ BoundaryReorg(w)
Next ==
    \/ Reorg
    \/ \E w \in Wallets : Engine(w) \/ CheckBatchUnanswered(w) \/ StreamBreaks(w) \/ Cancel(w)

\* Each engine task runs whenever it can; a stream that cannot continue ends.
Fairness == \A w \in Wallets : WF_vars(Engine(w)) /\ WF_vars(StreamBreaks(w))
Spec == Init /\ [][Next]_vars /\ Fairness

-----------------------------------------------------------------------------
\* Coverage only claims what is there: its intervals are apart and every height
\* in them has a row, whatever the order of stores, deletions and crashes.
CoverageBacked ==
    /\ \A r \in coverage : r[1] <= r[2] /\ \A h \in r[1]..r[2] : rows[h] # Missing
    /\ \A r, q \in coverage : r # q => r[2] + 1 < q[1] \/ q[2] + 1 < r[1]

\* No wallet scans a block onto one that is not its parent, also when interval
\* coverage joined rows of two branches and the anchor vouched for all of them,
\* unless one of its runs left blocks behind that its hash rows do not vouch for.
ScannedLinked == \A w \in Wallets \ adrift : Linked(scanned[w], Birthday[w])

\* Once the server stays on a branch every such wallet ends up with exactly its
\* blocks: stale rows are flushed out and nobody waits for a download that has ended.
Converges ==
    <>[](\A w \in Wallets \ adrift :
            scanned[w] = [i \in 1..Tip + 1 - Birthday[w] |-> ServerBlock(Birthday[w] + i - 1)])
=============================================================================
