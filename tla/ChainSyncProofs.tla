--------------------------- MODULE ChainSyncProofs ---------------------------
(***************************************************************************)
(* Four facts about ChainSync for every chain, every set of pools and any  *)
(* number of reorganisations, repairs, rescans and interruptions: the      *)
(* persistence worker never works on trees the database no longer has, the *)
(* cursor never runs ahead of the trees, the trees hold one real chain and *)
(* one hash row vouches for them, and they implement ScanLog.              *)
(*                                                                         *)
(* The cache.  All rewinds but one go through the worker, which drops its  *)
(* cache.  The monitor of a following run rewinds on a connection of its   *)
(* own, so the cache can be stale; CacheCoherent says it is not used then. *)
(* What saves the engine is the block it remembers as the last one         *)
(* scanned: the monitor leaves that block alone, so the first batch after  *)
(* its rewind does not follow it, the boundary check fails and the         *)
(* rollback drops the cache.  The inductive invariant says so step by      *)
(* step: a run with no last block has no cache to go stale (Linked), the   *)
(* last block's height is the run's progress, and while the cache is stale *)
(* the next batch starts at or below that height and above 1               *)
(* (StaleOnlyAfterMonitor).                                                *)
(*                                                                         *)
(* The cursor.  A checkpoint of a height stands after at least as many     *)
(* leaves as the height has commitments (SoundTree), so a tree rewound to  *)
(* it, and a position counter recovered from it, have got that far.  The   *)
(* invariant carries the same bound for the run: before a batch the        *)
(* positions and the trees have reached the block below it, inside a batch *)
(* its last block (Level).  That the worker inserts into the database's    *)
(* own trees is the first fact.                                            *)
(*                                                                         *)
(* The chain.  While no excuse holds there are a branch b and a height h   *)
(* such that both trees hold exactly b's leaves up to h (Standing).  Three *)
(* things tie b to the server's chain: a hash row the server shares        *)
(* (RowsVouch), a common checkpoint that no row guards (Anchored), and the *)
(* block the run remembers (Running).  A batch comes from one branch c; it *)
(* either follows b or the boundary check turns it away (OnBatch), and     *)
(* when it is written the trees move to c and its last height.  Every      *)
(* rewind keeps b and lowers h to a common checkpoint (RewindStands).      *)
(*                                                                         *)
(* The log.  Every step leaves the trees on the branch they were on        *)
(* (SameBranch) or seeds them with the server's, so the log ScanLog speaks *)
(* of grows at its end, loses a suffix or starts again.                    *)
(***************************************************************************)
EXTENDS ChainSync, SequenceTheorems, FiniteSetTheorems, Extrema

EngineFields == {"pc", "follow", "gap", "start", "cur", "end", "last", "prev", "batch", "pos", "prog",
                 "target", "ckpt"}
Resting == {"idle", "validate", "init"}
Between == {"outer", "main", "monitor", "return"}
InBatch == {"batch", "notes", "ckpt", "save"}

SyncTypes ==
    /\ tip \in Birthday..Top
    /\ DOMAIN db = {"local", "rows", "trees"} /\ RowHeights(db.rows) \subseteq 1..Top
    /\ db.local \in Nat
    /\ DOMAIN eng = EngineFields
    /\ eng.pc \in Resting \cup Between \cup InBatch
    /\ eng.start \in Nat /\ eng.cur \in Nat /\ eng.end \in Nat /\ eng.last \in Nat /\ eng.prog \in Nat
    /\ eng.target \in Nat
    /\ eng.pc \in {"validate", "init"} => eng.start >= 1
    /\ eng.pc \notin {"idle", "validate"} => eng.cur >= 1
    /\ eng.pc # "idle" => eng.end >= Birthday

\* The fetched blocks are the ones from cur on.
Fetched(b, cur) ==
    /\ DOMAIN b = 1..Len(b) /\ Len(b) \in Nat /\ Len(b) >= 1 /\ cur + Len(b) - 1 <= Top
    /\ \A i \in 1..Len(b) : b[i][1] = cur + i - 1
BatchAtCur == eng.pc \in InBatch => Fetched(eng.batch, eng.cur) /\ eng.cur <= eng.end

\* The last block of the run is the one below the progress height; a run that
\* has none has not used its worker, or dropped the cache.
Linked ==
    /\ eng.pc \in Resting => cache = NoCache /\ eng.prev = NoBlock
    /\ eng.prev # NoBlock => eng.prev[1] = eng.prog
    /\ eng.prev = NoBlock /\ eng.pc \in {"outer", "main", "batch", "monitor"} => cache = NoCache
    /\ eng.pc = "init" => eng.last >= eng.prog
    /\ eng.prev = NoBlock /\ eng.pc \in {"outer", "main", "batch"} =>
          eng.cur <= eng.end \/ eng.last >= eng.prog

\* A cache that is not the database's: the monitor has just rewound behind it,
\* and the next batch starts at or below the last block of the run.
Stale == cache # NoCache /\ cache # db.trees
StaleOnlyAfterMonitor ==
    Stale => /\ eng.pc \in {"outer", "main", "batch"}
             /\ 2 <= eng.cur /\ eng.cur <= eng.prog /\ eng.cur <= eng.end

CoherenceInv == SyncTypes /\ BatchAtCur /\ Linked /\ StaleOnlyAfterMonitor

-----------------------------------------------------------------------------
LEMMA Heights1 ==
    /\ Activation \in Nat /\ Activation >= 1 /\ Birthday \in Nat /\ Birthday >= 1 /\ Top \in Nat
    /\ Activation <= Birthday /\ Birthday <= Top /\ SearchDepth \in Nat /\ PruningDepth \in Nat
BY HeightsAssumption, BoundsAssumption

LEMMA CommonBounded ==
  ASSUME NEW trees, NEW h \in Int
  PROVE  /\ NewestCommon(trees, h) \in Int /\ NewestCommon(trees, h) >= -1
         /\ NewestCommon(trees, h) <= Top
         /\ h >= -1 => NewestCommon(trees, h) <= h
<1> USE Heights1
<1> DEFINE cs == {k \in Common(trees) : k <= h}
<1>1. cs \in SUBSET (0..Top) /\ \A k \in cs : k <= h
  BY DEF Common
<1>2. CASE cs = {}
  BY <1>2 DEF NewestCommon
<1>3. CASE cs # {}
  <2>1. NewestCommon(trees, h) = Max(cs)
    BY <1>3 DEF NewestCommon
  <2> HIDE DEF cs
  <2>2. Max(cs) \in cs
    BY <1>1, <1>3, MaxOfBounded, 0 \in Int, Top \in Int
  <2> DEFINE m == Max(cs)
  <2>3. NewestCommon(trees, h) = m /\ m \in cs
    BY <2>1, <2>2
  <2> HIDE DEF m
  <2>4. m \in 0..Top /\ m <= h
    BY <1>1, <2>3
  <2> QED BY <2>3, <2>4
<1> QED BY <1>2, <1>3

LEMMA ReplayBounded ==
  ASSUME NEW d, NEW h \in Int
  PROVE  ReplayHeight(d, h) \in Nat /\ ReplayHeight(d, h) <= Top
<1> DEFINE c == NewestCommon(d.trees, h)
<1>1. c \in Int /\ c <= Top
  BY CommonBounded
<1>2. ReplayHeight(d, h) = IF c >= 0 THEN c ELSE 0
  BY <1>1, MaxOfTwo, 0 \in Int DEF ReplayHeight
<1> HIDE DEF c
<1> QED BY <1>1, <1>2, Heights1

LEMMA TruncatedFields ==
  ASSUME NEW d, RowHeights(d.rows) \subseteq 1..Top, NEW h \in Int
  PROVE  LET e == TruncateAbove(d, h)
         IN /\ DOMAIN e = {"local", "rows", "trees"} /\ RowHeights(e.rows) \subseteq 1..Top
            /\ e.local \in Nat /\ e.local = ReplayHeight(d, h)
<1> DEFINE rows == [k \in {j \in RowHeights(d.rows) : j <= h} |-> d.rows[k]]
           trees == [p \in Pools |->
                       IF NewestCommon(d.trees, h) < 0 THEN EmptyTree
                       ELSE TruncateTree(d.trees[p], NewestCommon(d.trees, h))]
           e == TruncateAbove(d, h)
<1>1. e = [local |-> ReplayHeight(d, h), rows |-> rows, trees |-> trees]
  BY DEF TruncateAbove
<1>2. RowHeights(rows) \subseteq 1..Top
  BY DEF RowHeights
<1> HIDE DEF rows, trees, e
<1>3. DOMAIN e = {"local", "rows", "trees"} /\ e.rows = rows /\ e.local = ReplayHeight(d, h)
  BY <1>1
<1> QED BY <1>2, <1>3, ReplayBounded DEF e

\* Where a rewind may go: the floor below the birthday or a row above it.
LEMMA AncestorBounded ==
  ASSUME NEW rows, NEW div \in Int, RowHeights(rows) \subseteq 1..Top
  PROVE  /\ AncestorOrFloor(rows, div) \in Nat
         /\ AncestorOrFloor(rows, div) >= Birthday - 1
         /\ AncestorOrFloor(rows, div) <= Max({div, Birthday - 1})
<1> USE Heights1
<1> DEFINE stop == Max({div - SearchDepth, Birthday - 1})
           same == {h \in RowHeights(rows) \cap (stop..div) : Matches(rows, h)}
<1>1. stop \in Int /\ stop >= Birthday - 1
  <2>1. div - SearchDepth \in Int /\ Birthday - 1 \in Int
    OBVIOUS
  <2>2. stop = IF div - SearchDepth >= Birthday - 1 THEN div - SearchDepth ELSE Birthday - 1
    BY <2>1, MaxOfTwo
  <2> QED BY <2>1, <2>2
<1>2. Max({div, Birthday - 1}) = IF div >= Birthday - 1 THEN div ELSE Birthday - 1
  BY MaxOfTwo, Birthday - 1 \in Int
<1>3. FindCommonAncestor(rows, div) = IF same = {} THEN -1 ELSE Max(same)
  BY DEF FindCommonAncestor
<1> HIDE DEF stop
<1>4. same \in SUBSET (stop..div)
  OBVIOUS
<1>5. CASE same = {}
  <2>1. AncestorOrFloor(rows, div) = Birthday - 1
    BY <1>3, <1>5 DEF AncestorOrFloor
  <2> QED BY <1>2, <2>1
<1>6. CASE same # {}
  <2> HIDE DEF same
  <2>1. Max(same) \in same
    BY <1>1, <1>4, <1>6, MaxOfBounded
  <2> DEFINE m == Max(same)
  <2>3. FindCommonAncestor(rows, div) = m /\ m \in same
    BY <1>3, <1>6, <2>1
  <2> HIDE DEF m
  <2>2. m \in Int /\ m >= Birthday - 1 /\ m <= div
    BY <1>1, <1>4, <2>3
  <2>4. AncestorOrFloor(rows, div) = m
    BY <2>2, <2>3 DEF AncestorOrFloor
  <2> QED BY <1>2, <2>2, <2>4
<1> QED BY <1>5, <1>6

LEMMA ResumeRowBounded ==
  ASSUME NEW rows, NEW h \in Nat, RowHeights(rows) \subseteq 1..Top
  PROVE  LET row == ResumeRow(rows, h)
         IN /\ row[1] \in Nat /\ row[1] <= h
            /\ row[2] \in BOOLEAN
            /\ row[1] # 0 => row[1] \in RowHeights(rows)
            /\ row[2] => row[1] >= 1 /\ row[1] < h
<1> USE Heights1
<1>1. CASE h \in RowHeights(rows)
  BY <1>1 DEF ResumeRow
<1>2. CASE h \notin RowHeights(rows) /\ RowHeights(rows) # {} /\ Max(RowHeights(rows)) < h
  <2>1. Max(RowHeights(rows)) \in RowHeights(rows)
    BY <1>2, MaxOfBounded, 1 \in Int, Top \in Int
  <2> DEFINE m == Max(RowHeights(rows))
  <2>2. m \in Nat /\ m >= 1 /\ m < h /\ m \in RowHeights(rows)
    BY <1>2, <2>1
  <2>3. ResumeRow(rows, h) = <<m, TRUE>>
    BY <1>2 DEF ResumeRow
  <2> HIDE DEF m
  <2> QED BY <2>2, <2>3
<1>3. CASE h \notin RowHeights(rows) /\ ~(RowHeights(rows) # {} /\ Max(RowHeights(rows)) < h)
  <2>1. ResumeRow(rows, h) = <<0, FALSE>>
    BY <1>3 DEF ResumeRow
  <2> QED BY <2>1
<1> QED BY <1>1, <1>2, <1>3

\* validate_resume_chain goes on where it was told to, or rewinds to below that
\* and at least to the birthday's parent.
LEMMA ResumeBounded ==
  ASSUME NEW rows, NEW start \in Nat, start >= 1, NEW end, NEW gap, RowHeights(rows) \subseteq 1..Top
  PROVE  LET v == ValidateResume(rows, start, end, gap)
         IN /\ v[1] \in Nat /\ v[2] \in Int /\ v[1] >= 1
            /\ \/ v[1] = start /\ v[2] = -1
               \/ v[1] = v[2] + 1 /\ v[2] >= 0
            /\ v[1] # start => v[1] >= 2 \/ v[1] >= Birthday
<1> USE Heights1
<1> DEFINE row == ResumeRow(rows, start - 1)
           v == ValidateResume(rows, start, end, gap)
           a == AncestorOrFloor(rows, row[1])
<1>1. /\ row[1] \in Nat /\ row[1] <= start - 1 /\ row[2] \in BOOLEAN
      /\ row[2] => row[1] >= 1 /\ row[1] < start - 1
  BY ResumeRowBounded, start - 1 \in Nat
<1>2. a \in Nat /\ a >= Birthday - 1
  BY <1>1, AncestorBounded, row[1] \in Int
<1>3. v = <<start, -1>> \/ (row[2] /\ v = <<row[1] + 1, row[1]>>) \/ v = <<a + 1, a>>
  <2>1. CASE start = 1 \/ start - 1 > end \/ row[1] = 0 \/ row[1] > end
    BY <2>1 DEF ValidateResume
  <2>2. CASE ~(start = 1 \/ start - 1 > end \/ row[1] = 0 \/ row[1] > end)
    BY <2>2 DEF ValidateResume
  <2> QED BY <2>1, <2>2
<1> HIDE DEF row, a, v
<1>4. CASE v = <<start, -1>>
  <2>1. v[1] = start /\ v[2] = -1
    BY <1>4
  <2> QED BY <2>1 DEF v
<1>5. CASE row[2] /\ v = <<row[1] + 1, row[1]>>
  <2>1. v[1] = row[1] + 1 /\ v[2] = row[1]
    BY <1>5
  <2> QED BY <1>1, <1>5, <2>1 DEF v
<1>6. CASE v = <<a + 1, a>>
  <2>1. v[1] = a + 1 /\ v[2] = a
    BY <1>6
  <2> QED BY <1>2, <2>1 DEF v
<1> QED BY <1>3, <1>4, <1>5, <1>6

-----------------------------------------------------------------------------
(* The steps.  Birthday > 1: a batch at height 1 has no parent to compare. *)

LEMMA CoherenceStart == Init => CoherenceInv
<1> USE Heights1
<1> SUFFICES ASSUME Init PROVE CoherenceInv
  OBVIOUS
<1> DEFINE none == [h \in {} |-> NoBlock]
           zero == [p \in Pools |-> 0]
           nothing == <<>>
<1>1. /\ db = [local |-> 0, rows |-> none, trees |-> NoTrees] /\ RowHeights(none) = {}
      /\ cache = NoCache /\ tip = Birthday
  BY DEF Init, RowHeights
<1>2. eng = [pc |-> "idle", follow |-> FALSE, gap |-> FALSE, start |-> 0, cur |-> 0, end |-> 0, last |-> 0,
             prev |-> NoBlock, batch |-> nothing, pos |-> zero, prog |-> 0, target |-> NoTarget,
             ckpt |-> FALSE]
  BY DEF Init, Idle
<1> HIDE DEF none, zero, nothing
<1>3. DOMAIN db = {"local", "rows", "trees"} /\ db.rows = none /\ db.local = 0
  BY <1>1
<1>4. /\ DOMAIN eng = EngineFields /\ eng.pc = "idle" /\ eng.start = 0 /\ eng.cur = 0 /\ eng.end = 0
      /\ eng.last = 0 /\ eng.prog = 0 /\ eng.prev = NoBlock /\ eng.target = 0
  BY <1>2 DEF EngineFields, NoTarget
<1> QED BY <1>1, <1>3, <1>4
        DEF CoherenceInv, SyncTypes, BatchAtCur, Linked, StaleOnlyAfterMonitor, Stale, Resting, Between,
            InBatch

LEMMA IdleFields ==
    /\ DOMAIN Idle = EngineFields /\ Idle.pc = "idle" /\ Idle.start = 0 /\ Idle.cur = 0 /\ Idle.end = 0
    /\ Idle.last = 0 /\ Idle.prog = 0 /\ Idle.prev = NoBlock /\ Idle.target = 0
<1> DEFINE zero == [p \in Pools |-> 0]
           nothing == <<>>
<1>2. Idle = [pc |-> "idle", follow |-> FALSE, gap |-> FALSE, start |-> 0, cur |-> 0, end |-> 0, last |-> 0,
             prev |-> NoBlock, batch |-> nothing, pos |-> zero, prog |-> 0, target |-> NoTarget,
             ckpt |-> FALSE]
  BY DEF Idle
<1> HIDE DEF zero, nothing
<1> QED BY <1>2 DEF EngineFields, NoTarget

LEMMA ChainMoves ==
  ASSUME CoherenceInv, Grow \/ Reorg
  PROVE  CoherenceInv'
<1> USE Heights1
<1>1. UNCHANGED <<db, cache, eng>> /\ tip' \in Birthday..Top
  BY DEF Grow, Reorg, CoherenceInv, SyncTypes
<1> QED BY <1>1
        DEF CoherenceInv, SyncTypes, BatchAtCur, Linked, StaleOnlyAfterMonitor, Stale, Resting, Between,
            InBatch, Fetched, RowHeights

\* The run ends and its worker with it.
LEMMA RunEnds ==
  ASSUME CoherenceInv, Return \/ Stop \/ InsertFails
  PROVE  CoherenceInv'
<1>1. UNCHANGED <<tip, db>> /\ cache' = NoCache /\ eng' = Idle
  BY DEF Return, Stop, InsertFails, chainVars
<1> QED BY <1>1, IdleFields
        DEF CoherenceInv, SyncTypes, BatchAtCur, Linked, StaleOnlyAfterMonitor, Stale, Resting, Between,
            InBatch, RowHeights

LEMMA RunStarts ==
  ASSUME CoherenceInv, Start \/ StartRescan
  PROVE  CoherenceInv'
<1> USE Heights1
<1>0. eng.pc = "idle" /\ cache = NoCache /\ tip \in Nat /\ tip >= Birthday /\ db.local \in Nat
      /\ RowHeights(db.rows) \subseteq 1..Top
  <2>1. eng.pc = "idle"
    BY DEF Start, StartRescan
  <2>2. tip \in Birthday..Top /\ tip >= Birthday
    BY DEF CoherenceInv, SyncTypes
  <2> QED BY <2>1, <2>2 DEF CoherenceInv, SyncTypes, Linked, Resting
<1>1. UNCHANGED <<tip, cache>>
  BY DEF Start, StartRescan, chainVars
<1>2. DOMAIN db' = {"local", "rows", "trees"} /\ RowHeights(db'.rows) \subseteq 1..Top /\ db'.local \in Nat
  <2>1. CASE Start
    BY <2>1 DEF Start, CoherenceInv, SyncTypes, RowHeights
  <2>2. CASE StartRescan
    <3>1. PICK from \in Birthday..tip : db' = TruncateAbove(db, from - 1)
      BY <2>2 DEF StartRescan
    <3> QED BY <1>0, <3>1, TruncatedFields, from - 1 \in Int
  <2> QED BY <2>1, <2>2
<1>3. /\ DOMAIN eng' = EngineFields /\ eng'.pc = "validate" /\ eng'.start \in Nat /\ eng'.cur = 0
      /\ eng'.end \in Nat /\ eng'.last = 0 /\ eng'.prog \in Nat /\ eng'.prev = NoBlock
      /\ eng'.start >= 1 /\ eng'.end >= Birthday /\ eng'.target = 0
  <2>1. CASE Start
    <3> DEFINE first == IF db.local > 0 THEN db.local + 1 ELSE Birthday
               start == Max({Birthday, first})
    <3>1. PICK follow \in BOOLEAN :
            eng' = [Idle EXCEPT !.pc = "validate", !.follow = follow, !.gap = TRUE,
                                !.start = start, !.prog = start - 1, !.end = tip]
      BY <2>1 DEF Start
    <3>2. start = IF Birthday >= first THEN Birthday ELSE first
      BY <1>0, MaxOfTwo, Birthday \in Int, first \in Int
    <3>3. start \in Nat /\ start >= 1
      BY <1>0, <3>2
    <3> HIDE DEF start, first
    <3> QED BY <1>0, <3>1, <3>3, IdleFields DEF EngineFields
  <2>2. CASE StartRescan
    <3>1. PICK from \in Birthday..tip :
            eng' = [Idle EXCEPT !.pc = "validate", !.start = from, !.prog = from - 1,
                                !.end = Max({tip, from})]
      BY <2>2 DEF StartRescan
    <3> DEFINE m == Max({tip, from})
    <3>2. m \in Nat /\ m >= Birthday
      BY <1>0, MaxOfTwo, tip \in Int, from \in Int
    <3>3. eng' = [Idle EXCEPT !.pc = "validate", !.start = from, !.prog = from - 1, !.end = m]
      BY <3>1
    <3> HIDE DEF m
    <3> QED BY <3>2, <3>3, IdleFields DEF EngineFields
  <2> QED BY <2>1, <2>2
<1> QED BY <1>0, <1>1, <1>2, <1>3
        DEF CoherenceInv, SyncTypes, BatchAtCur, Linked, StaleOnlyAfterMonitor, Stale, Resting, Between,
            InBatch

LEMMA ValidateStep ==
  ASSUME CoherenceInv, Validate
  PROVE  CoherenceInv'
<1> USE Heights1
<1> DEFINE v == ValidateResume(db.rows, eng.start, eng.end, eng.gap)
<1>0. eng.pc = "validate" /\ cache = NoCache /\ eng.prev = NoBlock /\ RowHeights(db.rows) \subseteq 1..Top
      /\ eng.start \in Nat /\ eng.start >= 1
  BY DEF Validate, CoherenceInv, SyncTypes, Linked, Resting
<1>1. v[1] \in Nat /\ v[2] \in Int /\ v[1] >= 1
  BY <1>0, ResumeBounded
<1>2. UNCHANGED <<tip, cache>>
  BY DEF Validate, chainVars
<1>3. db' = IF v[2] < 0 THEN db ELSE TruncateAbove(db, v[2])
  BY DEF Validate
<1>4. eng' = [eng EXCEPT !.pc = "init", !.start = v[1], !.cur = v[1], !.prog = v[1] - 1, !.last = v[1] - 1]
  BY DEF Validate
<1> HIDE DEF v
<1>5. DOMAIN db' = {"local", "rows", "trees"} /\ RowHeights(db'.rows) \subseteq 1..Top /\ db'.local \in Nat
  <2>1. CASE v[2] < 0
    BY <1>3, <2>1 DEF CoherenceInv, SyncTypes
  <2>2. CASE ~(v[2] < 0)
    BY <1>0, <1>1, <1>3, <2>2, TruncatedFields
  <2> QED BY <2>1, <2>2
<1>6. /\ DOMAIN eng' = EngineFields /\ eng'.pc = "init" /\ eng'.start = v[1] /\ eng'.cur = v[1]
      /\ eng'.end = eng.end /\ eng'.last = v[1] - 1 /\ eng'.prog = v[1] - 1 /\ eng'.prev = eng.prev
      /\ eng'.target = eng.target
  BY <1>4 DEF CoherenceInv, SyncTypes, EngineFields
<1> QED BY <1>0, <1>1, <1>2, <1>5, <1>6
        DEF CoherenceInv, SyncTypes, BatchAtCur, Linked, StaleOnlyAfterMonitor, Stale, Resting, Between,
            InBatch

LEMMA InitStep ==
  ASSUME CoherenceInv, InitFromActivation \/ InitLocal \/ InitSeed \/ InitReplay
  PROVE  CoherenceInv'
<1> USE Heights1
<1>0. /\ eng.pc = "init" /\ cache = NoCache /\ eng.prev = NoBlock /\ eng.start \in Nat /\ eng.start >= 1
      /\ eng.cur >= 1 /\ SyncTypes /\ db.local \in Nat
  BY DEF InitFromActivation, InitLocal, InitSeed, InitReplay, CoherenceInv, SyncTypes, Linked, Resting
<1>1. UNCHANGED <<tip, cache>>
  BY DEF InitFromActivation, InitLocal, InitSeed, InitReplay, chainVars
<1>2. /\ DOMAIN db' = {"local", "rows", "trees"} /\ db'.rows = db.rows /\ db'.local \in Nat
      /\ DOMAIN eng' = EngineFields /\ eng'.pc = "outer" /\ eng'.start = eng.start
      /\ eng'.prev = eng.prev /\ eng'.end = eng.end /\ eng'.target \in Nat
      /\ \/ eng'.cur = eng.cur /\ eng'.last = eng.last /\ eng'.prog = eng.prog
         \/ eng'.cur \in Nat /\ eng'.cur >= 1 /\ eng'.last \in Nat /\ eng'.prog = eng'.last
  <2>1. CASE InitFromActivation
    <3> DEFINE base == Activation - 1
               trees == [p \in Pools |-> AddCheckpoint(EmptyTree, base)]
               goal == IF Activation < eng.start THEN eng.start - 1 ELSE NoTarget
               pos == RecoverPositions(trees)
    <3>1. db' = [db EXCEPT !.trees = trees, !.local = base]
      BY <2>1 DEF InitFromActivation
    <3>2. eng' = [[eng EXCEPT !.cur = Activation, !.last = base, !.prog = base, !.target = goal]
                    EXCEPT !.pc = "outer", !.pos = pos]
      BY <2>1 DEF InitFromActivation, Loaded
    <3>3. base \in Nat /\ goal \in Nat
      BY <1>0 DEF NoTarget
    <3> HIDE DEF base, trees, goal, pos
    <3> QED BY <1>0, <3>1, <3>2, <3>3 DEF SyncTypes, EngineFields
  <2>2. CASE InitLocal
    <3> DEFINE trees == [p \in Pools |-> Retain(db.trees[p], eng.start - 1)]
               pos == RecoverPositions(db.trees)
    <3>1. db' = [db EXCEPT !.trees = trees]
      BY <2>2 DEF InitLocal
    <3>2. eng' = [eng EXCEPT !.pc = "outer", !.pos = pos]
      BY <2>2 DEF InitLocal, Loaded
    <3> HIDE DEF trees, pos
    <3> QED BY <1>0, <3>1, <3>2 DEF SyncTypes, EngineFields
  <2>3. CASE InitSeed
    <3> DEFINE h == eng.start - 1
               trees == [p \in Pools |->
                  Retain(AddCheckpoint([EmptyTree EXCEPT !.leaves = LeavesTo(p, Branch, h)], h), h)]
               pos == RecoverPositions(trees)
    <3>1. db' = [db EXCEPT !.trees = trees]
      BY <2>3 DEF InitSeed
    <3>2. eng' = [eng EXCEPT !.pc = "outer", !.pos = pos]
      BY <2>3 DEF InitSeed, Loaded
    <3> HIDE DEF trees, pos
    <3> QED BY <1>0, <3>1, <3>2 DEF SyncTypes, EngineFields
  <2>4. CASE InitReplay
    <3> DEFINE c == PartialReplay(db, eng.start - 1)
               trees == [p \in Pools |-> TruncateTree(db.trees[p], c)]
               pos == RecoverPositions(trees)
               goal == eng.start - 1
    <3>1. db' = [db EXCEPT !.trees = trees, !.local = c] /\ c >= Activation - 1
      BY <2>4 DEF InitReplay
    <3>2. eng' = [[eng EXCEPT !.cur = c + 1, !.last = c, !.prog = c, !.target = goal]
                    EXCEPT !.pc = "outer", !.pos = pos]
      BY <2>4 DEF InitReplay, Loaded
    <3>5. goal \in Nat
      BY <1>0
    <3>3. c \in Int
      BY <1>0, CommonBounded DEF PartialReplay
    <3> HIDE DEF c, trees, goal, pos
    <3>4. c \in Nat
      BY <3>1, <3>3
    <3> QED BY <1>0, <3>1, <3>2, <3>4, <3>5 DEF SyncTypes, EngineFields
  <2> QED BY <2>1, <2>2, <2>3, <2>4
<1>3. eng.last >= eng.prog
  BY <1>0 DEF CoherenceInv, Linked
<1> QED BY <1>0, <1>1, <1>2, <1>3
        DEF CoherenceInv, SyncTypes, BatchAtCur, Linked, StaleOnlyAfterMonitor, Stale, Resting, Between,
            InBatch

\* A rewind through the worker drops the cache.
LEMMA RewindsThroughWorker ==
  ASSUME CoherenceInv, Repair \/ BoundaryReorg
  PROVE  CoherenceInv'
<1> USE Heights1
<1>0. /\ SyncTypes /\ RowHeights(db.rows) \subseteq 1..Top /\ eng.cur \in Nat /\ eng.end \in Nat
      /\ eng.prog \in Nat /\ eng.cur >= 1 /\ eng.end >= Birthday
  BY DEF Repair, BoundaryReorg, CoherenceInv, SyncTypes
<1>1. UNCHANGED tip /\ cache' = NoCache
  BY DEF Repair, BoundaryReorg, Rollback, chainVars
<1>2. /\ DOMAIN db' = {"local", "rows", "trees"} /\ RowHeights(db'.rows) \subseteq 1..Top /\ db'.local \in Nat
      /\ DOMAIN eng' = EngineFields /\ eng'.pc = "main" /\ eng'.start = eng.start /\ eng'.prev = NoBlock
      /\ eng'.cur \in Nat /\ eng'.cur >= 1 /\ eng'.end \in Nat /\ eng'.cur <= eng'.end
      /\ eng'.end >= Birthday /\ eng'.last \in Nat /\ eng'.prog \in Nat /\ eng'.target = eng.target
  <2>1. CASE Repair
    <3>1. PICK from \in Birthday..eng.prog :
            /\ Rollback(from - 1)
            /\ LET back == ReplayHeight(db, from - 1)
               IN eng' = [eng EXCEPT !.pc = "main", !.cur = back + 1, !.prog = back,
                            !.end = Max({@, from, back + 1}), !.last = back,
                            !.prev = NoBlock, !.pos = RecoverPositions(db'.trees)]
      BY <2>1 DEF Repair
    <3> DEFINE back == ReplayHeight(db, from - 1)
               end == Max({eng.end, from, back + 1})
               pos == RecoverPositions(db'.trees)
               block == NoBlock
    <3>2. back \in Nat /\ back <= Top
      BY ReplayBounded, from - 1 \in Int
    <3>3. end \in Nat /\ back + 1 <= end /\ eng.end <= end
      <4> DEFINE T == {eng.end, from, back + 1}
      <4> HIDE DEF back
      <4>1. T \in SUBSET Nat /\ T # {}
        BY <1>0, <3>2
      <4>2. \A y \in T : y <= eng.end + from + back + 1
        BY <1>0, <3>2
      <4>3. eng.end + from + back + 1 \in Nat
        BY <1>0, <3>2
      <4>4. Max(T) \in T /\ \A y \in T : Max(T) >= y
        BY <4>1, <4>2, <4>3, MaxIsMember
      <4>5. back + 1 \in T /\ eng.end \in T
        OBVIOUS
      <4>6. Max(T) \in Nat /\ Max(T) >= back + 1 /\ Max(T) >= eng.end
        BY <4>1, <4>4, <4>5
      <4> DEFINE m == Max(T)
      <4>7. m \in Nat /\ m >= back + 1 /\ m >= eng.end /\ end = m
        BY <4>6
      <4> HIDE DEF m, end, T
      <4> QED BY <1>0, <3>2, <4>7
    <3>4. eng' = [eng EXCEPT !.pc = "main", !.cur = back + 1, !.prog = back, !.end = end, !.last = back,
                             !.prev = block, !.pos = pos]
      BY <3>1
    <3>5. DOMAIN db' = {"local", "rows", "trees"} /\ RowHeights(db'.rows) \subseteq 1..Top /\ db'.local \in Nat
      BY <1>0, <3>1, TruncatedFields, from - 1 \in Int DEF Rollback
    <3> HIDE DEF back, end, pos, block
    <3>6. /\ DOMAIN eng' = EngineFields /\ eng'.pc = "main" /\ eng'.start = eng.start /\ eng'.prev = block
          /\ eng'.cur = back + 1 /\ eng'.end = end /\ eng'.last = back /\ eng'.prog = back
          /\ eng'.target = eng.target
      BY <1>0, <3>4 DEF SyncTypes, EngineFields
    <3> QED BY <1>0, <3>2, <3>3, <3>5, <3>6 DEF block
  <2>2. CASE BoundaryReorg
    <3> DEFINE a == AncestorOrFloor(db.rows, eng.cur - 1)
               pos == RecoverPositions(db'.trees)
               nothing == <<>>
               block == NoBlock
    <3>1. Rollback(a) /\ eng' = [eng EXCEPT !.pc = "main", !.cur = a + 1, !.last = a, !.batch = nothing,
                                            !.prev = block, !.pos = pos]
      BY <2>2 DEF BoundaryReorg
    <3>2. a \in Nat /\ a <= Max({eng.cur - 1, Birthday - 1})
      BY <1>0, AncestorBounded, eng.cur - 1 \in Int
    <3>3. Max({eng.cur - 1, Birthday - 1}) = IF eng.cur - 1 >= Birthday - 1 THEN eng.cur - 1 ELSE Birthday - 1
      BY <1>0, MaxOfTwo, eng.cur - 1 \in Int, Birthday - 1 \in Int
    <3>4. DOMAIN db' = {"local", "rows", "trees"} /\ RowHeights(db'.rows) \subseteq 1..Top /\ db'.local \in Nat
      BY <1>0, <3>1, <3>2, TruncatedFields, a \in Int DEF Rollback
    <3> HIDE DEF a, pos, nothing, block
    <3>5. /\ DOMAIN eng' = EngineFields /\ eng'.pc = "main" /\ eng'.start = eng.start /\ eng'.prev = block
          /\ eng'.cur = a + 1 /\ eng'.end = eng.end /\ eng'.last = a /\ eng'.prog = eng.prog
          /\ eng'.target = eng.target
      BY <1>0, <3>1 DEF SyncTypes, EngineFields
    <3>6. a + 1 <= eng.end
      <4>1. eng.cur <= eng.end
        BY <2>2 DEF CoherenceInv, BatchAtCur, BoundaryReorg, InBatch
      <4> QED BY <1>0, <3>2, <3>3, <4>1
    <3> QED BY <1>0, <3>2, <3>4, <3>5, <3>6 DEF block
  <2> QED BY <2>1, <2>2
<1> QED BY <1>0, <1>1, <1>2
        DEF CoherenceInv, SyncTypes, BatchAtCur, Linked, StaleOnlyAfterMonitor, Stale, Resting, Between,
            InBatch

LEMMA LoopSteps ==
  ASSUME CoherenceInv, NoRepair \/ SkipCheckpoint
  PROVE  CoherenceInv'
<1>0. SyncTypes
  BY DEF CoherenceInv
<1>1. UNCHANGED <<tip, db, cache>>
  BY DEF NoRepair, SkipCheckpoint, chainVars
<1>2. /\ DOMAIN eng' = EngineFields /\ eng'.start = eng.start /\ eng'.cur = eng.cur /\ eng'.end = eng.end
      /\ eng'.last = eng.last /\ eng'.prev = eng.prev /\ eng'.prog = eng.prog /\ eng'.batch = eng.batch
      /\ eng'.target = eng.target
      /\ \/ eng.pc = "outer" /\ eng'.pc = "main"
         \/ eng.pc = "ckpt" /\ eng'.pc = "save"
  BY <1>0 DEF NoRepair, SkipCheckpoint, SyncTypes, EngineFields
<1> QED BY <1>1, <1>2
        DEF CoherenceInv, SyncTypes, BatchAtCur, Linked, StaleOnlyAfterMonitor, Stale, Resting, Between,
            InBatch, RowHeights

LEMMA FetchStep ==
  ASSUME CoherenceInv, Fetch
  PROVE  CoherenceInv'
<1> USE Heights1
<1>0. SyncTypes /\ eng.pc = "main" /\ eng.cur \in Nat /\ eng.cur <= eng.end /\ tip \in Nat /\ tip <= Top
      /\ eng.end \in Nat /\ eng.cur >= 1 /\ eng.target \in Nat
  <2>1. tip \in Birthday..Top
    BY DEF CoherenceInv, SyncTypes
  <2> QED BY <2>1 DEF Fetch, CoherenceInv, SyncTypes
<1>1. UNCHANGED <<tip, db, cache>>
  BY DEF Fetch, chainVars
<1> DEFINE last == IF eng.target # NoTarget /\ eng.cur <= eng.target
                   THEN Min({eng.target, eng.end}) ELSE eng.end
<1>2. PICK e \in eng.cur..Min({last, tip}) :
        eng' = [eng EXCEPT !.pc = "batch",
                  !.batch = [i \in 1..(e - eng.cur + 1) |-> Block(eng.cur + i - 1)]]
  BY DEF Fetch
<1> DEFINE b == [i \in 1..(e - eng.cur + 1) |-> Block(eng.cur + i - 1)]
<1>3. e \in Int /\ eng.cur <= e /\ e <= tip
  <2>1. Min({eng.target, eng.end}) = IF eng.target <= eng.end THEN eng.target ELSE eng.end
    BY <1>0, MinOfTwo, eng.target \in Int, eng.end \in Int
  <2>2. last \in Int
    BY <1>0, <2>1
  <2> HIDE DEF last
  <2>3. Min({last, tip}) = IF last <= tip THEN last ELSE tip
    BY <1>0, <2>2, MinOfTwo, tip \in Int
  <2> QED BY <1>0, <1>2, <2>2, <2>3
<1>4. Fetched(b, eng.cur)
  <2>1. DOMAIN b = 1..(e - eng.cur + 1) /\ e - eng.cur + 1 \in Nat
    BY <1>0, <1>3
  <2>2. \A i \in 1..(e - eng.cur + 1) : b[i] = Block(eng.cur + i - 1)
    OBVIOUS
  <2>3. \A i \in 1..(e - eng.cur + 1) : b[i][1] = eng.cur + i - 1
    BY <2>2 DEF Block
  <2> HIDE DEF b
  <2>4. Len(b) = e - eng.cur + 1
    BY <2>1
  <2> QED BY <1>0, <1>3, <2>1, <2>3, <2>4 DEF Fetched
<1>5. eng' = [eng EXCEPT !.pc = "batch", !.batch = b]
  BY <1>2
<1> HIDE DEF b
<1>6. /\ DOMAIN eng' = EngineFields /\ eng'.start = eng.start /\ eng'.cur = eng.cur /\ eng'.end = eng.end
      /\ eng'.last = eng.last /\ eng'.prev = eng.prev /\ eng'.prog = eng.prog /\ eng'.batch = b
      /\ eng'.pc = "batch" /\ eng'.target = eng.target
  BY <1>0, <1>5 DEF SyncTypes, EngineFields
<1> QED BY <1>0, <1>1, <1>4, <1>6
        DEF CoherenceInv, SyncTypes, BatchAtCur, Linked, StaleOnlyAfterMonitor, Stale, Resting, Between,
            InBatch, RowHeights

\* What a fetched batch says of its first and its last block.
LEMMA BatchEnds ==
  ASSUME NEW b, NEW cur \in Nat, cur >= 1, Fetched(b, cur)
  PROVE  /\ First(b) = cur /\ Final(b) = cur + Len(b) - 1 /\ Final(b) \in Nat
         /\ cur <= Final(b) /\ Final(b) <= Top
         /\ b[Len(b)] # NoBlock
<1> USE Heights1
<1>1. Len(b) \in Nat /\ Len(b) >= 1 /\ 1 \in 1..Len(b) /\ Len(b) \in 1..Len(b)
  BY DEF Fetched
<1>2. b[1][1] = cur /\ b[Len(b)][1] = cur + Len(b) - 1
  BY <1>1 DEF Fetched
<1>3. NoBlock[1] = 0
  BY DEF NoBlock, Hole
<1> QED BY <1>1, <1>2, <1>3 DEF First, Final, Fetched

\* The boundary check turns a stale cache away: the block the batch follows
\* lies below the last block of the run.
LEMMA StaleIsRefused ==
  ASSUME CoherenceInv, eng.pc = "batch", Stale
  PROVE  ~BoundaryValid
<1> USE Heights1
<1>1. /\ eng.prev # NoBlock /\ eng.prev[1] = eng.prog /\ eng.prog \in Nat /\ eng.cur \in Nat
      /\ 2 <= eng.cur /\ eng.cur <= eng.prog /\ Fetched(eng.batch, eng.cur)
  BY DEF CoherenceInv, SyncTypes, BatchAtCur, Linked, StaleOnlyAfterMonitor, Stale, InBatch
<1>2. First(eng.batch) = eng.cur
  BY <1>1, BatchEnds
<1>3. Parent(eng.batch)[1] = eng.cur - 1
  BY <1>2 DEF Parent
<1> QED BY <1>1, <1>3 DEF BoundaryValid

LEMMA CommitStep ==
  ASSUME CoherenceInv, CommitTrees
  PROVE  CoherenceInv'
<1> USE Heights1
<1>0. SyncTypes /\ eng.pc = "batch" /\ eng.cur \in Nat /\ eng.cur >= 1 /\ Fetched(eng.batch, eng.cur)
      /\ eng.last \in Nat
  BY DEF CommitTrees, CoherenceInv, SyncTypes, BatchAtCur, InBatch
<1> DEFINE e == Final(eng.batch)
           dense == PerBlock(eng.batch, eng.end)
           trees == [p \in Pools |-> InsertBatch(p, eng.batch, eng.pos[p], dense, WorkerTrees[p])]
           done == /\ \E p \in Pools : e \in Applied(p, eng.batch, WorkerTrees[p])
                   /\ \A p \in Pools : CheckpointDue(p, e, dense)
           last == IF done THEN e ELSE eng.last
           pos == [p \in Pools |-> eng.pos[p] + Before(p, eng.batch, e + 1)]
<1>1. UNCHANGED tip /\ db' = [db EXCEPT !.trees = trees] /\ cache' \in {trees, NoCache}
  BY DEF CommitTrees, chainVars
<1>2. eng' = [eng EXCEPT !.pc = "notes", !.ckpt = done, !.last = last, !.pos = pos]
  BY DEF CommitTrees
<1>3. last \in Nat
  BY <1>0, BatchEnds
<1> HIDE DEF trees, done, last, pos
<1>4. DOMAIN db' = {"local", "rows", "trees"} /\ db'.rows = db.rows /\ db'.local = db.local
      /\ db'.trees = trees
  BY <1>0, <1>1 DEF SyncTypes
<1>5. /\ DOMAIN eng' = EngineFields /\ eng'.start = eng.start /\ eng'.cur = eng.cur /\ eng'.end = eng.end
      /\ eng'.last = last /\ eng'.prev = eng.prev /\ eng'.prog = eng.prog /\ eng'.batch = eng.batch
      /\ eng'.pc = "notes" /\ eng'.target = eng.target
  BY <1>0, <1>2 DEF SyncTypes, EngineFields
<1>6. ~Stale'
  BY <1>1, <1>4 DEF Stale
<1> QED BY <1>0, <1>1, <1>3, <1>4, <1>5, <1>6
        DEF CoherenceInv, SyncTypes, BatchAtCur, Linked, StaleOnlyAfterMonitor, Resting, Between,
            InBatch, Fetched, RowHeights

LEMMA NotesStep ==
  ASSUME CoherenceInv, PersistNotes
  PROVE  CoherenceInv'
<1> USE Heights1
<1>0. SyncTypes /\ eng.pc = "notes" /\ eng.cur \in Nat /\ eng.cur >= 1 /\ Fetched(eng.batch, eng.cur)
      /\ db.local \in Nat
  BY DEF PersistNotes, CoherenceInv, SyncTypes, BatchAtCur, InBatch
<1> DEFINE S == NotesIn(eng.batch)
           local == IF S = {} THEN db.local ELSE Max(S)
<1>1. UNCHANGED <<tip, cache>> /\ db' = [db EXCEPT !.local = local]
      /\ eng' = [eng EXCEPT !.pc = "ckpt"]
  BY DEF PersistNotes, chainVars
<1>2. local \in Nat
  <2>1. CASE S = {}
    BY <1>0, <2>1
  <2>2. CASE S # {}
    <3>1. First(eng.batch) = eng.cur /\ Final(eng.batch) \in Nat
      BY <1>0, BatchEnds
    <3>2. S \in SUBSET (eng.cur..Final(eng.batch))
      BY <3>1 DEF NotesIn, Heights
    <3> HIDE DEF S
    <3>3. Max(S) \in S
      BY <1>0, <2>2, <3>1, <3>2, MaxOfBounded, eng.cur \in Int, Final(eng.batch) \in Int
    <3> DEFINE m == Max(S)
    <3>4. m \in S /\ local = m
      BY <2>2, <3>3
    <3> HIDE DEF m, local
    <3> QED BY <1>0, <3>1, <3>2, <3>4
  <2> QED BY <2>1, <2>2
<1> HIDE DEF local
<1>4. DOMAIN db' = {"local", "rows", "trees"} /\ db'.rows = db.rows /\ db'.local = local
      /\ db'.trees = db.trees
  BY <1>0, <1>1 DEF SyncTypes
<1>5. /\ DOMAIN eng' = EngineFields /\ eng'.start = eng.start /\ eng'.cur = eng.cur /\ eng'.end = eng.end
      /\ eng'.last = eng.last /\ eng'.prev = eng.prev /\ eng'.prog = eng.prog /\ eng'.batch = eng.batch
      /\ eng'.pc = "ckpt" /\ eng'.target = eng.target
  BY <1>0, <1>1 DEF SyncTypes, EngineFields
<1> QED BY <1>0, <1>1, <1>2, <1>4, <1>5
        DEF CoherenceInv, SyncTypes, BatchAtCur, Linked, StaleOnlyAfterMonitor, Stale, Resting, Between,
            InBatch, Fetched, RowHeights

\* checkpoint_tip leaves the worker with what it wrote.
LEMMA CheckpointFields ==
  ASSUME SyncTypes, NEW h, NEW retain, WorkerCheckpoint(h, retain)
  PROVE  /\ DOMAIN db' = {"local", "rows", "trees"} /\ db'.rows = db.rows /\ db'.local = db.local
         /\ ~Stale'
<1> DEFINE trees == [p \in Pools |->
                    LET t == AddCheckpoint(WorkerTrees[p], h) IN IF retain THEN Retain(t, h) ELSE t]
<1>1. db' = [db EXCEPT !.trees = trees] /\ cache' \in {trees, NoCache}
  BY DEF WorkerCheckpoint
<1> HIDE DEF trees
<1> QED BY <1>1 DEF SyncTypes, Stale

LEMMA BatchCheckpointStep ==
  ASSUME CoherenceInv, BatchCheckpoint
  PROVE  CoherenceInv'
<1> USE Heights1
<1>0. SyncTypes /\ eng.pc = "ckpt" /\ eng.cur \in Nat /\ eng.cur >= 1 /\ Fetched(eng.batch, eng.cur)
      /\ eng.target \in Nat
  BY DEF BatchCheckpoint, CoherenceInv, SyncTypes, BatchAtCur, InBatch
<1> DEFINE e == Final(eng.batch)
           due == eng.target # NoTarget /\ e >= eng.target
           goal == IF due THEN NoTarget ELSE eng.target
<1>1. PICK major \in BOOLEAN :
        /\ WorkerCheckpoint(e, major \/ due)
        /\ eng' = [eng EXCEPT !.pc = "save", !.ckpt = TRUE, !.last = e, !.target = goal]
  BY DEF BatchCheckpoint
<1>2. UNCHANGED tip
  BY DEF BatchCheckpoint, chainVars
<1>3. e \in Nat /\ goal \in Nat
  BY <1>0, BatchEnds DEF NoTarget
<1>4. DOMAIN db' = {"local", "rows", "trees"} /\ db'.rows = db.rows /\ db'.local = db.local /\ ~Stale'
  BY <1>0, <1>1, CheckpointFields
<1> HIDE DEF e, goal, due
<1>5. /\ DOMAIN eng' = EngineFields /\ eng'.start = eng.start /\ eng'.cur = eng.cur /\ eng'.end = eng.end
      /\ eng'.last = e /\ eng'.prev = eng.prev /\ eng'.prog = eng.prog /\ eng'.batch = eng.batch
      /\ eng'.pc = "save" /\ eng'.target = goal
  BY <1>0, <1>1 DEF SyncTypes, EngineFields
<1> QED BY <1>0, <1>2, <1>3, <1>4, <1>5
        DEF CoherenceInv, SyncTypes, BatchAtCur, Linked, StaleOnlyAfterMonitor, Resting, Between,
            InBatch, Fetched, RowHeights

LEMMA SaveStep ==
  ASSUME CoherenceInv, SaveState \/ SkipSave
  PROVE  CoherenceInv'
<1> USE Heights1
<1>0. SyncTypes /\ eng.pc = "save" /\ eng.cur \in Nat /\ eng.cur >= 1 /\ Fetched(eng.batch, eng.cur)
      /\ eng.target \in Nat /\ RowHeights(db.rows) \subseteq 1..Top
  BY DEF SaveState, SkipSave, CoherenceInv, SyncTypes, BatchAtCur, InBatch
<1> DEFINE e == Final(eng.batch)
           block == eng.batch[Len(eng.batch)]
           nothing == <<>>
<1>1. UNCHANGED <<tip, cache>>
      /\ eng' = [eng EXCEPT !.pc = "main", !.prev = block, !.batch = nothing, !.cur = e + 1, !.prog = e,
                            !.ckpt = FALSE]
  BY DEF SaveState, SkipSave, Advance, chainVars
<1>2. e \in Nat /\ First(eng.batch) = eng.cur /\ eng.cur <= e /\ e <= Top /\ block # NoBlock
      /\ block[1] = e
  BY <1>0, BatchEnds DEF Final
<1>3. /\ DOMAIN db' = {"local", "rows", "trees"} /\ RowHeights(db'.rows) \subseteq 1..Top
      /\ db'.local \in Nat /\ db'.trees = db.trees
  <2>1. CASE SkipSave
    BY <1>0, <2>1 DEF SkipSave, SyncTypes
  <2>2. CASE SaveState
    <3> DEFINE window == {h \in Heights(eng.batch) : h >= e - SearchDepth}
               keep == {h \in RowHeights(db.rows) \cup window : h >= e - SearchDepth}
               rows == [h \in keep |-> IF h \in window THEN BlockAt(eng.batch, h) ELSE db.rows[h]]
    <3>1. db' = [db EXCEPT !.local = e, !.rows = rows]
      BY <2>2 DEF SaveState, SaveProgress
    <3>2. Heights(eng.batch) \subseteq 1..Top
      BY <1>0, <1>2 DEF Heights
    <3>3. RowHeights(rows) \subseteq 1..Top
      BY <1>0, <3>2 DEF RowHeights
    <3> HIDE DEF rows, e
    <3>4. DOMAIN db' = {"local", "rows", "trees"} /\ db'.rows = rows /\ db'.local = e /\ db'.trees = db.trees
      BY <1>0, <3>1 DEF SyncTypes
    <3> QED BY <1>2, <3>3, <3>4
  <2> QED BY <2>1, <2>2
<1> HIDE DEF e, block, nothing
<1>5. /\ DOMAIN eng' = EngineFields /\ eng'.start = eng.start /\ eng'.cur = e + 1 /\ eng'.end = eng.end
      /\ eng'.last = eng.last /\ eng'.prev = block /\ eng'.prog = e
      /\ eng'.pc = "main" /\ eng'.target = eng.target
  BY <1>0, <1>1 DEF SyncTypes, EngineFields
<1> QED BY <1>0, <1>1, <1>2, <1>3, <1>5
        DEF CoherenceInv, SyncTypes, BatchAtCur, Linked, StaleOnlyAfterMonitor, Stale, Resting, Between,
            InBatch

\* A run without a last block has nothing to checkpoint at its end.
LEMMA FinishStep ==
  ASSUME CoherenceInv, Finish
  PROVE  CoherenceInv'
<1> USE Heights1
<1>0. SyncTypes /\ eng.pc = "main" /\ eng.cur \in Nat /\ eng.cur >= 1 /\ eng.end \in Nat
      /\ eng.last \in Nat /\ eng.prog \in Nat /\ eng.cur > eng.end
  BY DEF Finish, CoherenceInv, SyncTypes
<1> DEFINE h == IF eng.follow THEN eng.prog ELSE eng.end
           last == Max({eng.last, h})
           pc == IF eng.follow THEN "monitor" ELSE "return"
<1>1. UNCHANGED tip /\ eng' = [eng EXCEPT !.pc = pc, !.last = last]
  BY DEF Finish, chainVars
<1>2. h \in Nat /\ last \in Nat
  <2>1. h \in Nat
    BY <1>0
  <2> HIDE DEF h
  <2>2. last = IF eng.last >= h THEN eng.last ELSE h
    BY <1>0, <2>1, MaxOfTwo, eng.last \in Int, h \in Int
  <2> QED BY <1>0, <2>1, <2>2
<1>3. ~Stale
  BY <1>0 DEF CoherenceInv, StaleOnlyAfterMonitor
<1>4. IF ~eng.follow \/ h > eng.last THEN WorkerCheckpoint(h, FALSE) ELSE UNCHANGED <<db, cache>>
  BY DEF Finish
<1>5. DOMAIN db' = {"local", "rows", "trees"} /\ db'.rows = db.rows /\ db'.local = db.local /\ ~Stale'
  <2>1. CASE ~eng.follow \/ h > eng.last
    <3>1. WorkerCheckpoint(h, FALSE)
      BY <1>4, <2>1
    <3> HIDE DEF h
    <3> QED BY <1>0, <3>1, CheckpointFields
  <2>2. CASE ~(~eng.follow \/ h > eng.last)
    BY <1>0, <1>3, <1>4, <2>2 DEF SyncTypes, Stale
  <2> QED BY <2>1, <2>2
<1>6. eng.prev = NoBlock /\ pc = "monitor" => cache' = NoCache
  <2> SUFFICES ASSUME eng.prev = NoBlock, pc = "monitor" PROVE cache' = NoCache
    OBVIOUS
  <2>1. eng.last >= eng.prog /\ cache = NoCache
    BY <1>0 DEF CoherenceInv, Linked
  <2>2. h = eng.prog /\ eng.follow
    OBVIOUS
  <2> HIDE DEF h
  <2>3. ~(h > eng.last)
    BY <1>0, <2>1, <2>2
  <2>4. UNCHANGED <<db, cache>>
    BY <1>4, <2>2, <2>3
  <2> QED BY <2>1, <2>4
<1>7. pc \in {"monitor", "return"}
  OBVIOUS
<1> HIDE DEF h, last, pc
<1>8. /\ DOMAIN eng' = EngineFields /\ eng'.start = eng.start /\ eng'.cur = eng.cur /\ eng'.end = eng.end
      /\ eng'.last = last /\ eng'.prev = eng.prev /\ eng'.prog = eng.prog
      /\ eng'.pc = pc /\ eng'.target = eng.target
  BY <1>0, <1>1 DEF SyncTypes, EngineFields
<1> QED BY <1>0, <1>1, <1>2, <1>5, <1>6, <1>7, <1>8
        DEF CoherenceInv, SyncTypes, BatchAtCur, Linked, StaleOnlyAfterMonitor, Resting, Between,
            InBatch, RowHeights

\* The monitor may rewind behind the worker, and then goes on at or below the
\* last block of the run.
LEMMA MonitorStep ==
  ASSUME CoherenceInv, Monitor, Birthday > 1
  PROVE  CoherenceInv'
<1> USE Heights1
<1> DEFINE v == ValidateResume(db.rows, eng.prog + 1, tip, TRUE)
           pos == RecoverPositions(db'.trees)
<1>0. SyncTypes /\ eng.pc = "monitor" /\ eng.cur \in Nat /\ eng.prog \in Nat /\ tip \in Nat
      /\ tip >= Birthday /\ eng.last \in Nat /\ RowHeights(db.rows) \subseteq 1..Top
  <2>1. tip \in Birthday..Top
    BY DEF CoherenceInv, SyncTypes
  <2> QED BY <2>1 DEF Monitor, CoherenceInv, SyncTypes
<1>1. /\ v[1] \in Nat /\ v[2] \in Int /\ v[1] >= 1
      /\ v[1] # eng.prog + 1 => v[1] >= 2
  <2>1. eng.prog + 1 \in Nat /\ eng.prog + 1 >= 1
    BY <1>0
  <2>2. /\ v[1] \in Nat /\ v[2] \in Int /\ v[1] >= 1
        /\ v[1] # eng.prog + 1 => v[1] >= 2 \/ v[1] >= Birthday
    BY <1>0, <2>1, ResumeBounded
  <2> HIDE DEF v
  <2> QED BY <2>2
<1>2. UNCHANGED <<tip, cache>>
  BY DEF Monitor, chainVars
<1>3. CASE v[1] <= eng.prog
  <2> DEFINE end == Max({tip, v[1]})
  <2>1. db' = TruncateAbove(db, v[2])
    BY <1>3 DEF Monitor
  <2>2. eng' = [eng EXCEPT !.pc = "outer", !.cur = v[1], !.last = v[1] - 1, !.end = end, !.pos = pos]
    BY <1>3 DEF Monitor
  <2> HIDE DEF v
  <2>3. end = IF tip >= v[1] THEN tip ELSE v[1]
    BY <1>0, <1>1, MaxOfTwo, tip \in Int, v[1] \in Int
  <2>4. end \in Nat /\ v[1] <= end /\ Birthday <= end
    BY <1>0, <1>1, <2>3
  <2>5. DOMAIN db' = {"local", "rows", "trees"} /\ RowHeights(db'.rows) \subseteq 1..Top /\ db'.local \in Nat
    BY <1>0, <1>1, <2>1, TruncatedFields
  <2> HIDE DEF end, pos
  <2>6. /\ DOMAIN eng' = EngineFields /\ eng'.start = eng.start /\ eng'.cur = v[1] /\ eng'.end = end
        /\ eng'.last = v[1] - 1 /\ eng'.prev = eng.prev /\ eng'.prog = eng.prog
        /\ eng'.pc = "outer" /\ eng'.target = eng.target
    BY <1>0, <2>2 DEF SyncTypes, EngineFields
  <2>7. 2 <= v[1] /\ v[1] <= eng.prog
    BY <1>0, <1>1, <1>3
  <2> QED BY <1>0, <1>1, <1>2, <2>4, <2>5, <2>6, <2>7
          DEF CoherenceInv, SyncTypes, BatchAtCur, Linked, StaleOnlyAfterMonitor, Stale, Resting, Between,
              InBatch
<1>4. CASE ~(v[1] <= eng.prog)
  <2>1. UNCHANGED db /\ tip > eng.prog
        /\ eng' = [eng EXCEPT !.pc = "outer", !.cur = eng.prog + 1, !.end = tip]
    BY <1>4 DEF Monitor
  <2> HIDE DEF v
  <2>2. /\ DOMAIN eng' = EngineFields /\ eng'.start = eng.start /\ eng'.cur = eng.prog + 1 /\ eng'.end = tip
        /\ eng'.last = eng.last /\ eng'.prev = eng.prev /\ eng'.prog = eng.prog
        /\ eng'.pc = "outer" /\ eng'.target = eng.target
    BY <1>0, <2>1 DEF SyncTypes, EngineFields
  <2> QED BY <1>0, <1>2, <2>1, <2>2
          DEF CoherenceInv, SyncTypes, BatchAtCur, Linked, StaleOnlyAfterMonitor, Stale, Resting, Between,
              InBatch, RowHeights
<1> QED BY <1>3, <1>4

LEMMA CoherenceStep ==
  ASSUME CoherenceInv, [Next]_vars, Birthday > 1
  PROVE  CoherenceInv'
<1>1. CASE UNCHANGED vars
  BY <1>1
     DEF vars, CoherenceInv, SyncTypes, BatchAtCur, Linked, StaleOnlyAfterMonitor, Stale, Fetched, RowHeights
<1>2. CASE Engine
  BY <1>2, RunStarts, ValidateStep, InitStep, RewindsThroughWorker, LoopSteps, FetchStep, CommitStep,
     NotesStep, BatchCheckpointStep, SaveStep, FinishStep, MonitorStep, RunEnds DEF Engine
<1>3. CASE Grow \/ Reorg
  BY <1>3, ChainMoves
<1>4. CASE StartRescan \/ Stop
  BY <1>4, RunStarts, RunEnds
<1> QED BY <1>1, <1>2, <1>3, <1>4 DEF Next

\* CacheCoherent: whenever the persistence worker uses its cached trees they
\* are the database's, although the monitor of a following run rewinds the
\* database on a connection of its own.  Birthday > 1: validate_batch_boundary
\* accepts a batch that starts at height 1 without looking at its parent.
THEOREM CacheInStep ==
  ASSUME Birthday > 1
  PROVE  Spec => []CacheCoherent
<1>1. CoherenceInv => CacheCoherent
  BY StaleIsRefused DEF CoherenceInv, StaleOnlyAfterMonitor, Stale, CacheCoherent
<1>2. CoherenceInv /\ [Next]_vars => CoherenceInv'
  BY CoherenceStep
<1> QED BY CoherenceStart, <1>1, <1>2, PTL DEF Spec
-----------------------------------------------------------------------------
(* The cursor: how many commitments a pool has up to a height.             *)

Count(p, h) == Cardinality({k \in Outputs[p] : k <= h})

LEMMA CountNat ==
  ASSUME NEW p \in Pools, NEW h \in Int
  PROVE  IsFiniteSet({k \in Outputs[p] : k <= h}) /\ Count(p, h) \in Nat
<1>1. Outputs[p] \in SUBSET (Activation..Top)
  BY OutputsAssumption
<1>2. IsFiniteSet(Activation..Top)
  BY Heights1, FS_Interval, Activation \in Int, Top \in Int
<1>3. {k \in Outputs[p] : k <= h} \in SUBSET (Activation..Top)
  BY <1>1
<1>4. IsFiniteSet({k \in Outputs[p] : k <= h})
  BY <1>2, <1>3, FS_Subset
<1> QED BY <1>4, FS_CardinalityType DEF Count

LEMMA CountGrows ==
  ASSUME NEW p \in Pools, NEW a \in Int, NEW b \in Int, a <= b
  PROVE  Count(p, a) <= Count(p, b)
<1>1. Outputs[p] \in SUBSET Int
  BY OutputsAssumption, Heights1
<1>2. {k \in Outputs[p] : k <= a} \in SUBSET {k \in Outputs[p] : k <= b}
  BY <1>1
<1> QED BY <1>2, CountNat, FS_Subset DEF Count

LEMMA CountSame ==
  ASSUME NEW p \in Pools, NEW a \in Int, NEW b \in Int, a <= b, \A k \in Outputs[p] : k <= a \/ b < k
  PROVE  Count(p, a) = Count(p, b)
<1>1. Outputs[p] \in SUBSET Int
  BY OutputsAssumption, Heights1
<1>2. {k \in Outputs[p] : k <= a} = {k \in Outputs[p] : k <= b}
  BY <1>1
<1> QED BY <1>2 DEF Count

LEMMA CountStep ==
  ASSUME NEW p \in Pools, NEW h \in Outputs[p]
  PROVE  h \in Int /\ Count(p, h) = Count(p, h - 1) + 1
<1>1. Outputs[p] \in SUBSET Int
  BY OutputsAssumption, Heights1
<1> DEFINE S == {k \in Outputs[p] : k <= h - 1}
<1>2. {k \in Outputs[p] : k <= h} = S \cup {h} /\ h \notin S
  BY <1>1
<1>3. IsFiniteSet(S)
  BY <1>1, CountNat, h - 1 \in Int
<1>4. Cardinality(S \cup {h}) = Cardinality(S) + 1
  BY <1>2, <1>3, FS_AddElement
<1> QED BY <1>1, <1>2, <1>4 DEF Count

LEMMA CountNone ==
  ASSUME NEW p \in Pools, NEW h \in Int, h < Activation
  PROVE  Count(p, h) = 0
<1>1. Outputs[p] \in SUBSET (Activation..Top)
  BY OutputsAssumption
<1>2. {k \in Outputs[p] : k <= h} = {}
  BY <1>1, Heights1
<1> QED BY <1>2, FS_EmptySet DEF Count

\* The position counter's advance over a batch is the number of its commitments.
LEMMA CountBatch ==
  ASSUME NEW p \in Pools, NEW b, NEW h \in Int, First(b) \in Int, First(b) <= h
  PROVE  Before(p, b, h) \in Nat /\ Count(p, h - 1) = Count(p, First(b) - 1) + Before(p, b, h)
<1>0. Outputs[p] \in SUBSET (Activation..Top) /\ Outputs[p] \in SUBSET Int
  BY OutputsAssumption, Heights1
<1> DEFINE f == First(b)
           A == {k \in Outputs[p] : k <= f - 1}
           B == {k \in Outputs[p] : f <= k /\ k < h}
           C == {k \in Outputs[p] : k <= h - 1}
<1>1. C = A \cup B /\ A \cap B = {}
  BY <1>0
<1>2. IsFiniteSet(A) /\ IsFiniteSet(C)
  BY CountNat, f - 1 \in Int, h - 1 \in Int
<1>3. IsFiniteSet(B)
  BY <1>1, <1>2, FS_Subset, B \in SUBSET C
<1>4. Cardinality(A \cup B) = Cardinality(A) + Cardinality(B) - Cardinality(A \cap B)
  BY <1>2, <1>3, FS_Union
<1>5. Cardinality(A) \in Nat /\ Cardinality(B) \in Nat /\ Cardinality({}) = 0
  BY <1>2, <1>3, FS_CardinalityType, FS_EmptySet
<1>6. Cardinality(C) = Cardinality(A) + Cardinality(B)
  <2> HIDE DEF A, B, C
  <2>1. Cardinality(C) = Cardinality(A \cup B) /\ Cardinality(A \cap B) = 0
    BY <1>1, <1>5
  <2> QED BY <1>4, <1>5, <2>1
<1> QED BY <1>5, <1>6 DEF Count, Before

-----------------------------------------------------------------------------
(* A tree is sound when every checkpoint stands after at least as many     *)
(* leaves as its height has commitments, and the tree has that many.       *)

SoundTree(p, t) ==
    /\ DOMAIN t = {"leaves", "size", "kept"}
    /\ Len(t.leaves) \in Nat
    /\ IsFiniteSet(Checkpoints(t)) /\ Checkpoints(t) \in SUBSET Nat
    /\ \A h \in Checkpoints(t) :
         t.size[h] \in Nat /\ t.size[h] >= Count(p, h) /\ Len(t.leaves) >= Count(p, h)

LEMMA EmptySound ==
  ASSUME NEW p \in Pools
  PROVE  SoundTree(p, EmptyTree) /\ Len(EmptyTree.leaves) = 0 /\ Checkpoints(EmptyTree) = {}
<1> DEFINE none == [h \in {} |-> 0]
           nothing == <<>>
<1>1. EmptyTree = [leaves |-> nothing, size |-> none, kept |-> {}]
  BY DEF EmptyTree
<1>2. DOMAIN none = {} /\ Len(nothing) = 0
  OBVIOUS
<1> HIDE DEF none, nothing
<1>3. DOMAIN EmptyTree = {"leaves", "size", "kept"} /\ EmptyTree.leaves = nothing /\ EmptyTree.size = none
  BY <1>1
<1> QED BY <1>2, <1>3, FS_EmptySet DEF SoundTree, Checkpoints

LEMMA PruneSound ==
  ASSUME NEW p \in Pools, NEW t, SoundTree(p, t)
  PROVE  SoundTree(p, Prune(t)) /\ Prune(t).leaves = t.leaves
<1> DEFINE loose == Checkpoints(t) \ t.kept
           stay == {h \in loose : Cardinality({k \in loose : k > h}) < PruningDepth}
           hs == stay \cup (t.kept \cap Checkpoints(t))
           size == [h \in hs |-> t.size[h]]
<1>1. Prune(t) = [t EXCEPT !.size = size]
  BY DEF Prune
<1>2. hs \in SUBSET Checkpoints(t)
  OBVIOUS
<1>3. DOMAIN size = hs /\ \A h \in hs : size[h] = t.size[h]
  OBVIOUS
<1> HIDE DEF hs, size
<1>4. IsFiniteSet(hs)
  <2>1. IsFiniteSet(Checkpoints(t))
    BY DEF SoundTree
  <2> QED BY <1>2, <2>1, FS_Subset
<1>5. DOMAIN Prune(t) = DOMAIN t /\ Prune(t).leaves = t.leaves /\ Prune(t).size = size
  BY <1>1 DEF SoundTree
<1> QED BY <1>2, <1>3, <1>4, <1>5 DEF SoundTree, Checkpoints

LEMMA AddSound ==
  ASSUME NEW p \in Pools, NEW t, SoundTree(p, t), NEW h \in Nat, Len(t.leaves) >= Count(p, h)
  PROVE  SoundTree(p, AddCheckpoint(t, h)) /\ AddCheckpoint(t, h).leaves = t.leaves
<1>1. CASE \E k \in Checkpoints(t) : k >= h
  BY <1>1 DEF AddCheckpoint
<1>2. CASE ~\E k \in Checkpoints(t) : k >= h
  <2> DEFINE hs == Checkpoints(t) \cup {h}
             size == [k \in hs |-> IF k = h THEN Len(t.leaves) ELSE t.size[k]]
             u == [t EXCEPT !.size = size]
  <2>1. AddCheckpoint(t, h) = Prune(u)
    BY <1>2 DEF AddCheckpoint
  <2>2. DOMAIN size = hs /\ \A k \in hs : size[k] = IF k = h THEN Len(t.leaves) ELSE t.size[k]
    OBVIOUS
  <2>3. IsFiniteSet(hs) /\ hs \in SUBSET Nat
    BY FS_AddElement DEF SoundTree
  <2> HIDE DEF size
  <2>4. DOMAIN u = DOMAIN t /\ u.leaves = t.leaves /\ u.size = size
    BY DEF SoundTree
  <2> HIDE DEF u
  <2>5. \A k \in hs : size[k] \in Nat /\ size[k] >= Count(p, k) /\ Len(t.leaves) >= Count(p, k)
    BY <2>2 DEF SoundTree
  <2> HIDE DEF hs
  <2>6. SoundTree(p, u)
    BY <2>2, <2>3, <2>4, <2>5 DEF SoundTree, Checkpoints
  <2> QED BY <2>1, <2>4, <2>6, PruneSound
<1> QED BY <1>1, <1>2

LEMMA RetainSound ==
  ASSUME NEW p \in Pools, NEW t, SoundTree(p, t), NEW h
  PROVE  /\ SoundTree(p, Retain(t, h)) /\ Retain(t, h).leaves = t.leaves
         /\ Checkpoints(Retain(t, h)) = Checkpoints(t)
<1> DEFINE kept == t.kept \cup {h}
<1>1. Retain(t, h) = [t EXCEPT !.kept = kept]
  BY DEF Retain
<1> HIDE DEF kept
<1>2. DOMAIN Retain(t, h) = DOMAIN t /\ Retain(t, h).leaves = t.leaves /\ Retain(t, h).size = t.size
  BY <1>1 DEF SoundTree
<1> QED BY <1>2 DEF SoundTree, Checkpoints

LEMMA TruncateSound ==
  ASSUME NEW p \in Pools, NEW t, SoundTree(p, t), NEW h \in Checkpoints(t)
  PROVE  LET u == TruncateTree(t, h)
         IN SoundTree(p, u) /\ Len(u.leaves) >= Count(p, h) /\ h \in Checkpoints(u)
<1> DEFINE n == t.size[h]
           leaves == SubSeq(t.leaves, 1, n)
           hs == {j \in Checkpoints(t) : j <= h}
           size == [k \in hs |-> t.size[k]]
           u == TruncateTree(t, h)
<1>0. n \in Nat /\ n >= Count(p, h) /\ h \in Nat
  BY DEF SoundTree
<1>1. u = [t EXCEPT !.leaves = leaves, !.size = size]
  BY DEF TruncateTree
<1>2. Len(leaves) = n
  BY <1>0
<1>3. DOMAIN size = hs /\ \A k \in hs : size[k] = t.size[k]
  OBVIOUS
<1>4. hs \in SUBSET Checkpoints(t) /\ IsFiniteSet(hs) /\ h \in hs
  BY <1>0, FS_Subset DEF SoundTree
<1> HIDE DEF leaves, size, n, u
<1>5. DOMAIN u = DOMAIN t /\ u.leaves = leaves /\ u.size = size
  BY <1>1 DEF SoundTree
<1>6. \A k \in hs : Count(p, k) <= Count(p, h) /\ Count(p, k) \in Nat
  <2> SUFFICES ASSUME NEW k \in hs PROVE Count(p, k) <= Count(p, h) /\ Count(p, k) \in Nat
    OBVIOUS
  <2>1. k \in Int /\ h \in Int /\ k <= h
    BY <1>0 DEF SoundTree
  <2> QED BY <2>1, CountGrows, CountNat
<1>7. Count(p, h) \in Nat
  BY <1>0, CountNat, h \in Int
<1>8. \A k \in hs : size[k] \in Nat /\ size[k] >= Count(p, k) /\ n >= Count(p, k)
  BY <1>0, <1>3, <1>4, <1>6, <1>7 DEF SoundTree
<1> HIDE DEF hs
<1> QED BY <1>0, <1>2, <1>3, <1>4, <1>5, <1>8 DEF SoundTree, Checkpoints, u

\* A function into the integers has a largest value on a finite set.
LEMMA FiniteLargest ==
  ASSUME NEW S, IsFiniteSet(S), S # {}, NEW f, \A x \in S : f[x] \in Int
  PROVE  \E x \in S : \A y \in S : f[y] <= f[x]
<1> DEFINE R == StrictSubsetOrdering(S)
           F == FiniteSubsetsOf(S)
           Bad == {U \in F : U # {} /\ \A x \in U : \E y \in U : ~(f[y] <= f[x])}
<1>1. IsWellFoundedOn(R, F)
  BY FS_StrictSubsetOrderingWellFounded
<1>2. ASSUME Bad # {} PROVE FALSE
  <2>1. PICK U \in Bad : \A V \in Bad : ~(<<V, U>> \in R)
    <3> HIDE DEF R, F
    <3>1. Bad \subseteq F
      OBVIOUS
    <3> QED BY <1>1, <1>2, <3>1, WFMin, Zenon
  <2>2. PICK x \in U : TRUE
    OBVIOUS
  <2> DEFINE V == U \ {x}
  <2>3. U \subseteq S /\ IsFiniteSet(U)
    BY DEF FiniteSubsetsOf
  <2>4. V \in F /\ <<V, U>> \in R
    <3>1. IsFiniteSet(V)
      BY <2>3, FS_RemoveElement
    <3> QED BY <2>2, <2>3, <3>1 DEF FiniteSubsetsOf, StrictSubsetOrdering
  <2>5. V \notin Bad
    BY <2>1, <2>4
  <2>6. CASE V = {}
    <3>1. U = {x}
      BY <2>2, <2>6
    <3> QED BY <2>3, <3>1
  <2>7. CASE V # {}
    <3>1. PICK z \in V : \A y \in V : f[y] <= f[z]
      BY <2>4, <2>5, <2>7
    <3>2. f[x] \in Int /\ \A y \in U : f[y] \in Int
      BY <2>2, <2>3
    <3>3. CASE f[x] <= f[z]
      <4>1. \A y \in U : f[y] <= f[z]
        BY <3>1, <3>3
      <4> QED BY <4>1
    <3>4. CASE ~(f[x] <= f[z])
      <4>1. \A y \in U : f[y] <= f[x]
        BY <3>1, <3>2, <3>4
      <4> QED BY <2>2, <4>1
    <3> QED BY <3>3, <3>4
  <2> QED BY <2>6, <2>7
<1>3. S \in F
  BY DEF FiniteSubsetsOf
<1> QED BY <1>2, <1>3

\* recover_position_counters_from_shardtree never falls behind a checkpoint.
LEMMA RecoverAbove ==
  ASSUME NEW trees, \A p \in Pools : SoundTree(p, trees[p])
  PROVE  \A p \in Pools :
           /\ RecoverPositions(trees)[p] \in Nat
           /\ \A h \in Checkpoints(trees[p]) : RecoverPositions(trees)[p] >= Count(p, h)
<1> SUFFICES ASSUME NEW p \in Pools
             PROVE  /\ RecoverPositions(trees)[p] \in Nat
                    /\ \A h \in Checkpoints(trees[p]) : RecoverPositions(trees)[p] >= Count(p, h)
  OBVIOUS
<1> DEFINE C == Checkpoints(trees[p])
           f == trees[p].size
           T == {0} \cup {f[h] : h \in C}
           m == Max(T)
<1>1. RecoverPositions(trees)[p] = m
  BY DEF RecoverPositions
<1>2. IsFiniteSet(C) /\ C \in SUBSET Nat /\ \A h \in C : f[h] \in Nat /\ f[h] >= Count(p, h)
  BY DEF SoundTree
<1>3. \E n \in Nat : \A h \in C : f[h] <= n
  <2>1. CASE C = {}
    BY <2>1
  <2>2. CASE C # {}
    <3> HIDE DEF C, f
    <3>1. \A h \in C : f[h] \in Int
      BY <1>2
    <3>2. PICK x \in C : \A y \in C : f[y] <= f[x]
      BY <1>2, <2>2, <3>1, FiniteLargest
    <3> QED BY <1>2, <3>2
  <2> QED BY <2>1, <2>2
<1>4. PICK n \in Nat : \A h \in C : f[h] <= n
  BY <1>3
<1>5. T \in SUBSET Nat /\ T # {} /\ \A y \in T : y <= n
  BY <1>2, <1>4
<1>6. Max(T) \in T /\ \A y \in T : Max(T) >= y
  <2> HIDE DEF T
  <2> QED BY <1>5, MaxIsMember
<1>7. m \in Nat /\ \A h \in C : m >= f[h]
  BY <1>5, <1>6
<1> HIDE DEF m, C, f, T
<1>8. ASSUME NEW h \in C PROVE m >= Count(p, h)
  <2>1. Count(p, h) \in Nat
    BY <1>2, CountNat, h \in Int
  <2> QED BY <1>2, <1>7, <2>1
<1> QED BY <1>1, <1>7, <1>8 DEF C

LEMMA NewestIsCheckpoint ==
  ASSUME NEW p \in Pools, NEW t, SoundTree(p, t)
  PROVE  LET c == NewestCheckpoint(t)
         IN c \in Int /\ c >= -1 /\ (c >= 0 => c \in Checkpoints(t))
<1> DEFINE C == Checkpoints(t)
<1>1. IsFiniteSet(C) /\ C \in SUBSET Nat
  BY DEF SoundTree
<1>2. CASE C = {}
  BY <1>2 DEF NewestCheckpoint
<1>3. CASE C # {}
  <2> DEFINE id == [x \in C |-> x]
  <2>1. NewestCheckpoint(t) = Max(C)
    BY <1>3 DEF NewestCheckpoint
  <2> HIDE DEF C
  <2>2. \A x \in C : id[x] = x /\ id[x] \in Int
    BY <1>1
  <2> HIDE DEF id
  <2>3. PICK x \in C : \A y \in C : id[y] <= id[x]
    BY <1>1, <1>3, <2>2, FiniteLargest
  <2>4. x \in Nat /\ \A y \in C : y <= x
    BY <1>1, <2>2, <2>3
  <2>5. Max(C) \in C
    BY <1>1, <1>3, <2>4, MaxIsMember
  <2> QED BY <1>1, <2>1, <2>5 DEF C
<1> QED BY <1>2, <1>3

\* update_commitment_trees: a batch that starts where the positions and the
\* leaves have got to leaves the tree sound and as long as its last block needs.
LEMMA InsertSound ==
  ASSUME NEW p \in Pools, NEW t, SoundTree(p, t), NEW cur \in Nat, cur >= 1, NEW b, Fetched(b, cur),
         NEW pos \in Nat, pos >= Count(p, cur - 1), Len(t.leaves) >= Count(p, cur - 1), NEW dense
  PROVE  LET u == InsertBatch(p, b, pos, dense, t)
         IN /\ SoundTree(p, u) /\ Len(u.leaves) >= Len(t.leaves)
            /\ Len(u.leaves) >= Count(p, Final(b))
<1> USE Heights1
<1> DEFINE e == Final(b)
           l == Len(t.leaves)
           c == NewestCheckpoint(t)
           hs == AppliedLeaves(p, b, t)
           S == {l} \cup {Slot(p, b, pos, h) : h \in hs}
           n == Max(S)
<1>1. First(b) = cur /\ e \in Nat /\ cur <= e /\ e <= Top
  BY BatchEnds
<1>2. l \in Nat /\ c \in Int /\ c >= -1 /\ (c >= 0 => c \in Checkpoints(t) /\ l >= Count(p, c))
  BY NewestIsCheckpoint DEF SoundTree
<1>3. hs = {h \in cur..e : h > c /\ h \in Outputs[p]}
  BY <1>1 DEF AppliedLeaves, Applied, Heights
<1>4. \A h \in cur..e : Count(p, h) \in Nat /\ Count(p, h - 1) \in Nat /\ Count(p, h) <= Count(p, e)
  <2> HIDE DEF e
  <2> SUFFICES ASSUME NEW h \in cur..e
               PROVE  Count(p, h) \in Nat /\ Count(p, h - 1) \in Nat /\ Count(p, h) <= Count(p, e)
    OBVIOUS
  <2>1. h \in Int /\ h - 1 \in Int /\ e \in Int /\ h <= e
    BY <1>1
  <2> QED BY <2>1, CountNat, CountGrows
<1>5. \A h \in cur..e : /\ Before(p, b, h) \in Nat /\ pos + Before(p, b, h) >= Count(p, h - 1)
                        /\ Before(p, b, h) <= Count(p, h - 1)
  <2> HIDE DEF e
  <2> SUFFICES ASSUME NEW h \in cur..e
               PROVE  /\ Before(p, b, h) \in Nat /\ pos + Before(p, b, h) >= Count(p, h - 1)
                      /\ Before(p, b, h) <= Count(p, h - 1)
    OBVIOUS
  <2>1. h \in Int /\ First(b) \in Int /\ First(b) <= h /\ cur - 1 \in Int
    BY <1>1
  <2>2. Before(p, b, h) \in Nat /\ Count(p, h - 1) = Count(p, cur - 1) + Before(p, b, h)
    BY <1>1, <2>1, CountBatch
  <2>3. Count(p, cur - 1) \in Nat
    BY <2>1, CountNat
  <2> QED BY <2>2, <2>3
<1>6. \A h \in hs : /\ h \in cur..e /\ Slot(p, b, pos, h) \in Nat /\ Slot(p, b, pos, h) >= Count(p, h)
                    /\ Slot(p, b, pos, h) <= pos + Count(p, e) + 1
  <2> SUFFICES ASSUME NEW h \in hs
               PROVE  /\ h \in cur..e /\ Slot(p, b, pos, h) \in Nat /\ Slot(p, b, pos, h) >= Count(p, h)
                      /\ Slot(p, b, pos, h) <= pos + Count(p, e) + 1
    OBVIOUS
  <2>1. h \in cur..e /\ h \in Outputs[p]
    BY <1>3
  <2>2. Count(p, h) = Count(p, h - 1) + 1
    BY <2>1, CountStep
  <2>3. Slot(p, b, pos, h) = pos + Before(p, b, h) + 1
    BY DEF Slot
  <2>5. Count(p, e) \in Nat
    BY <1>1, CountNat, e \in Int
  <2> HIDE DEF e, hs
  <2>4. /\ Before(p, b, h) \in Nat /\ pos + Before(p, b, h) >= Count(p, h - 1)
        /\ Before(p, b, h) <= Count(p, h - 1)
        /\ Count(p, h) \in Nat /\ Count(p, h - 1) \in Nat /\ Count(p, h) <= Count(p, e)
    BY <1>4, <1>5, <2>1
  <2> QED BY <2>1, <2>2, <2>3, <2>4, <2>5
<1>7. n \in Nat /\ n >= l /\ \A h \in hs : n >= Slot(p, b, pos, h)
  <2> DEFINE top == l + pos + Count(p, e) + 1
  <2>1. Count(p, e) \in Nat
    BY <1>1, CountNat, e \in Int
  <2> HIDE DEF e, hs, l
  <2>2. S \in SUBSET Nat /\ S # {} /\ top \in Nat /\ \A y \in S : y <= top
    BY <1>2, <1>6, <2>1
  <2> HIDE DEF top
  <2>3. Max(S) \in S /\ \A y \in S : Max(S) >= y
    <3> HIDE DEF S
    <3> QED BY <2>2, MaxIsMember
  <2> QED BY <2>2, <2>3
<1>8. n >= Count(p, e)
  <2> DEFINE d == IF c >= cur - 1 THEN c ELSE cur - 1
  <2>0. Count(p, e) \in Nat
    BY <1>1, CountNat, e \in Int
  <2>1. d \in Int /\ l >= Count(p, d)
    <3>1. l >= Count(p, cur - 1)
      OBVIOUS
    <3> HIDE DEF c, l
    <3>2. CASE c >= cur - 1
      BY <1>2, <3>2
    <3>3. CASE ~(c >= cur - 1)
      BY <3>1, <3>3
    <3> QED BY <3>2, <3>3
  <2>2. Count(p, d) \in Nat
    BY <2>1, CountNat
  <2>3. CASE d >= e
    <3>1. Count(p, e) <= Count(p, d)
      BY <1>1, <2>1, <2>3, CountGrows, e \in Int
    <3> HIDE DEF d, e, n, l
    <3> QED BY <1>2, <1>7, <2>0, <2>1, <2>2, <3>1
  <2>4. CASE d < e /\ hs = {}
    <3>1. \A k \in Outputs[p] : k <= d \/ e < k
      <4>1. Outputs[p] \in SUBSET Int
        BY OutputsAssumption
      <4> HIDE DEF e, c, hs
      <4> QED BY <1>1, <1>2, <1>3, <2>4, <4>1
    <3>2. Count(p, d) = Count(p, e)
      BY <1>1, <2>1, <2>4, <3>1, CountSame, e \in Int
    <3> HIDE DEF d, e, n, l
    <3> QED BY <1>2, <1>7, <2>0, <2>1, <3>2
  <2>5. CASE hs # {}
    <3> DEFINE k == Max(hs)
    <3>1. hs \in SUBSET (cur..e)
      BY <1>3
    <3>2. Max(hs) \in hs /\ \A y \in hs : Max(hs) >= y
      <4> HIDE DEF hs, e
      <4> QED BY <1>1, <2>5, <3>1, MaxOfBounded, cur \in Int, e \in Int
    <3>3. k \in hs /\ \A y \in hs : k >= y
      BY <3>2
    <3> HIDE DEF k
    <3>4. k \in Int /\ k <= e /\ k >= cur /\ k > c
      <4> HIDE DEF e, c
      <4> QED BY <1>1, <1>3, <3>3
    <3>5. \A j \in Outputs[p] : j <= k \/ e < j
      <4>1. Outputs[p] \in SUBSET Int
        BY OutputsAssumption
      <4> HIDE DEF e, c, hs
      <4> QED BY <1>1, <1>2, <1>3, <3>3, <3>4, <4>1
    <3>6. Count(p, k) = Count(p, e)
      BY <1>1, <3>4, <3>5, CountSame, e \in Int
    <3>7. n >= Slot(p, b, pos, k) /\ Slot(p, b, pos, k) >= Count(p, k) /\ Slot(p, b, pos, k) \in Nat
      <4> HIDE DEF n, hs
      <4> QED BY <1>6, <1>7, <3>3
    <3> HIDE DEF n, e
    <3> QED BY <1>7, <2>0, <3>6, <3>7
  <2> QED
    <3> HIDE DEF d, e
    <3> QED BY <1>1, <2>1, <2>3, <2>4, <2>5
<1> DEFINE leaves == InsertLeaves(p, b, pos, t)
           marks == {h \in Applied(p, b, t) : CheckpointDue(p, h, dense)}
           sizeAt(h) == IF h \in Outputs[p] THEN Slot(p, b, pos, h)
                        ELSE Max({l, pos + Before(p, b, h)})
           ks == Checkpoints(t) \cup marks
           size == [h \in ks |-> IF h \in marks THEN sizeAt(h) ELSE t.size[h]]
           u == [t EXCEPT !.leaves = leaves, !.size = size]
<1>9. Len(leaves) = n
  <2>1. DOMAIN leaves = 1..n
    BY DEF InsertLeaves
  <2> HIDE DEF leaves, n
  <2> QED BY <1>7, <2>1
<1>10. marks \in SUBSET (cur..e) /\ \A h \in marks : h > c
  BY <1>1 DEF Applied, Heights
<1>11. ASSUME NEW h \in marks
       PROVE  sizeAt(h) \in Nat /\ sizeAt(h) >= Count(p, h) /\ n >= Count(p, h)
  <2>0. h \in cur..e /\ h \in Int /\ Count(p, h) \in Nat /\ Count(p, e) \in Nat /\ Count(p, h) <= Count(p, e)
    <3> HIDE DEF marks, e
    <3>1. h \in cur..e /\ e \in Int
      BY <1>1, <1>10
    <3> QED BY <1>4, <3>1, CountNat
  <2>1. n >= Count(p, h)
    <3> HIDE DEF n, e
    <3> QED BY <1>7, <1>8, <2>0
  <2>2. CASE h \in Outputs[p]
    <3>1. h \in hs
      BY <2>2 DEF AppliedLeaves
    <3> QED BY <1>6, <2>1, <2>2, <3>1
  <2>3. CASE h \notin Outputs[p]
    <3> DEFINE q == pos + Before(p, b, h)
    <3>1. q \in Nat /\ q >= Count(p, h - 1)
      <4> HIDE DEF e
      <4> QED BY <1>5, <2>0
    <3>2. Count(p, h - 1) = Count(p, h)
      <4>1. Outputs[p] \in SUBSET Int
        BY OutputsAssumption
      <4>2. \A k \in Outputs[p] : k <= h - 1 \/ h < k
        BY <2>0, <2>3, <4>1
      <4> QED BY <2>0, <4>2, CountSame, h - 1 \in Int
    <3> HIDE DEF q
    <3>3. Max({l, q}) = IF l >= q THEN l ELSE q
      <4> HIDE DEF l
      <4> QED BY <1>2, <3>1, MaxOfTwo, l \in Int, q \in Int
    <3>4. sizeAt(h) = Max({l, q})
      BY <2>3 DEF q
    <3> HIDE DEF sizeAt, l
    <3> QED BY <1>2, <2>0, <2>1, <3>1, <3>2, <3>3, <3>4
  <2> QED BY <2>2, <2>3
<1>12. IsFiniteSet(ks) /\ ks \in SUBSET Nat
  <2>1. IsFiniteSet(cur..e)
    BY <1>1, FS_Interval, cur \in Int, e \in Int
  <2>2. IsFiniteSet(marks)
    BY <1>10, <2>1, FS_Subset
  <2>3. marks \in SUBSET Nat
    <3> HIDE DEF marks, e
    <3> QED BY <1>1, <1>10
  <2> HIDE DEF marks
  <2> QED BY <2>2, <2>3, FS_Union DEF SoundTree
<1>13. ASSUME NEW h \in ks
       PROVE  size[h] \in Nat /\ size[h] >= Count(p, h) /\ n >= Count(p, h)
  <2>1. CASE h \in marks
    <3>1. size[h] = sizeAt(h)
      BY <2>1
    <3> HIDE DEF marks, sizeAt, n, size
    <3> QED BY <1>11, <2>1, <3>1
  <2>2. CASE h \notin marks
    <3>1. size[h] = t.size[h] /\ h \in Checkpoints(t)
      BY <2>2
    <3>2. Count(p, h) \in Nat
      BY <3>1, CountNat, h \in Int DEF SoundTree
    <3> HIDE DEF marks, sizeAt, n, size
    <3> QED BY <1>2, <1>7, <3>1, <3>2 DEF SoundTree
  <2> QED BY <2>1, <2>2
<1>14. InsertBatch(p, b, pos, dense, t) = Prune(u)
  BY DEF InsertBatch
<1>15. DOMAIN size = ks
  OBVIOUS
<1> HIDE DEF leaves, size, ks, marks, sizeAt, n, l, e
<1>16. DOMAIN u = DOMAIN t /\ u.leaves = leaves /\ u.size = size
  BY DEF SoundTree
<1> HIDE DEF u
<1>17. SoundTree(p, u)
  BY <1>7, <1>9, <1>12, <1>13, <1>15, <1>16 DEF SoundTree, Checkpoints
<1>18. SoundTree(p, Prune(u)) /\ Prune(u).leaves = leaves
  BY <1>16, <1>17, PruneSound
<1> QED BY <1>7, <1>8, <1>9, <1>14, <1>18 DEF e, l

\* The server's tree state of a height has that height's leaves.
LEMMA SeedLength ==
  ASSUME NEW p \in Pools, NEW br, NEW h \in Int
  PROVE  Len(LeavesTo(p, br, h)) = Count(p, h)
<1> DEFINE hs == {k \in Outputs[p] : k <= h}
           s == LeavesTo(p, br, h)
<1>1. DOMAIN s = 1..Cardinality(hs)
  BY DEF LeavesTo
<1>2. Cardinality(hs) \in Nat
  BY CountNat DEF Count
<1> HIDE DEF s
<1>3. Len(s) = Cardinality(hs)
  BY <1>1, <1>2
<1> QED BY <1>3 DEF s, Count

\* A checkpoint set on a tree without any stays.
LEMMA FirstCheckpoint ==
  ASSUME NEW p \in Pools, NEW t, SoundTree(p, t), Checkpoints(t) = {}, NEW h \in Nat
  PROVE  h \in Checkpoints(AddCheckpoint(t, h))
<1> DEFINE size == [k \in Checkpoints(t) \cup {h} |-> IF k = h THEN Len(t.leaves) ELSE t.size[k]]
           u == [t EXCEPT !.size = size]
<1>1. AddCheckpoint(t, h) = Prune(u)
  BY DEF AddCheckpoint
<1>2. DOMAIN size = {h}
  OBVIOUS
<1> HIDE DEF size
<1>3. DOMAIN u = DOMAIN t /\ u.size = size
  BY DEF SoundTree
<1> HIDE DEF u
<1>4. Checkpoints(u) = {h}
  BY <1>2, <1>3 DEF Checkpoints
<1> DEFINE loose == Checkpoints(u) \ u.kept
           stay == {k \in loose : Cardinality({j \in loose : j > k}) < PruningDepth}
           ks == stay \cup (u.kept \cap Checkpoints(u))
           pruned == [k \in ks |-> u.size[k]]
<1>5. h \in ks
  <2>1. CASE h \in u.kept
    BY <1>4, <2>1
  <2>2. CASE h \notin u.kept
    <3>1. h \in loose /\ {j \in loose : j > h} = {}
      BY <1>4, <2>2
    <3>2. Cardinality({j \in loose : j > h}) < PruningDepth
      BY <3>1, FS_EmptySet, BoundsAssumption
    <3> QED BY <3>1, <3>2
  <2> QED BY <2>1, <2>2
<1>6. Prune(u) = [u EXCEPT !.size = pruned] /\ DOMAIN pruned = ks
  BY DEF Prune
<1> HIDE DEF pruned, ks
<1>7. Prune(u).size = pruned
  BY <1>3, <1>6 DEF SoundTree
<1> QED BY <1>1, <1>5, <1>6, <1>7 DEF Checkpoints

\* seed_shardtrees_from_tree_state, and with no leaves the start at activation.
LEMMA SeedSound ==
  ASSUME NEW p \in Pools, NEW s, NEW h \in Nat, Len(s) \in Nat, Len(s) >= Count(p, h)
  PROVE  LET u == AddCheckpoint([EmptyTree EXCEPT !.leaves = s], h)
         IN SoundTree(p, u) /\ u.leaves = s /\ h \in Checkpoints(u)
<1> DEFINE t == [EmptyTree EXCEPT !.leaves = s]
<1>1. DOMAIN t = {"leaves", "size", "kept"} /\ t.leaves = s /\ t.size = EmptyTree.size
  BY EmptySound DEF SoundTree
<1> HIDE DEF t
<1>2. Checkpoints(t) = {}
  BY <1>1, EmptySound DEF Checkpoints
<1>3. SoundTree(p, t)
  BY <1>1, <1>2, FS_EmptySet DEF SoundTree
<1>4. SoundTree(p, AddCheckpoint(t, h)) /\ AddCheckpoint(t, h).leaves = s /\ h \in Checkpoints(AddCheckpoint(t, h))
  BY <1>1, <1>2, <1>3, AddSound, FirstCheckpoint
<1> QED BY <1>4 DEF t

LEMMA CommonIsCheckpoint ==
  ASSUME NEW trees, NEW h \in Int, NewestCommon(trees, h) >= 0
  PROVE  \A p \in Pools : NewestCommon(trees, h) \in Checkpoints(trees[p])
<1> USE Heights1
<1> DEFINE cs == {k \in Common(trees) : k <= h}
<1>1. cs \in SUBSET (0..Top) /\ \A k \in cs : \A p \in Pools : k \in Checkpoints(trees[p])
  BY DEF Common
<1>2. cs # {} /\ NewestCommon(trees, h) = Max(cs)
  BY DEF NewestCommon
<1> HIDE DEF cs
<1>3. Max(cs) \in cs
  BY <1>1, <1>2, MaxOfBounded, 0 \in Int, Top \in Int
<1> QED BY <1>1, <1>2, <1>3

\* truncate_above_height: the trees reach the cursor it leaves behind, and so do
\* the positions that are recovered from them.
LEMMA RewindSound ==
  ASSUME NEW d, \A p \in Pools : SoundTree(p, d.trees[p]), NEW h \in Nat
  PROVE  LET e == TruncateAbove(d, h)
             r == ReplayHeight(d, h)
         IN /\ r \in Nat /\ r <= h
            /\ \A p \in Pools : /\ SoundTree(p, e.trees[p]) /\ Len(e.trees[p].leaves) >= Count(p, r)
                                /\ RecoverPositions(e.trees)[p] \in Nat
                                /\ RecoverPositions(e.trees)[p] >= Count(p, r)
<1> USE Heights1
<1> DEFINE c == NewestCommon(d.trees, h)
           r == ReplayHeight(d, h)
           e == TruncateAbove(d, h)
           trees == [p \in Pools |-> IF c < 0 THEN EmptyTree ELSE TruncateTree(d.trees[p], c)]
<1>1. c \in Int /\ c >= -1 /\ c <= h
  BY CommonBounded, h \in Int
<1>2. r = IF c >= 0 THEN c ELSE 0
  BY <1>1, MaxOfTwo, 0 \in Int DEF ReplayHeight
<1>3. e.trees = trees
  BY DEF TruncateAbove
<1>4. r \in Nat /\ r <= h
  <2> HIDE DEF c, r
  <2> QED BY <1>1, <1>2
<1>5. ASSUME NEW p \in Pools
      PROVE  /\ SoundTree(p, trees[p]) /\ Len(trees[p].leaves) >= Count(p, r)
             /\ r = 0 \/ r \in Checkpoints(trees[p])
  <2>1. CASE c < 0
    <3>1. trees[p] = EmptyTree /\ r = 0
      BY <1>1, <1>2, <2>1
    <3>2. Count(p, 0) = 0
      BY CountNone, 0 \in Int
    <3> HIDE DEF trees, r
    <3> QED BY <3>1, <3>2, EmptySound
  <2>2. CASE ~(c < 0)
    <3>1. trees[p] = TruncateTree(d.trees[p], c) /\ r = c
      BY <1>1, <1>2, <2>2
    <3>2. c \in Checkpoints(d.trees[p])
      BY <1>1, <2>2, CommonIsCheckpoint, h \in Int
    <3> HIDE DEF trees, r, c
    <3> QED BY <3>1, <3>2, TruncateSound
  <2> QED BY <2>1, <2>2
<1>6. \A p \in Pools : SoundTree(p, trees[p])
  BY <1>5
<1> HIDE DEF trees, r, e
<1>7. ASSUME NEW p \in Pools
      PROVE  RecoverPositions(trees)[p] \in Nat /\ RecoverPositions(trees)[p] >= Count(p, r)
  <2>1. RecoverPositions(trees)[p] \in Nat
        /\ \A k \in Checkpoints(trees[p]) : RecoverPositions(trees)[p] >= Count(p, k)
    BY <1>6, RecoverAbove
  <2>2. CASE r = 0
    <3>1. Count(p, 0) = 0
      BY CountNone, 0 \in Int
    <3> QED BY <2>1, <2>2, <3>1
  <2>3. CASE r \in Checkpoints(trees[p])
    BY <2>1, <2>3
  <2> QED BY <1>5, <2>2, <2>3
<1> QED BY <1>3, <1>4, <1>5, <1>7 DEF r, e

-----------------------------------------------------------------------------
(* The steps.                                                              *)

AllSound(trees) == \A p \in Pools : SoundTree(p, trees[p])
TreesReach(trees, h) == \A p \in Pools : Len(trees[p].leaves) >= Count(p, h)
PosReach(pos, h) == \A p \in Pools : pos[p] \in Nat /\ pos[p] >= Count(p, h)

\* The run's positions and the trees have got to the block before the next
\* batch, inside a batch to its end; the cursor is never ahead of the trees.
Level ==
    /\ AllSound(db.trees) /\ TreesReach(db.trees, db.local)
    /\ eng.pc \in {"outer", "main", "batch", "monitor"} =>
          PosReach(eng.pos, eng.cur - 1) /\ TreesReach(db.trees, eng.cur - 1)
    /\ eng.pc \in {"notes", "ckpt", "save"} =>
          PosReach(eng.pos, Final(eng.batch)) /\ TreesReach(db.trees, Final(eng.batch))

\* How the run's heights lie to each other and to the cursor.
Order ==
    /\ eng.pc \in {"validate", "init"} => db.local <= eng.start - 1
    /\ eng.pc = "init" => eng.cur = eng.start
    /\ eng.pc \in {"init", "monitor"} => eng.prog = eng.cur - 1
    /\ eng.pc \in {"outer", "main"} => eng.cur <= eng.end \/ eng.prog = eng.cur - 1

CursorInv == CoherenceInv /\ Order /\ (~deep => Level)

LEMMA ReachDown ==
  ASSUME NEW trees, AllSound(trees), NEW a \in Int, NEW b \in Int, a <= b, TreesReach(trees, b)
  PROVE  TreesReach(trees, a)
<1> SUFFICES ASSUME NEW p \in Pools PROVE Len(trees[p].leaves) >= Count(p, a)
  BY DEF TreesReach
<1>1. Count(p, a) \in Nat /\ Count(p, b) \in Nat /\ Count(p, a) <= Count(p, b)
  BY CountNat, CountGrows
<1>2. Len(trees[p].leaves) \in Nat /\ Len(trees[p].leaves) >= Count(p, b)
  BY DEF AllSound, SoundTree, TreesReach
<1> QED BY <1>1, <1>2

LEMMA LoadedReach ==
  ASSUME NEW trees, AllSound(trees), NEW h, \A p \in Pools : h \in Checkpoints(trees[p])
  PROVE  PosReach(RecoverPositions(trees), h) /\ TreesReach(trees, h)
<1>1. \A p \in Pools : /\ RecoverPositions(trees)[p] \in Nat
                       /\ \A k \in Checkpoints(trees[p]) : RecoverPositions(trees)[p] >= Count(p, k)
  BY RecoverAbove DEF AllSound
<1> QED BY <1>1 DEF PosReach, TreesReach, AllSound, SoundTree

LEMMA RewindReach ==
  ASSUME NEW d, AllSound(d.trees), NEW h \in Nat
  PROVE  LET e == TruncateAbove(d, h)
             r == ReplayHeight(d, h)
         IN /\ r \in Nat /\ r <= h /\ e.local = r
            /\ AllSound(e.trees) /\ TreesReach(e.trees, r) /\ PosReach(RecoverPositions(e.trees), r)
<1>1. TruncateAbove(d, h).local = ReplayHeight(d, h)
  BY DEF TruncateAbove
<1>2. \A p \in Pools : SoundTree(p, d.trees[p])
  BY DEF AllSound
<1> DEFINE e == TruncateAbove(d, h)
           r == ReplayHeight(d, h)
<1>3. /\ r \in Nat /\ r <= h
      /\ \A p \in Pools : /\ SoundTree(p, e.trees[p]) /\ Len(e.trees[p].leaves) >= Count(p, r)
                          /\ RecoverPositions(e.trees)[p] \in Nat
                          /\ RecoverPositions(e.trees)[p] >= Count(p, r)
  BY <1>2, RewindSound
<1> HIDE DEF e, r
<1>4. e.local = r
  BY <1>1 DEF e, r
<1>5. AllSound(e.trees) /\ TreesReach(e.trees, r) /\ PosReach(RecoverPositions(e.trees), r)
  BY <1>3 DEF AllSound, TreesReach, PosReach
<1> QED BY <1>3, <1>4, <1>5 DEF e, r

\* What a rewind does to the database alone, whether it is sound or not.
LEMMA RewoundCursor ==
  ASSUME NEW d, NEW h \in Nat
  PROVE  /\ TruncateAbove(d, h).local = ReplayHeight(d, h)
         /\ ReplayHeight(d, h) \in Nat /\ ReplayHeight(d, h) <= h
<1> DEFINE c == NewestCommon(d.trees, h)
<1>1. c \in Int /\ c <= h
  BY CommonBounded, h \in Int
<1>2. ReplayHeight(d, h) = IF c >= 0 THEN c ELSE 0
  BY <1>1, MaxOfTwo, 0 \in Int DEF ReplayHeight
<1> HIDE DEF c
<1>3. TruncateAbove(d, h).local = ReplayHeight(d, h)
  BY DEF TruncateAbove
<1> QED BY <1>1, <1>2, <1>3

LEMMA LevelQuiet ==
  ASSUME CursorInv, Grow \/ Reorg \/ Return \/ Stop \/ InsertFails
  PROVE  Order' /\ (~deep' => Level')
<1>1. UNCHANGED <<db, deep>> /\ (UNCHANGED eng \/ eng' = Idle)
  BY DEF Grow, Reorg, Return, Stop, InsertFails, counters
<1>2. CASE UNCHANGED eng
  BY <1>1, <1>2 DEF CursorInv, Order, Level
<1>3. CASE eng' = Idle
  BY <1>1, <1>3, IdleFields DEF CursorInv, Order, Level
<1> QED BY <1>1, <1>2, <1>3

LEMMA LevelStarts ==
  ASSUME CursorInv, Start \/ StartRescan
  PROVE  Order' /\ (~deep' => Level')
<1> USE Heights1
<1>0. tip \in Birthday..Top /\ tip \in Nat /\ db.local \in Nat
  <2>1. tip \in Birthday..Top /\ db.local \in Nat
    BY DEF CursorInv, CoherenceInv, SyncTypes
  <2> QED BY <2>1
<1>1. UNCHANGED deep
  BY DEF Start, StartRescan, counters
<1>2. CASE Start
  <2> DEFINE first == IF db.local > 0 THEN db.local + 1 ELSE Birthday
             start == Max({Birthday, first})
  <2>1. PICK follow \in BOOLEAN :
          eng' = [Idle EXCEPT !.pc = "validate", !.follow = follow, !.gap = TRUE,
                              !.start = start, !.prog = start - 1, !.end = tip]
    BY <1>2 DEF Start
  <2>2. start = IF Birthday >= first THEN Birthday ELSE first
    BY <1>0, MaxOfTwo, Birthday \in Int, first \in Int
  <2>3. start \in Nat /\ db.local <= start - 1
    BY <1>0, <2>2
  <2> HIDE DEF start, first
  <2>4. eng'.pc = "validate" /\ eng'.start = start
    BY <2>1, IdleFields DEF EngineFields
  <2>5. UNCHANGED db
    BY <1>2 DEF Start
  <2> QED BY <1>1, <2>3, <2>4, <2>5 DEF CursorInv, Order, Level
<1>3. CASE StartRescan
  <2>1. PICK from \in Birthday..tip :
          /\ db' = TruncateAbove(db, from - 1)
          /\ eng' = [Idle EXCEPT !.pc = "validate", !.start = from, !.prog = from - 1,
                                 !.end = Max({tip, from})]
    BY <1>3 DEF StartRescan
  <2> DEFINE m == Max({tip, from})
  <2>2. eng' = [Idle EXCEPT !.pc = "validate", !.start = from, !.prog = from - 1, !.end = m]
    BY <2>1
  <2> HIDE DEF m
  <2>3. eng'.pc = "validate" /\ eng'.start = from
    BY <2>2, IdleFields DEF EngineFields
  <2>4. from - 1 \in Nat
    BY <1>0
  <2>5. db'.local <= from - 1
    BY <2>1, <2>4, RewoundCursor
  <2>6. ASSUME ~deep PROVE AllSound(db'.trees) /\ TreesReach(db'.trees, db'.local)
    BY <2>1, <2>4, <2>6, RewindReach DEF CursorInv, Level
  <2> QED BY <1>1, <2>3, <2>5, <2>6 DEF Order, Level
<1> QED BY <1>2, <1>3

LEMMA LevelValidate ==
  ASSUME CursorInv, Validate
  PROVE  Order' /\ (~deep' => Level')
<1> USE Heights1
<1> DEFINE v == ValidateResume(db.rows, eng.start, eng.end, eng.gap)
<1>0. /\ RowHeights(db.rows) \subseteq 1..Top /\ eng.start \in Nat /\ eng.start >= 1 /\ db.local \in Nat
      /\ DOMAIN eng = EngineFields /\ db.local <= eng.start - 1
  BY DEF Validate, CursorInv, CoherenceInv, SyncTypes, Order
<1>1. /\ v[1] \in Nat /\ v[2] \in Int
      /\ \/ v[1] = eng.start /\ v[2] = -1
         \/ v[1] = v[2] + 1 /\ v[2] >= 0
  BY <1>0, ResumeBounded
<1>2. db' = IF v[2] < 0 THEN db ELSE TruncateAbove(db, v[2])
  BY DEF Validate
<1>3. eng' = [eng EXCEPT !.pc = "init", !.start = v[1], !.cur = v[1], !.prog = v[1] - 1, !.last = v[1] - 1]
      /\ UNCHANGED deep
  BY DEF Validate, counters
<1> HIDE DEF v
<1>4. eng'.pc = "init" /\ eng'.start = v[1] /\ eng'.cur = v[1] /\ eng'.prog = v[1] - 1
  BY <1>0, <1>3 DEF EngineFields
<1>5. CASE v[2] < 0
  <2>1. db' = db /\ v[1] = eng.start
    BY <1>1, <1>2, <1>5
  <2> QED BY <1>0, <1>3, <1>4, <2>1 DEF CursorInv, Order, Level
<1>6. CASE ~(v[2] < 0)
  <2>1. db' = TruncateAbove(db, v[2]) /\ v[2] \in Nat /\ v[1] - 1 = v[2]
    BY <1>1, <1>2, <1>6
  <2>2. db'.local <= v[2]
    BY <2>1, RewoundCursor
  <2>3. ASSUME ~deep PROVE AllSound(db'.trees) /\ TreesReach(db'.trees, db'.local)
    BY <2>1, <2>3, RewindReach DEF CursorInv, Level
  <2> QED BY <1>3, <1>4, <2>1, <2>2, <2>3 DEF Order, Level
<1> QED BY <1>5, <1>6

LEMMA LevelInit ==
  ASSUME CursorInv, InitFromActivation \/ InitLocal \/ InitSeed \/ InitReplay
  PROVE  Order' /\ (~deep' => Level')
<1> USE Heights1
<1>0. /\ eng.pc = "init" /\ eng.start \in Nat /\ eng.start >= 1 /\ eng.cur = eng.start
      /\ eng.prog = eng.cur - 1 /\ db.local \in Nat /\ db.local <= eng.start - 1
      /\ DOMAIN eng = EngineFields /\ DOMAIN db = {"local", "rows", "trees"}
  BY DEF InitFromActivation, InitLocal, InitSeed, InitReplay, CursorInv, CoherenceInv, SyncTypes, Order
<1>1. UNCHANGED deep
  BY DEF InitFromActivation, InitLocal, InitSeed, InitReplay, counters
<1>2. CASE InitFromActivation
  <2> DEFINE base == Activation - 1
             trees == [p \in Pools |-> AddCheckpoint(EmptyTree, base)]
             goal == IF Activation < eng.start THEN eng.start - 1 ELSE NoTarget
             pos == RecoverPositions(trees)
  <2>1. db' = [db EXCEPT !.trees = trees, !.local = base]
    BY <1>2 DEF InitFromActivation
  <2>2. eng' = [[eng EXCEPT !.cur = Activation, !.last = base, !.prog = base, !.target = goal]
                  EXCEPT !.pc = "outer", !.pos = pos]
    BY <1>2 DEF InitFromActivation, Loaded
  <2>3. base \in Nat /\ base = Activation - 1
    OBVIOUS
  <2>4. ASSUME NEW p \in Pools PROVE SoundTree(p, trees[p]) /\ base \in Checkpoints(trees[p])
    <3>1. Count(p, base) = 0
      BY CountNone, base \in Int
    <3>2. trees[p] = AddCheckpoint(EmptyTree, base)
      OBVIOUS
    <3> HIDE DEF base, trees
    <3> QED BY <2>3, <3>1, <3>2, EmptySound, AddSound, FirstCheckpoint
  <2> HIDE DEF trees
  <2>5. AllSound(trees) /\ PosReach(pos, base) /\ TreesReach(trees, base)
    <3>1. AllSound(trees)
      BY <2>4 DEF AllSound
    <3> QED BY <2>4, <3>1, LoadedReach
  <2> HIDE DEF base, goal, pos
  <2>6. db'.trees = trees /\ db'.local = base /\ eng'.pc = "outer" /\ eng'.cur = Activation
        /\ eng'.prog = base /\ eng'.pos = pos
    BY <1>0, <2>1, <2>2 DEF EngineFields
  <2> QED BY <2>3, <2>5, <2>6 DEF Order, Level
<1>3. CASE InitLocal
  <2> DEFINE h == eng.start - 1
             trees == [p \in Pools |-> Retain(db.trees[p], h)]
             pos == RecoverPositions(db.trees)
  <2>1. db' = [db EXCEPT !.trees = trees] /\ \A p \in Pools : h \in Checkpoints(db.trees[p])
    BY <1>3 DEF InitLocal, Common
  <2>2. eng' = [eng EXCEPT !.pc = "outer", !.pos = pos]
    BY <1>3 DEF InitLocal, Loaded
  <2>3. ASSUME AllSound(db.trees), NEW p \in Pools
        PROVE  SoundTree(p, trees[p]) /\ trees[p].leaves = db.trees[p].leaves
    BY <2>3, RetainSound DEF AllSound
  <2> HIDE DEF trees
  <2>4. ASSUME AllSound(db.trees), TreesReach(db.trees, db.local)
        PROVE  /\ AllSound(trees) /\ TreesReach(trees, db.local)
               /\ PosReach(pos, h) /\ TreesReach(trees, h)
    <3>1. PosReach(pos, h) /\ TreesReach(db.trees, h)
      BY <2>1, <2>4, LoadedReach
    <3> QED BY <2>3, <2>4, <3>1 DEF AllSound, TreesReach
  <2> HIDE DEF pos
  <2>5. db'.trees = trees /\ db'.local = db.local /\ eng'.pc = "outer" /\ eng'.cur = eng.cur
        /\ eng'.prog = eng.prog /\ eng'.pos = pos
    BY <1>0, <2>1, <2>2 DEF EngineFields
  <2> QED BY <1>0, <1>1, <2>4, <2>5 DEF CursorInv, Order, Level
<1>4. CASE InitSeed
  <2> DEFINE h == eng.start - 1
             seed(p) == AddCheckpoint([EmptyTree EXCEPT !.leaves = LeavesTo(p, Branch, h)], h)
             trees == [p \in Pools |-> Retain(seed(p), h)]
             pos == RecoverPositions(trees)
  <2>1. db' = [db EXCEPT !.trees = trees]
    BY <1>4 DEF InitSeed
  <2>2. eng' = [eng EXCEPT !.pc = "outer", !.pos = pos]
    BY <1>4 DEF InitSeed, Loaded
  <2>0. h \in Nat
    BY <1>0
  <2>3. ASSUME NEW p \in Pools PROVE SoundTree(p, trees[p]) /\ h \in Checkpoints(trees[p])
    <3> DEFINE s == LeavesTo(p, Branch, h)
    <3>1. Len(s) = Count(p, h) /\ Count(p, h) \in Nat
      BY <2>0, SeedLength, CountNat, h \in Int
    <3>2. trees[p] = Retain(seed(p), h)
      OBVIOUS
    <3> HIDE DEF s
    <3>3. SoundTree(p, seed(p)) /\ h \in Checkpoints(seed(p))
      BY <2>0, <3>1, SeedSound DEF s
    <3> HIDE DEF seed, trees
    <3> QED BY <3>2, <3>3, RetainSound
  <2> HIDE DEF trees, seed
  <2>4. AllSound(trees) /\ PosReach(pos, h) /\ TreesReach(trees, h)
    <3>1. AllSound(trees)
      BY <2>3 DEF AllSound
    <3> QED BY <2>3, <3>1, LoadedReach
  <2>5. TreesReach(trees, db.local)
    BY <1>0, <2>0, <2>4, ReachDown, h \in Int, db.local \in Int
  <2> HIDE DEF pos
  <2>6. db'.trees = trees /\ db'.local = db.local /\ eng'.pc = "outer" /\ eng'.cur = eng.cur
        /\ eng'.prog = eng.prog /\ eng'.pos = pos
    BY <1>0, <2>1, <2>2 DEF EngineFields
  <2> QED BY <1>0, <2>4, <2>5, <2>6 DEF Order, Level
<1>5. CASE InitReplay
  <2> DEFINE c == PartialReplay(db, eng.start - 1)
             trees == [p \in Pools |-> TruncateTree(db.trees[p], c)]
             pos == RecoverPositions(trees)
             goal == eng.start - 1
  <2>1. db' = [db EXCEPT !.trees = trees, !.local = c] /\ c >= Activation - 1
    BY <1>5 DEF InitReplay
  <2>2. eng' = [[eng EXCEPT !.cur = c + 1, !.last = c, !.prog = c, !.target = goal]
                  EXCEPT !.pc = "outer", !.pos = pos]
    BY <1>5 DEF InitReplay, Loaded
  <2>3. c \in Int
    BY <1>0, CommonBounded DEF PartialReplay
  <2>4. c >= 0 /\ c = NewestCommon(db.trees, db.local)
    <3>1. c = -1 \/ c = NewestCommon(db.trees, db.local)
      BY DEF PartialReplay
    <3> HIDE DEF c
    <3> QED BY <2>1, <2>3, <3>1
  <2>5. \A p \in Pools : c \in Checkpoints(db.trees[p])
    BY <1>0, <2>4, CommonIsCheckpoint, db.local \in Int
  <2>6. \A p \in Pools : trees[p] = TruncateTree(db.trees[p], c)
    OBVIOUS
  <2> HIDE DEF trees, c
  <2>7. ASSUME AllSound(db.trees)
        PROVE  AllSound(trees) /\ PosReach(pos, c) /\ TreesReach(trees, c)
    <3>1. \A p \in Pools : SoundTree(p, trees[p]) /\ c \in Checkpoints(trees[p])
      BY <2>5, <2>6, <2>7, TruncateSound DEF AllSound
    <3>2. AllSound(trees)
      BY <3>1 DEF AllSound
    <3> QED BY <3>1, <3>2, LoadedReach
  <2> HIDE DEF pos, goal
  <2>8. db'.trees = trees /\ db'.local = c /\ eng'.pc = "outer" /\ eng'.cur = c + 1
        /\ eng'.prog = c /\ eng'.pos = pos
    BY <1>0, <2>1, <2>2 DEF EngineFields
  <2>9. eng'.cur - 1 = c
    BY <2>3, <2>8
  <2> QED BY <1>1, <2>7, <2>8, <2>9 DEF CursorInv, Order, Level
<1> QED BY <1>2, <1>3, <1>4, <1>5

\* After a rewind that goes all the way, or one the run follows down, the
\* positions and the trees are at the block before the next batch.
LEMMA LevelRewinds ==
  ASSUME CursorInv, Repair \/ BoundaryReorg
  PROVE  Order' /\ (~deep' => Level')
<1> USE Heights1
<1>0. /\ RowHeights(db.rows) \subseteq 1..Top /\ eng.cur \in Nat /\ eng.end \in Nat /\ eng.prog \in Nat
      /\ eng.cur >= 1 /\ eng.end >= Birthday /\ DOMAIN eng = EngineFields
  BY DEF Repair, BoundaryReorg, CursorInv, CoherenceInv, SyncTypes
<1>1. CASE Repair
  <2>1. PICK from \in Birthday..eng.prog :
          /\ Rollback(from - 1)
          /\ LET back == ReplayHeight(db, from - 1)
             IN eng' = [eng EXCEPT !.pc = "main", !.cur = back + 1, !.prog = back,
                          !.end = Max({@, from, back + 1}), !.last = back,
                          !.prev = NoBlock, !.pos = RecoverPositions(db'.trees)]
    BY <1>1 DEF Repair
  <2> DEFINE back == ReplayHeight(db, from - 1)
             end == Max({eng.end, from, back + 1})
             pos == RecoverPositions(db'.trees)
             block == NoBlock
  <2>2. eng' = [eng EXCEPT !.pc = "main", !.cur = back + 1, !.prog = back, !.end = end, !.last = back,
                           !.prev = block, !.pos = pos]
    BY <2>1
  <2>3. db' = TruncateAbove(db, from - 1) /\ from - 1 \in Nat /\ UNCHANGED deep
    <3>1. from - 1 \in Nat
      BY <1>0
    <3>2. db' = TruncateAbove(db, from - 1)
      BY <2>1 DEF Rollback
    <3>3. UNCHANGED deep
      BY <1>1 DEF Repair
    <3> QED BY <3>1, <3>2, <3>3
  <2>4. back \in Nat
    BY <2>3, RewoundCursor
  <2>5. ASSUME ~deep PROVE AllSound(db'.trees) /\ TreesReach(db'.trees, db'.local)
                           /\ TreesReach(db'.trees, back) /\ PosReach(pos, back)
    <3>1. AllSound(db.trees)
      BY <2>5 DEF CursorInv, Level
    <3> HIDE DEF end, block
    <3> QED BY <2>3, <3>1, RewindReach
  <2> HIDE DEF back, end, pos, block
  <2>6. eng'.pc = "main" /\ eng'.cur = back + 1 /\ eng'.prog = back /\ eng'.pos = pos
    BY <1>0, <2>2 DEF EngineFields
  <2>7. eng'.cur - 1 = back
    BY <2>4, <2>6
  <2> QED BY <2>3, <2>5, <2>6, <2>7 DEF Order, Level
<1>2. CASE BoundaryReorg
  <2> DEFINE a == AncestorOrFloor(db.rows, eng.cur - 1)
             pos == RecoverPositions(db'.trees)
             nothing == <<>>
             block == NoBlock
             r == ReplayHeight(db, a)
  <2>1. eng' = [eng EXCEPT !.pc = "main", !.cur = a + 1, !.last = a, !.batch = nothing,
                           !.prev = block, !.pos = pos]
        /\ db' = TruncateAbove(db, a) /\ deep' = (deep \/ r < a)
    BY <1>2 DEF BoundaryReorg, Rollback
  <2>2. a \in Nat /\ a <= Max({eng.cur - 1, Birthday - 1})
    BY <1>0, AncestorBounded, eng.cur - 1 \in Int
  <2>3. Max({eng.cur - 1, Birthday - 1}) = IF eng.cur - 1 >= Birthday - 1 THEN eng.cur - 1 ELSE Birthday - 1
    BY <1>0, MaxOfTwo, eng.cur - 1 \in Int, Birthday - 1 \in Int
  <2>4. a + 1 <= eng.end
    <3>1. eng.cur <= eng.end
      BY <1>2 DEF CursorInv, CoherenceInv, BatchAtCur, BoundaryReorg, InBatch
    <3> HIDE DEF a
    <3> QED BY <1>0, <2>2, <2>3, <3>1
  <2> HIDE DEF a, nothing, block
  <2>5. r \in Nat /\ r <= a
    BY <2>2, RewoundCursor
  <2>6. ASSUME ~deep' PROVE /\ ~deep /\ r = a /\ AllSound(db'.trees) /\ TreesReach(db'.trees, db'.local)
                            /\ TreesReach(db'.trees, a) /\ PosReach(pos, a)
    <3>1. ~deep /\ ~(r < a)
      BY <2>1, <2>6
    <3>2. AllSound(db.trees)
      BY <3>1 DEF CursorInv, Level
    <3>3. /\ db'.local = r /\ AllSound(db'.trees) /\ TreesReach(db'.trees, r) /\ PosReach(pos, r)
      BY <2>1, <2>2, <3>2, RewindReach
    <3> HIDE DEF r, pos
    <3>4. r = a
      BY <2>2, <2>5, <3>1
    <3> QED BY <3>1, <3>3, <3>4
  <2> HIDE DEF pos, r
  <2>7. eng'.pc = "main" /\ eng'.cur = a + 1 /\ eng'.end = eng.end /\ eng'.pos = pos
    BY <1>0, <2>1 DEF EngineFields
  <2>8. eng'.cur - 1 = a
    BY <2>2, <2>7
  <2> QED BY <2>4, <2>6, <2>7, <2>8 DEF Order, Level
<1> QED BY <1>1, <1>2

LEMMA LevelMonitor ==
  ASSUME CursorInv, Monitor
  PROVE  Order' /\ (~deep' => Level')
<1> USE Heights1
<1> DEFINE v == ValidateResume(db.rows, eng.prog + 1, tip, TRUE)
           pos == RecoverPositions(db'.trees)
<1>0. /\ RowHeights(db.rows) \subseteq 1..Top /\ eng.cur \in Nat /\ eng.prog \in Nat
      /\ DOMAIN eng = EngineFields /\ eng.pc = "monitor" /\ eng.prog = eng.cur - 1
      /\ tip \in Nat
  <2>1. tip \in Birthday..Top
    BY DEF CursorInv, CoherenceInv, SyncTypes
  <2> QED BY <2>1 DEF Monitor, CursorInv, CoherenceInv, SyncTypes, Order
<1>1. /\ v[1] \in Nat /\ v[2] \in Int
      /\ \/ v[1] = eng.prog + 1 /\ v[2] = -1
         \/ v[1] = v[2] + 1 /\ v[2] >= 0
  <2>1. eng.prog + 1 \in Nat /\ eng.prog + 1 >= 1
    BY <1>0
  <2> QED BY <1>0, <2>1, ResumeBounded
<1>2. CASE v[1] <= eng.prog
  <2> DEFINE end == Max({tip, v[1]})
             r == ReplayHeight(db, v[2])
  <2>1. db' = TruncateAbove(db, v[2]) /\ deep' = (deep \/ r < v[2])
        /\ eng' = [eng EXCEPT !.pc = "outer", !.cur = v[1], !.last = v[1] - 1, !.end = end, !.pos = pos]
    BY <1>2 DEF Monitor
  <2> HIDE DEF v
  <2>2. v[2] \in Nat /\ v[1] - 1 = v[2]
    BY <1>0, <1>1, <1>2
  <2>3. end = IF tip >= v[1] THEN tip ELSE v[1]
    BY <1>0, <1>1, MaxOfTwo, tip \in Int, v[1] \in Int
  <2>4. end \in Nat /\ v[1] <= end
    BY <1>0, <1>1, <2>3
  <2>5. r \in Nat /\ r <= v[2]
    BY <2>2, RewoundCursor
  <2>6. ASSUME ~deep' PROVE /\ ~deep /\ AllSound(db'.trees) /\ TreesReach(db'.trees, db'.local)
                            /\ TreesReach(db'.trees, v[2]) /\ PosReach(pos, v[2])
    <3>1. ~deep /\ ~(r < v[2])
      BY <2>1, <2>6
    <3>2. AllSound(db.trees)
      BY <3>1 DEF CursorInv, Level
    <3>3. /\ db'.local = r /\ AllSound(db'.trees) /\ TreesReach(db'.trees, r) /\ PosReach(pos, r)
      BY <2>1, <2>2, <3>2, RewindReach
    <3> HIDE DEF r, pos
    <3>4. r = v[2]
      BY <2>2, <2>5, <3>1
    <3> QED BY <3>1, <3>3, <3>4
  <2> HIDE DEF pos, r, end
  <2>7. eng'.pc = "outer" /\ eng'.cur = v[1] /\ eng'.end = end /\ eng'.pos = pos
    BY <1>0, <2>1 DEF EngineFields
  <2> QED BY <2>2, <2>4, <2>6, <2>7 DEF Order, Level
<1>3. CASE ~(v[1] <= eng.prog)
  <2>1. UNCHANGED <<db, deep>>
        /\ eng' = [eng EXCEPT !.pc = "outer", !.cur = eng.prog + 1, !.end = tip]
    BY <1>3 DEF Monitor
  <2> HIDE DEF v
  <2>2. eng'.pc = "outer" /\ eng'.cur = eng.cur /\ eng'.prog = eng.prog /\ eng'.pos = eng.pos
    BY <1>0, <2>1 DEF EngineFields
  <2> QED BY <1>0, <2>1, <2>2 DEF CursorInv, Order, Level
<1> QED BY <1>2, <1>3

LEMMA LevelLoop ==
  ASSUME CursorInv, NoRepair \/ SkipCheckpoint
  PROVE  Order' /\ (~deep' => Level')
<1>0. DOMAIN eng = EngineFields
  BY DEF CursorInv, CoherenceInv, SyncTypes
<1>1. UNCHANGED <<db, deep>>
  BY DEF NoRepair, SkipCheckpoint, counters
<1>2. /\ eng'.cur = eng.cur /\ eng'.end = eng.end /\ eng'.prog = eng.prog /\ eng'.batch = eng.batch
      /\ eng'.pos = eng.pos
      /\ \/ eng.pc = "outer" /\ eng'.pc = "main"
         \/ eng.pc = "ckpt" /\ eng'.pc = "save"
  BY <1>0 DEF NoRepair, SkipCheckpoint, EngineFields
<1> QED BY <1>1, <1>2 DEF CursorInv, Order, Level

LEMMA LevelFetch ==
  ASSUME CursorInv, Fetch
  PROVE  Order' /\ (~deep' => Level')
<1>0. DOMAIN eng = EngineFields /\ eng.pc = "main"
  BY DEF Fetch, CursorInv, CoherenceInv, SyncTypes
<1>1. UNCHANGED <<db, deep>>
  BY DEF Fetch, counters
<1>2. \E b : eng' = [eng EXCEPT !.pc = "batch", !.batch = b]
  BY DEF Fetch
<1>3. PICK b : eng' = [eng EXCEPT !.pc = "batch", !.batch = b]
  BY <1>2
<1>4. eng'.pc = "batch" /\ eng'.cur = eng.cur /\ eng'.pos = eng.pos
  BY <1>0, <1>3 DEF EngineFields
<1> QED BY <1>0, <1>1, <1>4 DEF CursorInv, Order, Level

\* The worker's trees, at the points where it uses them.
LEMMA WorkerHasTrees ==
  ASSUME CoherenceInv, \/ eng.pc \in {"notes", "ckpt", "save"}
                       \/ eng.pc = "batch" /\ BoundaryValid
                       \/ eng.pc = "main" /\ eng.cur > eng.end
  PROVE  WorkerTrees = db.trees
<1>1. ~Stale
  <2>1. CASE eng.pc = "batch" /\ BoundaryValid
    BY <2>1, StaleIsRefused
  <2>2. CASE eng.pc \in {"notes", "ckpt", "save"}
    BY <2>2 DEF CoherenceInv, StaleOnlyAfterMonitor
  <2>3. CASE eng.pc = "main" /\ eng.cur > eng.end
    BY <2>3 DEF CoherenceInv, StaleOnlyAfterMonitor, SyncTypes
  <2> QED BY <2>1, <2>2, <2>3
<1> QED BY <1>1 DEF Stale, WorkerTrees

LEMMA LevelCommit ==
  ASSUME CursorInv, CommitTrees
  PROVE  Order' /\ (~deep' => Level')
<1> USE Heights1
<1>0. /\ DOMAIN eng = EngineFields /\ DOMAIN db = {"local", "rows", "trees"} /\ eng.pc = "batch"
      /\ eng.cur \in Nat /\ eng.cur >= 1 /\ Fetched(eng.batch, eng.cur) /\ db.local \in Nat
      /\ UNCHANGED deep
  BY DEF CommitTrees, CursorInv, CoherenceInv, SyncTypes, BatchAtCur, InBatch, counters
<1>1. WorkerTrees = db.trees
  BY WorkerHasTrees DEF CommitTrees, CursorInv
<1> DEFINE e == Final(eng.batch)
           dense == PerBlock(eng.batch, eng.end)
           trees == [p \in Pools |-> InsertBatch(p, eng.batch, eng.pos[p], dense, WorkerTrees[p])]
           done == /\ \E p \in Pools : e \in Applied(p, eng.batch, WorkerTrees[p])
                   /\ \A p \in Pools : CheckpointDue(p, e, dense)
           last == IF done THEN e ELSE eng.last
           pos == [p \in Pools |-> eng.pos[p] + Before(p, eng.batch, e + 1)]
<1>2. db' = [db EXCEPT !.trees = trees]
  BY DEF CommitTrees
<1>3. eng' = [eng EXCEPT !.pc = "notes", !.ckpt = done, !.last = last, !.pos = pos]
  BY DEF CommitTrees
<1>4. First(eng.batch) = eng.cur /\ e \in Nat /\ eng.cur <= e
  BY <1>0, BatchEnds
<1>5. ASSUME ~deep, NEW p \in Pools
      PROVE  /\ SoundTree(p, trees[p]) /\ Len(trees[p].leaves) >= Len(db.trees[p].leaves)
             /\ Len(trees[p].leaves) >= Count(p, e)
             /\ pos[p] \in Nat /\ pos[p] >= Count(p, e)
  <2>0. /\ SoundTree(p, db.trees[p]) /\ eng.pos[p] \in Nat /\ eng.pos[p] >= Count(p, eng.cur - 1)
        /\ Len(db.trees[p].leaves) >= Count(p, eng.cur - 1)
    BY <1>0, <1>5 DEF CursorInv, Level, AllSound, PosReach, TreesReach
  <2>1. trees[p] = InsertBatch(p, eng.batch, eng.pos[p], dense, db.trees[p])
    BY <1>1
  <2>2. pos[p] = eng.pos[p] + Before(p, eng.batch, e + 1)
    OBVIOUS
  <2> HIDE DEF trees, pos, dense
  <2>3. /\ SoundTree(p, trees[p]) /\ Len(trees[p].leaves) >= Len(db.trees[p].leaves)
        /\ Len(trees[p].leaves) >= Count(p, e)
    BY <1>0, <2>0, <2>1, InsertSound
  <2> HIDE DEF e
  <2> DEFINE x == e + 1
  <2>4. x \in Int /\ x - 1 = e /\ First(eng.batch) \in Int /\ First(eng.batch) <= x /\ eng.cur - 1 \in Int
    BY <1>0, <1>4
  <2>5. pos[p] = eng.pos[p] + Before(p, eng.batch, x)
    BY <2>2
  <2> HIDE DEF x
  <2>6. Before(p, eng.batch, x) \in Nat
        /\ Count(p, x - 1) = Count(p, First(eng.batch) - 1) + Before(p, eng.batch, x)
    BY <2>4, CountBatch
  <2>7. Count(p, eng.cur - 1) \in Nat
    BY <2>4, CountNat
  <2>8. Count(p, e) = Count(p, eng.cur - 1) + Before(p, eng.batch, x)
    BY <1>4, <2>4, <2>6
  <2> QED BY <2>0, <2>3, <2>5, <2>6, <2>7, <2>8
<1> HIDE DEF trees, done, last, pos, dense
<1>6. db'.trees = trees /\ db'.local = db.local
  BY <1>0, <1>2
<1>7. eng'.pc = "notes" /\ eng'.pos = pos /\ eng'.batch = eng.batch
  BY <1>0, <1>3 DEF EngineFields
<1>8. ASSUME ~deep
      PROVE  AllSound(trees) /\ TreesReach(trees, db.local) /\ TreesReach(trees, e) /\ PosReach(pos, e)
  <2> HIDE DEF e
  <2>1. AllSound(trees) /\ TreesReach(trees, e) /\ PosReach(pos, e)
    BY <1>5, <1>8 DEF AllSound, TreesReach, PosReach
  <2>2. ASSUME NEW p \in Pools PROVE Len(trees[p].leaves) >= Count(p, db.local)
    <3>1. Len(trees[p].leaves) \in Nat /\ Len(db.trees[p].leaves) \in Nat
          /\ Len(db.trees[p].leaves) >= Count(p, db.local)
      BY <1>8, <2>1 DEF CursorInv, Level, AllSound, SoundTree, TreesReach
    <3>2. Count(p, db.local) \in Nat
      BY <1>0, CountNat, db.local \in Int
    <3>3. Len(trees[p].leaves) >= Len(db.trees[p].leaves)
      BY <1>5, <1>8
    <3> QED BY <3>1, <3>2, <3>3
  <2> QED BY <2>1, <2>2 DEF TreesReach
<1> QED BY <1>0, <1>6, <1>7, <1>8 DEF Order, Level

LEMMA LevelNotes ==
  ASSUME CursorInv, PersistNotes
  PROVE  Order' /\ (~deep' => Level')
<1> USE Heights1
<1>0. /\ DOMAIN eng = EngineFields /\ DOMAIN db = {"local", "rows", "trees"} /\ eng.pc = "notes"
      /\ eng.cur \in Nat /\ eng.cur >= 1 /\ Fetched(eng.batch, eng.cur) /\ UNCHANGED deep
  BY DEF PersistNotes, CursorInv, CoherenceInv, SyncTypes, BatchAtCur, InBatch, counters
<1> DEFINE e == Final(eng.batch)
           S == NotesIn(eng.batch)
           local == IF S = {} THEN db.local ELSE Max(S)
<1>1. db' = [db EXCEPT !.local = local] /\ eng' = [eng EXCEPT !.pc = "ckpt"]
  BY DEF PersistNotes
<1>2. local = db.local \/ (local \in Int /\ local <= e)
  <2>1. CASE S = {}
    BY <2>1
  <2>2. CASE S # {}
    <3>1. First(eng.batch) = eng.cur /\ e \in Nat
      BY <1>0, BatchEnds
    <3>2. S \in SUBSET (eng.cur..e)
      BY <3>1 DEF NotesIn, Heights
    <3> HIDE DEF S, e
    <3>3. Max(S) \in S
      BY <1>0, <2>2, <3>1, <3>2, MaxOfBounded, eng.cur \in Int, e \in Int
    <3> DEFINE m == Max(S)
    <3>4. m \in S /\ local = m
      BY <2>2, <3>3
    <3> HIDE DEF m, local
    <3> QED BY <1>0, <3>1, <3>2, <3>4
  <2> QED BY <2>1, <2>2
<1>3. e \in Int
  BY <1>0, BatchEnds
<1>4. ASSUME ~deep PROVE TreesReach(db.trees, local)
  <2>1. AllSound(db.trees) /\ TreesReach(db.trees, db.local) /\ TreesReach(db.trees, e)
    BY <1>0, <1>4 DEF CursorInv, Level
  <2> HIDE DEF local, e
  <2> QED BY <1>2, <1>3, <2>1, ReachDown
<1> HIDE DEF local
<1>5. db'.trees = db.trees /\ db'.local = local
  BY <1>0, <1>1
<1>6. eng'.pc = "ckpt" /\ eng'.pos = eng.pos /\ eng'.batch = eng.batch
  BY <1>0, <1>1 DEF EngineFields
<1> QED BY <1>0, <1>4, <1>5, <1>6 DEF CursorInv, Order, Level

LEMMA CheckpointReach ==
  ASSUME SyncTypes, WorkerTrees = db.trees, NEW h \in Nat, NEW retain, WorkerCheckpoint(h, retain)
  PROVE  /\ db'.local = db.local
         /\ AllSound(db.trees) /\ TreesReach(db.trees, h) =>
              AllSound(db'.trees) /\ \A p \in Pools : db'.trees[p].leaves = db.trees[p].leaves
<1> DEFINE trees == [p \in Pools |->
                    LET t == AddCheckpoint(WorkerTrees[p], h) IN IF retain THEN Retain(t, h) ELSE t]
<1>1. db' = [db EXCEPT !.trees = trees]
  BY DEF WorkerCheckpoint
<1>2. \A p \in Pools : \/ trees[p] = Retain(AddCheckpoint(db.trees[p], h), h)
                       \/ trees[p] = AddCheckpoint(db.trees[p], h)
  OBVIOUS
<1> HIDE DEF trees
<1>3. db'.trees = trees /\ db'.local = db.local
  BY <1>1 DEF SyncTypes
<1>4. ASSUME AllSound(db.trees), TreesReach(db.trees, h), NEW p \in Pools
      PROVE  SoundTree(p, trees[p]) /\ trees[p].leaves = db.trees[p].leaves
  <2> DEFINE t == AddCheckpoint(db.trees[p], h)
  <2>1. SoundTree(p, t) /\ t.leaves = db.trees[p].leaves
    BY <1>4, AddSound DEF AllSound, TreesReach
  <2> HIDE DEF t
  <2>2. trees[p] = Retain(t, h) \/ trees[p] = t
    BY <1>2 DEF t
  <2> QED BY <2>1, <2>2, RetainSound
<1> QED BY <1>3, <1>4 DEF AllSound

LEMMA LevelBatchCheckpoint ==
  ASSUME CursorInv, BatchCheckpoint
  PROVE  Order' /\ (~deep' => Level')
<1> USE Heights1
<1>0. /\ SyncTypes /\ DOMAIN eng = EngineFields /\ eng.pc = "ckpt" /\ eng.cur \in Nat /\ eng.cur >= 1
      /\ Fetched(eng.batch, eng.cur) /\ UNCHANGED deep
  BY DEF BatchCheckpoint, CursorInv, CoherenceInv, SyncTypes, BatchAtCur, InBatch, counters
<1>1. WorkerTrees = db.trees
  BY <1>0, WorkerHasTrees DEF CursorInv
<1> DEFINE e == Final(eng.batch)
           due == eng.target # NoTarget /\ e >= eng.target
           goal == IF due THEN NoTarget ELSE eng.target
<1>2. PICK major \in BOOLEAN :
        /\ WorkerCheckpoint(e, major \/ due)
        /\ eng' = [eng EXCEPT !.pc = "save", !.ckpt = TRUE, !.last = e, !.target = goal]
  BY DEF BatchCheckpoint
<1>3. e \in Nat
  BY <1>0, BatchEnds
<1> HIDE DEF due, goal
<1>4. /\ db'.local = db.local
      /\ AllSound(db.trees) /\ TreesReach(db.trees, e) =>
           AllSound(db'.trees) /\ \A p \in Pools : db'.trees[p].leaves = db.trees[p].leaves
  BY <1>0, <1>1, <1>2, <1>3, CheckpointReach
<1>5. eng'.pc = "save" /\ eng'.pos = eng.pos /\ eng'.batch = eng.batch
  <2> HIDE DEF e
  <2> QED BY <1>0, <1>2 DEF EngineFields
<1>6. ASSUME ~deep
      PROVE  /\ AllSound(db'.trees) /\ TreesReach(db'.trees, db.local) /\ TreesReach(db'.trees, e)
             /\ PosReach(eng.pos, e)
  BY <1>0, <1>4, <1>6 DEF CursorInv, Level, TreesReach
<1> QED BY <1>0, <1>4, <1>5, <1>6 DEF Order, Level

LEMMA LevelSave ==
  ASSUME CursorInv, SaveState \/ SkipSave
  PROVE  Order' /\ (~deep' => Level')
<1> USE Heights1
<1>0. /\ DOMAIN eng = EngineFields /\ DOMAIN db = {"local", "rows", "trees"} /\ eng.pc = "save"
      /\ eng.cur \in Nat /\ eng.cur >= 1 /\ Fetched(eng.batch, eng.cur) /\ UNCHANGED deep
  BY DEF SaveState, SkipSave, CursorInv, CoherenceInv, SyncTypes, BatchAtCur, InBatch, counters
<1> DEFINE e == Final(eng.batch)
           block == eng.batch[Len(eng.batch)]
           nothing == <<>>
<1>1. eng' = [eng EXCEPT !.pc = "main", !.prev = block, !.batch = nothing, !.cur = e + 1, !.prog = e,
                         !.ckpt = FALSE]
  BY DEF SaveState, SkipSave, Advance
<1>2. e \in Nat
  BY <1>0, BatchEnds
<1>3. db'.trees = db.trees /\ db'.local \in {db.local, e}
  <2>1. CASE SkipSave
    BY <2>1 DEF SkipSave
  <2>2. CASE SaveState
    <3> DEFINE window == {h \in Heights(eng.batch) : h >= e - SearchDepth}
               keep == {h \in RowHeights(db.rows) \cup window : h >= e - SearchDepth}
               rows == [h \in keep |-> IF h \in window THEN BlockAt(eng.batch, h) ELSE db.rows[h]]
    <3>1. db' = [db EXCEPT !.local = e, !.rows = rows]
      BY <2>2 DEF SaveState, SaveProgress
    <3> HIDE DEF rows, e
    <3> QED BY <1>0, <3>1
  <2> QED BY <2>1, <2>2
<1>4. ASSUME ~deep
      PROVE  AllSound(db.trees) /\ TreesReach(db.trees, db.local) /\ TreesReach(db.trees, e) /\ PosReach(eng.pos, e)
  BY <1>0, <1>4 DEF CursorInv, Level
<1> HIDE DEF e, block, nothing
<1>5. eng'.pc = "main" /\ eng'.cur = e + 1 /\ eng'.prog = e /\ eng'.pos = eng.pos
  BY <1>0, <1>1 DEF EngineFields
<1>6. eng'.cur - 1 = e
  BY <1>2, <1>5
<1> QED BY <1>0, <1>3, <1>4, <1>5, <1>6 DEF Order, Level

LEMMA LevelFinish ==
  ASSUME CursorInv, Finish
  PROVE  Order' /\ (~deep' => Level')
<1> USE Heights1
<1>0. /\ SyncTypes /\ DOMAIN eng = EngineFields /\ eng.pc = "main" /\ eng.cur \in Nat /\ eng.cur >= 1
      /\ eng.end \in Nat /\ eng.prog \in Nat /\ eng.cur > eng.end /\ UNCHANGED deep
  BY DEF Finish, CursorInv, CoherenceInv, SyncTypes, counters
<1>1. eng.prog = eng.cur - 1 /\ WorkerTrees = db.trees
  <2>1. eng.prog = eng.cur - 1
    BY <1>0 DEF CursorInv, Order
  <2> QED BY <1>0, <2>1, WorkerHasTrees DEF CursorInv
<1> DEFINE h == IF eng.follow THEN eng.prog ELSE eng.end
           last == Max({eng.last, h})
           pc == IF eng.follow THEN "monitor" ELSE "return"
<1>2. eng' = [eng EXCEPT !.pc = pc, !.last = last]
  BY DEF Finish
<1>3. h \in Nat /\ h <= eng.cur - 1
  BY <1>0, <1>1
<1>4. WorkerCheckpoint(h, FALSE) \/ UNCHANGED db
  BY DEF Finish
<1>5. pc \in {"monitor", "return"}
  OBVIOUS
<1> HIDE DEF h, last, pc
<1>6. eng'.pc = pc /\ eng'.cur = eng.cur /\ eng'.prog = eng.prog /\ eng'.pos = eng.pos
  BY <1>0, <1>2 DEF EngineFields
<1>7. db'.local = db.local
  BY <1>0, <1>1, <1>3, <1>4, CheckpointReach
<1>8. ASSUME ~deep
      PROVE  /\ AllSound(db'.trees) /\ TreesReach(db'.trees, db.local) /\ TreesReach(db'.trees, eng.cur - 1)
             /\ PosReach(eng.pos, eng.cur - 1)
  <2>1. /\ AllSound(db.trees) /\ TreesReach(db.trees, db.local) /\ TreesReach(db.trees, eng.cur - 1)
        /\ PosReach(eng.pos, eng.cur - 1)
    BY <1>0, <1>8 DEF CursorInv, Level
  <2>2. TreesReach(db.trees, h)
    <3>1. h \in Int /\ eng.cur - 1 \in Int
      BY <1>0, <1>3
    <3> QED BY <1>3, <2>1, <3>1, ReachDown
  <2>3. CASE UNCHANGED db
    BY <2>1, <2>3
  <2>4. CASE WorkerCheckpoint(h, FALSE)
    <3>1. AllSound(db'.trees) /\ \A p \in Pools : db'.trees[p].leaves = db.trees[p].leaves
      BY <1>0, <1>1, <1>3, <2>1, <2>2, <2>4, CheckpointReach
    <3> QED BY <2>1, <3>1 DEF TreesReach
  <2> QED BY <1>4, <2>3, <2>4
<1> QED BY <1>0, <1>1, <1>5, <1>6, <1>7, <1>8 DEF Order, Level

LEMMA CursorStart == Init => CursorInv
<1> SUFFICES ASSUME Init PROVE CursorInv
  OBVIOUS
<1> DEFINE none == [h \in {} |-> NoBlock]
<1>1. db = [local |-> 0, rows |-> none, trees |-> NoTrees] /\ eng = Idle
  BY DEF Init
<1> HIDE DEF none
<1>2. db.local = 0 /\ db.trees = NoTrees /\ eng.pc = "idle"
  BY <1>1, IdleFields
<1>3. ASSUME NEW p \in Pools PROVE SoundTree(p, NoTrees[p]) /\ Len(NoTrees[p].leaves) >= Count(p, 0)
  <2>1. NoTrees[p] = EmptyTree
    BY DEF NoTrees
  <2>2. Count(p, 0) = 0
    BY CountNone, Heights1, 0 \in Int
  <2> QED BY <2>1, <2>2, EmptySound
<1>4. AllSound(db.trees) /\ TreesReach(db.trees, db.local)
  BY <1>2, <1>3 DEF AllSound, TreesReach
<1> QED BY <1>2, <1>4, CoherenceStart DEF CursorInv, Order, Level

LEMMA CursorStep ==
  ASSUME CursorInv, [Next]_vars, Birthday > 1
  PROVE  CursorInv'
<1>1. CoherenceInv'
  BY CoherenceStep DEF CursorInv
<1>2. CASE UNCHANGED vars
  BY <1>1, <1>2 DEF vars, CursorInv, Order, Level
<1>3. CASE Engine
  <2>1. Order' /\ (~deep' => Level')
    BY <1>3, LevelStarts, LevelValidate, LevelInit, LevelRewinds, LevelLoop, LevelFetch, LevelCommit,
       LevelNotes, LevelBatchCheckpoint, LevelSave, LevelFinish, LevelMonitor, LevelQuiet DEF Engine
  <2> QED BY <1>1, <2>1 DEF CursorInv
<1>4. CASE Grow \/ Reorg \/ StartRescan \/ Stop
  BY <1>1, <1>4, LevelStarts, LevelQuiet DEF CursorInv
<1> QED BY <1>2, <1>3, <1>4 DEF Next

\* CursorBacked: the cursor never claims blocks whose commitments the trees have
\* not absorbed.  The trees of a batch are committed before the cursor moves, and
\* a rewind takes the cursor to the height the trees really went back to.
THEOREM CursorNeverAhead ==
  ASSUME Birthday > 1
  PROVE  Spec => []CursorBacked
<1>1. CursorInv => CursorBacked
  BY DEF CursorInv, Level, TreesReach, Count, CursorBacked
<1>2. CursorInv /\ [Next]_vars => CursorInv'
  BY CursorStep
<1> QED BY CursorStart, <1>1, <1>2, PTL DEF Spec
-----------------------------------------------------------------------------
(* The chain.  L is the lineage; a block determines all its ancestors.     *)

AncIn(L, b, k) == IF k <= Len(L[b]) THEN L[b][k] ELSE b

LineageOK(L) ==
    /\ Len(L) \in Nat /\ Len(L) >= 1 /\ DOMAIN L = 1..Len(L)
    /\ \A b \in 1..Len(L) : Len(L[b]) \in Nat
    /\ \A b \in 1..Len(L) : \A k \in Nat \ {0} : AncIn(L, b, k) \in 1..Len(L)
    /\ \A b \in 1..Len(L) : \A k \in Nat \ {0} : \A j \in 1..k :
          AncIn(L, b, j) = AncIn(L, AncIn(L, b, k), j)

\* Branches b and c have the same commitments up to height h.
Agree(L, b, c, h) ==
    \A p \in Pools : \A k \in Outputs[p] : k <= h => AncIn(L, b, k) = AncIn(L, c, k)

LEMMA OutputHeights ==
  ASSUME NEW p \in Pools, NEW k \in Outputs[p]
  PROVE  k \in Nat /\ k >= 1 /\ k <= Top /\ k >= Activation /\ k \in Int
BY OutputsAssumption, Heights1

LEMMA AncestorIn == \A b, k : Ancestor(b, k) = AncIn(lineage, b, k)
BY DEF Ancestor, AncIn

\* Two branches that share a block share all the commitments below it.
LEMMA SharedBlock ==
  ASSUME NEW L, LineageOK(L), NEW b \in 1..Len(L), NEW c \in 1..Len(L), NEW h \in Nat, h >= 1,
         AncIn(L, b, h) = AncIn(L, c, h)
  PROVE  Agree(L, b, c, h)
<1> SUFFICES ASSUME NEW p \in Pools, NEW k \in Outputs[p], k <= h
             PROVE  AncIn(L, b, k) = AncIn(L, c, k)
  BY DEF Agree
<1>1. k \in 1..h /\ h \in Nat \ {0}
  BY OutputHeights
<1>2. AncIn(L, b, k) = AncIn(L, AncIn(L, b, h), k) /\ AncIn(L, c, k) = AncIn(L, AncIn(L, c, h), k)
  BY <1>1 DEF LineageOK
<1> QED BY <1>2

LEMMA AgreeLaws ==
  ASSUME NEW L, NEW b, NEW c, NEW h \in Int, Agree(L, b, c, h)
  PROVE  /\ Agree(L, c, b, h)
         /\ \A k \in Int : k <= h => Agree(L, b, c, k)
         /\ \A d : Agree(L, c, d, h) => Agree(L, b, d, h)
<1>1. Agree(L, c, b, h)
  BY DEF Agree
<1>2. ASSUME NEW k \in Int, k <= h PROVE Agree(L, b, c, k)
  BY <1>2, OutputHeights DEF Agree
<1>3. ASSUME NEW d, Agree(L, c, d, h) PROVE Agree(L, b, d, h)
  BY <1>3 DEF Agree
<1> QED BY <1>1, <1>2, <1>3

\* The ancestors of a branch that leaves the last one at height f.
Stem(L, f) == [k \in 1..(f - 1) |-> AncIn(L, Len(L), k)]
ForkedAt(L, f, M) == M = Append(L, Stem(L, f))

\* A reorganisation adds a branch and leaves the others as they are.
LEMMA Forked ==
  ASSUME NEW L, LineageOK(L), NEW f \in Nat, f >= 1,
         NEW M, ForkedAt(L, f, M)
  PROVE  /\ LineageOK(M) /\ Len(M) = Len(L) + 1
         /\ \A b \in 1..Len(L) : \A k : AncIn(M, b, k) = AncIn(L, b, k)
         /\ \A k \in Nat \ {0} : AncIn(M, Len(M), k) = IF k < f THEN AncIn(L, Len(L), k) ELSE Len(M)
<1>a. f - 1 \in Nat
  OBVIOUS
<1> DEFINE n == Len(L)
           s == [k \in 1..(f - 1) |-> AncIn(L, n, k)]
<1>0. n \in Nat /\ n >= 1 /\ DOMAIN L = 1..n /\ n \in 1..n
  BY DEF LineageOK
<1>1. DOMAIN s = 1..(f - 1) /\ \A k \in 1..(f - 1) : s[k] = AncIn(L, n, k)
  OBVIOUS
<1>2. Len(s) = f - 1
  BY <1>a, <1>1
<1> HIDE DEF s, n
<1>3. M = Append(L, s)
  BY DEF s, n, Stem, ForkedAt
<1>4. Len(M) = n + 1 /\ DOMAIN M = 1..(n + 1) /\ M[n + 1] = s /\ \A b \in 1..n : M[b] = L[b]
  BY <1>0, <1>3 DEF n
<1>5. \A b \in 1..n : \A k : AncIn(M, b, k) = AncIn(L, b, k)
  BY <1>4 DEF AncIn
<1>6. ASSUME NEW k \in Nat \ {0} PROVE AncIn(M, n + 1, k) = IF k < f THEN AncIn(L, n, k) ELSE n + 1
  <2>1. AncIn(M, n + 1, k) = IF k <= f - 1 THEN s[k] ELSE n + 1
    BY <1>2, <1>4 DEF AncIn
  <2> QED BY <1>a, <1>1, <2>1
<1>7. \A b \in 1..n : \A k \in Nat \ {0} : AncIn(L, b, k) \in 1..n
  BY DEF LineageOK, n
<1>8. \A b \in 1..(n + 1) : b \in 1..n \/ b = n + 1
  BY <1>0
<1>9. LineageOK(M)
  <2>1. \A b \in 1..(n + 1) : Len(M[b]) \in Nat
    <3>1. \A b \in 1..n : Len(L[b]) \in Nat
      BY DEF LineageOK, n
    <3> QED BY <1>a, <1>2, <1>4, <1>8, <3>1
  <2>2. ASSUME NEW b \in 1..(n + 1), NEW k \in Nat \ {0} PROVE AncIn(M, b, k) \in 1..(n + 1)
    <3>1. CASE b \in 1..n
      <4>1. AncIn(M, b, k) \in 1..n
        BY <1>5, <1>7, <3>1
      <4> QED BY <1>0, <4>1
    <3>2. CASE b = n + 1
      <4>1. AncIn(M, b, k) \in 1..n \/ AncIn(M, b, k) = n + 1
        BY <1>0, <1>6, <1>7, <3>2
      <4> QED BY <1>0, <4>1
    <3> QED BY <1>8, <3>1, <3>2
  <2>4. ASSUME NEW b \in 1..(n + 1), NEW k \in Nat \ {0}, NEW j \in 1..k
        PROVE  AncIn(M, b, j) = AncIn(M, AncIn(M, b, k), j)
    <3>0. j \in Nat \ {0} /\ j <= k
      OBVIOUS
    <3>1. \A c \in 1..n : AncIn(L, c, k) \in 1..n /\ AncIn(L, c, j) = AncIn(L, AncIn(L, c, k), j)
      BY <1>7 DEF LineageOK, n
    <3>2. CASE b \in 1..n
      BY <1>5, <3>1, <3>2
    <3>3. CASE b = n + 1 /\ k < f
      <4>1. AncIn(M, b, k) = AncIn(L, n, k) /\ AncIn(M, b, j) = AncIn(L, n, j)
        BY <1>6, <3>0, <3>3
      <4> QED BY <1>0, <1>5, <3>1, <4>1
    <3>4. CASE b = n + 1 /\ ~(k < f)
      BY <1>6, <3>4
    <3> QED BY <1>8, <3>2, <3>3, <3>4
  <2>5. n + 1 \in Nat /\ n + 1 >= 1 /\ Len(M) = n + 1
    BY <1>0, <1>4
  <2> DEFINE m == n + 1
  <2>6. /\ m \in Nat /\ m >= 1 /\ Len(M) = m /\ DOMAIN M = 1..m
        /\ \A b \in 1..m : Len(M[b]) \in Nat
        /\ \A b \in 1..m : \A k \in Nat \ {0} : AncIn(M, b, k) \in 1..m
        /\ \A b \in 1..m : \A k \in Nat \ {0} : \A j \in 1..k :
              AncIn(M, b, j) = AncIn(M, AncIn(M, b, k), j)
    BY <1>4, <2>1, <2>2, <2>4, <2>5
  <2> HIDE DEF m
  <2> QED BY <2>6 DEF LineageOK
<1> QED BY <1>4, <1>5, <1>6, <1>9 DEF n

-----------------------------------------------------------------------------
(* Counting commitments: the i-th one of a pool is at one height only.     *)

LEMMA CountOrder ==
  ASSUME NEW p \in Pools, NEW k \in Outputs[p], NEW h \in Int
  PROVE  /\ Count(p, k) \in Nat /\ Count(p, k) >= 1
         /\ k <= h => Count(p, k) <= Count(p, h)
         /\ ~(k <= h) => Count(p, h) < Count(p, k)
<1>1. k \in Int /\ k - 1 \in Int /\ Count(p, k) = Count(p, k - 1) + 1
  BY CountStep
<1>2. Count(p, k) \in Nat /\ Count(p, k - 1) \in Nat /\ Count(p, h) \in Nat
  BY <1>1, CountNat
<1>3. k <= h => Count(p, k) <= Count(p, h)
  BY <1>1, CountGrows
<1>4. ~(k <= h) => Count(p, h) <= Count(p, k - 1)
  BY <1>1, CountGrows
<1> QED BY <1>1, <1>2, <1>3, <1>4

LEMMA CountIndex ==
  ASSUME NEW p \in Pools, NEW h \in Int, NEW i \in 1..Count(p, h)
  PROVE  \E k \in Outputs[p] : k <= h /\ Count(p, k) = i
<1> USE Heights1
<1>a. Count(p, h) \in Nat
  BY CountNat
<1>0. Count(p, h) \in Nat /\ i \in Nat /\ i >= 1 /\ i <= Count(p, h)
  BY <1>a
<1>1. h \in Nat
  <2>1. ASSUME h < 0 PROVE FALSE
    BY <1>0, <2>1, CountNone
  <2> QED BY <2>1
<1> DEFINE T == {x \in Nat : Count(p, x) >= i}
<1>2. h \in T
  BY <1>0, <1>1
<1>3. PICK x \in T : \A y \in T : x <= y
  <2>1. T \in SUBSET Nat /\ T # {}
    BY <1>2
  <2> HIDE DEF T
  <2> QED BY <2>1, NatMinExists
<1>4. x \in Nat /\ Count(p, x) >= i /\ x <= h
  BY <1>2, <1>3
<1>5. x # 0
  <2>1. Count(p, 0) = 0
    BY CountNone, 0 \in Int
  <2> QED BY <1>0, <1>4, <2>1
<1>6. x - 1 \in Nat /\ x \in Int /\ x - 1 \in Int
  BY <1>4, <1>5
<1>7. ~(Count(p, x - 1) >= i)
  BY <1>3, <1>6
<1>8. Count(p, x) \in Nat /\ Count(p, x - 1) \in Nat
  BY <1>6, CountNat
<1>9. x \in Outputs[p]
  <2>1. ASSUME x \notin Outputs[p] PROVE Count(p, x - 1) = Count(p, x)
    <3>1. Outputs[p] \in SUBSET Int
      BY OutputsAssumption
    <3>2. \A k \in Outputs[p] : k <= x - 1 \/ x < k
      BY <1>6, <2>1, <3>1
    <3> QED BY <1>6, <3>2, CountSame
  <2> QED BY <1>4, <1>7, <2>1
<1>10. Count(p, x) = Count(p, x - 1) + 1
  BY <1>9, CountStep
<1> QED BY <1>0, <1>4, <1>7, <1>8, <1>9, <1>10

Nth(p, i) == CHOOSE k \in Outputs[p] : Count(p, k) = i

LEMMA NthCount ==
  ASSUME NEW p \in Pools, NEW k \in Outputs[p]
  PROVE  Nth(p, Count(p, k)) = k
<1> DEFINE n == Nth(p, Count(p, k))
<1>1. n \in Outputs[p] /\ Count(p, n) = Count(p, k)
  BY DEF Nth
<1> HIDE DEF n
<1>2. n \in Int /\ k \in Int
  BY <1>1, CountStep
<1>3. Count(p, n) \in Nat /\ Count(p, k) \in Nat
  BY <1>1, CountOrder, 0 \in Int
<1>4. n <= k
  BY <1>1, <1>2, <1>3, CountOrder
<1>5. k <= n
  BY <1>1, <1>2, <1>3, CountOrder
<1> QED BY <1>2, <1>4, <1>5 DEF n

\* The leaves of pool p up to height h on branch b.
Row(L, b, k) == <<k, AncIn(L, b, k)>>
Leaves(p, L, b, h) == [i \in 1..Count(p, h) |-> Row(L, b, Nth(p, i))]

LEMMA LeavesLaw ==
  ASSUME NEW p \in Pools, NEW L, NEW b, NEW h \in Int
  PROVE  /\ Count(p, h) \in Nat
         /\ DOMAIN Leaves(p, L, b, h) = 1..Count(p, h) /\ Len(Leaves(p, L, b, h)) = Count(p, h)
         /\ \A k \in Outputs[p] : k <= h => Leaves(p, L, b, h)[Count(p, k)] = Row(L, b, k)
<1> DEFINE s == Leaves(p, L, b, h)
<1>1. Count(p, h) \in Nat
  BY CountNat
<1>2. DOMAIN s = 1..Count(p, h) /\ \A i \in 1..Count(p, h) : s[i] = Row(L, b, Nth(p, i))
  BY DEF Leaves
<1> HIDE DEF s
<1>3. Len(s) = Count(p, h)
  BY <1>1, <1>2
<1>4. ASSUME NEW k \in Outputs[p], k <= h PROVE s[Count(p, k)] = Row(L, b, k)
  <2>1. Count(p, k) \in 1..Count(p, h)
    BY <1>1, <1>4, CountOrder
  <2> QED BY <1>2, <2>1, NthCount
<1> QED BY <1>1, <1>2, <1>3, <1>4 DEF s

Tuple(s, n) == s = [i \in 1..n |-> s[i]]

\* A sequence of that length with the same leaf for every commitment.
LEMMA LeavesSame ==
  ASSUME NEW p \in Pools, NEW L, NEW b, NEW h \in Int, NEW s,
         Tuple(s, Count(p, h)),
         \A k \in Outputs[p] : k <= h => s[Count(p, k)] = Row(L, b, k)
  PROVE  s = Leaves(p, L, b, h)
<1>1. ASSUME NEW i \in 1..Count(p, h) PROVE s[i] = Row(L, b, Nth(p, i))
  <2>1. PICK k \in Outputs[p] : k <= h /\ Count(p, k) = i
    BY CountIndex
  <2> QED BY <2>1, NthCount
<1>2. [i \in 1..Count(p, h) |-> s[i]] = [i \in 1..Count(p, h) |-> Row(L, b, Nth(p, i))]
  BY <1>1
<1> QED BY <1>2 DEF Leaves, Tuple

\* Branches that agree have the same leaves.
LEMMA LeavesAgree ==
  ASSUME NEW p \in Pools, NEW L, NEW b, NEW c, NEW h \in Int, Agree(L, b, c, h)
  PROVE  Leaves(p, L, b, h) = Leaves(p, L, c, h)
<1> DEFINE s == Leaves(p, L, b, h)
<1>1. Tuple(s, Count(p, h))
  BY DEF Leaves, Tuple
<1>2. \A k \in Outputs[p] : k <= h => s[Count(p, k)] = Row(L, c, k)
  BY LeavesLaw DEF Agree, Row
<1> HIDE DEF s
<1>3. s = Leaves(p, L, c, h)
  BY <1>1, <1>2, LeavesSame
<1> QED BY <1>3 DEF s

\* Truncating the leaves of one height to a lower one.
LEMMA LeavesCut ==
  ASSUME NEW p \in Pools, NEW L, NEW b, NEW h \in Int, NEW k \in Int, k <= h
  PROVE  SubSeq(Leaves(p, L, b, h), 1, Count(p, k)) = Leaves(p, L, b, k)
<1>1. Count(p, k) \in Nat /\ Count(p, h) \in Nat /\ Count(p, k) <= Count(p, h)
  BY CountNat, CountGrows
<1> DEFINE s == Leaves(p, L, b, h)
           n == Count(p, k)
           u == SubSeq(s, 1, n)
<1>2. \A i \in 1..n : s[i] = Row(L, b, Nth(p, i))
  BY <1>1 DEF Leaves
<1> HIDE DEF s, n
<1>3. u = [i \in 1..n |-> s[i]]
  BY <1>1 DEF n
<1>4. u = [i \in 1..n |-> Row(L, b, Nth(p, i))]
  BY <1>2, <1>3
<1> QED BY <1>4 DEF Leaves, u, s, n

\* What the model calls the leaves of a height.
LEMMA LeavesToIs ==
  ASSUME NEW p \in Pools, NEW b, NEW h \in Int
  PROVE  LeavesTo(p, b, h) = Leaves(p, lineage, b, h)
<1> DEFINE hs == {k \in Outputs[p] : k <= h}
           nth(i) == CHOOSE k \in hs : Cardinality({j \in hs : j <= k}) = i
           s == LeavesTo(p, b, h)
<1>1. s = [i \in 1..Count(p, h) |-> <<nth(i), Ancestor(b, nth(i))>>]
  BY DEF LeavesTo, Count
<1>2. ASSUME NEW k \in hs PROVE Cardinality({j \in hs : j <= k}) = Count(p, k)
  <2>1. k \in Int /\ Outputs[p] \in SUBSET Int
    BY OutputsAssumption, Heights1
  <2>2. {j \in hs : j <= k} = {j \in Outputs[p] : j <= k}
    BY <2>1
  <2> QED BY <2>2 DEF Count
<1>3. ASSUME NEW k \in Outputs[p], k <= h PROVE nth(Count(p, k)) = k
  <2> DEFINE n == nth(Count(p, k))
  <2>1. k \in hs
    BY <1>3
  <2>2. n \in hs /\ Cardinality({j \in hs : j <= n}) = Count(p, k)
    BY <1>2, <2>1
  <2>3. n \in Outputs[p] /\ Count(p, n) = Count(p, k)
    BY <1>2, <2>2
  <2> HIDE DEF n
  <2>4. Nth(p, Count(p, n)) = n /\ Nth(p, Count(p, k)) = k
    BY <2>3, NthCount
  <2> QED BY <2>3, <2>4 DEF n
<1> HIDE DEF nth
<1>4. ASSUME NEW k \in Outputs[p], k <= h PROVE s[Count(p, k)] = Row(lineage, b, k)
  <2>1. Count(p, k) \in 1..Count(p, h)
    BY <1>4, CountOrder, CountNat
  <2>2. s[Count(p, k)] = <<nth(Count(p, k)), Ancestor(b, nth(Count(p, k)))>>
    BY <1>1, <2>1
  <2> QED BY <1>3, <1>4, <2>2, AncestorIn DEF Row
<1>5. Tuple(s, Count(p, h))
  BY <1>1 DEF Tuple
<1> HIDE DEF s
<1>6. s = Leaves(p, lineage, b, h)
  BY <1>4, <1>5, LeavesSame
<1> QED BY <1>6 DEF s
-----------------------------------------------------------------------------
(* A tree that holds exactly the leaves of branch b up to height h, every  *)
(* checkpoint after exactly the leaves of its own height.                  *)

Holds(p, L, t, b, h) ==
    /\ t.leaves = Leaves(p, L, b, h)
    /\ \A k \in Checkpoints(t) : k <= h /\ t.size[k] = Count(p, k)

LEMMA PruneHolds ==
  ASSUME NEW p \in Pools, NEW L, NEW t, NEW b, NEW h, SoundTree(p, t), Holds(p, L, t, b, h)
  PROVE  Holds(p, L, Prune(t), b, h) /\ Checkpoints(Prune(t)) \in SUBSET Checkpoints(t)
<1> DEFINE loose == Checkpoints(t) \ t.kept
           stay == {x \in loose : Cardinality({k \in loose : k > x}) < PruningDepth}
           hs == stay \cup (t.kept \cap Checkpoints(t))
           size == [x \in hs |-> t.size[x]]
<1>1. Prune(t) = [t EXCEPT !.size = size]
  BY DEF Prune
<1>2. hs \in SUBSET Checkpoints(t) /\ DOMAIN size = hs /\ \A x \in hs : size[x] = t.size[x]
  OBVIOUS
<1> HIDE DEF hs, size
<1>3. Prune(t).leaves = t.leaves /\ Prune(t).size = size
  BY <1>1 DEF SoundTree
<1>4. Checkpoints(Prune(t)) = hs
  BY <1>2, <1>3 DEF Checkpoints
<1> QED BY <1>2, <1>3, <1>4 DEF Holds

LEMMA AddHolds ==
  ASSUME NEW p \in Pools, NEW L, NEW t, NEW b, NEW h \in Nat, SoundTree(p, t), Holds(p, L, t, b, h)
  PROVE  Holds(p, L, AddCheckpoint(t, h), b, h)
         /\ Checkpoints(AddCheckpoint(t, h)) \in SUBSET (Checkpoints(t) \cup {h})
<1>1. CASE \E k \in Checkpoints(t) : k >= h
  BY <1>1 DEF AddCheckpoint
<1>2. CASE ~\E k \in Checkpoints(t) : k >= h
  <2> DEFINE hs == Checkpoints(t) \cup {h}
             size == [k \in hs |-> IF k = h THEN Len(t.leaves) ELSE t.size[k]]
             u == [t EXCEPT !.size = size]
  <2>1. AddCheckpoint(t, h) = Prune(u)
    BY <1>2 DEF AddCheckpoint
  <2>2. DOMAIN size = hs /\ \A k \in hs : size[k] = IF k = h THEN Len(t.leaves) ELSE t.size[k]
    OBVIOUS
  <2>3. IsFiniteSet(hs) /\ hs \in SUBSET Nat
    BY FS_AddElement DEF SoundTree
  <2> HIDE DEF size
  <2>4. DOMAIN u = DOMAIN t /\ u.leaves = t.leaves /\ u.size = size
    BY DEF SoundTree
  <2>a. Len(t.leaves) = Count(p, h) /\ Count(p, h) \in Nat
    BY LeavesLaw, h \in Int DEF Holds
  <2> HIDE DEF u
  <2>5. \A k \in hs : k <= h /\ size[k] = Count(p, k)
    BY <2>2, <2>a DEF Holds
  <2>6. \A k \in hs : Count(p, k) \in Nat /\ Count(p, k) <= Count(p, h)
    <3> SUFFICES ASSUME NEW k \in hs PROVE Count(p, k) \in Nat /\ Count(p, k) <= Count(p, h)
      OBVIOUS
    <3> HIDE DEF hs
    <3>1. k \in Int /\ h \in Int /\ k <= h
      BY <2>3, <2>5
    <3> QED BY <3>1, CountNat, CountGrows
  <2>b. Checkpoints(u) = hs
    BY <2>2, <2>4 DEF Checkpoints
  <2>c. hs = Checkpoints(t) \cup {h}
    OBVIOUS
  <2> HIDE DEF hs
  <2>7. SoundTree(p, u)
    <3>1. Len(u.leaves) = Count(p, h)
      BY <2>a, <2>4
    <3>2. \A k \in Checkpoints(u) :
            u.size[k] \in Nat /\ u.size[k] >= Count(p, k) /\ Len(u.leaves) >= Count(p, k)
      BY <2>a, <2>b, <2>4, <2>5, <2>6, <3>1
    <3>3. DOMAIN u = {"leaves", "size", "kept"} /\ IsFiniteSet(Checkpoints(u)) /\ Checkpoints(u) \in SUBSET Nat
      BY <2>b, <2>3, <2>4 DEF SoundTree
    <3> QED BY <2>a, <3>1, <3>2, <3>3 DEF SoundTree
  <2>8. Holds(p, L, u, b, h)
    BY <2>b, <2>4, <2>5 DEF Holds
  <2> QED BY <2>1, <2>b, <2>c, <2>7, <2>8, PruneHolds
<1> QED BY <1>1, <1>2

LEMMA RetainHolds ==
  ASSUME NEW p \in Pools, NEW L, NEW t, NEW b, NEW h, NEW k, SoundTree(p, t), Holds(p, L, t, b, h)
  PROVE  Holds(p, L, Retain(t, k), b, h) /\ Checkpoints(Retain(t, k)) = Checkpoints(t)
<1> DEFINE kept == t.kept \cup {k}
<1>1. Retain(t, k) = [t EXCEPT !.kept = kept]
  BY DEF Retain
<1> HIDE DEF kept
<1>2. Retain(t, k).leaves = t.leaves /\ Retain(t, k).size = t.size
  BY <1>1 DEF SoundTree
<1> QED BY <1>2 DEF Holds, Checkpoints

LEMMA TruncateHolds ==
  ASSUME NEW p \in Pools, NEW L, NEW t, NEW b, NEW h \in Int, SoundTree(p, t), Holds(p, L, t, b, h),
         NEW k \in Checkpoints(t)
  PROVE  /\ Holds(p, L, TruncateTree(t, k), b, k)
         /\ Checkpoints(TruncateTree(t, k)) = {j \in Checkpoints(t) : j <= k}
<1> DEFINE n == t.size[k]
           leaves == SubSeq(t.leaves, 1, n)
           hs == {j \in Checkpoints(t) : j <= k}
           size == [j \in hs |-> t.size[j]]
           u == TruncateTree(t, k)
<1>1. u = [t EXCEPT !.leaves = leaves, !.size = size]
  BY DEF TruncateTree
<1>2. DOMAIN size = hs /\ \A j \in hs : size[j] = t.size[j]
  OBVIOUS
<1>3. k \in Int /\ k <= h /\ n = Count(p, k)
  BY DEF SoundTree, Holds
<1>4. leaves = Leaves(p, L, b, k)
  BY <1>3, LeavesCut DEF Holds
<1> HIDE DEF leaves, size, n, u
<1>5. u.leaves = leaves /\ u.size = size
  BY <1>1 DEF SoundTree
<1>6. Checkpoints(u) = hs
  BY <1>2, <1>5 DEF Checkpoints
<1> QED BY <1>2, <1>4, <1>5, <1>6 DEF Holds, u

\* The blocks above c have no commitments in p: the tree is as good as at c.
LEMMA LowerHolds ==
  ASSUME NEW p \in Pools, NEW L, NEW t, NEW b, NEW h \in Int, Holds(p, L, t, b, h), NEW c \in Int, c <= h,
         Count(p, h) <= Count(p, c), \A k \in Checkpoints(t) : k <= c
  PROVE  Holds(p, L, t, b, c)
<1>1. Count(p, h) \in Nat /\ Count(p, c) \in Nat /\ Count(p, c) <= Count(p, h)
  BY CountNat, CountGrows
<1>2. Count(p, h) = Count(p, c)
  BY <1>1
<1>3. Leaves(p, L, b, h) = Leaves(p, L, b, c)
  BY <1>2 DEF Leaves
<1> QED BY <1>3 DEF Holds

LEMMA EmptyHolds ==
  ASSUME NEW p \in Pools, NEW L, NEW b, NEW h, Count(p, h) = 0
  PROVE  Holds(p, L, EmptyTree, b, h)
<1>1. Checkpoints(EmptyTree) = {} /\ EmptyTree.leaves = <<>>
  <2> DEFINE none == [x \in {} |-> 0]
             nothing == <<>>
  <2>1. EmptyTree = [leaves |-> nothing, size |-> none, kept |-> {}] /\ DOMAIN none = {}
    BY DEF EmptyTree
  <2> HIDE DEF none, nothing
  <2>2. EmptyTree.leaves = nothing /\ EmptyTree.size = none
    BY <2>1
  <2> QED BY <2>1, <2>2 DEF Checkpoints, nothing
<1>2. Leaves(p, L, b, h) = <<>>
  <2> DEFINE f == [i \in 1..0 |-> Row(L, b, Nth(p, i))]
  <2>1. f = <<>>
    OBVIOUS
  <2> QED BY <2>1 DEF Leaves
<1> QED BY <1>1, <1>2 DEF Holds

\* seed_shardtrees_from_tree_state
\* The tree a server's frontier gives.
SeedTree(p, L, b, h) == AddCheckpoint([EmptyTree EXCEPT !.leaves = Leaves(p, L, b, h)], h)

LEMMA SeedHolds ==
  ASSUME NEW p \in Pools, NEW L, NEW b, NEW h \in Nat
  PROVE  LET u == SeedTree(p, L, b, h)
         IN Holds(p, L, u, b, h) /\ Checkpoints(u) \in SUBSET {h} /\ h \in Checkpoints(u) /\ SoundTree(p, u)
<1> DEFINE s == Leaves(p, L, b, h)
           t == [EmptyTree EXCEPT !.leaves = s]
<1>0. Len(s) \in Nat /\ Len(s) >= Count(p, h)
  BY LeavesLaw, h \in Int
<1>s. s = Leaves(p, L, b, h)
  OBVIOUS
<1> HIDE DEF s
<1>1. DOMAIN t = {"leaves", "size", "kept"} /\ t.leaves = s /\ t.size = EmptyTree.size
  BY EmptySound DEF SoundTree
<1>5. SoundTree(p, AddCheckpoint(t, h)) /\ h \in Checkpoints(AddCheckpoint(t, h))
  BY <1>0, SeedSound
<1> HIDE DEF t
<1>2. Checkpoints(t) = {}
  BY <1>1, EmptySound DEF Checkpoints
<1>3. SoundTree(p, t)
  BY <1>0, <1>1, <1>2, FS_EmptySet DEF SoundTree
<1>4. Holds(p, L, t, b, h)
  BY <1>s, <1>1, <1>2 DEF Holds
<1>6. Holds(p, L, AddCheckpoint(t, h), b, h)
      /\ Checkpoints(AddCheckpoint(t, h)) \in SUBSET (Checkpoints(t) \cup {h})
  BY <1>3, <1>4, AddHolds
<1>7. SeedTree(p, L, b, h) = AddCheckpoint(t, h)
  BY <1>s DEF t, SeedTree
<1> QED BY <1>2, <1>5, <1>6, <1>7

\* recover_position_counters_from_shardtree: exact when h is a checkpoint, or
\* when there is nothing below h.
LEMMA RecoverHolds ==
  ASSUME NEW p \in Pools, NEW L, NEW trees, NEW b, NEW h \in Nat, SoundTree(p, trees[p]),
         Holds(p, L, trees[p], b, h), h \in Checkpoints(trees[p]) \/ Count(p, h) = 0
  PROVE  RecoverPositions(trees)[p] = Count(p, h)
<1> DEFINE C == Checkpoints(trees[p])
           f == trees[p].size
           T == {0} \cup {f[k] : k \in C}
           n == Count(p, h)
<1>1. RecoverPositions(trees)[p] = Max(T)
  BY DEF RecoverPositions
<1>2. C \in SUBSET Nat /\ \A k \in C : k <= h /\ f[k] = Count(p, k)
  BY DEF SoundTree, Holds
<1>3. n \in Nat
  BY CountNat, h \in Int
<1> HIDE DEF C, f, n
<1>4. \A k \in C : f[k] \in Nat /\ f[k] <= n
  <2> SUFFICES ASSUME NEW k \in C PROVE f[k] \in Nat /\ f[k] <= n
    OBVIOUS
  <2>1. k \in Int /\ h \in Int /\ k <= h
    BY <1>2
  <2> QED BY <1>2, <2>1, CountNat, CountGrows DEF n
<1>5. T \in SUBSET (0..n) /\ T # {}
  BY <1>3, <1>4
<1>6. n \in T
  <2>1. CASE h \in C
    BY <1>2, <2>1 DEF n
  <2>2. CASE n = 0
    BY <2>2
  <2> QED BY <2>1, <2>2 DEF n, C
<1> HIDE DEF T
<1>7. Max(T) \in T /\ \A y \in T : Max(T) >= y
  BY <1>3, <1>5, MaxOfBounded, 0 \in Int, n \in Int
<1> DEFINE m == Max(T)
<1>8. m \in T /\ m >= n
  BY <1>6, <1>7
<1>b. RecoverPositions(trees)[p] = m
  BY <1>1
<1> HIDE DEF m
<1>9. m = n
  BY <1>3, <1>5, <1>8
<1> QED BY <1>b, <1>9 DEF n

\* The batch is the blocks of branch c from cur on.
FetchedOn(L, batch, cur, c) == \A i \in 1..Len(batch) : batch[i] = Row(L, c, cur + i - 1)

LEMMA BlockOfBatch ==
  ASSUME NEW L, NEW batch, NEW cur \in Nat, cur >= 1, NEW c, Fetched(batch, cur),
         FetchedOn(L, batch, cur, c), NEW k \in cur..Final(batch)
  PROVE  BlockAt(batch, k) = Row(L, c, k)
<1>1. First(batch) = cur /\ Final(batch) = cur + Len(batch) - 1
  BY BatchEnds
<1>2. Len(batch) \in Nat
  BY DEF Fetched
<1> DEFINE i == k - cur + 1
<1>3. i \in 1..Len(batch) /\ cur + i - 1 = k
  BY <1>1, <1>2
<1>4. BlockAt(batch, k) = batch[i]
  BY <1>1 DEF BlockAt
<1> HIDE DEF i
<1> QED BY <1>3, <1>4 DEF FetchedOn

\* update_commitment_trees: a batch that follows the tree's last block extends
\* its leaves to the batch's last block and conflicts with none of them.
LEMMA InsertHolds ==
  ASSUME NEW p \in Pools, NEW L, NEW t, NEW b, NEW c, NEW cur \in Nat, cur >= 1, NEW batch,
         SoundTree(p, t), Holds(p, L, t, b, cur - 1), Agree(L, b, c, cur - 1),
         Fetched(batch, cur), FetchedOn(L, batch, cur, c), NEW dense
  PROVE  LET pos == Count(p, cur - 1)
             u == InsertBatch(p, batch, pos, dense, t)
         IN /\ Holds(p, L, u, c, Final(batch))
            /\ Checkpoints(u) \in SUBSET (Checkpoints(t) \cup (cur..Final(batch)))
            /\ ~Conflict(p, batch, pos, t)
<1> USE Heights1
<1> DEFINE e == Final(batch)
           l == Len(t.leaves)
           pos == Count(p, cur - 1)
           hs == AppliedLeaves(p, batch, t)
           S == {l} \cup {Slot(p, batch, pos, h) : h \in hs}
           n == Max(S)
<1>1. First(batch) = cur /\ e \in Nat /\ cur <= e /\ e <= Top /\ cur - 1 \in Int
  BY BatchEnds
<1>2. l = pos /\ pos \in Nat
  BY <1>1, LeavesLaw DEF Holds
<1>3. NewestCheckpoint(t) \in Int /\ NewestCheckpoint(t) < cur
  <2> DEFINE x == NewestCheckpoint(t)
  <2>1. x \in Int /\ (x >= 0 => x \in Checkpoints(t))
    BY NewestIsCheckpoint
  <2>2. x >= 0 => x <= cur - 1
    BY <2>1 DEF Holds
  <2> HIDE DEF x
  <2>3. x \in Int /\ x < cur
    BY <2>1, <2>2
  <2> QED BY <2>3 DEF x
<1>4. Applied(p, batch, t) = cur..e /\ hs = {h \in cur..e : h \in Outputs[p]}
  <2>1. Applied(p, batch, t) = {h \in cur..e : h > NewestCheckpoint(t)}
    BY <1>1 DEF Applied, Heights
  <2> HIDE DEF e
  <2>2. Applied(p, batch, t) = cur..e
    BY <1>1, <1>3, <2>1
  <2> QED BY <2>2 DEF AppliedLeaves
<1>5. ASSUME NEW h \in cur..e PROVE pos + Before(p, batch, h) = Count(p, h - 1) /\ Before(p, batch, h) \in Nat
  <2>1. h \in Int /\ First(batch) \in Int /\ First(batch) <= h
    BY <1>1
  <2>2. Before(p, batch, h) \in Nat /\ Count(p, h - 1) = Count(p, First(batch) - 1) + Before(p, batch, h)
    BY <2>1, CountBatch
  <2> HIDE DEF e
  <2> QED BY <1>1, <2>2
<1>6. ASSUME NEW h \in hs
      PROVE  h \in cur..e /\ h \in Outputs[p] /\ h \in Int /\ Slot(p, batch, pos, h) = Count(p, h)
  <2>1. h \in cur..e /\ h \in Outputs[p]
    BY <1>4
  <2>2. h \in Int /\ Count(p, h) = Count(p, h - 1) + 1
    BY <2>1, CountStep
  <2>3. Slot(p, batch, pos, h) = pos + Before(p, batch, h) + 1
    BY DEF Slot
  <2> HIDE DEF e, pos
  <2> QED BY <1>5, <2>1, <2>2, <2>3
<1>7. Count(p, e) \in Nat /\ pos <= Count(p, e)
  <2> HIDE DEF e
  <2>1. e \in Int /\ cur - 1 <= e
    BY <1>1
  <2> QED BY <1>1, <2>1, CountNat, CountGrows
<1>8. n = Count(p, e)
  <2>1. \A h \in hs : Slot(p, batch, pos, h) \in Nat /\ Slot(p, batch, pos, h) <= Count(p, e)
    <3> SUFFICES ASSUME NEW h \in hs PROVE Count(p, h) \in Nat /\ Count(p, h) <= Count(p, e)
      BY <1>6
    <3> HIDE DEF e, hs
    <3>1. h \in Int /\ h \in Outputs[p] /\ h <= e /\ e \in Int
      BY <1>1, <1>6
    <3> QED BY <3>1, CountOrder
  <2>2. S \in SUBSET (0..Count(p, e)) /\ S # {}
    <3> HIDE DEF e, hs, l, pos
    <3> QED BY <1>2, <1>7, <2>1
  <2>3. Count(p, e) \in S
    <3>1. CASE Count(p, e) = pos
      BY <1>2, <3>1
    <3>2. CASE Count(p, e) # pos
      <4> HIDE DEF e, pos, hs, l
      <4>1. Count(p, e) \in 1..Count(p, e) /\ pos < Count(p, e) /\ e \in Int
        BY <1>1, <1>2, <1>7, <3>2
      <4>2. PICK k \in Outputs[p] : k <= e /\ Count(p, k) = Count(p, e)
        BY <4>1, CountIndex
      <4>3. k \in Int
        BY CountStep
      <4>4. ~(k <= cur - 1)
        <5>1. k <= cur - 1 => Count(p, k) <= pos
          BY <1>1, CountOrder DEF pos
        <5> QED BY <1>2, <1>7, <4>1, <4>2, <5>1
      <4>5. k \in hs
        BY <1>1, <1>4, <4>2, <4>3, <4>4
      <4> QED BY <1>6, <4>2, <4>5
    <3> QED BY <3>1, <3>2
  <2> DEFINE m == Count(p, e)
             y == Max(S)
  <2>4. m \in Nat /\ S \in SUBSET (0..m) /\ m \in S /\ n = y
    BY <1>7, <2>2, <2>3
  <2> HIDE DEF m, S, e
  <2>5. Max(S) \in S /\ \A x \in S : Max(S) >= x
    BY <2>4, MaxOfBounded, 0 \in Int, m \in Int
  <2>6. y \in S /\ y >= m
    BY <2>4, <2>5
  <2> HIDE DEF y, n
  <2>7. y = m
    BY <2>4, <2>6
  <2> QED BY <2>4, <2>7 DEF m
<1> DEFINE leaves == InsertLeaves(p, batch, pos, t)
           at(i) == IF \E h \in hs : Slot(p, batch, pos, h) = i
                    THEN BlockAt(batch, CHOOSE h \in hs : Slot(p, batch, pos, h) = i)
                    ELSE IF i <= l THEN t.leaves[i] ELSE Hole
<1>9. leaves = [i \in 1..n |-> at(i)]
  BY DEF InsertLeaves
<1>10. ASSUME NEW k \in Outputs[p], k <= e PROVE leaves[Count(p, k)] = Row(L, c, k)
  <2> DEFINE i == Count(p, k)
  <2>0. k \in Int /\ i \in Nat /\ i >= 1 /\ i <= n
    <3> HIDE DEF e, n
    <3>1. k \in Int /\ e \in Int
      BY <1>1, CountStep
    <3> QED BY <1>8, <1>10, <3>1, CountOrder
  <2>1. leaves[i] = at(i)
    <3> HIDE DEF leaves, at, n, i
    <3>1. i \in 1..n
      <4>1. n \in Nat
        BY <1>7, <1>8
      <4> QED BY <2>0, <4>1
    <3> QED BY <1>9, <3>1
  <2>2. \A h \in hs : Slot(p, batch, pos, h) = i => h = k
    BY <1>6, NthCount
  <2>3. CASE k >= cur
    <3>1. k \in hs
      <4> HIDE DEF e, hs
      <4> QED BY <1>1, <1>4, <1>10, <2>0, <2>3
    <3>2. Slot(p, batch, pos, k) = i
      BY <1>6, <3>1
    <3> DEFINE ch == CHOOSE h \in hs : Slot(p, batch, pos, h) = i
    <3>3. ch = k
      <4>1. ch \in hs /\ Slot(p, batch, pos, ch) = i
        BY <3>1, <3>2
      <4> HIDE DEF ch
      <4> QED BY <2>2, <4>1
    <3>4. at(i) = BlockAt(batch, ch)
      BY <3>1, <3>2
    <3>5. k \in cur..e
      BY <1>6, <3>1
    <3> HIDE DEF ch, at
    <3> QED BY <2>1, <3>3, <3>4, <3>5, BlockOfBatch
  <2>4. CASE ~(k >= cur)
    <3>1. ~\E h \in hs : Slot(p, batch, pos, h) = i
      <4> SUFFICES ASSUME NEW h \in hs, Slot(p, batch, pos, h) = i PROVE FALSE
        OBVIOUS
      <4>1. h = k /\ h \in cur..e
        BY <1>6, <2>2
      <4> HIDE DEF e
      <4> QED BY <1>1, <2>4, <4>1
    <3>2. k <= cur - 1
      BY <2>0, <2>4
    <3>3. i <= l
      <4>1. Count(p, k) <= Count(p, cur - 1)
        BY <1>1, <3>2, CountOrder
      <4> QED BY <1>2, <4>1
    <3>4. at(i) = t.leaves[i]
      BY <3>1, <3>3
    <3>5. t.leaves[i] = Row(L, b, k)
      BY <1>1, <3>2, LeavesLaw DEF Holds
    <3>6. Row(L, b, k) = Row(L, c, k)
      BY <3>2 DEF Agree, Row
    <3> HIDE DEF at
    <3> QED BY <2>1, <3>4, <3>5, <3>6
  <2> QED BY <2>3, <2>4
<1>11. leaves = Leaves(p, L, c, e)
  <2>1. Tuple(leaves, Count(p, e))
    <3>1. \A i \in 1..n : leaves[i] = at(i)
      <4> HIDE DEF leaves, at, n
      <4> QED BY <1>9
    <3>2. leaves = [i \in 1..n |-> leaves[i]]
      <4> HIDE DEF leaves, at, n
      <4> QED BY <1>9, <3>1
    <3> HIDE DEF leaves, n
    <3> QED BY <1>8, <3>2 DEF Tuple
  <2> HIDE DEF leaves, e
  <2>2. e \in Int
    BY <1>1
  <2> QED BY <1>10, <2>1, <2>2, LeavesSame
<1> DEFINE marks == {h \in Applied(p, batch, t) : CheckpointDue(p, h, dense)}
           sizeAt(h) == IF h \in Outputs[p] THEN Slot(p, batch, pos, h)
                        ELSE Max({l, pos + Before(p, batch, h)})
           ks == Checkpoints(t) \cup marks
           size == [h \in ks |-> IF h \in marks THEN sizeAt(h) ELSE t.size[h]]
           u == [t EXCEPT !.leaves = leaves, !.size = size]
<1>12. marks \in SUBSET (cur..e)
  BY <1>4
<1>13. ASSUME NEW h \in marks PROVE sizeAt(h) = Count(p, h)
  <2>1. h \in cur..e /\ h \in Int
    BY <1>12
  <2>2. CASE h \in Outputs[p]
    <3>1. h \in hs
      BY <1>4, <2>1, <2>2
    <3> QED BY <1>6, <2>2, <3>1
  <2>3. CASE h \notin Outputs[p]
    <3> DEFINE q == pos + Before(p, batch, h)
    <3>1. q = Count(p, h - 1) /\ Before(p, batch, h) \in Nat
      BY <1>5, <2>1
    <3>2. Count(p, h - 1) = Count(p, h)
      <4>1. Outputs[p] \in SUBSET Int
        BY OutputsAssumption
      <4>2. \A k \in Outputs[p] : k <= h - 1 \/ h < k
        BY <2>1, <2>3, <4>1
      <4> QED BY <2>1, <4>2, CountSame, h - 1 \in Int
    <3>3. sizeAt(h) = Max({l, q})
      BY <2>3
    <3>4. l \in Nat /\ q \in Nat /\ q >= l
      <4> HIDE DEF pos, l
      <4> QED BY <1>2, <3>1
    <3> HIDE DEF q, l, sizeAt
    <3>5. Max({l, q}) = IF l >= q THEN l ELSE q
      BY <3>4, MaxOfTwo, l \in Int, q \in Int
    <3> QED BY <3>1, <3>2, <3>3, <3>4, <3>5
  <2> QED BY <2>2, <2>3
<1>14. InsertBatch(p, batch, pos, dense, t) = Prune(u)
  BY DEF InsertBatch
<1>15. DOMAIN size = ks /\ \A h \in ks : size[h] = IF h \in marks THEN sizeAt(h) ELSE t.size[h]
  OBVIOUS
<1>16. \A h \in ks : h \in Nat /\ h <= e /\ size[h] = Count(p, h)
  <2> SUFFICES ASSUME NEW h \in ks PROVE h \in Nat /\ h <= e /\ size[h] = Count(p, h)
    OBVIOUS
  <2> HIDE DEF size, sizeAt, e
  <2>1. CASE h \in marks
    <3> HIDE DEF marks
    <3>1. size[h] = Count(p, h)
      BY <1>13, <1>15, <2>1
    <3> QED BY <1>1, <1>12, <2>1, <3>1
  <2>2. CASE h \notin marks
    <3>1. h \in Checkpoints(t) /\ size[h] = t.size[h]
      BY <1>15, <2>2
    <3>2. h \in Nat /\ h <= cur - 1 /\ t.size[h] = Count(p, h)
      BY <3>1 DEF Holds, SoundTree
    <3> QED BY <1>1, <3>1, <3>2
  <2> QED BY <2>1, <2>2
<1>17. IsFiniteSet(ks)
  <2>1. IsFiniteSet(cur..e)
    BY <1>1, FS_Interval, cur \in Int, e \in Int
  <2>2. IsFiniteSet(marks)
    BY <1>12, <2>1, FS_Subset
  <2> HIDE DEF marks
  <2> QED BY <2>2, FS_Union DEF SoundTree
<1>18. ks \in SUBSET (Checkpoints(t) \cup (cur..e))
  <2> HIDE DEF marks, e
  <2> QED BY <1>12
<1>19. ASSUME NEW h \in hs, LET i == Slot(p, batch, pos, h)
                            IN i <= Len(t.leaves) /\ t.leaves[i] \notin {Hole, BlockAt(batch, h)}
       PROVE  FALSE
  <2>1. Count(p, h) <= l /\ h \in Outputs[p] /\ h \in cur..e
    BY <1>6, <1>19
  <2> HIDE DEF e, hs
  <2>2. ~(h <= cur - 1)
    BY <1>1, <2>1
  <2>3. Count(p, cur - 1) < Count(p, h)
    BY <1>1, <2>1, <2>2, CountOrder
  <2>4. Count(p, h) \in Nat
    BY <1>1, <2>1, CountOrder
  <2> HIDE DEF l
  <2> QED BY <1>2, <2>1, <2>3, <2>4
<1>20. ~Conflict(p, batch, pos, t)
  BY <1>19 DEF Conflict
<1> HIDE DEF leaves, size, ks, marks, sizeAt, n, l, at, hs, S, e
<1>21. DOMAIN u = DOMAIN t /\ u.leaves = leaves /\ u.size = size
  BY DEF SoundTree
<1> HIDE DEF u, pos
<1>22. Checkpoints(u) = ks
  BY <1>15, <1>21 DEF Checkpoints
<1>23. Holds(p, L, u, c, e)
  BY <1>11, <1>16, <1>21, <1>22 DEF Holds
<1>24. SoundTree(p, u)
  <2>1. Len(u.leaves) = Count(p, e)
    <3>1. e \in Int
      BY <1>1
    <3> QED BY <1>11, <1>21, <3>1, LeavesLaw
  <2>2. \A k \in ks : Count(p, k) \in Nat /\ Count(p, k) <= Count(p, e)
    <3> SUFFICES ASSUME NEW k \in ks PROVE Count(p, k) \in Nat /\ Count(p, k) <= Count(p, e)
      OBVIOUS
    <3>1. k \in Int /\ e \in Int /\ k <= e
      BY <1>1, <1>16
    <3> QED BY <3>1, CountNat, CountGrows
  <2>3. \A k \in Checkpoints(u) :
          u.size[k] \in Nat /\ u.size[k] >= Count(p, k) /\ Len(u.leaves) >= Count(p, k)
    BY <1>7, <1>16, <1>21, <1>22, <2>1, <2>2
  <2>4. DOMAIN u = {"leaves", "size", "kept"} /\ Checkpoints(u) \in SUBSET Nat /\ IsFiniteSet(Checkpoints(u))
    BY <1>16, <1>17, <1>21, <1>22 DEF SoundTree
  <2> QED BY <1>7, <2>1, <2>3, <2>4 DEF SoundTree
<1>25. Holds(p, L, Prune(u), c, e) /\ Checkpoints(Prune(u)) \in SUBSET Checkpoints(u)
  BY <1>23, <1>24, PruneHolds
<1>26. Checkpoints(Prune(u)) \in SUBSET (Checkpoints(t) \cup (cur..e))
  BY <1>18, <1>22, <1>25
<1> QED BY <1>14, <1>20, <1>25, <1>26 DEF e, pos
-----------------------------------------------------------------------------
(* The inductive invariant: branch b and height h of the trees.  The       *)
(* predicates take the state as parameters: L is the lineage, t the tip, d *)
(* the database, e the engine's record.                                    *)

HeldAt(L, trees, b, h) == \A p \in Pools : Holds(p, L, trees[p], b, h)
PosAt(pos, h) == \A p \in Pools : pos[p] = Count(p, h)

\* Every hash row is a block of some branch.
RowsReal(L, rows) == \A k \in DOMAIN rows : \E c \in 1..Len(L) : rows[k] = Row(L, c, k)

\* A row below the trees' height that the server shares vouches for the trees.
RowsVouch(L, rows, b, h) ==
    \A k \in DOMAIN rows : k <= h /\ rows[k] = Row(L, Len(L), k) => Agree(L, b, Len(L), k)

\* A common checkpoint no row guards has the server's commitments below it;
\* the batch in flight still has its hashes.
Flight(e) == IF e.pc \in MidBatchPcs THEN Heights(e.batch) ELSE {}
Anchored(L, d, flight, b) ==
    \A k \in Common(d.trees) \ (DOMAIN d.rows \cup flight) : Agree(L, b, Len(L), k)

Standing(L, t, d, flight, b, h) ==
    /\ b \in 1..Len(L) /\ h \in Nat /\ h <= t /\ d.local <= h
    /\ HeldAt(L, d.trees, b, h)
    /\ RowsReal(L, d.rows) /\ RowsVouch(L, d.rows, b, h) /\ Anchored(L, d, flight, b)

\* Between runs: a run that will take the trees as they are finds them at the
\* height it resumes from.
AtRest(d, e, h) ==
    /\ e.pc = "idle" => LET c == Max({d.local, Birthday - 1}) IN c \in Common(d.trees) => h = c
    /\ e.pc \in {"validate", "init"} =>
          /\ e.start - 1 \in Common(d.trees) => h = e.start - 1
          /\ e.start <= e.end + 1 /\ (~e.follow => e.start <= e.end)

\* Between batches: trees and positions are at the block below the next batch.
\* The remembered block is theirs; without one the trees have a checkpoint.
RunPcs == {"outer", "main", "monitor", "return", "batch"}
Running(L, d, e, b, h) ==
    e.pc \in RunPcs =>
      /\ h = e.cur - 1 /\ PosAt(e.pos, h) /\ e.cur <= e.end + 1
      /\ e.prev # NoBlock /\ e.prev[1] = h => e.prev[2] = AncIn(L, b, h)
      /\ e.prev = NoBlock => h \in Common(d.trees) \/ h = 0
      /\ e.pc \in {"outer", "main"} /\ e.cur > e.end =>
            /\ e.prev # NoBlock => h \in DOMAIN d.rows
            /\ ~e.follow => d.local = h
      /\ e.pc = "return" => d.local = h

\* The batch comes from one branch c, which shares with the server all that
\* the hash window will forget; live rows are on c as well.  Before it is
\* written, c continues b unless the boundary check turns it away; after that
\* the trees are at its end.
OnBatch(L, t, d, e, b, h, c) ==
    /\ c \in 1..Len(L) /\ FetchedOn(L, e.batch, e.cur, c)
    /\ Final(e.batch) <= t /\ Final(e.batch) <= e.end
    /\ \A k \in DOMAIN d.rows :
          k <= Final(e.batch) /\ d.rows[k] = Row(L, Len(L), k) => d.rows[k] = Row(L, c, k)
    /\ Agree(L, c, Len(L), Final(e.batch) - SearchDepth - 1)
    /\ e.pc = "batch" =>
          (e.prev = NoBlock /\ (h \in DOMAIN d.rows => d.rows[h] = Row(L, c, h)) => Agree(L, b, c, h))
    /\ e.pc # "batch" => b = c /\ h = Final(e.batch) /\ PosAt(e.pos, h)
Batching(L, t, d, e, b, h) == e.pc \in InBatch => \E c : OnBatch(L, t, d, e, b, h, c)

Good(L, t, d, e, b, h) ==
    /\ Standing(L, t, d, Flight(e), b, h)
    /\ AtRest(d, e, h) /\ Running(L, d, e, b, h) /\ Batching(L, t, d, e, b, h)
SomeGood(L, t, d, e) == \E b, h : Good(L, t, d, e, b, h)

TreeInv ==
    /\ CursorInv /\ LineageOK(lineage)
    /\ ~Excused => SomeGood(lineage, tip, db, eng)

-----------------------------------------------------------------------------
LEMMA Basics ==
  ASSUME CursorInv, ~Excused
  PROVE  /\ tip \in Nat /\ tip <= Top /\ tip >= Birthday
         /\ DOMAIN db = {"local", "rows", "trees"} /\ DOMAIN db.rows \subseteq 1..Top /\ db.local \in Nat
         /\ AllSound(db.trees)
         /\ DOMAIN eng = EngineFields /\ eng.start \in Nat /\ eng.cur \in Nat /\ eng.end \in Nat
         /\ eng.last \in Nat /\ eng.prog \in Nat
         /\ (eng.pc \in {"validate", "init"} => eng.start >= 1)
         /\ (eng.pc \notin {"idle", "validate"} => eng.cur >= 1)
         /\ (eng.pc # "idle" => eng.end >= Birthday)
<1>1. tip \in Birthday..Top /\ RowHeights(db.rows) \subseteq 1..Top
  BY DEF CursorInv, CoherenceInv, SyncTypes
<1>2. AllSound(db.trees)
  BY DEF CursorInv, Level, Excused
<1> QED BY <1>1, <1>2, Heights1 DEF CursorInv, CoherenceInv, SyncTypes, RowHeights

LEMMA AgreeSelf == \A L, b, h : Agree(L, b, b, h)
BY DEF Agree

LEMMA AgreeAtStart ==
  ASSUME NEW L, NEW b, NEW c, NEW h \in Int, h <= 0
  PROVE  Agree(L, b, c, h)
BY OutputHeights DEF Agree

LEMMA CommonMember ==
  ASSUME NEW trees, NEW h \in Int, NewestCommon(trees, h) >= 0
  PROVE  NewestCommon(trees, h) \in Common(trees)
<1>1. NewestCommon(trees, h) \in 0..Top
  BY CommonBounded, Heights1
<1> QED BY <1>1, CommonIsCheckpoint DEF Common

\* A common checkpoint is at or below the trees' height.
LEMMA CommonHeld ==
  ASSUME NEW L, NEW trees, NEW b, NEW h, HeldAt(L, trees, b, h), NEW k \in Common(trees)
  PROVE  k \in Nat /\ k <= Top /\ k <= h
<1>1. \E p : p \in Pools
  BY PoolsAssumption
<1> QED BY <1>1, Heights1 DEF Common, HeldAt, Holds

LEMMA PositionsHeld ==
  ASSUME NEW L, NEW trees, AllSound(trees), NEW b, NEW h \in Nat, HeldAt(L, trees, b, h),
         h \in Common(trees) \/ h = 0
  PROVE  PosAt(RecoverPositions(trees), h)
<1> SUFFICES ASSUME NEW p \in Pools PROVE RecoverPositions(trees)[p] = Count(p, h)
  BY DEF PosAt
<1>1. h \in Checkpoints(trees[p]) \/ Count(p, h) = 0
  <2>1. CASE h = 0
    BY <2>1, CountNone, Heights1, 0 \in Int
  <2>2. CASE h \in Common(trees)
    BY <2>2 DEF Common
  <2> QED BY <2>1, <2>2
<1> QED BY <1>1, RecoverHolds DEF AllSound, HeldAt

\* truncate_above_height: the trees stand at the height they went back to.
LEMMA RewindStands ==
  ASSUME NEW L, NEW t \in Nat, NEW d, DOMAIN d.rows \subseteq 1..Top, AllSound(d.trees), NEW b, NEW h,
         Standing(L, t, d, {}, b, h), NEW x \in Nat
  PROVE  LET r == ReplayHeight(d, x)
             f == TruncateAbove(d, x)
         IN /\ Standing(L, t, f, {}, b, r) /\ r \in Nat /\ r <= x
            /\ PosAt(RecoverPositions(f.trees), r)
            /\ r \in Common(f.trees) \/ r = 0
            /\ x \in Common(f.trees) => r = x
<1> USE Heights1
<1> DEFINE r == ReplayHeight(d, x)
           f == TruncateAbove(d, x)
           c == NewestCommon(d.trees, x)
           rows == [k \in {j \in RowHeights(d.rows) : j <= x} |-> d.rows[k]]
           trees == [p \in Pools |-> IF c < 0 THEN EmptyTree ELSE TruncateTree(d.trees[p], c)]
<1>1. c \in Int /\ c >= -1 /\ c <= x /\ r = IF c >= 0 THEN c ELSE 0
  <2>1. c \in Int /\ c >= -1 /\ c <= x
    BY CommonBounded, x \in Int
  <2> QED BY <2>1, MaxOfTwo, 0 \in Int DEF ReplayHeight
<1>2. f.trees = trees /\ f.rows = rows /\ f.local = r
  BY DEF TruncateAbove
<1>3. /\ h \in Nat /\ h <= t /\ HeldAt(L, d.trees, b, h) /\ b \in 1..Len(L)
      /\ RowsReal(L, d.rows) /\ RowsVouch(L, d.rows, b, h) /\ Anchored(L, d, {}, b)
  BY DEF Standing
<1>4. c >= 0 => c \in Common(d.trees)
  BY CommonMember, x \in Int
<1>5. DOMAIN rows = {j \in DOMAIN d.rows : j <= x} /\ \A k \in DOMAIN rows : rows[k] = d.rows[k]
  BY DEF RowHeights
<1> HIDE DEF c, r, f, rows
<1>6. r \in Nat /\ r <= x /\ r <= h
  <2>1. c >= 0 => c <= h
    BY <1>3, <1>4, CommonHeld
  <2> QED BY <1>1, <1>3, <2>1
<1>7. ASSUME NEW p \in Pools
      PROVE  /\ Holds(p, L, trees[p], b, r) /\ SoundTree(p, trees[p])
             /\ c < 0 => Checkpoints(trees[p]) = {}
             /\ ~(c < 0) => Checkpoints(trees[p]) = {j \in Checkpoints(d.trees[p]) : j <= c}
  <2>1. CASE c < 0
    <3>1. trees[p] = EmptyTree /\ r = 0
      BY <1>1, <2>1
    <3>2. Count(p, r) = 0
      BY <3>1, CountNone, 0 \in Int
    <3> HIDE DEF trees
    <3> QED BY <2>1, <3>1, <3>2, EmptyHolds, EmptySound
  <2>2. CASE ~(c < 0)
    <3>1. trees[p] = TruncateTree(d.trees[p], c) /\ r = c /\ c \in Checkpoints(d.trees[p])
      BY <1>1, <1>4, <2>2 DEF Common
    <3>2. SoundTree(p, d.trees[p]) /\ Holds(p, L, d.trees[p], b, h) /\ h \in Int
      BY <1>3 DEF AllSound, HeldAt
    <3> HIDE DEF trees
    <3> QED BY <2>2, <3>1, <3>2, TruncateHolds, TruncateSound
  <2> QED BY <2>1, <2>2
<1> HIDE DEF trees
<1>8. ASSUME NEW k \in Common(trees) PROVE k \in Common(d.trees) /\ k <= r /\ k \in Nat /\ c >= 0
  <2>0. \E p : p \in Pools
    BY PoolsAssumption
  <2>1. c >= 0
    BY <1>1, <1>7, <2>0 DEF Common
  <2>2. k \in 0..Top /\ \A p \in Pools : k \in Checkpoints(d.trees[p]) /\ k <= c
    BY <1>7, <2>1, <1>1 DEF Common
  <2> QED BY <1>1, <2>0, <2>1, <2>2 DEF Common
<1>9. HeldAt(L, trees, b, r) /\ AllSound(trees)
  BY <1>7 DEF HeldAt, AllSound
<1>10. r \in Common(trees) \/ r = 0
  <2>1. CASE c >= 0
    <3>1. c \in 0..Top /\ r = c /\ \A p \in Pools : c \in Checkpoints(d.trees[p])
      BY <1>1, <1>4, <2>1 DEF Common
    <3>2. \A p \in Pools : c \in Checkpoints(trees[p])
      BY <1>1, <1>7, <2>1, <3>1
    <3> QED BY <3>1, <3>2 DEF Common
  <2> QED BY <1>1, <2>1
<1>11. Anchored(L, f, {}, b)
  <2> SUFFICES ASSUME NEW k \in Common(trees), k \notin DOMAIN rows PROVE Agree(L, b, Len(L), k)
    BY <1>2 DEF Anchored
  <2>1. k \in Common(d.trees) /\ k <= x /\ k \notin DOMAIN d.rows
    BY <1>5, <1>6, <1>8
  <2> QED BY <1>3, <2>1 DEF Anchored
<1>12. RowsReal(L, rows) /\ RowsVouch(L, rows, b, r)
  <2>1. RowsReal(L, rows)
    BY <1>3, <1>5 DEF RowsReal
  <2>2. ASSUME NEW k \in DOMAIN rows, k <= r, rows[k] = Row(L, Len(L), k) PROVE Agree(L, b, Len(L), k)
    <3>1. k \in DOMAIN d.rows /\ d.rows[k] = Row(L, Len(L), k)
      BY <1>5, <2>2
    <3>2. \E y \in 1..Len(L) : d.rows[k] = Row(L, y, k)
      BY <1>3, <3>1 DEF RowsReal
    <3>3. k <= h
      BY <1>3, <1>6, <2>2, <3>1
    <3> QED BY <1>3, <3>1, <3>3 DEF RowsVouch
  <2> QED BY <2>1, <2>2 DEF RowsVouch
<1>13. Standing(L, t, f, {}, b, r)
  <2>1. r <= t
    BY <1>3, <1>6
  <2> QED BY <1>2, <1>3, <1>6, <1>9, <1>11, <1>12, <2>1 DEF Standing
<1>14. PosAt(RecoverPositions(trees), r)
  BY <1>6, <1>9, <1>10, PositionsHeld
<1>15. x \in Common(trees) => r = x
  BY <1>6, <1>8
<1> QED BY <1>2, <1>6, <1>10, <1>13, <1>14, <1>15 DEF r, f

LEMMA BatchFacts ==
  ASSUME CursorInv, eng.pc \in InBatch
  PROVE  /\ Fetched(eng.batch, eng.cur) /\ eng.cur \in Nat /\ eng.cur >= 1 /\ eng.cur <= eng.end
         /\ First(eng.batch) = eng.cur /\ Final(eng.batch) \in Nat /\ eng.cur <= Final(eng.batch)
         /\ Final(eng.batch) <= Top /\ Heights(eng.batch) = eng.cur..Final(eng.batch)
         /\ eng.batch[Len(eng.batch)] # NoBlock
<1>1. /\ Fetched(eng.batch, eng.cur) /\ eng.cur \in Nat /\ eng.cur <= eng.end /\ eng.cur >= 1
  BY DEF CursorInv, CoherenceInv, BatchAtCur, SyncTypes, InBatch
<1> QED BY <1>1, BatchEnds DEF Heights

LEMMA GoodGrow ==
  ASSUME CursorInv, ~Excused, NEW b, NEW h, Good(lineage, tip, db, eng, b, h), Grow
  PROVE  SomeGood(lineage', tip', db', eng')
<1>1. lineage' = lineage /\ tip' = tip + 1 /\ db' = db /\ eng' = eng
  BY DEF Grow
<1>2. tip \in Nat
  BY Basics
<1>3. Standing(lineage, tip + 1, db, Flight(eng), b, h)
  BY <1>2 DEF Good, Standing
<1>4. ASSUME eng.pc \in InBatch PROVE \E c : OnBatch(lineage, tip + 1, db, eng, b, h, c)
  <2>1. PICK c : OnBatch(lineage, tip, db, eng, b, h, c)
    BY <1>4 DEF Good, Batching
  <2>2. Final(eng.batch) \in Nat
    BY <1>4, BatchFacts
  <2>3. Final(eng.batch) <= tip + 1
    BY <1>2, <2>1, <2>2 DEF OnBatch
  <2>4. OnBatch(lineage, tip + 1, db, eng, b, h, c)
    BY <2>1, <2>3 DEF OnBatch
  <2> QED BY <2>4
<1>5. Good(lineage, tip + 1, db, eng, b, h)
  BY <1>3, <1>4 DEF Good, Batching
<1> QED BY <1>1, <1>5 DEF SomeGood

\* A reorganisation replaces no block below the hash window
\* (MAX_REORG_SEARCH_DEPTH).
ReorgWithinWindow == lineage' # lineage => Len(lineage'[Len(lineage')]) >= tip - SearchDepth - 1

LEMMA GoodReorg ==
  ASSUME CursorInv, LineageOK(lineage), ~Excused, NEW b, NEW h, Good(lineage, tip, db, eng, b, h), Reorg,
         ~Excused', [ReorgWithinWindow]_vars
  PROVE  LineageOK(lineage') /\ SomeGood(lineage', tip', db', eng')
<1> USE Heights1
<1>1. PICK f \in FirstFork..tip :
        /\ lineage' = Append(lineage, [k \in 1..(f - 1) |-> Ancestor(Branch, k)])
        /\ orphan' = (orphan \/ Unanchored(f))
  BY DEF Reorg
<1>2. tip' = tip /\ db' = db /\ eng' = eng
  BY DEF Reorg
<1>3. f \in Nat /\ f >= 1 /\ f <= tip /\ tip \in Nat /\ f - 1 \in Nat
  <2>1. tip \in Nat
    BY Basics
  <2> QED BY <2>1, HeightsAssumption
<1>4. ~Unanchored(f)
  BY <1>1 DEF Excused
<1> DEFINE L == lineage
           M == lineage'
           n == Len(lineage)
           below == Stem(L, f)
<1>5. M = Append(L, below)
  BY <1>1 DEF Ancestor, AncIn, Branch, Stem
<1> HIDE DEF below
<1>a. ForkedAt(L, f, M)
  BY <1>5 DEF below, ForkedAt
<1>6. /\ LineageOK(M) /\ Len(M) = n + 1
      /\ \A x \in 1..n : \A k : AncIn(M, x, k) = AncIn(L, x, k)
      /\ \A k \in Nat \ {0} : AncIn(M, Len(M), k) = IF k < f THEN AncIn(L, n, k) ELSE Len(M)
  <2>1. LineageOK(L) /\ n = Len(L)
    OBVIOUS
  <2> HIDE DEF L, M, n
  <2> QED BY <1>3, <1>a, <2>1, Forked
<1>7. n \in Nat /\ n >= 1 /\ \A x \in 1..n : \A k \in Nat \ {0} : AncIn(L, x, k) \in 1..n
  BY DEF LineageOK
<1>8. f - 1 >= tip - SearchDepth - 1
  <2>1. Len(below) = f - 1
    <3>1. DOMAIN below = 1..(f - 1)
      BY DEF Stem, below
    <3> HIDE DEF below
    <3> QED BY <1>3, <3>1
  <2> HIDE DEF below
  <2>2. M[Len(M)] = below
    BY <1>5, <1>7
  <2>3. vars' # vars /\ M # L
    <3>1. M # L
      BY <1>6, <1>7
    <3> QED BY <3>1 DEF vars
  <2>4. ReorgWithinWindow
    BY <2>3
  <2> QED BY <2>1, <2>2, <2>3, <2>4 DEF ReorgWithinWindow
<1> HIDE DEF below, L, M, n
<1>9. ASSUME NEW x \in 1..n, NEW k PROVE Row(M, x, k) = Row(L, x, k)
  BY <1>6 DEF Row
<1>10. ASSUME NEW x \in 1..n, NEW y \in 1..n, NEW k PROVE Agree(M, x, y, k) <=> Agree(L, x, y, k)
  BY <1>6 DEF Agree
<1>11. ASSUME NEW x \in 1..n, NEW k \in Int, k < f, Agree(L, x, n, k) PROVE Agree(M, x, Len(M), k)
  <2> SUFFICES ASSUME NEW p \in Pools, NEW j \in Outputs[p], j <= k PROVE AncIn(M, x, j) = AncIn(M, Len(M), j)
    BY DEF Agree
  <2>1. j \in Nat \ {0} /\ j < f
    BY <1>3, <1>11, OutputHeights
  <2>2. AncIn(M, Len(M), j) = AncIn(L, n, j) /\ AncIn(M, x, j) = AncIn(L, x, j)
    BY <1>6, <2>1
  <2> QED BY <1>11, <2>2 DEF Agree
\* A row the new chain shares was shared by the old one and lies below the fork.
<1>12. ASSUME NEW k \in DOMAIN db.rows, db.rows[k] = Row(M, Len(M), k)
       PROVE  k \in Nat /\ k < f /\ db.rows[k] = Row(L, n, k)
  <2>1. k \in Nat \ {0}
    BY Basics
  <2>2. PICK c \in 1..n : db.rows[k] = Row(L, c, k)
    BY DEF Good, Standing, RowsReal, L, n
  <2>3. AncIn(L, c, k) = AncIn(M, Len(M), k)
    BY <1>12, <2>2 DEF Row
  <2>4. AncIn(L, c, k) \in 1..n
    BY <1>7, <2>1
  <2>5. k < f
    <3>1. ~(k < f) => AncIn(M, Len(M), k) = n + 1
      BY <1>6, <2>1
    <3> QED BY <1>7, <2>3, <2>4, <3>1
  <2>6. AncIn(M, Len(M), k) = AncIn(L, n, k)
    BY <1>6, <2>1, <2>5
  <2> QED BY <1>12, <2>1, <2>5, <2>6 DEF Row
<1>13. /\ b \in 1..n /\ h \in Nat /\ h <= tip /\ db.local <= h /\ HeldAt(L, db.trees, b, h)
       /\ RowsReal(L, db.rows) /\ RowsVouch(L, db.rows, b, h) /\ Anchored(L, db, Flight(eng), b)
  BY DEF Good, Standing, L, n
<1>14. \A x \in 1..n : x \in 1..(n + 1)
  BY <1>7
<1>15. HeldAt(M, db.trees, b, h)
  <2> SUFFICES ASSUME NEW p \in Pools PROVE Leaves(p, M, b, h) = Leaves(p, L, b, h)
    BY <1>13 DEF HeldAt, Holds
  <2> QED BY <1>9, <1>13 DEF Leaves
<1>16. RowsReal(M, db.rows)
  <2> SUFFICES ASSUME NEW k \in DOMAIN db.rows PROVE \E c \in 1..Len(M) : db.rows[k] = Row(M, c, k)
    BY DEF RowsReal
  <2>1. PICK c \in 1..n : db.rows[k] = Row(L, c, k)
    BY <1>13 DEF RowsReal, n, L
  <2>2. db.rows[k] = Row(M, c, k) /\ c \in 1..Len(M)
    BY <1>6, <1>9, <1>14, <2>1
  <2> QED BY <2>2
<1>17. RowsVouch(M, db.rows, b, h)
  <2> SUFFICES ASSUME NEW k \in DOMAIN db.rows, k <= h, db.rows[k] = Row(M, Len(M), k)
               PROVE  Agree(M, b, Len(M), k)
    BY DEF RowsVouch
  <2>1. k \in Nat /\ k < f /\ db.rows[k] = Row(L, n, k)
    BY <1>12
  <2>2. Agree(L, b, n, k)
    BY <1>13, <2>1 DEF RowsVouch, n, L
  <2> QED BY <1>11, <1>13, <2>1, <2>2
<1>18. Anchored(M, db, Flight(eng), b)
  <2> SUFFICES ASSUME NEW k \in Common(db.trees), k \notin DOMAIN db.rows, k \notin Flight(eng)
               PROVE  Agree(M, b, Len(M), k)
    BY DEF Anchored
  <2>0. k \in Nat /\ k <= h
    BY <1>13, CommonHeld
  <2>1. Agree(L, b, n, k)
    BY <1>13 DEF Anchored, n, L
  <2>2. CASE k < f
    BY <1>11, <1>13, <2>0, <2>1, <2>2
  <2>3. CASE ~(k < f)
    <3>1. ~\E p \in Pools : db.trees[p].size[k] > 0
      <4>1. k \in Common(db.trees) \ (RowHeights(db.rows) \cup InFlight) /\ f <= k
        BY <1>3, <2>0, <2>3 DEF Flight, InFlight, RowHeights
      <4> QED BY <1>4, <4>1 DEF Unanchored
    <3> SUFFICES ASSUME NEW p \in Pools, NEW j \in Outputs[p], j <= k PROVE FALSE
      BY DEF Agree
    <3>2. db.trees[p].size[k] = Count(p, k)
      BY <1>13 DEF HeldAt, Holds, Common
    <3>3. Count(p, j) \in Nat /\ Count(p, j) >= 1 /\ Count(p, j) <= Count(p, k) /\ Count(p, k) \in Nat
      <4>1. k \in Int
        BY <2>0
      <4> QED BY <4>1, CountOrder, CountNat
    <3> QED BY <3>1, <3>2, <3>3
  <2> QED BY <2>2, <2>3
<1>19. Standing(M, tip, db, Flight(eng), b, h)
  BY <1>6, <1>13, <1>14, <1>15, <1>16, <1>17, <1>18 DEF Standing
<1>20. Running(M, db, eng, b, h)
  <2>1. Running(L, db, eng, b, h) /\ AncIn(M, b, h) = AncIn(L, b, h)
    BY <1>6, <1>13 DEF Good, L
  <2> QED BY <2>1 DEF Running
<1>21. ASSUME eng.pc \in InBatch PROVE \E c : OnBatch(M, tip, db, eng, b, h, c)
  <2>1. PICK c : OnBatch(L, tip, db, eng, b, h, c)
    BY <1>21 DEF Good, Batching, L
  <2>2. c \in 1..n
    BY <2>1 DEF OnBatch, n, L
  <2>3. Final(eng.batch) \in Nat /\ Final(eng.batch) <= tip
    BY <1>21, <2>1, BatchFacts DEF OnBatch
  <2>4. Agree(M, c, Len(M), Final(eng.batch) - SearchDepth - 1)
    <3> DEFINE k == Final(eng.batch) - SearchDepth - 1
    <3>1. k \in Int /\ k < f
      BY <1>3, <1>8, <2>3
    <3>2. Agree(L, c, n, k)
      BY <2>1 DEF OnBatch, n, L
    <3> HIDE DEF k
    <3>3. Agree(M, c, Len(M), k)
      BY <1>11, <2>2, <3>1, <3>2
    <3> QED BY <3>3 DEF k
  <2>5. FetchedOn(M, eng.batch, eng.cur, c)
    BY <1>9, <2>1, <2>2 DEF FetchedOn, OnBatch
  <2>6. ASSUME NEW k \in DOMAIN db.rows, k <= Final(eng.batch), db.rows[k] = Row(M, Len(M), k)
        PROVE  db.rows[k] = Row(M, c, k)
    <3>1. db.rows[k] = Row(L, n, k)
      BY <1>12, <2>6
    <3>2. db.rows[k] = Row(L, c, k)
      BY <2>1, <2>6, <3>1 DEF OnBatch, n, L
    <3> QED BY <1>9, <2>2, <3>2
  <2>7. eng.pc = "batch" =>
          (eng.prev = NoBlock /\ (h \in DOMAIN db.rows => db.rows[h] = Row(M, c, h)) => Agree(M, b, c, h))
    BY <1>9, <1>10, <1>13, <2>1, <2>2 DEF OnBatch
  <2>8. c \in 1..Len(M)
    BY <1>6, <1>14, <2>2
  <2> QED BY <2>1, <2>4, <2>5, <2>6, <2>7, <2>8 DEF OnBatch
<1>22. Good(M, tip, db, eng, b, h)
  BY <1>19, <1>20, <1>21 DEF Good, Batching
<1> QED BY <1>2, <1>6, <1>22 DEF SomeGood, M

LEMMA RestGood ==
  ASSUME NEW L, NEW t, NEW d, NEW e, NEW b, NEW h, Standing(L, t, d, {}, b, h), e.pc \in Resting,
         AtRest(d, e, h)
  PROVE  Good(L, t, d, e, b, h) /\ SomeGood(L, t, d, e)
<1>1. Flight(e) = {} /\ e.pc \notin RunPcs /\ e.pc \notin InBatch
  BY DEF Flight, MidBatchPcs, Resting, RunPcs, InBatch
<1> QED BY <1>1 DEF Good, SomeGood, Running, Batching

LEMMA RunGood ==
  ASSUME NEW L, NEW t, NEW d, NEW e, NEW b, NEW h, Standing(L, t, d, {}, b, h), e.pc \in Between,
         Running(L, d, e, b, h)
  PROVE  Good(L, t, d, e, b, h) /\ SomeGood(L, t, d, e)
<1>1. Flight(e) = {} /\ e.pc \notin Resting /\ e.pc \notin InBatch
  BY DEF Flight, MidBatchPcs, Between, Resting, InBatch
<1> QED BY <1>1 DEF Good, SomeGood, AtRest, Batching, Resting

LEMMA NoFlight ==
  ASSUME NEW L, NEW t, NEW d, NEW e, NEW b, NEW h, Good(L, t, d, e, b, h), e.pc \notin MidBatchPcs
  PROVE  Standing(L, t, d, {}, b, h)
BY DEF Good, Flight

LEMMA GoodStart ==
  ASSUME CursorInv, ~Excused, NEW b, NEW h, Good(lineage, tip, db, eng, b, h), Start
  PROVE  SomeGood(lineage', tip', db', eng')
<1> USE Heights1
<1> DEFINE first == IF db.local > 0 THEN db.local + 1 ELSE Birthday
           start == Max({Birthday, first})
           c == Max({db.local, Birthday - 1})
<1>0. tip \in Nat /\ tip >= Birthday /\ db.local \in Nat
  BY Basics
<1>1. eng.pc = "idle" /\ lineage' = lineage /\ tip' = tip /\ db' = db
  BY DEF Start, chainVars
<1>2. PICK follow \in BOOLEAN :
        /\ follow \/ start < tip
        /\ eng' = [Idle EXCEPT !.pc = "validate", !.follow = follow, !.gap = TRUE,
                               !.start = start, !.prog = start - 1, !.end = tip]
  BY DEF Start
<1>3. start = IF Birthday >= first THEN Birthday ELSE first
  BY <1>0, MaxOfTwo, Birthday \in Int, first \in Int
<1>4. c = IF db.local >= Birthday - 1 THEN db.local ELSE Birthday - 1
  BY <1>0, MaxOfTwo, db.local \in Int, Birthday - 1 \in Int
<1>5. Standing(lineage, tip, db, {}, b, h) /\ h \in Nat /\ h <= tip /\ db.local <= h
  BY <1>1, NoFlight DEF MidBatchPcs, Standing
<1>6. c \in Common(db.trees) => h = c
  BY <1>1 DEF Good, AtRest
<1>7. start \in Nat /\ start - 1 = c /\ start <= tip + 1
  BY <1>0, <1>3, <1>4, <1>5
<1> HIDE DEF start, first, c
<1>8. eng'.pc = "validate" /\ eng'.start = start /\ eng'.end = tip /\ eng'.follow = follow
  BY <1>2, IdleFields DEF EngineFields
<1>9. ~follow => start <= tip
  BY <1>0, <1>2, <1>7
<1>10. AtRest(db, eng', h)
  BY <1>6, <1>7, <1>8, <1>9 DEF AtRest
<1> QED BY <1>1, <1>5, <1>8, <1>10, RestGood DEF Resting

LEMMA GoodRescan ==
  ASSUME CursorInv, ~Excused, NEW b, NEW h, Good(lineage, tip, db, eng, b, h), StartRescan
  PROVE  SomeGood(lineage', tip', db', eng')
<1> USE Heights1
<1>0. tip \in Nat /\ tip >= Birthday /\ DOMAIN db.rows \subseteq 1..Top /\ AllSound(db.trees)
  BY Basics
<1>1. eng.pc = "idle" /\ lineage' = lineage /\ tip' = tip
  BY DEF StartRescan, chainVars
<1>2. PICK from \in Birthday..tip :
        /\ db' = TruncateAbove(db, from - 1)
        /\ eng' = [Idle EXCEPT !.pc = "validate", !.start = from, !.prog = from - 1,
                               !.end = Max({tip, from})]
  BY DEF StartRescan
<1> DEFINE m == Max({tip, from})
           x == from - 1
           r == ReplayHeight(db, x)
<1>3. from \in Nat /\ x \in Nat /\ m = tip
  <2>1. from \in Nat /\ x \in Nat /\ from <= tip
    BY <1>0
  <2>2. m = IF tip >= from THEN tip ELSE from
    BY <1>0, <2>1, MaxOfTwo, tip \in Int, from \in Int
  <2> QED BY <2>1, <2>2
<1>4. Standing(lineage, tip, db, {}, b, h)
  BY <1>1, NoFlight DEF MidBatchPcs
<1>5. Standing(lineage, tip, db', {}, b, r) /\ (x \in Common(db'.trees) => r = x)
  BY <1>0, <1>2, <1>3, <1>4, RewindStands
<1>6. eng' = [Idle EXCEPT !.pc = "validate", !.start = from, !.prog = x, !.end = m]
  BY <1>2
<1> HIDE DEF m, r
<1>7. eng'.pc = "validate" /\ eng'.start = from /\ eng'.end = tip
  BY <1>3, <1>6, IdleFields DEF EngineFields
<1>8. from <= tip /\ from <= tip + 1
  BY <1>0, <1>3
<1>9. AtRest(db', eng', r)
  BY <1>5, <1>7, <1>8 DEF AtRest
<1> QED BY <1>1, <1>5, <1>7, <1>9, RestGood DEF Resting

\* Where validate_resume_chain goes: not above where it was told to start, and
\* within the target when it rewinds.
LEMMA ResumeWithin ==
  ASSUME NEW rows, NEW start \in Nat, start >= 1, NEW end \in Nat, end >= Birthday, NEW gap,
         RowHeights(rows) \subseteq 1..Top
  PROVE  LET v == ValidateResume(rows, start, end, gap)
         IN /\ v[1] \in Nat /\ v[2] \in Int
            /\ \/ v[1] = start /\ v[2] = -1
               \/ v[1] = v[2] + 1 /\ v[2] >= 0 /\ v[2] <= end /\ (v[1] <= start \/ v[1] <= Birthday)
<1> USE Heights1
<1> DEFINE row == ResumeRow(rows, start - 1)
           v == ValidateResume(rows, start, end, gap)
           a == AncestorOrFloor(rows, row[1])
<1>1. /\ row[1] \in Nat /\ row[1] <= start - 1 /\ row[2] \in BOOLEAN
  BY ResumeRowBounded, start - 1 \in Nat
<1>2. a \in Nat /\ a >= Birthday - 1 /\ a <= Max({row[1], Birthday - 1})
  BY <1>1, AncestorBounded, row[1] \in Int
<1>a. Max({row[1], Birthday - 1}) = IF row[1] >= Birthday - 1 THEN row[1] ELSE Birthday - 1
  BY <1>1, MaxOfTwo, row[1] \in Int, Birthday - 1 \in Int
<1>3. \/ v = <<start, -1>>
      \/ row[1] <= end /\ (v = <<row[1] + 1, row[1]>> \/ v = <<a + 1, a>>)
  <2>1. CASE start = 1 \/ start - 1 > end \/ row[1] = 0 \/ row[1] > end
    BY <2>1 DEF ValidateResume
  <2>2. CASE ~(start = 1 \/ start - 1 > end \/ row[1] = 0 \/ row[1] > end)
    <3>1. row[1] <= end
      BY <1>1, <2>2
    <3> QED BY <2>2, <3>1 DEF ValidateResume
  <2> QED BY <2>1, <2>2
<1> HIDE DEF row, a, v
<1>4. CASE v = <<start, -1>>
  <2>1. v[1] = start /\ v[2] = -1
    BY <1>4
  <2> QED BY <2>1 DEF v
<1>5. CASE row[1] <= end /\ v = <<row[1] + 1, row[1]>>
  <2>1. v[1] = row[1] + 1 /\ v[2] = row[1]
    BY <1>5
  <2> QED BY <1>1, <1>5, <2>1 DEF v
<1>6. CASE row[1] <= end /\ v = <<a + 1, a>>
  <2>1. v[1] = a + 1 /\ v[2] = a
    BY <1>6
  <2>2. a <= end /\ (a + 1 <= start \/ a + 1 <= Birthday)
    BY <1>1, <1>2, <1>6, <1>a
  <2> QED BY <1>2, <2>1, <2>2 DEF v
<1> QED BY <1>3, <1>4, <1>5, <1>6

LEMMA GoodValidate ==
  ASSUME CursorInv, ~Excused, NEW b, NEW h, Good(lineage, tip, db, eng, b, h), Validate
  PROVE  SomeGood(lineage', tip', db', eng')
<1> USE Heights1
<1> DEFINE v == ValidateResume(db.rows, eng.start, eng.end, eng.gap)
<1>0. /\ eng.pc = "validate" /\ lineage' = lineage /\ tip' = tip /\ eng.start \in Nat /\ eng.start >= 1
      /\ eng.end \in Nat /\ eng.end >= Birthday /\ DOMAIN eng = EngineFields /\ tip \in Nat
      /\ DOMAIN db.rows \subseteq 1..Top /\ AllSound(db.trees)
  BY Basics DEF Validate, chainVars
<1>1. /\ v[1] \in Nat /\ v[2] \in Int
      /\ \/ v[1] = eng.start /\ v[2] = -1
         \/ v[1] = v[2] + 1 /\ v[2] >= 0 /\ v[2] <= eng.end /\ (v[1] <= eng.start \/ v[1] <= Birthday)
  BY <1>0, ResumeWithin DEF RowHeights
<1>2. db' = IF v[2] < 0 THEN db ELSE TruncateAbove(db, v[2])
  BY DEF Validate
<1>3. eng' = [eng EXCEPT !.pc = "init", !.start = v[1], !.cur = v[1], !.prog = v[1] - 1, !.last = v[1] - 1]
  BY DEF Validate
<1>4. Standing(lineage, tip, db, {}, b, h)
  BY <1>0, NoFlight DEF MidBatchPcs
<1>a. /\ eng.start - 1 \in Common(db.trees) => h = eng.start - 1
      /\ eng.start <= eng.end + 1 /\ (~eng.follow => eng.start <= eng.end)
  BY <1>0 DEF Good, AtRest
<1> HIDE DEF v
<1>5. eng'.pc = "init" /\ eng'.start = v[1] /\ eng'.end = eng.end /\ eng'.follow = eng.follow
  BY <1>0, <1>3 DEF EngineFields
<1>6. CASE v[2] < 0
  <2>1. db' = db /\ v[1] = eng.start
    BY <1>1, <1>2, <1>6
  <2>2. AtRest(db', eng', h)
    BY <1>a, <1>5, <2>1 DEF AtRest
  <2> QED BY <1>0, <1>4, <1>5, <2>1, <2>2, RestGood DEF Resting
<1>7. CASE ~(v[2] < 0)
  <2> DEFINE x == v[2]
             r == ReplayHeight(db, x)
  <2>1. db' = TruncateAbove(db, x) /\ x \in Nat /\ v[1] - 1 = x /\ v[1] <= eng.end + 1
        /\ (~eng.follow => v[1] <= eng.end)
    BY <1>0, <1>1, <1>2, <1>7, <1>a
  <2> HIDE DEF x
  <2>2. Standing(lineage, tip, db', {}, b, r) /\ (x \in Common(db'.trees) => r = x)
    BY <1>0, <1>4, <2>1, RewindStands
  <2> HIDE DEF r
  <2>3. AtRest(db', eng', r)
    BY <1>5, <2>1, <2>2 DEF AtRest
  <2> QED BY <1>0, <1>5, <2>2, <2>3, RestGood DEF Resting
<1> QED BY <1>6, <1>7

\* Trees that hold the server's own leaves agree with every row and checkpoint.
LEMMA FreshStands ==
  ASSUME NEW L, LineageOK(L), NEW t, NEW d, NEW h \in Nat, h <= t, d.local <= h, HeldAt(L, d.trees, Len(L), h),
         RowsReal(L, d.rows)
  PROVE  Standing(L, t, d, {}, Len(L), h)
<1>1. Len(L) \in 1..Len(L)
  BY DEF LineageOK
<1> QED BY <1>1, AgreeSelf DEF Standing, RowsVouch, Anchored

\* A run that has loaded its trees, before its first batch.
LEMMA LoadedGood ==
  ASSUME NEW L, NEW t, NEW d, AllSound(d.trees), NEW e, NEW b, NEW h \in Nat, Standing(L, t, d, {}, b, h),
         e.pc = "outer", e.cur = h + 1, e.pos = RecoverPositions(d.trees), e.prev = NoBlock,
         h \in Common(d.trees) \/ h = 0, e.end \in Nat, e.cur <= e.end \/ (e.cur = e.end + 1 /\ e.follow)
  PROVE  SomeGood(L, t, d, e)
<1>1. HeldAt(L, d.trees, b, h)
  BY DEF Standing
<1>2. PosAt(e.pos, h)
  BY <1>1, PositionsHeld
<1>3. h = e.cur - 1 /\ e.cur <= e.end + 1
  OBVIOUS
<1>4. e.cur > e.end => e.follow
  OBVIOUS
<1>5. Running(L, d, e, b, h)
  BY <1>2, <1>3, <1>4 DEF Running
<1> QED BY <1>5, RunGood DEF Between

LEMMA GoodInitActivation ==
  ASSUME CursorInv, LineageOK(lineage), ~Excused, NEW b, NEW h, Good(lineage, tip, db, eng, b, h),
         InitFromActivation
  PROVE  SomeGood(lineage', tip', db', eng')
<1> USE Heights1
<1>0. /\ eng.pc = "init" /\ lineage' = lineage /\ tip' = tip /\ eng.prev = NoBlock
      /\ DOMAIN db = {"local", "rows", "trees"} /\ DOMAIN eng = EngineFields
      /\ eng.end \in Nat /\ eng.end >= Birthday /\ tip \in Nat /\ tip >= Birthday
  BY Basics DEF InitFromActivation, chainVars, CursorInv, CoherenceInv, Linked, Resting
<1> DEFINE base == Activation - 1
           trees == [p \in Pools |-> AddCheckpoint(EmptyTree, base)]
           goal == IF Activation < eng.start THEN eng.start - 1 ELSE NoTarget
           pos == RecoverPositions(trees)
<1>1. db' = [db EXCEPT !.trees = trees, !.local = base]
  BY DEF InitFromActivation
<1>2. eng' = [[eng EXCEPT !.cur = Activation, !.last = base, !.prog = base, !.target = goal]
                EXCEPT !.pc = "outer", !.pos = pos]
  BY DEF InitFromActivation, Loaded
<1>3. base \in Nat /\ base <= tip /\ base + 1 = Activation /\ base <= Top /\ Activation <= eng.end
  BY <1>0
<1>4. ASSUME NEW p \in Pools
      PROVE  /\ SoundTree(p, trees[p]) /\ base \in Checkpoints(trees[p])
             /\ Holds(p, lineage, trees[p], Len(lineage), base)
  <2>1. Count(p, base) = 0
    BY CountNone, base \in Int
  <2>2. trees[p] = AddCheckpoint(EmptyTree, base)
    OBVIOUS
  <2> HIDE DEF base, trees
  <2>3. Holds(p, lineage, EmptyTree, Len(lineage), base)
    BY <2>1, EmptyHolds
  <2>4. SoundTree(p, EmptyTree) /\ Len(EmptyTree.leaves) = 0 /\ Checkpoints(EmptyTree) = {}
    BY EmptySound
  <2>5. SoundTree(p, AddCheckpoint(EmptyTree, base)) /\ base \in Checkpoints(AddCheckpoint(EmptyTree, base))
    BY <1>3, <2>1, <2>4, AddSound, FirstCheckpoint
  <2>6. Holds(p, lineage, AddCheckpoint(EmptyTree, base), Len(lineage), base)
    BY <1>3, <2>3, <2>4, AddHolds
  <2> QED BY <2>2, <2>5, <2>6
<1> HIDE DEF trees, goal, pos, base
<1>5. /\ db'.trees = trees /\ db'.local = base /\ db'.rows = db.rows /\ eng'.pc = "outer"
      /\ eng'.cur = Activation /\ eng'.pos = pos /\ eng'.prev = eng.prev /\ eng'.end = eng.end
  BY <1>0, <1>1, <1>2 DEF EngineFields
<1>6. AllSound(trees) /\ HeldAt(lineage, trees, Len(lineage), base) /\ base \in Common(trees)
  BY <1>3, <1>4 DEF AllSound, HeldAt, Common
<1>7. Standing(lineage, tip, db', {}, Len(lineage), base)
  <2>1. RowsReal(lineage, db.rows)
    BY DEF Good, Standing
  <2>2. base <= base
    BY <1>3
  <2> QED BY <1>3, <1>5, <1>6, <2>1, <2>2, FreshStands
<1>8. eng'.pos = RecoverPositions(db'.trees) /\ eng'.cur = base + 1 /\ eng'.cur <= eng'.end
  BY <1>3, <1>5 DEF pos
<1> QED BY <1>0, <1>3, <1>5, <1>6, <1>7, <1>8, LoadedGood

LEMMA GoodInitLocal ==
  ASSUME CursorInv, ~Excused, NEW b, NEW h, Good(lineage, tip, db, eng, b, h), InitLocal
  PROVE  SomeGood(lineage', tip', db', eng')
<1> USE Heights1
<1>0. /\ eng.pc = "init" /\ lineage' = lineage /\ tip' = tip /\ eng.prev = NoBlock
      /\ DOMAIN db = {"local", "rows", "trees"} /\ DOMAIN eng = EngineFields /\ AllSound(db.trees)
      /\ eng.end \in Nat /\ eng.start \in Nat /\ eng.start >= 1 /\ eng.cur = eng.start
  BY Basics DEF InitLocal, chainVars, CursorInv, CoherenceInv, Linked, Resting, Order
<1> DEFINE x == eng.start - 1
           trees == [p \in Pools |-> Retain(db.trees[p], x)]
           pos == RecoverPositions(db.trees)
<1>1. db' = [db EXCEPT !.trees = trees] /\ x \in Common(db.trees)
  BY DEF InitLocal
<1>2. eng' = [eng EXCEPT !.pc = "outer", !.pos = pos]
  BY DEF InitLocal, Loaded
<1>3. h = x /\ eng.start <= eng.end + 1 /\ (~eng.follow => eng.start <= eng.end)
  BY <1>0, <1>1 DEF Good, AtRest
<1>4. Standing(lineage, tip, db, {}, b, h) /\ HeldAt(lineage, db.trees, b, h)
  BY <1>0, NoFlight DEF MidBatchPcs, Standing
<1>5. ASSUME NEW p \in Pools
      PROVE  /\ SoundTree(p, trees[p]) /\ Holds(p, lineage, trees[p], b, h)
             /\ Checkpoints(trees[p]) = Checkpoints(db.trees[p])
  <2>1. SoundTree(p, db.trees[p]) /\ Holds(p, lineage, db.trees[p], b, h)
    BY <1>0, <1>4 DEF AllSound, HeldAt
  <2>2. trees[p] = Retain(db.trees[p], x)
    OBVIOUS
  <2> HIDE DEF trees, x
  <2> QED BY <2>1, <2>2, RetainSound, RetainHolds
<1>6. x \in Nat /\ x + 1 = eng.start
  BY <1>0
<1>9. PosAt(pos, h)
  BY <1>0, <1>1, <1>3, <1>4, <1>6, PositionsHeld
<1> HIDE DEF trees, pos, x
<1>7. Common(trees) = Common(db.trees)
  BY <1>5 DEF Common
<1>8. /\ db'.trees = trees /\ db'.local = db.local /\ db'.rows = db.rows /\ eng'.pc = "outer"
      /\ eng'.cur = eng.cur /\ eng'.pos = pos /\ eng'.prev = eng.prev /\ eng'.end = eng.end
      /\ eng'.follow = eng.follow
  BY <1>0, <1>1, <1>2 DEF EngineFields
<1>10. Standing(lineage, tip, db', {}, b, h)
  <2>1. HeldAt(lineage, trees, b, h)
    BY <1>5 DEF HeldAt
  <2>2. Anchored(lineage, db', {}, b)
    BY <1>4, <1>7, <1>8 DEF Anchored, Standing
  <2> QED BY <1>4, <1>8, <2>1, <2>2 DEF Standing
<1>11. Running(lineage, db', eng', b, h)
  <2>1. h = eng.cur - 1 /\ eng.cur <= eng.end + 1 /\ (eng.cur > eng.end => eng.follow)
    BY <1>0, <1>3, <1>6
  <2>2. h \in Common(db'.trees)
    BY <1>1, <1>3, <1>7, <1>8
  <2> QED BY <1>0, <1>8, <1>9, <2>1, <2>2 DEF Running
<1> QED BY <1>0, <1>8, <1>10, <1>11, RunGood DEF Between

LEMMA GoodInitSeed ==
  ASSUME CursorInv, LineageOK(lineage), ~Excused, NEW b, NEW h, Good(lineage, tip, db, eng, b, h), InitSeed
  PROVE  SomeGood(lineage', tip', db', eng')
<1> USE Heights1
<1>0. /\ eng.pc = "init" /\ lineage' = lineage /\ tip' = tip /\ eng.prev = NoBlock /\ tip \in Nat /\ tip <= Top
      /\ DOMAIN db = {"local", "rows", "trees"} /\ DOMAIN eng = EngineFields
      /\ eng.end \in Nat /\ eng.start \in Nat /\ eng.start >= 1 /\ eng.cur = eng.start
      /\ db.local <= eng.start - 1
  BY Basics DEF InitSeed, chainVars, CursorInv, CoherenceInv, Linked, Resting, Order
<1> DEFINE x == eng.start - 1
           seed(p) == AddCheckpoint([EmptyTree EXCEPT !.leaves = LeavesTo(p, Branch, x)], x)
           trees == [p \in Pools |-> Retain(seed(p), x)]
           pos == RecoverPositions(trees)
<1>1. db' = [db EXCEPT !.trees = trees] /\ x <= tip
  BY DEF InitSeed
<1>2. eng' = [eng EXCEPT !.pc = "outer", !.pos = pos]
  BY DEF InitSeed, Loaded
<1>3. x \in Nat /\ x + 1 = eng.start /\ x <= Top
  BY <1>0, <1>1
<1>4. ASSUME NEW p \in Pools
      PROVE  /\ SoundTree(p, trees[p]) /\ x \in Checkpoints(trees[p])
             /\ Holds(p, lineage, trees[p], Len(lineage), x)
  <2>1. LeavesTo(p, Branch, x) = Leaves(p, lineage, Len(lineage), x)
    BY <1>3, LeavesToIs, x \in Int DEF Branch
  <2>2. trees[p] = Retain(seed(p), x)
    OBVIOUS
  <2>3. seed(p) = SeedTree(p, lineage, Len(lineage), x)
    BY <2>1 DEF SeedTree
  <2> HIDE DEF seed, trees, x
  <2>4. Holds(p, lineage, seed(p), Len(lineage), x) /\ x \in Checkpoints(seed(p)) /\ SoundTree(p, seed(p))
    BY <1>3, <2>3, SeedHolds
  <2> QED BY <2>2, <2>4, RetainSound, RetainHolds
<1> HIDE DEF trees, pos, x, seed
<1>5. /\ db'.trees = trees /\ db'.local = db.local /\ db'.rows = db.rows /\ eng'.pc = "outer"
      /\ eng'.cur = eng.cur /\ eng'.pos = pos /\ eng'.prev = eng.prev /\ eng'.end = eng.end
      /\ eng'.follow = eng.follow
  BY <1>0, <1>1, <1>2 DEF EngineFields
<1>6. AllSound(trees) /\ HeldAt(lineage, trees, Len(lineage), x) /\ x \in Common(trees)
  BY <1>3, <1>4 DEF AllSound, HeldAt, Common
<1>7. Standing(lineage, tip, db', {}, Len(lineage), x)
  <2>1. RowsReal(lineage, db.rows)
    BY DEF Good, Standing
  <2>2. db.local <= x
    BY <1>0 DEF x
  <2> QED BY <1>1, <1>3, <1>5, <1>6, <2>1, <2>2, FreshStands
<1>8. eng'.pos = RecoverPositions(db'.trees) /\ eng'.cur = x + 1
      /\ (eng'.cur <= eng'.end \/ (eng'.cur = eng'.end + 1 /\ eng'.follow))
  <2>1. eng.start <= eng.end + 1 /\ (~eng.follow => eng.start <= eng.end)
    BY <1>0 DEF Good, AtRest
  <2> QED BY <1>0, <1>3, <1>5, <2>1 DEF pos
<1> QED BY <1>0, <1>3, <1>5, <1>6, <1>7, <1>8, LoadedGood

LEMMA GoodInitReplay ==
  ASSUME CursorInv, ~Excused, NEW b, NEW h, Good(lineage, tip, db, eng, b, h), InitReplay
  PROVE  SomeGood(lineage', tip', db', eng')
<1> USE Heights1
<1>0. /\ eng.pc = "init" /\ lineage' = lineage /\ tip' = tip /\ eng.prev = NoBlock /\ tip \in Nat
      /\ DOMAIN db = {"local", "rows", "trees"} /\ DOMAIN eng = EngineFields /\ AllSound(db.trees)
      /\ DOMAIN db.rows \subseteq 1..Top /\ db.local \in Nat
      /\ eng.end \in Nat /\ eng.start \in Nat /\ eng.start >= 1
  BY Basics DEF InitReplay, chainVars, CursorInv, CoherenceInv, Linked, Resting, Order
<1> DEFINE c == PartialReplay(db, eng.start - 1)
           trees == [p \in Pools |-> TruncateTree(db.trees[p], c)]
           pos == RecoverPositions(trees)
           goal == eng.start - 1
<1>1. db' = [db EXCEPT !.trees = trees, !.local = c] /\ c >= Activation - 1
  BY DEF InitReplay
<1>2. eng' = [[eng EXCEPT !.cur = c + 1, !.last = c, !.prog = c, !.target = goal]
                EXCEPT !.pc = "outer", !.pos = pos]
  BY DEF InitReplay, Loaded
<1>3. c \in Nat /\ c = NewestCommon(db.trees, db.local) /\ c <= db.local /\ db.local < eng.start - 1
  <2>1. c = -1 \/ (c = NewestCommon(db.trees, db.local) /\ ~(db.local >= eng.start - 1))
    BY DEF PartialReplay
  <2>2. NewestCommon(db.trees, db.local) \in Int /\ NewestCommon(db.trees, db.local) <= db.local
    BY <1>0, CommonBounded, db.local \in Int
  <2> HIDE DEF c
  <2> QED BY <1>0, <1>1, <2>1, <2>2
<1>4. c \in Common(db.trees)
  <2> HIDE DEF c
  <2> QED BY <1>0, <1>3, CommonMember, db.local \in Int
<1>5. /\ Standing(lineage, tip, db, {}, b, h) /\ HeldAt(lineage, db.trees, b, h) /\ h \in Nat /\ h <= tip
      /\ db.local <= h /\ b \in 1..Len(lineage) /\ RowsReal(lineage, db.rows)
      /\ RowsVouch(lineage, db.rows, b, h) /\ Anchored(lineage, db, {}, b)
  BY <1>0, NoFlight DEF MidBatchPcs, Standing
<1>6. ASSUME NEW p \in Pools
      PROVE  /\ SoundTree(p, trees[p]) /\ Holds(p, lineage, trees[p], b, c)
             /\ c \in Checkpoints(trees[p]) /\ Checkpoints(trees[p]) \in SUBSET Checkpoints(db.trees[p])
  <2>1. SoundTree(p, db.trees[p]) /\ Holds(p, lineage, db.trees[p], b, h) /\ c \in Checkpoints(db.trees[p])
    BY <1>0, <1>4, <1>5 DEF AllSound, HeldAt, Common
  <2>2. trees[p] = TruncateTree(db.trees[p], c)
    OBVIOUS
  <2> HIDE DEF trees, c
  <2>3. Holds(p, lineage, trees[p], b, c) /\ Checkpoints(trees[p]) = {j \in Checkpoints(db.trees[p]) : j <= c}
    BY <1>5, <2>1, <2>2, TruncateHolds, h \in Int
  <2>4. SoundTree(p, trees[p]) /\ c \in Checkpoints(trees[p])
    BY <2>1, <2>2, TruncateSound
  <2> QED BY <2>3, <2>4
<1> HIDE DEF trees, pos, c, goal
<1>7. /\ db'.trees = trees /\ db'.local = c /\ db'.rows = db.rows /\ eng'.pc = "outer"
      /\ eng'.cur = c + 1 /\ eng'.pos = pos /\ eng'.prev = eng.prev /\ eng'.end = eng.end
  BY <1>0, <1>1, <1>2 DEF EngineFields
<1>8. AllSound(trees) /\ HeldAt(lineage, trees, b, c) /\ c \in Common(trees)
      /\ Common(trees) \in SUBSET Common(db.trees)
  <2>1. c \in 0..Top
    BY <1>4 DEF Common
  <2> QED BY <1>6, <2>1 DEF AllSound, HeldAt, Common
<1>9. Standing(lineage, tip, db', {}, b, c)
  <2>1. c <= h /\ c <= tip
    BY <1>0, <1>3, <1>5
  <2>2. RowsVouch(lineage, db.rows, b, c)
    <3> SUFFICES ASSUME NEW k \in DOMAIN db.rows, k <= c, db.rows[k] = Row(lineage, Len(lineage), k)
                 PROVE  Agree(lineage, b, Len(lineage), k)
      BY DEF RowsVouch
    <3>1. k <= h
      BY <1>0, <1>3, <1>5, <2>1
    <3> QED BY <1>5, <3>1 DEF RowsVouch
  <2>3. Anchored(lineage, db', {}, b)
    BY <1>5, <1>7, <1>8 DEF Anchored
  <2>4. db'.local <= c
    BY <1>3, <1>7
  <2> QED BY <1>3, <1>5, <1>7, <1>8, <2>1, <2>2, <2>3, <2>4 DEF Standing
<1>10. eng'.pos = RecoverPositions(db'.trees) /\ eng'.cur <= eng'.end
  <2>1. eng.start <= eng.end + 1
    BY <1>0 DEF Good, AtRest
  <2> QED BY <1>0, <1>3, <1>7, <2>1 DEF pos
<1> QED BY <1>0, <1>3, <1>7, <1>8, <1>9, <1>10, LoadedGood

LEMMA GoodRepair ==
  ASSUME CursorInv, ~Excused, NEW b, NEW h, Good(lineage, tip, db, eng, b, h), Repair
  PROVE  SomeGood(lineage', tip', db', eng')
<1> USE Heights1
<1>0. /\ eng.pc = "outer" /\ lineage' = lineage /\ tip' = tip /\ tip \in Nat
      /\ DOMAIN eng = EngineFields /\ AllSound(db.trees) /\ DOMAIN db.rows \subseteq 1..Top
      /\ eng.end \in Nat /\ eng.prog \in Nat
  BY Basics DEF Repair, chainVars
<1>1. PICK from \in Birthday..eng.prog :
        /\ Rollback(from - 1)
        /\ LET back == ReplayHeight(db, from - 1)
           IN eng' = [eng EXCEPT !.pc = "main", !.cur = back + 1, !.prog = back,
                        !.end = Max({@, from, back + 1}), !.last = back,
                        !.prev = NoBlock, !.pos = RecoverPositions(db'.trees)]
  BY DEF Repair
<1> DEFINE x == from - 1
           back == ReplayHeight(db, x)
           S == {eng.end, from, back + 1}
           end == Max(S)
           pos == RecoverPositions(db'.trees)
           block == NoBlock
<1>2. eng' = [eng EXCEPT !.pc = "main", !.cur = back + 1, !.prog = back, !.end = end, !.last = back,
                         !.prev = block, !.pos = pos]
  BY <1>1
<1>3. db' = TruncateAbove(db, x) /\ x \in Nat /\ from \in Nat
  <2>1. x \in Nat /\ from \in Nat
    BY <1>0
  <2> QED BY <1>1, <2>1 DEF Rollback
<1>4. Standing(lineage, tip, db, {}, b, h)
  BY <1>0, NoFlight DEF MidBatchPcs
<1>5. /\ Standing(lineage, tip, db', {}, b, back) /\ back \in Nat /\ PosAt(pos, back)
      /\ back \in Common(db'.trees) \/ back = 0
  <2> HIDE DEF end, block, x
  <2> QED BY <1>0, <1>3, <1>4, RewindStands
<1> HIDE DEF back, pos, block
<1>6. end \in Nat /\ back + 1 <= end
  <2>1. S \in SUBSET Nat /\ S # {} /\ back + 1 \in S /\ \A y \in S : y <= eng.end + from + back + 1
    BY <1>0, <1>3, <1>5
  <2>2. eng.end + from + back + 1 \in Nat
    BY <1>0, <1>3, <1>5
  <2>3. Max(S) \in S /\ \A y \in S : Max(S) >= y
    <3> HIDE DEF S
    <3> QED BY <2>1, <2>2, MaxIsMember
  <2> HIDE DEF S
  <2> QED BY <2>1, <2>3
<1> HIDE DEF end
<1>7. eng'.pc = "main" /\ eng'.cur = back + 1 /\ eng'.end = end /\ eng'.pos = pos /\ eng'.prev = block
  BY <1>0, <1>2 DEF EngineFields
<1>8. Running(lineage, db', eng', b, back)
  <2>1. back = eng'.cur - 1 /\ eng'.cur <= eng'.end + 1 /\ ~(eng'.cur > eng'.end)
    BY <1>5, <1>6, <1>7
  <2> QED BY <1>5, <1>7, <2>1 DEF Running, block
<1> QED BY <1>0, <1>5, <1>7, <1>8, RunGood DEF Between

LEMMA GoodNoRepair ==
  ASSUME CursorInv, ~Excused, NEW b, NEW h, Good(lineage, tip, db, eng, b, h), NoRepair
  PROVE  SomeGood(lineage', tip', db', eng')
<1>0. /\ eng.pc = "outer" /\ lineage' = lineage /\ tip' = tip /\ db' = db
      /\ eng' = [eng EXCEPT !.pc = "main"] /\ DOMAIN eng = EngineFields
  BY Basics DEF NoRepair, chainVars
<1>1. /\ eng'.pc = "main" /\ eng'.cur = eng.cur /\ eng'.end = eng.end /\ eng'.pos = eng.pos
      /\ eng'.prev = eng.prev /\ eng'.follow = eng.follow
  BY <1>0 DEF EngineFields
<1>2. Standing(lineage, tip, db, {}, b, h)
  BY <1>0, NoFlight DEF MidBatchPcs
<1>3. Running(lineage, db, eng', b, h)
  BY <1>0, <1>1 DEF Good, Running, RunPcs
<1> QED BY <1>0, <1>1, <1>2, <1>3, RunGood DEF Between

LEMMA GoodReturn ==
  ASSUME CursorInv, ~Excused, NEW b, NEW h, Good(lineage, tip, db, eng, b, h), Return
  PROVE  SomeGood(lineage', tip', db', eng')
<1> USE Heights1
<1>0. /\ eng.pc = "return" /\ lineage' = lineage /\ tip' = tip /\ db' = db /\ eng' = Idle
  BY DEF Return, chainVars
<1>1. Standing(lineage, tip, db, {}, b, h) /\ HeldAt(lineage, db.trees, b, h) /\ h \in Nat
  BY <1>0, NoFlight DEF MidBatchPcs, Standing
<1>2. db.local = h
  BY <1>0 DEF Good, Running, RunPcs
<1> DEFINE c == Max({db.local, Birthday - 1})
<1>3. c = IF h >= Birthday - 1 THEN h ELSE Birthday - 1
  BY <1>1, <1>2, MaxOfTwo, h \in Int, Birthday - 1 \in Int
<1>4. c \in Common(db.trees) => h = c
  <2> HIDE DEF c
  <2>1. c \in Common(db.trees) => c <= h
    BY <1>1, CommonHeld
  <2> QED BY <1>1, <1>3, <2>1
<1>5. AtRest(db, Idle, h)
  BY <1>4, IdleFields DEF AtRest
<1> QED BY <1>0, <1>1, <1>5, RestGood, IdleFields DEF Resting

LEMMA GoodFetch ==
  ASSUME CursorInv, LineageOK(lineage), ~Excused, NEW b, NEW h, Good(lineage, tip, db, eng, b, h), Fetch
  PROVE  SomeGood(lineage', tip', db', eng')
<1> USE Heights1
<1>0. /\ eng.pc = "main" /\ lineage' = lineage /\ tip' = tip /\ db' = db /\ DOMAIN eng = EngineFields
      /\ eng.cur \in Nat /\ eng.cur >= 1 /\ eng.end \in Nat /\ tip \in Nat /\ tip <= Top /\ eng.cur <= eng.end
      /\ eng.target \in Nat
  BY Basics DEF Fetch, chainVars, CursorInv, CoherenceInv, SyncTypes
<1> DEFINE last == IF eng.target # NoTarget /\ eng.cur <= eng.target
                   THEN Min({eng.target, eng.end}) ELSE eng.end
           lim == Min({last, tip})
           n == Len(lineage)
<1>1. PICK e \in eng.cur..lim :
        eng' = [eng EXCEPT !.pc = "batch", !.batch = [i \in 1..(e - eng.cur + 1) |-> Block(eng.cur + i - 1)]]
  BY DEF Fetch
<1>2. last \in Int /\ last <= eng.end
  <2>1. Min({eng.target, eng.end}) = IF eng.target <= eng.end THEN eng.target ELSE eng.end
    BY <1>0, MinOfTwo, eng.target \in Int, eng.end \in Int
  <2> QED BY <1>0, <2>1
<1>3. lim = IF last <= tip THEN last ELSE tip
  <2> HIDE DEF last
  <2> QED BY <1>0, <1>2, MinOfTwo, tip \in Int
<1>4. e \in Nat /\ eng.cur <= e /\ e <= eng.end /\ e <= tip
  <2> HIDE DEF last, lim
  <2> QED BY <1>0, <1>2, <1>3
<1> DEFINE batch == [i \in 1..(e - eng.cur + 1) |-> Block(eng.cur + i - 1)]
<1>5. DOMAIN batch = 1..(e - eng.cur + 1) /\ \A i \in 1..(e - eng.cur + 1) : batch[i] = Block(eng.cur + i - 1)
  OBVIOUS
<1> HIDE DEF batch, last, lim
<1>6. Len(batch) = e - eng.cur + 1
  BY <1>0, <1>4, <1>5
<1>7. eng' = [eng EXCEPT !.pc = "batch", !.batch = batch]
  BY <1>1 DEF batch
<1>8. /\ eng'.pc = "batch" /\ eng'.cur = eng.cur /\ eng'.end = eng.end /\ eng'.pos = eng.pos
      /\ eng'.prev = eng.prev /\ eng'.follow = eng.follow /\ eng'.batch = batch
  BY <1>0, <1>7 DEF EngineFields
<1>9. FetchedOn(lineage, batch, eng.cur, n)
  BY <1>5, <1>6, AncestorIn DEF FetchedOn, Block, Row, Branch
<1>10. Final(batch) = e
  <2>1. Len(batch) \in 1..Len(batch) /\ eng.cur + Len(batch) - 1 = e
    BY <1>0, <1>4, <1>6
  <2>2. batch[Len(batch)] = Row(lineage, n, e)
    BY <1>9, <2>1 DEF FetchedOn
  <2> QED BY <2>2 DEF Final, Row
<1>11. /\ Standing(lineage, tip, db, {}, b, h) /\ HeldAt(lineage, db.trees, b, h) /\ h \in Nat
       /\ RowsVouch(lineage, db.rows, b, h) /\ Anchored(lineage, db, {}, b)
  BY <1>0, NoFlight DEF MidBatchPcs, Standing
<1>12. n \in 1..n
  BY DEF LineageOK
<1>13. ASSUME eng.prev = NoBlock, h \in DOMAIN db.rows => db.rows[h] = Row(lineage, n, h)
       PROVE  Agree(lineage, b, n, h)
  <2>1. h \in Common(db.trees) \/ h = 0
    BY <1>0, <1>13 DEF Good, Running, RunPcs
  <2>2. CASE h = 0
    BY <2>2, AgreeAtStart, 0 \in Int
  <2>3. CASE h \in Common(db.trees) /\ h \notin DOMAIN db.rows
    BY <1>11, <2>3 DEF Anchored
  <2>4. CASE h \in DOMAIN db.rows
    BY <1>11, <1>13, <2>4 DEF RowsVouch
  <2> QED BY <2>1, <2>2, <2>3, <2>4
<1>14. OnBatch(lineage, tip, db, eng', b, h, n)
  BY <1>4, <1>8, <1>9, <1>10, <1>12, <1>13, AgreeSelf DEF OnBatch
<1>15. Running(lineage, db, eng', b, h)
  BY <1>0, <1>8 DEF Good, Running, RunPcs
<1>16. Flight(eng') = {} /\ AtRest(db, eng', h)
  BY <1>8 DEF Flight, MidBatchPcs, AtRest
<1>17. Good(lineage, tip, db, eng', b, h)
  BY <1>11, <1>14, <1>15, <1>16 DEF Good, Batching
<1> QED BY <1>0, <1>17 DEF SomeGood

\* The run goes on at height a + 1, and a is the height the trees went back to.
LEMMA GoodBoundary ==
  ASSUME CursorInv, ~Excused, NEW b, NEW h, Good(lineage, tip, db, eng, b, h), BoundaryReorg, ~Excused'
  PROVE  SomeGood(lineage', tip', db', eng')
<1> USE Heights1
<1>0. /\ eng.pc = "batch" /\ lineage' = lineage /\ tip' = tip /\ tip \in Nat
      /\ DOMAIN eng = EngineFields /\ AllSound(db.trees) /\ DOMAIN db.rows \subseteq 1..Top
      /\ eng.end \in Nat /\ eng.end >= Birthday /\ eng.cur \in Nat /\ eng.cur >= 1 /\ eng.cur <= eng.end
  <2>1. eng.pc = "batch" /\ lineage' = lineage /\ tip' = tip
    BY DEF BoundaryReorg, chainVars
  <2>2. eng.cur <= eng.end
    BY <2>1, BatchFacts DEF InBatch
  <2> QED BY <2>1, <2>2, Basics
<1> DEFINE a == AncestorOrFloor(db.rows, eng.cur - 1)
           pos == RecoverPositions(db'.trees)
           nothing == <<>>
           block == NoBlock
           r == ReplayHeight(db, a)
<1>1. eng' = [eng EXCEPT !.pc = "main", !.cur = a + 1, !.last = a, !.batch = nothing,
                         !.prev = block, !.pos = pos]
      /\ db' = TruncateAbove(db, a) /\ deep' = (deep \/ r < a)
  BY DEF BoundaryReorg, Rollback
<1>2. a \in Nat /\ a <= Max({eng.cur - 1, Birthday - 1})
  BY <1>0, AncestorBounded, eng.cur - 1 \in Int DEF RowHeights
<1>3. Max({eng.cur - 1, Birthday - 1}) = IF eng.cur - 1 >= Birthday - 1 THEN eng.cur - 1 ELSE Birthday - 1
  BY <1>0, MaxOfTwo, eng.cur - 1 \in Int, Birthday - 1 \in Int
<1>4. a + 1 <= eng.end
  <2> HIDE DEF a
  <2> QED BY <1>0, <1>2, <1>3
<1> HIDE DEF a, nothing, block
<1>5. Standing(lineage, tip, db, {}, b, h)
  BY <1>0, NoFlight DEF MidBatchPcs
<1>6. /\ Standing(lineage, tip, db', {}, b, r) /\ r \in Nat /\ r <= a /\ PosAt(pos, r)
      /\ r \in Common(db'.trees) \/ r = 0
  BY <1>0, <1>1, <1>2, <1>5, RewindStands
<1>7. r = a
  <2> HIDE DEF r
  <2>1. ~(r < a)
    BY <1>1 DEF Excused
  <2> QED BY <1>2, <1>6, <2>1
<1> HIDE DEF r, pos
<1>8. eng'.pc = "main" /\ eng'.cur = a + 1 /\ eng'.end = eng.end /\ eng'.pos = pos /\ eng'.prev = block
  BY <1>0, <1>1 DEF EngineFields
<1>9. Running(lineage, db', eng', b, r)
  <2>1. r = eng'.cur - 1 /\ eng'.cur <= eng'.end + 1 /\ ~(eng'.cur > eng'.end)
    BY <1>0, <1>2, <1>4, <1>7, <1>8
  <2> QED BY <1>6, <1>8, <2>1 DEF Running, block
<1> QED BY <1>0, <1>6, <1>8, <1>9, RunGood DEF Between

LEMMA GoodMonitor ==
  ASSUME CursorInv, ~Excused, NEW b, NEW h, Good(lineage, tip, db, eng, b, h), Monitor, ~Excused'
  PROVE  SomeGood(lineage', tip', db', eng')
<1> USE Heights1
<1>0. /\ eng.pc = "monitor" /\ lineage' = lineage /\ tip' = tip /\ tip \in Nat
      /\ DOMAIN eng = EngineFields /\ AllSound(db.trees) /\ DOMAIN db.rows \subseteq 1..Top
      /\ eng.cur \in Nat /\ eng.cur >= 1 /\ eng.prog \in Nat /\ eng.prog = eng.cur - 1
      /\ (eng.prev # NoBlock => eng.prev[1] = eng.prog)
  BY Basics DEF Monitor, chainVars, CursorInv, CoherenceInv, Linked, Order
<1> DEFINE v == ValidateResume(db.rows, eng.prog + 1, tip, TRUE)
           pos == RecoverPositions(db'.trees)
<1>1. /\ v[1] \in Nat /\ v[2] \in Int
      /\ \/ v[1] = eng.prog + 1 /\ v[2] = -1
         \/ v[1] = v[2] + 1 /\ v[2] >= 0
  <2>1. eng.prog + 1 \in Nat /\ eng.prog + 1 >= 1
    BY <1>0
  <2> QED BY <1>0, <2>1, ResumeBounded DEF RowHeights
<1>2. Standing(lineage, tip, db, {}, b, h) /\ Running(lineage, db, eng, b, h)
  BY <1>0, NoFlight DEF MidBatchPcs, Good
<1>3. CASE v[1] <= eng.prog
  <2> DEFINE end == Max({tip, v[1]})
             x == v[2]
             r == ReplayHeight(db, x)
  <2>1. db' = TruncateAbove(db, x) /\ deep' = (deep \/ r < x)
        /\ eng' = [eng EXCEPT !.pc = "outer", !.cur = v[1], !.last = v[1] - 1, !.end = end, !.pos = pos]
    BY <1>3 DEF Monitor
  <2> HIDE DEF v
  <2>2. x \in Nat /\ v[1] - 1 = x /\ x < eng.prog
    BY <1>0, <1>1, <1>3
  <2>3. end = IF tip >= v[1] THEN tip ELSE v[1]
    BY <1>0, <1>1, MaxOfTwo, tip \in Int, v[1] \in Int
  <2>4. end \in Nat /\ v[1] <= end
    BY <1>0, <1>1, <2>3
  <2> HIDE DEF x, end
  <2>5. /\ Standing(lineage, tip, db', {}, b, r) /\ r \in Nat /\ r <= x /\ PosAt(pos, r)
        /\ r \in Common(db'.trees) \/ r = 0
    <3>1. db' = TruncateAbove(db, x) /\ x \in Nat /\ Standing(lineage, tip, db, {}, b, h)
      BY <1>2, <2>1, <2>2
    <3> QED BY <1>0, <3>1, RewindStands
  <2>6. r = x
    <3> HIDE DEF r
    <3>1. ~(r < x)
      BY <2>1 DEF Excused
    <3> QED BY <2>2, <2>5, <3>1
  <2> HIDE DEF r, pos
  <2>7. /\ eng'.pc = "outer" /\ eng'.cur = v[1] /\ eng'.end = end /\ eng'.pos = pos /\ eng'.prev = eng.prev
    BY <1>0, <2>1 DEF EngineFields
  <2>8. eng'.prev # NoBlock => eng'.prev[1] # r
    BY <1>0, <2>2, <2>6, <2>7
  <2>9. Running(lineage, db', eng', b, r)
    <3>1. r = eng'.cur - 1 /\ eng'.cur <= eng'.end + 1 /\ ~(eng'.cur > eng'.end)
      BY <1>1, <2>2, <2>4, <2>6, <2>7
    <3> QED BY <2>5, <2>7, <2>8, <3>1 DEF Running
  <2> QED BY <1>0, <2>5, <2>7, <2>9, RunGood DEF Between
<1>4. CASE ~(v[1] <= eng.prog)
  <2>1. db' = db /\ tip > eng.prog
        /\ eng' = [eng EXCEPT !.pc = "outer", !.cur = eng.prog + 1, !.end = tip]
    BY <1>4 DEF Monitor
  <2> HIDE DEF v
  <2>2. /\ eng'.pc = "outer" /\ eng'.cur = eng.cur /\ eng'.end = tip /\ eng'.pos = eng.pos
        /\ eng'.prev = eng.prev
    BY <1>0, <2>1 DEF EngineFields
  <2>3. Running(lineage, db, eng', b, h)
    <3>1. eng'.cur <= eng'.end + 1 /\ ~(eng'.cur > eng'.end)
      BY <1>0, <2>1, <2>2
    <3> QED BY <1>0, <1>2, <2>2, <3>1 DEF Running, RunPcs
  <2> QED BY <1>0, <1>2, <2>1, <2>2, <2>3, RunGood DEF Between
<1> QED BY <1>3, <1>4

\* checkpoint_tip at the height the trees stand at.
LEMMA CheckpointHolds ==
  ASSUME SyncTypes, AllSound(db.trees), WorkerTrees = db.trees, NEW L, NEW b, NEW h \in Nat,
         HeldAt(L, db.trees, b, h), NEW retain, WorkerCheckpoint(h, retain)
  PROVE  /\ db'.local = db.local /\ db'.rows = db.rows
         /\ HeldAt(L, db'.trees, b, h)
         /\ Common(db'.trees) \in SUBSET (Common(db.trees) \cup {h})
         /\ h \in Common(db.trees) => h \in Common(db'.trees)
<1> DEFINE trees == [p \in Pools |->
                    LET t == AddCheckpoint(WorkerTrees[p], h) IN IF retain THEN Retain(t, h) ELSE t]
<1>1. db' = [db EXCEPT !.trees = trees]
  BY DEF WorkerCheckpoint
<1>2. \A p \in Pools : \/ trees[p] = Retain(AddCheckpoint(db.trees[p], h), h)
                       \/ trees[p] = AddCheckpoint(db.trees[p], h)
  OBVIOUS
<1> HIDE DEF trees
<1>3. db'.trees = trees /\ db'.local = db.local /\ db'.rows = db.rows
  BY <1>1 DEF SyncTypes
<1>4. ASSUME NEW p \in Pools
      PROVE  /\ Holds(p, L, trees[p], b, h)
             /\ Checkpoints(trees[p]) \in SUBSET (Checkpoints(db.trees[p]) \cup {h})
             /\ h \in Checkpoints(db.trees[p]) => h \in Checkpoints(trees[p])
  <2> DEFINE t == AddCheckpoint(db.trees[p], h)
  <2>0. SoundTree(p, db.trees[p]) /\ Holds(p, L, db.trees[p], b, h)
    BY DEF AllSound, HeldAt
  <2>1. Len(db.trees[p].leaves) >= Count(p, h)
    <3>1. Len(db.trees[p].leaves) = Count(p, h) /\ Count(p, h) \in Nat
      BY <2>0, LeavesLaw, h \in Int DEF Holds
    <3> QED BY <3>1
  <2>2. SoundTree(p, t)
    BY <2>0, <2>1, AddSound
  <2>3. Holds(p, L, t, b, h) /\ Checkpoints(t) \in SUBSET (Checkpoints(db.trees[p]) \cup {h})
    BY <2>0, AddHolds
  <2>4. h \in Checkpoints(db.trees[p]) => t = db.trees[p]
    BY DEF AddCheckpoint
  <2>5. trees[p] = Retain(t, h) \/ trees[p] = t
    BY <1>2
  <2> HIDE DEF t
  <2>6. Holds(p, L, trees[p], b, h) /\ Checkpoints(trees[p]) = Checkpoints(t)
    BY <2>2, <2>3, <2>5, RetainHolds
  <2> QED BY <2>3, <2>4, <2>6
<1>5. HeldAt(L, trees, b, h)
  BY <1>4 DEF HeldAt
<1>6. Common(trees) \in SUBSET (Common(db.trees) \cup {h})
  <2> SUFFICES ASSUME NEW k \in Common(trees), k # h PROVE k \in Common(db.trees)
    OBVIOUS
  <2> QED BY <1>4 DEF Common
<1>7. h \in Common(db.trees) => h \in Common(trees)
  BY <1>4 DEF Common
<1> QED BY <1>3, <1>5, <1>6, <1>7

LEMMA GoodFinish ==
  ASSUME CursorInv, ~Excused, NEW b, NEW h, Good(lineage, tip, db, eng, b, h), Finish
  PROVE  SomeGood(lineage', tip', db', eng')
<1> USE Heights1
<1>0. /\ SyncTypes /\ eng.pc = "main" /\ lineage' = lineage /\ tip' = tip /\ eng.cur > eng.end
      /\ DOMAIN eng = EngineFields /\ AllSound(db.trees) /\ eng.cur \in Nat /\ eng.end \in Nat /\ eng.prog \in Nat
  BY Basics DEF Finish, chainVars, CursorInv, CoherenceInv
<1>1. eng.prog = eng.cur - 1 /\ WorkerTrees = db.trees
  <2>1. eng.prog = eng.cur - 1
    BY <1>0 DEF CursorInv, Order
  <2> QED BY <1>0, <2>1, WorkerHasTrees DEF CursorInv
<1>2. Standing(lineage, tip, db, {}, b, h) /\ Running(lineage, db, eng, b, h)
  BY <1>0, NoFlight DEF MidBatchPcs, Good
<1>3. /\ h = eng.cur - 1 /\ eng.cur <= eng.end + 1 /\ h \in Nat
      /\ HeldAt(lineage, db.trees, b, h) /\ Anchored(lineage, db, {}, b)
      /\ eng.prev # NoBlock => h \in DOMAIN db.rows
      /\ eng.prev = NoBlock => h \in Common(db.trees) \/ h = 0
      /\ ~eng.follow => db.local = h
  BY <1>0, <1>2 DEF Running, RunPcs, Standing
<1> DEFINE x == IF eng.follow THEN eng.prog ELSE eng.end
           last == Max({eng.last, x})
           pc == IF eng.follow THEN "monitor" ELSE "return"
<1>4. x = h
  BY <1>0, <1>1, <1>3
<1>5. eng' = [eng EXCEPT !.pc = pc, !.last = last]
  BY DEF Finish
<1>6. WorkerCheckpoint(x, FALSE) \/ db' = db
  BY DEF Finish
<1>7. pc \in {"monitor", "return"} /\ (pc = "return" => db.local = h)
  BY <1>3
<1> HIDE DEF x, last, pc
<1>8. eng'.pc = pc /\ eng'.cur = eng.cur /\ eng'.end = eng.end /\ eng'.pos = eng.pos /\ eng'.prev = eng.prev
  BY <1>0, <1>5 DEF EngineFields
<1>9. /\ db'.local = db.local /\ db'.rows = db.rows /\ HeldAt(lineage, db'.trees, b, h)
      /\ Common(db'.trees) \in SUBSET (Common(db.trees) \cup {h})
      /\ h \in Common(db.trees) => h \in Common(db'.trees)
  <2>1. CASE db' = db
    BY <1>3, <2>1
  <2>2. CASE WorkerCheckpoint(h, FALSE)
    BY <1>0, <1>1, <1>3, <2>2, CheckpointHolds
  <2> QED BY <1>4, <1>6, <2>1, <2>2
<1>10. Anchored(lineage, db', {}, b)
  <2> SUFFICES ASSUME NEW k \in Common(db'.trees), k \notin DOMAIN db.rows
               PROVE  Agree(lineage, b, Len(lineage), k)
    BY <1>9 DEF Anchored
  <2>1. k \in Common(db.trees) \/ k = 0
    BY <1>3, <1>9
  <2> QED BY <1>3, <2>1, AgreeAtStart, 0 \in Int DEF Anchored
<1>11. Standing(lineage, tip, db', {}, b, h)
  BY <1>2, <1>9, <1>10 DEF Standing
<1>12. Running(lineage, db', eng', b, h)
  BY <1>0, <1>2, <1>3, <1>7, <1>8, <1>9 DEF Running, RunPcs
<1> QED BY <1>0, <1>7, <1>8, <1>11, <1>12, RunGood DEF Between

-----------------------------------------------------------------------------
(* Inside a batch.                                                         *)

LEMMA MidGood ==
  ASSUME NEW L, NEW t, NEW d, NEW e, NEW b, NEW h, e.pc \in MidBatchPcs,
         Standing(L, t, d, Heights(e.batch), b, h), OnBatch(L, t, d, e, b, h, b)
  PROVE  SomeGood(L, t, d, e)
<1>1. Flight(e) = Heights(e.batch) /\ e.pc \notin RunPcs /\ e.pc \notin {"idle", "validate", "init"}
  BY DEF Flight, MidBatchPcs, RunPcs
<1>2. Good(L, t, d, e, b, h)
  BY <1>1 DEF Good, AtRest, Running, Batching
<1> QED BY <1>2 DEF SomeGood

LEMMA MidFacts ==
  ASSUME NEW L, NEW t, NEW d, NEW e, NEW b, NEW h, Good(L, t, d, e, b, h), e.pc \in MidBatchPcs
  PROVE  /\ Standing(L, t, d, Heights(e.batch), b, h) /\ OnBatch(L, t, d, e, b, h, b)
         /\ h = Final(e.batch)
<1>1. Flight(e) = Heights(e.batch) /\ e.pc # "batch" /\ e.pc \in InBatch
  BY DEF Flight, MidBatchPcs, InBatch
<1>2. PICK c : OnBatch(L, t, d, e, b, h, c)
  BY <1>1 DEF Good, Batching
<1>3. b = c /\ h = Final(e.batch)
  BY <1>1, <1>2 DEF OnBatch
<1> QED BY <1>1, <1>2, <1>3 DEF Good

LEMMA GoodNotes ==
  ASSUME CursorInv, ~Excused, NEW b, NEW h, Good(lineage, tip, db, eng, b, h), PersistNotes
  PROVE  SomeGood(lineage', tip', db', eng')
<1> USE Heights1
<1>0. /\ DOMAIN eng = EngineFields /\ DOMAIN db = {"local", "rows", "trees"} /\ eng.pc = "notes"
      /\ eng.cur \in Nat /\ eng.cur >= 1 /\ Fetched(eng.batch, eng.cur)
      /\ lineage' = lineage /\ tip' = tip
  BY DEF PersistNotes, CursorInv, CoherenceInv, SyncTypes, BatchAtCur, InBatch, chainVars
<1> DEFINE e == Final(eng.batch)
           S == NotesIn(eng.batch)
           local == IF S = {} THEN db.local ELSE Max(S)
<1>1. db' = [db EXCEPT !.local = local] /\ eng' = [eng EXCEPT !.pc = "ckpt"]
  BY DEF PersistNotes
<1>2. local = db.local \/ local <= e
  <2>1. CASE S = {}
    BY <2>1
  <2>2. CASE S # {}
    <3>1. First(eng.batch) = eng.cur /\ e \in Nat
      BY <1>0, BatchEnds
    <3>2. S \in SUBSET (eng.cur..e)
      BY <3>1 DEF NotesIn, Heights
    <3> HIDE DEF S, e
    <3>3. Max(S) \in S
      BY <1>0, <2>2, <3>1, <3>2, MaxOfBounded, eng.cur \in Int, e \in Int
    <3> DEFINE m == Max(S)
    <3>4. m \in S /\ local = m
      BY <2>2, <3>3
    <3> HIDE DEF m, local
    <3> QED BY <1>0, <3>1, <3>2, <3>4
  <2> QED BY <2>1, <2>2
<1> HIDE DEF local
<1>3. db'.trees = db.trees /\ db'.rows = db.rows /\ db'.local = local
  BY <1>0, <1>1
<1>4. /\ eng'.pc = "ckpt" /\ eng'.batch = eng.batch /\ eng'.cur = eng.cur /\ eng'.end = eng.end
      /\ eng'.pos = eng.pos /\ eng'.prev = eng.prev
  BY <1>0, <1>1 DEF EngineFields
<1>5. /\ Standing(lineage, tip, db, Heights(eng.batch), b, h) /\ OnBatch(lineage, tip, db, eng, b, h, b)
      /\ h = e
  BY <1>0, MidFacts DEF MidBatchPcs
<1>6. local <= h
  BY <1>2, <1>5 DEF Standing
<1>7. Standing(lineage, tip, db', Heights(eng.batch), b, h)
  BY <1>3, <1>5, <1>6 DEF Standing, Anchored
<1>8. OnBatch(lineage, tip, db', eng', b, h, b)
  BY <1>0, <1>3, <1>4, <1>5 DEF OnBatch
<1> QED BY <1>0, <1>4, <1>7, <1>8, MidGood DEF MidBatchPcs

LEMMA GoodBatchCheckpoint ==
  ASSUME CursorInv, ~Excused, NEW b, NEW h, Good(lineage, tip, db, eng, b, h), BatchCheckpoint
  PROVE  SomeGood(lineage', tip', db', eng')
<1> USE Heights1
<1>0. /\ SyncTypes /\ DOMAIN eng = EngineFields /\ eng.pc = "ckpt" /\ eng.cur \in Nat /\ eng.cur >= 1
      /\ Fetched(eng.batch, eng.cur) /\ lineage' = lineage /\ tip' = tip
  BY DEF BatchCheckpoint, CursorInv, CoherenceInv, SyncTypes, BatchAtCur, InBatch, chainVars
<1>1. WorkerTrees = db.trees /\ AllSound(db.trees)
  BY <1>0, WorkerHasTrees, Basics DEF CursorInv
<1> DEFINE e == Final(eng.batch)
           due == eng.target # NoTarget /\ e >= eng.target
           goal == IF due THEN NoTarget ELSE eng.target
<1>2. PICK major \in BOOLEAN :
        /\ WorkerCheckpoint(e, major \/ due)
        /\ eng' = [eng EXCEPT !.pc = "save", !.ckpt = TRUE, !.last = e, !.target = goal]
  BY DEF BatchCheckpoint
<1>3. e \in Nat /\ e \in Heights(eng.batch)
  <2>1. First(eng.batch) = eng.cur /\ e \in Nat /\ eng.cur <= e
    BY <1>0, BatchEnds
  <2> QED BY <1>0, <2>1 DEF Heights
<1> HIDE DEF due, goal
<1>4. /\ Standing(lineage, tip, db, Heights(eng.batch), b, h) /\ OnBatch(lineage, tip, db, eng, b, h, b)
      /\ h = e
  BY <1>0, MidFacts DEF MidBatchPcs
<1> HIDE DEF e
<1>5. /\ db'.local = db.local /\ db'.rows = db.rows /\ HeldAt(lineage, db'.trees, b, h)
      /\ Common(db'.trees) \in SUBSET (Common(db.trees) \cup {h})
  <2>1. HeldAt(lineage, db.trees, b, h)
    BY <1>4 DEF Standing
  <2> QED BY <1>0, <1>1, <1>2, <1>3, <1>4, <2>1, CheckpointHolds
<1>6. /\ eng'.pc = "save" /\ eng'.batch = eng.batch /\ eng'.cur = eng.cur /\ eng'.end = eng.end
      /\ eng'.pos = eng.pos /\ eng'.prev = eng.prev
  BY <1>0, <1>2 DEF EngineFields
<1>7. Anchored(lineage, db', Heights(eng.batch), b)
  BY <1>3, <1>4, <1>5 DEF Anchored, Standing
<1>8. Standing(lineage, tip, db', Heights(eng.batch), b, h)
  BY <1>4, <1>5, <1>7 DEF Standing
<1>9. OnBatch(lineage, tip, db', eng', b, h, b)
  BY <1>0, <1>4, <1>5, <1>6 DEF OnBatch
<1> QED BY <1>0, <1>6, <1>8, <1>9, MidGood DEF MidBatchPcs

LEMMA GoodSkipCheckpoint ==
  ASSUME CursorInv, ~Excused, NEW b, NEW h, Good(lineage, tip, db, eng, b, h), SkipCheckpoint
  PROVE  SomeGood(lineage', tip', db', eng')
<1>0. /\ DOMAIN eng = EngineFields /\ eng.pc = "ckpt" /\ lineage' = lineage /\ tip' = tip /\ db' = db
      /\ eng' = [eng EXCEPT !.pc = "save"]
  BY Basics DEF SkipCheckpoint, chainVars
<1>1. /\ eng'.pc = "save" /\ eng'.batch = eng.batch /\ eng'.cur = eng.cur /\ eng'.end = eng.end
      /\ eng'.pos = eng.pos /\ eng'.prev = eng.prev
  BY <1>0 DEF EngineFields
<1>2. /\ Standing(lineage, tip, db, Heights(eng.batch), b, h) /\ OnBatch(lineage, tip, db, eng, b, h, b)
  BY <1>0, MidFacts DEF MidBatchPcs
<1>3. OnBatch(lineage, tip, db, eng', b, h, b)
  BY <1>0, <1>1, <1>2 DEF OnBatch
<1>4. Standing(lineage, tip, db, Heights(eng'.batch), b, h) /\ eng'.pc \in MidBatchPcs
  BY <1>1, <1>2 DEF MidBatchPcs
<1> QED BY <1>0, <1>3, <1>4, MidGood

\* A batch that was not replaced while it was written anchors its checkpoints.
LEMMA NotStranded ==
  ASSUME CursorInv, LineageOK(lineage), ~Excused, NEW b, NEW h, Good(lineage, tip, db, eng, b, h), ~Stranded
  PROVE  Standing(lineage, tip, db, {}, b, h)
<1>1. CASE eng.pc \notin MidBatchPcs
  BY <1>1, NoFlight
<1>2. CASE eng.pc \in MidBatchPcs
  <2> DEFINE n == Len(lineage)
  <2>1. /\ Standing(lineage, tip, db, Heights(eng.batch), b, h) /\ OnBatch(lineage, tip, db, eng, b, h, b)
    BY <1>2, MidFacts
  <2>2. Anchored(lineage, db, Heights(eng.batch), b) /\ b \in 1..n /\ FetchedOn(lineage, eng.batch, eng.cur, b)
    BY <2>1 DEF Standing, OnBatch
  <2>3. Fetched(eng.batch, eng.cur) /\ eng.cur \in Nat /\ eng.cur >= 1
        /\ Heights(eng.batch) = eng.cur..Final(eng.batch) /\ Final(eng.batch) \in Nat
    BY <1>2, BatchFacts DEF MidBatchPcs, InBatch
  <2>4. ASSUME NEW k \in Common(db.trees), k \notin DOMAIN db.rows PROVE Agree(lineage, b, n, k)
    <3>1. CASE k \notin Heights(eng.batch)
      BY <2>2, <2>4, <3>1 DEF Anchored
    <3>2. CASE k \in Heights(eng.batch)
      <4>1. BlockAt(eng.batch, k) = Block(k)
        BY <1>2, <2>4, <3>2 DEF Stranded, InFlight, RowHeights
      <4>2. BlockAt(eng.batch, k) = Row(lineage, b, k)
        BY <2>2, <2>3, <3>2, BlockOfBatch
      <4>3. Block(k) = Row(lineage, n, k)
        BY AncestorIn DEF Block, Row, Branch
      <4>a. Row(lineage, b, k) = Row(lineage, n, k)
        BY <4>1, <4>2, <4>3
      <4>4. AncIn(lineage, b, k) = AncIn(lineage, n, k)
        BY <4>a DEF Row
      <4>5. n \in 1..n
        BY DEF LineageOK
      <4>6. k \in Nat /\ k >= 1
        BY <2>3, <3>2
      <4> QED BY <2>2, <4>4, <4>5, <4>6, SharedBlock
    <3> QED BY <3>1, <3>2
  <2>5. Anchored(lineage, db, {}, b)
    BY <2>4 DEF Anchored
  <2> QED BY <2>1, <2>5 DEF Standing
<1> QED BY <1>1, <1>2

\* The engine's record after a batch.
LEMMA Advanced ==
  ASSUME CursorInv, ~Excused, NEW b, NEW h, Good(lineage, tip, db, eng, b, h), eng.pc = "save",
         eng' = Advance(eng)
  PROVE  /\ eng'.pc = "main" /\ eng'.cur = h + 1 /\ eng'.end = eng.end /\ PosAt(eng'.pos, h)
         /\ eng'.prev # NoBlock /\ eng'.prev[1] = h /\ eng'.prev[2] = AncIn(lineage, b, h)
         /\ h \in Nat /\ h = Final(eng.batch) /\ h <= eng.end /\ eng.end \in Nat /\ eng'.follow = eng.follow
<1>1. /\ OnBatch(lineage, tip, db, eng, b, h, b) /\ h = Final(eng.batch)
  BY MidFacts DEF MidBatchPcs
<1>2. /\ Fetched(eng.batch, eng.cur) /\ eng.cur \in Nat /\ eng.cur >= 1 /\ eng.batch[Len(eng.batch)] # NoBlock
      /\ DOMAIN eng = EngineFields /\ eng.end \in Nat
  BY BatchFacts, Basics DEF InBatch
<1>3. h = eng.cur + Len(eng.batch) - 1 /\ h \in Nat /\ Len(eng.batch) \in 1..Len(eng.batch)
  <2>1. Final(eng.batch) = eng.cur + Len(eng.batch) - 1 /\ Final(eng.batch) \in Nat
    BY <1>2, BatchEnds
  <2> QED BY <1>1, <1>2, <2>1 DEF Fetched
<1> DEFINE block == eng.batch[Len(eng.batch)]
           nothing == <<>>
<1>4. block = Row(lineage, b, h)
  BY <1>1, <1>3 DEF OnBatch, FetchedOn
<1>5. block[1] = h /\ block[2] = AncIn(lineage, b, h)
  BY <1>4 DEF Row
<1>6. eng' = [eng EXCEPT !.pc = "main", !.prev = block, !.batch = nothing, !.cur = h + 1, !.prog = h,
                         !.ckpt = FALSE]
  BY <1>1 DEF Advance
<1>7. block # NoBlock
  BY <1>2
<1> HIDE DEF block, nothing
<1>8. eng'.pc = "main" /\ eng'.cur = h + 1 /\ eng'.end = eng.end /\ eng'.pos = eng.pos /\ eng'.prev = block
      /\ eng'.follow = eng.follow
  BY <1>2, <1>6 DEF EngineFields
<1>9. PosAt(eng.pos, h) /\ h <= eng.end
  BY <1>1 DEF OnBatch
<1> QED BY <1>1, <1>2, <1>3, <1>5, <1>7, <1>8, <1>9

LEMMA GoodSkipSave ==
  ASSUME CursorInv, LineageOK(lineage), ~Excused, NEW b, NEW h, Good(lineage, tip, db, eng, b, h), SkipSave,
         ~Excused'
  PROVE  SomeGood(lineage', tip', db', eng')
<1>0. /\ eng.pc = "save" /\ eng' = Advance(eng) /\ lineage' = lineage /\ tip' = tip /\ db' = db /\ ~Stranded
      /\ Final(eng.batch) < eng.end
  BY DEF SkipSave, chainVars, Excused
<1>1. Standing(lineage, tip, db, {}, b, h)
  BY <1>0, NotStranded
<1>2. /\ eng'.pc = "main" /\ eng'.cur = h + 1 /\ eng'.end = eng.end /\ PosAt(eng'.pos, h)
      /\ eng'.prev # NoBlock /\ eng'.prev[1] = h /\ eng'.prev[2] = AncIn(lineage, b, h)
      /\ h \in Nat /\ h = Final(eng.batch) /\ eng.end \in Nat
  BY <1>0, Advanced
<1>3. h = eng'.cur - 1 /\ eng'.cur <= eng'.end + 1 /\ ~(eng'.cur > eng'.end)
  BY <1>0, <1>2
<1>4. Running(lineage, db, eng', b, h)
  BY <1>2, <1>3 DEF Running
<1> QED BY <1>0, <1>1, <1>2, <1>4, RunGood DEF Between

LEMMA GoodSaveState ==
  ASSUME CursorInv, LineageOK(lineage), ~Excused, NEW b, NEW h, Good(lineage, tip, db, eng, b, h), SaveState
  PROVE  SomeGood(lineage', tip', db', eng')
<1> USE Heights1
<1>0. /\ eng.pc = "save" /\ eng' = Advance(eng) /\ lineage' = lineage /\ tip' = tip
      /\ DOMAIN db = {"local", "rows", "trees"} /\ DOMAIN db.rows \subseteq 1..Top
  BY Basics DEF SaveState, chainVars
<1>1. /\ eng'.pc = "main" /\ eng'.cur = h + 1 /\ eng'.end = eng.end /\ PosAt(eng'.pos, h)
      /\ eng'.prev # NoBlock /\ eng'.prev[1] = h /\ eng'.prev[2] = AncIn(lineage, b, h)
      /\ h \in Nat /\ h = Final(eng.batch) /\ h <= eng.end /\ eng.end \in Nat
  BY <1>0, Advanced
<1> DEFINE n == Len(lineage)
           window == {k \in Heights(eng.batch) : k >= h - SearchDepth}
           keep == {k \in DOMAIN db.rows \cup window : k >= h - SearchDepth}
           rows == [k \in keep |-> IF k \in window THEN BlockAt(eng.batch, k) ELSE db.rows[k]]
<1>2. db' = [db EXCEPT !.local = h, !.rows = rows]
  BY <1>1 DEF SaveState, SaveProgress, RowHeights
<1>3. DOMAIN rows = keep /\ \A k \in keep : rows[k] = IF k \in window THEN BlockAt(eng.batch, k) ELSE db.rows[k]
  OBVIOUS
<1>4. /\ Fetched(eng.batch, eng.cur) /\ eng.cur \in Nat /\ eng.cur >= 1
      /\ Heights(eng.batch) = eng.cur..h /\ eng.cur <= h
  BY <1>0, <1>1, BatchFacts DEF InBatch
<1>5. /\ Standing(lineage, tip, db, Heights(eng.batch), b, h) /\ OnBatch(lineage, tip, db, eng, b, h, b)
  BY <1>0, MidFacts DEF MidBatchPcs
<1>6. /\ b \in 1..n /\ RowsReal(lineage, db.rows) /\ RowsVouch(lineage, db.rows, b, h)
      /\ Anchored(lineage, db, Heights(eng.batch), b) /\ FetchedOn(lineage, eng.batch, eng.cur, b)
      /\ Agree(lineage, b, n, h - SearchDepth - 1)
  BY <1>1, <1>5 DEF Standing, OnBatch
<1> HIDE DEF rows
<1>7. db'.local = h /\ db'.rows = rows /\ db'.trees = db.trees
  BY <1>0, <1>2
<1>8. ASSUME NEW k \in keep PROVE (k \in window /\ rows[k] = Row(lineage, b, k)) \/ (k \in DOMAIN db.rows /\ rows[k] = db.rows[k])
  <2>1. CASE k \in window
    <3>1. k \in eng.cur..Final(eng.batch)
      BY <1>1, <1>4, <2>1
    <3>2. BlockAt(eng.batch, k) = Row(lineage, b, k)
      BY <1>4, <1>6, <3>1, BlockOfBatch
    <3> QED BY <1>3, <2>1, <3>2
  <2>2. CASE k \notin window
    BY <1>3, <2>2
  <2> QED BY <2>1, <2>2
<1>9. RowsReal(lineage, rows)
  BY <1>3, <1>6, <1>8 DEF RowsReal
<1>10. RowsVouch(lineage, rows, b, h)
  <2> SUFFICES ASSUME NEW k \in keep, k <= h, rows[k] = Row(lineage, n, k) PROVE Agree(lineage, b, n, k)
    BY <1>3 DEF RowsVouch
  <2>1. CASE k \in window /\ rows[k] = Row(lineage, b, k)
    <3>1. AncIn(lineage, b, k) = AncIn(lineage, n, k)
      BY <2>1 DEF Row
    <3>2. n \in 1..n
      BY DEF LineageOK
    <3>3. k \in Nat /\ k >= 1
      BY <1>4, <2>1
    <3> QED BY <1>6, <3>1, <3>2, <3>3, SharedBlock
  <2>2. CASE k \in DOMAIN db.rows /\ rows[k] = db.rows[k]
    BY <1>6, <2>2 DEF RowsVouch
  <2> QED BY <1>8, <2>1, <2>2
<1>11. Anchored(lineage, db', {}, b)
  <2> SUFFICES ASSUME NEW k \in Common(db.trees), k \notin keep PROVE Agree(lineage, b, n, k)
    BY <1>3, <1>7 DEF Anchored
  <2>0. k \in Nat
    BY DEF Common
  <2>1. CASE k >= h - SearchDepth
    BY <1>6, <2>1 DEF Anchored
  <2>2. CASE ~(k >= h - SearchDepth)
    <3>1. k <= h - SearchDepth - 1 /\ h - SearchDepth - 1 \in Int
      BY <1>1, <2>0, <2>2
    <3> HIDE DEF n
    <3> QED BY <1>6, <2>0, <3>1, AgreeLaws
  <2> QED BY <2>1, <2>2
<1>12. h \in DOMAIN rows
  BY <1>1, <1>3, <1>4
<1>13. Standing(lineage, tip, db', {}, b, h)
  BY <1>1, <1>5, <1>7, <1>9, <1>10, <1>11 DEF Standing
<1>14. h = eng'.cur - 1 /\ eng'.cur <= eng'.end + 1
  BY <1>1
<1>15. Running(lineage, db', eng', b, h)
  BY <1>1, <1>7, <1>12, <1>14 DEF Running
<1> QED BY <1>0, <1>1, <1>13, <1>15, RunGood DEF Between

LEMMA NewestBounds ==
  ASSUME NEW p \in Pools, NEW t, SoundTree(p, t), NEW k \in Checkpoints(t)
  PROVE  NewestCheckpoint(t) \in Int /\ k \in Nat /\ k <= NewestCheckpoint(t)
<1> DEFINE C == Checkpoints(t)
<1>1. IsFiniteSet(C) /\ C \in SUBSET Nat /\ C # {}
  BY DEF SoundTree
<1>2. PICK n \in C : \A y \in C : y <= n
  <2> DEFINE id == [x \in C |-> x]
  <2> HIDE DEF C
  <2>1. \A x \in C : id[x] = x /\ id[x] \in Int
    BY <1>1
  <2> HIDE DEF id
  <2>2. PICK x \in C : \A y \in C : id[y] <= id[x]
    BY <1>1, <2>1, FiniteLargest
  <2> QED BY <2>1, <2>2
<1>3. NewestCheckpoint(t) = Max(C)
  BY <1>1 DEF NewestCheckpoint
<1>4. Max(C) \in C /\ \A y \in C : Max(C) >= y
  <2>1. n \in Nat
    BY <1>1
  <2> HIDE DEF C
  <2> QED BY <1>1, <1>2, <2>1, MaxIsMember
<1> DEFINE m == Max(C)
<1>5. m \in Nat /\ m >= k /\ k \in Nat
  BY <1>1, <1>4
<1> HIDE DEF m
<1>6. NewestCheckpoint(t) = m
  BY <1>3 DEF m
<1> QED BY <1>5, <1>6

LEMMA GoodStop ==
  ASSUME CursorInv, LineageOK(lineage), ~Excused, NEW b, NEW h, Good(lineage, tip, db, eng, b, h), Stop, ~Excused'
  PROVE  SomeGood(lineage', tip', db', eng')
<1> USE Heights1
<1>0. /\ lineage' = lineage /\ tip' = tip /\ db' = db /\ eng' = Idle /\ ~Torn /\ ~Stranded
  BY DEF Stop, chainVars, Excused
<1>1. Standing(lineage, tip, db, {}, b, h)
  BY <1>0, NotStranded
<1>2. tip \in Nat /\ DOMAIN db.rows \subseteq 1..Top /\ AllSound(db.trees) /\ db.local \in Nat
  BY Basics
<1> DEFINE c == Max({db.local, Birthday - 1})
<1>3. c = IF db.local >= Birthday - 1 THEN db.local ELSE Birthday - 1
  BY <1>2, MaxOfTwo, db.local \in Int, Birthday - 1 \in Int
<1>4. c \in Nat /\ db.local <= c
  <2> HIDE DEF c
  <2> QED BY <1>2, <1>3
<1>5. CASE c \notin Common(db.trees)
  <2>1. AtRest(db, Idle, h)
    BY <1>5, IdleFields DEF AtRest
  <2> QED BY <1>0, <1>1, <2>1, RestGood, IdleFields DEF Resting
<1>6. CASE c \in Common(db.trees)
  <2>1. /\ h \in Nat /\ h <= tip /\ HeldAt(lineage, db.trees, b, h) /\ RowsVouch(lineage, db.rows, b, h)
    BY <1>1 DEF Standing
  <2>2. \A p \in Pools : ~(NewestCheckpoint(db.trees[p]) > c) /\ ~(Len(db.trees[p].leaves) > db.trees[p].size[c])
    BY <1>0, <1>6 DEF Torn
  <2>a. AtRest(db, Idle, c)
    BY IdleFields DEF AtRest
  <2> HIDE DEF c
  <2>3. c <= h
    BY <1>6, <2>1, CommonHeld
  <2>4. ASSUME NEW p \in Pools PROVE Holds(p, lineage, db.trees[p], b, c)
    <3>1. SoundTree(p, db.trees[p]) /\ Holds(p, lineage, db.trees[p], b, h) /\ c \in Checkpoints(db.trees[p])
      BY <1>2, <1>6, <2>1 DEF AllSound, HeldAt, Common
    <3>2. \A k \in Checkpoints(db.trees[p]) : k <= c
      <4> SUFFICES ASSUME NEW k \in Checkpoints(db.trees[p]) PROVE k <= c
        OBVIOUS
      <4>1. NewestCheckpoint(db.trees[p]) \in Int /\ k \in Nat /\ k <= NewestCheckpoint(db.trees[p])
        BY <3>1, NewestBounds
      <4> QED BY <1>4, <2>2, <4>1
    <3>3. Len(db.trees[p].leaves) = Count(p, h) /\ db.trees[p].size[c] = Count(p, c)
          /\ Count(p, h) \in Nat /\ Count(p, c) \in Nat
      <4>1. Len(db.trees[p].leaves) = Count(p, h) /\ Count(p, h) \in Nat
        BY <2>1, <3>1, LeavesLaw, h \in Int DEF Holds
      <4>2. db.trees[p].size[c] = Count(p, c)
        BY <3>1 DEF Holds
      <4> QED BY <1>4, <4>1, <4>2, CountNat, c \in Int
    <3>4. Count(p, h) <= Count(p, c)
      BY <2>2, <3>3
    <3> QED BY <1>4, <2>1, <2>3, <3>1, <3>2, <3>4, LowerHolds, h \in Int, c \in Int
  <2>5. RowsVouch(lineage, db.rows, b, c)
    <3> SUFFICES ASSUME NEW k \in DOMAIN db.rows, k <= c, db.rows[k] = Row(lineage, Len(lineage), k)
                 PROVE  Agree(lineage, b, Len(lineage), k)
      BY DEF RowsVouch
    <3>1. k <= h
      BY <1>2, <1>4, <2>1, <2>3
    <3> QED BY <2>1, <3>1 DEF RowsVouch
  <2>6. HeldAt(lineage, db.trees, b, c) /\ c <= tip
    BY <1>2, <1>4, <2>1, <2>3, <2>4 DEF HeldAt
  <2>7. Standing(lineage, tip, db, {}, b, c)
    BY <1>1, <1>4, <2>5, <2>6 DEF Standing
  <2> QED BY <1>0, <2>7, <2>a, RestGood, IdleFields DEF Resting
<1> QED BY <1>5, <1>6

-----------------------------------------------------------------------------
\* validate_batch_boundary: the batch it lets through continues the trees.
LEMMA BoundaryAgrees ==
  ASSUME CursorInv, LineageOK(lineage), ~Excused, NEW b, NEW h, Good(lineage, tip, db, eng, b, h),
         eng.pc = "batch", BoundaryValid, NEW c, OnBatch(lineage, tip, db, eng, b, h, c)
  PROVE  Agree(lineage, b, c, h) /\ h = eng.cur - 1 /\ PosAt(eng.pos, h) /\ h \in Nat
<1> USE Heights1
<1> DEFINE L == lineage
<1>0. /\ Fetched(eng.batch, eng.cur) /\ eng.cur \in Nat /\ eng.cur >= 1 /\ First(eng.batch) = eng.cur
  BY BatchFacts DEF InBatch
<1>1. /\ h = eng.cur - 1 /\ PosAt(eng.pos, h)
      /\ eng.prev # NoBlock /\ eng.prev[1] = h => eng.prev[2] = AncIn(L, b, h)
  BY DEF Good, Running, RunPcs
<1>2. b \in 1..Len(L) /\ c \in 1..Len(L) /\ FetchedOn(L, eng.batch, eng.cur, c) /\ h \in Nat
  BY DEF Good, Standing, OnBatch
<1>3. CASE eng.cur <= 1
  BY <1>0, <1>1, <1>2, <1>3, AgreeAtStart, h \in Int
<1>4. CASE ~(eng.cur <= 1)
  <2>1. h >= 1 /\ h \in 1..eng.cur /\ eng.cur \in Nat \ {0}
    BY <1>0, <1>1, <1>2, <1>4
  <2>2. eng.batch[1] = Row(L, c, eng.cur)
    <3>1. 1 \in 1..Len(eng.batch) /\ eng.cur + 1 - 1 = eng.cur
      BY <1>0 DEF Fetched
    <3> QED BY <1>2, <3>1 DEF FetchedOn
  <2>3. eng.batch[1][2] = AncIn(L, c, eng.cur)
    BY <2>2 DEF Row
  <2>4. AncIn(L, AncIn(L, c, eng.cur), h) = AncIn(L, c, h)
    BY <1>2, <2>1 DEF LineageOK
  <2>5. Parent(eng.batch) = Row(L, c, h)
    BY <1>0, <1>1, <2>3, <2>4, AncestorIn DEF Parent, Row
  <2>6. CASE eng.prev # NoBlock
    <3>1. eng.prev = Row(L, c, h)
      BY <1>4, <2>5, <2>6 DEF BoundaryValid
    <3>2. eng.prev[1] = h /\ eng.prev[2] = AncIn(L, c, h)
      BY <3>1 DEF Row
    <3>3. AncIn(L, b, h) = AncIn(L, c, h)
      BY <1>1, <2>6, <3>2
    <3> QED BY <1>1, <1>2, <2>1, <3>3, SharedBlock
  <2>7. CASE eng.prev = NoBlock
    <3>1. h \in DOMAIN db.rows => db.rows[h] = Row(L, c, h)
      BY <1>1, <1>4, <2>5, <2>7 DEF BoundaryValid, RowHeights
    <3> QED BY <1>1, <1>2, <2>7, <3>1 DEF OnBatch
  <2> QED BY <2>6, <2>7
<1> QED BY <1>3, <1>4

\* batch_insert never meets a leaf of another block.
LEMMA NoInsertFails ==
  ASSUME CursorInv, LineageOK(lineage), ~Excused, NEW b, NEW h, Good(lineage, tip, db, eng, b, h), InsertFails
  PROVE  FALSE
<1>0. eng.pc = "batch" /\ BoundaryValid /\ WorkerTrees = db.trees /\ AllSound(db.trees)
  BY WorkerHasTrees, Basics DEF InsertFails, CursorInv
<1>1. PICK c : OnBatch(lineage, tip, db, eng, b, h, c)
  BY <1>0 DEF Good, Batching, InBatch
<1>2. Agree(lineage, b, c, h) /\ h = eng.cur - 1 /\ PosAt(eng.pos, h)
  BY <1>0, <1>1, BoundaryAgrees
<1>3. Fetched(eng.batch, eng.cur) /\ eng.cur \in Nat /\ eng.cur >= 1
  BY <1>0, BatchFacts DEF InBatch
<1>4. PICK p \in Pools : Conflict(p, eng.batch, eng.pos[p], db.trees[p])
  BY <1>0 DEF InsertFails
<1>5. /\ eng.pos[p] = Count(p, eng.cur - 1) /\ Holds(p, lineage, db.trees[p], b, eng.cur - 1)
      /\ SoundTree(p, db.trees[p]) /\ FetchedOn(lineage, eng.batch, eng.cur, c)
      /\ Agree(lineage, b, c, eng.cur - 1)
  BY <1>0, <1>1, <1>2 DEF PosAt, Good, Standing, HeldAt, AllSound, OnBatch
<1>6. ~Conflict(p, eng.batch, Count(p, eng.cur - 1), db.trees[p])
  BY <1>3, <1>5, InsertHolds
<1> QED BY <1>4, <1>5, <1>6

LEMMA GoodCommit ==
  ASSUME CursorInv, LineageOK(lineage), ~Excused, NEW b, NEW h, Good(lineage, tip, db, eng, b, h), CommitTrees
  PROVE  SomeGood(lineage', tip', db', eng')
<1> USE Heights1
<1> DEFINE L == lineage
           n == Len(L)
           e == Final(eng.batch)
           dense == PerBlock(eng.batch, eng.end)
           trees == [p \in Pools |-> InsertBatch(p, eng.batch, eng.pos[p], dense, WorkerTrees[p])]
           done == /\ \E p \in Pools : e \in Applied(p, eng.batch, WorkerTrees[p])
                   /\ \A p \in Pools : CheckpointDue(p, e, dense)
           last == IF done THEN e ELSE eng.last
           pos == [p \in Pools |-> eng.pos[p] + Before(p, eng.batch, e + 1)]
<1>0. /\ eng.pc = "batch" /\ BoundaryValid /\ WorkerTrees = db.trees /\ AllSound(db.trees)
      /\ lineage' = lineage /\ tip' = tip /\ DOMAIN eng = EngineFields
      /\ DOMAIN db = {"local", "rows", "trees"} /\ DOMAIN db.rows \subseteq 1..Top /\ db.local \in Nat
  BY WorkerHasTrees, Basics DEF CommitTrees, CursorInv, chainVars
<1>1. PICK c : OnBatch(L, tip, db, eng, b, h, c)
  BY <1>0 DEF Good, Batching, InBatch
<1>2. Agree(L, b, c, h) /\ h = eng.cur - 1 /\ PosAt(eng.pos, h) /\ h \in Nat
  BY <1>0, <1>1, BoundaryAgrees
<1>3. /\ Fetched(eng.batch, eng.cur) /\ eng.cur \in Nat /\ eng.cur >= 1 /\ First(eng.batch) = eng.cur
      /\ e \in Nat /\ eng.cur <= e /\ Heights(eng.batch) = eng.cur..e
  BY <1>0, BatchFacts DEF InBatch
<1>4. /\ c \in 1..n /\ FetchedOn(L, eng.batch, eng.cur, c) /\ e <= tip /\ e <= eng.end
      /\ \A k \in DOMAIN db.rows : k <= e /\ db.rows[k] = Row(L, n, k) => db.rows[k] = Row(L, c, k)
      /\ Agree(L, c, n, e - SearchDepth - 1)
  BY <1>1 DEF OnBatch
<1>5. /\ Standing(L, tip, db, {}, b, h) /\ db.local <= h /\ HeldAt(L, db.trees, b, h)
      /\ RowsReal(L, db.rows) /\ Anchored(L, db, {}, b)
  BY <1>0, NoFlight DEF MidBatchPcs, Standing
<1>6. db' = [db EXCEPT !.trees = trees]
  BY DEF CommitTrees
<1>7. eng' = [eng EXCEPT !.pc = "notes", !.ckpt = done, !.last = last, !.pos = pos]
  BY DEF CommitTrees
<1>8. ASSUME NEW p \in Pools
      PROVE  /\ Holds(p, L, trees[p], c, e)
             /\ Checkpoints(trees[p]) \in SUBSET (Checkpoints(db.trees[p]) \cup (eng.cur..e))
             /\ pos[p] = Count(p, e)
  <2>0. /\ eng.pos[p] = Count(p, eng.cur - 1) /\ Holds(p, L, db.trees[p], b, eng.cur - 1)
        /\ SoundTree(p, db.trees[p]) /\ Agree(L, b, c, eng.cur - 1)
    BY <1>0, <1>2, <1>5 DEF PosAt, HeldAt, AllSound
  <2>1. trees[p] = InsertBatch(p, eng.batch, Count(p, eng.cur - 1), dense, db.trees[p])
    BY <1>0, <2>0
  <2>2. pos[p] = Count(p, eng.cur - 1) + Before(p, eng.batch, e + 1)
    BY <2>0
  <2> HIDE DEF trees, pos, dense
  <2>3. /\ Holds(p, L, trees[p], c, e)
        /\ Checkpoints(trees[p]) \in SUBSET (Checkpoints(db.trees[p]) \cup (eng.cur..e))
    BY <1>3, <1>4, <2>0, <2>1, InsertHolds
  <2> HIDE DEF e
  <2> DEFINE x == e + 1
  <2>4. x \in Int /\ x - 1 = e /\ First(eng.batch) \in Int /\ First(eng.batch) <= x
    BY <1>3
  <2>5. pos[p] = Count(p, eng.cur - 1) + Before(p, eng.batch, x)
    BY <2>2
  <2> HIDE DEF x
  <2>6. Count(p, x - 1) = Count(p, First(eng.batch) - 1) + Before(p, eng.batch, x)
    BY <2>4, CountBatch
  <2>7. Count(p, e) = pos[p]
    BY <1>3, <2>4, <2>5, <2>6
  <2> QED BY <2>3, <2>7
<1> HIDE DEF trees, done, last, pos, dense
<1>9. db'.trees = trees /\ db'.local = db.local /\ db'.rows = db.rows
  BY <1>0, <1>6
<1>10. /\ eng'.pc = "notes" /\ eng'.pos = pos /\ eng'.batch = eng.batch /\ eng'.cur = eng.cur
       /\ eng'.end = eng.end
  BY <1>0, <1>7 DEF EngineFields
<1>11. HeldAt(L, trees, c, e) /\ PosAt(pos, e)
  BY <1>8 DEF HeldAt, PosAt
<1>12. RowsVouch(L, db.rows, c, e)
  <2> SUFFICES ASSUME NEW k \in DOMAIN db.rows, k <= e, db.rows[k] = Row(L, n, k) PROVE Agree(L, c, n, k)
    BY DEF RowsVouch
  <2>1. Row(L, c, k) = Row(L, n, k)
    BY <1>4
  <2>2. AncIn(L, c, k) = AncIn(L, n, k)
    BY <2>1 DEF Row
  <2>3. n \in 1..n
    BY DEF LineageOK
  <2>4. k \in Nat /\ k >= 1
    BY <1>0
  <2> QED BY <1>4, <2>2, <2>3, <2>4, SharedBlock
<1>13. Anchored(L, db', Heights(eng.batch), c)
  <2> SUFFICES ASSUME NEW k \in Common(trees), k \notin DOMAIN db.rows, k \notin eng.cur..e
               PROVE  Agree(L, c, n, k)
    BY <1>3, <1>9 DEF Anchored
  <2>1. k \in Common(db.trees)
    BY <1>8 DEF Common
  <2>2. Agree(L, b, n, k)
    BY <1>5, <2>1 DEF Anchored
  <2>3. k \in Nat /\ k <= h
    BY <1>5, <2>1, CommonHeld
  <2> HIDE DEF n
  <2>4. Agree(L, b, c, k)
    BY <1>2, <2>3, AgreeLaws, h \in Int, k \in Int
  <2>5. Agree(L, c, b, k)
    BY <2>3, <2>4, AgreeLaws, k \in Int
  <2> QED BY <2>2, <2>3, <2>5, AgreeLaws, k \in Int
<1> HIDE DEF e
<1>14. db.local <= e
  BY <1>0, <1>2, <1>3, <1>5
<1>15. Standing(L, tip, db', Heights(eng.batch), c, e)
  BY <1>3, <1>4, <1>5, <1>9, <1>11, <1>12, <1>13, <1>14 DEF Standing
<1>16. OnBatch(L, tip, db', eng', c, e, c)
  BY <1>4, <1>9, <1>10, <1>11 DEF OnBatch, e
<1>17. Standing(L, tip, db', Heights(eng'.batch), c, e) /\ eng'.pc \in MidBatchPcs
  BY <1>10, <1>15 DEF MidBatchPcs
<1> QED BY <1>0, <1>16, <1>17, MidGood

\* The excuses are history: once one holds it goes on holding.
LEMMA ExcusedStays ==
  ASSUME CursorInv, [Next]_vars, Excused
  PROVE  Excused'
<1>1. CASE UNCHANGED vars
  BY <1>1 DEF vars, Excused
<1>2. CASE Grow \/ Reorg \/ StartRescan \/ Stop
  BY <1>2 DEF Grow, Reorg, StartRescan, Stop, counters, Excused
<1>3. CASE Start \/ Validate \/ InitFromActivation \/ InitLocal \/ InitSeed \/ InitReplay
  BY <1>3 DEF Start, Validate, InitFromActivation, InitLocal, InitSeed, InitReplay, counters, Excused
<1>4. CASE Repair \/ NoRepair \/ Fetch \/ BoundaryReorg \/ CommitTrees \/ InsertFails
  BY <1>4 DEF Repair, NoRepair, Fetch, BoundaryReorg, CommitTrees, InsertFails, counters, Excused
<1>5. CASE PersistNotes \/ BatchCheckpoint \/ SkipCheckpoint \/ SaveState \/ SkipSave \/ Finish \/ Return
  BY <1>5 DEF PersistNotes, BatchCheckpoint, SkipCheckpoint, SaveState, SkipSave, Finish, Return, counters, Excused
<1>6. CASE Monitor
  BY <1>6 DEF Monitor, Excused
<1> QED BY <1>1, <1>2, <1>3, <1>4, <1>5, <1>6 DEF Next, Engine

LEMMA TreeStart == Init => TreeInv
<1> SUFFICES ASSUME Init PROVE TreeInv
  OBVIOUS
<1> USE Heights1
<1> DEFINE empty == <<>>
           none == [k \in {} |-> NoBlock]
           L == lineage
<1>1. /\ lineage = <<empty>> /\ tip = Birthday /\ eng = Idle
      /\ db = [local |-> 0, rows |-> none, trees |-> NoTrees]
  BY DEF Init
<1>2. DOMAIN none = {} /\ Len(empty) = 0
  OBVIOUS
<1> HIDE DEF empty, none
<1>3. Len(lineage) = 1 /\ DOMAIN lineage = 1..1 /\ lineage[1] = empty
  BY <1>1
<1>4. \A k \in Nat \ {0} : AncIn(lineage, 1, k) = 1
  BY <1>2, <1>3 DEF AncIn
<1>5. LineageOK(lineage)
  <2>1. 1..Len(lineage) = {1}
    BY <1>3
  <2>2. Len(lineage[1]) \in Nat
    BY <1>2, <1>3
  <2>3. \A k \in Nat \ {0} : \A j \in 1..k : AncIn(lineage, 1, j) = AncIn(lineage, AncIn(lineage, 1, k), j)
    BY <1>4
  <2> QED BY <1>3, <1>4, <2>1, <2>2, <2>3 DEF LineageOK
<1>6. db.local = 0 /\ db.rows = none /\ db.trees = NoTrees
  BY <1>1
<1>7. ASSUME NEW p \in Pools PROVE Holds(p, lineage, NoTrees[p], 1, 0) /\ Checkpoints(NoTrees[p]) = {}
  <2>1. NoTrees[p] = EmptyTree
    BY DEF NoTrees
  <2>2. Count(p, 0) = 0
    BY CountNone, 0 \in Int
  <2>3. Holds(p, lineage, EmptyTree, 1, 0)
    BY <2>2, EmptyHolds
  <2>4. Checkpoints(EmptyTree) = {}
    BY DEF EmptyTree, Checkpoints
  <2> QED BY <2>1, <2>3, <2>4
<1>8. Common(db.trees) = {}
  <2>1. \E p : p \in Pools
    BY PoolsAssumption
  <2> QED BY <1>6, <1>7, <2>1 DEF Common
<1>9. Standing(lineage, tip, db, {}, 1, 0)
  <2>1. HeldAt(lineage, db.trees, 1, 0)
    BY <1>6, <1>7 DEF HeldAt
  <2>2. RowsReal(lineage, db.rows) /\ RowsVouch(lineage, db.rows, 1, 0) /\ Anchored(lineage, db, {}, 1)
    BY <1>2, <1>6, <1>8 DEF RowsReal, RowsVouch, Anchored
  <2>3. 1 \in 1..Len(lineage) /\ 0 <= tip /\ db.local <= 0
    BY <1>1, <1>3, <1>6
  <2> QED BY <2>1, <2>2, <2>3 DEF Standing
<1>10. AtRest(db, eng, 0)
  BY <1>1, <1>8, IdleFields DEF AtRest
<1>11. SomeGood(lineage, tip, db, eng)
  BY <1>1, <1>9, <1>10, RestGood, IdleFields DEF Resting
<1> QED BY <1>5, <1>11, CursorStart DEF TreeInv

LEMMA ReorgLineage ==
  ASSUME CursorInv, LineageOK(lineage), Reorg
  PROVE  LineageOK(lineage')
<1>1. PICK f \in FirstFork..tip : lineage' = Append(lineage, [k \in 1..(f - 1) |-> Ancestor(Branch, k)])
  BY DEF Reorg
<1>2. f \in Nat /\ f >= 1
  <2>1. tip \in Nat
    BY Heights1 DEF CursorInv, CoherenceInv, SyncTypes
  <2> QED BY <2>1, HeightsAssumption
<1> DEFINE below == Stem(lineage, f)
<1>3. lineage' = Append(lineage, below)
  BY <1>1 DEF Ancestor, AncIn, Branch, Stem
<1> HIDE DEF below
<1>4. ForkedAt(lineage, f, lineage')
  BY <1>3 DEF below, ForkedAt
<1> QED BY <1>2, <1>4, Forked

LEMMA TreeStep ==
  ASSUME TreeInv, [Next]_vars, [ReorgWithinWindow]_vars, Birthday > 1
  PROVE  TreeInv'
<1>1. CursorInv' /\ CursorInv /\ LineageOK(lineage)
  BY CursorStep DEF TreeInv
<1>2. CASE Excused'
  <2>1. CASE ~Reorg
    <3>1. lineage' = lineage
      <4>1. CASE UNCHANGED vars
        BY <4>1 DEF vars
      <4>2. CASE Next
        BY <2>1, <4>2 DEF Next, Engine, Grow, StartRescan, Stop, Start, Validate, InitFromActivation, InitLocal,
           InitSeed, InitReplay, Repair, NoRepair, Fetch, BoundaryReorg, CommitTrees, InsertFails, PersistNotes,
           BatchCheckpoint, SkipCheckpoint, SaveState, SkipSave, Finish, Return, Monitor, chainVars
      <4> QED BY <4>1, <4>2
    <3> QED BY <1>1, <1>2, <3>1 DEF TreeInv
  <2>2. CASE Reorg
    <3>1. LineageOK(lineage')
      BY <1>1, <2>2, ReorgLineage
    <3> QED BY <1>1, <1>2, <3>1 DEF TreeInv
  <2> QED BY <2>1, <2>2
<1>3. CASE ~Excused'
  <2>1. ~Excused
    BY <1>1, <1>3, ExcusedStays
  <2>2. PICK b, h : Good(lineage, tip, db, eng, b, h)
    BY <2>1 DEF TreeInv, SomeGood
  <2>3. LineageOK(lineage') /\ SomeGood(lineage', tip', db', eng')
    <3> USE <1>1, <1>3, <2>1, <2>2
    <3>1. CASE UNCHANGED vars
      BY <3>1 DEF vars, SomeGood
    <3>2. CASE Grow
      BY <3>2, GoodGrow DEF Grow
    <3>3. CASE Reorg
      BY <3>3, GoodReorg
    <3>4. CASE StartRescan \/ Stop \/ Start \/ Validate
      <4>1. lineage' = lineage
        BY <3>4 DEF StartRescan, Stop, Start, Validate, chainVars
      <4> QED BY <3>4, <4>1, GoodRescan, GoodStop, GoodStart, GoodValidate
    <3>5. CASE InitFromActivation \/ InitLocal \/ InitSeed \/ InitReplay
      <4>1. lineage' = lineage
        BY <3>5 DEF InitFromActivation, InitLocal, InitSeed, InitReplay, chainVars
      <4> QED BY <3>5, <4>1, GoodInitActivation, GoodInitLocal, GoodInitSeed, GoodInitReplay
    <3>6. CASE Repair \/ NoRepair \/ Fetch \/ BoundaryReorg \/ Return \/ Monitor \/ Finish
      <4>1. lineage' = lineage
        BY <3>6 DEF Repair, NoRepair, Fetch, BoundaryReorg, Return, Monitor, Finish, chainVars
      <4> QED BY <3>6, <4>1, GoodRepair, GoodNoRepair, GoodFetch, GoodBoundary, GoodReturn, GoodMonitor, GoodFinish
    <3>7. CASE CommitTrees \/ InsertFails \/ PersistNotes \/ BatchCheckpoint \/ SkipCheckpoint \/ SaveState \/ SkipSave
      <4>1. lineage' = lineage
        BY <3>7 DEF CommitTrees, InsertFails, PersistNotes, BatchCheckpoint, SkipCheckpoint, SaveState, SkipSave, chainVars
      <4> QED BY <3>7, <4>1, GoodCommit, NoInsertFails, GoodNotes, GoodBatchCheckpoint, GoodSkipCheckpoint,
                 GoodSaveState, GoodSkipSave
    <3> QED BY <3>1, <3>2, <3>3, <3>4, <3>5, <3>6, <3>7 DEF Next, Engine
  <2> QED BY <1>1, <2>3 DEF TreeInv
<1> QED BY <1>2, <1>3

\* TreesOnChain: reorgs, resumes, repairs, rescans and replays never mix two
\* branches, skip or repeat a commitment, except in the three ways the history
\* variables name.  Birthday > 1 as above.  A reorganisation deeper than
\* MAX_REORG_SEARCH_DEPTH is not covered: the engine forgets older hashes.
THEOREM TreesStayOnChain ==
  ASSUME Birthday > 1
  PROVE  Spec /\ [][ReorgWithinWindow]_vars => []TreesOnChain
<1>1. TreeInv => TreesOnChain
  <2> SUFFICES ASSUME TreeInv, ~Excused
               PROVE  \E b \in 1..Branch : \A p \in Pools : OnBranch(p, db.trees[p], b)
    BY DEF TreesOnChain
  <2> USE Heights1
  <2>1. PICK b, h : Good(lineage, tip, db, eng, b, h)
    BY DEF TreeInv, SomeGood
  <2>2. b \in 1..Branch /\ h \in Nat /\ h <= tip /\ HeldAt(lineage, db.trees, b, h) /\ tip \in Nat /\ tip <= Top
    BY <2>1, Basics DEF Good, Standing, Branch, TreeInv
  <2>3. ASSUME NEW p \in Pools PROVE OnBranch(p, db.trees[p], b)
    <3> DEFINE t == db.trees[p]
    <3>1. t.leaves = Leaves(p, lineage, b, h) /\ \A k \in Checkpoints(t) : t.size[k] = Count(p, k)
      BY <2>2 DEF HeldAt, Holds
    <3>2. h \in Int /\ h <= Top /\ Top \in Int
      BY <2>2
    <3>3. Len(t.leaves) = Count(p, h) /\ Count(p, h) \in Nat /\ Count(p, Top) \in Nat /\ Count(p, h) <= Count(p, Top)
      <4>1. Len(t.leaves) = Count(p, h)
        BY <3>1, <3>2, LeavesLaw
      <4> QED BY <3>2, <4>1, CountNat, CountGrows
    <3>4. Count(p, Top) = Cardinality(Outputs[p])
      <4>1. {k \in Outputs[p] : k <= Top} = Outputs[p]
        BY OutputHeights
      <4> QED BY <4>1 DEF Count
    <3>5. t.leaves = SubSeq(LeavesTo(p, b, Top), 1, Len(t.leaves))
      <4>1. LeavesTo(p, b, Top) = Leaves(p, lineage, b, Top)
        BY <3>2, LeavesToIs
      <4>2. SubSeq(Leaves(p, lineage, b, Top), 1, Count(p, h)) = Leaves(p, lineage, b, h)
        BY <3>2, LeavesCut
      <4> QED BY <3>1, <3>3, <4>1, <4>2
    <3> HIDE DEF t
    <3>6. Len(t.leaves) <= Cardinality(Outputs[p])
      BY <3>3, <3>4
    <3>7. OnBranch(p, t, b)
      BY <3>1, <3>5, <3>6 DEF OnBranch, Count
    <3> QED BY <3>7 DEF t
  <2> QED BY <2>2, <2>3
<1>2. TreeInv /\ [Next]_vars /\ [ReorgWithinWindow]_vars => TreeInv'
  BY TreeStep
<1> QED BY TreeStart, <1>1, <1>2, PTL DEF Spec

\* ResumeSound: validate_resume_chain compares one hash, the row at the cursor.
\* When it is the server's, both trees are the server's up to the cursor.
THEOREM OneHashVouches ==
  ASSUME Birthday > 1
  PROVE  Spec /\ [][ReorgWithinWindow]_vars => []ResumeSound
<1>1. TreeInv => ResumeSound
  <2> DEFINE k == db.local
             L == lineage
             n == Len(lineage)
  <2> SUFFICES ASSUME TreeInv, ~Excused, k \in RowHeights(db.rows), Matches(db.rows, k), NEW p \in Pools
               PROVE  LET below == LeavesTo(p, Branch, k)
                      IN SubSeq(db.trees[p].leaves, 1, Len(below)) = below
    BY DEF ResumeSound
  <2>1. PICK b, h : Good(lineage, tip, db, eng, b, h)
    BY DEF TreeInv, SomeGood
  <2>2. h \in Nat /\ k <= h /\ HeldAt(L, db.trees, b, h) /\ RowsVouch(L, db.rows, b, h) /\ k \in Nat
    BY <2>1, Basics DEF Good, Standing, TreeInv
  <2>3. db.rows[k] = Row(L, n, k)
    BY AncestorIn DEF Matches, Block, Row, Branch
  <2>4. Agree(L, b, n, k)
    BY <2>2, <2>3 DEF RowsVouch, RowHeights
  <2> HIDE DEF k
  <2>5. k \in Int /\ h \in Int
    BY <2>2
  <2>6. db.trees[p].leaves = Leaves(p, L, b, h)
    BY <2>2 DEF HeldAt, Holds
  <2>7. LeavesTo(p, Branch, k) = Leaves(p, L, n, k) /\ Leaves(p, L, b, k) = Leaves(p, L, n, k)
    BY <2>4, <2>5, LeavesToIs, LeavesAgree DEF Branch
  <2>8. Len(Leaves(p, L, n, k)) = Count(p, k)
    BY <2>5, LeavesLaw
  <2>9. SubSeq(Leaves(p, L, b, h), 1, Count(p, k)) = Leaves(p, L, b, k)
    BY <2>2, <2>5, LeavesCut
  <2> QED BY <2>6, <2>7, <2>8, <2>9
<1>2. TreeInv /\ [Next]_vars /\ [ReorgWithinWindow]_vars => TreeInv'
  BY TreeStep
<1> QED BY TreeStart, <1>1, <1>2, PTL DEF Spec

\* The insertion of a batch (batch_insert) meets a leaf of another block only in
\* the ways the history variables name: whatever validate_batch_boundary lets
\* through continues the trees.
THEOREM BatchFollowsTrees ==
  ASSUME Birthday > 1
  PROVE  Spec /\ [][ReorgWithinWindow]_vars => [][InsertFails => Excused]_vars
<1>1. TreeInv => (InsertFails => Excused)
  <2> SUFFICES ASSUME TreeInv, InsertFails, ~Excused PROVE FALSE
    OBVIOUS
  <2>1. PICK b, h : Good(lineage, tip, db, eng, b, h)
    BY DEF TreeInv, SomeGood
  <2> QED BY <2>1, NoInsertFails DEF TreeInv
<1>2. TreeInv /\ [Next]_vars /\ [ReorgWithinWindow]_vars => TreeInv'
  BY TreeStep
<1> QED BY TreeStart, <1>1, <1>2, PTL DEF Spec
-----------------------------------------------------------------------------
(* The scan log.  With a pool that has a commitment in every block, the    *)
(* leaves below the newest common checkpoint are a log of blocks.          *)

FullPool == \E p \in Pools : Outputs[p] = 1..Top

\* The branches of the blocks of branch b up to height x.
LogOf(L, b, x) == [k \in 1..x |-> AncIn(L, b, k)]

\* Scanned(Full), as an operator on the trees.
ReadLog(trees) ==
    LET x == NewestCommon(trees, Top)
    IN IF x < 0 THEN <<>> ELSE [k \in 1..trees[Full].size[x] |-> trees[Full].leaves[k][2]]

LEMMA LogLaws ==
  ASSUME NEW L, NEW b, NEW x \in Nat, NEW y \in Nat, x <= y
  PROVE  Len(LogOf(L, b, x)) = x /\ SubSeq(LogOf(L, b, y), 1, x) = LogOf(L, b, x)
<1> DEFINE s == LogOf(L, b, y)
           r == LogOf(L, b, x)
           u == SubSeq(s, 1, x)
<1>1. \A k \in 1..x : s[k] = AncIn(L, b, k)
  BY DEF LogOf
<1>2. DOMAIN r = 1..x
  BY DEF LogOf
<1> HIDE DEF s, r
<1>3. u = [k \in 1..x |-> s[k]]
  OBVIOUS
<1>4. u = [k \in 1..x |-> AncIn(L, b, k)]
  BY <1>1, <1>3
<1>5. Len(r) = x
  BY <1>2
<1> QED BY <1>4, <1>5 DEF LogOf, s, r, u

LEMMA FullCounts ==
  ASSUME FullPool
  PROVE  /\ Full \in Pools /\ Outputs[Full] = 1..Top /\ Activation = 1
         /\ \A k \in 0..Top : Count(Full, k) = k
<1> USE Heights1
<1>1. Full \in Pools /\ Outputs[Full] = 1..Top
  BY DEF FullPool, Full
<1>2. Activation = 1
  <2>1. 1 \in Activation..Top
    BY <1>1, OutputsAssumption
  <2> QED BY <2>1
<1>3. ASSUME NEW k \in 0..Top PROVE Count(Full, k) = k
  <2>1. {j \in Outputs[Full] : j <= k} = 1..k
    BY <1>1
  <2>2. Cardinality(1..k) = k
    <3>1. Cardinality(1..k) = IF 1 > k THEN 0 ELSE k - 1 + 1
      BY FS_Interval, 1 \in Int, k \in Int
    <3> QED BY <3>1
  <2> QED BY <2>1, <2>2 DEF Count
<1> QED BY <1>1, <1>2, <1>3

\* What is read off trees that hold a branch.
LEMMA LogRead ==
  ASSUME FullPool, NEW L, NEW trees, NEW b, NEW h \in Nat, h <= Top, HeldAt(L, trees, b, h)
  PROVE  \E x \in 0..h : /\ ReadLog(trees) = LogOf(L, b, x)
                         /\ x = IF NewestCommon(trees, Top) < 0 THEN 0 ELSE NewestCommon(trees, Top)
<1> USE Heights1
<1> DEFINE x == NewestCommon(trees, Top)
           t == trees[Full]
<1>1. x \in Int /\ x <= Top
  BY CommonBounded, Top \in Int
<1>2. CASE x < 0
  <2>1. ReadLog(trees) = <<>>
    BY <1>2 DEF ReadLog
  <2>2. LogOf(L, b, 0) = <<>>
    <3>1. 1..0 = {}
      OBVIOUS
    <3> QED BY <3>1 DEF LogOf
  <2>3. 0 \in 0..h
    OBVIOUS
  <2> QED BY <1>2, <2>1, <2>2, <2>3
<1>3. CASE ~(x < 0)
  <2>1. x \in Common(trees)
    BY <1>1, <1>3, CommonMember, Top \in Int
  <2>2. x \in 0..h /\ x \in 0..Top
    <3> HIDE DEF x
    <3>1. x \in Nat /\ x <= h
      BY <2>1, CommonHeld
    <3> QED BY <1>1, <3>1
  <2>3. Holds(Full, L, t, b, h) /\ x \in Checkpoints(t) /\ Full \in Pools
    BY <2>1, FullCounts DEF HeldAt, Common
  <2>4. t.size[x] = x /\ t.leaves = Leaves(Full, L, b, h)
    BY <2>2, <2>3, FullCounts DEF Holds
  <2> HIDE DEF x
  <2>5. ASSUME NEW k \in 1..x PROVE t.leaves[k][2] = AncIn(L, b, k)
    <3>1. k \in Outputs[Full] /\ k <= h /\ Count(Full, k) = k
      <4>1. k \in 1..Top /\ k \in 0..Top /\ k <= h
        BY <2>2
      <4> QED BY <4>1, FullCounts
    <3>2. t.leaves[k] = Row(L, b, k)
      BY <2>3, <2>4, <3>1, LeavesLaw, h \in Int
    <3> QED BY <3>2 DEF Row
  <2>6. ReadLog(trees) = [k \in 1..x |-> t.leaves[k][2]]
    BY <1>3, <2>4 DEF ReadLog, x
  <2>7. ReadLog(trees) = LogOf(L, b, x)
    BY <2>5, <2>6 DEF LogOf
  <2> QED BY <1>3, <2>2, <2>7 DEF x
<1> QED BY <1>2, <1>3

-----------------------------------------------------------------------------
(* The trees before and after a step hold the same branch.                 *)

SameBranch(trees, after) ==
    \E b \in 1..Len(lineage) : \E g, h \in 0..tip :
        HeldAt(lineage, trees, b, g) /\ HeldAt(lineage, after, b, h)

LEMMA SameBranchStep ==
  ASSUME FullPool, CursorInv, ~Excused, SameBranch(db.trees, db'.trees)
  PROVE  Log!Next \/ Scanned(Full)' = Scanned(Full)
<1> USE Heights1
<1>1. PICK b \in 1..Len(lineage), g \in 0..tip, h \in 0..tip :
        HeldAt(lineage, db.trees, b, g) /\ HeldAt(lineage, db'.trees, b, h)
  BY DEF SameBranch
<1>2. tip \in Nat /\ g \in Nat /\ h \in Nat /\ g <= Top /\ h <= Top
  BY Basics
<1>3. PICK x \in 0..g : ReadLog(db.trees) = LogOf(lineage, b, x)
  BY <1>1, <1>2, LogRead
<1>4. PICK y \in 0..h : ReadLog(db'.trees) = LogOf(lineage, b, y)
  BY <1>1, <1>2, LogRead
<1>5. Scanned(Full) = ReadLog(db.trees) /\ Scanned(Full)' = ReadLog(db'.trees)
  BY DEF Scanned, ReadLog
<1>6. x \in Nat /\ y \in Nat /\ x <= tip /\ y <= tip
  BY <1>2
<1>a. \A z : Log!ChainTo(b, z) = LogOf(lineage, b, z)
  BY DEF Log!ChainTo, Log!Ancestor, LogOf, AncIn
<1>7. CASE x = y
  BY <1>3, <1>4, <1>5, <1>7
<1>8. CASE x < y
  <2>1. Len(LogOf(lineage, b, x)) = x /\ SubSeq(LogOf(lineage, b, y), 1, x) = LogOf(lineage, b, x)
        /\ Len(LogOf(lineage, b, y)) = y
    BY <1>6, <1>8, LogLaws
  <2>2. y \in (x + 1)..tip
    BY <1>2, <1>6, <1>8
  <2> DEFINE s == Scanned(Full)
             u == LogOf(lineage, b, y)
  <2>3. s = LogOf(lineage, b, x) /\ Scanned(Full)' = u
    BY <1>3, <1>4, <1>5
  <2>4. Len(s) = x /\ Len(s) <= Len(u) /\ s = SubSeq(u, 1, Len(s))
    BY <1>6, <1>8, <2>1, <2>3
  <2> HIDE DEF s, u
  <2>5. y \in (Len(s) + 1)..tip /\ Log!ChainTo(b, y) = u
    BY <1>a, <2>2, <2>4 DEF u
  <2>6. Log!Extend
    BY <2>3, <2>4, <2>5 DEF Log!Extend, Log!IsPrefixOf, Log!Branch, s
  <2> QED BY <2>6 DEF Log!Next
<1>9. CASE y < x
  <2>1. Len(LogOf(lineage, b, x)) = x /\ SubSeq(LogOf(lineage, b, x), 1, y) = LogOf(lineage, b, y)
    BY <1>6, <1>9, LogLaws
  <2>2. y \in 0..Len(LogOf(lineage, b, x))
    BY <1>6, <1>9, <2>1
  <2>3. Log!Rewind
    BY <1>3, <1>4, <1>5, <2>1, <2>2 DEF Log!Rewind
  <2> QED BY <2>3 DEF Log!Next
<1> QED BY <1>6, <1>7, <1>8, <1>9

\* truncate_above_height, with no batch in flight.
LEMMA RewindSame ==
  ASSUME CursorInv, ~Excused, NEW b, NEW h, Standing(lineage, tip, db, {}, b, h), NEW x \in Nat,
         db' = TruncateAbove(db, x)
  PROVE  SameBranch(db.trees, db'.trees)
<1> DEFINE r == ReplayHeight(db, x)
<1>1. tip \in Nat /\ DOMAIN db.rows \subseteq 1..Top /\ AllSound(db.trees)
  BY Basics
<1>2. Standing(lineage, tip, db', {}, b, r)
  BY <1>1, RewindStands
<1> HIDE DEF r
<1>3. /\ b \in 1..Len(lineage) /\ h \in Nat /\ h <= tip /\ HeldAt(lineage, db.trees, b, h)
      /\ r \in Nat /\ r <= tip /\ HeldAt(lineage, db'.trees, b, r)
  BY <1>2 DEF Standing
<1>4. h \in 0..tip /\ r \in 0..tip
  BY <1>1, <1>3
<1> QED BY <1>3, <1>4 DEF SameBranch

LEMMA UnchangedSame ==
  ASSUME CursorInv, ~Excused, NEW b, NEW h, NEW flight, Standing(lineage, tip, db, flight, b, h),
         db'.trees = db.trees
  PROVE  SameBranch(db.trees, db'.trees)
<1>1. b \in 1..Len(lineage) /\ h \in Nat /\ h <= tip /\ HeldAt(lineage, db.trees, b, h)
  BY DEF Standing
<1>2. h \in 0..tip
  BY <1>1, Basics
<1> QED BY <1>1, <1>2 DEF SameBranch

LEMMA SameRewinds ==
  ASSUME CursorInv, ~Excused, NEW b, NEW h, Good(lineage, tip, db, eng, b, h),
         StartRescan \/ Validate \/ Repair \/ BoundaryReorg \/ Monitor
  PROVE  SameBranch(db.trees, db'.trees)
<1> USE Heights1
<1>0. eng.pc \notin MidBatchPcs
  BY DEF StartRescan, Validate, Repair, BoundaryReorg, Monitor, MidBatchPcs
<1>1. Standing(lineage, tip, db, {}, b, h)
  BY <1>0, NoFlight
<1>2. /\ tip \in Nat /\ DOMAIN db.rows \subseteq 1..Top /\ eng.start \in Nat /\ eng.end \in Nat /\ eng.prog \in Nat
      /\ eng.cur \in Nat
  BY Basics
<1>3. CASE StartRescan
  <2>1. PICK from \in Birthday..tip : db' = TruncateAbove(db, from - 1)
    BY <1>3 DEF StartRescan
  <2>2. from - 1 \in Nat
    BY <1>2
  <2> QED BY <1>1, <2>1, <2>2, RewindSame
<1>4. CASE Validate
  <2> DEFINE v == ValidateResume(db.rows, eng.start, eng.end, eng.gap)
             x == v[2]
  <2>1. db' = IF x < 0 THEN db ELSE TruncateAbove(db, x)
    BY <1>4 DEF Validate
  <2>2. x \in Int
    <3>1. eng.start >= 1 /\ eng.end >= Birthday
      BY <1>4, Basics DEF Validate
    <3> QED BY <1>2, <3>1, ResumeWithin DEF RowHeights
  <2> HIDE DEF x
  <2>3. CASE x < 0
    BY <1>1, <2>1, <2>3, UnchangedSame
  <2>4. CASE ~(x < 0)
    <3>1. db' = TruncateAbove(db, x) /\ x \in Nat
      BY <2>1, <2>2, <2>4
    <3> QED BY <1>1, <3>1, RewindSame
  <2> QED BY <2>3, <2>4
<1>5. CASE Repair
  <2>1. PICK from \in Birthday..eng.prog : db' = TruncateAbove(db, from - 1)
    BY <1>5 DEF Repair, Rollback
  <2>2. from - 1 \in Nat
    BY <1>2
  <2> QED BY <1>1, <2>1, <2>2, RewindSame
<1>6. CASE BoundaryReorg
  <2> DEFINE a == AncestorOrFloor(db.rows, eng.cur - 1)
  <2>1. db' = TruncateAbove(db, a)
    BY <1>6 DEF BoundaryReorg, Rollback
  <2>2. a \in Nat
    BY <1>2, AncestorBounded, eng.cur - 1 \in Int DEF RowHeights
  <2> HIDE DEF a
  <2> QED BY <1>1, <2>1, <2>2, RewindSame
<1>7. CASE Monitor
  <2> DEFINE v == ValidateResume(db.rows, eng.prog + 1, tip, TRUE)
             x == v[2]
  <2>1. /\ v[1] \in Nat /\ v[2] \in Int
        /\ \/ v[1] = eng.prog + 1 /\ v[2] = -1
           \/ v[1] = v[2] + 1 /\ v[2] >= 0
    <3>1. eng.prog + 1 \in Nat /\ eng.prog + 1 >= 1
      BY <1>2
    <3> QED BY <1>2, <3>1, ResumeBounded DEF RowHeights
  <2>2. (db' = TruncateAbove(db, x) /\ v[1] <= eng.prog) \/ db' = db
    BY <1>7 DEF Monitor
  <2> HIDE DEF v
  <2>3. CASE db' = db
    BY <1>1, <2>3, UnchangedSame
  <2>4. CASE db' = TruncateAbove(db, x) /\ v[1] <= eng.prog
    <3>1. x \in Nat
      BY <1>2, <2>1, <2>4
    <3> HIDE DEF x
    <3> QED BY <1>1, <2>4, <3>1, RewindSame
  <2> QED BY <2>2, <2>3, <2>4
<1> QED BY <1>3, <1>4, <1>5, <1>6, <1>7

LEMMA SameInit ==
  ASSUME CursorInv, LineageOK(lineage), ~Excused, NEW b, NEW h, Good(lineage, tip, db, eng, b, h),
         InitFromActivation \/ InitLocal \/ InitReplay
  PROVE  SameBranch(db.trees, db'.trees)
<1> USE Heights1
<1>0. /\ eng.pc = "init" /\ DOMAIN db = {"local", "rows", "trees"} /\ AllSound(db.trees) /\ tip \in Nat
      /\ tip >= Birthday /\ db.local \in Nat
  BY Basics DEF InitFromActivation, InitLocal, InitReplay
<1>1. /\ Standing(lineage, tip, db, {}, b, h) /\ b \in 1..Len(lineage) /\ h \in Nat /\ h <= tip
      /\ HeldAt(lineage, db.trees, b, h)
  BY <1>0, NoFlight DEF MidBatchPcs, Standing
<1>2. h \in 0..tip
  BY <1>0, <1>1
<1>3. CASE InitFromActivation
  <2> DEFINE base == Activation - 1
             trees == [p \in Pools |-> AddCheckpoint(EmptyTree, base)]
  <2>1. db' = [db EXCEPT !.trees = trees, !.local = base]
    BY <1>3 DEF InitFromActivation
  <2>2. base \in Nat /\ base \in 0..tip /\ base < Activation
    BY <1>0
  <2>3. ASSUME NEW p \in Pools PROVE Holds(p, lineage, trees[p], b, base)
    <3>1. trees[p] = AddCheckpoint(EmptyTree, base)
      OBVIOUS
    <3> HIDE DEF base, trees
    <3>2. Count(p, base) = 0
      BY <2>2, CountNone, base \in Int
    <3>3. Holds(p, lineage, EmptyTree, b, base) /\ SoundTree(p, EmptyTree)
      BY <3>2, EmptyHolds, EmptySound
    <3> QED BY <2>2, <3>1, <3>3, AddHolds
  <2> HIDE DEF trees, base
  <2>4. db'.trees = trees
    BY <1>0, <2>1
  <2>5. HeldAt(lineage, db'.trees, b, base)
    BY <2>3, <2>4 DEF HeldAt
  <2> QED BY <1>1, <1>2, <2>2, <2>5 DEF SameBranch
<1>4. CASE InitLocal
  <2> DEFINE x == eng.start - 1
             trees == [p \in Pools |-> Retain(db.trees[p], x)]
  <2>1. db' = [db EXCEPT !.trees = trees]
    BY <1>0, <1>4 DEF InitLocal
  <2>2. ASSUME NEW p \in Pools PROVE Holds(p, lineage, trees[p], b, h)
    <3>1. trees[p] = Retain(db.trees[p], x)
      OBVIOUS
    <3>2. SoundTree(p, db.trees[p]) /\ Holds(p, lineage, db.trees[p], b, h)
      BY <1>0, <1>1 DEF AllSound, HeldAt
    <3> HIDE DEF trees, x
    <3> QED BY <3>1, <3>2, RetainHolds
  <2> HIDE DEF trees
  <2>3. db'.trees = trees
    BY <1>0, <2>1
  <2>4. HeldAt(lineage, db'.trees, b, h)
    BY <2>2, <2>3 DEF HeldAt
  <2> QED BY <1>1, <1>2, <2>4 DEF SameBranch
<1>5. CASE InitReplay
  <2> DEFINE c == PartialReplay(db, eng.start - 1)
             trees == [p \in Pools |-> TruncateTree(db.trees[p], c)]
  <2>1. db' = [db EXCEPT !.trees = trees, !.local = c] /\ c >= Activation - 1
    BY <1>5 DEF InitReplay
  <2>2. c = -1 \/ c = NewestCommon(db.trees, db.local)
    BY DEF PartialReplay
  <2> HIDE DEF c
  <2>a. c # -1 /\ c >= 0
    <3>1. NewestCommon(db.trees, db.local) \in Int
      BY <1>0, CommonBounded, db.local \in Int
    <3> QED BY <2>1, <2>2, <3>1
  <2>3. c \in Common(db.trees)
    BY <1>0, <2>2, <2>a, CommonMember, db.local \in Int
  <2>4. c \in 0..tip
    <3>1. c \in Nat /\ c <= h
      BY <1>1, <2>3, CommonHeld
    <3> QED BY <1>0, <1>1, <3>1
  <2>5. ASSUME NEW p \in Pools PROVE Holds(p, lineage, trees[p], b, c)
    <3>1. SoundTree(p, db.trees[p]) /\ Holds(p, lineage, db.trees[p], b, h) /\ c \in Checkpoints(db.trees[p])
      BY <1>0, <1>1, <2>3 DEF AllSound, HeldAt, Common
    <3>2. trees[p] = TruncateTree(db.trees[p], c)
      OBVIOUS
    <3> HIDE DEF trees
    <3> QED BY <1>1, <3>1, <3>2, TruncateHolds, h \in Int
  <2> HIDE DEF trees
  <2>6. db'.trees = trees
    BY <1>0, <2>1
  <2>7. HeldAt(lineage, db'.trees, b, c)
    BY <2>5, <2>6 DEF HeldAt
  <2> QED BY <1>1, <1>2, <2>4, <2>7 DEF SameBranch
<1> QED BY <1>3, <1>4, <1>5

LEMMA SameCommit ==
  ASSUME CursorInv, LineageOK(lineage), ~Excused, NEW b, NEW h, Good(lineage, tip, db, eng, b, h), CommitTrees
  PROVE  SameBranch(db.trees, db'.trees)
<1> DEFINE e == Final(eng.batch)
           dense == PerBlock(eng.batch, eng.end)
           trees == [p \in Pools |-> InsertBatch(p, eng.batch, eng.pos[p], dense, WorkerTrees[p])]
<1>0. /\ eng.pc = "batch" /\ BoundaryValid /\ WorkerTrees = db.trees /\ AllSound(db.trees)
      /\ DOMAIN db = {"local", "rows", "trees"} /\ tip \in Nat
  BY WorkerHasTrees, Basics DEF CommitTrees, CursorInv
<1>1. PICK c : OnBatch(lineage, tip, db, eng, b, h, c)
  BY <1>0 DEF Good, Batching, InBatch
<1>2. Agree(lineage, b, c, h) /\ h = eng.cur - 1 /\ PosAt(eng.pos, h) /\ h \in Nat
  BY <1>0, <1>1, BoundaryAgrees
<1>3. /\ Fetched(eng.batch, eng.cur) /\ eng.cur \in Nat /\ eng.cur >= 1 /\ e \in Nat
  BY <1>0, BatchFacts DEF InBatch
<1>4. c \in 1..Len(lineage) /\ FetchedOn(lineage, eng.batch, eng.cur, c) /\ e <= tip
  BY <1>1 DEF OnBatch
<1>5. HeldAt(lineage, db.trees, b, h) /\ h <= tip
  BY DEF Good, Standing
<1>6. db' = [db EXCEPT !.trees = trees]
  BY DEF CommitTrees
<1>7. ASSUME NEW p \in Pools
      PROVE  Holds(p, lineage, trees[p], c, e) /\ Holds(p, lineage, db.trees[p], c, h)
  <2>0. /\ eng.pos[p] = Count(p, eng.cur - 1) /\ Holds(p, lineage, db.trees[p], b, eng.cur - 1)
        /\ SoundTree(p, db.trees[p]) /\ Agree(lineage, b, c, eng.cur - 1)
        /\ Holds(p, lineage, db.trees[p], b, h)
    BY <1>0, <1>2, <1>5 DEF PosAt, HeldAt, AllSound
  <2>1. trees[p] = InsertBatch(p, eng.batch, Count(p, eng.cur - 1), dense, db.trees[p])
    BY <1>0, <2>0
  <2> HIDE DEF trees, dense
  <2>2. Holds(p, lineage, trees[p], c, e)
    BY <1>3, <1>4, <2>0, <2>1, InsertHolds
  <2>3. Leaves(p, lineage, b, h) = Leaves(p, lineage, c, h)
    BY <1>2, LeavesAgree, h \in Int
  <2> QED BY <2>0, <2>2, <2>3 DEF Holds
<1> HIDE DEF trees, e
<1>8. db'.trees = trees
  BY <1>0, <1>6
<1>9. HeldAt(lineage, db.trees, c, h) /\ HeldAt(lineage, db'.trees, c, e)
  BY <1>7, <1>8 DEF HeldAt
<1>10. h \in 0..tip /\ e \in 0..tip
  BY <1>0, <1>2, <1>3, <1>4, <1>5
<1> QED BY <1>4, <1>9, <1>10 DEF SameBranch

LEMMA SameCheckpoint ==
  ASSUME CursorInv, ~Excused, NEW b, NEW h, Good(lineage, tip, db, eng, b, h), BatchCheckpoint \/ Finish
  PROVE  SameBranch(db.trees, db'.trees)
<1> USE Heights1
<1>0. /\ SyncTypes /\ AllSound(db.trees) /\ tip \in Nat /\ eng.cur \in Nat /\ eng.end \in Nat /\ eng.prog \in Nat
  BY Basics DEF CursorInv, CoherenceInv
<1>1. b \in 1..Len(lineage) /\ h \in Nat /\ h <= tip /\ HeldAt(lineage, db.trees, b, h)
  BY DEF Good, Standing
<1>2. h \in 0..tip
  BY <1>0, <1>1
<1>3. db' = db \/ (WorkerTrees = db.trees /\ \E retain : WorkerCheckpoint(h, retain))
  <2>1. CASE BatchCheckpoint
    <3>1. eng.pc = "ckpt" /\ \E retain : WorkerCheckpoint(Final(eng.batch), retain)
      BY <2>1 DEF BatchCheckpoint
    <3>2. h = Final(eng.batch) /\ WorkerTrees = db.trees
      BY <3>1, MidFacts, WorkerHasTrees DEF MidBatchPcs, CursorInv
    <3> QED BY <3>1, <3>2
  <2>2. CASE Finish
    <3> DEFINE x == IF eng.follow THEN eng.prog ELSE eng.end
    <3>1. eng.pc = "main" /\ eng.cur > eng.end /\ (WorkerCheckpoint(x, FALSE) \/ db' = db)
      BY <2>2 DEF Finish
    <3>2. eng.prog = eng.cur - 1 /\ WorkerTrees = db.trees
      <4>1. eng.prog = eng.cur - 1
        BY <1>0, <3>1 DEF CursorInv, Order
      <4> QED BY <3>1, <4>1, WorkerHasTrees DEF CursorInv
    <3>3. h = eng.cur - 1 /\ eng.cur <= eng.end + 1
      BY <3>1 DEF Good, Running, RunPcs
    <3>4. x = h
      BY <1>0, <3>1, <3>2, <3>3
    <3> HIDE DEF x
    <3> QED BY <3>1, <3>2, <3>4
  <2> QED BY <2>1, <2>2
<1>4. HeldAt(lineage, db'.trees, b, h)
  BY <1>0, <1>1, <1>3, CheckpointHolds
<1> QED BY <1>1, <1>2, <1>4 DEF SameBranch

\* seed_shardtrees_from_tree_state: the log starts again on the server's chain.
LEMMA SeedStep ==
  ASSUME FullPool, CursorInv, LineageOK(lineage), ~Excused, InitSeed
  PROVE  Log!Next
<1> USE Heights1
<1>0. /\ DOMAIN db = {"local", "rows", "trees"} /\ tip \in Nat /\ tip <= Top /\ eng.start \in Nat
      /\ eng.start > Activation
  BY Basics DEF InitSeed
<1> DEFINE x == eng.start - 1
           n == Len(lineage)
           seed(p) == AddCheckpoint([EmptyTree EXCEPT !.leaves = LeavesTo(p, Branch, x)], x)
           trees == [p \in Pools |-> Retain(seed(p), x)]
<1>1. db' = [db EXCEPT !.trees = trees] /\ x <= tip
  BY DEF InitSeed
<1>2. x \in Nat /\ x \in 1..tip /\ x <= Top /\ x \in 0..Top
  BY <1>0, <1>1, FullCounts
<1>3. ASSUME NEW p \in Pools PROVE Holds(p, lineage, trees[p], n, x) /\ Checkpoints(trees[p]) = {x}
  <2>1. LeavesTo(p, Branch, x) = Leaves(p, lineage, n, x)
    BY <1>2, LeavesToIs, x \in Int DEF Branch
  <2>2. trees[p] = Retain(seed(p), x)
    OBVIOUS
  <2>3. seed(p) = SeedTree(p, lineage, n, x)
    BY <2>1 DEF SeedTree
  <2> HIDE DEF seed, trees, x
  <2>4. Holds(p, lineage, seed(p), n, x) /\ x \in Checkpoints(seed(p)) /\ SoundTree(p, seed(p))
        /\ Checkpoints(seed(p)) \in SUBSET {x}
    BY <1>2, <2>3, SeedHolds
  <2> QED BY <2>2, <2>4, RetainHolds
<1> HIDE DEF trees, seed, x
<1>4. db'.trees = trees
  BY <1>0, <1>1
<1>5. HeldAt(lineage, trees, n, x)
  BY <1>3 DEF HeldAt
<1>6. Common(trees) = {x}
  <2>1. \E p : p \in Pools
    BY PoolsAssumption
  <2> QED BY <1>2, <1>3, <2>1 DEF Common
<1>7. NewestCommon(trees, Top) = x
  <2>1. {k \in Common(trees) : k <= Top} = {x}
    BY <1>2, <1>6
  <2>2. Max({x}) = x
    BY DEF Max
  <2> QED BY <2>1, <2>2 DEF NewestCommon
<1>8. ReadLog(trees) = LogOf(lineage, n, x)
  BY <1>2, <1>5, <1>7, LogRead
<1>9. Scanned(Full)' = ReadLog(db'.trees)
  BY DEF Scanned, ReadLog
<1>10. Log!ChainTo(n, x) = LogOf(lineage, n, x)
  BY DEF Log!ChainTo, Log!Ancestor, LogOf, AncIn
<1>11. Log!Seed
  BY <1>2, <1>4, <1>8, <1>9, <1>10 DEF Log!Seed, Log!Branch
<1> QED BY <1>11 DEF Log!Next

LEMMA LogStep ==
  ASSUME FullPool, TreeInv, ~Excused, [Next]_vars
  PROVE  [Log!Next]_(Scanned(Full))
<1>0. CursorInv /\ LineageOK(lineage)
  BY DEF TreeInv
<1>1. PICK b, h : Good(lineage, tip, db, eng, b, h)
  BY DEF TreeInv, SomeGood
<1> USE <1>0, <1>1
<1>2. CASE db'.trees = db.trees
  <2>1. Scanned(Full)' = ReadLog(db'.trees) /\ Scanned(Full) = ReadLog(db.trees)
    BY DEF Scanned, ReadLog
  <2> QED BY <1>2, <2>1
<1>3. CASE SameBranch(db.trees, db'.trees)
  BY <1>3, SameBranchStep
<1>4. CASE InitSeed
  BY <1>4, SeedStep
<1>5. CASE \/ UNCHANGED vars \/ Grow \/ Reorg \/ Start \/ NoRepair \/ Fetch \/ SkipCheckpoint \/ SkipSave
           \/ Return \/ Stop \/ InsertFails
  <2>1. db' = db
    BY <1>5 DEF vars, Grow, Reorg, Start, NoRepair, Fetch, SkipCheckpoint, SkipSave, Return, Stop, InsertFails
  <2> QED BY <1>2, <2>1
<1>6. CASE PersistNotes \/ SaveState
  <2>1. DOMAIN db = {"local", "rows", "trees"}
    BY Basics
  <2>2. \E local, rows : db' = [db EXCEPT !.local = local] \/ db' = [db EXCEPT !.local = local, !.rows = rows]
    BY <1>6 DEF PersistNotes, SaveState, SaveProgress
  <2>3. db'.trees = db.trees
    BY <2>1, <2>2
  <2> QED BY <1>2, <2>3
<1>7. CASE StartRescan \/ Validate \/ Repair \/ BoundaryReorg \/ Monitor
  BY <1>3, <1>7, SameRewinds
<1>8. CASE InitFromActivation \/ InitLocal \/ InitReplay
  BY <1>3, <1>8, SameInit
<1>9. CASE CommitTrees \/ BatchCheckpoint \/ Finish
  BY <1>3, <1>9, SameCommit, SameCheckpoint
<1> QED BY <1>4, <1>5, <1>6, <1>7, <1>8, <1>9 DEF Next, Engine

LEMMA LogStart ==
  ASSUME FullPool, Init
  PROVE  Log!Init
<1> USE Heights1
<1> DEFINE none == [k \in {} |-> NoBlock]
<1>1. db = [local |-> 0, rows |-> none, trees |-> NoTrees]
  BY DEF Init
<1> HIDE DEF none
<1>2. db.trees = NoTrees
  BY <1>1
<1>3. Common(NoTrees) = {}
  <2>1. \E p : p \in Pools
    BY PoolsAssumption
  <2>2. \A p \in Pools : Checkpoints(NoTrees[p]) = {}
    BY DEF NoTrees, EmptyTree, Checkpoints
  <2> QED BY <2>1, <2>2 DEF Common
<1>4. NewestCommon(NoTrees, Top) = -1
  BY <1>3 DEF NewestCommon
<1>5. Scanned(Full) = <<>>
  BY <1>2, <1>4 DEF Scanned
<1> QED BY <1>5 DEF Log!Init

\* ImplementsScanLog: the commitment trees are a log of blocks that follow each
\* other.  A step of the engine adds blocks that continue the last one, forgets
\* a suffix, or starts again from a tree state of the server's chain.
THEOREM TreesImplementScanLog ==
  ASSUME Birthday > 1, FullPool
  PROVE  Spec /\ [][ReorgWithinWindow]_vars /\ []~Excused => ImplementsScanLog
<1>1. TreeInv /\ ~Excused /\ [Next]_vars => [Log!Next]_(Scanned(Full))
  BY LogStep
<1>2. TreeInv /\ [Next]_vars /\ [ReorgWithinWindow]_vars => TreeInv'
  BY TreeStep
<1>3. Init => Log!Init
  BY LogStart
<1> QED BY TreeStart, <1>1, <1>2, <1>3, PTL DEF Spec, ImplementsScanLog, Log!Spec
=============================================================================
