--------------------------- MODULE BlockCacheProofs -------------------------
(***************************************************************************)
(* That the coverage table of BlockCache claims only rows that are there,  *)
(* and that no wallet scans a block onto one that is not its parent, for   *)
(* any number of wallets, any chain and any number of reorganisations.     *)
(*                                                                         *)
(* The first is a fact about sets of intervals: recording, removing and    *)
(* truncating keep them ordered and apart, and never claim a height that   *)
(* was neither claimed before nor stored in the same transaction.  That    *)
(* needs the ranges the engines pass to be non-empty (Batch): removing an  *)
(* empty range would leave two intervals that overlap.                     *)
(*                                                                         *)
(* The second is about what a wallet remembers (Memory, Witnessed): a run  *)
(* knows the last block it scanned, and a wallet that is not adrift has a  *)
(* hash row to resume from, which is of the block it scanned there.        *)
(***************************************************************************)
EXTENDS BlockCache, Extrema

Blocks == {0, 1}
Branches == {Missing, 0, 1}
EnginePcs == {"idle", "horizon", "anchor", "route", "check", "lease", "wait", "stream", "scan", "save"}
Running == EnginePcs \ {"idle", "save"}
Engines == [pc : EnginePcs, range : Int \X Int, blocks : Seq(Blocks), to : Int, lead : BOOLEAN,
            tail : Branches, behind : Int \X Int, prev : Branches]
Stores == [cursor : Int, hash : [Heights -> Branches]]
Intervals == Heights \X Heights

CacheTypes ==
    /\ fork \in Heights /\ side \in {0, 1}
    /\ rows \in [Heights -> Branches]
    /\ coverage \in SUBSET Intervals
    /\ leases \in SUBSET [by : Wallets, from : Int, to : Int]
    /\ eng \in [Wallets -> Engines]
    /\ scanned \in [Wallets -> Seq(Blocks)]
    /\ store \in [Wallets -> Stores] /\ adrift \in SUBSET Wallets

\* What the engine has read or fetched starts where the wallet has scanned to, a
\* batch that reaches the scanner is linked in itself, and one that waits for its
\* flush is the end of what was scanned.
Batch(w) ==
    /\ Current(w) <= Tip + 1
    /\ eng[w].pc \in {"anchor", "check", "scan"} => Current(w) <= eng[w].to /\ eng[w].to <= Tip
    /\ eng[w].pc \in {"check", "scan"} => Len(eng[w].blocks) = eng[w].to - Current(w) + 1
    /\ eng[w].pc = "scan" => Linked(eng[w].blocks, Current(w))
    /\ eng[w].pc = "save" =>
         /\ eng[w].to = Current(w) - 1 /\ 0 < Len(eng[w].blocks) /\ Len(eng[w].blocks) <= Len(scanned[w])
         /\ \A i \in 1..Len(eng[w].blocks) :
               scanned[w][Len(scanned[w]) - Len(eng[w].blocks) + i] = eng[w].blocks[i]

\* The cursor is within what was scanned; a run knows the last block it scanned.
Memory(w) ==
    /\ Birthday[w] - 1 <= store[w].cursor /\ store[w].cursor < Current(w)
    /\ \A h \in Heights : h < Birthday[w] => store[w].hash[h] = Missing
    /\ eng[w].pc = "idle" => store[w].cursor = Current(w) - 1
    /\ eng[w].pc \notin {"idle", "save", "route"} => Current(w) <= Tip
    /\ eng[w].pc = "route" /\ Current(w) = Tip + 1 => store[w].cursor = Tip /\ store[w].hash[Tip] # Missing
    /\ eng[w].pc # "save" /\ eng[w].prev # Missing =>
         Len(scanned[w]) > 0 /\ eng[w].prev = scanned[w][Len(scanned[w])]

\* The hash rows are of the blocks that were scanned, and there is one where a run
\* has to start from it.
Agrees(w, n) == \A h \in Birthday[w]..n : store[w].hash[h] \in {Missing, scanned[w][h - Birthday[w] + 1]}
Witnessed(w) ==
    /\ Linked(scanned[w], Birthday[w])
    /\ eng[w].pc # "save" => Agrees(w, Current(w) - 1)
    /\ eng[w].pc = "save" => Agrees(w, BatchStart(w) - 1)
    /\ eng[w].pc \in Running /\ eng[w].prev = Missing /\ Len(scanned[w]) > 0 =>
         store[w].hash[Current(w) - 1] # Missing
    /\ eng[w].pc = "idle" /\ Len(scanned[w]) > 0 => ResumeRow(w) # 0

CacheInv ==
    /\ CacheTypes /\ CoverageBacked
    /\ \A w \in Wallets : Batch(w) /\ Memory(w) /\ (w \notin adrift => Witnessed(w))

-----------------------------------------------------------------------------
(* Sets of intervals *)

Ordered(cov) == \A r \in cov : r[1] <= r[2]
Apart(cov) == \A r, q \in cov : r # q => r[2] + 1 < q[1] \/ q[2] + 1 < r[1]
In(h, cov) == \E q \in cov : q[1] <= h /\ h <= q[2]

LEMMA HeightsAre == Heights \subseteq Nat /\ Tip \in Nat /\ \A h \in Heights : 1 <= h /\ h <= Tip
BY CacheAssumption DEF Heights

\* record_coverage_tx: the merged interval holds the new range and the old ones it
\* touches, and no height besides.
LEMMA RecordedSound ==
  ASSUME NEW cov \in SUBSET Intervals, Ordered(cov), Apart(cov),
         NEW s \in Heights, NEW e \in Heights, s <= e
  PROVE  /\ Recorded(cov, s, e) \in SUBSET Intervals
         /\ Ordered(Recorded(cov, s, e)) /\ Apart(Recorded(cov, s, e))
         /\ \A r \in Recorded(cov, s, e) : \A h \in r[1]..r[2] : h \in s..e \/ In(h, cov)
<1> DEFINE touching == {r \in cov : r[2] >= s - 1 /\ r[1] <= e + 1}
           L == {s} \cup {r[1] : r \in touching}
           U == {e} \cup {r[2] : r \in touching}
           a == Min(L)
           b == Max(U)
<1>1. /\ s \in Nat /\ e \in Nat /\ Tip \in Nat /\ 1 <= s /\ e <= Tip
      /\ \A r \in cov : r[1] \in Heights /\ r[2] \in Heights /\ r[1] \in Nat /\ r[2] \in Nat /\ r[1] <= r[2]
  BY HeightsAre DEF Intervals, Ordered
<1>2. a \in L /\ \A y \in L : a <= y
  <2>1. L \in SUBSET Nat /\ L # {}
    BY <1>1
  <2> HIDE DEF L
  <2> QED BY <2>1, MinIsMember
<1>3. b \in U /\ \A y \in U : b >= y
  <2>1. U \in SUBSET Nat /\ U # {} /\ \A y \in U : y <= Tip
    BY <1>1, HeightsAre
  <2> HIDE DEF U
  <2> QED BY <1>1, <2>1, MaxIsMember
<1>4. Recorded(cov, s, e) = (cov \ touching) \cup {<<a, b>>}
  BY DEF Recorded
<1>5. /\ a \in Heights /\ b \in Heights /\ a \in Nat /\ b \in Nat /\ a <= s /\ e <= b
      /\ a = s \/ \E r \in touching : a = r[1]
      /\ b = e \/ \E r \in touching : b = r[2]
  BY <1>1, <1>2, <1>3
<1> HIDE DEF a, b
<1>6. ASSUME NEW h \in a..b PROVE h \in s..e \/ In(h, cov)
  <2>1. CASE h < s
    <3>1. PICK r \in touching : a = r[1]
      BY <1>1, <1>5, <2>1
    <3> QED BY <1>1, <1>5, <2>1, <3>1 DEF In
  <2>2. CASE h > e
    <3>1. PICK r \in touching : b = r[2]
      BY <1>1, <1>5, <2>2
    <3> QED BY <1>1, <1>5, <2>2, <3>1 DEF In
  <2> QED BY <1>1, <1>5, <2>1, <2>2
<1>7. ASSUME NEW q \in cov \ touching PROVE b + 1 < q[1] \/ q[2] + 1 < a
  <2>1. CASE q[2] < s - 1
    <3>1. ASSUME NEW r \in touching PROVE q[2] + 1 < r[1]
      <4>1. r # q /\ r \in cov
        BY <3>1
      <4>2. r[2] + 1 < q[1] \/ q[2] + 1 < r[1]
        BY <4>1 DEF Apart
      <4> QED BY <1>1, <2>1, <4>1, <4>2
    <3> QED BY <1>1, <1>5, <2>1, <3>1
  <2>2. CASE q[1] > e + 1
    <3>1. ASSUME NEW r \in touching PROVE r[2] + 1 < q[1]
      <4>1. r # q /\ r \in cov
        BY <3>1
      <4>2. r[2] + 1 < q[1] \/ q[2] + 1 < r[1]
        BY <4>1 DEF Apart
      <4> QED BY <1>1, <2>2, <4>1, <4>2
    <3> QED BY <1>1, <1>5, <2>2, <3>1
  <2> QED BY <1>1, <2>1, <2>2
<1>8. Recorded(cov, s, e) \in SUBSET Intervals
  BY <1>4, <1>5 DEF Intervals
<1>9. Ordered(Recorded(cov, s, e))
  BY <1>1, <1>4, <1>5 DEF Ordered
<1>10. Apart(Recorded(cov, s, e))
  <2> SUFFICES ASSUME NEW r \in Recorded(cov, s, e), NEW q \in Recorded(cov, s, e), r # q
               PROVE  r[2] + 1 < q[1] \/ q[2] + 1 < r[1]
    BY DEF Apart
  <2>1. CASE r = <<a, b>>
    BY <1>4, <1>7, <2>1
  <2>2. CASE q = <<a, b>>
    BY <1>4, <1>7, <2>2
  <2>3. CASE r \in cov /\ q \in cov
    BY <2>3 DEF Apart
  <2> QED BY <1>4, <2>1, <2>2, <2>3
<1>11. ASSUME NEW r \in Recorded(cov, s, e), NEW h \in r[1]..r[2] PROVE h \in s..e \/ In(h, cov)
  <2>1. CASE r = <<a, b>>
    BY <1>6, <2>1
  <2>2. CASE r \in cov
    BY <1>1, <2>2 DEF In
  <2> QED BY <1>4, <2>1, <2>2
<1> QED BY <1>8, <1>9, <1>10, <1>11

\* remove_coverage_tx: what is left is outside the range and was covered before.
LEMMA RemovedSound ==
  ASSUME NEW cov \in SUBSET Intervals, Ordered(cov), Apart(cov),
         NEW s \in Heights, NEW e \in Heights, s <= e
  PROVE  /\ Removed(cov, s, e) \in SUBSET Intervals
         /\ Ordered(Removed(cov, s, e)) /\ Apart(Removed(cov, s, e))
         /\ \A r \in Removed(cov, s, e) : \A h \in r[1]..r[2] : h \notin s..e /\ In(h, cov)
<1>1. /\ s \in Nat /\ e \in Nat /\ Tip \in Nat /\ 1 <= s /\ e <= Tip
      /\ \A r \in cov : r[1] \in Heights /\ r[2] \in Heights /\ r[1] \in Nat /\ r[2] \in Nat /\ r[1] <= r[2]
  BY HeightsAre DEF Intervals, Ordered
\* A piece of q that lies before or after the range.
<1> DEFINE Piece(r, q) == /\ r[1] <= r[2] /\ q[1] <= r[1] /\ r[2] <= q[2] /\ r \in Intervals
                          /\ \/ r[2] = q[2] /\ r[1] = q[1] /\ r = q /\ (q[2] < s \/ e < q[1])
                             \/ r[2] = s - 1 /\ r[1] = q[1] /\ r = <<q[1], s - 1>> /\ q[1] <= e /\ s <= q[2]
                             \/ r[1] = e + 1 /\ r[2] = q[2] /\ r = <<e + 1, q[2]>> /\ q[1] <= e /\ s <= q[2]
<1>2. ASSUME NEW r \in Removed(cov, s, e) PROVE \E q \in cov : Piece(r, q)
  <2>1. CASE r \in cov /\ ~(r[1] <= e /\ r[2] >= s)
    BY <1>1, <2>1
  <2>2. ASSUME NEW q \in cov, q[1] <= e, q[2] >= s, q[1] < s, r = <<q[1], s - 1>> PROVE Piece(r, q)
    BY <1>1, <2>2 DEF Intervals, Heights
  <2>3. ASSUME NEW q \in cov, q[1] <= e, q[2] >= s, q[2] > e, r = <<e + 1, q[2]>> PROVE Piece(r, q)
    BY <1>1, <2>3 DEF Intervals, Heights
  <2> HIDE DEF Piece
  <2> QED BY <2>1, <2>2, <2>3 DEF Removed
<1>3. ASSUME NEW r \in Removed(cov, s, e)
      PROVE  /\ r \in Intervals /\ r[1] <= r[2]
             /\ \A h \in r[1]..r[2] : h \notin s..e /\ In(h, cov)
  <2>1. PICK q \in cov : Piece(r, q)
    BY <1>2
  <2>2. r[1] \in Nat /\ r[2] \in Nat
    BY <1>1, <2>1
  <2> QED BY <1>1, <2>1, <2>2 DEF In
<1>4. Apart(Removed(cov, s, e))
  <2> SUFFICES ASSUME NEW r \in Removed(cov, s, e), NEW q \in Removed(cov, s, e), r # q
               PROVE  r[2] + 1 < q[1] \/ q[2] + 1 < r[1]
    BY DEF Apart
  <2>1. PICK x \in cov : Piece(r, x)
    BY <1>2
  <2>2. PICK y \in cov : Piece(q, y)
    BY <1>2
  <2>3. r[1] \in Nat /\ r[2] \in Nat /\ q[1] \in Nat /\ q[2] \in Nat
    BY <1>1, <2>1, <2>2
  <2>4. CASE x = y
    BY <1>1, <2>1, <2>2, <2>3, <2>4
  <2>5. CASE x # y
    <3>1. x[2] + 1 < y[1] \/ y[2] + 1 < x[1]
      BY <2>5 DEF Apart
    <3> QED BY <1>1, <2>1, <2>2, <2>3, <3>1
  <2> QED BY <2>4, <2>5
<1>5. Removed(cov, s, e) \in SUBSET Intervals
  BY <1>3
<1> QED BY <1>3, <1>4, <1>5 DEF Ordered

\* delete_above: every interval ends at the height, or is gone.
Truncated(cov, height) == {<<r[1], Min({r[2], height})>> : r \in {q \in cov : q[1] <= height}}
LEMMA TruncatedSound ==
  ASSUME NEW cov \in SUBSET Intervals, Ordered(cov), Apart(cov), NEW height \in 0..Tip
  PROVE  /\ Truncated(cov, height) \in SUBSET Intervals
         /\ Ordered(Truncated(cov, height)) /\ Apart(Truncated(cov, height))
         /\ \A r \in Truncated(cov, height) : \A h \in r[1]..r[2] : h <= height /\ In(h, cov)
<1>1. /\ Tip \in Nat /\ height \in Nat /\ height <= Tip
      /\ \A r \in cov : /\ r[1] \in Nat /\ r[2] \in Nat /\ 1 <= r[1] /\ r[1] <= r[2] /\ r[2] <= Tip
                        /\ r[1] \in Heights /\ r[2] \in Heights
  <2>1. Tip \in Nat /\ height \in Nat /\ height <= Tip
    BY HeightsAre
  <2>2. \A r \in cov : r[1] \in Heights /\ r[2] \in Heights /\ r[1] <= r[2]
    BY DEF Intervals, Ordered
  <2> QED BY <2>1, <2>2, HeightsAre
<1>2. ASSUME NEW r \in Truncated(cov, height)
      PROVE  \E q \in cov : /\ r \in Intervals /\ r = <<q[1], r[2]>> /\ r[1] = q[1] /\ r[1] <= r[2]
                             /\ r[2] \in Nat /\ r[2] <= q[2] /\ r[2] <= height
                             /\ r[2] = IF q[2] <= height THEN q[2] ELSE height
  <2>1. PICK q \in cov : q[1] <= height /\ r = <<q[1], Min({q[2], height})>>
    BY DEF Truncated
  <2>2. Min({q[2], height}) = IF q[2] <= height THEN q[2] ELSE height
    BY <1>1, MinOfTwo
  <2> QED BY <1>1, <2>1, <2>2 DEF Intervals, Heights
<1>3. Apart(Truncated(cov, height))
  <2> SUFFICES ASSUME NEW r \in Truncated(cov, height), NEW q \in Truncated(cov, height), r # q
               PROVE  r[2] + 1 < q[1] \/ q[2] + 1 < r[1]
    BY DEF Apart
  <2>1. PICK x \in cov : /\ r = <<x[1], r[2]>> /\ r[1] = x[1] /\ r[2] \in Nat /\ r[2] <= x[2]
                         /\ r[2] = IF x[2] <= height THEN x[2] ELSE height
    BY <1>2
  <2>2. PICK y \in cov : /\ q = <<y[1], q[2]>> /\ q[1] = y[1] /\ q[2] \in Nat /\ q[2] <= y[2]
                         /\ q[2] = IF y[2] <= height THEN y[2] ELSE height
    BY <1>2
  <2>3. x # y
    BY <2>1, <2>2
  <2>4. x[2] + 1 < y[1] \/ y[2] + 1 < x[1]
    BY <2>3 DEF Apart
  <2> QED BY <1>1, <2>1, <2>2, <2>4
<1>4. ASSUME NEW r \in Truncated(cov, height)
      PROVE  r \in Intervals /\ r[1] <= r[2] /\ \A h \in r[1]..r[2] : h <= height /\ In(h, cov)
  BY <1>1, <1>2 DEF In
<1> QED BY <1>3, <1>4 DEF Ordered

-----------------------------------------------------------------------------
(* The tables *)

LEMMA CoverageIs ==
  CoverageBacked <=> /\ Ordered(coverage) /\ Apart(coverage)
                     /\ \A r \in coverage : \A h \in r[1]..r[2] : rows[h] # Missing
BY DEF CoverageBacked, Ordered, Apart

\* The tables after a step: typed, and what is covered is there.
TablesSound ==
    /\ rows \in [Heights -> Branches] /\ coverage \in SUBSET Intervals
    /\ CoverageBacked

LEMMA CoveredRow ==
  ASSUME TablesSound, NEW h \in Int, In(h, coverage) PROVE h \in Heights /\ rows[h] # Missing
<1>1. PICK q \in coverage : q[1] <= h /\ h <= q[2]
  BY DEF In
<1>2. q[1] \in Heights /\ q[2] \in Heights
  BY DEF TablesSound, Intervals
<1>3. h \in q[1]..q[2] /\ h \in Heights
  BY <1>1, <1>2, HeightsAre DEF Heights
<1> QED BY <1>3 DEF TablesSound, CoverageBacked

LEMMA TablesKept == ASSUME TablesSound, UNCHANGED tables PROVE TablesSound'
BY DEF TablesSound, CoverageBacked, tables

\* Coverage that shrinks to heights whose rows stay, or grows by rows that are there.
LEMMA TablesChanged ==
  ASSUME TablesSound, rows' \in [Heights -> Branches], coverage' \in SUBSET Intervals,
         Ordered(coverage'), Apart(coverage'),
         \A r \in coverage' : \A h \in r[1]..r[2] : rows'[h] # Missing
  PROVE  TablesSound'
BY DEF TablesSound, CoverageBacked, Ordered, Apart

LEMMA IntervalInts ==
  ASSUME NEW r \in Intervals, NEW h \in r[1]..r[2] PROVE h \in Int /\ h \in Heights
BY HeightsAre DEF Intervals, Heights

LEMMA DeleteRangeStep ==
  ASSUME TablesSound, NEW s \in Heights, NEW e \in Heights, s <= e, DeleteRange(s, e) PROVE TablesSound'
<1>1. /\ coverage \in SUBSET Intervals /\ Ordered(coverage) /\ Apart(coverage)
  BY CoverageIs DEF TablesSound
<1>2. /\ coverage' \in SUBSET Intervals /\ Ordered(coverage') /\ Apart(coverage')
      /\ \A r \in coverage' : \A h \in r[1]..r[2] : h \notin s..e /\ In(h, coverage)
  BY <1>1, RemovedSound DEF DeleteRange
<1>3. rows' \in [Heights -> Branches]
  BY DEF DeleteRange, TablesSound, Branches
<1>4. ASSUME NEW r \in coverage', NEW h \in r[1]..r[2] PROVE rows'[h] # Missing
  <2>1. h \in Int /\ h \notin s..e /\ In(h, coverage)
    BY <1>2, IntervalInts
  <2>2. h \in Heights /\ rows[h] # Missing
    BY <2>1, CoveredRow
  <2> QED BY <2>1, <2>2 DEF DeleteRange
<1> QED BY <1>2, <1>3, <1>4, TablesChanged

LEMMA DeleteAboveStep ==
  ASSUME TablesSound, NEW height \in 0..Tip, DeleteAbove(height) PROVE TablesSound'
<1>1. /\ coverage \in SUBSET Intervals /\ Ordered(coverage) /\ Apart(coverage)
  BY CoverageIs DEF TablesSound
<1>2. coverage' = Truncated(coverage, height)
  BY DEF DeleteAbove, Truncated
<1>3. /\ coverage' \in SUBSET Intervals /\ Ordered(coverage') /\ Apart(coverage')
      /\ \A r \in coverage' : \A h \in r[1]..r[2] : h <= height /\ In(h, coverage)
  BY <1>1, <1>2, TruncatedSound
<1>4. rows' \in [Heights -> Branches]
  BY DEF DeleteAbove, TablesSound, Branches
<1>5. ASSUME NEW r \in coverage', NEW h \in r[1]..r[2] PROVE rows'[h] # Missing
  <2>1. h \in Int /\ h <= height /\ In(h, coverage) /\ height \in Int
    BY <1>3, IntervalInts, HeightsAre
  <2>2. h \in Heights /\ rows[h] # Missing
    BY <2>1, CoveredRow
  <2> QED BY <2>1, <2>2 DEF DeleteAbove
<1> QED BY <1>3, <1>4, <1>5, TablesChanged

\* Rows from s to e that are there are recorded, the others kept.
LEMMA RecordStep ==
  ASSUME TablesSound, NEW s \in Heights, NEW e \in Heights, s <= e,
         rows' \in [Heights -> Branches], coverage' = Recorded(coverage, s, e),
         \A h \in s..e : rows'[h] # Missing, \A h \in Heights \ (s..e) : rows'[h] = rows[h]
  PROVE  TablesSound'
<1>1. /\ coverage \in SUBSET Intervals /\ Ordered(coverage) /\ Apart(coverage)
  BY CoverageIs DEF TablesSound
<1>2. /\ coverage' \in SUBSET Intervals /\ Ordered(coverage') /\ Apart(coverage')
      /\ \A r \in coverage' : \A h \in r[1]..r[2] : h \in s..e \/ In(h, coverage)
  BY <1>1, RecordedSound
<1>3. ASSUME NEW r \in coverage', NEW h \in r[1]..r[2] PROVE rows'[h] # Missing
  <2>1. CASE h \in s..e
    BY <2>1
  <2>2. CASE h \notin s..e
    <3>1. h \in Int /\ In(h, coverage)
      BY <1>2, <2>2, IntervalInts
    <3>2. h \in Heights /\ rows[h] # Missing
      BY <3>1, CoveredRow
    <3> QED BY <2>2, <3>2
  <2> QED BY <2>1, <2>2
<1> QED BY <1>2, <1>3, TablesChanged

LEMMA StoreBlocksStep ==
  ASSUME TablesSound, NEW s \in Heights, NEW blocks \in Seq({0, 1}), Len(blocks) > 0,
         s + Len(blocks) - 1 <= Tip, StoreBlocks(s, blocks)
  PROVE  TablesSound'
<1> DEFINE e == s + Len(blocks) - 1
<1>1. /\ Len(blocks) \in Nat /\ e \in Heights /\ s <= e /\ s \in Nat
      /\ \A h \in s..e : h - s + 1 \in 1..Len(blocks)
  BY HeightsAre DEF Heights
<1>2. \A i \in 1..Len(blocks) : blocks[i] \in {0, 1}
  OBVIOUS
<1>3. /\ coverage' = Recorded(coverage, s, e)
      /\ rows' = [h \in Heights |-> IF h \in s..e THEN blocks[h - s + 1] ELSE rows[h]]
  BY DEF StoreBlocks
<1>4. \A h \in s..e : h \in Heights
  BY <1>1, HeightsAre DEF Heights
<1> HIDE DEF e
<1>5. /\ \A h \in s..e : rows'[h] \in {0, 1}
      /\ \A h \in Heights \ (s..e) : rows'[h] = rows[h]
  BY <1>1, <1>2, <1>3, <1>4
<1>6. rows' \in [Heights -> Branches] /\ \A h \in s..e : rows'[h] # Missing
  <2>1. \A h \in Heights : rows'[h] \in Branches
    BY <1>5 DEF TablesSound, Branches
  <2>2. \A h \in s..e : rows'[h] # Missing
    BY <1>5 DEF Missing
  <2> QED BY <1>3, <2>1, <2>2
<1> QED BY <1>1, <1>3, <1>5, <1>6, RecordStep

-----------------------------------------------------------------------------
(* What the engine reads from the tables *)

LEMMA CoverageEndBound == ASSUME TablesSound, NEW h \in Int PROVE CoverageEnd(h) \in 0..Tip
<1> DEFINE T == {0} \cup {r[2] : r \in {q \in coverage : q[1] <= h /\ q[2] >= h}}
<1>1. T \in SUBSET Nat /\ T # {} /\ \A y \in T : y <= Tip
  <2>1. \A r \in coverage : r[2] \in Heights
    BY DEF TablesSound, Intervals
  <2>2. 0 \in T /\ Tip \in Nat
    BY HeightsAre
  <2>3. \A y \in T : y \in Nat /\ y <= Tip
    BY <2>1, <2>2, HeightsAre
  <2> QED BY <2>2, <2>3
<1> HIDE DEF T
<1>2. Max(T) \in T
  BY <1>1, HeightsAre, MaxIsMember
<1> QED BY <1>1, <1>2, HeightsAre DEF CoverageEnd, T

LEMMA RunEndBound ==
  ASSUME TablesSound, NEW h \in Nat, 1 <= h, h <= Tip + 1
  PROVE  /\ RunEnd(h) \in (h - 1)..Tip
         /\ \A k \in h..RunEnd(h) : rows[k] # Missing
<1> DEFINE T == {h - 1} \cup {t \in h..Tip : \A k \in h..t : rows[k] # Missing}
<1>1. T \in SUBSET Nat /\ T # {} /\ \A y \in T : y <= Tip /\ h - 1 <= y
  BY HeightsAre
<1>2. \A y \in T : \A k \in h..y : rows[k] # Missing
  OBVIOUS
<1> HIDE DEF T
<1>3. Max(T) \in T
  BY <1>1, HeightsAre, MaxIsMember
<1>4. RunEnd(h) = Max(T)
  BY DEF RunEnd, T
<1>5. RunEnd(h) \in Nat /\ RunEnd(h) <= Tip /\ h - 1 <= RunEnd(h)
  BY <1>1, <1>3, <1>4
<1>6. \A k \in h..RunEnd(h) : rows[k] # Missing
  BY <1>2, <1>3, <1>4
<1> QED BY <1>5, <1>6, HeightsAre

LEMMA ServerBlockTyped == ASSUME NEW h PROVE ServerBlock(h) \in {0, 1}
BY DEF ServerBlock

\* Consecutive blocks of the server are parent and child.
LEMMA ServerLinked ==
  ASSUME fork \in Heights, side \in {0, 1}, NEW h \in Int
  PROVE  Links(ServerBlock(h), ServerBlock(h + 1), h + 1)
BY HeightsAre DEF Links, ServerBlock

-----------------------------------------------------------------------------
(* The engines *)

LEMMA DefaultsTyped ==
  /\ Idle \in Engines /\ Idle.pc = "idle" /\ Idle.prev = Missing /\ None \in Int \X Int
  /\ Missing \in Branches /\ 0 \in Branches /\ 1 \in Branches
BY DEF Idle, Engines, EnginePcs, None, Branches, Missing

With(q, pc, b, t) == [q EXCEPT !.pc = pc, !.blocks = b, !.to = t]
LEMMA EngineSet ==
  ASSUME NEW q \in Engines, NEW pc \in EnginePcs, NEW b \in Seq(Blocks), NEW t \in Int
  PROVE  /\ With(q, pc, b, t) \in Engines /\ With(q, pc, b, t).pc = pc
         /\ With(q, pc, b, t).blocks = b /\ With(q, pc, b, t).to = t
         /\ With(q, pc, b, t).prev = q.prev
BY DEF Engines, With

LEMMA EngineCleared ==
  ASSUME NEW q \in Engines, NEW pc \in EnginePcs
  PROVE  With(q, pc, <<>>, 0) \in Engines /\ With(q, pc, <<>>, 0).pc = pc /\ With(q, pc, <<>>, 0).prev = q.prev
<1> DEFINE b == <<>>
<1>1. b \in Seq(Blocks)
  OBVIOUS
<1> HIDE DEF b
<1>2. With(q, pc, b, 0) \in Engines /\ With(q, pc, b, 0).pc = pc /\ With(q, pc, b, 0).prev = q.prev
  BY <1>1, EngineSet
<1> QED BY <1>2 DEF b

LEMMA CacheInitInv == Init => CacheInv
<1> SUFFICES ASSUME Init PROVE CacheInv
  OBVIOUS
<1>1. rows \in [Heights -> Branches]
  BY DEF Init, Branches
<1>2. store \in [Wallets -> Stores]
  <2>1. ASSUME NEW w \in Wallets
        PROVE  [cursor |-> Birthday[w] - 1, hash |-> [h \in Heights |-> Missing]] \in Stores
    <3>1. Birthday[w] - 1 \in Int
      BY CacheAssumption
    <3> QED BY <3>1, DefaultsTyped DEF Stores
  <2> QED BY <2>1 DEF Init
<1>3. CacheTypes
  BY <1>1, <1>2, DefaultsTyped DEF Init, CacheTypes
<1>4. CoverageBacked
  BY DEF Init, CoverageBacked
<1>5. ASSUME NEW w \in Wallets PROVE Batch(w) /\ Memory(w) /\ Witnessed(w)
  <2>1. /\ eng[w].pc = "idle" /\ eng[w].prev = Missing /\ scanned[w] = <<>> /\ Len(scanned[w]) = 0
        /\ store[w].cursor = Birthday[w] - 1 /\ \A h \in Heights : store[w].hash[h] = Missing
    BY DefaultsTyped DEF Init
  <2>2. Birthday[w] \in 1..Tip /\ Tip \in Nat
    BY CacheAssumption, HeightsAre
  <2>3. Current(w) = Birthday[w]
    BY <2>1, <2>2 DEF Current
  <2>4. Batch(w)
    BY <2>1, <2>2, <2>3 DEF Batch
  <2>5. Memory(w)
    BY <2>1, <2>2, <2>3 DEF Memory
  <2>6. Witnessed(w)
    BY <2>1, <2>2, <2>3 DEF Witnessed, Linked, Agrees, Running, EnginePcs
  <2> QED BY <2>4, <2>5, <2>6
<1> QED BY <1>3, <1>4, <1>5 DEF CacheInv

LEMMA CacheTables == ASSUME CacheInv PROVE TablesSound
BY DEF CacheInv, CacheTypes, TablesSound

LEMMA CurrentTyped ==
  ASSUME CacheInv, NEW w \in Wallets
  PROVE  /\ Current(w) \in Nat /\ 1 <= Current(w) /\ Current(w) <= Tip + 1
         /\ Current(w) <= Tip => Current(w) \in Heights
         /\ Birthday[w] \in Nat /\ 1 <= Birthday[w] /\ Birthday[w] <= Tip /\ scanned[w] \in Seq(Blocks)
         /\ Len(scanned[w]) \in Nat /\ Current(w) = Birthday[w] + Len(scanned[w])
<1>1. Birthday[w] \in 1..Tip /\ Tip \in Nat
  BY CacheAssumption, HeightsAre
<1>2. scanned[w] \in Seq(Blocks) /\ Len(scanned[w]) \in Nat
  BY DEF CacheInv, CacheTypes
<1>3. Current(w) <= Tip + 1
  BY DEF CacheInv, Batch
<1> QED BY <1>1, <1>2, <1>3 DEF Current, Heights

LEMMA StoreTyped ==
  ASSUME CacheInv, NEW w \in Wallets
  PROVE  /\ store[w] \in Stores /\ store[w].cursor \in Int /\ store[w].hash \in [Heights -> Branches]
         /\ Birthday[w] - 1 <= store[w].cursor /\ store[w].cursor < Current(w)
         /\ store[w].cursor \in Nat /\ store[w].cursor <= Tip
<1>1. store[w] \in Stores
  BY DEF CacheInv, CacheTypes
<1>2. store[w].cursor \in Int /\ store[w].hash \in [Heights -> Branches]
  BY <1>1 DEF Stores
<1>3. Birthday[w] - 1 <= store[w].cursor /\ store[w].cursor < Current(w)
  BY DEF CacheInv, Memory
<1> QED BY <1>1, <1>2, <1>3, CurrentTyped, HeightsAre

\* Engine w goes on as e; of the others only followers of a lease may wake.
Moves(w, e) ==
    /\ eng' \in [Wallets -> Engines] /\ eng'[w].pc = e.pc /\ eng'[w].blocks = e.blocks /\ eng'[w].to = e.to
    /\ eng'[w].prev = e.prev
    /\ leases' \in SUBSET [by : Wallets, from : Int, to : Int]
    /\ \A v \in Wallets \ {w} : \/ eng'[v] = eng[v]
                                \/ eng[v].pc = "wait" /\ eng'[v].pc = "route" /\ eng'[v].prev = eng[v].prev

LEMMA GoesMoves ==
  ASSUME CacheInv, NEW w \in Wallets, NEW e \in Engines, Goes(w, e), UNCHANGED leases
  PROVE  Moves(w, e)
<1>1. eng \in [Wallets -> Engines] /\ leases \in SUBSET [by : Wallets, from : Int, to : Int]
  BY DEF CacheInv, CacheTypes
<1>2. eng' \in [Wallets -> Engines] /\ eng'[w] = e /\ \A v \in Wallets \ {w} : eng'[v] = eng[v]
  BY <1>1 DEF Goes
<1> QED BY <1>1, <1>2 DEF Moves

LEMMA ReleasedMoves ==
  ASSUME CacheInv, NEW w \in Wallets, NEW e \in Engines, Released(w, e)
  PROVE  Moves(w, e)
<1> DEFINE mine == {l \in leases : l.by = w}
           f == [e EXCEPT !.lead = FALSE, !.tail = Missing]
           Woken(v) == [eng[v] EXCEPT !.pc = "route", !.behind = None]
<1>1. f \in Engines /\ f.pc = e.pc /\ f.blocks = e.blocks /\ f.to = e.to /\ f.prev = e.prev
  BY DefaultsTyped DEF Engines
<1>2. \A v \in Wallets : Woken(v) \in Engines /\ Woken(v).pc = "route" /\ Woken(v).prev = eng[v].prev
  BY DefaultsTyped DEF Engines, EnginePcs, CacheInv, CacheTypes
<1>3. \A v \in Wallets : eng'[v] = IF v = w THEN f
                                   ELSE IF eng[v].pc = "wait" /\ \E l \in mine : eng[v].behind = <<l.from, l.to>>
                                        THEN Woken(v) ELSE eng[v]
  BY DEF Released
<1>4. DOMAIN eng' = Wallets /\ eng' = [v \in Wallets |-> eng'[v]]
  BY DEF Released
<1>5. leases' \in SUBSET [by : Wallets, from : Int, to : Int]
  BY DEF Released, CacheInv, CacheTypes
<1> HIDE DEF f, Woken, mine
<1>6. \A v \in Wallets : /\ eng'[v] \in Engines
                         /\ v # w => \/ eng'[v] = eng[v]
                                     \/ eng[v].pc = "wait" /\ eng'[v].pc = "route" /\ eng'[v].prev = eng[v].prev
  BY <1>1, <1>2, <1>3 DEF CacheInv, CacheTypes
<1>7. eng'[w] = f
  BY <1>3
<1>8. eng' \in [Wallets -> Engines]
  BY <1>4, <1>6
<1>9. \A v \in Wallets \ {w} : \/ eng'[v] = eng[v]
                               \/ eng[v].pc = "wait" /\ eng'[v].pc = "route" /\ eng'[v].prev = eng[v].prev
  BY <1>6
<1> QED BY <1>1, <1>5, <1>7, <1>8, <1>9 DEF Moves

\* What a wallet remembers does not change while its engine waits, reads and fetches.
LEMMA MemoryKept ==
  ASSUME CacheInv, NEW v \in Wallets, v \in adrift' <=> v \in adrift,
         scanned'[v] = scanned[v], store'[v] = store[v], fork' = fork,
         \/ eng'[v] = eng[v]
         \/ /\ eng[v].pc \in Running /\ eng'[v].pc \in Running /\ eng'[v].prev = eng[v].prev
            /\ Current(v) <= Tip
  PROVE  Memory(v)' /\ (v \notin adrift => Witnessed(v))'
<1>1. /\ Memory(v) /\ (v \notin adrift => Witnessed(v))
      /\ Current(v)' = Current(v) /\ Current(v) \in Nat /\ Tip \in Nat
  BY CurrentTyped, HeightsAre DEF CacheInv, Current
<1>2. HashRows(v)' = HashRows(v)
  BY DEF HashRows
<1>3. ResumeRow(v)' = ResumeRow(v)
  BY <1>2 DEF ResumeRow, HashAt
<1>4. Linked(scanned[v], Birthday[v])' <=> Linked(scanned[v], Birthday[v])
  BY DEF Linked, Links
<1>6. CASE eng'[v] = eng[v]
  <2>1. BatchStart(v)' = BatchStart(v)
    BY <1>6 DEF BatchStart
  <2>2. Memory(v)'
    BY <1>1, <1>6 DEF Memory
  <2>3. ASSUME v \notin adrift' PROVE Witnessed(v)'
    <3>1. Witnessed(v)
      BY <1>1, <2>3
    <3>2. eng[v].pc # "save" => Agrees(v, Current(v) - 1)'
      BY <1>1, <3>1 DEF Witnessed, Agrees
    <3>3. eng[v].pc = "save" => Agrees(v, BatchStart(v) - 1)'
      BY <2>1, <3>1 DEF Witnessed, Agrees
    <3> QED BY <1>1, <1>3, <1>4, <1>6, <3>1, <3>2, <3>3 DEF Witnessed
  <2> QED BY <2>2, <2>3
<1>7. CASE /\ eng[v].pc \in Running /\ eng'[v].pc \in Running /\ eng'[v].prev = eng[v].prev
           /\ Current(v) <= Tip
  <2>1. /\ eng[v].pc \notin {"idle", "save"} /\ eng'[v].pc \notin {"idle", "save"}
        /\ ~(Current(v) = Tip + 1)
    BY <1>1, <1>7 DEF Running
  <2>2. Memory(v)'
    BY <1>1, <1>7, <2>1 DEF Memory
  <2>3. ASSUME v \notin adrift' PROVE Witnessed(v)'
    <3>1. Witnessed(v)
      BY <1>1, <2>3
    <3>2. Agrees(v, Current(v) - 1)'
      BY <1>1, <2>1, <3>1 DEF Witnessed, Agrees
    <3> QED BY <1>1, <1>4, <1>7, <2>1, <3>1, <3>2 DEF Witnessed
  <2> QED BY <2>2, <2>3
<1> QED BY <1>6, <1>7

\* A step of engine w that leaves the other wallets alone.
LEMMA Advances ==
  ASSUME CacheInv, NEW w \in Wallets, NEW e, Moves(w, e), UNCHANGED <<fork, side>>, TablesSound',
         scanned' \in [Wallets -> Seq(Blocks)], store' \in [Wallets -> Stores], adrift' \in SUBSET Wallets,
         \A v \in Wallets \ {w} : /\ scanned'[v] = scanned[v] /\ store'[v] = store[v]
                                  /\ v \in adrift' <=> v \in adrift,
         Batch(w)', Memory(w)', (w \notin adrift => Witnessed(w))'
  PROVE  CacheInv'
<1>1. CacheTypes' /\ CoverageBacked'
  BY DEF CacheInv, CacheTypes, Moves, TablesSound
<1>2. ASSUME NEW v \in Wallets PROVE Batch(v)' /\ Memory(v)' /\ (v \notin adrift => Witnessed(v))'
  <2>1. CASE v = w
    BY <2>1
  <2>2. CASE v # w
    <3>1. /\ Batch(v) /\ Memory(v) /\ scanned'[v] = scanned[v] /\ store'[v] = store[v]
          /\ v \in adrift' <=> v \in adrift
      BY <2>2 DEF CacheInv
    <3>2. \/ eng'[v] = eng[v]
          \/ eng[v].pc = "wait" /\ eng'[v].pc = "route" /\ eng'[v].prev = eng[v].prev
      BY <2>2 DEF Moves
    <3>3. Batch(v)'
      BY <3>1, <3>2 DEF Batch, Current, Linked, Links
    <3>4. eng[v].pc = "wait" => Current(v) <= Tip
      BY <3>1 DEF Memory
    <3>5. "wait" \in Running /\ "route" \in Running
      BY DEF Running, EnginePcs
    <3> QED BY <3>1, <3>2, <3>3, <3>4, <3>5, MemoryKept
  <2> QED BY <2>1, <2>2
<1> QED BY <1>1, <1>2 DEF CacheInv

\* Nothing is scanned; the batch in hand, if any, is sound.
LEMMA Turns ==
  ASSUME CacheInv, NEW w \in Wallets, NEW e, Moves(w, e), UNCHANGED <<fork, side, wallet>>, TablesSound',
         eng[w].pc \in Running, e.pc \in Running, e.prev = eng[w].prev, Current(w) <= Tip, Batch(w)'
  PROVE  CacheInv'
<1>1. /\ scanned' = scanned /\ store' = store /\ adrift' = adrift
  BY DEF wallet
<1>2. Memory(w)' /\ (w \notin adrift => Witnessed(w))'
  BY <1>1, MemoryKept DEF Moves
<1> QED BY <1>1, <1>2, Advances DEF CacheInv, CacheTypes

\* Nothing is scanned and no batch is in hand afterwards.
LEMMA Rests ==
  ASSUME CacheInv, NEW w \in Wallets, NEW e, Moves(w, e), UNCHANGED <<fork, side, wallet>>, TablesSound',
         eng[w].pc \in Running, e.pc \in Running \ {"anchor", "check", "scan"}, e.prev = eng[w].prev,
         Current(w) <= Tip
  PROVE  CacheInv'
<1>1. e.pc \notin {"anchor", "check", "scan", "save"} /\ e.pc \in Running
  BY DEF Running
<1>2. Batch(w)'
  BY <1>1 DEF CacheInv, Batch, Moves, Current, wallet
<1> QED BY <1>1, <1>2, Turns

-----------------------------------------------------------------------------
(* Hash rows and rollbacks *)

LEMMA AncestorBound ==
  ASSUME CacheInv, NEW w \in Wallets, NEW b \in Int, Birthday[w] - 1 <= b, b <= Tip
  PROVE  /\ Ancestor(w, b) \in Nat /\ Birthday[w] - 1 <= Ancestor(w, b) /\ Ancestor(w, b) <= b
         /\ \/ Ancestor(w, b) = Birthday[w] - 1
            \/ /\ Ancestor(w, b) \in Heights /\ store[w].hash[Ancestor(w, b)] # Missing
               /\ store[w].hash[Ancestor(w, b)] = ServerBlock(Ancestor(w, b))
<1> DEFINE T == {Birthday[w] - 1} \cup {h \in HashRows(w) : h <= b /\ store[w].hash[h] = ServerBlock(h)}
<1>1. Birthday[w] \in Nat /\ 1 <= Birthday[w] /\ Tip \in Nat /\ Birthday[w] - 1 \in Nat
  BY CurrentTyped, HeightsAre
<1>2. \A h \in HashRows(w) : h \in Heights /\ h \in Nat /\ store[w].hash[h] # Missing /\ Birthday[w] <= h
  <2>1. \A h \in Heights : h < Birthday[w] => store[w].hash[h] = Missing
    BY DEF CacheInv, Memory
  <2> QED BY <1>1, <2>1, HeightsAre DEF HashRows
<1>3. T \in SUBSET Nat /\ T # {} /\ \A y \in T : y <= b /\ Birthday[w] - 1 <= y
  BY <1>1, <1>2
<1>4. \A y \in T : \/ y = Birthday[w] - 1
                   \/ y \in Heights /\ store[w].hash[y] # Missing /\ store[w].hash[y] = ServerBlock(y)
  BY <1>2
<1>5. Ancestor(w, b) = Max(T)
  BY DEF Ancestor
<1> HIDE DEF T
<1>6. Max(T) \in T
  <2>1. b \in Nat
    BY <1>1
  <2> QED BY <1>3, <2>1, MaxIsMember
<1> QED BY <1>3, <1>4, <1>5, <1>6

\* The row to resume from is at the cursor or, when there is none there, below it.
LEMMA ResumeRowBound ==
  ASSUME CacheInv, NEW w \in Wallets
  PROVE  /\ ResumeRow(w) \in Nat /\ ResumeRow(w) <= store[w].cursor
         /\ ResumeRow(w) # 0 => /\ ResumeRow(w) \in Heights /\ Birthday[w] <= ResumeRow(w)
                                /\ store[w].hash[ResumeRow(w)] # Missing
<1> DEFINE T == {0} \cup HashRows(w)
           newest == Max(T)
<1>1. Birthday[w] \in Nat /\ 1 <= Birthday[w] /\ Tip \in Nat /\ store[w].cursor \in Nat
  BY CurrentTyped, StoreTyped, HeightsAre
<1>2. \A h \in HashRows(w) : h \in Heights /\ h \in Nat /\ h <= Tip /\ store[w].hash[h] # Missing /\ Birthday[w] <= h
  <2>1. \A h \in Heights : h < Birthday[w] => store[w].hash[h] = Missing
    BY DEF CacheInv, Memory
  <2> QED BY <1>1, <2>1, HeightsAre DEF HashRows
<1>3. T \in SUBSET Nat /\ T # {} /\ \A y \in T : y <= Tip
  BY <1>1, <1>2
<1>4. newest \in T
  <2> HIDE DEF T
  <2> QED BY <1>1, <1>3, MaxIsMember
<1>5. newest \in Nat /\ (newest = 0 \/ newest \in HashRows(w))
  BY <1>3, <1>4
<1> HIDE DEF newest
<1>6. ResumeRow(w) = IF HashAt(w, store[w].cursor) # Missing THEN store[w].cursor
                     ELSE IF newest < store[w].cursor THEN newest ELSE 0
  BY DEF ResumeRow, newest
<1>7. CASE HashAt(w, store[w].cursor) # Missing
  <2>1. store[w].cursor \in HashRows(w)
    BY <1>7 DEF HashAt, HashRows
  <2> QED BY <1>1, <1>2, <1>6, <1>7, <2>1
<1>8. CASE HashAt(w, store[w].cursor) = Missing
  BY <1>1, <1>2, <1>5, <1>6, <1>8
<1> QED BY <1>7, <1>8

\* validate_resume_chain goes on at the cursor, at a hash row below it or at the birthday.
LEMMA ResumeAfterBound ==
  ASSUME CacheInv, NEW w \in Wallets
  PROVE  /\ ResumeAfter(w) \in Nat /\ Birthday[w] - 1 <= ResumeAfter(w) /\ ResumeAfter(w) <= store[w].cursor
         /\ ResumeAfter(w) < store[w].cursor =>
              \/ ResumeAfter(w) = Birthday[w] - 1
              \/ ResumeAfter(w) \in Heights /\ store[w].hash[ResumeAfter(w)] # Missing
         /\ ~(ResumeAfter(w) < store[w].cursor) /\ ResumeRow(w) # 0 =>
              store[w].cursor \in Heights /\ store[w].hash[store[w].cursor] # Missing
<1>1. PICK r \in Nat : r = ResumeRow(w)
  BY ResumeRowBound
<1>2. PICK c \in Nat : c = store[w].cursor /\ c <= Tip /\ Birthday[w] - 1 <= c
  BY StoreTyped
<1>3. r <= c /\ (r # 0 => r \in Heights /\ Birthday[w] <= r /\ store[w].hash[r] # Missing)
  BY <1>1, <1>2, ResumeRowBound
<1>4. PICK x : x = Ancestor(w, r)
  OBVIOUS
<1>5. Birthday[w] \in Nat /\ Tip \in Nat
  BY CurrentTyped, HeightsAre
<1>6. ResumeAfter(w) = IF r = 0 THEN c ELSE IF store[w].hash[r] = ServerBlock(r) THEN r ELSE x
  BY <1>1, <1>2, <1>4 DEF ResumeAfter
<1>7. CASE r = 0
  BY <1>1, <1>2, <1>5, <1>6, <1>7
<1>8. CASE r # 0
  <2>1. /\ x \in Nat /\ Birthday[w] - 1 <= x /\ x <= r
        /\ x = Birthday[w] - 1 \/ (x \in Heights /\ store[w].hash[x] # Missing /\ store[w].hash[x] = ServerBlock(x))
    BY <1>2, <1>3, <1>4, <1>5, <1>8, AncestorBound
  <2> QED BY <1>1, <1>2, <1>3, <1>5, <1>6, <1>8, <2>1
<1> QED BY <1>7, <1>8

\* A prefix of what was scanned is linked.
LEMMA PrefixLinked ==
  ASSUME NEW s \in Seq(Blocks), NEW n \in Nat, n <= Len(s)
  PROVE  /\ SubSeq(s, 1, n) \in Seq(Blocks) /\ Len(SubSeq(s, 1, n)) = n
         /\ \A i \in 1..n : SubSeq(s, 1, n)[i] = s[i]
OBVIOUS

\* rollback_to_checkpoint keeps a prefix of what was scanned and its hash rows.
LEMMA RolledBackIs ==
  ASSUME CacheInv, NEW w \in Wallets, NEW a \in Nat, Birthday[w] - 1 <= a, a < Current(w), RolledBack(w, a)
  PROVE  /\ TablesSound' /\ scanned' \in [Wallets -> Seq(Blocks)] /\ store' \in [Wallets -> Stores]
         /\ adrift' = adrift
         /\ \A v \in Wallets \ {w} : scanned'[v] = scanned[v] /\ store'[v] = store[v]
         /\ Len(scanned'[w]) = a + 1 - Birthday[w] /\ Len(scanned'[w]) <= Len(scanned[w])
         /\ Current(w)' = a + 1
         /\ \A i \in 1..Len(scanned'[w]) : scanned'[w][i] = scanned[w][i]
         /\ store'[w].cursor \in Birthday[w] - 1..a
         /\ \A h \in Heights : store'[w].hash[h] = IF h > a THEN Missing ELSE store[w].hash[h]
<1> DEFINE n == a + 1 - Birthday[w]
           p == SubSeq(scanned[w], 1, n)
<1>1. /\ Birthday[w] \in Nat /\ 1 <= Birthday[w] /\ Current(w) <= Tip + 1 /\ Tip \in Nat
      /\ Current(w) = Birthday[w] + Len(scanned[w]) /\ Len(scanned[w]) \in Nat /\ scanned[w] \in Seq(Blocks)
  BY CurrentTyped, HeightsAre
<1>2. n \in Nat /\ n <= Len(scanned[w])
  BY <1>1
<1>3. p \in Seq(Blocks) /\ Len(p) = n /\ \A i \in 1..n : p[i] = scanned[w][i]
  <2> HIDE DEF n
  <2> QED BY <1>1, <1>2, PrefixLinked
<1>4. scanned' = [scanned EXCEPT ![w] = p] /\ adrift' = adrift
  BY DEF RolledBack, ScannedTo
<1>5. TablesSound'
  <2>1. a \in 0..Tip
    BY <1>1
  <2> QED BY <2>1, CacheTables, DeleteAboveStep DEF RolledBack
<1>6. PICK c \in Birthday[w] - 1..a :
        store' = [store EXCEPT ![w] = [cursor |-> c,
                    hash |-> [h \in Heights |-> IF h > a THEN Missing ELSE store[w].hash[h]]]]
  BY DEF RolledBack
<1> DEFINE row == [h \in Heights |-> IF h > a THEN Missing ELSE store[w].hash[h]]
<1>7. row \in [Heights -> Branches] /\ \A h \in Heights : row[h] = IF h > a THEN Missing ELSE store[w].hash[h]
  BY StoreTyped, DefaultsTyped
<1> HIDE DEF row, p
<1>8. /\ store \in [Wallets -> Stores] /\ store' = [store EXCEPT ![w] = [cursor |-> c, hash |-> row]]
      /\ scanned \in [Wallets -> Seq(Blocks)]
  BY <1>6 DEF row, CacheInv, CacheTypes
<1>9. [cursor |-> c, hash |-> row] \in Stores
  BY <1>1, <1>7 DEF Stores
<1>10. /\ store' \in [Wallets -> Stores] /\ store'[w].cursor = c /\ store'[w].hash = row
       /\ \A v \in Wallets \ {w} : store'[v] = store[v]
  BY <1>8, <1>9
<1>11. /\ scanned' \in [Wallets -> Seq(Blocks)] /\ scanned'[w] = p
       /\ \A v \in Wallets \ {w} : scanned'[v] = scanned[v]
  BY <1>3, <1>4, <1>8
<1>12. Current(w)' = a + 1
  BY <1>1, <1>3, <1>11 DEF Current
<1> QED BY <1>2, <1>3, <1>4, <1>5, <1>7, <1>10, <1>11, <1>12

\* After a rollback the run goes on from a hash row, or from the birthday.
LEMMA Rewinds ==
  ASSUME CacheInv, NEW w \in Wallets, NEW a \in Nat, Birthday[w] - 1 <= a, a < Current(w), a < Tip,
         RolledBack(w, a), UNCHANGED <<fork, side>>, eng[w].pc # "save",
         a = Birthday[w] - 1 \/ (a \in Heights /\ store[w].hash[a] # Missing),
         NEW e, Moves(w, e), e.pc \in {"horizon", "route"}, e.prev = Missing
  PROVE  CacheInv'
<1>1. /\ Birthday[w] \in Nat /\ 1 <= Birthday[w] /\ Tip \in Nat
      /\ Current(w) = Birthday[w] + Len(scanned[w]) /\ Len(scanned[w]) \in Nat
  BY CurrentTyped, HeightsAre
<1>2. /\ TablesSound' /\ scanned' \in [Wallets -> Seq(Blocks)] /\ store' \in [Wallets -> Stores]
      /\ adrift' = adrift
      /\ \A v \in Wallets \ {w} : scanned'[v] = scanned[v] /\ store'[v] = store[v]
      /\ Len(scanned'[w]) = a + 1 - Birthday[w] /\ Len(scanned'[w]) <= Len(scanned[w])
      /\ Current(w)' = a + 1
      /\ \A i \in 1..Len(scanned'[w]) : scanned'[w][i] = scanned[w][i]
      /\ store'[w].cursor \in Birthday[w] - 1..a
      /\ \A h \in Heights : store'[w].hash[h] = IF h > a THEN Missing ELSE store[w].hash[h]
  BY RolledBackIs
<1>3. eng'[w].pc = e.pc /\ eng'[w].prev = Missing
  BY DEF Moves
<1>4. Batch(w)'
  BY <1>1, <1>2, <1>3 DEF Batch
<1>5. Memory(w)'
  <2>1. \A h \in Heights : h < Birthday[w] => store'[w].hash[h] = Missing
    BY <1>2 DEF CacheInv, Memory
  <2> QED BY <1>1, <1>2, <1>3, <2>1 DEF Memory
<1>6. ASSUME w \notin adrift' PROVE Witnessed(w)'
  <2>1. Witnessed(w)
    BY <1>2, <1>6 DEF CacheInv
  <2>2. Linked(scanned[w], Birthday[w])'
    <3> SUFFICES ASSUME NEW i \in 1..Len(scanned'[w]) - 1
                 PROVE  Links(scanned[w][i], scanned[w][i + 1], Birthday[w] + i)'
      BY DEF Linked
    <3>3. PICK m \in Int : m = Len(scanned'[w]) /\ m <= Len(scanned[w])
      BY <1>1, <1>2
    <3>4. i \in 1..m - 1
      BY <3>3
    <3>5. i \in 1..Len(scanned[w]) - 1
      BY <1>1, <3>3, <3>4
    <3>1. i \in 1..Len(scanned[w]) - 1 /\ i \in 1..Len(scanned'[w]) /\ i + 1 \in 1..Len(scanned'[w])
      BY <3>3, <3>4, <3>5
    <3>2. Links(scanned[w][i], scanned[w][i + 1], Birthday[w] + i)
      BY <2>1, <3>1 DEF Witnessed, Linked
    <3> QED BY <1>2, <3>1, <3>2 DEF Links
  <2>3. Agrees(w, Current(w) - 1)'
    <3> SUFFICES ASSUME NEW h \in Birthday[w]..a
                 PROVE  store'[w].hash[h] \in {Missing, scanned'[w][h - Birthday[w] + 1]}
      BY <1>1, <1>2 DEF Agrees
    <3>1. h \in Heights /\ h \in Birthday[w]..Current(w) - 1 /\ ~(h > a)
      BY <1>1 DEF Heights
    <3>2. store[w].hash[h] \in {Missing, scanned[w][h - Birthday[w] + 1]}
      BY <2>1, <3>1 DEF Witnessed, Agrees
    <3>3. h - Birthday[w] + 1 \in 1..Len(scanned'[w])
      BY <1>1, <1>2
    <3> QED BY <1>2, <3>1, <3>2, <3>3
  <2>4. Len(scanned'[w]) > 0 => store'[w].hash[a] # Missing
    <3>1. CASE a = Birthday[w] - 1
      BY <1>1, <1>2, <3>1
    <3>2. CASE a \in Heights /\ store[w].hash[a] # Missing
      BY <1>2, <3>2
    <3> QED BY <3>1, <3>2
  <2>5. e.pc # "save" /\ e.pc # "idle"
    OBVIOUS
  <2>6. (eng[w].pc \in Running /\ eng[w].prev = Missing /\ Len(scanned[w]) > 0 =>
           store[w].hash[Current(w) - 1] # Missing)'
    BY <1>2, <2>4
  <2> QED BY <1>3, <2>2, <2>3, <2>5, <2>6 DEF Witnessed
<1>7. adrift' \in SUBSET Wallets
  BY <1>2 DEF CacheInv, CacheTypes
<1> QED BY <1>2, <1>4, <1>5, <1>6, <1>7, Advances

-----------------------------------------------------------------------------
(* The steps of an engine *)

LEMMA StartRunStep == ASSUME CacheInv, NEW w \in Wallets, StartRun(w) PROVE CacheInv'
<1> DEFINE e == [Idle EXCEPT !.pc = "horizon"]
<1>1. Goes(w, e) /\ UNCHANGED <<fork, side, leases>> /\ eng[w].pc = "idle"
  BY DEF StartRun, world, At
<1>2. e \in Engines /\ e.pc = "horizon" /\ e.prev = Missing
  BY DefaultsTyped DEF Engines, EnginePcs
<1> HIDE DEF e
<1>3. Moves(w, e)
  BY <1>1, <1>2, GoesMoves
<1>4. PICK a \in Nat : a = ResumeAfter(w)
  BY ResumeAfterBound
<1>5. /\ Birthday[w] - 1 <= a /\ a <= store[w].cursor /\ a < Tip /\ store[w].cursor = Current(w) - 1
      /\ a < store[w].cursor => a = Birthday[w] - 1 \/ (a \in Heights /\ store[w].hash[a] # Missing)
      /\ ~(a < store[w].cursor) /\ ResumeRow(w) # 0 =>
           store[w].cursor \in Heights /\ store[w].hash[store[w].cursor] # Missing
  BY <1>1, <1>4, ResumeAfterBound DEF StartRun, CacheInv, Memory
<1>6. /\ Current(w) \in Nat /\ Tip \in Nat /\ store[w].cursor \in Nat
      /\ Birthday[w] \in Nat /\ Current(w) = Birthday[w] + Len(scanned[w])
  BY CurrentTyped, StoreTyped, HeightsAre
<1>7. CASE a < store[w].cursor /\ RolledBack(w, a)
  <2>1. a < Current(w)
    BY <1>5, <1>6, <1>7
  <2> QED BY <1>1, <1>2, <1>3, <1>5, <1>7, <2>1, Rewinds
<1>8. CASE ~(a < store[w].cursor) /\ UNCHANGED <<wallet, tables>>
  <2>1. /\ scanned' = scanned /\ store' = store /\ adrift' = adrift /\ Current(w)' = Current(w)
        /\ eng'[w].pc = "horizon" /\ eng'[w].prev = Missing
    BY <1>2, <1>3, <1>8 DEF wallet, Current, Moves
  <2>2. Current(w) <= Tip
    BY <1>5, <1>6, <1>8
  <2>3. Batch(w)'
    BY <2>1 DEF Batch, CacheInv
  <2>4. Memory(w)'
    <3>1. Memory(w)
      BY DEF CacheInv
    <3> QED BY <2>1, <2>2, <3>1 DEF Memory
  <2>5. ASSUME w \notin adrift' PROVE Witnessed(w)'
    <3>1. Witnessed(w)
      BY <2>1, <2>5 DEF CacheInv
    <3>2. Linked(scanned[w], Birthday[w])' /\ Agrees(w, Current(w) - 1)'
      BY <1>1, <2>1, <3>1 DEF Witnessed, Agrees, Linked, Links
    <3>3. Len(scanned[w]) > 0 => store[w].hash[Current(w) - 1] # Missing
      BY <1>1, <1>5, <1>8, <3>1 DEF Witnessed
    <3>4. (eng[w].pc \in Running /\ eng[w].prev = Missing /\ Len(scanned[w]) > 0 =>
             store[w].hash[Current(w) - 1] # Missing)'
      BY <2>1, <3>3
    <3> QED BY <2>1, <3>2, <3>4 DEF Witnessed
  <2> QED BY <1>1, <1>3, <1>8, <2>1, <2>3, <2>4, <2>5, CacheTables, TablesKept, Advances DEF CacheInv, CacheTypes
<1> QED BY <1>4, <1>7, <1>8 DEF StartRun

LEMMA ReadHorizonStep == ASSUME CacheInv, NEW w \in Wallets, ReadHorizon(w) PROVE CacheInv'
<1> DEFINE s == Current(w)
           end == ContiguousEnd(s)
           f == [eng[w] EXCEPT !.pc = "route"]
           g == [eng[w] EXCEPT !.pc = "anchor", !.to = end, !.blocks = <<rows[end]>>]
<1>1. UNCHANGED <<fork, side, leases, wallet>> /\ eng[w].pc = "horizon"
  BY DEF ReadHorizon, world, At
<1>2. TablesSound /\ s \in Nat /\ 1 <= s /\ s <= Tip + 1 /\ Tip \in Nat /\ eng[w] \in Engines
  BY CacheTables, CurrentTyped, HeightsAre DEF CacheInv, CacheTypes
<1>3. /\ end \in Int /\ end <= Tip
      /\ CoverageEnd(s) = 0 /\ s <= end => \A k \in s..end : rows[k] # Missing
  <2> HIDE DEF s
  <2>1. CoverageEnd(s) \in 0..Tip
    BY <1>2, CoverageEndBound
  <2>2. RunEnd(s) \in (s - 1)..Tip /\ \A k \in s..RunEnd(s) : rows[k] # Missing
    BY <1>2, RunEndBound
  <2> QED BY <1>2, <2>1, <2>2 DEF ContiguousEnd
<1>4. f \in Engines /\ f.pc = "route" /\ f.prev = eng[w].prev
  BY <1>2 DEF Engines, EnginePcs
<1>5. /\ "horizon" \in Running /\ "anchor" \in Running /\ "route" \in Running \ {"anchor", "check", "scan"}
      /\ Current(w) <= Tip
  BY <1>1 DEF Running, EnginePcs, CacheInv, Memory
<1>6. CASE Goes(w, f) /\ UNCHANGED tables
  <2> HIDE DEF f
  <2> QED BY <1>1, <1>2, <1>4, <1>5, <1>6, GoesMoves, TablesKept, Rests
<1>7. CASE s <= end /\ Goes(w, f) /\ DeleteRange(s, end)
  <2> HIDE DEF f
  <2>1. s \in Heights /\ end \in Heights
    BY <1>2, <1>3, <1>7 DEF Heights
  <2>2. TablesSound'
    BY <1>2, <1>7, <2>1, DeleteRangeStep
  <2> QED BY <1>1, <1>4, <1>5, <1>7, <2>2, GoesMoves, Rests
<1>8. CASE /\ s <= end /\ rows[end] # Missing /\ Goes(w, g) /\ UNCHANGED rows
           /\ coverage' = IF CoverageEnd(s) # 0 THEN coverage ELSE Recorded(coverage, s, end)
  <2>1. s \in Heights /\ end \in Heights
    BY <1>2, <1>3, <1>8 DEF Heights
  <2>2. TablesSound'
    <3>1. CASE CoverageEnd(s) # 0
      BY <1>2, <1>8, <3>1, TablesKept DEF tables
    <3>2. CASE CoverageEnd(s) = 0
      BY <1>2, <1>3, <1>8, <2>1, <3>2, RecordStep DEF TablesSound
    <3> QED BY <3>1, <3>2
  <2>3. <<rows[end]>> \in Seq(Blocks)
    <3>1. rows[end] \in Blocks
      BY <1>2, <1>8, <2>1 DEF TablesSound, Branches, Blocks
    <3> QED BY <3>1
  <2> HIDE DEF end
  <2>4. g \in Engines /\ g.pc = "anchor" /\ g.to = end /\ g.prev = eng[w].prev
    BY <1>2, <1>3, <2>3 DEF Engines, EnginePcs
  <2> HIDE DEF g
  <2>5. Moves(w, g)
    BY <1>1, <1>8, <2>4, GoesMoves
  <2>6. Batch(w)'
    BY <1>1, <1>2, <1>3, <1>8, <2>4, <2>5 DEF Batch, Current, Moves, wallet
  <2> QED BY <1>1, <1>5, <2>2, <2>4, <2>5, <2>6, Turns
<1> HIDE DEF f, g
<1>9. UNCHANGED tables <=> UNCHANGED rows /\ UNCHANGED coverage
  BY DEF tables
<1> QED BY <1>2, <1>3, <1>6, <1>7, <1>8 DEF ReadHorizon, f, g

LEMMA CheckAnchorStep == ASSUME CacheInv, NEW w \in Wallets, CheckAnchor(w) PROVE CacheInv'
<1> DEFINE s == Current(w)
           e == eng[w].to
           next == [eng[w] EXCEPT !.pc = "route", !.blocks = <<>>, !.to = 0]
           trusted == [next EXCEPT !.range = <<s, e>>]
<1>1. UNCHANGED <<fork, side, leases, wallet>> /\ eng[w].pc = "anchor"
  BY DEF CheckAnchor, world, At
<1>2. TablesSound /\ s \in Nat /\ 1 <= s /\ eng[w] \in Engines /\ e \in Int /\ Tip \in Nat
  BY CacheTables, CurrentTyped, HeightsAre DEF CacheInv, CacheTypes, Engines
<1>3. /\ s <= e /\ e <= Tip /\ Current(w) <= Tip
      /\ "anchor" \in Running /\ "route" \in Running \ {"anchor", "check", "scan"}
  BY <1>1 DEF CacheInv, Batch, Memory, Running, EnginePcs
<1>4. next \in Engines /\ next.pc = "route" /\ next.prev = eng[w].prev
  <2>1. next = With(eng[w], "route", <<>>, 0)
    BY DEF With
  <2>2. "route" \in EnginePcs
    BY DEF EnginePcs
  <2> HIDE DEF next
  <2> QED BY <1>2, <2>1, <2>2, EngineCleared
<1>5. trusted \in Engines /\ trusted.pc = "route" /\ trusted.prev = eng[w].prev
  <2> DEFINE pair == <<s, e>>
             u == [next EXCEPT !.range = pair]
  <2>1. pair \in Int \X Int
    BY <1>2
  <2> HIDE DEF next, pair
  <2>2. u \in Engines /\ u.pc = "route" /\ u.prev = eng[w].prev
    BY <1>4, <2>1 DEF Engines
  <2> QED BY <2>2 DEF pair
<1> HIDE DEF next, trusted
<1>6. ASSUME NEW f \in {next, trusted}, Goes(w, f), TablesSound' PROVE CacheInv'
  BY <1>1, <1>3, <1>4, <1>5, <1>6, GoesMoves, Rests
<1>7. CASE DeleteRange(s, e) /\ Goes(w, next)
  <2>1. s \in Heights /\ e \in Heights
    BY <1>2, <1>3 DEF Heights
  <2> QED BY <1>2, <1>3, <1>6, <1>7, <2>1, DeleteRangeStep
<1>8. CASE UNCHANGED tables /\ (Goes(w, next) \/ Goes(w, trusted))
  BY <1>2, <1>6, <1>8, TablesKept
<1> QED BY <1>7, <1>8 DEF CheckAnchor, next, trusted

\* A run that has nothing left to scan has flushed its last batch.
LEMMA RunEnds ==
  ASSUME CacheInv, NEW w \in Wallets, eng[w].pc = "route", Current(w) > Tip, Goes(w, Idle),
         UNCHANGED <<fork, side, leases, wallet>>, TablesSound'
  PROVE  CacheInv'
<1>1. Moves(w, Idle) /\ eng'[w].pc = "idle" /\ eng'[w].prev = Missing
  BY DefaultsTyped, GoesMoves DEF Moves
<1>2. /\ scanned' = scanned /\ store' = store /\ adrift' = adrift /\ Current(w)' = Current(w)
  BY DEF wallet, Current
<1>3. /\ Current(w) \in Nat /\ Tip \in Nat /\ Current(w) = Tip + 1 /\ 1 <= Tip
  BY CurrentTyped, HeightsAre
<1>4. store[w].cursor = Tip /\ store[w].hash[Tip] # Missing
  BY <1>3 DEF CacheInv, Memory
<1>5. Batch(w)'
  BY <1>1, <1>2 DEF Batch, CacheInv
<1>6. Memory(w)'
  <2>1. Memory(w)
    BY DEF CacheInv
  <2> QED BY <1>1, <1>2, <1>3, <1>4, <2>1 DEF Memory
<1>7. ASSUME w \notin adrift' PROVE Witnessed(w)'
  <2>1. Witnessed(w)
    BY <1>2, <1>7 DEF CacheInv
  <2>2. Linked(scanned[w], Birthday[w])' /\ Agrees(w, Current(w) - 1)'
    BY <1>2, <2>1 DEF Witnessed, Agrees, Linked, Links
  <2>3. ResumeRow(w) # 0
    <3>1. HashAt(w, store[w].cursor) # Missing
      BY <1>3, <1>4 DEF HashAt, Heights
    <3> QED BY <1>3, <1>4, <3>1 DEF ResumeRow
  <2>4. ResumeRow(w)' # 0
    BY <1>2, <2>3 DEF ResumeRow, HashAt, HashRows
  <2>5. "idle" \notin Running
    BY DEF Running
  <2> QED BY <1>1, <2>2, <2>4, <2>5 DEF Witnessed
<1> QED BY <1>1, <1>2, <1>5, <1>6, <1>7, Advances DEF CacheInv, CacheTypes

LEMMA RouteStep == ASSUME CacheInv, NEW w \in Wallets, Route(w) PROVE CacheInv'
<1> DEFINE s == Current(w)
           end == Min({LoadEnd(s), s + BatchBlocks - 1})
           f == [eng[w] EXCEPT !.pc = "lease"]
           Read(to) == [eng[w] EXCEPT !.pc = "check", !.to = to, !.blocks = SubSeq(rows, s, to)]
<1>1. UNCHANGED <<fork, side, leases, wallet, tables>> /\ eng[w].pc = "route"
  BY DEF Route, world, At
<1>2. TablesSound /\ s \in Nat /\ 1 <= s /\ s <= Tip + 1 /\ Tip \in Nat /\ eng[w] \in Engines
  BY CacheTables, CurrentTyped, HeightsAre DEF CacheInv, CacheTypes
<1>3. TablesSound'
  BY <1>1, <1>2, TablesKept
<1>4. "route" \in Running /\ "check" \in Running /\ "lease" \in Running \ {"anchor", "check", "scan"}
  BY DEF Running, EnginePcs
<1>5. CASE s > Tip /\ Goes(w, Idle)
  BY <1>1, <1>3, <1>5, RunEnds
<1>6. CASE s <= Tip /\ Goes(w, f)
  <2>1. f \in Engines /\ f.pc = "lease" /\ f.prev = eng[w].prev
    BY <1>2 DEF Engines, EnginePcs
  <2> HIDE DEF f
  <2> QED BY <1>1, <1>3, <1>4, <1>6, <2>1, GoesMoves, Rests
<1>7. ASSUME NEW to \in s..end, s <= Tip, Goes(w, Read(to)) PROVE CacheInv'
  <2>1. end \in Int /\ end <= RunEnd(s) /\ RunEnd(s) \in (s - 1)..Tip
    <3> HIDE DEF s
    <3>1. CoverageEnd(s) \in 0..Tip
      BY <1>2, CoverageEndBound
    <3>2. RunEnd(s) \in (s - 1)..Tip
      BY <1>2, RunEndBound
    <3>3. LoadEnd(s) \in Int /\ LoadEnd(s) <= RunEnd(s)
      BY <1>2, <3>1, <3>2, MinOfTwo DEF LoadEnd
    <3>4. s + BatchBlocks - 1 \in Int
      BY <1>2, CacheAssumption
    <3> QED BY <1>2, <3>2, <3>3, <3>4, MinOfTwo
  <2>2. to \in Nat /\ s <= to /\ to <= Tip /\ to <= RunEnd(s)
    BY <1>2, <2>1
  <2> DEFINE b == SubSeq(rows, s, to)
  <2>3. b \in Seq(Blocks) /\ Len(b) = to - s + 1
    <3>1. rows \in Seq(Branches) /\ Len(rows) = Tip
      BY <1>2 DEF TablesSound, Heights
    <3>2. PICK n \in Nat : n = to - s + 1
      BY <1>2, <2>2
    <3>3. b = [i \in 1..n |-> rows[s + i - 1]]
      <4> HIDE DEF s
      <4> QED BY <1>2, <2>2, <3>1, <3>2
    <3>4. ASSUME NEW i \in 1..n PROVE rows[s + i - 1] \in Blocks
      <4>1. PICK k \in Int : k = s + i - 1
        BY <1>2
      <4>2. k \in s..RunEnd(s) /\ k \in Heights
        BY <1>2, <2>1, <2>2, <3>2, <4>1 DEF Heights
      <4>3. rows[k] # Missing
        <5> HIDE DEF s
        <5> QED BY <1>2, <4>2, RunEndBound
      <4>4. rows[k] \in Branches
        BY <1>2, <4>2 DEF TablesSound
      <4> QED BY <4>1, <4>3, <4>4 DEF Branches, Blocks
    <3> HIDE DEF b, s
    <3> QED BY <3>2, <3>3, <3>4
  <2> HIDE DEF b
  <2> DEFINE v == With(eng[w], "check", b, to)
  <2>4. v \in Engines /\ v.pc = "check" /\ v.to = to /\ v.blocks = b /\ v.prev = eng[w].prev
    <3>1. "check" \in EnginePcs /\ to \in Int
      BY <2>2 DEF EnginePcs
    <3> QED BY <1>2, <2>3, <3>1, EngineSet
  <2>5. Read(to) = v
    BY <1>2 DEF b, Engines, With
  <2> HIDE DEF v, Read
  <2>6. Moves(w, v)
    BY <1>1, <1>7, <2>4, <2>5, GoesMoves
  <2>7. Batch(w)'
    BY <1>1, <1>2, <2>2, <2>3, <2>4, <2>6 DEF Batch, Current, Moves, wallet
  <2> QED BY <1>1, <1>3, <1>4, <1>7, <2>4, <2>6, <2>7, Turns
<1> HIDE DEF f, end
<1> QED BY <1>5, <1>6, <1>7 DEF Route, f, end

\* A batch that is refused leaves the cache as well.
LEMMA RefusedStep ==
  ASSUME CacheInv, NEW w \in Wallets, At(w, "check"), Goes(w, Refused(w)),
         DeleteRange(Current(w), eng[w].to), UNCHANGED <<fork, side, leases, wallet>>
  PROVE  CacheInv'
<1>1. TablesSound /\ Current(w) \in Nat /\ 1 <= Current(w) /\ Tip \in Nat
      /\ eng[w] \in Engines /\ eng[w].to \in Int
  BY CacheTables, CurrentTyped, HeightsAre DEF CacheInv, CacheTypes, Engines
<1>2. /\ Current(w) <= eng[w].to /\ eng[w].to <= Tip /\ Current(w) <= Tip
      /\ eng[w].pc \in Running /\ "lease" \in Running \ {"anchor", "check", "scan"}
  BY DEF CacheInv, Batch, Memory, At, Running, EnginePcs
<1>3. Current(w) \in Heights /\ eng[w].to \in Heights
  BY <1>1, <1>2 DEF Heights
<1>4. TablesSound'
  BY <1>1, <1>2, <1>3, DeleteRangeStep
<1>5. Refused(w) \in Engines /\ Refused(w).pc = "lease" /\ Refused(w).prev = eng[w].prev
  <2>1. Refused(w) = With(eng[w], "lease", <<>>, 0)
    BY DEF Refused, With
  <2>2. "lease" \in EnginePcs
    BY DEF EnginePcs
  <2> QED BY <1>1, <2>1, <2>2, EngineCleared
<1> QED BY <1>2, <1>4, <1>5, GoesMoves, Rests

LEMMA CheckBatchStep == ASSUME CacheInv, NEW w \in Wallets, CheckBatch(w) PROVE CacheInv'
<1>1. UNCHANGED <<fork, side, leases, wallet>> /\ At(w, "check")
  BY DEF CheckBatch, world
<1>2. CASE Goes(w, Refused(w)) /\ DeleteRange(Current(w), eng[w].to)
  BY <1>1, <1>2, RefusedStep
<1>3. CASE Linked(eng[w].blocks, Current(w)) /\ Goes(w, Accepted(w)) /\ UNCHANGED tables
  <2>1. /\ eng[w] \in Engines /\ Current(w) <= Tip /\ eng[w].pc \in Running /\ "scan" \in Running
    BY <1>1 DEF CacheInv, CacheTypes, Memory, At, Running, EnginePcs
  <2>2. /\ Accepted(w) \in Engines /\ Accepted(w).pc = "scan" /\ Accepted(w).prev = eng[w].prev
        /\ Accepted(w).blocks = eng[w].blocks /\ Accepted(w).to = eng[w].to
    BY <2>1 DEF Accepted, Engines, EnginePcs
  <2>3. Moves(w, Accepted(w))
    BY <1>1, <1>3, <2>2, GoesMoves
  <2>4. Batch(w)'
    <3>1. Linked(eng[w].blocks, Current(w))'
      BY <1>1, <1>3, <2>2, <2>3 DEF Moves, Current, Linked, Links, wallet
    <3>2. Batch(w) /\ Current(w)' = Current(w)
      BY <1>1 DEF CacheInv, Current, wallet
    <3> QED BY <1>1, <2>2, <2>3, <3>1, <3>2 DEF Batch, Moves, At
  <2> QED BY <1>1, <1>3, <2>1, <2>2, <2>3, <2>4, CacheTables, TablesKept, Turns
<1> QED BY <1>2, <1>3 DEF CheckBatch

LEMMA CheckBatchUnansweredStep ==
  ASSUME CacheInv, NEW w \in Wallets, CheckBatchUnanswered(w) PROVE CacheInv'
BY RefusedStep DEF CheckBatchUnanswered, world

LEMMA AcquireStep == ASSUME CacheInv, NEW w \in Wallets, Acquire(w) PROVE CacheInv'
<1> DEFINE lease == [by |-> w, from |-> Current(w), to |-> Tip]
           f == [eng[w] EXCEPT !.pc = "stream", !.lead = TRUE]
<1>1. UNCHANGED <<fork, side, wallet, tables>> /\ eng[w] \in Engines /\ TablesSound'
  BY CacheTables, TablesKept DEF Acquire, world, CacheInv, CacheTypes
<1>2. /\ eng[w].pc \in Running /\ Current(w) <= Tip
      /\ "wait" \in Running \ {"anchor", "check", "scan"} /\ "stream" \in Running \ {"anchor", "check", "scan"}
  BY DEF Acquire, At, CacheInv, Memory, Running, EnginePcs
<1>3. ASSUME NEW l \in leases, Goes(w, [eng[w] EXCEPT !.pc = "wait", !.behind = <<l.from, l.to>>]),
             UNCHANGED leases
      PROVE  CacheInv'
  <2> DEFINE pair == <<l.from, l.to>>
             v == [eng[w] EXCEPT !.pc = "wait", !.behind = pair]
  <2>1. pair \in Int \X Int
    BY DEF CacheInv, CacheTypes
  <2> HIDE DEF pair
  <2>2. v \in Engines /\ v.pc = "wait" /\ v.prev = eng[w].prev
    BY <1>1, <2>1 DEF Engines, EnginePcs
  <2>3. Goes(w, v)
    BY <1>3 DEF pair
  <2> HIDE DEF v
  <2> QED BY <1>1, <1>2, <1>3, <2>2, <2>3, GoesMoves, Rests
<1>4. CASE leases' = leases \cup {lease} /\ Goes(w, f)
  <2>1. f \in Engines /\ f.pc = "stream" /\ f.prev = eng[w].prev
    BY <1>1 DEF Engines, EnginePcs
  <2>2. leases' \in SUBSET [by : Wallets, from : Int, to : Int]
    <3>1. lease \in [by : Wallets, from : Int, to : Int]
      BY CurrentTyped, HeightsAre
    <3> HIDE DEF lease
    <3> QED BY <1>4, <3>1 DEF CacheInv, CacheTypes
  <2> HIDE DEF f
  <2>3. Moves(w, f)
    BY <1>4, <2>1, <2>2 DEF Goes, Moves, CacheInv, CacheTypes
  <2> QED BY <1>1, <1>2, <2>1, <2>3, Rests
<1> QED BY <1>3, <1>4 DEF Acquire

LEMMA StreamStep == ASSUME CacheInv, NEW w \in Wallets, Stream(w) PROVE CacheInv'
<1> DEFINE s == Current(w)
<1>1. /\ UNCHANGED <<fork, side, leases, wallet>> /\ eng[w].pc \in Running /\ "scan" \in Running
      /\ Current(w) <= Tip
  BY DEF Stream, At, world, CacheInv, Memory, Running, EnginePcs
<1>2. TablesSound /\ s \in Nat /\ 1 <= s /\ s <= Tip + 1 /\ Tip \in Nat /\ eng[w] \in Engines
  BY CacheTables, CurrentTyped, HeightsAre DEF CacheInv, CacheTypes
<1>3. PICK to \in s..Min({Tip, s + BatchBlocks - 1}) :
        LET blocks == [i \in 1..to - s + 1 |-> ServerBlock(s + i - 1)]
        IN /\ Goes(w, [eng[w] EXCEPT !.pc = "scan", !.blocks = blocks, !.to = to, !.tail = Last(blocks)])
           /\ StoreBlocks(s, blocks) \/ UNCHANGED tables
  BY DEF Stream
<1> DEFINE b == [i \in 1..to - s + 1 |-> ServerBlock(s + i - 1)]
           v == [eng[w] EXCEPT !.pc = "scan", !.blocks = b, !.to = to, !.tail = Last(b)]
<1>4. to \in Nat /\ s <= to /\ to <= Tip
  <2>1. s + BatchBlocks - 1 \in Int
    BY <1>2, CacheAssumption
  <2> QED BY <1>2, <2>1, MinOfTwo
<1>5. /\ b \in Seq({0, 1}) /\ b \in Seq(Blocks) /\ Len(b) = to - s + 1 /\ Len(b) > 0
      /\ \A i \in 1..Len(b) : b[i] = ServerBlock(s + i - 1)
  <2> HIDE DEF s
  <2>1. \A i \in 1..to - s + 1 : ServerBlock(s + i - 1) \in {0, 1} /\ ServerBlock(s + i - 1) \in Blocks
    BY ServerBlockTyped DEF Blocks
  <2>2. to - s + 1 \in Nat /\ to - s + 1 > 0
    BY <1>2, <1>4
  <2> QED BY <2>1, <2>2
<1>6. Goes(w, v) /\ (StoreBlocks(s, b) \/ UNCHANGED tables)
  BY <1>3
<1> HIDE DEF b
<1>7. Linked(b, s)
  <2> SUFFICES ASSUME NEW i \in 1..Len(b) - 1 PROVE Links(b[i], b[i + 1], s + i)
    BY DEF Linked
  <2> DEFINE h == s + i - 1
  <2>1. /\ i \in 1..Len(b) /\ i + 1 \in 1..Len(b) /\ h \in Int /\ h + 1 = s + (i + 1) - 1 /\ h + 1 = s + i
    BY <1>2, <1>4, <1>5
  <2>2. b[i] = ServerBlock(h) /\ b[i + 1] = ServerBlock(h + 1)
    BY <1>5, <2>1
  <2> HIDE DEF h
  <2>3. Links(ServerBlock(h), ServerBlock(h + 1), h + 1)
    BY <2>1, ServerLinked DEF CacheInv, CacheTypes
  <2> QED BY <2>1, <2>2, <2>3
<1>8. v \in Engines /\ v.pc = "scan" /\ v.to = to /\ v.blocks = b /\ v.prev = eng[w].prev
  <2> DEFINE last == Last(b)
  <2>1. last \in Branches
    BY <1>5 DEF Last, Branches, Blocks
  <2> HIDE DEF last
  <2> DEFINE u == With(eng[w], "scan", b, to)
  <2>2. u \in Engines /\ u.pc = "scan" /\ u.to = to /\ u.blocks = b /\ u.prev = eng[w].prev
    <3>1. "scan" \in EnginePcs /\ to \in Int
      BY <1>4 DEF EnginePcs
    <3> QED BY <1>2, <1>5, <3>1, EngineSet
  <2>3. v = [u EXCEPT !.tail = last]
    BY <1>2 DEF With, Engines, last
  <2> HIDE DEF u, v
  <2> QED BY <2>1, <2>2, <2>3 DEF Engines
<1> HIDE DEF v
<1>9. TablesSound'
  <2>1. CASE StoreBlocks(s, b)
    <3>1. s \in Heights /\ s + Len(b) - 1 <= Tip
      BY <1>2, <1>4, <1>5 DEF Heights
    <3> HIDE DEF s
    <3> QED BY <1>2, <1>5, <2>1, <3>1, StoreBlocksStep
  <2>2. CASE UNCHANGED tables
    BY <1>2, <2>2, TablesKept
  <2> QED BY <1>6, <2>1, <2>2
<1>10. Moves(w, v)
  BY <1>1, <1>6, <1>8, GoesMoves
<1>11. Batch(w)'
  <2>1. Current(w)' = s
    BY <1>1 DEF Current, wallet
  <2>2. Linked(eng[w].blocks, Current(w))'
    BY <1>1, <1>7, <1>8, <1>10, <2>1 DEF Moves, Linked, Links
  <2> QED BY <1>2, <1>4, <1>5, <1>8, <1>10, <2>1, <2>2 DEF Batch, Moves
<1> QED BY <1>1, <1>8, <1>9, <1>10, <1>11, Turns

LEMMA StreamBreaksStep == ASSUME CacheInv, NEW w \in Wallets, StreamBreaks(w) PROVE CacheInv'
<1> DEFINE f == [eng[w] EXCEPT !.pc = "route"]
<1>1. /\ UNCHANGED <<fork, side, wallet, tables>> /\ Released(w, f) /\ eng[w].pc \in Running
      /\ Current(w) <= Tip /\ "route" \in Running \ {"anchor", "check", "scan"}
  BY DEF StreamBreaks, Dropped, world, At, CacheInv, Memory, Running, EnginePcs
<1>2. f \in Engines /\ f.pc = "route" /\ f.prev = eng[w].prev
  <2>1. eng[w] \in Engines
    BY DEF CacheInv, CacheTypes
  <2> QED BY <2>1 DEF Engines, EnginePcs
<1> HIDE DEF f
<1> QED BY <1>1, <1>2, ReleasedMoves, CacheTables, TablesKept, Rests

\* Where a block of a batch stands, counted from the batch and from the birthday.
LEMMA Sums ==
  ASSUME NEW y \in Int, NEW n \in Int, NEW k \in Int, NEW h \in Int, NEW i \in Int, NEW t \in Int,
         t = y + n - 1, i = h - (t - k + 1) + 1
  PROVE  n - k + i = h - y + 1
OBVIOUS

\* The height after a batch and its first height, from the number of blocks scanned.
LEMMA Counts ==
  ASSUME NEW y \in Int, NEW n \in Int, NEW k \in Int, NEW t \in Int, k = t - (y + n) + 1
  PROVE  y + (n + k) = t + 1 /\ t - k + 1 = y + n
OBVIOUS

\* The batch that waits for its flush is the end of what was scanned.
LEMMA BatchIsTail ==
  ASSUME CacheInv, NEW w \in Wallets, eng[w].pc = "save"
  PROVE  /\ eng[w].to \in Heights /\ eng[w].to = Current(w) - 1 /\ BatchStart(w) \in Heights
         /\ Birthday[w] <= BatchStart(w) /\ BatchStart(w) <= eng[w].to /\ Len(scanned[w]) > 0
         /\ \A h \in BatchStart(w)..eng[w].to :
              h \in Heights /\ BatchBlock(w, h) \in Blocks /\ BatchBlock(w, h) = scanned[w][h - Birthday[w] + 1]
         /\ Last(eng[w].blocks) \in Blocks /\ Last(eng[w].blocks) = scanned[w][Len(scanned[w])]
<1>1. PICK b \in Seq(Blocks) : b = eng[w].blocks
  BY DEF CacheInv, CacheTypes, Engines
<1>2. PICK s \in Seq(Blocks) : s = scanned[w]
  BY DEF CacheInv, CacheTypes
<1>3. PICK t \in Int : t = eng[w].to
  BY DEF CacheInv, CacheTypes, Engines
<1>4. PICK y \in Nat : y = Birthday[w] /\ 1 <= y
  BY CurrentTyped
<1>5. PICK k \in Nat : k = Len(b)
  OBVIOUS
<1>6. PICK n \in Nat : n = Len(s)
  OBVIOUS
<1>7. /\ t = y + n - 1 /\ 0 < k /\ k <= n /\ t <= Tip /\ Tip \in Nat
      /\ \A i \in 1..k : s[n - k + i] = b[i]
  <2>1. Current(w) = y + n /\ Current(w) <= Tip + 1 /\ Tip \in Nat
    BY <1>2, <1>4, <1>6, CurrentTyped, HeightsAre
  <2>2. /\ t = Current(w) - 1 /\ 0 < k /\ k <= n /\ \A i \in 1..k : s[n - k + i] = b[i]
    BY <1>1, <1>2, <1>3, <1>5, <1>6 DEF CacheInv, Batch
  <2> QED BY <2>1, <2>2
<1>8. BatchStart(w) = t - k + 1
  BY <1>1, <1>3, <1>5 DEF BatchStart
<1>13. t = y + n - 1 /\ 0 < k /\ k <= n /\ t <= Tip /\ Tip \in Nat
  BY <1>7
<1>14. \A i \in 1..k : s[n - k + i] = b[i]
  BY <1>7
<1>15. y \in Nat /\ n \in Nat /\ k \in Nat /\ t \in Int /\ 1 <= y
  BY <1>3, <1>4, <1>5, <1>6
<1>9. ASSUME NEW h \in (t - k + 1)..t
      PROVE  h \in Heights /\ BatchBlock(w, h) \in Blocks /\ BatchBlock(w, h) = s[h - y + 1]
  <2>1. PICK i \in Int : i = h - (t - k + 1) + 1
    BY <1>3, <1>5
  <2>5. h \in Int /\ t - k + 1 <= h /\ h <= t
    BY <1>3, <1>5
  <2>6. i \in 1..k
    BY <1>15, <2>1, <2>5
  <2>7. n - k + i = h - y + 1
    <3>1. t = y + n - 1
      BY <1>13
    <3>2. y \in Int /\ n \in Int /\ k \in Int /\ h \in Int /\ i \in Int /\ t \in Int
      BY <1>15, <2>1, <2>5
    <3> QED BY <2>1, <3>1, <3>2, Sums
  <2>8. h \in 1..Tip
    BY <1>13, <1>15, <2>5
  <2>2. i \in 1..k /\ n - k + i = h - y + 1 /\ h \in 1..Tip
    BY <2>6, <2>7, <2>8
  <2>3. BatchBlock(w, h) = b[i]
    BY <1>1, <1>8, <2>1 DEF BatchBlock
  <2>4. b[i] \in Blocks /\ b[i] = s[n - k + i]
    <3>1. b[i] \in Blocks
      BY <1>1, <1>5, <2>6
    <3> QED BY <1>14, <2>6, <3>1
  <2> QED BY <2>2, <2>3, <2>4 DEF Heights
<1>10. Last(b) \in Blocks /\ Last(b) = s[n]
  <2>1. k \in 1..k /\ n - k + k = n /\ Last(b) = b[k] /\ b[k] \in Blocks
    BY <1>5, <1>6, <1>7 DEF Last
  <2> QED BY <1>7, <2>1
<1>11. t \in Heights /\ t - k + 1 \in Heights /\ y <= t - k + 1 /\ t - k + 1 <= t
  BY <1>13, <1>15 DEF Heights
<1>12. t = Current(w) - 1
  <2>1. Current(w) = y + n
    BY <1>2, <1>4, <1>6, CurrentTyped
  <2> QED BY <1>13, <1>15, <2>1
<1> QED BY <1>1, <1>2, <1>3, <1>4, <1>6, <1>7, <1>8, <1>9, <1>10, <1>11, <1>12

\* The run is over: what lies above the cursor does not count as scanned.
LEMMA CancelStep == ASSUME CacheInv, NEW w \in Wallets, Cancel(w) PROVE CacheInv'
<1>1. /\ UNCHANGED <<fork, side, store, tables>> /\ Released(w, Idle)
      /\ scanned' = [scanned EXCEPT ![w] = ScannedTo(w, store[w].cursor)]
      /\ adrift' = IF Unwitnessed(w) THEN adrift \cup {w} ELSE adrift
  BY DEF Cancel, Dropped, world
<1>2. Moves(w, Idle) /\ eng'[w].pc = "idle" /\ eng'[w].prev = Missing
  BY <1>1, DefaultsTyped, ReleasedMoves DEF Moves
<1>3. PICK c \in Nat : c = store[w].cursor /\ c < Current(w) /\ Birthday[w] - 1 <= c /\ c <= Tip
  BY StoreTyped
<1>4. /\ Birthday[w] \in Nat /\ 1 <= Birthday[w] /\ Tip \in Nat /\ scanned[w] \in Seq(Blocks)
      /\ Current(w) = Birthday[w] + Len(scanned[w]) /\ Len(scanned[w]) \in Nat
  BY CurrentTyped, HeightsAre
<1>5. PICK n \in Nat : n = c + 1 - Birthday[w] /\ n <= Len(scanned[w])
  BY <1>3, <1>4
<1>6. PICK p \in Seq(Blocks) : /\ p = ScannedTo(w, c) /\ Len(p) = n
                               /\ \A i \in 1..n : p[i] = scanned[w][i]
  BY <1>4, <1>5, PrefixLinked DEF ScannedTo
<1>7. /\ scanned' \in [Wallets -> Seq(Blocks)] /\ scanned'[w] = p
      /\ \A v \in Wallets \ {w} : scanned'[v] = scanned[v]
  BY <1>1, <1>3, <1>6 DEF CacheInv, CacheTypes
<1>8. Current(w)' = c + 1
  BY <1>4, <1>5, <1>6, <1>7 DEF Current
<1>9. /\ adrift' \in SUBSET Wallets /\ \A v \in Wallets \ {w} : v \in adrift' <=> v \in adrift
  BY <1>1 DEF CacheInv, CacheTypes
<1>10. Batch(w)'
  BY <1>2, <1>3, <1>4, <1>8 DEF Batch
<1>11. Memory(w)'
  <2>1. \A h \in Heights : h < Birthday[w] => store'[w].hash[h] = Missing
    BY <1>1 DEF CacheInv, Memory
  <2> QED BY <1>1, <1>2, <1>3, <1>8, <2>1 DEF Memory
<1>12. ASSUME w \notin adrift' PROVE Witnessed(w)'
  <2>1. w \notin adrift /\ ~Unwitnessed(w)
    BY <1>1, <1>12
  <2>2. Witnessed(w)
    BY <2>1 DEF CacheInv
  <2>3. Linked(scanned[w], Birthday[w])'
    <3> SUFFICES ASSUME NEW i \in 1..n - 1
                 PROVE  Links(p[i], p[i + 1], Birthday[w] + i)'
      BY <1>6, <1>7 DEF Linked
    <3>1. i \in 1..Len(scanned[w]) - 1 /\ i \in 1..n /\ i + 1 \in 1..n
      BY <1>4, <1>5
    <3>2. Links(scanned[w][i], scanned[w][i + 1], Birthday[w] + i)
      BY <2>2, <3>1 DEF Witnessed, Linked
    <3> QED BY <1>1, <1>6, <3>1, <3>2 DEF Links
  <2>4. Agrees(w, Current(w) - 1)'
    <3> SUFFICES ASSUME NEW h \in Birthday[w]..c
                 PROVE  store[w].hash[h] \in {Missing, p[h - Birthday[w] + 1]}
      BY <1>1, <1>3, <1>7, <1>8 DEF Agrees
    <3>1. h - Birthday[w] + 1 \in 1..n /\ h \in Birthday[w]..Current(w) - 1 /\ h \in Int
      <4>1. h \in Int /\ Birthday[w] <= h /\ h <= c /\ c \in Nat
        BY <1>3, <1>4
      <4>2. h - Birthday[w] + 1 \in 1..n
        BY <1>4, <1>5, <4>1
      <4>3. h <= Current(w) - 1 /\ Current(w) \in Int
        BY <1>3, <1>4, <4>1
      <4> QED BY <1>4, <4>1, <4>2, <4>3
    <3>2. p[h - Birthday[w] + 1] = scanned[w][h - Birthday[w] + 1]
      BY <1>6, <3>1
    <3>3. CASE eng[w].pc # "save"
      BY <2>2, <3>1, <3>2, <3>3 DEF Witnessed, Agrees
    <3>4. CASE eng[w].pc = "save"
      <4>1. PICK a \in Nat : a = BatchStart(w)
        BY <3>4, BatchIsTail, HeightsAre
      <4>2. CASE h < a
        BY <2>2, <3>1, <3>2, <3>4, <4>1, <4>2 DEF Witnessed, Agrees
      <4>3. CASE ~(h < a)
        <5>1. h \in a..c /\ h \in a..eng[w].to
          BY <1>3, <3>1, <3>4, <4>1, <4>3, BatchIsTail
        <5>2. store[w].hash[h] \in {Missing, BatchBlock(w, h)}
          BY <1>3, <2>1, <3>4, <4>1, <5>1 DEF Unwitnessed, Contradicts, At
        <5>3. BatchBlock(w, h) = scanned[w][h - Birthday[w] + 1]
          BY <3>4, <4>1, <5>1, BatchIsTail
        <5> QED BY <3>2, <5>2, <5>3
      <4> QED BY <4>2, <4>3
    <3> QED BY <3>3, <3>4
  <2>5. Len(scanned'[w]) > 0 => ResumeRow(w)' # 0
    <3>1. ResumeRow(w)' = ResumeRow(w)
      BY <1>1 DEF ResumeRow, HashAt, HashRows
    <3>2. n > 0 => c >= Birthday[w]
      BY <1>3, <1>4, <1>5
    <3> QED BY <1>3, <1>6, <1>7, <2>1, <3>1, <3>2 DEF Unwitnessed
  <2>6. "idle" \notin Running
    BY DEF Running
  <2> QED BY <1>2, <2>3, <2>4, <2>5, <2>6 DEF Witnessed
<1>13. store' \in [Wallets -> Stores] /\ \A v \in Wallets \ {w} : store'[v] = store[v]
  BY <1>1 DEF CacheInv, CacheTypes
<1>14. TablesSound'
  BY <1>1, CacheTables, TablesKept
<1> QED BY <1>1, <1>2, <1>7, <1>9, <1>10, <1>11, <1>12, <1>13, <1>14, Advances

\* What validate_batch_boundary compares with is the last block the wallet scanned.
LEMMA KnownIsLast ==
  ASSUME CacheInv, NEW w \in Wallets, w \notin adrift, eng[w].pc = "scan", Len(scanned[w]) > 0
  PROVE  Known(w) # Missing /\ Known(w) = scanned[w][Len(scanned[w])]
<1>1. Memory(w) /\ Witnessed(w)
  BY DEF CacheInv
<1>2. CASE eng[w].prev # Missing
  BY <1>1, <1>2 DEF Memory, Known
<1>3. CASE eng[w].prev = Missing
  <2>1. PICK h \in Int : h = Current(w) - 1
    BY CurrentTyped
  <2>2. /\ Birthday[w] \in Nat /\ 1 <= Birthday[w] /\ Current(w) <= Tip /\ Tip \in Nat
        /\ Current(w) = Birthday[w] + Len(scanned[w]) /\ Len(scanned[w]) \in Nat
    BY <1>1, CurrentTyped, HeightsAre DEF Memory
  <2>3. h \in Heights /\ h \in Birthday[w]..Current(w) - 1 /\ h - Birthday[w] + 1 = Len(scanned[w])
    BY <2>1, <2>2 DEF Heights
  <2>4. store[w].hash[h] # Missing
    BY <1>1, <1>3, <2>1 DEF Witnessed, Running, EnginePcs
  <2>5. store[w].hash[h] \in {Missing, scanned[w][h - Birthday[w] + 1]}
    BY <1>1, <2>3 DEF Witnessed, Agrees
  <2>6. Known(w) = store[w].hash[h]
    BY <1>3, <2>1, <2>3 DEF Known, HashAt
  <2> QED BY <2>3, <2>4, <2>5, <2>6
<1> QED BY <1>2, <1>3

\* The batch is linked in itself and validate_batch_boundary links it to the rest.
LEMMA ScanStep == ASSUME CacheInv, NEW w \in Wallets, Scan(w) PROVE CacheInv'
<1> DEFINE f == [eng[w] EXCEPT !.pc = "save"]
<1>1. /\ eng[w].pc = "scan" /\ BoundaryValid(w) /\ scanned' = [scanned EXCEPT ![w] = @ \o eng[w].blocks]
      /\ Goes(w, f) /\ UNCHANGED <<fork, side, tables, leases, adrift>>
  BY DEF Scan, At, world
<1>2. PICK note \in {store[w].cursor} \cup (Current(w)..eng[w].to) : store' = [store EXCEPT ![w].cursor = note]
  BY DEF Scan
<1>3. PICK a \in Seq(Blocks) : a = scanned[w]
  BY DEF CacheInv, CacheTypes
<1>4. PICK b \in Seq(Blocks) : b = eng[w].blocks
  BY DEF CacheInv, CacheTypes, Engines
<1>5. PICK t \in Int : t = eng[w].to
  BY DEF CacheInv, CacheTypes, Engines
<1>6. PICK y \in Nat : y = Birthday[w] /\ 1 <= y
  BY CurrentTyped
<1>7. PICK n \in Nat : n = Len(a)
  OBVIOUS
<1>8. PICK k \in Nat : k = Len(b)
  OBVIOUS
<1>9. /\ Current(w) = y + n /\ k = t - (y + n) + 1 /\ y + n <= t /\ t <= Tip /\ Tip \in Nat /\ 0 < k
      /\ Linked(b, y + n)
  <2>1. Current(w) = y + n /\ Tip \in Nat
    BY <1>3, <1>6, <1>7, CurrentTyped, HeightsAre
  <2>2. /\ Current(w) <= t /\ t <= Tip /\ k = t - Current(w) + 1 /\ Linked(b, Current(w))
    BY <1>1, <1>4, <1>5, <1>8 DEF CacheInv, Batch
  <2> QED BY <2>1, <2>2
<1>10. PICK c : c = a \o b
  OBVIOUS
<1>11. /\ c \in Seq(Blocks) /\ Len(c) = n + k /\ \A i \in 1..n : c[i] = a[i]
       /\ \A i \in 1..k : c[n + i] = b[i]
  BY <1>7, <1>8, <1>10
<1>12. /\ scanned' \in [Wallets -> Seq(Blocks)] /\ scanned'[w] = c
       /\ \A v \in Wallets \ {w} : scanned'[v] = scanned[v]
  BY <1>1, <1>3, <1>4, <1>10, <1>11 DEF CacheInv, CacheTypes
<1>13. f \in Engines /\ f.pc = "save" /\ f.blocks = b /\ f.to = t
  <2>1. eng[w] \in Engines
    BY DEF CacheInv, CacheTypes
  <2> QED BY <1>4, <1>5, <2>1 DEF Engines, EnginePcs
<1> HIDE DEF f
<1>14. /\ Moves(w, f) /\ eng'[w].pc = "save" /\ eng'[w].blocks = b /\ eng'[w].to = t
  BY <1>1, <1>13, GoesMoves DEF Moves
<1>15. note \in Int /\ y - 1 <= note /\ note <= t
  BY <1>2, <1>5, <1>6, <1>9, StoreTyped
<1>16. /\ store' \in [Wallets -> Stores] /\ store'[w].cursor = note /\ store'[w].hash = store[w].hash
       /\ \A v \in Wallets \ {w} : store'[v] = store[v]
  <2>1. store \in [Wallets -> Stores] /\ store[w] \in [cursor : Int, hash : [Heights -> Branches]]
    BY DEF CacheInv, CacheTypes, Stores
  <2> QED BY <1>2, <1>15, <2>1 DEF Stores
<1>23. y \in Nat /\ n \in Nat /\ k \in Nat /\ t \in Int /\ 1 <= y
  BY <1>5, <1>6, <1>7, <1>8
<1>22. /\ Current(w) = y + n /\ k = t - (y + n) + 1 /\ y + n <= t /\ t <= Tip /\ Tip \in Nat /\ 0 < k
  BY <1>9
<1>17. Current(w)' = t + 1 /\ BatchStart(w)' = y + n
  <2>1. Current(w)' = y + Len(c) /\ Len(c) = n + k
    BY <1>6, <1>11, <1>12 DEF Current
  <2>2. BatchStart(w)' = t - k + 1
    BY <1>8, <1>14 DEF BatchStart
  <2>3. y + (n + k) = t + 1 /\ t - k + 1 = y + n
    <3>1. k = t - (y + n) + 1
      BY <1>22
    <3>2. y \in Int /\ n \in Int /\ k \in Int /\ t \in Int
      BY <1>23
    <3> QED BY <3>1, <3>2, Counts
  <2> QED BY <2>1, <2>2, <2>3
<1>18. Batch(w)'
  <2>5. t <= Tip /\ Tip \in Nat
    BY <1>22
  <2>6. t + 1 <= Tip + 1 /\ t = t + 1 - 1
    BY <1>5, <2>5
  <2>1. n + k - k = n /\ t + 1 <= Tip + 1 /\ t = t + 1 - 1 /\ k <= n + k
    BY <1>23, <2>6
  <2>2. \A i \in 1..k : c[Len(c) - k + i] = b[i]
    BY <1>11, <2>1
  <2>3. Len(c) = n + k /\ Len(c) - k = n
    BY <1>11, <1>23
  <2>4. t <= Tip /\ 0 < k
    BY <1>22
  <2> QED BY <1>5, <1>8, <1>12, <1>14, <1>17, <2>1, <2>2, <2>3, <2>4 DEF Batch
<1>19. Memory(w)'
  <2>1. \A h \in Heights : h < Birthday[w] => store'[w].hash[h] = Missing
    BY <1>16 DEF CacheInv, Memory
  <2> QED BY <1>6, <1>14, <1>15, <1>16, <1>17, <2>1 DEF Memory
<1>20. ASSUME w \notin adrift' PROVE Witnessed(w)'
  <2>1. w \notin adrift /\ Witnessed(w)
    BY <1>1, <1>20 DEF CacheInv
  <2>2. n > 0 => Links(a[n], b[1], y + n)
    BY <1>1, <1>3, <1>4, <1>7, <1>9, <2>1, KnownIsLast DEF BoundaryValid
  <2>3. Linked(a, y)
    BY <1>3, <1>6, <2>1 DEF Witnessed
  <2>4. Linked(c, y)
    <3> SUFFICES ASSUME NEW i \in 1..Len(c) - 1 PROVE Links(c[i], c[i + 1], y + i)
      BY DEF Linked
    <3>1. CASE i < n
      <4>1. i \in 1..Len(a) - 1 /\ i \in 1..n /\ i + 1 \in 1..n
        BY <1>7, <3>1
      <4>2. Links(a[i], a[i + 1], y + i)
        BY <2>3, <4>1 DEF Linked
      <4> QED BY <1>11, <4>1, <4>2
    <3>2. CASE i = n
      <4>1. n > 0 /\ i \in 1..n /\ 1 \in 1..k
        BY <1>9, <3>2
      <4>2. c[i] = a[n] /\ c[i + 1] = b[1]
        BY <1>11, <3>2, <4>1
      <4> QED BY <2>2, <3>2, <4>1, <4>2
    <3>3. CASE i > n
      <4>1. PICK j \in Int : j = i - n
        OBVIOUS
      <4>2. /\ j \in 1..Len(b) - 1 /\ j \in 1..k /\ j + 1 \in 1..k
            /\ n + j = i /\ n + (j + 1) = i + 1 /\ y + n + j = y + i
        BY <1>8, <1>11, <3>3, <4>1
      <4>3. Links(b[j], b[j + 1], y + n + j)
        BY <1>9, <4>2 DEF Linked
      <4>4. c[i] = b[j] /\ c[i + 1] = b[j + 1]
        BY <1>11, <4>2
      <4> QED BY <4>2, <4>3, <4>4
    <3> QED BY <1>11, <3>1, <3>2, <3>3
  <2>5. Linked(scanned[w], Birthday[w])'
    BY <1>1, <1>6, <1>12, <2>4 DEF Linked, Links
  <2>6. Agrees(w, BatchStart(w) - 1)'
    <3>3. /\ BatchStart(w)' = y + n /\ scanned'[w] = c /\ store'[w].hash = store[w].hash
          /\ Birthday[w] = y
      BY <1>6, <1>12, <1>16, <1>17
    <3> SUFFICES ASSUME NEW h \in y..(y + n - 1)
                 PROVE  store[w].hash[h] \in {Missing, c[h - y + 1]}
      BY <3>3 DEF Agrees
    <3>1. store[w].hash[h] \in {Missing, a[h - y + 1]}
      <4>1. h \in Birthday[w]..Current(w) - 1
        BY <1>6, <1>7, <1>22
      <4>2. Agrees(w, Current(w) - 1)
        BY <1>1, <2>1 DEF Witnessed
      <4> QED BY <1>3, <1>6, <4>1, <4>2 DEF Agrees
    <3>2. h - y + 1 \in 1..n
      BY <1>6, <1>7
    <3> QED BY <1>11, <3>1, <3>2
  <2>7. "save" \notin Running
    BY DEF Running
  <2> QED BY <1>14, <2>5, <2>6, <2>7 DEF Witnessed
<1>21. adrift' \in SUBSET Wallets /\ TablesSound'
  BY <1>1, CacheTables, TablesKept DEF CacheInv, CacheTypes
<1> QED BY <1>1, <1>12, <1>14, <1>16, <1>18, <1>19, <1>20, <1>21, Advances

\* After a batch the run goes on and knows its last block, or is over.
LEMMA OnwardMoves ==
  ASSUME CacheInv, NEW w \in Wallets, eng[w].pc = "save", Onward(w)
  PROVE  \E v \in Engines :
           /\ Moves(w, v)
           /\ \/ v.pc = "route" /\ v.prev = Last(eng[w].blocks)
              \/ v.pc = "stream" /\ v.prev = Last(eng[w].blocks) /\ eng[w].to < Tip
              \/ v.pc = "idle" /\ v.prev = Missing /\ ~(eng[w].to < Tip)
<1> DEFINE e == [eng[w] EXCEPT !.blocks = <<>>, !.to = 0, !.prev = Last(eng[w].blocks)]
<1>1. PICK last \in Branches : last = Last(eng[w].blocks)
  BY BatchIsTail DEF Branches, Blocks
<1>2. eng[w] \in Engines
  BY DEF CacheInv, CacheTypes
<1>3. ASSUME NEW pc \in {"route", "stream"}, Goes(w, [e EXCEPT !.pc = pc]), UNCHANGED leases
      PROVE  \E v \in Engines : Moves(w, v) /\ v.pc = pc /\ v.prev = last
  <2> DEFINE u == With(eng[w], pc, <<>>, 0)
             v == [u EXCEPT !.prev = last]
  <2>1. pc \in EnginePcs
    BY DEF EnginePcs
  <2>2. u \in Engines /\ u.pc = pc
    BY <1>2, <2>1, EngineCleared
  <2>3. [e EXCEPT !.pc = pc] = v
    BY <1>1, <1>2 DEF With, Engines
  <2> HIDE DEF u
  <2>4. v \in Engines /\ v.pc = pc /\ v.prev = last
    BY <1>1, <2>2 DEF Engines
  <2> HIDE DEF v
  <2>5. Goes(w, v)
    BY <1>3, <2>3
  <2> QED BY <1>3, <2>4, <2>5, GoesMoves
<1>4. CASE Released(w, Idle) /\ ~(eng[w].to < Tip)
  BY <1>4, DefaultsTyped, ReleasedMoves
<1> HIDE DEF e
<1>5. \/ Goes(w, [e EXCEPT !.pc = "route"]) /\ UNCHANGED leases
      \/ Goes(w, [e EXCEPT !.pc = "stream"]) /\ UNCHANGED leases /\ eng[w].to < Tip
      \/ Released(w, Idle) /\ ~(eng[w].to < Tip)
  BY DEF Onward, e
<1> QED BY <1>1, <1>3, <1>4, <1>5

LEMMA FlushStep == ASSUME CacheInv, NEW w \in Wallets, Flush(w) PROVE CacheInv'
<1>1. /\ eng[w].pc = "save" /\ Onward(w) /\ UNCHANGED <<fork, side, tables, scanned, adrift>>
  BY DEF Flush, At, world
<1>2. PICK v \in Engines :
        /\ Moves(w, v)
        /\ \/ v.pc = "route" /\ v.prev = Last(eng[w].blocks)
           \/ v.pc = "stream" /\ v.prev = Last(eng[w].blocks) /\ eng[w].to < Tip
           \/ v.pc = "idle" /\ v.prev = Missing /\ ~(eng[w].to < Tip)
  BY <1>1, OnwardMoves
<1>3. eng'[w].pc = v.pc /\ eng'[w].prev = v.prev
  BY <1>2 DEF Moves
<1>4. PICK t \in Nat : t = eng[w].to
  BY <1>1, BatchIsTail, HeightsAre
<1>5. PICK s \in Nat : s = BatchStart(w)
  BY <1>1, BatchIsTail, HeightsAre
<1>6. /\ t \in Heights /\ s \in Heights /\ Birthday[w] <= s /\ s <= t /\ Len(scanned[w]) > 0
      /\ t = Current(w) - 1
      /\ \A h \in s..t : h \in Heights /\ BatchBlock(w, h) \in Blocks
                         /\ BatchBlock(w, h) = scanned[w][h - Birthday[w] + 1]
      /\ Last(eng[w].blocks) = scanned[w][Len(scanned[w])]
  BY <1>1, <1>4, <1>5, BatchIsTail
<1> DEFINE row == [h \in Heights |-> IF h \in s..t THEN BatchBlock(w, h) ELSE store[w].hash[h]]
<1>7. /\ row \in [Heights -> Branches] /\ \A h \in s..t : row[h] = BatchBlock(w, h) /\ row[h] # Missing
      /\ \A h \in Heights : h \notin s..t => row[h] = store[w].hash[h]
  <2>1. \A h \in s..t : row[h] = BatchBlock(w, h) /\ row[h] \in Blocks
    BY <1>6
  <2>2. \A h \in Heights : h \notin s..t => row[h] = store[w].hash[h]
    OBVIOUS
  <2>3. \A h \in Heights : row[h] \in Branches
    BY <2>1, <2>2, StoreTyped DEF Branches, Blocks
  <2>4. \A h \in s..t : row[h] # Missing
    BY <2>1 DEF Blocks, Missing
  <2> QED BY <2>1, <2>2, <2>3, <2>4
<1>8. store' = [store EXCEPT ![w] = [cursor |-> t, hash |-> row]]
  BY <1>4, <1>5 DEF Flush
<1> HIDE DEF row
<1>9. /\ store' \in [Wallets -> Stores] /\ store'[w].cursor = t /\ store'[w].hash = row
      /\ \A x \in Wallets \ {w} : store'[x] = store[x]
  <2>1. [cursor |-> t, hash |-> row] \in Stores
    BY <1>4, <1>7 DEF Stores
  <2> QED BY <1>8, <2>1 DEF CacheInv, CacheTypes
<1>10. /\ Current(w)' = Current(w) /\ Current(w) = t + 1 /\ Current(w) <= Tip + 1 /\ Tip \in Nat
       /\ Birthday[w] \in Nat /\ 1 <= Birthday[w] /\ Current(w) \in Nat
  BY <1>1, <1>4, <1>6, CurrentTyped, HeightsAre DEF Current
<1>11. Batch(w)'
  BY <1>2, <1>3, <1>10 DEF Batch
<1>12. Memory(w)'
  <2>1. \A h \in Heights : h < Birthday[w] => row[h] = Missing
    <3>1. \A h \in Heights : h < Birthday[w] => store[w].hash[h] = Missing
      BY DEF CacheInv, Memory
    <3>2. \A h \in Heights : h < Birthday[w] => h \notin s..t
      BY <1>6, <1>10, HeightsAre
    <3> QED BY <1>7, <3>1, <3>2
  <2>2. row[t] # Missing
    BY <1>6, <1>7
  <2>3. Birthday[w] - 1 <= t /\ t < Current(w)
    BY <1>6, <1>10
  <2>4. v.pc = "stream" => t + 1 <= Tip
    BY <1>2, <1>4, <1>10
  <2>5. (v.pc # "save" /\ v.prev # Missing) /\ v.pc # "idle" =>
          Len(scanned[w]) > 0 /\ v.prev = scanned[w][Len(scanned[w])]
    BY <1>2, <1>6
  <2>6. v.pc = "idle" => eng'[w].prev = Missing
    BY <1>2, <1>3
  <2> QED BY <1>1, <1>2, <1>3, <1>9, <1>10, <2>1, <2>2, <2>3, <2>4, <2>5, <2>6 DEF Memory
<1>13. ASSUME w \notin adrift' PROVE Witnessed(w)'
  <2>1. Witnessed(w)
    BY <1>1, <1>13 DEF CacheInv
  <2>2. Linked(scanned[w], Birthday[w])'
    BY <1>1, <2>1 DEF Witnessed, Linked, Links
  <2>3. Agrees(w, Current(w) - 1)'
    <3> SUFFICES ASSUME NEW h \in Birthday[w]..t
                 PROVE  row[h] \in {Missing, scanned[w][h - Birthday[w] + 1]}
      BY <1>1, <1>9, <1>10 DEF Agrees
    <3>1. CASE h \in s..t
      BY <1>6, <1>7, <3>1
    <3>2. CASE h \notin s..t
      <4>1. h \in Birthday[w]..s - 1 /\ h \in Heights
        BY <1>6, <1>10, <3>2, HeightsAre DEF Heights
      <4>2. store[w].hash[h] \in {Missing, scanned[w][h - Birthday[w] + 1]}
        BY <1>1, <1>5, <2>1, <4>1 DEF Witnessed, Agrees
      <4> QED BY <1>7, <3>2, <4>1, <4>2
    <3> QED BY <3>1, <3>2
  <2>4. row[t] # Missing /\ (Current(w) - 1)' = t
    BY <1>6, <1>7, <1>10
  <2>5. ResumeRow(w)' # 0
    <3>1. HashAt(w, store[w].cursor)' # Missing
      BY <1>6, <1>9, <2>4 DEF HashAt
    <3>2. store'[w].cursor # 0
      BY <1>6, <1>9, HeightsAre
    <3> QED BY <3>1, <3>2 DEF ResumeRow
  <2>6. v.pc # "save"
    BY <1>2
  <2> QED BY <1>3, <1>9, <2>2, <2>3, <2>4, <2>5, <2>6 DEF Witnessed
<1>14. /\ adrift' \in SUBSET Wallets /\ TablesSound' /\ scanned' \in [Wallets -> Seq(Blocks)]
       /\ \A x \in Wallets \ {w} : scanned'[x] = scanned[x]
  BY <1>1, CacheTables, TablesKept DEF CacheInv, CacheTypes
<1> QED BY <1>1, <1>2, <1>9, <1>11, <1>12, <1>13, <1>14, Advances

LEMMA NoFlushStep == ASSUME CacheInv, NEW w \in Wallets, NoFlush(w) PROVE CacheInv'
<1>1. /\ eng[w].pc = "save" /\ eng[w].to < Tip /\ Onward(w) /\ UNCHANGED <<fork, side, tables, scanned, store>>
      /\ adrift' = IF Contradicts(w, eng[w].to) THEN adrift \cup {w} ELSE adrift
  BY DEF NoFlush, At, world
<1>2. PICK v \in Engines : /\ Moves(w, v) /\ v.pc \in {"route", "stream"} /\ v.prev = Last(eng[w].blocks)
  BY <1>1, OnwardMoves
<1>3. eng'[w].pc \in {"route", "stream"} /\ eng'[w].prev = Last(eng[w].blocks)
  BY <1>2 DEF Moves
<1>4. PICK t \in Nat : t = eng[w].to
  BY <1>1, BatchIsTail, HeightsAre
<1>5. PICK s \in Nat : s = BatchStart(w)
  BY <1>1, BatchIsTail, HeightsAre
<1>6. /\ Birthday[w] <= s /\ s <= t /\ Len(scanned[w]) > 0 /\ t = Current(w) - 1
      /\ \A h \in s..t : BatchBlock(w, h) = scanned[w][h - Birthday[w] + 1]
      /\ Last(eng[w].blocks) = scanned[w][Len(scanned[w])] /\ Last(eng[w].blocks) \in Blocks
  BY <1>1, <1>4, <1>5, BatchIsTail
<1>7. /\ Current(w)' = Current(w) /\ Current(w) = t + 1 /\ Current(w) <= Tip /\ Tip \in Nat
      /\ Birthday[w] \in Nat /\ Current(w) \in Nat /\ eng'[w].prev # Missing
  <2>1. eng'[w].prev # Missing
    BY <1>3, <1>6 DEF Blocks, Missing
  <2> QED BY <1>1, <1>4, <1>6, <2>1, CurrentTyped, HeightsAre DEF Current
<1>8. Batch(w)'
  <2>1. eng'[w].pc \notin {"anchor", "check", "scan", "save"}
    BY <1>3
  <2>2. Current(w)' <= Tip + 1
    BY <1>7
  <2> QED BY <2>1, <2>2 DEF Batch
<1>9. Memory(w)'
  <2>1. /\ Birthday[w] - 1 <= store[w].cursor /\ store[w].cursor < Current(w)
        /\ \A h \in Heights : h < Birthday[w] => store[w].hash[h] = Missing
    BY DEF CacheInv, Memory
  <2> QED BY <1>1, <1>3, <1>6, <1>7, <2>1 DEF Memory
<1>10. ASSUME w \notin adrift' PROVE Witnessed(w)'
  <2>1. Witnessed(w) /\ ~Contradicts(w, t)
    BY <1>1, <1>4, <1>10 DEF CacheInv
  <2>2. Linked(scanned[w], Birthday[w])'
    BY <1>1, <2>1 DEF Witnessed, Linked, Links
  <2>3. Agrees(w, Current(w) - 1)'
    <3> SUFFICES ASSUME NEW h \in Birthday[w]..t
                 PROVE  store[w].hash[h] \in {Missing, scanned[w][h - Birthday[w] + 1]}
      BY <1>1, <1>7 DEF Agrees
    <3>1. CASE h \in s..t
      <4>1. store[w].hash[h] \in {Missing, BatchBlock(w, h)}
        BY <1>5, <2>1, <3>1 DEF Contradicts
      <4> QED BY <1>6, <3>1, <4>1
    <3>2. CASE h \notin s..t
      <4>1. h \in Birthday[w]..s - 1
        BY <1>6, <1>7, <3>2
      <4> QED BY <1>1, <1>5, <2>1, <4>1 DEF Witnessed, Agrees
    <3> QED BY <3>1, <3>2
  <2> QED BY <1>3, <1>7, <2>2, <2>3 DEF Witnessed
<1>11. /\ adrift' \in SUBSET Wallets /\ TablesSound' /\ scanned' \in [Wallets -> Seq(Blocks)]
       /\ store' \in [Wallets -> Stores]
       /\ \A x \in Wallets \ {w} : /\ scanned'[x] = scanned[x] /\ store'[x] = store[x]
                                   /\ x \in adrift' <=> x \in adrift
  BY <1>1, CacheTables, TablesKept DEF CacheInv, CacheTypes
<1> QED BY <1>1, <1>2, <1>8, <1>9, <1>10, <1>11, Advances

LEMMA BoundaryReorgStep == ASSUME CacheInv, NEW w \in Wallets, BoundaryReorg(w) PROVE CacheInv'
<1> DEFINE f == [Idle EXCEPT !.pc = "route"]
<1>1. /\ UNCHANGED <<fork, side>> /\ Released(w, f) /\ RolledBack(w, Ancestor(w, Current(w) - 1))
      /\ eng[w].pc = "scan"
  BY DEF BoundaryReorg, Dropped, world, At
<1>2. f \in Engines /\ f.pc = "route" /\ f.prev = Missing
  BY DefaultsTyped DEF Engines, EnginePcs
<1> HIDE DEF f
<1>3. Moves(w, f)
  BY <1>1, <1>2, ReleasedMoves
<1>4. PICK b \in Int : b = Current(w) - 1
  BY CurrentTyped
<1>5. /\ Birthday[w] - 1 <= b /\ b < Tip /\ b < Current(w) /\ Tip \in Nat /\ Birthday[w] \in Nat
  <2>1. Current(w) <= Tip
    BY <1>1 DEF CacheInv, Memory
  <2> QED BY <1>4, <2>1, CurrentTyped, HeightsAre
<1>6. PICK a \in Nat : a = Ancestor(w, b)
  BY <1>5, AncestorBound
<1>7. /\ Birthday[w] - 1 <= a /\ a <= b
      /\ a = Birthday[w] - 1 \/ (a \in Heights /\ store[w].hash[a] # Missing)
  BY <1>5, <1>6, AncestorBound
<1>8. a < Current(w) /\ a < Tip /\ Birthday[w] - 1 <= a /\ eng[w].pc # "save" /\ RolledBack(w, a)
  BY <1>1, <1>4, <1>5, <1>6, <1>7, CurrentTyped
<1> QED BY <1>1, <1>2, <1>3, <1>7, <1>8, Rewinds

\* A batch in hand stays linked when the server changes branch: fork is the chain's.
LEMMA SameWallets ==
  ASSUME CacheInv, UNCHANGED <<fork, rows, coverage, leases, eng, scanned, store, adrift>>, side' \in {0, 1}
  PROVE  CacheInv'
<1>1. CacheTypes' /\ CoverageBacked'
  BY DEF CacheInv, CacheTypes, CoverageBacked
<1>2. ASSUME NEW v \in Wallets PROVE Batch(v)' /\ Memory(v)' /\ (v \notin adrift => Witnessed(v))'
  <2>1. Batch(v)'
    BY DEF CacheInv, Batch, Current, Linked, Links
  <2> QED BY <2>1, MemoryKept
<1> QED BY <1>1, <1>2 DEF CacheInv

LEMMA ReorgStep == ASSUME CacheInv, Reorg PROVE CacheInv'
<1>1. side' = 1 - side /\ UNCHANGED <<fork, rows, coverage, leases, eng, scanned, store, adrift>>
  BY DEF Reorg, tables, wallet
<1>2. side' \in {0, 1}
  BY <1>1 DEF CacheInv, CacheTypes
<1> QED BY <1>1, <1>2, SameWallets

-----------------------------------------------------------------------------
LEMMA CacheInductive == Spec => []CacheInv
<1>1. ASSUME CacheInv, [Next]_vars PROVE CacheInv'
  <2>1. CASE UNCHANGED vars
    <3>1. UNCHANGED <<fork, rows, coverage, leases, eng, scanned, store, adrift>> /\ side' \in {0, 1}
      BY <1>1, <2>1 DEF vars, CacheInv, CacheTypes
    <3> QED BY <1>1, <3>1, SameWallets
  <2>2. CASE Next
    BY <1>1, <2>2, ReorgStep, StartRunStep, ReadHorizonStep, CheckAnchorStep, RouteStep, CheckBatchStep,
       AcquireStep, StreamStep, ScanStep, FlushStep, NoFlushStep, BoundaryReorgStep,
       CheckBatchUnansweredStep, StreamBreaksStep, CancelStep
    DEF Next, Engine
  <2> QED BY <1>1, <2>1, <2>2
<1> QED BY <1>1, CacheInitInv, PTL DEF Spec

\* Coverage claims only rows that are there, in intervals that do not touch, after
\* any sequence of stores, deletions, rollbacks and legacy adoption.
THEOREM CoverageTrue == Spec => []CoverageBacked
<1>1. CacheInv => CoverageBacked
  BY DEF CacheInv
<1> QED BY <1>1, CacheInductive, PTL

\* Every wallet's scanned blocks are a chain, wherever they came from: a cached batch
\* passes cached_blocks_are_canonical, a streamed one is the server's, and
\* validate_batch_boundary joins each to what was scanned before, through the hash in
\* memory or the row the run resumed from.  The only wallets left out are those whose
\* run ended, or went on without a flush, on blocks its hash rows do not vouch for.
THEOREM ScansAreChains == Spec => []ScannedLinked
<1>1. CacheInv => ScannedLinked
  BY DEF CacheInv, ScannedLinked, Witnessed
<1> QED BY <1>1, CacheInductive, PTL
=============================================================================
