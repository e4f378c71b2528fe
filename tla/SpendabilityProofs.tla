-------------------------- MODULE SpendabilityProofs --------------------------
(***************************************************************************)
(* Proofs about SpendabilitySync for every value of its constants.         *)
(*                                                                         *)
(* The argument: the statements of spendability_state.rs keep a row sound  *)
(* on their own, except two.  Completing a replay needs the interruption   *)
(* latch released, and validating needs a scanned anchor.  So the          *)
(* inductive invariant Inv adds to the row's promises what holds of the    *)
(* actors that reach those two statements (RescanUninterrupted and         *)
(* ValidationPlanSound).  Every other step changes the row only by Neutral *)
(* statements (RowSteps).                                                  *)
(***************************************************************************)
EXTENDS SpendabilitySync, Extrema

-----------------------------------------------------------------------------
(* The statements of spendability_state.rs keep the row a row. *)

LEMMA ArithmeticTypes ==
  ASSUME NEW a \in Nat, NEW b \in Nat
  PROVE  /\ AtLeast(a, b) \in Nat /\ AtLeast(a, b) >= a /\ AtLeast(a, b) >= b
         /\ AtMost(a, b) \in Nat /\ AtMost(a, b) <= a /\ AtMost(a, b) <= b
         /\ Minus(a, b) \in Nat /\ Minus(a, b) <= a
         /\ MinNonZero(a, b) \in Nat
BY DEF AtLeast, AtMost, Minus, MinNonZero

LEMMA ReplayOwedMeaning ==
  ASSUME NEW r
  PROVE  /\ ReplayOwed(r) \in BOOLEAN
         /\ ReplayOwed(r) => r.required > 0
         /\ r.required > 0 => ReplayOwed(r)
BY DEF ReplayOwed

\* What the row promises by itself: the closed gate of an unfinished replay, and
\* the stored flag.
RowSound(r) ==
    /\ r.required > 0 => r.rescan_required
    /\ r.spendable => /\ ~r.rescan_required
                      /\ r.required = 0
                      /\ ~r.repair_queued
                      /\ ~r.interrupted
                      /\ r.anchor > 0
                      /\ r.validated >= r.anchor

\* Every statement maps rows to rows.
LEMMA RowStatements ==
  ASSUME NEW r \in Row, NEW a \in Nat, NEW b \in Nat
  PROVE  /\ RecordKnownSyncHeight(r, a) \in Row
         /\ BeginRescan(r, a, b) \in Row
         /\ MarkSyncInterrupted(r) \in Row
         /\ MarkRescanRequired(r) \in Row
         /\ CompleteRequiredRescan(r, a, b) \in Row
         /\ MarkSyncFinalizing(r, a, b) \in Row
         /\ MarkValidated(r, a, b) \in Row
         /\ MarkRepairPending(r, a) \in Row
         /\ ImportGate(r, a) \in Row
         /\ TruncateRow(r, a) \in Row
<1>1. RecordKnownSyncHeight(r, a) \in Row
  BY DEF RecordKnownSyncHeight, Row, AtLeast
<1>2. BeginRescan(r, a, b) \in Row
  BY DEF BeginRescan, Row, AtLeast
<1>3. MarkSyncInterrupted(r) \in Row /\ MarkRescanRequired(r) \in Row
  BY DEF MarkSyncInterrupted, MarkRescanRequired, Row
<1>4. CompleteRequiredRescan(r, a, b) \in Row
  BY DEF CompleteRequiredRescan, Row
<1>5. MarkSyncFinalizing(r, a, b) \in Row /\ MarkValidated(r, a, b) \in Row
  BY ReplayOwedMeaning DEF MarkSyncFinalizing, MarkValidated, Row
<1>6. MarkRepairPending(r, a) \in Row
  <2>1. r.repair_from \in Nat /\ AtLeast(a, 1) \in Nat
    BY DEF Row, AtLeast
  <2>2. MinNonZero(r.repair_from, AtLeast(a, 1)) \in Nat
    BY <2>1, ArithmeticTypes
  <2> QED BY <2>2, ReplayOwedMeaning DEF MarkRepairPending, Row
<1>7. ImportGate(r, a) \in Row
  <2>1. r.required \in Nat /\ r.generation + 1 \in Nat
    BY DEF Row
  <2>2. MinNonZero(r.required, a) \in Nat
    BY <2>1, ArithmeticTypes
  <2> QED BY <2>1, <2>2 DEF ImportGate, Row
<1>8. TruncateRow(r, a) \in Row
  BY DEF TruncateRow, Row, AtMost
<1> QED BY <1>1, <1>2, <1>3, <1>4, <1>5, <1>6, <1>7, <1>8

\* Every statement keeps a sound row sound.  Completing a replay needs the
\* interruption latch to be released, validating an anchor needs an anchor.
LEMMA RowStatementsSound ==
  ASSUME NEW r \in Row, RowSound(r), NEW a \in Nat, NEW b \in Nat
  PROVE  /\ RowSound(RecordKnownSyncHeight(r, a))
         /\ RowSound(BeginRescan(r, a, b))
         /\ RowSound(MarkSyncInterrupted(r))
         /\ RowSound(MarkRescanRequired(r))
         /\ ~r.interrupted => RowSound(CompleteRequiredRescan(r, a, b))
         /\ RowSound(MarkSyncFinalizing(r, a, b))
         /\ b > 0 => RowSound(MarkValidated(r, a, b))
         /\ RowSound(MarkRepairPending(r, a))
         /\ RowSound(ImportGate(r, a))
         /\ RowSound(TruncateRow(r, a))
<1>1. RowSound(RecordKnownSyncHeight(r, a))
  BY DEF RowSound, RecordKnownSyncHeight, Row, AtLeast
<1>2. RowSound(BeginRescan(r, a, b))
  BY DEF RowSound, BeginRescan, Row
<1>3. RowSound(MarkSyncInterrupted(r)) /\ RowSound(MarkRescanRequired(r))
  BY DEF RowSound, MarkSyncInterrupted, MarkRescanRequired, Row
<1>4. ASSUME ~r.interrupted PROVE RowSound(CompleteRequiredRescan(r, a, b))
  BY <1>4 DEF RowSound, CompleteRequiredRescan, Row
<1>5. RowSound(MarkSyncFinalizing(r, a, b))
  BY ReplayOwedMeaning DEF RowSound, MarkSyncFinalizing, Row
<1>6. ASSUME b > 0 PROVE RowSound(MarkValidated(r, a, b))
  BY <1>6, ReplayOwedMeaning DEF RowSound, MarkValidated, Row
<1>7. RowSound(MarkRepairPending(r, a))
  BY ReplayOwedMeaning DEF RowSound, MarkRepairPending, Row
<1>8. RowSound(ImportGate(r, a))
  BY DEF RowSound, ImportGate, Row
<1>9. RowSound(TruncateRow(r, a))
  BY DEF RowSound, TruncateRow, Row
<1> QED BY <1>1, <1>2, <1>3, <1>4, <1>5, <1>6, <1>7, <1>8, <1>9

-----------------------------------------------------------------------------
(* The scan queue, the checkpoints, and target and anchor. *)

\* The ends of the ranges in S are bounded, so that S has a latest end.
Bounded(S) == \E n \in Nat : \A r \in S : r.end <= n

LEMMA BoundedSubset ==
  ASSUME NEW S, NEW T \in SUBSET S, Bounded(S)
  PROVE  Bounded(T)
BY DEF Bounded

LEMMA NextFoundMember ==
  ASSUME NEW f \in SUBSET FoundRow, f # {}
  PROVE  /\ NextFound(f) \in f
         /\ NextFound(f) \in FoundRow
<1> DEFINE active == {r \in f : r.status = "in_progress"}
           ready == IF active # {} THEN active ELSE f
           starts == {r.start : r \in ready}
<1>1. ready \in SUBSET f /\ ready # {}
  OBVIOUS
<1>2. starts \in SUBSET Nat /\ starts # {}
  BY <1>1 DEF FoundRow
<1>3. PICK m \in starts : \A y \in starts : m <= y
  <2> HIDE DEF starts
  <2> QED BY <1>2, NatMinExists
<1>4. \E r \in ready : \A q \in ready : r.start <= q.start
  BY <1>3
<1>5. NextFound(f) = CHOOSE r \in ready : \A q \in ready : r.start <= q.start
  BY DEF NextFound
<1>6. NextFound(f) \in ready
  <2> HIDE DEF ready
  <2> QED BY <1>4, <1>5
<1> QED BY <1>1, <1>6

LEMMA MarkInProgressTypes ==
  ASSUME NEW f \in SUBSET FoundRow, NEW q \in f, Bounded(f)
  PROVE  MarkInProgress(f, q) \in SUBSET FoundRow /\ Bounded(MarkInProgress(f, q))
<1>1. [q EXCEPT !.status = "in_progress"] \in FoundRow
  BY DEF FoundRow
<1>2. [q EXCEPT !.status = "in_progress"].end = q.end
  BY DEF FoundRow
<1> QED BY <1>1, <1>2 DEF MarkInProgress, Bounded

\* queue_range returns a bounded queue of well-formed rows.
LEMMA QueueCommitTypes ==
  ASSUME NEW f \in SUBSET FoundRow, NEW seen \in SUBSET FoundRow,
         Bounded(f), Bounded(seen), NEW req, req.start \in Nat, req.end \in Nat
  PROVE  /\ QueueCommit(f, seen, req) \in SUBSET FoundRow
         /\ Bounded(QueueCommit(f, seen, req))
<1> DEFINE pending == {r \in seen : r.status = "pending"}
           lows == {req.start} \cup {r.start : r \in pending}
           highs == {req.end} \cup {r.end : r \in pending}
           merged == [start |-> Min(lows), end |-> Max(highs), status |-> "pending"]
<1>1. Min(lows) \in Nat
  <2>1. lows \in SUBSET Nat /\ lows # {}
    BY DEF FoundRow
  <2> HIDE DEF lows
  <2> QED BY <2>1, MinIsMember
<1>2. Max(highs) \in Nat
  <2>1. highs \in SUBSET Nat /\ highs # {}
    BY DEF FoundRow
  <2>2. PICK n \in Nat : \A r \in seen : r.end <= n
    BY DEF Bounded
  <2>3. PICK k \in Nat : k >= n /\ k >= req.end
    BY <2>2
  <2>4. \A y \in highs : y <= k
    BY <2>2, <2>3 DEF FoundRow
  <2> HIDE DEF highs
  <2> QED BY <2>1, <2>4, MaxIsMember
<1>3. merged \in FoundRow
  <2> HIDE DEF lows, highs
  <2> QED BY <1>1, <1>2 DEF FoundRow
<1>4. QueueCommit(f, seen, req) \subseteq f \cup {merged}
  BY DEF QueueCommit
<1>5. Bounded(f \cup {merged})
  <2> HIDE DEF merged
  <2>1. PICK n \in Nat : \A r \in f : r.end <= n
    BY DEF Bounded
  <2>2. merged.end \in Nat
    BY <1>3 DEF FoundRow
  <2>3. PICK k \in Nat : k >= n /\ k >= merged.end
    BY <2>2
  <2>4. \A r \in f \cup {merged} : r.end <= k
    BY <2>1, <2>2, <2>3 DEF FoundRow
  <2> QED BY <2>4 DEF Bounded
<1> HIDE DEF merged
<1> QED BY <1>3, <1>4, <1>5, BoundedSubset

\* The historic row stays one row from the birthday up to the latest end.
LEMMA RecordHistoricTypes ==
  ASSUME NEW H \in SUBSET HistRow, Bounded(H), NEW e \in Nat, e > Birthday,
         \A h \in H : h.start = Birthday /\ h.end > Birthday
  PROVE  /\ RecordHistoric(H, Birthday, e) \in SUBSET HistRow
         /\ Bounded(RecordHistoric(H, Birthday, e))
         /\ \A h \in RecordHistoric(H, Birthday, e) :
               h.start = Birthday /\ h.end > Birthday
         /\ \A h \in H : \E g \in RecordHistoric(H, Birthday, e) : g.end >= h.end
<1> DEFINE lows == {Birthday} \cup {h.start : h \in H}
           highs == {e} \cup {h.end : h \in H}
           merged == [start |-> Min(lows), end |-> Max(highs)]
<1>1. Birthday \in Nat
  BY BirthdayAssumption
<1>2. Min(lows) = Birthday
  <2>1. lows = {Birthday}
    OBVIOUS
  <2>2. lows \in SUBSET Nat /\ lows # {}
    BY <1>1, <2>1
  <2> HIDE DEF lows
  <2> QED BY <2>1, <2>2, MinIsMember
<1>3. Max(highs) \in highs /\ \A y \in highs : Max(highs) >= y
  <2>1. highs \in SUBSET Nat /\ highs # {}
    BY DEF HistRow
  <2>2. PICK n \in Nat : \A r \in H : r.end <= n
    BY DEF Bounded
  <2>3. PICK k \in Nat : k >= n /\ k >= e
    BY <2>2
  <2>4. \A y \in highs : y <= k
    BY <2>2, <2>3 DEF HistRow
  <2> HIDE DEF highs
  <2> QED BY <2>1, <2>4, MaxIsMember
<1>4. Max(highs) \in Nat /\ Max(highs) >= e /\ \A h \in H : Max(highs) >= h.end
  <2>1. Max(highs) \in Nat
    <3>1. highs \in SUBSET Nat
      BY DEF HistRow
    <3> QED BY <3>1, <1>3
  <2>2. e \in highs /\ \A h \in H : h.end \in highs
    OBVIOUS
  <2> HIDE DEF highs
  <2> QED BY <1>3, <2>1, <2>2
<1>5. RecordHistoric(H, Birthday, e) = {merged}
  BY <1>1 DEF RecordHistoric
<1>6. merged \in HistRow /\ merged.start = Birthday /\ merged.end = Max(highs)
  <2> HIDE DEF lows, highs
  <2> QED BY <1>1, <1>2, <1>4 DEF HistRow
<1> HIDE DEF merged, lows, highs
<1> QED BY <1>1, <1>4, <1>5, <1>6 DEF Bounded

LEMMA CommonCheckpointTypes ==
  ASSUME NEW c \in [Pools -> SUBSET Nat], NEW h \in Nat
  PROVE  CommonCheckpoint(c, h) \in 0..h
<1> DEFINE T == {0} \cup {x \in 0..h : \A p \in Pools : x \in c[p]}
<1>1. T \in SUBSET Nat /\ T # {} /\ (\A y \in T : y <= h) /\ T \subseteq 0..h
  OBVIOUS
<1>2. CommonCheckpoint(c, h) = Max(T)
  BY DEF CommonCheckpoint
<1> HIDE DEF T
<1>3. Max(T) \in T
  BY <1>1, MaxIsMember
<1> QED BY <1>1, <1>2, <1>3

LEMMA SnapTypes ==
  ASSUME NEW c \in [Pools -> SUBSET Nat], NEW hi \in Nat, NEW lo \in Nat
  PROVE  SnapToCheckpoint(c, hi, lo) \in Nat /\ SnapToCheckpoint(c, hi, lo) <= hi
<1> DEFINE inRange(p) == {x \in c[p] : lo <= x /\ x <= hi}
           newest == {Max(inRange(p)) : p \in {q \in Pools : inRange(q) # {}}}
<1>1. ASSUME NEW p \in Pools, inRange(p) # {}
      PROVE  Max(inRange(p)) \in 0..hi
  <2>1. inRange(p) \in SUBSET Nat /\ \A y \in inRange(p) : y <= hi
    OBVIOUS
  <2>2. inRange(p) \subseteq 0..hi
    OBVIOUS
  <2> HIDE DEF inRange
  <2> QED BY <1>1, <2>1, <2>2, MaxIsMember
<1>2. newest \subseteq 0..hi
  <2> HIDE DEF inRange
  <2> QED BY <1>1
<1>3. SnapToCheckpoint(c, hi, lo) = IF newest = {} THEN hi ELSE Min(newest)
  BY DEF SnapToCheckpoint
<1> HIDE DEF newest
<1>4. CASE newest = {}
  BY <1>3, <1>4
<1>5. CASE newest # {}
  <2>1. newest \in SUBSET Nat
    BY <1>2
  <2>2. Min(newest) \in newest
    BY <1>5, <2>1, MinIsMember
  <2>3. Min(newest) \in 0..hi
    BY <1>2, <2>2
  <2>4. SnapToCheckpoint(c, hi, lo) = Min(newest)
    BY <1>3, <1>5
  <2> QED BY <2>3, <2>4
<1> QED BY <1>4, <1>5

\* The heights a spend or a witness check works at lie in the historic row.
LEMMA HeightsTypes ==
  ASSUME NEW H \in SUBSET HistRow, NEW c \in [Pools -> SUBSET Nat],
         \A h \in H : h.start = Birthday /\ h.end > Birthday,
         NEW t \in Heights(H, c)
  PROVE  /\ t.target \in Nat /\ t.anchor \in Nat
         /\ \E h \in H : t.anchor < h.end
<1>1. Birthday \in Nat /\ Birthday > 0 /\ MinConf \in Nat
  BY BirthdayAssumption, MinConfAssumption
<1>2. PICK x \in ScanQueueExtrema(H) :
         t = LET target == x.max + 1
                 floor == AtLeast(x.min, Birthday)
                 ideal == AtLeast(Minus(target, AtLeast(MinConf, 1)), floor)
             IN [target |-> target, anchor |-> SnapToCheckpoint(c, ideal, floor),
                 ideal |-> ideal]
  BY DEF Heights, TargetAndAnchor
<1>3. PICK h \in H : x = [min |-> AtLeast(h.start, 1), max |-> Minus(h.end, 1)]
  BY DEF ScanQueueExtrema
<1>4. h.start = Birthday /\ h.end \in Nat /\ h.end > Birthday
  BY DEF HistRow
<1>5. x.min = Birthday /\ x.max = h.end - 1
  BY <1>1, <1>3, <1>4 DEF AtLeast, Minus
<1> DEFINE floor == AtLeast(x.min, Birthday)
           ideal == AtLeast(Minus(x.max + 1, AtLeast(MinConf, 1)), floor)
<1>6. floor \in Nat /\ ideal \in Nat /\ ideal < h.end /\ x.max + 1 \in Nat
  BY <1>1, <1>4, <1>5 DEF AtLeast, Minus
<1>7. t.target = x.max + 1 /\ t.anchor = SnapToCheckpoint(c, ideal, floor)
  BY <1>2
<1> HIDE DEF floor, ideal
<1>8. t.anchor \in Nat /\ t.anchor <= ideal
  BY <1>6, <1>7, SnapTypes
<1> QED BY <1>4, <1>6, <1>7, <1>8

-----------------------------------------------------------------------------
(* The inductive invariant. *)

\* Heights that are about to be decremented are positive.
HeightsPositive ==
    /\ eng.pc # "idle" => eng.cur >= 1
    /\ eng.pc = "rollback" => eng.repair.start >= 1
    /\ ctl.pc # "idle" => ctl.from >= 1

HistShape == \A h \in hist : h.start = Birthday /\ h.end > Birthday

TypeInv ==
    /\ TypeOK
    /\ Bounded(found) /\ Bounded(brd.seen) /\ Bounded(hist)
    /\ HistShape
    /\ HeightsPositive

LEMMA BirthdayPositive == Birthday \in Nat /\ Birthday >= 1
BY BirthdayAssumption

\* truncate_above_height keeps every table well formed.
LEMMA TruncateTypes ==
  ASSUME TypeInv, NEW h \in Nat, Truncate(h)
  PROVE  /\ row' \in Row
         /\ found' \in SUBSET FoundRow /\ Bounded(found')
         /\ hist' \in SUBSET HistRow /\ Bounded(hist')
         /\ \A x \in hist' : x.start = Birthday /\ x.end > Birthday
         /\ cps' \in [Pools -> SUBSET Nat]
         /\ local' \in 0..h
<1> USE DEF TypeInv, TypeOK
<1>1. row' \in Row
  BY RowStatements DEF Truncate
<1>2. found' \in SUBSET found /\ hist' \in SUBSET hist
  BY DEF Truncate, TruncateQueue
<1>3. Bounded(found') /\ Bounded(hist')
  BY <1>2, BoundedSubset
<1>4. local' \in 0..h
  BY CommonCheckpointTypes DEF Truncate
<1>5. cps' \in [Pools -> SUBSET Nat]
  BY DEF Truncate
<1> QED BY <1>1, <1>2, <1>3, <1>4, <1>5 DEF HistShape

\* The idle actors are well typed.
LEMMA IdleTypes ==
  /\ EngIdle \in Engines /\ EngIdle.pc = "idle"
  /\ CtlIdle \in Controllers /\ CtlIdle.pc = "idle"
  /\ BrdIdle \in Broadcasters /\ BrdIdle.seen = {}
BY DEF EngIdle, CtlIdle, BrdIdle, NoRepair, NoReplay, NoPlan, Engines, EnginePcs,
       Kinds, PlanOps, Replays, HistRow, Controllers, Broadcasters

LEMMA BoundedEmpty == Bounded({})
BY DEF Bounded

LEMMA InitTypeInv == Init => TypeInv
<1> SUFFICES ASSUME Init PROVE TypeInv
  OBVIOUS
<1>1. row \in Row
  BY DEF Init, DefaultRow, Row
<1> QED BY <1>1, IdleTypes, BoundedEmpty, BirthdayPositive
        DEF Init, TypeInv, TypeOK, HistShape, HeightsPositive

\* What a well-typed engine may become.
EngineOK(e) ==
    /\ e \in Engines
    /\ e.pc # "idle" => e.cur >= 1
    /\ e.pc = "rollback" => e.repair.start >= 1

\* What well-formed tables are.
TablesOK ==
    /\ row \in Row
    /\ found \in SUBSET FoundRow /\ Bounded(found)
    /\ hist \in SUBSET HistRow /\ Bounded(hist) /\ HistShape
    /\ cps \in [Pools -> SUBSET Nat]
    /\ local \in Nat

ControllerOK == ctl \in Controllers /\ (ctl.pc # "idle" => ctl.from >= 1)
BroadcasterOK == brd \in Broadcasters /\ Bounded(brd.seen)
RestOK == tip \in Nat /\ owed \in SUBSET Nat /\ disturb \in Nat

LEMMA TypeInvParts ==
  /\ TypeInv <=> TablesOK /\ EngineOK(eng) /\ ControllerOK /\ BroadcasterOK /\ RestOK
  /\ TypeInv' <=> TablesOK' /\ EngineOK(eng') /\ ControllerOK' /\ BroadcasterOK' /\ RestOK'
BY DEF TypeInv, TypeOK, HistShape, HeightsPositive, TablesOK, EngineOK,
       ControllerOK, BroadcasterOK, RestOK

LEMMA UnchangedParts ==
  /\ TablesOK /\ UNCHANGED tables => TablesOK'
  /\ EngineOK(eng) /\ UNCHANGED eng => EngineOK(eng')
  /\ ControllerOK /\ UNCHANGED ctl => ControllerOK'
  /\ BroadcasterOK /\ UNCHANGED brd => BroadcasterOK'
  /\ RestOK /\ UNCHANGED <<tip, owed, disturb>> => RestOK'
  /\ RestOK /\ UNCHANGED <<tip, owed>> /\ Disturb => RestOK'
BY DEF TablesOK, EngineOK, ControllerOK, BroadcasterOK, RestOK, tables, HistShape, Disturb

LEMMA ResumeHeightTypes ==
  ASSUME TypeInv
  PROVE  ResumeHeight \in Nat /\ ResumeHeight >= 1
BY BirthdayPositive DEF TypeInv, TypeOK, ResumeHeight, AtLeast

LEMMA StartTypes ==
  ASSUME TypeInv, StartSync \/ StartBackground
  PROVE  TypeInv'
<1> USE TypeInvParts, UnchangedParts, ResumeHeightTypes
<1>1. CASE StartSync
  <2>1. EngineOK(eng')
    BY <1>1 DEF StartSync, EngineOK, EngIdle, NoRepair, NoReplay, NoPlan, Engines,
                EnginePcs, Kinds, PlanOps, Replays, HistRow
  <2> QED BY <1>1, <2>1 DEF StartSync
<1>2. CASE StartBackground
  <2>1. EngineOK(eng')
    <3>1. CASE eng' = eng
      BY <3>1
    <3>2. CASE eng' # eng
      <4>1. PICK e \in ResumeHeight..tip :
               eng' = [EngIdle EXCEPT !.pc = "connect", !.kind = "background",
                         !.start = ResumeHeight, !.cur = ResumeHeight, !.end = e]
        BY <1>2, <3>2 DEF StartBackground
      <4>2. e \in Nat
        OBVIOUS
      <4> QED BY <4>1, <4>2 DEF EngineOK, EngIdle, NoRepair, NoReplay, NoPlan, Engines,
                EnginePcs, Kinds, PlanOps, Replays, HistRow
    <3> QED BY <3>1, <3>2
  <2>2. TablesOK'
    BY <1>2, RowStatements DEF StartBackground, TablesOK, RestOK, HistShape
  <2> QED BY <1>2, <2>1, <2>2 DEF StartBackground
<1> QED BY <1>1, <1>2

LEMMA AncestorTypes ==
  ASSUME NEW n \in Nat, NEW h \in Ancestors(n)
  PROVE  h \in Nat /\ AtLeast(h + 1, 1) \in Nat /\ AtLeast(h + 1, 1) >= 1
BY BirthdayPositive DEF Ancestors, AtLeast

LEMMA TruncateParts ==
  ASSUME TypeInv, NEW h \in Nat, Truncate(h)
  PROVE  TablesOK' /\ local' \in 0..h
BY TruncateTypes DEF TablesOK, HistShape

LEMMA TreeChoicesTypes ==
  ASSUME TypeInv, NEW s \in Nat, NEW c \in Nat, c >= 1, NEW t \in TreeChoices(s, c)
  PROVE  t.trees \in [Pools -> SUBSET Nat] /\ t.cur \in Nat /\ t.cur >= 1
<1>0. cps \in [Pools -> SUBSET Nat]
  BY DEF TypeInv, TypeOK
<1>1. CASE s <= 1
  BY <1>1 DEF TreeChoices
<1>2. CASE s > 1
  <2> DEFINE common == CommonCheckpoint(cps, s - 1)
  <2>1. s - 1 \in Nat
    BY <1>2
  <2>2. common \in Nat
    BY <1>0, <2>1, CommonCheckpointTypes
  <2>3. \/ t = [trees |-> cps, cur |-> c]
        \/ t = [trees |-> [p \in Pools |-> {s - 1}], cur |-> c]
        \/ t = [trees |-> [p \in Pools |-> {x \in cps[p] : x <= common}],
                cur |-> common + 1]
    BY <1>2 DEF TreeChoices
  <2> HIDE DEF common
  <2> QED BY <1>0, <2>1, <2>2, <2>3
<1> QED BY <1>1, <1>2

LEMMA PrepareTypes ==
  ASSUME TypeInv, Prepare
  PROVE  TypeInv'
<1> DEFINE resume == Follow /\ found # {}
           next == NextFound(found)
           cur0 == IF resume THEN AtMost(eng.cur, AtLeast(next.start, 1)) ELSE eng.cur
<1>0. TablesOK /\ EngineOK(eng) /\ eng.pc = "prepare"
  BY TypeInvParts DEF Prepare
<1>1. PICK t \in TreeChoices(eng.start, cur0) :
         /\ cps' = t.trees
         /\ eng' = [eng EXCEPT !.pc = "outer", !.cur = t.cur]
         /\ hist' = RecordHistoric(hist, Birthday, AtLeast(t.cur + 1, Birthday + 1))
  BY DEF Prepare
<1>2. found # {} => next \in found /\ next \in FoundRow
  BY <1>0, NextFoundMember DEF TablesOK
<1>3. cur0 \in Nat /\ cur0 >= 1 /\ eng.start \in Nat
  BY <1>0, <1>2 DEF EngineOK, Engines, FoundRow, AtMost, AtLeast
<1>4. found' \in SUBSET FoundRow /\ Bounded(found')
  BY <1>0, <1>2, MarkInProgressTypes DEF Prepare, TablesOK
<1>5. row' \in Row
  BY <1>0, <1>2, RowStatements DEF Prepare, TablesOK, FoundRow
<1> HIDE DEF resume, next, cur0
<1>6. t.trees \in [Pools -> SUBSET Nat] /\ t.cur \in Nat /\ t.cur >= 1
  BY <1>3, TreeChoicesTypes
<1>7. EngineOK(eng')
  BY <1>0, <1>1, <1>6 DEF EngineOK, Engines, EnginePcs
<1>8. hist' \in SUBSET HistRow /\ Bounded(hist') /\ HistShape'
  <2>1. AtLeast(t.cur + 1, Birthday + 1) \in Nat /\ AtLeast(t.cur + 1, Birthday + 1) > Birthday
    BY <1>6, BirthdayPositive DEF AtLeast
  <2> QED BY <1>0, <1>1, <2>1, RecordHistoricTypes DEF TablesOK, HistShape
<1>9. local' \in Nat /\ cps' \in [Pools -> SUBSET Nat]
  BY <1>0, <1>1, <1>6 DEF Prepare, TablesOK
<1>10. TablesOK'
  BY <1>4, <1>5, <1>8, <1>9 DEF TablesOK
<1> QED BY <1>7, <1>10, TypeInvParts, UnchangedParts DEF Prepare

LEMMA ConnectTypes ==
  ASSUME TypeInv, Connect \/ ResumeMatches \/ ResumeReorg
  PROVE  TypeInv'
<1> USE TypeInvParts, UnchangedParts
<1>0. EngineOK(eng) /\ tip \in Nat
  BY DEF RestOK
<1>1. CASE Connect
  <2>1. EngineOK(eng')
    BY <1>0, <1>1 DEF Connect, EngineOK, Engines, EnginePcs, Kinds, AtLeast
  <2>2. TablesOK'
    BY <1>0, <1>1, RowStatements DEF Connect, TablesOK, HistShape
  <2> QED BY <1>1, <2>1, <2>2 DEF Connect
<1>2. CASE ResumeMatches
  <2>1. EngineOK(eng')
    BY <1>0, <1>2 DEF ResumeMatches, EngineOK, Engines, EnginePcs
  <2> QED BY <1>2, <2>1 DEF ResumeMatches
<1>3. CASE ResumeReorg
  <2>1. PICK h \in Ancestors(eng.start) :
         /\ Truncate(h)
         /\ eng' = [eng EXCEPT !.pc = "prepare", !.start = AtLeast(h + 1, 1),
                               !.cur = AtLeast(h + 1, 1)]
    BY <1>3 DEF ResumeReorg
  <2>2. h \in Nat /\ AtLeast(h + 1, 1) \in Nat /\ AtLeast(h + 1, 1) >= 1
    BY <1>0, AncestorTypes DEF EngineOK, Engines
  <2>3. EngineOK(eng')
    BY <1>0, <2>1, <2>2 DEF EngineOK, Engines, EnginePcs
  <2> QED BY <1>3, <2>1, <2>2, <2>3, TruncateParts DEF ResumeReorg
<1> QED BY <1>1, <1>2, <1>3

LEMMA SuccTypes ==
  ASSUME NEW n \in Nat
  PROVE  n + 1 \in Nat /\ n + 1 >= 1
OBVIOUS

LEMMA FailRowTypes ==
  ASSUME NEW r \in Row, NEW k \in Kinds
  PROVE  FailRow(k, r) \in Row
BY RowStatements DEF FailRow, Kinds

LEMMA EndTypes ==
  ASSUME TypeInv, Fail \/ Cancel \/ Finish \/ Crash
  PROVE  TypeInv'
<1> USE TypeInvParts, UnchangedParts
<1>0. EngineOK(eng) /\ TablesOK /\ RestOK /\ EngineOK(EngIdle)
  BY IdleTypes DEF EngineOK
<1>1. CASE Fail
  <2>1. TablesOK'
    BY <1>0, <1>1, FailRowTypes DEF Fail, TablesOK, HistShape, EngineOK, Engines
  <2> QED BY <1>0, <1>1, <2>1 DEF Fail
<1>2. CASE Cancel
  <2>1. TablesOK'
    BY <1>0, <1>2, RowStatements DEF Cancel, TablesOK, HistShape
  <2> QED BY <1>0, <1>2, <2>1 DEF Cancel
<1>3. CASE Finish
  <2>1. eng.req.generation \in Nat /\ eng.from \in Nat
    BY <1>0 DEF EngineOK, Engines, Replays
  <2>2. TablesOK'
    BY <1>0, <1>3, <2>1, RowStatements DEF Finish, TablesOK, HistShape
  <2>3. RestOK'
    BY <1>0, <1>3 DEF Finish, RestOK
  <2> QED BY <1>0, <1>3, <2>2, <2>3 DEF Finish
<1>4. CASE Crash
  <2>1. ControllerOK' /\ BroadcasterOK'
    BY <1>4, IdleTypes, BoundedEmpty DEF Crash, ControllerOK, BroadcasterOK
  <2> QED BY <1>0, <1>4, <2>1 DEF Crash
<1> QED BY <1>1, <1>2, <1>3, <1>4

LEMMA RepairTypes ==
  ASSUME TypeInv, ActivateRepair \/ NoRepairQueued \/ RepairRollback
  PROVE  TypeInv'
<1> USE TypeInvParts, UnchangedParts
<1>0. EngineOK(eng) /\ TablesOK
  OBVIOUS
<1>1. CASE ActivateRepair
  <2> DEFINE next == NextFound(found)
             rng == [start |-> AtLeast(next.start, 1),
                     end |-> AtLeast(next.end, AtLeast(next.start, 1) + 1)]
             pending == MarkRepairPending(row, rng.start)
  <2>1. next \in found /\ next \in FoundRow
    BY <1>0, <1>1, NextFoundMember DEF TablesOK, ActivateRepair
  <2>2. rng \in HistRow /\ rng.start \in Nat /\ rng.start >= 1 /\ rng.start - 1 \in Nat
    BY <2>1 DEF FoundRow, HistRow, AtLeast
  <2>3. pending \in Row
    <3> HIDE DEF rng
    <3> QED BY <1>0, <2>2, RowStatements DEF TablesOK
  <2>4. found' = MarkInProgress(found, next)
    BY <1>1 DEF ActivateRepair
  <2>5. found' \in SUBSET FoundRow /\ Bounded(found')
    <3> HIDE DEF next
    <3> QED BY <1>0, <2>1, <2>4, MarkInProgressTypes DEF TablesOK
  <2>6. \/ /\ row' = pending
           /\ eng' = [eng EXCEPT !.pc = "rollback", !.repair = rng,
                                 !.tried = @ \cup {rng},
                                 !.checked = AtMost(@, rng.start - 1)]
        \/ row' = FailRow(eng.kind, pending) /\ eng' = EngIdle
    BY <1>1 DEF ActivateRepair
  <2> HIDE DEF pending, rng, next
  <2>7. row' \in Row
    BY <1>0, <2>3, <2>6, FailRowTypes DEF EngineOK, Engines
  <2>8. EngineOK(eng')
    <3>1. CASE eng' = EngIdle
      BY <3>1, IdleTypes DEF EngineOK
    <3>2. CASE eng' = [eng EXCEPT !.pc = "rollback", !.repair = rng,
                                 !.tried = @ \cup {rng},
                                 !.checked = AtMost(@, rng.start - 1)]
      <4>1. AtMost(eng.checked, rng.start - 1) \in Nat
        BY <1>0, <2>2, ArithmeticTypes DEF EngineOK, Engines
      <4>2. eng.pc = "outer"
        BY <1>1 DEF ActivateRepair
      <4> QED BY <1>0, <2>2, <3>2, <4>1, <4>2 DEF EngineOK, Engines, EnginePcs
    <3> QED BY <2>6, <3>1, <3>2
  <2>9. TablesOK'
    BY <1>0, <1>1, <2>5, <2>7 DEF ActivateRepair, TablesOK, HistShape
  <2> QED BY <1>1, <2>8, <2>9 DEF ActivateRepair
<1>2. CASE NoRepairQueued
  <2>1. EngineOK(eng')
    BY <1>0, <1>2 DEF NoRepairQueued, EngineOK, Engines, EnginePcs
  <2> QED BY <1>2, <2>1 DEF NoRepairQueued
<1>3. CASE RepairRollback
  <2>1. eng.repair.start - 1 \in Nat /\ eng.repair.end - 1 \in Int /\ eng.end \in Nat
    BY <1>0, <1>3 DEF RepairRollback, EngineOK, Engines, HistRow
  <2>2. TablesOK' /\ local' \in Nat
    BY <1>3, <2>1, TruncateParts DEF RepairRollback
  <2> DEFINE end == AtLeast(AtLeast(eng.end, eng.repair.end - 1), local' + 1)
  <2>3. end \in Nat
    <3>1. AtLeast(eng.end, eng.repair.end - 1) \in Nat
      BY <2>1 DEF AtLeast
    <3>2. local' + 1 \in Nat
      BY <2>2, SuccTypes
    <3> QED BY <3>1, <3>2, ArithmeticTypes
  <2>4. eng' = [eng EXCEPT !.pc = "scan", !.cur = local' + 1, !.end = end]
    BY <1>3 DEF RepairRollback
  <2>5. EngineOK(eng')
    <3> DEFINE cur == local' + 1
    <3>1. cur \in Nat /\ cur >= 1
      BY <2>2, SuccTypes
    <3>2. eng' = [eng EXCEPT !.pc = "scan", !.cur = cur, !.end = end]
      BY <2>4
    <3> HIDE DEF end, cur
    <3> QED BY <1>0, <2>3, <3>1, <3>2 DEF EngineOK, Engines, EnginePcs
  <2> QED BY <1>3, <2>2, <2>5 DEF RepairRollback
<1> QED BY <1>1, <1>2, <1>3

LEMMA ScanBatchTypes ==
  ASSUME TypeInv, ScanBatch
  PROVE  TypeInv'
<1>0. EngineOK(eng) /\ TablesOK /\ eng.cur \in Nat /\ eng.end \in Nat /\ eng.cur >= 1
  BY TypeInvParts DEF EngineOK, Engines, ScanBatch
<1>1. PICK b \in eng.cur..eng.end, flush \in BOOLEAN, aux \in BOOLEAN :
         /\ \E new \in BatchCheckpoints(b) : cps' = [p \in Pools |-> cps[p] \cup new[p]]
         /\ local' = IF flush THEN b ELSE local
         /\ hist' = IF aux THEN RecordHistoric(hist, Birthday, AtLeast(b + 1, Birthday + 1))
                    ELSE hist
         /\ found' = IF aux THEN MarkFoundDoneThrough(found, b + 1) ELSE found
         /\ eng' = [eng EXCEPT !.cur = b + 1, !.pc = IF aux THEN "aux" ELSE "scan"]
  BY DEF ScanBatch
<1>2. b \in Nat /\ local' \in Nat
  BY <1>0, <1>1 DEF TablesOK
<1>3. cps' \in [Pools -> SUBSET Nat]
  <2>1. PICK new \in BatchCheckpoints(b) : cps' = [p \in Pools |-> cps[p] \cup new[p]]
    BY <1>1
  <2>2. new \in [Pools -> SUBSET Nat]
    BY <1>0, <1>2 DEF BatchCheckpoints
  <2> QED BY <1>0, <2>1, <2>2 DEF TablesOK
<1>4. hist' \in SUBSET HistRow /\ Bounded(hist') /\ HistShape'
  <2>1. AtLeast(b + 1, Birthday + 1) \in Nat /\ AtLeast(b + 1, Birthday + 1) > Birthday
    BY <1>2, BirthdayPositive DEF AtLeast
  <2> QED BY <1>0, <1>1, <2>1, RecordHistoricTypes DEF TablesOK, HistShape
<1>5. found' \in SUBSET FoundRow /\ Bounded(found')
  <2>1. found' \in SUBSET found
    BY <1>1 DEF MarkFoundDoneThrough
  <2> QED BY <1>0, <2>1, BoundedSubset DEF TablesOK
<1>6. EngineOK(eng')
  <2> DEFINE cur == b + 1
  <2>1. PICK pc \in {"aux", "scan"} : eng' = [eng EXCEPT !.cur = cur, !.pc = pc]
    BY <1>1
  <2>2. cur \in Nat /\ cur >= 1
    BY <1>2
  <2> HIDE DEF cur
  <2> QED BY <1>0, <2>1, <2>2 DEF EngineOK, Engines, EnginePcs
<1>7. TablesOK'
  BY <1>0, <1>2, <1>3, <1>4, <1>5 DEF TablesOK, ScanBatch
<1> QED BY <1>6, <1>7, TypeInvParts, UnchangedParts DEF ScanBatch

Plans == [op : PlanOps, a : Nat, b : Nat]

LEMMA ApplyPlanTypes ==
  ASSUME NEW r \in Row, NEW p \in Plans
  PROVE  ApplyPlan(p, r) \in Row
BY RowStatements DEF ApplyPlan, Plans, PlanOps

LEMMA AuxPlanTypes ==
  ASSUME TypeInv
  PROVE  AuxPlan \in Plans /\ AuxPlan.op # "validate"
<1> DEFINE ta == Heights(hist, cps)
           t == CHOOSE x \in ta : TRUE
<1>0. TablesOK
  BY TypeInvParts
<1>1. ta # {} => t.target \in Nat /\ t.anchor \in Nat
  <2> SUFFICES ASSUME ta # {} PROVE t.target \in Nat /\ t.anchor \in Nat
    OBVIOUS
  <2>1. t \in ta
    <3> HIDE DEF ta
    <3> QED OBVIOUS
  <2> HIDE DEF t
  <2> QED BY <1>0, <2>1, HeightsTypes DEF TablesOK, HistShape
<1>2. found # {} => NextFound(found).start \in Nat
  BY <1>0, NextFoundMember DEF TablesOK, FoundRow
<1>3. row.target \in Nat /\ row.anchor \in Nat
  BY <1>0 DEF TablesOK, Row
<1>4. \/ AuxPlan = NoPlan
      \/ AuxPlan = [op |-> "finalize", a |-> row.target, b |-> row.anchor]
      \/ found # {} /\ AuxPlan = [op |-> "repair", a |-> NextFound(found).start, b |-> 0]
      \/ ta # {} /\ AuxPlan = [op |-> "finalize", a |-> t.target, b |-> t.anchor]
  BY DEF AuxPlan
<1> HIDE DEF ta, t
<1> QED BY <1>1, <1>2, <1>3, <1>4 DEF Plans, PlanOps, NoPlan

LEMMA AuxTypes ==
  ASSUME TypeInv, AuxRead \/ AuxWrite \/ ScanReorg
  PROVE  TypeInv'
<1> USE TypeInvParts, UnchangedParts
<1>0. EngineOK(eng) /\ TablesOK
  OBVIOUS
<1>1. CASE AuxRead
  <2>1. EngineOK(eng')
    BY <1>0, <1>1, AuxPlanTypes DEF AuxRead, EngineOK, Engines, EnginePcs, Plans
  <2> QED BY <1>1, <2>1 DEF AuxRead
<1>2. CASE AuxWrite
  <2>1. eng.plan \in Plans /\ NoPlan \in Plans
    BY <1>0 DEF EngineOK, Engines, Plans, NoPlan, PlanOps
  <2>2. EngineOK(eng')
    BY <1>0, <1>2, <2>1 DEF AuxWrite, EngineOK, Engines, EnginePcs, Plans
  <2>3. TablesOK'
    BY <1>0, <1>2, <2>1, ApplyPlanTypes DEF AuxWrite, TablesOK, HistShape
  <2> QED BY <1>2, <2>2, <2>3 DEF AuxWrite
<1>3. CASE ScanReorg
  <2>1. PICK h \in Ancestors(eng.cur) :
         Truncate(h) /\ eng' = [eng EXCEPT !.cur = AtLeast(h + 1, 1)]
    BY <1>3 DEF ScanReorg
  <2>2. h \in Nat /\ AtLeast(h + 1, 1) \in Nat /\ AtLeast(h + 1, 1) >= 1
    BY <1>0, AncestorTypes DEF EngineOK, Engines
  <2>3. EngineOK(eng')
    BY <1>0, <2>1, <2>2 DEF EngineOK, Engines, EnginePcs
  <2> QED BY <1>3, <2>1, <2>2, <2>3, TruncateParts DEF ScanReorg
<1> QED BY <1>1, <1>2, <1>3

LEMMA CheckHeightTypes ==
  ASSUME TypeInv, eng.pc # "idle"
  PROVE  CheckHeight \in Nat
BY DEF TypeInv, TypeOK, HeightsPositive, Engines, CheckHeight

LEMMA ScanDoneTypes ==
  ASSUME TypeInv, ScanDone
  PROVE  TypeInv'
<1>0. EngineOK(eng) /\ TablesOK /\ CheckHeight \in Nat
  BY TypeInvParts, CheckHeightTypes DEF ScanDone
<1>1. EngineOK(eng')
  BY <1>0 DEF ScanDone, EngineOK, Engines, EnginePcs
<1>2. cps' \in [Pools -> SUBSET Nat]
  BY <1>0 DEF ScanDone, TablesOK
<1>3. TablesOK'
  BY <1>0, <1>2 DEF ScanDone, TablesOK, HistShape
<1> QED BY <1>1, <1>3, TypeInvParts, UnchangedParts DEF ScanDone

\* What a witness check decides: the plan it will write, and the queue it leaves.
LEMMA CheckReadTypes ==
  ASSUME TypeInv, CheckRead
  PROVE  /\ TypeInv'
         /\ \E p \in Plans, c \in Nat :
               /\ eng' = [eng EXCEPT !.pc = "checkWrite", !.plan = p, !.checked = c]
               /\ p.op = "validate" => p.b > 0 /\ \E h \in hist : p.b < h.end
<1> DEFINE ta == Heights(hist, cps)
           t == CHOOSE x \in ta : TRUE
           target == AtLeast(t.target, 1)
           anchor == AtLeast(t.anchor, 1)
           left == MarkFoundDoneThrough(found, AtLeast(anchor + 1, CheckHeight + 1))
           Good(p) == p \in Plans /\ (p.op = "validate" => p.b > 0 /\ \E h \in hist : p.b < h.end)
           Step(p, c) == eng' = [eng EXCEPT !.pc = "checkWrite", !.plan = p, !.checked = c]
<1>0. EngineOK(eng) /\ TablesOK /\ RestOK /\ CheckHeight \in Nat /\ eng.pc = "check"
  BY TypeInvParts, CheckHeightTypes DEF CheckRead
<1>1. ta # {} => /\ target \in Nat /\ anchor \in Nat /\ anchor > 0
                 /\ \E h \in hist : anchor < h.end
  <2> SUFFICES ASSUME ta # {}
               PROVE  /\ target \in Nat /\ anchor \in Nat /\ anchor > 0
                      /\ \E h \in hist : anchor < h.end
    OBVIOUS
  <2>1. t \in ta
    <3> HIDE DEF ta
    <3> QED OBVIOUS
  <2>2. t.target \in Nat /\ t.anchor \in Nat
    <3> HIDE DEF t
    <3> QED BY <1>0, <2>1, HeightsTypes DEF TablesOK, HistShape
  <2>3. PICK h \in hist : t.anchor < h.end
    <3> HIDE DEF t
    <3> QED BY <1>0, <2>1, HeightsTypes DEF TablesOK, HistShape
  <2>4. h.end \in Nat /\ h.end > 1
    BY <1>0, BirthdayPositive DEF TablesOK, HistShape, HistRow
  <2> HIDE DEF t
  <2> QED BY <2>2, <2>3, <2>4 DEF AtLeast
<1>2. left \in SUBSET found
  BY DEF MarkFoundDoneThrough
<1>3. left \in SUBSET FoundRow /\ Bounded(left) /\ (left # {} => NextFound(left).start \in Nat)
  <2> HIDE DEF left
  <2> QED BY <1>0, <1>2, BoundedSubset, NextFoundMember DEF TablesOK, FoundRow
<1>4. row.target \in Nat /\ row.anchor \in Nat
  BY <1>0 DEF TablesOK, Row
<1>5. eng.checked \in Nat /\ AtLeast(eng.checked, CheckHeight) \in Nat
  BY <1>0, ArithmeticTypes DEF EngineOK, Engines
<1>6. /\ found' = found \/ found' = left
      /\ disturb' = disturb \/ Disturb
      /\ \E c \in {eng.checked, AtLeast(eng.checked, CheckHeight)} :
           \/ Step([op |-> "finalize", a |-> row.target, b |-> row.anchor], c)
           \/ Step([op |-> "none", a |-> 0, b |-> 0], c)
           \/ left # {} /\ Step([op |-> "repair", a |-> NextFound(left).start, b |-> 0], c)
           \/ ta # {} /\ Step([op |-> "validate", a |-> target, b |-> anchor], c)
           \/ ta # {} /\ \E f \in Birthday..anchor :
                 Step([op |-> "gap", a |-> f, b |-> anchor + 1], c)
  BY DEF CheckRead
<1> HIDE DEF ta, t, target, anchor, left
<1>7. \E p \in Plans, c \in Nat : Good(p) /\ Step(p, c)
  <2>1. PICK c \in {eng.checked, AtLeast(eng.checked, CheckHeight)} :
           \/ Step([op |-> "finalize", a |-> row.target, b |-> row.anchor], c)
           \/ Step([op |-> "none", a |-> 0, b |-> 0], c)
           \/ left # {} /\ Step([op |-> "repair", a |-> NextFound(left).start, b |-> 0], c)
           \/ ta # {} /\ Step([op |-> "validate", a |-> target, b |-> anchor], c)
           \/ ta # {} /\ \E f \in Birthday..anchor :
                 Step([op |-> "gap", a |-> f, b |-> anchor + 1], c)
    BY <1>6
  <2>2. c \in Nat
    BY <1>5
  <2>3. Good([op |-> "finalize", a |-> row.target, b |-> row.anchor])
    BY <1>4 DEF Plans, PlanOps
  <2>4. Good([op |-> "none", a |-> 0, b |-> 0])
    BY DEF Plans, PlanOps
  <2>5. left # {} => Good([op |-> "repair", a |-> NextFound(left).start, b |-> 0])
    BY <1>3 DEF Plans, PlanOps
  <2>6. ta # {} => Good([op |-> "validate", a |-> target, b |-> anchor])
    BY <1>1 DEF Plans, PlanOps
  <2>7. ta # {} => \A f \in Birthday..anchor : Good([op |-> "gap", a |-> f, b |-> anchor + 1])
    BY <1>1, BirthdayPositive DEF Plans, PlanOps
  <2>8. \A p : Good(p) => p \in Plans
    OBVIOUS
  <2> HIDE DEF Good, Step
  <2> QED BY <2>1, <2>2, <2>3, <2>4, <2>5, <2>6, <2>7, <2>8
<1>8. PICK p \in Plans, c \in Nat : Good(p) /\ Step(p, c)
  BY <1>7
<1>9. EngineOK(eng')
  BY <1>0, <1>8 DEF EngineOK, Engines, EnginePcs, Plans
<1>10. TablesOK'
  BY <1>0, <1>3, <1>6 DEF CheckRead, TablesOK, HistShape
<1>11. TypeInv'
  BY <1>6, <1>9, <1>10, TypeInvParts, UnchangedParts DEF CheckRead
<1> QED BY <1>8, <1>11

LEMMA CheckWriteTypes ==
  ASSUME TypeInv, CheckWrite
  PROVE  TypeInv'
<1>0. EngineOK(eng) /\ TablesOK /\ eng.plan \in Plans /\ eng.pc = "checkWrite"
  BY TypeInvParts DEF EngineOK, Engines, Plans, CheckWrite
<1>1. row' \in Row
  BY <1>0, ApplyPlanTypes DEF TablesOK, CheckWrite
<1>2. found' \in SUBSET FoundRow /\ Bounded(found')
  <2> DEFINE req == [start |-> eng.plan.a, end |-> eng.plan.b]
             seen == QueueSelect(found, req)
  <2>1. req.start \in Nat /\ req.end \in Nat
    BY <1>0 DEF Plans
  <2>2. seen \in SUBSET found
    BY DEF QueueSelect
  <2>3. found' = found \/ found' = QueueCommit(found, seen, req)
    BY DEF CheckWrite, QueueRange
  <2> HIDE DEF seen, req
  <2>4. seen \in SUBSET FoundRow /\ Bounded(seen)
    BY <1>0, <2>2, BoundedSubset DEF TablesOK
  <2> QED BY <1>0, <2>1, <2>3, <2>4, QueueCommitTypes DEF TablesOK
<1>3. EngineOK(eng')
  <2>1. PICK pc \in {"outer", "monitor", "done"} :
           eng' = [eng EXCEPT !.plan = NoPlan, !.repair = NoRepair, !.pc = pc]
    BY DEF CheckWrite
  <2>2. NoPlan \in Plans /\ NoRepair \in HistRow
    BY DEF NoPlan, NoRepair, Plans, PlanOps, HistRow
  <2> QED BY <1>0, <2>1, <2>2 DEF EngineOK, Engines, EnginePcs, Plans
<1>4. TablesOK'
  BY <1>0, <1>1, <1>2 DEF CheckWrite, TablesOK, HistShape
<1> QED BY <1>3, <1>4, TypeInvParts, UnchangedParts DEF CheckWrite

LEMMA MonitorTypes ==
  ASSUME TypeInv, MonitorPoll \/ MonitorReorg
  PROVE  TypeInv'
<1> USE TypeInvParts, UnchangedParts
<1>0. EngineOK(eng) /\ tip \in Nat
  BY DEF RestOK
<1>1. CASE MonitorPoll
  <2>1. PICK e \in {tip, eng.end} : eng' = [eng EXCEPT !.pc = "outer", !.end = e]
    BY <1>1 DEF MonitorPoll
  <2>2. EngineOK(eng')
    BY <1>0, <1>1, <2>1 DEF MonitorPoll, EngineOK, Engines, EnginePcs
  <2> QED BY <1>1, <2>2 DEF MonitorPoll
<1>2. CASE MonitorReorg
  <2>1. PICK h \in Ancestors(eng.cur) :
         /\ Truncate(h)
         /\ eng' = [eng EXCEPT !.pc = "outer", !.cur = AtLeast(h + 1, 1),
                               !.end = AtLeast(tip, h + 1)]
    BY <1>2 DEF MonitorReorg
  <2>2. h \in Nat /\ AtLeast(h + 1, 1) \in Nat /\ AtLeast(h + 1, 1) >= 1
    BY <1>0, AncestorTypes DEF EngineOK, Engines
  <2>3. AtLeast(tip, h + 1) \in Nat
    BY <1>0, <2>2 DEF AtLeast
  <2>4. EngineOK(eng')
    BY <1>0, <2>1, <2>2, <2>3 DEF EngineOK, Engines, EnginePcs
  <2> QED BY <1>2, <2>1, <2>2, <2>4, TruncateParts DEF MonitorReorg
<1> QED BY <1>1, <1>2

LEMMA ReplayRequirementTypes ==
  ASSUME TypeInv
  PROVE  /\ ReplayRequirement \in Replays
         /\ ReplayRequirement # NoReplay => ReplayRequirement.from >= 1
BY DEF TypeInv, TypeOK, Row, ReplayRequirement, ReplayPending, NoReplay, Replays

LEMMA ControllerTypes ==
  ASSUME TypeInv, RescanRequest \/ ControllerStep \/ RescanAbort
  PROVE  TypeInv'
<1> USE TypeInvParts, UnchangedParts
<1>0. ControllerOK /\ TablesOK /\ tip \in Nat
  BY DEF RestOK
<1>1. CASE RescanRequest
  <2>1. PICK from \in Birthday..tip :
           ctl' = [pc |-> "begin", from |-> ClampRescanStart(from, ReplayRequirement),
                   req |-> ReplayRequirement]
    BY <1>1 DEF RescanRequest
  <2>2. /\ ClampRescanStart(from, ReplayRequirement) \in Nat
        /\ ClampRescanStart(from, ReplayRequirement) >= 1
    BY <1>0, BirthdayAssumption, ReplayRequirementTypes DEF ClampRescanStart, AtMost, Replays
  <2>3. ControllerOK'
    BY <2>1, <2>2, ReplayRequirementTypes DEF ControllerOK, Controllers
  <2>4. RestOK'
    BY <1>1 DEF RescanRequest
  <2> QED BY <1>1, <2>3, <2>4 DEF RescanRequest
<1>2. CASE RescanBegin
  <2>1. ctl.from - 1 \in Nat /\ row.target \in Nat
    BY <1>0, <1>2 DEF RescanBegin, ControllerOK, Controllers, TablesOK, Row
  <2>2. AtLeast(row.target, ctl.from - 1) \in Nat
    BY <2>1, ArithmeticTypes
  <2>3. row' \in Row
    BY <1>0, <1>2, <2>1, <2>2, RowStatements DEF RescanBegin, TablesOK
  <2>4. TablesOK' /\ ControllerOK'
    BY <1>0, <1>2, <2>3 DEF RescanBegin, TablesOK, HistShape, ControllerOK, Controllers
  <2> QED BY <1>2, <2>4 DEF RescanBegin
<1>3. CASE RescanTruncate
  <2>1. ctl.from - 1 \in Nat
    BY <1>0, <1>3 DEF RescanTruncate, ControllerOK, Controllers
  <2>2. TablesOK'
    BY <1>3, <2>1, TruncateParts DEF RescanTruncate
  <2>3. ControllerOK'
    BY <1>0, <1>3 DEF RescanTruncate, ControllerOK, Controllers
  <2> QED BY <1>3, <2>2, <2>3 DEF RescanTruncate
<1>4. CASE RescanReset
  <2>1. ctl.from - 1 \in Nat
    BY <1>0, <1>4 DEF RescanReset, ControllerOK, Controllers
  <2>2. local' \in Nat
    BY <1>0, <1>4, <2>1 DEF RescanReset, TablesOK, AtMost
  <2>3. TablesOK' /\ ControllerOK'
    BY <1>0, <1>4, <2>2 DEF RescanReset, TablesOK, HistShape, ControllerOK, Controllers
  <2> QED BY <1>4, <2>3 DEF RescanReset
<1>5. CASE RescanClear
  <2>1. TablesOK' /\ ControllerOK'
    BY <1>0, <1>5, BoundedEmpty DEF RescanClear, TablesOK, HistShape, ControllerOK, Controllers
  <2> QED BY <1>5, <2>1 DEF RescanClear
<1>6. CASE RescanSpawn
  <2>1. EngineOK(eng')
    BY <1>0, <1>6 DEF RescanSpawn, ControllerOK, Controllers, EngineOK, EngIdle,
          NoRepair, NoReplay, NoPlan, Engines, EnginePcs, Kinds, PlanOps, Replays, HistRow
  <2>2. ControllerOK'
    BY <1>6, IdleTypes DEF RescanSpawn, ControllerOK
  <2> QED BY <1>6, <2>1, <2>2 DEF RescanSpawn
<1>7. CASE RescanAbort
  <2>1. ControllerOK'
    BY <1>7, IdleTypes DEF RescanAbort, ControllerOK
  <2> QED BY <1>7, <2>1 DEF RescanAbort
<1> QED BY <1>1, <1>2, <1>3, <1>4, <1>5, <1>6, <1>7 DEF ControllerStep

LEMMA ImportKeyTypes ==
  ASSUME TypeInv, ImportKey
  PROVE  TypeInv'
<1>0. TablesOK /\ RestOK
  BY TypeInvParts
<1>1. PICK b \in Birthday..row.target : row' = ImportGate(row, b) /\ owed' = owed \cup {b}
  BY DEF ImportKey
<1>2. b \in Nat
  BY <1>0, BirthdayAssumption DEF TablesOK, Row
<1>3. TablesOK'
  BY <1>0, <1>1, <1>2, RowStatements DEF ImportKey, TablesOK, HistShape
<1>4. RestOK'
  BY <1>0, <1>1, <1>2 DEF ImportKey, RestOK
<1> QED BY <1>3, <1>4, TypeInvParts, UnchangedParts DEF ImportKey

LEMMA BroadcasterTypes ==
  ASSUME TypeInv,
         SignTransaction \/ BroadcastAccepted \/ BroadcastRejected \/ BroadcastStep
  PROVE  TypeInv'
<1> USE TypeInvParts, UnchangedParts
<1>0. BroadcasterOK /\ TablesOK
  OBVIOUS
<1>1. CASE SignTransaction
  <2>1. BroadcasterOK'
    BY <1>0, <1>1 DEF SignTransaction, BroadcasterOK, Broadcasters
  <2> QED BY <1>1, <2>1 DEF SignTransaction
<1>2. CASE BroadcastAccepted
  <2>1. BroadcasterOK'
    BY <1>2, IdleTypes, BoundedEmpty DEF BroadcastAccepted, BroadcasterOK
  <2> QED BY <1>2, <2>1 DEF BroadcastAccepted
<1>3. CASE BroadcastRejected
  <2> DEFINE from == AtLeast(row.anchor, 1)
             rng == [start |-> from, end |-> AtLeast(row.target, from) + 1]
  <2>1. rng \in HistRow
    BY <1>0 DEF TablesOK, Row, HistRow, AtLeast
  <2>2. brd' = [brd EXCEPT !.pc = "rejected", !.rng = rng]
    BY <1>3 DEF BroadcastRejected
  <2> HIDE DEF rng, from
  <2>3. BroadcasterOK'
    BY <1>0, <2>1, <2>2 DEF BroadcasterOK, Broadcasters
  <2> QED BY <1>3, <2>3 DEF BroadcastRejected
<1>4. CASE RepairLatch
  <2>1. brd.rng.start \in Nat
    BY <1>0 DEF BroadcasterOK, Broadcasters, HistRow
  <2>2. TablesOK'
    BY <1>0, <1>4, <2>1, RowStatements DEF RepairLatch, TablesOK, HistShape
  <2>3. BroadcasterOK'
    BY <1>0, <1>4 DEF RepairLatch, BroadcasterOK, Broadcasters
  <2> QED BY <1>4, <2>2, <2>3 DEF RepairLatch
<1>5. CASE RepairSelect
  <2>1. QueueSelect(found, brd.rng) \in SUBSET found
    BY DEF QueueSelect
  <2>2. QueueSelect(found, brd.rng) \in SUBSET FoundRow /\ Bounded(QueueSelect(found, brd.rng))
    BY <1>0, <2>1, BoundedSubset DEF TablesOK
  <2>3. BroadcasterOK'
    BY <1>0, <1>5, <2>2 DEF RepairSelect, BroadcasterOK, Broadcasters
  <2> QED BY <1>5, <2>3 DEF RepairSelect
<1>6. CASE RepairInsert
  <2>1. /\ brd.rng.start \in Nat /\ brd.rng.end \in Nat
        /\ brd.seen \in SUBSET FoundRow /\ Bounded(brd.seen)
    BY <1>0 DEF BroadcasterOK, Broadcasters, HistRow
  <2>2. found' \in SUBSET FoundRow /\ Bounded(found')
    BY <1>0, <1>6, <2>1, QueueCommitTypes DEF RepairInsert, TablesOK
  <2>3. TablesOK'
    BY <1>0, <1>6, <2>2 DEF RepairInsert, TablesOK, HistShape
  <2>4. BroadcasterOK'
    BY <1>6, IdleTypes, BoundedEmpty DEF RepairInsert, BroadcasterOK
  <2> QED BY <1>6, <2>3, <2>4 DEF RepairInsert
<1> QED BY <1>1, <1>2, <1>3, <1>4, <1>5, <1>6 DEF BroadcastStep

\* Every step keeps the tables and the actors well typed.
LEMMA TypeStep ==
  ASSUME TypeInv, [Next]_vars
  PROVE  TypeInv'
<1>1. CASE EngineStep
  BY <1>1, ConnectTypes, PrepareTypes, RepairTypes, ScanBatchTypes, AuxTypes, ScanDoneTypes,
     CheckReadTypes, CheckWriteTypes, MonitorTypes, EndTypes DEF EngineStep
<1>2. CASE TipAdvances
  <2>1. RestOK'
    BY <1>2, TypeInvParts DEF TipAdvances, RestOK
  <2> QED BY <1>2, <2>1, TypeInvParts, UnchangedParts DEF TipAdvances
<1>3. CASE UNCHANGED vars
  BY <1>3, TypeInvParts, UnchangedParts DEF vars
<1> QED
  BY <1>1, <1>2, <1>3, StartTypes, ConnectTypes, AuxTypes, MonitorTypes, EndTypes,
     ControllerTypes, ImportKeyTypes, BroadcasterTypes DEF Next

\* Every reachable state is well typed: the tables hold what their columns hold and
\* no height underflows, in every interleaving of the engine, the rescan controller,
\* an import and the broadcaster.
THEOREM TypeCorrect == Spec => []TypeOK
<1>1. Init => TypeInv
  BY InitTypeInv
<1>2. TypeInv /\ [Next]_vars => TypeInv'
  BY TypeStep
<1>3. TypeInv => TypeOK
  BY DEF TypeInv
<1> QED BY <1>1, <1>2, <1>3, PTL DEF Spec

-----------------------------------------------------------------------------
(* Safety.  Few steps matter to the gates: every other one is neutral. *)

\* A change of the row that opens no gate, releases no latch and validates nothing.
Neutral(r, s) ==
    /\ s \in Row
    /\ s.required = r.required
    /\ s.interrupted = r.interrupted
    /\ s.validated <= r.validated
    /\ RowSound(r) => RowSound(s)

LEMMA NeutralStatements ==
  ASSUME NEW r \in Row, NEW a \in Nat, NEW b \in Nat
  PROVE  /\ Neutral(r, r)
         /\ Neutral(r, RecordKnownSyncHeight(r, a))
         /\ Neutral(r, MarkRescanRequired(r))
         /\ Neutral(r, MarkSyncFinalizing(r, a, b))
         /\ Neutral(r, MarkRepairPending(r, a))
         /\ Neutral(r, TruncateRow(r, a))
         /\ Neutral(r, MarkRescanRequired(MarkRepairPending(r, a)))
<1>1. Neutral(r, r)
  BY DEF Neutral, Row
<1>2. Neutral(r, RecordKnownSyncHeight(r, a))
  <2>1. /\ RecordKnownSyncHeight(r, a).required = r.required
        /\ RecordKnownSyncHeight(r, a).interrupted = r.interrupted
        /\ RecordKnownSyncHeight(r, a).validated <= r.validated
    BY DEF Row, RecordKnownSyncHeight
  <2>2. RecordKnownSyncHeight(r, a) \in Row /\ (RowSound(r) => RowSound(RecordKnownSyncHeight(r, a)))
    BY RowStatements, RowStatementsSound
  <2> QED BY <2>1, <2>2 DEF Neutral
<1>3. ASSUME NEW s \in Row PROVE Neutral(s, MarkRescanRequired(s))
  <2>1. /\ MarkRescanRequired(s).required = s.required
        /\ MarkRescanRequired(s).interrupted = s.interrupted
        /\ MarkRescanRequired(s).validated <= s.validated
    BY DEF Row, MarkRescanRequired
  <2>2. MarkRescanRequired(s) \in Row /\ (RowSound(s) => RowSound(MarkRescanRequired(s)))
    BY RowStatements, RowStatementsSound
  <2> QED BY <2>1, <2>2 DEF Neutral
<1>4. Neutral(r, MarkSyncFinalizing(r, a, b))
  <2>1. /\ MarkSyncFinalizing(r, a, b).required = r.required
        /\ MarkSyncFinalizing(r, a, b).interrupted = r.interrupted
        /\ MarkSyncFinalizing(r, a, b).validated <= r.validated
    BY DEF Row, MarkSyncFinalizing
  <2>2. MarkSyncFinalizing(r, a, b) \in Row /\ (RowSound(r) => RowSound(MarkSyncFinalizing(r, a, b)))
    BY RowStatements, RowStatementsSound
  <2> QED BY <2>1, <2>2 DEF Neutral
<1>5. Neutral(r, MarkRepairPending(r, a))
  <2>1. /\ MarkRepairPending(r, a).required = r.required
        /\ MarkRepairPending(r, a).interrupted = r.interrupted
        /\ MarkRepairPending(r, a).validated <= r.validated
    BY DEF Row, MarkRepairPending
  <2>2. MarkRepairPending(r, a) \in Row /\ (RowSound(r) => RowSound(MarkRepairPending(r, a)))
    BY RowStatements, RowStatementsSound
  <2> QED BY <2>1, <2>2 DEF Neutral
<1>6. Neutral(r, TruncateRow(r, a))
  <2>1. /\ TruncateRow(r, a).required = r.required
        /\ TruncateRow(r, a).interrupted = r.interrupted
        /\ TruncateRow(r, a).validated <= r.validated
    BY DEF Row, TruncateRow, AtMost
  <2>2. TruncateRow(r, a) \in Row /\ (RowSound(r) => RowSound(TruncateRow(r, a)))
    BY RowStatements, RowStatementsSound
  <2> QED BY <2>1, <2>2 DEF Neutral
<1>7. Neutral(r, MarkRescanRequired(MarkRepairPending(r, a)))
  <2>1. MarkRepairPending(r, a) \in Row
    BY RowStatements
  <2>2. Neutral(MarkRepairPending(r, a), MarkRescanRequired(MarkRepairPending(r, a)))
    BY <1>3, <2>1
  <2> QED BY <1>5, <2>1, <2>2 DEF Neutral, Row
<1> QED BY <1>1, <1>2, <1>3, <1>4, <1>5, <1>6, <1>7

\* A follow-tip sync ends with an error and latches the interruption.
Interrupts ==
    /\ eng.kind = "sync"
    /\ eng' = EngIdle
    /\ \E r \in Row : Neutral(row, r) /\ row' = MarkSyncInterrupted(r)

LEMMA FailRowCases ==
  ASSUME NEW r \in Row, NEW k \in Kinds, Neutral(row, r)
  PROVE  \/ k = "sync" /\ FailRow(k, r) = MarkSyncInterrupted(r)
         \/ Neutral(row, FailRow(k, r))
<1>1. Neutral(r, MarkRescanRequired(r))
  BY NeutralStatements
<1>2. row.validated >= r.validated /\ MarkRescanRequired(r).validated = r.validated
  BY DEF Neutral, MarkRescanRequired, Row
<1>3. Neutral(row, MarkRescanRequired(r))
  BY <1>1, <1>2 DEF Neutral
<1> QED BY <1>3 DEF FailRow, Kinds

LEMMA RowSteps ==
  ASSUME TypeInv, ValidationPlanSound, Next
  PROVE  \/ Neutral(row, row')
         \/ Interrupts
         \/ RescanBegin \/ Finish \/ CheckWrite \/ ImportKey
<1>0. TablesOK /\ row \in Row /\ tip \in Nat /\ EngineOK(eng) /\ eng.kind \in Kinds
  BY TypeInvParts DEF TablesOK, RestOK, EngineOK, Engines
<1> USE <1>0, NeutralStatements
<1>1. CASE UNCHANGED row
  BY <1>1
<1>2. CASE StartBackground \/ Connect
  BY <1>2 DEF StartBackground, Connect
<1>3. CASE \E h \in Nat : Truncate(h)
  BY <1>3 DEF Truncate
<1>4. CASE ResumeReorg \/ ScanReorg \/ MonitorReorg
  <2>1. eng.start \in Nat /\ eng.cur \in Nat
    BY DEF EngineOK, Engines
  <2>2. \E n \in {eng.start, eng.cur} : \E h \in Ancestors(n) : Truncate(h)
    BY <1>4 DEF ResumeReorg, ScanReorg, MonitorReorg
  <2> QED BY <1>3, <2>1, <2>2, AncestorTypes
<1>5. CASE RepairRollback
  <2>1. eng.repair.start - 1 \in Nat
    BY <1>5 DEF RepairRollback, EngineOK, Engines, HistRow
  <2> QED BY <1>3, <1>5, <2>1 DEF RepairRollback
<1>6. CASE RescanTruncate
  <2>1. ctl.from - 1 \in Nat
    BY <1>6, TypeInvParts DEF RescanTruncate, ControllerOK, Controllers
  <2> QED BY <1>3, <1>6, <2>1 DEF RescanTruncate
<1>7. CASE Prepare
  <2>1. found # {} => NextFound(found).start \in Nat
    BY NextFoundMember DEF TablesOK, FoundRow
  <2> QED BY <1>7, <2>1 DEF Prepare
<1>8. CASE Fail
  BY <1>8, FailRowCases DEF Fail, Interrupts
<1>9. CASE Cancel
  BY <1>9 DEF Cancel
<1>10. CASE ActivateRepair
  <2> DEFINE s == AtLeast(NextFound(found).start, 1)
  <2>1. s \in Nat
    BY <1>10, NextFoundMember DEF ActivateRepair, TablesOK, FoundRow, AtLeast
  <2>2. \/ row' = MarkRepairPending(row, s)
        \/ row' = FailRow(eng.kind, MarkRepairPending(row, s)) /\ eng' = EngIdle
    BY <1>10 DEF ActivateRepair
  <2> HIDE DEF s
  <2>3. MarkRepairPending(row, s) \in Row /\ Neutral(row, MarkRepairPending(row, s))
    BY <2>1, RowStatements
  <2> QED BY <2>2, <2>3, FailRowCases DEF Interrupts
<1>11. CASE AuxWrite
  <2>1. eng.plan \in Plans
    BY DEF EngineOK, Engines, Plans
  <2>2. eng.plan.op # "validate"
    BY <1>11 DEF AuxWrite, ValidationPlanSound
  <2> QED BY <1>11, <2>1, <2>2 DEF AuxWrite, ApplyPlan, Plans, PlanOps
<1>12. CASE RepairLatch
  <2>1. brd.rng.start \in Nat
    BY TypeInvParts DEF BroadcasterOK, Broadcasters, HistRow
  <2> QED BY <1>12, <2>1 DEF RepairLatch
<1>13. CASE \/ StartSync \/ ResumeMatches \/ NoRepairQueued \/ ScanBatch \/ AuxRead
            \/ ScanDone \/ CheckRead \/ MonitorPoll \/ Crash
            \/ RescanRequest \/ RescanReset \/ RescanClear \/ RescanSpawn \/ RescanAbort
            \/ SignTransaction \/ BroadcastAccepted \/ BroadcastRejected
            \/ RepairSelect \/ RepairInsert \/ TipAdvances
  BY <1>1, <1>13
     DEF tables, StartSync, ResumeMatches, NoRepairQueued, ScanBatch, AuxRead, ScanDone,
         CheckRead, MonitorPoll, Crash, RescanRequest, RescanReset, RescanClear,
         RescanSpawn, RescanAbort, SignTransaction, BroadcastAccepted,
         BroadcastRejected, RepairSelect, RepairInsert, TipAdvances
<1> QED
  BY <1>2, <1>4, <1>5, <1>6, <1>7, <1>8, <1>9, <1>10, <1>11, <1>12, <1>13
     DEF Next, EngineStep, ControllerStep, BroadcastStep

\* An engine step leaves the controller and the broadcaster alone, and keeps the
\* kind of engine and the replay it was started for until the engine is gone.
LEMMA EngineFrame ==
  ASSUME TypeInv,
         EngineStep \/ ResumeReorg \/ ScanReorg \/ MonitorReorg \/ Fail \/ Cancel
  PROVE  /\ eng.pc # "idle"
         /\ ctl' = ctl
         /\ eng' = EngIdle \/ (eng'.kind = eng.kind /\ eng'.req = eng.req)
<1>0. eng \in Engines
  BY DEF TypeInv, TypeOK
<1>1. CASE Connect \/ ResumeMatches \/ ResumeReorg
  BY <1>0, <1>1 DEF Connect, ResumeMatches, ResumeReorg, Engines
<1>2. CASE Prepare
  BY <1>0, <1>2 DEF Prepare, Engines
<1>3. CASE ActivateRepair
  BY <1>0, <1>3 DEF ActivateRepair, Engines
<1>4. CASE NoRepairQueued \/ RepairRollback \/ ScanReorg \/ AuxRead \/ AuxWrite
  BY <1>0, <1>4 DEF NoRepairQueued, RepairRollback, ScanReorg, AuxRead, AuxWrite, Engines
<1>5. CASE ScanBatch
  BY <1>0, <1>5 DEF ScanBatch, Engines
<1>6. CASE ScanDone \/ CheckWrite \/ MonitorPoll \/ MonitorReorg
  BY <1>0, <1>6 DEF ScanDone, CheckWrite, MonitorPoll, MonitorReorg, Engines
<1>7. CASE CheckRead
  <2>1. \E p \in Plans, c \in Nat :
           eng' = [eng EXCEPT !.pc = "checkWrite", !.plan = p, !.checked = c]
    BY <1>7, CheckReadTypes
  <2> QED BY <1>0, <1>7, <2>1 DEF CheckRead, Engines
<1>8. CASE Fail \/ Cancel \/ Finish
  BY <1>8 DEF Fail, Cancel, Finish, Running
<1> QED
  BY <1>1, <1>2, <1>3, <1>4, <1>5, <1>6, <1>7, <1>8 DEF EngineStep

LEMMA RescanUninterruptedStep ==
  ASSUME TypeInv, ValidationPlanSound, RescanUninterrupted, Next
  PROVE  RescanUninterrupted'
<1> DEFINE InFlight == {"truncate", "reset", "clear", "spawn"}
<1>0. /\ ctl.pc # "idle" => eng.pc = "idle"
      /\ eng.req # NoReplay => eng.kind = "rescan"
      /\ eng.kind = "rescan" \/ ctl.pc \in InFlight => ~row.interrupted
      /\ EngIdle.pc = "idle" /\ EngIdle.kind = "sync" /\ EngIdle.req = NoReplay
      /\ CtlIdle.pc = "idle"
      /\ row \in Row /\ eng \in Engines
  BY DEF RescanUninterrupted, Running, EngIdle, CtlIdle, TypeInv, TypeOK
<1>1. CASE EngineStep \/ ResumeReorg \/ ScanReorg \/ MonitorReorg \/ Fail \/ Cancel
  <2>1. eng.pc # "idle" /\ ctl' = ctl /\ ctl.pc = "idle"
    BY <1>0, <1>1, EngineFrame
  <2>2. CASE eng' = EngIdle
    BY <1>0, <2>1, <2>2 DEF RescanUninterrupted, Running
  <2>3. CASE eng'.kind = eng.kind /\ eng'.req = eng.req /\ eng' # EngIdle
    <3>1. eng.kind = "rescan" => ~row'.interrupted
      <4> SUFFICES ASSUME eng.kind = "rescan" PROVE ~row'.interrupted
        OBVIOUS
      <4>1. CASE Neutral(row, row')
        BY <1>0, <4>1 DEF Neutral
      <4>2. CASE CheckWrite
        <5>1. eng.plan \in Plans /\ row' = ApplyPlan(eng.plan, row)
          BY <1>0, <4>2 DEF CheckWrite, Engines, Plans
        <5> QED BY <1>0, <5>1 DEF ApplyPlan, Plans, PlanOps, Row, MarkRepairPending,
                                  MarkSyncFinalizing, MarkValidated
      <4> QED BY <1>0, <2>1, <2>3, <4>1, <4>2, RowSteps
              DEF Interrupts, RescanBegin, Finish, ImportKey, Quiet
    <3> QED BY <1>0, <2>1, <2>3, <3>1 DEF RescanUninterrupted, Running
  <2> QED BY <1>1, <2>2, <2>3, EngineFrame
<1>2. CASE StartSync \/ StartBackground
  <2>1. ctl' = ctl /\ ctl.pc = "idle"
    BY <1>2 DEF StartSync, StartBackground, Quiet
  <2>2. CASE eng' # eng
    <3>1. eng'.kind # "rescan" /\ eng'.req = NoReplay
      BY <1>0, <1>2, <2>2 DEF StartSync, StartBackground, EngIdle
    <3> QED BY <2>1, <3>1 DEF RescanUninterrupted
  <2>3. CASE eng' = eng
    <3>1. row'.interrupted = row.interrupted
      BY <1>0, <1>2 DEF StartSync, StartBackground, tables, RecordKnownSyncHeight, Row
    <3> QED BY <1>0, <2>1, <2>3, <3>1 DEF RescanUninterrupted
  <2> QED BY <2>2, <2>3
<1>3. CASE Crash
  BY <1>0, <1>3 DEF Crash, RescanUninterrupted
<1>4. CASE RescanRequest
  BY <1>0, <1>4 DEF RescanRequest, Quiet, RescanUninterrupted, Running, tables
<1>5. CASE RescanBegin
  <2>1. eng' = eng /\ eng.pc = "idle"
    BY <1>0, <1>5 DEF RescanBegin
  <2>2. ~row'.interrupted
    BY <1>0, <1>5 DEF RescanBegin, BeginRescan, Row
  <2> QED BY <1>0, <2>1, <2>2 DEF RescanUninterrupted, Running
<1>6. CASE RescanTruncate
  <2>1. row'.interrupted = row.interrupted
    BY <1>0, <1>6 DEF RescanTruncate, Truncate, TruncateRow, Row
  <2>2. eng' = eng /\ ctl.pc = "truncate"
    BY <1>6 DEF RescanTruncate
  <2> QED BY <1>0, <2>1, <2>2 DEF RescanUninterrupted, Running
<1>7. CASE RescanReset \/ RescanClear
  BY <1>0, <1>7 DEF RescanReset, RescanClear, RescanUninterrupted, Running
<1>8. CASE RescanSpawn
  BY <1>0, <1>8 DEF RescanSpawn, RescanUninterrupted, Running, EngIdle, tables
<1>9. CASE RescanAbort
  BY <1>0, <1>9 DEF RescanAbort, RescanUninterrupted, Running, tables
<1>10. CASE ImportKey
  <2>1. row'.interrupted = row.interrupted
    BY <1>0, <1>10 DEF ImportKey, ImportGate, Row
  <2> QED BY <1>0, <1>10, <2>1 DEF ImportKey, RescanUninterrupted, Running
<1>11. CASE SignTransaction \/ BroadcastAccepted \/ BroadcastRejected
            \/ RepairSelect \/ RepairInsert \/ TipAdvances
  BY <1>0, <1>11 DEF SignTransaction, BroadcastAccepted, BroadcastRejected, RepairSelect,
                     RepairInsert, TipAdvances, RescanUninterrupted, Running, tables
<1>12. CASE RepairLatch
  <2>1. row'.interrupted = row.interrupted
    BY <1>0, <1>12 DEF RepairLatch, MarkRepairPending, Row
  <2> QED BY <1>0, <1>12, <2>1 DEF RepairLatch, RescanUninterrupted, Running
<1> QED
  BY <1>1, <1>2, <1>3, <1>4, <1>5, <1>6, <1>7, <1>8, <1>9, <1>10, <1>11, <1>12
     DEF Next, ControllerStep, BroadcastStep

\* Between a witness check's read and its write nobody moves the historic row, and
\* no other step plans a validation.
LEMMA ValidationPlanStep ==
  ASSUME TypeInv, ValidationPlanSound, RescanUninterrupted, Next
  PROVE  ValidationPlanSound'
<1>0. /\ HistShape' /\ eng \in Engines
      /\ eng.plan.op = "validate" =>
            /\ eng.pc = "checkWrite"
            /\ eng.plan.b > 0
            /\ \E h \in hist : eng.plan.b < h.end
      /\ ctl.pc # "idle" => eng.pc = "idle"
      /\ EngIdle.plan.op = "none" /\ NoPlan.op = "none"
  BY TypeStep DEF TypeInv, TypeOK, ValidationPlanSound, RescanUninterrupted, Running,
                  EngIdle, NoPlan
<1> USE <1>0 DEF ValidationPlanSound, HistShape
<1>1. CASE eng' = EngIdle
  BY <1>1
<1>2. CASE UNCHANGED <<eng, hist>>
  BY <1>2
<1>3. CASE eng'.plan = eng.plan /\ eng.pc # "checkWrite"
  BY <1>3
<1>4. CASE CheckRead
  <2>1. PICK p \in Plans, c \in Nat :
           /\ eng' = [eng EXCEPT !.pc = "checkWrite", !.plan = p, !.checked = c]
           /\ p.op = "validate" => p.b > 0 /\ \E h \in hist : p.b < h.end
    BY <1>4, CheckReadTypes
  <2>2. eng'.plan = p /\ eng'.pc = "checkWrite" /\ hist' = hist
    BY <1>4, <2>1 DEF CheckRead, Engines
  <2> QED BY <2>1, <2>2
<1>5. CASE AuxRead
  BY <1>5, AuxPlanTypes DEF AuxRead, Engines
<1>6. CASE AuxWrite \/ CheckWrite
  BY <1>6 DEF AuxWrite, CheckWrite, Engines
<1>7. CASE \/ Connect \/ ResumeMatches \/ ResumeReorg \/ Prepare
           \/ NoRepairQueued \/ RepairRollback \/ ScanReorg
  BY <1>3, <1>7 DEF Connect, ResumeMatches, ResumeReorg, Prepare,
                    NoRepairQueued, RepairRollback, ScanReorg, Engines
<1>8. CASE ScanBatch
  BY <1>3, <1>8 DEF ScanBatch, Engines
<1>9. CASE ScanDone \/ MonitorPoll \/ MonitorReorg
  BY <1>3, <1>9 DEF ScanDone, MonitorPoll, MonitorReorg, Engines
<1>10. CASE ActivateRepair
  BY <1>1, <1>3, <1>10 DEF ActivateRepair, Engines
<1>11. CASE Fail \/ Cancel \/ Finish \/ Crash
  BY <1>1, <1>11 DEF Fail, Cancel, Finish, Crash
<1>12. CASE StartSync \/ StartBackground
  <2>1. (eng' = eng /\ hist' = hist) \/ eng'.plan.op = "none"
    BY <1>12 DEF StartSync, StartBackground, tables, EngIdle, NoPlan
  <2> QED BY <1>2, <2>1
<1>13. CASE RescanTruncate \/ RescanClear
  <2>1. eng.pc = "idle" /\ eng' = eng
    BY <1>13 DEF RescanTruncate, RescanClear
  <2> QED BY <1>3, <2>1
<1>14. CASE RescanSpawn
  BY <1>14 DEF RescanSpawn, EngIdle, NoPlan
<1>15. CASE \/ RescanRequest \/ RescanBegin \/ RescanReset \/ RescanAbort \/ ImportKey
            \/ SignTransaction \/ BroadcastAccepted \/ BroadcastRejected
            \/ BroadcastStep \/ TipAdvances
  BY <1>2, <1>15
     DEF RescanRequest, RescanBegin, RescanReset, RescanAbort, ImportKey, SignTransaction,
         BroadcastAccepted, BroadcastRejected, BroadcastStep, RepairLatch, RepairSelect,
         RepairInsert, TipAdvances, tables
<1> QED
  BY <1>4, <1>5, <1>6, <1>7, <1>8, <1>9, <1>10, <1>11, <1>12, <1>13, <1>14, <1>15
     DEF Next, EngineStep, ControllerStep

\* The row keeps its promises in every step.
LEMMA RowSoundStep ==
  ASSUME TypeInv, ValidationPlanSound, RescanUninterrupted, RowSound(row), Next
  PROVE  RowSound(row')
<1>0. row \in Row /\ eng \in Engines /\ ctl \in Controllers
  BY DEF TypeInv, TypeOK
<1>1. CASE Neutral(row, row')
  BY <1>1 DEF Neutral
<1>2. CASE Interrupts
  <2>1. PICK r \in Row : Neutral(row, r) /\ row' = MarkSyncInterrupted(r)
    BY <1>2 DEF Interrupts
  <2>2. RowSound(r)
    BY <2>1 DEF Neutral
  <2> QED BY <2>1, <2>2, RowStatementsSound
<1>3. CASE RescanBegin
  <2>1. ctl.from - 1 \in Nat /\ row.target \in Nat
    BY <1>0, <1>3 DEF RescanBegin, TypeInv, HeightsPositive, Controllers, Row
  <2>2. AtLeast(row.target, ctl.from - 1) \in Nat
    BY <2>1, ArithmeticTypes
  <2> QED BY <1>0, <1>3, <2>1, <2>2, RowStatementsSound DEF RescanBegin
<1>4. CASE Finish
  <2>1. CASE eng.req = NoReplay
    BY <1>4, <2>1 DEF Finish
  <2>2. CASE eng.req # NoReplay
    <3>1. ~row.interrupted /\ eng.req.generation \in Nat /\ eng.from \in Nat
      BY <1>0, <2>2 DEF RescanUninterrupted, Engines, Replays
    <3> QED BY <1>0, <1>4, <2>2, <3>1, RowStatementsSound DEF Finish
  <2> QED BY <2>1, <2>2
<1>5. CASE CheckWrite
  <2>1. eng.plan \in Plans /\ row' = ApplyPlan(eng.plan, row)
    BY <1>0, <1>5 DEF CheckWrite, Engines, Plans
  <2>2. eng.plan.op = "validate" => eng.plan.b > 0
    BY DEF ValidationPlanSound
  <2> QED BY <1>0, <2>1, <2>2, RowStatementsSound DEF ApplyPlan, Plans, PlanOps
<1>6. CASE ImportKey
  <2>1. PICK b \in Birthday..row.target : row' = ImportGate(row, b)
    BY <1>6 DEF ImportKey
  <2>2. b \in Nat
    BY <1>0, BirthdayAssumption DEF Row
  <2> QED BY <1>0, <2>1, <2>2, RowStatementsSound
<1> QED BY <1>1, <1>2, <1>3, <1>4, <1>5, <1>6, RowSteps

LEMMA OwedFrame ==
  ASSUME Next, ~Finish, ~ImportKey
  PROVE  owed' = owed
BY DEF Next, EngineStep, ControllerStep, BroadcastStep, StartSync, StartBackground, Connect,
       ResumeMatches, Prepare, ActivateRepair, NoRepairQueued, RepairRollback, ScanBatch,
       AuxRead, AuxWrite, ScanDone, CheckRead, CheckWrite, MonitorPoll, ResumeReorg,
       ScanReorg, MonitorReorg, Fail, Cancel, Crash, RescanRequest, RescanBegin,
       RescanTruncate, RescanReset, RescanClear, RescanSpawn, RescanAbort,
       SignTransaction, BroadcastAccepted, BroadcastRejected, RepairLatch, RepairSelect,
       RepairInsert, TipAdvances

\* The replay floor is lowered by imports and dropped only by a replay that began
\* below every birthday that is still owed.
LEMMA KeyHistoryStep ==
  ASSUME TypeInv, ValidationPlanSound, RescanUninterrupted, KeyHistoryOwed, Next
  PROVE  KeyHistoryOwed'
<1>0. row \in Row /\ eng \in Engines /\ owed \in SUBSET Nat
  BY DEF TypeInv, TypeOK
<1>1. CASE Finish
  <2>0. eng.from \in Nat /\ row.required \in Nat
    BY <1>0 DEF Engines, Row
  <2>1. owed' \subseteq owed
    BY <1>1 DEF Finish
  <2>2. CASE row' = row
    BY <2>1, <2>2 DEF KeyHistoryOwed
  <2>3. CASE row' # row
    <3>1. ReplayEligible(row, eng.req.generation, eng.from)
      BY <1>1, <2>3 DEF Finish, CompleteRequiredRescan
    <3>2. eng.req # NoReplay /\ eng.from <= row.required
      BY <1>1, <2>3, <3>1 DEF Finish, ReplayEligible
    <3>3. \A b \in owed : ~(b < eng.from)
      BY <1>0, <2>0, <3>2 DEF KeyHistoryOwed
    <3>4. owed' = {b \in owed : b < eng.from}
      BY <1>1, <3>2 DEF Finish, RescanUninterrupted
    <3>5. owed' = {}
      BY <3>3, <3>4
    <3> QED BY <3>5 DEF KeyHistoryOwed
  <2> QED BY <2>2, <2>3
<1>2. CASE ImportKey
  <2>1. PICK b \in Birthday..row.target : row' = ImportGate(row, b) /\ owed' = owed \cup {b}
    BY <1>2 DEF ImportKey
  <2>2. b \in Nat /\ b >= 1 /\ row.required \in Nat
    BY <1>0, BirthdayAssumption DEF Row
  <2>3. row'.required = MinNonZero(row.required, b)
    BY <1>0, <2>1 DEF ImportGate, Row
  <2> QED BY <1>0, <2>1, <2>2, <2>3 DEF KeyHistoryOwed, MinNonZero
<1>3. CASE ~Finish /\ ~ImportKey
  <2>1. owed' = owed
    BY <1>3, OwedFrame
  <2>2. row'.required = row.required
    <3>1. CASE Neutral(row, row')
      BY <3>1 DEF Neutral
    <3>2. CASE Interrupts
      BY <3>2 DEF Interrupts, Neutral, MarkSyncInterrupted, Row
    <3>3. CASE RescanBegin
      BY <1>0, <3>3 DEF RescanBegin, BeginRescan, Row
    <3>4. CASE CheckWrite
      <4>1. eng.plan \in Plans /\ row' = ApplyPlan(eng.plan, row)
        BY <1>0, <3>4 DEF CheckWrite, Engines, Plans
      <4> QED BY <1>0, <4>1 DEF ApplyPlan, Plans, PlanOps, Row, MarkRepairPending,
                                MarkSyncFinalizing, MarkValidated
    <3> QED BY <1>3, <3>1, <3>2, <3>3, <3>4, RowSteps
  <2> QED BY <2>1, <2>2 DEF KeyHistoryOwed
<1> QED BY <1>1, <1>2, <1>3

\* The inductive invariant: the row's promises, the floor of the owed replay, and
\* what they need of the actors in flight.
Inv ==
    /\ TypeInv
    /\ RowSound(row)
    /\ KeyHistoryOwed
    /\ RescanUninterrupted
    /\ ValidationPlanSound

LEMMA InvInductive == Spec => []Inv
<1>1. Init => Inv
  <2> SUFFICES ASSUME Init PROVE Inv
    OBVIOUS
  <2>1. TypeInv
    BY InitTypeInv
  <2>2. RowSound(row)
    BY DEF Init, DefaultRow, RowSound
  <2>3. KeyHistoryOwed /\ RescanUninterrupted /\ ValidationPlanSound
    BY DEF Init, KeyHistoryOwed, RescanUninterrupted, ValidationPlanSound, Running,
           EngIdle, CtlIdle, NoPlan, DefaultRow
  <2> QED BY <2>1, <2>2, <2>3 DEF Inv
<1>2. Inv /\ [Next]_vars => Inv'
  <2> SUFFICES ASSUME Inv, [Next]_vars PROVE Inv'
    OBVIOUS
  <2>1. TypeInv'
    BY TypeStep DEF Inv
  <2>2. CASE Next
    <3>1. RowSound(row)'
      BY <2>2, RowSoundStep DEF Inv
    <3> QED BY <2>1, <2>2, <3>1, KeyHistoryStep, RescanUninterruptedStep, ValidationPlanStep
            DEF Inv
  <2>3. CASE UNCHANGED vars
    BY <2>1, <2>3 DEF Inv, vars, tables, KeyHistoryOwed, RescanUninterrupted,
                      ValidationPlanSound, Running, RowSound
  <2> QED BY <2>2, <2>3
<1> QED BY <1>1, <1>2, PTL DEF Spec

\* No statement of spendability_state.rs reopens the gate of an unfinished replay.
THEOREM ReplayGateHolds == Spec => []ReplayGate
<1>1. Inv => ReplayGate
  BY DEF Inv, RowSound, ReplayGate
<1> QED BY <1>1, InvInductive, PTL

\* The stored flag is raised only over an open row with a validated anchor.
THEOREM StoredFlagSound == Spec => []StoredSpendableSound
<1>1. Inv => StoredSpendableSound
  BY DEF Inv, RowSound, StoredSpendableSound
<1> QED BY <1>1, InvInductive, PTL

\* The durable floor covers every imported key whose history is unscanned.
THEOREM KeyHistoryKept == Spec => []KeyHistoryOwed
<1>1. Inv => KeyHistoryOwed
  BY DEF Inv
<1> QED BY <1>1, InvInductive, PTL

\* No spend is admitted while an imported key's history has not been replayed.
THEOREM NoSpendBeforeReplay == Spec => []SpendNeedsKeyHistory
<1>1. Inv => SpendNeedsKeyHistory
  BY DEF Inv, RowSound, KeyHistoryOwed, SpendNeedsKeyHistory, Spendable, PublicSpendable
<1> QED BY <1>1, InvInductive, PTL

\* RescanUninterrupted: the rescan controller and an engine never own the wallet
\* together, and a rescan runs over a row whose interruption latch is released.
THEOREM ActorsInFlight == Spec => []RescanUninterrupted
<1>1. Inv => RescanUninterrupted
  BY DEF Inv
<1> QED BY <1>1, InvInductive, PTL

\* ValidationPlanSound: the anchor a witness check is about to record as validated
\* was scanned, and still is when the check comes to write it.
THEOREM PlansStaySound == Spec => []ValidationPlanSound
<1>1. Inv => ValidationPlanSound
  BY DEF Inv
<1> QED BY <1>1, InvInductive, PTL

\* The interruption latch is released only by a validation or under the rescan gate.
THEOREM LatchReleasedByValidation == Spec => InterruptionLatched
<1>1. ASSUME Inv, [Next]_vars, row.interrupted, ~row'.interrupted
      PROVE  row'.rescan_required \/ (row'.spendable /\ row'.validated = row'.anchor)
  <2>0. row \in Row /\ eng \in Engines
    BY <1>1 DEF Inv, TypeInv, TypeOK
  <2>1. CASE RescanBegin
    BY <2>0, <2>1 DEF RescanBegin, BeginRescan, Row
  <2>2. CASE CheckWrite
    <3>1. eng.plan \in Plans /\ row' = ApplyPlan(eng.plan, row)
      BY <2>0, <2>2 DEF CheckWrite, Engines, Plans
    <3>2. CASE eng.plan.op = "validate"
      <4>1. row' = MarkValidated(row, eng.plan.a, eng.plan.b)
        BY <3>1, <3>2 DEF ApplyPlan
      <4> QED BY <2>0, <4>1, ReplayOwedMeaning DEF MarkValidated, Row
    <3>3. CASE eng.plan.op # "validate"
      BY <1>1, <2>0, <3>1, <3>3 DEF ApplyPlan, Plans, PlanOps, Row, MarkRepairPending,
                                    MarkSyncFinalizing
    <3> QED BY <3>2, <3>3
  <2>3. CASE Finish
    BY <1>1, <2>0, <2>3 DEF Finish, CompleteRequiredRescan, Row
  <2>4. CASE ImportKey
    BY <1>1, <2>0, <2>4 DEF ImportKey, ImportGate, Row
  <2>5. CASE Interrupts
    BY <1>1, <2>5 DEF Interrupts, MarkSyncInterrupted, Row
  <2>6. CASE Neutral(row, row')
    BY <1>1, <2>6 DEF Neutral
  <2>7. CASE UNCHANGED vars
    BY <1>1, <2>7 DEF vars, tables
  <2> QED BY <1>1, <2>1, <2>2, <2>3, <2>4, <2>5, <2>6, <2>7, RowSteps DEF Inv
<1>2. Inv /\ [Next]_vars =>
        [row.interrupted /\ ~row'.interrupted
            => row'.rescan_required \/ (row'.spendable /\ row'.validated = row'.anchor)]_vars
  BY <1>1
<1> QED BY <1>2, InvInductive, PTL DEF Spec, InterruptionLatched

\* The validated anchor is raised only by a witness check, and only to a height
\* that was scanned.
THEOREM ValidationEarned == Spec => ValidationIsEarned
<1>1. ASSUME Inv, [Next]_vars, row'.validated > row.validated
      PROVE  /\ eng.pc = "checkWrite" /\ eng.plan.op = "validate"
             /\ \E h \in hist : row'.validated < h.end
  <2>0. row \in Row /\ eng \in Engines
    BY <1>1 DEF Inv, TypeInv, TypeOK
  <2>1. CASE CheckWrite
    <3>1. eng.plan \in Plans /\ row' = ApplyPlan(eng.plan, row) /\ eng.pc = "checkWrite"
      BY <2>0, <2>1 DEF CheckWrite, Engines, Plans
    <3>2. CASE eng.plan.op = "validate"
      <4>1. row'.validated = eng.plan.b
        BY <2>0, <3>1, <3>2 DEF ApplyPlan, MarkValidated, Row
      <4> QED BY <1>1, <3>1, <3>2, <4>1 DEF Inv, ValidationPlanSound
    <3>3. CASE eng.plan.op # "validate"
      BY <1>1, <2>0, <3>1, <3>3 DEF ApplyPlan, Plans, PlanOps, Row, MarkRepairPending,
                                    MarkSyncFinalizing
    <3> QED BY <3>2, <3>3
  <2>2. CASE RescanBegin
    BY <1>1, <2>0, <2>2 DEF RescanBegin, BeginRescan, Row
  <2>3. CASE Finish
    BY <1>1, <2>0, <2>3 DEF Finish, CompleteRequiredRescan, Row
  <2>4. CASE ImportKey
    BY <1>1, <2>0, <2>4 DEF ImportKey, ImportGate, Row
  <2>5. CASE Interrupts
    BY <1>1, <2>0, <2>5 DEF Interrupts, Neutral, MarkSyncInterrupted, Row
  <2>6. CASE Neutral(row, row')
    BY <1>1, <2>0, <2>6 DEF Neutral, Row
  <2>7. CASE UNCHANGED vars
    BY <1>1, <2>0, <2>7 DEF vars, tables, Row
  <2> QED BY <1>1, <2>1, <2>2, <2>3, <2>4, <2>5, <2>6, <2>7, RowSteps DEF Inv
<1>2. Inv /\ [Next]_vars =>
        [row'.validated > row.validated
            => /\ eng.pc = "checkWrite" /\ eng.plan.op = "validate"
               /\ \E h \in hist : row'.validated < h.end]_vars
  BY <1>1
<1> QED BY <1>2, InvInductive, PTL DEF Spec, ValidationIsEarned
=============================================================================
