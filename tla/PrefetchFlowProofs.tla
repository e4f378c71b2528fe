------------------------- MODULE PrefetchFlowProofs -------------------------
(***************************************************************************)
(* That the scanner gets every block once and in order, for every segment  *)
(* size, budget and charge.                                                *)
(*                                                                         *)
(* Between the producer and the scanner a block is in one of seven places: *)
(* the held piece, the segment queue, the piece being cut, the pending     *)
(* piece, the channel, the read-ahead and the piece being scanned.  The    *)
(* inductive invariant strings them together: each place that is not empty *)
(* begins one above the end of those before it (Front, Middle, Back), and  *)
(* unless the stream broke the last end is just below the next block that  *)
(* the producer asks for.  A step moves a piece from one place to the next,*)
(* splits it or joins two that touch, so the chain of ends stays whole.    *)
(* Before the stream starts the producer holds one cached batch at a time, *)
(* to be reserved or to be sent (NoStream).                                *)
(*                                                                         *)
(* And that what is held stays within the high water mark.  Every live     *)
(* reservation is charged at least what its blocks weigh (Charged), every  *)
(* block past admission lies in the range of a live reservation (Owned),   *)
(* and a reservation is only added when the charges still fit.             *)
(***************************************************************************)
EXTENDS PrefetchFlow, SequenceTheorems, FiniteSetTheorems, Extrema

\* The charges are numbers of bytes; nothing here depends on which.
Charges == {DurableCharge(BytesOf(a, b)) : a \in Int, b \in Int}
           \cup {CachedCharge(BytesOf(a, b)) : a \in Int, b \in Int}
Segments == [from : Int, to : Int, charge : Charges]
Pieces == [from : Int, to : Int, of : SUBSET Segments]

FlowTypes ==
    /\ next \in Nat \ {0} /\ scanned \in Nat
    /\ {hold, cut, pending, channel, ahead, scan} \subseteq Pieces
    /\ segments \in Seq(Segments)

\* Where the chain of pieces ends after p, when it ended at e before it.
After(e, p) == IF Empty(p) THEN e ELSE p.to
Follows(e, p) == Empty(p) \/ p.from = e + 1

ToScan == After(scanned, scan)
ToAhead == After(ToScan, ahead)
ToChannel == After(ToAhead, channel)
ToPending == After(ToChannel, pending)
ToCut == After(ToPending, cut)
ToSegments == IF segments = <<>> THEN ToCut ELSE segments[Len(segments)].to
ToHold == After(ToSegments, hold)

\* The scanner's side.
Front ==
    /\ Follows(scanned, scan) /\ Follows(ToScan, ahead) /\ Follows(ToAhead, channel)
    /\ Follows(ToChannel, pending) /\ Follows(ToPending, cut)

\* The segments on their way to the router.
Middle ==
    /\ \A i \in 1..Len(segments) : segments[i].from <= segments[i].to
    /\ segments # <<>> => segments[1].from = ToCut + 1
    /\ \A i \in 2..Len(segments) : segments[i].from = segments[i - 1].to + 1

Back == Follows(ToSegments, hold) /\ (~broken => ToHold = next - 1)

\* Without a stream the producer has at most one batch in hand and sends it first.
NoStream ==
    ~streaming => /\ segments = <<>> /\ Empty(cut) /\ ~broken
                  /\ Empty(hold) \/ Empty(pending)
                  /\ Empty(pending) \/ due

FlowInv == FlowTypes /\ Front /\ Middle /\ Back /\ NoStream

LEMMA FlowBounds == LastBlock \in Nat
BY FlowBoundsAssumption

LEMMA NonePiece == None \in Pieces /\ Empty(None)
<1>1. None.from = 1 /\ None.to = 0 /\ None \in [from : Int, to : Int, of : SUBSET Segments]
  BY DEF None
<1> QED BY <1>1 DEF Empty, Pieces

LEMMA PieceFields ==
  ASSUME NEW a \in Int, NEW b \in Int, NEW of \in SUBSET Segments
  PROVE  LET p == Piece(a, b, of)
         IN p \in Pieces /\ p.from = a /\ p.to = b /\ p.of = of /\ (Empty(p) <=> b < a)
BY DEF Piece, Pieces, Empty

\* local_batch_prefix_len never takes more than the segment has.
LEMMA PrefixLenBounded ==
  ASSUME NEW batch, NEW seg \in Pieces, ~Empty(seg), NEW target
  PROVE  PrefixLen(batch, seg, target) \in 0..(1 + seg.to - seg.from)
<1> DEFINE fits(n) == Bytes(batch) + BytesOf(seg.from, seg.from + n - 1) <= target
           T == {k \in 0..(1 + seg.to - seg.from) : k = 0 \/ fits(k)}
<1>0. seg.from \in Int /\ seg.to \in Int /\ seg.from <= seg.to
  BY DEF Pieces, Empty
<1>1. 0 \in T /\ T \in SUBSET (0..(1 + seg.to - seg.from))
  BY <1>0
<1>2. Max(T) \in T
  <2> HIDE DEF T
  <2>1. T # {} /\ 0 \in Int /\ 1 + seg.to - seg.from \in Int
    BY <1>0, <1>1
  <2> QED BY <1>1, <2>1, MaxOfBounded
<1>3. Max(T) \in 0..(1 + seg.to - seg.from)
  BY <1>1, <1>2
<1>4. PrefixLen(batch, seg, target) \in {0, 1, Max(T)}
  BY DEF PrefixLen
<1> HIDE DEF T
<1> QED BY <1>0, <1>3, <1>4

-----------------------------------------------------------------------------
LEMMA FlowStart == Init => FlowInv
<1> SUFFICES ASSUME Init PROVE FlowInv
  OBVIOUS
<1>1. /\ hold = None /\ cut = None /\ pending = None /\ channel = None /\ ahead = None /\ scan = None
      /\ next = 1 /\ scanned = 0 /\ segments = <<>> /\ ~broken
  BY DEF Init
<1>2. FlowTypes
  BY <1>1, NonePiece DEF FlowTypes
<1> QED BY <1>1, <1>2, NonePiece
        DEF FlowInv, Front, Middle, Back, NoStream, Follows, After, ToScan, ToAhead, ToChannel,
            ToPending, ToCut, ToSegments, ToHold

LEMMA PieceInts ==
  ASSUME FlowTypes
  PROVE  /\ \A p \in {hold, cut, pending, channel, ahead, scan} :
                p.from \in Int /\ p.to \in Int /\ p.of \subseteq Segments
         /\ next \in Int /\ scanned \in Int /\ Len(segments) \in Nat
         /\ \A i \in 1..Len(segments) :
                segments[i] \in Segments /\ segments[i].from \in Int /\ segments[i].to \in Int
<1>1. \A i \in 1..Len(segments) : segments[i] \in Segments
  BY ElementOfSeq DEF FlowTypes
<1>2. {hold, cut, pending, channel, ahead, scan} \subseteq Pieces /\ next \in Int /\ scanned \in Int
      /\ Len(segments) \in Nat
  BY DEF FlowTypes
<1> QED BY <1>1, <1>2 DEF Pieces, Segments

LEMMA FetchStep ==
  ASSUME FlowInv, Fetch
  PROVE  FlowInv'
<1> USE FlowBounds
<1>0. FlowTypes
  BY DEF FlowInv
<1>1. PICK to \in next..LastBlock : hold' = Piece(next, to, {}) /\ next' = to + 1
  BY DEF Fetch
<1>2. /\ UNCHANGED <<segments, cut, pending, channel, ahead, scan, scanned, broken>>
      /\ Empty(hold) /\ ~broken /\ streaming'
  BY DEF Fetch, streamVars, scannerVars
<1>3. to \in Int /\ next <= to /\ next \in Int /\ next >= 1
  BY <1>0 DEF FlowTypes
<1>4. hold' \in Pieces /\ hold'.from = next /\ hold'.to = to
  <2>1. {} \in SUBSET Segments
    OBVIOUS
  <2> QED BY <1>1, <1>3, <2>1, PieceFields
<1>5. FlowTypes'
  BY <1>0, <1>1, <1>2, <1>3, <1>4 DEF FlowTypes
<1>6. UNCHANGED <<ToScan, ToAhead, ToChannel, ToPending, ToCut, ToSegments>>
  BY <1>2 DEF ToScan, ToAhead, ToChannel, ToPending, ToCut, ToSegments, After, Empty
<1>7. Front' /\ Middle'
  BY <1>2, <1>6 DEF FlowInv, Front, Middle, Follows, Empty
<1>8. ToSegments = next - 1
  BY <1>2 DEF FlowInv, Back, ToHold, After
<1>9. Back'
  BY <1>1, <1>2, <1>3, <1>4, <1>6, <1>8 DEF Back, Follows, ToHold, After, Empty
<1>10. NoStream'
  BY <1>2 DEF NoStream
<1> QED BY <1>5, <1>7, <1>9, <1>10 DEF FlowInv

\* A segment that is admitted goes to the end of the router's channel.
LEMMA SegmentStep ==
  ASSUME FlowInv, Reserve, streaming
  PROVE  FlowInv'
<1>0. FlowTypes
  BY DEF FlowInv
<1> DEFINE s == [from |-> hold.from, to |-> hold.to, charge |-> DurableCharge(Bytes(hold))]
<1>1. /\ UNCHANGED <<next, streaming, cut, pending, channel, ahead, scan, scanned, broken>>
      /\ ~Empty(hold) /\ hold' = None /\ segments' = Append(segments, s)
  BY DEF Reserve, Charge, scannerVars
<1>2. hold.from \in Int /\ hold.to \in Int /\ hold.from <= hold.to
  BY <1>0, <1>1, PieceInts DEF Empty
<1>3. s \in Segments /\ s.from = hold.from /\ s.to = hold.to
  <2>1. DurableCharge(Bytes(hold)) \in Charges
    BY <1>2 DEF Charges, Bytes
  <2> QED BY <1>2, <2>1 DEF Segments
<1> HIDE DEF s
<1>4. /\ segments' \in Seq(Segments) /\ Len(segments') = Len(segments) + 1 /\ Len(segments) \in Nat
      /\ \A i \in 1..Len(segments) : segments'[i] = segments[i]
      /\ segments'[Len(segments) + 1] = s /\ segments' # <<>>
  BY <1>0, <1>1, <1>3, AppendProperties DEF FlowTypes
<1>5. FlowTypes'
  BY <1>0, <1>1, <1>4, NonePiece DEF FlowTypes
<1>6. UNCHANGED <<ToScan, ToAhead, ToChannel, ToPending, ToCut>>
  BY <1>1 DEF ToScan, ToAhead, ToChannel, ToPending, ToCut, After, Empty
<1>7. Front'
  BY <1>1, <1>6 DEF FlowInv, Front, Follows, Empty
<1>8. ToSegments' = hold.to /\ hold.from = ToSegments + 1
  BY <1>1, <1>3, <1>4 DEF FlowInv, Back, Follows, ToSegments
<1>9. Middle'
  <2>1. \A i \in 1..Len(segments') : segments'[i].from <= segments'[i].to
    BY <1>2, <1>3, <1>4 DEF FlowInv, Middle
  <2>2. segments'[1].from = ToCut' + 1
    <3>1. CASE segments = <<>>
      BY <1>3, <1>4, <1>6, <1>8, <3>1 DEF ToSegments
    <3>2. CASE segments # <<>>
      <4>1. 1 \in 1..Len(segments)
        BY <1>0, <3>2, EmptySeq DEF FlowTypes
      <4> QED BY <1>4, <1>6, <3>2, <4>1 DEF FlowInv, Middle
    <3> QED BY <3>1, <3>2
  <2>3. ASSUME NEW i \in 2..Len(segments') PROVE segments'[i].from = segments'[i - 1].to + 1
    <3>1. CASE i <= Len(segments)
      <4>1. i \in 2..Len(segments) /\ i \in 1..Len(segments) /\ i - 1 \in 1..Len(segments)
        BY <1>4, <3>1
      <4> QED BY <1>4, <4>1 DEF FlowInv, Middle
    <3>2. CASE i = Len(segments) + 1
      <4>1. Len(segments) \in 1..Len(segments) /\ segments # <<>> /\ i - 1 = Len(segments)
        BY <1>4, <3>2
      <4> QED BY <1>3, <1>4, <1>8, <3>2, <4>1 DEF ToSegments
    <3> QED BY <1>4, <3>1, <3>2
  <2> QED BY <2>1, <2>2, <2>3 DEF Middle
<1>10. Back'
  <2>1. ToHold' = hold.to
    BY <1>1, <1>8, NonePiece DEF ToHold, After
  <2>2. ToHold = hold.to
    BY <1>1 DEF ToHold, After
  <2> QED BY <1>1, <2>1, <2>2, NonePiece DEF FlowInv, Back, Follows
<1>11. NoStream'
  BY <1>1 DEF NoStream
<1> QED BY <1>5, <1>7, <1>9, <1>10, <1>11 DEF FlowInv

\* Without a stream it is a cached batch, which is to be sent.
LEMMA BatchStep ==
  ASSUME FlowInv, Reserve, ~streaming
  PROVE  FlowInv'
<1>0. FlowTypes
  BY DEF FlowInv
<1> DEFINE s == [from |-> hold.from, to |-> hold.to, charge |-> CachedCharge(Bytes(hold))]
<1>1. /\ UNCHANGED <<next, streaming, segments, cut, channel, ahead, scan, scanned, broken>>
      /\ ~Empty(hold) /\ hold' = None /\ pending' = Piece(hold.from, hold.to, {s}) /\ due'
  BY DEF Reserve, Charge, scannerVars
<1>2. hold.from \in Int /\ hold.to \in Int /\ hold.from <= hold.to
  BY <1>0, <1>1, PieceInts DEF Empty
<1>3. s \in Segments
  <2>1. CachedCharge(Bytes(hold)) \in Charges
    BY <1>2 DEF Charges, Bytes
  <2> QED BY <1>2, <2>1 DEF Segments
<1> HIDE DEF s
<1>4. pending' \in Pieces /\ pending'.from = hold.from /\ pending'.to = hold.to /\ ~Empty(pending')
  <2>1. {s} \in SUBSET Segments
    BY <1>3
  <2> QED BY <1>1, <1>2, <2>1, PieceFields
<1>5. FlowTypes'
  BY <1>0, <1>1, <1>4, NonePiece DEF FlowTypes
<1>6. segments = <<>> /\ Empty(cut) /\ Empty(pending) /\ ~broken
  BY <1>1 DEF FlowInv, NoStream
<1>7. ToChannel + 1 = hold.from /\ hold.to = next - 1
  BY <1>1, <1>6 DEF FlowInv, Back, Follows, ToHold, ToSegments, ToCut, ToPending, After
<1>8. UNCHANGED <<ToScan, ToAhead, ToChannel>>
  BY <1>1 DEF ToScan, ToAhead, ToChannel, After, Empty
<1>9. Empty(hold') /\ Empty(cut') /\ segments' = <<>>
  BY <1>1, <1>6, NonePiece DEF Empty
<1>10. ToPending' = hold.to /\ ToCut' = hold.to /\ ToSegments' = hold.to /\ ToHold' = hold.to
  BY <1>4, <1>9 DEF ToHold, ToSegments, ToCut, ToPending, After
<1>11. Front'
  BY <1>1, <1>4, <1>7, <1>8, <1>9 DEF FlowInv, Front, Follows, Empty
<1>12. Middle'
  BY <1>9, EmptySeq DEF Middle
<1>13. Back' /\ NoStream'
  BY <1>1, <1>6, <1>7, <1>9, <1>10 DEF Back, Follows, NoStream
<1> QED BY <1>5, <1>11, <1>12, <1>13 DEF FlowInv

LEMMA ReserveStep ==
  ASSUME FlowInv, Reserve
  PROVE  FlowInv'
BY SegmentStep, BatchStep

\* The producer reads a batch from the cache.
LEMMA CachedStep ==
  ASSUME FlowInv, CachedBatch
  PROVE  FlowInv'
<1> USE FlowBounds
<1>0. FlowTypes
  BY DEF FlowInv
<1>1. PICK to \in next..LastBlock : hold' = Piece(next, to, {}) /\ next' = to + 1
  BY DEF CachedBatch
<1>2. /\ UNCHANGED <<streaming, segments, cut, pending, due, channel, ahead, scan, scanned, broken>>
      /\ ~streaming /\ Empty(hold) /\ ~due
  BY DEF CachedBatch, streamVars, scannerVars
<1>3. to \in Int /\ next <= to /\ next \in Int /\ next >= 1
  BY <1>0 DEF FlowTypes
<1>4. hold' \in Pieces /\ hold'.from = next /\ hold'.to = to
  <2>1. {} \in SUBSET Segments
    OBVIOUS
  <2> QED BY <1>1, <1>3, <2>1, PieceFields
<1>5. FlowTypes'
  BY <1>0, <1>1, <1>2, <1>3, <1>4 DEF FlowTypes
<1>6. UNCHANGED <<ToScan, ToAhead, ToChannel, ToPending, ToCut, ToSegments>>
  BY <1>2 DEF ToScan, ToAhead, ToChannel, ToPending, ToCut, ToSegments, After, Empty
<1>7. Front' /\ Middle'
  BY <1>2, <1>6 DEF FlowInv, Front, Middle, Follows, Empty
<1>8. ~broken /\ Empty(pending) /\ segments = <<>> /\ Empty(cut)
  BY <1>2 DEF FlowInv, NoStream
<1>9. ToSegments = next - 1
  BY <1>2, <1>8 DEF FlowInv, Back, ToHold, After
<1>10. Back'
  BY <1>1, <1>2, <1>3, <1>4, <1>6, <1>9 DEF Back, Follows, ToHold, After, Empty
<1>11. NoStream'
  BY <1>2, <1>8 DEF NoStream, Empty
<1> QED BY <1>5, <1>7, <1>10, <1>11 DEF FlowInv

LEMMA TakeStep ==
  ASSUME FlowInv, TakeSegment
  PROVE  FlowInv'
<1>0. FlowTypes
  BY DEF FlowInv
<1> DEFINE s == segments[1]
<1>1. /\ UNCHANGED <<next, streaming, hold, pending, channel, ahead, scan, scanned, broken>>
      /\ Empty(cut) /\ segments # <<>> /\ segments' = Tail(segments)
      /\ cut' = Piece(Head(segments).from, Head(segments).to, {Head(segments)})
  BY DEF TakeSegment, producerVars, scannerVars
<1>2. Len(segments) \in Nat /\ Len(segments) >= 1 /\ 1 \in 1..Len(segments) /\ Head(segments) = s
  BY <1>0, <1>1, EmptySeq DEF FlowTypes
<1>3. s \in Segments /\ s.from \in Int /\ s.to \in Int /\ s.from <= s.to /\ s.from = ToCut + 1
  BY <1>0, <1>1, <1>2, PieceInts DEF FlowInv, Middle
<1>4. cut' \in Pieces /\ cut'.from = s.from /\ cut'.to = s.to /\ ~Empty(cut')
  <2>1. {s} \in SUBSET Segments
    BY <1>3
  <2> HIDE DEF s
  <2>2. cut' = Piece(s.from, s.to, {s})
    BY <1>1, <1>2
  <2> QED BY <1>3, <2>1, <2>2, PieceFields
<1>5. /\ segments' \in Seq(Segments) /\ Len(segments') = Len(segments) - 1
      /\ \A i \in 1..Len(segments') : segments'[i] = segments[i + 1]
      /\ segments' = <<>> <=> Len(segments) = 1
  <2>1. /\ segments' \in Seq(Segments) /\ Len(segments') = Len(segments) - 1
        /\ \A i \in 1..Len(segments') : segments'[i] = segments[i + 1]
    BY <1>0, <1>1, <1>2, HeadTailProperties DEF FlowTypes
  <2> QED BY <1>2, <2>1, EmptySeq
<1>6. FlowTypes'
  BY <1>0, <1>1, <1>4, <1>5 DEF FlowTypes
<1>7. UNCHANGED <<ToScan, ToAhead, ToChannel, ToPending>>
  BY <1>1 DEF ToScan, ToAhead, ToChannel, ToPending, After, Empty
<1>8. ToCut = ToPending /\ ToCut' = s.to
  BY <1>1, <1>4 DEF ToCut, After
<1>9. ToSegments' = ToSegments
  <2>1. CASE Len(segments) = 1
    BY <1>1, <1>2, <1>5, <1>8, <2>1 DEF ToSegments
  <2>2. CASE Len(segments) # 1
    <3>1. Len(segments') \in 1..Len(segments') /\ Len(segments') + 1 = Len(segments)
      BY <1>2, <1>5, <2>2
    <3>2. segments'[Len(segments')] = segments[Len(segments)]
      BY <1>5, <3>1
    <3> QED BY <1>1, <1>5, <2>2, <3>2 DEF ToSegments
  <2> QED BY <2>1, <2>2
<1>10. Front'
  BY <1>1, <1>3, <1>4, <1>7, <1>8 DEF FlowInv, Front, Follows, Empty
<1>11. Middle'
  <2>1. \A i \in 1..Len(segments') : segments'[i].from <= segments'[i].to
    <3> SUFFICES ASSUME NEW i \in 1..Len(segments') PROVE segments'[i].from <= segments'[i].to
      OBVIOUS
    <3>1. i + 1 \in 1..Len(segments) /\ segments'[i] = segments[i + 1]
      BY <1>2, <1>5
    <3> QED BY <3>1 DEF FlowInv, Middle
  <2>2. segments' # <<>> => segments'[1].from = ToCut' + 1
    <3> SUFFICES ASSUME segments' # <<>> PROVE segments'[1].from = ToCut' + 1
      OBVIOUS
    <3>1. 1 \in 1..Len(segments') /\ 2 \in 2..Len(segments) /\ 2 - 1 = 1
      BY <1>2, <1>5
    <3>2. segments'[1] = segments[2]
      BY <1>5, <3>1
    <3>3. segments[2].from = segments[1].to + 1
      BY <3>1 DEF FlowInv, Middle
    <3> QED BY <1>8, <3>2, <3>3
  <2>3. ASSUME NEW i \in 2..Len(segments') PROVE segments'[i].from = segments'[i - 1].to + 1
    <3>1. /\ i \in 1..Len(segments') /\ i - 1 \in 1..Len(segments') /\ (i - 1) + 1 = i
          /\ i + 1 \in 2..Len(segments) /\ (i + 1) - 1 = i
      BY <1>2, <1>5
    <3>2. segments'[i] = segments[i + 1] /\ segments'[i - 1] = segments[i]
      BY <1>5, <3>1
    <3>3. segments[i + 1].from = segments[i].to + 1
      BY <3>1 DEF FlowInv, Middle
    <3> QED BY <3>2, <3>3
  <2> QED BY <2>1, <2>2, <2>3 DEF Middle
<1>12. Back'
  BY <1>1, <1>9 DEF FlowInv, Back, Follows, ToHold, After, Empty
<1>13. NoStream'
  BY <1>1 DEF FlowInv, NoStream
<1> QED BY <1>6, <1>10, <1>11, <1>12, <1>13 DEF FlowInv

LEMMA CutStep ==
  ASSUME FlowInv, Cut
  PROVE  FlowInv'
<1>0. FlowTypes
  BY DEF FlowInv
<1>1. /\ UNCHANGED <<next, streaming, hold, segments, channel, ahead, scan, scanned, broken>>
      /\ ~Empty(cut)
  BY DEF Cut, producerVars, scannerVars
<1>2. PICK target \in Targets :
        LET n == PrefixLen(pending, cut, target)
            left == Piece(cut.from + n, cut.to, cut.of)
        IN IF n = 0 THEN UNCHANGED <<cut, pending>>
           ELSE /\ pending' = Joined(pending, cut, n)
                /\ cut' = IF Empty(left) THEN None ELSE left
  BY DEF Cut
<1> DEFINE n == PrefixLen(pending, cut, target)
           left == Piece(cut.from + n, cut.to, cut.of)
<1>3. /\ cut \in Pieces /\ cut.from \in Int /\ cut.to \in Int /\ cut.from <= cut.to /\ cut.of \subseteq Segments
      /\ pending.from \in Int /\ pending.to \in Int /\ pending.of \subseteq Segments
  BY <1>0, <1>1, PieceInts DEF Empty, FlowTypes
<1>4. n \in 0..(1 + cut.to - cut.from)
  BY <1>1, <1>3, PrefixLenBounded
<1>5. n \in Int /\ n >= 0 /\ n <= 1 + cut.to - cut.from
  BY <1>3, <1>4
<1>6. UNCHANGED <<ToScan, ToAhead, ToChannel>>
  BY <1>1 DEF ToScan, ToAhead, ToChannel, After, Empty
<1>7. CASE n = 0
  <2>1. UNCHANGED <<cut, pending>>
    BY <1>2, <1>7
  <2> HIDE DEF n, left
  <2>2. UNCHANGED <<ToPending, ToCut, ToSegments, ToHold>>
    BY <1>1, <1>6, <2>1 DEF ToPending, ToCut, ToSegments, ToHold, After, Empty
  <2>3. FlowTypes'
    BY <1>0, <1>1, <2>1 DEF FlowTypes
  <2>4. Front' /\ Middle' /\ Back' /\ NoStream'
    BY <1>1, <1>6, <2>1, <2>2 DEF FlowInv, Front, Middle, Back, NoStream, Follows, Empty
  <2> QED BY <2>3, <2>4 DEF FlowInv
<1>8. CASE n # 0
  <2> DEFINE first == IF Empty(pending) THEN cut.from ELSE pending.from
             last == cut.from + n - 1
  <2>1. pending' = Piece(first, last, pending.of \cup cut.of)
    BY <1>2, <1>8 DEF Joined
  <2>2. cut' = IF Empty(left) THEN None ELSE left
    BY <1>2, <1>8
  <2>3. /\ left \in Pieces /\ left.from = cut.from + n /\ left.to = cut.to
        /\ Empty(left) <=> cut.to < cut.from + n
    <3>1. cut.from + n \in Int /\ cut.of \in SUBSET Segments
      BY <1>3, <1>5
    <3> HIDE DEF n
    <3> QED BY <1>3, <3>1, PieceFields
  <2>4. Follows(ToChannel, pending) /\ Follows(ToPending, cut)
    BY DEF FlowInv, Front
  <2>5. cut.from = ToPending + 1
    BY <1>1, <2>4 DEF Follows
  <2>6. first \in Int /\ last \in Int /\ pending.of \cup cut.of \in SUBSET Segments
    BY <1>3, <1>5
  <2>7. first <= last
    <3> HIDE DEF n
    <3>1. CASE Empty(pending)
      BY <1>3, <1>5, <1>8, <3>1
    <3>2. CASE ~Empty(pending)
      <4>1. pending.from <= pending.to /\ cut.from = pending.to + 1
        BY <1>3, <2>5, <3>2 DEF Empty, ToPending, After
      <4> QED BY <1>3, <1>5, <1>8, <3>2, <4>1
    <3> QED BY <3>1, <3>2
  <2>8. /\ pending' \in Pieces /\ pending'.from = first /\ pending'.to = last /\ ~Empty(pending')
    <3> HIDE DEF first, last
    <3>1. \lnot (last < first)
      BY <2>6, <2>7
    <3> QED BY <2>1, <2>6, <3>1, PieceFields
  <2>9. first = ToChannel + 1
    <3>1. CASE Empty(pending)
      BY <2>5, <3>1 DEF ToPending, After
    <3>2. CASE ~Empty(pending)
      BY <2>4, <3>2 DEF Follows
    <3> QED BY <3>1, <3>2
  <2>10. ToPending' = last
    BY <2>8 DEF ToPending, After
  <2>11. cut' \in Pieces /\ Follows(ToPending', cut') /\ ToCut' = cut.to
    <3>1. CASE Empty(left)
      <4>1. cut' = None /\ cut.to = last
        <5> HIDE DEF n, left
        <5> QED BY <1>3, <1>5, <2>2, <2>3, <3>1
      <4> HIDE DEF n, left, last
      <4> QED BY <2>10, <4>1, NonePiece DEF Follows, ToCut, After
    <3>2. CASE ~Empty(left)
      <4>1. cut' = left
        BY <2>2, <3>2
      <4> HIDE DEF n, left
      <4>2. left.from = last + 1
        BY <1>3, <1>5, <2>3
      <4> HIDE DEF last
      <4> QED BY <2>3, <2>10, <3>2, <4>1, <4>2 DEF Follows, ToCut, After
    <3> QED BY <3>1, <3>2
  <2>12. ToCut = cut.to
    BY <1>1 DEF ToCut, After
  <2> HIDE DEF n, left, first, last
  <2>13. UNCHANGED <<ToSegments, ToHold>>
    BY <1>1, <2>11, <2>12 DEF ToSegments, ToHold, After, Empty
  <2>14. FlowTypes'
    BY <1>0, <1>1, <2>8, <2>11 DEF FlowTypes
  <2>15. Follows(ToChannel', pending')
    BY <1>6, <2>8, <2>9 DEF Follows
  <2>16. Front'
    BY <1>1, <1>6, <2>11, <2>15 DEF FlowInv, Front, Follows, Empty
  <2>17. Middle' /\ Back'
    BY <1>1, <2>11, <2>12, <2>13 DEF FlowInv, Middle, Back, Follows, Empty
  <2>18. NoStream'
    BY <1>1 DEF FlowInv, NoStream
  <2> QED BY <2>14, <2>16, <2>17, <2>18 DEF FlowInv
<1> QED BY <1>7, <1>8

\* Batches only move forward, into a place that was empty.
LEMMA MoveStep ==
  ASSUME FlowInv, SendBatch \/ ScanTake \/ LookAhead
  PROVE  FlowInv'
<1>0. FlowTypes
  BY DEF FlowInv
<1>1. UNCHANGED <<next, streaming, hold, segments, cut, scanned, broken>>
  BY DEF SendBatch, ScanTake, LookAhead, producerVars, upstream, streamVars
<1>2. FlowTypes' /\ Follows(scanned, scan)' /\ Follows(ToScan, ahead)' /\ Follows(ToAhead, channel)'
      /\ Follows(ToChannel, pending)' /\ ToPending' = ToPending
      /\ (Empty(pending') \/ (pending' = pending /\ due' = due))
  <2>0. /\ Follows(scanned, scan) /\ Follows(ToScan, ahead) /\ Follows(ToAhead, channel)
        /\ Follows(ToChannel, pending)
    BY DEF FlowInv, Front
  <2>1. CASE SendBatch
    <3>1. Empty(channel) /\ channel' = pending /\ pending' = None /\ UNCHANGED <<ahead, scan>>
      BY <2>1 DEF SendBatch
    <3>2. FlowTypes'
      BY <1>0, <1>1, <3>1, NonePiece DEF FlowTypes
    <3>3. UNCHANGED <<ToScan, ToAhead>> /\ ToChannel = ToAhead
      BY <1>1, <3>1 DEF ToScan, ToAhead, ToChannel, After, Empty
    <3>4. ToChannel' = ToPending /\ ToPending' = ToPending
      BY <1>1, <3>1, <3>3, NonePiece DEF ToPending, ToChannel, After, Empty
    <3>5. Empty(pending')
      BY <3>1, NonePiece
    <3> QED BY <1>1, <2>0, <3>1, <3>2, <3>3, <3>4, <3>5 DEF Follows, Empty
  <2>2. CASE LookAhead
    <3>1. Empty(ahead) /\ ahead' = channel /\ channel' = None /\ UNCHANGED <<pending, due, scan>>
      BY <2>2 DEF LookAhead, upstream, streamVars
    <3>2. FlowTypes'
      BY <1>0, <1>1, <3>1, NonePiece DEF FlowTypes
    <3>3. UNCHANGED ToScan /\ ToAhead = ToScan
      BY <1>1, <3>1 DEF ToScan, ToAhead, After, Empty
    <3>4. ToAhead' = ToChannel /\ ToChannel' = ToChannel
      BY <1>1, <3>1, <3>3, NonePiece DEF ToAhead, ToChannel, After, Empty
    <3>5. ToPending' = ToPending
      BY <3>1, <3>4 DEF ToPending, After, Empty
    <3>6. Empty(channel')
      BY <3>1, NonePiece
    <3> QED BY <1>1, <2>0, <3>1, <3>2, <3>3, <3>4, <3>5, <3>6 DEF Follows, Empty
  <2>3. CASE ScanTake /\ ~Empty(ahead)
    <3>1. Empty(scan) /\ scan' = ahead /\ ahead' = None /\ UNCHANGED <<pending, due, channel>>
      BY <2>3 DEF ScanTake, upstream, streamVars
    <3>2. FlowTypes'
      BY <1>0, <1>1, <3>1, NonePiece DEF FlowTypes
    <3>3. ToScan = scanned /\ ToScan' = ToAhead /\ ToAhead' = ToAhead
      BY <1>1, <3>1, NonePiece DEF ToScan, ToAhead, After, Empty
    <3>4. UNCHANGED <<ToChannel, ToPending>>
      BY <3>1, <3>3 DEF ToPending, ToChannel, After, Empty
    <3>5. Empty(ahead')
      BY <3>1, NonePiece
    <3> QED BY <1>1, <2>0, <3>1, <3>2, <3>3, <3>4, <3>5 DEF Follows, Empty
  <2>4. CASE ScanTake /\ Empty(ahead)
    <3>1. Empty(scan) /\ scan' = channel /\ channel' = None /\ UNCHANGED <<pending, due, ahead>>
      BY <2>4 DEF ScanTake, upstream, streamVars
    <3>2. FlowTypes'
      BY <1>0, <1>1, <3>1, NonePiece DEF FlowTypes
    <3>3. ToScan = scanned /\ ToAhead = scanned
      BY <2>4, <3>1 DEF ToScan, ToAhead, After
    <3>4. ToScan' = ToChannel /\ ToAhead' = ToChannel /\ ToChannel' = ToChannel
      BY <1>1, <2>4, <3>1, <3>3, NonePiece DEF ToScan, ToAhead, ToChannel, After, Empty
    <3>5. ToPending' = ToPending
      BY <3>1, <3>4 DEF ToPending, After, Empty
    <3>6. Empty(channel') /\ Empty(ahead')
      BY <2>4, <3>1, NonePiece
    <3> QED BY <1>1, <2>0, <3>1, <3>2, <3>3, <3>4, <3>5, <3>6 DEF Follows, Empty
  <2> QED BY <2>1, <2>2, <2>3, <2>4
<1>3. UNCHANGED <<ToCut, ToSegments, ToHold>>
  BY <1>1, <1>2 DEF ToCut, ToSegments, ToHold, After, Empty
<1>4. Front'
  BY <1>1, <1>2 DEF FlowInv, Front, Follows, Empty
<1>5. Middle' /\ Back' /\ NoStream'
  BY <1>1, <1>2, <1>3 DEF FlowInv, Middle, Back, NoStream, Follows, Empty
<1> QED BY <1>2, <1>4, <1>5 DEF FlowInv

LEMMA DoneStep ==
  ASSUME FlowInv, ScanDone
  PROVE  FlowInv'
<1>0. FlowTypes
  BY DEF FlowInv
<1>1. /\ UNCHANGED <<next, streaming, hold, segments, cut, pending, due, channel, ahead, broken>>
      /\ ~Empty(scan) /\ scanned' = scan.to /\ scan' = None
  BY DEF ScanDone, producerVars, upstream, streamVars
<1>2. scan.to \in Nat
  <2>1. scan.from = scanned + 1 /\ scan.from <= scan.to
    BY <1>0, <1>1, PieceInts DEF FlowInv, Front, Follows, Empty
  <2> QED BY <1>0, <2>1, PieceInts DEF FlowTypes
<1>3. FlowTypes'
  BY <1>0, <1>1, <1>2, NonePiece DEF FlowTypes
<1>4. ToScan = scan.to /\ ToScan' = scan.to /\ Empty(scan')
  BY <1>1, NonePiece DEF ToScan, After
<1>5. UNCHANGED <<ToAhead, ToChannel, ToPending, ToCut, ToSegments, ToHold>>
  BY <1>1, <1>4 DEF ToAhead, ToChannel, ToPending, ToCut, ToSegments, ToHold, After, Empty
<1>6. Front' /\ Middle' /\ Back' /\ NoStream'
  BY <1>1, <1>4, <1>5 DEF FlowInv, Front, Middle, Back, NoStream, Follows, Empty
<1> QED BY <1>3, <1>6 DEF FlowInv

\* A new producer: everything fetched is dropped.
LEMMA DropStep ==
  ASSUME FlowInv, NEW h \in Nat, Dropped(h + 1), scanned' = h
  PROVE  FlowInv'
<1>1. /\ hold' = None /\ cut' = None /\ pending' = None /\ channel' = None /\ ahead' = None /\ scan' = None
      /\ next' = h + 1 /\ scanned' = h /\ segments' = <<>> /\ ~broken'
  BY DEF Dropped
<1>2. FlowTypes'
  BY <1>1, NonePiece DEF FlowTypes
<1> QED BY <1>1, <1>2, NonePiece
        DEF FlowInv, Front, Middle, Back, NoStream, Follows, After, ToScan, ToAhead, ToChannel,
            ToPending, ToCut, ToSegments, ToHold, Empty

LEMMA FlowStep ==
  ASSUME FlowInv, [Next]_vars
  PROVE  FlowInv'
<1>0. scanned \in Nat
  BY DEF FlowInv, FlowTypes
<1>1. CASE Producer
  <2>1. CASE Throttle
    <3>1. UNCHANGED <<next, streaming, hold, segments, cut, pending, due, channel, ahead, scan, scanned, broken>>
      BY <2>1 DEF Throttle, producerVars, streamVars, scannerVars
    <3> QED BY <3>1 DEF FlowInv, FlowTypes, Front, Middle, Back, NoStream, Follows, After, ToScan,
                        ToAhead, ToChannel, ToPending, ToCut, ToSegments, ToHold, Empty
  <2> QED BY <1>1, <2>1, FetchStep, ReserveStep, CachedStep DEF Producer
<1>2. CASE Router
  <2>1. CASE LastBatch
    <3>1. /\ UNCHANGED <<next, streaming, hold, segments, cut, pending, channel, ahead, scan, scanned, broken>>
          /\ due'
      BY <2>1 DEF LastBatch, producerVars, scannerVars
    <3> QED BY <3>1 DEF FlowInv, FlowTypes, Front, Middle, Back, NoStream, Follows, After, ToScan,
                        ToAhead, ToChannel, ToPending, ToCut, ToSegments, ToHold, Empty
  <2> QED BY <1>2, <2>1, TakeStep, CutStep, MoveStep DEF Router
<1>3. CASE Scanner
  <2>1. CASE Restart
    BY <1>0, <2>1, DropStep DEF Restart
  <2> QED BY <1>3, <2>1, MoveStep, DoneStep DEF Scanner
<1>4. CASE StreamFails
  <2>1. /\ UNCHANGED <<next, streaming, hold, segments, cut, pending, channel, ahead, scan, scanned>>
        /\ broken' /\ streaming
    BY <1>4 DEF StreamFails, producerVars, streamVars, scannerVars
  <2> QED BY <2>1 DEF FlowInv, FlowTypes, Front, Middle, Back, NoStream, Follows, After, ToScan,
                      ToAhead, ToChannel, ToPending, ToCut, ToSegments, ToHold, Empty
<1>5. CASE Rewind
  <2>1. PICK h \in 0..scanned : scanned' = h /\ Dropped(h + 1)
    BY <1>5 DEF Rewind
  <2> QED BY <1>0, <2>1, DropStep
<1>6. CASE UNCHANGED vars
  <2>1. UNCHANGED <<next, streaming, hold, segments, cut, pending, due, channel, ahead, scan, scanned, broken>>
    BY <1>6 DEF vars
  <2> QED BY <2>1 DEF FlowInv, FlowTypes, Front, Middle, Back, NoStream, Follows, After, ToScan,
                      ToAhead, ToChannel, ToPending, ToCut, ToSegments, ToHold, Empty
<1> QED BY <1>1, <1>2, <1>3, <1>4, <1>5, <1>6 DEF Next

-----------------------------------------------------------------------------
(* From the explicit chain to the queue.                                   *)

Waiting == 6 + Len(segments)

LEMMA QueueShape ==
  ASSUME FlowTypes
  PROVE  /\ Len(segments) \in Nat /\ DOMAIN Queue = 1..Waiting /\ Len(Queue) = Waiting
         /\ Queue[1] = scan /\ Queue[2] = ahead /\ Queue[3] = channel /\ Queue[4] = pending
         /\ Queue[5] = cut /\ Queue[Waiting] = hold
         /\ \A k \in 1..Len(segments) :
              Queue[5 + k] \in Pieces /\ Queue[5 + k].from = segments[k].from /\ Queue[5 + k].to = segments[k].to
<1> DEFINE five == <<scan, ahead, channel, pending, cut>>
           mid == [i \in DOMAIN segments |-> Piece(segments[i].from, segments[i].to, {})]
           one == <<hold>>
           L == Len(segments)
<1>0. L \in Nat /\ DOMAIN segments = 1..L
  BY DEF FlowTypes
<1>1. five \in Seq(Pieces) /\ Len(five) = 5 /\ five[1] = scan /\ five[2] = ahead /\ five[3] = channel
      /\ five[4] = pending /\ five[5] = cut
  BY DEF FlowTypes
<1>2. \A k \in 1..L : /\ mid[k] \in Pieces /\ mid[k].from = segments[k].from
                       /\ mid[k].to = segments[k].to
  <2> SUFFICES ASSUME NEW k \in 1..L
               PROVE  mid[k] \in Pieces /\ mid[k].from = segments[k].from /\ mid[k].to = segments[k].to
    OBVIOUS
  <2>1. mid[k] = Piece(segments[k].from, segments[k].to, {})
    BY <1>0
  <2>2. segments[k].from \in Int /\ segments[k].to \in Int /\ {} \in SUBSET Segments
    BY PieceInts
  <2> HIDE DEF mid
  <2> QED BY <2>1, <2>2, PieceFields
<1>3. mid \in [1..L -> Pieces]
  BY <1>0, <1>2
<1>4. one \in Seq(Pieces) /\ Len(one) = 1 /\ one[1] = hold
  BY DEF FlowTypes
<1>5. Queue = (five \o mid) \o one
  BY DEF Queue
<1> HIDE DEF five, mid, one
<1>6. mid \in Seq(Pieces) /\ Len(mid) = L
  BY <1>0, <1>3
<1>7. /\ five \o mid \in Seq(Pieces) /\ Len(five \o mid) = 5 + L
      /\ \A i \in 1..5 + L : (five \o mid)[i] = IF i <= 5 THEN five[i] ELSE mid[i - 5]
  <2>1. /\ five \o mid \in Seq(Pieces) /\ Len(five \o mid) = Len(five) + Len(mid)
        /\ \A i \in 1..Len(five) + Len(mid) :
             (five \o mid)[i] = IF i <= Len(five) THEN five[i] ELSE mid[i - Len(five)]
    <3> HIDE DEF L
    <3>1. five \in Seq(Pieces) /\ mid \in Seq(Pieces)
      BY <1>1, <1>6
    <3> QED BY <3>1, ConcatProperties
  <2> QED BY <1>1, <1>6, <2>1
<1> DEFINE front == five \o mid
<1>8. front \in Seq(Pieces) /\ Len(front) = 5 + L
      /\ \A i \in 1..5 + L : front[i] = IF i <= 5 THEN five[i] ELSE mid[i - 5]
  BY <1>7
<1>9. Queue = front \o one
  BY <1>5
<1> HIDE DEF front, L
<1>10. /\ Queue \in Seq(Pieces) /\ Len(Queue) = 6 + L
       /\ \A i \in 1..6 + L : Queue[i] = IF i <= 5 + L THEN front[i] ELSE one[i - (5 + L)]
  <2>1. /\ front \o one \in Seq(Pieces) /\ Len(front \o one) = Len(front) + Len(one)
        /\ \A i \in 1..Len(front) + Len(one) :
             (front \o one)[i] = IF i <= Len(front) THEN front[i] ELSE one[i - Len(front)]
    BY <1>4, <1>8, ConcatProperties
  <2>2. Len(front) = 5 + L /\ Len(one) = 1 /\ 5 + L + 1 = 6 + L
    BY <1>0, <1>4, <1>8
  <2> QED BY <1>9, <2>1, <2>2
<1>11. Waiting = 6 + L
  BY DEF Waiting, L
<1>12. Queue[1] = scan /\ Queue[2] = ahead /\ Queue[3] = channel /\ Queue[4] = pending /\ Queue[5] = cut
  BY <1>0, <1>1, <1>8, <1>10
<1>13. Queue[6 + L] = hold
  BY <1>0, <1>4, <1>10
<1>14. ASSUME NEW k \in 1..L PROVE Queue[5 + k] = mid[k]
  BY <1>0, <1>8, <1>10
<1>15. DOMAIN Queue = 1..6 + L
  BY <1>10
<1> QED BY <1>0, <1>2, <1>10, <1>11, <1>12, <1>13, <1>14, <1>15 DEF L

\* The end of what lies before position i.
FilledBefore(i) == {j \in Filled : j < i}
EndBefore(i) == IF FilledBefore(i) = {} THEN scanned ELSE Queue[Max(FilledBefore(i))].to

LEMMA EndBeforeFirst ==
  ASSUME FlowTypes
  PROVE  EndBefore(1) = scanned
BY QueueShape DEF EndBefore, FilledBefore, Filled

LEMMA EndBeforeNext ==
  ASSUME FlowTypes, NEW i \in 1..Waiting
  PROVE  EndBefore(i + 1) = After(EndBefore(i), Queue[i])
<1>0. Filled \subseteq 1..Waiting /\ Waiting \in Nat /\ (i \in Filled <=> ~Empty(Queue[i]))
  BY QueueShape DEF Filled, Waiting
<1>1. CASE Empty(Queue[i])
  <2>1. FilledBefore(i + 1) = FilledBefore(i)
    <3>1. \A j \in Filled : j < i + 1 <=> j < i
      BY <1>0, <1>1
    <3> QED BY <3>1 DEF FilledBefore
  <2> QED BY <1>1, <2>1 DEF EndBefore, After
<1>2. CASE ~Empty(Queue[i])
  <2> DEFINE T == FilledBefore(i + 1)
  <2>1. i \in T /\ \A j \in T : j <= i
    BY <1>0, <1>2 DEF FilledBefore
  <2>2. T \in SUBSET (1..Waiting)
    BY <1>0 DEF FilledBefore
  <2> HIDE DEF T
  <2>3. Max(T) \in T /\ \A y \in T : Max(T) >= y
    <3>1. T # {} /\ 1 \in Int /\ Waiting \in Int
      BY <1>0, <2>1
    <3> QED BY <2>2, <3>1, MaxOfBounded
  <2>4. Max(T) = i
    <3> DEFINE m == Max(T)
    <3>1. m \in T /\ m >= i
      BY <2>1, <2>3
    <3> HIDE DEF m
    <3>2. m \in Int /\ i \in Int /\ m <= i
      BY <2>1, <2>2, <3>1
    <3>3. m = i
      BY <3>1, <3>2
    <3> QED BY <3>3 DEF m
  <2> QED BY <1>2, <2>1, <2>4 DEF EndBefore, After, T
<1> QED BY <1>1, <1>2

LEMMA FlowOrdered == FlowInv => InOrder
<1> SUFFICES ASSUME FlowInv PROVE InOrder
  OBVIOUS
<1> DEFINE L == Len(segments)
<1>0. FlowTypes /\ L \in Nat /\ Waiting = 6 + L
  BY QueueShape DEF FlowInv, Waiting
<1>1. EndBefore(1) = scanned /\ EndBefore(2) = ToScan /\ EndBefore(3) = ToAhead
      /\ EndBefore(4) = ToChannel /\ EndBefore(5) = ToPending /\ EndBefore(6) = ToCut
  <2>1. \A i \in {1, 2, 3, 4, 5} : i \in 1..Waiting
    BY <1>0
  <2>2. EndBefore(1) = scanned
    BY <1>0, EndBeforeFirst
  <2>3. EndBefore(2) = ToScan
    BY <1>0, <2>1, <2>2, EndBeforeNext, QueueShape, 1 + 1 = 2 DEF ToScan
  <2>4. EndBefore(3) = ToAhead
    BY <1>0, <2>1, <2>3, EndBeforeNext, QueueShape, 2 + 1 = 3 DEF ToAhead
  <2>5. EndBefore(4) = ToChannel
    BY <1>0, <2>1, <2>4, EndBeforeNext, QueueShape, 3 + 1 = 4 DEF ToChannel
  <2>6. EndBefore(5) = ToPending
    BY <1>0, <2>1, <2>5, EndBeforeNext, QueueShape, 4 + 1 = 5 DEF ToPending
  <2>7. EndBefore(6) = ToCut
    BY <1>0, <2>1, <2>6, EndBeforeNext, QueueShape, 5 + 1 = 6 DEF ToCut
  <2> QED BY <2>2, <2>3, <2>4, <2>5, <2>6, <2>7
<1>2. ASSUME NEW k \in 1..L PROVE EndBefore(6 + k) = segments[k].to /\ ~Empty(Queue[5 + k])
  <2>1. 5 + k \in 1..Waiting /\ (5 + k) + 1 = 6 + k
    BY <1>0
  <2>2. Queue[5 + k].from = segments[k].from /\ Queue[5 + k].to = segments[k].to
    BY <1>0, QueueShape
  <2>3. segments[k].from <= segments[k].to /\ segments[k].from \in Int /\ segments[k].to \in Int
    BY <1>0, PieceInts DEF FlowInv, Middle
  <2>4. ~Empty(Queue[5 + k])
    BY <2>2, <2>3 DEF Empty
  <2>5. EndBefore(6 + k) = After(EndBefore(5 + k), Queue[5 + k])
    BY <1>0, <2>1, EndBeforeNext
  <2> QED BY <2>2, <2>4, <2>5 DEF After
<1>3. EndBefore(6 + L) = ToSegments
  <2>1. CASE L = 0
    <3>1. segments = <<>>
      BY <1>0, <2>1, EmptySeq DEF FlowTypes
    <3> QED BY <1>1, <2>1, <3>1 DEF ToSegments
  <2>2. CASE L # 0
    <3>1. L \in 1..L /\ segments # <<>>
      BY <1>0, <2>2, EmptySeq
    <3> QED BY <1>2, <3>1 DEF ToSegments
  <2> QED BY <2>1, <2>2
<1>4. EndBefore(7 + L) = ToHold
  <2>1. Waiting \in 1..Waiting /\ Waiting + 1 = 7 + L
    BY <1>0
  <2>2. EndBefore(7 + L) = After(EndBefore(Waiting), Queue[Waiting])
    BY <1>0, <2>1, EndBeforeNext
  <2> QED BY <1>0, <1>3, <2>2, QueueShape DEF ToHold
<1>5. ASSUME NEW i \in 1..Waiting PROVE Follows(EndBefore(i), Queue[i])
  <2>1. CASE i \in 1..5
    <3>1. i = 1 \/ i = 2 \/ i = 3 \/ i = 4 \/ i = 5
      BY <2>1
    <3> QED BY <1>0, <1>1, <3>1, QueueShape DEF FlowInv, Front
  <2>2. CASE i \in 6..5 + L
    <3> DEFINE k == i - 5
    <3>1. k \in 1..L /\ i = 5 + k
      BY <1>0, <2>2
    <3>2. Queue[i].from = segments[k].from
      BY <1>0, <3>1, QueueShape
    <3>3. CASE k = 1
      <4>1. segments # <<>>
        BY <1>0, <3>1, EmptySeq
      <4>2. segments[1].from = ToCut + 1
        BY <4>1 DEF FlowInv, Middle
      <4> HIDE DEF k
      <4>3. i = 6
        BY <3>1, <3>3
      <4> QED BY <1>1, <3>2, <3>3, <4>2, <4>3 DEF Follows
    <3>4. CASE k # 1
      <4>1. k \in 2..L /\ k - 1 \in 1..L /\ i = 6 + (k - 1)
        BY <1>0, <3>1, <3>4
      <4>2. segments[k].from = segments[k - 1].to + 1
        BY <4>1 DEF FlowInv, Middle
      <4>3. EndBefore(i) = segments[k - 1].to
        BY <1>2, <4>1
      <4> HIDE DEF k
      <4> QED BY <3>2, <4>2, <4>3 DEF Follows
    <3> QED BY <3>3, <3>4
  <2>3. CASE i = 6 + L
    BY <1>0, <1>3, <2>3, QueueShape DEF FlowInv, Back
  <2> QED BY <1>0, <2>1, <2>2, <2>3
<1>6. DOMAIN Queue = 1..Waiting
  BY <1>0, QueueShape
<1>7. ASSUME NEW i \in Filled
      PROVE  LET before == {j \in Filled : j < i}
             IN Queue[i].from = IF before = {} THEN scanned + 1 ELSE Queue[Max(before)].to + 1
  <2>1. i \in 1..Waiting /\ ~Empty(Queue[i])
    BY <1>6 DEF Filled
  <2>2. Queue[i].from = EndBefore(i) + 1
    BY <1>5, <2>1 DEF Follows
  <2> QED BY <2>2 DEF EndBefore, FilledBefore
<1>8. Filled = FilledBefore(7 + L)
  BY <1>0, <1>6 DEF Filled, FilledBefore
<1>9. ~broken => EndBefore(7 + L) = next - 1
  BY <1>4 DEF FlowInv, Back
<1>10. ~broken /\ Filled # {} => Queue[Max(Filled)].to = next - 1
  BY <1>8, <1>9 DEF EndBefore
<1>11. ~broken /\ Filled = {} => next = scanned + 1
  <2>1. ~broken /\ Filled = {} => scanned = next - 1
    BY <1>8, <1>9 DEF EndBefore
  <2> QED BY <1>0, <2>1, PieceInts
<1> QED BY <1>7, <1>10, <1>11 DEF InOrder

\* For every range, block size, byte limit and any number of failures: what
\* the scanner, the decrypt-ahead slot, the channel, the accumulator, the
\* router and the producer hold is one run of blocks from the first unscanned
\* one to the next one to read, nothing missing and nothing twice (sync.rs).
THEOREM BlocksInOrder == Spec => []InOrder
<1>1. FlowInv /\ [Next]_vars => FlowInv'
  BY FlowStep
<1> QED BY FlowStart, <1>1, FlowOrdered, PTL DEF Spec

-----------------------------------------------------------------------------
(* Sums over finite sets, as SumFunctionOnSet folds them: any member may be *)
(* counted first, a part weighs no more than the whole.                    *)

Some(s) == CHOOSE x \in s : TRUE
Summed(it, f, s) == IF s = {} THEN 0 ELSE f[Some(s)] + it[s \ {Some(s)}]

\* it holds the sum of f over every part of S.
RunsOn(it, f, S) == \A s \in SUBSET S : it[s] = Summed(it, f, s)

LEMMA SomeMember ==
  ASSUME NEW s, s # {}
  PROVE  Some(s) \in s
BY DEF Some

LEMMA Smaller ==
  ASSUME NEW S, IsFiniteSet(S), NEW x \in S
  PROVE  /\ IsFiniteSet(S \ {x}) /\ Cardinality(S) \in Nat /\ Cardinality(S \ {x}) \in Nat
         /\ Cardinality(S \ {x}) = Cardinality(S) - 1
BY FS_RemoveElement, FS_CardinalityType

(* The fold that SumFunctionOnSet chooses exists. *)
LEMMA SumRuns ==
  ASSUME NEW S, IsFiniteSet(S), NEW f
  PROVE  \E it : SumFunctionOnSet(f, S) = it[S] /\ RunsOn(it, f, S)
<1> DEFINE Small(n) == {s \in SUBSET S : Cardinality(s) <= n}
           Works(it, n) == \A s \in Small(n) : it[s] = Summed(it, f, s)
           Stuck == {n \in Nat : ~\E it : Works(it, n)}
<1>0. \A s \in SUBSET S : IsFiniteSet(s) /\ Cardinality(s) \in Nat
  BY FS_Subset, FS_CardinalityType
<1>1. \A n \in Nat : \E it : Works(it, n)
  <2> SUFFICES ASSUME Stuck # {} PROVE FALSE
    OBVIOUS
  <2>1. PICK n \in Stuck : \A m \in Stuck : n <= m
    BY NatMinExists
  <2>2. n \in Nat /\ ~\E it : Works(it, n)
    OBVIOUS
  <2>3. CASE n = 0
    <3> DEFINE g == [s \in SUBSET S |-> 0]
    <3>1. \A s \in Small(0) : s = {}
      BY <1>0, FS_EmptySet
    <3>2. Works(g, 0)
      BY <3>1 DEF Summed
    <3> QED BY <2>2, <2>3, <3>2
  <2>4. CASE n # 0
    <3>1. n - 1 \in Nat /\ n - 1 \notin Stuck
      <4> HIDE DEF Stuck
      <4> QED BY <2>1, <2>2, <2>4
    <3>2. PICK it : Works(it, n - 1)
      BY <3>1
    <3> DEFINE g == [s \in SUBSET S |-> IF Cardinality(s) = n THEN Summed(it, f, s) ELSE it[s]]
    <3>3. ASSUME NEW s \in Small(n) PROVE g[s] = Summed(g, f, s)
      <4>0. s \in SUBSET S /\ Cardinality(s) \in Nat /\ Cardinality(s) <= n /\ IsFiniteSet(s)
        BY <1>0
      <4>1. g[s] = Summed(it, f, s)
        <5>1. CASE Cardinality(s) = n
          BY <4>0, <5>1
        <5>2. CASE Cardinality(s) # n
          <6>1. s \in Small(n - 1)
            BY <2>2, <4>0, <5>2
          <6> QED BY <3>2, <4>0, <5>2, <6>1
        <5> QED BY <5>1, <5>2
      <4>2. ASSUME s # {} PROVE g[s \ {Some(s)}] = it[s \ {Some(s)}]
        <5> DEFINE r == s \ {Some(s)}
        <5>1. r \in SUBSET S /\ Cardinality(r) = Cardinality(s) - 1
          BY <4>0, <4>2, SomeMember, Smaller
        <5>2. Cardinality(r) # n
          BY <2>2, <4>0, <5>1
        <5> HIDE DEF r
        <5>3. g[r] = it[r]
          BY <5>1, <5>2
        <5> QED BY <5>3 DEF r
      <4> HIDE DEF g
      <4> QED BY <4>1, <4>2 DEF Summed
    <3>4. Works(g, n)
      BY <3>3
    <3> QED BY <2>2, <3>4
  <2> QED BY <2>3, <2>4
<1>2. Cardinality(S) \in Nat /\ \A s \in SUBSET S : Cardinality(s) <= Cardinality(S)
  BY FS_Subset, FS_CardinalityType
<1>3. PICK h : \A s \in SUBSET S : h[s] = Summed(h, f, s)
  <2>1. PICK h : Works(h, Cardinality(S))
    BY <1>1, <1>2
  <2>2. SUBSET S = Small(Cardinality(S))
    BY <1>2
  <2> QED BY <2>1, <2>2
<1> DEFINE Is(it) == it = [s \in SUBSET S |-> IF s = {} THEN 0
                                              ELSE f[CHOOSE x \in s : TRUE] + it[s \ {CHOOSE x \in s : TRUE}]]
           g == [s \in SUBSET S |-> h[s]]
<1>4. Is(g)
  <2>1. ASSUME NEW s \in SUBSET S
        PROVE  g[s] = IF s = {} THEN 0 ELSE f[CHOOSE x \in s : TRUE] + g[s \ {CHOOSE x \in s : TRUE}]
    <3>1. s \ {CHOOSE x \in s : TRUE} \in SUBSET S
      OBVIOUS
    <3> QED BY <1>3, <3>1 DEF Summed, Some
  <2> QED BY <2>1
<1> DEFINE it == CHOOSE i : Is(i)
<1>5. Is(it)
  <2> HIDE DEF Is
  <2> QED BY <1>4
<1>6. SumFunctionOnSet(f, S) = it[S]
  BY DEF SumFunctionOnSet, FoldFunctionOnSet, MapThenFoldSet
<1> HIDE DEF it
<1>7. RunsOn(it, f, S)
  BY <1>5 DEF RunsOn, Summed, Some
<1> QED BY <1>6, <1>7

(* Two runs of the fold agree where both are defined. *)
LEMMA SumsAgree ==
  ASSUME NEW S, IsFiniteSet(S), NEW f, NEW it, NEW jt, RunsOn(it, f, S), RunsOn(jt, f, S)
  PROVE  it[S] = jt[S]
<1> USE DEF RunsOn
<1> DEFINE Bad == {n \in Nat : \E s \in SUBSET S : Cardinality(s) = n /\ it[s] # jt[s]}
<1>0. \A s \in SUBSET S : IsFiniteSet(s) /\ Cardinality(s) \in Nat
  BY FS_Subset, FS_CardinalityType
<1>1. Bad = {}
  <2> SUFFICES ASSUME Bad # {} PROVE FALSE
    OBVIOUS
  <2>1. PICK n \in Bad : \A m \in Bad : n <= m
    BY NatMinExists
  <2>2. PICK s \in SUBSET S : Cardinality(s) = n /\ it[s] # jt[s]
    OBVIOUS
  <2>3. s # {}
    BY <2>2 DEF Summed
  <2> DEFINE r == s \ {Some(s)}
  <2>4. r \in SUBSET S /\ Cardinality(r) = n - 1 /\ Cardinality(r) \in Nat /\ n \in Nat
    BY <1>0, <2>2, <2>3, SomeMember, Smaller
  <2> HIDE DEF r
  <2>5. n - 1 \notin Bad
    <3> HIDE DEF Bad
    <3> QED BY <2>1, <2>4
  <2>6. it[r] = jt[r]
    BY <2>4, <2>5
  <2> QED BY <2>2, <2>3, <2>6 DEF Summed, r
<1> QED BY <1>0, <1>1

LEMMA SumEmpty ==
  ASSUME NEW f
  PROVE  SumFunctionOnSet(f, {}) = 0
<1>1. IsFiniteSet({})
  BY FS_EmptySet
<1>2. PICK it : SumFunctionOnSet(f, {}) = it[{}] /\ RunsOn(it, f, {})
  BY <1>1, SumRuns
<1> QED BY <1>2 DEF RunsOn, Summed

LEMMA SumFirst ==
  ASSUME NEW S, IsFiniteSet(S), S # {}, NEW f
  PROVE  SumFunctionOnSet(f, S) = f[Some(S)] + SumFunctionOnSet(f, S \ {Some(S)})
<1>1. PICK R : R = S \ {Some(S)}
  OBVIOUS
<1>2. IsFiniteSet(R) /\ R \in SUBSET S
  BY <1>1, SomeMember, Smaller
<1>3. PICK it : SumFunctionOnSet(f, S) = it[S] /\ RunsOn(it, f, S)
  BY SumRuns
<1>4. PICK jt : SumFunctionOnSet(f, R) = jt[R] /\ RunsOn(jt, f, R)
  BY <1>2, SumRuns
<1>5. RunsOn(it, f, R)
  BY <1>2, <1>3 DEF RunsOn
<1>6. it[R] = jt[R]
  BY <1>2, <1>4, <1>5, SumsAgree
<1>7. it[S] = f[Some(S)] + it[R]
  BY <1>1, <1>3 DEF Summed, RunsOn
<1> QED BY <1>1, <1>3, <1>4, <1>6, <1>7

\* Induction over the parts of a finite set: a smallest bad part.
LEMMA SmallestPart ==
  ASSUME NEW S, IsFiniteSet(S), NEW Bad \in SUBSET (SUBSET S), Bad # {}
  PROVE  \E T \in Bad : IsFiniteSet(T) /\ \A x \in T : T \ {x} \notin Bad
<1> DEFINE Sizes == {Cardinality(T) : T \in Bad}
<1>1. \A T \in Bad : IsFiniteSet(T) /\ Cardinality(T) \in Nat
  BY FS_Subset, FS_CardinalityType
<1>2. Sizes \in SUBSET Nat /\ Sizes # {}
  BY <1>1
<1>3. PICK n \in Sizes : \A m \in Sizes : n <= m
  <2> HIDE DEF Sizes
  <2> QED BY <1>2, NatMinExists
<1>4. PICK T \in Bad : Cardinality(T) = n
  OBVIOUS
<1>5. ASSUME NEW x \in T PROVE T \ {x} \notin Bad
  <2>1. Cardinality(T \ {x}) = n - 1 /\ n \in Nat
    BY <1>1, <1>4, Smaller
  <2>2. n - 1 \notin Sizes
    <3> HIDE DEF Sizes
    <3> QED BY <1>3, <2>1
  <2> QED BY <2>1, <2>2
<1> QED BY <1>1, <1>5

NatOn(f, S) == \A x \in S : f[x] \in Nat

LEMMA SumNat ==
  ASSUME NEW S, IsFiniteSet(S), NEW f, NatOn(f, S)
  PROVE  SumFunctionOnSet(f, S) \in Nat
<1> DEFINE Bad == {T \in SUBSET S : SumFunctionOnSet(f, T) \notin Nat}
<1> SUFFICES ASSUME Bad # {} PROVE FALSE
  OBVIOUS
<1>1. PICK T \in Bad : IsFiniteSet(T) /\ \A x \in T : T \ {x} \notin Bad
  BY SmallestPart
<1>2. T # {}
  BY SumEmpty
<1>3. PICK R : R = T \ {Some(T)}
  OBVIOUS
<1>4. R \in SUBSET S /\ Some(T) \in S /\ R \notin Bad
  BY <1>1, <1>2, <1>3, SomeMember
<1>5. SumFunctionOnSet(f, T) = f[Some(T)] + SumFunctionOnSet(f, R)
  BY <1>1, <1>2, <1>3, SumFirst
<1>6. f[Some(T)] \in Nat /\ SumFunctionOnSet(f, R) \in Nat
  BY <1>4 DEF NatOn
<1> QED BY <1>5, <1>6

\* Any member may be counted first.
LEMMA SumTakes ==
  ASSUME NEW S, IsFiniteSet(S), NEW f, NatOn(f, S), NEW x \in S
  PROVE  /\ SumFunctionOnSet(f, S) = f[x] + SumFunctionOnSet(f, S \ {x})
         /\ f[x] \in Nat /\ SumFunctionOnSet(f, S \ {x}) \in Nat
<1> DEFINE Off(T, z) == SumFunctionOnSet(f, T) # f[z] + SumFunctionOnSet(f, T \ {z})
           Bad == {T \in SUBSET S : \E z \in T : Off(T, z)}
<1>0. \A T \in SUBSET S : IsFiniteSet(T) /\ SumFunctionOnSet(f, T) \in Nat
  <2> SUFFICES ASSUME NEW T \in SUBSET S PROVE IsFiniteSet(T) /\ SumFunctionOnSet(f, T) \in Nat
    OBVIOUS
  <2>1. IsFiniteSet(T) /\ NatOn(f, T)
    BY FS_Subset DEF NatOn
  <2> QED BY <2>1, SumNat
<1>1. Bad = {}
  <2> SUFFICES ASSUME Bad # {} PROVE FALSE
    OBVIOUS
  <2>1. PICK T \in Bad : IsFiniteSet(T) /\ \A y \in T : T \ {y} \notin Bad
    BY SmallestPart
  <2>2. PICK z \in T : Off(T, z)
    OBVIOUS
  <2>3. PICK y : y = Some(T)
    OBVIOUS
  <2>4. y \in T /\ SumFunctionOnSet(f, T) = f[y] + SumFunctionOnSet(f, T \ {y})
    BY <2>1, <2>3, SomeMember, SumFirst
  <2>5. y # z
    BY <2>2, <2>4
  <2>6. PICK R, Q, P : R = T \ {y} /\ Q = T \ {z} /\ P = R \ {z}
    OBVIOUS
  <2>7. P = Q \ {y} /\ z \in R /\ y \in Q /\ R \in SUBSET S /\ Q \in SUBSET S /\ P \in SUBSET S
        /\ R \notin Bad /\ Q \notin Bad
    BY <2>1, <2>4, <2>5, <2>6
  <2>8. SumFunctionOnSet(f, R) = f[z] + SumFunctionOnSet(f, P)
    BY <2>6, <2>7
  <2>9. SumFunctionOnSet(f, Q) = f[y] + SumFunctionOnSet(f, P)
    BY <2>6, <2>7
  <2>10. f[y] \in Nat /\ f[z] \in Nat /\ SumFunctionOnSet(f, P) \in Nat
    BY <1>0, <2>4, <2>7 DEF NatOn
  <2>11. SumFunctionOnSet(f, T) = f[z] + SumFunctionOnSet(f, Q)
    <3>1. SumFunctionOnSet(f, T) = f[y] + SumFunctionOnSet(f, R)
      BY <2>4, <2>6
    <3> QED BY <2>8, <2>9, <2>10, <3>1
  <2> QED BY <2>2, <2>6, <2>11
<1>2. ~Off(S, x)
  BY <1>1
<1>3. S \ {x} \in SUBSET S
  OBVIOUS
<1> QED BY <1>0, <1>2, <1>3 DEF NatOn

LEMMA PartSum ==
  ASSUME NEW S, IsFiniteSet(S), NEW f, NatOn(f, S), NEW T \in SUBSET S
  PROVE  IsFiniteSet(T) /\ NatOn(f, T) /\ SumFunctionOnSet(f, T) \in Nat
<1>1. IsFiniteSet(T) /\ NatOn(f, T)
  BY FS_Subset DEF NatOn
<1> QED BY <1>1, SumNat

\* A part weighs no more than the whole.
LEMMA SumPart ==
  ASSUME NEW S, IsFiniteSet(S), NEW f, NatOn(f, S), NEW V \in SUBSET S
  PROVE  SumFunctionOnSet(f, V) <= SumFunctionOnSet(f, S)
<1> DEFINE Sum(X) == SumFunctionOnSet(f, X)
           Bad == {T \in SUBSET S : \E U \in SUBSET T : ~(Sum(U) <= Sum(T))}
<1> SUFFICES ASSUME Bad # {} PROVE FALSE
  OBVIOUS
<1>1. PICK T \in Bad : IsFiniteSet(T) /\ \A x \in T : T \ {x} \notin Bad
  <2>1. Bad \in SUBSET (SUBSET S) /\ Bad # {}
    OBVIOUS
  <2> HIDE DEF Bad
  <2> QED BY <2>1, SmallestPart
<1>2. PICK U \in SUBSET T : ~(Sum(U) <= Sum(T))
  OBVIOUS
<1>3. IsFiniteSet(U) /\ NatOn(f, T) /\ NatOn(f, U) /\ Sum(U) \in Nat /\ Sum(T) \in Nat
  BY PartSum
<1>4. PICK x : x \in T
  BY <1>2, <1>3
<1>5. PICK R, Q : R = T \ {x} /\ Q = U \ {x}
  OBVIOUS
<1>6. R \notin Bad /\ R \in SUBSET S /\ Q \in SUBSET R
  BY <1>1, <1>4, <1>5
<1>7. Sum(Q) <= Sum(R) /\ Sum(Q) \in Nat /\ Sum(R) \in Nat
  <2>1. Sum(Q) <= Sum(R)
    BY <1>6
  <2>2. Q \in SUBSET S
    BY <1>6
  <2> QED BY <1>6, <2>1, <2>2, PartSum
<1>8. Sum(T) = f[x] + Sum(R) /\ f[x] \in Nat
  BY <1>1, <1>3, <1>4, <1>5, SumTakes
<1>9. CASE x \in U
  <2>1. Sum(U) = f[x] + Sum(Q)
    BY <1>3, <1>5, <1>9, SumTakes
  <2> HIDE DEF Sum
  <2> QED BY <1>2, <1>7, <1>8, <2>1
<1>10. CASE x \notin U
  <2>1. U = Q
    BY <1>5, <1>10
  <2> HIDE DEF Sum
  <2> QED BY <1>2, <1>7, <1>8, <2>1
<1> QED BY <1>9, <1>10

\* Two sets together weigh no more than both.
LEMMA SumJoin ==
  ASSUME NEW A, NEW B, IsFiniteSet(A \cup B), NEW f, NatOn(f, A \cup B)
  PROVE  SumFunctionOnSet(f, A \cup B) <= SumFunctionOnSet(f, A) + SumFunctionOnSet(f, B)
<1> DEFINE Sum(X) == SumFunctionOnSet(f, X)
           Bad == {U \in SUBSET B : ~(Sum(A \cup U) <= Sum(A) + Sum(U))}
<1> SUFFICES ASSUME Bad # {} PROVE FALSE
  OBVIOUS
<1>0. IsFiniteSet(B)
  <2>1. B \in SUBSET (A \cup B)
    OBVIOUS
  <2> QED BY <2>1, FS_Subset
<1>1. PICK U \in Bad : IsFiniteSet(U) /\ \A x \in U : U \ {x} \notin Bad
  BY <1>0, SmallestPart
<1>2. PICK J : J = A \cup U
  OBVIOUS
<1>3. J \in SUBSET (A \cup B) /\ A \in SUBSET (A \cup B) /\ U \in SUBSET (A \cup B)
  BY <1>2
<1>4. IsFiniteSet(J) /\ NatOn(f, J) /\ NatOn(f, U) /\ Sum(J) \in Nat /\ Sum(A) \in Nat /\ Sum(U) \in Nat
  BY <1>3, PartSum
<1>5. ~(Sum(J) <= Sum(A) + Sum(U))
  BY <1>2
<1>6. PICK x : x \in U
  <2> SUFFICES ASSUME U = {} PROVE FALSE
    OBVIOUS
  <2>1. J = A /\ Sum(U) = 0
    BY <1>2, SumEmpty
  <2> HIDE DEF Sum
  <2> QED BY <1>4, <1>5, <2>1
<1>7. PICK R, K : R = U \ {x} /\ K = A \cup R
  OBVIOUS
<1>8. Sum(K) <= Sum(A) + Sum(R)
  <2>1. R \notin Bad /\ R \in SUBSET B
    BY <1>1, <1>6, <1>7
  <2> QED BY <1>7, <2>1
<1>9. Sum(U) = f[x] + Sum(R) /\ f[x] \in Nat /\ Sum(R) \in Nat
  BY <1>1, <1>4, <1>6, <1>7, SumTakes
<1>10. CASE x \in A
  <2>1. J = K
    BY <1>2, <1>6, <1>7, <1>10
  <2> HIDE DEF Sum
  <2> QED BY <1>4, <1>5, <1>8, <1>9, <2>1
<1>11. CASE x \notin A
  <2>1. K = J \ {x} /\ x \in J
    BY <1>2, <1>6, <1>7, <1>11
  <2>2. Sum(J) = f[x] + Sum(K) /\ Sum(K) \in Nat
    BY <1>4, <2>1, SumTakes
  <2> HIDE DEF Sum
  <2> QED BY <1>4, <1>5, <1>8, <1>9, <2>2
<1> QED BY <1>10, <1>11

\* What weighs less block by block weighs less together.
LEMMA SumBelow ==
  ASSUME NEW S, IsFiniteSet(S), NEW f, NEW g, NatOn(f, S), NatOn(g, S), \A x \in S : f[x] <= g[x]
  PROVE  SumFunctionOnSet(f, S) <= SumFunctionOnSet(g, S)
<1> DEFINE F(X) == SumFunctionOnSet(f, X)
           G(X) == SumFunctionOnSet(g, X)
           Bad == {T \in SUBSET S : ~(F(T) <= G(T))}
<1> SUFFICES ASSUME Bad # {} PROVE FALSE
  OBVIOUS
<1>1. PICK T \in Bad : IsFiniteSet(T) /\ \A x \in T : T \ {x} \notin Bad
  BY SmallestPart
<1>2. NatOn(f, T) /\ NatOn(g, T)
  BY PartSum
<1>3. PICK x : x \in T
  <2> SUFFICES ASSUME T = {} PROVE FALSE
    OBVIOUS
  <2>1. F(T) = 0 /\ G(T) = 0
    BY SumEmpty
  <2> QED BY <2>1
<1>4. PICK R : R = T \ {x}
  OBVIOUS
<1>5. R \in SUBSET S /\ R \notin Bad
  BY <1>1, <1>3, <1>4
<1>6. F(R) <= G(R)
  BY <1>5
<1>7. F(T) = f[x] + F(R) /\ f[x] \in Nat /\ F(R) \in Nat
  BY <1>1, <1>2, <1>3, <1>4, SumTakes
<1>8. G(T) = g[x] + G(R) /\ g[x] \in Nat /\ G(R) \in Nat
  BY <1>1, <1>2, <1>3, <1>4, SumTakes
<1>9. f[x] <= g[x] /\ ~(F(T) <= G(T))
  BY <1>3
<1> HIDE DEF F, G
<1> QED BY <1>6, <1>7, <1>8, <1>9

LEMMA SumOne ==
  ASSUME NEW f, NEW x, f[x] \in Nat
  PROVE  SumFunctionOnSet(f, {x}) = f[x]
<1>1. IsFiniteSet({x}) /\ NatOn(f, {x})
  BY FS_Singleton DEF NatOn
<1>2. {x} \ {x} = {} /\ x \in {x}
  OBVIOUS
<1>3. SumFunctionOnSet(f, {x}) = f[x] + SumFunctionOnSet(f, {x} \ {x})
  BY <1>1, <1>2, SumTakes
<1>4. SumFunctionOnSet(f, {x} \ {x}) = 0
  BY <1>2, SumEmpty
<1> QED BY <1>3, <1>4

\* Blocks covered by groups, each within its charge, weigh no more than the
\* charges together.
LEMMA SumCover ==
  ASSUME NEW U, IsFiniteSet(U), NEW w, NatOn(w, U), NEW G, IsFiniteSet(G), NEW c, NatOn(c, G),
         NEW r, \A s \in G : r[s] \subseteq U /\ SumFunctionOnSet(w, r[s]) <= c[s],
         NEW B, \A b \in B : \E s \in G : b \in r[s]
  PROVE  SumFunctionOnSet(w, B) <= SumFunctionOnSet(c, G)
<1> DEFINE W(X) == SumFunctionOnSet(w, X)
           C(X) == SumFunctionOnSet(c, X)
           Covered(X, H) == \A b \in X : \E s \in H : b \in r[s]
           Bad == {H \in SUBSET G : \E X \in SUBSET U : Covered(X, H) /\ ~(W(X) <= C(H))}
<1>0. B \in SUBSET U
  OBVIOUS
<1> SUFFICES ASSUME Bad # {} PROVE FALSE
  BY <1>0
<1>1. PICK H \in Bad : IsFiniteSet(H) /\ \A s \in H : H \ {s} \notin Bad
  BY SmallestPart
<1>2. PICK X \in SUBSET U : Covered(X, H) /\ ~(W(X) <= C(H))
  OBVIOUS
<1>3. IsFiniteSet(X) /\ NatOn(w, X) /\ W(X) \in Nat
  BY PartSum
<1>4. PICK s : s \in H
  <2> SUFFICES ASSUME H = {} PROVE FALSE
    OBVIOUS
  <2>1. X = {}
    BY <1>2
  <2>2. W(X) = 0 /\ C(H) = 0
    BY <2>1, SumEmpty
  <2> QED BY <1>2, <2>2
<1>5. PICK K, Y, Z : K = H \ {s} /\ Y = X \ r[s] /\ Z = X \cap r[s]
  OBVIOUS
<1>6. W(Y) <= C(K)
  <2>1. K \notin Bad /\ K \in SUBSET G /\ Y \in SUBSET U
    BY <1>1, <1>4, <1>5
  <2>2. Covered(Y, K)
    BY <1>2, <1>5
  <2> QED BY <2>1, <2>2
<1>7. C(H) = c[s] + C(K) /\ c[s] \in Nat /\ C(K) \in Nat
  <2>1. NatOn(c, H)
    BY PartSum
  <2> QED BY <1>1, <1>4, <1>5, <2>1, SumTakes
<1>8. W(X) <= W(Y) + W(Z)
  <2>1. X = Y \cup Z
    BY <1>5
  <2>2. IsFiniteSet(Y \cup Z) /\ NatOn(w, Y \cup Z)
    BY <1>3, <2>1
  <2> QED BY <2>1, <2>2, SumJoin
<1>9. W(Y) \in Nat /\ W(Z) \in Nat
  <2>1. Y \in SUBSET U /\ Z \in SUBSET U
    BY <1>5
  <2> QED BY <2>1, PartSum
<1>10. W(Z) <= W(r[s]) /\ W(r[s]) \in Nat /\ W(r[s]) <= c[s]
  <2>1. s \in G
    BY <1>4
  <2>2. r[s] \in SUBSET U /\ W(r[s]) <= c[s] /\ Z \in SUBSET r[s]
    BY <1>5, <2>1
  <2>3. IsFiniteSet(r[s]) /\ NatOn(w, r[s]) /\ W(r[s]) \in Nat
    BY <2>2, PartSum
  <2> QED BY <2>2, <2>3, SumPart
<1> HIDE DEF W, C
<1> QED BY <1>2, <1>3, <1>6, <1>7, <1>8, <1>9, <1>10

-----------------------------------------------------------------------------
(* The memory bound.                                                       *)

Blocks == 1..LastBlock
Total(L) == SumFunctionOnSet([s \in L |-> s.charge], L)

\* A reservation covers its blocks, each counted up to the admission size.
Charged(s) ==
    /\ s.from \in Int /\ s.to \in Int /\ 1 <= s.from /\ s.to <= LastBlock
    /\ s.charge \in Nat /\ SumFunctionOnSet(Weight, s.from..s.to) <= s.charge

\* A piece carries the reservations of all its blocks.
Owned(p) == \A h \in p.from..p.to : \E s \in p.of : h \in s.from..s.to

\* What is to be reserved is one block, or a segment within the segment ceiling,
\* or a cached batch within its target.
HoldFits ==
    ~Empty(hold) =>
      /\ 1 <= hold.from /\ hold.to <= LastBlock
      /\ streaming => hold.from = hold.to \/ Bytes(hold) <= SegmentBytes
      /\ ~streaming => \E target \in Targets : hold.from = hold.to \/ Bytes(hold) <= target

AllOwned == Owned(cut) /\ Owned(pending) /\ Owned(channel) /\ Owned(ahead) /\ Owned(scan)
MemInv ==
    /\ IsFiniteSet(Live) /\ \A s \in Live : Charged(s)
    /\ HoldFits /\ AllOwned /\ Queued <= HighBytes

-----------------------------------------------------------------------------
(* What a run of blocks weighs.                                            *)

LEMMA FlowCaps ==
  /\ LastBlock \in Nat /\ HighBytes \in Nat /\ LowBytes \in Nat /\ SegmentBytes \in Nat
  /\ AdmissionBytes \in Nat /\ AdmissionBytes >= 1 /\ AdmissionBytes <= HighBytes
  /\ SegmentBytes <= AdmissionBytes /\ \A t \in Targets : t \in Nat /\ t <= HighBytes
<1>1. HighBytes \in Nat /\ LowBytes \in Nat /\ LowBytes < HighBytes /\ LastBlock \in Nat /\ SegmentBytes \in Nat
  BY FlowBoundsAssumption
<1>2. AdmissionBytes = IF HighBytes - LowBytes >= 1 THEN HighBytes - LowBytes ELSE 1
  <2>1. HighBytes - LowBytes \in Int /\ 1 \in Int
    BY <1>1
  <2> QED BY <2>1, MaxOfTwo DEF AdmissionBytes
<1> QED BY <1>1, <1>2, FlowCapsAssumption

LEMMA BlockWeight ==
  ASSUME NEW h \in Blocks
  PROVE  /\ Size[h] \in Nat /\ Weight[h] \in Nat /\ Weight[h] <= Size[h]
         /\ Weight[h] = IF Size[h] <= AdmissionBytes THEN Size[h] ELSE AdmissionBytes
<1>1. Size[h] \in Nat
  BY FlowSizesAssumption DEF Blocks
<1>2. Weight[h] = Min({Size[h], AdmissionBytes})
  BY DEF Weight, Blocks
<1>3. Min({Size[h], AdmissionBytes}) = IF Size[h] <= AdmissionBytes THEN Size[h] ELSE AdmissionBytes
  <2>1. Size[h] \in Int /\ AdmissionBytes \in Int
    BY <1>1, FlowCaps
  <2> QED BY <2>1, MinOfTwo
<1> QED BY <1>1, <1>2, <1>3, FlowCaps

LEMMA RunWeight ==
  ASSUME NEW a \in Int, NEW b \in Int, 1 <= a, a <= b, b <= LastBlock
  PROVE  /\ SumFunctionOnSet(Weight, a..b) \in Nat /\ BytesOf(a, b) \in Nat
         /\ SumFunctionOnSet(Weight, a..b) <= BytesOf(a, b)
         /\ a = b => BytesOf(a, b) = Size[a] /\ SumFunctionOnSet(Weight, a..b) = Weight[a]
<1>0. IsFiniteSet(a..b) /\ \A h \in a..b : h \in Blocks
  BY FS_Interval, FlowCaps DEF Blocks
<1>1. NatOn(Weight, a..b) /\ NatOn(Size, a..b) /\ \A h \in a..b : Weight[h] <= Size[h]
  BY <1>0, BlockWeight DEF NatOn
<1>2. ASSUME a = b PROVE BytesOf(a, b) = Size[a] /\ SumFunctionOnSet(Weight, a..b) = Weight[a]
  <2>1. a..b = {a} /\ a \in Blocks
    BY <1>0, <1>2
  <2>2. Size[a] \in Nat /\ Weight[a] \in Nat
    BY <2>1, BlockWeight
  <2> QED BY <2>1, <2>2, SumOne DEF BytesOf
<1> QED BY <1>0, <1>1, <1>2, SumNat, SumBelow DEF BytesOf

\* reserve_durable_segment charges a segment at least what it weighs.
LEMMA SegmentCharged ==
  ASSUME NEW a \in Int, NEW b \in Int, 1 <= a, a <= b, b <= LastBlock,
         a = b \/ BytesOf(a, b) <= SegmentBytes
  PROVE  Charged([from |-> a, to |-> b, charge |-> DurableCharge(BytesOf(a, b))])
<1>1. PICK w, n, c : w = SumFunctionOnSet(Weight, a..b) /\ n = BytesOf(a, b) /\ c = DurableCharge(n)
  OBVIOUS
<1>2. w \in Nat /\ n \in Nat /\ w <= n /\ (a = b => n = Size[a] /\ w = Weight[a])
  BY <1>1, RunWeight
<1>3. c = IF n <= AdmissionBytes THEN n ELSE AdmissionBytes
  <2>1. n \in Int /\ AdmissionBytes \in Int
    BY <1>2, FlowCaps
  <2> QED BY <1>1, <2>1, MinOfTwo DEF DurableCharge
<1>4. c \in Nat /\ w <= c
  <2>1. CASE a = b
    <3>1. a \in Blocks
      BY FlowCaps DEF Blocks
    <3> QED BY <1>2, <1>3, <2>1, <3>1, BlockWeight, FlowCaps
  <2>2. CASE n <= SegmentBytes
    BY <1>2, <1>3, <2>2, FlowCaps
  <2> QED BY <1>1, <2>1, <2>2
<1> QED BY <1>1, <1>4 DEF Charged

\* So does reserve for a batch from the cache.
LEMMA BatchCharged ==
  ASSUME NEW a \in Int, NEW b \in Int, 1 <= a, a <= b, b <= LastBlock, NEW target \in Targets,
         a = b \/ BytesOf(a, b) <= target
  PROVE  Charged([from |-> a, to |-> b, charge |-> CachedCharge(BytesOf(a, b))])
<1>1. PICK w, n, c : w = SumFunctionOnSet(Weight, a..b) /\ n = BytesOf(a, b) /\ c = CachedCharge(n)
  OBVIOUS
<1>2. w \in Nat /\ n \in Nat /\ w <= n /\ (a = b => n = Size[a] /\ w = Weight[a])
  BY <1>1, RunWeight
<1>3. c = IF n <= HighBytes THEN n ELSE HighBytes
  <2>1. n \in Int /\ HighBytes \in Int
    BY <1>2, FlowCaps
  <2> QED BY <1>1, <2>1, MinOfTwo DEF CachedCharge
<1>4. c \in Nat /\ w <= c
  <2>1. CASE a = b
    <3>1. a \in Blocks
      BY FlowCaps DEF Blocks
    <3> QED BY <1>2, <1>3, <2>1, <3>1, BlockWeight, FlowCaps
  <2>2. CASE n <= target
    BY <1>2, <1>3, <2>2, FlowCaps
  <2> QED BY <1>1, <2>1, <2>2
<1> QED BY <1>1, <1>4 DEF Charged

-----------------------------------------------------------------------------
(* What the live reservations weigh.                                       *)

LEMMA ChargesPart ==
  ASSUME NEW L, IsFiniteSet(L), \A s \in L : s.charge \in Nat, NEW M \in SUBSET L
  PROVE  Total(M) <= Total(L) /\ Total(M) \in Nat /\ Total(L) \in Nat
<1> DEFINE f == [s \in L |-> s.charge]
           g == [s \in M |-> s.charge]
<1>1. IsFiniteSet(M)
  BY FS_Subset
<1>2. NatOn(f, L) /\ NatOn(g, M) /\ NatOn(f, M) /\ \A s \in M : g[s] <= f[s]
  BY DEF NatOn
<1>3. Total(L) = SumFunctionOnSet(f, L) /\ Total(M) = SumFunctionOnSet(g, M)
  BY DEF Total
<1> HIDE DEF f, g
<1>4. SumFunctionOnSet(g, M) <= SumFunctionOnSet(f, M)
  BY <1>1, <1>2, SumBelow
<1>5. SumFunctionOnSet(f, M) <= SumFunctionOnSet(f, L)
  BY <1>2, SumPart
<1>6. SumFunctionOnSet(g, M) \in Nat /\ SumFunctionOnSet(f, M) \in Nat /\ SumFunctionOnSet(f, L) \in Nat
  BY <1>1, <1>2, SumNat
<1> QED BY <1>3, <1>4, <1>5, <1>6

LEMMA ChargesAdd ==
  ASSUME NEW L, IsFiniteSet(L), \A s \in L : s.charge \in Nat, NEW x, x.charge \in Nat
  PROVE  Total(L \cup {x}) <= Total(L) + x.charge
<1>1. PICK M : M = L \cup {x}
  OBVIOUS
<1>2. IsFiniteSet(M) /\ \A s \in M : s.charge \in Nat
  BY <1>1, FS_AddElement
<1>3. CASE x \in L
  <2>1. L \cup {x} = L
    BY <1>3
  <2>2. Total(L \cup {x}) = Total(L)
    BY <2>1, Zenon
  <2>3. Total(L) \in Nat
    BY ChargesPart
  <2> QED BY <2>2, <2>3
<1>4. CASE x \notin L
  <2> DEFINE f == [s \in M |-> s.charge]
             g == [s \in L |-> s.charge]
  <2>1. NatOn(f, M) /\ NatOn(g, L) /\ NatOn(f, L) /\ \A s \in L : f[s] <= g[s]
    BY <1>1, <1>2 DEF NatOn
  <2>2. f[x] = x.charge /\ x \in M /\ M \ {x} = L
    BY <1>1, <1>4
  <2>3. Total(M) = SumFunctionOnSet(f, M) /\ Total(L) = SumFunctionOnSet(g, L)
    BY DEF Total
  <2> HIDE DEF f, g
  <2>4. SumFunctionOnSet(f, M) = x.charge + SumFunctionOnSet(f, L)
    BY <1>2, <2>1, <2>2, SumTakes
  <2>5. SumFunctionOnSet(f, L) <= SumFunctionOnSet(g, L)
    BY <2>1, SumBelow
  <2>6. SumFunctionOnSet(f, L) \in Nat /\ SumFunctionOnSet(g, L) \in Nat
    BY <2>1, SumNat
  <2> QED BY <1>1, <2>3, <2>4, <2>5, <2>6
<1> QED BY <1>3, <1>4

LEMMA ChargesAfter ==
  ASSUME NEW L, IsFiniteSet(L), \A s \in L : s.charge \in Nat, NEW x, x.charge \in Nat,
         NEW M \in SUBSET (L \cup {x})
  PROVE  Total(M) <= Total(L) + x.charge
<1>1. PICK U : U = L \cup {x}
  OBVIOUS
<1>2. IsFiniteSet(U) /\ (\A s \in U : s.charge \in Nat) /\ M \in SUBSET U
  BY <1>1, FS_AddElement
<1>3. Total(M) <= Total(U) /\ Total(M) \in Nat /\ Total(U) \in Nat
  BY <1>2, ChargesPart
<1>4. Total(U) <= Total(L) + x.charge
  BY <1>1, ChargesAdd
<1>5. Total(L) \in Nat
  BY ChargesPart
<1> QED BY <1>3, <1>4, <1>5

LEMMA LiveParts ==
  ASSUME FlowTypes
  PROVE  \A s : s \in Live <=> \/ \E i \in 1..Len(segments) : s = segments[i]
                               \/ s \in cut.of \/ s \in pending.of \/ s \in channel.of
                               \/ s \in ahead.of \/ s \in scan.of
<1>1. DOMAIN segments = 1..Len(segments)
  BY DEF FlowTypes
<1> QED BY <1>1 DEF Live

LEMMA LivePartsAfter ==
  ASSUME FlowTypes'
  PROVE  \A s : s \in Live' <=> \/ \E i \in 1..Len(segments') : s = segments'[i]
                                \/ s \in cut'.of \/ s \in pending'.of \/ s \in channel'.of
                                \/ s \in ahead'.of \/ s \in scan'.of
<1>1. DOMAIN segments' = 1..Len(segments')
  BY DEF FlowTypes
<1> QED BY <1>1 DEF Live

\* Nothing new is reserved.
LEMMA NothingAdded ==
  ASSUME MemInv, Live' \subseteq Live, HoldFits', AllOwned'
  PROVE  MemInv'
<1>1. Queued = Total(Live) /\ Queued' = Total(Live')
  BY DEF Queued, Total
<1>2. IsFiniteSet(Live) /\ (\A s \in Live : Charged(s)) /\ Queued <= HighBytes
  BY DEF MemInv
<1>3. IsFiniteSet(Live')
  BY <1>2, FS_Subset
<1>4. \A s \in Live : s.charge \in Nat
  BY <1>2 DEF Charged
<1>5. Total(Live') <= Total(Live) /\ Total(Live') \in Nat /\ Total(Live) \in Nat
  BY <1>2, <1>4, ChargesPart
<1>6. Queued' <= HighBytes
  BY <1>1, <1>2, <1>5, FlowCaps
<1>7. \A s \in Live' : Charged(s)
  BY <1>2
<1> QED BY <1>3, <1>6, <1>7 DEF MemInv, Charged

\* One reservation is added, and it was admitted.
LEMMA OneAdmitted ==
  ASSUME MemInv, NEW x, Charged(x), Admits(x.charge), Live' \subseteq Live \cup {x}, HoldFits', AllOwned'
  PROVE  MemInv'
<1>1. Queued = Total(Live) /\ Queued' = Total(Live')
  BY DEF Queued, Total
<1>2. IsFiniteSet(Live) /\ (\A s \in Live : Charged(s)) /\ Queued + x.charge <= HighBytes
  BY DEF MemInv, Admits
<1>3. IsFiniteSet(Live')
  <2>1. IsFiniteSet(Live \cup {x})
    BY <1>2, FS_AddElement
  <2> QED BY <2>1, FS_Subset
<1>4. (\A s \in Live : s.charge \in Nat) /\ x.charge \in Nat
  BY <1>2 DEF Charged
<1>5. Total(Live') <= Total(Live) + x.charge
  BY <1>2, <1>4, ChargesAfter
<1>7. \A s \in Live' : Charged(s)
  BY <1>2
<1>8. Total(Live') \in Nat /\ Total(Live) \in Nat
  <2>1. \A s \in Live' : s.charge \in Nat
    BY <1>7 DEF Charged
  <2> QED BY <1>2, <1>3, <1>4, <2>1, ChargesPart
<1>6. Queued' <= HighBytes
  BY <1>1, <1>2, <1>4, <1>5, <1>8, FlowCaps
<1> QED BY <1>3, <1>6, <1>7 DEF MemInv, Charged

-----------------------------------------------------------------------------
LEMMA NoneOwned == Owned(None) /\ None.of = {}
<1>1. None.from = 1 /\ None.to = 0 /\ None.of = {}
  BY DEF None
<1> QED BY <1>1 DEF Owned

LEMMA OneOwns ==
  ASSUME NEW s \in Segments
  PROVE  Owned(Piece(s.from, s.to, {s})) /\ Piece(s.from, s.to, {s}).of = {s}
<1>1. Piece(s.from, s.to, {s}).from = s.from /\ Piece(s.from, s.to, {s}).to = s.to
      /\ Piece(s.from, s.to, {s}).of = {s}
  BY DEF Piece
<1> QED BY <1>1 DEF Owned

LEMMA MemStart == Init => MemInv
<1> SUFFICES ASSUME Init PROVE MemInv
  OBVIOUS
<1>1. /\ hold = None /\ cut = None /\ pending = None /\ channel = None /\ ahead = None /\ scan = None
      /\ segments = <<>>
  BY DEF Init
<1>2. Live = {}
  <2>1. FlowTypes
    BY FlowStart DEF FlowInv
  <2>2. Len(segments) = 0
    BY <1>1
  <2> QED BY <1>1, <2>1, <2>2, LiveParts, NoneOwned
<1>3. IsFiniteSet(Live) /\ Queued = 0
  BY <1>2, FS_EmptySet, SumEmpty DEF Queued
<1> QED BY <1>1, <1>2, <1>3, NonePiece, NoneOwned, FlowCaps DEF MemInv, HoldFits, AllOwned

LEMMA MemFetch ==
  ASSUME FlowInv, MemInv, Fetch
  PROVE  MemInv'
<1> USE FlowBounds
<1>1. PICK to \in next..LastBlock :
        hold' = Piece(next, to, {}) /\ (to = next \/ BytesOf(next, to) <= SegmentBytes)
  BY DEF Fetch
<1>2. UNCHANGED <<segments, cut, pending, channel, ahead, scan>> /\ streaming'
  BY DEF Fetch, streamVars, scannerVars
<1>3. Live' = Live
  BY <1>2 DEF Live
<1>4. AllOwned'
  BY <1>2 DEF MemInv, AllOwned, Owned
<1>5. next \in Int /\ next >= 1 /\ to \in Int /\ next <= to /\ to <= LastBlock
  BY DEF FlowInv, FlowTypes
<1>6. hold'.from = next /\ hold'.to = to
  BY <1>1 DEF Piece
<1>7. HoldFits'
  BY <1>1, <1>2, <1>5, <1>6 DEF HoldFits, Bytes
<1> QED BY <1>3, <1>4, <1>7, NothingAdded

LEMMA MemSegment ==
  ASSUME FlowInv, MemInv, Reserve, streaming
  PROVE  MemInv'
<1>0. FlowTypes /\ FlowTypes'
  BY ReserveStep DEF FlowInv
<1>1. PICK s : s = [from |-> hold.from, to |-> hold.to, charge |-> DurableCharge(Bytes(hold))]
  OBVIOUS
<1>2. /\ UNCHANGED <<cut, pending, channel, ahead, scan>>
      /\ ~Empty(hold) /\ hold' = None /\ segments' = Append(segments, s) /\ Admits(s.charge)
  BY <1>1 DEF Reserve, Charge, scannerVars
<1>3. hold.from \in Int /\ hold.to \in Int /\ hold.from <= hold.to
  BY <1>0, <1>2, PieceInts DEF Empty
<1>4. Charged(s)
  <2>1. /\ 1 <= hold.from /\ hold.to <= LastBlock
        /\ hold.from = hold.to \/ BytesOf(hold.from, hold.to) <= SegmentBytes
    BY <1>2 DEF MemInv, HoldFits, Bytes
  <2> QED BY <1>1, <1>3, <2>1, SegmentCharged DEF Bytes
<1>5. Live' \subseteq Live \cup {s}
  <2>1. s \in Segments
    <3>1. DurableCharge(Bytes(hold)) \in Charges
      BY <1>3 DEF Charges, Bytes
    <3> QED BY <1>1, <1>3, <3>1 DEF Segments
  <2>2. /\ Len(segments') = Len(segments) + 1 /\ Len(segments) \in Nat
        /\ \A i \in 1..Len(segments) : segments'[i] = segments[i]
        /\ segments'[Len(segments) + 1] = s
    BY <1>0, <1>2, <2>1, AppendProperties DEF FlowTypes
  <2>3. \A i \in 1..Len(segments') : segments'[i] = s \/ (i \in 1..Len(segments) /\ segments'[i] = segments[i])
    BY <2>2
  <2>4. ASSUME NEW x \in Live' PROVE x \in Live \/ x = s
    <3>1. \/ \E i \in 1..Len(segments') : x = segments'[i]
          \/ x \in cut.of \/ x \in pending.of \/ x \in channel.of
          \/ x \in ahead.of \/ x \in scan.of
      BY <1>0, <1>2, LivePartsAfter
    <3> QED BY <1>0, <2>3, <3>1, LiveParts
  <2> QED BY <2>4
<1>6. AllOwned'
  BY <1>2 DEF MemInv, AllOwned, Owned
<1>7. HoldFits'
  BY <1>2, NonePiece DEF HoldFits
<1> QED BY <1>2, <1>4, <1>5, <1>6, <1>7, OneAdmitted

LEMMA MemBatch ==
  ASSUME FlowInv, MemInv, Reserve, ~streaming
  PROVE  MemInv'
<1>0. FlowTypes /\ FlowTypes'
  BY ReserveStep DEF FlowInv
<1>1. PICK s : s = [from |-> hold.from, to |-> hold.to, charge |-> CachedCharge(Bytes(hold))]
  OBVIOUS
<1>2. /\ UNCHANGED <<segments, cut, channel, ahead, scan>>
      /\ ~Empty(hold) /\ hold' = None /\ pending' = Piece(hold.from, hold.to, {s}) /\ Admits(s.charge)
  BY <1>1 DEF Reserve, Charge, scannerVars
<1>3. hold.from \in Int /\ hold.to \in Int /\ hold.from <= hold.to
  BY <1>0, <1>2, PieceInts DEF Empty
<1>4. Charged(s)
  <2>1. PICK target \in Targets :
          /\ 1 <= hold.from /\ hold.to <= LastBlock
          /\ hold.from = hold.to \/ BytesOf(hold.from, hold.to) <= target
    BY <1>2 DEF MemInv, HoldFits, Bytes
  <2> QED BY <1>1, <1>3, <2>1, BatchCharged DEF Bytes
<1>5. s \in Segments
  <2>1. CachedCharge(Bytes(hold)) \in Charges
    BY <1>3 DEF Charges, Bytes
  <2> QED BY <1>1, <1>3, <2>1 DEF Segments
<1>6. Owned(pending') /\ pending'.of = {s}
  <2>1. s.from = hold.from /\ s.to = hold.to
    BY <1>1
  <2> QED BY <1>2, <1>5, <2>1, OneOwns
<1>7. Live' \subseteq Live \cup {s}
  BY <1>2, <1>6 DEF Live
<1>8. AllOwned'
  BY <1>2, <1>6 DEF MemInv, AllOwned, Owned
<1>9. HoldFits'
  BY <1>2, NonePiece DEF HoldFits
<1> QED BY <1>2, <1>4, <1>7, <1>8, <1>9, OneAdmitted

LEMMA MemCached ==
  ASSUME FlowInv, MemInv, CachedBatch
  PROVE  MemInv'
<1> USE FlowBounds
<1>1. PICK to \in next..LastBlock, target \in Targets :
        hold' = Piece(next, to, {}) /\ (to = next \/ BytesOf(next, to) <= target)
  BY DEF CachedBatch
<1>2. UNCHANGED <<streaming, segments, cut, pending, channel, ahead, scan>> /\ ~streaming
  BY DEF CachedBatch, streamVars, scannerVars
<1>3. Live' = Live
  BY <1>2 DEF Live
<1>4. AllOwned'
  BY <1>2 DEF MemInv, AllOwned, Owned
<1>5. next \in Int /\ next >= 1 /\ to \in Int /\ next <= to /\ to <= LastBlock
  BY DEF FlowInv, FlowTypes
<1>6. hold'.from = next /\ hold'.to = to
  BY <1>1 DEF Piece
<1>7. HoldFits'
  BY <1>1, <1>2, <1>5, <1>6 DEF HoldFits, Bytes
<1> QED BY <1>3, <1>4, <1>7, NothingAdded

LEMMA MemTake ==
  ASSUME FlowInv, MemInv, TakeSegment
  PROVE  MemInv'
<1>0. FlowTypes /\ FlowTypes'
  BY TakeStep DEF FlowInv
<1>1. PICK s : s = segments[1]
  OBVIOUS
<1>2. /\ UNCHANGED <<streaming, hold, pending, channel, ahead, scan>>
      /\ segments # <<>> /\ segments' = Tail(segments)
      /\ cut' = Piece(Head(segments).from, Head(segments).to, {Head(segments)})
  BY DEF TakeSegment, producerVars, scannerVars
<1>3. Len(segments) \in Nat /\ 1 \in 1..Len(segments) /\ Head(segments) = s
  BY <1>0, <1>1, <1>2, EmptySeq DEF FlowTypes
<1>4. s \in Segments
  BY <1>0, <1>1, <1>3, PieceInts
<1>5. Owned(cut') /\ cut'.of = {s}
  BY <1>2, <1>3, <1>4, OneOwns
<1>6. \A i \in 1..Len(segments') : i + 1 \in 1..Len(segments) /\ segments'[i] = segments[i + 1]
  <2>1. /\ Len(segments') = Len(segments) - 1
        /\ \A i \in 1..Len(segments') : segments'[i] = segments[i + 1]
    BY <1>0, <1>2, <1>3, HeadTailProperties DEF FlowTypes
  <2> QED BY <1>3, <2>1
<1>7. Live' \subseteq Live
  <2> SUFFICES ASSUME NEW x \in Live' PROVE x \in Live
    OBVIOUS
  <2>1. \/ \E i \in 1..Len(segments') : x = segments'[i]
        \/ x = s \/ x \in pending.of \/ x \in channel.of \/ x \in ahead.of \/ x \in scan.of
    BY <1>0, <1>2, <1>5, LivePartsAfter
  <2>2. \/ \E i \in 1..Len(segments) : x = segments[i]
        \/ x \in pending.of \/ x \in channel.of \/ x \in ahead.of \/ x \in scan.of
    BY <1>1, <1>3, <1>6, <2>1
  <2> QED BY <1>0, <2>2, LiveParts
<1>8. AllOwned'
  BY <1>2, <1>5 DEF MemInv, AllOwned, Owned
<1>9. HoldFits'
  BY <1>2 DEF MemInv, HoldFits, Empty, Bytes
<1> QED BY <1>7, <1>8, <1>9, NothingAdded

\* The cut piece keeps the segment's reservation and so does the batch.
LEMMA MemCut ==
  ASSUME FlowInv, MemInv, Cut
  PROVE  MemInv'
<1>0. FlowTypes /\ FlowTypes'
  BY CutStep DEF FlowInv
<1>1. /\ UNCHANGED <<streaming, hold, segments, channel, ahead, scan>>
      /\ ~Empty(cut)
  BY DEF Cut, producerVars, scannerVars
<1>2. PICK target \in Targets :
        LET n == PrefixLen(pending, cut, target)
            left == Piece(cut.from + n, cut.to, cut.of)
        IN IF n = 0 THEN UNCHANGED <<cut, pending>>
           ELSE /\ pending' = Joined(pending, cut, n)
                /\ cut' = IF Empty(left) THEN None ELSE left
  BY DEF Cut
<1>3. PICK n : n = PrefixLen(pending, cut, target)
  OBVIOUS
<1>4. /\ cut \in Pieces /\ cut.from \in Int /\ cut.to \in Int /\ cut.from <= cut.to
      /\ pending.from \in Int /\ pending.to \in Int
  BY <1>0, <1>1, PieceInts DEF Empty, FlowTypes
<1>5. n \in Int /\ n >= 0 /\ n <= 1 + cut.to - cut.from
  <2>1. n \in 0..(1 + cut.to - cut.from)
    BY <1>1, <1>3, <1>4, PrefixLenBounded
  <2> QED BY <1>4, <2>1
<1>6. Owned(cut) /\ Owned(pending)
  BY DEF MemInv, AllOwned
<1>7. /\ Owned(pending') /\ Owned(cut')
      /\ pending'.of \subseteq pending.of \cup cut.of /\ cut'.of \subseteq cut.of
  <2>1. CASE n = 0
    <3>1. pending' = pending /\ cut' = cut
      BY <1>2, <1>3, <2>1
    <3> QED BY <1>6, <3>1
  <2>2. CASE n # 0
    <3>1. PICK left : left = Piece(cut.from + n, cut.to, cut.of)
      OBVIOUS
    <3>2. pending' = Joined(pending, cut, n) /\ cut' = IF Empty(left) THEN None ELSE left
      BY <1>2, <1>3, <2>2, <3>1
    <3>3. left.from = cut.from + n /\ left.to = cut.to /\ left.of = cut.of
      BY <3>1 DEF Piece
    <3>4. Owned(left)
      <4> SUFFICES ASSUME NEW h \in left.from..left.to PROVE \E s \in left.of : h \in s.from..s.to
        BY DEF Owned
      <4>1. h \in cut.from..cut.to
        BY <1>4, <1>5, <3>3
      <4> QED BY <1>6, <3>3, <4>1 DEF Owned
    <3>5. Owned(cut') /\ cut'.of \subseteq cut.of
      BY <3>2, <3>3, <3>4, NoneOwned
    <3>6. /\ pending'.from = (IF Empty(pending) THEN cut.from ELSE pending.from)
          /\ pending'.to = cut.from + n - 1 /\ pending'.of = pending.of \cup cut.of
      BY <3>2 DEF Joined, Piece
    <3>7. ~Empty(pending) => cut.from = pending.to + 1
      BY <1>1 DEF FlowInv, Front, Follows, ToPending, After
    <3>8. Owned(pending')
      <4> SUFFICES ASSUME NEW h \in pending'.from..pending'.to PROVE \E s \in pending'.of : h \in s.from..s.to
        BY DEF Owned
      <4>1. CASE h \in cut.from..cut.to
        BY <1>6, <3>6, <4>1 DEF Owned
      <4>2. CASE h \notin cut.from..cut.to
        <5>1. h \in pending.from..pending.to
          BY <1>4, <1>5, <3>6, <3>7, <4>2
        <5> QED BY <1>6, <3>6, <5>1 DEF Owned
      <4> QED BY <4>1, <4>2
    <3> QED BY <3>5, <3>6, <3>8
  <2> QED BY <2>1, <2>2
<1>8. Live' \subseteq Live
  <2> SUFFICES ASSUME NEW x \in Live' PROVE x \in Live
    OBVIOUS
  <2>1. \/ \E i \in 1..Len(segments') : x = segments'[i]
        \/ x \in cut'.of \/ x \in pending'.of \/ x \in channel'.of \/ x \in ahead'.of \/ x \in scan'.of
    BY <1>0, LivePartsAfter
  <2>2. \/ \E i \in 1..Len(segments) : x = segments[i]
        \/ x \in cut.of \/ x \in pending.of \/ x \in channel.of \/ x \in ahead.of \/ x \in scan.of
    BY <1>1, <1>7, <2>1
  <2> QED BY <1>0, <2>2, LiveParts
<1>9. AllOwned'
  BY <1>1, <1>7 DEF MemInv, AllOwned, Owned
<1>10. HoldFits'
  BY <1>1 DEF MemInv, HoldFits, Empty, Bytes
<1> QED BY <1>8, <1>9, <1>10, NothingAdded

\* Batches that move on or are dropped keep or give up their reservations.
LEMMA MemMove ==
  ASSUME FlowInv, MemInv, FlowTypes',
         hold' = None \/ (hold' = hold /\ streaming' = streaming), segments' \in {segments, <<>>},
         {cut', pending', channel', ahead', scan'} \subseteq {cut, pending, channel, ahead, scan, None}
  PROVE  MemInv'
<1>0. FlowTypes
  BY DEF FlowInv
<1>1. \A p \in {cut, pending, channel, ahead, scan, None} :
        Owned(p) /\ \A x \in p.of : x \in cut.of \/ x \in pending.of \/ x \in channel.of \/ x \in ahead.of \/ x \in scan.of
  BY NoneOwned DEF MemInv, AllOwned
<1>2. \A p \in {cut', pending', channel', ahead', scan'} :
        Owned(p) /\ \A x \in p.of : x \in cut.of \/ x \in pending.of \/ x \in channel.of \/ x \in ahead.of \/ x \in scan.of
  BY <1>1
<1>3. AllOwned'
  BY <1>2 DEF AllOwned, Owned
<1>4. HoldFits'
  <2>1. CASE hold' = hold /\ streaming' = streaming
    BY <2>1 DEF MemInv, HoldFits, Empty, Bytes
  <2>2. CASE hold' = None
    BY <2>2, NonePiece DEF HoldFits
  <2> QED BY <2>1, <2>2
<1>5. Live' \subseteq Live
  <2> SUFFICES ASSUME NEW x \in Live' PROVE x \in Live
    OBVIOUS
  <2>1. \/ \E i \in 1..Len(segments') : x = segments'[i]
        \/ x \in cut'.of \/ x \in pending'.of \/ x \in channel'.of \/ x \in ahead'.of \/ x \in scan'.of
    BY <1>0, LivePartsAfter
  <2>2. \/ \E i \in 1..Len(segments') : x = segments'[i]
        \/ x \in cut.of \/ x \in pending.of \/ x \in channel.of \/ x \in ahead.of \/ x \in scan.of
    BY <1>2, <2>1
  <2>3. (\E i \in 1..Len(segments') : x = segments'[i]) => \E i \in 1..Len(segments) : x = segments[i]
    <3>1. CASE segments' = segments
      BY <3>1
    <3>2. CASE segments' = <<>>
      <4>1. Len(segments') = 0
        BY <3>2
      <4> QED BY <4>1
    <3> QED BY <3>1, <3>2
  <2> QED BY <1>0, <2>2, <2>3, LiveParts
<1> QED BY <1>3, <1>4, <1>5, NothingAdded

LEMMA MemStep ==
  ASSUME FlowInv, MemInv, [Next]_vars
  PROVE  MemInv'
<1>0. FlowTypes'
  BY FlowStep DEF FlowInv
<1>1. CASE Throttle \/ LastBatch \/ StreamFails \/ UNCHANGED vars
  <2>1. UNCHANGED <<streaming, hold, segments, cut, pending, channel, ahead, scan>>
    BY <1>1 DEF Throttle, LastBatch, StreamFails, vars, producerVars, streamVars, scannerVars
  <2> QED BY <1>0, <2>1, MemMove
<1>2. CASE SendBatch \/ ScanTake \/ LookAhead \/ ScanDone
  <2>1. UNCHANGED <<streaming, hold, segments, cut>>
    BY <1>2 DEF SendBatch, ScanTake, LookAhead, ScanDone, producerVars, upstream, streamVars
  <2>2. {pending', channel', ahead', scan'} \subseteq {pending, channel, ahead, scan, None}
    BY <1>2 DEF SendBatch, ScanTake, LookAhead, ScanDone, upstream, streamVars
  <2> QED BY <1>0, <2>1, <2>2, MemMove
<1>3. CASE Restart \/ Rewind
  <2>1. /\ hold' = None /\ cut' = None /\ pending' = None /\ channel' = None /\ ahead' = None /\ scan' = None
        /\ segments' = <<>>
    BY <1>3 DEF Restart, Rewind, Dropped
  <2> QED BY <1>0, <2>1, MemMove
<1> QED BY <1>1, <1>2, <1>3, MemFetch, MemSegment, MemBatch, MemCached, MemTake, MemCut
        DEF Next, Producer, Router, Scanner

\* What is held past admission is covered by live reservations.
LEMMA MemWithin == FlowInv /\ MemInv => MemoryBounded
<1> SUFFICES ASSUME FlowInv, MemInv PROVE MemoryBounded
  OBVIOUS
<1>0. FlowTypes
  BY DEF FlowInv
<1> DEFINE c == [s \in Live |-> s.charge]
           r == [s \in Live |-> s.from..s.to]
<1>1. IsFiniteSet(Live) /\ (\A s \in Live : Charged(s)) /\ Queued <= HighBytes
  BY DEF MemInv
<1>2. IsFiniteSet(Blocks) /\ NatOn(Weight, Blocks)
  BY FS_Interval, FlowCaps, BlockWeight DEF Blocks, NatOn
<1>3. NatOn(c, Live) /\ Queued = SumFunctionOnSet(c, Live)
  BY <1>1 DEF NatOn, Charged, Queued
<1>4. \A s \in Live : r[s] \subseteq Blocks /\ SumFunctionOnSet(Weight, r[s]) <= c[s]
  BY <1>1, FlowCaps DEF Charged, Blocks
<1>5. ASSUME NEW b \in Admitted PROVE \E s \in Live : b \in r[s]
  <2>1. PICK i \in Filled \ {Len(Queue)} : b \in Queue[i].from..Queue[i].to
    BY DEF Admitted
  <2>2. i \in 1..Waiting /\ i # Waiting /\ Len(segments) \in Nat
    <3>1. DOMAIN Queue = 1..Waiting /\ Len(segments) \in Nat
      BY <1>0, QueueShape
    <3>2. Len(Queue) = Waiting
      BY <1>0, QueueShape
    <3> QED BY <3>1, <3>2 DEF Filled
  <2>3. \E s \in Live : b \in s.from..s.to
    <3>1. CASE i \in 1..5
      <4>1. i = 1 \/ i = 2 \/ i = 3 \/ i = 4 \/ i = 5
        BY <3>1
      <4>2. PICK p \in {cut, pending, channel, ahead, scan} : Queue[i] = p
        BY <1>0, <4>1, QueueShape
      <4>3. Owned(p) /\ \A s \in p.of : s \in Live
        BY <1>0, LiveParts DEF MemInv, AllOwned
      <4> QED BY <2>1, <4>2, <4>3 DEF Owned
    <3>2. CASE i \notin 1..5
      <4>1. PICK k \in 1..Len(segments) : i = 5 + k
        <5>1. i - 5 \in 1..Len(segments) /\ i = 5 + (i - 5)
          BY <2>2, <3>2 DEF Waiting
        <5> QED BY <5>1
      <4>2. Queue[i].from = segments[k].from /\ Queue[i].to = segments[k].to
        BY <1>0, <4>1, QueueShape
      <4>3. segments[k] \in Live
        BY <1>0, LiveParts
      <4> QED BY <2>1, <4>2, <4>3
    <3> QED BY <3>1, <3>2
  <2> QED BY <2>3
<1> HIDE DEF c, r
<1>6. SumFunctionOnSet(Weight, Admitted) <= SumFunctionOnSet(c, Live)
  BY <1>1, <1>2, <1>3, <1>4, <1>5, SumCover
<1>7. SumFunctionOnSet(Weight, Admitted) \in Nat /\ SumFunctionOnSet(c, Live) \in Nat
  <2>1. Admitted \in SUBSET Blocks
    BY <1>4, <1>5
  <2> QED BY <1>1, <1>2, <1>3, <2>1, PartSum, SumNat
<1> QED BY <1>1, <1>3, <1>6, <1>7, FlowCaps DEF MemoryBounded

\* For every block size, segment ceiling and water mark the code can choose:
\* what lies between admission and the end of the scan, every block counted up
\* to the admission size, stays within the high water mark, although a
\* reservation is shared by all the pieces of a segment and outlives most of
\* them (PrefetchWatermarks, NetworkBatchAccumulator).
THEOREM QueueStaysWithin == Spec => []MemoryBounded
<1>1. FlowInv /\ MemInv /\ [Next]_vars => FlowInv' /\ MemInv'
  BY FlowStep, MemStep
<1> QED BY FlowStart, MemStart, <1>1, MemWithin, PTL DEF Spec
=============================================================================
