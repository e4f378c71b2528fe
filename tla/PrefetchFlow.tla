---------------------------- MODULE PrefetchFlow ----------------------------
(***************************************************************************)
(* From the block stream to the scanner (sync.rs, intake.rs).  A producer  *)
(* takes network segments and must reserve their bytes under a high water  *)
(* mark before it hands them on; a router cuts segments into batches of    *)
(* the size the scanner asks for; the scanner works on one batch and       *)
(* decrypts one ahead.  Blocks the cache already has come first, as        *)
(* batches of their own.                                                   *)
(*                                                                         *)
(* A reservation is shared by every piece of its segment and is released   *)
(* when the last piece is dropped, so the bytes queued are those of the    *)
(* segments somebody still holds a piece of.  A producer that is refused   *)
(* waits to be notified, and only a dropped reservation notifies it.       *)
(***************************************************************************)
EXTENDS Integers, Sequences, FiniteSets, FiniteSetsExt

CONSTANTS
    LastBlock,      \* the range is 1..LastBlock
    Size,           \* Size[h]: encoded bytes of block h
    HighBytes,      \* prefetch_queue_max_bytes
    LowBytes,       \* half of it
    SegmentBytes,   \* ceiling of a network segment
    Targets,        \* batch targets in bytes the adaptive batcher may choose
    CachedTo,       \* the cache holds 1..CachedTo when the run starts
    MaxTrouble      \* bound: failed streams and reorganisations

ASSUME FlowSizesAssumption == Size \in [1..LastBlock -> Nat \ {0}]
ASSUME FlowBoundsAssumption ==
    /\ {LastBlock, HighBytes, LowBytes, SegmentBytes, CachedTo, MaxTrouble} \subseteq Nat
    /\ LowBytes < HighBytes /\ CachedTo <= LastBlock /\ Targets \subseteq Nat \ {0}

VARIABLES
    next,       \* the next block the producer reads
    cache,      \* heights the block cache serves
    streaming,  \* the producer holds the network stream to the end of the range
    hold,       \* the segment, or before the stream the cached batch, to be reserved
    wait,       \* reserve_charged: "no", or notified().await and why
    throttled,  \* PrefetchWatermarks::throttled
    segments,   \* the channel of durable segments
    cut,        \* the segment the router is cutting
    pending,    \* NetworkBatchAccumulator
    due,        \* the accumulated batch is to be sent
    channel,    \* the batch channel, capacity one
    ahead,      \* the batch being decrypted ahead
    scan,       \* the batch being scanned
    scanned,    \* current_height - 1
    broken,     \* the stream failed; what it delivered is still being used
    trouble     \* failures and reorganisations so far

vars == <<next, cache, streaming, hold, wait, throttled, segments, cut, pending, due, channel, ahead,
          scan, scanned, broken, trouble>>

\* A piece is a run of blocks with the segments (by first block) it came from.
None == [from |-> 1, to |-> 0, of |-> {}]
Empty(p) == p.to < p.from
Piece(a, b, of) == [from |-> a, to |-> b, of |-> of]
BytesOf(a, b) == SumFunctionOnSet(Size, a..b)
Bytes(p) == BytesOf(p.from, p.to)

Init ==
    /\ next = 1 /\ cache = 1..CachedTo /\ streaming = FALSE /\ hold = None
    /\ wait = "no" /\ throttled = FALSE /\ segments = <<>>
    /\ cut = None /\ pending = None /\ due = FALSE
    /\ channel = None /\ ahead = None /\ scan = None
    /\ scanned = 0 /\ broken = FALSE /\ trouble = 0

-----------------------------------------------------------------------------
(* PrefetchWatermarks.  A segment is [from, to, charge] once reserved.     *)

SegmentRange(s) == s.from..s.to
Live == {segments[i] : i \in DOMAIN segments}
        \cup UNION {p.of : p \in {cut, pending, channel, ahead, scan}}
Queued == SumFunctionOnSet([s \in Live |-> s.charge], Live)

AdmissionBytes == Max({HighBytes - LowBytes, 1})
\* A segment is cut at the admission size (produce_prefetched_batches), a batch
\* target is clamped to the batch cap, and prefetched_batch_encoded_byte_cap
\* keeps that within the queue.
ASSUME FlowCapsAssumption == SegmentBytes <= AdmissionBytes /\ Targets \subseteq 1..HighBytes

DurableCharge(n) == Min({n, AdmissionBytes})     \* reserve_durable_segment
CachedCharge(n) == Min({n, HighBytes})           \* reserve

Charge == IF streaming THEN DurableCharge(Bytes(hold)) ELSE CachedCharge(Bytes(hold))

Waits == throttled /\ Queued > LowBytes
AdmitsWhileUnder(charge) == Queued < HighBytes   \* mutant
Admits(charge) == Queued + charge <= HighBytes

\* Drop for PrefetchReservationInner, for all that the step lets go of: with one
\* producer both notify_waiters and notify_one wake it.
ReleasedSilently ==   \* mutant
    /\ throttled' = (throttled /\ Queued' > LowBytes)
    /\ wait' = IF Queued' > LowBytes THEN "no" ELSE wait
Released ==
    /\ throttled' = (throttled /\ Queued' > LowBytes)
    /\ wait' = "no"

-----------------------------------------------------------------------------
(* The producer.                                                           *)

producerVars == <<next, cache, streaming, hold>>
waterVars == <<wait, throttled>>
streamVars == <<segments, cut, pending, due>>
scannerVars == <<channel, ahead, scan, scanned>>

\* A network segment: validated, stored in the cache unless the store fails,
\* not yet reserved.  It ends at the byte or block ceiling or where the stream
\* broke off.  The stream starts where the cache ends and is then kept.
Fetch ==
    /\ Empty(hold) /\ next <= LastBlock /\ ~broken
    /\ streaming \/ (next \notin cache /\ ~due)
    /\ streaming' = TRUE
    /\ \E to \in next..LastBlock :
         /\ to = next \/ BytesOf(next, to) <= SegmentBytes
         /\ hold' = Piece(next, to, {})
         /\ next' = to + 1
         /\ cache' \in {cache, cache \cup next..to}
    /\ UNCHANGED <<waterVars, streamVars, scannerVars, broken, trouble>>

\* The cache serves the next batch itself, once the one before is sent.
CachedBatch ==
    /\ ~streaming /\ Empty(hold) /\ ~due /\ next \in cache
    /\ \E to \in next..LastBlock : \E target \in Targets :
         /\ next..to \subseteq cache
         /\ to = next \/ BytesOf(next, to) <= target
         /\ hold' = Piece(next, to, {})
         /\ next' = to + 1
    /\ UNCHANGED <<cache, streaming, waterVars, streamVars, scannerVars, broken, trouble>>

\* reserve_charged succeeds.  A segment goes to the router, a cached batch is sent.
Reserve ==
    /\ ~Empty(hold) /\ wait = "no" /\ ~Waits /\ Admits(Charge)
    /\ LET s == [from |-> hold.from, to |-> hold.to, charge |-> Charge]
       IN IF streaming THEN segments' = Append(segments, s) /\ UNCHANGED <<pending, due>>
          ELSE pending' = Piece(hold.from, hold.to, {s}) /\ due' = TRUE /\ UNCHANGED segments
    /\ throttled' = (throttled /\ Queued > LowBytes)
    /\ hold' = None
    /\ UNCHANGED <<next, cache, streaming, wait, cut, scannerVars, broken, trouble>>

\* It waits: the queue must drain first, or the exchange failed although the
\* charge fits.  compare_exchange_weak may fail by itself or because of a Drop, of
\* which the wait is then notified: that order is Throttle followed by the Drop.
\* A permit left by an earlier notify_one only makes the loop read the same state
\* again.
Throttle ==
    /\ ~Empty(hold) /\ wait = "no"
    /\ wait' = IF Waits \/ ~Admits(Charge) THEN "full" ELSE "missed"
    /\ throttled' = TRUE
    /\ UNCHANGED <<producerVars, streamVars, scannerVars, broken, trouble>>

-----------------------------------------------------------------------------
(* The router (produce_prefetched_batches).                                *)

TakeSegment ==
    /\ Empty(cut) /\ ~due /\ segments # <<>>
    /\ LET s == Head(segments) IN cut' = Piece(s.from, s.to, {s})
    /\ segments' = Tail(segments)
    /\ UNCHANGED <<producerVars, waterVars, pending, due, scannerVars, broken, trouble>>

\* local_batch_prefix_len: as many blocks as fit; one at least into an empty
\* batch, none when the batch must go first.
PrefixLen(batch, seg, target) ==
    LET fits(n) == Bytes(batch) + BytesOf(seg.from, seg.from + n - 1) <= target
        n == Max({k \in 0..(1 + seg.to - seg.from) : k = 0 \/ fits(k)})
    IN IF Bytes(batch) >= target THEN 0
       ELSE IF n = 0 /\ Empty(batch) THEN 1 ELSE n

Joined(batch, seg, n) ==
    Piece(IF Empty(batch) THEN seg.from ELSE batch.from, seg.from + n - 1, batch.of \cup seg.of)

\* A piece joins the batch with a clone of the segment's reservation.
Cut ==
    /\ ~Empty(cut) /\ ~due
    /\ \E target \in Targets :
         LET n == PrefixLen(pending, cut, target)
             left == Piece(cut.from + n, cut.to, cut.of)
         IN IF n = 0 THEN due' = TRUE /\ UNCHANGED <<cut, pending>>
            ELSE /\ pending' = Joined(pending, cut, n)
                 /\ cut' = IF Empty(left) THEN None ELSE left
                 /\ due' = (Bytes(pending') >= target)
    /\ UNCHANGED <<producerVars, waterVars, segments, scannerVars, broken, trouble>>

\* The stream is over: what has accumulated is sent.
StreamOver == (broken \/ next > LastBlock) /\ Empty(hold) /\ segments = <<>> /\ Empty(cut)
LastBatch ==
    /\ StreamOver /\ ~Empty(pending) /\ ~due
    /\ due' = TRUE
    /\ UNCHANGED <<producerVars, waterVars, segments, cut, pending, scannerVars, broken, trouble>>

SendBatch ==
    /\ due /\ Empty(channel)
    /\ channel' = pending
    /\ pending' = None /\ due' = FALSE
    /\ UNCHANGED <<producerVars, waterVars, segments, cut, ahead, scan, scanned, broken, trouble>>

-----------------------------------------------------------------------------
(* The scanner.                                                            *)

upstream == <<producerVars, streamVars, broken, trouble>>

\* receive_prefetch_batch: the batch decrypted ahead, else the channel's.
ScanTake ==
    /\ Empty(scan)
    /\ \/ ~Empty(ahead) /\ scan' = ahead /\ ahead' = None /\ UNCHANGED channel
       \/ Empty(ahead) /\ ~Empty(channel) /\ scan' = channel /\ channel' = None /\ UNCHANGED ahead
    /\ UNCHANGED <<upstream, waterVars, scanned>>

\* start_one_batch_decrypt_lookahead
LookAhead ==
    /\ ~Empty(scan) /\ Empty(ahead) /\ ~Empty(channel)
    /\ ahead' = channel /\ channel' = None
    /\ UNCHANGED <<upstream, waterVars, scan, scanned>>

\* The batch is committed and dropped with its reservations.
ScanDone ==
    /\ ~Empty(scan)
    /\ scanned' = scan.to
    /\ scan' = None
    /\ UNCHANGED <<upstream, channel, ahead>>
    /\ IF Live' = Live THEN UNCHANGED waterVars ELSE Released

\* The stream fails; the segments already handed on are still used.
StreamFails ==
    /\ ~broken /\ Empty(hold) /\ streaming /\ next <= LastBlock /\ trouble < MaxTrouble
    /\ trouble' = trouble + 1
    /\ broken' = TRUE
    /\ UNCHANGED <<producerVars, waterVars, streamVars, scannerVars>>

\* The error reaches the scanner behind the last batch: a new producer starts
\* after the last scanned block.
DroppedKeepsChannel(from) ==   \* mutant
    /\ next' = from /\ streaming' = FALSE
    /\ hold' = None /\ segments' = <<>> /\ cut' = None /\ pending' = None /\ due' = FALSE
    /\ ahead' = None /\ scan' = None /\ broken' = FALSE /\ UNCHANGED channel
Dropped(from) ==
    /\ next' = from /\ streaming' = FALSE
    /\ hold' = None /\ segments' = <<>> /\ cut' = None /\ pending' = None /\ due' = FALSE
    /\ channel' = None /\ ahead' = None /\ scan' = None /\ broken' = FALSE
Restart ==
    /\ broken /\ StreamOver /\ \A p \in {pending, channel, ahead, scan} : Empty(p)
    /\ Dropped(scanned + 1)
    /\ UNCHANGED <<cache, waterVars, scanned, trouble>>

\* The next batch does not follow the scanned chain: everything fetched is
\* dropped, the cache above the common ancestor too, and the scan goes back.
Rewind ==
    /\ ~Empty(scan) /\ trouble < MaxTrouble
    /\ trouble' = trouble + 1
    /\ \E h \in 0..scanned : scanned' = h /\ cache' = cache \cap 1..h /\ Dropped(h + 1)
    /\ wait' = "no" /\ throttled' = FALSE

Producer == Fetch \/ CachedBatch \/ Reserve \/ Throttle
Router == TakeSegment \/ Cut \/ LastBatch \/ SendBatch
Scanner == ScanTake \/ LookAhead \/ ScanDone \/ Restart
Next == Producer \/ Router \/ Scanner \/ StreamFails \/ Rewind

\* Three tasks, each scheduled whenever it can run.
Fairness == WF_vars(Producer) /\ WF_vars(Router) /\ WF_vars(Scanner)
Spec == Init /\ [][Next]_vars /\ Fairness

-----------------------------------------------------------------------------
\* The shape of the state.
TypeOK ==
    /\ next \in 1..LastBlock + 1 /\ scanned \in 0..LastBlock /\ trouble \in 0..MaxTrouble
    /\ {throttled, due, broken, streaming} \subseteq BOOLEAN /\ cache \subseteq 1..LastBlock
    /\ wait \in {"no", "full", "missed"}
    /\ \A p \in {hold, cut, pending, channel, ahead, scan} : Empty(p) \/ (p.from >= 1 /\ p.to <= LastBlock)

\* Behind the scanner the pieces follow one another: no block is skipped or
\* delivered twice on its way through three tasks, retries and rewinds.
Queue == <<scan, ahead, channel, pending, cut>> \o
         [i \in DOMAIN segments |-> Piece(segments[i].from, segments[i].to, {})] \o <<hold>>
Filled == {i \in DOMAIN Queue : ~Empty(Queue[i])}
InOrder ==
    /\ \A i \in Filled : LET before == {j \in Filled : j < i}
                         IN Queue[i].from = IF before = {} THEN scanned + 1
                                            ELSE Queue[Max(before)].to + 1
    /\ ~broken /\ Filled # {} => Queue[Max(Filled)].to = next - 1
    /\ ~broken /\ Filled = {} => next = scanned + 1

\* A block counts up to the admission size; Admitted are the blocks held past
\* admission, that is in any place but the producer's hand.
Weight == [h \in 1..LastBlock |-> Min({Size[h], AdmissionBytes})]
Admitted == UNION {Queue[i].from..Queue[i].to : i \in Filled \ {Len(Queue)}}

\* The memory bound is real: however reservations are shared between pieces,
\* the blocks held past admission weigh no more than the high water mark.
MemoryBounded == SumFunctionOnSet(Weight, Admitted) <= HighBytes

\* The producer waits for room while every reservation is held by a batch that is
\* short of its target and will not be sent before more blocks come.
HeldByBatch == wait = "full" /\ Queued > LowBytes /\ Live \subseteq pending.of /\ ~due

\* No notification is lost: every block is scanned in the end, unless the producer
\* waits behind a partial batch (see NotHeldForEver) or missed its exchange with
\* nothing left to be dropped.
Drains == <>[](scanned = LastBlock \/ HeldByBatch \/ wait = "missed")

\* reserve_durable_segment promises that what it charges "cannot wait forever
\* behind a partial local batch".
NotHeldForEver == []<>~HeldByBatch
=============================================================================
