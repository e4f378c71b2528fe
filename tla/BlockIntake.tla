---------------------------- MODULE BlockIntake ----------------------------
(***************************************************************************)
(* Downloading one range of compact blocks (client.rs, ordered_stream.rs). *)
(* A pool of servers is probed for agreement on a common block.  While the *)
(* probe runs the primary serves a stripe at a time; then, if the range is *)
(* long enough, stripes of it are fetched from several servers at once and *)
(* put in order; the rest comes from one server after another, in rounds.  *)
(*                                                                         *)
(* One assembler sees every block: it accepts only the next height with    *)
(* the right parent and hands out chunks.  A stripe worker may hold only   *)
(* so many bytes that the coordinator has not put in order yet.            *)
(*                                                                         *)
(* A server follows one of two branches, equal below ForkAt.  A block is   *)
(* its height and branch and counts as one byte.                           *)
(***************************************************************************)
EXTENDS Integers, Sequences, FiniteSets, FiniteSetsExt, SequencesExt

CONSTANTS
    Sources,        \* the configured servers
    Primary,        \* endpoint 0
    RangeEnd,       \* the range is 1..RangeEnd
    StripeBlocks,   \* HISTORICAL_STRIPE_BLOCKS
    StableEnd,      \* last height all tips have left behind by the tip margin
    Permits,        \* historical_source_buffer_bytes
    SegmentBlocks,  \* the ceiling of the assembler's chunks
    MaxAttempts,    \* retry.max_attempts
    SourceFailures, \* HISTORICAL_STRIPE_SOURCE_FAILURES
    ForkAt,         \* lowest height at which the branches differ
    MaxSwitches     \* bound: servers that change their branch

ASSUME IntakeSetsAssumption == Primary \in Sources /\ IsFiniteSet(Sources)
ASSUME IntakeBoundsAssumption ==
    /\ {RangeEnd, StripeBlocks, Permits, SegmentBlocks, MaxAttempts, SourceFailures} \subseteq Nat \ {0}
    /\ {StableEnd, ForkAt, MaxSwitches} \subseteq Nat /\ StableEnd <= RangeEnd

VARIABLES
    serves,    \* the branch each server follows
    switches,  \* branch changes so far
    pool,      \* EndpointPoolState: probed, healthy
    asm,       \* OrderedBlockAssembler: next, part, prev; and what it has sent
    stage,     \* where produce_compact_block_chunks is
    rest,      \* stream_remaining_with_failover
    stripe,    \* the coordinator of stream_historical_stripes
    worker,    \* run_historical_stripe_worker, one per server
    events     \* the workers' event channel

vars == <<serves, switches, pool, asm, stage, rest, stripe, worker, events>>

Branches == {1, 2}
End == RangeEnd + 1                                        \* end_exclusive
Block(b, h) == <<h, IF h < ForkAt THEN 1 ELSE b>>
NoBlock == <<0, 0>>
Follows(blk, prev) == prev = NoBlock \/ prev = Block(blk[2], blk[1] - 1)
Blocks(s, from, n) == [i \in 1..n |-> Block(serves[s], from + i - 1)]

NoRange == [start |-> 0, end |-> 0, attempt |-> 0]
\* at: "idle" waits for a command, "run" streams, "hold" waits for permits
AtRest == [at |-> "idle", range |-> NoRange, next |-> 0, prev |-> NoBlock, chunk |-> <<>>]
NoStripes == [at |-> "off", idle |-> <<>>, disabled |-> {}, failed |-> [s \in Sources |-> 0],
              pending |-> <<>>, unassigned |-> 0, active |-> 0, end |-> 0, buffered |-> {}]
NoRest == [at |-> "off", end |-> 0, round |-> 0, left |-> {}, from |-> Primary]
Over == {"done", "failed", "cancelled"}

Init ==
    /\ serves \in [Sources -> Branches]
    /\ switches = 0
    /\ pool = [probed |-> FALSE, healthy |-> {}, failures |-> [s \in Sources |-> 0]]
    /\ asm = [next |-> 1, part |-> <<>>, prev |-> NoBlock, sent |-> <<>>, ok |-> TRUE]
    /\ stage = "prefix" /\ rest = NoRest /\ stripe = NoStripes
    /\ worker = [s \in Sources |-> AtRest] /\ events = <<>>

\* External: a server changes to the other branch.
Switch ==
    /\ stage \notin Over /\ switches < MaxSwitches
    /\ switches' = switches + 1
    /\ \E s \in Sources : serves' = [serves EXCEPT ![s] = 3 - @]
    /\ UNCHANGED <<pool, asm, stage, rest, stripe, worker, events>>

-----------------------------------------------------------------------------
(* OrderedBlockAssembler.                                                  *)

TakePartial(a) == [a EXCEPT !.sent = @ \o a.part, !.part = <<>>]

\* push: the next height with the right parent; after a refusal nothing more.
FitsHeightOnly(a, blk) == blk[1] = a.next   \* mutant
Fits(a, blk) == blk[1] = a.next /\ Follows(blk, a.prev)
Push(a, blk) ==
    IF ~a.ok \/ ~Fits(a, blk) THEN [a EXCEPT !.ok = FALSE]
    ELSE LET b == [a EXCEPT !.next = @ + 1, !.prev = blk, !.part = Append(@, blk)]
         IN IF Len(b.part) >= SegmentBlocks THEN TakePartial(b) ELSE b
PushAll(a, chunk) ==
    LET after[i \in 0..Len(chunk)] == IF i = 0 THEN a ELSE Push(after[i - 1], chunk[i])
    IN after[Len(chunk)]
Restored(a) == [a EXCEPT !.ok = TRUE]

-----------------------------------------------------------------------------
(* The endpoint pool.                                                      *)

AnchorHash(s) == Block(serves[s], StableEnd)

\* The primary's block if it answered, else one that a majority has.
CanonicalAnchor(answered) ==
    LET count(b) == Cardinality({s \in answered : AnchorHash(s) = b})
    IN IF Primary \in answered THEN {AnchorHash(Primary)}
       ELSE {b \in {AnchorHash(s) : s \in answered} :
               Cardinality(answered) <= 1 \/ 2 * count(b) > Cardinality(answered)}

\* probe_endpoints_owned: who answered, and agrees with the canonical block.
Validated(answered) ==
    [pool EXCEPT !.probed = TRUE,
                 !.healthy = {s \in answered : AnchorHash(s) \in CanonicalAnchor(answered)}]

\* The first probe runs beside the download.
PoolProbed ==
    /\ ~pool.probed /\ stage \notin Over
    /\ \E answered \in SUBSET Sources : pool' = Validated(answered)
    /\ UNCHANGED <<serves, switches, asm, stage, rest, stripe, worker, events>>

Failure(p, s) == [p EXCEPT !.failures[s] = Min({@ + 1, SourceFailures})]
Success(p, s) == [p EXCEPT !.failures[s] = 0]

-----------------------------------------------------------------------------
(* stream_remaining_with_failover: up to MaxAttempts rounds over the       *)
(* candidates, each resuming where the assembler stands.                   *)

outside == <<serves, switches>>
stripes == <<stripe, worker, events>>
Opened(end) == [NoRest EXCEPT !.at = "order", !.end = end]

\* produce_compact_block_chunks, the loop before the pool is known.
PrefixStep ==
    /\ stage = "prefix" /\ rest.at = "off"
    /\ ~pool.probed /\ asm.next < End /\ RangeEnd >= 2 * StripeBlocks
    /\ rest' = Opened(Min({asm.next + StripeBlocks, End}))
    /\ UNCHANGED <<outside, pool, asm, stage, stripes>>

RestGoesOn == rest.at = "order" /\ asm.next < rest.end /\ rest.round < MaxAttempts

\* candidate_order: an unprobed pool has the primary only; otherwise healthy
\* servers whose tip is high enough.
RestOrder ==
    /\ RestGoesOn
    /\ \E tall \in SUBSET pool.healthy :
         rest' = [rest EXCEPT !.at = "try", !.left = IF pool.probed THEN tall ELSE {Primary}]
    /\ UNCHANGED <<outside, pool, asm, stage, stripes>>

\* The next candidate has a channel, or not.
RestTry ==
    /\ rest.at = "try"
    /\ \E s \in rest.left :
         \/ /\ rest' = [rest EXCEPT !.at = "stream", !.from = s, !.left = @ \ {s}]
            /\ UNCHANGED pool
         \/ /\ rest' = [rest EXCEPT !.left = @ \ {s}]
            /\ pool' = Failure(pool, s)
    /\ UNCHANGED <<outside, asm, stage, stripes>>

\* stream_compact_blocks_once: one block.
RestBlock ==
    /\ rest.at = "stream" /\ asm.next < rest.end
    /\ LET blk == Block(serves[rest.from], asm.next)
       IN Fits(asm, blk) /\ asm' = Push(asm, blk)
    /\ UNCHANGED <<outside, pool, stage, rest, stripes>>

\* The stream stalls, ends early or does not follow: the validated part goes
\* out and the next candidate resumes.
RestError ==
    /\ rest.at = "stream" /\ asm.next < rest.end
    /\ asm' = TakePartial(asm)
    /\ pool' = Failure(pool, rest.from)
    /\ rest' = [rest EXCEPT !.at = "try"]
    /\ UNCHANGED <<outside, stage, stripes>>

\* All candidates have failed: rebuild the pool and go round again.
RestRound ==
    /\ rest.at = "try" /\ rest.left = {}
    /\ rest' = [rest EXCEPT !.at = "order", !.round = @ + 1]
    /\ IF rest.round + 1 < MaxAttempts
       THEN \/ UNCHANGED pool
            \/ \E answered \in SUBSET Sources : pool' = Validated(answered)
       ELSE UNCHANGED pool
    /\ UNCHANGED <<outside, asm, stage, stripes>>

\* The part asked for is complete; at the end of the range finish() sends
\* what is left.
RestComplete ==
    /\ rest.at \in {"order", "stream"} /\ asm.next >= rest.end
    /\ pool' = IF rest.at = "stream" THEN Success(pool, rest.from) ELSE pool
    /\ rest' = NoRest
    /\ IF stage = "rest" THEN stage' = "done" /\ asm' = TakePartial(asm)
       ELSE UNCHANGED <<stage, asm>>
    /\ UNCHANGED <<outside, stripes>>

\* The rounds are used up, or the status code forbids a retry.
RestFails ==
    /\ \/ rest.at = "order" /\ asm.next < rest.end /\ rest.round >= MaxAttempts
       \/ rest.at = "stream" /\ asm.next < rest.end
    /\ stage' = "failed"
    /\ rest' = NoRest
    /\ UNCHANGED <<outside, pool, asm, stripes>>

-----------------------------------------------------------------------------
(* stream_historical_stripes.                                              *)

StripeSources == {s \in pool.healthy : pool.failures[s] < SourceFailures}
\* historical_stripe_plan; the order of the sources by speed is left out.
CanStripe == Cardinality(StripeSources) >= 2 /\ StableEnd + 1 - asm.next >= 2 * StripeBlocks

PrefixDone ==
    /\ stage = "prefix" /\ rest.at = "off"
    /\ pool.probed \/ asm.next >= End \/ RangeEnd < 2 * StripeBlocks
    /\ stage' = IF CanStripe THEN "stripe" ELSE "rest"
    /\ stripe' = IF ~CanStripe THEN stripe
                 ELSE [NoStripes EXCEPT !.at = "assign", !.idle = SetToSeq(StripeSources),
                                        !.unassigned = asm.next, !.end = StableEnd + 1]
    /\ rest' = IF CanStripe THEN rest ELSE Opened(End)
    /\ UNCHANGED <<outside, pool, asm, worker, events>>

\* Striping ends, in order or not: the workers are aborted, their buffers
\* freed, and one server goes on from the assembler's height.  An error that
\* forbids a retry ends the download.
LeaveStriping(next) ==
    /\ stage' = next
    /\ rest' = IF next = "rest" THEN Opened(End) ELSE rest
    /\ stripe' = NoStripes
    /\ worker' = [s \in Sources |-> AtRest]
    /\ events' = <<>>

\* An idle worker gets a returned range, or the next stripe.
HasRange == stripe.pending # <<>> \/ stripe.unassigned < stripe.end
NextStripe == [start |-> stripe.unassigned, attempt |-> 1,
               end |-> Min({stripe.unassigned + StripeBlocks, stripe.end})]
Assign ==
    /\ stripe.at = "assign" /\ stripe.idle # <<>> /\ HasRange
    /\ LET s == Head(stripe.idle)
           back == stripe.pending # <<>>
           range == IF back THEN Head(stripe.pending) ELSE NextStripe
       IN /\ worker' = [worker EXCEPT ![s] = [AtRest EXCEPT !.at = "run", !.range = range,
                                                            !.next = range.start]]
          /\ stripe' = [stripe EXCEPT !.idle = Tail(@), !.active = @ + 1,
                          !.pending = IF back THEN Tail(@) ELSE @,
                          !.unassigned = IF back THEN @ ELSE range.end]
    /\ UNCHANGED <<outside, pool, asm, stage, rest, events>>
AssignDone ==
    /\ stripe.at = "assign" /\ (stripe.idle = <<>> \/ ~HasRange)
    /\ stripe' = [stripe EXCEPT !.at = "flush"]
    /\ UNCHANGED <<outside, pool, asm, stage, rest, worker, events>>

\* flush_canonical_stripe_chunks: the chunk at the assembler's height.
Ready == {c \in stripe.buffered : c.chunk[1][1] = asm.next}
Flush ==
    /\ stripe.at \in {"flush", "leave"} /\ Ready # {}
    /\ LET c == CHOOSE c \in Ready : TRUE
           a == PushAll(asm, c.chunk)
       IN /\ asm' = Restored(a)
          /\ IF a.ok
             THEN /\ stripe' = [stripe EXCEPT !.buffered = @ \ {c}]
                  /\ UNCHANGED <<stage, rest, worker, events>>
             ELSE LeaveStriping("rest")
    /\ UNCHANGED <<outside, pool>>

\* Nothing more to flush: the end, nobody at work, or wait for an event.
FlushDone ==
    /\ stripe.at = "flush" /\ Ready = {}
    /\ IF asm.next >= stripe.end \/ stripe.active = 0
       THEN LeaveStriping("rest")
       ELSE /\ stripe' = [stripe EXCEPT !.at = "wait"]
            /\ UNCHANGED <<stage, rest, worker, events>>
    /\ UNCHANGED <<outside, pool, asm>>
Leave ==
    /\ stripe.at = "leave" /\ Ready = {}
    /\ \E next \in {"rest", "failed"} : LeaveStriping(next)
    /\ UNCHANGED <<outside, pool, asm>>

\* A chunk arrives; an overlap with what is known is an error.
Overlaps(c) == c.chunk[1][1] < asm.next \/ \E d \in stripe.buffered : d.chunk[1][1] = c.chunk[1][1]
OnChunk ==
    /\ stripe.at = "wait" /\ events # <<>> /\ Head(events).kind = "chunk"
    /\ LET e == Head(events) IN
         IF Overlaps(e) THEN LeaveStriping("rest")
         ELSE /\ stripe' = [stripe EXCEPT !.at = "assign",
                              !.buffered = @ \cup {[by |-> e.by, chunk |-> e.chunk]}]
              /\ events' = Tail(events)
              /\ UNCHANGED <<stage, rest, worker>>
    /\ UNCHANGED <<outside, pool, asm>>

Completed(st, s) ==
    [st EXCEPT !.at = "assign", !.active = @ - 1, !.failed[s] = 0, !.idle = Append(@, s)]
OnComplete ==
    /\ stripe.at = "wait" /\ events # <<>> /\ Head(events).kind = "complete"
    /\ stripe' = Completed(stripe, Head(events).by)
    /\ pool' = Success(pool, Head(events).by)
    /\ events' = Tail(events)
    /\ UNCHANGED <<outside, asm, stage, rest, worker>>

\* should_leave_historical_striping
ShouldLeaveAttemptsOnly(range, failures) == range.attempt >= MaxAttempts   \* mutant
ShouldLeave(range, failures) == range.attempt >= MaxAttempts \/ failures >= SourceFailures

ResumeSkipsOne(range, resume) == [range EXCEPT !.start = resume + 1, !.attempt = @ + 1]   \* mutant
Resumed(range, resume) == [range EXCEPT !.start = resume, !.attempt = @ + 1]

\* A worker failed: the rest of its range goes back to the front of the
\* queue, or striping is given up.
OnFailed ==
    /\ stripe.at = "wait" /\ events # <<>> /\ Head(events).kind = "failed"
    /\ LET e == Head(events)
           failures == stripe.failed[e.by] + 1
           out == failures >= SourceFailures
       IN stripe' =
            IF ShouldLeave(e.range, failures) THEN [stripe EXCEPT !.at = "leave"]
            ELSE [stripe EXCEPT !.at = "assign", !.active = @ - 1, !.failed[e.by] = failures,
                    !.pending = <<Resumed(e.range, e.resume)>> \o @,
                    !.idle = IF out THEN @ ELSE Append(@, e.by),
                    !.disabled = IF out THEN @ \cup {e.by} ELSE @]
    /\ pool' = Failure(pool, Head(events).by)
    /\ events' = Tail(events)
    /\ UNCHANGED <<outside, asm, stage, rest, worker>>

-----------------------------------------------------------------------------
(* run_historical_stripe_worker.                                           *)

Room == Len(events) < 2 * Cardinality(Sources)
Bytes(chunks) == MapThenSumSet(LAMBDA c : Len(c.chunk), chunks)
InFlight(s) == {[by |-> s, chunk |-> events[i].chunk] :
                  i \in {j \in DOMAIN events : events[j].kind = "chunk" /\ events[j].by = s}}
Held(s) == Bytes({c \in stripe.buffered : c.by = s} \cup InFlight(s))

\* The worker's own stream yields a chunk of its range.
WorkerReceive(s) ==
    LET w == worker[s] IN
    /\ w.at = "run" /\ w.next < w.range.end
    /\ \E n \in 1..Min({Permits, w.range.end - w.next}) :
         LET chunk == Blocks(s, w.next, n)
         IN /\ Follows(chunk[1], w.prev)
            /\ worker' = [worker EXCEPT ![s].at = "hold", ![s].chunk = chunk]
    /\ UNCHANGED <<outside, pool, asm, stage, rest, stripe, events>>

\* Permits for its bytes, then the event.
WorkerSend(s) ==
    LET w == worker[s] IN
    /\ w.at = "hold" /\ Held(s) + Len(w.chunk) <= Permits /\ Room
    /\ events' = Append(events, [kind |-> "chunk", by |-> s, range |-> w.range, chunk |-> w.chunk,
                                 resume |-> 0])
    /\ worker' = [worker EXCEPT ![s] = [w EXCEPT !.at = "run", !.next = @ + Len(w.chunk),
                                          !.prev = w.chunk[Len(w.chunk)], !.chunk = <<>>]]
    /\ UNCHANGED <<outside, pool, asm, stage, rest, stripe>>

\* The stream of the range ends: completely, or with an error at some height.
WorkerEnd(s) ==
    LET w == worker[s] IN
    /\ w.at = "run" /\ Room
    /\ events' = Append(events, [kind |-> IF w.next = w.range.end THEN "complete" ELSE "failed",
                                 by |-> s, range |-> w.range, chunk |-> <<>>, resume |-> w.next])
    /\ worker' = [worker EXCEPT ![s] = AtRest]
    /\ UNCHANGED <<outside, pool, asm, stage, rest, stripe>>

\* The consumer drops the channel.
Cancelled ==
    /\ stage \notin Over
    /\ stage' = "cancelled"
    /\ rest' = NoRest /\ stripe' = NoStripes
    /\ worker' = [s \in Sources |-> AtRest] /\ events' = <<>>
    /\ UNCHANGED <<outside, pool, asm>>

Coordinator == Assign \/ AssignDone \/ Flush \/ FlushDone \/ Leave \/ OnChunk \/ OnComplete \/ OnFailed
Worker(s) == WorkerReceive(s) \/ WorkerSend(s) \/ WorkerEnd(s)
Failover == RestOrder \/ RestTry \/ RestBlock \/ RestError \/ RestRound \/ RestComplete \/ RestFails
Download == PrefixStep \/ PrefixDone \/ Failover \/ Coordinator

Next == Download \/ PoolProbed \/ Cancelled \/ Switch \/ \E s \in Sources : Worker(s)

\* The tasks are scheduled, and every remote call has a timeout, so a probe
\* and a stream end in an answer or an error.
Fairness == WF_vars(Download) /\ WF_vars(PoolProbed) /\ \A s \in Sources : WF_vars(Worker(s))
Spec == Init /\ [][Next]_vars /\ Fairness

-----------------------------------------------------------------------------
\* The shape of the state; a partial chunk stays below the ceiling and the
\* counter of active ranges below the number of servers.
TypeOK ==
    /\ serves \in [Sources -> Branches]
    /\ pool.healthy \subseteq Sources /\ pool.failures \in [Sources -> 0..SourceFailures]
    /\ asm.next \in 1..End /\ asm.ok = TRUE /\ Len(asm.part) < SegmentBlocks
    /\ stage \in Over \cup {"prefix", "stripe", "rest"}
    /\ rest.at \in {"off", "order", "try", "stream"} /\ rest.round \in 0..MaxAttempts
    /\ stripe.active \in 0..Cardinality(Sources) /\ Len(stripe.pending) <= Cardinality(Sources)
    /\ \A s \in Sources : worker[s].at \in {"idle", "run", "hold"}

\* What the caller receives is one chain: heights without gap or repetition,
\* every block the child of the one before, however many servers, retries and
\* branch changes it came through; a finished download is the whole range.
DeliveredLinked ==
    LET all == asm.sent \o asm.part
    IN /\ asm.next = Len(all) + 1
       /\ \A i \in DOMAIN all : all[i][1] = i /\ (i > 1 => Follows(all[i], all[i - 1]))
       /\ stage = "done" => Len(asm.sent) = RangeEnd

\* While striping, every height still owed is at exactly one place: not yet
\* assigned, returned, with a worker, on its way or buffered.  None is lost
\* between two workers and none is fetched twice.
Places(h) ==
    Cardinality({i \in DOMAIN stripe.pending :
                   stripe.pending[i].start <= h /\ h < stripe.pending[i].end})
    + Cardinality({s \in Sources : worker[s].next <= h /\ h < worker[s].range.end})
    + Cardinality({i \in DOMAIN events : \/ \E k \in DOMAIN events[i].chunk : events[i].chunk[k][1] = h
                                         \/ events[i].kind = "failed" /\ events[i].resume <= h
                                            /\ h < events[i].range.end})
    + Cardinality({c \in stripe.buffered : \E k \in DOMAIN c.chunk : c.chunk[k][1] = h})
    + (IF h >= stripe.unassigned THEN 1 ELSE 0)
StripesCovered ==
    stripe.at \in {"assign", "flush", "wait"} => \A h \in asm.next..stripe.end - 1 : Places(h) = 1

\* The download always ends, with the range, an error or a cancellation: a
\* failed stripe never leaves the others waiting for ever with full buffers
\* (comment in stream_historical_stripes).
Settles == <>(stage \in Over)
=============================================================================
