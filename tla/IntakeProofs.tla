---------------------------- MODULE IntakeProofs ----------------------------
(***************************************************************************)
(* The download of a range of blocks, and the transport under it, each for *)
(* every value of its constants.                                           *)
(*                                                                         *)
(* BlockIntake: what is delivered is one chain.  The assembler carries the *)
(* argument: its next height and last hash always are those of what it has *)
(* accepted, so a block that fits extends a chain, whoever sent it.  That  *)
(* it never runs past the range needs that no worker, returned range or    *)
(* buffered chunk reaches beyond it, and that a finished download is whole *)
(* needs that only the last stage, asked for the end, can finish it.       *)
(*                                                                         *)
(* BlockIntake: while striping, every height still owed is at one place.   *)
(* That rests on an account of the servers: one that is idle, or whose     *)
(* range has ended and not been heard of, has a worker at rest, and is     *)
(* only once in either list; and on chunks being runs of heights, so that  *)
(* a flushed chunk is exactly what the assembler has moved over.           *)
(*                                                                         *)
(* Transport: a live stream runs over the selected transport.              *)
(* The invariant needs nothing of the generations: the published manager   *)
(* is the only one that is not retired, its configuration is the selected  *)
(* one, and while a selection is under way there is no manager at all.  So *)
(* a request that got its manager long ago holds either a retired one or   *)
(* the published one, built for the configuration it asked for.  That two  *)
(* requests never publish one manager each rests on the initialization     *)
(* lock, which is held from the last look at the old manager on.           *)
(***************************************************************************)
EXTENDS BlockIntake, Transport, Extrema, FiniteSetTheorems

(* The assembler *)

Blks == (1..RangeEnd) \X Branches
Asms == [next : Nat, part : Seq(Blks), prev : Blks \cup {NoBlock}, sent : Seq(Blks), ok : BOOLEAN]

\* Heights 1, 2, ... and every block the child of the one before.
Chained(s) ==
    /\ \A i \in 1..Len(s) : s[i][1] = i
    /\ \A i \in 2..Len(s) : Follows(s[i], s[i - 1])

\* What the assembler has accepted: sent, or waiting for its chunk to fill.
Accepted(a) == a.sent \o a.part
Chain(a) ==
    /\ a \in Asms /\ Chained(Accepted(a))
    /\ a.next = Len(Accepted(a)) + 1
    /\ a.prev = IF Len(Accepted(a)) = 0 THEN NoBlock ELSE Accepted(a)[Len(Accepted(a))]

LEMMA EndIsNat == RangeEnd \in Nat /\ RangeEnd > 0 /\ End \in Nat /\ End = RangeEnd + 1
BY IntakeBoundsAssumption DEF End

LEMMA BlockTyped ==
  ASSUME NEW b \in Branches, NEW h \in 1..RangeEnd
  PROVE  Block(b, h) \in Blks
BY EndIsNat DEF Block, Blks, Branches

LEMMA AcceptedTyped ==
  ASSUME NEW a \in Asms
  PROVE  /\ Accepted(a) \in Seq(Blks)
         /\ Len(Accepted(a)) = Len(a.sent) + Len(a.part)
BY DEF Asms, Accepted

(* The assembler never takes a block beyond the end of the range. *)
LEMMA ChainBounded ==
  ASSUME NEW a, Chain(a)
  PROVE  a.next \in 1..End /\ Len(Accepted(a)) \in 0..RangeEnd
<1>1. Accepted(a) \in Seq(Blks)
  BY AcceptedTyped DEF Chain
<1>2. CASE Len(Accepted(a)) = 0
  BY <1>1, <1>2, EndIsNat DEF Chain
<1>3. CASE Len(Accepted(a)) # 0
  <2> DEFINE n == Len(Accepted(a))
             b == Accepted(a)[n]
  <2>1. n \in Nat /\ n \in 1..n
    BY <1>1, <1>3
  <2>2. b \in Blks
    BY <1>1, <2>1
  <2>3. b[1] = n
    BY <2>1 DEF Chain, Chained
  <2>4. b[1] \in 1..RangeEnd
    BY <2>2 DEF Blks
  <2> QED BY <2>1, <2>3, <2>4, EndIsNat DEF Chain
<1> QED BY <1>2, <1>3

LEMMA TakePartialKeeps ==
  ASSUME NEW a, Chain(a)
  PROVE  /\ Chain(TakePartial(a)) /\ TakePartial(a).ok = a.ok
         /\ TakePartial(a).sent = Accepted(a)
<1> DEFINE t == TakePartial(a)
           none == <<>>
<1>1. a \in Asms
  BY DEF Chain
<1>2. none \in Seq(Blks) /\ Len(none) = 0
  OBVIOUS
<1>3. Accepted(a) \in Seq(Blks)
  BY <1>1, AcceptedTyped
<1>4. /\ t \in Asms /\ t.sent = Accepted(a) /\ t.part = none /\ t.next = a.next
      /\ t.prev = a.prev /\ t.ok = a.ok
  <2> HIDE DEF none
  <2>1. t = [a EXCEPT !.sent = Accepted(a), !.part = none]
    BY <1>1 DEF TakePartial, Accepted, none, Asms
  <2> HIDE DEF t
  <2> QED BY <1>1, <1>2, <1>3, <2>1 DEF Asms
<1>5. Accepted(t) = Accepted(a)
  <2>1. Accepted(a) \o none = Accepted(a)
    BY <1>3
  <2> HIDE DEF none, t
  <2> QED BY <1>4, <2>1 DEF Accepted
<1> HIDE DEF t
<1>6. Chain(t)
  BY <1>4, <1>5 DEF Chain
<1> QED BY <1>4, <1>6 DEF t

LEMMA PushKeeps ==
  ASSUME NEW a, Chain(a), NEW blk \in Blks
  PROVE  Chain(Push(a, blk))
<1>1. a \in Asms
  BY DEF Chain
<1>2. Accepted(a) \in Seq(Blks)
  BY <1>1, AcceptedTyped
<1>3. CASE ~a.ok \/ ~Fits(a, blk)
  <2> DEFINE r == [a EXCEPT !.ok = FALSE]
  <2>1. Push(a, blk) = r
    BY <1>3 DEF Push
  <2>2. r \in Asms /\ r.sent = a.sent /\ r.part = a.part /\ r.next = a.next /\ r.prev = a.prev
    BY <1>1 DEF Asms
  <2> HIDE DEF r
  <2>3. Accepted(r) = Accepted(a)
    BY <2>2 DEF Accepted
  <2> QED BY <2>1, <2>2, <2>3 DEF Chain
<1>4. CASE a.ok /\ Fits(a, blk)
  <2> DEFINE more == Append(a.part, blk)
             b == [a EXCEPT !.next = @ + 1, !.prev = blk, !.part = Append(@, blk)]
             old == Accepted(a)
             new == Append(old, blk)
  <2>1. more \in Seq(Blks)
    BY <1>1 DEF Asms
  <2>2. /\ b \in Asms /\ b.sent = a.sent /\ b.part = more /\ b.next = a.next + 1
        /\ b.prev = blk /\ b.ok = a.ok
    <3>1. b = [a EXCEPT !.next = a.next + 1, !.prev = blk, !.part = more]
      BY <1>1 DEF Asms
    <3> DEFINE k == a.next + 1
    <3>2. k \in Nat
      BY <1>1 DEF Asms
    <3>3. blk \in Blks \cup {NoBlock}
      OBVIOUS
    <3>4. b = [a EXCEPT !.next = k, !.prev = blk, !.part = more]
      BY <3>1
    <3> HIDE DEF more, b, k
    <3>5. b \in Asms
      BY <1>1, <2>1, <3>2, <3>3, <3>4 DEF Asms
    <3>6. b.sent = a.sent /\ b.part = more /\ b.next = k /\ b.prev = blk /\ b.ok = a.ok
      BY <1>1, <3>4 DEF Asms
    <3> QED BY <3>5, <3>6 DEF k
  <2>3. Accepted(b) = new
    <3>1. a.sent \o Append(a.part, blk) = Append(a.sent \o a.part, blk)
      BY <1>1 DEF Asms
    <3> QED BY <2>2, <3>1 DEF Accepted
  <2>4. blk[1] = Len(old) + 1 /\ Follows(blk, a.prev)
    BY <1>4 DEF Fits, Chain
  <2>5. /\ new \in Seq(Blks) /\ Len(new) = Len(old) + 1 /\ new[Len(new)] = blk
        /\ \A i \in 1..Len(old) : new[i] = old[i]
        /\ Len(old) \in Nat
    BY <1>2
  <2> HIDE DEF b, old, new
  <2>6. Chained(old) /\ (Len(old) # 0 => a.prev = old[Len(old)])
    BY DEF Chain, old
  <2>7. Chained(new)
    <3>1. \A i \in 1..Len(new) : new[i][1] = i
      BY <2>4, <2>5, <2>6 DEF Chained
    <3>2. ASSUME NEW i \in 2..Len(new) PROVE Follows(new[i], new[i - 1])
      <4>1. CASE i \in 2..Len(old)
        <5>1. new[i] = old[i] /\ new[i - 1] = old[i - 1]
          BY <2>5, <4>1
        <5> QED BY <2>6, <4>1, <5>1 DEF Chained
      <4>2. CASE i = Len(new)
        <5>1. Len(old) # 0 /\ i - 1 = Len(old) /\ Len(old) \in 1..Len(old)
          BY <2>5, <4>2
        <5>2. new[i] = blk /\ new[i - 1] = a.prev
          BY <2>5, <2>6, <4>2, <5>1
        <5> QED BY <2>4, <5>2
      <4> QED BY <2>5, <4>1, <4>2
    <3> QED BY <3>1, <3>2 DEF Chained
  <2>8. Chain(b)
    <3>1. b.next = Len(new) + 1
      BY <2>2, <2>5 DEF Chain, old
    <3>2. Len(new) # 0
      BY <2>5
    <3> QED BY <2>2, <2>3, <2>5, <2>7, <3>1, <3>2 DEF Chain
  <2>9. Push(a, blk) = IF Len(b.part) >= SegmentBlocks THEN TakePartial(b) ELSE b
    BY <1>4 DEF Push, b
  <2> QED BY <2>8, <2>9, TakePartialKeeps
<1> QED BY <1>3, <1>4

LEMMA FittingKeepsOk ==
  ASSUME NEW a, Chain(a), a.ok, NEW blk \in Blks, Fits(a, blk)
  PROVE  Push(a, blk).ok
<1> DEFINE b == [a EXCEPT !.next = @ + 1, !.prev = blk, !.part = Append(@, blk)]
<1>1. b.ok
  BY DEF Chain, Asms
<1>2. TakePartial(b).ok
  BY <1>1 DEF TakePartial, Chain, Asms
<1>3. Push(a, blk) = IF Len(b.part) >= SegmentBlocks THEN TakePartial(b) ELSE b
  BY DEF Push
<1> HIDE DEF b
<1> QED BY <1>1, <1>2, <1>3

LEMMA RestoredKeeps ==
  ASSUME NEW a, Chain(a)
  PROVE  Chain(Restored(a)) /\ Restored(a).ok
<1> DEFINE r == Restored(a)
<1>1. r \in Asms /\ r.sent = a.sent /\ r.part = a.part /\ r.next = a.next /\ r.prev = a.prev /\ r.ok
  BY DEF Chain, Asms, Restored
<1> HIDE DEF r
<1>2. Accepted(r) = Accepted(a)
  BY <1>1 DEF Accepted
<1>3. Chain(r)
  BY <1>1, <1>2 DEF Chain
<1> QED BY <1>1, <1>3 DEF r

(* push for the blocks of a chunk, one after the other: what PushAll chooses *)
(* exists, and every prefix keeps the chain.                                 *)
LEMMA PushAllRuns ==
  ASSUME NEW a, NEW chunk \in Seq(Blks)
  PROVE  \E after : /\ after[0] = a /\ PushAll(a, chunk) = after[Len(chunk)]
                    /\ \A i \in 1..Len(chunk) : after[i] = Push(after[i - 1], chunk[i])
<1> DEFINE Run(f, n) == f = [i \in 0..n |-> IF i = 0 THEN a ELSE Push(f[i - 1], chunk[i])]
           Stuck == {n \in Nat : ~\E f : Run(f, n)}
           N == Len(chunk)
<1>1. \A n \in Nat : \E f : Run(f, n)
  <2> SUFFICES ASSUME Stuck # {} PROVE FALSE
    OBVIOUS
  <2>1. PICK n \in Stuck : \A m \in Stuck : n <= m
    BY NatMinExists
  <2>2. n \in Nat /\ ~\E f : Run(f, n)
    OBVIOUS
  <2>3. CASE n = 0
    <3> DEFINE g == [i \in 0..0 |-> a]
    <3>1. Run(g, 0)
      OBVIOUS
    <3> QED BY <2>2, <2>3, <3>1
  <2>4. CASE n # 0
    <3>1. n - 1 \in Nat /\ n - 1 \notin Stuck
      <4> HIDE DEF Stuck
      <4> QED BY <2>1, <2>2, <2>4
    <3>2. PICK f : Run(f, n - 1)
      BY <3>1
    <3> DEFINE g == [i \in 0..n |-> IF i = n THEN Push(f[n - 1], chunk[n]) ELSE f[i]]
    <3>3. ASSUME NEW i \in 0..n
          PROVE  g[i] = IF i = 0 THEN a ELSE Push(g[i - 1], chunk[i])
      <4>1. CASE i = 0
        BY <2>2, <2>4, <3>2, <4>1
      <4>2. CASE i # 0 /\ i # n
        BY <2>2, <2>4, <3>2, <4>2
      <4>3. CASE i = n
        BY <2>2, <2>4, <3>2, <4>3
      <4> QED BY <4>1, <4>2, <4>3
    <3>4. Run(g, n)
      <4> DEFINE h == [i \in 0..n |-> IF i = 0 THEN a ELSE Push(g[i - 1], chunk[i])]
      <4>1. g = h
        BY <3>3
      <4> QED BY <4>1
    <3> QED BY <2>2, <3>4
  <2> QED BY <2>3, <2>4
<1>2. N \in Nat
  OBVIOUS
<1> DEFINE after == CHOOSE f : Run(f, N)
<1>3. Run(after, N)
  <2> HIDE DEF Run, N
  <2> QED BY <1>1, <1>2
<1>4. PushAll(a, chunk) = after[N]
  BY DEF PushAll
<1>5. after[0] = a /\ \A i \in 1..N : after[i] = Push(after[i - 1], chunk[i])
  <2> HIDE DEF after
  <2> QED BY <1>2, <1>3
<1> HIDE DEF after
<1> QED BY <1>4, <1>5

LEMMA PushAllKeeps ==
  ASSUME NEW a, Chain(a), NEW chunk \in Seq(Blks)
  PROVE  Chain(PushAll(a, chunk))
<1> DEFINE N == Len(chunk)
<1>1. PICK after : /\ after[0] = a /\ PushAll(a, chunk) = after[N]
                   /\ \A i \in 1..N : after[i] = Push(after[i - 1], chunk[i])
  BY PushAllRuns
<1>2. N \in Nat
  OBVIOUS
<1> DEFINE Broken == {n \in Nat : n <= N /\ ~Chain(after[n])}
<1>6. Broken = {}
  <2> SUFFICES ASSUME Broken # {} PROVE FALSE
    OBVIOUS
  <2>1. PICK n \in Broken : \A m \in Broken : n <= m
    BY NatMinExists
  <2>2. n \in Nat /\ n <= N /\ ~Chain(after[n])
    OBVIOUS
  <2>3. n # 0
    BY <1>1, <2>2
  <2>4. n - 1 \in Nat /\ n - 1 <= N /\ n - 1 \notin Broken
    BY <1>2, <2>1, <2>2, <2>3
  <2>5. Chain(after[n - 1]) /\ chunk[n] \in Blks /\ after[n] = Push(after[n - 1], chunk[n])
    BY <1>1, <1>2, <2>2, <2>3, <2>4
  <2> QED BY <2>2, <2>5, PushKeeps
<1> QED BY <1>1, <1>2, <1>6

LEMMA PushAdvances ==
  ASSUME NEW a, Chain(a), NEW blk \in Blks, Push(a, blk).ok
  PROVE  a.ok /\ Push(a, blk).next = a.next + 1
<1>1. a \in Asms
  BY DEF Chain
<1>2. a.ok /\ Fits(a, blk)
  <2> SUFFICES ASSUME ~(a.ok /\ Fits(a, blk)) PROVE FALSE
    OBVIOUS
  <2>1. Push(a, blk) = [a EXCEPT !.ok = FALSE]
    BY DEF Push
  <2> QED BY <1>1, <2>1 DEF Asms
<1> DEFINE b == [a EXCEPT !.next = @ + 1, !.prev = blk, !.part = Append(@, blk)]
<1>3. b.next = a.next + 1
  BY <1>1 DEF Asms
<1>4. TakePartial(b).next = b.next
  BY <1>1 DEF TakePartial, Asms
<1>5. Push(a, blk) = IF Len(b.part) >= SegmentBlocks THEN TakePartial(b) ELSE b
  BY <1>2 DEF Push
<1> HIDE DEF b
<1> QED BY <1>2, <1>3, <1>4, <1>5

(* A chunk that is accepted as a whole moves the assembler by its length. *)
LEMMA PushAllAdvances ==
  ASSUME NEW a, Chain(a), NEW chunk \in Seq(Blks), PushAll(a, chunk).ok
  PROVE  PushAll(a, chunk).next = a.next + Len(chunk)
<1> DEFINE N == Len(chunk)
<1>1. PICK after : /\ after[0] = a /\ PushAll(a, chunk) = after[N]
                   /\ \A i \in 1..N : after[i] = Push(after[i - 1], chunk[i])
  BY PushAllRuns
<1>2. N \in Nat /\ a.next \in Nat
  BY DEF Chain, Asms
<1> DEFINE Good(n) == Chain(after[n]) /\ (after[n].ok => after[n].next = a.next + n)
           Broken == {n \in Nat : n <= N /\ ~Good(n)}
<1>3. Broken = {}
  <2> SUFFICES ASSUME Broken # {} PROVE FALSE
    OBVIOUS
  <2>1. PICK n \in Broken : \A m \in Broken : n <= m
    BY NatMinExists
  <2>2. n \in Nat /\ n <= N /\ ~Good(n)
    OBVIOUS
  <2>3. n # 0
    BY <1>1, <1>2, <2>2
  <2>4. n - 1 \in Nat /\ n - 1 <= N /\ n - 1 \notin Broken
    BY <1>2, <2>1, <2>2, <2>3
  <2>5. Good(n - 1) /\ chunk[n] \in Blks /\ after[n] = Push(after[n - 1], chunk[n])
    BY <1>1, <1>2, <2>2, <2>3, <2>4
  <2>6. Chain(after[n])
    BY <2>5, PushKeeps
  <2>7. ASSUME after[n].ok PROVE after[n].next = a.next + n
    <3>1. after[n - 1].ok /\ after[n].next = after[n - 1].next + 1
      BY <2>5, <2>7, PushAdvances
    <3> QED BY <1>2, <2>2, <2>5, <3>1
  <2> QED BY <2>2, <2>6, <2>7
<1>4. Good(N)
  BY <1>2, <1>3
<1> QED BY <1>1, <1>4

-----------------------------------------------------------------------------
(* The inductive invariant *)

Ranges == [start : Nat, end : 0..End, attempt : Nat]
PoolType == [probed : BOOLEAN, healthy : SUBSET Sources, failures : [Sources -> Nat]]
RestType == [at : {"off", "order", "try", "stream"}, end : 0..End, round : Nat,
             left : SUBSET Sources, from : Sources]
ChunkType == [by : Sources, chunk : Seq(Blks)]
StripeType == [at : {"off", "assign", "flush", "wait", "leave"}, idle : Seq(Sources),
               disabled : SUBSET Sources, failed : [Sources -> Nat], pending : Seq(Ranges),
               unassigned : Nat, active : Int, end : 0..End, buffered : SUBSET ChunkType]
WorkerType == [at : {"idle", "run", "hold"}, range : Ranges, next : Nat,
               prev : Blks \cup {NoBlock}, chunk : Seq(Blks)]
EventType == [kind : {"chunk", "complete", "failed"}, by : Sources, range : Ranges,
              chunk : Seq(Blks), resume : Nat]

IntakeTypes ==
    /\ serves \in [Sources -> Branches] /\ pool \in PoolType
    /\ stage \in Over \cup {"prefix", "stripe", "rest"}
    /\ rest \in RestType /\ stripe \in StripeType
    /\ worker \in [Sources -> WorkerType] /\ events \in Seq(EventType)

\* Nobody asks for a height below the first of the range, or holds nothing.
Busy(w) == (w.at # "idle" => w.next > 0) /\ (w.at = "hold" => Len(w.chunk) > 0)
Positive ==
    /\ stripe.at # "off" => stripe.unassigned > 0
    /\ \A i \in 1..Len(stripe.pending) : stripe.pending[i].start > 0
    /\ \A s \in Sources : Busy(worker[s])
    /\ \A i \in 1..Len(events) : events[i].kind = "failed" => events[i].resume > 0

\* Each stage has its own task, and the last one runs to the end of the range.
Stages ==
    /\ stripe.at # "off" => stage = "stripe"
    /\ rest.at # "off" => stage \in {"prefix", "rest"}
    /\ stage = "rest" => rest.end = End
    /\ stage = "done" => Len(asm.sent) = RangeEnd

IntakeInv == IntakeTypes /\ asm.ok /\ Chain(asm) /\ Positive /\ Stages

LEMMA EmptyQueues ==
  /\ <<>> \in Seq(Sources) /\ <<>> \in Seq(Ranges) /\ <<>> \in Seq(EventType) /\ <<>> \in Seq(Blks)
  /\ Len(<<>>) = 0
OBVIOUS

LEMMA RestingTyped ==
  /\ NoRange \in Ranges /\ NoRest \in RestType /\ NoRest.at = "off"
  /\ AtRest \in WorkerType /\ AtRest.at = "idle"
  /\ NoStripes \in StripeType /\ NoStripes.at = "off" /\ Len(NoStripes.pending) = 0
<1>1. NoRange \in Ranges
  BY EndIsNat DEF NoRange, Ranges
<1>2. NoRest \in RestType /\ NoRest.at = "off"
  BY EndIsNat, IntakeSetsAssumption DEF NoRest, RestType
<1>3. AtRest \in WorkerType /\ AtRest.at = "idle"
  <2> DEFINE none == <<>>
  <2>1. none \in Seq(Blks)
    OBVIOUS
  <2>2. AtRest = [at |-> "idle", range |-> NoRange, next |-> 0, prev |-> NoBlock, chunk |-> none]
    BY DEF AtRest
  <2> HIDE DEF none
  <2> QED BY <1>1, <2>1, <2>2 DEF WorkerType
<1>4. NoStripes \in StripeType /\ NoStripes.at = "off" /\ Len(NoStripes.pending) = 0
  <2> DEFINE none == <<>>
             zero == [s \in Sources |-> 0]
  <2>1. none \in Seq(Sources) /\ none \in Seq(Ranges) /\ Len(none) = 0
    OBVIOUS
  <2>2. zero \in [Sources -> Nat] /\ {} \in SUBSET ChunkType /\ {} \in SUBSET Sources
    OBVIOUS
  <2>3. NoStripes = [at |-> "off", idle |-> none, disabled |-> {}, failed |-> zero, pending |-> none,
                     unassigned |-> 0, active |-> 0, end |-> 0, buffered |-> {}]
    BY DEF NoStripes
  <2> HIDE DEF none, zero
  <2> QED BY <2>1, <2>2, <2>3, EndIsNat DEF StripeType
<1> QED BY <1>1, <1>2, <1>3, <1>4

LEMMA OpenedTyped ==
  ASSUME NEW e \in 0..End
  PROVE  Opened(e) \in RestType /\ Opened(e).at = "order" /\ Opened(e).end = e
<1>1. Opened(e) = [NoRest EXCEPT !.at = "order", !.end = e]
  BY DEF Opened
<1>2. NoRest \in RestType
  BY RestingTyped
<1> QED BY <1>1, <1>2 DEF RestType

LEMMA PoolStatements ==
  ASSUME NEW p \in PoolType, NEW s \in Sources
  PROVE  Failure(p, s) \in PoolType /\ Success(p, s) \in PoolType
<1> DEFINE n == Min({p.failures[s] + 1, SourceFailures})
           f == [p.failures EXCEPT ![s] = n]
           g == [p.failures EXCEPT ![s] = 0]
<1>1. n \in Nat
  <2>1. p.failures[s] + 1 \in Int /\ SourceFailures \in Int /\ p.failures[s] + 1 >= 0 /\ SourceFailures >= 0
    BY IntakeBoundsAssumption DEF PoolType
  <2> QED BY <2>1, MinOfTwo
<1>2. f \in [Sources -> Nat] /\ g \in [Sources -> Nat]
  <2> HIDE DEF n
  <2> QED BY <1>1 DEF PoolType
<1>3. Failure(p, s) = [p EXCEPT !.failures = f] /\ Success(p, s) = [p EXCEPT !.failures = g]
  BY DEF Failure, Success, PoolType
<1> HIDE DEF f, g, n
<1> QED BY <1>2, <1>3 DEF PoolType

LEMMA ValidatedTyped ==
  ASSUME pool \in PoolType, NEW answered \in SUBSET Sources
  PROVE  Validated(answered) \in PoolType
BY DEF Validated, PoolType

(* SetToSeq: the finite set's own enumeration exists. *)
LEMMA IdleTyped ==
  ASSUME pool \in PoolType
  PROVE  SetToSeq(StripeSources) \in Seq(Sources)
<1> DEFINE S == StripeSources
<1>1. S \subseteq Sources /\ IsFiniteSet(S)
  <2>1. S \subseteq Sources
    BY DEF StripeSources, PoolType
  <2> HIDE DEF S
  <2> QED BY <2>1, IntakeSetsAssumption, FS_Subset
<1> HIDE DEF S
<1>2. Cardinality(S) \in Nat /\ ExistsBijection(1..Cardinality(S), S)
  BY <1>1, FS_CardinalityType
<1>3. \E f \in [1..Cardinality(S) -> S] : IsInjective(f)
  BY <1>2 DEF ExistsBijection, Bijection, Injection, IsInjective
<1>4. SetToSeq(S) \in [1..Cardinality(S) -> S]
  BY <1>3 DEF SetToSeq
<1>5. SetToSeq(S) \in Seq(S)
  BY <1>2, <1>4
<1> QED BY <1>1, <1>5 DEF S

-----------------------------------------------------------------------------
(* Each step keeps the invariant.  Striping ends, or the download. *)

LEMMA StripingOver ==
  ASSUME IntakeTypes, stripe' = NoStripes, worker' = [s \in Sources |-> AtRest], events' = <<>>
  PROVE  /\ stripe' \in StripeType /\ worker' \in [Sources -> WorkerType] /\ events' \in Seq(EventType)
         /\ stripe'.at = "off" /\ Positive'
<1>1. stripe' \in StripeType /\ stripe'.at = "off" /\ Len(stripe'.pending) = 0
  BY RestingTyped
<1>2. /\ worker' \in [Sources -> WorkerType]
      /\ \A s \in Sources : worker'[s].at = "idle"
  BY RestingTyped
<1>3. events' \in Seq(EventType) /\ Len(events') = 0
  BY EmptyQueues
<1>4. Positive'
  BY <1>1, <1>2, <1>3 DEF Positive, Busy
<1> QED BY <1>1, <1>2, <1>3, <1>4

LEMMA LeaveKeeps ==
  ASSUME IntakeInv, stage = "stripe", NEW next \in {"rest", "failed"}, LeaveStriping(next),
         UNCHANGED <<outside, pool>>, asm'.ok, Chain(asm')
  PROVE  IntakeInv'
<1>1. /\ stripe' = NoStripes /\ worker' = [s \in Sources |-> AtRest] /\ events' = <<>>
      /\ stage' = next /\ rest' = IF next = "rest" THEN Opened(End) ELSE rest
  BY DEF LeaveStriping
<1>2. /\ stripe' \in StripeType /\ worker' \in [Sources -> WorkerType] /\ events' \in Seq(EventType)
      /\ stripe'.at = "off" /\ Positive'
  BY <1>1, StripingOver DEF IntakeInv
<1>3. rest.at = "off"
  BY DEF IntakeInv, Stages
<1>4. rest' \in RestType /\ (next = "rest" => rest'.end = End) /\ (next # "rest" => rest'.at = "off")
  <2>1. CASE next = "rest"
    BY <1>1, <2>1, OpenedTyped, EndIsNat
  <2>2. CASE next # "rest"
    BY <1>1, <1>3, <2>2 DEF IntakeInv, IntakeTypes
  <2> QED BY <2>1, <2>2
<1>5. IntakeTypes'
  BY <1>1, <1>2, <1>4 DEF IntakeInv, IntakeTypes, outside, Over
<1>6. Stages'
  BY <1>1, <1>2, <1>4 DEF Stages
<1> QED BY <1>2, <1>5, <1>6 DEF IntakeInv

LEMMA CancelledKeeps == IntakeInv /\ Cancelled => IntakeInv'
<1> SUFFICES ASSUME IntakeInv, Cancelled PROVE IntakeInv'
  OBVIOUS
<1>1. /\ stripe' = NoStripes /\ worker' = [s \in Sources |-> AtRest] /\ events' = <<>>
      /\ stage' = "cancelled" /\ rest' = NoRest /\ UNCHANGED <<serves, pool, asm>>
  BY DEF Cancelled, outside
<1>2. /\ stripe' \in StripeType /\ worker' \in [Sources -> WorkerType] /\ events' \in Seq(EventType)
      /\ stripe'.at = "off" /\ Positive'
  BY <1>1, StripingOver DEF IntakeInv
<1>3. IntakeTypes'
  BY <1>1, <1>2, RestingTyped DEF IntakeInv, IntakeTypes, Over
<1>4. Stages'
  BY <1>1, <1>2, RestingTyped DEF Stages
<1> QED BY <1>1, <1>2, <1>3, <1>4 DEF IntakeInv

(* A step that neither stripes nor touches the assembler. *)
LEMMA OutsideKeeps ==
  ASSUME IntakeInv, UNCHANGED <<asm, stage, stripe, worker, events>>,
         serves' \in [Sources -> Branches], pool' \in PoolType, rest' \in RestType,
         rest'.at # "off" => stage \in {"prefix", "rest"}, stage = "rest" => rest'.end = End
  PROVE  IntakeInv'
<1>1. IntakeTypes'
  BY DEF IntakeInv, IntakeTypes
<1>2. Positive' /\ Stages'
  BY DEF IntakeInv, Positive, Stages
<1> QED BY <1>1, <1>2 DEF IntakeInv

LEMMA PoolKeeps == IntakeInv /\ (Switch \/ PoolProbed) => IntakeInv'
<1> SUFFICES ASSUME IntakeInv, Switch \/ PoolProbed PROVE IntakeInv'
  OBVIOUS
<1>1. CASE Switch
  <2>1. serves' \in [Sources -> Branches]
    BY <1>1 DEF Switch, IntakeInv, IntakeTypes, Branches
  <2> QED BY <1>1, <2>1, OutsideKeeps DEF Switch, IntakeInv, IntakeTypes, Stages
<1>2. CASE PoolProbed
  <2>1. pool' \in PoolType
    BY <1>2, ValidatedTyped DEF PoolProbed, IntakeInv, IntakeTypes
  <2> QED BY <1>2, <2>1, OutsideKeeps DEF PoolProbed, IntakeInv, IntakeTypes, Stages
<1> QED BY <1>1, <1>2

LEMMA PrefixStepKeeps == IntakeInv /\ PrefixStep => IntakeInv'
<1> SUFFICES ASSUME IntakeInv, PrefixStep PROVE IntakeInv'
  OBVIOUS
<1> DEFINE e == Min({asm.next + StripeBlocks, End})
<1>1. e \in 0..End
  <2>1. asm.next \in 1..End
    BY ChainBounded DEF IntakeInv
  <2>2. StripeBlocks \in Nat
    BY IntakeBoundsAssumption
  <2>3. asm.next + StripeBlocks \in Int /\ End \in Int /\ asm.next + StripeBlocks >= 0
    BY <2>1, <2>2, EndIsNat
  <2> QED BY <2>3, MinOfTwo, EndIsNat
<1>2. rest' = Opened(e)
  BY DEF PrefixStep
<1> HIDE DEF e
<1>3. rest' \in RestType /\ rest'.at = "order"
  BY <1>1, <1>2, OpenedTyped
<1> QED BY <1>3, OutsideKeeps DEF PrefixStep, outside, stripes, IntakeInv, IntakeTypes

LEMMA FailoverKeeps ==
  ASSUME IntakeInv, RestOrder \/ RestTry \/ RestRound
  PROVE  IntakeInv'
<1>1. rest \in RestType /\ pool \in PoolType /\ serves \in [Sources -> Branches]
  BY DEF IntakeInv, IntakeTypes
<1>2. CASE RestOrder
  <2>1. PICK tall \in SUBSET pool.healthy :
           rest' = [rest EXCEPT !.at = "try", !.left = IF pool.probed THEN tall ELSE {Primary}]
    BY <1>2 DEF RestOrder
  <2> DEFINE l == IF pool.probed THEN tall ELSE {Primary}
  <2>2. l \in SUBSET Sources
    BY <1>1, IntakeSetsAssumption DEF PoolType
  <2>3. rest' = [rest EXCEPT !.at = "try", !.left = l]
    BY <2>1
  <2> HIDE DEF l
  <2>4. rest' \in RestType /\ rest'.end = rest.end
    BY <1>1, <2>2, <2>3 DEF RestType
  <2>5. rest.at = "order"
    BY <1>2 DEF RestOrder, RestGoesOn
  <2> QED BY <1>1, <1>2, <2>4, <2>5, OutsideKeeps DEF RestOrder, outside, stripes, IntakeInv, Stages
<1>3. CASE RestTry
  <2>1. PICK s \in rest.left :
           \/ rest' = [rest EXCEPT !.at = "stream", !.from = s, !.left = @ \ {s}] /\ UNCHANGED pool
           \/ rest' = [rest EXCEPT !.left = @ \ {s}] /\ pool' = Failure(pool, s)
    BY <1>3 DEF RestTry
  <2>2. s \in Sources
    BY <1>1 DEF RestType
  <2>3. pool' \in PoolType
    BY <1>1, <2>1, <2>2, PoolStatements
  <2>4. rest' \in RestType /\ rest'.end = rest.end
    BY <1>1, <2>1, <2>2 DEF RestType
  <2>5. rest.at = "try"
    BY <1>3 DEF RestTry
  <2> QED BY <1>1, <1>3, <2>3, <2>4, <2>5, OutsideKeeps DEF RestTry, outside, stripes, IntakeInv, Stages
<1>4. CASE RestRound
  <2>1. pool' \in PoolType
    BY <1>1, <1>4, ValidatedTyped DEF RestRound
  <2>2. rest' \in RestType /\ rest'.end = rest.end
    <3> DEFINE k == rest.round + 1
    <3>1. k \in Nat
      BY <1>1 DEF RestType
    <3>2. rest' = [rest EXCEPT !.at = "order", !.round = k]
      BY <1>4 DEF RestRound
    <3> HIDE DEF k
    <3> QED BY <1>1, <3>1, <3>2 DEF RestType
  <2>3. rest.at = "try"
    BY <1>4 DEF RestRound
  <2> QED BY <1>1, <1>4, <2>1, <2>2, <2>3, OutsideKeeps DEF RestRound, outside, stripes, IntakeInv, Stages
<1> QED BY <1>2, <1>3, <1>4

(* The failover loop gives the assembler a block, or what it has away. *)
LEMMA StreamKeeps ==
  ASSUME IntakeInv, RestBlock \/ RestError
  PROVE  IntakeInv'
<1>1. /\ rest \in RestType /\ pool \in PoolType /\ serves \in [Sources -> Branches]
      /\ asm.ok /\ Chain(asm)
  BY DEF IntakeInv, IntakeTypes
<1>2. asm.next \in 1..End
  BY <1>1, ChainBounded
<1>3. rest.at = "stream" /\ asm.next < rest.end /\ rest.end \in 0..End /\ rest.from \in Sources
  BY <1>1 DEF RestBlock, RestError, RestType
<1>4. asm.next \in 1..RangeEnd
  BY <1>2, <1>3, EndIsNat
<1>5. stage \in {"prefix", "rest"}
  BY <1>3 DEF IntakeInv, Stages
<1>6. UNCHANGED <<serves, stage, stripe, worker, events>>
  BY DEF RestBlock, RestError, outside, stripes
<1>7. asm'.ok /\ Chain(asm') /\ pool' \in PoolType /\ rest' \in RestType /\ rest'.end = rest.end
  <2>1. CASE RestBlock
    <3> DEFINE blk == Block(serves[rest.from], asm.next)
    <3>1. blk \in Blks
      BY <1>1, <1>3, <1>4, BlockTyped
    <3>2. Fits(asm, blk) /\ asm' = Push(asm, blk) /\ pool' = pool /\ rest' = rest
      BY <2>1 DEF RestBlock
    <3> HIDE DEF blk
    <3>3. Chain(asm')
      BY <1>1, <3>1, <3>2, PushKeeps
    <3>4. asm'.ok
      BY <1>1, <3>1, <3>2, FittingKeepsOk
    <3> QED BY <1>1, <3>2, <3>3, <3>4
  <2>2. CASE RestError
    <3>1. asm' = TakePartial(asm) /\ pool' = Failure(pool, rest.from) /\ rest' = [rest EXCEPT !.at = "try"]
      BY <2>2 DEF RestError
    <3>2. rest' \in RestType /\ rest'.end = rest.end
      BY <1>1, <3>1 DEF RestType
    <3> QED BY <1>1, <1>3, <3>1, <3>2, TakePartialKeeps, PoolStatements
  <2> QED BY <2>1, <2>2
<1>8. IntakeTypes' /\ Positive'
  BY <1>6, <1>7 DEF IntakeInv, IntakeTypes, Positive
<1>9. Stages'
  BY <1>5, <1>6, <1>7 DEF IntakeInv, Stages
<1> QED BY <1>7, <1>8, <1>9 DEF IntakeInv

LEMMA RestEndKeeps ==
  ASSUME IntakeInv, RestComplete \/ RestFails
  PROVE  IntakeInv'
<1>1. /\ rest \in RestType /\ pool \in PoolType /\ asm.ok /\ Chain(asm)
  BY DEF IntakeInv, IntakeTypes
<1>2. /\ rest.at # "off" /\ rest' = NoRest /\ UNCHANGED <<serves, stripe, worker, events>>
  BY DEF RestComplete, RestFails, outside, stripes
<1>3. stage \in {"prefix", "rest"} /\ (stage = "rest" => rest.end = End)
  BY <1>2 DEF IntakeInv, Stages
<1>4. /\ asm'.ok /\ Chain(asm') /\ pool' \in PoolType
      /\ stage' = stage \/ stage' = "failed" \/ (stage' = "done" /\ Len(asm'.sent) = RangeEnd)
      /\ stage' # "rest"
  <2>1. CASE RestComplete
    <3>1. pool' \in PoolType
      BY <1>1, <2>1, PoolStatements DEF RestComplete, RestType
    <3>2. CASE stage = "rest"
      <4>1. stage' = "done" /\ asm' = TakePartial(asm) /\ asm.next >= End
        BY <1>3, <2>1, <3>2 DEF RestComplete
      <4>2. Len(Accepted(asm)) = RangeEnd
        <5>1. asm.next = Len(Accepted(asm)) + 1 /\ Len(Accepted(asm)) \in 0..RangeEnd
          BY <1>1, ChainBounded DEF Chain
        <5> QED BY <4>1, <5>1, EndIsNat
      <4>3. asm'.sent = Accepted(asm) /\ asm'.ok = asm.ok /\ Chain(asm')
        BY <1>1, <4>1, TakePartialKeeps
      <4> QED BY <1>1, <3>1, <4>1, <4>2, <4>3
    <3>3. CASE stage # "rest"
      BY <1>1, <2>1, <3>1, <3>3 DEF RestComplete
    <3> QED BY <3>2, <3>3
  <2>2. CASE RestFails
    BY <1>1, <2>2 DEF RestFails
  <2> QED BY <2>1, <2>2
<1>5. IntakeTypes' /\ Positive'
  BY <1>2, <1>3, <1>4, RestingTyped DEF IntakeInv, IntakeTypes, Positive, Over
<1>6. Stages'
  BY <1>2, <1>3, <1>4, RestingTyped DEF IntakeInv, Stages
<1> QED BY <1>4, <1>5, <1>6 DEF IntakeInv

LEMMA PrefixDoneKeeps == IntakeInv /\ PrefixDone => IntakeInv'
<1> SUFFICES ASSUME IntakeInv, PrefixDone PROVE IntakeInv'
  OBVIOUS
<1>1. /\ stage = "prefix" /\ rest.at = "off" /\ UNCHANGED <<serves, pool, asm, worker, events>>
      /\ stage' = IF CanStripe THEN "stripe" ELSE "rest"
  BY DEF PrefixDone, outside
<1>2. IntakeTypes /\ asm.ok /\ Chain(asm) /\ Positive /\ stripe.at = "off"
  BY <1>1 DEF IntakeInv, Stages
<1>3. asm.next \in 1..End
  BY <1>2, ChainBounded
<1>4. /\ rest' \in RestType /\ stripe' \in StripeType /\ Positive'
      /\ (CanStripe => rest'.at = "off") /\ (~CanStripe => rest'.end = End /\ stripe'.at = "off")
  <2>1. CASE CanStripe
    <3> DEFINE i == SetToSeq(StripeSources)
               e == StableEnd + 1
    <3>1. rest' = rest /\ stripe' = [NoStripes EXCEPT !.at = "assign", !.idle = i,
                                        !.unassigned = asm.next, !.end = e]
      BY <2>1 DEF PrefixDone
    <3>2. i \in Seq(Sources) /\ e \in 0..End /\ asm.next \in Nat /\ asm.next > 0
      BY <1>2, <1>3, IdleTyped, EndIsNat, IntakeBoundsAssumption DEF IntakeTypes
    <3> HIDE DEF i, e
    <3>3. /\ stripe' \in StripeType /\ stripe'.unassigned = asm.next
          /\ stripe'.pending = NoStripes.pending
      BY <3>1, <3>2, RestingTyped DEF StripeType
    <3>4. Positive'
      BY <1>1, <1>2, <3>2, <3>3, RestingTyped DEF Positive
    <3> QED BY <1>1, <1>2, <2>1, <3>1, <3>3, <3>4 DEF IntakeTypes
  <2>2. CASE ~CanStripe
    <3>1. rest' = Opened(End) /\ stripe' = stripe
      BY <2>2 DEF PrefixDone
    <3>2. rest' \in RestType /\ rest'.end = End
      BY <3>1, OpenedTyped, EndIsNat
    <3> QED BY <1>1, <1>2, <2>2, <3>1, <3>2 DEF IntakeTypes, Positive
  <2> QED BY <2>1, <2>2
<1>5. IntakeTypes'
  BY <1>1, <1>2, <1>4 DEF IntakeTypes
<1>6. Stages'
  BY <1>1, <1>4 DEF Stages
<1> QED BY <1>1, <1>2, <1>4, <1>5, <1>6 DEF IntakeInv

(* A step inside striping. *)
LEMMA StripeKeeps ==
  ASSUME IntakeInv, stage = "stripe", UNCHANGED <<serves, stage, rest>>, asm'.ok, Chain(asm'),
         pool' \in PoolType, stripe' \in StripeType, worker' \in [Sources -> WorkerType],
         events' \in Seq(EventType), Positive'
  PROVE  IntakeInv'
<1>1. IntakeTypes'
  BY DEF IntakeInv, IntakeTypes
<1>2. Stages'
  BY DEF IntakeInv, Stages
<1> QED BY <1>1, <1>2 DEF IntakeInv

LEMMA AssignKeeps == IntakeInv /\ Assign => IntakeInv'
<1> SUFFICES ASSUME IntakeInv, Assign PROVE IntakeInv'
  OBVIOUS
<1> DEFINE s == Head(stripe.idle)
           back == stripe.pending # <<>>
           range == IF back THEN Head(stripe.pending) ELSE NextStripe
           w == [AtRest EXCEPT !.at = "run", !.range = range, !.next = range.start]
<1>1. /\ stripe \in StripeType /\ worker \in [Sources -> WorkerType] /\ events \in Seq(EventType)
      /\ asm.ok /\ Chain(asm) /\ Positive /\ pool \in PoolType
  BY DEF IntakeInv, IntakeTypes
<1>2. /\ stripe.at = "assign" /\ stripe.idle # <<>> /\ HasRange
      /\ UNCHANGED <<serves, pool, asm, stage, rest, events>>
      /\ worker' = [worker EXCEPT ![s] = w]
      /\ stripe' = [stripe EXCEPT !.idle = Tail(@), !.active = @ + 1,
                          !.pending = IF back THEN Tail(@) ELSE @,
                          !.unassigned = IF back THEN @ ELSE range.end]
  BY DEF Assign, outside
<1>3. stage = "stripe"
  BY <1>2 DEF IntakeInv, Stages
<1>4. range \in Ranges /\ range.start > 0 /\ range.start \in Nat /\ (~back => range.end > 0)
  <2>1. CASE back
    <3>1. stripe.pending \in Seq(Ranges) /\ stripe.pending # <<>>
      BY <1>1, <2>1 DEF StripeType
    <3>2. range = stripe.pending[1] /\ 1 \in 1..Len(stripe.pending)
      BY <2>1, <3>1
    <3>3. range \in Ranges
      BY <3>1, <3>2
    <3> HIDE DEF range
    <3> QED BY <1>1, <2>1, <3>2, <3>3 DEF Positive, Ranges
  <2>2. CASE ~back
    <3> DEFINE u == stripe.unassigned
               e == Min({u + StripeBlocks, stripe.end})
    <3>1. u \in Nat /\ u > 0 /\ u < stripe.end /\ stripe.end \in 0..End
      BY <1>1, <1>2, <2>2 DEF StripeType, Positive, HasRange
    <3>2. StripeBlocks \in Nat /\ StripeBlocks > 0
      BY IntakeBoundsAssumption
    <3>3. e \in 0..End /\ e > 0
      <4>1. u + StripeBlocks \in Int /\ stripe.end \in Int
        BY <3>1, <3>2, EndIsNat
      <4> QED BY <3>1, <3>2, <4>1, MinOfTwo, EndIsNat
    <3>4. range = [start |-> u, attempt |-> 1, end |-> e]
      BY <2>2 DEF NextStripe
    <3> HIDE DEF u, e, range
    <3> QED BY <3>1, <3>3, <3>4 DEF Ranges
  <2> QED BY <2>1, <2>2
<1> HIDE DEF range
<1>5. w \in WorkerType /\ Busy(w)
  BY <1>4, RestingTyped DEF WorkerType, Busy
<1> HIDE DEF w
<1>6. worker' \in [Sources -> WorkerType] /\ \A t \in Sources : worker'[t] = worker[t] \/ worker'[t] = w
  BY <1>1, <1>2, <1>5
<1> DEFINE i == Tail(stripe.idle)
           n == stripe.active + 1
           q == IF back THEN Tail(stripe.pending) ELSE stripe.pending
           v == IF back THEN stripe.unassigned ELSE range.end
<1>7. i \in Seq(Sources) /\ n \in Int
  BY <1>1, <1>2 DEF StripeType
<1>8. q \in Seq(Ranges) /\ \A j \in 1..Len(q) : q[j].start > 0
  <2>1. CASE back
    <3>1. stripe.pending \in Seq(Ranges) /\ stripe.pending # <<>>
      BY <1>1, <2>1 DEF StripeType
    <3>2. q \in Seq(Ranges) /\ \A j \in 1..Len(q) : j + 1 \in 1..Len(stripe.pending) /\ q[j] = stripe.pending[j + 1]
      BY <2>1, <3>1
    <3> HIDE DEF q
    <3> QED BY <1>1, <3>2 DEF Positive
  <2>2. CASE ~back
    BY <1>1, <2>2 DEF StripeType, Positive
  <2> QED BY <2>1, <2>2
<1>9. v \in Nat /\ v > 0
  BY <1>1, <1>2, <1>4, EndIsNat DEF StripeType, Positive, Ranges
<1>10. stripe' = [stripe EXCEPT !.idle = i, !.active = n, !.pending = q, !.unassigned = v]
  BY <1>1, <1>2 DEF StripeType
<1> HIDE DEF i, n, q, v, back
<1>11. stripe' \in StripeType /\ stripe'.pending = q /\ stripe'.unassigned = v
  BY <1>1, <1>7, <1>8, <1>9, <1>10 DEF StripeType
<1>12. Positive'
  BY <1>1, <1>2, <1>5, <1>6, <1>8, <1>9, <1>11 DEF Positive
<1> QED BY <1>1, <1>2, <1>3, <1>6, <1>11, <1>12, StripeKeeps

LEMMA AssignDoneKeeps == IntakeInv /\ AssignDone => IntakeInv'
<1> SUFFICES ASSUME IntakeInv, AssignDone PROVE IntakeInv'
  OBVIOUS
<1>1. /\ stripe \in StripeType /\ worker \in [Sources -> WorkerType] /\ events \in Seq(EventType)
      /\ asm.ok /\ Chain(asm) /\ Positive /\ pool \in PoolType
  BY DEF IntakeInv, IntakeTypes
<1>2. /\ stripe.at = "assign" /\ stripe' = [stripe EXCEPT !.at = "flush"]
      /\ UNCHANGED <<serves, pool, asm, stage, rest, worker, events>>
  BY DEF AssignDone, outside
<1>3. /\ stripe' \in StripeType /\ stripe'.pending = stripe.pending
      /\ stripe'.unassigned = stripe.unassigned
  BY <1>1, <1>2 DEF StripeType
<1>4. Positive'
  BY <1>1, <1>2, <1>3 DEF Positive
<1>5. stage = "stripe"
  BY <1>2 DEF IntakeInv, Stages
<1> QED BY <1>1, <1>2, <1>3, <1>4, <1>5, StripeKeeps

LEMMA FlushKeeps == IntakeInv /\ Flush => IntakeInv'
<1> SUFFICES ASSUME IntakeInv, Flush PROVE IntakeInv'
  OBVIOUS
<1> DEFINE c == CHOOSE c \in Ready : TRUE
           a == PushAll(asm, c.chunk)
<1>1. /\ stripe \in StripeType /\ worker \in [Sources -> WorkerType] /\ events \in Seq(EventType)
      /\ asm.ok /\ Chain(asm) /\ Positive /\ pool \in PoolType
  BY DEF IntakeInv, IntakeTypes
<1>2. c \in Ready
  BY DEF Flush
<1>3. c.chunk \in Seq(Blks)
  <2>1. c \in ChunkType
    BY <1>1, <1>2 DEF Ready, StripeType
  <2> HIDE DEF c
  <2> QED BY <2>1 DEF ChunkType
<1>4. /\ stripe.at \in {"flush", "leave"} /\ asm' = Restored(a) /\ UNCHANGED <<serves, switches, pool>>
      /\ \/ /\ stripe' = [stripe EXCEPT !.buffered = @ \ {c}]
            /\ UNCHANGED <<stage, rest, worker, events>>
         \/ LeaveStriping("rest")
  BY DEF Flush, outside
<1> HIDE DEF c
<1>5. Chain(a)
  BY <1>1, <1>3, PushAllKeeps
<1> HIDE DEF a
<1>6. Chain(asm') /\ asm'.ok
  BY <1>4, <1>5, RestoredKeeps
<1>7. stage = "stripe"
  BY <1>4 DEF IntakeInv, Stages
<1>8. CASE stripe' = [stripe EXCEPT !.buffered = @ \ {c}] /\ UNCHANGED <<stage, rest, worker, events>>
  <2>1. /\ stripe' \in StripeType /\ stripe'.pending = stripe.pending
        /\ stripe'.unassigned = stripe.unassigned /\ stripe'.at = stripe.at
    BY <1>1, <1>8 DEF StripeType
  <2>2. Positive'
    BY <1>1, <1>8, <2>1 DEF Positive
  <2> QED BY <1>1, <1>4, <1>6, <1>7, <1>8, <2>1, <2>2, StripeKeeps
<1>9. CASE LeaveStriping("rest")
  BY <1>4, <1>6, <1>7, <1>9, LeaveKeeps DEF outside
<1> QED BY <1>4, <1>8, <1>9

LEMMA FlushDoneKeeps ==
  ASSUME IntakeInv, FlushDone \/ Leave
  PROVE  IntakeInv'
<1>1. /\ stripe \in StripeType /\ worker \in [Sources -> WorkerType] /\ events \in Seq(EventType)
      /\ asm.ok /\ Chain(asm) /\ Positive /\ pool \in PoolType
  BY DEF IntakeInv, IntakeTypes
<1>2. /\ stripe.at # "off" /\ UNCHANGED <<serves, switches, pool, asm>>
      /\ \/ /\ stripe' = [stripe EXCEPT !.at = "wait"]
            /\ UNCHANGED <<stage, rest, worker, events>>
         \/ \E next \in {"rest", "failed"} : LeaveStriping(next)
  BY DEF FlushDone, Leave, outside
<1>3. stage = "stripe"
  BY <1>2 DEF IntakeInv, Stages
<1>4. CASE stripe' = [stripe EXCEPT !.at = "wait"] /\ UNCHANGED <<stage, rest, worker, events>>
  <2>1. /\ stripe' \in StripeType /\ stripe'.pending = stripe.pending
        /\ stripe'.unassigned = stripe.unassigned
    BY <1>1, <1>4 DEF StripeType
  <2>2. Positive'
    BY <1>1, <1>2, <1>4, <2>1 DEF Positive
  <2> QED BY <1>1, <1>2, <1>3, <1>4, <2>1, <2>2, StripeKeeps
<1>5. CASE \E next \in {"rest", "failed"} : LeaveStriping(next)
  BY <1>1, <1>2, <1>3, <1>5, LeaveKeeps DEF outside
<1> QED BY <1>2, <1>4, <1>5

(* The oldest event is taken from the channel. *)
LEMMA EventTaken ==
  ASSUME IntakeInv, events # <<>>
  PROVE  /\ Head(events) \in EventType /\ Tail(events) \in Seq(EventType)
         /\ Head(events).kind = "failed" => Head(events).resume > 0
         /\ \A i \in 1..Len(Tail(events)) : Tail(events)[i].kind = "failed" => Tail(events)[i].resume > 0
<1>1. events \in Seq(EventType) /\ Positive
  BY DEF IntakeInv, IntakeTypes
<1>2. /\ Head(events) = events[1] /\ 1 \in 1..Len(events) /\ Head(events) \in EventType
      /\ Tail(events) \in Seq(EventType)
      /\ \A i \in 1..Len(Tail(events)) : i + 1 \in 1..Len(events) /\ Tail(events)[i] = events[i + 1]
  BY <1>1
<1> QED BY <1>1, <1>2 DEF Positive

LEMMA OnChunkKeeps == IntakeInv /\ OnChunk => IntakeInv'
<1> SUFFICES ASSUME IntakeInv, OnChunk PROVE IntakeInv'
  OBVIOUS
<1> DEFINE e == Head(events)
           c == [by |-> e.by, chunk |-> e.chunk]
<1>1. /\ stripe \in StripeType /\ worker \in [Sources -> WorkerType] /\ events \in Seq(EventType)
      /\ asm.ok /\ Chain(asm) /\ Positive /\ pool \in PoolType
  BY DEF IntakeInv, IntakeTypes
<1>2. /\ stripe.at = "wait" /\ events # <<>> /\ UNCHANGED <<serves, switches, pool, asm>>
      /\ \/ LeaveStriping("rest")
         \/ /\ stripe' = [stripe EXCEPT !.at = "assign", !.buffered = @ \cup {c}]
            /\ events' = Tail(events) /\ UNCHANGED <<stage, rest, worker>>
  BY DEF OnChunk, outside
<1>3. stage = "stripe"
  BY <1>2 DEF IntakeInv, Stages
<1>4. CASE LeaveStriping("rest")
  BY <1>1, <1>2, <1>3, <1>4, LeaveKeeps DEF outside
<1>5. CASE /\ stripe' = [stripe EXCEPT !.at = "assign", !.buffered = @ \cup {c}]
           /\ events' = Tail(events) /\ UNCHANGED <<stage, rest, worker>>
  <2>1. c \in ChunkType
    <3>1. e \in EventType
      BY <1>2, EventTaken
    <3> HIDE DEF e
    <3> QED BY <3>1 DEF EventType, ChunkType
  <2> HIDE DEF c
  <2>2. /\ stripe' \in StripeType /\ stripe'.pending = stripe.pending
        /\ stripe'.unassigned = stripe.unassigned
    BY <1>1, <1>5, <2>1 DEF StripeType
  <2>3. Positive'
    BY <1>1, <1>2, <1>5, <2>2, EventTaken DEF Positive
  <2>4. events' \in Seq(EventType)
    BY <1>2, <1>5, EventTaken
  <2> QED BY <1>1, <1>2, <1>3, <1>5, <2>2, <2>3, <2>4, StripeKeeps
<1> QED BY <1>2, <1>4, <1>5

LEMMA OnCompleteKeeps == IntakeInv /\ OnComplete => IntakeInv'
<1> SUFFICES ASSUME IntakeInv, OnComplete PROVE IntakeInv'
  OBVIOUS
<1> DEFINE s == Head(events).by
<1>1. /\ stripe \in StripeType /\ worker \in [Sources -> WorkerType]
      /\ asm.ok /\ Chain(asm) /\ Positive /\ pool \in PoolType
  BY DEF IntakeInv, IntakeTypes
<1>2. /\ stripe.at = "wait" /\ events # <<>> /\ UNCHANGED <<serves, asm, stage, rest, worker>>
      /\ stripe' = Completed(stripe, s) /\ pool' = Success(pool, s) /\ events' = Tail(events)
  BY DEF OnComplete, outside
<1>3. s \in Sources
  BY <1>2, EventTaken DEF EventType
<1> HIDE DEF s
<1> DEFINE n == stripe.active - 1
           f == [stripe.failed EXCEPT ![s] = 0]
           i == Append(stripe.idle, s)
<1>4. n \in Int /\ f \in [Sources -> Nat] /\ i \in Seq(Sources)
  BY <1>1, <1>3 DEF StripeType
<1>5. stripe' = [stripe EXCEPT !.at = "assign", !.active = n, !.failed = f, !.idle = i]
  BY <1>1, <1>2 DEF Completed, StripeType
<1> HIDE DEF n, f, i
<1>6. /\ stripe' \in StripeType /\ stripe'.pending = stripe.pending
      /\ stripe'.unassigned = stripe.unassigned
  BY <1>1, <1>4, <1>5 DEF StripeType
<1>7. Positive'
  BY <1>1, <1>2, <1>6, EventTaken DEF Positive
<1>8. events' \in Seq(EventType) /\ pool' \in PoolType
  BY <1>1, <1>2, <1>3, EventTaken, PoolStatements
<1>9. stage = "stripe"
  BY <1>2 DEF IntakeInv, Stages
<1> QED BY <1>1, <1>2, <1>6, <1>7, <1>8, <1>9, StripeKeeps

LEMMA OnFailedKeeps == IntakeInv /\ OnFailed => IntakeInv'
<1> SUFFICES ASSUME IntakeInv, OnFailed PROVE IntakeInv'
  OBVIOUS
<1> DEFINE e == Head(events)
           failures == stripe.failed[e.by] + 1
           out == failures >= SourceFailures
           back == Resumed(e.range, e.resume)
           q == <<back>> \o stripe.pending
           n == stripe.active - 1
           f == [stripe.failed EXCEPT ![e.by] = failures]
           i == IF out THEN stripe.idle ELSE Append(stripe.idle, e.by)
           d == IF out THEN stripe.disabled \cup {e.by} ELSE stripe.disabled
<1>1. /\ stripe \in StripeType /\ worker \in [Sources -> WorkerType]
      /\ asm.ok /\ Chain(asm) /\ Positive /\ pool \in PoolType
  BY DEF IntakeInv, IntakeTypes
<1>2. /\ stripe.at = "wait" /\ events # <<>> /\ e.kind = "failed"
      /\ UNCHANGED <<serves, asm, stage, rest, worker>>
      /\ pool' = Failure(pool, e.by) /\ events' = Tail(events)
      /\ stripe' = IF ShouldLeave(e.range, failures) THEN [stripe EXCEPT !.at = "leave"]
                   ELSE [stripe EXCEPT !.at = "assign", !.active = @ - 1, !.failed[e.by] = failures,
                    !.pending = <<Resumed(e.range, e.resume)>> \o @,
                    !.idle = IF out THEN @ ELSE Append(@, e.by),
                    !.disabled = IF out THEN @ \cup {e.by} ELSE @]
  BY DEF OnFailed, outside
<1>3. e \in EventType /\ e.resume > 0
  BY <1>2, EventTaken
<1>4. stripe' = IF ShouldLeave(e.range, failures) THEN [stripe EXCEPT !.at = "leave"]
                ELSE [stripe EXCEPT !.at = "assign", !.active = n, !.failed = f, !.pending = q,
                                    !.idle = i, !.disabled = d]
  BY <1>1, <1>2 DEF StripeType
<1> HIDE DEF e
<1>5. e.by \in Sources /\ e.range \in Ranges /\ e.resume \in Nat
  BY <1>3 DEF EventType
<1>6. back \in Ranges /\ back.start > 0
  <2> DEFINE k == e.range.attempt + 1
  <2>1. k \in Nat
    BY <1>5 DEF Ranges
  <2>2. back = [e.range EXCEPT !.start = e.resume, !.attempt = k]
    BY DEF Resumed
  <2> HIDE DEF back, k
  <2> QED BY <1>3, <1>5, <2>1, <2>2 DEF Ranges
<1> HIDE DEF back
<1>7. /\ q \in Seq(Ranges) /\ \A j \in 1..Len(q) : q[j].start > 0
  <2>1. stripe.pending \in Seq(Ranges) /\ \A j \in 1..Len(stripe.pending) : stripe.pending[j].start > 0
    BY <1>1 DEF StripeType, Positive
  <2>2. /\ q \in Seq(Ranges) /\ Len(q) = Len(stripe.pending) + 1 /\ q[1] = back
        /\ \A j \in 1..Len(stripe.pending) : q[j + 1] = stripe.pending[j]
    BY <1>6, <2>1
  <2> HIDE DEF q
  <2>3. ASSUME NEW j \in 1..Len(q) PROVE q[j].start > 0
    <3>1. CASE j = 1
      BY <1>6, <2>2, <3>1
    <3>2. CASE j # 1
      <4>1. PICK k \in 1..Len(stripe.pending) : j = k + 1
        <5>1. j - 1 \in 1..Len(stripe.pending) /\ j = (j - 1) + 1
          BY <2>1, <2>2, <3>2
        <5> QED BY <5>1
      <4> QED BY <2>1, <2>2, <4>1
    <3> QED BY <3>1, <3>2
  <2> QED BY <2>2, <2>3
<1>8. n \in Int /\ f \in [Sources -> Nat] /\ i \in Seq(Sources) /\ d \in SUBSET Sources
  BY <1>1, <1>5 DEF StripeType
<1> HIDE DEF n, f, i, d, q, failures, out
<1>9. /\ stripe' \in StripeType /\ stripe'.pending \in {stripe.pending, q}
      /\ stripe'.unassigned = stripe.unassigned
  BY <1>1, <1>4, <1>7, <1>8 DEF StripeType
<1>10. Positive'
  BY <1>1, <1>2, <1>7, <1>9, EventTaken DEF Positive
<1>11. events' \in Seq(EventType) /\ pool' \in PoolType
  BY <1>1, <1>2, <1>5, EventTaken, PoolStatements
<1>12. stage = "stripe"
  BY <1>2 DEF IntakeInv, Stages
<1> QED BY <1>1, <1>2, <1>9, <1>10, <1>11, <1>12, StripeKeeps

-----------------------------------------------------------------------------
(* The workers.  A worker reads only what its own range and its server's     *)
(* branch allow; the frame does not depend on the stage.                     *)

LEMMA WorkerKeeps ==
  ASSUME IntakeInv, UNCHANGED <<serves, pool, asm, stage, rest, stripe>>, NEW s \in Sources,
         NEW w \in WorkerType, Busy(w), worker' = [worker EXCEPT ![s] = w],
         events' \in Seq(EventType),
         \A i \in 1..Len(events') : events'[i].kind = "failed" => events'[i].resume > 0
  PROVE  IntakeInv'
<1>1. worker' \in [Sources -> WorkerType]
  BY DEF IntakeInv, IntakeTypes
<1>2. Positive'
  <2>1. \A t \in Sources : worker'[t] = worker[t] \/ worker'[t] = w
    BY DEF IntakeInv, IntakeTypes
  <2> QED BY <2>1 DEF IntakeInv, Positive
<1>3. IntakeTypes' /\ Stages'
  BY <1>1 DEF IntakeInv, IntakeTypes, Stages
<1> QED BY <1>2, <1>3 DEF IntakeInv

LEMMA EventSent ==
  ASSUME IntakeInv, NEW e \in EventType, e.kind = "failed" => e.resume > 0
  PROVE  /\ Append(events, e) \in Seq(EventType)
         /\ \A i \in 1..Len(Append(events, e)) :
              Append(events, e)[i].kind = "failed" => Append(events, e)[i].resume > 0
<1> DEFINE q == Append(events, e)
<1>1. events \in Seq(EventType) /\ Positive
  BY DEF IntakeInv, IntakeTypes
<1>2. /\ q \in Seq(EventType) /\ Len(q) = Len(events) + 1 /\ q[Len(q)] = e
      /\ \A i \in 1..Len(events) : q[i] = events[i]
  BY <1>1
<1> HIDE DEF q
<1>3. ASSUME NEW i \in 1..Len(q) PROVE q[i].kind = "failed" => q[i].resume > 0
  <2>1. CASE i = Len(q)
    BY <1>2, <2>1
  <2>2. CASE i # Len(q)
    <3>1. i \in 1..Len(events)
      BY <1>1, <1>2, <2>2
    <3> QED BY <1>1, <1>2, <3>1 DEF Positive
  <2> QED BY <2>1, <2>2
<1> QED BY <1>2, <1>3 DEF q

LEMMA BlocksTyped ==
  ASSUME IntakeInv, NEW s \in Sources, NEW from \in Nat, from > 0, NEW n \in Nat,
         from + n <= End
  PROVE  Blocks(s, from, n) \in Seq(Blks)
<1>1. serves[s] \in Branches
  BY DEF IntakeInv, IntakeTypes
<1>2. ASSUME NEW i \in 1..n PROVE Block(serves[s], from + i - 1) \in Blks
  <2>1. from + i - 1 \in 1..RangeEnd
    BY EndIsNat
  <2> QED BY <1>1, <2>1, BlockTyped
<1>3. Blocks(s, from, n) \in [1..n -> Blks]
  BY <1>2 DEF Blocks
<1> QED BY <1>3

LEMMA ReceiveKeeps ==
  ASSUME IntakeInv, NEW s \in Sources, WorkerReceive(s)
  PROVE  IntakeInv'
<1> DEFINE w == worker[s]
           k == w.range.end - w.next
<1>1. w \in WorkerType /\ w.at = "run" /\ w.next > 0 /\ w.next < w.range.end
  BY DEF WorkerReceive, IntakeInv, IntakeTypes, Positive, Busy
<1>2. /\ w.next \in Nat /\ w.range.end \in 0..End /\ k \in Nat
  BY <1>1, EndIsNat DEF WorkerType, Ranges
<1>3. PICK n \in 1..Min({Permits, k}) :
         worker' = [worker EXCEPT ![s].at = "hold", ![s].chunk = Blocks(s, w.next, n)]
  BY DEF WorkerReceive
<1>4. n \in Nat /\ w.next + n <= End
  <2>1. Permits \in Int /\ k \in Int
    BY <1>2, IntakeBoundsAssumption
  <2> DEFINE mn == Min({Permits, k})
  <2>2. mn \in Int /\ mn <= k
    BY <2>1, MinOfTwo
  <2>3. n \in 1..mn
    BY <1>3
  <2> HIDE DEF mn
  <2>4. n \in Nat /\ n <= k
    BY <1>2, <2>2, <2>3
  <2> QED BY <1>2, <2>4, EndIsNat
<1> DEFINE chunk == Blocks(s, w.next, n)
           v == [w EXCEPT !.at = "hold", !.chunk = chunk]
<1>5. chunk \in Seq(Blks) /\ Len(chunk) > 0
  <2>1. Len(chunk) = n /\ n > 0
    BY <1>3, <1>4 DEF Blocks
  <2> QED BY <1>1, <1>2, <1>4, <2>1, BlocksTyped
<1>6. worker' = [worker EXCEPT ![s] = v]
  BY <1>3 DEF IntakeInv, IntakeTypes
<1> HIDE DEF chunk, w
<1>7. v \in WorkerType /\ Busy(v)
  BY <1>1, <1>5 DEF WorkerType, Busy
<1> HIDE DEF v
<1>8. /\ UNCHANGED <<serves, pool, asm, stage, rest, stripe, events>> /\ events \in Seq(EventType)
      /\ \A i \in 1..Len(events) : events[i].kind = "failed" => events[i].resume > 0
  BY DEF WorkerReceive, outside, IntakeInv, IntakeTypes, Positive
<1> QED BY <1>6, <1>7, <1>8, WorkerKeeps

LEMMA SendKeeps ==
  ASSUME IntakeInv, NEW s \in Sources, WorkerSend(s)
  PROVE  IntakeInv'
<1> DEFINE w == worker[s]
           e == [kind |-> "chunk", by |-> s, range |-> w.range, chunk |-> w.chunk, resume |-> 0]
           none == <<>>
           m == w.next + Len(w.chunk)
           p == w.chunk[Len(w.chunk)]
           v == [w EXCEPT !.at = "run", !.next = m, !.prev = p, !.chunk = none]
<1>1. w \in WorkerType /\ w.at = "hold" /\ w.next > 0 /\ Len(w.chunk) > 0
  BY DEF WorkerSend, IntakeInv, IntakeTypes, Positive, Busy
<1>2. events' = Append(events, e) /\ worker' = [worker EXCEPT ![s] = v]
  <2>1. worker' = [worker EXCEPT ![s] = [w EXCEPT !.at = "run", !.next = @ + Len(w.chunk),
                                          !.prev = w.chunk[Len(w.chunk)], !.chunk = <<>>]]
    BY DEF WorkerSend
  <2> QED BY <1>1, <2>1 DEF WorkerSend, WorkerType
<1>3. UNCHANGED <<serves, pool, asm, stage, rest, stripe>>
  BY DEF WorkerSend, outside
<1> HIDE DEF w
<1>4. e \in EventType /\ e.kind = "chunk"
  BY <1>1 DEF EventType, WorkerType
<1>5. none \in Seq(Blks) /\ m \in Nat /\ m > 0 /\ p \in Blks
  BY <1>1 DEF WorkerType
<1> HIDE DEF none, m, p, e
<1>6. v \in WorkerType /\ Busy(v)
  BY <1>1, <1>5 DEF WorkerType, Busy
<1> HIDE DEF v
<1>7. /\ events' \in Seq(EventType)
      /\ \A i \in 1..Len(events') : events'[i].kind = "failed" => events'[i].resume > 0
  BY <1>2, <1>4, EventSent
<1> QED BY <1>2, <1>3, <1>6, <1>7, WorkerKeeps

LEMMA EndKeeps ==
  ASSUME IntakeInv, NEW s \in Sources, WorkerEnd(s)
  PROVE  IntakeInv'
<1> DEFINE w == worker[s]
           none == <<>>
           k == IF w.next = w.range.end THEN "complete" ELSE "failed"
           e == [kind |-> k, by |-> s, range |-> w.range, chunk |-> none, resume |-> w.next]
<1>1. w \in WorkerType /\ w.next > 0
  BY DEF WorkerEnd, IntakeInv, IntakeTypes, Positive, Busy
<1>2. events' = Append(events, e) /\ worker' = [worker EXCEPT ![s] = AtRest]
  BY DEF WorkerEnd
<1>3. UNCHANGED <<serves, pool, asm, stage, rest, stripe>>
  BY DEF WorkerEnd, outside
<1>4. none \in Seq(Blks) /\ k \in {"complete", "failed"}
  OBVIOUS
<1> HIDE DEF w, none, k
<1>5. e \in EventType /\ e.resume > 0
  BY <1>1, <1>4 DEF EventType, WorkerType
<1> HIDE DEF e
<1>6. /\ events' \in Seq(EventType)
      /\ \A i \in 1..Len(events') : events'[i].kind = "failed" => events'[i].resume > 0
  BY <1>2, <1>5, EventSent
<1>7. AtRest \in WorkerType /\ Busy(AtRest)
  BY RestingTyped DEF Busy
<1> QED BY <1>2, <1>3, <1>6, <1>7, WorkerKeeps

-----------------------------------------------------------------------------
LEMMA IntakeInit == Init => IntakeInv
<1> SUFFICES ASSUME Init PROVE IntakeInv
  OBVIOUS
<1> DEFINE none == <<>>
<1>1. /\ asm.next = 1 /\ asm.part = none /\ asm.prev = NoBlock /\ asm.sent = none /\ asm.ok
      /\ asm \in Asms
  <2>1. none \in Seq(Blks)
    OBVIOUS
  <2>2. asm = [next |-> 1, part |-> none, prev |-> NoBlock, sent |-> none, ok |-> TRUE]
    BY DEF Init
  <2> HIDE DEF none
  <2> QED BY <2>1, <2>2 DEF Asms
<1>2. Accepted(asm) = none /\ Len(none) = 0
  BY <1>1 DEF Accepted
<1>3. Chain(asm)
  <2> HIDE DEF none
  <2> QED BY <1>1, <1>2 DEF Chain, Chained
<1>4. pool \in PoolType
  <2> DEFINE zero == [s \in Sources |-> 0]
  <2>1. zero \in [Sources -> Nat]
    OBVIOUS
  <2>2. pool = [probed |-> FALSE, healthy |-> {}, failures |-> zero]
    BY DEF Init
  <2> HIDE DEF zero
  <2> QED BY <2>1, <2>2 DEF PoolType
<1>5. /\ stage = "prefix" /\ rest = NoRest /\ stripe = NoStripes
      /\ worker = [s \in Sources |-> AtRest] /\ events = <<>> /\ serves \in [Sources -> Branches]
  BY DEF Init
<1>6. IntakeTypes
  BY <1>4, <1>5, RestingTyped, EmptyQueues DEF IntakeTypes
<1>7. Positive
  <2>1. Len(events) = 0
    BY <1>5, EmptyQueues
  <2>2. \A s \in Sources : worker[s].at = "idle"
    BY <1>5, RestingTyped
  <2> QED BY <1>5, <2>1, <2>2, RestingTyped DEF Positive, Busy
<1>8. Stages
  BY <1>5, RestingTyped DEF Stages
<1> QED BY <1>1, <1>3, <1>6, <1>7, <1>8 DEF IntakeInv

LEMMA IntakeStep == IntakeInv /\ [Next]_vars => IntakeInv'
<1> SUFFICES ASSUME IntakeInv, [Next]_vars PROVE IntakeInv'
  OBVIOUS
<1>1. CASE UNCHANGED vars
  BY <1>1 DEF vars, IntakeInv, IntakeTypes, Positive, Stages
<1>2. CASE PrefixStep \/ PrefixDone
  BY <1>2, PrefixStepKeeps, PrefixDoneKeeps
<1>3. CASE Failover
  BY <1>3, FailoverKeeps, StreamKeeps, RestEndKeeps DEF Failover
<1>4. CASE Coordinator
  BY <1>4, AssignKeeps, AssignDoneKeeps, FlushKeeps, FlushDoneKeeps, OnChunkKeeps,
     OnCompleteKeeps, OnFailedKeeps DEF Coordinator
<1>5. CASE PoolProbed \/ Switch \/ Cancelled
  BY <1>5, PoolKeeps, CancelledKeeps
<1>6. CASE \E s \in Sources : Worker(s)
  BY <1>6, ReceiveKeeps, SendKeeps, EndKeeps DEF Worker
<1> QED BY <1>1, <1>2, <1>3, <1>4, <1>5, <1>6 DEF Next, Download

LEMMA IntakeInvImplies == IntakeInv => DeliveredLinked
<1> SUFFICES ASSUME IntakeInv PROVE DeliveredLinked
  OBVIOUS
<1> DEFINE all == asm.sent \o asm.part
<1>1. all = Accepted(asm) /\ all \in Seq(Blks) /\ Chain(asm)
  BY AcceptedTyped DEF IntakeInv, Chain, Accepted
<1> HIDE DEF all
<1>2. DOMAIN all = 1..Len(all) /\ Len(all) \in Nat
  BY <1>1
<1>3. asm.next = Len(all) + 1 /\ Chained(all)
  BY <1>1 DEF Chain
<1>4. \A i \in DOMAIN all : all[i][1] = i /\ (i > 1 => Follows(all[i], all[i - 1]))
  BY <1>2, <1>3 DEF Chained
<1>5. stage = "done" => Len(asm.sent) = RangeEnd
  BY DEF IntakeInv, Stages
<1> QED BY <1>3, <1>4, <1>5 DEF DeliveredLinked, all

(* What the caller of the download receives is one hash-linked chain         *)
(* without gap or repetition, and a finished download is the whole range,    *)
(* for any number of servers, stripes, permits, retries and branch changes.  *)
THEOREM DownloadIsChain == Spec => []DeliveredLinked
<1>1. Spec => []IntakeInv
  BY IntakeInit, IntakeStep, PTL DEF Spec
<1> QED BY <1>1, IntakeInvImplies, PTL

-----------------------------------------------------------------------------
(* Every height of the striped part is at one place. *)

Within(r, h) == r.start <= h /\ h < r.end
Ahead(w, h) == w.next <= h /\ h < w.range.end
InChunk(c, h) == \E k \in DOMAIN c : c[k][1] = h
Carries(e, h) == InChunk(e.chunk, h) \/ (e.kind = "failed" /\ e.resume <= h /\ h < e.range.end)

\* Height h is with x: a returned range, a worker, an event, a buffered chunk
\* or what is not assigned yet.
Holds(k, x, h) ==
    \/ k = 1 /\ x \in 1..Len(stripe.pending) /\ Within(stripe.pending[x], h)
    \/ k = 2 /\ x \in Sources /\ Ahead(worker[x], h)
    \/ k = 3 /\ x \in 1..Len(events) /\ Carries(events[x], h)
    \/ k = 4 /\ x \in stripe.buffered /\ InChunk(x.chunk, h)
    \/ k = 5 /\ x = 0 /\ h >= stripe.unassigned
OnePlace(h) == \E k, x : Holds(k, x, h) /\ \A m, y : Holds(m, y, h) => m = k /\ y = x

Striping == stripe.at \in {"assign", "flush", "wait"}
Covered == Striping => \A h \in asm.next..stripe.end - 1 : OnePlace(h)

\* A chunk is a run of heights, and the one a worker waits with is the next
\* of its range.
Steps(c) == Len(c) > 0 /\ \A k \in 1..Len(c) : c[k][1] = c[1][1] + k - 1
Offered(w) == w.at = "hold" => /\ Steps(w.chunk) /\ w.chunk[1][1] = w.next
                               /\ w.next + Len(w.chunk) <= w.range.end
ChunksRun ==
    /\ \A c \in stripe.buffered : Steps(c.chunk)
    /\ \A i \in 1..Len(events) : IF events[i].kind = "chunk" THEN Steps(events[i].chunk)
                                 ELSE Len(events[i].chunk) = 0
    /\ \A s \in Sources : Offered(worker[s])

\* A server is idle at most once, and then its worker rests; a worker whose
\* range has ended rests too, until the coordinator has heard of it.
Ended(i) == events[i].kind # "chunk"
Accounts ==
    /\ \A i, j \in 1..Len(stripe.idle) : stripe.idle[i] = stripe.idle[j] => i = j
    /\ \A i \in 1..Len(stripe.idle) : worker[stripe.idle[i]] = AtRest
    /\ \A i \in 1..Len(events) : Ended(i) => worker[events[i].by] = AtRest
    /\ \A i \in 1..Len(events), j \in 1..Len(stripe.idle) : Ended(i) => events[i].by # stripe.idle[j]
    /\ \A i, j \in 1..Len(events) : Ended(i) /\ Ended(j) /\ events[i].by = events[j].by => i = j
Quiet == stripe.at = "off" => worker = [s \in Sources |-> AtRest] /\ Len(events) = 0

CoverInv == Covered /\ ChunksRun /\ Accounts /\ Quiet

LEMMA RestHoldsNothing ==
  ASSUME NEW h \in Nat
  PROVE  ~Ahead(AtRest, h) /\ AtRest.at = "idle" /\ Offered(AtRest)
BY DEF Ahead, AtRest, NoRange, Offered

(* A chunk's heights are those from its first on. *)
LEMMA ChunkHeights ==
  ASSUME NEW c \in Seq(Blks), Steps(c), NEW h \in Nat
  PROVE  /\ c[1][1] \in Nat /\ Len(c) \in Nat
         /\ InChunk(c, h) <=> c[1][1] <= h /\ h < c[1][1] + Len(c)
<1> DEFINE f == c[1][1]
<1>1. /\ Len(c) \in Nat /\ Len(c) > 0 /\ DOMAIN c = 1..Len(c) /\ c[1] \in Blks
      /\ \A k \in 1..Len(c) : c[k][1] = f + k - 1
  BY DEF Steps
<1>2. f \in Nat
  BY <1>1, EndIsNat DEF Blks
<1> HIDE DEF f
<1>3. ASSUME InChunk(c, h) PROVE f <= h /\ h < f + Len(c)
  BY <1>1, <1>2, <1>3 DEF InChunk
<1>4. ASSUME f <= h, h < f + Len(c) PROVE InChunk(c, h)
  <2>1. h - f + 1 \in 1..Len(c) /\ c[h - f + 1][1] = h
    BY <1>1, <1>2, <1>4
  <2> QED BY <1>1, <2>1 DEF InChunk
<1> QED BY <1>1, <1>2, <1>3, <1>4 DEF f

(* What the state says of one height, as the property counts it. *)
LEMMA PlacesOne ==
  ASSUME IntakeInv, NEW h \in Nat, OnePlace(h)
  PROVE  Places(h) = 1
<1> DEFINE P == {i \in DOMAIN stripe.pending : stripe.pending[i].start <= h /\ h < stripe.pending[i].end}
           W == {s \in Sources : worker[s].next <= h /\ h < worker[s].range.end}
           E == {i \in DOMAIN events : \/ \E k \in DOMAIN events[i].chunk : events[i].chunk[k][1] = h
                                       \/ events[i].kind = "failed" /\ events[i].resume <= h
                                          /\ h < events[i].range.end}
           B == {c \in stripe.buffered : \E k \in DOMAIN c.chunk : c.chunk[k][1] = h}
           U == IF h >= stripe.unassigned THEN 1 ELSE 0
<1>1. Places(h) = Cardinality(P) + Cardinality(W) + Cardinality(E) + Cardinality(B) + U
  BY DEF Places
<1>2. DOMAIN stripe.pending = 1..Len(stripe.pending) /\ DOMAIN events = 1..Len(events)
  BY DEF IntakeInv, IntakeTypes, StripeType
<1>3. /\ \A x : x \in P <=> Holds(1, x, h)
      /\ \A x : x \in W <=> Holds(2, x, h)
      /\ \A x : x \in E <=> Holds(3, x, h)
      /\ \A x : x \in B <=> Holds(4, x, h)
      /\ U = IF Holds(5, 0, h) THEN 1 ELSE 0
  BY <1>2 DEF Holds, Within, Ahead, Carries, InChunk
<1> HIDE DEF P, W, E, B, U
<1>4. PICK k, x : Holds(k, x, h) /\ \A m, y : Holds(m, y, h) => m = k /\ y = x
  BY DEF OnePlace
<1>5. Cardinality({}) = 0 /\ Cardinality({x}) = 1
  BY FS_EmptySet, FS_Singleton
<1>6. k \in 1..5 /\ (k = 5 => x = 0)
  BY <1>4 DEF Holds
<1>7. CASE k = 1
  <2>1. P = {x} /\ W = {} /\ E = {} /\ B = {} /\ U = 0
    BY <1>3, <1>4, <1>7
  <2> QED BY <1>1, <1>5, <2>1
<1>8. CASE k = 2
  <2>1. P = {} /\ W = {x} /\ E = {} /\ B = {} /\ U = 0
    BY <1>3, <1>4, <1>8
  <2> QED BY <1>1, <1>5, <2>1
<1>9. CASE k = 3
  <2>1. P = {} /\ W = {} /\ E = {x} /\ B = {} /\ U = 0
    BY <1>3, <1>4, <1>9
  <2> QED BY <1>1, <1>5, <2>1
<1>10. CASE k = 4
  <2>1. P = {} /\ W = {} /\ E = {} /\ B = {x} /\ U = 0
    BY <1>3, <1>4, <1>10
  <2> QED BY <1>1, <1>5, <2>1
<1>11. CASE k = 5
  <2>1. P = {} /\ W = {} /\ E = {} /\ B = {} /\ U = 1
    BY <1>3, <1>4, <1>6, <1>11
  <2> QED BY <1>1, <1>5, <2>1
<1> QED BY <1>6, <1>7, <1>8, <1>9, <1>10, <1>11

LEMMA CoverImplies == IntakeInv /\ CoverInv => StripesCovered
<1> SUFFICES ASSUME IntakeInv, CoverInv, Striping, NEW h \in asm.next..stripe.end - 1
             PROVE  Places(h) = 1
  BY DEF StripesCovered, Striping
<1>1. h \in Nat
  BY ChainBounded, EndIsNat DEF IntakeInv, IntakeTypes, StripeType
<1>2. OnePlace(h)
  BY DEF CoverInv, Covered
<1> QED BY <1>1, <1>2, PlacesOne

(* The heights still owed are natural numbers. *)
LEMMA OwedHeights ==
  ASSUME IntakeInv
  PROVE  asm.next \in Nat /\ stripe.end \in Nat /\ \A h \in asm.next..stripe.end - 1 : h \in Nat
<1>1. asm.next \in Nat /\ asm.next > 0 /\ stripe.end \in Nat
  BY ChainBounded, EndIsNat DEF IntakeInv, IntakeTypes, StripeType
<1> QED BY <1>1

(* Nothing about the stripes changes; while striping the assembler may only advance. *)
LEMMA CoverFrame ==
  ASSUME IntakeInv, IntakeInv', CoverInv, UNCHANGED <<worker, events>>,
         stripe'.pending = stripe.pending, stripe'.idle = stripe.idle, stripe'.end = stripe.end,
         stripe'.buffered = stripe.buffered, stripe'.unassigned = stripe.unassigned,
         Striping' => Striping /\ asm'.next = asm.next,
         stripe'.at = "off" => stripe.at = "off"
  PROVE  CoverInv'
<1>1. ChunksRun' /\ Accounts' /\ Quiet'
  BY DEF CoverInv, ChunksRun, Accounts, Quiet, Ended
<1>2. ASSUME NEW h, OnePlace(h) PROVE OnePlace(h)'
  <2>1. \A k, x : Holds(k, x, h)' <=> Holds(k, x, h)
    BY DEF Holds
  <2> QED BY <1>2, <2>1 DEF OnePlace
<1>3. Covered'
  BY <1>2 DEF CoverInv, Covered
<1> QED BY <1>1, <1>3 DEF CoverInv

(* Striping is over: nobody holds anything. *)
LEMMA CoverOver ==
  ASSUME stripe' = NoStripes, worker' = [s \in Sources |-> AtRest], events' = <<>>
  PROVE  CoverInv'
<1>1. Len(events') = 0 /\ stripe'.at = "off" /\ Len(stripe'.idle) = 0 /\ stripe'.buffered = {}
  BY DEF NoStripes
<1>2. Covered' /\ Quiet' /\ Accounts'
  BY <1>1 DEF Covered, Striping, Quiet, Accounts
<1>3. \A s \in Sources : worker'[s] = AtRest
  OBVIOUS
<1>4. ChunksRun'
  BY <1>1, <1>3, RestHoldsNothing DEF ChunksRun
<1> QED BY <1>2, <1>4 DEF CoverInv

LEMMA CoverInit == Init => CoverInv
<1> SUFFICES ASSUME Init PROVE CoverInv
  OBVIOUS
<1>1. /\ stripe = NoStripes /\ worker = [s \in Sources |-> AtRest] /\ events = <<>>
  BY DEF Init
<1>2. Len(events) = 0 /\ stripe.at = "off" /\ Len(stripe.idle) = 0 /\ stripe.buffered = {}
  BY <1>1 DEF NoStripes
<1>3. Covered /\ Quiet /\ Accounts
  BY <1>1, <1>2 DEF Covered, Striping, Quiet, Accounts
<1>4. \A s \in Sources : worker[s] = AtRest
  BY <1>1
<1>5. ChunksRun
  BY <1>2, <1>4, RestHoldsNothing DEF ChunksRun
<1> QED BY <1>3, <1>5 DEF CoverInv

LEMMA AssignCovers ==
  ASSUME IntakeInv, IntakeInv', CoverInv, Assign
  PROVE  CoverInv'
<1>0. PICK s : s = Head(stripe.idle)
  OBVIOUS
<1> DEFINE back == stripe.pending # <<>>
           range == IF back THEN Head(stripe.pending) ELSE NextStripe
           w == [AtRest EXCEPT !.at = "run", !.range = range, !.next = range.start]
<1>1. /\ stripe \in StripeType /\ worker \in [Sources -> WorkerType] /\ events \in Seq(EventType)
      /\ Covered /\ ChunksRun /\ Accounts
  BY DEF IntakeInv, IntakeTypes, CoverInv
<1>2. /\ stripe.at = "assign" /\ stripe.idle # <<>> /\ HasRange
      /\ UNCHANGED <<asm, events>>
      /\ worker' = [worker EXCEPT ![s] = w]
      /\ stripe' = [stripe EXCEPT !.idle = Tail(@), !.active = @ + 1,
                          !.pending = IF back THEN Tail(@) ELSE @,
                          !.unassigned = IF back THEN @ ELSE range.end]
  BY <1>0 DEF Assign, outside
<1>3. /\ stripe'.at = "assign" /\ stripe'.idle = Tail(stripe.idle) /\ stripe'.end = stripe.end
      /\ stripe'.pending = IF back THEN Tail(stripe.pending) ELSE stripe.pending
      /\ stripe'.unassigned = IF back THEN stripe.unassigned ELSE range.end
      /\ stripe'.buffered = stripe.buffered
  BY <1>1, <1>2 DEF StripeType
<1>4. /\ stripe.idle \in Seq(Sources) /\ 1 \in 1..Len(stripe.idle) /\ s = stripe.idle[1] /\ s \in Sources
      /\ Len(stripe'.idle) = Len(stripe.idle) - 1
      /\ \A i \in 1..Len(stripe'.idle) : i + 1 \in 1..Len(stripe.idle) /\ stripe'.idle[i] = stripe.idle[i + 1]
      /\ Len(stripe.idle) \in Nat
  BY <1>0, <1>1, <1>2, <1>3 DEF StripeType
<1>5. worker[s] = AtRest
  BY <1>1, <1>4 DEF Accounts
<1>6. /\ range.start \in Nat /\ range.end \in Nat /\ stripe.unassigned \in Nat
      /\ (~back => range.start = stripe.unassigned /\ range.start < range.end)
  <2>1. CASE back
    <3>1. stripe.pending \in Seq(Ranges) /\ stripe.pending # <<>> /\ stripe.unassigned \in Nat
      BY <1>1, <2>1 DEF StripeType
    <3>2. range \in Ranges
      BY <2>1, <3>1
    <3> HIDE DEF range
    <3> QED BY <2>1, <3>1, <3>2, EndIsNat DEF Ranges
  <2>2. CASE ~back
    <3> DEFINE u == stripe.unassigned
               e == Min({u + StripeBlocks, stripe.end})
    <3>1. u \in Nat /\ u < stripe.end /\ stripe.end \in Nat
      BY <1>1, <1>2, <2>2, EndIsNat DEF StripeType, HasRange
    <3>2. StripeBlocks \in Nat /\ StripeBlocks > 0
      BY IntakeBoundsAssumption
    <3>3. e \in Nat /\ u < e
      <4>1. u + StripeBlocks \in Int /\ stripe.end \in Int
        BY <3>1, <3>2
      <4> QED BY <3>1, <3>2, <4>1, MinOfTwo
    <3>4. range = [start |-> u, attempt |-> 1, end |-> e]
      BY <2>2 DEF NextStripe
    <3> HIDE DEF e, range
    <3> QED BY <3>1, <3>3, <3>4
  <2> QED BY <2>1, <2>2
<1>7. w.at = "run" /\ w.next = range.start /\ w.range = range
  BY DEF AtRest
<1>8. (\A h : Ahead(w, h) <=> Within(range, h)) /\ Offered(w)
  <2> HIDE DEF w
  <2> QED BY <1>7 DEF Ahead, Within, Offered
<1>9. worker'[s] = w /\ \A t \in Sources \ {s} : worker'[t] = worker[t]
  BY <1>1, <1>2, <1>4
<1>10. ASSUME back PROVE Covered'
  <2>1. /\ stripe.pending \in Seq(Ranges) /\ 1 \in 1..Len(stripe.pending) /\ stripe.pending[1] = range
        /\ stripe'.pending = Tail(stripe.pending) /\ Len(stripe'.pending) = Len(stripe.pending) - 1
        /\ \A i \in 1..Len(stripe'.pending) : stripe'.pending[i] = stripe.pending[i + 1]
        /\ Len(stripe.pending) \in Nat /\ stripe'.unassigned = stripe.unassigned
    BY <1>1, <1>3, <1>10 DEF StripeType
  <2> HIDE DEF range, w, back
  <2>2. ASSUME NEW h \in Nat, OnePlace(h) PROVE OnePlace(h)'
    <3>1. PICK k, x : Holds(k, x, h) /\ \A m, y : Holds(m, y, h) => m = k /\ y = x
      BY <2>2 DEF OnePlace
    <3>2. ~Ahead(worker[s], h)
      BY <1>5, <2>2, RestHoldsNothing
    <3>3. ASSUME NEW m, NEW y, Holds(m, y, h)'
          PROVE  \/ m = 1 /\ y \in Nat /\ y > 0 /\ Holds(1, y + 1, h)
                 \/ m = 2 /\ y = s /\ Holds(1, 1, h)
                 \/ m = 2 /\ y # s /\ Holds(2, y, h)
                 \/ m \in 3..5 /\ Holds(m, y, h)
      <4>1. CASE m = 1
        BY <2>1, <3>3, <4>1 DEF Holds
      <4>2. CASE m = 2
        BY <1>8, <1>9, <2>1, <3>3, <4>2 DEF Holds
      <4>3. CASE m \in 3..5
        BY <1>2, <1>3, <2>1, <3>3, <4>3 DEF Holds
      <4> QED BY <3>3, <4>1, <4>2, <4>3 DEF Holds
    <3>4. CASE k = 1 /\ x = 1
      <4>1. Holds(2, s, h)'
        <5>1. Within(range, h)
          BY <2>1, <3>1, <3>4 DEF Holds
        <5>2. s \in Sources /\ Ahead(worker'[s], h)
          BY <1>4, <1>8, <1>9, <5>1
        <5> QED BY <5>2 DEF Holds
      <4> QED BY <3>1, <3>3, <3>4, <4>1 DEF OnePlace
    <3>5. CASE k = 1 /\ x # 1
      <4>1. x \in Nat /\ x - 1 \in 1..Len(stripe'.pending) /\ (x - 1) + 1 = x
        <5>1. x \in 1..Len(stripe.pending)
          BY <3>1, <3>5 DEF Holds
        <5> QED BY <2>1, <3>5, <5>1
      <4>2. Holds(1, x - 1, h)'
        <5>1. Within(stripe'.pending[x - 1], h)
          BY <2>1, <3>1, <3>5, <4>1 DEF Holds
        <5> QED BY <4>1, <5>1 DEF Holds
      <4>3. \A m, y : Holds(m, y, h)' => m = 1 /\ y = x - 1
        BY <3>1, <3>3, <3>5, <4>1
      <4> QED BY <4>2, <4>3 DEF OnePlace
    <3>6. CASE k = 2
      <4>1. x # s /\ Holds(2, x, h)'
        BY <1>9, <3>1, <3>2, <3>6 DEF Holds
      <4> QED BY <3>1, <3>3, <3>6, <4>1 DEF OnePlace
    <3>7. CASE k \in 3..5
      <4>1. Holds(k, x, h)'
        BY <1>2, <1>3, <2>1, <3>1, <3>7 DEF Holds
      <4> QED BY <3>1, <3>3, <3>7, <4>1 DEF OnePlace
    <3>8. k \in 1..5
      BY <3>1 DEF Holds
    <3> QED BY <3>4, <3>5, <3>6, <3>7, <3>8
  <2> QED BY <1>1, <1>2, <1>3, <2>2, OwedHeights DEF Covered, Striping
<1>11. ASSUME ~back PROVE Covered'
  <2>1. /\ stripe'.pending = stripe.pending /\ stripe'.unassigned = range.end
        /\ stripe'.buffered = stripe.buffered /\ events' = events
    BY <1>2, <1>3, <1>11
  <2> HIDE DEF range, w
  <2>2. ASSUME NEW h \in Nat, OnePlace(h) PROVE OnePlace(h)'
    <3>1. PICK k, x : Holds(k, x, h) /\ \A m, y : Holds(m, y, h) => m = k /\ y = x
      BY <2>2 DEF OnePlace
    <3>2. ~Ahead(worker[s], h)
      BY <1>5, <2>2, RestHoldsNothing
    <3>3. ASSUME NEW m, NEW y, Holds(m, y, h)'
          PROVE  \/ m \in {1, 3, 4} /\ Holds(m, y, h)
                 \/ m = 2 /\ y = s /\ Holds(5, 0, h) /\ h < range.end
                 \/ m = 2 /\ y # s /\ Holds(2, y, h)
                 \/ m = 5 /\ y = 0 /\ Holds(5, 0, h) /\ ~(h < range.end)
      <4>1. CASE m = 5
        BY <1>6, <1>11, <2>1, <3>3, <4>1 DEF Holds
      <4>2. CASE m = 2
        BY <1>6, <1>8, <1>9, <1>11, <2>1, <3>3, <4>2 DEF Holds, Within
      <4>3. CASE m \in {1, 3, 4}
        BY <2>1, <3>3, <4>3 DEF Holds
      <4> QED BY <3>3, <4>1, <4>2, <4>3 DEF Holds
    <3>4. CASE k = 5 /\ h < range.end
      <4>1. Holds(2, s, h)' /\ x = 0
        <5>1. x = 0 /\ h >= stripe.unassigned
          BY <3>1, <3>4 DEF Holds
        <5>2. Within(range, h)
          BY <1>6, <1>11, <3>4, <5>1 DEF Within
        <5>3. s \in Sources /\ Ahead(worker'[s], h)
          BY <1>4, <1>8, <1>9, <5>2
        <5> QED BY <5>1, <5>3 DEF Holds
      <4> QED BY <3>1, <3>3, <3>4, <4>1 DEF OnePlace
    <3>5. CASE k = 5 /\ ~(h < range.end)
      <4>1. Holds(5, 0, h)' /\ x = 0
        BY <1>6, <1>11, <2>1, <3>1, <3>5 DEF Holds
      <4> QED BY <3>1, <3>3, <3>5, <4>1 DEF OnePlace
    <3>6. CASE k = 2
      <4>1. x # s /\ Holds(2, x, h)'
        BY <1>9, <3>1, <3>2, <3>6 DEF Holds
      <4> QED BY <3>1, <3>3, <3>6, <4>1 DEF OnePlace
    <3>7. CASE k \in {1, 3, 4}
      <4>1. Holds(k, x, h)'
        BY <2>1, <3>1, <3>7 DEF Holds
      <4> QED BY <3>1, <3>3, <3>7, <4>1 DEF OnePlace
    <3>8. k \in 1..5
      BY <3>1 DEF Holds
    <3> QED BY <3>4, <3>5, <3>6, <3>7, <3>8
  <2> QED BY <1>1, <1>2, <1>3, <2>2, OwedHeights DEF Covered, Striping
<1>12. Covered'
  BY <1>10, <1>11
<1> HIDE DEF w
<1>13. ChunksRun'
  BY <1>1, <1>2, <1>3, <1>8, <1>9 DEF ChunksRun
<1>14. Accounts'
  <2>1. \A i \in 1..Len(stripe'.idle) : stripe'.idle[i] # s /\ stripe'.idle[i] \in Sources
    BY <1>1, <1>4 DEF Accounts
  <2>2. \A i, j \in 1..Len(stripe'.idle) : stripe'.idle[i] = stripe'.idle[j] => i = j
    <3> SUFFICES ASSUME NEW i \in 1..Len(stripe'.idle), NEW j \in 1..Len(stripe'.idle),
                        stripe'.idle[i] = stripe'.idle[j] PROVE i = j
      OBVIOUS
    <3>1. i + 1 = j + 1
      BY <1>1, <1>4 DEF Accounts
    <3> QED BY <1>4, <3>1
  <2>3. \A i \in 1..Len(stripe'.idle) : worker'[stripe'.idle[i]] = AtRest
    <3> SUFFICES ASSUME NEW i \in 1..Len(stripe'.idle) PROVE worker'[stripe'.idle[i]] = AtRest
      OBVIOUS
    <3>1. worker[stripe'.idle[i]] = AtRest
      BY <1>1, <1>4 DEF Accounts
    <3> QED BY <1>9, <2>1, <3>1
  <2>4. \A i \in 1..Len(events) : Ended(i) => events[i].by # s /\ worker'[events[i].by] = AtRest
    <3> SUFFICES ASSUME NEW i \in 1..Len(events), Ended(i)
                 PROVE  events[i].by # s /\ worker'[events[i].by] = AtRest
      OBVIOUS
    <3>1. events[i].by \in Sources
      <4>1. events[i] \in EventType
        BY <1>1
      <4> QED BY <4>1 DEF EventType
    <3>2. events[i].by # s
      BY <1>1, <1>4 DEF Accounts
    <3> QED BY <1>1, <1>9, <3>1, <3>2 DEF Accounts
  <2>5. \A i \in 1..Len(events), j \in 1..Len(stripe'.idle) : Ended(i) => events[i].by # stripe'.idle[j]
    BY <1>1, <1>4 DEF Accounts
  <2> QED BY <1>1, <1>2, <2>2, <2>3, <2>4, <2>5 DEF Accounts, Ended
<1>15. Quiet'
  BY <1>3 DEF Quiet
<1> QED BY <1>12, <1>13, <1>14, <1>15 DEF CoverInv

(* The workers. *)

LEMMA ReceiveCovers ==
  ASSUME IntakeInv, IntakeInv', CoverInv, NEW s \in Sources, WorkerReceive(s)
  PROVE  CoverInv'
<1> DEFINE w == worker[s]
           k == w.range.end - w.next
<1>1. /\ w \in WorkerType /\ w.at = "run" /\ w.next < w.range.end /\ w.next > 0
      /\ worker \in [Sources -> WorkerType] /\ Covered /\ ChunksRun /\ Accounts /\ Quiet
  BY DEF WorkerReceive, IntakeInv, IntakeTypes, CoverInv, Positive, Busy
<1>2. /\ w.next \in Nat /\ w.range.end \in Nat /\ k \in Nat
  BY <1>1, EndIsNat DEF WorkerType, Ranges
<1>3. PICK n \in 1..Min({Permits, k}) :
         worker' = [worker EXCEPT ![s].at = "hold", ![s].chunk = Blocks(s, w.next, n)]
  BY DEF WorkerReceive
<1>4. n \in Nat /\ n > 0 /\ n <= k
  <2>1. Permits \in Int /\ k \in Int
    BY <1>2, IntakeBoundsAssumption
  <2> DEFINE mn == Min({Permits, k})
  <2>2. mn \in Int /\ mn <= k
    BY <2>1, MinOfTwo
  <2>3. n \in 1..mn
    BY <1>3
  <2> HIDE DEF mn
  <2> QED BY <1>2, <2>2, <2>3
<1> DEFINE chunk == Blocks(s, w.next, n)
           v == [w EXCEPT !.at = "hold", !.chunk = chunk]
<1>5. Len(chunk) = n /\ \A i \in 1..n : chunk[i][1] = w.next + i - 1
  BY <1>4 DEF Blocks, Block
<1>6. worker' = [worker EXCEPT ![s] = v] /\ UNCHANGED <<asm, stripe, events>>
  BY <1>3 DEF IntakeInv, IntakeTypes, WorkerReceive
<1>7. Steps(chunk) /\ chunk[1][1] = w.next /\ w.next + Len(chunk) <= w.range.end
  <2> HIDE DEF chunk
  <2>1. chunk[1][1] = w.next
    BY <1>2, <1>4, <1>5
  <2> QED BY <1>2, <1>4, <1>5, <2>1 DEF Steps
<1> HIDE DEF chunk
<1>8. v.next = w.next /\ v.range = w.range /\ v.at = "hold" /\ v.chunk = chunk
  BY <1>1 DEF WorkerType
<1>9. w # AtRest
  BY <1>1, RestingTyped
<1> HIDE DEF w, v
<1>10. Offered(v) /\ \A h : Ahead(v, h) <=> Ahead(w, h)
  BY <1>7, <1>8 DEF Offered, Ahead
<1>11. worker'[s] = v /\ w = worker[s] /\ \A t \in Sources \ {s} : worker'[t] = worker[t]
  BY <1>1, <1>6 DEF w
<1>12. ASSUME NEW h, OnePlace(h) PROVE OnePlace(h)'
  <2>1. \A m, y : Holds(m, y, h)' <=> Holds(m, y, h)
    BY <1>6, <1>10, <1>11 DEF Holds
  <2> QED BY <1>12, <2>1 DEF OnePlace
<1>13. Covered'
  BY <1>1, <1>6, <1>12 DEF Covered, Striping
<1>14. ChunksRun'
  BY <1>1, <1>6, <1>10, <1>11 DEF ChunksRun
<1>15. \A t \in Sources : worker[t] = AtRest => worker'[t] = AtRest
  BY <1>9, <1>11
<1>16. Accounts'
  <2>1. events \in Seq(EventType) /\ stripe.idle \in Seq(Sources)
    BY DEF IntakeInv, IntakeTypes, StripeType
  <2>2. \A i \in 1..Len(stripe.idle) : worker'[stripe.idle[i]] = AtRest
    BY <1>1, <1>15, <2>1 DEF Accounts
  <2>3. \A i \in 1..Len(events) : events[i].by \in Sources
    <3> SUFFICES ASSUME NEW i \in 1..Len(events) PROVE events[i].by \in Sources
      OBVIOUS
    <3>1. events[i] \in EventType
      BY <2>1
    <3> QED BY <3>1 DEF EventType
  <2>4. \A i \in 1..Len(events) : Ended(i) => worker'[events[i].by] = AtRest
    BY <1>1, <1>15, <2>3 DEF Accounts
  <2> QED BY <1>1, <1>6, <2>2, <2>4 DEF Accounts, Ended
<1>17. Quiet'
  <2>1. stripe.at # "off"
    BY <1>1, <1>9, <1>11 DEF Quiet
  <2> QED BY <1>6, <2>1 DEF Quiet
<1> QED BY <1>13, <1>14, <1>16, <1>17 DEF CoverInv

(* A worker sends an event: the new last one of the channel. *)
LEMMA ChannelGrows ==
  ASSUME IntakeInv, NEW e \in EventType
  PROVE  /\ Len(events) \in Nat /\ Len(Append(events, e)) = Len(events) + 1
         /\ Append(events, e)[Len(events) + 1] = e
         /\ \A i \in 1..Len(events) : Append(events, e)[i] = events[i] /\ events[i].by \in Sources
<1>1. events \in Seq(EventType)
  BY DEF IntakeInv, IntakeTypes
<1>2. ASSUME NEW i \in 1..Len(events) PROVE events[i].by \in Sources
  <2>1. events[i] \in EventType
    BY <1>1
  <2> QED BY <2>1 DEF EventType
<1> QED BY <1>1, <1>2

LEMMA SendCovers ==
  ASSUME IntakeInv, IntakeInv', CoverInv, NEW s \in Sources, WorkerSend(s)
  PROVE  CoverInv'
<1> DEFINE w == worker[s]
           e == [kind |-> "chunk", by |-> s, range |-> w.range, chunk |-> w.chunk, resume |-> 0]
           none == <<>>
           m == w.next + Len(w.chunk)
           p == w.chunk[Len(w.chunk)]
           v == [w EXCEPT !.at = "run", !.next = m, !.prev = p, !.chunk = none]
<1>0. PICK n : n = Len(events) + 1
  OBVIOUS
<1>1. /\ w \in WorkerType /\ w.at = "hold" /\ worker \in [Sources -> WorkerType]
      /\ Covered /\ ChunksRun /\ Accounts /\ Quiet
  BY DEF WorkerSend, IntakeInv, IntakeTypes, CoverInv
<1>2. /\ events' = Append(events, e) /\ worker' = [worker EXCEPT ![s] = v]
      /\ UNCHANGED <<asm, stripe>>
  <2>1. worker' = [worker EXCEPT ![s] = [w EXCEPT !.at = "run", !.next = @ + Len(w.chunk),
                                          !.prev = w.chunk[Len(w.chunk)], !.chunk = <<>>]]
    BY DEF WorkerSend
  <2> QED BY <1>1, <2>1 DEF WorkerSend, WorkerType, outside
<1>3. v.at = "run" /\ v.next = m /\ v.range = w.range
  BY <1>1 DEF WorkerType
<1>4. w # AtRest /\ Offered(w)
  BY <1>1, RestingTyped DEF ChunksRun
<1> HIDE DEF none, p, v
<1>5. worker'[s] = v /\ w = worker[s] /\ \A t \in Sources \ {s} : worker'[t] = worker[t]
  BY <1>1, <1>2
<1> HIDE DEF w
<1>6. /\ w.chunk \in Seq(Blks) /\ Steps(w.chunk) /\ w.chunk[1][1] = w.next /\ m <= w.range.end
      /\ w.range.end \in Nat /\ w.next \in Nat /\ Len(w.chunk) \in Nat
  BY <1>1, <1>4, EndIsNat DEF WorkerType, Offered, Ranges
<1>7. e \in EventType /\ e.kind = "chunk" /\ e.chunk = w.chunk /\ e.by = s
  BY <1>1 DEF EventType, WorkerType
<1> HIDE DEF e
<1>8. /\ Len(events) \in Nat /\ n \in Nat /\ Len(events') = n /\ events'[n] = e
      /\ n = Len(events) + 1
      /\ \A i \in 1..Len(events) : events'[i] = events[i] /\ events[i].by \in Sources
  BY <1>0, <1>2, <1>7, ChannelGrows
<1>9. ASSUME NEW h \in Nat, OnePlace(h) PROVE OnePlace(h)'
  <2>1. Carries(e, h) <=> w.next <= h /\ h < m
    BY <1>6, <1>7, <1>9, ChunkHeights DEF Carries
  <2>2. /\ Ahead(w, h) <=> Carries(e, h) \/ Ahead(v, h)
        /\ ~(Carries(e, h) /\ Ahead(v, h))
    <3> HIDE DEF m
    <3>1. m \in Nat /\ w.next <= m
      BY <1>6 DEF m
    <3> QED BY <1>3, <1>6, <1>9, <2>1, <3>1 DEF Ahead
  <2>3. PICK k, x : Holds(k, x, h) /\ \A o, y : Holds(o, y, h) => o = k /\ y = x
    BY <1>9 DEF OnePlace
  <2>4. ASSUME NEW o, NEW y, Holds(o, y, h)'
        PROVE  \/ o \in {1, 4, 5} /\ Holds(o, y, h)
               \/ o = 2 /\ y = s /\ Holds(2, s, h) /\ ~Carries(e, h)
               \/ o = 2 /\ y # s /\ Holds(2, y, h)
               \/ o = 3 /\ y = n /\ Holds(2, s, h) /\ Carries(e, h)
               \/ o = 3 /\ y \in 1..Len(events) /\ Holds(3, y, h)
    <3>1. CASE o \in {1, 4, 5}
      BY <1>2, <2>4, <3>1 DEF Holds
    <3>2. CASE o = 2
      <4>1. y \in Sources /\ Ahead(worker'[y], h)
        BY <2>4, <3>2 DEF Holds
      <4>2. CASE y = s
        BY <1>5, <2>2, <3>2, <4>1, <4>2 DEF Holds
      <4>3. CASE y # s
        BY <1>5, <3>2, <4>1, <4>3 DEF Holds
      <4> QED BY <4>2, <4>3
    <3>3. CASE o = 3
      <4>1. y \in 1..n /\ Carries(events'[y], h)
        BY <1>8, <2>4, <3>3 DEF Holds
      <4>2. CASE y = n
        <5>1. Ahead(worker[s], h) /\ Carries(e, h)
          BY <1>5, <1>8, <2>2, <4>1, <4>2
        <5> QED BY <3>3, <4>2, <5>1 DEF Holds
      <4>3. CASE y # n
        <5>1. y \in 1..Len(events) /\ Carries(events[y], h)
          BY <1>8, <4>1, <4>3
        <5> QED BY <3>3, <5>1 DEF Holds
      <4> QED BY <4>2, <4>3
    <3> QED BY <2>4, <3>1, <3>2, <3>3 DEF Holds
  <2>5. CASE k = 2 /\ x = s /\ Carries(e, h)
    <3>1. n \in 1..Len(events') /\ Carries(events'[n], h)
      BY <1>8, <2>5
    <3>2. Holds(3, n, h)'
      BY <3>1 DEF Holds
    <3>3. \A o, y : Holds(o, y, h)' => o = 3 /\ y = n
      BY <2>3, <2>4, <2>5
    <3> QED BY <3>2, <3>3 DEF OnePlace
  <2>6. CASE k = 2 /\ x = s /\ ~Carries(e, h)
    <3>1. Ahead(worker'[s], h)
      <4>1. Ahead(w, h)
        BY <1>5, <2>3, <2>6 DEF Holds
      <4> QED BY <1>5, <2>2, <2>6, <4>1
    <3>2. Holds(2, s, h)'
      BY <3>1 DEF Holds
    <3>3. \A o, y : Holds(o, y, h)' => o = 2 /\ y = s
      BY <2>3, <2>4, <2>6
    <3> QED BY <3>2, <3>3 DEF OnePlace
  <2>7. CASE k = 2 /\ x # s
    <3>1. Holds(2, x, h)'
      BY <1>5, <2>3, <2>7 DEF Holds
    <3> QED BY <2>3, <2>4, <2>7, <3>1 DEF OnePlace
  <2>8. CASE k = 3
    <3>1. x \in 1..Len(events) /\ Carries(events[x], h)
      BY <2>3, <2>8 DEF Holds
    <3>2. x \in 1..Len(events') /\ Carries(events'[x], h)
      BY <1>8, <3>1
    <3>3. Holds(3, x, h)'
      BY <3>2 DEF Holds
    <3> QED BY <2>3, <2>4, <2>8, <3>3 DEF OnePlace
  <2>9. CASE k \in {1, 4, 5}
    <3>1. Holds(k, x, h)'
      BY <1>2, <2>3, <2>9 DEF Holds
    <3> QED BY <2>3, <2>4, <2>9, <3>1 DEF OnePlace
  <2>10. k \in 1..5
    BY <2>3 DEF Holds
  <2> QED BY <2>5, <2>6, <2>7, <2>8, <2>9, <2>10
<1>10. Covered'
  BY <1>1, <1>2, <1>9, OwedHeights DEF Covered, Striping
<1>11. Offered(v)
  BY <1>3 DEF Offered
<1>12. ChunksRun'
  <2>1. ASSUME NEW i \in 1..Len(events')
        PROVE  IF events'[i].kind = "chunk" THEN Steps(events'[i].chunk) ELSE Len(events'[i].chunk) = 0
    <3>1. CASE i = n
      BY <1>6, <1>7, <1>8, <3>1
    <3>2. CASE i # n
      <4>1. i \in 1..Len(events) /\ events'[i] = events[i]
        BY <1>8, <3>2
      <4> QED BY <1>1, <4>1 DEF ChunksRun
    <3> QED BY <3>1, <3>2
  <2>2. \A t \in Sources : Offered(worker'[t])
    BY <1>1, <1>5, <1>11 DEF ChunksRun
  <2> QED BY <1>1, <1>2, <2>1, <2>2 DEF ChunksRun
<1>13. \A t \in Sources : worker[t] = AtRest => worker'[t] = AtRest
  BY <1>4, <1>5
<1>14. Accounts'
  <2>1. stripe.idle \in Seq(Sources)
    BY DEF IntakeInv, IntakeTypes, StripeType
  <2>2. \A i \in 1..Len(stripe.idle) : worker'[stripe.idle[i]] = AtRest
    BY <1>1, <1>13, <2>1 DEF Accounts
  <2>3. ASSUME NEW i \in 1..Len(events'), events'[i].kind # "chunk"
        PROVE  i \in 1..Len(events) /\ events'[i] = events[i] /\ Ended(i)
    BY <1>7, <1>8, <2>3 DEF Ended
  <2>4. \A i \in 1..Len(events') : events'[i].kind # "chunk" => worker'[events'[i].by] = AtRest
    BY <1>1, <1>8, <1>13, <2>3 DEF Accounts
  <2>5. \A i \in 1..Len(events'), j \in 1..Len(stripe.idle) :
           events'[i].kind # "chunk" => events'[i].by # stripe.idle[j]
    BY <1>1, <2>3 DEF Accounts
  <2>6. \A i, j \in 1..Len(events') :
           events'[i].kind # "chunk" /\ events'[j].kind # "chunk" /\ events'[i].by = events'[j].by => i = j
    BY <1>1, <2>3 DEF Accounts
  <2> QED BY <1>1, <1>2, <2>2, <2>4, <2>5, <2>6 DEF Accounts, Ended
<1>15. Quiet'
  <2>1. stripe.at # "off"
    BY <1>1, <1>4, <1>5 DEF Quiet
  <2> QED BY <1>2, <2>1 DEF Quiet
<1> QED BY <1>10, <1>12, <1>14, <1>15 DEF CoverInv

LEMMA EndCovers ==
  ASSUME IntakeInv, IntakeInv', CoverInv, NEW s \in Sources, WorkerEnd(s)
  PROVE  CoverInv'
<1> DEFINE w == worker[s]
           none == <<>>
           q == IF w.next = w.range.end THEN "complete" ELSE "failed"
           e == [kind |-> q, by |-> s, range |-> w.range, chunk |-> none, resume |-> w.next]
<1>0. PICK n : n = Len(events) + 1
  OBVIOUS
<1>1. /\ w \in WorkerType /\ w.at = "run" /\ worker \in [Sources -> WorkerType]
      /\ Covered /\ ChunksRun /\ Accounts /\ Quiet
  BY DEF WorkerEnd, IntakeInv, IntakeTypes, CoverInv
<1>2. /\ events' = Append(events, e) /\ worker' = [worker EXCEPT ![s] = AtRest]
      /\ UNCHANGED <<asm, stripe>>
  BY DEF WorkerEnd, outside
<1>3. w # AtRest
  BY <1>1, RestingTyped
<1>4. worker'[s] = AtRest /\ w = worker[s] /\ \A t \in Sources \ {s} : worker'[t] = worker[t]
  BY <1>1, <1>2
<1> HIDE DEF w
<1>5. none \in Seq(Blks) /\ Len(none) = 0 /\ ~\E k \in DOMAIN none : none[k][1] = none[k][1]
  OBVIOUS
<1>6. /\ e \in EventType /\ e.kind = q /\ e.kind # "chunk" /\ e.chunk = none /\ e.by = s
      /\ e.range = w.range /\ e.resume = w.next /\ w.range.end \in Nat /\ w.next \in Nat
  <2>1. q \in {"complete", "failed"}
    OBVIOUS
  <2> HIDE DEF q, none
  <2> QED BY <1>1, <1>5, <2>1, EndIsNat DEF EventType, WorkerType, Ranges
<1> HIDE DEF e
<1>7. /\ Len(events) \in Nat /\ n \in Nat /\ Len(events') = n /\ events'[n] = e
      /\ n = Len(events) + 1
      /\ \A i \in 1..Len(events) : events'[i] = events[i] /\ events[i].by \in Sources
  BY <1>0, <1>2, <1>6, ChannelGrows
<1>8. ASSUME NEW h \in Nat, OnePlace(h) PROVE OnePlace(h)'
  <2>1. ~InChunk(e.chunk, h)
    <3> HIDE DEF none
    <3> QED BY <1>5, <1>6 DEF InChunk
  <2>2. Carries(e, h) <=> Ahead(w, h)
    BY <1>6, <1>8, <2>1 DEF Carries, Ahead, q
  <2>3. PICK k, x : Holds(k, x, h) /\ \A o, y : Holds(o, y, h) => o = k /\ y = x
    BY <1>8 DEF OnePlace
  <2>4. ASSUME NEW o, NEW y, Holds(o, y, h)'
        PROVE  \/ o \in {1, 4, 5} /\ Holds(o, y, h)
               \/ o = 2 /\ y # s /\ Holds(2, y, h)
               \/ o = 3 /\ y = n /\ Holds(2, s, h)
               \/ o = 3 /\ y \in 1..Len(events) /\ Holds(3, y, h)
    <3>1. CASE o \in {1, 4, 5}
      BY <1>2, <2>4, <3>1 DEF Holds
    <3>2. CASE o = 2
      <4>1. y \in Sources /\ Ahead(worker'[y], h)
        BY <2>4, <3>2 DEF Holds
      <4>2. y # s
        BY <1>4, <1>8, <4>1, RestHoldsNothing
      <4> QED BY <1>4, <3>2, <4>1, <4>2 DEF Holds
    <3>3. CASE o = 3
      <4>1. y \in 1..n /\ Carries(events'[y], h)
        BY <1>7, <2>4, <3>3 DEF Holds
      <4>2. CASE y = n
        <5>1. Ahead(worker[s], h)
          BY <1>4, <1>7, <2>2, <4>1, <4>2
        <5> QED BY <3>3, <4>2, <5>1 DEF Holds
      <4>3. CASE y # n
        <5>1. y \in 1..Len(events) /\ Carries(events[y], h)
          BY <1>7, <4>1, <4>3
        <5> QED BY <3>3, <5>1 DEF Holds
      <4> QED BY <4>2, <4>3
    <3> QED BY <2>4, <3>1, <3>2, <3>3 DEF Holds
  <2>5. CASE k = 2 /\ x = s
    <3>1. Ahead(worker[s], h)
      BY <2>3, <2>5 DEF Holds
    <3>2. n \in 1..Len(events') /\ Carries(events'[n], h)
      BY <1>4, <1>7, <2>2, <3>1
    <3>3. Holds(3, n, h)'
      BY <3>2 DEF Holds
    <3>4. \A o, y : Holds(o, y, h)' => o = 3 /\ y = n
      BY <2>3, <2>4, <2>5
    <3> QED BY <3>3, <3>4 DEF OnePlace
  <2>6. CASE k = 2 /\ x # s
    <3>1. Holds(2, x, h)'
      BY <1>4, <2>3, <2>6 DEF Holds
    <3> QED BY <2>3, <2>4, <2>6, <3>1 DEF OnePlace
  <2>7. CASE k = 3
    <3>1. x \in 1..Len(events) /\ Carries(events[x], h)
      BY <2>3, <2>7 DEF Holds
    <3>2. x \in 1..Len(events') /\ Carries(events'[x], h)
      BY <1>7, <3>1
    <3>3. Holds(3, x, h)'
      BY <3>2 DEF Holds
    <3> QED BY <2>3, <2>4, <2>7, <3>3 DEF OnePlace
  <2>8. CASE k \in {1, 4, 5}
    <3>1. Holds(k, x, h)'
      BY <1>2, <2>3, <2>8 DEF Holds
    <3> QED BY <2>3, <2>4, <2>8, <3>1 DEF OnePlace
  <2>9. k \in 1..5
    BY <2>3 DEF Holds
  <2> QED BY <2>5, <2>6, <2>7, <2>8, <2>9
<1>9. Covered'
  BY <1>1, <1>2, <1>8, OwedHeights DEF Covered, Striping
<1>10. ChunksRun'
  <2>1. ASSUME NEW i \in 1..Len(events')
        PROVE  IF events'[i].kind = "chunk" THEN Steps(events'[i].chunk) ELSE Len(events'[i].chunk) = 0
    <3>1. CASE i = n
      <4> HIDE DEF none
      <4> QED BY <1>5, <1>6, <1>7, <3>1
    <3>2. CASE i # n
      <4>1. i \in 1..Len(events) /\ events'[i] = events[i]
        BY <1>7, <3>2
      <4> QED BY <1>1, <4>1 DEF ChunksRun
    <3> QED BY <3>1, <3>2
  <2>2. \A t \in Sources : Offered(worker'[t])
    BY <1>1, <1>4, RestHoldsNothing DEF ChunksRun
  <2> QED BY <1>1, <1>2, <2>1, <2>2 DEF ChunksRun
<1>11. \A t \in Sources : worker[t] = AtRest => t # s /\ worker'[t] = AtRest
  BY <1>3, <1>4
<1>12. Accounts'
  <2>1. stripe.idle \in Seq(Sources)
    BY DEF IntakeInv, IntakeTypes, StripeType
  <2>2. \A i \in 1..Len(stripe.idle) : stripe.idle[i] # s /\ worker'[stripe.idle[i]] = AtRest
    BY <1>1, <1>11, <2>1 DEF Accounts
  <2>3. ASSUME NEW i \in 1..Len(events'), events'[i].kind # "chunk"
        PROVE  \/ i = n /\ events'[i].by = s
               \/ i \in 1..Len(events) /\ events'[i] = events[i] /\ Ended(i) /\ events[i].by # s
    <3>1. CASE i = n
      BY <1>6, <1>7, <3>1
    <3>2. CASE i # n
      <4>1. i \in 1..Len(events) /\ events'[i] = events[i] /\ Ended(i) /\ events[i].by \in Sources
        BY <1>7, <2>3, <3>2 DEF Ended
      <4> QED BY <1>1, <1>11, <4>1 DEF Accounts
    <3> QED BY <3>1, <3>2
  <2>4. ASSUME NEW i \in 1..Len(events'), events'[i].kind # "chunk"
        PROVE  worker'[events'[i].by] = AtRest
    BY <1>1, <1>4, <1>7, <1>11, <2>3, <2>4 DEF Accounts
  <2>5. \A i \in 1..Len(events'), j \in 1..Len(stripe.idle) :
           events'[i].kind # "chunk" => events'[i].by # stripe.idle[j]
    BY <1>1, <2>2, <2>3 DEF Accounts
  <2>6. \A i, j \in 1..Len(events') :
           events'[i].kind # "chunk" /\ events'[j].kind # "chunk" /\ events'[i].by = events'[j].by => i = j
    BY <1>1, <2>3 DEF Accounts
  <2> QED BY <1>1, <1>2, <2>2, <2>4, <2>5, <2>6 DEF Accounts, Ended
<1>13. Quiet'
  <2>1. stripe.at # "off"
    BY <1>1, <1>3, <1>4 DEF Quiet
  <2> QED BY <1>2, <2>1 DEF Quiet
<1> QED BY <1>9, <1>10, <1>12, <1>13 DEF CoverInv

(* The coordinator takes the oldest event. *)
LEMMA ChannelShrinks ==
  ASSUME IntakeInv, events # <<>>
  PROVE  /\ Len(events) \in Nat /\ 1 \in 1..Len(events) /\ Head(events) = events[1]
         /\ Len(Tail(events)) = Len(events) - 1
         /\ \A i \in 1..Len(Tail(events)) : i + 1 \in 1..Len(events) /\ Tail(events)[i] = events[i + 1]
         /\ Head(events) \in EventType
BY DEF IntakeInv, IntakeTypes

(* Every other event moves up by one. *)
LEMMA EventsMoveUp ==
  ASSUME IntakeInv, events # <<>>, events' = Tail(events), NEW h
  PROVE  /\ \A y : Holds(3, y, h)' => y \in Nat /\ y > 0 /\ Holds(3, y + 1, h)
         /\ \A x : Holds(3, x, h) => x \in Nat /\ x > 0 /\ (x # 1 => Holds(3, x - 1, h)')
<1>1. /\ Len(events) \in Nat /\ Len(events') = Len(events) - 1
      /\ \A i \in 1..Len(events') : i + 1 \in 1..Len(events) /\ events'[i] = events[i + 1]
  BY ChannelShrinks
<1>2. ASSUME NEW y, Holds(3, y, h)' PROVE y \in Nat /\ y > 0 /\ Holds(3, y + 1, h)
  <2>1. y \in 1..Len(events') /\ Carries(events'[y], h)
    BY <1>2 DEF Holds
  <2>2. y + 1 \in 1..Len(events) /\ Carries(events[y + 1], h) /\ y \in Nat /\ y > 0
    BY <1>1, <2>1
  <2> QED BY <2>2 DEF Holds
<1>3. ASSUME NEW x, Holds(3, x, h) PROVE x \in Nat /\ x > 0 /\ (x # 1 => Holds(3, x - 1, h)')
  <2>1. x \in 1..Len(events) /\ Carries(events[x], h)
    BY <1>3 DEF Holds
  <2>2. ASSUME x # 1 PROVE Holds(3, x - 1, h)'
    <3>1. x - 1 \in 1..Len(events') /\ (x - 1) + 1 = x
      BY <1>1, <2>1, <2>2
    <3>2. Carries(events'[x - 1], h)
      BY <1>1, <2>1, <3>1
    <3> QED BY <3>1, <3>2 DEF Holds
  <2> QED BY <1>1, <2>1, <2>2
<1> QED BY <1>2, <1>3

(* What is known of the events left, and of the server the event was from. *)
LEMMA EventsLeft ==
  ASSUME IntakeInv, CoverInv, events # <<>>, events' = Tail(events), UNCHANGED worker
  PROVE  /\ \A i \in 1..Len(events') : IF events'[i].kind = "chunk" THEN Steps(events'[i].chunk)
                                       ELSE Len(events'[i].chunk) = 0
         /\ \A i \in 1..Len(events') : events'[i].kind # "chunk" => worker'[events'[i].by] = AtRest
         /\ \A i \in 1..Len(events'), j \in 1..Len(stripe.idle) :
              events'[i].kind # "chunk" => events'[i].by # stripe.idle[j]
         /\ \A i, j \in 1..Len(events') :
              events'[i].kind # "chunk" /\ events'[j].kind # "chunk" /\ events'[i].by = events'[j].by
              => i = j
         /\ Head(events).kind # "chunk" =>
              /\ worker[Head(events).by] = AtRest
              /\ \A i \in 1..Len(events') : events'[i].kind # "chunk" => events'[i].by # Head(events).by
              /\ \A j \in 1..Len(stripe.idle) : stripe.idle[j] # Head(events).by
<1>1. /\ Len(events) \in Nat /\ 1 \in 1..Len(events) /\ Head(events) = events[1]
      /\ Len(events') = Len(events) - 1
      /\ \A i \in 1..Len(events') : i + 1 \in 1..Len(events) /\ events'[i] = events[i + 1]
  BY ChannelShrinks
<1>2. ChunksRun /\ Accounts
  BY DEF CoverInv
<1>3. \A i \in 1..Len(events') : IF events'[i].kind = "chunk" THEN Steps(events'[i].chunk)
                                       ELSE Len(events'[i].chunk) = 0
  BY <1>1, <1>2 DEF ChunksRun
<1>4. \A i \in 1..Len(events') : events'[i].kind # "chunk" => worker'[events'[i].by] = AtRest
  BY <1>1, <1>2 DEF Accounts, Ended
<1>5. \A i \in 1..Len(events'), j \in 1..Len(stripe.idle) :
              events'[i].kind # "chunk" => events'[i].by # stripe.idle[j]
  BY <1>1, <1>2 DEF Accounts, Ended
<1>6. ASSUME NEW i \in 1..Len(events'), NEW j \in 1..Len(events'), events'[i].kind # "chunk",
             events'[j].kind # "chunk", events'[i].by = events'[j].by
      PROVE  i = j
  <2>1. i + 1 = j + 1
    BY <1>1, <1>2, <1>6 DEF Accounts, Ended
  <2> QED BY <1>1, <2>1
<1>7. ASSUME Head(events).kind # "chunk"
      PROVE  /\ worker[Head(events).by] = AtRest
             /\ \A i \in 1..Len(events') : events'[i].kind # "chunk" => events'[i].by # Head(events).by
             /\ \A j \in 1..Len(stripe.idle) : stripe.idle[j] # Head(events).by
  <2>1. Ended(1)
    BY <1>1, <1>7 DEF Ended
  <2>2. ASSUME NEW i \in 1..Len(events'), events'[i].kind # "chunk", events'[i].by = Head(events).by
        PROVE  FALSE
    <3>1. i + 1 = 1
      BY <1>1, <1>2, <2>1, <2>2 DEF Accounts, Ended
    <3> QED BY <1>1, <3>1
  <2> QED BY <1>1, <1>2, <2>1, <2>2 DEF Accounts
<1> QED BY <1>3, <1>4, <1>5, <1>6, <1>7

LEMMA OnChunkCovers ==
  ASSUME IntakeInv, IntakeInv', CoverInv, OnChunk
  PROVE  CoverInv'
<1>0. PICK e : e = Head(events)
  OBVIOUS
<1>00. PICK c : c = [by |-> e.by, chunk |-> e.chunk]
  OBVIOUS
<1>1. /\ stripe \in StripeType /\ Covered /\ ChunksRun /\ Accounts
  BY DEF IntakeInv, IntakeTypes, CoverInv
<1>2. /\ stripe.at = "wait" /\ events # <<>> /\ e.kind = "chunk" /\ UNCHANGED asm
      /\ \/ LeaveStriping("rest")
         \/ /\ ~Overlaps(e)
            /\ stripe' = [stripe EXCEPT !.at = "assign", !.buffered = @ \cup {c}]
            /\ events' = Tail(events) /\ UNCHANGED worker
  BY <1>0, <1>00 DEF OnChunk
<1>3. CASE LeaveStriping("rest")
  BY <1>3, CoverOver DEF LeaveStriping
<1>4. CASE /\ ~Overlaps(e)
           /\ stripe' = [stripe EXCEPT !.at = "assign", !.buffered = @ \cup {c}]
           /\ events' = Tail(events) /\ UNCHANGED worker
  <2>1. /\ stripe'.at = "assign" /\ stripe'.buffered = stripe.buffered \cup {c}
        /\ stripe'.idle = stripe.idle /\ stripe'.pending = stripe.pending
        /\ stripe'.unassigned = stripe.unassigned /\ stripe'.end = stripe.end
    BY <1>1, <1>4 DEF StripeType
  <2>2. /\ 1 \in 1..Len(events) /\ e = events[1] /\ e \in EventType
    BY <1>0, <1>2, ChannelShrinks
  <2>3. Steps(e.chunk) /\ c.chunk = e.chunk
    BY <1>00, <1>1, <1>2, <2>2 DEF ChunksRun
  <2>4. c \notin stripe.buffered
    BY <1>4, <2>3 DEF Overlaps
  <2>5. ASSUME NEW h \in Nat, OnePlace(h) PROVE OnePlace(h)'
    <3>1. Carries(events[1], h) <=> InChunk(c.chunk, h)
      BY <1>2, <2>2, <2>3 DEF Carries
    <3>2. PICK k, x : Holds(k, x, h) /\ \A o, y : Holds(o, y, h) => o = k /\ y = x
      BY <2>5 DEF OnePlace
    <3>3. Holds(3, 1, h) <=> InChunk(c.chunk, h)
      BY <2>2, <3>1 DEF Holds
    <3>4. ASSUME NEW o, NEW y, Holds(o, y, h)'
          PROVE  \/ o \in {1, 2, 5} /\ Holds(o, y, h)
                 \/ o = 3 /\ y \in Nat /\ y > 0 /\ Holds(3, y + 1, h)
                 \/ o = 4 /\ y = c /\ Holds(3, 1, h)
                 \/ o = 4 /\ y # c /\ Holds(4, y, h)
      <4>1. CASE o \in {1, 2, 5}
        BY <1>4, <2>1, <3>4, <4>1 DEF Holds
      <4>2. CASE o = 3
        BY <1>2, <1>4, <3>4, <4>2, EventsMoveUp
      <4>3. CASE o = 4
        <5>1. y \in stripe'.buffered /\ InChunk(y.chunk, h)
          BY <3>4, <4>3 DEF Holds
        <5>2. CASE y = c
          BY <3>3, <4>3, <5>1, <5>2
        <5>3. CASE y # c
          <6>1. y \in stripe.buffered
            BY <2>1, <5>1, <5>3
          <6> QED BY <4>3, <5>1, <5>3, <6>1 DEF Holds
        <5> QED BY <5>2, <5>3
      <4> QED BY <3>4, <4>1, <4>2, <4>3 DEF Holds
    <3>5. CASE k = 3 /\ x = 1
      <4>1. c \in stripe'.buffered /\ InChunk(c.chunk, h)
        BY <2>1, <3>2, <3>3, <3>5
      <4>2. Holds(4, c, h)'
        BY <4>1 DEF Holds
      <4>3. \A o, y : Holds(o, y, h)' => o = 4 /\ y = c
        BY <3>2, <3>4, <3>5
      <4> QED BY <4>2, <4>3 DEF OnePlace
    <3>6. CASE k = 3 /\ x # 1
      <4>1. x \in Nat /\ x > 0 /\ Holds(3, x - 1, h)'
        BY <1>2, <1>4, <3>2, <3>6, EventsMoveUp
      <4>2. \A o, y : Holds(o, y, h)' => o = 3 /\ y = x - 1
        BY <3>2, <3>4, <3>6, <4>1
      <4> QED BY <4>1, <4>2 DEF OnePlace
    <3>7. CASE k = 4
      <4>1. x \in stripe.buffered /\ InChunk(x.chunk, h)
        BY <3>2, <3>7 DEF Holds
      <4>2. x # c /\ Holds(4, x, h)'
        BY <2>1, <2>4, <4>1 DEF Holds
      <4> QED BY <3>2, <3>4, <3>7, <4>2 DEF OnePlace
    <3>8. CASE k \in {1, 2, 5}
      <4>1. Holds(k, x, h)'
        BY <1>4, <2>1, <3>2, <3>8 DEF Holds
      <4> QED BY <3>2, <3>4, <3>8, <4>1 DEF OnePlace
    <3>9. k \in 1..5
      BY <3>2 DEF Holds
    <3> QED BY <3>5, <3>6, <3>7, <3>8, <3>9
  <2>6. Covered'
    BY <1>1, <1>2, <2>1, <2>5, OwedHeights DEF Covered, Striping
  <2>7. ChunksRun'
    BY <1>1, <1>2, <1>4, <2>1, <2>3, EventsLeft DEF ChunksRun
  <2>8. Accounts'
    BY <1>1, <1>2, <1>4, <2>1, EventsLeft DEF Accounts, Ended
  <2>9. Quiet'
    BY <2>1 DEF Quiet
  <2> QED BY <2>6, <2>7, <2>8, <2>9 DEF CoverInv
<1> QED BY <1>2, <1>3, <1>4

(* A server becomes idle: its worker rests and no event of its end is left. *)
LEMMA IdleGrows ==
  ASSUME IntakeInv, CoverInv, NEW s \in Sources, stripe'.idle = Append(stripe.idle, s),
         worker[s] = AtRest,
         \A j \in 1..Len(stripe.idle) : stripe.idle[j] # s,
         \A i \in 1..Len(events') : events'[i].kind # "chunk" => events'[i].by # s,
         \A i \in 1..Len(events'), j \in 1..Len(stripe.idle) :
              events'[i].kind # "chunk" => events'[i].by # stripe.idle[j]
  PROVE  /\ \A i, j \in 1..Len(stripe'.idle) : stripe'.idle[i] = stripe'.idle[j] => i = j
         /\ \A i \in 1..Len(stripe'.idle) : worker[stripe'.idle[i]] = AtRest
         /\ \A i \in 1..Len(events'), j \in 1..Len(stripe'.idle) :
              events'[i].kind # "chunk" => events'[i].by # stripe'.idle[j]
<1> DEFINE n == Len(stripe.idle) + 1
<1>1. /\ Len(stripe.idle) \in Nat /\ Len(stripe'.idle) = n /\ stripe'.idle[n] = s
      /\ \A i \in 1..Len(stripe.idle) : stripe'.idle[i] = stripe.idle[i]
  BY DEF IntakeInv, IntakeTypes, StripeType
<1>2. Accounts
  BY DEF CoverInv
<1>3. ASSUME NEW i \in 1..Len(stripe'.idle)
      PROVE  \/ i = n /\ stripe'.idle[i] = s
             \/ i \in 1..Len(stripe.idle) /\ stripe'.idle[i] = stripe.idle[i] /\ stripe'.idle[i] # s
  <2>1. CASE i = n
    BY <1>1, <2>1
  <2>2. CASE i # n
    <3>1. i \in 1..Len(stripe.idle)
      BY <1>1, <2>2
    <3> QED BY <1>1, <3>1
  <2> QED BY <2>1, <2>2
<1> HIDE DEF n
<1>4. \A i, j \in 1..Len(stripe'.idle) : stripe'.idle[i] = stripe'.idle[j] => i = j
  BY <1>2, <1>3 DEF Accounts
<1>5. \A i \in 1..Len(stripe'.idle) : worker[stripe'.idle[i]] = AtRest
  BY <1>2, <1>3 DEF Accounts
<1>6. \A i \in 1..Len(events'), j \in 1..Len(stripe'.idle) :
              events'[i].kind # "chunk" => events'[i].by # stripe'.idle[j]
  BY <1>3
<1> QED BY <1>4, <1>5, <1>6

LEMMA OnCompleteCovers ==
  ASSUME IntakeInv, IntakeInv', CoverInv, OnComplete
  PROVE  CoverInv'
<1>0. PICK e : e = Head(events)
  OBVIOUS
<1>1. /\ stripe \in StripeType /\ Covered /\ ChunksRun /\ Accounts /\ events' \in Seq(EventType)
  BY DEF IntakeInv, IntakeTypes, CoverInv
<1>2. /\ stripe.at = "wait" /\ events # <<>> /\ e.kind = "complete" /\ UNCHANGED <<asm, worker>>
      /\ stripe' = Completed(stripe, e.by) /\ events' = Tail(events)
  BY <1>0 DEF OnComplete
<1>3. /\ stripe'.at = "assign" /\ stripe'.buffered = stripe.buffered
      /\ stripe'.idle = Append(stripe.idle, e.by) /\ stripe'.pending = stripe.pending
      /\ stripe'.unassigned = stripe.unassigned /\ stripe'.end = stripe.end
  BY <1>1, <1>2 DEF StripeType, Completed
<1>4. /\ 1 \in 1..Len(events) /\ e = events[1] /\ e \in EventType /\ e.by \in Sources
      /\ e.chunk \in Seq(Blks)
  <2>1. 1 \in 1..Len(events) /\ e = events[1] /\ e \in EventType
    BY <1>0, <1>2, ChannelShrinks
  <2> QED BY <2>1 DEF EventType
<1>5. Len(e.chunk) = 0
  BY <1>1, <1>2, <1>4 DEF ChunksRun
<1>6. ASSUME NEW h \in Nat, OnePlace(h) PROVE OnePlace(h)'
  <2>1. ~Carries(events[1], h)
    <3>1. DOMAIN e.chunk = {}
      BY <1>4, <1>5
    <3> QED BY <1>2, <1>4, <3>1 DEF Carries, InChunk
  <2>2. PICK k, x : Holds(k, x, h) /\ \A o, y : Holds(o, y, h) => o = k /\ y = x
    BY <1>6 DEF OnePlace
  <2>3. ~Holds(3, 1, h)
    BY <2>1 DEF Holds
  <2>4. ASSUME NEW o, NEW y, Holds(o, y, h)'
        PROVE  \/ o \in {1, 2, 4, 5} /\ Holds(o, y, h)
               \/ o = 3 /\ y \in Nat /\ y > 0 /\ Holds(3, y + 1, h)
    <3>1. CASE o \in {1, 2, 4, 5}
      BY <1>2, <1>3, <2>4, <3>1 DEF Holds
    <3>2. CASE o = 3
      BY <1>2, <2>4, <3>2, EventsMoveUp
    <3> QED BY <2>4, <3>1, <3>2 DEF Holds
  <2>5. CASE k = 3
    <3>1. x # 1
      BY <2>2, <2>3, <2>5
    <3>2. x \in Nat /\ x > 0 /\ Holds(3, x - 1, h)'
      BY <1>2, <2>2, <2>5, <3>1, EventsMoveUp
    <3>3. \A o, y : Holds(o, y, h)' => o = 3 /\ y = x - 1
      BY <2>2, <2>4, <2>5, <3>2
    <3> QED BY <3>2, <3>3 DEF OnePlace
  <2>6. CASE k \in {1, 2, 4, 5}
    <3>1. Holds(k, x, h)'
      BY <1>2, <1>3, <2>2, <2>6 DEF Holds
    <3> QED BY <2>2, <2>4, <2>6, <3>1 DEF OnePlace
  <2>7. k \in 1..5
    BY <2>2 DEF Holds
  <2> QED BY <2>5, <2>6, <2>7
<1>7. Covered'
  BY <1>1, <1>2, <1>3, <1>6, OwedHeights DEF Covered, Striping
<1>8. ChunksRun'
  BY <1>1, <1>2, <1>3, EventsLeft DEF ChunksRun
<1>9. Accounts'
  <2>1. /\ \A i \in 1..Len(events') : events'[i].kind # "chunk" => worker'[events'[i].by] = AtRest
        /\ \A i \in 1..Len(events'), j \in 1..Len(stripe.idle) :
              events'[i].kind # "chunk" => events'[i].by # stripe.idle[j]
        /\ \A i, j \in 1..Len(events') :
              events'[i].kind # "chunk" /\ events'[j].kind # "chunk" /\ events'[i].by = events'[j].by
              => i = j
        /\ worker[e.by] = AtRest
        /\ \A i \in 1..Len(events') : events'[i].kind # "chunk" => events'[i].by # e.by
        /\ \A j \in 1..Len(stripe.idle) : stripe.idle[j] # e.by
    BY <1>0, <1>2, EventsLeft
  <2>2. /\ \A i, j \in 1..Len(stripe'.idle) : stripe'.idle[i] = stripe'.idle[j] => i = j
        /\ \A i \in 1..Len(stripe'.idle) : worker[stripe'.idle[i]] = AtRest
        /\ \A i \in 1..Len(events'), j \in 1..Len(stripe'.idle) :
              events'[i].kind # "chunk" => events'[i].by # stripe'.idle[j]
    BY <1>3, <1>4, <2>1, IdleGrows
  <2> QED BY <1>2, <2>1, <2>2 DEF Accounts, Ended
<1>10. Quiet'
  BY <1>3 DEF Quiet
<1> QED BY <1>7, <1>8, <1>9, <1>10 DEF CoverInv

LEMMA OnFailedCovers ==
  ASSUME IntakeInv, IntakeInv', CoverInv, OnFailed
  PROVE  CoverInv'
<1>0. PICK e : e = Head(events)
  OBVIOUS
<1> DEFINE failures == stripe.failed[e.by] + 1
           out == failures >= SourceFailures
           back == Resumed(e.range, e.resume)
<1>1. /\ stripe \in StripeType /\ Covered /\ ChunksRun /\ Accounts /\ events' \in Seq(EventType)
  BY DEF IntakeInv, IntakeTypes, CoverInv
<1>2. /\ stripe.at = "wait" /\ events # <<>> /\ e.kind = "failed" /\ UNCHANGED <<asm, worker>>
      /\ events' = Tail(events)
      /\ stripe' = IF ShouldLeave(e.range, failures) THEN [stripe EXCEPT !.at = "leave"]
                   ELSE [stripe EXCEPT !.at = "assign", !.active = @ - 1, !.failed[e.by] = failures,
                    !.pending = <<back>> \o @,
                    !.idle = IF out THEN @ ELSE Append(@, e.by),
                    !.disabled = IF out THEN @ \cup {e.by} ELSE @]
  BY <1>0 DEF OnFailed
<1>3. /\ 1 \in 1..Len(events) /\ e = events[1] /\ e \in EventType /\ e.by \in Sources
      /\ e.chunk \in Seq(Blks) /\ e.range \in Ranges
  <2>1. 1 \in 1..Len(events) /\ e = events[1] /\ e \in EventType
    BY <1>0, <1>2, ChannelShrinks
  <2> QED BY <2>1 DEF EventType
<1>4. Len(e.chunk) = 0
  BY <1>1, <1>2, <1>3 DEF ChunksRun
<1>5. /\ \A i \in 1..Len(events') : events'[i].kind # "chunk" => worker'[events'[i].by] = AtRest
      /\ \A i \in 1..Len(events'), j \in 1..Len(stripe.idle) :
              events'[i].kind # "chunk" => events'[i].by # stripe.idle[j]
      /\ \A i, j \in 1..Len(events') :
              events'[i].kind # "chunk" /\ events'[j].kind # "chunk" /\ events'[i].by = events'[j].by
              => i = j
      /\ worker[e.by] = AtRest
      /\ \A i \in 1..Len(events') : events'[i].kind # "chunk" => events'[i].by # e.by
      /\ \A j \in 1..Len(stripe.idle) : stripe.idle[j] # e.by
  BY <1>0, <1>2, EventsLeft
<1>6. CASE ShouldLeave(e.range, failures)
  <2>1. stripe' = [stripe EXCEPT !.at = "leave"]
    BY <1>2, <1>6
  <2>2. /\ stripe'.at = "leave" /\ stripe'.buffered = stripe.buffered /\ stripe'.idle = stripe.idle
    BY <1>1, <2>1 DEF StripeType
  <2>3. Covered' /\ Quiet'
    BY <2>2 DEF Covered, Striping, Quiet
  <2>4. ChunksRun'
    BY <1>1, <1>2, <2>2, EventsLeft DEF ChunksRun
  <2>5. Accounts'
    BY <1>1, <1>2, <1>5, <2>2 DEF Accounts, Ended
  <2> QED BY <2>3, <2>4, <2>5 DEF CoverInv
<1>7. CASE ~ShouldLeave(e.range, failures)
  <2>1. stripe' = [stripe EXCEPT !.at = "assign", !.active = @ - 1, !.failed[e.by] = failures,
                    !.pending = <<back>> \o @,
                    !.idle = IF out THEN @ ELSE Append(@, e.by),
                    !.disabled = IF out THEN @ \cup {e.by} ELSE @]
    BY <1>2, <1>7
  <2> HIDE DEF failures, out, back
  <2>2. /\ stripe'.at = "assign" /\ stripe'.buffered = stripe.buffered
        /\ stripe'.idle = IF out THEN stripe.idle ELSE Append(stripe.idle, e.by)
        /\ stripe'.pending = <<back>> \o stripe.pending
        /\ stripe'.unassigned = stripe.unassigned /\ stripe'.end = stripe.end
    BY <1>1, <2>1 DEF StripeType
  <2>3. back.start = e.resume /\ back.end = e.range.end /\ back \in Ranges
    <3>1. back \in [start : Nat, end : 0..End, attempt : Nat] /\ back.start = e.resume /\ back.end = e.range.end
      <4> DEFINE k == e.range.attempt + 1
      <4>1. k \in Nat /\ e.resume \in Nat
        BY <1>3 DEF Ranges, EventType
      <4>2. back = [e.range EXCEPT !.start = e.resume, !.attempt = k]
        BY DEF Resumed, back
      <4> HIDE DEF k
      <4> QED BY <1>3, <4>1, <4>2 DEF Ranges
    <3> QED BY <3>1 DEF Ranges
  <2>4. /\ stripe.pending \in Seq(Ranges) /\ Len(stripe.pending) \in Nat
        /\ Len(stripe'.pending) = Len(stripe.pending) + 1 /\ stripe'.pending[1] = back
        /\ \A j \in 1..Len(stripe.pending) : stripe'.pending[j + 1] = stripe.pending[j]
    BY <1>1, <2>2, <2>3 DEF StripeType
  <2>5. ASSUME NEW h \in Nat, OnePlace(h) PROVE OnePlace(h)'
    <3>1. Carries(events[1], h) <=> Within(back, h)
      <4>1. DOMAIN e.chunk = {}
        BY <1>3, <1>4
      <4> QED BY <1>2, <1>3, <2>3, <4>1 DEF Carries, InChunk, Within
    <3>2. PICK k, x : Holds(k, x, h) /\ \A o, y : Holds(o, y, h) => o = k /\ y = x
      BY <2>5 DEF OnePlace
    <3>3. Holds(3, 1, h) <=> Within(back, h)
      BY <1>3, <3>1 DEF Holds
    <3>4. ASSUME NEW o, NEW y, Holds(o, y, h)'
          PROVE  \/ o \in {2, 4, 5} /\ Holds(o, y, h)
                 \/ o = 3 /\ y \in Nat /\ y > 0 /\ Holds(3, y + 1, h)
                 \/ o = 1 /\ y = 1 /\ Holds(3, 1, h)
                 \/ o = 1 /\ y \in Nat /\ Holds(1, y - 1, h)
      <4>1. CASE o \in {2, 4, 5}
        BY <1>2, <2>2, <3>4, <4>1 DEF Holds
      <4>2. CASE o = 3
        BY <1>2, <3>4, <4>2, EventsMoveUp
      <4>3. CASE o = 1
        <5>1. y \in 1..Len(stripe'.pending) /\ Within(stripe'.pending[y], h)
          BY <3>4, <4>3 DEF Holds
        <5>2. CASE y = 1
          BY <2>4, <3>3, <4>3, <5>1, <5>2
        <5>3. CASE y # 1
          <6>1. y \in Nat /\ y - 1 \in 1..Len(stripe.pending) /\ (y - 1) + 1 = y
            BY <2>4, <5>1, <5>3
          <6>2. Within(stripe.pending[y - 1], h)
            BY <2>4, <5>1, <6>1
          <6>3. Holds(1, y - 1, h)
            BY <6>1, <6>2 DEF Holds
          <6> QED BY <4>3, <6>1, <6>3
        <5> QED BY <5>2, <5>3
      <4> QED BY <3>4, <4>1, <4>2, <4>3 DEF Holds
    <3>5. CASE k = 3 /\ x = 1
      <4>1. 1 \in 1..Len(stripe'.pending) /\ Within(stripe'.pending[1], h)
        BY <2>4, <3>2, <3>3, <3>5
      <4>2. Holds(1, 1, h)'
        BY <4>1 DEF Holds
      <4>3. \A o, y : Holds(o, y, h)' => o = 1 /\ y = 1
        BY <3>2, <3>4, <3>5
      <4> QED BY <4>2, <4>3 DEF OnePlace
    <3>6. CASE k = 3 /\ x # 1
      <4>1. x \in Nat /\ x > 0 /\ Holds(3, x - 1, h)'
        BY <1>2, <3>2, <3>6, EventsMoveUp
      <4>2. \A o, y : Holds(o, y, h)' => o = 3 /\ y = x - 1
        BY <3>2, <3>4, <3>6, <4>1
      <4> QED BY <4>1, <4>2 DEF OnePlace
    <3>7. CASE k = 1
      <4>1. x \in 1..Len(stripe.pending) /\ Within(stripe.pending[x], h)
        BY <3>2, <3>7 DEF Holds
      <4>2. x \in Nat /\ x + 1 \in 1..Len(stripe'.pending) /\ Within(stripe'.pending[x + 1], h)
        BY <2>4, <4>1
      <4>3. Holds(1, x + 1, h)'
        BY <4>2 DEF Holds
      <4>4. \A o, y : Holds(o, y, h)' => o = 1 /\ y = x + 1
        BY <3>2, <3>4, <3>7, <4>2
      <4> QED BY <4>3, <4>4 DEF OnePlace
    <3>8. CASE k \in {2, 4, 5}
      <4>1. Holds(k, x, h)'
        BY <1>2, <2>2, <3>2, <3>8 DEF Holds
      <4> QED BY <3>2, <3>4, <3>8, <4>1 DEF OnePlace
    <3>9. k \in 1..5
      BY <3>2 DEF Holds
    <3> QED BY <3>5, <3>6, <3>7, <3>8, <3>9
  <2>6. Covered'
    BY <1>1, <1>2, <2>2, <2>5, OwedHeights DEF Covered, Striping
  <2>7. ChunksRun'
    BY <1>1, <1>2, <2>2, EventsLeft DEF ChunksRun
  <2>8. Accounts'
    <3>1. CASE out
      BY <1>1, <1>2, <1>5, <2>2, <3>1 DEF Accounts, Ended
    <3>2. CASE ~out
      <4>1. /\ \A i, j \in 1..Len(stripe'.idle) : stripe'.idle[i] = stripe'.idle[j] => i = j
            /\ \A i \in 1..Len(stripe'.idle) : worker[stripe'.idle[i]] = AtRest
            /\ \A i \in 1..Len(events'), j \in 1..Len(stripe'.idle) :
                 events'[i].kind # "chunk" => events'[i].by # stripe'.idle[j]
        BY <1>3, <1>5, <2>2, <3>2, IdleGrows
      <4> QED BY <1>2, <1>5, <4>1 DEF Accounts, Ended
    <3> QED BY <3>1, <3>2
  <2>9. Quiet'
    BY <2>2 DEF Quiet
  <2> QED BY <2>6, <2>7, <2>8, <2>9 DEF CoverInv
<1> QED BY <1>6, <1>7

(* A flushed chunk is exactly what the assembler has moved over. *)
LEMMA FlushCovers ==
  ASSUME IntakeInv, IntakeInv', CoverInv, Flush
  PROVE  CoverInv'
<1>0. PICK c : c = CHOOSE d \in Ready : TRUE
  OBVIOUS
<1> DEFINE a == PushAll(asm, c.chunk)
<1>1. stripe \in StripeType /\ Covered /\ ChunksRun /\ Accounts /\ Chain(asm)
  BY DEF IntakeInv, IntakeTypes, CoverInv
<1>2. c \in Ready
  BY <1>0 DEF Flush
<1>3. c \in stripe.buffered /\ c.chunk \in Seq(Blks) /\ Steps(c.chunk) /\ c.chunk[1][1] = asm.next
  <2>1. c \in stripe.buffered /\ c.chunk[1][1] = asm.next
    BY <1>2 DEF Ready
  <2>2. c \in ChunkType
    BY <1>1, <2>1 DEF StripeType
  <2> QED BY <1>1, <2>1, <2>2 DEF ChunkType, ChunksRun
<1>4. /\ stripe.at \in {"flush", "leave"} /\ asm' = Restored(a)
      /\ \/ /\ a.ok /\ stripe' = [stripe EXCEPT !.buffered = @ \ {c}]
            /\ UNCHANGED <<worker, events>>
         \/ LeaveStriping("rest")
  BY <1>0 DEF Flush
<1>5. CASE LeaveStriping("rest")
  BY <1>5, CoverOver DEF LeaveStriping
<1>6. CASE /\ a.ok /\ stripe' = [stripe EXCEPT !.buffered = @ \ {c}]
           /\ UNCHANGED <<worker, events>>
  <2>1. /\ stripe'.at = stripe.at /\ stripe'.buffered = stripe.buffered \ {c}
        /\ stripe'.idle = stripe.idle /\ stripe'.pending = stripe.pending
        /\ stripe'.unassigned = stripe.unassigned /\ stripe'.end = stripe.end
    BY <1>1, <1>6 DEF StripeType
  <2>2. asm'.next = asm.next + Len(c.chunk) /\ asm.next \in Nat /\ Len(c.chunk) \in Nat
    <3>1. a.next = asm.next + Len(c.chunk) /\ Chain(a)
      BY <1>1, <1>3, <1>6, PushAllAdvances, PushAllKeeps
    <3>2. Restored(a).next = a.next
      <4> HIDE DEF a
      <4> QED BY <3>1 DEF Restored, Chain, Asms
    <3> QED BY <1>3, <1>4, <3>1, <3>2, OwedHeights
  <2>3. ASSUME NEW h \in Nat, OnePlace(h), asm'.next <= h PROVE OnePlace(h)'
    <3>1. ~InChunk(c.chunk, h)
      BY <1>3, <2>2, <2>3, ChunkHeights
    <3>2. \A k, x : Holds(k, x, h)' <=> Holds(k, x, h)
      <4>1. \A x : Holds(4, x, h)' <=> Holds(4, x, h)
        BY <2>1, <3>1 DEF Holds
      <4>2. \A k, x : k # 4 => (Holds(k, x, h)' <=> Holds(k, x, h))
        BY <1>6, <2>1 DEF Holds
      <4> QED BY <4>1, <4>2
    <3> QED BY <2>3, <3>2 DEF OnePlace
  <2>4. Covered'
    <3> SUFFICES ASSUME Striping', NEW h \in asm'.next..stripe'.end - 1 PROVE OnePlace(h)'
      BY DEF Covered
    <3>1. h \in asm.next..stripe.end - 1 /\ asm'.next <= h /\ h \in Nat
      BY <2>1, <2>2, OwedHeights
    <3>2. OnePlace(h)
      BY <1>1, <2>1, <3>1 DEF Covered, Striping
    <3> QED BY <2>3, <3>1, <3>2
  <2>5. ChunksRun' /\ Accounts'
    BY <1>1, <1>6, <2>1 DEF ChunksRun, Accounts, Ended
  <2>6. Quiet'
    BY <1>4, <2>1 DEF Quiet
  <2> QED BY <2>4, <2>5, <2>6 DEF CoverInv
<1> QED BY <1>4, <1>5, <1>6

LEMMA FlushDoneCovers ==
  ASSUME IntakeInv, IntakeInv', CoverInv, FlushDone \/ Leave \/ AssignDone
  PROVE  CoverInv'
<1>1. stripe \in StripeType
  BY DEF IntakeInv, IntakeTypes
<1>2. \/ \E at \in {"flush", "wait"} : /\ stripe' = [stripe EXCEPT !.at = at] /\ Striping
                                       /\ UNCHANGED <<asm, worker, events>>
      \/ \E next : LeaveStriping(next)
  BY DEF FlushDone, Leave, AssignDone, Striping
<1>3. CASE \E next : LeaveStriping(next)
  BY <1>3, CoverOver DEF LeaveStriping
<1>4. CASE \E at \in {"flush", "wait"} : /\ stripe' = [stripe EXCEPT !.at = at] /\ Striping
                                         /\ UNCHANGED <<asm, worker, events>>
  <2>1. /\ stripe'.at \in {"flush", "wait"} /\ stripe'.buffered = stripe.buffered
        /\ stripe'.idle = stripe.idle /\ stripe'.pending = stripe.pending
        /\ stripe'.unassigned = stripe.unassigned /\ stripe'.end = stripe.end
    BY <1>1, <1>4 DEF StripeType
  <2> QED BY <1>4, <2>1, CoverFrame
<1> QED BY <1>2, <1>3, <1>4

(* The servers that start are listed without repetition. *)
LEMMA IdleDistinct ==
  ASSUME pool \in PoolType
  PROVE  LET q == SetToSeq(StripeSources) IN \A i, j \in 1..Len(q) : q[i] = q[j] => i = j
<1> DEFINE S == StripeSources
           q == SetToSeq(S)
<1>1. S \subseteq Sources /\ IsFiniteSet(S)
  <2>1. S \subseteq Sources
    BY DEF StripeSources, PoolType
  <2> HIDE DEF S
  <2> QED BY <2>1, IntakeSetsAssumption, FS_Subset
<1> HIDE DEF S
<1>2. Cardinality(S) \in Nat /\ ExistsBijection(1..Cardinality(S), S)
  BY <1>1, FS_CardinalityType
<1>3. \E f \in [1..Cardinality(S) -> S] : IsInjective(f)
  BY <1>2 DEF ExistsBijection, Bijection, Injection, IsInjective
<1>4. q \in [1..Cardinality(S) -> S] /\ IsInjective(q)
  BY <1>3 DEF SetToSeq
<1> HIDE DEF q
<1>5. Len(q) = Cardinality(S) /\ DOMAIN q = 1..Cardinality(S)
  BY <1>2, <1>4
<1>6. \A i, j \in 1..Len(q) : q[i] = q[j] => i = j
  BY <1>4, <1>5 DEF IsInjective
<1> QED BY <1>6 DEF q, S

LEMMA PrefixDoneCovers ==
  ASSUME IntakeInv, IntakeInv', CoverInv, PrefixDone
  PROVE  CoverInv'
<1>1. /\ stage = "prefix" /\ UNCHANGED <<asm, worker, events>>
  BY DEF PrefixDone
<1>2. stripe.at = "off" /\ pool \in PoolType /\ stripe \in StripeType
  BY <1>1 DEF IntakeInv, IntakeTypes, Stages
<1>3. worker = [s \in Sources |-> AtRest] /\ Len(events) = 0
  BY <1>2 DEF CoverInv, Quiet
<1>4. CASE ~CanStripe
  <2>1. stripe' = stripe
    BY <1>4 DEF PrefixDone
  <2> QED BY <1>1, <1>2, <2>1, CoverFrame DEF Striping
<1>5. CASE CanStripe
  <2> DEFINE q == SetToSeq(StripeSources)
  <2>1. stripe' = [NoStripes EXCEPT !.at = "assign", !.idle = q,
                                        !.unassigned = asm.next, !.end = StableEnd + 1]
    BY <1>5 DEF PrefixDone
  <2>2. q \in Seq(Sources) /\ \A i, j \in 1..Len(q) : q[i] = q[j] => i = j
    BY <1>2, IdleTyped, IdleDistinct
  <2> HIDE DEF q
  <2>3. /\ stripe'.at = "assign" /\ stripe'.idle = q /\ stripe'.unassigned = asm.next
        /\ Len(stripe'.pending) = 0 /\ stripe'.buffered = {}
    BY <2>1 DEF NoStripes
  <2>4. \A s \in Sources : worker'[s] = AtRest
    BY <1>1, <1>3
  <2>5. Len(events') = 0
    BY <1>1, <1>3
  <2>6. ASSUME NEW h \in asm'.next..stripe'.end - 1 PROVE OnePlace(h)'
    <3>1. h \in Nat /\ h >= asm.next
      <4>1. asm.next \in Nat /\ stripe'.end \in Nat /\ asm'.next = asm.next
        <5>1. (asm.next \in Nat) /\ (stripe.end \in Nat)
          BY OwedHeights
        <5>2. stripe'.end = StableEnd + 1
          BY <2>1 DEF NoStripes
        <5> QED BY <1>1, <5>1, <5>2, IntakeBoundsAssumption
      <4> QED BY <2>6, <4>1
    <3>2. Holds(5, 0, h)'
      BY <2>3, <3>1 DEF Holds
    <3>3. \A s \in Sources : ~Ahead(worker'[s], h)
      BY <2>4, <3>1, RestHoldsNothing
    <3>4. \A m, y : Holds(m, y, h)' => m = 5 /\ y = 0
      BY <2>3, <2>5, <3>3 DEF Holds
    <3> QED BY <3>2, <3>4 DEF OnePlace
  <2>7. Covered'
    BY <2>6 DEF Covered
  <2>8. ChunksRun'
    BY <2>3, <2>4, <2>5, RestHoldsNothing DEF ChunksRun
  <2>9. Accounts'
    BY <2>2, <2>3, <2>4, <2>5 DEF Accounts
  <2>10. Quiet'
    BY <2>3 DEF Quiet
  <2> QED BY <2>7, <2>8, <2>9, <2>10 DEF CoverInv
<1> QED BY <1>4, <1>5

(* Nothing else touches the stripes, and failover runs only outside striping. *)
LEMMA OthersCover ==
  ASSUME IntakeInv, IntakeInv', CoverInv,
         Failover \/ PrefixStep \/ PoolProbed \/ Switch \/ UNCHANGED vars
  PROVE  CoverInv'
<1>1. UNCHANGED <<stripe, worker, events>>
  BY DEF Failover, RestOrder, RestTry, RestBlock, RestError, RestRound, RestComplete, RestFails,
         PrefixStep, PoolProbed, Switch, vars, stripes
<1>2. CASE Failover \/ PrefixStep
  <2>1. rest.at # "off" \/ stage = "prefix"
    BY <1>2 DEF Failover, RestGoesOn, RestOrder, RestTry, RestBlock, RestError, RestRound, RestComplete,
                RestFails, PrefixStep
  <2>2. stripe.at = "off"
    BY <2>1 DEF IntakeInv, Stages
  <2> QED BY <1>1, <2>2, CoverFrame DEF Striping
<1>3. CASE PoolProbed \/ Switch \/ UNCHANGED vars
  <2>1. asm' = asm
    BY <1>3 DEF PoolProbed, Switch, vars
  <2>2. Striping' => Striping /\ asm'.next = asm.next
    BY <1>1, <2>1 DEF Striping
  <2> QED BY <1>1, <2>2, CoverFrame
<1> QED BY <1>2, <1>3

LEMMA CoverStep == IntakeInv /\ CoverInv /\ [Next]_vars => CoverInv'
<1> SUFFICES ASSUME IntakeInv, CoverInv, [Next]_vars PROVE CoverInv'
  OBVIOUS
<1>1. IntakeInv'
  BY IntakeStep
<1>2. CASE Failover \/ PrefixStep \/ PoolProbed \/ Switch \/ UNCHANGED vars
  BY <1>1, <1>2, OthersCover
<1>3. CASE PrefixDone
  BY <1>1, <1>3, PrefixDoneCovers
<1>4. CASE Coordinator
  BY <1>1, <1>4, AssignCovers, FlushCovers, FlushDoneCovers, OnChunkCovers, OnCompleteCovers,
     OnFailedCovers DEF Coordinator
<1>5. CASE Cancelled
  BY <1>5, CoverOver DEF Cancelled
<1>6. CASE \E s \in Sources : Worker(s)
  BY <1>1, <1>6, ReceiveCovers, SendCovers, EndCovers DEF Worker
<1> QED BY <1>2, <1>3, <1>4, <1>5, <1>6 DEF Next, Download

(* While a range is striped over several servers, every height still owed is *)
(* at exactly one place: none is lost when a worker fails or its server is   *)
(* disabled, and none is fetched twice.                                      *)
THEOREM StripesKeepRange == Spec => []StripesCovered
<1>1. Spec => [](IntakeInv /\ CoverInv)
  BY IntakeInit, IntakeStep, CoverInit, CoverStep, PTL DEF Spec
<1> QED BY <1>1, CoverImplies, PTL

-----------------------------------------------------------------------------
(* The transport *)

Configs == Modes \X Nat
Managers == [conf : Configs, retired : BOOLEAN]
RequestPcs == {"idle", "config", "selected", "ready", "wait", "drain", "create", "got", "dial", "open"}
RequestType == [pc : RequestPcs, kind : Kinds, mode : Modes, conf : Configs, gen : Nat, manager : Nat]
SettingType == [pc : {"rest", "bridges", "selecting", "rebridging"}, mode : Modes, conf : Configs]

TransportTypes ==
    /\ tunnel \in Modes /\ stored \in Modes /\ bridges \in Nat
    /\ desired \in SUBSET Configs /\ generation \in Nat
    /\ managers \in Seq(Managers) /\ current \in 0..Len(managers)
    /\ setting \in SettingType
    /\ teardown \in [pc : {"rest", "wait", "drain"}, gen : Nat]
    /\ request \in [Requests -> RequestType]

\* The published manager is the one that is not retired, and the selected one.
OnePublished ==
    /\ \A i \in 1..Len(managers) : ~managers[i].retired => i = current
    /\ current # 0 => Wanted(managers[current].conf)
    /\ ~SelectionFree => current = 0

\* A request that has a manager to dial through, or a stream of it.
Holding(q) == q.pc \in {"dial", "open"} \/ (q.pc = "got" /\ q.kind \in {"client", "fetch"})
Backed(q, ms) ==
    Holding(q) => /\ q.manager \in 1..Len(ms)
                  /\ ms[q.manager].retired \/ ms[q.manager].conf = q.conf

\* The initialization lock has one holder, and no manager is published while its
\* holder builds one.
Locking(pc) == pc \in {"drain", "create"}
Exclusive ==
    /\ teardown.pc = "drain" => initializing = Shutdown
    /\ \A r \in Requests : /\ Locking(request[r].pc) => initializing = r
                           /\ request[r].pc = "create" => current = 0

TransportInv ==
    /\ TransportTypes /\ OnePublished /\ Exclusive
    /\ \A r \in Requests : Backed(request[r], managers)

-----------------------------------------------------------------------------
(* What the steps share *)

LEMMA DefaultsTyped ==
  /\ <<"Tor", 0>> \in Configs
  /\ IdleRequest \in RequestType /\ IdleRequest.pc = "idle" /\ IdleRequest.conf \in Configs
  /\ NoSetting \in SettingType /\ NoSetting.pc = "rest"
  /\ NoTeardown \in [pc : {"rest", "wait", "drain"}, gen : Nat]
  /\ Retired \in Managers /\ Retired.retired
<1>1. <<"Tor", 0>> \in Configs /\ "Tor" \in Modes
  BY TransportAssumption DEF Configs
<1>2. IdleRequest \in RequestType /\ IdleRequest.pc = "idle" /\ IdleRequest.conf \in Configs
  BY <1>1 DEF IdleRequest, RequestType, RequestPcs, Kinds
<1>3. NoSetting \in SettingType /\ NoSetting.pc = "rest"
  BY <1>1 DEF NoSetting, SettingType
<1>4. NoTeardown \in [pc : {"rest", "wait", "drain"}, gen : Nat]
  BY DEF NoTeardown
<1>5. Retired \in Managers /\ Retired.retired
  BY <1>1 DEF Retired, Managers
<1> QED BY <1>1, <1>2, <1>3, <1>4, <1>5

LEMMA ConfigTyped ==
  ASSUME TransportTypes, NEW mode \in Modes PROVE Config(mode) \in Configs
BY DEF Config, Configs, TransportTypes

LEMMA TransportInitInv == TransportInit => TransportInv
<1> SUFFICES ASSUME TransportInit PROVE TransportInv
  OBVIOUS
<1>1. TransportTypes
  BY DefaultsTyped, TransportAssumption DEF TransportInit, TransportTypes
<1>2. OnePublished
  BY DefaultsTyped DEF TransportInit, OnePublished, SelectionFree
<1>3. \A r \in Requests : Backed(request[r], managers)
  BY DefaultsTyped DEF TransportInit, Backed, Holding
<1>4. Exclusive
  BY DefaultsTyped DEF TransportInit, Exclusive, Locking, NoTeardown
<1> QED BY <1>1, <1>2, <1>3, <1>4 DEF TransportInv

\* Managers are added or retired, never changed otherwise.
Later(ms) ==
    /\ ms \in Seq(Managers) /\ Len(managers) <= Len(ms)
    /\ \A i \in 1..Len(managers) : ms[i] = managers[i] \/ ms[i].retired

LEMMA BackedLater ==
  ASSUME TransportInv, NEW ms, Later(ms), NEW q, Backed(q, managers) PROVE Backed(q, ms)
<1>1. Len(managers) \in Nat /\ Len(ms) \in Nat
  BY DEF TransportInv, TransportTypes, Later
<1> QED BY <1>1 DEF Later, Backed

LEMMA SameLater == ASSUME TransportInv PROVE Later(managers)
<1>1. managers \in Seq(Managers) /\ Len(managers) \in Nat
  BY DEF TransportInv, TransportTypes
<1> QED BY <1>1 DEF Later

\* One request moves.
LEMMA RequestMoved ==
  ASSUME TransportInv, Later(managers'), NEW r \in Requests, NEW v \in RequestType,
         request' = [request EXCEPT ![r] = v], Backed(v, managers')
  PROVE  request' \in [Requests -> RequestType] /\ \A x \in Requests : Backed(request'[x], managers')
<1>1. request \in [Requests -> RequestType]
  BY DEF TransportInv, TransportTypes
<1>2. request' \in [Requests -> RequestType]
  BY <1>1
<1>3. ASSUME NEW x \in Requests PROVE Backed(request'[x], managers')
  <2>1. CASE x = r
    BY <1>1, <2>1
  <2>2. CASE x # r
    <3>1. request'[x] = request[x] /\ Backed(request[x], managers)
      BY <1>1, <2>2 DEF TransportInv
    <3> QED BY <3>1, BackedLater
  <2> QED BY <2>1, <2>2
<1> QED BY <1>2, <1>3

\* A request that holds the lock gives it back, or one that does not moves on.
LEMMA LockReleased ==
  ASSUME TransportInv, NEW r \in Requests, NEW v \in RequestType, ~Locking(v.pc),
         request' = [request EXCEPT ![r] = v], UNCHANGED teardown,
         \/ UNCHANGED <<current, initializing>>
         \/ UNCHANGED initializing /\ current' = 0
         \/ Locking(request[r].pc) /\ initializing' = NoRequest
  PROVE  Exclusive'
<1>1. /\ request'[r] = v /\ \A x \in Requests \ {r} : request'[x] = request[x]
  BY DEF TransportInv, TransportTypes
<1>2. CASE UNCHANGED initializing /\ (UNCHANGED current \/ current' = 0)
  BY <1>1, <1>2 DEF TransportInv, Exclusive, Locking
<1>3. CASE Locking(request[r].pc) /\ initializing' = NoRequest
  <2>1. initializing = r /\ r # Shutdown
    BY <1>3, TransportAssumption DEF TransportInv, Exclusive, Requests, Shutdown
  <2>2. teardown.pc # "drain" /\ \A x \in Requests \ {r} : ~Locking(request[x].pc)
    BY <2>1 DEF TransportInv, Exclusive
  <2> QED BY <1>1, <2>2 DEF Exclusive, Locking
<1> QED BY <1>2, <1>3

\* The rest of the transport when a request moves: the lock is left alone, or given
\* back by the request that has it.
Elsewhere(r) ==
    /\ UNCHANGED <<tunnel, stored, bridges, setting, teardown, desired, generation, managers, current>>
    /\ \/ UNCHANGED initializing
       \/ Locking(request[r].pc) /\ initializing' = NoRequest

LEMMA RequestOnly ==
  ASSUME TransportInv, NEW r \in Requests, NEW v \in RequestType, ~Locking(v.pc),
         request' = [request EXCEPT ![r] = v], Backed(v, managers), Elsewhere(r)
  PROVE  TransportInv'
<1>1. Later(managers') /\ Backed(v, managers')
  BY SameLater DEF Elsewhere
<1>2. request' \in [Requests -> RequestType] /\ \A x \in Requests : Backed(request'[x], managers')
  BY <1>1, RequestMoved
<1>3. TransportTypes'
  BY <1>2 DEF TransportInv, TransportTypes, Elsewhere
<1>4. OnePublished'
  BY DEF TransportInv, OnePublished, Wanted, SelectionFree, Elsewhere
<1>5. Exclusive'
  BY LockReleased DEF Elsewhere
<1> QED BY <1>2, <1>3, <1>4, <1>5 DEF TransportInv

LEMMA Dropped ==
  ASSUME TransportInv, NEW r \in Requests, Drop(r), Elsewhere(r) PROVE TransportInv'
<1>1. Backed(IdleRequest, managers) /\ ~Locking(IdleRequest.pc)
  BY DefaultsTyped DEF Backed, Holding, Locking
<1> QED BY <1>1, DefaultsTyped, RequestOnly DEF Drop

\* retire_current leaves no manager that is not retired.
LEMMA RetiredAll ==
  ASSUME TransportInv, RetireCurrent
  PROVE  /\ Later(managers') /\ current' = 0 /\ current' \in 0..Len(managers')
         /\ \A i \in 1..Len(managers') : managers'[i].retired
<1>1. /\ managers \in Seq(Managers) /\ Len(managers) \in Nat /\ current \in 0..Len(managers)
      /\ \A i \in 1..Len(managers) : managers[i] \in Managers
      /\ \A i \in 1..Len(managers) : ~managers[i].retired => i = current
  BY DEF TransportInv, TransportTypes, OnePublished
<1>2. CASE current = 0
  BY <1>1, <1>2, SameLater DEF RetireCurrent
<1>3. CASE current # 0
  <2>1. managers' = [managers EXCEPT ![current] = Retired] /\ current \in 1..Len(managers)
    BY <1>1, <1>3 DEF RetireCurrent
  <2>2. managers' \in Seq(Managers) /\ Len(managers') = Len(managers)
    BY <1>1, <2>1, DefaultsTyped
  <2>3. /\ managers'[current] = Retired
        /\ \A i \in 1..Len(managers) : i # current => managers'[i] = managers[i]
    BY <1>1, <2>1
  <2> QED BY <1>1, <2>1, <2>2, <2>3, DefaultsTyped DEF Later, RetireCurrent
<1> QED BY <1>2, <1>3

LEMMA NonePublished ==
  ASSUME TransportInv, RetireCurrent PROVE OnePublished'
BY RetiredAll DEF OnePublished

\* A request keeps its fields when only its program point moves.
LEMMA SteppedTyped ==
  ASSUME TransportInv, NEW r \in Requests, NEW pc \in RequestPcs
  PROVE  LET v == [request[r] EXCEPT !.pc = pc]
         IN /\ v \in RequestType /\ v.pc = pc /\ v.kind = request[r].kind /\ v.conf = request[r].conf
            /\ v.manager = request[r].manager
BY DEF TransportInv, TransportTypes, RequestType

-----------------------------------------------------------------------------
(* Settings and shutdown *)

LEMMA LoadTunnelStep == ASSUME TransportInv, LoadTunnel PROVE TransportInv'
<1>1. tunnel' = stored /\ UNCHANGED <<stored, bridges, desired, generation, managers, current, setting,
                                     teardown, request, initializing>>
  BY DEF LoadTunnel, selection
<1> QED BY <1>1 DEF TransportInv, TransportTypes, OnePublished, Wanted, SelectionFree, Exclusive

LEMMA SetBridgesStep == ASSUME TransportInv, SetBridges PROVE TransportInv'
<1>1. /\ setting = NoSetting /\ bridges' = bridges + 1
      /\ UNCHANGED <<tunnel, stored, desired, generation, managers, current, teardown, request,
                   initializing>>
  BY DEF SetBridges, selection
<1>2. setting' \in SettingType /\ setting'.pc \in {"rest", "bridges"}
  <2>1. CASE setting' = NoSetting
    BY <2>1, DefaultsTyped
  <2>2. CASE setting' = [NoSetting EXCEPT !.pc = "bridges"]
    BY <2>2, DefaultsTyped DEF SettingType
  <2> QED BY <2>1, <2>2 DEF SetBridges
<1>3. bridges' \in Nat
  BY <1>1 DEF TransportInv, TransportTypes
<1>4. TransportTypes'
  BY <1>1, <1>2, <1>3 DEF TransportInv, TransportTypes
<1>5. OnePublished'
  BY <1>1, <1>2 DEF TransportInv, OnePublished, Wanted, SelectionFree
<1>6. Exclusive'
  BY <1>1 DEF TransportInv, Exclusive
<1> QED BY <1>1, <1>4, <1>5, <1>6 DEF TransportInv

\* The old streams go before the new selection is written.
LEMMA SelectBeginStep == ASSUME TransportInv, NEW mode \in Modes, SelectBegin(mode) PROVE TransportInv'
<1>1. UNCHANGED <<bridges, desired, generation, teardown, request, initializing>>
  BY DEF SelectBegin, selection
<1>2. CASE /\ RetireCurrent /\ UNCHANGED <<tunnel, stored>>
           /\ setting' = [pc |-> IF setting = NoSetting THEN "selecting" ELSE "rebridging",
                          mode |-> mode, conf |-> Config(mode)]
  <2>1. setting' \in SettingType
    BY <1>2, ConfigTyped DEF SettingType, TransportInv
  <2>2. Later(managers') /\ current' \in 0..Len(managers')
    BY <1>2, RetiredAll
  <2>3. TransportTypes'
    BY <1>1, <1>2, <2>1, <2>2 DEF TransportInv, TransportTypes, Later
  <2>4. \A r \in Requests : Backed(request'[r], managers')
    BY <1>1, <2>2, BackedLater DEF TransportInv
  <2>5. Exclusive'
    BY <1>1, <1>2, RetiredAll DEF TransportInv, Exclusive
  <2> QED BY <1>2, <2>3, <2>4, <2>5, NonePublished DEF TransportInv
<1>3. CASE setting' = NoSetting /\ SaveTunnel(mode) /\ UNCHANGED <<managers, current>>
  <2>1. tunnel' \in Modes /\ stored' \in Modes
    BY <1>3 DEF SaveTunnel, TransportInv, TransportTypes
  <2>2. TransportTypes'
    BY <1>1, <1>3, <2>1, DefaultsTyped DEF TransportInv, TransportTypes
  <2>3. OnePublished'
    BY <1>1, <1>3, DefaultsTyped DEF TransportInv, OnePublished, Wanted, SelectionFree
  <2>4. Exclusive'
    BY <1>1, <1>3 DEF TransportInv, Exclusive
  <2> QED BY <1>1, <1>3, <2>2, <2>3, <2>4 DEF TransportInv
<1> QED BY <1>2, <1>3 DEF SelectBegin

LEMMA SelectEndStep == ASSUME TransportInv, SelectEnd PROVE TransportInv'
<1>1. /\ ~SelectionFree /\ generation' = generation + 1 /\ desired' = {setting.conf}
      /\ SaveTunnel(setting.mode) /\ setting' = NoSetting
      /\ UNCHANGED <<bridges, managers, current, teardown, request, initializing>>
  BY DEF SelectEnd, Select
<1>2. current = 0
  BY <1>1 DEF TransportInv, OnePublished
<1>3. setting.conf \in Configs /\ setting.mode \in Modes
  BY DEF TransportInv, TransportTypes, SettingType
<1>4. tunnel' \in Modes /\ stored' \in Modes /\ generation' \in Nat /\ desired' \in SUBSET Configs
  BY <1>1, <1>3 DEF SaveTunnel, TransportInv, TransportTypes
<1>5. TransportTypes'
  BY <1>1, <1>4, DefaultsTyped DEF TransportInv, TransportTypes
<1>6. OnePublished'
  BY <1>1, <1>2 DEF TransportInv, OnePublished
<1>7. Exclusive'
  BY <1>1 DEF TransportInv, Exclusive
<1> QED BY <1>1, <1>5, <1>6, <1>7 DEF TransportInv

LEMMA ShutdownBeginStep == ASSUME TransportInv, ShutdownBegin PROVE TransportInv'
<1>1. /\ RetireCurrent /\ generation' = generation + 1
      /\ teardown' = [pc |-> "wait", gen |-> generation + 1]
      /\ UNCHANGED <<tunnel, stored, bridges, setting, desired, request, initializing>>
  BY DEF ShutdownBegin, settings
<1>2. generation' \in Nat /\ teardown' \in [pc : {"rest", "wait", "drain"}, gen : Nat]
  BY <1>1 DEF TransportInv, TransportTypes
<1>3. Later(managers') /\ current' \in 0..Len(managers')
  BY <1>1, RetiredAll
<1>4. TransportTypes'
  BY <1>1, <1>2, <1>3 DEF TransportInv, TransportTypes, Later
<1>5. \A r \in Requests : Backed(request'[r], managers')
  BY <1>1, <1>3, BackedLater DEF TransportInv
<1>6. Exclusive'
  BY <1>1, RetiredAll DEF TransportInv, Exclusive
<1> QED BY <1>1, <1>4, <1>5, <1>6, NonePublished DEF TransportInv

LEMMA ShutdownLockStep == ASSUME TransportInv, ShutdownLock PROVE TransportInv'
<1>1. /\ initializing = NoRequest /\ initializing' = Shutdown
      /\ teardown' = [teardown EXCEPT !.pc = "drain"]
      /\ UNCHANGED <<tunnel, stored, bridges, setting, desired, generation, managers, current, request>>
  BY DEF ShutdownLock, settings, selection
<1>2. teardown' \in [pc : {"rest", "wait", "drain"}, gen : Nat]
  BY <1>1 DEF TransportInv, TransportTypes
<1>3. TransportTypes' /\ OnePublished'
  BY <1>1, <1>2 DEF TransportInv, TransportTypes, OnePublished, Wanted, SelectionFree
<1>4. Exclusive'
  <2>1. \A r \in Requests : r # NoRequest
    BY TransportAssumption DEF Requests
  <2> QED BY <1>1, <2>1 DEF TransportInv, Exclusive
<1> QED BY <1>1, <1>3, <1>4 DEF TransportInv

LEMMA ShutdownEndStep == ASSUME TransportInv, ShutdownEnd PROVE TransportInv'
<1>1. /\ teardown.pc = "drain" /\ teardown' = NoTeardown /\ initializing' = NoRequest
      /\ UNCHANGED <<tunnel, stored, bridges, setting, managers, current, request>>
  BY DEF ShutdownEnd, settings
<1>2. generation' \in Nat /\ desired' \subseteq desired
  BY DEF ShutdownEnd, TransportInv, TransportTypes
<1>3. TransportTypes'
  BY <1>1, <1>2, DefaultsTyped DEF TransportInv, TransportTypes
<1>4. OnePublished'
  BY <1>1, <1>2 DEF TransportInv, OnePublished, Wanted, SelectionFree
<1>5. Exclusive'
  <2>1. initializing = Shutdown /\ \A r \in Requests : r # Shutdown
    BY <1>1, TransportAssumption DEF TransportInv, Exclusive, Requests, Shutdown
  <2> QED BY <1>1, <2>1 DEF TransportInv, Exclusive, Locking, NoTeardown
<1> QED BY <1>1, <1>3, <1>4, <1>5 DEF TransportInv

-----------------------------------------------------------------------------
(* Requests *)

\* A request that no manager is handed to.
LEMMA Unheld ==
  ASSUME TransportInv, NEW r \in Requests, NEW v \in RequestType,
         v.pc \notin {"drain", "create", "got", "dial", "open"},
         request' = [request EXCEPT ![r] = v], Elsewhere(r)
  PROVE  TransportInv'
<1>1. Backed(v, managers) /\ ~Locking(v.pc)
  BY DEF Backed, Holding, Locking
<1> QED BY <1>1, RequestOnly

LEMMA RetriedAgain ==
  ASSUME TransportInv, NEW r \in Requests, Again(r), Elsewhere(r) PROVE TransportInv'
<1> DEFINE v == [request[r] EXCEPT !.pc = "ready", !.conf = IdleRequest.conf, !.manager = 0]
<1>1. v \in RequestType /\ v.pc = "ready"
  BY DefaultsTyped DEF RequestType, RequestPcs, TransportInv, TransportTypes
<1>2. request' = [request EXCEPT ![r] = v]
  BY DEF Again, TransportInv, TransportTypes
<1> HIDE DEF v
<1> QED BY <1>1, <1>2, Unheld

LEMMA ReadTunnelStep ==
  ASSUME TransportInv, NEW r \in Requests, NEW kind \in Kinds, ReadTunnel(r, kind) PROVE TransportInv'
<1> DEFINE v == [IdleRequest EXCEPT !.pc = "config", !.kind = kind, !.mode = tunnel]
<1>1. v \in RequestType /\ v.pc = "config"
  BY DefaultsTyped DEF RequestType, RequestPcs, TransportInv, TransportTypes
<1>2. request' = [request EXCEPT ![r] = v]
  BY DEF ReadTunnel
<1> HIDE DEF v
<1> QED BY <1>1, <1>2, Unheld DEF ReadTunnel, Elsewhere, outOfReach, settings, held, selection

LEMMA BootstrapSelectStep ==
  ASSUME TransportInv, NEW r \in Requests, BootstrapSelect(r) PROVE TransportInv'
<1> DEFINE conf == Config(request[r].mode)
           v == [request[r] EXCEPT !.pc = "selected", !.conf = conf]
<1>1. conf \in Configs /\ request[r] \in RequestType
  BY ConfigTyped DEF TransportInv, TransportTypes, RequestType
<1> HIDE DEF conf
<1>2. v \in RequestType /\ v.pc = "selected"
  BY <1>1 DEF RequestType, RequestPcs
<1>3. UNCHANGED <<tunnel, stored, bridges, setting, teardown, initializing>>
  BY DEF BootstrapSelect, outOfReach, settings
<1>4. CASE Drop(r) /\ UNCHANGED <<selection, current, managers>>
  BY <1>3, <1>4, Dropped DEF selection, Elsewhere
<1>5. CASE /\ request' = [request EXCEPT ![r].pc = "selected", ![r].conf = conf]
           /\ UNCHANGED <<selection, current, managers>>
  <2>1. request' = [request EXCEPT ![r] = v]
    BY <1>5 DEF TransportInv, TransportTypes
  <2> HIDE DEF v
  <2> QED BY <1>2, <1>3, <1>5, <2>1, Unheld DEF selection, Elsewhere
<1>6. CASE /\ RetireCurrent /\ Select(conf)
           /\ request' = [request EXCEPT ![r].pc = "selected", ![r].conf = conf]
  <2>1. request' = [request EXCEPT ![r] = v]
    BY <1>6 DEF TransportInv, TransportTypes
  <2> HIDE DEF v
  <2>2. Later(managers') /\ current' \in 0..Len(managers')
    BY <1>6, RetiredAll
  <2>3. Backed(v, managers')
    BY <1>2 DEF Backed, Holding
  <2>4. request' \in [Requests -> RequestType] /\ \A x \in Requests : Backed(request'[x], managers')
    BY <1>2, <2>1, <2>2, <2>3, RequestMoved
  <2>5. generation' \in Nat /\ desired' \in SUBSET Configs
    BY <1>1, <1>6 DEF Select, TransportInv, TransportTypes
  <2>6. TransportTypes'
    BY <1>3, <2>2, <2>4, <2>5 DEF TransportInv, TransportTypes, Later
  <2>7. Exclusive'
    BY <1>2, <1>3, <1>6, <2>1, LockReleased, RetiredAll DEF Locking
  <2> QED BY <1>6, <2>4, <2>6, <2>7, NonePublished DEF TransportInv
<1> QED BY <1>4, <1>5, <1>6 DEF BootstrapSelect, conf

LEMMA CaptureStep == ASSUME TransportInv, NEW r \in Requests, Capture(r) PROVE TransportInv'
<1> DEFINE conf == IF request[r].kind = "fetch" THEN Config(request[r].mode) ELSE request[r].conf
           v == [request[r] EXCEPT !.pc = "ready", !.gen = generation, !.conf = conf]
<1>1. conf \in Configs /\ request[r] \in RequestType
  BY ConfigTyped DEF TransportInv, TransportTypes, RequestType
<1>2. request' = [request EXCEPT ![r] = v]
  BY DEF Capture, TransportInv, TransportTypes
<1> HIDE DEF conf
<1>3. v \in RequestType /\ v.pc = "ready"
  BY <1>1 DEF RequestType, RequestPcs, TransportInv, TransportTypes
<1> HIDE DEF v
<1> QED BY <1>2, <1>3, Unheld DEF Capture, Elsewhere, outOfReach, settings, held, selection

LEMMA EnterStep == ASSUME TransportInv, NEW r \in Requests, Enter(r) PROVE TransportInv'
<1> DEFINE conf == IF r \in Clients THEN Config(request[r].mode) ELSE request[r].conf
           mode == IF r \in Clients THEN request[r].mode ELSE IdleRequest.mode
           v == [request[r] EXCEPT !.pc = "wait", !.conf = conf, !.mode = mode]
<1>1. conf \in Configs /\ mode \in Modes /\ request[r] \in RequestType
  BY ConfigTyped, DefaultsTyped DEF TransportInv, TransportTypes, RequestType
<1>2. Elsewhere(r)
  BY DEF Enter, Elsewhere, outOfReach, settings, held, selection
<1>3. Drop(r) \/ request' = [request EXCEPT ![r] = v]
  BY DEF Enter, TransportInv, TransportTypes
<1> HIDE DEF conf, mode
<1>4. v \in RequestType /\ v.pc = "wait"
  BY <1>1 DEF RequestType, RequestPcs
<1> HIDE DEF v
<1> QED BY <1>2, <1>3, <1>4, Unheld, Dropped

LEMMA InitializeStep == ASSUME TransportInv, NEW r \in Requests, Initialize(r) PROVE TransportInv'
<1>1. /\ UNCHANGED <<tunnel, stored, bridges, setting, teardown, desired, generation, managers, current>>
      /\ initializing = NoRequest
  BY DEF Initialize, outOfReach, settings, selection
<1>2. CASE Drop(r) /\ UNCHANGED initializing
  BY <1>1, <1>2, Dropped DEF Elsewhere
<1>3. CASE Step(r, "drain") /\ initializing' = r
  <2> DEFINE v == [request[r] EXCEPT !.pc = "drain"]
  <2>1. v \in RequestType /\ v.pc = "drain"
    BY SteppedTyped DEF RequestPcs
  <2>2. request' = [request EXCEPT ![r] = v]
    BY <1>3 DEF Step, TransportInv, TransportTypes
  <2> HIDE DEF v
  <2>3. Later(managers') /\ Backed(v, managers')
    BY <1>1, <2>1, SameLater DEF Backed, Holding
  <2>4. request' \in [Requests -> RequestType] /\ \A x \in Requests : Backed(request'[x], managers')
    BY <2>1, <2>2, <2>3, RequestMoved
  <2>5. TransportTypes' /\ OnePublished'
    BY <1>1, <2>4 DEF TransportInv, TransportTypes, OnePublished, Wanted, SelectionFree
  <2>6. Exclusive'
    <3>1. /\ request'[r] = v /\ \A x \in Requests \ {r} : request'[x] = request[x]
      BY <2>2 DEF TransportInv, TransportTypes
    <3>2. \A x \in Requests : x # NoRequest /\ x # Shutdown
      BY TransportAssumption DEF Requests, Shutdown
    <3>3. teardown.pc # "drain"
      BY <1>1, TransportAssumption DEF TransportInv, Exclusive, Shutdown
    <3> QED BY <1>1, <1>3, <2>1, <3>1, <3>2, <3>3 DEF TransportInv, Exclusive, Locking
  <2> QED BY <2>4, <2>5, <2>6 DEF TransportInv
<1> QED BY <1>2, <1>3 DEF Initialize

\* The request that obtains a manager of its configuration.
LEMMA Obtained ==
  ASSUME TransportInv, NEW r \in Requests, NEW m \in Nat, Obtain(r, m)
  PROVE  \E v \in RequestType :
            /\ request' = [request EXCEPT ![r] = v]
            /\ v.pc = "got" /\ v.kind = request[r].kind /\ v.conf = request[r].conf
            /\ v.kind # "pool" => v.manager = m
<1> DEFINE n == IF request[r].kind = "pool" THEN 0 ELSE m
           v == [request[r] EXCEPT !.pc = "got", !.manager = n]
<1>1. n \in Nat /\ request[r] \in RequestType /\ (request[r].kind # "pool" => n = m)
  BY DEF TransportInv, TransportTypes
<1>2. request' = [request EXCEPT ![r] = v]
  BY DEF Obtain, TransportInv, TransportTypes
<1> HIDE DEF n
<1>3. /\ v \in RequestType /\ v.pc = "got" /\ v.kind = request[r].kind /\ v.conf = request[r].conf
      /\ v.manager = n
  BY <1>1 DEF RequestType, RequestPcs
<1> HIDE DEF v
<1> QED BY <1>1, <1>2, <1>3

LEMMA ReuseStep == ASSUME TransportInv, NEW r \in Requests, Reuse(r) PROVE TransportInv'
<1>1. UNCHANGED <<tunnel, stored, bridges, setting, teardown, desired, generation>>
  BY DEF Reuse, outOfReach, settings, selection
<1>2. CASE Drop(r) /\ UNCHANGED <<current, managers>> /\ initializing' = NoRequest
  <2>1. Elsewhere(r)
    BY <1>1, <1>2 DEF Reuse, Elsewhere, Locking
  <2> QED BY <1>2, <2>1, Dropped
<1>3. CASE /\ Matching(request[r].conf) /\ Obtain(r, current) /\ UNCHANGED <<current, managers>>
           /\ initializing' = NoRequest
  <2>1. /\ current \in Nat /\ current \in 1..Len(managers)
        /\ managers[current].conf = request[r].conf
    BY <1>3 DEF Matching, TransportInv, TransportTypes
  <2>2. PICK v \in RequestType :
            /\ request' = [request EXCEPT ![r] = v]
            /\ v.pc = "got" /\ v.kind = request[r].kind /\ v.conf = request[r].conf
            /\ v.kind # "pool" => v.manager = current
    BY <1>3, <2>1, Obtained
  <2>3. Backed(v, managers) /\ ~Locking(v.pc)
    BY <2>1, <2>2 DEF Backed, Holding, Locking
  <2>4. Elsewhere(r)
    BY <1>1, <1>3 DEF Reuse, Elsewhere, Locking
  <2> QED BY <2>2, <2>3, <2>4, RequestOnly
<1>4. CASE RetireCurrent /\ Step(r, "create") /\ UNCHANGED initializing
  <2> DEFINE v == [request[r] EXCEPT !.pc = "create"]
  <2>1. v \in RequestType /\ v.pc = "create"
    BY SteppedTyped DEF RequestPcs
  <2>2. request' = [request EXCEPT ![r] = v]
    BY <1>4 DEF Step, TransportInv, TransportTypes
  <2> HIDE DEF v
  <2>3. Later(managers') /\ current' \in 0..Len(managers')
    BY <1>4, RetiredAll
  <2>4. Backed(v, managers')
    BY <2>1 DEF Backed, Holding
  <2>5. request' \in [Requests -> RequestType] /\ \A x \in Requests : Backed(request'[x], managers')
    BY <2>1, <2>2, <2>3, <2>4, RequestMoved
  <2>6. TransportTypes'
    BY <1>1, <2>3, <2>5 DEF TransportInv, TransportTypes, Later
  <2>7. Exclusive'
    <3>1. /\ request'[r] = v /\ \A x \in Requests \ {r} : request'[x] = request[x]
      BY <2>2 DEF TransportInv, TransportTypes
    <3>2. initializing = r /\ current' = 0
      BY <1>4, RetiredAll DEF Reuse, TransportInv, Exclusive, Locking
    <3> QED BY <1>1, <1>4, <2>1, <3>1, <3>2 DEF TransportInv, Exclusive, Locking
  <2> QED BY <1>4, <2>5, <2>6, <2>7, NonePublished DEF TransportInv
<1> QED BY <1>2, <1>3, <1>4 DEF Reuse

\* The manager in place was retired before; the new one is the only one.
LEMMA PublishStep == ASSUME TransportInv, NEW r \in Requests, Publish(r) PROVE TransportInv'
<1>1. /\ request[r].pc = "create" /\ SelectionFree /\ initializing' = NoRequest
      /\ UNCHANGED <<tunnel, stored, bridges, setting, teardown, desired, generation>>
  BY DEF Publish, outOfReach, settings, selection
<1>2. CASE Drop(r) /\ UNCHANGED <<current, managers>>
  <2>1. Elsewhere(r)
    BY <1>1, <1>2 DEF Elsewhere, Locking
  <2> QED BY <1>2, <2>1, Dropped
<1>3. CASE /\ Valid(r) /\ managers' = Built(r) /\ current' = Len(managers')
           /\ Obtain(r, Len(managers'))
  <2> DEFINE n == Len(managers)
             m == [conf |-> request[r].conf, retired |-> FALSE]
  <2>1. /\ n \in Nat /\ managers \in Seq(Managers) /\ current = 0
        /\ \A i \in 1..n : managers[i] \in Managers /\ managers[i].retired
    <3>1. n \in Nat /\ managers \in Seq(Managers) /\ current = 0
      BY <1>1 DEF TransportInv, TransportTypes, Exclusive
    <3>2. \A i \in 1..n : managers[i] \in Managers
      BY <3>1
    <3> QED BY <3>1, <3>2 DEF TransportInv, OnePublished
  <2>2. m \in Managers /\ m.conf = request[r].conf
    BY DEF TransportInv, TransportTypes, RequestType, Managers
  <2>3. managers' = Append(managers, m)
    BY <1>3 DEF Built
  <2> HIDE DEF m
  <2>4. /\ managers' \in Seq(Managers) /\ Len(managers') = n + 1 /\ managers'[n + 1] = m
        /\ \A i \in 1..n : managers'[i] = managers[i]
    BY <2>1, <2>2, <2>3
  <2>5. Later(managers') /\ current' = n + 1 /\ current' \in 0..Len(managers')
    BY <1>3, <2>1, <2>4 DEF Later
  <2>6. PICK v \in RequestType :
            /\ request' = [request EXCEPT ![r] = v]
            /\ v.pc = "got" /\ v.kind = request[r].kind /\ v.conf = request[r].conf
            /\ v.kind # "pool" => v.manager = n + 1
    BY <1>3, <2>1, <2>4, Obtained
  <2>7. Backed(v, managers')
    BY <2>1, <2>2, <2>4, <2>6 DEF Backed, Holding
  <2>8. request' \in [Requests -> RequestType] /\ \A x \in Requests : Backed(request'[x], managers')
    BY <2>5, <2>6, <2>7, RequestMoved
  <2>9. TransportTypes'
    BY <1>1, <2>4, <2>5, <2>8 DEF TransportInv, TransportTypes
  <2>10. OnePublished'
    <3>1. \A i \in 1..Len(managers') : ~managers'[i].retired => i = current'
      BY <2>1, <2>4, <2>5
    <3>2. desired' \subseteq {managers'[current'].conf}
      BY <1>1, <1>3, <2>2, <2>4, <2>5 DEF Valid, Wanted
    <3> QED BY <1>1, <3>1, <3>2 DEF OnePublished, SelectionFree, Wanted
  <2>11. Exclusive'
    BY <1>1, <2>6, LockReleased DEF Locking
  <2> QED BY <2>8, <2>9, <2>10, <2>11 DEF TransportInv
<1> QED BY <1>2, <1>3 DEF Publish

LEMMA BuildFailsStep == ASSUME TransportInv, NEW r \in Requests, BuildFails(r) PROVE TransportInv'
<1>1. Elsewhere(r)
  BY DEF BuildFails, Elsewhere, Locking, outOfReach, settings, selection
<1> QED BY <1>1, Dropped, RetriedAgain DEF BuildFails

LEMMA DialStep == ASSUME TransportInv, NEW r \in Requests, Dial(r) PROVE TransportInv'
<1>1. Elsewhere(r)
  BY DEF Dial, Elsewhere, outOfReach, settings, held, selection
<1>2. CASE Drop(r)
  BY <1>1, <1>2, Dropped
<1>3. CASE Step(r, "dial")
  <2> DEFINE v == [request[r] EXCEPT !.pc = "dial"]
  <2>1. /\ v \in RequestType /\ v.pc = "dial" /\ v.conf = request[r].conf
        /\ v.manager = request[r].manager
    BY SteppedTyped DEF RequestPcs
  <2>2. request' = [request EXCEPT ![r] = v]
    BY <1>3 DEF Step, TransportInv, TransportTypes
  <2> HIDE DEF v
  <2>3. Holding(request[r]) /\ Backed(request[r], managers)
    BY DEF Dial, Holding, TransportInv
  <2>4. Backed(v, managers) /\ ~Locking(v.pc)
    BY <2>1, <2>3 DEF Backed, Locking
  <2> QED BY <1>1, <2>1, <2>2, <2>4, RequestOnly
<1> QED BY <1>2, <1>3 DEF Dial

LEMMA PoolProbeStep == ASSUME TransportInv, NEW r \in Requests, PoolProbe(r) PROVE TransportInv'
<1> DEFINE conf == Config(request[r].mode)
           v == [request[r] EXCEPT !.pc = "dial", !.conf = conf, !.manager = current]
<1>1. Elsewhere(r)
  BY DEF PoolProbe, Elsewhere, outOfReach, settings, held, selection
<1>2. conf \in Configs /\ request[r] \in RequestType /\ current \in Nat
  BY ConfigTyped DEF TransportInv, TransportTypes, RequestType
<1> HIDE DEF conf
<1>3. v \in RequestType /\ v.pc = "dial" /\ v.conf = conf /\ v.manager = current
  BY <1>2 DEF RequestType, RequestPcs
<1>4. CASE Drop(r)
  BY <1>1, <1>4, Dropped
<1>5. CASE /\ Matching(conf)
           /\ request' = [request EXCEPT ![r].pc = "dial", ![r].conf = conf, ![r].manager = current]
  <2>1. request' = [request EXCEPT ![r] = v]
    BY <1>5 DEF TransportInv, TransportTypes
  <2> HIDE DEF v
  <2>2. Backed(v, managers) /\ ~Locking(v.pc)
    BY <1>3, <1>5 DEF Backed, Locking, Matching, TransportInv, TransportTypes
  <2> QED BY <1>1, <1>3, <2>1, <2>2, RequestOnly
<1> QED BY <1>4, <1>5 DEF PoolProbe, conf

LEMMA ConnectedStep == ASSUME TransportInv, NEW r \in Requests, Connected(r) PROVE TransportInv'
<1> DEFINE v == [IdleRequest EXCEPT !.pc = "open", !.manager = request[r].manager,
                                    !.conf = request[r].conf]
<1>1. Elsewhere(r)
  BY DEF Connected, Elsewhere, outOfReach, settings, held, selection
<1>2. /\ v \in RequestType /\ v.pc = "open" /\ v.conf = request[r].conf
      /\ v.manager = request[r].manager
  BY DefaultsTyped DEF TransportInv, TransportTypes, RequestType, RequestPcs
<1>3. request' = [request EXCEPT ![r] = v]
  BY DEF Connected
<1> HIDE DEF v
<1>4. Holding(request[r]) /\ Backed(request[r], managers)
  BY DEF Connected, Holding, TransportInv
<1>5. Backed(v, managers) /\ ~Locking(v.pc)
  BY <1>2, <1>4 DEF Backed, Locking
<1> QED BY <1>1, <1>2, <1>3, <1>5, RequestOnly

LEMMA RequestEndStep ==
  ASSUME TransportInv, NEW r \in Requests, BootstrapEnd(r) \/ DialFails(r) \/ Close(r)
  PROVE  TransportInv'
<1>1. Elsewhere(r)
  BY DEF BootstrapEnd, DialFails, Close, Elsewhere, outOfReach, settings, held, selection
<1> QED BY <1>1, Dropped, RetriedAgain DEF BootstrapEnd, DialFails, Close

-----------------------------------------------------------------------------
LEMMA TransportInductive == TransportSpec => []TransportInv
<1>1. ASSUME TransportInv, [TransportNext]_transportVars PROVE TransportInv'
  <2>1. CASE UNCHANGED transportVars
    BY <1>1, <2>1 DEF transportVars, selection, TransportInv, TransportTypes, OnePublished, Exclusive,
                      Wanted, SelectionFree
  <2>2. ASSUME NEW r \in Requests, RequestStep(r) PROVE TransportInv'
    BY <1>1, <2>2, ReadTunnelStep, BootstrapSelectStep, CaptureStep, EnterStep, InitializeStep, ReuseStep,
       PublishStep, BuildFailsStep, DialStep, PoolProbeStep, ConnectedStep, RequestEndStep
    DEF RequestStep
  <2> QED BY <1>1, <2>1, <2>2, LoadTunnelStep, SetBridgesStep, SelectBeginStep, SelectEndStep,
             ShutdownBeginStep, ShutdownLockStep, ShutdownEndStep
          DEF TransportNext
<1> QED BY <1>1, TransportInitInv, PTL DEF TransportSpec

\* Whatever selections, registry loads and shutdowns run between reading the tunnel
\* mode and dialling, a stream that carries data runs over the published manager and
\* over the selected configuration.
THEOREM StreamsSelected == TransportSpec => []StreamsOnSelection
<1>1. ASSUME TransportInv PROVE StreamsOnSelection
  <2> SUFFICES ASSUME NEW r \in Requests, Live(r)
               PROVE  /\ request[r].manager = current
                      /\ Wanted(request[r].conf) /\ managers[current].conf = request[r].conf
    BY DEF StreamsOnSelection
  <2>1. /\ request[r].manager \in 1..Len(managers) /\ ~managers[request[r].manager].retired
        /\ managers[request[r].manager].conf = request[r].conf
    BY <1>1 DEF Live, TransportInv, Backed, Holding
  <2> QED BY <1>1, <2>1 DEF TransportInv, OnePublished
<1> QED BY <1>1, TransportInductive, PTL
=============================================================================
