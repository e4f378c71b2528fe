----------------------------- MODULE NoteLedger -----------------------------
(***************************************************************************)
(* The wallet's view of its notes: which exist, which are spent and by     *)
(* what.  Four writers share the tables: the scanner persists the notes of *)
(* a batch and then its spends, a rollback removes what a reorganisation   *)
(* took away, a broadcast locks the notes of an accepted transaction, and  *)
(* a balance read releases the notes of expired transactions.              *)
(*                                                                         *)
(* The scanner finds spends through a cache of nullifiers held in memory.  *)
(* It is loaded once when a run starts, leaves out notes already locked by *)
(* a known transaction, and is cleared by every rollback.                  *)
(*                                                                         *)
(* A note stands for its nullifier.  A block is its height and the branch  *)
(* that minted it, with the wallet's transactions in it.                   *)
(***************************************************************************)
EXTENDS Integers, Sequences, FiniteSets, FiniteSetsExt, Functions

CONSTANTS
    Notes,         \* the wallet's notes
    Txs,           \* transactions that touch them
    Creates,       \* Creates[t]: notes among the outputs of t
    Spends,        \* Spends[t]: notes whose nullifiers t reveals
    Own,           \* transactions this wallet builds
    Lifetime,      \* TRANSACTION_EXPIRY_BLOCKS
    ChainTop,      \* bound: height of the chain
    MaxBatch,      \* bound: blocks in a batch
    MaxReorgs,     \* bound: reorganisations
    MaxRuns,       \* bound: runs of the engine
    MaxRepairs,    \* bound: witness repairs
    MaxFaults      \* bound: failed statements, lost answers and crashes

ASSUME LedgerSetsAssumption ==
    /\ Creates \in [Txs -> SUBSET Notes] /\ Spends \in [Txs -> SUBSET Notes]
    /\ Own \subseteq Txs /\ "nobody" \notin Txs
    /\ \A t, u \in Txs : t # u => Creates[t] \cap Creates[u] = {}
    /\ \A t \in Txs : Creates[t] \cap Spends[t] = {}
ASSUME LedgerBoundsAssumption ==
    {Lifetime, ChainTop, MaxBatch, MaxReorgs, MaxRuns, MaxRepairs, MaxFaults} \subseteq Nat

VARIABLES
    chain,    \* the server's blocks: branch and transactions, by height
    branch,   \* the branch new blocks belong to
    pool,     \* consensus expiry of every transaction the network accepted
    db,       \* notes, transaction rows, unlinked spends, intents, cursor, hashes
    eng,      \* the engine's run
    plans,    \* built transactions and the expiry height noted for them
    signed,   \* signed ones: noted expiry and the expiry in the transaction
    send,     \* the accepted broadcast being recorded
    runs, repairs, faults,
    blind,    \* history: a run scanned on with the cache a rollback cleared
    dropped,  \* history: a statement whose failure the code only logs has failed
    early,    \* history: a run ended between a batch's notes and its spends
    orphan,   \* history: a scanned block without a recorded hash was replaced
    stale,    \* history: a record the cursor had been rewound below lost its block
    freed     \* history: notes released from expired transactions

vars == <<chain, branch, pool, db, eng, plans, signed, send, runs, repairs, faults,
          blind, dropped, early, orphan, stale, freed>>
world == <<chain, branch, pool>>
wallet == <<plans, signed, send>>
counters == <<runs, repairs, faults>>
history == <<blind, dropped, early, orphan, stale, freed>>

NoTx == [tx |-> "none", step |-> "none"]
Nobody == "nobody"
Unseen == -1        \* no row in the transactions table
Pending == 0        \* a row without a height
NoBlock == <<0, 0>>

Tip == Len(chain)
BlockId(h) == <<h, chain[h].branch>>
MinedAt(t) == LET hs == {h \in 1..Tip : t \in chain[h].txs} IN IF hs = {} THEN 0 ELSE Max(hs)
Mined(t) == MinedAt(t) > 0

\* No run: what it kept in memory is gone.
Stopped == [pc |-> "idle", cur |-> 1, batch |-> <<>>, cache |-> {}, tracked |-> {}, prev |-> NoBlock]

Init ==
    /\ chain = <<>> /\ branch = 1
    /\ pool = [t \in {} |-> 0]
    /\ db = [notes |-> [n \in {} |-> 0], rows |-> [t \in Txs |-> Unseen], unlinked |-> {},
             intents |-> [t \in {} |-> 0], local |-> 0, hashes |-> {}]
    /\ eng = Stopped
    /\ plans = [t \in {} |-> 0] /\ signed = [t \in {} |-> 0] /\ send = NoTx
    /\ runs = 0 /\ repairs = 0 /\ faults = 0
    /\ blind = FALSE /\ dropped = FALSE /\ early = FALSE /\ orphan = FALSE /\ stale = FALSE /\ freed = {}

-----------------------------------------------------------------------------
(* External: the network.                                                  *)

Spendable(n) ==
    /\ \E t \in Txs : n \in Creates[t] /\ Mined(t)
    /\ \A t \in Txs : n \in Spends[t] => ~Mined(t)

\* A block with at most one transaction of interest.  One of ours must have
\* reached the network and is valid up to its expiry height.
Mine ==
    /\ Tip < ChainTop
    /\ \E txs \in {{}} \cup {{t} : t \in Txs} :
         /\ \A t \in txs : /\ ~Mined(t) /\ \A n \in Spends[t] : Spendable(n)
                           /\ t \in Own => t \in DOMAIN pool /\ Tip + 1 <= pool[t]
         /\ chain' = Append(chain, [branch |-> branch, txs |-> txs])
    /\ UNCHANGED <<branch, pool, db, eng, wallet, counters, history>>

\* The batch whose notes are written and whose hash rows are still to come.
End == eng.cur + Len(eng.batch) - 1
InFlight == IF eng.pc \in {"spends", "save"} THEN eng.cur..End ELSE {}

HashAt(d, h) == {b \in d.hashes : b[1] = h}
OnChain(b) == b[1] <= Tip /\ b = BlockId(b[1])

\* The height scanning goes on after: the cursor, or where the run is.
Reach(d, e) == IF e.pc = "idle" THEN d.local ELSE e.cur - 1

\* What was scanned, or a transaction's row, rests on a block at or above h
\* whose hash the wallet has not recorded.
Unanchored(h) ==
    \E k \in (h..ChainTop) \ InFlight :
        HashAt(db, k) = {} /\ (k <= Reach(db, eng) \/ \E t \in Txs : db.rows[t] = k)

\* A row a rewind kept rests on a block at or above h, higher than any hash
\* that will be compared.
Exposed(h) ==
    \E t \in Txs : db.rows[t] >= h /\ db.rows[t] > Reach(db, eng) /\ db.rows[t] \notin InFlight

\* A row is left above the height scanning goes on after, d and e being the
\* tables and the run from now on, and its block has already been replaced.
LeftBehind(d, e) ==
    \E t \in Txs : /\ d.rows[t] > Reach(d, e) /\ d.rows[t] \notin InFlight
                   /\ \E b \in HashAt(d, d.rows[t]) : ~OnChain(b)

\* The same for a batch that was replaced while it was written, when the run
\* ends without recording its hashes.
Stranded == \E k \in InFlight : ~OnChain(<<k, eng.batch[k + 1 - eng.cur].branch>>)

\* The chain is replaced from height h on: the old blocks go, those of the new
\* branch are mined one by one, and transactions go back to the pool.
Reorg ==
    /\ branch <= MaxReorgs
    /\ branch' = branch + 1
    /\ \E h \in 1..Tip : /\ chain' = SubSeq(chain, 1, h - 1)
                         /\ orphan' = (orphan \/ Unanchored(h)) /\ stale' = (stale \/ Exposed(h))
    /\ UNCHANGED <<pool, db, eng, wallet, counters, blind, dropped, early, freed>>

-----------------------------------------------------------------------------
(* The tables.                                                             *)

Known(d) == DOMAIN d.notes
Locked(d, n) == d.notes[n].spent /\ d.notes[n].by # Nobody
FreshNote(h) == [h |-> h, spent |-> FALSE, by |-> Nobody]

\* truncate_above_height: notes above h, spends by transactions above, their
\* unlinked rows, the rows themselves and the hashes go.  Intents survive.  The
\* cursor goes with the commitment trees to c, their newest common checkpoint at
\* or below h, and the records between c and h stay.
ResetSpentBy(notes, gone) ==
    [n \in DOMAIN notes |-> IF notes[n].by \in gone THEN FreshNote(notes[n].h) ELSE notes[n]]
TruncateKeepsSpends(d, h, c) ==   \* mutant
    [d EXCEPT !.notes = Restrict(d.notes, {n \in Known(d) : d.notes[n].h <= h}),
              !.rows = [t \in Txs |-> IF d.rows[t] > h THEN Unseen ELSE d.rows[t]],
              !.local = c, !.hashes = {b \in d.hashes : b[1] <= h}]
Truncate(d, h, c) ==
    LET gone == {t \in Txs : d.rows[t] > h}
        kept == {n \in Known(d) : d.notes[n].h <= h}
    IN [d EXCEPT
          !.notes = Restrict(ResetSpentBy(d.notes, gone), kept),
          !.unlinked = {u \in d.unlinked : u[2] \notin gone},
          !.rows = [t \in Txs |-> IF t \in gone THEN Unseen ELSE d.rows[t]],
          !.local = c,
          !.hashes = {b \in d.hashes : b[1] <= h}]

\* The trees are ChainSync's; here any height may be their newest checkpoint.
Checkpoints(h) == 0..h

\* get_spend_reconciliation_notes: unspent, or spent by nobody knows what.
Reconcilable(d) == {n \in Known(d) : ~Locked(d, n)}

-----------------------------------------------------------------------------
(* The scanner.                                                            *)

\* The newest recorded block, and the newest at or below a height the server has.
NewestHash(hashes) == Max({0} \cup {b[1] : b \in hashes})
Ancestor(hashes, div) ==
    Max({0} \cup {b[1] : b \in {c \in hashes : c[1] <= div /\ OnChain(c)}})

\* validate_resume_chain, for a run after height at: the height the data must be
\* rewound to.  Nothing is compared when the server is behind or no hash is
\* recorded at the height or below it as the newest.
ResumeRow(hashes, at) ==
    IF \E b \in hashes : b[1] = at THEN at
    ELSE IF NewestHash(hashes) < at THEN NewestHash(hashes) ELSE 0
ResumeAt(hashes, at, repairGap) ==
    LET row == ResumeRow(hashes, at)
    IN IF at > Tip \/ row = 0 THEN at
       ELSE IF \A b \in hashes : b[1] = row => OnChain(b)
            THEN IF repairGap THEN row ELSE at
       ELSE Ancestor(hashes, row)

\* ensure_nullifier_cache: once per run, from the notes no transaction locks.
CacheNothing(d) == {}   \* mutant
EnsureNullifierCache(d) == Reconcilable(d)
Running(d, cur) == [pc |-> "main", cur |-> cur, batch |-> <<>>, prev |-> NoBlock,
                    cache |-> EnsureNullifierCache(d), tracked |-> {}]

\* The run goes on after the height the data was rewound to, on trees the server
\* provides, or after the cursor when it has to replay its own.
GoesOn(d, h) == eng' \in {Running(d, h + 1), Running(d, d.local + 1)}

\* A run begins: the scanned chain is validated, then the cache loaded.
StartRun ==
    /\ eng.pc = "idle" /\ runs < MaxRuns
    /\ runs' = runs + 1
    /\ LET h == ResumeAt(db.hashes, db.local, TRUE)
       IN /\ IF h < db.local THEN \E c \in Checkpoints(h) : db' = Truncate(db, h, c)
             ELSE UNCHANGED db
          /\ GoesOn(db', h)
    /\ stale' = (stale \/ LeftBehind(db', eng'))
    /\ UNCHANGED <<world, wallet, repairs, faults, blind, dropped, early, orphan, freed>>

\* A rescan truncates everything above the requested height and starts over
\* there; the chain below is validated, a gap in its hashes is intended.
Rescan ==
    /\ eng.pc = "idle" /\ runs < MaxRuns
    /\ runs' = runs + 1
    /\ \E from \in 1..db.local :
         LET h == ResumeAt({b \in db.hashes : b[1] < from}, from - 1, FALSE)
         IN \E c \in Checkpoints(h) : db' = Truncate(db, h, c) /\ GoesOn(db', h)
    /\ stale' = (stale \/ LeftBehind(db', eng'))
    /\ UNCHANGED <<world, wallet, repairs, faults, blind, dropped, early, orphan, freed>>

\* rollback_to_checkpoint in the middle of a run: the cache is cleared, and
\* nothing in the run loads it again.
Rollback(h, c, cur, prev) ==
    /\ db' = Truncate(db, h, c)
    /\ eng' = [eng EXCEPT !.pc = "main", !.cur = cur, !.prev = prev, !.batch = <<>>,
                          !.cache = {}, !.tracked = {}]
    /\ blind' = (blind \/ Reconcilable(db') # {})
    /\ stale' = (stale \/ LeftBehind(db', eng'))

\* A queued witness repair rewinds the run to where the trees went.
Repair ==
    /\ eng.pc = "main" /\ repairs < MaxRepairs
    /\ repairs' = repairs + 1
    /\ \E h \in 0..eng.cur - 2 : \E c \in Checkpoints(h) : Rollback(h, c, c + 1, NoBlock)
    /\ UNCHANGED <<world, wallet, runs, faults, dropped, early, orphan, freed>>

\* The parent of the next block is what was scanned last.
ParentKnown ==
    eng.cur > 1 => IF eng.prev # NoBlock THEN BlockId(eng.cur - 1) = eng.prev
                   ELSE \A b \in HashAt(db, eng.cur - 1) : OnChain(b)

\* The next blocks, or the discovery that they do not follow the scanned ones.
Fetch ==
    /\ eng.pc = "main" /\ eng.cur <= Tip /\ ParentKnown
    /\ \E e \in eng.cur..Min({Tip, eng.cur + MaxBatch - 1}) :
         eng' = [eng EXCEPT !.pc = "notes", !.batch = SubSeq(chain, eng.cur, e), !.prev = BlockId(e)]
    /\ UNCHANGED <<world, db, wallet, counters, history>>
BoundaryReorg ==
    /\ eng.pc = "main" /\ eng.cur <= Tip /\ ~ParentKnown
    /\ LET a == Ancestor(db.hashes, eng.cur - 1)
       IN \E c \in Checkpoints(a) : Rollback(a, c, a + 1, NoBlock)
    /\ UNCHANGED <<world, wallet, counters, dropped, early, orphan, freed>>

\* The monitor, when the range is scanned: the last scanned block has been
\* replaced.  The hash of the last processed block stays as it was.
MonitorReorg ==
    /\ eng.pc = "main"
    /\ LET h == ResumeAt(db.hashes, eng.cur - 1, TRUE)
       IN /\ h < eng.cur - 1
          /\ \E c \in Checkpoints(h) : Rollback(h, c, h + 1, eng.prev)
    /\ UNCHANGED <<world, wallet, counters, dropped, early, orphan, freed>>

\* The fetched batch.
BatchTxs == UNION {eng.batch[i].txs : i \in DOMAIN eng.batch}
HeightOf(t) == eng.cur - 1 + (CHOOSE i \in DOMAIN eng.batch : t \in eng.batch[i].txs)
Paying == {t \in BatchTxs : Creates[t] # {}}
BatchNotes == UNION {Creates[t] : t \in Paying}

\* persist_notes: transaction rows, notes, the spends recorded before their
\* note was known, and the cursor, which goes to the newest note.
NoteHeight(n) == Max({HeightOf(t) : t \in {u \in Paying : n \in Creates[u]}})
UnlinkedSpender(d, n) == {u[2] : u \in {v \in d.unlinked : v[1] = n}}
Persisted(d, n) ==
    LET by == UnlinkedSpender(d, n)
        old == IF n \in Known(d) THEN d.notes[n] ELSE FreshNote(0)
    IN IF by = {} THEN [old EXCEPT !.h = NoteHeight(n)]
       ELSE [h |-> NoteHeight(n), spent |-> TRUE, by |-> CHOOSE t \in by : TRUE]
PersistNotes(d) ==
    [d EXCEPT
       !.notes = [n \in Known(d) \cup BatchNotes |->
                    IF n \in BatchNotes THEN Persisted(d, n) ELSE d.notes[n]],
       !.rows = [t \in Txs |-> IF t \in Paying THEN HeightOf(t) ELSE @[t]],
       !.unlinked = {u \in @ : u[1] \notin BatchNotes},
       !.local = IF BatchNotes = {} THEN @ ELSE Max({NoteHeight(n) : n \in BatchNotes})]

Persist ==
    /\ eng.pc = "notes"
    /\ db' = PersistNotes(db)
    /\ eng' = [eng EXCEPT !.pc = "spends", !.tracked = @ \cup Paying,
                 !.cache = (@ \ BatchNotes) \cup {n \in BatchNotes : ~db'.notes[n].spent}]
    /\ UNCHANGED <<world, wallet, counters, history>>

\* apply_spends: cached nullifiers first; an unknown one counts only in a
\* transaction that also pays the wallet, where it is re-derived from the
\* stored notes, or kept as unlinked and matched by nullifier.
BatchSpends == {s \in Notes \X BatchTxs : s[1] \in Spends[s[2]]}
CacheHits == {s \in BatchSpends : s[1] \in eng.cache}
TrackedSpends == {s \in BatchSpends \ CacheHits : s[2] \in eng.tracked}
UnlinkedSpends(d) == {s \in TrackedSpends : s[1] \notin Reconcilable(d)}
Hits == CacheHits \cup TrackedSpends

Applied(d, hits) ==
    LET by(n) == CHOOSE t \in Txs : <<n, t>> \in hits
        hit(n) == \E t \in Txs : <<n, t>> \in hits
    IN [d EXCEPT
          !.notes = [n \in Known(d) |-> IF hit(n) THEN [d.notes[n] EXCEPT !.spent = TRUE, !.by = by(n)]
                                        ELSE d.notes[n]],
          !.unlinked = @ \cup UnlinkedSpends(d),
          !.rows = [t \in Txs |-> IF \E n \in Notes : <<n, t>> \in hits THEN HeightOf(t) ELSE @[t]]]

ApplySpends ==
    /\ eng.pc = "spends"
    /\ db' = Applied(db, Hits)
    /\ eng' = [eng EXCEPT !.pc = "save", !.cache = @ \ {s[1] : s \in Hits},
                          !.tracked = @ \cup {s[2] : s \in CacheHits}]
    /\ UNCHANGED <<world, wallet, counters, history>>

\* The batched update fails: a warning, and the batch counts as scanned.  The
\* unlinked nullifiers were stored by a statement of their own.
ApplySpendsFails ==
    /\ eng.pc = "spends" /\ faults < MaxFaults /\ Hits # {}
    /\ faults' = faults + 1
    /\ dropped' = TRUE
    /\ db' = [db EXCEPT !.unlinked = @ \cup UnlinkedSpends(db)]
    /\ eng' = [eng EXCEPT !.pc = "save", !.tracked = @ \cup {s[2] : s \in CacheHits}]
    /\ UNCHANGED <<world, wallet, runs, repairs, blind, early, orphan, stale, freed>>

\* save_sync_state: cursor and hashes together.
Save ==
    /\ eng.pc = "save"
    /\ db' = [db EXCEPT !.local = End,
                        !.hashes = {b \in @ : b[1] \notin eng.cur..End} \cup
                                   {<<eng.cur + i - 1, eng.batch[i].branch>> : i \in DOMAIN eng.batch}]
    /\ eng' = [eng EXCEPT !.pc = "main", !.cur = End + 1, !.batch = <<>>]
    /\ UNCHANGED <<world, wallet, counters, history>>

\* The run ends by cancellation or an error.
StopRun ==
    /\ eng.pc # "idle"
    /\ eng' = Stopped
    /\ early' = (early \/ (eng.pc = "spends" /\ BatchNotes # {})) /\ orphan' = (orphan \/ Stranded)
    /\ stale' = (stale \/ LeftBehind(db, eng'))
    /\ UNCHANGED <<world, db, wallet, counters, blind, dropped, freed>>

-----------------------------------------------------------------------------
(* Sending.                                                                *)

\* build_tx selects unspent notes and notes an expiry counted from the cursor.
BuildTx ==
    /\ \E t \in Own \ DOMAIN plans :
         /\ \A n \in Spends[t] : n \in Known(db) /\ ~db.notes[n].spent
         /\ plans' = [u \in DOMAIN plans \cup {t} |->
                        IF u = t THEN db.local + Lifetime ELSE plans[u]]
    /\ UNCHANGED <<world, db, eng, signed, send, counters, history>>

\* sign_tx: the transaction's own expiry counts from the target height of the
\* signing; the noted one is carried along for the intent.
SignTx ==
    /\ \E t \in DOMAIN plans \ DOMAIN signed :
         signed' = [u \in DOMAIN signed \cup {t} |->
                      IF u = t THEN [noted |-> plans[t], real |-> db.local + 1 + Lifetime]
                      ELSE signed[u]]
    /\ UNCHANGED <<world, db, eng, plans, send, counters, history>>

\* The network takes a transaction whose notes are unspent and that can still
\* be mined.
Accepts(t) == /\ \A n \in Spends[t] : Spendable(n)
              /\ Tip < signed[t].real
              /\ \A u \in DOMAIN pool \ {t} : Spends[u] \cap Spends[t] = {} \/ Tip >= pool[u]
Pooled(t) == [u \in DOMAIN pool \cup {t} |-> IF u = t THEN signed[t].real ELSE pool[u]]

\* broadcast_tx: accepted, and the answer arrives.
Broadcast ==
    /\ send = NoTx
    /\ \E t \in DOMAIN signed \ DOMAIN pool :
         /\ Accepts(t)
         /\ pool' = Pooled(t)
         /\ send' = [tx |-> t, step |-> "mark"]
    /\ UNCHANGED <<chain, branch, db, eng, plans, signed, counters, history>>

\* Accepted, but the answer is lost: the wallet records nothing.
AnswerLost ==
    /\ send = NoTx /\ faults < MaxFaults
    /\ faults' = faults + 1
    /\ \E t \in DOMAIN signed \ DOMAIN pool : Accepts(t) /\ pool' = Pooled(t)
    /\ UNCHANGED <<chain, branch, db, eng, wallet, runs, repairs, history>>

\* record_accepted_broadcast, first transaction: lock the notes.
RecordMark ==
    /\ send.step = "mark"
    /\ db' = [db EXCEPT !.notes = [n \in Known(db) |->
                 IF n \in Spends[send.tx] THEN [@[n] EXCEPT !.spent = TRUE, !.by = send.tx] ELSE @[n]]]
    /\ send' = [send EXCEPT !.step = "intent"]
    /\ UNCHANGED <<world, eng, plans, signed, counters, history>>

\* Second transaction: the intent with its expiry, and a row without a height.
RecordIntent ==
    /\ send.step = "intent"
    /\ db' = [db EXCEPT
                 !.intents = [u \in DOMAIN @ \cup {send.tx} |->
                                IF u = send.tx THEN signed[u].noted ELSE @[u]],
                 !.rows[send.tx] = IF @ = Unseen THEN Pending ELSE @]
    /\ send' = NoTx
    /\ UNCHANGED <<world, eng, plans, signed, counters, history>>

\* Either statement fails; the code goes on.
RecordFails ==
    /\ send # NoTx /\ faults < MaxFaults
    /\ faults' = faults + 1
    /\ dropped' = TRUE
    /\ send' = IF send.step = "mark" THEN [send EXCEPT !.step = "intent"] ELSE NoTx
    /\ UNCHANGED <<world, db, eng, plans, signed, runs, repairs, blind, early, orphan, stale, freed>>

\* The process dies: the run and everything kept in memory is gone.
Crash ==
    /\ faults < MaxFaults
    /\ faults' = faults + 1
    /\ eng' = Stopped
    /\ plans' = [t \in {} |-> 0] /\ signed' = [t \in {} |-> 0] /\ send' = NoTx
    /\ early' = (early \/ (eng.pc = "spends" /\ BatchNotes # {})) /\ orphan' = (orphan \/ Stranded)
    /\ stale' = (stale \/ LeftBehind(db, eng'))
    /\ dropped' = (dropped \/ send.step = "intent")
    /\ UNCHANGED <<world, db, runs, repairs, blind, freed>>

\* get_balance and list_transactions, while no run is changing the wallet:
\* notes of transactions past their noted expiry and without a height.
Quiet == eng.pc = "idle" \/ (eng.pc = "main" /\ eng.cur > Tip)
ExpiredIgnoresRows(d) == {t \in DOMAIN d.intents : d.local > d.intents[t]}   \* mutant
Expired(d) == {t \in DOMAIN d.intents : d.local > d.intents[t] /\ d.rows[t] <= 0}
ReleaseExpired ==
    /\ Quiet
    /\ LET out == {n \in Known(db) : db.notes[n].spent /\ db.notes[n].by \in Expired(db)}
       IN /\ out # {}
          /\ db' = [db EXCEPT !.notes = ResetSpentBy(@, Expired(db))]
          /\ freed' = freed \cup out
    /\ UNCHANGED <<world, eng, wallet, counters, blind, dropped, early, orphan, stale>>

Scanner ==
    \/ StartRun \/ Rescan \/ Repair \/ Fetch \/ BoundaryReorg \/ MonitorReorg
    \/ Persist \/ ApplySpends \/ ApplySpendsFails \/ Save \/ StopRun
Sender ==
    \/ BuildTx \/ SignTx \/ Broadcast \/ AnswerLost \/ RecordMark \/ RecordIntent
    \/ RecordFails \/ ReleaseExpired

Next == Mine \/ Reorg \/ Scanner \/ Sender \/ Crash
Spec == Init /\ [][Next]_vars

-----------------------------------------------------------------------------
\* The shape of the state: a note has one spender, a row one height.
TypeOK ==
    /\ Known(db) \subseteq Notes
    /\ \A n \in Known(db) : db.notes[n] \in [h : 1..ChainTop, spent : BOOLEAN, by : Txs \cup {Nobody}]
    /\ \A n \in Known(db) : db.notes[n].spent <=> db.notes[n].by # Nobody
    /\ db.rows \in [Txs -> Unseen..ChainTop] /\ db.local \in 0..ChainTop
    /\ db.unlinked \subseteq Notes \X Txs
    /\ eng.pc \in {"idle", "main", "notes", "spends", "save"} /\ eng.cache \subseteq Notes
    /\ send.step \in {"none", "mark", "intent"}

\* The cursor stands on a block of the server's chain that has been saved.
AtRest ==
    /\ eng.pc \in {"idle", "main"} /\ db.local <= Tip
    /\ \E b \in HashAt(db, db.local) : OnChain(b)

\* A nullifier the chain reveals at or below the cursor marks its note spent:
\* over any order of restarts, reorgs, rescans and sends no spend slips past
\* the cache.  The exceptions are the ones the history variables name: a cache
\* cleared by a rollback, a statement that failed, a run that ended between a
\* batch's notes and spends, a scanned block without a hash row reorganised
\* away, a record that outlived its block above a rewound cursor, and notes
\* released by expiry.
SpendsSeen ==
    AtRest /\ ~blind /\ ~dropped /\ ~early /\ ~orphan /\ ~stale =>
        \A t \in Txs : MinedAt(t) \in 1..db.local =>
            \A n \in (Spends[t] \cap Known(db)) \ freed : db.notes[n].spent

\* A locked note always has somebody who will unlock it or make it final: its
\* transaction has a height, or an intent whose expiry releases it.  Neither
\* truncation, rescan nor re-inserted notes leave a lock behind.
NoOrphanLock ==
    ~dropped => \A n \in Known(db) : db.notes[n].spent =>
        LET t == db.notes[n].by
        IN db.rows[t] > 0 \/ t \in DOMAIN db.intents \/ send = [tx |-> t, step |-> "intent"]

\* "confirmed_outgoing_intent_never_releases_its_spent_notes": a spend with a
\* height stays recorded, unless a rewind takes its transaction away.
ConfirmedSpendKept ==
    [][\A n \in Known(db) \cap DOMAIN db'.notes :
          db.notes[n].spent /\ db.rows[db.notes[n].by] > 0 /\ ~db'.notes[n].spent
            => db'.rows[db.notes[n].by] = Unseen]_vars

\* Released notes belong to transactions that are "now consensus-invalid
\* because the locally scanned chain passed their expiry height without
\* observing a confirmation" (release_expired_outgoing_notes): none of them
\* has been mined.
ReleaseSound ==
    \A n \in freed \cap Known(db) : ~db.notes[n].spent =>
        \A t \in Txs : n \in Spends[t] => MinedAt(t) \notin 1..db.local
=============================================================================
