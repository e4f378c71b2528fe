------------------------- MODULE LedgerSearchProofs -------------------------
(***************************************************************************)
(* Proofs about the note ledger (NoteLedger) and the common-ancestor search*)
(* (AncestorSearch), which the ledger's rollback takes as one step.        *)
(***************************************************************************)
EXTENDS NoteLedger, AncestorSearch, SequenceTheorems, FiniteSetTheorems, Extrema

-----------------------------------------------------------------------------
(***************************************************************************)
(* Proofs about NoteLedger for every chain, every set of notes and         *)
(* transactions and any number of reorganisations, crashes and sends.      *)
(*                                                                         *)
(* NoOrphanLock says that every note marked spent can be explained: its    *)
(* transaction is mined, has an intent, or its intent is the next statement*)
(* of the send.  A note can also be born spent, when its nullifier was seen*)
(* before the note itself, so the inductive invariant (Locks) says of every*)
(* unlinked nullifier that its transaction has a mined row.  A rewind forgets*)
(* rows, and with each row the marks and the nullifiers that rest on it    *)
(* (Rewound, TruncateRewinds); every other write only adds to what explains a*)
(* mark (PersistGrows, ApplyGrows).  The history variable dropped excuses a*)
(* statement that failed and was only logged.                              *)
(***************************************************************************)

Blocks == [branch : Int, txs : SUBSET Txs]
NoteRow == [h : 1..ChainTop, spent : BOOLEAN, by : Txs \cup {Nobody}]

TableTypes(d) ==
    /\ DOMAIN d = {"notes", "rows", "unlinked", "intents", "local", "hashes"}
    /\ Known(d) \subseteq Notes
    /\ \A n \in Known(d) : d.notes[n] \in NoteRow
    /\ \A n \in Known(d) : d.notes[n].spent <=> d.notes[n].by # Nobody
    /\ d.rows \in [Txs -> Unseen..ChainTop]
    /\ d.local \in 0..ChainTop
    /\ d.unlinked \subseteq Notes \X Txs
    /\ d.hashes \subseteq (1..ChainTop) \X Int

EngineTypes(e) ==
    /\ DOMAIN e = {"pc", "cur", "batch", "cache", "tracked", "prev"}
    /\ e.pc \in {"idle", "main", "notes", "spends", "save"}
    /\ e.cur \in Nat \ {0}
    /\ e.batch \in Seq(Blocks)
    /\ e.cur + Len(e.batch) - 1 <= ChainTop
    /\ e.cache \subseteq Notes

SendTypes(s) ==
    /\ s \in [tx : Txs \cup {"none"}, step : {"none", "mark", "intent"}]
    /\ s.step # "none" => s.tx \in Txs

LedgerTypes ==
    /\ chain \in Seq(Blocks) /\ Len(chain) <= ChainTop /\ branch \in Int
    /\ TableTypes(db)
    /\ EngineTypes(eng)
    /\ SendTypes(send)
    /\ DOMAIN signed \subseteq Own /\ DOMAIN plans \subseteq Own

\* A lock has its transaction's height or intent; so will the lock of a spend
\* that is still waiting for its note.
Accounted(d, s, t) == \/ d.rows[t] > 0
                      \/ t \in DOMAIN d.intents
                      \/ s.step = "intent" /\ s.tx = t
Locks(d, s) ==
    /\ \A n \in Known(d) : d.notes[n].spent => Accounted(d, s, d.notes[n].by)
    /\ \A u \in d.unlinked : d.rows[u[2]] > 0

LedgerInv == LedgerTypes /\ (~dropped => Locks(db, send))

-----------------------------------------------------------------------------
(* The tables.                                                             *)

LEMMA Bounds == ChainTop \in Nat /\ Lifetime \in Nat /\ MaxBatch \in Nat /\ MaxFaults \in Nat
BY LedgerBoundsAssumption

\* What a rewind may do: it forgets transactions and the locks of those it
\* forgets.
Rewound(d, e) ==
    /\ e.intents = d.intents
    /\ Known(e) \subseteq Known(d)
    /\ e.unlinked \subseteq d.unlinked
    /\ \A t \in Txs : e.rows[t] \in {d.rows[t], Unseen}
    /\ \A n \in Known(e) :
         \/ e.notes[n].spent = d.notes[n].spent /\ e.notes[n].by = d.notes[n].by
            /\ (d.notes[n].spent => e.rows[d.notes[n].by] = d.rows[d.notes[n].by])
         \/ ~e.notes[n].spent /\ e.rows[d.notes[n].by] = Unseen
    /\ \A u \in e.unlinked : e.rows[u[2]] = d.rows[u[2]]

LEMMA TruncateRewinds ==
  ASSUME NEW d, TableTypes(d), NEW h \in 0..ChainTop, NEW c \in 0..h
  PROVE  /\ TableTypes(Truncate(d, h, c)) /\ Rewound(d, Truncate(d, h, c))
         /\ Truncate(d, h, c).local = c
<1> USE Bounds
<1> DEFINE gone == {t \in Txs : d.rows[t] > h}
           kept == {n \in Known(d) : d.notes[n].h <= h}
           reset == ResetSpentBy(d.notes, gone)
           notes == Restrict(reset, kept)
           rows == [t \in Txs |-> IF t \in gone THEN Unseen ELSE d.rows[t]]
           unlinked == {u \in d.unlinked : u[2] \notin gone}
           hashes == {b \in d.hashes : b[1] <= h}
           e == Truncate(d, h, c)
<1>1. /\ DOMAIN e = DOMAIN d
      /\ e.notes = notes /\ e.rows = rows /\ e.unlinked = unlinked /\ e.local = c
      /\ e.hashes = hashes /\ e.intents = d.intents
  <2> HIDE DEF gone, kept, notes, rows, unlinked, hashes
  <2>1. e = [d EXCEPT !.notes = notes, !.unlinked = unlinked, !.rows = rows, !.local = c,
                      !.hashes = hashes]
    BY DEF Truncate, gone, kept, reset, notes, rows, unlinked, hashes
  <2> QED BY <2>1 DEF TableTypes
<1> HIDE DEF e
<1>2. DOMAIN notes = kept /\ \A n \in kept : notes[n] = IF d.notes[n].by \in gone
                                                        THEN FreshNote(d.notes[n].h) ELSE d.notes[n]
  BY DEF ResetSpentBy, Restrict, Known
<1>3. \A n \in kept : /\ notes[n] \in NoteRow
                      /\ notes[n].spent <=> notes[n].by # Nobody
                      /\ d.notes[n].by \in gone => ~notes[n].spent
                      /\ d.notes[n].by \notin gone => notes[n] = d.notes[n]
  <2> SUFFICES ASSUME NEW n \in kept
               PROVE  /\ notes[n] \in NoteRow
                      /\ notes[n].spent <=> notes[n].by # Nobody
                      /\ d.notes[n].by \in gone => ~notes[n].spent
                      /\ d.notes[n].by \notin gone => notes[n] = d.notes[n]
    OBVIOUS
  <2>0. d.notes[n] \in NoteRow /\ (d.notes[n].spent <=> d.notes[n].by # Nobody)
    BY DEF TableTypes
  <2>1. CASE d.notes[n].by \in gone
    <3>1. notes[n] = FreshNote(d.notes[n].h)
      BY <1>2, <2>1
    <3>2. notes[n].h = d.notes[n].h /\ notes[n].spent = FALSE /\ notes[n].by = Nobody
      BY <3>1 DEF FreshNote
    <3>3. notes[n] \in NoteRow
      <4>1. d.notes[n].h \in 1..ChainTop
        BY <2>0 DEF NoteRow
      <4> HIDE DEF notes, gone
      <4> QED BY <3>1, <4>1 DEF NoteRow, FreshNote
    <3> HIDE DEF gone, notes
    <3> QED BY <2>1, <3>2, <3>3
  <2>2. CASE d.notes[n].by \notin gone
    BY <1>2, <2>0, <2>2
  <2> QED BY <2>1, <2>2
<1>4. rows \in [Txs -> Unseen..ChainTop]
  BY DEF TableTypes, Unseen
<1>5. TableTypes(e)
  <2>1. Known(e) = kept
    BY <1>1, <1>2 DEF Known
  <2> QED BY <1>1, <1>3, <1>4, <2>1 DEF TableTypes
<1>6. Rewound(d, e)
  <2>1. Known(e) = kept
    BY <1>1, <1>2 DEF Known
  <2>2. \A t \in Txs : rows[t] \in {d.rows[t], Unseen}
    OBVIOUS
  <2>3. \A u \in unlinked : u[2] \in Txs /\ rows[u[2]] = d.rows[u[2]]
    BY DEF TableTypes
  <2>4. ASSUME NEW n \in kept
        PROVE  \/ notes[n].spent = d.notes[n].spent /\ notes[n].by = d.notes[n].by
                  /\ (d.notes[n].spent => rows[d.notes[n].by] = d.rows[d.notes[n].by])
               \/ ~notes[n].spent /\ rows[d.notes[n].by] = Unseen
    <3>1. d.notes[n].spent => d.notes[n].by \in Txs
      BY DEF TableTypes, NoteRow
    <3> QED BY <1>3, <3>1
  <2> QED BY <1>1, <2>1, <2>2, <2>3, <2>4 DEF Rewound
<1> QED BY <1>1, <1>5, <1>6 DEF e

LEMMA RewindKeepsLocks ==
  ASSUME NEW d, NEW e, NEW s, TableTypes(d), TableTypes(e), Rewound(d, e), Locks(d, s)
  PROVE  Locks(e, s)
BY DEF Rewound, Locks, TableTypes, Accounted, Unseen

\* Hash rows at heights of the chain.
HashRows(hashes) == hashes \subseteq (1..ChainTop) \X Int

LEMMA NewestIs ==
  ASSUME NEW hashes, HashRows(hashes)
  PROVE  NewestHash(hashes) \in 0..ChainTop /\ \A b \in hashes : b[1] <= NewestHash(hashes)
<1> USE Bounds
<1> DEFINE T == {0} \cup {b[1] : b \in hashes}
<1>1. T \in SUBSET (0..ChainTop) /\ T # {}
  BY DEF HashRows
<1>2. Max(T) \in T /\ \A x \in T : x <= Max(T)
  BY <1>1, MaxOfBounded, 0 \in Int, ChainTop \in Int
<1>3. NewestHash(hashes) = Max(T)
  BY DEF NewestHash
<1> HIDE DEF T
<1>4. \A b \in hashes : b[1] \in T
  BY DEF T
<1> QED BY <1>1, <1>2, <1>3, <1>4

LEMMA AncestorIs ==
  ASSUME NEW hashes, HashRows(hashes), NEW div \in Nat
  PROVE  /\ Ancestor(hashes, div) \in 0..ChainTop /\ Ancestor(hashes, div) <= div
         /\ Ancestor(hashes, div) # 0 =>
              \E b \in hashes : b[1] = Ancestor(hashes, div) /\ OnChain(b)
<1> USE Bounds
<1> DEFINE C == {c \in hashes : c[1] <= div /\ OnChain(c)}
           T == {0} \cup {b[1] : b \in C}
<1>1. T \in SUBSET (0..ChainTop) /\ T # {} /\ \A x \in T : x <= div
  BY DEF HashRows
<1>2. Max(T) \in T
  BY <1>1, MaxOfBounded, 0 \in Int, ChainTop \in Int
<1>3. Ancestor(hashes, div) = Max(T)
  BY DEF Ancestor
<1>4. \A x \in T : x # 0 => \E b \in hashes : b[1] = x /\ OnChain(b)
  OBVIOUS
<1> HIDE DEF T
<1> QED BY <1>1, <1>2, <1>3, <1>4

LEMMA ResumeRowIs ==
  ASSUME NEW hashes, HashRows(hashes), NEW at \in Nat
  PROVE  ResumeRow(hashes, at) \in 0..at
BY NewestIs, Bounds DEF ResumeRow

\* A validated run goes on at or below where it was asked to; when it was
\* rewound, a hash of the server's chain is recorded there, or it starts over.
LEMMA ResumeIs ==
  ASSUME NEW hashes, HashRows(hashes), NEW at \in Nat
  PROVE  ResumeAt(hashes, at, TRUE) \in 0..at /\ ResumeAt(hashes, at, FALSE) \in 0..at
<1>1. ResumeRow(hashes, at) \in 0..at
  BY ResumeRowIs
<1>2. /\ Ancestor(hashes, ResumeRow(hashes, at)) \in 0..ChainTop
      /\ Ancestor(hashes, ResumeRow(hashes, at)) <= ResumeRow(hashes, at)
  BY <1>1, AncestorIs
<1>3. NewestHash(hashes) \in 0..ChainTop
  BY NewestIs
<1> QED BY <1>1, <1>2, <1>3, Bounds DEF ResumeAt, ResumeRow

LEMMA BatchHeights ==
  ASSUME EngineTypes(eng)
  PROVE  /\ BatchTxs \subseteq Txs
         /\ \A t \in BatchTxs : HeightOf(t) \in 1..ChainTop
         /\ BatchNotes \subseteq Notes
         /\ \A n \in BatchNotes : NoteHeight(n) \in 1..ChainTop
<1> USE Bounds
<1>0. DOMAIN eng.batch = 1..Len(eng.batch) /\ Len(eng.batch) \in Nat
  BY DEF EngineTypes
<1>1. \A i \in DOMAIN eng.batch : eng.batch[i].txs \subseteq Txs
  <2> SUFFICES ASSUME NEW i \in DOMAIN eng.batch PROVE eng.batch[i].txs \subseteq Txs
    OBVIOUS
  <2>1. eng.batch[i] \in Blocks
    BY <1>0, ElementOfSeq DEF EngineTypes
  <2> QED BY <2>1 DEF Blocks
<1>2. BatchTxs \subseteq Txs
  BY <1>1 DEF BatchTxs
<1>3. ASSUME NEW t \in BatchTxs PROVE HeightOf(t) \in 1..ChainTop
  <2> DEFINE i == CHOOSE i \in DOMAIN eng.batch : t \in eng.batch[i].txs
  <2>1. \E j \in DOMAIN eng.batch : t \in eng.batch[j].txs
    BY DEF BatchTxs
  <2>2. i \in DOMAIN eng.batch
    BY <2>1
  <2>3. HeightOf(t) = eng.cur - 1 + i
    BY DEF HeightOf
  <2> HIDE DEF i
  <2> QED BY <1>0, <2>2, <2>3 DEF EngineTypes
<1>4. BatchNotes \subseteq Notes
  BY <1>2, LedgerSetsAssumption DEF BatchNotes, Paying
<1>5. ASSUME NEW n \in BatchNotes PROVE NoteHeight(n) \in 1..ChainTop
  <2> DEFINE T == {HeightOf(t) : t \in {u \in Paying : n \in Creates[u]}}
  <2>1. T # {}
    BY DEF BatchNotes
  <2>2. T \in SUBSET (1..ChainTop)
    BY <1>3 DEF Paying
  <2>3. Max(T) \in T
    BY <2>1, <2>2, MaxOfBounded, 1 \in Int, ChainTop \in Int
  <2> QED BY <2>2, <2>3 DEF NoteHeight
<1> QED BY <1>2, <1>3, <1>4, <1>5

\* What the scanner and the sender may do: no lock is lost, and a new one is of
\* an accounted transaction.
Grown(d, e, s) ==
    /\ \A t \in Txs : d.rows[t] > 0 => e.rows[t] > 0
    /\ DOMAIN d.intents \subseteq DOMAIN e.intents
    /\ \A u \in e.unlinked : u \in d.unlinked \/ e.rows[u[2]] > 0
    /\ \A n \in Known(d) \cap Known(e) : d.notes[n].spent => e.notes[n].spent
    /\ \A n \in Known(e) : e.notes[n].spent =>
          \/ n \in Known(d) /\ d.notes[n].spent /\ e.notes[n].by = d.notes[n].by
          \/ \E u \in d.unlinked : e.notes[n].by = u[2]
          \/ Accounted(e, s, e.notes[n].by)

LEMMA PersistGrows ==
  ASSUME TableTypes(db), EngineTypes(eng), NEW s
  PROVE  LET e == PersistNotes(db) IN TableTypes(e) /\ Grown(db, e, s)
<1> USE Bounds
<1> DEFINE notes == [n \in Known(db) \cup BatchNotes |->
                       IF n \in BatchNotes THEN Persisted(db, n) ELSE db.notes[n]]
           rows == [t \in Txs |-> IF t \in Paying THEN HeightOf(t) ELSE db.rows[t]]
           unlinked == {u \in db.unlinked : u[1] \notin BatchNotes}
           local == IF BatchNotes = {} THEN db.local ELSE Max({NoteHeight(n) : n \in BatchNotes})
           e == PersistNotes(db)
<1>1. /\ DOMAIN e = DOMAIN db
      /\ e.notes = notes /\ e.rows = rows /\ e.unlinked = unlinked /\ e.local = local
      /\ e.hashes = db.hashes /\ e.intents = db.intents
  <2>1. e = [db EXCEPT !.notes = notes, !.rows = rows, !.unlinked = unlinked, !.local = local]
    BY DEF PersistNotes
  <2> HIDE DEF e, notes, rows, unlinked, local
  <2> QED BY <2>1 DEF TableTypes
<1> HIDE DEF e
<1>2. local \in 0..ChainTop
  <2>1. CASE BatchNotes = {}
    BY <2>1 DEF TableTypes
  <2>2. CASE BatchNotes # {}
    <3> DEFINE T == {NoteHeight(n) : n \in BatchNotes}
    <3>1. T # {} /\ T \in SUBSET (1..ChainTop)
      BY <2>2, BatchHeights
    <3>2. Max(T) \in T
      BY <3>1, MaxOfBounded, 1 \in Int, ChainTop \in Int
    <3> QED BY <2>2, <3>1, <3>2
  <2> QED BY <2>1, <2>2
<1>3. rows \in [Txs -> Unseen..ChainTop] /\ \A t \in Txs : db.rows[t] > 0 => rows[t] > 0
  BY BatchHeights DEF TableTypes, Unseen, Paying
<1>4. ASSUME NEW n \in BatchNotes
      PROVE  LET r == Persisted(db, n)
             IN /\ r \in NoteRow /\ (r.spent <=> r.by # Nobody)
                /\ n \in Known(db) /\ db.notes[n].spent => r.spent
                /\ \/ \E u \in db.unlinked : r.by = u[2]
                   \/ r.spent => n \in Known(db) /\ db.notes[n].spent /\ r.by = db.notes[n].by
  <2> DEFINE by == UnlinkedSpender(db, n)
             t == CHOOSE t \in by : TRUE
             r == Persisted(db, n)
  <2>0. NoteHeight(n) \in 1..ChainTop
    BY BatchHeights
  <2>1. CASE by # {}
    <3>1. t \in by
      BY <2>1
    <3>2. \E u \in db.unlinked : t = u[2] /\ u \in Notes \X Txs
      BY <3>1 DEF UnlinkedSpender, TableTypes
    <3>3. r = [h |-> NoteHeight(n), spent |-> TRUE, by |-> t]
      BY <2>1 DEF Persisted
    <3>4. t \in Txs /\ t # Nobody
      BY <3>2, LedgerSetsAssumption DEF Nobody
    <3> HIDE DEF by, t
    <3> QED BY <2>0, <3>2, <3>3, <3>4 DEF NoteRow
  <2>2. CASE by = {} /\ n \in Known(db)
    <3>1. r = [db.notes[n] EXCEPT !.h = NoteHeight(n)]
      BY <2>2 DEF Persisted
    <3>2. db.notes[n] \in NoteRow /\ (db.notes[n].spent <=> db.notes[n].by # Nobody)
      BY <2>2 DEF TableTypes
    <3>3. r \in NoteRow /\ r.spent = db.notes[n].spent /\ r.by = db.notes[n].by
      BY <2>0, <3>1, <3>2 DEF NoteRow
    <3> HIDE DEF r, by
    <3> QED BY <2>2, <3>2, <3>3 DEF r
  <2>3. CASE by = {} /\ n \notin Known(db)
    <3>1. r = [FreshNote(0) EXCEPT !.h = NoteHeight(n)]
      BY <2>3 DEF Persisted
    <3>2. r = FreshNote(NoteHeight(n))
      BY <3>1 DEF FreshNote
    <3>3. r \in NoteRow /\ ~r.spent /\ r.by = Nobody
      BY <2>0, <3>2 DEF FreshNote, NoteRow
    <3> HIDE DEF r, by
    <3> QED BY <2>3, <3>3 DEF r
  <2> QED BY <2>1, <2>2, <2>3
<1>5. Known(e) = Known(db) \cup BatchNotes
  BY <1>1 DEF Known
<1>6. \A n \in Known(e) : e.notes[n] = IF n \in BatchNotes THEN Persisted(db, n) ELSE db.notes[n]
  BY <1>1, <1>5
<1>7. e.unlinked \subseteq db.unlinked
  BY <1>1
<1>8. TableTypes(e)
  <2>1. \A n \in Known(e) : e.notes[n] \in NoteRow /\ (e.notes[n].spent <=> e.notes[n].by # Nobody)
    BY <1>4, <1>5, <1>6 DEF TableTypes
  <2>2. Known(e) \subseteq Notes
    BY <1>5, BatchHeights DEF TableTypes
  <2> HIDE DEF notes, rows, unlinked, local
  <2> QED BY <1>1, <1>2, <1>3, <1>7, <2>1, <2>2 DEF TableTypes
<1>9. Grown(db, e, s)
  <2>1. \A t \in Txs : db.rows[t] > 0 => e.rows[t] > 0
    BY <1>1, <1>3
  <2>2. \A n \in Known(db) \cap Known(e) : db.notes[n].spent => e.notes[n].spent
    BY <1>4, <1>6
  <2>3. \A n \in Known(e) : e.notes[n].spent =>
          \/ n \in Known(db) /\ db.notes[n].spent /\ e.notes[n].by = db.notes[n].by
          \/ \E u \in db.unlinked : e.notes[n].by = u[2]
    BY <1>4, <1>5, <1>6
  <2> QED BY <1>1, <1>7, <2>1, <2>2, <2>3 DEF Grown
<1> QED BY <1>8, <1>9 DEF e

LEMMA ApplyGrows ==
  ASSUME TableTypes(db), EngineTypes(eng), NEW s
  PROVE  LET e == Applied(db, Hits) IN TableTypes(e) /\ Grown(db, e, s)
<1> USE Bounds
<1> DEFINE by(n) == CHOOSE t \in Txs : <<n, t>> \in Hits
           hit(n) == \E t \in Txs : <<n, t>> \in Hits
           notes == [n \in Known(db) |-> IF hit(n) THEN [db.notes[n] EXCEPT !.spent = TRUE, !.by = by(n)]
                                         ELSE db.notes[n]]
           rows == [t \in Txs |-> IF \E n \in Notes : <<n, t>> \in Hits THEN HeightOf(t)
                                  ELSE db.rows[t]]
           unlinked == db.unlinked \cup UnlinkedSpends(db)
           e == Applied(db, Hits)
<1>1. /\ DOMAIN e = DOMAIN db
      /\ e.notes = notes /\ e.rows = rows /\ e.unlinked = unlinked /\ e.local = db.local
      /\ e.hashes = db.hashes /\ e.intents = db.intents
  <2>1. e = [db EXCEPT !.notes = notes, !.unlinked = unlinked, !.rows = rows]
    BY DEF Applied
  <2> HIDE DEF e, notes, rows, unlinked
  <2> QED BY <2>1 DEF TableTypes
<1> HIDE DEF e
<1>2. Hits \subseteq Notes \X BatchTxs /\ UnlinkedSpends(db) \subseteq Hits
  BY DEF Hits, CacheHits, TrackedSpends, BatchSpends, UnlinkedSpends
<1>3. ASSUME NEW n \in Notes, NEW t \in Txs, <<n, t>> \in Hits PROVE rows[t] > 0
  <2>1. t \in BatchTxs
    BY <1>2, <1>3
  <2>2. HeightOf(t) \in 1..ChainTop
    BY <2>1, BatchHeights
  <2>3. rows[t] = HeightOf(t)
    BY <1>3
  <2> HIDE DEF rows
  <2> QED BY <2>2, <2>3
<1>4. rows \in [Txs -> Unseen..ChainTop] /\ \A t \in Txs : db.rows[t] > 0 => rows[t] > 0
  <2> SUFFICES ASSUME NEW t \in Txs
               PROVE  rows[t] \in Unseen..ChainTop /\ (db.rows[t] > 0 => rows[t] > 0)
    OBVIOUS
  <2>1. CASE \E n \in Notes : <<n, t>> \in Hits
    <3>1. t \in BatchTxs
      BY <1>2, <2>1
    <3>2. HeightOf(t) \in 1..ChainTop
      BY <3>1, BatchHeights
    <3>3. rows[t] = HeightOf(t)
      BY <2>1
    <3> HIDE DEF rows
    <3> QED BY <3>2, <3>3 DEF Unseen
  <2>2. CASE ~\E n \in Notes : <<n, t>> \in Hits
    BY <2>2 DEF TableTypes
  <2> QED BY <2>1, <2>2
<1>5. Known(e) = Known(db) /\ Known(db) \subseteq Notes
  BY <1>1 DEF Known, TableTypes
<1>6. ASSUME NEW n \in Known(db)
      PROVE  /\ notes[n] \in NoteRow /\ (notes[n].spent <=> notes[n].by # Nobody)
             /\ db.notes[n].spent => notes[n].spent
             /\ \/ notes[n] = db.notes[n]
                \/ notes[n].by \in Txs /\ rows[notes[n].by] > 0
  <2>0. db.notes[n] \in NoteRow /\ (db.notes[n].spent <=> db.notes[n].by # Nobody) /\ n \in Notes
    BY DEF TableTypes
  <2>1. CASE hit(n)
    <3>1. by(n) \in Txs /\ <<n, by(n)>> \in Hits
      BY <2>1
    <3>2. rows[by(n)] > 0
      BY <1>3, <2>0, <3>1
    <3>3. by(n) # Nobody
      BY <3>1, LedgerSetsAssumption DEF Nobody
    <3>4. notes[n] = [db.notes[n] EXCEPT !.spent = TRUE, !.by = by(n)]
      BY <2>1
    <3> HIDE DEF notes, rows, by, hit
    <3>5. notes[n] \in NoteRow /\ notes[n].spent = TRUE /\ notes[n].by = by(n)
      BY <2>0, <3>1, <3>4 DEF NoteRow
    <3> QED BY <3>1, <3>2, <3>3, <3>5
  <2>2. CASE ~hit(n)
    BY <2>0, <2>2
  <2> QED BY <2>1, <2>2
<1>7. ASSUME NEW u \in UnlinkedSpends(db) PROVE u \in Notes \X Txs /\ rows[u[2]] > 0
  <2>1. u \in Hits /\ u \in Notes \X Txs
    BY <1>2, BatchHeights
  <2>2. u = <<u[1], u[2]>> /\ u[1] \in Notes /\ u[2] \in Txs
    BY <2>1
  <2>3. <<u[1], u[2]>> \in Hits
    BY <2>1, <2>2
  <2> HIDE DEF rows
  <2> QED BY <1>3, <2>1, <2>2, <2>3
<1>8. TableTypes(e)
  <2> HIDE DEF notes, rows
  <2> QED BY <1>1, <1>4, <1>5, <1>6, <1>7 DEF TableTypes
<1>9. Grown(db, e, s)
  <2> HIDE DEF notes, rows
  <2> QED BY <1>1, <1>4, <1>5, <1>6, <1>7 DEF Grown, Accounted
<1> QED BY <1>8, <1>9 DEF e

\* A wallet that only grows keeps its locks accounted for.
LEMMA GrowthKeepsLocks ==
  ASSUME NEW d, NEW e, NEW s, NEW r, TableTypes(d), TableTypes(e), Grown(d, e, r), Locks(d, s),
         \A t \in Txs : Accounted(d, s, t) => Accounted(e, r, t)
  PROVE  Locks(e, r)
<1>1. ASSUME NEW n \in Known(e), e.notes[n].spent PROVE Accounted(e, r, e.notes[n].by)
  <2>1. CASE n \in Known(d) /\ d.notes[n].spent /\ e.notes[n].by = d.notes[n].by
    <3>1. d.notes[n].by \in Txs
      BY <2>1 DEF TableTypes, NoteRow
    <3> QED BY <2>1, <3>1 DEF Locks
  <2>2. CASE \E u \in d.unlinked : e.notes[n].by = u[2]
    BY <2>2 DEF Locks, Grown, TableTypes, Accounted
  <2>3. CASE Accounted(e, r, e.notes[n].by)
    BY <2>3
  <2> QED BY <1>1, <2>1, <2>2, <2>3 DEF Grown
<1>2. \A u \in e.unlinked : e.rows[u[2]] > 0
  BY DEF Locks, Grown, TableTypes
<1> QED BY <1>1, <1>2 DEF Locks

\* A spend with a height stays, unless a rewind forgets its transaction.
KeepsConfirmed(d, e) ==
    \A n \in Known(d) \cap DOMAIN e.notes :
        d.notes[n].spent /\ d.rows[d.notes[n].by] > 0 /\ ~e.notes[n].spent
            => e.rows[d.notes[n].by] = Unseen

LEMMA RewindKeepsConfirmed ==
  ASSUME NEW d, NEW e, TableTypes(d), Rewound(d, e)
  PROVE  KeepsConfirmed(d, e)
BY DEF Rewound, KeepsConfirmed, TableTypes, Known

LEMMA GrowthKeepsConfirmed ==
  ASSUME NEW d, NEW e, NEW s, Grown(d, e, s)
  PROVE  KeepsConfirmed(d, e)
BY DEF Grown, KeepsConfirmed, Known

\* release_expired_outgoing_notes: only locks of transactions without a height.
LEMMA ReleaseKeeps ==
  ASSUME TableTypes(db), NEW s, NEW e,
         e = [db EXCEPT !.notes = ResetSpentBy(db.notes, Expired(db))]
  PROVE  TableTypes(e) /\ KeepsConfirmed(db, e) /\ (Locks(db, s) => Locks(e, s))
<1> DEFINE out == Expired(db)
           notes == ResetSpentBy(db.notes, out)
<1>1. /\ DOMAIN e = DOMAIN db
      /\ e.notes = notes /\ e.rows = db.rows /\ e.unlinked = db.unlinked /\ e.local = db.local
      /\ e.hashes = db.hashes /\ e.intents = db.intents
  <2>1. e = [db EXCEPT !.notes = notes]
    OBVIOUS
  <2> HIDE DEF notes
  <2> QED BY <2>1 DEF TableTypes
<1>2. DOMAIN notes = Known(db)
      /\ \A n \in Known(db) : notes[n] = IF db.notes[n].by \in out THEN FreshNote(db.notes[n].h)
                                        ELSE db.notes[n]
  BY DEF ResetSpentBy, Known
<1>3. Known(e) = Known(db)
  BY <1>1, <1>2 DEF Known
<1>4. ASSUME NEW n \in Known(db)
      PROVE  /\ notes[n] \in NoteRow /\ (notes[n].spent <=> notes[n].by # Nobody)
             /\ db.notes[n].by \in out => ~notes[n].spent
             /\ db.notes[n].by \notin out => notes[n] = db.notes[n]
  <2>0. db.notes[n] \in NoteRow /\ (db.notes[n].spent <=> db.notes[n].by # Nobody)
    BY DEF TableTypes
  <2>1. CASE db.notes[n].by \in out
    <3>1. notes[n] = FreshNote(db.notes[n].h)
      BY <1>2, <2>1
    <3>2. db.notes[n].h \in 1..ChainTop
      BY <2>0 DEF NoteRow
    <3> HIDE DEF notes, out
    <3>3. notes[n] \in NoteRow /\ notes[n].spent = FALSE /\ notes[n].by = Nobody
      BY <3>1, <3>2 DEF NoteRow, FreshNote
    <3> QED BY <2>1, <3>3
  <2>2. CASE db.notes[n].by \notin out
    BY <1>2, <2>0, <2>2
  <2> QED BY <2>1, <2>2
<1>5. \A t \in out : db.rows[t] <= 0
  BY DEF Expired
<1> HIDE DEF notes, out
<1>6. TableTypes(e)
  BY <1>1, <1>3, <1>4 DEF TableTypes
<1>7. KeepsConfirmed(db, e)
  <2> SUFFICES ASSUME NEW n \in Known(db), db.notes[n].spent, db.rows[db.notes[n].by] > 0,
                      ~notes[n].spent
               PROVE  FALSE
    BY <1>1, <1>2 DEF KeepsConfirmed
  <2>1. db.notes[n].by \in out
    BY <1>4
  <2>2. db.notes[n].by \in Txs
    BY DEF TableTypes, NoteRow
  <2>3. db.rows[db.notes[n].by] \in Int
    BY <2>2 DEF TableTypes, Unseen
  <2> QED BY <1>5, <2>1, <2>3
<1>8. Locks(db, s) => Locks(e, s)
  BY <1>1, <1>3, <1>4 DEF Locks, Accounted
<1> QED BY <1>6, <1>7, <1>8

LEMMA MarkGrows ==
  ASSUME TableTypes(db), NEW s, s.step = "intent", s.tx \in Txs, NEW e,
         e = [db EXCEPT !.notes = [n \in Known(db) |->
                IF n \in Spends[s.tx] THEN [@[n] EXCEPT !.spent = TRUE, !.by = s.tx] ELSE @[n]]]
  PROVE  TableTypes(e) /\ Grown(db, e, s)
<1> DEFINE notes == [n \in Known(db) |->
                       IF n \in Spends[s.tx] THEN [db.notes[n] EXCEPT !.spent = TRUE, !.by = s.tx]
                       ELSE db.notes[n]]
<1>1. /\ DOMAIN e = DOMAIN db
      /\ e.notes = notes /\ e.rows = db.rows /\ e.unlinked = db.unlinked /\ e.local = db.local
      /\ e.hashes = db.hashes /\ e.intents = db.intents
  <2>1. e = [db EXCEPT !.notes = notes]
    BY Zenon
  <2> HIDE DEF notes
  <2> QED BY <2>1 DEF TableTypes
<1>2. Known(e) = Known(db)
  BY <1>1 DEF Known
<1>3. s.tx # Nobody
  BY LedgerSetsAssumption DEF Nobody
<1>4. ASSUME NEW n \in Known(db)
      PROVE  /\ notes[n] \in NoteRow /\ (notes[n].spent <=> notes[n].by # Nobody)
             /\ db.notes[n].spent => notes[n].spent
             /\ notes[n] = db.notes[n] \/ notes[n].by = s.tx
  <2>0. db.notes[n] \in NoteRow /\ (db.notes[n].spent <=> db.notes[n].by # Nobody)
    BY DEF TableTypes
  <2>1. CASE n \in Spends[s.tx]
    <3>1. notes[n] = [db.notes[n] EXCEPT !.spent = TRUE, !.by = s.tx]
      BY <2>1
    <3> HIDE DEF notes
    <3>2. notes[n] \in NoteRow /\ notes[n].spent = TRUE /\ notes[n].by = s.tx
      BY <2>0, <3>1 DEF NoteRow
    <3> QED BY <1>3, <3>2
  <2>2. CASE n \notin Spends[s.tx]
    BY <2>0, <2>2
  <2> QED BY <2>1, <2>2
<1> HIDE DEF notes
<1>5. TableTypes(e)
  BY <1>1, <1>2, <1>4 DEF TableTypes
<1>6. Grown(db, e, s)
  BY <1>1, <1>2, <1>4 DEF Grown, Accounted
<1> QED BY <1>5, <1>6

LEMMA IntentGrows ==
  ASSUME TableTypes(db), SendTypes(send), send.step = "intent", NEW e,
         e = [db EXCEPT
                !.intents = [u \in DOMAIN @ \cup {send.tx} |->
                               IF u = send.tx THEN signed[u].noted ELSE @[u]],
                !.rows[send.tx] = IF @ = Unseen THEN Pending ELSE @]
  PROVE  /\ TableTypes(e) /\ Grown(db, e, NoTx)
         /\ \A t \in Txs : Accounted(db, send, t) => Accounted(e, NoTx, t)
<1> USE Bounds
<1> DEFINE intents == [u \in DOMAIN db.intents \cup {send.tx} |->
                         IF u = send.tx THEN signed[u].noted ELSE db.intents[u]]
           rows == [db.rows EXCEPT ![send.tx] = IF @ = Unseen THEN Pending ELSE @]
<1>0. send.tx \in Txs
  BY DEF SendTypes
<1>1. /\ DOMAIN e = DOMAIN db
      /\ e.notes = db.notes /\ e.rows = rows /\ e.unlinked = db.unlinked /\ e.local = db.local
      /\ e.hashes = db.hashes /\ e.intents = intents
  <2>1. e = [db EXCEPT !.intents = intents, !.rows = rows]
    BY DEF TableTypes
  <2> HIDE DEF intents, rows
  <2> QED BY <2>1 DEF TableTypes
<1>2. DOMAIN intents = DOMAIN db.intents \cup {send.tx}
  OBVIOUS
<1>3. /\ rows \in [Txs -> Unseen..ChainTop]
      /\ \A t \in Txs : db.rows[t] > 0 => rows[t] > 0
  BY <1>0 DEF TableTypes, Unseen, Pending
<1>4. Known(e) = Known(db)
  BY <1>1 DEF Known
<1> HIDE DEF intents, rows
<1>5. TableTypes(e)
  BY <1>1, <1>3, <1>4 DEF TableTypes
<1>6. Grown(db, e, NoTx)
  BY <1>1, <1>2, <1>3, <1>4 DEF Grown
<1>7. \A t \in Txs : Accounted(db, send, t) => Accounted(e, NoTx, t)
  BY <1>1, <1>2, <1>3 DEF Accounted
<1> QED BY <1>5, <1>6, <1>7

-----------------------------------------------------------------------------
(* The engine.                                                             *)

LEMMA RunningTypes ==
  ASSUME NEW d, TableTypes(d), NEW cur \in 1..ChainTop + 1
  PROVE  EngineTypes(Running(d, cur))
<1> USE Bounds
<1>1. Reconcilable(d) \subseteq Notes
  BY DEF TableTypes, Reconcilable
<1> DEFINE nothing == <<>>
<1>3. Len(nothing) = 0 /\ nothing \in Seq(Blocks)
  OBVIOUS
<1>4. Running(d, cur) = [pc |-> "main", cur |-> cur, batch |-> nothing, prev |-> NoBlock,
                         cache |-> Reconcilable(d), tracked |-> {}]
  BY DEF Running, EnsureNullifierCache
<1> HIDE DEF nothing
<1> QED BY <1>1, <1>3, <1>4 DEF EngineTypes

LEMMA RollbackTypes ==
  ASSUME EngineTypes(eng), NEW cur \in 1..ChainTop + 1, NEW prev
  PROVE  EngineTypes([eng EXCEPT !.pc = "main", !.cur = cur, !.prev = prev, !.batch = <<>>,
                                 !.cache = {}, !.tracked = {}])
<1> USE Bounds
<1> DEFINE nothing == <<>>
           e == [eng EXCEPT !.pc = "main", !.cur = cur, !.prev = prev, !.batch = nothing,
                            !.cache = {}, !.tracked = {}]
<1>1. Len(nothing) = 0 /\ nothing \in Seq(Blocks)
  OBVIOUS
<1>2. EngineTypes(e)
  <2> HIDE DEF nothing
  <2>1. DOMAIN e = DOMAIN eng /\ e.pc = "main" /\ e.cur = cur /\ e.batch = nothing /\ e.cache = {}
    BY DEF EngineTypes
  <2> HIDE DEF e
  <2> QED BY <1>1, <2>1 DEF EngineTypes
<1> QED BY <1>2

LEMMA StoppedTypes ==
  EngineTypes(Stopped)
<1> USE Bounds
<1> DEFINE nothing == <<>>
<1>1. Len(nothing) = 0 /\ nothing \in Seq(Blocks)
  OBVIOUS
<1>2. Stopped = [pc |-> "idle", cur |-> 1, batch |-> nothing, cache |-> {}, tracked |-> {},
                 prev |-> NoBlock]
  BY DEF Stopped
<1> HIDE DEF nothing
<1> QED BY <1>1, <1>2 DEF EngineTypes

\* The steps that rewind: to height h, the cursor to c, the run going on at cur.
RewindTo(h, c, cur) ==
    /\ db' = Truncate(db, h, c)
    /\ \/ eng.pc = "idle" /\ eng' = Running(db', cur)
       \/ eng.pc = "main" /\ \E prev \in {NoBlock, eng.prev} :
            /\ prev = NoBlock \/ h < eng.cur - 1
            /\ eng' = [eng EXCEPT !.pc = "main", !.cur = cur, !.prev = prev, !.batch = <<>>,
                                  !.cache = {}, !.tracked = {}]

LEMMA ReachIs ==
  ASSUME LedgerTypes
  PROVE  /\ HashRows(db.hashes) /\ db.local \in 0..ChainTop /\ TableTypes(db)
         /\ eng.cur \in Nat \ {0} /\ eng.cur - 1 \in 0..ChainTop /\ Reach(db, eng) \in 0..ChainTop
<1> USE Bounds
<1>0. HashRows(db.hashes) /\ db.local \in 0..ChainTop /\ TableTypes(db)
  BY DEF LedgerTypes, TableTypes, HashRows
<1>1. eng.cur \in Nat \ {0} /\ Len(eng.batch) \in Nat /\ eng.cur + Len(eng.batch) - 1 <= ChainTop
  BY DEF LedgerTypes, EngineTypes
<1>2. eng.cur - 1 \in 0..ChainTop
  BY <1>1
<1> QED BY <1>0, <1>1, <1>2 DEF Reach

LEMMA RewindIs ==
  ASSUME LedgerTypes, Rescan \/ Repair \/ BoundaryReorg \/ MonitorReorg
  PROVE  \E h \in 0..Reach(db, eng) : \E c \in 0..h : \E cur \in {h + 1, c + 1} : RewindTo(h, c, cur)
<1> USE Bounds
<1>0. /\ HashRows(db.hashes) /\ db.local \in 0..ChainTop /\ TableTypes(db)
      /\ eng.cur \in Nat \ {0} /\ eng.cur - 1 \in 0..ChainTop /\ Reach(db, eng) \in 0..ChainTop
  BY ReachIs
<1>2. CASE Rescan
  <2>0. eng.pc = "idle" /\ Reach(db, eng) = db.local
    BY <1>2 DEF Rescan, Reach
  <2>1. PICK from \in 1..db.local :
          LET h == ResumeAt({b \in db.hashes : b[1] < from}, from - 1, FALSE)
          IN \E c \in Checkpoints(h) : db' = Truncate(db, h, c) /\ GoesOn(db', h)
    BY <1>2 DEF Rescan
  <2>2. PICK below : below = {b \in db.hashes : b[1] < from}
    OBVIOUS
  <2>a. HashRows(below) /\ from - 1 \in Nat /\ from - 1 <= db.local
    BY <1>0, <2>2 DEF HashRows
  <2>b. PICK h : h = ResumeAt(below, from - 1, FALSE)
    OBVIOUS
  <2>c. h \in 0..(from - 1)
    BY <2>a, <2>b, ResumeIs
  <2>3. h \in 0..db.local
    BY <1>0, <2>a, <2>c
  <2>d. \E c \in Checkpoints(h) : db' = Truncate(db, h, c) /\ GoesOn(db', h)
    BY <2>1, <2>2, <2>b
  <2>4. PICK c \in Checkpoints(h) : db' = Truncate(db, h, c) /\ GoesOn(db', h)
    BY <2>d
  <2>5. c \in 0..h
    BY <2>4 DEF Checkpoints
  <2>6. db'.local = c
    <3>1. h \in 0..ChainTop
      BY <1>0, <2>3
    <3> QED BY <1>0, <2>4, <2>5, <3>1, TruncateRewinds
  <2> QED BY <2>0, <2>3, <2>4, <2>5, <2>6 DEF GoesOn, RewindTo
<1>m. ASSUME eng.pc = "main" PROVE Reach(db, eng) = eng.cur - 1
  BY <1>m DEF Reach
<1>3. CASE Repair
  <2>0. PICK h \in 0..eng.cur - 2 : \E c \in Checkpoints(h) : Rollback(h, c, c + 1, NoBlock)
    BY <1>3 DEF Repair
  <2>1. PICK c \in Checkpoints(h) : Rollback(h, c, c + 1, NoBlock)
    BY <2>0
  <2>2. eng.pc = "main" /\ h \in 0..(eng.cur - 1) /\ c \in 0..h
    BY <1>0, <1>3, <2>0, <2>1 DEF Checkpoints, Repair
  <2> QED BY <1>m, <2>1, <2>2 DEF Rollback, RewindTo
<1>4. CASE BoundaryReorg
  <2>0. eng.pc = "main"
    BY <1>4 DEF BoundaryReorg
  <2>1. PICK h : h = Ancestor(db.hashes, eng.cur - 1)
    OBVIOUS
  <2>2. \E c \in Checkpoints(h) : Rollback(h, c, h + 1, NoBlock)
    BY <1>4, <2>1 DEF BoundaryReorg
  <2>3. PICK c \in Checkpoints(h) : Rollback(h, c, h + 1, NoBlock)
    BY <2>2
  <2>4. h \in 0..(eng.cur - 1)
    BY <1>0, <2>1, AncestorIs
  <2>5. c \in 0..h
    BY <2>3 DEF Checkpoints
  <2> QED BY <1>m, <2>0, <2>3, <2>4, <2>5 DEF Rollback, RewindTo
<1>5. CASE MonitorReorg
  <2>0. eng.pc = "main"
    BY <1>5 DEF MonitorReorg
  <2>1. PICK h : h = ResumeAt(db.hashes, eng.cur - 1, TRUE)
    OBVIOUS
  <2>2. h < eng.cur - 1 /\ \E c \in Checkpoints(h) : Rollback(h, c, h + 1, eng.prev)
    BY <1>5, <2>1 DEF MonitorReorg
  <2>3. PICK c \in Checkpoints(h) : Rollback(h, c, h + 1, eng.prev)
    BY <2>2
  <2>4. h \in 0..(eng.cur - 1)
    <3>1. eng.cur - 1 \in Nat
      BY <1>0
    <3> QED BY <1>0, <2>1, <3>1, ResumeIs
  <2>5. c \in 0..h
    BY <2>3 DEF Checkpoints
  <2> QED BY <1>m, <2>0, <2>2, <2>3, <2>4, <2>5 DEF Rollback, RewindTo
<1> QED BY <1>2, <1>3, <1>4, <1>5

\* A run begins: the tables are rewound, or stay as they are.
LEMMA StartIs ==
  ASSUME LedgerTypes, StartRun
  PROVE  \/ \E h \in 0..Reach(db, eng) : \E c \in 0..h : \E cur \in {h + 1, c + 1} : RewindTo(h, c, cur)
         \/ db' = db /\ eng.pc = "idle" /\ eng' = Running(db, db.local + 1)
<1> USE Bounds
<1>0. /\ HashRows(db.hashes) /\ db.local \in 0..ChainTop /\ TableTypes(db) /\ db.local \in Nat
      /\ eng.pc = "idle" /\ Reach(db, eng) = db.local
  BY ReachIs DEF StartRun, Reach
<1>1. PICK h : h = ResumeAt(db.hashes, db.local, TRUE)
  OBVIOUS
<1>2. h \in 0..db.local
  BY <1>0, <1>1, ResumeIs
<1>3. /\ IF h < db.local THEN \E c \in Checkpoints(h) : db' = Truncate(db, h, c) ELSE UNCHANGED db
      /\ GoesOn(db', h)
  BY <1>1 DEF StartRun
<1>4. CASE h < db.local
  <2>1. PICK c \in 0..h : db' = Truncate(db, h, c)
    BY <1>3, <1>4 DEF Checkpoints
  <2>2. h \in 0..ChainTop
    BY <1>0, <1>2
  <2>3. db'.local = c
    BY <1>0, <2>1, <2>2, TruncateRewinds
  <2> QED BY <1>0, <1>2, <1>3, <2>1, <2>3 DEF GoesOn, RewindTo
<1>5. CASE ~(h < db.local)
  <2>1. db' = db /\ h = db.local
    BY <1>0, <1>2, <1>3, <1>5
  <2> QED BY <1>0, <1>3, <2>1 DEF GoesOn
<1> QED BY <1>4, <1>5

LEMMA FetchTypes ==
  ASSUME LedgerTypes, Fetch
  PROVE  EngineTypes(eng')
<1> USE Bounds
<1>0. eng.cur \in Nat /\ eng.cur >= 1 /\ chain \in Seq(Blocks) /\ Len(chain) \in Nat
      /\ Len(chain) <= ChainTop /\ eng.cur <= Len(chain)
  BY DEF LedgerTypes, EngineTypes, Fetch, Tip
<1>1. PICK e \in eng.cur..Min({Tip, eng.cur + MaxBatch - 1}) :
        eng' = [eng EXCEPT !.pc = "notes", !.batch = SubSeq(chain, eng.cur, e), !.prev = BlockId(e)]
  BY DEF Fetch
<1>2. e \in Int /\ eng.cur <= e /\ e <= Len(chain)
  <2>1. Tip \in Int /\ eng.cur + MaxBatch - 1 \in Int
    BY <1>0 DEF Tip
  <2>2. Min({Tip, eng.cur + MaxBatch - 1}) <= Tip /\ Min({Tip, eng.cur + MaxBatch - 1}) \in Int
    BY <2>1, MinOfTwo
  <2> QED BY <1>0, <1>1, <2>2 DEF Tip
<1> DEFINE b == SubSeq(chain, eng.cur, e)
<1>3. b \in Seq(Blocks) /\ Len(b) = e - eng.cur + 1
  BY <1>0, <1>2, SubSeqProperties
<1>4. eng' = [eng EXCEPT !.pc = "notes", !.batch = b, !.prev = BlockId(e)]
  BY <1>1
<1> HIDE DEF b
<1>5. DOMAIN eng' = DOMAIN eng /\ eng'.pc = "notes" /\ eng'.cur = eng.cur /\ eng'.batch = b
      /\ eng'.cache = eng.cache
  BY <1>4 DEF LedgerTypes, EngineTypes
<1> QED BY <1>0, <1>2, <1>3, <1>5 DEF LedgerTypes, EngineTypes

LEMMA SaveTypes ==
  ASSUME LedgerTypes, Save
  PROVE  /\ EngineTypes(eng') /\ TableTypes(db')
         /\ db'.notes = db.notes /\ db'.rows = db.rows /\ db'.unlinked = db.unlinked
         /\ db'.intents = db.intents
<1> USE Bounds
<1> DEFINE nothing == <<>>
           added == {<<eng.cur + i - 1, eng.batch[i].branch>> : i \in DOMAIN eng.batch}
           hashes == {b \in db.hashes : b[1] \notin eng.cur..End} \cup added
<1>0. /\ eng.cur \in Nat /\ eng.cur >= 1 /\ Len(eng.batch) \in Nat
      /\ DOMAIN eng.batch = 1..Len(eng.batch) /\ eng.cur + Len(eng.batch) - 1 <= ChainTop
  BY DEF LedgerTypes, EngineTypes
<1>1. Len(nothing) = 0 /\ nothing \in Seq(Blocks)
  OBVIOUS
<1>2. End \in 0..ChainTop
  BY <1>0 DEF End
<1>3. hashes \subseteq (1..ChainTop) \X Int
  <2>1. ASSUME NEW i \in DOMAIN eng.batch
        PROVE  <<eng.cur + i - 1, eng.batch[i].branch>> \in (1..ChainTop) \X Int
    <3>1. eng.batch[i] \in Blocks
      BY <1>0, ElementOfSeq DEF LedgerTypes, EngineTypes
    <3>2. eng.batch[i].branch \in Int
      BY <3>1 DEF Blocks
    <3>3. eng.cur + i - 1 \in 1..ChainTop
      BY <1>0
    <3> QED BY <3>2, <3>3
  <2>2. db.hashes \subseteq (1..ChainTop) \X Int
    BY DEF LedgerTypes, TableTypes
  <2> QED BY <2>1, <2>2
<1>4. db' = [db EXCEPT !.local = End, !.hashes = hashes]
  BY DEF Save
<1>5. eng' = [eng EXCEPT !.pc = "main", !.cur = End + 1, !.batch = nothing]
  BY DEF Save
<1> HIDE DEF nothing, added, hashes
<1>6. /\ DOMAIN db' = DOMAIN db /\ db'.local = End /\ db'.hashes = hashes
      /\ db'.notes = db.notes /\ db'.rows = db.rows /\ db'.unlinked = db.unlinked
      /\ db'.intents = db.intents
  BY <1>4 DEF LedgerTypes, TableTypes
<1>7. DOMAIN eng' = DOMAIN eng /\ eng'.pc = "main" /\ eng'.cur = End + 1 /\ eng'.batch = nothing
      /\ eng'.cache = eng.cache
  BY <1>5 DEF LedgerTypes, EngineTypes
<1>8. Known(db') = Known(db)
  BY <1>6 DEF Known
<1>9. TableTypes(db')
  BY <1>2, <1>3, <1>6, <1>8 DEF LedgerTypes, TableTypes
<1>10. EngineTypes(eng')
  BY <1>1, <1>2, <1>7 DEF LedgerTypes, EngineTypes
<1> QED BY <1>6, <1>9, <1>10

-----------------------------------------------------------------------------
(* Every step.                                                             *)

LEMMA WorldStep ==
  ASSUME LedgerInv, Mine \/ Reorg
  PROVE  LedgerInv' /\ KeepsConfirmed(db, db')
<1> USE Bounds
<1>1. UNCHANGED <<db, eng, plans, signed, send, dropped>>
  BY DEF Mine, Reorg, wallet, history
<1>2. chain' \in Seq(Blocks) /\ Len(chain') <= ChainTop /\ branch' \in Int
  <2>0. chain \in Seq(Blocks) /\ Len(chain) \in Nat /\ Len(chain) <= ChainTop /\ branch \in Int
    BY DEF LedgerInv, LedgerTypes
  <2>1. CASE Mine
    <3>1. PICK txs \in {{}} \cup {{t} : t \in Txs} :
            chain' = Append(chain, [branch |-> branch, txs |-> txs])
      BY <2>1 DEF Mine
    <3> DEFINE b == [branch |-> branch, txs |-> txs]
    <3>2. b \in Blocks
      BY <2>0 DEF Blocks
    <3>3. chain' = Append(chain, b) /\ Len(chain) < ChainTop /\ branch' = branch
      BY <2>1, <3>1 DEF Mine, Tip
    <3> HIDE DEF b
    <3> QED BY <2>0, <3>2, <3>3
  <2>2. CASE Reorg
    <3>1. PICK h \in 1..Tip : chain' = SubSeq(chain, 1, h - 1)
      BY <2>2 DEF Reorg
    <3>2. h - 1 \in 0..Len(chain) /\ h \in Int
      BY <2>0, <3>1 DEF Tip
    <3>3. /\ SubSeq(chain, 1, h - 1) \in Seq(Blocks)
          /\ Len(SubSeq(chain, 1, h - 1)) = h - 1
      BY <2>0, <3>2, SubSeqProperties
    <3>4. branch' = branch + 1
      BY <2>2 DEF Reorg
    <3> QED BY <2>0, <3>1, <3>2, <3>3, <3>4
  <2> QED BY <2>1, <2>2
<1> QED BY <1>1, <1>2
        DEF LedgerInv, LedgerTypes, TableTypes, EngineTypes, SendTypes, Locks, Accounted, Known, KeepsConfirmed

\* A step of the scanner that rewinds the tables.
LEMMA RewindStep ==
  ASSUME LedgerInv, NEW h \in 0..ChainTop, NEW c \in 0..h, db' = Truncate(db, h, c), EngineTypes(eng'),
         UNCHANGED <<world, wallet, dropped>>
  PROVE  LedgerInv' /\ KeepsConfirmed(db, db')
<1>1. TableTypes(db) /\ TableTypes(db') /\ Rewound(db, db')
  BY TruncateRewinds DEF LedgerInv, LedgerTypes
<1>2. Locks(db, send) => Locks(db', send')
  BY <1>1, RewindKeepsLocks DEF wallet
<1>3. KeepsConfirmed(db, db')
  BY <1>1, RewindKeepsConfirmed
<1> QED BY <1>1, <1>2, <1>3 DEF LedgerInv, LedgerTypes, world, wallet

\* A step that leaves the tables alone.
LEMMA EngineStep ==
  ASSUME LedgerInv, EngineTypes(eng'), UNCHANGED <<world, db>>, SendTypes(send'),
         DOMAIN signed' \subseteq Own, DOMAIN plans' \subseteq Own,
         dropped' \/ (~dropped /\ (send' = send \/ send.step # "intent"))
  PROVE  LedgerInv' /\ KeepsConfirmed(db, db')
<1>1. KeepsConfirmed(db, db')
  BY DEF KeepsConfirmed, Known
<1>2. LedgerTypes'
  BY DEF LedgerInv, LedgerTypes, world, TableTypes, Known
<1>3. ~dropped' => Locks(db', send')
  BY DEF LedgerInv, Locks, Accounted, Known
<1> QED BY <1>1, <1>2, <1>3 DEF LedgerInv

\* A step that only grows them.
LEMMA GrowStep ==
  ASSUME LedgerInv, TableTypes(db'), Grown(db, db', send'), EngineTypes(eng'), SendTypes(send'),
         \A t \in Txs : Accounted(db, send, t) => Accounted(db', send', t),
         UNCHANGED <<world, plans, signed, dropped>>
  PROVE  LedgerInv' /\ KeepsConfirmed(db, db')
<1>1. TableTypes(db)
  BY DEF LedgerInv, LedgerTypes
<1>2. KeepsConfirmed(db, db')
  BY GrowthKeepsConfirmed
<1>3. Locks(db, send) => Locks(db', send')
  BY <1>1, GrowthKeepsLocks
<1> QED BY <1>2, <1>3 DEF LedgerInv, LedgerTypes, world

LEMMA LedgerStep ==
  ASSUME LedgerInv, [Next]_vars
  PROVE  LedgerInv' /\ KeepsConfirmed(db, db')
<1> USE Bounds
<1>0. /\ LedgerTypes /\ TableTypes(db) /\ EngineTypes(eng) /\ SendTypes(send)
      /\ DOMAIN signed \subseteq Own /\ DOMAIN plans \subseteq Own
      /\ db.local \in 0..ChainTop
  BY DEF LedgerInv, LedgerTypes, TableTypes
<1>1. CASE Mine \/ Reorg
  BY <1>1, WorldStep
<1>2. ASSUME UNCHANGED <<world, wallet, dropped>>,
             \E h \in 0..Reach(db, eng) : \E c \in 0..h : \E cur \in {h + 1, c + 1} : RewindTo(h, c, cur)
      PROVE  LedgerInv' /\ KeepsConfirmed(db, db')
  <2>a. PICK h \in 0..Reach(db, eng) : \E c \in 0..h : \E cur \in {h + 1, c + 1} : RewindTo(h, c, cur)
    BY <1>2
  <2>b. PICK c \in 0..h : \E cur \in {h + 1, c + 1} : RewindTo(h, c, cur)
    BY <2>a
  <2>1. PICK cur \in {h + 1, c + 1} : RewindTo(h, c, cur)
    BY <2>b
  <2>2. h \in 0..ChainTop
    BY <1>0, <2>a, ReachIs
  <2>3. cur \in 1..ChainTop + 1 /\ TableTypes(db')
    BY <1>0, <2>1, <2>2, TruncateRewinds DEF RewindTo
  <2>4. EngineTypes(eng')
    <3>1. CASE eng' = Running(db', cur)
      BY <2>3, <3>1, RunningTypes
    <3>2. CASE eng' # Running(db', cur)
      <4>1. PICK prev \in {NoBlock, eng.prev} :
              eng' = [eng EXCEPT !.pc = "main", !.cur = cur, !.prev = prev, !.batch = <<>>,
                                 !.cache = {}, !.tracked = {}]
        BY <2>1, <3>2 DEF RewindTo
      <4> QED BY <1>0, <2>3, <4>1, RollbackTypes
    <3> QED BY <3>1, <3>2
  <2> QED BY <1>2, <2>1, <2>2, <2>4, RewindStep DEF RewindTo
<1>3. CASE StartRun
  <2>1. UNCHANGED <<world, wallet, dropped>>
    BY <1>3 DEF StartRun
  <2>2. CASE db' = db /\ eng' = Running(db, db.local + 1)
    <3>1. EngineTypes(eng')
      BY <1>0, <2>2, RunningTypes
    <3> QED BY <1>0, <2>1, <2>2, <3>1, EngineStep DEF world, wallet
  <2> QED BY <1>0, <1>2, <1>3, <2>1, <2>2, StartIs
<1>4. CASE Rescan \/ Repair \/ BoundaryReorg \/ MonitorReorg
  <2>1. UNCHANGED <<world, wallet, dropped>>
    BY <1>4 DEF Rescan, Repair, BoundaryReorg, MonitorReorg, world, wallet
  <2> QED BY <1>0, <1>2, <1>4, <2>1, RewindIs
<1>5. CASE Fetch
  <2>1. EngineTypes(eng')
    BY <1>0, <1>5, FetchTypes
  <2> QED BY <1>0, <1>5, <2>1, EngineStep DEF Fetch, wallet, history
<1>6. CASE Persist
  <2>1. TableTypes(db') /\ Grown(db, db', send)
    BY <1>0, <1>6, PersistGrows DEF Persist
  <2>2. BatchNotes \subseteq Notes
    BY <1>0, BatchHeights
  <2>3. /\ DOMAIN eng' = DOMAIN eng /\ eng'.pc = "spends" /\ eng'.cur = eng.cur
        /\ eng'.batch = eng.batch /\ eng'.cache \subseteq eng.cache \cup BatchNotes
    <3> DEFINE left == (eng.cache \ BatchNotes) \cup {n \in BatchNotes : ~db'.notes[n].spent}
               more == eng.tracked \cup Paying
    <3>1. eng' = [eng EXCEPT !.pc = "spends", !.tracked = more, !.cache = left]
      BY <1>6 DEF Persist
    <3>2. left \subseteq eng.cache \cup BatchNotes
      OBVIOUS
    <3> HIDE DEF left, more
    <3> QED BY <1>0, <3>1, <3>2 DEF EngineTypes
  <2>4. EngineTypes(eng')
    BY <1>0, <2>2, <2>3 DEF EngineTypes
  <2>5. UNCHANGED <<world, plans, signed, send, dropped>>
    BY <1>6 DEF Persist, wallet, history
  <2>6. \A t \in Txs : Accounted(db, send, t) => Accounted(db', send', t)
    BY <2>1, <2>5 DEF Accounted, Grown
  <2> QED BY <1>0, <2>1, <2>4, <2>5, <2>6, GrowStep DEF world
<1>7. CASE ApplySpends
  <2>1. TableTypes(db') /\ Grown(db, db', send)
    BY <1>0, <1>7, ApplyGrows DEF ApplySpends
  <2>2. /\ DOMAIN eng' = DOMAIN eng /\ eng'.pc = "save" /\ eng'.cur = eng.cur
        /\ eng'.batch = eng.batch /\ eng'.cache \subseteq eng.cache
    BY <1>0, <1>7 DEF ApplySpends, EngineTypes
  <2>3. EngineTypes(eng')
    BY <1>0, <2>2 DEF EngineTypes
  <2>4. UNCHANGED <<world, plans, signed, send, dropped>>
    BY <1>7 DEF ApplySpends, wallet, history
  <2>5. \A t \in Txs : Accounted(db, send, t) => Accounted(db', send', t)
    BY <2>1, <2>4 DEF Accounted, Grown
  <2> QED BY <1>0, <2>1, <2>3, <2>4, <2>5, GrowStep DEF world
<1>8. CASE ApplySpendsFails
  <2>1. UNCHANGED <<world, plans, signed, send>> /\ dropped'
    BY <1>8 DEF ApplySpendsFails, wallet
  <2>2. UnlinkedSpends(db) \subseteq Notes \X Txs
    BY <1>0, BatchHeights DEF UnlinkedSpends, TrackedSpends, BatchSpends
  <2>3. /\ DOMAIN db' = DOMAIN db /\ db'.notes = db.notes /\ db'.rows = db.rows
        /\ db'.local = db.local /\ db'.hashes = db.hashes
        /\ db'.unlinked = db.unlinked \cup UnlinkedSpends(db)
    BY <1>0, <1>8 DEF ApplySpendsFails, TableTypes
  <2>4. /\ DOMAIN eng' = DOMAIN eng /\ eng'.pc = "save" /\ eng'.cur = eng.cur
        /\ eng'.batch = eng.batch /\ eng'.cache = eng.cache
    BY <1>0, <1>8 DEF ApplySpendsFails, EngineTypes
  <2>5. EngineTypes(eng')
    BY <1>0, <2>4 DEF EngineTypes
  <2>6. Known(db') = Known(db)
    BY <2>3 DEF Known
  <2>7. TableTypes(db')
    BY <1>0, <2>2, <2>3, <2>6 DEF TableTypes
  <2>8. KeepsConfirmed(db, db')
    BY <2>3 DEF KeepsConfirmed, Known
  <2> QED BY <1>0, <2>1, <2>5, <2>7, <2>8 DEF LedgerInv, LedgerTypes, world
<1>9. CASE Save
  <2>1. /\ EngineTypes(eng') /\ TableTypes(db')
        /\ db'.notes = db.notes /\ db'.rows = db.rows /\ db'.unlinked = db.unlinked
        /\ db'.intents = db.intents
    BY <1>0, <1>9, SaveTypes
  <2>2. UNCHANGED <<world, plans, signed, send, dropped>>
    BY <1>9 DEF Save, wallet, history
  <2>3. Locks(db, send) => Locks(db', send')
    BY <2>1, <2>2 DEF Locks, Accounted, Known
  <2>4. KeepsConfirmed(db, db')
    BY <2>1 DEF KeepsConfirmed, Known
  <2> QED BY <1>0, <2>1, <2>2, <2>3, <2>4 DEF LedgerInv, LedgerTypes, world
<1>10. CASE StopRun
  <2>1. EngineTypes(eng')
    BY <1>0, <1>10, StoppedTypes DEF StopRun
  <2> QED BY <1>0, <1>10, <2>1, EngineStep DEF StopRun, wallet, world
<1>11. CASE BuildTx \/ SignTx
  <2>1. UNCHANGED <<world, db, eng, send, dropped>>
    BY <1>11 DEF BuildTx, SignTx, history
  <2>2. DOMAIN plans' \subseteq Own /\ DOMAIN signed' \subseteq Own
    BY <1>0, <1>11 DEF BuildTx, SignTx
  <2> QED BY <1>0, <2>1, <2>2, EngineStep
<1>12. CASE Broadcast
  <2>1. PICK t \in DOMAIN signed : send' = [tx |-> t, step |-> "mark"]
    BY <1>12 DEF Broadcast
  <2>2. t \in Txs
    BY <1>0, <2>1, LedgerSetsAssumption
  <2>3. send' \in [tx : Txs \cup {"none"}, step : {"none", "mark", "intent"}]
    BY <2>1, <2>2
  <2>4. SendTypes(send')
    BY <2>1, <2>2, <2>3 DEF SendTypes
  <2>5. UNCHANGED <<chain, branch, db, eng, plans, signed, dropped>>
    BY <1>12 DEF Broadcast, history
  <2>6. send.step # "intent"
    BY <1>12 DEF Broadcast, NoTx
  <2>7. LedgerTypes'
    BY <1>0, <2>4, <2>5 DEF LedgerTypes, TableTypes, Known, EngineTypes
  <2>8. Locks(db, send) => Locks(db', send')
    BY <2>5, <2>6 DEF Locks, Accounted, Known
  <2>9. KeepsConfirmed(db, db')
    BY <2>5 DEF KeepsConfirmed, Known
  <2> QED BY <2>5, <2>7, <2>8, <2>9 DEF LedgerInv
<1>13. CASE AnswerLost
  <2>1. UNCHANGED <<chain, branch, db, eng, plans, signed, send, dropped>>
    BY <1>13 DEF AnswerLost, wallet, history
  <2>2. LedgerTypes'
    BY <1>0, <2>1 DEF LedgerTypes, TableTypes, Known, EngineTypes, SendTypes
  <2>3. Locks(db, send) => Locks(db', send')
    BY <2>1 DEF Locks, Accounted, Known
  <2>4. KeepsConfirmed(db, db')
    BY <2>1 DEF KeepsConfirmed, Known
  <2> QED BY <2>1, <2>2, <2>3, <2>4 DEF LedgerInv
<1>14. CASE RecordMark
  <2>1. send.tx \in Txs /\ send.step = "mark"
    BY <1>0, <1>14 DEF RecordMark, SendTypes
  <2>2. send' = [send EXCEPT !.step = "intent"]
    BY <1>14 DEF RecordMark
  <2>3. /\ send' \in [tx : Txs \cup {"none"}, step : {"none", "mark", "intent"}]
        /\ send'.tx = send.tx /\ send'.step = "intent"
    BY <1>0, <2>2 DEF SendTypes
  <2>4. SendTypes(send')
    BY <2>1, <2>3 DEF SendTypes
  <2>5. TableTypes(db') /\ Grown(db, db', send')
    BY <1>0, <1>14, <2>1, <2>3, MarkGrows DEF RecordMark
  <2>6. UNCHANGED <<world, eng, plans, signed, dropped>>
    BY <1>14 DEF RecordMark, history
  <2>7. \A t \in Txs : Accounted(db, send, t) => Accounted(db', send', t)
    BY <2>1, <2>5 DEF Accounted, Grown
  <2> QED BY <1>0, <2>4, <2>5, <2>6, <2>7, GrowStep DEF world
<1>15. CASE RecordIntent
  <2>1. send.step = "intent" /\ send' = NoTx
    BY <1>15 DEF RecordIntent
  <2>2. SendTypes(send')
    BY <2>1 DEF SendTypes, NoTx
  <2>3. /\ TableTypes(db') /\ Grown(db, db', NoTx)
        /\ \A t \in Txs : Accounted(db, send, t) => Accounted(db', NoTx, t)
    BY <1>0, <1>15, <2>1, IntentGrows DEF RecordIntent
  <2>4. UNCHANGED <<world, eng, plans, signed, dropped>>
    BY <1>15 DEF RecordIntent, history
  <2> QED BY <1>0, <2>1, <2>2, <2>3, <2>4, GrowStep DEF world
<1>16. CASE RecordFails
  <2>1. UNCHANGED <<world, db, eng, plans, signed>> /\ dropped'
    BY <1>16 DEF RecordFails
  <2>2. SendTypes(send')
    <3>1. CASE send.step = "mark"
      <4>1. send' = [send EXCEPT !.step = "intent"] /\ send.tx \in Txs
        BY <1>0, <1>16, <3>1 DEF RecordFails, SendTypes
      <4>2. /\ send' \in [tx : Txs \cup {"none"}, step : {"none", "mark", "intent"}]
            /\ send'.tx = send.tx
        BY <1>0, <4>1 DEF SendTypes
      <4> QED BY <4>1, <4>2 DEF SendTypes
    <3>2. CASE send.step # "mark"
      BY <1>16, <3>2 DEF RecordFails, SendTypes, NoTx
    <3> QED BY <3>1, <3>2
  <2> QED BY <1>0, <2>1, <2>2, EngineStep
<1>17. CASE ReleaseExpired
  <2>1. UNCHANGED <<world, eng, plans, signed, send, dropped>>
    BY <1>17 DEF ReleaseExpired, wallet
  <2>2. db' = [db EXCEPT !.notes = ResetSpentBy(db.notes, Expired(db))]
    BY <1>17 DEF ReleaseExpired
  <2>3. TableTypes(db') /\ KeepsConfirmed(db, db') /\ (Locks(db, send) => Locks(db', send))
    BY <1>0, <2>2, ReleaseKeeps
  <2> QED BY <1>0, <2>1, <2>3 DEF LedgerInv, LedgerTypes, world
<1>18. CASE Crash
  <2>1. UNCHANGED <<world, db>> /\ eng' = Stopped /\ send' = NoTx
        /\ dropped' = (dropped \/ send.step = "intent")
    BY <1>18 DEF Crash
  <2>2. DOMAIN plans' \subseteq Own /\ DOMAIN signed' \subseteq Own
    BY <1>18 DEF Crash
  <2>3. EngineTypes(eng')
    BY <1>0, <2>1, StoppedTypes
  <2>4. SendTypes(send')
    BY <2>1 DEF SendTypes, NoTx
  <2> QED BY <2>1, <2>2, <2>3, <2>4, EngineStep
<1>19. CASE UNCHANGED vars
  <2>1. UNCHANGED <<chain, branch, pool, db, eng, plans, signed, send, dropped>>
    BY <1>19 DEF vars
  <2> QED BY <1>0, <2>1, EngineStep DEF world
<1> QED
  BY <1>1, <1>3, <1>4, <1>5, <1>6, <1>7, <1>8, <1>9, <1>10, <1>11, <1>12, <1>13, <1>14,
     <1>15, <1>16, <1>17, <1>18, <1>19 DEF Next, Scanner, Sender

-----------------------------------------------------------------------------
LEMMA LedgerStart == Init => LedgerInv
<1> USE Bounds
<1> SUFFICES ASSUME Init PROVE LedgerInv
  OBVIOUS
<1> DEFINE nothing == <<>>
           nobody == [n \in {} |-> 0]
           none == [t \in {} |-> 0]
           unseen == [t \in Txs |-> Unseen]
<1>1. nothing \in Seq(Blocks) /\ Len(nothing) = 0 /\ chain = nothing /\ branch = 1
  BY DEF Init
<1>2. db = [notes |-> nobody, rows |-> unseen, unlinked |-> {}, intents |-> none, local |-> 0,
            hashes |-> {}]
  BY DEF Init
<1>3. eng = [pc |-> "idle", cur |-> 1, batch |-> nothing, cache |-> {}, tracked |-> {},
             prev |-> NoBlock]
  BY DEF Init, Stopped
<1>4. DOMAIN nobody = {} /\ unseen \in [Txs -> Unseen..ChainTop]
  BY DEF Unseen
<1>5. DOMAIN plans = {} /\ DOMAIN signed = {} /\ send = NoTx
  BY DEF Init
<1> HIDE DEF nothing, nobody, none, unseen
<1>6. TableTypes(db) /\ Known(db) = {} /\ db.unlinked = {}
  BY <1>2, <1>4 DEF TableTypes, Known
<1>7. EngineTypes(eng)
  BY <1>1, <1>3 DEF EngineTypes
<1>8. SendTypes(send)
  BY <1>5 DEF SendTypes, NoTx
<1> QED BY <1>1, <1>5, <1>6, <1>7, <1>8 DEF LedgerInv, LedgerTypes, Locks

LEMMA LedgerAlways == Spec => []LedgerInv
<1>1. LedgerInv /\ [Next]_vars => LedgerInv'
  BY LedgerStep
<1> QED BY LedgerStart, <1>1, PTL DEF Spec

\* The tables keep their shape: heights are blocks of the chain, and a note is
\* spent exactly when it names its spender (repository.rs, sync.rs).
THEOREM LedgerTyped == Spec => []TypeOK
<1>1. LedgerInv => TypeOK
  BY DEF LedgerInv, LedgerTypes, TableTypes, EngineTypes, SendTypes, NoteRow, TypeOK
<1> QED BY LedgerAlways, <1>1, PTL

\* For any wallet, chain and order of scans, rewinds, broadcasts, failures and
\* restarts: a locked note belongs to a transaction with a height or with an
\* intent, so a later scan or its expiry decides about it.
THEOREM LocksAccounted == Spec => []NoOrphanLock
<1>1. LedgerInv => NoOrphanLock
  <2> SUFFICES ASSUME LedgerInv, ~dropped, NEW n \in Known(db), db.notes[n].spent
               PROVE  LET t == db.notes[n].by
                      IN db.rows[t] > 0 \/ t \in DOMAIN db.intents \/ send = [tx |-> t, step |-> "intent"]
    BY DEF NoOrphanLock
  <2>1. Accounted(db, send, db.notes[n].by)
    BY DEF LedgerInv, Locks
  <2>2. send.step = "intent" => send = [tx |-> send.tx, step |-> "intent"]
    BY DEF LedgerInv, LedgerTypes, SendTypes
  <2> QED BY <2>1, <2>2 DEF Accounted
<1> QED BY LedgerAlways, <1>1, PTL

\* No step but the rewind of its transaction takes back a spend with a height:
\* release_expired_outgoing_notes, re-inserted notes and a failed batch do not.
THEOREM ConfirmedKept == Spec => ConfirmedSpendKept
<1>1. LedgerInv /\ [Next]_vars =>
        [\A n \in Known(db) \cap DOMAIN db'.notes :
            db.notes[n].spent /\ db.rows[db.notes[n].by] > 0 /\ ~db'.notes[n].spent
                => db'.rows[db.notes[n].by] = Unseen]_vars
  BY LedgerStep DEF KeepsConfirmed
<1> QED BY LedgerAlways, <1>1, PTL DEF Spec, ConfirmedSpendKept

-----------------------------------------------------------------------------
(***************************************************************************)
(* No spend slips past the scanner.                                        *)
(*                                                                         *)
(* SpendsSeen is about the moment the cursor stands on a recorded block of *)
(* the server's chain, after any number of reorganisations.  The argument: *)
(* a block id names its whole history, so a recorded hash that is still    *)
(* the server's vouches for everything scanned at or below it (Below), no  *)
(* matter what happened above.  What no hash vouches for must still be on  *)
(* the chain (Loose): the blocks between the last saved hash and the       *)
(* cursor that persist_notes moved, and the rows a rewind kept above the   *)
(* checkpoint it put the cursor on (the history variables orphan and stale *)
(* are the excuses when it is not).  A batch brings nothing that is on     *)
(* record below it (Fresh), and the cache holds whatever the batch may     *)
(* spend (Cached).                                                         *)
(***************************************************************************)

\* A transaction in a block of the chain.
MinedIn(t, h) == h \in 1..Tip /\ t \in chain[h].txs

\* The chain itself: branches grow upwards, a transaction is mined once, a note
\* is spent once and created below.
ChainOK(c, top) ==
    /\ \A h \in 1..Len(c) : c[h].branch <= top
    /\ \A h, k \in 1..Len(c) : \A t \in c[h].txs : t \in c[k].txs => h = k
    /\ \A h, k \in 1..Len(c) : \A t \in c[h].txs : \A u \in c[k].txs :
         t # u => Spends[t] \cap Spends[u] = {}
    /\ \A h \in 1..Len(c) : \A t \in c[h].txs : \A n \in Spends[t] :
         \E k \in 1..(h - 1) : \E v \in c[k].txs : n \in Creates[v]

BatchPcs == {"notes", "spends", "save"}
Writing == eng.pc \in {"spends", "save"}
Base == Reach(db, eng)
Upper == IF Writing THEN End ELSE Base

\* The block at a height is of a branch, and this for the blocks of the batch.
OnAt(h, c) == h <= Len(chain) /\ chain[h].branch = c
Still(i) == OnAt(eng.cur + i - 1, eng.batch[i].branch)

\* Recorded hashes, batch and last block are of branches that were the server's.
Ids ==
    /\ \A b \in db.hashes : b[2] <= branch /\ (b[2] = branch => OnChain(b))
    /\ \A b, c \in db.hashes : b[1] = c[1] => b = c
    /\ eng.pc \in BatchPcs => \A i \in DOMAIN eng.batch :
         eng.batch[i].branch <= branch /\ (eng.batch[i].branch = branch => Still(i))

Sound(k) == \A b \in HashAt(db, k) : OnChain(b)

\* Where the run is.
Place ==
    /\ eng.pc \in {"main", "notes"} => db.local <= eng.cur - 1
    /\ eng.pc = "main" /\ eng.prev # NoBlock =>
         /\ eng.prev \in Int \X Int /\ eng.cur - 1 <= eng.prev[1]
         /\ eng.prev[1] = eng.cur - 1 => eng.prev \in db.hashes
    /\ eng.pc \in BatchPcs => eng.batch # <<>> /\ eng.prev = <<End, eng.batch[Len(eng.batch)].branch>>
    /\ Writing => /\ db.local <= End
                  /\ eng.pc = "spends" /\ BatchNotes = {} => db.local <= eng.cur - 1

\* A batch is a part of a chain; while its last block is the server's, it
\* follows the recorded chain.
OfChain ==
    eng.pc \in BatchPcs =>
      /\ \A i, j \in DOMAIN eng.batch : \A t \in eng.batch[i].txs : t \in eng.batch[j].txs => i = j
      /\ \A t, u \in BatchTxs : t # u => Spends[t] \cap Spends[u] = {}
      /\ \A i \in DOMAIN eng.batch : Still(i) =>
           Sound(eng.cur - 1) /\ \A j \in 1..i : chain[eng.cur + j - 1] = eng.batch[j]

\* The spender on record is a spender.
Marks ==
    /\ \A n \in Known(db) : db.notes[n].spent => n \in Spends[db.notes[n].by]
    /\ \A u \in db.unlinked : u[1] \in Spends[u[2]]

LedgerFrame == ChainOK(chain, branch) /\ Ids /\ Place /\ OfChain /\ Marks

\* Marked by t, or by a transaction without a height, which no rewind resets.
Settled(n, t) == db.notes[n].spent /\ (db.notes[n].by = t \/ db.rows[db.notes[n].by] <= 0)
SeenIn(t) == \A n \in (Spends[t] \cap Known(db)) \ freed : Settled(n, t)

\* Below a height whose hash is the server's everything on record is true.
Vouched(k) ==
    /\ \A h \in 1..k : \A t \in Txs : MinedIn(t, h) => SeenIn(t)
    /\ \A u \in Txs : db.rows[u] > 0 =>
         /\ db.rows[u] <= k => MinedIn(u, db.rows[u])
         /\ \A h \in 1..k : MinedIn(u, h) => db.rows[u] = h
         /\ \A h \in 1..k : \A t \in Txs : MinedIn(t, h) /\ t # u => Spends[t] \cap Spends[u] = {}
Below == \A k \in 0..Base : Sound(k) => Vouched(k)

\* What no hash vouches for is still on the chain.
Loose ==
    /\ \A k \in 1..Base : HashAt(db, k) = {} => k <= Tip
    /\ \A u \in Txs : db.rows[u] > Upper => MinedIn(u, db.rows[u])

\* A batch spends and creates nothing that is on record below it.
Fresh ==
    eng.pc \in BatchPcs =>
      /\ \A k \in 0..(eng.cur - 1) : Sound(k) =>
           \A h \in 1..k : \A u \in BatchTxs : \A t \in Txs : MinedIn(t, h) =>
             t # u /\ Spends[t] \cap (Spends[u] \cup Creates[u]) = {}
      /\ \A u \in Txs : db.rows[u] > 0 =>
           /\ \A t \in BatchTxs : t # u => Spends[t] \cap Spends[u] = {}
           /\ \A i \in DOMAIN eng.batch : u \in eng.batch[i].txs => db.rows[u] = eng.cur + i - 1
           /\ db.rows[u] \in eng.cur..End => u \in eng.batch[db.rows[u] + 1 - eng.cur].txs
      /\ eng.pc = "save" => \A t \in BatchTxs : SeenIn(t)

\* The cache holds every note that may still be spent.
Cached == eng.pc # "idle" => \A n \in Known(db) : db.notes[n].spent \/ n \in eng.cache \cup freed

Excused == blind \/ dropped \/ early \/ orphan \/ stale
LedgerSeen == ~Excused => Below /\ Loose /\ Fresh /\ Cached

-----------------------------------------------------------------------------
(* The chain.                                                              *)

\* What a block id says, before and after a step.
LEMMA OnChainIs ==
  ASSUME NEW b \in Int \X Int
  PROVE  (OnChain(b) <=> OnAt(b[1], b[2])) /\ (OnChain(b)' <=> OnAt(b[1], b[2])')
<1>1. b = <<b[1], b[2]>>
  OBVIOUS
<1> QED BY <1>1 DEF OnChain, OnAt, BlockId, Tip

LEMMA BatchBlock ==
  ASSUME EngineTypes(eng), NEW i \in DOMAIN eng.batch
  PROVE  /\ i \in 1..Len(eng.batch) /\ eng.batch[i] \in Blocks /\ eng.batch[i].branch \in Int
         /\ eng.cur + i - 1 \in eng.cur..End /\ eng.cur \in Nat \ {0} /\ End \in Int /\ End <= ChainTop
<1>0. DOMAIN eng.batch = 1..Len(eng.batch) /\ Len(eng.batch) \in Nat /\ eng.cur \in Nat \ {0}
  BY DEF EngineTypes
<1>1. eng.batch[i] \in Blocks /\ i \in Int
  BY <1>0, ElementOfSeq DEF EngineTypes
<1>2. eng.batch[i].branch \in Int
  BY <1>1 DEF Blocks
<1>3. eng.cur + Len(eng.batch) - 1 <= ChainTop
  BY DEF EngineTypes
<1> QED BY Bounds, <1>0, <1>1, <1>2, <1>3 DEF End

\* The server's steps change the chain only above what it keeps.
KeepsTo(k) == k <= Len(chain) /\ k <= Len(chain') /\ \A h \in 1..k : chain'[h] = chain[h]

LEMMA MineIs ==
  ASSUME LedgerTypes, Mine
  PROVE  \E blk \in Blocks :
           /\ blk.branch = branch /\ branch' = branch
           /\ chain' = Append(chain, blk) /\ Len(chain') = Len(chain) + 1
           /\ \A h \in 1..Len(chain) : chain'[h] = chain[h]
           /\ chain'[Len(chain) + 1] = blk
           /\ \A t, u \in blk.txs : t = u
           /\ \A t \in blk.txs : t \in Txs /\ ~Mined(t) /\ \A n \in Spends[t] : Spendable(n)
<1>0. chain \in Seq(Blocks) /\ Len(chain) \in Nat /\ branch \in Int
  BY DEF LedgerTypes
<1>1. PICK txs \in {{}} \cup {{t} : t \in Txs} :
        /\ \A t \in txs : ~Mined(t) /\ \A n \in Spends[t] : Spendable(n)
        /\ chain' = Append(chain, [branch |-> branch, txs |-> txs])
  BY DEF Mine
<1> DEFINE blk == [branch |-> branch, txs |-> txs]
<1>2. blk \in Blocks /\ blk.branch = branch /\ blk.txs = txs
  BY <1>0, <1>1 DEF Blocks
<1>3. chain' = Append(chain, blk)
  BY <1>1
<1>4. branch' = branch
  BY DEF Mine
<1>5. \A t, u \in txs : t = u
  OBVIOUS
<1>6. txs \subseteq Txs
  OBVIOUS
<1> HIDE DEF blk
<1>7. /\ Len(chain') = Len(chain) + 1 /\ \A h \in 1..Len(chain) : chain'[h] = chain[h]
      /\ chain'[Len(chain) + 1] = blk
  BY <1>0, <1>2, <1>3
<1> QED BY <1>1, <1>2, <1>3, <1>4, <1>5, <1>6, <1>7

LEMMA ReorgIs ==
  ASSUME LedgerTypes, Reorg
  PROVE  \E h \in 1..Len(chain) :
           /\ branch' = branch + 1 /\ Len(chain') = h - 1
           /\ \A k \in 1..(h - 1) : chain'[k] = chain[k]
           /\ orphan' = (orphan \/ Unanchored(h)) /\ stale' = (stale \/ Exposed(h))
<1>0. chain \in Seq(Blocks) /\ Len(chain) \in Nat /\ branch \in Int
  BY DEF LedgerTypes
<1>1. PICK h \in 1..Len(chain) :
        /\ chain' = SubSeq(chain, 1, h - 1)
        /\ orphan' = (orphan \/ Unanchored(h)) /\ stale' = (stale \/ Exposed(h))
  BY DEF Reorg, Tip
<1>2. \A i \in 1..(h - 1) : chain[i] \in Blocks
  BY <1>0, ElementOfSeq
<1>3. /\ Len(SubSeq(chain, 1, h - 1)) = h - 1
      /\ \A i \in 1..(h - 1) : SubSeq(chain, 1, h - 1)[i] = chain[i]
  BY <1>0, <1>2, SubSeqProperties
<1>4. branch' = branch + 1
  BY DEF Reorg
<1> QED BY <1>1, <1>3, <1>4

\* Mined, by its heights.
LEMMA MinedIs ==
  ASSUME LedgerTypes, NEW t \in Txs
  PROVE  /\ Mined(t) <=> \E h \in 1..Len(chain) : t \in chain[h].txs
         /\ Mined(t) => MinedAt(t) \in 1..Len(chain) /\ t \in chain[MinedAt(t)].txs
<1> DEFINE hs == {h \in 1..Len(chain) : t \in chain[h].txs}
<1>0. Len(chain) \in Nat
  BY DEF LedgerTypes
<1>1. MinedAt(t) = IF hs = {} THEN 0 ELSE Max(hs)
  BY DEF MinedAt, Tip
<1>2. hs # {} => Max(hs) \in hs
  <2>1. hs \in SUBSET (1..Len(chain))
    OBVIOUS
  <2> HIDE DEF hs
  <2> QED BY <1>0, <2>1, MaxOfBounded, 1 \in Int, Len(chain) \in Int
<1> QED BY <1>0, <1>1, <1>2 DEF Mined

LEMMA MineKeepsChain ==
  ASSUME LedgerTypes, ChainOK(chain, branch), Mine
  PROVE  ChainOK(chain', branch')
<1>0. Len(chain) \in Nat /\ branch \in Int
  BY DEF LedgerTypes
<1>1. PICK blk \in Blocks :
           /\ blk.branch = branch /\ branch' = branch
           /\ Len(chain') = Len(chain) + 1
           /\ \A h \in 1..Len(chain) : chain'[h] = chain[h]
           /\ chain'[Len(chain) + 1] = blk
           /\ \A t, u \in blk.txs : t = u
           /\ \A t \in blk.txs : t \in Txs /\ ~Mined(t) /\ \A n \in Spends[t] : Spendable(n)
  BY MineIs
<1>2. \A t \in blk.txs : \A h \in 1..Len(chain) : t \notin chain[h].txs
  BY <1>1, MinedIs
<1>3. \A h \in 1..Len(chain) : chain[h].txs \subseteq Txs
  <2>1. \A h \in 1..Len(chain) : chain[h] \in Blocks
    BY ElementOfSeq DEF LedgerTypes
  <2> QED BY <2>1 DEF Blocks
<1>4. \A t \in blk.txs : \A h \in 1..Len(chain) : \A u \in chain[h].txs : Spends[t] \cap Spends[u] = {}
  <2> SUFFICES ASSUME NEW t \in blk.txs, NEW h \in 1..Len(chain), NEW u \in chain[h].txs,
                      NEW n \in Spends[t], n \in Spends[u]
               PROVE  FALSE
    OBVIOUS
  <2>1. u \in Txs /\ ~Mined(u)
    BY <1>1, <1>3 DEF Spendable
  <2> QED BY <2>1, MinedIs
<1>5. \A t \in blk.txs : \A n \in Spends[t] : \E k \in 1..Len(chain) : \E v \in chain[k].txs : n \in Creates[v]
  <2> SUFFICES ASSUME NEW t \in blk.txs, NEW n \in Spends[t]
               PROVE  \E k \in 1..Len(chain) : \E v \in chain[k].txs : n \in Creates[v]
    OBVIOUS
  <2>1. PICK v \in Txs : n \in Creates[v] /\ Mined(v)
    BY <1>1 DEF Spendable
  <2> QED BY <2>1, MinedIs
<1>6. \A h \in 1..Len(chain') : h \in 1..Len(chain) \/ (h = Len(chain) + 1 /\ chain'[h] = blk)
  BY <1>0, <1>1
<1>7. \A h \in 1..Len(chain') : chain'[h].branch <= branch'
  BY <1>0, <1>1, <1>6 DEF ChainOK
<1>8. \A h, k \in 1..Len(chain') : \A t \in chain'[h].txs : t \in chain'[k].txs => h = k
  BY <1>0, <1>1, <1>2, <1>6 DEF ChainOK
<1>9. \A h, k \in 1..Len(chain') : \A t \in chain'[h].txs : \A u \in chain'[k].txs :
         t # u => Spends[t] \cap Spends[u] = {}
  BY <1>1, <1>4, <1>6 DEF ChainOK
<1>10. ASSUME NEW h \in 1..Len(chain'), NEW t \in chain'[h].txs, NEW n \in Spends[t]
       PROVE  \E k \in 1..(h - 1) : \E v \in chain'[k].txs : n \in Creates[v]
  <2>1. CASE h \in 1..Len(chain)
    <3>1. PICK k \in 1..(h - 1) : \E v \in chain[k].txs : n \in Creates[v]
      BY <1>1, <2>1 DEF ChainOK
    <3>2. k \in 1..Len(chain)
      BY <1>0, <2>1, <3>1
    <3> QED BY <1>1, <3>1, <3>2
  <2>2. CASE h = Len(chain) + 1
    <3>1. chain'[h].txs = blk.txs /\ h - 1 = Len(chain)
      BY <1>0, <1>1, <2>2
    <3>2. PICK k \in 1..Len(chain) : \E v \in chain[k].txs : n \in Creates[v]
      BY <1>5, <3>1
    <3> QED BY <1>1, <3>1, <3>2
  <2> QED BY <1>6, <2>1, <2>2
<1> QED BY <1>7, <1>8, <1>9, <1>10 DEF ChainOK

LEMMA ReorgKeepsChain ==
  ASSUME LedgerTypes, ChainOK(chain, branch), Reorg
  PROVE  ChainOK(chain', branch')
<1>0. Len(chain) \in Nat /\ branch \in Int
  BY DEF LedgerTypes
<1>1. PICK top \in 1..Len(chain) :
           /\ branch' = branch + 1 /\ Len(chain') = top - 1
           /\ \A k \in 1..(top - 1) : chain'[k] = chain[k]
  BY ReorgIs
<1>2. \A h \in 1..Len(chain') : h \in 1..Len(chain) /\ chain'[h] = chain[h] /\ chain[h].branch \in Int
  <2>1. \A h \in 1..Len(chain) : chain[h] \in Blocks
    BY ElementOfSeq DEF LedgerTypes
  <2> QED BY <1>0, <1>1, <2>1 DEF Blocks
<1>3. \A h \in 1..Len(chain') : chain'[h].branch <= branch'
  BY <1>0, <1>1, <1>2 DEF ChainOK
<1>4. \A h, k \in 1..Len(chain') : \A t \in chain'[h].txs : t \in chain'[k].txs => h = k
  BY <1>2 DEF ChainOK
<1>5. \A h, k \in 1..Len(chain') : \A t \in chain'[h].txs : \A u \in chain'[k].txs :
         t # u => Spends[t] \cap Spends[u] = {}
  BY <1>2 DEF ChainOK
<1>6. ASSUME NEW h \in 1..Len(chain'), NEW t \in chain'[h].txs, NEW n \in Spends[t]
       PROVE  \E k \in 1..(h - 1) : \E v \in chain'[k].txs : n \in Creates[v]
  <2>1. PICK k \in 1..(h - 1) : \E v \in chain[k].txs : n \in Creates[v]
    BY <1>2 DEF ChainOK
  <2>2. k \in 1..Len(chain')
    BY <1>0, <1>1, <2>1
  <2> QED BY <1>2, <2>1, <2>2
<1> QED BY <1>3, <1>4, <1>5, <1>6 DEF ChainOK

LEMMA Heights ==
  ASSUME LedgerTypes
  PROVE  /\ Base \in Int /\ Base >= 0 /\ Base <= ChainTop /\ Upper \in Int /\ Upper >= 0 /\ End \in Int /\ End <= ChainTop
         /\ db.local \in 0..ChainTop /\ eng.cur \in Nat \ {0} /\ Len(eng.batch) \in Nat
         /\ End = eng.cur + Len(eng.batch) - 1
         /\ DOMAIN eng.batch = 1..Len(eng.batch)
         /\ Len(chain) \in Nat /\ branch \in Int
         /\ \A u \in Txs : db.rows[u] \in Int /\ db.rows[u] <= ChainTop
         /\ \A b \in db.hashes : b \in Int \X Int /\ b[1] >= 1
         /\ ChainTop \in Nat
<1>1. /\ db.local \in 0..ChainTop /\ eng.cur \in Nat \ {0} /\ Len(eng.batch) \in Nat
      /\ eng.cur + Len(eng.batch) - 1 <= ChainTop /\ DOMAIN eng.batch = 1..Len(eng.batch)
      /\ Len(chain) \in Nat /\ branch \in Int
  BY DEF LedgerTypes, TableTypes, EngineTypes
<1>2. \A u \in Txs : db.rows[u] \in Int /\ db.rows[u] <= ChainTop
  BY Bounds DEF LedgerTypes, TableTypes, Unseen
<1>3. \A b \in db.hashes : b \in Int \X Int /\ b[1] >= 1
  BY Bounds DEF LedgerTypes, TableTypes
<1> QED BY <1>1, <1>2, <1>3, Bounds DEF Base, Reach, Upper, End

\* A block id of a branch the server has had is never on the chain again.
LEMMA IdsStay ==
  ASSUME LedgerTypes, Mine \/ Reorg, NEW h \in Int, NEW c \in Int, h >= 1,
         c <= branch, c = branch => OnAt(h, c)
  PROVE  /\ c <= branch' /\ (c = branch' => OnAt(h, c)')
         /\ OnAt(h, c)' => OnAt(h, c) /\ KeepsTo(h)
<1>d. Len(chain) \in Nat
  BY Heights
<1>1. CASE Mine
  <2>1. PICK blk \in Blocks :
           /\ blk.branch = branch /\ branch' = branch
           /\ Len(chain') = Len(chain) + 1
           /\ \A i \in 1..Len(chain) : chain'[i] = chain[i]
           /\ chain'[Len(chain) + 1] = blk
    BY <1>1, MineIs
  <2>2. h <= Len(chain) => (OnAt(h, c)' <=> OnAt(h, c)) /\ KeepsTo(h)
    <3>1. h <= Len(chain) => KeepsTo(h)
      BY <1>d, <2>1 DEF KeepsTo
    <3>2. h <= Len(chain) => chain'[h] = chain[h]
      BY <1>d, <2>1
    <3> QED BY <1>d, <2>1, <3>1, <3>2 DEF OnAt
  <2>3. h > Len(chain) => ~OnAt(h, c) /\ ~OnAt(h, c)'
    BY Heights, <2>1 DEF OnAt
  <2> QED BY Heights, <2>1, <2>2, <2>3
<1>2. CASE Reorg
  <2>1. PICK top \in 1..Len(chain) :
           /\ branch' = branch + 1 /\ Len(chain') = top - 1
           /\ \A k \in 1..(top - 1) : chain'[k] = chain[k]
    BY <1>2, ReorgIs
  <2>2. OnAt(h, c)' => OnAt(h, c) /\ KeepsTo(h)
    <3>1. h <= Len(chain') => KeepsTo(h)
      BY <1>d, <2>1 DEF KeepsTo
    <3>2. h <= Len(chain') => chain'[h] = chain[h] /\ h <= Len(chain)
      BY <1>d, <2>1
    <3> QED BY <3>1, <3>2 DEF OnAt
  <2> QED BY Heights, <2>1, <2>2
<1> QED BY <1>1, <1>2

LEMMA KeptMined ==
  ASSUME NEW k \in Int, KeepsTo(k), Len(chain) \in Nat, Len(chain') \in Nat, NEW t, NEW h \in 1..k
  PROVE  MinedIn(t, h)' <=> MinedIn(t, h)
BY DEF KeepsTo, MinedIn, Tip

LEMMA WorldSame ==
  ASSUME Mine \/ Reorg
  PROVE  /\ UNCHANGED <<db, eng, wallet, counters, blind, dropped, early, freed>>
         /\ (orphan => orphan') /\ (stale => stale')
<1>1. CASE Mine
  BY <1>1 DEF Mine, wallet, counters, history
<1>2. CASE Reorg
  <2>1. PICK h \in 1..Tip : orphan' = (orphan \/ Unanchored(h)) /\ stale' = (stale \/ Exposed(h))
    BY <1>2 DEF Reorg
  <2> QED BY <1>2, <2>1 DEF Reorg, wallet, counters
<1> QED BY <1>1, <1>2

LEMMA WorldAnchors ==
  ASSUME LedgerTypes, Ids, Place, Loose, Mine \/ Reorg, ~orphan', NEW k \in 0..Base, Sound(k)'
  PROVE  Sound(k) /\ KeepsTo(k)
<1> USE Heights, WorldSame
<1>1. \A b \in HashAt(db, k) : OnChain(b)'
  BY DEF Sound, HashAt
<1>2. ASSUME NEW b \in HashAt(db, k) PROVE OnChain(b) /\ KeepsTo(k)
  <2>1. /\ b \in Int \X Int /\ b[1] = k /\ k >= 1 /\ b[2] \in Int /\ b[2] <= branch
        /\ b[2] = branch => OnChain(b)
    BY DEF HashAt, Ids
  <2>2. OnAt(k, b[2])' /\ (b[2] = branch => OnAt(k, b[2]))
    BY <1>1, <2>1, OnChainIs
  <2>3. OnAt(k, b[2]) /\ KeepsTo(k)
    BY <2>1, <2>2, IdsStay
  <2> QED BY <2>1, <2>3, OnChainIs
<1>3. CASE HashAt(db, k) # {}
  BY <1>2, <1>3 DEF Sound
<1>4. CASE HashAt(db, k) = {} /\ k = 0
  <2>1. Len(chain') \in Nat
    <3>1. CASE Mine
      BY <3>1, MineIs
    <3>2. CASE Reorg
      BY <3>2, ReorgIs
    <3> QED BY <3>1, <3>2
  <2> QED BY <1>4, <2>1 DEF Sound, KeepsTo
<1>5. CASE HashAt(db, k) = {} /\ k > 0
  <2>1. k <= Len(chain)
    BY <1>5 DEF Loose, Tip
  <2>2. CASE Mine
    BY <1>5, <2>1, <2>2, MineIs DEF KeepsTo, Sound
  <2>3. CASE Reorg
    <3>1. PICK top \in 1..Len(chain) :
             /\ Len(chain') = top - 1
             /\ \A i \in 1..(top - 1) : chain'[i] = chain[i]
             /\ orphan' = (orphan \/ Unanchored(top))
      BY <2>3, ReorgIs
    <3>2. ~Unanchored(top)
      BY <3>1
    <3>3. k \notin InFlight /\ k <= ChainTop
      BY DEF Base, Reach, InFlight
    <3>4. k <= Reach(db, eng)
      BY <1>5 DEF Base
    <3>5. k < top
      BY <1>5, <3>2, <3>3, <3>4 DEF Unanchored
    <3> QED BY <1>5, <2>1, <3>1, <3>5 DEF KeepsTo, Sound
  <2> QED BY <2>2, <2>3
<1> QED BY <1>3, <1>4, <1>5

-----------------------------------------------------------------------------
(* Blocks are mined and replaced.                                          *)

LEMMA KeptOn ==
  ASSUME NEW k \in Int, KeepsTo(k), Len(chain') \in Int, NEW b \in Int \X Int, 1 <= b[1], b[1] <= k, OnChain(b)
  PROVE  OnChain(b)'
<1> DEFINE h == b[1]
           c == b[2]
<1>1. (OnChain(b) <=> OnAt(h, c)) /\ (OnChain(b)' <=> OnAt(h, c)')
  BY OnChainIs
<1>2. h \in Int /\ 1 <= h /\ h <= k
  OBVIOUS
<1> HIDE DEF h, c
<1>3. chain'[h] = chain[h] /\ k <= Len(chain')
  BY <1>2 DEF KeepsTo
<1>4. OnAt(h, c)'
  BY <1>1, <1>2, <1>3 DEF OnAt
<1> QED BY <1>1, <1>4

LEMMA EngineSame ==
  ASSUME UNCHANGED <<db, eng>>
  PROVE  /\ Base' = Base /\ Writing' = Writing /\ End' = End /\ Upper' = Upper
         /\ BatchTxs' = BatchTxs /\ BatchNotes' = BatchNotes
         /\ \A k : HashAt(db, k)' = HashAt(db, k)
         /\ Known(db)' = Known(db)
BY DEF Base, Reach, Writing, End, Upper, BatchTxs, BatchNotes, Paying, HashAt, Known

LEMMA Shift ==
  ASSUME NEW c \in Int, NEW i \in Int, NEW j \in Int, c >= 1, 1 <= j, j <= i
  PROVE  c + j - 1 \in 1..(c + i - 1)
OBVIOUS

LEMMA WorldFrame ==
  ASSUME LedgerTypes, LedgerTypes', LedgerFrame, Mine \/ Reorg
  PROVE  LedgerFrame'
<1> USE Heights
<1>0. UNCHANGED <<db, eng>> /\ Len(chain') \in Nat
  BY WorldSame DEF LedgerTypes
<1>1. ChainOK(chain', branch')
  BY MineKeepsChain, ReorgKeepsChain DEF LedgerFrame
<1>2. ASSUME NEW b \in db.hashes
      PROVE /\ b[2] <= branch' /\ (b[2] = branch' => OnChain(b)')
  <2>1. b \in Int \X Int /\ b[1] \in Int /\ b[2] \in Int /\ b[1] >= 1
    OBVIOUS
  <2>2. b[2] <= branch /\ (b[2] = branch => OnAt(b[1], b[2]))
    BY <2>1, OnChainIs DEF LedgerFrame, Ids
  <2> QED BY <2>1, <2>2, OnChainIs, IdsStay
<1>3. ASSUME eng.pc \in BatchPcs, NEW i \in DOMAIN eng.batch
      PROVE  /\ eng.batch[i].branch <= branch' /\ (eng.batch[i].branch = branch' => Still(i)')
             /\ Still(i)' => Still(i) /\ KeepsTo(eng.cur + i - 1)
  <2>0. eng.cur + i - 1 \in Int /\ eng.cur + i - 1 >= 1 /\ eng.batch[i].branch \in Int
    <3>1. EngineTypes(eng)
      BY DEF LedgerTypes
    <3>2. i \in 1..Len(eng.batch) /\ eng.batch[i].branch \in Int /\ eng.cur \in Nat \ {0}
      BY <3>1, BatchBlock
    <3> QED BY <3>2
  <2>1. PICK h \in Int, c \in Int : h = eng.cur + i - 1 /\ c = eng.batch[i].branch /\ h >= 1
    BY <2>0
  <2>2. (Still(i) <=> OnAt(h, c)) /\ (Still(i)' <=> OnAt(h, c)')
    BY <1>0, <2>1 DEF Still, OnAt
  <2>3. c <= branch /\ (c = branch => OnAt(h, c))
    BY <1>3, <2>1, <2>2 DEF LedgerFrame, Ids
  <2>4. /\ c <= branch' /\ (c = branch' => OnAt(h, c)')
        /\ OnAt(h, c)' => OnAt(h, c) /\ KeepsTo(h)
    BY <2>1, <2>3, IdsStay
  <2> QED BY <2>1, <2>2, <2>4
<1>4. Ids'
  <2>1. \A b \in db'.hashes : b[2] <= branch' /\ (b[2] = branch' => OnChain(b)')
    BY <1>0, <1>2, EngineSame DEF LedgerFrame, Ids
  <2>2. \A b, c \in db'.hashes : b[1] = c[1] => b = c
    BY <1>0 DEF LedgerFrame, Ids
  <2>3. eng'.pc \in BatchPcs => \A i \in DOMAIN eng'.batch :
         eng'.batch[i].branch <= branch' /\ (eng'.batch[i].branch = branch' => Still(i)')
    BY <1>0, <1>3
  <2> QED BY <2>1, <2>2, <2>3 DEF Ids, BatchPcs
<1>5. Place'
  BY <1>0, EngineSame DEF LedgerFrame, Place, BatchPcs
<1>6. OfChain'
  <2> SUFFICES ASSUME eng.pc \in BatchPcs, NEW i \in DOMAIN eng.batch, Still(i)'
               PROVE  Sound(eng.cur - 1)' /\ \A j \in 1..i : chain'[eng.cur + j - 1] = eng.batch[j]
    BY <1>0, EngineSame DEF LedgerFrame, OfChain, BatchPcs
  <2>0. i \in Int /\ i >= 1 /\ eng.cur \in Int /\ eng.cur >= 1
    OBVIOUS
  <2>a. Still(i) /\ KeepsTo(eng.cur + i - 1)
    BY <1>3
  <2>1. Still(i) /\ KeepsTo(eng.cur + i - 1) /\ i \in Int /\ i >= 1 /\ eng.cur \in Int /\ eng.cur >= 1
    BY <2>0, <2>a
  <2>2. Sound(eng.cur - 1) /\ \A j \in 1..i : chain[eng.cur + j - 1] = eng.batch[j]
    BY <2>1 DEF LedgerFrame, OfChain
  <2>3. \A j \in 1..i : chain'[eng.cur + j - 1] = eng.batch[j]
    <3> SUFFICES ASSUME NEW j \in 1..i PROVE chain'[eng.cur + j - 1] = eng.batch[j]
      OBVIOUS
    <3>0. j \in Int /\ 1 <= j /\ j <= i
      BY <2>0
    <3>1. eng.cur + j - 1 \in 1..(eng.cur + i - 1)
      BY <2>0, <3>0, Shift
    <3> QED BY <2>1, <2>2, <3>1 DEF KeepsTo
  <2>4. \A b \in HashAt(db, eng.cur - 1) : OnChain(b)'
    <3> SUFFICES ASSUME NEW b \in HashAt(db, eng.cur - 1) PROVE OnChain(b)'
      OBVIOUS
    <3>1. b \in Int \X Int /\ 1 <= b[1] /\ b[1] <= eng.cur + i - 1 /\ OnChain(b)
      BY <2>1, <2>2 DEF HashAt, Sound
    <3>2. PICK k \in Int : k = eng.cur + i - 1
      BY <2>1
    <3>3. KeepsTo(k) /\ b[1] <= k /\ Len(chain') \in Int
      BY <1>0, <2>1, <3>1, <3>2
    <3> QED BY <3>1, <3>3, KeptOn
  <2>5. Sound(eng.cur - 1)'
    BY <1>0, <2>4 DEF Sound, HashAt
  <2> QED BY <2>3, <2>5
<1>7. Marks'
  BY <1>0, EngineSame DEF LedgerFrame, Marks, Known
<1> QED BY <1>1, <1>4, <1>5, <1>6, <1>7 DEF LedgerFrame

LEMMA WorldSeen ==
  ASSUME LedgerTypes, LedgerTypes', LedgerFrame, LedgerSeen, Mine \/ Reorg, ~Excused'
  PROVE  (Below /\ Loose /\ Fresh /\ Cached)'
<1> USE Heights
<1>0. /\ UNCHANGED <<db, eng, freed>> /\ Len(chain') \in Nat
      /\ Below /\ Loose /\ Fresh /\ Cached /\ ~orphan' /\ ~stale'
  BY WorldSame DEF LedgerTypes, LedgerSeen, Excused
<1>1. ASSUME NEW k \in 0..Base, Sound(k)'
      PROVE  /\ Sound(k) /\ KeepsTo(k)
             /\ \A t, h : h \in 1..k => (MinedIn(t, h)' <=> MinedIn(t, h))
  <2>1. Sound(k) /\ KeepsTo(k)
    BY <1>0, <1>1, WorldAnchors DEF LedgerFrame
  <2> QED BY <1>0, <2>1, KeptMined
<1>2. \A t : SeenIn(t)' <=> SeenIn(t)
  BY <1>0 DEF SeenIn, Settled, Known
<1>3. Below'
  <2> SUFFICES ASSUME NEW k \in 0..Base, Sound(k)' PROVE Vouched(k)'
    BY <1>0, EngineSame DEF Below
  <2>1. Vouched(k)
    BY <1>0, <1>1 DEF Below
  <2>2. \A h \in 1..k : \A t \in Txs : MinedIn(t, h)' => SeenIn(t)'
    BY <1>1, <1>2, <2>1 DEF Vouched
  <2>3. ASSUME NEW u \in Txs, db.rows[u] > 0
        PROVE  /\ db.rows[u] <= k => MinedIn(u, db.rows[u])'
               /\ \A h \in 1..k : MinedIn(u, h)' => db.rows[u] = h
               /\ \A h \in 1..k : \A t \in Txs : MinedIn(t, h)' /\ t # u => Spends[t] \cap Spends[u] = {}
    <3>1. PICK r \in Int : r = db.rows[u]
      OBVIOUS
    <3>2. r <= k => MinedIn(u, r)'
      BY <1>1, <2>1, <2>3, <3>1 DEF Vouched
    <3>3. r <= k => MinedIn(u, db.rows[u])'
      BY <1>0, <3>1, <3>2 DEF MinedIn
    <3> QED BY <1>1, <2>1, <2>3, <3>1, <3>3 DEF Vouched
  <2> QED BY <1>0, <2>2, <2>3 DEF Vouched
<1>4. Loose'
  <2>1. ASSUME NEW k \in 1..Base, HashAt(db, k) = {} PROVE k <= Len(chain')
    <3>1. Sound(k)'
      BY <1>0, <2>1, EngineSame DEF Sound, HashAt
    <3> QED BY <1>1, <3>1 DEF KeepsTo
  <2>2. ASSUME NEW u \in Txs, db.rows[u] > Upper PROVE MinedIn(u, db.rows[u])'
    <3>1. PICK r \in Int : r = db.rows[u] /\ r <= ChainTop
      OBVIOUS
    <3>2. MinedIn(u, r) /\ r \in 1..Len(chain)
      BY <1>0, <2>2, <3>1 DEF Loose, Upper, MinedIn, Tip
    <3>3. CASE Mine
      <4>1. chain'[r] = chain[r] /\ Len(chain') = Len(chain) + 1
        BY <3>2, <3>3, MineIs
      <4> QED BY <1>0, <3>1, <3>2, <4>1 DEF MinedIn, Tip
    <3>4. CASE Reorg
      <4>1. PICK top \in 1..Len(chain) :
             /\ Len(chain') = top - 1
             /\ \A i \in 1..(top - 1) : chain'[i] = chain[i]
             /\ orphan' = (orphan \/ Unanchored(top)) /\ stale' = (stale \/ Exposed(top))
        BY <3>4, ReorgIs
      <4>2. r > Reach(db, eng) /\ r \notin InFlight
        <5>1. CASE Writing
          <6>1. Reach(db, eng) = eng.cur - 1 /\ InFlight = eng.cur..End /\ r > End
            BY <2>2, <3>1, <5>1 DEF Upper, Reach, InFlight, Writing
          <6>2. End >= eng.cur - 1 /\ End \in Int /\ eng.cur \in Int
            OBVIOUS
          <6> QED BY <6>1, <6>2
        <5>2. CASE ~Writing
          BY <2>2, <3>1, <5>2 DEF Upper, Base, InFlight, Writing
        <5> QED BY <5>1, <5>2
      <4>3. r < top
        <5>1. ~Exposed(top)
          BY <1>0, <4>1
        <5> QED BY <3>1, <4>1, <4>2, <5>1 DEF Exposed
      <4>4. chain'[r] = chain[r] /\ r <= Len(chain')
        BY <3>2, <4>1, <4>3
      <4> QED BY <1>0, <3>1, <3>2, <4>4 DEF MinedIn, Tip
    <3> QED BY <3>3, <3>4
  <2> QED BY <1>0, <2>1, <2>2, EngineSame DEF Loose, Upper, Tip
<1>5. Fresh'
  <2> SUFFICES ASSUME eng.pc \in BatchPcs, NEW k \in 0..(eng.cur - 1), Sound(k)', NEW h \in 1..k,
                      NEW u \in BatchTxs, NEW t \in Txs, MinedIn(t, h)'
               PROVE  t # u /\ Spends[t] \cap (Spends[u] \cup Creates[u]) = {}
    BY <1>0, <1>2, EngineSame DEF Fresh, BatchPcs
  <2>1. k \in 0..Base
    BY DEF Base, Reach, BatchPcs
  <2>2. Sound(k) /\ MinedIn(t, h)
    BY <1>1, <2>1
  <2> QED BY <1>0, <2>2 DEF Fresh
<1>6. Cached'
  BY <1>0 DEF Cached, Known
<1> QED BY <1>3, <1>4, <1>5, <1>6

-----------------------------------------------------------------------------
(* Rewinds.                                                                *)

LEMMA TruncateIs ==
  ASSUME NEW d, TableTypes(d), NEW h \in 0..ChainTop, NEW c \in 0..h
  PROVE  LET e == Truncate(d, h, c)
         IN /\ e.local = c /\ e.hashes = {b \in d.hashes : b[1] <= h}
            /\ e.unlinked \subseteq d.unlinked /\ Known(e) \subseteq Known(d)
            /\ \A t \in Txs : e.rows[t] = IF d.rows[t] > h THEN Unseen ELSE d.rows[t]
            /\ \A n \in Known(e) :
                 \/ e.notes[n] = d.notes[n]
                 \/ ~e.notes[n].spent /\ d.notes[n].by \in Txs /\ d.rows[d.notes[n].by] > h
<1> DEFINE gone == {t \in Txs : d.rows[t] > h}
           kept == {n \in Known(d) : d.notes[n].h <= h}
           reset == ResetSpentBy(d.notes, gone)
           notes == Restrict(reset, kept)
           rows == [t \in Txs |-> IF t \in gone THEN Unseen ELSE d.rows[t]]
           unlinked == {u \in d.unlinked : u[2] \notin gone}
           hashes == {b \in d.hashes : b[1] <= h}
           e == Truncate(d, h, c)
<1>1. /\ e.notes = notes /\ e.rows = rows /\ e.unlinked = unlinked /\ e.local = c
      /\ e.hashes = hashes
  <2> HIDE DEF gone, kept, notes, rows, unlinked, hashes
  <2>1. e = [d EXCEPT !.notes = notes, !.unlinked = unlinked, !.rows = rows, !.local = c,
                      !.hashes = hashes]
    BY DEF Truncate, gone, kept, reset, notes, rows, unlinked, hashes
  <2> QED BY <2>1 DEF TableTypes
<1> HIDE DEF e
<1>2. DOMAIN notes = kept /\ \A n \in kept : notes[n] = IF d.notes[n].by \in gone
                                                        THEN FreshNote(d.notes[n].h) ELSE d.notes[n]
  BY DEF ResetSpentBy, Restrict, Known
<1>3. Known(e) = kept
  BY <1>1, <1>2 DEF Known
<1>4. \A n \in kept : notes[n] = d.notes[n] \/ (~notes[n].spent /\ d.notes[n].by \in gone)
  <2> HIDE DEF notes, gone, kept
  <2>1. \A x : ~FreshNote(x).spent
    BY DEF FreshNote
  <2> QED BY <1>2, <2>1
<1>5. \A n \in Known(e) :
        \/ e.notes[n] = d.notes[n]
        \/ ~e.notes[n].spent /\ d.notes[n].by \in Txs /\ d.rows[d.notes[n].by] > h
  BY <1>1, <1>3, <1>4
<1>6. \A t \in Txs : e.rows[t] = IF d.rows[t] > h THEN Unseen ELSE d.rows[t]
  BY <1>1
<1> QED BY <1>1, <1>3, <1>5, <1>6 DEF e

\* A rewind, of an idle wallet or by the run between two batches.
LEMMA RewindFrame ==
  ASSUME LedgerTypes, LedgerTypes', LedgerFrame, eng.pc \in {"idle", "main"},
         NEW h \in 0..Base, NEW c \in 0..h, db' = Truncate(db, h, c), UNCHANGED <<chain, branch, freed>>,
         eng'.pc = "main", NEW cur \in {h + 1, c + 1}, eng'.cur = cur,
         eng'.prev = NoBlock \/ (eng.pc = "main" /\ h < eng.cur - 1 /\ eng'.prev = eng.prev)
  PROVE  /\ LedgerFrame'
         /\ Below /\ Loose /\ ~LeftBehind(db', eng') => (Below /\ Loose /\ Fresh)'
<1>0. h \in 0..ChainTop /\ TableTypes(db)
  BY Heights DEF LedgerTypes
<1>1. /\ db'.local = c /\ db'.hashes = {b \in db.hashes : b[1] <= h}
      /\ db'.unlinked \subseteq db.unlinked /\ Known(db') \subseteq Known(db)
      /\ \A t \in Txs : db'.rows[t] = IF db.rows[t] > h THEN Unseen ELSE db.rows[t]
      /\ \A n \in Known(db') :
           \/ db'.notes[n] = db.notes[n]
           \/ ~db'.notes[n].spent /\ db.notes[n].by \in Txs /\ db.rows[db.notes[n].by] > h
  BY <1>0, TruncateIs
<1> USE Heights
<1>a. c \in Int /\ c >= 0 /\ c <= h /\ h \in Int /\ cur \in Int
  OBVIOUS
<1>2. Base' = cur - 1 /\ cur - 1 \in 0..h /\ ~Writing /\ ~Writing' /\ Upper' = cur - 1
  BY <1>a, <1>1 DEF Base, Reach, Writing, Upper
<1>3. \A b : OnChain(b)' <=> OnChain(b)
  BY DEF OnChain, BlockId, Tip
<1>4. Ids'
  <2>1. \A b \in db'.hashes : b[2] <= branch' /\ (b[2] = branch' => OnChain(b)')
    BY <1>1, <1>3 DEF LedgerFrame, Ids
  <2>2. \A b, d \in db'.hashes : b[1] = d[1] => b = d
    BY <1>1 DEF LedgerFrame, Ids
  <2> QED BY <2>1, <2>2 DEF Ids, BatchPcs
<1>5. Place' /\ OfChain'
  <2>1. eng'.prev # NoBlock =>
           /\ eng'.prev \in Int \X Int /\ eng'.cur - 1 <= eng'.prev[1]
           /\ eng'.prev[1] = eng'.cur - 1 => eng'.prev \in db'.hashes
    <3> SUFFICES ASSUME eng'.prev # NoBlock
                 PROVE  /\ eng'.prev \in Int \X Int /\ eng'.cur - 1 <= eng'.prev[1]
                        /\ eng'.prev[1] # eng'.cur - 1
      OBVIOUS
    <3>1. eng.prev \in Int \X Int /\ eng.cur - 1 <= eng.prev[1] /\ h < eng.cur - 1 /\ eng'.prev = eng.prev
      BY DEF LedgerFrame, Place
    <3>2. PICK p \in Int : p = eng.prev[1]
      BY <3>1
    <3>3. PICK d \in Int : d = eng'.cur - 1
      BY <1>a
    <3>4. d <= h /\ h < p
      BY <1>a, <1>2, <3>1, <3>2, <3>3
    <3>5. d <= p /\ p # d
      BY <1>a, <3>4
    <3> QED BY <3>1, <3>2, <3>3, <3>5
  <2>2. db'.local <= eng'.cur - 1
    BY <1>a, <1>1
  <2> QED BY <1>2, <2>1, <2>2 DEF Place, OfChain, BatchPcs
<1>6. Marks'
  BY <1>1 DEF LedgerFrame, Marks
<1>7. ChainOK(chain, branch)'
  BY DEF LedgerFrame
<1>8. \A k \in 0..h : HashAt(db', k) = HashAt(db, k)
  BY <1>1 DEF HashAt
<1>9. \A k \in 0..h : Sound(k)' <=> Sound(k)
  BY <1>3, <1>8 DEF Sound
<1>10. \A t, k : MinedIn(t, k)' <=> MinedIn(t, k)
  BY DEF MinedIn, Tip
<1>11. ASSUME Below, Loose, ~LeftBehind(db', eng') PROVE (Below /\ Loose /\ Fresh)'
  <2>1. ASSUME NEW k \in 0..h, Sound(k)' PROVE Vouched(k)'
    <3>0. k \in Int /\ k <= h /\ h \in Int /\ Unseen = -1
      BY DEF Unseen
    <3>1. Vouched(k)
      <4>1. Sound(k) /\ k \in 0..Base
        BY <1>a, <1>9, <2>1
      <4> QED BY <1>11, <4>1 DEF Below
    <3>2. ASSUME NEW i \in 1..k, NEW t \in Txs, MinedIn(t, i), NEW n \in (Spends[t] \cap Known(db')) \ freed
          PROVE  db'.notes[n].spent /\ (db'.notes[n].by = t \/ db'.rows[db'.notes[n].by] <= 0)
      <4>1. db.notes[n].spent /\ (db.notes[n].by = t \/ db.rows[db.notes[n].by] <= 0)
        BY <1>1, <3>1, <3>2 DEF Vouched, SeenIn, Settled
      <4>2. db.notes[n].by = t => db.rows[t] <= h
        <5>1. db.rows[t] \in Int /\ (db.rows[t] > 0 => db.rows[t] = i)
          BY <3>1, <3>2 DEF Vouched
        <5>2. i \in Int /\ i <= h /\ 1 <= i
          BY <3>0
        <5>3. PICK v \in Int : v = db.rows[t]
          BY <5>1
        <5>4. v <= h
          BY <3>0, <5>1, <5>2, <5>3
        <5> QED BY <5>3, <5>4
      <4>3. db'.notes[n] = db.notes[n]
        <5>1. db.notes[n].by \in Txs => db.rows[db.notes[n].by] \in Int
          OBVIOUS
        <5>2. ~(db.notes[n].by \in Txs /\ db.rows[db.notes[n].by] > h)
          BY <3>0, <4>1, <4>2, <5>1
        <5> QED BY <1>1, <5>2
      <4>4. db.notes[n].by \in Txs
        BY <1>1, <4>1 DEF LedgerTypes, TableTypes, NoteRow
      <4>5. PICK r \in Int : r = db.rows[db.notes[n].by]
        BY <4>4
      <4>6. PICK q : q = db'.rows[db.notes[n].by]
        OBVIOUS
      <4>7. q = IF r > h THEN Unseen ELSE r
        BY <1>1, <4>4, <4>5, <4>6
      <4>8. r <= 0 => q <= 0
        BY <3>0, <4>7
      <4> QED BY <4>1, <4>3, <4>5, <4>6, <4>8
    <3>3. \A i \in 1..k : \A t \in Txs : MinedIn(t, i)' => SeenIn(t)'
      BY <1>10, <3>2 DEF SeenIn, Settled
    <3>4. \A u \in Txs : db'.rows[u] > 0 => db'.rows[u] = db.rows[u]
      BY <1>1, <3>0
    <3>5. ASSUME NEW u \in Txs, db'.rows[u] > 0
          PROVE  /\ (db.rows[u] <= k => MinedIn(u, db.rows[u]))'
                 /\ \A i \in 1..k : MinedIn(u, i)' => db'.rows[u] = i
                 /\ \A i \in 1..k : \A t \in Txs : MinedIn(t, i)' /\ t # u => Spends[t] \cap Spends[u] = {}
      <4>1. PICK r : r = db.rows[u] /\ r = db'.rows[u]
        BY <3>4, <3>5
      <4>2. r <= k => MinedIn(u, r)'
        BY <1>10, <3>1, <3>5, <4>1 DEF Vouched
      <4>3. r <= k => MinedIn(u, db.rows[u])'
        BY <4>1, <4>2 DEF MinedIn
      <4> QED BY <1>10, <3>1, <3>5, <4>1, <4>3 DEF Vouched
    <3> QED BY <3>3, <3>5 DEF Vouched
  <2>2. Below'
    <3>1. \A k \in 0..Base' : k \in 0..h
      BY <1>a, <1>2
    <3> QED BY <2>1, <3>1 DEF Below
  <2>3. Loose'
    <3>1. \A k \in 1..h : HashAt(db', k) = {} => k <= Len(chain')
      <4> SUFFICES ASSUME NEW k \in 1..h, HashAt(db', k) = {} PROVE k <= Len(chain)
        OBVIOUS
      <4>1. k \in 1..Base /\ HashAt(db, k) = {}
        BY <1>a, <1>8
      <4> QED BY <1>11, <4>1 DEF Loose, Tip
    <3>2. ASSUME NEW u \in Txs, db'.rows[u] > cur - 1 PROVE MinedIn(u, db.rows[u])'
      <4>0. PICK q \in Int, r \in Int : r = db'.rows[u] /\ q = db.rows[u]
        BY Bounds DEF LedgerTypes, TableTypes, Unseen
      <4>a. r = IF q > h THEN -1 ELSE q
        BY <1>1, <4>0 DEF Unseen
      <4>b. cur - 1 \in 0..h /\ r > cur - 1
        BY <1>2, <3>2, <4>0
      <4>1. r = db'.rows[u] /\ r = db.rows[u] /\ cur - 1 < r /\ r <= h /\ r > 0 /\ h <= Base
        <5>1. PICK k \in Int : k = cur - 1
          BY <1>a
        <5>2. k >= 0 /\ r > k
          BY <4>b, <5>1
        <5>3. r = q /\ r <= h /\ r > 0
          BY <1>a, <4>a, <5>2
        <5>4. h <= Base
          OBVIOUS
        <5> QED BY <4>0, <5>1, <5>2, <5>3, <5>4
      <4>2. Reach(db', eng') = cur - 1 /\ InFlight = {}
        BY DEF Reach, InFlight
      <4>3. \A b \in HashAt(db', r) : OnChain(b)
        <5>1. r > Reach(db', eng') /\ r \notin InFlight
          BY <4>1, <4>2
        <5> QED BY <1>11, <4>1, <5>1 DEF LeftBehind
      <4>4. r \in 0..h /\ r \in 0..Base /\ r > 0
        <5>1. PICK b \in Int : b = Base
          OBVIOUS
        <5>2. r <= h /\ h <= b /\ r > 0
          BY <4>1, <5>1
        <5>3. r \in 0..h /\ r \in 0..b /\ r > 0
          BY <1>a, <5>2
        <5> QED BY <5>1, <5>3
      <4>5. Sound(r)
        BY <1>8, <4>3, <4>4 DEF Sound
      <4>6. Vouched(r)
        BY <1>11, <4>4, <4>5 DEF Below
      <4>7. MinedIn(u, r)
        BY <4>1, <4>4, <4>6 DEF Vouched
      <4>8. MinedIn(u, r)'
        BY <1>10, <4>7
      <4> QED BY <4>1, <4>8 DEF MinedIn
    <3>3. \A k \in 1..Base' : k \in 1..h
      BY <1>a, <1>2
    <3> QED BY <1>1, <1>2, <3>1, <3>2, <3>3 DEF Loose, Tip
  <2>4. Fresh'
    BY DEF Fresh, BatchPcs
  <2> QED BY <2>2, <2>3, <2>4
<1> QED BY <1>4, <1>5, <1>6, <1>7, <1>11 DEF LedgerFrame

-----------------------------------------------------------------------------
(* A run ends.                                                             *)

\* The blocks of a batch up to one that is still the server's are the server's.
LEMMA BatchOnChain ==
  ASSUME LedgerTypes, LedgerFrame, eng.pc \in BatchPcs, NEW i \in DOMAIN eng.batch, Still(i),
         NEW h \in Int, eng.cur <= h, h <= eng.cur + i - 1
  PROVE  /\ h + 1 - eng.cur \in DOMAIN eng.batch /\ h + 1 - eng.cur <= i
         /\ h \in 1..Len(chain) /\ chain[h] = eng.batch[h + 1 - eng.cur]
         /\ Sound(eng.cur - 1)
<1>a. /\ DOMAIN eng.batch = 1..Len(eng.batch) /\ Len(eng.batch) \in Nat /\ Len(chain) \in Nat
      /\ eng.cur \in Int /\ eng.cur >= 1
  BY Heights
<1>0. /\ i \in Int /\ i >= 1 /\ i <= Len(eng.batch) /\ eng.cur \in Int /\ eng.cur >= 1
      /\ DOMAIN eng.batch = 1..Len(eng.batch) /\ Len(eng.batch) \in Nat /\ Len(chain) \in Nat
  BY <1>a
<1>1. PICK j \in Int : j = h + 1 - eng.cur
  BY <1>0
<1>2. j \in 1..i /\ eng.cur + j - 1 = h /\ h >= 1
  BY <1>0, <1>1
<1>3. chain[eng.cur + j - 1] = eng.batch[j] /\ Sound(eng.cur - 1)
  BY <1>2 DEF LedgerFrame, OfChain
<1>4. eng.cur + i - 1 <= Len(chain)
  BY DEF Still, OnAt
<1>5. PICK c \in Int : c = eng.cur
  BY <1>0
<1>6. h <= Len(chain) /\ j \in 1..Len(eng.batch) /\ j <= i
  <2>1. c + i - 1 <= Len(chain) /\ h <= c + i - 1
    BY <1>4, <1>5
  <2>2. h <= Len(chain)
    BY <1>0, <1>5, <2>1
  <2>3. j \in 1..Len(eng.batch) /\ j <= i
    BY <1>0, <1>2
  <2> QED BY <2>2, <2>3
<1> QED BY <1>0, <1>1, <1>2, <1>3, <1>6

\* Once its spends are applied, a batch adds to what its hashes vouch for.
LEMMA VouchedUp ==
  ASSUME LedgerTypes, LedgerFrame, eng.pc = "save", Below, Fresh,
         NEW i \in DOMAIN eng.batch, Still(i), NEW k \in Int, eng.cur <= k, k <= eng.cur + i - 1
  PROVE  Vouched(k)
<1>a. /\ DOMAIN eng.batch = 1..Len(eng.batch) /\ Len(eng.batch) \in Nat
      /\ eng.cur \in Int /\ eng.cur >= 1 /\ End = eng.cur + Len(eng.batch) - 1
      /\ \A u \in Txs : db.rows[u] \in Int
  BY Heights
<1>0. /\ i \in Int /\ i >= 1 /\ i <= Len(eng.batch) /\ eng.cur \in Int /\ eng.cur >= 1
      /\ DOMAIN eng.batch = 1..Len(eng.batch) /\ Len(eng.batch) \in Nat
      /\ End = eng.cur + Len(eng.batch) - 1 /\ eng.pc \in BatchPcs
      /\ \A u \in Txs : db.rows[u] \in Int
  BY <1>a DEF BatchPcs
<1>1. ASSUME NEW h \in Int, eng.cur <= h, h <= k
      PROVE  /\ h + 1 - eng.cur \in DOMAIN eng.batch
             /\ h \in 1..Len(chain) /\ chain[h] = eng.batch[h + 1 - eng.cur]
             /\ Sound(eng.cur - 1)
             /\ \A t : MinedIn(t, h) <=> t \in eng.batch[h + 1 - eng.cur].txs
             /\ \A t : MinedIn(t, h) => t \in BatchTxs
  <2>1. h <= eng.cur + i - 1
    BY <1>0, <1>1
  <2>2. /\ h + 1 - eng.cur \in DOMAIN eng.batch
        /\ h \in 1..Len(chain) /\ chain[h] = eng.batch[h + 1 - eng.cur] /\ Sound(eng.cur - 1)
    BY <1>0, <1>1, <2>1, BatchOnChain
  <2> QED BY <2>2 DEF MinedIn, BatchTxs, Tip
<1>2. Vouched(eng.cur - 1)
  <2>1. Sound(eng.cur - 1)
    BY <1>0, <1>1
  <2>2. eng.cur - 1 \in 0..Base
    BY <1>0 DEF Base, Reach
  <2> QED BY <2>1, <2>2 DEF Below
<1>3. ASSUME NEW h \in 1..k, NEW t \in Txs, MinedIn(t, h) PROVE SeenIn(t)
  <2>1. CASE h < eng.cur
    BY <1>0, <1>2, <1>3, <2>1 DEF Vouched
  <2>2. CASE h >= eng.cur
    BY <1>0, <1>1, <1>3, <2>2 DEF Fresh
  <2> QED BY <1>0, <2>1, <2>2
<1>4. ASSUME NEW u \in Txs, db.rows[u] > 0
      PROVE  /\ db.rows[u] <= k => MinedIn(u, db.rows[u])
             /\ \A h \in 1..k : MinedIn(u, h) => db.rows[u] = h
             /\ \A h \in 1..k : \A t \in Txs : MinedIn(t, h) /\ t # u => Spends[t] \cap Spends[u] = {}
  <2>0. PICK r \in Int : r = db.rows[u]
    BY <1>0
  <2>1. r <= k => MinedIn(u, r)
    <3>1. CASE r < eng.cur
      BY <1>0, <1>2, <1>4, <2>0, <3>1 DEF Vouched
    <3>2. CASE r >= eng.cur /\ r <= k
      <4>1. r \in eng.cur..End
        BY <1>0, <2>0, <3>2
      <4>2. u \in eng.batch[r + 1 - eng.cur].txs
        BY <1>0, <1>4, <2>0, <4>1 DEF Fresh
      <4> QED BY <1>1, <2>0, <3>2, <4>2
    <3> QED BY <1>0, <2>0, <3>1, <3>2
  <2>2. ASSUME NEW h \in 1..k, MinedIn(u, h) PROVE r = h
    <3>1. CASE h < eng.cur
      BY <1>0, <1>2, <1>4, <2>0, <2>2, <3>1 DEF Vouched
    <3>2. CASE h >= eng.cur
      <4>1. PICK j \in DOMAIN eng.batch : j = h + 1 - eng.cur /\ u \in eng.batch[j].txs
        BY <1>1, <2>2, <3>2
      <4>2. r = eng.cur + j - 1
        BY <1>0, <1>4, <2>0, <4>1 DEF Fresh
      <4> QED BY <1>0, <4>1, <4>2
    <3> QED BY <1>0, <3>1, <3>2
  <2>3. ASSUME NEW h \in 1..k, NEW t \in Txs, MinedIn(t, h), t # u PROVE Spends[t] \cap Spends[u] = {}
    <3>1. CASE h < eng.cur
      BY <1>0, <1>2, <1>4, <2>3, <3>1 DEF Vouched
    <3>2. CASE h >= eng.cur
      <4>1. t \in BatchTxs
        BY <1>1, <2>3, <3>2
      <4> QED BY <1>0, <1>4, <2>3, <4>1 DEF Fresh
    <3> QED BY <1>0, <3>1, <3>2
  <2> QED BY <2>0, <2>1, <2>2, <2>3
<1> QED BY <1>3, <1>4 DEF Vouched

LEMMA SameWorld ==
  ASSUME UNCHANGED <<chain>>
  PROVE  /\ \A b : OnChain(b)' <=> OnChain(b)
         /\ \A t, k : MinedIn(t, k)' <=> MinedIn(t, k)
         /\ Tip' = Tip
BY DEF OnChain, BlockId, Tip, MinedIn

LEMMA SameVouched ==
  ASSUME UNCHANGED <<chain, freed>>, db'.notes = db.notes, db'.rows = db.rows
  PROVE  \A k : Vouched(k)' <=> Vouched(k)
BY DEF Vouched, SeenIn, Settled, Known, MinedIn, Tip

LEMMA StopFrame ==
  ASSUME LedgerTypes, LedgerTypes', LedgerFrame, UNCHANGED <<chain, branch, db, freed>>, eng' = Stopped
  PROVE  /\ LedgerFrame'
         /\ Below /\ Loose /\ Fresh /\ ~(eng.pc = "spends" /\ BatchNotes # {}) /\ ~Stranded
            /\ ~LeftBehind(db, eng')
              => (Below /\ Loose /\ Fresh /\ Cached)'
<1> USE Heights
<1>0. eng'.pc = "idle" /\ Base' = db.local /\ ~Writing' /\ Reach(db, eng') = db.local /\ Upper' = db.local
  BY DEF Stopped, Base, Reach, Writing, Upper, LedgerTypes, EngineTypes
<1>2. Ids'
  <2>1. \A b \in db'.hashes : b[2] <= branch' /\ (b[2] = branch' => OnChain(b)')
    BY SameWorld DEF LedgerFrame, Ids
  <2> QED BY <1>0, <2>1 DEF LedgerFrame, Ids, BatchPcs
<1>3. Place' /\ OfChain' /\ Fresh' /\ Cached'
  BY <1>0 DEF Place, OfChain, Fresh, Cached, BatchPcs, Writing
<1>4. Marks' /\ ChainOK(chain, branch)'
  <2>1. Marks'
    BY DEF LedgerFrame, Marks, Known
  <2>2. ChainOK(chain, branch)'
    BY DEF LedgerFrame
  <2> QED BY <2>1, <2>2
<1>5. ASSUME Below, Loose, Fresh, ~(eng.pc = "spends" /\ BatchNotes # {}), ~Stranded, ~LeftBehind(db, eng')
      PROVE  Below' /\ Loose'
  <2>1. \A k : Sound(k)' <=> Sound(k)
    BY SameWorld DEF Sound, HashAt
  <2>a. ASSUME NEW r \in Int, NEW u \in Txs, r = db.rows[u], r > db.local, r \notin InFlight, r <= Base
        PROVE  MinedIn(u, r)
    <3>1. Sound(r)
      BY <1>0, <1>5, <2>a DEF LeftBehind, Sound
    <3>2. r > 0 /\ r \in 0..Base
      BY <2>a
    <3>3. Vouched(r)
      BY <1>5, <3>1, <3>2 DEF Below
    <3> QED BY <2>a, <3>2, <3>3 DEF Vouched
  <2>2. CASE ~Writing
    <3>1. db.local <= Base /\ Upper = Base /\ InFlight = {}
      BY <2>2 DEF Base, Reach, Upper, InFlight, Writing, LedgerFrame, Place, LedgerTypes, EngineTypes
    <3>2. Below'
      <4>1. \A k \in 0..db.local : k \in 0..Base
        BY <3>1
      <4> QED BY <1>0, <1>5, <2>1, <4>1, SameVouched DEF Below
    <3>3. ASSUME NEW k \in 1..db.local, HashAt(db, k) = {} PROVE k <= Tip
      <4>1. k \in 1..Base
        BY <3>1
      <4> QED BY <1>5, <3>3, <4>1 DEF Loose
    <3>4. ASSUME NEW u \in Txs, db.rows[u] > db.local PROVE MinedIn(u, db.rows[u])
      <4>1. PICK r \in Int : r = db.rows[u]
        OBVIOUS
      <4>2. CASE r > Base
        BY <1>5, <3>1, <4>1, <4>2 DEF Loose
      <4>3. CASE r <= Base
        BY <2>a, <3>1, <3>4, <4>1, <4>3
      <4> QED BY <4>2, <4>3
    <3>5. Loose'
      BY <1>0, <3>3, <3>4, SameWorld DEF Loose, HashAt
    <3> QED BY <3>2, <3>5
  <2>3. CASE Writing
    <3>0. /\ eng.pc \in BatchPcs /\ Base = eng.cur - 1 /\ InFlight = eng.cur..End
          /\ db.local <= End /\ Upper = End
          /\ eng.pc = "spends" => db.local <= eng.cur - 1
      BY <1>5, <2>3 DEF Writing, BatchPcs, Base, Reach, Upper, InFlight, LedgerFrame, Place
    <3>1. PICK m \in Nat : m = Len(eng.batch) /\ m \in DOMAIN eng.batch /\ End = eng.cur + m - 1
      BY <3>0 DEF LedgerFrame, Place
    <3>2. Still(m)
      <4>1. End \in InFlight
        BY <3>0, <3>1
      <4>2. OnChain(<<End, eng.batch[End + 1 - eng.cur].branch>>)
        BY <1>5, <4>1 DEF Stranded
      <4>3. End + 1 - eng.cur = m
        BY <3>1
      <4>4. End <= Len(chain) /\ <<End, eng.batch[m].branch>> = <<End, chain[End].branch>>
        BY <4>2, <4>3 DEF OnChain, BlockId, Tip
      <4> QED BY <3>1, <4>4 DEF Still, OnAt
    <3>3. ASSUME NEW h \in Int, eng.cur <= h, h <= End
          PROVE  /\ h + 1 - eng.cur \in DOMAIN eng.batch
                 /\ h \in 1..Len(chain) /\ chain[h] = eng.batch[h + 1 - eng.cur]
      BY <3>0, <3>1, <3>2, <3>3, BatchOnChain
    <3>4. ASSUME NEW k \in 0..db.local, Sound(k) PROVE Vouched(k)
      <4>1. CASE k < eng.cur
        BY <1>5, <3>0, <3>4, <4>1 DEF Below
      <4>2. CASE k >= eng.cur
        <5>1. eng.pc = "save"
          BY <2>3, <3>0, <4>2 DEF Writing
        <5>2. k <= eng.cur + m - 1
          BY <3>0, <3>1
        <5>3. k \in Int /\ eng.cur <= k
          BY <4>2
        <5> QED BY <1>5, <3>1, <3>2, <5>1, <5>2, <5>3, VouchedUp
      <4> QED BY <4>1, <4>2
    <3>5. Below'
      BY <1>0, <2>1, <3>4, SameVouched DEF Below
    <3>6. ASSUME NEW k \in 1..db.local, HashAt(db, k) = {} PROVE k <= Len(chain)
      <4>1. CASE k < eng.cur
        BY <1>5, <3>0, <3>6, <4>1 DEF Loose, Tip
      <4>2. CASE k >= eng.cur
        BY <3>0, <3>3, <4>2
      <4> QED BY <4>1, <4>2
    <3>7. ASSUME NEW u \in Txs, db.rows[u] > db.local PROVE MinedIn(u, db.rows[u])
      <4>0. PICK r \in Int : r = db.rows[u]
        OBVIOUS
      <4>1. CASE r > End
        BY <1>5, <3>0, <4>0, <4>1 DEF Loose
      <4>2. CASE eng.cur <= r /\ r <= End
        <5>1. db.rows[u] \in eng.cur..End /\ db.rows[u] > 0
          BY <4>0, <4>2
        <5>2. u \in eng.batch[db.rows[u] + 1 - eng.cur].txs
          BY <1>5, <3>0, <5>1 DEF Fresh
        <5>3. r \in 1..Len(chain) /\ u \in chain[r].txs
          BY <3>3, <4>0, <4>2, <5>2
        <5> QED BY <4>0, <5>3 DEF MinedIn, Tip
      <4>3. CASE r < eng.cur
        BY <2>a, <3>0, <3>7, <4>0, <4>3
      <4> QED BY <4>1, <4>2, <4>3
    <3>8. Loose'
      BY <1>0, <3>6, <3>7, SameWorld DEF Loose, HashAt, Tip
    <3> QED BY <3>5, <3>8
  <2> QED BY <2>2, <2>3
<1> QED BY <1>2, <1>3, <1>4, <1>5 DEF LedgerFrame

-----------------------------------------------------------------------------
(* Broadcasts, releases and everything that leaves the run alone.          *)

\* Steps that leave the cursor, the hashes and the engine alone.
LEMMA SameEngine ==
  ASSUME UNCHANGED <<chain, branch, eng>>, db'.local = db.local, db'.hashes = db.hashes
  PROVE  /\ Base' = Base /\ (Writing' <=> Writing) /\ End' = End /\ Upper' = Upper
         /\ BatchTxs' = BatchTxs /\ BatchNotes' = BatchNotes
         /\ \A k : HashAt(db', k) = HashAt(db, k)
         /\ \A k : Sound(k)' <=> Sound(k)
         /\ \A i : Still(i)' <=> Still(i)
         /\ \A b : OnChain(b)' <=> OnChain(b)
         /\ \A t, k : MinedIn(t, k)' <=> MinedIn(t, k)
<1>1. /\ Base' = Base /\ (Writing' <=> Writing) /\ End' = End /\ Upper' = Upper
      /\ BatchTxs' = BatchTxs /\ BatchNotes' = BatchNotes
  BY DEF Base, Reach, Upper, Writing, End, BatchTxs, BatchNotes, Paying
<1>2. \A k : HashAt(db', k) = HashAt(db, k)
  BY DEF HashAt
<1>3. \A b : OnChain(b)' <=> OnChain(b)
  BY DEF OnChain, BlockId, Tip
<1>4. \A k : Sound(k)' <=> Sound(k)
  BY <1>2, <1>3 DEF Sound, HashAt
<1>5. \A i : Still(i)' <=> Still(i)
  BY DEF Still, OnAt
<1>6. \A t, k : MinedIn(t, k)' <=> MinedIn(t, k)
  BY DEF MinedIn, Tip
<1> QED BY <1>1, <1>2, <1>3, <1>4, <1>5, <1>6

\* Locks and releases of notes, and rows without a height.
LEMMA NotesFrame ==
  ASSUME LedgerTypes, LedgerTypes', LedgerFrame, UNCHANGED <<chain, branch, eng>>,
         db'.local = db.local, db'.hashes = db.hashes, db'.unlinked = db.unlinked,
         Known(db') = Known(db), freed \subseteq freed',
         \A u \in Txs : db'.rows[u] = db.rows[u] \/ (db.rows[u] <= 0 /\ db'.rows[u] <= 0),
         \A n \in Known(db) :
           \/ (db'.notes[n].spent <=> db.notes[n].spent) /\ db'.notes[n].by = db.notes[n].by
           \/ ~db'.notes[n].spent /\ (n \in freed' \/ ~db.notes[n].spent)
           \/ db'.notes[n].spent /\ db'.notes[n].by \in Txs /\ n \in Spends[db'.notes[n].by]
  PROVE  /\ LedgerFrame'
         /\ Below /\ Loose /\ Fresh /\ Cached => (Below /\ Loose /\ Fresh /\ Cached)'
<1> USE Heights
<1>1. Ids'
  BY SameEngine DEF LedgerFrame, Ids, BatchPcs
<1>2. Place'
  BY SameEngine DEF LedgerFrame, Place, BatchPcs
<1>3. OfChain'
  <2>1. eng.pc \in BatchPcs => \A i \in DOMAIN eng.batch : Still(i)' => Sound(eng.cur - 1)'
    <3>1. \A k : Sound(k)' <=> Sound(k)
      BY SameEngine
    <3>2. PICK k : k = eng.cur - 1 /\ k = eng'.cur - 1
      OBVIOUS
    <3>3. Sound(eng.cur - 1) => Sound(k)'
      BY <3>1, <3>2
    <3>4. Sound(eng.cur - 1) => Sound(eng.cur - 1)'
      BY <3>2, <3>3 DEF Sound
    <3> QED BY <3>4, SameEngine DEF LedgerFrame, OfChain
  <2> QED BY <2>1, SameEngine DEF LedgerFrame, OfChain, BatchPcs
<1>4. Marks'
  BY DEF LedgerFrame, Marks
<1>5. ChainOK(chain, branch)'
  BY DEF LedgerFrame
<1>6. \A u \in Txs : (db'.rows[u] > 0 <=> db.rows[u] > 0) /\ (db.rows[u] > 0 => db'.rows[u] = db.rows[u])
                      /\ db.rows[u] \in Int /\ db'.rows[u] \in Int
  <2>1. \A u \in Txs : db.rows[u] \in Int /\ db'.rows[u] \in Int
    BY Bounds DEF LedgerTypes, TableTypes, Unseen
  <2> QED BY <2>1
<1>7. ASSUME NEW t \in Txs, SeenIn(t),
             \A u \in Txs : db.rows[u] > 0 /\ t # u => Spends[t] \cap Spends[u] = {}
      PROVE  SeenIn(t)'
  <2> SUFFICES ASSUME NEW n \in Spends[t], n \in Known(db), n \notin freed' PROVE Settled(n, t)'
    BY DEF SeenIn
  <2>1. db.notes[n].spent /\ (db.notes[n].by = t \/ db.rows[db.notes[n].by] <= 0)
    BY <1>7 DEF SeenIn, Settled
  <2>2. db.notes[n].by \in Txs
    BY <2>1 DEF LedgerTypes, TableTypes, NoteRow
  <2>3. CASE (db'.notes[n].spent <=> db.notes[n].spent) /\ db'.notes[n].by = db.notes[n].by
    BY <1>6, <2>1, <2>2, <2>3 DEF Settled
  <2>4. CASE db'.notes[n].spent /\ db'.notes[n].by \in Txs /\ n \in Spends[db'.notes[n].by]
    BY <1>6, <1>7, <2>4 DEF Settled
  <2> QED BY <2>1, <2>3, <2>4
<1>8. ASSUME Below, Loose, Fresh, Cached PROVE (Below /\ Loose /\ Fresh /\ Cached)'
  <2>1. ASSUME NEW k \in 0..Base, Sound(k) PROVE Vouched(k)'
    <3>1. Vouched(k)
      BY <1>8, <2>1 DEF Below
    <3>2. \A h \in 1..k : \A t \in Txs : MinedIn(t, h)' => SeenIn(t)'
      BY <1>7, <3>1, SameEngine DEF Vouched
    <3>3. ASSUME NEW u \in Txs, db'.rows[u] > 0
          PROVE  /\ (db.rows[u] <= k => MinedIn(u, db.rows[u]))'
                 /\ \A i \in 1..k : MinedIn(u, i)' => db'.rows[u] = i
                 /\ \A i \in 1..k : \A t \in Txs : MinedIn(t, i)' /\ t # u => Spends[t] \cap Spends[u] = {}
      <4>1. PICK r : r = db.rows[u] /\ r = db'.rows[u]
        BY <1>6, <3>3
      <4>a. r > 0 /\ (r <= k => MinedIn(u, r))
        BY <1>6, <3>1, <3>3, <4>1 DEF Vouched
      <4>2. r <= k => MinedIn(u, r)'
        BY <4>a, SameEngine
      <4>3. r <= k => MinedIn(u, db.rows[u])'
        BY <4>1, <4>2 DEF MinedIn
      <4> QED BY <3>1, <3>3, <4>1, <4>3, SameEngine DEF Vouched
    <3> QED BY <3>2, <3>3 DEF Vouched
  <2>2. Below'
    BY <2>1, SameEngine DEF Below
  <2>3. Loose'
    <3>1. \A k \in 1..Base' : HashAt(db', k) = {} => k <= Tip'
      BY <1>8, SameEngine DEF Loose, Tip
    <3>2. ASSUME NEW u \in Txs, db'.rows[u] > Upper'
          PROVE  MinedIn(u, db.rows[u])'
      <4>1. PICK r \in Int : r = db'.rows[u]
        BY <1>6
      <4>2. CASE r > 0
        <5>1. r = db.rows[u]
          BY <1>6, <4>1, <4>2
        <5>2. MinedIn(u, r)
          BY <1>8, <3>2, <4>1, <5>1, SameEngine DEF Loose
        <5> QED BY <4>1, <5>2, SameEngine DEF MinedIn
      <4>3. CASE r <= 0
        BY <3>2, <4>1, <4>3, SameEngine
      <4> QED BY <4>1, <4>2, <4>3
    <3> QED BY <3>1, <3>2 DEF Loose
  <2>4. Fresh'
    <3> SUFFICES ASSUME eng.pc \in BatchPcs PROVE Fresh'
      BY DEF Fresh, BatchPcs
    <3>1. \A k \in 0..(eng'.cur - 1) : Sound(k)' =>
           \A h \in 1..k : \A u \in BatchTxs' : \A t \in Txs : MinedIn(t, h)' =>
             t # u /\ Spends[t] \cap (Spends[u] \cup Creates[u]) = {}
      BY <1>8, SameEngine DEF Fresh
    <3>2. \A u \in Txs : db'.rows[u] > 0 =>
           /\ \A t \in BatchTxs' : t # u => Spends[t] \cap Spends[u] = {}
           /\ \A i \in DOMAIN eng'.batch : u \in eng'.batch[i].txs => db'.rows[u] = eng'.cur + i - 1
           /\ db'.rows[u] \in eng'.cur..End' => u \in eng'.batch[db'.rows[u] + 1 - eng'.cur].txs
      BY <1>6, <1>8, SameEngine DEF Fresh
    <3>3. eng'.pc = "save" => \A t \in BatchTxs' : SeenIn(t)'
      <4> SUFFICES ASSUME eng.pc = "save", NEW t \in BatchTxs PROVE SeenIn(t)'
        BY SameEngine
      <4>1. t \in Txs
        BY BatchHeights DEF LedgerTypes
      <4>2. SeenIn(t) /\ \A u \in Txs : db.rows[u] > 0 /\ t # u => Spends[t] \cap Spends[u] = {}
        BY <1>8 DEF Fresh
      <4> QED BY <1>7, <4>1, <4>2
    <3> QED BY <3>1, <3>2, <3>3 DEF Fresh
  <2>5. Cached'
    BY <1>8 DEF Cached
  <2> QED BY <2>2, <2>3, <2>4, <2>5
<1> QED BY <1>1, <1>2, <1>3, <1>4, <1>5, <1>8 DEF LedgerFrame

LEMMA MarkSeen ==
  ASSUME LedgerTypes, LedgerTypes', LedgerFrame, RecordMark
  PROVE  /\ LedgerFrame'
         /\ Below /\ Loose /\ Fresh /\ Cached => (Below /\ Loose /\ Fresh /\ Cached)'
<1> DEFINE notes == [n \in Known(db) |->
                       IF n \in Spends[send.tx] THEN [db.notes[n] EXCEPT !.spent = TRUE, !.by = send.tx]
                       ELSE db.notes[n]]
<1>0. send.tx \in Txs /\ TableTypes(db)
  BY DEF LedgerTypes, SendTypes, RecordMark
<1>1. /\ db'.notes = notes /\ db'.rows = db.rows /\ db'.unlinked = db.unlinked
      /\ db'.local = db.local /\ db'.hashes = db.hashes
  <2>1. db' = [db EXCEPT !.notes = [n \in Known(db) |->
                 IF n \in Spends[send.tx] THEN [@[n] EXCEPT !.spent = TRUE, !.by = send.tx] ELSE @[n]]]
    BY DEF RecordMark
  <2>2. db' = [db EXCEPT !.notes = notes]
    BY <2>1, Zenon
  <2> HIDE DEF notes
  <2> QED BY <1>0, <2>2 DEF TableTypes
<1>2. Known(db') = Known(db)
  BY <1>1 DEF Known
<1>3. ASSUME NEW n \in Known(db)
      PROVE  \/ notes[n] = db.notes[n]
             \/ notes[n].spent /\ notes[n].by = send.tx /\ n \in Spends[send.tx]
  <2>0. db.notes[n] \in NoteRow
    BY <1>0 DEF TableTypes
  <2>1. CASE n \in Spends[send.tx]
    <3>1. notes[n] = [db.notes[n] EXCEPT !.spent = TRUE, !.by = send.tx]
      BY <2>1
    <3> HIDE DEF notes
    <3>2. notes[n].spent = TRUE /\ notes[n].by = send.tx
      BY <2>0, <3>1 DEF NoteRow
    <3> QED BY <2>1, <3>2
  <2> QED BY <2>1
<1> HIDE DEF notes
<1>4. \A n \in Known(db) :
           \/ (db'.notes[n].spent <=> db.notes[n].spent) /\ db'.notes[n].by = db.notes[n].by
           \/ db'.notes[n].spent /\ db'.notes[n].by \in Txs /\ n \in Spends[db'.notes[n].by]
  BY <1>0, <1>1, <1>3
<1>5. UNCHANGED <<chain, branch, eng, freed>>
  BY DEF RecordMark, world, history
<1> QED BY <1>1, <1>2, <1>4, <1>5, NotesFrame

LEMMA IntentSeen ==
  ASSUME LedgerTypes, LedgerTypes', LedgerFrame, RecordIntent
  PROVE  /\ LedgerFrame'
         /\ Below /\ Loose /\ Fresh /\ Cached => (Below /\ Loose /\ Fresh /\ Cached)'
<1> DEFINE intents == [u \in DOMAIN db.intents \cup {send.tx} |->
                         IF u = send.tx THEN signed[u].noted ELSE db.intents[u]]
           rows == [db.rows EXCEPT ![send.tx] = IF @ = Unseen THEN Pending ELSE @]
<1>0. send.tx \in Txs /\ TableTypes(db)
  BY DEF LedgerTypes, SendTypes, RecordIntent
<1>1. /\ db'.notes = db.notes /\ db'.rows = rows /\ db'.unlinked = db.unlinked
      /\ db'.local = db.local /\ db'.hashes = db.hashes
  <2>1. db' = [db EXCEPT !.intents = intents, !.rows = rows]
    BY <1>0 DEF RecordIntent, TableTypes
  <2> HIDE DEF intents, rows
  <2> QED BY <1>0, <2>1 DEF TableTypes
<1>2. \A t \in Txs : rows[t] = db.rows[t] \/ (db.rows[t] <= 0 /\ rows[t] <= 0)
  BY <1>0 DEF TableTypes, Unseen, Pending
<1> HIDE DEF intents, rows
<1>3. Known(db') = Known(db)
  BY <1>1 DEF Known
<1>4. UNCHANGED <<chain, branch, eng, freed>>
  BY DEF RecordIntent, world, history
<1> QED BY <1>1, <1>2, <1>3, <1>4, NotesFrame

LEMMA ReleaseSeen ==
  ASSUME LedgerTypes, LedgerTypes', LedgerFrame, ReleaseExpired
  PROVE  /\ LedgerFrame'
         /\ Below /\ Loose /\ Fresh /\ Cached => (Below /\ Loose /\ Fresh /\ Cached)'
<1> DEFINE gone == Expired(db)
           notes == ResetSpentBy(db.notes, gone)
           out == {n \in Known(db) : db.notes[n].spent /\ db.notes[n].by \in gone}
<1>0. TableTypes(db) /\ freed' = freed \cup out
  BY DEF LedgerTypes, ReleaseExpired
<1>1. /\ db'.notes = notes /\ db'.rows = db.rows /\ db'.unlinked = db.unlinked
      /\ db'.local = db.local /\ db'.hashes = db.hashes
  <2>1. db' = [db EXCEPT !.notes = notes]
    BY DEF ReleaseExpired
  <2> HIDE DEF notes
  <2> QED BY <1>0, <2>1 DEF TableTypes
<1>2. DOMAIN notes = Known(db)
      /\ \A n \in Known(db) : notes[n] = IF db.notes[n].by \in gone THEN FreshNote(db.notes[n].h)
                                        ELSE db.notes[n]
  BY DEF ResetSpentBy, Known
<1> HIDE DEF notes, gone
<1>3. Known(db') = Known(db)
  BY <1>1, <1>2 DEF Known
<1>4. \A n \in Known(db) :
           \/ (db'.notes[n].spent <=> db.notes[n].spent) /\ db'.notes[n].by = db.notes[n].by
           \/ ~db'.notes[n].spent /\ (n \in freed' \/ ~db.notes[n].spent)
  BY <1>0, <1>1, <1>2 DEF FreshNote
<1>5. UNCHANGED <<chain, branch, eng>> /\ freed \subseteq freed'
  BY <1>0 DEF ReleaseExpired, world
<1> QED BY <1>1, <1>3, <1>4, <1>5, NotesFrame

\* Steps that touch neither the tables nor the engine nor the chain.
LEMMA IdleSeen ==
  ASSUME LedgerTypes, LedgerTypes', LedgerFrame, UNCHANGED <<chain, branch, eng, db, freed>>
  PROVE  /\ LedgerFrame'
         /\ Below /\ Loose /\ Fresh /\ Cached => (Below /\ Loose /\ Fresh /\ Cached)'
<1>1. Known(db') = Known(db)
  OBVIOUS
<1> QED BY <1>1, NotesFrame

-----------------------------------------------------------------------------
(* A run begins or is rolled back.                                         *)

\* What a run loads is all it has to look for.
LEMMA LoadsAll ==
  ASSUME NEW d, TableTypes(d)
  PROVE  \A n \in Known(d) : d.notes[n].spent \/ n \in Reconcilable(d)
BY DEF TableTypes, Reconcilable, Locked

\* A run that begins where the wallet stands.
LEMMA BeginSeen ==
  ASSUME LedgerTypes, LedgerTypes', LedgerFrame, eng.pc = "idle",
         UNCHANGED <<chain, branch, db, freed>>, eng' = Running(db, db.local + 1)
  PROVE  /\ LedgerFrame'
         /\ Below /\ Loose => (Below /\ Loose /\ Fresh /\ Cached)'
<1> USE Heights
<1>0. /\ eng'.pc = "main" /\ eng'.cur = db.local + 1 /\ eng'.prev = NoBlock
      /\ eng'.cache = Reconcilable(db)
  BY DEF Running, EnsureNullifierCache
<1>1. /\ Base' = db.local /\ ~Writing' /\ Base = db.local /\ ~Writing
      /\ Upper' = db.local /\ Upper = db.local
  BY <1>0 DEF Base, Reach, Upper, Writing
<1>2. Ids'
  <2>1. \A b \in db'.hashes : b[2] <= branch' /\ (b[2] = branch' => OnChain(b)')
    BY <1>1, SameWorld DEF LedgerFrame, Ids
  <2> QED BY <1>0, <2>1 DEF LedgerFrame, Ids, BatchPcs
<1>3. Place' /\ OfChain' /\ Fresh'
  BY <1>0 DEF Place, OfChain, Fresh, BatchPcs, Writing
<1>4. Marks' /\ ChainOK(chain, branch)'
  <2>1. Marks'
    BY DEF LedgerFrame, Marks, Known
  <2>2. ChainOK(chain, branch)'
    BY DEF LedgerFrame
  <2> QED BY <2>1, <2>2
<1>5. Cached'
  <2>1. TableTypes(db)
    BY DEF LedgerTypes
  <2>2. \A n \in Known(db) : db.notes[n].spent \/ n \in Reconcilable(db)
    BY <2>1, LoadsAll
  <2> QED BY <1>0, <2>2 DEF Cached, Known
<1>6. ASSUME Below, Loose PROVE Below' /\ Loose'
  <2>1. \A k : Sound(k)' <=> Sound(k)
    BY SameWorld DEF Sound, HashAt
  <2>2. Below'
    BY <1>1, <1>6, <2>1, SameVouched DEF Below
  <2>3. Loose'
    BY <1>1, <1>6, SameWorld DEF Loose, HashAt
  <2> QED BY <2>2, <2>3
<1> QED BY <1>2, <1>3, <1>4, <1>5, <1>6 DEF LedgerFrame

LEMMA RewindSeen ==
  ASSUME LedgerTypes, LedgerTypes', LedgerFrame, UNCHANGED <<chain, branch, freed>>,
         \E h \in 0..Reach(db, eng) : \E c \in 0..h : \E cur \in {h + 1, c + 1} : RewindTo(h, c, cur)
  PROVE  /\ LedgerFrame'
         /\ Below /\ Loose /\ ~LeftBehind(db', eng') => (Below /\ Loose /\ Fresh)'
<1> USE Heights
<1>a. PICK h \in 0..Base : \E c \in 0..h : \E cur \in {h + 1, c + 1} : RewindTo(h, c, cur)
  BY DEF Base
<1>b. PICK c \in 0..h : \E cur \in {h + 1, c + 1} : RewindTo(h, c, cur)
  BY <1>a
<1>1. PICK cur \in {h + 1, c + 1} : RewindTo(h, c, cur)
  BY <1>b
<1>2. db' = Truncate(db, h, c) /\ eng.pc \in {"idle", "main"}
  BY <1>1 DEF RewindTo
<1>3. /\ eng'.pc = "main" /\ eng'.cur = cur
      /\ eng'.prev = NoBlock \/ (eng.pc = "main" /\ h < eng.cur - 1 /\ eng'.prev = eng.prev)
  <2>1. CASE eng' = Running(db', cur)
    BY <2>1 DEF Running
  <2>2. CASE eng' # Running(db', cur)
    <3>1. PICK prev \in {NoBlock, eng.prev} :
            /\ eng.pc = "main" /\ (prev = NoBlock \/ h < eng.cur - 1)
            /\ eng' = [eng EXCEPT !.pc = "main", !.cur = cur, !.prev = prev, !.batch = <<>>,
                                  !.cache = {}, !.tracked = {}]
      BY <1>1, <2>2 DEF RewindTo
    <3>2. eng'.pc = "main" /\ eng'.cur = cur /\ eng'.prev = prev
      BY <3>1 DEF LedgerTypes, EngineTypes
    <3> QED BY <3>1, <3>2
  <2> QED BY <2>1, <2>2
<1> QED BY <1>1, <1>2, <1>3, RewindFrame

LEMMA StartSeen ==
  ASSUME LedgerTypes, LedgerTypes', LedgerFrame, StartRun \/ Rescan
  PROVE  /\ LedgerFrame' /\ (stale => stale')
         /\ ~stale' /\ Below /\ Loose => (Below /\ Loose /\ Fresh /\ Cached)'
<1>0. /\ eng.pc = "idle" /\ UNCHANGED <<chain, branch, freed>> /\ TableTypes(db')
      /\ stale' = (stale \/ LeftBehind(db', eng'))
  BY DEF StartRun, Rescan, world, history, LedgerTypes
<1>1. Cached'
  <2>1. PICK cur : eng' = Running(db', cur)
    BY DEF StartRun, Rescan, GoesOn
  <2>2. eng'.cache = Reconcilable(db')
    BY <2>1 DEF Running, EnsureNullifierCache
  <2> QED BY <1>0, <2>2, LoadsAll DEF Cached
<1>2. CASE \E h \in 0..Reach(db, eng) : \E c \in 0..h : \E cur \in {h + 1, c + 1} : RewindTo(h, c, cur)
  BY <1>0, <1>1, <1>2, RewindSeen
<1>3. CASE db' = db /\ eng' = Running(db, db.local + 1)
  BY <1>0, <1>3, BeginSeen
<1> QED BY <1>2, <1>3, StartIs, RewindIs

LEMMA RollbackSeen ==
  ASSUME LedgerTypes, LedgerTypes', LedgerFrame, Repair \/ BoundaryReorg \/ MonitorReorg
  PROVE  /\ LedgerFrame' /\ (blind => blind') /\ (stale => stale')
         /\ ~blind' /\ ~stale' /\ Below /\ Loose => (Below /\ Loose /\ Fresh /\ Cached)'
<1>0. /\ UNCHANGED <<chain, branch, freed>>
      /\ blind' = (blind \/ Reconcilable(db') # {}) /\ stale' = (stale \/ LeftBehind(db', eng'))
  BY DEF Repair, BoundaryReorg, MonitorReorg, Rollback, world
<1>1. /\ LedgerFrame'
      /\ Below /\ Loose /\ ~LeftBehind(db', eng') => (Below /\ Loose /\ Fresh)'
  BY <1>0, RewindIs, RewindSeen
<1>2. ~blind' => Cached'
  <2>1. \A n \in Known(db') : db'.notes[n].spent \/ n \in Reconcilable(db')
    BY LoadsAll DEF LedgerTypes
  <2> QED BY <1>0, <2>1 DEF Cached
<1> QED BY <1>0, <1>1, <1>2

-----------------------------------------------------------------------------
(* A batch is fetched,                                                     *)

LEMMA FetchIs ==
  ASSUME LedgerTypes, LedgerFrame, Fetch
  PROVE  \E e \in Int :
           /\ eng.pc = "main" /\ eng'.pc = "notes" /\ eng'.cur = eng.cur /\ eng'.cache = eng.cache
           /\ eng.cur <= e /\ e <= Len(chain) /\ db.local <= eng.cur - 1
           /\ eng'.prev = <<e, chain[e].branch>>
           /\ DOMAIN eng'.batch = 1..(e - eng.cur + 1) /\ Len(eng'.batch) = e - eng.cur + 1
           /\ \A i \in 1..(e - eng.cur + 1) : eng'.batch[i] = chain[eng.cur + i - 1]
           /\ UNCHANGED <<chain, branch, db, freed>>
<1> USE Bounds
<1>0. eng.cur \in Nat /\ eng.cur >= 1 /\ chain \in Seq(Blocks) /\ Len(chain) \in Nat
      /\ eng.pc = "main" /\ db.local <= eng.cur - 1
  BY DEF LedgerTypes, EngineTypes, Fetch, LedgerFrame, Place
<1>1. PICK e \in eng.cur..Min({Tip, eng.cur + MaxBatch - 1}) :
        eng' = [eng EXCEPT !.pc = "notes", !.batch = SubSeq(chain, eng.cur, e), !.prev = BlockId(e)]
  BY DEF Fetch
<1>2. e \in Int /\ eng.cur <= e /\ e <= Len(chain)
  <2>1. Tip \in Int /\ eng.cur + MaxBatch - 1 \in Int
    BY <1>0 DEF Tip
  <2>2. Min({Tip, eng.cur + MaxBatch - 1}) <= Tip /\ Min({Tip, eng.cur + MaxBatch - 1}) \in Int
    BY <2>1, MinOfTwo
  <2> QED BY <1>0, <1>1, <2>2 DEF Tip
<1> DEFINE b == SubSeq(chain, eng.cur, e)
<1>3. b \in Seq(Blocks) /\ Len(b) = e - eng.cur + 1
      /\ \A i \in 1..(e - eng.cur + 1) : b[i] = chain[eng.cur + i - 1]
  BY <1>0, <1>2, SubSeqProperties
<1>4. eng' = [eng EXCEPT !.pc = "notes", !.batch = b, !.prev = BlockId(e)]
  BY <1>1
<1>5. DOMAIN b = 1..Len(b)
  BY <1>3
<1> HIDE DEF b
<1>6. eng'.pc = "notes" /\ eng'.cur = eng.cur /\ eng'.batch = b
      /\ eng'.cache = eng.cache /\ eng'.prev = BlockId(e)
  BY <1>4 DEF LedgerTypes, EngineTypes
<1>7. UNCHANGED <<chain, branch, db, freed>>
  BY DEF Fetch, world, history
<1> QED BY <1>0, <1>2, <1>3, <1>5, <1>6, <1>7 DEF BlockId

\* The parent check vouches for the block below the next one.
LEMMA ParentSound ==
  ASSUME LedgerTypes, LedgerFrame, eng.pc = "main", ParentKnown, eng.cur <= Len(chain)
  PROVE  Sound(eng.cur - 1)
<1> USE Heights
<1>1. CASE eng.cur = 1
  <2>1. \A b \in db.hashes : b[1] # 0
    OBVIOUS
  <2> QED BY <1>1, <2>1 DEF Sound, HashAt
<1>2. CASE eng.cur # 1 /\ eng.prev # NoBlock
  <2> SUFFICES ASSUME NEW b \in HashAt(db, eng.cur - 1) PROVE OnChain(b)
    BY DEF Sound
  <2>1. BlockId(eng.cur - 1) = eng.prev
    BY <1>2 DEF ParentKnown
  <2>2. eng.prev[1] = eng.cur - 1
    BY <2>1 DEF BlockId
  <2>3. eng.prev \in db.hashes
    BY <1>2, <2>2 DEF LedgerFrame, Place
  <2>4. b = eng.prev /\ b[1] = eng.cur - 1
    BY <2>2, <2>3 DEF HashAt, LedgerFrame, Ids
  <2> QED BY <2>1, <2>4 DEF OnChain, Tip
<1>3. CASE eng.cur # 1 /\ eng.prev = NoBlock
  BY <1>3 DEF ParentKnown, Sound
<1> QED BY <1>1, <1>2, <1>3

LEMMA FetchSeen ==
  ASSUME LedgerTypes, LedgerTypes', LedgerFrame, Fetch
  PROVE  /\ LedgerFrame'
         /\ Below /\ Loose /\ Cached => (Below /\ Loose /\ Fresh /\ Cached)'
<1>h. /\ Base \in Int /\ Base >= 0 /\ db.local \in Int /\ db.local >= 0 /\ eng.cur \in Int /\ eng.cur >= 1
      /\ Len(chain) \in Int /\ branch \in Int
  BY Heights
<1>r. \A u \in Txs : db.rows[u] \in Int
  BY Heights
<1>a. PICK e \in Int :
           /\ eng.pc = "main" /\ eng'.pc = "notes" /\ eng'.cur = eng.cur /\ eng'.cache = eng.cache
           /\ eng.cur <= e /\ e <= Len(chain) /\ db.local <= eng.cur - 1
           /\ eng'.prev = <<e, chain[e].branch>>
           /\ DOMAIN eng'.batch = 1..(e - eng.cur + 1) /\ Len(eng'.batch) = e - eng.cur + 1
           /\ \A i \in 1..(e - eng.cur + 1) : eng'.batch[i] = chain[eng.cur + i - 1]
           /\ UNCHANGED <<chain, branch, db, freed>>
  BY FetchIs
<1>b. PICK c \in Int, m \in Int, L \in Int :
         c = eng.cur /\ m = e - c + 1 /\ L = Len(chain) /\ c >= 1 /\ m >= 1 /\ db.local <= c - 1
  <2>1. e - eng.cur + 1 \in Int /\ e - eng.cur + 1 >= 1
    BY <1>a, <1>h
  <2> QED BY <1>a, <1>h, <2>1
<1>c. c \in Int /\ m \in Int /\ L \in Int /\ c >= 1 /\ m >= 1 /\ e \in Int
  BY <1>b, <1>h
<1>0. /\ eng'.pc = "notes" /\ eng'.cur = c /\ eng'.cache = eng.cache /\ eng.pc = "main"
      /\ c + m - 1 = e /\ c <= e /\ e <= L
      /\ DOMAIN eng'.batch = 1..m /\ Len(eng'.batch) = m
      /\ \A i \in 1..m : eng'.batch[i] = chain[c + i - 1] /\ c + i - 1 \in 1..L /\ c + i - 1 >= c
  <2>1. \A i \in 1..m : c + i - 1 \in 1..L /\ c + i - 1 >= c
    <3>1. e <= L /\ m = e - c + 1
      BY <1>a, <1>b
    <3> QED BY <1>c, <3>1
  <2>2. c + m - 1 = e /\ c <= e /\ e <= L /\ e - eng.cur + 1 = m
    BY <1>a, <1>b, <1>c
  <2> QED BY <1>a, <1>b, <2>1, <2>2
<1>1. /\ End' = e /\ ~Writing /\ ~Writing' /\ Base = c - 1 /\ Base' = c - 1
      /\ Upper = c - 1 /\ Upper' = c - 1
  BY <1>a, <1>b, <1>c, <1>0 DEF End, Writing, Base, Reach, Upper
<1>2. Sound(c - 1)
  BY <1>a, <1>b, ParentSound DEF Fetch, Tip
<1>3. /\ \A k : Sound(k)' <=> Sound(k)
      /\ \A b : OnChain(b)' <=> OnChain(b)
      /\ \A t, k : MinedIn(t, k)' <=> MinedIn(t, k)
  <2>1. \A b : OnChain(b)' <=> OnChain(b)
    BY <1>a, SameWorld
  <2> QED BY <1>a, <2>1, SameWorld DEF Sound, HashAt
<1>4. ASSUME NEW i \in 1..m PROVE Still(i)' /\ eng'.batch[i].branch <= branch
  <2>1. PICK h \in 1..L : h = c + i - 1 /\ eng'.batch[i] = chain[h] /\ h = eng'.cur + i - 1
    BY <1>0
  <2>2. chain[h].branch <= branch
    BY <1>b, <1>c, <2>1 DEF LedgerFrame, ChainOK
  <2>3. h <= Len(chain') /\ chain'[h].branch = eng'.batch[i].branch
    BY <1>a, <1>b, <1>c, <2>1
  <2> QED BY <2>1, <2>2, <2>3 DEF Still, OnAt
<1>5. Ids'
  <2>1. \A b \in db'.hashes : b[2] <= branch' /\ (b[2] = branch' => OnChain(b)')
    BY <1>a, <1>1, <1>3 DEF LedgerFrame, Ids
  <2>2. \A b, d \in db'.hashes : b[1] = d[1] => b = d
    BY <1>a DEF LedgerFrame, Ids
  <2>3. \A i \in DOMAIN eng'.batch :
         eng'.batch[i].branch <= branch' /\ (eng'.batch[i].branch = branch' => Still(i)')
    BY <1>a, <1>0, <1>4
  <2> QED BY <2>1, <2>2, <2>3 DEF Ids
<1>6. Place'
  <2>1. eng'.batch # <<>>
    <3>1. Len(eng'.batch) = m /\ m # 0
      BY <1>c, <1>0
    <3>2. Len(<<>>) = 0
      OBVIOUS
    <3> QED BY <3>1, <3>2
  <2>2. eng'.batch[Len(eng'.batch)] = chain[e]
    <3>1. m \in 1..m /\ c + m - 1 = e /\ Len(eng'.batch) = m
      BY <1>c, <1>0
    <3>2. eng'.batch[m] = chain[c + m - 1]
      BY <1>0, <3>1
    <3> QED BY <3>1, <3>2
  <2>3. eng'.prev = <<End', eng'.batch[Len(eng'.batch)].branch>>
    BY <1>a, <1>1, <2>2
  <2>4. db'.local <= eng'.cur - 1
    BY <1>a
  <2> QED BY <1>0, <1>1, <2>1, <2>3, <2>4 DEF Place
<1>7. \A t \in BatchTxs' : \E h \in 1..L : h >= c /\ t \in chain[h].txs
  BY <1>0 DEF BatchTxs
<1>8. OfChain'
  <2>1. ASSUME NEW i \in 1..m, NEW j \in 1..m, NEW t \in eng'.batch[i].txs, t \in eng'.batch[j].txs
        PROVE  i = j
    <3>1. c + i - 1 \in 1..L /\ c + j - 1 \in 1..L /\ t \in chain[c + i - 1].txs /\ t \in chain[c + j - 1].txs
      BY <1>0, <2>1
    <3>2. c + i - 1 = c + j - 1
      BY <1>b, <1>c, <3>1 DEF LedgerFrame, ChainOK
    <3> QED BY <1>b, <1>c, <3>2
  <2>2. \A t, u \in BatchTxs' : t # u => Spends[t] \cap Spends[u] = {}
    BY <1>b, <1>c, <1>7 DEF LedgerFrame, ChainOK
  <2>3. Sound(eng.cur - 1)'
    <3>1. PICK k : k = c - 1 /\ k = eng'.cur - 1
      BY <1>0
    <3>2. Sound(k)'
      BY <1>2, <1>3, <3>1
    <3> QED BY <3>1, <3>2 DEF Sound
  <2>4. \A i \in 1..m : chain'[eng'.cur + i - 1] = eng'.batch[i]
    BY <1>a, <1>0
  <2>5. \A i \in 1..m : \A j \in 1..i : chain'[eng'.cur + j - 1] = eng'.batch[j]
    <3>1. \A i \in 1..m : \A j \in 1..i : j \in 1..m
      BY <1>c
    <3> QED BY <2>4, <3>1
  <2> QED BY <1>0, <2>1, <2>2, <2>3, <2>5 DEF OfChain
<1>9. Marks' /\ ChainOK(chain, branch)'
  <2>1. Marks'
    BY <1>a DEF LedgerFrame, Marks, Known
  <2>2. ChainOK(chain, branch)'
    BY <1>a DEF LedgerFrame
  <2> QED BY <2>1, <2>2
<1>10. ASSUME Below, Loose, Cached PROVE (Below /\ Loose /\ Fresh /\ Cached)'
  <2>1. Below'
    BY <1>a, <1>1, <1>3, <1>10, SameVouched DEF Below
  <2>2. Loose'
    BY <1>a, <1>1, <1>3, <1>10, SameWorld DEF Loose, HashAt
  <2>3. Cached'
    BY <1>a, <1>10 DEF Cached, Known
  <2>4. ASSUME NEW h \in Int, 1 <= h, h < c, NEW u \in BatchTxs', NEW t \in Txs, MinedIn(t, h)
        PROVE  t # u /\ Spends[t] \cap (Spends[u] \cup Creates[u]) = {}
    <3>1. PICK g \in 1..L : g >= c /\ u \in chain[g].txs
      BY <1>7
    <3>2. h \in 1..L /\ t \in chain[h].txs /\ h # g
      BY <1>b, <1>c, <2>4, <3>1 DEF MinedIn, Tip
    <3>3. t # u
      BY <1>b, <1>c, <3>1, <3>2 DEF LedgerFrame, ChainOK
    <3>4. Spends[t] \cap Spends[u] = {}
      BY <1>b, <1>c, <3>1, <3>2, <3>3 DEF LedgerFrame, ChainOK
    <3>5. ASSUME NEW n \in Spends[t], n \in Creates[u] PROVE FALSE
      <4>1. PICK k \in 1..(h - 1) : \E v \in chain[k].txs : n \in Creates[v]
        BY <1>b, <1>c, <3>2, <3>5 DEF LedgerFrame, ChainOK
      <4>2. PICK v \in chain[k].txs : n \in Creates[v]
        BY <4>1
      <4>3. k \in 1..L /\ k # g
        BY <1>b, <1>c, <3>1, <3>2, <2>4
      <4>4. v # u
        BY <1>b, <1>c, <3>1, <4>2, <4>3 DEF LedgerFrame, ChainOK
      <4>5. v \in Txs /\ u \in Txs
        <5>1. chain[k] \in Blocks /\ chain[g] \in Blocks
          BY <1>b, <1>c, <3>1, <4>3, ElementOfSeq DEF LedgerTypes
        <5> QED BY <3>1, <4>2, <5>1 DEF Blocks
      <4> QED BY <3>5, <4>2, <4>4, <4>5, LedgerSetsAssumption
    <3> QED BY <3>3, <3>4, <3>5
  <2>5. ASSUME NEW u \in Txs, db.rows[u] > 0
        PROVE  db.rows[u] \in 1..L /\ u \in chain[db.rows[u]].txs
    <3>1. Vouched(c - 1)
      <4>1. c - 1 \in 0..Base
        BY <1>c, <1>1
      <4> QED BY <1>2, <1>10, <4>1 DEF Below
    <3>2. MinedIn(u, db.rows[u])
      <4>1. CASE db.rows[u] <= c - 1
        BY <2>5, <3>1, <4>1 DEF Vouched
      <4>2. CASE db.rows[u] > c - 1
        BY <1>1, <1>10, <4>2 DEF Loose
      <4> QED BY <1>c, <1>r, <4>1, <4>2
    <3> QED BY <1>b, <1>c, <3>2 DEF MinedIn, Tip
  <2>6. ASSUME NEW u \in Txs, db.rows[u] > 0
        PROVE  /\ \A t \in BatchTxs' : t # u => Spends[t] \cap Spends[u] = {}
               /\ \A i \in DOMAIN eng'.batch : u \in eng'.batch[i].txs => db.rows[u] = c + i - 1
               /\ db.rows[u] \in c..e => u \in eng'.batch[db.rows[u] + 1 - c].txs
    <3>0. PICK r \in 1..L : r = db.rows[u] /\ u \in chain[r].txs
      BY <2>5, <2>6
    <3>1. \A t \in BatchTxs' : t # u => Spends[t] \cap Spends[u] = {}
      BY <1>b, <1>c, <1>7, <3>0 DEF LedgerFrame, ChainOK
    <3>2. ASSUME NEW i \in 1..m, u \in eng'.batch[i].txs PROVE r = c + i - 1
      <4>1. c + i - 1 \in 1..L /\ u \in chain[c + i - 1].txs
        BY <1>0, <3>2
      <4> QED BY <1>b, <1>c, <3>0, <4>1 DEF LedgerFrame, ChainOK
    <3>3. ASSUME r \in c..e PROVE u \in eng'.batch[r + 1 - c].txs
      <4>1. PICK i \in Int : i = r + 1 - c
        BY <1>b, <1>c
      <4>2. i \in 1..m /\ c + i - 1 = r
        <5>1. r \in Int /\ c <= r /\ r <= e /\ c + m - 1 = e
          BY <1>c, <1>0, <3>3
        <5> QED BY <1>c, <4>1, <5>1
      <4> QED BY <1>0, <3>0, <4>1, <4>2
    <3> QED BY <1>0, <3>0, <3>1, <3>2, <3>3
  <2>7. Fresh'
    <3>1. \A k \in 0..(eng'.cur - 1) : Sound(k)' =>
           \A h \in 1..k : \A u \in BatchTxs' : \A t \in Txs : MinedIn(t, h)' =>
             t # u /\ Spends[t] \cap (Spends[u] \cup Creates[u]) = {}
      <4>1. \A k \in 0..(c - 1) : \A h \in 1..k : h \in Int /\ 1 <= h /\ h < c
        BY <1>c
      <4> QED BY <1>0, <1>3, <2>4, <4>1
    <3>2. \A u \in Txs : db'.rows[u] > 0 =>
           /\ \A t \in BatchTxs' : t # u => Spends[t] \cap Spends[u] = {}
           /\ \A i \in DOMAIN eng'.batch : u \in eng'.batch[i].txs => db'.rows[u] = eng'.cur + i - 1
           /\ db'.rows[u] \in eng'.cur..End' => u \in eng'.batch[db'.rows[u] + 1 - eng'.cur].txs
      <4>1. db' = db /\ eng'.cur = c /\ End' = e
        BY <1>a, <1>0, <1>1
      <4> QED BY <2>6, <4>1
    <3> QED BY <1>0, <3>1, <3>2 DEF Fresh
  <2> QED BY <2>1, <2>2, <2>3, <2>7
<1> QED BY <1>5, <1>6, <1>8, <1>9, <1>10 DEF LedgerFrame

-----------------------------------------------------------------------------
(* its notes written,                                                      *)

\* The height of a transaction of the batch.
LEMMA HeightIs ==
  ASSUME LedgerTypes, LedgerFrame, eng.pc \in BatchPcs
  PROVE  /\ \A i \in DOMAIN eng.batch : \A t \in eng.batch[i].txs : HeightOf(t) = eng.cur + i - 1
         /\ \A t \in BatchTxs : \E i \in DOMAIN eng.batch :
              t \in eng.batch[i].txs /\ HeightOf(t) = eng.cur + i - 1
         /\ \A t \in BatchTxs : HeightOf(t) \in eng.cur..End
<1>0. /\ eng.cur \in Int /\ eng.cur >= 1 /\ DOMAIN eng.batch = 1..Len(eng.batch)
      /\ Len(eng.batch) \in Int /\ End = eng.cur + Len(eng.batch) - 1
  BY Heights
<1>1. ASSUME NEW i \in DOMAIN eng.batch, NEW t \in eng.batch[i].txs PROVE HeightOf(t) = eng.cur + i - 1
  <2> DEFINE j == CHOOSE j \in DOMAIN eng.batch : t \in eng.batch[j].txs
  <2>1. j \in DOMAIN eng.batch /\ t \in eng.batch[j].txs
    BY <1>1
  <2>2. HeightOf(t) = eng.cur - 1 + j
    BY DEF HeightOf
  <2> HIDE DEF j
  <2>3. i = j
    BY <1>1, <2>1 DEF LedgerFrame, OfChain
  <2> QED BY <1>0, <2>2, <2>3
<1>2. ASSUME NEW t \in BatchTxs
      PROVE  \E i \in DOMAIN eng.batch : t \in eng.batch[i].txs /\ HeightOf(t) = eng.cur + i - 1
  BY <1>1 DEF BatchTxs
<1>3. ASSUME NEW t \in BatchTxs PROVE HeightOf(t) \in eng.cur..End
  <2>1. PICK i \in DOMAIN eng.batch : HeightOf(t) = eng.cur + i - 1
    BY <1>2
  <2> QED BY <1>0, <2>1
<1> QED BY <1>1, <1>2, <1>3

LEMMA PersistIs ==
  ASSUME LedgerTypes, LedgerFrame, Persist
  PROVE  /\ eng.pc = "notes" /\ eng'.pc = "spends" /\ eng'.cur = eng.cur /\ eng'.batch = eng.batch
         /\ eng'.prev = eng.prev
         /\ eng'.cache = (eng.cache \ BatchNotes) \cup {n \in BatchNotes : ~db'.notes[n].spent}
         /\ Known(db') = Known(db) \cup BatchNotes
         /\ \A t \in Txs : db'.rows[t] = IF t \in Paying THEN HeightOf(t) ELSE db.rows[t]
         /\ db'.unlinked \subseteq db.unlinked /\ db'.hashes = db.hashes
         /\ db'.local <= End /\ (BatchNotes = {} => db'.local <= eng.cur - 1)
         /\ \A n \in Known(db) \ BatchNotes : db'.notes[n] = db.notes[n]
         /\ \A n \in BatchNotes :
              \/ \E u \in db.unlinked : u[1] = n /\ db'.notes[n].by = u[2]
              \/ n \in Known(db) /\ (db'.notes[n].spent <=> db.notes[n].spent)
                                 /\ db'.notes[n].by = db.notes[n].by
              \/ ~db'.notes[n].spent
         /\ UNCHANGED <<chain, branch, freed>>
<1> DEFINE notes == [n \in Known(db) \cup BatchNotes |->
                       IF n \in BatchNotes THEN Persisted(db, n) ELSE db.notes[n]]
           rows == [t \in Txs |-> IF t \in Paying THEN HeightOf(t) ELSE db.rows[t]]
           unlinked == {u \in db.unlinked : u[1] \notin BatchNotes}
           local == IF BatchNotes = {} THEN db.local ELSE Max({NoteHeight(n) : n \in BatchNotes})
           left == (eng.cache \ BatchNotes) \cup {n \in BatchNotes : ~db'.notes[n].spent}
           more == eng.tracked \cup Paying
<1>0. /\ eng.pc = "notes" /\ eng.pc \in BatchPcs /\ TableTypes(db) /\ db.local <= eng.cur - 1
      /\ eng.batch # <<>> /\ EngineTypes(eng)
  BY DEF Persist, BatchPcs, LedgerTypes, LedgerFrame, Place
<1>1. /\ eng.cur \in Int /\ eng.cur >= 1 /\ End \in Int /\ End >= eng.cur - 1 /\ db.local \in Int
      /\ ChainTop \in Int
  BY Heights
<1>2. /\ db'.notes = notes /\ db'.rows = rows /\ db'.unlinked = unlinked /\ db'.local = local
      /\ db'.hashes = db.hashes
  <2>1. db' = [db EXCEPT !.notes = notes, !.rows = rows, !.unlinked = unlinked, !.local = local]
    BY DEF Persist, PersistNotes
  <2> HIDE DEF notes, rows, unlinked, local
  <2> QED BY <1>0, <2>1 DEF TableTypes
<1>3. /\ eng'.pc = "spends" /\ eng'.cur = eng.cur /\ eng'.batch = eng.batch /\ eng'.prev = eng.prev
      /\ eng'.cache = left
  <2>1. eng' = [eng EXCEPT !.pc = "spends", !.tracked = more, !.cache = left]
    BY DEF Persist
  <2> HIDE DEF left, more
  <2> QED BY <1>0, <2>1 DEF EngineTypes
<1>4. Known(db') = Known(db) \cup BatchNotes
      /\ \A n \in Known(db') : db'.notes[n] = IF n \in BatchNotes THEN Persisted(db, n) ELSE db.notes[n]
  BY <1>2 DEF Known
<1>5. ASSUME NEW n \in BatchNotes PROVE NoteHeight(n) \in eng.cur..End
  <2> DEFINE T == {HeightOf(t) : t \in {u \in Paying : n \in Creates[u]}}
  <2>1. T # {}
    BY DEF BatchNotes
  <2>2. T \in SUBSET (eng.cur..End)
    BY <1>0, HeightIs DEF Paying
  <2>3. Max(T) \in T
    BY <1>1, <2>1, <2>2, MaxOfBounded
  <2> QED BY <2>2, <2>3 DEF NoteHeight
<1>6. local <= End /\ (BatchNotes = {} => local <= eng.cur - 1)
  <2>1. CASE BatchNotes = {}
    BY <1>0, <1>1, <2>1
  <2>2. CASE BatchNotes # {}
    <3> DEFINE T == {NoteHeight(n) : n \in BatchNotes}
    <3>1. T # {} /\ T \in SUBSET (eng.cur..End)
      BY <1>5, <2>2
    <3>2. Max(T) \in T
      BY <1>1, <3>1, MaxOfBounded
    <3>3. Max(T) \in eng.cur..End /\ local = Max(T)
      BY <2>2, <3>1, <3>2
    <3> HIDE DEF T, local
    <3> QED BY <1>1, <2>2, <3>3
  <2> QED BY <2>1, <2>2
<1>7. ASSUME NEW n \in BatchNotes
      PROVE  LET r == Persisted(db, n)
             IN \/ \E u \in db.unlinked : u[1] = n /\ r.by = u[2]
                \/ n \in Known(db) /\ (r.spent <=> db.notes[n].spent) /\ r.by = db.notes[n].by
                \/ ~r.spent
  <2> DEFINE by == UnlinkedSpender(db, n)
             t == CHOOSE t \in by : TRUE
             r == Persisted(db, n)
  <2>1. CASE by # {}
    <3>1. t \in by
      BY <2>1
    <3>2. \E u \in db.unlinked : u[1] = n /\ t = u[2]
      BY <3>1 DEF UnlinkedSpender
    <3>3. r = [h |-> NoteHeight(n), spent |-> TRUE, by |-> t]
      BY <2>1 DEF Persisted
    <3> HIDE DEF by, t
    <3> QED BY <3>2, <3>3
  <2>2. CASE by = {} /\ n \in Known(db)
    <3>1. r = [db.notes[n] EXCEPT !.h = NoteHeight(n)]
      BY <2>2 DEF Persisted
    <3>2. db.notes[n] \in NoteRow
      BY <1>0, <2>2 DEF TableTypes
    <3>3. r.spent = db.notes[n].spent /\ r.by = db.notes[n].by
      BY <3>1, <3>2 DEF NoteRow
    <3> HIDE DEF r, by
    <3> QED BY <2>2, <3>3 DEF r
  <2>3. CASE by = {} /\ n \notin Known(db)
    <3>1. r = [FreshNote(0) EXCEPT !.h = NoteHeight(n)]
      BY <2>3 DEF Persisted
    <3>2. r = FreshNote(NoteHeight(n))
      BY <3>1 DEF FreshNote
    <3>3. r.spent = FALSE
      BY <3>2 DEF FreshNote
    <3> HIDE DEF r, by
    <3> QED BY <3>3 DEF r
  <2> QED BY <2>1, <2>2, <2>3
<1>8. UNCHANGED <<chain, branch, freed>>
  BY DEF Persist, world, history
<1>9. \A t \in Txs : rows[t] = IF t \in Paying THEN HeightOf(t) ELSE db.rows[t]
  OBVIOUS
<1>10. unlinked \subseteq db.unlinked
  OBVIOUS
<1> HIDE DEF notes, rows, unlinked, local
<1> QED BY <1>0, <1>2, <1>3, <1>4, <1>6, <1>7, <1>8, <1>9, <1>10

LEMMA PersistSeen ==
  ASSUME LedgerTypes, LedgerTypes', LedgerFrame, Persist
  PROVE  /\ LedgerFrame'
         /\ Below /\ Loose /\ Fresh /\ Cached => (Below /\ Loose /\ Fresh /\ Cached)'
<1>0. /\ eng.pc = "notes" /\ eng'.pc = "spends" /\ eng'.cur = eng.cur /\ eng'.batch = eng.batch
      /\ eng'.prev = eng.prev
      /\ eng'.cache = (eng.cache \ BatchNotes) \cup {n \in BatchNotes : ~db'.notes[n].spent}
      /\ UNCHANGED <<chain, branch, freed>> /\ db'.hashes = db.hashes
      /\ db'.local <= End /\ (BatchNotes = {} => db'.local <= eng.cur - 1)
  BY PersistIs
<1>1. /\ Known(db') = Known(db) \cup BatchNotes
      /\ \A t \in Txs : db'.rows[t] = IF t \in Paying THEN HeightOf(t) ELSE db.rows[t]
      /\ db'.unlinked \subseteq db.unlinked
      /\ \A n \in Known(db) \ BatchNotes : db'.notes[n] = db.notes[n]
      /\ \A n \in BatchNotes :
              \/ \E u \in db.unlinked : u[1] = n /\ db'.notes[n].by = u[2]
              \/ n \in Known(db) /\ (db'.notes[n].spent <=> db.notes[n].spent)
                                 /\ db'.notes[n].by = db.notes[n].by
              \/ ~db'.notes[n].spent
  BY PersistIs
<1>h. /\ eng.cur \in Int /\ eng.cur >= 1 /\ End \in Int /\ End >= eng.cur - 1 /\ db.local \in Int
      /\ db.local <= eng.cur - 1 /\ eng.pc \in BatchPcs /\ DOMAIN eng.batch = 1..Len(eng.batch)
      /\ Len(eng.batch) \in Int
  <2>1. /\ eng.cur \in Int /\ eng.cur >= 1 /\ End \in Int /\ End >= eng.cur - 1 /\ db.local \in Int
        /\ DOMAIN eng.batch = 1..Len(eng.batch) /\ Len(eng.batch) \in Int
    BY Heights
  <2>2. db.local <= eng.cur - 1 /\ eng.pc \in BatchPcs
    BY <1>0 DEF LedgerFrame, Place, BatchPcs
  <2> QED BY <2>1, <2>2
<1>r. \A u \in Txs : db.rows[u] \in Int
  BY Heights
<1>2. /\ End' = End /\ BatchTxs' = BatchTxs /\ BatchNotes' = BatchNotes
      /\ Base = eng.cur - 1 /\ Base' = eng.cur - 1 /\ ~Writing /\ Writing'
      /\ Upper = eng.cur - 1 /\ Upper' = End
  BY <1>0, <1>h DEF End, BatchTxs, BatchNotes, Paying, Base, Reach, Upper, Writing
<1>3. /\ \A k : Sound(k)' <=> Sound(k)
      /\ \A b : OnChain(b)' <=> OnChain(b)
      /\ \A t, k : MinedIn(t, k)' <=> MinedIn(t, k)
      /\ \A i : Still(i)' <=> Still(i)
  <2>1. \A b : OnChain(b)' <=> OnChain(b)
    BY <1>0, SameWorld
  <2>2. \A i : Still(i)' <=> Still(i)
    BY <1>0 DEF Still, OnAt
  <2> QED BY <1>0, <2>1, <2>2, SameWorld DEF Sound, HashAt
<1>4. Ids'
  <2>1. \A b \in db'.hashes : b[2] <= branch' /\ (b[2] = branch' => OnChain(b)')
    BY <1>0, <1>2, <1>3 DEF LedgerFrame, Ids
  <2>2. \A b, d \in db'.hashes : b[1] = d[1] => b = d
    BY <1>0 DEF LedgerFrame, Ids
  <2>3. \A i \in DOMAIN eng'.batch :
         eng'.batch[i].branch <= branch' /\ (eng'.batch[i].branch = branch' => Still(i)')
    BY <1>0, <1>h, <1>3 DEF LedgerFrame, Ids
  <2> QED BY <2>1, <2>2, <2>3 DEF Ids
<1>5. Place'
  BY <1>0, <1>h, <1>2 DEF LedgerFrame, Place, BatchPcs
<1>6. OfChain'
  <2>1. PICK k : k = eng.cur - 1 /\ k = eng'.cur - 1
    BY <1>0
  <2>2. Sound(eng.cur - 1) => Sound(k)'
    BY <1>3, <2>1
  <2>3. Sound(eng.cur - 1) => Sound(eng.cur - 1)'
    BY <2>1, <2>2 DEF Sound
  <2> QED BY <1>0, <1>h, <1>2, <1>3, <2>3 DEF LedgerFrame, OfChain
<1>7. Marks'
  <2>1. ASSUME NEW n \in Known(db'), db'.notes[n].spent PROVE n \in Spends[db'.notes[n].by]
    <3>1. CASE n \in BatchNotes
      BY <1>1, <2>1, <3>1 DEF LedgerFrame, Marks
    <3>2. CASE n \notin BatchNotes
      BY <1>1, <2>1, <3>2 DEF LedgerFrame, Marks
    <3> QED BY <3>1, <3>2
  <2> QED BY <1>1, <2>1 DEF LedgerFrame, Marks
<1>8. ChainOK(chain, branch)'
  BY <1>0 DEF LedgerFrame
<1>9. ASSUME Below, Loose, Fresh, Cached PROVE (Below /\ Loose /\ Fresh /\ Cached)'
  <2>0. /\ \A t \in Paying : t \in BatchTxs /\ HeightOf(t) \in eng.cur..End
        /\ BatchTxs \subseteq Txs /\ Paying \subseteq Txs
        /\ \A n \in BatchNotes : \E t \in BatchTxs : n \in Creates[t]
    <3>1. BatchTxs \subseteq Txs
      BY BatchHeights DEF LedgerTypes
    <3> QED BY <1>h, <3>1, HeightIs DEF Paying, BatchNotes
  <2>1. ASSUME NEW k \in 0..(eng.cur - 1), Sound(k) PROVE Vouched(k)'
    <3>0. k \in Int /\ k < eng.cur
      BY <1>h
    <3>1. Vouched(k)
      BY <1>2, <1>9, <2>1 DEF Below
    <3>2. \A h \in 1..k : \A u \in BatchTxs : \A t \in Txs : MinedIn(t, h) =>
             t # u /\ Spends[t] \cap (Spends[u] \cup Creates[u]) = {}
      BY <1>h, <1>9, <2>1 DEF Fresh
    <3>3. ASSUME NEW h \in 1..k, NEW t \in Txs, MinedIn(t, h) PROVE SeenIn(t)'
      <4> SUFFICES ASSUME NEW n \in Spends[t], n \in Known(db'), n \notin freed PROVE Settled(n, t)'
        BY <1>0 DEF SeenIn
      <4>1. n \notin BatchNotes
        BY <2>0, <3>2, <3>3
      <4>2. n \in Known(db) /\ db'.notes[n] = db.notes[n]
        BY <1>1, <4>1
      <4>3. db.notes[n].spent /\ (db.notes[n].by = t \/ db.rows[db.notes[n].by] <= 0)
        BY <3>1, <3>3, <4>2 DEF Vouched, SeenIn, Settled
      <4>4. db.notes[n].by \in Txs /\ n \in Spends[db.notes[n].by]
        BY <4>2, <4>3 DEF LedgerTypes, TableTypes, NoteRow, LedgerFrame, Marks
      <4>5. db.notes[n].by \notin BatchTxs
        BY <3>2, <3>3, <4>4
      <4>6. db'.rows[db.notes[n].by] = db.rows[db.notes[n].by]
        BY <1>1, <2>0, <4>4, <4>5
      <4> QED BY <4>2, <4>3, <4>6 DEF Settled
    <3>4. ASSUME NEW u \in Txs, db'.rows[u] > 0
          PROVE  /\ (db.rows[u] <= k => MinedIn(u, db.rows[u]))'
                 /\ \A i \in 1..k : MinedIn(u, i) => db'.rows[u] = i
                 /\ \A i \in 1..k : \A t \in Txs : MinedIn(t, i) /\ t # u => Spends[t] \cap Spends[u] = {}
      <4>1. CASE u \in Paying
        <5>1. u \in BatchTxs /\ db'.rows[u] \in eng.cur..End
          BY <1>1, <2>0, <4>1
        <5>2. ~(db'.rows[u] <= k)
          BY <1>h, <3>0, <5>1
        <5>3. \A i \in 1..k : ~MinedIn(u, i)
          BY <3>2, <5>1
        <5>4. \A i \in 1..k : \A t \in Txs : MinedIn(t, i) /\ t # u => Spends[t] \cap Spends[u] = {}
          BY <3>2, <5>1
        <5> QED BY <5>2, <5>3, <5>4
      <4>2. CASE u \notin Paying
        <5>1. PICK r : r = db.rows[u] /\ r = db'.rows[u]
          BY <1>1, <4>2
        <5>2. r <= k => MinedIn(u, r)'
          BY <1>3, <3>1, <3>4, <5>1 DEF Vouched
        <5>3. r <= k => MinedIn(u, db.rows[u])'
          BY <5>1, <5>2 DEF MinedIn
        <5> QED BY <3>1, <3>4, <5>1, <5>3 DEF Vouched
      <4> QED BY <4>1, <4>2
    <3> QED BY <1>3, <3>3, <3>4 DEF Vouched
  <2>2. Below'
    BY <1>2, <1>3, <2>1 DEF Below
  <2>3. Loose'
    <3>1. \A k \in 1..Base' : HashAt(db', k) = {} => k <= Tip'
      BY <1>0, <1>2, <1>9, SameWorld DEF Loose, HashAt
    <3>2. ASSUME NEW u \in Txs, db'.rows[u] > End PROVE MinedIn(u, db.rows[u])'
      <4>1. u \notin Paying
        BY <1>1, <1>h, <2>0, <3>2
      <4>2. PICK r \in Int : r = db.rows[u] /\ r = db'.rows[u]
        BY <1>1, <1>r, <4>1
      <4>3. r > Upper
        BY <1>h, <1>2, <3>2, <4>2
      <4>4. MinedIn(u, r)
        BY <1>2, <1>9, <4>2, <4>3 DEF Loose
      <4> QED BY <1>3, <4>2, <4>4 DEF MinedIn
    <3> QED BY <1>2, <3>1, <3>2 DEF Loose
  <2>4. Fresh'
    <3>1. \A k \in 0..(eng'.cur - 1) : Sound(k)' =>
           \A h \in 1..k : \A u \in BatchTxs' : \A t \in Txs : MinedIn(t, h)' =>
             t # u /\ Spends[t] \cap (Spends[u] \cup Creates[u]) = {}
      BY <1>0, <1>h, <1>2, <1>3, <1>9 DEF Fresh
    <3>2. ASSUME NEW u \in Txs, db'.rows[u] > 0
          PROVE /\ \A t \in BatchTxs : t # u => Spends[t] \cap Spends[u] = {}
                /\ \A i \in DOMAIN eng.batch : u \in eng.batch[i].txs => db'.rows[u] = eng.cur + i - 1
                /\ db'.rows[u] \in eng.cur..End => u \in eng.batch[db'.rows[u] + 1 - eng.cur].txs
      <4>1. CASE u \in Paying
        <5>1. u \in BatchTxs /\ db'.rows[u] = HeightOf(u)
          BY <1>1, <2>0, <4>1
        <5>2. \A t \in BatchTxs : t # u => Spends[t] \cap Spends[u] = {}
          BY <1>h, <5>1 DEF LedgerFrame, OfChain
        <5>3. \A i \in DOMAIN eng.batch : u \in eng.batch[i].txs => db'.rows[u] = eng.cur + i - 1
          BY <1>h, <5>1, HeightIs
        <5>4. PICK i \in DOMAIN eng.batch : u \in eng.batch[i].txs /\ db'.rows[u] = eng.cur + i - 1
          BY <1>h, <5>1, HeightIs
        <5>5. db'.rows[u] + 1 - eng.cur = i
          BY <1>h, <5>4
        <5> QED BY <5>2, <5>3, <5>4, <5>5
      <4>2. CASE u \notin Paying
        BY <1>1, <1>h, <1>9, <3>2, <4>2 DEF Fresh
      <4> QED BY <4>1, <4>2
    <3>3. \A u \in Txs : db'.rows[u] > 0 =>
           /\ \A t \in BatchTxs' : t # u => Spends[t] \cap Spends[u] = {}
           /\ \A i \in DOMAIN eng'.batch : u \in eng'.batch[i].txs => db'.rows[u] = eng'.cur + i - 1
           /\ db'.rows[u] \in eng'.cur..End' => u \in eng'.batch[db'.rows[u] + 1 - eng'.cur].txs
      BY <1>0, <1>2, <3>2
    <3> QED BY <1>0, <3>1, <3>3 DEF Fresh
  <2>5. Cached'
    BY <1>0, <1>1, <1>9 DEF Cached
  <2> QED BY <2>2, <2>3, <2>4, <2>5
<1> QED BY <1>4, <1>5, <1>6, <1>7, <1>8, <1>9 DEF LedgerFrame

-----------------------------------------------------------------------------
(* its spends applied,                                                     *)

LEMMA HitsAre ==
  ASSUME LedgerTypes
  PROVE  /\ \A n, t : <<n, t>> \in Hits => n \in Notes /\ t \in BatchTxs /\ t \in Txs /\ n \in Spends[t]
         /\ \A n \in Notes, t \in BatchTxs : n \in Spends[t] /\ n \in eng.cache => <<n, t>> \in Hits
         /\ \A s \in Hits : s = <<s[1], s[2]>>
         /\ UnlinkedSpends(db) \subseteq Hits
<1>1. BatchTxs \subseteq Txs
  BY BatchHeights DEF LedgerTypes
<1>2. Hits \subseteq BatchSpends /\ UnlinkedSpends(db) \subseteq Hits
  BY DEF Hits, CacheHits, TrackedSpends, UnlinkedSpends
<1>3. \A s \in BatchSpends : s[1] \in Notes /\ s[2] \in BatchTxs /\ s[1] \in Spends[s[2]] /\ s = <<s[1], s[2]>>
  BY DEF BatchSpends
<1>4. ASSUME NEW n \in Notes, NEW t \in BatchTxs, n \in Spends[t], n \in eng.cache PROVE <<n, t>> \in Hits
  BY <1>4 DEF Hits, CacheHits, BatchSpends
<1>5. ASSUME NEW n, NEW t, <<n, t>> \in Hits PROVE n \in Notes /\ t \in BatchTxs /\ t \in Txs /\ n \in Spends[t]
  <2>1. <<n, t>> \in BatchSpends
    BY <1>2, <1>5
  <2> QED BY <1>1, <1>3, <2>1
<1> QED BY <1>2, <1>3, <1>4, <1>5

LEMMA ApplyIs ==
  ASSUME LedgerTypes, ApplySpends
  PROVE  /\ eng.pc = "spends" /\ eng'.pc = "save" /\ eng'.cur = eng.cur /\ eng'.batch = eng.batch
         /\ eng'.prev = eng.prev /\ eng'.cache = eng.cache \ {s[1] : s \in Hits}
         /\ Known(db') = Known(db)
         /\ \A n \in Known(db) :
              \/ (~\E t \in Txs : <<n, t>> \in Hits) /\ db'.notes[n] = db.notes[n]
              \/ \E t \in Txs : <<n, t>> \in Hits /\ db'.notes[n].spent /\ db'.notes[n].by = t
         /\ \A t \in Txs : db'.rows[t] = IF \E n \in Notes : <<n, t>> \in Hits THEN HeightOf(t) ELSE db.rows[t]
         /\ db'.unlinked = db.unlinked \cup UnlinkedSpends(db) /\ db'.hashes = db.hashes
         /\ db'.local = db.local
         /\ UNCHANGED <<chain, branch, freed>>
<1> DEFINE by(n) == CHOOSE t \in Txs : <<n, t>> \in Hits
           hit(n) == \E t \in Txs : <<n, t>> \in Hits
           notes == [n \in Known(db) |-> IF hit(n) THEN [db.notes[n] EXCEPT !.spent = TRUE, !.by = by(n)]
                                         ELSE db.notes[n]]
           rows == [t \in Txs |-> IF \E n \in Notes : <<n, t>> \in Hits THEN HeightOf(t)
                                  ELSE db.rows[t]]
           unlinked == db.unlinked \cup UnlinkedSpends(db)
           left == eng.cache \ {s[1] : s \in Hits}
           more == eng.tracked \cup {s[2] : s \in CacheHits}
<1>0. TableTypes(db) /\ EngineTypes(eng)
  BY DEF LedgerTypes
<1>1. /\ db'.notes = notes /\ db'.rows = rows /\ db'.unlinked = unlinked /\ db'.local = db.local
      /\ db'.hashes = db.hashes
  <2>1. db' = [db EXCEPT !.notes = notes, !.unlinked = unlinked, !.rows = rows]
    BY DEF ApplySpends, Applied
  <2> HIDE DEF notes, rows, unlinked
  <2> QED BY <1>0, <2>1 DEF TableTypes
<1>2. /\ eng'.pc = "save" /\ eng'.cur = eng.cur /\ eng'.batch = eng.batch /\ eng'.prev = eng.prev
      /\ eng'.cache = left
  <2>1. eng' = [eng EXCEPT !.pc = "save", !.cache = left, !.tracked = more]
    BY DEF ApplySpends
  <2> HIDE DEF left, more
  <2> QED BY <1>0, <2>1 DEF EngineTypes
<1>3. ASSUME NEW n \in Known(db)
      PROVE  \/ ~hit(n) /\ notes[n] = db.notes[n]
             \/ \E t \in Txs : <<n, t>> \in Hits /\ notes[n].spent /\ notes[n].by = t
  <2>1. CASE hit(n)
    <3>1. by(n) \in Txs /\ <<n, by(n)>> \in Hits
      BY <2>1
    <3>2. notes[n] = [db.notes[n] EXCEPT !.spent = TRUE, !.by = by(n)]
      BY <2>1
    <3>3. db.notes[n] \in NoteRow
      BY <1>0 DEF TableTypes
    <3> HIDE DEF notes, by, hit
    <3>4. notes[n].spent = TRUE /\ notes[n].by = by(n)
      BY <3>2, <3>3 DEF NoteRow
    <3> QED BY <3>1, <3>4
  <2> QED BY <2>1
<1>4. Known(db') = Known(db)
  BY <1>1 DEF Known
<1>5. \A t \in Txs : rows[t] = IF \E n \in Notes : <<n, t>> \in Hits THEN HeightOf(t) ELSE db.rows[t]
  OBVIOUS
<1>6. eng.pc = "spends" /\ UNCHANGED <<chain, branch, freed>>
  BY DEF ApplySpends, world, history
<1> HIDE DEF notes, rows
<1> QED BY <1>1, <1>2, <1>3, <1>4, <1>5, <1>6

\* From the spends to the hashes the run stays where it is.
LEMMA ApplyFrame ==
  ASSUME LedgerTypes, LedgerTypes', LedgerFrame, eng.pc = "spends", eng'.pc = "save",
         eng'.cur = eng.cur, eng'.batch = eng.batch, eng'.prev = eng.prev,
         UNCHANGED <<chain, branch>>, db'.hashes = db.hashes, db'.local = db.local, Marks'
  PROVE  /\ LedgerFrame'
         /\ eng.pc \in BatchPcs
         /\ End' = End /\ BatchTxs' = BatchTxs /\ BatchNotes' = BatchNotes
         /\ Base = eng.cur - 1 /\ Base' = eng.cur - 1 /\ Writing /\ Writing'
         /\ Upper = End /\ Upper' = End
         /\ \A k : Sound(k)' <=> Sound(k)
         /\ \A t, k : MinedIn(t, k)' <=> MinedIn(t, k)
<1>2. /\ End' = End /\ BatchTxs' = BatchTxs /\ BatchNotes' = BatchNotes /\ eng.pc \in BatchPcs
      /\ Base = eng.cur - 1 /\ Base' = eng.cur - 1 /\ Writing /\ Writing'
      /\ Upper = End /\ Upper' = End
  BY DEF End, BatchTxs, BatchNotes, Paying, Base, Reach, Upper, Writing, BatchPcs
<1>3. /\ \A k : Sound(k)' <=> Sound(k)
      /\ \A b : OnChain(b)' <=> OnChain(b)
      /\ \A t, k : MinedIn(t, k)' <=> MinedIn(t, k)
      /\ \A i : Still(i)' <=> Still(i)
  <2>1. \A b : OnChain(b)' <=> OnChain(b)
    BY SameWorld
  <2>2. \A i : Still(i)' <=> Still(i)
    BY DEF Still, OnAt
  <2> QED BY <2>1, <2>2, SameWorld DEF Sound, HashAt
<1>4. Ids'
  <2>1. \A b \in db'.hashes : b[2] <= branch' /\ (b[2] = branch' => OnChain(b)')
    BY <1>2, <1>3 DEF LedgerFrame, Ids
  <2>2. \A b, d \in db'.hashes : b[1] = d[1] => b = d
    BY DEF LedgerFrame, Ids
  <2>3. \A i \in DOMAIN eng'.batch :
         eng'.batch[i].branch <= branch' /\ (eng'.batch[i].branch = branch' => Still(i)')
    BY <1>2, <1>3 DEF LedgerFrame, Ids
  <2> QED BY <2>1, <2>2, <2>3 DEF Ids
<1>5. Place'
  BY <1>2 DEF LedgerFrame, Place, BatchPcs
<1>6. OfChain'
  <2>1. PICK k : k = eng.cur - 1 /\ k = eng'.cur - 1
    OBVIOUS
  <2>2. Sound(eng.cur - 1) => Sound(k)'
    BY <1>3, <2>1
  <2>3. Sound(eng.cur - 1) => Sound(eng.cur - 1)'
    BY <2>1, <2>2 DEF Sound
  <2> QED BY <1>2, <1>3, <2>3 DEF LedgerFrame, OfChain
<1>8. ChainOK(chain, branch)'
  BY DEF LedgerFrame
<1> QED BY <1>2, <1>3, <1>4, <1>5, <1>6, <1>8 DEF LedgerFrame

LEMMA ApplyFailsSeen ==
  ASSUME LedgerTypes, LedgerTypes', LedgerFrame, ApplySpendsFails
  PROVE  LedgerFrame' /\ dropped'
<1> DEFINE unlinked == db.unlinked \cup UnlinkedSpends(db)
           more == eng.tracked \cup {s[2] : s \in CacheHits}
<1>0. TableTypes(db) /\ EngineTypes(eng) /\ eng.pc = "spends" /\ dropped' /\ UNCHANGED <<chain, branch>>
  BY DEF LedgerTypes, ApplySpendsFails, world
<1>1. db'.notes = db.notes /\ db'.unlinked = unlinked /\ db'.hashes = db.hashes /\ db'.local = db.local
  <2>1. db' = [db EXCEPT !.unlinked = unlinked]
    BY DEF ApplySpendsFails
  <2> HIDE DEF unlinked
  <2> QED BY <1>0, <2>1 DEF TableTypes
<1>2. eng'.pc = "save" /\ eng'.cur = eng.cur /\ eng'.batch = eng.batch /\ eng'.prev = eng.prev
  <2>1. eng' = [eng EXCEPT !.pc = "save", !.tracked = more]
    BY DEF ApplySpendsFails
  <2> HIDE DEF more
  <2> QED BY <1>0, <2>1 DEF EngineTypes
<1>3. Marks'
  <2>1. \A u \in UnlinkedSpends(db) : u[1] \in Spends[u[2]]
    BY HitsAre
  <2> QED BY <1>1, <2>1 DEF LedgerFrame, Marks, Known
<1> QED BY <1>0, <1>1, <1>2, <1>3, ApplyFrame

LEMMA ApplySeen ==
  ASSUME LedgerTypes, LedgerTypes', LedgerFrame, ApplySpends
  PROVE  /\ LedgerFrame'
         /\ Below /\ Loose /\ Fresh /\ Cached => (Below /\ Loose /\ Fresh /\ Cached)'
<1> DEFINE Struck(t) == \E n \in Notes : <<n, t>> \in Hits
<1>0. /\ eng.pc = "spends" /\ eng'.pc = "save" /\ eng'.cur = eng.cur /\ eng'.batch = eng.batch
      /\ eng'.prev = eng.prev /\ eng'.cache = eng.cache \ {s[1] : s \in Hits}
      /\ db'.unlinked = db.unlinked \cup UnlinkedSpends(db) /\ db'.hashes = db.hashes
      /\ db'.local = db.local
      /\ UNCHANGED <<chain, branch, freed>>
  BY ApplyIs
<1>1. /\ Known(db') = Known(db)
      /\ \A n \in Known(db) :
           \/ (~\E t \in Txs : <<n, t>> \in Hits) /\ db'.notes[n] = db.notes[n]
           \/ \E t \in Txs : <<n, t>> \in Hits /\ db'.notes[n].spent /\ db'.notes[n].by = t
      /\ \A t \in Txs : db'.rows[t] = IF Struck(t) THEN HeightOf(t) ELSE db.rows[t]
  BY ApplyIs
<1>t. /\ \A n, t : <<n, t>> \in Hits => n \in Notes /\ t \in BatchTxs /\ t \in Txs /\ n \in Spends[t]
      /\ \A n \in Notes, t \in BatchTxs : n \in Spends[t] /\ n \in eng.cache => <<n, t>> \in Hits
      /\ \A s \in Hits : s = <<s[1], s[2]>>
      /\ UnlinkedSpends(db) \subseteq Hits
  BY HitsAre
<1>7. Marks'
  <2>1. ASSUME NEW n \in Known(db'), db'.notes[n].spent PROVE n \in Spends[db'.notes[n].by]
    BY <1>1, <1>t, <2>1 DEF LedgerFrame, Marks
  <2>2. \A u \in UnlinkedSpends(db) : u[1] \in Spends[u[2]]
    BY <1>t
  <2> QED BY <1>0, <2>1, <2>2 DEF LedgerFrame, Marks
<1>2. /\ LedgerFrame' /\ eng.pc \in BatchPcs
      /\ End' = End /\ BatchTxs' = BatchTxs /\ BatchNotes' = BatchNotes
      /\ Base = eng.cur - 1 /\ Base' = eng.cur - 1 /\ Writing /\ Writing'
      /\ Upper = End /\ Upper' = End
  BY <1>0, <1>7, ApplyFrame
<1>3. /\ \A k : Sound(k)' <=> Sound(k)
      /\ \A t, k : MinedIn(t, k)' <=> MinedIn(t, k)
  BY <1>0, <1>7, ApplyFrame
<1>h. /\ eng.cur \in Int /\ eng.cur >= 1 /\ End \in Int /\ End >= eng.cur - 1 /\ db.local \in Int
      /\ DOMAIN eng.batch = 1..Len(eng.batch) /\ Len(eng.batch) \in Int
  BY Heights
<1>r. \A u \in Txs : db.rows[u] \in Int
  BY Heights
<1>s. ASSUME NEW t \in Txs, Struck(t) PROVE t \in BatchTxs /\ HeightOf(t) \in eng.cur..End
  BY <1>2, <1>t, <1>s, HeightIs
<1> HIDE DEF Struck
<1>9. ASSUME Below, Loose, Fresh, Cached PROVE (Below /\ Loose /\ Fresh /\ Cached)'
  <2>1. ASSUME NEW k \in 0..(eng.cur - 1), Sound(k) PROVE Vouched(k)'
    <3>0. k \in Int /\ k < eng.cur
      BY <1>h
    <3>1. Vouched(k)
      BY <1>2, <1>9, <2>1 DEF Below
    <3>2. \A h \in 1..k : \A u \in BatchTxs : \A t \in Txs : MinedIn(t, h) =>
             t # u /\ Spends[t] \cap (Spends[u] \cup Creates[u]) = {}
      BY <1>2, <1>9, <2>1 DEF Fresh
    <3>3. ASSUME NEW h \in 1..k, NEW t \in Txs, MinedIn(t, h) PROVE SeenIn(t)'
      <4> SUFFICES ASSUME NEW n \in Spends[t], n \in Known(db), n \notin freed PROVE Settled(n, t)'
        BY <1>0, <1>1 DEF SeenIn
      <4>1. ~\E u \in Txs : <<n, u>> \in Hits
        BY <1>t, <3>2, <3>3
      <4>2. db'.notes[n] = db.notes[n]
        BY <1>1, <4>1
      <4>3. db.notes[n].spent /\ (db.notes[n].by = t \/ db.rows[db.notes[n].by] <= 0)
        BY <3>1, <3>3, <4>2 DEF Vouched, SeenIn, Settled
      <4>4. db.notes[n].by \in Txs /\ n \in Spends[db.notes[n].by]
        BY <4>2, <4>3 DEF LedgerTypes, TableTypes, NoteRow, LedgerFrame, Marks
      <4>5. db.notes[n].by \notin BatchTxs
        BY <3>2, <3>3, <4>4
      <4>6. db'.rows[db.notes[n].by] = db.rows[db.notes[n].by]
        BY <1>1, <1>s, <4>4, <4>5
      <4> QED BY <4>2, <4>3, <4>6 DEF Settled
    <3>4. ASSUME NEW u \in Txs, db'.rows[u] > 0
          PROVE  /\ (db.rows[u] <= k => MinedIn(u, db.rows[u]))'
                 /\ \A i \in 1..k : MinedIn(u, i) => db'.rows[u] = i
                 /\ \A i \in 1..k : \A t \in Txs : MinedIn(t, i) /\ t # u => Spends[t] \cap Spends[u] = {}
      <4>1. CASE Struck(u)
        <5>1. u \in BatchTxs /\ db'.rows[u] \in eng.cur..End
          BY <1>1, <1>s, <4>1
        <5>2. ~(db'.rows[u] <= k)
          BY <1>h, <3>0, <5>1
        <5>3. \A i \in 1..k : ~MinedIn(u, i)
          BY <3>2, <5>1
        <5>4. \A i \in 1..k : \A t \in Txs : MinedIn(t, i) /\ t # u => Spends[t] \cap Spends[u] = {}
          BY <3>2, <5>1
        <5> QED BY <5>2, <5>3, <5>4
      <4>2. CASE ~Struck(u)
        <5>1. PICK r : r = db.rows[u] /\ r = db'.rows[u]
          BY <1>1, <4>2
        <5>2. r <= k => MinedIn(u, r)'
          BY <1>3, <3>1, <3>4, <5>1 DEF Vouched
        <5>3. r <= k => MinedIn(u, db.rows[u])'
          BY <5>1, <5>2 DEF MinedIn
        <5> QED BY <3>1, <3>4, <5>1, <5>3 DEF Vouched
      <4> QED BY <4>1, <4>2
    <3> QED BY <1>3, <3>3, <3>4 DEF Vouched
  <2>2. Below'
    BY <1>2, <1>3, <2>1 DEF Below
  <2>3. Loose'
    <3>1. \A k \in 1..Base' : HashAt(db', k) = {} => k <= Tip'
      BY <1>0, <1>2, <1>9, SameWorld DEF Loose, HashAt
    <3>2. ASSUME NEW u \in Txs, db'.rows[u] > End PROVE MinedIn(u, db.rows[u])'
      <4>1. ~Struck(u)
        BY <1>1, <1>h, <1>s, <3>2
      <4>2. PICK r \in Int : r = db.rows[u] /\ r = db'.rows[u]
        BY <1>1, <1>r, <4>1
      <4>4. MinedIn(u, r)
        BY <1>2, <1>9, <3>2, <4>2 DEF Loose
      <4> QED BY <1>3, <4>2, <4>4 DEF MinedIn
    <3> QED BY <1>2, <3>1, <3>2 DEF Loose
  <2>4. ASSUME NEW u \in Txs, db'.rows[u] > 0
        PROVE /\ \A t \in BatchTxs : t # u => Spends[t] \cap Spends[u] = {}
              /\ \A i \in DOMAIN eng.batch : u \in eng.batch[i].txs => db'.rows[u] = eng.cur + i - 1
              /\ db'.rows[u] \in eng.cur..End => u \in eng.batch[db'.rows[u] + 1 - eng.cur].txs
    <3>1. CASE Struck(u)
      <4>1. u \in BatchTxs /\ db'.rows[u] = HeightOf(u)
        BY <1>1, <1>s, <3>1
      <4>2. \A t \in BatchTxs : t # u => Spends[t] \cap Spends[u] = {}
        BY <1>2, <4>1 DEF LedgerFrame, OfChain
      <4>3. \A i \in DOMAIN eng.batch : u \in eng.batch[i].txs => db'.rows[u] = eng.cur + i - 1
        BY <1>2, <4>1, HeightIs
      <4>4. PICK i \in DOMAIN eng.batch : u \in eng.batch[i].txs /\ db'.rows[u] = eng.cur + i - 1
        BY <1>2, <4>1, HeightIs
      <4>5. db'.rows[u] + 1 - eng.cur = i
        BY <1>h, <4>4
      <4> QED BY <4>2, <4>3, <4>4, <4>5
    <3>2. CASE ~Struck(u)
      BY <1>1, <1>2, <1>9, <2>4, <3>2 DEF Fresh
    <3> QED BY <3>1, <3>2
  <2>5. ASSUME NEW t \in BatchTxs PROVE SeenIn(t)'
    <3> SUFFICES ASSUME NEW n \in Spends[t], n \in Known(db), n \notin freed PROVE Settled(n, t)'
      BY <1>0, <1>1 DEF SeenIn
    <3>0. n \in Notes
      BY DEF LedgerTypes, TableTypes
    <3>1. CASE \E u \in Txs : <<n, u>> \in Hits
      <4>1. PICK u \in Txs : <<n, u>> \in Hits /\ db'.notes[n].spent /\ db'.notes[n].by = u
        BY <1>1, <3>1
      <4>2. u = t
        BY <1>2, <1>t, <4>1 DEF LedgerFrame, OfChain
      <4> QED BY <4>1, <4>2 DEF Settled
    <3>2. CASE ~\E u \in Txs : <<n, u>> \in Hits
      <4>1. t \in Txs
        BY BatchHeights DEF LedgerTypes
      <4>2. n \notin eng.cache
        BY <1>t, <3>0, <3>2, <4>1
      <4>3. db.notes[n].spent /\ db'.notes[n] = db.notes[n]
        BY <1>0, <1>1, <1>9, <3>2, <4>2 DEF Cached
      <4>4. db.notes[n].by \in Txs /\ n \in Spends[db.notes[n].by]
        BY <4>3 DEF LedgerTypes, TableTypes, NoteRow, LedgerFrame, Marks
      <4>5. db'.rows[db.notes[n].by] > 0 => db.notes[n].by = t
        BY <2>4, <4>4
      <4>6. db'.rows[db.notes[n].by] \in Int
        BY <4>4, Bounds DEF LedgerTypes, TableTypes, Unseen
      <4> QED BY <4>3, <4>5, <4>6 DEF Settled
    <3> QED BY <3>1, <3>2
  <2>6. Fresh'
    <3>1. \A k \in 0..(eng'.cur - 1) : Sound(k)' =>
           \A h \in 1..k : \A u \in BatchTxs' : \A t \in Txs : MinedIn(t, h)' =>
             t # u /\ Spends[t] \cap (Spends[u] \cup Creates[u]) = {}
      BY <1>0, <1>2, <1>3, <1>9 DEF Fresh
    <3>2. \A u \in Txs : db'.rows[u] > 0 =>
           /\ \A t \in BatchTxs' : t # u => Spends[t] \cap Spends[u] = {}
           /\ \A i \in DOMAIN eng'.batch : u \in eng'.batch[i].txs => db'.rows[u] = eng'.cur + i - 1
           /\ db'.rows[u] \in eng'.cur..End' => u \in eng'.batch[db'.rows[u] + 1 - eng'.cur].txs
      BY <1>0, <1>2, <2>4
    <3>3. \A t \in BatchTxs' : SeenIn(t)'
      BY <1>2, <2>5
    <3> QED BY <3>1, <3>2, <3>3 DEF Fresh
  <2>7. Cached'
    <3> SUFFICES ASSUME NEW n \in Known(db), ~db'.notes[n].spent PROVE n \in eng'.cache \cup freed
      BY <1>0, <1>1 DEF Cached
    <3>1. (~\E t \in Txs : <<n, t>> \in Hits) /\ ~db.notes[n].spent
      BY <1>1
    <3>2. n \in eng.cache \cup freed
      BY <1>0, <1>9, <3>1 DEF Cached
    <3>3. ASSUME NEW s \in Hits PROVE s[1] # n
      BY <1>t, <3>1
    <3> QED BY <1>0, <3>2, <3>3
  <2> QED BY <2>2, <2>3, <2>6, <2>7
<1> QED BY <1>2, <1>9

-----------------------------------------------------------------------------
(* and its hashes saved.                                                   *)

LEMMA SaveIs ==
  ASSUME LedgerTypes, Save
  PROVE  /\ eng.pc = "save" /\ eng'.pc = "main" /\ eng'.cur = End + 1 /\ eng'.prev = eng.prev
         /\ eng'.cache = eng.cache
         /\ db'.notes = db.notes /\ db'.rows = db.rows /\ db'.unlinked = db.unlinked /\ db'.local = End
         /\ db'.hashes = {b \in db.hashes : b[1] \notin eng.cur..End} \cup
                           {<<eng.cur + i - 1, eng.batch[i].branch>> : i \in DOMAIN eng.batch}
         /\ UNCHANGED <<chain, branch, freed>>
<1> DEFINE nothing == <<>>
           hashes == {b \in db.hashes : b[1] \notin eng.cur..End} \cup
                        {<<eng.cur + i - 1, eng.batch[i].branch>> : i \in DOMAIN eng.batch}
<1>1. db' = [db EXCEPT !.local = End, !.hashes = hashes]
  BY DEF Save
<1>2. eng' = [eng EXCEPT !.pc = "main", !.cur = End + 1, !.batch = nothing]
  BY DEF Save
<1>3. eng.pc = "save" /\ UNCHANGED <<chain, branch, freed>>
  BY DEF Save, world, history
<1> HIDE DEF nothing, hashes
<1>4. /\ db'.local = End /\ db'.hashes = hashes
      /\ db'.notes = db.notes /\ db'.rows = db.rows /\ db'.unlinked = db.unlinked
  BY <1>1 DEF LedgerTypes, TableTypes
<1>5. eng'.pc = "main" /\ eng'.cur = End + 1 /\ eng'.prev = eng.prev /\ eng'.cache = eng.cache
  BY <1>2 DEF LedgerTypes, EngineTypes
<1> QED BY <1>3, <1>4, <1>5 DEF hashes

LEMMA SaveSeen ==
  ASSUME LedgerTypes, LedgerTypes', LedgerFrame, Save
  PROVE  /\ LedgerFrame'
         /\ Below /\ Loose /\ Fresh /\ Cached => (Below /\ Loose /\ Fresh /\ Cached)'
<1>0. /\ eng.pc = "save" /\ eng'.pc = "main" /\ eng'.cur = End + 1 /\ eng'.prev = eng.prev
      /\ eng'.cache = eng.cache /\ eng.pc \in BatchPcs
      /\ db'.notes = db.notes /\ db'.rows = db.rows /\ db'.unlinked = db.unlinked /\ db'.local = End
      /\ UNCHANGED <<chain, branch, freed>>
  BY SaveIs DEF BatchPcs
<1>a. db'.hashes = {b \in db.hashes : b[1] \notin eng.cur..End} \cup
                      {<<eng.cur + i - 1, eng.batch[i].branch>> : i \in DOMAIN eng.batch}
  BY SaveIs
<1>b. PICK c \in Int, m \in Int :
         /\ c = eng.cur /\ m = Len(eng.batch) /\ c >= 1 /\ m >= 0 /\ DOMAIN eng.batch = 1..m
         /\ End = c + m - 1
  <2>1. /\ eng.cur \in Int /\ eng.cur >= 1 /\ Len(eng.batch) \in Int /\ Len(eng.batch) >= 0
        /\ DOMAIN eng.batch = 1..Len(eng.batch) /\ End = eng.cur + Len(eng.batch) - 1
    BY Heights
  <2> QED BY <2>1
<1>c. c \in Int /\ m \in Int /\ c >= 1 /\ m >= 0 /\ End = c + m - 1 /\ End \in Int
  BY <1>b
<1>g. \A i \in 1..m : eng.batch[i].branch \in Int
  BY <1>b, BatchBlock DEF LedgerTypes
<1>1. /\ Base = c - 1 /\ Base' = End /\ Writing /\ ~Writing'
      /\ Upper = End /\ Upper' = End
  BY <1>0, <1>b, <1>c DEF Base, Reach, Upper, Writing
<1>2. \A b \in db.hashes : b \in Int \X Int /\ b[1] \in Int /\ b[1] >= 1
  BY Heights
<1> DEFINE Other(b) == b \in db.hashes /\ b[1] \notin c..(c + m - 1)
<1>3. ASSUME NEW b PROVE b \in db'.hashes <=> Other(b) \/ \E i \in 1..m : b = <<c + i - 1, eng.batch[i].branch>>
  BY <1>a, <1>b
<1>4. \A b : OnChain(b)' <=> OnChain(b)
  BY <1>0, SameWorld
<1>5. ASSUME NEW i \in 1..m
      PROVE  /\ OnChain(<<c + i - 1, eng.batch[i].branch>>) <=> Still(i)
             /\ <<c + i - 1, eng.batch[i].branch>> \in db'.hashes
  <2>1. <<c + i - 1, eng.batch[i].branch>> \in Int \X Int
    BY <1>c, <1>g
  <2>2. OnChain(<<c + i - 1, eng.batch[i].branch>>) <=> OnAt(c + i - 1, eng.batch[i].branch)
    BY <2>1, OnChainIs
  <2> QED BY <1>b, <1>3, <2>2 DEF Still
<1>6. Ids'
  <2>1. ASSUME NEW b \in db'.hashes
        PROVE  b[2] <= branch /\ (b[2] = branch => OnChain(b))
    <3>1. CASE Other(b)
      BY <3>1 DEF LedgerFrame, Ids
    <3>2. CASE \E i \in 1..m : b = <<c + i - 1, eng.batch[i].branch>>
      <4>1. PICK i \in 1..m : b = <<c + i - 1, eng.batch[i].branch>>
        BY <3>2
      <4>2. b[2] = eng.batch[i].branch /\ b[1] = c + i - 1
        BY <4>1
      <4>3. b[2] <= branch /\ (b[2] = branch => Still(i))
        BY <1>0, <1>b, <4>2 DEF LedgerFrame, Ids
      <4> QED BY <1>c, <1>5, <4>1, <4>2, <4>3
    <3> QED BY <1>3, <3>1, <3>2
  <2>2. ASSUME NEW b \in db'.hashes, NEW d \in db'.hashes, b[1] = d[1] PROVE b = d
    <3>1. CASE Other(b) /\ Other(d)
      BY <2>2, <3>1 DEF LedgerFrame, Ids
    <3>2. CASE (\E i \in 1..m : b = <<c + i - 1, eng.batch[i].branch>>)
               /\ \E i \in 1..m : d = <<c + i - 1, eng.batch[i].branch>>
      <4>1. PICK i \in 1..m, j \in 1..m :
              b = <<c + i - 1, eng.batch[i].branch>> /\ d = <<c + j - 1, eng.batch[j].branch>>
        BY <3>2
      <4>2. c + i - 1 = c + j - 1
        BY <2>2, <4>1
      <4>3. i = j
        BY <1>c, <4>2
      <4> QED BY <4>1, <4>3
    <3>3. ASSUME NEW x, Other(x), NEW y, \E i \in 1..m : y = <<c + i - 1, eng.batch[i].branch>>
          PROVE  x[1] # y[1]
      <4>1. PICK i \in 1..m : y = <<c + i - 1, eng.batch[i].branch>>
        BY <3>3
      <4>2. y[1] = c + i - 1 /\ x[1] \notin c..(c + m - 1) /\ x[1] \in Int
        BY <1>2, <3>3, <4>1
      <4> QED BY <1>c, <4>2
    <3>4. CASE Other(b) /\ \E i \in 1..m : d = <<c + i - 1, eng.batch[i].branch>>
      BY <2>2, <3>3, <3>4
    <3>5. CASE Other(d) /\ \E i \in 1..m : b = <<c + i - 1, eng.batch[i].branch>>
      BY <2>2, <3>3, <3>5
    <3> QED BY <1>3, <2>2, <3>1, <3>2, <3>4, <3>5
  <2> QED BY <1>0, <1>1, <1>4, <2>1, <2>2 DEF Ids, BatchPcs
<1>7. Place'
  <2>1. m >= 1 /\ eng.prev = <<End, eng.batch[m].branch>>
    <3>1. eng.batch # <<>> /\ eng.prev = <<End, eng.batch[Len(eng.batch)].branch>>
      BY <1>0 DEF LedgerFrame, Place
    <3>2. Len(eng.batch) # 0
      <4>1. eng.batch \in Seq(Blocks)
        BY DEF LedgerTypes, EngineTypes
      <4> QED BY <3>1, <4>1
    <3> QED BY <1>b, <1>c, <3>1, <3>2
  <2>2. m \in 1..m /\ c + m - 1 = End
    BY <1>c, <2>1
  <2>3. eng.prev \in db'.hashes
    BY <1>5, <2>1, <2>2
  <2>4. eng'.prev \in db'.hashes /\ eng'.prev \in Int \X Int /\ eng'.prev[1] = End
    BY <1>c, <1>g, <1>0, <2>1, <2>2, <2>3
  <2>5. db'.local = End /\ eng'.cur - 1 = End
    BY <1>0, <1>c
  <2> QED BY <1>0, <1>1, <1>c, <2>4, <2>5 DEF Place, BatchPcs
<1>8. OfChain' /\ Marks' /\ ChainOK(chain, branch)'
  <2>1. OfChain'
    BY <1>0 DEF OfChain, BatchPcs
  <2>2. Marks'
    BY <1>0 DEF LedgerFrame, Marks, Known
  <2>3. ChainOK(chain, branch)'
    BY <1>0 DEF LedgerFrame
  <2> QED BY <2>1, <2>2, <2>3
<1>9. ASSUME Below, Loose, Fresh, Cached PROVE (Below /\ Loose /\ Fresh /\ Cached)'
  <2>1. ASSUME NEW k \in 0..End, Sound(k)' PROVE Vouched(k)
    <3>0. k \in Int /\ \A b \in db'.hashes : b[1] = k => OnChain(b)
      BY <1>4, <2>1 DEF Sound, HashAt
    <3>1. CASE k < c
      <4>1. \A b \in db.hashes : b[1] = k => b \in db'.hashes
        BY <1>c, <1>3, <3>0, <3>1
      <4>2. Sound(k)
        BY <3>0, <4>1 DEF Sound, HashAt
      <4>3. k \in 0..Base
        BY <1>c, <1>1, <3>1
      <4> QED BY <1>9, <4>2, <4>3 DEF Below
    <3>2. CASE k >= c
      <4>1. PICK i \in 1..m : k = c + i - 1
        <5>1. k + 1 - c \in 1..m /\ k = c + (k + 1 - c) - 1
          BY <1>c, <3>0, <3>2
        <5> QED BY <5>1
      <4>2. Still(i)
        <5>1. PICK b : b = <<c + i - 1, eng.batch[i].branch>>
          OBVIOUS
        <5>2. b \in db'.hashes /\ b[1] = k /\ (OnChain(b) <=> Still(i))
          BY <1>5, <4>1, <5>1
        <5> QED BY <3>0, <5>2
      <4>3. eng.cur <= k /\ k <= eng.cur + i - 1 /\ i \in DOMAIN eng.batch
        BY <1>b, <3>0, <3>2, <4>1
      <4> QED BY <1>0, <1>9, <3>0, <4>2, <4>3, VouchedUp
    <3> QED BY <1>c, <3>0, <3>1, <3>2
  <2>2. Below'
    BY <1>0, <1>1, <2>1, SameVouched DEF Below
  <2>3. Loose'
    <3>1. ASSUME NEW k \in 1..End, HashAt(db', k) = {} PROVE k <= Tip
      <4>1. CASE k < c
        <5>1. HashAt(db, k) = {} /\ k \in 1..Base
          BY <1>c, <1>1, <1>3, <3>1, <4>1 DEF HashAt
        <5> QED BY <1>9, <5>1 DEF Loose
      <4>2. CASE k >= c
        <5>1. PICK i \in 1..m : k = c + i - 1
          <6>1. k + 1 - c \in 1..m /\ k = c + (k + 1 - c) - 1
            BY <1>c, <4>2
          <6> QED BY <6>1
        <5>2. PICK b : b = <<c + i - 1, eng.batch[i].branch>>
          OBVIOUS
        <5>3. b \in db'.hashes /\ b[1] = k
          BY <1>5, <5>1, <5>2
        <5> QED BY <3>1, <5>3 DEF HashAt
      <4> QED BY <1>c, <4>1, <4>2
    <3>2. \A u \in Txs : db.rows[u] > End => MinedIn(u, db.rows[u])
      BY <1>1, <1>9 DEF Loose
    <3> QED BY <1>0, <1>1, <3>1, <3>2, SameWorld DEF Loose
  <2>4. Fresh'
    BY <1>0 DEF Fresh, BatchPcs
  <2>5. Cached'
    BY <1>0, <1>9 DEF Cached, Known
  <2> QED BY <2>2, <2>3, <2>4, <2>5
<1> QED BY <1>6, <1>7, <1>8, <1>9 DEF LedgerFrame

-----------------------------------------------------------------------------
(* Every step.                                                             *)

SeenInv == LedgerInv /\ LedgerFrame /\ LedgerSeen

LEMMA SeenStart == Init => SeenInv
<1> SUFFICES ASSUME Init PROVE SeenInv
  OBVIOUS
<1> DEFINE nothing == <<>>
           nobody == [n \in {} |-> 0]
           none == [t \in {} |-> 0]
           unseen == [t \in Txs |-> Unseen]
<1>1. Len(nothing) = 0 /\ chain = nothing
  BY DEF Init
<1>2. db = [notes |-> nobody, rows |-> unseen, unlinked |-> {}, intents |-> none, local |-> 0,
            hashes |-> {}]
  BY DEF Init
<1>3. eng = [pc |-> "idle", cur |-> 1, batch |-> nothing, cache |-> {}, tracked |-> {},
             prev |-> NoBlock]
  BY DEF Init, Stopped
<1>4. DOMAIN nobody = {} /\ \A t \in Txs : unseen[t] = -1
  BY DEF Unseen
<1> HIDE DEF nothing, nobody, none, unseen
<1>5. /\ db.hashes = {} /\ db.unlinked = {} /\ db.local = 0 /\ Known(db) = {} /\ eng.pc = "idle"
      /\ \A t \in Txs : db.rows[t] = -1
      /\ Len(chain) = 0
  BY <1>1, <1>2, <1>3, <1>4 DEF Known
<1>6. Base = 0 /\ ~Writing /\ eng.pc \notin BatchPcs /\ Upper = 0
  BY <1>5 DEF Base, Reach, Upper, Writing, BatchPcs
<1>7. LedgerFrame
  BY <1>5, <1>6 DEF LedgerFrame, ChainOK, Ids, Place, OfChain, Marks
<1>8. Below /\ Loose /\ Fresh /\ Cached
  <2>1. \A k \in 0..0 : \A h \in 1..k : FALSE
    OBVIOUS
  <2>2. Below
    BY <1>5, <1>6, <2>1 DEF Below, Vouched
  <2>3. Loose
    BY <1>5, <1>6 DEF Loose
  <2>4. Fresh /\ Cached
    BY <1>5, <1>6 DEF Fresh, Cached
  <2> QED BY <2>2, <2>3, <2>4
<1> QED BY <1>7, <1>8, LedgerStart DEF SeenInv, LedgerSeen

LEMMA SeenStep ==
  ASSUME SeenInv, [Next]_vars
  PROVE  SeenInv'
<1>0. LedgerTypes /\ LedgerFrame /\ LedgerSeen /\ LedgerInv
  BY DEF SeenInv, LedgerInv
<1>1. LedgerInv' /\ LedgerTypes'
  BY <1>0, LedgerStep DEF LedgerInv
<1>2. ASSUME LedgerFrame', Excused => Excused',
             Below /\ Loose /\ Fresh /\ Cached /\ ~Excused' => (Below /\ Loose /\ Fresh /\ Cached)'
      PROVE  SeenInv'
  BY <1>0, <1>1, <1>2 DEF SeenInv, LedgerSeen
<1>3. CASE Mine \/ Reorg
  <2>1. Excused => Excused'
    BY <1>3, WorldSame DEF Excused
  <2> QED BY <1>0, <1>1, <1>2, <1>3, <2>1, WorldFrame, WorldSeen
<1>4. CASE StartRun \/ Rescan
  <2>1. LedgerFrame' /\ (stale => stale')
        /\ (~stale' /\ Below /\ Loose => (Below /\ Loose /\ Fresh /\ Cached)')
    BY <1>0, <1>1, <1>4, StartSeen
  <2>2. UNCHANGED <<blind, dropped, early, orphan>>
    BY <1>4 DEF StartRun, Rescan
  <2> QED BY <1>2, <2>1, <2>2 DEF Excused
<1>5. CASE Repair \/ BoundaryReorg \/ MonitorReorg
  <2>1. LedgerFrame' /\ (blind => blind') /\ (stale => stale')
        /\ (~blind' /\ ~stale' /\ Below /\ Loose => (Below /\ Loose /\ Fresh /\ Cached)')
    BY <1>0, <1>1, <1>5, RollbackSeen
  <2>2. UNCHANGED <<dropped, early, orphan>>
    BY <1>5 DEF Repair, BoundaryReorg, MonitorReorg
  <2> QED BY <1>2, <2>1, <2>2 DEF Excused
<1>6. CASE Fetch
  <2>1. Excused => Excused'
    BY <1>6 DEF Fetch, history, Excused
  <2> QED BY <1>0, <1>1, <1>2, <1>6, <2>1, FetchSeen
<1>7. CASE Persist
  <2>1. Excused => Excused'
    BY <1>7 DEF Persist, history, Excused
  <2> QED BY <1>0, <1>1, <1>2, <1>7, <2>1, PersistSeen
<1>8. CASE ApplySpends
  <2>1. Excused => Excused'
    BY <1>8 DEF ApplySpends, history, Excused
  <2> QED BY <1>0, <1>1, <1>2, <1>8, <2>1, ApplySeen
<1>9. CASE ApplySpendsFails
  <2>1. LedgerFrame' /\ dropped'
    BY <1>0, <1>1, <1>9, ApplyFailsSeen
  <2> QED BY <1>2, <2>1 DEF Excused
<1>10. CASE Save
  <2>1. Excused => Excused'
    BY <1>10 DEF Save, history, Excused
  <2> QED BY <1>0, <1>1, <1>2, <1>10, <2>1, SaveSeen
<1>11. CASE StopRun \/ Crash
  <2>1. /\ eng' = Stopped /\ UNCHANGED <<chain, branch, db, freed>> /\ blind' = blind
        /\ dropped => dropped'
        /\ early' = (early \/ (eng.pc = "spends" /\ BatchNotes # {})) /\ orphan' = (orphan \/ Stranded)
        /\ stale' = (stale \/ LeftBehind(db, eng'))
    <3>1. CASE StopRun
      BY <3>1 DEF StopRun, world
    <3>2. CASE Crash
      <4>1. /\ eng' = Stopped /\ UNCHANGED <<chain, branch, db, freed>> /\ blind' = blind
            /\ early' = (early \/ (eng.pc = "spends" /\ BatchNotes # {})) /\ orphan' = (orphan \/ Stranded)
            /\ stale' = (stale \/ LeftBehind(db, eng'))
        BY <3>2 DEF Crash, world
      <4>2. dropped' = (dropped \/ send.step = "intent")
        BY <3>2 DEF Crash
      <4> QED BY <4>1, <4>2, Zenon
    <3> QED BY <1>11, <3>1, <3>2
  <2>2. Excused => Excused'
    BY <2>1 DEF Excused
  <2>3. ~Excused' => ~(eng.pc = "spends" /\ BatchNotes # {}) /\ ~Stranded /\ ~LeftBehind(db, eng')
    BY <2>1 DEF Excused
  <2> QED BY <1>0, <1>1, <1>2, <2>1, <2>2, <2>3, StopFrame
<1>12. CASE RecordMark
  <2>1. Excused => Excused'
    BY <1>12 DEF RecordMark, history, Excused
  <2> QED BY <1>0, <1>1, <1>2, <1>12, <2>1, MarkSeen
<1>13. CASE RecordIntent
  <2>1. Excused => Excused'
    BY <1>13 DEF RecordIntent, history, Excused
  <2> QED BY <1>0, <1>1, <1>2, <1>13, <2>1, IntentSeen
<1>14. CASE ReleaseExpired
  <2>1. Excused => Excused'
    BY <1>14 DEF ReleaseExpired, Excused
  <2> QED BY <1>0, <1>1, <1>2, <1>14, <2>1, ReleaseSeen
<1>15. CASE BuildTx \/ SignTx \/ Broadcast \/ AnswerLost \/ RecordFails \/ UNCHANGED vars
  <2>1. UNCHANGED <<chain, branch, eng, db, freed>> /\ (Excused => Excused')
    BY <1>15 DEF BuildTx, SignTx, Broadcast, AnswerLost, RecordFails, vars, history, world, Excused
  <2> QED BY <1>0, <1>1, <1>2, <2>1, IdleSeen
<1> QED
  BY <1>3, <1>4, <1>5, <1>6, <1>7, <1>8, <1>9, <1>10, <1>11, <1>12, <1>13, <1>14, <1>15
  DEF Next, Scanner, Sender

LEMMA SeenSound == SeenInv => SpendsSeen
<1> SUFFICES ASSUME SeenInv, AtRest, ~blind, ~dropped, ~early, ~orphan, ~stale,
                    NEW t \in Txs, MinedAt(t) \in 1..db.local,
                    NEW n \in (Spends[t] \cap Known(db)) \ freed
             PROVE  db.notes[n].spent
  BY DEF SpendsSeen
<1>0. LedgerTypes /\ LedgerFrame /\ Below
  BY DEF SeenInv, LedgerInv, LedgerSeen, Excused
<1>1. Sound(db.local)
  BY <1>0 DEF AtRest, Sound, HashAt, LedgerFrame, Ids
<1>2. db.local \in Int /\ db.local >= 0
  BY <1>0, Heights
<1>3. Vouched(db.local)
  <2>1. db.local <= Base
    BY <1>0, <1>2 DEF Base, Reach, AtRest, LedgerFrame, Place
  <2>2. db.local \in 0..Base
    BY <1>0, <1>2, <2>1, Heights
  <2> QED BY <1>0, <1>1, <2>2 DEF Below
<1>4. MinedIn(t, MinedAt(t))
  <2>1. Mined(t)
    BY <1>2 DEF Mined
  <2> QED BY <1>0, <2>1, MinedIs DEF MinedIn, Tip
<1>5. SeenIn(t)
  BY <1>3, <1>4 DEF Vouched
<1> QED BY <1>5 DEF SeenIn, Settled

\* For any notes, transactions and chain, and any order of scans, restarts,
\* reorganisations, rescans, repairs and sends: a nullifier the chain reveals at
\* or below the cursor has marked its note spent, but for the excuses the
\* history variables name (ensure_nullifier_cache, apply_spends, sync.rs).
THEOREM SpendsFound == Spec => []SpendsSeen
<1>1. SeenInv /\ [Next]_vars => SeenInv'
  BY SeenStep
<1> QED BY SeenStart, SeenSound, <1>1, PTL DEF Spec

-----------------------------------------------------------------------------
(***************************************************************************)
(* Proofs about AncestorSearch for every window and every server.          *)
(*                                                                         *)
(* The argument: a probe compares with the chain of its own moment, so     *)
(* what a bracket's two ends say is only true of two chains, each seen     *)
(* during the search.  The inductive invariant keeps one witness for each  *)
(* end (Probing, Halving, Walking); when the ends meet the two witnesses   *)
(* bracket the result (Found).  Cost, further down, counts the probes.     *)
(***************************************************************************)

SearchRecord ==
    [pc : {"ready", "probe", "halve", "walk", "done", "failed"}, div : 0..SearchTop,
     stored : SUBSET (0..SearchTop), left : SUBSET (0..SearchTop),
     distance : Nat, lower : Int, upper : Int, probes : Nat]

SearchTypes ==
    /\ shared \in 0..SearchTop /\ remote \in Int
    /\ seen \subseteq 0..SearchTop
    /\ search \in SearchRecord
    /\ search.pc # "ready" => shared \in seen /\ search.div > SearchFloor

\* Below the doubling probes, and above the last of them that failed.
Probing ==
    search.pc = "probe" =>
        /\ search.stored = Window(search.div)
        /\ search.distance >= 1 /\ search.upper > search.div - search.distance
        /\ SearchStop(search.div) < search.upper /\ search.upper <= search.div
        /\ \E b \in seen : b < search.upper

Halving ==
    search.pc = "halve" =>
        /\ search.stored = Window(search.div)
        /\ SearchStop(search.div) <= search.lower /\ search.lower <= search.upper
        /\ search.upper < search.div
        /\ \E a \in seen : search.lower <= a
        /\ \E b \in seen : b <= search.upper

\* The rows walked past are the newest ones, and some chain had none of them.
Walking ==
    search.pc = "walk" =>
        /\ search.left \subseteq search.stored
        /\ \A h \in search.stored \ search.left, k \in search.left : h > k
        /\ \E b \in seen : \A h \in search.stored \ search.left : h > b

Found ==
    search.pc = "done" =>
        \/ search.lower = NoAncestor /\ \E b \in seen : \A h \in search.stored : h > b
        \/ /\ search.lower \in search.stored
           /\ \E a \in seen : search.lower <= a
           /\ \E b \in seen : \A h \in search.stored : h <= b => h <= search.lower

SearchInv == SearchTypes /\ Probing /\ Halving /\ Walking /\ Found

-----------------------------------------------------------------------------
LEMMA Constants ==
  /\ SearchTop \in Nat /\ ReorgDepth \in Nat /\ SearchFloor \in Nat
  /\ SearchFloor < SearchTop /\ ReorgDepth > 0
BY SearchAssumption

LEMMA NoAncestorInt == NoAncestor \in Int
BY DEF NoAncestor

LEMMA HeightsMax ==
  ASSUME NEW T \in SUBSET (0..SearchTop), T # {}
  PROVE  Max(T) \in T /\ \A y \in T : Max(T) >= y
<1>1. T \in SUBSET Nat /\ \A y \in T : y <= SearchTop
  BY Constants
<1> QED BY <1>1, Constants, MaxIsMember

LEMMA StopBelow ==
  ASSUME NEW div \in Nat, div > SearchFloor
  PROVE  /\ SearchStop(div) \in Nat /\ SearchStop(div) < div
         /\ Window(div) = SearchStop(div)..div
BY Constants, MaxOfTwo DEF SearchStop, Window

\* A window as large as its interval has no gap.
LEMMA WholeWindow ==
  ASSUME NEW a \in Nat, NEW b \in Nat, NEW T \in SUBSET (a..b), a <= b,
         Cardinality(T) = b - a + 1
  PROVE  T = a..b
<1>1. IsFiniteSet(a..b) /\ Cardinality(a..b) = b - a + 1
  BY FS_Interval
<1> QED BY <1>1, FS_Subset

LEMMA SearchInitInv == SearchInit => SearchInv
BY Constants DEF SearchInit, SearchInv, SearchTypes, SearchRecord, Probing, Halving, Walking, Found, Ready

LEMMA BeginSearchStep == SearchInv /\ BeginSearch => SearchInv'
<1> SUFFICES ASSUME SearchInv, BeginSearch PROVE SearchInv'
  OBVIOUS
<1>1. shared \in Nat /\ SearchFloor \in Nat /\ SearchTop \in Nat /\ shared <= SearchTop
  BY Constants DEF SearchInv, SearchTypes, SearchRecord
<1>2. PICK div \in Max({shared, SearchFloor}) + 1..SearchTop :
        \E gap \in {0} \cup Window(div) :
          LET local == {h \in Window(div) : h > 0} \ {gap}
              whole == Cardinality(local) = div - SearchStop(div) + 1
          IN search' = [Ready EXCEPT !.pc = IF whole THEN "probe" ELSE "walk",
                                     !.div = div, !.stored = local, !.left = local,
                                     !.upper = div]
  BY DEF BeginSearch
<1>21. PICK gap \in {0} \cup Window(div) :
          LET local == {h \in Window(div) : h > 0} \ {gap}
              whole == Cardinality(local) = div - SearchStop(div) + 1
          IN search' = [Ready EXCEPT !.pc = IF whole THEN "probe" ELSE "walk",
                                     !.div = div, !.stored = local, !.left = local,
                                     !.upper = div]
  BY <1>2
<1>3. div \in 0..SearchTop /\ div > SearchFloor /\ div > shared
  BY <1>1, MaxOfTwo
<1> DEFINE local == {h \in Window(div) : h > 0} \ {gap}
           whole == Cardinality(local) = div - SearchStop(div) + 1
<1>4. /\ SearchStop(div) \in Nat /\ SearchStop(div) < div
      /\ Window(div) = SearchStop(div)..div
  BY <1>3, StopBelow, Constants
<1>5. local \in SUBSET (SearchStop(div)..div) /\ local \in SUBSET (0..SearchTop)
  <2>1. local \subseteq SearchStop(div)..div
    BY <1>4
  <2>2. SearchStop(div)..div \subseteq 0..SearchTop
    BY <1>1, <1>3, <1>4
  <2> QED BY <2>1, <2>2
<1>6. whole => local = Window(div)
  <2> HIDE DEF local
  <2> QED BY <1>3, <1>4, <1>5, WholeWindow
<1>7. search' = [pc |-> IF whole THEN "probe" ELSE "walk", div |-> div, stored |-> local,
                 left |-> local, distance |-> 1, lower |-> 0, upper |-> div, probes |-> 0]
  BY <1>21 DEF Ready
<1>8. shared' = shared /\ remote' = remote /\ seen' = {shared}
  BY DEF BeginSearch
<1> HIDE DEF local, whole
<1>9. SearchTypes'
  BY <1>1, <1>3, <1>5, <1>7, <1>8 DEF SearchTypes, SearchRecord, SearchInv
<1>10. Probing'
  BY <1>1, <1>3, <1>4, <1>6, <1>7, <1>8 DEF Probing
<1>11. Walking'
  BY <1>7, <1>8 DEF Walking
<1> QED BY <1>7, <1>9, <1>10, <1>11 DEF SearchInv, Halving, Found

LEMMA ProbeStep == SearchInv /\ Probe => SearchInv'
<1> SUFFICES ASSUME SearchInv, Probe PROVE SearchInv'
  OBVIOUS
<1> DEFINE div == search.div
           stop == SearchStop(search.div)
           at == BackoffProbe
           more == search.probes + 1
           twice == 2 * search.distance
           below == search.upper - 1
<1>1. /\ div \in Nat /\ div <= SearchTop /\ search.distance \in Nat /\ search.upper \in Int
      /\ search.probes \in Nat /\ shared \in seen /\ shared \in Nat /\ div > SearchFloor
  BY Constants DEF SearchInv, SearchTypes, SearchRecord, Probe
<1>2. stop \in Nat /\ stop < div /\ Window(div) = stop..div
  BY <1>1, StopBelow
<1>3. at = IF div - search.distance >= stop THEN div - search.distance ELSE stop
  BY <1>1, <1>2, MaxOfTwo DEF BackoffProbe
<1>4. at \in Int /\ stop <= at /\ at < search.upper
  BY <1>1, <1>2, <1>3 DEF SearchInv, Probing, Probe
<1>5. /\ shared' = shared /\ remote' = remote /\ seen' = seen
      /\ search.stored = stop..div /\ search.upper <= div
      /\ \E b \in seen : b < search.upper
  BY <1>2 DEF Probe, SearchInv, Probing
<1>50. stop = SearchStop(div) /\ search \in SearchRecord
  BY DEF SearchInv, SearchTypes
<1>51. more \in Nat /\ twice \in Nat /\ below \in Int
  BY <1>1
<1> HIDE DEF stop, at, more, twice, below
<1>6. CASE Same(at)
  <2>1. search' = [search EXCEPT !.probes = more, !.pc = "halve", !.lower = at, !.upper = below]
    BY <1>6 DEF Probe, SearchInv, SearchTypes, at, more, below
  <2>2. SearchTypes'
    <3>1. search' \in SearchRecord
      BY <1>4, <1>50, <1>51, <2>1 DEF SearchRecord
    <3>2. search'.div = search.div
      BY <2>1 DEF SearchInv, SearchTypes, SearchRecord
    <3> QED BY <1>1, <1>5, <3>1, <3>2 DEF SearchInv, SearchTypes
  <2>3. search'.stored = search.stored /\ search'.div = div /\ search'.pc = "halve"
        /\ search'.lower = at /\ search'.upper = below
    BY <2>1 DEF SearchInv, SearchTypes, SearchRecord
  <2>4. \E a \in seen : at <= a
    BY <1>1, <1>6 DEF Same
  <2>5. \E b \in seen : b <= below /\ at <= below /\ below < div
    BY <1>1, <1>4, <1>5 DEF SearchInv, SearchTypes, below
  <2>6. Halving'
    BY <1>1, <1>2, <1>4, <1>5, <1>50, <2>3, <2>4, <2>5 DEF Halving
  <2> QED BY <2>2, <2>3, <2>6 DEF SearchInv, Probing, Walking, Found
<1>7. CASE ~Same(at) /\ at = stop
  <2>1. search' = [search EXCEPT !.probes = more, !.pc = "done", !.lower = NoAncestor]
    BY <1>7 DEF Probe, SearchInv, SearchTypes, at, stop, more, twice, below
  <2>2. SearchTypes'
    <3>1. search' \in SearchRecord
      BY <1>4, <1>50, <1>51, <2>1, NoAncestorInt DEF SearchRecord
    <3>2. search'.div = search.div
      BY <2>1 DEF SearchInv, SearchTypes, SearchRecord
    <3> QED BY <1>1, <1>5, <3>1, <3>2 DEF SearchInv, SearchTypes
  <2>3. search'.stored = search.stored /\ search'.pc = "done" /\ search'.lower = NoAncestor
    BY <2>1 DEF SearchInv, SearchTypes, SearchRecord
  <2>4. \A h \in search.stored : h > shared
    BY <1>1, <1>2, <1>5, <1>7 DEF Same
  <2>5. Found'
    BY <1>1, <1>5, <2>3, <2>4 DEF Found
  <2> QED BY <2>2, <2>3, <2>5 DEF SearchInv, Probing, Walking, Halving
<1>8. CASE ~Same(at) /\ at # stop
  <2>1. search' = [search EXCEPT !.probes = more, !.upper = at, !.distance = twice]
    BY <1>8 DEF Probe, SearchInv, SearchTypes, at, stop, more, twice, below
  <2>2. SearchTypes'
    <3>1. search' \in SearchRecord
      BY <1>4, <1>50, <1>51, <2>1 DEF SearchRecord
    <3>2. search'.div = search.div
      BY <2>1 DEF SearchInv, SearchTypes, SearchRecord
    <3> QED BY <1>1, <1>5, <3>1, <3>2 DEF SearchInv, SearchTypes
  <2>3. /\ search'.stored = search.stored /\ search'.pc = "probe" /\ search'.div = div
        /\ search'.upper = at /\ search'.distance = twice
    BY <2>1 DEF SearchInv, SearchTypes, SearchRecord, Probe
  <2>4. \E b \in seen : b < at
    BY <1>1, <1>4, <1>8 DEF Same
  <2>5. search.distance >= 1
    BY DEF SearchInv, Probing, Probe
  <2>6. at > div - twice /\ twice >= 1
    BY <1>1, <1>2, <1>3, <1>8, <2>5 DEF twice
  <2>7. Probing'
    <3>1. search'.stored = Window(search'.div) /\ SearchStop(search'.div) = stop
      BY <1>2, <1>5, <1>50, <2>3
    <3>2. search'.upper <= search'.div /\ stop < search'.upper
      BY <1>1, <1>2, <1>4, <1>5, <1>8, <2>3
    <3> QED BY <1>5, <2>3, <2>4, <2>6, <3>1, <3>2 DEF Probing
  <2> QED BY <2>2, <2>3, <2>7 DEF SearchInv, Found, Walking, Halving
<1> QED BY <1>6, <1>7, <1>8

LEMMA HalveStep == SearchInv /\ (Halve \/ HalveDone) => SearchInv'
<1> SUFFICES ASSUME SearchInv, Halve \/ HalveDone PROVE SearchInv'
  OBVIOUS
<1>1. /\ search.pc = "halve" /\ search.div \in Nat /\ search.lower \in Int /\ search.upper \in Int
      /\ search.probes \in Nat /\ shared \in seen /\ shared \in Nat /\ search.div > SearchFloor
      /\ shared' = shared /\ remote' = remote /\ seen' = seen /\ seen \subseteq Nat
  BY DEF SearchInv, SearchTypes, SearchRecord, Halve, HalveDone
<1>2. /\ search.stored = Window(search.div)
      /\ SearchStop(search.div) <= search.lower /\ search.lower <= search.upper
      /\ search.upper < search.div
      /\ \E a \in seen : search.lower <= a
      /\ \E b \in seen : b <= search.upper
  BY <1>1 DEF SearchInv, Halving
<1>3. /\ SearchStop(search.div) \in Nat /\ Window(search.div) = SearchStop(search.div)..search.div
  BY <1>1, StopBelow
<1> DEFINE more == search.probes + 1
<1>31. more \in Nat /\ search \in SearchRecord
  BY <1>1 DEF SearchInv, SearchTypes
<1> HIDE DEF more
<1>4. CASE Halve
  <2> DEFINE half == Halfway
             below == half - 1
  <2>1. /\ half \in Int /\ search.lower < half /\ half <= search.upper
        /\ below \in Int /\ search.lower <= below /\ below < search.upper /\ below < half
    BY <1>1, <1>4 DEF Halfway, Halve
  <2> HIDE DEF half, below
  <2>2. CASE Same(half)
    <3>1. search' = [search EXCEPT !.lower = half, !.probes = more]
      BY <1>4, <2>2 DEF Halve, half, below, more
    <3>2. SearchTypes'
      <4>1. search' \in SearchRecord
        BY <1>31, <2>1, <3>1 DEF SearchRecord
      <4>2. search'.div = search.div
        BY <3>1 DEF SearchInv, SearchTypes, SearchRecord
      <4> QED BY <1>1, <4>1, <4>2 DEF SearchInv, SearchTypes
    <3>3. /\ search'.stored = search.stored /\ search'.pc = "halve" /\ search'.div = search.div
          /\ search'.lower = half /\ search'.upper = search.upper
      BY <1>1, <3>1 DEF SearchInv, SearchTypes, SearchRecord
    <3>4. \E a \in seen : half <= a
      BY <1>1, <2>2 DEF Same
    <3>5. Halving'
      <4>1. search'.upper < search'.div /\ SearchStop(search'.div) <= search'.lower
        BY <1>1, <1>2, <1>3, <2>1, <3>3
      <4>2. search'.lower <= search'.upper
        BY <2>1, <3>3
      <4> QED BY <1>1, <1>2, <3>3, <3>4, <4>1, <4>2 DEF Halving
    <3> QED BY <3>2, <3>3, <3>5 DEF SearchInv, Probing, Walking, Found
  <2>3. CASE ~Same(half)
    <3>1. search' = [search EXCEPT !.upper = below, !.probes = more]
      BY <1>4, <2>3 DEF Halve, half, below, more
    <3>2. SearchTypes'
      <4>1. search' \in SearchRecord
        BY <1>31, <2>1, <3>1 DEF SearchRecord
      <4>2. search'.div = search.div
        BY <3>1 DEF SearchInv, SearchTypes, SearchRecord
      <4> QED BY <1>1, <4>1, <4>2 DEF SearchInv, SearchTypes
    <3>3. /\ search'.stored = search.stored /\ search'.pc = "halve" /\ search'.div = search.div
          /\ search'.lower = search.lower /\ search'.upper = below
      BY <1>1, <3>1 DEF SearchInv, SearchTypes, SearchRecord
    <3>4. \E b \in seen : b <= below
      BY <1>1, <2>1, <2>3 DEF Same, below
    <3>5. Halving'
      <4>1. search'.upper < search'.div /\ SearchStop(search'.div) <= search'.lower
        BY <1>1, <1>2, <1>3, <2>1, <3>3
      <4>2. search'.lower <= search'.upper
        BY <2>1, <3>3
      <4> QED BY <1>1, <1>2, <3>3, <3>4, <4>1, <4>2 DEF Halving
    <3> QED BY <3>2, <3>3, <3>5 DEF SearchInv, Probing, Walking, Found
  <2> QED BY <2>2, <2>3
<1>5. CASE HalveDone
  <2>1. search' = [search EXCEPT !.pc = "done"] /\ search.lower = search.upper
    BY <1>1, <1>2, <1>5 DEF HalveDone
  <2>2. SearchTypes'
    <3>1. search' \in SearchRecord
      BY <1>31, <2>1 DEF SearchRecord
    <3>2. search'.div = search.div
      BY <2>1 DEF SearchInv, SearchTypes, SearchRecord
    <3> QED BY <1>1, <3>1, <3>2 DEF SearchInv, SearchTypes
  <2>3. search'.stored = search.stored /\ search'.pc = "done" /\ search'.lower = search.lower
    BY <2>1 DEF SearchInv, SearchTypes, SearchRecord
  <2>4. search.lower \in search.stored
    BY <1>1, <1>2, <1>3
  <2>5. \E b \in seen : \A h \in search.stored : h <= b => h <= search.lower
    BY <1>1, <1>2, <1>3, <2>1
  <2>6. Found'
    BY <1>1, <1>2, <2>3, <2>4, <2>5 DEF Found
  <2> QED BY <2>2, <2>3, <2>6 DEF SearchInv, Probing, Walking, Halving
<1> QED BY <1>4, <1>5

LEMMA WalkStep == SearchInv /\ (Walk \/ WalkDone) => SearchInv'
<1> SUFFICES ASSUME SearchInv, Walk \/ WalkDone PROVE SearchInv'
  OBVIOUS
<1>1. /\ search.pc = "walk" /\ search.div \in Nat /\ search.div > SearchFloor
      /\ search.stored \in SUBSET (0..SearchTop) /\ search.left \in SUBSET (0..SearchTop)
      /\ search.probes \in Nat /\ shared \in seen /\ shared \in Nat
      /\ shared' = shared /\ remote' = remote /\ seen' = seen /\ seen \subseteq Nat
  BY DEF SearchInv, SearchTypes, SearchRecord, Walk, WalkDone
<1>2. /\ search.left \subseteq search.stored
      /\ \A h \in search.stored \ search.left, k \in search.left : h > k
      /\ \E b \in seen : \A h \in search.stored \ search.left : h > b
  BY <1>1 DEF SearchInv, Walking
<1> DEFINE more == search.probes + 1
<1>21. more \in Nat /\ search \in SearchRecord
  BY <1>1 DEF SearchInv, SearchTypes
<1> HIDE DEF more
<1>3. CASE Walk
  <2> DEFINE m == WalkNext
  <2>1. m \in search.left /\ \A y \in search.left : m >= y
    BY <1>1, <1>3, HeightsMax DEF Walk, WalkNext
  <2>2. m \in Nat /\ m \in Int /\ m \in search.stored
    BY <1>1, <1>2, <2>1
  <2> HIDE DEF m
  <2>3. CASE Same(m)
    <3>1. search' = [search EXCEPT !.pc = "done", !.lower = m, !.probes = more]
      BY <1>3, <2>3 DEF Walk, m, more
    <3>2. SearchTypes'
      <4>1. search' \in SearchRecord
        BY <1>21, <2>2, <3>1 DEF SearchRecord
      <4>2. search'.div = search.div
        BY <3>1 DEF SearchInv, SearchTypes, SearchRecord
      <4> QED BY <1>1, <4>1, <4>2 DEF SearchInv, SearchTypes
    <3>3. search'.stored = search.stored /\ search'.pc = "done" /\ search'.lower = m
      BY <3>1 DEF SearchInv, SearchTypes, SearchRecord
    <3>4. \E a \in seen : m <= a
      BY <1>1, <2>3 DEF Same
    <3>5. \E b \in seen : \A h \in search.stored : h <= b => h <= m
      <4>1. PICK b \in seen : \A h \in search.stored \ search.left : h > b
        BY <1>2
      <4>2. \A h \in search.stored : h <= b => h <= m
        BY <1>1, <2>1, <2>2, <4>1
      <4> QED BY <4>2
    <3>6. Found'
      BY <1>1, <2>2, <3>3, <3>4, <3>5 DEF Found
    <3> QED BY <3>2, <3>3, <3>6 DEF SearchInv, Probing, Walking, Halving
  <2>4. CASE ~Same(m)
    <3>1. search' = [search EXCEPT !.left = @ \ {m}, !.probes = more]
      BY <1>3, <2>4 DEF Walk, m, more
    <3>2. SearchTypes'
      <4>1. search' \in SearchRecord
        BY <1>21, <2>2, <3>1 DEF SearchRecord
      <4>2. search'.div = search.div
        BY <3>1 DEF SearchInv, SearchTypes, SearchRecord
      <4> QED BY <1>1, <4>1, <4>2 DEF SearchInv, SearchTypes
    <3>3. /\ search'.stored = search.stored /\ search'.pc = "walk"
          /\ search'.left = search.left \ {m}
      BY <1>1, <3>1 DEF SearchInv, SearchTypes, SearchRecord
    <3>4. \A h \in search.stored \ search'.left : h >= m
      BY <1>1, <1>2, <2>1, <2>2, <3>3
    <3>5. \A h \in search.stored \ search'.left : h > shared
      BY <1>1, <2>2, <2>4, <3>4 DEF Same
    <3>6. \A h \in search.stored \ search'.left, k \in search'.left : h > k
      BY <1>1, <1>2, <2>1, <2>2, <3>3
    <3>7. Walking'
      BY <1>1, <1>2, <3>3, <3>5, <3>6 DEF Walking
    <3> QED BY <3>2, <3>3, <3>7 DEF SearchInv, Probing, Found, Halving
  <2> QED BY <2>3, <2>4
<1>4. CASE WalkDone
  <2>1. search' = [search EXCEPT !.pc = "done", !.lower = NoAncestor] /\ search.left = {}
    BY <1>4 DEF WalkDone
  <2>2. SearchTypes'
    <3>1. search' \in SearchRecord
      BY <1>21, <2>1, NoAncestorInt DEF SearchRecord
    <3>2. search'.div = search.div
      BY <2>1 DEF SearchInv, SearchTypes, SearchRecord
    <3> QED BY <1>1, <3>1, <3>2 DEF SearchInv, SearchTypes
  <2>3. search'.stored = search.stored /\ search'.pc = "done" /\ search'.lower = NoAncestor
    BY <2>1 DEF SearchInv, SearchTypes, SearchRecord
  <2>4. Found'
    BY <1>1, <1>2, <2>1, <2>3 DEF Found
  <2> QED BY <2>2, <2>3, <2>4 DEF SearchInv, Probing, Walking, Halving
<1> QED BY <1>3, <1>4

LEMMA FailsStep == SearchInv /\ SearchFails => SearchInv'
<1> SUFFICES ASSUME SearchInv, SearchFails PROVE SearchInv'
  OBVIOUS
<1>1. SearchTypes' /\ search'.pc = "failed"
  BY DEF SearchInv, SearchTypes, SearchRecord, SearchFails
<1> QED BY <1>1 DEF SearchInv, Probing, Walking, Halving, Found

(* The witnesses survive a change of chain: what was seen stays seen. *)
LEMMA ForkStep == SearchInv /\ Fork => SearchInv'
<1> SUFFICES ASSUME SearchInv, Fork PROVE SearchInv'
  OBVIOUS
<1>1. /\ search' = search /\ seen' = seen \cup {shared'} /\ shared' \in 0..search.div
      /\ remote' \in {search.div - 1, search.div}
  BY DEF Fork
<1>2. SearchTypes'
  BY <1>1, Constants DEF SearchInv, SearchTypes, SearchRecord
<1>3. Probing'
  BY <1>1 DEF SearchInv, Probing
<1>4. Halving'
  BY <1>1 DEF SearchInv, Halving
<1>5. Walking'
  BY <1>1 DEF SearchInv, Walking
<1>6. Found'
  BY <1>1 DEF SearchInv, Found
<1> QED BY <1>2, <1>3, <1>4, <1>5, <1>6 DEF SearchInv

LEMMA SearchInductive == SearchSpec => []SearchInv
<1>1. SearchInv /\ [SearchNext]_searchVars => SearchInv'
  <2> SUFFICES ASSUME SearchInv, [SearchNext]_searchVars PROVE SearchInv'
    OBVIOUS
  <2>1. CASE UNCHANGED searchVars
    BY <2>1 DEF searchVars, SearchInv, SearchTypes, SearchRecord, Probing, Halving, Walking, Found
  <2>2. CASE SearchNext
    BY <2>2, BeginSearchStep, ProbeStep, HalveStep, WalkStep, FailsStep, ForkStep
       DEF SearchNext, Searcher
  <2> QED BY <2>1, <2>2
<1> QED BY <1>1, SearchInitInv, PTL DEF SearchSpec

-----------------------------------------------------------------------------
(* The newest row a chain shares with the store, as a number. *)
LEMMA NewestStoredIs ==
  ASSUME SearchTypes, NEW a \in 0..SearchTop
  PROVE  /\ NewestStored(a) \in -1..SearchTop
         /\ \A h \in search.stored : h <= a => h <= NewestStored(a)
         /\ NewestStored(a) # NoAncestor => NewestStored(a) \in search.stored /\ NewestStored(a) <= a
<1> DEFINE rows == {h \in search.stored : h <= a}
<1>1. rows \in SUBSET (0..SearchTop)
  BY DEF SearchTypes, SearchRecord
<1>2. CASE rows = {}
  BY <1>2, Constants DEF NewestStored, NoAncestor, SearchTypes, SearchRecord
<1>3. CASE rows # {}
  <2>1. Max(rows) \in rows /\ \A y \in rows : Max(rows) >= y
    <3> HIDE DEF rows
    <3> QED BY <1>1, <1>3, HeightsMax
  <2>2. NewestStored(a) = Max(rows)
    BY <1>3 DEF NewestStored
  <2> QED BY <1>1, <2>1, <2>2, Constants
<1> QED BY <1>2, <1>3

LEMMA FoundBracketed == SearchInv => AncestorBracketed
<1> SUFFICES ASSUME SearchInv, search.pc = "done"
             PROVE  /\ search.lower <= Max({NewestStored(a) : a \in seen})
                    /\ search.lower >= Min({NewestStored(a) : a \in seen})
  BY DEF AncestorBracketed
<1> DEFINE N == {NewestStored(a) : a \in seen}
<1>1. SearchTypes /\ shared \in seen /\ seen \subseteq 0..SearchTop
      /\ search.stored \subseteq 0..SearchTop /\ search.lower \in Int
  BY DEF SearchInv, SearchTypes, SearchRecord
<1>2. N \in SUBSET (-1..SearchTop) /\ N # {}
  BY <1>1, NewestStoredIs
<1>3. /\ Max(N) \in N /\ \A y \in N : Max(N) >= y
      /\ Min(N) \in N /\ \A y \in N : Min(N) <= y
  <2> HIDE DEF N
  <2>1. -1 \in Int /\ SearchTop \in Int
    BY Constants
  <2>2. Max(N) \in N /\ \A y \in N : Max(N) >= y
    BY <1>2, <2>1, MaxOfBounded
  <2>3. Min(N) \in N /\ \A y \in N : Min(N) <= y
    BY <1>2, <2>1, MinOfBounded
  <2> QED BY <2>2, <2>3
<1>4. Max(N) \in Int /\ Min(N) \in Int
  BY <1>2, <1>3
<1>5. CASE search.lower = NoAncestor /\ \E b \in seen : \A h \in search.stored : h > b
  <2>1. PICK b \in seen : \A h \in search.stored : h > b
    BY <1>5
  <2>2. NewestStored(b) = NoAncestor /\ NewestStored(b) \in N
    BY <1>1, <2>1, NewestStoredIs
  <2> QED BY <1>3, <1>4, <1>5, <2>2 DEF NoAncestor
<1>6. CASE /\ search.lower \in search.stored
           /\ \E a \in seen : search.lower <= a
           /\ \E b \in seen : \A h \in search.stored : h <= b => h <= search.lower
  <2>1. PICK a \in seen : search.lower <= a
    BY <1>6
  <2>2. search.lower <= NewestStored(a) /\ NewestStored(a) \in N
    BY <1>1, <1>6, <2>1, NewestStoredIs
  <2>3. PICK b \in seen : \A h \in search.stored : h <= b => h <= search.lower
    BY <1>6
  <2>4. NewestStored(b) <= search.lower /\ NewestStored(b) \in N
    BY <1>1, <1>6, <2>3, NewestStoredIs, Constants DEF NoAncestor
  <2>5. NewestStored(a) \in Int /\ NewestStored(b) \in Int
    BY <1>2, <2>2, <2>4
  <2>6. Max(N) >= NewestStored(a) /\ Min(N) <= NewestStored(b)
    BY <1>3, <2>2, <2>4
  <2> HIDE DEF N
  <2>7. search.lower <= Max(N)
    BY <1>1, <1>4, <2>2, <2>5, <2>6
  <2>8. search.lower >= Min(N)
    BY <1>1, <1>4, <2>4, <2>5, <2>6
  <2> QED BY <2>7, <2>8 DEF N
<1> QED BY <1>5, <1>6 DEF SearchInv, Found

(* find_common_ancestor_bounded rewinds neither too little nor too far: for *)
(* every search depth, every set of stored rows with a gap or none, and any *)
(* number of chain changes between its probes, the ancestor it returns lies *)
(* between the oldest and the newest answer the chains it saw would give.   *)
THEOREM AncestorFound == SearchSpec => []AncestorBracketed
BY SearchInductive, FoundBracketed, PTL

-----------------------------------------------------------------------------
(* The cost of a search.  The doubling distance is a power of two and the    *)
(* bracket it leaves is smaller than half of it, so halving takes one probe  *)
(* fewer than doubling did.  The recursive definition of the powers is shown *)
(* to have the solution it describes, from the ones below each number.       *)

LEMMA PowersExist ==
  \E f : f = [k \in Nat |-> IF k = 0 THEN 1 ELSE 2 * f[k - 1]]
<1> DEFINE Upto(f, n) == f = [k \in 0..n |-> IF k = 0 THEN 1 ELSE 2 * f[k - 1]]
           Missing == {n \in Nat : ~\E f : Upto(f, n)}
<1>1. \A n \in Nat : \E f : Upto(f, n)
  <2> SUFFICES ASSUME Missing # {} PROVE FALSE
    OBVIOUS
  <2>1. PICK n \in Missing : \A m \in Missing : n <= m
    BY NatMinExists
  <2>2. n \in Nat /\ ~\E f : Upto(f, n)
    OBVIOUS
  <2>3. CASE n = 0
    <3> DEFINE g == [k \in 0..0 |-> 1]
    <3>1. Upto(g, 0)
      OBVIOUS
    <3> QED BY <2>2, <2>3, <3>1
  <2>4. CASE n # 0
    <3>1. n - 1 \in Nat /\ n - 1 \notin Missing
      <4> HIDE DEF Missing
      <4> QED BY <2>1, <2>2, <2>4
    <3>2. PICK f : Upto(f, n - 1)
      BY <3>1
    <3> DEFINE g == [k \in 0..n |-> IF k = n THEN 2 * f[n - 1] ELSE f[k]]
               h == [k \in 0..n |-> IF k = 0 THEN 1 ELSE 2 * g[k - 1]]
    <3>3. ASSUME NEW k \in 0..n
          PROVE  g[k] = IF k = 0 THEN 1 ELSE 2 * g[k - 1]
      <4>1. CASE k = 0
        BY <2>2, <2>4, <3>2, <4>1
      <4>2. CASE k # 0 /\ k # n
        BY <2>2, <2>4, <3>2, <4>2
      <4>3. CASE k = n
        BY <2>2, <2>4, <3>2, <4>3
      <4> QED BY <4>1, <4>2, <4>3
    <3>4. g = h
      BY <3>3
    <3> QED BY <2>2, <3>4
  <2> QED BY <2>3, <2>4
<1>2. ASSUME NEW n \in Nat, NEW m \in Nat, NEW f, NEW g, Upto(f, n), Upto(g, m), NEW k \in Nat,
             k <= n, k <= m
      PROVE  f[k] = g[k]
  <2> DEFINE Differ == {i \in Nat : i <= n /\ i <= m /\ f[i] # g[i]}
  <2> SUFFICES ASSUME Differ # {} PROVE FALSE
    BY <1>2
  <2>1. PICK i \in Differ : \A j \in Differ : i <= j
    BY NatMinExists
  <2>2. f[0] = 1 /\ g[0] = 1
    BY <1>2
  <2>3. i \in Nat /\ i <= n /\ i <= m /\ f[i] # g[i] /\ i # 0
    BY <2>2
  <2>4. i - 1 \in Nat /\ i - 1 \notin Differ
    <3> HIDE DEF Differ
    <3> QED BY <2>1, <2>3
  <2>5. f[i - 1] = g[i - 1]
    BY <2>3, <2>4
  <2>6. f[i] = 2 * f[i - 1] /\ g[i] = 2 * g[i - 1]
    BY <1>2, <2>3
  <2> QED BY <2>3, <2>5, <2>6
<1> DEFINE F(n) == CHOOSE f : Upto(f, n)
           G == [n \in Nat |-> F(n)[n]]
           H == [n \in Nat |-> IF n = 0 THEN 1 ELSE 2 * G[n - 1]]
<1>3. \A n \in Nat : Upto(F(n), n)
  <2> HIDE DEF Upto
  <2> QED BY <1>1
<1> HIDE DEF F
<1>4. ASSUME NEW n \in Nat PROVE G[n] = H[n]
  <2>1. CASE n = 0
    BY <1>3, <2>1
  <2>2. CASE n # 0
    <3>1. n - 1 \in Nat
      BY <2>2
    <3>2. F(n)[n] = 2 * F(n)[n - 1]
      BY <1>3, <2>2
    <3>3. F(n)[n - 1] = F(n - 1)[n - 1]
      <4> DEFINE m == n - 1
      <4>0. m \in Nat /\ m <= n /\ m <= m
        BY <3>1
      <4> HIDE DEF Upto, m
      <4>1. Upto(F(n), n) /\ Upto(F(m), m)
        BY <1>3, <4>0
      <4>2. F(n)[m] = F(m)[m]
        BY <1>2, <4>0, <4>1
      <4> QED BY <4>2 DEF m
    <3> QED BY <2>2, <3>1, <3>2, <3>3
  <2> QED BY <2>1, <2>2
<1>5. G = H
  <2> HIDE DEF F
  <2> QED BY <1>4
<1> HIDE DEF G
<1> QED BY <1>5

LEMMA Powers ==
  /\ TwoTo[0] = 1
  /\ \A k \in Nat : k # 0 => TwoTo[k] = 2 * TwoTo[k - 1]
<1>1. TwoTo = [k \in Nat |-> IF k = 0 THEN 1 ELSE 2 * TwoTo[k - 1]]
  BY PowersExist DEF TwoTo
<1> QED BY <1>1

LEMMA PowersGrow == \A k \in Nat : TwoTo[k] \in Nat /\ TwoTo[k] > k
<1> DEFINE Small == {k \in Nat : ~(TwoTo[k] \in Nat /\ TwoTo[k] > k)}
<1> SUFFICES ASSUME Small # {} PROVE FALSE
  OBVIOUS
<1>1. PICK k \in Small : \A j \in Small : k <= j
  BY NatMinExists
<1>2. k \in Nat /\ ~(TwoTo[k] \in Nat /\ TwoTo[k] > k)
  OBVIOUS
<1>3. k # 0
  BY <1>2, Powers
<1>4. k - 1 \in Nat /\ k - 1 \notin Small
  <2> HIDE DEF Small
  <2> QED BY <1>1, <1>2, <1>3
<1>5. TwoTo[k - 1] \in Nat /\ TwoTo[k - 1] > k - 1
  BY <1>4
<1>6. TwoTo[k] = 2 * TwoTo[k - 1]
  BY <1>2, <1>3, Powers
<1> QED BY <1>2, <1>3, <1>5, <1>6
\* What the probes so far have cost, and what the bracket left may still cost.
WindowSize(s) == s.div - SearchStop(s.div) + 1
Cost ==
    /\ search.pc = "probe" =>
          /\ search.distance = TwoTo[search.probes]
          /\ search.upper = IF search.probes = 0 THEN search.div
                            ELSE search.div - TwoTo[search.probes - 1]
    /\ search.pc = "halve" =>
          \E k \in Nat, j \in Nat : /\ TwoTo[k] <= WindowSize(search)
                                    /\ search.upper - search.lower < TwoTo[j]
                                    /\ search.probes + j <= 2 * k + 2
    /\ search.pc = "walk" => search.stored # Window(search.div)
    /\ search.pc = "done" /\ search.stored = Window(search.div) =>
          \E k \in Nat : TwoTo[k] <= WindowSize(search) /\ search.probes <= 2 * k + 2

LEMMA CostInit == SearchInit => Cost
BY DEF SearchInit, Cost, Ready

LEMMA CostBegin == SearchInv /\ BeginSearch => Cost'
<1> SUFFICES ASSUME SearchInv, BeginSearch PROVE Cost'
  OBVIOUS
<1>1. shared \in Nat /\ SearchFloor \in Nat /\ SearchTop \in Nat
  BY Constants DEF SearchInv, SearchTypes, SearchRecord
<1>2. PICK div \in Max({shared, SearchFloor}) + 1..SearchTop :
        \E gap \in {0} \cup Window(div) :
          LET local == {h \in Window(div) : h > 0} \ {gap}
              whole == Cardinality(local) = div - SearchStop(div) + 1
          IN search' = [Ready EXCEPT !.pc = IF whole THEN "probe" ELSE "walk",
                                     !.div = div, !.stored = local, !.left = local,
                                     !.upper = div]
  BY DEF BeginSearch
<1>3. PICK gap \in {0} \cup Window(div) :
          LET local == {h \in Window(div) : h > 0} \ {gap}
              whole == Cardinality(local) = div - SearchStop(div) + 1
          IN search' = [Ready EXCEPT !.pc = IF whole THEN "probe" ELSE "walk",
                                     !.div = div, !.stored = local, !.left = local,
                                     !.upper = div]
  BY <1>2
<1> DEFINE local == {h \in Window(div) : h > 0} \ {gap}
           whole == Cardinality(local) = div - SearchStop(div) + 1
           pc == IF whole THEN "probe" ELSE "walk"
<1>4. div \in Nat /\ div > SearchFloor
  BY <1>1, MaxOfTwo
<1>5. search' = [Ready EXCEPT !.pc = pc, !.div = div, !.stored = local, !.left = local, !.upper = div]
  BY <1>3
<1>6. ~whole => local # Window(div)
  <2>1. SearchStop(div) \in Nat /\ SearchStop(div) < div /\ Window(div) = SearchStop(div)..div
    BY <1>4, StopBelow
  <2>2. Cardinality(Window(div)) = div - SearchStop(div) + 1
    BY <1>4, <2>1, FS_Interval
  <2> QED BY <2>2
<1>7. pc \in {"probe", "walk"} /\ (pc = "walk" => local # Window(div))
  BY <1>6
<1> HIDE DEF local, whole, pc
<1>8. /\ search'.pc = pc /\ search'.div = div /\ search'.stored = local /\ search'.upper = div
      /\ search'.probes = 0 /\ search'.distance = 1
  BY <1>5 DEF Ready
<1> QED BY <1>7, <1>8, Powers DEF Cost

LEMMA CostProbe == SearchInv /\ Cost /\ Probe => Cost'
<1> SUFFICES ASSUME SearchInv, Cost, Probe PROVE Cost'
  OBVIOUS
<1> DEFINE div == search.div
           stop == SearchStop(search.div)
           at == BackoffProbe
           p == search.probes
           d == TwoTo[p]
           last == TwoTo[p - 1]
<1>1. /\ div \in Nat /\ search.distance \in Nat /\ search.upper \in Int /\ p \in Nat
      /\ div > SearchFloor /\ search.pc = "probe" /\ stop < search.upper
      /\ search.stored = Window(div)
  BY DEF SearchInv, SearchTypes, SearchRecord, Probe, Probing
<1>2. stop \in Nat /\ stop < div
  BY <1>1, StopBelow
<1>3. search.distance = d /\ d \in Nat /\ d > p
  BY <1>1, PowersGrow DEF Cost
<1>4. at = IF div - d >= stop THEN div - d ELSE stop
  BY <1>1, <1>2, <1>3, MaxOfTwo DEF BackoffProbe
<1>5. p = 0 => d = 1 /\ search.upper = div
  BY <1>1, Powers DEF Cost
<1>6. p # 0 => p - 1 \in Nat /\ last \in Nat /\ d = 2 * last /\ search.upper = div - last
  BY <1>1, Powers, PowersGrow DEF Cost
<1>7. TwoTo[p + 1] = 2 * d
  <2>1. p + 1 \in Nat /\ p + 1 # 0 /\ (p + 1) - 1 = p
    BY <1>1
  <2> QED BY <2>1, Powers
<1> DEFINE k == IF p = 0 THEN 0 ELSE p - 1
<1>8. k \in Nat /\ TwoTo[k] <= div - stop /\ p + 1 + k <= 2 * k + 2 /\ TwoTo[k] \in Nat
  <2>1. CASE p = 0
    BY <1>1, <1>2, <2>1, Powers
  <2>2. CASE p # 0
    <3>1. last <= div - stop
      BY <1>1, <1>2, <1>6, <2>2
    <3> QED BY <1>1, <1>6, <2>2, <3>1
  <2> QED BY <2>1, <2>2
<1>9. search \in SearchRecord
  BY DEF SearchInv, SearchTypes
<1> DEFINE more == p + 1
           below == search.upper - 1
           twice == 2 * search.distance
<1> HIDE DEF at, stop, more, below, twice
<1>10. CASE Same(at)
  <2>1. search' = [search EXCEPT !.probes = more, !.pc = "halve", !.lower = at, !.upper = below]
    BY <1>10 DEF Probe, at, more, below
  <2>2. /\ search'.pc = "halve" /\ search'.probes = more /\ search'.lower = at
        /\ search'.upper = below /\ search'.div = div
    BY <1>9, <2>1 DEF SearchRecord
  <2>3. below - at < TwoTo[k] /\ more + k <= 2 * k + 2
    <3>1. CASE p = 0
      BY <1>1, <1>2, <1>4, <1>5, <1>8, <3>1, Powers DEF below, more
    <3>2. CASE p # 0
      BY <1>1, <1>2, <1>4, <1>6, <1>8, <3>2 DEF below, more
    <3> QED BY <3>1, <3>2
  <2>4. TwoTo[k] <= WindowSize(search')
    BY <1>1, <1>2, <1>8, <2>2 DEF WindowSize, stop
  <2> HIDE DEF k
  <2> QED BY <1>8, <2>2, <2>3, <2>4 DEF Cost
<1>11. CASE ~Same(at) /\ at = stop
  <2>1. search' = [search EXCEPT !.probes = more, !.pc = "done", !.lower = NoAncestor]
    BY <1>11 DEF Probe, at, stop, more
  <2>2. search'.pc = "done" /\ search'.probes = more /\ search'.div = div
    BY <1>9, <2>1 DEF SearchRecord
  <2>3. TwoTo[k] <= WindowSize(search') /\ more <= 2 * k + 2
    BY <1>1, <1>2, <1>8, <2>2 DEF WindowSize, stop, more
  <2> HIDE DEF k
  <2> QED BY <1>8, <2>2, <2>3 DEF Cost
<1>12. CASE ~Same(at) /\ at # stop
  <2>1. search' = [search EXCEPT !.probes = more, !.upper = at, !.distance = twice]
    BY <1>12 DEF Probe, at, stop, more, twice
  <2>2. /\ search'.pc = "probe" /\ search'.probes = more /\ search'.upper = at
        /\ search'.distance = twice /\ search'.div = div
    BY <1>1, <1>9, <2>1 DEF SearchRecord
  <2>3. at = div - d
    BY <1>4, <1>12
  <2>4. more # 0 /\ more - 1 = p /\ TwoTo[more] = twice
    BY <1>1, <1>3, <1>7 DEF more, twice
  <2>5. search'.distance = TwoTo[search'.probes]
    BY <2>2, <2>4
  <2>6. search'.upper = search'.div - TwoTo[search'.probes - 1] /\ search'.probes # 0
    BY <2>2, <2>3, <2>4
  <2> QED BY <2>2, <2>5, <2>6 DEF Cost
<1> QED BY <1>10, <1>11, <1>12

LEMMA CostHalve == SearchInv /\ Cost /\ (Halve \/ HalveDone) => Cost'
<1> SUFFICES ASSUME SearchInv, Cost, Halve \/ HalveDone PROVE Cost'
  OBVIOUS
<1>1. /\ search.pc = "halve" /\ search.lower \in Int /\ search.upper \in Int
      /\ search.probes \in Nat /\ search \in SearchRecord /\ search.lower <= search.upper
  BY DEF SearchInv, SearchTypes, SearchRecord, Halving, Halve, HalveDone
<1>2. PICK k \in Nat, j \in Nat : /\ TwoTo[k] <= WindowSize(search)
                                  /\ search.upper - search.lower < TwoTo[j]
                                  /\ search.probes + j <= 2 * k + 2
  BY <1>1 DEF Cost
<1>3. CASE Halve
  <2> DEFINE half == Halfway
             below == half - 1
             more == search.probes + 1
             width == search.upper - search.lower
             i == j - 1
  <2>1. j # 0
    BY <1>1, <1>2, <1>3, Powers DEF Halve
  <2>2. i \in Nat /\ TwoTo[j] = 2 * TwoTo[i] /\ TwoTo[i] \in Nat
    BY <2>1, Powers, PowersGrow
  <2>3. half \in Int /\ 2 * (search.upper - half) <= width /\ 2 * (below - search.lower) <= width
    BY <1>1, <1>3 DEF Halfway, Halve
  <2>4. /\ search.upper - half < TwoTo[i] /\ below - search.lower < TwoTo[i]
        /\ more + i <= 2 * k + 2
    <3>1. width < 2 * TwoTo[i] /\ width \in Int
      BY <1>1, <1>2, <2>2
    <3> HIDE DEF half, width
    <3> QED BY <1>1, <1>2, <2>2, <2>3, <3>1
  <2>5. /\ search'.pc = "halve" /\ search'.div = search.div /\ search'.probes = more
        /\ \/ search'.lower = half /\ search'.upper = search.upper
           \/ search'.lower = search.lower /\ search'.upper = below
    <3> HIDE DEF half, below, more
    <3>1. search' = [search EXCEPT !.lower = half, !.probes = more]
          \/ search' = [search EXCEPT !.upper = below, !.probes = more]
      BY <1>3 DEF Halve, half, below, more
    <3> QED BY <1>1, <3>1 DEF SearchRecord
  <2>6. WindowSize(search') = WindowSize(search)
    BY <2>5 DEF WindowSize
  <2>7. search'.upper - search'.lower < TwoTo[i] /\ search'.probes + i <= 2 * k + 2
    <3> HIDE DEF half, below, more, i
    <3> QED BY <2>4, <2>5
  <2> HIDE DEF i
  <2> QED BY <1>2, <2>2, <2>5, <2>6, <2>7 DEF Cost
<1>4. CASE HalveDone
  <2>1. search'.pc = "done" /\ search'.div = search.div /\ search'.probes = search.probes
    BY <1>1, <1>4 DEF HalveDone, SearchRecord
  <2>2. WindowSize(search') = WindowSize(search) /\ search'.probes <= 2 * k + 2
    BY <1>1, <1>2, <2>1 DEF WindowSize
  <2> QED BY <1>2, <2>1, <2>2 DEF Cost
<1> QED BY <1>3, <1>4

LEMMA CostOther ==
  ASSUME SearchInv, Cost, Walk \/ WalkDone \/ SearchFails \/ Fork
  PROVE  Cost'
<1>1. search \in SearchRecord
  BY DEF SearchInv, SearchTypes
<1>2. CASE Fork
  BY <1>2 DEF Fork, Cost
<1>3. CASE SearchFails
  <2>1. search'.pc = "failed"
    BY <1>1, <1>3 DEF SearchFails, SearchRecord
  <2> QED BY <2>1 DEF Cost
<1>4. CASE Walk \/ WalkDone
  <2> DEFINE w == WalkNext
             more == search.probes + 1
             fewer == search.left \ {WalkNext}
  <2>1. search.pc = "walk" /\ search.stored # Window(search.div)
    BY <1>4 DEF Walk, WalkDone, Cost
  <2>2. \/ search' = [search EXCEPT !.pc = "done", !.lower = w, !.probes = more]
        \/ search' = [search EXCEPT !.left = fewer, !.probes = more]
        \/ search' = [search EXCEPT !.pc = "done", !.lower = NoAncestor]
    BY <1>4 DEF Walk, WalkDone
  <2> HIDE DEF w, more, fewer
  <2>3. /\ search'.stored = search.stored /\ search'.div = search.div
        /\ search'.pc \in {"walk", "done"}
    BY <1>1, <2>1, <2>2 DEF SearchRecord
  <2> QED BY <2>1, <2>3 DEF Cost
<1> QED BY <1>2, <1>3, <1>4

LEMMA CostBounds == SearchInv /\ Cost => ProbesLogarithmic
<1> SUFFICES ASSUME SearchInv, Cost, search.pc \in {"halve", "done"},
                    search.stored = Window(search.div)
             PROVE  \E k \in 0..SearchTop : /\ TwoTo[k] <= search.div - SearchStop(search.div) + 1
                                            /\ search.probes <= 2 * k + 2
  BY DEF ProbesLogarithmic
<1>1. /\ search.div \in Nat /\ search.div <= SearchTop /\ search.probes \in Nat
      /\ search.div > SearchFloor
  BY Constants DEF SearchInv, SearchTypes, SearchRecord
<1>2. SearchStop(search.div) \in Nat
  BY <1>1, StopBelow
<1>3. PICK k \in Nat : TwoTo[k] <= WindowSize(search) /\ search.probes <= 2 * k + 2
  BY <1>1 DEF Cost
<1>4. k \in 0..SearchTop
  BY <1>1, <1>2, <1>3, PowersGrow, Constants DEF WindowSize
<1> QED BY <1>3, <1>4 DEF WindowSize

(* find_common_ancestor_bounded asks for few blocks: over a window without   *)
(* gaps it makes at most two probes per doubling, for every search depth and *)
(* however the chain changes meanwhile.                                      *)
THEOREM SearchIsShort == SearchSpec => []ProbesLogarithmic
<1>1. SearchInv /\ Cost /\ [SearchNext]_searchVars => Cost'
  <2> SUFFICES ASSUME SearchInv, Cost, [SearchNext]_searchVars PROVE Cost'
    OBVIOUS
  <2>1. CASE UNCHANGED searchVars
    BY <2>1 DEF searchVars, Cost
  <2>2. CASE SearchNext
    BY <2>2, CostBegin, CostProbe, CostHalve, CostOther DEF SearchNext, Searcher
  <2> QED BY <2>1, <2>2
<1>2. SearchSpec => []Cost
  BY <1>1, CostInit, SearchInductive, PTL DEF SearchSpec
<1> QED BY <1>2, SearchInductive, CostBounds, PTL
=============================================================================
