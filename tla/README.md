# Stashi Wallet: verification of synchronisation, storage and spendability

TLA+ models, model-checking runs and machine-checked proofs for the part of
Stashi Wallet that carries the chain into the wallet, decides **when the wallet
may spend**, **who may write its database**, and keeps its files openable. Paths
below are relative to `src/`; `S` is `crates/pirate-storage-sqlite/src`, `Y` is
`crates/pirate-sync-lightd/src`, `W` is `crates/pirate-wallet-service/src/api`.

## 1. Inventory

### Components, their state and operations

| component | source | state | operations |
|---|---|---|---|
| spendability row | `S/spendability_state.rs` | one SQLite row: `spendable`, `rescan_required`, replay floor and key generation, target / anchor / validated heights, repair flag, interruption latch | record, begin rescan, interrupt, require, complete, finalize, validate, queue repair |
| scan queue | `S/scan_queue.rs` | FoundNote ranges and one historic range | queue, record, activate, finish, clear |
| rewind | `S/sync_state.rs` | the scan cursor and every chain-derived table | `truncate_above_height`, `reset_sync_state`, `save_sync_progress` |
| commitment trees | `Y/sync/shardtree_support.rs`, `S/shardtree_store.rs` | per pool: leaves, checkpoints, retained checkpoints | seed, append, checkpoint, prune, truncate |
| sync engine | `Y/sync.rs` | cursor, window of canonical hashes, position counters, target, repair attempts | connect, validate the resume point, initialise trees, scan, flush, check witnesses, repair, monitor, roll back |
| persistence worker | `Y/sync.rs` | a warm copy of both trees | apply a batch, invalidate |
| ancestor search | `Y/sync.rs` | bracket, probe distance | back off, halve, walk |
| note ledger | `S/repository.rs`, `S/sync_state.rs`, `Y/sync.rs`, `W/tx_flow.rs` | notes with spender, transaction rows, unlinked spends, outgoing intents; nullifier cache in memory | persist, apply spends, truncate, build, sign, broadcast, record, release |
| block intake | `Y/client.rs`, `Y/ordered_stream.rs` | endpoint pool, stripes, permits, assembler | probe, prefix stream, stripe, fail over |
| prefetch flow | `Y/intake.rs`, `Y/sync.rs` | queued bytes, water marks, accumulator, batch channel, look-ahead | reserve, cut, send, scan, restart, rewind |
| block cache | `Y/block_cache.rs` | rows, coverage intervals, in-flight leases | store, load, cover, delete, lead, follow |
| rescan controller | `W/sync_control.rs` | in-flight and active flags | gate, rewind, reset, clear, spawn |
| sync lifecycle | `W/sync_control.rs`, `api.rs` | operation lock, session map, rescan sets, intent generation, tasks | start, stop, switch, rescan, exclusive import, background, transport restart, endpoint change, reset, passphrase change, storage switch |
| key import / removal | `W/key_management.rs`, `S/repository.rs` | account keys, replay floor, generation | import, remove |
| wallet files and passphrase | `W/encrypted_db.rs`, `W/wallet_registry.rs`, `W/provisioning.rs` | registry file, one file per wallet, sealed keys, passphrase in memory, thread-local handle caches | create, delete, unlock, change passphrase, reseal, open |
| background orchestration | `Y/background.rs`, `W/background_sync.rs` | round-robin cursor | bounded runs with a timeout |
| transport / tunnel | `W/tunnel.rs`, `Y/client.rs`, `crates/pirate-net/src/transport.rs`, `W/endpoint.rs` | tunnel mode, selected configuration and its generation, transport manager and its streams, endpoint, failover list | set, bridge settings, bootstrap, shut down, connect, probe, fetch, restart sync channels |
| the rest | sync profile, migrations, keystore, cryptography, proving parameters, Tor / I2P, Qortal, bindings, CLIs | see section 9 | |

### How they interact

Blocks travel from several servers through the intake's assembler, the prefetch
queue and the shared block cache to the scanner of one wallet's engine. The
engine writes a batch in several transactions: the trees through the
persistence worker, the notes, the spends, a checkpoint, the cursor with its
hash rows, the spendability row and queue. An engine, the rescan controller, a
key import and the broadcaster all run SQL statements against the same
database; the statements of one job are *not* one transaction, so crashes and
the broadcaster's second connection come between them. A reorganisation, found
at a resume, at a batch boundary or by the monitor, searches for the common
ancestor and rewinds all of it with `truncate_above_height`. The public status
(`load_spendability_status_internal`) is recomputed from row and queue at every
spend. The lifecycle calls share the operation lock, but the rescan flags, the
session map and the intent generation are also used without it. Every database
is opened through per-thread caches under a key that a passphrase change
replaces file by file.

### What is hard here

* reads and writes of one decision that are separate commits (auxiliary flush,
  witness check, `queue_range`); a batch that is six commits, a rescan that is
  four, a passphrase change that is three per wallet;
* gates that several independent statements raise and lower (rescan gate, replay
  floor, repair flag, interruption latch);
* half-open ranges and heights that mean "tip" in one statement and "tip + 1"
  in another;
* copies: the worker's trees, the nullifier cache, the handle caches, the
  validated horizon of the block cache, each kept true by hand;
* a chain and servers that change between any two remote calls;
* bounded queues and permits among tasks that wait for one another;
* tasks that do not stop when they are told to, plans captured before a lock is
  taken and executed after it, maps cleared behind a running task.

PROJECT.json lists these as hazards, at the line where each bites.

### What makes the components correct

* A wallet that imported a key never spends before the key's history is scanned,
  and the obligation survives crashes, later imports and failed rescans.
* The validated anchor only rises through a witness check, to a scanned height.
* A failed sync stays visible until an anchor is validated again.
* Both trees hold one real chain; the cursor never runs ahead of them; what
  resumes from one hash resumes from the right trees.
* A spend the chain reveals is seen; a locked note is always unlocked or final.
* The scanner receives one linked chain without gaps, in bounded memory, and
  every download, queue and follower makes progress.
* One writer per wallet; a running task can always be found; no engine survives a
  key import; an explicit stop stays in force; every call returns.
* Every listed wallet opens with the one passphrase the registry verifies.
* A connection that carries data runs over the selected transport.
* A sync that is left alone reaches the tip and becomes spendable; a required
  replay ends.

## 2. Modules

```
SpendabilityState     the tables and their statements, as operators (no variables)
   ^
SpendabilitySync      the actors that run them: engine, controller, import, broadcaster, chain
   ^           ^
MCSpendability  SpendabilityProofs                 TLC instance / theorems

ScanLog <-refined by- ChainSync <- MCChainSync     trees and cursor
                                <- ChainSyncProofs

NoteLedger <- MCNoteLedger <- MCLedgerSearch       notes and spends
AncestorSearch              <-/                    the search of a rollback
           (both) <- LedgerSearchProofs

BlockIntake   <- MCBlockIntake        several servers -> one linked chain
Transport     <-/                     the selected network transport
           (both) <- IntakeProofs
PrefetchFlow  <- MCPrefetchFlow       stream -> batches, under a memory bound
              <- PrefetchFlowProofs
BlockCache    <- MCBlockCache         cache shared by wallets
              <- BlockCacheProofs

SyncControl           Vault           lifecycle of syncs / encrypted files
   ^      ^             ^
MCSyncControl   MCWalletService       TLC instances
           (both) <- WalletServiceProofs

Extrema       least and greatest elements, for the proof modules
```

`map` in PROJECT.json gives the source lines of every definition. `MCLedgerSearch`,
`MCBlockIntake` and `MCWalletService` check two modules that share no variables
in one run: a variable `part` names the one that is explored while the other
rests. `sync_range_internal` is modelled three times,
once for each thing it keeps consistent (SpendabilitySync, ChainSync,
NoteLedger): the product of the three is far beyond TLC, and the properties of
each only mention its own tables.

### SpendabilityState

One operator per SQL statement: it takes a table's value and returns the new
one, with the `CASE` expressions of the statement as they stand. `Row` is the
single row without `reason_code` and `updated_at`. `found` is the set of
FoundNote rows that are not done, `hist` the historic range (a set of at most
one), `cps` the checkpoint heights of each pool's tree. `TargetAndAnchor` is
`get_target_and_anchor_heights_for_account`: `{}` stands for `None`.

### SpendabilitySync

| variable | code |
|---|---|
| `row`, `found`, `hist`, `cps`, `local` | `spendability_state`, `scan_queue`, tree checkpoints, `sync_state.local_height` |
| `tip` | the server's chain height |
| `eng` | the engine: program counter, kind (follow-tip sync, bounded background sync, bounded rescan), start, next block, end, last checked height, repairs tried, the decision read but not yet written |
| `ctl` | the rescan controller between its statements |
| `brd` | a transaction from admission to the queued repair |
| `owed` | history variable: birthdays of imported keys no completed replay has scanned |
| `disturb` | how many disturbances happened (bound) |

Engine steps follow `sync_range_internal`: `Connect`, `ResumeMatches` /
`ResumeReorg`, `Prepare` (resume a queued repair, initialise the trees,
bootstrap the historic row), `ActivateRepair` / `NoRepairQueued`,
`RepairRollback`, `ScanBatch`, `AuxRead` and `AuxWrite` (the auxiliary part of
`save_sync_state`, as a read and a later write), `ScanDone`, `CheckRead` and
`CheckWrite` (the witness check), then `MonitorPoll` for a follow-tip run or
`Finish` for a bounded one. `Fail`, `Cancel` and `Crash` can end it. The rescan
controller is four statements; `RescanAbort` is an error of any of them. The
operation lock appears as `Quiet`; SyncControl is about the lock itself.

Abstractions: `Birthday` is the account's lowest key birthday
(`get_wallet_birthday_height`), the value every engine lowers its own birthday
to, and imports and rescans start at or above it. A reorg chooses any common
ancestor; a witness check chooses whether and from which block witnesses are
missing; a batch chooses its end and whether its flush is due, with the code's
conditions on the last batch and on bounded runs. Several repair ranges found by
one check are one range, and the check's statements after its read are one write.

### ChainSync and ScanLog

| variable | code |
|---|---|
| `lineage`, `tip` | the server's chain: a block is its height and the branch that minted it |
| `db` | `local` the cursor, `rows` the rolling window of canonical hashes, `trees` both commitment trees |
| `cache` | the persistence worker's `SyncWarmTrees` |
| `eng` | the run: start, next block, position counters, batch, hash of the last scanned block |
| `torn`, `orphan`, `deep` | history variables, see section 5 |

A tree is its leaves by position, the size at each checkpoint and the retained
checkpoints; a leaf is the block that holds the commitment. `Validate` is
`validate_resume_chain`; `InitFromActivation`, `InitLocal`, `InitSeed` and
`InitReplay` are the four ways the trees are initialised; `Repair` is a witness
repair. A batch is `Fetch`, then `BoundaryReorg` or `CommitTrees` (with
`InsertFails` for a conflicting leaf), `PersistNotes`, `BatchCheckpoint` /
`SkipCheckpoint`, `SaveState` / `SkipSave`, each its own commit, with `Stop`
between any two of them. `Monitor` rewinds on its own connection. `StartRescan`
truncates first.

ScanLog is what the trees promise: a log of absorbed blocks that starts as a
prefix of the server's chain, grows only by blocks that follow its last one and
otherwise only loses a suffix. The refinement maps the log to the leaves below
the newest checkpoint common to both pools, read off a pool with a commitment
in every block (`Scanned(Full)`); `ImplementsScanLog` is checked as a property.

### AncestorSearch

Every probe of `find_common_ancestor_bounded`: doubling back-off, halving of the
last bracket, the downward walk over a window with gaps, a failing call or an
expired deadline. `shared` is the newest height at which the server has our
block; `Fork` changes it between any two probes. ChainSync and NoteLedger take the
result as one step.

### NoteLedger

`db` holds notes (height, spent, spender), transaction rows, unlinked nullifier
spends, outgoing intents, cursor and hashes; `eng` the scanner with its nullifier
cache and tracked set; `plans`, `signed`, `send` a transaction from building to
the recorded broadcast; `pool` what the network accepted. `Persist` and
`ApplySpends` are the two transactions of a batch, `RecordMark` and
`RecordIntent` those of an accepted broadcast; `ReleaseExpired` is
`release_expired_outgoing_notes`. `Truncate(d, h, c)` is `truncate_above_height`:
records above `h` go, the cursor goes to `c`, the newest checkpoint common to the
trees, and the records between `c` and `h` stay. The trees are ChainSync's, so
`c` is any height up to `h`, and a run goes on after `h` or after `c` (`GoesOn`:
trees from the server, or a replay of its own). A note stands for its nullifier; amounts,
addresses and memos are left out. The instance has a transaction of this wallet,
and one of another device with the same seed that spends the same note.

### BlockIntake

`pool` is `EndpointPoolState`, `asm` the `OrderedBlockAssembler` and what it has
delivered, `stripe` the coordinator of `stream_historical_stripes`, `worker` one
`run_historical_stripe_worker` per server, `events` their channel, `rest`
`stream_remaining_with_failover`. A server follows one of two branches and may
change it. A block counts as one byte. `Cancelled` is the consumer dropping the
channel.

### PrefetchFlow

Producer (`next`, `hold`, `wait`, `throttled`), channel of durable segments, router
(`cut`, `pending`, `due`), batch channel of capacity one, scanner with one batch
ahead. A reservation is the segment it was made for, and the queued bytes are
the charges of the segments somebody still holds a piece of, as the shared
`Arc` in the code makes them. `Reserve` and `Throttle` are the two ways out of
`reserve_charged`: `Throttle` is also taken when the charge fits and
`compare_exchange_weak` fails, and then the producer waits (`wait = "missed"`) as
it does for want of room (`"full"`), until a dropped reservation notifies it
(`Released`). Segments and cached batches are reserved alike. The adaptive batcher
is any choice among `Targets`.

### BlockCache

Rows, coverage intervals, in-flight leases and, per wallet, an engine that reads
the validated horizon, asks the server about its anchor, takes a batch from the
cache or becomes the leader of a download and streams. `LegacyHeights` are rows
from before coverage existed. Queries and the answer of the server are separate
steps. The pipeline between stream and scanner is PrefetchFlow's.

A wallet's memory is `store`, its cursor and hash rows. `Scan` moves the cursor to
the highest note found (`persist_notes`), `Flush` writes cursor and rows, `NoFlush`
goes on without. Both checks accept where there is nothing to compare, as the code
does: `ResumeAfter` has the three cases of `validate_resume_chain` (the row at the
cursor, the newest row below it with the replay of the gap, no row), `BoundaryValid`
those of `validate_batch_boundary`. A rewind may leave the cursor below the rows it
keeps. Left to ChainSync are the trees, and so a run that replays from the rewound
cursor, and witness repair; to AncestorSearch the probes of a rollback, one step
here; and the depth of the window of hash rows (`Y/sync.rs:344`) is not reached.

### SyncControl

| variable | code |
|---|---|
| `lock` | holder of the wallet's mutex in `SYNC_OPERATION_LOCKS` |
| `transition` | holder of `TRANSPORT_SYNC_RESTART_LOCK` |
| `inflight`, `active` | membership in `RESCAN_IN_FLIGHT`, `RESCAN_ACTIVE` |
| `intent` | the wallet's counter in `SYNC_INTENT_GENERATIONS` |
| `reg`, `sessions` | the `SYNC_SESSIONS` entry and every session by identity (`Arc::ptr_eq`) |
| `tasks` | spawned tasks; a task's number is also its cancel token |
| `keygen`, `owed` | import generation, whether a replay is required |
| `call` | calls in progress, one record per concurrent caller |
| `halt` | history variable for the stop properties |

A call takes the lock in `Acquire` and gives it back in `Return`; steps before
`Acquire` and after `ClearRelease` run without it, as in the code.
`CancelSignal`, `WaitForSyncStop` / `WaitTimeout` and `CancelFinal` are
`cancel_sync_session`; `StartCheck`, `StartReplay`, `StartRegister`, `StartFails`
and `StartSpawn` are `start_sync_with_guard`; `RescanEnter` to `RescanSpawn` are
`rescan`; `RestartCapture` to `RestartClaim` are the transport restart;
`TaskEnds`, `RescanGuardDrop` and `RescanTrigger` are the end of a spawned task.
A task may end at any time or never, whether or not its token was cancelled.
`is_sync_running` answers true while the session's mutex is busy; that transient
answer is not modelled.

### Transport

| variable | code |
|---|---|
| `tunnel`, `stored`, `bridges` | `TUNNEL_MODE`, the mode a registry load gives (saved or pending), revision of `TOR_CONFIG_OVERRIDE` |
| `desired`, `generation`, `downGeneration` | `DESIRED_TRANSPORT_CONFIG` (a set of at most one), `generation`, `shutdown_generation` of `GlobalTransportState` |
| `managers`, `current` | the transport managers built and the published one; a manager's `retired` is its cancelled token |
| `initializing` | holder of the `initialization` lock |
| `setting`, `teardown` | a `set_tunnel` or `set_tor_bridge_settings` call, a `shutdown_transport` call |
| `request` | per task: the mode it read, the configuration and generation it is good for, its manager |

A request goes through `ReadTunnel` (where `start_sync` builds its client
configuration), `Capture` (`LightClient::with_config`), `Enter` to `Publish`
(`get_or_init_for_generation`, whose checks before the lock, under it, after the
wait for retired managers and at publication are separate steps), `Dial` or, for
a pooled client, `PoolProbe`, and `Connected`. A bootstrap selects first if
nothing is selected; a fetch captures its generation late and checks it once
less. `select_transport` revokes the old streams in one step and publishes the
selection in another, both under the selection lock. The registry load
changes `tunnel` without a selection. A mode is saved in the step that selects it;
a load in between, which could bring the old mode back until the next load, and a
switch of the storage directory are not modelled. `managers` leaves out the
ones that were too late to be published, since nobody has them. Retries are not
counted. Two settings calls at once are not modelled; every mode counts as
compiled in.

While nothing is selected (before the first `set_tunnel` or bootstrap and after a
shutdown) the code accepts whatever mode a request has read, so
`StreamsOnSelection` only ties streams to the published manager there.

### Vault

`listing` is the registry file (key, passphrase hash, sealed key, rows, active
wallet), `files` each wallet's file (key it is encrypted with, key its columns
are encrypted with, sealed key, whether it holds its secret), `mem` what the
process knows, `op` the operation in progress, `epoch` and `cache` the handle
caches, `reader` the reads in progress. A salt belongs to its file for life, so a
key is named by the passphrase it derives from. Every step of a change can fail
(`Fault`), and `Crash` can come between any two. The app issues one vault
operation at a time; readers run meanwhile.

## 3. Runs

Passing runs:

| run | bounds | properties | shows |
|---|---|---|---|
| `spendability` | 2 pools (symmetric), 3 blocks, 2 imports, 2 disturbances | `TypeOK`, `ReplayGate`, `KeyHistoryOwed`, `SpendNeedsKeyHistory`, `StoredSpendableSound`, `RescanUninterrupted`, `ValidationPlanSound`, `InterruptionLatched`, `ValidationIsEarned` | imported keys, the stored flag later flushes trust, decisions in flight, the latch, earned validation |
| `spendability_live` | 2 blocks, 1 import, 2 disturbances | `FollowTipConverges`, `ReplayDischarged` | a follow-tip sync converges, a replay ends |
| `chain` | 2 pools, 4 blocks, 1 reorg, 1 stop (also inside a batch), 1 rescan, 1 repair | `TreesOnChain`, `ResumeSound`, `CacheCoherent`, `CursorBacked` | trees, cursor, cache and hash window agree |
| `chain_live` | 4 blocks, 1 reorg, 1 stop, 1 repair | `CatchesUp`, `ImplementsScanLog` | the wallet ends at the tip with the tip's trees; refinement of ScanLog |
| `ledger` | 2 notes, 3 transactions, 4 blocks, up to 4 (`MaxEvents`) of 2 runs, 1 repair, 1 reorg, 1 fault and a payment, which counts as two; a search window of 9 heights with 1 fork | `SpendsSeen`, `NoOrphanLock`, `ConfirmedSpendKept`, `AncestorBracketed`, `ProbesLogarithmic` | no spend slips past the cache, no lock without an owner, no confirmed spend released; the ancestor search is right under a moving server |
| `intake` | 2 servers, 7 blocks, stripes of 2, 1 permit, 1 branch change; 2 network tasks, 2 modes, 2 selections or shutdowns, 2 managers, 1 bridge change | `DeliveredLinked`, `StripesCovered`, `Settles`, `StreamsOnSelection` | one chain is delivered, each height fetched once, the download ends; a stale request is cancelled and never rerouted |
| `flow` | 7 blocks, one oversized, segments up to the low mark, 2 batch targets, 2 cached blocks, failing exchanges, 1 failure or reorg | `InOrder`, `MemoryBounded`, `Drains` | nothing skipped or repeated, the memory bound is real, no notification is lost |
| `cache` | 2 wallets, 3 blocks, 1 reorg, 1 failure or cancelled run, two rows without coverage | `CoverageBacked`, `ScannedLinked`, `Converges` | coverage is true, no wallet with a hash row to go by links blocks of two branches, followers wake |
| `service` | 2 callers (symmetric), 4 calls of 7 operations; 2 wallets, 2 passphrases, 1 reader, 1 change, 2 faults | `OneOwner`, `TaskRegistered`, `NoStaleKeySnapshot`, `StopWins`, `OnePassphrase`, `ListedComplete`, `HandlesCurrent` | one writer, stop wins; files stay openable |
| `control_live` | 2 callers, 3 calls of all 11 operations | `CallsReturn` | every call returns |

Two runs end in a violation, each with a finding in PROJECT.json (section 5):
`rescan_opens` (`NotSpendableDuringRescan`) and `prefetch_stall` (`NotHeldForEver`
in the proportions of the mobile-low profile).

`TaskRegistered` and `NoStaleKeySnapshot` hold among the operations that take the
lock. With an endpoint change, which clears the session map without it, they
fail (section 5), so `service` leaves those four calls out and `control_live`
has them all.

### Why the bounds are enough

*Spendability.* Constants only appear in comparisons between neighbouring
heights, so three blocks give a block before, at and after each of cursor,
anchor, checkpoint and birthday. Two imports are needed for a replay that is
overtaken; two disturbances for a failure during the recovery from another.
`MinConf = 1` and `PerBlockDepth = 1` make the dense and the sparse checkpoint
regimes both occur.

*ChainSync.* With `Birthday = 2` there is a block below the birthday; four
blocks allow a two-block batch, a reorg of its second block and a batch after
it. One pool has a commitment in every block, the other in the odd ones, so the
position counters differ. `PruningDepth = 1` makes pruning happen, 5 keeps
everything. *AncestorSearch* has a window of nine heights: two doublings, a
bracket that is halved more than once, and every gap.

*NoteLedger.* A note received, spent by one of two transactions and possibly
replaced by its change takes three blocks, and a fourth lets a rewind keep a spend
above the cursor and still have a block above; `MaxBatch = 2` puts receipt and
spend into one batch or two. `Lifetime = 1` lets a transaction expire within them.
`MaxEvents = 4` leaves two runs and two disturbances, or a payment with two of
them. Without payments, three runs, two repairs and a reorganisation were checked
as well (six events, 13.5 million states), where leaving the excuse `stale` out of
`SpendsSeen` is refuted. The theorems of section 4 are for any number of all of
them.

*BlockIntake.* Seven blocks are three stripes and a rest; one permit is the
smallest buffer, where a blocked front stripe bites. *PrefetchFlow* has segments
smaller and larger than a batch and one block larger than the admission size. In
both its runs the low mark is half of the high mark and the segment ceiling equals
it, as in every shipped profile (`Y/sync_profile.rs:184-192`, `Y/sync.rs:4195`);
batch targets are at and below the ceiling. *BlockCache* has an old and a newer
wallet, so that one leads and the other follows or joins inside the range; three
blocks are a flushed batch, one that is not, and a block after it. Larger instances
were checked by hand: a newer wallet (8.9 million states), four blocks with notes
at one height (18 million), and one wallet with two reorganisations and three
disturbances or three and two. Without the excuse `adrift` one cancelled run and
one reorganisation refute `ScannedLinked`; without its case of contradicted rows
alone two reorganisations do.

*SyncControl.* Every refuted statement of section 5 needs at most three calls;
the run allows four. *Vault.* Two wallets are the least for a change that fails
after the first; two faults for a rollback that fails itself. *Transport.* Two
selections are a change and a change back (or a shutdown and a selection while
it waits), which a comparison of configurations alone would miss; the first
streams may be opened before either. Two managers are an old and a new one.

`CHECK_DEADLOCK FALSE` is set where a behaviour ends when its work or its bounds
are used up (all modules but SpendabilitySync); that nobody is left waiting is
what `CatchesUp`, `Settles`, `Drains`, `Converges` and `CallsReturn` say.

### Fairness

Fairness is that of a task scheduler: a task that can go on does. Disturbances
(reorgs, stops, crashes, failing calls) are bounded and never fair.

* `SpendabilitySync!FairSpec`: engine, controller and broadcaster are weakly
  fair, and a pending replay is retried, since every later start becomes that
  rescan.
* `ChainSync!EngineFair`: weak fairness of the engine, with its enabling
  condition spelled out (`CanStep`) to spare TLC the evaluation of ENABLED.
* `BlockIntake`: the download task, the pool probe and every stripe worker;
  remote calls have timeouts, so they end in an answer or an error.
* `PrefetchFlow`: producer, router and scanner, the three tasks of the code. An
  exchange is never assumed to succeed: a producer may miss every one of them.
* `BlockCache`: each engine, and a stream that cannot go on ends.
* `SyncControl!FairSpec`: a call in progress is polled; tokio's mutex is fair and
  the wait for a task has a timeout. Nothing is assumed about engines stopping.

## 4. Proofs

Checked by TLAPS, for all values of the constants that satisfy the named
assumptions of each module. Where a theorem states a property of a run, the run
shows it on a small instance and the theorem for all. Inductive invariants that
TLC can evaluate were checked with it before they were proved.

| module | theorem | statement |
|---|---|---|
| SpendabilityProofs | `TypeCorrect` | `Spec => []TypeOK` |
| | `ReplayGateHolds` | `Spec => []ReplayGate` |
| | `StoredFlagSound` | `Spec => []StoredSpendableSound` |
| | `KeyHistoryKept` | `Spec => []KeyHistoryOwed` |
| | `NoSpendBeforeReplay` | `Spec => []SpendNeedsKeyHistory` |
| | `ActorsInFlight` | `Spec => []RescanUninterrupted` |
| | `PlansStaySound` | `Spec => []ValidationPlanSound` |
| | `LatchReleasedByValidation` | `Spec => InterruptionLatched` |
| | `ValidationEarned` | `Spec => ValidationIsEarned` |
| WalletServiceProofs | `OwnerUnique` | `Spec => []OneOwner` (1) |
| | `EngineAlwaysFound` | `Spec => []TaskRegistered` (1) |
| | `KeysNeverStale` | `Spec => []NoStaleKeySnapshot` (1) |
| | `StopStaysInForce` | `Spec => []StopWins` (1) |
| | `ControlTyped` | `Spec => []TypeOK` of SyncControl (1) |
| | `WalletsComplete` | `VaultSpec => []ListedComplete` |
| | `PassphraseUnique` | `VaultSpec => []OnePassphrase` |
| | `CachesCurrent` | `VaultSpec => []HandlesCurrent` |
| ChainSyncProofs | `CacheInStep` | `Spec => []CacheCoherent` (2) |
| | `CursorNeverAhead` | `Spec => []CursorBacked` (2) |
| | `TreesStayOnChain` | `Spec => []TreesOnChain` (2, 3) |
| | `OneHashVouches` | `Spec => []ResumeSound` (2, 3) |
| | `BatchFollowsTrees` | `Spec => [][InsertFails => Excused]_vars` (2, 3) |
| | `TreesImplementScanLog` | `Spec => ImplementsScanLog` (2, 3, 4) |
| LedgerSearchProofs | `LedgerTyped` | `Spec => []TypeOK` of NoteLedger |
| | `SpendsFound` | `Spec => []SpendsSeen` |
| | `LocksAccounted` | `Spec => []NoOrphanLock` |
| | `ConfirmedKept` | `Spec => ConfirmedSpendKept` |
| | `AncestorFound` | `SearchSpec => []AncestorBracketed` |
| | `SearchIsShort` | `SearchSpec => []ProbesLogarithmic` |
| IntakeProofs | `DownloadIsChain` | `Spec => []DeliveredLinked` |
| | `StripesKeepRange` | `Spec => []StripesCovered` |
| | `StreamsSelected` | `TransportSpec => []StreamsOnSelection` |
| PrefetchFlowProofs | `BlocksInOrder` | `Spec => []InOrder` |
| | `QueueStaysWithin` | `Spec => []MemoryBounded` |
| BlockCacheProofs | `CoverageTrue` | `Spec => []CoverageBacked` |
| | `ScansAreChains` | `Spec => []ScannedLinked` |

(1) Hypothesis `Ops \subseteq SafeOps`: the seven operations that change the
session map only under the operation lock, those of the run `service`. With an
endpoint change, a wallet reset, a passphrase change or a storage switch two of
the statements are false (`HiddenWriter`, section 5).

(2) Hypothesis `Birthday > 1`. `validate_batch_boundary` accepts a batch that
starts at height 1 without looking at its parent (`Y/sync.rs:2442`), and the
attempt to prove `CacheCoherent` led to the state this opens: with a birthday and
a fork at block 1 the batch after the monitor's rewind is accepted although the
warm trees are stale. TLC confirms it. No network is concerned: the birthday is
at or above sapling activation, which is 152,855, 61 or 100
(`crates/pirate-params/src/network.rs`).

(3) Hypothesis `[][ReorgWithinWindow]_vars`: no reorganisation replaces a block
below the window of hashes the wallet keeps, `MAX_REORG_SEARCH_DEPTH` blocks. The
engine forgets older hashes and cannot tell branches apart there.

(4) Hypotheses `FullPool`, that some pool has a commitment in every block, through
which the log is read, and `[]~Excused`: in the excused cases of section 5 the
trees really do leave the abstract scanner.

Other assumptions, each an `ASSUME` that TLC evaluates: finite sets of pools,
servers, callers; natural bounds; a chain that can reach the birthday; in
ChainSync no shielded output below activation; in NoteLedger that the marker for
"spent by nobody" is not a transaction and that a note is an output of one
transaction, which does not spend it; in PrefetchFlow that a segment is cut at the
admission size (`Y/sync.rs:6800-6803`) and a batch target lies within the queue
(`1460-1466`, `6725`).

### The inductive invariants

*Spendability.* None of the properties is inductive alone. `SpendNeedsKeyHistory`
is about the public status, so it needs the gate (`ReplayGate`) and the history
(`KeyHistoryOwed`). `KeyHistoryOwed` must survive `Finish`, where a replay clears
the floor: that step removes from `owed` exactly the keys the rescan covered, and
eligibility says it began at or below the floor, hence below every owed birthday.
`StoredSpendableSound` must survive `complete_required_rescan`, which raises the
flag without looking at the interruption latch: it is true because a replay is
only carried by a rescan engine and a rescan runs over a released latch
(`RescanUninterrupted`). `ValidationIsEarned` needs that the height in the
engine's pending decision is still in the historic range when it is written
(`ValidationPlanSound`). `Inv` is the conjunction of the type invariant
(strengthened with positive heights and the shape of plans), of `RowSound` over
the row, and of these three. Lemmas about the statements (`RowStatements`,
`RowStatementsSound`, `NeutralStatements`) are proved once, and `RowSteps` /
`EngineFrame` reduce the proof for each action to the one statement it runs.

*SyncControl.* A call between `Acquire` and `Return` is the only holder of the
lock, so what it has established about the map stays true until it returns
(`CallInv`, by program point). The one step that starts an engine is taken by a
holder that has seen none, which keeps the running task the registered one
(`TaskInv`). A stop raises the intent, so that every older restart plan fails its
claim (`HaltInv`). The rescan flags play no part in the argument.

*Vault.* For each program point: which files are under which passphrase.
`Listed` is about creation and deletion; `Settled` says that between changes the
registry's key, its hash, the passphrase in memory and all listed files agree,
`Halfway` how far a change or a rollback has got; `Handles` relates each cached
handle to the epoch it was opened in.

*ChainSync.* The monitor of a following run rewinds on a connection of its own,
so the worker's cache can be stale; it is never used then, because the engine
still remembers the last block it scanned, the next batch does not follow it and
the rollback drops the cache. `StaleOnlyAfterMonitor` and `Linked` say this
step by step. For the cursor: a checkpoint of a height stands after at least as
many leaves as the chain has commitments up to it (`Order`), so a tree rewound to
it and a position recovered from it have got that far; `Level` carries the
bound through a batch. `deep` excuses the discarded rewind height of section 5.

For the content of the trees (`TreeInv`): while no excuse holds there are a branch
`b` and a height `h` such that the trees of all pools hold exactly `b`'s
commitments up to `h` (`Standing`, `HeldAt`). Three things tie `b` to the server's
chain: every hash row is of one real branch and a row the server shares vouches
for all below it (`RowsReal`, `RowsVouch`); a common checkpoint without a hash row
still is on the server's chain (`Anchored`; a reorg below one sets `orphan`); and
the block the run remembers (`Running`). Between runs `h` is where the next one
resumes (`AtRest`; a run that ends otherwise sets `torn`). A batch is one branch's;
it follows `b` or the boundary check turns it away (`OnBatch`), and when it is
written the trees move to its branch and last height (`Batching`). Every rewind
keeps `b` and lowers `h` to a common checkpoint. The refinement is the same
argument read step by step: a step that stays on `b` extends the log or cuts a
suffix off, one that seeds the trees starts it again.

*NoteLedger.* A note can be born spent, when its nullifier was seen first. So
`Locks` also says of every unlinked nullifier that its transaction has a mined
row; a rewind forgets rows together with the marks and nullifiers that rest on
them, every other write only adds to what explains a mark.

`SpendsSeen` is harder, because a note and its spend are found in either order, in
one batch or in two runs, and a rewind forgets both up to some height. Below a
height whose hash is the server's, everything on record is true and every mined
spend is marked by its own transaction, or by one without a height, which no
rewind resets (`Below`, `Vouched`). A spend whose note is not known yet is kept as
an unlinked nullifier (`Loose`), the batch being written has the same for itself
(`Fresh`), and the cache of a run has every note not marked (`Cached`).
`LedgerFrame` is what the tables say of the chain's identities. A rewind may put
the cursor below the height it vouches for, so the height up to which records are
vouched (`Base`) is where scanning goes on after, and a row above it, which no hash
comparison will reach, must still be on the chain (`Loose`); that is the case
`stale` excuses when it is not.

*AncestorSearch.* A probe compares with the chain of its own moment, so the two
ends of a bracket are true of two different chains. The invariant keeps a witness
among the chains seen for each end. For the cost: the distance is a power of two,
and the bracket it leaves is smaller than half of it, so halving takes one probe
fewer than doubling did (`Cost`).

*BlockIntake.* The assembler carries the argument: its next height and last hash
are those of what it has accepted (`Chain`), so a block that fits extends a
chain, whoever sent it. That it never runs past the range needs a bound on every
worker, returned range and buffered chunk; that a finished download is whole
needs that only the last stage can finish it (`Stages`).
`StripesCovered` counts places, and a step moves a height from one to another. So
`CoverInv` says for each kind of place who holds the height and that nobody else
does (`Covered`), that chunks are runs of heights, so that a flushed one is
exactly what the assembler moved over (`ChunksRun`), that a server in the idle
list or with an unheard end has a worker at rest and is there once (`Accounts`),
and that outside striping nothing is left (`Quiet`).

*Transport.* The published manager is the only one not retired and is the
selected one, and none is published while a selection is under way
(`OnePublished`); a request holds a retired manager or the published one.

*PrefetchFlow.* The seven places a block can be in are strung together: each one
that is not empty begins one above the end of those before it (`Front`, `Middle`,
`Back`); without a stream all places before the channel are empty (`NoStream`).
For the memory bound (`MemInv`): a live reservation is charged at least what its
blocks weigh (`Charged`), because a segment or batch of several blocks is below
the cap its charge is cut at; a piece carries the reservation of each of its
blocks (`Owned`), also when it was joined from several segments; and a reservation
is added only when it fits, a segment by `SegmentStep` and a cached batch by
`BatchStep`. That the blocks then weigh no more than the charges
is a fact about sums over covered sets (`SumCover`), proved from the fold that
`SumFunctionOnSet` is.

*BlockCache.* Recording, removing and truncating keep coverage a set of intervals
ordered and apart, which never claims a height that was neither claimed before
nor stored in the same transaction; removing an empty range would break it, so
`Batch` says that the engines pass none. A batch that reaches the scanner is
linked in itself and starts where the wallet has scanned to. `ScannedLinked` then
rests on what the wallet remembers: a run knows the last block it scanned
(`Memory`), and a wallet that is not adrift has, wherever a run must start from one,
a hash row that is of the block it scanned there (`Witnessed`). That `NoFlush` may
leave rows that its batch contradicts, kept by a rewind from before, is why `adrift`
has a case besides the missing row.

Recursive definitions that a proof needs (the assembler over a chunk, powers of
two, sums) are recursive functions or folds. That they have the value they
describe is proved by taking the least number, or a smallest part of a finite
set, at which they have none (`NatMinExists` of Extrema, `SmallestPart`).

### What the proofs found

The attempts led to five corrections; where a statement was false, TLC confirmed
the counterexample.

* `CacheCoherent` needs `Birthday > 1`, see (2).
* `TreesOnChain` excused a run that ended with a checkpoint above its cursor. It
  must also excuse one that left commitments there without a checkpoint: the
  next run takes the trees over at a common checkpoint at its cursor and does not
  truncate what lies above (`Y/sync.rs:2940-2950`). `Torn` now says so.
* A fourth history variable of ChainSync, for a cursor without any hash row, was
  a case of `orphan` and is gone.
* `SpendsSeen` has the same hole as the trees: a run that ends between the notes
  and the hash rows of a batch leaves a cursor that no hash guards, and a
  reorganisation of that block goes unnoticed. NoteLedger has `orphan` for it.
* `MemoryBounded` holds because segments and batch targets are capped, which no
  assumption of PrefetchFlow said; `FlowCapsAssumption` does.

### Only model-checked

Every invariant and action property of the passing runs has a theorem, and so has
the refinement. What is left to TLC is liveness (`FollowTipConverges`,
`ReplayDischarged`, `CallsReturn`, `CatchesUp`, `Settles`, `Drains`,
`Converges`): fairness and ENABLED are outside the prover's reach. Theorems hold
outside the excused cases of section 5, as the properties do; that there are no
others is what they show.

## 5. Known disagreements

Places where a comment, a document or a reasonable reading says more than the
code does. The first two are runs of PROJECT.json; for the others the
configuration named shows the counterexample (section 8).

| configuration | statement | what the code does |
|---|---|---|
| `RescanOpens` (run `rescan_opens`) | not spendable for the whole rescan (`S/spendability_state.rs:451`) | the first auxiliary flush clears `rescan_required` when no key replay is owed |
| `PrefetchStall` (run `prefetch_stall`) | a segment cannot wait for ever behind a partial batch (`Y/intake.rs:929`, `946`; `NotHeldForEver`) | every piece keeps its whole segment's reservation; in the proportions of the mobile-low profile a partial batch holds more than the low mark, and neither side gives way |
| `RepairLatch` | the repair flag is a durable latch (`W/sync_control.rs:331`) | the rollback that starts the repair drops it (`S/sync_state.rs:868-897`) |
| `ActiveRepair` | active repair rows are never replaced (`S/scan_queue.rs:62`) | the row may become active between the SELECT and the transaction (`124`) |
| `ImportBirthday` | no birthday the chain has not reached (`Y/sync.rs:2078`) | the known tip it is checked against is the row's `target_height`, which a flush sets to the next block, one above the tip (`W/key_management.rs:435`) |
| `KeyRemoval` | finish syncing, then remove the key (`S/repository.rs:3173`) | the readiness condition compares the cursor with that same target, one above the tip, so a synced and spendable wallet still fails it |
| `Revalidate` | re-validation at the tip even when it stands still (`Y/sync.rs:5863`) | the check returns early while `rescan_required` is set (`3469`), so a wallet a prior run left so stays unspendable |
| `HiddenWriter` | timed-out tasks remain registered (`docs/sync-engine.md:246-248`) | an endpoint change clears the session map without the operation lock (`api.rs:2310-2351`) |
| `ConcurrentStop` | a concurrent pause wins over a transport restart (`W/sync_control.rs:726`) | not when the plan is captured while the pause waits for the lock |
| `InterruptedBatch` | a batch is completely visible or not at all, and a crash cannot leave one pool ahead (`docs/sync-engine.md:170`, `190-192`) | trees, checkpoint, notes and cursor are separate commits (`Y/sync.rs:8481`); a run that ends after a checkpoint and before the cursor lets the next one recover positions above it (`3314`) |
| `ReleaseSound` | released notes belong to consensus-invalid transactions (`S/repository.rs:1377`) | the recorded expiry is that of the build (`W/tx_flow.rs:942`), the signed one is computed later (`1525`, `1694`) and may be higher |

Some properties exclude such cases by history variables, so that they still say
something about everything else:

* **ChainSync**, `TreesOnChain`, `ResumeSound`, `CatchesUp`: `torn`, a run ended
  with a checkpoint (the run above) or commitments above its cursor; `orphan`, a
  block the wallet relies on without a recorded hash (that of a server tree state,
  or of a cursor that `persist_notes` moved before the hash rows were written) is
  reorganised away, and no hash tells; `deep`, a run goes on above the height
  `truncate_above_height` rewound the trees to, which
  `rollback_to_common_ancestor` discards (`Y/sync.rs:2304`).
* **NoteLedger**, `SpendsSeen` and `NoOrphanLock`: `blind`, a run scans on with
  the nullifier cache a rollback cleared; `dropped`, a statement whose failure is
  only logged (`apply_spends`, the two of `record_accepted_broadcast`) has
  failed, or a crash fell between the latter; `early`, a run ended between the
  notes and the spends of a batch; `orphan`, a scanned block whose hash was not
  recorded is reorganised away; `stale`, a transaction's row that a rewind kept
  above the height scanning goes on after is reorganised away, or already was when
  the run took that height: `truncate_above_height` keeps records up to the
  requested height and puts the cursor at an older checkpoint
  (`S/sync_state.rs:544-556`, `857-868`), no hash above the cursor is compared,
  and the row keeps its note locked while the real spend is scanned; `freed`, notes
  released by expiry.
* **BlockCache**, `ScannedLinked` and `Converges`: `adrift`, a wallet one of whose
  runs left a cursor with no hash row at or below it, or rows that its last batch
  contradicts. `persist_notes` moves the cursor (`Y/sync.rs:11140`) before the rows
  are flushed (`5480-5505`), and without a row neither `validate_resume_chain`
  (`2239-2245`) nor `validate_batch_boundary` (`2464-2466`) has anything to compare.
  It is the hole `orphan` names in ChainSync and NoteLedger, here from the stop on,
  whether or not the block is reorganised.
* **PrefetchFlow**, `Drains`: `HeldByBatch`, the stall that `prefetch_stall` shows;
  and a wait after a failed `compare_exchange_weak` (`Y/intake.rs:981-1005`). The
  charge fits then, and the next dropped reservation wakes the producer; if there is
  none left, or only those of a batch that waits for it, nothing does. Targets whose
  weak exchange never fails by itself do not show it.
* **Vault**, `OnePassphrase`: a change ended by a crash or by one of the early
  returns of `W/encrypted_db.rs:920-961` leaves wallets under both passphrases;
  an insertion that fails after the deletion of the old hash (`363`) leaves none,
  and opening the registry is then proof enough. `HandlesCurrent`: a change that
  failed and was rolled back does not invalidate the handle caches (`898-915`).

## 6. Mutants

Every property of a passing run has a mutated definition (commented `Mutant:` or
`mutant`) that changes the code in a plausible way and breaks it: finalizing that
opens the gate, an import that overwrites an earlier floor, a rewind that keeps
trees or cursor, a rollback that keeps the warm trees, a bracket that skips a
height, an assembler that only looks at heights, a stripe resumed one block late,
a dropped reservation that notifies nobody below the low mark, a lease dropped without waking its followers, files
deleted before their row, a change that keeps the cache epoch, a transport
published without a second look at the selection.

## 7. Plan

1. *Done:* SpendabilityState, SpendabilitySync; SyncControl; ChainSync refining
   ScanLog; AncestorSearch; NoteLedger; BlockIntake, PrefetchFlow and BlockCache;
   Vault; Transport; the theorems of section 4.
2. Transport composed with the restart of SyncControl; a storage switch and
   concurrent settings calls.
3. Subtree grafting of `Y/sync/shardtree_support.rs`; sync profile downgrade.

## 8. Running

    tlc -config MCSpendability.cfg     MCSpendability
    tlc -config MCSpendabilityLive.cfg MCSpendability
    tlc -config ChainSync.cfg          MCChainSync
    tlc -config ChainSyncLive.cfg      MCChainSync
    tlc -config NoteLedger.cfg         MCLedgerSearch
    tlc -config BlockIntake.cfg        MCBlockIntake
    tlc -config PrefetchFlow.cfg       MCPrefetchFlow
    tlc -config BlockCache.cfg         MCBlockCache
    tlc -config WalletService.cfg      MCWalletService
    tlc -config SyncControlLive.cfg    MCSyncControl
    tlapm SpendabilityProofs.tla      (likewise WalletServiceProofs, ChainSyncProofs,
                                       LedgerSearchProofs, IntakeProofs, PrefetchFlowProofs,
                                       BlockCacheProofs, Extrema)

Configurations of section 5: `RescanOpens`, `RepairLatch`, `ActiveRepair`,
`ImportBirthday`, `KeyRemoval`, `Revalidate` with MCSpendability; `HiddenWriter`,
`ConcurrentStop` with MCSyncControl; `InterruptedBatch` with MCChainSync;
`PrefetchStall` with MCPrefetchFlow; `ReleaseSound` with MCNoteLedger.

## 9. Not modelled

* Cryptography, key derivation and transaction building (`pirate-core`): pure
  computation over data a model checker cannot enumerate.
* Tor, I2P and SOCKS clients (`pirate-net`), proving parameters: I/O around
  external libraries and static data.
* Bindings and command lines: marshalling; `frb_generated.rs` alone is 13,369
  generated lines.
* Migrations: sequential, before any actor starts. Qortal, disclosure: request and
  response without shared state. The Flutter application.
* Panic PIN and decoy vault, biometric prompts, keystore cryptography; deletion
  of the last wallet, which removes the registry as well.
* Within the modelled parts: batch sizing, trial decryption, shards and hashes,
  subtree grafting, the server's compact-block floor (`Y/sync.rs:4672-4690`),
  cache eviction by age, fee and change arithmetic, `sync_state.target_height`,
  progress and status caches, several wallets at once except where they share
  something (block cache, registry).

The map covers about a tenth of the implementation's lines. Most of the rest
falls in the groups above, and a large part of the big files (`sync.rs`,
`repository.rs`, `client.rs`, `shardtree_support.rs`) is unit tests, SQL for
relational data without control, formatting and logging; mapping it would mean
naming lines no definition translates.
