------------------------------- MODULE Vault --------------------------------
(***************************************************************************)
(* The encrypted files of the wallet service (encrypted_db.rs,             *)
(* wallet_registry.rs, provisioning.rs): one database per wallet and a     *)
(* registry of them, each under a key derived from the app passphrase and, *)
(* where the platform has a keystore, a sealed copy of that key.  Creating *)
(* and deleting a wallet and changing the passphrase touch several files,  *)
(* one after the other, and the process may stop between any two of them.  *)
(* Reader threads open wallets through their own handle caches meanwhile.  *)
(*                                                                         *)
(* A salt belongs to its file for life, so a database key is named by the  *)
(* passphrase it is derived from.  The app issues one vault operation at a *)
(* time.                                                                   *)
(***************************************************************************)
EXTENDS Integers, FiniteSets, Sequences

CONSTANTS
    Wallets,        \* wallet ids
    Phrases,        \* app passphrases
    FirstPhrase,    \* the one the registry is created with
    Readers,        \* threads that open wallets
    NoWallet, NoPhrase,
    MaxChanges,     \* bound: passphrase changes and deletions
    MaxFaults       \* bound: failing steps
ASSUME VaultAssumption ==
    /\ FirstPhrase \in Phrases /\ NoPhrase \notin Phrases /\ NoWallet \notin Wallets
    /\ {MaxChanges, MaxFaults} \subseteq Nat

VARIABLES
    keystore,   \* platform_keystore() is there
    listing,    \* the registry file: [key, hash, sealed, rows, active]
    files,      \* each wallet's file: [key, tables, sealed, secret]
    mem,        \* [phrase, loaded, wallets, active] of the process
    op,         \* the operation in progress
    epoch,      \* WALLET_DB_CACHE_EPOCH
    cache,      \* thread-local handle caches: [epoch, entries]
    reader,     \* the reads in progress
    torn,       \* history: why an operation ended half done
    faults, changes

onDisk == <<listing, files>>
caches == <<epoch, cache>>
bounds == <<faults, changes>>
vaultVars == <<keystore, listing, files, mem, op, epoch, cache, reader, torn, faults, changes>>

NoFile == [key |-> NoPhrase, tables |-> NoPhrase, sealed |-> NoPhrase, secret |-> FALSE]
NoOp == [kind |-> "none", pc |-> "", w |-> NoWallet, old |-> NoPhrase, new |-> NoPhrase,
         todo |-> {}, done |-> <<>>]
NoRead == [pc |-> "rest", phrase |-> NoPhrase, w |-> NoWallet, key |-> NoPhrase]
Locked == [phrase |-> NoPhrase, loaded |-> FALSE, wallets |-> {}, active |-> NoWallet]

\* After set_app_passphrase on a fresh installation.
VaultInit ==
    /\ keystore \in BOOLEAN
    /\ listing = [key |-> FirstPhrase, hash |-> FirstPhrase, rows |-> {}, active |-> NoWallet,
                  sealed |-> IF keystore THEN FirstPhrase ELSE NoPhrase]
    /\ files = [w \in Wallets |-> NoFile]
    /\ mem = [Locked EXCEPT !.phrase = FirstPhrase]
    /\ op = NoOp /\ epoch = 0
    /\ cache = [r \in Readers |-> [epoch |-> 0, entries |-> [w \in Wallets |-> NoPhrase]]]
    /\ reader = [r \in Readers |-> NoRead]
    /\ torn = {} /\ faults = 0 /\ changes = 0

-----------------------------------------------------------------------------
(* open_encrypted_db_with_migration: the sealed key first, the derived one *)
(* if that does not fit.                                                   *)

KeyFits(f, p) == (keystore /\ f.sealed = f.key) \/ f.key = p
RegistryOpens(p) == KeyFits(listing, p)
\* Its rows are encrypted under the master key of the passphrase.
WalletOpens(w, p) == KeyFits(files[w], p) /\ files[w].tables = p
\* verify_app_passphrase_with_db: without a stored hash, opening is proof enough.
Verified(p) == RegistryOpens(p) /\ listing.hash \in {p, NoPhrase}

\* maybe_store_sealed_db_key keeps an existing file; force_store_sealed_db_key
\* replaces it.  Both only warn when the keystore fails.
SealedOnce(f, p) == IF keystore /\ f.sealed = NoPhrase THEN {p, NoPhrase} ELSE {f.sealed}
Resealed(f, p) == IF keystore THEN {p, f.sealed} ELSE {f.sealed}

Idle == op.kind = "none"
Unlocked == mem.phrase # NoPhrase
Fault == faults < MaxFaults /\ faults' = faults + 1 /\ UNCHANGED changes
LoadedFrom(m) == [m EXCEPT !.loaded = TRUE, !.wallets = listing.rows, !.active = listing.active]

\* unlock_app
Unlock(p) ==
    /\ ~Unlocked /\ Verified(p)
    /\ mem' = LoadedFrom([mem EXCEPT !.phrase = p])
    /\ epoch' = epoch + 1
    /\ UNCHANGED <<keystore, onDisk, op, cache, reader, torn, bounds>>

\* The process ends; what was in memory is gone.
Crash ==
    /\ Unlocked /\ faults < MaxFaults
    /\ faults' = faults + 1
    /\ mem' = Locked /\ op' = NoOp
    /\ epoch' = 0
    /\ cache' = [r \in Readers |-> [epoch |-> 0, entries |-> [w \in Wallets |-> NoPhrase]]]
    /\ reader' = [r \in Readers |-> NoRead]
    /\ torn' = IF Idle THEN torn ELSE torn \cup {op.kind}
    /\ UNCHANGED <<keystore, onDisk, changes>>

-----------------------------------------------------------------------------
(* create_wallet, restore_wallet, import_viewing_wallet.                   *)

\* persist_wallet_account_secret: the file appears, then its first transaction.
CreateFile(w) ==
    /\ Idle /\ Unlocked /\ files[w] = NoFile
    /\ RegistryOpens(mem.phrase)
    /\ mem' = IF mem.loaded THEN mem ELSE LoadedFrom(mem)
    /\ \E s \in SealedOnce(NoFile, mem.phrase) :
         files' = [files EXCEPT ![w] = [key |-> mem.phrase, tables |-> mem.phrase, sealed |-> s, secret |-> FALSE]]
    /\ op' = [NoOp EXCEPT !.kind = "create", !.pc = "secret", !.w = w]
    /\ UNCHANGED <<keystore, listing, caches, reader, torn, bounds>>

CreateSecret ==
    /\ op.kind = "create" /\ op.pc = "secret"
    /\ files' = [files EXCEPT ![op.w].secret = TRUE]
    /\ op' = [op EXCEPT !.pc = "register"]
    /\ UNCHANGED <<keystore, listing, mem, caches, reader, torn, bounds>>

\* register_wallet: one transaction, then the lists in memory.
Register ==
    /\ op.kind = "create" /\ op.pc = "register"
    /\ listing' = [listing EXCEPT !.rows = @ \cup {op.w}, !.active = op.w]
    /\ mem' = [mem EXCEPT !.wallets = @ \cup {op.w}, !.active = op.w]
    /\ op' = NoOp
    /\ UNCHANGED <<keystore, files, caches, reader, torn, bounds>>

\* run_provisioning_steps: either step fails and the files are removed.
CreateFails ==
    /\ op.kind = "create" /\ Fault
    /\ files' = [files EXCEPT ![op.w] = NoFile]
    /\ epoch' = epoch + 1
    /\ op' = NoOp
    /\ UNCHANGED <<keystore, listing, mem, cache, reader, torn>>

-----------------------------------------------------------------------------
(* delete_wallet: the row, the active wallet, the files.                   *)

DeleteFilesFirst(w) ==   \* mutant
    /\ Idle /\ Unlocked /\ changes < MaxChanges
    /\ w \in (IF mem.loaded THEN mem.wallets ELSE listing.rows) /\ RegistryOpens(mem.phrase)
    /\ Cardinality(listing.rows) > 1
    /\ changes' = changes + 1
    /\ files' = [files EXCEPT ![w] = NoFile]
    /\ op' = [NoOp EXCEPT !.kind = "delete", !.pc = "active", !.w = w]
    /\ UNCHANGED <<keystore, listing, mem, caches, reader, torn, faults>>
DeleteRow(w) ==
    /\ Idle /\ Unlocked /\ changes < MaxChanges
    /\ w \in (IF mem.loaded THEN mem.wallets ELSE listing.rows) /\ RegistryOpens(mem.phrase)
    /\ Cardinality(listing.rows) > 1      \* the last wallet takes the registry with it
    /\ changes' = changes + 1
    /\ listing' = [listing EXCEPT !.rows = @ \ {w}]
    /\ LET m == IF mem.loaded THEN mem ELSE LoadedFrom(mem) IN mem' = [m EXCEPT !.wallets = @ \ {w}]
    /\ op' = [NoOp EXCEPT !.kind = "delete", !.pc = "active", !.w = w]
    /\ UNCHANGED <<keystore, files, caches, reader, torn, faults>>

DeleteActive ==
    /\ op.kind = "delete" /\ op.pc = "active"
    /\ IF mem.active = op.w
       THEN \E next \in mem.wallets :
              listing' = [listing EXCEPT !.active = next] /\ mem' = [mem EXCEPT !.active = next]
       ELSE UNCHANGED <<listing, mem>>
    /\ op' = [op EXCEPT !.pc = "files"]
    /\ UNCHANGED <<keystore, files, caches, reader, torn, bounds>>

\* remove_wallet_storage_artifacts
DeleteFiles ==
    /\ op.kind = "delete" /\ op.pc = "files"
    /\ epoch' = epoch + 1
    /\ files' = [files EXCEPT ![op.w] = NoFile]
    /\ op' = NoOp
    /\ UNCHANGED <<keystore, listing, mem, cache, reader, torn, bounds>>

-----------------------------------------------------------------------------
(* change_app_passphrase.                                                  *)

ChangeStart(old, new) ==
    /\ Idle /\ Unlocked /\ changes < MaxChanges /\ Verified(old)
    /\ changes' = changes + 1
    /\ mem' = LoadedFrom([mem EXCEPT !.phrase = old])
    /\ epoch' = epoch + 1
    /\ op' = [NoOp EXCEPT !.kind = "change", !.pc = "wallets", !.old = old, !.new = new,
                          !.todo = listing.rows]
    /\ UNCHANGED <<keystore, onDisk, cache, reader, torn, faults>>

\* A step that returns its error at once: the wallets before it stay changed.
Abandon ==
    /\ op' = NoOp
    /\ torn' = torn \cup {"change"}

Changing(pc) == op.kind = "change" /\ op.pc = pc

\* The next wallet is opened and its file rekeyed.
RekeyWallet(w) ==
    /\ Changing("wallets") /\ w \in op.todo
    /\ \/ /\ WalletOpens(w, op.old)
          /\ files' = [files EXCEPT ![w].key = op.new]
          /\ op' = [op EXCEPT !.pc = "tables", !.w = w]
          /\ UNCHANGED <<torn, bounds>>
       \/ /\ WalletOpens(w, op.old) /\ Fault        \* the rekey fails
          /\ op' = [op EXCEPT !.pc = "rollback"]
          /\ UNCHANGED <<files, torn>>
       \/ /\ ~WalletOpens(w, op.old) \/ keystore    \* it does not open, or unsealing is cancelled
          /\ Fault /\ Abandon /\ UNCHANGED files
    /\ UNCHANGED <<keystore, listing, mem, caches, reader>>

\* reencrypt_wallet_tables, one transaction: an error in it returns at once, one
\* of its commit rekeys the file back, if it can, and rolls the others back.
ReencryptTables ==
    /\ Changing("tables")
    /\ \/ /\ \E s \in Resealed(files[op.w], op.new) :
               files' = [files EXCEPT ![op.w].tables = op.new, ![op.w].sealed = s]
          /\ op' = [op EXCEPT !.pc = "wallets", !.todo = @ \ {op.w}, !.done = Append(@, op.w)]
          /\ UNCHANGED <<torn, bounds>>
       \/ Fault /\ Abandon /\ UNCHANGED files
       \/ /\ Fault
          /\ op' = [op EXCEPT !.pc = "rollback"]
          /\ \/ files' = [files EXCEPT ![op.w].key = op.old] /\ UNCHANGED torn
             \/ torn' = torn \cup {"change"} /\ UNCHANGED files
    /\ UNCHANGED <<keystore, listing, mem, caches, reader>>

\* rollback_wallets: the last wallet changed goes first; an error ends it.
RolledBackKeyOnly(f) ==   \* mutant
    {[f EXCEPT !.key = op.old, !.sealed = s] : s \in Resealed(f, op.old)}
RolledBack(f) == {[f EXCEPT !.key = op.old, !.tables = op.old, !.sealed = s] : s \in Resealed(f, op.old)}
RollbackWallet ==
    /\ Changing("rollback") /\ op.done # <<>>
    /\ LET w == op.done[Len(op.done)]
       IN \/ /\ WalletOpens(w, op.new)
             /\ \E f \in RolledBack(files[w]) : files' = [files EXCEPT ![w] = f]
             /\ op' = [op EXCEPT !.done = SubSeq(@, 1, Len(@) - 1)]
             /\ UNCHANGED <<torn, bounds>>
          \/ Fault /\ Abandon /\ files' \in {files, [files EXCEPT ![w].key = op.old]}
    /\ UNCHANGED <<keystore, listing, mem, caches, reader>>
\* The change returns its error; nothing drops the handles opened meanwhile.
RollbackDone ==
    /\ Changing("rollback") /\ op.done = <<>>
    /\ op' = NoOp
    /\ torn' = torn \cup {"rollback"}
    /\ UNCHANGED <<keystore, onDisk, mem, caches, reader, bounds>>

RekeyRegistry ==
    /\ Changing("wallets") /\ op.todo = {}
    /\ \/ listing' = [listing EXCEPT !.key = op.new] /\ op' = [op EXCEPT !.pc = "hash"] /\ UNCHANGED bounds
       \/ Fault /\ op' = [op EXCEPT !.pc = "rollback"] /\ UNCHANGED listing
    /\ UNCHANGED <<keystore, files, mem, caches, reader, torn>>

\* set_registry_setting deletes the old hash and inserts the new one.  When the
\* insertion fails nothing restores the old hash, and from then on opening the
\* registry is proof enough.
ClearHash ==
    /\ Changing("hash")
    /\ \/ listing' = [listing EXCEPT !.hash = NoPhrase] /\ op' = [op EXCEPT !.pc = "insert"] /\ UNCHANGED bounds
       \/ Fault /\ listing' = [listing EXCEPT !.key = op.old] /\ op' = [op EXCEPT !.pc = "rollback"]
    /\ UNCHANGED <<keystore, files, mem, caches, reader, torn>>
InsertHash ==
    /\ Changing("insert")
    /\ \/ /\ listing' = [listing EXCEPT !.hash = op.new] /\ op' = [op EXCEPT !.pc = "finish"]
          /\ UNCHANGED <<torn, bounds>>
       \/ /\ Fault /\ listing' = [listing EXCEPT !.key = op.old] /\ op' = [op EXCEPT !.pc = "rollback"]
          /\ torn' = torn \cup {"change"}
    /\ UNCHANGED <<keystore, files, mem, caches, reader>>

\* The registry key is sealed again, the passphrase replaced, caches dropped.
ChangeFinishKeepsEpoch ==   \* mutant
    /\ Changing("finish")
    /\ \E s \in Resealed(listing, op.new) : listing' = [listing EXCEPT !.sealed = s]
    /\ mem' = LoadedFrom([mem EXCEPT !.phrase = op.new])
    /\ op' = NoOp
    /\ UNCHANGED <<keystore, files, caches, reader, torn, bounds>>
ChangeFinish ==
    /\ Changing("finish")
    /\ \E s \in Resealed(listing, op.new) : listing' = [listing EXCEPT !.sealed = s]
    /\ mem' = LoadedFrom([mem EXCEPT !.phrase = op.new])
    /\ epoch' = epoch + 1
    /\ op' = NoOp
    /\ UNCHANGED <<keystore, files, cache, reader, torn, bounds>>

\* reseal_db_keys_for_biometrics: the registry by derivation, the wallets by the
\* key that opened them.
Reseal ==
    /\ Idle /\ Unlocked /\ keystore /\ RegistryOpens(mem.phrase)
    /\ \A w \in listing.rows : WalletOpens(w, mem.phrase)
    /\ listing' = [listing EXCEPT !.sealed = mem.phrase]
    /\ files' = [w \in Wallets |-> IF w \in listing.rows THEN [files[w] EXCEPT !.sealed = files[w].key] ELSE files[w]]
    /\ mem' = IF mem.loaded THEN mem ELSE LoadedFrom(mem)
    /\ UNCHANGED <<keystore, op, caches, reader, torn, bounds>>

-----------------------------------------------------------------------------
(* open_wallet_db_for on a reader thread.                                  *)

readOnly == <<keystore, listing, mem, op, epoch, torn, bounds>>

ReadPhrase(r, w) ==
    /\ reader[r].pc = "rest" /\ Unlocked
    /\ reader' = [reader EXCEPT ![r] = [NoRead EXCEPT !.pc = "sync", !.phrase = mem.phrase, !.w = w]]
    /\ UNCHANGED <<readOnly, files, cache>>

\* sync_wallet_db_cache_epoch
Fresh(c) == IF c.epoch = epoch THEN c ELSE [epoch |-> epoch, entries |-> [w \in Wallets |-> NoPhrase]]
SyncEpoch(r) ==
    /\ reader[r].pc = "sync"
    /\ cache' = [cache EXCEPT ![r] = Fresh(@)]
    /\ reader' = [reader EXCEPT ![r].pc = "look"]
    /\ UNCHANGED <<readOnly, files>>

\* The wallet must be in the list; a cached handle ends the read.  delete_wallet
\* holds the list while it works.
LookUp(r) ==
    /\ reader[r].pc = "look" /\ op.kind # "delete"
    /\ reader' = IF reader[r].w \in mem.wallets /\ cache[r].entries[reader[r].w] = NoPhrase
                 THEN [reader EXCEPT ![r].pc = "open"] ELSE [reader EXCEPT ![r] = NoRead]
    /\ UNCHANGED <<readOnly, files, cache>>

\* The file is opened, or made again when it was deleted meanwhile.
OpenFile(r) ==
    /\ reader[r].pc = "open"
    /\ LET w == reader[r].w
           p == reader[r].phrase
       IN IF files[w] = NoFile
          THEN /\ \E s \in SealedOnce(NoFile, p) :
                    files' = [files EXCEPT ![w] = [key |-> p, tables |-> p, sealed |-> s, secret |-> FALSE]]
               /\ reader' = [reader EXCEPT ![r].pc = "insert", ![r].key = p]
          ELSE IF WalletOpens(w, p)
          THEN /\ \E s \in SealedOnce(files[w], files[w].key) : files' = [files EXCEPT ![w].sealed = s]
               /\ reader' = [reader EXCEPT ![r].pc = "insert", ![r].key = files[w].key]
          ELSE reader' = [reader EXCEPT ![r] = NoRead] /\ UNCHANGED files
    /\ UNCHANGED <<readOnly, cache>>

InsertHandle(r) ==
    /\ reader[r].pc = "insert"
    /\ cache' = [cache EXCEPT ![r].entries[reader[r].w] = reader[r].key]
    /\ reader' = [reader EXCEPT ![r] = NoRead]
    /\ UNCHANGED <<readOnly, files>>

Read(r) == SyncEpoch(r) \/ LookUp(r) \/ OpenFile(r) \/ InsertHandle(r)
VaultNext ==
    \/ \E p \in Phrases : Unlock(p)
    \/ Crash
    \/ \E w \in Wallets : CreateFile(w) \/ DeleteRow(w) \/ RekeyWallet(w)
    \/ CreateSecret \/ Register \/ CreateFails
    \/ DeleteActive \/ DeleteFiles
    \/ \E old, new \in Phrases : ChangeStart(old, new)
    \/ ReencryptTables \/ RollbackWallet \/ RollbackDone
    \/ RekeyRegistry \/ ClearHash \/ InsertHash \/ ChangeFinish
    \/ Reseal
    \/ \E r \in Readers : Read(r) \/ \E w \in Wallets : ReadPhrase(r, w)
VaultSpec == VaultInit /\ [][VaultNext]_vaultVars

-----------------------------------------------------------------------------
\* As long as no passphrase change was cut short, the registry opens with the
\* passphrase it verifies and every wallet it lists opens with it too, whatever
\* steps failed and were rolled back.
OnePassphrase ==
    op.kind # "change" /\ "change" \notin torn =>
        \E p \in Phrases :
            /\ listing.hash = p /\ RegistryOpens(p)
            /\ \A w \in listing.rows : WalletOpens(w, p)

\* A listed wallet is complete: its file holds its secret.  A crash in the middle
\* of creating or deleting a wallet leaves files nobody lists, never the reverse.
ListedComplete == \A w \in listing.rows \cup mem.wallets : files[w].secret

\* A handle that a reader's next open would return is keyed like its file, unless
\* a change is under way or some change failed: a failed one rekeys files back
\* without invalidate_all_wallet_db_caches, so a handle opened meanwhile stays.
HandlesCurrent ==
    op.kind # "change" /\ torn \cap {"change", "rollback"} = {} =>
        \A r \in Readers, w \in mem.wallets :
            cache[r].epoch = epoch => cache[r].entries[w] \in {NoPhrase, files[w].key}
=============================================================================
