-------------------------- MODULE MCWalletService ---------------------------
(***************************************************************************)
(* TLC instance of the wallet service's two managers, side by side: the    *)
(* sync lifecycle and the vault.  They share no state in the model (a      *)
(* passphrase change drops the sessions, which SyncControl has as an       *)
(* operation of its own), so each is explored while the other rests.  The  *)
(* vault's actions are listed one by one so that TLC counts the steps of   *)
(* each.                                                                   *)
(***************************************************************************)
EXTENDS SyncControl, Vault, TLC

CONSTANTS c1, c2, w1, w2, p1, p2, r1

VARIABLE part   \* the manager that is explored

InControl == part = "control"
InVault == part = "vault"
OnlyControl == UNCHANGED <<part, vaultVars>>
OnlyVault == UNCHANGED <<part, vars>>

\* One initial state of a manager at rest stands for all.
ServiceInit ==
    /\ Init /\ VaultInit
    /\ part \in {"control", "vault"}
    /\ part # "vault" => keystore
ServiceNext ==
    \/ InControl /\ Next /\ OnlyControl
    \/ InVault /\ (\E p \in Phrases : Unlock(p)) /\ OnlyVault
    \/ InVault /\ Crash /\ OnlyVault
    \/ InVault /\ (\E w \in Wallets : CreateFile(w)) /\ OnlyVault
    \/ InVault /\ CreateSecret /\ OnlyVault
    \/ InVault /\ Register /\ OnlyVault
    \/ InVault /\ CreateFails /\ OnlyVault
    \/ InVault /\ (\E w \in Wallets : DeleteRow(w)) /\ OnlyVault
    \/ InVault /\ DeleteActive /\ OnlyVault
    \/ InVault /\ DeleteFiles /\ OnlyVault
    \/ InVault /\ (\E old, new \in Phrases : ChangeStart(old, new)) /\ OnlyVault
    \/ InVault /\ (\E w \in Wallets : RekeyWallet(w)) /\ OnlyVault
    \/ InVault /\ ReencryptTables /\ OnlyVault
    \/ InVault /\ RollbackWallet /\ OnlyVault
    \/ InVault /\ RollbackDone /\ OnlyVault
    \/ InVault /\ RekeyRegistry /\ OnlyVault
    \/ InVault /\ ClearHash /\ OnlyVault
    \/ InVault /\ InsertHash /\ OnlyVault
    \/ InVault /\ ChangeFinish /\ OnlyVault
    \/ InVault /\ Reseal /\ OnlyVault
    \/ InVault /\ (\E r \in Readers, w \in Wallets : ReadPhrase(r, w)) /\ OnlyVault
    \/ InVault /\ (\E r \in Readers : SyncEpoch(r)) /\ OnlyVault
    \/ InVault /\ (\E r \in Readers : LookUp(r)) /\ OnlyVault
    \/ InVault /\ (\E r \in Readers : OpenFile(r)) /\ OnlyVault
    \/ InVault /\ (\E r \in Readers : InsertHandle(r)) /\ OnlyVault
ServiceSpec == ServiceInit /\ [][ServiceNext]_<<part, vars, vaultVars>>

ServiceSymmetry == Permutations(Callers)
=============================================================================
