------------------------------- MODULE MCVaults -------------------------------
(***************************************************************************)
(* Five components around the vault's key, each on a small instance: the   *)
(* profile that is set up, changed and erased, the import and the export   *)
(* of an archive, the stream an archive is written in, and the lock of an  *)
(* open vault.  They share no variable of these models; focus picks the    *)
(* one that moves, the others rest in an initial state.                    *)
(***************************************************************************)
EXTENDS VaultReset, VaultImport, VaultExport, BackupStream, VaultLock, TLC

CONSTANTS Parts, a1, b1, r1, r2, f1

VARIABLE focus

MCOwner == f1 :> r1
MCEntries == <<"record", "index", "object">>

VaultsInit ==
    /\ focus \in Parts
    /\ Init /\ ImportInit /\ ExportInit /\ StreamInit /\ LockInit
    /\ focus # "reset" => profile = None
    /\ IF focus = "import" THEN account.key # "other"
                           ELSE account.key = "none" /\ fileRow = [f \in Files |-> "none"]
    /\ focus # "stream" => size = 0
    /\ focus # "lock" => tier = "seal" /\ server.body = 0

VaultsNext ==
    \/ focus = "reset" /\ Next /\ UNCHANGED <<focus, importVars, exportVars, streamVars, lockVars>>
    \/ focus = "import" /\ ImportNext /\ UNCHANGED <<focus, vars, exportVars, streamVars, lockVars>>
    \/ focus = "export" /\ ExportNext /\ UNCHANGED <<focus, vars, importVars, streamVars, lockVars>>
    \/ focus = "stream" /\ StreamNext /\ UNCHANGED <<focus, vars, importVars, exportVars, lockVars>>
    \/ focus = "lock" /\ LockNext /\ UNCHANGED <<focus, vars, importVars, exportVars, streamVars>>

VaultsSpec ==
    VaultsInit /\ [][VaultsNext]_<<focus, vars, importVars, exportVars, streamVars, lockVars>>

\* The two browsers of an import.
Symmetry == Permutations({a1, b1})

(* Everything the five components keep is of its type: keys and labels,      *)
(* imports and their objects, exports and their workers, frames, the lock.   *)
TypesOK == TypeOK /\ ImportTypeOK /\ ExportTypeOK /\ StreamTypeOK /\ LockTypeOK
===============================================================================
