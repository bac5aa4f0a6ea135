------------------------------- MODULE MCBackups -------------------------------
(* Making backups and restoring one, which share no state: `part' says     *)
(* which is explored.  The full backup: an account with a folder and one   *)
(* without that stays, two and a half days and copies kept for one day, a  *)
(* failure and a crash.  The restore: see MCRestoreRecovery; the database has just been*)
(* backed up, so no backup is due.                                         *)
EXTENDS BackupJob, MCRestoreRecovery

CONSTANTS a, old

VARIABLE part

MCAccounts == {a, old}
MCNameless == {old}

BackedUp ==
    /\ now = 0 /\ accounts = {} /\ left = {} /\ run = NoRun /\ up = TRUE
    /\ fails = 0 /\ stops = 0
    /\ copies = [x \in Targets |-> IF x = Db THEN {[read |-> 0, good |-> TRUE]} ELSE {}]
    /\ row = [state |-> "success", last |-> 0, recent |-> TRUE]
    /\ promised = [began |-> 0, targets |-> {Db}]

BackupsInit ==
    /\ Init
    /\ \/ part = "backup" /\ BackupInit /\ data = Blank /\ old \in accounts
       \/ part = "restore" /\ BackedUp

BackupsNext ==
    /\ UNCHANGED part
    /\ \/ part = "backup" /\ BackupNext /\ old \in accounts' /\ UNCHANGED vars
       \/ part = "restore" /\ Next /\ UNCHANGED backupVars

(* Each part is fair where it is the one explored.                         *)
BackupsSpec ==
    /\ BackupsInit /\ [][BackupsNext]_<<part, backupVars, vars>>
    /\ part = "backup" => BackupFairness
    /\ part = "restore" =>
          WF_vars(RestoreStep) /\ WF_vars(StartStep) /\ WF_vars(PurgeFolder)
=============================================================================
