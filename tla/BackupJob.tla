------------------------------ MODULE BackupJob ------------------------------
(***************************************************************************)
(* The full backup of the server: app/services/jobs.py and backups.py.     *)
(*                                                                         *)
(* Every day at 03:00, and whenever an administrator asks, one run copies  *)
(* the database and writes an archive for every account.  A copy is written*)
(* under a temporary name and verified; only then does it take the name of *)
(* the day, and only then are the copies older than seven days removed.    *)
(* One row (backup_state) says how the last run went.  Any step may fail,  *)
(* and the process may die between any two: the scheduler looks at the row *)
(* every quarter of an hour, and at once when the server starts.           *)
(*                                                                         *)
(* Time is counted in half days: the even ones begin at 00:00, the odd ones*)
(* at 03:00.  An archive is the time it was read, which gives the day in   *)
(* its name, and whether it can be restored.                               *)
(***************************************************************************)
EXTENDS Naturals, FiniteSets

CONSTANTS
    Accounts,       \* accounts that ever sign up
    Nameless,       \* of these, the ones with a name no folder may have: older
                    \* than the rule for names
    Db,             \* the copy of the database, a target like an account
    Never,          \* no time
    Retention,      \* half days after which an archive is removed
    LastTime,       \* bound on the time
    MaxFailures,    \* bound on the steps that fail
    MaxStops        \* bound on the crashes

ASSUME BackupAssumption ==
    /\ Db \notin Accounts /\ Nameless \subseteq Accounts
    /\ {Retention, LastTime, MaxFailures, MaxStops} \subseteq Nat
    /\ Retention > 0 /\ Never \notin Nat

VARIABLES
    now,            \* half days gone by
    accounts,       \* users
    left,           \* accounts that were deleted: their ids do not return
    copies,         \* the archives of each target, by their final names
    row,            \* backup_state: state, last_success, and whether the
                    \* latest start is less than 15 minutes ago
    run,            \* the run under way, or NoRun: _backup_lock is held
    up,             \* the server runs
    fails,          \* history: steps that failed
    stops,          \* history: crashes
    promised        \* history: what the last successful run covered

people == <<accounts, left>>
runVars == <<row, run>>
tally == <<fails, stops, promised>>
backupVars == <<now, accounts, left, copies, row, run, up, fails, stops, promised>>

Targets == Accounts \cup {Db}
Times == 0..LastTime
Date(t) == t \div 2
Copy == [read : Times, good : BOOLEAN]

NoRun == [at |-> "none"]

(* The latest 03:00 at or before t; before the first one there is none.    *)
Scheduled(t) == IF t % 2 = 1 THEN t ELSE t - 1

Due == row.last # Never => (now > 0 /\ row.last < Scheduled(now))

Fail == fails < MaxFailures /\ fails' = fails + 1 /\ UNCHANGED <<stops, promised>>

-----------------------------------------------------------------------------
(* run_backup: one run at a time.                                          *)
Begun == [at |-> "begin", began |-> now, listed |-> {}, todo |-> {},
              failed |-> {}]

StartManual ==
    /\ run = NoRun /\ up
    /\ run' = Begun
    /\ UNCHANGED <<now, people, copies, row, up, tally>>

(* The row says that a run is under way.                                   *)
Record ==
    /\ run.at = "begin"
    /\ row' = [row EXCEPT !.state = "running", !.recent = TRUE]
    /\ run' = [run EXCEPT !.at = "database", !.todo = {Db}]
    /\ UNCHANGED <<now, people, copies, up, tally>>

(* The exception is logged and the lock released.                          *)
RecordFails ==
    /\ run.at = "begin" /\ Fail
    /\ run' = NoRun
    /\ UNCHANGED <<now, people, copies, row, up>>

(* A copy of today takes the place of an earlier one of today.             *)
Placed(x, copy) == {c \in copies[x] : Date(c.read) # Date(now)} \cup {copy}

(* _prune_older_than.                                                      *)
Young(cs) == {c \in cs : c.read + Retention >= now}

(* Mutant: a copy takes its name before it is verified.                    *)
CopyVerifiedAfterwards(x) ==
    \/ /\ copies' = [copies EXCEPT ![x] = Young(Placed(x, [read |-> now, good |-> TRUE]))]
       /\ run' = [run EXCEPT !.todo = @ \ {x}]
       /\ UNCHANGED tally
    \/ /\ copies' = [copies EXCEPT ![x] = Placed(x, [read |-> now, good |-> FALSE])]
       /\ run' = [run EXCEPT !.todo = @ \ {x}, !.failed = @ \cup {x}]
       /\ Fail

(* snapshot_database and _backup_user: a copy is written under a temporary *)
(* name and verified, takes its name, and the old ones are removed.  It may*)
(* not be written or not be good, or an old one may not be removed.        *)
CopyTarget(x) ==
    \/ /\ copies' = [copies EXCEPT ![x] = Young(Placed(x, [read |-> now, good |-> TRUE]))]
       /\ run' = [run EXCEPT !.todo = @ \ {x}]
       /\ UNCHANGED tally
    \/ /\ \/ copies' = [copies EXCEPT ![x] = Placed(x, [read |-> now, good |-> TRUE])]
          \/ UNCHANGED copies
       /\ run' = [run EXCEPT !.todo = @ \ {x}, !.failed = @ \cup {x}]
       /\ Fail

CopyDatabase ==
    /\ run.at = "database"
    /\ Db \in run.todo
    /\ CopyTarget(Db)
    /\ UNCHANGED <<now, people, row, up>>

List ==
    /\ run.at = "database" /\ run.todo = {}
    /\ \/ /\ run' = [run EXCEPT !.at = "accounts", !.listed = accounts, !.todo = accounts]
          /\ UNCHANGED tally
       \/ /\ run' = [run EXCEPT !.at = "accounts", !.failed = @ \cup Accounts]
          /\ Fail
    /\ UNCHANGED <<now, people, copies, row, up>>

(* An account that failed does not stop the others; one that is gone is    *)
(* passed over, and so is one without a folder: it has no archive and does *)
(* not count as failed.                                                    *)
CopyAccount ==
    /\ run.at = "accounts"
    /\ \E a \in run.todo :
          IF a \in accounts \ Nameless
            THEN CopyTarget(a)
            ELSE /\ run' = [run EXCEPT !.todo = @ \ {a}]
                 /\ UNCHANGED <<copies, tally>>
    /\ UNCHANGED <<now, people, row, up>>

(* Mutant: only the copy of the database counts.                           *)
SucceededIfCopied == Db \notin run.failed

Succeeded == run.failed = {}

(* The row says how it went, and the lock is released.                     *)
Finish ==
    /\ run.at = "accounts" /\ run.todo = {}
    /\ row' = [row EXCEPT !.state = IF Succeeded THEN "success" ELSE "failed",
                          !.last = IF Succeeded THEN now ELSE @]
    /\ promised' = IF Succeeded
                     THEN [began |-> run.began, targets |-> (run.listed \ Nameless) \cup {Db}]
                     ELSE promised
    /\ run' = NoRun
    /\ UNCHANGED <<now, people, copies, up, fails, stops>>

(* The row cannot be written: it still says that the run is under way.     *)
FinishFails ==
    /\ run.at = "accounts" /\ run.todo = {} /\ Fail
    /\ run' = NoRun
    /\ UNCHANGED <<now, people, copies, row, up>>

-----------------------------------------------------------------------------
(* auto_backup_job.                                                        *)

Interrupted == row.state = "running"

(* Mutant: the row is taken at its word.                                   *)
WakeTrusting ==
    /\ up
    /\ run = NoRun
    /\ Due /\ ~row.recent /\ ~Interrupted
    /\ run' = Begun
    /\ UNCHANGED <<now, people, copies, row, up, tally>>

(* A run the row says is under way, with the lock free, was interrupted: it*)
(* is made up for at once, a failed one after a quarter of an hour.  A run *)
(* that is under way is left alone.                                        *)
Wake ==
    /\ up
    /\ run = NoRun
    /\ Due /\ (row.recent => Interrupted)
    /\ run' = Begun
    /\ UNCHANGED <<now, people, copies, row, up, tally>>

QuarterPasses ==
    /\ row.recent
    /\ row' = [row EXCEPT !.recent = FALSE]
    /\ UNCHANGED <<now, people, copies, run, up, tally>>

TimePasses ==
    /\ now < LastTime
    /\ run # NoRun => now = run.began      \* bound: a run takes a few hours
    /\ now' = now + 1
    /\ UNCHANGED <<people, copies, runVars, up, tally>>

SignsUp ==
    /\ up
    /\ \E a \in Accounts \ (accounts \cup left \cup Nameless) : accounts' = accounts \cup {a}
    /\ UNCHANGED <<now, left, copies, runVars, up, tally>>

(* The archives of an account that leaves stay where they are.             *)
Leaves ==
    /\ up
    /\ \E a \in accounts :
          /\ accounts' = accounts \ {a}
          /\ left' = left \cup {a}
    /\ UNCHANGED <<now, copies, runVars, up, tally>>

Stop ==
    /\ up
    /\ stops < MaxStops
    /\ stops' = stops + 1
    /\ up' = FALSE
    /\ run' = NoRun
    /\ UNCHANGED <<now, people, copies, row, fails, promised>>

Boot ==
    /\ ~up
    /\ up' = TRUE
    /\ UNCHANGED <<now, people, copies, runVars, tally>>

-----------------------------------------------------------------------------
BackupInit ==
    /\ now = 0
    /\ accounts \in SUBSET Accounts /\ left = {}
    /\ copies = [x \in Targets |-> {}]
    /\ row = [state |-> "never", last |-> Never, recent |-> FALSE]
    /\ run = NoRun
    /\ up = TRUE
    /\ fails = 0 /\ stops = 0
    /\ promised = [began |-> 0, targets |-> {}]

RunStep ==
    \/ Record \/ RecordFails \/ CopyDatabase \/ List \/ CopyAccount
    \/ Finish \/ FinishFails

BackupNext ==
    \/ RunStep \/ Wake \/ QuarterPasses \/ Boot
    \/ StartManual \/ TimePasses \/ SignsUp \/ Leaves \/ Stop

(* Threads run on, time passes, and somebody starts a server that stopped. *)
BackupFairness ==
    /\ WF_backupVars(RunStep) /\ WF_backupVars(Wake)
    /\ WF_backupVars(QuarterPasses) /\ WF_backupVars(Boot)

BackupSpec == BackupInit /\ [][BackupNext]_backupVars /\ BackupFairness

-----------------------------------------------------------------------------
BackupTypeOK ==
    /\ now \in Times
    /\ accounts \subseteq Accounts /\ left \subseteq Accounts \ accounts
    /\ copies \in [Targets -> SUBSET Copy]
    /\ row.state \in {"never", "running", "success", "failed"}
    /\ row.last \in Times \cup {Never} /\ row.recent \in BOOLEAN
    /\ up \in BOOLEAN

(* What the administrator reads as the last success is one: everything the *)
(* run covered has an archive that can be restored and is not older than   *)
(* the run, whatever failed or stopped since.  (Accounts without a folder  *)
(* are not covered, and nothing tells the administrator so.)               *)
LastSuccessIsTrue ==
    row.last # Never =>
        \A x \in promised.targets \cap (accounts \cup {Db}) :
           \E c \in copies[x] : c.good /\ c.read >= promised.began

(* Failures never eat into what is there: an archive goes only when a good *)
(* one has taken its name, or when it is too old and a younger good one is *)
(* in place (README.en.md:110).                                            *)
GoodCopiesStay ==
    [][\A x \in Targets : \A c \in copies[x] \ copies'[x] :
          c.good => \E d \in copies'[x] :
                       d.good /\ (Date(d.read) = Date(c.read) \/ (d.read > c.read /\ c.read + Retention < now))]_backupVars

(* A missed or failed backup is made up for.                               *)
CatchesUp == Due ~> ~Due
=============================================================================
