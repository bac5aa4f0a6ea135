---------------------------- MODULE ServicesProofs ----------------------------
(***************************************************************************)
(* What all requests of a process share: the backup, the quotes and the    *)
(* statistics (BackupJob, QuoteService, StatsCache).                       *)
(*                                                                         *)
(* Backup: what the administrator is told of it is true, and no failure    *)
(* costs a good copy, for any accounts, retention, failures and crashes.   *)
(* The inductive invariant follows a run: whatever it has ticked off - is  *)
(* listed or the database, and no longer to do - has failed, has left, or  *)
(* has a good copy as young as the run.  Accounts that left never return,  *)
(* or the promise of an earlier run would be asked for by them.            *)
(*                                                                         *)
(* Quotes: the three properties for any number of requests, any capacity,  *)
(* any hours of trade and any interleaving of request and pool threads.  A *)
(* mode has at most one fetch and that one is in `inflight' until it is    *)
(* forgotten, so nothing kept can be younger than the fetch that is to     *)
(* replace it; a fetch without callback is that of the request that holds  *)
(* the lock, so no request can join a fetch that ended and will not be     *)
(* forgotten; no request was due after its fetch began; and what is kept,  *)
(* and so what a poll may be served, stands at the close if it was looked  *)
(* at when the close was known (Stands).                                   *)
(*                                                                         *)
(* Statistics: the properties of StatsCache for any threads and any number *)
(* of commits and restarts.  A version that is no longer current never     *)
(* becomes current again (NotLater), and as long as a version is current   *)
(* nothing is announced - so whatever was read after its version was taken *)
(* includes all that was announced, if the version still holds.            *)
(***************************************************************************)
EXTENDS BackupJob, QuoteService, StatsCache, TLAPS

Archive == [read : Nat, good : BOOLEAN]

(* A copy of x that can be restored and was read at t or later.            *)
Covered(x, t) == \E c \in copies[x] : c.good /\ c.read >= t

Run == [at : {"begin", "database", "accounts"}, began : Nat, listed : SUBSET Accounts,
        todo : SUBSET Targets, failed : SUBSET Targets]

BackupTypesInv ==
    /\ now \in Nat
    /\ accounts \subseteq Accounts /\ left \subseteq Accounts
    /\ copies \in [Targets -> SUBSET Archive]
    /\ run \in Run \cup {NoRun}
    /\ {"state", "last", "recent"} \subseteq DOMAIN row
    /\ promised \in [began : 0..now, targets : SUBSET Targets]

(* What a run over these accounts covers.                                  *)
Promises(listed) == (listed \ Nameless) \cup {Db}

(* Whoever was listed is there or has left.                                *)
PeopleInv ==
    /\ promised.targets \ {Db} \subseteq accounts \cup left
    /\ run # NoRun => run.listed \subseteq accounts \cup left

RunInv ==
    run # NoRun =>
        /\ run.began <= now
        /\ run.at # "accounts" => run.listed = {}
        /\ run.at = "accounts" => Db \notin run.todo
        /\ run.at # "begin" =>
              \A x \in Promises(run.listed) \ (run.todo \cup run.failed) :
                 x \in left \ accounts \/ Covered(x, run.began)

PromiseInv ==
    \A x \in promised.targets \cap (accounts \cup {Db}) : Covered(x, promised.began)

BackupInv ==
    /\ BackupTypesInv
    /\ PeopleInv
    /\ accounts \cap left = {}
    /\ RunInv
    /\ row.last # Never => PromiseInv

-----------------------------------------------------------------------------
(* One copy.                                                               *)

GoodNow == [read |-> now, good |-> TRUE]

(* The copies of a target with a new one of now, and what may be gone.     *)
Renewed(old, new) ==
    /\ new \subseteq Archive
    /\ \E c \in new : c.good /\ c.read = now
    /\ \A c \in old \ new : Date(c.read) = Date(now) \/ c.read + Retention < now

LEMMA PlacedRenews ==
    ASSUME BackupTypesInv, NEW x \in Targets
    PROVE  /\ Renewed(copies[x], Placed(x, GoodNow))
           /\ Renewed(copies[x], Young(Placed(x, GoodNow)))
<1> DEFINE placed == Placed(x, GoodNow)
           young == Young(placed)
<1>1. GoodNow \in Archive /\ GoodNow.good /\ GoodNow.read = now /\ now \in Nat
    BY DEF BackupTypesInv, Archive, GoodNow
<1>2. copies[x] \subseteq Archive
    BY DEF BackupTypesInv
<1>3. placed = {c \in copies[x] : Date(c.read) # Date(now)} \cup {GoodNow}
    BY DEF Placed
<1>4. young = {c \in placed : c.read + Retention >= now}
    BY DEF Young
<1> HIDE DEF placed, young
<1>5. placed \subseteq Archive /\ young \subseteq Archive
    BY <1>1, <1>2, <1>3, <1>4
<1>6. Retention \in Nat
    BY BackupAssumption
<1>7. GoodNow \in placed /\ GoodNow \in young
    BY <1>1, <1>3, <1>4, <1>6
<1>8. \A c \in copies[x] \ placed : Date(c.read) = Date(now)
    BY <1>3
<1>9. ASSUME NEW c \in placed \ young
      PROVE  c.read + Retention < now
    <2>1. c.read \in Nat
        BY <1>5 DEF Archive
    <2> QED
        BY <1>1, <1>4, <1>6, <2>1
<1> QED
    BY <1>1, <1>5, <1>7, <1>8, <1>9 DEF Renewed, placed, young

(* A target is ticked off: its copies are renewed, or it has failed and    *)
(* they may have been left alone.                                          *)
LEMMA CopyTargetWrites ==
    ASSUME BackupTypesInv, run # NoRun, NEW x \in Targets, CopyTarget(x)
    PROVE  /\ copies' \in [Targets -> SUBSET Archive]
           /\ \A y \in Targets \ {x} : copies'[y] = copies[y]
           /\ run' \in Run
           /\ run' = [run EXCEPT !.todo = @ \ {x}, !.failed = run'.failed]
           /\ promised' = promised
           /\ \/ Renewed(copies[x], copies'[x]) /\ run.failed \subseteq run'.failed
              \/ copies' = copies /\ run'.failed = run.failed \cup {x}
<1> DEFINE placed == Placed(x, GoodNow)
           young == Young(placed)
<1>1. run \in Run /\ copies \in [Targets -> SUBSET Archive]
    BY DEF BackupTypesInv
<1>2. Renewed(copies[x], placed) /\ Renewed(copies[x], young)
    BY PlacedRenews
<1>3. \/ /\ copies' = [copies EXCEPT ![x] = young]
         /\ run' = [run EXCEPT !.todo = @ \ {x}]
         /\ UNCHANGED tally
      \/ /\ copies' = [copies EXCEPT ![x] = placed] \/ UNCHANGED copies
         /\ run' = [run EXCEPT !.todo = @ \ {x}, !.failed = @ \cup {x}]
         /\ UNCHANGED promised
    BY DEF CopyTarget, Fail, GoodNow
<1> HIDE DEF placed, young
<1>4. CASE /\ copies' = [copies EXCEPT ![x] = young]
           /\ run' = [run EXCEPT !.todo = @ \ {x}]
           /\ UNCHANGED tally
    <2>1. run' \in Run /\ run'.failed = run.failed
        BY <1>1, <1>4 DEF Run
    <2>2. run' = [run EXCEPT !.todo = @ \ {x}, !.failed = run'.failed]
        BY <1>1, <1>4, <2>1 DEF Run
    <2> QED
        BY <1>1, <1>2, <1>4, <2>1, <2>2 DEF tally, Renewed
<1>5. CASE /\ copies' = [copies EXCEPT ![x] = placed] \/ UNCHANGED copies
           /\ run' = [run EXCEPT !.todo = @ \ {x}, !.failed = @ \cup {x}]
           /\ UNCHANGED promised
    <2>1. run' \in Run /\ run'.failed = run.failed \cup {x}
        BY <1>1, <1>5 DEF Run
    <2>2. run' = [run EXCEPT !.todo = @ \ {x}, !.failed = run'.failed]
        BY <1>1, <1>5, <2>1 DEF Run
    <2> QED
        BY <1>1, <1>2, <1>5, <2>1, <2>2 DEF Renewed
<1> QED
    BY <1>3, <1>4, <1>5

LEMMA CoverageStays ==
    ASSUME BackupTypesInv, run # NoRun, NEW x \in Targets, CopyTarget(x), NEW y \in Targets,
           NEW t \in Nat, t <= now, Covered(y, t)
    PROVE  Covered(y, t)'
<1>1. PICK c \in copies[y] : c.good /\ c.read >= t
    BY DEF Covered
<1>2. CASE c \in copies'[y]
    BY <1>1, <1>2 DEF Covered
<1>3. CASE c \notin copies'[y]
    <2>1. y = x /\ Renewed(copies[x], copies'[x])
        BY <1>1, <1>3, CopyTargetWrites
    <2>2. PICK d \in copies'[y] : d.good /\ d.read = now
        BY <2>1 DEF Renewed
    <2> QED
        BY <2>2 DEF Covered, BackupTypesInv
<1> QED
    BY <1>2, <1>3

(* A step of the run that copies x.                                        *)
LEMMA CopyKeeps ==
    ASSUME BackupInv, run # NoRun, run.at # "begin", NEW x \in Targets, CopyTarget(x),
           UNCHANGED <<now, people, row, up>>
    PROVE  BackupInv'
<1>1. /\ run' \in Run
      /\ run' = [run EXCEPT !.todo = @ \ {x}, !.failed = run'.failed]
      /\ copies' \in [Targets -> SUBSET Archive] /\ promised' = promised
      /\ \/ Renewed(copies[x], copies'[x]) /\ run.failed \subseteq run'.failed
         \/ copies' = copies /\ run'.failed = run.failed \cup {x}
    BY CopyTargetWrites DEF BackupInv
<1>2. run \in Run /\ run.began \in Nat /\ run.began <= now /\ now \in Nat
    BY DEF BackupInv, BackupTypesInv, RunInv, Run
<1>3. /\ run'.at = run.at /\ run'.began = run.began /\ run'.listed = run.listed
      /\ run'.todo = run.todo \ {x}
    BY <1>1, <1>2 DEF Run
<1>4. now' = now /\ accounts' = accounts /\ left' = left /\ row' = row
    BY DEF people
<1>5. \A y \in Targets, t \in 0..now : Covered(y, t) => Covered(y, t)'
    BY <1>2, CoverageStays DEF BackupInv
<1>6. BackupTypesInv' /\ PeopleInv' /\ (accounts \cap left = {})'
    BY <1>1, <1>3, <1>4 DEF BackupInv, BackupTypesInv, PeopleInv, NoRun
<1>7. ASSUME NEW y \in (Promises(run.listed) \ (run.todo \cup run.failed))
      PROVE  y \in left \ accounts \/ Covered(y, run.began)'
    <2>1. y \in left \ accounts \/ Covered(y, run.began)
        BY <1>7 DEF BackupInv, RunInv
    <2>2. y \in Targets
        BY <1>2 DEF Run, Targets, Promises
    <2> QED
        BY <1>2, <1>3, <1>5, <2>1, <2>2
<1>8. ASSUME Renewed(copies[x], copies'[x])
      PROVE  Covered(x, run.began)'
    BY <1>2, <1>3, <1>8 DEF Renewed, Covered
<1>9. RunInv'
    <2>1. ASSUME NEW y \in (Promises(run'.listed) \ (run'.todo \cup run'.failed))
          PROVE  y \in left' \ accounts' \/ Covered(y, run.began)'
        <3>1. CASE y = x
            BY <1>1, <1>8, <2>1, <3>1
        <3>2. CASE y # x
            BY <1>1, <1>3, <1>4, <1>7, <2>1, <3>2
        <3> QED
            BY <3>1, <3>2
    <2> QED
        BY <1>2, <1>3, <1>4, <2>1 DEF BackupInv, RunInv, Covered
<1>10. row'.last # Never => PromiseInv'
    <2> SUFFICES ASSUME row.last # Never,
                        NEW y \in promised.targets \cap (accounts \cup {Db})
                 PROVE  Covered(y, promised.began)'
        BY <1>1, <1>4 DEF PromiseInv, Covered
    <2>1. Covered(y, promised.began)
        BY DEF BackupInv, PromiseInv
    <2>2. y \in Targets /\ promised.began \in 0..now
        BY DEF BackupInv, BackupTypesInv, Targets
    <2> QED
        BY <1>1, <1>5, <2>1, <2>2
<1> QED
    BY <1>6, <1>9, <1>10 DEF BackupInv

-----------------------------------------------------------------------------
(* The other steps leave all copies alone.                                 *)

LEMMA BackupInitHolds == BackupInit => BackupInv
BY DEF BackupInit, BackupInv, BackupTypesInv, PeopleInv, RunInv, Archive, Times

(* A run begins or ends without a promise.                                 *)
LEMMA StartKeeps ==
    ASSUME BackupInv, run' = Begun \/ run' = NoRun,
           UNCHANGED <<now, people, copies, row, promised>>
    PROVE  BackupInv'
<1>1. Begun \in Run /\ Begun.at = "begin" /\ Begun.listed = {} /\ Begun.began = now
    BY DEF BackupInv, BackupTypesInv, Begun, Run
<1> QED
    BY <1>1 DEF BackupInv, BackupTypesInv, PeopleInv, RunInv, PromiseInv, Covered, people

LEMMA RecordKeeps ==
    ASSUME BackupInv, Record
    PROVE  BackupInv'
<1>1. run \in Run /\ run' = [run EXCEPT !.at = "database", !.todo = {Db}]
      /\ row' = [row EXCEPT !.state = "running", !.recent = TRUE]
    BY DEF Record, BackupInv, BackupTypesInv, NoRun
<1>2. /\ run' \in Run /\ run'.at = "database" /\ run'.todo = {Db}
      /\ run'.began = run.began /\ run'.listed = run.listed
    BY <1>1 DEF Run, Targets
<1>3. row'.last = row.last /\ DOMAIN row' = DOMAIN row
    BY <1>1 DEF BackupInv, BackupTypesInv
<1> QED
    BY <1>1, <1>2, <1>3
    DEF Record, BackupInv, BackupTypesInv, PeopleInv, RunInv, Promises, PromiseInv, Covered,
        people, tally, NoRun

LEMMA ListKeeps ==
    ASSUME BackupInv, List
    PROVE  BackupInv'
<1>1. run \in Run /\ run.at = "database" /\ run.todo = {} /\ run.listed = {}
    BY DEF List, BackupInv, BackupTypesInv, RunInv, NoRun
<1>2. /\ run' \in Run /\ run'.at = "accounts" /\ run'.began = run.began
      /\ run.failed \subseteq run'.failed
      /\ \/ run'.listed = accounts /\ run'.todo = accounts
         \/ run'.listed = {} /\ run'.todo = {}
      /\ UNCHANGED <<now, people, copies, row, promised>>
    <2>1. CASE run' = [run EXCEPT !.at = "accounts", !.listed = accounts, !.todo = accounts]
               /\ UNCHANGED tally
        BY <1>1, <2>1 DEF List, BackupInv, BackupTypesInv, Run, Targets, tally
    <2>2. CASE run' = [run EXCEPT !.at = "accounts", !.failed = @ \cup Accounts] /\ Fail
        BY <1>1, <2>2 DEF List, Run, Targets, Fail
    <2> QED
        BY <2>1, <2>2 DEF List
<1>3. \A x \in Promises(run'.listed) \ (run'.todo \cup run'.failed) :
         x \in left \ accounts \/ Covered(x, run.began)
    BY <1>1, <1>2 DEF BackupInv, RunInv, Promises, NoRun
<1> QED
    BY <1>1, <1>2, <1>3, BackupAssumption
    DEF BackupInv, BackupTypesInv, PeopleInv, RunInv, PromiseInv, Covered, people, NoRun

LEMMA CopyAccountKeeps ==
    ASSUME BackupInv, CopyAccount
    PROVE  BackupInv'
<1>1. run \in Run /\ run.at = "accounts" /\ run # NoRun
    BY DEF CopyAccount, BackupInv, BackupTypesInv, NoRun
<1>2. PICK a \in run.todo :
         IF a \in accounts \ Nameless
           THEN CopyTarget(a)
           ELSE run' = [run EXCEPT !.todo = @ \ {a}] /\ UNCHANGED <<copies, tally>>
    BY DEF CopyAccount
<1>3. UNCHANGED <<now, people, row, up>>
    BY DEF CopyAccount
<1>4. CASE a \in accounts \ Nameless
    BY <1>1, <1>2, <1>3, <1>4, CopyKeeps DEF Run
<1>5. CASE a \notin accounts \ Nameless
    <2>1. /\ run' \in Run /\ run'.at = run.at /\ run'.began = run.began
          /\ run'.listed = run.listed /\ run'.failed = run.failed /\ run'.todo = run.todo \ {a}
        BY <1>1, <1>2, <1>5 DEF Run
    <2>2. a \in Promises(run.listed) => a = Db \/ a \in left \ accounts
        BY <1>1, <1>5 DEF BackupInv, PeopleInv, Promises
    <2>3. UNCHANGED <<now, accounts, left, copies, row, promised>>
        BY <1>2, <1>3, <1>5 DEF people, tally
    <2>4. a # Db
        BY <1>1 DEF BackupInv, RunInv
    <2> QED
        BY <1>1, <2>1, <2>2, <2>3, <2>4
        DEF BackupInv, BackupTypesInv, PeopleInv, RunInv, PromiseInv, Covered, NoRun
<1> QED
    BY <1>4, <1>5

(* Whatever is ticked off at the end and did not fail is covered.          *)
LEMMA FinishKeeps ==
    ASSUME BackupInv, Finish
    PROVE  BackupInv'
<1>1. run \in Run /\ run.at = "accounts" /\ run.todo = {} /\ run # NoRun
    BY DEF Finish, BackupInv, BackupTypesInv, NoRun
<1>2. UNCHANGED <<now, accounts, left, copies>> /\ run' = NoRun /\ DOMAIN row' = DOMAIN row
    BY DEF Finish, people
<1>3. CASE ~Succeeded
    <2>1. promised' = promised /\ (row'.last # Never => row.last # Never)
        BY <1>3 DEF Finish, BackupInv, BackupTypesInv
    <2> QED
        BY <1>2, <2>1 DEF BackupInv, BackupTypesInv, PeopleInv, RunInv, PromiseInv, Covered
<1>4. CASE Succeeded
    <2>1. promised' = [began |-> run.began, targets |-> Promises(run.listed)]
        BY <1>4 DEF Finish, Promises
    <2>2. promised' \in [began : 0..now, targets : SUBSET Targets]
        BY <1>1, <2>1 DEF BackupInv, BackupTypesInv, RunInv, Run, Targets, Promises
    <2>3. run.listed \subseteq accounts \cup left
        BY <1>1 DEF BackupInv, PeopleInv
    <2>4. ASSUME NEW x \in Promises(run.listed) \cap (accounts \cup {Db})
          PROVE  Covered(x, run.began)
        <3>1. x \in left \ accounts \/ Covered(x, run.began)
            BY <1>1, <1>4 DEF BackupInv, RunInv, Succeeded
        <3>2. Db \notin left
            BY BackupAssumption DEF BackupInv, BackupTypesInv
        <3> QED
            BY <3>1, <3>2
    <2>5. PromiseInv'
        BY <1>2, <2>1, <2>4 DEF PromiseInv, Covered
    <2> QED
        BY <1>2, <2>1, <2>2, <2>3, <2>5 DEF BackupInv, BackupTypesInv, PeopleInv, RunInv, Promises
<1> QED
    BY <1>3, <1>4

LEMMA PeopleKeep ==
    ASSUME BackupInv, SignsUp \/ Leaves
    PROVE  BackupInv'
<1>1. UNCHANGED <<now, copies, row, run, promised>>
    BY DEF SignsUp, Leaves, runVars, tally
<1>2. /\ accounts' \subseteq Accounts /\ left' \subseteq Accounts
      /\ accounts \cup left \subseteq accounts' \cup left'
      /\ accounts' \cap left' = {}
      /\ left \ accounts \subseteq left' \ accounts'
    BY DEF SignsUp, Leaves, BackupInv, BackupTypesInv
<1>3. ASSUME NEW x \in promised.targets \cap (accounts' \cup {Db})
      PROVE  x \in promised.targets \cap (accounts \cup {Db})
    BY <1>2, <1>3 DEF BackupInv, PeopleInv
<1> QED
    BY <1>1, <1>2, <1>3 DEF BackupInv, BackupTypesInv, PeopleInv, RunInv, PromiseInv, Covered

LEMMA BackupTimeKeeps ==
    ASSUME BackupInv, TimePasses
    PROVE  BackupInv'
<1>1. UNCHANGED <<accounts, left, copies, row, run, promised>> /\ now' = now + 1
    BY DEF TimePasses, people, runVars, tally
<1>2. now \in Nat
    BY DEF BackupInv, BackupTypesInv
<1>3. promised \in [began : 0..now', targets : SUBSET Targets]
    BY <1>1, <1>2 DEF BackupInv, BackupTypesInv
<1>4. run # NoRun => run.began <= now'
    BY <1>1, <1>2 DEF BackupInv, BackupTypesInv, RunInv, Run
<1> QED
    BY <1>1, <1>2, <1>3, <1>4
    DEF BackupInv, BackupTypesInv, PeopleInv, RunInv, PromiseInv, Covered

LEMMA BackupNextKeeps ==
    ASSUME BackupInv, [BackupNext]_backupVars
    PROVE  BackupInv'
<1>1. CASE Record
    BY <1>1, RecordKeeps
<1>2. CASE RecordFails \/ FinishFails
    BY <1>2, StartKeeps DEF RecordFails, FinishFails, Fail, people
<1>3. CASE CopyDatabase
    <2>1. Db \in Targets /\ run # NoRun
        BY <1>3 DEF CopyDatabase, Targets, NoRun
    <2> QED
        BY <1>3, <2>1, CopyKeeps DEF CopyDatabase
<1>4. CASE List
    BY <1>4, ListKeeps
<1>5. CASE CopyAccount
    BY <1>5, CopyAccountKeeps
<1>6. CASE Finish
    BY <1>6, FinishKeeps
<1>7. CASE Wake \/ StartManual
    BY <1>7, StartKeeps DEF Wake, StartManual, tally, people
<1>8. CASE Stop
    BY <1>8, StartKeeps DEF Stop, people
<1>9. CASE SignsUp \/ Leaves
    BY <1>9, PeopleKeep
<1>10. CASE TimePasses
    BY <1>10, BackupTimeKeeps
<1>11. CASE QuarterPasses \/ Boot \/ UNCHANGED backupVars
    <2>1. UNCHANGED <<now, accounts, left, copies, run, promised>>
        BY <1>11 DEF QuarterPasses, Boot, backupVars, runVars, tally, people
    <2>2. row' = row \/ row' = [row EXCEPT !.recent = FALSE]
        BY <1>11 DEF QuarterPasses, Boot, backupVars, runVars
    <2>3. row'.last = row.last /\ DOMAIN row' = DOMAIN row
        BY <2>2 DEF BackupInv, BackupTypesInv
    <2> QED
        BY <2>1, <2>3 DEF BackupInv, BackupTypesInv, PeopleInv, RunInv, PromiseInv, Covered
<1> QED
    BY <1>1, <1>2, <1>3, <1>4, <1>5, <1>6, <1>7, <1>8, <1>9, <1>10, <1>11
    DEF BackupNext, RunStep

THEOREM BackupInvariant == BackupSpec => []BackupInv
<1>1. BackupInit => BackupInv
    BY BackupInitHolds
<1>2. BackupInv /\ [BackupNext]_backupVars => BackupInv'
    BY BackupNextKeeps
<1> QED
    BY <1>1, <1>2, PTL DEF BackupSpec

-----------------------------------------------------------------------------
(* The last success an administrator reads (backup_state) covers every     *)
(* account of its run that is still there, after any failures, crashes and *)
(* deletions since.                                                        *)
THEOREM TheLastSuccessIsTrue == BackupSpec => []LastSuccessIsTrue
<1>1. BackupInv => LastSuccessIsTrue
    BY DEF BackupInv, PromiseInv, Covered, LastSuccessIsTrue
<1> QED
    BY <1>1, BackupInvariant, PTL

(* An archive that can be restored goes only for another one that can, of  *)
(* its own day or younger (README.en.md:110).                              *)
LEMMA StepKeepsGoodCopies ==
    ASSUME BackupInv, [BackupNext]_backupVars, NEW x \in Targets,
           NEW c \in copies[x] \ copies'[x]
    PROVE  \E d \in copies'[x] :
              d.good /\ (Date(d.read) = Date(c.read) \/ (d.read > c.read /\ c.read + Retention < now))
<1>1. /\ copies \in [Targets -> SUBSET Archive] /\ now \in Nat
      /\ Retention \in Nat /\ Retention > 0
    BY BackupAssumption DEF BackupInv, BackupTypesInv
<1>2. PICK y \in Targets : CopyTarget(y) /\ run # NoRun
    <2>1. copies' # copies
        OBVIOUS
    <2>2. CopyDatabase \/ CopyAccount
        BY <2>1 DEF BackupNext, RunStep, Record, RecordFails, List, Finish, FinishFails, Wake,
                    StartManual, QuarterPasses, Boot, TimePasses, SignsUp, Leaves, Stop,
                    Fail, backupVars
    <2>3. CASE CopyDatabase
        BY <2>3 DEF CopyDatabase, Targets, NoRun
    <2>4. CASE CopyAccount
        <3>1. PICK a \in run.todo : CopyTarget(a)
            BY <2>1, <2>4 DEF CopyAccount
        <3>2. run # NoRun /\ run \in Run
            BY <2>4 DEF CopyAccount, NoRun, BackupInv, BackupTypesInv
        <3> QED
            BY <3>1, <3>2 DEF Run
    <2> QED
        BY <2>2, <2>3, <2>4
<1>3. x = y /\ Renewed(copies[x], copies'[x])
    BY <1>2, CopyTargetWrites DEF BackupInv
<1>4. PICK d \in copies'[x] : d.good /\ d.read = now
    BY <1>3 DEF Renewed
<1>5. c.read \in Nat
    BY <1>1 DEF Archive
<1>6. Date(c.read) = Date(now) \/ c.read + Retention < now
    BY <1>3 DEF Renewed
<1>7. CASE c.read + Retention < now
    BY <1>1, <1>4, <1>5, <1>7
<1> QED
    BY <1>4, <1>6, <1>7

THEOREM GoodCopiesAreKept == BackupSpec => GoodCopiesStay
<1>1. BackupInv /\ [BackupNext]_backupVars =>
         [\A x \in Targets : \A c \in copies[x] \ copies'[x] :
             c.good => \E d \in copies'[x] :
                          d.good /\ (Date(d.read) = Date(c.read) \/ (d.read > c.read /\ c.read + Retention < now))]_backupVars
    BY StepKeepsGoodCopies
<1> QED
    BY <1>1, BackupInvariant, PTL DEF BackupSpec, GoodCopiesStay

-----------------------------------------------------------------------------
(* Quotes.                                                                 *)

Fetch == [at : {"queued", "begun", "done"}, mode : Modes, manual : BOOLEAN,
          registered : BOOLEAN, began : Nat \cup {Unchecked}, answer : QuoteAnswer]

QuoteTypesInv ==
    /\ time \in Moments
    /\ closeSince \in (0..time) \cup {Unchecked}
    /\ closeSince # Unchecked <=> "KRX_CLOSE" \in slots
    /\ quotes \in [Modes -> QuoteAnswer \cup {NoQuote}]
    /\ inflight \in [Modes -> Requests \cup {NoOne}]
    /\ fetch \in [Requests -> Fetch \cup {NoFetch}]
    /\ ask \in [Requests -> [at : {"waiting"}, of : Requests, manual : BOOLEAN, due : 0..time]
                            \cup {Idle}]

(* One fetch for a mode.                                                   *)
OneInv ==
    /\ \A f \in Requests : fetch[f] # NoFetch => inflight[fetch[f].mode] = f
    /\ \A m \in Modes : inflight[m] # NoOne =>
          fetch[inflight[m]] # NoFetch /\ fetch[inflight[m]].mode = m

LockInv ==
    /\ lock # NoOne => lock \in Requests /\ fetch[lock] # NoFetch /\ ~fetch[lock].registered
    /\ \A f \in Requests : fetch[f] # NoFetch /\ f # lock => fetch[f].registered

(* The answer of the KRX mode is the close if it was looked at out of      *)
(* hours, and later than the close has been known, c.                      *)
Stands(mode, answer, c) ==
    /\ mode = "KRX" /\ OutOfHours(answer.checked)
    /\ c # Unchecked /\ c < answer.checked
    => answer.slot = "KRX_CLOSE"

(* The answer kept for a mode, NoQuote excepted.                           *)
Kept(mode, answer, t, c) ==
    answer.status = "ok" /\ answer.checked \in 0..t /\ Stands(mode, answer, c)

KeptInv ==
    \A m \in Modes : quotes[m] # NoQuote => Kept(m, quotes[m], time, closeSince)

(* How old the current answer of a fetch that has ended may be.            *)
Current(g) ==
    /\ g.began # Unchecked /\ g.answer.checked \in 0..g.began
    /\ IF g.manual THEN g.answer.checked = g.began
                   ELSE g.answer.checked + PRICE_MEM_TTL > g.began

(* A fetch g at the time t, with the kept answers q.                       *)
Sound(g, t, q, c) ==
    /\ g.at = "queued" <=> g.began = Unchecked
    /\ g.began # Unchecked => g.began <= t
    /\ g.at = "begun" /\ q[g.mode] # NoQuote => q[g.mode].checked <= g.began
    /\ g.at = "done" /\ g.answer.status = "ok" => Current(g) /\ Stands(g.mode, g.answer, c)

FetchInv ==
    \A f \in Requests : fetch[f] # NoFetch => Sound(fetch[f], time, quotes, closeSince)

WaitInv ==
    \A r \in Requests : ask[r] # Idle =>
        LET g == fetch[ask[r].of]
        IN  g # NoFetch /\ (g.began # Unchecked => ask[r].due <= g.began)

QuoteInv == QuoteTypesInv /\ OneInv /\ LockInv /\ KeptInv /\ FetchInv /\ WaitInv

-----------------------------------------------------------------------------
LEMMA QuoteInitHolds == QuoteInit => QuoteInv
BY QuoteAssumption
DEF QuoteInit, QuoteInv, QuoteTypesInv, OneInv, LockInv, KeptInv, FetchInv, WaitInv, Moments

(* What does not touch prices.                                             *)
LEMMA PricesStay ==
    ASSUME QuoteInv, UNCHANGED <<time, slots, closeSince, quotes>>
    PROVE  KeptInv'
BY DEF QuoteInv, KeptInv

LEMMA SubmitKeeps ==
    ASSUME QuoteInv, NEW r \in Requests, NEW mode \in Modes, NEW manual \in BOOLEAN,
           Submit(r, mode, manual)
    PROVE  QuoteInv'
<1> DEFINE g == [at |-> "queued", mode |-> mode, manual |-> manual, registered |-> FALSE,
                 began |-> Unchecked, answer |-> NoAnswer]
           w == Waiting(r, manual, time)
<1>1. /\ fetch' = [fetch EXCEPT ![r] = g] /\ inflight' = [inflight EXCEPT ![mode] = r]
      /\ ask' = [ask EXCEPT ![r] = w] /\ lock' = r
      /\ UNCHANGED <<time, slots, closeSince, quotes>>
      /\ ask[r] = Idle /\ fetch[r] = NoFetch /\ lock = NoOne /\ inflight[mode] = NoOne
    BY DEF Submit, Submitted
<1>2. /\ g \in Fetch /\ g.at = "queued" /\ g.mode = mode /\ ~g.registered
      /\ g.began = Unchecked
    BY DEF Fetch, QuoteAnswer, NoAnswer, Slots
<1>3. /\ w \in [at : {"waiting"}, of : Requests, manual : BOOLEAN, due : 0..time]
      /\ w.of = r /\ w.due = time
    BY DEF QuoteInv, QuoteTypesInv, Moments, Waiting
<1>4. g # NoFetch /\ w # Idle
    BY DEF NoFetch, Idle, Waiting
<1> HIDE DEF g, w
<1>5. fetch'[r] = g /\ \A f \in Requests \ {r} : fetch'[f] = fetch[f]
    BY <1>1 DEF QuoteInv, QuoteTypesInv
<1>6. ask'[r] = w /\ \A s \in Requests \ {r} : ask'[s] = ask[s]
    BY <1>1 DEF QuoteInv, QuoteTypesInv
<1>7. inflight'[mode] = r /\ \A m \in Modes \ {mode} : inflight'[m] = inflight[m]
    BY <1>1 DEF QuoteInv, QuoteTypesInv
<1>8. QuoteTypesInv'
    BY <1>1, <1>2, <1>3 DEF QuoteInv, QuoteTypesInv
<1>9. OneInv'
    BY <1>1, <1>2, <1>4, <1>5, <1>7, QuoteAssumption DEF QuoteInv, QuoteTypesInv, OneInv, Fetch
<1>10. LockInv'
    BY <1>1, <1>2, <1>4, <1>5, QuoteAssumption DEF QuoteInv, LockInv
<1>11. FetchInv'
    BY <1>1, <1>2, <1>5 DEF QuoteInv, FetchInv, Sound
<1>12. WaitInv'
    BY <1>1, <1>2, <1>3, <1>4, <1>5, <1>6 DEF QuoteInv, QuoteTypesInv, WaitInv
<1> QED
    BY <1>1, <1>8, <1>9, <1>10, <1>11, <1>12, PricesStay DEF QuoteInv

LEMMA JoinKeeps ==
    ASSUME QuoteInv, NEW r \in Requests, NEW mode \in Modes, NEW manual \in BOOLEAN,
           Join(r, mode, manual)
    PROVE  QuoteInv'
<1> DEFINE f == inflight[mode]
           due == IF UnderWay(f) THEN fetch[f].began ELSE time
           w == Waiting(f, manual, due)
<1>1. /\ ask' = [ask EXCEPT ![r] = w] /\ lock = NoOne /\ inflight[mode] # NoOne
      /\ UNCHANGED <<time, slots, closeSince, quotes, lock, inflight, fetch>>
    BY DEF Join
<1>2. f \in Requests /\ fetch[f] # NoFetch /\ fetch[f] \in Fetch /\ time \in Nat
    BY <1>1 DEF QuoteInv, QuoteTypesInv, OneInv, Moments
<1>3. fetch[f].registered /\ Sound(fetch[f], time, quotes, closeSince)
    BY <1>1, <1>2, QuoteAssumption DEF QuoteInv, LockInv, FetchInv
<1>4. due \in 0..time /\ (fetch[f].began # Unchecked => due <= fetch[f].began)
    BY <1>2, <1>3, QuoteAssumption DEF Fetch, Sound, UnderWay
<1> HIDE DEF f, due
<1>5. /\ w \in [at : {"waiting"}, of : Requests, manual : BOOLEAN, due : 0..time] /\ w # Idle
      /\ w.of = f /\ w.due = due
    BY <1>2, <1>4 DEF Idle, Waiting
<1> HIDE DEF w
<1>6. QuoteTypesInv' /\ OneInv' /\ LockInv' /\ FetchInv'
    BY <1>1, <1>5 DEF QuoteInv, QuoteTypesInv, OneInv, LockInv, FetchInv
<1>7. WaitInv'
    BY <1>1, <1>2, <1>4, <1>5 DEF QuoteInv, QuoteTypesInv, WaitInv
<1> QED
    BY <1>1, <1>6, <1>7, PricesStay DEF QuoteInv

(* A fetch is forgotten, with all who wait for it.                         *)
LEMMA ForgottenKeeps ==
    ASSUME QuoteInv, NEW f \in Requests, fetch[f] # NoFetch, Forgotten(f),
           lock' = NoOne, lock \in {NoOne, f}, UNCHANGED <<time, slots, closeSince, quotes>>
    PROVE  QuoteInv'
<1> DEFINE mode == fetch[f].mode
<1>1. /\ inflight' = [inflight EXCEPT ![mode] = NoOne]
      /\ fetch' = [fetch EXCEPT ![f] = NoFetch]
      /\ ask' = [r \in Requests |-> IF ask[r] # Idle /\ ask[r].of = f THEN Idle ELSE ask[r]]
    BY DEF Forgotten
<1>2. mode \in Modes /\ inflight[mode] = f
    BY DEF QuoteInv, QuoteTypesInv, OneInv, Fetch
<1> HIDE DEF mode
<1>3. fetch'[f] = NoFetch /\ \A g \in Requests \ {f} : fetch'[g] = fetch[g]
    BY <1>1 DEF QuoteInv, QuoteTypesInv
<1>4. inflight'[mode] = NoOne /\ \A m \in Modes \ {mode} : inflight'[m] = inflight[m]
    BY <1>1, <1>2 DEF QuoteInv, QuoteTypesInv
<1>5. QuoteTypesInv'
    <2>1. inflight' \in [Modes -> Requests \cup {NoOne}]
        BY <1>1 DEF QuoteInv, QuoteTypesInv
    <2>2. fetch' \in [Requests -> Fetch \cup {NoFetch}]
        BY <1>1 DEF QuoteInv, QuoteTypesInv
    <2>3. ask' \in [Requests -> [at : {"waiting"}, of : Requests, manual : BOOLEAN,
                                 due : 0..time] \cup {Idle}]
        BY <1>1, Zenon DEF QuoteInv, QuoteTypesInv
    <2> QED
        BY <2>1, <2>2, <2>3 DEF QuoteInv, QuoteTypesInv
<1>6. OneInv'
    <2>1. ASSUME NEW g \in Requests, fetch'[g] # NoFetch
          PROVE  inflight'[fetch'[g].mode] = g
        <3>1. g # f /\ fetch'[g] = fetch[g] /\ inflight[fetch[g].mode] = g
            BY <1>3, <2>1 DEF QuoteInv, OneInv
        <3>2. fetch[g].mode # mode /\ fetch[g].mode \in Modes
            BY <1>2, <2>1, <3>1 DEF QuoteInv, QuoteTypesInv, Fetch
        <3> QED
            BY <1>4, <3>1, <3>2
    <2>2. ASSUME NEW m \in Modes, inflight'[m] # NoOne
          PROVE  fetch'[inflight'[m]] # NoFetch /\ fetch'[inflight'[m]].mode = m
        <3>1. m # mode /\ inflight'[m] = inflight[m]
            BY <1>4, <2>2
        <3>2. fetch[inflight[m]] # NoFetch /\ fetch[inflight[m]].mode = m
            BY <2>2, <3>1 DEF QuoteInv, OneInv
        <3>3. inflight[m] \in Requests \ {f}
            BY <2>2, <3>1, <3>2 DEF QuoteInv, QuoteTypesInv, mode
        <3> QED
            BY <1>3, <3>1, <3>2, <3>3
    <2> QED
        BY <2>1, <2>2 DEF OneInv
<1>7. LockInv'
    BY <1>3, QuoteAssumption DEF QuoteInv, LockInv
<1>8. FetchInv'
    BY <1>3 DEF QuoteInv, FetchInv
<1>9. WaitInv'
    <2> SUFFICES ASSUME NEW r \in Requests, ask'[r] # Idle
                 PROVE  LET g == fetch'[ask'[r].of]
                        IN  g # NoFetch /\ (g.began # Unchecked => ask'[r].due <= g.began)
        BY DEF WaitInv
    <2>1. ask'[r] = ask[r] /\ ask[r].of # f
        BY <1>1
    <2>2. ask[r].of \in Requests
        BY <2>1 DEF QuoteInv, QuoteTypesInv
    <2> QED
        BY <1>3, <2>1, <2>2 DEF QuoteInv, WaitInv
<1> QED
    BY <1>5, <1>6, <1>7, <1>8, <1>9, PricesStay DEF QuoteInv

LEMMA RegisterKeeps ==
    ASSUME QuoteInv, NEW r \in Requests, Register(r)
    PROVE  QuoteInv'
<1>1. lock = r /\ lock' = NoOne /\ fetch[r] # NoFetch /\ fetch[r] \in Fetch
    BY QuoteAssumption DEF Register, QuoteInv, LockInv, QuoteTypesInv
<1>2. CASE fetch[r].at = "done"
    BY <1>1, <1>2, ForgottenKeeps DEF Register
<1>3. CASE fetch[r].at # "done"
    <2> DEFINE g == [fetch[r] EXCEPT !.registered = TRUE]
    <2>1. /\ fetch' = [fetch EXCEPT ![r] = g]
          /\ UNCHANGED <<time, slots, closeSince, quotes, ask, inflight>>
        BY <1>3 DEF Register
    <2>2. /\ g \in Fetch /\ g.registered /\ g.at = fetch[r].at /\ g.mode = fetch[r].mode
          /\ g.began = fetch[r].began
        BY <1>1 DEF Fetch
    <2>3. g # NoFetch
        BY <2>2 DEF Fetch, NoFetch
    <2> HIDE DEF g
    <2>4. fetch'[r] = g /\ \A f \in Requests \ {r} : fetch'[f] = fetch[f]
        BY <2>1 DEF QuoteInv, QuoteTypesInv
    <2>5. QuoteTypesInv'
        BY <2>1, <2>2 DEF QuoteInv, QuoteTypesInv
    <2>6. OneInv'
        BY <1>1, <2>1, <2>2, <2>3, <2>4 DEF QuoteInv, QuoteTypesInv, OneInv
    <2>7. LockInv'
        BY <1>1, <2>2, <2>4, QuoteAssumption DEF QuoteInv, LockInv
    <2>8. FetchInv'
        <3>1. Sound(g, time, quotes, closeSince)
            BY <1>1, <1>3, <2>2 DEF QuoteInv, FetchInv, Sound
        <3> QED
            BY <2>1, <2>4, <3>1 DEF QuoteInv, FetchInv
    <2>9. WaitInv'
        BY <1>1, <2>1, <2>2, <2>3, <2>4 DEF QuoteInv, QuoteTypesInv, WaitInv
    <2> QED
        BY <2>1, <2>5, <2>6, <2>7, <2>8, <2>9, PricesStay DEF QuoteInv
<1> QED
    BY <1>2, <1>3

LEMMA TakeKeeps ==
    ASSUME QuoteInv, NEW r \in Requests, Take(r)
    PROVE  QuoteInv'
<1>1. /\ ask' = [ask EXCEPT ![r] = Idle]
      /\ UNCHANGED <<time, slots, closeSince, quotes, lock, inflight, fetch>>
    BY DEF Take
<1> QED
    BY <1>1, PricesStay DEF QuoteInv, QuoteTypesInv, OneInv, LockInv, FetchInv, WaitInv

-----------------------------------------------------------------------------
(* The close becomes known now, or its time stays.                         *)
SlotsGrow ==
    /\ closeSince' = closeSince \/ (closeSince = Unchecked /\ closeSince' = time)
    /\ closeSince' # Unchecked <=> "KRX_CLOSE" \in slots'

LEMMA SavedSlotsGrow ==
    ASSUME QuoteInv, NEW slot \in Slots, SaveSlot(slot)
    PROVE  SlotsGrow
<1>1. time \in Nat /\ time # Unchecked
    BY QuoteAssumption DEF QuoteInv, QuoteTypesInv, Moments
<1>2. closeSince # Unchecked <=> "KRX_CLOSE" \in slots
    BY DEF QuoteInv, QuoteTypesInv
<1>3. CASE UNCHANGED <<slots, closeSince>>
    BY <1>2, <1>3 DEF SlotsGrow
<1>4. CASE /\ slots' = slots \cup {slot}
           /\ closeSince' = IF slot = "KRX_CLOSE" /\ closeSince = Unchecked
                              THEN time ELSE closeSince
    BY <1>1, <1>2, <1>4 DEF SlotsGrow
<1> QED
    BY <1>3, <1>4 DEF SaveSlot

(* What was looked at by now still stands.                                 *)
LEMMA StandsOn ==
    ASSUME QuoteInv, SlotsGrow, NEW mode, NEW answer, answer.checked \in 0..time,
           Stands(mode, answer, closeSince)
    PROVE  Stands(mode, answer, closeSince')
<1>1. CASE closeSince' = closeSince
    BY <1>1
<1>2. CASE closeSince' = time
    <2>1. time \in Nat
        BY QuoteAssumption DEF QuoteInv, QuoteTypesInv, Moments
    <2> QED
        BY <1>2, <2>1 DEF Stands
<1> QED
    BY <1>1, <1>2 DEF SlotsGrow

(* Prices change: what is known of a fetch that does not go on.            *)
LEMMA SoundOn ==
    ASSUME QuoteInv, SlotsGrow, NEW g \in Fetch, Sound(g, time, quotes, closeSince)
    PROVE  Sound(g, time, quotes, closeSince')
<1>1. time \in Nat
    BY QuoteAssumption DEF QuoteInv, QuoteTypesInv, Moments
<1>2. ASSUME g.at = "done", g.answer.status = "ok"
      PROVE  Stands(g.mode, g.answer, closeSince')
    <2>1. Stands(g.mode, g.answer, closeSince) /\ g.answer.checked \in 0..g.began
          /\ g.began # Unchecked /\ g.began <= time
        BY <1>2 DEF Sound, Current
    <2>2. g.answer.checked \in 0..time
        BY <1>1, <2>1 DEF Fetch
    <2> QED
        BY <2>1, <2>2, StandsOn
<1> QED
    BY <1>2 DEF Sound

(* Fetch f gets on and becomes g; only quotes of its mode may change.      *)
LEMMA FetchStepKeeps ==
    ASSUME QuoteInv, NEW f \in Requests, fetch[f] # NoFetch, NEW g \in Fetch,
           fetch' = [fetch EXCEPT ![f] = g],
           g.mode = fetch[f].mode, g.registered = fetch[f].registered,
           g.began = IF fetch[f].began = Unchecked THEN time ELSE fetch[f].began,
           SlotsGrow, Sound(g, time, quotes', closeSince'),
           quotes' \in [Modes -> QuoteAnswer \cup {NoQuote}],
           \A m \in Modes \ {g.mode} : quotes'[m] = quotes[m],
           quotes'[g.mode] # NoQuote => Kept(g.mode, quotes'[g.mode], time, closeSince'),
           UNCHANGED <<time, lock, inflight, ask>>
    PROVE  QuoteInv'
<1>1. g # NoFetch /\ fetch[f] \in Fetch
    BY DEF Fetch, NoFetch, QuoteInv, QuoteTypesInv
<1>2. fetch'[f] = g /\ \A h \in Requests \ {f} : fetch'[h] = fetch[h]
    BY DEF QuoteInv, QuoteTypesInv
<1>3. QuoteTypesInv'
    <2>1. closeSince' \in (0..time) \cup {Unchecked}
        BY QuoteAssumption DEF SlotsGrow, QuoteInv, QuoteTypesInv, Moments
    <2>2. fetch' \in [Requests -> Fetch \cup {NoFetch}]
        BY <1>1 DEF QuoteInv, QuoteTypesInv
    <2> QED
        BY <2>1, <2>2 DEF QuoteInv, QuoteTypesInv, SlotsGrow
<1>4. OneInv'
    BY <1>1, <1>2 DEF QuoteInv, QuoteTypesInv, OneInv
<1>5. LockInv'
    BY <1>1, <1>2 DEF QuoteInv, LockInv
<1>6. FetchInv'
    <2> SUFFICES ASSUME NEW h \in Requests, fetch'[h] # NoFetch
                 PROVE  Sound(fetch'[h], time, quotes', closeSince')
        BY DEF FetchInv
    <2>1. CASE h = f
        BY <1>2, <2>1
    <2>2. CASE h # f
        <3>1. /\ fetch'[h] = fetch[h] /\ Sound(fetch[h], time, quotes, closeSince)
              /\ fetch[h] \in Fetch
            BY <1>2, <2>2 DEF QuoteInv, FetchInv, QuoteTypesInv
        <3>2. fetch[h].mode \in Modes /\ fetch[h].mode # g.mode
            BY <1>2, <2>2 DEF QuoteInv, QuoteTypesInv, OneInv, Fetch
        <3>3. quotes'[fetch[h].mode] = quotes[fetch[h].mode]
            BY <3>2
        <3>4. Sound(fetch[h], time, quotes, closeSince')
            BY <3>1, SoundOn
        <3> QED
            BY <3>1, <3>3, <3>4 DEF Sound
    <2> QED
        BY <2>1, <2>2
<1>7. WaitInv'
    <2> SUFFICES ASSUME NEW r \in Requests, ask[r] # Idle
                 PROVE  LET h == fetch'[ask[r].of]
                        IN  h # NoFetch /\ (h.began # Unchecked => ask[r].due <= h.began)
        BY DEF WaitInv
    <2>1. ask[r].of \in Requests /\ ask[r].due \in 0..time
        BY DEF QuoteInv, QuoteTypesInv
    <2>2. LET h == fetch[ask[r].of]
          IN  h # NoFetch /\ (h.began # Unchecked => ask[r].due <= h.began)
        BY DEF QuoteInv, WaitInv
    <2>3. time \in Nat
        BY QuoteAssumption DEF QuoteInv, QuoteTypesInv, Moments
    <2> QED
        BY <1>1, <1>2, <2>1, <2>2, <2>3
<1>8. KeptInv'
    <2> SUFFICES ASSUME NEW m \in Modes, quotes'[m] # NoQuote
                 PROVE  Kept(m, quotes'[m], time, closeSince')
        BY DEF KeptInv
    <2>1. CASE m = g.mode
        BY <2>1
    <2>2. CASE m # g.mode
        <3>1. quotes'[m] = quotes[m] /\ Kept(m, quotes[m], time, closeSince)
            BY <2>2 DEF QuoteInv, KeptInv
        <3> QED
            BY <3>1, StandsOn DEF Kept
    <2> QED
        BY <2>1, <2>2
<1> QED
    BY <1>3, <1>4, <1>5, <1>6, <1>7, <1>8 DEF QuoteInv

(* What Answered writes.                                                   *)
LEMMA AnsweredWrites ==
    ASSUME QuoteInv, NEW f \in Requests, fetch[f] # NoFetch, NEW answer \in QuoteAnswer,
           Answered(f, answer)
    PROVE  \E g \in Fetch :
              /\ fetch' = [fetch EXCEPT ![f] = g]
              /\ g.at = "done" /\ g.answer = answer /\ g.manual = fetch[f].manual
              /\ g.mode = fetch[f].mode /\ g.registered = fetch[f].registered
              /\ g.began = IF fetch[f].began = Unchecked THEN time ELSE fetch[f].began
<1> DEFINE began == IF fetch[f].began = Unchecked THEN time ELSE fetch[f].began
           g == [fetch[f] EXCEPT !.at = "done", !.answer = answer, !.began = began]
<1>1. fetch[f] \in Fetch
    BY DEF QuoteInv, QuoteTypesInv
<1>2. began \in Nat \cup {Unchecked}
    BY <1>1 DEF QuoteInv, QuoteTypesInv, Fetch, Moments
<1> HIDE DEF began
<1>3. /\ g \in Fetch /\ g.at = "done" /\ g.answer = answer /\ g.manual = fetch[f].manual
      /\ g.mode = fetch[f].mode /\ g.registered = fetch[f].registered /\ g.began = began
    BY <1>1, <1>2 DEF Fetch
<1>4. fetch' = [fetch EXCEPT ![f] = g]
    BY Zenon DEF Answered, began
<1> HIDE DEF g
<1> QED
    BY <1>3, <1>4 DEF began

(* A fetch ends with an answer that is sound if it is current.             *)
LEMMA EndKeeps ==
    ASSUME QuoteInv, NEW f \in Requests, fetch[f].at \in {"queued", "begun"},
           NEW answer \in QuoteAnswer, Answered(f, answer), SlotsGrow,
           NEW began, began = IF fetch[f].began = Unchecked THEN time ELSE fetch[f].began,
           answer.status = "ok" =>
              /\ answer.checked \in 0..began
              /\ IF fetch[f].manual THEN answer.checked = began
                                    ELSE answer.checked + PRICE_MEM_TTL > began
              /\ Stands(fetch[f].mode, answer, closeSince'),
           quotes' \in {quotes, [quotes EXCEPT ![fetch[f].mode] = answer]},
           quotes' # quotes => answer.status = "ok",
           UNCHANGED <<time, lock, inflight, ask>>
    PROVE  QuoteInv'
<1>1. /\ fetch[f] \in Fetch /\ fetch[f] # NoFetch
      /\ time \in Nat /\ fetch[f].began \in (0..time) \cup {Unchecked}
    BY QuoteAssumption
    DEF QuoteInv, QuoteTypesInv, FetchInv, Sound, NoFetch, Fetch, Moments
<1>2. began \in 0..time /\ began # Unchecked
    BY <1>1, QuoteAssumption
<1>3. PICK g \in Fetch :
         /\ fetch' = [fetch EXCEPT ![f] = g]
         /\ g.at = "done" /\ g.answer = answer /\ g.manual = fetch[f].manual
         /\ g.mode = fetch[f].mode /\ g.registered = fetch[f].registered
         /\ g.began = began
    BY <1>1, AnsweredWrites
<1>4. Sound(g, time, quotes', closeSince')
    BY <1>2, <1>3 DEF Sound, Current
<1>5. g.mode \in Modes
    BY DEF Fetch
<1>6. /\ quotes' \in [Modes -> QuoteAnswer \cup {NoQuote}]
      /\ \A m \in Modes \ {g.mode} : quotes'[m] = quotes[m]
      /\ quotes'[g.mode] = quotes[g.mode] \/ (quotes'[g.mode] = answer /\ answer.status = "ok")
    BY <1>3, <1>5 DEF QuoteInv, QuoteTypesInv
<1>7. quotes'[g.mode] # NoQuote => Kept(g.mode, quotes'[g.mode], time, closeSince')
    <2>1. CASE quotes'[g.mode] = quotes[g.mode]
        <3>1. quotes[g.mode] # NoQuote => Kept(g.mode, quotes[g.mode], time, closeSince)
            BY <1>5 DEF QuoteInv, KeptInv
        <3> QED
            BY <2>1, <3>1, StandsOn DEF Kept
    <2>2. CASE quotes'[g.mode] = answer /\ answer.status = "ok"
        <3>1. answer.checked \in 0..time
            BY <1>1, <1>2, <2>2
        <3> QED
            BY <1>3, <2>2, <3>1 DEF Kept
    <2> QED
        BY <1>6, <2>1, <2>2
<1> QED
    BY <1>1, <1>3, <1>4, <1>6, <1>7, FetchStepKeeps

LEMMA BeginKeeps ==
    ASSUME QuoteInv, NEW f \in Requests, Begin(f)
    PROVE  QuoteInv'
<1> DEFINE kept == quotes[fetch[f].mode]
<1>1. /\ fetch[f].at = "queued" /\ fetch[f] \in Fetch /\ fetch[f] # NoFetch
      /\ fetch[f].began = Unchecked /\ fetch[f].mode \in Modes
    BY DEF Begin, QuoteInv, QuoteTypesInv, FetchInv, Sound, NoFetch, Fetch
<1>2. UNCHANGED <<time, slots, closeSince, quotes, lock, inflight, ask>>
      /\ time \in Nat /\ SlotsGrow
    BY DEF Begin, QuoteInv, QuoteTypesInv, Moments, SlotsGrow
<1>3. kept # NoQuote => kept \in QuoteAnswer /\ Kept(fetch[f].mode, kept, time, closeSince)
    BY <1>1 DEF QuoteInv, QuoteTypesInv, KeptInv
<1>4. CASE ~fetch[f].manual /\ Fresh(kept)
    <2>1. Answered(f, kept) /\ kept # NoQuote /\ kept.checked + PRICE_MEM_TTL > time
        BY <1>3, <1>4, <1>2, QuoteAssumption DEF Begin, Fresh, Kept
    <2>2. kept.checked \in 0..time /\ Stands(fetch[f].mode, kept, closeSince')
        BY <1>2, <1>3, <2>1 DEF Kept
    <2> HIDE DEF kept
    <2> QED
        BY <1>1, <1>2, <1>3, <1>4, <2>1, <2>2, EndKeeps
<1>5. CASE ~(~fetch[f].manual /\ Fresh(kept))
    <2> DEFINE answer == IF kept = NoQuote THEN NoAnswer ELSE kept
               g == [fetch[f] EXCEPT !.at = "begun", !.began = time, !.answer = answer]
    <2>1. fetch' = [fetch EXCEPT ![f] = g]
        BY <1>5, Zenon DEF Begin
    <2>2. answer \in QuoteAnswer
        BY <1>3 DEF NoAnswer, QuoteAnswer, Slots
    <2> HIDE DEF answer
    <2>3. /\ g \in Fetch /\ g.at = "begun" /\ g.mode = fetch[f].mode
          /\ g.registered = fetch[f].registered /\ g.began = time
        BY <1>1, <1>2, <2>2 DEF Fetch
    <2> HIDE DEF g
    <2>4. Sound(g, time, quotes', closeSince')
        BY <1>1, <1>2, <1>3, <2>3, QuoteAssumption DEF Sound, Kept
    <2> QED
        BY <1>1, <1>2, <1>3, <2>1, <2>3, <2>4, FetchStepKeeps DEF QuoteInv, QuoteTypesInv
<1> QED
    BY <1>4, <1>5

(* What _fetch may get.                                                    *)
LEMMA QuotedShapes ==
    ASSUME NEW mode, NEW t, NEW v \in Quoted(mode, t) \cup {Missing}
    PROVE  v.slot \in Slots
<1>1. FirstOf("NXT", "KRX").slot \in Slots /\ FirstOf("KRX", "KRX").slot \in Slots
      /\ FirstOf("KRX_CLOSE", "KRX").slot \in Slots /\ Missing.slot \in Slots
    BY DEF FirstOf, Remembered, Missing, Slots
<1>2. LastResort(mode).slot \in Slots
    BY <1>1 DEF LastResort
<1>3. \A x \in Mobile(mode, t) : x.slot \in Slots
    BY <1>1, <1>2 DEF Mobile, Live, Remembered, Slots
<1>4. \A s \in Slots : Live(s).slot = s /\ Remembered(s).slot = s
    BY DEF Live, Remembered
<1>5. {"KRX_CLOSE", "KRX"} \subseteq Slots
    BY DEF Slots
<1>6. ASSUME v \in Quoted(mode, t), mode = "KRX" /\ OutOfHours(t)
      PROVE  v.slot \in Slots
    <2>1. v \in {Live("KRX_CLOSE"), Remembered("KRX_CLOSE")} \cup Mobile(mode, t)
        BY <1>6, Zenon DEF Quoted
    <2> QED
        BY <1>3, <1>4, <1>5, <2>1
<1>7. ASSUME v \in Quoted(mode, t), ~(mode = "KRX" /\ OutOfHours(t))
      PROVE  v.slot \in Slots
    <2>1. v \in Mobile(mode, t) \cup {Live("KRX")}
        BY <1>7, Zenon DEF Quoted
    <2> QED
        BY <1>3, <1>4, <1>5, <2>1
<1> QED
    BY <1>1, <1>6, <1>7

(* While the close is known, the KRX mode is given nothing else out of     *)
(* hours.                                                                  *)
LEMMA CloseOnly ==
    ASSUME NEW t, OutOfHours(t), "KRX_CLOSE" \in slots, NEW v \in Quoted("KRX", t)
    PROVE  v.slot = "KRX_CLOSE"
<1>1. v \in {Live("KRX_CLOSE"), Remembered("KRX_CLOSE")}
    BY Zenon DEF Quoted
<1> QED
    BY <1>1 DEF Live, Remembered

(* A price the provider gave to a fetch begun at t, once its slot is saved.*)
LEMMA LiveStands ==
    ASSUME QuoteInv, NEW mode, NEW t \in 0..time, NEW v \in Quoted(mode, t),
           SaveSlot(v.slot), SlotsGrow
    PROVE  Stands(mode, [status |-> "ok", checked |-> t, slot |-> v.slot], closeSince')
<1> DEFINE answer == [status |-> "ok", checked |-> t, slot |-> v.slot]
<1> SUFFICES ASSUME mode = "KRX", OutOfHours(t), closeSince' # Unchecked, closeSince' < t
             PROVE  v.slot = "KRX_CLOSE"
    BY DEF Stands
<1>1. time \in Nat
    BY DEF QuoteInv, QuoteTypesInv, Moments
<1>2. closeSince' = closeSince
    BY <1>1 DEF SlotsGrow
<1>3. "KRX_CLOSE" \in slots
    BY <1>2 DEF QuoteInv, QuoteTypesInv
<1> QED
    BY <1>3, CloseOnly

LEMMA FinishFetchKeeps ==
    ASSUME QuoteInv, NEW f \in Requests, FinishFetch(f)
    PROVE  QuoteInv'
<1>1. /\ fetch[f].at = "begun" /\ fetch[f] \in Fetch /\ fetch[f].began # Unchecked
      /\ fetch[f].began \in 0..time /\ fetch[f].began \in Nat /\ fetch[f].answer \in QuoteAnswer
      /\ time \in Nat /\ UNCHANGED <<time, lock, inflight, ask>>
    BY QuoteAssumption
    DEF FinishFetch, QuoteInv, QuoteTypesInv, FetchInv, Sound, NoFetch, Fetch, Moments
<1> DEFINE began == fetch[f].began
           live(slot) == [status |-> "ok", checked |-> began, slot |-> slot]
<1>2. PICK v \in Quoted(fetch[f].mode, began) \cup {Missing} :
         IF v.from = "provider"
           THEN /\ SaveSlot(v.slot)
                /\ quotes' = [quotes EXCEPT ![fetch[f].mode] = live(v.slot)]
                /\ Answered(f, live(v.slot))
           ELSE /\ UNCHANGED <<slots, closeSince, quotes>>
                /\ LET known == fetch[f].answer.checked # Unchecked \/ v # Missing IN
                   Answered(f, [fetch[f].answer EXCEPT
                                  !.status = IF known THEN "stale" ELSE "unavailable"])
    BY DEF FinishFetch
<1>3. CASE v.from = "provider"
    <2>1. v \in Quoted(fetch[f].mode, began) /\ v.slot \in Slots
        BY <1>2, <1>3, QuotedShapes DEF Missing
    <2>2. SaveSlot(v.slot) /\ SlotsGrow
        BY <1>2, <1>3, <2>1, SavedSlotsGrow
    <2>3. Stands(fetch[f].mode, live(v.slot), closeSince')
        BY <1>1, <2>1, <2>2, LiveStands
    <2> DEFINE answer == live(v.slot)
    <2>4. answer \in QuoteAnswer /\ answer.checked = began /\ answer.status = "ok"
        BY <1>1, <2>1 DEF QuoteAnswer
    <2>5. Answered(f, answer) /\ quotes' = [quotes EXCEPT ![fetch[f].mode] = answer]
          /\ Stands(fetch[f].mode, answer, closeSince')
        BY <1>2, <1>3, <2>3
    <2> HIDE DEF answer
    <2>6. answer.checked \in 0..began /\ answer.checked + PRICE_MEM_TTL > began
        BY <1>1, <2>4, QuoteAssumption
    <2> QED
        BY <1>1, <2>2, <2>4, <2>5, <2>6, EndKeeps
<1>4. CASE v.from # "provider"
    <2> DEFINE status == IF fetch[f].answer.checked # Unchecked \/ v # Missing
                           THEN "stale" ELSE "unavailable"
               answer == [fetch[f].answer EXCEPT !.status = status]
    <2>1. Answered(f, answer) /\ UNCHANGED <<slots, closeSince, quotes>>
        BY <1>2, <1>4
    <2>2. status \in {"stale", "unavailable"}
        OBVIOUS
    <2> HIDE DEF status
    <2>3. answer \in QuoteAnswer /\ answer.status # "ok"
        BY <1>1, <2>2 DEF QuoteAnswer
    <2>4. SlotsGrow
        BY <2>1 DEF SlotsGrow, QuoteInv, QuoteTypesInv
    <2> HIDE DEF answer
    <2> QED
        BY <1>1, <2>1, <2>3, <2>4, EndKeeps
<1> QED
    BY <1>3, <1>4

LEMMA FetchFailsKeeps ==
    ASSUME QuoteInv, NEW f \in Requests, FetchFails(f)
    PROVE  QuoteInv'
<1> DEFINE answer == [NoAnswer EXCEPT !.status = "unavailable"]
<1>1. /\ fetch[f].at \in {"queued", "begun"} /\ Answered(f, answer)
      /\ UNCHANGED <<time, quotes, lock, inflight, ask>>
    BY DEF FetchFails
<1>2. answer \in QuoteAnswer /\ answer.status # "ok"
    BY DEF NoAnswer, QuoteAnswer, Slots
<1>3. SlotsGrow
    <2>1. CASE UNCHANGED <<slots, closeSince>>
        BY <2>1 DEF SlotsGrow, QuoteInv, QuoteTypesInv
    <2>2. ASSUME NEW v \in Quoted(fetch[f].mode, fetch[f].began), SaveSlot(v.slot)
          PROVE  SlotsGrow
        BY <2>2, QuotedShapes, SavedSlotsGrow
    <2> QED
        BY <2>1, <2>2 DEF FetchFails
<1> HIDE DEF answer
<1> QED
    BY <1>1, <1>2, <1>3, EndKeeps

-----------------------------------------------------------------------------
LEMMA ForgetKeeps ==
    ASSUME QuoteInv, NEW f \in Requests, Forget(f)
    PROVE  QuoteInv'
<1>1. fetch[f] # NoFetch
    BY DEF Forget, NoFetch
<1> QED
    BY <1>1, ForgottenKeeps DEF Forget

LEMMA KeepClosesKeeps ==
    ASSUME QuoteInv, KeepCloses
    PROVE  QuoteInv'
<1>1. UNCHANGED <<time, quotes, lock, inflight, fetch, ask>>
    BY DEF KeepCloses
<1>2. SlotsGrow
    BY SavedSlotsGrow DEF KeepCloses, Slots
<1>3. QuoteTypesInv'
    BY <1>1, <1>2, QuoteAssumption DEF SlotsGrow, QuoteInv, QuoteTypesInv, Moments
<1>4. KeptInv'
    BY <1>1, <1>2, StandsOn DEF QuoteInv, KeptInv, Kept
<1>5. FetchInv'
    BY <1>1, <1>2, SoundOn DEF QuoteInv, FetchInv, QuoteTypesInv
<1> QED
    BY <1>1, <1>3, <1>4, <1>5 DEF QuoteInv, OneInv, LockInv, WaitInv

LEMMA QuoteTimeKeeps ==
    ASSUME QuoteInv, MomentPasses
    PROVE  QuoteInv'
<1>1. /\ UNCHANGED <<slots, closeSince, quotes, lock, inflight, fetch, ask>>
      /\ time \in Nat /\ time' = time + 1 /\ time' \in Moments
    BY QuoteAssumption DEF MomentPasses, QuoteInv, QuoteTypesInv, Moments
<1>2. time' \in Nat /\ 0..time \subseteq 0..time'
    BY <1>1
<1>3. QuoteTypesInv'
    <2>1. ask \in [Requests -> [at : {"waiting"}, of : Requests, manual : BOOLEAN,
                                due : 0..time'] \cup {Idle}]
        BY <1>2 DEF QuoteInv, QuoteTypesInv
    <2> QED
        BY <1>1, <1>2, <2>1 DEF QuoteInv, QuoteTypesInv
<1>4. KeptInv'
    BY <1>1, <1>2 DEF QuoteInv, KeptInv, Kept
<1>5. FetchInv'
    <2> SUFFICES ASSUME NEW f \in Requests, fetch[f] # NoFetch
                 PROVE  Sound(fetch[f], time', quotes, closeSince)
        BY <1>1 DEF FetchInv
    <2>1. Sound(fetch[f], time, quotes, closeSince) /\ fetch[f].began \in Nat \cup {Unchecked}
        BY DEF QuoteInv, FetchInv, QuoteTypesInv, Fetch
    <2> QED
        BY <1>1, <2>1 DEF Sound
<1> QED
    BY <1>1, <1>3, <1>4, <1>5 DEF QuoteInv, OneInv, LockInv, WaitInv

LEMMA QuoteNextKeeps ==
    ASSUME QuoteInv, [QuoteNext]_quoteVars
    PROVE  QuoteInv'
<1>1. ASSUME NEW r \in Requests, NEW mode \in Modes, NEW manual \in BOOLEAN,
             Submit(r, mode, manual) \/ Join(r, mode, manual)
      PROVE  QuoteInv'
    BY <1>1, SubmitKeeps, JoinKeeps
<1>2. CASE UNCHANGED quoteVars
    BY <1>2 DEF quoteVars, QuoteInv, QuoteTypesInv, OneInv, LockInv, KeptInv, FetchInv, WaitInv
<1>3. ASSUME NEW r \in Requests,
             Register(r) \/ Take(r) \/ Begin(r) \/ FinishFetch(r) \/ FetchFails(r) \/ Forget(r)
      PROVE  QuoteInv'
    BY <1>3, RegisterKeeps, TakeKeeps, BeginKeeps, FinishFetchKeeps, FetchFailsKeeps, ForgetKeeps
<1>4. CASE KeepCloses \/ MomentPasses
    BY <1>4, KeepClosesKeeps, QuoteTimeKeeps
<1> QED
    BY <1>1, <1>2, <1>3, <1>4 DEF QuoteNext, Refuse

THEOREM QuoteInvariant == QuoteSpec => []QuoteInv
<1>1. QuoteInit => QuoteInv
    BY QuoteInitHolds
<1>2. QuoteInv /\ [QuoteNext]_quoteVars => QuoteInv'
    BY QuoteNextKeeps
<1> QED
    BY <1>1, <1>2, PTL DEF QuoteSpec

-----------------------------------------------------------------------------
(* A kept price is replaced only by a look at it that is not older         *)
(* (quotes.py:102), whichever of the fetches ends first.                   *)
LEMMA QuotesStep ==
    ASSUME QuoteInv, [QuoteNext]_quoteVars, NEW m \in Modes, quotes[m] # NoQuote
    PROVE  quotes'[m] # NoQuote /\ quotes'[m].checked >= quotes[m].checked
<1>1. quotes[m].checked \in Nat
    BY DEF QuoteInv, KeptInv, Kept
<1>2. CASE UNCHANGED quotes
    BY <1>1, <1>2
<1>3. ASSUME NEW f \in Requests, FinishFetch(f)
      PROVE  quotes'[m] # NoQuote /\ quotes'[m].checked >= quotes[m].checked
    <2>1. /\ fetch[f].at = "begun" /\ fetch[f] # NoFetch /\ fetch[f].mode \in Modes
          /\ fetch[f].began # Unchecked /\ fetch[f].began \in Nat
        BY <1>3 DEF FinishFetch, QuoteInv, QuoteTypesInv, FetchInv, Sound, NoFetch, Fetch
    <2>2. fetch[f].mode = m => quotes[m].checked <= fetch[f].began
        BY <2>1 DEF QuoteInv, FetchInv, Sound
    <2>3. PICK v \in Quoted(fetch[f].mode, fetch[f].began) \cup {Missing} :
             \/ quotes' = quotes
             \/ quotes' = [quotes EXCEPT ![fetch[f].mode] =
                             [status |-> "ok", checked |-> fetch[f].began, slot |-> v.slot]]
        BY <1>3 DEF FinishFetch
    <2>4. [status |-> "ok", checked |-> fetch[f].began, slot |-> v.slot] \in QuoteAnswer
        BY <2>1, QuotedShapes DEF QuoteAnswer
    <2> QED
        BY <1>1, <2>1, <2>2, <2>3, <2>4, QuoteAssumption DEF QuoteInv, QuoteTypesInv
<1>4. UNCHANGED quotes \/ \E f \in Requests : FinishFetch(f)
    BY DEF QuoteNext, quoteVars, Submit, Submitted, Join, Refuse, Register, Take, Begin,
           FetchFails, Forget, KeepCloses, MomentPasses
<1> QED
    BY <1>2, <1>3, <1>4

THEOREM KeptQuotesNeverGoBack == QuoteSpec => QuotesNeverGoBack
<1>1. QuoteInv /\ [QuoteNext]_quoteVars =>
         [\A m \in Modes : quotes[m] # NoQuote =>
             quotes'[m] # NoQuote /\ quotes'[m].checked >= quotes[m].checked]_quoteVars
    BY QuotesStep
<1> QED
    BY <1>1, QuoteInvariant, PTL DEF QuoteSpec, QuotesNeverGoBack

(* Who is served is served by a fetch that has ended, and that began no    *)
(* sooner than he was due.                                                 *)
LEMMA ServedByTheEnded ==
    ASSUME QuoteInv, [QuoteNext]_quoteVars, NEW r \in Requests, ServesCurrent(r)
    PROVE  LET g == fetch[ask[r].of]
           IN  /\ g \in Fetch /\ Current(g) /\ Stands(g.mode, g.answer, closeSince)
               /\ ask[r].due \in Nat /\ g.began \in Nat /\ ask[r].due <= g.began
<1> DEFINE g == fetch[ask[r].of]
<1>1. /\ ask[r] # Idle /\ ask'[r] = Idle /\ g.answer.status = "ok"
      /\ ask[r].of \in Requests /\ ask[r].due \in Nat /\ g # NoFetch /\ g \in Fetch
      /\ (g.began # Unchecked => ask[r].due <= g.began)
    BY DEF ServesCurrent, Serves, QuoteInv, QuoteTypesInv, WaitInv
<1>2. g.at = "done"
    <2>1. ASSUME NEW f \in Requests, Forgotten(f), fetch[f].at = "done"
          PROVE  g.at = "done"
        BY <1>1, <2>1 DEF Forgotten
    <2>2. ASSUME NEW s \in Requests, Take(s)
          PROVE  g.at = "done"
        <3>1. s = r
            BY <1>1, <2>2 DEF Take, QuoteInv, QuoteTypesInv
        <3> QED
            BY <2>2, <3>1 DEF Take
    <2>3. ASSUME NEW s \in Requests, NEW w, ask' = [ask EXCEPT ![s] = w], w # Idle
          PROVE  FALSE
        BY <1>1, <2>3 DEF QuoteInv, QuoteTypesInv
    <2>4. ASSUME NEW s \in Requests, NEW mode \in Modes, NEW manual \in BOOLEAN,
                 Submit(s, mode, manual) \/ Join(s, mode, manual)
          PROVE  FALSE
        <3>1. \A f, due : Waiting(f, manual, due) # Idle
            BY DEF Waiting, Idle
        <3> QED
            BY <2>3, <2>4, <3>1 DEF Submit, Submitted, Join
    <2>5. ASSUME NEW s \in Requests, Register(s)
          PROVE  g.at = "done"
        BY <1>1, <2>1, <2>5 DEF Register
    <2>6. ASSUME NEW s \in Requests, Forget(s)
          PROVE  g.at = "done"
        BY <2>1, <2>6 DEF Forget
    <2>7. ~UNCHANGED ask
        BY <1>1
    <2> QED
        BY <2>2, <2>4, <2>5, <2>6, <2>7
        DEF QuoteNext, quoteVars, Refuse, Begin, FinishFetch, FetchFails, KeepCloses, MomentPasses
<1>3. Current(g) /\ Stands(g.mode, g.answer, closeSince)
    BY <1>1, <1>2 DEF QuoteInv, FetchInv, Sound
<1> QED
    BY <1>1, <1>3 DEF Current, Fetch

(* Who is told that a price is current is not told one that was looked at  *)
(* 50 seconds before he asked - or before the fetch he joined had begun -, *)
(* nor, by the fetch of a manual refresh, an older one at all              *)
(* (quotes.py:89, quotes.py:117).                                          *)
THEOREM CurrentAnswersAreCurrent == QuoteSpec => AnswersAreCurrent
<1>1. ASSUME QuoteInv, [QuoteNext]_quoteVars, NEW r \in Requests, ServesCurrent(r)
      PROVE  LET g == fetch[ask[r].of]
             IN  IF g.manual THEN g.answer.checked >= ask[r].due
                             ELSE g.answer.checked + PRICE_MEM_TTL > ask[r].due
    BY <1>1, ServedByTheEnded, QuoteAssumption DEF Current
<1>2. QuoteInv /\ [QuoteNext]_quoteVars =>
         [\A r \in Requests : ServesCurrent(r) =>
             LET g == fetch[ask[r].of]
             IN  IF g.manual THEN g.answer.checked >= ask[r].due
                             ELSE g.answer.checked + PRICE_MEM_TTL > ask[r].due]_quoteVars
    BY <1>1
<1> QED
    BY <1>2, QuoteInvariant, PTL DEF QuoteSpec, AnswersAreCurrent

(* Out of hours, once the close has been known for longer than a quote is  *)
(* kept, the KRX mode calls nothing else current, from wherever it serves  *)
(* a request (prices.py:448-535, quotes.py:83-114).                        *)
THEOREM TheCloseStands == QuoteSpec => CloseStands
<1>1. ASSUME QuoteInv, [QuoteNext]_quoteVars, NEW r \in Requests, ServesCurrent(r),
             fetch[ask[r].of].mode = "KRX",
             closeSince # Unchecked, closeSince + PRICE_MEM_TTL <= ask[r].due,
             \A t \in Moments : t <= time /\ ask[r].due < t + PRICE_MEM_TTL => OutOfHours(t)
      PROVE  fetch[ask[r].of].answer.slot = "KRX_CLOSE"
    <2> DEFINE g == fetch[ask[r].of]
               looked == g.answer.checked
    <2>1. /\ Current(g) /\ Stands(g.mode, g.answer, closeSince)
          /\ ask[r].due \in Nat /\ g.began \in Nat /\ ask[r].due <= g.began
        BY <1>1, ServedByTheEnded
    <2>2. looked \in Nat /\ ask[r].due < looked + PRICE_MEM_TTL /\ looked <= g.began
        BY <2>1, QuoteAssumption DEF Current
    <2>3. g.began <= time /\ time \in Moments
        BY <1>1, <2>1
        DEF QuoteInv, QuoteTypesInv, FetchInv, Sound, ServesCurrent, Serves, WaitInv, Current
    <2>4. looked \in Moments /\ looked <= time
        BY <2>1, <2>2, <2>3, QuoteAssumption DEF Moments
    <2>5. OutOfHours(looked)
        BY <1>1, <2>2, <2>4
    <2>6. closeSince \in Nat /\ closeSince < looked
        BY <1>1, <2>1, <2>2, QuoteAssumption DEF QuoteInv, QuoteTypesInv
    <2> QED
        BY <1>1, <2>1, <2>5, <2>6 DEF Stands
<1>2. QuoteInv /\ [QuoteNext]_quoteVars =>
         [\A r \in Requests :
             /\ ServesCurrent(r) /\ fetch[ask[r].of].mode = "KRX"
             /\ closeSince # Unchecked /\ closeSince + PRICE_MEM_TTL <= ask[r].due
             /\ \A t \in Moments : t <= time /\ ask[r].due < t + PRICE_MEM_TTL => OutOfHours(t)
             => fetch[ask[r].of].answer.slot = "KRX_CLOSE"]_quoteVars
    BY <1>1
<1> QED
    BY <1>2, QuoteInvariant, PTL DEF QuoteSpec, CloseStands

-----------------------------------------------------------------------------
(* The cached statistics.                                                  *)


NotLater(u, v) == u.boot < v.boot \/ (u.boot = v.boot /\ u.count <= v.count)

Has(f) == f.pc \in {"opened", "built", "answering", "paging"}

CommitsInOrder ==
    /\ announced <= db
    /\ \A w \in Writers : writer[w] <= db

CacheInv ==
    cache # NoModel => cache.content >= announced /\ NotLater(cache.version, version)

HeldInv ==
    \A h \in held : NotLater(h.etag, version)
                    /\ (h.etag = version => h.content >= announced)

ReadInv(f) ==
    /\ f.floor <= announced
    /\ NotLater(f.etag, version)
    /\ NotLater(f.version, version)
    /\ Has(f) => f.content >= f.floor
    /\ Has(f) /\ f.etag = version => f.content >= announced
    /\ Has(f) /\ f.version = version => f.content >= announced
    /\ f.pc = "paging" /\ f.version = version => f.rows >= announced

Inv ==
    /\ TypeOK
    /\ CommitsInOrder
    /\ CacheInv
    /\ HeldInv
    /\ \A r \in Readers : ReadInv(reader[r])

-----------------------------------------------------------------------------
(* NotReading is a read that has promised nothing yet.                           *)
LEMMA IdleRead ==
    ASSUME NEW v \in Version, NEW n \in Nat
    PROVE  /\ NotReading \in Read /\ NotReading.pc = "idle" /\ ~Has(NotReading) /\ NotReading.floor <= n
           /\ NotLater(NotReading.etag, v) /\ NotLater(NotReading.version, v)
BY DEF NotReading, Read, Stages, NoVersion, Version, Has, NotLater

(* A step of one reader that leaves the cache alone: only what it does to  *)
(* its own read, and the response it may hand out, need to be looked at.   *)
LEMMA ReaderStep ==
    ASSUME Inv, NEW r \in Readers, NEW f \in Read, Go(r, f), ReadInv(f),
           UNCHANGED <<db, version, cache, writer, announced>>,
           held' = held \/ (/\ reader[r].pc \in {"answering", "paging"}
                            /\ held' = held \cup {[etag |-> reader[r].etag,
                                                   content |-> reader[r].content]})
    PROVE  Inv'
<1>1. reader \in [Readers -> Read] /\ reader' = [reader EXCEPT ![r] = f]
    BY DEF Inv, TypeOK, Go
<1>2. reader' \in [Readers -> Read]
    BY <1>1
<1>3. \A x \in Readers : ReadInv(reader[x])'
    <2>1. \A x \in Readers : reader'[x] = IF x = r THEN f ELSE reader[x]
        BY <1>1
    <2>2. \A x \in Readers : ReadInv(reader'[x])
        BY <2>1 DEF Inv
    <2> QED BY <2>2 DEF ReadInv, NotLater
<1>4. /\ reader[r] \in Read
      /\ ReadInv(reader[r])
    BY <1>1 DEF Inv
<1>5. held' \subseteq Response /\ HeldInv'
    <2>1. CASE held' = held
        BY <2>1 DEF Inv, TypeOK, HeldInv, NotLater
    <2>2. CASE /\ reader[r].pc \in {"answering", "paging"}
               /\ held' = held \cup {[etag |-> reader[r].etag, content |-> reader[r].content]}
        <3> DEFINE new == [etag |-> reader[r].etag, content |-> reader[r].content]
        <3>1. new \in Response
            BY <1>4 DEF Read, Response
        <3>2. NotLater(new.etag, version) /\ (new.etag = version => new.content >= announced)
            BY <1>4, <2>2 DEF ReadInv, Has
        <3> HIDE DEF new
        <3> QED BY <2>2, <3>1, <3>2 DEF new, Inv, TypeOK, HeldInv, NotLater
    <2> QED BY <2>1, <2>2
<1>6. TypeOK' /\ CommitsInOrder' /\ CacheInv'
    BY <1>2, <1>5 DEF Inv, TypeOK, CommitsInOrder, CacheInv, NotLater
<1> QED BY <1>3, <1>5, <1>6 DEF Inv

-----------------------------------------------------------------------------
LEMMA Initially == StatsInit => Inv
<1> SUFFICES ASSUME StatsInit PROVE Inv
    OBVIOUS
<1>1. version \in Version /\ 0 \in Nat
    BY DEF StatsInit, Version
<1>2. \A r \in Readers : reader[r] = NotReading
    BY DEF StatsInit
<1>3. \A r \in Readers : ReadInv(reader[r])
    BY <1>1, <1>2, IdleRead DEF ReadInv, StatsInit
<1>4. reader \in [Readers -> Read]
    BY <1>1, IdleRead DEF StatsInit
<1>5. TypeOK /\ CommitsInOrder /\ CacheInv /\ HeldInv
    BY <1>1, <1>4 DEF StatsInit, TypeOK, CommitsInOrder, CacheInv, HeldInv
<1> QED BY <1>3, <1>5 DEF Inv

LEMMA CommitStep == ASSUME Inv, NEW w \in Writers, Commit(w) PROVE Inv'
<1>1. TypeOK'
    BY DEF Inv, TypeOK, Commit
<1>2. CommitsInOrder'
    BY DEF Inv, TypeOK, CommitsInOrder, Commit
<1>3. CacheInv' /\ HeldInv' /\ \A r \in Readers : ReadInv(reader[r])'
    BY DEF Inv, CacheInv, HeldInv, ReadInv, NotLater, Has, Commit
<1> QED BY <1>1, <1>2, <1>3 DEF Inv

(* What is older than the version is not equal to the next one.            *)
LEMMA NextVersion ==
    ASSUME NEW u \in Version, NEW v \in Version, NEW v1 \in Version, NotLater(u, v),
           \/ v1.boot = v.boot /\ v1.count = v.count + 1
           \/ v1.boot = v.boot + 1
    PROVE  NotLater(u, v1) /\ u # v1
BY DEF Version, NotLater

LEMMA InvalidateStep == ASSUME Inv, NEW w \in Writers, Invalidate(w) PROVE Inv'
<1>1. /\ version \in Version /\ version' \in Version
      /\ version'.boot = version.boot /\ version'.count = version.count + 1
    BY DEF Inv, TypeOK, Invalidate, Version
<1>2. announced' \in Nat /\ announced <= announced' /\ announced' <= db
    BY DEF Inv, TypeOK, CommitsInOrder, Invalidate
<1>3. TypeOK'
    BY <1>1, <1>2 DEF Inv, TypeOK, Invalidate
<1>4. CommitsInOrder' /\ CacheInv'
    BY <1>2 DEF Inv, TypeOK, CommitsInOrder, CacheInv, Invalidate
<1>5. HeldInv'
    <2>1. ASSUME NEW h \in held PROVE NotLater(h.etag, version') /\ h.etag # version'
        <3>1. h.etag \in Version /\ NotLater(h.etag, version)
            BY DEF Inv, TypeOK, Response, HeldInv
        <3> QED BY <1>1, <3>1, NextVersion
    <2> QED BY <2>1 DEF HeldInv, Invalidate
<1>6. ASSUME NEW r \in Readers PROVE ReadInv(reader[r])'
    <2>1. /\ reader[r] \in Read
          /\ ReadInv(reader[r])
        BY DEF Inv, TypeOK
    <2>2. /\ NotLater(reader[r].etag, version') /\ reader[r].etag # version'
          /\ NotLater(reader[r].version, version') /\ reader[r].version # version'
        <3>1. /\ reader[r].etag \in Version /\ NotLater(reader[r].etag, version)
              /\ reader[r].version \in Version /\ NotLater(reader[r].version, version)
            BY <2>1 DEF Read, ReadInv
        <3> QED BY <1>1, <3>1, NextVersion
    <2>3. reader[r].floor \in Nat /\ announced \in Nat
        BY <2>1 DEF Read, Inv, TypeOK
    <2>4. reader[r].floor <= announced'
        BY <1>2, <2>1, <2>3 DEF ReadInv
    <2>5. reader' = reader
        BY DEF Invalidate
    <2> QED BY <2>1, <2>2, <2>4, <2>5 DEF ReadInv, Has
<1> QED BY <1>3, <1>4, <1>5, <1>6 DEF Inv

LEMMA FailStep == ASSUME Inv, NEW w \in Writers, FailAfterCommit(w) PROVE Inv'
<1>1. TypeOK' /\ CommitsInOrder'
    BY DEF Inv, TypeOK, CommitsInOrder, FailAfterCommit
<1>2. CacheInv' /\ HeldInv' /\ \A r \in Readers : ReadInv(reader[r])'
    BY DEF Inv, CacheInv, HeldInv, ReadInv, NotLater, Has, FailAfterCommit
<1> QED BY <1>1, <1>2 DEF Inv

LEMMA RestartStep == ASSUME Inv, RestartServer PROVE Inv'
<1>1. /\ version \in Version /\ version' \in Version
      /\ version'.boot = version.boot + 1
    BY DEF Inv, TypeOK, RestartServer, Version
<1>2. announced \in Nat /\ announced' = announced
    BY DEF Inv, TypeOK, RestartServer
<1>3. \A r \in Readers : reader'[r] = NotReading
    BY DEF RestartServer
<1>4. \A r \in Readers : ReadInv(reader[r])'
    <2>1. \A r \in Readers : /\ reader'[r] = NotReading
                             /\ NotReading.pc = "idle" /\ ~Has(NotReading) /\ NotReading.floor <= announced'
                             /\ NotLater(NotReading.etag, version') /\ NotLater(NotReading.version, version')
        BY <1>1, <1>2, <1>3, IdleRead
    <2> QED BY <2>1 DEF ReadInv, Has
<1>5. reader' \in [Readers -> Read]
    BY <1>1, <1>2, IdleRead DEF RestartServer
<1>6. TypeOK'
    BY <1>1, <1>5 DEF Inv, TypeOK, RestartServer
<1>7. CommitsInOrder' /\ CacheInv'
    BY DEF Inv, TypeOK, CommitsInOrder, CacheInv, RestartServer
<1>8. HeldInv'
    <2>1. ASSUME NEW h \in held PROVE NotLater(h.etag, version') /\ h.etag # version'
        <3>1. h.etag \in Version /\ NotLater(h.etag, version)
            BY DEF Inv, TypeOK, Response, HeldInv
        <3> QED BY <1>1, <3>1, NextVersion
    <2> QED BY <2>1 DEF HeldInv, RestartServer
<1> QED BY <1>4, <1>6, <1>7, <1>8 DEF Inv

LEMMA PutStep == ASSUME Inv, NEW r \in Readers, Put(r) PROVE Inv'
<1> DEFINE f == [reader[r] EXCEPT !.pc = "answering"]
<1>1. /\ reader[r] \in Read
      /\ ReadInv(reader[r])
      /\ Has(reader[r])
      /\ reader \in [Readers -> Read]
    BY DEF Inv, TypeOK, Put, Has
<1>2. f \in Read /\ ReadInv(f)
    BY <1>1 DEF Read, Stages, ReadInv, Has
<1>3. CacheInv' /\ cache' \in Model \cup {NoModel}
    <2>1. CASE reader[r].version = version
        <3>1. cache' = [version |-> reader[r].version, content |-> reader[r].content]
            BY <2>1 DEF Put
        <3>2. reader[r].content >= announced /\ NotLater(reader[r].version, version)
            BY <1>1, <2>1 DEF ReadInv
        <3>3. version' = version /\ announced' = announced
            BY DEF Put
        <3> QED BY <1>1, <3>1, <3>2, <3>3 DEF CacheInv, Model, Read, NotLater
    <2>2. CASE reader[r].version # version
        BY <2>2 DEF Put, Inv, TypeOK, CacheInv, NotLater
    <2> QED BY <2>1, <2>2
<1>4. \A x \in Readers : ReadInv(reader[x])'
    <2>1. \A x \in Readers : reader'[x] = IF x = r THEN f ELSE reader[x]
        BY <1>1 DEF Put, Go
    <2>2. \A x \in Readers : ReadInv(reader'[x])
        BY <1>2, <2>1 DEF Inv
    <2> QED BY <2>2 DEF ReadInv, NotLater, Put
<1>5. reader' \in [Readers -> Read]
    BY <1>1, <1>2 DEF Put, Go
<1>6. TypeOK' /\ CommitsInOrder' /\ HeldInv'
    BY <1>3, <1>5 DEF Inv, TypeOK, CommitsInOrder, HeldInv, NotLater, Put
<1> QED BY <1>3, <1>4, <1>6 DEF Inv

(* The steps of a reader other than Put.                                   *)
LEMMA ServeStep == ASSUME Inv, NEW r \in Readers, Serve(r) PROVE Inv'
<1>1. /\ reader[r] \in Read
      /\ ReadInv(reader[r])
      /\ version \in Version /\ db \in Nat /\ announced \in Nat /\ announced <= db
      /\ cache \in Model \cup {NoModel}
      /\ CacheInv
    BY DEF Inv, TypeOK, CommitsInOrder
<1>2. /\ reader[r].floor \in Nat
      /\ reader[r].floor <= announced
      /\ NotLater(reader[r].etag, version) /\ NotLater(reader[r].version, version)
      /\ NotLater(version, version)
      /\ db >= announced /\ db >= reader[r].floor
    BY <1>1 DEF ReadInv, Read, NotLater, Version
<1>3. CASE Ask(r)
    <2> DEFINE f == [NotReading EXCEPT !.pc = "asked", !.etag = version, !.floor = announced]
    <2>1. NotReading \in Read /\ NotLater(NotReading.version, version)
        BY <1>1, IdleRead
    <2>2. f \in Read /\ f.pc = "asked" /\ f.etag = version /\ f.floor = announced
          /\ f.version = NotReading.version
        BY <1>1, <2>1 DEF Read, Stages
    <2> HIDE DEF f
    <2>3. ReadInv(f)
        BY <1>1, <1>2, <2>1, <2>2 DEF ReadInv, Has
    <2> QED BY <1>3, <2>2, <2>3, ReaderStep DEF Ask, f
<1>4. CASE ReadRecords(r)
    <2> DEFINE f == [reader[r] EXCEPT !.pc = "answering", !.version = reader[r].etag,
                                      !.content = db]
    <2>1. f \in Read /\ ReadInv(f)
        BY <1>1, <1>2 DEF Read, Stages, ReadInv, Has
    <2> QED BY <1>4, <2>1, ReaderStep DEF ReadRecords
<1>5. CASE TakeVersion(r)
    <2> DEFINE f == [reader[r] EXCEPT !.pc = "versioned", !.version = version]
    <2>1. f \in Read /\ ReadInv(f)
        BY <1>1, <1>2 DEF Read, Stages, ReadInv, Has
    <2> QED BY <1>5, <2>1, ReaderStep DEF TakeVersion
<1>6. CASE OpenSnapshot(r)
    <2> DEFINE f == [reader[r] EXCEPT !.pc = "opened", !.content = db]
    <2>1. f \in Read /\ ReadInv(f)
        BY <1>1, <1>2 DEF Read, Stages, ReadInv, Has
    <2> QED BY <1>6, <2>1, ReaderStep DEF OpenSnapshot
<1>7. CASE LookUp(r)
    <2>1. CASE cache # NoModel
        <3> DEFINE f == [reader[r] EXCEPT !.pc = "answering", !.version = cache.version,
                                          !.content = cache.content]
        <3>1. /\ cache.version \in Version /\ cache.content \in Nat
              /\ cache.content >= announced /\ NotLater(cache.version, version)
            BY <1>1, <2>1 DEF Model, CacheInv
        <3>2. cache.content >= reader[r].floor
            BY <1>1, <1>2, <3>1
        <3>3. /\ f \in Read /\ f.pc = "answering"
              /\ f.floor = reader[r].floor /\ f.etag = reader[r].etag
              /\ f.version = cache.version /\ f.content = cache.content
            BY <1>1, <3>1 DEF Read, Stages
        <3>4. Go(r, f) /\ UNCHANGED <<db, version, cache, writer, held, announced>>
            BY <1>7, <2>1 DEF LookUp
        <3> HIDE DEF f
        <3>5. ReadInv(f)
            BY <1>2, <3>1, <3>2, <3>3 DEF ReadInv, Has
        <3> QED BY <3>3, <3>4, <3>5, ReaderStep
    <2>2. CASE cache = NoModel
        <3> DEFINE f == [reader[r] EXCEPT !.pc = "built"]
        <3>1. reader[r].pc = "opened"
            BY <1>7 DEF LookUp
        <3>2. f \in Read /\ ReadInv(f)
            BY <1>1, <3>1 DEF Read, Stages, ReadInv, Has
        <3>3. Go(r, f) /\ UNCHANGED <<db, version, cache, writer, held, announced>>
            BY <1>7, <2>2 DEF LookUp
        <3> QED BY <3>2, <3>3, ReaderStep
    <2> QED BY <2>1, <2>2
<1>8. CASE Put(r)
    BY <1>8, PutStep
<1>9. CASE ReadPage(r)
    <2> DEFINE f == [reader[r] EXCEPT !.pc = "paging", !.rows = db]
    <2>1. reader[r].pc = "answering"
        BY <1>9 DEF ReadPage
    <2>2. f \in Read /\ ReadInv(f)
        BY <1>1, <2>1 DEF Read, Stages, ReadInv, Has
    <2> QED BY <1>9, <2>2, ReaderStep DEF ReadPage
<1>10. CASE Answer(r) \/ AnswerPage(r) \/ StalePage(r)
    <2>1. NotReading \in Read /\ ReadInv(NotReading)
        BY <1>1, IdleRead DEF ReadInv
    <2> QED BY <1>10, <2>1, ReaderStep DEF Answer, AnswerPage, StalePage, Sent
<1> QED BY <1>3, <1>4, <1>5, <1>6, <1>7, <1>8, <1>9, <1>10 DEF Serve

LEMMA Inductive == Inv /\ [StatsNext]_statsVars => Inv'
<1> SUFFICES ASSUME Inv, [StatsNext]_statsVars PROVE Inv'
    OBVIOUS
<1>1. CASE \E w \in Writers : Write(w)
    BY <1>1, CommitStep, InvalidateStep, FailStep DEF Write
<1>2. CASE \E r \in Readers : Serve(r)
    BY <1>2, ServeStep
<1>3. CASE RestartServer
    BY <1>3, RestartStep
<1>4. CASE UNCHANGED statsVars
    BY <1>4 DEF statsVars, Inv, TypeOK, CommitsInOrder, CacheInv, HeldInv, ReadInv, NotLater, Has
<1> QED BY <1>1, <1>2, <1>3, <1>4 DEF StatsNext

THEOREM Invariance == StatsSpec => []Inv
<1> QED BY Initially, Inductive, PTL DEF StatsSpec

-----------------------------------------------------------------------------
(* What is cached includes every change that was announced: a computation  *)
(* overtaken by a bot's execution never stays in the cache.                *)
THEOREM CachesAreCurrent == StatsSpec => []CacheIsCurrent
<1>1. Inv => CacheIsCurrent
    BY DEF Inv, CacheInv, CacheIsCurrent
<1> QED BY <1>1, Invariance, PTL

(* 304 is answered only to browsers that hold every announced change.      *)
THEOREM ValidatorsAreSound == StatsSpec => []NotModifiedIsCurrent
<1>1. Inv => NotModifiedIsCurrent
    BY DEF Inv, HeldInv, NotModifiedIsCurrent, NotModified
<1> QED BY <1>1, Invariance, PTL

(* A read shows every change that was answered before it began.            *)
THEOREM ReadYourWrites == StatsSpec => []ReadsSeeAnsweredChanges
<1>1. Inv => ReadsSeeAnsweredChanges
    BY DEF Inv, ReadInv, Has, ReadsSeeAnsweredChanges
<1> QED BY <1>1, Invariance, PTL

(* A page that is sent is made of an index and rows that both include      *)
(* every change announced until then.                                      *)
THEOREM PagesMissNothing == StatsSpec => PagesAreCurrent
<1>1. Inv /\ [StatsNext]_statsVars =>
         [\A r \in Readers : AnswerPage(r) => /\ reader[r].content >= announced
                                              /\ reader[r].rows >= announced]_statsVars
    BY DEF Inv, ReadInv, Has, AnswerPage
<1> QED BY <1>1, Invariance, PTL DEF StatsSpec, PagesAreCurrent
=============================================================================
