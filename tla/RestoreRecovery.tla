---------------------------- MODULE RestoreRecovery ----------------------------
(***************************************************************************)
(* Restoring a backup over one account: app/services/restores.py and       *)
(* restore_recovery.py.                                                    *)
(*                                                                         *)
(* The records live in SQLite, the attachments in a folder, and no         *)
(* transaction covers both.  A restore therefore works in a workspace      *)
(* (.restore-...) beside the folder: it stages the new files, writes a     *)
(* journal, puts the old folder aside (`retired'), moves the staged one in *)
(* its place and commits the new records with a marker (restore_commits)   *)
(* in one transaction.  The process may die between any two of these       *)
(* steps, or one of them may raise; the next start looks at the journal    *)
(* and the marker and finishes or undoes the restore - and may itself die  *)
(* at any point.                                                           *)
(*                                                                         *)
(* One account name is modelled.  Restores, writes, backups and deletions  *)
(* of one name exclude each other (user_lock), so a request is one step    *)
(* unless it changes the disk in several; `pc' says where the process is.  *)
(* A directory tree is removed file by file: a user's folder may be found  *)
(* Torn, and the parts of a workspace go one by one, in any order.         *)
(***************************************************************************)
EXTENDS Naturals, FiniteSets

CONSTANTS
    Versions,           \* contents of an account, or of a backup archive
    Bare,               \* the contents without attachments
    Blank,              \* the content of a new account
    NoOne,              \* nobody has the name
    Nothing,            \* no attachments, or no records
    Absent,             \* the directory does not exist
    Torn,               \* the directory is partly removed
    NoWork,             \* the workspace does not exist
    NoJournal,          \* the workspace has no journal
    Unparsable,         \* the journal was created and not written
    MaxUsers,           \* bound on the accounts that ever have the name
    MaxOps,             \* bound on the number of restores
    MaxCrashes,         \* bound on the number of crashes
    TornJournal,        \* TRUE: crashes also while a journal is not yet written
    RollbackMayFail,    \* TRUE: undoing a failed restore may raise
    CleanupMayFail      \* restores - "committed", "failed" - whose workspace
                        \* rmtree(ignore_errors=True) may leave

ASSUME VersionsAssumption ==
    /\ Blank \in Bare \/ MaxUsers = 1
    /\ Bare \subseteq Versions
    /\ {Absent, Torn, Nothing} \cap Versions = {}
    /\ Absent # Torn
    /\ NoOne \notin Nat
ASSUME BoundsAssumption ==
    /\ MaxUsers \in Nat \ {0} /\ MaxOps \in Nat /\ MaxCrashes \in Nat
    /\ {TornJournal, RollbackMayFail} \subseteq BOOLEAN
    /\ CleanupMayFail \subseteq {"committed", "failed"}

VARIABLES
    owner,      \* users: the id that has the name, or NoOne
    born,       \* number of ids given out (AUTOINCREMENT)
    data,       \* the committed records of the account
    markers,    \* the restore_commits table
    folder,     \* the attachment folder of each user id
    work,       \* the workspace of each restore: journal, staging, retired
    pc,         \* where the server process is
    op,         \* the restore it works on
    ops,        \* number of restores begun
    had,        \* had_folder
    archive,    \* the records being restored, in the open transaction
    todo,       \* the workspaces recovery has yet to look at
    blocked,    \* _blocked_accounts holds the name (in memory)
    crashes     \* history: number of crashes

db == <<owner, born, data, markers>>
disk == <<folder, work>>
local == <<op, had, archive, todo>>
counts == <<ops, crashes>>
vars == <<db, disk, pc, local, blocked, counts>>

Users == 1..MaxUsers
Ops == 1..MaxOps

Journal == [user : Users, had : BOOLEAN]
Tree == Versions \cup {Absent}
Workspace == [journal : Journal \cup {NoJournal, Unparsable}, staging : Tree, retired : Tree]

ASSUME MarksAssumption ==
    /\ {NoJournal, Unparsable} \cap Journal = {}
    /\ NoJournal # Unparsable
    /\ NoWork \notin Workspace

(* The locals of a request, or of a start, that has ended.                 *)
LocalsEnd == op' = 0 /\ had' = FALSE /\ archive' = Nothing /\ todo' = {}

Marked(o) == \E m \in markers : m.op = o

(* rmtree(ignore_errors=True) may leave what it should remove.             *)
MayLeave(o) == (IF Marked(o) THEN "committed" ELSE "failed") \in CleanupMayFail

-----------------------------------------------------------------------------
(* restore_user_backup.  Every step may be the last one (Crash), and every *)
(* step before the commit may raise (Raise).                               *)

BeginRestore ==
    /\ pc = "idle"
    /\ owner # NoOne /\ ~blocked
    /\ ops < MaxOps
    /\ ops' = ops + 1
    /\ op' = ops + 1
    /\ work' = [work EXCEPT ![ops + 1] =
                  [journal |-> NoJournal, staging |-> Absent, retired |-> Absent]]
    /\ pc' = "extracting"
    /\ UNCHANGED <<db, folder, had, archive, todo, blocked, crashes>>

(* The archive passed validation; the transaction is open and holds the    *)
(* new records.                                                            *)
Stage(v) ==
    /\ pc = "extracting"
    /\ work' = [work EXCEPT ![op].staging = v]
    /\ archive' = v
    /\ had' = (folder[owner] # Absent)
    /\ pc' = "staged"
    /\ UNCHANGED <<db, folder, op, todo, blocked, counts>>

(* prepare: open(..., 'x'), then dump, flush and fsync.                    *)
OpenJournal ==
    /\ pc = "staged"
    /\ work' = [work EXCEPT ![op].journal = Unparsable]
    /\ pc' = "opened"
    /\ UNCHANGED <<db, folder, local, blocked, counts>>

WriteJournal ==
    /\ pc = "opened"
    /\ work' = [work EXCEPT ![op].journal = [user |-> owner, had |-> had]]
    /\ pc' = "journaled"
    /\ UNCHANGED <<db, folder, local, blocked, counts>>

Retire ==
    /\ pc = "journaled"
    /\ IF had
         THEN /\ work' = [work EXCEPT ![op].retired = folder[owner]]
              /\ folder' = [folder EXCEPT ![owner] = Absent]
         ELSE UNCHANGED disk
    /\ pc' = "retired"
    /\ UNCHANGED <<db, local, blocked, counts>>

Install ==
    /\ pc = "retired"
    /\ folder' = [folder EXCEPT ![owner] = work[op].staging]
    /\ work' = [work EXCEPT ![op].staging = Absent]
    /\ pc' = "installed"
    /\ UNCHANGED <<db, local, blocked, counts>>

(* The records and the marker, in one transaction.                         *)
CommitRestore ==
    /\ pc = "installed"
    /\ data' = archive
    /\ markers' = markers \cup {[op |-> op, user |-> owner]}
    /\ pc' = "committed"
    /\ UNCHANGED <<owner, born, disk, local, blocked, counts>>

(* An exception: the archive is refused, the disk is full, the commit      *)
(* fails, the thread is interrupted.                                       *)
Raise ==
    /\ pc \in {"extracting", "staged", "opened", "journaled", "retired",
               "installed", "committed"}
    /\ pc' = IF pc \in {"extracting", "staged", "committed"}
               THEN "discarding" ELSE "failing"
    /\ UNCHANGED <<db, disk, local, blocked, counts>>

(* rollback_files.                                                         *)
RolledBack(o, u, hadFolder) ==
    /\ work[o].retired = Absent
    /\ ~hadFolder /\ work[o].staging = Absent => folder[u] = Absent

UndoFiles(o, u, hadFolder) ==
    /\ ~RolledBack(o, u, hadFolder)
    /\ \/ /\ folder[u] # Absent
          /\ \E rest \in {Torn, Absent} \ {folder[u]} :
                folder' = [folder EXCEPT ![u] = rest]
          /\ UNCHANGED work
       \/ /\ folder[u] = Absent
          /\ folder' = [folder EXCEPT ![u] = work[o].retired]
          /\ work' = [work EXCEPT ![o].retired = Absent]

Undo ==
    /\ pc = "failing"
    /\ \/ /\ UndoFiles(op, owner, had)
          /\ UNCHANGED pc
       \/ /\ RolledBack(op, owner, had)
          /\ pc' = "discarding"
          /\ UNCHANGED disk
    /\ UNCHANGED <<db, local, blocked, counts>>

(* The rollback raises: the workspace stays, and block_pending refuses the *)
(* account to requests until the next start.                               *)
UndoFails ==
    /\ RollbackMayFail
    /\ pc = "failing"
    /\ blocked' = (blocked \/ work[op].journal \in Journal)
    /\ pc' = "idle"
    /\ LocalsEnd
    /\ UNCHANGED <<db, disk, counts>>

(* rmtree of a workspace, one entry at a time.                             *)
Remove(o) ==
    /\ work[o] # NoWork
    /\ LET w == work[o] IN
       \/ /\ w.journal # NoJournal
          /\ work' = [work EXCEPT ![o].journal = NoJournal]
       \/ /\ w.staging # Absent
          /\ work' = [work EXCEPT ![o].staging = Absent]
       \/ /\ w.retired # Absent
          /\ work' = [work EXCEPT ![o].retired = Absent]
       \/ /\ w.journal = NoJournal /\ w.staging = Absent /\ w.retired = Absent
          /\ work' = [work EXCEPT ![o] = NoWork]
    /\ UNCHANGED folder

(* After the commit: the retired folder first, then the whole workspace.   *)
DropRetired ==
    /\ pc = "committed"
    /\ \/ work' = [work EXCEPT ![op].retired = Absent]
       \/ MayLeave(op) /\ UNCHANGED work
    /\ pc' = "cleaning"
    /\ UNCHANGED <<db, folder, local, blocked, counts>>

(* The end of _workspace: "cleaning" after a commit, "discarding" after an *)
(* exception.                                                              *)
CleanUp ==
    /\ pc \in {"cleaning", "discarding"}
    /\ Remove(op)
    /\ UNCHANGED <<db, pc, local, blocked, counts>>

(* Mutant: the marker goes although the workspace may remain.              *)
EndRestoreForgetting ==
    /\ pc \in {"cleaning", "discarding"}
    /\ work[op] = NoWork \/ MayLeave(op)
    /\ markers' = {m \in markers : m.op # op}
    /\ pc' = "idle"
    /\ LocalsEnd
    /\ UNCHANGED <<owner, born, data, disk, blocked, counts>>

(* forget: only once the workspace is gone, and it may fail.               *)
EndRestore ==
    /\ pc \in {"cleaning", "discarding"}
    /\ work[op] = NoWork \/ MayLeave(op)
    /\ \/ /\ pc = "cleaning" /\ work[op] = NoWork
          /\ markers' = {m \in markers : m.op # op}
       \/ UNCHANGED markers
    /\ pc' = "idle"
    /\ LocalsEnd
    /\ UNCHANGED <<owner, born, data, disk, blocked, counts>>

-----------------------------------------------------------------------------
(* The other requests for this account.                     *)

(* A write with its attachments, as one step: the folder is created with   *)
(* the first attachment and stays when the last one goes.                  *)
Write(v) ==
    /\ pc = "idle"
    /\ owner # NoOne /\ ~blocked
    /\ v # data
    /\ data' = v
    /\ folder' = [folder EXCEPT ![owner] =
                    IF v \in Bare /\ @ = Absent THEN Absent ELSE v]
    /\ UNCHANGED <<owner, born, markers, work, pc, local, blocked, counts>>

(* admin_delete_user and delete_account: the rows first, then the folder.  *)
DeleteAccount ==
    /\ pc = "idle"
    /\ owner # NoOne
    /\ born < MaxUsers       \* bound: the last account stays
    /\ owner' = NoOne
    /\ data' = Nothing
    /\ pc' = "purging"
    /\ UNCHANGED <<born, markers, disk, local, blocked, counts>>

(* The folder goes while the request still has the lock of the name.       *)
PurgeFolder ==
    /\ pc = "purging"
    /\ IF folder[born] = Absent
         THEN pc' = "idle" /\ UNCHANGED folder
         ELSE /\ \E rest \in {Torn, Absent} \ {folder[born]} :
                    folder' = [folder EXCEPT ![born] = rest]
              /\ UNCHANGED pc
    /\ UNCHANGED <<db, work, local, blocked, counts>>

(* Signing up takes the lock of the name as well.                          *)
SignUp ==
    /\ pc = "idle"
    /\ owner = NoOne
    /\ born < MaxUsers
    /\ born' = born + 1
    /\ owner' = born + 1
    /\ data' = Blank
    /\ UNCHANGED <<markers, disk, pc, local, blocked, counts>>

(* A request for a blocked account is refused.                             *)
Refused ==
    /\ pc = "idle"
    /\ owner # NoOne /\ blocked
    /\ UNCHANGED vars

-----------------------------------------------------------------------------
(* Crash, and recover_pending_restores at the next start, before anything  *)
(* else runs.                                                              *)

HasTornJournal(o) == work[o] # NoWork /\ work[o].journal = Unparsable

Crash ==
    /\ pc # "down"
    /\ (\E o \in Ops : HasTornJournal(o)) => TornJournal
    /\ crashes < MaxCrashes
    /\ crashes' = crashes + 1
    /\ pc' = "down"
    /\ blocked' = FALSE
    /\ LocalsEnd
    /\ UNCHANGED <<db, disk, ops>>

Start ==
    /\ pc = "down"
    /\ pc' = "recovering"
    /\ todo' = {o \in Ops : work[o] # NoWork}
    /\ UNCHANGED <<db, disk, op, had, archive, blocked, counts>>

(* Mutant: a workspace left for the operator is looked at again and again. *)
SkipNothing(o) ==
    /\ work[o].journal = NoJournal
    /\ IF work[o].retired = Absent
         THEN pc' = "dropping" /\ op' = o /\ UNCHANGED todo
         ELSE UNCHANGED <<todo, pc, op>>

(* No journal: the originals were not touched, unless `retired' exists.    *)
SkipUnjournaled(o) ==
    /\ work[o].journal = NoJournal
    /\ IF work[o].retired = Absent
         THEN pc' = "dropping" /\ op' = o /\ UNCHANGED todo
         ELSE todo' = todo \ {o} /\ UNCHANGED <<pc, op>>

(* An exception ends the start: a journal that cannot be parsed, or a      *)
(* committed restore without its folder.                                   *)
StartFails(o) ==
    /\ \/ work[o].journal = Unparsable
       \/ /\ work[o].journal \in Journal
          /\ owner = work[o].journal.user
          /\ Marked(o) /\ folder[owner] = Absent
    /\ pc' = "down"
    /\ UNCHANGED <<op, todo>>

(* Mutant: the journal alone decides.                                      *)
TakeJournalUnmarked(o) ==
    /\ work[o].journal \in Journal
    /\ op' = o
    /\ pc' = IF owner # work[o].journal.user THEN "finishing" ELSE "undoing"
    /\ UNCHANGED todo

TakeJournal(o) ==
    /\ work[o].journal \in Journal
    /\ op' = o
    /\ IF owner # work[o].journal.user
         THEN pc' = "finishing"
         ELSE IF Marked(o)
                THEN folder[owner] # Absent /\ pc' = "finishing"
                ELSE pc' = "undoing"
    /\ UNCHANGED todo

Examine(o) ==
    /\ pc = "recovering"
    /\ o \in todo
    /\ SkipUnjournaled(o) \/ StartFails(o) \/ TakeJournal(o)
    /\ UNCHANGED <<db, disk, had, archive, blocked, counts>>

RecoverFiles ==
    /\ pc = "undoing"
    /\ LET u == work[op].journal.user
           h == work[op].journal.had
       IN  \/ UndoFiles(op, u, h) /\ UNCHANGED pc
           \/ RolledBack(op, u, h) /\ pc' = "finishing" /\ UNCHANGED disk
    /\ UNCHANGED <<db, local, blocked, counts>>

(* rmtree(work); forget follows only where there was a journal.            *)
RemoveWork ==
    /\ pc \in {"dropping", "finishing"}
    /\ \/ Remove(op) /\ UNCHANGED <<pc, todo, markers>>
       \/ /\ work[op] = NoWork
          /\ markers' = IF pc = "finishing" THEN {m \in markers : m.op # op} ELSE markers
          /\ todo' = todo \ {op}
          /\ pc' = "recovering"
          /\ UNCHANGED disk
    /\ UNCHANGED <<owner, born, data, op, had, archive, blocked, counts>>

EndStart ==
    /\ pc = "recovering"
    /\ todo = {}
    /\ markers' = {m \in markers : work[m.op] # NoWork}
    /\ pc' = "idle"
    /\ LocalsEnd
    /\ UNCHANGED <<owner, born, data, disk, blocked, counts>>

-----------------------------------------------------------------------------
Init ==
    /\ owner = 1 /\ born = 1
    /\ data \in Versions
    /\ folder = [u \in Users |->
                   IF u = 1 /\ data \notin Bare THEN data ELSE Absent]
    /\ markers = {}
    /\ work = [o \in Ops |-> NoWork]
    /\ pc = "idle"
    /\ op = 0 /\ ops = 0 /\ crashes = 0
    /\ had = FALSE /\ archive = Nothing /\ todo = {} /\ blocked = FALSE

RestoreStep ==
    \/ (\E v \in Versions : Stage(v)) \/ OpenJournal \/ WriteJournal \/ Retire
    \/ Install \/ CommitRestore \/ DropRetired \/ Undo \/ CleanUp \/ EndRestore

StartStep ==
    \/ Start \/ (\E o \in Ops : Examine(o)) \/ RecoverFiles \/ RemoveWork \/ EndStart

Request ==
    \/ BeginRestore
    \/ \E v \in Versions : Write(v)
    \/ DeleteAccount \/ SignUp
    \/ Refused

Next == RestoreStep \/ PurgeFolder \/ Raise \/ UndoFails \/ Request
        \/ Crash \/ StartStep

Spec == Init /\ [][Next]_vars

(* The server's code runs on, and somebody starts a server that is down.   *)
FairSpec == Spec /\ WF_vars(RestoreStep) /\ WF_vars(StartStep) /\ WF_vars(PurgeFolder)

-----------------------------------------------------------------------------
TypeOK ==
    /\ owner \in Users \cup {NoOne} /\ born \in Users
    /\ data \in Versions \cup {Nothing}
    /\ markers \subseteq [op : Ops, user : Users]
    /\ folder \in [Users -> Tree \cup {Torn}]
    /\ work \in [Ops -> Workspace \cup {NoWork}]
    /\ op \in 0..MaxOps /\ ops \in 0..MaxOps
    /\ had \in BOOLEAN /\ blocked \in BOOLEAN
    /\ archive \in Versions \cup {Nothing}
    /\ todo \subseteq Ops
    /\ crashes \in 0..MaxCrashes

(* The attachments a folder shows: an empty folder shows none.             *)
Shown(tree) == IF tree \in Bare \cup {Absent, Nothing} THEN Nothing ELSE tree

(* A restore of account u that a start would undo.                         *)
Undone(o, u) ==
    /\ work[o] # NoWork
    /\ work[o].journal \in Journal
    /\ work[o].journal.user = u
    /\ ~Marked(o)

(* The attachments the account has once no restore is pending: what the    *)
(* next start would leave.                                                 *)
Settled(u) ==
    LET undone == {o \in Ops : Undone(o, u)} IN
    IF \E o \in undone : work[o].retired # Absent
      THEN work[CHOOSE o \in undone : work[o].retired # Absent].retired
      ELSE IF \E o \in undone : ~work[o].journal.had /\ work[o].staging = Absent
             THEN Absent
             ELSE folder[u]

(* A restore is atomic: at every moment, whatever crash, exception or      *)
(* half-finished recovery comes next, the account is what it was before or *)
(* what the archive says - records and attachments together - and an       *)
(* account that signs up again under the name is never touched by the      *)
(* restore of its predecessor.                                             *)
Atomic == INSTANCE AtomicRestore WITH
            files <- IF owner = NoOne THEN Nothing ELSE Shown(Settled(owner))

ImplementsAtomicRestore == Atomic!ASpec

(* Nobody is ever served a mixture: when the server answers requests for   *)
(* the account (up, lock free, not blocked), the folder itself holds the   *)
(* attachments of the records, not merely a workspace from which a later   *)
(* start would bring them back.                                            *)
Serving == pc = "idle" /\ owner # NoOne /\ ~blocked
ServedAccountIsWhole ==
    Serving => Shown(folder[owner]) = Shown(data)

(* What makes every start fail: a journal it cannot parse, or a committed  *)
(* restore whose workspace could not be removed, and whose folder a later  *)
(* restore of the account had put aside when it was interrupted: starts    *)
(* take the workspaces by name, and give up before they come to the later. *)
TornJournalLeft == \E o \in Ops : HasTornJournal(o)
CommittedLeft ==
    \E o, later \in Ops :
       /\ o < later
       /\ work[o] # NoWork /\ work[o].journal \in Journal
       /\ owner = work[o].journal.user /\ Marked(o)
       /\ work[later] # NoWork /\ ~Marked(later)
       /\ folder[owner] = Absent
Stuck == pc = "down" /\ (TornJournalLeft \/ CommittedLeft)

(* A server that is down comes up again, whatever else a crash has left.   *)
ComesUpUnlessStuck == pc = "down" ~> (pc = "idle" \/ Stuck)

(* A server that is down comes up again (README.en.md:109).                *)
ComesUp == pc = "down" ~> pc = "idle"
=============================================================================
