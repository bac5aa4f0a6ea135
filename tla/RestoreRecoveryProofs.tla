------------------------ MODULE RestoreRecoveryProofs ------------------------
(***************************************************************************)
(* Proofs about RestoreRecovery: whoever is served is served the           *)
(* attachments of the records, and the whole protocol - restores, crashes, *)
(* half-finished recoveries - implements AtomicRestore.                    *)
(*                                                                         *)
(* All of it supposes that the workspace of a FAILED restore is removed    *)
(* (CleanupMayFail \subseteq {"committed"}).  restores.py:141 does not     *)
(* make sure of that - rmtree(ignore_errors=True) -, and where one remains *)
(* the theorems are false: the next start undoes the restore once more,    *)
(* and with it what was attached since.                                    *)
(***************************************************************************)
EXTENDS RestoreRecovery, TLAPS

(* A restore that a start would undo, whoever its account belongs to.      *)
Journaled(o) == work[o] # NoWork /\ work[o].journal \in Journal
Pending(o) == Journaled(o) /\ ~Marked(o)

(* The folder shows the attachments of the records.                        *)
Whole(u) == folder[u] # Torn /\ Shown(folder[u]) = Shown(data)

(* The folder is whole, and undoing restore o does not touch it.           *)
Clean(o, u) ==
    /\ work[o].retired = Absent
    /\ Whole(u)
    /\ ~work[o].journal.had => folder[u] = Absent

(* Undoing restore o makes the folder whole: it comes back from `retired', *)
(* or the account had none and the one that is there goes.                 *)
Restorable(o, u) ==
    \/ /\ work[o].retired # Absent
       /\ work[o].journal.had
       /\ Shown(work[o].retired) = Shown(data)
    \/ /\ work[o].retired = Absent
       /\ ~work[o].journal.had
       /\ work[o].staging = Absent
       /\ Shown(data) = Nothing
    \/ Clean(o, u)

AccountInv ==
    /\ owner # NoOne => owner = born /\ data \in Versions
    /\ owner = NoOne => data = Nothing
    /\ pc = "purging" => owner = NoOne
    /\ \A u \in Users : u > born => folder[u] = Absent

WorkInv ==
    /\ \A o \in Ops : o > ops => work[o] = NoWork
    /\ \A m \in markers : m.op <= ops
    /\ \A o \in Ops : Journaled(o) => work[o].journal.user <= born

OnlyOne == \A o1, o2 \in Ops : Pending(o1) /\ Pending(o2) => o1 = o2

FolderInv ==
    owner # NoOne =>
      /\ \A o \in Ops : Undone(o, owner) => Restorable(o, owner)
      /\ (\A o \in Ops : ~Undone(o, owner)) => Whole(owner)

-----------------------------------------------------------------------------
(* What holds while the process is at some step.                           *)

Before == {"extracting", "staged", "opened", "journaled", "retired", "installed"}
Restoring == Before \cup {"committed", "failing", "cleaning", "discarding"}
Recovering == {"recovering", "dropping", "undoing", "finishing"}

IdleInv ==
    pc \in {"idle", "purging"} /\ ~blocked => \A o \in Ops : ~Pending(o)

RestoringInv ==
    pc \in Restoring =>
      /\ op \in Ops /\ op <= ops
      /\ owner # NoOne /\ ~blocked
      /\ \A o \in Ops : Pending(o) => o = op
      /\ pc \in Before \cup {"failing"} => ~Marked(op)
      /\ pc \notin {"cleaning", "discarding"} => work[op] # NoWork
      /\ pc \in {"committed", "cleaning"} => Marked(op)

Staged ==
    /\ work[op].staging = archive /\ archive \in Versions
    /\ work[op].retired = Absent
    /\ had <=> folder[owner] # Absent

OwnJournal == work[op].journal = [user |-> owner, had |-> had]

StageInv ==
    /\ pc = "extracting" => work[op].journal = NoJournal /\ work[op].retired = Absent
    /\ pc = "staged" => work[op].journal = NoJournal /\ Staged
    /\ pc = "opened" => work[op].journal = Unparsable /\ Staged
    /\ pc = "journaled" => OwnJournal /\ Staged
    /\ pc = "retired" =>
         /\ OwnJournal
         /\ work[op].staging = archive /\ archive \in Versions
         /\ work[op].retired # Absent <=> had
         /\ folder[owner] = Absent
    /\ pc = "installed" =>
         /\ OwnJournal
         /\ archive \in Versions
         /\ folder[owner] = archive

UndoInv ==
    /\ pc = "failing" =>
         \/ OwnJournal
         \/ /\ work[op].journal = Unparsable
            /\ work[op].retired = Absent /\ work[op].staging # Absent
    /\ pc = "discarding" /\ Pending(op) =>
         work[op].journal.user = owner /\ Clean(op, owner)

RecoveringInv ==
    pc \in Recovering =>
      /\ \A o \in Ops : Pending(o) => o \in todo
      /\ \A o \in todo : work[o] = NoWork => pc # "recovering" /\ o = op
      /\ pc # "recovering" => op \in Ops
      /\ pc = "dropping" /\ work[op] # NoWork => work[op].journal = NoJournal
      /\ pc = "undoing" => owner # NoOne /\ Undone(op, owner)
      /\ pc = "finishing" /\ owner # NoOne /\ Undone(op, owner) => Clean(op, owner)

PcInv == IdleInv /\ RestoringInv /\ StageInv /\ UndoInv /\ RecoveringInv

RestoreInv == TypeOK /\ AccountInv /\ WorkInv /\ OnlyOne /\ FolderInv /\ PcInv

-----------------------------------------------------------------------------
(* Lemma: the invariant holds initially.                                   *)
LEMMA InitInv == Init => RestoreInv
<1> SUFFICES ASSUME Init PROVE RestoreInv
  OBVIOUS
<1> USE VersionsAssumption, BoundsAssumption, MarksAssumption
<1>1. TypeOK
  <2>1. /\ born \in Users /\ owner \in Users \cup {NoOne} /\ 0 \in 0..MaxOps /\ 0 \in 0..MaxCrashes
    BY DEF Init, Users
  <2>2. folder \in [Users -> Tree \cup {Torn}]
    BY DEF Init, Tree
  <2>3. /\ work \in [Ops -> Workspace \cup {NoWork}]
        /\ data \in Versions \cup {Nothing} /\ archive \in Versions \cup {Nothing}
        /\ markers \subseteq [op : Ops, user : Users] /\ todo \subseteq Ops
    BY DEF Init
  <2>4. had \in BOOLEAN /\ blocked \in BOOLEAN
    BY Zenon DEF Init
  <2> QED
    BY <2>1, <2>2, <2>3, <2>4, Zenon DEF Init, TypeOK
<1>2. AccountInv /\ WorkInv /\ OnlyOne
  BY DEF Init, AccountInv, WorkInv, OnlyOne, Users, Ops, Journaled, Pending
<1>3. FolderInv
  <2>1. 1 \in Users /\ owner = 1 /\ \A o \in Ops : ~Undone(o, owner)
    BY DEF Init, Users, Undone
  <2>2. folder[1] = IF data \notin Bare THEN data ELSE Absent
    BY <2>1 DEF Init
  <2>3. Whole(1)
    BY <2>2 DEF Init, Whole, Shown
  <2> QED
    BY <2>1, <2>3 DEF FolderInv
<1>4. PcInv
  BY DEF Init, PcInv, IdleInv, RestoringInv, StageInv, UndoInv, RecoveringInv,
         Journaled, Pending, Restoring, Before, Recovering
<1> QED
  BY <1>1, <1>2, <1>3, <1>4 DEF RestoreInv

-----------------------------------------------------------------------------
(* Lemma: what a workspace can become without losing its type.             *)
LEMMA WorkTyped ==
  ASSUME TypeOK, NEW o \in Ops, work[o] # NoWork
  PROVE  /\ \A t \in Tree : [work EXCEPT ![o].staging = t] \in [Ops -> Workspace \cup {NoWork}]
         /\ \A t \in Tree : [work EXCEPT ![o].retired = t] \in [Ops -> Workspace \cup {NoWork}]
         /\ \A j \in Journal \cup {NoJournal, Unparsable} :
               [work EXCEPT ![o].journal = j] \in [Ops -> Workspace \cup {NoWork}]
         /\ [work EXCEPT ![o] = NoWork] \in [Ops -> Workspace \cup {NoWork}]
<1>1. work[o] \in Workspace
  BY DEF TypeOK
<1>2. /\ \A t \in Tree : [work[o] EXCEPT !.staging = t] \in Workspace
      /\ \A t \in Tree : [work[o] EXCEPT !.retired = t] \in Workspace
      /\ \A j \in Journal \cup {NoJournal, Unparsable} : [work[o] EXCEPT !.journal = j] \in Workspace
  BY <1>1 DEF Workspace
<1> QED
  BY <1>2 DEF TypeOK

(* Lemma: the types of the locals of a request that has ended.             *)
LEMMA LocalsTyped ==
  LocalsEnd => /\ op' \in 0..MaxOps /\ had' \in BOOLEAN
               /\ archive' \in Versions \cup {Nothing} /\ todo' \subseteq Ops
<1> SUFFICES ASSUME LocalsEnd
             PROVE  /\ op' \in 0..MaxOps /\ had' \in BOOLEAN
                    /\ archive' \in Versions \cup {Nothing} /\ todo' \subseteq Ops
  OBVIOUS
<1>1. op' \in 0..MaxOps /\ archive' \in Versions \cup {Nothing} /\ todo' \subseteq Ops
  BY BoundsAssumption DEF LocalsEnd
<1>2. had' \in BOOLEAN
  BY Zenon DEF LocalsEnd
<1> QED
  BY <1>1, <1>2

(* Lemma: removing a part of a workspace, and undoing the files of a       *)
(* restore, keep the types.                                                *)
LEMMA DiskTyped ==
  ASSUME TypeOK, NEW o \in Ops, work[o] # NoWork, NEW u, NEW h,
         Remove(o) \/ UndoFiles(o, u, h)
  PROVE  /\ work' \in [Ops -> Workspace \cup {NoWork}]
         /\ folder' \in [Users -> Tree \cup {Torn}]
<1>1. CASE Remove(o)
  BY <1>1, WorkTyped DEF Remove, Tree, TypeOK
<1>2. CASE UndoFiles(o, u, h)
  <2>1. work[o].retired \in Tree /\ Absent \in Tree
    BY DEF TypeOK, Workspace, Tree
  <2> QED
    BY <1>2, <2>1, WorkTyped DEF UndoFiles, Tree, TypeOK
<1> QED
  BY <1>1, <1>2

(* Lemma: the types are kept by every step.                                *)
LEMMA TypeStep == RestoreInv /\ [Next]_vars => TypeOK'
<1> SUFFICES ASSUME RestoreInv, [Next]_vars PROVE TypeOK'
  OBVIOUS
<1> USE VersionsAssumption, BoundsAssumption, MarksAssumption DEF RestoreInv
<1> USE DEF TypeOK, Workspace, Tree, Users, Ops, vars, db, disk, local, counts, LocalsEnd
<1>1. CASE BeginRestore
  BY <1>1 DEF BeginRestore
<1>2. ASSUME NEW v \in Versions, Stage(v) PROVE TypeOK'
  BY <1>2 DEF Stage, PcInv, RestoringInv, Restoring, Before
<1>3. CASE OpenJournal
  BY <1>3 DEF OpenJournal, PcInv, RestoringInv, Restoring, Before
<1>4. CASE WriteJournal
  BY <1>4 DEF WriteJournal, PcInv, RestoringInv, Restoring, Before, Journal
<1>5. CASE Retire
  <2>1. op \in Ops /\ work[op] # NoWork /\ owner \in Users
    BY <1>5 DEF Retire, PcInv, RestoringInv, Restoring, Before
  <2>2. had => folder[owner] \in Tree
    <3>1. OwnJournal /\ Staged /\ ~Marked(op) /\ owner # NoOne
      BY <1>5 DEF Retire, PcInv, RestoringInv, StageInv, Restoring, Before
    <3>2. Undone(op, owner) /\ work[op].staging # Absent
      BY <2>1, <3>1 DEF OwnJournal, Undone, Journal, Staged
    <3>3. folder[owner] # Torn
      BY <2>1, <3>1, <3>2 DEF FolderInv, Restorable, Clean, Whole, Staged
    <3> QED
      BY <2>1, <3>3
  <2>3. CASE had
    <3>1. folder' = [folder EXCEPT ![owner] = Absent] /\ Absent \in Tree
      BY <1>5, <2>3 DEF Retire
    <3>2. folder' \in [Users -> Tree \cup {Torn}]
      BY <3>1
    <3>3. work' \in [Ops -> Workspace \cup {NoWork}]
      <4>1. TypeOK
        OBVIOUS
      <4> HIDE DEF Workspace, Tree, TypeOK, RestoreInv
      <4> QED
        BY <1>5, <2>1, <2>2, <2>3, <4>1, WorkTyped DEF Retire
    <3> QED
      BY <1>5, <3>2, <3>3 DEF Retire
  <2> QED
    BY <1>5, <2>3 DEF Retire
<1>6. CASE Install
  BY <1>6 DEF Install, PcInv, RestoringInv, Restoring, Before
<1>7. CASE CommitRestore
  BY <1>7 DEF CommitRestore, PcInv, RestoringInv, Restoring, Before
<1>8. CASE Raise
  BY <1>8 DEF Raise
<1>9. CASE Undo
  <2>1. op \in Ops /\ work[op] # NoWork
    BY <1>9 DEF Undo, PcInv, RestoringInv, Restoring, Before
  <2>2. /\ work' \in [Ops -> Workspace \cup {NoWork}]
        /\ folder' \in [Users -> Tree \cup {Torn}]
    BY <1>9, <2>1, DiskTyped DEF Undo
  <2> QED
    BY <1>9, <2>2 DEF Undo
<1>10. CASE UndoFails
  <2>1. blocked' \in BOOLEAN
    BY <1>10 DEF UndoFails
  <2> QED
    BY <1>10, <2>1, LocalsTyped DEF UndoFails
<1>11. CASE DropRetired
  <2>1. op \in Ops /\ work[op] # NoWork
    BY <1>11 DEF DropRetired, PcInv, RestoringInv, Restoring, Before
  <2>2. work' \in [Ops -> Workspace \cup {NoWork}]
    <3>1. TypeOK /\ Absent \in Tree
      OBVIOUS
    <3>2. work \in [Ops -> Workspace \cup {NoWork}]
      OBVIOUS
    <3> HIDE DEF Workspace, Tree, TypeOK, RestoreInv
    <3> QED
      BY <1>11, <2>1, <3>1, <3>2, WorkTyped DEF DropRetired
  <2> QED
    BY <1>11, <2>2 DEF DropRetired
<1>12. CASE CleanUp
  <2>1. op \in Ops
    BY <1>12 DEF CleanUp, PcInv, RestoringInv, Restoring, Before
  <2>2. work[op] # NoWork
    BY <1>12 DEF CleanUp, Remove
  <2>3. /\ work' \in [Ops -> Workspace \cup {NoWork}]
        /\ folder' \in [Users -> Tree \cup {Torn}]
    BY <1>12, <2>1, <2>2, DiskTyped DEF CleanUp
  <2> QED
    BY <1>12, <2>3 DEF CleanUp
<1>13. CASE EndRestore
  BY <1>13, LocalsTyped DEF EndRestore
<1>14. ASSUME NEW v \in Versions, Write(v) PROVE TypeOK'
  BY <1>14 DEF Write
<1>15. CASE DeleteAccount
  BY <1>15 DEF DeleteAccount
<1>16. CASE PurgeFolder
  BY <1>16 DEF PurgeFolder
<1>17. CASE SignUp
  BY <1>17 DEF SignUp
<1>18. CASE Refused
  BY <1>18 DEF Refused
<1>19. CASE Crash
  <2>1. crashes' \in 0..MaxCrashes
    <3> HIDE DEF Workspace, Tree
    <3> QED
      BY <1>19 DEF Crash
  <2>2. blocked' \in BOOLEAN
    BY <1>19, Zenon DEF Crash
  <2> QED
    BY <1>19, <2>1, <2>2, LocalsTyped DEF Crash
<1>20. CASE Start
  BY <1>20 DEF Start
<1>21. ASSUME NEW o \in Ops, Examine(o) PROVE TypeOK'
  <2>1. (op' = op \/ op' = o) /\ (todo' = todo \/ todo' = todo \ {o})
    <3> HIDE DEF TypeOK, RestoreInv
    <3> QED
      BY <1>21 DEF Examine, SkipUnjournaled, StartFails, TakeJournal
  <2>2. o \in 0..MaxOps
    OBVIOUS
  <2> QED
    BY <1>21, <2>1, <2>2 DEF Examine
<1>22. CASE RecoverFiles
  <2>1. op \in Ops /\ work[op] # NoWork
    BY <1>22 DEF RecoverFiles, PcInv, RecoveringInv, Recovering, Undone
  <2>2. /\ work' \in [Ops -> Workspace \cup {NoWork}]
        /\ folder' \in [Users -> Tree \cup {Torn}]
    BY <1>22, <2>1, DiskTyped DEF RecoverFiles
  <2> QED
    BY <1>22, <2>2 DEF RecoverFiles
<1>23. CASE RemoveWork
  <2>1. op \in Ops
    BY <1>23 DEF RemoveWork, PcInv, RecoveringInv, Recovering
  <2>2. CASE Remove(op)
    <3>1. work[op] # NoWork
      BY <2>2 DEF Remove
    <3>2. /\ work' \in [Ops -> Workspace \cup {NoWork}]
          /\ folder' \in [Users -> Tree \cup {Torn}]
      BY <2>1, <2>2, <3>1, DiskTyped
    <3> QED
      BY <1>23, <3>2 DEF RemoveWork
  <2>3. CASE UNCHANGED disk
    BY <1>23, <2>3 DEF RemoveWork
  <2> QED
    BY <1>23, <2>2, <2>3 DEF RemoveWork
<1>24. CASE EndStart
  BY <1>24, LocalsTyped DEF EndStart
<1>25. CASE UNCHANGED vars
  BY <1>25
<1> QED
  BY <1>1, <1>2, <1>3, <1>4, <1>5, <1>6, <1>7, <1>8, <1>9, <1>10, <1>11, <1>12,
     <1>13, <1>14, <1>15, <1>16, <1>17, <1>18, <1>19, <1>20, <1>21, <1>22, <1>23,
     <1>24, <1>25 DEF Next, RestoreStep, StartStep, Request

-----------------------------------------------------------------------------
(* What a step does to one workspace.                                      *)
OthersStay(o) == \A p \in Ops \ {o} : work'[p] = work[p]

SetTo(o, journal, staging, retired) ==
    /\ OthersStay(o)
    /\ work'[o] # NoWork
    /\ work'[o].journal = journal
    /\ work'[o].staging = staging
    /\ work'[o].retired = retired

(* Lemma: an assignment to one part of a workspace leaves the rest.        *)
LEMMA PartSet ==
  ASSUME TypeOK, NEW o \in Ops, work[o] # NoWork
  PROVE  /\ \A t \in Tree : work' = [work EXCEPT ![o].staging = t] =>
               SetTo(o, work[o].journal, t, work[o].retired)
         /\ \A t \in Tree : work' = [work EXCEPT ![o].retired = t] =>
               SetTo(o, work[o].journal, work[o].staging, t)
         /\ \A j \in Journal \cup {NoJournal, Unparsable} :
               work' = [work EXCEPT ![o].journal = j] =>
                 SetTo(o, j, work[o].staging, work[o].retired)
<1>1. work[o] \in Workspace /\ work \in [Ops -> Workspace \cup {NoWork}]
  BY DEF TypeOK
<1>2. ASSUME NEW t \in Tree, work' = [work EXCEPT ![o].staging = t]
      PROVE  SetTo(o, work[o].journal, t, work[o].retired)
  <2>1. [work[o] EXCEPT !.staging = t] \in Workspace
    BY <1>1 DEF Workspace
  <2> QED
    BY <1>1, <1>2, <2>1, MarksAssumption DEF SetTo, OthersStay, Workspace
<1>3. ASSUME NEW t \in Tree, work' = [work EXCEPT ![o].retired = t]
      PROVE  SetTo(o, work[o].journal, work[o].staging, t)
  <2>1. [work[o] EXCEPT !.retired = t] \in Workspace
    BY <1>1 DEF Workspace
  <2> QED
    BY <1>1, <1>3, <2>1, MarksAssumption DEF SetTo, OthersStay, Workspace
<1>4. ASSUME NEW j \in Journal \cup {NoJournal, Unparsable},
             work' = [work EXCEPT ![o].journal = j]
      PROVE  SetTo(o, j, work[o].staging, work[o].retired)
  <2>1. [work[o] EXCEPT !.journal = j] \in Workspace
    BY <1>1 DEF Workspace
  <2> QED
    BY <1>1, <1>4, <2>1, MarksAssumption DEF SetTo, OthersStay, Workspace
<1> QED
  BY <1>2, <1>3, <1>4

(* Lemma: removing a part of a workspace makes nothing pending.            *)
LEMMA RemoveSets ==
  ASSUME TypeOK, NEW o \in Ops, Remove(o)
  PROVE  /\ OthersStay(o) /\ folder' = folder
         /\ work'[o] # NoWork =>
              /\ work[o] # NoWork
              /\ work'[o].journal \in {work[o].journal, NoJournal}
              /\ work'[o].staging \in {work[o].staging, Absent}
              /\ work'[o].retired \in {work[o].retired, Absent}
<1>1. work[o] # NoWork /\ Absent \in Tree /\ work \in [Ops -> Workspace \cup {NoWork}]
  BY DEF Remove, Tree, TypeOK
<1>2. CASE work' = [work EXCEPT ![o] = NoWork]
  BY <1>1, <1>2 DEF Remove, OthersStay
<1>3. CASE work' # [work EXCEPT ![o] = NoWork]
  BY <1>1, <1>3, PartSet DEF Remove, SetTo
<1> QED
  BY <1>2, <1>3

-----------------------------------------------------------------------------
(* Lemma: the steps of a restore up to its commit keep the invariant.      *)
LEMMA RestoreKeeps ==
  ASSUME RestoreInv, TypeOK',
         \/ BeginRestore \/ (\E v \in Versions : Stage(v)) \/ OpenJournal
         \/ WriteJournal \/ Retire \/ Install \/ CommitRestore
  PROVE  RestoreInv'
<1> USE VersionsAssumption, BoundsAssumption, MarksAssumption
<1> USE DEF RestoreInv, PcInv, db, disk, local, counts, Before, Restoring, Recovering,
            Marked, Journaled, Pending, Undone
<1> DEFINE Rest == (AccountInv /\ WorkInv /\ OnlyOne /\ FolderInv /\ PcInv)'
<1>1. CASE BeginRestore
  <2>1. op' = ops + 1 /\ op' \in Ops
    BY <1>1 DEF BeginRestore, TypeOK, Ops
  <2>2. SetTo(op', NoJournal, Absent, Absent)
    <3>1. [journal |-> NoJournal, staging |-> Absent, retired |-> Absent] \in Workspace
      BY DEF Workspace, Tree
    <3> QED
      BY <1>1, <2>1, <3>1 DEF BeginRestore, SetTo, OthersStay, TypeOK
  <2>3. \A o \in Ops : ~Pending(o) /\ ~Pending(o)'
    BY <1>1, <2>1, <2>2 DEF BeginRestore, IdleInv, SetTo, OthersStay
  <2>4. ~Marked(op)'
    <3>1. \A m \in markers : m.op \in Ops /\ m.op <= ops
      BY DEF WorkInv, TypeOK
    <3>2. \A m \in markers : m.op # ops + 1
      BY <3>1 DEF Ops, TypeOK
    <3> QED
      BY <1>1, <2>1, <3>2 DEF BeginRestore
  <2>5. (AccountInv /\ WorkInv /\ OnlyOne)'
    BY <1>1, <2>1, <2>2, <2>3 DEF BeginRestore, AccountInv, WorkInv, OnlyOne, SetTo, OthersStay, Ops, TypeOK
  <2>6. FolderInv'
    BY <1>1, <2>3 DEF BeginRestore, FolderInv, Whole, Shown
  <2>7. (IdleInv /\ StageInv /\ UndoInv /\ RecoveringInv)'
    BY <1>1, <2>1, <2>2, <2>3, <2>4 DEF BeginRestore, IdleInv, StageInv, UndoInv,
       RecoveringInv, SetTo
  <2>8. RestoringInv'
    BY <1>1, <2>1, <2>2, <2>3, <2>4 DEF BeginRestore, RestoringInv, SetTo, TypeOK
  <2> QED
    BY <2>5, <2>6, <2>7, <2>8
<1>2. ASSUME NEW v \in Versions, Stage(v) PROVE Rest
  <2>1. op \in Ops /\ work[op] # NoWork /\ v \in Tree
    BY <1>2 DEF Stage, RestoringInv, Tree
  <2>2. SetTo(op, NoJournal, v, Absent)
    BY <1>2, <2>1, PartSet DEF Stage, StageInv
  <2>3. \A o \in Ops : ~Pending(o) /\ ~Pending(o)'
    BY <1>2, <2>1, <2>2 DEF Stage, RestoringInv, StageInv, SetTo, OthersStay
  <2>4. (AccountInv /\ WorkInv /\ OnlyOne)'
    BY <1>2, <2>1, <2>2, <2>3 DEF Stage, AccountInv, WorkInv, OnlyOne, RestoringInv, SetTo, OthersStay
  <2>5. FolderInv'
    BY <1>2, <2>3 DEF Stage, FolderInv, Whole, Shown
  <2>6. (IdleInv /\ RestoringInv /\ StageInv /\ UndoInv /\ RecoveringInv)'
    BY <1>2, <2>1, <2>2, <2>3 DEF Stage, IdleInv, RestoringInv, StageInv, UndoInv,
       RecoveringInv, SetTo, Staged
  <2> QED
    BY <2>4, <2>5, <2>6
<1>3. CASE OpenJournal
  <2>1. op \in Ops /\ work[op] # NoWork /\ Staged
    BY <1>3 DEF OpenJournal, RestoringInv, StageInv
  <2>2. SetTo(op, Unparsable, archive, Absent)
    BY <1>3, <2>1, PartSet DEF OpenJournal, Staged
  <2>3. \A o \in Ops : ~Pending(o) /\ ~Pending(o)'
    BY <1>3, <2>1, <2>2 DEF OpenJournal, RestoringInv, StageInv, SetTo, OthersStay
  <2>4. (AccountInv /\ WorkInv /\ OnlyOne)'
    BY <1>3, <2>1, <2>2, <2>3 DEF OpenJournal, AccountInv, WorkInv, OnlyOne, RestoringInv, SetTo, OthersStay
  <2>5. FolderInv'
    BY <1>3, <2>3 DEF OpenJournal, FolderInv, Whole, Shown
  <2>6. (IdleInv /\ RestoringInv /\ StageInv /\ UndoInv /\ RecoveringInv)'
    BY <1>3, <2>1, <2>2, <2>3 DEF OpenJournal, IdleInv, RestoringInv, StageInv, UndoInv,
       RecoveringInv, SetTo, Staged
  <2> QED
    BY <2>4, <2>5, <2>6
<1>4. CASE WriteJournal
  <2>1. op \in Ops /\ work[op] # NoWork /\ Staged /\ ~Marked(op) /\ owner \in Users /\ owner # NoOne /\ owner = born
    BY <1>4 DEF WriteJournal, RestoringInv, StageInv, TypeOK, AccountInv
  <2>2. [user |-> owner, had |-> had] \in Journal
    BY <2>1 DEF TypeOK, Journal
  <2>3. SetTo(op, [user |-> owner, had |-> had], archive, Absent)
    BY <1>4, <2>1, <2>2, PartSet DEF WriteJournal, Staged
  <2>4. \A o \in Ops : ~Pending(o) /\ (Pending(o)' <=> o = op)
    BY <1>4, <2>1, <2>2, <2>3 DEF WriteJournal, RestoringInv, StageInv, SetTo, OthersStay
  <2>5. Whole(owner)
    BY <1>4, <2>1, <2>4 DEF WriteJournal, FolderInv, RestoringInv
  <2>6. Clean(op, owner)'
    BY <1>4, <2>1, <2>3, <2>5 DEF WriteJournal, Clean, Whole, Shown, Staged, SetTo
  <2>7. (AccountInv /\ WorkInv /\ OnlyOne)'
    BY <1>4, <2>1, <2>2, <2>3, <2>4 DEF WriteJournal, AccountInv, WorkInv, OnlyOne, RestoringInv,
       SetTo, OthersStay, TypeOK, Users
  <2>8. FolderInv'
    BY <1>4, <2>1, <2>4, <2>6, <2>2, <2>3 DEF WriteJournal, FolderInv, Restorable, SetTo
  <2>9. (IdleInv /\ RestoringInv /\ StageInv /\ UndoInv /\ RecoveringInv)'
    BY <1>4, <2>1, <2>3, <2>4 DEF WriteJournal, IdleInv, RestoringInv, StageInv, UndoInv,
       RecoveringInv, SetTo, Staged, OwnJournal
  <2> QED
    BY <2>7, <2>8, <2>9
<1>5. CASE Retire
  <2>1. /\ op \in Ops /\ work[op] # NoWork /\ ~Marked(op) /\ owner \in Users /\ owner # NoOne /\ owner = born
        /\ OwnJournal /\ Staged
    BY <1>5 DEF Retire, RestoringInv, StageInv, TypeOK, AccountInv
  <2>2. Pending(op) /\ Undone(op, owner) /\ \A o \in Ops : Pending(o) => o = op
    BY <1>5, <2>1 DEF Retire, RestoringInv, OwnJournal, Journal, TypeOK
  <2>3. Clean(op, owner)
    BY <2>1, <2>2 DEF FolderInv, Restorable, Staged
  <2>4. folder[owner] \in Tree
    BY <2>1, <2>3 DEF Clean, Whole, TypeOK
  <2>5. /\ SetTo(op, [user |-> owner, had |-> had], archive, IF had THEN folder[owner] ELSE Absent)
        /\ folder' = [folder EXCEPT ![owner] = Absent]
    <3>1. CASE had
      BY <1>5, <2>1, <2>4, <3>1, PartSet DEF Retire, Staged, OwnJournal
    <3>2. CASE ~had
      BY <1>5, <2>1, <3>2 DEF Retire, Staged, OwnJournal, SetTo, OthersStay, TypeOK
    <3> QED
      BY <3>1, <3>2
  <2>6. \A o \in Ops : Pending(o)' <=> o = op
    BY <1>5, <2>1, <2>2, <2>5 DEF Retire, SetTo, OthersStay, OwnJournal
  <2>7. (AccountInv /\ WorkInv /\ OnlyOne)'
    <3>1. \A u \in Users : u > born => u # owner
      BY <2>1 DEF Users
    <3>2. AccountInv'
      BY <1>5, <2>1, <2>5, <3>1 DEF Retire, AccountInv, TypeOK
    <3>3. WorkInv'
      <4>1. work'[op].journal.user = born /\ work'[op] # NoWork /\ born \in Nat
        BY <2>1, <2>5 DEF SetTo, TypeOK, Users
      <4>2. op <= ops /\ \A o \in Ops \ {op} : work'[o] = work[o]
        BY <1>5, <2>5 DEF Retire, RestoringInv, SetTo, OthersStay
      <4> QED
        BY <1>5, <4>1, <4>2 DEF Retire, WorkInv, Ops, TypeOK
    <3> QED
      BY <2>6, <3>2, <3>3 DEF OnlyOne
  <2>8. Restorable(op, owner)'
    BY <1>5, <2>1, <2>3, <2>5 DEF Retire, Restorable, Clean, Whole, Shown, SetTo, Staged, TypeOK
  <2>9. FolderInv'
    BY <1>5, <2>1, <2>5, <2>6, <2>8 DEF Retire, FolderInv, SetTo
  <2>10. (IdleInv /\ RestoringInv /\ StageInv /\ UndoInv /\ RecoveringInv)'
    BY <1>5, <2>1, <2>5, <2>6 DEF Retire, IdleInv, RestoringInv, StageInv, UndoInv,
       RecoveringInv, SetTo, Staged, OwnJournal, TypeOK
  <2> QED
    BY <2>7, <2>9, <2>10
<1>6. CASE Install
  <2>1. /\ op \in Ops /\ work[op] # NoWork /\ ~Marked(op) /\ owner \in Users /\ owner # NoOne /\ owner = born
        /\ OwnJournal /\ work[op].staging = archive /\ archive \in Versions
        /\ work[op].retired # Absent <=> had
        /\ folder[owner] = Absent
    BY <1>6 DEF Install, RestoringInv, StageInv, TypeOK, AccountInv
  <2>2. Pending(op) /\ Undone(op, owner) /\ \A o \in Ops : Pending(o) => o = op
    BY <1>6, <2>1 DEF Install, RestoringInv, OwnJournal, Journal, TypeOK
  <2>3. Restorable(op, owner) /\ Absent \in Tree
    BY <2>1, <2>2 DEF FolderInv, Tree
  <2>4. SetTo(op, [user |-> owner, had |-> had], Absent, work[op].retired)
    BY <1>6, <2>1, <2>3, PartSet DEF Install, OwnJournal
  <2>5. \A o \in Ops : Pending(o)' <=> o = op
    BY <1>6, <2>1, <2>2, <2>4 DEF Install, SetTo, OthersStay, OwnJournal
  <2>6. folder' = [folder EXCEPT ![owner] = archive]
    BY <1>6, <2>1 DEF Install
  <2>7. (AccountInv /\ WorkInv /\ OnlyOne)'
    <3>1. \A u \in Users : u > born => u # owner
      BY <2>1 DEF Users
    <3>2. AccountInv'
      BY <1>6, <2>1, <2>6, <3>1 DEF Install, AccountInv, TypeOK
    <3> QED
      BY <1>6, <2>1, <2>4, <2>5, <3>2 DEF Install, WorkInv, OnlyOne, RestoringInv, SetTo,
         OthersStay, TypeOK, Users
  <2>8. Restorable(op, owner)'
    BY <1>6, <2>1, <2>3, <2>4 DEF Install, Restorable, Clean, Whole, Shown, SetTo, OwnJournal
  <2>9. FolderInv'
    BY <1>6, <2>1, <2>4, <2>5, <2>8 DEF Install, FolderInv, SetTo
  <2>10. (IdleInv /\ RestoringInv /\ StageInv /\ UndoInv /\ RecoveringInv)'
    BY <1>6, <2>1, <2>4, <2>5, <2>6 DEF Install, IdleInv, RestoringInv, StageInv, UndoInv,
       RecoveringInv, SetTo, OwnJournal, TypeOK
  <2> QED
    BY <2>7, <2>9, <2>10
<1>7. CASE CommitRestore
  <2>1. /\ op \in Ops /\ work[op] # NoWork /\ owner \in Users /\ owner # NoOne
        /\ archive \in Versions /\ folder[owner] = archive /\ op <= ops
    BY <1>7 DEF CommitRestore, RestoringInv, StageInv, TypeOK, AccountInv
  <2>2. Marked(op)' /\ \A o \in Ops : Marked(o) => Marked(o)'
    <3>1. [op |-> op, user |-> owner] \in markers' /\ markers \subseteq markers' /\ op' = op
      BY <1>7 DEF CommitRestore
    <3> QED
      BY <3>1
  <2>3. \A o \in Ops : ~Pending(o)'
    BY <1>7, <2>2 DEF CommitRestore, RestoringInv
  <2>4. Whole(owner)'
    BY <1>7, <2>1 DEF CommitRestore, Whole
  <2>5. (AccountInv /\ WorkInv /\ OnlyOne)'
    BY <1>7, <2>1, <2>3 DEF CommitRestore, AccountInv, WorkInv, OnlyOne
  <2>6. FolderInv'
    BY <1>7, <2>3, <2>4 DEF CommitRestore, FolderInv
  <2>7. (IdleInv /\ RestoringInv /\ StageInv /\ UndoInv /\ RecoveringInv)'
    BY <1>7, <2>1, <2>2, <2>3 DEF CommitRestore, IdleInv, RestoringInv, StageInv, UndoInv,
       RecoveringInv
  <2> QED
    BY <2>5, <2>6, <2>7
<1> QED
  BY <1>1, <1>2, <1>3, <1>4, <1>5, <1>6, <1>7

-----------------------------------------------------------------------------
(* Lemma: undoing the files of a restore, piece by piece, leaves it        *)
(* restorable, and once nothing is left to undo the folder is whole.       *)
LEMMA UndoRestores ==
  ASSUME TypeOK, NEW o \in Ops, NEW u \in Users, work[o] # NoWork,
         work[o].journal \in Journal, Restorable(o, u), UNCHANGED data,
         UndoFiles(o, u, work[o].journal.had)
  PROVE  /\ SetTo(o, work[o].journal, work[o].staging, work'[o].retired)
         /\ \A t \in Users \ {u} : folder'[t] = folder[t]
         /\ Restorable(o, u)'
<1>1. /\ work[o] \in Workspace /\ Absent \in Tree /\ Absent # Torn /\ Torn \notin Tree
      /\ folder \in [Users -> Tree \cup {Torn}]
  BY VersionsAssumption DEF TypeOK, Tree
<1>2. ~RolledBack(o, u, work[o].journal.had)
  BY DEF UndoFiles
<1>3. CASE folder[u] # Absent /\ UNCHANGED work
  <2>1. \A t \in Users \ {u} : folder'[t] = folder[t]
    BY <1>1, <1>3 DEF UndoFiles
  <2>2. SetTo(o, work[o].journal, work[o].staging, work'[o].retired)
    BY <1>3 DEF SetTo, OthersStay
  <2>3. ~Clean(o, u)
    BY <1>2, <1>3 DEF Clean, RolledBack
  <2>4. Restorable(o, u)'
    BY <1>3, <2>3 DEF Restorable, Shown
  <2> QED
    BY <2>1, <2>2, <2>4
<1>4. CASE folder[u] = Absent /\ work' = [work EXCEPT ![o].retired = Absent]
  <2>1. folder' = [folder EXCEPT ![u] = work[o].retired]
    BY <1>4, <1>1 DEF UndoFiles
  <2>2. SetTo(o, work[o].journal, work[o].staging, Absent)
    BY <1>1, <1>4, PartSet
  <2>3. work[o].retired # Absent /\ work[o].retired \in Tree
    BY <1>1, <1>2, <1>4 DEF RolledBack, Workspace
  <2>4. folder'[u] = work[o].retired /\ \A t \in Users \ {u} : folder'[t] = folder[t]
    BY <1>1, <2>1
  <2>5. work[o].journal.had /\ Shown(work[o].retired) = Shown(data)
    BY <2>3 DEF Restorable, Clean
  <2>6. Clean(o, u)'
    BY <1>1, <2>2, <2>3, <2>4, <2>5 DEF Clean, Whole, Shown, SetTo
  <2> QED
    BY <2>2, <2>4, <2>6 DEF Restorable, SetTo
<1> QED
  BY <1>3, <1>4 DEF UndoFiles

(* Lemma: a restore with nothing left to undo.                             *)
LEMMA RolledBackIsClean ==
  ASSUME NEW o \in Ops, NEW u \in Users, Restorable(o, u),
         RolledBack(o, u, work[o].journal.had)
  PROVE  Clean(o, u)
BY VersionsAssumption DEF Restorable, RolledBack, Clean, Whole, Shown

(* Lemma: the end of a restore, in every way it can end, keeps the         *)
(* invariant.  Only here it matters which workspaces may remain: that of a *)
(* restore that failed must not, or the next start would undo it again.    *)
LEMMA EndingKeeps ==
  ASSUME RestoreInv, TypeOK', CleanupMayFail \subseteq {"committed"},
         Raise \/ Undo \/ UndoFails \/ DropRetired \/ CleanUp \/ EndRestore
  PROVE  RestoreInv'
<1> USE VersionsAssumption, BoundsAssumption, MarksAssumption
<1> USE DEF RestoreInv, PcInv, db, disk, local, counts, Before, Restoring, Recovering,
            Marked, Journaled, Pending, Undone
<1>1. CASE Raise
  <2>1. (AccountInv /\ WorkInv /\ OnlyOne /\ FolderInv)'
    BY <1>1 DEF Raise, AccountInv, WorkInv, OnlyOne, FolderInv, Restorable, Clean, Whole, Shown
  <2>2. (IdleInv /\ RestoringInv /\ StageInv /\ RecoveringInv)'
    BY <1>1 DEF Raise, IdleInv, RestoringInv, StageInv, RecoveringInv
  <2>3. UndoInv'
    BY <1>1 DEF Raise, RestoringInv, StageInv, UndoInv, Staged, OwnJournal
  <2> QED
    BY <2>1, <2>2, <2>3
<1>2. CASE Undo
  <2>1. /\ op \in Ops /\ work[op] # NoWork /\ ~Marked(op) /\ op <= ops
        /\ owner \in Users /\ owner # NoOne /\ owner = born
        /\ \A o \in Ops : Pending(o) => o = op
    BY <1>2 DEF Undo, RestoringInv, TypeOK, AccountInv
  <2>2. CASE OwnJournal /\ UndoFiles(op, owner, had) /\ UNCHANGED pc
    <3>1. work[op].journal \in Journal /\ Undone(op, owner) /\ work[op].journal.had = had
      BY <2>1, <2>2 DEF OwnJournal, TypeOK, Journal
    <3>2. Restorable(op, owner) /\ data' = data
      BY <1>2, <2>1, <3>1 DEF FolderInv, Undo
    <3>3. /\ SetTo(op, work[op].journal, work[op].staging, work'[op].retired)
          /\ \A t \in Users \ {owner} : folder'[t] = folder[t]
          /\ Restorable(op, owner)'
      <4>1. PICK o \in Ops, u \in Users : o = op /\ u = owner
        BY <2>1
      <4>2. UndoFiles(o, u, work[o].journal.had)
        BY <2>2, <3>1, <4>1 DEF UndoFiles, RolledBack
      <4>3. TypeOK /\ owner' = owner /\ op' = op
        BY <1>2 DEF Undo
      <4>4. /\ SetTo(o, work[o].journal, work[o].staging, work'[o].retired)
            /\ \A t \in Users \ {u} : folder'[t] = folder[t]
            /\ Restorable(o, u)'
        <5> HIDE DEF RestoreInv
        <5> QED
          BY <2>1, <3>1, <3>2, <4>1, <4>2, <4>3, UndoRestores
      <4> QED
        BY <4>1, <4>3, <4>4 DEF SetTo, OthersStay, Restorable, Clean, Whole, Shown
    <3>4. \A o \in Ops : Pending(o)' <=> o = op
      BY <1>2, <2>1, <3>1, <3>3 DEF Undo, SetTo, OthersStay
    <3>5. AccountInv'
      BY <1>2, <2>1, <3>3 DEF Undo, AccountInv, Users, TypeOK
    <3>6. WorkInv' /\ OnlyOne'
      BY <1>2, <2>1, <3>1, <3>3, <3>4 DEF Undo, WorkInv, OnlyOne, SetTo, OthersStay, Ops, TypeOK
    <3>7. FolderInv'
      BY <1>2, <2>1, <3>1, <3>3, <3>4 DEF Undo, FolderInv, SetTo
    <3>8. PcInv'
      BY <1>2, <2>1, <2>2, <3>3, <3>4 DEF Undo, IdleInv, RestoringInv, StageInv, UndoInv,
         RecoveringInv, OwnJournal, SetTo
    <3> QED
      BY <3>5, <3>6, <3>7, <3>8
  <2>3. CASE ~OwnJournal \/ ~UNCHANGED pc
    <3>1. RolledBack(op, owner, had) /\ pc' = "discarding" /\ UNCHANGED disk
      BY <1>2, <2>3 DEF Undo, UndoInv, UndoFiles, RolledBack
    <3>2. Pending(op) => work[op].journal.user = owner /\ work[op].journal.had = had
      BY <1>2 DEF Undo, UndoInv, OwnJournal
    <3>3. Pending(op) => Clean(op, owner)
      BY <2>1, <3>1, <3>2, RolledBackIsClean DEF FolderInv
    <3>4. (AccountInv /\ WorkInv /\ OnlyOne /\ FolderInv)'
      BY <1>2, <3>1 DEF Undo, AccountInv, WorkInv, OnlyOne, FolderInv, Restorable, Clean, Whole, Shown
    <3>5. PcInv'
      BY <1>2, <2>1, <3>1, <3>2, <3>3 DEF Undo, IdleInv, RestoringInv, StageInv, UndoInv,
         RecoveringInv, Clean, Whole, Shown
    <3> QED
      BY <3>4, <3>5
  <2> QED
    BY <1>2, <2>2, <2>3 DEF Undo
<1>3. CASE UndoFails
  <2>1. (AccountInv /\ WorkInv /\ OnlyOne /\ FolderInv)'
    BY <1>3 DEF UndoFails, AccountInv, WorkInv, OnlyOne, FolderInv, Restorable, Clean, Whole, Shown
  <2>2. (RestoringInv /\ StageInv /\ UndoInv /\ RecoveringInv)'
    BY <1>3 DEF UndoFails, RestoringInv, StageInv, UndoInv, RecoveringInv
  <2>3. IdleInv'
    BY <1>3 DEF UndoFails, IdleInv, RestoringInv
  <2> QED
    BY <2>1, <2>2, <2>3
<1>4. CASE DropRetired
  <2>1. op \in Ops /\ work[op] # NoWork /\ Marked(op) /\ Absent \in Tree
    BY <1>4 DEF DropRetired, RestoringInv, Tree
  <2>2. SetTo(op, work[op].journal, work[op].staging, work'[op].retired)
    BY <1>4, <2>1, PartSet DEF DropRetired, SetTo, OthersStay
  <2>3. \A o \in Ops : ~Pending(o) /\ ~Pending(o)'
    BY <1>4, <2>1, <2>2 DEF DropRetired, RestoringInv, SetTo, OthersStay
  <2>4. (AccountInv /\ WorkInv /\ OnlyOne)'
    BY <1>4, <2>1, <2>2, <2>3 DEF DropRetired, AccountInv, WorkInv, OnlyOne, SetTo, OthersStay
  <2>5. FolderInv'
    BY <1>4, <2>3 DEF DropRetired, FolderInv, Whole, Shown
  <2>6. PcInv'
    BY <1>4, <2>1, <2>2, <2>3 DEF DropRetired, IdleInv, RestoringInv, StageInv, UndoInv,
       RecoveringInv, SetTo
  <2> QED
    BY <2>4, <2>5, <2>6
<1>5. CASE CleanUp
  <2>1. /\ op \in Ops /\ op <= ops /\ owner # NoOne /\ owner \in Users
        /\ \A o \in Ops : Pending(o) => o = op
    BY <1>5 DEF CleanUp, RestoringInv, TypeOK
  <2>2. /\ OthersStay(op) /\ folder' = folder
        /\ work'[op] # NoWork =>
             /\ work[op] # NoWork
             /\ work'[op].journal \in {work[op].journal, NoJournal}
             /\ work'[op].staging \in {work[op].staging, Absent}
             /\ work'[op].retired \in {work[op].retired, Absent}
    BY <1>5, <2>1, RemoveSets DEF CleanUp
  <2>3. /\ \A o \in Ops : Pending(o)' => o = op /\ Pending(o)
        /\ \A o \in Ops : Journaled(o)' => Journaled(o) /\ work'[o].journal = work[o].journal
    BY <1>5, <2>1, <2>2 DEF CleanUp, OthersStay
  <2>4. Pending(op) => work[op].journal.user = owner /\ Clean(op, owner)
    BY <1>5 DEF CleanUp, UndoInv, RestoringInv
  <2>5. (AccountInv /\ WorkInv /\ OnlyOne)'
    BY <1>5, <2>1, <2>2, <2>3 DEF CleanUp, AccountInv, WorkInv, OnlyOne, OthersStay, Ops, TypeOK
  <2>6. Whole(owner)'
    BY <1>5, <2>1, <2>2, <2>4 DEF CleanUp, FolderInv, Clean, Whole, Shown
  <2>7. Pending(op)' => Clean(op, owner)' /\ work'[op].journal.user = owner
    BY <1>5, <2>1, <2>2, <2>3, <2>4, <2>6 DEF CleanUp, Clean
  <2>8. FolderInv'
    BY <1>5, <2>1, <2>3, <2>6, <2>7 DEF CleanUp, FolderInv, Restorable
  <2>9. PcInv'
    BY <1>5, <2>1, <2>3, <2>7 DEF CleanUp, IdleInv, RestoringInv, StageInv, UndoInv, RecoveringInv
  <2> QED
    BY <2>5, <2>8, <2>9
<1>6. CASE EndRestore
  <2>1. op \in Ops /\ \A o \in Ops : Pending(o) => o = op
    BY <1>6 DEF EndRestore, RestoringInv
  <2>2. /\ markers' \subseteq markers
        /\ \A m \in markers : m.op # op => m \in markers'
        /\ work[op] # NoWork => Marked(op) /\ markers' = markers
    BY <1>6 DEF EndRestore, MayLeave
  <2>3. \A o \in Ops : ~Pending(o) /\ ~Pending(o)'
    BY <1>6, <2>1, <2>2 DEF EndRestore
  <2>4. (AccountInv /\ WorkInv /\ OnlyOne)'
    BY <1>6, <2>2, <2>3 DEF EndRestore, AccountInv, WorkInv, OnlyOne
  <2>5. FolderInv'
    BY <1>6, <2>3 DEF EndRestore, FolderInv, Whole, Shown
  <2>6. PcInv'
    BY <1>6, <2>3 DEF EndRestore, IdleInv, RestoringInv, StageInv, UndoInv, RecoveringInv
  <2> QED
    BY <2>4, <2>5, <2>6
<1> QED
  BY <1>1, <1>2, <1>3, <1>4, <1>5, <1>6

-----------------------------------------------------------------------------
(* Lemma: the other requests, and a crash, keep the invariant.             *)
LEMMA RequestKeeps ==
  ASSUME RestoreInv, TypeOK',
         \/ (\E v \in Versions : Write(v)) \/ DeleteAccount \/ PurgeFolder \/ SignUp
         \/ Crash
  PROVE  RestoreInv'
<1> USE VersionsAssumption, BoundsAssumption, MarksAssumption
<1> USE DEF RestoreInv, PcInv, db, disk, local, counts, Before, Restoring, Recovering,
            Marked, Journaled, Pending, Undone
<1>1. ASSUME NEW v \in Versions, Write(v) PROVE RestoreInv'
  <2>1. /\ owner \in Users /\ owner # NoOne /\ owner = born
        /\ \A o \in Ops : ~Pending(o) /\ ~Pending(o)'
    BY <1>1 DEF Write, IdleInv, TypeOK, AccountInv
  <2>2. /\ folder'[owner] = IF v \in Bare /\ folder[owner] = Absent THEN Absent ELSE v
        /\ \A u \in Users \ {owner} : folder'[u] = folder[u]
    BY <1>1, <2>1 DEF Write, TypeOK
  <2>3. Whole(owner)'
    BY <1>1, <2>2 DEF Write, Whole, Shown
  <2>4. AccountInv'
    BY <1>1, <2>1, <2>2 DEF Write, AccountInv, Users, TypeOK
  <2>5. (WorkInv /\ OnlyOne /\ FolderInv)'
    BY <1>1, <2>1, <2>3 DEF Write, WorkInv, OnlyOne, FolderInv
  <2>6. PcInv'
    BY <1>1, <2>1 DEF Write, IdleInv, RestoringInv, StageInv, UndoInv, RecoveringInv
  <2> QED
    BY <2>4, <2>5, <2>6
<1>2. CASE DeleteAccount
  <2>1. (AccountInv /\ WorkInv /\ OnlyOne /\ FolderInv)'
    BY <1>2 DEF DeleteAccount, AccountInv, WorkInv, OnlyOne, FolderInv
  <2>2. PcInv'
    BY <1>2 DEF DeleteAccount, IdleInv, RestoringInv, StageInv, UndoInv, RecoveringInv
  <2> QED
    BY <2>1, <2>2
<1>3. CASE PurgeFolder
  <2>1. owner = NoOne
    BY <1>3 DEF PurgeFolder, AccountInv
  <2>2. \A u \in Users : u = owner \/ u > born => folder'[u] = folder[u]
    BY <1>3, <2>1 DEF PurgeFolder, TypeOK, Users
  <2>3. AccountInv'
    BY <1>3, <2>2 DEF PurgeFolder, AccountInv
  <2>4. (WorkInv /\ OnlyOne)'
    BY <1>3 DEF PurgeFolder, WorkInv, OnlyOne
  <2>5. FolderInv'
    BY <1>3, <2>2 DEF PurgeFolder, FolderInv, Restorable, Clean, Whole, Shown, TypeOK
  <2>6. PcInv'
    BY <1>3 DEF PurgeFolder, IdleInv, RestoringInv, StageInv, UndoInv, RecoveringInv
  <2> QED
    BY <2>3, <2>4, <2>5, <2>6
<1>4. CASE SignUp
  <2>1. /\ born' = born + 1 /\ owner' = born + 1 /\ owner' \in Users /\ owner' # NoOne
        /\ folder'[owner'] = Absent
        /\ data' = Blank /\ Blank \in Bare
    BY <1>4 DEF SignUp, AccountInv, TypeOK, Users
  <2>2. \A o \in Ops : Journaled(o) => work[o].journal.user # born + 1
    BY DEF WorkInv, TypeOK, Users, Workspace, Journal
  <2>3. AccountInv'
    BY <1>4, <2>1 DEF SignUp, AccountInv, TypeOK, Users
  <2>4. (WorkInv /\ OnlyOne)'
    BY <1>4, <2>1 DEF SignUp, WorkInv, OnlyOne, TypeOK, Users, Workspace, Journal
  <2>5. FolderInv'
    BY <1>4, <2>1, <2>2 DEF SignUp, FolderInv, Whole, Shown
  <2>6. PcInv'
    BY <1>4 DEF SignUp, IdleInv, RestoringInv, StageInv, UndoInv, RecoveringInv
  <2> QED
    BY <2>3, <2>4, <2>5, <2>6
<1>5. CASE Crash
  <2>1. (AccountInv /\ WorkInv /\ OnlyOne /\ FolderInv)'
    BY <1>5 DEF Crash, AccountInv, WorkInv, OnlyOne, FolderInv, Restorable, Clean, Whole, Shown
  <2>2. PcInv'
    BY <1>5 DEF Crash, IdleInv, RestoringInv, StageInv, UndoInv, RecoveringInv
  <2> QED
    BY <2>1, <2>2
<1> QED
  BY <1>1, <1>2, <1>3, <1>4, <1>5

(* Lemma: every step of a start keeps the invariant.                       *)
LEMMA StartKeeps ==
  ASSUME RestoreInv, TypeOK', StartStep
  PROVE  RestoreInv'
<1> USE VersionsAssumption, BoundsAssumption, MarksAssumption
<1> USE DEF RestoreInv, PcInv, db, disk, local, counts, Before, Restoring, Recovering,
            Marked, Journaled, Pending, Undone
<1>1. CASE Start
  <2>1. (AccountInv /\ WorkInv /\ OnlyOne /\ FolderInv)'
    BY <1>1 DEF Start, AccountInv, WorkInv, OnlyOne, FolderInv, Restorable, Clean, Whole, Shown
  <2>2. PcInv'
    BY <1>1 DEF Start, IdleInv, RestoringInv, StageInv, UndoInv, RecoveringInv
  <2> QED
    BY <2>1, <2>2
<1>2. ASSUME NEW o \in Ops, Examine(o) PROVE RestoreInv'
  <2>0. pc' # "purging"
    BY <1>2 DEF Examine, SkipUnjournaled, StartFails, TakeJournal
  <2>1. (AccountInv /\ WorkInv /\ OnlyOne /\ FolderInv)'
    BY <1>2, <2>0 DEF Examine, AccountInv, WorkInv, OnlyOne, FolderInv, Restorable, Clean, Whole, Shown
  <2>2. CASE SkipUnjournaled(o)
    BY <1>2, <2>1, <2>2 DEF Examine, SkipUnjournaled, IdleInv, RestoringInv, StageInv, UndoInv,
       RecoveringInv
  <2>3. CASE StartFails(o)
    BY <1>2, <2>1, <2>3 DEF Examine, StartFails, IdleInv, RestoringInv, StageInv, UndoInv,
       RecoveringInv
  <2>4. CASE TakeJournal(o)
    <3>1. /\ pc' \in {"finishing", "undoing"} /\ op' = o /\ todo' = todo
          /\ pc' = "undoing" => owner = work[o].journal.user /\ ~Marked(o)
          /\ pc' = "finishing" => owner # work[o].journal.user \/ Marked(o)
          /\ work[o].journal \in Journal
      BY <2>4 DEF TakeJournal
    <3>2. pc' = "undoing" => owner # NoOne
      BY <3>1 DEF Journal, Users
    <3>3. work[o] # NoWork
      BY <1>2 DEF Examine, RecoveringInv
    <3> QED
      BY <1>2, <2>1, <3>1, <3>2, <3>3 DEF Examine, IdleInv, RestoringInv, StageInv, UndoInv, RecoveringInv
  <2> QED
    BY <1>2, <2>2, <2>3, <2>4 DEF Examine
<1>3. CASE RecoverFiles
  <2>1. /\ op \in Ops /\ work[op] # NoWork /\ work[op].journal \in Journal /\ Pending(op)
        /\ owner # NoOne /\ owner \in Users /\ work[op].journal.user = owner /\ data' = data
        /\ owner = born
    BY <1>3 DEF RecoverFiles, RecoveringInv, TypeOK, AccountInv
  <2>2. /\ \A o \in Ops : Pending(o) => o = op
        /\ Restorable(op, owner)
    BY <2>1 DEF OnlyOne, FolderInv
  <2>3. CASE UndoFiles(op, owner, work[op].journal.had) /\ UNCHANGED pc
    <3>1. /\ SetTo(op, work[op].journal, work[op].staging, work'[op].retired)
          /\ \A t \in Users \ {owner} : folder'[t] = folder[t]
          /\ Restorable(op, owner)'
      <4>1. PICK o \in Ops, u \in Users : o = op /\ u = owner
        BY <2>1
      <4>2. UndoFiles(o, u, work[o].journal.had)
        BY <2>3, <4>1 DEF UndoFiles, RolledBack
      <4>3. TypeOK /\ owner' = owner /\ op' = op
        BY <1>3 DEF RecoverFiles
      <4>4. /\ SetTo(o, work[o].journal, work[o].staging, work'[o].retired)
            /\ \A t \in Users \ {u} : folder'[t] = folder[t]
            /\ Restorable(o, u)'
        <5> HIDE DEF RestoreInv
        <5> QED
          BY <2>1, <2>2, <4>1, <4>2, <4>3, UndoRestores
      <4> QED
        BY <4>1, <4>3, <4>4 DEF SetTo, OthersStay, Restorable, Clean, Whole, Shown
    <3>2. \A o \in Ops : Pending(o)' <=> o = op
      BY <1>3, <2>1, <2>2, <3>1 DEF RecoverFiles, SetTo, OthersStay
    <3>3. AccountInv'
      BY <1>3, <2>1, <3>1 DEF RecoverFiles, AccountInv, Users, TypeOK
    <3>4. WorkInv' /\ OnlyOne'
      BY <1>3, <2>1, <3>1, <3>2 DEF RecoverFiles, WorkInv, OnlyOne, SetTo, OthersStay, Ops, TypeOK
    <3>5. FolderInv'
      BY <1>3, <2>1, <3>1, <3>2 DEF RecoverFiles, FolderInv, SetTo
    <3>6. PcInv'
      <4>1. \A o \in todo : work'[o] = NoWork => work[o] = NoWork
        BY <3>1 DEF SetTo, OthersStay, TypeOK
      <4> QED
        BY <1>3, <2>1, <2>3, <3>1, <3>2, <4>1 DEF RecoverFiles, IdleInv, RestoringInv, StageInv,
           UndoInv, RecoveringInv, SetTo
    <3> QED
      BY <3>3, <3>4, <3>5, <3>6
  <2>4. CASE RolledBack(op, owner, work[op].journal.had) /\ pc' = "finishing" /\ UNCHANGED disk
    <3>1. Clean(op, owner)
      BY <2>1, <2>2, <2>4, RolledBackIsClean
    <3>2. (AccountInv /\ WorkInv /\ OnlyOne /\ FolderInv)'
      BY <1>3, <2>4 DEF RecoverFiles, AccountInv, WorkInv, OnlyOne, FolderInv, Restorable, Clean,
         Whole, Shown
    <3>3. PcInv'
      BY <1>3, <2>1, <2>4, <3>1 DEF RecoverFiles, IdleInv, RestoringInv, StageInv, UndoInv,
         RecoveringInv, Clean, Whole, Shown
    <3> QED
      BY <3>2, <3>3
  <2> QED
    BY <1>3, <2>1, <2>3, <2>4 DEF RecoverFiles
<1>4. CASE RemoveWork
  <2>1. /\ op \in Ops /\ owner # NoOne => owner \in Users
        /\ op \in Ops
        /\ Undone(op, owner) /\ owner # NoOne => Clean(op, owner)
    BY <1>4 DEF RemoveWork, RecoveringInv, TypeOK
  <2>2. CASE Remove(op) /\ UNCHANGED <<pc, todo, markers>>
    <3>1. /\ OthersStay(op) /\ folder' = folder
          /\ work'[op] # NoWork =>
               /\ work[op] # NoWork
               /\ work'[op].journal \in {work[op].journal, NoJournal}
               /\ work'[op].staging \in {work[op].staging, Absent}
               /\ work'[op].retired \in {work[op].retired, Absent}
      BY <2>1, <2>2, RemoveSets
    <3>2. /\ \A o \in Ops : Journaled(o)' => Journaled(o) /\ work'[o].journal = work[o].journal
          /\ \A o \in Ops : Pending(o)' => Pending(o)
          /\ \A o \in Ops \ {op} : Pending(o)' <=> Pending(o)
      BY <2>1, <2>2, <3>1 DEF OthersStay
    <3>3. (AccountInv /\ WorkInv /\ OnlyOne)'
      BY <1>4, <2>1, <2>2, <3>1, <3>2 DEF RemoveWork, AccountInv, WorkInv, OnlyOne, OthersStay
    <3>4. ASSUME owner # NoOne, Undone(op, owner)
          PROVE  Whole(owner)' /\ (Undone(op, owner)' => Clean(op, owner)')
      BY <1>4, <2>1, <2>2, <3>1, <3>2, <3>4 DEF RemoveWork, Clean, Whole, Shown
    <3>5. FolderInv'
      <4>1. CASE owner # NoOne /\ Undone(op, owner)
        BY <1>4, <2>1, <2>2, <3>1, <3>2, <3>4, <4>1 DEF RemoveWork, FolderInv, Restorable, OnlyOne
      <4>2. CASE owner # NoOne /\ ~Undone(op, owner)
        <5>1. \A o \in Ops : Undone(o, owner)' => Undone(o, owner) /\ o # op /\ work'[o] = work[o]
          BY <1>4, <2>1, <2>2, <3>1, <3>2, <4>2 DEF RemoveWork, OthersStay
        <5>2. \A o \in Ops : Undone(o, owner) => Undone(o, owner)'
          BY <1>4, <2>1, <2>2, <3>1, <3>2, <4>2 DEF RemoveWork, OthersStay
        <5> QED
          BY <1>4, <3>1, <4>2, <5>1, <5>2 DEF RemoveWork, FolderInv, Restorable, Clean, Whole, Shown
      <4>3. CASE owner = NoOne
        BY <1>4, <4>3 DEF RemoveWork, FolderInv
      <4> QED
        BY <4>1, <4>2, <4>3
    <3>6. PcInv'
      <4>1. \A o \in todo : work'[o] = NoWork => work[o] = NoWork \/ o = op
        BY <3>1 DEF OthersStay, TypeOK
      <4>2. pc = "dropping" /\ work'[op] # NoWork => work'[op].journal = NoJournal
        BY <1>4, <3>1 DEF RecoveringInv
      <4> QED
        BY <1>4, <2>1, <2>2, <3>1, <3>2, <3>4, <4>1, <4>2 DEF RemoveWork, IdleInv, RestoringInv,
           StageInv, UndoInv, RecoveringInv
    <3> QED
      BY <3>3, <3>5, <3>6
  <2>3. CASE ~Remove(op)
    <3>1. /\ work[op] = NoWork /\ UNCHANGED disk
          /\ markers' \subseteq markers /\ \A m \in markers : m.op # op => m \in markers'
          /\ todo' = todo \ {op} /\ pc' = "recovering"
      BY <1>4, <2>3 DEF RemoveWork
    <3>2. \A o \in Ops : Pending(o)' <=> Pending(o)
      BY <3>1
    <3>3. \A o \in Ops : Undone(o, owner)' <=> Undone(o, owner)
      BY <1>4, <3>1 DEF RemoveWork
    <3>4. (AccountInv /\ WorkInv /\ OnlyOne)'
      BY <1>4, <3>1, <3>2 DEF RemoveWork, AccountInv, WorkInv, OnlyOne
    <3>5. FolderInv'
      BY <1>4, <3>1, <3>3 DEF RemoveWork, FolderInv, Restorable, Clean, Whole, Shown
    <3>6. PcInv'
      BY <1>4, <3>1, <3>2 DEF RemoveWork, IdleInv, RestoringInv, StageInv, UndoInv, RecoveringInv
    <3> QED
      BY <3>4, <3>5, <3>6
  <2>4. Remove(op) => work[op] # NoWork
    BY DEF Remove
  <2> QED
    BY <1>4, <2>2, <2>3, <2>4 DEF RemoveWork
<1>5. CASE EndStart
  <2>1. \A o \in Ops : ~Pending(o) /\ ~Pending(o)'
    BY <1>5 DEF EndStart, RecoveringInv
  <2>2. (AccountInv /\ WorkInv /\ OnlyOne)'
    BY <1>5, <2>1 DEF EndStart, AccountInv, WorkInv, OnlyOne
  <2>3. FolderInv'
    BY <1>5, <2>1 DEF EndStart, FolderInv, Whole, Shown
  <2>4. PcInv'
    BY <1>5, <2>1 DEF EndStart, IdleInv, RestoringInv, StageInv, UndoInv, RecoveringInv
  <2> QED
    BY <2>2, <2>3, <2>4
<1> QED
  BY <1>1, <1>2, <1>3, <1>4, <1>5 DEF StartStep

-----------------------------------------------------------------------------
(* Theorem: RestoreInv holds in every state, whatever is interrupted, as   *)
(* long as the workspace of a restore that failed can be removed.          *)
THEOREM RestoreInvariant ==
  CleanupMayFail \subseteq {"committed"} => (Spec => []RestoreInv)
<1> SUFFICES ASSUME CleanupMayFail \subseteq {"committed"} PROVE Spec => []RestoreInv
  OBVIOUS
<1>1. Init => RestoreInv
  BY InitInv
<1>2. RestoreInv /\ [Next]_vars => RestoreInv'
  <2> SUFFICES ASSUME RestoreInv, [Next]_vars PROVE RestoreInv'
    OBVIOUS
  <2>1. TypeOK'
    BY TypeStep
  <2>2. CASE UNCHANGED vars
    BY <2>1, <2>2 DEF vars, db, disk, local, counts, RestoreInv, AccountInv, WorkInv, OnlyOne, FolderInv,
       PcInv, IdleInv, RestoringInv, StageInv, UndoInv, RecoveringInv, Restorable, Clean, Whole,
       Shown, Marked, Journaled, Pending, Undone, Staged, OwnJournal
  <2>3. CASE Next
    <3>1. CASE Refused
      BY <2>2, <3>1 DEF Refused
    <3> QED
      BY <2>1, <2>3, <3>1, RestoreKeeps, EndingKeeps, RequestKeeps, StartKeeps
         DEF Next, RestoreStep, Request
  <2> QED
    BY <2>2, <2>3
<1> QED
  BY <1>1, <1>2, PTL DEF Spec

(* Theorem: the types of all variables, if workspaces of failed restores   *)
(* are removed.                                                            *)
THEOREM RestoreTypes == CleanupMayFail \subseteq {"committed"} => (Spec => []TypeOK)
<1> SUFFICES ASSUME CleanupMayFail \subseteq {"committed"} PROVE Spec => []TypeOK
  OBVIOUS
<1>1. RestoreInv => TypeOK
  BY DEF RestoreInv
<1> QED
  BY <1>1, RestoreInvariant, PTL

(* Theorem: if the workspaces of failed restores are removed (which        *)
(* restores.py:141 leaves to chance), whoever is served is served the      *)
(* attachments of the records - after any crashes, exceptions, failed      *)
(* rollbacks, half-finished recoveries and leftovers of committed restores.*)
THEOREM ServedIsWhole ==
  CleanupMayFail \subseteq {"committed"} => (Spec => []ServedAccountIsWhole)
<1> SUFFICES ASSUME CleanupMayFail \subseteq {"committed"} PROVE Spec => []ServedAccountIsWhole
  OBVIOUS
<1>1. RestoreInv => ServedAccountIsWhole
  BY DEF RestoreInv, PcInv, IdleInv, FolderInv, ServedAccountIsWhole, Serving, Whole, Undone, Pending,
     Journaled
<1> QED
  BY <1>1, RestoreInvariant, PTL

-----------------------------------------------------------------------------
(* The refinement.                                                         *)

(* Lemma: what the next start would leave shows the records.               *)
LEMMA SettledShown ==
  ASSUME RestoreInv, owner # NoOne
  PROVE  data \in Versions /\ Shown(Settled(owner)) = Atomic!FilesOf(data)
<1> USE VersionsAssumption
<1> DEFINE undone == {o \in Ops : Undone(o, owner)}
<1>1. data \in Versions /\ Atomic!FilesOf(data) = Shown(data)
  BY DEF RestoreInv, AccountInv, Atomic!FilesOf, Shown
<1>2. CASE undone = {}
  BY <1>1, <1>2 DEF Settled, RestoreInv, FolderInv, Whole
<1>3. ASSUME NEW o \in undone PROVE Shown(Settled(owner)) = Shown(data)
  <2>1. undone = {o}
    BY <1>3 DEF RestoreInv, OnlyOne, Undone, Pending, Journaled
  <2>2. Restorable(o, owner)
    BY <1>3 DEF RestoreInv, FolderInv
  <2> QED
    BY <2>1, <2>2 DEF Settled, Restorable, Clean, Whole, Shown
<1> QED
  BY <1>1, <1>2, <1>3

(* What the owner sees, and that it follows from the records: every step   *)
(* that leaves the account's row and records alone is then a stutter.      *)
Seen == IF owner = NoOne THEN Nothing ELSE Shown(Settled(owner))
Recorded ==
    /\ owner = NoOne => Seen = Nothing /\ data = Nothing
    /\ owner # NoOne => Seen = Atomic!FilesOf(data) /\ data \in Versions

(* Lemma: what the owner sees always follows from the records.             *)
LEMMA SeenIsRecorded == RestoreInv => Recorded
BY SettledShown DEF RestoreInv, AccountInv, Seen, Recorded

(* Theorem: a restore is atomic whatever interrupts it - RestoreRecovery   *)
(* implements AtomicRestore -, if the workspaces of failed ones are        *)
(* removed.                                                                *)
THEOREM RestoreIsAtomic ==
  CleanupMayFail \subseteq {"committed"} => (Spec => ImplementsAtomicRestore)
<1> SUFFICES ASSUME CleanupMayFail \subseteq {"committed"} PROVE Spec => ImplementsAtomicRestore
  OBVIOUS
<1>1. Init => Atomic!AInit
  <2> SUFFICES ASSUME Init PROVE Atomic!AInit
    OBVIOUS
  <2>1. owner \in Nat /\ owner # NoOne
    BY VersionsAssumption DEF Init
  <2> QED
    BY <2>1, InitInv, SettledShown DEF Atomic!AInit
<1>2. RestoreInv /\ Recorded /\ Recorded' /\ [Next]_vars => [Atomic!ANext]_(Atomic!avars)
  <2> SUFFICES ASSUME RestoreInv, Recorded, Recorded', [Next]_vars
               PROVE  Atomic!ANext \/ UNCHANGED <<owner, data, Seen>>
    BY DEF Atomic!avars, Seen
  <2>1. CASE UNCHANGED <<owner, data>>
    BY <2>1 DEF Recorded
  <2>2. CASE owner # NoOne /\ owner' = owner /\ data' \in Versions
    BY <2>2 DEF Recorded, Atomic!ANext, Atomic!Become, Atomic!FilesOf, Seen
  <2>3. CASE owner # NoOne /\ owner' = NoOne
    BY <2>3 DEF Recorded, Atomic!ANext, Atomic!Delete, Seen
  <2>4. CASE owner = NoOne /\ owner' \in Nat /\ data' = Blank
    BY <2>4, VersionsAssumption DEF Recorded, Atomic!ANext, Atomic!SignUp, Atomic!FilesOf, Seen
  <2>5. \/ UNCHANGED <<owner, data>>
        \/ owner # NoOne /\ owner' = owner /\ data' \in Versions
        \/ owner # NoOne /\ owner' = NoOne
        \/ owner = NoOne /\ owner' \in Nat /\ data' = Blank
    <3>1. CASE CommitRestore
      BY <3>1 DEF CommitRestore, RestoreInv, PcInv, RestoringInv, StageInv, Restoring, Before
    <3>2. ASSUME NEW v \in Versions, Write(v) PROVE owner # NoOne /\ owner' = owner /\ data' \in Versions
      BY <3>2 DEF Write
    <3>3. CASE DeleteAccount
      BY <3>3 DEF DeleteAccount
    <3>4. CASE SignUp
      BY <3>4 DEF SignUp, RestoreInv, TypeOK, Users
    <3>5. CASE ~(CommitRestore \/ (\E v \in Versions : Write(v)) \/ DeleteAccount \/ SignUp)
      BY <3>5 DEF Next, RestoreStep, StartStep, Request, Stage, OpenJournal, WriteJournal, Retire,
         Install, DropRetired, Undo, CleanUp, EndRestore, PurgeFolder, Raise, UndoFails, BeginRestore,
         Refused, Crash, Start, Examine, RecoverFiles, RemoveWork, EndStart, vars, db
    <3> QED
      BY <3>1, <3>2, <3>3, <3>4, <3>5
  <2> QED
    BY <2>1, <2>2, <2>3, <2>4, <2>5
<1> QED
  BY <1>1, <1>2, SeenIsRecorded, RestoreInvariant, PTL DEF Spec, ImplementsAtomicRestore, Atomic!ASpec
=============================================================================
