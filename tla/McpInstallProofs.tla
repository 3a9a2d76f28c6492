-------------------------- MODULE McpInstallProofs --------------------------
(* McpInstall keeps its promises for any number of installers, entries,    *)
(* attempts, external edits and faults.                                    *)
EXTENDS McpInstall, TLAPS

\* The installer between the creation of the lock and its removal is the one
\* the lock names.
Held == \A p \in Procs : pc[p] \in Holding => lock \in LockFile /\ lock.owner = p

\* From its backup on, an installer's backup is the document it read.
Kept ==
    \A p \in Procs : pc[p] \in {"recheck", "replace", "sync"} =>
        read[p] = None \/ backup = read[p]

IInv == TypeOK /\ Held /\ Kept

LEMMA Initially == Init => IInv
  BY InstallConstants DEF Init, IInv, TypeOK, Held, Kept, Document, Target, PCs, Holding

\* Two installers are never both past the creation of the lock.
LEMMA Alone ==
    ASSUME Held, NEW p \in Procs, NEW q \in Procs, pc[p] \in Holding, pc[q] \in Holding
    PROVE  p = q
  <1>1. lock.owner = p /\ lock.owner = q
    BY DEF Held
  <1> QED
    BY <1>1

\* The other installers see nothing of a move but the shared files.
LEMMA Moves ==
    ASSUME TypeOK, NEW p \in Procs, NEW where \in PCs, Goto(p, where)
    PROVE  /\ pc' \in [Procs -> PCs]
           /\ pc'[p] = where
           /\ \A q \in Procs : q # p => pc'[q] = pc[q]
           /\ result' = result
  BY DEF TypeOK, Goto

LEMMA Forgets ==
    ASSUME TypeOK, NEW p \in Procs, Forget(p)
    PROVE  /\ pc' \in [Procs -> PCs]
           /\ pc'[p] = "idle"
           /\ entry' \in [Procs -> Entries \union {None}]
           /\ read' \in [Procs -> Document \union {None}]
           /\ attempt' \in [Procs -> 1..Attempts]
           /\ \A q \in Procs : q # p => pc'[q] = pc[q] /\ read'[q] = read[q]
  <1>1. 1 \in 1..Attempts
    BY InstallConstants
  <1> QED
    BY <1>1 DEF TypeOK, Forget, PCs

LEMMA ReturnsFromBackup ==
    ASSUME IInv, NEW p \in Procs, NEW code \in Results, Return(p, code),
           target' = target, edits' = edits, faults' \in 0..MaxFaults,
           backup' = backup \/ (pc[p] \in Holding /\ backup' \in Document)
    PROVE  IInv'
  <1>1. Forget(p) /\ TypeOK
    BY DEF Return, IInv
  <1>2. TypeOK'
    BY <1>1, Forgets DEF TypeOK, Return
  <1>3. ASSUME NEW q \in Procs, pc'[q] \in Holding
        PROVE  q # p /\ pc'[q] = pc[q] /\ lock' = lock
    <2>1. q # p /\ pc'[q] = pc[q] /\ pc[q] \in Holding
      BY <1>1, <1>3, Forgets DEF Holding
    <2>2. pc[p] \notin Holding
      BY <2>1, Alone DEF IInv
    <2> QED
      BY <2>1, <2>2 DEF Return
  <1>4. Held'
    BY <1>3 DEF Held, IInv
  <1>5. Kept'
    BY <1>1, <1>3, Forgets, Alone DEF Kept, IInv, Holding
  <1> QED
    BY <1>2, <1>4, <1>5 DEF IInv

LEMMA Returns ==
    ASSUME IInv, NEW p \in Procs, NEW code \in Results, Return(p, code),
           UNCHANGED <<target, backup, edits>>, faults' \in 0..MaxFaults
    PROVE  IInv'
  <1>1. target' = target /\ edits' = edits /\ backup' = backup
    OBVIOUS
  <1> QED
    BY <1>1, ReturnsFromBackup

LEMMA BeginPreserves ==
    ASSUME IInv, NEW p \in Procs, Begin(p)
    PROVE  IInv'
  <1> USE DEF IInv
  <1>1. /\ pc' \in [Procs -> PCs] /\ pc'[p] = "locking"
        /\ \A q \in Procs : q # p => pc'[q] = pc[q]
    BY DEF Begin, TypeOK, PCs
  <1>2. TypeOK'
    BY <1>1 DEF Begin, TypeOK, files
  <1>3. Held' /\ Kept'
    BY <1>1 DEF Begin, Held, Kept, files, Holding
  <1> QED
    BY <1>2, <1>3

LEMMA CreateLockPreserves ==
    ASSUME IInv, NEW p \in Procs, CreateLock(p)
    PROVE  IInv'
  <1> USE DEF IInv
  <1>1. CASE lock = None /\ lock' = [owner |-> p, token |-> FALSE] /\ Goto(p, "token")
    <2>1. "token" \in PCs
      BY DEF PCs, Holding
    <2>2. lock' \in LockFile
      BY <1>1 DEF LockFile
    <2>3. TypeOK'
      BY <1>1, <2>1, <2>2, Moves DEF CreateLock, TypeOK
    <2>4. \A q \in Procs : pc[q] \notin Holding
      <3>1. ASSUME NEW q \in Procs, pc[q] \in Holding PROVE FALSE
        BY <1>1, <3>1, InstallConstants DEF Held
      <3> QED
        BY <3>1
    <2>5. \A q \in Procs : q # p => pc'[q] \notin Holding
      BY <1>1, <2>1, <2>4, Moves
    <2>6. pc'[p] = "token"
      BY <1>1, <2>1, Moves
    <2>7. Held' /\ Kept'
      <3>1. lock' \in LockFile /\ lock'.owner = p
        BY <1>1, <2>2
      <3> QED
        BY <2>5, <2>6, <3>1 DEF Held, Kept, Holding
    <2> QED
      BY <2>3, <2>7
  <1>2. CASE lock # None /\ Goto(p, "look") /\ UNCHANGED lock
    <2>1. "look" \in PCs
      BY DEF PCs
    <2>2. TypeOK'
      BY <1>2, <2>1, Moves DEF CreateLock, TypeOK
    <2>3. Held' /\ Kept'
      BY <1>2, <2>1, Moves DEF CreateLock, Held, Kept, Holding
    <2> QED
      BY <2>2, <2>3
  <1> QED
    BY <1>1, <1>2 DEF CreateLock

LEMMA LookAtLockPreserves ==
    ASSUME IInv, NEW p \in Procs, LookAtLock(p)
    PROVE  IInv'
  <1>1. /\ UNCHANGED <<target, backup, edits>> /\ faults' \in 0..MaxFaults
        /\ TypeOK /\ Held /\ Kept
    BY DEF LookAtLock, IInv, TypeOK
  <1>2. CASE Return(p, "would_block") \/ Return(p, "still_updating")
    BY <1>1, <1>2, Returns DEF Results
  <1>3. CASE /\ attempt[p] < Attempts
             /\ attempt' = [attempt EXCEPT ![p] = @ + 1]
             /\ Goto(p, "locking")
             /\ UNCHANGED <<lock, entry, read>>
    <2>1. "locking" \in PCs
      BY DEF PCs
    <2>2. attempt[p] + 1 \in 1..Attempts
      BY <1>1, <1>3, InstallConstants DEF TypeOK
    <2>3. TypeOK'
      BY <1>1, <1>3, <2>1, <2>2, Moves DEF TypeOK
    <2>4. Held' /\ Kept'
      BY <1>1, <1>3, <2>1, Moves DEF Held, Kept, Holding
    <2> QED
      BY <2>3, <2>4 DEF IInv
  <1> QED
    BY <1>2, <1>3 DEF LookAtLock

LEMMA WriteTokenPreserves ==
    ASSUME IInv, NEW p \in Procs, WriteToken(p)
    PROVE  IInv'
  <1> USE DEF IInv
  <1>1. "read" \in PCs /\ "token" \in Holding /\ "read" \in Holding
    BY DEF PCs, Holding
  <1>2. lock' \in LockFile
    BY DEF WriteToken, LockFile
  <1>3. TypeOK'
    BY <1>1, <1>2, Moves DEF WriteToken, TypeOK
  <1>4. \A q \in Procs : q # p => pc[q] \notin Holding
    BY <1>1, Alone DEF WriteToken
  <1>5. lock'.owner = p
    BY DEF WriteToken
  <1>6. /\ pc'[p] = "read" /\ read' = read /\ backup' = backup
        /\ \A q \in Procs : q # p => pc'[q] = pc[q]
    BY <1>1, Moves DEF WriteToken
  <1>7. Held'
    BY <1>2, <1>4, <1>5, <1>6 DEF Held
  <1>8. Kept'
    BY <1>6 DEF Kept
  <1> QED
    BY <1>3, <1>7, <1>8

LEMMA ReadTargetPreserves ==
    ASSUME IInv, NEW p \in Procs, ReadTarget(p)
    PROVE  IInv'
  <1>1. /\ UNCHANGED <<target, backup, edits>> /\ faults' \in 0..MaxFaults
        /\ TypeOK /\ Held /\ Kept
    BY DEF ReadTarget, IInv, TypeOK
  <1>2. CASE Return(p, "malformed")
    BY <1>1, <1>2, Returns DEF Results
  <1>3. CASE /\ target # Malformed
             /\ read' = [read EXCEPT ![p] = target]
             /\ Goto(p, "stage")
             /\ UNCHANGED <<lock, entry, attempt>>
    <2>1. "stage" \in PCs /\ pc[p] = "read"
      BY DEF PCs, Holding, ReadTarget
    <2>2. target \in Document \union {None}
      BY <1>1, <1>3 DEF TypeOK, Target
    <2>3. TypeOK'
      BY <1>1, <1>3, <2>1, <2>2, Moves DEF TypeOK
    <2>4. \A q \in Procs : q # p => read'[q] = read[q]
      BY <1>1, <1>3 DEF TypeOK
    <2>5. Held' /\ Kept'
      BY <1>1, <1>3, <2>1, <2>4, Moves DEF Held, Kept, Holding
    <2> QED
      BY <2>3, <2>5 DEF IInv
  <1> QED
    BY <1>2, <1>3 DEF ReadTarget

LEMMA StageMergePreserves ==
    ASSUME IInv, NEW p \in Procs, StageMerge(p)
    PROVE  IInv'
  <1> USE DEF IInv
  <1>1. "backup" \in PCs
    BY DEF PCs, Holding
  <1>2. TypeOK'
    BY <1>1, Moves DEF StageMerge, TypeOK, files
  <1>3. Held' /\ Kept'
    BY <1>1, Moves DEF StageMerge, Held, Kept, Holding, files
  <1> QED
    BY <1>2, <1>3

LEMMA WriteBackupPreserves ==
    ASSUME IInv, NEW p \in Procs, WriteBackup(p)
    PROVE  IInv'
  <1> USE DEF IInv
  <1>1. "recheck" \in PCs /\ pc[p] \in Holding /\ pc[p] = "backup"
    BY DEF PCs, Holding, WriteBackup
  <1>2. TypeOK'
    BY <1>1, Moves DEF WriteBackup, TypeOK
  <1>3. \A q \in Procs : q # p => pc[q] \notin Holding
    BY <1>1, Alone
  <1>4. Held' /\ Kept'
    BY <1>1, <1>3, Moves DEF WriteBackup, Held, Kept, Holding
  <1> QED
    BY <1>2, <1>4

LEMMA RecheckPreserves ==
    ASSUME IInv, NEW p \in Procs, Recheck(p)
    PROVE  IInv'
  <1>1. /\ UNCHANGED <<target, backup, edits>> /\ faults' \in 0..MaxFaults
        /\ TypeOK /\ Held /\ Kept
    BY DEF Recheck, IInv, TypeOK
  <1>2. CASE Return(p, "changed")
    BY <1>1, <1>2, Returns DEF Results
  <1>3. CASE Goto(p, "replace") /\ UNCHANGED <<lock, entry, read, attempt>>
    <2>1. "replace" \in PCs /\ pc[p] = "recheck"
      BY DEF PCs, Holding, Recheck
    <2>2. TypeOK'
      BY <1>1, <1>3, <2>1, Moves DEF TypeOK
    <2>3. Held' /\ Kept'
      BY <1>1, <1>3, <2>1, Moves DEF Held, Kept, Holding
    <2> QED
      BY <2>2, <2>3 DEF IInv
  <1> QED
    BY <1>2, <1>3 DEF Recheck

\* A merge of a document is a document.
LEMMA MergeType ==
    ASSUME NEW document \in Document \union {None}, NEW e \in Entries \union {None}
    PROVE  Merge(document, e) \in Document
  <1>1. CASE document = None
    BY <1>1 DEF Merge, Document
  <1>2. CASE document # None
    <2>1. document \in Document
      BY <1>2
    <2>2. [document EXCEPT !.ds = e] \in Document
      BY <2>1 DEF Document
    <2> QED
      BY <1>2, <2>2 DEF Merge
  <1> QED
    BY <1>1, <1>2

LEMMA ReplacePreserves ==
    ASSUME IInv, NEW p \in Procs, Replace(p)
    PROVE  IInv'
  <1> USE DEF IInv
  <1>1. "sync" \in PCs /\ pc[p] = "replace"
    BY DEF PCs, Holding, Replace
  <1>2. target' \in Target
    BY MergeType DEF Replace, TypeOK, Target
  <1>3. TypeOK'
    BY <1>1, <1>2, Moves DEF Replace, TypeOK
  <1>4. Held' /\ Kept'
    BY <1>1, Moves DEF Replace, Held, Kept, Holding
  <1> QED
    BY <1>3, <1>4

LEMMA SyncParentPreserves ==
    ASSUME IInv, NEW p \in Procs, SyncParent(p)
    PROVE  IInv'
  <1>1. faults' \in 0..MaxFaults
    BY DEF SyncParent, IInv, TypeOK
  <1> QED
    BY <1>1, Returns DEF SyncParent, Results

LEMMA OperationFailsPreserves ==
    ASSUME IInv, NEW p \in Procs, OperationFails(p)
    PROVE  IInv'
  <1>1. faults' \in 0..MaxFaults
    BY InstallConstants DEF OperationFails, Fault, IInv, TypeOK
  <1>2. read[p] \in Document \union {None}
    BY DEF IInv, TypeOK
  <1>3. backup' = backup \/ (pc[p] \in Holding /\ backup' \in Document)
    <2>1. CASE UNCHANGED backup
      BY <2>1
    <2>2. CASE pc[p] = "backup" /\ read[p] # None /\ backup' = read[p]
      BY <1>2, <2>2 DEF Holding
    <2> QED
      BY <2>1, <2>2 DEF OperationFails
  <1>4. "unwritable" \in Results /\ target' = target /\ edits' = edits /\ Return(p, "unwritable")
    BY DEF OperationFails, Results
  <1> QED
    BY <1>1, <1>3, <1>4, ReturnsFromBackup

LEMMA DiePreserves ==
    ASSUME IInv, NEW p \in Procs, Die(p)
    PROVE  IInv'
  <1> USE DEF IInv
  <1>1. faults' \in 0..MaxFaults
    BY InstallConstants DEF Die, Fault, TypeOK
  <1>2. TypeOK'
    BY <1>1, Forgets DEF Die, TypeOK, files, Results
  <1>3. Held' /\ Kept'
    BY Forgets DEF Die, Held, Kept, files, Holding
  <1> QED
    BY <1>2, <1>3

LEMMA RemoveLeftoverPreserves ==
    ASSUME IInv, RemoveLeftover
    PROVE  IInv'
  <1> USE DEF IInv
  <1>1. \A q \in Procs : pc[q] \notin Holding
    BY DEF RemoveLeftover, Held
  <1>2. TypeOK'
    BY DEF RemoveLeftover, TypeOK
  <1>3. Held' /\ Kept'
    BY <1>1 DEF RemoveLeftover, Held, Kept
  <1> QED
    BY <1>2, <1>3

LEMMA EditPreserves ==
    ASSUME IInv, Edit
    PROVE  IInv'
  <1> USE DEF IInv
  <1>1. ASSUME NEW o \in SUBSET Others
        PROVE  [ds |-> IF target \in Document THEN target.ds ELSE None,
                others |-> o] \in Target
    BY DEF Document, Target
  <1>2. target' \in Target
    BY <1>1 DEF Edit, Target
  <1>3. edits' \in 0..MaxEdits
    BY InstallConstants DEF Edit, TypeOK
  <1>4. TypeOK'
    BY <1>2, <1>3 DEF Edit, TypeOK
  <1>5. Held' /\ Kept'
    BY DEF Edit, Held, Kept
  <1> QED
    BY <1>4, <1>5

LEMMA StepPreserves ==
    ASSUME IInv, [Next]_vars
    PROVE  IInv'
  <1>1. CASE UNCHANGED vars
    BY <1>1 DEF vars, files, IInv, TypeOK, Held, Kept
  <1>2. CASE Edit \/ RemoveLeftover
    BY <1>2, EditPreserves, RemoveLeftoverPreserves
  <1>3. ASSUME NEW p \in Procs, Begin(p) \/ Step(p) \/ Die(p) PROVE IInv'
    BY <1>3, BeginPreserves, DiePreserves, CreateLockPreserves, LookAtLockPreserves,
       WriteTokenPreserves, ReadTargetPreserves, StageMergePreserves,
       WriteBackupPreserves, RecheckPreserves, ReplacePreserves,
       SyncParentPreserves, OperationFailsPreserves DEF Step
  <1> QED
    BY <1>1, <1>2, <1>3 DEF Next

LEMMA Inductive == Spec => []IInv
  BY Initially, StepPreserves, PTL DEF Spec

-----------------------------------------------------------------------------

\* Every variable of an installer keeps its type.
THEOREM TypeCorrect == Spec => []TypeOK
  <1>1. IInv => TypeOK
    BY DEF IInv
  <1> QED
    BY <1>1, Inductive, PTL

\* No installer replaces the target while another works from what it read
\* earlier, with any number of installers and whatever locks were left behind.
THEOREM InstallsTakeTurns == Spec => InstallsSerialize
  <1> DEFINE Turn == \A p \in Procs : Replaces(p) =>
                        \A q \in Procs \ {p} :
                            pc[q] \notin {"stage", "backup", "recheck", "replace"}
  <1>1. IInv => Turn
    BY Alone DEF IInv, Replaces, Holding
  <1>2. IInv /\ [Next]_vars => [Turn]_vars
    BY <1>1
  <1> HIDE DEF Turn
  <1>3. Spec => [][Turn]_vars
    BY <1>2, Inductive, PTL DEF Spec
  <1> QED
    BY <1>3 DEF Turn, InstallsSerialize

\* Only `SyncParent` reports an install done.
LEMMA InstalledBySync ==
    ASSUME IInv, [Next]_vars, NEW p \in Procs, Ends(p, "installed")
    PROVE  pc[p] = "sync" /\ backup' = backup
  <1> USE DEF IInv
  <1>1. result[p] = None /\ result'[p] = "installed" /\ result \in [Procs -> Results \union {None}]
    BY DEF Ends, TypeOK
  <1>2. PICK q \in Procs : Begin(q) \/ Step(q) \/ Die(q)
    BY <1>1, InstallConstants DEF Next, vars, Edit, RemoveLeftover, Results
  <1>3. ASSUME NEW code \in Results, Return(q, code)
        PROVE  q = p /\ code = "installed"
    BY <1>1, <1>3, InstallConstants DEF Return, Results
  <1>4. ASSUME Die(q) PROVE FALSE
    BY <1>1, <1>4, InstallConstants DEF Die, Results
  <1>5. ASSUME Begin(q) PROVE FALSE
    BY <1>1, <1>5, InstallConstants DEF Begin, Results
  <1>6. ASSUME UNCHANGED result PROVE FALSE
    BY <1>1, <1>6, InstallConstants DEF Results
  <1>7. ASSUME CreateLock(q) \/ WriteToken(q) \/ StageMerge(q) \/ WriteBackup(q) \/ Replace(q)
        PROVE  FALSE
    BY <1>6, <1>7 DEF CreateLock, WriteToken, StageMerge, WriteBackup, Replace, Goto
  <1>8. ASSUME LookAtLock(q) \/ ReadTarget(q) \/ Recheck(q) \/ OperationFails(q)
        PROVE  FALSE
    BY <1>3, <1>6, <1>8 DEF LookAtLock, ReadTarget, Recheck, OperationFails, Goto, Results
  <1>9. SyncParent(q)
    BY <1>2, <1>4, <1>5, <1>7, <1>8 DEF Step
  <1> QED
    BY <1>3, <1>9 DEF SyncParent, Results

\* After every successful install over a document the backup is that document.
THEOREM BackupsArePredecessors == Spec => BackupIsPredecessor
  <1> DEFINE Backed == \A p \in Procs : Ends(p, "installed") /\ read[p] # None
                            => backup' = read[p]
  <1>1. IInv /\ [Next]_vars => [Backed]_vars
    BY InstalledBySync DEF IInv, Kept
  <1> HIDE DEF Backed
  <1>2. Spec => [][Backed]_vars
    BY <1>1, Inductive, PTL DEF Spec
  <1> QED
    BY <1>2 DEF Backed, BackupIsPredecessor

-----------------------------------------------------------------------------
(* Installs end: what liveness rests on besides fairness.                  *)

\* How many more steps an install may take, whatever the others do.
StepsLeft(p) ==
    CASE pc[p] = "idle"    -> 0
      [] pc[p] = "locking" -> 2 * (Attempts - attempt[p]) + 9
      [] pc[p] = "look"    -> 2 * (Attempts - attempt[p]) + 8
      [] pc[p] = "token"   -> 7
      [] pc[p] = "read"    -> 6
      [] pc[p] = "stage"   -> 5
      [] pc[p] = "backup"  -> 4
      [] pc[p] = "recheck" -> 3
      [] pc[p] = "replace" -> 2
      [] pc[p] = "sync"    -> 1

Bounded == \A p \in Procs : StepsLeft(p) \in 0..(2 * Attempts + 7)

\* A step of its own brings an install nearer to its end, and nothing others do
\* takes it further away.
RunsDown(p) ==
    /\ Step(p) \/ Die(p) => StepsLeft(p)' < StepsLeft(p)
    /\ pc[p] # "idle" => StepsLeft(p)' <= StepsLeft(p)

LEMMA LeftIsBounded == TypeOK => Bounded
  <1> SUFFICES ASSUME TypeOK, NEW p \in Procs
               PROVE  StepsLeft(p) \in 0..(2 * Attempts + 7)
    BY DEF Bounded
  <1>1. attempt[p] \in 1..Attempts /\ Attempts \in Nat /\ pc[p] \in PCs
    BY InstallConstants DEF TypeOK
  <1>2. CASE pc[p] = "locking"
    BY <1>1, <1>2 DEF StepsLeft
  <1>3. CASE pc[p] = "look"
    BY <1>1, <1>3 DEF StepsLeft
  <1>4. CASE pc[p] \notin {"locking", "look"}
    <2>1. StepsLeft(p) \in 0..7
      BY <1>1, <1>4 DEF StepsLeft, PCs, Holding
    <2> QED
      BY <1>1, <2>1
  <1> QED
    BY <1>2, <1>3, <1>4

\* An install that returns or dies has nothing left to do.
LEMMA ForgottenIsDone ==
    ASSUME TypeOK, NEW p \in Procs, pc[p] # "idle", Forget(p)
    PROVE  StepsLeft(p)' < StepsLeft(p)
  <1>1. pc'[p] = "idle" /\ pc[p] \in PCs /\ attempt[p] \in 1..Attempts /\ Attempts \in Nat
    BY Forgets, InstallConstants DEF TypeOK
  <1>2. StepsLeft(p)' = 0
    BY <1>1 DEF StepsLeft
  <1> QED
    BY <1>1, <1>2 DEF StepsLeft, PCs, Holding

LEMMA OwnStepsCount ==
    ASSUME TypeOK, NEW p \in Procs, Step(p) \/ Die(p)
    PROVE  StepsLeft(p)' < StepsLeft(p)
  <1>1. /\ attempt[p] \in 1..Attempts /\ Attempts \in Nat
        /\ pc \in [Procs -> PCs] /\ attempt \in [Procs -> 1..Attempts]
    BY InstallConstants DEF TypeOK
  <1>2. ASSUME NEW code, Return(p, code), pc[p] # "idle"
        PROVE  StepsLeft(p)' < StepsLeft(p)
    BY <1>2, ForgottenIsDone DEF Return
  <1>3. CASE CreateLock(p)
    BY <1>1, <1>3 DEF CreateLock, Goto, StepsLeft
  <1>4. CASE LookAtLock(p)
    <2>1. CASE pc'[p] = "locking" /\ attempt'[p] = attempt[p] + 1
      BY <1>1, <1>4, <2>1 DEF LookAtLock, StepsLeft
    <2> QED
      BY <1>1, <1>2, <1>4, <2>1 DEF LookAtLock, Goto
  <1>5. CASE WriteToken(p) \/ StageMerge(p) \/ WriteBackup(p) \/ Replace(p)
    BY <1>1, <1>5 DEF WriteToken, StageMerge, WriteBackup, Replace, Goto, StepsLeft
  <1>6. CASE ReadTarget(p)
    <2>1. CASE pc[p] = "read" /\ pc'[p] = "stage"
      BY <2>1 DEF StepsLeft
    <2> QED
      BY <1>1, <1>2, <1>6, <2>1 DEF ReadTarget, Goto
  <1>7. CASE Recheck(p)
    <2>1. CASE pc[p] = "recheck" /\ pc'[p] = "replace"
      BY <2>1 DEF StepsLeft
    <2> QED
      BY <1>1, <1>2, <1>7, <2>1 DEF Recheck, Goto
  <1>8. CASE SyncParent(p) \/ OperationFails(p)
    BY <1>2, <1>8 DEF SyncParent, OperationFails
  <1>9. CASE Die(p)
    BY <1>9, ForgottenIsDone DEF Die
  <1> QED
    BY <1>3, <1>4, <1>5, <1>6, <1>7, <1>8, <1>9 DEF Step

\* What belongs to an install is not touched by the steps of others.
LEMMA OthersCountNothing ==
    ASSUME TypeOK, NEW p \in Procs, [Next]_vars, ~Step(p), ~Die(p), pc[p] # "idle"
    PROVE  StepsLeft(p)' = StepsLeft(p)
  <1>1. SUFFICES pc'[p] = pc[p] /\ attempt'[p] = attempt[p]
    BY <1>1 DEF StepsLeft
  <1>2. CASE UNCHANGED vars \/ Edit \/ RemoveLeftover
    BY <1>2 DEF vars, Edit, RemoveLeftover
  <1>3. ASSUME NEW q \in Procs, Begin(q) \/ Step(q) \/ Die(q)
        PROVE  pc'[p] = pc[p] /\ attempt'[p] = attempt[p]
    <2>1. q # p
      BY <1>3 DEF Begin
    <2>2. ASSUME Forget(q) PROVE pc'[p] = pc[p] /\ attempt'[p] = attempt[p]
      BY <2>1, <2>2 DEF Forget, TypeOK
    <2>3. CASE Begin(q) \/ Die(q)
      BY <2>1, <2>2, <2>3 DEF Begin, Die, TypeOK
    <2>4. CASE CreateLock(q) \/ LookAtLock(q) \/ WriteToken(q) \/ ReadTarget(q) \/ StageMerge(q)
      BY <2>1, <2>2, <2>4 DEF CreateLock, LookAtLock, WriteToken, ReadTarget, StageMerge,
         Goto, Return, TypeOK
    <2>5. CASE WriteBackup(q) \/ Recheck(q) \/ Replace(q) \/ SyncParent(q) \/ OperationFails(q)
      BY <2>1, <2>2, <2>5 DEF WriteBackup, Recheck, Replace, SyncParent, OperationFails,
         Goto, Return, TypeOK
    <2> QED
      BY <1>3, <2>3, <2>4, <2>5 DEF Step
  <1> QED
    BY <1>2, <1>3 DEF Next

\* No install goes round in circles: whatever editors, left-over locks and other
\* installers do, it ends after at most 2 * Attempts + 7 steps of its own.
THEOREM InstallsRunDown == Spec => []Bounded /\ [][\A p \in Procs : RunsDown(p)]_vars
  <1>1. IInv => Bounded
    BY LeftIsBounded DEF IInv
  <1>2. IInv /\ [Next]_vars => [\A p \in Procs : RunsDown(p)]_vars
    <2> SUFFICES ASSUME IInv, [Next]_vars, NEW p \in Procs
                 PROVE  RunsDown(p)
      OBVIOUS
    <2>1. StepsLeft(p) \in Nat /\ StepsLeft(p)' \in Nat
      <3>1. TypeOK /\ TypeOK'
        BY StepPreserves DEF IInv
      <3>2. TypeOK' => Bounded'
        BY LeftIsBounded, PTL
      <3>3. Bounded /\ Bounded'
        BY <3>1, <3>2, LeftIsBounded
      <3> QED
        BY <3>3, InstallConstants DEF Bounded
    <2>2. CASE Step(p) \/ Die(p)
      BY <2>1, <2>2, OwnStepsCount DEF RunsDown, IInv
    <2>3. CASE ~Step(p) /\ ~Die(p)
      BY <2>1, <2>3, OthersCountNothing DEF RunsDown, IInv
    <2> QED
      BY <2>2, <2>3
  <1> QED
    BY <1>1, <1>2, Inductive, PTL DEF Spec
=============================================================================
