------------------------ MODULE ProtectedStoreProofs ------------------------
(* ProtectedStore keeps its promise for any number of processes, versions  *)
(* and faults.                                                             *)
EXTENDS ProtectedStore, TLAPS

LEMMA Initially == Init => IInv
  <1> SUFFICES ASSUME Init PROVE IInv
    OBVIOUS
  <1> USE StoreConstants
  <1>1. file \in File /\ file.version = 0 /\ file.bytes \in {"gone", "whole"}
    BY DEF Init, File
  <1>2. TypeOK
    BY <1>1 DEF Init, TypeOK, PCs
  <1>3. Leased /\ StageOwned /\ NeverTorn /\ Ahead
    BY <1>1 DEF Init, Leased, StageOwned, NeverTorn, Ahead
  <1> QED
    BY <1>2, <1>3 DEF IInv
\* While one process is past `acquire`, every other is idle.
LEMMA Alone ==
    ASSUME IInv, NEW p \in Procs, pc[p] # "idle", NEW q \in Procs, q # p
    PROVE  pc[q] = "idle"
  BY DEF IInv, Leased

\* The shape of pc after a process moves, and of the values in the files.
LEMMA Moves ==
    ASSUME TypeOK, NEW p \in Procs, NEW where \in PCs, Goto(p, where)
    PROVE  /\ pc' \in [Procs -> PCs]
           /\ pc'[p] = where
           /\ \A q \in Procs : q # p => pc'[q] = pc[q]
  BY DEF TypeOK, Goto

LEMMA Leaves ==
    ASSUME TypeOK, NEW p \in Procs, Leave(p)
    PROVE  /\ pc' \in [Procs -> PCs]
           /\ pc'[p] = "idle"
           /\ \A q \in Procs : q # p => pc'[q] = pc[q]
           /\ seen' \in [Procs -> File \union {None}]
           /\ lock' \in Procs \union {None}
           /\ lock # p => lock' = lock
  <1>1. "idle" \in PCs
    BY DEF PCs
  <1> QED
    BY <1>1, Moves DEF Leave, TypeOK

LEMMA AcquirePreserves ==
    ASSUME IInv, NEW p \in Procs, Acquire(p)
    PROVE  IInv'
  <1> USE StoreConstants DEF IInv
  <1>1. \A q \in Procs : q # p => pc[q] = "idle"
    BY Alone DEF Acquire, Leased
  <1>2. TypeOK'
    BY Leaves, Moves DEF Acquire, TypeOK, disk, PCs, File, Stage, Fault
  <1>3. Leased'
    BY <1>1, Leaves, Moves DEF Acquire, Leased, TypeOK, PCs
  <1>4. StageOwned'
    BY <1>1, Leaves, Moves DEF Acquire, StageOwned, TypeOK, disk, PCs, File, Stage
  <1>5. NeverTorn'
    BY DEF Acquire, NeverTorn, StageOwned, disk
  <1>6. Ahead'
    BY <1>1, Leaves, Moves DEF Acquire, Ahead, StageOwned, TypeOK, disk, PCs, File, Stage
  <1> QED
    BY <1>2, <1>3, <1>4, <1>5, <1>6

LEMMA CleanupStagePreserves ==
    ASSUME IInv, NEW p \in Procs, CleanupStage(p)
    PROVE  IInv'
  <1> USE StoreConstants DEF IInv
  <1>1. \A q \in Procs : q # p => pc[q] = "idle"
    BY Alone DEF CleanupStage
  <1>2. TypeOK'
    BY Leaves, Moves DEF CleanupStage, TypeOK, disk, PCs, File, Stage, Fault
  <1>3. Leased'
    BY <1>1, Leaves, Moves DEF CleanupStage, Leased, TypeOK, PCs
  <1>4. StageOwned'
    BY <1>1, Leaves, Moves DEF CleanupStage, StageOwned, TypeOK, disk, PCs, File, Stage
  <1>5. NeverTorn'
    BY DEF CleanupStage, NeverTorn, StageOwned, disk
  <1>6. Ahead'
    BY <1>1, Leaves, Moves DEF CleanupStage, Ahead, StageOwned, TypeOK, disk, PCs, File, Stage
  <1> QED
    BY <1>2, <1>3, <1>4, <1>5, <1>6

LEMMA LoadPreserves ==
    ASSUME IInv, NEW p \in Procs, Load(p)
    PROVE  IInv'
  <1> USE StoreConstants DEF IInv
  <1>1. \A q \in Procs : q # p => pc[q] = "idle"
    BY Alone DEF Load
  <1>2. TypeOK'
    BY Leaves, Moves DEF Load, TypeOK, disk, PCs, File, Stage, Fault
  <1>3. Leased'
    BY <1>1, Leaves, Moves DEF Load, Leased, TypeOK, PCs
  <1>4. StageOwned'
    BY <1>1, Leaves, Moves DEF Load, StageOwned, TypeOK, disk, PCs, File, Stage
  <1>5. NeverTorn'
    BY DEF Load, NeverTorn, StageOwned, disk
  <1>6. Ahead'
    BY <1>1, Leaves, Moves DEF Load, Ahead, StageOwned, TypeOK, disk, PCs, File, Stage
  <1> QED
    BY <1>2, <1>3, <1>4, <1>5, <1>6

LEMMA ReleasePreserves ==
    ASSUME IInv, NEW p \in Procs, Release(p)
    PROVE  IInv'
  <1> USE StoreConstants DEF IInv
  <1>1. \A q \in Procs : q # p => pc[q] = "idle"
    BY Alone DEF Release
  <1>2. TypeOK'
    BY Leaves, Moves DEF Release, TypeOK, disk, PCs, File, Stage, Fault
  <1>3. Leased'
    BY <1>1, Leaves, Moves DEF Release, Leased, TypeOK, PCs
  <1>4. StageOwned'
    BY <1>1, Leaves, Moves DEF Release, StageOwned, TypeOK, disk, PCs, File, Stage
  <1>5. NeverTorn'
    BY DEF Release, NeverTorn, StageOwned, disk
  <1>6. Ahead'
    BY <1>1, Leaves, Moves DEF Release, Ahead, StageOwned, TypeOK, disk, PCs, File, Stage
  <1> QED
    BY <1>2, <1>3, <1>4, <1>5, <1>6

LEMMA OverwritePreserves ==
    ASSUME IInv, NEW p \in Procs, Overwrite(p)
    PROVE  IInv'
  <1> USE StoreConstants DEF IInv
  <1>1. \A q \in Procs : q # p => pc[q] = "idle"
    BY Alone DEF Overwrite
  <1>2. TypeOK'
    BY Leaves, Moves DEF Overwrite, TypeOK, disk, PCs, File, Stage, Fault
  <1>3. Leased'
    BY <1>1, Leaves, Moves DEF Overwrite, Leased, TypeOK, PCs
  <1>4. StageOwned'
    BY <1>1, Leaves, Moves DEF Overwrite, StageOwned, TypeOK, disk, PCs, File, Stage
  <1>5. NeverTorn'
    BY DEF Overwrite, NeverTorn, StageOwned, disk
  <1>6. Ahead'
    BY <1>1, Leaves, Moves DEF Overwrite, Ahead, StageOwned, TypeOK, disk, PCs, File, Stage
  <1> QED
    BY <1>2, <1>3, <1>4, <1>5, <1>6

LEMMA CompareAndSwapPreserves ==
    ASSUME IInv, NEW p \in Procs, CompareAndSwap(p)
    PROVE  IInv'
  <1> USE StoreConstants DEF IInv
  <1>1. \A q \in Procs : q # p => pc[q] = "idle"
    BY Alone DEF CompareAndSwap
  <1>2. TypeOK'
    BY Leaves, Moves DEF CompareAndSwap, TypeOK, disk, PCs, File, Stage, Fault
  <1>3. Leased'
    BY <1>1, Leaves, Moves DEF CompareAndSwap, Leased, TypeOK, PCs
  <1>4. StageOwned'
    BY <1>1, Leaves, Moves DEF CompareAndSwap, StageOwned, TypeOK, disk, PCs, File, Stage
  <1>5. NeverTorn'
    BY DEF CompareAndSwap, NeverTorn, StageOwned, disk
  <1>6. Ahead'
    BY <1>1, Leaves, Moves DEF CompareAndSwap, Ahead, StageOwned, TypeOK, disk, PCs, File, Stage
  <1> QED
    BY <1>2, <1>3, <1>4, <1>5, <1>6

LEMMA CreateStagePreserves ==
    ASSUME IInv, NEW p \in Procs, CreateStage(p)
    PROVE  IInv'
  <1> USE StoreConstants DEF IInv
  <1>1. \A q \in Procs : q # p => pc[q] = "idle"
    BY Alone DEF CreateStage
  <1>2. Leased'
    BY <1>1, Leaves, Moves DEF CreateStage, Leased, TypeOK, PCs
  <1>3. NeverTorn'
    BY DEF CreateStage, NeverTorn, StageOwned, disk
  <1>4. Ahead'
    BY <1>1, Leaves, Moves DEF CreateStage, Ahead, StageOwned, TypeOK, disk, PCs, File, Stage
  <1>5. CASE stage = None
    <2>1. file.version + 1 \in 0..MaxVersions
      BY DEF CreateStage, Ahead, TypeOK, File
    <2>2. stage' = [version |-> file.version + 1, bytes |-> "torn"]
      BY <1>5 DEF CreateStage
    <2>3. stage' \in Stage
      BY <2>1, <2>2 DEF Stage
    <2>4. stage' # None /\ stage'.version = file.version + 1
      BY <2>2, <2>3
    <2>5. Goto(p, "write") /\ UNCHANGED <<file, synced, lock, acks, faults, seen>>
      BY <1>5 DEF CreateStage
    <2>6. TypeOK'
      BY <2>3, <2>5, Moves DEF TypeOK, PCs
    <2>7. StageOwned'
      BY <1>1, <2>4, <2>5, Moves DEF StageOwned, PCs
    <2> QED
      BY <2>6, <2>7, <1>2, <1>3, <1>4
  <1>6. CASE stage # None
    BY <1>6 DEF CreateStage, StageOwned
  <1> QED
    BY <1>5, <1>6

LEMMA WriteStagePreserves ==
    ASSUME IInv, NEW p \in Procs, WriteStage(p)
    PROVE  IInv'
  <1> USE StoreConstants DEF IInv
  <1>1. \A q \in Procs : q # p => pc[q] = "idle"
    BY Alone DEF WriteStage
  <1>2. TypeOK'
    BY Leaves, Moves DEF WriteStage, TypeOK, disk, PCs, File, Stage, Fault
  <1>3. Leased'
    BY <1>1, Leaves, Moves DEF WriteStage, Leased, TypeOK, PCs
  <1>4. StageOwned'
    BY <1>1, Leaves, Moves DEF WriteStage, StageOwned, TypeOK, disk, PCs, File, Stage
  <1>5. NeverTorn'
    BY DEF WriteStage, NeverTorn, StageOwned, disk
  <1>6. Ahead'
    BY <1>1, Leaves, Moves DEF WriteStage, Ahead, StageOwned, TypeOK, disk, PCs, File, Stage
  <1> QED
    BY <1>2, <1>3, <1>4, <1>5, <1>6

LEMMA SyncStagePreserves ==
    ASSUME IInv, NEW p \in Procs, SyncStage(p)
    PROVE  IInv'
  <1> USE StoreConstants DEF IInv
  <1>1. \A q \in Procs : q # p => pc[q] = "idle"
    BY Alone DEF SyncStage
  <1>2. TypeOK'
    BY Leaves, Moves DEF SyncStage, TypeOK, disk, PCs, File, Stage, Fault
  <1>3. Leased'
    BY <1>1, Leaves, Moves DEF SyncStage, Leased, TypeOK, PCs
  <1>4. StageOwned'
    BY <1>1, Leaves, Moves DEF SyncStage, StageOwned, TypeOK, disk, PCs, File, Stage
  <1>5. NeverTorn'
    BY DEF SyncStage, NeverTorn, StageOwned, disk
  <1>6. Ahead'
    BY <1>1, Leaves, Moves DEF SyncStage, Ahead, StageOwned, TypeOK, disk, PCs, File, Stage
  <1> QED
    BY <1>2, <1>3, <1>4, <1>5, <1>6

LEMMA RenamePreserves ==
    ASSUME IInv, NEW p \in Procs, Rename(p)
    PROVE  IInv'
  <1> USE StoreConstants DEF IInv
  <1>1. \A q \in Procs : q # p => pc[q] = "idle"
    BY Alone DEF Rename
  <1>2. TypeOK'
    BY Leaves, Moves DEF Rename, TypeOK, disk, PCs, File, Stage, Fault
  <1>3. Leased'
    BY <1>1, Leaves, Moves DEF Rename, Leased, TypeOK, PCs
  <1>4. StageOwned'
    BY <1>1, Leaves, Moves DEF Rename, StageOwned, TypeOK, disk, PCs, File, Stage
  <1>5. NeverTorn'
    BY DEF Rename, NeverTorn, StageOwned, disk
  <1>6. Ahead'
    BY <1>1, Leaves, Moves DEF Rename, Ahead, StageOwned, TypeOK, disk, PCs, File, Stage
  <1> QED
    BY <1>2, <1>3, <1>4, <1>5, <1>6

LEMMA RemovePreserves ==
    ASSUME IInv, NEW p \in Procs, Remove(p)
    PROVE  IInv'
  <1> USE StoreConstants DEF IInv
  <1>1. \A q \in Procs : q # p => pc[q] = "idle"
    BY Alone DEF Remove
  <1>2. TypeOK'
    <2>1. file.version + 1 \in 0..MaxVersions
      BY DEF Remove, Ahead, TypeOK, File
    <2>2. file' \in File
      BY <2>1 DEF Remove, File
    <2> QED
      BY <2>2, Moves DEF Remove, TypeOK, PCs
  <1>3. Leased'
    BY <1>1, Leaves, Moves DEF Remove, Leased, TypeOK, PCs
  <1>4. StageOwned'
    BY <1>1, Leaves, Moves DEF Remove, StageOwned, TypeOK, disk, PCs, File, Stage
  <1>5. NeverTorn'
    BY DEF Remove, NeverTorn, StageOwned, disk
  <1>6. Ahead'
    BY <1>1, Leaves, Moves DEF Remove, Ahead, StageOwned, TypeOK, disk, PCs, File, Stage
  <1> QED
    BY <1>2, <1>3, <1>4, <1>5, <1>6

LEMMA SyncDirPreserves ==
    ASSUME IInv, NEW p \in Procs, SyncDir(p)
    PROVE  IInv'
  <1> USE StoreConstants DEF IInv
  <1>1. \A q \in Procs : q # p => pc[q] = "idle"
    BY Alone DEF SyncDir
  <1>2. TypeOK'
    BY Leaves, Moves DEF SyncDir, TypeOK, disk, PCs, File, Stage, Fault
  <1>3. Leased'
    BY <1>1, Leaves, Moves DEF SyncDir, Leased, TypeOK, PCs
  <1>4. StageOwned'
    BY <1>1, Leaves, Moves DEF SyncDir, StageOwned, TypeOK, disk, PCs, File, Stage
  <1>5. NeverTorn'
    BY DEF SyncDir, NeverTorn, StageOwned, disk
  <1>6. Ahead'
    BY <1>1, Leaves, Moves DEF SyncDir, Ahead, StageOwned, TypeOK, disk, PCs, File, Stage
  <1> QED
    BY <1>2, <1>3, <1>4, <1>5, <1>6

LEMMA OperationFailsPreserves ==
    ASSUME IInv, NEW p \in Procs, OperationFails(p)
    PROVE  IInv'
  <1> USE StoreConstants DEF IInv
  <1>1. \A q \in Procs : q # p => pc[q] = "idle"
    BY Alone DEF OperationFails
  <1>2. TypeOK'
    BY Leaves, Moves DEF OperationFails, TypeOK, disk, PCs, File, Stage, Fault
  <1>3. Leased'
    BY <1>1, Leaves, Moves DEF OperationFails, Leased, TypeOK, PCs
  <1>4. StageOwned'
    BY <1>1, Leaves, Moves DEF OperationFails, StageOwned, TypeOK, disk, PCs, File, Stage
  <1>5. NeverTorn'
    BY DEF OperationFails, NeverTorn, StageOwned, disk
  <1>6. Ahead'
    BY <1>1, Leaves, Moves DEF OperationFails, Ahead, StageOwned, TypeOK, disk, PCs, File, Stage
  <1> QED
    BY <1>2, <1>3, <1>4, <1>5, <1>6

LEMMA DiePreserves ==
    ASSUME IInv, NEW p \in Procs, Die(p)
    PROVE  IInv'
  <1> USE StoreConstants DEF IInv
  <1>1. \A q \in Procs : q # p => pc[q] = "idle"
    BY Alone DEF Die
  <1>2. TypeOK'
    BY Leaves, Moves DEF Die, TypeOK, disk, PCs, File, Stage, Fault
  <1>3. Leased'
    BY <1>1, Leaves, Moves DEF Die, Leased, TypeOK, PCs
  <1>4. StageOwned'
    BY <1>1, Leaves, Moves DEF Die, StageOwned, TypeOK, disk, PCs, File, Stage
  <1>5. NeverTorn'
    BY DEF Die, NeverTorn, StageOwned, disk
  <1>6. Ahead'
    BY <1>1, Leaves, Moves DEF Die, Ahead, StageOwned, TypeOK, disk, PCs, File, Stage
  <1> QED
    BY <1>2, <1>3, <1>4, <1>5, <1>6
\* A file that is not torn is on disk as processes see it.
LEMMA OnDiskIsSame ==
    ASSUME NeverTorn
    PROVE  OnDisk(file) = file /\ OnDisk(synced) = synced
  BY DEF NeverTorn, OnDisk

LEMMA PowerLossPreserves ==
    ASSUME IInv, PowerLoss
    PROVE  IInv'
  <1> USE StoreConstants DEF IInv
  <1>1. file' \in {file, synced} /\ synced' = file'
    BY OnDiskIsSame DEF PowerLoss
  <1>2. \A p \in Procs : pc'[p] = "idle"
    BY DEF PowerLoss
  <1>3. TypeOK'
    <2>1. stage' \in Stage \union {None}
      <3>1. stage # None => OnDisk(stage) \in Stage
        BY DEF OnDisk, TypeOK, Stage
      <3> QED
        BY <3>1 DEF PowerLoss
    <2>2. pc' \in [Procs -> PCs] /\ seen' \in [Procs -> File \union {None}]
      BY DEF PowerLoss, PCs
    <2> QED
      BY <1>1, <2>1, <2>2 DEF PowerLoss, TypeOK, Fault
  <1>4. Leased' /\ StageOwned'
    BY <1>2 DEF Leased, StageOwned
  <1>5. NeverTorn'
    BY <1>1 DEF NeverTorn
  <1>6. Ahead'
    BY <1>1, <1>2 DEF Ahead, PowerLoss, TypeOK, File
  <1> QED
    BY <1>3, <1>4, <1>5, <1>6

LEMMA StepPreserves == IInv /\ [Next]_vars => IInv'
  <1> SUFFICES ASSUME IInv, [Next]_vars PROVE IInv'
    OBVIOUS
  <1>1. CASE PowerLoss
    BY <1>1, PowerLossPreserves
  <1>2. ASSUME NEW p \in Procs, Step(p) PROVE IInv'
    <2>1. CASE Swap(p)
      BY <2>1, OverwritePreserves, CompareAndSwapPreserves, CreateStagePreserves,
         WriteStagePreserves, SyncStagePreserves, RenamePreserves, RemovePreserves,
         SyncDirPreserves, OperationFailsPreserves DEF Swap
    <2>2. CASE Acquire(p) \/ CleanupStage(p) \/ Load(p) \/ Release(p)
      BY <2>2, AcquirePreserves, CleanupStagePreserves, LoadPreserves, ReleasePreserves
    <2> QED
      BY <1>2, <2>1, <2>2 DEF Step
  <1>3. ASSUME NEW p \in Procs, Die(p) PROVE IInv'
    BY <1>3, DiePreserves
  <1>4. CASE UNCHANGED vars
    BY <1>4 DEF IInv, TypeOK, Leased, StageOwned, NeverTorn, Ahead, vars, disk
  <1> QED
    BY <1>1, <1>2, <1>3, <1>4 DEF Next

LEMMA Inductive == Spec => []IInv
  BY Initially, StepPreserves, PTL DEF Spec

\* Every variable keeps its type.
THEOREM TypeCorrect == Spec => []TypeOK
  <1>1. IInv => TypeOK
    BY DEF IInv
  <1> QED
    BY <1>1, Inductive, PTL

\* No reported `compare_and_swap` is lost to another process or to a loss of
\* power: it is made under the lease and its directory is synced before it is
\* reported.
THEOREM ReportedSwapsSurvive == Spec => []ReportedSurvives
  <1>1. IInv => ReportedSurvives
    <2> SUFFICES ASSUME IInv PROVE ReportedSurvives
      OBVIOUS
    <2>1. acks \in Nat /\ synced.version \in Nat /\ file.version \in Nat
      BY StoreConstants DEF IInv, TypeOK, File
    <2> QED
      BY <2>1 DEF IInv, Ahead, ReportedSurvives
  <1> QED
    BY <1>1, Inductive, PTL

\* No credential or selection is ever half written, whenever the power fails,
\* for the stage is synced before `atomic_write` renames it; and a stage left
\* behind never blocks a later write, for `cleanup_stage` runs under the lease
\* that every writer of the same stage holds.
THEOREM FilesStaySound == Spec => []FilesAreSound
  <1>1. IInv => FilesAreSound
    BY DEF IInv, StageOwned, StageIsFree, FilesAreSound
  <1> QED
    BY <1>1, Inductive, PTL

-----------------------------------------------------------------------------
(* The refinement.                                                         *)

LEMMA CellInitially == Init => Cell!Init
  BY DEF Init, Cell!Init

\* A renamed stage or a removed file is one replacement.
LEMMA ReplaceRefines ==
    ASSUME IInv, NEW p \in Procs, Rename(p) \/ Remove(p)
    PROVE  Cell!Replace
  <1>1. file'.version = file.version + 1
    BY DEF IInv, StageOwned, Rename, Remove
  <1> QED
    BY <1>1 DEF Cell!Replace, Rename, Remove

\* Nothing is reported before it is there.
LEMMA ReportRefines ==
    ASSUME IInv, NEW p \in Procs, SyncDir(p)
    PROVE  Cell!Report
  BY DEF IInv, Ahead, SyncDir, Cell!Report

\* A loss of power undoes at most what was not reported.
LEMMA RevertRefines ==
    ASSUME IInv, PowerLoss
    PROVE  Cell!Revert
  <1>1. file' \in {file, synced}
    BY OnDiskIsSame DEF IInv, PowerLoss
  <1>2. acks \in Nat /\ synced.version \in Nat /\ file.version \in Nat
    BY StoreConstants DEF IInv, TypeOK, File
  <1>3. file'.version \in acks..file.version
    BY <1>1, <1>2 DEF IInv, Ahead
  <1>4. file'.version = file.version => file' = file
    BY <1>1 DEF IInv, Ahead
  <1> QED
    BY <1>3, <1>4 DEF PowerLoss, Cell!Revert

\* No other step changes what the cell shows.
LEMMA OtherwiseStutters ==
    ASSUME NEW p \in Procs,
           \/ Acquire(p) \/ CleanupStage(p) \/ Load(p) \/ Release(p)
           \/ Overwrite(p) \/ CompareAndSwap(p) \/ CreateStage(p) \/ WriteStage(p)
           \/ SyncStage(p) \/ OperationFails(p) \/ Die(p)
    PROVE  UNCHANGED Cell!cell
  <1>1. file' = file /\ acks' = acks
    BY DEF Acquire, CleanupStage, Load, Release, Overwrite, CompareAndSwap, CreateStage,
           WriteStage, SyncStage, OperationFails, Die, disk
  <1> QED
    BY <1>1 DEF Cell!cell

LEMMA StepRefines == IInv /\ [Next]_vars => [Cell!Next]_(Cell!cell)
  <1> SUFFICES ASSUME IInv, [Next]_vars PROVE Cell!Next \/ UNCHANGED Cell!cell
    OBVIOUS
  <1>1. CASE PowerLoss
    BY <1>1, RevertRefines DEF Cell!Next
  <1>2. ASSUME NEW p \in Procs, Step(p) \/ Die(p) PROVE Cell!Next \/ UNCHANGED Cell!cell
    BY <1>2, ReplaceRefines, ReportRefines, OtherwiseStutters DEF Step, Swap, Cell!Next
  <1>3. CASE UNCHANGED vars
    BY <1>3 DEF vars, disk, Cell!cell
  <1> QED
    BY <1>1, <1>2, <1>3 DEF Next

\* A protected state file is an atomic cell: every interleaving, death, failed
\* operation and loss of power is a replacement, a report, a revert of what was
\* not reported, or nothing at all to a caller.
THEOREM RefinesCell == Spec => IsAtomicCell
  <1>1. Init /\ [][Next]_vars /\ []IInv => Cell!Init /\ [][Cell!Next]_(Cell!cell)
    BY CellInitially, StepRefines, PTL
  <1> QED
    BY <1>1, Inductive, PTL DEF Spec, IsAtomicCell, Cell!Spec
=============================================================================
