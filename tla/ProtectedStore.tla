--------------------------- MODULE ProtectedStore ---------------------------
(***************************************************************************)
(* One protected state file of the native identity: the refresh            *)
(* credential, the device credential or the selected project.              *)
(*                                                                         *)
(* A process takes the file's advisory lock, removes a stage an earlier    *)
(* death left behind, loads the value, and may compare and swap it: the    *)
(* new bytes go to a stage of one fixed name, are synced, renamed over the *)
(* file, and the directory is synced before success is reported.  The      *)
(* process may die, an operation may fail, or the machine may lose power   *)
(* between any two of these steps.                                         *)
(*                                                                         *)
(* Bytes are abstracted to the number of replacements they result from     *)
(* and to whether they are safe on disk.                                   *)
(***************************************************************************)
EXTENDS Naturals

CONSTANTS
    Procs,        \* ds processes
    MaxVersions,  \* bound on replacements
    MaxFaults,    \* bound on deaths, failed operations and power losses
    None

\* "gone": no file.  "cached": whole, but not on disk yet.  "whole": on disk.
\* "torn": less than was written.
File  == [version : 0..MaxVersions, bytes : {"gone", "cached", "whole", "torn"}]
Stage == [version : 0..MaxVersions, bytes : {"cached", "whole", "torn"}]

ASSUME StoreConstants ==
    /\ MaxVersions \in Nat /\ MaxFaults \in Nat
    /\ None \notin Procs \union Stage \union File

VARIABLES
    file,    \* the file under its name, as processes see it
    synced,  \* what that name holds after a loss of power, if it was not synced since
    stage,   \* the file under the stage name, or None
    lock,    \* the holder of the lease, or None
    acks,    \* swaps reported successful
    faults,  \* faults so far
    pc,      \* where process p is; "idle" without a lease
    seen     \* the value it loaded, or None

disk == <<file, synced, stage>>
vars == <<disk, lock, acks, faults, pc, seen>>

PCs == {"idle", "leased", "clean", "loaded", "create", "write", "sync",
        "rename", "remove", "sync_dir", "swapped"}

Fault == faults < MaxFaults /\ faults' = faults + 1

Goto(p, where) == pc' = [pc EXCEPT ![p] = where]

\* Return to the caller and release the lease, with or without success.
Leave(p) ==
    /\ Goto(p, "idle")
    /\ seen' = [seen EXCEPT ![p] = None]
    /\ lock' = IF lock = p THEN None ELSE lock

-----------------------------------------------------------------------------
(* The lease.                                                              *)

\* Mutant of Acquire: the lock is opened and never taken.
AcquireUnlocked(p) ==
    /\ pc[p] = "idle"
    /\ Goto(p, "leased")
    /\ UNCHANGED <<disk, lock, acks, faults, seen>>

Acquire(p) ==
    /\ pc[p] = "idle" /\ lock = None
    /\ lock' = p
    /\ Goto(p, "leased")
    /\ UNCHANGED <<disk, acks, faults, seen>>

CleanupStage(p) ==
    /\ pc[p] = "leased"
    /\ stage' = None
    /\ synced' = IF stage = None THEN synced ELSE file
    /\ Goto(p, "clean")
    /\ UNCHANGED <<file, lock, acks, faults, seen>>

Load(p) ==
    /\ pc[p] = "clean"
    /\ seen' = [seen EXCEPT ![p] = file]
    /\ Goto(p, "loaded")
    /\ UNCHANGED <<disk, lock, acks, faults>>

\* A probe has read without cleaning up, a reader has its value, `clear` found
\* no file, or a writer has the success of its swap.
Release(p) ==
    /\ pc[p] \in {"leased", "clean", "loaded", "swapped"}
    /\ Leave(p)
    /\ UNCHANGED <<disk, acks, faults>>

-----------------------------------------------------------------------------
(* Compare and swap.                                                       *)

\* `save` and `clear` replace the selected project without reading it.
Overwrite(p) ==
    /\ pc[p] = "clean" /\ file.version < MaxVersions
    /\ \/ Goto(p, "create")
       \/ file.bytes # "gone" /\ Goto(p, "remove")
    /\ UNCHANGED <<disk, lock, acks, faults, seen>>

\* The file is read again and compared with what the caller loaded.
CompareAndSwap(p) ==
    /\ pc[p] = "loaded"
    /\ \/ file # seen[p] /\ Leave(p)
       \/ /\ file = seen[p] /\ file.version < MaxVersions
          /\ \/ Goto(p, "create")
             \/ file.bytes # "gone" /\ Goto(p, "remove")
          /\ UNCHANGED <<lock, seen>>
    /\ UNCHANGED <<disk, acks, faults>>

\* The stage must not exist yet; one that does fails the swap.
CreateStage(p) ==
    /\ pc[p] = "create"
    /\ \/ /\ stage = None
          /\ stage' = [version |-> file.version + 1, bytes |-> "torn"]
          /\ Goto(p, "write")
          /\ UNCHANGED <<lock, seen>>
       \/ stage # None /\ Leave(p) /\ UNCHANGED stage
    /\ UNCHANGED <<file, synced, acks, faults>>

\* Mutant of WriteStage: the stage is renamed before it is synced.
WriteUnsynced(p) ==
    /\ pc[p] = "write" /\ stage # None
    /\ stage' = [stage EXCEPT !.bytes = "cached"]
    /\ Goto(p, "rename")
    /\ UNCHANGED <<file, synced, lock, acks, faults, seen>>

WriteStage(p) ==
    /\ pc[p] = "write" /\ stage # None
    /\ stage' = [stage EXCEPT !.bytes = "cached"]
    /\ Goto(p, "sync")
    /\ UNCHANGED <<file, synced, lock, acks, faults, seen>>

SyncStage(p) ==
    /\ pc[p] = "sync" /\ stage # None
    /\ stage' = [stage EXCEPT !.bytes = "whole"]
    /\ Goto(p, "rename")
    /\ UNCHANGED <<file, synced, lock, acks, faults, seen>>

Rename(p) ==
    /\ pc[p] = "rename" /\ stage # None
    /\ file' = stage /\ stage' = None
    /\ Goto(p, "sync_dir")
    /\ UNCHANGED <<synced, lock, acks, faults, seen>>

Remove(p) ==
    /\ pc[p] = "remove"
    /\ file' = [version |-> file.version + 1, bytes |-> "gone"]
    /\ Goto(p, "sync_dir")
    /\ UNCHANGED <<synced, stage, lock, acks, faults, seen>>

\* Mutant of SyncDir: the rename is taken for durable.
SyncNothing(p) ==
    /\ pc[p] = "sync_dir"
    /\ acks' = acks + 1
    /\ Goto(p, "swapped")
    /\ UNCHANGED <<disk, lock, faults, seen>>

\* The new entry is durable, and success is reported.
SyncDir(p) ==
    /\ pc[p] = "sync_dir"
    /\ synced' = file
    /\ acks' = acks + 1
    /\ Goto(p, "swapped")
    /\ UNCHANGED <<file, stage, lock, faults, seen>>

\* Any step of a swap, or the cleanup, fails: the stage is removed if it can
\* be, and the caller is told so although the file may have changed already.
OperationFails(p) ==
    /\ pc[p] \in {"leased", "create", "write", "sync", "rename", "remove", "sync_dir"}
    /\ Fault
    /\ stage' \in IF pc[p] \in {"leased", "write", "sync", "rename"} THEN {None, stage} ELSE {stage}
    /\ Leave(p)
    /\ UNCHANGED <<file, synced, acks>>

-----------------------------------------------------------------------------
(* Deaths and power.                                                       *)

Die(p) ==
    /\ pc[p] # "idle"
    /\ Fault
    /\ Leave(p)
    /\ UNCHANGED <<disk, acks>>

\* What the disk holds of a file that was in the cache.
OnDisk(f) == IF f.bytes = "cached" THEN [f EXCEPT !.bytes = "torn"] ELSE f

\* Entries not synced to their directory may be there or not.
PowerLoss ==
    /\ Fault
    /\ file' \in {OnDisk(file), OnDisk(synced)}
    /\ synced' = file'
    /\ stage' \in {None} \union (IF stage = None THEN {} ELSE {OnDisk(stage)})
    /\ lock' = None
    /\ pc' = [p \in Procs |-> "idle"]
    /\ seen' = [p \in Procs |-> None]
    /\ UNCHANGED acks

Init ==
    /\ file \in [version : {0}, bytes : {"gone", "whole"}]
    /\ synced = file
    /\ stage = None
    /\ lock = None
    /\ acks = 0 /\ faults = 0
    /\ pc = [p \in Procs |-> "idle"]
    /\ seen = [p \in Procs |-> None]

Swap(p) == Overwrite(p) \/ CompareAndSwap(p) \/ CreateStage(p) \/ WriteStage(p) \/ SyncStage(p)
             \/ Rename(p) \/ Remove(p) \/ SyncDir(p) \/ OperationFails(p)

Step(p) == Acquire(p) \/ CleanupStage(p) \/ Load(p) \/ Release(p) \/ Swap(p)

Next == PowerLoss \/ \E p \in Procs : Step(p) \/ Die(p)

Spec == Init /\ [][Next]_vars

-----------------------------------------------------------------------------
(* The inductive invariant.                                                *)

\* A process past `acquire` holds the lease.
Leased == \A p \in Procs : pc[p] # "idle" => lock = p

\* What the holder of the lease finds under the stage name.
StageOwned ==
    \A p \in Procs :
        /\ pc[p] \in {"clean", "loaded", "create", "remove", "sync_dir", "swapped"}
             => stage = None
        /\ pc[p] \in {"write", "sync", "rename"}
             => stage # None /\ stage.version = file.version + 1
        /\ pc[p] = "rename" => stage.bytes = "whole"

\* The file runs ahead of what is synced, and that of what was reported.
Ahead ==
    /\ acks <= synced.version /\ synced.version <= file.version
    /\ synced.version = file.version => synced = file
    /\ \A p \in Procs :
        /\ pc[p] \in {"create", "remove"} => file.version < MaxVersions
        /\ pc[p] = "sync_dir" => acks < file.version

-----------------------------------------------------------------------------
(* Properties.                                                             *)

\* Every variable holds a value of its type.
TypeOK ==
    /\ file \in File /\ synced \in File
    /\ stage \in Stage \union {None}
    /\ lock \in Procs \union {None}
    /\ acks \in Nat
    /\ faults \in 0..MaxFaults
    /\ pc \in [Procs -> PCs]
    /\ seen \in [Procs -> File \union {None}]

\* The file under its name is whole or absent at every moment, also after the
\* power failed in the middle of a replacement: no credential is ever half
\* written.
NeverTorn == file.bytes \in {"gone", "whole"} /\ synced.bytes \in {"gone", "whole"}

\* Every swap that was reported successful is a replacement of its own on the
\* disk: no concurrent swap overwrote it and no loss of power can take it back.
ReportedSurvives == acks <= file.version /\ acks <= synced.version

\* A process that reaches the creation of the stage finds its name free,
\* whatever stage a death, a failed removal or a loss of power left behind.
StageIsFree == \A p \in Procs : pc[p] = "create" => stage = None

\* What survives of an interrupted replacement hurts nobody: no file is half
\* written, and no stage left behind makes a later write fail.
FilesAreSound == NeverTorn /\ StageIsFree

\* Inductive: together they imply the properties above.
IInv == TypeOK /\ Leased /\ StageOwned /\ NeverTorn /\ Ahead

\* The file behaves as one atomically replaced cell.
Cell == INSTANCE AtomicCell WITH
            version  <- file.version,
            present  <- file.bytes # "gone",
            reported <- acks
IsAtomicCell == Cell!Spec
=============================================================================
