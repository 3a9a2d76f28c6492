----------------------------- MODULE McpInstall -----------------------------
(***************************************************************************)
(* `ds mcp install --write`: the `ds` server entry is merged into an agent *)
(* host's configuration file.                                              *)
(*                                                                         *)
(* Installers serialize on a lock file beside the target.  The lock is not *)
(* an advisory lock: it outlives a killed installer, and only a person     *)
(* removes it then.  Under the lock the target is read, the merged         *)
(* document staged, the old one kept as a backup, the target read again,   *)
(* and the stage renamed over it.  Editors and hosts write the same target *)
(* and take no lock.                                                       *)
(*                                                                         *)
(* A document is abstracted to its `ds` entry and its other servers.       *)
(* Stages have names of their own and are left out.                        *)
(***************************************************************************)
EXTENDS Naturals

CONSTANTS
    Procs,      \* installers
    Entries,    \* the `ds` entries they install
    Others,     \* other servers of the host
    Attempts,   \* LOCK_ATTEMPTS
    MaxEdits,   \* bound on external changes of the target
    MaxFaults,  \* bound on deaths and failed operations
    None, Malformed

Document == [ds : Entries \union {None}, others : SUBSET Others]
Target   == Document \union {None, Malformed}

\* A lock file names its installer once its token is written.
LockFile == [owner : Procs, token : BOOLEAN]

\* How an install ends.
Results == {"would_block", "still_updating", "malformed", "changed",
            "unwritable", "installed", "died"}

ASSUME InstallConstants ==
    /\ Attempts \in Nat \ {0} /\ MaxEdits \in Nat /\ MaxFaults \in Nat
    /\ None \notin Entries \union Document \union LockFile \union Results
    /\ Malformed \notin Entries \union Document
    /\ None # Malformed

VARIABLES
    target,   \* the host's configuration file, or None
    backup,   \* its `.bak`, or None
    lock,     \* the lock file, or None
    edits,    \* external changes so far
    faults,   \* faults so far
    pc,       \* where installer p is; "idle" between commands
    entry,    \* the entry it installs
    read,     \* the target as it read it
    attempt,  \* its attempt at the lock
    result    \* how its last install ended, until it starts another

files == <<target, backup, lock>>
vars  == <<files, edits, faults, pc, entry, read, attempt, result>>

\* Points between the creation of the lock and its removal.
Holding == {"token", "read", "stage", "backup", "recheck", "replace", "sync"}
PCs     == {"idle", "locking", "look"} \union Holding

Fault == faults < MaxFaults /\ faults' = faults + 1

Goto(p, where) == pc' = [pc EXCEPT ![p] = where] /\ UNCHANGED result

Forget(p) ==
    /\ pc' = [pc EXCEPT ![p] = "idle"]
    /\ entry' = [entry EXCEPT ![p] = None]
    /\ read' = [read EXCEPT ![p] = None]
    /\ attempt' = [attempt EXCEPT ![p] = 1]

\* Return: a lock that still holds this installer's token is removed.
Return(p, code) ==
    /\ Forget(p)
    /\ result' = [result EXCEPT ![p] = code]
    /\ lock' = IF pc[p] \in Holding /\ lock = [owner |-> p, token |-> TRUE]
               THEN None ELSE lock

-----------------------------------------------------------------------------
(* The lock file.                                                          *)

Begin(p) ==
    /\ pc[p] = "idle"
    /\ \E e \in Entries : entry' = [entry EXCEPT ![p] = e]
    /\ pc' = [pc EXCEPT ![p] = "locking"]
    /\ result' = [result EXCEPT ![p] = None]
    /\ UNCHANGED <<files, edits, faults, read, attempt>>

\* Mutant of CreateLock: an existing lock file is opened instead of refused.
CreateLockAnyway(p) ==
    /\ pc[p] = "locking"
    /\ lock' = [owner |-> p, token |-> FALSE] /\ Goto(p, "token")
    /\ UNCHANGED <<target, backup, edits, faults, entry, read, attempt>>

\* `create_new` succeeds for one installer only.
CreateLock(p) ==
    /\ pc[p] = "locking"
    /\ \/ /\ lock = None
          /\ lock' = [owner |-> p, token |-> FALSE] /\ Goto(p, "token")
       \/ lock # None /\ Goto(p, "look") /\ UNCHANGED lock
    /\ UNCHANGED <<target, backup, edits, faults, entry, read, attempt>>

\* Mutant of LookAtLock: one attempt too many.
LookOnceMore(p) ==
    /\ pc[p] = "look"
    /\ \/ lock = None /\ Return(p, "would_block")
       \/ lock # None /\ attempt[p] > Attempts /\ Return(p, "still_updating")
       \/ /\ lock # None /\ attempt[p] <= Attempts
          /\ attempt' = [attempt EXCEPT ![p] = @ + 1]
          /\ Goto(p, "locking")
          /\ UNCHANGED <<lock, entry, read>>
    /\ UNCHANGED <<target, backup, edits, faults>>

\* Mutant of LookAtLock: the lock is tried again without counting.
LookForever(p) ==
    /\ pc[p] = "look"
    /\ \/ lock = None /\ Return(p, "would_block")
       \/ lock # None /\ Goto(p, "locking") /\ UNCHANGED <<lock, entry, read, attempt>>
    /\ UNCHANGED <<target, backup, edits, faults>>

\* The lock was there: it is inspected and, unless it is gone by now, tried
\* again a bounded number of times.
LookAtLock(p) ==
    /\ pc[p] = "look"
    /\ \/ lock = None /\ Return(p, "would_block")
       \/ lock # None /\ attempt[p] = Attempts /\ Return(p, "still_updating")
       \/ /\ lock # None /\ attempt[p] < Attempts
          /\ attempt' = [attempt EXCEPT ![p] = @ + 1]
          /\ Goto(p, "locking")
          /\ UNCHANGED <<lock, entry, read>>
    /\ UNCHANGED <<target, backup, edits, faults>>

WriteToken(p) ==
    /\ pc[p] = "token"
    /\ lock' = [owner |-> p, token |-> TRUE]
    /\ Goto(p, "read")
    /\ UNCHANGED <<target, backup, edits, faults, entry, read, attempt>>

-----------------------------------------------------------------------------
(* The merge.                                                              *)

\* Only the `ds` server of the one section is replaced.
Merge(document, e) ==
    IF document = None THEN [ds |-> e, others |-> {}]
                       ELSE [document EXCEPT !.ds = e]

ReadTarget(p) ==
    /\ pc[p] = "read"
    /\ \/ target = Malformed /\ Return(p, "malformed")
       \/ /\ target # Malformed
          /\ read' = [read EXCEPT ![p] = target]
          /\ Goto(p, "stage")
          /\ UNCHANGED <<lock, entry, attempt>>
    /\ UNCHANGED <<target, backup, edits, faults>>

StageMerge(p) ==
    /\ pc[p] = "stage"
    /\ Goto(p, "backup")
    /\ UNCHANGED <<files, edits, faults, entry, read, attempt>>

\* Mutant of WriteBackup: an existing backup is kept.
WriteFirstBackup(p) ==
    /\ pc[p] = "backup"
    /\ backup' = IF backup = None THEN read[p] ELSE backup
    /\ Goto(p, "recheck")
    /\ UNCHANGED <<target, lock, edits, faults, entry, read, attempt>>

WriteBackup(p) ==
    /\ pc[p] = "backup"
    /\ backup' = IF read[p] = None THEN backup ELSE read[p]
    /\ Goto(p, "recheck")
    /\ UNCHANGED <<target, lock, edits, faults, entry, read, attempt>>

Recheck(p) ==
    /\ pc[p] = "recheck"
    /\ \/ target # read[p] /\ Return(p, "changed")
       \/ target = read[p] /\ Goto(p, "replace") /\ UNCHANGED <<lock, entry, read, attempt>>
    /\ UNCHANGED <<target, backup, edits, faults>>

Replace(p) ==
    /\ pc[p] = "replace"
    /\ target' = Merge(read[p], entry[p])
    /\ Goto(p, "sync")
    /\ UNCHANGED <<backup, lock, edits, faults, entry, read, attempt>>

SyncParent(p) ==
    /\ pc[p] = "sync"
    /\ Return(p, "installed")
    /\ UNCHANGED <<target, backup, edits, faults>>

\* Any file operation may fail, the sync after the backup was renamed too.  A
\* token that cannot be written leaves the lock file behind.
OperationFails(p) ==
    /\ pc[p] # "idle"
    /\ Fault
    /\ \/ UNCHANGED backup
       \/ pc[p] = "backup" /\ read[p] # None /\ backup' = read[p]
    /\ Return(p, "unwritable")
    /\ UNCHANGED <<target, edits>>

-----------------------------------------------------------------------------
(* Around the installers.                                                  *)

\* A killed installer removes nothing.
Die(p) ==
    /\ pc[p] # "idle"
    /\ Fault
    /\ Forget(p)
    /\ result' = [result EXCEPT ![p] = "died"]
    /\ UNCHANGED <<files, edits>>

\* A person removes a lock whose installer is no longer there.
RemoveLeftover ==
    /\ lock # None /\ pc[lock.owner] \notin Holding
    /\ lock' = None
    /\ UNCHANGED <<target, backup, edits, faults, pc, entry, read, attempt, result>>

\* An editor or the host writes the target: other servers, or something that
\* is no JSON object.
Edit ==
    /\ edits < MaxEdits /\ edits' = edits + 1
    /\ \/ \E o \in SUBSET Others :
            target' = [ds |-> IF target \in Document THEN target.ds ELSE None,
                       others |-> o]
       \/ target' = Malformed
    /\ target' # target
    /\ UNCHANGED <<backup, lock, faults, pc, entry, read, attempt, result>>

Init ==
    /\ target = None /\ backup = None /\ lock = None
    /\ edits = 0 /\ faults = 0
    /\ pc = [p \in Procs |-> "idle"]
    /\ entry = [p \in Procs |-> None]
    /\ read = [p \in Procs |-> None]
    /\ attempt = [p \in Procs |-> 1]
    /\ result = [p \in Procs |-> None]

Step(p) ==
    \/ CreateLock(p) \/ LookAtLock(p) \/ WriteToken(p) \/ ReadTarget(p)
    \/ StageMerge(p) \/ WriteBackup(p) \/ Recheck(p) \/ Replace(p)
    \/ SyncParent(p) \/ OperationFails(p)

Next == Edit \/ RemoveLeftover \/ \E p \in Procs : Begin(p) \/ Step(p) \/ Die(p)

Spec == Init /\ [][Next]_vars

\* A running installer takes its next step; nobody is sure to run or to clean up.
FairSpec == Spec /\ \A p \in Procs : WF_vars(Step(p))

-----------------------------------------------------------------------------
(* Properties.                                                             *)

\* Every variable holds a value of its type.
TypeOK ==
    /\ target \in Target
    /\ backup \in Document \union {None}
    /\ lock \in LockFile \union {None}
    /\ edits \in 0..MaxEdits /\ faults \in 0..MaxFaults
    /\ pc \in [Procs -> PCs]
    /\ entry \in [Procs -> Entries \union {None}]
    /\ read \in [Procs -> Document \union {None}]
    /\ attempt \in [Procs -> 1..Attempts]
    /\ result \in [Procs -> Results \union {None}]

Replaces(p) == pc[p] = "replace" /\ pc'[p] = "sync"

Ends(p, code) == result[p] = None /\ result'[p] = code

\* Installs take effect one after another: when one replaces the target, no
\* other installer still works from what it read before, so no entry written by
\* an installer is replaced by one that never saw it.
InstallsSerialize ==
    [][\A p \in Procs : Replaces(p) =>
          \A q \in Procs \ {p} : pc[q] \notin {"stage", "backup", "recheck", "replace"}]_vars

\* After a successful install over an existing document the backup is the one
\* that install read and merged, not one another installer replaced before or
\* after it.  What an editor saves between the re-check and the rename is in
\* neither: it is overwritten and not backed up (Edit, which takes no lock).
BackupIsPredecessor ==
    [][\A p \in Procs : Ends(p, "installed") /\ read[p] # None => backup' = read[p]]_vars

\* Every install ends, also when a killed installer left its lock behind.
InstallsEnd == \A p \in Procs : pc[p] # "idle" ~> pc[p] = "idle"
=============================================================================
