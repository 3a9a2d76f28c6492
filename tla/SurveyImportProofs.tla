------------------------- MODULE SurveyImportProofs -------------------------
(***************************************************************************)
(* Type correctness of SurveyImport, its crash-consistency invariant, the  *)
(* truth of its evidence, and the refinement of ImportPromise, for any     *)
(* number of processes, paths, rows, identities and faults.                *)
(***************************************************************************)
EXTENDS SurveyImport, FiniteSetTheorems, SequenceTheorems, TLAPS

\* What a process has by the point it has reached.
Started(p) ==
    /\ pair[p] \in Pair /\ plan[p] \in Seq(Rows) /\ policy[p] \in {"stop", "continue"}

Control(p) ==
    /\ pc[p] # "idle" => Started(p)
    /\ pc[p] \in {"loaded", "opened"} \union (Bound \ {"header"}) => seen[p] \in ReceiptFile
    /\ pc[p] \in {"opened"} \union Bound => session[p] \in Bindings
    /\ pc[p] \in Bound \ {"header"} => mem[p] \in Checkpoint
    /\ pc[p] \in {"await", "answered", "append"} => sent[p] \in Rows
    /\ pc[p] \in {"answered", "append"} => reply[p] \in Outcomes

\* The sidecar locks: two commands past them share no path.
LocksExclusive ==
    \A p, o \in Procs : p # o /\ pc[p] \in Locked /\ pc[o] \in Locked =>
        pair[p].receipt # pair[o].receipt /\ pair[p].checkpoint # pair[o].checkpoint

\* What a process knows of the files it has locked, by the point it reached.
Knows(p) ==
    LET f == receipt[pair[p].receipt]
        c == checkpoint[pair[p].checkpoint]
    IN
    /\ pc[p] \in {"loaded", "opened"} =>
         /\ f = seen[p] /\ c = mem[p]
         /\ f.head = None => c = None
         /\ f.head # Torn
         /\ f.head # None /\ c = None => f.events = <<>>
         /\ c # None => c.bound.pair = pair[p]
    /\ pc[p] = "header" => f.head = Torn /\ c = None
    /\ pc[p] \in Bound \ {"header"} =>
         /\ f.head = Expected(p) /\ seen[p].head = Expected(p)
         /\ seen[p].events = f.events
         /\ mem[p].bound = Expected(p)
    /\ pc[p] \in {"cut", "reconcile"} => c = mem[p]
    /\ pc[p] \in {"checkpoint", "staged"} =>
         /\ mem[p].next = Len(f.events) + 1
         /\ c # None => c.bound = Expected(p) /\ c.next <= mem[p].next
    /\ pc[p] \in {"row", "await", "answered", "append", "final"} =>
         c = mem[p] /\ mem[p].next = Len(f.events) + 1

\* The inductive invariant: the receipt can only lead the checkpoint because
\* every process that writes one of them holds both locks and knows exactly
\* what the files contain.
IInv ==
    /\ StateTypeOK
    /\ \A p \in Procs : Control(p)
    /\ LocksExclusive
    /\ \A p \in Procs : Knows(p)
    /\ ReceiptLeadsCheckpoint

-----------------------------------------------------------------------------
(* Frames: what a step of process p leaves alone.                          *)

LocalKept(o) ==
    /\ pc'[o] = pc[o] /\ pair'[o] = pair[o] /\ plan'[o] = plan[o]
    /\ policy'[o] = policy[o] /\ session'[o] = session[o] /\ seen'[o] = seen[o]
    /\ mem'[o] = mem[o] /\ line'[o] = line[o] /\ sent'[o] = sent[o]
    /\ reply'[o] = reply[o] /\ seq'[o] = seq[o]

OthersKept(p) == \A o \in Procs \ {p} : LocalKept(o)

\* Only the files of p change, and only while p holds their locks.
FilesKept(p) ==
    /\ pc[p] \notin Locked => receipt' = receipt /\ checkpoint' = checkpoint
    /\ \A r \in Receipts : r # pair[p].receipt => receipt'[r] = receipt[r]
    /\ \A c \in Checkpoints : c # pair[p].checkpoint => checkpoint'[c] = checkpoint[c]

\* p does not take locks in this step.
LocksKept(p) == pc'[p] \in Locked => pc[p] \in Locked /\ pair'[p] = pair[p]

\* All a step of p must establish, besides the types.
StepOK(p) ==
    /\ OthersKept(p) /\ FilesKept(p)
    /\ Control(p)' /\ Knows(p)' /\ ReceiptLeadsCheckpoint'

\* A step of p disturbs no other process: it changes only files p has locked.
LEMMA OthersUndisturbed ==
    ASSUME IInv, NEW p \in Procs, OthersKept(p), FilesKept(p),
           NEW o \in Procs, o # p
    PROVE  Control(o)' /\ Knows(o)'
<1>1. LocalKept(o)
  BY DEF OthersKept
<1>2. Control(o)'
  BY <1>1 DEF IInv, LocalKept, Control, Started
<1>3. CASE pc[o] \notin Locked
  BY <1>1, <1>2, <1>3 DEF LocalKept, Knows, Locked, Bound
<1>4. CASE pc[o] \in Locked
  <2>1. pair[o] \in Pair
    BY <1>4 DEF IInv, Control, Started, Locked
  <2>2. /\ receipt'[pair[o].receipt] = receipt[pair[o].receipt]
        /\ checkpoint'[pair[o].checkpoint] = checkpoint[pair[o].checkpoint]
    BY <1>4, <2>1 DEF IInv, LocksExclusive, FilesKept, Pair
  <2>3. Knows(o)
    BY DEF IInv
  <2>4. QED
    BY <1>1, <1>2, <2>2, <2>3 DEF LocalKept, Knows, Expected
<1>5. QED
  BY <1>2, <1>3, <1>4

\* A step that takes no locks keeps their owners apart.
LEMMA LocksStayExclusive ==
    ASSUME IInv, NEW p \in Procs, OthersKept(p), LocksKept(p)
    PROVE  LocksExclusive'
  BY DEF IInv, LocksExclusive, OthersKept, LocalKept, LocksKept

\* Together: a step of p that is correct for p keeps the whole invariant.
LEMMA StepKeepsInvariant ==
    ASSUME IInv, NEW p \in Procs, StateTypeOK', StepOK(p), LocksExclusive'
    PROVE  IInv'
<1>1. \A o \in Procs : Control(o)' /\ Knows(o)'
  BY OthersUndisturbed DEF StepOK
<1>2. QED
  BY <1>1 DEF IInv, StepOK

\* Leaving the command is always correct.
LEMMA ExitIsCorrect ==
    ASSUME LocalTypeOK, NEW p \in Procs, NEW why, Exit(p, why)
    PROVE  /\ LocalTypeOK' /\ OthersKept(p) /\ LocksKept(p)
           /\ Control(p)' /\ Knows(p)'
<1>1. LocalTypeOK'
  BY DEF LocalTypeOK, Exit, PCs
<1>2. OthersKept(p)
  BY DEF LocalTypeOK, Exit, OthersKept, LocalKept
<1>3. pc'[p] = "idle"
  BY DEF LocalTypeOK, Exit
<1>4. QED
  BY <1>1, <1>2, <1>3 DEF LocksKept, Control, Knows, Locked, Bound
\* A step that writes neither a receipt nor a checkpoint.
LEMMA QuietFiles ==
    ASSUME IInv, NEW p \in Procs, UNCHANGED <<receipt, checkpoint>>
    PROVE  FilesKept(p) /\ ReceiptLeadsCheckpoint'
  BY DEF IInv, FilesKept, ReceiptLeadsCheckpoint

\* Leaving the command with the files as they are.
LEMMA RefusalKeepsInvariant ==
    ASSUME IInv, NEW p \in Procs, NEW why, Exit(p, why),
           UNCHANGED <<receipt, checkpoint>>, FilesTypeOK', WorldTypeOK'
    PROVE  IInv'
<1>1. LocalTypeOK' /\ OthersKept(p) /\ LocksKept(p) /\ Control(p)' /\ Knows(p)'
  BY ExitIsCorrect DEF IInv, StateTypeOK
<1>2. FilesKept(p) /\ ReceiptLeadsCheckpoint'
  BY QuietFiles
<1>3. StateTypeOK'
  BY <1>1 DEF StateTypeOK
<1>4. QED
  BY <1>1, <1>2, <1>3, LocksStayExclusive, StepKeepsInvariant DEF StepOK

-----------------------------------------------------------------------------
(* One lemma per action.                                                   *)

LEMMA BeginStep ==
    ASSUME IInv, NEW p \in Procs, Begin(p) PROVE IInv'
<1>1. FilesTypeOK' /\ WorldTypeOK'
  BY DEF IInv, StateTypeOK, FilesTypeOK, WorldTypeOK, Begin, world
<1>2. UNCHANGED <<receipt, checkpoint>>
  BY DEF Begin
<1>3. PICK q \in Pairs, onError \in {"stop", "continue"} :
        IF ValidSource(source)
        THEN /\ pair'   = [pair EXCEPT ![p] = q]
             /\ plan'   = [plan EXCEPT ![p] = source]
             /\ policy' = [policy EXCEPT ![p] = onError]
             /\ pc'     = [pc EXCEPT ![p] = "planned"]
             /\ result' = [result EXCEPT ![p] = None]
             /\ UNCHANGED <<session, seen, mem, line, sent, reply, seq>>
        ELSE Exit(p, "source_invalid")
  BY DEF Begin
<1>4. CASE ~ValidSource(source)
  BY <1>1, <1>2, <1>3, <1>4, RefusalKeepsInvariant
<1>5. CASE ValidSource(source)
  <2>0. source \in Seq(Rows) /\ q \in Pair
    BY ImportConstants DEF IInv, StateTypeOK, WorldTypeOK
  <2>1. LocalTypeOK'
    <3>1. pc' \in [Procs -> PCs]
      BY <1>3, <1>5 DEF IInv, StateTypeOK, LocalTypeOK, PCs
    <3>2. pair' \in [Procs -> Pair \union {None}] /\ plan' \in [Procs -> Seq(Rows) \union {None}]
      <4>1. pair \in [Procs -> Pair \union {None}] /\ plan \in [Procs -> Seq(Rows) \union {None}]
        BY DEF IInv, StateTypeOK, LocalTypeOK
      <4>2. pair' = [pair EXCEPT ![p] = q] /\ plan' = [plan EXCEPT ![p] = source]
        BY <1>3, <1>5
      <4>3. QED
        BY <4>1, <4>2, <2>0
    <3>3. policy' \in [Procs -> {"stop", "continue", None}]
      BY <1>3, <1>5 DEF IInv, StateTypeOK, LocalTypeOK
    <3>4. QED
      BY <1>3, <1>5, <3>1, <3>2, <3>3 DEF IInv, StateTypeOK, LocalTypeOK
  <2>2. OthersKept(p) /\ pc'[p] = "planned"
    BY <1>3, <1>5 DEF IInv, StateTypeOK, LocalTypeOK, OthersKept, LocalKept
  <2>3. Control(p)' /\ Knows(p)' /\ LocksKept(p)
    BY <1>3, <1>5, <2>0, <2>2
       DEF IInv, StateTypeOK, WorldTypeOK, LocalTypeOK, Control, Knows, Started,
           LocksKept, Locked, Bound
  <2>4. QED
    BY <1>1, <1>2, <2>1, <2>2, <2>3, QuietFiles, LocksStayExclusive,
       StepKeepsInvariant DEF StepOK, StateTypeOK
<1>6. QED
  BY <1>4, <1>5

LEMMA ConfirmSourceStep ==
    ASSUME IInv, NEW p \in Procs, ConfirmSource(p) PROVE IInv'
<1>1. FilesTypeOK' /\ WorldTypeOK' /\ UNCHANGED <<receipt, checkpoint>>
  BY DEF IInv, StateTypeOK, FilesTypeOK, WorldTypeOK, ConfirmSource, world, files
<1>2. CASE source # plan[p]
  BY <1>1, <1>2, RefusalKeepsInvariant DEF ConfirmSource
<1>3. CASE source = plan[p]
  <2>1. LocalTypeOK' /\ OthersKept(p) /\ pc'[p] = "confirmed" /\ UNCHANGED local
    BY <1>3 DEF IInv, StateTypeOK, LocalTypeOK, ConfirmSource, Goto, local, PCs,
                OthersKept, LocalKept
  <2>2. Control(p)' /\ Knows(p)' /\ LocksKept(p)
    BY <2>1, <1>3 DEF IInv, ConfirmSource, Control, Knows, Started, LocksKept,
                      Locked, Bound, local
  <2>3. QED
    BY <1>1, <2>1, <2>2, QuietFiles, LocksStayExclusive, StepKeepsInvariant
       DEF StepOK, StateTypeOK
<1>4. QED
  BY <1>2, <1>3

LEMMA AcquireImportLocksStep ==
    ASSUME IInv, NEW p \in Procs, AcquireImportLocks(p) PROVE IInv'
<1>1. FilesTypeOK' /\ WorldTypeOK' /\ UNCHANGED <<receipt, checkpoint>>
  BY DEF IInv, StateTypeOK, FilesTypeOK, WorldTypeOK, AcquireImportLocks, world, files
<1>2. CASE ~LocksFree(p, pair[p])
  BY <1>1, <1>2, RefusalKeepsInvariant DEF AcquireImportLocks
<1>3. CASE LocksFree(p, pair[p])
  <2>1. LocalTypeOK' /\ OthersKept(p) /\ pc'[p] = "locked" /\ UNCHANGED local
    BY <1>3 DEF IInv, StateTypeOK, LocalTypeOK, AcquireImportLocks, Goto, local, PCs,
                Locked, OthersKept, LocalKept
  <2>2. Control(p)' /\ Knows(p)'
    BY <2>1, <1>3 DEF IInv, AcquireImportLocks, Control, Knows, Started, Bound, local
  <2>3. LocksExclusive'
    BY <1>3, <2>1 DEF IInv, LocksExclusive, LocksFree, OthersKept, LocalKept, local
  <2>4. QED
    BY <1>1, <2>1, <2>2, <2>3, QuietFiles, StepKeepsInvariant DEF StepOK, StateTypeOK
<1>4. QED
  BY <1>2, <1>3

LEMMA LoadLocalStateStep ==
    ASSUME IInv, NEW p \in Procs, LoadLocalState(p) PROVE IInv'
<1> DEFINE rf == receipt[pair[p].receipt]
           cp == checkpoint[pair[p].checkpoint]
           st == LocalState(p, rf, cp)
<1>1. FilesTypeOK' /\ WorldTypeOK' /\ UNCHANGED <<receipt, checkpoint>>
  BY DEF IInv, StateTypeOK, FilesTypeOK, WorldTypeOK, LoadLocalState, world, files
<1>2. CASE st \notin {"fresh", "receipt_only", "resume"}
  BY <1>1, <1>2, RefusalKeepsInvariant DEF LoadLocalState
<1>3. CASE st \in {"fresh", "receipt_only", "resume"}
  <2>1. /\ pc[p] = "locked" /\ pair[p] \in Pair
        /\ rf \in ReceiptFile /\ cp \in Checkpoint \union {None}
    BY DEF LoadLocalState, IInv, Control, Started, StateTypeOK, FilesTypeOK, Pair
  <2>2. /\ rf.head = None => cp = None
        /\ rf.head # Torn
        /\ rf.head # None /\ cp = None => rf.events = <<>>
        /\ cp # None => cp.bound.pair = pair[p]
    BY <1>3, <2>1, ImportConstants DEF LocalState, BoundPreAuth
  <2>3. /\ pc' = [pc EXCEPT ![p] = "loaded"]
        /\ seen' = [seen EXCEPT ![p] = rf]
        /\ mem' = [mem EXCEPT ![p] = cp]
        /\ UNCHANGED <<pair, plan, policy, session, line, sent, reply, seq>>
    BY <1>3 DEF LoadLocalState, Goto
  <2>4. LocalTypeOK' /\ OthersKept(p) /\ pc'[p] = "loaded"
    BY <2>1, <2>3 DEF IInv, StateTypeOK, LocalTypeOK, PCs, Locked, OthersKept, LocalKept
  <2>5. Control(p)' /\ LocksKept(p)
    BY <2>1, <2>3, <2>4 DEF IInv, StateTypeOK, LocalTypeOK, Control, Started,
                            LocksKept, Locked, Bound
  <2>6. Knows(p)'
    BY <1>1, <2>1, <2>2, <2>3, <2>4 DEF IInv, StateTypeOK, LocalTypeOK, Knows, Bound
  <2>7. QED
    BY <1>1, <2>4, <2>5, <2>6, QuietFiles, LocksStayExclusive, StepKeepsInvariant
       DEF StepOK, StateTypeOK
<1>4. QED
  BY <1>2, <1>3
\* What the owner of a pair of locks can rely on.
LEMMA OwnFiles ==
    ASSUME IInv, NEW p \in Procs, pc[p] \in Locked
    PROVE  /\ pair[p] \in Pair
           /\ pair[p].receipt \in Receipts /\ pair[p].checkpoint \in Checkpoints
           /\ receipt[pair[p].receipt] \in ReceiptFile
           /\ checkpoint[pair[p].checkpoint] \in Checkpoint \union {None}
<1>1. pair[p] \in Pair
  BY DEF IInv, Control, Started, Locked
<1>2. QED
  BY <1>1 DEF IInv, StateTypeOK, FilesTypeOK, Pair

\* What a process binds its files to is a proper binding.
LEMMA ExpectedTyped ==
    ASSUME IInv, NEW p \in Procs, pc[p] \in {"opened"} \union Bound
    PROVE  Expected(p) \in Binding
<1>1. Started(p) /\ session[p] \in Bindings
  BY DEF IInv, Control, Bound
<1>2. QED
  BY <1>1 DEF Started, Expected, Binding

\* The only checkpoint bound to a receipt this process owns is its own.
LEMMA OwnCheckpointOnly ==
    ASSUME IInv, NEW p \in Procs, pc[p] \in Locked,
           NEW c \in Checkpoints, checkpoint[c] # None,
           checkpoint[c].bound.pair.receipt = pair[p].receipt
    PROVE  /\ receipt[pair[p].receipt].head = checkpoint[c].bound
           /\ receipt[pair[p].receipt].head.pair = pair[p] => c = pair[p].checkpoint
  BY DEF IInv, ReceiptLeadsCheckpoint

LEMMA OpenSessionStep ==
    ASSUME IInv, NEW p \in Procs, OpenSession(p) PROVE IInv'
<1>1. FilesTypeOK' /\ WorldTypeOK' /\ UNCHANGED <<receipt, checkpoint>>
  BY DEF IInv, StateTypeOK, FilesTypeOK, WorldTypeOK, OpenSession, world, files
<1>2. CASE context = None
  BY <1>1, <1>2, RefusalKeepsInvariant DEF OpenSession
<1>3. CASE context # None
  <2>1. /\ pc[p] = "loaded" /\ context \in Bindings
        /\ pc' = [pc EXCEPT ![p] = "opened"]
        /\ session' = [session EXCEPT ![p] = context]
        /\ UNCHANGED <<pair, plan, policy, seen, mem, line, sent, reply, seq>>
    BY <1>3 DEF OpenSession, Goto, IInv, StateTypeOK, WorldTypeOK
  <2>2. LocalTypeOK' /\ OthersKept(p) /\ pc'[p] = "opened" /\ session'[p] = context
    BY <2>1 DEF IInv, StateTypeOK, LocalTypeOK, PCs, Locked, OthersKept, LocalKept
  <2>3. Control(p)' /\ Knows(p)' /\ LocksKept(p)
    BY <1>1, <2>1, <2>2 DEF IInv, Control, Knows, Started, LocksKept, Locked, Bound
  <2>4. QED
    BY <1>1, <2>2, <2>3, QuietFiles, LocksStayExclusive, StepKeepsInvariant
       DEF StepOK, StateTypeOK
<1>4. QED
  BY <1>2, <1>3

\* Under the locks the receipt a fresh import creates is not there.
LEMMA NewReceiptIsNew ==
    ASSUME IInv, NEW p \in Procs, CreateReceipt(p)
    PROVE  receipt[pair[p].receipt].head = None
  BY DEF CreateReceipt, IInv, Knows

LEMMA CreateReceiptStep ==
    ASSUME IInv, NEW p \in Procs, CreateReceipt(p) PROVE IInv'
<1> DEFINE r == pair[p].receipt
<1>1. /\ pc[p] = "opened" /\ seen[p].head = None
      /\ receipt' = [receipt EXCEPT ![r].head = Torn]
      /\ pc' = [pc EXCEPT ![p] = "header"]
      /\ UNCHANGED <<checkpoint, stages, world, local>>
  BY NewReceiptIsNew DEF CreateReceipt, Goto
<1>2. /\ r \in Receipts /\ pair[p].checkpoint \in Checkpoints
      /\ receipt[r] \in ReceiptFile
      /\ receipt[r].head = None /\ checkpoint[pair[p].checkpoint] = None
  BY <1>1, OwnFiles DEF IInv, Knows, Locked
<1>3. FilesTypeOK' /\ WorldTypeOK'
  <2>1. [receipt[r] EXCEPT !.head = Torn] \in ReceiptFile
    BY <1>2 DEF ReceiptFile
  <2>2. receipt' \in [Receipts -> ReceiptFile]
    BY <1>1, <2>1 DEF IInv, StateTypeOK, FilesTypeOK
  <2>3. QED
    BY <1>1, <2>2 DEF IInv, StateTypeOK, FilesTypeOK, WorldTypeOK, world
<1>4. LocalTypeOK' /\ OthersKept(p) /\ pc'[p] = "header"
  BY <1>1 DEF IInv, StateTypeOK, LocalTypeOK, PCs, Locked, local, OthersKept, LocalKept
<1>5. /\ receipt'[r].head = Torn
      /\ \A o \in Receipts : o # r => receipt'[o] = receipt[o]
  BY <1>1, <1>2 DEF IInv, StateTypeOK, FilesTypeOK, ReceiptFile
<1>6. Control(p)' /\ Knows(p)' /\ LocksKept(p)
  BY <1>1, <1>2, <1>4, <1>5 DEF IInv, Control, Knows, Started, LocksKept, Locked, Bound, local
<1>7. FilesKept(p)
  BY <1>1, <1>5 DEF FilesKept, Locked
<1>8. ReceiptLeadsCheckpoint'
  <2> SUFFICES ASSUME NEW c \in Checkpoints, checkpoint[c] # None
               PROVE  checkpoint[c].bound.pair.receipt # r
    BY <1>1, <1>5, ImportConstants
       DEF IInv, StateTypeOK, FilesTypeOK, Checkpoint, Binding, Pair, ReceiptLeadsCheckpoint
  <2>1. checkpoint[c].bound \in Binding
    BY DEF IInv, StateTypeOK, FilesTypeOK, Checkpoint
  <2>2. QED
    BY <1>1, <1>2, <2>1, OwnCheckpointOnly, ImportConstants DEF Locked
<1>9. QED
  BY <1>3, <1>4, <1>6, <1>7, <1>8, LocksStayExclusive, StepKeepsInvariant
     DEF StepOK, StateTypeOK

LEMMA SyncHeaderStep ==
    ASSUME IInv, NEW p \in Procs, SyncHeader(p) PROVE IInv'
<1> DEFINE r == pair[p].receipt
           f == [head |-> Expected(p), events |-> <<>>, tail |-> FALSE]
<1>1. /\ pc[p] = "header"
      /\ receipt' = [receipt EXCEPT ![r] = f]
      /\ seen' = [seen EXCEPT ![p] = f]
      /\ mem' = [mem EXCEPT ![p] = FreshCheckpoint(p)]
      /\ pc' = [pc EXCEPT ![p] = "checkpoint"]
      /\ UNCHANGED <<checkpoint, stages, world, pair, plan, policy, session,
                     line, sent, reply, seq>>
  BY DEF SyncHeader, Goto
<1>2. /\ r \in Receipts /\ pair[p].checkpoint \in Checkpoints
      /\ receipt[r].head = Torn /\ checkpoint[pair[p].checkpoint] = None
  BY <1>1, OwnFiles DEF IInv, Knows, Locked
<1>3. Expected(p) \in Binding
  BY <1>1, ExpectedTyped DEF Bound
<1>4. f \in ReceiptFile /\ FreshCheckpoint(p) \in Checkpoint
  BY <1>3 DEF ReceiptFile, Checkpoint, FreshCheckpoint
<1>5. FilesTypeOK' /\ WorldTypeOK'
  BY <1>1, <1>4 DEF IInv, StateTypeOK, FilesTypeOK, WorldTypeOK, world
<1>6. LocalTypeOK' /\ OthersKept(p) /\ pc'[p] = "checkpoint"
      /\ seen'[p] = f /\ mem'[p] = FreshCheckpoint(p)
  BY <1>1, <1>4 DEF IInv, StateTypeOK, LocalTypeOK, PCs, Locked, OthersKept, LocalKept
<1>7. receipt'[r] = f /\ \A o \in Receipts : o # r => receipt'[o] = receipt[o]
  BY <1>1, <1>2 DEF IInv, StateTypeOK, FilesTypeOK
<1>8. Control(p)' /\ LocksKept(p)
  BY <1>1, <1>4, <1>6 DEF IInv, Control, Started, LocksKept, Locked, Bound
<1>9. Knows(p)'
  BY <1>1, <1>2, <1>6, <1>7 DEF Knows, Bound, Expected, FreshCheckpoint
<1>10. FilesKept(p)
  BY <1>1, <1>7 DEF FilesKept, Locked
<1>11. ReceiptLeadsCheckpoint'
  <2> SUFFICES ASSUME NEW c \in Checkpoints, checkpoint[c] # None
               PROVE  checkpoint[c].bound.pair.receipt # r
    BY <1>1, <1>7
       DEF IInv, StateTypeOK, FilesTypeOK, Checkpoint, Binding, Pair, ReceiptLeadsCheckpoint
  <2>1. checkpoint[c].bound \in Binding
    BY DEF IInv, StateTypeOK, FilesTypeOK, Checkpoint
  <2>2. QED
    BY <1>1, <1>2, <2>1, OwnCheckpointOnly, ImportConstants DEF Locked
<1>12. QED
  BY <1>5, <1>6, <1>8, <1>9, <1>10, <1>11, LocksStayExclusive, StepKeepsInvariant
     DEF StepOK, StateTypeOK
LEMMA RecoverHeaderStep ==
    ASSUME IInv, NEW p \in Procs, RecoverHeader(p) PROVE IInv'
<1>1. FilesTypeOK' /\ WorldTypeOK' /\ UNCHANGED <<receipt, checkpoint>>
  BY DEF IInv, StateTypeOK, FilesTypeOK, WorldTypeOK, RecoverHeader, world, files
<1>2. CASE ~SameBinding(p)
  BY <1>1, <1>2, RefusalKeepsInvariant DEF RecoverHeader
<1>3. CASE SameBinding(p)
  <2>1. /\ pc[p] = "opened" /\ seen[p].head # None /\ mem[p] = None
        /\ seen[p].head = Expected(p) /\ receipt[pair[p].receipt] = seen[p]
        /\ mem' = [mem EXCEPT ![p] = FreshCheckpoint(p)]
        /\ pc' = [pc EXCEPT ![p] = "checkpoint"]
        /\ UNCHANGED <<pair, plan, policy, session, seen, line, sent, reply, seq>>
    BY <1>3 DEF RecoverHeader, Goto, SameBinding
  <2>2. seen[p].events = <<>> /\ checkpoint[pair[p].checkpoint] = None
    BY <2>1 DEF IInv, Knows
  <2>3. Expected(p) \in Binding
    BY <2>1, ExpectedTyped
  <2>4. FreshCheckpoint(p) \in Checkpoint
    BY <2>3 DEF Checkpoint, FreshCheckpoint
  <2>5. LocalTypeOK' /\ OthersKept(p) /\ pc'[p] = "checkpoint"
        /\ mem'[p] = FreshCheckpoint(p)
    BY <2>1, <2>4 DEF IInv, StateTypeOK, LocalTypeOK, PCs, Locked, OthersKept, LocalKept
  <2>6. Control(p)' /\ LocksKept(p)
    BY <2>1, <2>4, <2>5 DEF IInv, Control, Started, LocksKept, Locked, Bound
  <2>7. Knows(p)'
    BY <1>1, <2>1, <2>2, <2>5 DEF Knows, Bound, Expected, FreshCheckpoint
  <2>8. QED
    BY <1>1, <2>5, <2>6, <2>7, QuietFiles, LocksStayExclusive, StepKeepsInvariant
       DEF StepOK, StateTypeOK
<1>4. QED
  BY <1>2, <1>3

LEMMA RebindStep ==
    ASSUME IInv, NEW p \in Procs, Rebind(p) PROVE IInv'
<1>1. FilesTypeOK' /\ WorldTypeOK' /\ UNCHANGED <<receipt, checkpoint>>
  BY DEF IInv, StateTypeOK, FilesTypeOK, WorldTypeOK, Rebind, world, files
<1>2. CASE ~SameBinding(p)
  BY <1>1, <1>2, RefusalKeepsInvariant DEF Rebind
<1>3. CASE SameBinding(p)
  <2>1. PICK to \in {"cut", "reconcile"} :
          pc[p] = "opened" /\ mem[p] # None /\ pc' = [pc EXCEPT ![p] = to] /\ UNCHANGED local
    BY <1>3 DEF Rebind, Goto
  <2>2. /\ seen[p].head = Expected(p) /\ mem[p].bound = Expected(p)
        /\ receipt[pair[p].receipt] = seen[p] /\ seen[p] \in ReceiptFile
        /\ checkpoint[pair[p].checkpoint] = mem[p] /\ mem[p] \in Checkpoint
    BY <1>3, <2>1, OwnFiles DEF SameBinding, IInv, Knows, Control, Locked
  <2>3. LocalTypeOK' /\ OthersKept(p) /\ pc'[p] = to
    BY <2>1 DEF IInv, StateTypeOK, LocalTypeOK, PCs, Locked, local, OthersKept, LocalKept
  <2>4. Control(p)' /\ LocksKept(p)
    BY <2>1, <2>2, <2>3 DEF IInv, Control, Started, LocksKept, Locked, Bound, local
  <2>5. Knows(p)'
    BY <1>1, <2>1, <2>2, <2>3 DEF Knows, Bound, Expected, local
  <2>6. QED
    BY <1>1, <2>3, <2>4, <2>5, QuietFiles, LocksStayExclusive, StepKeepsInvariant
       DEF StepOK, StateTypeOK
<1>4. QED
  BY <1>2, <1>3

\* Under the locks the lines a process cuts back to are the lines there are.
LEMMA CutKeepsLines ==
    ASSUME IInv, NEW p \in Procs, CutTail(p)
    PROVE  /\ receipt'[pair[p].receipt] = [seen[p] EXCEPT !.tail = FALSE]
           /\ receipt'[pair[p].receipt].head = receipt[pair[p].receipt].head
           /\ receipt'[pair[p].receipt].events = receipt[pair[p].receipt].events
           /\ receipt'[pair[p].receipt] \in ReceiptFile
           /\ receipt[pair[p].receipt].head = Expected(p)
           /\ \A o \in Receipts : o # pair[p].receipt => receipt'[o] = receipt[o]
<1>1. /\ pc[p] = "cut"
      /\ receipt' = [receipt EXCEPT ![pair[p].receipt] = [seen[p] EXCEPT !.tail = FALSE]]
  BY DEF CutTail
<1>2. /\ pair[p].receipt \in Receipts /\ seen[p] \in ReceiptFile
      /\ receipt[pair[p].receipt].head = Expected(p) /\ seen[p].head = Expected(p)
      /\ seen[p].events = receipt[pair[p].receipt].events
  BY <1>1, OwnFiles DEF IInv, Knows, Control, Bound, Locked
<1>3. receipt \in [Receipts -> ReceiptFile]
  BY DEF IInv, StateTypeOK, FilesTypeOK
<1>4. receipt'[pair[p].receipt] = [seen[p] EXCEPT !.tail = FALSE]
  BY <1>1, <1>2, <1>3
<1>5. /\ [seen[p] EXCEPT !.tail = FALSE].head = seen[p].head
      /\ [seen[p] EXCEPT !.tail = FALSE].events = seen[p].events
      /\ [seen[p] EXCEPT !.tail = FALSE] \in ReceiptFile
  BY <1>2 DEF ReceiptFile
<1>6. QED
  BY <1>1, <1>2, <1>3, <1>4, <1>5

LEMMA CutTailStep ==
    ASSUME IInv, NEW p \in Procs, CutTail(p) PROVE IInv'
<1> DEFINE r == pair[p].receipt
           whole == [seen[p] EXCEPT !.tail = FALSE]
<1>1. /\ pc[p] = "cut" /\ pc' = [pc EXCEPT ![p] = "reconcile"]
      /\ receipt' = [receipt EXCEPT ![r] = whole]
      /\ seen' = [seen EXCEPT ![p] = whole]
      /\ UNCHANGED <<checkpoint, stages, world, pair, plan, policy, session, mem,
                     line, sent, reply, seq>>
  BY DEF CutTail, Goto
<1>2. /\ receipt'[r] = whole /\ receipt'[r].head = receipt[r].head
      /\ receipt'[r].events = receipt[r].events /\ whole \in ReceiptFile
      /\ receipt[r].head = Expected(p)
      /\ \A o \in Receipts : o # r => receipt'[o] = receipt[o]
  BY CutKeepsLines
<1>3. /\ r \in Receipts /\ receipt[r] \in ReceiptFile
      /\ mem[p].bound = Expected(p) /\ checkpoint[pair[p].checkpoint] = mem[p]
      /\ mem[p] \in Checkpoint
  BY <1>1, OwnFiles DEF IInv, Knows, Control, Bound, Locked
<1> HIDE DEF whole
<1>4. FilesTypeOK' /\ WorldTypeOK'
  BY <1>1, <1>2 DEF IInv, StateTypeOK, FilesTypeOK, WorldTypeOK, world
<1>5. LocalTypeOK' /\ OthersKept(p) /\ pc'[p] = "reconcile" /\ seen'[p] = whole
  <2>1. seen' \in [Procs -> ReceiptFile \union {None}]
    BY <1>1, <1>2 DEF IInv, StateTypeOK, LocalTypeOK
  <2>2. QED
    BY <1>1, <2>1 DEF IInv, StateTypeOK, LocalTypeOK, PCs, Locked, OthersKept, LocalKept
<1>6. Control(p)' /\ LocksKept(p)
  BY <1>1, <1>2, <1>3, <1>5 DEF IInv, Control, Started, LocksKept, Locked, Bound
<1>7. Knows(p)'
  BY <1>1, <1>2, <1>3, <1>5 DEF Knows, Bound, Expected
<1>8. FilesKept(p)
  BY <1>1, <1>2 DEF FilesKept, Locked
<1>9. ReceiptLeadsCheckpoint'
  BY <1>1, <1>2 DEF IInv, StateTypeOK, FilesTypeOK, Checkpoint, Binding, Pair,
                    ReceiptLeadsCheckpoint
<1>10. QED
  BY <1>4, <1>5, <1>6, <1>7, <1>8, <1>9, LocksStayExclusive, StepKeepsInvariant
     DEF StepOK, StateTypeOK

\* One terminal event moves a checkpoint one row on and keeps its binding.
LEMMA AdvanceMovesOne ==
    ASSUME NEW cp \in Checkpoint, NEW outcome
    PROVE  /\ Advance(cp, outcome) \in Checkpoint
           /\ Advance(cp, outcome).bound = cp.bound
           /\ Advance(cp, outcome).next = cp.next + 1
<1>1. cp.bound \in Binding /\ cp.next \in Nat /\ cp.committed \in Nat /\ cp.refused \in Nat
  BY DEF Checkpoint
<1>2. CASE outcome = "committed"
  <2>1. Advance(cp, outcome) = [bound |-> cp.bound, next |-> cp.next + 1,
                                committed |-> cp.committed + 1, refused |-> cp.refused]
    BY <1>2 DEF Advance, Checkpoint
  <2>2. QED
    BY <1>1, <2>1 DEF Checkpoint
<1>3. CASE outcome # "committed"
  <2>1. Advance(cp, outcome) = [bound |-> cp.bound, next |-> cp.next + 1,
                                committed |-> cp.committed, refused |-> cp.refused + 1]
    BY <1>3 DEF Advance, Checkpoint
  <2>2. QED
    BY <1>1, <2>1 DEF Checkpoint
<1>4. QED
  BY <1>2, <1>3

LEMMA ReconcileStep ==
    ASSUME IInv, NEW p \in Procs, Reconcile(p) PROVE IInv'
<1> DEFINE events == seen[p].events
           c == pair[p].checkpoint
           n == Len(receipt[pair[p].receipt].events)
<1>1. FilesTypeOK' /\ WorldTypeOK' /\ UNCHANGED <<receipt, checkpoint>>
  BY DEF IInv, StateTypeOK, FilesTypeOK, WorldTypeOK, Reconcile, world, files
<1>2. /\ pc[p] = "reconcile" /\ c \in Checkpoints
      /\ receipt[pair[p].receipt] \in ReceiptFile
      /\ mem[p] \in Checkpoint /\ checkpoint[c] = mem[p]
      /\ mem[p].bound = Expected(p) /\ Len(events) = n
  BY OwnFiles DEF Reconcile, IInv, Knows, Control, Locked, Bound
<1>3. n \in Nat /\ mem[p].next \in Nat
  BY <1>2 DEF ReceiptFile, Checkpoint
<1>4. CASE Len(events) = mem[p].next - 1
  <2>1. pc' = [pc EXCEPT ![p] = "row"] /\ UNCHANGED local
    BY <1>2, <1>3, <1>4 DEF Reconcile, OneAhead, Goto
  <2>2. LocalTypeOK' /\ OthersKept(p) /\ pc'[p] = "row"
    BY <2>1 DEF IInv, StateTypeOK, LocalTypeOK, PCs, Locked, local, OthersKept, LocalKept
  <2>3. Control(p)' /\ LocksKept(p)
    BY <1>2, <2>1, <2>2 DEF IInv, Control, Started, LocksKept, Locked, Bound, local
  <2>4. mem[p].next = n + 1
    BY <1>2, <1>3, <1>4
  <2>5. Knows(p)'
    BY <1>1, <1>2, <2>1, <2>2, <2>4 DEF IInv, Knows, Bound, Expected, local
  <2>6. QED
    BY <1>1, <2>2, <2>3, <2>5, QuietFiles, LocksStayExclusive, StepKeepsInvariant
       DEF StepOK, StateTypeOK
<1>5. CASE Len(events) # mem[p].next - 1 /\ OneAhead(p)
  <2> DEFINE m == Advance(mem[p], events[Len(events)].outcome)
  <2>1. /\ mem' = [mem EXCEPT ![p] = m]
        /\ pc' = [pc EXCEPT ![p] = "checkpoint"]
        /\ UNCHANGED <<pair, plan, policy, session, seen, line, sent, reply, seq>>
    BY <1>5 DEF Reconcile, Goto
  <2>2. m \in Checkpoint /\ m.bound = Expected(p) /\ m.next = mem[p].next + 1
    BY <1>2, AdvanceMovesOne
  <2>3. LocalTypeOK' /\ OthersKept(p) /\ pc'[p] = "checkpoint" /\ mem'[p] = m
    BY <2>1, <2>2 DEF IInv, StateTypeOK, LocalTypeOK, PCs, Locked, OthersKept, LocalKept
  <2>4. Control(p)' /\ LocksKept(p)
    BY <1>2, <2>1, <2>2, <2>3 DEF IInv, Control, Started, LocksKept, Locked, Bound
  <2>5. mem[p].next = n
    BY <1>2, <1>5 DEF OneAhead
  <2>6. Knows(p)'
    <3>1. /\ seen[p].head = Expected(p) /\ seen[p].events = receipt[pair[p].receipt].events
          /\ receipt[pair[p].receipt].head = Expected(p)
      BY <1>2 DEF IInv, Knows, Bound
    <3>2. mem'[p].next = n + 1 /\ checkpoint[c].next <= mem'[p].next
      <4>1. mem'[p].next = mem[p].next + 1
        BY <2>2, <2>3
      <4>2. n = Len(events) /\ checkpoint[c].next = mem[p].next
        BY <1>2
      <4>3. QED
        BY <1>3, <2>5, <4>1, <4>2
    <3>3. QED
      BY <1>1, <1>2, <2>1, <2>2, <2>3, <3>1, <3>2 DEF Knows, Bound, Expected
  <2>7. QED
    BY <1>1, <2>3, <2>4, <2>6, QuietFiles, LocksStayExclusive, StepKeepsInvariant
       DEF StepOK, StateTypeOK
<1>6. CASE Len(events) # mem[p].next - 1 /\ ~OneAhead(p)
  BY <1>1, <1>6, RefusalKeepsInvariant DEF Reconcile
<1>7. QED
  BY <1>4, <1>5, <1>6

LEMMA StageCheckpointStep ==
    ASSUME IInv, NEW p \in Procs, StageCheckpoint(p) PROVE IInv'
<1>1. WorldTypeOK' /\ UNCHANGED <<receipt, checkpoint>> /\ pc[p] = "checkpoint"
  BY DEF IInv, StateTypeOK, WorldTypeOK, StageCheckpoint, world
<1>2. CASE StageName(p) \in stages
  <2>1. FilesTypeOK'
    BY <1>1, <1>2 DEF StageCheckpoint, IInv, StateTypeOK, FilesTypeOK
  <2>2. QED
    BY <1>1, <1>2, <2>1, RefusalKeepsInvariant DEF StageCheckpoint
<1>3. CASE StageName(p) \notin stages
  <2>1. /\ stages' = stages \union {StageName(p)}
        /\ pc' = [pc EXCEPT ![p] = "staged"] /\ UNCHANGED local
    BY <1>3 DEF StageCheckpoint, Goto
  <2>2. StageName(p) \in [checkpoint : Checkpoints, pid : Procs, seq : Nat]
    BY <1>1, OwnFiles DEF StageName, IInv, StateTypeOK, LocalTypeOK, Locked
  <2>3. FilesTypeOK'
    BY <1>1, <2>1, <2>2 DEF IInv, StateTypeOK, FilesTypeOK
  <2>4. LocalTypeOK' /\ OthersKept(p) /\ pc'[p] = "staged"
    BY <2>1 DEF IInv, StateTypeOK, LocalTypeOK, PCs, Locked, local, OthersKept, LocalKept
  <2>5. Control(p)' /\ LocksKept(p)
    BY <1>1, <2>1, <2>4 DEF IInv, Control, Started, LocksKept, Locked, Bound, local
  <2>6. Knows(p)'
    BY <1>1, <2>1, <2>4 DEF IInv, Knows, Bound, Expected, local
  <2>7. QED
    BY <1>1, <2>3, <2>4, <2>5, <2>6, QuietFiles, LocksStayExclusive,
       StepKeepsInvariant DEF StepOK, StateTypeOK
<1>4. QED
  BY <1>2, <1>3
LEMMA ReplaceCheckpointStep ==
    ASSUME IInv, NEW p \in Procs, ReplaceCheckpoint(p) PROVE IInv'
<1> DEFINE c == pair[p].checkpoint
           r == pair[p].receipt
<1>1. /\ pc[p] = "staged" /\ stages' = stages \ {StageName(p)}
      /\ checkpoint' = [checkpoint EXCEPT ![c] = mem[p]]
      /\ UNCHANGED <<receipt, world>>
  BY DEF ReplaceCheckpoint
<1>2. /\ pair[p] \in Pair /\ r \in Receipts /\ c \in Checkpoints
      /\ receipt[r] \in ReceiptFile
      /\ mem[p] \in Checkpoint /\ mem[p].bound = Expected(p)
      /\ receipt[r].head = Expected(p) /\ mem[p].next = Len(receipt[r].events) + 1
  BY <1>1, OwnFiles DEF IInv, Knows, Control, Locked, Bound
<1>3. FilesTypeOK' /\ WorldTypeOK'
  BY <1>1, <1>2 DEF IInv, StateTypeOK, FilesTypeOK, WorldTypeOK, world
<1>4. checkpoint'[c] = mem[p] /\ \A o \in Checkpoints : o # c => checkpoint'[o] = checkpoint[o]
  BY <1>1, <1>2 DEF IInv, StateTypeOK, FilesTypeOK
<1>5. FilesKept(p)
  BY <1>1, <1>4 DEF FilesKept, Locked
<1>6. ReceiptLeadsCheckpoint'
  <2>1. Expected(p).pair.checkpoint = c /\ Expected(p).pair.receipt = r
    BY DEF Expected
  <2>2. Len(receipt[r].events) \in Nat
    BY <1>2 DEF ReceiptFile
  <2>3. Len(receipt[r].events) = mem[p].next - 1
    BY <1>2, <2>2
  <2> SUFFICES ASSUME NEW d \in Checkpoints, checkpoint'[d] # None
               PROVE  /\ checkpoint'[d].bound.pair.checkpoint = d
                      /\ receipt[checkpoint'[d].bound.pair.receipt].head = checkpoint'[d].bound
                      /\ Len(receipt[checkpoint'[d].bound.pair.receipt].events)
                           \in {checkpoint'[d].next - 1, checkpoint'[d].next}
    BY <1>1 DEF ReceiptLeadsCheckpoint
  <2>4. CASE d = c
    BY <1>2, <1>4, <2>1, <2>3, <2>4
  <2>5. CASE d # c
    BY <1>4, <2>5 DEF IInv, ReceiptLeadsCheckpoint
  <2>6. QED
    BY <2>4, <2>5
<1>7. CASE Stops(p)
  <2>1. Exit(p, "row_refused")
    BY <1>7 DEF ReplaceCheckpoint
  <2>2. LocalTypeOK' /\ OthersKept(p) /\ LocksKept(p) /\ Control(p)' /\ Knows(p)'
    BY <2>1, ExitIsCorrect DEF IInv, StateTypeOK
  <2>3. QED
    BY <1>3, <1>5, <1>6, <2>2, LocksStayExclusive, StepKeepsInvariant DEF StepOK, StateTypeOK
<1>8. CASE ~Stops(p)
  <2>1. /\ line' = [line EXCEPT ![p] = IF reply[p] = None THEN @ ELSE @ + 1]
        /\ sent' = [sent EXCEPT ![p] = None]
        /\ reply' = [reply EXCEPT ![p] = None]
        /\ seq' = [seq EXCEPT ![p] = @ + 1]
        /\ pc' = [pc EXCEPT ![p] = "row"]
        /\ UNCHANGED <<pair, plan, policy, session, seen, mem>>
    BY <1>8 DEF ReplaceCheckpoint, Goto
  <2>2. LocalTypeOK'
    <3>1. line' \in [Procs -> Nat] /\ seq' \in [Procs -> Nat]
      <4>1. line[p] \in Nat /\ seq[p] \in Nat
        BY DEF IInv, StateTypeOK, LocalTypeOK
      <4>2. (IF reply[p] = None THEN line[p] ELSE line[p] + 1) \in Nat
        BY <4>1
      <4>3. QED
        BY <2>1, <4>1, <4>2 DEF IInv, StateTypeOK, LocalTypeOK
    <3>2. sent' \in [Procs -> Rows \union {None}] /\ reply' \in [Procs -> Outcomes \union {None}]
      BY <2>1 DEF IInv, StateTypeOK, LocalTypeOK
    <3>3. pc' \in [Procs -> PCs]
      BY <2>1 DEF IInv, StateTypeOK, LocalTypeOK, PCs, Locked
    <3>4. QED
      BY <2>1, <3>1, <3>2, <3>3 DEF IInv, StateTypeOK, LocalTypeOK
  <2>3. OthersKept(p) /\ pc'[p] = "row"
    BY <2>1 DEF IInv, StateTypeOK, LocalTypeOK, OthersKept, LocalKept
  <2>4. Control(p)' /\ LocksKept(p)
    BY <1>1, <1>2, <2>1, <2>3 DEF IInv, Control, Started, LocksKept, Locked, Bound
  <2>5. Knows(p)'
    BY <1>1, <1>2, <1>4, <2>1, <2>3 DEF IInv, Knows, Bound, Expected
  <2>6. QED
    BY <1>3, <1>5, <1>6, <2>2, <2>3, <2>4, <2>5, LocksStayExclusive,
       StepKeepsInvariant DEF StepOK, StateTypeOK
<1>9. QED
  BY <1>7, <1>8

LEMMA ReplaceFailsStep ==
    ASSUME IInv, NEW p \in Procs, ReplaceFails(p) PROVE IInv'
<1>1. FilesTypeOK' /\ WorldTypeOK' /\ UNCHANGED <<receipt, checkpoint>>
  BY DEF IInv, StateTypeOK, FilesTypeOK, WorldTypeOK, ReplaceFails, Fault
<1>2. QED
  BY <1>1, RefusalKeepsInvariant DEF ReplaceFails

LEMMA SkipSettledRowStep ==
    ASSUME IInv, NEW p \in Procs, SkipSettledRow(p) PROVE IInv'
<1> DEFINE same == seen[p].events[line[p]].row = RowRead(p)
<1>1. FilesTypeOK' /\ WorldTypeOK' /\ UNCHANGED <<receipt, checkpoint>>
  BY DEF IInv, StateTypeOK, FilesTypeOK, WorldTypeOK, SkipSettledRow, world, files
<1>2. CASE ~same
  BY <1>1, <1>2, RefusalKeepsInvariant DEF SkipSettledRow
<1>3. CASE same
  <2>1. /\ line' = [line EXCEPT ![p] = @ + 1] /\ pc[p] = "row"
        /\ UNCHANGED <<pc, pair, plan, policy, session, seen, mem, sent, reply, seq>>
    BY <1>3 DEF SkipSettledRow, Reading
  <2>2. LocalTypeOK' /\ OthersKept(p)
    BY <2>1 DEF IInv, StateTypeOK, LocalTypeOK, OthersKept, LocalKept
  <2>3. Control(p)' /\ LocksKept(p)
    BY <2>1 DEF IInv, Control, Started, LocksKept
  <2>4. Knows(p)'
    BY <1>1, <2>1 DEF IInv, Knows, Expected
  <2>5. QED
    BY <1>1, <2>2, <2>3, <2>4, QuietFiles, LocksStayExclusive, StepKeepsInvariant
       DEF StepOK, StateTypeOK
<1>4. QED
  BY <1>2, <1>3

LEMMA SubmitRowStep ==
    ASSUME IInv, NEW p \in Procs, SubmitRow(p) PROVE IInv'
<1>1. FilesTypeOK' /\ WorldTypeOK' /\ UNCHANGED <<receipt, checkpoint>>
  BY DEF IInv, StateTypeOK, FilesTypeOK, WorldTypeOK, SubmitRow, world, files
<1>2. /\ pc[p] = "row" /\ sent' = [sent EXCEPT ![p] = RowRead(p)]
      /\ pc' = [pc EXCEPT ![p] = "await"]
      /\ UNCHANGED <<pair, plan, policy, session, seen, mem, line, reply, seq>>
  BY DEF SubmitRow, Reading, Goto
<1>3. RowRead(p) \in Rows
  <2>1. RowRead(p) = plan[p][line[p]] /\ line[p] = mem[p].next /\ line[p] <= Len(plan[p])
    BY DEF SubmitRow, RowAsPlanned
  <2>2. /\ plan[p] \in Seq(Rows) /\ receipt[pair[p].receipt] \in ReceiptFile
        /\ mem[p].next = Len(receipt[pair[p].receipt].events) + 1
    BY <1>2, OwnFiles DEF IInv, Control, Started, Knows, Locked
  <2>3. line[p] \in Nat /\ line[p] >= 1
    BY <2>1, <2>2 DEF ReceiptFile
  <2>4. QED
    BY <2>1, <2>2, <2>3
<1>4. LocalTypeOK' /\ OthersKept(p) /\ pc'[p] = "await" /\ sent'[p] \in Rows
  BY <1>2, <1>3 DEF IInv, StateTypeOK, LocalTypeOK, PCs, Locked, OthersKept, LocalKept
<1>5. Control(p)' /\ LocksKept(p)
  BY <1>2, <1>4 DEF IInv, Control, Started, LocksKept, Locked, Bound
<1>6. Knows(p)'
  BY <1>1, <1>2, <1>4 DEF IInv, Knows, Bound, Expected
<1>7. QED
  BY <1>1, <1>4, <1>5, <1>6, QuietFiles, LocksStayExclusive, StepKeepsInvariant
     DEF StepOK, StateTypeOK

LEMMA RowChangedStep ==
    ASSUME IInv, NEW p \in Procs, RowChanged(p) PROVE IInv'
<1>1. FilesTypeOK' /\ WorldTypeOK' /\ UNCHANGED <<receipt, checkpoint>>
  BY DEF IInv, StateTypeOK, FilesTypeOK, WorldTypeOK, RowChanged, world, files
<1>2. QED
  BY <1>1, RefusalKeepsInvariant DEF RowChanged

\* The service only ever stores the row it was sent.
LEMMA ApplyTyped ==
    ASSUME WorldTypeOK, ImportConstants, NEW b \in Bindings, NEW row \in Rows,
           Apply(b, row)
    PROVE  entries' \in [Bindings -> [Keys -> Rows \union {None, Foreign}]]
<1>1. KeyOf[row] \in Keys
  BY DEF ImportConstants
<1>2. entries \in [Bindings -> [Keys -> Rows \union {None, Foreign}]]
  BY DEF WorldTypeOK
<1>3. [entries[b] EXCEPT ![KeyOf[row]] = row] \in [Keys -> Rows \union {None, Foreign}]
  BY <1>1, <1>2
<1>4. QED
  BY <1>2, <1>3 DEF Apply

LEMMA AnswerTyped ==
    ASSUME NEW held, NEW row
    PROVE  Answer(held, row) \in Outcomes
  BY DEF Answer, Outcomes

LEMMA ServiceAnswersStep ==
    ASSUME IInv, NEW p \in Procs, ServiceAnswers(p) PROVE IInv'
<1> DEFINE a == Answer(Held(session[p], sent[p]), sent[p])
<1>1. /\ pc[p] = "await" /\ Apply(session[p], sent[p])
      /\ reply' = [reply EXCEPT ![p] = a]
      /\ pc' = [pc EXCEPT ![p] = "answered"]
      /\ UNCHANGED <<files, source, context, late, faults, pair, plan, policy,
                     session, seen, mem, line, sent, seq>>
  BY DEF ServiceAnswers, Goto
<1>2. session[p] \in Bindings /\ sent[p] \in Rows
  BY <1>1 DEF IInv, Control, Bound
<1>3. FilesTypeOK' /\ WorldTypeOK' /\ UNCHANGED <<receipt, checkpoint>>
  BY <1>1, <1>2, ApplyTyped, ImportConstants
     DEF IInv, StateTypeOK, FilesTypeOK, WorldTypeOK, files
<1>4. a \in Outcomes
  BY AnswerTyped
<1>5. LocalTypeOK' /\ OthersKept(p) /\ pc'[p] = "answered" /\ reply'[p] \in Outcomes
  BY <1>1, <1>4 DEF IInv, StateTypeOK, LocalTypeOK, PCs, Locked, OthersKept, LocalKept
<1>6. Control(p)' /\ LocksKept(p)
  BY <1>1, <1>2, <1>5 DEF IInv, Control, Started, LocksKept, Locked, Bound
<1>7. Knows(p)'
  BY <1>1, <1>3, <1>5 DEF IInv, Knows, Bound, Expected
<1>8. QED
  BY <1>3, <1>5, <1>6, <1>7, QuietFiles, LocksStayExclusive, StepKeepsInvariant
     DEF StepOK, StateTypeOK

\* An abandoned request is a row of the plan sent in the frozen project.
LEMMA InFlightTyped ==
    ASSUME IInv, NEW p \in Procs
    PROVE  InFlight(p) \subseteq [who : Bindings, row : Rows]
  BY DEF IInv, Control, InFlight, Bound

LEMMA PauseStep ==
    ASSUME IInv, NEW p \in Procs, Pause(p) PROVE IInv'
<1>1. FilesTypeOK' /\ WorldTypeOK' /\ UNCHANGED <<receipt, checkpoint>>
  BY InFlightTyped DEF IInv, StateTypeOK, FilesTypeOK, WorldTypeOK, Pause, Fault, files
<1>2. QED
  BY <1>1, RefusalKeepsInvariant DEF Pause

LEMMA DieStep ==
    ASSUME IInv, NEW p \in Procs, Die(p) PROVE IInv'
<1>1. FilesTypeOK' /\ WorldTypeOK' /\ UNCHANGED <<receipt, checkpoint>>
  BY InFlightTyped DEF IInv, StateTypeOK, FilesTypeOK, WorldTypeOK, Die, Fault, files
<1>2. QED
  BY <1>1, RefusalKeepsInvariant DEF Die
LEMMA BeginAppendStep ==
    ASSUME IInv, NEW p \in Procs, BeginAppend(p) PROVE IInv'
<1> DEFINE r == pair[p].receipt
<1>1. /\ pc[p] = "answered" /\ receipt' = [receipt EXCEPT ![r].tail = TRUE]
      /\ pc' = [pc EXCEPT ![p] = "append"]
      /\ UNCHANGED <<checkpoint, stages, world, local>>
  BY DEF BeginAppend, Goto
<1>2. r \in Receipts /\ receipt[r] \in ReceiptFile
  BY <1>1, OwnFiles DEF Locked
<1>3. [receipt[r] EXCEPT !.tail = TRUE] \in ReceiptFile
  BY <1>2 DEF ReceiptFile
<1>4. FilesTypeOK' /\ WorldTypeOK'
  <2>1. receipt' \in [Receipts -> ReceiptFile]
    BY <1>1, <1>3 DEF IInv, StateTypeOK, FilesTypeOK
  <2>2. QED
    BY <1>1, <2>1 DEF IInv, StateTypeOK, FilesTypeOK, WorldTypeOK, world
<1>5. LocalTypeOK' /\ OthersKept(p) /\ pc'[p] = "append"
  BY <1>1 DEF IInv, StateTypeOK, LocalTypeOK, PCs, Locked, local, OthersKept, LocalKept
<1>6. /\ receipt'[r].head = receipt[r].head /\ receipt'[r].events = receipt[r].events
      /\ \A o \in Receipts : o # r => receipt'[o] = receipt[o]
  BY <1>1, <1>2 DEF IInv, StateTypeOK, FilesTypeOK, ReceiptFile
<1>7. Control(p)' /\ LocksKept(p)
  BY <1>1, <1>5 DEF IInv, Control, Started, LocksKept, Locked, Bound, local
<1>8. Knows(p)'
  BY <1>1, <1>5, <1>6 DEF IInv, Knows, Bound, Expected, local
<1>9. FilesKept(p)
  BY <1>1, <1>6 DEF FilesKept, Locked
<1>10. ReceiptLeadsCheckpoint'
  BY <1>1, <1>6 DEF IInv, StateTypeOK, FilesTypeOK, Checkpoint, Binding, Pair,
                    ReceiptLeadsCheckpoint
<1>11. QED
  BY <1>4, <1>5, <1>7, <1>8, <1>9, <1>10, LocksStayExclusive, StepKeepsInvariant
     DEF StepOK, StateTypeOK

\* A settled row adds exactly one event to a receipt and keeps its manifest.
LEMMA SettledAddsOne ==
    ASSUME NEW f \in ReceiptFile, NEW row \in Rows, NEW outcome \in Outcomes
    PROVE  /\ Settled(f, row, outcome) \in ReceiptFile
           /\ Settled(f, row, outcome).head = f.head
           /\ Settled(f, row, outcome).events = Append(f.events, [row |-> row, outcome |-> outcome])
           /\ Len(Settled(f, row, outcome).events) = Len(f.events) + 1
<1>1. [row |-> row, outcome |-> outcome] \in Event
  BY DEF Event
<1>2. f.events \in Seq(Event) /\ f.head \in Binding \union {None, Torn}
  BY DEF ReceiptFile
<1>3. Settled(f, row, outcome) =
        [head |-> f.head, events |-> Append(f.events, [row |-> row, outcome |-> outcome]),
         tail |-> FALSE]
  BY DEF Settled
<1>4. Append(f.events, [row |-> row, outcome |-> outcome]) \in Seq(Event)
  BY <1>1, <1>2
<1>5. QED
  BY <1>2, <1>3, <1>4 DEF ReceiptFile

LEMMA SyncEventStep ==
    ASSUME IInv, NEW p \in Procs, SyncEvent(p) PROVE IInv'
<1> DEFINE r == pair[p].receipt
           c == pair[p].checkpoint
           f == Settled(receipt[r], sent[p], reply[p])
           g == Settled(seen[p], sent[p], reply[p])
           m == Advance(mem[p], reply[p])
<1>1. /\ pc[p] = "append"
      /\ receipt' = [receipt EXCEPT ![r] = f]
      /\ seen' = [seen EXCEPT ![p] = g]
      /\ mem' = [mem EXCEPT ![p] = m]
      /\ pc' = [pc EXCEPT ![p] = "checkpoint"]
      /\ UNCHANGED <<checkpoint, stages, world, pair, plan, policy, session, line,
                     sent, reply, seq>>
  BY DEF SyncEvent, Goto
<1>2. /\ pair[p] \in Pair /\ r \in Receipts /\ c \in Checkpoints
      /\ receipt[r] \in ReceiptFile /\ seen[p] \in ReceiptFile /\ mem[p] \in Checkpoint
      /\ sent[p] \in Rows /\ reply[p] \in Outcomes
      /\ receipt[r].head = Expected(p) /\ seen[p].head = Expected(p)
      /\ seen[p].events = receipt[r].events
      /\ mem[p].bound = Expected(p) /\ checkpoint[c] = mem[p]
      /\ mem[p].next = Len(receipt[r].events) + 1
  BY <1>1, OwnFiles DEF IInv, Knows, Control, Locked, Bound
<1>3. /\ f \in ReceiptFile /\ f.head = Expected(p)
      /\ g \in ReceiptFile /\ g.head = Expected(p) /\ g.events = f.events
      /\ Len(f.events) = Len(receipt[r].events) + 1
  <2>1. /\ f \in ReceiptFile /\ f.head = receipt[r].head
        /\ f.events = Append(receipt[r].events, [row |-> sent[p], outcome |-> reply[p]])
        /\ Len(f.events) = Len(receipt[r].events) + 1
    BY <1>2, SettledAddsOne
  <2>2. /\ g \in ReceiptFile /\ g.head = seen[p].head
        /\ g.events = Append(seen[p].events, [row |-> sent[p], outcome |-> reply[p]])
    BY <1>2, SettledAddsOne
  <2>3. QED
    BY <1>2, <2>1, <2>2
<1>4. m \in Checkpoint /\ m.bound = Expected(p) /\ m.next = mem[p].next + 1
  BY <1>2, AdvanceMovesOne
<1>5. FilesTypeOK' /\ WorldTypeOK'
  BY <1>1, <1>3 DEF IInv, StateTypeOK, FilesTypeOK, WorldTypeOK, world
<1>6. /\ LocalTypeOK' /\ OthersKept(p) /\ pc'[p] = "checkpoint"
      /\ seen'[p] = g /\ mem'[p] = m
  BY <1>1, <1>3, <1>4 DEF IInv, StateTypeOK, LocalTypeOK, PCs, Locked, OthersKept, LocalKept
<1>7. receipt'[r] = f /\ \A o \in Receipts : o # r => receipt'[o] = receipt[o]
  BY <1>1, <1>2 DEF IInv, StateTypeOK, FilesTypeOK
<1>8. Control(p)' /\ LocksKept(p)
  BY <1>1, <1>3, <1>4, <1>6 DEF IInv, Control, Started, LocksKept, Locked, Bound
<1>9. /\ Len(receipt[r].events) \in Nat /\ m.next = Len(f.events) + 1
      /\ mem[p].next <= m.next /\ Len(f.events) = mem[p].next
  BY <1>2, <1>3, <1>4 DEF ReceiptFile
<1>10. Knows(p)'
  <2>1. Expected(p)' = Expected(p)
    BY <1>1 DEF Expected
  <2>2. QED
    BY <1>1, <1>2, <1>3, <1>4, <1>6, <1>7, <1>9, <2>1 DEF Knows, Bound
<1>11. FilesKept(p)
  BY <1>1, <1>7 DEF FilesKept, Locked
<1>12. ReceiptLeadsCheckpoint'
  <2> SUFFICES ASSUME NEW d \in Checkpoints, checkpoint[d] # None
               PROVE  /\ checkpoint[d].bound.pair.checkpoint = d
                      /\ receipt'[checkpoint[d].bound.pair.receipt].head = checkpoint[d].bound
                      /\ Len(receipt'[checkpoint[d].bound.pair.receipt].events)
                           \in {checkpoint[d].next - 1, checkpoint[d].next}
    BY <1>1 DEF ReceiptLeadsCheckpoint
  <2>1. /\ checkpoint[d].bound.pair.checkpoint = d
        /\ receipt[checkpoint[d].bound.pair.receipt].head = checkpoint[d].bound
        /\ Len(receipt[checkpoint[d].bound.pair.receipt].events)
             \in {checkpoint[d].next - 1, checkpoint[d].next}
    BY DEF IInv, ReceiptLeadsCheckpoint
  <2>2. CASE checkpoint[d].bound.pair.receipt # r
    <3>1. checkpoint[d].bound.pair.receipt \in Receipts
      BY DEF IInv, StateTypeOK, FilesTypeOK, Checkpoint, Binding, Pair
    <3>2. QED
      BY <1>7, <2>1, <2>2, <3>1
  <2>3. CASE checkpoint[d].bound.pair.receipt = r
    <3>1. checkpoint[d].bound = Expected(p) /\ d = c
      BY <1>2, <2>1, <2>3 DEF Expected
    <3>2. QED
      BY <1>2, <1>3, <1>7, <1>9, <2>1, <2>3, <3>1
  <2>4. QED
    BY <2>2, <2>3
<1>13. QED
  BY <1>5, <1>6, <1>8, <1>10, <1>11, <1>12, LocksStayExclusive, StepKeepsInvariant
     DEF StepOK, StateTypeOK

LEMMA EndOfSourceStep ==
    ASSUME IInv, NEW p \in Procs, EndOfSource(p) PROVE IInv'
<1>1. FilesTypeOK' /\ WorldTypeOK' /\ UNCHANGED <<receipt, checkpoint>>
  BY DEF IInv, StateTypeOK, FilesTypeOK, WorldTypeOK, EndOfSource, world, files
<1>2. CASE line[p] - 1 # Len(plan[p])
  BY <1>1, <1>2, RefusalKeepsInvariant DEF EndOfSource
<1>3. CASE line[p] - 1 = Len(plan[p])
  <2>1. pc[p] = "row" /\ pc' = [pc EXCEPT ![p] = "final"] /\ UNCHANGED local
    BY <1>3 DEF EndOfSource, AtEnd, Goto
  <2>2. LocalTypeOK' /\ OthersKept(p) /\ pc'[p] = "final"
    BY <2>1 DEF IInv, StateTypeOK, LocalTypeOK, PCs, Locked, local, OthersKept, LocalKept
  <2>3. Control(p)' /\ LocksKept(p)
    BY <2>1, <2>2 DEF IInv, Control, Started, LocksKept, Locked, Bound, local
  <2>4. Knows(p)'
    BY <1>1, <2>1, <2>2 DEF IInv, Knows, Bound, Expected, local
  <2>5. QED
    BY <1>1, <2>2, <2>3, <2>4, QuietFiles, LocksStayExclusive, StepKeepsInvariant
       DEF StepOK, StateTypeOK
<1>4. QED
  BY <1>2, <1>3

LEMMA FinishStep ==
    ASSUME IInv, NEW p \in Procs, Finish(p) PROVE IInv'
<1>1. FilesTypeOK' /\ WorldTypeOK' /\ UNCHANGED <<receipt, checkpoint>>
  BY DEF IInv, StateTypeOK, FilesTypeOK, WorldTypeOK, Finish, world, files
<1>2. QED
  BY <1>1, RefusalKeepsInvariant DEF Finish

-----------------------------------------------------------------------------
(* The environment and the specification.                                  *)

\* No step outside the commands touches their files or their memory.
LEMMA EnvironmentKeepsInvariant ==
    ASSUME IInv, UNCHANGED <<files, local, pc>>, WorldTypeOK' PROVE IInv'
<1>1. StateTypeOK'
  BY DEF IInv, StateTypeOK, FilesTypeOK, LocalTypeOK, files, local
<1>2. \A p \in Procs : Control(p)' /\ Knows(p)'
  BY DEF IInv, Control, Started, Knows, Expected, files, local
<1>3. LocksExclusive' /\ ReceiptLeadsCheckpoint'
  BY DEF IInv, LocksExclusive, ReceiptLeadsCheckpoint, files, local
<1>4. QED
  BY <1>1, <1>2, <1>3 DEF IInv

LEMMA OpenSourceStep ==
    ASSUME IInv, NEW p \in Procs, OpenSource(p) PROVE IInv'
  BY EnvironmentKeepsInvariant DEF OpenSource, IInv, StateTypeOK, WorldTypeOK, world

LEMMA EnvironmentStep ==
    ASSUME IInv, LateArrival \/ EditSource \/ SwitchContext \/ ForeignCreate
    PROVE  IInv'
<1>1. UNCHANGED <<files, local, pc>>
  BY DEF LateArrival, EditSource, SwitchContext, ForeignCreate
<1>2. CASE LateArrival
  <2>1. PICK q \in late : Apply(q.who, q.row) /\ late' = late \ {q}
    BY <1>2 DEF LateArrival
  <2>2. q.who \in Bindings /\ q.row \in Rows
    BY <2>1 DEF IInv, StateTypeOK, WorldTypeOK
  <2>3. entries' \in [Bindings -> [Keys -> Rows \union {None, Foreign}]]
    BY <2>1, <2>2, ApplyTyped, ImportConstants DEF IInv, StateTypeOK
  <2>4. WorldTypeOK'
    BY <1>2, <2>1, <2>3 DEF LateArrival, IInv, StateTypeOK, WorldTypeOK
  <2>5. QED
    BY <1>1, <2>4, EnvironmentKeepsInvariant
<1>3. CASE EditSource
  BY <1>1, <1>3, EnvironmentKeepsInvariant DEF EditSource, Fault, IInv, StateTypeOK, WorldTypeOK
<1>4. CASE SwitchContext
  BY <1>1, <1>4, EnvironmentKeepsInvariant DEF SwitchContext, Fault, IInv, StateTypeOK, WorldTypeOK
<1>5. CASE ForeignCreate
  <2>1. entries' \in [Bindings -> [Keys -> Rows \union {None, Foreign}]]
    BY <1>5 DEF ForeignCreate, IInv, StateTypeOK, WorldTypeOK
  <2>2. WorldTypeOK'
    BY <1>5, <2>1 DEF ForeignCreate, Fault, IInv, StateTypeOK, WorldTypeOK
  <2>3. QED
    BY <1>1, <2>2, EnvironmentKeepsInvariant
<1>6. QED
  BY <1>2, <1>3, <1>4, <1>5

\* The invariant holds before any command ran.
LEMMA InitEstablishesInvariant == Init => IInv
<1> SUFFICES ASSUME Init PROVE IInv
  OBVIOUS
<1>1. FilesTypeOK
  <2>1. NoReceipt \in ReceiptFile
    BY DEF NoReceipt, ReceiptFile
  <2>2. QED
    BY <2>1 DEF Init, FilesTypeOK
<1>2. WorldTypeOK
  BY DEF Init, WorldTypeOK
<1>3. LocalTypeOK
  BY DEF Init, LocalTypeOK, PCs
<1>4. \A p \in Procs : pc[p] = "idle"
  BY DEF Init
<1>5. \A p \in Procs : Control(p) /\ Knows(p)
  BY <1>4 DEF Control, Knows, Bound
<1>6. LocksExclusive
  BY <1>4 DEF LocksExclusive, Locked
<1>7. ReceiptLeadsCheckpoint
  BY DEF Init, ReceiptLeadsCheckpoint
<1>8. QED
  BY <1>1, <1>2, <1>3, <1>5, <1>6, <1>7 DEF IInv, StateTypeOK

\* Every step of every command and of the environment keeps the invariant.
LEMMA NextKeepsInvariant == IInv /\ [Next]_vars => IInv'
<1> SUFFICES ASSUME IInv, [Next]_vars PROVE IInv'
  OBVIOUS
<1>1. ASSUME NEW p \in Procs, Step(p) PROVE IInv'
  BY <1>1, ConfirmSourceStep, AcquireImportLocksStep, LoadLocalStateStep,
     OpenSessionStep, CreateReceiptStep, SyncHeaderStep, RecoverHeaderStep,
     RebindStep, CutTailStep, ReconcileStep, StageCheckpointStep, ReplaceCheckpointStep,
     OpenSourceStep, SkipSettledRowStep, SubmitRowStep, RowChangedStep, ServiceAnswersStep,
     BeginAppendStep, SyncEventStep, EndOfSourceStep, FinishStep DEF Step
<1>2. ASSUME NEW p \in Procs, Begin(p) \/ Pause(p) \/ ReplaceFails(p) \/ Die(p)
      PROVE  IInv'
  BY <1>2, BeginStep, PauseStep, ReplaceFailsStep, DieStep
<1>3. CASE UNCHANGED vars
  BY <1>3, EnvironmentKeepsInvariant DEF vars, world, IInv, StateTypeOK, WorldTypeOK
<1>4. QED
  BY <1>1, <1>2, <1>3, EnvironmentStep DEF Next

\* The strengthened invariant holds of every behaviour.
THEOREM Inductive == Spec => []IInv
  BY InitEstablishesInvariant, NextKeepsInvariant, PTL DEF Spec

\* A command only ends in one of the ways the command line knows.
LEMMA ResultStep == ResultTypeOK /\ [Next]_vars => ResultTypeOK'
<1> SUFFICES ASSUME result \in [Procs -> Results], [Next]_vars
             PROVE  result' \in [Procs -> Results]
  BY DEF ResultTypeOK
<1>1. ASSUME NEW p \in Procs, NEW why \in Results, Exit(p, why)
      PROVE  result' \in [Procs -> Results]
  BY <1>1 DEF Exit
<1>2. ASSUME NEW p \in Procs,
             ConfirmSource(p) \/ AcquireImportLocks(p) \/ OpenSession(p)
               \/ CreateReceipt(p) \/ RecoverHeader(p)
      PROVE  result' \in [Procs -> Results]
  BY <1>1, <1>2 DEF ConfirmSource, AcquireImportLocks, OpenSession, CreateReceipt,
     RecoverHeader, Goto, Results
<1>3. ASSUME NEW p \in Procs, LoadLocalState(p)
      PROVE  result' \in [Procs -> Results]
  <2>1. \A rf, cp : LocalState(p, rf, cp) \notin {"fresh", "receipt_only", "resume"} =>
                       LocalState(p, rf, cp) \in Results
    BY DEF LocalState, Results
  <2>2. QED
    BY <1>1, <1>3, <2>1 DEF LoadLocalState, Goto
<1>4. ASSUME NEW p \in Procs,
             Rebind(p) \/ Reconcile(p) \/ StageCheckpoint(p) \/ ReplaceCheckpoint(p)
      PROVE  result' \in [Procs -> Results]
  BY <1>1, <1>4 DEF Rebind, Reconcile, StageCheckpoint, ReplaceCheckpoint, Goto, Results
<1>5. ASSUME NEW p \in Procs, SkipSettledRow(p) \/ RowChanged(p) \/ EndOfSource(p) \/ Finish(p)
      PROVE  result' \in [Procs -> Results]
  BY <1>1, <1>5 DEF SkipSettledRow, RowChanged, EndOfSource, Finish, Status, Goto, Results
<1>6. ASSUME NEW p \in Procs,
             SyncHeader(p) \/ CutTail(p) \/ OpenSource(p) \/ SubmitRow(p)
               \/ ServiceAnswers(p) \/ BeginAppend(p) \/ SyncEvent(p)
      PROVE  result' \in [Procs -> Results]
  BY <1>6 DEF SyncHeader, CutTail, OpenSource, SubmitRow, ServiceAnswers, BeginAppend,
     SyncEvent, Goto
<1>7. ASSUME NEW p \in Procs, Begin(p) \/ Pause(p) \/ ReplaceFails(p) \/ Die(p)
      PROVE  result' \in [Procs -> Results]
  BY <1>1, <1>7 DEF Begin, Pause, ReplaceFails, Die, Results
<1>8. CASE UNCHANGED result
  BY <1>8
<1>9. QED
  BY <1>2, <1>3, <1>4, <1>5, <1>6, <1>7, <1>8
     DEF Next, Step, LateArrival, EditSource, SwitchContext, ForeignCreate, vars

\* An open handle reads some content the source file had.
LEMMA HandleStep == IInv /\ HandleTypeOK /\ [Next]_vars => HandleTypeOK'
<1> SUFFICES ASSUME IInv, HandleTypeOK, [Next]_vars PROVE HandleTypeOK'
  OBVIOUS
<1> USE DEF HandleTypeOK
<1>1. source \in Sources
  BY DEF IInv, StateTypeOK, WorldTypeOK
<1>2. ASSUME NEW p \in Procs, NEW why, Exit(p, why) PROVE HandleTypeOK'
  BY <1>2 DEF Exit
<1>3. ASSUME NEW p \in Procs, Begin(p) \/ Pause(p) \/ ReplaceFails(p) \/ Die(p)
      PROVE  HandleTypeOK'
  BY <1>2, <1>3 DEF Begin, Pause, ReplaceFails, Die
<1>4. ASSUME NEW p \in Procs, OpenSource(p) PROVE HandleTypeOK'
  BY <1>1, <1>4 DEF OpenSource
<1>5. ASSUME NEW p \in Procs, Step(p), ~OpenSource(p) PROVE HandleTypeOK'
  <2>1. handle' = handle \/ \E why : Exit(p, why)
    BY <1>5 DEF Step, ConfirmSource, AcquireImportLocks, LoadLocalState, OpenSession,
       CreateReceipt, SyncHeader, RecoverHeader, Rebind, CutTail, Reconcile,
       StageCheckpoint, ReplaceCheckpoint, SkipSettledRow, SubmitRow, RowChanged,
       ServiceAnswers, BeginAppend, SyncEvent, EndOfSource, Finish, Goto
  <2>2. QED
    BY <1>2, <2>1
<1>6. ASSUME EditSource PROVE HandleTypeOK'
  BY <1>6 DEF EditSource
<1>7. CASE UNCHANGED handle
  BY <1>7
<1>8. QED
  BY <1>3, <1>4, <1>5, <1>6, <1>7
     DEF Next, LateArrival, SwitchContext, ForeignCreate, vars

\* Whatever is written to a receipt or a checkpoint, by any number of
\* processes on any paths, is a properly bound value of its type.
THEOREM TypeCorrect == Spec => []TypeOK
<1>1. IInv /\ ResultTypeOK /\ HandleTypeOK => TypeOK
  BY DEF IInv, TypeOK
<1>2. Init => ResultTypeOK /\ HandleTypeOK
  BY DEF Init, ResultTypeOK, HandleTypeOK, Results
<1>3. QED
  BY <1>1, <1>2, ResultStep, HandleStep, Inductive, PTL DEF Spec

\* Crash consistency of the import: after any interleaving of commands and any
\* number of deaths, a checkpoint is backed by the receipt it names, and that
\* receipt is at most one terminal event ahead, never behind.
THEOREM ReceiptLeads == Spec => []ReceiptLeadsCheckpoint
<1>1. IInv => ReceiptLeadsCheckpoint
  BY DEF IInv
<1>2. QED
  BY <1>1, Inductive, PTL
-----------------------------------------------------------------------------
(* What no step may do to the files.                                       *)

\* Only the rename of a staged checkpoint changes a checkpoint file.
LEMMA CheckpointWriters ==
    ASSUME Next, checkpoint' # checkpoint
    PROVE  \E p \in Procs : ReplaceCheckpoint(p)
<1>1. ASSUME NEW p \in Procs, Step(p) PROVE ReplaceCheckpoint(p)
  BY <1>1 DEF Step, ConfirmSource, AcquireImportLocks, LoadLocalState, OpenSession,
     CreateReceipt, SyncHeader, RecoverHeader, Rebind, CutTail, Reconcile, StageCheckpoint,
     OpenSource, SkipSettledRow, SubmitRow, RowChanged, ServiceAnswers, BeginAppend, SyncEvent,
     EndOfSource, Finish, files
<1>2. ASSUME NEW p \in Procs, Begin(p) \/ Pause(p) \/ ReplaceFails(p) \/ Die(p)
      PROVE  FALSE
  BY <1>2 DEF Begin, Pause, ReplaceFails, Die, files
<1>3. ~(LateArrival \/ EditSource \/ SwitchContext \/ ForeignCreate)
  BY DEF LateArrival, EditSource, SwitchContext, ForeignCreate, files
<1>4. QED
  BY <1>1, <1>2, <1>3 DEF Next

\* The rename puts the position this process knows over one that is not later.
LEMMA ReplaceMovesForward ==
    ASSUME IInv, NEW p \in Procs, ReplaceCheckpoint(p),
           NEW c \in Checkpoints, checkpoint[c] # None
    PROVE  /\ checkpoint'[c].bound = checkpoint[c].bound
           /\ checkpoint'[c].next >= checkpoint[c].next
<1>1. /\ pc[p] = "staged"
      /\ checkpoint' = [checkpoint EXCEPT ![pair[p].checkpoint] = mem[p]]
  BY DEF ReplaceCheckpoint
<1>2. /\ checkpoint \in [Checkpoints -> Checkpoint \union {None}]
      /\ checkpoint[c] \in Checkpoint /\ mem[p] \in Checkpoint
  BY <1>1 DEF IInv, StateTypeOK, FilesTypeOK, Control, Bound
<1>3. CASE c # pair[p].checkpoint
  BY <1>1, <1>2, <1>3 DEF Checkpoint
<1>4. CASE c = pair[p].checkpoint
  <2>1. checkpoint[c].bound = mem[p].bound /\ checkpoint[c].next <= mem[p].next
    BY <1>1, <1>4 DEF IInv, Knows, Bound
  <2>2. checkpoint'[c] = mem[p]
    BY <1>1, <1>2, <1>4
  <2>3. QED
    BY <1>2, <2>1, <2>2 DEF Checkpoint
<1>5. QED
  BY <1>3, <1>4

\* No interleaving of commands moves a checkpoint back or rebinds it.
THEOREM CheckpointMonotonic == Spec => CheckpointNeverRegresses
<1>1. ASSUME IInv, [Next]_vars
      PROVE  [\A c \in Checkpoints : checkpoint[c] # None =>
                /\ checkpoint'[c].bound = checkpoint[c].bound
                /\ checkpoint'[c].next >= checkpoint[c].next]_checkpoint
  <2>1. CASE checkpoint' = checkpoint
    BY <2>1
  <2>2. CASE checkpoint' # checkpoint
    <3>1. PICK p \in Procs : ReplaceCheckpoint(p)
      BY <1>1, <2>2, CheckpointWriters DEF vars, files
    <3>2. QED
      BY <1>1, <3>1, ReplaceMovesForward
  <2>3. QED
    BY <2>1, <2>2
<1>2. QED
  BY <1>1, Inductive, PTL DEF Spec, CheckpointNeverRegresses

\* The steps that write a receipt.
WritesReceipt(p) ==
    CreateReceipt(p) \/ SyncHeader(p) \/ CutTail(p) \/ BeginAppend(p) \/ SyncEvent(p)

LEMMA ReceiptWriters ==
    ASSUME Next, receipt' # receipt
    PROVE  \E p \in Procs : WritesReceipt(p)
<1>1. ASSUME NEW p \in Procs, Step(p) PROVE WritesReceipt(p)
  BY <1>1 DEF WritesReceipt, Step, ConfirmSource, AcquireImportLocks, LoadLocalState,
     OpenSession, RecoverHeader, Rebind, Reconcile, StageCheckpoint, ReplaceCheckpoint,
     OpenSource, SkipSettledRow, SubmitRow, RowChanged, ServiceAnswers, EndOfSource, Finish, files
<1>2. ASSUME NEW p \in Procs, Begin(p) \/ Pause(p) \/ ReplaceFails(p) \/ Die(p)
      PROVE  FALSE
  BY <1>2 DEF Begin, Pause, ReplaceFails, Die, files
<1>3. ~(LateArrival \/ EditSource \/ SwitchContext \/ ForeignCreate)
  BY DEF LateArrival, EditSource, SwitchContext, ForeignCreate, files
<1>4. QED
  BY <1>1, <1>2, <1>3 DEF Next

\* The receipt of another pair, and a receipt without a manifest, are out of
\* the reach of what EvidenceOnlyGrows speaks of.
GrowsAt(r) ==
    /\ receipt'[r].head = receipt[r].head
    /\ \/ receipt'[r].events = receipt[r].events
       \/ /\ Len(receipt'[r].events) = Len(receipt[r].events) + 1
          /\ \A i \in 1..Len(receipt[r].events) :
                receipt'[r].events[i] = receipt[r].events[i]
    /\ \E p \in Procs :
         /\ pc'[p] \in Bound /\ pair[p].receipt = r
         /\ session[p] = receipt[r].head.who /\ plan[p] = receipt[r].head.plan

LEMMA WriteGrows ==
    ASSUME IInv, NEW p \in Procs, WritesReceipt(p),
           NEW r \in Receipts, HasManifest(r), receipt'[r] # receipt[r]
    PROVE  GrowsAt(r)
<1>1. pc \in [Procs -> PCs] /\ receipt \in [Receipts -> ReceiptFile]
  BY DEF IInv, StateTypeOK, LocalTypeOK, FilesTypeOK
<1>2. /\ pc[p] \in Locked /\ pair[p].receipt \in Receipts
      /\ receipt[r] \in ReceiptFile /\ r = pair[p].receipt
  <2>1. pc[p] \in Locked
    BY DEF WritesReceipt, CreateReceipt, SyncHeader, CutTail, BeginAppend, SyncEvent, Locked
  <2>2. pair[p].receipt \in Receipts
    BY <2>1, OwnFiles
  <2>3. r = pair[p].receipt
    BY <1>1, <2>2 DEF WritesReceipt, CreateReceipt, SyncHeader, CutTail, BeginAppend, SyncEvent
  <2>4. QED
    BY <1>1, <2>1, <2>2, <2>3
<1>3. ~CreateReceipt(p)
  BY <1>2 DEF CreateReceipt, HasManifest, IInv, Knows
<1>4. ~SyncHeader(p)
  BY <1>2 DEF SyncHeader, HasManifest, IInv, Knows
<1>5. CASE CutTail(p)
  <2>1. /\ receipt'[r].head = receipt[r].head /\ receipt'[r].events = receipt[r].events
        /\ receipt[r].head = Expected(p)
    BY <1>2, <1>5, CutKeepsLines
  <2>2. pc' = [pc EXCEPT ![p] = "reconcile"]
    BY <1>5 DEF CutTail, Goto
  <2>3. QED
    BY <1>1, <1>2, <2>1, <2>2 DEF GrowsAt, Bound, Expected
<1>6. CASE BeginAppend(p)
  <2>1. /\ receipt' = [receipt EXCEPT ![r].tail = TRUE]
        /\ pc' = [pc EXCEPT ![p] = "append"] /\ pc[p] = "answered"
    BY <1>2, <1>6 DEF BeginAppend, Goto
  <2>2. receipt'[r].head = receipt[r].head /\ receipt'[r].events = receipt[r].events
    BY <1>1, <1>2, <2>1 DEF ReceiptFile
  <2>3. receipt[r].head = Expected(p)
    BY <1>2, <2>1 DEF IInv, Knows, Bound
  <2>4. QED
    BY <1>1, <1>2, <2>1, <2>2, <2>3 DEF GrowsAt, Bound, Expected
<1>7. CASE SyncEvent(p)
  <2> DEFINE e == [row |-> sent[p], outcome |-> reply[p]]
  <2>1. /\ receipt' = [receipt EXCEPT ![r] = Settled(@, sent[p], reply[p])]
        /\ pc' = [pc EXCEPT ![p] = "checkpoint"] /\ pc[p] = "append"
    BY <1>2, <1>7 DEF SyncEvent, Goto
  <2>2. e \in Event /\ receipt[r].events \in Seq(Event)
    BY <1>2, <2>1 DEF IInv, Control, Event, ReceiptFile
  <2>3. receipt'[r].head = receipt[r].head /\ receipt'[r].events = Append(receipt[r].events, e)
    BY <1>1, <1>2, <2>1 DEF Settled
  <2>4. /\ Len(receipt'[r].events) = Len(receipt[r].events) + 1
        /\ \A i \in 1..Len(receipt[r].events) : receipt'[r].events[i] = receipt[r].events[i]
    BY <2>2, <2>3
  <2>5. receipt[r].head = Expected(p)
    BY <1>2, <2>1 DEF IInv, Knows, Bound
  <2>6. /\ pc'[p] \in Bound /\ pair[p].receipt = r
        /\ session[p] = receipt[r].head.who /\ plan[p] = receipt[r].head.plan
    BY <1>1, <1>2, <2>1, <2>5 DEF Bound, Expected
  <2>7. receipt'[r].head = receipt[r].head
    BY <2>3
  <2>8. QED
    BY <2>4, <2>6, <2>7 DEF GrowsAt
<1>8. QED
  BY <1>3, <1>4, <1>5, <1>6, <1>7 DEF WritesReceipt

\* Evidence on disk is never rewritten, shortened or extended by a process
\* bound to another source, another principal or another project.
THEOREM EvidenceMonotonic == Spec => EvidenceOnlyGrows
<1>1. ASSUME IInv, [Next]_vars
      PROVE  [\A r \in Receipts : HasManifest(r) /\ receipt'[r] # receipt[r] =>
                GrowsAt(r)]_receipt
  <2>1. CASE receipt' = receipt
    BY <2>1
  <2>2. CASE receipt' # receipt
    <3>1. PICK p \in Procs : WritesReceipt(p)
      BY <1>1, <2>2, ReceiptWriters DEF vars, files
    <3>2. QED
      BY <1>1, <3>1, WriteGrows
  <2>3. QED
    BY <2>1, <2>2
<1>2. QED
  BY <1>1, Inductive, PTL DEF Spec, EvidenceOnlyGrows, GrowsAt

-----------------------------------------------------------------------------
(* The evidence invariant: what files and processes say of the service.    *)

\* An outcome fits what the service holds under the key of a row, and can never
\* stop fitting: the key is taken, or the service will never take the row.
Fits(held, row, outcome) ==
    /\ outcome = "committed" <=> held = row
    /\ row \in InvalidRows \/ held # None

LineTrue(b, row, outcome) == Fits(Held(b, row), row, outcome)

\* A checkpoint counts the lines before its position.
Counts(cp, events) ==
    LET ok == {i \in 1..(cp.next - 1) : events[i].outcome = "committed"}
    IN  cp.committed = Cardinality(ok) /\ cp.refused = cp.next - 1 - Cardinality(ok)

\* Some import of project b has settled the row, or comes to it next.
Accounted(b, row) ==
    \E r \in Receipts :
       /\ HasManifest(r) /\ receipt[r].head.who = b
       /\ \E i \in 1..Len(receipt[r].head.plan) :
            /\ i <= Len(receipt[r].events) + 1
            /\ receipt[r].head.plan[i] = row

ServiceSound == \A b \in Bindings, k \in Keys : entries[b][k] \notin InvalidRows

LinesSettled ==
    \A r \in Receipts :
       IF HasManifest(r)
       THEN /\ EventsMatch(receipt[r].events, receipt[r].head.plan)
            /\ \A i \in 1..Len(receipt[r].events) :
                 LineTrue(receipt[r].head.who, receipt[r].events[i].row,
                          receipt[r].events[i].outcome)
       ELSE receipt[r].events = <<>>

LateAccounted == \A q \in late : Accounted(q.who, q.row)

\* Points before a process touches its first row.
Early == {"idle", "planned", "confirmed", "locked", "loaded", "opened", "header",
          "cut", "reconcile"}

\* What a process knows of the row it is at and of the rows behind it.
AtRow(p) ==
    /\ pc[p] # "idle" => plan[p] \in Sources
    /\ pc[p] \in Early => line[p] = 1 /\ reply[p] = None
    /\ pc[p] \in Bound \ {"header"} => Counts(mem[p], seen[p].events)
    /\ pc[p] \in {"checkpoint", "staged"} =>
         IF reply[p] = None THEN line[p] = 1 ELSE line[p] + 1 = mem[p].next
    /\ pc[p] = "row" => line[p] \in 1..mem[p].next
    /\ pc[p] \in {"await", "answered", "append"} =>
         /\ line[p] = mem[p].next /\ line[p] <= Len(plan[p])
         /\ sent[p] = plan[p][line[p]]
    /\ pc[p] \in {"answered", "append"} => LineTrue(session[p], sent[p], reply[p])
    /\ pc[p] = "final" => mem[p].next = Len(plan[p]) + 1

EvidenceInv ==
    /\ ServiceSound /\ LinesSettled /\ CountersMatchEvidence
    /\ RowsAccountedFor /\ LateAccounted
    /\ \A p \in Procs : AtRow(p)

-----------------------------------------------------------------------------
(* What the service holds is final.                                        *)

\* No key ever changes hands, and an invalid row is never taken.
HeldForGood ==
    \A b \in Bindings, k \in Keys :
        /\ entries[b][k] # None => entries'[b][k] = entries[b][k]
        /\ entries'[b][k] \notin InvalidRows

\* An outcome that fits goes on fitting.
LEMMA FitsForGood ==
    ASSUME NEW row \in Rows, NEW outcome, NEW before, NEW after,
           Fits(before, row, outcome),
           before # None => after = before, after \notin InvalidRows
    PROVE  Fits(after, row, outcome)
  BY ImportConstants DEF Fits

\* A request leaves every other key alone, and its answer fits the outcome.
LEMMA AnswerFits ==
    ASSUME WorldTypeOK, ServiceSound, NEW b \in Bindings, NEW row \in Rows, Apply(b, row)
    PROVE  /\ HeldForGood
           /\ Fits(entries'[b][KeyOf[row]], row, Answer(Held(b, row), row))
           /\ \A w \in Bindings, k \in Keys :
                entries'[w][k] # entries[w][k] =>
                    /\ w = b /\ k = KeyOf[row] /\ entries'[w][k] = row
                    /\ entries[w][k] = None
<1>1. /\ KeyOf[row] \in Keys /\ row # None /\ row # Foreign /\ None # Foreign
      /\ InvalidRows \subseteq Rows /\ None \notin Rows
  BY ImportConstants
<1>2. entries \in [Bindings -> [Keys -> Rows \union {None, Foreign}]]
  BY DEF WorldTypeOK
<1> DEFINE held == entries[b][KeyOf[row]]
           answer == Answer(held, row)
<1>3. answer = "committed" => held = row \/ (held = None /\ row \notin InvalidRows)
  BY <1>1 DEF Answer
<1>4. answer # "committed" => held # row /\ (row \in InvalidRows \/ held # None)
  BY <1>1 DEF Answer
<1>5. \A w \in Bindings, k \in Keys :
        entries'[w][k] = IF answer = "committed" /\ w = b /\ k = KeyOf[row]
                         THEN row ELSE entries[w][k]
  BY <1>1, <1>2 DEF Apply, Held
<1>6. held \notin InvalidRows
  BY <1>1 DEF ServiceSound
<1>7. HeldForGood
  BY <1>1, <1>2, <1>3, <1>5, <1>6 DEF HeldForGood, ServiceSound
<1>8. Fits(entries'[b][KeyOf[row]], row, answer)
  BY <1>1, <1>3, <1>4, <1>5 DEF Fits
<1>9. QED
  BY <1>3, <1>5, <1>7, <1>8 DEF Held

\* The steps of commands that do not reach the service.
Quiet(p) == Begin(p) \/ ReplaceFails(p) \/ Pause(p) \/ Die(p) \/ (Step(p) /\ ~ServiceAnswers(p))

LEMMA QuietKeepsEntries ==
    ASSUME NEW p \in Procs, Quiet(p)
    PROVE  entries' = entries
  BY DEF Quiet, Begin, ReplaceFails, Pause, Die, Step, ConfirmSource, AcquireImportLocks,
     LoadLocalState, OpenSession, CreateReceipt, SyncHeader, RecoverHeader, Rebind,
     CutTail, Reconcile, StageCheckpoint, ReplaceCheckpoint, OpenSource, SkipSettledRow, SubmitRow,
     RowChanged, BeginAppend, SyncEvent, EndOfSource, Finish, world

LEMMA KeptEntries ==
    ASSUME ServiceSound, entries' = entries
    PROVE  HeldForGood
  BY DEF ServiceSound, HeldForGood

\* Whatever happens, what the service holds is held for good.
LEMMA ServiceStep ==
    ASSUME IInv, ServiceSound, [Next]_vars
    PROVE  HeldForGood /\ ServiceSound'
<1>1. ASSUME NEW p \in Procs, Begin(p) \/ Step(p) \/ Pause(p) \/ ReplaceFails(p) \/ Die(p)
      PROVE  HeldForGood
  <2>1. CASE Quiet(p)
    BY <2>1, QuietKeepsEntries, KeptEntries
  <2>2. CASE ServiceAnswers(p)
    <3>1. session[p] \in Bindings /\ sent[p] \in Rows
      BY <2>2 DEF ServiceAnswers, IInv, Control, Bound
    <3>2. QED
      BY <2>2, <3>1, AnswerFits DEF ServiceAnswers, IInv, StateTypeOK
  <2>3. QED
    BY <1>1, <2>1, <2>2 DEF Quiet
<1>2. ASSUME LateArrival PROVE HeldForGood
  <2>1. PICK q \in late : Apply(q.who, q.row)
    BY <1>2 DEF LateArrival
  <2>2. q.who \in Bindings /\ q.row \in Rows
    BY DEF IInv, StateTypeOK, WorldTypeOK
  <2>3. QED
    BY <2>1, <2>2, AnswerFits DEF IInv, StateTypeOK
<1>3. ASSUME EditSource \/ SwitchContext \/ UNCHANGED vars PROVE HeldForGood
  BY <1>3, KeptEntries DEF EditSource, SwitchContext, vars, world
<1>4. ASSUME ForeignCreate PROVE HeldForGood
  <2>1. PICK b \in Bindings, k \in Keys :
          entries[b][k] = None /\ entries' = [entries EXCEPT ![b][k] = Foreign]
    BY <1>4 DEF ForeignCreate
  <2>2. entries \in [Bindings -> [Keys -> Rows \union {None, Foreign}]] /\ Foreign \notin InvalidRows
    BY ImportConstants DEF IInv, StateTypeOK, WorldTypeOK
  <2>3. \A w \in Bindings, l \in Keys :
          entries'[w][l] = IF w = b /\ l = k THEN Foreign ELSE entries[w][l]
    BY <2>1, <2>2
  <2>4. QED
    BY <2>1, <2>2, <2>3 DEF HeldForGood, ServiceSound
<1>5. HeldForGood
  BY <1>1, <1>2, <1>3, <1>4 DEF Next
<1>6. QED
  BY <1>5 DEF HeldForGood, ServiceSound

-----------------------------------------------------------------------------
(* How a step moves a receipt.                                             *)

LinesKept(r) ==
    /\ HasManifest(r)' <=> HasManifest(r)
    /\ HasManifest(r) => receipt'[r].head = receipt[r].head
    /\ receipt'[r].events = receipt[r].events

NewlyBound(r, p) ==
    /\ SyncHeader(p) /\ r = pair[p].receipt /\ ~HasManifest(r)
    /\ receipt'[r] = [head |-> Expected(p), events |-> <<>>, tail |-> FALSE]

OneMore(r, p) ==
    /\ SyncEvent(p) /\ r = pair[p].receipt /\ HasManifest(r)
    /\ receipt'[r].head = receipt[r].head
    /\ receipt'[r].events =
         Append(receipt[r].events, [row |-> sent[p], outcome |-> reply[p]])

\* The writers of a receipt, one by one: only a whole header and a whole line
\* are a change of what the receipt says.
LEMMA WriteMoves ==
    ASSUME IInv, NEW p \in Procs, WritesReceipt(p), NEW r \in Receipts
    PROVE  LinesKept(r) \/ NewlyBound(r, p) \/ OneMore(r, p)
<1> DEFINE own == pair[p].receipt
<1>1. /\ receipt \in [Receipts -> ReceiptFile] /\ own \in Receipts
      /\ receipt[r] \in ReceiptFile
  <2>1. pc[p] \in Locked
    BY DEF WritesReceipt, CreateReceipt, SyncHeader, CutTail, BeginAppend, SyncEvent, Locked
  <2>2. QED
    BY <2>1, OwnFiles DEF IInv, StateTypeOK, FilesTypeOK
<1>2. CASE r # own
  BY <1>1, <1>2 DEF LinesKept, HasManifest, WritesReceipt, CreateReceipt, SyncHeader,
     CutTail, BeginAppend, SyncEvent
<1>3. CASE r = own /\ CreateReceipt(p)
  <2>1. receipt[r].head = None
    BY <1>3 DEF CreateReceipt, IInv, Knows
  <2>2. receipt' = [receipt EXCEPT ![r].head = Torn]
    BY <1>3, NewReceiptIsNew DEF CreateReceipt
  <2>3. receipt'[r].head = Torn /\ receipt'[r].events = receipt[r].events
    BY <1>1, <2>2 DEF ReceiptFile
  <2>4. QED
    BY <2>1, <2>3 DEF LinesKept, HasManifest
<1>4. CASE r = own /\ SyncHeader(p)
  <2>1. receipt[r].head = Torn
    BY <1>4 DEF SyncHeader, IInv, Knows
  <2>2. receipt' = [receipt EXCEPT ![r] = [head |-> Expected(p), events |-> <<>>, tail |-> FALSE]]
    BY <1>4 DEF SyncHeader
  <2>3. receipt'[r] = [head |-> Expected(p), events |-> <<>>, tail |-> FALSE]
    BY <1>1, <2>2
  <2>4. QED
    BY <1>4, <2>1, <2>3 DEF NewlyBound, HasManifest
<1>5. CASE r = own /\ CutTail(p)
  BY <1>5, CutKeepsLines DEF LinesKept, HasManifest
<1>6. CASE r = own /\ BeginAppend(p)
  <2>1. receipt' = [receipt EXCEPT ![r].tail = TRUE]
    BY <1>6 DEF BeginAppend
  <2>2. receipt'[r].head = receipt[r].head /\ receipt'[r].events = receipt[r].events
    BY <1>1, <2>1 DEF ReceiptFile
  <2>3. QED
    BY <2>2 DEF LinesKept, HasManifest
<1>7. CASE r = own /\ SyncEvent(p)
  <2>1. /\ receipt' = [receipt EXCEPT ![r] = Settled(@, sent[p], reply[p])]
        /\ pc[p] = "append"
    BY <1>7 DEF SyncEvent
  <2>2. /\ receipt'[r].head = receipt[r].head
        /\ receipt'[r].events = Append(receipt[r].events, [row |-> sent[p], outcome |-> reply[p]])
    BY <1>1, <2>1 DEF Settled
  <2>3. receipt[r].head = Expected(p) /\ Expected(p) \in Binding
    BY <1>7, <2>1, ExpectedTyped DEF IInv, Knows, Bound
  <2>4. HasManifest(r)
    BY <2>3, ImportConstants DEF HasManifest
  <2>5. QED
    BY <1>7, <2>2, <2>4 DEF OneMore
<1>8. QED
  BY <1>2, <1>3, <1>4, <1>5, <1>6, <1>7 DEF WritesReceipt

LEMMA ReceiptMoves ==
    ASSUME IInv, [Next]_vars, NEW r \in Receipts
    PROVE  LinesKept(r) \/ \E p \in Procs : NewlyBound(r, p) \/ OneMore(r, p)
<1>1. CASE receipt' = receipt
  BY <1>1 DEF LinesKept, HasManifest
<1>2. CASE receipt' # receipt
  BY <1>2, ReceiptWriters, WriteMoves DEF vars, files
<1>3. QED
  BY <1>1, <1>2

\* A line appended after the others leaves them as they are.
LEMMA AppendLines ==
    ASSUME NEW events \in Seq(Event), NEW e \in Event
    PROVE  /\ Len(Append(events, e)) = Len(events) + 1
           /\ Append(events, e)[Len(events) + 1] = e
           /\ \A i \in 1..Len(events) : Append(events, e)[i] = events[i]
  OBVIOUS

\* Once bound, a receipt stays bound to the same import and keeps its lines.
LEMMA LinesStay ==
    ASSUME IInv, [Next]_vars, NEW r \in Receipts, HasManifest(r)
    PROVE  /\ HasManifest(r)' /\ receipt'[r].head = receipt[r].head
           /\ Len(receipt'[r].events) >= Len(receipt[r].events)
           /\ \A i \in 1..Len(receipt[r].events) : receipt'[r].events[i] = receipt[r].events[i]
<1>1. receipt[r] \in ReceiptFile /\ receipt[r].events \in Seq(Event)
  BY DEF IInv, StateTypeOK, FilesTypeOK, ReceiptFile
<1>2. CASE LinesKept(r)
  BY <1>1, <1>2 DEF LinesKept
<1>3. CASE \E p \in Procs : OneMore(r, p)
  <2>1. PICK p \in Procs : OneMore(r, p)
    BY <1>3
  <2> DEFINE e == [row |-> sent[p], outcome |-> reply[p]]
  <2>2. pc[p] = "append"
    BY <2>1 DEF OneMore, SyncEvent
  <2>3. sent[p] \in Rows /\ reply[p] \in Outcomes
    BY <2>2 DEF IInv, Control
  <2>4. e \in Event
    BY <2>3 DEF Event
  <2>5. HasManifest(r)' /\ receipt'[r].head = receipt[r].head
    BY <2>1 DEF OneMore, HasManifest
  <2>6. receipt'[r].events = Append(receipt[r].events, e)
    BY <2>1 DEF OneMore
  <2>7. Len(receipt[r].events) \in Nat
    BY <1>1
  <2> HIDE DEF e
  <2>8. QED
    BY <1>1, <2>4, <2>5, <2>6, <2>7, AppendLines
<1>4. QED
  BY <1>2, <1>3, ReceiptMoves DEF NewlyBound

-----------------------------------------------------------------------------
(* What a process knows of its row.                                        *)

\* Only the process that takes a step changes what it remembers.
LEMMA StepOthersKept ==
    ASSUME IInv, NEW p \in Procs,
           Begin(p) \/ Step(p) \/ Pause(p) \/ ReplaceFails(p) \/ Die(p)
    PROVE  OthersKept(p)
<1> USE DEF IInv, StateTypeOK, LocalTypeOK, OthersKept, LocalKept, Exit, Goto, local
<1>1. CASE Begin(p) \/ Pause(p) \/ ReplaceFails(p) \/ Die(p)
  BY <1>1 DEF Begin, Pause, ReplaceFails, Die
<1>2. CASE ConfirmSource(p) \/ AcquireImportLocks(p) \/ LoadLocalState(p) \/ OpenSession(p)
  BY <1>2 DEF ConfirmSource, AcquireImportLocks, LoadLocalState, OpenSession
<1>3. CASE CreateReceipt(p) \/ SyncHeader(p) \/ RecoverHeader(p) \/ Rebind(p)
  BY <1>3 DEF CreateReceipt, SyncHeader, RecoverHeader, Rebind
<1>4. CASE CutTail(p) \/ Reconcile(p) \/ StageCheckpoint(p) \/ ReplaceCheckpoint(p)
             \/ OpenSource(p)
  BY <1>4 DEF CutTail, Reconcile, StageCheckpoint, ReplaceCheckpoint, OpenSource
<1>5. CASE SkipSettledRow(p) \/ SubmitRow(p) \/ RowChanged(p) \/ ServiceAnswers(p)
  BY <1>5 DEF SkipSettledRow, SubmitRow, RowChanged, ServiceAnswers
<1>6. CASE BeginAppend(p) \/ SyncEvent(p) \/ EndOfSource(p) \/ Finish(p)
  BY <1>6 DEF BeginAppend, SyncEvent, EndOfSource, Finish
<1>7. QED
  BY <1>1, <1>2, <1>3, <1>4, <1>5, <1>6 DEF Step

\* What a process knows stays true while others move.
LEMMA AtRowKept ==
    ASSUME IInv, HeldForGood, NEW o \in Procs, LocalKept(o), AtRow(o)
    PROVE  AtRow(o)'
<1>1. CASE pc[o] \in {"answered", "append"}
  <2>1. session[o] \in Bindings /\ sent[o] \in Rows /\ KeyOf[sent[o]] \in Keys
    BY <1>1, ImportConstants DEF IInv, Control, Bound
  <2>2. LineTrue(session[o], sent[o], reply[o])'
    BY <1>1, <2>1, FitsForGood DEF AtRow, LocalKept, LineTrue, Held, HeldForGood
  <2>3. QED
    BY <1>1, <2>2 DEF AtRow, LocalKept, Early
<1>2. CASE pc[o] \notin {"answered", "append"}
  BY <1>2 DEF AtRow, LocalKept
<1>3. QED
  BY <1>1, <1>2

\* A command that ended has no row.
LEMMA AtRowAfterExit ==
    ASSUME IInv, NEW p \in Procs, NEW why, Exit(p, why)
    PROVE  AtRow(p)'
<1>1. pc'[p] = "idle" /\ line'[p] = 1 /\ reply'[p] = None
  BY DEF IInv, StateTypeOK, LocalTypeOK, Exit
<1>2. QED
  BY <1>1 DEF AtRow, Bound

\* A fresh checkpoint has counted nothing.
LEMMA FreshCounts ==
    ASSUME NEW p \in Procs, NEW events
    PROVE  Counts(FreshCheckpoint(p), events)
<1>1. {i \in 1..0 : events[i].outcome = "committed"} = {}
  OBVIOUS
<1>2. FreshCheckpoint(p).next - 1 = 0
  BY DEF FreshCheckpoint
<1>3. QED
  BY <1>1, <1>2, FS_EmptySet DEF Counts, FreshCheckpoint

\* The lines before a position are finitely many.
LEMMA LinesFinite ==
    ASSUME NEW n \in Nat, NEW events
    PROVE  LET ok == {i \in 1..n : events[i].outcome = "committed"}
           IN  IsFiniteSet(ok) /\ Cardinality(ok) \in Nat /\ Cardinality(ok) <= n
<1> DEFINE ok == {i \in 1..n : events[i].outcome = "committed"}
<1>1. IsFiniteSet(1..n) /\ Cardinality(1..n) = n
  BY FS_Interval
<1>2. ok \in SUBSET (1..n)
  OBVIOUS
<1> HIDE DEF ok
<1>3. IsFiniteSet(ok) /\ Cardinality(ok) <= n
  BY <1>1, <1>2, FS_Subset
<1>4. QED
  BY <1>3, FS_CardinalityType DEF ok

\* Lines that stay the same count the same.
LEMMA CountsSameLines ==
    ASSUME NEW cp \in Checkpoint, NEW before, NEW after, Counts(cp, before),
           \A i \in 1..(cp.next - 1) : after[i] = before[i]
    PROVE  Counts(cp, after)
<1>1. {i \in 1..(cp.next - 1) : before[i].outcome = "committed"}
        = {i \in 1..(cp.next - 1) : after[i].outcome = "committed"}
  OBVIOUS
<1>2. QED
  BY <1>1 DEF Counts

\* A checkpoint moved past one line has counted it.
LEMMA AdvanceCounts ==
    ASSUME NEW cp \in Checkpoint, cp.next >= 1, NEW events, Counts(cp, events)
    PROVE  Counts(Advance(cp, events[cp.next].outcome), events)
<1> DEFINE n == cp.next
           ok == {i \in 1..(n - 1) : events[i].outcome = "committed"}
           more == {i \in 1..n : events[i].outcome = "committed"}
           m == Advance(cp, events[n].outcome)
<1>1. n \in Nat /\ n - 1 \in Nat /\ cp.committed \in Nat /\ cp.refused \in Nat
  BY DEF Checkpoint
<1>2. IsFiniteSet(ok) /\ Cardinality(ok) \in Nat
  BY <1>1, LinesFinite
<1>3. cp.committed = Cardinality(ok) /\ cp.refused = n - 1 - Cardinality(ok)
  BY DEF Counts
<1>4. /\ m.next = n + 1 /\ m.next - 1 = n
      /\ events[n].outcome = "committed" =>
           m.committed = cp.committed + 1 /\ m.refused = cp.refused
      /\ events[n].outcome # "committed" =>
           m.committed = cp.committed /\ m.refused = cp.refused + 1
  BY <1>1 DEF Advance, Checkpoint
<1>5. more = IF events[n].outcome = "committed" THEN ok \union {n} ELSE ok
  BY <1>1
<1>6. n \notin ok
  BY <1>1
<1> HIDE DEF ok, more, m
<1>7. Cardinality(more) = IF events[n].outcome = "committed" THEN Cardinality(ok) + 1
                                                              ELSE Cardinality(ok)
  BY <1>2, <1>5, <1>6, FS_AddElement
<1>8. m.committed = Cardinality(more) /\ m.refused = m.next - 1 - Cardinality(more)
  BY <1>1, <1>2, <1>3, <1>4, <1>7
<1>9. QED
  BY <1>4, <1>8 DEF Counts, m, more

\* A counted position is past the first line.
LEMMA CountedPosition ==
    ASSUME NEW cp \in Checkpoint, NEW events, Counts(cp, events)
    PROVE  cp.next >= 1
<1> DEFINE ok == {i \in 1..(cp.next - 1) : events[i].outcome = "committed"}
<1>1. cp.next \in Nat /\ cp.committed \in Nat /\ cp.refused \in Nat
  BY DEF Checkpoint
<1>2. cp.committed = Cardinality(ok) /\ cp.refused = cp.next - 1 - Cardinality(ok)
  BY DEF Counts
<1> HIDE DEF ok
<1>3. QED
  BY <1>1, <1>2

\* A command up to its first look at its files.
LEMMA EarlyAtRow ==
    ASSUME IInv, EvidenceInv, NEW p \in Procs,
           \/ Begin(p) \/ ConfirmSource(p) \/ AcquireImportLocks(p) \/ LoadLocalState(p)
           \/ OpenSession(p) \/ CreateReceipt(p)
    PROVE  AtRow(p)'
<1>1. CASE \E why : Exit(p, why)
  BY <1>1, AtRowAfterExit
<1>2. CASE \A why : ~Exit(p, why)
  <2>1. AtRow(p) /\ source \in Sources
    BY DEF EvidenceInv, IInv, StateTypeOK, WorldTypeOK
  <2>2. pc[p] \in {"idle", "planned", "confirmed", "locked", "loaded", "opened"}
    BY DEF Begin, ConfirmSource, AcquireImportLocks, LoadLocalState, OpenSession, CreateReceipt
  <2>3. pc'[p] \in {"planned", "confirmed", "locked", "loaded", "opened", "header"}
    BY <1>2 DEF Begin, ConfirmSource, AcquireImportLocks, LoadLocalState, OpenSession,
       CreateReceipt, Goto, IInv, StateTypeOK, LocalTypeOK
  <2>4. line'[p] = line[p] /\ reply'[p] = reply[p]
    BY <1>2 DEF Begin, ConfirmSource, AcquireImportLocks, LoadLocalState, OpenSession,
       CreateReceipt, local
  <2>5. plan'[p] = IF pc[p] = "idle" THEN source ELSE plan[p]
    BY <1>2 DEF Begin, ConfirmSource, AcquireImportLocks, LoadLocalState, OpenSession,
       CreateReceipt, local, IInv, StateTypeOK, LocalTypeOK
  <2>6. QED
    BY <2>1, <2>2, <2>3, <2>4, <2>5 DEF AtRow, Early, Bound
<1>3. QED
  BY <1>1, <1>2

\* A command that binds or reopens its files.
LEMMA HeaderAtRow ==
    ASSUME IInv, EvidenceInv, NEW p \in Procs, SyncHeader(p) \/ RecoverHeader(p)
    PROVE  AtRow(p)'
<1>1. CASE \E why : Exit(p, why)
  BY <1>1, AtRowAfterExit
<1>2. CASE \A why : ~Exit(p, why)
  <2>1. AtRow(p)
    BY DEF EvidenceInv
  <2>2. /\ pc[p] \in {"header", "opened"} /\ pc' = [pc EXCEPT ![p] = "checkpoint"]
        /\ mem' = [mem EXCEPT ![p] = FreshCheckpoint(p)]
        /\ UNCHANGED <<plan, line, reply>>
    BY <1>2 DEF SyncHeader, RecoverHeader, Goto
  <2>3. pc'[p] = "checkpoint" /\ mem'[p] = FreshCheckpoint(p)
    BY <2>2 DEF IInv, StateTypeOK, LocalTypeOK
  <2>4. Counts(mem'[p], seen'[p].events)
    BY <2>3, FreshCounts
  <2>5. QED
    BY <2>1, <2>2, <2>3, <2>4 DEF AtRow, Early, Bound
<1>3. QED
  BY <1>1, <1>2

LEMMA RebindAtRow ==
    ASSUME IInv, EvidenceInv, NEW p \in Procs, Rebind(p)
    PROVE  AtRow(p)'
<1>1. CASE \E why : Exit(p, why)
  BY <1>1, AtRowAfterExit
<1>2. CASE \A why : ~Exit(p, why)
  <2>1. AtRow(p)
    BY DEF EvidenceInv
  <2>2. /\ pc[p] = "opened" /\ mem[p] # None /\ UNCHANGED local
        /\ pc' = [pc EXCEPT ![p] = IF seen[p].tail THEN "cut" ELSE "reconcile"]
    BY <1>2 DEF Rebind, Goto
  <2>3. pc'[p] \in {"cut", "reconcile"}
    BY <2>2 DEF IInv, StateTypeOK, LocalTypeOK
  <2>4. /\ receipt[pair[p].receipt] = seen[p] /\ checkpoint[pair[p].checkpoint] = mem[p]
        /\ mem[p].bound.pair = pair[p] /\ pair[p].checkpoint \in Checkpoints
    BY <2>2, OwnFiles DEF IInv, Knows, Locked
  <2>5. Counts(mem[p], seen[p].events)
    BY <2>2, <2>4 DEF EvidenceInv, CountersMatchEvidence, Counts
  <2>6. QED
    BY <2>1, <2>2, <2>3, <2>5 DEF AtRow, Early, Bound, local
<1>3. QED
  BY <1>1, <1>2

LEMMA CutTailAtRow ==
    ASSUME IInv, EvidenceInv, NEW p \in Procs, CutTail(p)
    PROVE  AtRow(p)'
<1>1. /\ AtRow(p) /\ pc[p] = "cut" /\ pc' = [pc EXCEPT ![p] = "reconcile"]
      /\ seen' = [seen EXCEPT ![p] = [seen[p] EXCEPT !.tail = FALSE]]
      /\ UNCHANGED <<plan, mem, line, reply>>
  BY DEF CutTail, Goto, EvidenceInv
<1>2. seen[p] \in ReceiptFile
  BY <1>1 DEF IInv, Control, Bound
<1>3. pc'[p] = "reconcile" /\ seen'[p].events = seen[p].events
  BY <1>1, <1>2 DEF IInv, StateTypeOK, LocalTypeOK, ReceiptFile
<1>4. QED
  BY <1>1, <1>3 DEF AtRow, Early, Bound

LEMMA OpenSourceAtRow ==
    ASSUME IInv, EvidenceInv, NEW p \in Procs, OpenSource(p)
    PROVE  AtRow(p)'
  BY DEF OpenSource, EvidenceInv, AtRow, LineTrue, Held, local, world

LEMMA ReconcileAtRow ==
    ASSUME IInv, EvidenceInv, NEW p \in Procs, Reconcile(p)
    PROVE  AtRow(p)'
<1>1. CASE \E why : Exit(p, why)
  BY <1>1, AtRowAfterExit
<1>2. CASE \A why : ~Exit(p, why)
  <2> DEFINE events == seen[p].events
  <2>1. AtRow(p) /\ pc[p] = "reconcile"
    BY DEF EvidenceInv, Reconcile
  <2>2. mem[p] \in Checkpoint /\ Counts(mem[p], events)
    BY <2>1 DEF AtRow, Bound, IInv, Control
  <2>3. mem[p].next >= 1 /\ mem[p].next \in Nat
    BY <2>2, CountedPosition DEF Checkpoint
  <2>4. CASE Len(events) = mem[p].next - 1
    <3>1. pc' = [pc EXCEPT ![p] = "row"] /\ UNCHANGED local
      BY <2>3, <2>4 DEF Reconcile, OneAhead, Goto
    <3>2. pc'[p] = "row"
      BY <3>1 DEF IInv, StateTypeOK, LocalTypeOK
    <3>3. QED
      BY <2>1, <2>2, <2>3, <3>1, <3>2 DEF AtRow, Early, Bound, local
  <2>5. CASE Len(events) # mem[p].next - 1
    <3>1. /\ OneAhead(p) /\ pc' = [pc EXCEPT ![p] = "checkpoint"]
          /\ mem' = [mem EXCEPT ![p] = Advance(@, events[Len(events)].outcome)]
          /\ UNCHANGED <<plan, seen, line, reply>>
      BY <1>2, <2>5 DEF Reconcile, Goto
    <3>2. pc'[p] = "checkpoint" /\ mem'[p] = Advance(mem[p], events[mem[p].next].outcome)
      BY <3>1 DEF IInv, StateTypeOK, LocalTypeOK, OneAhead
    <3>3. Counts(mem'[p], events)
      BY <2>2, <2>3, <3>2, AdvanceCounts
    <3>4. QED
      BY <2>1, <3>1, <3>2, <3>3 DEF AtRow, Early, Bound
  <2>6. QED
    BY <2>4, <2>5
<1>3. QED
  BY <1>1, <1>2

LEMMA CheckpointAtRow ==
    ASSUME IInv, EvidenceInv, NEW p \in Procs, StageCheckpoint(p) \/ ReplaceCheckpoint(p)
    PROVE  AtRow(p)'
<1>1. CASE \E why : Exit(p, why)
  BY <1>1, AtRowAfterExit
<1>2. CASE StageCheckpoint(p) /\ \A why : ~Exit(p, why)
  <2>1. pc[p] = "checkpoint" /\ pc' = [pc EXCEPT ![p] = "staged"] /\ UNCHANGED local
    BY <1>2 DEF StageCheckpoint, Goto
  <2>2. AtRow(p) /\ pc'[p] = "staged"
    BY <2>1 DEF EvidenceInv, IInv, StateTypeOK, LocalTypeOK
  <2>3. QED
    BY <2>1, <2>2 DEF AtRow, Early, Bound, local
<1>3. CASE ReplaceCheckpoint(p) /\ \A why : ~Exit(p, why)
  <2>1. /\ pc[p] = "staged" /\ pc' = [pc EXCEPT ![p] = "row"]
        /\ line' = [line EXCEPT ![p] = IF reply[p] = None THEN @ ELSE @ + 1]
        /\ UNCHANGED <<plan, seen, mem>>
    BY <1>3 DEF ReplaceCheckpoint, Goto
  <2>2. /\ AtRow(p) /\ pc'[p] = "row"
        /\ line'[p] = IF reply[p] = None THEN line[p] ELSE line[p] + 1
    BY <2>1 DEF EvidenceInv, IInv, StateTypeOK, LocalTypeOK
  <2>3. mem[p] \in Checkpoint /\ Counts(mem[p], seen[p].events)
    BY <2>1, <2>2 DEF AtRow, Bound, IInv, Control
  <2>4. mem[p].next >= 1 /\ mem[p].next \in Nat
    BY <2>3, CountedPosition DEF Checkpoint
  <2>5. line'[p] \in 1..mem[p].next
    BY <2>1, <2>2, <2>4 DEF AtRow
  <2>6. QED
    BY <2>1, <2>2, <2>3, <2>5 DEF AtRow, Early, Bound
<1>4. QED
  BY <1>1, <1>2, <1>3

LEMMA SkipAtRow ==
    ASSUME IInv, EvidenceInv, NEW p \in Procs, SkipSettledRow(p)
    PROVE  AtRow(p)'
<1>1. CASE \E why : Exit(p, why)
  BY <1>1, AtRowAfterExit
<1>2. CASE \A why : ~Exit(p, why)
  <2>1. /\ AtRow(p) /\ pc[p] = "row" /\ line[p] < mem[p].next
        /\ line' = [line EXCEPT ![p] = @ + 1]
        /\ UNCHANGED <<pc, plan, seen, mem>>
    BY <1>2 DEF SkipSettledRow, Reading, EvidenceInv
  <2>2. mem[p] \in Checkpoint
    BY <2>1 DEF IInv, Control, Bound
  <2>3. line'[p] \in 1..mem[p].next
    BY <2>1, <2>2 DEF AtRow, IInv, StateTypeOK, LocalTypeOK, Checkpoint
  <2>4. QED
    BY <2>1, <2>3 DEF AtRow, Early, Bound
<1>3. QED
  BY <1>1, <1>2

LEMMA SubmitAtRow ==
    ASSUME IInv, EvidenceInv, NEW p \in Procs, SubmitRow(p)
    PROVE  AtRow(p)'
<1>1. /\ AtRow(p) /\ pc[p] = "row" /\ pc' = [pc EXCEPT ![p] = "await"]
      /\ sent' = [sent EXCEPT ![p] = RowRead(p)]
      /\ line[p] = mem[p].next /\ line[p] <= Len(plan[p])
      /\ RowRead(p) = plan[p][line[p]]
      /\ UNCHANGED <<plan, seen, mem, line>>
  BY DEF SubmitRow, Reading, RowAsPlanned, Goto, EvidenceInv
<1>2. pc'[p] = "await" /\ sent'[p] = plan[p][line[p]]
  BY <1>1 DEF IInv, StateTypeOK, LocalTypeOK
<1>3. QED
  BY <1>1, <1>2 DEF AtRow, Early, Bound

LEMMA AnswerAtRow ==
    ASSUME IInv, EvidenceInv, NEW p \in Procs, ServiceAnswers(p)
    PROVE  AtRow(p)'
<1>1. /\ AtRow(p) /\ pc[p] = "await" /\ pc' = [pc EXCEPT ![p] = "answered"]
      /\ Apply(session[p], sent[p])
      /\ reply' = [reply EXCEPT ![p] = Answer(Held(session[p], sent[p]), sent[p])]
      /\ UNCHANGED <<plan, session, seen, mem, line, sent>>
  BY DEF ServiceAnswers, Goto, EvidenceInv
<1>2. session[p] \in Bindings /\ sent[p] \in Rows
  BY <1>1 DEF IInv, Control, Bound
<1>3. /\ pc'[p] = "answered"
      /\ reply'[p] = Answer(Held(session[p], sent[p]), sent[p])
  BY <1>1 DEF IInv, StateTypeOK, LocalTypeOK
<1>4. LineTrue(session[p], sent[p], reply[p])'
  BY <1>1, <1>2, <1>3, AnswerFits DEF LineTrue, Held, IInv, StateTypeOK, EvidenceInv
<1>5. QED
  BY <1>1, <1>3, <1>4 DEF AtRow, Early, Bound

LEMMA BeginAppendAtRow ==
    ASSUME IInv, EvidenceInv, NEW p \in Procs, BeginAppend(p)
    PROVE  AtRow(p)'
<1>1. /\ AtRow(p) /\ pc[p] = "answered" /\ pc' = [pc EXCEPT ![p] = "append"]
      /\ UNCHANGED <<local, entries>>
  BY DEF BeginAppend, Goto, EvidenceInv, world
<1>2. pc'[p] = "append"
  BY <1>1 DEF IInv, StateTypeOK, LocalTypeOK
<1>3. LineTrue(session[p], sent[p], reply[p])'
  BY <1>1 DEF AtRow, LineTrue, Held, local
<1>4. QED
  BY <1>1, <1>2, <1>3 DEF AtRow, Early, Bound, local

LEMMA SyncEventAtRow ==
    ASSUME IInv, EvidenceInv, NEW p \in Procs, SyncEvent(p)
    PROVE  AtRow(p)'
<1> DEFINE e == [row |-> sent[p], outcome |-> reply[p]]
           events == seen[p].events
           more == Append(events, e)
<1>1. /\ AtRow(p) /\ pc[p] = "append" /\ pc' = [pc EXCEPT ![p] = "checkpoint"]
      /\ seen' = [seen EXCEPT ![p] = Settled(@, sent[p], reply[p])]
      /\ mem' = [mem EXCEPT ![p] = Advance(@, reply[p])]
      /\ UNCHANGED <<plan, line, reply>>
  BY DEF SyncEvent, Goto, EvidenceInv
<1>2. /\ sent[p] \in Rows /\ reply[p] \in Outcomes /\ mem[p] \in Checkpoint
      /\ seen[p] \in ReceiptFile /\ mem[p].next = Len(events) + 1
      /\ Counts(mem[p], events)
  BY <1>1 DEF IInv, Control, Knows, Bound, AtRow
<1>3. /\ pc'[p] = "checkpoint" /\ seen'[p].events = more
      /\ mem'[p] = Advance(mem[p], reply[p])
  BY <1>1 DEF IInv, StateTypeOK, LocalTypeOK, Settled
<1>4. /\ events \in Seq(Event) /\ e \in Event /\ Len(events) \in Nat
      /\ more[mem[p].next].outcome = reply[p]
      /\ \A i \in 1..(mem[p].next - 1) : more[i] = events[i]
  BY <1>2 DEF ReceiptFile, Event
<1>5. Counts(mem[p], more) /\ mem[p].next >= 1
  <2> HIDE DEF more, events
  <2>1. Counts(mem[p], more)
    BY <1>2, <1>4, CountsSameLines
  <2>2. QED
    BY <1>2, <1>4, <2>1
<1>6. Counts(mem'[p], more)
  BY <1>2, <1>3, <1>4, <1>5, AdvanceCounts
<1>7. mem'[p].next = mem[p].next + 1
  BY <1>2, <1>3, AdvanceMovesOne
<1>8. reply[p] # None
  BY <1>2, ImportConstants
<1>9. QED
  BY <1>1, <1>3, <1>6, <1>7, <1>8 DEF AtRow, Early, Bound

\* The loop ends with every planned row settled.
LEMMA EndAtRow ==
    ASSUME IInv, EvidenceInv, NEW p \in Procs, EndOfSource(p)
    PROVE  AtRow(p)'
<1>1. CASE \E why : Exit(p, why)
  BY <1>1, AtRowAfterExit
<1>2. CASE \A why : ~Exit(p, why)
  <2> DEFINE f == receipt[pair[p].receipt]
  <2>1. /\ AtRow(p) /\ pc[p] = "row" /\ pc' = [pc EXCEPT ![p] = "final"]
        /\ line[p] - 1 = Len(plan[p]) /\ UNCHANGED local
    BY <1>2 DEF EndOfSource, AtEnd, Goto, EvidenceInv
  <2>2. /\ f \in ReceiptFile /\ pair[p].receipt \in Receipts
        /\ f.head = Expected(p) /\ Expected(p) \in Binding
        /\ mem[p].next = Len(f.events) + 1 /\ plan[p] \in Seq(Rows)
    BY <2>1, OwnFiles, ExpectedTyped DEF IInv, Control, Started, Knows, Bound, Locked
  <2>3. HasManifest(pair[p].receipt)
    BY <2>2, ImportConstants DEF HasManifest
  <2>4. Len(f.events) <= Len(plan[p])
    BY <2>2, <2>3 DEF EvidenceInv, LinesSettled, EventsMatch, Expected
  <2>5. mem[p].next = Len(plan[p]) + 1
    <3>1. Len(f.events) \in Nat /\ Len(plan[p]) \in Nat /\ line[p] \in 1..mem[p].next
      BY <2>1, <2>2 DEF ReceiptFile, AtRow
    <3>2. QED
      BY <2>1, <2>2, <2>4, <3>1
  <2>6. pc'[p] = "final"
    BY <2>1 DEF IInv, StateTypeOK, LocalTypeOK
  <2>7. QED
    BY <2>1, <2>5, <2>6 DEF AtRow, Early, Bound, local
<1>3. QED
  BY <1>1, <1>2

\* Every step keeps what every process knows.
LEMMA AtRowStep ==
    ASSUME IInv, EvidenceInv, [Next]_vars
    PROVE  \A o \in Procs : AtRow(o)'
<1>1. HeldForGood
  BY ServiceStep DEF EvidenceInv
<1>2. ASSUME NEW p \in Procs, Begin(p) \/ Step(p) \/ Pause(p) \/ ReplaceFails(p) \/ Die(p)
      PROVE  AtRow(p)'
  <2>1. CASE Pause(p) \/ ReplaceFails(p) \/ Die(p) \/ RowChanged(p) \/ Finish(p)
    BY <2>1, AtRowAfterExit DEF Pause, ReplaceFails, Die, RowChanged, Finish
  <2>2. CASE ~(Pause(p) \/ ReplaceFails(p) \/ Die(p) \/ RowChanged(p) \/ Finish(p))
    BY <1>2, <2>2, EarlyAtRow, HeaderAtRow, RebindAtRow, CutTailAtRow, ReconcileAtRow,
       CheckpointAtRow, OpenSourceAtRow, SkipAtRow, SubmitAtRow, AnswerAtRow, BeginAppendAtRow, SyncEventAtRow, EndAtRow
       DEF Step
  <2>3. QED
    BY <2>1, <2>2
<1>3. CASE \E p \in Procs : Begin(p) \/ Step(p) \/ Pause(p) \/ ReplaceFails(p) \/ Die(p)
  BY <1>1, <1>2, <1>3, StepOthersKept, AtRowKept DEF OthersKept, EvidenceInv
<1>4. CASE UNCHANGED <<local, pc>>
  BY <1>1, <1>4, AtRowKept DEF LocalKept, EvidenceInv, local
<1>5. QED
  BY <1>3, <1>4 DEF Next, LateArrival, EditSource, SwitchContext, ForeignCreate, vars

-----------------------------------------------------------------------------
(* What the files say.                                                     *)

LEMMA LinesStep ==
    ASSUME IInv, EvidenceInv, [Next]_vars
    PROVE  LinesSettled'
<1> SUFFICES ASSUME NEW r \in Receipts
             PROVE  IF HasManifest(r)'
                    THEN /\ EventsMatch(receipt'[r].events, receipt'[r].head.plan)
                         /\ \A i \in 1..Len(receipt'[r].events) :
                              LineTrue(receipt[r].head.who, receipt[r].events[i].row,
                                       receipt[r].events[i].outcome)'
                    ELSE receipt'[r].events = <<>>
  BY DEF LinesSettled, HasManifest
<1> DEFINE f == receipt[r]
           b == f.head.who
<1>1. HeldForGood /\ f \in ReceiptFile
  BY ServiceStep DEF EvidenceInv, IInv, StateTypeOK, FilesTypeOK
<1>2. ASSUME HasManifest(r)
      PROVE  /\ f.head \in Binding /\ b \in Bindings /\ f.events \in Seq(Event)
             /\ \A i \in 1..Len(f.events) :
                  /\ f.events[i].row \in Rows /\ KeyOf[f.events[i].row] \in Keys
                  /\ Fits(entries'[b][KeyOf[f.events[i].row]], f.events[i].row,
                          f.events[i].outcome)
  <2>1. f.head \in Binding /\ b \in Bindings /\ f.events \in Seq(Event)
    BY <1>1, <1>2 DEF ReceiptFile, HasManifest, Binding
  <2>2. ASSUME NEW i \in 1..Len(f.events)
        PROVE  /\ f.events[i].row \in Rows /\ KeyOf[f.events[i].row] \in Keys
               /\ Fits(entries'[b][KeyOf[f.events[i].row]], f.events[i].row,
                       f.events[i].outcome)
    <3>1. f.events[i] \in Event
      BY <2>1
    <3>2. f.events[i].row \in Rows /\ KeyOf[f.events[i].row] \in Keys
      BY <3>1, ImportConstants DEF Event
    <3>3. Fits(entries[b][KeyOf[f.events[i].row]], f.events[i].row, f.events[i].outcome)
      BY <1>2 DEF EvidenceInv, LinesSettled, LineTrue, Held
    <3>4. QED
      BY <1>1, <2>1, <3>2, <3>3, FitsForGood DEF HeldForGood
  <2>3. QED
    BY <2>1, <2>2
<1>3. CASE LinesKept(r)
  <2>1. CASE HasManifest(r)
    BY <1>2, <1>3, <2>1 DEF LinesKept, LineTrue, Held, EvidenceInv, LinesSettled
  <2>2. CASE ~HasManifest(r)
    BY <1>3, <2>2 DEF LinesKept, EvidenceInv, LinesSettled
  <2>3. QED
    BY <2>1, <2>2
<1>4. CASE \E p \in Procs : NewlyBound(r, p)
  <2>1. receipt'[r].events = <<>>
    BY <1>4 DEF NewlyBound
  <2>2. QED
    <3>1. receipt'[r].head.plan \in Seq(Rows)
      <4>1. PICK p \in Procs : NewlyBound(r, p)
        BY <1>4
      <4>2. Expected(p) \in Binding
        BY <4>1, ExpectedTyped DEF NewlyBound, SyncHeader, Bound
      <4>3. QED
        BY <4>1, <4>2 DEF NewlyBound, Binding
    <3>2. EventsMatch(receipt'[r].events, receipt'[r].head.plan)
      BY <2>1, <3>1 DEF EventsMatch
    <3>3. QED
      BY <2>1, <3>2
<1>5. CASE \E p \in Procs : OneMore(r, p)
  <2>1. PICK p \in Procs : OneMore(r, p)
    BY <1>5
  <2> DEFINE e == [row |-> sent[p], outcome |-> reply[p]]
             n == Len(f.events)
             g == receipt'[r]
  <2>2. /\ HasManifest(r) /\ g.head = f.head /\ g.events = Append(f.events, e)
        /\ pc[p] = "append" /\ r = pair[p].receipt
    BY <2>1 DEF OneMore, SyncEvent
  <2>3. /\ sent[p] \in Rows /\ reply[p] \in Outcomes /\ e \in Event /\ b = session[p]
        /\ f.head = Expected(p) /\ mem[p].next = n + 1 /\ n \in Nat
    <3>1. sent[p] \in Rows /\ reply[p] \in Outcomes
      BY <2>2 DEF IInv, Control
    <3>2. e \in Event
      BY <3>1 DEF Event
    <3>3. f.head = Expected(p) /\ mem[p].next = n + 1
      BY <2>2 DEF IInv, Knows, Bound
    <3>4. b = session[p]
      BY <3>3 DEF Expected
    <3>5. n \in Nat
      BY <1>1 DEF ReceiptFile
    <3>6. QED
      BY <3>1, <3>2, <3>3, <3>4, <3>5
  <2>4. /\ n + 1 <= Len(f.head.plan) /\ sent[p] = f.head.plan[n + 1]
        /\ LineTrue(session[p], sent[p], reply[p])
    BY <2>2, <2>3 DEF EvidenceInv, AtRow, Expected
  <2>5. /\ Len(g.events) = n + 1 /\ g.events[n + 1] = e
        /\ \A i \in 1..n : g.events[i] = f.events[i]
    <3>1. f.events \in Seq(Event)
      BY <1>2, <2>2
    <3> HIDE DEF e, f
    <3>2. QED
      BY <2>2, <2>3, <3>1, AppendLines DEF n
  <2>6. Fits(entries'[b][KeyOf[sent[p]]], sent[p], reply[p])
    <3>1. KeyOf[sent[p]] \in Keys /\ b \in Bindings
      BY <1>2, <2>2, <2>3, ImportConstants
    <3>2. Fits(entries[b][KeyOf[sent[p]]], sent[p], reply[p])
      BY <2>3, <2>4 DEF LineTrue, Held
    <3>3. /\ entries[b][KeyOf[sent[p]]] # None =>
               entries'[b][KeyOf[sent[p]]] = entries[b][KeyOf[sent[p]]]
          /\ entries'[b][KeyOf[sent[p]]] \notin InvalidRows
      BY <1>1, <3>1 DEF HeldForGood
    <3>4. QED
      BY <2>3, <3>2, <3>3, FitsForGood
  <2>7. EventsMatch(g.events, g.head.plan)
    <3>1. EventsMatch(f.events, f.head.plan)
      BY <2>2 DEF EvidenceInv, LinesSettled
    <3>2. \A i \in 1..(n + 1) : g.events[i].row = f.head.plan[i]
      <4> TAKE i \in 1..(n + 1)
      <4>1. CASE i = n + 1
        BY <2>4, <2>5, <4>1
      <4>2. CASE i # n + 1
        <5>1. i \in 1..n /\ g.events[i] = f.events[i]
          BY <2>3, <2>5, <4>2
        <5>2. f.events[i].row = f.head.plan[i]
          BY <3>1, <5>1 DEF EventsMatch
        <5>3. QED
          BY <5>1, <5>2
      <4>3. QED
        BY <4>1, <4>2
    <3>3. QED
      BY <2>2, <2>4, <2>5, <3>2 DEF EventsMatch
  <2>8. \A i \in 1..Len(g.events) :
          Fits(entries'[b][KeyOf[g.events[i].row]], g.events[i].row, g.events[i].outcome)
    <3> TAKE i \in 1..Len(g.events)
    <3>1. CASE i = n + 1
      <4>1. g.events[i].row = sent[p] /\ g.events[i].outcome = reply[p]
        BY <2>5, <3>1
      <4>2. QED
        BY <2>6, <4>1
    <3>2. CASE i # n + 1
      <4>1. i \in 1..n /\ g.events[i] = f.events[i]
        BY <2>3, <2>5, <3>2
      <4>2. QED
        BY <1>2, <2>2, <4>1
    <3>3. QED
      BY <3>1, <3>2
  <2>9. QED
    BY <2>1, <2>2, <2>7, <2>8 DEF OneMore, HasManifest, LineTrue, Held
<1>6. QED
  BY <1>3, <1>4, <1>5, ReceiptMoves

\* The two counters of a checkpoint agree with the lines behind it.
LEMMA CountersStep ==
    ASSUME IInv, EvidenceInv, [Next]_vars
    PROVE  CountersMatchEvidence'
<1> SUFFICES ASSUME NEW c \in Checkpoints, checkpoint'[c] # None
             PROVE  Counts(checkpoint'[c], receipt'[checkpoint'[c].bound.pair.receipt].events)
  BY DEF CountersMatchEvidence, Counts
<1>1. CASE checkpoint' = checkpoint
  <2> DEFINE cp == checkpoint[c]
             r == cp.bound.pair.receipt
             f == receipt[r]
  <2>1. /\ cp \in Checkpoint /\ r \in Receipts /\ cp.bound \in Binding
        /\ f.head = cp.bound /\ Len(f.events) \in {cp.next - 1, cp.next}
        /\ f \in ReceiptFile
    BY <1>1 DEF IInv, StateTypeOK, FilesTypeOK, ReceiptLeadsCheckpoint, Checkpoint, Binding, Pair
  <2>2. HasManifest(r)
    BY <2>1, ImportConstants DEF HasManifest
  <2>3. Counts(cp, f.events)
    BY <1>1 DEF EvidenceInv, CountersMatchEvidence, Counts
  <2>4. \A i \in 1..(cp.next - 1) : receipt'[r].events[i] = f.events[i]
    <3>1. \A i \in 1..Len(f.events) : receipt'[r].events[i] = f.events[i]
      BY <2>1, <2>2, LinesStay
    <3>2. cp.next \in Nat /\ Len(f.events) \in Nat /\ cp.next - 1 <= Len(f.events)
      BY <2>1 DEF Checkpoint, ReceiptFile
    <3> HIDE DEF cp, f
    <3>3. 1..(cp.next - 1) \subseteq 1..Len(f.events)
      BY <3>2
    <3>4. QED
      BY <3>1, <3>3
  <2> HIDE DEF cp, r, f
  <2>5. Counts(cp, receipt'[r].events)
    BY <2>1, <2>3, <2>4, CountsSameLines
  <2>6. QED
    BY <1>1, <2>5 DEF cp, r
<1>2. CASE checkpoint' # checkpoint
  <2>1. PICK p \in Procs : ReplaceCheckpoint(p)
    BY <1>2, CheckpointWriters DEF vars, files
  <2>2. /\ pc[p] = "staged" /\ receipt' = receipt
        /\ checkpoint' = [checkpoint EXCEPT ![pair[p].checkpoint] = mem[p]]
    BY <2>1 DEF ReplaceCheckpoint
  <2>3. /\ receipt[pair[p].receipt].events = seen[p].events
        /\ mem[p].bound = Expected(p) /\ Counts(mem[p], seen[p].events)
    BY <2>2 DEF IInv, Knows, Bound, EvidenceInv, AtRow
  <2>4. CASE c = pair[p].checkpoint
    <3>1. checkpoint'[c] = mem[p]
      BY <2>2, <2>4 DEF IInv, StateTypeOK, FilesTypeOK
    <3>2. QED
      BY <2>2, <2>3, <3>1 DEF Expected
  <2>5. CASE c # pair[p].checkpoint
    <3>1. checkpoint'[c] = checkpoint[c]
      BY <2>2, <2>5 DEF IInv, StateTypeOK, FilesTypeOK
    <3>2. QED
      BY <2>2, <3>1 DEF EvidenceInv, CountersMatchEvidence, Counts
  <2>6. QED
    BY <2>4, <2>5
<1>3. QED
  BY <1>1, <1>2

\* A row somebody accounts for stays accounted for.
LEMMA AccountedStays ==
    ASSUME IInv, [Next]_vars, NEW b, NEW row, Accounted(b, row)
    PROVE  Accounted(b, row)'
<1>1. PICK r \in Receipts :
        /\ HasManifest(r) /\ receipt[r].head.who = b
        /\ \E i \in 1..Len(receipt[r].head.plan) :
             i <= Len(receipt[r].events) + 1 /\ receipt[r].head.plan[i] = row
  BY DEF Accounted
<1>2. PICK i \in 1..Len(receipt[r].head.plan) :
        i <= Len(receipt[r].events) + 1 /\ receipt[r].head.plan[i] = row
  BY <1>1
<1>3. /\ HasManifest(r)' /\ receipt'[r].head = receipt[r].head
      /\ Len(receipt'[r].events) >= Len(receipt[r].events)
  BY <1>1, LinesStay
<1>4. Len(receipt'[r].events) \in Nat /\ Len(receipt[r].events) \in Nat
  BY NextKeepsInvariant DEF IInv, StateTypeOK, FilesTypeOK, ReceiptFile
<1>5. i <= Len(receipt'[r].events) + 1
  BY <1>2, <1>3, <1>4
<1>6. QED
  BY <1>1, <1>2, <1>3, <1>5 DEF Accounted

\* The row a process has submitted is the next one of its receipt.
LEMMA SubmittedAccounted ==
    ASSUME IInv, EvidenceInv, NEW p \in Procs, pc[p] = "await"
    PROVE  Accounted(session[p], sent[p])
<1> DEFINE r == pair[p].receipt
           f == receipt[r]
<1>1. /\ r \in Receipts /\ f \in ReceiptFile /\ f.head = Expected(p)
      /\ Expected(p) \in Binding /\ mem[p].next = Len(f.events) + 1
  BY OwnFiles, ExpectedTyped DEF IInv, Knows, Bound, Locked
<1>2. /\ line[p] = Len(f.events) + 1 /\ line[p] <= Len(plan[p])
      /\ sent[p] = plan[p][line[p]]
  BY <1>1 DEF EvidenceInv, AtRow
<1>3. HasManifest(r) /\ f.head.who = session[p] /\ f.head.plan = plan[p]
  BY <1>1, ImportConstants DEF HasManifest, Expected
<1>4. line[p] \in 1..Len(plan[p])
  BY <1>1, <1>2 DEF Binding, Expected, ReceiptFile
<1>5. QED
  BY <1>1, <1>2, <1>3, <1>4 DEF Accounted

\* A request is only abandoned by the process that made it.
LEMMA LateGrows ==
    ASSUME [Next]_vars
    PROVE  \A q \in late' : q \in late \/ \E p \in Procs : q \in InFlight(p)
<1>1. CASE \E p \in Procs : Pause(p) \/ Die(p)
  BY <1>1 DEF Pause, Die
<1>2. CASE LateArrival
  BY <1>2 DEF LateArrival
<1>3. CASE \E p \in Procs : ServiceAnswers(p)
  BY <1>3 DEF ServiceAnswers
<1>4. ASSUME NEW p \in Procs,
             Begin(p) \/ ReplaceFails(p) \/ (Step(p) /\ ~ServiceAnswers(p))
      PROVE  late' = late
  <2>1. CASE Begin(p) \/ ReplaceFails(p)
    BY <2>1 DEF Begin, ReplaceFails, world
  <2>2. CASE Step(p) /\ ~ServiceAnswers(p)
    BY <2>2 DEF Step, ConfirmSource, AcquireImportLocks, LoadLocalState, OpenSession,
       CreateReceipt, SyncHeader, RecoverHeader, Rebind, CutTail, Reconcile,
       StageCheckpoint, ReplaceCheckpoint, OpenSource, SkipSettledRow, SubmitRow, RowChanged, BeginAppend, SyncEvent,
       EndOfSource, Finish, world
  <2>3. QED
    BY <1>4, <2>1, <2>2
<1>5. CASE EditSource \/ SwitchContext \/ ForeignCreate \/ UNCHANGED vars
  BY <1>5 DEF EditSource, SwitchContext, ForeignCreate, vars, world
<1>6. QED
  BY <1>1, <1>2, <1>3, <1>4, <1>5 DEF Next

\* A row only reaches the service, or the network, for an import that accounts
\* for it.
LEMMA AccountedStep ==
    ASSUME IInv, EvidenceInv, [Next]_vars
    PROVE  RowsAccountedFor' /\ LateAccounted'
<1>1. \A b, row : Accounted(b, row) => Accounted(b, row)'
  BY AccountedStays
<1>2. \A q \in late' : q \in late \/ \E p \in Procs : q \in InFlight(p)
  BY LateGrows
<1>3. LateAccounted'
  <2> SUFFICES ASSUME NEW q \in late' PROVE Accounted(q.who, q.row)'
    BY DEF LateAccounted
  <2>1. Accounted(q.who, q.row)
    BY <1>2, SubmittedAccounted DEF InFlight, EvidenceInv, LateAccounted
  <2>2. QED
    BY <1>1, <2>1
<1>4. ASSUME NEW b \in Bindings, NEW k \in Keys, entries'[b][k] \in Rows,
             entries'[b][k] # entries[b][k]
      PROVE  Accounted(b, entries'[b][k])
  <2>1. CASE \E p \in Procs : ServiceAnswers(p)
    <3>1. PICK p \in Procs : ServiceAnswers(p)
      BY <2>1
    <3>2. /\ session[p] \in Bindings /\ sent[p] \in Rows /\ pc[p] = "await"
          /\ Apply(session[p], sent[p])
      BY <3>1 DEF ServiceAnswers, IInv, Control, Bound
    <3>3. b = session[p] /\ entries'[b][k] = sent[p]
      BY <1>4, <3>2, AnswerFits DEF IInv, StateTypeOK, EvidenceInv
    <3>4. QED
      BY <3>2, <3>3, SubmittedAccounted
  <2>2. CASE LateArrival
    <3>1. PICK q \in late : Apply(q.who, q.row)
      BY <2>2 DEF LateArrival
    <3>2. q.who \in Bindings /\ q.row \in Rows
      BY DEF IInv, StateTypeOK, WorldTypeOK
    <3>3. b = q.who /\ entries'[b][k] = q.row
      BY <1>4, <3>1, <3>2, AnswerFits DEF IInv, StateTypeOK, EvidenceInv
    <3>4. QED
      BY <3>3 DEF EvidenceInv, LateAccounted
  <2>3. CASE ForeignCreate
    <3>1. entries'[b][k] = Foreign
      BY <1>4, <2>3 DEF ForeignCreate, IInv, StateTypeOK, WorldTypeOK
    <3>2. QED
      BY <1>4, <3>1, ImportConstants
  <2>4. CASE EditSource \/ SwitchContext \/ UNCHANGED vars
    BY <1>4, <2>4 DEF EditSource, SwitchContext, vars, world
  <2>5. CASE \E p \in Procs : Quiet(p)
    BY <1>4, <2>5, QuietKeepsEntries
  <2>6. QED
    BY <2>1, <2>2, <2>3, <2>4, <2>5 DEF Next, Quiet
<1>5. RowsAccountedFor'
  <2>1. ASSUME NEW b \in Bindings, NEW k \in Keys, entries'[b][k] \in Rows
        PROVE  Accounted(b, entries'[b][k])
    BY <1>4, <2>1 DEF EvidenceInv, RowsAccountedFor, Accounted
  <2>2. ASSUME NEW b \in Bindings, NEW k \in Keys, entries'[b][k] \in Rows
        PROVE  \E r \in Receipts :
                 /\ HasManifest(r)' /\ receipt'[r].head.who = b
                 /\ \E i \in 1..Len(receipt'[r].head.plan) :
                      /\ i <= Len(receipt'[r].events) + 1
                      /\ receipt'[r].head.plan[i] = entries'[b][k]
    <3> DEFINE row == entries'[b][k]
    <3>1. \A x : Accounted(b, x) => Accounted(b, x)'
      BY <1>1
    <3>2. \A x : Accounted(b, x) =>
            \E r \in Receipts :
                 /\ HasManifest(r)' /\ receipt'[r].head.who = b
                 /\ \E i \in 1..Len(receipt'[r].head.plan) :
                      /\ i <= Len(receipt'[r].events) + 1
                      /\ receipt'[r].head.plan[i] = x
      BY <3>1 DEF Accounted
    <3>3. QED
      BY <2>1, <2>2, <3>2
  <2>3. QED
    BY <2>2 DEF RowsAccountedFor, HasManifest
<1>6. QED
  BY <1>3, <1>5

-----------------------------------------------------------------------------
(* The evidence theorems.                                                  *)

LEMMA EvidenceInitially == Init => EvidenceInv
<1> SUFFICES ASSUME Init PROVE EvidenceInv
  OBVIOUS
<1>1. /\ \A r \in Receipts : receipt[r] = NoReceipt /\ ~HasManifest(r)
      /\ \A c \in Checkpoints : checkpoint[c] = None
      /\ \A b \in Bindings, k \in Keys : entries[b][k] = None
      /\ late = {}
  BY DEF Init, HasManifest, NoReceipt
<1>2. ServiceSound /\ RowsAccountedFor
  BY <1>1, ImportConstants DEF ServiceSound, RowsAccountedFor
<1>3. LinesSettled /\ CountersMatchEvidence /\ LateAccounted
  BY <1>1 DEF LinesSettled, CountersMatchEvidence, LateAccounted, NoReceipt
<1>4. \A p \in Procs : AtRow(p)
  BY DEF Init, AtRow, Early, Bound
<1>5. QED
  BY <1>2, <1>3, <1>4 DEF EvidenceInv

LEMMA EvidenceStep == IInv /\ EvidenceInv /\ [Next]_vars => EvidenceInv'
<1> SUFFICES ASSUME IInv, EvidenceInv, [Next]_vars PROVE EvidenceInv'
  OBVIOUS
<1>1. ServiceSound'
  BY ServiceStep DEF EvidenceInv
<1>2. QED
  BY <1>1, LinesStep, CountersStep, AccountedStep, AtRowStep DEF EvidenceInv

\* Files and processes never say anything untrue of the service.
THEOREM EvidenceInductive == Spec => []EvidenceInv
  BY EvidenceInitially, EvidenceStep, Inductive, PTL DEF Spec

\* Whatever deaths, edits, identity switches, late requests and concurrent
\* imports led there: each line of a receipt is about the row of its source at
\* that place, says committed exactly when the service holds that very row in
\* the bound project, and the counters of a checkpoint agree with the lines.
THEOREM EvidenceStaysTrue == Spec => []EvidenceIsTrue
<1>1. IInv /\ EvidenceInv => EvidenceIsTrue
  <2> SUFFICES ASSUME EvidenceInv PROVE EvidenceIsTrue
    OBVIOUS
  <2>1. LinesAreTrue
    BY DEF EvidenceInv, LinesSettled, LinesAreTrue, LineTrue, Fits
  <2>2. QED
    BY <2>1 DEF EvidenceInv, EvidenceIsTrue
<1>2. QED
  BY <1>1, Inductive, EvidenceInductive, PTL

\* Every row any import put into any project is recorded in a receipt bound to
\* that project or is the next unsettled row of one, so a rerun finds it.
THEOREM RowsStayAccountedFor == Spec => []RowsAccountedFor
<1>1. EvidenceInv => RowsAccountedFor
  BY DEF EvidenceInv
<1>2. QED
  BY <1>1, EvidenceInductive, PTL

\* A command leaves its last point by its own return or by its death.
LEMMA FinalEnds ==
    ASSUME IInv, [Next]_vars, NEW p \in Procs, pc[p] = "final", pc'[p] = "idle"
    PROVE  Finish(p) \/ (Exit(p, "died"))
<1>1. CASE \E o \in Procs \ {p} : Begin(o) \/ Step(o) \/ Pause(o) \/ ReplaceFails(o) \/ Die(o)
  BY <1>1, StepOthersKept DEF OthersKept, LocalKept
<1>2. CASE Begin(p) \/ Pause(p) \/ ReplaceFails(p) \/ Die(p)
  BY <1>2 DEF Begin, Pause, ReplaceFails, Die
<1>3. CASE Step(p)
  <2>1. pc[p] = "final" /\ pc'[p] # "final"
    OBVIOUS
  <2>2. ~OpenSource(p) /\ ~CutTail(p) /\ ~Rebind(p)
    BY <2>1 DEF OpenSource, CutTail, Rebind
  <2>3. QED
    BY <1>3, <2>1, <2>2 DEF Step, ConfirmSource, AcquireImportLocks, LoadLocalState,
       OpenSession, CreateReceipt, SyncHeader, RecoverHeader, Reconcile, StageCheckpoint,
       ReplaceCheckpoint, SkipSettledRow, Reading, SubmitRow, RowChanged, ServiceAnswers,
       BeginAppend, SyncEvent, EndOfSource, AtEnd
<1>4. CASE UNCHANGED pc
  BY <1>4
<1>5. QED
  BY <1>1, <1>2, <1>3, <1>4
     DEF Next, LateArrival, EditSource, SwitchContext, ForeignCreate, vars

\* The checkpoint of a finished loop counts no refusal exactly when every line
\* says committed.
LEMMA AllCommitted ==
    ASSUME NEW cp \in Checkpoint, NEW events \in Seq(Event), Counts(cp, events),
           cp.next = Len(events) + 1
    PROVE  cp.refused = 0 <=> \A i \in 1..Len(events) : events[i].outcome = "committed"
<1> DEFINE n == Len(events)
           ok == {i \in 1..n : events[i].outcome = "committed"}
<1>1. n \in Nat /\ cp.next - 1 = n
  OBVIOUS
<1>2. cp.refused = n - Cardinality(ok) /\ cp.refused \in Nat
  BY <1>1 DEF Counts, Checkpoint
<1>3. IsFiniteSet(1..n) /\ Cardinality(1..n) = n /\ ok \in SUBSET (1..n)
  BY <1>1, FS_Interval
<1>4. IsFiniteSet(ok) /\ Cardinality(ok) \in Nat
  BY <1>1, LinesFinite
<1>5. ok = 1..n <=> \A i \in 1..n : events[i].outcome = "committed"
  OBVIOUS
<1> HIDE DEF ok, n
<1>6. Cardinality(ok) = n <=> ok = 1..n
  BY <1>3, FS_Subset
<1>7. cp.refused = 0 <=> Cardinality(ok) = n
  BY <1>1, <1>2, <1>4
<1>8. QED
  BY <1>5, <1>6, <1>7 DEF n

\* A command that returns from its last point tells the truth.
LEMMA FinishTellsTruth ==
    ASSUME IInv, EvidenceInv, ResultTypeOK, NEW p \in Procs, Finish(p),
           result'[p] \in {"paused", "complete", "complete_with_refusals"}
    PROVE  LET f == receipt[pair[p].receipt] IN
           /\ source = f.head.plan
           /\ Len(f.events) = Len(f.head.plan)
           /\ result'[p] = "complete"
                <=> \A i \in 1..Len(f.events) : f.events[i].outcome = "committed"
<1> DEFINE f == receipt[pair[p].receipt]
<1>1. /\ pc[p] = "final"
      /\ Exit(p, IF SourceStillPlanned(p) THEN Status(p) ELSE "source_changed")
  BY DEF Finish
<1>2. result'[p] = IF SourceStillPlanned(p) THEN Status(p) ELSE "source_changed"
  BY <1>1 DEF Exit, ResultTypeOK
<1>3. source = plan[p] /\ result'[p] = Status(p)
  BY <1>2 DEF SourceStillPlanned
<1>4. /\ f \in ReceiptFile /\ f.head = Expected(p) /\ f.events \in Seq(Event)
      /\ mem[p] \in Checkpoint /\ mem[p].next = Len(f.events) + 1
      /\ seen[p].events = f.events /\ plan[p] \in Seq(Rows)
  BY <1>1, OwnFiles DEF IInv, Control, Started, Knows, Bound, Locked, ReceiptFile
<1>5. mem[p].next = Len(plan[p]) + 1 /\ Counts(mem[p], f.events)
  BY <1>1, <1>4 DEF EvidenceInv, AtRow, Bound
<1>6. Len(f.events) = Len(plan[p])
  BY <1>4, <1>5
<1>7. f.head.plan = plan[p]
  BY <1>4 DEF Expected
<1>8. result'[p] = "complete" <=> mem[p].refused = 0
  BY <1>3, <1>4, <1>5 DEF Status, Checkpoint
<1>9. mem[p].refused = 0 <=> \A i \in 1..Len(f.events) : f.events[i].outcome = "committed"
  BY <1>4, <1>5, AllCommitted
<1>10. QED
  BY <1>3, <1>6, <1>7, <1>8, <1>9

\* No command reports success before every row of the source, as it still is,
\* was settled, and none reports a complete import after a refusal.
THEOREM SuccessesAreWhole == Spec => SuccessIsWhole
<1> DEFINE Truth ==
             \A p \in Procs :
               pc[p] = "final" /\ pc'[p] = "idle"
                 /\ result'[p] \in {"paused", "complete", "complete_with_refusals"} =>
               LET f == receipt[pair[p].receipt] IN
               /\ source = f.head.plan
               /\ Len(f.events) = Len(f.head.plan)
               /\ result'[p] = "complete"
                    <=> \A i \in 1..Len(f.events) : f.events[i].outcome = "committed"
<1>1. ASSUME IInv, EvidenceInv, TypeOK, [Next]_vars PROVE [Truth]_<<pc, result>>
  <2>1. ASSUME NEW p \in Procs, pc[p] = "final", pc'[p] = "idle",
               result'[p] \in {"paused", "complete", "complete_with_refusals"}
        PROVE  Finish(p)
    <3>1. ~Exit(p, "died")
      BY <1>1, <2>1 DEF Exit, TypeOK, ResultTypeOK
    <3>2. QED
      BY <1>1, <2>1, <3>1, FinalEnds
  <2>2. QED
    BY <1>1, <2>1, FinishTellsTruth DEF TypeOK
<1>2. QED
  BY <1>1, Inductive, TypeCorrect, EvidenceInductive, PTL DEF Spec, SuccessIsWhole

-----------------------------------------------------------------------------
(* The refinement.                                                         *)

LEMMA PromiseInitially == Init => Promise!Init
<1> SUFFICES ASSUME Init PROVE Promise!Init
  OBVIOUS
<1>1. \A r \in Receipts : receipt[r] = NoReceipt /\ ~HasManifest(r)
  BY DEF Init, HasManifest, NoReceipt
<1>2. \A r \in Receipts : PlanOf(r) = None /\ WhoOf(r) = None
  BY <1>1 DEF PlanOf, WhoOf
<1>3. ASSUME NEW r \in Receipts PROVE OutcomesOf(r) = <<>>
  <2>1. receipt[r].events = <<>>
    BY <1>1 DEF NoReceipt
  <2>2. QED
    BY <2>1 DEF OutcomesOf
<1>4. entries = [b \in Bindings |-> [k \in Keys |-> None]]
  BY DEF Init
<1>5. QED
  BY <1>2, <1>3, <1>4 DEF Promise!Init

\* A receipt that keeps its lines shows the same promise.
LEMMA SameShown ==
    ASSUME NEW r \in Receipts, LinesKept(r)
    PROVE  /\ PlanOf(r)' = PlanOf(r) /\ WhoOf(r)' = WhoOf(r)
           /\ OutcomesOf(r)' = OutcomesOf(r)
  BY DEF LinesKept, PlanOf, WhoOf, OutcomesOf, HasManifest

\* A step that keeps every line and every entry is invisible.
LEMMA Invisible ==
    ASSUME \A r \in Receipts : LinesKept(r), entries' = entries
    PROVE  UNCHANGED Promise!promise
<1>1. \A r \in Receipts : /\ PlanOf(r)' = PlanOf(r) /\ WhoOf(r)' = WhoOf(r)
                          /\ OutcomesOf(r)' = OutcomesOf(r)
  BY SameShown
<1>2. QED
  BY <1>1 DEF Promise!promise

\* What a bound receipt shows.
LEMMA Shown ==
    ASSUME IInv, NEW r \in Receipts, HasManifest(r)
    PROVE  /\ PlanOf(r) = receipt[r].head.plan /\ PlanOf(r) \in Seq(Rows) /\ PlanOf(r) # None
           /\ WhoOf(r) = receipt[r].head.who /\ WhoOf(r) \in Bindings
           /\ Len(receipt[r].events) \in Nat
<1>1. receipt[r] \in ReceiptFile /\ receipt[r].head \in Binding
  BY DEF IInv, StateTypeOK, FilesTypeOK, ReceiptFile, HasManifest
<1>2. QED
  BY <1>1, ImportConstants DEF PlanOf, WhoOf, Binding, ReceiptFile

\* One outcome for each line.
LEMMA OutcomesShown ==
    ASSUME NEW r, Len(receipt[r].events) \in Nat
    PROVE  /\ OutcomesOf(r) \in Seq({"committed", "refused"})
           /\ Len(OutcomesOf(r)) = Len(receipt[r].events)
           /\ \A i \in 1..Len(receipt[r].events) :
                OutcomesOf(r)[i] = IF receipt[r].events[i].outcome = "committed"
                                   THEN "committed" ELSE "refused"
  BY DEF OutcomesOf

LEMMA AppendWord ==
    ASSUME NEW words \in Seq({"committed", "refused"}), NEW word \in {"committed", "refused"}
    PROVE  Append(words, word) =
             [i \in 1..(Len(words) + 1) |-> IF i = Len(words) + 1 THEN word ELSE words[i]]
<1> DEFINE W == {"committed", "refused"}
           n == Len(words)
           s == Append(words, word)
           t == [i \in 1..(n + 1) |-> IF i = n + 1 THEN word ELSE words[i]]
<1>1. /\ n \in Nat /\ s \in Seq(W) /\ Len(s) = n + 1
      /\ \A i \in 1..(n + 1) : s[i] = IF i = n + 1 THEN word ELSE words[i]
  OBVIOUS
<1>2. t \in [1..(n + 1) -> W] /\ \A i \in 1..(n + 1) : t[i] = IF i = n + 1 THEN word ELSE words[i]
  BY <1>1
<1> HIDE DEF s, t, n, W
<1>3. t \in Seq(W) /\ Len(t) = n + 1
  BY <1>1, <1>2
<1>4. s = t
  BY <1>1, <1>2, <1>3, SeqEqual
<1>5. QED
  BY <1>4 DEF s, t, n

\* A whole header binds an import.
LEMMA HeaderBinds ==
    ASSUME IInv, EvidenceInv, NEW p \in Procs, NEW r \in Receipts, NewlyBound(r, p)
    PROVE  Promise!Bind(r)
<1>1. /\ pc[p] = "header" /\ r = pair[p].receipt /\ ~HasManifest(r)
      /\ receipt' = [receipt EXCEPT ![r] = [head |-> Expected(p), events |-> <<>>, tail |-> FALSE]]
      /\ entries' = entries
  BY DEF NewlyBound, SyncHeader, world
<1>2. /\ receipt \in [Receipts -> ReceiptFile] /\ Expected(p) \in Binding
      /\ plan[p] \in Sources /\ session[p] \in Bindings
  BY <1>1, ExpectedTyped
     DEF IInv, StateTypeOK, FilesTypeOK, Control, Bound, EvidenceInv, AtRow
<1>3. receipt'[r] = [head |-> Expected(p), events |-> <<>>, tail |-> FALSE]
  BY <1>1, <1>2
<1>4. PlanOf(r) = None /\ PlanOf(r)' = plan[p] /\ WhoOf(r)' = session[p]
  BY <1>1, <1>2, <1>3, ImportConstants DEF PlanOf, WhoOf, HasManifest, Expected
<1>5. OutcomesOf(r)' = OutcomesOf(r)
  BY <1>1, <1>3 DEF OutcomesOf, EvidenceInv, LinesSettled
<1>6. ASSUME NEW o \in Receipts, o # r
      PROVE  /\ PlanOf(o)' = PlanOf(o) /\ WhoOf(o)' = WhoOf(o) /\ OutcomesOf(o)' = OutcomesOf(o)
  BY <1>1, <1>2, <1>6, SameShown DEF LinesKept, HasManifest
<1>7. /\ [o \in Receipts |-> PlanOf(o)]' = [[o \in Receipts |-> PlanOf(o)] EXCEPT ![r] = plan[p]]
      /\ [o \in Receipts |-> WhoOf(o)]' = [[o \in Receipts |-> WhoOf(o)] EXCEPT ![r] = session[p]]
      /\ [o \in Receipts |-> OutcomesOf(o)]' = [o \in Receipts |-> OutcomesOf(o)]
  BY <1>4, <1>5, <1>6
<1>8. QED
  BY <1>1, <1>2, <1>4, <1>7 DEF Promise!Bind

\* A whole line settles the next row, with the outcome the service has.
LEMMA LineSettles ==
    ASSUME IInv, EvidenceInv, NEW p \in Procs, NEW r \in Receipts, OneMore(r, p)
    PROVE  Promise!Settle(r, sent[p]) /\ sent[p] \in Rows
<1> DEFINE f == receipt[r]
           n == Len(f.events)
           e == [row |-> sent[p], outcome |-> reply[p]]
           word == IF reply[p] = "committed" THEN "committed" ELSE "refused"
<1>1. /\ pc[p] = "append" /\ r = pair[p].receipt /\ HasManifest(r)
      /\ receipt'[r].head = f.head /\ receipt'[r].events = Append(f.events, e)
      /\ receipt' = [receipt EXCEPT ![r] = Settled(@, sent[p], reply[p])]
      /\ entries' = entries
  BY DEF OneMore, SyncEvent, world
<1>2. /\ receipt \in [Receipts -> ReceiptFile] /\ f.events \in Seq(Event) /\ n \in Nat
      /\ sent[p] \in Rows /\ reply[p] \in Outcomes /\ e \in Event
      /\ f.head = Expected(p) /\ mem[p].next = n + 1
  <2>1. receipt \in [Receipts -> ReceiptFile] /\ f \in ReceiptFile
    BY DEF IInv, StateTypeOK, FilesTypeOK
  <2>2. f.events \in Seq(Event) /\ n \in Nat
    BY <2>1 DEF ReceiptFile
  <2>3. sent[p] \in Rows /\ reply[p] \in Outcomes /\ e \in Event
    BY <1>1 DEF IInv, Control, Event
  <2>4. f.head = Expected(p) /\ mem[p].next = n + 1
    BY <1>1 DEF IInv, Knows, Bound
  <2>5. QED
    BY <2>1, <2>2, <2>3, <2>4
<1>3. /\ n + 1 <= Len(plan[p]) /\ sent[p] = plan[p][n + 1]
      /\ LineTrue(session[p], sent[p], reply[p])
  BY <1>1, <1>2 DEF EvidenceInv, AtRow
<1>4. PlanOf(r) = plan[p] /\ WhoOf(r) = session[p] /\ PlanOf(r) # None
  BY <1>1, <1>2, Shown DEF Expected
<1>5. /\ OutcomesOf(r) \in Seq({"committed", "refused"}) /\ Len(OutcomesOf(r)) = n
      /\ \A i \in 1..n : OutcomesOf(r)[i] =
            IF f.events[i].outcome = "committed" THEN "committed" ELSE "refused"
  BY <1>2, OutcomesShown
<1>6. word = IF entries[session[p]][KeyOf[sent[p]]] = sent[p] THEN "committed" ELSE "refused"
  BY <1>3 DEF LineTrue, Fits, Held
<1>7. OutcomesOf(r)' = Append(OutcomesOf(r), word)
  <2> DEFINE g == receipt'[r].events
  <2>1. /\ Len(g) = n + 1 /\ g[n + 1] = e /\ \A i \in 1..n : g[i] = f.events[i]
    BY <1>1, <1>2, AppendLines
  <2>2. OutcomesOf(r)' = [i \in 1..(n + 1) |->
                            IF g[i].outcome = "committed" THEN "committed" ELSE "refused"]
    BY <2>1 DEF OutcomesOf
  <2>3. \A i \in 1..(n + 1) :
          (IF g[i].outcome = "committed" THEN "committed" ELSE "refused")
             = IF i = n + 1 THEN word ELSE OutcomesOf(r)[i]
    <3> TAKE i \in 1..(n + 1)
    <3>1. CASE i = n + 1
      BY <2>1, <3>1
    <3>2. CASE i # n + 1
      BY <1>2, <1>5, <2>1, <3>2
    <3>3. QED
      BY <3>1, <3>2
  <2> HIDE DEF g, n, word
  <2>4. OutcomesOf(r)' = [i \in 1..(n + 1) |-> IF i = n + 1 THEN word ELSE OutcomesOf(r)[i]]
    BY <2>2, <2>3
  <2>5. word \in {"committed", "refused"} /\ Len(OutcomesOf(r)) = n
    BY <1>5 DEF word, n
  <2>6. QED
    BY <1>5, <2>4, <2>5, AppendWord
<1>8. PlanOf(r)' = PlanOf(r) /\ WhoOf(r)' = WhoOf(r)
  BY <1>1 DEF PlanOf, WhoOf, HasManifest
<1>9. ASSUME NEW o \in Receipts, o # r
      PROVE  /\ PlanOf(o)' = PlanOf(o) /\ WhoOf(o)' = WhoOf(o) /\ OutcomesOf(o)' = OutcomesOf(o)
  BY <1>1, <1>2, <1>9, SameShown DEF LinesKept, HasManifest
<1>10. /\ [o \in Receipts |-> PlanOf(o)]' = [o \in Receipts |-> PlanOf(o)]
       /\ [o \in Receipts |-> WhoOf(o)]' = [o \in Receipts |-> WhoOf(o)]
       /\ [o \in Receipts |-> OutcomesOf(o)]' =
            [[o \in Receipts |-> OutcomesOf(o)] EXCEPT ![r] = Append(@, word)]
  BY <1>7, <1>8, <1>9
<1>11. Promise!Due(r, sent[p])
  BY <1>2, <1>3, <1>4, <1>5 DEF Promise!Due
<1>12. Promise!Outcome(r, sent[p]) = word
  BY <1>4, <1>6 DEF Promise!Outcome
<1>13. QED
  BY <1>1, <1>2, <1>10, <1>11, <1>12 DEF Promise!Settle

\* A request some import accounts for is a row the promise lets the service
\* take, or changes nothing.
LEMMA RequestTakes ==
    ASSUME IInv, EvidenceInv, NEW b \in Bindings, NEW row \in Rows, Accounted(b, row),
           Apply(b, row), receipt' = receipt
    PROVE  \/ \E r \in Receipts : Promise!Take(r, row)
           \/ UNCHANGED Promise!promise
<1>1. \A r \in Receipts : LinesKept(r)
  BY DEF LinesKept, HasManifest
<1>2. CASE entries' = entries
  BY <1>1, <1>2, Invisible
<1>3. CASE entries' # entries
  <2> DEFINE k == KeyOf[row]
  <2>1. /\ entries \in [Bindings -> [Keys -> Rows \union {None, Foreign}]] /\ k \in Keys
        /\ InvalidRows \subseteq Rows /\ row # None
    BY ImportConstants DEF IInv, StateTypeOK, WorldTypeOK
  <2>2. /\ entries' = [entries EXCEPT ![b][k] = row]
        /\ Answer(entries[b][k], row) = "committed"
    BY <1>3 DEF Apply, Held
  <2>3. entries[b][k] # row
    <3>1. CASE entries[b][k] = row
      <4>1. entries' = entries
        BY <2>1, <2>2, <3>1
      <4>2. QED
        BY <1>3, <4>1
    <3>2. QED
      BY <3>1
  <2>4. entries[b][k] = None /\ row \notin InvalidRows
    BY <2>2, <2>3 DEF Answer
  <2>5. PICK r \in Receipts :
          /\ HasManifest(r) /\ receipt[r].head.who = b
          /\ \E i \in 1..Len(receipt[r].head.plan) :
               i <= Len(receipt[r].events) + 1 /\ receipt[r].head.plan[i] = row
    BY DEF Accounted
  <2>6. PICK i \in 1..Len(receipt[r].head.plan) :
          i <= Len(receipt[r].events) + 1 /\ receipt[r].head.plan[i] = row
    BY <2>5
  <2>7. /\ PlanOf(r) = receipt[r].head.plan /\ PlanOf(r) # None /\ PlanOf(r) \in Seq(Rows)
        /\ WhoOf(r) = b /\ Len(receipt[r].events) \in Nat
        /\ Len(OutcomesOf(r)) = Len(receipt[r].events)
    BY <2>5, Shown, OutcomesShown
  <2>8. i = Len(receipt[r].events) + 1
    <3>1. CASE i <= Len(receipt[r].events)
      <4>1. i \in 1..Len(receipt[r].events)
        BY <2>7, <3>1
      <4>2. receipt[r].events[i].row = row
        BY <2>5, <2>6, <4>1 DEF EvidenceInv, LinesSettled, EventsMatch
      <4>3. Fits(entries[b][k], row, receipt[r].events[i].outcome)
        BY <2>5, <4>1, <4>2 DEF EvidenceInv, LinesSettled, LineTrue, Held
      <4>4. QED
        BY <2>4, <4>3 DEF Fits
    <3>2. QED
      BY <2>6, <2>7, <3>1
  <2>9. Promise!Due(r, row)
    BY <2>5, <2>6, <2>7, <2>8 DEF Promise!Due
  <2>10. \A o \in Receipts : /\ PlanOf(o)' = PlanOf(o) /\ WhoOf(o)' = WhoOf(o)
                             /\ OutcomesOf(o)' = OutcomesOf(o)
    BY <1>1, SameShown
  <2>11. Promise!Take(r, row)
    BY <2>2, <2>4, <2>5, <2>7, <2>9, <2>10 DEF Promise!Take
  <2>12. QED
    BY <2>11
<1>4. QED
  BY <1>2, <1>3

LEMMA PromiseStep ==
    IInv /\ EvidenceInv /\ [Next]_vars => [Promise!Next]_(Promise!promise)
<1> SUFFICES ASSUME IInv, EvidenceInv, [Next]_vars
             PROVE  Promise!Next \/ UNCHANGED Promise!promise
  OBVIOUS
<1>1. CASE receipt' # receipt
  <2>1. PICK p \in Procs : WritesReceipt(p)
    BY <1>1, ReceiptWriters DEF vars, files
  <2>2. CASE \E r \in Receipts : NewlyBound(r, p)
    BY <2>2, HeaderBinds DEF Promise!Next
  <2>3. CASE \E r \in Receipts : OneMore(r, p)
    BY <2>3, LineSettles DEF Promise!Next
  <2>4. CASE \A r \in Receipts : LinesKept(r)
    <3>1. entries' = entries
      BY <2>1 DEF WritesReceipt, CreateReceipt, SyncHeader, CutTail, BeginAppend, SyncEvent, world
    <3>2. QED
      BY <2>4, <3>1, Invisible
  <2>5. QED
    BY <2>1, <2>2, <2>3, <2>4, WriteMoves
<1>2. CASE receipt' = receipt /\ entries' = entries
  BY <1>2, Invisible DEF LinesKept, HasManifest
<1>3. CASE receipt' = receipt /\ entries' # entries
  <2>1. CASE \E p \in Procs : ServiceAnswers(p)
    <3>1. PICK p \in Procs : ServiceAnswers(p)
      BY <2>1
    <3>2. /\ session[p] \in Bindings /\ sent[p] \in Rows /\ pc[p] = "await"
          /\ Apply(session[p], sent[p])
      BY <3>1 DEF ServiceAnswers, IInv, Control, Bound
    <3>3. QED
      BY <1>3, <3>2, SubmittedAccounted, RequestTakes DEF Promise!Next
  <2>2. CASE LateArrival
    <3>1. PICK q \in late : Apply(q.who, q.row)
      BY <2>2 DEF LateArrival
    <3>2. q.who \in Bindings /\ q.row \in Rows /\ Accounted(q.who, q.row)
      BY DEF IInv, StateTypeOK, WorldTypeOK, EvidenceInv, LateAccounted
    <3>3. QED
      BY <1>3, <3>1, <3>2, RequestTakes DEF Promise!Next
  <2>3. CASE ForeignCreate
    <3>1. PICK b \in Bindings, k \in Keys :
            entries[b][k] = None /\ entries' = [entries EXCEPT ![b][k] = Foreign]
      BY <2>3 DEF ForeignCreate
    <3>2. \A r \in Receipts : /\ PlanOf(r)' = PlanOf(r) /\ WhoOf(r)' = WhoOf(r)
                              /\ OutcomesOf(r)' = OutcomesOf(r)
      BY <1>3, SameShown DEF LinesKept, HasManifest
    <3>3. Promise!OutsideCreate(b, k)
      BY <3>1, <3>2 DEF Promise!OutsideCreate
    <3>4. QED
      BY <3>3 DEF Promise!Next
  <2>4. CASE EditSource \/ SwitchContext \/ UNCHANGED vars
    BY <1>3, <2>4 DEF EditSource, SwitchContext, vars, world
  <2>5. CASE \E p \in Procs : Quiet(p)
    BY <1>3, <2>5, QuietKeepsEntries
  <2>6. QED
    BY <2>1, <2>2, <2>3, <2>4, <2>5 DEF Next, Quiet
<1>4. QED
  BY <1>1, <1>2, <1>3

\* However many processes import through however many receipts and whatever
\* dies or arrives late, every import is bound once, the service only takes the
\* row that is next in some import, and each row is settled once, in order,
\* with the outcome the service really has.
THEOREM ImportsKeepPromise == Spec => KeepsPromise
<1>1. Init /\ [][Next]_vars /\ []IInv /\ []EvidenceInv
        => Promise!Init /\ [][Promise!Next]_(Promise!promise)
  BY PromiseInitially, PromiseStep, PTL
<1>2. QED
  BY <1>1, Inductive, EvidenceInductive, PTL DEF Spec, KeepsPromise, Promise!Spec
=============================================================================
