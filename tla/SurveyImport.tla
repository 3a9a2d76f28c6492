---------------------------- MODULE SurveyImport ----------------------------
(***************************************************************************)
(* `ds survey entries import`: a checkpointed, resumable, sequential       *)
(* import of one immutable NDJSON source into the governed create service. *)
(*                                                                         *)
(* Several processes may run the command, on the same or on overlapping    *)
(* state files.  A process validates the source twice, takes both sidecar  *)
(* locks, inspects its receipt and checkpoint, opens one session, and then *)
(* for each row: submits it, appends its terminal event to the receipt,    *)
(* and only then moves the checkpoint.  It may die between any two steps.  *)
(*                                                                         *)
(* External: the create service (one idempotent create per key), the       *)
(* person who edits the source, switches the selected project and reruns   *)
(* the command, and the operating system (locks die with their process).   *)
(***************************************************************************)
EXTENDS Naturals, Sequences, FiniteSets

CONSTANTS
    Procs,        \* process ids the operating system hands out
    Receipts,     \* receipt paths
    Checkpoints,  \* checkpoint paths
    Pairs,        \* the [receipt, checkpoint] pairs people run the command with
    Rows,         \* canonical source rows, as their digests tell them apart
    Keys,         \* idempotency key / canonical document identity
    KeyOf,        \* the key of every row
    Sources,      \* contents the source file may have: sequences of rows
    Bindings,     \* authenticated principal + audience + selected project
    InvalidRows,  \* rows the service answers `survey_entry_create_invalid`
    MaxFaults,    \* bound on deaths, uncertain answers, edits and switches
    PidReuse,     \* TRUE if a process id may come back after a death
    None, Torn, Foreign

Pair     == [receipt : Receipts, checkpoint : Checkpoints]
Outcomes == {"committed", "survey_entry_create_invalid",
             "survey_entry_create_idempotency_conflict",
             "survey_entry_create_already_exists"}

\* What a manifest and a checkpoint are bound to: both state paths, the exact
\* source, and the authenticated principal, audience and project.
Binding == [pair : Pair, plan : Seq(Rows), who : Bindings]

\* A terminal receipt line.  Its line number is its index in the receipt.
Event == [row : Rows, outcome : Outcomes]

\* A receipt file: no file, a header cut short by a death, or a manifest,
\* followed by whole event lines and perhaps an unfinished last line.
ReceiptFile == [head : Binding \union {None, Torn}, events : Seq(Event), tail : BOOLEAN]
NoReceipt   == [head |-> None, events |-> <<>>, tail |-> FALSE]

Checkpoint == [bound : Binding, next : Nat, committed : Nat, refused : Nat]

ASSUME ImportConstants ==
    /\ Pairs \subseteq Pair
    /\ KeyOf \in [Rows -> Keys]
    /\ Sources \subseteq Seq(Rows)
    /\ InvalidRows \subseteq Rows
    /\ MaxFaults \in Nat
    /\ PidReuse \in BOOLEAN
    /\ None \notin Binding \union Rows \union Bindings \union Checkpoint
                     \union ReceiptFile \union Pair \union Seq(Rows) \union Outcomes
    /\ Torn \notin Binding
    /\ Foreign \notin Rows
    /\ None # Torn /\ None # Foreign

VARIABLES
    receipt,     \* receipt[r]: the receipt file at path r
    checkpoint,  \* checkpoint[c]: the checkpoint file at path c, or None
    stages,      \* checkpoint stage files on disk: [checkpoint, pid, seq]
    source,      \* the source file now
    context,     \* the identity and project a session opens with now, or None
    entries,     \* entries[b][k]: what the service holds: None, a row, Foreign
    late,        \* abandoned create requests the service may still receive
    faults,      \* faults so far
    pc,          \* where process p is in the command; "idle" between commands
    pair,        \* the state files it was given
    plan,        \* the rows its validation found
    policy,      \* --on-error
    session,     \* the binding frozen when its session opened
    handle,      \* what its open handle on the source reads, or None
    seen,        \* its copy of the receipt
    mem,         \* its copy of the checkpoint
    line,        \* the line it reads next
    sent,        \* the row it submitted, as read from the source
    reply,       \* the service's answer
    seq,         \* its stage name counter
    result       \* how its last command ended

files == <<receipt, checkpoint, stages>>
world == <<source, context, entries, late, faults>>
local == <<pair, plan, policy, session, seen, mem, line, sent, reply, seq>>
vars  == <<files, world, local, handle, pc, result>>

-----------------------------------------------------------------------------
(* Local control of a process.                                             *)

\* Points at which a process owns the two sidecar locks of its pair.
Locked == {"locked", "loaded", "opened", "header", "cut", "reconcile",
           "checkpoint", "staged", "row", "await", "answered", "append", "final"}

\* Points reached only after the durable state was bound to the open session.
Bound == {"header", "cut", "reconcile", "checkpoint", "staged", "row", "await",
          "answered", "append", "final"}

PCs == {"idle", "planned", "confirmed"} \union Locked

\* How a command ends: its status, or the code it refuses or pauses with.
Results == {None, "complete", "complete_with_refusals", "paused", "died",
            "source_invalid", "source_changed", "state_conflict", "state_incomplete",
            "receipt_unsafe", "receipt_mismatch", "checkpoint_unsafe",
            "checkpoint_mismatch", "headless_signed_out", "import_paused", "row_refused"}

Fault == faults < MaxFaults /\ faults' = faults + 1

\* Leave the command, by return, refusal or death: every local value is gone
\* and the locks with it; only the result stays visible.
Exit(p, why) ==
    /\ pc'      = [pc EXCEPT ![p] = "idle"]
    /\ result'  = [result EXCEPT ![p] = why]
    /\ pair'    = [pair EXCEPT ![p] = None]
    /\ plan'    = [plan EXCEPT ![p] = None]
    /\ policy'  = [policy EXCEPT ![p] = None]
    /\ session' = [session EXCEPT ![p] = None]
    /\ handle'  = [handle EXCEPT ![p] = None]
    /\ seen'    = [seen EXCEPT ![p] = None]
    /\ mem'     = [mem EXCEPT ![p] = None]
    /\ line'    = [line EXCEPT ![p] = 1]
    /\ sent'    = [sent EXCEPT ![p] = None]
    /\ reply'   = [reply EXCEPT ![p] = None]
    /\ seq'     = [seq EXCEPT ![p] = 1]

\* Go on; an open source stays open.
Goto(p, where) == pc' = [pc EXCEPT ![p] = where] /\ UNCHANGED <<handle, result>>

-----------------------------------------------------------------------------
(* Source validation, locks and local state, before any authentication.    *)

\* Non-empty, and no two rows share an idempotency key or identity.
ValidSource(s) ==
    s # <<>> /\ \A i, j \in 1..Len(s) : KeyOf[s[i]] = KeyOf[s[j]] => i = j

Begin(p) ==
    /\ pc[p] = "idle"
    /\ \E q \in Pairs, onError \in {"stop", "continue"} :
         IF ValidSource(source)
         THEN /\ pair'   = [pair EXCEPT ![p] = q]
              /\ plan'   = [plan EXCEPT ![p] = source]
              /\ policy' = [policy EXCEPT ![p] = onError]
              /\ pc'     = [pc EXCEPT ![p] = "planned"]
              /\ result' = [result EXCEPT ![p] = None]
              /\ UNCHANGED <<session, handle, seen, mem, line, sent, reply, seq>>
         ELSE Exit(p, "source_invalid")
    /\ stages' = IF PidReuse THEN stages ELSE {s \in stages : s.pid # p}
    /\ UNCHANGED <<receipt, checkpoint, world>>

ConfirmSource(p) ==
    /\ pc[p] = "planned"
    /\ IF source = plan[p]
       THEN Goto(p, "confirmed") /\ UNCHANGED local
       ELSE Exit(p, "source_changed")
    /\ UNCHANGED <<files, world>>

\* Faulty: the sidecar locks are not taken.
FaultyNoLocks(p, q) == TRUE

\* Faulty: only the receipt lock is taken.
FaultyReceiptLockOnly(p, q) ==
    \A o \in Procs \ {p} : pc[o] \in Locked => pair[o].receipt # q.receipt

\* No other process holds the lock of either of the two paths.
LocksFree(p, q) ==
    \A o \in Procs \ {p} : pc[o] \in Locked =>
        /\ pair[o].receipt # q.receipt
        /\ pair[o].checkpoint # q.checkpoint

AcquireImportLocks(p) ==
    /\ pc[p] = "confirmed"
    /\ IF LocksFree(p, pair[p])
       THEN Goto(p, "locked") /\ UNCHANGED local
       ELSE Exit(p, "state_conflict")
    /\ UNCHANGED <<files, world>>

\* The parts of a binding that can be compared before authentication.
BoundPreAuth(p, b) == b.pair = pair[p] /\ b.plan = plan[p]

CheckpointWellFormed(cp) ==
    /\ cp.next \in 1..(Len(cp.bound.plan) + 1)
    /\ cp.committed + cp.refused = cp.next - 1

EventsMatch(events, rows) ==
    /\ Len(events) <= Len(rows)
    /\ \A i \in 1..Len(events) : events[i].row = rows[i]

\* load_local_state: which of the three resumable states the files are in, or
\* the refusal they get.
LocalState(p, rf, cp) ==
    CASE rf.head = None /\ cp = None -> "fresh"
      [] rf.head = None /\ cp # None -> "state_incomplete"
      [] rf.head = Torn -> "receipt_unsafe"
      [] rf.head \notin {None, Torn} /\ cp = None ->
           IF ~BoundPreAuth(p, rf.head) THEN "receipt_mismatch"
           ELSE IF rf.tail \/ rf.events # <<>> THEN "state_incomplete"
           ELSE "receipt_only"
      [] OTHER ->
           IF ~(BoundPreAuth(p, cp.bound) /\ CheckpointWellFormed(cp))
           THEN "checkpoint_mismatch"
           ELSE IF ~(BoundPreAuth(p, rf.head) /\ EventsMatch(rf.events, plan[p]))
           THEN "receipt_mismatch"
           ELSE "resume"

LoadLocalState(p) ==
    LET rf == receipt[pair[p].receipt]
        cp == checkpoint[pair[p].checkpoint]
        st == LocalState(p, rf, cp)
    IN  /\ pc[p] = "locked"
        /\ IF st \in {"fresh", "receipt_only", "resume"}
           THEN /\ seen' = [seen EXCEPT ![p] = rf]
                /\ mem'  = [mem EXCEPT ![p] = cp]
                /\ Goto(p, "loaded")
                /\ UNCHANGED <<pair, plan, policy, session, line, sent, reply, seq>>
           ELSE Exit(p, st)
        /\ UNCHANGED <<files, world>>

OpenSession(p) ==
    /\ pc[p] = "loaded"
    /\ IF context # None
       THEN /\ session' = [session EXCEPT ![p] = context]
            /\ Goto(p, "opened")
            /\ UNCHANGED <<pair, plan, policy, seen, mem, line, sent, reply, seq>>
       ELSE Exit(p, "headless_signed_out")
    /\ UNCHANGED <<files, world>>

-----------------------------------------------------------------------------
(* Binding the durable state to the session.                               *)

\* Faulty: the project is read again instead of kept from the session.
FaultyContextReadAgain(p) == [pair |-> pair[p], plan |-> plan[p], who |-> context]

Expected(p) == [pair |-> pair[p], plan |-> plan[p], who |-> session[p]]

FreshCheckpoint(p) ==
    [bound |-> Expected(p), next |-> 1, committed |-> 0, refused |-> 0]

\* create_receipt: a new file or a refusal, and the file exists before its
\* header line is whole.
CreateReceipt(p) ==
    LET r == pair[p].receipt IN
    /\ pc[p] = "opened" /\ seen[p].head = None
    /\ IF receipt[r].head = None
       THEN /\ receipt' = [receipt EXCEPT ![r].head = Torn]
            /\ Goto(p, "header") /\ UNCHANGED local
       ELSE Exit(p, "receipt_unsafe") /\ UNCHANGED receipt
    /\ UNCHANGED <<checkpoint, stages, world>>

SyncHeader(p) ==
    LET r == pair[p].receipt
        f == [head |-> Expected(p), events |-> <<>>, tail |-> FALSE]
    IN  /\ pc[p] = "header"
        /\ receipt' = [receipt EXCEPT ![r] = f]
        /\ seen' = [seen EXCEPT ![p] = f]
        /\ mem' = [mem EXCEPT ![p] = FreshCheckpoint(p)]
        /\ Goto(p, "checkpoint")
        /\ UNCHANGED <<checkpoint, stages, world, pair, plan, policy, session,
                       line, sent, reply, seq>>

\* Faulty: nothing is compared again once the session is open.
FaultyPreAuthOnly(p) == receipt[pair[p].receipt] = seen[p]

\* The post-authentication comparison: the whole binding, principal included,
\* and a receipt that is byte for byte the one inspected before.
SameBinding(p) ==
    /\ seen[p].head = Expected(p)
    /\ mem[p] # None => mem[p].bound = Expected(p)
    /\ receipt[pair[p].receipt] = seen[p]

RecoverHeader(p) ==
    /\ pc[p] = "opened" /\ seen[p].head # None /\ mem[p] = None
    /\ IF SameBinding(p)
       THEN /\ mem' = [mem EXCEPT ![p] = FreshCheckpoint(p)]
            /\ Goto(p, "checkpoint")
            /\ UNCHANGED <<pair, plan, policy, session, seen, line, sent, reply, seq>>
       ELSE Exit(p, "receipt_mismatch")
    /\ UNCHANGED <<files, world>>

\* Resume: compare everything again; an unfinished last line is still there.
Rebind(p) ==
    /\ pc[p] = "opened" /\ mem[p] # None
    /\ IF SameBinding(p)
       THEN Goto(p, IF seen[p].tail THEN "cut" ELSE "reconcile") /\ UNCHANGED local
       ELSE Exit(p, IF mem[p].bound = Expected(p) THEN "receipt_mismatch"
                                                  ELSE "checkpoint_mismatch")
    /\ UNCHANGED <<files, world>>

\* truncate_bound_receipt_tail: back to the length of the whole lines that were
\* there when the receipt was inspected, whatever the file holds by now.
CutTail(p) ==
    LET whole == [seen[p] EXCEPT !.tail = FALSE] IN
    /\ pc[p] = "cut"
    /\ receipt' = [receipt EXCEPT ![pair[p].receipt] = whole]
    /\ seen' = [seen EXCEPT ![p] = whole]
    /\ Goto(p, "reconcile")
    /\ UNCHANGED <<checkpoint, stages, world, pair, plan, policy, session, mem,
                   line, sent, reply, seq>>

\* Move a checkpoint past one terminal event.
Advance(cp, outcome) ==
    IF outcome = "committed"
    THEN [cp EXCEPT !.next = @ + 1, !.committed = @ + 1]
    ELSE [cp EXCEPT !.next = @ + 1, !.refused = @ + 1]

\* Faulty: only an exactly matching checkpoint is accepted.
FaultyNeverAhead(p) == FALSE

\* The receipt holds one whole event the checkpoint has not counted.
OneAhead(p) == Len(seen[p].events) = mem[p].next

\* reconcile_checkpoint: a whole event one row ahead of the checkpoint is
\* adopted without a call to the service.
Reconcile(p) ==
    LET events == seen[p].events IN
    /\ pc[p] = "reconcile"
    /\ CASE Len(events) = mem[p].next - 1 -> Goto(p, "row") /\ UNCHANGED local
         [] OneAhead(p) ->
              /\ mem' = [mem EXCEPT ![p] = Advance(@, events[Len(events)].outcome)]
              /\ Goto(p, "checkpoint")
              /\ UNCHANGED <<pair, plan, policy, session, seen, line, sent, reply, seq>>
         [] OTHER -> Exit(p, "receipt_mismatch")
    /\ UNCHANGED <<files, world>>

-----------------------------------------------------------------------------
(* write_checkpoint: stage, sync, rename over the old file.                *)

StageName(p) == [checkpoint |-> pair[p].checkpoint, pid |-> p, seq |-> seq[p]]

StageCheckpoint(p) ==
    /\ pc[p] = "checkpoint"
    /\ IF StageName(p) \notin stages
       THEN /\ stages' = stages \union {StageName(p)}
            /\ Goto(p, "staged")
            /\ UNCHANGED local
       ELSE Exit(p, "checkpoint_unsafe") /\ UNCHANGED stages
    /\ UNCHANGED <<receipt, checkpoint, world>>

\* A refusal under `--on-error stop` leaves the loop once its checkpoint is safe.
Stops(p) == reply[p] \notin {None, "committed"} /\ policy[p] = "stop"

ReplaceCheckpoint(p) ==
    /\ pc[p] = "staged"
    /\ stages' = stages \ {StageName(p)}
    /\ checkpoint' = [checkpoint EXCEPT ![pair[p].checkpoint] = mem[p]]
    /\ IF Stops(p)
       THEN Exit(p, "row_refused")
       ELSE /\ line' = [line EXCEPT ![p] = IF reply[p] = None THEN @ ELSE @ + 1]
            /\ sent' = [sent EXCEPT ![p] = None]
            /\ reply' = [reply EXCEPT ![p] = None]
            /\ seq' = [seq EXCEPT ![p] = @ + 1]
            /\ Goto(p, "row")
            /\ UNCHANGED <<pair, plan, policy, session, seen, mem>>
    /\ UNCHANGED <<receipt, world>>

\* The write or the rename fails: the stage is removed and the command refuses.
ReplaceFails(p) ==
    /\ pc[p] = "staged" /\ Fault
    /\ stages' = stages \ {StageName(p)}
    /\ Exit(p, "checkpoint_unsafe")
    /\ UNCHANGED <<receipt, checkpoint, source, context, entries, late>>

-----------------------------------------------------------------------------
(* The row loop.                                                           *)

\* The source is opened once, and every row is read from that handle.
OpenSource(p) ==
    /\ pc[p] = "row" /\ handle[p] = None
    /\ handle' = [handle EXCEPT ![p] = source]
    /\ UNCHANGED <<files, world, local, pc, result>>

\* A line is left, or the handle is at its end.
Reading(p) == pc[p] = "row" /\ handle[p] # None /\ line[p] <= Len(handle[p])
AtEnd(p)   == pc[p] = "row" /\ handle[p] # None /\ line[p] > Len(handle[p])

RowRead(p) == handle[p][line[p]]

\* The row read now is the row that was planned at this line.
RowAsPlanned(p) == line[p] <= Len(plan[p]) /\ RowRead(p) = plan[p][line[p]]

\* A row already settled: its event must be about this very row.
SkipSettledRow(p) ==
    /\ Reading(p) /\ RowAsPlanned(p) /\ line[p] < mem[p].next
    /\ IF seen[p].events[line[p]].row = RowRead(p)
       THEN /\ line' = [line EXCEPT ![p] = @ + 1]
            /\ UNCHANGED <<pc, result, pair, plan, policy, session, handle, seen, mem,
                           sent, reply, seq>>
       ELSE Exit(p, "receipt_mismatch")
    /\ UNCHANGED <<files, world>>

SubmitRow(p) ==
    /\ Reading(p) /\ RowAsPlanned(p) /\ line[p] = mem[p].next
    /\ sent' = [sent EXCEPT ![p] = RowRead(p)]
    /\ Goto(p, "await")
    /\ UNCHANGED <<files, world, pair, plan, policy, session, seen, mem, line,
                   reply, seq>>

RowChanged(p) ==
    /\ Reading(p) /\ ~RowAsPlanned(p)
    /\ Exit(p, "source_changed")
    /\ UNCHANGED <<files, world>>

\* The governed create service (external).  A key already bound to this very
\* row is an exact replay and answers as the first time.
Answer(held, row) ==
    CASE held = row -> "committed"
      [] held = Foreign -> "survey_entry_create_already_exists"
      [] held = None -> IF row \in InvalidRows THEN "survey_entry_create_invalid"
                                                ELSE "committed"
      [] OTHER -> "survey_entry_create_idempotency_conflict"

Held(b, row) == entries[b][KeyOf[row]]

Apply(b, row) ==
    entries' = IF Answer(Held(b, row), row) = "committed"
               THEN [entries EXCEPT ![b][KeyOf[row]] = row]
               ELSE entries

ServiceAnswers(p) ==
    /\ pc[p] = "await"
    /\ Apply(session[p], sent[p])
    /\ reply' = [reply EXCEPT ![p] = Answer(Held(session[p], sent[p]), sent[p])]
    /\ Goto(p, "answered")
    /\ UNCHANGED <<files, source, context, late, faults, pair, plan, policy,
                   session, seen, mem, line, sent, seq>>

\* The requests of p that the service may still receive after p gave up.
InFlight(p) ==
    IF pc[p] = "await" THEN {[who |-> session[p], row |-> sent[p]]} ELSE {}

\* An uncertain, retryable or scope-wide outcome: the row is not settled, and
\* whether the service saw the request is unknown.
Pause(p) ==
    /\ pc[p] = "await" /\ Fault
    /\ late' = late \union InFlight(p)
    /\ Exit(p, "import_paused")
    /\ UNCHANGED <<files, source, context, entries>>

\* append_receipt: an unfinished line first, then the whole event, synced.
BeginAppend(p) ==
    LET r == pair[p].receipt IN
    /\ pc[p] = "answered"
    /\ receipt' = [receipt EXCEPT ![r].tail = TRUE]
    /\ Goto(p, "append")
    /\ UNCHANGED <<checkpoint, stages, world, local>>

\* Faulty: a refused row is recorded like a committed one.
FaultySettled(f, row, outcome) ==
    [head |-> f.head, tail |-> FALSE,
     events |-> Append(f.events, [row |-> row, outcome |-> "committed"])]

Settled(f, row, outcome) ==
    [head |-> f.head, tail |-> FALSE,
     events |-> Append(f.events, [row |-> row, outcome |-> outcome])]

SyncEvent(p) ==
    LET r == pair[p].receipt IN
    /\ pc[p] = "append"
    /\ receipt' = [receipt EXCEPT ![r] = Settled(@, sent[p], reply[p])]
    /\ seen' = [seen EXCEPT ![p] = Settled(@, sent[p], reply[p])]
    /\ mem' = [mem EXCEPT ![p] = Advance(@, reply[p])]
    /\ Goto(p, "checkpoint")
    /\ UNCHANGED <<checkpoint, stages, world, pair, plan, policy, session, line,
                   sent, reply, seq>>

\* End of file: as many rows as planned were read.  The byte count and digest
\* the code compares here are those of the rows read, each compared before.
EndOfSource(p) ==
    /\ AtEnd(p)
    /\ IF line[p] - 1 = Len(plan[p])
       THEN Goto(p, "final") /\ UNCHANGED local
       ELSE Exit(p, "source_changed")
    /\ UNCHANGED <<files, world>>

Status(p) ==
    CASE mem[p].next # Len(plan[p]) + 1 -> "paused"
      [] mem[p].refused > 0 -> "complete_with_refusals"
      [] OTHER -> "complete"

\* Faulty: no validation after the last row.
FaultyNoFinalValidation(p) == TRUE

\* The last full validation of the source finds the plan again.
SourceStillPlanned(p) == source = plan[p]

Finish(p) ==
    /\ pc[p] = "final"
    /\ Exit(p, IF SourceStillPlanned(p) THEN Status(p) ELSE "source_changed")
    /\ UNCHANGED <<files, world>>

-----------------------------------------------------------------------------
(* The environment.                                                        *)

\* Killed, or an I/O refusal that leaves the files as they are.
Die(p) ==
    /\ pc[p] # "idle" /\ Fault
    /\ late' = late \union InFlight(p)
    /\ Exit(p, "died")
    /\ UNCHANGED <<files, source, context, entries>>

LateArrival ==
    /\ \E q \in late : Apply(q.who, q.row) /\ late' = late \ {q}
    /\ UNCHANGED <<files, source, context, faults, local, handle, pc, result>>

\* The file is written in place, and then the handles open on it read the new
\* rows, or it is replaced, and then they keep the old ones.
EditSource ==
    /\ Fault
    /\ \E s \in Sources \ {source}, follow \in SUBSET {p \in Procs : handle[p] = source} :
         /\ source' = s
         /\ handle' = [p \in Procs |-> IF p \in follow THEN s ELSE handle[p]]
    /\ UNCHANGED <<files, context, entries, late, local, pc, result>>

\* Sign-in, sign-out and `auth project use` happen in other processes.
SwitchContext ==
    /\ Fault
    /\ \E b \in (Bindings \union {None}) \ {context} : context' = b
    /\ UNCHANGED <<files, source, entries, late, local, handle, pc, result>>

ForeignCreate ==
    /\ Fault
    /\ \E b \in Bindings, k \in Keys :
         /\ entries[b][k] = None
         /\ entries' = [entries EXCEPT ![b][k] = Foreign]
    /\ UNCHANGED <<files, source, context, late, local, handle, pc, result>>

-----------------------------------------------------------------------------
Init ==
    /\ receipt = [r \in Receipts |-> NoReceipt]
    /\ checkpoint = [c \in Checkpoints |-> None]
    /\ stages = {}
    /\ source \in Sources
    /\ context \in Bindings
    /\ entries = [b \in Bindings |-> [k \in Keys |-> None]]
    /\ late = {}
    /\ faults = 0
    /\ pc = [p \in Procs |-> "idle"]
    /\ pair = [p \in Procs |-> None]
    /\ plan = [p \in Procs |-> None]
    /\ policy = [p \in Procs |-> None]
    /\ session = [p \in Procs |-> None]
    /\ handle = [p \in Procs |-> None]
    /\ seen = [p \in Procs |-> None]
    /\ mem = [p \in Procs |-> None]
    /\ line = [p \in Procs |-> 1]
    /\ sent = [p \in Procs |-> None]
    /\ reply = [p \in Procs |-> None]
    /\ seq = [p \in Procs |-> 1]
    /\ result = [p \in Procs |-> None]

\* The steps a running command takes by itself.
Step(p) ==
    \/ ConfirmSource(p)   \/ AcquireImportLocks(p) \/ LoadLocalState(p)
    \/ OpenSession(p)     \/ CreateReceipt(p)      \/ SyncHeader(p)
    \/ RecoverHeader(p)   \/ Rebind(p)             \/ CutTail(p)
    \/ Reconcile(p)       \/ StageCheckpoint(p)    \/ ReplaceCheckpoint(p)
    \/ OpenSource(p)      \/ SkipSettledRow(p)     \/ SubmitRow(p)
    \/ RowChanged(p)      \/ ServiceAnswers(p)     \/ BeginAppend(p)
    \/ SyncEvent(p)       \/ EndOfSource(p)        \/ Finish(p)

Next ==
    \/ \E p \in Procs : Begin(p) \/ Step(p) \/ Pause(p) \/ ReplaceFails(p) \/ Die(p)
    \/ LateArrival \/ EditSource \/ SwitchContext \/ ForeignCreate

Spec == Init /\ [][Next]_vars

\* The person reruns an import that stopped, a running command is scheduled,
\* and the service answers it.  Nothing is fair about the environment.
Fairness == \A p \in Procs : WF_vars(Begin(p)) /\ WF_vars(Step(p))

FairSpec == Spec /\ Fairness

-----------------------------------------------------------------------------
(* Properties.                                                             *)

HasManifest(r) == receipt[r].head \notin {None, Torn}

FilesTypeOK ==
    /\ receipt \in [Receipts -> ReceiptFile]
    /\ checkpoint \in [Checkpoints -> Checkpoint \union {None}]
    /\ stages \subseteq [checkpoint : Checkpoints, pid : Procs, seq : Nat]

WorldTypeOK ==
    /\ source \in Sources
    /\ context \in Bindings \union {None}
    /\ entries \in [Bindings -> [Keys -> Rows \union {None, Foreign}]]
    /\ late \subseteq [who : Bindings, row : Rows]
    /\ faults \in Nat

LocalTypeOK ==
    /\ pc \in [Procs -> PCs]
    /\ pair \in [Procs -> Pair \union {None}]
    /\ plan \in [Procs -> Seq(Rows) \union {None}]
    /\ policy \in [Procs -> {"stop", "continue", None}]
    /\ session \in [Procs -> Bindings \union {None}]
    /\ seen \in [Procs -> ReceiptFile \union {None}]
    /\ mem \in [Procs -> Checkpoint \union {None}]
    /\ line \in [Procs -> Nat]
    /\ sent \in [Procs -> Rows \union {None}]
    /\ reply \in [Procs -> Outcomes \union {None}]
    /\ seq \in [Procs -> Nat]

ResultTypeOK == result \in [Procs -> Results]
HandleTypeOK == handle \in [Procs -> Sources \union {None}]

StateTypeOK == FilesTypeOK /\ WorldTypeOK /\ LocalTypeOK

\* Every variable holds a value of its type: in particular nothing unbound is
\* ever written to a receipt or a checkpoint.
TypeOK == StateTypeOK /\ ResultTypeOK /\ HandleTypeOK

\* A checkpoint is always backed by the receipt it is bound to, which is at
\* most one terminal event ahead of it and never behind: the state every
\* resume can reconcile (import.rs syncs the event before the checkpoint).
ReceiptLeadsCheckpoint ==
    \A c \in Checkpoints : checkpoint[c] # None =>
        LET cp == checkpoint[c]
            f  == receipt[cp.bound.pair.receipt]
        IN  /\ cp.bound.pair.checkpoint = c
            /\ f.head = cp.bound
            /\ Len(f.events) \in {cp.next - 1, cp.next}

\* The lines of the receipt follow the bound source, row by row, and in the
\* project it is bound to a line says committed exactly when the service holds
\* that very row.
LinesAreTrue ==
    \A r \in Receipts : HasManifest(r) =>
        /\ EventsMatch(receipt[r].events, receipt[r].head.plan)
        /\ \A i \in 1..Len(receipt[r].events) :
              LET e == receipt[r].events[i] IN
              e.outcome = "committed" <=> Held(receipt[r].head.who, e.row) = e.row

\* The checkpoint's two counters, which no resume recomputes, agree with the
\* lines before its position.
CountersMatchEvidence ==
    \A c \in Checkpoints : checkpoint[c] # None =>
        LET cp == checkpoint[c]
            ok == {i \in 1..(cp.next - 1) :
                     receipt[cp.bound.pair.receipt].events[i].outcome = "committed"}
        IN  cp.committed = Cardinality(ok) /\ cp.refused = cp.next - 1 - Cardinality(ok)

\* What the files say is true of the service, of the source and of each other,
\* whatever deaths, edits, identity switches and reconciliations led there.
EvidenceIsTrue == LinesAreTrue /\ CountersMatchEvidence

\* Every row an import put into a project is recorded in a receipt bound to
\* that project, or is the next unsettled row of one: a death, a late request
\* or a rerun never leaves a row nobody can account for.
RowsAccountedFor ==
    \A b \in Bindings, k \in Keys : entries[b][k] \in Rows =>
        \E r \in Receipts :
            /\ HasManifest(r) /\ receipt[r].head.who = b
            /\ \E i \in 1..Len(receipt[r].head.plan) :
                 /\ i <= Len(receipt[r].events) + 1
                 /\ receipt[r].head.plan[i] = entries[b][k]

\* Committed evidence is never rewritten or lost, only extended by one line,
\* by a process whose session and source are those of the manifest.
EvidenceOnlyGrows ==
    [][\A r \in Receipts : HasManifest(r) /\ receipt'[r] # receipt[r] =>
         /\ receipt'[r].head = receipt[r].head
         /\ \/ receipt'[r].events = receipt[r].events
            \/ /\ Len(receipt'[r].events) = Len(receipt[r].events) + 1
               /\ \A i \in 1..Len(receipt[r].events) :
                     receipt'[r].events[i] = receipt[r].events[i]
         /\ \E p \in Procs :
              /\ pc'[p] \in Bound /\ pair[p].receipt = r
              /\ session[p] = receipt[r].head.who /\ plan[p] = receipt[r].head.plan
      ]_receipt

\* A checkpoint keeps its binding and never moves back: no stale in-memory
\* copy of another process overwrites a later position.
CheckpointNeverRegresses ==
    [][\A c \in Checkpoints : checkpoint[c] # None =>
         /\ checkpoint'[c].bound = checkpoint[c].bound
         /\ checkpoint'[c].next >= checkpoint[c].next
      ]_checkpoint

\* A command that reports success has settled every row of the source as it
\* is then, and says complete only if every row was committed.
SuccessIsWhole ==
    [][\A p \in Procs :
         pc[p] = "final" /\ pc'[p] = "idle"
           /\ result'[p] \in {"paused", "complete", "complete_with_refusals"} =>
         LET f == receipt[pair[p].receipt] IN
         /\ source = f.head.plan
         /\ Len(f.events) = Len(f.head.plan)
         /\ result'[p] = "complete"
              <=> \A i \in 1..Len(f.events) : f.events[i].outcome = "committed"
      ]_<<pc, result>>

\* The files, the source and the session agree, or there are no files yet.
InputsMatch ==
    /\ context # None /\ ValidSource(source)
    /\ \A r \in Receipts : receipt[r].head # None =>
         HasManifest(r) /\ receipt[r].head.plan = source /\ receipt[r].head.who = context

\* A death between the receipt header and the first checkpoint is repaired by
\* rerunning the same command.
HeaderOnly(q) ==
    /\ HasManifest(q.receipt) /\ receipt[q.receipt].events = <<>>
    /\ checkpoint[q.checkpoint] = None

HeaderOnlyRecovers ==
    \A q \in Pairs :
        <>[]InputsMatch => (HeaderOnly(q) ~> checkpoint[q.checkpoint] # None)

Completed == \E p \in Procs : result[p] \in {"complete", "complete_with_refusals"}

\* Rerunning the command on the same files finishes the import after any
\* number of deaths and uncertain answers, as long as the inputs stay right.
RerunCompletes == <>[]InputsMatch => <>Completed

-----------------------------------------------------------------------------
(* The abstract specification: every receipt path is one import.           *)

PlanOf(r) == IF HasManifest(r) THEN receipt[r].head.plan ELSE None
WhoOf(r)  == IF HasManifest(r) THEN receipt[r].head.who ELSE None

OutcomesOf(r) ==
    [i \in 1..Len(receipt[r].events) |->
        IF receipt[r].events[i].outcome = "committed" THEN "committed" ELSE "refused"]

Promise == INSTANCE ImportPromise WITH
    Imports <- Receipts,
    Plans   <- Sources,
    plan    <- [r \in Receipts |-> PlanOf(r)],
    who     <- [r \in Receipts |-> WhoOf(r)],
    settled <- [r \in Receipts |-> OutcomesOf(r)],
    held    <- entries

\* Every step of every process, late request and environment move is a step of
\* the promise or leaves what it promises unchanged.
KeepsPromise == Promise!Spec
=============================================================================
