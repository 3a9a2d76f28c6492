# Verification of ds-cli

`ds` is one executable with many command families (Rust, `crates/`). Most
commands parse their arguments, ask one service, one engine or the desktop
application, and print one envelope. What is hard in them is what they share:
durable files that several processes use, credentials, requests that are fenced
by an identity, children behind pipes, and outputs that must be whole and new.
The modules in this directory model those parts, TLC checks them and TLAPS
proves all that is checked but liveness.

## 1. Inventory

### 1.1 Components with state or concurrency

| component | state | operations | interacts with | module |
|---|---|---|---|---|
| Survey import, `ds-cli-survey/src/import.rs` | receipt (append-only lines), checkpoint (position, two counters), stage files, two sidecar locks; in memory: the validated plan, one session, copies of receipt and checkpoint | fresh start, header-only recovery, resume with tail truncation, reconcile, row loop (skip, submit, append, checkpoint), pause, final validation | the create service, native authentication, other imports through the locks, the person who edits the source | `SurveyImport` |
| Native authentication, `ds-cli-auth/src/lib.rs`, `context.rs` | the refresh credential, the device credential, the selected project; one advisory lock for each | login, logout, status, project list/use/status, link, revoke, and the session restore in front of every governed call | identity provider, link service, project directory, protected store | `NativeAuth` |
| Device link, `device.rs`, `link_approval.rs` | one protected value: nothing, a pending link, a credential | link begin, status, complete, approve; devices list, read, revoke | link service, paired desktop, protected store | `DeviceLink` |
| Protected state store, `state.rs` | one file, one stage, one lock per object | acquire, stage cleanup, load, compare and swap, overwrite, remove, release | file system | `ProtectedStore` |
| Desktop bridge, `ds-cli-desktop`; dispatch, `ds/src/registry.rs`; MCP gate, `ds-cli-mcp/src/tools.rs` | descriptor files of running applications, the fence read from a session, one request; the headless identity of this machine | observe sign-ins, search descriptors, probe, read the session, send one fenced operation; for MCP: status through a child, one start, bounded looks | desktop applications, native authentication | `DesktopCall` |
| External engine calls, `ds-cli-exec`; `run_quiet` of `ds-cli-workstation` | one child, an input writer and two drain threads, a deadline | call, call with input, quiet call | engines, package manager | `EngineCall` |
| MCP host configuration, `ds-cli-mcp/src/install.rs` | the agent host's configuration, its backup, a stage, a create-new lock file | merge one server entry | other installers (lock), editors and hosts (no lock) | `McpInstall` |
| New outputs: solar exports, PLS backup, DS grid packages and conversions, LV results, library seed, pack and unpack, the reference dataset, data conversion | the file or directory at the path, a stage | read or make the contents, create or stage, write, publish, clean up | desktop (sealed batches), programs that save into a workspace, people, other commands | `Outputs` |

Everything else (map, work, styles, reports, feedback, reliability, survey
queries, skills, shell registration) issues one request or reads, and keeps no
state of its own; PROJECT.json lists each part with its reason.

### 1.2 What is hard, and what correct means

*Survey import.* A death may fall between any two file operations; a second
process may use the same receipt with another checkpoint or the reverse; the
service may commit a row whose answer is lost and may apply an abandoned request
much later; the source may be edited and another account may sign in meanwhile.
Correct: the receipt is truthful and only grows, it is never behind the
checkpoint and at most one event ahead, the counters agree with it, every
committed row is accounted for, success is said only of a source that is wholly
settled, and a rerun finishes the work.

*Native authentication.* Three objects, three locks, never all held at once, so
commands interleave between any two of their steps, the network included.
Correct: no circle of lock waits, no call in a project another principal
selected, sign-in and sign-out that are whole when they say so, no selection
written behind a logout, every command ends, and documented remedies work.

*Device link.* The service changes first and the local value after it, or the
reverse; either half may be lost. Correct: the two fit, a link is never replaced
by another, a live credential never dropped, and an active device without a
credential exists only after a command that did not report success (its answer
lost or unreadable, its replacement failed, or dead).

*Protected store.* Deaths, failed operations and power losses between write,
sync, rename and directory sync. Correct: the file is always one of the versions
somebody wrote, a reported swap is neither overwritten nor undone, a left-over
stage hinders nobody.

*Desktop calls.* The application, its account, its project and the machine's own
sign-in may change between the search, the session read and the execution; a
descriptor may be left over and its port taken by another application; a reply
may be lost. Correct: nothing executes for another identity than the one the
command observed; a code that settles the operation tells the truth about it,
and the three that leave it open (`desktop_unreachable`, `desktop_unreadable`,
`desktop_contract_mismatch`) are told apart from those; a running application that answers its
probe and whose descriptor can be read is not passed over and no second one
started beside it; every command ends.

*Engine calls.* Two pipes out, one in, a deadline, and an engine that owes the
caller nothing. Correct: nobody is left blocked on a full pipe, what is cut off
is marked, text arrives as it was written, a success has written its input to
the engine's pipe, no engine survives its call.

*MCP configuration.* The lock is a file, so it outlives its installer, and the
other writers of the target do not take it. Correct: installers take turns, the
backup is the document the install read and merged, every install ends. (What an
editor saves between the re-check and the rename is in neither file; nothing in
the code can prevent it.)

*Outputs.* The path is looked at before the work and used after it; a batch or a
workspace changes while it is read; a failing command cleans up by name.
Correct, for the kinds that create, link or rename (*guarded*: export, backup,
apply, result, seed, acquire): success means a whole output of one moment,
nothing finished is replaced or removed, nothing unfinished is left behind a
reported failure. Conversions and unpacked releases look and write later, and
get less (2.8 and section 6).

## 2. Modules

| module | what it is |
|---|---|
| `SurveyImport`, `MCSurveyImport` | the import command, with its refinement mapping `Promise`; small instances |
| `ImportPromise` | what imports promise, any number of them over one service: each is bound once, the service takes only the row that is next in one of them, rows are settled in order, each once, with the outcome the service has |
| `NativeAuth`, `MCNativeAuth` | the authentication commands, several processes |
| `DeviceLink`, `MCDeviceLink` | linking a machine as a device |
| `ProtectedStore` | one protected file below both |
| `AtomicCell` | what the store promises: a register with atomic, durable replacement |
| `DesktopCall`, `MCDesktopCall` | one command that borrows the authority of a desktop application |
| `EngineCall` | one bounded call of an engine |
| `McpInstall` | the merge of one entry into a host's configuration |
| `Outputs` | the ten ways in which a command publishes something new |
| `SurveyImportProofs`, `NativeAuthProofs`, `DeviceLinkProofs`, `ProtectedStoreProofs`, `DesktopCallProofs`, `EngineCallProofs`, `McpInstallProofs`, `OutputsProofs` | inductive invariants and theorems |

How they compose. `NativeAuth` and `DeviceLink` treat each durable object as an
atomic variable under its lock; `ProtectedStore`, which implements `AtomicCell`,
is the justification, and its one anomaly (a replacement that returns an error
although it took place) is an outcome in both. `NativeAuth` reads a pending link
as no device, as `lib.rs` does; `DeviceLink` has the link itself. `DesktopCall`
takes the sign-ins that `NativeAuth` manages as values that change at any time
while the command still has to observe them. The MCP gate of `DesktopCall` is
the same search run by a child process.

### 2.1 SurveyImport

State: `receipt`, `checkpoint`, `stages` are the files; `source`, `context`,
`entries`, `late` the world; the rest is one process's copy of `run`'s locals.
`pc` names the points between two externally visible steps of `run`:

| actions | code |
|---|---|
| `Begin`, `ConfirmSource` | the two validations of the source (`validate_source`, `plans_match`) |
| `AcquireImportLocks` | both sidecar locks, non-blocking; dropped on every exit, death included |
| `LoadLocalState`, `OpenSession` | classification before authentication, then one frozen session |
| `CreateReceipt`, `SyncHeader`, `RecoverHeader` | a receipt that must be new (`create_new`), its header; a header without a checkpoint |
| `Rebind`, `CutTail` | the comparison after authentication, and after it the truncation to the length inspected before |
| `Reconcile` | a receipt one event ahead |
| `StageCheckpoint`, `ReplaceCheckpoint`, `ReplaceFails` | `write_checkpoint` |
| `OpenSource` | one handle for all rows; an edit in place is read through it, a replaced file is not |
| `SkipSettledRow`, `SubmitRow`, `RowChanged`, `ServiceAnswers`, `Pause`, `BeginAppend`, `SyncEvent` | the row loop |
| `EndOfSource`, `Finish` | row count, last validation, status |

Of the two locks the checkpoint's is needed: with the receipt's alone, two fresh
imports that share a checkpoint overwrite it in turn. The receipt's lock is a
second safeguard: with the checkpoint's alone all the properties of the run still
hold, because a receipt is only ever created where none is (`create_new`) and a
resumed one is bound to its checkpoint's path.

Rows are told apart by their digest, keys by `KeyOf`. A half-written line is
`tail`, a half-written header `Torn`. A new process gets a fresh process id
unless `PidReuse`; only stage names depend on it. Power loss is not modelled
here: the code syncs both files before it relies on them, but not the directory
`create_receipt` makes an entry in, so after a power loss the checkpoint may
exist without the receipt; every later run then refuses.
`Promise` maps every receipt path to one import of `ImportPromise`: the header
is what it is bound to, its lines are the outcomes settled so far, and `entries`
is what the service holds. Checkpoints, locks, processes and late requests have
no counterpart there.

### 2.2 NativeAuth

`cred`, `dev`, `ctx` are the durable objects and `lock` who holds each lock.
A step whose code takes a lock, does one thing and drops it again is one action
guarded by `Available`; where the code keeps the lock (a restore, a link, the
context lease of login, logout, `project use` and `list`) the model keeps it in
`lock`. Every network answer is a separate action, so other processes run
between the request and the use of the answer. `LockTimeout` is the bounded
wait: locks are polled, and a waiter may be overtaken until it gives up.
Left out: lanes, profiles, credential audiences, passwords, payloads, and the
desktop.

### 2.3 DeviceLink

`local` is the protected value and `lock` who holds it; `request` and `device`
are the service's. A command opens the value (`Open`, with the refusals of each
verb), keeps the lock over its calls (`Refresh`, `Call`), replaces the value
(`Save`) and lets go (`Release`). `link approve` touches no local value: it
previews a request on the desktop and commits it later (`Preview`, `Commit`),
and the request may lapse in between. `LoseCall` loses a call before or after
the service acted, `AnswerUnreadable` is a call that was served and whose answer
does not parse or encode, `SaveFails` fails with or without effect, `Die` is a death
anywhere; `Lapse` and `RevokeElsewhere` are the service and other machines.
`losses`, which only the property reads, names the links whose completion did
not report success although the service had acted. Links are used once and numbered; a device has its link's number.

### 2.4 ProtectedStore

`file` and `stage` carry the version they hold and whether its bytes are torn,
cached or whole; `synced` is what a power loss may bring back. `acks` counts the
swaps reported successful. Every operation of `atomic_write` (create, write, sync,
rename, directory sync) is an action, each may fail, and the process may die or
power be lost between any two. Left out: permission, symlink and size checks.

### 2.5 DesktopCall

An application (`app`) runs per installed profile, listens on a port with a
pairing secret, and leaves a descriptor (`file`), which may outlive it. A command
observes the two headless sign-ins (`ObserveRefresh`, `ObserveDevice`: dispatch
in `registry.rs`), lists and reads descriptors and connects to their ports
(`List`, `ReadDescriptor`, `Probe`, `Select`: `discover.rs`), reads the session
and compares it with the observed identity (`ReadSession`, `Arm`: `ops.rs`), and
sends one operation fenced by the session's revision (`Send`, `Serve`,
`Receive`, `GiveUp`: `bridge.rs`). `Serve` is the application's side: it compares
secret, fence and revision when the request reaches it. An MCP call runs the same
search in a child first (`stage` is `gate` or `poll`), may start the installed
profile once (`Launch`) and looks a bounded number of times (`Wait`). `Start`,
`End`, `ChangeApp` and `ChangeSignIn` are applications and people. `ran` records
what an application executed and as whom, `steady` which applications were up
since a search began; both are for checking. `ReadDescriptor` may find a file unusable for whatever reason the code has
(too large, not JSON, another version, not loopback, an I/O error, gone), and
`Probe` may miss an application that runs, for the code waits 150 ms for its
connect; `steady` keeps the applications whose probe did not fail, and
`unusable` those whose file could not be read, so that `SearchMissesNothing` says
what a search owes to the rest. A missed probe makes a command report no
application, and an MCP call start another one, beside one that runs; no property
forbids it, because the code cannot tell. Assumed of the application: an
operation it refuses, with whatever status, it has not executed and will not. An
account stands for user, lane and audience together. Left out: argument shapes, rendering, the contents of
operations.

### 2.6 EngineCall

Each thread of the caller is a set of actions: the polled wait (`Look`,
`LookFails`, with the deadline as `looks`), the joins (`JoinWriter`,
`JoinReaders`), the writer (`WriteInput`) and the two drains (`Drain`). A pipe is
a number of units; the engine reads, writes, closes its input, exits with either
code, and may fork a process that inherits its pipes (`EngineForks`), which keeps
the drains from seeing the end. Reads may fail (`ReadFails`). `kept` and `cut` are
the bounded buffer. Bytes that are not text are replaced when the buffer is
handed over (`from_utf8_lossy`): `clean` is how much of a stream is text, `text`
what arrived. Left out: locating the executable, parsing the answer.

### 2.7 McpInstall

`target`, `backup`, `lock` are files. A document is its `ds` entry and its other
servers; `Malformed` stands for whatever is not a JSON object of that shape.
`Edit` is anybody else, at any moment, with no lock. `RemoveLeftover` is a person
who removes the lock of an installer that is gone; nobody is obliged to. An installer whose
creation is refused and that then finds the lock gone (released in between) fails
at once with `WouldBlock` instead of trying again (`install.rs:1070`); the model
has that exit, and no property asks for more than an end.
Left out: adapters, platform checks, rendering of the entry, symlink and
permission policy.

### 2.8 Outputs

`dest` is what is at the path: who made it, its parts (values that tell contents
apart), and whether its maker finished it. The kinds differ in how they get
their contents and how they publish:

| kinds | contents | publication | on failure |
|---|---|---|---|
| `export`, `backup`, `apply` | pages of a sealed batch; a workspace read twice; a made package | create-new at the path, then write | remove by name |
| `result` | a made document | stage, hard link | remove the stage |
| `seed`, `acquire` | made, downloaded | staged directory, rename; `acquire` ends at once where a component verifies, and verifies its own in place | remove the stage; `acquire` the directory |
| `convert`, `replace` | converted | plain write, after a look or with `--overwrite` | nothing: what was written stays |
| `exchange` | converted artifacts and a report | each looked for (`Look`), then written plainly into the directory | nothing: what was written stays |
| `unpack` | unpacked | one look, then written in place | remove the directory by name |

Each process runs one command on the one path. `Remove` and `Put` are people,
`Seal` the desktop, `Edit` a program that saves into the workspace. `moments` is
what the source ever was, `touched` whose output others changed or removed,
`stuck` whose removal failed; all three are for checking. Assumed: an edit brings
bytes that were not there before (the code compares digests), and stage names
of running processes differ (the code makes them from the process id, with a
counter or the clock for some kinds).
The first three rows are the *guarded* kinds. `SuccessIsWhole` and
`NothingReplaced` are about them. `NothingHalf` is about their failures and those
of `unpack`, and about what is seen of staged outputs; a failed `convert`,
`replace` or `exchange` leaves its truncated or partial output, and so does any
command that dies while it writes at the path itself. `NothingReplaced` exempts, because
the code does not keep them from it, the kinds that write to the name itself
(`convert`, `replace`, `exchange`, `unpack`) and a guarded command whose own
output was displaced before it failed: it cleans up by name, and removes what
somebody else has put there. What the repository says of `exchange` and
`unpack`, that existing paths are never overwritten, is `ExistingKept`; it does
not hold (section 6).

## 3. Runs

| run | bounds | shows |
|---|---|---|
| `SurveyImport_two` | 2 processes, crossed pairs over 2 receipts and 2 checkpoints, 2 rows and an invalid one, 1 binding, 2 faults | locks, exclusive creation and path binding together are enough, and without the locks none of this holds: the pair is reconcilable, evidence grows, checkpoints never go back, every committed row is accounted for |
| `SurveyImport_one` | 1 process, edited sources, 2 bindings, 3 faults, fair | evidence and counters are true, success is whole, `ImportPromise` is implemented, reruns finish |
| `SurveyImport_pidreuse` | 1 process, 1 death, process ids reused, fair | finding (section 6) |
| `NativeAuth_two` | 2 processes, 6 commands, 2 users, 2 projects, 2 sign-ins, 1 fault, symmetry | lock order, own project, whole sign-ins and sign-outs, selections for the current login |
| `NativeAuth_ends` | 2 processes, 6 commands, 2 users, 1 sign-in, no fault, fair | every command ends |
| `NativeAuth_remedies` | 1 process, 8 commands, no fault | finding |
| `DeviceLink` | 2 processes, 2 links, 3 faults, symmetry | service and local value fit, the value keeps its order |
| `ProtectedStore_faults` | 3 processes, 4 versions, 3 faults | sound files, durable reported swaps, refinement of `AtomicCell` |
| `DesktopCall` | 1 command of 6 sorts, 2 profiles, 2 ports, 3 sessions, 2 sign-ins, 1 look for a started application, 2 starts, 1 change, 1 fault, fair | own identity, truthful reports, a search that misses nothing readable that answers, an end |
| `EngineCall` | pipes of 1, buffer of 1, input up to 2 and one past it, streams up to 2, 1 look before the deadline, fair | whole or admittedly cut streams, text as written, clean ends, drained engines, an end |
| `McpInstall_two` | 2 installers, 2 entries, 1 other server, 2 lock attempts, 2 edits, 1 fault, fair | turns, backups, termination |
| `Outputs` | 2 commands of 10 kinds, 2 parts, 2 contents, 3 moves, 2 faults | for guarded kinds whole outputs of one moment and nothing replaced; no unfinished rest of a failed guarded command or unpack |

Why the bounds are enough. Two rows give a first, a middle and a last position
of the checkpoint and one row of each outcome. Two processes give every race in
the code, for locks, links and renames involve no third party; where three do
matter (two waiters on a released store lock) the run has three. `DesktopCall`
has one command because commands share nothing but the applications, which
change freely without them. Its sessions and sign-ins agree, differ in the
project, differ in the account, or are missing on either side. Two profiles allow a descriptor whose port the other
profile's application took over. A pipe of 1 under streams of 2 fills, a buffer
of 1 cuts, and both have the exact boundary. Three moves in `Outputs` change a
source between each two of its readings. Two or three faults allow a death, a
second death in the recovery from it, and one change of the environment in
between. Two sign-ins allow one account to replace another. Symmetry is used only
where no liveness is checked: in `NativeAuth_two` processes are interchangeable,
and so are the two users together with their projects, since each sees one of his
own (`MCApart`); in `DeviceLink` the processes. In `NativeAuth_remedies` the users
share a project (`MCVisible`).
Logout and governed calls are left out of `NativeAuth_ends`: they wait for the
same locks in the same ways as login, `project use` and status.

`MaxFaults`, `MaxLogins`, `MaxLinks`, `MaxVersions`, `MaxEdits`, `MaxStarts`,
`MaxMoves`, `MaxOut`, `Mix`, `Menu`, `Attempts` and `Polls` are the only bounds.
`Attempts` and `Polls` are in the code too (`LOCK_ATTEMPTS`, the
deadlines); the others keep runs finite and are arbitrary in the proofs.
`Busy` in `DesktopCall` and `Move` in `Outputs` let the environment act only
while a command runs, which no property can tell.
`DesktopCall`, `EngineCall` and `Outputs` model commands that run once: when all
have ended the system stops, so their runs do not check for deadlock (those of
the first two check instead that every command ends). The other runs check it: a
command that is idle may always begin.

## 4. Fairness

Liveness is checked under weak fairness of each process's own steps: the
operating system schedules a running process, remote calls have timeouts, and
lock waits are bounded, so some outcome of a step arrives.

* `NativeAuth`, `McpInstall`: a lock timeout or last attempt is one of those
  outcomes, which is what makes commands end although locks are not queued.
* `SurveyImport`: starting the command is weakly fair as well, for the property
  is about a person who reruns it, and holds from any state in which deaths,
  edits and switches have ceased to spoil the inputs (`InputsMatch`).
* `DesktopCall`: the command's own steps, and that a request reaches an
  application that is up (or dies with it). No fairness for applications to
  start: an MCP call ends although what it started never comes.
* `EngineCall`: the caller's threads only. The engine owes nothing; a call ends
  unless a process left behind keeps the pipes for ever, which the property
  names, because the joins of the drains have no deadline in the code.

Deaths, edits, revocations, switches, lost replies and the removal of left-over
locks are never fair.

## 5. Proofs

All theorems hold for every value of the constants that meets the assumptions of
the module, which say only that parameters and bounds have their types and that
the special values differ from the ordinary ones. (`DesktopCall` assumes besides
that there are finitely many profiles, numbered, as the code's table has them.)
Each proof module defines an inductive invariant, proves that each action keeps
it, one lemma per action, and derives the properties.

`SurveyImportProofs` has two layers. The first, `IInv`, is about files and
memory and gives `TypeCorrect`, `ReceiptLeads`, `CheckpointMonotonic` and
`EvidenceMonotonic`. `ReceiptLeadsCheckpoint` speaks of files only and is not
inductive: a checkpoint is written from the memory of a process. The invariant
adds `Control` (which locals are set at which point), `LocksExclusive` (two
processes past the locks share no path) and `Knows` (its copies of receipt and
checkpoint agree with the locked files and with the binding of its session, to
the event its `pc` says). A step of one process changes only files it has
locked, so what another knows stays true.

The second layer, `EvidenceInv`, is about the service and is proved on top of
`IInv`. It gives `EvidenceStaysTrue`, `RowsStayAccountedFor`, `SuccessesAreWhole`
and the refinement `ImportsKeepPromise`. Its parts:

* `ServiceSound`: the service holds no invalid row. Without it a
  row refused as invalid could turn out to be committed.
* `LinesSettled`: every receipt's lines are about the rows of its plan in order,
  and each outcome *fits* what the service holds under that key. `Fits` is
  about what is held for good (`HeldForGood`: a key never changes hands), so a
  line that fits once fits always (`FitsForGood`), whatever arrives late.
* `CountersMatchEvidence`: a checkpoint's two counters are the numbers of
  committed and refused lines before its position. The lemmas `FreshCounts`,
  `CountsSameLines` and `AdvanceCounts` say what appending or advancing over one
  line does to the cardinalities, so no induction over the receipt is needed.
* `RowsAccountedFor` and `LateAccounted`: a row the service holds, and a row a
  delayed request may still bring, is recorded or is the next one of a receipt
  bound to that project. The second is needed because a late request arrives
  when its process, and all it knew, is gone.
* `AtRow`: what a process knows of the row it is at: it is the first without a
  line, `sent` is that row of the plan, an answer that came fits, the counters in
  memory match the lines in memory, and at `final` every row has its line.

Every change of a receipt is one of three (`ReceiptMoves`): a header bound to the
session of its writer, one more line of the row submitted, or a change that
shows no line otherwise, such as a half-written tail. The refinement follows
from them: a header is `Bind`, a line `Settle`, and a step after which the
service holds one more row `Take` or `OutsideCreate`; `RequestTakes` shows that
it is the row due in some import, for a late request by `LateAccounted`. Reruns,
locks, checkpoints, deaths and skipped rows are stutters.

`NativeAuthProofs`: `TypeCorrect`, `CallsStayHome`, `NoDeadlock`,
`SignInsStayWhole`, `SelectionsStayCurrent`. The invariant says for each place of
a command which command it is (`Placed`), that a selection about to be used is
of its session's user and directory (`Chose`), which locks it keeps (`Keeps`),
and what it may trust of the credential while it keeps them (`Trusts`). Only the
lease holder may sign in or out, so nobody else changes what a lease holder
trusts, except a revocation, which is why the properties speak of revoked
logins. `NoDeadlock` is the lock order: who holds the context lease waits only
for the credential or the device lock, the holders of those two wait for
nothing, so a set of waiting commands has a member that waits for none of them.
`CommandsRunDown` counts: a command ends after at most 13 steps of its own, the
retry after a refresh and the clean-up of a half-made sign-in included.

`DeviceLinkProofs`: `TypeCorrect`, `LinksAreWhole`, `ValuesKeepOrder`. The
invariant is `LinkIsWhole` with what a command knows while it holds the lock
(`HoldsValue`: the value it loaded is still there) and what the service did for
one that is about to replace it (`WasServed`). The service never forgets a
request nor takes back a revocation, which keeps both true under its steps.

`ProtectedStoreProofs`: `TypeCorrect`, `FilesStaySound`, `ReportedSwapsSurvive`,
and `RefinesCell`, the refinement of `AtomicCell`. The invariant is `Leased` (a
process past its acquire holds the lock), `StageOwned` (what the stage holds
follows from the holder's `pc`, and is synced before its rename), `NeverTorn` and
`Ahead` (the file runs ahead of what is synced, and that of what was reported).
`Leased` makes every other process idle; power loss is the only step that moves a
file back, and never behind what was reported.

`DesktopCallProofs`: `TypeCorrect`, `ActsStayHeadless`, `ReportsAreTrue`,
`SearchesMissNothing`. The invariant has three parts per command. `Says`: nothing
is under way before it has sent; what runs is the fenced operation, once; the
answer 200 and the execution come together. `Covers`: each application that was
up all the while and answered is still to be looked at, among the found ones or
among the unreadable, and the probe of its descriptor is of the descriptor on
disk. `ReportsAreTrue` is about the codes that settle the operation;
`desktop_unreachable` and `desktop_unreadable` do not (section 6). `Launches`: an application is
started from the gate only. `Placed` gives running applications ports of their
own. The numbering of profiles makes "the next one to look at" well defined.
`CommandsRunDown` has a measure of two parts: the searches a command may still
begin, times the steps of a search, and the steps left in this one, which go down
with the set of profiles not yet looked at.

`EngineCallProofs`: `TypeCorrect`, `OutputsAreWhole`, `CallsEndClean`. `Faithful`
says that a reader has kept what was written, up to the bound, but for what is
still in the pipe, marked what it dropped and tells text from other bytes, and
that a reader at the end leaves an empty pipe that nobody
holds; `Begun` and `Waited` tie the caller's place to child and writer.
`CallRunsDown`: every step of any party uses up bytes, looks or a party itself, and
from `Waited` the thread the caller waits for is never stuck on a pipe that
nobody but a process left behind could hold.

`McpInstallProofs`: `TypeCorrect`, `InstallsTakeTurns`,
`BackupsArePredecessors` (the backup is what the install read and merged; an edit
after its re-check is not backed up). `Held`: an installer past the creation of the lock is
the one the lock file names, so there is one. `Kept`: from its backup on, the
backup is what it read. An installer removes only a lock that names it and a
person only the lock of an installer that is gone. `InstallsRunDown`: each try for
the lock uses up an attempt, and an install past the lock goes straight on.

`OutputsProofs`: `TypeCorrect`, `NothingStaysHalf`, `SuccessesAreWhole`,
`FinishedStays`. Per command, `Stands` ties its place to its stage, `Owns` says
from when to when what is at the path is its own and whole unless it was
`touched`, and `Reads` what it has read. An export is of one batch because a value
found at two parts is that of a whole batch (`Dated`) and the pages are compared
with the first. A backup is of one moment because, when its second reading
begins, the source is between the two readings in every part, and equal readings
pin it. `Paths` keeps files and directories apart: what a rename of a directory
may replace is empty, and no finished directory is empty. Which kinds each theorem
speaks of is said in 2.8: `SuccessesAreWhole` and `FinishedStays` of the guarded
ones, `NothingStaysHalf` of these and `unpack`.

Every invariant, action property and refinement that a passing run checks is
stated by a theorem. What is only model-checked is liveness, which needs fairness
and ENABLED, both out of the prover's reach: `RerunCompletes`, both
`CommandsEnd`, `InstallsEnd`, `EngineIsDrained`, `CallEnds`. Of `CommandsEnd`,
`InstallsEnd` and `CallEnds` the four theorems named `...RunDown` or
`...RunsDown` prove the safety half: a natural number that every step of the
command's own lowers and no step of others raises, so nothing goes round in
circles. The other half, that a command which has not ended can step and in
time does, stays with TLC.

## 6. Where the code and what it says of itself part

* `SurveyImport_pidreuse`: a stage file left by a death is never removed and its
  name holds only a process id and a counter that starts at 1. A rerun with the
  same id refuses `checkpoint_unsafe` each time, although the capability says a
  header-only receipt may be recovered automatically.
* `NativeAuth_remedies`: logout and `project use` probe first and are refused
  (`auth_context_mismatch`, `project_context_stale`) for the states they are the
  documented remedy of.

The other divergences have a formula that says what the repository says. No run
checks it, for the code does not keep it; to see TLC's counterexample, add the
formula to the run's configuration.

* `RetryIsSafe` (`DesktopCall.cfg`, `INVARIANT`): a reply that is late or cannot be
  read is reported as `desktop_unreachable` or `desktop_unreadable`, in the class
  `unavailable` with a remedy to restart and retry (`bridge.rs:99-119`), although
  the operation may have run, a project switch or an edit included. The output
  contract says of the class "real command, missing prerequisite", retried "after
  the remedy" (`docs/contracts/cli-output-contract.md:75`), and `outcome.rs:40`
  that "The command is real but cannot run here".
* `CutIsRefused` (`EngineCall.cfg`, `INVARIANT`): output beyond `MAX_OUTPUT_BYTES`
  is marked, and the call completes (`ds-cli-exec/src/lib.rs:454`), while the
  bound's comment says "the output is truncated and the invocation refused"
  (`lib.rs:30`). Only `failure_from`, which words a refusal already made, looks at
  the mark; the report export (`report/src/export.rs:289-319`) takes such an
  output as complete.
* `ExistingKept` (`Outputs.cfg`, `PROPERTY`, with `Menu = {"unpack"}`):
  `library unpack` looks at its directory, then reads and verifies the release,
  writes into whatever has the name by then (`unpack.rs:67-97`) and removes it by
  name when it fails (105); its purpose says "Existing paths are never
  overwritten" (18).
* `ExistingKept` (the same, with `Menu = {"exchange"}`): a DS grid conversion looks
  for each artifact and then writes it with a truncating write
  (`convert.rs:239-251`); its reference says "It never overwrites"
  (`docs/reference/dsgrid-exchange.md:132`).

In the last two a look and a write that are not one operation leave room for
somebody else; the commands that use `create_new`, a link or a rename have none.

## 7. Not modelled

* Argument parsing, help, envelopes, capability tables, suggestions, the MCP tool
  surface: pure functions of static data.
* Payload construction, projections and bounds of single-request commands (map,
  work, styles, feedback, reliability, survey queries): one governed or fenced
  request each. Their concurrency is that of `NativeAuth` or `DesktopCall`.
* Reading and converting of file formats, rendering of documents and reports:
  pure, and the larger part of the lines of the repository.
* Path, symlink and permission checks: refusals before any state changes.
* Shell registration, install scripts, the skills bundle: fixed sets of files
  written or verified in sequence, with no reader at the same time.
* Byte limits of receipts and documents, far above what a model counts; the state
  they leave is that of a failed operation, which is modelled.
* The loop of the MCP server: strictly sequential, one request at a time.

What is left is outside what state machines say something about. Within the
modelled parts, `NativeAuth` over two lanes, which share the protected store and
nothing else, would add most.

## 8. Running

In this directory: `tlc -config <run>.cfg <module>` with the module PROJECT.json
names for the run, and `tlapm <module>Proofs.tla`.
