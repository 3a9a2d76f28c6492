------------------------------ MODULE Outputs ------------------------------
(***************************************************************************)
(* How the commands publish what they make at a path that must be new:     *)
(*   export   a sealed artefact read page by page from a paired desktop    *)
(*            (solar exports.rs), created at the path itself;              *)
(*   backup   a workspace read twice (pls backup_create.rs), created so;   *)
(*   apply    a revised package (dsgrid apply.rs), created so;             *)
(*   result   an LV document (design lv/artifact.rs), staged and linked;   *)
(*   seed     a library version (library seed.rs), a directory staged,     *)
(*            read back and renamed;                                       *)
(*   acquire  a reference dataset (workstation install.rs), likewise, and  *)
(*            verified in place, unless one that verifies is there;        *)
(*   convert  a converted file, or a packed library (data convert.rs,      *)
(*            library write_new), written in place;                        *)
(*   replace  the same with --overwrite (data convert.rs);                 *)
(*   exchange converted artifacts and their report (dsgrid-exchange        *)
(*            convert.rs), each looked for and written in place;           *)
(*   unpack   a library release (library unpack.rs), written in place.     *)
(*                                                                         *)
(* Commands that name the same path run side by side; operations fail,     *)
(* commands die, people remove and place files, batches are replaced and   *)
(* workspaces edited; an edit brings new bytes.  Stage names are unique.   *)
(* An output has parts 1 to Last; the last one of a directory is its       *)
(* manifest or report.  A directory has the parts that are not None.       *)
(***************************************************************************)
EXTENDS Naturals

CONSTANTS
    Procs,      \* the commands; each runs once
    Menu,       \* what they may be
    Last,       \* parts of an output
    Versions,   \* contents a made output may have
    MaxMoves,   \* bound on what people and writers do
    MaxFaults,  \* bound on failed operations and deaths
    Foreign,    \* what a person places, and a person as its maker
    None

FileKinds == {"export", "backup", "apply", "result", "convert", "replace"}
DirKinds == {"seed", "acquire", "exchange", "unpack"}

ASSUME Kinds == Menu \subseteq FileKinds \cup DirKinds
ASSUME Bounds == /\ Last \in Nat \ {0} /\ Versions \subseteq Nat
                 /\ MaxMoves \in Nat /\ MaxFaults \in Nat

Parts == 1..Last
Values == Versions \cup 0..MaxMoves \cup {Foreign, None}
Contents == [Parts -> Values]
Empty == [k \in Parts |-> None]

\* What can be at the path, and how a command can end.
Things == [of : Procs \cup {Foreign}, parts : Contents, done : BOOLEAN]
Outcomes == {"ok", "satisfied", "exists", "failed", "workspace_open", "workspace_changed",
             "desktop_contract_mismatch"}

ASSUME Apart ==
    /\ Foreign # None /\ {Foreign, None} \cap (Procs \cup Nat) = {}
    /\ None \notin FileKinds \cup DirKinds \cup Outcomes /\ None \notin Contents \cup Things

\* The kinds that only ever publish at a path that is free.
Guarded == {"export", "backup", "apply", "result", "seed", "acquire"}
Created == {"export", "backup", "apply"}
Staged == {"result", "seed", "acquire"}
Plain == {"convert", "replace"}
InPlace == {"exchange", "unpack"}

\* The kinds that remove what they made before they report a failure.
CleansUp == Guarded \cup {"unpack"}

VARIABLES
    dest,      \* what is at the path: its maker, its parts, and whether it is finished
    source,    \* the batch or workspace that is exported or backed up
    moments,   \* for checking: what the source ever was
    pc, kind,  \* where each command is and what it is
    at,        \* the part it is at
    draft,     \* what it is to publish
    again,     \* its second reading of a workspace
    stage,     \* its stage
    fd,        \* the maker of the file it writes to
    result,    \* what it reported
    touched,   \* for checking: commands whose output others changed or removed
    stuck,     \* for checking: commands whose removal of an output failed
    moves, faults

env == <<source, moments>>
local == <<kind, at, draft, again, stage, fd>>
marks == <<touched, stuck>>
vars == <<dest, env, pc, local, result, marks, moves, faults>>

Output(p, parts) == [of |-> p, parts |-> parts, done |-> FALSE]

Ours(p) == dest # None /\ dest.of = p

----------------------------------------------------------------------------
Report(p, code) ==
    /\ pc' = [pc EXCEPT ![p] = "done"]
    /\ result' = [result EXCEPT ![p] = code]

Goto(p, label) == pc' = [pc EXCEPT ![p] = label] /\ UNCHANGED result

\* Commands that may be given the same path: an acquired dataset has its own.
PathOf(c) == IF c \in FileKinds THEN "file" ELSE IF c = "acquire" THEN c ELSE "directory"

\* A command starts on the path its kind of output is for.
Begin(p) ==
    /\ pc[p] = "start"
    /\ \E c \in Menu, v \in Versions :
        /\ \A q \in Procs : kind[q] # None => PathOf(kind[q]) = PathOf(c)
        /\ kind' = [kind EXCEPT ![p] = c]
        /\ draft' = [draft EXCEPT ![p] =
                        IF c \in {"export", "backup"} THEN Empty ELSE [k \in Parts |-> v]]
        /\ Goto(p, IF c = "acquire" THEN "detect" ELSE "check")
    /\ UNCHANGED <<dest, env, at, again, stage, fd, marks, moves, faults>>

\* A component whose receipt verifies.
Verified(thing) == thing # None /\ \E v \in Versions : thing.parts = [k \in Parts |-> v]

\* An acquisition first detects what is there: a component that verifies is all
\* it wants, and nothing is changed.
Detect(p) ==
    /\ pc[p] = "detect"
    /\ \/ Verified(dest) /\ Report(p, "satisfied")
       \/ ~Verified(dest) /\ Goto(p, "check")
    /\ UNCHANGED <<dest, env, local, marks, moves, faults>>

\* These do not look at the path before their work; an exchange looks at each part.
Unlooking == {"export", "replace", "exchange"}

\* The others want the path free.  A seed that finds its own bytes there has
\* nothing to do.
Check(p) ==
    /\ pc[p] = "check"
    /\ \/ kind[p] = "export" /\ Goto(p, "read")
       \/ kind[p] \in {"replace", "exchange"} /\ Goto(p, "open")
       \/ /\ kind[p] \notin Unlooking /\ dest = None
          /\ Goto(p, IF kind[p] = "backup" THEN "read" ELSE "open")
       \/ /\ kind[p] \notin Unlooking /\ dest # None
          /\ Report(p, IF kind[p] = "seed" /\ dest.parts = draft[p] THEN "ok" ELSE "exists")
    /\ UNCHANGED <<dest, env, local, marks, moves, faults>>

\* A page of the artefact must be of the batch the first page was of; the whole
\* must have its digest.
ReadPage(p) ==
    /\ pc[p] = "read" /\ kind[p] = "export"
    /\ draft' = [draft EXCEPT ![p][at[p]] = source[at[p]]]
    /\ \/ /\ draft'[p][1] # source[at[p]]
          /\ Report(p, "desktop_contract_mismatch")
          /\ UNCHANGED at
       \/ /\ draft'[p][1] = source[at[p]]
          /\ at' = [at EXCEPT ![p] = IF @ = Last THEN 1 ELSE @ + 1]
          /\ Goto(p, IF at[p] = Last THEN "open" ELSE "read")
    /\ UNCHANGED <<dest, env, kind, again, stage, fd, marks, moves, faults>>

\* A workspace with the open marker, or with a lock in it, is not backed up.
FindOpen(p) ==
    /\ kind[p] = "backup" /\ pc[p] \in {"check", "read", "reread"}
    /\ Report(p, "workspace_open")
    /\ UNCHANGED <<dest, env, local, marks, moves, faults>>

\* A backup reads the members of its workspace, and then all of them again: a
\* member that differs refuses it.
ReadMember(p) ==
    /\ pc[p] = "read" /\ kind[p] = "backup"
    /\ draft' = [draft EXCEPT ![p][at[p]] = source[at[p]]]
    /\ at' = [at EXCEPT ![p] = IF @ = Last THEN 1 ELSE @ + 1]
    /\ Goto(p, IF at[p] = Last THEN "reread" ELSE "read")
    /\ UNCHANGED <<dest, env, kind, again, stage, fd, marks, moves, faults>>

\* Mutant of RereadMember: the second reading is not compared.
RereadUncompared(p) ==
    /\ pc[p] = "reread"
    /\ again' = [again EXCEPT ![p][at[p]] = source[at[p]]]
    /\ at' = [at EXCEPT ![p] = IF @ = Last THEN 1 ELSE @ + 1]
    /\ Goto(p, IF at[p] < Last THEN "reread" ELSE "open")
    /\ UNCHANGED <<dest, env, kind, draft, stage, fd, marks, moves, faults>>

RereadMember(p) ==
    /\ pc[p] = "reread"
    /\ again' = [again EXCEPT ![p][at[p]] = source[at[p]]]
    /\ at' = [at EXCEPT ![p] = IF @ = Last THEN 1 ELSE @ + 1]
    /\ IF at[p] < Last THEN Goto(p, "reread")
       ELSE \/ again'[p] = draft[p] /\ Goto(p, "open")
            \/ again'[p] # draft[p] /\ Report(p, "workspace_changed")
    /\ UNCHANGED <<dest, env, kind, draft, stage, fd, marks, moves, faults>>

----------------------------------------------------------------------------
\* Mutant of Create: the file is opened although something is there.
CreateAnyway(p) ==
    /\ pc[p] = "open" /\ kind[p] \in Created
    /\ dest' = Output(p, Empty)
    /\ fd' = [fd EXCEPT ![p] = p]
    /\ Goto(p, "write")
    /\ UNCHANGED <<env, kind, at, draft, again, stage, marks, moves, faults>>

\* The file is created where nothing is.  A backup does not tell that something
\* was there from another failure to create it.
Create(p) ==
    /\ pc[p] = "open" /\ kind[p] \in Created
    /\ \/ /\ dest = None
          /\ dest' = Output(p, Empty)
          /\ fd' = [fd EXCEPT ![p] = p]
          /\ Goto(p, "write")
       \/ /\ dest # None
          /\ Report(p, IF kind[p] = "backup" THEN "failed" ELSE "exists")
          /\ UNCHANGED <<dest, fd>>
    /\ UNCHANGED <<env, kind, at, draft, again, stage, marks, moves, faults>>

Stage(p) ==
    /\ pc[p] = "open" /\ kind[p] \in Staged
    /\ stage' = [stage EXCEPT ![p] = Empty]
    /\ Goto(p, "write")
    /\ UNCHANGED <<dest, env, kind, at, draft, again, fd, marks, moves, faults>>

\* Who changes an output that is not its own spoils it for its maker.
Spoils(p) == IF dest = None \/ dest.of = p THEN {} ELSE {dest.of} \cap Procs

\* A plain write empties what it finds; a directory that is there is used.
Truncate(p) ==
    /\ pc[p] = "open" /\ kind[p] \in Plain
    /\ dest' = IF dest = None THEN Output(p, Empty) ELSE [dest EXCEPT !.parts = Empty]
    /\ fd' = [fd EXCEPT ![p] = dest'.of]
    /\ touched' = touched \cup Spoils(p)
    /\ Goto(p, "write")
    /\ UNCHANGED <<env, kind, at, draft, again, stage, stuck, moves, faults>>

MakeDirectory(p) ==
    /\ pc[p] = "open" /\ kind[p] \in InPlace
    /\ dest' = IF dest = None THEN Output(p, Empty) ELSE dest
    /\ Goto(p, IF kind[p] = "exchange" THEN "look" ELSE "write")
    /\ UNCHANGED <<env, local, marks, moves, faults>>

\* An exchange wants each path free when its turn comes; what it wrote before a
\* path that is not stays.
Look(p) ==
    /\ pc[p] = "look"
    /\ \/ dest # None /\ dest.parts[at[p]] # None /\ Report(p, "exists")
       \/ (dest # None => dest.parts[at[p]] = None) /\ Goto(p, "write")
    /\ UNCHANGED <<dest, env, local, marks, moves, faults>>

----------------------------------------------------------------------------
\* Without a name, a file that is still open is out of reach.
Unlinked == [q \in Procs |-> IF dest # None /\ fd[q] = dest.of THEN None ELSE fd[q]]

\* Where a command goes once a part is written: plain writes are not synchronized.
AfterPart(p) ==
    CASE at[p] < Last -> IF kind[p] = "exchange" THEN "look" ELSE "write"
      [] OTHER -> IF kind[p] \in Plain \cup InPlace THEN "finish" ELSE "sync"

\* Mutant of NextPart: the part after the last is still counted.
NextPartAndOne(p) ==
    /\ at' = [at EXCEPT ![p] = @ + 1]
    /\ Goto(p, AfterPart(p))

\* The next part goes to the open file, to the stage or into the directory.
NextPart(p) ==
    /\ at' = [at EXCEPT ![p] = IF @ = Last THEN 1 ELSE @ + 1]
    /\ Goto(p, AfterPart(p))

\* What is at the path, with a part written.
Written(p) == [dest EXCEPT !.parts[at[p]] = draft[p][at[p]]]

WriteFile(p) ==
    /\ pc[p] = "write" /\ kind[p] \in Created \cup Plain
    /\ dest' = IF dest # None /\ dest.of = fd[p] THEN Written(p) ELSE dest
    /\ touched' = IF dest' # dest THEN touched \cup Spoils(p) ELSE touched
    /\ NextPart(p)
    /\ UNCHANGED <<env, kind, draft, again, stage, fd, stuck, moves, faults>>

WriteStage(p) ==
    /\ pc[p] = "write" /\ kind[p] \in Staged
    /\ stage' = [stage EXCEPT ![p][at[p]] = draft[p][at[p]]]
    /\ NextPart(p)
    /\ UNCHANGED <<dest, env, kind, draft, again, fd, marks, moves, faults>>

\* A member goes to whatever directory has the name by now, over what is there,
\* or to a new one; the manifest or report needs one.
WriteMember(p) ==
    /\ pc[p] = "write" /\ kind[p] \in InPlace
    /\ \/ /\ dest = None /\ at[p] = Last
          /\ Goto(p, "discard")
          /\ UNCHANGED <<dest, at, touched>>
       \/ /\ dest # None \/ at[p] < Last
          /\ dest' = IF dest = None
                     THEN Output(p, [Empty EXCEPT ![at[p]] = draft[p][at[p]]])
                     ELSE Written(p)
          /\ touched' = touched \cup Spoils(p)
          /\ NextPart(p)
    /\ UNCHANGED <<env, kind, draft, again, stage, fd, stuck, moves, faults>>

\* A written file is synchronized; a staged directory is read back.
Synchronize(p) ==
    /\ pc[p] = "sync"
    /\ Goto(p, IF kind[p] \in Staged THEN "publish" ELSE "finish")
    /\ UNCHANGED <<dest, env, local, marks, moves, faults>>

----------------------------------------------------------------------------
\* A link needs a free name; a rename of a directory also takes an empty one.
Free(p) == dest # None => kind[p] # "result" /\ dest.parts = Empty

Publish(p) ==
    /\ pc[p] = "publish"
    /\ \/ /\ Free(p)
          /\ dest' = Output(p, stage[p])
          /\ touched' = touched \cup Spoils(p)
          /\ stage' = [stage EXCEPT ![p] = IF kind[p] = "result" THEN @ ELSE None]
          /\ Goto(p, IF kind[p] = "acquire" THEN "verify" ELSE "finish")
       \/ ~Free(p) /\ Goto(p, "discard") /\ UNCHANGED <<dest, stage, touched>>
    /\ UNCHANGED <<env, kind, at, draft, again, fd, stuck, moves, faults>>

\* An acquired component must verify where it is; it is removed otherwise.
Verify(p) ==
    /\ pc[p] = "verify"
    /\ Goto(p, IF Verified(dest) THEN "finish" ELSE "discard")
    /\ UNCHANGED <<dest, env, local, marks, moves, faults>>

\* Success: the stage of a linked file goes, whether its removal works or not.
Finish(p) ==
    /\ pc[p] = "finish"
    /\ Report(p, "ok")
    /\ stage' \in {stage, [stage EXCEPT ![p] = None]}
    /\ dest' = IF Ours(p) THEN [dest EXCEPT !.done = TRUE] ELSE dest
    /\ UNCHANGED <<env, kind, at, draft, again, fd, marks, moves, faults>>

\* What a failed command says: a result looks whether its path is taken.
FailureOf(p) == IF kind[p] = "result" /\ dest # None THEN "exists" ELSE "failed"

\* What a failed command removes before it says so: its stage or, by its name,
\* the output.  A failed conversion, replacement or exchange removes nothing.
Discard(p) ==
    /\ pc[p] = "discard"
    /\ LET removes == \/ kind[p] \in Created \cup {"unpack"}
                      \/ kind[p] = "acquire" /\ stage[p] = None IN
       /\ dest' = IF removes THEN None ELSE dest
       /\ fd' = IF removes THEN Unlinked ELSE fd
       /\ touched' = IF removes THEN touched \cup Spoils(p) ELSE touched
       /\ stage' = [stage EXCEPT ![p] = None]
    /\ Report(p, FailureOf(p))
    /\ UNCHANGED <<env, kind, at, draft, again, stuck, moves, faults>>

----------------------------------------------------------------------------
Fault == faults < MaxFaults /\ faults' = faults + 1

\* Mutant of OperationFails: a failed write is reported and nothing removed.
FailsAndKeeps(p) ==
    /\ Fault
    /\ pc[p] \in {"open", "write", "sync", "publish", "verify"}
    /\ Report(p, "failed")
    /\ UNCHANGED <<dest, env, local, marks, moves>>

\* An operation fails.  A seed and a result that cannot make their stage clean up
\* as after any later failure.
OperationFails(p) ==
    /\ Fault
    /\ \/ /\ pc[p] = "open" /\ kind[p] \notin {"seed", "result"}
          /\ Report(p, "failed")
          /\ UNCHANGED stuck
       \/ /\ \/ pc[p] = "open" /\ kind[p] \in {"seed", "result"}
             \/ pc[p] \in {"write", "sync", "publish", "verify"}
          /\ Goto(p, "discard")
          /\ UNCHANGED stuck
       \/ /\ pc[p] = "discard"
          /\ Report(p, FailureOf(p))
          /\ stuck' = stuck \cup {p}
    /\ UNCHANGED <<dest, env, local, touched, moves>>

Die(p) ==
    /\ Fault
    /\ pc[p] \notin {"start", "done", "dead"}
    /\ pc' = [pc EXCEPT ![p] = "dead"]
    /\ UNCHANGED <<dest, env, local, result, marks, moves>>

\* Bound: people and writers matter while a command runs.
Move == moves < MaxMoves /\ moves' = moves + 1
            /\ \E p \in Procs : pc[p] \notin {"start", "done", "dead"}

\* A person removes what is at the path, or places something there; a directory
\* an exchange is given may have some of its names only.
Remove ==
    /\ Move /\ dest # None
    /\ dest' = None /\ fd' = Unlinked
    /\ touched' = touched \cup ({dest.of} \cap Procs)
    /\ UNCHANGED <<env, pc, kind, at, draft, again, stage, result, stuck, faults>>

Put ==
    /\ Move /\ dest = None
    /\ \E have \in (SUBSET Parts) \ {{}} :
        /\ have = Parts \/ \E p \in Procs : kind[p] = "exchange"
        /\ dest' = [of |-> Foreign, done |-> TRUE,
                    parts |-> [k \in Parts |-> IF k \in have THEN Foreign ELSE None]]
    /\ UNCHANGED <<env, pc, local, result, marks, faults>>

\* The desktop seals another batch; a program saves a member of the workspace.
Seal ==
    /\ Move /\ \E p \in Procs : kind[p] = "export"
    /\ source' = [k \in Parts |-> moves']
    /\ moments' = moments \cup {source'}
    /\ UNCHANGED <<dest, pc, local, result, marks, faults>>

Edit ==
    /\ Move /\ \E p \in Procs : kind[p] = "backup"
    /\ \E k \in Parts : source' = [source EXCEPT ![k] = moves']
    /\ moments' = moments \cup {source'}
    /\ UNCHANGED <<dest, pc, local, result, marks, faults>>

----------------------------------------------------------------------------
Init ==
    /\ dest = None
    /\ source = [k \in Parts |-> 0] /\ moments = {source}
    /\ pc = [p \in Procs |-> "start"] /\ kind = [p \in Procs |-> None]
    /\ at = [p \in Procs |-> 1]
    /\ draft = [p \in Procs |-> Empty] /\ again = [p \in Procs |-> Empty]
    /\ stage = [p \in Procs |-> None] /\ fd = [p \in Procs |-> None]
    /\ result = [p \in Procs |-> None]
    /\ touched = {} /\ stuck = {}
    /\ moves = 0 /\ faults = 0

Advance(p) ==
    \/ Begin(p) \/ Detect(p) \/ Check(p) \/ Look(p) \/ FindOpen(p)
    \/ ReadPage(p) \/ ReadMember(p) \/ RereadMember(p)
    \/ Create(p) \/ Stage(p) \/ Truncate(p) \/ MakeDirectory(p)
    \/ WriteFile(p) \/ WriteStage(p) \/ WriteMember(p) \/ Synchronize(p)
    \/ Publish(p) \/ Verify(p) \/ Finish(p) \/ Discard(p)
    \/ OperationFails(p) \/ Die(p)

Next == (\E p \in Procs : Advance(p)) \/ Remove \/ Put \/ Seal \/ Edit

Spec == Init /\ [][Next]_vars

----------------------------------------------------------------------------
(* Properties                                                              *)

\* Every variable keeps its type.
TypeOK ==
    /\ dest \in Things \cup {None}
    /\ source \in Contents /\ moments \subseteq Contents
    /\ pc \in [Procs -> {"start", "detect", "check", "read", "reread", "open", "look", "write",
                         "sync", "publish", "verify", "finish", "discard", "done", "dead"}]
    /\ kind \in [Procs -> Menu \cup {None}] /\ at \in [Procs -> Parts]
    /\ draft \in [Procs -> Contents] /\ again \in [Procs -> Contents]
    /\ stage \in [Procs -> Contents \cup {None}]
    /\ fd \in [Procs -> Procs \cup {Foreign, None}]
    /\ result \in [Procs -> Outcomes \cup {None}]
    /\ touched \subseteq Procs /\ stuck \subseteq Procs
    /\ moves \in 0..MaxMoves /\ faults \in 0..MaxFaults

\* When a command of a guarded kind (export, backup, apply, result, seed, acquire)
\* reports that it published, the path holds exactly what it made, unless
\* somebody took it away since; an export is one sealed batch although its pages
\* come one by one, and a backup is its workspace as it was at one moment although
\* it is read member by member.  An acquisition that reports it was already
\* satisfied has a component at the path that verifies.
SuccessIsWhole ==
    [][\A p \in Procs : kind[p] \in Guarded /\ result'[p] # result[p] =>
         /\ result'[p] = "ok" /\ p \notin touched => dest' # None /\ dest'.parts = draft[p]
         /\ result'[p] = "ok" /\ kind[p] \in {"export", "backup"} => draft[p] \in moments
         /\ result'[p] = "satisfied" => Verified(dest')]_vars

\* The command that takes a step.
Steps(p) == pc'[p] # pc[p] \/ at'[p] # at[p]

\* What a command or a person has finished at the path is changed or removed by
\* no later command of a guarded kind, although each checks the path some time
\* before it publishes and a failing one removes by name.  Not covered, because
\* the code does not keep them from it: convert, replace, exchange and unpack,
\* which write to the name itself, and a guarded command whose own output was
\* displaced before (it cleans up by name).
NothingReplaced ==
    [][dest # None /\ dest.done /\ dest' # dest /\ moves' = moves =>
         \E p \in Procs : Steps(p) /\ (kind[p] \notin Guarded \/ p \in touched)]_vars

\* What is said of unpack ("Existing paths are never overwritten", unpack.rs:18)
\* and of exchange ("this command never overwrites", convert.rs:244): no command
\* gives another content to a part that was finished at the path, or removes it.
\* Both look first and write later, so it does not hold.
ExistingKept ==
    [][dest # None /\ dest.done /\ moves' = moves =>
         dest' # None /\ \A k \in Parts : dest.parts[k] \in {None, dest'.parts[k]}]_vars

\* Nothing half made is seen at the path of a command that stages its output
\* (result, seed, acquire), also when it dies; and no command that cleans up
\* (the guarded kinds and unpack) reports a failure and leaves its stage, or its
\* unfinished output at the path, unless the removal itself failed.  A failed
\* convert, replace or exchange leaves what it has written.
NothingHalf ==
    /\ dest # None /\ dest.of \in Procs /\ kind[dest.of] \in Staged =>
          dest.parts = draft[dest.of] \/ dest.of \in touched
    /\ \A p \in Procs \ stuck : result[p] \notin {None, "ok"} /\ kind[p] \in CleansUp =>
          stage[p] = None /\ ~Ours(p)
=============================================================================
