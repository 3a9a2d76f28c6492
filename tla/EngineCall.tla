----------------------------- MODULE EngineCall -----------------------------
(***************************************************************************)
(* One bounded call of an external engine (ds-cli-exec): `call`, with an   *)
(* empty standard input, `call_with_stdin`, which hands one document over, *)
(* and the quiet call of a package manager (workstation install.rs,        *)
(* run_quiet), which connects no pipe at all.                              *)
(*                                                                         *)
(* The caller polls the child until it exits or the deadline passes; its   *)
(* helper threads drain the two output streams and write the input.  Pipes *)
(* hold Cap units; a full pipe blocks who writes to it, an empty one who   *)
(* reads from it.  The engine owes the caller nothing: it may read or not, *)
(* write as much as MaxOut on each stream, stop at any point, exit with or *)
(* without success, and leave behind a process that inherited its pipes.   *)
(***************************************************************************)
EXTENDS Naturals

CONSTANTS
    Cap,     \* what a pipe holds
    Keep,    \* how much of a stream the caller keeps (MAX_OUTPUT_BYTES)
    MaxIn,   \* longest accepted input (MAX_INPUT_BYTES)
    MaxOut,  \* bound on what the engine writes to a stream
    Polls,   \* looks at the child that fit before the deadline
    None

ASSUME SizesAreNaturals ==
    Cap \in Nat \ {0} /\ Keep \in Nat /\ MaxIn \in Nat /\ MaxOut \in Nat /\ Polls \in Nat

Codes == {"missing", "completed", "callee_input_bounded", "callee_wait_failed",
          "callee_timed_out", "callee_stdin_failed"}

ASSUME NoneIsApart == None \notin Codes

VARIABLES
    mode,     \* "call", "stdin" or "quiet"
    pc,       \* where the calling thread is
    looks,    \* looks at the child before the deadline
    late,     \* whether the deadline ended the wait
    broken,   \* whether looking at the child failed
    engine,   \* the child: none, running, exited or killed
    code,     \* its exit code
    heir,     \* whether another process still holds the child's pipes
    size,     \* length of the input
    inPipe,   \* input written and not yet read
    writer,   \* the thread that writes the input: off, on, ok or failed
    left,     \* input it has still to write
    pipe,     \* output written and not yet read, per stream
    written,  \* output ever written, per stream
    clean,    \* how much of it, from the start, is text
    reader,   \* the thread that drains the stream: off, on, eof or failed
    kept,     \* how much it kept
    cut,      \* whether it dropped anything
    text,     \* what it handed over as a string: "exact", or with bytes "replaced"
    result    \* what the call reported

child == <<engine, code, heir>>
input == <<inPipe, writer, left>>
output == <<pipe, written, clean, reader, kept, cut, text>>
vars == <<mode, pc, looks, late, broken, child, size, input, output, result>>

Streams == {"out", "err"}

\* Somebody can still write to the output pipes, and read the input.
Held == engine = "running" \/ heir

Lesser(m, n) == IF m <= n THEN m ELSE n

----------------------------------------------------------------------------
Report(r) == pc' = "done" /\ result' = r

\* An input that is empty or too long is refused; an executable that is missing
\* or does not start ends the call; otherwise the threads start.
Begin ==
    /\ pc = "start"
    /\ mode' \in {"call", "stdin", "quiet"}
    /\ size' \in IF mode' = "stdin" THEN 0..(MaxIn + 1) ELSE {0}
    /\ LET refused == mode' = "stdin" /\ (size' = 0 \/ size' > MaxIn) IN
       \/ /\ refused /\ Report("callee_input_bounded")
          /\ UNCHANGED <<child, input, output>>
       \/ /\ ~refused /\ Report("missing")
          /\ UNCHANGED <<child, input, output>>
       \/ /\ ~refused
          /\ engine' = "running"
          /\ writer' = IF mode' = "stdin" THEN "on" ELSE "off"
          /\ left' = size'
          /\ reader' = [s \in Streams |-> IF mode' = "quiet" THEN "off" ELSE "on"]
          /\ pc' = "poll"
          /\ UNCHANGED <<code, heir, inPipe, pipe, written, clean, kept, cut, text, result>>
    /\ UNCHANGED <<looks, late, broken>>

\* Mutant of Look: the deadline is never reached.
LookForever ==
    /\ pc = "poll"
    /\ engine # "running" /\ pc' = "join_writer"
    /\ UNCHANGED <<mode, looks, late, engine, broken, code, heir, size, input, output, result>>

\* One look at the child.  Past the deadline it is killed and waited for.
Look ==
    /\ pc = "poll"
    /\ \/ /\ engine # "running"
          /\ pc' = "join_writer"
          /\ UNCHANGED <<looks, late, engine>>
       \/ /\ engine = "running" /\ looks > 0
          /\ looks' = looks - 1
          /\ UNCHANGED <<pc, late, engine>>
       \/ /\ engine = "running" /\ looks = 0
          /\ engine' = "killed"
          /\ late' = TRUE
          /\ pc' = "join_writer"
          /\ UNCHANGED looks
    /\ UNCHANGED <<mode, broken, code, heir, size, input, output, result>>

\* The child cannot be looked at: it is killed, and only a call with an input
\* goes on to collect its threads.
LookFails ==
    /\ pc = "poll"
    /\ engine' = IF engine = "running" THEN "killed" ELSE engine
    /\ broken' = TRUE
    /\ IF mode = "stdin" THEN pc' = "join_writer" /\ UNCHANGED result
                         ELSE Report("callee_wait_failed")
    /\ UNCHANGED <<mode, looks, late, code, heir, size, input, output>>

JoinWriter ==
    /\ pc = "join_writer" /\ writer # "on"
    /\ pc' = "join_readers"
    /\ UNCHANGED <<mode, looks, late, broken, child, size, input, output, result>>

\* Mutant of JoinReaders: the input's writer is not asked.
JoinReadersOnly ==
    /\ pc = "join_readers" /\ \A s \in Streams : reader[s] # "on"
    /\ Report(IF broken THEN "callee_wait_failed"
              ELSE IF late THEN "callee_timed_out" ELSE "completed")
    /\ UNCHANGED <<mode, looks, late, broken, child, size, input, output>>

\* The readers are joined and the outcome of the wait decides what is reported.
JoinReaders ==
    /\ pc = "join_readers" /\ \A s \in Streams : reader[s] # "on"
    /\ Report(CASE broken -> "callee_wait_failed"
                [] late -> "callee_timed_out"
                [] ~broken /\ ~late /\ code = 0 /\ writer = "failed" -> "callee_stdin_failed"
                [] OTHER -> "completed")
    /\ UNCHANGED <<mode, looks, late, broken, child, size, input, output>>

----------------------------------------------------------------------------
\* The writer thread: it writes while there is room, closes the input when it is
\* done, and fails when nobody is left to read.
WriteInput ==
    /\ writer = "on"
    /\ \/ /\ ~Held
          /\ writer' = "failed"
          /\ UNCHANGED <<inPipe, left>>
       \/ /\ Held /\ left > 0 /\ inPipe < Cap
          /\ left' = left - 1 /\ inPipe' = inPipe + 1
          /\ writer' = IF left' = 0 THEN "ok" ELSE "on"
    /\ UNCHANGED <<mode, pc, looks, late, broken, child, size, output, result>>

\* String::from_utf8_lossy: text stays as it is and the rest is replaced; a
\* stream cut short may end within a character.
AsText(s, end) ==
    CASE kept[s] > clean[s]         -> {"replaced"}
      [] kept[s] <= clean[s] /\ end = "eof" /\ ~cut[s] -> {"exact"}
      [] OTHER                      -> {"exact", "replaced"}

\* A reader ends and hands over what it kept.
HandOver(s, end) ==
    /\ reader' = [reader EXCEPT ![s] = end]
    /\ \E t \in AsText(s, end) : text' = [text EXCEPT ![s] = t]

\* Mutants of Drain: the bound is not applied; nothing is said of what is dropped
\* once there is no room; one stream is drained after the other.
DrainAll(s) ==
    /\ reader[s] = "on" /\ pipe[s] > 0
    /\ pipe' = [pipe EXCEPT ![s] = 0]
    /\ kept' = [kept EXCEPT ![s] = @ + pipe[s]]
    /\ UNCHANGED <<mode, pc, looks, late, broken, child, size, input, written,
                   clean, reader, cut, text, result>>

DrainSilently(s) ==
    /\ reader[s] = "on"
    /\ \/ \E n \in 1..pipe[s] :
            LET room == Keep - kept[s] IN
            /\ pipe' = [pipe EXCEPT ![s] = @ - n]
            /\ kept' = [kept EXCEPT ![s] = @ + Lesser(n, room)]
            /\ cut' = [cut EXCEPT ![s] = @ \/ (room > 0 /\ n > room)]
            /\ UNCHANGED <<reader, text>>
       \/ /\ pipe[s] = 0 /\ ~Held
          /\ HandOver(s, "eof")
          /\ UNCHANGED <<pipe, kept, cut>>
    /\ UNCHANGED <<mode, pc, looks, late, broken, child, size, input, written, clean, result>>

DrainInTurn(s) ==
    /\ reader[s] = "on"
    /\ s = "err" => reader["out"] # "on"
    /\ \/ \E n \in 1..pipe[s] :
            LET room == Keep - kept[s] IN
            /\ pipe' = [pipe EXCEPT ![s] = @ - n]
            /\ kept' = [kept EXCEPT ![s] = @ + Lesser(n, room)]
            /\ cut' = [cut EXCEPT ![s] = @ \/ n > room]
            /\ UNCHANGED <<reader, text>>
       \/ /\ pipe[s] = 0 /\ ~Held
          /\ HandOver(s, "eof")
          /\ UNCHANGED <<pipe, kept, cut>>
    /\ UNCHANGED <<mode, pc, looks, late, broken, child, size, input, written, clean, result>>

\* A reader thread takes what is there.  It keeps what fits and goes on reading
\* what it drops, until the last writer is gone.
Drain(s) ==
    /\ reader[s] = "on"
    /\ \/ \E n \in 1..pipe[s] :
            LET room == Keep - kept[s] IN
            /\ pipe' = [pipe EXCEPT ![s] = @ - n]
            /\ kept' = [kept EXCEPT ![s] = @ + Lesser(n, room)]
            /\ cut' = [cut EXCEPT ![s] = @ \/ n > room]
            /\ UNCHANGED <<reader, text>>
       \/ /\ pipe[s] = 0 /\ ~Held
          /\ HandOver(s, "eof")
          /\ UNCHANGED <<pipe, kept, cut>>
    /\ UNCHANGED <<mode, pc, looks, late, broken, child, size, input, written, clean, result>>

\* A read that fails ends the thread and closes its end.
ReadFails(s) ==
    /\ reader[s] = "on"
    /\ HandOver(s, "failed")
    /\ UNCHANGED <<mode, pc, looks, late, broken, child, size, input, pipe, written,
                   clean, kept, cut, result>>

----------------------------------------------------------------------------
\* The engine and what it leaves behind.
EngineReads ==
    /\ Held /\ inPipe > 0
    /\ inPipe' = inPipe - 1
    /\ UNCHANGED <<mode, pc, looks, late, broken, child, size, writer, left, output, result>>

\* It closes its input unread: the next write fails.
EngineClosesInput ==
    /\ Held /\ writer = "on"
    /\ writer' = "failed"
    /\ UNCHANGED <<mode, pc, looks, late, broken, child, size, inPipe, left, output, result>>

\* The engine writes one unit, of text or not; what follows bytes that are no
\* text is not counted as text either.
EngineWrites(s) ==
    /\ Held /\ reader[s] = "on" /\ pipe[s] < Cap /\ written[s] < MaxOut
    /\ pipe' = [pipe EXCEPT ![s] = @ + 1]
    /\ written' = [written EXCEPT ![s] = @ + 1]
    /\ clean' \in {clean} \cup
                  (IF clean[s] = written[s] THEN {[clean EXCEPT ![s] = @ + 1]} ELSE {})
    /\ UNCHANGED <<mode, pc, looks, late, broken, child, size, input, reader, kept,
                   cut, text, result>>

EngineExits ==
    /\ engine = "running"
    /\ engine' = "exited" /\ code' \in {0, 1}
    /\ heir' \in {heir, FALSE}
    /\ UNCHANGED <<mode, pc, looks, late, broken, size, input, output, result>>

EngineForks ==
    /\ engine = "running" /\ mode # "quiet" /\ ~heir
    /\ heir' = TRUE
    /\ UNCHANGED <<mode, pc, looks, late, broken, engine, code, size, input, output, result>>

HeirExits ==
    /\ heir /\ engine # "running"
    /\ heir' = FALSE
    /\ UNCHANGED <<mode, pc, looks, late, broken, engine, code, size, input, output, result>>

\* Bound: the engine is looked at while the call lasts.
Engine ==
    /\ pc # "done"
    /\ \/ EngineReads \/ EngineClosesInput \/ EngineExits \/ EngineForks \/ HeirExits
       \/ \E s \in Streams : EngineWrites(s)

----------------------------------------------------------------------------
Init ==
    /\ mode = "call" /\ pc = "start" /\ looks = Polls /\ late = FALSE /\ broken = FALSE
    /\ engine = "none" /\ code = 0 /\ heir = FALSE
    /\ size = 0 /\ inPipe = 0 /\ writer = "off" /\ left = 0
    /\ pipe = [s \in Streams |-> 0]
    /\ written = [s \in Streams |-> 0]
    /\ clean = [s \in Streams |-> 0]
    /\ reader = [s \in Streams |-> "off"]
    /\ kept = [s \in Streams |-> 0]
    /\ cut = [s \in Streams |-> FALSE]
    /\ text = [s \in Streams |-> "none"]
    /\ result = None

Caller == Begin \/ Look \/ JoinWriter \/ JoinReaders

Next == \/ Caller \/ LookFails \/ WriteInput \/ Engine
        \/ \E s \in Streams : Drain(s) \/ ReadFails(s)

Spec == Init /\ [][Next]_vars

\* The threads of the caller run; the engine need not.
FairSpec ==
    /\ Spec
    /\ WF_vars(Caller) /\ WF_vars(WriteInput)
    /\ \A s \in Streams : WF_vars(Drain(s))

----------------------------------------------------------------------------
(* Properties                                                              *)

\* Every variable keeps its type.
TypeOK ==
    /\ mode \in {"call", "stdin", "quiet"}
    /\ pc \in {"start", "poll", "join_writer", "join_readers", "done"}
    /\ looks \in 0..Polls /\ late \in BOOLEAN /\ broken \in BOOLEAN
    /\ engine \in {"none", "running", "exited", "killed"}
    /\ code \in {0, 1} /\ heir \in BOOLEAN
    /\ size \in 0..(MaxIn + 1) /\ left \in 0..MaxIn /\ inPipe \in 0..Cap
    /\ writer \in {"off", "on", "ok", "failed"}
    /\ pipe \in [Streams -> 0..Cap]
    /\ written \in [Streams -> 0..MaxOut] /\ clean \in [Streams -> 0..MaxOut]
    /\ reader \in [Streams -> {"off", "on", "eof", "failed"}]
    /\ kept \in [Streams -> 0..Keep] /\ cut \in [Streams -> BOOLEAN]
    /\ text \in [Streams -> {"none", "exact", "replaced"}]
    /\ result \in Codes \cup {None}

\* A completed call keeps of each stream what the engine wrote, up to the bound,
\* and marks it cut exactly when that is not all of it; a stream that is whole
\* and all text arrives as it was written, and none arrives so if what was kept
\* is not text.  Only a failed read may lose more.
OutputIsWhole ==
    result = "completed" /\ mode # "quiet" => \A s \in Streams :
        reader[s] # "failed" =>
            /\ kept[s] = Lesser(written[s], Keep)
            /\ cut[s] <=> written[s] > Keep
            /\ clean[s] = written[s] /\ ~cut[s] => text[s] = "exact"
            /\ clean[s] < kept[s] => text[s] # "exact"

\* What MAX_OUTPUT_BYTES says of itself: beyond it the output is truncated and
\* the invocation refused.  The code marks the output and completes the call.
CutIsRefused ==
    result = "completed" /\ code = 0 => \A s \in Streams : ~cut[s]

\* A call that succeeds with an input has written all of it to its engine's pipe,
\* read or not, and no call that reported leaves its engine running.
EndsClean ==
    /\ result = "completed" /\ code = 0 => left = 0
    /\ result # None => engine # "running"

\* An engine that fills one stream is not left blocked on it, whatever it does
\* with the other stream and its input: the pipe is drained while the call lasts.
EngineIsDrained ==
    \A s \in Streams : pipe[s] = Cap ~> pipe[s] < Cap \/ reader[s] = "failed"

\* A call ends within its deadline whatever its engine does, unless a process the
\* engine started keeps the pipes for ever.
CallEnds == <>(pc = "done") \/ <>[]heir
=============================================================================
