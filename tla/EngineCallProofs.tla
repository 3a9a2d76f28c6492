-------------------------- MODULE EngineCallProofs --------------------------
(* EngineCall keeps its promises for pipes, bounds, inputs and deadlines   *)
(* of any size.                                                            *)
EXTENDS EngineCall, TLAPS

\* What a reader that has not failed knows of its stream: it has what was
\* written, up to the bound, but for what is still in the pipe.
Faithful(s) ==
    LET read == written[s] - pipe[s] IN
    /\ pipe[s] <= written[s]
    /\ reader[s] # "failed" =>
          /\ kept[s] = Lesser(read, Keep)
          /\ cut[s] <=> read > Keep
    /\ reader[s] = "off" => written[s] = 0
    /\ reader[s] = "eof" => /\ pipe[s] = 0 /\ ~Held
                            /\ text[s] \in AsText(s, "eof")

Streaming == \A s \in Streams : Faithful(s)

\* Nothing runs before the call begins, and its readers run from then on.
Begun ==
    /\ pc = "start" => /\ engine = "none" /\ ~heir /\ result = None /\ writer = "off"
                       /\ \A s \in Streams : reader[s] = "off"
    /\ engine # "none" /\ mode # "quiet" => \A s \in Streams : reader[s] # "off"

\* Where the caller stands tells how far the child and the writer are.
Waited ==
    /\ pc \in {"join_writer", "join_readers"} => engine \in {"exited", "killed"}
    /\ pc = "join_readers" => writer # "on"
    /\ pc = "done" => engine # "running"
    /\ pc = "poll" => engine # "none"
    /\ writer \in {"off", "ok"} => left = 0
    /\ result # None => pc = "done"
    /\ result = "completed" =>
          /\ engine # "none" /\ writer # "on"
          /\ code = 0 => writer # "failed"
          /\ \A s \in Streams : reader[s] # "on"

IInv == TypeOK /\ Streaming /\ Begun /\ Waited

LEMMA Initially == Init => IInv
  <1> SUFFICES ASSUME Init
               PROVE  IInv
    OBVIOUS
  <1>1. TypeOK
    <2>1. /\ 0 \in 0..Cap /\ 0 \in 0..MaxIn /\ 0 \in 0..(MaxIn + 1) /\ 0 \in 0..MaxOut
          /\ 0 \in 0..Keep /\ Polls \in 0..Polls
      BY SizesAreNaturals
    <2>2. /\ pipe \in [Streams -> 0..Cap] /\ written \in [Streams -> 0..MaxOut]
          /\ reader \in [Streams -> {"off", "on", "eof", "failed"}]
          /\ kept \in [Streams -> 0..Keep] /\ cut \in [Streams -> BOOLEAN]
          /\ clean \in [Streams -> 0..MaxOut] /\ text \in [Streams -> {"none", "exact", "replaced"}]
      BY <2>1 DEF Init
    <2> QED
      BY <2>1, <2>2 DEF Init, TypeOK
  <1>2. ASSUME NEW s \in Streams
        PROVE  Faithful(s)
    <2>1. pipe[s] = 0 /\ written[s] = 0 /\ kept[s] = 0 /\ cut[s] = FALSE /\ reader[s] = "off"
      BY DEF Init
    <2>2. written[s] - pipe[s] = 0 /\ Lesser(0, Keep) = 0 /\ ~(0 > Keep)
      BY <2>1, SizesAreNaturals DEF Lesser
    <2> QED
      BY <2>1, <2>2 DEF Faithful
  <1>3. Begun /\ Waited
    BY NoneIsApart DEF Init, Begun, Waited, Codes
  <1> QED
    BY <1>1, <1>2, <1>3 DEF IInv, Streaming

\* The threads and the engine leave the streams alone.
LEMMA StreamsStay ==
    ASSUME Streaming, output' = output, Held' => Held
    PROVE  Streaming'
  BY DEF Streaming, Faithful, AsText, output, Held, Lesser

LEMMA BeginKeeps == IInv /\ Begin => IInv'
  <1> SUFFICES ASSUME IInv, Begin
               PROVE  IInv'
    OBVIOUS
  <1>1. /\ engine = "none" /\ ~heir /\ result = None /\ writer = "off" /\ left = 0
        /\ \A s \in Streams : reader[s] = "off"
        /\ mode' \in {"call", "stdin", "quiet"}
        /\ size' \in 0..(MaxIn + 1)
        /\ looks' = looks /\ late' = late /\ broken' = broken
    BY SizesAreNaturals DEF IInv, Begun, Waited, Begin
  <1>2. ASSUME NEW r \in {"callee_input_bounded", "missing"}, Report(r),
               child' = child, input' = input, output' = output
        PROVE  IInv'
    <2>1. engine' = engine /\ code' = code /\ heir' = heir /\ inPipe' = inPipe /\ writer' = writer
             /\ left' = left /\ pipe' = pipe /\ written' = written /\ reader' = reader
             /\ clean' = clean /\ text' = text /\ kept' = kept /\ cut' = cut /\ pc' = "done" /\ result' = r
      BY <1>2 DEF child, input, output, Report
    <2>2. TypeOK'
      BY <1>1, <2>1 DEF TypeOK, IInv, Codes
    <2>3. Streaming'
      BY <2>1, <1>2, StreamsStay DEF IInv, Held
    <2>4. Begun' /\ Waited'
      BY <1>1, <2>1, NoneIsApart DEF Begun, Waited, Codes
    <2> QED
      BY <2>2, <2>3, <2>4 DEF IInv
  <1>3. ASSUME engine' = "running",
               writer' = IF mode' = "stdin" THEN "on" ELSE "off",
               left' = size',
               mode' = "stdin" => size' <= MaxIn,
               mode' # "stdin" => size' = 0,
               reader' = [s \in Streams |-> IF mode' = "quiet" THEN "off" ELSE "on"],
               pc' = "poll",
               code' = code, heir' = heir, inPipe' = inPipe, pipe' = pipe,
               written' = written, clean' = clean, kept' = kept, cut' = cut, text' = text,
               result' = result
        PROVE  IInv'
    <2>1. left' \in 0..MaxIn
      BY <1>1, <1>3, SizesAreNaturals
    <2>2. TypeOK'
      BY <1>1, <1>3, <2>1 DEF TypeOK, IInv
    <2>3. ASSUME NEW s \in Streams
          PROVE  Faithful(s)'
      BY <1>1, <1>3 DEF Faithful, IInv, Streaming
    <2>4. Begun' /\ Waited'
      BY <1>1, <1>3, NoneIsApart DEF Begun, Waited, Codes
    <2> QED
      BY <2>2, <2>3, <2>4 DEF IInv, Streaming
  <1>4. CASE mode' = "stdin" /\ (size' = 0 \/ size' > MaxIn)
    BY <1>2, <1>4 DEF Begin
  <1>5. CASE ~(mode' = "stdin" /\ (size' = 0 \/ size' > MaxIn))
    <2>1. \/ Report("missing") /\ UNCHANGED <<child, input, output>>
          \/ /\ engine' = "running"
             /\ writer' = IF mode' = "stdin" THEN "on" ELSE "off"
             /\ left' = size'
             /\ reader' = [s \in Streams |-> IF mode' = "quiet" THEN "off" ELSE "on"]
             /\ pc' = "poll"
             /\ UNCHANGED <<code, heir, inPipe, pipe, written, clean, kept, cut, text, result>>
      BY <1>5 DEF Begin
    <2>2. mode' = "stdin" => size' <= MaxIn
      BY <1>1, <1>5, SizesAreNaturals
    <2>3. mode' # "stdin" => size' = 0
      BY DEF Begin
    <2> QED
      BY <1>2, <1>3, <2>1, <2>2, <2>3
  <1> QED
    BY <1>4, <1>5

LEMMA CallerKeeps == IInv /\ (Look \/ LookFails \/ JoinWriter \/ JoinReaders) => IInv'
  <1> SUFFICES ASSUME IInv, Look \/ LookFails \/ JoinWriter \/ JoinReaders
               PROVE  IInv'
    OBVIOUS
  <1> USE DEF IInv, child, input, output
  <1>1. output' = output /\ (Held' => Held)
    BY DEF Look, LookFails, JoinWriter, JoinReaders, Held
  <1>2. Streaming'
    BY <1>1, StreamsStay
  <1>3. CASE Look
    <2>1. /\ mode' = mode /\ broken' = broken /\ code' = code /\ heir' = heir /\ size' = size
          /\ inPipe' = inPipe /\ writer' = writer /\ left' = left /\ pipe' = pipe
          /\ written' = written /\ reader' = reader /\ kept' = kept /\ cut' = cut
          /\ clean' = clean /\ text' = text /\ result' = result /\ pc = "poll"
      BY <1>3 DEF Look
    <2>2. looks' \in 0..Polls
      BY <1>3, SizesAreNaturals DEF TypeOK, Look
    <2>3. /\ late' \in BOOLEAN /\ pc' \in {"poll", "join_writer"}
          /\ engine' = engine \/ (engine = "running" /\ engine' = "killed")
          /\ pc' = "join_writer" => engine' \in {"none", "exited", "killed"}
          /\ engine' = "none" => engine = "none"
      BY <1>3 DEF TypeOK, Look
    <2>4. TypeOK'
      BY <2>1, <2>2, <2>3 DEF TypeOK
    <2>5. Begun'
      BY <2>1, <2>3 DEF Begun
    <2>6. engine # "none"
      BY <2>1 DEF Waited
    <2>7. Waited'
      BY <2>1, <2>3, <2>6 DEF Waited
    <2> QED
      BY <1>2, <2>4, <2>5, <2>7
  <1>4. CASE LookFails
    <2>1. /\ mode' = mode /\ looks' = looks /\ late' = late /\ code' = code /\ heir' = heir
          /\ size' = size /\ inPipe' = inPipe /\ writer' = writer /\ left' = left /\ pipe' = pipe
          /\ written' = written /\ reader' = reader /\ kept' = kept /\ cut' = cut /\ pc = "poll"
          /\ clean' = clean /\ text' = text /\ broken' = TRUE
      BY <1>4 DEF LookFails
    <2>2. /\ engine' = IF engine = "running" THEN "killed" ELSE engine
          /\ \/ pc' = "join_writer" /\ result' = result
             \/ pc' = "done" /\ result' = "callee_wait_failed"
      BY <1>4 DEF LookFails, Report
    <2>3. TypeOK'
      BY <2>1, <2>2 DEF TypeOK, Codes
    <2>4. engine # "none" /\ result # "completed"
      BY <2>1, NoneIsApart DEF Waited, Codes
    <2>5. Begun'
      BY <2>1, <2>2, <2>4 DEF Begun
    <2>6. Waited'
      BY <2>1, <2>2, <2>4 DEF Waited, TypeOK
    <2> QED
      BY <1>2, <2>3, <2>5, <2>6
  <1>5. CASE JoinWriter
    <2>1. TypeOK'
      BY <1>5 DEF TypeOK, JoinWriter
    <2>2. Begun' /\ Waited'
      BY <1>5, NoneIsApart DEF Begun, Waited, JoinWriter, TypeOK, Codes
    <2> QED
      BY <1>2, <2>1, <2>2
  <1>6. CASE JoinReaders
    <2>1. /\ pc' = "done" /\ result' \in Codes
          /\ result' = "completed" => ~(code = 0 /\ writer = "failed") \/ broken \/ late
          /\ result' = "completed" => ~broken /\ ~late
      BY <1>6 DEF JoinReaders, Report, Codes
    <2>2. /\ mode' = mode /\ looks' = looks /\ late' = late /\ broken' = broken /\ engine' = engine
          /\ code' = code /\ heir' = heir /\ size' = size /\ inPipe' = inPipe /\ writer' = writer
          /\ left' = left /\ reader' = reader
      BY <1>6 DEF JoinReaders
    <2>3. TypeOK'
      BY <1>1, <2>1, <2>2 DEF TypeOK
    <2>4. Begun' /\ Waited'
      BY <1>6, <2>1, <2>2, NoneIsApart DEF Begun, Waited, JoinReaders, TypeOK, Codes
    <2> QED
      BY <1>2, <2>3, <2>4
  <1> QED
    BY <1>3, <1>4, <1>5, <1>6

LEMMA WriteInputKeeps == IInv /\ WriteInput => IInv'
  <1> SUFFICES ASSUME IInv, WriteInput
               PROVE  IInv'
    OBVIOUS
  <1> USE DEF IInv, child, input, output
  <1>1. Streaming'
    BY StreamsStay DEF WriteInput, Held
  <1>2. TypeOK'
    BY SizesAreNaturals DEF TypeOK, WriteInput
  <1>3. Begun' /\ Waited'
    BY NoneIsApart, SizesAreNaturals DEF Begun, Waited, WriteInput, TypeOK, Codes
  <1> QED
    BY <1>1, <1>2, <1>3

LEMMA EngineKeeps == IInv /\ Engine => IInv'
  <1> SUFFICES ASSUME IInv, Engine
               PROVE  IInv'
    OBVIOUS
  <1> USE DEF IInv, child, input, output
  <1>1. CASE EngineReads \/ EngineClosesInput \/ EngineExits \/ EngineForks \/ HeirExits
    <2>1. output' = output /\ (Held' => Held)
      BY <1>1 DEF EngineReads, EngineClosesInput, EngineExits, EngineForks, HeirExits, Held
    <2>2. Streaming'
      BY <2>1, StreamsStay
    <2> USE DEF EngineReads, EngineClosesInput, EngineExits, EngineForks, HeirExits
    <2>10. /\ mode' = mode /\ pc' = pc /\ looks' = looks /\ late' = late /\ broken' = broken
           /\ size' = size /\ left' = left /\ result' = result
      BY <1>1
    <2>11. pc # "done"
      BY DEF Engine
    <2>12. /\ writer' = writer \/ (writer = "on" /\ writer' = "failed")
           /\ inPipe' = inPipe \/ (inPipe' = inPipe - 1 /\ inPipe > 0)
      BY <1>1
    <2>13. \/ engine' = engine /\ code' = code
           \/ engine = "running" /\ engine' = "exited" /\ code' \in {0, 1}
      BY <1>1
    <2>14. heir' \in BOOLEAN /\ (heir' /\ ~heir => engine = "running")
      <3>1. heir \in BOOLEAN
        BY DEF TypeOK
      <3>2. \/ heir' = heir
            \/ heir' = FALSE
            \/ heir' = TRUE /\ engine = "running"
        BY <1>1
      <3>3. CASE heir' = heir
        BY <3>1, <3>3
      <3>4. CASE heir' = FALSE
        BY <3>4
      <3>5. CASE heir' = TRUE /\ engine = "running"
        BY <3>5
      <3> QED
        BY <3>2, <3>3, <3>4, <3>5
    <2>3. /\ mode' = mode /\ pc' = pc /\ looks' = looks /\ late' = late /\ broken' = broken
          /\ size' = size /\ left' = left /\ result' = result /\ pc # "done"
          /\ writer' = writer \/ (writer = "on" /\ writer' = "failed")
          /\ inPipe' = inPipe \/ (inPipe' = inPipe - 1 /\ inPipe > 0)
          /\ \/ engine' = engine /\ code' = code
             \/ engine = "running" /\ engine' = "exited" /\ code' \in {0, 1}
          /\ heir' \in BOOLEAN /\ (heir' /\ ~heir => engine = "running")
      BY <2>10, <2>11, <2>12, <2>13, <2>14
    <2>4. /\ pipe' = pipe /\ written' = written /\ reader' = reader /\ kept' = kept /\ cut' = cut
          /\ clean' = clean /\ text' = text
      BY <2>1
    <2>5. inPipe' \in 0..Cap
      BY <2>3, SizesAreNaturals DEF TypeOK
    <2>6. TypeOK'
      BY <2>3, <2>4, <2>5 DEF TypeOK
    <2>7. Begun'
      <3>1. CASE pc = "start"
        BY <2>3, <2>4, <3>1, <1>1
           DEF Begun, TypeOK, EngineReads, EngineClosesInput, EngineExits, EngineForks, HeirExits, Held
      <3>2. CASE pc # "start"
        BY <2>3, <2>4, <3>2 DEF Begun
      <3> QED
        BY <3>1, <3>2
    <2>8. result = None
      BY <2>3 DEF Waited
    <2>9. Waited'
      BY <2>3, <2>4, <2>8, NoneIsApart DEF Waited, Codes
    <2> QED
      BY <2>2, <2>6, <2>7, <2>9
  <1>2. ASSUME NEW s \in Streams, EngineWrites(s)
        PROVE  IInv'
    <2>1. TypeOK'
      BY <1>2, SizesAreNaturals DEF TypeOK, EngineWrites
    <2>2. ASSUME NEW t \in Streams
          PROVE  Faithful(t)'
      <3>1. CASE t = s
        <4>1. pipe'[t] = pipe[t] + 1 /\ written'[t] = written[t] + 1 /\ reader[t] = "on"
          BY <1>2, <3>1 DEF EngineWrites, TypeOK
        <4>2. pipe[t] \in Nat /\ written[t] \in Nat
          BY SizesAreNaturals DEF TypeOK
        <4>3. written'[t] - pipe'[t] = written[t] - pipe[t]
          BY <4>1, <4>2
        <4> QED
          BY <1>2, <4>1, <4>2, <4>3 DEF Faithful, Streaming, EngineWrites
      <3>2. CASE t # s
        <4>1. pipe'[t] = pipe[t] /\ written'[t] = written[t]
          BY <1>2, <3>2 DEF EngineWrites, TypeOK
        <4> QED
          BY <1>2, <4>1 DEF Faithful, Streaming, EngineWrites, Held
      <3> QED
        BY <3>1, <3>2
    <2>3. Begun' /\ Waited'
      BY <1>2 DEF Begun, Waited, EngineWrites
    <2> QED
      BY <2>1, <2>2, <2>3 DEF Streaming
  <1> QED
    BY <1>1, <1>2 DEF Engine

\* Keeping what fits of the next n units is keeping what fits of all.
LEMMA KeepingFits ==
    ASSUME NEW m \in Nat, NEW n \in Nat, NEW k \in Nat, k = Lesser(m, Keep)
    PROVE  /\ k + Lesser(n, Keep - k) = Lesser(m + n, Keep)
           /\ k + Lesser(n, Keep - k) \in 0..Keep
           /\ (m > Keep \/ n > Keep - k) <=> m + n > Keep
  BY SizesAreNaturals DEF Lesser

LEMMA DrainKeeps ==
    ASSUME IInv, NEW s \in Streams, Drain(s) \/ ReadFails(s)
    PROVE  IInv'
  <1> USE DEF IInv, child, input, output
  <1>1. /\ mode' = mode /\ pc' = pc /\ looks' = looks /\ late' = late /\ broken' = broken
        /\ engine' = engine /\ code' = code /\ heir' = heir /\ size' = size
        /\ inPipe' = inPipe /\ writer' = writer /\ left' = left /\ written' = written
        /\ clean' = clean /\ result' = result /\ reader[s] = "on"
    BY DEF Drain, ReadFails
  <1>2. pipe[s] \in Nat /\ written[s] \in Nat /\ kept[s] \in Nat /\ Faithful(s)
    BY SizesAreNaturals DEF TypeOK, Streaming
  <1>3. ASSUME reader' \in [Streams -> {"off", "on", "eof", "failed"}],
               \A t \in Streams : t # s => reader'[t] = reader[t],
               reader'[s] # "off"
        PROVE  Begun' /\ Waited'
    <2>1. pc # "start" /\ result # "completed"
      BY <1>1 DEF Begun, Waited
    <2> QED
      BY <1>1, <1>3, <2>1 DEF Begun, Waited
  <1>4. ASSUME NEW t \in Streams, t # s,
               pipe'[t] = pipe[t], reader'[t] = reader[t], kept'[t] = kept[t], cut'[t] = cut[t],
               text'[t] = text[t]
        PROVE  Faithful(t)'
    BY <1>1, <1>4 DEF Faithful, AsText, Streaming, Held
  <1>5. ASSUME NEW n \in 1..pipe[s],
               pipe' = [pipe EXCEPT ![s] = @ - n],
               kept' = [kept EXCEPT ![s] = @ + Lesser(n, Keep - kept[s])],
               cut' = [cut EXCEPT ![s] = @ \/ n > Keep - kept[s]],
               reader' = reader, text' = text
        PROVE  IInv'
    <2> DEFINE m == written[s] - pipe[s]
    <2>1. m \in Nat /\ n \in Nat /\ kept[s] = Lesser(m, Keep) /\ (cut[s] <=> m > Keep)
      BY <1>1, <1>2 DEF Faithful
    <2>2. /\ pipe'[s] = pipe[s] - n /\ kept'[s] = kept[s] + Lesser(n, Keep - kept[s])
          /\ cut'[s] = (cut[s] \/ n > Keep - kept[s])
      BY <1>5 DEF TypeOK
    <2>3. kept'[s] = Lesser(m + n, Keep) /\ kept'[s] \in 0..Keep
      BY <1>2, <2>1, <2>2, KeepingFits
    <2>4. cut'[s] <=> m + n > Keep
      <3>1. (m > Keep \/ n > Keep - kept[s]) <=> m + n > Keep
        BY <1>2, <2>1, KeepingFits
      <3>2. cut'[s] <=> (m > Keep \/ n > Keep - kept[s])
        BY <2>1, <2>2
      <3> QED
        BY <3>1, <3>2
    <2>5. written'[s] - pipe'[s] = m + n /\ pipe'[s] \in 0..pipe[s] /\ pipe'[s] <= written'[s]
      BY <1>1, <1>2, <2>2 DEF Faithful
    <2>6. Faithful(s)'
      BY <1>1, <1>5, <2>3, <2>4, <2>5 DEF Faithful
    <2>7. Streaming'
      BY <1>4, <1>5, <2>6 DEF Streaming, TypeOK
    <2>8. pipe' \in [Streams -> 0..Cap] /\ kept' \in [Streams -> 0..Keep]
      BY <1>5, <2>2, <2>3, <2>5, SizesAreNaturals DEF TypeOK
    <2>9. cut' \in [Streams -> BOOLEAN]
      BY <1>5 DEF TypeOK
    <2>10. TypeOK'
      BY <1>1, <1>5, <2>8, <2>9 DEF TypeOK
    <2> QED
      BY <1>1, <1>3, <1>5, <2>7, <2>10 DEF TypeOK
  <1>6. ASSUME NEW end \in {"eof", "failed"}, HandOver(s, end),
               end = "eof" => pipe[s] = 0 /\ ~Held,
               pipe' = pipe, kept' = kept, cut' = cut
        PROVE  IInv'
    <2>1. PICK t \in AsText(s, end) : text' = [text EXCEPT ![s] = t]
      BY <1>6 DEF HandOver
    <2>2. t \in {"exact", "replaced"}
      BY <2>1 DEF AsText
    <2>3. /\ reader' = [reader EXCEPT ![s] = end]
          /\ reader' \in [Streams -> {"off", "on", "eof", "failed"}]
          /\ text' \in [Streams -> {"none", "exact", "replaced"}]
          /\ reader'[s] = end /\ text'[s] = t
          /\ \A o \in Streams : o # s => reader'[o] = reader[o] /\ text'[o] = text[o]
      BY <1>6, <2>1, <2>2 DEF HandOver, TypeOK
    <2>4. TypeOK'
      BY <1>1, <1>6, <2>3 DEF TypeOK
    <2>5. AsText(s, "eof")' = AsText(s, "eof")
      BY <1>1, <1>6 DEF AsText
    <2>6. Faithful(s)'
      BY <1>1, <1>2, <1>6, <2>1, <2>3, <2>5 DEF Faithful, Held
    <2>7. Streaming'
      BY <1>4, <1>6, <2>3, <2>6 DEF Streaming
    <2> QED
      BY <1>3, <2>3, <2>4, <2>7
  <1>7. CASE ReadFails(s)
    BY <1>6, <1>7 DEF ReadFails
  <1>8. CASE Drain(s)
    <2>1. CASE \E n \in 1..pipe[s] :
                 /\ pipe' = [pipe EXCEPT ![s] = @ - n]
                 /\ kept' = [kept EXCEPT ![s] = @ + Lesser(n, Keep - kept[s])]
                 /\ cut' = [cut EXCEPT ![s] = @ \/ n > Keep - kept[s]]
                 /\ reader' = reader /\ text' = text
      BY <1>5, <2>1
    <2>2. CASE /\ pipe[s] = 0 /\ ~Held /\ HandOver(s, "eof")
               /\ pipe' = pipe /\ kept' = kept /\ cut' = cut
      BY <1>6, <2>2
    <2> QED
      BY <1>8, <2>1, <2>2 DEF Drain
  <1> QED
    BY <1>7, <1>8

LEMMA Kept == IInv /\ [Next]_vars => IInv'
  <1>1. ASSUME IInv, UNCHANGED vars
        PROVE  IInv'
    <2>1. output' = output /\ (Held' => Held)
      BY <1>1 DEF vars, child, Held
    <2>2. Streaming'
      BY <1>1, <2>1, StreamsStay DEF IInv
    <2> QED
      BY <1>1, <2>2 DEF vars, child, input, output, IInv, TypeOK, Begun, Waited
  <1> QED
    BY <1>1, BeginKeeps, CallerKeeps, WriteInputKeeps, EngineKeeps, DrainKeeps DEF Next, Caller

THEOREM Invariance == Spec => []IInv
  BY Initially, Kept, PTL DEF Spec

\* Every variable of a call keeps its type.
THEOREM TypeCorrect == Spec => []TypeOK
  <1>1. IInv => TypeOK
    BY DEF IInv
  <1> QED
    BY <1>1, Invariance, PTL

\* A completed call carries what its engine wrote, up to the bound, and tells
\* when it does not (read_bounded), however the reads cut the streams.
THEOREM OutputsAreWhole == Spec => []OutputIsWhole
  <1>1. IInv => OutputIsWhole
    <2> SUFFICES ASSUME IInv, result = "completed", mode # "quiet",
                        NEW s \in Streams, reader[s] # "failed"
                 PROVE  /\ kept[s] = Lesser(written[s], Keep)
                        /\ cut[s] <=> written[s] > Keep
                        /\ clean[s] = written[s] /\ ~cut[s] => text[s] = "exact"
                        /\ clean[s] < kept[s] => text[s] # "exact"
      BY DEF OutputIsWhole
    <2>1. reader[s] = "eof" /\ pipe[s] = 0 /\ text[s] \in AsText(s, "eof")
      BY DEF IInv, TypeOK, Begun, Waited, Streaming, Faithful
    <2>2. /\ written[s] \in Nat /\ clean[s] \in Nat /\ kept[s] \in Nat
          /\ written[s] - pipe[s] = written[s]
      BY <2>1, SizesAreNaturals DEF IInv, TypeOK
    <2>3. kept[s] = Lesser(written[s], Keep) /\ (cut[s] <=> written[s] > Keep)
      BY <2>1, <2>2 DEF IInv, Streaming, Faithful
    <2>4. kept[s] <= written[s]
      BY <2>2, <2>3, SizesAreNaturals DEF Lesser
    <2>5. clean[s] = written[s] /\ ~cut[s] => text[s] = "exact"
      BY <2>1, <2>2, <2>4 DEF AsText
    <2>6. clean[s] < kept[s] => text[s] # "exact"
      BY <2>1, <2>2 DEF AsText
    <2> QED
      BY <2>3, <2>5, <2>6
  <1> QED
    BY <1>1, Invariance, PTL

\* A successful call has handed its whole input over, and a call that reported
\* leaves no engine running.
THEOREM CallsEndClean == Spec => []EndsClean
  <1>1. IInv => EndsClean
    BY NoneIsApart DEF IInv, EndsClean, Waited, TypeOK, Codes
  <1> QED
    BY <1>1, Invariance, PTL

----------------------------------------------------------------------------
(* Calls end: what liveness rests on besides fairness.                     *)

\* How many more steps each party may take: the caller, the child with what it
\* leaves behind, the writer with its pipe, and the drain of a stream with its.
CallerLeft ==
    CASE pc = "start"        -> Polls + 2 * MaxIn + 10
      [] pc = "poll"         -> looks + 3
      [] pc = "join_writer"  -> 2
      [] pc = "join_readers" -> 1
      [] pc = "done"         -> 0

ChildLeft ==
    IF engine = "running" THEN IF heir THEN 2 ELSE 3
                          ELSE IF heir THEN 1 ELSE 0

InputLeft == 2 * left + inPipe + IF writer = "on" THEN 1 ELSE 0

StreamLeft(s) == 2 * (MaxOut - written[s]) + pipe[s] + IF reader[s] = "on" THEN 1 ELSE 0

StepsLeft == CallerLeft + ChildLeft + InputLeft + StreamLeft("out") + StreamLeft("err")

\* While a call lasts and no process left behind keeps its pipes, the thread it
\* waits for can go on.
CanGoOn ==
    pc # "done" /\ ~heir =>
        \/ pc \in {"start", "poll"}
        \/ pc = "join_writer" /\ (writer = "on" => ~Held)
        \/ pc = "join_readers" /\ \A s \in Streams :
               reader[s] = "on" /\ pipe[s] = 0 => ~Held

Counted ==
    /\ CallerLeft \in Nat /\ ChildLeft \in Nat /\ InputLeft \in Nat
    /\ StreamLeft("out") \in Nat /\ StreamLeft("err") \in Nat

LEMMA PartsCount == TypeOK => Counted
  <1> SUFFICES ASSUME TypeOK PROVE Counted
    OBVIOUS
  <1>1. CallerLeft \in Nat
    BY SizesAreNaturals DEF TypeOK, CallerLeft
  <1>2. ChildLeft \in Nat /\ InputLeft \in Nat
    BY SizesAreNaturals DEF TypeOK, ChildLeft, InputLeft
  <1>3. ASSUME NEW s \in Streams
        PROVE  StreamLeft(s) \in Nat
    <2>1. written[s] \in 0..MaxOut /\ pipe[s] \in 0..Cap
      BY <1>3 DEF TypeOK
    <2> QED
      BY <2>1, SizesAreNaturals DEF StreamLeft
  <1> QED
    BY <1>1, <1>2, <1>3 DEF Streams, Counted

LEMMA BeginCounts == IInv /\ Begin => StepsLeft' < StepsLeft
  <1> SUFFICES ASSUME IInv, Begin PROVE StepsLeft' < StepsLeft
    OBVIOUS
  <1>1. /\ CallerLeft \in Nat /\ ChildLeft \in Nat /\ InputLeft \in Nat
        /\ StreamLeft("out") \in Nat /\ StreamLeft("err") \in Nat
    BY PartsCount DEF IInv, Counted
  <1>2. /\ pc = "start" /\ looks' = looks /\ looks \in 0..Polls /\ Polls \in Nat /\ MaxIn \in Nat
        /\ engine = "none" /\ ~heir /\ writer = "off" /\ left = 0
        /\ \A s \in Streams : reader[s] = "off"
        /\ inPipe \in Nat
    BY SizesAreNaturals DEF IInv, TypeOK, Begun, Waited, Begin
  <1>3. CallerLeft = Polls + 2 * MaxIn + 10
    BY <1>2 DEF CallerLeft
  <1>4. CASE pc' = "done" /\ UNCHANGED <<child, input, output>>
    <2>1. CallerLeft' = 0
      BY <1>4 DEF CallerLeft
    <2>2. ChildLeft' = ChildLeft /\ InputLeft' = InputLeft
      BY <1>4 DEF child, input, ChildLeft, InputLeft
    <2>3. StreamLeft("out")' = StreamLeft("out") /\ StreamLeft("err")' = StreamLeft("err")
      BY <1>4 DEF output, StreamLeft
    <2> QED
      BY <1>1, <1>2, <1>3, <2>1, <2>2, <2>3 DEF StepsLeft
  <1>5. CASE /\ pc' = "poll" /\ engine' = "running" /\ left' = size'
             /\ reader' = [s \in Streams |-> IF mode' = "quiet" THEN "off" ELSE "on"]
             /\ UNCHANGED <<code, heir, inPipe, pipe, written, clean, kept, cut, text, result>>
    <2>1. CallerLeft' <= Polls + 3
      BY <1>2, <1>5 DEF CallerLeft
    <2>2. ChildLeft' = 3 /\ ChildLeft = 0
      BY <1>2, <1>5 DEF ChildLeft
    <2>3. left' \in 0..MaxIn
      BY <1>5, BeginKeeps DEF IInv, TypeOK
    <2>4. InputLeft' <= 2 * MaxIn + inPipe + 1 /\ InputLeft = inPipe
      <3>1. InputLeft = inPipe
        BY <1>2 DEF InputLeft
      <3>2. InputLeft' = 2 * left' + inPipe \/ InputLeft' = 2 * left' + inPipe + 1
        BY <1>2, <1>5, <2>3 DEF InputLeft
      <3>3. 2 * left' <= 2 * MaxIn /\ 2 * left' \in Nat
        <4>1. \A m, n \in Nat : m <= n => 2 * m <= 2 * n /\ 2 * m \in Nat
          OBVIOUS
        <4>2. left' \in Nat /\ MaxIn \in Nat /\ left' <= MaxIn
          BY <1>2, <2>3
        <4> QED
          BY <4>1, <4>2, Zenon
      <3> QED
        BY <1>2, <3>1, <3>2, <3>3
    <2>5. ASSUME NEW s \in Streams
          PROVE  StreamLeft(s)' <= StreamLeft(s) + 1
      <3>1. written[s] \in Nat /\ pipe[s] \in Nat /\ MaxOut \in Nat
        BY SizesAreNaturals DEF IInv, TypeOK
      <3> QED
        BY <1>2, <1>5, <3>1 DEF StreamLeft
    <2>6. /\ CallerLeft' \in Nat /\ InputLeft' \in Nat
          /\ StreamLeft("out")' \in Nat /\ StreamLeft("err")' \in Nat
      <3>1. TypeOK' => Counted'
        BY PartsCount, PTL
      <3> QED
        BY <3>1, BeginKeeps DEF IInv, Counted
    <2>7. /\ StreamLeft("out")' <= StreamLeft("out") + 1
          /\ StreamLeft("err")' <= StreamLeft("err") + 1
      BY <2>5 DEF Streams
    <2> QED
      BY <1>1, <1>2, <1>3, <2>1, <2>2, <2>4, <2>6, <2>7 DEF StepsLeft
  <1> QED
    BY <1>4, <1>5 DEF Begin, Report

\* The other steps of the caller leave the threads and their pipes alone.
LEMMA CallerCounts ==
    IInv /\ (Look \/ LookFails \/ JoinWriter \/ JoinReaders) => StepsLeft' < StepsLeft
  <1> SUFFICES ASSUME IInv, Look \/ LookFails \/ JoinWriter \/ JoinReaders
               PROVE  StepsLeft' < StepsLeft
    OBVIOUS
  <1>1. /\ CallerLeft \in Nat /\ ChildLeft \in Nat /\ InputLeft \in Nat
        /\ StreamLeft("out") \in Nat /\ StreamLeft("err") \in Nat
    BY PartsCount DEF IInv, Counted
  <1>2. input' = input /\ output' = output /\ heir' = heir
    BY DEF Look, LookFails, JoinWriter, JoinReaders, Report, child
  <1>3. /\ InputLeft' = InputLeft /\ StreamLeft("out")' = StreamLeft("out")
        /\ StreamLeft("err")' = StreamLeft("err")
    BY <1>2 DEF input, output, InputLeft, StreamLeft
  <1>4. engine' = engine \/ (engine = "running" /\ engine' = "killed")
    BY DEF Look, LookFails, JoinWriter, JoinReaders, child
  <1>5. ChildLeft' \in Nat /\ ChildLeft' <= ChildLeft
    BY <1>2, <1>4 DEF ChildLeft
  <1>6. looks \in Nat
    BY SizesAreNaturals DEF IInv, TypeOK
  <1>7. CASE pc = "poll" /\ pc' = "poll" /\ looks' = looks - 1 /\ looks > 0
    BY <1>1, <1>3, <1>5, <1>6, <1>7 DEF CallerLeft, StepsLeft
  <1>8. CASE \/ pc = "poll" /\ pc' \in {"join_writer", "done"}
             \/ pc = "join_writer" /\ pc' = "join_readers"
             \/ pc = "join_readers" /\ pc' = "done"
    <2>1. CallerLeft' \in Nat /\ CallerLeft' < CallerLeft
      BY <1>6, <1>8 DEF CallerLeft
    <2> QED
      BY <1>1, <1>3, <1>5, <2>1 DEF StepsLeft
  <1> QED
    BY <1>7, <1>8 DEF Look, LookFails, JoinWriter, JoinReaders, Report

\* The child, what it leaves behind, and the writer.
LEMMA ChildCounts ==
    IInv /\ (EngineExits \/ EngineForks \/ HeirExits) => StepsLeft' < StepsLeft
  <1> SUFFICES ASSUME IInv, EngineExits \/ EngineForks \/ HeirExits
               PROVE  StepsLeft' < StepsLeft
    OBVIOUS
  <1>1. /\ CallerLeft \in Nat /\ ChildLeft \in Nat /\ InputLeft \in Nat
        /\ StreamLeft("out") \in Nat /\ StreamLeft("err") \in Nat
    BY PartsCount DEF IInv, Counted
  <1>2. pc' = pc /\ looks' = looks /\ input' = input /\ output' = output
    BY DEF EngineExits, EngineForks, HeirExits
  <1>3. /\ CallerLeft' = CallerLeft /\ InputLeft' = InputLeft
        /\ StreamLeft("out")' = StreamLeft("out") /\ StreamLeft("err")' = StreamLeft("err")
    BY <1>2 DEF input, output, CallerLeft, InputLeft, StreamLeft
  <1>4. ChildLeft' \in Nat /\ ChildLeft' < ChildLeft
    <2>1. CASE engine = "running" /\ engine' = "exited"
      <3>1. ChildLeft \in {2, 3} /\ ChildLeft' \in {0, 1}
        BY <2>1 DEF ChildLeft
      <3> QED
        BY <3>1
    <2>2. CASE engine = "running" /\ engine' = engine /\ ~heir /\ heir'
      BY <2>2 DEF ChildLeft
    <2>3. CASE engine # "running" /\ engine' = engine /\ heir /\ ~heir'
      BY <2>3 DEF ChildLeft
    <2> QED
      BY <2>1, <2>2, <2>3 DEF EngineExits, EngineForks, HeirExits
  <1> QED
    BY <1>1, <1>3, <1>4 DEF StepsLeft

LEMMA InputCounts ==
    IInv /\ (WriteInput \/ EngineReads \/ EngineClosesInput) => StepsLeft' < StepsLeft
  <1> SUFFICES ASSUME IInv, WriteInput \/ EngineReads \/ EngineClosesInput
               PROVE  StepsLeft' < StepsLeft
    OBVIOUS
  <1>1. /\ CallerLeft \in Nat /\ ChildLeft \in Nat /\ InputLeft \in Nat
        /\ StreamLeft("out") \in Nat /\ StreamLeft("err") \in Nat
    BY PartsCount DEF IInv, Counted
  <1>2. pc' = pc /\ looks' = looks /\ child' = child /\ output' = output
    BY DEF WriteInput, EngineReads, EngineClosesInput
  <1>3. /\ CallerLeft' = CallerLeft /\ ChildLeft' = ChildLeft
        /\ StreamLeft("out")' = StreamLeft("out") /\ StreamLeft("err")' = StreamLeft("err")
    BY <1>2 DEF child, output, CallerLeft, ChildLeft, StreamLeft
  <1>4. left \in Nat /\ inPipe \in Nat
    BY SizesAreNaturals DEF IInv, TypeOK
  <1>5. InputLeft' \in Nat /\ InputLeft' < InputLeft
    BY <1>4 DEF WriteInput, EngineReads, EngineClosesInput, InputLeft
  <1> QED
    BY <1>1, <1>3, <1>5 DEF StepsLeft

\* A stream and its reader.
LEMMA StreamCounts ==
    ASSUME IInv, IInv', NEW s \in Streams, Drain(s) \/ ReadFails(s) \/ EngineWrites(s)
    PROVE  StepsLeft' < StepsLeft
  <1>1. /\ CallerLeft \in Nat /\ ChildLeft \in Nat /\ InputLeft \in Nat
        /\ StreamLeft("out") \in Nat /\ StreamLeft("err") \in Nat
    BY PartsCount DEF IInv, Counted
  <1>2. pc' = pc /\ looks' = looks /\ child' = child /\ input' = input
    BY DEF Drain, ReadFails, EngineWrites
  <1>3. CallerLeft' = CallerLeft /\ ChildLeft' = ChildLeft /\ InputLeft' = InputLeft
    BY <1>2 DEF child, input, CallerLeft, ChildLeft, InputLeft
  <1>4. /\ pipe \in [Streams -> 0..Cap] /\ written \in [Streams -> 0..MaxOut]
        /\ reader \in [Streams -> {"off", "on", "eof", "failed"}]
        /\ Cap \in Nat /\ MaxOut \in Nat
    BY SizesAreNaturals DEF IInv, TypeOK
  <1>5. ASSUME NEW o \in Streams, o # s
        PROVE  StreamLeft(o)' = StreamLeft(o)
    <2>1. pipe'[o] = pipe[o] /\ written'[o] = written[o] /\ reader'[o] = reader[o]
      BY <1>4, <1>5 DEF Drain, ReadFails, HandOver, EngineWrites
    <2> QED
      BY <2>1 DEF StreamLeft
  <1>6. StreamLeft(s)' < StreamLeft(s)
    <2>1. written[s] \in 0..MaxOut /\ pipe[s] \in 0..Cap
      BY <1>4
    <2>2. CASE \/ reader[s] = "on" /\ reader'[s] # "on" /\ pipe'[s] = pipe[s]
                    /\ written'[s] = written[s]
               \/ written' = written /\ reader' = reader
                    /\ \E n \in 1..pipe[s] : pipe'[s] = pipe[s] - n
               \/ reader' = reader /\ pipe'[s] = pipe[s] + 1 /\ written'[s] = written[s] + 1
      BY <1>4, <2>1, <2>2 DEF StreamLeft
    <2> QED
      BY <1>4, <2>2 DEF Drain, ReadFails, HandOver, EngineWrites
  <1>7. TypeOK'
    BY DEF IInv
  <1>8. StreamLeft("out")' \in Nat /\ StreamLeft("err")' \in Nat
    <2>1. TypeOK' => Counted'
      BY PartsCount, PTL
    <2> QED
      BY <1>7, <2>1 DEF Counted
  <1>9. CASE s = "out"
    <2>1. StreamLeft("err")' = StreamLeft("err") /\ StreamLeft("out")' < StreamLeft("out")
      BY <1>5, <1>6, <1>9 DEF Streams
    <2> QED
      BY <1>1, <1>3, <1>8, <2>1 DEF StepsLeft
  <1>10. CASE s = "err"
    <2>1. StreamLeft("out")' = StreamLeft("out") /\ StreamLeft("err")' < StreamLeft("err")
      BY <1>5, <1>6, <1>10 DEF Streams
    <2> QED
      BY <1>1, <1>3, <1>8, <2>1 DEF StepsLeft
  <1> QED
    BY <1>9, <1>10 DEF Streams

\* A call and its engine come to rest after a bounded number of steps, and until
\* it has reported a call can go on unless a process left behind keeps its pipes:
\* neither a full pipe nor an engine that neither reads nor exits stops it.
THEOREM CallRunsDown == Spec => []CanGoOn /\ [][StepsLeft' < StepsLeft]_vars
  <1>1. IInv => CanGoOn
    BY DEF IInv, TypeOK, Waited, CanGoOn, Held
  <1>2. IInv /\ [Next]_vars => [StepsLeft' < StepsLeft]_vars
    BY Kept, BeginCounts, CallerCounts, ChildCounts, InputCounts, StreamCounts
       DEF Next, Caller, Engine
  <1> QED
    BY <1>1, <1>2, Invariance, PTL DEF Spec
=============================================================================
