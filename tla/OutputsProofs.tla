---------------------------- MODULE OutputsProofs ----------------------------
(* Outputs keeps its promises for any number of commands, parts, moves and *)
(* faults.                                                                 *)
EXTENDS Outputs, TLAPS

\* Where a command stands tells what it is and how far its stage is.
Stands(p) ==
    /\ pc[p] \in {"start", "detect", "check", "open", "sync", "publish", "verify", "finish"} =>
          at[p] = 1
    /\ pc[p] # "start" => kind[p] \in Menu
    /\ pc[p] # "done" => result[p] = None
    /\ pc[p] = "read" => kind[p] \in {"export", "backup"}
    /\ pc[p] = "reread" => kind[p] = "backup"
    /\ pc[p] = "detect" => kind[p] = "acquire"
    /\ pc[p] = "look" => kind[p] = "exchange"
    /\ pc[p] = "sync" => kind[p] \in Created \cup Staged
    /\ pc[p] = "publish" => kind[p] \in Staged
    /\ pc[p] = "verify" => kind[p] = "acquire" /\ stage[p] = None
    /\ kind[p] \notin Staged \/ pc[p] \in {"start", "detect", "check", "read", "reread", "open"} =>
          stage[p] = None
    /\ kind[p] \in Staged /\ pc[p] = "write" =>
          stage[p] # None /\ \A k \in Parts : k < at[p] => stage[p][k] = draft[p][k]
    /\ kind[p] \in Staged /\ pc[p] \in {"sync", "publish"} => stage[p] = draft[p]
    /\ kind[p] \notin {"export", "backup", None} => \A k \in Parts : draft[p][k] \in Versions

\* What a command has read of a batch or a workspace is of one moment in the end:
\* the pages have one value, and a member that reads the same twice has not
\* changed since the second reading began.
Reads(p) ==
    /\ kind[p] \in {"export", "backup"} /\ pc[p] \in {"open", "write", "sync", "finish"} =>
          draft[p] \in moments
    /\ kind[p] = "export" /\ pc[p] = "read" =>
          \A k \in Parts : k < at[p] =>
              draft[p][k] = draft[p][1] /\ \E m \in moments : m[k] = draft[p][k]
    /\ kind[p] = "backup" /\ pc[p] = "read" =>
          \A k \in Parts : k < at[p] => draft[p][k] \in Nat /\ draft[p][k] <= source[k]
    /\ pc[p] = "reread" =>
          \E m \in moments : \A k \in Parts :
              /\ draft[p][k] \in Nat /\ draft[p][k] <= m[k] /\ m[k] <= source[k]
              /\ k < at[p] => again[p][k] \in Nat /\ m[k] <= again[p][k]

\* What is at the path is a command's own from its publication on, unless it was
\* displaced, and it is whole when the command says so.
Owns(p) ==
    /\ pc[p] \in {"start", "detect", "check", "read", "reread", "open"} => ~Ours(p)
    /\ kind[p] \in Staged /\ pc[p] \in {"write", "sync", "publish", "discard"} =>
          ~Ours(p) \/ (kind[p] = "acquire" /\ pc[p] = "discard" /\ stage[p] = None)
    /\ Ours(p) /\ dest.done => pc[p] = "done"
    /\ \/ kind[p] \in Created /\ pc[p] \in {"write", "sync", "finish", "discard"}
       \/ kind[p] \in Staged /\ pc[p] \in {"verify", "finish"}
       \/ kind[p] = "acquire" /\ pc[p] = "discard" /\ stage[p] = None
       => Ours(p) \/ p \in touched
    /\ kind[p] \in Created /\ pc[p] = "write" => fd[p] \in {p, None}
    /\ kind[p] \in Created /\ p \notin touched =>
          /\ pc[p] = "write" =>
                fd[p] = p /\ \A k \in Parts : k < at[p] => dest.parts[k] = draft[p][k]
          /\ pc[p] \in {"sync", "finish"} => dest.parts = draft[p]
    /\ Ours(p) /\ kind[p] \in Staged => dest.parts = draft[p] \/ p \in touched
    /\ result[p] \notin {None, "ok"} /\ kind[p] \in CleansUp /\ p \notin stuck =>
          stage[p] = None /\ ~Ours(p)
    /\ Ours(p) /\ kind[p] \in DirKinds
         /\ (\/ kind[p] \in Staged \/ pc[p] = "finish" \/ dest.done
             \/ pc[p] \in {"write", "look"} /\ at[p] > 1) =>
          dest.parts # Empty

Fine(p) == Stands(p) /\ Reads(p) /\ Owns(p)

\* Commands meet only on paths of one sort, and what a person placed is emptied by
\* writers of files only.
Paths ==
    /\ \A p, q \in Procs : kind[p] # None /\ kind[q] # None => PathOf(kind[p]) = PathOf(kind[q])
    /\ dest # None /\ dest.of = Foreign =>
          dest.parts # Empty \/ \E q \in Procs : kind[q] \in FileKinds

\* A batch has one value at all its parts.
Batch(c) == [k \in Parts |-> c]

\* Moments know values up to the present one, and a value found at two parts
\* is that of a whole batch.
Dated ==
    /\ source \in moments
    /\ \A m \in moments : \A k \in Parts : m[k] \in 0..moves
    /\ \A m, n \in moments : \A j, k \in Parts :
          j # k /\ m[j] = n[k] => Batch(m[j]) \in moments

IInv == TypeOK /\ Paths /\ Dated /\ \A p \in Procs : Fine(p)

----------------------------------------------------------------------------
(* What every step uses.                                                   *)

Labels == {"start", "detect", "check", "read", "reread", "open", "look", "write", "sync",
           "publish", "verify", "finish", "discard", "done", "dead"}

\* A command that takes no part in a step.
Aside(q) ==
    /\ pc'[q] = pc[q] /\ kind'[q] = kind[q] /\ at'[q] = at[q] /\ draft'[q] = draft[q]
    /\ again'[q] = again[q] /\ stage'[q] = stage[q] /\ result'[q] = result[q]
    /\ q \in stuck' <=> q \in stuck

\* What a step of others may do to its output: displace or change it, and then it
\* is touched, but never bring it back, finish it or empty a directory.
Respects(q) ==
    /\ touched \subseteq touched'
    /\ Ours(q)' => Ours(q) /\ dest'.done = dest.done
    /\ Ours(q) /\ dest' # dest => q \in touched'
    /\ Ours(q)' /\ kind[q] \in DirKinds /\ dest.parts # Empty => dest'.parts # Empty
    /\ fd'[q] = fd[q] \/ (fd'[q] = None /\ (fd[q] = q => q \in touched'))

\* The source moves on.
Later ==
    /\ moments \subseteq moments'
    /\ \A k \in Parts : source'[k] \in Nat /\ source[k] \in Nat /\ source[k] <= source'[k]

LEMMA StaysFine ==
    ASSUME TypeOK, Dated, NEW q \in Procs, Fine(q), Aside(q), Respects(q), Later
    PROVE  Fine(q)'
  <1>1. Stands(q)'
    BY DEF Fine, Stands, Aside
  <1>2. Reads(q)'
    <2>1. /\ kind[q] \in {"export", "backup"} /\ pc[q] \in {"open", "write", "sync", "finish"} =>
                draft[q] \in moments'
          /\ kind[q] = "export" /\ pc[q] = "read" =>
                \A k \in Parts : k < at[q] =>
                    draft[q][k] = draft[q][1] /\ \E m \in moments' : m[k] = draft[q][k]
      BY DEF Fine, Reads, Later
    <2>2. kind[q] = "backup" /\ pc[q] = "read" =>
                \A k \in Parts : k < at[q] => draft[q][k] \in Nat /\ draft[q][k] <= source'[k]
      BY DEF Fine, Reads, Later
    <2>3. pc[q] = "reread" =>
            \E m \in moments' : \A k \in Parts :
                /\ draft[q][k] \in Nat /\ draft[q][k] <= m[k] /\ m[k] <= source'[k]
                /\ k < at[q] => again[q][k] \in Nat /\ m[k] <= again[q][k]
      <3>1. CASE pc[q] = "reread"
        <4>1. PICK m \in moments : \A k \in Parts :
                /\ draft[q][k] \in Nat /\ draft[q][k] <= m[k] /\ m[k] <= source[k]
                /\ k < at[q] => again[q][k] \in Nat /\ m[k] <= again[q][k]
          BY <3>1 DEF Fine, Reads
        <4>2. \A k \in Parts : m[k] \in Nat
          BY Bounds DEF Dated, TypeOK
        <4>3. m \in moments' /\ \A k \in Parts : m[k] <= source'[k]
          BY <4>1, <4>2 DEF Later
        <4> QED
          BY <4>1, <4>3
      <3> QED
        BY <3>1
    <2> QED
      BY <2>1, <2>2, <2>3 DEF Reads, Aside
  <1>3. Owns(q)'
    <2>1. /\ Ours(q)' => Ours(q) /\ dest'.done = dest.done
          /\ Ours(q) /\ dest' # dest => q \in touched'
          /\ q \in touched => q \in touched'
          /\ Ours(q)' /\ kind[q] \in DirKinds /\ dest.parts # Empty => dest'.parts # Empty
          /\ fd'[q] = fd[q] \/ (fd'[q] = None /\ (fd[q] = q => q \in touched'))
          /\ dest' = dest => Ours(q)' = Ours(q)
      BY DEF Respects, Ours
    <2>2. /\ pc'[q] = pc[q] /\ kind'[q] = kind[q] /\ at'[q] = at[q] /\ draft'[q] = draft[q]
          /\ stage'[q] = stage[q] /\ result'[q] = result[q] /\ (q \in stuck' <=> q \in stuck)
      BY DEF Aside
    <2> QED
      BY <2>1, <2>2 DEF Fine, Owns
  <1> QED
    BY <1>1, <1>2, <1>3 DEF Fine

\* A step of one command, with the others aside.
LEMMA Assembled ==
    ASSUME IInv, NEW p \in Procs, TypeOK', Paths', Dated', Later, Fine(p)',
           \A q \in Procs \ {p} : Aside(q) /\ Respects(q)
    PROVE  IInv'
  <1>1. ASSUME NEW q \in Procs
        PROVE  Fine(q)'
    <2>1. CASE q = p
      BY <2>1
    <2>2. CASE q # p
      BY <2>2, StaysFine DEF IInv
    <2> QED
      BY <2>1, <2>2
  <1> QED
    BY <1>1 DEF IInv

LEMMA SourceStays ==
    ASSUME IInv, UNCHANGED <<env, moves>>
    PROVE  Dated' /\ Later
  <1>1. moments' = moments /\ source' = source /\ moves' = moves
    BY DEF env
  <1>2. Dated'
    BY <1>1 DEF IInv, Dated
  <1>3. \A k \in Parts : source[k] \in Nat
    BY Bounds DEF IInv, Dated, TypeOK
  <1> QED
    BY <1>1, <1>2, <1>3 DEF Later

\* A step that leaves the path alone.
LEMMA PathStays ==
    ASSUME IInv, UNCHANGED <<dest, fd, touched>>
    PROVE  \A q \in Procs : Respects(q) /\ Ours(q)' = Ours(q)
  BY DEF Respects, Ours

LEMMA PathsStay ==
    ASSUME IInv, UNCHANGED kind,
           dest' # None /\ dest'.of = Foreign =>
               dest # None /\ dest.of = Foreign /\ (dest.parts # Empty => dest'.parts # Empty)
    PROVE  Paths'
  BY DEF IInv, Paths

\* Kinds of files and of directories do not meet.
LEMMA Apart2 ==
    ASSUME IInv, NEW p \in Procs, kind[p] \in DirKinds
    PROVE  /\ \A q \in Procs : kind[q] \notin FileKinds
           /\ dest # None /\ dest.of = Foreign => dest.parts # Empty
  <1>1. ASSUME NEW q \in Procs, kind[q] \in FileKinds
        PROVE  FALSE
    <2>1. kind[p] # None /\ kind[q] # None /\ kind[p] \notin FileKinds
      BY <1>1, Apart DEF FileKinds, DirKinds
    <2>2. PathOf(kind[p]) = PathOf(kind[q])
      BY <2>1 DEF IInv, Paths
    <2> QED
      BY <1>1, <2>1, <2>2 DEF PathOf
  <1> QED
    BY <1>1 DEF IInv, Paths

\* What Report and Goto do.
LEMMA Ended ==
    ASSUME TypeOK, NEW p \in Procs, NEW code \in Outcomes, Report(p, code)
    PROVE  /\ pc' \in [Procs -> Labels] /\ result' \in [Procs -> Outcomes \cup {None}]
           /\ pc'[p] = "done" /\ result'[p] = code
           /\ \A q \in Procs \ {p} : pc'[q] = pc[q] /\ result'[q] = result[q]
  BY DEF Report, TypeOK, Labels

LEMMA Went ==
    ASSUME TypeOK, NEW p \in Procs, NEW label \in Labels, Goto(p, label)
    PROVE  /\ pc' \in [Procs -> Labels] /\ result' \in [Procs -> Outcomes \cup {None}]
           /\ pc'[p] = label /\ result'[p] = result[p]
           /\ \A q \in Procs \ {p} : pc'[q] = pc[q] /\ result'[q] = result[q]
  BY DEF Goto, TypeOK, Labels

\* Facts of a command that has begun and not ended.
LEMMA Running ==
    ASSUME IInv, NEW p \in Procs, pc[p] \notin {"start", "done"}
    PROVE  /\ TypeOK /\ Fine(p) /\ result[p] = None
           /\ kind[p] \in Menu /\ kind[p] \in FileKinds \cup DirKinds /\ kind[p] # None
           /\ at[p] \in Parts /\ Last \in Parts /\ 1 \in Parts
           /\ at[p] # Last => at[p] + 1 \in Parts
           /\ None \notin Outcomes
  <1>1. kind[p] \in Menu /\ result[p] = None /\ at[p] \in Parts
    BY DEF IInv, Fine, Stands, TypeOK
  <1>2. Last \in Parts /\ 1 \in Parts /\ (at[p] # Last => at[p] + 1 \in Parts)
    BY <1>1, Bounds DEF Parts
  <1> QED
    BY <1>1, <1>2, Kinds, Apart DEF IInv

----------------------------------------------------------------------------
(* Reading                                                                 *)

LEMMA BeginKeeps ==
    ASSUME IInv, NEW p \in Procs, Begin(p)
    PROVE  IInv'
  <1> DEFINE first(c) == IF c = "acquire" THEN "detect" ELSE "check"
  <1>1. PICK c \in Menu, v \in Versions :
            /\ \A q \in Procs : kind[q] # None => PathOf(kind[q]) = PathOf(c)
            /\ kind' = [kind EXCEPT ![p] = c]
            /\ draft' = [draft EXCEPT ![p] =
                            IF c \in {"export", "backup"} THEN Empty ELSE [k \in Parts |-> v]]
            /\ Goto(p, first(c))
    BY DEF Begin
  <1>2. /\ pc[p] = "start"
        /\ UNCHANGED <<dest, env, at, again, stage, fd, marks, moves, faults>>
    BY DEF Begin
  <1>3. /\ TypeOK /\ Fine(p) /\ first(c) \in Labels
        /\ UNCHANGED <<dest, at, again, stage, fd, touched, stuck, source, moments>>
    BY <1>2 DEF IInv, Labels, marks, env
  <1>4. /\ pc' \in [Procs -> Labels] /\ result' \in [Procs -> Outcomes \cup {None}]
        /\ pc'[p] = first(c) /\ result'[p] = result[p]
        /\ \A q \in Procs \ {p} : pc'[q] = pc[q] /\ result'[q] = result[q]
    <2> HIDE DEF first
    <2> QED
      BY <1>1, <1>3, Went
  <1>5. /\ kind' \in [Procs -> Menu \cup {None}] /\ kind'[p] = c
        /\ \A q \in Procs \ {p} : kind'[q] = kind[q]
    BY <1>1, <1>3 DEF TypeOK
  <1>6. /\ draft' \in [Procs -> Contents]
        /\ c \notin {"export", "backup"} => draft'[p] = [k \in Parts |-> v]
        /\ \A q \in Procs \ {p} : draft'[q] = draft[q]
    <2>1. Empty \in Contents /\ [k \in Parts |-> v] \in Contents
      BY DEF Empty, Contents, Values
    <2> QED
      BY <1>1, <1>3, <2>1 DEF TypeOK
  <1>7. TypeOK'
    BY <1>2, <1>3, <1>4, <1>5, <1>6 DEF TypeOK, Labels
  <1>8. at[p] = 1 /\ result[p] = None /\ stage[p] = None /\ ~Ours(p) /\ c # None
    BY <1>2, <1>3, Kinds, Apart DEF Fine, Stands, Owns
  <1>9. Fine(p)'
    <2>1. Stands(p)'
      BY <1>1, <1>3, <1>4, <1>5, <1>6, <1>8 DEF Stands
    <2>2. Reads(p)'
      BY <1>4 DEF Reads
    <2>3. Owns(p)'
      BY <1>3, <1>4, <1>8 DEF Owns, Ours
    <2> QED
      BY <2>1, <2>2, <2>3 DEF Fine
  <1>10. Paths'
    <2>1. \A q \in Procs : kind'[q] # None => PathOf(kind'[q]) = PathOf(c)
      BY <1>1, <1>5
    <2>2. \A q \in Procs : kind[q] \in FileKinds => kind'[q] \in FileKinds
      <3>1. kind[p] \in FileKinds => PathOf(c) = "file"
        BY <1>1, Apart DEF PathOf
      <3>2. PathOf(c) = "file" => c \in FileKinds
        BY DEF PathOf, DirKinds
      <3> QED
        BY <1>5, <3>1, <3>2
    <2>3. dest' # None /\ dest'.of = Foreign =>
              dest'.parts # Empty \/ \E q \in Procs : kind'[q] \in FileKinds
      BY <1>3, <2>2 DEF IInv, Paths
    <2> QED
      BY <2>1, <2>3 DEF Paths
  <1>11. \A q \in Procs \ {p} : Aside(q) /\ Respects(q)
    BY <1>3, <1>4, <1>5, <1>6, PathStays DEF Aside
  <1> QED
    BY <1>2, <1>7, <1>9, <1>10, <1>11, SourceStays, Assembled

LEMMA CheckKeeps ==
    ASSUME IInv, NEW p \in Procs, Check(p)
    PROVE  IInv'
  <1>1. /\ pc[p] = "check"
        /\ UNCHANGED <<dest, env, kind, at, draft, again, stage, fd, touched, stuck, moves, faults>>
        /\ UNCHANGED <<source, moments>>
    BY DEF Check, local, marks, env
  <1>2. /\ TypeOK /\ Fine(p) /\ result[p] = None /\ kind[p] # None
    BY <1>1, Running
  <1>3. /\ pc' \in [Procs -> Labels] /\ result' \in [Procs -> Outcomes \cup {None}]
        /\ \/ kind[p] \in {"export", "backup"} /\ pc'[p] = "read" /\ result'[p] = None
           \/ kind[p] \notin {"export", "backup"} /\ pc'[p] = "open" /\ result'[p] = None
           \/ pc'[p] = "done" /\ result'[p] \in {"ok", "exists"}
        /\ \A q \in Procs \ {p} : pc'[q] = pc[q] /\ result'[q] = result[q]
    <2>1. "read" \in Labels /\ "open" \in Labels /\ "ok" \in Outcomes /\ "exists" \in Outcomes
      BY DEF Labels, Outcomes
    <2>2. CASE kind[p] = "export" /\ Goto(p, "read")
      BY <1>2, <2>1, <2>2, Went
    <2>3. CASE kind[p] \in {"replace", "exchange"} /\ Goto(p, "open")
      BY <1>2, <2>1, <2>3, Went
    <2>4. CASE kind[p] = "backup" /\ Goto(p, "read")
      BY <1>2, <2>1, <2>4, Went
    <2>5. CASE kind[p] \notin {"export", "replace", "exchange", "backup"} /\ Goto(p, "open")
      BY <1>2, <2>1, <2>5, Went
    <2>6. CASE Report(p, "ok")
      BY <1>2, <2>1, <2>6, Ended
    <2>7. CASE Report(p, "exists")
      BY <1>2, <2>1, <2>7, Ended
    <2> QED
      BY <2>2, <2>3, <2>4, <2>5, <2>6, <2>7 DEF Check, Unlooking
  <1>4. TypeOK'
    BY <1>1, <1>2, <1>3 DEF TypeOK, Labels
  <1>5. at[p] = 1 /\ stage[p] = None /\ ~Ours(p)
    BY <1>1, <1>2 DEF Fine, Stands, Owns
  <1>6. Fine(p)'
    <2>1. Stands(p)'
      BY <1>1, <1>2, <1>3, <1>5 DEF Fine, Stands
    <2>2. Reads(p)'
      BY <1>1, <1>3, <1>5, Bounds DEF Reads, Parts
    <2>3. Owns(p)'
      BY <1>1, <1>3, <1>5 DEF Owns, Ours
    <2> QED
      BY <2>1, <2>2, <2>3 DEF Fine
  <1>7. \A q \in Procs \ {p} : Aside(q) /\ Respects(q)
    BY <1>1, <1>3, PathStays DEF Aside
  <1> QED
    BY <1>1, <1>4, <1>6, <1>7, SourceStays, PathsStay, Assembled

LEMMA DetectKeeps ==
    ASSUME IInv, NEW p \in Procs, Detect(p)
    PROVE  IInv'
  <1>1. /\ pc[p] = "detect"
        /\ UNCHANGED <<dest, env, kind, at, draft, again, stage, fd, touched, stuck, moves, faults>>
        /\ UNCHANGED <<source, moments>>
    BY DEF Detect, local, marks, env
  <1>2. /\ TypeOK /\ Fine(p) /\ result[p] = None /\ kind[p] = "acquire"
        /\ at[p] = 1 /\ stage[p] = None /\ ~Ours(p)
        /\ "check" \in Labels /\ "satisfied" \in Outcomes
    BY <1>1, Running DEF Fine, Stands, Owns, Labels, Outcomes
  <1>3. /\ pc' \in [Procs -> Labels] /\ result' \in [Procs -> Outcomes \cup {None}]
        /\ \/ pc'[p] = "check" /\ result'[p] = None
           \/ pc'[p] = "done" /\ result'[p] = "satisfied"
        /\ \A q \in Procs \ {p} : pc'[q] = pc[q] /\ result'[q] = result[q]
    <2>1. CASE Goto(p, "check")
      BY <1>2, <2>1, Went
    <2>2. CASE Report(p, "satisfied")
      BY <1>2, <2>2, Ended
    <2> QED
      BY <2>1, <2>2 DEF Detect
  <1>4. TypeOK'
    BY <1>1, <1>2, <1>3 DEF TypeOK, Labels
  <1>5. Fine(p)'
    <2>1. Stands(p)'
      BY <1>1, <1>2, <1>3 DEF Fine, Stands
    <2>2. Reads(p)'
      BY <1>1, <1>2, <1>3 DEF Reads
    <2>3. Owns(p)'
      BY <1>1, <1>2, <1>3 DEF Owns, Ours
    <2> QED
      BY <2>1, <2>2, <2>3 DEF Fine
  <1>6. \A q \in Procs \ {p} : Aside(q) /\ Respects(q)
    BY <1>1, <1>3, PathStays DEF Aside
  <1> QED
    BY <1>1, <1>4, <1>5, <1>6, SourceStays, PathsStay, Assembled

LEMMA LookKeeps ==
    ASSUME IInv, NEW p \in Procs, Look(p)
    PROVE  IInv'
  <1>1. /\ pc[p] = "look"
        /\ UNCHANGED <<dest, env, kind, at, draft, again, stage, fd, touched, stuck, moves, faults>>
        /\ UNCHANGED <<source, moments>>
    BY DEF Look, local, marks, env
  <1>2. /\ TypeOK /\ Fine(p) /\ result[p] = None /\ kind[p] = "exchange"
        /\ kind[p] \notin Staged \cup Created \cup Guarded \cup CleansUp /\ kind[p] \in DirKinds
        /\ "write" \in Labels /\ "exists" \in Outcomes
    BY <1>1, Running
       DEF Fine, Stands, Labels, Outcomes, Staged, Created, Guarded, CleansUp, DirKinds
  <1>3. /\ pc' \in [Procs -> Labels] /\ result' \in [Procs -> Outcomes \cup {None}]
        /\ \/ pc'[p] = "write" /\ result'[p] = None
           \/ pc'[p] = "done" /\ result'[p] = "exists"
        /\ \A q \in Procs \ {p} : pc'[q] = pc[q] /\ result'[q] = result[q]
    <2>1. CASE Goto(p, "write")
      BY <1>2, <2>1, Went
    <2>2. CASE Report(p, "exists")
      BY <1>2, <2>2, Ended
    <2> QED
      BY <2>1, <2>2 DEF Look
  <1>4. TypeOK'
    BY <1>1, <1>2, <1>3 DEF TypeOK, Labels
  <1>5. Fine(p)'
    <2>1. Stands(p)'
      BY <1>1, <1>2, <1>3 DEF Fine, Stands
    <2>2. Reads(p)'
      BY <1>1, <1>2, <1>3 DEF Reads
    <2>3. Owns(p)'
      BY <1>1, <1>2, <1>3 DEF Fine, Owns, Ours
    <2> QED
      BY <2>1, <2>2, <2>3 DEF Fine
  <1>6. \A q \in Procs \ {p} : Aside(q) /\ Respects(q)
    BY <1>1, <1>3, PathStays DEF Aside
  <1> QED
    BY <1>1, <1>4, <1>5, <1>6, SourceStays, PathsStay, Assembled

LEMMA FindOpenKeeps ==
    ASSUME IInv, NEW p \in Procs, FindOpen(p)
    PROVE  IInv'
  <1>1. /\ kind[p] = "backup" /\ pc[p] \in {"check", "read", "reread"} /\ Report(p, "workspace_open")
        /\ UNCHANGED <<dest, env, kind, at, draft, again, stage, fd, touched, stuck, moves, faults>>
        /\ UNCHANGED <<source, moments>>
    BY DEF FindOpen, local, marks, env
  <1>2. /\ TypeOK /\ Fine(p) /\ "workspace_open" \in Outcomes
    BY <1>1, Running DEF Outcomes
  <1>3. /\ pc' \in [Procs -> Labels] /\ result' \in [Procs -> Outcomes \cup {None}]
        /\ pc'[p] = "done" /\ result'[p] = "workspace_open"
        /\ \A q \in Procs \ {p} : pc'[q] = pc[q] /\ result'[q] = result[q]
    BY <1>1, <1>2, Ended
  <1>4. TypeOK'
    BY <1>1, <1>2, <1>3 DEF TypeOK, Labels
  <1>5. stage[p] = None /\ ~Ours(p)
    BY <1>1, <1>2 DEF Fine, Stands, Owns
  <1>6. Fine(p)'
    <2>1. Stands(p)'
      BY <1>1, <1>2, <1>3, <1>5 DEF Fine, Stands
    <2>2. Reads(p)'
      BY <1>3 DEF Reads
    <2>3. Owns(p)'
      BY <1>1, <1>3, <1>5 DEF Owns, Ours
    <2> QED
      BY <2>1, <2>2, <2>3 DEF Fine
  <1>7. \A q \in Procs \ {p} : Aside(q) /\ Respects(q)
    BY <1>1, <1>3, PathStays DEF Aside
  <1> QED
    BY <1>1, <1>4, <1>6, <1>7, SourceStays, PathsStay, Assembled

LEMMA ReadPageKeeps ==
    ASSUME IInv, NEW p \in Procs, ReadPage(p)
    PROVE  IInv'
  <1> DEFINE fresh == [draft[p] EXCEPT ![at[p]] = source[at[p]]]
             next == IF at[p] = Last THEN 1 ELSE at[p] + 1
  <1>1. /\ pc[p] = "read" /\ kind[p] = "export"
        /\ draft' = [draft EXCEPT ![p][at[p]] = source[at[p]]]
        /\ UNCHANGED <<dest, env, kind, again, stage, fd, touched, stuck, moves, faults>>
        /\ UNCHANGED <<source, moments>>
    BY DEF ReadPage, marks, env
  <1>2. /\ TypeOK /\ Fine(p) /\ result[p] = None /\ at[p] \in Parts /\ Last \in Parts
        /\ 1 \in Parts /\ (at[p] # Last => at[p] + 1 \in Parts)
    BY <1>1, Running
  <1>3. draft' = [draft EXCEPT ![p] = fresh]
    BY <1>1, <1>2 DEF TypeOK
  <1>4. fresh \in Contents
    BY <1>2 DEF TypeOK, Contents
  <1>5. /\ draft' \in [Procs -> Contents] /\ draft'[p] = fresh
        /\ \A q \in Procs \ {p} : draft'[q] = draft[q]
    <2> HIDE DEF fresh
    <2> QED
      BY <1>2, <1>3, <1>4 DEF TypeOK
  <1>6. \/ Report(p, "desktop_contract_mismatch") /\ UNCHANGED at
        \/ /\ fresh[1] = source[at[p]] /\ at' = [at EXCEPT ![p] = next]
           /\ at[p] = Last => Goto(p, "open")
           /\ at[p] # Last => Goto(p, "read")
    BY <1>5 DEF ReadPage
  <1>7. /\ at' \in [Procs -> Parts]
        /\ \A q \in Procs \ {p} : at'[q] = at[q]
    BY <1>2, <1>6 DEF TypeOK
  <1>8. /\ pc' \in [Procs -> Labels] /\ result' \in [Procs -> Outcomes \cup {None}]
        /\ \/ pc'[p] = "done" /\ result'[p] = "desktop_contract_mismatch"
           \/ /\ result'[p] = None /\ fresh[1] = source[at[p]] /\ at'[p] = next
              /\ pc'[p] = IF at[p] = Last THEN "open" ELSE "read"
        /\ \A q \in Procs \ {p} : pc'[q] = pc[q] /\ result'[q] = result[q]
    <2>1. "read" \in Labels /\ "open" \in Labels /\ "desktop_contract_mismatch" \in Outcomes
      BY DEF Labels, Outcomes
    <2>2. CASE Report(p, "desktop_contract_mismatch")
      BY <1>2, <2>1, <2>2, Ended
    <2>3. CASE fresh[1] = source[at[p]] /\ at' = [at EXCEPT ![p] = next] /\ at[p] = Last /\ Goto(p, "open")
      <3>1. at'[p] = next
        BY <1>2, <2>3 DEF TypeOK
      <3> QED
        BY <1>2, <2>1, <2>3, <3>1, Went
    <2>4. CASE fresh[1] = source[at[p]] /\ at' = [at EXCEPT ![p] = next] /\ at[p] # Last /\ Goto(p, "read")
      <3>1. at'[p] = next
        BY <1>2, <2>4 DEF TypeOK
      <3> QED
        BY <1>2, <2>1, <2>4, <3>1, Went
    <2> QED
      BY <1>6, <2>2, <2>3, <2>4
  <1>9. TypeOK'
    BY <1>1, <1>2, <1>5, <1>7, <1>8 DEF TypeOK, Labels
  <1>10. stage[p] = None /\ ~Ours(p)
    BY <1>1, <1>2 DEF Fine, Stands, Owns
  <1>11. \A k \in Parts : (k < at[p] \/ k = at[p]) /\ fresh[1] = source[at[p]] =>
             fresh[k] = fresh[1] /\ \E m \in moments : m[k] = fresh[k]
    <2> SUFFICES ASSUME NEW k \in Parts, k < at[p] \/ k = at[p], fresh[1] = source[at[p]]
                 PROVE  fresh[k] = fresh[1] /\ \E m \in moments : m[k] = fresh[k]
      OBVIOUS
    <2>1. fresh[at[p]] = source[at[p]] /\ \A j \in Parts \ {at[p]} : fresh[j] = draft[p][j]
      BY <1>2 DEF TypeOK, Contents
    <2>2. CASE k = at[p]
      BY <2>1, <2>2 DEF IInv, Dated
    <2>3. CASE k < at[p]
      <3>1. k # at[p] /\ 1 # at[p]
        BY <1>2, <2>3, Bounds DEF Parts
      <3>2. draft[p][k] = draft[p][1] /\ \E m \in moments : m[k] = draft[p][k]
        BY <1>1, <1>2, <2>3 DEF Fine, Reads
      <3> QED
        BY <1>2, <2>1, <3>1, <3>2
    <2> QED
      BY <2>2, <2>3
  <1>12. ASSUME at[p] = Last, fresh[1] = source[at[p]]
         PROVE  fresh \in moments
    <2>1. \A k \in Parts : fresh[k] = fresh[1] /\ \E m \in moments : m[k] = fresh[k]
      <3>1. \A k \in Parts : k < at[p] \/ k = at[p]
        BY <1>12, Bounds DEF Parts
      <3> QED
        BY <1>11, <1>12, <3>1
    <2>2. source \in moments /\ source \in Contents
      BY <1>2 DEF IInv, Dated, TypeOK
    <2>3. CASE Last = 1
      <3>1. \A k \in Parts : k = 1
        BY <2>3 DEF Parts
      <3>2. \A k \in Parts : fresh[k] = source[k]
        BY <1>12, <2>1, <2>3, <3>1
      <3>3. fresh = source
        <4> HIDE DEF fresh
        <4> QED
          BY <1>4, <2>2, <3>2 DEF Contents
      <3> QED
        BY <2>2, <3>3
    <2>4. CASE Last # 1
      <3>1. PICK m \in moments : m[1] = fresh[1]
        BY <1>2, <2>1
      <3>2. m[1] = source[Last] /\ 1 # Last
        BY <1>12, <2>4, <3>1
      <3>3. Batch(m[1]) \in moments
        BY <1>2, <2>2, <3>1, <3>2 DEF IInv, Dated
      <3>4. fresh = Batch(m[1])
        <4> HIDE DEF fresh
        <4> QED
          BY <1>4, <2>1, <3>1 DEF Contents, Batch
      <3> QED
        BY <3>3, <3>4
    <2> QED
      BY <2>3, <2>4
  <1>13. Fine(p)'
    <2>1. Stands(p)'
      <3>1. pc'[p] = "open" => at'[p] = 1
        BY <1>8
      <3> QED
        BY <1>1, <1>2, <1>8, <1>10, <3>1 DEF Fine, Stands
    <2>2. Reads(p)'
      <3>1. pc'[p] \in {"open", "write", "sync", "finish"} => draft'[p] \in moments'
        BY <1>1, <1>5, <1>8, <1>12
      <3>2. pc'[p] = "read" => \A k \in Parts : k < at'[p] =>
                draft'[p][k] = draft'[p][1] /\ \E m \in moments' : m[k] = draft'[p][k]
        <4> SUFFICES ASSUME pc'[p] = "read", NEW k \in Parts, k < at'[p]
                     PROVE  draft'[p][k] = draft'[p][1] /\ \E m \in moments' : m[k] = draft'[p][k]
          OBVIOUS
        <4>1. at'[p] = at[p] + 1 /\ fresh[1] = source[at[p]]
          BY <1>8
        <4>2. k < at[p] \/ k = at[p]
          BY <1>2, <4>1 DEF Parts
        <4> QED
          BY <1>1, <1>5, <1>11, <4>1, <4>2
      <3>3. pc'[p] # "reread" /\ kind'[p] = "export"
        BY <1>1, <1>8
      <3> QED
        BY <3>1, <3>2, <3>3 DEF Reads
    <2>3. Owns(p)'
      BY <1>1, <1>8, <1>10 DEF Owns, Ours
    <2> QED
      BY <2>1, <2>2, <2>3 DEF Fine
  <1>14. \A q \in Procs \ {p} : Aside(q) /\ Respects(q)
    BY <1>1, <1>5, <1>7, <1>8, PathStays DEF Aside
  <1> QED
    BY <1>1, <1>9, <1>13, <1>14, SourceStays, PathsStay, Assembled

LEMMA ReadMemberKeeps ==
    ASSUME IInv, NEW p \in Procs, ReadMember(p)
    PROVE  IInv'
  <1> DEFINE fresh == [draft[p] EXCEPT ![at[p]] = source[at[p]]]
             next == IF at[p] = Last THEN 1 ELSE at[p] + 1
  <1>1. /\ pc[p] = "read" /\ kind[p] = "backup"
        /\ draft' = [draft EXCEPT ![p][at[p]] = source[at[p]]]
        /\ at' = [at EXCEPT ![p] = next]
        /\ at[p] = Last => Goto(p, "reread")
        /\ at[p] # Last => Goto(p, "read")
        /\ UNCHANGED <<dest, env, kind, again, stage, fd, touched, stuck, moves, faults>>
        /\ UNCHANGED <<source, moments>>
    BY DEF ReadMember, marks, env
  <1>2. /\ TypeOK /\ Fine(p) /\ result[p] = None /\ at[p] \in Parts /\ Last \in Parts
        /\ 1 \in Parts /\ (at[p] # Last => at[p] + 1 \in Parts)
    BY <1>1, Running
  <1>3. draft' = [draft EXCEPT ![p] = fresh]
    BY <1>1, <1>2 DEF TypeOK
  <1>4. fresh \in Contents
    BY <1>2 DEF TypeOK, Contents
  <1>5. /\ draft' \in [Procs -> Contents] /\ draft'[p] = fresh
        /\ \A q \in Procs \ {p} : draft'[q] = draft[q]
    <2> HIDE DEF fresh
    <2> QED
      BY <1>2, <1>3, <1>4 DEF TypeOK
  <1>6. /\ at' \in [Procs -> Parts] /\ at'[p] = next
        /\ \A q \in Procs \ {p} : at'[q] = at[q]
    BY <1>1, <1>2 DEF TypeOK
  <1>7. /\ pc' \in [Procs -> Labels] /\ result' \in [Procs -> Outcomes \cup {None}]
        /\ result'[p] = None /\ pc'[p] = IF at[p] = Last THEN "reread" ELSE "read"
        /\ \A q \in Procs \ {p} : pc'[q] = pc[q] /\ result'[q] = result[q]
    <2>1. "read" \in Labels /\ "reread" \in Labels
      BY DEF Labels
    <2> QED
      BY <1>1, <1>2, <2>1, Went
  <1>8. TypeOK'
    BY <1>1, <1>2, <1>5, <1>6, <1>7 DEF TypeOK, Labels
  <1>9. stage[p] = None /\ ~Ours(p)
    BY <1>1, <1>2 DEF Fine, Stands, Owns
  <1>10. \A k \in Parts : k < at[p] \/ k = at[p] => fresh[k] \in Nat /\ fresh[k] <= source[k]
    <2>1. fresh[at[p]] = source[at[p]] /\ \A j \in Parts \ {at[p]} : fresh[j] = draft[p][j]
      BY <1>2 DEF TypeOK, Contents
    <2>2. \A k \in Parts : k < at[p] => draft[p][k] \in Nat /\ draft[p][k] <= source[k]
      BY <1>1, <1>2 DEF Fine, Reads
    <2>3. \A k \in Parts : source[k] \in Nat
      BY Bounds DEF IInv, Dated, TypeOK
    <2>4. \A k \in Parts : k \in Nat
      BY DEF Parts
    <2> HIDE DEF fresh
    <2> QED
      BY <1>2, <2>1, <2>2, <2>3, <2>4
  <1>11. Fine(p)'
    <2>1. Stands(p)'
      BY <1>1, <1>2, <1>7, <1>9 DEF Fine, Stands
    <2>2. Reads(p)'
      <3>1. pc'[p] = "read" => \A k \in Parts : k < at'[p] =>
                draft'[p][k] \in Nat /\ draft'[p][k] <= source'[k]
        <4> SUFFICES ASSUME pc'[p] = "read", NEW k \in Parts, k < at'[p]
                     PROVE  draft'[p][k] \in Nat /\ draft'[p][k] <= source'[k]
          OBVIOUS
        <4>1. k < at[p] \/ k = at[p]
          BY <1>2, <1>6, <1>7 DEF Parts
        <4> QED
          BY <1>1, <1>5, <1>10, <4>1
      <3>2. pc'[p] = "reread" =>
            \E m \in moments' : \A k \in Parts :
              /\ draft'[p][k] \in Nat /\ draft'[p][k] <= m[k] /\ m[k] <= source'[k]
              /\ k < at'[p] => again'[p][k] \in Nat /\ m[k] <= again'[p][k]
        <4> SUFFICES ASSUME pc'[p] = "reread"
                     PROVE  \A k \in Parts :
              /\ draft'[p][k] \in Nat /\ draft'[p][k] <= source[k] /\ source[k] <= source'[k]
              /\ ~ (k < at'[p])
          BY <1>1 DEF IInv, Dated
        <4>1. at[p] = Last /\ at'[p] = 1
          BY <1>6, <1>7
        <4>2. \A k \in Parts : ~ (k < 1) /\ (k < Last \/ k = Last)
          BY Bounds DEF Parts
        <4>3. \A k \in Parts : source[k] \in Nat /\ source[k] <= source[k]
          BY Bounds DEF IInv, Dated, TypeOK
        <4> QED
          BY <1>1, <1>5, <1>10, <4>1, <4>2, <4>3
      <3>3. pc'[p] \notin {"open", "write", "sync", "finish"} /\ kind'[p] = "backup"
        BY <1>1, <1>7
      <3> QED
        BY <3>1, <3>2, <3>3 DEF Reads
    <2>3. Owns(p)'
      BY <1>1, <1>7, <1>9 DEF Owns, Ours
    <2> QED
      BY <2>1, <2>2, <2>3 DEF Fine
  <1>12. \A q \in Procs \ {p} : Aside(q) /\ Respects(q)
    BY <1>1, <1>5, <1>6, <1>7, PathStays DEF Aside
  <1> QED
    BY <1>1, <1>8, <1>11, <1>12, SourceStays, PathsStay, Assembled

LEMMA RereadMemberKeeps ==
    ASSUME IInv, NEW p \in Procs, RereadMember(p)
    PROVE  IInv'
  <1> DEFINE fresh == [again[p] EXCEPT ![at[p]] = source[at[p]]]
             next == IF at[p] = Last THEN 1 ELSE at[p] + 1
  <1>1. /\ pc[p] = "reread"
        /\ again' = [again EXCEPT ![p][at[p]] = source[at[p]]]
        /\ at' = [at EXCEPT ![p] = next]
        /\ UNCHANGED <<dest, env, kind, draft, stage, fd, touched, stuck, moves, faults>>
        /\ UNCHANGED <<source, moments>>
    BY DEF RereadMember, marks, env
  <1>2. /\ TypeOK /\ Fine(p) /\ result[p] = None /\ at[p] \in Parts /\ Last \in Parts
        /\ 1 \in Parts /\ (at[p] # Last => at[p] + 1 \in Parts) /\ kind[p] = "backup"
    BY <1>1, Running DEF Fine, Stands
  <1>3. again' = [again EXCEPT ![p] = fresh]
    BY <1>1, <1>2 DEF TypeOK
  <1>4. fresh \in Contents
    BY <1>2 DEF TypeOK, Contents
  <1>5. /\ again' \in [Procs -> Contents] /\ again'[p] = fresh
        /\ \A q \in Procs \ {p} : again'[q] = again[q]
    <2> HIDE DEF fresh
    <2> QED
      BY <1>2, <1>3, <1>4 DEF TypeOK
  <1>6. /\ at' \in [Procs -> Parts] /\ at'[p] = next
        /\ \A q \in Procs \ {p} : at'[q] = at[q]
    BY <1>1, <1>2 DEF TypeOK
  <1>7. /\ pc' \in [Procs -> Labels] /\ result' \in [Procs -> Outcomes \cup {None}]
        /\ \/ at[p] # Last /\ pc'[p] = "reread" /\ result'[p] = None
           \/ at[p] = Last /\ pc'[p] = "open" /\ result'[p] = None /\ fresh = draft[p]
           \/ at[p] = Last /\ pc'[p] = "done" /\ result'[p] = "workspace_changed"
        /\ \A q \in Procs \ {p} : pc'[q] = pc[q] /\ result'[q] = result[q]
    <2>1. "open" \in Labels /\ "reread" \in Labels /\ "workspace_changed" \in Outcomes
      BY DEF Labels, Outcomes
    <2>2. at[p] < Last <=> at[p] # Last
      BY <1>2, Bounds DEF Parts
    <2>3. CASE at[p] # Last /\ Goto(p, "reread")
      BY <1>2, <2>1, <2>3, Went
    <2>4. CASE at[p] = Last /\ Goto(p, "open") /\ fresh = draft[p]
      BY <1>2, <2>1, <2>4, Went
    <2>5. CASE at[p] = Last /\ Report(p, "workspace_changed")
      BY <1>2, <2>1, <2>5, Ended
    <2> QED
      BY <1>5, <2>2, <2>3, <2>4, <2>5 DEF RereadMember
  <1>8. TypeOK'
    BY <1>1, <1>2, <1>5, <1>6, <1>7 DEF TypeOK, Labels
  <1>9. stage[p] = None /\ ~Ours(p)
    BY <1>1, <1>2 DEF Fine, Stands, Owns
  <1>10. PICK m \in moments : \A k \in Parts :
              /\ draft[p][k] \in Nat /\ draft[p][k] <= m[k] /\ m[k] <= source[k]
              /\ k < at[p] => again[p][k] \in Nat /\ m[k] <= again[p][k]
    BY <1>1, <1>2 DEF Fine, Reads
  <1>11. \A k \in Parts : k < at[p] \/ k = at[p] => fresh[k] \in Nat /\ m[k] <= fresh[k]
    <2>1. fresh[at[p]] = source[at[p]] /\ \A j \in Parts \ {at[p]} : fresh[j] = again[p][j]
      BY <1>2 DEF TypeOK, Contents
    <2>3. \A k \in Parts : source[k] \in Nat
      BY Bounds DEF IInv, Dated, TypeOK
    <2>4. \A k \in Parts : k \in Nat
      BY DEF Parts
    <2> HIDE DEF fresh
    <2> QED
      BY <1>2, <1>10, <2>1, <2>3, <2>4
  <1>12. ASSUME at[p] = Last, fresh = draft[p]
         PROVE  draft[p] \in moments
    <2>1. \A k \in Parts : k < at[p] \/ k = at[p]
      BY <1>12, Bounds DEF Parts
    <2>2. \A k \in Parts : m[k] \in Nat
      BY Bounds DEF IInv, Dated, TypeOK
    <2>3. \A k \in Parts : draft[p][k] = m[k]
      <3> SUFFICES ASSUME NEW k \in Parts PROVE draft[p][k] = m[k]
        OBVIOUS
      <3>1. draft[p][k] \in Nat /\ draft[p][k] <= m[k]
        BY <1>10
      <3>2. m[k] <= draft[p][k]
        BY <1>11, <1>12, <2>1
      <3> QED
        BY <2>2, <3>1, <3>2
    <2>4. draft[p] = m
      BY <1>2, <2>3 DEF TypeOK, Contents
    <2> QED
      BY <2>4
  <1>13. Fine(p)'
    <2>1. Stands(p)'
      <3>1. pc'[p] = "open" => at'[p] = 1
        BY <1>6, <1>7
      <3> QED
        BY <1>1, <1>2, <1>7, <1>9, <3>1 DEF Fine, Stands
    <2>2. Reads(p)'
      <3>1. pc'[p] \in {"open", "write", "sync", "finish"} => draft'[p] \in moments'
        BY <1>1, <1>7, <1>12
      <3>2. pc'[p] = "reread" =>
            \E n \in moments' : \A k \in Parts :
              /\ draft'[p][k] \in Nat /\ draft'[p][k] <= n[k] /\ n[k] <= source'[k]
              /\ k < at'[p] => again'[p][k] \in Nat /\ n[k] <= again'[p][k]
        <4>1. ASSUME pc'[p] = "reread", NEW k \in Parts, k < at'[p]
              PROVE  again'[p][k] \in Nat /\ m[k] <= again'[p][k]
          <5>1. k < at[p] \/ k = at[p]
            BY <1>2, <1>6, <1>7, <4>1 DEF Parts
          <5> QED
            BY <1>5, <1>11, <5>1
        <4> QED
          BY <1>1, <1>10, <4>1
      <3>3. pc'[p] # "read" /\ kind'[p] = "backup"
        BY <1>1, <1>2, <1>7
      <3> QED
        BY <3>1, <3>2, <3>3 DEF Reads
    <2>3. Owns(p)'
      BY <1>1, <1>2, <1>7, <1>9 DEF Owns, Ours
    <2> QED
      BY <2>1, <2>2, <2>3 DEF Fine
  <1>14. \A q \in Procs \ {p} : Aside(q) /\ Respects(q)
    BY <1>1, <1>5, <1>6, <1>7, PathStays DEF Aside
  <1> QED
    BY <1>1, <1>8, <1>13, <1>14, SourceStays, PathsStay, Assembled

----------------------------------------------------------------------------
(* Creating and writing                                                    *)

LEMMA Made ==
    ASSUME NEW p \in Procs, NEW parts \in Contents
    PROVE  /\ Output(p, parts) \in Things /\ Output(p, parts) # None
           /\ Output(p, parts).of = p /\ Output(p, parts).parts = parts
           /\ Output(p, parts).done = FALSE
  <1>1. Output(p, parts) \in Things
    BY DEF Output, Things
  <1>2. Output(p, parts) # None
    BY <1>1, Apart
  <1> QED
    BY <1>1, <1>2 DEF Output

LEMMA Changed ==
    ASSUME dest \in Things, NEW parts \in Contents
    PROVE  /\ [dest EXCEPT !.parts = parts] \in Things /\ [dest EXCEPT !.parts = parts] # None
           /\ [dest EXCEPT !.parts = parts].of = dest.of
           /\ [dest EXCEPT !.parts = parts].parts = parts
           /\ [dest EXCEPT !.parts = parts].done = dest.done
  <1>1. [dest EXCEPT !.parts = parts] \in Things
    BY DEF Things
  <1>2. [dest EXCEPT !.parts = parts] # None
    BY <1>1, Apart
  <1> QED
    BY <1>1, <1>2 DEF Things

LEMMA CreateKeeps ==
    ASSUME IInv, NEW p \in Procs, Create(p)
    PROVE  IInv'
  <1>1. /\ pc[p] = "open" /\ kind[p] \in Created
        /\ UNCHANGED <<env, kind, at, draft, again, stage, touched, stuck, moves, faults>>
        /\ UNCHANGED <<source, moments>>
    BY DEF Create, marks, env
  <1>2. /\ TypeOK /\ Fine(p) /\ result[p] = None
        /\ at[p] = 1 /\ stage[p] = None /\ ~Ours(p)
        /\ "write" \in Labels /\ "exists" \in Outcomes /\ "failed" \in Outcomes
    BY <1>1, Running DEF Fine, Stands, Owns, Labels, Outcomes
  <1>3. CASE /\ dest # None /\ (Report(p, "exists") \/ Report(p, "failed"))
             /\ UNCHANGED <<dest, fd>>
    <2>1. /\ pc' \in [Procs -> Labels] /\ result' \in [Procs -> Outcomes \cup {None}]
          /\ pc'[p] = "done" /\ result'[p] \in {"exists", "failed"}
          /\ \A q \in Procs \ {p} : pc'[q] = pc[q] /\ result'[q] = result[q]
      <3>1. CASE Report(p, "exists")
        BY <1>2, <3>1, Ended
      <3>2. CASE Report(p, "failed")
        BY <1>2, <3>2, Ended
      <3> QED
        BY <1>3, <3>1, <3>2
    <2>2. TypeOK'
      BY <1>1, <1>2, <1>3, <2>1 DEF TypeOK, Labels
    <2>3. Fine(p)'
      <3>1. Stands(p)'
        BY <1>1, <1>2, <2>1 DEF Fine, Stands
      <3>2. Reads(p)'
        BY <2>1 DEF Reads
      <3>3. Owns(p)'
        BY <1>1, <1>2, <1>3, <2>1 DEF Owns, Ours
      <3> QED
        BY <3>1, <3>2, <3>3 DEF Fine
    <2>4. \A q \in Procs \ {p} : Aside(q) /\ Respects(q)
      BY <1>1, <1>3, <2>1, PathStays DEF Aside
    <2> QED
      BY <1>1, <1>3, <2>2, <2>3, <2>4, SourceStays, PathsStay, Assembled
  <1>4. CASE dest = None /\ dest' = Output(p, Empty) /\ fd' = [fd EXCEPT ![p] = p] /\ Goto(p, "write")
    <2>1. /\ pc' \in [Procs -> Labels] /\ result' \in [Procs -> Outcomes \cup {None}]
          /\ pc'[p] = "write" /\ result'[p] = None
          /\ \A q \in Procs \ {p} : pc'[q] = pc[q] /\ result'[q] = result[q]
      BY <1>2, <1>4, Went
    <2>2. /\ dest' \in Things /\ dest' # None
          /\ dest'.of = p /\ dest'.parts = Empty /\ dest'.done = FALSE
      <3>1. Empty \in Contents
        BY DEF Empty, Contents, Values
      <3> QED
        BY <1>4, <3>1, Made
    <2>3. /\ fd' \in [Procs -> Procs \cup {Foreign, None}] /\ fd'[p] = p
          /\ \A q \in Procs \ {p} : fd'[q] = fd[q]
      BY <1>2, <1>4 DEF TypeOK
    <2>4. TypeOK'
      BY <1>1, <1>2, <2>1, <2>2, <2>3 DEF TypeOK, Labels
    <2>5. Fine(p)'
      <3>1. Stands(p)'
        BY <1>1, <1>2, <2>1 DEF Fine, Stands, Created, Staged
      <3>2. Reads(p)'
        BY <1>1, <1>2, <2>1 DEF Fine, Reads
      <3>3. Owns(p)'
        BY <1>1, <1>2, <2>1, <2>2, <2>3, Bounds DEF Owns, Ours, Parts, Created, Staged, DirKinds
      <3> QED
        BY <3>1, <3>2, <3>3 DEF Fine
    <2>6. \A q \in Procs \ {p} : Aside(q) /\ Respects(q)
      BY <1>1, <1>4, <2>1, <2>2, <2>3 DEF Aside, Respects, Ours
    <2>7. Paths'
      BY <1>1, <2>2, Apart, PathsStay
    <2> QED
      BY <1>1, <2>4, <2>5, <2>6, <2>7, SourceStays, Assembled
  <1> QED
    BY <1>3, <1>4 DEF Create

LEMMA StageKeeps ==
    ASSUME IInv, NEW p \in Procs, Stage(p)
    PROVE  IInv'
  <1>1. /\ pc[p] = "open" /\ kind[p] \in Staged /\ Goto(p, "write")
        /\ stage' = [stage EXCEPT ![p] = Empty]
        /\ UNCHANGED <<dest, env, kind, at, draft, again, fd, touched, stuck, moves, faults>>
        /\ UNCHANGED <<source, moments>>
    BY DEF Stage, marks, env
  <1>2. /\ TypeOK /\ Fine(p) /\ result[p] = None
        /\ at[p] = 1 /\ ~Ours(p)
        /\ "write" \in Labels /\ Empty \in Contents /\ Empty # None
    <2>1. Empty \in Contents
      BY DEF Empty, Contents, Values
    <2> QED
      BY <1>1, <2>1, Running, Apart DEF Fine, Stands, Owns, Labels
  <1>3. /\ pc' \in [Procs -> Labels] /\ result' \in [Procs -> Outcomes \cup {None}]
        /\ pc'[p] = "write" /\ result'[p] = None
        /\ \A q \in Procs \ {p} : pc'[q] = pc[q] /\ result'[q] = result[q]
    BY <1>1, <1>2, Went
  <1>4. /\ stage' \in [Procs -> Contents \cup {None}] /\ stage'[p] = Empty
        /\ \A q \in Procs \ {p} : stage'[q] = stage[q]
    BY <1>1, <1>2 DEF TypeOK
  <1>5. TypeOK'
    BY <1>1, <1>2, <1>3, <1>4 DEF TypeOK, Labels
  <1>6. Fine(p)'
    <2>1. Stands(p)'
      BY <1>1, <1>2, <1>3, <1>4, Bounds DEF Fine, Stands, Parts
    <2>2. Reads(p)'
      BY <1>1, <1>3, Apart DEF Reads, Staged
    <2>3. Owns(p)'
      BY <1>1, <1>2, <1>3 DEF Owns, Ours, Created, Staged
    <2> QED
      BY <2>1, <2>2, <2>3 DEF Fine
  <1>7. \A q \in Procs \ {p} : Aside(q) /\ Respects(q)
    BY <1>1, <1>3, <1>4, PathStays DEF Aside
  <1> QED
    BY <1>1, <1>5, <1>6, <1>7, SourceStays, PathsStay, Assembled

LEMMA TruncateKeeps ==
    ASSUME IInv, NEW p \in Procs, Truncate(p)
    PROVE  IInv'
  <1>1. /\ pc[p] = "open" /\ kind[p] \in Plain /\ Goto(p, "write")
        /\ dest' = IF dest = None THEN Output(p, Empty) ELSE [dest EXCEPT !.parts = Empty]
        /\ fd' = [fd EXCEPT ![p] = dest'.of] /\ touched' = touched \cup Spoils(p)
        /\ UNCHANGED <<env, kind, at, draft, again, stage, stuck, moves, faults>>
        /\ UNCHANGED <<source, moments>>
    BY DEF Truncate, env
  <1>2. /\ TypeOK /\ Fine(p) /\ result[p] = None
        /\ at[p] = 1 /\ stage[p] = None /\ ~Ours(p)
        /\ "write" \in Labels /\ Empty \in Contents /\ kind[p] \in FileKinds
    <2>1. Empty \in Contents
      BY DEF Empty, Contents, Values
    <2> QED
      BY <1>1, <2>1, Running DEF Fine, Stands, Owns, Labels, Plain, FileKinds
  <1>3. /\ pc' \in [Procs -> Labels] /\ result' \in [Procs -> Outcomes \cup {None}]
        /\ pc'[p] = "write" /\ result'[p] = None
        /\ \A q \in Procs \ {p} : pc'[q] = pc[q] /\ result'[q] = result[q]
    BY <1>1, <1>2, Went
  <1>4. /\ dest' \in Things /\ dest' # None
        /\ dest = None => dest'.of = p /\ dest'.done = FALSE
        /\ dest # None => dest'.of = dest.of /\ dest'.done = dest.done
    <2>1. CASE dest = None
      BY <1>1, <1>2, <2>1, Made
    <2>2. CASE dest # None
      <3>1. dest \in Things
        BY <1>2, <2>2 DEF TypeOK
      <3> QED
        BY <1>1, <1>2, <2>2, <3>1, Changed
    <2> QED
      BY <2>1, <2>2
  <1>5. /\ fd' \in [Procs -> Procs \cup {Foreign, None}]
        /\ \A q \in Procs \ {p} : fd'[q] = fd[q]
    BY <1>1, <1>2, <1>4 DEF TypeOK, Things
  <1>6. touched' \subseteq Procs
    BY <1>1, <1>2 DEF TypeOK, Spoils
  <1>7. TypeOK'
    BY <1>1, <1>2, <1>3, <1>4, <1>5, <1>6 DEF TypeOK, Labels
  <1>8. Fine(p)'
    <2>1. Stands(p)'
      BY <1>1, <1>2, <1>3 DEF Fine, Stands, Plain, Staged
    <2>2. Reads(p)'
      BY <1>1, <1>3 DEF Reads, Plain
    <2>3. Owns(p)'
      BY <1>1, <1>2, <1>3, <1>4 DEF Owns, Ours, Created, Staged, Plain, Guarded, DirKinds
    <2> QED
      BY <2>1, <2>2, <2>3 DEF Fine
  <1>9. ASSUME NEW q \in Procs \ {p}
        PROVE  Aside(q) /\ Respects(q)
    <2>1. Aside(q)
      BY <1>1, <1>3 DEF Aside
    <2>2. kind[q] \notin DirKinds
      BY <1>2, Apart2
    <2>3. Ours(q)' => Ours(q) /\ dest'.done = dest.done
      BY <1>4 DEF Ours
    <2>4. Ours(q) => q \in touched'
      BY <1>1 DEF Ours, Spoils
    <2> QED
      BY <1>1, <1>5, <2>1, <2>2, <2>3, <2>4 DEF Respects
  <1>10. Paths'
    BY <1>1, <1>2 DEF IInv, Paths
  <1> QED
    BY <1>1, <1>7, <1>8, <1>9, <1>10, SourceStays, Assembled

LEMMA MakeDirectoryKeeps ==
    ASSUME IInv, NEW p \in Procs, MakeDirectory(p)
    PROVE  IInv'
  <1> DEFINE next == IF kind[p] = "exchange" THEN "look" ELSE "write"
  <1>1. /\ pc[p] = "open" /\ kind[p] \in InPlace /\ Goto(p, next)
        /\ dest' = IF dest = None THEN Output(p, Empty) ELSE dest
        /\ UNCHANGED <<env, kind, at, draft, again, stage, fd, touched, stuck, moves, faults>>
        /\ UNCHANGED <<source, moments>>
    BY DEF MakeDirectory, env, local, marks
  <1>2. /\ TypeOK /\ Fine(p) /\ result[p] = None
        /\ at[p] = 1 /\ stage[p] = None /\ ~Ours(p)
        /\ next \in Labels /\ Empty \in Contents
    <2>1. Empty \in Contents
      BY DEF Empty, Contents, Values
    <2> QED
      BY <1>1, <2>1, Running DEF Fine, Stands, Owns, Labels
  <1>3. /\ pc' \in [Procs -> Labels] /\ result' \in [Procs -> Outcomes \cup {None}]
        /\ pc'[p] = next /\ result'[p] = None
        /\ \A q \in Procs \ {p} : pc'[q] = pc[q] /\ result'[q] = result[q]
    <2> HIDE DEF next
    <2> QED
      BY <1>1, <1>2, Went
  <1>4. /\ dest' \in Things /\ dest' # None
        /\ dest = None => dest'.of = p /\ dest'.done = FALSE
    <2>1. CASE dest = None
      BY <1>1, <1>2, <2>1, Made
    <2>2. CASE dest # None
      BY <1>1, <1>2, <2>2 DEF TypeOK
    <2> QED
      BY <2>1, <2>2
  <1>5. TypeOK'
    BY <1>1, <1>2, <1>3, <1>4 DEF TypeOK, Labels
  <1>6. Fine(p)'
    <2>1. Stands(p)'
      BY <1>1, <1>2, <1>3 DEF Fine, Stands, Staged, InPlace
    <2>2. Reads(p)'
      BY <1>1, <1>3 DEF Reads, InPlace
    <2>3. Owns(p)'
      BY <1>1, <1>2, <1>3, <1>4 DEF Owns, Ours, Created, Staged, InPlace, DirKinds
    <2> QED
      BY <2>1, <2>2, <2>3 DEF Fine
  <1>7. \A q \in Procs \ {p} : Aside(q) /\ Respects(q)
    BY <1>1, <1>3, <1>4 DEF Aside, Respects, Ours
  <1>8. Paths'
    BY <1>1, <1>4, Apart, PathsStay
  <1> QED
    BY <1>1, <1>5, <1>6, <1>7, <1>8, SourceStays, Assembled

LEMMA SynchronizeKeeps ==
    ASSUME IInv, NEW p \in Procs, Synchronize(p)
    PROVE  IInv'
  <1>1. /\ pc[p] = "sync"
        /\ Goto(p, IF kind[p] \in Staged THEN "publish" ELSE "finish")
        /\ UNCHANGED <<dest, env, kind, at, draft, again, stage, fd, touched, stuck, moves, faults>>
        /\ UNCHANGED <<source, moments>>
    BY DEF Synchronize, env, local, marks
  <1>2. /\ TypeOK /\ Fine(p) /\ result[p] = None
        /\ "publish" \in Labels /\ "finish" \in Labels
    BY <1>1, Running DEF Labels
  <1>3. /\ pc' \in [Procs -> Labels] /\ result' \in [Procs -> Outcomes \cup {None}]
        /\ pc'[p] = IF kind[p] \in Staged THEN "publish" ELSE "finish"
        /\ result'[p] = None
        /\ \A q \in Procs \ {p} : pc'[q] = pc[q] /\ result'[q] = result[q]
    BY <1>1, <1>2, Went
  <1>4. TypeOK'
    BY <1>1, <1>2, <1>3 DEF TypeOK, Labels
  <1>5. Fine(p)'
    <2>1. Stands(p)'
      BY <1>1, <1>2, <1>3 DEF Fine, Stands
    <2>2. Reads(p)'
      BY <1>1, <1>2, <1>3 DEF Fine, Reads
    <2>3. Owns(p)'
      BY <1>1, <1>2, <1>3 DEF Fine, Stands, Owns, Ours, Created, Staged, DirKinds
    <2> QED
      BY <2>1, <2>2, <2>3 DEF Fine
  <1>6. \A q \in Procs \ {p} : Aside(q) /\ Respects(q)
    BY <1>1, <1>3, PathStays DEF Aside
  <1> QED
    BY <1>1, <1>4, <1>5, <1>6, SourceStays, PathsStay, Assembled

LEMMA Parted ==
    ASSUME IInv, NEW p \in Procs, pc[p] = "write", NextPart(p)
    PROVE  /\ at' \in [Procs -> Parts] /\ at'[p] = IF at[p] = Last THEN 1 ELSE at[p] + 1
           /\ pc' \in [Procs -> Labels] /\ result' \in [Procs -> Outcomes \cup {None}]
           /\ result'[p] = None
           /\ pc'[p] = IF at[p] = Last
                       THEN (IF kind[p] \in Plain \cup InPlace THEN "finish" ELSE "sync")
                       ELSE (IF kind[p] = "exchange" THEN "look" ELSE "write")
           /\ \A q \in Procs \ {p} :
                 at'[q] = at[q] /\ pc'[q] = pc[q] /\ result'[q] = result[q]
           /\ \A k \in Parts : k < at'[p] => k < at[p] \/ k = at[p]
           /\ at[p] = Last => \A k \in Parts : k < at[p] \/ k = at[p]
  <1>1. /\ TypeOK /\ result[p] = None /\ at[p] \in Parts /\ 1 \in Parts
        /\ at[p] # Last => at[p] + 1 \in Parts
    BY Running
  <1>2. /\ at' \in [Procs -> Parts] /\ at'[p] = IF at[p] = Last THEN 1 ELSE at[p] + 1
        /\ \A q \in Procs \ {p} : at'[q] = at[q]
    BY <1>1 DEF NextPart, TypeOK
  <1>3. /\ AfterPart(p) \in Labels
        /\ AfterPart(p) = IF at[p] = Last
                          THEN (IF kind[p] \in Plain \cup InPlace THEN "finish" ELSE "sync")
                          ELSE (IF kind[p] = "exchange" THEN "look" ELSE "write")
    <2>1. at[p] < Last <=> at[p] # Last
      BY <1>1, Bounds DEF Parts
    <2> QED
      BY <2>1 DEF AfterPart, Labels
  <1>4. Goto(p, AfterPart(p))
    BY DEF NextPart
  <1>5. /\ \A k \in Parts : k < at'[p] => k < at[p] \/ k = at[p]
        /\ at[p] = Last => \A k \in Parts : k < at[p] \/ k = at[p]
    BY <1>1, <1>2, Bounds DEF Parts
  <1> QED
    BY <1>1, <1>2, <1>3, <1>4, <1>5, Went

LEMMA WriteStageKeeps ==
    ASSUME IInv, NEW p \in Procs, WriteStage(p)
    PROVE  IInv'
  <1> DEFINE fresh == [stage[p] EXCEPT ![at[p]] = draft[p][at[p]]]
  <1>1. /\ pc[p] = "write" /\ kind[p] \in Staged /\ NextPart(p)
        /\ stage' = [stage EXCEPT ![p][at[p]] = draft[p][at[p]]]
        /\ UNCHANGED <<dest, env, kind, draft, again, fd, touched, stuck, moves, faults>>
        /\ UNCHANGED <<source, moments>>
    BY DEF WriteStage, marks, env
  <1>2. /\ TypeOK /\ Fine(p) /\ result[p] = None /\ at[p] \in Parts
        /\ stage[p] # None /\ ~Ours(p)
        /\ kind[p] \notin Plain \cup InPlace /\ kind[p] # "exchange"
        /\ kind[p] \notin {"export", "backup"} /\ kind[p] \notin Created
    BY <1>1, Running DEF Fine, Stands, Owns, Staged, Created, Plain, InPlace
  <1>3. /\ at' \in [Procs -> Parts] /\ at'[p] = IF at[p] = Last THEN 1 ELSE at[p] + 1
        /\ pc' \in [Procs -> Labels] /\ result' \in [Procs -> Outcomes \cup {None}]
        /\ result'[p] = None
        /\ pc'[p] = IF at[p] = Last THEN "sync" ELSE "write"
        /\ \A q \in Procs \ {p} :
              at'[q] = at[q] /\ pc'[q] = pc[q] /\ result'[q] = result[q]
        /\ \A k \in Parts : k < at'[p] => k < at[p] \/ k = at[p]
        /\ at[p] = Last => \A k \in Parts : k < at[p] \/ k = at[p]
    BY <1>1, <1>2, Parted
  <1>4. stage[p] \in Contents /\ draft[p] \in Contents
    BY <1>2 DEF TypeOK
  <1>5. fresh \in Contents /\ fresh # None
    <2>1. fresh \in Contents
      BY <1>2, <1>4 DEF Contents
    <2> QED
      BY <2>1, Apart
  <1>6. /\ stage' \in [Procs -> Contents \cup {None}] /\ stage'[p] = fresh
        /\ \A q \in Procs \ {p} : stage'[q] = stage[q]
    <2>1. stage' = [stage EXCEPT ![p] = fresh]
      BY <1>1, <1>2 DEF TypeOK
    <2> HIDE DEF fresh
    <2> QED
      BY <1>2, <1>5, <2>1 DEF TypeOK
  <1>7. \A k \in Parts : k < at[p] \/ k = at[p] => fresh[k] = draft[p][k]
    <2>1. \A k \in Parts : k < at[p] => stage[p][k] = draft[p][k]
      BY <1>1, <1>2 DEF Fine, Stands
    <2> QED
      BY <1>2, <1>4, <2>1 DEF Contents
  <1>8. at[p] = Last => fresh = draft[p]
    <2> HIDE DEF fresh
    <2> QED
      BY <1>3, <1>4, <1>5, <1>7 DEF Contents
  <1>9. TypeOK'
    BY <1>1, <1>2, <1>3, <1>6 DEF TypeOK, Labels
  <1>10. Fine(p)'
    <2>1. Stands(p)'
      <3>1. pc'[p] = "write" => \A k \in Parts : k < at'[p] => stage'[p][k] = draft'[p][k]
        BY <1>1, <1>3, <1>6, <1>7
      <3>2. pc'[p] = "sync" => stage'[p] = draft'[p] /\ at'[p] = 1
        BY <1>1, <1>3, <1>6, <1>8
      <3>3. stage'[p] # None
        BY <1>5, <1>6
      <3> HIDE DEF fresh
      <3> QED
        BY <1>1, <1>2, <1>3, <3>1, <3>2, <3>3 DEF Fine, Stands
    <2>2. Reads(p)'
      BY <1>1, <1>2, <1>3 DEF Reads
    <2>3. Owns(p)'
      BY <1>1, <1>2, <1>3 DEF Owns, Ours
    <2> QED
      BY <2>1, <2>2, <2>3 DEF Fine
  <1>11. \A q \in Procs \ {p} : Aside(q) /\ Respects(q)
    BY <1>1, <1>3, <1>6, PathStays DEF Aside
  <1> QED
    BY <1>1, <1>9, <1>10, <1>11, SourceStays, PathsStay, Assembled

LEMMA WriteFileKeeps ==
    ASSUME IInv, NEW p \in Procs, WriteFile(p)
    PROVE  IInv'
  <1> DEFINE fresh == [dest.parts EXCEPT ![at[p]] = draft[p][at[p]]]
  <1>1. /\ pc[p] = "write" /\ kind[p] \in Created \cup Plain /\ NextPart(p)
        /\ dest' = IF dest # None /\ dest.of = fd[p] THEN Written(p) ELSE dest
        /\ touched' = IF dest' # dest THEN touched \cup Spoils(p) ELSE touched
        /\ UNCHANGED <<env, kind, draft, again, stage, fd, stuck, moves, faults>>
        /\ UNCHANGED <<source, moments>>
    BY DEF WriteFile, env
  <1>2. /\ TypeOK /\ Fine(p) /\ result[p] = None /\ at[p] \in Parts
        /\ kind[p] \notin InPlace /\ kind[p] \notin Staged /\ kind[p] \in FileKinds
        /\ kind[p] # "exchange" /\ (kind[p] \in Plain => kind[p] \notin Created)
        /\ kind[p] \notin DirKinds /\ stage[p] = None /\ (Ours(p) => ~dest.done)
    BY <1>1, Running
       DEF Fine, Stands, Owns, Staged, Created, Plain, InPlace, FileKinds, DirKinds
  <1>3. /\ at' \in [Procs -> Parts] /\ at'[p] = IF at[p] = Last THEN 1 ELSE at[p] + 1
        /\ pc' \in [Procs -> Labels] /\ result' \in [Procs -> Outcomes \cup {None}]
        /\ result'[p] = None
        /\ pc'[p] = IF at[p] = Last THEN (IF kind[p] \in Plain THEN "finish" ELSE "sync")
                    ELSE "write"
        /\ \A q \in Procs \ {p} :
              at'[q] = at[q] /\ pc'[q] = pc[q] /\ result'[q] = result[q]
        /\ \A k \in Parts : k < at'[p] => k < at[p] \/ k = at[p]
        /\ at[p] = Last => \A k \in Parts : k < at[p] \/ k = at[p]
    BY <1>1, <1>2, Parted
  <1>4. draft[p] \in Contents /\ (dest # None => dest \in Things /\ dest.parts \in Contents)
    BY <1>2 DEF TypeOK, Things
  <1>5. dest # None => fresh \in Contents
    BY <1>2, <1>4 DEF Contents
  <1>6. /\ dest = None => dest' = None
        /\ dest # None => /\ dest' \in Things /\ dest' # None
                          /\ dest'.of = dest.of /\ dest'.done = dest.done
                          /\ dest.of = fd[p] => dest'.parts = fresh
                          /\ dest.of # fd[p] => dest' = dest
    <2>1. CASE dest # None /\ dest.of = fd[p]
      <3>1. Written(p) = [dest EXCEPT !.parts = fresh]
        BY <1>4, <2>1 DEF Written, Things
      <3> HIDE DEF fresh
      <3> QED
        BY <1>1, <1>4, <1>5, <2>1, <3>1, Changed
    <2>2. CASE ~ (dest # None /\ dest.of = fd[p])
      BY <1>1, <1>4, <2>2
    <2> QED
      BY <2>1, <2>2
  <1>7. /\ touched' \subseteq Procs /\ touched \subseteq touched'
        /\ dest' # dest => touched' = touched \cup Spoils(p)
    BY <1>1, <1>2 DEF TypeOK, Spoils
  <1>8. TypeOK'
    <2>1. dest' \in Things \cup {None}
      BY <1>6
    <2> HIDE DEF fresh
    <2> QED
      BY <1>1, <1>2, <1>3, <1>7, <2>1 DEF TypeOK, Labels
  <1>9. (Ours(p)' <=> Ours(p)) /\ (Ours(p)' => ~dest'.done)
    BY <1>2, <1>6 DEF Ours
  <1>10. ASSUME kind[p] \in Created, p \notin touched'
         PROVE  /\ fd[p] = p /\ Ours(p)
                /\ \A k \in Parts : k < at[p] \/ k = at[p] => dest'.parts[k] = draft[p][k]
                /\ at[p] = Last => dest'.parts = draft[p]
    <2>1. p \notin touched
      BY <1>7, <1>10
    <2>2. Ours(p) /\ fd[p] = p /\ \A k \in Parts : k < at[p] => dest.parts[k] = draft[p][k]
      BY <1>1, <1>2, <1>10, <2>1 DEF Fine, Owns
    <2>3. dest'.parts = fresh /\ fresh \in Contents /\ dest.parts \in Contents
      BY <1>4, <1>5, <1>6, <2>2 DEF Ours
    <2>4. \A k \in Parts : k < at[p] \/ k = at[p] => fresh[k] = draft[p][k]
      BY <1>2, <2>2, <2>3 DEF Contents
    <2>5. at[p] = Last => fresh = draft[p]
      <3> HIDE DEF fresh
      <3> QED
        BY <1>3, <1>4, <2>3, <2>4 DEF Contents
    <2> QED
      BY <2>2, <2>3, <2>4, <2>5
  <1>11. Fine(p)'
    <2>1. Stands(p)'
      BY <1>1, <1>2, <1>3 DEF Fine, Stands
    <2>2. Reads(p)'
      BY <1>1, <1>2, <1>3 DEF Fine, Reads
    <2>3. kind[p] \in Created => Ours(p)' \/ p \in touched'
      BY <1>1, <1>2, <1>7, <1>9 DEF Fine, Owns
    <2>4. kind[p] \in Created => fd'[p] \in {p, None}
      BY <1>1, <1>2 DEF Fine, Owns
    <2>5. kind[p] \in Created /\ p \notin touched' =>
            /\ pc'[p] = "write" =>
                  fd'[p] = p /\ \A k \in Parts : k < at'[p] => dest'.parts[k] = draft'[p][k]
            /\ pc'[p] \in {"sync", "finish"} => dest'.parts = draft'[p]
      <3> HIDE DEF fresh
      <3> QED
        BY <1>1, <1>3, <1>10
    <2>6. Owns(p)'
      <3> HIDE DEF fresh
      <3> QED
        BY <1>1, <1>2, <1>3, <1>9, <2>3, <2>4, <2>5 DEF Owns
    <2> QED
      BY <2>1, <2>2, <2>6 DEF Fine
  <1>12. ASSUME NEW q \in Procs \ {p}
         PROVE  Aside(q) /\ Respects(q)
    <2>1. Aside(q)
      BY <1>1, <1>3 DEF Aside
    <2>2. kind[q] \notin DirKinds
      BY <1>2, Apart2
    <2>3. Ours(q)' => Ours(q) /\ dest'.done = dest.done
      BY <1>6 DEF Ours
    <2>4. Ours(q) /\ dest' # dest => q \in touched'
      BY <1>7 DEF Ours, Spoils
    <2> QED
      BY <1>1, <1>7, <2>1, <2>2, <2>3, <2>4 DEF Respects
  <1>13. Paths'
    BY <1>1, <1>2 DEF IInv, Paths
  <1> QED
    BY <1>1, <1>8, <1>11, <1>12, <1>13, SourceStays, Assembled

LEMMA WriteMemberKeeps ==
    ASSUME IInv, NEW p \in Procs, WriteMember(p)
    PROVE  IInv'
  <1>1. /\ pc[p] = "write" /\ kind[p] \in InPlace
        /\ UNCHANGED <<env, kind, draft, again, stage, fd, stuck, moves, faults>>
        /\ UNCHANGED <<source, moments>>
    BY DEF WriteMember, env
  <1>2. /\ TypeOK /\ Fine(p) /\ result[p] = None /\ at[p] \in Parts
        /\ kind[p] \notin Staged \cup Created \cup Guarded \cup FileKinds /\ kind[p] \in DirKinds
        /\ kind[p] \notin {"export", "backup", "acquire"} /\ kind[p] # None
        /\ stage[p] = None /\ (Ours(p) => ~dest.done) /\ "discard" \in Labels
    BY <1>1, Running
       DEF Fine, Stands, Owns, Staged, Created, Guarded, InPlace, FileKinds, DirKinds, Labels
  <1>3. CASE dest = None /\ at[p] = Last /\ Goto(p, "discard") /\ UNCHANGED <<dest, at, touched>>
    <2>1. /\ pc' \in [Procs -> Labels] /\ result' \in [Procs -> Outcomes \cup {None}]
          /\ pc'[p] = "discard" /\ result'[p] = None
          /\ \A q \in Procs \ {p} : pc'[q] = pc[q] /\ result'[q] = result[q]
      BY <1>2, <1>3, Went
    <2>2. TypeOK'
      BY <1>1, <1>2, <1>3, <2>1 DEF TypeOK, Labels
    <2>3. Fine(p)'
      <3>1. Stands(p)'
        BY <1>1, <1>2, <2>1 DEF Fine, Stands
      <3>2. Reads(p)'
        BY <1>1, <1>2, <2>1 DEF Reads
      <3>3. Owns(p)'
        BY <1>1, <1>2, <1>3, <2>1 DEF Owns, Ours
      <3> QED
        BY <3>1, <3>2, <3>3 DEF Fine
    <2>4. \A q \in Procs \ {p} : Aside(q) /\ Respects(q)
      BY <1>1, <1>3, <2>1, PathStays DEF Aside
    <2> QED
      BY <1>1, <1>3, <2>2, <2>3, <2>4, SourceStays, PathsStay, Assembled
  <1>4. CASE /\ dest # None \/ at[p] < Last
             /\ dest' = IF dest = None
                        THEN Output(p, [Empty EXCEPT ![at[p]] = draft[p][at[p]]])
                        ELSE Written(p)
             /\ touched' = touched \cup Spoils(p)
             /\ NextPart(p)
    <2>1. /\ at' \in [Procs -> Parts] /\ at'[p] = IF at[p] = Last THEN 1 ELSE at[p] + 1
          /\ pc' \in [Procs -> Labels] /\ result' \in [Procs -> Outcomes \cup {None}]
          /\ result'[p] = None
          /\ pc'[p] = IF at[p] = Last THEN "finish"
                      ELSE IF kind[p] = "exchange" THEN "look" ELSE "write"
          /\ \A q \in Procs \ {p} :
                at'[q] = at[q] /\ pc'[q] = pc[q] /\ result'[q] = result[q]
      BY <1>1, <1>4, Parted
    <2>2. draft[p] \in Contents /\ draft[p][at[p]] # None
      <3>1. draft[p][at[p]] \in Versions
        BY <1>1, <1>2, Apart DEF Fine, Stands
      <3> QED
        BY <1>2, <3>1, Bounds, Apart DEF TypeOK
    <2>3. /\ dest' \in Things /\ dest' # None /\ dest'.parts # Empty
          /\ dest = None => dest'.of = p /\ dest'.done = FALSE
          /\ dest # None => dest'.of = dest.of /\ dest'.done = dest.done
      <3>1. CASE dest = None
        <4> DEFINE fresh == [Empty EXCEPT ![at[p]] = draft[p][at[p]]]
        <4>1. fresh \in Contents /\ fresh[at[p]] # Empty[at[p]]
          BY <1>2, <2>2 DEF Contents, Empty, Values
        <4>2. dest' = Output(p, fresh)
          BY <1>4, <3>1
        <4> HIDE DEF fresh
        <4>3. fresh # Empty
          BY <4>1
        <4>4. /\ Output(p, fresh) \in Things /\ Output(p, fresh) # None
              /\ Output(p, fresh).of = p /\ Output(p, fresh).parts = fresh
              /\ Output(p, fresh).done = FALSE
          BY <4>1, Made
        <4> QED
          BY <3>1, <4>2, <4>3, <4>4
      <3>2. CASE dest # None
        <4> DEFINE fresh == [dest.parts EXCEPT ![at[p]] = draft[p][at[p]]]
        <4>1. dest \in Things /\ dest.parts \in Contents
          BY <1>2, <3>2 DEF TypeOK, Things
        <4>2. fresh \in Contents /\ fresh[at[p]] # Empty[at[p]]
          BY <1>2, <2>2, <4>1 DEF Contents, Empty
        <4>3. dest' = [dest EXCEPT !.parts = fresh]
          BY <1>4, <3>2, <4>1 DEF Written, Things
        <4> HIDE DEF fresh
        <4>4. fresh # Empty
          BY <4>2
        <4>5. /\ dest' \in Things /\ dest' # None /\ dest'.of = dest.of
              /\ dest'.parts = fresh /\ dest'.done = dest.done
          BY <4>1, <4>2, <4>3, Changed
        <4> QED
          BY <3>2, <4>4, <4>5
      <3> QED
        BY <3>1, <3>2
    <2>4. touched' \subseteq Procs /\ touched \subseteq touched'
      BY <1>2, <1>4 DEF TypeOK, Spoils
    <2>5. TypeOK'
      BY <1>1, <1>2, <2>1, <2>3, <2>4 DEF TypeOK, Labels
    <2>6. Ours(p)' => ~dest'.done
      BY <1>2, <2>3 DEF Ours
    <2>7. Fine(p)'
      <3>1. Stands(p)'
        BY <1>1, <1>2, <2>1 DEF Fine, Stands
      <3>2. Reads(p)'
        BY <1>1, <1>2, <2>1 DEF Reads
      <3>3. Owns(p)'
        BY <1>1, <1>2, <2>1, <2>3, <2>6 DEF Owns
      <3> QED
        BY <3>1, <3>2, <3>3 DEF Fine
    <2>8. ASSUME NEW q \in Procs \ {p}
          PROVE  Aside(q) /\ Respects(q)
      <3>1. Aside(q)
        BY <1>1, <2>1 DEF Aside
      <3>2. Ours(q)' => Ours(q) /\ dest'.done = dest.done
        BY <2>3 DEF Ours
      <3>3. Ours(q) => q \in touched'
        BY <1>4 DEF Ours, Spoils
      <3> QED
        BY <1>1, <2>3, <2>4, <3>1, <3>2, <3>3 DEF Respects
    <2>9. Paths'
      BY <1>1, <2>3 DEF IInv, Paths
    <2> QED
      BY <1>1, <2>5, <2>7, <2>8, <2>9, SourceStays, Assembled
  <1> QED
    BY <1>3, <1>4 DEF WriteMember

----------------------------------------------------------------------------
(* Publishing and ending                                                   *)

LEMMA PublishKeeps ==
    ASSUME IInv, NEW p \in Procs, Publish(p)
    PROVE  IInv'
  <1>1. /\ pc[p] = "publish"
        /\ UNCHANGED <<env, kind, at, draft, again, fd, stuck, moves, faults>>
        /\ UNCHANGED <<source, moments>>
    BY DEF Publish, env
  <1>2. /\ TypeOK /\ Fine(p) /\ result[p] = None /\ at[p] = 1 /\ 1 \in Parts
        /\ kind[p] \in Staged /\ kind[p] \notin Created \cup {"export", "backup", None, "unpack"}
        /\ stage[p] = draft[p] /\ draft[p] \in Contents /\ stage[p] # None /\ ~Ours(p)
        /\ draft[p] # Empty
    <2>1. /\ TypeOK /\ Fine(p) /\ result[p] = None /\ at[p] = 1 /\ 1 \in Parts
          /\ kind[p] \in Staged /\ stage[p] = draft[p] /\ draft[p] \in Contents
      BY <1>1, Running DEF Fine, Stands, TypeOK
    <2>2. kind[p] \notin Created \cup {"export", "backup", "unpack"} /\ kind[p] # None
      BY <1>1, <2>1, Running DEF Staged, Created
    <2>3. stage[p] # None /\ ~Ours(p)
      BY <1>1, <2>1, Apart DEF Fine, Owns
    <2>4. draft[p][1] \in Nat /\ Empty[1] = None
      BY <2>1, <2>2, Bounds DEF Fine, Stands, Empty
    <2>5. draft[p] # Empty
      BY <2>4, Apart
    <2> QED
      BY <2>1, <2>2, <2>3, <2>5
  <1>3. "discard" \in Labels /\ "verify" \in Labels /\ "finish" \in Labels
    BY DEF Labels
  <1>4. CASE Goto(p, "discard") /\ UNCHANGED <<dest, stage, touched>>
    <2>1. /\ pc' \in [Procs -> Labels] /\ result' \in [Procs -> Outcomes \cup {None}]
          /\ pc'[p] = "discard" /\ result'[p] = None
          /\ \A q \in Procs \ {p} : pc'[q] = pc[q] /\ result'[q] = result[q]
      BY <1>2, <1>3, <1>4, Went
    <2>2. TypeOK'
      BY <1>1, <1>2, <1>4, <2>1 DEF TypeOK, Labels
    <2>3. Fine(p)'
      <3>1. Stands(p)'
        BY <1>1, <1>2, <1>4, <2>1 DEF Fine, Stands
      <3>2. Reads(p)'
        BY <1>1, <1>2, <2>1 DEF Reads
      <3>3. Owns(p)'
        BY <1>1, <1>2, <1>4, <2>1 DEF Owns, Ours
      <3> QED
        BY <3>1, <3>2, <3>3 DEF Fine
    <2>4. \A q \in Procs \ {p} : Aside(q) /\ Respects(q)
      BY <1>1, <1>4, <2>1, PathStays DEF Aside
    <2> QED
      BY <1>1, <1>4, <2>2, <2>3, <2>4, SourceStays, PathsStay, Assembled
  <1>5. CASE /\ dest' = Output(p, stage[p])
             /\ touched' = touched \cup Spoils(p)
             /\ stage' = [stage EXCEPT ![p] = IF kind[p] = "result" THEN @ ELSE None]
             /\ Goto(p, IF kind[p] = "acquire" THEN "verify" ELSE "finish")
    <2>1. /\ pc' \in [Procs -> Labels] /\ result' \in [Procs -> Outcomes \cup {None}]
          /\ result'[p] = None
          /\ pc'[p] = IF kind[p] = "acquire" THEN "verify" ELSE "finish"
          /\ \A q \in Procs \ {p} : pc'[q] = pc[q] /\ result'[q] = result[q]
      BY <1>2, <1>3, <1>5, Went
    <2>2. /\ dest' \in Things /\ dest' # None
          /\ dest'.of = p /\ dest'.parts = draft[p] /\ dest'.done = FALSE
      BY <1>2, <1>5, Made
    <2>3. /\ stage' \in [Procs -> Contents \cup {None}]
          /\ kind[p] = "acquire" => stage'[p] = None
          /\ \A q \in Procs \ {p} : stage'[q] = stage[q]
      BY <1>2, <1>5 DEF TypeOK
    <2>4. touched' \subseteq Procs /\ touched \subseteq touched'
      BY <1>2, <1>5 DEF TypeOK, Spoils
    <2>5. TypeOK'
      BY <1>1, <1>2, <2>1, <2>2, <2>3, <2>4 DEF TypeOK, Labels
    <2>6. Fine(p)'
      <3>1. Stands(p)'
        BY <1>1, <1>2, <2>1, <2>3 DEF Fine, Stands
      <3>2. Reads(p)'
        BY <1>1, <1>2, <2>1 DEF Reads
      <3>3. Owns(p)'
        BY <1>1, <1>2, <2>1, <2>2 DEF Owns, Ours
      <3> QED
        BY <3>1, <3>2, <3>3 DEF Fine
    <2>7. ASSUME NEW q \in Procs \ {p}
          PROVE  Aside(q) /\ Respects(q)
      <3>1. Aside(q)
        BY <1>1, <2>1, <2>3 DEF Aside
      <3>2. ~Ours(q)'
        BY <2>2 DEF Ours
      <3>3. Ours(q) => q \in touched'
        BY <1>5 DEF Ours, Spoils
      <3> QED
        BY <1>1, <2>4, <3>1, <3>2, <3>3 DEF Respects
    <2>8. Paths'
      BY <1>1, <2>2, Apart, PathsStay
    <2> QED
      BY <1>1, <2>5, <2>6, <2>7, <2>8, SourceStays, Assembled
  <1> QED
    BY <1>4, <1>5 DEF Publish

LEMMA VerifyKeeps ==
    ASSUME IInv, NEW p \in Procs, Verify(p)
    PROVE  IInv'
  <1>1. /\ pc[p] = "verify" /\ (Goto(p, "finish") \/ Goto(p, "discard"))
        /\ UNCHANGED <<dest, env, kind, at, draft, again, stage, fd, touched, stuck, moves, faults>>
        /\ UNCHANGED <<source, moments>>
    BY DEF Verify, env, local, marks
  <1>2. /\ TypeOK /\ Fine(p) /\ result[p] = None /\ kind[p] = "acquire" /\ stage[p] = None
        /\ "finish" \in Labels /\ "discard" \in Labels
    BY <1>1, Running DEF Fine, Stands, Labels
  <1>3. /\ pc' \in [Procs -> Labels] /\ result' \in [Procs -> Outcomes \cup {None}]
        /\ pc'[p] \in {"finish", "discard"} /\ result'[p] = None
        /\ \A q \in Procs \ {p} : pc'[q] = pc[q] /\ result'[q] = result[q]
    <2>1. CASE Goto(p, "finish")
      BY <1>2, <2>1, Went
    <2>2. CASE Goto(p, "discard")
      BY <1>2, <2>2, Went
    <2> QED
      BY <1>1, <2>1, <2>2
  <1>4. TypeOK'
    BY <1>1, <1>2, <1>3 DEF TypeOK, Labels
  <1>5. Fine(p)'
    <2>1. Stands(p)'
      BY <1>1, <1>2, <1>3 DEF Fine, Stands
    <2>2. Reads(p)'
      BY <1>1, <1>2, <1>3 DEF Reads
    <2>3. Owns(p)'
      BY <1>1, <1>2, <1>3 DEF Fine, Owns, Ours, Created, Staged, DirKinds
    <2> QED
      BY <2>1, <2>2, <2>3 DEF Fine
  <1>6. \A q \in Procs \ {p} : Aside(q) /\ Respects(q)
    BY <1>1, <1>3, PathStays DEF Aside
  <1> QED
    BY <1>1, <1>4, <1>5, <1>6, SourceStays, PathsStay, Assembled

LEMMA FinishKeeps ==
    ASSUME IInv, NEW p \in Procs, Finish(p)
    PROVE  IInv'
  <1>1. /\ pc[p] = "finish" /\ Report(p, "ok")
        /\ stage' \in {stage, [stage EXCEPT ![p] = None]}
        /\ dest' = IF Ours(p) THEN [dest EXCEPT !.done = TRUE] ELSE dest
        /\ UNCHANGED <<env, kind, at, draft, again, fd, touched, stuck, moves, faults>>
        /\ UNCHANGED <<source, moments>>
    BY DEF Finish, env, marks
  <1>2. TypeOK /\ Fine(p) /\ result[p] = None /\ "ok" \in Outcomes
    BY <1>1, Running DEF Outcomes
  <1>3. /\ pc' \in [Procs -> Labels] /\ result' \in [Procs -> Outcomes \cup {None}]
        /\ pc'[p] = "done" /\ result'[p] = "ok"
        /\ \A q \in Procs \ {p} : pc'[q] = pc[q] /\ result'[q] = result[q]
    BY <1>1, <1>2, Ended
  <1>4. /\ dest = None => dest' = None
        /\ dest # None => /\ dest' \in Things /\ dest' # None
                          /\ dest'.of = dest.of /\ dest'.parts = dest.parts
        /\ ~Ours(p) => dest' = dest
    <2>1. CASE Ours(p)
      <3>1. dest \in Things /\ dest # None
        BY <1>2, <2>1 DEF TypeOK, Ours
      <3>2. dest' \in Things /\ dest'.of = dest.of /\ dest'.parts = dest.parts
        BY <1>1, <2>1, <3>1 DEF Things
      <3>3. dest' # None
        BY <3>2, Apart
      <3> QED
        BY <2>1, <3>1, <3>2, <3>3
    <2>2. CASE ~Ours(p)
      BY <1>1, <1>2, <2>2 DEF TypeOK
    <2> QED
      BY <2>1, <2>2
  <1>5. /\ stage' \in [Procs -> Contents \cup {None}]
        /\ stage[p] = None => stage'[p] = None
        /\ \A q \in Procs \ {p} : stage'[q] = stage[q]
    BY <1>1, <1>2 DEF TypeOK
  <1>6. TypeOK'
    <2>1. dest' \in Things \cup {None}
      BY <1>4
    <2> QED
      BY <1>1, <1>2, <1>3, <1>5, <2>1 DEF TypeOK, Labels
  <1>7. Fine(p)'
    <2>1. Stands(p)'
      BY <1>1, <1>2, <1>3, <1>5 DEF Fine, Stands
    <2>2. Reads(p)'
      BY <1>3 DEF Reads
    <2>3. Owns(p)'
      <3>1. Ours(p)' => Ours(p) /\ dest'.parts = dest.parts
        BY <1>4 DEF Ours
      <3> QED
        BY <1>1, <1>2, <1>3, <3>1 DEF Fine, Owns
    <2> QED
      BY <2>1, <2>2, <2>3 DEF Fine
  <1>8. ASSUME NEW q \in Procs \ {p}
        PROVE  Aside(q) /\ Respects(q)
    <2>1. Aside(q)
      BY <1>1, <1>3, <1>5 DEF Aside
    <2>2. Ours(q)' => Ours(q)
      BY <1>4 DEF Ours
    <2>3. Ours(q) => dest' = dest
      BY <1>4 DEF Ours
    <2>4. Ours(q)' => dest'.done = dest.done /\ dest'.parts = dest.parts
      BY <2>2, <2>3
    <2> QED
      BY <1>1, <2>1, <2>2, <2>3, <2>4 DEF Respects
  <1>9. Paths'
    BY <1>1, <1>4, PathsStay
  <1> QED
    BY <1>1, <1>6, <1>7, <1>8, <1>9, SourceStays, Assembled

\* What is removed by its name is out of reach for the file that was open on it.
LEMMA Removed ==
    ASSUME TypeOK, fd' = Unlinked
    PROVE  /\ fd' \in [Procs -> Procs \cup {Foreign, None}]
           /\ \A q \in Procs : \/ fd'[q] = fd[q]
                               \/ fd'[q] = None /\ (fd[q] = q => Ours(q))
  BY DEF Unlinked, TypeOK, Ours

LEMMA DiscardKeeps ==
    ASSUME IInv, NEW p \in Procs, Discard(p)
    PROVE  IInv'
  <1> DEFINE removes == \/ kind[p] \in Created \cup {"unpack"}
                        \/ kind[p] = "acquire" /\ stage[p] = None
  <1>1. /\ pc[p] = "discard"
        /\ dest' = IF removes THEN None ELSE dest
        /\ fd' = IF removes THEN Unlinked ELSE fd
        /\ touched' = IF removes THEN touched \cup Spoils(p) ELSE touched
        /\ stage' = [stage EXCEPT ![p] = None]
        /\ Report(p, "exists") \/ Report(p, "failed")
        /\ UNCHANGED <<env, kind, at, draft, again, stuck, moves, faults>>
        /\ UNCHANGED <<source, moments>>
    BY DEF Discard, FailureOf, env
  <1>2. /\ TypeOK /\ Fine(p) /\ result[p] = None
        /\ "exists" \in Outcomes /\ "failed" \in Outcomes
    BY <1>1, Running DEF Outcomes
  <1>3. /\ pc' \in [Procs -> Labels] /\ result' \in [Procs -> Outcomes \cup {None}]
        /\ pc'[p] = "done" /\ result'[p] \in {"exists", "failed"}
        /\ \A q \in Procs \ {p} : pc'[q] = pc[q] /\ result'[q] = result[q]
    <2>1. CASE Report(p, "exists")
      BY <1>2, <2>1, Ended
    <2>2. CASE Report(p, "failed")
      BY <1>2, <2>2, Ended
    <2> QED
      BY <1>1, <2>1, <2>2
  <1>4. /\ stage' \in [Procs -> Contents \cup {None}] /\ stage'[p] = None
        /\ \A q \in Procs \ {p} : stage'[q] = stage[q]
    BY <1>1, <1>2 DEF TypeOK
  <1>5. /\ touched' \subseteq Procs /\ touched \subseteq touched'
        /\ removes => touched' = touched \cup Spoils(p)
    BY <1>1, <1>2 DEF TypeOK, Spoils
  <1>6. /\ fd' \in [Procs -> Procs \cup {Foreign, None}]
        /\ \A q \in Procs : \/ fd'[q] = fd[q]
                            \/ fd'[q] = None /\ removes /\ (fd[q] = q => Ours(q))
    <2>1. CASE removes
      <3>1. fd' = Unlinked
        BY <1>1, <2>1
      <3> QED
        BY <1>2, <2>1, <3>1, Removed
    <2>2. CASE ~removes
      BY <1>1, <1>2, <2>2 DEF TypeOK
    <2> QED
      BY <2>1, <2>2
  <1>7. /\ ~removes => dest' = dest
        /\ removes => dest' = None
        /\ dest' \in Things \cup {None}
    BY <1>1, <1>2 DEF TypeOK
  <1>8. TypeOK'
    <2> HIDE DEF removes
    <2> QED
      BY <1>1, <1>2, <1>3, <1>4, <1>5, <1>6, <1>7 DEF TypeOK, Labels
  <1>9. Fine(p)'
    <2>1. Stands(p)'
      BY <1>1, <1>2, <1>3, <1>4 DEF Fine, Stands
    <2>2. Reads(p)'
      BY <1>3 DEF Reads
    <2>3. Ours(p)' => Ours(p) /\ dest' = dest /\ ~removes
      BY <1>7 DEF Ours
    <2>4. kind[p] \in CleansUp => ~Ours(p)'
      BY <1>1, <1>2, <2>3 DEF Fine, Owns, CleansUp, Guarded, Created, Staged
    <2>5. ~dest.done \/ ~Ours(p)'
      BY <1>1, <1>2, <2>3 DEF Fine, Owns
    <2>6. Owns(p)'
      <3>1. kind[p] \in Staged => kind[p] \in CleansUp
        BY DEF Staged, CleansUp, Guarded
      <3> HIDE DEF removes
      <3> QED
        BY <1>1, <1>3, <1>4, <2>3, <2>4, <2>5, <3>1 DEF Owns
    <2> QED
      BY <2>1, <2>2, <2>6 DEF Fine
  <1>10. ASSUME NEW q \in Procs \ {p}
         PROVE  Aside(q) /\ Respects(q)
    <2>1. Aside(q)
      BY <1>1, <1>3, <1>4 DEF Aside
    <2>2. Ours(q)' => dest' = dest /\ Ours(q)
      BY <1>7 DEF Ours
    <2>3. removes /\ Ours(q) => q \in touched'
      BY <1>5 DEF Ours, Spoils
    <2>4. Ours(q) /\ dest' # dest => q \in touched'
      BY <1>7, <2>3
    <2>5. fd'[q] = fd[q] \/ (fd'[q] = None /\ (fd[q] = q => q \in touched'))
      BY <1>6, <2>3
    <2> HIDE DEF removes
    <2> QED
      BY <1>5, <2>1, <2>2, <2>4, <2>5 DEF Respects
  <1>11. Paths'
    BY <1>1, <1>7, PathsStay
  <1> QED
    <2> HIDE DEF removes
    <2> QED
      BY <1>1, <1>8, <1>9, <1>10, <1>11, SourceStays, Assembled

LEMMA OperationFailsKeeps ==
    ASSUME IInv, NEW p \in Procs, OperationFails(p)
    PROVE  IInv'
  <1>1. /\ UNCHANGED <<dest, env, kind, at, draft, again, stage, fd, touched, moves>>
        /\ UNCHANGED <<source, moments>>
        /\ faults < MaxFaults /\ faults' = faults + 1
    BY DEF OperationFails, Fault, env, local
  <1>2. faults' \in 0..MaxFaults
    BY <1>1, Bounds DEF IInv, TypeOK
  <1>3. /\ "failed" \in Outcomes /\ "discard" \in Labels
        /\ FailureOf(p) \in Outcomes /\ FailureOf(p) # "ok"
    BY DEF Outcomes, Labels, FailureOf
  <1>4. CASE pc[p] = "open" /\ kind[p] \notin {"seed", "result"} /\ Report(p, "failed") /\ UNCHANGED stuck
    <2>1. TypeOK /\ Fine(p) /\ result[p] = None /\ stage[p] = None /\ ~Ours(p)
      BY <1>4, Running DEF Fine, Stands, Owns
    <2>2. /\ pc' \in [Procs -> Labels] /\ result' \in [Procs -> Outcomes \cup {None}]
          /\ pc'[p] = "done" /\ result'[p] = "failed"
          /\ \A q \in Procs \ {p} : pc'[q] = pc[q] /\ result'[q] = result[q]
      BY <1>3, <1>4, <2>1, Ended
    <2>3. TypeOK'
      BY <1>1, <1>2, <1>4, <2>1, <2>2 DEF TypeOK, Labels
    <2>4. Fine(p)'
      <3>1. Stands(p)'
        BY <1>1, <1>4, <2>1, <2>2 DEF Fine, Stands
      <3>2. Reads(p)'
        BY <2>2 DEF Reads
      <3>3. Owns(p)'
        BY <1>1, <1>4, <2>1, <2>2 DEF Owns, Ours
      <3> QED
        BY <3>1, <3>2, <3>3 DEF Fine
    <2>5. \A q \in Procs \ {p} : Aside(q) /\ Respects(q)
      BY <1>1, <1>4, <2>2, PathStays DEF Aside
    <2> QED
      BY <1>1, <2>3, <2>4, <2>5, SourceStays, PathsStay, Assembled
  <1>5. CASE /\ (pc[p] = "open" /\ kind[p] \in {"seed", "result"}) \/ pc[p] \in {"write", "sync", "publish", "verify"}
             /\ Goto(p, "discard") /\ UNCHANGED stuck
    <2>1. TypeOK /\ Fine(p) /\ result[p] = None
      BY <1>5, Running
    <2>2. /\ pc' \in [Procs -> Labels] /\ result' \in [Procs -> Outcomes \cup {None}]
          /\ pc'[p] = "discard" /\ result'[p] = None
          /\ \A q \in Procs \ {p} : pc'[q] = pc[q] /\ result'[q] = result[q]
      BY <1>3, <1>5, <2>1, Went
    <2>3. TypeOK'
      BY <1>1, <1>2, <1>5, <2>1, <2>2 DEF TypeOK, Labels
    <2>4. Fine(p)'
      <3>1. Stands(p)'
        BY <1>1, <1>5, <2>1, <2>2 DEF Fine, Stands
      <3>2. Reads(p)'
        BY <2>2, <1>1, <1>5, <2>1 DEF Reads
      <3>3. kind[p] = "acquire" /\ pc[p] \in {"write", "sync", "publish"} => stage[p] # None
        <4>1. draft[p] # None
          BY <2>1, Apart DEF TypeOK
        <4> QED
          BY <2>1, <4>1 DEF Fine, Stands, Staged
      <3>4. Owns(p)'
        BY <1>1, <1>5, <2>1, <2>2, <3>3 DEF Fine, Stands, Owns, Ours, Created, Staged
      <3> QED
        BY <3>1, <3>2, <3>4 DEF Fine
    <2>5. \A q \in Procs \ {p} : Aside(q) /\ Respects(q)
      BY <1>1, <1>5, <2>2, PathStays DEF Aside
    <2> QED
      BY <1>1, <2>3, <2>4, <2>5, SourceStays, PathsStay, Assembled
  <1>6. CASE pc[p] = "discard" /\ Report(p, FailureOf(p)) /\ stuck' = stuck \cup {p}
    <2>1. TypeOK /\ Fine(p) /\ result[p] = None
      BY <1>6, Running
    <2>2. /\ pc' \in [Procs -> Labels] /\ result' \in [Procs -> Outcomes \cup {None}]
          /\ pc'[p] = "done" /\ result'[p] = FailureOf(p)
          /\ \A q \in Procs \ {p} : pc'[q] = pc[q] /\ result'[q] = result[q]
      BY <1>3, <1>6, <2>1, Ended
    <2>3. TypeOK'
      BY <1>1, <1>2, <1>6, <2>1, <2>2 DEF TypeOK, Labels
    <2>4. Fine(p)'
      <3>1. Stands(p)'
        BY <1>1, <1>6, <2>1, <2>2 DEF Fine, Stands
      <3>2. Reads(p)'
        BY <2>2 DEF Reads
      <3>3. Owns(p)'
        BY <1>1, <1>6, <2>1, <2>2 DEF Fine, Owns, Ours
      <3> QED
        BY <3>1, <3>2, <3>3 DEF Fine
    <2>5. \A q \in Procs \ {p} : Aside(q) /\ Respects(q)
      BY <1>1, <1>6, <2>2, PathStays DEF Aside
    <2> QED
      BY <1>1, <2>3, <2>4, <2>5, SourceStays, PathsStay, Assembled
  <1> QED
    BY <1>4, <1>5, <1>6 DEF OperationFails

LEMMA DieKeeps ==
    ASSUME IInv, NEW p \in Procs, Die(p)
    PROVE  IInv'
  <1>1. /\ UNCHANGED <<dest, env, kind, at, draft, again, stage, fd, result, touched, stuck, moves>>
        /\ UNCHANGED <<source, moments>>
        /\ pc[p] \notin {"start", "done", "dead"} /\ pc' = [pc EXCEPT ![p] = "dead"]
        /\ faults < MaxFaults /\ faults' = faults + 1
    BY DEF Die, Fault, env, local, marks
  <1>2. TypeOK /\ Fine(p) /\ result[p] = None
    BY <1>1, Running
  <1>3. faults' \in 0..MaxFaults
    BY <1>1, <1>2, Bounds DEF TypeOK
  <1>4. /\ pc' \in [Procs -> Labels] /\ pc'[p] = "dead"
        /\ \A q \in Procs \ {p} : pc'[q] = pc[q]
    BY <1>1, <1>2 DEF TypeOK, Labels
  <1>5. TypeOK'
    BY <1>1, <1>2, <1>3, <1>4 DEF TypeOK, Labels
  <1>6. Fine(p)'
    <2>1. Stands(p)'
      BY <1>1, <1>2, <1>4 DEF Fine, Stands
    <2>2. Reads(p)'
      BY <1>4 DEF Reads
    <2>3. Owns(p)'
      BY <1>1, <1>2, <1>4 DEF Fine, Owns, Ours
    <2> QED
      BY <2>1, <2>2, <2>3 DEF Fine
  <1>7. \A q \in Procs \ {p} : Aside(q) /\ Respects(q)
    BY <1>1, <1>4, PathStays DEF Aside
  <1> QED
    BY <1>1, <1>5, <1>6, <1>7, SourceStays, PathsStay, Assembled

----------------------------------------------------------------------------
(* What people and writers do                                              *)

LEMMA Counted ==
    ASSUME IInv, Move
    PROVE  moves \in Nat /\ moves' = moves + 1 /\ moves' \in 0..MaxMoves
  BY Bounds DEF Move, IInv, TypeOK

LEMMA RemoveKeeps ==
    ASSUME IInv, Remove
    PROVE  IInv'
  <1>1. /\ dest # None /\ dest' = None /\ fd' = Unlinked
        /\ touched' = touched \cup ({dest.of} \cap Procs)
        /\ UNCHANGED <<env, pc, kind, at, draft, again, stage, result, stuck, faults>>
        /\ UNCHANGED <<source, moments>>
    BY DEF Remove, env
  <1>2. TypeOK /\ moves \in Nat /\ moves' = moves + 1 /\ moves' \in 0..MaxMoves
    BY Counted DEF Remove, IInv
  <1>3. touched' \subseteq Procs /\ touched \subseteq touched'
    BY <1>1, <1>2 DEF TypeOK
  <1>4. TypeOK'
    BY <1>1, <1>2, <1>3, Removed DEF TypeOK
  <1>5. Dated' /\ Later
    <2>1. \A m \in moments : \A k \in Parts : m[k] \in 0..moves'
      BY <1>2, Bounds DEF IInv, Dated
    <2>2. Dated'
      BY <1>1, <2>1 DEF IInv, Dated
    <2>3. \A k \in Parts : source[k] \in Nat
      BY <1>2 DEF IInv, Dated
    <2> QED
      BY <1>1, <2>2, <2>3 DEF Later
  <1>6. ASSUME NEW q \in Procs
        PROVE  Fine(q)'
    <2>1. Aside(q)
      BY <1>1 DEF Aside
    <2>2. Ours(q) => q \in touched'
      BY <1>1 DEF Ours
    <2>3. ~Ours(q)'
      BY <1>1 DEF Ours
    <2>4. Respects(q)
      BY <1>1, <1>2, <1>3, <2>2, <2>3, Removed DEF Respects
    <2> QED
      BY <1>5, <2>1, <2>4, StaysFine DEF IInv
  <1>7. Paths'
    BY <1>1, PathsStay
  <1> QED
    BY <1>4, <1>5, <1>6, <1>7 DEF IInv

LEMMA PutKeeps ==
    ASSUME IInv, Put
    PROVE  IInv'
  <1>0. PICK have \in (SUBSET Parts) \ {{}} :
            dest' = [of |-> Foreign, done |-> TRUE,
                     parts |-> [k \in Parts |-> IF k \in have THEN Foreign ELSE None]]
    BY DEF Put
  <1> DEFINE given == [k \in Parts |-> IF k \in have THEN Foreign ELSE None]
  <1>1. /\ dest = None /\ dest' = [of |-> Foreign, parts |-> given, done |-> TRUE]
        /\ UNCHANGED <<env, pc, kind, at, draft, again, stage, fd, result, touched, stuck, faults>>
        /\ UNCHANGED <<source, moments>>
    BY <1>0 DEF Put, env, local, marks
  <1>2. TypeOK /\ moves \in Nat /\ moves' = moves + 1 /\ moves' \in 0..MaxMoves
    BY Counted DEF Put, IInv
  <1>3. given \in Contents /\ given # Empty
    <2>1. given \in Contents
      BY DEF Contents, Values
    <2>2. PICK k \in Parts : k \in have
      OBVIOUS
    <2>3. given[k] # Empty[k]
      BY <2>2, Apart DEF Empty
    <2> QED
      BY <2>1, <2>3
  <1>4. dest' \in Things
    BY <1>1, <1>3 DEF Things
  <1>5. TypeOK'
    BY <1>1, <1>2, <1>4 DEF TypeOK
  <1>6. Dated' /\ Later
    <2>1. \A m \in moments : \A k \in Parts : m[k] \in 0..moves'
      BY <1>2, Bounds DEF IInv, Dated
    <2>2. Dated'
      BY <1>1, <2>1 DEF IInv, Dated
    <2>3. \A k \in Parts : source[k] \in Nat
      BY <1>2 DEF IInv, Dated
    <2> QED
      BY <1>1, <2>2, <2>3 DEF Later
  <1>7. ASSUME NEW q \in Procs
        PROVE  Fine(q)'
    <2>1. Aside(q)
      BY <1>1 DEF Aside
    <2>2. ~Ours(q) /\ ~Ours(q)'
      BY <1>1, Apart DEF Ours
    <2>3. Respects(q)
      BY <1>1, <2>2 DEF Respects
    <2> QED
      BY <1>6, <2>1, <2>3, StaysFine DEF IInv
  <1>8. Paths'
    BY <1>1, <1>3 DEF IInv, Paths
  <1> QED
    BY <1>5, <1>6, <1>7, <1>8 DEF IInv

\* The source has a new value at some of its parts.
LEMMA SourceMoves ==
    ASSUME IInv, Move, NEW changed \in SUBSET Parts, changed # {},
           source' = [k \in Parts |-> IF k \in changed THEN moves' ELSE source[k]],
           (\E k \in Parts : changed = {k}) \/ changed = Parts,
           moments' = moments \cup {source'},
           UNCHANGED <<dest, pc, local, result, marks, faults>>
    PROVE  IInv'
  <1>1. UNCHANGED <<dest, pc, kind, at, draft, again, stage, fd, result, touched, stuck, faults>>
    BY DEF local, marks
  <1>2. TypeOK /\ moves \in Nat /\ moves' = moves + 1 /\ moves' \in 0..MaxMoves
    BY Counted DEF IInv
  <1>3. source' \in Contents
    BY <1>2 DEF TypeOK, Contents, Values
  <1>4. TypeOK'
    BY <1>1, <1>2, <1>3 DEF TypeOK
  <1>5. \A k \in Parts : source[k] \in 0..moves /\ source[k] \in Nat
    BY <1>2 DEF IInv, Dated
  <1>6. \A m \in moments : \A k \in Parts : m[k] \in 0..moves
    BY DEF IInv, Dated
  <1>7. Later
    BY <1>2, <1>5 DEF Later
  <1>8. Dated'
    <2>1. \A m \in moments' : \A k \in Parts : m[k] \in 0..moves'
      <3>1. \A k \in Parts : source'[k] \in 0..moves'
        BY <1>2, <1>5
      <3>2. \A m \in moments : \A k \in Parts : m[k] \in 0..moves'
        BY <1>2, <1>6
      <3> QED
        BY <3>1, <3>2
    <2>2. ASSUME NEW m \in moments', NEW n \in moments', NEW j \in Parts, NEW k \in Parts,
                 j # k, m[j] = n[k]
          PROVE  Batch(m[j]) \in moments'
      <3>1. source \in moments
        BY DEF IInv, Dated
      <3>2. CASE m[j] = moves'
        <4>1. m = source' /\ n = source' /\ j \in changed /\ k \in changed
          <5>1. ASSUME NEW i \in Parts
                PROVE  source[i] # moves' /\ \A o \in moments : o[i] # moves'
            BY <1>2, <1>5, <1>6
          <5>2. m[j] = moves' /\ n[k] = moves'
            BY <2>2, <3>2
          <5>3. m = source' /\ n = source'
            BY <5>1, <5>2
          <5>4. source'[j] = moves' /\ source'[k] = moves'
            BY <5>2, <5>3
          <5> QED
            BY <5>1, <5>3, <5>4
        <4>2. changed = Parts
          BY <2>2, <4>1
        <4>3. source' = Batch(m[j])
          BY <3>2, <4>2 DEF Batch
        <4> QED
          BY <4>3
      <3>3. CASE m[j] # moves'
        <4>1. PICK a \in moments : a[j] = m[j]
          <5>1. CASE m \in moments
            BY <5>1
          <5>2. CASE m = source'
            BY <3>1, <3>3, <5>2
          <5> QED
            BY <5>1, <5>2
        <4>2. PICK b \in moments : b[k] = n[k]
          <5>1. CASE n \in moments
            BY <5>1
          <5>2. CASE n = source'
            BY <2>2, <3>1, <3>3, <5>2
          <5> QED
            BY <5>1, <5>2
        <4>3. \A x, y \in moments : x[j] = y[k] => Batch(x[j]) \in moments
          BY <2>2 DEF IInv, Dated
        <4>4. a[j] = b[k]
          BY <2>2, <4>1, <4>2
        <4>5. Batch(a[j]) \in moments
          BY <4>3, <4>4
        <4> QED
          BY <4>1, <4>5
      <3> QED
        BY <3>2, <3>3
    <2> QED
      BY <2>1, <2>2 DEF Dated
  <1>9. ASSUME NEW q \in Procs
        PROVE  Fine(q)'
    <2>1. Aside(q)
      BY <1>1 DEF Aside
    <2> QED
      BY <1>1, <1>7, <2>1, PathStays, StaysFine DEF IInv
  <1>10. Paths'
    BY <1>1, PathsStay
  <1> QED
    BY <1>4, <1>8, <1>9, <1>10 DEF IInv

LEMMA SealKeeps ==
    ASSUME IInv, Seal
    PROVE  IInv'
  <1>1. /\ Move /\ moments' = moments \cup {source'}
        /\ source' = [k \in Parts |-> IF k \in Parts THEN moves' ELSE source[k]]
        /\ UNCHANGED <<dest, pc, local, result, marks, faults>>
    BY DEF Seal
  <1>2. Parts # {}
    BY Bounds DEF Parts
  <1> QED
    BY <1>1, <1>2, SourceMoves

LEMMA EditKeeps ==
    ASSUME IInv, Edit
    PROVE  IInv'
  <1>1. PICK j \in Parts : source' = [source EXCEPT ![j] = moves']
    BY DEF Edit
  <1>2. source' = [k \in Parts |-> IF k \in {j} THEN moves' ELSE source[k]]
    BY <1>1 DEF IInv, TypeOK, Contents
  <1>3. Move /\ moments' = moments \cup {source'} /\ UNCHANGED <<dest, pc, local, result, marks, faults>>
    BY DEF Edit
  <1>4. {j} \in SUBSET Parts /\ {j} # {} /\ \E k \in Parts : {j} = {k}
    OBVIOUS
  <1> QED
    BY <1>2, <1>3, <1>4, SourceMoves

----------------------------------------------------------------------------
(* The invariant                                                           *)

LEMMA InitKeeps == Init => IInv
  <1> SUFFICES ASSUME Init PROVE IInv
    OBVIOUS
  <1>1. /\ dest = None /\ source = [k \in Parts |-> 0] /\ moments = {source}
        /\ pc = [p \in Procs |-> "start"] /\ kind = [p \in Procs |-> None]
        /\ at = [p \in Procs |-> 1]
        /\ draft = [p \in Procs |-> Empty] /\ again = [p \in Procs |-> Empty]
        /\ stage = [p \in Procs |-> None] /\ fd = [p \in Procs |-> None]
        /\ result = [p \in Procs |-> None] /\ touched = {} /\ stuck = {}
        /\ moves = 0 /\ faults = 0
    BY DEF Init
  <1>2. Empty \in Contents /\ source \in Contents /\ 1 \in Parts
    BY <1>1, Bounds DEF Empty, Contents, Values, Parts
  <1>3. TypeOK
    BY <1>1, <1>2, Bounds DEF TypeOK
  <1>4. Paths
    BY <1>1 DEF Paths
  <1>5. Dated
    <2>1. \A k \in Parts : source[k] = 0
      BY <1>1
    <2>2. Batch(0) = source
      BY <1>1 DEF Batch
    <2>3. \A m \in moments : m = source
      BY <1>1
    <2>4. \A m \in moments : \A k \in Parts : m[k] = 0
      BY <2>1, <2>3
    <2>5. source \in moments /\ moves = 0
      BY <1>1
    <2>6. \A m \in moments : \A j \in Parts : Batch(m[j]) \in moments
      BY <2>2, <2>4, <2>5
    <2> QED
      BY <2>4, <2>5, <2>6 DEF Dated
  <1>6. \A p \in Procs : Fine(p)
    <2> SUFFICES ASSUME NEW p \in Procs PROVE Fine(p)
      OBVIOUS
    <2>1. /\ pc[p] = "start" /\ kind[p] = None /\ at[p] = 1 /\ stage[p] = None
          /\ result[p] = None /\ ~Ours(p)
      BY <1>1 DEF Ours
    <2>2. None \notin FileKinds \cup DirKinds
      BY Apart
    <2>3. Stands(p)
      BY <2>1, <2>2 DEF Stands, Staged, FileKinds, DirKinds
    <2>4. Reads(p)
      BY <2>1 DEF Reads
    <2>5. Owns(p)
      BY <2>1 DEF Owns
    <2> QED
      BY <2>3, <2>4, <2>5 DEF Fine
  <1> QED
    BY <1>3, <1>4, <1>5, <1>6 DEF IInv

LEMMA StutterKeeps ==
    ASSUME IInv, UNCHANGED vars
    PROVE  IInv'
  <1>1. UNCHANGED <<dest, source, moments, env, pc, kind, at, draft, again, stage, fd, result,
                    touched, stuck, moves, faults>>
    BY DEF vars, env, local, marks
  <1>2. TypeOK'
    BY <1>1 DEF IInv, TypeOK
  <1>3. Dated' /\ Later
    BY <1>1, SourceStays
  <1>4. ASSUME NEW q \in Procs
        PROVE  Fine(q)'
    <2>1. Aside(q)
      BY <1>1 DEF Aside
    <2> QED
      BY <1>1, <1>3, <2>1, PathStays, StaysFine DEF IInv
  <1>5. Paths'
    BY <1>1, PathsStay
  <1> QED
    BY <1>2, <1>3, <1>4, <1>5 DEF IInv

LEMMA NextKeeps == IInv /\ [Next]_vars => IInv'
  <1> SUFFICES ASSUME IInv, [Next]_vars PROVE IInv'
    OBVIOUS
  <1>1. ASSUME NEW p \in Procs, Advance(p)
        PROVE  IInv'
    BY <1>1, BeginKeeps, DetectKeeps, CheckKeeps, LookKeeps, FindOpenKeeps, ReadPageKeeps, ReadMemberKeeps,
       RereadMemberKeeps, CreateKeeps, StageKeeps, TruncateKeeps, MakeDirectoryKeeps,
       WriteFileKeeps, WriteStageKeeps, WriteMemberKeeps, SynchronizeKeeps, PublishKeeps,
       VerifyKeeps, FinishKeeps, DiscardKeeps, OperationFailsKeeps, DieKeeps DEF Advance
  <1>2. CASE Remove
    BY <1>2, RemoveKeeps
  <1>3. CASE Put
    BY <1>3, PutKeeps
  <1>4. CASE Seal
    BY <1>4, SealKeeps
  <1>5. CASE Edit
    BY <1>5, EditKeeps
  <1>6. CASE UNCHANGED vars
    BY <1>6, StutterKeeps
  <1> QED
    BY <1>1, <1>2, <1>3, <1>4, <1>5, <1>6 DEF Next

\* The inductive invariant holds in every state.
THEOREM Inductive == Spec => []IInv
  BY InitKeeps, NextKeeps, PTL DEF Spec

\* Every variable keeps its type.
THEOREM TypeCorrect == Spec => []TypeOK
  <1>1. IInv => TypeOK
    BY DEF IInv
  <1> QED
    BY <1>1, Inductive, PTL

\* At the path of a result, seed or acquire there is never a part of it; and an
\* export, backup, apply, result, seed, acquire or unpack that reports a failure
\* leaves neither stage nor unfinished output unless the removal failed, however
\* many commands share the path.
THEOREM NothingStaysHalf == Spec => []NothingHalf
  <1>1. IInv => NothingHalf
    <2> SUFFICES ASSUME IInv PROVE NothingHalf
      OBVIOUS
    <2>1. dest # None /\ dest.of \in Procs /\ kind[dest.of] \in Staged =>
              dest.parts = draft[dest.of] \/ dest.of \in touched
      BY DEF IInv, Fine, Owns, Ours
    <2>2. \A p \in Procs \ stuck : result[p] \notin {None, "ok"} /\ kind[p] \in CleansUp =>
              stage[p] = None /\ ~Ours(p)
      BY DEF IInv, Fine, Owns
    <2> QED
      BY <2>1, <2>2 DEF NothingHalf
  <1> QED
    BY <1>1, Inductive, PTL

----------------------------------------------------------------------------
(* What a step may never do                                                *)

LEMMA SaysOk ==
    ASSUME TypeOK, NEW p \in Procs, [Next]_vars, result[p] # "ok", result'[p] = "ok"
    PROVE  Finish(p) \/ (Check(p) /\ Report(p, "ok"))
  <1>1. ASSUME NEW q \in Procs, Report(q, "ok")
        PROVE  q = p
    BY <1>1 DEF Report, TypeOK
  <1>2. ASSUME NEW q \in Procs, NEW code, Report(q, code), code # "ok"
        PROVE  FALSE
    BY <1>2 DEF Report, TypeOK
  <1>3. result' # result
    OBVIOUS
  <1>4. PICK q \in Procs : Advance(q)
    BY <1>3 DEF Next, vars, Remove, Put, Seal, Edit
  <1>5. CASE Finish(q)
    BY <1>1, <1>5 DEF Finish
  <1>6. CASE Check(q)
    <2>1. Report(q, "ok")
      BY <1>2, <1>3, <1>6 DEF Check, Goto
    <2> QED
      BY <1>1, <1>6, <2>1
  <1>7. CASE Begin(q) \/ FindOpen(q) \/ ReadPage(q) \/ ReadMember(q) \/ RereadMember(q)
    BY <1>2, <1>3, <1>7 DEF Begin, FindOpen, ReadPage, ReadMember, RereadMember, Goto
  <1>11. CASE Detect(q) \/ Look(q)
    BY <1>2, <1>3, <1>11 DEF Detect, Look, Goto
  <1>8. CASE Create(q) \/ Stage(q) \/ Truncate(q) \/ MakeDirectory(q)
    BY <1>2, <1>3, <1>8 DEF Create, Stage, Truncate, MakeDirectory, Goto
  <1>9. CASE WriteFile(q) \/ WriteStage(q) \/ WriteMember(q) \/ Synchronize(q)
    BY <1>2, <1>3, <1>9 DEF WriteFile, WriteStage, WriteMember, Synchronize, NextPart, Goto
  <1>10. CASE Publish(q) \/ Verify(q) \/ Discard(q) \/ OperationFails(q) \/ Die(q)
    BY <1>2, <1>3, <1>10 DEF Publish, Verify, Discard, OperationFails, FailureOf, Die, Goto
  <1> QED
    BY <1>4, <1>5, <1>6, <1>7, <1>8, <1>9, <1>10, <1>11 DEF Advance

LEMMA SaysSatisfied ==
    ASSUME TypeOK, NEW p \in Procs, [Next]_vars,
           result[p] # "satisfied", result'[p] = "satisfied"
    PROVE  Verified(dest')
  <1>1. ASSUME NEW q \in Procs, NEW code, Report(q, code), code # "satisfied"
        PROVE  FALSE
    BY <1>1 DEF Report, TypeOK
  <1>2. result' # result
    OBVIOUS
  <1>3. PICK q \in Procs : Advance(q)
    BY <1>2 DEF Next, vars, Remove, Put, Seal, Edit
  <1>4. CASE Detect(q)
    BY <1>2, <1>4 DEF Detect, Goto, Verified
  <1>5. CASE Check(q) \/ Look(q) \/ Finish(q)
    <2>1. Report(q, "ok") \/ Report(q, "exists")
      BY <1>2, <1>5 DEF Check, Look, Finish, Goto
    <2> QED
      BY <1>1, <2>1
  <1>6. CASE Begin(q) \/ FindOpen(q) \/ ReadPage(q) \/ ReadMember(q) \/ RereadMember(q)
    BY <1>1, <1>2, <1>6 DEF Begin, FindOpen, ReadPage, ReadMember, RereadMember, Goto
  <1>7. CASE Create(q) \/ Stage(q) \/ Truncate(q) \/ MakeDirectory(q)
    BY <1>1, <1>2, <1>7 DEF Create, Stage, Truncate, MakeDirectory, Goto
  <1>8. CASE WriteFile(q) \/ WriteStage(q) \/ WriteMember(q) \/ Synchronize(q)
    BY <1>1, <1>2, <1>8 DEF WriteFile, WriteStage, WriteMember, Synchronize, NextPart, Goto
  <1>9. CASE Publish(q) \/ Verify(q) \/ Discard(q) \/ OperationFails(q) \/ Die(q)
    BY <1>1, <1>2, <1>9 DEF Publish, Verify, Discard, OperationFails, FailureOf, Die, Goto
  <1> QED
    BY <1>3, <1>4, <1>5, <1>6, <1>7, <1>8, <1>9 DEF Advance

LEMMA OkIsWhole ==
    ASSUME IInv, NEW p \in Procs, [Next]_vars, kind[p] \in Guarded,
           result'[p] # result[p], result'[p] = "ok"
    PROVE  /\ p \notin touched => dest' # None /\ dest'.parts = draft[p]
           /\ kind[p] \in {"export", "backup"} => draft[p] \in moments
  <1>1. TypeOK /\ Fine(p)
    BY DEF IInv
  <1>2. CASE Finish(p)
    <2>1. pc[p] = "finish" /\ dest' = IF Ours(p) THEN [dest EXCEPT !.done = TRUE] ELSE dest
      BY <1>2 DEF Finish
    <2>2. kind[p] \in {"export", "backup"} => draft[p] \in moments
      BY <1>1, <2>1 DEF Fine, Reads
    <2>3. ASSUME p \notin touched
          PROVE  Ours(p) /\ dest.parts = draft[p]
      BY <1>1, <2>1, <2>3 DEF Fine, Owns, Guarded, Created, Staged
    <2>4. ASSUME Ours(p)
          PROVE  dest' # None /\ dest'.parts = dest.parts
      <3>1. dest \in Things
        BY <1>1, <2>4 DEF TypeOK, Ours
      <3>2. dest' \in Things /\ dest'.parts = dest.parts
        BY <2>1, <2>4, <3>1 DEF Things
      <3> QED
        BY <3>2, Apart
    <2> QED
      BY <2>2, <2>3, <2>4
  <1>3. CASE Check(p) /\ Report(p, "ok")
    <2>1. pc'[p] = "done" /\ dest' = dest
      BY <1>1, <1>3 DEF Check, Report, TypeOK
    <2>2. ~Goto(p, "read") /\ ~Goto(p, "open")
      BY <1>1, <2>1 DEF Goto, TypeOK
    <2>3. dest # None /\ (Report(p, "exists") \/ (kind[p] = "seed" /\ dest.parts = draft[p]))
      BY <1>3, <2>2 DEF Check
    <2>4. ~Report(p, "exists")
      BY <1>1 DEF Report, TypeOK
    <2> QED
      BY <2>1, <2>3, <2>4
  <1> QED
    BY <1>1, <1>2, <1>3, SaysOk

\* An export, backup, apply, result, seed or acquire reports that it published
\* only when its whole output is there, unless it was taken away, and then an
\* export is one batch and a backup one moment of its workspace, with any number
\* of parts; an acquisition that says it was satisfied found a component that
\* verifies.
THEOREM SuccessesAreWhole == Spec => SuccessIsWhole
  <1>1. IInv /\ [Next]_vars =>
            [\A p \in Procs : kind[p] \in Guarded /\ result'[p] # result[p] =>
              /\ result'[p] = "ok" /\ p \notin touched =>
                    dest' # None /\ dest'.parts = draft[p]
              /\ result'[p] = "ok" /\ kind[p] \in {"export", "backup"} => draft[p] \in moments
              /\ result'[p] = "satisfied" => Verified(dest')]_vars
    BY OkIsWhole, SaysSatisfied DEF IInv
  <1> QED
    BY <1>1, Inductive, PTL DEF Spec, SuccessIsWhole

LEMMA ReplacedBy ==
    ASSUME IInv, [Next]_vars, dest # None, dest.done, dest' # dest, moves' = moves
    PROVE  \E p \in Procs : Steps(p) /\ (kind[p] \notin Guarded \/ p \in touched)
  <1>1. TypeOK /\ \A p \in Procs : Fine(p)
    BY DEF IInv
  <1>2. ~Move
    BY Counted DEF IInv
  <1>3. PICK p \in Procs : Advance(p)
    BY <1>2 DEF Next, vars, Remove, Put, Seal, Edit
  <1>4. Ours(p) => pc[p] = "done"
    BY <1>1 DEF Fine, Owns
  <1>5. CASE Truncate(p)
    <2>1. pc'[p] # pc[p]
      BY <1>1, <1>5 DEF Truncate, Goto, TypeOK
    <2> QED
      BY <1>5, <2>1 DEF Truncate, Steps, Plain, Guarded
  <1>6. CASE WriteFile(p) \/ WriteMember(p)
    <2>1. pc[p] = "write" /\ dest # None
      BY <1>6 DEF WriteFile, WriteMember
    <2>2. CASE kind[p] \in Guarded
      <3>1. WriteFile(p) /\ kind[p] \in Created /\ dest.of = fd[p] /\ pc[p] = "write"
        BY <1>6, <2>1, <2>2 DEF WriteFile, WriteMember, Guarded, Plain, InPlace
      <3>2. fd[p] \in {p, None} /\ dest.of # None
        BY <1>1, <3>1, Apart DEF Fine, Owns, TypeOK, Things
      <3>3. Ours(p)
        BY <3>1, <3>2 DEF Ours
      <3> QED
        BY <1>4, <3>1, <3>3
    <2>3. CASE kind[p] \notin Guarded
      <3>1. NextPart(p)
        BY <1>6, <2>1 DEF WriteFile, WriteMember
      <3>2. /\ at'[p] = IF at[p] = Last THEN 1 ELSE at[p] + 1
            /\ at[p] = Last => pc'[p] \in {"finish", "sync"}
            /\ at[p] \in Parts
        BY <2>1, <3>1, Parted, Running
      <3>3. Steps(p)
        BY <2>1, <3>2 DEF Steps, Parts
      <3> QED
        BY <2>3, <3>3
    <2> QED
      BY <2>2, <2>3
  <1>7. CASE Publish(p)
    <2>1. pc[p] = "publish" /\ kind[p] \in Staged /\ Free(p)
      BY <1>1, <1>7 DEF Publish, Fine, Stands
    <2>2. kind[p] \in DirKinds /\ dest.parts = Empty
      BY <2>1 DEF Free, Staged, DirKinds
    <2>3. dest.of \in Procs
      BY <1>1, <2>2, Apart2 DEF TypeOK, Things
    <2>4. Ours(dest.of)
      BY DEF Ours
    <2>5. pc[dest.of] = "done" /\ kind[dest.of] \in Menu
      BY <1>1, <2>3, <2>4 DEF Fine, Stands, Owns
    <2>6. kind[dest.of] \in DirKinds
      BY <2>2, <2>3, <2>5, Kinds, Apart2
    <2>7. dest.parts # Empty
      BY <1>1, <2>3, <2>4, <2>6 DEF Fine, Owns
    <2> QED
      BY <2>2, <2>7
  <1>8. CASE Discard(p)
    <2>1. /\ pc[p] = "discard" /\ pc'[p] = "done"
          /\ \/ kind[p] \in Created \cup {"unpack"}
             \/ kind[p] = "acquire" /\ stage[p] = None
      BY <1>1, <1>8 DEF Discard, Report, TypeOK
    <2>2. ~Ours(p)
      BY <1>4, <2>1
    <2>3. kind[p] = "unpack" \/ p \in touched
      BY <1>1, <2>1, <2>2 DEF Fine, Owns
    <2> QED
      BY <2>1, <2>3 DEF Steps, Guarded
  <1>9. CASE Finish(p)
    BY <1>4, <1>9 DEF Finish
  <1>10. CASE \/ Begin(p) \/ Detect(p) \/ Check(p) \/ Look(p) \/ FindOpen(p) \/ ReadPage(p) \/ ReadMember(p)
              \/ RereadMember(p) \/ Create(p) \/ Stage(p) \/ MakeDirectory(p) \/ WriteStage(p)
              \/ Synchronize(p) \/ Verify(p) \/ OperationFails(p) \/ Die(p)
    BY <1>10 DEF Begin, Detect, Check, Look, FindOpen, ReadPage, ReadMember, RereadMember, Create, Stage,
       MakeDirectory, WriteStage, Synchronize, Verify, OperationFails, Die
  <1> QED
    BY <1>3, <1>5, <1>6, <1>7, <1>8, <1>9, <1>10 DEF Advance

\* What is finished at the path is changed or removed only by a convert, replace,
\* exchange or unpack, or by a guarded command whose own output was displaced, in
\* every number of commands.
THEOREM FinishedStays == Spec => NothingReplaced
  <1>1. IInv /\ [Next]_vars =>
            [dest # None /\ dest.done /\ dest' # dest /\ moves' = moves =>
                \E p \in Procs : Steps(p) /\ (kind[p] \notin Guarded \/ p \in touched)]_vars
    BY ReplacedBy
  <1> QED
    BY <1>1, Inductive, PTL DEF Spec, NothingReplaced
=============================================================================
