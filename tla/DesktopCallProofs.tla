-------------------------- MODULE DesktopCallProofs --------------------------
(* DesktopCall keeps its promises for any number of commands, profiles,    *)
(* accounts, applications and faults.                                      *)
EXTENDS DesktopCall, WellFoundedInduction, FiniteSetTheorems, TLAPS

\* What a command has had executed, and what it may say of it, follows from
\* where it stands: nothing is under way before it has sent, an operation that
\* runs is the fenced one, and the answer that reports it comes with it.
Says(p) ==
    /\ pc[p] \notin {"sent", "done"} =>
          request[p] = None /\ ran[p].times = 0 /\ answer[p] = 0
    /\ pc[p] # "done" => result[p] = None
    /\ ran[p].times \in {0, 1}
    /\ pc[p] \in {"send", "sent"} \/ request[p] # None \/ ran[p].times = 1 =>
          Matches(head[p], fence[p])
    /\ request[p] # None => ran[p].times = 0 /\ answer[p] = 0
    /\ ran[p].times = 1 => ran[p].as = fence[p] /\ answer[p] = 200
    /\ answer[p] = 200 => ran[p].times = 1
    /\ result[p] = "ok" /\ cmd[p].authority # "none" => ran[p].times = 1
    /\ result[p] \in Refusals => ran[p].times = 0 /\ request[p] = None
    /\ result[p] \in Unsettled \ {"desktop_unreachable"} => request[p] = None

\* What a search has still to look at, has found or could not use covers the
\* applications that were up when it began, still are and answered their probe.
Covers(p) ==
    /\ \A d \in steady[p] : Published(d)
    /\ IsFiniteSet(live[p])
    /\ pc[p] \in {"read", "probe"} =>
          /\ cmd[p].named = None
          /\ \A d \in steady[p] :
                d \in todo[p] \/ d \in unusable[p] \/ <<d, file[d]>> \in live[p]
    /\ pc[p] = "probe" =>
          /\ at[p] \in Descriptors /\ todo[p] # {}
          /\ Next1(p) \in steady[p] => at[p] = file[Next1(p)]
    /\ pc[p] \in {"session", "send", "sent"} => at[p] \in Descriptors
    /\ cmd[p].named = None =>
          /\ pc[p] \in {"session", "send", "sent"} =>
                \A d \in steady[p] \ unusable[p] : at[p] = file[d]
          /\ pc[p] = "launch" \/ result[p] = "absent" => steady[p] = {}
          /\ result[p] \in {"descriptor_unusable", "desktop_unreachable"} /\ at[p] = None =>
                steady[p] \subseteq unusable[p]

\* An application is started from the gate only, which is then left.
Launches(p) ==
    /\ launches[p] <= 1
    /\ stage[p] = "gate" \/ pc[p] = "start" => launches[p] = 0
    /\ pc[p] = "launch" => stage[p] = "gate"

Good(p) == Says(p) /\ Covers(p) /\ Launches(p)

\* What runs has a port and a secret of its own.
Placed == \A d \in Profiles : Up(d) => app[d].port \in Ports

IInv == TypeOK /\ Placed /\ \A p \in Procs : Good(p)

----------------------------------------------------------------------------
(* What every step uses.                                                   *)

\* A set of numbers has a least one.
LEMMA Least ==
    ASSUME NEW T, T \subseteq Nat, T # {}
    PROVE  \E n \in T : \A m \in T : n <= m
  <1> DEFINE Less == {ss \in Nat \X Nat : ss[1] < ss[2]}
  <1>1. IsWellFoundedOn(Less, Nat)
    BY NatLessThanWellFounded DEF OpToRel
  <1>2. PICK n \in T : \A m \in T : <<m, n>> \notin Less
    <2> HIDE DEF Less
    <2> QED
      BY <1>1, WFMin
  <1>3. ASSUME NEW m \in T
        PROVE  n <= m
    <2>1. m \in Nat /\ n \in Nat /\ <<m, n>> \notin Less
      BY <1>2
    <2>2. m < n => <<m, n>> \in Less
      BY <2>1, Zenon
    <2> QED
      BY <2>1, <2>2
  <1> QED
    BY <1>3

\* The next profile to look at is one of those that are left.
LEMMA NextIsLeft ==
    ASSUME TypeOK, NEW p \in Procs, todo[p] # {}
    PROVE  Next1(p) \in todo[p] /\ Next1(p) \in Profiles
  <1>1. todo[p] \subseteq Profiles /\ todo[p] \subseteq Nat
    BY ProfilesAreNumbers DEF TypeOK
  <1>2. \E d \in todo[p] : \A e \in todo[p] : d <= e
    BY <1>1, Least
  <1> QED
    BY <1>1, <1>2 DEF Next1

\* What belongs to a command stays as it is.
Stays(q) ==
    /\ pc'[q] = pc[q] /\ cmd'[q] = cmd[q] /\ stage'[q] = stage[q] /\ head'[q] = head[q]
    /\ todo'[q] = todo[q] /\ live'[q] = live[q] /\ unusable'[q] = unusable[q]
    /\ at'[q] = at[q] /\ fence'[q] = fence[q] /\ request'[q] = request[q]
    /\ answer'[q] = answer[q] /\ result'[q] = result[q] /\ polls'[q] = polls[q]
    /\ launches'[q] = launches[q] /\ ran'[q] = ran[q] /\ steady'[q] = steady[q]

\* An application that is up keeps its port and secret, and its file.
RunsOn == \A d \in Profiles : Published(d) => Published(d)' /\ file'[d] = file[d]

LEMMA StaysGood ==
    ASSUME NEW q \in Procs, TypeOK, Good(q), Stays(q), RunsOn
    PROVE  Good(q)'
  <1>1. Says(q)'
    BY DEF Good, Says, Stays, Matches
  <1>2. \A d \in steady[q] : d \in Profiles /\ Published(d)' /\ file'[d] = file[d]
    BY DEF Good, Covers, RunsOn, TypeOK
  <1>3. Next1(q)' = Next1(q)
    BY DEF Stays, Next1
  <1>4. Covers(q)'
    BY <1>2, <1>3 DEF Good, Covers, Stays
  <1>5. Launches(q)'
    BY DEF Good, Launches, Stays
  <1> QED
    BY <1>1, <1>4, <1>5 DEF Good

\* A step of one command leaves the others as they are.
LEMMA Assembled ==
    ASSUME IInv, NEW p \in Procs, TypeOK', Placed', RunsOn, Good(p)',
           \A q \in Procs \ {p} : Stays(q)
    PROVE  IInv'
  <1>1. ASSUME NEW q \in Procs
        PROVE  Good(q)'
    <2>1. CASE q = p
      BY <2>1
    <2>2. CASE q # p
      BY <2>2, StaysGood DEF IInv
    <2> QED
      BY <2>1, <2>2
  <1> QED
    BY <1>1 DEF IInv

\* ... and so do steps that touch no application.
LEMMA WorldStays ==
    ASSUME IInv, UNCHANGED <<app, file>>
    PROVE  Placed' /\ RunsOn
  BY DEF IInv, Placed, RunsOn, Published, Up

\* What Report and Goto do.
LEMMA Ended ==
    ASSUME TypeOK, NEW p \in Procs, NEW code \in Codes, Report(p, code)
    PROVE  /\ pc' \in [Procs -> {"start", "observe", "observe_device", "list", "read", "probe",
                                  "launch", "wait", "session", "send", "sent", "done"}]
           /\ result' \in [Procs -> Codes \cup {None}]
           /\ pc'[p] = "done" /\ result'[p] = code
           /\ \A q \in Procs \ {p} : pc'[q] = pc[q] /\ result'[q] = result[q]
  BY DEF Report, TypeOK

LEMMA Went ==
    ASSUME TypeOK, NEW p \in Procs,
           NEW label \in {"start", "observe", "observe_device", "list", "read", "probe",
                          "launch", "wait", "session", "send", "sent", "done"},
           Goto(p, label)
    PROVE  /\ pc' \in [Procs -> {"start", "observe", "observe_device", "list", "read", "probe",
                                  "launch", "wait", "session", "send", "sent", "done"}]
           /\ result' \in [Procs -> Codes \cup {None}]
           /\ pc'[p] = label /\ result' = result
           /\ \A q \in Procs \ {p} : pc'[q] = pc[q]
  BY DEF Goto, TypeOK

\* Before it sends, a command has had nothing executed, however it ends.
LEMMA Unsent ==
    ASSUME TypeOK, NEW p \in Procs, Says(p), pc[p] \notin {"send", "sent", "done"},
           request' = request, ran' = ran, answer'[p] \in {answer[p], 401},
           pc'[p] \notin {"send", "sent"},
           pc'[p] # "done" => result'[p] = None /\ answer'[p] = answer[p],
           result'[p] = "ok" => cmd'[p].authority = "none"
    PROVE  Says(p)'
  <1>1. request[p] = None /\ ran[p].times = 0 /\ answer[p] = 0 /\ answer'[p] # 200
    BY DEF Says
  <1> QED
    BY <1>1 DEF Says

\* A command that starts no application stays within the one start it has.
LEMMA StartsNone ==
    ASSUME NEW p \in Procs, Launches(p), launches' = launches, pc'[p] # "start",
           stage'[p] = "gate" => stage[p] = "gate" \/ pc[p] = "start",
           pc'[p] = "launch" => stage'[p] = "gate"
    PROVE  Launches(p)'
  BY DEF Launches

\* The applications a search found up are left as they were by other steps.
LEMMA SearchKept ==
    ASSUME IInv, NEW p \in Procs, UNCHANGED <<app, file>>,
           steady' = steady, live' = live, unusable' = unusable, cmd' = cmd,
           pc'[p] \notin {"read", "probe"},
           pc'[p] \in {"session", "send", "sent"} => at'[p] \in Descriptors,
           cmd[p].named = None /\ pc'[p] \in {"session", "send", "sent"} =>
               \A d \in steady[p] \ unusable[p] : at'[p] = file[d],
           cmd[p].named = None /\ (pc'[p] = "launch" \/ result'[p] = "absent") =>
               steady[p] = {},
           cmd[p].named = None
             /\ result'[p] \in {"descriptor_unusable", "desktop_unreachable"} /\ at'[p] = None =>
               steady[p] \subseteq unusable[p]
    PROVE  Covers(p)'
  BY DEF IInv, Good, Covers, Published, Up

----------------------------------------------------------------------------
(* The steps of a command up to its search.                                *)

LEMMA BeginKeeps == ASSUME IInv, NEW p \in Procs, Begin(p) PROVE IInv'
  <1>1. PICK c \in Menu :
           /\ cmd' = [cmd EXCEPT ![p] = c]
           /\ stage' = [stage EXCEPT ![p] =
                           IF c.mcp /\ c.authority # "none" THEN "gate" ELSE "tool"]
           /\ pc' = [pc EXCEPT ![p] =
                        IF stage'[p] = "tool" /\ c.authority \in {"user", "project"}
                        THEN "observe" ELSE "list"]
    BY DEF Begin
  <1>2. /\ pc[p] = "start" /\ UNCHANGED <<world, head, search, sent, polls, launches, result, bounds>>
    BY DEF Begin
  <1>3. c \in Commands /\ pc'[p] \in {"observe", "list"} /\ cmd'[p] = c
    BY <1>1, InstanceIsSmall DEF IInv, TypeOK
  <1>4. TypeOK'
    BY <1>1, <1>2, <1>3 DEF IInv, TypeOK, world, search, sent, bounds
  <1>5. result'[p] = None /\ None \notin Codes /\ Good(p) /\ TypeOK
    BY <1>2, NoneIsApart DEF IInv, Good, Says
  <1>6. Says(p)'
    <2>1. request' = request /\ ran' = ran /\ answer' = answer
      BY <1>2 DEF sent
    <2> QED
      BY <1>2, <1>3, <1>5, <2>1, Unsent DEF Good, Codes
  <1>9. Covers(p)'
    BY <1>2, <1>3, <1>5 DEF Good, Covers, Published, Up, world, search, Codes
  <1>7. Launches(p)'
    BY <1>2, <1>3, StartsNone DEF IInv, Good
  <1>8. \A q \in Procs \ {p} : Stays(q)
    BY <1>1, <1>2 DEF IInv, TypeOK, Stays, world, search, sent
  <1> QED
    BY <1>2, <1>4, <1>6, <1>7, <1>8, <1>9, WorldStays, Assembled DEF Good, world

LEMMA ObserveKeeps ==
    ASSUME IInv, NEW p \in Procs, ObserveRefresh(p) \/ ObserveDevice(p)
    PROVE  IInv'
  <1>1. /\ pc[p] \in {"observe", "observe_device"}
        /\ UNCHANGED <<world, cmd, search, sent, gate, bounds>>
        /\ head' \in [Procs -> Identities \cup {None}]
        /\ \A q \in Procs \ {p} : head'[q] = head[q]
        /\ \/ \E label \in {"observe_device", "list"} : Goto(p, label)
           \/ Report(p, "auth_context_mismatch")
    BY DEF ObserveRefresh, ObserveDevice, IInv, TypeOK
  <1>2. /\ pc' \in [Procs -> {"start", "observe", "observe_device", "list", "read", "probe",
                              "launch", "wait", "session", "send", "sent", "done"}]
        /\ result' \in [Procs -> Codes \cup {None}]
        /\ pc'[p] \in {"observe_device", "list", "done"}
        /\ pc'[p] # "done" => result'[p] = result[p]
        /\ pc'[p] = "done" => result'[p] = "auth_context_mismatch"
        /\ \A q \in Procs \ {p} : pc'[q] = pc[q] /\ result'[q] = result[q]
    <2>1. CASE Report(p, "auth_context_mismatch")
      BY <2>1, Ended DEF IInv, Codes
    <2>2. CASE \E label \in {"observe_device", "list"} : Goto(p, label)
      BY <2>2, Went DEF IInv
    <2> QED
      BY <1>1, <2>1, <2>2
  <1>3. TypeOK'
    BY <1>1, <1>2 DEF IInv, TypeOK, world, search, sent, gate, bounds
  <1>4. result[p] = None
    BY <1>1 DEF IInv, Good, Says
  <1>5. Says(p)'
    BY <1>1, <1>2, <1>4, Unsent, NoneIsApart DEF IInv, Good, sent, Codes
  <1>6. Covers(p)'
    BY <1>1, <1>2, <1>4, SearchKept, NoneIsApart DEF world, search, Codes
  <1>7. Launches(p)'
    BY <1>1, <1>2, StartsNone DEF IInv, Good, gate
  <1>8. \A q \in Procs \ {p} : Stays(q)
    BY <1>1, <1>2 DEF Stays, search, sent, gate
  <1> QED
    BY <1>1, <1>3, <1>5, <1>6, <1>7, <1>8, WorldStays, Assembled DEF Good, world

LEMMA StateUnsafeKeeps == ASSUME IInv, NEW p \in Procs, StateUnsafe(p) PROVE IInv'
  <1>1. /\ pc[p] \in {"observe", "observe_device"}
        /\ UNCHANGED <<world, cmd, head, search, sent, gate, starts, moves>>
        /\ faults' \in 0..MaxFaults
        /\ Report(p, "native_state_unsafe")
    BY BoundsAreNaturals DEF StateUnsafe, IInv, TypeOK
  <1>2. "native_state_unsafe" \in Codes /\ TypeOK /\ Good(p)
    BY DEF Codes, IInv
  <1>3. /\ pc' \in [Procs -> {"start", "observe", "observe_device", "list", "read", "probe",
                              "launch", "wait", "session", "send", "sent", "done"}]
        /\ result' \in [Procs -> Codes \cup {None}]
        /\ pc'[p] = "done" /\ result'[p] = "native_state_unsafe"
        /\ \A q \in Procs \ {p} : pc'[q] = pc[q] /\ result'[q] = result[q]
    BY <1>1, <1>2, Ended
  <1>4. TypeOK'
    BY <1>1, <1>3 DEF IInv, TypeOK, world, search, sent, gate
  <1>5. Says(p)'
    BY <1>1, <1>2, <1>3, Unsent DEF Good, sent
  <1>6. Covers(p)'
    BY <1>1, <1>3, SearchKept DEF world, search
  <1>7. Launches(p)'
    BY <1>1, <1>2, <1>3, StartsNone DEF Good, gate
  <1>8. \A q \in Procs \ {p} : Stays(q)
    BY <1>1, <1>3 DEF Stays, search, sent, gate
  <1> QED
    BY <1>1, <1>4, <1>5, <1>6, <1>7, <1>8, WorldStays, Assembled DEF Good, world

\* A search that fails says so in its own words, or in those of the MCP gate.
LEMMA Refused ==
    ASSUME TypeOK, NEW p \in Procs, NEW code \in Codes, Refuse(p, code)
    PROVE  /\ pc' \in [Procs -> {"start", "observe", "observe_device", "list", "read", "probe",
                                  "launch", "wait", "session", "send", "sent", "done"}]
           /\ result' \in [Procs -> Codes \cup {None}]
           /\ pc'[p] = "done" /\ result'[p] \in {code, "desktop_not_paired"}
           /\ \A q \in Procs \ {p} : pc'[q] = pc[q] /\ result'[q] = result[q]
  <1>1. CASE stage[p] = "tool"
    BY <1>1, Ended DEF Refuse
  <1>2. CASE stage[p] # "tool"
    <2>1. "desktop_not_paired" \in Codes
      BY DEF Codes
    <2> QED
      BY <1>2, <2>1, Ended DEF Refuse
  <1> QED
    BY <1>1, <1>2

LEMMA ListKeeps == ASSUME IInv, NEW p \in Procs, List(p) PROVE IInv'
  <1> DEFINE named == cmd[p].named
  <1>1. pc[p] = "list" /\ UNCHANGED <<world, cmd, head, sent, gate, bounds>>
    BY DEF List
  <1>2. TypeOK /\ Good(p) /\ result[p] = None /\ None \notin Codes
    BY <1>1, NoneIsApart DEF IInv, Good, Says
  <1>3. /\ app' = app /\ file' = file /\ cmd' = cmd /\ head' = head /\ stage' = stage
        /\ fence' = fence /\ request' = request /\ answer' = answer /\ ran' = ran
        /\ polls' = polls /\ launches' = launches
    BY <1>1 DEF world, sent, gate
  <1>4. CASE /\ named # None
             /\ \E code \in {"descriptor_unusable", "desktop_unreachable"} : Refuse(p, code)
             /\ UNCHANGED search
    <2>1. PICK code \in {"descriptor_unusable", "desktop_unreachable"} : Refuse(p, code)
      BY <1>4
    <2>2. UNCHANGED search
      BY <1>4
    <2>3. /\ pc' \in [Procs -> {"start", "observe", "observe_device", "list", "read", "probe",
                              "launch", "wait", "session", "send", "sent", "done"}]
          /\ result' \in [Procs -> Codes \cup {None}]
          /\ pc'[p] = "done" /\ result'[p] \in {code, "desktop_not_paired"}
          /\ \A q \in Procs \ {p} : pc'[q] = pc[q] /\ result'[q] = result[q]
      <3>1. code \in Codes
        BY DEF Codes
      <3> QED
        BY <1>2, <2>1, <3>1, Refused
    <2>4. TypeOK'
      BY <1>1, <1>2, <2>2, <2>3 DEF TypeOK, world, sent, gate, bounds, search
    <2>5. Says(p)'
      BY <1>1, <1>2, <1>3, <2>3, Unsent DEF Good
    <2>6. Covers(p)'
      BY <1>3, <1>4, <2>2, <2>3, SearchKept DEF search
    <2>7. Launches(p)'
      BY <1>1, <1>2, <1>3, <2>3, StartsNone DEF Good
    <2>8. \A q \in Procs \ {p} : Stays(q)
      BY <1>3, <2>2, <2>3 DEF Stays, search
    <2> QED
      BY <1>3, <2>4, <2>5, <2>6, <2>7, <2>8, WorldStays, Assembled DEF Good
  <1>5. CASE /\ named # None /\ file[named] # None
             /\ at' = [at EXCEPT ![p] = file[named]]
             /\ Goto(p, "session")
             /\ UNCHANGED <<todo, live, unusable, steady>>
    <2>1. /\ at' = [at EXCEPT ![p] = file[named]]
          /\ Goto(p, "session")
          /\ UNCHANGED <<todo, live, unusable, steady>>
      BY <1>5
    <2>2. /\ pc' \in [Procs -> {"start", "observe", "observe_device", "list", "read", "probe",
                              "launch", "wait", "session", "send", "sent", "done"}]
          /\ result' \in [Procs -> Codes \cup {None}]
          /\ pc'[p] = "session" /\ result' = result
          /\ \A q \in Procs \ {p} : pc'[q] = pc[q]
      BY <1>2, <2>1, Went
    <2>3. named \in Profiles
      BY <1>2, <1>5 DEF TypeOK, Commands
    <2>4. at' \in [Procs -> Descriptors \cup {None}] /\ at'[p] \in Descriptors
      BY <1>2, <1>5, <2>1, <2>3 DEF TypeOK
    <2>5. TypeOK'
      BY <1>1, <1>2, <2>1, <2>2, <2>4 DEF TypeOK, world, sent, gate, bounds
    <2>6. Says(p)'
      BY <1>1, <1>2, <1>3, <2>2, Unsent DEF Good, Codes
    <2>7. Covers(p)'
      BY <1>2, <1>3, <1>5, <2>1, <2>2, <2>4, SearchKept DEF Codes
    <2>8. Launches(p)'
      BY <1>1, <1>2, <1>3, <2>2, StartsNone DEF Good
    <2>9. \A q \in Procs \ {p} : Stays(q)
      BY <1>2, <1>3, <2>1, <2>2 DEF Stays, TypeOK
    <2> QED
      BY <1>3, <2>5, <2>6, <2>7, <2>8, <2>9, WorldStays, Assembled DEF Good
  <1>6. CASE named = None
    <2>1. /\ todo' = [todo EXCEPT ![p] = {d \in Profiles : file[d] # None}]
          /\ unusable' = [unusable EXCEPT ![p] = {}]
          /\ steady' = [steady EXCEPT ![p] = {d \in Profiles : Published(d)}]
          /\ Goto(p, "read")
          /\ UNCHANGED <<live, at>>
      BY <1>6 DEF List
    <2>2. /\ pc' \in [Procs -> {"start", "observe", "observe_device", "list", "read", "probe",
                              "launch", "wait", "session", "send", "sent", "done"}]
          /\ result' \in [Procs -> Codes \cup {None}]
          /\ pc'[p] = "read" /\ result' = result
          /\ \A q \in Procs \ {p} : pc'[q] = pc[q]
      BY <1>2, <2>1, Went
    <2>3. /\ todo' \in [Procs -> SUBSET Profiles] /\ steady' \in [Procs -> SUBSET Profiles]
          /\ unusable' \in [Procs -> SUBSET Profiles]
          /\ todo'[p] = {d \in Profiles : file[d] # None}
          /\ steady'[p] = {d \in Profiles : Published(d)}
      BY <1>2, <2>1 DEF TypeOK
    <2>4. TypeOK'
      BY <1>1, <1>2, <2>1, <2>2, <2>3 DEF TypeOK, world, sent, gate, bounds
    <2>5. Says(p)'
      BY <1>1, <1>2, <1>3, <2>2, Unsent DEF Good, Codes
    <2>6. ASSUME NEW d \in Profiles, Published(d)
          PROVE  file[d] # None
      <3>1. app[d].port \in Ports /\ app[d].token \in 1..MaxStarts
        BY <2>6, BoundsAreNaturals DEF IInv, Placed, Published, Up, TypeOK, Apps
      <3> QED
        BY <2>6, <3>1, NoneIsApart DEF Published, Descriptors
    <2>7. Covers(p)'
      BY <1>2, <1>3, <1>6, <2>1, <2>2, <2>3, <2>6 DEF Good, Covers, Published, Up, Codes
    <2>8. Launches(p)'
      BY <1>1, <1>2, <1>3, <2>2, StartsNone DEF Good
    <2>9. \A q \in Procs \ {p} : Stays(q)
      BY <1>2, <1>3, <2>1, <2>2 DEF Stays, TypeOK
    <2> QED
      BY <1>3, <2>4, <2>5, <2>7, <2>8, <2>9, WorldStays, Assembled DEF Good
  <1> QED
    BY <1>4, <1>5, <1>6 DEF List

LEMMA ReadDescriptorKeeps == ASSUME IInv, NEW p \in Procs, ReadDescriptor(p) PROVE IInv'
  <1> DEFINE d == Next1(p)
  <1>1. /\ pc[p] = "read" /\ todo[p] # {}
        /\ UNCHANGED <<world, cmd, head, live, steady, sent, gate, bounds>>
    BY DEF ReadDescriptor
  <1>2. TypeOK /\ Good(p) /\ result[p] = None /\ None \notin Codes
    BY <1>1, NoneIsApart DEF IInv, Good, Says
  <1>3. /\ app' = app /\ file' = file /\ cmd' = cmd /\ head' = head /\ stage' = stage
        /\ fence' = fence /\ request' = request /\ answer' = answer /\ ran' = ran
        /\ polls' = polls /\ launches' = launches /\ live' = live /\ steady' = steady
    BY <1>1 DEF world, sent, gate
  <1>4. d \in todo[p] /\ d \in Profiles
    BY <1>1, <1>2, NextIsLeft
  <1>5. CASE /\ file[d] # None
             /\ at' = [at EXCEPT ![p] = file[d]]
             /\ Goto(p, "probe")
             /\ UNCHANGED <<todo, unusable>>
    <2>1. /\ at' = [at EXCEPT ![p] = file[d]]
          /\ Goto(p, "probe")
          /\ UNCHANGED <<todo, unusable>>
      BY <1>5
    <2>2. /\ pc' \in [Procs -> {"start", "observe", "observe_device", "list", "read", "probe",
                              "launch", "wait", "session", "send", "sent", "done"}]
          /\ result' \in [Procs -> Codes \cup {None}]
          /\ pc'[p] = "probe" /\ result' = result
          /\ \A q \in Procs \ {p} : pc'[q] = pc[q]
      BY <1>2, <2>1, Went
    <2>3. /\ at' \in [Procs -> Descriptors \cup {None}]
          /\ at'[p] = file[d] /\ at'[p] \in Descriptors
      BY <1>2, <1>4, <1>5, <2>1 DEF TypeOK
    <2>4. TypeOK'
      BY <1>1, <1>2, <2>1, <2>2, <2>3 DEF TypeOK, world, sent, gate, bounds
    <2>5. Says(p)'
      BY <1>1, <1>2, <1>3, <2>2, Unsent DEF Good, Codes
    <2>6. Next1(p)' = d
      BY <2>1 DEF Next1
    <2>7. Covers(p)'
      BY <1>1, <1>2, <1>3, <2>1, <2>2, <2>3, <2>6 DEF Good, Covers, Published, Up, Codes
    <2>8. Launches(p)'
      BY <1>1, <1>2, <1>3, <2>2, StartsNone DEF Good
    <2>9. \A q \in Procs \ {p} : Stays(q)
      BY <1>2, <1>3, <2>1, <2>2 DEF Stays, TypeOK
    <2> QED
      BY <1>3, <2>4, <2>5, <2>7, <2>8, <2>9, WorldStays, Assembled DEF Good
  <1>6. CASE /\ todo' = [todo EXCEPT ![p] = @ \ {d}]
             /\ unusable' = [unusable EXCEPT ![p] = @ \cup {d}]
             /\ UNCHANGED <<at, pc, result>>
    <2>1. /\ todo' = [todo EXCEPT ![p] = @ \ {d}]
          /\ unusable' = [unusable EXCEPT ![p] = @ \cup {d}]
          /\ UNCHANGED <<at, pc, result>>
      BY <1>6
    <2>2. /\ todo' \in [Procs -> SUBSET Profiles] /\ todo'[p] = todo[p] \ {d}
          /\ unusable' \in [Procs -> SUBSET Profiles] /\ unusable'[p] = unusable[p] \cup {d}
      <3> HIDE DEF d
      <3> QED
        BY <1>2, <1>4, <2>1 DEF TypeOK
    <2>3. TypeOK'
      BY <1>1, <1>2, <2>1, <2>2 DEF TypeOK, world, sent, gate, bounds
    <2>4. Says(p)'
      BY <1>1, <1>2, <1>3, <2>1, Unsent DEF Good, Codes
    <2>5. ASSUME NEW e \in steady[p]
          PROVE  e \in todo'[p] \/ e \in unusable'[p] \/ <<e, file[e]>> \in live[p]
      BY <1>1, <1>2, <2>2 DEF Good, Covers
    <2>6. Covers(p)'
      BY <1>1, <1>2, <1>3, <2>1, <2>2, <2>5 DEF Good, Covers, Published, Up, Codes
    <2>7. Launches(p)'
      BY <1>1, <1>2, <1>3, <2>1, StartsNone DEF Good
    <2>8. \A q \in Procs \ {p} : Stays(q)
      BY <1>2, <1>3, <2>1 DEF Stays, TypeOK
    <2> QED
      BY <1>3, <2>3, <2>4, <2>6, <2>7, <2>8, WorldStays, Assembled DEF Good
  <1> QED
    BY <1>5, <1>6 DEF ReadDescriptor

LEMMA ProbeKeeps == ASSUME IInv, NEW p \in Procs, Probe(p) PROVE IInv'
  <1> DEFINE d == Next1(p)
  <1>1. /\ pc[p] = "probe"
        /\ \/ live' = [live EXCEPT ![p] = @ \cup {<<d, at[p]>>}] /\ steady' = steady
           \/ live' = live /\ steady' = [steady EXCEPT ![p] = @ \ {d}]
        /\ todo' = [todo EXCEPT ![p] = @ \ {d}]
        /\ Goto(p, "read")
        /\ UNCHANGED <<world, cmd, head, unusable, at, sent, gate, bounds>>
    BY DEF Probe
  <1>2. TypeOK /\ Good(p) /\ result[p] = None /\ None \notin Codes
    BY <1>1, NoneIsApart DEF IInv, Good, Says
  <1>3. /\ app' = app /\ file' = file /\ cmd' = cmd /\ head' = head /\ stage' = stage
        /\ fence' = fence /\ request' = request /\ answer' = answer /\ ran' = ran
        /\ polls' = polls /\ launches' = launches /\ at' = at
        /\ unusable' = unusable
    BY <1>1 DEF world, sent, gate
  <1>4. /\ pc' \in [Procs -> {"start", "observe", "observe_device", "list", "read", "probe",
                              "launch", "wait", "session", "send", "sent", "done"}]
        /\ result' \in [Procs -> Codes \cup {None}]
        /\ pc'[p] = "read" /\ result' = result
        /\ \A q \in Procs \ {p} : pc'[q] = pc[q]
    BY <1>1, <1>2, Went
  <1>5. at[p] \in Descriptors /\ d \in todo[p] /\ d \in Profiles
    BY <1>1, <1>2, NextIsLeft DEF Good, Covers
  <1>6. /\ todo' \in [Procs -> SUBSET Profiles] /\ todo'[p] = todo[p] \ {d}
        /\ live' \in [Procs -> SUBSET (Profiles \X Descriptors)]
        /\ steady' \in [Procs -> SUBSET Profiles]
        /\ \/ live'[p] = live[p] \cup {<<d, at[p]>>} /\ steady'[p] = steady[p]
           \/ live'[p] = live[p] /\ steady'[p] = steady[p] \ {d}
        /\ \A q \in Procs \ {p} : live'[q] = live[q] /\ steady'[q] = steady[q]
    <2> HIDE DEF d
    <2>1. <<d, at[p]>> \in Profiles \X Descriptors
      BY <1>5
    <2>2. CASE live' = [live EXCEPT ![p] = @ \cup {<<d, at[p]>>}] /\ steady' = steady
      BY <1>1, <1>2, <2>1, <2>2 DEF TypeOK
    <2>3. CASE live' = live /\ steady' = [steady EXCEPT ![p] = @ \ {d}]
      BY <1>1, <1>2, <2>3 DEF TypeOK
    <2> QED
      BY <1>1, <2>2, <2>3
  <1>7. TypeOK'
    BY <1>1, <1>2, <1>3, <1>4, <1>6 DEF TypeOK, world, sent, gate, bounds
  <1>8. Says(p)'
    BY <1>1, <1>2, <1>3, <1>4, Unsent DEF Good, Codes
  <1>9. IsFiniteSet(live'[p])
    <2> HIDE DEF d
    <2>1. IsFiniteSet(live[p])
      BY <1>2 DEF Good, Covers
    <2>2. IsFiniteSet(live[p] \cup {<<d, at[p]>>})
      BY <2>1, FS_AddElement
    <2> QED
      BY <1>6, <2>1, <2>2
  <1>10. ASSUME NEW e \in steady'[p]
         PROVE  /\ e \in steady[p]
                /\ e \in todo'[p] \/ e \in unusable[p] \/ <<e, file[e]>> \in live'[p]
    <2>1. e \in steady[p] /\ (e = d => live'[p] = live[p] \cup {<<d, at[p]>>})
      BY <1>6, <1>10
    <2>2. CASE e # d
      BY <1>1, <1>2, <1>6, <2>1, <2>2 DEF Good, Covers
    <2>3. CASE e = d
      <3>1. at[p] = file[d]
        BY <1>1, <1>2, <2>1, <2>3 DEF Good, Covers
      <3> QED
        BY <2>1, <2>3, <3>1
    <2> QED
      BY <2>1, <2>2, <2>3
  <1>11. Covers(p)'
    <2> HIDE DEF d
    <2> QED
      BY <1>1, <1>2, <1>3, <1>4, <1>9, <1>10 DEF Good, Covers, Published, Up, Codes
  <1>12. Launches(p)'
    BY <1>1, <1>2, <1>3, <1>4, StartsNone DEF Good
  <1>13. \A q \in Procs \ {p} : Stays(q)
    BY <1>1, <1>2, <1>3, <1>4, <1>6 DEF Stays, TypeOK
  <1> QED
    BY <1>3, <1>7, <1>8, <1>11, <1>12, <1>13, WorldStays, Assembled DEF Good

\* What a search that is through has found: the only live descriptor is that of
\* whatever was up all the while and could be read, and with none live nothing was.
LEMMA Found ==
    ASSUME TypeOK, NEW p \in Procs, Covers(p), pc[p] = "read", todo[p] = {}
    PROVE  /\ live[p] = {} => steady[p] \subseteq unusable[p]
           /\ Cardinality(live[p]) = 1 =>
                 \A found \in live[p] :
                     /\ found[2] \in Descriptors
                     /\ \A d \in steady[p] \ unusable[p] : found[2] = file[d]
  <1>1. \A d \in steady[p] \ unusable[p] : <<d, file[d]>> \in live[p]
    BY DEF Covers
  <1>2. ASSUME Cardinality(live[p]) = 1, NEW found \in live[p]
        PROVE  /\ found[2] \in Descriptors
               /\ \A d \in steady[p] \ unusable[p] : found[2] = file[d]
    <2>1. PICK only : live[p] = {only}
      BY <1>2, FS_Singleton DEF Covers
    <2>2. found[2] \in Descriptors
      BY <1>2 DEF TypeOK
    <2>3. \A d \in steady[p] \ unusable[p] : <<d, file[d]>> = found
      BY <1>1, <1>2, <2>1
    <2> QED
      BY <2>2, <2>3
  <1> QED
    BY <1>1, <1>2

LEMMA SelectKeeps == ASSUME IInv, NEW p \in Procs, Select(p) PROVE IInv'
  <1>1. /\ pc[p] = "read" /\ todo[p] = {}
        /\ live' = [live EXCEPT ![p] = {}]
        /\ UNCHANGED <<world, cmd, head, todo, unusable, steady, sent, gate, bounds>>
    BY DEF Select
  <1>2. TypeOK /\ Good(p) /\ result[p] = None /\ None \notin Codes
    BY <1>1, NoneIsApart DEF IInv, Good, Says
  <1>3. /\ app' = app /\ file' = file /\ cmd' = cmd /\ head' = head /\ stage' = stage
        /\ fence' = fence /\ request' = request /\ answer' = answer /\ ran' = ran
        /\ polls' = polls /\ launches' = launches /\ steady' = steady /\ todo' = todo
        /\ unusable' = unusable
    BY <1>1 DEF world, sent, gate
  <1>4. /\ live' \in [Procs -> SUBSET (Profiles \X Descriptors)] /\ live'[p] = {}
    BY <1>1, <1>2 DEF TypeOK
  <1>5. /\ live[p] = {} => steady[p] \subseteq unusable[p]
        /\ Cardinality(live[p]) = 1 =>
              \A found \in live[p] :
                  /\ found[2] \in Descriptors
                  /\ \A d \in steady[p] \ unusable[p] : found[2] = file[d]
    BY <1>1, <1>2, Found DEF Good
  <1>6. ASSUME at' \in [Procs -> Descriptors \cup {None}],
               \A q \in Procs \ {p} : at'[q] = at[q],
               pc' \in [Procs -> {"start", "observe", "observe_device", "list", "read", "probe",
                              "launch", "wait", "session", "send", "sent", "done"}],
               result' \in [Procs -> Codes \cup {None}],
               \A q \in Procs \ {p} : pc'[q] = pc[q] /\ result'[q] = result[q],
               pc'[p] \in {"session", "launch", "wait", "done"},
               pc'[p] # "done" => result'[p] = None,
               result'[p] # "ok",
               pc'[p] = "session" =>
                   /\ at'[p] \in Descriptors
                   /\ \A d \in steady[p] \ unusable[p] : at'[p] = file[d],
               pc'[p] = "launch" => stage[p] = "gate" /\ steady[p] = {},
               result'[p] = "absent" => steady[p] = {},
               result'[p] \in {"descriptor_unusable", "desktop_unreachable"} =>
                   steady[p] \subseteq unusable[p]
        PROVE  IInv'
    <2>1. TypeOK'
      BY <1>1, <1>2, <1>3, <1>4, <1>6 DEF TypeOK, world, sent, gate, bounds
    <2>2. Says(p)'
      BY <1>1, <1>2, <1>3, <1>6, Unsent DEF Good
    <2>3. IsFiniteSet(live'[p])
      BY <1>4, FS_EmptySet
    <2>4. Covers(p)'
      BY <1>2, <1>3, <1>6, <2>3 DEF Good, Covers, Published, Up
    <2>5. Launches(p)'
      BY <1>2, <1>3, <1>6, StartsNone DEF Good
    <2>6. \A q \in Procs \ {p} : Stays(q)
      BY <1>1, <1>2, <1>3, <1>6 DEF Stays, TypeOK
    <2> QED
      BY <1>3, <2>1, <2>2, <2>4, <2>5, <2>6, WorldStays, Assembled DEF Good
  <1>7. ASSUME NEW found \in live[p], Cardinality(live[p]) = 1,
               at' = [at EXCEPT ![p] = found[2]], Goto(p, "session")
        PROVE  IInv'
    <2>1. found[2] \in Descriptors /\ \A d \in steady[p] \ unusable[p] : found[2] = file[d]
      BY <1>5, <1>7
    <2>2. /\ at' \in [Procs -> Descriptors \cup {None}] /\ at'[p] = found[2]
          /\ \A q \in Procs \ {p} : at'[q] = at[q]
      BY <1>2, <1>7, <2>1 DEF TypeOK
    <2>3. /\ pc' \in [Procs -> {"start", "observe", "observe_device", "list", "read", "probe",
                              "launch", "wait", "session", "send", "sent", "done"}]
          /\ result' \in [Procs -> Codes \cup {None}]
          /\ pc'[p] = "session" /\ result' = result
          /\ \A q \in Procs \ {p} : pc'[q] = pc[q]
      BY <1>2, <1>7, Went
    <2> QED
      BY <1>2, <1>6, <2>1, <2>2, <2>3 DEF Codes
  <1>8. ASSUME at' = [at EXCEPT ![p] = None],
               NEW code \in Codes \ {"ok"},
               Refuse(p, code) \/ Report(p, code),
               code \in {"descriptor_unusable", "desktop_unreachable"} => live[p] = {},
               code = "absent" => live[p] = {} /\ unusable[p] = {}
        PROVE  IInv'
    <2>1. /\ pc' \in [Procs -> {"start", "observe", "observe_device", "list", "read", "probe",
                              "launch", "wait", "session", "send", "sent", "done"}]
          /\ result' \in [Procs -> Codes \cup {None}]
          /\ pc'[p] = "done" /\ result'[p] \in {code, "desktop_not_paired"}
          /\ \A q \in Procs \ {p} : pc'[q] = pc[q] /\ result'[q] = result[q]
      BY <1>2, <1>8, Refused, Ended
    <2>2. /\ at' \in [Procs -> Descriptors \cup {None}]
          /\ \A q \in Procs \ {p} : at'[q] = at[q]
      BY <1>2, <1>8 DEF TypeOK
    <2> QED
      BY <1>5, <1>6, <1>8, <2>1, <2>2
  <1>9. ASSUME at' = [at EXCEPT ![p] = None], live[p] = {}, unusable[p] = {},
               NEW label \in {"launch", "wait"}, Goto(p, label),
               label = "launch" => stage[p] = "gate"
        PROVE  IInv'
    <2>1. /\ pc' \in [Procs -> {"start", "observe", "observe_device", "list", "read", "probe",
                              "launch", "wait", "session", "send", "sent", "done"}]
          /\ result' \in [Procs -> Codes \cup {None}]
          /\ pc'[p] = label /\ result' = result
          /\ \A q \in Procs \ {p} : pc'[q] = pc[q]
      BY <1>2, <1>9, Went
    <2>2. /\ at' \in [Procs -> Descriptors \cup {None}]
          /\ \A q \in Procs \ {p} : at'[q] = at[q]
      BY <1>2, <1>9 DEF TypeOK
    <2> QED
      BY <1>2, <1>5, <1>6, <1>9, <2>1, <2>2 DEF Codes
  <1>10. \/ /\ Cardinality(live[p]) = 1
            /\ \E found \in live[p] : at' = [at EXCEPT ![p] = found[2]]
            /\ Goto(p, "session")
         \/ Refuse(p, "desktop_ambiguous") /\ at' = [at EXCEPT ![p] = None]
         \/ /\ live[p] = {}
            /\ \E code \in {"descriptor_unusable", "desktop_unreachable"} : Refuse(p, code)
            /\ at' = [at EXCEPT ![p] = None]
         \/ /\ live[p] = {} /\ unusable[p] = {} /\ at' = [at EXCEPT ![p] = None]
            /\ \/ stage[p] = "gate" /\ Goto(p, "launch")
               \/ stage[p] = "poll" /\ Goto(p, "wait")
               \/ \E code \in {"absent", "desktop_not_paired"} : Report(p, code)
    <2>1. stage[p] \in {"gate", "poll", "tool"}
      BY <1>2 DEF TypeOK
    <2> QED
      BY <2>1 DEF Select
  <1>11. {"desktop_ambiguous", "descriptor_unusable", "desktop_unreachable", "absent",
          "desktop_not_paired"} \subseteq Codes \ {"ok"}
    BY DEF Codes
  <1> QED
    BY <1>7, <1>8, <1>9, <1>10, <1>11

LEMMA LaunchKeeps == ASSUME IInv, NEW p \in Procs, Launch(p) PROVE IInv'
  <1>1. /\ pc[p] = "launch"
        /\ launches' = [launches EXCEPT ![p] = @ + 1]
        /\ stage' = [stage EXCEPT ![p] = "poll"]
        /\ UNCHANGED <<world, cmd, head, search, sent, polls, bounds>>
    BY DEF Launch
  <1>2. TypeOK /\ Good(p) /\ result[p] = None /\ None \notin Codes
    BY <1>1, NoneIsApart DEF IInv, Good, Says
  <1>3. /\ pc' \in [Procs -> {"start", "observe", "observe_device", "list", "read", "probe",
                              "launch", "wait", "session", "send", "sent", "done"}]
        /\ result' \in [Procs -> Codes \cup {None}]
        /\ \/ pc'[p] = "wait" /\ result'[p] = None
           \/ pc'[p] = "done" /\ result'[p] = "desktop_not_paired"
        /\ \A q \in Procs \ {p} : pc'[q] = pc[q] /\ result'[q] = result[q]
    <2>1. CASE Goto(p, "wait")
      BY <1>2, <2>1, Went
    <2>2. CASE Report(p, "desktop_not_paired")
      <3>1. "desktop_not_paired" \in Codes
        BY DEF Codes
      <3> QED
        BY <1>2, <2>2, <3>1, Ended
    <2> QED
      BY <2>1, <2>2 DEF Launch
  <1>4. /\ launches' \in [Procs -> Nat] /\ launches'[p] = 1
        /\ stage' \in [Procs -> {"gate", "poll", "tool"}] /\ stage'[p] = "poll"
        /\ \A q \in Procs \ {p} : launches'[q] = launches[q] /\ stage'[q] = stage[q]
    <2>1. launches[p] = 0
      BY <1>1, <1>2 DEF Good, Launches
    <2> QED
      BY <1>1, <1>2, <2>1 DEF TypeOK
  <1>5. TypeOK'
    BY <1>1, <1>2, <1>3, <1>4 DEF TypeOK, world, search, sent, bounds
  <1>6. Says(p)'
    <2>1. request' = request /\ ran' = ran /\ answer' = answer
      BY <1>1 DEF sent
    <2> QED
      BY <1>1, <1>2, <1>3, <2>1, Unsent DEF Good, Codes
  <1>7. Covers(p)'
    BY <1>1, <1>2, <1>3, SearchKept DEF world, search, Codes
  <1>8. Launches(p)'
    BY <1>3, <1>4 DEF Launches
  <1>9. \A q \in Procs \ {p} : Stays(q)
    BY <1>1, <1>3, <1>4 DEF Stays, search, sent
  <1> QED
    BY <1>1, <1>5, <1>6, <1>7, <1>8, <1>9, WorldStays, Assembled DEF Good, world

LEMMA WaitKeeps == ASSUME IInv, NEW p \in Procs, Wait(p) PROVE IInv'
  <1>1. /\ pc[p] = "wait"
        /\ UNCHANGED <<world, cmd, head, search, sent, stage, launches, bounds>>
    BY DEF Wait
  <1>2. TypeOK /\ Good(p) /\ result[p] = None /\ None \notin Codes
    BY <1>1, NoneIsApart DEF IInv, Good, Says
  <1>3. /\ pc' \in [Procs -> {"start", "observe", "observe_device", "list", "read", "probe",
                              "launch", "wait", "session", "send", "sent", "done"}]
        /\ result' \in [Procs -> Codes \cup {None}]
        /\ \/ pc'[p] = "list" /\ result'[p] = None
           \/ pc'[p] = "done" /\ result'[p] = "desktop_not_paired"
        /\ \A q \in Procs \ {p} : pc'[q] = pc[q] /\ result'[q] = result[q]
    <2>1. CASE Goto(p, "list")
      BY <1>2, <2>1, Went
    <2>2. CASE Report(p, "desktop_not_paired")
      <3>1. "desktop_not_paired" \in Codes
        BY DEF Codes
      <3> QED
        BY <1>2, <2>2, <3>1, Ended
    <2> QED
      BY <2>1, <2>2 DEF Wait
  <1>4. polls' \in [Procs -> 0..Polls] /\ \A q \in Procs \ {p} : polls'[q] = polls[q]
    <2>1. CASE polls' = polls
      BY <1>2, <2>1 DEF TypeOK
    <2>2. CASE polls[p] > 0 /\ polls' = [polls EXCEPT ![p] = @ - 1]
      <3>1. polls[p] - 1 \in 0..Polls
        BY <1>2, <2>2, BoundsAreNaturals DEF TypeOK
      <3> QED
        BY <1>2, <2>2, <3>1 DEF TypeOK
    <2> QED
      BY <2>1, <2>2 DEF Wait
  <1>5. TypeOK'
    BY <1>1, <1>2, <1>3, <1>4 DEF TypeOK, world, search, sent, bounds
  <1>6. Says(p)'
    <2>1. request' = request /\ ran' = ran /\ answer' = answer
      BY <1>1 DEF sent
    <2> QED
      BY <1>1, <1>2, <1>3, <2>1, Unsent DEF Good, Codes
  <1>7. Covers(p)'
    BY <1>1, <1>2, <1>3, SearchKept DEF world, search, Codes
  <1>8. Launches(p)'
    BY <1>1, <1>2, <1>3, StartsNone DEF Good
  <1>9. \A q \in Procs \ {p} : Stays(q)
    BY <1>1, <1>3, <1>4 DEF Stays, search, sent
  <1> QED
    BY <1>1, <1>5, <1>6, <1>7, <1>8, <1>9, WorldStays, Assembled DEF Good, world

----------------------------------------------------------------------------
(* The session and the operation.                                          *)

\* What is common to all that a session read may lead to.
LEMMA SessionRead ==
    ASSUME IInv, NEW p \in Procs, pc[p] = "session",
           UNCHANGED <<world, cmd, head, search, request, ran, polls, launches, starts, moves>>,
           fence' \in [Procs -> Fences \cup {None}],
           stage' \in [Procs -> {"gate", "poll", "tool"}],
           answer' \in [Procs -> {0, 200, 400, 401, 409, 422}],
           pc' \in [Procs -> {"start", "observe", "observe_device", "list", "read", "probe",
                              "launch", "wait", "session", "send", "sent", "done"}],
           result' \in [Procs -> Codes \cup {None}],
           faults' \in 0..MaxFaults,
           \A q \in Procs \ {p} :
               /\ fence'[q] = fence[q] /\ stage'[q] = stage[q] /\ answer'[q] = answer[q]
               /\ pc'[q] = pc[q] /\ result'[q] = result[q],
           stage'[p] \in {stage[p], "tool"}, answer'[p] \in {answer[p], 401},
           pc'[p] \in {"send", "observe", "list", "done"},
           pc'[p] # "done" => result'[p] = None /\ answer'[p] = answer[p],
           pc'[p] = "send" => Matches(head[p], fence'[p]),
           result'[p] \notin {"absent", "descriptor_unusable"},
           result'[p] = "ok" => cmd[p].authority = "none"
    PROVE  IInv'
  <1>1. TypeOK /\ Good(p)
    BY DEF IInv
  <1>2. /\ app' = app /\ file' = file /\ cmd' = cmd /\ head' = head /\ todo' = todo
        /\ live' = live /\ unusable' = unusable /\ at' = at /\ steady' = steady
    BY DEF world, search
  <1>3. TypeOK'
    BY <1>1, <1>2 DEF TypeOK, world
  <1>4. Says(p)'
    <2>1. CASE pc'[p] = "send"
      BY <1>1, <1>2, <2>1, NoneIsApart DEF Good, Says, Codes, Refusals, Matches
    <2>2. CASE pc'[p] # "send"
      BY <1>1, <1>2, <2>2, Unsent DEF Good
    <2> QED
      BY <2>1, <2>2
  <1>5. Covers(p)'
    BY <1>1, <1>2, SearchKept, NoneIsApart DEF Good, Covers
  <1>6. Launches(p)'
    BY <1>1, StartsNone DEF Good
  <1>7. \A q \in Procs \ {p} : Stays(q)
    BY <1>2 DEF Stays
  <1> QED
    BY <1>2, <1>3, <1>4, <1>5, <1>6, <1>7, WorldStays, Assembled DEF Good

LEMMA ReadSessionKeeps == ASSUME IInv, NEW p \in Procs, ReadSession(p) PROVE IInv'
  <1>1. /\ pc[p] = "session"
        /\ UNCHANGED <<world, cmd, head, search, request, ran, starts, moves>>
    BY DEF ReadSession
  <1>2. TypeOK /\ result[p] = None /\ None \notin Codes
    BY <1>1, NoneIsApart DEF IInv, Good, Says
  <1>3. faults \in 0..MaxFaults /\ (faults < MaxFaults => faults + 1 \in 0..MaxFaults)
    BY <1>2, BoundsAreNaturals DEF TypeOK
  <1>4. ASSUME NEW code \in Codes \ {"absent", "descriptor_unusable"},
               Report(p, code) \/ (code # "ok" /\ Refuse(p, code)),
               code = "ok" => cmd[p].authority = "none",
               UNCHANGED <<fence, gate>>,
               answer' = answer \/ answer' = [answer EXCEPT ![p] = 401],
               faults' \in 0..MaxFaults
        PROVE  IInv'
    <2>1. /\ pc' \in [Procs -> {"start", "observe", "observe_device", "list", "read", "probe",
                              "launch", "wait", "session", "send", "sent", "done"}]
          /\ result' \in [Procs -> Codes \cup {None}]
          /\ pc'[p] = "done" /\ result'[p] \in {code, "desktop_not_paired"}
          /\ \A q \in Procs \ {p} : pc'[q] = pc[q] /\ result'[q] = result[q]
      BY <1>2, <1>4, Refused, Ended
    <2>2. /\ answer' \in [Procs -> {0, 200, 400, 401, 409, 422}]
          /\ answer'[p] \in {answer[p], 401}
          /\ \A q \in Procs \ {p} : answer'[q] = answer[q]
      <3>1. answer \in [Procs -> {0, 200, 400, 401, 409, 422}]
        BY <1>2 DEF TypeOK
      <3>2. CASE answer' = answer
        BY <3>1, <3>2
      <3>3. CASE answer' = [answer EXCEPT ![p] = 401]
        BY <3>1, <3>3
      <3> QED
        BY <1>4, <3>2, <3>3
    <2>3. /\ stage' = stage /\ polls' = polls /\ launches' = launches /\ fence' = fence
          /\ stage \in [Procs -> {"gate", "poll", "tool"}]
          /\ fence \in [Procs -> Fences \cup {None}]
      BY <1>2, <1>4 DEF gate, TypeOK
    <2>4. result'[p] = "ok" => cmd[p].authority = "none"
      BY <1>4, <2>1
    <2> QED
      BY <1>1, <1>4, <2>1, <2>2, <2>3, <2>4, SessionRead
  <1>5. ASSUME NEW d \in Profiles, Arm(p, d), UNCHANGED <<answer, faults>>
        PROVE  IInv'
    <2>1. CASE cmd[p].authority = "none" /\ Report(p, "ok") /\ UNCHANGED fence
      <3>1. "ok" \in Codes \ {"absent", "descriptor_unusable"}
        BY DEF Codes
      <3>2. faults' \in 0..MaxFaults /\ answer' = answer /\ UNCHANGED <<fence, gate>>
        BY <1>3, <1>5, <2>1 DEF Arm
      <3> QED
        BY <1>4, <2>1, <3>1, <3>2
    <2>2. CASE Report(p, "auth_context_mismatch") /\ UNCHANGED fence
      <3>1. "auth_context_mismatch" \in Codes \ {"absent", "descriptor_unusable"}
        BY DEF Codes
      <3>2. faults' \in 0..MaxFaults /\ answer' = answer /\ UNCHANGED <<fence, gate>>
        BY <1>3, <1>5, <2>2 DEF Arm
      <3> QED
        BY <1>4, <2>2, <3>1, <3>2
    <2>3. CASE /\ app[d].account # None /\ Matches(head[p], Snapshot(d))
               /\ fence' = [fence EXCEPT ![p] = Snapshot(d)]
               /\ Goto(p, "send")
      <3>1. Snapshot(d) \in Fences
        BY <1>2, <2>3 DEF TypeOK, Apps, Fences, Snapshot
      <3>2. /\ fence' \in [Procs -> Fences \cup {None}] /\ fence'[p] = Snapshot(d)
            /\ \A q \in Procs \ {p} : fence'[q] = fence[q]
        BY <1>2, <2>3, <3>1 DEF TypeOK
      <3>3. /\ pc' \in [Procs -> {"start", "observe", "observe_device", "list", "read", "probe",
                              "launch", "wait", "session", "send", "sent", "done"}]
            /\ result' \in [Procs -> Codes \cup {None}]
            /\ pc'[p] = "send" /\ result' = result
            /\ \A q \in Procs \ {p} : pc'[q] = pc[q]
        BY <1>2, <2>3, Went
      <3>4. /\ stage' = stage /\ polls' = polls /\ launches' = launches /\ answer' = answer
            /\ stage \in [Procs -> {"gate", "poll", "tool"}]
            /\ answer \in [Procs -> {0, 200, 400, 401, 409, 422}]
            /\ faults' \in 0..MaxFaults
        BY <1>2, <1>3, <1>5 DEF Arm, gate, TypeOK
      <3>5. result'[p] \notin {"absent", "descriptor_unusable", "ok"}
        BY <1>2, <3>3 DEF Codes
      <3>6. Matches(head[p], fence'[p])
        BY <2>3, <3>2
      <3> QED
        BY <1>1, <1>2, <3>2, <3>3, <3>4, <3>5, <3>6, SessionRead
    <2> QED
      BY <1>5, <2>1, <2>2, <2>3 DEF Arm
  <1>6. ASSUME NEW d \in Profiles, Pass(p, d), UNCHANGED <<answer, faults>>
        PROVE  IInv'
    <2>1. CASE Report(p, "desktop_signed_out") /\ UNCHANGED stage
      <3>1. "desktop_signed_out" \in Codes \ {"absent", "descriptor_unusable", "ok"}
        BY DEF Codes
      <3>2. faults' \in 0..MaxFaults /\ answer' = answer /\ UNCHANGED <<fence, gate>>
        BY <1>3, <1>6, <2>1 DEF Pass, gate
      <3> QED
        BY <1>4, <2>1, <3>1, <3>2
    <2>2. CASE /\ stage' = [stage EXCEPT ![p] = "tool"]
               /\ Goto(p, IF BorrowsUser(p) THEN "observe" ELSE "list")
      <3>1. PICK label \in {"observe", "list"} : Goto(p, label)
        BY <2>2
      <3>2. /\ pc' \in [Procs -> {"start", "observe", "observe_device", "list", "read", "probe",
                              "launch", "wait", "session", "send", "sent", "done"}]
            /\ result' \in [Procs -> Codes \cup {None}]
            /\ pc'[p] = label /\ result' = result
            /\ \A q \in Procs \ {p} : pc'[q] = pc[q]
        BY <1>2, <3>1, Went
      <3>3. /\ stage' \in [Procs -> {"gate", "poll", "tool"}] /\ stage'[p] = "tool"
            /\ \A q \in Procs \ {p} : stage'[q] = stage[q]
        BY <1>2, <2>2 DEF TypeOK
      <3>4. /\ fence' = fence /\ polls' = polls /\ launches' = launches /\ answer' = answer
            /\ fence \in [Procs -> Fences \cup {None}]
            /\ answer \in [Procs -> {0, 200, 400, 401, 409, 422}]
            /\ faults' \in 0..MaxFaults
        BY <1>2, <1>3, <1>6 DEF Pass, TypeOK
      <3>5. result'[p] \notin {"absent", "descriptor_unusable", "ok"}
        BY <1>2, <3>2 DEF Codes
      <3> QED
        BY <1>1, <1>2, <3>2, <3>3, <3>4, <3>5, SessionRead
    <2> QED
      BY <1>6, <2>1, <2>2 DEF Pass
  <1>7. {"desktop_unreachable", "desktop_refused", "desktop_unreadable",
         "desktop_contract_mismatch"} \subseteq Codes \ {"absent", "descriptor_unusable", "ok"}
    BY DEF Codes
  <1>8. CASE \E d \in Profiles :
               /\ IF stage[p] = "tool" THEN Arm(p, d) ELSE Pass(p, d)
               /\ UNCHANGED <<answer, faults>>
    BY <1>5, <1>6, <1>8
  <1>9. CASE /\ \E code \in {"desktop_unreachable", "desktop_refused", "desktop_unreadable",
                             "desktop_contract_mismatch"} : Refuse(p, code)
             /\ UNCHANGED <<fence, gate>>
             /\ answer' = answer \/ answer' = [answer EXCEPT ![p] = 401]
             /\ faults' = faults \/ (faults < MaxFaults /\ faults' = faults + 1)
    BY <1>3, <1>4, <1>7, <1>9
  <1> QED
    BY <1>8, <1>9 DEF ReadSession

LEMMA SendKeeps == ASSUME IInv, NEW p \in Procs, Send(p) PROVE IInv'
  <1>1. /\ pc[p] = "send"
        /\ UNCHANGED <<world, cmd, head, search, gate, fence, answer, ran, bounds>>
    BY DEF Send
  <1>2. TypeOK /\ Good(p) /\ result[p] = None /\ None \notin Codes
    BY <1>1, NoneIsApart DEF IInv, Good, Says
  <1>3. "desktop_unreachable" \in Codes
    BY DEF Codes
  <1>4. /\ pc' \in [Procs -> {"start", "observe", "observe_device", "list", "read", "probe",
                              "launch", "wait", "session", "send", "sent", "done"}]
        /\ result' \in [Procs -> Codes \cup {None}]
        /\ \/ pc'[p] = "sent" /\ result'[p] = None
           \/ pc'[p] = "done" /\ result'[p] = "desktop_unreachable" /\ request' = request
        /\ \A q \in Procs \ {p} : pc'[q] = pc[q] /\ result'[q] = result[q]
        /\ request' \in [Procs -> Descriptors \cup {None}]
        /\ \A q \in Procs \ {p} : request'[q] = request[q]
    <2>1. CASE Goto(p, "sent") /\ request' = [request EXCEPT ![p] = at[p]]
      BY <1>2, <2>1, Went DEF TypeOK
    <2>2. CASE Report(p, "desktop_unreachable") /\ UNCHANGED request
      BY <1>2, <1>3, <2>2, Ended DEF TypeOK
    <2> QED
      BY <2>1, <2>2 DEF Send
  <1>5. TypeOK'
    BY <1>1, <1>2, <1>4 DEF TypeOK, world, search, gate, bounds
  <1>6. Says(p)'
    BY <1>1, <1>2, <1>4 DEF Good, Says, Codes, Refusals, Unsettled, Matches
  <1>7. Covers(p)'
    BY <1>1, <1>2, <1>4, SearchKept, NoneIsApart DEF world, search, Codes, Good, Covers
  <1>8. Launches(p)'
    BY <1>1, <1>2, <1>4, StartsNone DEF Good, gate
  <1>9. \A q \in Procs \ {p} : Stays(q)
    BY <1>1, <1>4 DEF Stays, search, gate
  <1> QED
    BY <1>1, <1>5, <1>6, <1>7, <1>8, <1>9, WorldStays, Assembled DEF Good, world

LEMMA ReceiveKeeps == ASSUME IInv, NEW p \in Procs, Receive(p) \/ GiveUp(p) PROVE IInv'
  <1>1. /\ pc[p] = "sent"
        /\ UNCHANGED <<world, cmd, head, search, sent, gate, starts, moves>>
    BY DEF Receive, GiveUp, bounds
  <1>2. TypeOK /\ Good(p) /\ None \notin Codes
    BY <1>1, NoneIsApart DEF IInv
  <1>3. answer[p] \in {0, 200, 400, 401, 409, 422}
    BY <1>2 DEF TypeOK
  <1>4. faults' \in 0..MaxFaults
    BY <1>2, BoundsAreNaturals DEF Receive, GiveUp, bounds, TypeOK
  <1>5. PICK code \in Codes :
           /\ Report(p, code)
           /\ code \in Refusals => request[p] = None /\ answer[p] # 200
           /\ code \in Unsettled \ {"desktop_unreachable"} => request[p] = None
           /\ code = "ok" => answer[p] = 200
           /\ code \notin {"absent", "descriptor_unusable"}
    <2>1. CASE Receive(p)
      <3>1. PICK code \in CodesOf(answer[p]) : Report(p, code)
        BY <2>1 DEF Receive
      <3>2. request[p] = None
        BY <2>1 DEF Receive
      <3>3. code \in Codes \ {"absent", "descriptor_unusable"}
        BY <1>3, <3>1 DEF CodesOf, InItsWords, Codes
      <3>4. code = "ok" => answer[p] = 200
        BY <1>3, <3>1 DEF CodesOf, InItsWords
      <3>5. answer[p] = 200 => code \in {"ok", "desktop_contract_mismatch"}
        BY <3>1 DEF CodesOf
      <3> QED
        BY <3>1, <3>2, <3>3, <3>4, <3>5 DEF Refusals, Unsettled
    <2>2. CASE GiveUp(p)
      BY <2>2 DEF GiveUp, Codes, Refusals, Unsettled
    <2> QED
      BY <2>1, <2>2
  <1>6. /\ pc' \in [Procs -> {"start", "observe", "observe_device", "list", "read", "probe",
                              "launch", "wait", "session", "send", "sent", "done"}]
        /\ result' \in [Procs -> Codes \cup {None}]
        /\ pc'[p] = "done" /\ result'[p] = code
        /\ \A q \in Procs \ {p} : pc'[q] = pc[q] /\ result'[q] = result[q]
    BY <1>2, <1>5, Ended
  <1>7. TypeOK'
    BY <1>1, <1>2, <1>4, <1>6 DEF TypeOK, world, search, sent, gate
  <1>8. Says(p)'
    BY <1>1, <1>2, <1>5, <1>6 DEF Good, Says, sent, Matches
  <1>9. Covers(p)'
    BY <1>1, <1>2, <1>5, <1>6, SearchKept, NoneIsApart DEF world, search, Good, Covers
  <1>10. Launches(p)'
    BY <1>1, <1>2, <1>6, StartsNone DEF Good, gate
  <1>11. \A q \in Procs \ {p} : Stays(q)
    BY <1>1, <1>6 DEF Stays, search, sent, gate
  <1> QED
    BY <1>1, <1>7, <1>8, <1>9, <1>10, <1>11, WorldStays, Assembled DEF Good, world

----------------------------------------------------------------------------
(* The applications and the people.                                        *)

LEMMA ServeKeeps ==
    ASSUME IInv, NEW p \in Procs, NEW d \in Profiles, Serve(p, d)
    PROVE  IInv'
  <1>1. /\ request[p] # None /\ request' = [request EXCEPT ![p] = None]
        /\ UNCHANGED <<file, refresh, device, pc, cmd, head, search, gate, fence, result, bounds>>
    BY DEF Serve
  <1>2. TypeOK /\ Good(p)
    BY DEF IInv
  <1>3. ran[p].times = 0 /\ answer[p] = 0 /\ Matches(head[p], fence[p])
        /\ pc[p] \in {"sent", "done"}
    BY <1>1, <1>2 DEF Good, Says
  <1>4. /\ app' \in [Profiles -> Apps]
        /\ \A e \in Profiles : app'[e].token = app[e].token /\ app'[e].port = app[e].port
    <2>1. CASE app' = app
      BY <1>2, <2>1 DEF TypeOK
    <2>2. CASE /\ cmd[p].switch \notin {None, app[d].project}
               /\ app' = [app EXCEPT ![d].project = cmd[p].switch, ![d].rev = @ + 1]
      <3>1. cmd[p].switch \in Projects /\ app[d] \in Apps
        BY <1>2, <2>2 DEF TypeOK, Commands
      <3> DEFINE moved == [app EXCEPT ![d].project = cmd[p].switch]
      <3>2. /\ moved \in [Profiles -> Apps]
            /\ \A e \in Profiles : moved[e].token = app[e].token /\ moved[e].port = app[e].port
        BY <1>2, <3>1 DEF TypeOK, Apps
      <3>3. app' = [moved EXCEPT ![d].rev = app[d].rev + 1]
        BY <1>2, <2>2 DEF TypeOK
      <3>4. app[d].rev + 1 \in Nat
        BY <3>1 DEF Apps
      <3> HIDE DEF moved
      <3> QED
        BY <3>2, <3>3, <3>4 DEF Apps
    <2> QED
      BY <2>1, <2>2 DEF Serve
  <1>5. /\ answer' \in [Procs -> {0, 200, 400, 401, 409, 422}]
        /\ \A q \in Procs \ {p} : answer'[q] = answer[q] /\ ran'[q] = ran[q]
        /\ ran' \in [Procs -> [times : Nat, by : Profiles \cup {None}, as : Fences \cup {None}]]
        /\ \/ ran'[p].times = 1 /\ ran'[p].as = fence[p] /\ answer'[p] = 200
           \/ ran'[p] = ran[p] /\ answer'[p] # 200
    <2>1. CASE /\ Executes(p, d)
               /\ ran' = [ran EXCEPT ![p] =
                            [times |-> @.times + 1, by |-> d, as |-> Snapshot(d)]]
               /\ answer' = [answer EXCEPT ![p] = 200]
      <3>1. Snapshot(d) = fence[p] /\ fence[p] \in Fences \cup {None}
        BY <1>2, <2>1 DEF Executes, TypeOK
      <3>2. ran' = [ran EXCEPT ![p] = [times |-> 1, by |-> d, as |-> fence[p]]]
        BY <1>2, <1>3, <2>1, <3>1 DEF TypeOK
      <3>3. /\ ran' \in [Procs -> [times : Nat, by : Profiles \cup {None},
                                   as : Fences \cup {None}]]
            /\ ran'[p].times = 1 /\ ran'[p].as = fence[p]
            /\ \A q \in Procs \ {p} : ran'[q] = ran[q]
        BY <1>2, <3>1, <3>2 DEF TypeOK
      <3> QED
        BY <1>2, <2>1, <3>3 DEF TypeOK
    <2>2. CASE /\ UNCHANGED ran
               /\ \E status \in {400, 401, 409, 422} : answer' = [answer EXCEPT ![p] = status]
      <3>1. PICK status \in {400, 401, 409, 422} : answer' = [answer EXCEPT ![p] = status]
        BY <2>2
      <3>2. answer' \in [Procs -> {0, 200, 400, 401, 409, 422}] /\ answer'[p] = status
            /\ \A q \in Procs \ {p} : answer'[q] = answer[q]
        BY <1>2, <3>1 DEF TypeOK
      <3>3. ran' = ran /\ status # 200
        BY <2>2
      <3> QED
        BY <1>2, <3>2, <3>3 DEF TypeOK
    <2>3. <2>1!1 \/ <2>2!1
      BY DEF Serve
    <2> QED
      BY <2>1, <2>2, <2>3
  <1>6. TypeOK'
    BY <1>1, <1>2, <1>4, <1>5 DEF TypeOK, search, gate, bounds
  <1>7. Placed' /\ RunsOn
    BY <1>1, <1>4 DEF IInv, Placed, RunsOn, Published, Up
  <1>8. request'[p] = None
    BY <1>1, <1>2 DEF TypeOK
  <1>9. Says(p)'
    BY <1>1, <1>2, <1>3, <1>5, <1>8 DEF Good, Says, Matches
  <1>10. Next1(p)' = Next1(p)
    BY <1>1 DEF Next1, search
  <1>11. Covers(p)'
    <2>1. \A e \in steady[p] : e \in Profiles /\ Published(e)'
      BY <1>2, <1>7 DEF RunsOn, Good, Covers, TypeOK
    <2> QED
      BY <1>1, <1>2, <1>10, <2>1 DEF Good, Covers, search
  <1>12. Launches(p)'
    BY <1>1, <1>2 DEF Good, Launches, gate
  <1>13. \A q \in Procs \ {p} : Stays(q)
    BY <1>1, <1>5 DEF Stays, search, gate
  <1> QED
    BY <1>6, <1>7, <1>9, <1>11, <1>12, <1>13, Assembled DEF Good

\* Steps of the world that leave the commands alone.
LEMMA CommandsStay ==
    ASSUME IInv, TypeOK', Placed', RunsOn,
           UNCHANGED <<pc, cmd, head, search, sent, gate, result>>
    PROVE  IInv'
  <1>1. \A q \in Procs : Stays(q)
    BY DEF Stays, search, sent, gate
  <1> QED
    BY <1>1, StaysGood DEF IInv

LEMMA StartKeeps == ASSUME IInv, NEW d \in Profiles, Start(d) PROVE IInv'
  <1>1. PICK port \in Ports, s \in Sessions :
           /\ app' = [app EXCEPT ![d] = [token |-> starts', port |-> port,
                         account |-> s.account, project |-> s.project, rev |-> 1]]
           /\ file' = [file EXCEPT ![d] = [port |-> port, token |-> starts']]
    BY DEF Start
  <1>2. /\ ~Up(d) /\ TypeOK
        /\ UNCHANGED <<refresh, device, pc, cmd, head, search, sent, gate, result, moves, faults>>
    BY DEF Start, IInv
  <1>3. starts' \in 1..MaxStarts
    BY BoundsAreNaturals DEF Start, IInv, TypeOK
  <1>4. s.account \in Accounts \cup {None} /\ s.project \in Projects \cup {None}
    BY InstanceIsSmall DEF SessionStates
  <1>5. app' \in [Profiles -> Apps] /\ file' \in [Profiles -> Descriptors \cup {None}]
    <2>1. [token |-> starts', port |-> port, account |-> s.account, project |-> s.project,
           rev |-> 1] \in Apps
      BY <1>3, <1>4, BoundsAreNaturals DEF Apps
    <2>2. [port |-> port, token |-> starts'] \in Descriptors
      BY <1>3 DEF Descriptors
    <2> QED
      BY <1>1, <1>2, <2>1, <2>2 DEF TypeOK
  <1>6. starts' \in 0..MaxStarts
    BY <1>3, BoundsAreNaturals
  <1>7. TypeOK'
    BY <1>2, <1>5, <1>6 DEF TypeOK, search, sent, gate
  <1>8. \A e \in Profiles \ {d} : app'[e] = app[e] /\ file'[e] = file[e]
    BY <1>1, <1>2 DEF TypeOK
  <1>9. app'[d].port \in Ports
    BY <1>1, <1>2 DEF TypeOK
  <1>10. Placed' /\ RunsOn
    BY <1>2, <1>8, <1>9 DEF IInv, Placed, RunsOn, Published, Up
  <1> QED
    BY <1>2, <1>7, <1>10, CommandsStay

LEMMA ChangeAppKeeps == ASSUME IInv, NEW d \in Profiles, ChangeApp(d) PROVE IInv'
  <1>1. PICK s \in Sessions :
           app' = [app EXCEPT ![d] = [token |-> app[d].token, port |-> app[d].port,
                         account |-> s.account, project |-> s.project, rev |-> app[d].rev + 1]]
    BY DEF ChangeApp
  <1>2. /\ TypeOK
        /\ UNCHANGED <<file, refresh, device, pc, cmd, head, search, sent, gate, result, starts, faults>>
    BY DEF ChangeApp, IInv
  <1>3. moves' \in 0..MaxMoves
    BY BoundsAreNaturals DEF ChangeApp, IInv, TypeOK
  <1>4. s.account \in Accounts \cup {None} /\ s.project \in Projects \cup {None}
    BY InstanceIsSmall DEF SessionStates
  <1>5. app' \in [Profiles -> Apps]
    <2>1. [token |-> app[d].token, port |-> app[d].port, account |-> s.account,
           project |-> s.project, rev |-> app[d].rev + 1] \in Apps
      BY <1>2, <1>4 DEF Apps, TypeOK
    <2> QED
      BY <1>1, <1>2, <2>1 DEF TypeOK
  <1>6. TypeOK'
    BY <1>2, <1>3, <1>5 DEF TypeOK, search, sent, gate
  <1>7. \A e \in Profiles : app'[e].token = app[e].token /\ app'[e].port = app[e].port
    BY <1>1, <1>2 DEF TypeOK
  <1>8. Placed' /\ RunsOn
    BY <1>2, <1>7 DEF IInv, Placed, RunsOn, Published, Up
  <1> QED
    BY <1>2, <1>6, <1>8, CommandsStay

LEMMA ChangeSignInKeeps == ASSUME IInv, ChangeSignIn PROVE IInv'
  <1>1. /\ TypeOK
        /\ UNCHANGED <<app, file, pc, cmd, head, search, sent, gate, result, starts, faults>>
    BY DEF ChangeSignIn, IInv
  <1>2. /\ moves' \in 0..MaxMoves
        /\ refresh' \in Identities \cup {None} /\ device' \in Identities \cup {None}
    BY BoundsAreNaturals, InstanceIsSmall DEF ChangeSignIn, IInv, TypeOK
  <1>3. TypeOK'
    BY <1>1, <1>2 DEF TypeOK, search, sent, gate
  <1> QED
    BY <1>1, <1>3, WorldStays, CommandsStay

LEMMA EndKeeps == ASSUME IInv, NEW d \in Profiles, End(d) PROVE IInv'
  <1>1. /\ Up(d) /\ app' = [app EXCEPT ![d] = Down]
        /\ file' \in {file, [file EXCEPT ![d] = None]}
        /\ request' = [p \in Procs |->
              IF request[p] # None /\ request[p].port = app[d].port THEN None ELSE request[p]]
        /\ steady' = [p \in Procs |-> steady[p] \ {d}]
        /\ UNCHANGED <<refresh, device, pc, cmd, head, todo, live, unusable, at, fence, answer,
                       ran, gate, result, bounds>>
    BY DEF End
  <1>2. TypeOK
    BY DEF IInv
  <1>3. app' \in [Profiles -> Apps] /\ file' \in [Profiles -> Descriptors \cup {None}]
    <2>1. Down \in Apps
      BY BoundsAreNaturals DEF Down, Apps
    <2> QED
      BY <1>1, <1>2, <2>1 DEF TypeOK
  <1>4. /\ request' \in [Procs -> Descriptors \cup {None}]
        /\ steady' \in [Procs -> SUBSET Profiles]
        /\ \A p \in Procs : request'[p] \in {request[p], None}
        /\ \A p \in Procs : steady'[p] = steady[p] \ {d}
    BY <1>1, <1>2 DEF TypeOK
  <1>5. TypeOK'
    BY <1>1, <1>2, <1>3, <1>4 DEF TypeOK, gate, bounds
  <1>6. \A e \in Profiles \ {d} : app'[e] = app[e] /\ file'[e] = file[e]
    BY <1>1, <1>2 DEF TypeOK
  <1>7. app'[d].token = 0
    BY <1>1, <1>2 DEF TypeOK, Down
  <1>8. Placed'
    BY <1>6, <1>7 DEF IInv, Placed, Up
  <1>9. ASSUME NEW p \in Procs
        PROVE  Good(p)'
    <2>1. Good(p) /\ steady[p] \subseteq Profiles
      BY <1>2 DEF IInv, TypeOK
    <2>2. Says(p)'
      BY <1>1, <1>4, <2>1 DEF Good, Says, Matches
    <2>3. Next1(p)' = Next1(p)
      BY <1>1 DEF Next1
    <2>4. \A e \in steady'[p] :
             e \in steady[p] /\ Published(e)' /\ file'[e] = file[e]
      BY <1>4, <1>6, <2>1 DEF Good, Covers, Published, Up
    <2>5. Covers(p)'
      BY <1>1, <2>1, <2>3, <2>4 DEF Good, Covers
    <2>6. Launches(p)'
      BY <1>1, <2>1 DEF Good, Launches, gate
    <2> QED
      BY <2>2, <2>5, <2>6 DEF Good
  <1> QED
    BY <1>5, <1>8, <1>9 DEF IInv

----------------------------------------------------------------------------
(* The theorems.                                                           *)

LEMMA Initially == Init => IInv
  <1> SUFFICES ASSUME Init
               PROVE  IInv
    OBVIOUS
  <1>1. /\ Down \in Apps /\ (CHOOSE c \in Menu : TRUE) \in Commands
        /\ 0 \in 0..MaxStarts /\ 0 \in 0..MaxMoves /\ 0 \in 0..MaxFaults /\ Polls \in 0..Polls
    BY BoundsAreNaturals, InstanceIsSmall DEF Down, Apps
  <1>2. refresh \in Identities \cup {None} /\ device \in Identities \cup {None}
    BY InstanceIsSmall DEF Init
  <1>3. /\ app \in [Profiles -> Apps] /\ cmd \in [Procs -> Commands]
        /\ polls \in [Procs -> 0..Polls]
        /\ ran \in [Procs -> [times : Nat, by : Profiles \cup {None}, as : Fences \cup {None}]]
    BY <1>1 DEF Init
  <1>4. TypeOK
    BY <1>1, <1>2, <1>3 DEF Init, TypeOK
  <1>5. Placed
    BY DEF Init, Placed, Up, Down
  <1>6. ASSUME NEW p \in Procs
        PROVE  Good(p)
    <2>1. /\ pc[p] = "start" /\ request[p] = None /\ ran[p].times = 0 /\ answer[p] = 0
          /\ result[p] = None /\ live[p] = {} /\ steady[p] = {} /\ launches[p] = 0
      BY DEF Init
    <2>2. Says(p)
      BY <2>1, NoneIsApart DEF Says, Codes, Refusals
    <2>3. Covers(p)
      BY <2>1, NoneIsApart, FS_EmptySet DEF Covers, Codes
    <2>4. Launches(p)
      BY <2>1 DEF Launches
    <2> QED
      BY <2>2, <2>3, <2>4 DEF Good
  <1> QED
    BY <1>4, <1>5, <1>6 DEF IInv

LEMMA NextKeeps == IInv /\ [Next]_vars => IInv'
  <1> SUFFICES ASSUME IInv, [Next]_vars
               PROVE  IInv'
    OBVIOUS
  <1>1. ASSUME NEW p \in Procs, Advance(p) \/ StateUnsafe(p) \/ GiveUp(p)
        PROVE  IInv'
    BY <1>1, BeginKeeps, ObserveKeeps, StateUnsafeKeeps, ListKeeps, ReadDescriptorKeeps,
       ProbeKeeps, SelectKeeps, LaunchKeeps, WaitKeeps, ReadSessionKeeps, SendKeeps, ReceiveKeeps
       DEF Advance
  <1>2. ASSUME NEW p \in Procs, NEW d \in Profiles, Serve(p, d)
        PROVE  IInv'
    BY <1>2, ServeKeeps
  <1>3. ASSUME NEW d \in Profiles, Start(d) \/ End(d) \/ ChangeApp(d)
        PROVE  IInv'
    BY <1>3, StartKeeps, EndKeeps, ChangeAppKeeps
  <1>4. CASE UNCHANGED vars
    <2>1. /\ UNCHANGED <<app, file, pc, cmd, head, search, sent, gate, result>>
          /\ UNCHANGED <<refresh, device, starts, moves, faults>>
      BY <1>4 DEF vars, world, bounds
    <2>2. TypeOK'
      BY <2>1 DEF IInv, TypeOK, search, sent, gate
    <2> QED
      BY <2>1, <2>2, WorldStays, CommandsStay
  <1> QED
    BY <1>1, <1>2, <1>3, <1>4, ChangeSignInKeeps DEF Next

\* The inductive invariant holds at every moment.
THEOREM Inductive == Spec => []IInv
  BY Initially, NextKeeps, PTL DEF Spec

\* Every variable keeps its type.
THEOREM TypeCorrect == Spec => []TypeOK
  <1>1. IInv => TypeOK
    BY DEF IInv
  <1> QED
    BY <1>1, Inductive, PTL

\* Whatever an application executes for a command runs as the headless identity
\* the command observed (`require_operation_session` and the identity fence).
THEOREM ActsStayHeadless == Spec => []ActsAsHeadless
  <1>1. IInv => ActsAsHeadless
    <2> SUFFICES ASSUME IInv, NEW p \in Procs, ran[p].times > 0
                 PROVE  Matches(head[p], ran[p].as)
      BY DEF ActsAsHeadless
    <2>1. ran[p].times = 1
      BY DEF IInv, Good, Says
    <2> QED
      BY <2>1 DEF IInv, Good, Says
  <1> QED
    BY <1>1, Inductive, PTL

\* An operation runs at most once, a success means that it did, and every code but
\* the three that leave it open that it never will (`invoke` and its failure codes).
THEOREM ReportsAreTrue == Spec => []ReportsTellTruth
  <1>1. IInv => ReportsTellTruth
    BY DEF IInv, Good, Says, ReportsTellTruth
  <1> QED
    BY <1>1, Inductive, PTL

\* An automatic search passes over no application that is up all the while, answers
\* its probe and can be read, whatever reads and probes fail beside it, and an MCP
\* call starts no second one (`discover` and the gate of `tools.rs`).
THEOREM SearchesMissNothing == Spec => []SearchMissesNothing
  <1>1. IInv => SearchMissesNothing
    BY DEF IInv, Good, Covers, Launches, SearchMissesNothing
  <1> QED
    BY <1>1, Inductive, PTL

----------------------------------------------------------------------------
(* Commands end: what liveness rests on besides fairness.                  *)

\* The searches a command may still begin: the looks of a waiting MCP call, the
\* one of the gate, and the command's own.
RoundsLeft(p) ==
    polls[p] + CASE stage[p] = "gate" -> 3
                 [] stage[p] = "poll" -> 2
                 [] stage[p] = "tool" -> 0

\* The steps of one search that looks at every profile.
Round == 2 * Cardinality(Profiles) + 5

\* How many more steps a command may take before its next search, if any.
PlaceLeft(p) ==
    CASE pc[p] = "start"          -> 4 * Round + 1
      [] pc[p] = "observe"        -> Round + 2
      [] pc[p] = "observe_device" -> Round + 1
      [] pc[p] = "list"           -> Round
      [] pc[p] = "read"           -> 2 * Cardinality(todo[p]) + 4
      [] pc[p] = "probe"          -> 2 * Cardinality(todo[p]) + 3
      [] pc[p] = "session"        -> 3
      [] pc[p] = "send"           -> 2
      [] pc[p] \in {"launch", "wait", "sent"} -> 1
      [] pc[p] = "done"           -> 0

StepsLeft(p) == RoundsLeft(p) * Round + PlaceLeft(p)

Counted ==
    \A p \in Procs : RoundsLeft(p) \in Nat /\ PlaceLeft(p) \in Nat /\ StepsLeft(p) \in Nat

\* What a command does by itself: go on, be refused or give up.
Acts(p) == Advance(p) \/ StateUnsafe(p) \/ GiveUp(p)

\* A step of its own brings a command nearer to its end, and nothing others do
\* takes it further away.
RunsDown(p) ==
    /\ Acts(p) => StepsLeft(p)' < StepsLeft(p)
    /\ StepsLeft(p)' <= StepsLeft(p)

LEMMA ProfilesCount == Cardinality(Profiles) \in Nat /\ Round \in Nat /\ Round >= 5
  <1>1. Cardinality(Profiles) \in Nat
    BY ProfilesAreNumbers, FS_CardinalityType
  <1> QED
    BY <1>1 DEF Round

LEMMA TodoCounts ==
    ASSUME NEW S \in SUBSET Profiles
    PROVE  /\ IsFiniteSet(S) /\ Cardinality(S) \in Nat
           /\ Cardinality(S) <= Cardinality(Profiles)
           /\ \A d \in S : Cardinality(S \ {d}) = Cardinality(S) - 1
  <1>1. IsFiniteSet(S) /\ Cardinality(S) <= Cardinality(Profiles)
    BY ProfilesAreNumbers, FS_Subset
  <1>2. \A d \in S : Cardinality(S \ {d}) = Cardinality(S) - 1
    BY <1>1, FS_RemoveElement
  <1> QED
    BY <1>1, <1>2, FS_CardinalityType

LEMMA PlaceCounts ==
    ASSUME TypeOK, NEW p \in Procs
    PROVE  /\ PlaceLeft(p) \in Nat /\ RoundsLeft(p) \in Nat
           /\ pc[p] # "start" => PlaceLeft(p) <= Round + 2
           /\ pc[p] # "done" => PlaceLeft(p) > 0
  <1>1. /\ pc[p] \in {"start", "observe", "observe_device", "list", "read", "probe",
                      "launch", "wait", "session", "send", "sent", "done"}
        /\ stage[p] \in {"gate", "poll", "tool"} /\ polls[p] \in Nat
        /\ todo[p] \in SUBSET Profiles
    BY BoundsAreNaturals DEF TypeOK
  <1>2. /\ Cardinality(todo[p]) \in Nat /\ Cardinality(todo[p]) <= Cardinality(Profiles)
        /\ Cardinality(Profiles) \in Nat
    BY <1>1, TodoCounts, ProfilesCount
  <1>3. RoundsLeft(p) \in Nat
    BY <1>1 DEF RoundsLeft
  <1> QED
    BY <1>1, <1>2, <1>3 DEF PlaceLeft, Round

LEMMA CountsAreNatural == TypeOK => Counted
  <1> SUFFICES ASSUME TypeOK, NEW p \in Procs
               PROVE  /\ RoundsLeft(p) \in Nat /\ PlaceLeft(p) \in Nat
                      /\ StepsLeft(p) \in Nat
    BY DEF Counted
  <1>1. \A m, n \in Nat : m * n \in Nat
    OBVIOUS
  <1>2. PlaceLeft(p) \in Nat /\ RoundsLeft(p) \in Nat /\ Round \in Nat
    BY PlaceCounts, ProfilesCount
  <1>3. RoundsLeft(p) * Round \in Nat
    BY <1>1, <1>2
  <1> QED
    BY <1>2, <1>3 DEF StepsLeft

\* k rounds less, or j more, weigh k and j rounds.
LEMMA RoundsWeigh ==
    ASSUME NEW r \in Nat, NEW q \in Nat, NEW j \in Nat, NEW k \in Nat, NEW c \in Nat,
           NEW x \in Nat, NEW y \in Nat, q + k <= r + j, y + j * c < x + k * c
    PROVE  q * c + y < r * c + x
  <1>1. \A m, n \in Nat : m * n \in Nat /\ (m + n) * c = m * c + n * c
    OBVIOUS
  <1>2. PICK n \in Nat : r + j = (q + k) + n
    <2>1. (r + j) - (q + k) \in Nat
      OBVIOUS
    <2> QED
      BY <2>1
  <1>3. q + k \in Nat
    OBVIOUS
  <1>4. r * c + j * c = q * c + k * c + n * c
    <2>1. (r + j) * c = ((q + k) + n) * c
      BY <1>2
    <2>2. (r + j) * c = r * c + j * c
      BY <1>1
    <2>3. ((q + k) + n) * c = (q + k) * c + n * c
      BY <1>1, <1>3
    <2>4. (q + k) * c = q * c + k * c
      BY <1>1
    <2> QED
      BY <2>1, <2>2, <2>3, <2>4
  <1>5. /\ r * c \in Nat /\ j * c \in Nat /\ q * c \in Nat /\ k * c \in Nat
        /\ n * c \in Nat
    BY <1>1
  <1> QED
    BY <1>4, <1>5

LEMMA Nearer ==
    ASSUME TypeOK, TypeOK', NEW p \in Procs, NEW j \in Nat, NEW k \in Nat,
           RoundsLeft(p)' + k <= RoundsLeft(p) + j,
           PlaceLeft(p)' + j * Round < PlaceLeft(p) + k * Round
    PROVE  StepsLeft(p)' < StepsLeft(p)
  <1>1. TypeOK' => Counted'
    BY CountsAreNatural, PTL
  <1>2. /\ RoundsLeft(p) \in Nat /\ PlaceLeft(p) \in Nat
        /\ RoundsLeft(p)' \in Nat /\ PlaceLeft(p)' \in Nat
    BY <1>1, CountsAreNatural DEF Counted
  <1>3. Round \in Nat
    BY ProfilesCount
  <1>4. RoundsLeft(p)' * Round + PlaceLeft(p)' < RoundsLeft(p) * Round + PlaceLeft(p)
    BY <1>2, <1>3, RoundsWeigh
  <1> QED
    BY <1>4 DEF StepsLeft

\* A step within a search.
LEMMA NearerHere ==
    ASSUME TypeOK, TypeOK', NEW p \in Procs,
           polls'[p] = polls[p], stage'[p] = stage[p], PlaceLeft(p)' < PlaceLeft(p)
    PROVE  StepsLeft(p)' < StepsLeft(p)
  <1>1. RoundsLeft(p)' = RoundsLeft(p)
    BY DEF RoundsLeft
  <1>2. TypeOK' => Counted'
    BY CountsAreNatural, PTL
  <1>3. /\ RoundsLeft(p) \in Nat /\ PlaceLeft(p) \in Nat
        /\ RoundsLeft(p)' \in Nat /\ PlaceLeft(p)' \in Nat
    BY <1>2, CountsAreNatural DEF Counted
  <1>4. 0 * Round = 0
    BY ProfilesCount
  <1>5. RoundsLeft(p)' + 0 <= RoundsLeft(p) + 0
    BY <1>1, <1>3
  <1>6. PlaceLeft(p)' + 0 * Round < PlaceLeft(p) + 0 * Round
    BY <1>3, <1>4
  <1> QED
    BY <1>5, <1>6, Nearer

LEMMA Finishes ==
    ASSUME TypeOK, TypeOK', NEW p \in Procs, pc[p] # "done", pc'[p] = "done",
           polls'[p] = polls[p], stage'[p] = stage[p]
    PROVE  StepsLeft(p)' < StepsLeft(p)
  <1>1. PlaceLeft(p)' = 0
    BY DEF PlaceLeft
  <1>2. PlaceLeft(p) \in Nat /\ PlaceLeft(p) > 0
    BY PlaceCounts
  <1> QED
    BY <1>1, <1>2, NearerHere

LEMMA BeginCounts ==
    ASSUME TypeOK, TypeOK', NEW p \in Procs, Begin(p)
    PROVE  StepsLeft(p)' < StepsLeft(p)
  <1>1. /\ pc[p] = "start" /\ polls' = polls
        /\ stage'[p] \in {"gate", "tool"}
        /\ pc'[p] \in {"observe", "list"}
        /\ stage'[p] = "gate" => pc'[p] = "list"
    BY DEF Begin, TypeOK
  <1>2. Round \in Nat /\ Round >= 5
    BY ProfilesCount
  <1>3. PlaceLeft(p) = 4 * Round + 1
    BY <1>1 DEF PlaceLeft
  <1>4. polls[p] \in Nat /\ stage[p] \in {"gate", "poll", "tool"}
    BY BoundsAreNaturals DEF TypeOK
  <1>5. CASE stage'[p] = "gate"
    <2>1. RoundsLeft(p)' + 0 <= RoundsLeft(p) + 3
      BY <1>1, <1>4, <1>5 DEF RoundsLeft
    <2>2. PlaceLeft(p)' = Round
      BY <1>1, <1>5 DEF PlaceLeft, Round
    <2>3. PlaceLeft(p)' + 3 * Round < PlaceLeft(p) + 0 * Round
      BY <1>2, <1>3, <2>2
    <2> QED
      BY <2>1, <2>3, Nearer
  <1>6. CASE stage'[p] = "tool"
    <2>1. RoundsLeft(p)' + 0 <= RoundsLeft(p) + 0
      BY <1>1, <1>4, <1>6 DEF RoundsLeft
    <2>2. PlaceLeft(p)' = Round \/ PlaceLeft(p)' = Round + 2
      BY <1>1 DEF PlaceLeft, Round
    <2>3. PlaceLeft(p)' + 0 * Round < PlaceLeft(p) + 0 * Round
      BY <1>2, <1>3, <2>2
    <2> QED
      BY <2>1, <2>3, Nearer
  <1> QED
    BY <1>1, <1>5, <1>6

LEMMA ObserveCounts ==
    ASSUME TypeOK, TypeOK', NEW p \in Procs,
           ObserveRefresh(p) \/ ObserveDevice(p) \/ StateUnsafe(p)
    PROVE  StepsLeft(p)' < StepsLeft(p)
  <1>1. polls' = polls /\ stage' = stage
    BY DEF ObserveRefresh, ObserveDevice, StateUnsafe, gate
  <1>2. \/ pc[p] = "observe" /\ pc'[p] = "observe_device"
        \/ pc[p] = "observe_device" /\ pc'[p] = "list"
        \/ pc[p] \in {"observe", "observe_device"} /\ pc'[p] = "done"
    BY DEF ObserveRefresh, ObserveDevice, StateUnsafe, Goto, Report, TypeOK
  <1>3. CASE pc'[p] = "done"
    BY <1>1, <1>2, <1>3, Finishes
  <1>4. CASE pc'[p] # "done"
    <2>1. PlaceLeft(p)' < PlaceLeft(p)
      BY <1>2, <1>4, ProfilesCount DEF PlaceLeft
    <2> QED
      BY <1>1, <2>1, NearerHere
  <1> QED
    BY <1>3, <1>4

\* A search: its list, its profiles one after another, and what it makes of them.
LEMMA SearchCounts ==
    ASSUME IInv, TypeOK', NEW p \in Procs,
           List(p) \/ ReadDescriptor(p) \/ Probe(p) \/ Select(p)
    PROVE  StepsLeft(p)' < StepsLeft(p)
  <1> TypeOK
    BY DEF IInv
  <1>1. polls' = polls /\ stage' = stage
    BY DEF List, ReadDescriptor, Probe, Select, gate
  <1>2. /\ pc \in [Procs -> {"start", "observe", "observe_device", "list", "read", "probe",
                             "launch", "wait", "session", "send", "sent", "done"}]
        /\ todo \in [Procs -> SUBSET Profiles] /\ todo'[p] \in SUBSET Profiles
    BY DEF TypeOK
  <1>3. /\ Cardinality(Profiles) \in Nat /\ Round = 2 * Cardinality(Profiles) + 5
        /\ Cardinality(todo[p]) \in Nat /\ Cardinality(todo'[p]) \in Nat
        /\ Cardinality(todo'[p]) <= Cardinality(Profiles)
    BY <1>2, TodoCounts, ProfilesCount DEF Round
  <1>4. CASE pc[p] # "done" /\ pc'[p] = "done"
    BY <1>1, <1>4, Finishes
  <1>5. CASE List(p)
    <2>1. CASE pc[p] = "list" /\ pc'[p] \in {"session", "read"}
      <3>1. PlaceLeft(p)' < PlaceLeft(p)
        BY <1>3, <2>1 DEF PlaceLeft
      <3> QED
        BY <1>1, <3>1, NearerHere
    <2> QED
      BY <1>2, <1>4, <1>5, <2>1 DEF List, Refuse, Report, Goto
  <1>6. CASE ReadDescriptor(p)
    <2>1. Next1(p) \in todo[p]
      BY <1>6, NextIsLeft DEF ReadDescriptor
    <2>2. CASE pc[p] = "read" /\ pc'[p] = "probe" /\ todo' = todo
      <3>1. PlaceLeft(p)' < PlaceLeft(p)
        BY <1>3, <2>2 DEF PlaceLeft
      <3> QED
        BY <1>1, <3>1, NearerHere
    <2>3. CASE pc[p] = "read" /\ pc' = pc /\ todo'[p] = todo[p] \ {Next1(p)}
      <3>1. Cardinality(todo'[p]) = Cardinality(todo[p]) - 1
        BY <1>2, <2>1, <2>3, TodoCounts
      <3>2. PlaceLeft(p)' < PlaceLeft(p)
        BY <1>3, <2>3, <3>1 DEF PlaceLeft
      <3> QED
        BY <1>1, <3>2, NearerHere
    <2> QED
      BY <1>2, <1>6, <2>2, <2>3 DEF ReadDescriptor, Goto
  <1>7. CASE Probe(p)
    <2> Next1(p) \in todo[p]
      BY <1>7, NextIsLeft DEF Probe, IInv, Good, Covers
    <2>1. pc[p] = "probe" /\ pc'[p] = "read" /\ todo'[p] = todo[p] \ {Next1(p)}
      BY <1>2, <1>7 DEF Probe, Goto
    <2>2. Cardinality(todo'[p]) = Cardinality(todo[p]) - 1
      BY <1>2, <1>7, <2>1, TodoCounts
    <2>3. PlaceLeft(p)' < PlaceLeft(p)
      BY <1>3, <2>1, <2>2 DEF PlaceLeft
    <2> QED
      BY <1>1, <2>3, NearerHere
  <1>8. CASE Select(p)
    <2>1. CASE pc[p] = "read" /\ pc'[p] \in {"session", "launch", "wait"}
      <3>1. PlaceLeft(p)' < PlaceLeft(p)
        BY <1>3, <2>1 DEF PlaceLeft
      <3> QED
        BY <1>1, <3>1, NearerHere
    <2>2. pc[p] = "read" /\ stage[p] \in {"gate", "poll", "tool"}
      BY <1>8 DEF Select, TypeOK
    <2>3. pc'[p] \in {"session", "launch", "wait", "done"}
      BY <1>2, <1>8, <2>2 DEF Select, Refuse, Report, Goto
    <2> QED
      BY <1>4, <2>1, <2>2, <2>3
  <1> QED
    BY <1>5, <1>6, <1>7, <1>8

\* The MCP gate: its start and its looks.
LEMMA GateCounts ==
    ASSUME IInv, TypeOK', NEW p \in Procs, Launch(p) \/ Wait(p)
    PROVE  StepsLeft(p)' < StepsLeft(p)
  <1> TypeOK
    BY DEF IInv
  <1>1. Round \in Nat /\ Round >= 5 /\ polls[p] \in Nat /\ stage[p] \in {"gate", "poll", "tool"}
    BY ProfilesCount, BoundsAreNaturals DEF TypeOK
  <1>2. CASE Launch(p)
    <2>1. /\ pc[p] = "launch" /\ pc'[p] \in {"wait", "done"} /\ polls' = polls
          /\ stage[p] = "gate" /\ stage'[p] = "poll"
      BY <1>2 DEF Launch, Goto, Report, IInv, Good, Launches, TypeOK
    <2>2. RoundsLeft(p)' + 1 <= RoundsLeft(p) + 0
      BY <1>1, <2>1 DEF RoundsLeft
    <2>3. PlaceLeft(p) = 1 /\ PlaceLeft(p)' \in {0, 1}
      BY <2>1 DEF PlaceLeft
    <2>4. PlaceLeft(p)' + 0 * Round < PlaceLeft(p) + 1 * Round
      BY <1>1, <2>3
    <2> QED
      BY <2>2, <2>4, Nearer
  <1>3. CASE Wait(p) /\ polls'[p] = polls[p] - 1 /\ pc'[p] = "list"
    <2>1. pc[p] = "wait" /\ stage' = stage
      BY <1>3 DEF Wait
    <2>2. polls'[p] \in Nat
      BY BoundsAreNaturals DEF TypeOK
    <2>3. RoundsLeft(p)' + 1 <= RoundsLeft(p) + 0
      BY <1>1, <1>3, <2>1, <2>2 DEF RoundsLeft
    <2>4. PlaceLeft(p) = 1 /\ PlaceLeft(p)' = Round
      BY <1>3, <2>1 DEF PlaceLeft
    <2>5. PlaceLeft(p)' + 0 * Round < PlaceLeft(p) + 1 * Round
      BY <1>1, <2>4
    <2> QED
      BY <2>3, <2>5, Nearer
  <1>4. CASE Wait(p) /\ polls' = polls /\ pc'[p] = "done"
    BY <1>4, Finishes DEF Wait
  <1> QED
    BY <1>2, <1>3, <1>4 DEF Wait, Goto, Report, TypeOK

\* A session that serves the gate passes the call on to its own search.
LEMMA SessionCounts ==
    ASSUME IInv, TypeOK', NEW p \in Procs, ReadSession(p)
    PROVE  StepsLeft(p)' < StepsLeft(p)
  <1> TypeOK
    BY DEF IInv
  <1>1. /\ Round \in Nat /\ Round >= 5 /\ polls[p] \in Nat
        /\ stage[p] \in {"gate", "poll", "tool"} /\ pc[p] = "session"
    BY ProfilesCount, BoundsAreNaturals DEF TypeOK, ReadSession
  <1>2. \/ pc'[p] = "done" /\ polls' = polls /\ stage' = stage
        \/ pc'[p] = "send" /\ polls' = polls /\ stage' = stage
        \/ /\ pc'[p] \in {"observe", "list"} /\ polls' = polls
           /\ stage[p] # "tool" /\ stage'[p] = "tool"
    <2>1. ASSUME NEW d \in Profiles, Arm(p, d)
          PROVE  pc'[p] \in {"done", "send"} /\ polls' = polls /\ stage' = stage
      BY <2>1 DEF Arm, Goto, Report, gate, TypeOK
    <2>2. ASSUME NEW d \in Profiles, Pass(p, d)
          PROVE  /\ polls' = polls
                 /\ \/ pc'[p] = "done" /\ stage' = stage
                    \/ pc'[p] \in {"observe", "list"} /\ stage'[p] = "tool"
      BY <2>2 DEF Pass, Goto, Report, TypeOK
    <2>3. ASSUME NEW code, Refuse(p, code), UNCHANGED gate
          PROVE  pc'[p] = "done" /\ polls' = polls /\ stage' = stage
      BY <2>3 DEF Refuse, Report, gate, TypeOK
    <2> QED
      BY <2>1, <2>2, <2>3 DEF ReadSession
  <1>3. CASE pc'[p] = "done" /\ polls' = polls /\ stage' = stage
    BY <1>1, <1>3, Finishes
  <1>4. CASE pc'[p] = "send" /\ polls' = polls /\ stage' = stage
    <2>1. PlaceLeft(p)' < PlaceLeft(p)
      BY <1>1, <1>4 DEF PlaceLeft
    <2> QED
      BY <1>4, <2>1, NearerHere
  <1>5. CASE /\ pc'[p] \in {"observe", "list"} /\ polls' = polls
             /\ stage[p] # "tool" /\ stage'[p] = "tool"
    <2>1. RoundsLeft(p)' + 2 <= RoundsLeft(p) + 0
      BY <1>1, <1>5 DEF RoundsLeft
    <2>2. PlaceLeft(p) = 3 /\ PlaceLeft(p)' \in {Round, Round + 2}
      BY <1>1, <1>5 DEF PlaceLeft
    <2>3. PlaceLeft(p)' + 0 * Round < PlaceLeft(p) + 2 * Round
      BY <1>1, <2>2
    <2> QED
      BY <2>1, <2>3, Nearer
  <1> QED
    BY <1>2, <1>3, <1>4, <1>5

LEMMA OperationCounts ==
    ASSUME TypeOK, TypeOK', NEW p \in Procs, Send(p) \/ Receive(p) \/ GiveUp(p)
    PROVE  StepsLeft(p)' < StepsLeft(p)
  <1>1. polls' = polls /\ stage' = stage
    BY DEF Send, Receive, GiveUp, gate
  <1>2. \/ pc[p] = "send" /\ pc'[p] = "sent"
        \/ pc[p] \in {"send", "sent"} /\ pc'[p] = "done"
    BY DEF Send, Receive, GiveUp, Goto, Report, TypeOK
  <1>3. CASE pc'[p] = "done"
    BY <1>1, <1>2, <1>3, Finishes
  <1>4. CASE pc'[p] = "sent"
    <2>1. PlaceLeft(p)' < PlaceLeft(p)
      BY <1>2, <1>4 DEF PlaceLeft
    <2> QED
      BY <1>1, <2>1, NearerHere
  <1> QED
    BY <1>2, <1>3, <1>4

\* Others do not touch what a command counts its steps by.
LEMMA OthersCountNothing ==
    ASSUME TypeOK, NEW p \in Procs, [Next]_vars, ~Acts(p)
    PROVE  StepsLeft(p)' = StepsLeft(p)
  <1>1. SUFFICES pc'[p] = pc[p] /\ todo'[p] = todo[p] /\ polls'[p] = polls[p]
                   /\ stage'[p] = stage[p]
    BY <1>1 DEF StepsLeft, RoundsLeft, PlaceLeft
  <1>2. CASE UNCHANGED vars \/ ChangeSignIn
    BY <1>2 DEF vars, ChangeSignIn, search, gate
  <1>3. ASSUME NEW q \in Procs, NEW d \in Profiles, Serve(q, d)
        PROVE  UNCHANGED <<pc, todo, polls, stage>>
    BY <1>3 DEF Serve, search, gate
  <1>4. ASSUME NEW d \in Profiles, Start(d) \/ End(d) \/ ChangeApp(d)
        PROVE  UNCHANGED <<pc, todo, polls, stage>>
    BY <1>4 DEF Start, End, ChangeApp, search, gate
  <1>5. ASSUME NEW q \in Procs, Acts(q)
        PROVE  /\ pc'[p] = pc[p] /\ todo'[p] = todo[p] /\ polls'[p] = polls[p]
               /\ stage'[p] = stage[p]
    <2>1. q # p
      BY <1>5
    <2>2. ASSUME NEW label, Goto(q, label) PROVE pc'[p] = pc[p]
      BY <2>1, <2>2 DEF Goto, TypeOK
    <2>3. ASSUME NEW code, Report(q, code) PROVE pc'[p] = pc[p]
      BY <2>1, <2>3 DEF Report, TypeOK
    <2>4. ASSUME NEW code, Refuse(q, code) PROVE pc'[p] = pc[p]
      BY <2>3, <2>4 DEF Refuse
    <2>5. CASE Begin(q)
      BY <2>1, <2>5 DEF Begin, search, TypeOK
    <2>6. CASE ObserveRefresh(q) \/ ObserveDevice(q) \/ StateUnsafe(q)
      BY <2>2, <2>3, <2>6 DEF ObserveRefresh, ObserveDevice, StateUnsafe, search, gate
    <2>7. CASE List(q)
      BY <2>1, <2>2, <2>4, <2>7 DEF List, gate, search, TypeOK
    <2>8. CASE ReadDescriptor(q) \/ Probe(q)
      BY <2>1, <2>2, <2>8 DEF ReadDescriptor, Probe, gate, TypeOK
    <2>9. CASE Select(q)
      <3>1. stage[q] \in {"gate", "poll", "tool"}
        BY DEF TypeOK
      <3>2. pc'[p] = pc[p]
        BY <2>2, <2>3, <2>4, <2>9, <3>1 DEF Select
      <3> QED
        BY <2>9, <3>2 DEF Select, gate
    <2>10. CASE Launch(q) \/ Wait(q)
      BY <2>1, <2>2, <2>3, <2>10 DEF Launch, Wait, search, TypeOK
    <2>11. CASE ReadSession(q)
      <3>1. ASSUME NEW d \in Profiles, Arm(q, d)
            PROVE  pc'[p] = pc[p] /\ polls' = polls /\ stage' = stage
        BY <2>2, <2>3, <3>1 DEF Arm, gate
      <3>2. ASSUME NEW d \in Profiles, Pass(q, d)
            PROVE  pc'[p] = pc[p] /\ polls' = polls /\ stage'[p] = stage[p]
        BY <2>1, <2>2, <2>3, <3>2 DEF Pass, TypeOK
      <3> QED
        BY <2>4, <2>11, <3>1, <3>2 DEF ReadSession, gate, search
    <2>12. CASE Send(q) \/ Receive(q) \/ GiveUp(q)
      BY <2>2, <2>3, <2>12 DEF Send, Receive, GiveUp, search, gate
    <2> QED
      BY <1>5, <2>5, <2>6, <2>7, <2>8, <2>9, <2>10, <2>11, <2>12 DEF Acts, Advance
  <1> QED
    BY <1>2, <1>3, <1>4, <1>5 DEF Next, Acts

\* Every command comes to an end after a bounded number of steps of its own,
\* whatever applications start, end and restart meanwhile: each look at a profile
\* leaves one less to look at, each search of a waiting MCP call uses up a look,
\* and the gate is passed or left once.
THEOREM CommandsRunDown == Spec => []Counted /\ [][\A p \in Procs : RunsDown(p)]_vars
  <1>1. IInv => Counted
    BY CountsAreNatural DEF IInv
  <1>2. IInv /\ [Next]_vars => [\A p \in Procs : RunsDown(p)]_vars
    <2> SUFFICES ASSUME IInv, [Next]_vars, NEW p \in Procs
                 PROVE  RunsDown(p)
      OBVIOUS
    <2>1. TypeOK /\ TypeOK'
      BY NextKeeps DEF IInv
    <2>2. TypeOK' => Counted'
      BY CountsAreNatural, PTL
    <2>3. StepsLeft(p) \in Nat /\ StepsLeft(p)' \in Nat
      BY <2>1, <2>2, CountsAreNatural DEF Counted
    <2>4. ASSUME Acts(p)
          PROVE  StepsLeft(p)' < StepsLeft(p)
      BY <2>1, <2>4, BeginCounts, ObserveCounts, SearchCounts, GateCounts, SessionCounts,
         OperationCounts DEF Acts, Advance
    <2> QED
      BY <2>1, <2>3, <2>4, OthersCountNothing DEF RunsDown
  <1> QED
    BY <1>1, <1>2, Inductive, PTL DEF Spec
=============================================================================
