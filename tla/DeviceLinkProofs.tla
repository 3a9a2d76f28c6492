-------------------------- MODULE DeviceLinkProofs --------------------------
(* DeviceLink keeps the protected value and the service in step for any    *)
(* number of commands, links and faults.                                   *)
EXTENDS DeviceLink, TLAPS

\* What a command knows while it holds the lock of the protected value.
HoldsValue(p) ==
    /\ pc[p] \in {"refresh", "call", "save", "release"} => lock = p
    /\ pc[p] \in {"refresh", "call", "save", "commit"} => cmd[p].link \in Links
    /\ pc[p] = "refresh" => cmd[p].verb \in {"list", "revoke"}
    /\ pc[p] = "call" => cmd[p].verb \in {"begin", "status", "complete", "list", "revoke"}
    /\ pc[p] = "save" => cmd[p].verb \in {"begin", "complete", "revoke"}
    /\ pc[p] \in {"refresh", "call", "save"} =>
          /\ cmd[p].verb = "begin" => local = Nothing
          /\ cmd[p].verb \in {"status", "complete"} => local = Pending(cmd[p].link)
          /\ cmd[p].verb \in {"list", "revoke"} => local.phase = "linked"

\* What the service did for a command that is about to replace the value.
WasServed(p) ==
    pc[p] = "save" =>
        /\ cmd[p].verb = "begin" => request[cmd[p].link] # "none"
        /\ cmd[p].verb = "complete" =>
              request[cmd[p].link] = "consumed" /\ device[cmd[p].link] # "none"
        /\ cmd[p].verb = "revoke" =>
              local.link = cmd[p].link /\ device[cmd[p].link] = "revoked"

Commands == \A p \in Procs : HoldsValue(p) /\ WasServed(p)

IInv == TypeOK /\ LinkIsWhole /\ Commands

\* The service never forgets a request or a device.
Ages ==
    \A n \in Links :
        /\ request[n] # "none" => request'[n] # "none"
        /\ request[n] = "consumed" => request'[n] = "consumed"
        /\ device[n] # "none" => device'[n] # "none"

\* Nor does it take back a revocation.
StaysRevoked == \A n \in Links : device[n] = "revoked" => device'[n] = "revoked"

\* The step does nothing to command q.
Aside(q) == pc'[q] = pc[q] /\ cmd'[q] = cmd[q]

-----------------------------------------------------------------------------
(* What a step does to the commands.                                       *)

LocalTypeOK ==
    /\ lock \in Procs \cup {None}
    /\ pc \in [Procs -> {"idle", "refresh", "call", "save", "release", "commit"}]
    /\ cmd \in [Procs -> [verb : Verbs \cup {"none"}, link : Links \cup {None}]]
    /\ result \in [Procs -> Codes \cup {None}]

LEMMA Reported ==
    ASSUME IInv, NEW p \in Procs, NEW code \in Codes \cup {None}, Report(p, code)
    PROVE  /\ LocalTypeOK'
           /\ HoldsValue(p)' /\ WasServed(p)'
           /\ \A q \in Procs \ {p} : Aside(q) /\ (lock = q => lock' = q)
  <1>1. /\ lock \in Procs \cup {None}
        /\ pc \in [Procs -> {"idle", "refresh", "call", "save", "release", "commit"}]
        /\ cmd \in [Procs -> [verb : Verbs \cup {"none"}, link : Links \cup {None}]]
        /\ result \in [Procs -> Codes \cup {None}]
    BY DEF IInv, TypeOK
  <1>2. lock' \in Procs \cup {None}
    BY <1>1 DEF Report
  <1>3. pc' \in [Procs -> {"idle", "refresh", "call", "save", "release", "commit"}]
    BY <1>1 DEF Report
  <1>4. cmd' \in [Procs -> [verb : Verbs \cup {"none"}, link : Links \cup {None}]]
    <2>1. NoCommand \in [verb : Verbs \cup {"none"}, link : Links \cup {None}]
      BY DEF NoCommand
    <2>2. cmd' = [cmd EXCEPT ![p] = NoCommand]
      BY DEF Report
    <2> QED
      BY <1>1, <2>1, <2>2
  <1>5. result' \in [Procs -> Codes \cup {None}]
    BY <1>1 DEF Report
  <1>6. pc'[p] = "idle"
    BY <1>1 DEF Report
  <1>7. HoldsValue(p)' /\ WasServed(p)'
    BY <1>6 DEF HoldsValue, WasServed
  <1>8. ASSUME NEW q \in Procs \ {p}
        PROVE  Aside(q) /\ (lock = q => lock' = q)
    BY <1>1 DEF Report, Aside
  <1> QED
    BY <1>2, <1>3, <1>4, <1>5, <1>7, <1>8 DEF LocalTypeOK

LEMMA Moved ==
    ASSUME IInv, NEW p \in Procs,
           NEW label \in {"idle", "refresh", "call", "save", "release", "commit"},
           Goto(p, label)
    PROVE  /\ LocalTypeOK'
           /\ pc'[p] = label /\ cmd' = cmd /\ lock' = lock
           /\ \A q \in Procs \ {p} : Aside(q) /\ (lock = q => lock' = q)
  <1>1. /\ lock \in Procs \cup {None}
        /\ pc \in [Procs -> {"idle", "refresh", "call", "save", "release", "commit"}]
        /\ cmd \in [Procs -> [verb : Verbs \cup {"none"}, link : Links \cup {None}]]
        /\ result \in [Procs -> Codes \cup {None}]
    BY DEF IInv, TypeOK
  <1>2. pc' \in [Procs -> {"idle", "refresh", "call", "save", "release", "commit"}]
    BY <1>1 DEF Goto
  <1>3. pc'[p] = label /\ cmd' = cmd /\ lock' = lock /\ result' = result
    BY <1>1 DEF Goto
  <1>4. \A q \in Procs \ {p} : Aside(q) /\ (lock = q => lock' = q)
    BY <1>1, <1>3 DEF Goto, Aside
  <1> QED
    BY <1>1, <1>2, <1>3, <1>4 DEF LocalTypeOK

\* A command starts: its lock is its own or not needed.
LEMMA Started ==
    ASSUME IInv, NEW p \in Procs, NEW verb \in Verbs, NEW n \in Links,
           NEW label \in {"refresh", "call", "commit"},
           cmd' = [cmd EXCEPT ![p] = [verb |-> verb, link |-> n]],
           pc' = [pc EXCEPT ![p] = label],
           UNCHANGED result,
           lock' = p \/ lock' = lock
    PROVE  /\ LocalTypeOK'
           /\ pc'[p] = label /\ cmd'[p] = [verb |-> verb, link |-> n]
           /\ \A q \in Procs \ {p} : Aside(q)
  <1>1. /\ lock \in Procs \cup {None}
        /\ pc \in [Procs -> {"idle", "refresh", "call", "save", "release", "commit"}]
        /\ cmd \in [Procs -> [verb : Verbs \cup {"none"}, link : Links \cup {None}]]
        /\ result \in [Procs -> Codes \cup {None}]
    BY DEF IInv, TypeOK
  <1>2. [verb |-> verb, link |-> n] \in [verb : Verbs \cup {"none"}, link : Links \cup {None}]
    OBVIOUS
  <1>3. cmd' \in [Procs -> [verb : Verbs \cup {"none"}, link : Links \cup {None}]]
    BY <1>1, <1>2
  <1>4. pc' \in [Procs -> {"idle", "refresh", "call", "save", "release", "commit"}]
    BY <1>1
  <1>5. lock' \in Procs \cup {None} /\ result' \in [Procs -> Codes \cup {None}]
    BY <1>1
  <1>6. pc'[p] = label /\ cmd'[p] = [verb |-> verb, link |-> n]
    BY <1>1
  <1>7. \A q \in Procs \ {p} : Aside(q)
    BY <1>1 DEF Aside
  <1> QED
    BY <1>3, <1>4, <1>5, <1>6, <1>7 DEF LocalTypeOK

\* Another command keeps what it knows: the value stays while it holds the lock,
\* and the service goes on.
LEMMA Unaffected ==
    ASSUME IInv, NEW q \in Procs, Aside(q),
           lock = q => lock' = q /\ local' = local /\ Ages /\ StaysRevoked
    PROVE  HoldsValue(q)' /\ WasServed(q)'
  <1>1. HoldsValue(q) /\ WasServed(q)
    BY DEF IInv, Commands
  <1>2. CASE lock = q
    <2>1. local' = local /\ lock' = q /\ Ages /\ StaysRevoked
      BY <1>2
    <2>2. HoldsValue(q)'
      BY <1>1, <1>2, <2>1 DEF HoldsValue, Aside, Nothing, Pending
    <2>3. WasServed(q)'
      BY <1>1, <2>1 DEF HoldsValue, WasServed, Aside, Ages, StaysRevoked
    <2> QED
      BY <2>2, <2>3
  <1>3. CASE lock # q
    <2>1. pc[q] \notin {"refresh", "call", "save", "release"}
      BY <1>1, <1>3 DEF HoldsValue
    <2> QED
      BY <1>1, <2>1 DEF HoldsValue, WasServed, Aside
  <1> QED
    BY <1>2, <1>3

\* Only one command holds the value.
LEMMA Alone ==
    ASSUME IInv, NEW p \in Procs, pc[p] \in {"refresh", "call", "save", "release"}
    PROVE  lock = p /\ \A q \in Procs \ {p} : lock # q
  BY DEF IInv, Commands, HoldsValue

\* The commands of a step in which p reports.
LEMMA ReportKeeps ==
    ASSUME IInv, NEW p \in Procs, NEW code \in Codes \cup {None}, Report(p, code),
           \A q \in Procs \ {p} : lock = q => local' = local /\ Ages /\ StaysRevoked
    PROVE  Commands'
  <1>1. \A q \in Procs \ {p} : Aside(q) /\ (lock = q => lock' = q)
    BY Reported
  <1>2. ASSUME NEW q \in Procs
        PROVE  HoldsValue(q)' /\ WasServed(q)'
    <2>1. CASE q = p
      BY <2>1, Reported
    <2>2. CASE q # p
      BY <1>1, <2>2, Unaffected
    <2> QED
      BY <2>1, <2>2
  <1> QED
    BY <1>2 DEF Commands

\* The commands of a step in which p moves on.
LEMMA MoveKeeps ==
    ASSUME IInv, NEW p \in Procs,
           NEW label \in {"idle", "refresh", "call", "save", "release", "commit"},
           Goto(p, label),
           pc[p] \in {"refresh", "call", "save", "release"},
           HoldsValue(p)' /\ WasServed(p)'
    PROVE  Commands'
  <1>1. \A q \in Procs \ {p} : Aside(q) /\ lock # q
    BY Moved, Alone
  <1>2. ASSUME NEW q \in Procs
        PROVE  HoldsValue(q)' /\ WasServed(q)'
    <2>1. CASE q = p
      BY <2>1
    <2>2. CASE q # p
      BY <1>1, <2>2, Unaffected
    <2> QED
      BY <2>1, <2>2
  <1> QED
    BY <1>2 DEF Commands

-----------------------------------------------------------------------------
(* What a step does to the link.                                           *)

\* What is known of a value that is not empty.
LEMMA ValueNames ==
    ASSUME IInv
    PROVE  /\ local = Nothing \/ local.link \in Links
           /\ local.phase = "none" => local = Nothing
           /\ local.phase = "pending" => local = Pending(local.link)
           /\ local.phase = "linked" => local = Linked(local.link)
           /\ local.phase \in {"none", "pending", "linked"}
  BY DEF IInv, TypeOK, Values, Nothing, Pending, Linked

\* A step that leaves the value alone keeps the link whole when the service only
\* goes on and a completion that ends is counted.
LEMMA WholeStays ==
    ASSUME IInv, local' = local, losses \subseteq losses',
           local # Nothing => Ages,
           \A n \in Links : device'[n] = "active" => device[n] = "active",
           \A q \in Procs : pc[q] = "save" /\ cmd[q].verb = "complete" =>
               Aside(q) \/ cmd[q].link \in losses'
    PROVE  LinkIsWhole'
  <1>1. LinkIsWhole
    BY DEF IInv
  <1>2. local.phase = "pending" => request'[local.link] # "none"
    BY <1>1, ValueNames DEF LinkIsWhole, Ages, Nothing
  <1>3. local.phase = "linked" =>
          device'[local.link] # "none" /\ request'[local.link] = "consumed"
    BY <1>1, ValueNames DEF LinkIsWhole, Ages, Nothing
  <1>4. ASSUME NEW n \in Links, device'[n] = "active"
        PROVE  \/ local' = Linked(n)
               \/ n \in losses'
               \/ \E q \in Procs : pc'[q] = "save" /\ cmd'[q] = [verb |-> "complete", link |-> n]
    <2>1. CASE local = Linked(n) \/ n \in losses
      BY <2>1
    <2>2. CASE \E q \in Procs : pc[q] = "save" /\ cmd[q] = [verb |-> "complete", link |-> n]
      <3>1. PICK q \in Procs : pc[q] = "save" /\ cmd[q] = [verb |-> "complete", link |-> n]
        BY <2>2
      <3>2. Aside(q) \/ n \in losses'
        BY <3>1
      <3> QED
        BY <3>1, <3>2 DEF Aside
    <2> QED
      BY <1>1, <1>4, <2>1, <2>2 DEF LinkIsWhole
  <1> QED
    BY <1>2, <1>3, <1>4 DEF LinkIsWhole, Linked

\* What the service keeps its types through.
LEMMA ServiceTypes ==
    ASSUME IInv, NEW p \in Procs, cmd[p].link \in Links, Serves(p)
    PROVE  /\ request' \in [Links -> {"none", "pending", "approved", "denied", "expired", "consumed"}]
           /\ device' \in [Links -> {"none", "active", "revoked"}]
  <1>1. /\ request \in [Links -> {"none", "pending", "approved", "denied", "expired", "consumed"}]
        /\ device \in [Links -> {"none", "active", "revoked"}]
    BY DEF IInv, TypeOK
  <1>2. CASE ServeBegin(p)
    BY <1>1, <1>2 DEF ServeBegin
  <1>3. CASE ServeComplete(p)
    BY <1>1, <1>3 DEF ServeComplete
  <1>4. CASE ServeRevoke(p)
    BY <1>1, <1>4 DEF ServeRevoke
  <1>5. CASE ServeRead(p)
    BY <1>1, <1>5 DEF ServeRead, service
  <1> QED
    BY <1>2, <1>3, <1>4, <1>5 DEF Serves

\* What a served call leaves: the service goes on, but for the link that begins,
\* and activates no device but the one that completes.
LEMMA ServedCall ==
    ASSUME IInv, NEW p \in Procs, pc[p] = "call", Serves(p)
    PROVE  /\ local # Nothing => Ages
           /\ \A n \in Links : device'[n] = "active" =>
                device[n] = "active" \/ cmd[p] = [verb |-> "complete", link |-> n]
           /\ cmd[p].verb = "begin" => request'[cmd[p].link] # "none"
           /\ cmd[p].verb = "complete" =>
                request'[cmd[p].link] = "consumed" /\ device'[cmd[p].link] # "none"
           /\ cmd[p].verb = "revoke" => device'[cmd[p].link] = "revoked"
  <1>1. /\ request \in [Links -> {"none", "pending", "approved", "denied", "expired", "consumed"}]
        /\ device \in [Links -> {"none", "active", "revoked"}]
        /\ cmd[p] \in [verb : Verbs \cup {"none"}, link : Links \cup {None}]
    BY DEF IInv, TypeOK
  <1>2. cmd[p].link \in Links /\ HoldsValue(p)
    BY DEF IInv, Commands, HoldsValue
  <1>3. cmd[p] = [verb |-> cmd[p].verb, link |-> cmd[p].link]
    BY <1>1
  <1>4. CASE ServeBegin(p)
    <2>1. local = Nothing
      BY <1>2, <1>4 DEF HoldsValue, ServeBegin
    <2> QED
      BY <1>1, <1>2, <1>4, <2>1 DEF ServeBegin
  <1>5. CASE ServeComplete(p)
    <2>1. Ages
      BY <1>1, <1>2, <1>5 DEF ServeComplete, Ages
    <2>2. \A n \in Links : device'[n] = "active" =>
              device[n] = "active" \/ cmd[p] = [verb |-> "complete", link |-> n]
      BY <1>1, <1>2, <1>3, <1>5 DEF ServeComplete
    <2> QED
      BY <1>1, <1>2, <1>5, <2>1, <2>2 DEF ServeComplete
  <1>6. CASE ServeRevoke(p)
    <2>1. Ages
      BY <1>1, <1>2, <1>6 DEF ServeRevoke, Ages
    <2> QED
      BY <1>1, <1>2, <1>6, <2>1 DEF ServeRevoke
  <1>7. CASE ServeRead(p)
    BY <1>7 DEF ServeRead, service, Ages
  <1> QED
    BY <1>4, <1>5, <1>6, <1>7 DEF Serves

-----------------------------------------------------------------------------
(* The actions.                                                            *)

LEMMA Assembled ==
    ASSUME LocalTypeOK',
           (local \in Values)',
           (request \in [Links -> {"none", "pending", "approved", "denied", "expired", "consumed"}])',
           (device \in [Links -> {"none", "active", "revoked"}])',
           (losses \in SUBSET Links)',
           (faults \in 0..MaxFaults)'
    PROVE  TypeOK'
  BY DEF TypeOK, LocalTypeOK

LEMMA Initially == Init => IInv
  <1> SUFFICES ASSUME Init
               PROVE  IInv
    OBVIOUS
  <1>1. NoCommand \in [verb : Verbs \cup {"none"}, link : Links \cup {None}]
    BY DEF NoCommand
  <1>2. local \in Values /\ cmd \in [Procs -> [verb : Verbs \cup {"none"}, link : Links \cup {None}]]
    BY <1>1 DEF Init, Nothing, Values
  <1>3. TypeOK
    BY <1>2, BoundsAreNaturals DEF Init, TypeOK
  <1>4. LinkIsWhole
    BY DEF Init, LinkIsWhole, Nothing
  <1>5. Commands
    BY DEF Init, Commands, HoldsValue, WasServed
  <1> QED
    BY <1>3, <1>4, <1>5 DEF IInv

\* What a command that is not refused found under the lock.
LEMMA Admitted ==
    ASSUME IInv, NEW verb \in Verbs, NEW n \in Links, Refusal(verb, n) = None
    PROVE  /\ verb = "begin" => local = Nothing
           /\ verb \in {"status", "complete"} => local = Pending(n)
           /\ verb \in {"list", "revoke"} => local.phase = "linked"
  <1>1. \A code \in Codes : code # None
    BY NoneIsApart
  <1>2. /\ "device_state_exists" # None /\ "device_not_linked" # None
        /\ "device_auth_response_invalid" # None /\ "device_request_mismatch" # None
    BY <1>1 DEF Codes
  <1>3. CASE verb = "begin"
    BY <1>2, <1>3 DEF Refusal
  <1>4. CASE verb \in {"status", "complete"}
    <2>1. local # Nothing
      BY <1>2, <1>4 DEF Refusal
    <2>2. local.phase # "linked"
      BY <1>2, <1>4, <2>1 DEF Refusal
    <2>3. local.phase = "pending"
      BY <2>1, <2>2, ValueNames
    <2>4. local.link = n
      BY <1>2, <1>4, <2>1, <2>2, <2>3 DEF Refusal
    <2> QED
      BY <1>4, <2>3, <2>4, ValueNames
  <1>5. CASE verb \in {"list", "revoke"}
    <2>1. local # Nothing
      BY <1>2, <1>5 DEF Refusal
    <2>2. local.phase # "pending"
      BY <1>2, <1>5, <2>1 DEF Refusal
    <2> QED
      BY <1>5, <2>1, <2>2, ValueNames
  <1>6. CASE verb = "approve"
    BY <1>6
  <1> QED
    BY <1>3, <1>4, <1>5, <1>6 DEF Verbs

LEMMA OpenKeeps ==
    ASSUME IInv, NEW p \in Procs, NEW verb \in Verbs, NEW n \in Links, Open(p, verb, n)
    PROVE  IInv'
  <1>1. UNCHANGED <<local, request, device, losses, faults>> /\ pc[p] = "idle" /\ verb # "approve"
    BY DEF Open, service
  <1>2. Ages /\ StaysRevoked
    BY <1>1 DEF Ages, StaysRevoked
  <1>3. CASE \E code \in Codes : Report(p, code)
    <2>1. PICK code \in Codes : Report(p, code)
      BY <1>3
    <2>2. LocalTypeOK' /\ \A q \in Procs \ {p} : Aside(q)
      BY <2>1, Reported
    <2>3. Commands'
      BY <1>1, <1>2, <2>1, ReportKeeps
    <2>4. LinkIsWhole'
      BY <1>1, <1>2, <2>2, WholeStays
    <2>5. TypeOK'
      BY <1>1, <2>2, Assembled DEF IInv, TypeOK
    <2> QED
      BY <2>3, <2>4, <2>5 DEF IInv
  <1>4. CASE /\ lock = None /\ Refusal(verb, n) = None
             /\ lock' = p
             /\ cmd' = [cmd EXCEPT ![p] = [verb |-> verb, link |-> n]]
             /\ pc' = [pc EXCEPT ![p] = IF verb \in {"list", "revoke"} THEN "refresh" ELSE "call"]
             /\ UNCHANGED result
    <2> DEFINE label == IF verb \in {"list", "revoke"} THEN "refresh" ELSE "call"
    <2>1. label \in {"refresh", "call", "commit"}
      OBVIOUS
    <2>2. /\ LocalTypeOK' /\ pc'[p] = label /\ cmd'[p] = [verb |-> verb, link |-> n]
          /\ \A q \in Procs \ {p} : Aside(q)
      BY <1>4, <2>1, Started
    <2>3. \A q \in Procs : lock # q
      BY <1>4, NoneIsApart
    <2>4. /\ verb = "begin" => local = Nothing
          /\ verb \in {"status", "complete"} => local = Pending(n)
          /\ verb \in {"list", "revoke"} => local.phase = "linked"
      <3>1. Refusal(verb, n) = None
        BY <1>4
      <3> QED
        BY <3>1, Admitted
    <2>5. HoldsValue(p)' /\ WasServed(p)'
      BY <1>1, <1>4, <2>2, <2>4 DEF HoldsValue, WasServed, Verbs, Nothing, Pending
    <2>6. ASSUME NEW q \in Procs
          PROVE  HoldsValue(q)' /\ WasServed(q)'
      <3>1. CASE q = p
        BY <2>5, <3>1
      <3>2. CASE q # p
        BY <2>2, <2>3, <3>2, Unaffected
      <3> QED
        BY <3>1, <3>2
    <2>7. LinkIsWhole'
      BY <1>1, <1>2, <2>2, WholeStays
    <2>8. TypeOK'
      BY <1>1, <2>2, Assembled DEF IInv, TypeOK
    <2> QED
      BY <2>6, <2>7, <2>8 DEF IInv, Commands
  <1>5. Refusal(verb, n) # None => Refusal(verb, n) \in Codes
    BY DEF Refusal, Codes
  <1> QED
    BY <1>3, <1>4, <1>5 DEF Open, Codes

LEMMA RefreshKeeps ==
    ASSUME IInv, NEW p \in Procs, Refresh(p)
    PROVE  IInv'
  <1>1. UNCHANGED <<local, request, device, losses, faults>> /\ pc[p] = "refresh"
    BY DEF Refresh, service
  <1>2. Ages /\ StaysRevoked
    BY <1>1 DEF Ages, StaysRevoked
  <1>3. CASE Goto(p, "call")
    <2>1. LocalTypeOK' /\ pc'[p] = "call" /\ cmd' = cmd /\ lock' = lock
          /\ \A q \in Procs \ {p} : Aside(q)
      BY <1>3, Moved
    <2>2. HoldsValue(p)' /\ WasServed(p)'
      <3>1. HoldsValue(p)
        BY DEF IInv, Commands
      <3> QED
        BY <1>1, <2>1, <3>1 DEF HoldsValue, WasServed, Nothing, Pending
    <2>3. Commands'
      BY <1>1, <1>3, <2>2, MoveKeeps
    <2>4. LinkIsWhole'
      BY <1>1, <1>2, <2>1, WholeStays
    <2>5. TypeOK'
      BY <1>1, <2>1, Assembled DEF IInv, TypeOK
    <2> QED
      BY <2>3, <2>4, <2>5 DEF IInv
  <1>4. CASE Report(p, "device_auth_response_invalid")
    <2>1. LocalTypeOK' /\ \A q \in Procs \ {p} : Aside(q)
      BY <1>4, Reported DEF Codes
    <2>2. Commands'
      BY <1>1, <1>2, <1>4, ReportKeeps DEF Codes
    <2>3. LinkIsWhole'
      BY <1>1, <1>2, <2>1, WholeStays
    <2>4. TypeOK'
      BY <1>1, <2>1, Assembled DEF IInv, TypeOK
    <2> QED
      BY <2>2, <2>3, <2>4 DEF IInv
  <1> QED
    BY <1>3, <1>4 DEF Refresh

LEMMA CallKeeps ==
    ASSUME IInv, NEW p \in Procs, Call(p)
    PROVE  IInv'
  <1>1. UNCHANGED <<local, losses, faults>> /\ pc[p] = "call"
    BY DEF Call
  <1>2. HoldsValue(p) /\ lock = p /\ (\A q \in Procs \ {p} : lock # q) /\ cmd[p].link \in Links
    BY <1>1, Alone DEF IInv, Commands, HoldsValue
  <1>3. CASE Refuses(p) /\ Report(p, "device_auth_response_invalid") /\ UNCHANGED service
    <2>1. LocalTypeOK' /\ \A q \in Procs \ {p} : Aside(q)
      BY <1>3, Reported DEF Codes
    <2>2. Ages /\ StaysRevoked /\ UNCHANGED <<request, device>>
      BY <1>3 DEF service, Ages, StaysRevoked
    <2>3. Commands'
      BY <1>2, <1>3, ReportKeeps DEF Codes
    <2>4. LinkIsWhole'
      BY <1>1, <2>1, <2>2, WholeStays
    <2>5. TypeOK'
      BY <1>1, <2>1, <2>2, Assembled DEF IInv, TypeOK
    <2> QED
      BY <2>3, <2>4, <2>5 DEF IInv
  <1>4. CASE Serves(p) /\ ~(Refuses(p) /\ Report(p, "device_auth_response_invalid") /\ UNCHANGED service)
    <2> DEFINE saves == \/ cmd[p].verb \in {"begin", "complete"}
                        \/ cmd[p].verb = "revoke" /\ cmd[p].link = local.link
               label == IF saves THEN "save" ELSE "release"
    <2>1. Goto(p, label) /\ label \in {"idle", "refresh", "call", "save", "release", "commit"}
      BY <1>4 DEF Call
    <2> HIDE DEF label
    <2>2. LocalTypeOK' /\ pc'[p] = label /\ cmd' = cmd /\ lock' = lock
          /\ \A q \in Procs \ {p} : Aside(q)
      BY <2>1, Moved
    <2>3. HoldsValue(p)'
      BY <1>1, <1>2, <2>2 DEF HoldsValue, label, Nothing, Pending
    <2>4. WasServed(p)'
      BY <1>1, <1>4, <2>2, ServedCall DEF WasServed, label
    <2>5. Commands'
      BY <1>1, <2>1, <2>3, <2>4, MoveKeeps
    <2>6. LinkIsWhole'
      <3>1. CASE cmd[p].verb = "complete"
        <4>1. local = Pending(cmd[p].link) /\ Ages
          BY <1>1, <1>2, <1>4, <3>1, ServedCall DEF HoldsValue, Nothing, Pending
        <4>2. request'[cmd[p].link] # "none"
          BY <1>1, <1>4, <3>1, ServedCall
        <4>3. ASSUME NEW n \in Links, device'[n] = "active"
              PROVE  \/ n \in losses'
                     \/ \E q \in Procs : pc'[q] = "save" /\ cmd'[q] = [verb |-> "complete", link |-> n]
          <5>1. CASE cmd[p] = [verb |-> "complete", link |-> n]
            BY <2>2, <3>1, <5>1 DEF label
          <5>2. CASE device[n] = "active"
            <6>1. local # Linked(n)
              BY <4>1 DEF Pending, Linked
            <6>2. CASE n \in losses
              BY <1>1, <6>2
            <6>3. CASE \E q \in Procs : pc[q] = "save" /\ cmd[q] = [verb |-> "complete", link |-> n]
              <7>1. PICK q \in Procs : pc[q] = "save" /\ cmd[q] = [verb |-> "complete", link |-> n]
                BY <6>3
              <7> QED
                BY <1>1, <2>2, <7>1 DEF Aside
            <6> QED
              BY <5>2, <6>1, <6>2, <6>3 DEF IInv, LinkIsWhole
          <5> QED
            BY <1>1, <1>4, <4>3, <5>1, <5>2, ServedCall
        <4> QED
          BY <1>1, <4>1, <4>2, <4>3 DEF LinkIsWhole, Pending
      <3>2. CASE cmd[p].verb # "complete"
        <4>1. (local # Nothing => Ages) /\ \A n \in Links : device'[n] = "active" => device[n] = "active"
          <5>1. \A n \in Links : cmd[p] # [verb |-> "complete", link |-> n]
            BY <3>2
          <5>2. \A n \in Links : device'[n] = "active" =>
                    device[n] = "active" \/ cmd[p] = [verb |-> "complete", link |-> n]
            BY <1>1, <1>4, ServedCall
          <5>3. local # Nothing => Ages
            BY <1>1, <1>4, ServedCall
          <5> QED
            BY <5>1, <5>2, <5>3
        <4> QED
          BY <1>1, <2>2, <4>1, WholeStays
      <3> QED
        BY <3>1, <3>2
    <2>7. TypeOK'
      <3>1. /\ request' \in [Links -> {"none", "pending", "approved", "denied", "expired", "consumed"}]
            /\ device' \in [Links -> {"none", "active", "revoked"}]
        BY <1>2, <1>4, ServiceTypes
      <3> QED
        BY <1>1, <2>2, <3>1, Assembled DEF IInv, TypeOK
    <2> QED
      BY <2>5, <2>6, <2>7 DEF IInv
  <1> QED
    BY <1>3, <1>4 DEF Call

\* A call whose answer is lost or unreadable, served or not.
LEMMA NoAnswerKeeps ==
    ASSUME IInv, NEW p \in Procs, NEW code \in Codes, Report(p, code),
           local' = local, pc[p] \in {"refresh", "call"}, faults' \in 0..MaxFaults,
           \/ UNCHANGED <<service, losses>>
           \/ pc[p] = "call" /\ Serves(p) /\ losses' = losses \cup CutShort(p)
    PROVE  IInv'
  <1>1. local' = local /\ pc[p] \in {"refresh", "call"} /\ faults' \in 0..MaxFaults
    OBVIOUS
  <1>2. LocalTypeOK' /\ \A q \in Procs \ {p} : Aside(q)
    BY Reported
  <1>3. Commands'
    BY Alone, ReportKeeps
  <1>4. CASE UNCHANGED <<service, losses>>
    <2>1. Ages /\ UNCHANGED <<request, device, losses>>
      BY <1>4 DEF service, Ages
    <2>2. LinkIsWhole'
      BY <1>1, <1>2, <2>1, WholeStays
    <2>3. TypeOK'
      BY <1>1, <1>2, <2>1, Assembled DEF IInv, TypeOK
    <2> QED
      BY <1>3, <2>2, <2>3 DEF IInv
  <1>5. CASE pc[p] = "call" /\ Serves(p) /\ losses' = losses \cup CutShort(p)
    <2>1. cmd[p].link \in Links
      BY <1>5 DEF IInv, Commands, HoldsValue
    <2>2. /\ request' \in [Links -> {"none", "pending", "approved", "denied", "expired", "consumed"}]
          /\ device' \in [Links -> {"none", "active", "revoked"}]
      BY <1>5, <2>1, ServiceTypes
    <2>3. losses' \subseteq Links /\ losses \subseteq losses'
      BY <1>5, <2>1 DEF CutShort, IInv, TypeOK
    <2>4. TypeOK'
      BY <1>1, <1>2, <2>2, <2>3, Assembled DEF IInv, TypeOK
    <2>5. CASE cmd[p].verb = "complete"
      <3>1. /\ local = Pending(cmd[p].link) /\ Ages
            /\ request'[cmd[p].link] # "none" /\ cmd[p].link \in losses'
        BY <1>5, <2>5, ServedCall DEF IInv, Commands, HoldsValue, Nothing, Pending, CutShort
      <3>2. ASSUME NEW n \in Links, device'[n] = "active"
            PROVE  \/ n \in losses'
                   \/ \E q \in Procs : pc'[q] = "save" /\ cmd'[q] = [verb |-> "complete", link |-> n]
        <4>1. CASE cmd[p] = [verb |-> "complete", link |-> n]
          BY <3>1, <4>1
        <4>2. CASE device[n] = "active"
          <5>1. local # Linked(n)
            BY <3>1 DEF Pending, Linked
          <5>2. CASE n \in losses
            BY <2>3, <5>2
          <5>3. CASE \E q \in Procs : pc[q] = "save" /\ cmd[q] = [verb |-> "complete", link |-> n]
            <6>1. PICK q \in Procs : pc[q] = "save" /\ cmd[q] = [verb |-> "complete", link |-> n]
              BY <5>3
            <6> QED
              BY <1>1, <1>2, <6>1 DEF Aside
          <5> QED
            BY <4>2, <5>1, <5>2, <5>3 DEF IInv, LinkIsWhole
        <4> QED
          BY <1>5, <3>2, <4>1, <4>2, ServedCall
      <3>3. LinkIsWhole'
        BY <1>1, <3>1, <3>2 DEF LinkIsWhole, Pending
      <3> QED
        BY <1>3, <2>4, <3>3 DEF IInv
    <2>6. CASE cmd[p].verb # "complete"
      <3>1. (local # Nothing => Ages) /\ \A n \in Links : device'[n] = "active" => device[n] = "active"
        <4>1. \A n \in Links : cmd[p] # [verb |-> "complete", link |-> n]
          BY <2>6
        <4>2. \A n \in Links : device'[n] = "active" =>
                  device[n] = "active" \/ cmd[p] = [verb |-> "complete", link |-> n]
          BY <1>5, ServedCall
        <4>3. local # Nothing => Ages
          BY <1>5, ServedCall
        <4> QED
          BY <4>1, <4>2, <4>3
      <3>2. LinkIsWhole'
        BY <1>1, <1>2, <2>3, <3>1, WholeStays
      <3> QED
        BY <1>3, <2>4, <3>2 DEF IInv
    <2> QED
      BY <2>5, <2>6
  <1> QED
    BY <1>4, <1>5

LEMMA LoseCallKeeps ==
    ASSUME IInv, NEW p \in Procs, LoseCall(p)
    PROVE  IInv'
  <1>1. "device_auth_transient" \in Codes /\ faults' \in 0..MaxFaults
    BY BoundsAreNaturals DEF LoseCall, IInv, TypeOK, Codes
  <1> QED
    BY <1>1, NoAnswerKeeps DEF LoseCall

LEMMA AnswerUnreadableKeeps ==
    ASSUME IInv, NEW p \in Procs, AnswerUnreadable(p)
    PROVE  IInv'
  <1>1. "device_auth_response_invalid" \in Codes /\ faults' \in 0..MaxFaults
    BY BoundsAreNaturals DEF AnswerUnreadable, IInv, TypeOK, Codes
  <1> QED
    BY <1>1, NoAnswerKeeps DEF AnswerUnreadable

\* What the replacement makes of the value, and of the link.
LEMMA Replaced ==
    ASSUME IInv, NEW p \in Procs, pc[p] = "save"
    PROVE  /\ Replacement(p) \in Values
           /\ cmd[p].verb = "begin" =>
                local = Nothing /\ Replacement(p) = Pending(cmd[p].link)
           /\ cmd[p].verb = "complete" =>
                local = Pending(cmd[p].link) /\ Replacement(p) = Linked(cmd[p].link)
           /\ cmd[p].verb = "revoke" =>
                /\ local = Linked(cmd[p].link) /\ Replacement(p) = Nothing
                /\ device[cmd[p].link] = "revoked"
           /\ cmd[p].verb \in {"begin", "complete", "revoke"}
  <1>1. HoldsValue(p) /\ WasServed(p)
    BY DEF IInv, Commands
  <1>2. cmd[p].link \in Links /\ cmd[p].verb \in {"begin", "complete", "revoke"}
    BY <1>1 DEF HoldsValue
  <1>3. CASE cmd[p].verb = "begin"
    BY <1>1, <1>2, <1>3 DEF HoldsValue, Replacement, Values, Pending
  <1>4. CASE cmd[p].verb = "complete"
    BY <1>1, <1>2, <1>4 DEF HoldsValue, Replacement, Values, Linked
  <1>5. CASE cmd[p].verb = "revoke"
    <2>1. local.phase = "linked" /\ local.link = cmd[p].link /\ device[cmd[p].link] = "revoked"
      BY <1>1, <1>5 DEF HoldsValue, WasServed
    <2>2. local = Linked(cmd[p].link)
      BY <2>1, ValueNames
    <2>3. Replacement(p) = Nothing
      BY <1>5 DEF Replacement
    <2> QED
      BY <1>5, <2>1, <2>2, <2>3 DEF Values, Nothing
  <1> QED
    BY <1>2, <1>3, <1>4, <1>5

\* A replacement keeps the link whole.
LEMMA WholeReplaced ==
    ASSUME IInv, NEW p \in Procs, pc[p] = "save", local' = Replacement(p),
           UNCHANGED service, losses \subseteq losses',
           \A q \in Procs \ {p} : Aside(q)
    PROVE  LinkIsWhole'
  <1>1. request' = request /\ device' = device
    BY DEF service
  <1>2. LinkIsWhole /\ WasServed(p)
    BY DEF IInv, Commands
  <1>3. local'.phase = "pending" => request[local'.link] # "none"
    BY <1>2, Replaced DEF WasServed, Pending, Linked, Nothing
  <1>4. local'.phase = "linked" =>
          device[local'.link] # "none" /\ request[local'.link] = "consumed"
    BY <1>2, Replaced DEF WasServed, Pending, Linked, Nothing
  <1>5. ASSUME NEW n \in Links, device[n] = "active"
        PROVE  \/ local' = Linked(n)
               \/ n \in losses'
               \/ \E q \in Procs : pc'[q] = "save" /\ cmd'[q] = [verb |-> "complete", link |-> n]
    <2>1. CASE local = Linked(n)
      <3>1. cmd[p].verb = "revoke" /\ cmd[p].link = n
        BY <2>1, Replaced DEF Nothing, Pending, Linked
      <3>2. device[n] = "revoked"
        BY <3>1, Replaced
      <3> QED
        BY <1>5, <3>2
    <2>2. CASE n \in losses
      BY <2>2
    <2>3. CASE \E q \in Procs : pc[q] = "save" /\ cmd[q] = [verb |-> "complete", link |-> n]
      <3>1. PICK q \in Procs : pc[q] = "save" /\ cmd[q] = [verb |-> "complete", link |-> n]
        BY <2>3
      <3>2. CASE q = p
        BY <3>1, <3>2, Replaced
      <3>3. CASE q # p
        BY <3>1, <3>3 DEF Aside
      <3> QED
        BY <3>2, <3>3
    <2> QED
      BY <1>2, <1>5, <2>1, <2>2, <2>3 DEF LinkIsWhole
  <1> QED
    BY <1>1, <1>3, <1>4, <1>5 DEF LinkIsWhole

LEMMA SaveKeeps ==
    ASSUME IInv, NEW p \in Procs, Save(p)
    PROVE  IInv'
  <1>1. /\ pc[p] = "save" /\ local' = Replacement(p) /\ Goto(p, "release")
        /\ UNCHANGED <<service, losses, faults>>
    BY DEF Save
  <1>2. LocalTypeOK' /\ pc'[p] = "release" /\ cmd' = cmd /\ lock' = lock
        /\ \A q \in Procs \ {p} : Aside(q)
    BY <1>1, Moved
  <1>3. lock = p
    BY <1>1, Alone
  <1>4. HoldsValue(p)' /\ WasServed(p)'
    BY <1>2, <1>3 DEF HoldsValue, WasServed
  <1>5. Commands'
    BY <1>1, <1>4, MoveKeeps
  <1>6. LinkIsWhole'
    BY <1>1, <1>2, WholeReplaced
  <1>7. TypeOK'
    BY <1>1, <1>2, Replaced, Assembled DEF IInv, TypeOK, service
  <1> QED
    BY <1>5, <1>6, <1>7 DEF IInv

\* A command that ends over its call or its replacement counts its completion.
LEMMA CutShortTypes ==
    ASSUME IInv, NEW p \in Procs, pc[p] = "save"
    PROVE  /\ CutShort(p) \subseteq Links
           /\ cmd[p].verb = "complete" => cmd[p].link \in CutShort(p)
  BY DEF CutShort, IInv, Commands, HoldsValue

LEMMA SaveFailsKeeps ==
    ASSUME IInv, NEW p \in Procs, SaveFails(p)
    PROVE  IInv'
  <1>1. /\ pc[p] = "save" /\ Report(p, "device_state_unavailable") /\ UNCHANGED service
        /\ losses' = losses \cup CutShort(p) /\ faults' \in 0..MaxFaults
    BY BoundsAreNaturals DEF SaveFails, IInv, TypeOK
  <1>2. LocalTypeOK' /\ \A q \in Procs \ {p} : Aside(q)
    BY <1>1, Reported DEF Codes
  <1>3. Commands'
    BY <1>1, Alone, ReportKeeps DEF Codes
  <1>4. losses' \subseteq Links /\ losses \subseteq losses'
    BY <1>1, CutShortTypes DEF IInv, TypeOK
  <1>5. request' = request /\ device' = device
    BY <1>1 DEF service
  <1>6. CASE local' = local
    <2>1. Ages /\ \A q \in Procs : pc[q] = "save" /\ cmd[q].verb = "complete" =>
                      Aside(q) \/ cmd[q].link \in losses'
      BY <1>1, <1>2, <1>5, CutShortTypes DEF Ages
    <2>2. LinkIsWhole'
      BY <1>4, <1>5, <1>6, <2>1, WholeStays
    <2>3. TypeOK'
      BY <1>1, <1>2, <1>4, <1>5, <1>6, Assembled DEF IInv, TypeOK
    <2> QED
      BY <1>3, <2>2, <2>3 DEF IInv
  <1>7. CASE local' = Replacement(p)
    <2>1. LinkIsWhole'
      BY <1>1, <1>2, <1>4, <1>7, WholeReplaced
    <2>2. TypeOK'
      BY <1>1, <1>2, <1>4, <1>5, <1>7, Replaced, Assembled DEF IInv, TypeOK
    <2> QED
      BY <1>3, <2>1, <2>2 DEF IInv
  <1> QED
    BY <1>6, <1>7 DEF SaveFails

LEMMA ReleaseKeeps ==
    ASSUME IInv, NEW p \in Procs, Release(p)
    PROVE  IInv'
  <1>1. /\ pc[p] = "release" /\ Report(p, "ok")
        /\ UNCHANGED <<local, request, device, losses, faults>>
    BY DEF Release, service
  <1>2. LocalTypeOK' /\ \A q \in Procs \ {p} : Aside(q)
    BY <1>1, Reported DEF Codes
  <1>3. Ages
    BY <1>1 DEF Ages
  <1>4. Commands'
    BY <1>1, Alone, ReportKeeps DEF Codes
  <1>5. LinkIsWhole'
    BY <1>1, <1>2, <1>3, WholeStays
  <1>6. TypeOK'
    BY <1>1, <1>2, Assembled DEF IInv, TypeOK
  <1> QED
    BY <1>4, <1>5, <1>6 DEF IInv

LEMMA DieKeeps ==
    ASSUME IInv, NEW p \in Procs, Die(p)
    PROVE  IInv'
  <1>1. /\ Report(p, None) /\ UNCHANGED <<local, request, device>> /\ faults' \in 0..MaxFaults
        /\ losses' = IF pc[p] = "save" THEN losses \cup CutShort(p) ELSE losses
    BY BoundsAreNaturals DEF Die, IInv, TypeOK, service
  <1>2. LocalTypeOK' /\ \A q \in Procs \ {p} : Aside(q)
    BY <1>1, Reported
  <1>3. Ages /\ StaysRevoked
    BY <1>1 DEF Ages, StaysRevoked
  <1>4. Commands'
    BY <1>1, <1>3, ReportKeeps
  <1>5. losses' \subseteq Links /\ losses \subseteq losses'
    BY <1>1, CutShortTypes DEF IInv, TypeOK
  <1>6. \A q \in Procs : pc[q] = "save" /\ cmd[q].verb = "complete" =>
            Aside(q) \/ cmd[q].link \in losses'
    BY <1>1, <1>2, CutShortTypes
  <1>7. LinkIsWhole'
    BY <1>1, <1>3, <1>5, <1>6, WholeStays
  <1>8. TypeOK'
    BY <1>1, <1>2, <1>5, Assembled DEF IInv, TypeOK
  <1> QED
    BY <1>4, <1>7, <1>8 DEF IInv

LEMMA PreviewKeeps ==
    ASSUME IInv, NEW p \in Procs, NEW n \in Links, Preview(p, n)
    PROVE  IInv'
  <1>1. pc[p] = "idle" /\ UNCHANGED <<local, request, device, losses, faults>>
    BY DEF Preview, service
  <1>2. Ages /\ StaysRevoked
    BY <1>1 DEF Ages, StaysRevoked
  <1>3. CASE \E code \in Codes : Report(p, code)
    <2>1. PICK code \in Codes : Report(p, code)
      BY <1>3
    <2>2. LocalTypeOK' /\ \A q \in Procs \ {p} : Aside(q)
      BY <2>1, Reported
    <2>3. Commands'
      BY <1>1, <1>2, <2>1, ReportKeeps
    <2>4. LinkIsWhole'
      BY <1>1, <1>2, <2>2, WholeStays
    <2>5. TypeOK'
      BY <1>1, <2>2, Assembled DEF IInv, TypeOK
    <2> QED
      BY <2>3, <2>4, <2>5 DEF IInv
  <1>4. CASE /\ cmd' = [cmd EXCEPT ![p] = [verb |-> "approve", link |-> n]]
             /\ pc' = [pc EXCEPT ![p] = "commit"]
             /\ UNCHANGED <<result, lock>>
    <2>1. "approve" \in Verbs
      BY DEF Verbs
    <2>2. /\ LocalTypeOK' /\ pc'[p] = "commit" /\ cmd'[p] = [verb |-> "approve", link |-> n]
          /\ \A q \in Procs \ {p} : Aside(q)
      BY <1>4, <2>1, Started
    <2>3. ASSUME NEW q \in Procs
          PROVE  HoldsValue(q)' /\ WasServed(q)'
      <3>1. CASE q = p
        BY <2>2, <3>1 DEF HoldsValue, WasServed
      <3>2. CASE q # p
        BY <1>1, <1>2, <1>4, <2>2, <3>2, Unaffected
      <3> QED
        BY <3>1, <3>2
    <2>4. LinkIsWhole'
      BY <1>1, <1>2, <2>2, WholeStays
    <2>5. TypeOK'
      BY <1>1, <2>2, Assembled DEF IInv, TypeOK
    <2> QED
      BY <2>3, <2>4, <2>5 DEF IInv, Commands
  <1> QED
    BY <1>3, <1>4 DEF Preview, Codes

LEMMA CommitKeeps ==
    ASSUME IInv, NEW p \in Procs, Commit(p)
    PROVE  IInv'
  <1>1. /\ pc[p] = "commit" /\ UNCHANGED <<local, device, losses>>
        /\ faults' \in 0..MaxFaults
        /\ \/ request' = request
           \/ /\ request[cmd[p].link] = "pending"
              /\ request' = [request EXCEPT ![cmd[p].link] = "approved"]
    BY BoundsAreNaturals DEF Commit, IInv, TypeOK
  <1>2. PICK code \in Codes : Report(p, code)
    BY DEF Commit, Codes
  <1>3. LocalTypeOK' /\ \A q \in Procs \ {p} : Aside(q)
    BY <1>2, Reported
  <1>4. request \in [Links -> {"none", "pending", "approved", "denied", "expired", "consumed"}]
    BY DEF IInv, TypeOK
  <1>5. request' \in [Links -> {"none", "pending", "approved", "denied", "expired", "consumed"}]
    BY <1>1, <1>4
  <1>6. Ages /\ StaysRevoked
    BY <1>1, <1>4 DEF Ages, StaysRevoked
  <1>7. Commands'
    BY <1>1, <1>2, <1>6, ReportKeeps
  <1>8. LinkIsWhole'
    BY <1>1, <1>3, <1>6, WholeStays
  <1>9. TypeOK'
    BY <1>1, <1>3, <1>5, Assembled DEF IInv, TypeOK
  <1> QED
    BY <1>7, <1>8, <1>9 DEF IInv

\* What the service and other machines do leaves every command where it is.
LEMMA ServiceKeeps ==
    ASSUME IInv, UNCHANGED <<local, lock, pc, cmd, result, losses, faults>>,
           Ages, StaysRevoked,
           \A n \in Links : device'[n] = "active" => device[n] = "active",
           request' \in [Links -> {"none", "pending", "approved", "denied", "expired", "consumed"}],
           device' \in [Links -> {"none", "active", "revoked"}]
    PROVE  IInv'
  <1>1. \A q \in Procs : Aside(q)
    BY DEF Aside
  <1>2. Commands'
    BY <1>1, Unaffected DEF Commands
  <1>3. LinkIsWhole'
    BY <1>1, WholeStays
  <1>4. TypeOK'
    BY DEF IInv, TypeOK
  <1> QED
    BY <1>2, <1>3, <1>4 DEF IInv

LEMMA LapseKeeps ==
    ASSUME IInv, NEW n \in Links, Lapse(n)
    PROVE  IInv'
  <1>1. /\ request \in [Links -> {"none", "pending", "approved", "denied", "expired", "consumed"}]
        /\ device \in [Links -> {"none", "active", "revoked"}]
    BY DEF IInv, TypeOK
  <1>2. PICK s \in {"denied", "expired"} : request' = [request EXCEPT ![n] = s]
    BY DEF Lapse
  <1>3. request[n] \in {"pending", "approved"} /\ device' = device
        /\ UNCHANGED <<local, lock, pc, cmd, result, losses, faults>>
    BY DEF Lapse
  <1>4. Ages /\ StaysRevoked
    BY <1>1, <1>2, <1>3 DEF Ages, StaysRevoked
  <1>5. request' \in [Links -> {"none", "pending", "approved", "denied", "expired", "consumed"}]
    BY <1>1, <1>2
  <1> QED
    BY <1>1, <1>3, <1>4, <1>5, ServiceKeeps

LEMMA RevokeElsewhereKeeps ==
    ASSUME IInv, NEW n \in Links, RevokeElsewhere(n)
    PROVE  IInv'
  <1>1. /\ request \in [Links -> {"none", "pending", "approved", "denied", "expired", "consumed"}]
        /\ device \in [Links -> {"none", "active", "revoked"}]
    BY DEF IInv, TypeOK
  <1>2. /\ request' = request /\ device' = [device EXCEPT ![n] = "revoked"]
        /\ UNCHANGED <<local, lock, pc, cmd, result, losses, faults>>
    BY DEF RevokeElsewhere
  <1>3. Ages /\ StaysRevoked /\ \A m \in Links : device'[m] = "active" => device[m] = "active"
    BY <1>1, <1>2 DEF Ages, StaysRevoked
  <1>4. device' \in [Links -> {"none", "active", "revoked"}]
    BY <1>1, <1>2
  <1> QED
    BY <1>1, <1>2, <1>3, <1>4, ServiceKeeps

LEMMA NextKeeps == IInv /\ [Next]_vars => IInv'
  <1> SUFFICES ASSUME IInv, [Next]_vars
               PROVE  IInv'
    OBVIOUS
  <1>1. ASSUME NEW p \in Procs, NEW verb \in Verbs, NEW n \in Links, Open(p, verb, n)
        PROVE  IInv'
    BY <1>1, OpenKeeps
  <1>2. ASSUME NEW p \in Procs,
               \/ Refresh(p) \/ Call(p) \/ LoseCall(p) \/ AnswerUnreadable(p)
               \/ Save(p) \/ SaveFails(p) \/ Release(p) \/ Die(p) \/ Commit(p)
        PROVE  IInv'
    BY <1>2, RefreshKeeps, CallKeeps, LoseCallKeeps, AnswerUnreadableKeeps, SaveKeeps,
       SaveFailsKeeps, ReleaseKeeps, DieKeeps, CommitKeeps
  <1>3. ASSUME NEW p \in Procs, NEW n \in Links, Preview(p, n)
        PROVE  IInv'
    BY <1>3, PreviewKeeps
  <1>4. ASSUME NEW n \in Links, Lapse(n) \/ RevokeElsewhere(n)
        PROVE  IInv'
    BY <1>4, LapseKeeps, RevokeElsewhereKeeps
  <1>5. CASE UNCHANGED vars
    BY <1>5 DEF vars, service, IInv, TypeOK, LinkIsWhole, Commands, HoldsValue, WasServed
  <1> QED
    BY <1>1, <1>2, <1>3, <1>4, <1>5 DEF Next

-----------------------------------------------------------------------------
(* The theorems.                                                           *)

\* The invariant of the link holds at every moment.
THEOREM Invariance == Spec => []IInv
  BY Initially, NextKeeps, PTL DEF Spec

\* Every variable keeps its type.
THEOREM TypeCorrect == Spec => []TypeOK
  <1>1. IInv => TypeOK
    BY DEF IInv
  <1> QED
    BY <1>1, Invariance, PTL

\* What `store_load` finds here and what the service keeps fit, and no device
\* is active whose credential is lost, but for a completion that did not report
\* success: answer lost or unreadable, replacement failed, or a death.
THEOREM LinksAreWhole == Spec => []LinkIsWhole
  <1>1. IInv => LinkIsWhole
    BY DEF IInv
  <1> QED
    BY <1>1, Invariance, PTL

\* One step of the protected value.
ValueStep ==
    local' # local =>
        \/ local = Nothing /\ local'.phase = "pending"
        \/ local.phase = "pending" /\ local' = Linked(local.link)
        \/ local.phase = "linked" /\ local' = Nothing /\ device[local.link] = "revoked"

LEMMA NextKeepsOrder == IInv /\ [Next]_vars => ValueStep
  <1> SUFFICES ASSUME IInv, [Next]_vars, local' # local
               PROVE  ValueStep
    BY DEF ValueStep
  <1>1. PICK p \in Procs : pc[p] = "save" /\ local' = Replacement(p)
    BY DEF Next, vars, Open, Refresh, Call, LoseCall, AnswerUnreadable, Save, SaveFails, Release, Die,
           Commit, Preview, Lapse, RevokeElsewhere
  <1>2. CASE cmd[p].verb = "begin"
    BY <1>1, <1>2, Replaced DEF ValueStep, Pending
  <1>3. CASE cmd[p].verb = "complete"
    BY <1>1, <1>3, Replaced DEF ValueStep, Pending
  <1>4. CASE cmd[p].verb = "revoke"
    BY <1>1, <1>4, Replaced DEF ValueStep, Linked
  <1> QED
    BY <1>1, <1>2, <1>3, <1>4, Replaced

\* No pending link is replaced by another one and no live credential is dropped,
\* whatever commands, faults and revocations come together: every
\* `compare_and_swap` of device.rs is made under the lock its value was loaded under.
THEOREM ValuesKeepOrder == Spec => ValueKeepsOrder
  <1>1. IInv /\ [Next]_vars =>
           [local' # local =>
             \/ local = Nothing /\ local'.phase = "pending"
             \/ local.phase = "pending" /\ local' = Linked(local.link)
             \/ local.phase = "linked" /\ local' = Nothing /\ device[local.link] = "revoked"]_vars
    BY NextKeepsOrder DEF ValueStep
  <1> QED
    BY <1>1, Invariance, PTL DEF Spec, ValueKeepsOrder
=============================================================================
