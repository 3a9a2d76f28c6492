---------------------------- MODULE DesktopCall ----------------------------
(***************************************************************************)
(* One `ds` command that borrows the authority of a running desktop        *)
(* application, on its own or on behalf of an MCP tool call.  The command  *)
(* observes the protected sign-ins of this machine (registry dispatch),    *)
(* finds an application through its descriptor file (discover.rs), reads   *)
(* its session and sends one operation fenced by what it read (ops.rs and  *)
(* bridge.rs).  An MCP call first waits, through child processes that read *)
(* the same status, for an application that is ready (tools.rs).           *)
(*                                                                         *)
(* Meanwhile applications start, end and restart on other ports, people    *)
(* change the account and project of an application and the sign-ins of    *)
(* the machine, and a reply may be lost or an answer come after the        *)
(* command gave up.  A process runs one command.  An account stands for    *)
(* the user, lane and credential audience together.                        *)
(***************************************************************************)
EXTENDS Naturals, FiniteSets

CONSTANTS
    Procs,       \* the commands
    Profiles,    \* installed profiles, numbered in the order they are searched
    Ports,       \* loopback ports
    Accounts, Projects,
    Menu,        \* the commands a process may run
    Sessions,    \* what applications may be signed in to: account and project
    SignIns,     \* headless identities the machine may be signed in with
    Installed,   \* the profile an MCP server starts
    Polls,       \* how often an MCP call looks for the application it started
    MaxStarts,   \* bound on application starts
    MaxMoves,    \* bound on account and project changes made by people
    MaxFaults,   \* bound on lost replies and unreadable state
    None

ASSUME ProfilesAreNumbers == Profiles \in SUBSET Nat /\ IsFiniteSet(Profiles) /\ Installed \in Profiles
ASSUME BoundsAreNaturals ==
    Polls \in Nat /\ MaxStarts \in Nat /\ MaxMoves \in Nat /\ MaxFaults \in Nat

\* A signed-out application has no project.
SessionStates == [account : Accounts, project : Projects \cup {None}]
                    \cup {[account |-> None, project |-> None]}

Identities == [account : Accounts, project : Projects \cup {None}]

\* What a descriptor file says: a loopback port and a pairing secret.
Descriptors == [port : Ports, token : 1..MaxStarts]

\* The authorities a command declares: "none" for `desktop status`, then
\* desktop_pairing, desktop_user and project.
Authorities == {"none", "pairing", "user", "project"}

Commands == [authority : Authorities, mcp : BOOLEAN, named : Profiles \cup {None},
             switch : Projects \cup {None}]

\* How a command can end.
Codes == {"ok", "absent", "auth_context_mismatch", "native_state_unsafe", "descriptor_unusable",
          "desktop_unreachable", "desktop_unreadable", "desktop_contract_mismatch",
          "desktop_ambiguous", "desktop_not_paired", "desktop_signed_out", "desktop_refused",
          "project_not_visible", "desktop_operation_unsupported", "pairing_rejected"}

ASSUME InstanceIsSmall ==
    /\ Menu \subseteq Commands /\ Menu # {}
    /\ Sessions \subseteq SessionStates /\ SignIns \subseteq Identities
ASSUME NoneIsApart ==
    /\ None \notin Accounts \cup Projects \cup Profiles \cup Ports
    /\ None \notin Descriptors /\ None \notin Codes

VARIABLES
    app,       \* what runs under each profile; its token tells runs apart
    file,      \* the descriptor file of each profile
    refresh,   \* the protected refresh sign-in of the machine, with its project
    device,    \* the protected device sign-in, with its project
    pc, cmd,   \* where each command is, and what it was asked
    stage,     \* whether the search serves the MCP gate or the command itself
    head,      \* the headless identity the command observed
    todo,      \* profiles the search has still to look at
    live,      \* descriptors the search found responsive
    unusable,  \* profiles whose descriptor the search could not use
    at,        \* the descriptor in use
    fence,     \* the identity snapshot the operation carries
    request,   \* the operation on its way to an application
    answer,    \* the HTTP status that came back for it
    result,    \* what the command reported
    polls,     \* looks left to a waiting MCP call
    launches,  \* applications started by each command
    ran,       \* for checking: what the command made an application execute
    steady,    \* for checking: applications up since the search began, no probe failed
    starts, moves, faults

world == <<app, file, refresh, device>>
search == <<todo, live, unusable, at, steady>>
sent == <<fence, request, answer, ran>>
gate == <<stage, polls, launches>>
bounds == <<starts, moves, faults>>
vars == <<world, pc, cmd, head, search, sent, gate, result, bounds>>

Fences == [account : Accounts, project : Projects \cup {None}, rev : Nat]

Down == [token |-> 0, port |-> None, account |-> None, project |-> None, rev |-> 0]

Apps == [token : 0..MaxStarts, port : Ports \cup {None}, account : Accounts \cup {None},
         project : Projects \cup {None}, rev : Nat]

Up(d) == app[d].token # 0

\* The application that accepts connections on a port.
Listening(d, port) == Up(d) /\ app[d].port = port

\* An application whose own descriptor is the one on disk.
Published(d) == Up(d) /\ file[d] = [port |-> app[d].port, token |-> app[d].token]

\* What the session reply tells about an application.
Snapshot(d) == [account |-> app[d].account, project |-> app[d].project, rev |-> app[d].rev]

BorrowsUser(p) == cmd[p].authority \in {"user", "project"}

----------------------------------------------------------------------------
\* A command ends and says so.
Report(p, code) ==
    /\ result' = [result EXCEPT ![p] = code]
    /\ pc' = [pc EXCEPT ![p] = "done"]

Goto(p, label) == pc' = [pc EXCEPT ![p] = label] /\ UNCHANGED result

\* A search of the MCP gate that fails ends the call as not paired; a search of
\* the command itself reports its own code.
Refuse(p, code) ==
    Report(p, IF stage[p] = "tool" THEN code ELSE "desktop_not_paired")

Begin(p) ==
    /\ pc[p] = "start"
    /\ \E c \in Menu :
        /\ cmd' = [cmd EXCEPT ![p] = c]
        /\ stage' = [stage EXCEPT ![p] =
                        IF c.mcp /\ c.authority # "none" THEN "gate" ELSE "tool"]
        /\ pc' = [pc EXCEPT ![p] =
                        IF stage'[p] = "tool" /\ c.authority \in {"user", "project"}
                        THEN "observe" ELSE "list"]
    /\ UNCHANGED <<world, head, search, sent, polls, launches, result, bounds>>

\* Dispatch observes the refresh sign-in and the project selected for it.
ObserveRefresh(p) ==
    /\ pc[p] = "observe"
    /\ head' = [head EXCEPT ![p] = refresh]
    /\ Goto(p, "observe_device")
    /\ UNCHANGED <<world, cmd, search, sent, gate, bounds>>

\* ... and then the device sign-in.  Two that disagree refuse the command.
ObserveDevice(p) ==
    /\ pc[p] = "observe_device"
    /\ \/ /\ None \in {head[p], device} \/ head[p] = device
          /\ head' = [head EXCEPT ![p] = IF device = None THEN @ ELSE device]
          /\ Goto(p, "list")
       \/ /\ None \notin {head[p], device} /\ head[p] # device
          /\ Report(p, "auth_context_mismatch")
          /\ UNCHANGED head
    /\ UNCHANGED <<world, cmd, search, sent, gate, bounds>>

\* Protected state that cannot be trusted refuses the command.
StateUnsafe(p) ==
    /\ pc[p] \in {"observe", "observe_device"}
    /\ faults < MaxFaults /\ faults' = faults + 1
    /\ Report(p, "native_state_unsafe")
    /\ UNCHANGED <<world, cmd, head, search, sent, gate, starts, moves>>

----------------------------------------------------------------------------
\* A search begins.  A named descriptor is used as it is read, or refused: it may
\* be gone, too large, no JSON, of another version, or name no loopback address.
\* Otherwise every profile with a descriptor file is a candidate.
List(p) ==
    /\ pc[p] = "list"
    /\ LET named == cmd[p].named IN
       \/ /\ named # None
          /\ Refuse(p, IF cmd[p].authority = "none" THEN "descriptor_unusable"
                                                    ELSE "desktop_unreachable")
          /\ UNCHANGED search
       \/ /\ named # None /\ file[named] # None
          /\ at' = [at EXCEPT ![p] = file[named]]
          /\ Goto(p, "session")
          /\ UNCHANGED <<todo, live, unusable, steady>>
       \/ /\ named = None
          /\ todo' = [todo EXCEPT ![p] = {d \in Profiles : file[d] # None}]
          /\ unusable' = [unusable EXCEPT ![p] = {}]
          /\ steady' = [steady EXCEPT ![p] = {d \in Profiles : Published(d)}]
          /\ Goto(p, "read")
          /\ UNCHANGED <<live, at>>
    /\ UNCHANGED <<world, cmd, head, sent, gate, bounds>>

Next1(p) == CHOOSE d \in todo[p] : \A e \in todo[p] : d <= e

\* The next candidate is read, or cannot be used: it is gone, or not a file the
\* command can read, of its version and on the loopback.
ReadDescriptor(p) ==
    /\ pc[p] = "read" /\ todo[p] # {}
    /\ LET d == Next1(p) IN
       \/ /\ file[d] # None
          /\ at' = [at EXCEPT ![p] = file[d]]
          /\ Goto(p, "probe")
          /\ UNCHANGED <<todo, unusable>>
       \/ /\ todo' = [todo EXCEPT ![p] = @ \ {d}]
          /\ unusable' = [unusable EXCEPT ![p] = @ \cup {d}]
          /\ UNCHANGED <<at, pc, result>>
    /\ UNCHANGED <<world, cmd, head, live, steady, sent, gate, bounds>>

\* It is live when anything accepts a connection on its port within the timeout
\* of the probe, which a running application may miss.
Probe(p) ==
    /\ pc[p] = "probe"
    /\ \/ /\ \E d \in Profiles : Listening(d, at[p].port)
          /\ live' = [live EXCEPT ![p] = @ \cup {<<Next1(p), at[p]>>}]
          /\ UNCHANGED steady
       \/ /\ steady' = [steady EXCEPT ![p] = @ \ {Next1(p)}]
          /\ UNCHANGED live
    /\ todo' = [todo EXCEPT ![p] = @ \ {Next1(p)}]
    /\ Goto(p, "read")
    /\ UNCHANGED <<world, cmd, head, unusable, at, sent, gate, bounds>>

\* Mutant of Select: the first of several live descriptors is taken.
SelectFirst(p) ==
    /\ pc[p] = "read" /\ todo[p] = {}
    /\ \/ \E found \in live[p] :
            /\ \A other \in live[p] : found[1] <= other[1]
            /\ at' = [at EXCEPT ![p] = found[2]]
            /\ Goto(p, "session")
       \/ /\ live[p] = {}
          /\ Refuse(p, IF unusable[p] # {} THEN "desktop_unreachable" ELSE "desktop_not_paired")
          /\ at' = [at EXCEPT ![p] = None]
    /\ live' = [live EXCEPT ![p] = {}]
    /\ UNCHANGED <<world, cmd, head, todo, unusable, steady, sent, gate, bounds>>

\* Exactly one live descriptor is a pairing.
Select(p) ==
    /\ pc[p] = "read" /\ todo[p] = {}
    /\ \/ /\ Cardinality(live[p]) = 1
          /\ \E found \in live[p] : at' = [at EXCEPT ![p] = found[2]]
          /\ Goto(p, "session")
       \/ /\ Cardinality(live[p]) > 1
          /\ Refuse(p, "desktop_ambiguous")
          /\ at' = [at EXCEPT ![p] = None]
       \/ /\ live[p] = {} /\ unusable[p] # {}
          /\ Refuse(p, IF cmd[p].authority = "none" THEN "descriptor_unusable"
                                                    ELSE "desktop_unreachable")
          /\ at' = [at EXCEPT ![p] = None]
       \/ /\ live[p] = {} /\ unusable[p] = {}
          /\ CASE stage[p] = "gate" -> Goto(p, "launch")
               [] stage[p] = "poll" -> Goto(p, "wait")
               [] stage[p] = "tool" ->
                    Report(p, IF cmd[p].authority = "none" THEN "absent"
                                                           ELSE "desktop_not_paired")
          /\ at' = [at EXCEPT ![p] = None]
    /\ live' = [live EXCEPT ![p] = {}]
    /\ UNCHANGED <<world, cmd, head, todo, unusable, steady, sent, gate, bounds>>

----------------------------------------------------------------------------
\* The MCP gate: one start of the installed application ...
Launch(p) ==
    /\ pc[p] = "launch"
    /\ launches' = [launches EXCEPT ![p] = @ + 1]
    /\ stage' = [stage EXCEPT ![p] = "poll"]
    /\ \/ Goto(p, "wait")
       \/ Report(p, "desktop_not_paired")      \* it could not be started
    /\ UNCHANGED <<world, cmd, head, search, sent, polls, bounds>>

\* Mutants of Wait: one look too many, and looks without a bound.
WaitOnceMore(p) ==
    /\ pc[p] = "wait"
    /\ polls' = [polls EXCEPT ![p] = @ - 1]
    /\ IF polls[p] >= 0 THEN Goto(p, "list") ELSE Report(p, "desktop_not_paired")
    /\ UNCHANGED <<world, cmd, head, search, sent, stage, launches, bounds>>

WaitForever(p) ==
    /\ pc[p] = "wait"
    /\ Goto(p, "list")
    /\ UNCHANGED <<world, cmd, head, search, sent, gate, bounds>>

\* ... and a bounded number of looks for what it publishes.
Wait(p) ==
    /\ pc[p] = "wait"
    /\ \/ /\ polls[p] > 0
          /\ polls' = [polls EXCEPT ![p] = @ - 1]
          /\ Goto(p, "list")
       \/ /\ polls[p] = 0
          /\ Report(p, "desktop_not_paired")
          /\ UNCHANGED polls
    /\ UNCHANGED <<world, cmd, head, search, sent, stage, launches, bounds>>

\* The gate lets a call through to its own command when the application it
\* found has what the command's authority asks for.
Ready(p, d) ==
    /\ BorrowsUser(p) => app[d].account # None
    /\ cmd[p].authority = "project" => app[d].project # None

Pass(p, d) ==
    /\ \/ /\ Ready(p, d)
          /\ stage' = [stage EXCEPT ![p] = "tool"]
          /\ Goto(p, IF BorrowsUser(p) THEN "observe" ELSE "list")
       \/ /\ ~Ready(p, d)
          /\ Report(p, "desktop_signed_out")
          /\ UNCHANGED stage
    /\ UNCHANGED <<fence, polls, launches>>

----------------------------------------------------------------------------
\* The headless identity a command observed fits the application's session.
Matches(h, f) ==
    h # None => /\ h.account = f.account
                /\ h.project # None => h.project = f.project

\* Mutant of Arm: the session is not compared with the headless identity.
ArmUnchecked(p, d) ==
    /\ IF cmd[p].authority = "none" THEN Report(p, "ok") /\ UNCHANGED fence
       ELSE /\ app[d].account # None
            /\ fence' = [fence EXCEPT ![p] = Snapshot(d)]
            /\ Goto(p, "send")
    /\ UNCHANGED gate

\* The command checks the session it read and fences its operation with it.
Arm(p, d) ==
    /\ \/ /\ cmd[p].authority = "none"
          /\ Report(p, "ok")
          /\ UNCHANGED fence
       \/ /\ cmd[p].authority # "none"
          /\ app[d].account # None /\ Matches(head[p], Snapshot(d))
          /\ fence' = [fence EXCEPT ![p] = Snapshot(d)]
          /\ Goto(p, "send")
       \/ /\ cmd[p].authority # "none"
          /\ app[d].account = None \/ ~Matches(head[p], Snapshot(d))
          /\ Report(p, "auth_context_mismatch")
          /\ UNCHANGED fence
    /\ UNCHANGED gate

\* The session request.  The HTTP client reports a refused pairing secret as a
\* failed request, so the code for it is the one for an application that does
\* not answer.  The reply itself may be lost, late, refused, too large or not what
\* this build reads.
ReadSession(p) ==
    /\ pc[p] = "session"
    /\ \/ \E d \in Profiles :
            /\ Listening(d, at[p].port) /\ app[d].token = at[p].token
            /\ IF stage[p] = "tool" THEN Arm(p, d) ELSE Pass(p, d)
            /\ UNCHANGED <<answer, faults>>
       \/ /\ \E d \in Profiles : Listening(d, at[p].port) /\ app[d].token # at[p].token
          /\ answer' = [answer EXCEPT ![p] = 401]
          /\ Refuse(p, "desktop_unreachable")
          /\ UNCHANGED <<fence, gate, faults>>
       \/ /\ ~\E d \in Profiles : Listening(d, at[p].port)
          /\ Refuse(p, "desktop_unreachable")
          /\ UNCHANGED <<fence, gate, answer, faults>>
       \/ /\ faults < MaxFaults /\ faults' = faults + 1
          /\ \E code \in {"desktop_unreachable", "desktop_refused", "desktop_unreadable",
                          "desktop_contract_mismatch"} : Refuse(p, code)
          /\ UNCHANGED <<fence, gate, answer>>
    /\ UNCHANGED <<world, cmd, head, search, request, ran, starts, moves>>

\* The fenced operation goes to the same descriptor.
Send(p) ==
    /\ pc[p] = "send"
    /\ \/ /\ \E d \in Profiles : Listening(d, at[p].port)
          /\ request' = [request EXCEPT ![p] = at[p]]
          /\ Goto(p, "sent")
       \/ /\ ~\E d \in Profiles : Listening(d, at[p].port)
          /\ Report(p, "desktop_unreachable")
          /\ UNCHANGED request
    /\ UNCHANGED <<world, cmd, head, search, gate, fence, answer, ran, bounds>>

\* The application checks secret and fence just before it executes.  What it
\* refuses it has not executed.
Executes(p, d) ==
    /\ app[d].token = request[p].token
    /\ Snapshot(d) = fence[p]

Serve(p, d) ==
    /\ request[p] # None /\ Listening(d, request[p].port)
    /\ request' = [request EXCEPT ![p] = None]
    /\ \/ /\ Executes(p, d)
          /\ ran' = [ran EXCEPT ![p] =
                        [times |-> @.times + 1, by |-> d, as |-> Snapshot(d)]]
          /\ LET to == cmd[p].switch IN
             app' = IF to \in {None, app[d].project} THEN app
                    ELSE [app EXCEPT ![d].project = to, ![d].rev = @ + 1]
          /\ answer' = [answer EXCEPT ![p] = 200]
       \/ /\ Executes(p, d)
          /\ answer' \in {[answer EXCEPT ![p] = 400], [answer EXCEPT ![p] = 422]}
          /\ UNCHANGED <<ran, app>>
       \/ /\ ~Executes(p, d)
          /\ answer' = [answer EXCEPT ![p] =
                           IF app[d].token # request[p].token THEN 401 ELSE 409]
          /\ UNCHANGED <<ran, app>>
    /\ UNCHANGED <<file, refresh, device, pc, cmd, head, search, gate, fence, result, bounds>>

\* A refusal by the application's own words, some of which a command recognizes.
InItsWords == {"desktop_refused", "desktop_signed_out", "project_not_visible"}

\* What a reply is reported as; 400 and 409 also depend on its words, and a success
\* on whether the command can read what came back.
CodesOf(status) ==
    CASE status = 0   -> {"desktop_unreachable"}
      [] status = 200 -> {"ok", "desktop_contract_mismatch"}
      [] status = 401 -> {"pairing_rejected"}
      [] status = 400 -> {"desktop_operation_unsupported"} \cup InItsWords
      [] status = 409 -> {"auth_context_mismatch"} \cup InItsWords
      [] OTHER        -> InItsWords

Receive(p) ==
    /\ pc[p] = "sent" /\ request[p] = None
    /\ \E code \in CodesOf(answer[p]) : Report(p, code)
    /\ UNCHANGED <<world, cmd, head, search, sent, gate, bounds>>

\* Mutant of GiveUp: an operation that may have run is reported as not paired.
GiveUpAsNotPaired(p) ==
    /\ pc[p] = "sent"
    /\ faults < MaxFaults /\ faults' = faults + 1
    /\ Report(p, "desktop_not_paired")
    /\ UNCHANGED <<world, cmd, head, search, sent, gate, starts, moves>>

\* The reply is late, lost or too large: the command gives up while its request
\* may be waiting or done.
GiveUp(p) ==
    /\ pc[p] = "sent"
    /\ faults < MaxFaults /\ faults' = faults + 1
    /\ \/ Report(p, "desktop_unreachable")
       \/ request[p] = None /\ answer[p] # 0 /\ Report(p, "desktop_unreadable")
    /\ UNCHANGED <<world, cmd, head, search, sent, gate, starts, moves>>

----------------------------------------------------------------------------
\* Bound: people and applications are looked at only while a command or its
\* request is under way.
Busy == \E p \in Procs : pc[p] # "done" \/ request[p] # None

\* An application starts, signed in or not, and publishes its descriptor.
Start(d) ==
    /\ Busy /\ ~Up(d) /\ starts < MaxStarts
    /\ starts' = starts + 1
    /\ \E port \in Ports, s \in Sessions :
        /\ \A e \in Profiles : ~Listening(e, port)
        /\ app' = [app EXCEPT ![d] = [token |-> starts', port |-> port,
                          account |-> s.account, project |-> s.project, rev |-> 1]]
        /\ file' = [file EXCEPT ![d] = [port |-> port, token |-> starts']]
    /\ UNCHANGED <<refresh, device, pc, cmd, head, search, sent, gate, result, moves, faults>>

\* It ends with whatever it was sent, and may leave its descriptor behind.
End(d) ==
    /\ Busy /\ Up(d)
    /\ app' = [app EXCEPT ![d] = Down]
    /\ file' \in {file, [file EXCEPT ![d] = None]}
    /\ request' = [p \in Procs |->
           IF request[p] # None /\ request[p].port = app[d].port THEN None ELSE request[p]]
    /\ steady' = [p \in Procs |-> steady[p] \ {d}]
    /\ UNCHANGED <<refresh, device, pc, cmd, head, todo, live, unusable, at, fence, answer,
                   ran, gate, result, bounds>>

\* A person signs in or out of the application or opens another project.
ChangeApp(d) ==
    /\ Busy /\ Up(d) /\ moves < MaxMoves
    /\ moves' = moves + 1
    /\ \E s \in Sessions :
        /\ <<s.account, s.project>> # <<app[d].account, app[d].project>>
        /\ app' = [app EXCEPT ![d] = [token |-> app[d].token, port |-> app[d].port,
                          account |-> s.account, project |-> s.project, rev |-> app[d].rev + 1]]
    /\ UNCHANGED <<file, refresh, device, pc, cmd, head, search, sent, gate, result, starts, faults>>

\* Another command signs the machine in or out, or selects a project, which
\* matters to commands that have still to observe it.
ChangeSignIn ==
    /\ \E p \in Procs : \/ pc[p] \in {"start", "observe", "observe_device"}
                        \/ stage[p] # "tool" /\ pc[p] # "done"
    /\ moves < MaxMoves
    /\ moves' = moves + 1
    /\ \/ refresh' \in SignIns \cup {None} /\ UNCHANGED device
       \/ device' \in SignIns \cup {None} /\ UNCHANGED refresh
    /\ UNCHANGED <<app, file, pc, cmd, head, search, sent, gate, result, starts, faults>>

----------------------------------------------------------------------------
Init ==
    /\ app = [d \in Profiles |-> Down]
    /\ file = [d \in Profiles |-> None]
    /\ refresh \in SignIns \cup {None}
    /\ device \in {None, refresh}
    /\ pc = [p \in Procs |-> "start"]
    /\ cmd \in [Procs -> {CHOOSE c \in Menu : TRUE}]
    /\ stage = [p \in Procs |-> "tool"]
    /\ head = [p \in Procs |-> None]
    /\ todo = [p \in Procs |-> {}]
    /\ live = [p \in Procs |-> {}]
    /\ unusable = [p \in Procs |-> {}]
    /\ at = [p \in Procs |-> None]
    /\ fence = [p \in Procs |-> None]
    /\ request = [p \in Procs |-> None]
    /\ answer = [p \in Procs |-> 0]
    /\ result = [p \in Procs |-> None]
    /\ polls = [p \in Procs |-> Polls]
    /\ launches = [p \in Procs |-> 0]
    /\ ran = [p \in Procs |-> [times |-> 0, by |-> None, as |-> None]]
    /\ steady = [p \in Procs |-> {}]
    /\ starts = 0 /\ moves = 0 /\ faults = 0

\* What a command does of its own accord, faults aside.
Advance(p) ==
    \/ Begin(p) \/ ObserveRefresh(p) \/ ObserveDevice(p)
    \/ List(p) \/ ReadDescriptor(p) \/ Probe(p) \/ Select(p)
    \/ Launch(p) \/ Wait(p)
    \/ ReadSession(p) \/ Send(p) \/ Receive(p)

Next ==
    \/ \E p \in Procs : Advance(p) \/ StateUnsafe(p) \/ GiveUp(p)
    \/ \E p \in Procs, d \in Profiles : Serve(p, d)
    \/ \E d \in Profiles : Start(d) \/ End(d) \/ ChangeApp(d)
    \/ ChangeSignIn

Spec == Init /\ [][Next]_vars

\* A command takes its next step, and a request reaches an application that is
\* up or dies with it.
FairSpec ==
    /\ Spec
    /\ \A p \in Procs : WF_vars(Advance(p)) /\ WF_vars(\E d \in Profiles : Serve(p, d))

----------------------------------------------------------------------------
(* Properties                                                              *)

\* Every variable keeps its type.
TypeOK ==
    /\ app \in [Profiles -> Apps]
    /\ file \in [Profiles -> Descriptors \cup {None}]
    /\ refresh \in Identities \cup {None} /\ device \in Identities \cup {None}
    /\ pc \in [Procs -> {"start", "observe", "observe_device", "list", "read", "probe",
                         "launch", "wait", "session", "send", "sent", "done"}]
    /\ cmd \in [Procs -> Commands]
    /\ stage \in [Procs -> {"gate", "poll", "tool"}]
    /\ head \in [Procs -> Identities \cup {None}]
    /\ todo \in [Procs -> SUBSET Profiles]
    /\ live \in [Procs -> SUBSET (Profiles \X Descriptors)]
    /\ unusable \in [Procs -> SUBSET Profiles]
    /\ at \in [Procs -> Descriptors \cup {None}]
    /\ fence \in [Procs -> Fences \cup {None}]
    /\ request \in [Procs -> Descriptors \cup {None}]
    /\ answer \in [Procs -> {0, 200, 400, 401, 409, 422}]
    /\ result \in [Procs -> Codes \cup {None}]
    /\ polls \in [Procs -> 0..Polls] /\ launches \in [Procs -> Nat]
    /\ ran \in [Procs -> [times : Nat, by : Profiles \cup {None}, as : Fences \cup {None}]]
    /\ steady \in [Procs -> SUBSET Profiles]
    /\ starts \in 0..MaxStarts /\ moves \in 0..MaxMoves /\ faults \in 0..MaxFaults

\* Whatever a command made an application execute ran as the account, and in the
\* project, of the headless identity the command observed, however often the
\* application, its account or its project changed since (unified-identity.md,
\* guarded automatic arbitration).
ActsAsHeadless == \A p \in Procs : ran[p].times > 0 => Matches(head[p], ran[p].as)

\* The codes that do not settle whether the operation ran, and those that say it
\* did not.
Unsettled == {"desktop_unreachable", "desktop_unreadable", "desktop_contract_mismatch"}

Refusals == Codes \ ({"ok", "absent"} \cup Unsettled)

\* An operation runs at most once.  A success means that it did, under the session
\* the command read; every refusal means that it neither did nor ever will.  A reply
\* that could not be read leaves nothing on its way; after the one code that is
\* left, desktop_unreachable, the operation may have run or still run.
ReportsTellTruth ==
    \A p \in Procs :
        /\ ran[p].times <= 1
        /\ result[p] = "ok" /\ cmd[p].authority # "none" =>
              ran[p].times = 1 /\ ran[p].as = fence[p]
        /\ result[p] \in Refusals => ran[p].times = 0 /\ request[p] = None
        /\ result[p] \in Unsettled \ {"desktop_unreachable"} => request[p] = None

\* What the exit class `unavailable` says of its codes: the command cannot run here,
\* and may be retried after its remedy.  The code reports an operation whose reply is
\* late or unreadable under the same class.
RetryIsSafe ==
    \A p \in Procs :
        result[p] \in {"desktop_unreachable", "desktop_unreadable"} => ran[p].times = 0

\* An automatic search never passes over an application that was up all the while
\* with its descriptor on disk, answered its probe, and whose descriptor could be
\* read: the command talks to that one or to none.  No command says that there is
\* none, and no MCP call starts one, beside an application that was merely
\* unreadable, nor ever more than one (mcp.md: MCP never launches a second app when
\* status already reports one).  An application that misses its probe is passed
\* over.
SearchMissesNothing ==
    \A p \in Procs : cmd[p].named = None =>
        /\ pc[p] \in {"session", "send", "sent"} =>
              \A d \in steady[p] \ unusable[p] : at[p] = file[d]
        /\ pc[p] = "launch" \/ result[p] = "absent" => steady[p] = {}
        /\ result[p] \in {"descriptor_unusable", "desktop_unreachable"} /\ at[p] = None =>
              steady[p] \subseteq unusable[p]
        /\ launches[p] <= 1

\* Every command ends, with or without an application, also when it waits for
\* one that never comes.
CommandsEnd == \A p \in Procs : <>(pc[p] = "done")
=============================================================================
