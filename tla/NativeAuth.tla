----------------------------- MODULE NativeAuth -----------------------------
(***************************************************************************)
(* Headless identity on one machine: `ds auth login | logout | status`,    *)
(* `ds auth project list | use | status`, `ds auth link complete`,         *)
(* `ds auth device revoke`, and every command that calls the governed      *)
(* service in the selected project.                                        *)
(*                                                                         *)
(* Three durable objects are shared by all processes: the Firebase refresh *)
(* credential, the linked device credential and the selected project.      *)
(* Each has an advisory lock of its own, taken with a bounded wait and     *)
(* released by the operating system when its holder dies.  No command      *)
(* holds all three, so commands interleave between any two of their steps. *)
(*                                                                         *)
(* External: the client core, which reads, rotates and removes the         *)
(* credential under its lock; the identity provider, which may revoke a    *)
(* session; the link service; the project directory.  A pending link reads *)
(* as no device.  One lane and one credential audience.                    *)
(***************************************************************************)
EXTENDS Naturals, FiniteSets

CONSTANTS
    Procs,      \* ds processes
    Users,      \* canonical principals
    Projects,   \* exact project ids
    Visible,    \* the projects in each user's directory
    Mix,        \* the commands people run
    MaxLogins,  \* bound on successful sign-ins
    MaxFaults,  \* bound on deaths, I/O failures and transient answers
    None

Commands == {"login", "logout", "status", "list", "use", "call", "link", "unlink"}

Locks == {"cred", "dev", "ctx"}

\* A refresh credential, told apart from every other by the sign-in it is from.
Credential == [uid : Users, login : 1..MaxLogins]

\* The saved project selection, fenced by the principal it was made for.
Context == [uid : Users, project : Projects]

\* The live session a command acts with; login 0 is the linked device's.
Session == [uid : Users, login : 0..MaxLogins]

\* What the probe read, one object at a time.
Observed == [cred : Users \union {None}, sel : Projects \union {None},
             dev : Users \union {None}]
Unread   == [cred |-> None, sel |-> None, dev |-> None]

ASSUME AuthConstants ==
    /\ Visible \in [Users -> SUBSET Projects]
    /\ Mix \subseteq Commands
    /\ MaxLogins \in Nat /\ MaxFaults \in Nat
    /\ None \notin Procs \union Users \union Projects \union Credential
                     \union Context \union Session \union Commands \union Locks

VARIABLES
    cred,      \* the protected refresh credential, or None
    dev,       \* the principal of the linked device credential, or None
    ctx,       \* the selected project, or None
    lock,      \* the process that holds each lock, or None
    logins,    \* sign-ins so far
    revoked,   \* sign-ins the identity provider has revoked
    faults,    \* faults so far
    pc,        \* where process p is in its command; "idle" between commands
    cmd,       \* its command
    user,      \* the account it signs in, or the approver of its link
    obs,       \* what its probe has read so far
    session,   \* its session, or the device it saw, or None
    selected,  \* its snapshot of the selection, or the one it is about to save
    result     \* how its last command ended, until it starts another

durable == <<cred, dev, ctx>>
world   == <<logins, revoked, faults>>
local   == <<cmd, user, obs, session, selected>>
vars    == <<durable, lock, world, local, pc, result>>

PCs == {"idle", "probe_cred", "probe_sel", "probe_dev", "probe_dsel", "read_dev",
        "open_dev", "refresh", "lease", "restore", "restoring", "directory",
        "save", "load", "call", "forget", "clear", "clear_own", "sign_in",
        "undo", "sign_out", "finish", "dev_lease", "dev_answer"}

-----------------------------------------------------------------------------
(* Control of one command.                                                 *)

Fault == faults < MaxFaults /\ faults' = faults + 1

\* Leave the command, by return, refusal or death: locals and locks are gone.
Exit(p, code) ==
    /\ pc'       = [pc EXCEPT ![p] = "idle"]
    /\ result'   = [result EXCEPT ![p] = [cmd |-> cmd[p], code |-> code]]
    /\ lock'     = [l \in Locks |-> IF lock[l] = p THEN None ELSE lock[l]]
    /\ cmd'      = [cmd EXCEPT ![p] = None]
    /\ user'     = [user EXCEPT ![p] = None]
    /\ obs'      = [obs EXCEPT ![p] = Unread]
    /\ session'  = [session EXCEPT ![p] = None]
    /\ selected' = [selected EXCEPT ![p] = None]

Goto(p, where) == pc' = [pc EXCEPT ![p] = where] /\ UNCHANGED result

\* The lock the next step of p takes, for that step or for longer.
Needs(p) ==
    CASE pc[p] \in {"probe_cred", "restore", "forget", "sign_in",
                    "undo", "sign_out"}                                      -> "cred"
      [] pc[p] \in {"probe_dev", "read_dev", "open_dev", "dev_lease"}       -> "dev"
      [] pc[p] \in {"probe_sel", "probe_dsel", "lease", "save", "load",
                    "clear", "clear_own"}                                    -> "ctx"
      [] OTHER                                                               -> None

Available(p, l) == lock[l] \in {None, p}

Start(p) ==
    /\ pc[p] = "idle"
    /\ \E c \in Mix, u \in Users :
         /\ cmd'  = [cmd EXCEPT ![p] = c]
         /\ user' = [user EXCEPT ![p] = IF c \in {"login", "link"} THEN u ELSE None]
         /\ pc' = [pc EXCEPT ![p] = CASE c = "login"              -> "lease"
                                      [] c \in {"link", "unlink"} -> "dev_lease"
                                      [] OTHER                    -> "probe_cred"]
         /\ result' = [result EXCEPT ![p] = None]
    /\ UNCHANGED <<durable, lock, world, obs, session, selected>>

-----------------------------------------------------------------------------
(* The probe: every durable provider, without network, one lock at a time. *)

Belongs(u) == ctx # None => ctx.uid = u

\* Mutant of Chosen: the whole selection where its project is wanted.
WholeSelection == ctx

Chosen == IF ctx = None THEN None ELSE ctx.project

\* Where a command goes once its probe has found nothing wrong.
Probed(c) == IF c \in {"logout", "status"} THEN "read_dev" ELSE "open_dev"

ProbeCredential(p) ==
    /\ pc[p] = "probe_cred" /\ Available(p, "cred")
    /\ obs' = [obs EXCEPT ![p].cred = IF cred = None THEN None ELSE cred.uid]
    /\ Goto(p, IF cred = None THEN "probe_dev" ELSE "probe_sel")
    /\ UNCHANGED <<durable, lock, world, cmd, user, session, selected>>

ProbeSelected(p) ==
    /\ pc[p] = "probe_sel" /\ Available(p, "ctx")
    /\ \/ /\ Belongs(obs[p].cred)
          /\ obs' = [obs EXCEPT ![p].sel = Chosen]
          /\ Goto(p, "probe_dev")
          /\ UNCHANGED <<lock, cmd, user, session, selected>>
       \/ ~Belongs(obs[p].cred) /\ Exit(p, "project_context_stale")
    /\ UNCHANGED <<durable, world>>

\* Mutant of ProbeDevice: the device lock is kept until the command returns.
ProbeDeviceKeepsLock(p) ==
    /\ pc[p] = "probe_dev" /\ Available(p, "dev")
    /\ obs' = [obs EXCEPT ![p] = IF dev = None THEN Unread ELSE [@ EXCEPT !.dev = dev]]
    /\ Goto(p, IF dev = None THEN Probed(cmd[p]) ELSE "probe_dsel")
    /\ lock' = [lock EXCEPT !["dev"] = p]
    /\ UNCHANGED <<durable, world, cmd, user, session, selected>>

ProbeDevice(p) ==
    /\ pc[p] = "probe_dev" /\ Available(p, "dev")
    /\ obs' = [obs EXCEPT ![p] = IF dev = None THEN Unread ELSE [@ EXCEPT !.dev = dev]]
    /\ Goto(p, IF dev = None THEN Probed(cmd[p]) ELSE "probe_dsel")
    /\ UNCHANGED <<durable, lock, world, cmd, user, session, selected>>

\* Both providers present: they must name one principal and one project.
Disagree(p) ==
    /\ obs[p].cred # None
    /\ obs[p].cred # obs[p].dev \/ obs[p].sel # Chosen

Arbitrate(p) ==
    /\ pc[p] = "probe_dsel" /\ Available(p, "ctx")
    /\ \/ ~Belongs(obs[p].dev) /\ Exit(p, "project_context_stale")
       \/ Belongs(obs[p].dev) /\ Disagree(p) /\ Exit(p, "auth_context_mismatch")
       \/ /\ Belongs(obs[p].dev) /\ ~Disagree(p)
          /\ Goto(p, Probed(cmd[p]))
          /\ obs' = [obs EXCEPT ![p] = Unread]
          /\ UNCHANGED <<lock, cmd, user, session, selected>>
    /\ UNCHANGED <<durable, world>>

-----------------------------------------------------------------------------
(* Sessions.                                                               *)

\* `device::probe_context`: the device is read a second time, on its own lock.
ReadDevice(p) ==
    /\ pc[p] = "read_dev" /\ Available(p, "dev")
    /\ session' = [session EXCEPT ![p] =
                     IF dev = None THEN None ELSE [uid |-> dev, login |-> 0]]
    /\ Goto(p, CASE cmd[p] = "login"                  -> "sign_in"
                 [] cmd[p] = "status" /\ dev # None   -> "load"
                 [] OTHER                             -> "lease")
    /\ UNCHANGED <<durable, lock, world, cmd, user, obs, selected>>

\* Mutant of OpenDevice: no lease is taken before the Firebase restore.
OpenDeviceWithoutLease(p) ==
    /\ pc[p] = "open_dev" /\ Available(p, "dev")
    /\ IF dev = None
       THEN Goto(p, "restore") /\ UNCHANGED session
       ELSE /\ session' = [session EXCEPT ![p] = [uid |-> dev, login |-> 0]]
            /\ Goto(p, "refresh")
    /\ UNCHANGED <<durable, lock, world, cmd, user, obs, selected>>

\* `device::restore_session`: the credential is read under the lock, and the
\* session refreshed over the network after the lock is released.
OpenDevice(p) ==
    /\ pc[p] = "open_dev" /\ Available(p, "dev")
    /\ IF dev = None
       THEN /\ Goto(p, IF cmd[p] = "call" THEN "restore" ELSE "lease")
            /\ UNCHANGED session
       ELSE /\ session' = [session EXCEPT ![p] = [uid |-> dev, login |-> 0]]
            /\ Goto(p, "refresh")
    /\ UNCHANGED <<durable, lock, world, cmd, user, obs, selected>>

RefreshDevice(p) ==
    /\ pc[p] = "refresh"
    /\ \/ /\ Goto(p, IF cmd[p] = "call" THEN "load" ELSE "directory")
          /\ UNCHANGED <<lock, local, faults>>
       \/ Fault /\ Exit(p, "device_auth_transient")
    /\ UNCHANGED <<durable, logins, revoked>>

\* What a command does with the context lease it keeps.
Leased(c) ==
    CASE c = "login"  -> "read_dev"
      [] c = "logout" -> "sign_out"
      [] OTHER        -> "restore"

\* Mutant of TakeLease: the lease is dropped in the statement that takes it.
TakeLeaseDropped(p) ==
    /\ pc[p] = "lease" /\ Available(p, "ctx")
    /\ Goto(p, Leased(cmd[p]))
    /\ UNCHANGED <<durable, lock, world, local>>

TakeLease(p) ==
    /\ pc[p] = "lease" /\ Available(p, "ctx")
    /\ lock' = [lock EXCEPT !["ctx"] = p]
    /\ Goto(p, Leased(cmd[p]))
    /\ UNCHANGED <<durable, world, local>>

\* The core holds the credential lock over the remote refresh.
BeginRestore(p) ==
    /\ pc[p] = "restore" /\ Available(p, "cred")
    /\ \/ /\ cred # None
          /\ lock' = [lock EXCEPT !["cred"] = p]
          /\ session' = [session EXCEPT ![p] = cred]
          /\ Goto(p, "restoring")
          /\ UNCHANGED <<cmd, user, obs, selected>>
       \/ cred = None /\ Exit(p, "headless_signed_out")
    /\ UNCHANGED <<durable, world>>

\* A refused identity removes exactly the credential that carried it.
Forget(p) == cred' = IF cred = session[p] THEN None ELSE cred

Restore(p) ==
    /\ pc[p] = "restoring"
    /\ \/ /\ session[p].login \notin revoked
          /\ Goto(p, IF cmd[p] \in {"use", "list"} THEN "directory" ELSE "load")
          /\ lock' = [lock EXCEPT !["cred"] = None]
          /\ UNCHANGED <<cred, faults, local>>
       \/ /\ session[p].login \in revoked
          /\ Forget(p)
          /\ Goto(p, "clear")
          /\ lock' = [lock EXCEPT !["cred"] = None]
          /\ UNCHANGED <<faults, local>>
       \/ Fault /\ Exit(p, "auth_transient") /\ UNCHANGED cred
    /\ UNCHANGED <<dev, ctx, logins, revoked>>

-----------------------------------------------------------------------------
(* The selected project.                                                   *)

\* A fresh directory: `use` wants one exact project of it, `list` all of it.
FetchDirectory(p) ==
    /\ pc[p] = "directory"
    /\ \/ /\ session[p].login \notin revoked
          /\ IF cmd[p] = "use"
             THEN \/ \E j \in Visible[session[p].uid] :
                       /\ selected' = [selected EXCEPT ![p] =
                                         [uid |-> session[p].uid, project |-> j]]
                       /\ Goto(p, "save")
                       /\ UNCHANGED <<lock, cmd, user, obs, session>>
                  \/ Exit(p, "project_not_visible")
             ELSE Exit(p, "listed")
          /\ UNCHANGED faults
       \/ /\ session[p].login \in revoked
          /\ Goto(p, "forget")
          /\ UNCHANGED <<lock, local, faults>>
       \/ Fault /\ Exit(p, "auth_transient")
    /\ UNCHANGED <<durable, logins, revoked>>

SaveSelection(p) ==
    /\ pc[p] = "save" /\ Available(p, "ctx")
    /\ \/ ctx' = selected[p] /\ Exit(p, "selected") /\ UNCHANGED faults
       \/ Fault /\ Exit(p, "native_state_unavailable") /\ UNCHANGED ctx
    /\ UNCHANGED <<cred, dev, logins, revoked>>

\* Mutant of Fenced: any saved selection will do.
AnySelection(p) == ctx.uid \in Users

\* The fence on every use of a saved selection.
Fenced(p) == ctx.uid = session[p].uid

LoadSelection(p) ==
    /\ pc[p] = "load" /\ Available(p, "ctx")
    /\ \/ /\ ctx = None
          /\ Exit(p, IF cmd[p] = "call" THEN "headless_project_not_selected"
                                        ELSE "not_selected")
       \/ ctx # None /\ ~Fenced(p) /\ Exit(p, "project_context_stale")
       \/ ctx # None /\ Fenced(p) /\ cmd[p] = "status" /\ Exit(p, "reported")
       \/ /\ ctx # None /\ Fenced(p) /\ cmd[p] = "call"
          /\ selected' = [selected EXCEPT ![p] = ctx]
          /\ Goto(p, "call")
          /\ UNCHANGED <<lock, cmd, user, obs, session>>
    /\ UNCHANGED <<durable, world>>

\* One governed request; no lock is held while it travels.
Call(p) ==
    /\ pc[p] = "call"
    /\ \/ /\ session[p].login \notin revoked
          /\ Exit(p, "called")
          /\ UNCHANGED faults
       \/ /\ session[p].login \in revoked
          /\ Goto(p, "forget")
          /\ UNCHANGED <<lock, local, faults>>
       \/ Fault /\ Exit(p, "auth_transient")
    /\ UNCHANGED <<durable, logins, revoked>>

\* The service refused the identity of a request: first its credential goes.
ForgetCredential(p) ==
    /\ pc[p] = "forget" /\ Available(p, "cred")
    /\ Forget(p)
    /\ Goto(p, IF cmd[p] = "call" THEN "clear_own" ELSE "clear")
    /\ UNCHANGED <<dev, ctx, lock, world, local>>

\* The identity was refused: under the lease the command holds, or under one
\* it takes now, the selection is removed whoever it belongs to.
ClearSelection(p) ==
    /\ pc[p] = "clear" /\ Available(p, "ctx")
    /\ \/ ctx' = None /\ Exit(p, "auth_revoked") /\ UNCHANGED faults
       \/ Fault /\ Exit(p, "native_cleanup_required") /\ UNCHANGED ctx
    /\ UNCHANGED <<cred, dev, logins, revoked>>

\* After a released lease only the very selection of the request is removed.
ClearIfUnchanged(p) ==
    /\ pc[p] = "clear_own" /\ Available(p, "ctx")
    /\ \/ /\ ctx' = IF ctx = selected[p] THEN None ELSE ctx
          /\ Exit(p, "auth_revoked") /\ UNCHANGED faults
       \/ Fault /\ Exit(p, "native_cleanup_required") /\ UNCHANGED ctx
    /\ UNCHANGED <<cred, dev, logins, revoked>>

-----------------------------------------------------------------------------
(* Login and logout, under the context lease from here to the end.         *)

SignIn(p) ==
    /\ pc[p] = "sign_in" /\ Available(p, "cred")
    /\ \/ /\ logins < MaxLogins
          /\ logins' = logins + 1
          /\ cred' = [uid |-> user[p], login |-> logins + 1]
          /\ Goto(p, IF session[p] # None /\ session[p].uid # user[p]
                     THEN "undo" ELSE "finish")
          /\ UNCHANGED <<lock, local>>
       \/ Exit(p, "auth_invalid_credentials") /\ UNCHANGED <<cred, logins>>
    /\ UNCHANGED <<dev, ctx, revoked, faults>>

\* The account conflicts with the linked device: the sign-in is taken back.
UndoSignIn(p) ==
    /\ pc[p] = "undo" /\ Available(p, "cred")
    /\ \/ cred' = None /\ Exit(p, "auth_context_mismatch") /\ UNCHANGED faults
       \/ Fault /\ Exit(p, "native_cleanup_required") /\ UNCHANGED cred
    /\ UNCHANGED <<dev, ctx, logins, revoked>>

\* A device seen before the lease keeps its selection.
SignOut(p) ==
    /\ pc[p] = "sign_out" /\ Available(p, "cred")
    /\ \/ /\ cred' = None
          /\ \/ session[p] # None /\ Exit(p, "firebase_signed_out")
             \/ session[p] = None /\ Goto(p, "finish") /\ UNCHANGED <<lock, local>>
          /\ UNCHANGED faults
       \/ Fault /\ Exit(p, "native_state_unsafe") /\ UNCHANGED cred
    /\ UNCHANGED <<dev, ctx, logins, revoked>>

FinishSign(p) ==
    /\ pc[p] = "finish"
    /\ \/ /\ ctx' = None
          /\ Exit(p, IF cmd[p] = "login" THEN "signed_in" ELSE "signed_out")
          /\ UNCHANGED faults
       \/ Fault /\ Exit(p, "native_cleanup_required") /\ UNCHANGED ctx
    /\ UNCHANGED <<cred, dev, logins, revoked>>

-----------------------------------------------------------------------------
(* The device credential: its lock is held over the whole exchange.        *)

TakeDevice(p) ==
    /\ pc[p] = "dev_lease" /\ Available(p, "dev")
    /\ \/ /\ (cmd[p] = "link") <=> (dev = None)
          /\ lock' = [lock EXCEPT !["dev"] = p]
          /\ Goto(p, "dev_answer")
          /\ UNCHANGED local
       \/ ~((cmd[p] = "link") <=> (dev = None)) /\ Exit(p, "device_auth_response_invalid")
    /\ UNCHANGED <<durable, world>>

\* The link was approved for `user`, or the service revoked this device.
WriteDevice(p) ==
    /\ pc[p] = "dev_answer"
    /\ \/ dev' = user[p] /\ Exit(p, "device_written") /\ UNCHANGED faults
       \/ Fault /\ Exit(p, "device_auth_transient") /\ UNCHANGED dev
    /\ UNCHANGED <<cred, ctx, logins, revoked>>

-----------------------------------------------------------------------------
(* What may happen to any command, and around it.                          *)

\* Mutant of LockTimeout: a lock is waited for without a bound.
WaitForever(p) == FALSE /\ Needs(p) # None /\ UNCHANGED vars

\* A lock another process kept for the whole bounded wait.
LockTimeout(p) ==
    /\ Needs(p) # None /\ ~Available(p, Needs(p))
    /\ Exit(p, "native_state_conflict")
    /\ UNCHANGED <<durable, world>>

Die(p) ==
    /\ pc[p] # "idle"
    /\ Fault
    /\ Exit(p, "died")
    /\ UNCHANGED <<durable, logins, revoked>>

RevokeSession ==
    /\ \E n \in (1..logins) \ revoked : revoked' = revoked \union {n}
    /\ UNCHANGED <<durable, lock, logins, faults, local, pc, result>>

Init ==
    /\ cred = None /\ dev = None /\ ctx = None
    /\ lock = [l \in Locks |-> None]
    /\ logins = 0 /\ revoked = {} /\ faults = 0
    /\ pc = [p \in Procs |-> "idle"]
    /\ cmd = [p \in Procs |-> None]
    /\ user = [p \in Procs |-> None]
    /\ obs = [p \in Procs |-> Unread]
    /\ session = [p \in Procs |-> None]
    /\ selected = [p \in Procs |-> None]
    /\ result = [p \in Procs |-> None]

Probe(p)   == ProbeCredential(p) \/ ProbeSelected(p) \/ ProbeDevice(p) \/ Arbitrate(p)
Open(p)    == ReadDevice(p) \/ OpenDevice(p) \/ RefreshDevice(p) \/ TakeLease(p)
                \/ BeginRestore(p) \/ Restore(p)
Select(p)  == FetchDirectory(p) \/ SaveSelection(p) \/ LoadSelection(p) \/ Call(p)
                \/ ForgetCredential(p) \/ ClearSelection(p) \/ ClearIfUnchanged(p)
Sign(p)    == SignIn(p) \/ UndoSignIn(p) \/ SignOut(p) \/ FinishSign(p)
Device(p)  == TakeDevice(p) \/ WriteDevice(p)

Step(p) == Probe(p) \/ Open(p) \/ Select(p) \/ Sign(p) \/ Device(p) \/ LockTimeout(p)

Next == RevokeSession \/ \E p \in Procs : Start(p) \/ Step(p) \/ Die(p)

Spec == Init /\ [][Next]_vars

\* A process that is scheduled takes its next step: remote calls and lock waits
\* are bounded in time, so each of them ends one way or another.
FairSpec == Spec /\ \A p \in Procs : WF_vars(Step(p))
-----------------------------------------------------------------------------
(* Properties.                                                             *)

\* How a command can end.
Codes == {"called", "listed", "reported", "not_selected", "selected", "signed_in", "signed_out",
          "firebase_signed_out", "device_written", "died", "auth_context_mismatch",
          "auth_invalid_credentials", "auth_revoked", "auth_transient",
          "device_auth_response_invalid", "device_auth_transient",
          "headless_project_not_selected", "headless_signed_out", "native_cleanup_required",
          "native_state_conflict", "native_state_unavailable", "native_state_unsafe",
          "project_context_stale", "project_not_visible"}

\* Every variable holds a value of its type.
TypeOK ==
    /\ cred \in Credential \union {None}
    /\ dev \in Users \union {None}
    /\ ctx \in Context \union {None}
    /\ lock \in [Locks -> Procs \union {None}]
    /\ logins \in 0..MaxLogins
    /\ revoked \subseteq 1..MaxLogins
    /\ faults \in 0..MaxFaults
    /\ pc \in [Procs -> PCs]
    /\ cmd \in [Procs -> Commands \union {None}]
    /\ user \in [Procs -> Users \union {None}]
    /\ obs \in [Procs -> Observed]
    /\ session \in [Procs -> Session \union {None}]
    /\ selected \in [Procs -> Context \union {None}]
    /\ result \in [Procs -> [cmd : Commands, code : Codes] \union {None}]

WaitsFor(p, q) == Needs(p) # None /\ lock[Needs(p)] = q /\ p # q

\* No set of commands can each be waiting for a lock another of them holds:
\* login keeps the context lease while it reads the device, a restore keeps
\* the credential lock over the network and a link keeps the device lock over
\* the network, and none of these waits closes a circle that only the bounded
\* wait would break.
NoCircularWait ==
    \A S \in (SUBSET Procs) \ {{}} : \E p \in S : \A q \in S : ~WaitsFor(p, q)

\* A governed request carries a project that its own session's user selected
\* from that user's own directory, whatever other processes signed in, linked
\* or selected since the session was opened.
CallsInOwnProject ==
    \A p \in Procs : pc[p] = "call" =>
        /\ selected[p].uid = session[p].uid
        /\ selected[p].project \in Visible[session[p].uid]

Ends(p, code) == result[p] = None /\ result'[p] # None /\ result'[p].code = code

\* When login reports an account signed in, that very sign-in is the stored
\* credential (unless the provider revoked it in the meantime) and no earlier
\* selection is left for it to inherit; when logout reports the machine signed
\* out, neither a credential nor a selection is left.  Both write the two one
\* after the other, and other commands sign in, restore and select around them.
SignInsAreWhole ==
    [][\A p \in Procs :
          /\ Ends(p, "signed_in") =>
                /\ ctx' = None
                /\ cred' # None => cred'.uid = user[p]
                /\ cred' = None => logins \in revoked
          /\ Ends(p, "signed_out") => cred' = None /\ ctx' = None]_vars

\* `project use` with a Firebase session saves a selection only while that very
\* sign-in is still the stored credential, or has been revoked: no selection is
\* written behind a logout or for an account that was replaced meanwhile.
SelectsForCurrentLogin ==
    [][\A p \in Procs :
          Ends(p, "selected") /\ session[p].login > 0 =>
              cred = session[p] \/ session[p].login \in revoked]_vars

\* Every command comes to an end, whatever locks the others keep.
CommandsEnd == \A p \in Procs : pc[p] # "idle" ~> pc[p] = "idle"

\* docs/reference/auth.md: cleanup by logout "remains callable even when the
\* credential is stale or absent", and signing out is the remedy of
\* auth_context_mismatch; `ds auth project use` is the remedy of
\* project_context_stale.  So neither is refused for the state it repairs.
RemediesWork ==
    \A p \in Procs : result[p] # None =>
        /\ result[p].cmd = "logout" =>
              result[p].code \notin {"project_context_stale", "auth_context_mismatch"}
        /\ result[p].cmd = "use" => result[p].code # "project_context_stale"
=============================================================================
