----------------------------- MODULE DeviceLink -----------------------------
(***************************************************************************)
(* Linking this machine as a device of a user: `ds auth link begin`,       *)
(* `status` and `complete`, `ds auth devices list`, `read` and `revoke`    *)
(* (device.rs), and `ds auth link approve` (link_approval.rs), which asks  *)
(* a paired desktop to preview and then commit the approval.               *)
(*                                                                         *)
(* One protected value holds the pending link or the device credential of  *)
(* a lane; a command keeps its lock from the load to the replacement, over *)
(* the calls to the service in between.  Calls and replies are lost, an    *)
(* answer is unreadable, a replacement fails with or without effect        *)
(* (ProtectedStore), commands die, requests expire or are denied, and a    *)
(* device is revoked elsewhere.                                            *)
(* A link is named by its request; the device it becomes has its number.   *)
(***************************************************************************)
EXTENDS Naturals, FiniteSets

CONSTANTS
    Procs,      \* commands that may run at once
    MaxLinks,   \* bound on link requests
    MaxFaults,  \* bound on lost calls, unreadable answers, failed replacements, deaths
    None

Codes == {"ok", "device_state_conflict", "device_state_exists", "device_not_linked",
          "device_auth_response_invalid", "device_request_mismatch", "device_auth_transient",
          "device_state_unavailable", "device_authorization_binding_mismatch",
          "desktop_refused", "desktop_unreachable"}

ASSUME BoundsAreNaturals == MaxLinks \in Nat /\ MaxFaults \in Nat
ASSUME NoneIsApart == None \notin Procs \cup Codes /\ None \notin Nat

VARIABLES
    local,    \* the protected value: none, a pending link or a credential
    lock,     \* the process that holds its lock
    request,  \* the service's link requests
    device,   \* the service's devices
    pc,       \* where each command is
    cmd,      \* what it is: a verb and the request or device it names
    result,   \* what it last reported
    losses,   \* for checking: links whose completion did not end well here
    faults

service == <<request, device>>
vars == <<local, lock, service, pc, cmd, result, losses, faults>>

Links == 1..MaxLinks

Values == {[phase |-> "none", link |-> None]}
              \cup [phase : {"pending", "linked"}, link : Links]

Nothing == [phase |-> "none", link |-> None]
Pending(n) == [phase |-> "pending", link |-> n]
Linked(n) == [phase |-> "linked", link |-> n]

Verbs == {"begin", "status", "complete", "list", "revoke", "approve"}

----------------------------------------------------------------------------
NoCommand == [verb |-> "none", link |-> None]

\* A command ends and reports; what it held of the store goes with it.
Report(p, code) ==
    /\ result' = [result EXCEPT ![p] = code]
    /\ pc' = [pc EXCEPT ![p] = "idle"]
    /\ cmd' = [cmd EXCEPT ![p] = NoCommand]
    /\ lock' = IF lock = p THEN None ELSE lock

Goto(p, label) == pc' = [pc EXCEPT ![p] = label] /\ UNCHANGED <<result, lock, cmd>>

\* Why the loaded value does not serve the command, if it does not.
Refusal(verb, n) ==
    CASE verb = "begin" /\ local # Nothing -> "device_state_exists"
      [] verb # "begin" /\ local = Nothing -> "device_not_linked"
      [] verb \in {"status", "complete"} /\ local.phase = "linked" -> "device_auth_response_invalid"
      [] verb \in {"list", "revoke"} /\ local.phase = "pending" -> "device_auth_response_invalid"
      [] verb \in {"status", "complete"} /\ local.phase = "pending" /\ local.link # n
            -> "device_request_mismatch"
      [] OTHER -> None

\* Mutant of Open: the value is loaded and used without its lock.
OpenUnlocked(p, verb, n) ==
    /\ pc[p] = "idle" /\ verb # "approve"
    /\ verb = "begin" => request[n] = "none"
    /\ Refusal(verb, n) = None
    /\ cmd' = [cmd EXCEPT ![p] = [verb |-> verb, link |-> n]]
    /\ pc' = [pc EXCEPT ![p] = IF verb \in {"list", "revoke"} THEN "refresh" ELSE "call"]
    /\ UNCHANGED <<local, lock, service, result, losses, faults>>

\* The lock is taken at once or not at all; the value is loaded under it.
Open(p, verb, n) ==
    /\ pc[p] = "idle" /\ verb # "approve"
    /\ verb = "begin" => request[n] = "none"    \* bound: no more links than MaxLinks
    /\ \/ /\ lock # None
          /\ Report(p, "device_state_conflict")
       \/ /\ lock = None /\ Refusal(verb, n) # None
          /\ Report(p, Refusal(verb, n))
       \/ /\ lock = None /\ Refusal(verb, n) = None
          /\ lock' = p
          /\ cmd' = [cmd EXCEPT ![p] = [verb |-> verb, link |-> n]]
          /\ pc' = [pc EXCEPT ![p] = IF verb \in {"list", "revoke"} THEN "refresh" ELSE "call"]
          /\ UNCHANGED result
    /\ UNCHANGED <<local, service, losses, faults>>

\* The credential mints a short-lived session, unless its device was revoked.
Refresh(p) ==
    /\ pc[p] = "refresh"
    /\ \/ device[local.link] = "active" /\ Goto(p, "call")
       \/ device[local.link] # "active" /\ Report(p, "device_auth_response_invalid")
    /\ UNCHANGED <<local, service, losses, faults>>

----------------------------------------------------------------------------
\* What the service does with each call it accepts.
ServeBegin(p) ==
    /\ cmd[p].verb = "begin"
    /\ request' = [request EXCEPT ![cmd[p].link] = "pending"]
    /\ UNCHANGED device

ServeComplete(p) ==
    /\ cmd[p].verb = "complete"
    /\ request[cmd[p].link] = "approved"
    /\ request' = [request EXCEPT ![cmd[p].link] = "consumed"]
    /\ device' = [device EXCEPT ![cmd[p].link] = "active"]

ServeRevoke(p) ==
    /\ cmd[p].verb = "revoke"
    /\ device[local.link] = "active" /\ device[cmd[p].link] # "none"
    /\ device' = [device EXCEPT ![cmd[p].link] = "revoked"]
    /\ UNCHANGED request

ServeRead(p) ==
    /\ \/ cmd[p].verb = "status"
       \/ cmd[p].verb = "list" /\ device[local.link] = "active"
    /\ UNCHANGED service

Serves(p) == ServeBegin(p) \/ ServeComplete(p) \/ ServeRevoke(p) \/ ServeRead(p)

\* The service refuses a completion before approval, and a revoked device.
Refuses(p) ==
    \/ cmd[p].verb = "complete" /\ request[cmd[p].link] # "approved"
    \/ cmd[p].verb \in {"list", "revoke"} /\ device[local.link] # "active"
    \/ cmd[p].verb = "revoke" /\ device[cmd[p].link] = "none"

\* Mutant of Call: the value is replaced only when a link begins.
CallForgetsCredential(p) ==
    /\ pc[p] = "call"
    /\ \/ Serves(p) /\ Goto(p, IF cmd[p].verb = "begin" THEN "save" ELSE "release")
       \/ Refuses(p) /\ Report(p, "device_auth_response_invalid") /\ UNCHANGED service
    /\ UNCHANGED <<local, losses, faults>>

\* A call with an answer.  Revoking another device leaves the own credential.
Call(p) ==
    /\ pc[p] = "call"
    /\ \/ /\ Serves(p)
          /\ IF \/ cmd[p].verb \in {"begin", "complete"}
                \/ cmd[p].verb = "revoke" /\ cmd[p].link = local.link
             THEN Goto(p, "save")
             ELSE Goto(p, "release")
       \/ /\ Refuses(p)
          /\ Report(p, "device_auth_response_invalid")
          /\ UNCHANGED service
    /\ UNCHANGED <<local, losses, faults>>

\* The link whose completion ends here, if it is one.
CutShort(p) == IF cmd[p].verb = "complete" THEN {cmd[p].link} ELSE {}

\* A call or its answer is lost; the service may have served it.
LoseCall(p) ==
    /\ pc[p] \in {"refresh", "call"} /\ faults < MaxFaults
    /\ faults' = faults + 1
    /\ Report(p, "device_auth_transient")
    /\ \/ UNCHANGED <<service, losses>>
       \/ pc[p] = "call" /\ Serves(p) /\ losses' = losses \cup CutShort(p)
    /\ UNCHANGED local

\* The answer of a served call arrives and is not one: it does not parse, or
\* what it holds cannot be encoded.  Nothing is replaced.
AnswerUnreadable(p) ==
    /\ pc[p] \in {"refresh", "call"} /\ faults < MaxFaults
    /\ faults' = faults + 1
    /\ Report(p, "device_auth_response_invalid")
    /\ \/ pc[p] = "refresh" /\ UNCHANGED <<service, losses>>
       \/ pc[p] = "call" /\ Serves(p) /\ losses' = losses \cup CutShort(p)
    /\ UNCHANGED local

----------------------------------------------------------------------------
\* Mutant of Replacement: a revoked credential loses its device but not its phase.
ReplacementKeepsPhase(p) ==
    CASE cmd[p].verb = "begin" -> Pending(cmd[p].link)
      [] cmd[p].verb = "complete" -> Linked(cmd[p].link)
      [] OTHER -> [local EXCEPT !.link = None]

\* What the command replaces the protected value with.
Replacement(p) ==
    CASE cmd[p].verb = "begin" -> Pending(cmd[p].link)
      [] cmd[p].verb = "complete" -> Linked(cmd[p].link)
      [] OTHER -> Nothing

Save(p) ==
    /\ pc[p] = "save"
    /\ local' = Replacement(p)
    /\ Goto(p, "release")
    /\ UNCHANGED <<service, losses, faults>>

\* A replacement that fails may be in place all the same.
SaveFails(p) ==
    /\ pc[p] = "save" /\ faults < MaxFaults
    /\ faults' = faults + 1
    /\ local' \in {local, Replacement(p)}
    /\ losses' = losses \cup CutShort(p)
    /\ Report(p, "device_state_unavailable")
    /\ UNCHANGED service

Release(p) ==
    /\ pc[p] = "release"
    /\ Report(p, "ok")
    /\ UNCHANGED <<local, service, losses, faults>>

\* A death drops the lock; a link whose call was served is cut short.
Die(p) ==
    /\ pc[p] # "idle" /\ faults < MaxFaults
    /\ faults' = faults + 1
    /\ Report(p, None)
    /\ losses' = IF pc[p] = "save" THEN losses \cup CutShort(p) ELSE losses
    /\ UNCHANGED <<local, service>>

----------------------------------------------------------------------------
\* `auth link approve` on a machine with a paired desktop: a preview that must
\* find the request pending, then the commit.
Preview(p, n) ==
    /\ pc[p] = "idle"
    /\ \/ /\ request[n] = "pending"
          /\ cmd' = [cmd EXCEPT ![p] = [verb |-> "approve", link |-> n]]
          /\ pc' = [pc EXCEPT ![p] = "commit"]
          /\ UNCHANGED <<result, lock>>
       \/ request[n] \notin {"pending", "none"}
          /\ Report(p, "device_authorization_binding_mismatch")
       \/ request[n] = "none" /\ Report(p, "desktop_refused")
    /\ UNCHANGED <<local, service, losses, faults>>

Commit(p) ==
    /\ pc[p] = "commit"
    /\ LET n == cmd[p].link IN
       \/ /\ request[n] = "pending"
          /\ request' = [request EXCEPT ![n] = "approved"]
          /\ Report(p, "ok")
          /\ UNCHANGED faults
       \/ /\ request[n] # "pending"
          /\ Report(p, "desktop_refused")
          /\ UNCHANGED <<request, faults>>
       \/ /\ faults < MaxFaults
          /\ faults' = faults + 1
          /\ \/ UNCHANGED request
             \/ /\ request[n] = "pending"
                /\ request' = [request EXCEPT ![n] = "approved"]
          /\ Report(p, "desktop_unreachable")
    /\ UNCHANGED <<local, device, losses>>

----------------------------------------------------------------------------
\* The service and other machines: a request expires or is denied, a device is
\* revoked.
Lapse(n) ==
    /\ request[n] \in {"pending", "approved"}
    /\ \E s \in {"denied", "expired"} :
        /\ s = "denied" => request[n] = "pending"
        /\ request' = [request EXCEPT ![n] = s]
    /\ UNCHANGED <<local, lock, device, pc, cmd, result, losses, faults>>

RevokeElsewhere(n) ==
    /\ device[n] = "active"
    /\ device' = [device EXCEPT ![n] = "revoked"]
    /\ UNCHANGED <<local, lock, request, pc, cmd, result, losses, faults>>

----------------------------------------------------------------------------
Init ==
    /\ local = Nothing /\ lock = None
    /\ request = [n \in Links |-> "none"]
    /\ device = [n \in Links |-> "none"]
    /\ pc = [p \in Procs |-> "idle"]
    /\ cmd = [p \in Procs |-> NoCommand]
    /\ result = [p \in Procs |-> None]
    /\ losses = {}
    /\ faults = 0

Next ==
    \/ \E p \in Procs, verb \in Verbs, n \in Links : Open(p, verb, n)
    \/ \E p \in Procs :
          \/ Refresh(p) \/ Call(p) \/ LoseCall(p) \/ AnswerUnreadable(p)
          \/ Save(p) \/ SaveFails(p) \/ Release(p) \/ Die(p) \/ Commit(p)
    \/ \E p \in Procs, n \in Links : Preview(p, n)
    \/ \E n \in Links : Lapse(n) \/ RevokeElsewhere(n)

Spec == Init /\ [][Next]_vars

----------------------------------------------------------------------------
(* Properties                                                              *)

\* Every variable keeps its type.
TypeOK ==
    /\ local \in Values /\ lock \in Procs \cup {None}
    /\ request \in [Links -> {"none", "pending", "approved", "denied", "expired", "consumed"}]
    /\ device \in [Links -> {"none", "active", "revoked"}]
    /\ pc \in [Procs -> {"idle", "refresh", "call", "save", "release", "commit"}]
    /\ cmd \in [Procs -> [verb : Verbs \cup {"none"}, link : Links \cup {None}]]
    /\ result \in [Procs -> Codes \cup {None}]
    /\ losses \in SUBSET Links
    /\ faults \in 0..MaxFaults

\* What is kept here and what the service keeps fit: a pending link was begun
\* there, a credential is of a device that was approved and completed, and there
\* is no active device whose credential nobody holds, unless the command that
\* completed it did not report success: its answer was lost or unreadable, its
\* replacement failed, or it died.
LinkIsWhole ==
    /\ local.phase = "pending" => request[local.link] # "none"
    /\ local.phase = "linked" =>
          device[local.link] # "none" /\ request[local.link] = "consumed"
    /\ \A n \in Links : device[n] = "active" =>
          \/ local = Linked(n)
          \/ n \in losses
          \/ \E p \in Procs : pc[p] = "save" /\ cmd[p] = [verb |-> "complete", link |-> n]

\* The protected value only goes from nothing to a pending link, from that to
\* its own credential, and from a credential to nothing once its device is
\* revoked: a link is never replaced by another and a live credential never lost.
ValueKeepsOrder ==
    [][local' # local =>
         \/ local = Nothing /\ local'.phase = "pending"
         \/ local.phase = "pending" /\ local' = Linked(local.link)
         \/ local.phase = "linked" /\ local' = Nothing /\ device[local.link] = "revoked"]_vars
=============================================================================
