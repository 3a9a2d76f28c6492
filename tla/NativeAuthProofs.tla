-------------------------- MODULE NativeAuthProofs --------------------------
(* NativeAuth keeps its promises for any number of processes, users,       *)
(* projects, sign-ins and faults.                                          *)
EXTENDS NativeAuth, TLAPS

-----------------------------------------------------------------------------
(* The inductive invariant.                                                *)

WorldTypeOK ==
    /\ cred \in Credential \union {None}
    /\ dev \in Users \union {None}
    /\ ctx \in Context \union {None}
    /\ logins \in 0..MaxLogins
    /\ revoked \subseteq 1..MaxLogins
    /\ faults \in 0..MaxFaults

LocalTypeOK ==
    /\ lock \in [Locks -> Procs \union {None}]
    /\ pc \in [Procs -> PCs]
    /\ cmd \in [Procs -> Commands \union {None}]
    /\ user \in [Procs -> Users \union {None}]
    /\ obs \in [Procs -> Observed]
    /\ session \in [Procs -> Session \union {None}]
    /\ selected \in [Procs -> Context \union {None}]
    /\ result \in [Procs -> [cmd : Commands, code : Codes] \union {None}]

\* The command at each place, and what it has found by then.
Placed(p) ==
    /\ pc[p] # "idle" => cmd[p] \in Commands
    /\ pc[p] # "idle" /\ cmd[p] = "login" => user[p] \in Users
    /\ pc[p] \in {"probe_cred", "probe_sel", "probe_dev", "probe_dsel"}
         => cmd[p] \in {"logout", "status", "list", "use", "call"}
    /\ pc[p] = "read_dev" => cmd[p] \in {"login", "logout", "status"}
    /\ pc[p] = "open_dev" => cmd[p] \in {"list", "use", "call"}
    /\ pc[p] = "lease" => cmd[p] \in {"login", "logout", "status", "list", "use"}
    /\ pc[p] = "refresh" => cmd[p] \in {"list", "use", "call"} /\ session[p].login = 0
    /\ pc[p] \in {"restore", "restoring"} => cmd[p] \in {"status", "list", "use", "call"}
    /\ pc[p] = "directory" => cmd[p] \in {"list", "use"}
    /\ pc[p] = "load" => cmd[p] \in {"status", "call"}
    /\ pc[p] \in {"sign_in", "undo"} => cmd[p] = "login"
    /\ pc[p] = "sign_out" => cmd[p] = "logout"
    /\ pc[p] = "finish" => cmd[p] \in {"login", "logout"}
    /\ pc[p] \in {"refresh", "restoring", "directory", "save", "load", "call", "forget"}
         => session[p] # None
    /\ pc[p] = "forget" => session[p].login \in revoked

\* A selection about to be saved or used is one its session's user may see.
Chose(p) ==
    pc[p] \in {"save", "call"} =>
        /\ selected[p] # None
        /\ selected[p].uid = session[p].uid
        /\ selected[p].project \in Visible[session[p].uid]

\* The locks a command keeps from one step to the next.
Keeps(p) ==
    /\ lock["cred"] = p <=> pc[p] = "restoring"
    /\ lock["dev"] = p <=> pc[p] = "dev_answer"
    /\ \/ pc[p] = "read_dev" /\ cmd[p] = "login"
       \/ pc[p] \in {"sign_in", "undo", "sign_out", "finish"}
       \/ pc[p] \in {"restore", "restoring"} /\ cmd[p] \in {"list", "use"}
       \/ pc[p] \in {"directory", "save"} /\ session[p].login > 0
       => lock["ctx"] = p

\* What a command knows of the credential while it keeps those locks.
Trusts(p) ==
    /\ pc[p] = "restoring" => cred # None /\ session[p] = cred
    /\ pc[p] \in {"directory", "save"} /\ session[p].login > 0
         => cred = session[p] \/ session[p].login \in revoked
    /\ pc[p] = "finish" /\ cmd[p] = "login" =>
         \/ cred # None /\ cred = [uid |-> user[p], login |-> logins]
         \/ cred = None /\ logins \in revoked
    /\ pc[p] = "finish" /\ cmd[p] = "logout" => cred = None

Facts(p) == Placed(p) /\ Chose(p) /\ Keeps(p) /\ Trusts(p)

\* A saved selection is from the directory of the user it was saved for.
SelectionSeen == ctx # None => ctx.project \in Visible[ctx.uid]

IInv == WorldTypeOK /\ LocalTypeOK /\ SelectionSeen /\ \A p \in Procs : Facts(p)

LEMMA Typed == IInv => TypeOK
  BY DEF IInv, WorldTypeOK, LocalTypeOK, TypeOK

-----------------------------------------------------------------------------
(* What a step does to the other commands.                                 *)

\* The step does nothing to command q.
Aside(q) ==
    /\ pc'[q] = pc[q] /\ cmd'[q] = cmd[q] /\ user'[q] = user[q]
    /\ session'[q] = session[q] /\ selected'[q] = selected[q]
    /\ \A l \in Locks : lock'[l] = q <=> lock[l] = q

\* The credential stays, or a refused one is removed while q is not restoring it,
\* or it changes while q has neither of its locks.
CredentialFor(q) ==
    \/ cred' = cred /\ logins' = logins
    \/ /\ cred' = None /\ logins' = logins /\ lock["cred"] # q
       /\ cred # None => cred.login \in revoked
    \/ lock["cred"] # q /\ lock["ctx"] # q

LEMMA Unaffected ==
    ASSUME IInv, NEW q \in Procs, Aside(q), CredentialFor(q), revoked \subseteq revoked'
    PROVE  Facts(q)'
  <1>1. Placed(q) /\ Chose(q) /\ Keeps(q) /\ Trusts(q)
    BY DEF IInv, Facts
  <1>2. Placed(q)'
    BY <1>1 DEF Placed, Aside
  <1>3. Chose(q)'
    BY <1>1 DEF Chose, Aside
  <1>4. Keeps(q)'
    BY <1>1 DEF Keeps, Aside, Locks
  <1>5. Trusts(q)'
    <2>1. CASE cred' = cred /\ logins' = logins
      BY <1>1, <2>1 DEF Trusts, Aside
    <2>2. CASE /\ cred' = None /\ logins' = logins /\ lock["cred"] # q
               /\ cred # None => cred.login \in revoked
      <3>1. pc[q] # "restoring"
        BY <1>1, <2>2 DEF Keeps
      <3>2. pc[q] \in {"directory", "save"} /\ session[q].login > 0
              => session[q].login \in revoked
        <4>1. SUFFICES ASSUME pc[q] \in {"directory", "save"}, session[q].login > 0,
                              cred = session[q]
                       PROVE  session[q].login \in revoked
          BY <1>1 DEF Trusts
        <4>2. session[q] # None
          BY <1>1, <4>1 DEF Placed
        <4> QED
          BY <2>2, <4>1, <4>2
      <3>3. pc[q] = "finish" /\ cmd[q] = "login" => logins \in revoked
        <4>1. SUFFICES ASSUME pc[q] = "finish", cmd[q] = "login",
                              cred # None /\ cred = [uid |-> user[q], login |-> logins]
                       PROVE  logins \in revoked
          BY <1>1 DEF Trusts
        <4> QED
          BY <2>2, <4>1
      <3> QED
        BY <2>2, <3>1, <3>2, <3>3 DEF Trusts, Aside
    <2>3. CASE lock["cred"] # q /\ lock["ctx"] # q
      BY <1>1, <2>3 DEF Keeps, Trusts, Aside
    <2> QED
      BY <2>1, <2>2, <2>3 DEF CredentialFor
  <1> QED
    BY <1>2, <1>3, <1>4, <1>5 DEF Facts

\* A step of p keeps the invariant when it keeps the types, what p knows, and
\* what the others trust.
LEMMA Assembled ==
    ASSUME IInv, NEW p \in Procs,
           WorldTypeOK', LocalTypeOK', SelectionSeen', Facts(p)',
           revoked \subseteq revoked',
           \A q \in Procs \ {p} : Aside(q) /\ CredentialFor(q)
    PROVE  IInv'
  <1>1. ASSUME NEW q \in Procs
        PROVE  Facts(q)'
    <2>1. CASE q = p
      BY <2>1
    <2>2. CASE q # p
      BY <2>2, Unaffected
    <2> QED
      BY <2>1, <2>2
  <1> QED
    BY <1>1 DEF IInv

-----------------------------------------------------------------------------
(* The two ways a command goes on.                                         *)

\* It ends: nothing of it is left but its result.
LEMMA Exits ==
    ASSUME IInv, NEW p \in Procs, pc[p] # "idle", NEW code \in Codes, Exit(p, code)
    PROVE  /\ LocalTypeOK' /\ Facts(p)'
           /\ \A q \in Procs \ {p} : Aside(q)
  <1>1. /\ lock \in [Locks -> Procs \union {None}] /\ pc \in [Procs -> PCs]
        /\ cmd \in [Procs -> Commands \union {None}] /\ user \in [Procs -> Users \union {None}]
        /\ obs \in [Procs -> Observed] /\ session \in [Procs -> Session \union {None}]
        /\ selected \in [Procs -> Context \union {None}]
        /\ result \in [Procs -> [cmd : Commands, code : Codes] \union {None}]
    BY DEF IInv, LocalTypeOK
  <1>2. cmd[p] \in Commands
    BY DEF IInv, Facts, Placed
  <1>3. /\ pc'       = [pc EXCEPT ![p] = "idle"]
        /\ result'   = [result EXCEPT ![p] = [cmd |-> cmd[p], code |-> code]]
        /\ lock'     = [l \in Locks |-> IF lock[l] = p THEN None ELSE lock[l]]
        /\ cmd'      = [cmd EXCEPT ![p] = None]
        /\ user'     = [user EXCEPT ![p] = None]
        /\ obs'      = [obs EXCEPT ![p] = Unread]
        /\ session'  = [session EXCEPT ![p] = None]
        /\ selected' = [selected EXCEPT ![p] = None]
    BY DEF Exit
  <1>4. Unread \in Observed /\ "idle" \in PCs
    BY DEF Unread, Observed, PCs
  <1>5. /\ pc' \in [Procs -> PCs] /\ cmd' \in [Procs -> Commands \union {None}]
        /\ user' \in [Procs -> Users \union {None}] /\ obs' \in [Procs -> Observed]
        /\ session' \in [Procs -> Session \union {None}]
        /\ selected' \in [Procs -> Context \union {None}]
    BY <1>1, <1>3, <1>4
  <1>6. lock' \in [Locks -> Procs \union {None}]
    BY <1>1, <1>3
  <1>7. result' \in [Procs -> [cmd : Commands, code : Codes] \union {None}]
    <2>1. [cmd |-> cmd[p], code |-> code] \in [cmd : Commands, code : Codes]
      BY <1>2
    <2> QED
      BY <1>1, <1>3, <2>1
  <1>8. pc'[p] = "idle" /\ \A l \in Locks : lock'[l] # p
    BY <1>1, <1>3, AuthConstants
  <1>9. Facts(p)'
    BY <1>8 DEF Facts, Placed, Chose, Keeps, Trusts, Locks
  <1>10. ASSUME NEW q \in Procs \ {p}
         PROVE  Aside(q)
    BY <1>1, <1>3, AuthConstants DEF Aside
  <1> QED
    BY <1>5, <1>6, <1>7, <1>9, <1>10 DEF LocalTypeOK

\* It ends, and what it did to the shared objects is sound.
LEMMA ExitKeeps ==
    ASSUME IInv, NEW p \in Procs, pc[p] # "idle", NEW code \in Codes, Exit(p, code),
           WorldTypeOK', SelectionSeen', revoked \subseteq revoked',
           \A q \in Procs \ {p} : CredentialFor(q)
    PROVE  IInv'
  BY Exits, Assembled

\* It ends and leaves the shared objects alone.
LEMMA ExitAlone ==
    ASSUME IInv, NEW p \in Procs, pc[p] # "idle", NEW code \in Codes, Exit(p, code),
           UNCHANGED <<durable, logins, revoked>>, faults' \in 0..MaxFaults
    PROVE  IInv'
  <1>1. UNCHANGED <<cred, dev, ctx, logins, revoked>>
    BY DEF durable
  <1>2. WorldTypeOK' /\ SelectionSeen'
    BY <1>1 DEF IInv, WorldTypeOK, SelectionSeen
  <1>3. \A q \in Procs : CredentialFor(q)
    BY <1>1 DEF CredentialFor
  <1> QED
    BY <1>1, <1>2, <1>3, ExitKeeps

\* It goes on to its next place.
LEMMA Goes ==
    ASSUME IInv, NEW p \in Procs, NEW where \in PCs, Goto(p, where)
    PROVE  /\ pc' \in [Procs -> PCs] /\ pc'[p] = where
           /\ result' = result
           /\ \A q \in Procs \ {p} : pc'[q] = pc[q]
  BY DEF IInv, LocalTypeOK, Goto

\* It goes on, takes no lock and learns nothing.
LEMMA GoAlone ==
    ASSUME IInv, NEW p \in Procs, NEW where \in PCs, Goto(p, where),
           UNCHANGED <<lock, local>>,
           WorldTypeOK', SelectionSeen', revoked \subseteq revoked',
           \A q \in Procs \ {p} : CredentialFor(q),
           Facts(p)'
    PROVE  IInv'
  <1>1. UNCHANGED <<lock, cmd, user, obs, session, selected>>
    BY DEF local
  <1>2. LocalTypeOK'
    BY <1>1, Goes DEF IInv, LocalTypeOK
  <1>3. \A q \in Procs \ {p} : Aside(q)
    BY <1>1, Goes DEF Aside
  <1> QED
    BY <1>2, <1>3, Assembled

\* It goes on while the shared objects stay.
LEMMA GoQuietly ==
    ASSUME IInv, NEW p \in Procs, NEW where \in PCs, Goto(p, where),
           UNCHANGED <<durable, logins, revoked>>, faults' \in 0..MaxFaults,
           LocalTypeOK', \A q \in Procs \ {p} : Aside(q),
           Facts(p)'
    PROVE  IInv'
  <1>1. UNCHANGED <<cred, dev, ctx, logins, revoked>>
    BY DEF durable
  <1>2. WorldTypeOK' /\ SelectionSeen'
    BY <1>1 DEF IInv, WorldTypeOK, SelectionSeen
  <1>3. \A q \in Procs : CredentialFor(q)
    BY <1>1 DEF CredentialFor
  <1> QED
    BY <1>1, <1>2, <1>3, Assembled

LEMMA Faults ==
    ASSUME IInv, Fault \/ faults' = faults
    PROVE  faults' \in 0..MaxFaults
  BY AuthConstants DEF IInv, WorldTypeOK, Fault

-----------------------------------------------------------------------------
(* Start and the probe.                                                    *)

LEMMA Initially == Init => IInv
  <1> SUFFICES ASSUME Init
               PROVE  IInv
    OBVIOUS
  <1>1. Unread \in Observed /\ "idle" \in PCs
    BY DEF Unread, Observed, PCs
  <1>2. WorldTypeOK
    BY AuthConstants DEF Init, WorldTypeOK
  <1>3. LocalTypeOK
    BY <1>1 DEF Init, LocalTypeOK
  <1>4. ASSUME NEW p \in Procs
        PROVE  Facts(p)
    <2>1. pc[p] = "idle" /\ \A l \in Locks : lock[l] # p
      BY AuthConstants DEF Init
    <2> QED
      BY <2>1 DEF Facts, Placed, Chose, Keeps, Trusts, Locks
  <1> QED
    BY <1>2, <1>3, <1>4 DEF IInv, SelectionSeen, Init

LEMMA StartKeeps ==
    ASSUME IInv, NEW p \in Procs, Start(p)
    PROVE  IInv'
  <1>1. PICK c \in Mix, u \in Users :
         /\ cmd'  = [cmd EXCEPT ![p] = c]
         /\ user' = [user EXCEPT ![p] = IF c \in {"login", "link"} THEN u ELSE None]
         /\ pc' = [pc EXCEPT ![p] = CASE c = "login"              -> "lease"
                                      [] c \in {"link", "unlink"} -> "dev_lease"
                                      [] OTHER                    -> "probe_cred"]
         /\ result' = [result EXCEPT ![p] = None]
    BY DEF Start
  <1>2. pc[p] = "idle" /\ UNCHANGED <<durable, lock, world, obs, session, selected>>
    BY DEF Start
  <1>3. /\ lock \in [Locks -> Procs \union {None}] /\ pc \in [Procs -> PCs]
        /\ cmd \in [Procs -> Commands \union {None}] /\ user \in [Procs -> Users \union {None}]
        /\ result \in [Procs -> [cmd : Commands, code : Codes] \union {None}]
    BY DEF IInv, LocalTypeOK
  <1>4. c \in Commands
    BY AuthConstants
  <1> DEFINE where == CASE c = "login"              -> "lease"
                        [] c \in {"link", "unlink"} -> "dev_lease"
                        [] OTHER                    -> "probe_cred"
  <1>5. /\ c = "login" => where = "lease"
        /\ c \in {"link", "unlink"} => where = "dev_lease"
        /\ c \in {"logout", "status", "list", "use", "call"} => where = "probe_cred"
    BY <1>4 DEF Commands
  <1>6. pc' = [pc EXCEPT ![p] = where]
    BY <1>1
  <1> HIDE DEF where
  <1>7. where \in {"lease", "dev_lease", "probe_cred"}
    BY <1>4, <1>5 DEF Commands
  <1>8. /\ pc' \in [Procs -> PCs] /\ cmd' \in [Procs -> Commands \union {None}]
        /\ pc'[p] = where /\ cmd'[p] = c
    BY <1>1, <1>3, <1>4, <1>6, <1>7 DEF PCs
  <1>9. user' \in [Procs -> Users \union {None}] /\ (c = "login" => user'[p] \in Users)
    BY <1>1, <1>3
  <1>10. result' \in [Procs -> [cmd : Commands, code : Codes] \union {None}]
    BY <1>1, <1>3
  <1>11. LocalTypeOK'
    BY <1>2, <1>8, <1>9, <1>10 DEF IInv, LocalTypeOK
  <1>12. \A q \in Procs \ {p} : Aside(q)
    BY <1>1, <1>2, <1>3 DEF Aside
  <1>13. UNCHANGED <<cred, dev, ctx, logins, revoked, faults>>
    BY <1>2 DEF durable, world
  <1>14. WorldTypeOK' /\ SelectionSeen' /\ \A q \in Procs : CredentialFor(q)
    BY <1>13 DEF IInv, WorldTypeOK, SelectionSeen, CredentialFor
  <1>15. Facts(p)'
    <2>1. Keeps(p)
      BY DEF IInv, Facts
    <2>2. Placed(p)'
      BY <1>4, <1>5, <1>7, <1>8, <1>9 DEF Placed, Commands
    <2>3. Chose(p)' /\ Trusts(p)'
      BY <1>7, <1>8 DEF Chose, Trusts
    <2>4. Keeps(p)'
      BY <1>2, <1>7, <1>8, <2>1 DEF Keeps
    <2> QED
      BY <2>2, <2>3, <2>4 DEF Facts
  <1> QED
    BY <1>11, <1>12, <1>13, <1>14, <1>15, Assembled

\* A probe that goes on remembers what it read.
LEMMA ProbeGoes ==
    ASSUME IInv, NEW p \in Procs,
           pc[p] \in {"probe_cred", "probe_sel", "probe_dev", "probe_dsel"},
           NEW where \in {"probe_sel", "probe_dev", "probe_dsel", Probed(cmd[p])},
           Goto(p, where),
           NEW seen \in Observed, obs' = [obs EXCEPT ![p] = seen],
           UNCHANGED <<durable, lock, world, cmd, user, session, selected>>
    PROVE  IInv'
  <1>1. Facts(p) /\ cmd[p] \in {"logout", "status", "list", "use", "call"}
    BY DEF IInv, Facts, Placed
  <1>2. /\ cmd[p] \in {"logout", "status"} => Probed(cmd[p]) = "read_dev"
        /\ cmd[p] \in {"list", "use", "call"} => Probed(cmd[p]) = "open_dev"
    BY DEF Probed
  <1>3. where \in PCs
    BY <1>1, <1>2 DEF PCs
  <1>4. pc'[p] = where /\ pc' \in [Procs -> PCs] /\ result' = result
        /\ \A q \in Procs \ {p} : pc'[q] = pc[q]
    BY <1>3, Goes
  <1>5. obs' \in [Procs -> Observed]
    BY DEF IInv, LocalTypeOK
  <1>6. LocalTypeOK'
    BY <1>4, <1>5 DEF IInv, LocalTypeOK
  <1>7. \A q \in Procs \ {p} : Aside(q)
    BY <1>4 DEF Aside
  <1>8. UNCHANGED <<cred, dev, ctx, logins, revoked, faults>>
    BY DEF durable, world
  <1>9. faults' \in 0..MaxFaults
    BY <1>8 DEF IInv, WorldTypeOK
  <1>10. Facts(p)'
    <2>1. Placed(p)'
      BY <1>1, <1>2, <1>4 DEF Placed, Commands
    <2>2. Chose(p)' /\ Trusts(p)'
      BY <1>1, <1>2, <1>4 DEF Chose, Trusts
    <2>3. Keeps(p)'
      BY <1>1, <1>2, <1>4 DEF Keeps, Facts
    <2> QED
      BY <2>1, <2>2, <2>3 DEF Facts
  <1> QED
    BY <1>3, <1>6, <1>7, <1>8, <1>9, <1>10, GoQuietly

LEMMA WorldStays ==
    ASSUME IInv, UNCHANGED <<durable, world>>
    PROVE  UNCHANGED <<durable, logins, revoked>> /\ faults' \in 0..MaxFaults
  BY DEF IInv, WorldTypeOK, durable, world

LEMMA ProbeKeeps ==
    ASSUME IInv, NEW p \in Procs, Probe(p)
    PROVE  IInv'
  <1>1. obs[p] \in Observed
    BY DEF IInv, LocalTypeOK
  <1>2. CASE ProbeCredential(p)
    <2> DEFINE seen == [obs[p] EXCEPT !.cred = IF cred = None THEN None ELSE cred.uid]
               where == IF cred = None THEN "probe_dev" ELSE "probe_sel"
    <2>1. (IF cred = None THEN None ELSE cred.uid) \in Users \union {None}
      BY DEF IInv, WorldTypeOK, Credential
    <2>2. seen \in Observed
      BY <1>1, <2>1 DEF Observed
    <2>3. obs' = [obs EXCEPT ![p] = seen] /\ Goto(p, where)
      BY <1>2 DEF ProbeCredential
    <2>4. pc[p] = "probe_cred" /\ where \in {"probe_sel", "probe_dev"}
          /\ UNCHANGED <<durable, lock, world, cmd, user, session, selected>>
      BY <1>2 DEF ProbeCredential
    <2> HIDE DEF seen, where
    <2>5. /\ pc[p] \in {"probe_cred", "probe_sel", "probe_dev", "probe_dsel"}
          /\ where \in {"probe_sel", "probe_dev", "probe_dsel", Probed(cmd[p])}
      BY <2>4
    <2> QED
      BY <2>2, <2>3, <2>4, <2>5, ProbeGoes
  <1>3. CASE ProbeSelected(p)
    <2>1. CASE ~Belongs(obs[p].cred) /\ Exit(p, "project_context_stale")
      <3>1. pc[p] # "idle" /\ UNCHANGED <<durable, logins, revoked>> /\ faults' \in 0..MaxFaults
        BY <1>3, WorldStays DEF ProbeSelected
      <3>2. Exit(p, "project_context_stale") /\ "project_context_stale" \in Codes
        BY <2>1 DEF Codes
      <3> QED
        BY <3>1, <3>2, ExitAlone
    <2>2. CASE ~(~Belongs(obs[p].cred) /\ Exit(p, "project_context_stale"))
      <3> DEFINE seen == [obs[p] EXCEPT !.sel = Chosen]
      <3>1. Chosen \in Projects \union {None}
        BY DEF IInv, WorldTypeOK, Context, Chosen
      <3>2. seen \in Observed
        BY <1>1, <3>1 DEF Observed
      <3>3. obs' = [obs EXCEPT ![p] = seen] /\ Goto(p, "probe_dev") /\ pc[p] = "probe_sel"
            /\ UNCHANGED <<durable, lock, world, cmd, user, session, selected>>
        BY <1>3, <2>2 DEF ProbeSelected
      <3> QED
        BY <3>2, <3>3, ProbeGoes
    <2> QED
      BY <2>1, <2>2
  <1>4. CASE ProbeDevice(p)
    <2> DEFINE seen == IF dev = None THEN Unread ELSE [obs[p] EXCEPT !.dev = dev]
               where == IF dev = None THEN Probed(cmd[p]) ELSE "probe_dsel"
    <2>1. dev \in Users \union {None} /\ Unread \in Observed
      BY DEF IInv, WorldTypeOK, Unread, Observed
    <2>2. seen \in Observed
      BY <1>1, <2>1 DEF Observed
    <2>3. obs' = [obs EXCEPT ![p] = seen] /\ Goto(p, where)
      BY <1>4 DEF ProbeDevice
    <2>4. pc[p] = "probe_dev" /\ where \in {"probe_dsel", Probed(cmd[p])}
          /\ UNCHANGED <<durable, lock, world, cmd, user, session, selected>>
      BY <1>4 DEF ProbeDevice
    <2> HIDE DEF seen, where
    <2>5. /\ pc[p] \in {"probe_cred", "probe_sel", "probe_dev", "probe_dsel"}
          /\ where \in {"probe_sel", "probe_dev", "probe_dsel", Probed(cmd[p])}
      BY <2>4
    <2> QED
      BY <2>2, <2>3, <2>4, <2>5, ProbeGoes
  <1>5. CASE Arbitrate(p)
    <2>1. pc[p] = "probe_dsel" /\ UNCHANGED <<durable, world>>
      BY <1>5 DEF Arbitrate
    <2>2. CASE \/ Exit(p, "project_context_stale") \/ Exit(p, "auth_context_mismatch")
      <3>1. pc[p] # "idle" /\ UNCHANGED <<durable, logins, revoked>> /\ faults' \in 0..MaxFaults
        BY <2>1, WorldStays
      <3>2. PICK code \in Codes : Exit(p, code)
        BY <2>2 DEF Codes
      <3> QED
        BY <3>1, <3>2, ExitAlone
    <2>3. CASE /\ Goto(p, Probed(cmd[p]))
               /\ obs' = [obs EXCEPT ![p] = Unread]
               /\ UNCHANGED <<lock, cmd, user, session, selected>>
      <3>1. Unread \in Observed
        BY DEF Unread, Observed
      <3> QED
        BY <2>1, <2>3, <3>1, ProbeGoes
    <2> QED
      BY <1>5, <2>2, <2>3 DEF Arbitrate
  <1> QED
    BY <1>2, <1>3, <1>4, <1>5 DEF Probe

-----------------------------------------------------------------------------
(* Sessions.                                                               *)

\* A command that goes on with a session, a selection or a lock more.
LEMMA StepsOn ==
    ASSUME IInv, NEW p \in Procs, NEW where \in PCs, Goto(p, where),
           UNCHANGED <<cmd, user, obs>>,
           lock' = lock \/ \E l \in Locks : Available(p, l) /\ lock' = [lock EXCEPT ![l] = p],
           session' = session \/
             \E s \in Session \union {None} : session' = [session EXCEPT ![p] = s],
           selected' = selected \/
             \E c \in Context : selected' = [selected EXCEPT ![p] = c]
    PROVE  /\ LocalTypeOK'
           /\ \A q \in Procs \ {p} : Aside(q)
  <1>1. /\ lock \in [Locks -> Procs \union {None}]
        /\ session \in [Procs -> Session \union {None}]
        /\ selected \in [Procs -> Context \union {None}]
    BY DEF IInv, LocalTypeOK
  <1>2. lock' \in [Locks -> Procs \union {None}]
        /\ \A q \in Procs \ {p}, l \in Locks : lock'[l] = q <=> lock[l] = q
    <2>1. CASE lock' = lock
      BY <1>1, <2>1
    <2>2. CASE \E l \in Locks : Available(p, l) /\ lock' = [lock EXCEPT ![l] = p]
      BY <1>1, <2>2, AuthConstants DEF Available
    <2> QED
      BY <2>1, <2>2
  <1>3. session' \in [Procs -> Session \union {None}]
        /\ \A q \in Procs \ {p} : session'[q] = session[q]
    BY <1>1
  <1>4. selected' \in [Procs -> Context \union {None}]
        /\ \A q \in Procs \ {p} : selected'[q] = selected[q]
    BY <1>1
  <1>5. LocalTypeOK'
    BY <1>2, <1>3, <1>4, Goes DEF IInv, LocalTypeOK
  <1>6. \A q \in Procs \ {p} : Aside(q)
    BY <1>2, <1>3, <1>4, Goes DEF Aside
  <1> QED
    BY <1>5, <1>6

LEMMA ReadDeviceKeeps ==
    ASSUME IInv, NEW p \in Procs, ReadDevice(p)
    PROVE  IInv'
  <1> DEFINE where == CASE cmd[p] = "login"                  -> "sign_in"
                        [] cmd[p] = "status" /\ dev # None   -> "load"
                        [] OTHER                             -> "lease"
             seen == IF dev = None THEN None ELSE [uid |-> dev, login |-> 0]
  <1>1. /\ pc[p] = "read_dev" /\ session' = [session EXCEPT ![p] = seen] /\ Goto(p, where)
        /\ UNCHANGED <<durable, lock, world, cmd, user, obs, selected>>
    BY DEF ReadDevice
  <1>2. seen \in Session \union {None} /\ (dev # None => seen # None)
    <2>1. dev \in Users \union {None}
      BY DEF IInv, WorldTypeOK
    <2>2. dev # None => [uid |-> dev, login |-> 0] \in Session
      BY <2>1, AuthConstants DEF Session
    <2> QED
      BY <2>2, AuthConstants
  <1>3. Facts(p) /\ cmd[p] \in {"login", "logout", "status"}
    BY <1>1 DEF IInv, Facts, Placed
  <1>4. /\ cmd[p] = "login" => where = "sign_in"
        /\ cmd[p] = "logout" => where = "lease"
        /\ cmd[p] = "status" => where = "lease" \/ (where = "load" /\ seen # None)
    BY <1>2, <1>3
  <1> HIDE DEF where, seen
  <1>5. where \in PCs
    BY <1>3, <1>4 DEF PCs
  <1>6. session' \in [Procs -> Session \union {None}] /\ session'[p] = seen
        /\ \E s \in Session \union {None} : session' = [session EXCEPT ![p] = s]
    BY <1>1, <1>2 DEF IInv, LocalTypeOK
  <1>7. pc'[p] = where
    BY <1>1, <1>5, Goes
  <1>8. LocalTypeOK' /\ \A q \in Procs \ {p} : Aside(q)
    BY <1>1, <1>5, <1>6, StepsOn
  <1>9. Facts(p)'
    <2>1. Placed(p)'
      BY <1>1, <1>3, <1>4, <1>6, <1>7 DEF Placed, Facts, Commands
    <2>2. Chose(p)' /\ Trusts(p)'
      BY <1>3, <1>4, <1>7 DEF Chose, Trusts
    <2>3. Keeps(p)'
      BY <1>1, <1>3, <1>4, <1>7 DEF Keeps, Facts
    <2> QED
      BY <2>1, <2>2, <2>3 DEF Facts
  <1> QED
    BY <1>1, <1>5, <1>8, <1>9, WorldStays, GoQuietly

LEMMA OpenDeviceKeeps ==
    ASSUME IInv, NEW p \in Procs, OpenDevice(p)
    PROVE  IInv'
  <1>1. pc[p] = "open_dev" /\ UNCHANGED <<durable, lock, world, cmd, user, obs, selected>>
    BY DEF OpenDevice
  <1>2. Facts(p) /\ cmd[p] \in {"list", "use", "call"}
    BY <1>1 DEF IInv, Facts, Placed
  <1>3. CASE dev = None
    <2> DEFINE where == IF cmd[p] = "call" THEN "restore" ELSE "lease"
    <2>1. Goto(p, where) /\ session' = session
      BY <1>3 DEF OpenDevice
    <2>2. /\ cmd[p] = "call" => where = "restore"
          /\ cmd[p] \in {"list", "use"} => where = "lease"
      OBVIOUS
    <2> HIDE DEF where
    <2>3. where \in PCs
      BY <1>2, <2>2 DEF PCs
    <2>4. LocalTypeOK' /\ (\A q \in Procs \ {p} : Aside(q)) /\ pc'[p] = where
      BY <1>1, <2>1, <2>3, StepsOn, Goes
    <2>5. Facts(p)'
      <3>1. Placed(p)'
        BY <1>1, <1>2, <2>2, <2>4 DEF Placed, Facts, Commands
      <3>2. Chose(p)' /\ Trusts(p)'
        BY <1>2, <2>2, <2>4 DEF Chose, Trusts
      <3>3. Keeps(p)'
        BY <1>1, <1>2, <2>2, <2>4 DEF Keeps, Facts
      <3> QED
        BY <3>1, <3>2, <3>3 DEF Facts
    <2> QED
      BY <1>1, <2>1, <2>3, <2>4, <2>5, WorldStays, GoQuietly
  <1>4. CASE dev # None
    <2> DEFINE seen == [uid |-> dev, login |-> 0]
    <2>1. Goto(p, "refresh") /\ session' = [session EXCEPT ![p] = seen]
      BY <1>4 DEF OpenDevice
    <2>2. seen \in Session /\ seen # None /\ seen.login = 0
      <3>1. dev \in Users
        BY <1>4 DEF IInv, WorldTypeOK
      <3> QED
        BY <3>1, AuthConstants DEF Session
    <2> HIDE DEF seen
    <2>3. "refresh" \in PCs
      BY DEF PCs
    <2>4. session'[p] = seen /\ \E s \in Session \union {None} : session' = [session EXCEPT ![p] = s]
      BY <2>1, <2>2 DEF IInv, LocalTypeOK
    <2>5. LocalTypeOK' /\ (\A q \in Procs \ {p} : Aside(q)) /\ pc'[p] = "refresh"
      BY <1>1, <2>1, <2>3, <2>4, StepsOn, Goes
    <2>6. Facts(p)'
      <3>1. Placed(p)'
        BY <1>1, <1>2, <2>2, <2>4, <2>5 DEF Placed, Facts, Commands
      <3>2. Chose(p)' /\ Trusts(p)'
        BY <2>5 DEF Chose, Trusts
      <3>3. Keeps(p)'
        BY <1>1, <1>2, <2>5 DEF Keeps, Facts
      <3> QED
        BY <3>1, <3>2, <3>3 DEF Facts
    <2> QED
      BY <1>1, <2>1, <2>3, <2>5, <2>6, WorldStays, GoQuietly
  <1> QED
    BY <1>3, <1>4

LEMMA RefreshDeviceKeeps ==
    ASSUME IInv, NEW p \in Procs, RefreshDevice(p)
    PROVE  IInv'
  <1>1. pc[p] = "refresh" /\ UNCHANGED <<durable, logins, revoked>>
        /\ faults' \in 0..MaxFaults
    BY Faults DEF RefreshDevice
  <1>2. Facts(p) /\ cmd[p] \in {"list", "use", "call"} /\ session[p] # None /\ session[p].login = 0
    BY <1>1 DEF IInv, Facts, Placed
  <1>3. CASE Exit(p, "device_auth_transient")
    BY <1>1, <1>3, ExitAlone DEF Codes
  <1>4. CASE /\ Goto(p, IF cmd[p] = "call" THEN "load" ELSE "directory")
             /\ UNCHANGED <<lock, local, faults>>
    <2> DEFINE where == IF cmd[p] = "call" THEN "load" ELSE "directory"
    <2>1. /\ cmd[p] = "call" => where = "load"
          /\ cmd[p] \in {"list", "use"} => where = "directory"
      OBVIOUS
    <2>2. Goto(p, where) /\ UNCHANGED <<lock, cmd, user, obs, session, selected>>
      BY <1>4 DEF local
    <2> HIDE DEF where
    <2>3. where \in PCs
      BY <1>2, <2>1 DEF PCs
    <2>4. LocalTypeOK' /\ (\A q \in Procs \ {p} : Aside(q)) /\ pc'[p] = where
      BY <2>2, <2>3, StepsOn, Goes
    <2>5. Facts(p)'
      <3>1. Placed(p)'
        BY <1>1, <1>2, <2>1, <2>2, <2>4 DEF Placed, Facts, Commands
      <3>2. Chose(p)' /\ Trusts(p)'
        BY <1>2, <2>1, <2>2, <2>4 DEF Chose, Trusts
      <3>3. Keeps(p)'
        BY <1>1, <1>2, <2>1, <2>2, <2>4 DEF Keeps, Facts
      <3> QED
        BY <3>1, <3>2, <3>3 DEF Facts
    <2> QED
      BY <1>1, <2>2, <2>3, <2>4, <2>5, GoQuietly
  <1> QED
    BY <1>3, <1>4 DEF RefreshDevice

LEMMA TakeLeaseKeeps ==
    ASSUME IInv, NEW p \in Procs, TakeLease(p)
    PROVE  IInv'
  <1>1. /\ pc[p] = "lease" /\ Available(p, "ctx") /\ lock' = [lock EXCEPT !["ctx"] = p]
        /\ Goto(p, Leased(cmd[p])) /\ UNCHANGED <<durable, world, local>>
    BY DEF TakeLease
  <1>2. Facts(p) /\ cmd[p] \in {"login", "logout", "status", "list", "use"}
    BY <1>1 DEF IInv, Facts, Placed
  <1> DEFINE where == Leased(cmd[p])
  <1>3. /\ cmd[p] = "login" => where = "read_dev"
        /\ cmd[p] = "logout" => where = "sign_out"
        /\ cmd[p] \in {"status", "list", "use"} => where = "restore"
    BY DEF Leased
  <1>4. Goto(p, where) /\ UNCHANGED <<cmd, user, obs, session, selected>>
    BY <1>1 DEF local
  <1> HIDE DEF where
  <1>5. where \in PCs
    BY <1>2, <1>3 DEF PCs
  <1>6. lock'["ctx"] = p /\ lock'["cred"] = lock["cred"] /\ lock'["dev"] = lock["dev"]
        /\ \E l \in Locks : Available(p, l) /\ lock' = [lock EXCEPT ![l] = p]
    BY <1>1 DEF IInv, LocalTypeOK, Locks
  <1>7. LocalTypeOK' /\ (\A q \in Procs \ {p} : Aside(q)) /\ pc'[p] = where
    BY <1>4, <1>5, <1>6, StepsOn, Goes
  <1>8. Facts(p)'
    <2>1. Placed(p)'
      BY <1>1, <1>2, <1>3, <1>4, <1>7 DEF Placed, Facts, Commands
    <2>2. Chose(p)' /\ Trusts(p)'
      BY <1>2, <1>3, <1>7 DEF Chose, Trusts
    <2>3. Keeps(p)'
      BY <1>1, <1>2, <1>3, <1>6, <1>7 DEF Keeps, Facts
    <2> QED
      BY <2>1, <2>2, <2>3 DEF Facts
  <1> QED
    BY <1>1, <1>4, <1>5, <1>7, <1>8, WorldStays, GoQuietly

LEMMA BeginRestoreKeeps ==
    ASSUME IInv, NEW p \in Procs, BeginRestore(p)
    PROVE  IInv'
  <1>1. pc[p] = "restore" /\ Available(p, "cred") /\ UNCHANGED <<durable, world>>
    BY DEF BeginRestore
  <1>2. Facts(p) /\ cmd[p] \in {"status", "list", "use", "call"}
    BY <1>1 DEF IInv, Facts, Placed
  <1>3. CASE Exit(p, "headless_signed_out")
    BY <1>1, <1>3, WorldStays, ExitAlone DEF Codes
  <1>4. CASE /\ cred # None
             /\ lock' = [lock EXCEPT !["cred"] = p]
             /\ session' = [session EXCEPT ![p] = cred]
             /\ Goto(p, "restoring")
             /\ UNCHANGED <<cmd, user, obs, selected>>
    <2>1. "restoring" \in PCs
      BY DEF PCs
    <2>2. cred \in Session
      <3>1. cred \in Credential
        BY <1>4 DEF IInv, WorldTypeOK
      <3>2. 1..MaxLogins \subseteq 0..MaxLogins
        BY AuthConstants
      <3> QED
        BY <3>1, <3>2 DEF Credential, Session
    <2>3. lock'["cred"] = p /\ lock'["ctx"] = lock["ctx"] /\ lock'["dev"] = lock["dev"]
          /\ \E l \in Locks : Available(p, l) /\ lock' = [lock EXCEPT ![l] = p]
      BY <1>1, <1>4 DEF IInv, LocalTypeOK, Locks
    <2>4. session'[p] = cred /\ \E s \in Session \union {None} : session' = [session EXCEPT ![p] = s]
      BY <1>4, <2>2 DEF IInv, LocalTypeOK
    <2>5. LocalTypeOK' /\ (\A q \in Procs \ {p} : Aside(q)) /\ pc'[p] = "restoring"
      BY <1>4, <2>1, <2>3, <2>4, StepsOn, Goes
    <2>6. cred' = cred
      BY <1>1 DEF durable
    <2>7. Facts(p)'
      <3>1. Placed(p)'
        BY <1>1, <1>2, <1>4, <2>4, <2>5 DEF Placed, Facts, Commands
      <3>2. Chose(p)' /\ Trusts(p)'
        BY <1>4, <2>4, <2>5, <2>6 DEF Chose, Trusts
      <3>3. Keeps(p)'
        BY <1>1, <1>2, <1>4, <2>3, <2>5 DEF Keeps, Facts
      <3> QED
        BY <3>1, <3>2, <3>3 DEF Facts
    <2> QED
      BY <1>1, <1>4, <2>1, <2>5, <2>7, WorldStays, GoQuietly
  <1> QED
    BY <1>3, <1>4 DEF BeginRestore

\* A command that goes on and gives back the credential lock.
LEMMA GivesBack ==
    ASSUME IInv, NEW p \in Procs, pc[p] = "restoring", NEW where \in PCs, Goto(p, where),
           lock' = [lock EXCEPT !["cred"] = None], UNCHANGED local
    PROVE  /\ LocalTypeOK'
           /\ (\A q \in Procs \ {p} : Aside(q)) /\ pc'[p] = where
           /\ lock'["cred"] # p /\ lock'["ctx"] = lock["ctx"] /\ lock'["dev"] = lock["dev"]
           /\ UNCHANGED <<cmd, user, obs, session, selected>>
  <1>1. lock \in [Locks -> Procs \union {None}] /\ lock["cred"] = p
    BY DEF IInv, LocalTypeOK, Facts, Keeps
  <1>2. lock' \in [Locks -> Procs \union {None}] /\ lock'["cred"] = None
        /\ lock'["ctx"] = lock["ctx"] /\ lock'["dev"] = lock["dev"]
    BY <1>1 DEF Locks
  <1>3. \A q \in Procs \ {p}, l \in Locks : lock'[l] = q <=> lock[l] = q
    BY <1>1, <1>2, AuthConstants DEF Locks
  <1>4. UNCHANGED <<cmd, user, obs, session, selected>>
    BY DEF local
  <1>5. LocalTypeOK'
    BY <1>2, <1>4, Goes DEF IInv, LocalTypeOK
  <1>6. \A q \in Procs \ {p} : Aside(q)
    BY <1>3, <1>4, Goes DEF Aside
  <1> QED
    BY <1>2, <1>4, <1>5, <1>6, Goes, AuthConstants

\* Forgetting a refused credential while no other command restores it.
LEMMA Forgets ==
    ASSUME IInv, NEW p \in Procs, Forget(p), session[p].login \in revoked,
           Available(p, "cred"), UNCHANGED <<dev, ctx, logins, revoked>>, faults' \in 0..MaxFaults
    PROVE  /\ WorldTypeOK' /\ SelectionSeen'
           /\ \A q \in Procs \ {p} : CredentialFor(q)
  <1>1. cred' = None \/ cred' = cred
    BY DEF Forget
  <1>2. WorldTypeOK' /\ SelectionSeen'
    BY <1>1 DEF IInv, WorldTypeOK, SelectionSeen
  <1>3. ASSUME NEW q \in Procs \ {p}
        PROVE  CredentialFor(q)
    <2>1. lock["cred"] # q
      BY AuthConstants DEF Available
    <2>2. CASE cred = session[p]
      BY <2>1, <2>2 DEF Forget, CredentialFor
    <2>3. CASE cred # session[p]
      BY <2>3 DEF Forget, CredentialFor
    <2> QED
      BY <2>2, <2>3
  <1> QED
    BY <1>2, <1>3

LEMMA RestoreKeeps ==
    ASSUME IInv, NEW p \in Procs, Restore(p)
    PROVE  IInv'
  <1>1. pc[p] = "restoring" /\ UNCHANGED <<dev, ctx, logins, revoked>> /\ faults' \in 0..MaxFaults
    BY Faults DEF Restore
  <1>2. /\ Facts(p) /\ cmd[p] \in {"status", "list", "use", "call"} /\ session[p] # None
        /\ session[p] = cred /\ lock["cred"] = p
    BY <1>1 DEF IInv, Facts, Placed, Trusts, Keeps
  <1>3. CASE /\ session[p].login \notin revoked
             /\ Goto(p, IF cmd[p] \in {"use", "list"} THEN "directory" ELSE "load")
             /\ lock' = [lock EXCEPT !["cred"] = None]
             /\ UNCHANGED <<cred, faults, local>>
    <2> DEFINE where == IF cmd[p] \in {"use", "list"} THEN "directory" ELSE "load"
    <2>1. /\ cmd[p] \in {"use", "list"} => where = "directory"
          /\ cmd[p] \in {"status", "call"} => where = "load"
      OBVIOUS
    <2>2. Goto(p, where) /\ lock' = [lock EXCEPT !["cred"] = None] /\ UNCHANGED local
      BY <1>3
    <2> HIDE DEF where
    <2>3. where \in PCs
      BY <1>2, <2>1 DEF PCs
    <2>4. /\ LocalTypeOK' /\ (\A q \in Procs \ {p} : Aside(q)) /\ pc'[p] = where
          /\ lock'["cred"] # p /\ lock'["ctx"] = lock["ctx"] /\ lock'["dev"] = lock["dev"]
          /\ UNCHANGED <<cmd, user, obs, session, selected>>
      BY <1>1, <2>2, <2>3, GivesBack
    <2>5. Facts(p)'
      <3>1. Placed(p)'
        BY <1>1, <1>2, <2>1, <2>4 DEF Placed, Facts, Commands
      <3>2. Chose(p)' /\ Trusts(p)'
        BY <1>2, <1>3, <2>1, <2>4 DEF Chose, Trusts
      <3>3. Keeps(p)'
        BY <1>1, <1>2, <2>1, <2>4 DEF Keeps, Facts
      <3> QED
        BY <3>1, <3>2, <3>3 DEF Facts
    <2>6. UNCHANGED <<durable, logins, revoked>>
      BY <1>1, <1>3 DEF durable
    <2> QED
      BY <1>1, <2>2, <2>3, <2>4, <2>5, <2>6, GoQuietly
  <1>4. CASE /\ session[p].login \in revoked
             /\ Forget(p)
             /\ Goto(p, "clear")
             /\ lock' = [lock EXCEPT !["cred"] = None]
             /\ UNCHANGED <<faults, local>>
    <2>1. "clear" \in PCs
      BY DEF PCs
    <2>2. /\ LocalTypeOK' /\ (\A q \in Procs \ {p} : Aside(q)) /\ pc'[p] = "clear"
          /\ lock'["cred"] # p /\ lock'["ctx"] = lock["ctx"] /\ lock'["dev"] = lock["dev"]
          /\ UNCHANGED <<cmd, user, obs, session, selected>>
      BY <1>1, <1>4, <2>1, GivesBack
    <2>3. WorldTypeOK' /\ SelectionSeen' /\ \A q \in Procs \ {p} : CredentialFor(q)
      BY <1>1, <1>2, <1>4, Forgets DEF Available
    <2>4. Facts(p)'
      <3>1. Placed(p)'
        BY <1>1, <1>2, <2>2 DEF Placed, Facts, Commands
      <3>2. Chose(p)' /\ Trusts(p)'
        BY <2>2 DEF Chose, Trusts
      <3>3. Keeps(p)'
        BY <1>1, <1>2, <2>2 DEF Keeps, Facts
      <3> QED
        BY <3>1, <3>2, <3>3 DEF Facts
    <2> QED
      BY <1>1, <2>2, <2>3, <2>4, Assembled
  <1>5. CASE Exit(p, "auth_transient") /\ UNCHANGED cred
    <2>1. UNCHANGED <<durable, logins, revoked>>
      BY <1>1, <1>5 DEF durable
    <2> QED
      BY <1>1, <1>5, <2>1, ExitAlone DEF Codes
  <1> QED
    BY <1>3, <1>4, <1>5 DEF Restore

-----------------------------------------------------------------------------
(* The selected project.                                                   *)

\* A command whose request was refused goes on to clean up, with nothing new.
LEMMA GoesToCleanUp ==
    ASSUME IInv, NEW p \in Procs, pc[p] \in {"directory", "call"},
           session[p].login \in revoked,
           Goto(p, "forget"), UNCHANGED <<durable, logins, revoked, lock, local>>,
           faults' \in 0..MaxFaults
    PROVE  IInv'
  <1>1. "forget" \in PCs
    BY DEF PCs
  <1>2. UNCHANGED <<cmd, user, obs, session, selected>>
    BY DEF local
  <1>3. LocalTypeOK' /\ (\A q \in Procs \ {p} : Aside(q)) /\ pc'[p] = "forget"
    BY <1>1, <1>2, StepsOn, Goes
  <1>4. Facts(p)
    BY DEF IInv
  <1>5. Placed(p)'
    BY <1>2, <1>3, <1>4 DEF Placed, Facts, Commands
  <1>6. Chose(p)' /\ Trusts(p)'
    BY <1>3 DEF Chose, Trusts
  <1>7. Keeps(p)'
    BY <1>2, <1>3, <1>4 DEF Keeps, Facts
  <1> QED
    BY <1>1, <1>3, <1>5, <1>6, <1>7, GoQuietly DEF Facts

\* A command goes on with the selection it is about to save or to use.
LEMMA GoesWithSelection ==
    ASSUME IInv, NEW p \in Procs, pc[p] \in {"directory", "load"},
           NEW where \in {"save", "call"}, Goto(p, where),
           pc[p] = "directory" <=> where = "save",
           NEW c \in Context, selected' = [selected EXCEPT ![p] = c],
           c.uid = session[p].uid, c.project \in Visible[c.uid],
           UNCHANGED <<durable, logins, revoked, lock, cmd, user, obs, session>>,
           faults' \in 0..MaxFaults
    PROVE  IInv'
  <1>1. where \in PCs
    BY DEF PCs
  <1>2. LocalTypeOK' /\ (\A q \in Procs \ {p} : Aside(q)) /\ pc'[p] = where
    BY <1>1, StepsOn, Goes
  <1>3. Facts(p) /\ selected'[p] = c /\ c # None
    BY AuthConstants DEF IInv, LocalTypeOK
  <1>4. Placed(p)'
    BY <1>2, <1>3 DEF Placed, Facts, Commands
  <1>5. Chose(p)'
    BY <1>2, <1>3 DEF Chose
  <1>6. cred' = cred
    BY DEF durable
  <1>7. Trusts(p)'
    BY <1>2, <1>3, <1>6 DEF Trusts, Facts
  <1>8. Keeps(p)'
    BY <1>2, <1>3 DEF Keeps, Facts
  <1> QED
    BY <1>1, <1>2, <1>4, <1>5, <1>7, <1>8, GoQuietly DEF Facts

LEMMA FetchDirectoryKeeps ==
    ASSUME IInv, NEW p \in Procs, FetchDirectory(p)
    PROVE  IInv'
  <1>1. pc[p] = "directory" /\ UNCHANGED <<durable, logins, revoked>> /\ faults' \in 0..MaxFaults
    BY Faults DEF FetchDirectory
  <1>2. CASE \E code \in Codes : Exit(p, code)
    BY <1>1, <1>2, ExitAlone
  <1>3. CASE session[p].login \in revoked /\ Goto(p, "forget") /\ UNCHANGED <<lock, local>>
    BY <1>1, <1>3, GoesToCleanUp
  <1>4. CASE \E j \in Visible[session[p].uid] :
                /\ selected' = [selected EXCEPT ![p] = [uid |-> session[p].uid, project |-> j]]
                /\ Goto(p, "save")
                /\ UNCHANGED <<lock, cmd, user, obs, session>>
    <2>1. PICK j \in Visible[session[p].uid] :
                /\ selected' = [selected EXCEPT ![p] = [uid |-> session[p].uid, project |-> j]]
                /\ Goto(p, "save")
                /\ UNCHANGED <<lock, cmd, user, obs, session>>
      BY <1>4
    <2> DEFINE c == [uid |-> session[p].uid, project |-> j]
    <2>2. c \in Context
      <3>1. session[p] \in Session
        BY <1>1 DEF IInv, LocalTypeOK, Facts, Placed
      <3>2. session[p].uid \in Users
        BY <3>1 DEF Session
      <3>3. j \in Projects
        BY <3>2, AuthConstants
      <3> QED
        BY <3>2, <3>3 DEF Context
    <2>3. c.uid = session[p].uid /\ c.project \in Visible[c.uid]
      OBVIOUS
    <2>4. selected' = [selected EXCEPT ![p] = c]
      BY <2>1
    <2> HIDE DEF c
    <2> QED
      BY <1>1, <2>1, <2>2, <2>3, <2>4, GoesWithSelection
  <1> QED
    BY <1>2, <1>3, <1>4 DEF FetchDirectory, Codes

LEMMA LoadSelectionKeeps ==
    ASSUME IInv, NEW p \in Procs, LoadSelection(p)
    PROVE  IInv'
  <1>1. pc[p] = "load" /\ UNCHANGED <<durable, logins, revoked>> /\ faults' \in 0..MaxFaults
    BY WorldStays DEF LoadSelection
  <1>2. CASE \E code \in Codes : Exit(p, code)
    BY <1>1, <1>2, ExitAlone
  <1>3. CASE /\ ctx # None /\ Fenced(p) /\ cmd[p] = "call"
             /\ selected' = [selected EXCEPT ![p] = ctx]
             /\ Goto(p, "call")
             /\ UNCHANGED <<lock, cmd, user, obs, session>>
    <2>1. ctx \in Context /\ ctx.uid = session[p].uid /\ ctx.project \in Visible[ctx.uid]
      BY <1>3 DEF IInv, WorldTypeOK, SelectionSeen, Fenced
    <2> QED
      BY <1>1, <1>3, <2>1, GoesWithSelection
  <1> QED
    BY <1>2, <1>3 DEF LoadSelection, Codes

LEMMA CallKeeps ==
    ASSUME IInv, NEW p \in Procs, Call(p)
    PROVE  IInv'
  <1>1. pc[p] = "call" /\ UNCHANGED <<durable, logins, revoked>> /\ faults' \in 0..MaxFaults
    BY Faults DEF Call
  <1>2. CASE \E code \in Codes : Exit(p, code)
    BY <1>1, <1>2, ExitAlone
  <1>3. CASE session[p].login \in revoked /\ Goto(p, "forget") /\ UNCHANGED <<lock, local>>
    BY <1>1, <1>3, GoesToCleanUp
  <1> QED
    BY <1>2, <1>3 DEF Call, Codes

\* A command that ends and changes at most the selection, soundly.
LEMMA ExitSelecting ==
    ASSUME IInv, NEW p \in Procs, pc[p] # "idle", NEW code \in Codes, Exit(p, code),
           UNCHANGED <<cred, dev, logins, revoked>>, faults' \in 0..MaxFaults,
           ctx' \in Context \union {None}, SelectionSeen'
    PROVE  IInv'
  <1>1. WorldTypeOK'
    BY DEF IInv, WorldTypeOK
  <1>2. \A q \in Procs : CredentialFor(q)
    BY DEF CredentialFor
  <1> QED
    BY <1>1, <1>2, ExitKeeps

LEMMA SaveSelectionKeeps ==
    ASSUME IInv, NEW p \in Procs, SaveSelection(p)
    PROVE  IInv'
  <1>1. pc[p] = "save" /\ UNCHANGED <<cred, dev, logins, revoked>> /\ faults' \in 0..MaxFaults
    BY Faults DEF SaveSelection
  <1>2. Chose(p) /\ Placed(p) /\ selected[p] \in Context \union {None}
    BY DEF IInv, Facts, LocalTypeOK
  <1>3. PICK code \in Codes : Exit(p, code)
    BY DEF SaveSelection, Codes
  <1>4. ctx' = selected[p] \/ ctx' = ctx
    BY DEF SaveSelection
  <1>5. ctx' \in Context \union {None} /\ SelectionSeen'
    BY <1>1, <1>2, <1>4 DEF IInv, WorldTypeOK, SelectionSeen, Chose
  <1> QED
    BY <1>1, <1>3, <1>5, ExitSelecting

LEMMA ClearKeeps ==
    ASSUME IInv, NEW p \in Procs, ClearSelection(p) \/ ClearIfUnchanged(p)
    PROVE  IInv'
  <1>1. pc[p] # "idle" /\ UNCHANGED <<cred, dev, logins, revoked>> /\ faults' \in 0..MaxFaults
    BY Faults DEF ClearSelection, ClearIfUnchanged
  <1>2. PICK code \in Codes : Exit(p, code)
    BY DEF ClearSelection, ClearIfUnchanged, Codes
  <1>3. ctx' = None \/ ctx' = ctx
    BY DEF ClearSelection, ClearIfUnchanged
  <1>4. ctx' \in Context \union {None} /\ SelectionSeen'
    BY <1>3 DEF IInv, WorldTypeOK, SelectionSeen
  <1> QED
    BY <1>1, <1>2, <1>4, ExitSelecting

LEMMA ForgetCredentialKeeps ==
    ASSUME IInv, NEW p \in Procs, ForgetCredential(p)
    PROVE  IInv'
  <1> DEFINE where == IF cmd[p] = "call" THEN "clear_own" ELSE "clear"
  <1>1. /\ pc[p] = "forget" /\ Available(p, "cred") /\ Forget(p) /\ Goto(p, where)
        /\ UNCHANGED <<dev, ctx, lock, world, local>>
    BY DEF ForgetCredential
  <1>2. where \in {"clear_own", "clear"} /\ where \in PCs
    BY DEF PCs
  <1> HIDE DEF where
  <1>3. UNCHANGED <<logins, revoked, cmd, user, obs, session, selected>> /\ faults' \in 0..MaxFaults
    BY <1>1 DEF IInv, WorldTypeOK, world, local
  <1>4. Facts(p) /\ session[p].login \in revoked
    BY <1>1 DEF IInv, Facts, Placed
  <1>5. WorldTypeOK' /\ SelectionSeen' /\ \A q \in Procs \ {p} : CredentialFor(q)
    BY <1>1, <1>3, <1>4, Forgets
  <1>6. pc'[p] = where
    BY <1>1, <1>2, Goes
  <1>7. Placed(p)'
    BY <1>1, <1>2, <1>3, <1>4, <1>6 DEF Placed, Facts, Commands
  <1>8. Chose(p)' /\ Trusts(p)'
    BY <1>2, <1>6 DEF Chose, Trusts
  <1>9. Keeps(p)'
    BY <1>1, <1>2, <1>3, <1>4, <1>6 DEF Keeps, Facts
  <1> QED
    BY <1>1, <1>2, <1>3, <1>5, <1>7, <1>8, <1>9, GoAlone DEF Facts

-----------------------------------------------------------------------------
(* Login and logout.                                                       *)

\* While p holds the context lease and may take the credential lock, no other
\* command trusts the credential.
LEMMA NobodyTrusts ==
    ASSUME IInv, NEW p \in Procs, pc[p] \in {"sign_in", "undo", "sign_out"}, Available(p, "cred")
    PROVE  \A q \in Procs \ {p} : CredentialFor(q)
  <1>1. lock["ctx"] = p
    BY DEF IInv, Facts, Keeps
  <1>2. lock["cred"] = None \/ lock["cred"] = p
    BY DEF Available
  <1> QED
    BY <1>1, <1>2, AuthConstants DEF CredentialFor

LEMMA SignInKeeps ==
    ASSUME IInv, NEW p \in Procs, SignIn(p)
    PROVE  IInv'
  <1>1. pc[p] = "sign_in" /\ Available(p, "cred") /\ UNCHANGED <<dev, ctx, revoked, faults>>
    BY DEF SignIn
  <1>2. Facts(p) /\ cmd[p] = "login" /\ user[p] \in Users
    BY <1>1 DEF IInv, Facts, Placed
  <1>3. CASE Exit(p, "auth_invalid_credentials") /\ UNCHANGED <<cred, logins>>
    <2>1. UNCHANGED <<durable, logins, revoked>> /\ faults' \in 0..MaxFaults
      BY <1>1, <1>3 DEF durable, IInv, WorldTypeOK
    <2> QED
      BY <1>1, <1>3, <2>1, ExitAlone DEF Codes
  <1>4. CASE /\ logins < MaxLogins
             /\ logins' = logins + 1
             /\ cred' = [uid |-> user[p], login |-> logins + 1]
             /\ Goto(p, IF session[p] # None /\ session[p].uid # user[p]
                        THEN "undo" ELSE "finish")
             /\ UNCHANGED <<lock, local>>
    <2> DEFINE where == IF session[p] # None /\ session[p].uid # user[p]
                        THEN "undo" ELSE "finish"
    <2>1. Goto(p, where) /\ where \in {"undo", "finish"} /\ where \in PCs
      BY <1>4 DEF PCs
    <2> HIDE DEF where
    <2>2. logins + 1 \in 1..MaxLogins
      BY <1>4, AuthConstants DEF IInv, WorldTypeOK
    <2>3. cred' \in Credential /\ cred' # None /\ cred' = [uid |-> user[p], login |-> logins']
      BY <1>2, <1>4, <2>2, AuthConstants DEF Credential
    <2>4. logins' \in 0..MaxLogins
      BY <1>4, <2>2
    <2>5. WorldTypeOK' /\ SelectionSeen'
      BY <1>1, <2>3, <2>4 DEF IInv, WorldTypeOK, SelectionSeen
    <2>6. UNCHANGED <<cmd, user, obs, session, selected>> /\ pc'[p] = where
      BY <1>4, <2>1, Goes DEF local
    <2>7. Placed(p)'
      BY <1>2, <2>1, <2>6 DEF Placed, Commands
    <2>8. Chose(p)' /\ Trusts(p)'
      BY <1>2, <2>1, <2>3, <2>6 DEF Chose, Trusts
    <2>9. Keeps(p)'
      BY <1>1, <1>2, <1>4, <2>1, <2>6 DEF Keeps, Facts
    <2> QED
      BY <1>1, <1>4, <2>1, <2>5, <2>7, <2>8, <2>9, NobodyTrusts, GoAlone DEF Facts
  <1> QED
    BY <1>3, <1>4 DEF SignIn

LEMMA UndoSignInKeeps ==
    ASSUME IInv, NEW p \in Procs, UndoSignIn(p)
    PROVE  IInv'
  <1>1. pc[p] = "undo" /\ Available(p, "cred") /\ UNCHANGED <<dev, ctx, logins, revoked>>
        /\ faults' \in 0..MaxFaults /\ (cred' = None \/ cred' = cred)
    BY Faults DEF UndoSignIn
  <1>2. PICK code \in Codes : Exit(p, code)
    BY DEF UndoSignIn, Codes
  <1>3. WorldTypeOK' /\ SelectionSeen'
    BY <1>1 DEF IInv, WorldTypeOK, SelectionSeen
  <1> QED
    BY <1>1, <1>2, <1>3, NobodyTrusts, ExitKeeps

LEMMA SignOutKeeps ==
    ASSUME IInv, NEW p \in Procs, SignOut(p)
    PROVE  IInv'
  <1>1. pc[p] = "sign_out" /\ Available(p, "cred") /\ UNCHANGED <<dev, ctx, logins, revoked>>
        /\ faults' \in 0..MaxFaults /\ (cred' = None \/ cred' = cred)
    BY Faults DEF SignOut
  <1>2. WorldTypeOK' /\ SelectionSeen' /\ \A q \in Procs \ {p} : CredentialFor(q)
    BY <1>1, NobodyTrusts DEF IInv, WorldTypeOK, SelectionSeen
  <1>3. CASE \E code \in Codes : Exit(p, code)
    BY <1>1, <1>2, <1>3, ExitKeeps
  <1>4. CASE cred' = None /\ Goto(p, "finish") /\ UNCHANGED <<lock, local>>
    <2>1. "finish" \in PCs
      BY DEF PCs
    <2>2. Facts(p) /\ cmd[p] = "logout"
      BY <1>1 DEF IInv, Facts, Placed
    <2>3. UNCHANGED <<cmd, user, obs, session, selected>> /\ pc'[p] = "finish"
      BY <1>4, <2>1, Goes DEF local
    <2>4. Placed(p)'
      BY <2>2, <2>3 DEF Placed, Commands
    <2>5. Chose(p)' /\ Trusts(p)'
      BY <1>4, <2>2, <2>3 DEF Chose, Trusts
    <2>6. Keeps(p)'
      BY <1>1, <1>4, <2>2, <2>3 DEF Keeps, Facts
    <2> QED
      BY <1>1, <1>2, <1>4, <2>1, <2>4, <2>5, <2>6, GoAlone DEF Facts
  <1> QED
    BY <1>3, <1>4 DEF SignOut, Codes

LEMMA FinishSignKeeps ==
    ASSUME IInv, NEW p \in Procs, FinishSign(p)
    PROVE  IInv'
  <1>1. pc[p] = "finish" /\ UNCHANGED <<cred, dev, logins, revoked>> /\ faults' \in 0..MaxFaults
        /\ (ctx' = None \/ ctx' = ctx)
    BY Faults DEF FinishSign
  <1>2. PICK code \in Codes : Exit(p, code)
    <2>1. CASE cmd[p] = "login"
      BY <2>1 DEF FinishSign, Codes
    <2>2. CASE cmd[p] # "login"
      BY <2>2 DEF FinishSign, Codes
    <2> QED
      BY <2>1, <2>2
  <1>3. ctx' \in Context \union {None} /\ SelectionSeen'
    BY <1>1 DEF IInv, WorldTypeOK, SelectionSeen
  <1> QED
    BY <1>1, <1>2, <1>3, ExitSelecting

-----------------------------------------------------------------------------
(* The device, and what may happen to any command.                         *)

LEMMA TakeDeviceKeeps ==
    ASSUME IInv, NEW p \in Procs, TakeDevice(p)
    PROVE  IInv'
  <1>1. pc[p] = "dev_lease" /\ Available(p, "dev") /\ UNCHANGED <<durable, world>>
    BY DEF TakeDevice
  <1>2. CASE Exit(p, "device_auth_response_invalid")
    BY <1>1, <1>2, WorldStays, ExitAlone DEF Codes
  <1>3. CASE lock' = [lock EXCEPT !["dev"] = p] /\ Goto(p, "dev_answer") /\ UNCHANGED local
    <2>1. "dev_answer" \in PCs
      BY DEF PCs
    <2>2. UNCHANGED <<cmd, user, obs, session, selected>>
      BY <1>3 DEF local
    <2>3. lock'["dev"] = p /\ lock'["ctx"] = lock["ctx"] /\ lock'["cred"] = lock["cred"]
          /\ \E l \in Locks : Available(p, l) /\ lock' = [lock EXCEPT ![l] = p]
      BY <1>1, <1>3 DEF IInv, LocalTypeOK, Locks
    <2>4. LocalTypeOK' /\ (\A q \in Procs \ {p} : Aside(q)) /\ pc'[p] = "dev_answer"
      BY <1>3, <2>1, <2>2, <2>3, StepsOn, Goes
    <2>5. Facts(p)
      BY DEF IInv
    <2>6. Placed(p)'
      BY <1>1, <2>2, <2>4, <2>5 DEF Placed, Facts
    <2>7. Chose(p)' /\ Trusts(p)'
      BY <2>4 DEF Chose, Trusts
    <2>8. Keeps(p)'
      BY <1>1, <2>2, <2>3, <2>4, <2>5 DEF Keeps, Facts
    <2> QED
      BY <1>1, <1>3, <2>1, <2>4, <2>6, <2>7, <2>8, WorldStays, GoQuietly DEF Facts
  <1> QED
    BY <1>2, <1>3 DEF TakeDevice

LEMMA WriteDeviceKeeps ==
    ASSUME IInv, NEW p \in Procs, WriteDevice(p)
    PROVE  IInv'
  <1>1. pc[p] = "dev_answer" /\ UNCHANGED <<cred, ctx, logins, revoked>>
        /\ faults' \in 0..MaxFaults /\ (dev' = user[p] \/ dev' = dev)
    BY Faults DEF WriteDevice
  <1>2. PICK code \in Codes : Exit(p, code)
    BY DEF WriteDevice, Codes
  <1>3. dev' \in Users \union {None}
    BY <1>1 DEF IInv, WorldTypeOK, LocalTypeOK
  <1>4. WorldTypeOK' /\ SelectionSeen'
    BY <1>1, <1>3 DEF IInv, WorldTypeOK, SelectionSeen
  <1>5. \A q \in Procs : CredentialFor(q)
    BY <1>1 DEF CredentialFor
  <1> QED
    BY <1>1, <1>2, <1>4, <1>5, ExitKeeps

LEMMA LockTimeoutKeeps ==
    ASSUME IInv, NEW p \in Procs, LockTimeout(p)
    PROVE  IInv'
  <1>1. pc[p] # "idle"
    BY DEF LockTimeout, Needs
  <1>2. Exit(p, "native_state_conflict") /\ UNCHANGED <<durable, world>>
    BY DEF LockTimeout
  <1> QED
    BY <1>1, <1>2, WorldStays, ExitAlone DEF Codes

LEMMA DieKeeps ==
    ASSUME IInv, NEW p \in Procs, Die(p)
    PROVE  IInv'
  <1>1. /\ pc[p] # "idle" /\ Exit(p, "died") /\ UNCHANGED <<durable, logins, revoked>>
        /\ faults' \in 0..MaxFaults
    BY Faults DEF Die
  <1> QED
    BY <1>1, ExitAlone DEF Codes

LEMMA RevokeSessionKeeps ==
    ASSUME IInv, RevokeSession
    PROVE  IInv'
  <1>1. PICK n \in (1..logins) \ revoked : revoked' = revoked \union {n}
    BY DEF RevokeSession
  <1>2. UNCHANGED <<cred, dev, ctx, lock, logins, faults, cmd, user, obs, session, selected, pc, result>>
    BY DEF RevokeSession, durable, local
  <1>3. n \in 1..MaxLogins
    BY AuthConstants DEF IInv, WorldTypeOK
  <1>4. WorldTypeOK' /\ SelectionSeen' /\ LocalTypeOK'
    BY <1>1, <1>2, <1>3 DEF IInv, WorldTypeOK, SelectionSeen, LocalTypeOK
  <1>5. ASSUME NEW q \in Procs
        PROVE  Facts(q)'
    <2>1. Aside(q) /\ CredentialFor(q) /\ revoked \subseteq revoked'
      BY <1>1, <1>2 DEF Aside, CredentialFor
    <2> QED
      BY <2>1, Unaffected
  <1> QED
    BY <1>4, <1>5 DEF IInv

LEMMA NextKeeps == IInv /\ [Next]_vars => IInv'
  <1> SUFFICES ASSUME IInv, [Next]_vars
               PROVE  IInv'
    OBVIOUS
  <1>1. ASSUME NEW p \in Procs, Probe(p)
        PROVE  IInv'
    BY <1>1, ProbeKeeps
  <1>2. ASSUME NEW p \in Procs, Open(p)
        PROVE  IInv'
    BY <1>2, ReadDeviceKeeps, OpenDeviceKeeps, RefreshDeviceKeeps, TakeLeaseKeeps,
       BeginRestoreKeeps, RestoreKeeps DEF Open
  <1>3. ASSUME NEW p \in Procs, Select(p)
        PROVE  IInv'
    BY <1>3, FetchDirectoryKeeps, SaveSelectionKeeps, LoadSelectionKeeps, CallKeeps,
       ForgetCredentialKeeps, ClearKeeps DEF Select
  <1>4. ASSUME NEW p \in Procs, Sign(p)
        PROVE  IInv'
    BY <1>4, SignInKeeps, UndoSignInKeeps, SignOutKeeps, FinishSignKeeps DEF Sign
  <1>5. ASSUME NEW p \in Procs, Device(p) \/ LockTimeout(p)
        PROVE  IInv'
    BY <1>5, TakeDeviceKeeps, WriteDeviceKeeps, LockTimeoutKeeps DEF Device
  <1>6. ASSUME NEW p \in Procs, Start(p) \/ Die(p)
        PROVE  IInv'
    BY <1>6, StartKeeps, DieKeeps
  <1>7. CASE RevokeSession
    BY <1>7, RevokeSessionKeeps
  <1>8. CASE UNCHANGED vars
    <2>1. UNCHANGED <<cred, dev, ctx, lock, logins, revoked, faults, cmd, user, obs, session,
                      selected, pc, result>>
      BY <1>8 DEF vars, durable, world, local
    <2>2. WorldTypeOK' /\ LocalTypeOK' /\ SelectionSeen'
      BY <2>1 DEF IInv, WorldTypeOK, LocalTypeOK, SelectionSeen
    <2>3. ASSUME NEW q \in Procs
          PROVE  Facts(q)'
      <3>1. Aside(q) /\ CredentialFor(q) /\ revoked \subseteq revoked'
        BY <2>1 DEF Aside, CredentialFor
      <3> QED
        BY <3>1, Unaffected
    <2> QED
      BY <2>2, <2>3 DEF IInv
  <1> QED
    BY <1>1, <1>2, <1>3, <1>4, <1>5, <1>6, <1>7, <1>8 DEF Next, Step

-----------------------------------------------------------------------------
(* The theorems.                                                           *)

\* The inductive invariant holds at every moment.
THEOREM Inductive == Spec => []IInv
  BY Initially, NextKeeps, PTL DEF Spec

\* Every variable keeps its type.
THEOREM TypeCorrect == Spec => []TypeOK
  BY Typed, Inductive, PTL

\* A governed request of any command carries a project of its own user's
\* directory, selected by that user (`load_selected_project_for`).
THEOREM CallsStayHome == Spec => []CallsInOwnProject
  <1>1. IInv => CallsInOwnProject
    BY DEF IInv, Facts, Chose, CallsInOwnProject
  <1> QED
    BY <1>1, Inductive, PTL

\* Locks are ordered: who keeps the credential or the device lock waits for
\* nothing, and who keeps the context lease waits for one of those only.  So no
\* set of commands, however many, waits in a circle.
THEOREM NoDeadlock == Spec => []NoCircularWait
  <1>1. IInv => NoCircularWait
    <2> SUFFICES ASSUME IInv, NEW S \in (SUBSET Procs) \ {{}}
                 PROVE  \E p \in S : \A q \in S : ~WaitsFor(p, q)
      BY DEF NoCircularWait
    <2>1. \A p \in S : p \in Procs /\ Facts(p)
      BY DEF IInv
    <2>2. ASSUME NEW p \in S, Needs(p) # None
          PROVE  Needs(p) \in Locks
      BY <2>2 DEF Needs, Locks
    <2>3. CASE \E p \in S : lock["cred"] = p \/ lock["dev"] = p
      <3>1. PICK p \in S : lock["cred"] = p \/ lock["dev"] = p
        BY <2>3
      <3>2. pc[p] = "restoring" \/ pc[p] = "dev_answer"
        BY <2>1, <3>1 DEF Facts, Keeps
      <3>3. Needs(p) = None
        BY <3>2 DEF Needs
      <3> QED
        BY <3>3 DEF WaitsFor
    <2>4. CASE /\ ~ \E p \in S : lock["cred"] = p \/ lock["dev"] = p
               /\ lock["ctx"] \in S
      <3>1. \A q \in S : ~WaitsFor(lock["ctx"], q)
        BY <2>2, <2>4 DEF WaitsFor, Locks
      <3> QED
        BY <2>4, <3>1
    <2>5. CASE /\ ~ \E p \in S : lock["cred"] = p \/ lock["dev"] = p
               /\ lock["ctx"] \notin S
      <3>1. PICK p \in S : TRUE
        OBVIOUS
      <3>2. \A q \in S : ~WaitsFor(p, q)
        BY <2>2, <2>5 DEF WaitsFor, Locks
      <3> QED
        BY <3>2
    <2> QED
      BY <2>3, <2>4, <2>5
  <1> QED
    BY <1>1, Inductive, PTL

\* A command that exits ends with the code it exits with.
LEMMA EndsAsExit ==
    ASSUME IInv, NEW p \in Procs, NEW q \in Procs, NEW c \in Codes,
           NEW code \in Codes, Exit(q, c), Ends(p, code)
    PROVE  p = q /\ c = code
  <1>1. result' = [result EXCEPT ![q] = [cmd |-> cmd[q], code |-> c]]
    BY DEF Exit
  <1>2. result \in [Procs -> [cmd : Commands, code : Codes] \union {None}]
    BY DEF IInv, LocalTypeOK
  <1>3. p = q
    BY <1>1, <1>2 DEF Ends
  <1>4. result'[p] = [cmd |-> cmd[q], code |-> c]
    BY <1>1, <1>2, <1>3
  <1> QED
    BY <1>3, <1>4 DEF Ends

\* The codes that tell of no sign-in, sign-out or selection.
Plain == Codes \ {"signed_in", "signed_out", "selected"}

\* Steps that end no command with success of its own.
LEMMA PlainEnds ==
    ASSUME NEW p \in Procs,
           \/ Probe(p) \/ Open(p) \/ Device(p) \/ LockTimeout(p) \/ Die(p)
           \/ FetchDirectory(p) \/ LoadSelection(p) \/ Call(p) \/ ForgetCredential(p)
           \/ ClearSelection(p) \/ ClearIfUnchanged(p)
           \/ SignIn(p) \/ UndoSignIn(p) \/ SignOut(p)
    PROVE  result' = result \/ \E c \in Plain : Exit(p, c)
  <1>1. CASE Probe(p)
    BY <1>1 DEF Probe, ProbeCredential, ProbeSelected, ProbeDevice, Arbitrate, Goto, Plain, Codes
  <1>2. CASE Open(p)
    BY <1>2 DEF Open, ReadDevice, OpenDevice, RefreshDevice, TakeLease, BeginRestore, Restore,
               Goto, Plain, Codes
  <1>3. CASE Device(p) \/ LockTimeout(p) \/ Die(p)
    BY <1>3 DEF Device, TakeDevice, WriteDevice, LockTimeout, Die, Goto, Plain, Codes
  <1>4. CASE FetchDirectory(p) \/ Call(p)
    BY <1>4 DEF FetchDirectory, Call, Goto, Plain, Codes
  <1>5. CASE LoadSelection(p)
    BY <1>5 DEF LoadSelection, Goto, Plain, Codes
  <1>6. CASE ForgetCredential(p) \/ ClearSelection(p) \/ ClearIfUnchanged(p)
    BY <1>6 DEF ForgetCredential, ClearSelection, ClearIfUnchanged, Goto, Plain, Codes
  <1>7. CASE SignIn(p) \/ UndoSignIn(p) \/ SignOut(p)
    BY <1>7 DEF SignIn, UndoSignIn, SignOut, Goto, Plain, Codes
  <1> QED
    BY <1>1, <1>2, <1>3, <1>4, <1>5, <1>6, <1>7

\* Who reports a sign-in, a sign-out or a selection has just made it.
LEMMA EndsTell ==
    ASSUME IInv, [Next]_vars, NEW p \in Procs,
           NEW code \in {"signed_in", "signed_out", "selected"}, Ends(p, code)
    PROVE  SaveSelection(p) \/ FinishSign(p)
  <1>1. result \in [Procs -> [cmd : Commands, code : Codes] \union {None}]
        /\ result[p] = None /\ result'[p] # None /\ code \in Codes
    BY DEF IInv, LocalTypeOK, Ends, Codes
  <1>2. ASSUME NEW q \in Procs, Start(q)
        PROVE  FALSE
    <2>1. result' = [result EXCEPT ![q] = None]
      BY <1>2 DEF Start
    <2> QED
      BY <1>1, <2>1
  <1>3. ASSUME NEW q \in Procs, result' = result \/ \E c \in Plain : Exit(q, c)
        PROVE  FALSE
    <2>1. PICK c \in Plain : Exit(q, c)
      BY <1>1, <1>3
    <2>2. c \in Codes /\ c # code
      BY DEF Plain
    <2> QED
      BY <1>1, <2>1, <2>2, EndsAsExit
  <1>4. ASSUME NEW q \in Procs, SaveSelection(q) \/ FinishSign(q)
        PROVE  q = p
    <2>1. PICK c \in Codes : Exit(q, c)
      <3>1. CASE cmd[q] = "login"
        BY <1>4, <3>1 DEF SaveSelection, FinishSign, Codes
      <3>2. CASE cmd[q] # "login"
        BY <1>4, <3>2 DEF SaveSelection, FinishSign, Codes
      <3> QED
        BY <3>1, <3>2
    <2> QED
      BY <1>1, <2>1, EndsAsExit
  <1>5. CASE RevokeSession \/ UNCHANGED vars
    BY <1>1, <1>5 DEF RevokeSession, vars
  <1>6. CASE \E q \in Procs : Start(q) \/ Step(q) \/ Die(q)
    <2>1. PICK q \in Procs : Start(q) \/ Step(q) \/ Die(q)
      BY <1>6
    <2>2. CASE Start(q)
      BY <1>2, <2>2
    <2>3. CASE SaveSelection(q) \/ FinishSign(q)
      BY <1>4, <2>3
    <2>4. CASE ~Start(q) /\ ~SaveSelection(q) /\ ~FinishSign(q)
      <3>1. result' = result \/ \E c \in Plain : Exit(q, c)
        BY <2>1, <2>4, PlainEnds DEF Step, Select, Sign
      <3> QED
        BY <1>3, <3>1
    <2> QED
      BY <2>2, <2>3, <2>4
  <1> QED
    BY <1>5, <1>6 DEF Next

\* What login and logout find when they finish.
LEMMA SignInStep ==
    ASSUME IInv, [Next]_vars, NEW p \in Procs
    PROVE  /\ Ends(p, "signed_in") =>
                /\ ctx' = None
                /\ cred' # None => cred'.uid = user[p]
                /\ cred' = None => logins \in revoked
           /\ Ends(p, "signed_out") => cred' = None /\ ctx' = None
  <1>1. ASSUME NEW code \in {"signed_in", "signed_out"}, Ends(p, code)
        PROVE  /\ FinishSign(p) /\ ctx' = None
               /\ cmd[p] = IF code = "signed_in" THEN "login" ELSE "logout"
    <2>1. SaveSelection(p) \/ FinishSign(p)
      BY <1>1, EndsTell
    <2>2. \A c \in Codes : Exit(p, c) => c = code
      BY <1>1, EndsAsExit DEF Codes
    <2>3. ~SaveSelection(p)
      <3>1. ~Exit(p, "selected") /\ ~Exit(p, "native_state_unavailable")
        BY <2>2 DEF Codes
      <3> QED
        BY <3>1 DEF SaveSelection
    <2>4. FinishSign(p)
      BY <2>1, <2>3
    <2>5. ~Exit(p, "native_cleanup_required")
      BY <2>2 DEF Codes
    <2>6. ctx' = None /\ Exit(p, IF cmd[p] = "login" THEN "signed_in" ELSE "signed_out")
      BY <2>4, <2>5 DEF FinishSign
    <2>7. cmd[p] \in {"login", "logout"}
      BY <2>4 DEF FinishSign, IInv, Facts, Placed
    <2>8. CASE cmd[p] = "login"
      <3>1. Exit(p, "signed_in")
        BY <2>6, <2>8
      <3>2. code = "signed_in"
        BY <2>2, <3>1 DEF Codes
      <3> QED
        BY <2>4, <2>6, <2>8, <3>2
    <2>9. CASE cmd[p] = "logout"
      <3>1. Exit(p, "signed_out")
        BY <2>6, <2>9
      <3>2. code = "signed_out"
        BY <2>2, <3>1 DEF Codes
      <3> QED
        BY <2>4, <2>6, <2>9, <3>2
    <2> QED
      BY <2>7, <2>8, <2>9
  <1>2. FinishSign(p) => cred' = cred /\ Trusts(p) /\ pc[p] = "finish"
    BY DEF FinishSign, IInv, Facts
  <1>3. ASSUME Ends(p, "signed_in")
        PROVE  /\ ctx' = None
               /\ cred' # None => cred'.uid = user[p]
               /\ cred' = None => logins \in revoked
    <2>1. FinishSign(p) /\ ctx' = None /\ cmd[p] = "login"
      BY <1>1, <1>3
    <2>2. \/ cred # None /\ cred = [uid |-> user[p], login |-> logins]
          \/ cred = None /\ logins \in revoked
      BY <1>2, <2>1 DEF Trusts
    <2> QED
      BY <1>2, <2>1, <2>2
  <1>4. ASSUME Ends(p, "signed_out")
        PROVE  cred' = None /\ ctx' = None
    <2>1. FinishSign(p) /\ ctx' = None /\ cmd[p] = "logout"
      BY <1>1, <1>4
    <2> QED
      BY <1>2, <2>1 DEF Trusts
  <1> QED
    BY <1>3, <1>4

\* A reported login is the stored credential with no selection left to inherit,
\* and a reported logout leaves neither: `run_login` and `run_logout` keep the
\* context lease from before the one write to after the other.
THEOREM SignInsStayWhole == Spec => SignInsAreWhole
  <1>1. IInv /\ [Next]_vars =>
          [\A p \in Procs :
              /\ Ends(p, "signed_in") =>
                    /\ ctx' = None
                    /\ cred' # None => cred'.uid = user[p]
                    /\ cred' = None => logins \in revoked
              /\ Ends(p, "signed_out") => cred' = None /\ ctx' = None]_vars
    BY SignInStep
  <1> QED
    BY <1>1, Inductive, PTL DEF Spec, SignInsAreWhole

LEMMA SelectionStep ==
    ASSUME IInv, [Next]_vars, NEW p \in Procs, Ends(p, "selected"), session[p].login > 0
    PROVE  cred = session[p] \/ session[p].login \in revoked
  <1>1. SaveSelection(p) \/ FinishSign(p)
    BY EndsTell
  <1>2. \A c \in Codes : Exit(p, c) => c = "selected"
    BY EndsAsExit DEF Codes
  <1>3. ~FinishSign(p)
    <2>1. /\ ~Exit(p, "signed_in") /\ ~Exit(p, "signed_out")
          /\ ~Exit(p, "native_cleanup_required")
      BY <1>2 DEF Codes
    <2>2. CASE cmd[p] = "login"
      BY <2>1, <2>2 DEF FinishSign
    <2>3. CASE cmd[p] # "login"
      BY <2>1, <2>3 DEF FinishSign
    <2> QED
      BY <2>2, <2>3
  <1>4. pc[p] = "save" /\ Trusts(p)
    BY <1>1, <1>3 DEF SaveSelection, IInv, Facts
  <1> QED
    BY <1>4 DEF Trusts

\* No selection is saved behind a logout or for a replaced account
\* (`run_project_use` keeps the context lease over restore, directory and save).
THEOREM SelectionsStayCurrent == Spec => SelectsForCurrentLogin
  <1>1. IInv /\ [Next]_vars =>
          [\A p \in Procs :
              Ends(p, "selected") /\ session[p].login > 0 =>
                  cred = session[p] \/ session[p].login \in revoked]_vars
    BY SelectionStep
  <1> QED
    BY <1>1, Inductive, PTL DEF Spec, SelectsForCurrentLogin

-----------------------------------------------------------------------------
(* Commands end: what liveness rests on besides fairness.                  *)

\* How many more steps a command may take, whatever the others do.  The device
\* is read after the lease in a login and before it in every other command.
StepsLeft(p) ==
    CASE pc[p] = "idle"                                      -> 0
      [] pc[p] \in {"finish", "undo", "clear", "clear_own",
                    "dev_answer"}                            -> 1
      [] pc[p] \in {"forget", "sign_in", "sign_out", "dev_lease"} -> 2
      [] pc[p] \in {"save", "call"}                          -> 3
      [] pc[p] \in {"directory", "load"}                     -> 4
      [] pc[p] \in {"restoring", "refresh"}                  -> 5
      [] pc[p] = "restore"                                   -> 6
      [] pc[p] = "read_dev"                                  -> IF cmd[p] = "login" THEN 7 ELSE 9
      [] pc[p] = "lease"                                     -> 8
      [] pc[p] = "open_dev"                                  -> 9
      [] pc[p] = "probe_dsel"                                -> 10
      [] pc[p] = "probe_dev"                                 -> 11
      [] pc[p] = "probe_sel"                                 -> 12
      [] pc[p] = "probe_cred"                                -> 13

Bounded == \A p \in Procs : StepsLeft(p) \in 0..13

\* A step of its own brings a command nearer to its end, and nothing others do
\* takes it further away.
RunsDown(p) ==
    /\ Step(p) \/ Die(p) => StepsLeft(p)' < StepsLeft(p)
    /\ pc[p] # "idle" => StepsLeft(p)' <= StepsLeft(p)

LEMMA LeftIsBounded == IInv => Bounded
  BY DEF IInv, LocalTypeOK, PCs, Bounded, StepsLeft

\* A command that exits has nothing left to do.
LEMMA ExitedIsDone ==
    ASSUME IInv, NEW p \in Procs, pc[p] # "idle", NEW code, Exit(p, code)
    PROVE  StepsLeft(p)' < StepsLeft(p)
  <1>1. pc[p] \in PCs /\ pc'[p] = "idle"
    BY DEF IInv, LocalTypeOK, Exit
  <1>2. StepsLeft(p)' = 0
    BY <1>1 DEF StepsLeft
  <1> QED
    BY <1>1, <1>2 DEF StepsLeft, PCs

LEMMA ProbeCounts ==
    ASSUME IInv, NEW p \in Procs, Probe(p)
    PROVE  StepsLeft(p)' < StepsLeft(p)
  <1>1. pc \in [Procs -> PCs]
    BY DEF IInv, LocalTypeOK
  <1>2. CASE ProbeCredential(p)
    BY <1>1, <1>2 DEF ProbeCredential, Goto, StepsLeft
  <1>3. CASE ProbeDevice(p)
    BY <1>1, <1>3 DEF ProbeDevice, Goto, Probed, StepsLeft
  <1>4. CASE ProbeSelected(p)
    <2>1. CASE Goto(p, "probe_dev")
      BY <1>1, <1>4, <2>1 DEF ProbeSelected, Goto, StepsLeft
    <2> QED
      BY <1>4, <2>1, ExitedIsDone DEF ProbeSelected
  <1>5. CASE Arbitrate(p)
    <2>1. CASE Goto(p, Probed(cmd[p])) /\ cmd' = cmd
      BY <1>1, <1>5, <2>1 DEF Arbitrate, Goto, Probed, StepsLeft
    <2> QED
      BY <1>5, <2>1, ExitedIsDone DEF Arbitrate
  <1> QED
    BY <1>2, <1>3, <1>4, <1>5 DEF Probe

LEMMA OpenCounts ==
    ASSUME IInv, NEW p \in Procs, Open(p)
    PROVE  StepsLeft(p)' < StepsLeft(p)
  <1>1. pc \in [Procs -> PCs]
    BY DEF IInv, LocalTypeOK
  <1>2. CASE ReadDevice(p)
    BY <1>1, <1>2 DEF ReadDevice, Goto, StepsLeft
  <1>3. CASE OpenDevice(p)
    BY <1>1, <1>3 DEF OpenDevice, Goto, StepsLeft
  <1>4. CASE RefreshDevice(p)
    <2>1. CASE Goto(p, IF cmd[p] = "call" THEN "load" ELSE "directory")
      BY <1>1, <1>4, <2>1 DEF RefreshDevice, Goto, StepsLeft
    <2> QED
      BY <1>4, <2>1, ExitedIsDone DEF RefreshDevice
  <1>5. CASE TakeLease(p)
    BY <1>1, <1>5 DEF TakeLease, Goto, Leased, local, StepsLeft
  <1>6. CASE BeginRestore(p)
    <2>1. CASE Goto(p, "restoring")
      BY <1>1, <1>6, <2>1 DEF BeginRestore, Goto, StepsLeft
    <2> QED
      BY <1>6, <2>1, ExitedIsDone DEF BeginRestore
  <1>7. CASE Restore(p)
    <2>1. CASE pc' = [pc EXCEPT ![p] = pc'[p]] /\ pc'[p] \in {"directory", "load", "clear"}
      BY <1>1, <1>7, <2>1 DEF Restore, StepsLeft
    <2>2. CASE \E code \in {"auth_transient"} : Exit(p, code)
      BY <1>7, <2>2, ExitedIsDone DEF Restore
    <2> QED
      BY <1>1, <1>7, <2>1, <2>2 DEF Restore, Goto
  <1> QED
    BY <1>2, <1>3, <1>4, <1>5, <1>6, <1>7 DEF Open

LEMMA SelectCounts ==
    ASSUME IInv, NEW p \in Procs, Select(p)
    PROVE  StepsLeft(p)' < StepsLeft(p)
  <1>1. pc \in [Procs -> PCs]
    BY DEF IInv, LocalTypeOK
  <1>2. CASE FetchDirectory(p)
    <2>1. CASE Goto(p, "save") \/ Goto(p, "forget")
      BY <1>1, <1>2, <2>1 DEF FetchDirectory, Goto, StepsLeft
    <2> QED
      BY <1>2, <2>1, ExitedIsDone DEF FetchDirectory
  <1>3. CASE SaveSelection(p)
    BY <1>3, ExitedIsDone DEF SaveSelection
  <1>4. CASE LoadSelection(p)
    <2>1. CASE Goto(p, "call")
      BY <1>1, <1>4, <2>1 DEF LoadSelection, Goto, StepsLeft
    <2> QED
      BY <1>4, <2>1, ExitedIsDone DEF LoadSelection
  <1>5. CASE Call(p)
    <2>1. CASE Goto(p, "forget")
      BY <1>1, <1>5, <2>1 DEF Call, Goto, StepsLeft
    <2> QED
      BY <1>5, <2>1, ExitedIsDone DEF Call
  <1>6. CASE ForgetCredential(p)
    BY <1>1, <1>6 DEF ForgetCredential, Goto, StepsLeft
  <1>7. CASE ClearSelection(p)
    BY <1>7, ExitedIsDone DEF ClearSelection
  <1>8. CASE ClearIfUnchanged(p)
    BY <1>8, ExitedIsDone DEF ClearIfUnchanged
  <1> QED
    BY <1>2, <1>3, <1>4, <1>5, <1>6, <1>7, <1>8 DEF Select

LEMMA SignCounts ==
    ASSUME IInv, NEW p \in Procs, Sign(p) \/ Device(p)
    PROVE  StepsLeft(p)' < StepsLeft(p)
  <1>1. pc \in [Procs -> PCs]
    BY DEF IInv, LocalTypeOK
  <1>2. CASE SignIn(p)
    <2>1. CASE Goto(p, IF session[p] # None /\ session[p].uid # user[p]
                       THEN "undo" ELSE "finish")
      BY <1>1, <1>2, <2>1 DEF SignIn, Goto, StepsLeft
    <2> QED
      BY <1>2, <2>1, ExitedIsDone DEF SignIn
  <1>3. CASE UndoSignIn(p)
    BY <1>3, ExitedIsDone DEF UndoSignIn
  <1>4. CASE SignOut(p)
    <2>1. CASE Goto(p, "finish")
      BY <1>1, <1>4, <2>1 DEF SignOut, Goto, StepsLeft
    <2> QED
      BY <1>4, <2>1, ExitedIsDone DEF SignOut
  <1>5. CASE FinishSign(p)
    BY <1>5, ExitedIsDone DEF FinishSign
  <1>6. CASE TakeDevice(p)
    <2>1. CASE Goto(p, "dev_answer")
      BY <1>1, <1>6, <2>1 DEF TakeDevice, Goto, StepsLeft
    <2> QED
      BY <1>6, <2>1, ExitedIsDone DEF TakeDevice
  <1>7. CASE WriteDevice(p)
    BY <1>7, ExitedIsDone DEF WriteDevice
  <1> QED
    BY <1>2, <1>3, <1>4, <1>5, <1>6, <1>7 DEF Sign, Device

LEMMA OwnStepsCount ==
    ASSUME IInv, NEW p \in Procs, Step(p) \/ Die(p)
    PROVE  StepsLeft(p)' < StepsLeft(p)
  <1>1. CASE LockTimeout(p)
    <2>1. pc[p] # "idle"
      BY <1>1 DEF LockTimeout, Needs
    <2> QED
      BY <1>1, <2>1, ExitedIsDone DEF LockTimeout
  <1>2. CASE Die(p)
    BY <1>2, ExitedIsDone DEF Die
  <1> QED
    BY <1>1, <1>2, ProbeCounts, OpenCounts, SelectCounts, SignCounts DEF Step

\* Where a command is, and which it is, is not touched by the steps of others.
LEMMA OthersCountNothing ==
    ASSUME IInv, NEW p \in Procs, [Next]_vars, ~Step(p), ~Die(p), pc[p] # "idle"
    PROVE  StepsLeft(p)' = StepsLeft(p)
  <1>1. SUFFICES pc'[p] = pc[p] /\ cmd'[p] = cmd[p]
    BY <1>1 DEF StepsLeft
  <1>2. CASE UNCHANGED vars \/ RevokeSession
    BY <1>2 DEF vars, local, RevokeSession
  <1>3. ASSUME NEW q \in Procs, Start(q) \/ Step(q) \/ Die(q)
        PROVE  pc'[p] = pc[p] /\ cmd'[p] = cmd[p]
    <2>1. /\ q # p
          /\ pc \in [Procs -> PCs] /\ cmd \in [Procs -> Commands \union {None}]
      BY <1>3 DEF Start, IInv, LocalTypeOK
    <2>2. ASSUME NEW code, Exit(q, code) PROVE pc'[p] = pc[p] /\ cmd'[p] = cmd[p]
      BY <2>1, <2>2 DEF Exit
    <2>3. ASSUME NEW where, Goto(q, where), cmd' = cmd PROVE pc'[p] = pc[p] /\ cmd'[p] = cmd[p]
      BY <2>1, <2>3 DEF Goto
    <2>4. CASE Start(q)
      BY <2>1, <2>4 DEF Start
    <2>5. CASE LockTimeout(q) \/ Die(q)
      BY <2>2, <2>5 DEF LockTimeout, Die
    <2>6. CASE Probe(q)
      BY <2>2, <2>3, <2>6 DEF Probe, ProbeCredential, ProbeSelected, ProbeDevice, Arbitrate
    <2>7. CASE Open(q)
      BY <2>2, <2>3, <2>7 DEF Open, ReadDevice, OpenDevice, RefreshDevice, TakeLease,
         BeginRestore, Restore, local
    <2>8. CASE Select(q)
      BY <2>2, <2>3, <2>8 DEF Select, FetchDirectory, SaveSelection, LoadSelection, Call,
         ForgetCredential, ClearSelection, ClearIfUnchanged, local
    <2>9. CASE Sign(q) \/ Device(q)
      BY <2>2, <2>3, <2>9 DEF Sign, SignIn, UndoSignIn, SignOut, FinishSign, Device,
         TakeDevice, WriteDevice, local
    <2> QED
      BY <1>3, <2>4, <2>5, <2>6, <2>7, <2>8, <2>9 DEF Step
  <1> QED
    BY <1>2, <1>3 DEF Next

\* No command goes round in circles, refusals, retries and clean-ups included:
\* whatever other processes and the provider do, it ends after at most 13 steps
\* of its own.
THEOREM CommandsRunDown == Spec => []Bounded /\ [][\A p \in Procs : RunsDown(p)]_vars
  <1>1. IInv /\ [Next]_vars => [\A p \in Procs : RunsDown(p)]_vars
    <2> SUFFICES ASSUME IInv, [Next]_vars, NEW p \in Procs
                 PROVE  RunsDown(p)
      OBVIOUS
    <2>1. Bounded /\ Bounded'
      <3>1. IInv' => Bounded'
        BY LeftIsBounded, PTL
      <3> QED
        BY <3>1, NextKeeps, LeftIsBounded
    <2>2. StepsLeft(p) \in Nat /\ StepsLeft(p)' \in Nat
      BY <2>1 DEF Bounded
    <2>3. CASE Step(p) \/ Die(p)
      BY <2>2, <2>3, OwnStepsCount DEF RunsDown
    <2>4. CASE ~Step(p) /\ ~Die(p)
      BY <2>2, <2>4, OthersCountNothing DEF RunsDown
    <2> QED
      BY <2>3, <2>4
  <1> QED
    BY <1>1, LeftIsBounded, Inductive, PTL DEF Spec
=============================================================================
