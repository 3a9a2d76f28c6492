---------------------------- MODULE ImportPromise ----------------------------
(***************************************************************************)
(* What resumable imports promise, without processes, files, locks or      *)
(* deaths: each is bound once to a source and an identity; the service     *)
(* only takes the row that is next in some import, at most one ahead of    *)
(* its evidence; and each row is settled exactly once, in order, with the  *)
(* outcome the service really has.                                         *)
(***************************************************************************)
EXTENDS Naturals, Sequences

CONSTANTS Imports, Rows, Keys, KeyOf, Plans, Bindings, None, Foreign

VARIABLES
    plan,     \* plan[i]: the source import i is bound to, or None
    who,      \* who[i]: the principal and project it is bound to, or None
    settled,  \* settled[i]: the outcomes of its first rows, in order
    held      \* held[b][k]: what the service holds under key k for b

promise == <<plan, who, settled, held>>

Init ==
    /\ plan = [i \in Imports |-> None]
    /\ who = [i \in Imports |-> None]
    /\ settled = [i \in Imports |-> <<>>]
    /\ held = [b \in Bindings |-> [k \in Keys |-> None]]

Bind(i) ==
    /\ plan[i] = None
    /\ \E s \in Plans : plan' = [plan EXCEPT ![i] = s]
    /\ \E b \in Bindings : who' = [who EXCEPT ![i] = b]
    /\ UNCHANGED <<settled, held>>

\* The only row import i may have the service take next.
Due(i, row) ==
    /\ plan[i] # None
    /\ Len(settled[i]) < Len(plan[i]) /\ row = plan[i][Len(settled[i]) + 1]

Take(i, row) ==
    /\ Due(i, row) /\ held[who[i]][KeyOf[row]] = None
    /\ held' = [held EXCEPT ![who[i]][KeyOf[row]] = row]
    /\ UNCHANGED <<plan, who, settled>>

Outcome(i, row) == IF held[who[i]][KeyOf[row]] = row THEN "committed" ELSE "refused"

Settle(i, row) ==
    /\ Due(i, row)
    /\ settled' = [settled EXCEPT ![i] = Append(@, Outcome(i, row))]
    /\ UNCHANGED <<plan, who, held>>

\* Somebody else creates a document under one of the keys.
OutsideCreate(b, k) ==
    /\ held[b][k] = None
    /\ held' = [held EXCEPT ![b][k] = Foreign]
    /\ UNCHANGED <<plan, who, settled>>

Next ==
    \/ \E i \in Imports : Bind(i)
    \/ \E i \in Imports, row \in Rows : Take(i, row) \/ Settle(i, row)
    \/ \E b \in Bindings, k \in Keys : OutsideCreate(b, k)

Spec == Init /\ [][Next]_promise
=============================================================================
