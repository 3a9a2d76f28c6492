----------------------------- MODULE AtomicCell -----------------------------
(***************************************************************************)
(* What a protected state file promises its callers: one value, replaced   *)
(* whole and one replacement at a time, and never fewer replacements on    *)
(* disk than were reported to a caller, even after a loss of power.        *)
(***************************************************************************)
EXTENDS Naturals

VARIABLES
    version,   \* how many replacements the current value is the result of
    present,   \* whether there is a value at all
    reported   \* how many replacements returned success to their caller

cell == <<version, present, reported>>

Init == version = 0 /\ present \in BOOLEAN /\ reported = 0

\* A value is replaced, by a value or by none.
Replace == version' = version + 1 /\ present' \in BOOLEAN /\ UNCHANGED reported

\* Success is reported for a replacement that is there.
Report == reported < version /\ reported' = reported + 1 /\ UNCHANGED <<version, present>>

\* Power is lost: replacements nobody was told of may be undone.
Revert ==
    /\ version' \in reported..version
    /\ present' \in BOOLEAN
    /\ version' = version => present' = present
    /\ UNCHANGED reported

Next == Replace \/ Report \/ Revert

Spec == Init /\ [][Next]_cell
=============================================================================
