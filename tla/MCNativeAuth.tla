---------------------------- MODULE MCNativeAuth ----------------------------
(* Small instances of NativeAuth.                                          *)
EXTENDS NativeAuth, TLC

CONSTANTS a, b, x, y

\* Both users see project x, only b sees y.
MCVisible == [u \in {a, b} |-> IF u = a THEN {x} ELSE {x, y}]

\* Each user sees one project.
MCApart == a :> {x} @@ b :> {y}

\* No property names a process or a user: processes are interchangeable, and
\* so are, in MCApart, the users together with their projects.
Accounts == a :> b @@ b :> a @@ x :> y @@ y :> x
Interchangeable ==
    {p @@ u : p \in Permutations(Procs), u \in {Accounts, [v \in DOMAIN Accounts |-> v]}}
=============================================================================
