--------------------------- MODULE MCSurveyImport ---------------------------
(* Small instances of SurveyImport.                                        *)
EXTENDS SurveyImport, TLC

CONSTANTS r1, r2, c1, c2, a, b, a1, a2, b1

\* a1 is row a as exported, a2 the same row edited in place: one key, two
\* contents.
MCRows    == {a1, a2, b1}
MCKeys    == {a, b}
MCKeyOf   == [r \in MCRows |-> IF r = b1 THEN b ELSE a]

OnePair   == {[receipt |-> r1, checkpoint |-> c1]}

\* Imports that share a receipt, share a checkpoint, or share neither.
Crossed   == {[receipt |-> r1, checkpoint |-> c1],
              [receipt |-> r1, checkpoint |-> c2],
              [receipt |-> r2, checkpoint |-> c1]}

OneSource   == {<<a1, b1>>}

\* The export, the export with an edited row, a truncated one, and one that
\* repeats a row and is refused before anything is written.
EditedSource == {<<a1, b1>>, <<a2, b1>>, <<a1>>, <<a1, a1>>}

\* Processes differ in nothing but their name.
Interchangeable == Permutations(Procs)
=============================================================================
