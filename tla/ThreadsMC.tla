------------------------------- MODULE ThreadsMC -------------------------------
(***************************************************************************)
(* Values of the constants of Threads for TLC.                             *)
(***************************************************************************)
EXTENDS Threads

CONSTANTS ma, mb, mx

\* No references, true ones, forged ones, and one that has to be trimmed.
FewRefLists == {<<>>, <<ma>>, <<mb, ma>>, <<mx, mb>>}

\* The first and the last article have the same subject.
TwoSubjects == [i \in 0..(Top - 1) |-> IF i = 1 THEN "other" ELSE "topic"]

=============================================================================
