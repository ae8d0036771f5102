--------------------------- MODULE NewsrcSessionMC ---------------------------
(***************************************************************************)
(* Values of the constants of NewsrcSession for TLC.                       *)
(***************************************************************************)
EXTENDS NewsrcSession

CONSTANTS g1, g2

\* Every article is posted to one group only; the header names that group.
NoCrossPosts == [p \in Groups \X Arts |-> {p}]

\* Articles with the same number are the same article.
SameNumber == [p \in Groups \X Arts |-> {<<g, p[2]>> : g \in Groups}]

\* Article 1 of g1 is article 2 of g2.
Shifted ==
  [p \in Groups \X Arts |->
     CASE p = <<g1, 1>> -> {p, <<g2, 2>>}
       [] p = <<g2, 2>> -> {p, <<g1, 1>>}
       [] OTHER -> {p}]

=============================================================================
