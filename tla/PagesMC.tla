-------------------------------- MODULE PagesMC --------------------------------
(***************************************************************************)
(* Values of the constants of Pages for TLC: articles 0 and 1 are a thread *)
(* by references, article 2 is one of its own.                             *)
(***************************************************************************)
EXTENDS Pages

CONSTANTS m0, m1, m2

Distinct == [i \in Arts |-> i]
Ids == [i \in Arts |-> CASE i = 0 -> m0 [] i = 1 -> m1 [] i = 2 -> m2]

ATree ==
  [parent |-> (m0 :> NoMsg) @@ (m1 :> m0) @@ (m2 :> NoMsg),
   child |-> (m0 :> m1) @@ (m1 :> NoMsg) @@ (m2 :> NoMsg),
   sibling |-> (m0 :> NoMsg) @@ (m1 :> NoMsg) @@ (m2 :> NoMsg),
   known |-> {m0, m1, m2}]

=============================================================================
