----------------------------- MODULE NewsrcStore -----------------------------
(***************************************************************************)
(* What rewriting the .newsrc file promises: to the user the file is one   *)
(* value that is replaced as a whole.  No step shows a part of a new file, *)
(* no line is lost, and a line only changes as the command asked.  The     *)
(* promise ends when the process is stopped in one of the few places that  *)
(* NewsrcFile names (Harm).                                                *)
(***************************************************************************)
EXTENDS NewsrcLines

CONSTANT Harmed   \* the value of durable once nothing is promised any more

VARIABLES
  durable,   \* the content of .newsrc, or NoFile, or Harmed
  mem        \* what the session knows of the groups

vars == <<durable, mem>>

Init == durable \in Texts \cup {NoFile} /\ mem \in [Groups -> Line]

Learn ==
  /\ mem' \in [Groups -> Line]
  /\ UNCHANGED durable

Load ==
  /\ durable \in Texts
  /\ mem' = Loaded(durable)
  /\ UNCHANGED durable

Replace ==
  /\ durable \in Texts
  /\ \/ durable' = Stored(durable, mem)
     \/ durable' = Cleared(durable)
     \/ \E g \in Groups : durable' = Toggled(durable, mem, g) \/ durable' = Without(durable, g)
  /\ UNCHANGED mem

\* A missing file is created without marks; auto-subscription replaces it.
Create ==
  /\ durable = NoFile \/ (durable \in Texts /\ Unmarked(durable))
  /\ durable' \in Texts /\ Unmarked(durable')
  /\ UNCHANGED mem

Harm == durable' = Harmed /\ mem' \in [Groups -> Line]

Next == Learn \/ Load \/ Replace \/ Create \/ Harm

Spec == Init /\ [][Next]_vars

=============================================================================
