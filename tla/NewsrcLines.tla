----------------------------- MODULE NewsrcLines -----------------------------
(***************************************************************************)
(* The lines of .newsrc as the rewriting of the file sees them: src/src/   *)
(* newsrc.c copies every line and changes the subscription or the marks.   *)
(* What the marks of a line mean is the subject of NewsrcBitmap.           *)
(***************************************************************************)
EXTENDS Integers

CONSTANTS
  N,          \* number of newsgroups; a group is its place in the file
  MaxMarks,   \* bound: how often the marks of a group change
  NoFile      \* there is no such file

Groups == 1..N

\* A group's line: subscribed, and how current its marks are.
Line == [sub : BOOLEAN, marks : 0..MaxMarks]
NewLine == [sub |-> FALSE, marks |-> 0]
Texts == UNION {[D -> Line] : D \in SUBSET Groups}

ASSUME LinesAssumption == N \in Nat /\ MaxMarks \in Nat /\ NoFile \notin Texts

Loaded(text) == [g \in Groups |-> IF g \in DOMAIN text THEN text[g] ELSE NewLine]

\* The file's lines as the session knows them.
Stored(text, mem) == [g \in DOMAIN text |-> mem[g]]

\* The line of group g with the subscription of the session, or a new line.
Toggled(text, mem, g) ==
  [h \in DOMAIN text \cup {g} |->
     IF h # g THEN text[h]
     ELSE IF g \in DOMAIN text THEN [text[g] EXCEPT !.sub = mem[g].sub] ELSE mem[g]]

Without(text, g) == [h \in DOMAIN text \ {g} |-> text[h]]
Cleared(text) == [g \in DOMAIN text |-> [text[g] EXCEPT !.marks = 0]]
Unmarked(text) == \A g \in DOMAIN text : text[g].marks = 0

=============================================================================
