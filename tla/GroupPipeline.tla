--------------------------- MODULE GroupPipeline ---------------------------
(***************************************************************************)
(* read_newsrc_active_file() (active.c): the counts of every subscribed    *)
(* group are asked for with up to Window GROUP commands under way, whose   *)
(* answers are matched with the ring ngnames[] by their position.  When    *)
(* the connection is lost, get_server() has sent the last command again    *)
(* before the function hears of it, so the ring has to be turned.          *)
(*                                                                         *)
(* An answer is the name of the group its counts are of.  The server asks  *)
(* for no authentication here and answers no GROUP with 503.               *)
(***************************************************************************)
EXTENDS Naturals, SequencesExt

CONSTANTS Lines,      \* the lines of .newsrc: [name, sub]
          Known,      \* the groups the server carries
          Window,     \* NUM_SIMULTANEOUS_GROUP_COMMAND, at least 1
          MaxLost     \* bound: lost connections

ASSUME PipelineAssumption ==
  Window \in Nat \ {0} /\ Lines \in Seq([name : STRING, sub : BOOLEAN])

VARIABLES lines,      \* the lines still to be read
          ngnames, index_i, index_o, window,
          sent,       \* commands of this connection the server has to answer
          last_put,
          counted,    \* the groups whose counts are in active[]
          wrong,      \* "Wrong newsgroup name in response of GROUP command"
          lost        \* connections lost so far

vars == <<lines, ngnames, index_i, index_o, window, sent, last_put, counted, wrong, lost>>

Slots == 0..(Window - 1)
Up(i) == (i + 1) % Window
Down(i) == (i + Window - 1) % Window

Init ==
  /\ lines = Lines /\ ngnames = [i \in Slots |-> ""] /\ index_i = 0 /\ index_o = 0 /\ window = 0
  /\ sent = <<>> /\ last_put = "" /\ counted = {} /\ wrong = FALSE /\ lost = 0

\* Unsubscribed lines are passed over.
Skip ==
  /\ lines # <<>> /\ ~Head(lines).sub /\ window < Window
  /\ lines' = Tail(lines)
  /\ UNCHANGED <<ngnames, index_i, index_o, window, sent, last_put, counted, wrong, lost>>

PutGroup ==
  /\ lines # <<>> /\ Head(lines).sub /\ window < Window
  /\ LET g == Head(lines).name
     IN /\ ngnames' = [ngnames EXCEPT ![index_i] = g]
        /\ sent' = Append(sent, g)
        /\ last_put' = g
  /\ lines' = Tail(lines)
  /\ index_i' = Up(index_i)
  /\ window' = window + 1
  /\ UNCHANGED <<index_o, counted, wrong, lost>>

Ring == [names |-> ngnames, i |-> index_i, o |-> index_o]

\* Mutant: the ring is left as it was.
Rotate_Not(r) == r

\* The last command has become the first.
Rotate(r) ==
  LET o == Down(r.o)
      i == Down(r.i)
  IN [names |-> IF i # o THEN [r.names EXCEPT ![o] = r.names[i]] ELSE r.names, i |-> i, o |-> o]

\* All but the last of the commands under way, sent once more.
Resent == [k \in 1..(window - 1) |-> ngnames[(index_o + k - 1) % Window]]

\* An answer is for ngnames[index_o]; it counts for the group it names.
Answer(g, r) ==
  /\ counted' = IF g \in Known THEN counted \cup {g} ELSE counted
  /\ wrong' = (wrong \/ (g \in Known /\ g # r.names[r.o]))
  /\ ngnames' = r.names /\ index_i' = r.i /\ index_o' = Up(r.o)
  /\ window' = window - 1
  /\ UNCHANGED lines

Waiting == window > 0 /\ (window = Window \/ lines = <<>>)

GetAnswer ==
  /\ Waiting /\ sent # <<>>
  /\ Answer(Head(sent), Ring)
  /\ sent' = Tail(sent)
  /\ UNCHANGED <<last_put, lost>>

\* get_server() reconnects, sends last_put again and has its answer.
GetAfterReconnect ==
  /\ Waiting /\ lost < MaxLost
  /\ lost' = lost + 1
  /\ Answer(last_put, Rotate(Ring))
  /\ sent' = Resent
  /\ last_put' = IF Resent = <<>> THEN last_put ELSE Last(Resent)

Done == lines = <<>> /\ window = 0

Next == Skip \/ PutGroup \/ GetAnswer \/ GetAfterReconnect

Spec == Init /\ [][Next]_vars

-----------------------------------------------------------------------------
\* However often the connection is lost (read_newsrc_active_file, the comment
\* "rotate buffer to use data received"): the answers under way are those of
\* the ring, in its order, no answer names another group than the one it is
\* taken for, and in the end every subscribed group the server carries has
\* been found and no answer is left over for the next command to read.
AnswersMatched ==
  /\ ~wrong
  /\ sent = [k \in 1..window |-> ngnames[(index_o + k - 1) % Window]]
  /\ Done => counted = {l.name : l \in {l \in ToSet(Lines) : l.sub}} \cap Known
=============================================================================
