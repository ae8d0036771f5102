------------------------------ MODULE LineEdit ------------------------------
(***************************************************************************)
(* tin_getline() (getline.c): one line of input, edited on the screen, and *)
(* its history.  gl is the line, the window on it and the terminal row:    *)
(*   buf, cnt, pos       gl_buf, gl_cnt and gl_pos                          *)
(*   shift, left, right  gl_fixup()'s gl_shift, off_left and off_right     *)
(*   row, col            what stands behind the prompt, and the cursor;    *)
(*                       they change only by what gl_fixup() writes        *)
(* Characters are "a" and "b" (letters), "/" (a graph) and " ".  There are *)
(* no hooks but gl_tab().  A prompt is over when line is "closed"; the     *)
(* buffer never gets full (LineMax < BUF_SIZE), the terminal has room for  *)
(* gl_width characters.  With less than SCROLL + 3 columns for the line the *)
(* window of gl_fixup() may begin behind the cursor.                       *)
(***************************************************************************)
EXTENDS Integers, SequencesExt

CONSTANTS gl_width, SCROLL, TABSIZE, HIST_SIZE,
          PromptLen,  \* strlen (gl_prompt)
          Chars,      \* the characters typed
          Limits,     \* max_chars of the prompts
          LineMax,    \* bound on the length of a line
          MaxTyped    \* bound on the lines entered

VARIABLES
  line,         \* "closed", or "open": tin_getline() is reading
  gl,
  gl_max,
  is_passwd,
  input_history, hist_last, hist_pos,   \* one history: which_hist
  typed         \* what has been entered, nonblank lines only

editVars == <<line, gl, gl_max, is_passwd, input_history, hist_last, hist_pos, typed>>

Empty == <<>>
NoRow == [k \in 0..(gl_width + LineMax) |-> " "]
NoLine == [buf |-> Empty, cnt |-> 0, pos |-> 0, shift |-> 0, left |-> FALSE,
           right |-> FALSE, row |-> NoRow, col |-> 0]

-----------------------------------------------------------------------------
(* The terminal                                                             *)

Back(g, n) == [g EXCEPT !.col = IF @ < n THEN 0 ELSE @ - n]
Put(g, text) ==
  [g EXCEPT !.row = [k \in DOMAIN @ |-> IF k >= g.col /\ k < g.col + Len(text)
                                        THEN text[k - g.col + 1] ELSE @[k]],
            !.col = @ + Len(text)]
Blanks(n) == [k \in 1..n |-> " "]
\* gl_buf[from] .. gl_buf[to - 1]
Piece(g, from, to) == SubSeq(g.buf, from + 1, to)

Extent(g) == IF g.right THEN gl_width - 1 ELSE g.cnt - g.shift

\* The cursor goes to its place, over characters that stand there already.
Move(g, at, cursor) ==
  [(IF at > cursor THEN Back(g, at - cursor) ELSE Put(g, Piece(g, at, cursor)))
     EXCEPT !.pos = cursor]

\* Mutant: what stood behind a line that has become shorter is left there.
Redraw_NoPad(g, left, backup, old, cursor) ==
  LET right == IF g.right THEN g.shift + gl_width - 2 ELSE g.cnt
      mark == left = g.shift /\ g.left
      drawn == Put(Back(g, backup),
                   (IF mark THEN <<"$">> ELSE <<>>)
                   \o Piece(g, IF mark THEN left + 1 ELSE left, right)
                   \o (IF g.right THEN <<"$">> ELSE <<>>))
  IN Move(drawn, IF g.right THEN right + 1 ELSE right, cursor)

\* What gl_fixup() writes from left on; old is how much stood there.
Redraw(g, left, backup, old, cursor) ==
  LET right == IF g.right THEN g.shift + gl_width - 2 ELSE g.cnt
      pad == IF old > Extent(g) THEN old - Extent(g) ELSE 0
      mark == left = g.shift /\ g.left
      drawn == Put(Back(g, backup),
                   (IF mark THEN <<"$">> ELSE <<>>)
                   \o Piece(g, IF mark THEN left + 1 ELSE left, right)
                   \o (IF g.right THEN <<"$">> ELSE Blanks(pad)))
  IN Move(drawn, IF g.right THEN right + 1 ELSE right + pad, cursor)

\* gl_fixup(): change is -1, or where buf has changed.
gl_fixup(g, change, to) ==
  LET old == Extent(g)
      g1 == [g EXCEPT !.cnt = IF change >= 0 THEN Len(g.buf) ELSE @]
      from == IF change > g1.cnt THEN g1.cnt ELSE change
      cursor == IF to > g1.cnt THEN g1.cnt ELSE IF to < 0 THEN 0 ELSE to
      extra == IF g.right \/ (g.left /\ cursor < g.shift + gl_width - SCROLL \div 2)
               THEN 2 ELSE 0
      far == cursor + extra + SCROLL - gl_width
      shift == IF far > 0 THEN (far \div SCROLL) * SCROLL ELSE 0
      right == g1.cnt > shift + gl_width - 1
      scrolled == [g1 EXCEPT !.shift = shift, !.left = shift > 0, !.right = right]
      changed == [g1 EXCEPT !.right = right]
      outside == from < g.shift + (IF g.left THEN 1 ELSE 0)
  IN IF change = -1 /\ to = 0 /\ g.buf = Empty
     THEN [g EXCEPT !.shift = 0, !.left = FALSE, !.right = FALSE]
     ELSE IF is_passwd THEN [g1 EXCEPT !.pos = cursor]
     ELSE IF shift # g.shift THEN Redraw(scrolled, shift, g.pos - g.shift, old, cursor)
     ELSE IF change >= 0 /\ outside
     THEN Redraw(changed, g.shift, g.pos - g.shift, old, cursor)
     ELSE IF change >= 0 THEN Redraw(changed, from, g.pos - from, old, cursor)
     ELSE Move(g1, g.pos, cursor)

-----------------------------------------------------------------------------
(* Editing                                                                  *)

Insert(g, text) == [g EXCEPT !.buf = SubSeq(@, 1, g.pos) \o text \o SubSeq(@, g.pos + 1, Len(@))]
Delete(g, from, to) == [g EXCEPT !.buf = SubSeq(@, 1, from) \o SubSeq(@, to + 1, Len(@))]

gl_addchar(g, c) == gl_fixup(Insert(g, <<c>>), g.pos, g.pos + 1)

gl_tab(g) ==
  LET count == TABSIZE - ((PromptLen + g.pos) % TABSIZE)
  IN gl_fixup(Insert(g, Blanks(count)), g.pos, g.pos + count)

gl_del(g, loc) ==
  IF (loc = -1 /\ g.pos > 0) \/ (loc = 0 /\ g.pos < g.cnt)
  THEN gl_fixup(Delete(g, g.pos + loc, g.pos + loc + 1), g.pos + loc, g.pos + loc) ELSE g

gl_kill(g) ==
  IF g.pos < g.cnt THEN gl_fixup(Delete(g, g.pos, g.cnt), g.pos, g.pos) ELSE g

\* How far back from i the characters are Over: blanks, graphs, then a word.
Skip(g, i, Over(_)) ==
  LET f[j \in 0..i] == IF j = 0 \/ ~Over(g.buf[j]) THEN j ELSE f[j - 1] IN f[i]
gl_kill_back_word(g) ==
  LET i == Skip(g, Skip(g, Skip(g, g.pos, LAMBDA c : c = " "),
                        LAMBDA c : c = "/"), LAMBDA c : c \notin {"/", " "})
  IN IF i = g.pos THEN g
     ELSE gl_fixup(Delete(gl_fixup(g, -1, i), i, g.pos), i, i)

-----------------------------------------------------------------------------
(* The history                                                              *)

None == <<"no line">>
Blank(text) == \A i \in DOMAIN text : text[i] = " "
Next_(k) == (k + 1) % HIST_SIZE

hist_add ==
  IF Blank(gl.buf) THEN /\ hist_pos' = hist_last
                        /\ UNCHANGED <<input_history, hist_last, typed>>
  ELSE /\ input_history' = [input_history EXCEPT ![hist_last] = gl.buf,
                                                 ![Next_(hist_last)] = None]
       /\ hist_last' = Next_(hist_last)
       /\ hist_pos' = hist_last'
       /\ typed' = Append(typed, gl.buf)

Show(k) == gl' = gl_fixup([gl EXCEPT !.buf = input_history[k]], 0, Len(input_history[k]))

hist_prev ==
  LET next == (hist_pos - 1 + HIST_SIZE) % HIST_SIZE
  IN IF next # hist_last /\ input_history[next] # None
     THEN /\ hist_pos' = next
          /\ Show(next)
     ELSE /\ gl' = gl_fixup(gl, 0, gl.cnt)
          /\ UNCHANGED hist_pos

hist_next ==
  /\ hist_pos' = IF hist_pos # hist_last THEN Next_(hist_pos) ELSE hist_pos
  /\ IF hist_pos # hist_last /\ input_history[hist_pos'] # None THEN Show(hist_pos')
     ELSE IF hist_pos # hist_last THEN gl' = gl_fixup([gl EXCEPT !.buf = Empty], 0, 0)
     ELSE gl' = gl_fixup(gl, 0, gl.cnt)

-----------------------------------------------------------------------------
(* tin_getline()                                                            *)

Init ==
  /\ line = "closed"
  /\ gl = NoLine
  /\ gl_max \in Limits
  /\ is_passwd = FALSE
  /\ input_history = [k \in 0..(HIST_SIZE - 1) |-> None]
  /\ hist_last = 0
  /\ hist_pos = 0
  /\ typed = <<>>

histVars == <<input_history, hist_last, hist_pos, typed>>

\* A prompt with nothing in its line yet.
Open(passwd) ==
  /\ line = "closed"
  /\ line' = "open"
  /\ gl' = NoLine
  /\ is_passwd' = passwd
  /\ UNCHANGED <<gl_max, histVars>>

Keep == UNCHANGED <<line, gl_max, is_passwd>>
Edit(g) == /\ line = "open" /\ Len(g.buf) <= LineMax
           /\ gl' = g
           /\ Keep
           /\ UNCHANGED histVars

Printable == \E c \in Chars : gl.cnt < gl_max /\ Edit(gl_addchar(gl, c))
InsKey == gl_max > 1 /\ Edit(gl_addchar(gl, " "))  \* bound: a short prompt is left short
TabKey == gl_max > 1 /\ Edit(gl_tab(gl))
Left == Edit(gl_fixup(gl, -1, gl.pos - 1))
Right == Edit(gl_fixup(gl, -1, gl.pos + 1))
Home == Edit(gl_fixup(gl, -1, 0))
End == Edit(gl_fixup(gl, -1, gl.cnt))
Rubout == Edit(gl_del(gl, -1))
DeleteKey == Edit(gl_del(gl, 0))
KillWord == Edit(gl_kill_back_word(gl))
KillLine == Edit(gl_kill(gl_fixup(gl, -1, 0)))
KillRest == Edit(gl_kill(gl))
Previous == line = "open" /\ hist_prev /\ Keep /\ UNCHANGED <<input_history, hist_last, typed>>
Following == line = "open" /\ hist_next /\ Keep /\ UNCHANGED <<input_history, hist_last, typed>>

\* ENTER; the caller takes the line.
Enter ==
  /\ line = "open" /\ Len(typed) < MaxTyped
  /\ gl_max = 1 \* bound: long lines are not entered
  /\ hist_add
  /\ line' = "closed"
  /\ gl' = NoLine
  /\ UNCHANGED <<gl_max, is_passwd>>

\* ESC, or CTRL-D in an empty line: the place in the history stays.
Abort ==
  /\ line = "open"
  /\ line' = "closed"
  /\ gl' = NoLine
  /\ UNCHANGED <<gl_max, is_passwd, histVars>>

\* read_input_history_file(): slot 0 is taken for none, so that an empty slot behind
\* it is preferred.
FreeSlot(history) ==
  LET empty == {k \in DOMAIN history : history[k] = None}
  IN IF empty \subseteq {0} THEN 0 ELSE Min(empty \ {0})

\* tin ends, the history is written to its file, an empty line for an empty slot,
\* and the next tin reads it.
Restart ==
  /\ line = "closed"
  /\ hist_last' = FreeSlot(input_history)
  /\ hist_pos' = hist_last'
  /\ UNCHANGED <<line, gl, gl_max, is_passwd, input_history, typed>>

Key == \/ Printable \/ InsKey \/ TabKey
       \/ Left \/ Right \/ Home \/ End
       \/ Rubout \/ DeleteKey \/ KillWord \/ KillLine \/ KillRest
       \/ Previous \/ Following
       \/ Enter \/ Abort
Next == (\E passwd \in BOOLEAN : Open(passwd)) \/ Key \/ Restart
Spec == Init /\ [][Next]_editVars

-----------------------------------------------------------------------------
(* Properties                                                               *)

\* What the terminal shows is the window of the line that gl_fixup() believes
\* it shows, with "$" where text is cut off, and the cursor stands on gl_pos,
\* inside the window: whatever was inserted, killed or scrolled before.
Window(k) ==
  LET at == gl.shift + k
  IN IF k = 0 /\ gl.left THEN "$"
     ELSE IF gl.right /\ k = gl_width - 2 THEN "$"
     ELSE IF at < gl.cnt /\ (gl.right => k < gl_width - 2) THEN gl.buf[at + 1] ELSE " "
ScreenShowsLine ==
  /\ gl.cnt = Len(gl.buf) /\ gl.pos \in 0..gl.cnt
  /\ ~is_passwd => /\ gl.row = [k \in DOMAIN gl.row |-> Window(k)]
                   /\ gl.col = gl.pos - gl.shift /\ gl.col \in 0..(gl_width - 1)
                   /\ gl.left = (gl.shift > 0)

\* The history is the last HIST_SIZE - 1 lines that were entered, in order, and
\* the place in it is one of them or the end, also after prompts were given up and
\* in the next tin.
HistoryIsTyped ==
  LET Ago(n) == (hist_last - n + HIST_SIZE) % HIST_SIZE
      kept == IF Len(typed) < HIST_SIZE - 1 THEN Len(typed) ELSE HIST_SIZE - 1
  IN /\ \A n \in 1..kept : input_history[Ago(n)] = typed[Len(typed) + 1 - n]
     /\ \A n \in (kept + 1)..HIST_SIZE : input_history[Ago(n)] = None
     /\ \E n \in 0..kept : hist_pos = Ago(n)

=============================================================================
