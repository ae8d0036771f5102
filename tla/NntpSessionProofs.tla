--------------------------- MODULE NntpSessionProofs ---------------------------
(***************************************************************************)
(* The connection to the news server (NntpSession): what its calls return  *)
(* answers what they asked, nothing is left unread between two operations, *)
(* articles come from the group the user is in and postings are reported   *)
(* as they went, for any server that asks for any authentication, any      *)
(* number of operations, of failures and of calls nested by reconnecting.  *)
(***************************************************************************)
EXTENDS NntpSession, TLAPS

-----------------------------------------------------------------------------
(* The inductive invariant *)

\* LISTGROUP and ARTICLE are answered with a text.
Textual(c) == c.verb \in {"LISTGROUP", "ARTICLE"}
GroupVerb(c) == c.verb \in {"LISTGROUP", "GROUP"}

\* The line ends an answer.
Final(l) == l.code # "line" /\ ~(l.code = "ok" /\ Textual(l.to))

\* A command that some call may send again: of the group the user is in, and
\* ARTICLE only inside of it.
Sendable(c, g, in) ==
  /\ c \in Commands /\ c.verb # "article text"
  /\ IF GroupVerb(c) THEN c.group = g ELSE c.group = NoGroup
  /\ c.verb = "ARTICLE" => in

\* A call that waits for another to return
AsksCommand(f) == \/ f.fn = "open" /\ f.pc \in {"greet", "mode", "mode2", "xover", "over"}
                  \/ f.fn = "caller" /\ f.pc \in {"status", "group"}
                  \/ f.fn = "post" /\ f.pc = "status"
AsksAuth(f) == \/ f.fn = "open" /\ f.pc = "force"
               \/ f.fn \in {"command", "post"} /\ f.pc = "auth"

\* A call that reads
Reads(f) == \/ f.fn = "command" /\ f.pc \in {"status", "again"}
            \/ f.fn = "auth"
            \/ f.fn = "caller" /\ f.pc \in {"lines", "astray"}
            \/ f.fn = "post" /\ f.pc = "verdict"

\* The command that a call asked nntp_command() for
CommandOf(f) ==
  CASE f.pc = "greet" -> NoCommand
    [] f.pc \in {"mode", "mode2"} -> ModeReader
    [] f.pc = "xover" -> Cmd("XOVER")
    [] f.pc = "over" -> Cmd("OVER")
    [] f.pc = "group" -> GroupCmd("GROUP", f.cmd.group)
    [] f.fn = "post" -> Post
    [] OTHER -> f.cmd

\* A call by itself; lo, g, in and to stand for lost, glob_group, inside, told.
FrameOK(f, lo, g, in, to) ==
  /\ f \in Calls
  /\ Sendable(f.cmd, g, in) /\ Sendable(f.buf, g, in)
  /\ AsksCommand(f) \/ AsksAuth(f) \/ Reads(f)
     \/ (f.fn = "open" /\ f.pc \in {"connect", "rejoin"})
  /\ f.fn = "auth" => f.pc \in {"generic", "user", "pass"}
  /\ f.fn = "caller" => Textual(f.cmd) /\ g # NoGroup
  /\ f.fn = "caller" /\ f.pc = "group" => GroupVerb(f.cmd)
  /\ f.fn = "post" => to = "nothing"
  /\ f.fn = "command" /\ f.pc = "auth" =>
       /\ lo \/ (f.buf = f.cmd /\ f.buf # NoCommand)
       /\ Textual(f.buf) => f.buf = f.cmd

\* Call f returns to call h. A reconnection sends what the interrupted read
\* waits for, but for the reads "lost" remembers; and a command that brings a
\* text in no case to a read that waits for something else.
Over(f, h, lo) ==
  \/ /\ f.fn = "open" /\ Reads(h)
     /\ lo \/ (f.buf = Awaited(h) /\ f.buf # NoCommand)
     /\ Textual(f.buf) => f.buf = Awaited(h)
  \/ f.fn = "command" /\ AsksCommand(h) /\ f.cmd = CommandOf(h)
  \/ f.fn = "auth" /\ AsksAuth(h)

\* The outermost call
Outermost(f, in) ==
  \/ f.fn = "open" /\ ~in
  \/ f.fn \in {"caller", "post"}
  \/ f.fn = "command" /\ f.cmd = Quit

Frames(s, lo, g, in, to) ==
  /\ s \in Seq(Calls)
  /\ \A i \in 1..Len(s) : FrameOK(s[i], lo, g, in, to)
  /\ \A i \in 1..Len(s) : IF i = Len(s) THEN Outermost(s[i], in)
                          ELSE Over(s[i], s[i + 1], lo)

Afloat(s) == \A i \in 1..Len(s) : s[i].fn # "open"

\* A line of an answer; the other parameters stand for the connection, the
\* server and what the client knows.
LineOK(l, cn, sv, lo, g, in, ac) ==
  /\ l.to = NoCommand => l.code \in {"ok", "refused"}
  /\ l.code = "refused" => cn # "up"
  /\ l.code = "cont" => l.to = Post
  /\ l.to.verb = "article text" /\ l.code = "ok" => ac > 0
  /\ l.code \in {"line", "dot"} => Textual(l.to)
  /\ l.to.verb = "ARTICLE" =>
       in /\ (l.group = g \/ (l.code \notin {"ok", "line", "dot"} /\ (l.denied \/ lo)))
  /\ GroupVerb(l.to) /\ l.code \in {"ok", "line", "dot"} /\ cn = "up" => sv.group = g

\* What is unread is one answer, cut off at the end if the connection is gone.
OneAnswer(w, cn) ==
  /\ \A i \in 1..Len(w) : i < Len(w) => ~Final(w[i])
  /\ \A i \in 1..Len(w) : i > 1 => w[i].code \in {"line", "dot"}
  /\ w # <<>> /\ cn = "up" => Final(w[Len(w)])

WireOK ==
  /\ OneAnswer(wire, conn)
  /\ \A i \in 1..Len(wire) : LineOK(wire[i], conn, server, lost, glob_group, inside, accepted)

\* The innermost call reads.
ReadingOK ==
  /\ \A i \in 1..Len(wire) :
       wire[i].to = last_put \/ (Top.pc = "verdict" /\ wire[i].to = Text)
  /\ Textual(last_put) => last_put = Awaited(Top)
  /\ Top.fn # "caller" /\ wire # <<>> => wire[1].code \notin {"line", "dot"}
  /\ ~lost =>
       /\ \/ last_put = Awaited(Top)
          \/ Top.pc = "verdict"
          \/ wire = <<>> /\ conn # "up"
       /\ Top.pc = "verdict" => \A i \in 1..Len(wire) : wire[i].to = Text
       /\ conn = "up" /\ Top.pc # "astray" => wire # <<>>

\* The innermost call goes on after a call that returned: nothing is unread,
\* or the text that follows the status.
TextFollows ==
  /\ Top.fn = "caller" /\ Top.pc = "status" /\ ret.code = "ok"
  /\ ret.to = Top.cmd /\ last_put = Top.cmd
  /\ \A i \in 1..Len(wire) : wire[i].to = Top.cmd /\ wire[i].code \in {"line", "dot"}

ReturnedOK ==
  /\ wire = <<>> \/ TextFollows
  /\ Textual(last_put) => Top.fn = "caller" /\ Top.pc = "status" /\ last_put = Top.cmd
  /\ ~lost /\ Top.fn = "caller" /\ Top.pc = "status" =>
       /\ ret.to = Top.cmd /\ last_put = Top.cmd
       /\ ret.code = "ok" /\ conn = "up" => wire # <<>>
  /\ ~lost /\ Top.pc = "greet" => ret.code \in {"ok", "refused"}
  /\ ~lost /\ Top.fn = "post" /\ Top.pc = "status" /\ ret.code = "cont" /\ conn = "up"
       => server.article

TopOK ==
  /\ stack = <<>> => wire = <<>>
  /\ Reading => ReadingOK
  /\ stack # <<>> /\ ret # None /\ (AsksCommand(Top) \/ AsksAuth(Top)) => ReturnedOK
  /\ stack # <<>> /\ Top.fn = "open" /\ Top.pc = "connect" =>
       /\ ret = None /\ wire = <<>> /\ conn = "none"
       /\ Rest # <<>> => last_put = Top.buf
       /\ Rest = <<>> => ~Textual(last_put)
  /\ stack # <<>> /\ Top.fn = "open" /\ Top.pc = "rejoin" =>
       ret = None /\ Rest # <<>> /\ Len(wire) <= 1 /\ ~Textual(last_put)
  /\ stack # <<>> => Sendable(last_put, glob_group, inside)

\* What the last call returned
RetOK ==
  ret # None =>
    /\ ~lost => ret.to = ret.asked
    /\ ret.code = "refused" => conn # "up"
    /\ GroupVerb(ret.to) /\ ret.code = "ok" /\ conn = "up" => server.group = glob_group
    /\ ret.to.verb = "ARTICLE" =>
         \/ ret.group = glob_group
         \/ ret.code \notin {"ok", "line", "dot"} /\ (ret.denied \/ lost)

\* The group of the server and the group the user is in
GroupOK ==
  /\ inside => glob_group # NoGroup
  /\ conn = "up" /\ inside =>
       /\ server.group \in {NoGroup, glob_group}
       /\ phase = "up" /\ ~lost /\ (Afloat(stack) \/ Top.pc = "rejoin") =>
            server.group = glob_group \/ server.denied

\* The article on its way
PostOK ==
  /\ ~lost /\ phase = "up" /\ conn = "up" /\ server.article =>
       /\ stack # <<>>
       /\ \/ Top.fn = "command" /\ wire # <<>> /\ wire[1].code = "cont"
          \/ Top.fn = "post" /\ Top.pc = "status" /\ (ret # None => ret.code = "cont")
  /\ ~lost /\ conn = "up" /\ wire # <<>> /\ wire[1].code = "cont" => server.article
  /\ told = "posted" => accepted > 0
  /\ ~lost /\ told # "posted" /\ accepted # 0 =>
       /\ told = "nothing"
       /\ phase = "up" => /\ stack # <<>> /\ Top.fn = "post" /\ Top.pc = "verdict"
                          /\ \A i \in 1..Len(wire) : wire[i].code = "ok"
  /\ ~lost => accepted <= 1

IInv ==
  /\ TypeOK
  /\ phase = "done" => stack = <<>>
  /\ Frames(stack, lost, glob_group, inside, told)
  /\ WireOK
  /\ phase = "up" => TopOK
  /\ RetOK /\ GroupOK /\ PostOK

-----------------------------------------------------------------------------
(* Sequences *)

\* A sequence with one element in front
LEMMA ConsFacts ==
  ASSUME NEW S, NEW x \in S, NEW t \in Seq(S)
  PROVE  /\ <<x>> \o t \in Seq(S) /\ <<x>> \o t # <<>>
         /\ Len(<<x>> \o t) = Len(t) + 1
         /\ (<<x>> \o t)[1] = x
         /\ \A i \in 1..Len(t) : (<<x>> \o t)[i + 1] = t[i]
         /\ Head(<<x>> \o t) = x /\ Tail(<<x>> \o t) = t
OBVIOUS

\* Two elements in front
LEMMA ConsTwo ==
  ASSUME NEW S, NEW x \in S, NEW y \in S, NEW t \in Seq(S)
  PROVE  <<x, y>> \o t = <<x>> \o (<<y>> \o t)
<1> DEFINE l == <<x, y>> \o t
           r == <<x>> \o (<<y>> \o t)
<1>1. l \in Seq(S) /\ r \in Seq(S) /\ Len(l) = Len(t) + 2 /\ Len(r) = Len(t) + 2
  OBVIOUS
<1>2. \A i \in 1..Len(t) + 2 : l[i] = r[i]
  OBVIOUS
<1> HIDE DEF l, r
<1>3. l = r
  BY <1>1, <1>2
<1>4. QED
  BY <1>3 DEF l, r

\* Emptiness and length
LEMMA EmptyLen ==
  ASSUME NEW S, NEW s \in Seq(S)
  PROVE  Len(s) \in Nat /\ (s = <<>> <=> Len(s) = 0)
OBVIOUS

\* A sequence without its head
LEMMA TailFacts ==
  ASSUME NEW S, NEW s \in Seq(S), s # <<>>
  PROVE  /\ Tail(s) \in Seq(S) /\ Len(Tail(s)) = Len(s) - 1 /\ Len(s) \in Nat \ {0}
         /\ Head(s) = s[1] /\ Head(s) \in S
         /\ \A i \in 1..Len(s) - 1 : Tail(s)[i] = s[i + 1]
         /\ Tail(s) = <<>> <=> Len(s) = 1
<1>1. Len(s) \in Nat \ {0} /\ Head(s) = s[1] /\ Head(s) \in S
  OBVIOUS
<1>2. Tail(s) \in Seq(S) /\ Len(Tail(s)) = Len(s) - 1
  OBVIOUS
<1>3. \A i \in 1..Len(s) - 1 : Tail(s)[i] = s[i + 1]
  OBVIOUS
<1>4. Tail(s) = <<>> <=> Len(Tail(s)) = 0
  BY <1>2, EmptyLen
<1>5. QED
  BY <1>1, <1>2, <1>3, <1>4

-----------------------------------------------------------------------------
(* The stack of calls *)

\* A call on top of others
LEMMA FramesCons ==
  ASSUME NEW lo, NEW g, NEW in, NEW to, NEW f, NEW t,
         Frames(t, lo, g, in, to), FrameOK(f, lo, g, in, to),
         t = <<>> => Outermost(f, in), t # <<>> => Over(f, Head(t), lo)
  PROVE  /\ Frames(<<f>> \o t, lo, g, in, to)
         /\ <<f>> \o t # <<>> /\ Head(<<f>> \o t) = f /\ Tail(<<f>> \o t) = t
<1> DEFINE s == <<f>> \o t
<1>1. f \in Calls /\ t \in Seq(Calls)
  BY DEF Frames, FrameOK
<1>2. /\ s \in Seq(Calls) /\ s # <<>> /\ Len(s) = Len(t) + 1 /\ s[1] = f
      /\ Head(s) = f /\ Tail(s) = t
      /\ \A i \in 1..Len(t) : s[i + 1] = t[i]
  BY <1>1, ConsFacts
<1>3. Len(t) \in Nat /\ (t = <<>> <=> Len(t) = 0) /\ (t # <<>> => Head(t) = t[1])
  BY <1>1
<1> HIDE DEF s
<1>4. ASSUME NEW i \in 1..Len(s) PROVE FrameOK(s[i], lo, g, in, to)
  <2>1. CASE i = 1
    BY <2>1, <1>2
  <2>2. CASE i # 1
    <3>1. i - 1 \in 1..Len(t) /\ s[i] = t[i - 1]
      <4>1. i - 1 \in 1..Len(t) /\ (i - 1) + 1 = i
        BY <2>2, <1>2, <1>3
      <4>2. QED
        BY <4>1, <1>2
    <3>2. QED
      BY <3>1 DEF Frames
  <2>3. QED
    BY <2>1, <2>2
<1>5. ASSUME NEW i \in 1..Len(s)
      PROVE  IF i = Len(s) THEN Outermost(s[i], in) ELSE Over(s[i], s[i + 1], lo)
  <2>1. CASE i = 1
    <3>1. CASE t = <<>>
      BY <3>1, <2>1, <1>2, <1>3
    <3>2. CASE t # <<>>
      <4>1. 1 \in 1..Len(t) /\ s[1 + 1] = t[1] /\ i # Len(s)
        BY <3>2, <2>1, <1>2, <1>3
      <4>2. QED
        BY <4>1, <3>2, <2>1, <1>2, <1>3
    <3>3. QED
      BY <3>1, <3>2
  <2>2. CASE i # 1
    <3> DEFINE j == i - 1
    <3>1. j \in 1..Len(t) /\ j + 1 = i /\ (i = Len(s) <=> j = Len(t))
      BY <2>2, <1>2, <1>3
    <3>2. s[i] = t[j]
      BY <3>1, <1>2
    <3>3. i # Len(s) => i \in 1..Len(t) /\ s[i + 1] = t[i]
      BY <3>1, <1>2, <1>3
    <3>4. IF j = Len(t) THEN Outermost(t[j], in) ELSE Over(t[j], t[j + 1], lo)
      BY <3>1 DEF Frames
    <3> HIDE DEF j
    <3>5. QED
      BY <3>1, <3>2, <3>3, <3>4
  <2>3. QED
    BY <2>1, <2>2
<1>6. Frames(s, lo, g, in, to)
  BY <1>2, <1>4, <1>5 DEF Frames
<1>7. QED
  BY <1>2, <1>6 DEF s

\* The stack without its innermost call, and how this one stands to the next
LEMMA FramesTail ==
  ASSUME NEW lo, NEW g, NEW in, NEW to, NEW s, Frames(s, lo, g, in, to), s # <<>>
  PROVE  /\ Frames(Tail(s), lo, g, in, to)
         /\ FrameOK(Head(s), lo, g, in, to)
         /\ Tail(s) = <<>> => Outermost(Head(s), in)
         /\ Tail(s) # <<>> => Over(Head(s), Head(Tail(s)), lo)
<1> DEFINE t == Tail(s)
<1>1. s \in Seq(Calls)
  BY DEF Frames
<1>2. /\ t \in Seq(Calls) /\ Len(t) = Len(s) - 1 /\ Len(s) \in Nat \ {0} /\ Head(s) = s[1]
      /\ \A i \in 1..Len(s) - 1 : t[i] = s[i + 1]
      /\ t = <<>> <=> Len(s) = 1
  BY <1>1, TailFacts
<1>3. t # <<>> => Head(t) = t[1] /\ t[1] = s[2]
  <2>1. ASSUME t # <<>> PROVE Head(t) = t[1] /\ 1 \in 1..Len(s) - 1
    BY <2>1, <1>2
  <2>2. QED
    BY <2>1, <1>2
<1> HIDE DEF t
<1>4. 1 \in 1..Len(s) /\ FrameOK(s[1], lo, g, in, to)
  BY <1>2 DEF Frames
<1>5. t = <<>> => Outermost(s[1], in)
  BY <1>2, <1>4 DEF Frames
<1>6. t # <<>> => Over(s[1], s[2], lo)
  <2>1. t # <<>> => 1 # Len(s)
    BY <1>2
  <2>2. 1 # Len(s) => Over(s[1], s[1 + 1], lo)
    BY <1>4 DEF Frames
  <2>3. QED
    BY <2>1, <2>2
<1>7. ASSUME NEW i \in 1..Len(t)
      PROVE  /\ FrameOK(t[i], lo, g, in, to)
             /\ IF i = Len(t) THEN Outermost(t[i], in) ELSE Over(t[i], t[i + 1], lo)
  <2> DEFINE j == i + 1
  <2>1. j \in 1..Len(s) /\ i \in 1..Len(s) - 1 /\ (j = Len(s) <=> i = Len(t))
    BY <1>2
  <2>2. t[i] = s[j] /\ (i # Len(t) => t[i + 1] = s[j + 1])
    BY <2>1, <1>2
  <2>3. /\ FrameOK(s[j], lo, g, in, to)
        /\ IF j = Len(s) THEN Outermost(s[j], in) ELSE Over(s[j], s[j + 1], lo)
    BY <2>1 DEF Frames
  <2> HIDE DEF j
  <2>4. QED
    BY <2>1, <2>2, <2>3
<1>8. Frames(t, lo, g, in, to)
  BY <1>2, <1>7 DEF Frames
<1>9. QED
  BY <1>2, <1>3, <1>4, <1>5, <1>6, <1>8 DEF t

\* No calls
LEMMA FramesNone ==
  ASSUME NEW lo, NEW g, NEW in, NEW to
  PROVE  Frames(<<>>, lo, g, in, to) /\ Afloat(<<>>)
BY DEF Frames, Afloat

\* More may be lost.
LEMMA FramesLost ==
  ASSUME NEW lo \in BOOLEAN, NEW lp \in BOOLEAN, NEW g, NEW in, NEW to, NEW s,
         Frames(s, lo, g, in, to), lo => lp
  PROVE  Frames(s, lp, g, in, to)
BY DEF Frames, FrameOK, Over

\* Afloat, call by call
LEMMA AfloatCons ==
  ASSUME NEW f \in Calls, NEW t \in Seq(Calls)
  PROVE  Afloat(<<f>> \o t) <=> f.fn # "open" /\ Afloat(t)
<1> DEFINE s == <<f>> \o t
<1>1. /\ Len(s) = Len(t) + 1 /\ s[1] = f /\ Len(t) \in Nat
      /\ \A i \in 1..Len(t) : s[i + 1] = t[i]
  BY ConsFacts
<1> HIDE DEF s
<1>2. ASSUME Afloat(s) PROVE f.fn # "open" /\ Afloat(t)
  <2>1. 1 \in 1..Len(s) /\ \A i \in 1..Len(t) : i + 1 \in 1..Len(s)
    BY <1>1
  <2>2. QED
    BY <2>1, <1>1, <1>2 DEF Afloat
<1>3. ASSUME f.fn # "open", Afloat(t) PROVE Afloat(s)
  <2>1. ASSUME NEW i \in 1..Len(s), i # 1
        PROVE  i - 1 \in 1..Len(t) /\ s[i] = t[i - 1]
    <3>1. i - 1 \in 1..Len(t) /\ (i - 1) + 1 = i
      BY <2>1, <1>1
    <3>2. QED
      BY <3>1, <1>1
  <2>2. QED
    BY <2>1, <1>1, <1>3 DEF Afloat
<1>4. QED
  BY <1>2, <1>3 DEF s

\* The stack as its head and the rest
LEMMA AfloatTail ==
  ASSUME NEW s \in Seq(Calls), s # <<>>
  PROVE  Afloat(s) <=> Head(s).fn # "open" /\ Afloat(Tail(s))
<1>1. Head(s) \in Calls /\ Tail(s) \in Seq(Calls) /\ s = <<Head(s)>> \o Tail(s)
  OBVIOUS
<1>2. QED
  BY <1>1, AfloatCons

\* Only reconnections are below a call of the user's and above others.
LEMMA CallerIsLast ==
  ASSUME NEW lo, NEW g, NEW in, NEW to, NEW s, Frames(s, lo, g, in, to), s # <<>>,
         Head(s).fn \in {"caller", "post"}
  PROVE  Tail(s) = <<>> /\ Afloat(s)
<1>1. Tail(s) = <<>>
  BY FramesTail DEF Over
<1>2. QED
  BY <1>1, AfloatTail, FramesNone DEF Frames

\* A command that brings a text was asked for by the user, outside of any
\* reconnection.
LEMMA TextIsUsers ==
  ASSUME NEW lo, NEW g, NEW in, NEW to, NEW s, Frames(s, lo, g, in, to), s # <<>>,
         Head(s).fn = "command", Textual(Head(s).cmd)
  PROVE  /\ Tail(s) # <<>> /\ Head(Tail(s)).fn = "caller" /\ Head(Tail(s)).pc = "status"
         /\ Head(Tail(s)).cmd = Head(s).cmd
         /\ Afloat(s)
<1>1. Tail(s) # <<>>
  <2>1. Head(s).fn # "open" /\ Head(s).fn \notin {"caller", "post"} /\ Head(s).cmd # Quit
    BY DEF Textual, Quit, Cmd
  <2>2. ~Outermost(Head(s), in)
    BY <2>1 DEF Outermost
  <2>3. QED
    BY <2>2, FramesTail
<1>2. LET h == Head(Tail(s))
      IN AsksCommand(h) /\ Textual(CommandOf(h)) /\ Head(s).cmd = CommandOf(h)
  BY <1>1, FramesTail DEF Over
<1>3. LET h == Head(Tail(s)) IN h.fn = "caller" /\ h.pc = "status" /\ h.cmd = Head(s).cmd
  BY <1>2 DEF AsksCommand, CommandOf, Textual, NoCommand, ModeReader, Post, Cmd, GroupCmd
<1>4. Afloat(Tail(s))
  BY <1>1, <1>3, FramesTail, CallerIsLast
<1>5. QED
  BY <1>1, <1>3, <1>4, AfloatTail DEF Frames

-----------------------------------------------------------------------------
(* What is on the wire *)

\* Nothing unread
LEMMA NothingUnread == \A cn : OneAnswer(<<>>, cn)
BY DEF OneAnswer

\* A line is read.
LEMMA LineRead ==
  ASSUME NEW w \in Seq(Answers), NEW cn, OneAnswer(w, cn), w # <<>>
  PROVE  /\ Tail(w) \in Seq(Answers) /\ Head(w) = w[1] /\ w[1] \in Answers /\ 1 \in 1..Len(w)
         /\ OneAnswer(Tail(w), cn)
         /\ \A i \in 1..Len(Tail(w)) : /\ i + 1 \in 1..Len(w) /\ Tail(w)[i] = w[i + 1]
                                       /\ Tail(w)[i].code \in {"line", "dot"}
         /\ Final(w[1]) => Tail(w) = <<>>
         /\ ~Final(w[1]) /\ cn = "up" => Tail(w) # <<>>
<1> DEFINE t == Tail(w)
           n == Len(w)
<1>1. /\ t \in Seq(Answers) /\ Len(t) = n - 1 /\ n \in Nat \ {0}
      /\ Head(w) = w[1] /\ Head(w) \in Answers
      /\ \A i \in 1..n - 1 : t[i] = w[i + 1]
  BY TailFacts
<1>2. t = <<>> <=> n = 1
  BY TailFacts
<1>3. /\ \A i \in 1..n : i < n => ~Final(w[i])
      /\ \A i \in 1..n : i > 1 => w[i].code \in {"line", "dot"}
      /\ cn = "up" => Final(w[n])
  BY DEF OneAnswer
<1> HIDE DEF t, n
<1>4. \A i \in 1..Len(t) : i \in 1..n - 1 /\ i + 1 \in 1..n /\ i + 1 > 1 /\ t[i] = w[i + 1]
  BY <1>1
<1>5. \A i \in 1..Len(t) : t[i].code \in {"line", "dot"} /\ (i < Len(t) => ~Final(t[i]))
  <2> TAKE i \in 1..Len(t)
  <2> DEFINE j == i + 1
  <2>1. j \in 1..n /\ j > 1 /\ t[i] = w[j] /\ (i < Len(t) => j < n)
    BY <1>1, <1>4
  <2> HIDE DEF j
  <2>2. QED
    BY <2>1, <1>3
<1>6. ASSUME t # <<>>, cn = "up" PROVE Final(t[Len(t)])
  <2>1. Len(t) \in 1..Len(t) /\ Len(t) + 1 = n
    BY <1>1, <1>2, <1>6
  <2>2. t[Len(t)] = w[n]
    BY <2>1, <1>4
  <2>3. QED
    BY <2>2, <1>3, <1>6
<1>7. OneAnswer(t, cn)
  BY <1>5, <1>6 DEF OneAnswer
<1>8. 1 \in 1..n /\ (n # 1 => 1 < n)
  BY <1>1
<1>9. (Final(w[1]) => n = 1) /\ (n = 1 /\ cn = "up" => Final(w[1]))
  BY <1>3, <1>8
<1>10. QED
  BY <1>1, <1>2, <1>4, <1>5, <1>7, <1>8, <1>9 DEF t, n

\* An answer of one line
LEMMA OneLine ==
  ASSUME NEW w \in Seq(Answers), NEW cn, OneAnswer(w, cn),
         \A i \in 1..Len(w) : /\ w[i].code \in {"line", "dot"} => Textual(w[i].to)
                              /\ ~Textual(w[i].to)
  PROVE  Len(w) <= 1 /\ (w # <<>> => Tail(w) = <<>> /\ Len(w) = 1)
<1>1. Len(w) \in Nat /\ (w = <<>> <=> Len(w) = 0)
  BY EmptyLen
<1>2. ~(2 \in 1..Len(w))
  BY DEF OneAnswer
<1>3. Len(w) <= 1
  BY <1>1, <1>2
<1>4. ASSUME w # <<>> PROVE Len(w) = 1
  <2>1. Len(w) # 0
    BY <1>1, <1>4
  <2>2. \A n \in Nat : n <= 1 /\ n # 0 => n = 1
    OBVIOUS
  <2>3. QED
    BY <1>1, <1>3, <2>1, <2>2
<1>5. QED
  BY <1>3, <1>4, TailFacts

\* The answer that a server in state s gives to command c
LEMMA LinesFacts ==
  ASSUME NEW c \in Commands, NEW code \in Codes \ {"line", "dot"}, NEW s \in Servers, NEW cn,
         NEW ls, ls = Lines(c, code, s)
  PROVE  /\ ls \in Seq(Answers) /\ ls # <<>> /\ ls[1].code = code
         /\ OneAnswer(ls, cn)
         /\ \A i \in 1..Len(ls) : /\ ls[i] = Line(c, ls[i].code, s)
                                  /\ ls[i].code = code \/ (code = "ok" /\ Textual(c))
                                  /\ ls[i].code \in {code, "line", "dot"}
<1>1. \A k \in Codes : /\ Line(c, k, s) \in Answers /\ Line(c, k, s).code = k
                       /\ Line(c, k, s).to = c
  BY DEF Line, Answers, Servers
<1>2. CASE Textual(c) /\ code = "ok"
  <2> DEFINE w == <<Line(c, "ok", s), Line(c, "line", s), Line(c, "dot", s)>>
  <2>1. Lines(c, code, s) = w
    BY <1>2 DEF Lines, Textual
  <2>2. {"ok", "line", "dot"} \subseteq Codes
    BY DEF Codes
  <2>3. w \in Seq(Answers) /\ w # <<>> /\ Len(w) = 3
    BY <2>2, <1>1
  <2>4. /\ w[1] = Line(c, "ok", s) /\ w[2] = Line(c, "line", s) /\ w[3] = Line(c, "dot", s)
    OBVIOUS
  <2> HIDE DEF w
  <2>5. \A i \in 1..Len(w) : i = 1 \/ i = 2 \/ i = 3
    BY <2>3
  <2>6. w[1].code = "ok" /\ w[2].code = "line" /\ w[3].code = "dot"
    BY <2>2, <2>4, <1>1
  <2>7. ~Final(w[1]) /\ ~Final(w[2]) /\ Final(w[3])
    BY <2>2, <2>4, <2>6, <1>1, <1>2 DEF Final
  <2>8. OneAnswer(w, cn)
    BY <2>3, <2>5, <2>6, <2>7 DEF OneAnswer
  <2>9. QED
    BY <2>1, <2>3, <2>4, <2>5, <2>6, <2>8, <1>2
<1>3. CASE ~(Textual(c) /\ code = "ok")
  <2> DEFINE w == <<Line(c, code, s)>>
  <2>1. Lines(c, code, s) = w
    BY <1>3 DEF Lines, Textual
  <2>2. w \in Seq(Answers) /\ w # <<>> /\ Len(w) = 1 /\ w[1] = Line(c, code, s)
    BY <1>1
  <2> HIDE DEF w
  <2>3. Final(w[1]) /\ w[1].code = code
    BY <2>2, <1>1, <1>3 DEF Final
  <2>4. OneAnswer(w, cn)
    BY <2>2, <2>3 DEF OneAnswer
  <2>5. QED
    BY <2>1, <2>2, <2>3, <2>4
<1>4. QED
  BY <1>2, <1>3

\* The codes the server answers with
LEMMA ServedFacts ==
  ASSUME NEW c \in Commands, NEW code \in Served(c), c.verb # "article text"
  PROVE  /\ code \in Codes \ {"line", "dot"}
         /\ code = "refused" => c = ModeReader
         /\ code \in {"fault", "refused"} => trouble # Troubles
         /\ code = "cont" => c.verb = "POST"
         /\ code = "ok" /\ c.verb = "ARTICLE" => server.group # NoGroup
<1>1. code \in {"auth", "fault", "refused"} \/ code \in Own(c)
  BY DEF Served
<1>2. Own(c) \subseteq {"ok", "no", "unknown", "more", "cont"}
  BY DEF Own
<1>3. "cont" \in Own(c) => c.verb = "POST"
  BY DEF Own
<1>4. c.verb = "ARTICLE" /\ "ok" \in Own(c) => server.group # NoGroup
  BY DEF Own
<1>5. code \in {"fault", "refused"} => trouble # Troubles /\ (code = "refused" => c = ModeReader)
  BY <1>2 DEF Served
<1>6. QED
  BY <1>1, <1>2, <1>3, <1>4, <1>5 DEF Codes

\* put_server() with nothing unread: what comes of a command
LEMMA DeliverFacts ==
  ASSUME TypeOK, NEW c, Deliver(c, <<>>),
         glob_group' \in Groups \cup {NoGroup},
         Sendable(c, glob_group', inside), inside => glob_group' # NoGroup,
         conn = "up" /\ inside => server.group \in {NoGroup, glob_group'},
         conn = "up" /\ c.verb = "ARTICLE" /\ ~lost' => server.group = glob_group' \/ server.denied
  PROVE  /\ conn' \in {"none", "up", "gone"} /\ (conn' = "up" => conn = "up")
         /\ wire' \in Seq(Answers) /\ server' \in Servers /\ trouble' \in 0..Troubles
         /\ OneAnswer(wire', conn')
         /\ \A i \in 1..Len(wire') : /\ LineOK(wire'[i], conn', server', lost', glob_group', inside, accepted)
                                     /\ wire'[i].to = c
         /\ wire' # <<>> => wire'[1].code \notin {"line", "dot"}
         /\ conn = "up" /\ c # NoCommand /\ ~server.article => wire' # <<>>
         /\ wire' # <<>> /\ wire'[1].code = "cont" => server'.article
         /\ server'.article => \/ wire' # <<>> /\ wire'[1].code = "cont" /\ c = Post
                               \/ server.article
         /\ conn' = "up" /\ inside => server'.group \in {NoGroup, glob_group'}
         /\ server.group = glob_group' \/ server.denied => server'.group = glob_group' \/ server'.denied
         /\ conn = "up" /\ ~server.article /\ c.verb = "GROUP" =>
              server'.group = glob_group' \/ server'.denied
<1>1. CASE conn # "up" \/ c = NoCommand \/ server.article
  <2>1. wire' = <<>> /\ UNCHANGED <<conn, server, trouble>>
    BY <1>1 DEF Deliver
  <2>2. Len(wire') = 0
    BY <2>1
  <2>3. c.verb = "GROUP" => c # NoCommand
    <3>1. NoCommand.verb = ""
      BY DEF NoCommand, Cmd
    <3>2. QED
      BY <3>1
  <2>4. QED
    BY <2>1, <2>2, <2>3, <1>1, NothingUnread DEF TypeOK
<1>2. CASE conn = "up" /\ c # NoCommand /\ ~server.article
  <2>1. PICK code \in Served(c) :
           /\ server' = After(c, code)
           /\ wire' = <<>> \o Lines(c, code, server')
           /\ conn' = IF code = "refused" \/ c = Quit THEN "gone" ELSE conn
           /\ trouble' = IF code \in {"fault", "refused"} THEN trouble + 1 ELSE trouble
    BY <1>2 DEF Deliver
  <2>2. /\ c \in Commands /\ c.verb # "article text"
        /\ GroupVerb(c) => c.group = glob_group'
        /\ ~GroupVerb(c) => c.group = NoGroup
        /\ c.verb = "ARTICLE" => inside
    BY DEF Sendable
  <2>3. /\ code \in Codes \ {"line", "dot"}
        /\ code = "refused" => c = ModeReader
        /\ code \in {"fault", "refused"} => trouble # Troubles
        /\ code = "cont" => c.verb = "POST"
        /\ code = "ok" /\ c.verb = "ARTICLE" => server.group # NoGroup
    BY <2>2, ServedFacts
  <2>4. /\ server \in Servers /\ conn \in {"none", "up", "gone"} /\ trouble \in 0..Troubles
        /\ Troubles \in Nat
    BY NntpAssumption DEF TypeOK, NntpAssumption
  <2>5. /\ server' \in Servers
        /\ server'.article <=> (c = Post /\ code = "cont")
        /\ server'.group = IF GroupVerb(c) /\ code = "ok" THEN c.group ELSE server.group
        /\ server'.denied = IF c.verb = "GROUP" THEN code # "ok" ELSE server.denied
    <3>1. c.group \in Groups \cup {NoGroup}
      BY <2>2 DEF Commands
    <3>2. QED
      BY <2>1, <2>4, <3>1 DEF After, Servers, GroupVerb
  <2>6. /\ wire' = Lines(c, code, server')
        /\ wire' \in Seq(Answers) /\ wire' # <<>> /\ wire'[1].code = code
        /\ OneAnswer(wire', conn')
        /\ \A i \in 1..Len(wire') : /\ wire'[i] = Line(c, wire'[i].code, server')
                                    /\ wire'[i].code = code \/ (code = "ok" /\ Textual(c))
                                    /\ wire'[i].code \in {code, "line", "dot"}
    <3> DEFINE w == Lines(c, code, server')
    <3>0. w = Lines(c, code, server')
      OBVIOUS
    <3> HIDE DEF w
    <3>1. /\ w \in Seq(Answers) /\ w # <<>> /\ w[1].code = code
          /\ OneAnswer(w, conn')
          /\ \A i \in 1..Len(w) : /\ w[i] = Line(c, w[i].code, server')
                                  /\ w[i].code = code \/ (code = "ok" /\ Textual(c))
                                  /\ w[i].code \in {code, "line", "dot"}
      <4>1. c \in Commands /\ code \in Codes \ {"line", "dot"} /\ server' \in Servers
        BY <2>2, <2>3, <2>5
      <4>2. QED
        BY <3>0, <4>1, LinesFacts
    <3>2. wire' = w
      BY <2>1, <3>1 DEF w
    <3>3. QED
      BY <3>1, <3>2 DEF w
  <2>7. c.verb = "POST" => c = Post
    BY <2>2 DEF GroupVerb, Post, Cmd, Commands
  <2>8. trouble' \in 0..Troubles
    BY <2>1, <2>3, <2>4
  <2>9. ASSUME NEW i \in 1..Len(wire')
        PROVE  LineOK(wire'[i], conn', server', lost', glob_group', inside, accepted) /\ wire'[i].to = c
    <3> DEFINE l == wire'[i]
    <3>1. /\ l.to = c /\ l.group = server'.group /\ l.denied = server'.denied
          /\ l.code = code \/ (code = "ok" /\ Textual(c))
          /\ l.code \in {code, "line", "dot"}
      <4>1. Line(c, l.code, server').to = c /\ Line(c, l.code, server').group = server'.group
            /\ Line(c, l.code, server').denied = server'.denied
        BY DEF Line
      <4>2. QED
        BY <4>1, <2>6
    <3> HIDE DEF l
    <3>2. c # NoCommand /\ (code = "refused" => conn' # "up")
      BY <1>2, <2>1
    <3>3. GroupVerb(c) /\ l.code \in {"ok", "line", "dot"} => server'.group = glob_group'
      BY <3>1, <2>2, <2>3, <2>5
    <3>4. c.verb = "ARTICLE" /\ l.code \in {"ok", "line", "dot"} => l.group = glob_group'
      BY <3>1, <1>2, <2>2, <2>3, <2>5 DEF GroupVerb
    <3>5. c.verb = "ARTICLE" => inside /\ (l.group = glob_group' \/ l.denied \/ lost')
      BY <3>1, <1>2, <2>2, <2>5 DEF GroupVerb
    <3>6. QED
      BY <3>1, <3>2, <3>3, <3>4, <3>5, <2>2, <2>3, <2>7 DEF LineOK, l
  <2>10. conn' = "up" /\ inside => server'.group \in {NoGroup, glob_group'}
    BY <1>2, <2>2, <2>5
  <2>11. /\ server.group = glob_group' \/ server.denied => server'.group = glob_group' \/ server'.denied
         /\ c.verb = "GROUP" => server'.group = glob_group' \/ server'.denied
    BY <2>2, <2>5 DEF GroupVerb
  <2>12. server'.article => c = Post /\ code = "cont"
    BY <2>5
  <2>13. code = "cont" => server'.article
    BY <2>3, <2>5, <2>7
  <2>14. conn' \in {"none", "up", "gone"} /\ conn = "up"
    BY <1>2, <2>1, <2>4
  <2>15. QED
    BY <2>3, <2>5, <2>6, <2>8, <2>9, <2>10, <2>11, <2>12, <2>13, <2>14
<1>3. QED
  BY <1>1, <1>2

-----------------------------------------------------------------------------
(* Steps that send a command and go on to read *)

\* authenticate() waits for answers to AUTHINFO.
LEMMA AwaitedAuth ==
  ASSUME NEW f, f.fn = "auth", f.pc \in {"generic", "user", "pass"}
  PROVE  /\ Awaited(f) = Cmd(AuthVerb[f.pc])
         /\ Awaited(f).verb \in {"AUTHINFO GENERIC", "AUTHINFO USER", "AUTHINFO PASS"}
<1>1. \A v : Cmd(v).verb = v
  BY DEF Cmd
<1>2. CASE f.pc = "generic"
  <2>1. Awaited(f) = Cmd(AuthVerb[f.pc]) /\ AuthVerb["generic"] = "AUTHINFO GENERIC"
    BY <1>2 DEF Awaited, AuthVerb
  <2>2. QED
    BY <1>1, <1>2, <2>1
<1>3. CASE f.pc = "user"
  <2>1. Awaited(f) = Cmd(AuthVerb[f.pc]) /\ AuthVerb["user"] = "AUTHINFO USER"
    BY <1>3 DEF Awaited, AuthVerb
  <2>2. QED
    BY <1>1, <1>3, <2>1
<1>4. CASE f.pc = "pass"
  <2>1. Awaited(f) = Cmd(AuthVerb[f.pc]) /\ AuthVerb["pass"] = "AUTHINFO PASS"
    BY <1>4 DEF Awaited, AuthVerb
  <2>2. QED
    BY <1>1, <1>4, <2>1
<1>5. QED
  BY <1>2, <1>3, <1>4

\* Only nntp_command() waits for the answer to POST.
LEMMA AwaitedPost ==
  ASSUME NEW lo, NEW g, NEW in, NEW to, NEW f, FrameOK(f, lo, g, in, to), Reads(f),
         Awaited(f) = Post
  PROVE  f.fn = "command"
<1>1. Post.verb = "POST" /\ Text.verb = "article text" /\ Post # Text
  BY DEF Post, Text, Cmd
<1>2. CASE f.fn = "auth"
  <2>1. f.pc \in {"generic", "user", "pass"}
    BY <1>2 DEF FrameOK
  <2>2. Awaited(f).verb # "POST"
    BY <1>2, <2>1, AwaitedAuth
  <2>3. QED
    BY <1>1, <2>2
<1>3. CASE f.fn = "caller"
  <2>1. Awaited(f) = f.cmd /\ Textual(f.cmd)
    BY <1>3 DEF FrameOK, Awaited, Reads
  <2>2. QED
    BY <1>1, <2>1 DEF Textual
<1>4. CASE f.fn = "post"
  BY <1>1, <1>4 DEF Reads, Awaited
<1>5. QED
  BY <1>2, <1>3, <1>4 DEF Reads

\* The server's group is the user's, or the server refused it.
Joined == conn = "up" /\ inside => server.group = glob_group \/ server.denied

\* A command c is sent, with nothing unread, and the innermost call reads the
\* answer to it.
LEMMA SendStep ==
  ASSUME IInv, phase = "up", NEW c, Deliver(c, <<>>),
         phase' = "up", setup' = setup, accepted' = accepted, told' = told, inside' = inside,
         ops' \in 0..Ops, lost' \in BOOLEAN, lost => lost', ret' = None,
         glob_group' \in Groups \cup {NoGroup}, glob_group' = glob_group \/ ~inside,
         Sendable(c, glob_group', inside),
         Frames(stack', lost', glob_group', inside, told), stack' # <<>>, Reads(Head(stack')),
         ~lost' => c = Awaited(Head(stack')) /\ c # NoCommand,
         Textual(c) => c = Awaited(Head(stack')),
         \/ last_put' = c
         \/ c = NoCommand /\ Sendable(last_put', glob_group', inside) /\ ~Textual(last_put'),
         ~lost' /\ conn = "up" => ~server.article,
         ~lost' /\ (Afloat(stack') \/ c.verb = "ARTICLE") => Joined,
         ~lost' /\ told # "posted" => accepted = 0
  PROVE  IInv'
<1>1. TypeOK /\ WireOK /\ GroupOK /\ PostOK /\ TopOK
  BY DEF IInv
<1>2. /\ inside \in BOOLEAN /\ accepted \in Nat /\ server \in Servers
      /\ told \in {"nothing", "posted", "failed"} /\ setup \in Setups
  BY <1>1 DEF TypeOK
<1>3. inside => glob_group = glob_group' /\ glob_group # NoGroup
  BY <1>1 DEF GroupOK
<1>4. /\ conn' \in {"none", "up", "gone"} /\ (conn' = "up" => conn = "up")
      /\ wire' \in Seq(Answers) /\ server' \in Servers /\ trouble' \in 0..Troubles
      /\ OneAnswer(wire', conn')
      /\ \A i \in 1..Len(wire') :
           LineOK(wire'[i], conn', server', lost', glob_group', inside, accepted)
      /\ \A i \in 1..Len(wire') : wire'[i].to = c
      /\ wire' # <<>> => wire'[1].code \notin {"line", "dot"}
      /\ conn = "up" /\ c # NoCommand /\ ~server.article => wire' # <<>>
      /\ wire' # <<>> /\ wire'[1].code = "cont" => server'.article
      /\ server'.article => \/ wire' # <<>> /\ wire'[1].code = "cont" /\ c = Post
                            \/ server.article
      /\ conn' = "up" /\ inside => server'.group \in {NoGroup, glob_group'}
      /\ server.group = glob_group' \/ server.denied =>
           server'.group = glob_group' \/ server'.denied
  <2>1. inside => glob_group' # NoGroup
    BY <1>3
  <2>2. conn = "up" /\ inside => server.group \in {NoGroup, glob_group'}
    BY <1>1, <1>3 DEF GroupOK
  <2>3. conn = "up" /\ c.verb = "ARTICLE" /\ ~lost' =>
          server.group = glob_group' \/ server.denied
    BY <1>3 DEF Joined, Sendable
  <2>4. QED
    BY <1>1, <2>1, <2>2, <2>3, DeliverFacts
<1>5. Sendable(last_put', glob_group', inside) /\ last_put' \in Commands
  BY DEF Sendable
<1>6. c = NoCommand => wire' = <<>>
  BY DEF Deliver
<1>7. NoCommand.verb = "" /\ ~Textual(NoCommand)
  BY DEF NoCommand, Cmd, Textual
<1> DEFINE h == Head(stack')
<1>8. stack' \in Seq(Calls) /\ FrameOK(h, lost', glob_group', inside, told)
  BY FramesTail DEF Frames
<1> HIDE DEF h
<1>9. Reads(h) /\ h = Head(stack')
  BY DEF h
<1>10. h.pc # "rejoin" /\ h.pc # "connect" /\ ~AsksCommand(h) /\ ~AsksAuth(h) /\ h.fn # "open"
  BY <1>8, <1>9 DEF Reads, AsksCommand, AsksAuth, FrameOK
<1>11. TypeOK'
  BY <1>2, <1>4, <1>5, <1>8 DEF TypeOK
<1>12. WireOK'
  BY <1>4 DEF WireOK
<1>13. (Reading => ReadingOK)'
  <2>1. \A i \in 1..Len(wire') : wire'[i].to = last_put'
    <3>1. CASE last_put' = c
      BY <3>1, <1>4
    <3>2. CASE c = NoCommand
      <4>1. Len(wire') = 0
        BY <3>2, <1>6
      <4>2. QED
        BY <4>1
    <3>3. QED
      BY <3>1, <3>2
  <2>2. Textual(last_put') => last_put' = Awaited(h)
    BY <1>9
  <2>3. ~lost' => last_put' = Awaited(h) /\ (conn' = "up" => wire' # <<>>)
    BY <1>4, <1>9
  <2>4. ~lost' /\ h.pc = "verdict" => \A i \in 1..Len(wire') : wire'[i].to = Text
    BY <1>4, <1>9 DEF Awaited, Reads
  <2>5. QED
    BY <1>4, <1>9, <2>1, <2>2, <2>3, <2>4 DEF ReadingOK, Top
<1>14. TopOK'
  BY <1>5, <1>9, <1>10, <1>13 DEF TopOK, Top
<1>15. RetOK'
  BY DEF RetOK
<1>16. GroupOK'
  <2>1. ASSUME ~lost', Afloat(stack'), conn' = "up", inside
        PROVE  server'.group = glob_group' \/ server'.denied
    BY <2>1, <1>3, <1>4 DEF Joined
  <2>2. QED
    BY <1>3, <1>4, <1>9, <1>10, <2>1 DEF GroupOK, Top
<1>17. PostOK'
  <2>1. ASSUME ~lost', conn' = "up", server'.article
        PROVE  h.fn = "command" /\ wire' # <<>> /\ wire'[1].code = "cont"
    <3>1. wire' # <<>> /\ wire'[1].code = "cont" /\ c = Post
      BY <2>1, <1>4
    <3>2. Awaited(h) = Post
      BY <3>1, <2>1, <1>9
    <3>3. QED
      BY <3>1, <3>2, <1>8, <1>9, AwaitedPost
  <2>2. QED
    BY <1>1, <1>2, <1>4, <1>9, <2>1 DEF PostOK, Top
<1>18. QED
  BY <1>11, <1>12, <1>14, <1>15, <1>16, <1>17 DEF IInv

\* The frame of a call where the innermost one was, or one that it has become
LEMMA GotoFrames ==
  ASSUME NEW lo \in BOOLEAN, NEW lp \in BOOLEAN, lo => lp, NEW g, NEW in, NEW to, NEW s,
         Frames(s, lo, g, in, to), s # <<>>, NEW f, FrameOK(f, lp, g, in, to),
         f.fn = Head(s).fn, f.cmd = Head(s).cmd, f.fn = "open" => f.buf = Head(s).buf
  PROVE  /\ Frames(<<f>> \o Tail(s), lp, g, in, to)
         /\ <<f>> \o Tail(s) # <<>> /\ Head(<<f>> \o Tail(s)) = f /\ Tail(<<f>> \o Tail(s)) = Tail(s)
         /\ Afloat(<<f>> \o Tail(s)) <=> Afloat(s)
<1>1. /\ Frames(Tail(s), lo, g, in, to)
      /\ Tail(s) = <<>> => Outermost(Head(s), in)
      /\ Tail(s) # <<>> => Over(Head(s), Head(Tail(s)), lo)
  BY FramesTail
<1>2. Frames(Tail(s), lp, g, in, to)
  BY <1>1, FramesLost
<1>3. Tail(s) = <<>> => Outermost(f, in)
  BY <1>1 DEF Outermost
<1>4. Tail(s) # <<>> => Over(f, Head(Tail(s)), lp)
  BY <1>1 DEF Over
<1>5. f \in Calls /\ s \in Seq(Calls) /\ Tail(s) \in Seq(Calls)
  BY <1>1 DEF FrameOK, Frames
<1>6. Afloat(<<f>> \o Tail(s)) <=> Afloat(s)
  BY <1>5, AfloatCons, AfloatTail
<1> DEFINE t == Tail(s)
<1> HIDE DEF t
<1>7. Frames(t, lp, g, in, to) /\ (t = <<>> => Outermost(f, in)) /\ (t # <<>> => Over(f, Head(t), lp))
  BY <1>2, <1>3, <1>4 DEF t
<1>8. Frames(<<f>> \o t, lp, g, in, to) /\ <<f>> \o t # <<>> /\ Head(<<f>> \o t) = f /\ Tail(<<f>> \o t) = t
  BY <1>7, FramesCons
<1>9. QED
  BY <1>6, <1>8 DEF t

\* A new call on top of it
LEMMA IntoFrames ==
  ASSUME NEW lo \in BOOLEAN, NEW g, NEW in, NEW to, NEW s,
         Frames(s, lo, g, in, to), s # <<>>, NEW f, FrameOK(f, lo, g, in, to),
         f.fn = Head(s).fn, f.cmd = Head(s).cmd, f.fn = "open" => f.buf = Head(s).buf,
         NEW e, FrameOK(e, lo, g, in, to), Over(e, f, lo), e.fn # "open"
  PROVE  /\ Frames(<<e, f>> \o Tail(s), lo, g, in, to)
         /\ <<e, f>> \o Tail(s) # <<>> /\ Head(<<e, f>> \o Tail(s)) = e
         /\ Afloat(<<e, f>> \o Tail(s)) <=> Afloat(s)
<1> DEFINE t == <<f>> \o Tail(s)
<1>1. Frames(t, lo, g, in, to) /\ t # <<>> /\ Head(t) = f /\ (Afloat(t) <=> Afloat(s))
  BY GotoFrames
<1>2. e \in Calls /\ f \in Calls /\ Tail(s) \in Seq(Calls) /\ t \in Seq(Calls)
  BY <1>1, FramesTail DEF FrameOK, Frames
<1>3. <<e, f>> \o Tail(s) = <<e>> \o t
  BY <1>2, ConsTwo
<1> HIDE DEF t
<1>4. Frames(<<e>> \o t, lo, g, in, to) /\ <<e>> \o t # <<>> /\ Head(<<e>> \o t) = e
  BY <1>1, FramesCons
<1>5. Afloat(<<e>> \o t) <=> Afloat(t)
  BY <1>2, AfloatCons
<1>6. QED
  BY <1>1, <1>3, <1>4, <1>5

\* The commands that tin sends of itself
LEMMA OwnCommands ==
  ASSUME NEW g, NEW in
  PROVE  /\ \A v \in Verbs \ {"LISTGROUP", "GROUP", "ARTICLE", "article text"} :
              Sendable(Cmd(v), g, in) /\ ~Textual(Cmd(v)) /\ (v # "" => Cmd(v) # NoCommand)
         /\ Sendable(NoCommand, g, in) /\ ~Textual(NoCommand)
         /\ Sendable(ModeReader, g, in) /\ ~Textual(ModeReader) /\ ModeReader # NoCommand
         /\ Sendable(Post, g, in) /\ ~Textual(Post) /\ Post # NoCommand
         /\ Sendable(Quit, g, in) /\ ~Textual(Quit) /\ Quit # NoCommand
<1>1. \A v : Cmd(v).verb = v /\ Cmd(v).group = NoGroup
  BY DEF Cmd
<1>2. \A v \in Verbs : Cmd(v) \in Commands
  BY DEF Cmd, Commands
<1>3. \A v \in Verbs \ {"LISTGROUP", "GROUP", "ARTICLE", "article text"} :
        Sendable(Cmd(v), g, in) /\ ~Textual(Cmd(v)) /\ (v # "" => Cmd(v) # NoCommand)
  <2> TAKE v \in Verbs \ {"LISTGROUP", "GROUP", "ARTICLE", "article text"}
  <2>1. Sendable(Cmd(v), g, in) /\ ~Textual(Cmd(v))
    BY <1>1, <1>2 DEF Sendable, GroupVerb, Textual
  <2>2. v # "" => Cmd(v) # NoCommand
    <3>1. NoCommand.verb = ""
      BY DEF NoCommand, Cmd
    <3>2. QED
      BY <1>1, <3>1
  <2>3. QED
    BY <2>1, <2>2
<1>4. {"", "MODE READER", "POST", "QUIT"} \subseteq
        Verbs \ {"LISTGROUP", "GROUP", "ARTICLE", "article text"}
  BY DEF Verbs
<1>5. QED
  BY <1>3, <1>4 DEF NoCommand, ModeReader, Post, Quit

\* GROUP for the group the user is in
LEMMA GroupSendable ==
  ASSUME NEW g \in Groups \cup {NoGroup}, NEW in, NEW v \in {"GROUP", "LISTGROUP"}
  PROVE  Sendable(GroupCmd(v, g), g, in) /\ GroupCmd(v, g) # NoCommand
<1>1. GroupCmd(v, g).verb = v /\ GroupCmd(v, g).group = g /\ NoCommand.verb = ""
  BY DEF GroupCmd, NoCommand, Cmd
<1>2. GroupCmd(v, g) \in Commands
  BY DEF GroupCmd, Commands, Verbs
<1>3. QED
  BY <1>1, <1>2 DEF Sendable, GroupVerb

\* A new call
LEMMA CallFacts ==
  ASSUME NEW fn, NEW pc, NEW c
  PROVE  /\ Call(fn, pc, c).fn = fn /\ Call(fn, pc, c).pc = pc /\ Call(fn, pc, c).cmd = c
         /\ Call(fn, pc, c).buf = NoCommand
BY DEF Call

\* nntp_command() was called.
LEMMA CommandCall ==
  ASSUME NEW lo, NEW g, NEW in, NEW to, NEW c, Sendable(c, g, in), NEW e, e = Call("command", "status", c)
  PROVE  /\ FrameOK(e, lo, g, in, to) /\ Reads(e) /\ Awaited(e) = c
         /\ e.fn = "command" /\ e.cmd = c /\ e \in Calls
<1>1. e.fn = "command" /\ e.pc = "status" /\ e.cmd = c /\ e.buf = NoCommand
  BY CallFacts
<1>2. Sendable(NoCommand, g, in)
  BY OwnCommands
<1>3. e \in Calls
  <2>1. c \in Commands /\ NoCommand \in Commands
    BY <1>2 DEF Sendable
  <2>2. QED
    BY <2>1 DEF Call, Calls, Tries
<1>4. Reads(e)
  BY <1>1 DEF Reads
<1>5. Awaited(e) = c
  BY <1>1 DEF Awaited
<1>6. FrameOK(e, lo, g, in, to)
  BY <1>1, <1>2, <1>3, <1>4 DEF FrameOK
<1>7. QED
  BY <1>1, <1>3, <1>4, <1>5, <1>6

\* authenticate() was called.
LEMMA AuthCall ==
  ASSUME NEW lo, NEW g, NEW in, NEW to, NEW e, e = Call("auth", "generic", NoCommand)
  PROVE  /\ FrameOK(e, lo, g, in, to) /\ Reads(e) /\ Awaited(e) = Cmd(AuthVerb.generic)
         /\ e.fn = "auth" /\ e \in Calls
<1>1. e.fn = "auth" /\ e.pc = "generic" /\ e.cmd = NoCommand /\ e.buf = NoCommand
  BY CallFacts
<1>2. Sendable(NoCommand, g, in) /\ ~Textual(NoCommand)
  BY OwnCommands
<1>3. e \in Calls
  <2>1. NoCommand \in Commands
    BY <1>2 DEF Sendable
  <2>2. QED
    BY <2>1 DEF Call, Calls, Tries
<1>4. Reads(e)
  BY <1>1 DEF Reads
<1>5. Awaited(e) = Cmd(AuthVerb.generic)
  BY <1>1 DEF Awaited, AuthVerb
<1>6. FrameOK(e, lo, g, in, to)
  BY <1>1, <1>2, <1>3, <1>4 DEF FrameOK
<1>7. QED
  BY <1>1, <1>3, <1>4, <1>5, <1>6

\* The innermost call and the rest of the stack
LEMMA Here ==
  ASSUME IInv, phase = "up", stack # <<>>
  PROVE  /\ stack \in Seq(Calls) /\ Top \in Calls /\ Rest \in Seq(Calls)
         /\ lost \in BOOLEAN /\ ops \in 0..Ops /\ inside \in BOOLEAN
         /\ glob_group \in Groups \cup {NoGroup}
         /\ Frames(stack, lost, glob_group, inside, told)
         /\ FrameOK(Top, lost, glob_group, inside, told)
         /\ Frames(Rest, lost, glob_group, inside, told)
         /\ Rest = <<>> => Outermost(Top, inside)
         /\ Rest # <<>> => Over(Top, Head(Rest), lost)
         /\ TopOK /\ Sendable(last_put, glob_group, inside)
         /\ OneAnswer(wire, conn) /\ wire \in Seq(Answers)
         /\ ~lost /\ Afloat(stack) => Joined
         /\ ~lost /\ told # "posted" /\ ~(Top.fn = "post" /\ Top.pc = "verdict") => accepted = 0
<1>1. /\ TypeOK /\ TopOK /\ GroupOK /\ PostOK /\ WireOK
      /\ Frames(stack, lost, glob_group, inside, told)
  BY DEF IInv
<1>2. /\ Frames(Rest, lost, glob_group, inside, told)
      /\ FrameOK(Top, lost, glob_group, inside, told)
      /\ Rest = <<>> => Outermost(Top, inside)
      /\ Rest # <<>> => Over(Top, Head(Rest), lost)
  BY <1>1, FramesTail DEF Top, Rest
<1>3. stack \in Seq(Calls) /\ Top \in Calls /\ Rest \in Seq(Calls)
  BY <1>1, <1>2 DEF Frames, FrameOK
<1>4. ~lost /\ Afloat(stack) => Joined
  BY <1>1 DEF GroupOK, Joined
<1>5. ~lost /\ told # "posted" /\ ~(Top.fn = "post" /\ Top.pc = "verdict") => accepted = 0
  BY <1>1 DEF PostOK
<1>6. Sendable(last_put, glob_group, inside)
  BY <1>1 DEF TopOK
<1>7. /\ lost \in BOOLEAN /\ ops \in 0..Ops /\ inside \in BOOLEAN
      /\ glob_group \in Groups \cup {NoGroup} /\ wire \in Seq(Answers)
  BY <1>1 DEF TypeOK
<1>8. OneAnswer(wire, conn)
  BY <1>1 DEF WireOK
<1>9. QED
  BY <1>1, <1>2, <1>3, <1>4, <1>5, <1>6, <1>7, <1>8

Places == {"connect", "greet", "mode", "force", "mode2", "xover", "over", "rejoin",
           "status", "auth", "again", "generic", "user", "pass",
           "group", "lines", "astray", "verdict"}

\* A call that has got to another place
LEMMA AtPcFacts ==
  ASSUME Top \in Calls, NEW pc \in Places, NEW f, f = AtPc(pc)
  PROVE  /\ f \in Calls /\ f.fn = Top.fn /\ f.pc = pc /\ f.cmd = Top.cmd /\ f.buf = Top.buf
         /\ f.try = Top.try
<1> DEFINE t == Top
<1>1. t \in Calls /\ f = [t EXCEPT !.pc = pc, !.retry = Tries, !.resent = FALSE]
  BY DEF AtPc
<1> HIDE DEF t
<1>2. /\ f.fn = t.fn /\ f.pc = pc /\ f.cmd = t.cmd /\ f.buf = t.buf /\ f.try = t.try
  BY <1>1 DEF Calls
<1>3. f \in Calls
  <2>1. 2 \in -1..2 /\ FALSE \in BOOLEAN
    OBVIOUS
  <2>2. f = [t EXCEPT !.pc = pc, !.retry = 2, !.resent = FALSE]
    BY <1>1 DEF Tries
  <2> DEFINE pcs == {"connect", "greet", "mode", "force", "mode2", "xover", "over", "rejoin",
                     "status", "auth", "again", "generic", "user", "pass",
                     "group", "lines", "astray", "verdict"}
  <2>3. pc \in pcs
    BY DEF Places
  <2> HIDE DEF pcs
  <2>4. Calls = [fn : {"open", "command", "auth", "caller", "post"}, pc : pcs,
                 cmd : Commands, buf : Commands, retry : -1..2, resent : BOOLEAN, try : 1..2]
    BY DEF Calls, pcs, Tries
  <2>5. QED
    BY <1>1, <2>1, <2>2, <2>3, <2>4
<1>4. QED
  BY <1>2, <1>3 DEF t

\* It is in order, if it was and the place is one of the function's.
LEMMA AtPcFrame ==
  ASSUME NEW lo, NEW g, NEW in, NEW to, FrameOK(Top, lo, g, in, to), NEW f \in Calls,
         f.fn = Top.fn, f.cmd = Top.cmd, f.buf = Top.buf,
         AsksCommand(f) \/ (AsksAuth(f) /\ f.fn # "command") \/ Reads(f),
         f.fn = "auth" => f.pc \in {"generic", "user", "pass"},
         f.fn = "caller" /\ f.pc = "group" => GroupVerb(f.cmd)
  PROVE  FrameOK(f, lo, g, in, to)
<1>1. f.fn = "command" => f.pc # "auth"
  BY DEF AsksCommand, AsksAuth, Reads
<1>2. QED
  BY <1>1 DEF FrameOK

\* nntp_command() is called by the innermost call, which goes on at pc.
LEMMA AskStep ==
  ASSUME IInv, phase = "up", stack # <<>>, wire = <<>>, NEW c, NEW pc \in Places, Ask(c, pc),
         UNCHANGED <<user, phase, lost, setup, accepted>>,
         Sendable(c, glob_group, inside), ~Textual(c), c # NoCommand,
         NEW f, f = AtPc(pc), AsksCommand(f), CommandOf(f) = c,
         f.fn = "caller" /\ f.pc = "group" => GroupVerb(f.cmd),
         Top.fn = "post" => Top.pc = "auth"
  PROVE  IInv'
<1> DEFINE e == Call("command", "status", c)
<1>1. /\ Top \in Calls /\ lost \in BOOLEAN /\ ops \in 0..Ops
      /\ inside \in BOOLEAN /\ glob_group \in Groups \cup {NoGroup}
      /\ Frames(stack, lost, glob_group, inside, told)
      /\ FrameOK(Top, lost, glob_group, inside, told)
      /\ ~lost /\ Afloat(stack) => Joined
      /\ ~lost /\ told # "posted" => accepted = 0
  BY Here
<1>2. Deliver(c, <<>>) /\ last_put' = c /\ stack' = <<e, f>> \o Rest /\ ret' = None
  BY DEF Ask, Put, Into
<1>3. e = Call("command", "status", c)
  OBVIOUS
<1> HIDE DEF e
<1>4. /\ FrameOK(e, lost, glob_group, inside, told) /\ Reads(e) /\ Awaited(e) = c
      /\ e.fn = "command" /\ e.cmd = c
  BY <1>3, CommandCall
<1>5. /\ f \in Calls /\ f.fn = Top.fn /\ f.pc = pc /\ f.cmd = Top.cmd /\ f.buf = Top.buf
  BY <1>1, AtPcFacts
<1>6. f.fn # "auth"
  BY DEF AsksCommand
<1>7. FrameOK(f, lost, glob_group, inside, told)
  BY <1>1, <1>5, <1>6, AtPcFrame
<1>8. Over(e, f, lost)
  BY <1>4 DEF Over
<1>9. /\ Frames(stack', lost, glob_group, inside, told) /\ stack' # <<>> /\ Head(stack') = e
      /\ Afloat(stack') <=> Afloat(stack)
  BY <1>1, <1>2, <1>4, <1>5, <1>7, <1>8, IntoFrames DEF Top, Rest
<1>10. ~lost /\ conn = "up" => ~server.article
  BY DEF IInv, PostOK
<1>11. c.verb # "ARTICLE"
  BY DEF Textual
<1>12. /\ phase' = "up" /\ setup' = setup /\ accepted' = accepted /\ told' = told
       /\ inside' = inside /\ ops' = ops /\ lost' = lost /\ glob_group' = glob_group
  BY DEF user
<1>13. Frames(stack', lost', glob_group', inside, told) /\ Sendable(c, glob_group', inside)
  BY <1>9, <1>12
<1>14. /\ ~lost' => c = Awaited(Head(stack')) /\ c # NoCommand
       /\ Reads(Head(stack'))
       /\ ~lost' /\ (Afloat(stack') \/ c.verb = "ARTICLE") => Joined
       /\ ~lost' /\ told # "posted" => accepted = 0
       /\ ~lost' /\ conn = "up" => ~server.article
       /\ ops' \in 0..Ops /\ lost' \in BOOLEAN /\ (lost => lost')
       /\ glob_group' \in Groups \cup {NoGroup}
  BY <1>1, <1>4, <1>9, <1>10, <1>11, <1>12
<1>15. QED
  BY <1>2, <1>9, <1>12, <1>13, <1>14, SendStep

\* authenticate() is called by call f, in the place of the innermost one.
LEMMA AuthenticateStep ==
  ASSUME IInv, phase = "up", stack # <<>>, NEW w, w = <<>>, NEW f, Authenticate(f, w),
         UNCHANGED <<user, phase, lost, setup, accepted>>, ret' = None,
         FrameOK(f, lost, glob_group, inside, told), AsksAuth(f),
         f.fn = Top.fn, f.cmd = Top.cmd, f.fn = "open" => f.buf = Top.buf,
         ~lost /\ conn = "up" => ~server.article,
         ~lost /\ told # "posted" => accepted = 0
  PROVE  IInv'
<1> DEFINE e == Call("auth", "generic", NoCommand)
           c == Cmd(AuthVerb.generic)
<1>1. /\ Top \in Calls /\ lost \in BOOLEAN /\ ops \in 0..Ops
      /\ inside \in BOOLEAN /\ glob_group \in Groups \cup {NoGroup}
      /\ Frames(stack, lost, glob_group, inside, told)
      /\ ~lost /\ Afloat(stack) => Joined
  BY Here
<1>2. Deliver(c, <<>>) /\ last_put' = c /\ stack' = <<e, f>> \o Rest
  <2>1. c # NoCommand
    BY OwnCommands DEF Verbs, AuthVerb
  <2>2. QED
    BY <2>1 DEF Authenticate, Put, Into
<1>3. Sendable(c, glob_group, inside) /\ ~Textual(c) /\ c # NoCommand
  BY OwnCommands DEF Verbs, AuthVerb
<1>4. e = Call("auth", "generic", NoCommand) /\ c = Cmd(AuthVerb.generic)
  OBVIOUS
<1> HIDE DEF e, c
<1>5. FrameOK(e, lost, glob_group, inside, told) /\ Reads(e) /\ Awaited(e) = c /\ e.fn = "auth"
  BY <1>4, AuthCall
<1>6. Over(e, f, lost)
  BY <1>5 DEF Over
<1>7. /\ Frames(stack', lost, glob_group, inside, told) /\ stack' # <<>> /\ Head(stack') = e
      /\ Afloat(stack') <=> Afloat(stack)
  BY <1>1, <1>2, <1>5, <1>6, IntoFrames DEF Top, Rest
<1>8. c.verb # "ARTICLE"
  BY <1>3 DEF Textual
<1>9. /\ phase' = "up" /\ setup' = setup /\ accepted' = accepted /\ told' = told
      /\ inside' = inside /\ ops' = ops /\ lost' = lost /\ glob_group' = glob_group
  BY DEF user
<1>10. Frames(stack', lost', glob_group', inside, told) /\ Sendable(c, glob_group', inside)
  BY <1>3, <1>7, <1>9
<1>11. /\ ~lost' => c = Awaited(Head(stack')) /\ c # NoCommand
       /\ Textual(c) => c = Awaited(Head(stack'))
       /\ Reads(Head(stack'))
       /\ ~lost' /\ (Afloat(stack') \/ c.verb = "ARTICLE") => Joined
       /\ ~lost' /\ told # "posted" => accepted = 0
       /\ ~lost' /\ conn = "up" => ~server.article
       /\ ops' \in 0..Ops /\ lost' \in BOOLEAN /\ (lost => lost')
       /\ glob_group' \in Groups \cup {NoGroup}
  BY <1>1, <1>3, <1>5, <1>7, <1>8, <1>9
<1>12. QED
  BY <1>2, <1>7, <1>9, <1>10, <1>11, SendStep

-----------------------------------------------------------------------------
(* Steps that read *)

\* Nothing is added to what is unread, and the server stays in its group.
LEMMA WireStays ==
  ASSUME WireOK, accepted \in Nat, accepted' \in Nat, accepted <= accepted', lost => lost',
         inside => inside', glob_group' = glob_group,
         conn' = "up" => conn = "up" /\ server'.group = server.group,
         OneAnswer(wire', conn'),
         \A i \in 1..Len(wire') : \E j \in 1..Len(wire) : wire'[i] = wire[j]
  PROVE  WireOK'
<1>1. ASSUME NEW i \in 1..Len(wire')
      PROVE  LineOK(wire'[i], conn', server', lost', glob_group', inside', accepted')
  <2>1. PICK j \in 1..Len(wire) : wire'[i] = wire[j]
    OBVIOUS
  <2>2. LineOK(wire[j], conn, server, lost, glob_group, inside, accepted)
    BY DEF WireOK
  <2>3. accepted > 0 => accepted' > 0
    OBVIOUS
  <2>4. LineOK(wire[j], conn', server', lost', glob_group', inside', accepted')
    BY <2>2, <2>3 DEF LineOK
  <2>5. QED
    BY <2>1, <2>4
<1>2. QED
  BY <1>1 DEF WireOK

\* A line is read, and the connection may go.
LEMMA WireRead ==
  ASSUME TypeOK, WireOK, accepted' = accepted, lost => lost', inside => inside',
         glob_group' = glob_group, server' = server, conn' = conn \/ conn' = "none",
         wire' = wire \/ (wire # <<>> /\ wire' = Tail(wire))
  PROVE  WireOK' /\ wire' \in Seq(Answers)
<1>1. accepted \in Nat /\ wire \in Seq(Answers)
  BY DEF TypeOK
<1>2. OneAnswer(wire, conn)
  BY DEF WireOK
<1>3. /\ wire' \in Seq(Answers) /\ OneAnswer(wire', conn)
      /\ \A i \in 1..Len(wire') : \E j \in 1..Len(wire) : wire'[i] = wire[j]
  <2>1. CASE wire' = wire
    BY <2>1, <1>1, <1>2
  <2>2. CASE wire # <<>> /\ wire' = Tail(wire)
    <3>1. /\ Tail(wire) \in Seq(Answers) /\ OneAnswer(Tail(wire), conn)
          /\ \A i \in 1..Len(Tail(wire)) : i + 1 \in 1..Len(wire) /\ Tail(wire)[i] = wire[i + 1]
      BY <2>2, <1>1, <1>2, LineRead
    <3>2. QED
      BY <2>2, <3>1
  <2>3. QED
    BY <2>1, <2>2
<1>4. OneAnswer(wire', conn')
  BY <1>3 DEF OneAnswer
<1>5. accepted' \in Nat /\ accepted <= accepted'
  BY <1>1
<1>6. QED
  BY <1>1, <1>3, <1>4, <1>5, WireStays

\* The program ends.
LEMMA DoneStep ==
  ASSUME IInv, phase = "up", stack # <<>>, Done,
         UNCHANGED <<last_put, user, lost, server, setup, accepted>>, trouble' \in 0..Troubles,
         conn' = conn \/ conn' = "none", wire' = wire \/ (wire # <<>> /\ wire' = Tail(wire)),
         ret' \in Results \cup {None}, RetOK'
  PROVE  IInv'
<1>1. TypeOK /\ WireOK /\ GroupOK /\ PostOK
  BY DEF IInv
<1>2. /\ phase' = "done" /\ stack' = <<>> /\ accepted' = accepted /\ lost' = lost
      /\ last_put' = last_put /\ server' = server /\ setup' = setup /\ told' = told
      /\ inside' = inside /\ glob_group' = glob_group /\ ops' = ops
  BY DEF Done, user
<1>3. WireOK' /\ wire' \in Seq(Answers)
  BY <1>1, <1>2, WireRead
<1>4. TypeOK'
  <2>1. stack' \in Seq(Calls)
    BY <1>2
  <2>2. QED
    BY <1>1, <1>2, <1>3, <2>1 DEF TypeOK
<1>5. Frames(stack', lost', glob_group', inside', told')
  BY <1>2, FramesNone
<1>6. GroupOK'
  BY <1>1, <1>2 DEF GroupOK
<1>7. conn' = "up" /\ wire' # <<>> /\ wire'[1].code = "cont" => wire' = wire
  <2>1. ASSUME wire # <<>>, wire' = Tail(wire), wire' # <<>> PROVE wire'[1].code # "cont"
    <3>1. /\ wire \in Seq(Answers) /\ OneAnswer(wire, conn)
      BY <1>1 DEF TypeOK, WireOK
    <3>2. \A i \in 1..Len(Tail(wire)) : Tail(wire)[i].code \in {"line", "dot"}
      BY <3>1, <2>1, LineRead
    <3>3. 1 \in 1..Len(wire')
      BY <1>3, <2>1, EmptyLen
    <3>4. QED
      BY <2>1, <3>2, <3>3
  <2>2. QED
    BY <2>1
<1>8. PostOK'
  BY <1>1, <1>2, <1>7 DEF PostOK
<1>9. QED
  BY <1>2, <1>3, <1>4, <1>5, <1>6, <1>8 DEF IInv

\* What a read returns when it reads the first line
LEMMA ResultOK ==
  ASSUME TypeOK, WireOK, wire # <<>>, NEW asked \in Commands,
         ~lost => wire[1].to = asked, ret' = Result(asked, wire[1]),
         UNCHANGED <<lost, conn, server, glob_group>>
  PROVE  RetOK' /\ ret' \in Results /\ ret'.to = wire[1].to /\ ret'.code = wire[1].code
<1>1. wire \in Seq(Answers) /\ OneAnswer(wire, conn)
  BY DEF TypeOK, WireOK
<1>2. wire[1] \in Answers /\ 1 \in 1..Len(wire)
  BY <1>1, LineRead
<1>3. LineOK(wire[1], conn, server, lost, glob_group, inside, accepted)
  BY <1>2 DEF WireOK
<1>4. /\ ret' \in Results /\ ret'.asked = asked /\ ret'.to = wire[1].to
      /\ ret'.code = wire[1].code /\ ret'.group = wire[1].group /\ ret'.denied = wire[1].denied
  BY <1>2 DEF Result, Results, Answers
<1>5. RetOK'
  BY <1>3, <1>4 DEF RetOK, LineOK
<1>6. QED
  BY <1>4, <1>5

\* What authenticate() returns
LEMMA VerdictOK ==
  ASSUME TypeOK, NEW code \in {"ok", "no"}, ret' = Verdict(code)
  PROVE  RetOK' /\ ret' \in Results /\ ret'.code = code /\ ret'.to = NoCommand
<1>1. server.group \in Groups \cup {NoGroup} /\ server.denied \in BOOLEAN
  BY DEF TypeOK, Servers
<1>2. NoCommand \in Commands /\ NoCommand.verb = "" /\ code \in Codes
  BY DEF NoCommand, Cmd, Commands, Verbs, Codes
<1>3. /\ ret' \in Results /\ ret'.asked = NoCommand /\ ret'.to = NoCommand /\ ret'.code = code
  BY <1>1, <1>2 DEF Verdict, Result, Results, Line
<1>4. RetOK'
  BY <1>2, <1>3 DEF RetOK, GroupVerb
<1>5. QED
  BY <1>3, <1>4

\* Only submit_inews() asks for POST, and only server_init() for nothing.
LEMMA WhoAsks ==
  ASSUME NEW lo, NEW g, NEW in, NEW to, NEW f, FrameOK(f, lo, g, in, to), AsksCommand(f)
  PROVE  /\ CommandOf(f) = Post => f.fn = "post" /\ f.pc = "status"
         /\ f.fn = "open" /\ f.pc = "greet" => CommandOf(f) = NoCommand
         /\ f.fn = "caller" /\ f.pc = "status" => CommandOf(f) = f.cmd /\ Textual(f.cmd)
<1>1. \A v : Cmd(v).verb = v
  BY DEF Cmd
<1>2. \A g1 : GroupCmd("GROUP", g1).verb = "GROUP"
  BY DEF GroupCmd
<1>3. CASE f.fn = "open"
  <2>1. f.pc \in {"greet", "mode", "mode2", "xover", "over"}
    BY <1>3 DEF AsksCommand
  <2>2. /\ f.pc = "greet" => CommandOf(f) = Cmd("")
        /\ f.pc \in {"mode", "mode2"} => CommandOf(f) = Cmd("MODE READER")
        /\ f.pc = "xover" => CommandOf(f) = Cmd("XOVER")
        /\ f.pc = "over" => CommandOf(f) = Cmd("OVER")
    BY <1>3 DEF CommandOf, NoCommand, ModeReader
  <2>3. CommandOf(f) # Post
    <3>1. CommandOf(f).verb \in {"", "MODE READER", "XOVER", "OVER"} /\ Post.verb = "POST"
      BY <1>1, <2>1, <2>2 DEF Post
    <3>2. QED
      BY <3>1
  <2>4. QED
    BY <1>3, <2>2, <2>3 DEF NoCommand
<1>4. CASE f.fn = "caller"
  <2>1. Textual(f.cmd) /\ f.pc \in {"status", "group"}
    BY <1>4 DEF FrameOK, AsksCommand
  <2>2. f.pc = "status" => CommandOf(f) = f.cmd
    BY <1>4 DEF CommandOf
  <2>3. f.pc = "group" => CommandOf(f).verb = "GROUP"
    <3>1. f.pc = "group" => CommandOf(f) = GroupCmd("GROUP", f.cmd.group)
      BY <1>4 DEF CommandOf
    <3>2. QED
      BY <3>1, <1>2
  <2>4. CommandOf(f).verb # "POST"
    BY <2>1, <2>2, <2>3 DEF Textual
  <2>5. Post.verb = "POST"
    BY DEF Post, Cmd
  <2>6. QED
    BY <2>4, <2>5, <1>4, <2>1, <2>2
<1>5. CASE f.fn = "post"
  BY <1>5 DEF AsksCommand
<1>6. QED
  BY <1>3, <1>4, <1>5 DEF AsksCommand

\* A call that reads gets the answer to last_put; what it waits for is its own
\* command for nntp_command(), and no text for authenticate().
LEMMA ReadFacts ==
  ASSUME IInv, phase = "up", Reading, wire # <<>>
  PROVE  /\ stack # <<>> /\ ReadingOK /\ ret = None
         /\ 1 \in 1..Len(wire) /\ wire[1] \in Answers /\ Head(wire) = wire[1]
         /\ LineOK(wire[1], conn, server, lost, glob_group, inside, accepted)
         /\ Reads(Top) /\ Top.fn # "open"
         /\ Top.fn = "command" => Awaited(Top) = Top.cmd
         /\ Top.fn = "auth" => ~Textual(Awaited(Top)) /\ Top.pc \in {"generic", "user", "pass"}
         /\ Top.fn = "caller" => Awaited(Top) = Top.cmd /\ Textual(Top.cmd)
         /\ Top.fn = "post" => Top.pc = "verdict" /\ Awaited(Top) = Text
         /\ ~lost => wire[1].to = Awaited(Top)
         /\ Top.fn # "post" => \A i \in 1..Len(wire) : wire[i].to = last_put
<1>1. stack # <<>> /\ ret = None /\ ReadingOK
  BY DEF IInv, TopOK, Reading
<1>2. /\ FrameOK(Top, lost, glob_group, inside, told)
      /\ wire \in Seq(Answers) /\ OneAnswer(wire, conn)
  BY <1>1, Here
<1>3. 1 \in 1..Len(wire) /\ wire[1] \in Answers /\ Head(wire) = wire[1]
  BY <1>2, LineRead
<1>4. LineOK(wire[1], conn, server, lost, glob_group, inside, accepted)
  BY <1>3 DEF IInv, WireOK
<1>5. Reads(Top) /\ Top.fn # "open"
  BY <1>2 DEF Reading, FrameOK, Reads, AsksAuth, AsksCommand
<1>6. Top.fn = "command" => Awaited(Top) = Top.cmd
  BY <1>5 DEF Awaited, Reads
<1>7. Top.fn = "auth" => ~Textual(Awaited(Top)) /\ Top.pc \in {"generic", "user", "pass"}
  BY <1>2, AwaitedAuth DEF FrameOK, Textual
<1>8. Top.fn = "caller" => Awaited(Top) = Top.cmd /\ Textual(Top.cmd)
  BY <1>2, <1>5 DEF Awaited, Reads, FrameOK
<1>9. Top.fn = "post" => Top.pc = "verdict"
  BY <1>5 DEF Reads
<1>10. Top.pc = "verdict" => Top.fn = "post"
  BY <1>5, <1>7 DEF Reads
<1>11. Top.fn = "post" => Awaited(Top) = Text
  BY <1>9 DEF Awaited
<1>12. Top.fn # "post" => \A i \in 1..Len(wire) : wire[i].to = last_put
  BY <1>1, <1>10 DEF ReadingOK
<1>13. ~lost => wire[1].to = Awaited(Top)
  BY <1>1, <1>3, <1>10, <1>11, <1>12 DEF ReadingOK
<1>14. QED
  BY <1>1, <1>3, <1>4, <1>5, <1>6, <1>7, <1>8, <1>9, <1>11, <1>12, <1>13

\* An answer that is no text is read as a whole.
LEMMA AllRead ==
  ASSUME IInv, phase = "up", Reading, wire # <<>>,
         Top.fn # "post" => ~Textual(last_put)
  PROVE  Tail(wire) = <<>>
<1>1. /\ wire \in Seq(Answers) /\ OneAnswer(wire, conn) /\ ReadingOK
      /\ \A i \in 1..Len(wire) :
           LineOK(wire[i], conn, server, lost, glob_group, inside, accepted)
  BY ReadFacts, Here DEF IInv, WireOK
<1>2. \A i \in 1..Len(wire) : wire[i].code \in {"line", "dot"} => Textual(wire[i].to)
  BY <1>1 DEF LineOK
<1>3. \A i \in 1..Len(wire) : ~Textual(wire[i].to)
  <2>1. CASE Top.fn # "post"
    BY <2>1, ReadFacts
  <2>2. CASE Top.fn = "post"
    <3>1. Text.verb = "article text" /\ ~Textual(Text)
      BY DEF Text, Cmd, Textual
    <3>2. Textual(last_put) => last_put = Text
      BY <2>2, <1>1, ReadFacts DEF ReadingOK
    <3>3. \A i \in 1..Len(wire) : wire[i].to = last_put \/ wire[i].to = Text
      BY <1>1 DEF ReadingOK
    <3>4. QED
      BY <3>1, <3>2, <3>3
  <2>3. QED
    BY <2>1, <2>2
<1>4. QED
  BY <1>1, <1>2, <1>3, OneLine

\* nntp_command() or authenticate() returns to call f.
LEMMA ReturnStep ==
  ASSUME IInv, phase = "up", Reading, wire # <<>>, Rest # <<>>, NEW f, f = Head(Rest),
         stack' = Rest, wire' = Tail(wire),
         UNCHANGED <<last_put, conn, server, trouble, user, phase, lost, setup, accepted>>,
         \/ Top.fn = "command" /\ ret' = Result(Top.cmd, Head(wire))
         \/ Top.fn = "auth" /\ \E code \in {"ok", "no"} : ret' = Verdict(code)
  PROVE  IInv'
<1>1. /\ stack # <<>> /\ ReadingOK /\ 1 \in 1..Len(wire) /\ wire[1] \in Answers
      /\ Head(wire) = wire[1] /\ Reads(Top)
      /\ LineOK(wire[1], conn, server, lost, glob_group, inside, accepted)
      /\ Top.fn = "command" => Awaited(Top) = Top.cmd
      /\ Top.fn = "auth" => ~Textual(Awaited(Top))
      /\ ~lost => wire[1].to = Awaited(Top)
      /\ \A i \in 1..Len(wire) : wire[i].to = last_put
  BY ReadFacts
<1>2. /\ stack \in Seq(Calls) /\ Frames(stack, lost, glob_group, inside, told)
      /\ FrameOK(Top, lost, glob_group, inside, told)
      /\ Frames(Rest, lost, glob_group, inside, told)
      /\ Over(Top, f, lost) /\ Sendable(last_put, glob_group, inside)
      /\ OneAnswer(wire, conn) /\ wire \in Seq(Answers)
      /\ ~lost /\ told # "posted" => accepted = 0
  BY <1>1, Here
<1>3. TypeOK /\ WireOK /\ GroupOK /\ PostOK
  BY DEF IInv
<1>4. /\ phase' = "up" /\ accepted' = accepted /\ lost' = lost
      /\ last_put' = last_put /\ server' = server /\ setup' = setup /\ told' = told
      /\ inside' = inside /\ glob_group' = glob_group /\ ops' = ops
      /\ conn' = conn /\ trouble' = trouble
  BY DEF user
<1>5. FrameOK(f, lost, glob_group, inside, told) /\ (AsksCommand(f) \/ AsksAuth(f))
  <2>1. FrameOK(f, lost, glob_group, inside, told)
    BY <1>2, FramesTail
  <2>2. AsksCommand(f) \/ AsksAuth(f)
    BY <1>2 DEF Over
  <2>3. QED
    BY <2>1, <2>2
<1>6. Top.fn = "command" => AsksCommand(f) /\ Top.cmd = CommandOf(f)
  BY <1>2 DEF Over
<1>7. RetOK' /\ ret' \in Results
      /\ (Top.fn = "command" => ret'.to = wire[1].to /\ ret'.code = wire[1].code)
      /\ (Top.fn = "auth" => ret'.code \in {"ok", "no"} /\ AsksAuth(f))
  <2>1. CASE Top.fn = "command"
    <3>1. Top.cmd \in Commands /\ ret' = Result(Top.cmd, wire[1]) /\ (~lost => wire[1].to = Top.cmd)
      BY <2>1, <1>1, <1>2 DEF FrameOK, Sendable
    <3>2. QED
      BY <3>1, <2>1, <1>3, <1>4, ResultOK
  <2>2. CASE Top.fn = "auth"
    <3>1. PICK code \in {"ok", "no"} : ret' = Verdict(code)
      BY <2>2
    <3>2. QED
      BY <3>1, <2>2, <1>2, <1>3, VerdictOK DEF Over
  <2>3. QED
    BY <2>1, <2>2
<1>8. /\ Tail(wire) \in Seq(Answers) /\ OneAnswer(Tail(wire), conn)
      /\ \A i \in 1..Len(Tail(wire)) : /\ Tail(wire)[i] = wire[i + 1] /\ i + 1 \in 1..Len(wire)
                                       /\ Tail(wire)[i].code \in {"line", "dot"}
      /\ Final(wire[1]) => Tail(wire) = <<>>
      /\ ~Final(wire[1]) /\ conn = "up" => Tail(wire) # <<>>
  BY <1>2, LineRead
<1>9. WireOK' /\ wire' \in Seq(Answers)
  BY <1>3, <1>4, WireRead
<1>10. TypeOK'
  <2>1. Rest \in Seq(Calls)
    BY <1>2 DEF Frames
  <2>2. QED
    BY <1>3, <1>4, <1>7, <1>9, <2>1 DEF TypeOK
<1>11. /\ f.pc # "connect" /\ f.pc # "rejoin" /\ f.pc # "verdict"
       /\ ~(f.fn = "command" /\ f.pc \in {"status", "again"})
       /\ f.fn # "auth" /\ f.pc \notin {"lines", "astray"}
  BY <1>5 DEF AsksCommand, AsksAuth
<1>12. Top' = f /\ stack' # <<>>
  BY DEF Top
<1>13. Textual(last_put) => /\ f.fn = "caller" /\ f.pc = "status" /\ last_put = f.cmd
                            /\ Top.fn = "command" /\ f.cmd = Top.cmd
  <2>1. ASSUME Textual(last_put)
        PROVE  /\ f.fn = "caller" /\ f.pc = "status" /\ last_put = f.cmd
               /\ Top.fn = "command" /\ f.cmd = Top.cmd
    <3>1. last_put = Awaited(Top) /\ Top.fn = "command" /\ Awaited(Top) = Top.cmd
      BY <2>1, <1>1 DEF ReadingOK
    <3>2. Head(stack).fn = "command" /\ Textual(Head(stack).cmd) /\ Head(Tail(stack)) = f
      BY <2>1, <3>1 DEF Top, Rest
    <3>3. f.fn = "caller" /\ f.pc = "status" /\ f.cmd = Head(stack).cmd
      BY <3>2, <1>1, <1>2, TextIsUsers
    <3>4. QED
      BY <3>1, <3>3 DEF Top
  <2>2. QED
    BY <2>1
<1>14. Final(wire[1]) \/ (Textual(last_put) /\ wire[1].code = "ok")
  <2>1. Top.fn # "caller"
    OBVIOUS
  <2>2. wire[1].code # "line" /\ wire[1].to = last_put
    BY <1>1, <2>1 DEF ReadingOK
  <2>3. QED
    BY <2>2 DEF Final
<1>15. ReturnedOK'
  <2>1. ASSUME wire' # <<>> PROVE TextFollows'
    <3>1. Textual(last_put) /\ wire[1].code = "ok"
      BY <2>1, <1>8, <1>14
    <3>2. ret'.code = "ok" /\ ret'.to = f.cmd /\ last_put' = f.cmd
      BY <3>1, <1>1, <1>4, <1>7, <1>13
    <3>3. \A i \in 1..Len(wire') : wire'[i].to = f.cmd /\ wire'[i].code \in {"line", "dot"}
      BY <3>1, <1>1, <1>8, <1>13
    <3>4. QED
      BY <3>1, <3>2, <3>3, <1>12, <1>13 DEF TextFollows
  <2>2. ASSUME ~lost, f.fn = "caller", f.pc = "status"
        PROVE  /\ ret'.to = f.cmd /\ last_put' = f.cmd
               /\ ret'.code = "ok" /\ conn' = "up" => wire' # <<>>
    <3>1. Top.fn = "command" /\ Top.cmd = f.cmd /\ Textual(f.cmd)
      <4>1. Top.fn # "auth"
        BY <2>2, <1>7 DEF AsksAuth
      <4>2. Top.fn = "command"
        BY <4>1
      <4>3. QED
        BY <4>2, <2>2, <1>5, <1>6, WhoAsks
    <3>2. wire[1].to = f.cmd /\ last_put = f.cmd
      BY <3>1, <2>2, <1>1
    <3>3. wire[1].code = "ok" => ~Final(wire[1])
      BY <3>1, <3>2 DEF Final
    <3>4. QED
      BY <3>1, <3>2, <3>3, <1>4, <1>7, <1>8
  <2>3. ASSUME ~lost, f.pc = "greet" PROVE ret'.code \in {"ok", "refused"}
    <3>1. f.fn = "open" /\ AsksCommand(f) /\ ~AsksAuth(f)
      BY <2>3, <1>5 DEF AsksCommand, AsksAuth
    <3>2. Top.fn = "command" /\ Top.cmd = NoCommand
      BY <3>1, <2>3, <1>5, <1>6, <1>7, WhoAsks
    <3>3. wire[1].to = NoCommand
      BY <3>2, <2>3, <1>1
    <3>4. QED
      BY <3>2, <3>3, <1>1, <1>7 DEF LineOK
  <2>4. ASSUME ~lost, f.fn = "post", f.pc = "status", ret'.code = "cont", conn' = "up"
        PROVE  server'.article
    <3>1. Top.fn = "command" /\ wire[1].code = "cont"
      BY <2>4, <1>7
    <3>2. QED
      BY <3>1, <2>4, <1>3, <1>4 DEF PostOK
  <2>5. Textual(last_put') => f.fn = "caller" /\ f.pc = "status" /\ last_put' = f.cmd
    BY <1>4, <1>13
  <2>6. QED
    BY <2>1, <2>2, <2>3, <2>4, <2>5, <1>4, <1>12 DEF ReturnedOK
<1>16. TopOK'
  <2>1. ~Reading'
    BY <1>11, <1>12 DEF Reading
  <2>2. Sendable(last_put', glob_group', inside')
    BY <1>2, <1>4
  <2>3. QED
    BY <2>1, <2>2, <1>11, <1>12, <1>15 DEF TopOK
<1>17. Top.fn # "open" /\ (Afloat(stack') => Afloat(stack))
  BY <1>1, <1>2, AfloatTail DEF Rest, Top
<1>18. GroupOK'
  BY <1>3, <1>4, <1>11, <1>12, <1>17 DEF GroupOK
<1>19. PostOK'
  <2>1. ASSUME ~lost, conn = "up", server.article
        PROVE  f.fn = "post" /\ f.pc = "status" /\ ret'.code = "cont"
    <3>1. Top.fn = "command" /\ wire[1].code = "cont"
      BY <2>1, <1>3 DEF PostOK
    <3>2. Top.cmd = Post
      BY <3>1, <2>1, <1>1 DEF LineOK
    <3>3. QED
      BY <3>1, <3>2, <1>5, <1>6, <1>7, WhoAsks
  <2>2. ASSUME wire' # <<>> PROVE wire'[1].code # "cont"
    <3>1. 1 \in 1..Len(wire')
      BY <2>2, <1>9, EmptyLen
    <3>2. QED
      BY <3>1, <1>8
  <2>3. /\ told = "posted" => accepted > 0
        /\ ~lost => accepted <= 1
    BY <1>3 DEF PostOK
  <2>4. QED
    BY <2>1, <2>2, <2>3, <1>2, <1>4, <1>12 DEF PostOK
<1>20. Frames(stack', lost', glob_group', inside', told')
  BY <1>2, <1>4
<1>21. QED
  BY <1>4, <1>7, <1>9, <1>10, <1>16, <1>18, <1>19, <1>20 DEF IInv

-----------------------------------------------------------------------------
(* reconnect() and nntp_open() *)

\* Calls that differ in the tries they have left only
LEMMA Similar ==
  ASSUME NEW lo, NEW g, NEW in, NEW to, NEW f \in Calls, NEW h, FrameOK(h, lo, g, in, to),
         f.fn = h.fn, f.pc = h.pc, f.cmd = h.cmd, f.buf = h.buf
  PROVE  FrameOK(f, lo, g, in, to)
BY DEF FrameOK, AsksCommand, AsksAuth, Reads

LEMMA SimilarReads ==
  ASSUME NEW f, NEW h, f.fn = h.fn, f.pc = h.pc, f.cmd = h.cmd, f.buf = h.buf,
         h.fn = "auth" => h.pc \in {"generic", "user", "pass"}, Reads(h)
  PROVE  Reads(f) /\ Awaited(f) = Awaited(h)
<1>1. Reads(f)
  BY DEF Reads
<1>2. CASE h.fn = "auth"
  <2>1. Awaited(f) = Cmd(AuthVerb[f.pc]) /\ Awaited(h) = Cmd(AuthVerb[h.pc])
    BY <1>2, AwaitedAuth
  <2>2. QED
    BY <1>1, <2>1
<1>3. CASE h.fn = "post"
  BY <1>1, <1>3 DEF Reads, Awaited
<1>4. CASE h.fn \in {"command", "caller"}
  <2>1. Awaited(f) = f.cmd /\ Awaited(h) = h.cmd
    BY <1>4 DEF Reads, Awaited
  <2>2. QED
    BY <1>1, <2>1
<1>5. QED
  BY <1>2, <1>3, <1>4 DEF Reads

\* A call with another number of tries
LEMMA Retried ==
  ASSUME NEW h \in Calls, NEW n \in -1..2, NEW f, f = [h EXCEPT !.retry = n]
  PROVE  /\ f \in Calls /\ f.fn = h.fn /\ f.pc = h.pc /\ f.cmd = h.cmd /\ f.buf = h.buf
BY DEF Calls, Tries

\* The read that a reconnection interrupted goes on.
LEMMA ResumeFrames ==
  ASSUME IInv, phase = "up", stack # <<>>, Top.fn = "open", Rest # <<>>,
         NEW f \in Calls, f.fn = Head(Rest).fn, f.pc = Head(Rest).pc, f.cmd = Head(Rest).cmd,
         f.buf = Head(Rest).buf, NEW s, s = <<f>> \o Tail(Rest)
  PROVE  /\ Frames(s, lost, glob_group, inside, told) /\ s # <<>> /\ Head(s) = f
         /\ Reads(f) /\ FrameOK(f, lost, glob_group, inside, told)
         /\ ~lost => Top.buf = Awaited(f) /\ Top.buf # NoCommand
         /\ Textual(Top.buf) => Top.buf = Awaited(f)
<1> DEFINE h == Head(Rest)
<1>1. /\ Frames(Rest, lost, glob_group, inside, told) /\ Over(Top, h, lost)
      /\ lost \in BOOLEAN
  BY Here
<1>2. FrameOK(h, lost, glob_group, inside, told)
  BY <1>1, FramesTail
<1>3. h = Head(Rest)
  OBVIOUS
<1> HIDE DEF h
<1>4. f.fn = h.fn /\ f.pc = h.pc /\ f.cmd = h.cmd /\ f.buf = h.buf
  BY <1>3
<1>5. FrameOK(f, lost, glob_group, inside, told)
  BY <1>2, <1>4, Similar
<1>6. /\ Reads(h) /\ (lost \/ (Top.buf = Awaited(h) /\ Top.buf # NoCommand))
      /\ Textual(Top.buf) => Top.buf = Awaited(h)
      /\ Reads(f) /\ Awaited(f) = Awaited(h)
  <2>1. /\ Reads(h) /\ (lost \/ (Top.buf = Awaited(h) /\ Top.buf # NoCommand))
        /\ Textual(Top.buf) => Top.buf = Awaited(h)
    BY <1>1 DEF Over
  <2>2. h.fn = "auth" => h.pc \in {"generic", "user", "pass"}
    BY <1>2 DEF FrameOK
  <2>3. QED
    BY <1>4, <2>1, <2>2, SimilarReads
<1>7. Frames(s, lost, glob_group, inside, told) /\ s # <<>> /\ Head(s) = f
  <2> DEFINE t == Tail(Rest)
  <2>1. /\ Frames(t, lost, glob_group, inside, told)
        /\ t = <<>> => Outermost(h, inside)
        /\ t # <<>> => Over(h, Head(t), lost)
    BY <1>1, <1>3, FramesTail
  <2>2. /\ t = <<>> => Outermost(f, inside)
        /\ t # <<>> => Over(f, Head(t), lost)
    BY <1>4, <2>1 DEF Outermost, Over
  <2>3. s = <<f>> \o t
    OBVIOUS
  <2> HIDE DEF t
  <2>4. Frames(<<f>> \o t, lost, glob_group, inside, told) /\ <<f>> \o t # <<>>
        /\ Head(<<f>> \o t) = f
    BY <1>5, <2>1, <2>2, FramesCons
  <2>5. QED
    BY <2>3, <2>4
<1>8. QED
  BY <1>5, <1>6, <1>7

\* nntp_open() failed.
LEMMA OpenFailedStep ==
  ASSUME IInv, phase = "up", stack # <<>>, Top.fn = "open", wire = <<>>, OpenFailed,
         UNCHANGED <<last_put, conn, wire, server, user, lost, setup, accepted>>,
         trouble' \in 0..Troubles, ret' = None, ~lost => conn # "up",
         Textual(last_put) => last_put = Top.buf
  PROVE  IInv'
<1>1. TypeOK /\ WireOK /\ GroupOK /\ PostOK /\ Sendable(last_put, glob_group, inside)
  BY Here DEF IInv
<1>2. RetOK'
  BY DEF RetOK
<1>3. CASE Rest = <<>> \/ Head(Rest).retry = 1
  BY <1>2, <1>3, DoneStep DEF OpenFailed
<1>4. CASE ~(Rest = <<>> \/ Head(Rest).retry = 1)
  <2> DEFINE n == IF Head(Rest).retry = -1 THEN -1 ELSE Head(Rest).retry - 1
             f == [Head(Rest) EXCEPT !.retry = n]
  <2>1. stack' = <<f>> \o Tail(Rest) /\ phase' = phase
    BY <1>4 DEF OpenFailed
  <2>2. n \in -1..2
    <3>1. Head(Rest) \in Calls
      BY <1>4, Here, FramesTail DEF FrameOK
    <3>2. Head(Rest).retry \in -1..2
      BY <3>1 DEF Calls, Tries
    <3>3. QED
      BY <3>2, <1>4
  <2>3. /\ f \in Calls /\ f.fn = Head(Rest).fn /\ f.pc = Head(Rest).pc
        /\ f.cmd = Head(Rest).cmd /\ f.buf = Head(Rest).buf
    <3> HIDE DEF n
    <3>1. Head(Rest) \in Calls
      BY <1>4, Here, FramesTail DEF FrameOK
    <3>2. QED
      BY <2>2, <3>1, Retried
  <2> HIDE DEF n, f
  <2>4. /\ Frames(stack', lost, glob_group, inside, told) /\ stack' # <<>> /\ Head(stack') = f
        /\ Reads(f) /\ FrameOK(f, lost, glob_group, inside, told)
        /\ Textual(last_put) => last_put = Awaited(f)
    BY <1>4, <2>1, <2>2, <2>3, ResumeFrames
  <2>5. /\ phase' = "up" /\ accepted' = accepted /\ lost' = lost /\ wire' = wire
        /\ last_put' = last_put /\ server' = server /\ setup' = setup /\ told' = told
        /\ inside' = inside /\ glob_group' = glob_group /\ ops' = ops /\ conn' = conn
    BY <2>1 DEF user
  <2>6. Top' = f
    BY <2>4 DEF Top
  <2>7. TypeOK'
    BY <1>1, <2>4, <2>5 DEF TypeOK, Frames
  <2>8. WireOK'
    BY <1>1, <2>5 DEF WireOK
  <2>9. f.pc # "connect" /\ f.pc # "rejoin" /\ ~AsksCommand(f) /\ ~AsksAuth(f)
    BY <2>4 DEF Reads, AsksCommand, AsksAuth, FrameOK
  <2>10. ReadingOK'
    <3>1. wire' = <<>> /\ Len(wire') = 0 /\ (~lost' => conn' # "up")
      BY <2>5
    <3>2. Textual(last_put') => last_put' = Awaited(f)
      BY <2>4, <2>5
    <3>3. QED
      BY <3>1, <3>2, <2>6 DEF ReadingOK
  <2>11. TopOK'
    BY <1>1, <2>4, <2>5, <2>6, <2>9, <2>10 DEF TopOK
  <2>12. GroupOK'
    BY <1>1, <2>5 DEF GroupOK
  <2>13. PostOK'
    <3>1. ~lost /\ told # "posted" => accepted = 0
      BY Here
    <3>2. QED
      BY <3>1, <1>1, <2>5 DEF PostOK
  <2>14. QED
    BY <1>2, <2>4, <2>5, <2>7, <2>8, <2>11, <2>12, <2>13 DEF IInv
<1>5. QED
  BY <1>3, <1>4

\* What a call of nntp_open() knows when the call it made has returned
LEMMA OpenWaits ==
  ASSUME IInv, phase = "up", stack # <<>>, ret # None, Top.fn = "open",
         AsksCommand(Top) \/ AsksAuth(Top)
  PROVE  /\ wire = <<>> /\ ~Textual(last_put)
         /\ ~lost /\ Top.pc = "greet" => ret.code \in {"ok", "refused"}
         /\ ret.code = "refused" => conn # "up"
         /\ ~lost /\ conn = "up" => ~server.article
         /\ ~lost /\ told # "posted" => accepted = 0
<1>1. ReturnedOK /\ RetOK /\ PostOK
  BY DEF IInv, TopOK
<1>2. QED
  BY <1>1, Here DEF ReturnedOK, TextFollows, RetOK, PostOK

\* The innermost call of nntp_open() sends c and waits at pc for the answer.
LEMMA OpenAsks ==
  ASSUME IInv, phase = "up", stack # <<>>, ret # None, Top.fn = "open",
         AsksCommand(Top) \/ AsksAuth(Top), NEW pc \in {"mode", "mode2", "xover", "over"},
         NEW c, Ask(c, pc), c = (IF pc \in {"mode", "mode2"} THEN ModeReader
                                 ELSE IF pc = "xover" THEN Cmd("XOVER") ELSE Cmd("OVER")),
         UNCHANGED <<user, phase, lost, setup, accepted>>
  PROVE  IInv'
<1> DEFINE f == AtPc(pc)
<1>1. wire = <<>> /\ Top \in Calls
  BY OpenWaits, Here
<1>2. pc \in Places /\ f = AtPc(pc)
  BY DEF Places
<1> HIDE DEF f
<1>3. f.fn = "open" /\ f.pc = pc
  BY <1>1, <1>2, AtPcFacts
<1>4. AsksCommand(f)
  BY <1>3 DEF AsksCommand
<1>5. CommandOf(f) = c
  BY <1>3 DEF CommandOf
<1>6. Sendable(c, glob_group, inside) /\ ~Textual(c) /\ c # NoCommand
  <2>1. {"XOVER", "OVER"} \subseteq Verbs \ {"LISTGROUP", "GROUP", "ARTICLE", "article text", ""}
    BY DEF Verbs
  <2>2. /\ Sendable(Cmd("XOVER"), glob_group, inside) /\ ~Textual(Cmd("XOVER"))
        /\ Sendable(Cmd("OVER"), glob_group, inside) /\ ~Textual(Cmd("OVER"))
        /\ Cmd("XOVER") # NoCommand /\ Cmd("OVER") # NoCommand
    BY <2>1, OwnCommands
  <2>3. QED
    BY <2>2, OwnCommands
<1>7. QED
  BY <1>1, <1>2, <1>3, <1>4, <1>5, <1>6, AskStep

LEMMA GreetedStep == ASSUME IInv, Greeted PROVE IInv'
<1>1. phase = "up" /\ stack # <<>> /\ ret # None /\ Top.fn = "open" /\ AsksCommand(Top)
      /\ Top.pc = "greet"
  BY DEF Greeted, At, AsksCommand
<1>2. CASE ret.code = "ok"
  <2>1. Ask(ModeReader, "mode") /\ UNCHANGED <<user, phase, lost, setup, accepted>>
    BY <1>2 DEF Greeted
  <2>2. QED
    BY <1>1, <2>1, OpenAsks
<1>3. CASE ret.code # "ok"
  <2>1. /\ OpenFailed /\ ret' = None
        /\ UNCHANGED <<last_put, conn, wire, server, user, lost, setup, accepted>>
        /\ trouble' = trouble
    BY <1>3 DEF Greeted
  <2>2. wire = <<>> /\ ~Textual(last_put) /\ (~lost => conn # "up")
    BY <1>1, <1>3, OpenWaits
  <2>3. trouble' \in 0..Troubles
    BY <2>1 DEF IInv, TypeOK
  <2>4. QED
    BY <1>1, <2>1, <2>2, <2>3, OpenFailedStep
<1>4. QED
  BY <1>2, <1>3

LEMMA ModeReadStep == ASSUME IInv, ModeRead PROVE IInv'
<1>1. phase = "up" /\ stack # <<>> /\ ret # None /\ Top.fn = "open" /\ AsksCommand(Top)
  BY DEF ModeRead, At, AsksCommand
<1>2. /\ wire = <<>> /\ ~Textual(last_put) /\ (ret.code = "refused" => conn # "up")
      /\ ~lost /\ conn = "up" => ~server.article
      /\ ~lost /\ told # "posted" => accepted = 0
  BY <1>1, OpenWaits
<1>3. CASE ret.code = "refused"
  <2>1. /\ OpenFailed /\ ret' = None
        /\ UNCHANGED <<last_put, conn, wire, server, user, lost, setup, accepted>>
        /\ trouble' = trouble
    BY <1>3 DEF ModeRead
  <2>2. trouble' \in 0..Troubles
    BY <2>1 DEF IInv, TypeOK
  <2>3. QED
    BY <1>1, <1>2, <1>3, <2>1, <2>2, OpenFailedStep
<1>4. CASE ret.code # "refused" /\ setup.force /\ Top.pc = "mode"
  <2> DEFINE f == AtPc("force")
  <2>1. Authenticate(f, wire) /\ ret' = None /\ UNCHANGED <<user, phase, lost, setup, accepted>>
    BY <1>4 DEF ModeRead
  <2>2. f = AtPc("force") /\ "force" \in Places /\ Top \in Calls
        /\ FrameOK(Top, lost, glob_group, inside, told)
    BY <1>1, Here DEF Places
  <2> HIDE DEF f
  <2>3. f \in Calls /\ f.fn = Top.fn /\ f.pc = "force" /\ f.cmd = Top.cmd /\ f.buf = Top.buf
    BY <2>2, AtPcFacts
  <2>4. AsksAuth(f)
    BY <1>1, <2>3 DEF AsksAuth
  <2>5. FrameOK(f, lost, glob_group, inside, told)
    BY <1>1, <2>2, <2>3, <2>4, AtPcFrame
  <2>6. QED
    BY <1>1, <1>2, <2>1, <2>3, <2>4, <2>5, AuthenticateStep
<1>5. CASE ret.code # "refused" /\ ~(setup.force /\ Top.pc = "mode")
  <2>1. Ask(Cmd("XOVER"), "xover") /\ UNCHANGED <<user, phase, lost, setup, accepted>>
    BY <1>5 DEF ModeRead
  <2>2. QED
    BY <1>1, <2>1, OpenAsks
<1>6. QED
  BY <1>3, <1>4, <1>5

LEMMA ForcedStep == ASSUME IInv, Forced PROVE IInv'
<1>1. phase = "up" /\ stack # <<>> /\ ret # None /\ Top.fn = "open" /\ AsksAuth(Top)
  BY DEF Forced, At, AsksAuth
<1>2. Ask(ModeReader, "mode2") /\ UNCHANGED <<user, phase, lost, setup, accepted>>
  BY DEF Forced
<1>3. QED
  BY <1>1, <1>2, OpenAsks

\* nntp_open() went through.
LEMMA OpenDoneStep ==
  ASSUME IInv, phase = "up", stack # <<>>, ret # None, Top.fn = "open", AsksCommand(Top),
         OpenDone, ret' = None, UNCHANGED <<user, phase, lost, setup, accepted>>
  PROVE  IInv'
<1>1. /\ wire = <<>> /\ ~Textual(last_put) /\ (~lost /\ conn = "up" => ~server.article)
      /\ ~lost /\ told # "posted" => accepted = 0
  BY OpenWaits
<1>2. /\ lost \in BOOLEAN /\ ops \in 0..Ops /\ inside \in BOOLEAN /\ Top \in Calls
      /\ glob_group \in Groups \cup {NoGroup}
      /\ Frames(stack, lost, glob_group, inside, told)
      /\ FrameOK(Top, lost, glob_group, inside, told)
      /\ Rest = <<>> => Outermost(Top, inside)
      /\ Sendable(last_put, glob_group, inside) /\ wire \in Seq(Answers)
  BY Here
<1>3. TypeOK /\ WireOK /\ GroupOK /\ PostOK
  BY DEF IInv
<1>4. /\ phase' = "up" /\ setup' = setup /\ accepted' = accepted /\ told' = told
      /\ inside' = inside /\ ops' = ops /\ lost' = lost /\ glob_group' = glob_group
  BY DEF user
<1>5. RetOK'
  BY DEF RetOK
<1>6. CASE Rest = <<>>
  <2>1. stack' = <<>> /\ UNCHANGED <<last_put, conn, wire, server, trouble>>
    BY <1>6 DEF OpenDone
  <2>2. inside = FALSE
    BY <1>2, <1>6 DEF Outermost
  <2>3. TypeOK'
    BY <1>3, <1>4, <2>1 DEF TypeOK
  <2>4. WireOK'
    BY <1>3, <1>4, <2>1 DEF WireOK
  <2>5. ~Reading'
    BY <2>1 DEF Reading
  <2>6. TopOK'
    BY <1>1, <2>1, <2>5 DEF TopOK
  <2>7. GroupOK'
    BY <1>4, <2>2 DEF GroupOK
  <2>8. PostOK'
    BY <1>1, <1>3, <1>4, <2>1 DEF PostOK
  <2>9. Frames(stack', lost', glob_group', inside', told')
    BY <2>1, FramesNone
  <2>10. QED
    BY <1>4, <1>5, <2>3, <2>4, <2>6, <2>7, <2>8, <2>9 DEF IInv
<1>7. CASE Rest # <<>> /\ glob_group = NoGroup
  <2> DEFINE f == [Head(Rest) EXCEPT !.retry = 0]
             c == Top.buf
  <2>1. /\ Deliver(c, <<>>) /\ last_put' = IF c = NoCommand THEN last_put ELSE c
        /\ stack' = <<f>> \o Tail(Rest)
    BY <1>1, <1>7 DEF OpenDone, Put
  <2>2. /\ f \in Calls /\ f.fn = Head(Rest).fn /\ f.pc = Head(Rest).pc
        /\ f.cmd = Head(Rest).cmd /\ f.buf = Head(Rest).buf
    <3>1. Head(Rest) \in Calls
      BY <1>7, Here, FramesTail DEF FrameOK
    <3>2. QED
      BY <3>1, Retried
  <2>3. Sendable(c, glob_group, inside)
    BY <1>2 DEF FrameOK
  <2>4. c = Top.buf
    OBVIOUS
  <2> HIDE DEF f, c
  <2>5. /\ Frames(stack', lost, glob_group, inside, told) /\ stack' # <<>> /\ Head(stack') = f
        /\ Reads(f)
        /\ ~lost => c = Awaited(f) /\ c # NoCommand
        /\ Textual(c) => c = Awaited(f)
    BY <1>7, <2>1, <2>2, <2>4, ResumeFrames
  <2>6. inside = FALSE /\ Joined
    BY <1>2, <1>3, <1>7 DEF GroupOK, Joined
  <2>7. Sendable(c, glob_group', inside) /\ Sendable(last_put, glob_group', inside)
    BY <1>2, <1>4, <2>3
  <2>8. /\ Frames(stack', lost', glob_group', inside, told) /\ Reads(Head(stack'))
        /\ ~lost' => c = Awaited(Head(stack')) /\ c # NoCommand
        /\ Textual(c) => c = Awaited(Head(stack'))
        /\ ~lost' /\ (Afloat(stack') \/ c.verb = "ARTICLE") => Joined
        /\ ~lost' /\ told # "posted" => accepted = 0
        /\ ~lost' /\ conn = "up" => ~server.article
        /\ ops' \in 0..Ops /\ lost' \in BOOLEAN /\ (lost => lost')
        /\ glob_group' \in Groups \cup {NoGroup}
    BY <1>1, <1>2, <1>4, <2>5, <2>6
  <2>9. \/ last_put' = c
        \/ c = NoCommand /\ Sendable(last_put', glob_group', inside) /\ ~Textual(last_put')
    BY <1>1, <2>1, <2>7
  <2>10. QED
    BY <1>4, <2>1, <2>5, <2>7, <2>8, <2>9, SendStep
<1>8. CASE Rest # <<>> /\ glob_group # NoGroup
  <2> DEFINE c == GroupCmd("GROUP", glob_group)
             f == [Top EXCEPT !.pc = "rejoin"]
  <2>1. Put(c, wire) /\ stack' = <<f>> \o Rest
    BY <1>8 DEF OpenDone, Goto
  <2>2. Sendable(c, glob_group, inside) /\ c # NoCommand /\ c.verb = "GROUP"
    BY <1>2, GroupSendable DEF GroupCmd
  <2>3. f.fn = "open" /\ f.pc = "rejoin" /\ f.cmd = Top.cmd /\ f.buf = Top.buf /\ f \in Calls
    BY <1>2 DEF Calls
  <2> HIDE DEF c, f
  <2>4. Deliver(c, <<>>) /\ last_put' = c
    BY <1>1, <2>1, <2>2 DEF Put
  <2>5. ~Textual(c) /\ c # Post
    <3>1. Post.verb = "POST"
      BY DEF Post, Cmd
    <3>2. QED
      BY <3>1, <2>2 DEF Textual
  <2>6. /\ conn' \in {"none", "up", "gone"} /\ (conn' = "up" => conn = "up")
        /\ wire' \in Seq(Answers) /\ server' \in Servers /\ trouble' \in 0..Troubles
        /\ OneAnswer(wire', conn')
        /\ \A i \in 1..Len(wire') :
             LineOK(wire'[i], conn', server', lost', glob_group', inside, accepted)
        /\ \A i \in 1..Len(wire') : wire'[i].to = c
        /\ wire' # <<>> /\ wire'[1].code = "cont" => server'.article
        /\ server'.article => \/ wire' # <<>> /\ wire'[1].code = "cont" /\ c = Post
                              \/ server.article
        /\ conn' = "up" /\ inside => server'.group \in {NoGroup, glob_group'}
        /\ conn = "up" /\ ~server.article /\ c.verb = "GROUP" =>
             server'.group = glob_group' \/ server'.denied
    <3>1. /\ glob_group' \in Groups \cup {NoGroup} /\ Sendable(c, glob_group', inside)
          /\ inside => glob_group' # NoGroup
          /\ conn = "up" /\ inside => server.group \in {NoGroup, glob_group'}
      BY <1>2, <1>3, <1>4, <1>8, <2>2 DEF GroupOK
    <3>2. conn = "up" /\ c.verb = "ARTICLE" /\ ~lost' =>
            server.group = glob_group' \/ server.denied
      BY <2>2
    <3>3. QED
      BY <1>3, <2>4, <3>1, <3>2, DeliverFacts
  <2>7. Len(wire') <= 1
    BY <2>5, <2>6, OneLine DEF LineOK
  <2>8. FrameOK(f, lost, glob_group, inside, told)
    BY <1>2, <2>3 DEF FrameOK
  <2>9. /\ Frames(stack', lost, glob_group, inside, told) /\ stack' # <<>> /\ Head(stack') = f
        /\ Tail(stack') = Rest
    <3>1. f.fn = Head(stack).fn /\ f.cmd = Head(stack).cmd /\ f.buf = Head(stack).buf
      BY <2>3 DEF Top
    <3>2. /\ Frames(<<f>> \o Tail(stack), lost, glob_group, inside, told)
          /\ <<f>> \o Tail(stack) # <<>> /\ Head(<<f>> \o Tail(stack)) = f
          /\ Tail(<<f>> \o Tail(stack)) = Tail(stack)
      BY <1>2, <2>8, <3>1, GotoFrames
    <3>3. QED
      BY <2>1, <3>2 DEF Rest
  <2>10. Top' = f /\ Rest' # <<>>
    BY <1>8, <2>9 DEF Top, Rest
  <2>11. TypeOK'
    BY <1>2, <1>3, <1>4, <2>2, <2>4, <2>6, <2>9 DEF TypeOK, Frames, Sendable
  <2>12. WireOK'
    BY <1>4, <2>6 DEF WireOK
  <2>13. ~Reading' /\ ~AsksCommand(f) /\ ~AsksAuth(f)
    BY <2>3, <2>10 DEF Reading, AsksCommand, AsksAuth
  <2>14. Sendable(last_put', glob_group', inside') /\ ~Textual(last_put')
    BY <1>4, <2>2, <2>4, <2>5
  <2>15. TopOK'
    BY <2>3, <2>7, <2>9, <2>10, <2>13, <2>14 DEF TopOK
  <2>16. GroupOK'
    BY <1>1, <1>3, <1>4, <1>8, <2>2, <2>6 DEF GroupOK
  <2>17. PostOK'
    BY <1>1, <1>3, <1>4, <2>5, <2>6 DEF PostOK
  <2>18. Frames(stack', lost', glob_group', inside', told')
    BY <1>4, <2>9
  <2>19. QED
    BY <1>4, <1>5, <2>11, <2>12, <2>15, <2>16, <2>17, <2>18 DEF IInv
<1>9. QED
  BY <1>6, <1>7, <1>8

LEMMA ProbedStep == ASSUME IInv, Probed PROVE IInv'
<1>1. phase = "up" /\ stack # <<>> /\ ret # None /\ Top.fn = "open" /\ AsksCommand(Top)
      /\ UNCHANGED <<user, phase, lost, setup, accepted>>
  BY DEF Probed, At, AsksCommand
<1>2. CASE ret.code = "unknown" /\ Top.pc = "xover"
  <2>1. Ask(Cmd("OVER"), "over")
    BY <1>2 DEF Probed
  <2>2. QED
    BY <1>1, <2>1, OpenAsks
<1>3. CASE ~(ret.code = "unknown" /\ Top.pc = "xover")
  <2>1. OpenDone /\ ret' = None
    BY <1>3 DEF Probed
  <2>2. QED
    BY <1>1, <2>1, OpenDoneStep
<1>4. QED
  BY <1>2, <1>3

LEMMA RejoinStep == ASSUME IInv, Rejoin PROVE IInv'
<1>1. /\ phase = "up" /\ stack # <<>> /\ Top.fn = "open" /\ Top.pc = "rejoin"
      /\ UNCHANGED <<ret, user, phase, lost, setup, accepted>>
  BY DEF Rejoin, At
<1>2. /\ lost \in BOOLEAN /\ ops \in 0..Ops /\ inside \in BOOLEAN
      /\ glob_group \in Groups \cup {NoGroup}
      /\ FrameOK(Top, lost, glob_group, inside, told)
      /\ Sendable(last_put, glob_group, inside) /\ wire \in Seq(Answers)
      /\ ~lost /\ told # "posted" => accepted = 0
      /\ ret = None /\ Rest # <<>> /\ Len(wire) <= 1 /\ ~Textual(last_put)
  BY <1>1, Here DEF TopOK
<1>3. /\ phase' = "up" /\ setup' = setup /\ accepted' = accepted /\ told' = told /\ ret' = None
      /\ inside' = inside /\ ops' = ops /\ lost' = lost /\ glob_group' = glob_group
  BY <1>1, <1>2 DEF user
<1> DEFINE f == [Head(Rest) EXCEPT !.retry = 0]
           c == Top.buf
<1>4. wire # <<>> => Tail(wire) = <<>>
  <2>1. ASSUME wire # <<>> PROVE Len(wire) = 1
    <3>1. Len(wire) \in Nat /\ Len(wire) # 0 /\ Len(wire) <= 1
      BY <1>2, <2>1, EmptyLen
    <3>2. \A n \in Nat : n <= 1 /\ n # 0 => n = 1
      OBVIOUS
    <3>3. QED
      BY <3>1, <3>2
  <2>2. QED
    BY <1>2, <2>1, TailFacts
<1>5. /\ Deliver(c, <<>>) /\ stack' = <<f>> \o Tail(Rest)
      /\ last_put' = IF c # NoCommand THEN c ELSE IF wire # <<>> THEN Answer ELSE last_put
  BY <1>4 DEF Rejoin
<1>6. /\ f \in Calls /\ f.fn = Head(Rest).fn /\ f.pc = Head(Rest).pc
      /\ f.cmd = Head(Rest).cmd /\ f.buf = Head(Rest).buf
  <2>1. Head(Rest) \in Calls
    BY <1>1, <1>2, Here, FramesTail DEF FrameOK
  <2>2. QED
    BY <2>1, Retried
<1>7. Sendable(c, glob_group, inside) /\ c = Top.buf
  BY <1>2 DEF FrameOK
<1> HIDE DEF f, c
<1>8. /\ Frames(stack', lost, glob_group, inside, told) /\ stack' # <<>> /\ Head(stack') = f
      /\ Reads(f)
      /\ ~lost => c = Awaited(f) /\ c # NoCommand
      /\ Textual(c) => c = Awaited(f)
  BY <1>1, <1>2, <1>5, <1>6, <1>7, ResumeFrames
<1>9. ~lost => Joined
  BY <1>1 DEF IInv, GroupOK, Joined
<1>10. ~lost /\ conn = "up" => ~server.article
  BY <1>1 DEF IInv, PostOK
<1>11. Sendable(Answer, glob_group, inside) /\ ~Textual(Answer)
  <2>1. "an answer of the server" \in Verbs \ {"LISTGROUP", "GROUP", "ARTICLE", "article text"}
    BY DEF Verbs
  <2>2. QED
    BY <2>1, OwnCommands DEF Answer
<1>12. Sendable(c, glob_group', inside)
       /\ (\/ last_put' = c
           \/ c = NoCommand /\ Sendable(last_put', glob_group', inside) /\ ~Textual(last_put'))
  BY <1>2, <1>3, <1>5, <1>7, <1>11
<1>13. /\ Frames(stack', lost', glob_group', inside, told) /\ Reads(Head(stack'))
       /\ ~lost' => c = Awaited(Head(stack')) /\ c # NoCommand
       /\ Textual(c) => c = Awaited(Head(stack'))
       /\ ~lost' /\ (Afloat(stack') \/ c.verb = "ARTICLE") => Joined
       /\ ~lost' /\ told # "posted" => accepted = 0
       /\ ~lost' /\ conn = "up" => ~server.article
       /\ ops' \in 0..Ops /\ lost' \in BOOLEAN /\ (lost => lost')
       /\ glob_group' \in Groups \cup {NoGroup} /\ glob_group' = glob_group
  BY <1>2, <1>3, <1>8, <1>9, <1>10
<1>14. QED
  BY <1>1, <1>3, <1>5, <1>8, <1>12, <1>13, SendStep

\* The connection is made, and the sign-on is read by get_respcode().
LEMMA Connected ==
  ASSUME IInv, phase = "up", stack # <<>>, Top.fn = "open", Top.pc = "connect",
         NEW code \in {"ok", "refused"}, wire' = <<Line(NoCommand, code, Fresh)>>,
         conn' = (IF code = "ok" THEN "up" ELSE "gone"), trouble' \in 0..Troubles,
         last_put' = NoCommand, server' = Fresh,
         Into(Call("command", "status", NoCommand), AtPc("greet")),
         UNCHANGED <<phase, ret, user, lost, setup, accepted>>
  PROVE  IInv'
<1> DEFINE e == Call("command", "status", NoCommand)
           f == AtPc("greet")
<1>1. /\ Top \in Calls /\ lost \in BOOLEAN /\ stack \in Seq(Calls)
      /\ FrameOK(Top, lost, glob_group, inside, told)
      /\ Frames(stack, lost, glob_group, inside, told)
      /\ ~lost /\ told # "posted" => accepted = 0
      /\ ret = None
  BY Here DEF TopOK
<1>2. /\ phase' = "up" /\ accepted' = accepted /\ lost' = lost /\ setup' = setup /\ told' = told
      /\ inside' = inside /\ glob_group' = glob_group /\ ops' = ops /\ ret' = None
  BY <1>1 DEF user
<1>3. stack' = <<e, f>> \o Rest /\ e = Call("command", "status", NoCommand) /\ f = AtPc("greet")
      /\ "greet" \in Places
  BY DEF Into, Places
<1>4. TypeOK /\ GroupOK /\ PostOK
  BY DEF IInv
<1> HIDE DEF e, f
<1>5. Sendable(NoCommand, glob_group, inside) /\ ~Textual(NoCommand) /\ NoCommand.verb = ""
      /\ NoCommand \in Commands
  BY OwnCommands DEF NoCommand, Cmd, Sendable
<1>6. /\ FrameOK(e, lost, glob_group, inside, told) /\ Reads(e) /\ Awaited(e) = NoCommand
      /\ e.fn = "command" /\ e.cmd = NoCommand /\ e.pc = "status"
  <2>1. /\ FrameOK(e, lost, glob_group, inside, told) /\ Reads(e) /\ Awaited(e) = NoCommand
        /\ e.fn = "command" /\ e.cmd = NoCommand
    <3>1. Sendable(NoCommand, glob_group, inside) /\ e = Call("command", "status", NoCommand)
      BY <1>3, <1>5
    <3>2. QED
      BY ONLY <3>1, CommandCall
  <2>2. e.pc = "status"
    BY <1>3, CallFacts
  <2>3. QED
    BY <2>1, <2>2
<1>7. /\ f \in Calls /\ f.fn = "open" /\ f.pc = "greet" /\ f.cmd = Top.cmd /\ f.buf = Top.buf
  BY <1>1, <1>3, AtPcFacts
<1>8. AsksCommand(f) /\ CommandOf(f) = NoCommand
  BY <1>7 DEF AsksCommand, CommandOf
<1>9. FrameOK(f, lost, glob_group, inside, told) /\ Over(e, f, lost)
  BY <1>1, <1>6, <1>7, <1>8, AtPcFrame DEF Over
<1>10. /\ Frames(stack', lost, glob_group, inside, told) /\ stack' # <<>> /\ Head(stack') = e
       /\ Afloat(stack') <=> Afloat(stack)
  <2>1. f.fn = Head(stack).fn /\ f.cmd = Head(stack).cmd /\ f.buf = Head(stack).buf /\ e.fn # "open"
    BY <1>6, <1>7 DEF Top
  <2>2. FrameOK(e, lost, glob_group, inside, told)
    BY <1>6
  <2>3. /\ Frames(<<e, f>> \o Tail(stack), lost, glob_group, inside, told)
        /\ <<e, f>> \o Tail(stack) # <<>> /\ Head(<<e, f>> \o Tail(stack)) = e
        /\ Afloat(<<e, f>> \o Tail(stack)) <=> Afloat(stack)
    BY <1>1, <1>9, <2>1, <2>2, IntoFrames
  <2>4. QED
    BY <1>3, <2>3 DEF Rest
<1>11. ~Afloat(stack')
  BY <1>1, <1>10, AfloatTail DEF Top
<1>12. Top' = e
  BY <1>10 DEF Top
<1>13. Fresh \in Servers /\ Fresh.group = NoGroup /\ Fresh.article = FALSE
  BY DEF Fresh, Servers
<1>14. /\ wire' \in Seq(Answers) /\ wire' # <<>> /\ OneAnswer(wire', conn')
       /\ \A i \in 1..Len(wire') : wire'[i].to = NoCommand /\ wire'[i].code = code
       /\ wire'[1].code = code
  <2> DEFINE w == <<Line(NoCommand, code, Fresh)>>
  <2>1. w = Lines(NoCommand, code, Fresh)
    BY <1>5 DEF Lines
  <2>2. code \in Codes \ {"line", "dot"}
    BY DEF Codes
  <2>3. wire' = w
    OBVIOUS
  <2> HIDE DEF w
  <2>4. /\ w \in Seq(Answers) /\ w # <<>> /\ w[1].code = code /\ OneAnswer(w, conn')
        /\ \A i \in 1..Len(w) : /\ w[i] = Line(NoCommand, w[i].code, Fresh)
                                /\ w[i].code = code \/ (code = "ok" /\ Textual(NoCommand))
                                /\ w[i].code \in {code, "line", "dot"}
    <3>1. NoCommand \in Commands /\ Fresh \in Servers
      BY <1>5, <1>13
    <3>2. QED
      BY ONLY <2>1, <2>2, <3>1, LinesFacts
  <2>5. \A k : Line(NoCommand, k, Fresh).to = NoCommand
    BY DEF Line
  <2>6. \A i \in 1..Len(w) : w[i].to = NoCommand /\ w[i].code = code
    BY <2>4, <2>5, <1>5
  <2>7. QED
    BY <2>3, <2>4, <2>6
<1>15. TypeOK'
  BY <1>2, <1>4, <1>5, <1>10, <1>13, <1>14 DEF TypeOK, Frames
<1>16. WireOK'
  <2>1. \A i \in 1..Len(wire') :
          LineOK(wire'[i], conn', server', lost', glob_group', inside', accepted')
    BY <1>5, <1>14 DEF LineOK, GroupVerb, Textual
  <2>2. QED
    BY <2>1, <1>14 DEF WireOK
<1>17. ReadingOK'
  BY <1>5, <1>6, <1>12, <1>14 DEF ReadingOK
<1>18. TopOK'
  BY <1>2, <1>5, <1>6, <1>10, <1>12, <1>17 DEF TopOK, AsksCommand, AsksAuth
<1>19. RetOK'
  BY <1>2 DEF RetOK
<1>20. GroupOK'
  BY <1>2, <1>4, <1>6, <1>11, <1>12, <1>13 DEF GroupOK
<1>21. PostOK'
  BY <1>1, <1>2, <1>4, <1>13, <1>14 DEF PostOK
<1>22. QED
  BY <1>2, <1>10, <1>15, <1>16, <1>18, <1>19, <1>20, <1>21 DEF IInv

LEMMA ConnectStep == ASSUME IInv, Connect PROVE IInv'
<1>1. /\ phase = "up" /\ stack # <<>> /\ Top.fn = "open" /\ Top.pc = "connect"
      /\ UNCHANGED <<ret, user, lost, setup, accepted>>
  BY DEF Connect, At
<1>2. /\ ret = None /\ wire = <<>> /\ conn = "none"
      /\ Textual(last_put) => last_put = Top.buf
  BY <1>1 DEF IInv, TopOK
<1>3. trouble \in 0..Troubles /\ Troubles \in Nat
  BY NntpAssumption DEF IInv, TypeOK, NntpAssumption
<1>4. CASE /\ trouble < Troubles /\ trouble' = trouble + 1
           /\ OpenFailed /\ UNCHANGED <<last_put, conn, wire, server>>
  <2>1. trouble' \in 0..Troubles
    BY <1>3, <1>4
  <2>2. QED
    BY <1>1, <1>2, <1>4, <2>1, OpenFailedStep
<1>5. CASE /\ last_put' = NoCommand /\ server' = Fresh
           /\ Into(Call("command", "status", NoCommand), AtPc("greet"))
           /\ \/ /\ conn' = "up" /\ wire' = <<Line(NoCommand, "ok", Fresh)>>
                 /\ UNCHANGED trouble
              \/ /\ conn' = "gone" /\ wire' = <<Line(NoCommand, "refused", Fresh)>>
                 /\ trouble < Troubles /\ trouble' = trouble + 1
           /\ UNCHANGED phase
  <2>1. trouble' \in 0..Troubles
    BY <1>3, <1>5
  <2>2. \E code \in {"ok", "refused"} : /\ wire' = <<Line(NoCommand, code, Fresh)>>
                                        /\ conn' = (IF code = "ok" THEN "up" ELSE "gone")
    BY <1>5
  <2>3. QED
    BY <1>1, <1>5, <2>1, <2>2, Connected
<1>6. QED
  BY <1>4, <1>5 DEF Connect

\* A read that must be recovered: what it says of lost
LEMMA MissFacts ==
  ASSUME IInv, phase = "up", Reading
  PROVE  /\ stack # <<>> /\ ret = None /\ Reads(Top) /\ ReadingOK /\ Misses \in BOOLEAN
         /\ ~Misses => last_put = Awaited(Top) /\ last_put # NoCommand
         /\ Top.fn = "post" => Top.pc = "verdict" /\ Awaited(Top) = Text /\ Misses
         /\ ~lost /\ ~Misses /\ told # "posted" => accepted = 0
<1>1. stack # <<>> /\ ret = None /\ ReadingOK
  BY DEF IInv, TopOK, Reading
<1>2. /\ FrameOK(Top, lost, glob_group, inside, told) /\ Sendable(last_put, glob_group, inside)
      /\ ~lost /\ told # "posted" /\ ~(Top.fn = "post" /\ Top.pc = "verdict") => accepted = 0
  BY <1>1, Here
<1>3. Reads(Top)
  BY <1>2 DEF Reading, FrameOK, Reads, AsksAuth, AsksCommand
<1>4. Misses \in BOOLEAN /\ (~Misses => last_put = Awaited(Top) /\ last_put # NoCommand)
  BY DEF Misses
<1>5. ASSUME Top.fn = "post" PROVE Top.pc = "verdict" /\ Awaited(Top) = Text /\ Misses
  <2>1. Top.pc = "verdict"
    BY <1>3, <1>5 DEF Reads
  <2>2. Awaited(Top) = Text
    BY <1>5, <2>1 DEF Awaited
  <2>3. Text.verb = "article text" /\ last_put.verb # "article text"
    BY <1>2 DEF Text, Cmd, Sendable
  <2>4. QED
    BY <2>1, <2>2, <2>3, <1>4
<1>6. QED
  BY <1>1, <1>2, <1>3, <1>4, <1>5

\* A read fails, and reconnect() calls nntp_open().
LEMMA Reconnects ==
  ASSUME IInv, phase = "up", Reading, wire = <<>>, wire' = wire, conn' = "none",
         NEW f \in Calls, f.fn = "open", f.pc = "connect", f.cmd = NoCommand, f.buf = last_put,
         stack' = <<f>> \o stack, lost' = (lost \/ Misses), phase' = phase, ret' = ret,
         UNCHANGED <<last_put, user, server, setup, accepted, trouble>>
  PROVE  IInv'
<1>1. /\ stack # <<>> /\ ret = None /\ Reads(Top) /\ ReadingOK /\ Misses \in BOOLEAN
      /\ ~Misses => last_put = Awaited(Top) /\ last_put # NoCommand
      /\ ~lost /\ ~Misses /\ told # "posted" => accepted = 0
  BY MissFacts
<1>2. /\ lost \in BOOLEAN /\ Frames(stack, lost, glob_group, inside, told)
      /\ Sendable(last_put, glob_group, inside)
  BY <1>1, Here
<1>3. TypeOK /\ GroupOK /\ PostOK
  BY DEF IInv
<1>4. /\ phase' = "up" /\ accepted' = accepted /\ setup' = setup /\ told' = told
      /\ inside' = inside /\ glob_group' = glob_group /\ ops' = ops /\ ret' = None
      /\ last_put' = last_put /\ server' = server /\ trouble' = trouble
      /\ lost' \in BOOLEAN /\ (lost => lost')
  BY <1>1, <1>2 DEF user
<1>5. Sendable(NoCommand, glob_group, inside)
  BY OwnCommands
<1>6. FrameOK(f, lost', glob_group, inside, told)
  BY <1>2, <1>5 DEF FrameOK
<1>7. Over(f, Top, lost')
  BY <1>1, <1>4 DEF Over, ReadingOK
<1>8. Frames(stack, lost', glob_group, inside, told)
  BY <1>2, <1>4, FramesLost
<1>9. /\ Frames(stack', lost', glob_group, inside, told)
       /\ stack' # <<>> /\ Head(stack') = f /\ Tail(stack') = stack
  <2>1. stack # <<>> /\ Over(f, Head(stack), lost')
    BY <1>1, <1>7 DEF Top
  <2>2. /\ Frames(<<f>> \o stack, lost', glob_group, inside, told)
        /\ <<f>> \o stack # <<>> /\ Head(<<f>> \o stack) = f /\ Tail(<<f>> \o stack) = stack
    BY <1>6, <1>8, <2>1, FramesCons
  <2>3. QED
    BY <2>2
<1>10. Top' = f /\ Rest' = stack
  BY <1>9 DEF Top, Rest
<1>11. TypeOK'
  BY <1>3, <1>4, <1>9 DEF TypeOK, Frames
<1>12. WireOK'
  <2>1. wire' = <<>> /\ Len(wire') = 0
    OBVIOUS
  <2>2. QED
    BY <2>1, NothingUnread DEF WireOK
<1>13. ~Reading' /\ ~AsksCommand(f) /\ ~AsksAuth(f)
  BY <1>10 DEF Reading, AsksCommand, AsksAuth
<1>14. TopOK'
  BY <1>1, <1>2, <1>4, <1>9, <1>10, <1>13 DEF TopOK
<1>15. RetOK'
  BY <1>4 DEF RetOK
<1>16. GroupOK'
  BY <1>3, <1>4 DEF GroupOK
<1>17. PostOK'
  BY <1>1, <1>3, <1>4 DEF PostOK
<1>18. Frames(stack', lost', glob_group', inside', told')
  BY <1>4, <1>9
<1>19. QED
  BY <1>4, <1>11, <1>12, <1>14, <1>15, <1>16, <1>17, <1>18 DEF IInv

LEMMA EofStep == ASSUME IInv, Eof PROVE IInv'
<1>1. /\ phase = "up" /\ Reading /\ wire = <<>> /\ conn' = "none"
      /\ UNCHANGED <<last_put, user, wire, server, setup, accepted, trouble>>
  BY DEF Eof, Reading
<1>2. stack # <<>> /\ ret = None
  BY <1>1, MissFacts
<1>3. TypeOK /\ trouble' \in 0..Troubles
  BY <1>1 DEF IInv, TypeOK
<1>4. CASE Done /\ (ret' = ret \/ ret' = Verdict("ok")) /\ UNCHANGED lost
  <2>1. RetOK' /\ ret' \in Results \cup {None}
    <3>1. CASE ret' = Verdict("ok")
      BY <3>1, <1>3, VerdictOK
    <3>2. CASE ret' = ret
      BY <3>2, <1>2 DEF RetOK
    <3>3. QED
      BY <1>4, <3>1, <3>2
  <2>2. QED
    BY <1>1, <1>2, <1>3, <1>4, <2>1, DoneStep
<1>5. CASE /\ stack' = <<[Call("open", "connect", NoCommand) EXCEPT !.buf = last_put]>> \o stack
           /\ lost' = (lost \/ Misses) /\ UNCHANGED <<ret, phase>>
  <2> DEFINE e == Call("open", "connect", NoCommand)
             f == [e EXCEPT !.buf = last_put]
  <2>1. NoCommand \in Commands /\ last_put \in Commands
    BY <1>1, <1>2, Here, OwnCommands DEF Sendable
  <2>2. e \in Calls /\ e.fn = "open" /\ e.pc = "connect" /\ e.cmd = NoCommand
    BY <2>1 DEF Call, Calls, Tries
  <2>3. stack' = <<f>> \o stack
    BY <1>5
  <2>4. f = [e EXCEPT !.buf = last_put]
    OBVIOUS
  <2> HIDE DEF e, f
  <2>5. f \in Calls /\ f.fn = "open" /\ f.pc = "connect" /\ f.cmd = NoCommand /\ f.buf = last_put
    BY <2>1, <2>2, <2>4 DEF Calls
  <2>6. QED
    BY <1>1, <1>5, <2>3, <2>5, Reconnects
<1>6. QED
  BY <1>4, <1>5 DEF Eof

-----------------------------------------------------------------------------
(* get_respcode(), authenticate() and reading *)

\* A text is read outside of any reconnection.
LEMMA TextAfloat ==
  ASSUME IInv, phase = "up", stack # <<>>, Reads(Top), Textual(Awaited(Top))
  PROVE  Afloat(stack)
<1>1. Frames(stack, lost, glob_group, inside, told) /\ FrameOK(Top, lost, glob_group, inside, told)
  BY Here
<1>2. CASE Top.fn = "command"
  <2>1. Awaited(Top) = Top.cmd
    BY <1>2 DEF Reads, Awaited
  <2>2. QED
    BY <1>1, <1>2, <2>1, TextIsUsers DEF Top
<1>3. CASE Top.fn = "auth"
  BY <1>1, <1>3, AwaitedAuth DEF FrameOK, Textual
<1>4. CASE Top.fn \in {"caller", "post"}
  BY <1>1, <1>4, CallerIsLast DEF Top
<1>5. QED
  BY <1>2, <1>3, <1>4 DEF Reads

LEMMA ResendStep == ASSUME IInv, Resend PROVE IInv'
<1> DEFINE f == [Top EXCEPT !.resent = TRUE, !.retry = Tries]
           c == last_put
<1>1. /\ phase = "up" /\ Reading /\ wire # <<>> /\ Head(wire).code = "fault" /\ c # NoCommand
      /\ UNCHANGED <<ret, user, phase, setup, accepted>>
      /\ Put(c, Tail(wire)) /\ stack' = <<f>> \o Rest /\ lost' = (lost \/ Misses)
  BY DEF Resend, Reading, Resending, Goto
<1>2. /\ stack # <<>> /\ ret = None /\ Reads(Top) /\ ReadingOK /\ Misses \in BOOLEAN
      /\ ~Misses => c = Awaited(Top)
      /\ ~lost /\ ~Misses /\ told # "posted" => accepted = 0
      /\ Top.fn = "post" => Top.pc = "verdict"
  BY <1>1, MissFacts
<1>3. /\ Top \in Calls /\ lost \in BOOLEAN /\ ops \in 0..Ops /\ inside \in BOOLEAN
      /\ glob_group \in Groups \cup {NoGroup}
      /\ Frames(stack, lost, glob_group, inside, told)
      /\ FrameOK(Top, lost, glob_group, inside, told)
      /\ Sendable(c, glob_group, inside)
      /\ OneAnswer(wire, conn) /\ wire \in Seq(Answers)
      /\ ~lost /\ Afloat(stack) => Joined
  BY <1>1, <1>2, Here
<1>4. Textual(c) => c = Awaited(Top)
  BY <1>2 DEF ReadingOK
<1>5. Textual(c) => Afloat(stack)
  BY <1>1, <1>2, <1>4, TextAfloat
<1>6. wire[1].code = "fault" /\ Tail(wire) = <<>>
  <2>1. wire[1].code = "fault"
    BY <1>1, <1>3, LineRead
  <2>2. Final(wire[1])
    BY <2>1 DEF Final
  <2>3. QED
    BY <1>1, <1>3, <2>1, <2>2, LineRead
<1>7. /\ phase' = "up" /\ setup' = setup /\ accepted' = accepted /\ told' = told /\ ret' = None
      /\ inside' = inside /\ ops' = ops /\ glob_group' = glob_group
      /\ lost' \in BOOLEAN /\ (lost => lost') /\ (Misses => lost')
  BY <1>1, <1>2, <1>3 DEF user
<1>8. f \in Calls /\ f.fn = Top.fn /\ f.pc = Top.pc /\ f.cmd = Top.cmd /\ f.buf = Top.buf
  <2> DEFINE u == [Top EXCEPT !.resent = TRUE]
  <2>1. u \in Calls /\ u.fn = Top.fn /\ u.pc = Top.pc /\ u.cmd = Top.cmd /\ u.buf = Top.buf
    BY <1>3 DEF Calls
  <2>2. f = [u EXCEPT !.retry = 2]
    BY DEF Tries
  <2> HIDE DEF u, f
  <2>3. 2 \in -1..2
    OBVIOUS
  <2>4. QED
    BY <2>1, <2>2, <2>3, Retried
<1>9. Deliver(c, <<>>) /\ last_put' = c
  BY <1>1, <1>6 DEF Put
<1> HIDE DEF f, c
<1>10. FrameOK(f, lost', glob_group, inside, told)
  <2>1. FrameOK(Top, lost', glob_group, inside, told)
    BY <1>3, <1>7 DEF FrameOK
  <2>2. QED
    BY <1>8, <2>1, Similar
<1>11. Reads(f) /\ Awaited(f) = Awaited(Top)
  <2>1. Top.fn = "auth" => Top.pc \in {"generic", "user", "pass"}
    BY <1>3 DEF FrameOK
  <2>2. QED
    BY <1>2, <1>8, <2>1, SimilarReads
<1>12. /\ Frames(stack', lost', glob_group, inside, told) /\ stack' # <<>> /\ Head(stack') = f
       /\ Afloat(stack') <=> Afloat(stack)
  <2>1. f.fn = Head(stack).fn /\ f.cmd = Head(stack).cmd /\ f.buf = Head(stack).buf
    BY <1>8 DEF Top
  <2>2. /\ Frames(<<f>> \o Tail(stack), lost', glob_group, inside, told)
        /\ <<f>> \o Tail(stack) # <<>> /\ Head(<<f>> \o Tail(stack)) = f
        /\ Afloat(<<f>> \o Tail(stack)) <=> Afloat(stack)
    BY <1>2, <1>3, <1>7, <1>10, <2>1, GotoFrames
  <2>3. QED
    BY <1>1, <2>2 DEF Rest
<1>13. ~lost /\ conn = "up" => ~server.article
  <2>1. PostOK /\ phase = "up"
    BY <1>1 DEF IInv
  <2>2. wire[1].code # "cont" /\ (Top.fn = "post" => Top.pc # "status")
    BY <1>2, <1>6
  <2>3. QED
    BY <2>1, <2>2 DEF PostOK
<1>14. Sendable(c, glob_group', inside)
       /\ Frames(stack', lost', glob_group', inside, told) /\ Reads(Head(stack'))
  BY <1>3, <1>7, <1>11, <1>12
<1>15. /\ ~lost' => c = Awaited(Head(stack')) /\ c # NoCommand
       /\ Textual(c) => c = Awaited(Head(stack'))
       /\ ~lost' /\ told # "posted" => accepted = 0
       /\ ~lost' /\ conn = "up" => ~server.article
       /\ ops' \in 0..Ops /\ glob_group' \in Groups \cup {NoGroup}
  BY <1>1, <1>2, <1>3, <1>4, <1>7, <1>11, <1>12, <1>13 DEF c
<1>16. ~lost' /\ (Afloat(stack') \/ c.verb = "ARTICLE") => Joined
  BY <1>3, <1>5, <1>7, <1>12 DEF Textual
<1>17. QED
  BY <1>1, <1>7, <1>9, <1>12, <1>14, <1>15, <1>16, SendStep

LEMMA AskAgainStep == ASSUME IInv, AskAgain PROVE IInv'
<1> DEFINE f == AtPc("again")
           c == Top.buf
<1>1. /\ phase = "up" /\ stack # <<>> /\ Top.fn = "command" /\ Top.pc = "auth" /\ ret # None
      /\ ret' = None /\ UNCHANGED <<user, lost, setup, accepted>>
  BY DEF AskAgain, At
<1>2. /\ Top \in Calls /\ lost \in BOOLEAN /\ ops \in 0..Ops /\ inside \in BOOLEAN
      /\ glob_group \in Groups \cup {NoGroup}
      /\ Frames(stack, lost, glob_group, inside, told)
      /\ FrameOK(Top, lost, glob_group, inside, told)
      /\ ~lost /\ Afloat(stack) => Joined
      /\ ~lost /\ told # "posted" => accepted = 0
  BY <1>1, Here
<1>3. wire = <<>>
  <2>1. ReturnedOK
    BY <1>1 DEF IInv, TopOK, AsksAuth
  <2>2. QED
    BY <1>1, <2>1 DEF ReturnedOK, TextFollows
<1>4. ~lost /\ conn = "up" => ~server.article
  BY <1>1, <1>3 DEF IInv, PostOK
<1>5. CASE ret.code = "ok"
  <2>1. /\ Deliver(c, <<>>) /\ last_put' = c /\ stack' = <<f>> \o Rest /\ phase' = phase
    BY <1>3, <1>5 DEF AskAgain, Goto
  <2>2. /\ Sendable(c, glob_group, inside)
        /\ lost \/ (c = Top.cmd /\ c # NoCommand)
        /\ Textual(c) => c = Top.cmd
    BY <1>1, <1>2 DEF FrameOK
  <2>3. f \in Calls /\ f.fn = "command" /\ f.pc = "again" /\ f.cmd = Top.cmd /\ f.buf = Top.buf
    <3>1. "again" \in Places
      BY DEF Places
    <3>2. QED
      BY <1>1, <1>2, <3>1, AtPcFacts
  <2> HIDE DEF c, f
  <2>4. Reads(f)
    BY <2>3 DEF Reads
  <2>5. Awaited(f) = Top.cmd
    BY <2>3 DEF Awaited
  <2>6. FrameOK(f, lost, glob_group, inside, told)
    BY <1>1, <1>2, <2>3, <2>4, AtPcFrame
  <2>7. /\ Frames(stack', lost, glob_group, inside, told) /\ stack' # <<>> /\ Head(stack') = f
        /\ Afloat(stack') <=> Afloat(stack)
    <3>1. f.fn = Head(stack).fn /\ f.cmd = Head(stack).cmd /\ f.fn # "open"
      BY <1>1, <2>3 DEF Top
    <3>2. /\ Frames(<<f>> \o Tail(stack), lost, glob_group, inside, told)
          /\ <<f>> \o Tail(stack) # <<>> /\ Head(<<f>> \o Tail(stack)) = f
          /\ Afloat(<<f>> \o Tail(stack)) <=> Afloat(stack)
      BY <1>1, <1>2, <2>6, <3>1, GotoFrames
    <3>3. QED
      BY <2>1, <3>2 DEF Rest
  <2>8. Textual(c) => Afloat(stack)
    BY <1>1, <1>2, <2>2, TextIsUsers DEF Top
  <2>9. /\ phase' = "up" /\ setup' = setup /\ accepted' = accepted /\ told' = told /\ ret' = None
        /\ inside' = inside /\ ops' = ops /\ glob_group' = glob_group /\ lost' = lost
    BY <1>1, <2>1 DEF user
  <2>10. Sendable(c, glob_group', inside)
         /\ Frames(stack', lost', glob_group', inside, told) /\ Reads(Head(stack'))
    BY <2>2, <2>4, <2>7, <2>9
  <2>11. /\ ~lost' => c = Awaited(Head(stack')) /\ c # NoCommand
         /\ Textual(c) => c = Awaited(Head(stack'))
         /\ ~lost' /\ told # "posted" => accepted = 0
         /\ ~lost' /\ conn = "up" => ~server.article
         /\ ops' \in 0..Ops /\ glob_group' \in Groups \cup {NoGroup}
         /\ lost' \in BOOLEAN /\ (lost => lost')
    BY <1>2, <1>4, <2>2, <2>5, <2>7, <2>9
  <2>12. ~lost' /\ (Afloat(stack') \/ c.verb = "ARTICLE") => Joined
    BY <1>2, <2>7, <2>8, <2>9 DEF Textual
  <2>13. QED
    BY <1>1, <2>1, <2>7, <2>9, <2>10, <2>11, <2>12, SendStep
<1>6. CASE ret.code # "ok"
  <2>1. Done /\ UNCHANGED <<last_put, conn, wire, server, trouble>>
    BY <1>6 DEF AskAgain
  <2>2. trouble' \in 0..Troubles /\ RetOK'
    BY <1>1, <2>1 DEF IInv, TypeOK, RetOK
  <2>3. QED
    BY <1>1, <2>1, <2>2, DoneStep
<1>7. QED
  BY <1>5, <1>6

LEMMA ReadStatusStep == ASSUME IInv, ReadStatus PROVE IInv'
<1>1. /\ phase = "up" /\ Reading /\ Top.fn = "command" /\ wire # <<>>
      /\ UNCHANGED <<user, lost, setup, accepted>>
  BY DEF ReadStatus, Reading
<1>2. /\ stack # <<>> /\ ReadingOK /\ ret = None
      /\ wire[1] \in Answers /\ Head(wire) = wire[1]
      /\ LineOK(wire[1], conn, server, lost, glob_group, inside, accepted)
      /\ Reads(Top) /\ Awaited(Top) = Top.cmd
      /\ ~lost => wire[1].to = Awaited(Top)
      /\ \A i \in 1..Len(wire) : wire[i].to = last_put
      /\ 1 \in 1..Len(wire)
  BY <1>1, ReadFacts
<1>3. /\ Top \in Calls
      /\ FrameOK(Top, lost, glob_group, inside, told)
      /\ Sendable(last_put, glob_group, inside)
      /\ OneAnswer(wire, conn) /\ wire \in Seq(Answers)
      /\ ~lost /\ told # "posted" => accepted = 0
      /\ Rest = <<>> => Outermost(Top, inside)
  BY <1>1, <1>2, Here
<1>4. CASE Head(wire).code = "auth" /\ Top.pc = "status"
  <2> DEFINE a == AtPc("auth")
             f == [a EXCEPT !.buf = last_put]
  <2>1. /\ Authenticate(f, Tail(wire)) /\ ret' = ret /\ phase' = phase
    BY <1>4 DEF ReadStatus
  <2>2. Tail(wire) = <<>>
    <3>1. Final(wire[1])
      BY <1>2, <1>4 DEF Final
    <3>2. QED
      BY <1>1, <1>3, <3>1, LineRead
  <2>3. a \in Calls /\ a.fn = "command" /\ a.pc = "auth" /\ a.cmd = Top.cmd
    <3>1. "auth" \in Places
      BY DEF Places
    <3>2. QED
      BY <1>1, <1>3, <3>1, AtPcFacts
  <2>4. f = [a EXCEPT !.buf = last_put] /\ last_put \in Commands
    BY <1>3 DEF Sendable
  <2> HIDE DEF a, f
  <2>5. f \in Calls /\ f.fn = "command" /\ f.pc = "auth" /\ f.cmd = Top.cmd /\ f.buf = last_put
    BY <2>3, <2>4 DEF Calls
  <2>6. AsksAuth(f)
    BY <2>5 DEF AsksAuth
  <2>7. lost \/ (last_put = Top.cmd /\ last_put # NoCommand)
    <3>1. wire[1].to # NoCommand
      BY <1>2, <1>4 DEF LineOK
    <3>2. QED
      BY <3>1, <1>2
  <2>8. Textual(last_put) => last_put = Top.cmd
    BY <1>2 DEF ReadingOK
  <2>9. FrameOK(f, lost, glob_group, inside, told)
    BY <1>1, <1>3, <2>5, <2>6, <2>7, <2>8 DEF FrameOK
  <2>10. ~lost /\ conn = "up" => ~server.article
    <3>1. PostOK /\ wire[1].code # "cont"
      BY <1>2, <1>4 DEF IInv
    <3>2. QED
      BY <3>1, <1>1 DEF PostOK
  <2>11. QED
    BY <1>1, <1>2, <1>3, <2>1, <2>2, <2>5, <2>6, <2>9, <2>10, AuthenticateStep
<1>5. CASE ~(Head(wire).code = "auth" /\ Top.pc = "status")
  <2>1. /\ wire' = Tail(wire) /\ ret' = Result(Top.cmd, Head(wire))
        /\ IF Top.cmd = Quit THEN Done ELSE stack' = Rest /\ UNCHANGED phase
        /\ UNCHANGED <<last_put, conn, server, trouble>>
    BY <1>5 DEF ReadStatus
  <2>2. CASE Top.cmd = Quit
    <3>1. RetOK' /\ ret' \in Results \cup {None} /\ trouble' \in 0..Troubles
      <4>1. TypeOK /\ WireOK /\ Top.cmd \in Commands /\ ret' = Result(Top.cmd, wire[1])
            /\ (~lost => wire[1].to = Top.cmd)
        BY <1>2, <1>3, <2>1 DEF IInv, Calls
      <4>2. UNCHANGED <<lost, conn, server, glob_group>>
        BY <1>1, <2>1 DEF user
      <4>3. RetOK' /\ ret' \in Results
        BY <1>1, <4>1, <4>2, ResultOK
      <4>4. QED
        BY <2>1, <4>1, <4>3 DEF TypeOK
    <3>2. QED
      BY <1>1, <1>2, <2>1, <2>2, <3>1, DoneStep
  <2>3. CASE Top.cmd # Quit
    <3>1. Rest # <<>>
      BY <1>1, <1>3, <2>3 DEF Outermost
    <3>2. QED
      BY <1>1, <2>1, <2>3, <3>1, ReturnStep
  <2>4. QED
    BY <2>2, <2>3
<1>6. QED
  BY <1>4, <1>5

\* authenticate() returns.
LEMMA AuthDoneStep ==
  ASSUME IInv, phase = "up", Reading, Top.fn = "auth", wire # <<>>,
         NEW code \in {"ok", "no"}, AuthDone(code),
         UNCHANGED <<user, phase, lost, setup, accepted>>
  PROVE  IInv'
<1>1. stack # <<>> /\ (Rest = <<>> => Outermost(Top, inside))
  BY ReadFacts, Here
<1>2. Rest # <<>>
  BY <1>1 DEF Outermost
<1>3. /\ stack' = Rest /\ ret' = Verdict(code) /\ wire' = Tail(wire)
      /\ UNCHANGED <<last_put, conn, server, trouble>>
  BY DEF AuthDone
<1>4. QED
  BY <1>2, <1>3, ReturnStep

\* authenticate() says the next line.
LEMMA AuthSayStep ==
  ASSUME IInv, phase = "up", Reading, Top.fn = "auth", wire # <<>>,
         NEW pc \in {"user", "pass"}, NEW try \in 1..2, AuthSay(pc, try),
         UNCHANGED <<user, phase, lost, setup, accepted>>
  PROVE  IInv'
<1> DEFINE a == AtPc(pc)
           f == [a EXCEPT !.try = try]
           c == Cmd(AuthVerb[pc])
<1>1. Put(c, Tail(wire)) /\ stack' = <<f>> \o Rest /\ ret' = ret
  BY DEF AuthSay, Goto
<1>2. /\ stack # <<>> /\ ReadingOK /\ ret = None /\ ~Textual(Awaited(Top))
  BY ReadFacts
<1>3. /\ Top \in Calls /\ lost \in BOOLEAN /\ ops \in 0..Ops /\ inside \in BOOLEAN
      /\ glob_group \in Groups \cup {NoGroup}
      /\ Frames(stack, lost, glob_group, inside, told)
      /\ FrameOK(Top, lost, glob_group, inside, told)
      /\ ~lost /\ Afloat(stack) => Joined
      /\ ~lost /\ told # "posted" => accepted = 0
  BY <1>2, Here
<1>4. Tail(wire) = <<>>
  <2>1. ~Textual(last_put)
    BY <1>2 DEF ReadingOK
  <2>2. QED
    BY <2>1, AllRead
<1>5. a \in Calls /\ a.fn = "auth" /\ a.pc = pc /\ a.cmd = Top.cmd /\ a.buf = Top.buf
  <2>1. pc \in Places
    BY DEF Places
  <2>2. QED
    BY <1>3, <2>1, AtPcFacts
<1>6. f = [a EXCEPT !.try = try] /\ c = Cmd(AuthVerb[pc])
  OBVIOUS
<1>7. c.verb \in {"AUTHINFO USER", "AUTHINFO PASS"} /\ c = Cmd(c.verb)
  <2>1. AuthVerb["user"] = "AUTHINFO USER" /\ AuthVerb["pass"] = "AUTHINFO PASS"
    BY DEF AuthVerb
  <2>2. \A v : Cmd(v).verb = v
    BY DEF Cmd
  <2> HIDE DEF c
  <2>3. CASE pc = "user"
    BY <2>1, <2>2, <2>3, <1>6
  <2>4. CASE pc = "pass"
    BY <2>1, <2>2, <2>4, <1>6
  <2>5. QED
    BY <2>3, <2>4
<1> HIDE DEF a, f, c
<1>8. f \in Calls /\ f.fn = "auth" /\ f.pc = pc /\ f.cmd = Top.cmd /\ f.buf = Top.buf
  BY <1>5, <1>6 DEF Calls
<1>9. Reads(f) /\ Awaited(f) = c
  <2>1. Awaited(f) = Cmd(AuthVerb[f.pc])
    BY <1>8, AwaitedAuth
  <2>2. QED
    BY <1>6, <1>8, <2>1 DEF Reads
<1>10. Sendable(c, glob_group, inside) /\ ~Textual(c) /\ c # NoCommand
  <2>1. c.verb \in Verbs \ {"LISTGROUP", "GROUP", "ARTICLE", "article text", ""}
    BY <1>7 DEF Verbs
  <2>2. QED
    BY <1>7, <2>1, OwnCommands
<1>11. Deliver(c, <<>>) /\ last_put' = c
  BY <1>1, <1>4, <1>10 DEF Put
<1>12. FrameOK(f, lost, glob_group, inside, told)
  BY <1>3, <1>8, <1>9, AtPcFrame
<1>13. /\ Frames(stack', lost, glob_group, inside, told) /\ stack' # <<>> /\ Head(stack') = f
       /\ Afloat(stack') <=> Afloat(stack)
  <2>1. f.fn = Head(stack).fn /\ f.cmd = Head(stack).cmd /\ f.fn # "open"
    BY <1>8 DEF Top
  <2>2. /\ Frames(<<f>> \o Tail(stack), lost, glob_group, inside, told)
        /\ <<f>> \o Tail(stack) # <<>> /\ Head(<<f>> \o Tail(stack)) = f
        /\ Afloat(<<f>> \o Tail(stack)) <=> Afloat(stack)
    BY <1>2, <1>3, <1>12, <2>1, GotoFrames
  <2>3. QED
    BY <1>1, <2>2 DEF Rest
<1>14. ~lost /\ conn = "up" => ~server.article
  <2>1. PostOK
    BY DEF IInv
  <2>2. QED
    BY <2>1 DEF PostOK
<1>15. /\ phase' = "up" /\ setup' = setup /\ accepted' = accepted /\ told' = told /\ ret' = None
       /\ inside' = inside /\ ops' = ops /\ glob_group' = glob_group /\ lost' = lost
  BY <1>1, <1>2 DEF user
<1>16. Sendable(c, glob_group', inside)
       /\ Frames(stack', lost', glob_group', inside, told) /\ Reads(Head(stack'))
  BY <1>9, <1>10, <1>13, <1>15
<1>17. /\ ~lost' => c = Awaited(Head(stack')) /\ c # NoCommand
       /\ Textual(c) => c = Awaited(Head(stack'))
       /\ ~lost' /\ told # "posted" => accepted = 0
       /\ ~lost' /\ conn = "up" => ~server.article
       /\ ops' \in 0..Ops /\ glob_group' \in Groups \cup {NoGroup}
       /\ lost' \in BOOLEAN /\ (lost => lost')
  BY <1>3, <1>9, <1>10, <1>13, <1>14, <1>15
<1>18. ~lost' /\ (Afloat(stack') \/ c.verb = "ARTICLE") => Joined
  <2>1. c.verb # "ARTICLE"
    BY <1>10 DEF Textual
  <2>2. QED
    BY <2>1, <1>3, <1>13, <1>15
<1>19. QED
  BY <1>11, <1>13, <1>15, <1>16, <1>17, <1>18, SendStep

LEMMA ReadAuthStep == ASSUME IInv, ReadAuth PROVE IInv'
<1>1. /\ phase = "up" /\ Reading /\ Top.fn = "auth" /\ wire # <<>>
      /\ UNCHANGED <<user, phase, lost, setup, accepted>>
  BY DEF ReadAuth, Reading
<1>2. Top.try \in 1..2
  <2>1. Top \in Calls
    BY <1>1, ReadFacts, Here
  <2>2. QED
    BY <2>1 DEF Calls
<1>3. \/ \E code \in {"ok", "no"} : AuthDone(code)
      \/ \E pc \in {"user", "pass"}, try \in 1..2 : AuthSay(pc, try)
  <2>1. \/ AuthDone("ok") \/ AuthDone("no")
        \/ AuthSay("user", 1) \/ AuthSay("user", 2) \/ AuthSay("pass", Top.try)
    BY DEF ReadAuth, AskUser
  <2>2. 1 \in 1..2 /\ 2 \in 1..2
    OBVIOUS
  <2>3. QED
    BY <1>2, <2>1, <2>2
<1>4. QED
  BY <1>1, <1>3, AuthDoneStep, AuthSayStep

-----------------------------------------------------------------------------
(* The user's operations *)

\* An operation begins with command c.
LEMMA StartStep ==
  ASSUME IInv, NEW c, Start(c), c # NoCommand,
         glob_group' \in Groups \cup {NoGroup}, glob_group' = glob_group \/ ~inside,
         Sendable(c, glob_group', inside), UNCHANGED <<inside, told, accepted>>,
         Frames(stack', lost, glob_group', inside, told), stack' # <<>>,
         Reads(Head(stack')), Awaited(Head(stack')) = c
  PROVE  IInv'
<1>1. /\ phase = "up" /\ stack = <<>> /\ ops < Ops /\ ops' = ops + 1 /\ Put(c, wire)
      /\ ret' = None /\ UNCHANGED <<phase, lost, setup>>
  BY DEF Start
<1>2. TypeOK /\ TopOK /\ GroupOK /\ PostOK
  BY <1>1 DEF IInv
<1>3. wire = <<>> /\ (~lost /\ conn = "up" => ~server.article)
      /\ (~lost /\ told # "posted" => accepted = 0)
  BY <1>1, <1>2 DEF TopOK, PostOK
<1>4. ~lost => Joined
  BY <1>1, <1>2, FramesNone DEF GroupOK, Joined
<1>5. lost \in BOOLEAN /\ ops' \in 0..Ops
  <2>1. lost \in BOOLEAN /\ ops \in 0..Ops /\ Ops \in Nat
    BY <1>2, NntpAssumption DEF TypeOK, NntpAssumption
  <2>2. QED
    BY <1>1, <2>1
<1>6. Deliver(c, <<>>) /\ last_put' = c
  BY <1>1, <1>3 DEF Put
<1>7. /\ phase' = "up" /\ setup' = setup /\ accepted' = accepted /\ told' = told
      /\ inside' = inside /\ lost' = lost /\ ret' = None
  BY <1>1
<1>8. /\ Frames(stack', lost', glob_group', inside, told)
      /\ ~lost' => c = Awaited(Head(stack')) /\ c # NoCommand
      /\ Textual(c) => c = Awaited(Head(stack'))
      /\ ~lost' /\ (Afloat(stack') \/ c.verb = "ARTICLE") => Joined
      /\ ~lost' /\ told # "posted" => accepted = 0
      /\ ~lost' /\ conn = "up" => ~server.article
      /\ lost' \in BOOLEAN /\ (lost => lost')
  BY <1>3, <1>4, <1>5, <1>7
<1>9. QED
  BY <1>1, <1>5, <1>6, <1>7, <1>8, SendStep

\* One call
LEMMA OneFrame ==
  ASSUME NEW lo, NEW g, NEW in, NEW to, NEW f, FrameOK(f, lo, g, in, to), Outermost(f, in)
  PROVE  Frames(<<f>>, lo, g, in, to) /\ <<f>> # <<>> /\ Head(<<f>>) = f
<1> DEFINE t == <<>>
<1>1. Frames(t, lo, g, in, to) /\ (t # <<>> => Over(f, Head(t), lo))
  BY FramesNone
<1>2. f \in Calls /\ <<f>> \o t = <<f>>
  BY DEF FrameOK
<1> HIDE DEF t
<1>3. Frames(<<f>> \o t, lo, g, in, to)
  BY <1>1, FramesCons
<1>4. Frames(<<f>>, lo, g, in, to)
  BY <1>2, <1>3, Zenon
<1>5. <<f>> # <<>> /\ Head(<<f>>) = f
  BY <1>2
<1>6. QED
  BY <1>4, <1>5, Zenon

\* A caller of nntp_command() and its call
LEMMA CallerFrames ==
  ASSUME NEW lo, NEW g, NEW in, NEW to, NEW c, Sendable(c, g, in), NEW fn \in {"caller", "post"},
         fn = "caller" => Textual(c) /\ g # NoGroup, fn = "post" => to = "nothing" /\ c = Post,
         NEW e, e = Call("command", "status", c), NEW k, k = Call(fn, "status", c),
         NEW s, s = <<e, k>>
  PROVE  /\ Frames(s, lo, g, in, to) /\ s # <<>> /\ Head(s) = e
         /\ Reads(e) /\ Awaited(e) = c
<1>1. /\ FrameOK(e, lo, g, in, to) /\ Reads(e) /\ Awaited(e) = c
      /\ e.fn = "command" /\ e.cmd = c /\ e \in Calls
  BY CommandCall
<1>2. k.fn = fn /\ k.pc = "status" /\ k.cmd = c /\ k.buf = NoCommand
  BY CallFacts
<1>3. Sendable(NoCommand, g, in)
  BY OwnCommands
<1>4. k \in Calls
  <2>1. c \in Commands /\ NoCommand \in Commands
    BY <1>3 DEF Sendable
  <2>2. QED
    BY <2>1 DEF Call, Calls, Tries
<1>5. AsksCommand(k) /\ Outermost(k, in)
  BY <1>2 DEF AsksCommand, Outermost
<1>6. CommandOf(k) = c
  <2>1. CASE fn = "caller"
    BY <2>1, <1>2 DEF CommandOf
  <2>2. CASE fn = "post"
    BY <2>2, <1>2 DEF CommandOf
  <2>3. QED
    BY <2>1, <2>2
<1>7. FrameOK(k, lo, g, in, to)
  BY <1>2, <1>3, <1>4, <1>5 DEF FrameOK
<1>8. Over(e, k, lo)
  BY <1>1, <1>5, <1>6 DEF Over
<1> DEFINE t == <<k>>
<1>9. Frames(t, lo, g, in, to) /\ t # <<>> /\ Head(t) = k
  BY <1>5, <1>7, OneFrame
<1>10. s = <<e>> \o t
  BY <1>1, <1>4
<1> HIDE DEF t
<1>11. Frames(<<e>> \o t, lo, g, in, to) /\ <<e>> \o t # <<>> /\ Head(<<e>> \o t) = e
  BY <1>1, <1>8, <1>9, FramesCons
<1>12. QED
  BY <1>1, <1>10, <1>11

LEMMA EnterGroupStep == ASSUME IInv, NEW g \in Groups, EnterGroup(g) PROVE IInv'
<1> DEFINE c == GroupCmd("LISTGROUP", g)
<1>1. ~inside /\ Start(c) /\ glob_group' = g /\ UNCHANGED <<inside, told, accepted>>
      /\ stack' = <<Call("command", "status", c), Call("caller", "status", c)>>
  BY DEF EnterGroup
<1>2. Sendable(c, g, inside) /\ c # NoCommand
  BY GroupSendable
<1>3. Textual(c)
  BY DEF GroupCmd, Textual
<1>4. g # NoGroup
  BY NntpAssumption DEF NntpAssumption
<1> HIDE DEF c
<1>5. /\ Frames(stack', lost, g, inside, told) /\ stack' # <<>>
      /\ Reads(Head(stack')) /\ Awaited(Head(stack')) = c
  BY <1>1, <1>2, <1>3, <1>4, CallerFrames
<1>6. g \in Groups \cup {NoGroup}
  OBVIOUS
<1>7. QED
  BY <1>1, <1>2, <1>5, <1>6, StartStep

LEMMA ReadArticleStep == ASSUME IInv, ReadArticle PROVE IInv'
<1> DEFINE c == Cmd("ARTICLE")
<1>1. inside /\ Start(c) /\ UNCHANGED <<glob_group, inside, told, accepted>>
      /\ stack' = <<Call("command", "status", c), Call("caller", "status", c)>>
  BY DEF ReadArticle
<1>2. glob_group \in Groups \cup {NoGroup} /\ glob_group # NoGroup
  BY <1>1 DEF IInv, TypeOK, GroupOK
<1>3. c.verb = "ARTICLE" /\ c.group = NoGroup /\ c \in Commands /\ NoCommand.verb = ""
  BY DEF Cmd, Commands, Verbs, NoCommand
<1> HIDE DEF c
<1>4. Sendable(c, glob_group, inside) /\ c # NoCommand /\ Textual(c)
  BY <1>1, <1>3 DEF Sendable, GroupVerb, Textual
<1>5. /\ Frames(stack', lost, glob_group, inside, told) /\ stack' # <<>>
      /\ Reads(Head(stack')) /\ Awaited(Head(stack')) = c
  <2>1. stack' = <<Call("command", "status", c), Call("caller", "status", c)>>
    BY <1>1
  <2>2. QED
    BY ONLY <1>2, <1>4, <2>1, CallerFrames
<1>6. glob_group' = glob_group
  BY <1>1
<1>7. Frames(stack', lost, glob_group', inside, told) /\ Sendable(c, glob_group', inside)
      /\ glob_group' \in Groups \cup {NoGroup}
  BY <1>2, <1>4, <1>5, <1>6
<1>8. QED
  BY <1>1, <1>4, <1>5, <1>6, <1>7, StartStep

LEMMA SubmitStep == ASSUME IInv, Submit PROVE IInv'
<1>1. told = "nothing" /\ Start(Post) /\ UNCHANGED <<glob_group, inside, told, accepted>>
      /\ stack' = <<Call("command", "status", Post), Call("post", "status", Post)>>
  BY DEF Submit
<1>2. glob_group \in Groups \cup {NoGroup}
  BY DEF IInv, TypeOK
<1>3. Sendable(Post, glob_group, inside) /\ Post # NoCommand
  BY OwnCommands
<1>4. /\ Frames(stack', lost, glob_group, inside, told) /\ stack' # <<>>
      /\ Reads(Head(stack')) /\ Awaited(Head(stack')) = Post
  BY <1>1, <1>3, CallerFrames
<1>5. glob_group' = glob_group
  BY <1>1
<1>6. Frames(stack', lost, glob_group', inside, told) /\ Sendable(Post, glob_group', inside)
      /\ glob_group' \in Groups \cup {NoGroup}
  BY <1>2, <1>3, <1>4, <1>5
<1>7. QED
  BY <1>1, <1>3, <1>4, <1>5, <1>6, StartStep

LEMMA LeaveStep == ASSUME IInv, Leave PROVE IInv'
<1> DEFINE e == Call("command", "status", Quit)
<1>1. Start(Quit) /\ UNCHANGED <<glob_group, inside, told, accepted>> /\ stack' = <<e>>
  BY DEF Leave
<1>2. glob_group \in Groups \cup {NoGroup}
  BY DEF IInv, TypeOK
<1>3. Sendable(Quit, glob_group, inside) /\ Quit # NoCommand
  BY OwnCommands
<1>4. e = Call("command", "status", Quit)
  OBVIOUS
<1> HIDE DEF e
<1>5. /\ FrameOK(e, lost, glob_group, inside, told) /\ Reads(e) /\ Awaited(e) = Quit
      /\ e.fn = "command" /\ e.cmd = Quit /\ e \in Calls
  BY <1>3, <1>4, CommandCall
<1>6. Outermost(e, inside)
  BY <1>5 DEF Outermost
<1>7. Frames(<<e>>, lost, glob_group, inside, told) /\ <<e>> # <<>> /\ Head(<<e>>) = e
  BY <1>5, <1>6, OneFrame
<1>8. stack' = <<e>>
  BY <1>1
<1>9. glob_group' = glob_group
  BY <1>1
<1>10. /\ Frames(stack', lost, glob_group', inside, told) /\ stack' # <<>>
       /\ Reads(Head(stack')) /\ Awaited(Head(stack')) = Quit
       /\ Sendable(Quit, glob_group', inside) /\ glob_group' \in Groups \cup {NoGroup}
  BY <1>2, <1>3, <1>5, <1>7, <1>8, <1>9
<1>11. QED
  BY <1>1, <1>3, <1>9, <1>10, StartStep

LEMMA LeaveGroupStep == ASSUME IInv, LeaveGroup PROVE IInv'
<1>1. /\ phase = "up" /\ stack = <<>> /\ inside' = FALSE /\ ret' = None
      /\ UNCHANGED <<stack, last_put, glob_group, told, phase, ops, lost,
                     conn, wire, server, setup, accepted, trouble>>
  BY DEF LeaveGroup
<1>2. TypeOK /\ TopOK /\ PostOK /\ WireOK
  BY <1>1 DEF IInv
<1>3. wire = <<>>
  BY <1>1, <1>2 DEF TopOK
<1>4. TypeOK'
  BY <1>1, <1>2 DEF TypeOK
<1>5. WireOK'
  <2>1. wire' = <<>> /\ Len(wire') = 0
    BY <1>1, <1>3
  <2>2. QED
    BY <2>1, NothingUnread DEF WireOK
<1>6. TopOK'
  BY <1>1, <1>3 DEF TopOK, Reading
<1>7. RetOK' /\ GroupOK'
  BY <1>1 DEF RetOK, GroupOK
<1>8. PostOK'
  BY <1>1, <1>2, <1>3 DEF PostOK
<1>9. Frames(stack', lost', glob_group', inside', told')
  BY <1>1, FramesNone
<1>10. QED
  BY <1>1, <1>4, <1>5, <1>6, <1>7, <1>8, <1>9 DEF IInv

\* An operation of the user's ends: nothing is unread, and what was found out
\* of the group and told of the posting is so.
LEMMA FinishStep ==
  ASSUME IInv, phase = "up", stack # <<>>, Top.fn \in {"caller", "post"},
         stack' = Rest, wire' = <<>>, ret' \in Results \cup {None}, RetOK',
         UNCHANGED <<last_put, glob_group, phase, ops, lost, conn, server, setup, accepted, trouble>>,
         told' \in {"nothing", "posted", "failed"}, inside' \in BOOLEAN, inside => inside',
         inside' /\ ~inside =>
           glob_group # NoGroup /\ (conn = "up" => server.group = glob_group),
         ~lost /\ conn = "up" => ~server.article,
         told' = "posted" => accepted > 0,
         ~lost /\ told' # "posted" => accepted = 0
  PROVE  IInv'
<1>1. TypeOK /\ GroupOK /\ PostOK
  BY DEF IInv
<1>2. Rest = <<>> /\ Afloat(stack)
  BY Here, CallerIsLast DEF Top, Rest
<1>3. /\ phase' = "up" /\ accepted' = accepted /\ lost' = lost /\ last_put' = last_put
      /\ server' = server /\ setup' = setup /\ glob_group' = glob_group /\ ops' = ops
      /\ conn' = conn /\ trouble' = trouble /\ stack' = <<>>
  BY <1>2
<1>4. TypeOK'
  BY <1>1, <1>3 DEF TypeOK
<1>5. WireOK'
  <2>1. Len(wire') = 0
    OBVIOUS
  <2>2. QED
    BY <2>1, NothingUnread DEF WireOK
<1>6. TopOK'
  BY <1>3 DEF TopOK, Reading
<1>7. GroupOK'
  <2>1. inside' => glob_group # NoGroup
    BY <1>1 DEF GroupOK
  <2>2. ASSUME conn = "up", inside'
        PROVE  /\ server.group \in {NoGroup, glob_group}
               /\ ~lost => server.group = glob_group \/ server.denied
    BY <2>2, <1>1, <1>2 DEF GroupOK
  <2>3. QED
    BY <2>1, <2>2, <1>3 DEF GroupOK
<1>8. PostOK'
  <2>1. ~lost => accepted <= 1
    BY <1>1 DEF PostOK
  <2>2. wire' # <<>> => FALSE
    OBVIOUS
  <2>3. QED
    BY <2>1, <2>2, <1>3 DEF PostOK
<1>9. Frames(stack', lost', glob_group', inside', told')
  BY <1>3, FramesNone
<1>10. QED
  BY <1>3, <1>4, <1>5, <1>6, <1>7, <1>8, <1>9 DEF IInv

\* The text of an answer is read next: by call f, which the innermost one has
\* become, and of which it has not lost sight unless it went astray.
LEMMA TextStep ==
  ASSUME IInv, phase = "up", stack # <<>>, Top.fn = "caller",
         NEW pc \in {"lines", "astray"}, Goto(AtPc(pc)), ret' = None,
         UNCHANGED <<last_put, glob_group, inside, told, phase, ops, lost, conn, server, setup,
                     accepted, trouble>>,
         wire' = wire \/ (wire # <<>> /\ wire' = Tail(wire)),
         wire' # <<>> => wire'[1].code # "cont",
         \A i \in 1..Len(wire') : wire'[i].to = last_put,
         Textual(last_put) => last_put = Top.cmd,
         ~lost => /\ last_put = Top.cmd \/ (wire' = <<>> /\ conn # "up")
                  /\ conn = "up" /\ pc # "astray" => wire' # <<>>,
         ~lost /\ conn = "up" => ~server.article
  PROVE  IInv'
<1> DEFINE f == AtPc(pc)
<1>1. TypeOK /\ WireOK /\ GroupOK /\ PostOK
  BY DEF IInv
<1>2. /\ Top \in Calls /\ lost \in BOOLEAN
      /\ Frames(stack, lost, glob_group, inside, told)
      /\ FrameOK(Top, lost, glob_group, inside, told)
      /\ Sendable(last_put, glob_group, inside)
      /\ ~lost /\ told # "posted" => accepted = 0
  BY Here
<1>3. /\ phase' = "up" /\ accepted' = accepted /\ lost' = lost /\ last_put' = last_put
      /\ server' = server /\ setup' = setup /\ glob_group' = glob_group /\ ops' = ops
      /\ conn' = conn /\ trouble' = trouble /\ inside' = inside /\ told' = told
  OBVIOUS
<1>4. f \in Calls /\ f.fn = "caller" /\ f.pc = pc /\ f.cmd = Top.cmd /\ f.buf = Top.buf
  <2>1. pc \in Places
    BY DEF Places
  <2>2. QED
    BY <1>2, <2>1, AtPcFacts
<1>5. stack' = <<f>> \o Rest
  BY DEF Goto
<1> HIDE DEF f
<1>6. Reads(f)
  BY <1>4 DEF Reads
<1>7. Awaited(f) = Top.cmd
  BY <1>4 DEF Awaited
<1>8. FrameOK(f, lost, glob_group, inside, told)
  BY <1>2, <1>4, <1>6, AtPcFrame
<1>9. /\ Frames(stack', lost, glob_group, inside, told) /\ stack' # <<>> /\ Head(stack') = f
      /\ Afloat(stack') <=> Afloat(stack)
  <2>1. f.fn = Head(stack).fn /\ f.cmd = Head(stack).cmd /\ f.fn # "open"
    BY <1>4 DEF Top
  <2>2. /\ Frames(<<f>> \o Tail(stack), lost, glob_group, inside, told)
        /\ <<f>> \o Tail(stack) # <<>> /\ Head(<<f>> \o Tail(stack)) = f
        /\ Afloat(<<f>> \o Tail(stack)) <=> Afloat(stack)
    BY <1>2, <1>8, <2>1, GotoFrames
  <2>3. QED
    BY <1>5, <2>2 DEF Rest
<1>10. Top' = f
  BY <1>9 DEF Top
<1>11. WireOK' /\ wire' \in Seq(Answers)
  BY <1>1, <1>3, WireRead
<1>12. TypeOK'
  BY <1>1, <1>3, <1>9, <1>11 DEF TypeOK, Frames
<1>13. ReadingOK'
  BY <1>3, <1>4, <1>7, <1>10 DEF ReadingOK
<1>14. TopOK'
  BY <1>2, <1>3, <1>4, <1>9, <1>10, <1>13 DEF TopOK, AsksCommand, AsksAuth
<1>15. RetOK'
  BY DEF RetOK
<1>16. GroupOK'
  BY <1>1, <1>3, <1>4, <1>9, <1>10 DEF GroupOK
<1>17. PostOK'
  BY <1>1, <1>2, <1>3 DEF PostOK
<1>18. Frames(stack', lost', glob_group', inside', told')
  BY <1>3, <1>9
<1>19. QED
  BY <1>3, <1>11, <1>12, <1>14, <1>15, <1>16, <1>17, <1>18 DEF IInv

\* A success of GROUP comes from GROUP, LISTGROUP, and one of a text or an
\* article from it.
LEMMA SuccessFacts ==
  ASSUME NEW r \in Results \cup Answers
  PROVE  /\ Succeeded("GROUP", r) => GroupVerb(r.to) /\ r.code = "ok"
         /\ Succeeded("article text", r) <=> r.code = "ok" /\ r.to.verb = "article text"
         /\ \A c \in Commands : r.code = "ok" /\ r.to = c => Succeeded(c.verb, r)
<1>1. r.to.verb \in Verbs
  BY DEF Results, Answers, Commands
<1>2. Class("GROUP") = "211" /\ Class("article text") = "article text"
  BY DEF Class
<1>3. ASSUME NEW v \in Verbs
      PROVE  /\ Class(v) = "211" => v \in {"LISTGROUP", "GROUP"}
             /\ Class(v) = "article text" => v = "article text"
  <2>1. CASE v \in {"LISTGROUP", "GROUP"}
    <3>1. Class(v) = "211"
      BY <2>1 DEF Class
    <3>2. QED
      BY <2>1, <3>1
  <2>2. CASE v \in {"AUTHINFO GENERIC", "AUTHINFO PASS", "AUTHINFO USER"}
    <3>1. Class(v) = "281"
      BY <2>2 DEF Class
    <3>2. QED
      BY <3>1
  <2>3. CASE v \notin {"LISTGROUP", "GROUP", "AUTHINFO GENERIC", "AUTHINFO PASS", "AUTHINFO USER"}
    <3>1. Class(v) = v
      BY <2>3 DEF Class
    <3>2. v # "211"
      BY DEF Verbs
    <3>3. QED
      BY <3>1, <3>2
  <2>4. QED
    BY <2>1, <2>2, <2>3
<1>4. Succeeded("GROUP", r) => GroupVerb(r.to) /\ r.code = "ok"
  BY <1>1, <1>2, <1>3 DEF Succeeded, GroupVerb
<1>5. Succeeded("article text", r) <=> r.code = "ok" /\ r.to.verb = "article text"
  BY <1>1, <1>2, <1>3 DEF Succeeded
<1>6. \A c \in Commands : r.code = "ok" /\ r.to = c => Succeeded(c.verb, r)
  BY DEF Succeeded
<1>7. QED
  BY <1>4, <1>5, <1>6

LEMMA AnsweredStep == ASSUME IInv, Answered PROVE IInv'
<1>1. /\ phase = "up" /\ stack # <<>> /\ Top.fn = "caller" /\ Top.pc \in {"status", "group"}
      /\ ret # None /\ AsksCommand(Top)
      /\ UNCHANGED <<glob_group, told, phase, ops, lost, setup, accepted>>
  BY DEF Answered, At, AsksCommand
<1>2. TypeOK /\ WireOK /\ PostOK /\ RetOK /\ ReturnedOK
  BY <1>1 DEF IInv, TopOK
<1>3. /\ Top \in Calls /\ FrameOK(Top, lost, glob_group, inside, told)
      /\ Textual(Top.cmd) /\ glob_group # NoGroup
      /\ ~lost /\ told # "posted" => accepted = 0
      /\ Top.cmd \in Commands /\ ret \in Results /\ inside \in BOOLEAN
      /\ glob_group \in Groups \cup {NoGroup}
  BY <1>1, <1>2, Here DEF FrameOK, Sendable, TypeOK
<1>4. ~lost /\ conn = "up" => ~server.article
  BY <1>1, <1>2 DEF PostOK
<1>5. CASE Top.pc = "status" /\ Succeeded(Top.cmd.verb, ret)
  <2>1. /\ Goto(AtPc("lines")) /\ ret' = None
        /\ UNCHANGED <<last_put, inside, conn, wire, server, trouble>>
    BY <1>5 DEF Answered
  <2>2. /\ \A i \in 1..Len(wire) : wire[i].to = last_put
        /\ Textual(last_put) => last_put = Top.cmd
        /\ wire # <<>> => wire[1].code # "cont"
        /\ ~lost => last_put = Top.cmd
        /\ ~lost /\ conn = "up" => wire # <<>>
    <3>1. wire = <<>> => Len(wire) = 0
      OBVIOUS
    <3>2. wire # <<>> => 1 \in 1..Len(wire)
      BY <1>2, EmptyLen DEF TypeOK
    <3>3. ret.code = "ok"
      BY <1>5 DEF Succeeded
    <3>4. QED
      BY <3>1, <3>2, <3>3, <1>1, <1>2, <1>5 DEF ReturnedOK, TextFollows
  <2>3. /\ \A i \in 1..Len(wire') : wire'[i].to = last_put
        /\ wire' # <<>> => wire'[1].code # "cont"
        /\ ~lost => /\ last_put = Top.cmd \/ (wire' = <<>> /\ conn # "up")
                    /\ conn = "up" /\ "lines" # "astray" => wire' # <<>>
    BY <2>1, <2>2
  <2>4. wire' = wire \/ (wire # <<>> /\ wire' = Tail(wire))
    BY <2>1
  <2>5. QED
    BY <1>1, <1>4, <2>1, <2>2, <2>3, <2>4, TextStep
<1>6. CASE ~(Top.pc = "status" /\ Succeeded(Top.cmd.verb, ret))
  <2>1. wire = <<>> /\ ~(Textual(last_put) /\ Top.pc # "status")
    <3>1. ASSUME TextFollows PROVE FALSE
      <4>1. Top.pc = "status" /\ ret.code = "ok" /\ ret.to = Top.cmd
        BY <3>1 DEF TextFollows
      <4>2. QED
        BY <4>1, <1>3, <1>6, SuccessFacts
    <3>2. QED
      BY <3>1, <1>2 DEF ReturnedOK
  <2>2. CASE Top.pc = "status" /\ Top.cmd.verb = "LISTGROUP"
    <3> DEFINE c == GroupCmd("GROUP", Top.cmd.group)
               f == AtPc("group")
    <3>1. Ask(c, "group") /\ UNCHANGED inside
      BY <1>6, <2>2 DEF Answered
    <3>2. Top.cmd.group = glob_group
      BY <1>3, <2>2 DEF FrameOK, Sendable, GroupVerb
    <3>3. c = GroupCmd("GROUP", Top.cmd.group) /\ f = AtPc("group") /\ "group" \in Places
      BY DEF Places
    <3> HIDE DEF c, f
    <3>4. Sendable(c, glob_group, inside) /\ c # NoCommand
      BY <1>3, <3>2, <3>3, GroupSendable
    <3>5. ~Textual(c)
      BY <3>3 DEF Textual, GroupCmd
    <3>6. f.fn = "caller" /\ f.pc = "group" /\ f.cmd = Top.cmd
      BY <1>1, <1>3, <3>3, AtPcFacts
    <3>7. AsksCommand(f) /\ GroupVerb(f.cmd)
      BY <3>6, <2>2 DEF AsksCommand, GroupVerb
    <3>8. CommandOf(f) = c
      BY <3>3, <3>6 DEF CommandOf
    <3>9. UNCHANGED <<user, phase, lost, setup, accepted>>
      BY <1>1, <3>1 DEF user
    <3>10. QED
      BY <1>1, <2>1, <3>1, <3>3, <3>4, <3>5, <3>7, <3>8, <3>9, AskStep
  <2>3. CASE ~(Top.pc = "status" /\ Top.cmd.verb = "LISTGROUP")
    <3>1. /\ stack' = Rest
          /\ inside' = (inside \/ (Top.pc = "group" /\ Succeeded("GROUP", ret)))
          /\ UNCHANGED <<ret, last_put, conn, wire, server, trouble>>
      BY <1>6, <2>3 DEF Answered
    <3>2. ASSUME Succeeded("GROUP", ret), conn = "up" PROVE server.group = glob_group
      <4>1. GroupVerb(ret.to) /\ ret.code = "ok"
        BY <3>2, <1>3, SuccessFacts
      <4>2. QED
        BY <4>1, <3>2, <1>1, <1>2 DEF RetOK
    <3>3. RetOK'
      BY <1>1, <1>2, <3>1 DEF RetOK
    <3>4. inside' \in BOOLEAN /\ (inside => inside')
      BY <1>3, <3>1
    <3>5. /\ inside' /\ ~inside => glob_group # NoGroup /\ (conn = "up" => server.group = glob_group)
          /\ ret' \in Results \cup {None} /\ wire' = <<>>
      BY <1>3, <2>1, <3>1, <3>2
    <3>6. told' = told /\ told \in {"nothing", "posted", "failed"}
          /\ (told = "posted" => accepted > 0)
      BY <1>1, <1>2 DEF TypeOK, PostOK
    <3>7. /\ told' = "posted" => accepted > 0
          /\ ~lost /\ told' # "posted" => accepted = 0
          /\ told' \in {"nothing", "posted", "failed"}
      BY <1>3, <3>6
    <3>8. QED
      BY <1>1, <1>4, <3>1, <3>3, <3>4, <3>5, <3>7, FinishStep
  <2>4. QED
    BY <2>2, <2>3
<1>7. QED
  BY <1>5, <1>6

LEMMA ReadLineStep == ASSUME IInv, ReadLine PROVE IInv'
<1>1. /\ phase = "up" /\ Reading /\ Top.pc \in {"lines", "astray"} /\ wire # <<>>
      /\ wire' = Tail(wire)
      /\ UNCHANGED <<last_put, glob_group, told, phase, ops, lost, conn, server, setup, accepted,
                     trouble>>
  BY DEF ReadLine, Reading
<1>2. /\ stack # <<>> /\ ReadingOK /\ ret = None
      /\ wire[1] \in Answers /\ Head(wire) = wire[1]
      /\ LineOK(wire[1], conn, server, lost, glob_group, inside, accepted)
      /\ Reads(Top) /\ Top.fn # "open"
      /\ Top.fn = "auth" => Top.pc \in {"generic", "user", "pass"}
      /\ ~lost => wire[1].to = Awaited(Top)
  BY <1>1, ReadFacts
<1>3. Top.fn = "caller"
  BY <1>1, <1>2 DEF Reads
<1>4. /\ Awaited(Top) = Top.cmd /\ Textual(Top.cmd)
      /\ \A i \in 1..Len(wire) : wire[i].to = last_put
  BY <1>1, <1>3, ReadFacts
<1>5. /\ Top \in Calls /\ FrameOK(Top, lost, glob_group, inside, told)
      /\ Frames(stack, lost, glob_group, inside, told)
      /\ OneAnswer(wire, conn) /\ wire \in Seq(Answers)
      /\ ~lost /\ told # "posted" => accepted = 0
  BY <1>1, <1>2, Here
<1>6. TypeOK /\ WireOK /\ GroupOK /\ PostOK
  BY DEF IInv
<1>7. ~lost /\ conn = "up" => ~server.article
  BY <1>1, <1>3, <1>6 DEF PostOK
<1>8. /\ Tail(wire) \in Seq(Answers)
      /\ \A i \in 1..Len(Tail(wire)) : /\ i + 1 \in 1..Len(wire) /\ Tail(wire)[i] = wire[i + 1]
                                       /\ Tail(wire)[i].code \in {"line", "dot"}
      /\ Final(wire[1]) => Tail(wire) = <<>>
      /\ ~Final(wire[1]) /\ conn = "up" => Tail(wire) # <<>>
  BY <1>1, <1>5, LineRead
<1>9. CASE wire[1].code = "dot"
  <2>1. stack' = Rest /\ ret' = Result(Top.cmd, wire[1]) /\ inside' = TRUE
    BY <1>2, <1>9 DEF ReadLine
  <2>2. wire' = <<>>
    BY <1>1, <1>8, <1>9 DEF Final
  <2>3. RetOK' /\ ret' \in Results
    <3>1. Top.cmd \in Commands /\ (~lost => wire[1].to = Top.cmd)
      BY <1>2, <1>4, <1>5 DEF FrameOK, Sendable
    <3>2. UNCHANGED <<lost, conn, server, glob_group>>
      BY <1>1
    <3>3. QED
      BY <1>1, <1>6, <2>1, <3>1, <3>2, ResultOK
  <2>4. glob_group # NoGroup
    BY <1>3, <1>5 DEF FrameOK
  <2>5. conn = "up" /\ ~inside => server.group = glob_group
    BY <1>2, <1>9 DEF LineOK, Textual, GroupVerb
  <2>6. told \in {"nothing", "posted", "failed"} /\ (told = "posted" => accepted > 0)
    BY <1>6 DEF TypeOK, PostOK
  <2>7. /\ told' \in {"nothing", "posted", "failed"} /\ inside' \in BOOLEAN /\ (inside => inside')
        /\ inside' /\ ~inside => glob_group # NoGroup /\ (conn = "up" => server.group = glob_group)
        /\ told' = "posted" => accepted > 0
        /\ ~lost /\ told' # "posted" => accepted = 0
    BY <1>1, <1>5, <2>1, <2>4, <2>5, <2>6
  <2>8. QED
    BY <1>1, <1>2, <1>3, <1>7, <2>1, <2>2, <2>3, <2>7, FinishStep
<1>10. CASE wire[1].code # "dot"
  <2> DEFINE pc == IF wire[1].code = "line" \/ Succeeded(Top.cmd.verb, wire[1])
                   THEN Top.pc ELSE "astray"
  <2>1. Goto(AtPc(pc)) /\ ret' = ret /\ inside' = inside
    BY <1>2, <1>10 DEF ReadLine
  <2>2. pc \in {"lines", "astray"}
    BY <1>1
  <2>3. ASSUME ~lost, conn = "up", pc # "astray" PROVE wire' # <<>>
    <3>1. wire[1].to = Top.cmd
      BY <2>3, <1>2, <1>4
    <3>2. wire[1].code \in {"line", "ok"}
      BY <2>3 DEF Succeeded
    <3>3. ~Final(wire[1])
      BY <3>1, <3>2, <1>4 DEF Final
    <3>4. QED
      BY <3>3, <2>3, <1>1, <1>8
  <2>4. /\ \A i \in 1..Len(wire') : wire'[i].to = last_put
        /\ wire' # <<>> => wire'[1].code # "cont"
    <3>1. wire' # <<>> => 1 \in 1..Len(wire')
      BY <1>1, <1>8, EmptyLen
    <3>2. QED
      BY <3>1, <1>1, <1>4, <1>8
  <2>5. /\ Textual(last_put) => last_put = Top.cmd
        /\ ~lost => last_put = Top.cmd
    <3>1. Top.pc # "verdict"
      BY <1>1
    <3>2. QED
      BY <3>1, <1>1, <1>2, <1>4 DEF ReadingOK
  <2> HIDE DEF pc
  <2>6. /\ ret' = None
        /\ wire' = wire \/ (wire # <<>> /\ wire' = Tail(wire))
        /\ ~lost => /\ last_put = Top.cmd \/ (wire' = <<>> /\ conn # "up")
                    /\ conn = "up" /\ pc # "astray" => wire' # <<>>
    BY <1>1, <1>2, <2>1, <2>3, <2>5
  <2>7. QED
    BY <1>1, <1>2, <1>3, <1>7, <2>1, <2>2, <2>4, <2>5, <2>6, TextStep
<1>11. QED
  BY <1>9, <1>10

\* The call that posts, when a call it made has returned
LEMMA PostWaits ==
  ASSUME IInv, phase = "up", stack # <<>>, ret # None, Top.fn = "post", Top.pc \in {"status", "auth"}
  PROVE  /\ wire = <<>> /\ told = "nothing" /\ ~Textual(last_put)
         /\ Top \in Calls /\ FrameOK(Top, lost, glob_group, inside, told)
         /\ ~lost => accepted = 0
         /\ ~lost /\ conn = "up" /\ Top.pc = "status" => (server.article <=> ret.code = "cont")
         /\ ~lost /\ conn = "up" /\ Top.pc = "auth" => ~server.article
<1>1. AsksCommand(Top) \/ AsksAuth(Top)
  BY DEF AsksCommand, AsksAuth
<1>2. ReturnedOK /\ PostOK
  BY <1>1 DEF IInv, TopOK
<1>3. Top \in Calls /\ FrameOK(Top, lost, glob_group, inside, told)
      /\ (~lost /\ told # "posted" => accepted = 0)
  BY Here
<1>4. wire = <<>> /\ told = "nothing" /\ ~Textual(last_put)
  BY <1>2, <1>3 DEF ReturnedOK, TextFollows, FrameOK
<1>5. ~lost /\ conn = "up" /\ Top.pc = "status" => (server.article <=> ret.code = "cont")
  BY <1>2 DEF ReturnedOK, PostOK
<1>6. ~lost /\ conn = "up" /\ Top.pc = "auth" => ~server.article
  BY <1>2 DEF PostOK
<1>7. QED
  BY <1>3, <1>4, <1>5, <1>6

\* Posting fails before the article was sent.
LEMMA FailStep ==
  ASSUME IInv, phase = "up", stack # <<>>, ret # None, Top.fn = "post", Tell("failed"),
         \/ Top.pc = "status" /\ ret.code # "cont"
         \/ Top.pc = "auth",
         UNCHANGED <<ret, last_put, glob_group, inside, phase, ops, lost, conn, wire, server,
                     setup, accepted, trouble>>
  PROVE  IInv'
<1>1. /\ wire = <<>> /\ told = "nothing"
      /\ ~lost => accepted = 0
      /\ ~lost /\ conn = "up" => ~server.article
  BY PostWaits
<1>2. TypeOK /\ RetOK
  BY DEF IInv
<1>3. stack' = Rest /\ told' = "failed"
  BY DEF Tell
<1>4. RetOK'
  BY <1>2 DEF RetOK
<1>5. /\ ret' \in Results \cup {None} /\ inside' \in BOOLEAN /\ (inside => inside')
      /\ ~(inside' /\ ~inside) /\ wire' = <<>>
      /\ told' \in {"nothing", "posted", "failed"} /\ told' # "posted"
  BY <1>1, <1>2, <1>3 DEF TypeOK
<1>6. QED
  BY <1>1, <1>3, <1>4, <1>5, FinishStep

\* The article is sent, or there is no one to take it.
LEMMA SendArticleFacts ==
  ASSUME TypeOK, wire = <<>>, SendArticle, told = "nothing",
         ~lost => accepted = 0, ~lost /\ conn = "up" => server.article
  PROVE  /\ conn' = conn /\ server' \in Servers /\ server'.group = server.group
         /\ server'.denied = server.denied
         /\ accepted' \in Nat /\ accepted <= accepted' /\ trouble' \in 0..Troubles
         /\ wire' \in Seq(Answers) /\ OneAnswer(wire', conn')
         /\ \A i \in 1..Len(wire') :
              /\ wire'[i].to = Text
              /\ LineOK(wire'[i], conn', server', lost, glob_group, inside, accepted')
         /\ wire' # <<>> => wire'[1].code \notin {"line", "dot", "cont"}
         /\ ~lost /\ conn = "up" => wire' # <<>> /\ ~server'.article
         /\ ~lost => accepted' <= 1
         /\ ~lost /\ accepted' # 0 => \A i \in 1..Len(wire') : wire'[i].code = "ok"
<1>1. /\ conn \in {"none", "up", "gone"} /\ server \in Servers /\ accepted \in Nat
      /\ trouble \in 0..Troubles /\ Troubles \in Nat
  BY NntpAssumption DEF TypeOK, NntpAssumption
<1>2. CASE conn = "up" /\ server.article
  <2>1. PICK code \in {"ok", "no"} \cup (IF server.authed THEN {} ELSE {"auth"})
                                   \cup (IF trouble = Troubles THEN {} ELSE {"fault"}) :
           /\ server' = [server EXCEPT !.article = FALSE]
           /\ wire' = wire \o <<Line(Text, code, server)>>
           /\ accepted' = IF code = "ok" THEN accepted + 1 ELSE accepted
           /\ trouble' = IF code = "fault" THEN trouble + 1 ELSE trouble
           /\ UNCHANGED conn
    BY <1>2 DEF SendArticle
  <2>2. code \in {"ok", "no", "auth", "fault"} /\ (code = "fault" => trouble # Troubles)
    OBVIOUS
  <2>3. /\ server' \in Servers /\ server'.group = server.group /\ server'.denied = server.denied
        /\ server'.article = FALSE
    BY <1>1, <2>1 DEF Servers
  <2>4. Text.verb = "article text" /\ ~Textual(Text) /\ Text \in Commands
    BY DEF Text, Cmd, Textual, Commands, Verbs
  <2> DEFINE w == Lines(Text, code, server)
  <2>5. wire' = w
    <3>1. w = <<Line(Text, code, server)>>
      BY <2>4 DEF Lines, Textual
    <3>2. Line(Text, code, server) \in Answers
      BY <1>1, <2>2, <2>4 DEF Line, Answers, Codes, Servers
    <3> HIDE DEF w
    <3>3. QED
      BY <2>1, <3>1, <3>2
  <2>6. w = Lines(Text, code, server)
    OBVIOUS
  <2> HIDE DEF w
  <2>7. /\ w \in Seq(Answers) /\ w # <<>> /\ w[1].code = code
        /\ OneAnswer(w, conn')
        /\ \A i \in 1..Len(w) : /\ w[i] = Line(Text, w[i].code, server)
                                /\ w[i].code = code \/ (code = "ok" /\ Textual(Text))
                                /\ w[i].code \in {code, "line", "dot"}
    <3>1. code \in Codes \ {"line", "dot"} /\ server \in Servers /\ Text \in Commands
      BY <1>1, <2>2, <2>4 DEF Codes
    <3>2. QED
      BY ONLY <2>6, <3>1, LinesFacts
  <2>8. \A k : Line(Text, k, server).to = Text
    BY DEF Line
  <2>9. \A i \in 1..Len(w) : w[i].to = Text /\ w[i].code = code
    BY <2>4, <2>7, <2>8
  <2>10. /\ accepted' \in Nat /\ accepted <= accepted' /\ (code = "ok" => accepted' > 0)
         /\ trouble' \in 0..Troubles
    BY <1>1, <2>1, <2>2
  <2>11. NoCommand.verb = ""
    BY DEF NoCommand, Cmd
  <2>12. \A i \in 1..Len(w) : LineOK(w[i], conn', server', lost, glob_group, inside, accepted')
    BY <2>2, <2>4, <2>9, <2>10, <2>11 DEF LineOK, GroupVerb, Textual
  <2>13. ~lost => accepted' <= 1 /\ (accepted' # 0 => code = "ok")
    BY <1>1, <2>1
  <2>14. conn' = conn
    BY <2>1
  <2>15. QED
    BY <2>2, <2>3, <2>5, <2>7, <2>9, <2>10, <2>12, <2>13, <2>14
<1>3. CASE ~(conn = "up" /\ server.article)
  <2>1. UNCHANGED <<conn, server, wire, accepted, trouble>>
    BY <1>3 DEF SendArticle
  <2>2. wire' = <<>> /\ Len(wire') = 0
    BY <2>1
  <2>3. accepted' \in Nat /\ accepted <= accepted' /\ (~lost => accepted' = 0)
    BY <1>1, <2>1
  <2>4. QED
    BY <1>1, <1>3, <2>1, <2>2, <2>3, NothingUnread DEF TypeOK
<1>4. QED
  BY <1>2, <1>3

LEMMA PostTextStep == ASSUME IInv, PostText PROVE IInv'
<1>1. /\ phase = "up" /\ stack # <<>> /\ Top.fn = "post" /\ Top.pc = "status" /\ ret # None
      /\ UNCHANGED <<last_put, glob_group, inside, ops, phase, lost, setup>>
  BY DEF PostText, At
<1>2. CASE ret.code # "cont"
  <2>1. Tell("failed") /\ UNCHANGED <<ret, conn, wire, server, accepted, trouble>>
    BY <1>2 DEF PostText
  <2>2. QED
    BY <1>1, <1>2, <2>1, FailStep
<1>3. CASE ret.code = "cont"
  <2> DEFINE f == AtPc("verdict")
  <2>1. SendArticle /\ stack' = <<f>> \o Rest /\ ret' = None /\ told' = told
    BY <1>3 DEF PostText, Goto
  <2>2. /\ wire = <<>> /\ told = "nothing" /\ ~Textual(last_put)
        /\ Top \in Calls /\ FrameOK(Top, lost, glob_group, inside, told)
        /\ ~lost => accepted = 0
        /\ ~lost /\ conn = "up" => server.article
    BY <1>1, <1>3, PostWaits
  <2>3. TypeOK /\ GroupOK /\ PostOK /\ Frames(stack, lost, glob_group, inside, told)
        /\ Sendable(last_put, glob_group, inside) /\ lost \in BOOLEAN
    BY <1>1, Here DEF IInv
  <2>4. /\ conn' = conn /\ server' \in Servers /\ server'.group = server.group
        /\ server'.denied = server.denied
        /\ accepted' \in Nat /\ accepted <= accepted' /\ trouble' \in 0..Troubles
        /\ wire' \in Seq(Answers) /\ OneAnswer(wire', conn')
        /\ \A i \in 1..Len(wire') :
             /\ wire'[i].to = Text
             /\ LineOK(wire'[i], conn', server', lost, glob_group, inside, accepted')
        /\ wire' # <<>> => wire'[1].code \notin {"line", "dot", "cont"}
        /\ ~lost /\ conn = "up" => wire' # <<>> /\ ~server'.article
        /\ ~lost => accepted' <= 1
        /\ ~lost /\ accepted' # 0 => \A i \in 1..Len(wire') : wire'[i].code = "ok"
    BY <2>1, <2>2, <2>3, SendArticleFacts
  <2>5. /\ phase' = "up" /\ lost' = lost /\ last_put' = last_put /\ setup' = setup
        /\ glob_group' = glob_group /\ ops' = ops /\ inside' = inside /\ told' = "nothing"
    BY <1>1, <2>1, <2>2
  <2>6. f \in Calls /\ f.fn = "post" /\ f.pc = "verdict" /\ f.cmd = Top.cmd /\ f.buf = Top.buf
    <3>1. "verdict" \in Places
      BY DEF Places
    <3>2. QED
      BY <1>1, <2>2, <3>1, AtPcFacts
  <2> HIDE DEF f
  <2>7. Reads(f)
    BY <2>6 DEF Reads
  <2>8. FrameOK(f, lost, glob_group, inside, told)
    BY <1>1, <2>2, <2>6, <2>7, AtPcFrame
  <2>9. /\ Frames(stack', lost, glob_group, inside, told) /\ stack' # <<>> /\ Head(stack') = f
        /\ Afloat(stack') <=> Afloat(stack)
    <3>1. f.fn = Head(stack).fn /\ f.cmd = Head(stack).cmd /\ f.fn # "open"
      BY <1>1, <2>6 DEF Top
    <3>2. /\ Frames(<<f>> \o Tail(stack), lost, glob_group, inside, told)
          /\ <<f>> \o Tail(stack) # <<>> /\ Head(<<f>> \o Tail(stack)) = f
          /\ Afloat(<<f>> \o Tail(stack)) <=> Afloat(stack)
      BY <1>1, <2>3, <2>8, <3>1, GotoFrames
    <3>3. QED
      BY <2>1, <3>2 DEF Rest
  <2>10. Top' = f
    BY <2>9 DEF Top
  <2>11. TypeOK'
    BY <2>1, <2>3, <2>4, <2>5, <2>9 DEF TypeOK, Frames
  <2>12. WireOK'
    BY <2>4, <2>5 DEF WireOK
  <2>13. ReadingOK'
    BY <2>2, <2>4, <2>5, <2>6, <2>10 DEF ReadingOK
  <2>14. TopOK'
    BY <2>1, <2>3, <2>5, <2>6, <2>9, <2>10, <2>13 DEF TopOK, AsksCommand, AsksAuth
  <2>15. RetOK'
    BY <2>1 DEF RetOK
  <2>16. GroupOK'
    BY <1>1, <2>3, <2>4, <2>5, <2>6, <2>9, <2>10 DEF GroupOK
  <2>17. PostOK'
    BY <2>2, <2>4, <2>5, <2>6, <2>9, <2>10 DEF PostOK
  <2>18. Frames(stack', lost', glob_group', inside', told')
    BY <2>2, <2>5, <2>9
  <2>19. QED
    BY <2>5, <2>11, <2>12, <2>14, <2>15, <2>16, <2>17, <2>18 DEF IInv
<1>4. QED
  BY <1>2, <1>3

LEMMA PostAgainStep == ASSUME IInv, PostAgain PROVE IInv'
<1>1. /\ phase = "up" /\ stack # <<>> /\ Top.fn = "post" /\ Top.pc = "auth" /\ ret # None
      /\ UNCHANGED <<glob_group, inside, ops, phase, lost, setup, accepted>>
  BY DEF PostAgain, At
<1>2. CASE ret.code # "ok"
  <2>1. Tell("failed") /\ UNCHANGED <<ret, last_put, conn, wire, server, trouble>>
    BY <1>2 DEF PostAgain
  <2>2. QED
    BY <1>1, <1>2, <2>1, FailStep
<1>3. CASE ret.code = "ok"
  <2> DEFINE f == AtPc("status")
  <2>1. Ask(Post, "status") /\ told' = told
    BY <1>3 DEF PostAgain
  <2>2. wire = <<>> /\ Top \in Calls
    BY <1>1, PostWaits
  <2>3. f = AtPc("status") /\ "status" \in Places
    BY DEF Places
  <2> HIDE DEF f
  <2>4. f.fn = "post" /\ f.pc = "status"
    BY <1>1, <2>2, <2>3, AtPcFacts
  <2>5. AsksCommand(f)
    BY <2>4 DEF AsksCommand
  <2>6. CommandOf(f) = Post
    BY <2>4 DEF CommandOf
  <2>7. Sendable(Post, glob_group, inside) /\ ~Textual(Post) /\ Post # NoCommand
    BY OwnCommands
  <2>8. UNCHANGED <<user, phase, lost, setup, accepted>>
    BY <1>1, <2>1 DEF user
  <2>9. QED
    BY <1>1, <2>1, <2>2, <2>3, <2>4, <2>5, <2>6, <2>7, <2>8, AskStep
<1>4. QED
  BY <1>2, <1>3

LEMMA ReadVerdictStep == ASSUME IInv, ReadVerdict PROVE IInv'
<1>1. /\ phase = "up" /\ Reading /\ Top.pc = "verdict" /\ wire # <<>>
      /\ UNCHANGED <<glob_group, inside, ops, phase, lost, setup, accepted>>
  BY DEF ReadVerdict, Reading
<1>2. /\ stack # <<>> /\ ret = None /\ 1 \in 1..Len(wire)
      /\ wire[1] \in Answers /\ Head(wire) = wire[1]
      /\ LineOK(wire[1], conn, server, lost, glob_group, inside, accepted)
      /\ Reads(Top)
      /\ ~lost => wire[1].to = Awaited(Top)
      /\ Top.fn = "auth" => Top.pc \in {"generic", "user", "pass"}
  BY <1>1, ReadFacts
<1>3. Top.fn = "post"
  BY <1>1, <1>2 DEF Reads
<1>4. Awaited(Top) = Text
  BY <1>1, <1>3, ReadFacts
<1>5. TypeOK /\ WireOK /\ PostOK
  BY DEF IInv
<1>6. /\ Top \in Calls /\ FrameOK(Top, lost, glob_group, inside, told)
  BY <1>1, <1>2, Here
<1>7. ~lost /\ conn = "up" => ~server.article
  BY <1>1, <1>3, <1>5 DEF PostOK
<1>8. told = "nothing"
  BY <1>3, <1>6 DEF FrameOK
<1>9. ~lost /\ accepted # 0 => wire[1].code = "ok"
  BY <1>1, <1>2, <1>5, <1>8 DEF PostOK
<1>10. Tail(wire) = <<>>
  BY <1>1, <1>3, AllRead
<1>11. CASE Head(wire).code = "auth" /\ Top.try = 1
  <2> DEFINE a == AtPc("auth")
             f == [a EXCEPT !.try = 2]
  <2>1. Authenticate(f, Tail(wire)) /\ ret' = ret /\ told' = told
    BY <1>11 DEF ReadVerdict
  <2>2. a \in Calls /\ a.fn = "post" /\ a.pc = "auth" /\ a.cmd = Top.cmd /\ a.buf = Top.buf
    <3>1. "auth" \in Places
      BY DEF Places
    <3>2. QED
      BY <1>3, <1>6, <3>1, AtPcFacts
  <2>3. f = [a EXCEPT !.try = 2] /\ 2 \in 1..2
    OBVIOUS
  <2> HIDE DEF a, f
  <2>4. f \in Calls /\ f.fn = "post" /\ f.pc = "auth" /\ f.cmd = Top.cmd /\ f.buf = Top.buf
    BY <2>2, <2>3 DEF Calls
  <2>5. AsksAuth(f)
    BY <2>4 DEF AsksAuth
  <2>6. FrameOK(f, lost, glob_group, inside, told)
    BY <1>3, <1>6, <2>4, <2>5, AtPcFrame
  <2>7. ~lost /\ told # "posted" => accepted = 0
    BY <1>2, <1>9, <1>11
  <2>8. UNCHANGED <<user, phase, lost, setup, accepted>>
    BY <1>1, <2>1 DEF user
  <2>9. f.fn = Top.fn /\ f.cmd = Top.cmd /\ f.fn # "open" /\ ret' = None
    BY <1>2, <1>3, <2>1, <2>4
  <2>10. QED
    BY <1>1, <1>2, <1>7, <1>10, <2>1, <2>5, <2>6, <2>7, <2>8, <2>9, AuthenticateStep
<1>12. CASE ~(Head(wire).code = "auth" /\ Top.try = 1)
  <2> DEFINE what == IF Succeeded("article text", wire[1]) THEN "posted" ELSE "failed"
  <2>1. /\ Tell(what) /\ wire' = Tail(wire) /\ ret' = Result(Text, wire[1])
        /\ UNCHANGED <<last_put, conn, server, trouble>>
    BY <1>2, <1>12 DEF ReadVerdict
  <2>2. Text \in Commands /\ Text.verb = "article text"
    BY DEF Text, Cmd, Commands, Verbs
  <2>3. RetOK' /\ ret' \in Results
    <3>1. ~lost => wire[1].to = Text
      BY <1>2, <1>4
    <3>2. UNCHANGED <<lost, conn, server, glob_group>>
      BY <1>1, <2>1
    <3>3. QED
      BY <1>1, <1>5, <2>1, <2>2, <3>1, <3>2, ResultOK
  <2>4. what = "posted" => accepted > 0
    BY <1>2, SuccessFacts DEF LineOK
  <2>5. ASSUME ~lost, what # "posted" PROVE accepted = 0
    <3>1. ASSUME accepted # 0 PROVE FALSE
      <4>1. wire[1].code = "ok" /\ wire[1].to = Text
        BY <3>1, <2>5, <1>2, <1>4, <1>9
      <4>2. Succeeded("article text", wire[1])
        BY <4>1, <2>2, <1>2, SuccessFacts
      <4>3. QED
        BY <4>2, <2>5
    <3>2. QED
      BY <3>1
  <2>6. what \in {"posted", "failed"}
    OBVIOUS
  <2> HIDE DEF what
  <2>7. told' = what /\ stack' = Rest /\ wire' = <<>>
    BY <1>10, <2>1 DEF Tell
  <2>8. inside \in BOOLEAN /\ inside' = inside
    BY <1>1, <1>5 DEF TypeOK
  <2>9. /\ told' \in {"nothing", "posted", "failed"} /\ inside' \in BOOLEAN /\ (inside => inside')
        /\ ~(inside' /\ ~inside) /\ ret' \in Results \cup {None}
        /\ told' = "posted" => accepted > 0
        /\ ~lost /\ told' # "posted" => accepted = 0
    BY <2>3, <2>4, <2>5, <2>6, <2>7, <2>8
  <2>10. QED
    BY <1>1, <1>2, <1>3, <1>7, <2>1, <2>3, <2>7, <2>9, FinishStep
<1>13. QED
  BY <1>11, <1>12

-----------------------------------------------------------------------------
(* The network, and the whole *)

LEMMA DropStep == ASSUME IInv, Drop PROVE IInv'
<1>1. /\ phase = "up" /\ conn = "up" /\ conn' = "gone" /\ trouble < Troubles /\ trouble' = trouble + 1
      /\ UNCHANGED <<client, server, setup, accepted>>
  BY DEF Drop
<1>2. PICK n \in 0..Len(wire) : wire' = SubSeq(wire, 1, n)
  BY DEF Drop
<1>3. /\ stack' = stack /\ ret' = ret /\ last_put' = last_put /\ glob_group' = glob_group
      /\ inside' = inside /\ told' = told /\ phase' = phase /\ ops' = ops /\ lost' = lost
      /\ server' = server /\ setup' = setup /\ accepted' = accepted
  BY <1>1 DEF client
<1>4. TypeOK /\ Frames(stack, lost, glob_group, inside, told) /\ WireOK /\ TopOK
      /\ RetOK /\ GroupOK /\ PostOK
  BY <1>1 DEF IInv
<1>5. wire \in Seq(Answers) /\ OneAnswer(wire, conn)
  BY <1>4 DEF TypeOK, WireOK
<1>6. /\ wire' \in Seq(Answers) /\ Len(wire') <= Len(wire) /\ Len(wire') \in Nat /\ Len(wire) \in Nat
      /\ \A i \in 1..Len(wire') : i \in 1..Len(wire) /\ wire'[i] = wire[i]
  BY <1>2, <1>5
<1>7. wire' # <<>> => wire # <<>> /\ wire'[1] = wire[1]
  <2>1. wire' # <<>> => 1 \in 1..Len(wire')
    BY <1>6, EmptyLen
  <2>2. wire = <<>> => Len(wire) = 0
    OBVIOUS
  <2>3. QED
    BY <2>1, <2>2, <1>6
<1>8. OneAnswer(wire', conn')
  <2>1. ASSUME NEW i \in 1..Len(wire'), i < Len(wire') PROVE ~Final(wire'[i])
    <3>1. i \in 1..Len(wire) /\ wire'[i] = wire[i] /\ i < Len(wire)
      BY <2>1, <1>6
    <3>2. QED
      BY <3>1, <1>5 DEF OneAnswer
  <2>2. \A i \in 1..Len(wire') : i > 1 => wire'[i].code \in {"line", "dot"}
    BY <1>5, <1>6 DEF OneAnswer
  <2>3. conn' # "up"
    BY <1>1
  <2>4. QED
    BY <2>1, <2>2, <2>3 DEF OneAnswer
<1>9. WireOK'
  <2>1. \A i \in 1..Len(wire') : \E j \in 1..Len(wire) : wire'[i] = wire[j]
    BY <1>6
  <2>2. accepted \in Nat /\ accepted <= accepted'
    BY <1>3, <1>4 DEF TypeOK
  <2>3. conn' # "up" /\ accepted' \in Nat
    BY <1>1, <1>3, <2>2
  <2>4. QED
    BY <1>3, <1>4, <1>8, <2>1, <2>2, <2>3, WireStays
<1>10. TypeOK'
  <2>1. trouble' \in 0..Troubles /\ conn' \in {"none", "up", "gone"}
    BY <1>1, <1>4, NntpAssumption DEF TypeOK, NntpAssumption
  <2>2. QED
    BY <1>3, <1>4, <1>6, <2>1 DEF TypeOK
<1>11. Top' = Top /\ Rest' = Rest
  BY <1>3 DEF Top, Rest
<1>12. (Reading => ReadingOK)'
  <2>1. ASSUME Reading PROVE ReadingOK'
    <3>1. ReadingOK
      BY <2>1, <1>4 DEF TopOK
    <3>2. /\ \A i \in 1..Len(wire') :
               wire'[i].to = last_put \/ (Top.pc = "verdict" /\ wire'[i].to = Text)
          /\ ~lost /\ Top.pc = "verdict" => \A i \in 1..Len(wire') : wire'[i].to = Text
      BY <3>1, <1>6 DEF ReadingOK
    <3>3. Top.fn # "caller" /\ wire' # <<>> => wire'[1].code \notin {"line", "dot"}
      BY <3>1, <1>7 DEF ReadingOK
    <3>4. /\ Textual(last_put) => last_put = Awaited(Top)
          /\ ~lost => last_put = Awaited(Top) \/ Top.pc = "verdict"
      BY <3>1, <1>1 DEF ReadingOK
    <3>5. QED
      BY <3>2, <3>3, <3>4, <1>1, <1>3, <1>11 DEF ReadingOK
  <2>2. Reading' => Reading
    BY <1>3, <1>11 DEF Reading
  <2>3. QED
    BY <2>1, <2>2
<1>13. ASSUME stack # <<>>, ret # None, AsksCommand(Top) \/ AsksAuth(Top) PROVE ReturnedOK'
  <2>1. ReturnedOK
    BY <1>4, <1>13 DEF TopOK
  <2>2. wire' = <<>> \/ TextFollows'
    <3>1. ASSUME wire' # <<>> PROVE TextFollows'
      <4>1. TextFollows
        BY <2>1, <3>1, <1>7 DEF ReturnedOK
      <4>2. QED
        BY <4>1, <1>3, <1>6, <1>11 DEF TextFollows
    <3>2. QED
      BY <3>1
  <2>3. QED
    BY <2>1, <2>2, <1>1, <1>3, <1>11 DEF ReturnedOK
<1>14. TopOK'
  <2>1. stack # <<>> /\ Top.fn = "open" => Top.pc # "connect"
    BY <1>1, <1>4 DEF TopOK
  <2>2. stack = <<>> => wire' = <<>>
    BY <1>4, <1>7 DEF TopOK
  <2>3. stack # <<>> /\ Top.fn = "open" /\ Top.pc = "rejoin" =>
          ret = None /\ Rest # <<>> /\ Len(wire') <= 1 /\ ~Textual(last_put)
    <3>1. \A m, k \in Nat : m <= k /\ k <= 1 => m <= 1
      OBVIOUS
    <3>2. QED
      BY <3>1, <1>4, <1>6 DEF TopOK
  <2>4. stack # <<>> => Sendable(last_put, glob_group, inside)
    BY <1>4 DEF TopOK
  <2>5. stack' # <<>> /\ ret' # None /\ (AsksCommand(Top') \/ AsksAuth(Top')) => ReturnedOK'
    BY <1>3, <1>11, <1>13
  <2>6. stack' = <<>> => wire' = <<>>
    BY <1>3, <2>2
  <2>7. stack' # <<>> /\ Top'.fn = "open" => Top'.pc # "connect"
    BY <1>3, <1>11, <2>1
  <2>8. stack' # <<>> /\ Top'.fn = "open" /\ Top'.pc = "rejoin" =>
          ret' = None /\ Rest' # <<>> /\ Len(wire') <= 1 /\ ~Textual(last_put')
    BY <1>3, <1>11, <2>3
  <2>9. stack' # <<>> => Sendable(last_put', glob_group', inside')
    BY <1>3, <2>4
  <2>10. QED
    BY <1>12, <2>5, <2>6, <2>7, <2>8, <2>9 DEF TopOK
<1>15. RetOK'
  BY <1>1, <1>3, <1>4 DEF RetOK
<1>16. GroupOK'
  BY <1>1, <1>3, <1>4 DEF GroupOK
<1>17. PostOK'
  BY <1>1, <1>3, <1>4, <1>6, <1>11 DEF PostOK
<1>18. Frames(stack', lost', glob_group', inside', told')
  BY <1>3, <1>4
<1>19. QED
  BY <1>1, <1>3, <1>9, <1>10, <1>14, <1>15, <1>16, <1>17, <1>18 DEF IInv

\* tin starts.
LEMMA InitOK == Init => IInv
<1> SUFFICES ASSUME Init PROVE IInv
  OBVIOUS
<1> DEFINE f == Call("open", "connect", NoCommand)
<1>1. /\ stack = <<f>> /\ ret = None /\ last_put = NoCommand /\ glob_group = NoGroup
      /\ inside = FALSE /\ told = "nothing" /\ phase = "up" /\ ops = 0 /\ lost = FALSE
      /\ conn = "none" /\ wire = <<>> /\ server = Fresh /\ setup \in Setups
      /\ accepted = 0 /\ trouble = 0
  BY DEF Init
<1>2. Sendable(NoCommand, glob_group, inside) /\ ~Textual(NoCommand)
  BY OwnCommands
<1>3. NoCommand \in Commands
  BY <1>2 DEF Sendable
<1>4. f.fn = "open" /\ f.pc = "connect" /\ f.cmd = NoCommand /\ f.buf = NoCommand
  BY CallFacts
<1>5. f \in Calls
  BY <1>3 DEF Call, Calls, Tries
<1>6. Fresh \in Servers
  BY DEF Fresh, Servers
<1> HIDE DEF f
<1>7. FrameOK(f, lost, glob_group, inside, told) /\ Outermost(f, inside)
  BY <1>1, <1>2, <1>4, <1>5 DEF FrameOK, Outermost
<1>8. Frames(<<f>>, lost, glob_group, inside, told) /\ <<f>> # <<>> /\ Head(<<f>>) = f
  BY <1>7, OneFrame
<1>9. Tail(<<f>>) = <<>>
  BY <1>5
<1>10. stack # <<>> /\ Top = f /\ Rest = <<>>
  BY <1>1, <1>8, <1>9 DEF Top, Rest
<1>11. TypeOK
  <2>1. stack \in Seq(Calls) /\ wire \in Seq(Answers)
    BY <1>1, <1>5
  <2>2. ops \in 0..Ops /\ trouble \in 0..Troubles /\ accepted \in Nat
    BY <1>1, NntpAssumption DEF NntpAssumption
  <2>3. /\ ret \in Results \cup {None} /\ glob_group \in Groups \cup {NoGroup}
        /\ inside \in BOOLEAN /\ lost \in BOOLEAN
    BY <1>1
  <2>4. last_put \in Commands /\ server \in Servers /\ setup \in Setups
    BY <1>1, <1>3, <1>6
  <2>5. /\ told \in {"nothing", "posted", "failed"} /\ phase \in {"up", "done"}
        /\ conn \in {"none", "up", "gone"}
    BY <1>1
  <2>6. QED
    BY <2>1, <2>2, <2>3, <2>4, <2>5 DEF TypeOK
<1>12. WireOK
  <2>1. Len(wire) = 0
    BY <1>1
  <2>2. QED
    BY <1>1, <2>1, NothingUnread DEF WireOK
<1>13. TopOK
  BY <1>1, <1>2, <1>4, <1>10 DEF TopOK, Reading
<1>14. RetOK /\ GroupOK /\ PostOK
  BY <1>1 DEF RetOK, GroupOK, PostOK
<1>15. Frames(stack, lost, glob_group, inside, told)
  BY <1>1, <1>8
<1>16. QED
  BY <1>1, <1>11, <1>12, <1>13, <1>14, <1>15 DEF IInv

\* The invariant is inductive.
LEMMA Inductive == IInv /\ [Next]_vars => IInv'
<1> SUFFICES ASSUME IInv, [Next]_vars PROVE IInv'
  OBVIOUS
<1>1. CASE Client
  BY <1>1, EofStep, RejoinStep, ConnectStep, GreetedStep, ModeReadStep, ForcedStep, ProbedStep,
     ResendStep, ReadStatusStep, AskAgainStep, ReadAuthStep,
     AnsweredStep, ReadLineStep, PostTextStep, ReadVerdictStep, PostAgainStep DEF Client
<1>2. CASE User
  BY <1>2, EnterGroupStep, LeaveGroupStep, ReadArticleStep, SubmitStep, LeaveStep DEF User
<1>3. CASE Drop
  BY <1>3, DropStep
<1>4. CASE UNCHANGED vars
  <2>1. /\ stack' = stack /\ ret' = ret /\ last_put' = last_put /\ glob_group' = glob_group
        /\ inside' = inside /\ told' = told /\ phase' = phase /\ ops' = ops /\ lost' = lost
        /\ conn' = conn /\ wire' = wire /\ server' = server /\ setup' = setup
        /\ accepted' = accepted /\ trouble' = trouble
    BY <1>4 DEF vars, client
  <2>2. Top' = Top /\ Rest' = Rest
    BY <2>1 DEF Top, Rest
  <2>3. (TypeOK <=> TypeOK') /\ (WireOK <=> WireOK')
    BY <2>1 DEF TypeOK, WireOK
  <2>4. (ReadingOK <=> ReadingOK') /\ (ReturnedOK <=> ReturnedOK') /\ (Reading <=> Reading')
    BY <2>1, <2>2 DEF ReadingOK, ReturnedOK, TextFollows, Reading
  <2>5. TopOK <=> TopOK'
    BY <2>1, <2>2, <2>4 DEF TopOK
  <2>6. (RetOK <=> RetOK') /\ (GroupOK <=> GroupOK') /\ (PostOK <=> PostOK')
    BY <2>1, <2>2 DEF RetOK, GroupOK, PostOK
  <2>7. QED
    BY <2>1, <2>3, <2>5, <2>6 DEF IInv
<1>5. QED
  BY <1>1, <1>2, <1>3, <1>4 DEF Next

\* It holds in every state that tin reaches.
THEOREM Invariant == Spec => []IInv
BY InitOK, Inductive, PTL DEF Spec

\* The variables keep their types, and what a call returns its shape.
THEOREM TypeCorrect == Spec => []TypeOK
<1>1. IInv => TypeOK
  BY DEF IInv
<1>2. QED
  BY Invariant, <1>1, PTL

\* A read waits in vain only when it was recovered by sending a line that was
\* not its command, or in the middle of a text that the server would not send
\* again; and what get_respcode() and tin_fgets() return answers the command
\* they were called for, but for the former.
THEOREM AnswersOwn == Spec => []EveryAnswerOwn
<1>1. ASSUME IInv PROVE EveryAnswerOwn
  <2>1. DeafOnlyBy
    <3>1. ASSUME Deaf, ~lost, ~Astray PROVE FALSE
      <4>1. phase = "up" /\ stack # <<>> /\ Reading /\ conn = "up" /\ wire = <<>>
        BY <3>1 DEF Deaf, Reading
      <4>2. ReadingOK /\ Top.pc # "astray"
        BY <4>1, <3>1, <1>1 DEF IInv, TopOK, Astray
      <4>3. QED
        BY <4>1, <4>2, <3>1 DEF ReadingOK
    <3>2. QED
      BY <3>1 DEF DeafOnlyBy
  <2>2. OwnAnswer
    BY <1>1 DEF IInv, RetOK, OwnAnswer
  <2>3. QED
    BY <2>1, <2>2 DEF EveryAnswerOwn
<1>2. QED
  BY Invariant, <1>1, PTL

\* When an operation of the user's has ended no answer is left unread, so that
\* the next one reads its own.
THEOREM StaysInStep == Spec => []InStep
<1>1. IInv => InStep
  BY DEF IInv, TopOK, InStep
<1>2. QED
  BY Invariant, <1>1, PTL

\* An article comes from the group the user is in, or the server refused to
\* enter it on this connection and delivers none.
THEOREM ArticlesRight == Spec => []RightGroup
<1>1. ASSUME IInv PROVE RightGroup
  <2>1. Cmd("ARTICLE").verb = "ARTICLE"
    BY DEF Cmd
  <2>2. QED
    BY <1>1, <2>1 DEF IInv, RetOK, RightGroup
<1>2. QED
  BY Invariant, <1>1, PTL

\* An article that submit_inews() calls posted was taken by the server, one
\* that it calls failed was not, and none was taken twice, unless POST was
\* sent again in place of the article.
THEOREM PostedRight == Spec => []Posted
<1>1. IInv => Posted
  BY DEF IInv, PostOK, Posted
<1>2. QED
  BY Invariant, <1>1, PTL

=============================================================================
