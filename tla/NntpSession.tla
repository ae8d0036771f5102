----------------------------- MODULE NntpSession -----------------------------
(***************************************************************************)
(* The connection of tin to its news server: put_server(), get_server()    *)
(* and reconnect() of nntplib.c, nntp_open(), get_respcode() and           *)
(* nntp_command() of open.c, the AUTHINFO dialogue of auth.c, the          *)
(* multi-line reads of tin_fgets() and the posting loop of inews.c.        *)
(*                                                                         *)
(* Any read may find the connection closed. get_server() then reconnects   *)
(* in the middle of whatever its caller was doing: nntp_open() runs a      *)
(* whole dialogue of its own, whose reads may reconnect again, so that the *)
(* functions nest to any depth. The stack of active calls is the variable  *)
(* "stack", its head the innermost; a function returns through "ret".      *)
(*                                                                         *)
(* The server and the network are external: the server answers a command   *)
(* when it is sent, may refuse, may answer 503, and may close the          *)
(* connection at any time, losing any of the answers not read yet. All     *)
(* this trouble is drawn from one budget, Troubles.                        *)
(***************************************************************************)
EXTENDS Integers, Sequences, SequencesExt

CONSTANTS
  Groups,     \* newsgroups
  NoGroup,    \* no group selected; glob_group = NULL
  None,       \* nothing returned
  Setups,     \* how tin and the server may be set up
  Posting,    \* whether the user posts
  Ops,        \* bound: operations of the user after the start
  Troubles    \* bound: failures of the server and the network

ASSUME NntpAssumption ==
  /\ NoGroup \notin Groups
  /\ \A s \in Setups : s.force \in BOOLEAN /\ s.newsauth \in BOOLEAN
  /\ Posting \in BOOLEAN
  /\ Ops \in Nat /\ Troubles \in Nat

VARIABLES
  stack,      \* the active calls, innermost first
  ret,        \* what the last call returned, None once it is used
  last_put,   \* copy of the last command sent
  glob_group, \* the group the user is in, or was in last
  inside,     \* index_group() succeeded for glob_group
  told,       \* what the user was told of the posting
  phase,      \* "up", or "done" after tin_done()
  conn,       \* "none": no socket; "up"; "gone": closed by the server
  wire,       \* answers sent by the server and not read yet
  server,     \* the server's side of the connection
  setup,      \* "asks": verbs the server answers 480 to before AUTHINFO; "force":
              \* force_auth_on_conn_open; "newsauth": a password in ~/.newsauth
  accepted,   \* copies of the user's article the server took
  ops,        \* operations begun
  trouble,    \* failures so far
  lost        \* history: some read reconnected when last_put was not its command

client == <<stack, ret, last_put, glob_group, inside, told, phase, ops, lost>>
vars == <<client, conn, wire, server, setup, accepted, trouble>>

-----------------------------------------------------------------------------
\* Commands and calls

Cmd(verb) == [verb |-> verb, group |-> NoGroup]
GroupCmd(verb, g) == [verb |-> verb, group |-> g]

NoCommand == Cmd("")
ModeReader == Cmd("MODE READER")
Quit == Cmd("QUIT")
Post == Cmd("POST")
Text == Cmd("article text")
Answer == Cmd("an answer of the server")

Verbs == {"", "MODE READER", "XOVER", "OVER", "LISTGROUP", "GROUP", "ARTICLE", "POST",
          "article text", "AUTHINFO GENERIC", "AUTHINFO USER", "AUTHINFO PASS", "QUIT",
          "an answer of the server"}
Commands == [verb : Verbs, group : Groups \cup {NoGroup}]
Codes == {"ok", "no", "unknown", "auth", "more", "cont", "fault", "refused", "line", "dot"}
Answers == [to : Commands, code : Codes, group : Groups \cup {NoGroup}, denied : BOOLEAN]

\* NNTP_TRY_RECONNECT
Tries == 2

\* A call: what it is at, the command it asked, the command it saved from
\* last_put, the tries left to the get_server() it is in, whether it has sent
\* a command again after a 503, and which attempt it is at.
Call(fn, pc, cmd) ==
  [fn |-> fn, pc |-> pc, cmd |-> cmd, buf |-> NoCommand,
   retry |-> Tries, resent |-> FALSE, try |-> 1]

Calls == [fn : {"open", "command", "auth", "caller", "post"},
          pc : {"connect", "greet", "mode", "force", "mode2", "xover", "over", "rejoin",
                "status", "auth", "again", "generic", "user", "pass",
                "group", "lines", "astray", "verdict"},
          cmd : Commands, buf : Commands, retry : -1..Tries, resent : BOOLEAN, try : 1..2]

Top == Head(stack)
Rest == Tail(stack)
At(fn, pcs) == /\ phase = "up" /\ stack # <<>>
               /\ Top.fn = fn /\ Top.pc \in pcs

\* The innermost call is in get_server().
Reading == /\ phase = "up" /\ stack # <<>> /\ ret = None
           /\ \/ (Top.fn = "command" /\ Top.pc \in {"status", "again"})
              \/ Top.fn = "auth"
              \/ Top.pc \in {"lines", "astray", "verdict"}

AuthVerb == [generic |-> "AUTHINFO GENERIC", user |-> "AUTHINFO USER", pass |-> "AUTHINFO PASS"]

\* The command whose answer a call is reading.
Awaited(f) ==
  CASE f.fn = "auth" -> Cmd(AuthVerb[f.pc])
    [] f.pc = "verdict" -> Text
    [] OTHER -> f.cmd

\* Sending last_put again does not bring the answer the innermost call reads.
Misses == last_put = NoCommand \/ last_put # Awaited(Top)

-----------------------------------------------------------------------------
\* The server

Fresh == [authed |-> FALSE, user |-> FALSE, group |-> NoGroup, denied |-> FALSE, article |-> FALSE]

\* The codes the server may answer a command with, trouble apart.
Own(c) ==
  CASE c.verb = "MODE READER" -> {"ok"}
    [] c.verb \in {"XOVER", "OVER"} -> {"unknown", "no"}
    [] c.verb \in {"LISTGROUP", "GROUP"} -> {"ok", "no"}
    [] c.verb = "ARTICLE" -> IF server.group = NoGroup THEN {"no"} ELSE {"ok", "no"}
    [] c.verb = "POST" -> {"cont", "no"}
    [] c.verb = "AUTHINFO GENERIC" -> {"unknown", "ok"}
    [] c.verb = "AUTHINFO USER" -> {"more", "no"}
    [] c.verb = "AUTHINFO PASS" -> IF server.user THEN {"ok", "no"} ELSE {"no"}
    [] c.verb = "QUIT" -> {"ok"}
    [] OTHER -> {"unknown"}

Served(c) ==
  IF c.verb \in setup.asks /\ ~server.authed
  THEN {"auth"}
  ELSE Own(c) \cup (IF trouble = Troubles THEN {}
                    ELSE {"fault"} \cup (IF c = ModeReader THEN {"refused"} ELSE {}))

\* The server's side after it answered a command.
After(c, code) ==
  [server EXCEPT
    !.authed = @ \/ (c.verb \in {"AUTHINFO GENERIC", "AUTHINFO PASS"} /\ code = "ok"),
    !.user = c.verb = "AUTHINFO USER" /\ code = "more",
    !.group = IF c.verb \in {"LISTGROUP", "GROUP"} /\ code = "ok" THEN c.group ELSE @,
    !.denied = IF c.verb = "GROUP" THEN code # "ok" ELSE @,
    !.article = c = Post /\ code = "cont"]

Line(c, code, s) == [to |-> c, code |-> code, group |-> s.group, denied |-> s.denied]

\* The lines of an answer: article text and lists of numbers follow a 2xx.
Lines(c, code, s) ==
  IF c.verb \in {"LISTGROUP", "ARTICLE"} /\ code = "ok"
  THEN <<Line(c, "ok", s), Line(c, "line", s), Line(c, "dot", s)>>
  ELSE <<Line(c, code, s)>>

\* Bytes that reach the server, w being what is unread: a command is answered,
\* unless the server is waiting for an article and takes it for its text.
Deliver(c, w) ==
  IF conn # "up" \/ c = NoCommand \/ server.article
  THEN wire' = w /\ UNCHANGED <<conn, server, trouble>>
  ELSE \E code \in Served(c) :
         /\ server' = After(c, code)
         /\ wire' = w \o Lines(c, code, server')
         /\ conn' = IF code = "refused" \/ c = Quit THEN "gone" ELSE conn
         /\ trouble' = IF code \in {"fault", "refused"} THEN trouble + 1 ELSE trouble

\* Mutant of Put: what was sent last is not sent again.
PutOnce(c, w) ==
  /\ Deliver(IF c = last_put THEN NoCommand ELSE c, w)
  /\ last_put' = IF c = NoCommand THEN last_put ELSE c

\* put_server(): an empty string is only a flush.
Put(c, w) ==
  /\ Deliver(c, w)
  /\ last_put' = IF c = NoCommand THEN last_put ELSE c

\* The article and its ".": u_put_server() and put_server(""), last_put stays.
SendArticle ==
  IF conn = "up" /\ server.article
  THEN \E code \in {"ok", "no"} \cup (IF server.authed THEN {} ELSE {"auth"})
                                \cup (IF trouble = Troubles THEN {} ELSE {"fault"}) :
         /\ server' = [server EXCEPT !.article = FALSE]
         /\ wire' = wire \o <<Line(Text, code, server)>>
         /\ accepted' = IF code = "ok" THEN accepted + 1 ELSE accepted
         /\ trouble' = IF code = "fault" THEN trouble + 1 ELSE trouble
         /\ UNCHANGED conn
  ELSE UNCHANGED <<conn, server, wire, accepted, trouble>>

\* The server or the network closes the connection; what was on its way is
\* lost from some point on.
Drop ==
  /\ phase = "up" /\ conn = "up" /\ trouble < Troubles
  /\ conn' = "gone" /\ trouble' = trouble + 1
  /\ \E n \in 0..Len(wire) : wire' = SubSeq(wire, 1, n)
  /\ UNCHANGED <<client, server, setup, accepted>>

-----------------------------------------------------------------------------
\* Calls and returns

Goto(f) == stack' = <<f>> \o Rest
Into(f, caller) == stack' = <<f, caller>> \o Rest
\* Mutant of AtPc: one try too many.
AtPcOneMore(pc) == [Top EXCEPT !.pc = pc, !.retry = Tries + 1, !.resent = FALSE]
AtPc(pc) == [Top EXCEPT !.pc = pc, !.retry = Tries, !.resent = FALSE]

Result(asked, line) ==
  [asked |-> asked, to |-> line.to, code |-> line.code,
   group |-> line.group, denied |-> line.denied]
Verdict(code) == Result(NoCommand, Line(NoCommand, code, server))

\* The numbers of the 2xx codes tell these apart and no others: a caller
\* compares what it got with the one it wants.
Class(verb) ==
  CASE verb \in {"LISTGROUP", "GROUP"} -> "211"
    [] verb \in {"AUTHINFO GENERIC", "AUTHINFO PASS", "AUTHINFO USER"} -> "281"
    [] OTHER -> verb
\* Mutant of Succeeded: any answer that lets tin go on is a success.
SucceededSoFar(verb, r) == r.code \in {"ok", "cont", "more"}
Succeeded(verb, r) == r.code = "ok" /\ Class(r.to.verb) = Class(verb)

\* nntp_command(): send, then get_respcode(); the caller goes on at pc.
Ask(c, pc) ==
  /\ Put(c, wire)
  /\ Into(Call("command", "status", c), AtPc(pc))
  /\ ret' = None

\* authenticate(): AUTHINFO GENERIC comes first.
Authenticate(caller, w) ==
  /\ Put(Cmd(AuthVerb.generic), w)
  /\ Into(Call("auth", "generic", NoCommand), caller)

Done == phase' = "done" /\ stack' = <<>>

user == <<glob_group, inside, told, ops>>

-----------------------------------------------------------------------------
\* get_server() and reconnect()

\* The read finds nothing: unless the last command was QUIT, reconnect() drops
\* the socket, asks the user unless auto_reconnect is set, saves last_put and
\* calls nntp_open().
Eof ==
  /\ Reading /\ wire = <<>> /\ conn # "up"
  /\ conn' = "none"
  /\ IF last_put = Quit
     THEN Done /\ ret' = Verdict("ok") /\ UNCHANGED lost
     ELSE \/ Done /\ UNCHANGED <<ret, lost>>
          \/ /\ stack' = <<[Call("open", "connect", NoCommand) EXCEPT !.buf = last_put]>> \o stack
             /\ lost' = (lost \/ Misses)
             /\ UNCHANGED <<ret, phase>>
  /\ UNCHANGED <<last_put, user, wire, server, setup, accepted, trouble>>

\* nntp_open() failed: giveup() at the start; else one try less, and none left
\* ends the program. Below zero the count goes on and never comes back to 0
\* (-1 stands for all of them).
OpenFailed ==
  IF Rest = <<>> \/ Head(Rest).retry = 1
  THEN Done
  ELSE /\ stack' = <<[Head(Rest) EXCEPT !.retry = IF @ = -1 THEN -1 ELSE @ - 1]>> \o Tail(Rest)
       /\ UNCHANGED phase

\* Mutant of OpenDone: the group is not joined again.
OpenDoneNoGroup ==
  IF Rest = <<>>
  THEN stack' = <<>> /\ UNCHANGED <<last_put, conn, wire, server, trouble>>
  ELSE /\ Put(Top.buf, wire)
       /\ stack' = <<[Head(Rest) EXCEPT !.retry = 0]>> \o Tail(Rest)

\* reconnect() after nntp_open(): join the group again, then send the command.
OpenDone ==
  IF Rest = <<>>
  THEN stack' = <<>> /\ UNCHANGED <<last_put, conn, wire, server, trouble>>
  ELSE IF glob_group = NoGroup
  THEN /\ Put(Top.buf, wire)
       /\ stack' = <<[Head(Rest) EXCEPT !.retry = 0]>> \o Tail(Rest)
  ELSE /\ Put(GroupCmd("GROUP", glob_group), wire)
       /\ Goto([Top EXCEPT !.pc = "rejoin"])

\* Mutant of Rejoin: the answer to GROUP is left unread.
RejoinUnread ==
  /\ At("open", {"rejoin"})
  /\ Put(Top.buf, wire)
  /\ stack' = <<[Head(Rest) EXCEPT !.retry = 0]>> \o Tail(Rest)
  /\ UNCHANGED <<ret, user, phase, lost, setup, accepted>>

\* The answer to that GROUP is read into last_put and not looked at. An empty
\* command is not sent, and leaves it there.
Rejoin ==
  /\ At("open", {"rejoin"})
  /\ wire # <<>> \/ conn # "up"
  /\ LET w == IF wire = <<>> THEN wire ELSE Tail(wire)
     IN Deliver(Top.buf, w)
  /\ last_put' = IF Top.buf # NoCommand THEN Top.buf
                 ELSE IF wire # <<>> THEN Answer ELSE last_put
  /\ stack' = <<[Head(Rest) EXCEPT !.retry = 0]>> \o Tail(Rest)
  /\ UNCHANGED <<ret, user, phase, lost, setup, accepted>>

-----------------------------------------------------------------------------
\* nntp_open()

\* server_init(): the connection is refused, or made and the sign-on read.
Connect ==
  /\ At("open", {"connect"})
  /\ \/ /\ trouble < Troubles /\ trouble' = trouble + 1
        /\ OpenFailed
        /\ UNCHANGED <<last_put, conn, wire, server>>
     \/ /\ last_put' = NoCommand
        /\ server' = Fresh
        /\ Into(Call("command", "status", NoCommand), AtPc("greet"))
        /\ \/ /\ conn' = "up" /\ wire' = <<Line(NoCommand, "ok", Fresh)>>
              /\ UNCHANGED trouble
           \/ /\ conn' = "gone" /\ wire' = <<Line(NoCommand, "refused", Fresh)>>
              /\ trouble < Troubles /\ trouble' = trouble + 1
        /\ UNCHANGED phase
  /\ UNCHANGED <<ret, user, lost, setup, accepted>>

Greeted ==
  /\ At("open", {"greet"}) /\ ret # None
  /\ IF ret.code = "ok"
     THEN Ask(ModeReader, "mode") /\ UNCHANGED phase
     ELSE OpenFailed /\ ret' = None /\ UNCHANGED <<last_put, conn, wire, server, trouble>>
  /\ UNCHANGED <<user, lost, setup, accepted>>

\* 400 and 502 to MODE READER end nntp_open(); any other answer will do.
ModeRead ==
  /\ At("open", {"mode", "mode2"}) /\ ret # None
  /\ IF ret.code = "refused"
     THEN OpenFailed /\ ret' = None /\ UNCHANGED <<last_put, conn, wire, server, trouble>>
     ELSE /\ UNCHANGED phase
          /\ IF setup.force /\ Top.pc = "mode"
             THEN Authenticate(AtPc("force"), wire) /\ ret' = None
             ELSE Ask(Cmd("XOVER"), "xover")
  /\ UNCHANGED <<user, lost, setup, accepted>>

\* Whatever came of authenticate(), MODE READER is sent again.
Forced ==
  /\ At("open", {"force"}) /\ ret # None
  /\ Ask(ModeReader, "mode2")
  /\ UNCHANGED <<user, phase, lost, setup, accepted>>

Probed ==
  /\ At("open", {"xover", "over"}) /\ ret # None
  /\ IF ret.code = "unknown" /\ Top.pc = "xover"
     THEN Ask(Cmd("OVER"), "over")
     ELSE OpenDone /\ ret' = None
  /\ UNCHANGED <<user, phase, lost, setup, accepted>>

-----------------------------------------------------------------------------
\* get_only_respcode() and get_respcode()

\* A 503 is taken for a timeout of the server: the last command is sent once
\* more, and the answer to that is the answer.
Resending == /\ wire # <<>> /\ Head(wire).code = "fault"
             /\ ~Top.resent /\ last_put # NoCommand
             /\ (Top.fn = "auth" \/ Top.pc \in {"status", "verdict"})

Resend ==
  /\ Reading /\ Resending
  /\ Put(last_put, Tail(wire))
  /\ Goto([Top EXCEPT !.resent = TRUE, !.retry = Tries])
  /\ lost' = (lost \/ Misses)
  /\ UNCHANGED <<ret, user, phase, setup, accepted>>

\* get_respcode(): 480 or 380 starts authenticate(), with the command saved;
\* any other code is returned, and every code after authenticate().
ReadStatus ==
  /\ Reading /\ Top.fn = "command" /\ wire # <<>> /\ ~Resending
  /\ IF Head(wire).code = "auth" /\ Top.pc = "status"
     THEN /\ Authenticate([AtPc("auth") EXCEPT !.buf = last_put], Tail(wire))
          /\ UNCHANGED <<ret, phase>>
     ELSE /\ wire' = Tail(wire)
          /\ ret' = Result(Top.cmd, Head(wire))
          /\ IF Top.cmd = Quit THEN Done ELSE stack' = Rest /\ UNCHANGED phase
          /\ UNCHANGED <<last_put, conn, server, trouble>>
  /\ UNCHANGED <<user, lost, setup, accepted>>

\* authenticate() returned to get_respcode(): the saved command is sent again,
\* or the program ends.
AskAgain ==
  /\ At("command", {"auth"}) /\ ret # None
  /\ IF ret.code = "ok"
     THEN /\ Deliver(Top.buf, wire)
          /\ last_put' = Top.buf
          /\ Goto(AtPc("again"))
          /\ UNCHANGED phase
     ELSE Done /\ UNCHANGED <<last_put, conn, wire, server, trouble>>
  /\ ret' = None
  /\ UNCHANGED <<user, lost, setup, accepted>>

-----------------------------------------------------------------------------
\* authinfo_original()

AuthDone(code) ==
  /\ stack' = Rest /\ ret' = Verdict(code) /\ wire' = Tail(wire)
  /\ UNCHANGED <<last_put, conn, server, trouble>>
AuthSay(pc, try) ==
  /\ Put(Cmd(AuthVerb[pc]), Tail(wire))
  /\ Goto([AtPc(pc) EXCEPT !.try = try])
  /\ UNCHANGED ret

\* Mutant of AskUser: a rejected password does not count as an attempt.
AskUserAgain == AuthDone("no") \/ AuthSay("user", 1)

\* The user types a name and a password, or gives up.
AskUser == AuthDone("no") \/ AuthSay("user", 2)

ReadAuth ==
  /\ Reading /\ Top.fn = "auth" /\ wire # <<>> /\ ~Resending
  /\ LET l == Head(wire)
     IN IF Succeeded("AUTHINFO PASS", l) THEN AuthDone("ok")
        ELSE IF Top.pc = "generic" /\ setup.newsauth THEN AuthSay("user", 1)
        ELSE IF Top.pc = "user" /\ l.code = "more" THEN AuthSay("pass", Top.try)
        ELSE IF Top.try = 1 THEN AskUser
        ELSE AuthDone("no")
  /\ UNCHANGED <<user, phase, lost, setup, accepted>>

-----------------------------------------------------------------------------
\* The callers of nntp_command()

Start(c) ==
  /\ phase = "up" /\ stack = <<>> /\ ops < Ops
  /\ ops' = ops + 1
  /\ Put(c, wire)
  /\ ret' = None
  /\ UNCHANGED <<phase, lost, setup>>

\* group_page(), index_group(), setup_hard_base(): glob_group is set first.
EnterGroup(g) ==
  /\ ~inside
  /\ Start(GroupCmd("LISTGROUP", g))
  /\ stack' = <<Call("command", "status", GroupCmd("LISTGROUP", g)),
                Call("caller", "status", GroupCmd("LISTGROUP", g))>>
  /\ glob_group' = g
  /\ UNCHANGED <<inside, told, accepted>>

LeaveGroup ==
  /\ phase = "up" /\ stack = <<>> /\ inside
  /\ inside' = FALSE /\ ret' = None
  /\ UNCHANGED <<stack, last_put, glob_group, told, phase, ops, lost,
                 conn, wire, server, setup, accepted, trouble>>

\* open_art_fp()
ReadArticle ==
  /\ inside
  /\ Start(Cmd("ARTICLE"))
  /\ stack' = <<Call("command", "status", Cmd("ARTICLE")), Call("caller", "status", Cmd("ARTICLE"))>>
  /\ UNCHANGED <<glob_group, inside, told, accepted>>

\* close_server(), from tin_done()
Leave ==
  /\ Start(Quit)
  /\ stack' = <<Call("command", "status", Quit)>>
  /\ UNCHANGED <<glob_group, inside, told, accepted>>

\* The status is in: read the lines; GROUP after a LISTGROUP that failed.
Answered ==
  /\ At("caller", {"status", "group"}) /\ ret # None
  /\ IF Top.pc = "status" /\ Succeeded(Top.cmd.verb, ret)
     THEN /\ Goto(AtPc("lines")) /\ ret' = None
          /\ UNCHANGED <<last_put, inside, conn, wire, server, trouble>>
     ELSE IF Top.pc = "status" /\ Top.cmd.verb = "LISTGROUP"
     THEN Ask(GroupCmd("GROUP", Top.cmd.group), "group") /\ UNCHANGED inside
     ELSE /\ stack' = Rest
          /\ inside' = (inside \/ (Top.pc = "group" /\ Succeeded("GROUP", ret)))
          /\ UNCHANGED <<ret, last_put, conn, wire, server, trouble>>
  /\ UNCHANGED <<glob_group, told, phase, ops, lost, setup, accepted>>

\* Mutant of ReadLine: the text is taken to end with its first line.
ReadFirstLine ==
  /\ Reading /\ Top.pc \in {"lines", "astray"} /\ wire # <<>>
  /\ stack' = Rest /\ wire' = Tail(wire)
  /\ ret' = Result(Top.cmd, Head(wire)) /\ inside' = TRUE
  /\ UNCHANGED <<last_put, glob_group, told, phase, ops, lost, conn, server, setup, accepted, trouble>>

\* tin_fgets() until the ".": anything else is a line of the text, the status
\* line of a command that was sent again included. "astray" marks that this
\* was a status no text follows.
ReadLine ==
  /\ Reading /\ Top.pc \in {"lines", "astray"} /\ wire # <<>>
  /\ LET l == Head(wire)
     IN IF l.code = "dot"
        THEN /\ stack' = Rest
             /\ ret' = Result(Top.cmd, l)
             /\ inside' = TRUE
        ELSE /\ Goto(AtPc(IF l.code = "line" \/ Succeeded(Top.cmd.verb, l) THEN Top.pc ELSE "astray"))
             /\ UNCHANGED <<ret, inside>>
  /\ wire' = Tail(wire)
  /\ UNCHANGED <<last_put, glob_group, told, phase, ops, lost, conn, server, setup, accepted, trouble>>

-----------------------------------------------------------------------------
\* submit_inews()

Submit ==
  /\ Posting /\ told = "nothing"
  /\ Start(Post)
  /\ stack' = <<Call("command", "status", Post), Call("post", "status", Post)>>
  /\ UNCHANGED <<glob_group, inside, told, accepted>>

Tell(what) == told' = what /\ stack' = Rest

\* 340: the article goes out.
PostText ==
  /\ At("post", {"status"}) /\ ret # None
  /\ IF ret.code = "cont"
     THEN SendArticle /\ Goto(AtPc("verdict")) /\ ret' = None /\ UNCHANGED told
     ELSE Tell("failed") /\ UNCHANGED <<ret, conn, wire, server, accepted, trouble>>
  /\ UNCHANGED <<last_put, glob_group, inside, ops, phase, lost, setup>>

\* get_only_respcode(): a first 480 authenticates and posts once more.
ReadVerdict ==
  /\ Reading /\ Top.pc = "verdict" /\ wire # <<>> /\ ~Resending
  /\ LET l == Head(wire)
     IN IF l.code = "auth" /\ Top.try = 1
        THEN /\ Authenticate([AtPc("auth") EXCEPT !.try = 2], Tail(wire))
             /\ UNCHANGED <<ret, told>>
        ELSE /\ Tell(IF Succeeded("article text", l) THEN "posted" ELSE "failed")
             /\ wire' = Tail(wire)
             /\ ret' = Result(Text, l)
             /\ UNCHANGED <<last_put, conn, server, trouble>>
  /\ UNCHANGED <<glob_group, inside, ops, phase, lost, setup, accepted>>

PostAgain ==
  /\ At("post", {"auth"}) /\ ret # None
  /\ IF ret.code = "ok"
     THEN Ask(Post, "status") /\ UNCHANGED told
     ELSE Tell("failed") /\ UNCHANGED <<ret, last_put, conn, wire, server, trouble>>
  /\ UNCHANGED <<glob_group, inside, ops, phase, lost, setup, accepted>>

-----------------------------------------------------------------------------

Init ==
  /\ stack = <<Call("open", "connect", NoCommand)>>
  /\ ret = None /\ last_put = NoCommand
  /\ glob_group = NoGroup /\ inside = FALSE
  /\ told = "nothing" /\ phase = "up" /\ ops = 0 /\ lost = FALSE
  /\ conn = "none" /\ wire = <<>> /\ server = Fresh
  /\ setup \in Setups /\ accepted = 0 /\ trouble = 0

User == (\E g \in Groups : EnterGroup(g)) \/ LeaveGroup \/ ReadArticle \/ Submit \/ Leave

Client ==
  \/ Eof \/ Rejoin \/ Connect \/ Greeted \/ ModeRead \/ Forced \/ Probed
  \/ Resend \/ ReadStatus \/ AskAgain \/ ReadAuth
  \/ Answered \/ ReadLine \/ PostText \/ ReadVerdict \/ PostAgain

Next == Client \/ User \/ Drop

\* The client runs whenever it can; the user and the server need not act.
Spec == Init /\ [][Next]_vars /\ WF_vars(Client)

-----------------------------------------------------------------------------

Results == [asked : Commands, to : Commands, code : Codes,
            group : Groups \cup {NoGroup}, denied : BOOLEAN]
Servers == [authed : BOOLEAN, user : BOOLEAN, group : Groups \cup {NoGroup},
            denied : BOOLEAN, article : BOOLEAN]

TypeOK ==
  /\ stack \in Seq(Calls) /\ ret \in Results \cup {None}
  /\ last_put \in Commands /\ glob_group \in Groups \cup {NoGroup} /\ inside \in BOOLEAN
  /\ told \in {"nothing", "posted", "failed"} /\ phase \in {"up", "done"}
  /\ conn \in {"none", "up", "gone"} /\ wire \in Seq(Answers)
  /\ server \in Servers /\ setup \in Setups
  /\ accepted \in Nat /\ ops \in 0..Ops /\ trouble \in 0..Troubles /\ lost \in BOOLEAN

\* The innermost call waits for an answer and none is on its way.
Deaf == Reading /\ conn = "up" /\ wire = <<>>
Astray == phase = "up" /\ stack # <<>> /\ Top.pc = "astray"

\* The client waits in vain in two cases only. Either some read was recovered
\* by sending a line that was not its command: server_init() has emptied
\* last_put, nntp_open() failed half-way and left MODE READER in it, or the
\* answer to an article was awaited with POST in it. Or the command of a text
\* was sent again in the middle of the text and was refused, and tin_fgets()
\* took the refusal for a line and goes on to the ".".
DeafOnlyBy == Deaf => lost \/ Astray

\* But for those lines, what get_respcode() and tin_fgets() return to a caller
\* answers the caller's command, whatever was sent and read in between by
\* reconnect(), nntp_open() and authenticate(), however deep they nested.
OwnAnswer == ret # None /\ ~lost => ret.to = ret.asked

\* Answers come, and are one's own.
EveryAnswerOwn == DeafOnlyBy /\ OwnAnswer

\* Between two operations there is nothing unread, whatever was sent again and
\* in whose place: the next answer read is the next answer asked for.
InStep == (phase = "up" /\ stack = <<>>) => wire = <<>>

\* An article comes from the group the user is in. It is asked for outside of
\* it only if the server refused GROUP on this connection, an answer that
\* reconnect() does not look at, and it is not delivered then.
RightGroup ==
  ret # None /\ ret.asked = Cmd("ARTICLE") /\ ret.to = Cmd("ARTICLE") =>
    \/ ret.group = glob_group
    \/ ret.code \notin {"ok", "dot"} /\ (ret.denied \/ lost)

\* What submit_inews() reports: an article it calls posted was taken by the
\* server; and unless POST was sent again in place of the article, one it
\* calls failed was not taken, and none was taken twice.
Posted ==
  /\ told = "posted" => accepted > 0
  /\ told = "failed" /\ ~lost => accepted = 0
  /\ ~lost => accepted <= 1

\* Every operation ends, or the program does, or it waits in vain: neither the
\* tries of get_server(), nor the two of authenticate(), nor the resending
\* after a 503 go on for ever.
OperationsEnd == []<>(phase = "done" \/ stack = <<>> \/ Deaf)
=============================================================================
