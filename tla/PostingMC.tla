------------------------------ MODULE PostingMC ------------------------------
(***************************************************************************)
(* Three newsgroups, one of them moderated and one a mailing list; an      *)
(* article is good or has no Subject.  Beside it what an article is made   *)
(* of: the line the reader types (LineEdit), and, each for itself, texts   *)
(* for the encodings (Mime), addresses (Address) and headers (Compose).    *)
(***************************************************************************)
EXTENDS Posting

CONSTANTS
  gl_width, SCROLL, TABSIZE, HIST_SIZE, PromptLen, Chars, Limits, LineMax, MaxTyped,
  mm_charset, Groups, QpMax, EwMax,
  LABEL_MAX, TopDomains, OctetMax, disable_gnksa_domain_check,
  MAX_MSG_HEADERS, MAXREFSIZE

VARIABLES
  part,   \* what is explored: "posting", "line" or "text"
  input,  \* a text that is looked at, for part "text"
  line, gl, gl_max, is_passwd, input_history, hist_last, hist_pos, typed

editVars == <<line, gl, gl_max, is_passwd, input_history, hist_last, hist_pos, typed>>

L == INSTANCE LineEdit
M == INSTANCE Mime
A == INSTANCE Address
C == INSTANCE Compose

Header(name, value) == [form |-> "ok", name |-> name, value |-> value, spaced |-> FALSE]
Text(head, eightbit) == [blank |-> FALSE, head |-> head, separated |-> TRUE, eightbit |-> eightbit]

MCTexts ==
  "good" :> Text(<<Header("Newsgroups", <<"g1">>), Header("Subject", "text")>>, FALSE)
  @@ "bad" :> Text(<<Header("Newsgroups", <<"g1">>)>>, TRUE)
MCGroups == {"g1", "g2", "list"}
MCModerated == "g1" :> "y" @@ "g2" :> "m" @@ "list" :> "y"
MCTargets == {<<"g1", "g2", "g1">>, <<"list">>}
MCMime == {<<"US-ASCII", "other">>, <<"other", "other">>}

-----------------------------------------------------------------------------
(* Bodies: one or two lines around the lengths where lines are broken.     *)

MCCharset == <<73, 83, 79, 45, 56>>
Run(c, n) == [i \in 1..n |-> c]
Tails == {<<>>, <<228>>, <<13, 97>>, <<32>>, <<61>>, <<9, 228>>}
LongLines == {Run(97, n) \o tail \o <<10>> : n \in {0, 1} \cup 4..9, tail \in Tails}
Bodies == {<<l>> : l \in LongLines} \cup {<<l, m>> : l \in LongLines, m \in {<<97, 10>>, <<13, 97, 10>>, <<10>>}}

\* Header texts: words in ASCII and not, and around the limit of an encoded word.
HeaderWords == {<<97>>, <<228>>, <<97, 61, 63>>, <<97, 61>>, <<40, 228, 41>>, Run(97, 4) \o <<228>>,
                Run(97, 16)} \cup {Run(228, n) : n \in 5..9}
HeaderTexts == HeaderWords \cup {v \o <<32>> \o w : v, w \in HeaderWords}

\* Letters: a head of two texts, one of them continued, and a body.
LetterHeads == {<<v, <<32>> \o w, <<97>>>> : v, w \in {<<97>>, <<97, 32, 228>>, Run(97, 5) \o <<228>>}}
LetterBodies ==
  {<<Run(97, n) \o tail \o <<10>>>> : n \in {0, 7, 9}, tail \in {<<>>, <<228>>, <<228, 32>>, <<61, 228>>}}
Letters == [head : LetterHeads, body : LetterBodies, encoding : {"8bit", "7bit", "base64", "quoted-printable"},
            allow8 : BOOLEAN, mail : BOOLEAN]

\* The parts of an alternative: what was written is in shown.
HeadLine(name, value, text) == [head |-> name, value |-> value, text |-> text]
PlainType == HeadLine("type", "text/plain", <<116, 10>>)
HtmlType == HeadLine("type", "text/html", <<104, 10>>)
Encoding(value) == HeadLine("cte", value, <<99, 99, 99, 10>>)
OtherHead == HeadLine("other", "", <<111, 10>>)
MimePart(head, body, shown) == [head |-> head, body |-> [l \in DOMAIN body |-> M!Line(body[l])], shown |-> shown]
MCText == <<<<228, 10>>, <<45, 45, 10>>>>
MCShown == FlattenSeq(MCText)
MimeParts ==
  {MimePart(head, MCText, MCShown) : head \in {<<>>, <<PlainType>>, <<OtherHead, Encoding("8bit"), PlainType>>}}
  \cup {MimePart(<<PlainType, Encoding("quoted-printable")>>, M!Lines(M!EncodeQp(MCText)), MCShown),
        MimePart(<<Encoding("base64"), PlainType>>,
                 M!Base64Text(MCText), MCShown),
        MimePart(<<HtmlType>>, <<<<104, 10>>>>, <<>>),
        MimePart(<<Encoding("8bit"), OtherHead, HtmlType>>, <<<<104, 10>>, <<10>>>>, <<>>)}
Alternatives ==
  [kind : {"alternative"}, parts : UNION {[1..n -> MimeParts] : n \in 0..3}, closed : BOOLEAN,
   preamble : {<<>>, <<M!Line(<<112, 10>>), M!Line(<<10>>)>>}]

-----------------------------------------------------------------------------
(* MailAddresses: one part after the other is varied.                          *)

MCTop == {<<"d", "e">>, <<"a", "b", "c">>}
Atom(text) == [kind |-> "atom", text |-> text]
Quote(text) == [kind |-> "quoted", text |-> text]
Encoded(text) == [kind |-> "encoded", text |-> text]
NameTexts == {<<"a">>} \cup {<<"a", c, "b">> : c \in {".", "(", ">", ",", "=", "\\", "!", "["}}
NameWords == {Atom(t) : t \in NameTexts} \cup {Quote(t) : t \in NameTexts} \cup {Encoded(t) : t \in {<<"a">>, <<"a", "(">>}}
Phrases == {<<w>> : w \in NameWords} \cup {<<v, w>> : v \in {Atom(<<"a">>), Quote(<<"a">>), Encoded(<<"a">>)}, w \in NameWords}
LocalParts == {<<>>, <<<<"a">>>>, <<<<"a">>, <<>>>>, <<<<>>, <<"a">>>>, <<<<"a", "=">>, <<"1">>>>, <<<<"a", "@">>>>, <<<<"a", ",">>>>}
HostLabels == {<<"a">>, <<>>, <<"a", "b", "c">>, <<"a", "b", "c", "d">>, <<"a", "b", "c", "d", "e">>,
               <<"-", "a">>, <<"a", "-">>, <<"a", "-", "1">>, <<"1", "0">>, <<"a", "!">>}
Tops == MCTop \cup {<<"a", "b">>, <<"d">>, <<"d", "1">>, <<"a", "b", "c", "d">>, <<>>}
Names == {<<h>> : h \in HostLabels} \cup {<<h, t>> : h \in HostLabels, t \in Tops}
         \cup {<<<<"a">>, h, <<"d", "e">>>> : h \in HostLabels}
         \cup {<<h, <<"b">>, <<"d", "e">>>> : h \in HostLabels}
Octets == {<<"0">>, <<"1", "0">>, <<"1", "7", "2">>, <<"1", "9", "2">>, <<"2", "5", "5">>, <<"2", "5", "6">>, <<>>}
Seconds == {<<"1", "5">>, <<"1", "6">>, <<"3", "1">>, <<"3", "2">>, <<"1", "6", "8">>}
Numbers == {<<p, q, <<"1">>, <<"2">>>> : p \in Octets, q \in Seconds}
           \cup {<<<<"1">>, <<"2">>, <<"3">>, p>> : p \in Octets}
           \cup {<<<<"1">>, <<"2">>, <<"3">>>>, <<<<"1">>, <<"2">>, <<"3">>, <<"4">>, <<"5">>>>}

At(style, words, local, labels, bracketed) ==
  [kind |-> "address", style |-> style, words |-> words, local |-> local, labels |-> labels, bracketed |-> bracketed]
MailAddresses ==
  {At(s, w, <<<<"a">>>>, <<<<"b">>, <<"d", "e">>>>, FALSE) : s \in {"ROUTE", "OLDSTYLE"}, w \in Phrases}
  \cup {At(s, <<Atom(<<"a">>)>>, l, n, FALSE) : s \in {"ROUTE", "OLDSTYLE"}, l \in LocalParts, n \in Names \cup Numbers}
  \cup {At(s, <<Atom(<<"a">>)>>, <<<<"a">>>>, n, TRUE) : s \in {"ROUTE", "OLDSTYLE"}, n \in Numbers}

-----------------------------------------------------------------------------
(* Headers                                                                  *)

Ref(i, kind) == [id |-> i, len |-> IF kind = "long" THEN 3 ELSE 1, marked |-> kind = "marked",
                 damaged |-> kind = "damaged", spaces |-> 1]
RefLists == {[i \in 1..n |-> Ref(i, kinds[i])] :
               n \in 0..6, kinds \in {k \in [1..6 -> {"short", "long", "marked", "damaged"}] :
                                         Cardinality({i \in 1..6 : k[i] = "marked"}) <= 2}}
New == Ref(9, "long")

NoteOf(newsgroups, followup, more) ==
  [newsgroups |-> newsgroups, followup |-> followup, refs |-> IF more THEN <<Ref(1, "short")>> ELSE <<>>,
   messageid |-> New, distrib |-> more, authorids |-> more,
   persist |-> IF more THEN <<C!H("X-No-Archive", "text")>> ELSE <<>>]
GroupOf(mailing_list_, followup_to, more) ==
  [mailing_list |-> mailing_list_, organization |-> more, x_comment_to |-> more, followup_to |-> followup_to,
   x_headers |-> IF more THEN <<C!H("X-Own", "text")>> ELSE <<>>]
OptionsOf(prompt, more) ==
  [prompt_followupto |-> prompt, reply_to |-> more, distribution |-> more, organization |-> more,
   mail_address |-> more, auto_cc |-> more, auto_bcc |-> more, advertising |-> more,
   use_mailreader_i |-> FALSE, msg_headers_file |-> IF more THEN <<C!H("X-Own", "file")>> ELSE <<>>]
Answers ==
  [kind : {"answer"}, how : {"response", "normal", "repost", "supersede", "cancel", "letter", "reply"},
   newsgroups : {<<"g1">>, <<"g1", "g2", "g1">>},
   followup : {<<>>, <<"g2">>, <<"g1", "g2">>, <<"poster">>}, followup_to : {<<>>, <<"g1">>},
   list : BOOLEAN, prompt : BOOLEAN, more : BOOLEAN, ignore : BOOLEAN]

\* The headers of an answer, and whether it is mail.
Proposed(a) ==
  LET n == NoteOf(a.newsgroups, a.followup, a.more)
      g == GroupOf(a.list, a.followup_to, a.more)
      o == OptionsOf(a.prompt, a.more)
  IN CASE a.how = "response" -> C!post_response(n, g, o, a.ignore)
       [] a.how = "normal" -> C!create_normal_article_headers(strip_double_ngs(a.newsgroups), g, o,
                                                              IF a.list THEN "mail" ELSE "news")
       [] a.how \in {"repost", "supersede"} ->
            C!repost_article(strip_double_ngs(a.newsgroups), n, g, o, a.how = "supersede")
       [] a.how = "cancel" -> C!cancel_article(n, g, o, a.ignore)
       [] a.how = "letter" -> C!create_mail_headers(o)
       [] a.how = "reply" -> C!mail_to_author(n, o)
IsMail(a) ==
  CASE a.how = "response" -> C!ResponseIsMail(NoteOf(a.newsgroups, a.followup, a.more),
                                              GroupOf(a.list, a.followup_to, a.more), a.ignore)
    [] a.how = "normal" -> a.list
    [] OTHER -> a.how \in {"letter", "reply"}

-----------------------------------------------------------------------------

Nothing == [kind |-> "nothing"]
Take ==
  /\ part = "text" /\ input = Nothing /\ gl_max = 1
  /\ \/ \E b \in Bodies : input' = [kind |-> "body", body |-> b]
     \/ \E t \in HeaderTexts, mail \in BOOLEAN :
          input' = [kind |-> "header", text |-> t, sent |-> M!rfc1522_encode(t, mail, ~mail)]
     \/ \E l \in Letters :
          input' = [letter |-> l, kind |-> "letter",
                    sent |-> M!rfc15211522_encode(l, l.encoding, l.allow8, l.mail, ~l.mail)]
     \/ \E a \in Alternatives : input' = a
     \/ \E a \in MailAddresses : input' = a
     \/ \E r \in RefLists : input' = [kind |-> "refs", refs |-> r]
     \/ \E a \in Answers : input' = a

MCInit ==
  /\ Init /\ L!Init
  /\ part \in {"posting", "line", "text"}
  /\ input = Nothing
MCNext ==
  /\ UNCHANGED part
  /\ \/ part = "posting" /\ gl_max = 1 /\ Next /\ UNCHANGED <<editVars, input>>
     \/ part = "line" /\ L!Next /\ UNCHANGED <<vars, input>>
     \/ Take /\ UNCHANGED <<vars, editVars>>
MCSpec == MCInit /\ [][MCNext]_<<vars, editVars, part, input>>

LineAsTyped == L!ScreenShowsLine /\ L!HistoryIsTyped

\* What is sent is what the reader gets: bodies in both encodings, where no line
\* of base64 ends between a CR and its LF; headers; whole letters, and the first
\* plain part of alternatives.
EncodingsKept ==
  /\ input.kind = "body" => M!QpKept(input.body) /\ (M!Base64Kept(input.body) \/ M!CrlfSplit(input.body))
  /\ input.kind = "header" => M!HeaderKept(input.text, input.sent)
  /\ input.kind = "letter" =>
       M!LetterKept(input.letter, input.sent, input.letter.allow8)
  /\ input.kind = "alternative" =>
       M!AlternativeShown(input.preamble, input.parts, <<98>>, input.closed)

\* What tin proposes can be posted or mailed as it stands, its References follow
\* the rules, and From: is accepted when it is legal, and only then.
HeadersRight ==
  /\ input.kind = "address" =>
       A!CheckedRight(input.style, input.words, input.local, input.labels, input.bracketed)
  /\ input.kind = "refs" => C!ReferencesKept(input.refs, New)
  /\ input.kind = "answer" =>
       IF IsMail(input) THEN C!Mailable(Proposed(input))
       ELSE C!Postable(Proposed(input), "news", OptionsOf(input.prompt, input.more))
=============================================================================
