-------------------------------- MODULE FeedMC --------------------------------
(***************************************************************************)
(* The articles of a group: handing them out (Feed), reading one page by   *)
(* page (Pager), finding one (Match) and decoding what is saved of them     *)
(* (Decode), each explored by itself.                                      *)
(* Four articles in three threads; the first of two of them are the parts  *)
(* of one posting, which also have archive names.  The keys that mark are  *)
(* explored without jobs, the jobs from a few sets of marks.               *)
(***************************************************************************)
EXTENDS Feed

CONSTANTS post_process_command, Articles, cLINES, MINI_HELP_LINES, MaxPage
VARIABLES
  part,    \* what is explored: "articles", "pages" or "search"
  wanted,  \* a search, or articles to decode, for part "search"
  article, show_last_line, beginner_level, file, note_page, note_mark, note_end,
  skip_include, screen, jumped

pageVars == <<article, show_last_line, beginner_level, file, note_page, note_mark,
              note_end, skip_include, screen, jumped>>

P == INSTANCE Pager
S == INSTANCE Match
D == INSTANCE Decode

MCArts == 0..3
MCThreads == <<<<0, 2>>, <<1>>, <<3>>>>
MCPartOf == [a \in MCArts |-> IF a \in {0, 3} THEN [of |-> "x", nr |-> IF a = 0 THEN 2 ELSE 1, total |-> 2]
                              ELSE [of |-> "y", nr |-> 0, total |-> 0]]
MCPatterns == {{1, 3}}
MCArchiveOf == [a \in MCArts |-> IF a \in {0, 2} THEN [name |-> "arc", part |-> 2 - a \div 2]
                                 ELSE [name |-> "", part |-> 0]]
MCBefore == [a \in MCArts |-> a]
MCOldFiles == {<<"file", 0>>, <<"file", 1>>, <<"mbox", 0>>, <<"arc", 1>>, <<"news", 1>>}

\* The marks of the articles the reader has read, selected and tagged.
Marked(read, hot, tags) ==
  arts = [a \in Arts |-> [NewArt EXCEPT
            !.status = IF a \in read THEN "ART_READ" ELSE @,
            !.selected = a \in hot,
            !.tagged = IF a \in ToSet(tags) THEN CHOOSE n \in DOMAIN tags : tags[n] = a
                       ELSE 0]]

Starts ==
  /\ \E read \in {{}, {2}}, hot \in {{}, {0, 1}}, tags \in {<<>>, <<3, 0>>, <<2, 1>>} :
       /\ Marked(read, hot, tags)
       /\ num_of_tagged_arts = Len(tags)
       /\ num_of_selected_arts = Cardinality(hot \ read)
  /\ onlyUnread = FALSE
  /\ base = <<1, 2, 3>>
  /\ range_active = FALSE /\ xflag = FALSE /\ strayed = FALSE
  /\ keys = MaxKeys

MarksInit ==
  /\ FInit
  /\ \/ MInit /\ jobs = MaxJobs
     \/ Starts /\ jobs = 0

-----------------------------------------------------------------------------
(* Articles of ordinary lines, with lines of the other kinds where pages of *)
(* eight rows begin and end.                                               *)

Long(n, k, kind) == [i \in 1..n |-> IF i = k THEN kind ELSE "line"]
MCArticles ==
  {Long(n, k, kind) : n \in {1, 3, 6, 7, 8, 9}, k \in {1, 3, 4, 7}, kind \in {"hidden", "full", "quote", "ff"}}
  \cup {[i \in 1..9 |-> IF i \in {3, 4, 8} THEN "quote" ELSE IF i = 7 THEN "full" ELSE "line"]}

(* Patterns of up to three items, and lists of up to four places.          *)

In(text, set, not) == [kind |-> "class", text |-> text, set |-> set, not |-> not]
Items == {[kind |-> "char", c |-> 97], [kind |-> "char", c |-> 42], [kind |-> "any"], [kind |-> "star"],
          In(<<97, 98>>, {97, 98}, FALSE), In(<<97, 45, 99>>, {97, 98, 99}, TRUE),
          In(<<93, 97>>, {93, 97}, FALSE), In(<<45, 97>>, {45, 97}, TRUE)}
MatchTexts == {<<>>} \cup {<<c>> : c \in {97, 98, 42, 93, 45}}
              \cup {<<c, d>> : c, d \in {97, 98, 42}} \cup {<<97, c, 98, d>> : c, d \in {97, 93}}

\* An upload in up to three articles, and another one in one article; other
\* articles stand between them.
Cut(upload, cuts) ==
  LET at == SetToSortSeq(cuts \cup {0, Len(upload)}, <)
  IN [i \in 1..(Len(at) - 1) |-> SubSeq(upload, at[i] + 1, at[i + 1])]
Around(lines, foot) ==
  <<D!NoLine, D!NoLine>> \o lines \o (IF foot THEN <<D!NoLine, D!Line("M", 0, 0), D!NoLine>> ELSE <<>>)
Uploads ==
  UNION {[m : {m}, fits : BOOLEAN, cuts : {c \in SUBSET (1..(m + 2)) : Cardinality(c) <= 2},
          foot : BOOLEAN, between : BOOLEAN] : m \in 0..7}
Articles1(u) ==
  LET parts == Cut(D!Upload(1, u.m, u.fits), u.cuts)
  IN (IF u.between THEN <<Around(<<>>, FALSE)>> ELSE <<>>)
     \o FlattenSeq([i \in DOMAIN parts |->
                      <<Around(parts[i], u.foot)>> \o (IF u.between THEN <<Around(<<>>, FALSE)>> ELSE <<>>)])
     \o <<Around(D!Upload(2, 2, FALSE), u.foot)>>
Shar(n) == [i \in 1..n |-> D!Line(IF i = 1 THEN "sh" ELSE "text", 1, i)]

Nothing == [kind |-> "nothing"]
Take ==
  /\ part = "search" /\ wanted = Nothing
  /\ \/ \E n \in 0..3 : \E items \in [1..n -> Items] : wanted' = [kind |-> "pattern", items |-> items]
     \/ \E last \in 0..3 : \E forward \in BOOLEAN, current \in 0..last,
                               hits \in SUBSET (0..last), unread \in SUBSET (0..last) :
          wanted' = [kind |-> "search", forward |-> forward, current |-> current, last |-> last,
                     hits |-> hits, unread |-> unread]
     \/ \E u \in Uploads :
          /\ u.fits => u.m > 0
          /\ wanted' = [kind |-> "uud", upload |-> u, articles |-> Articles1(u)]
     \/ \E n, m \in 1..3 :
          wanted' = [kind |-> "sh", archives |-> <<Shar(n), Shar(m)>>,
                     articles |-> <<Around(Shar(n), FALSE), Around(Shar(m), FALSE)>>]

Init ==
  /\ MarksInit /\ P!Init
  /\ part \in {"articles", "pages", "search"} /\ wanted = Nothing
  /\ part # "articles" => jobs = 0 /\ arts = [a \in Arts |-> NewArt]
  /\ part # "pages" => article = Long(1, 1, "full") /\ ~show_last_line /\ ~beginner_level
Step ==
  /\ UNCHANGED part
  /\ \/ part = "articles" /\ Next /\ UNCHANGED <<pageVars, wanted>>
     \/ part = "pages" /\ P!PagerNext /\ UNCHANGED <<fvars, wanted>>
     \/ Take /\ UNCHANGED <<fvars, pageVars>>
Spec == Init /\ [][Step]_<<fvars, pageVars, part, wanted>>

PagesJoin == P!PagesJoin

\* A search finds what the pattern stands for, and the nearest of what it finds.
\* The parts of uploads are joined to what was uploaded, archives are run without
\* what stands above them, and what was put together is tested first.
SearchesAndParts ==
  /\ wanted.kind = "pattern" => S!MatchedRight(wanted.items, MatchTexts)
  /\ wanted.kind = "search" =>
       S!SearchedRight(wanted.forward, wanted.current, wanted.last, wanted.hits, wanted.unread)
  /\ wanted.kind = "uud" =>
       LET u == wanted.upload
       IN D!WellCut(Cut(D!Upload(1, u.m, u.fits), u.cuts)) =>
            D!UploadsJoined(<<D!Upload(1, u.m, u.fits), D!Upload(2, 2, FALSE)>>, wanted.articles)
  /\ wanted.kind = "sh" => D!post_process_files("shar", wanted.articles) = wanted.archives
  /\ D!ArchivesTested
=============================================================================
