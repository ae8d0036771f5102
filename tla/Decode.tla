-------------------------------- MODULE Decode --------------------------------
(***************************************************************************)
(* What is done with saved articles: uuencoded files are put together from *)
(* the articles of a posting and decoded, shell archives are cut out and   *)
(* run (save.c, without HAVE_LIBUU, with M_UNIX).  A line is a record: its *)
(* kind, the upload it belongs to (0 for what is around it) and which of   *)
(* its lines it is.  The kinds are "begin", "M" (a full line, they begin   *)
(* with M), "data" (any other line of an upload), "end", "sh" (the head of *)
(* a shell archive) and "text".                                            *)
(***************************************************************************)
EXTENDS Integers, SequencesExt

CONSTANT post_process_command  \* TRUE if tinrc.post_process_command is set

Line(kind, of, n) == [kind |-> kind, of |-> of, n |-> n]
NoLine == Line("text", 0, 0)

\* POST_PROC_*, in their order
Process == <<"shar", "uudecode", "list zoo", "extract zoo", "list zip", "extract zip">>

-----------------------------------------------------------------------------
(* Uuencoded files                                                          *)

\* Mutant: the last two lines are written whatever they are.
NotM_All(line) == <<line>>
NotM(line) == IF line.kind = "M" THEN <<>> ELSE <<line>>
End(s, line) ==
  [s EXCEPT !.state = "END", !.out = @ \o NotM(s.u) \o NotM(s.t) \o <<line>>]
Resume(s, line) ==
  [s EXCEPT !.state = "MIDDLE", !.out = @ \o <<s.u, s.t, line>>]
Begin(s, line) ==
  [s EXCEPT !.state = "MIDDLE", !.out = Append(@, line), !.name = line.of, !.here = TRUE]

\* t and u are the last line and the one before it, of the last file, too.
Scan(s, line) ==
  LET moved(r) == [r EXCEPT !.u = s.t, !.t = line] IN
  CASE s.state = "INITIAL" -> moved(IF line.kind = "begin" THEN Begin(s, line) ELSE s)
    [] s.state = "MIDDLE" ->
         moved(IF line.kind = "M" THEN [s EXCEPT !.out = Append(@, line)]
               ELSE IF line.kind = "end" THEN End(s, line) ELSE [s EXCEPT !.state = "OFF"])
    [] s.state = "OFF" ->
         moved(IF <<s.u.kind, s.t.kind, line.kind>> = <<"M", "M", "M">> THEN Resume(s, line)
               ELSE IF line.kind = "end" THEN End(s, line) ELSE s)
    [] s.state = "END" -> s
\* One saved file, <<>> if it cannot be read.  realname is a variable of the
\* loop's body: it has a value only if the upload begins in this article, and
\* the commands after uudecode are run on that (name 0: whatever is there).
Decoded(s) ==
  IF s.state # "END" THEN s
  ELSE [s EXCEPT !.state = "INITIAL", !.out = <<>>,
                 !.decoded = Append(@, [lines |-> s.out, name |-> IF s.here THEN s.name ELSE 0])]
OneFile(s, lines) == Decoded(FoldLeft(Scan, [s EXCEPT !.here = FALSE], lines))
post_process_uud(articles) ==
  FoldLeft(OneFile, [state |-> "INITIAL", t |-> NoLine, u |-> NoLine, out |-> <<>>, name |-> 0,
                     here |-> FALSE, decoded |-> <<>>], articles).decoded

\* The commands that are run on a file that was put together, in all ways they
\* can go: uudecode may fail, the others are run all the same.  archiver[] has no line for the last kind.
Archiver(pp) == IF pp \in {"list zoo", "extract zoo"} THEN "zoo" ELSE "unzip"
Tested(pp) == CASE pp \in {"list zoo", "extract zoo"} -> {TRUE}
                [] pp = "list zip" -> {FALSE}
                [] pp = "extract zip" -> BOOLEAN
                [] OTHER -> {FALSE}
uudecode_file(pp) ==
  {<<<<"uudecode", "">>>>} \cup
  {<<<<"uudecode", "">>, <<"sum", "">>>>
     \o (IF post_process_command THEN <<<<"command", "">>>> ELSE <<>>)
     \o (IF test THEN <<<<"test", Archiver(pp)>>>> ELSE <<>>)
     \o (IF pp \in {"list zoo", "list zip"} THEN <<<<"list", Archiver(pp)>>>> ELSE <<>>)
     \o (IF pp \in {"extract zoo", "extract zip"} THEN <<<<"extract", Archiver(pp)>>>> ELSE <<>>) :
     test \in Tested(pp)}

-----------------------------------------------------------------------------
(* Shell archives: each saved file from the first line on that looks like  *)
(* the head of one.                                                        *)

Script(lines) ==
  LET heads == {i \in DOMAIN lines : lines[i].kind = "sh"}
  IN IF heads = {} THEN <<>> ELSE SubSeq(lines, Min(heads), Len(lines))
post_process_sh(articles) == [i \in DOMAIN articles |-> Script(articles[i])]

\* What is decoded, or run, for a kind of processing; nothing without saved files.
post_process_files(pp, articles) ==
  IF articles = <<>> THEN <<>>
  ELSE IF pp = "shar" THEN post_process_sh(articles) ELSE post_process_uud(articles)

-----------------------------------------------------------------------------
(* What is expected                                                         *)

\* An upload of m full lines, one that is not full unless it fits, the empty one
\* and the end.
Upload(of, m, fits) ==
  <<Line("begin", of, 1)>> \o [i \in 1..m |-> Line("M", of, i + 1)]
  \o (IF fits THEN <<>> ELSE <<Line("data", of, m + 2)>>)
  \o <<Line("data", of, m + 3), Line("end", of, m + 4)>>

\* Parts that are recognised: a later part has three full lines at its start or
\* none, and the end has two lines of the upload before it in its part.
WellCut(parts) ==
  \A i \in DOMAIN parts :
    LET p == parts[i]
        full == {k \in DOMAIN p : p[k].kind = "M"}
    IN /\ i > 1 => full = {} \/ 1..3 \subseteq full
       /\ Last(p).kind = "end" => Len(p) > 2 /\ p[Len(p) - 2].kind # "begin"

\* uud: uploads whose parts are saved in their order, between other articles and
\* below heads and above text of their own, come out as they were, if they are cut
\* well and no article begins with an M.  (What is not cut well is damaged.)
UploadsJoined(uploads, articles) ==
  LET got == post_process_files("uudecode", articles)
  IN [i \in DOMAIN got |-> got[i].lines] = uploads

\* Only what could be decoded is listed or unpacked, and zoo archives only after
\* their test.  (Zip archives are not: archiver[] is indexed by the kind of
\* processing, which reaches past its end.)
ArchivesTested ==
  \A pp \in ToSet(Process) : \A cmds \in uudecode_file(pp) : \A i \in DOMAIN cmds :
    /\ i > 2 => cmds[1][1] = "uudecode" /\ cmds[2][1] = "sum"
    /\ cmds[i] \in {<<"list", "zoo">>, <<"extract", "zoo">>} => \E j \in 1..(i - 1) : cmds[j] = <<"test", "zoo">>
===============================================================================
