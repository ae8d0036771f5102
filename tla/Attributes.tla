----------------------------- MODULE Attributes -----------------------------
(* The attributes of groups (attrib.c): read from a global and a local file over
   the user's settings, looked up everywhere, and toggled inside a group.  A
   group no file names has no record of its own: it shares glob_attributes with
   all other such groups.  A text attribute that was never set points at the
   setting itself and follows it; a number is a copy made when the files were
   read. *)
EXTENDS Integers, Sequences, SequencesExt, TLC

CONSTANTS
  Groups,          \* active[]
  LocalFiles,      \* what the user's file can say: sequences of attribute lines
  GlobalFile,      \* the installation's file
  MaxToggles

VARIABLES
  setting,         \* tinrc, for the attributes that have a setting there
  glob,            \* glob_attributes
  own,             \* group -> <<>>, or <<record>>
  file,            \* the user's attributes file
  toggles,         \* changes made inside groups since the files were read
  reread           \* the files have not changed since they were read

vars == <<setting, glob, own, file, toggles, reread>>

\* The numbers and switches with the largest value the reader takes, the texts.
NumAttribs ==
  [a \in {"auto_save", "auto_select", "batch_save", "delete_tmp_files", "quick_kill_case",
          "quick_kill_expire", "quick_select_case", "quick_select_expire", "show_only_unread",
          "x_comment_to"} |-> 1]
  @@ [a \in {"quick_kill_header", "quick_select_header", "sort_art_type"} |-> 8]
  @@ [a \in {"show_author", "thread_arts"} |-> 3]
  @@ [a \in {"post_proc_type"} |-> 6]
StrAttribs ==
  {"followup_to", "from", "ispell", "maildir", "mailing_list", "news_quote_format",
   "organization", "printer", "quick_kill_scope", "quick_select_scope", "quote_chars",
   "savedir", "savefile", "sigfile", "x_headers", "x_body"}
Attribs == DOMAIN NumAttribs \cup StrAttribs

\* Attributes that begin as nothing at all, whatever the settings are.
Unset == {"savefile", "from", "followup_to", "mailing_list", "x_headers", "x_body", "ispell",
          "auto_select", "delete_tmp_files", "x_comment_to"}
Follows == "follows the setting"

set_default_attributes(s) ==
  [a \in Attribs |->
     CASE a \in Unset -> IF a \in StrAttribs THEN "none" ELSE 0
       [] a \in {"maildir", "savedir", "sigfile", "printer", "news_quote_format", "quote_chars"} ->
            Follows
       [] a = "organization" -> "default"
       [] OTHER -> s[a]]

\* A line of the file as match_boolean(), match_integer() and match_string() take it.
Taken(line) ==
  CASE line.attr \in StrAttribs ->
         IF line.attr = "quote_chars" /\ line.value = "_" THEN " " ELSE line.value
    [] NumAttribs[line.attr] = 1 -> IF line.value = 1 THEN 1 ELSE 0
    [] OTHER -> IF line.value \in 0 .. NumAttribs[line.attr] THEN line.value ELSE 0

\* The record of a group with one attribute set; a group without one gets one.
set_attrib(s, record, line) ==
  LET r == IF record = <<>> THEN set_default_attributes(s) ELSE record[1]
  IN  <<[r EXCEPT ![line.attr] = Taken(line)]>>

\* set_attrib_num(), set_attrib_str(): the groups that a name or a pattern finds.
Found(line) == Groups \cap line.scope
ReadLine(s, o, line) ==
  [g \in Groups |-> IF g \in Found(line) THEN set_attrib(s, o[g], line) ELSE o[g]]

\* free_attributes_array(), then the lines of the global and of the local file.
ReadLines(s, lines) ==
  FoldLeft(LAMBDA o, line : ReadLine(s, o, line), [g \in Groups |-> <<>>], lines)

\* Mutant: the shared record is not made anew.
read_attributes_file_Keep(s, lines) ==
  /\ glob' = glob
  /\ own' = ReadLines(s, lines)

read_attributes_file(s, lines) ==
  /\ glob' = set_default_attributes(s)
  /\ own' = ReadLines(s, lines)

\* What the code that asks for an attribute of group g gets.
Record(g) == IF own[g] = <<>> THEN glob ELSE own[g][1]
Attribute(g, a) ==
  IF a \in StrAttribs /\ Record(g)[a] = Follows THEN setting[a] ELSE Record(g)[a]

\* group->attribute->a = v, through the pointer the group has.
Assign(g, a, v) ==
  IF own[g] = <<>>
  THEN glob' = [glob EXCEPT ![a] = v] /\ UNCHANGED own
  ELSE own' = [own EXCEPT ![g] = <<[@[1] EXCEPT ![a] = v]>>] /\ UNCHANGED glob

Init ==
  /\ setting = [a \in Attribs |-> IF a \in StrAttribs THEN "set" ELSE 0]
  /\ file = <<>>
  /\ glob = set_default_attributes(setting)
  /\ own = ReadLines(setting, GlobalFile \o file)
  /\ toggles = 0
  /\ reread = TRUE

\* The user edits the file while tin runs.
EditFile(f) ==
  /\ file' = f
  /\ f # file
  /\ reread' = FALSE
  /\ UNCHANGED <<setting, glob, own, toggles>>

\* resync_active_file(): new groups were found, the files are read again.
Resync ==
  /\ read_attributes_file(setting, GlobalFile \o file)
  /\ toggles' = 0
  /\ reread' = TRUE
  /\ UNCHANGED <<setting, file>>

\* The option menu, opened on the group selection page.
OptionMenu(a, v) ==
  /\ setting' = [setting EXCEPT ![a] = v]
  /\ read_attributes_file(setting', GlobalFile \o file)
  /\ toggles' = 0
  /\ reread' = TRUE
  /\ UNCHANGED file

\* The option menu, opened inside group g: the threading goes to the group at once.
GroupOptionMenu(g, a, v) ==
  /\ toggles < MaxToggles
  /\ setting' = [setting EXCEPT ![a] = v]
  /\ IF a = "thread_arts" /\ setting[a] # v
     THEN Assign(g, a, v)
     ELSE UNCHANGED <<glob, own>>
  /\ toggles' = toggles + 1
  /\ UNCHANGED <<file, reread>>

\* iKeyGroupToggleThreading, toggle_subject_from()
Cycle(g, a) ==
  /\ toggles < MaxToggles
  /\ a \in {"thread_arts", "show_author"}
  /\ Assign(g, a, (Record(g)[a] + 1) % 4)
  /\ toggles' = toggles + 1
  /\ UNCHANGED <<setting, file, reread>>

\* toggle_read_unread()
ToggleReadUnread(g) ==
  /\ toggles < MaxToggles
  /\ Assign(g, "show_only_unread", 1 - Record(g)["show_only_unread"])
  /\ toggles' = toggles + 1
  /\ UNCHANGED <<setting, file, reread>>

\* feed_articles(): a group that has a savefile takes the name just used.
UseSavefile(g) ==
  /\ toggles < MaxToggles
  /\ Record(g)["savefile"] # "none"
  /\ Assign(g, "savefile", "used")
  /\ toggles' = toggles + 1
  /\ UNCHANGED <<setting, file, reread>>

Changed == {<<"thread_arts", 1>>, <<"show_only_unread", 1>>, <<"savedir", "other">>}

Next ==
  \/ \E f \in LocalFiles : EditFile(f)
  \/ Resync
  \/ \E c \in Changed :
       \/ OptionMenu(c[1], c[2])
       \/ \E g \in Groups : GroupOptionMenu(g, c[1], c[2])
  \/ \E g \in Groups :
       \/ \E a \in {"thread_arts", "show_author"} : Cycle(g, a)
       \/ ToggleReadUnread(g)
       \/ UseSavefile(g)

Spec == Init /\ [][Next]_vars

-----------------------------------------------------------------------------
\* What the files say of attribute a of group g: the last line in whose scope g is.
Declared(g, a) ==
  LET lines == GlobalFile \o file
      about == {i \in DOMAIN lines : g \in lines[i].scope /\ lines[i].attr = a}
  IN  IF about # {}
      THEN Taken(lines[CHOOSE i \in about : \A j \in about : j <= i])
      ELSE IF a \in Unset THEN IF a \in StrAttribs THEN "none" ELSE 0
      ELSE IF a = "organization" THEN "default"
      ELSE setting[a]

(* When the files have just been read, every group has, for every attribute, the
   value of the last line that is about it, and otherwise the user's setting:
   whatever was toggled before in this group or, through the record they share,
   in any other. *)
AttributesAsFiled ==
  toggles = 0 /\ reread => \A g \in Groups : \A a \in Attribs : Attribute(g, a) = Declared(g, a)
=============================================================================
