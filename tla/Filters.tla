------------------------------- MODULE Filters -------------------------------
(***************************************************************************)
(* Kill and select rules (filter.c): the array of rules, the filter file   *)
(* they are read from and written to, and what they do to the articles of  *)
(* the open group.                                                         *)
(*                                                                         *)
(* The file is a sequence of lines; a line is a key and its value.  What a *)
(* rule looks for is a literal: the patterns the program makes itself are  *)
(* quoted texts.  A scope is the set of groups it matches.  Numbers of     *)
(* seconds are steps of the variable now.                                  *)
(***************************************************************************)
EXTENDS Integers, SequencesExt, FiniteSetsExt

CONSTANTS Groups, Articles,
          ArtsOf,      \* [Groups -> SUBSET Articles]
          Art,         \* what the overview says of each article
          HandFiles,   \* the lines the reader makes of the file with an editor
          Day,         \* steps of a day
          FilterDays,  \* tinrc.filter_days
          KillRead,    \* tinrc.kill_level is KILL_READ
          Quick,       \* quick_kill and quick_select settings of each type
          Answers,     \* what the reader answers to filter_menu()
          ScopesOf,    \* the scopes the menu offers in each group
          AddPosted,   \* tinrc.add_posted_to_filter
          Subjects,    \* subjects of the reader's own articles
          Now, MaxTime, MaxRules  \* bounds: first and last step, rules

\* A group has finitely many articles; times, score= and the menu are numbers.
ASSUME FilterAssumption ==
  /\ Now \in Nat /\ Day \in Nat /\ FilterDays \in Nat
  /\ \A g \in Groups : IsFiniteSet(ArtsOf[g])
  /\ \A f \in HandFiles :
       /\ f \in Seq(ToSet(f))
       /\ \A line \in ToSet(f) : line.key = "score" => line.value.num \in Int
  /\ \A m \in Answers : m.score \in Int

VARIABLES rules,   \* glob_filter.filter[0 .. num-1]
          file,    \* the lines of the filter file
          stale,   \* the editor failed: file and rules may differ
          now,     \* time()
          group,   \* the open group, None before the first
          arts,    \* [status, killed, selected, score] of its articles
          unread,  \* bitmaps: the unread articles of each group
          touched  \* articles marked unread, or a rule added, since they were filtered

filter_vars == <<rules, file, stale, now, group, arts, unread, touched>>

None == "none"
NoTest == [cmp |-> None, num |-> 0]
SCORE_MAX == 10000
SCORE_KILL == -100
SCORE_SELECT == 100
SCORE_DEFAULT == 100
SCORE_LIM_KILL == -50
SCORE_LIM_SEL == 50
FILTER_KILL == 0
FILTER_SELECT == 1
XrefScores == 10  \* places for xref_score lines

FilterMin(a, b) == IF a < b THEN a ELSE b
FilterMax(a, b) == IF a > b THEN a ELSE b
Clip(n) == FilterMax(-SCORE_MAX, FilterMin(SCORE_MAX, n))

-----------------------------------------------------------------------------
(* The filter file *)

vSetFilter(scope) ==
  [type |-> FILTER_SELECT, scope |-> scope, icase |-> 0, fullref |-> "msgid",
   subj |-> None, from |-> None, msgid |-> None, lines |-> NoTest, gnksa |-> NoTest,
   score |-> 0, xref |-> None, xref_max |-> 0, xref_scores |-> <<>>, time |-> 0]

Line(key, value) == [key |-> key, value |-> value]
LineIf(condition, key, value) == IF condition THEN <<Line(key, value)>> ELSE <<>>

\* score=: kill, hot or a number; its sign is the one of the type.
Word(word) == [word |-> word, num |-> 0]
Number(n) == [word |-> None, num |-> n]
ReadScore(type, text) ==
  LET n == IF text.num # 0 THEN Clip(text.num)
           ELSE IF text.word = "kill" THEN SCORE_KILL
           ELSE IF text.word = "hot" THEN SCORE_SELECT ELSE SCORE_DEFAULT
  IN IF (type = FILTER_KILL /\ n > 0) \/ (type = FILTER_SELECT /\ n < 0) THEN -n ELSE n

\* xref_score=: the place comes from a counter that is never reset, so the
\* values of a second rule miss its own places.
Garbage == <<0, "garbage">>
ReadXrefScore(rule, value, cnt) ==
  IF cnt >= XrefScores THEN rule
  ELSE [rule EXCEPT !.xref_scores = Append(@, IF cnt = Len(@) THEN value ELSE Garbage)]

SetField(rule, line, cnt) ==
  CASE line.key = "type" ->
         [rule EXCEPT !.type = line.value,
                      !.score = IF line.value = FILTER_KILL THEN SCORE_KILL ELSE SCORE_SELECT]
    [] line.key = "case" -> [rule EXCEPT !.icase = line.value]
    [] line.key = "score" -> [rule EXCEPT !.score = ReadScore(rule.type, line.value)]
    [] line.key \in {"subj", "from", "lines", "gnksa", "xref", "xref_max"} ->
         [rule EXCEPT ![line.key] = line.value]
    [] line.key \in {"msgid", "msgid_last", "msgid_only", "refs_only"} ->
         [rule EXCEPT !.msgid = line.value, !.fullref = line.key]
    [] line.key = "xref_score" -> ReadXrefScore(rule, line.value, cnt)
    [] line.key = "time" -> [rule EXCEPT !.time = line.value]
    [] OTHER -> rule

Expired(rule, time) == rule.time # 0 /\ time > rule.time

\* Mutant: an expired rule stays in the array.
ReadFilterLine_NoDrop(s, line, time) ==
  IF line.key \in {"group", "scope"}
  THEN [s EXCEPT !.rules = Append(@, vSetFilter(line.value)), !.open = TRUE]
  ELSE IF ~s.open THEN s
  ELSE [s EXCEPT !.rules = Append(Front(@), SetField(Last(s.rules), line, s.cnt))]

\* One line.  An expired rule leaves the array at its time= line, and what
\* follows up to the next rule goes with it.
ReadFilterLine(s, line, time) ==
  IF line.key \in {"group", "scope"}
  THEN [s EXCEPT !.rules = Append(@, vSetFilter(line.value)), !.open = TRUE]
  ELSE IF ~s.open THEN s
  ELSE LET rule == SetField(Last(s.rules), line, s.cnt)
           cnt == IF line.key = "xref_score" THEN s.cnt + 1 ELSE s.cnt
       IN IF line.key = "time" /\ Expired(rule, time)
          THEN [rules |-> Front(s.rules), open |-> FALSE, cnt |-> cnt, expired |-> TRUE]
          ELSE [s EXCEPT !.rules = Append(Front(@), rule), !.cnt = cnt]

ReadFilters(lines, time) ==
  FoldLeft(LAMBDA s, line : ReadFilterLine(s, line, time),
           [rules |-> <<>>, open |-> FALSE, cnt |-> 0, expired |-> FALSE], lines)

WriteRule(rule) ==
  <<Line("group", rule.scope), Line("type", rule.type), Line("case", rule.icase),
    Line("score", CASE rule.score = SCORE_KILL -> Word("kill")
                    [] rule.score = SCORE_SELECT -> Word("hot")
                    [] OTHER -> Number(rule.score))>>
  \o LineIf(rule.subj # None, "subj", rule.subj)
  \o LineIf(rule.from # None, "from", rule.from)
  \o LineIf(rule.msgid # None, rule.fullref, rule.msgid)
  \o LineIf(rule.lines # NoTest, "lines", rule.lines)
  \o LineIf(rule.gnksa # NoTest, "gnksa", rule.gnksa)
  \o LineIf(rule.xref # None, "xref", rule.xref)
  \o (IF rule.xref_max > 0
      THEN <<Line("xref_max", rule.xref_max)>>
           \o [i \in DOMAIN rule.xref_scores |-> Line("xref_score", rule.xref_scores[i])]
      ELSE <<>>)
  \o LineIf(rule.time # 0, "time", rule.time)

vWriteFilterArray(array, time) ==
  FlattenSeq([i \in DOMAIN array |->
                IF Expired(array[i], time) THEN <<>> ELSE WriteRule(array[i])])

-----------------------------------------------------------------------------
(* What a rule says of an article *)

test_regex(text, pattern) == text = pattern

Compare(test, n) ==
  /\ test # NoTest /\ n >= 0
  /\ \/ test.cmp = "=" /\ n = test.num
     \/ test.cmp = "<" /\ n < test.num
     \/ test.cmp = ">" /\ n > test.num

\* Message-ID: and References:, or a part of them.
MsgidHit(rule, art) ==
  LET refs == CASE rule.fullref \in {"msgid", "refs_only"} -> art.refs
                [] rule.fullref = "msgid_last" -> art.parent
                [] OTHER -> {}
  IN \/ rule.msgid \in refs
     \/ rule.fullref # "refs_only" /\ test_regex(art.msgid, rule.msgid)

\* Xref: each group counts what its first pattern says, else 1.  A group
\* that xref= matches sets the count to -1, which the next ones add to.
XrefCount(rule, art, name) ==
  LET score(g) == LET k == {i \in DOMAIN rule.xref_scores : rule.xref_scores[i][2] = g}
                  IN IF k = {} THEN 1
                     ELSE rule.xref_scores[CHOOSE i \in k : \A j \in k : i <= j][1]
      one(n, g) == LET m == IF rule.xref_max > 0 THEN n + score(g) ELSE n
                   IN IF /\ rule.xref # None /\ test_regex(g, rule.xref)
                         /\ (rule.type # FILTER_KILL \/ name # g)
                      THEN -1 ELSE m
  IN FoldLeft(one, 0, art.xref)

XrefHit(rule, art, name) ==
  /\ art.xref # <<>> /\ (rule.xref_max > 0 \/ rule.xref # None)
  /\ LET n == XrefCount(rule, art, name) IN n = -1 \/ n > rule.xref_max

\* Every criterion of a rule that applies adds the score once more.
Hits(rule, art, name) ==
  LET hit(b) == IF b THEN 1 ELSE 0
  IN hit(rule.subj # None /\ test_regex(art.subject, rule.subj))
     + hit(rule.from # None /\ test_regex(art.from, rule.from))
     + hit(rule.msgid # None /\ MsgidHit(rule, art))
     + hit(Compare(rule.lines, art.lines)) + hit(Compare(rule.gnksa, art.gnksa))
     + hit(XrefHit(rule, art, name))

Score(array, art, name) ==
  FoldLeft(LAMBDA s, rule :
             IF name \in rule.scope THEN Clip(s + Hits(rule, art, name) * rule.score) ELSE s,
           0, array)

-----------------------------------------------------------------------------
(* The open group: s holds arts and bits, the group's bitmap *)

\* Mutant: the article is shown as read, and its group is not told.
art_mark_read_NoBitmap(s, a) ==
  [arts |-> [s.arts EXCEPT ![a].status = "read"], bits |-> s.bits]

art_mark_read(s, a) ==
  [arts |-> [s.arts EXCEPT ![a].status = "read"], bits |-> s.bits \ {a}]

art_mark_unread(s, a) ==
  [arts |-> [s.arts EXCEPT ![a].status = "unread"], bits |-> s.bits \cup {a}]

\* What was killed or selected before stays marked so.
filter_articles(array, name, s) ==
  LET scored == [a \in DOMAIN s.arts |->
                   IF KillRead /\ s.arts[a].status = "read" THEN 0
                   ELSE Score(array, Art[a], name)]
      kill == {a \in DOMAIN s.arts : scored[a] <= SCORE_LIM_KILL}
      sel == {a \in DOMAIN s.arts : scored[a] >= SCORE_LIM_SEL}
      marked == [a \in DOMAIN s.arts |->
                   [s.arts[a] EXCEPT !.score = scored[a], !.killed = @ \/ a \in kill,
                                     !.selected = @ \/ a \in sel]]
  IN IF array = <<>> THEN s
     ELSE FoldSet(LAMBDA a, t : art_mark_read(t, a), [arts |-> marked, bits |-> s.bits], kill)

unfilter_articles(arts_) ==
  [a \in DOMAIN arts_ |->
     IF arts_[a].killed
     THEN [arts_[a] EXCEPT !.killed = FALSE, !.status = "unread", !.score = 0]
     ELSE arts_[a]]

-----------------------------------------------------------------------------
(* Adding a rule *)

\* bAddFilterRule(): the rule r is made of, r.text and r.kind or the parts of
\* the article that r names; None when it would look for nothing.
Criteria(r, art) ==
  IF r.text # None
  THEN [subj |-> IF r.kind = "subj" THEN r.text ELSE None,
        from |-> IF r.kind = "from" THEN r.text ELSE None,
        msgid |-> IF r.kind \in {"msgid", "msgid_last", "msgid_only"} THEN r.text ELSE None]
  ELSE [subj |-> IF r.subj_ok THEN art.subject ELSE None,
        from |-> IF r.from_ok THEN art.from ELSE None,
        msgid |-> IF r.msgid_ok THEN art.msgid ELSE None]

Filtered(r) == r.text # None \/ r.subj_ok \/ r.from_ok \/ r.msgid_ok \/ r.lines_ok

NewRule(r, name, art, time) ==
  LET c == Criteria(r, art)
      days == CASE r.expire = 1 -> FilterDays [] r.expire = 2 -> 2 * FilterDays
                [] r.expire = 3 -> 4 * FilterDays [] OTHER -> 0
  IN [vSetFilter(IF r.scope = {} THEN {name} ELSE r.scope) EXCEPT
        !.type = r.type, !.icase = r.icase, !.score = r.score, !.lines = r.lines,
        !.subj = c.subj, !.from = c.from, !.msgid = c.msgid,
        !.fullref = IF c.msgid = None THEN "msgid"
                    ELSE IF r.text # None THEN r.kind ELSE r.fullref,
        !.time = IF days = 0 THEN 0 ELSE time + days]

\* quick_filter(): the header "lines" names no number of lines, and
\* "msgid_only" is no header it knows.
QuickRule(type) ==
  LET q == Quick[type]
  IN [type |-> type, text |-> None, kind |-> None, lines |-> NoTest,
      subj_ok |-> q.header = "subj", from_ok |-> q.header = "from",
      msgid_ok |-> q.header \in {"msgid", "msgid_last"}, lines_ok |-> q.header = "lines",
      fullref |-> q.header, icase |-> q.icase, scope |-> q.scope, expire |-> q.expire,
      score |-> IF type = FILTER_KILL THEN SCORE_KILL ELSE SCORE_SELECT]

\* The group, all groups, or a hierarchy the group is in.
ScopeOf(name, m) == ScopesOf[name][m.scope]

\* filter_menu(): the answers m turned into a rule.  The choice of what to do
\* with the Message-ID comes first or last in its list.
MenuMsgid(m) == IF m.subj \/ m.from THEN m.msgid ELSE m.msgid + 1

MenuScore(type, m) ==
  LET n == IF m.score <= 0 THEN SCORE_DEFAULT ELSE FilterMin(m.score, SCORE_MAX)
  IN IF type = FILTER_KILL THEN -n ELSE n

MenuRule(type, m, name) ==
  [type |-> type, text |-> m.text, kind |-> m.kind, lines |-> m.lines,
   subj_ok |-> m.text = None /\ m.subj, from_ok |-> m.text = None /\ m.from,
   msgid_ok |-> m.text = None /\ MenuMsgid(m) \in 1..3,
   fullref |-> CASE MenuMsgid(m) = 2 -> "msgid_last" [] MenuMsgid(m) = 3 -> "msgid_only"
                 [] OTHER -> "msgid",
   lines_ok |-> m.lines # NoTest, icase |-> m.icase, expire |-> m.expire,
   score |-> MenuScore(type, m), scope |-> ScopeOf(name, m)]

\* quick_filter_select_posted_art()
PostedRule(name) ==
  [QuickRule(FILTER_SELECT) EXCEPT
     !.subj_ok = TRUE, !.from_ok = FALSE, !.msgid_ok = FALSE, !.lines_ok = FALSE,
     !.fullref = "msgid", !.icase = 0, !.expire = 1, !.scope = {name}]

-----------------------------------------------------------------------------
Open == [arts |-> arts, bits |-> IF group = None THEN {} ELSE unread[group]]
Show(s) == arts' = s.arts /\ unread' = [unread EXCEPT ![group] = s.bits]

\* read_filter_file(): with an expired rule the whole file is written anew.
ReadFile(lines) ==
  LET s == ReadFilters(lines, now)
  IN /\ rules' = s.rules
     /\ file' = IF s.expired THEN vWriteFilterArray(s.rules, now) ELSE lines
     /\ stale' = FALSE

AddFilterRule(r, art, name) ==
  IF Filtered(r)
  THEN LET array == Append(rules, NewRule(r, name, art, now))
       IN /\ rules' = array /\ file' = vWriteFilterArray(array, now)
          /\ stale' = FALSE
  ELSE UNCHANGED <<rules, file, stale>>

Killed(arts_) == {a \in DOMAIN arts_ : arts_[a].score <= SCORE_LIM_KILL}

Load(name) ==
  [arts |-> [a \in ArtsOf[name] |->
               [status |-> IF a \in unread[name] THEN "unread" ELSE "read",
                killed |-> FALSE, selected |-> FALSE, score |-> 0]],
   bits |-> unread[name]]

FilterInit ==
  /\ rules = <<>> /\ file = <<>> /\ stale = FALSE /\ now = Now
  /\ group = None /\ arts = <<>> /\ touched = {}
  /\ unread = [g \in Groups |-> ArtsOf[g]]

\* Starting tin anew, after the file may have been written by hand.
Start ==
  /\ ReadFile(file)
  /\ group' = None /\ arts' = <<>> /\ touched' = {}
  /\ UNCHANGED <<now, unread>>

\* index_group()
Enter(name) ==
  LET s == filter_articles(rules, name, Load(name))
  IN /\ group' = name /\ arts' = s.arts
     /\ unread' = [unread EXCEPT ![name] = s.bits]
     /\ touched' = touched \ ArtsOf[name]
     /\ UNCHANGED <<rules, file, stale, now>>

\* The quick commands of the group page and of the pager.
QuickFilter(type, a) ==
  /\ group # None /\ a \in DOMAIN arts /\ Len(rules) < MaxRules
  /\ AddFilterRule(QuickRule(type), Art[a], group)
  /\ IF Filtered(QuickRule(type)) THEN Show(filter_articles(rules', group, Open))
     ELSE UNCHANGED <<arts, unread>>
  /\ touched' = IF Filtered(QuickRule(type)) THEN touched \ Killed(arts') ELSE touched
  /\ UNCHANGED <<now, group>>

\* filter_menu() and save.
MenuSave(type, a, m) ==
  LET r == MenuRule(type, m, group)
  IN /\ group # None /\ a \in DOMAIN arts /\ Len(rules) < MaxRules
     /\ m.scope \in DOMAIN ScopesOf[group] /\ Filtered(r)
     /\ AddFilterRule(r, Art[a], group)
     /\ Show(filter_articles(rules', group, Open))
     /\ touched' = touched \ Killed(arts')
     /\ UNCHANGED <<now, group>>
\* filter_menu() and edit: the rule is saved, and then the reader has the
\* file.  Where the editor fails nothing is read and nothing filtered.
MenuEdit(type, a, m, f) ==
  LET r == MenuRule(type, m, group)
  IN /\ group # None /\ a \in DOMAIN arts /\ Len(rules) < MaxRules
     /\ m.scope \in DOMAIN ScopesOf[group] /\ Filtered(r)
     /\ \/ /\ ReadFile(f)
           /\ Show(filter_articles(rules', group,
                                   [Open EXCEPT !.arts = unfilter_articles(arts)]))
           /\ touched' = touched \ Killed(arts')
        \/ /\ rules' = Append(rules, NewRule(r, group, Art[a], now))
           /\ file' = f /\ stale' = TRUE
           /\ touched' = DOMAIN arts
           /\ UNCHANGED <<arts, unread>>
     /\ UNCHANGED <<now, group>>

\* Posting in the open group.
Posted(subject) ==
  /\ AddPosted /\ group # None /\ Len(rules) < MaxRules
  /\ AddFilterRule(PostedRule(group), [subject |-> subject], group)
  /\ UNCHANGED <<now, group, arts, unread, touched>>

MarkArticleRead(a) ==
  /\ group # None /\ a \in DOMAIN arts /\ arts[a].status = "unread"
  /\ Show(art_mark_read(Open, a))
  /\ UNCHANGED <<rules, file, stale, now, group, touched>>

MarkArticleUnread(a) ==
  /\ group # None /\ a \in DOMAIN arts /\ arts[a].status = "read"
  /\ Show(art_mark_unread(Open, a))
  /\ touched' = touched \cup {a}
  /\ UNCHANGED <<rules, file, stale, now, group>>

Tick ==
  /\ now + Day <= MaxTime /\ now' = now + Day
  /\ UNCHANGED <<rules, file, stale, group, arts, unread, touched>>

RuleTypes == {FILTER_KILL, FILTER_SELECT}

FilterNext ==
  \/ Start \/ Tick
  \/ \E name \in Groups : Enter(name)
  \/ \E a \in Articles : MarkArticleRead(a) \/ MarkArticleUnread(a)
  \/ \E type \in RuleTypes, a \in Articles :
       \/ QuickFilter(type, a)
       \/ \E m \in Answers : MenuSave(type, a, m) \/ \E f \in HandFiles : MenuEdit(type, a, m, f)
  \/ \E subject \in Subjects : Posted(subject)

FilterSpec == FilterInit /\ [][FilterNext]_filter_vars

-----------------------------------------------------------------------------
InUse(array, time) ==
  FoldLeft(LAMBDA used, r : IF Expired(r, time) THEN used ELSE Append(used, r), <<>>, array)

\* The file holds the rules in use: what a later session reads from it
\* (read_filter_file) is what this one filters with, less the rules that
\* have expired; only an editor that fails may leave them apart.
FileIsRules ==
  ~stale => ReadFilters(file, now).rules = InUse(rules, now)

\* What the rules in use kill is read, in the bitmap of the group too
\* (filter_articles), unless the reader marked it
\* unread since, or the editor failed after the rule was added.
RulesInForce ==
  group # None =>
    \A a \in DOMAIN arts \ touched :
      Score(rules, Art[a], group) <= SCORE_LIM_KILL => a \notin unread[group]

=============================================================================
