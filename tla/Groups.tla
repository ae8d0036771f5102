------------------------------- MODULE Groups -------------------------------
(***************************************************************************)
(* The list of groups the reader moves in (select.c): my_group[], what     *)
(* rebuilds it (read_newsrc, toggle_my_groups, resync_active_file, the new *)
(* groups of active.c), and the cursor that has to stay on its group.      *)
(*                                                                         *)
(* my_group[] holds names here, and cur_groupnum counts from 0 as it does  *)
(* there.  Of the articles of a group only counts whether some are unread. *)
(* tin runs with write access, without groups on its command line and with *)
(* the whole active file (not -n).                                         *)
(***************************************************************************)
EXTENDS Naturals, SequencesExt

CONSTANTS Announced,      \* groups the server may create
          FirstActive,    \* its active file at the start, a sequence of names
          FirstNewsrc,    \* .newsrc at the start: lines [name, sub]
          FirstUnread,    \* groups with unread articles at the start
          AutoSubscribe, AutoUnsubscribe,  \* sets of groups they match
          StripBogus,     \* tinrc.strip_bogus: "keep", "remove" or "ask"
          Patterns,       \* sets of groups the reader's patterns match
          MaxGroups       \* bound: names in active[]

GroupName == STRING \ {""}
OneLineEach(file) == \A i, j \in DOMAIN file : file[i].name = file[j].name => i = j

ASSUME GroupsAssumption ==
  /\ FirstActive \in Seq(GroupName) /\ Announced \subseteq GroupName /\ FirstUnread \subseteq GroupName
  /\ FirstNewsrc \in Seq([name : GroupName, sub : BOOLEAN])

\* A newsreader writes one line for a group.
ASSUME OneLineAssumption == OneLineEach(FirstNewsrc)

VARIABLES s,        \* the tables, see below
          only,     \* tinrc.show_only_unread_groups
          yank,     \* yank_in_active_file
          server    \* the active file of the server when it was last read

list_vars == <<s, only, yank, server>>

(***************************************************************************)
(* s.active   the names in active[], in order                              *)
(* s.sub, s.new, s.bogus   those that are subscribed, newgroup, bogus      *)
(* s.unread   those with num_unread > 0                                    *)
(* s.my, s.cur   my_group[0 .. group_top-1] and cur_groupnum               *)
(* s.file     the lines of .newsrc                                         *)
(***************************************************************************)

find_group_index(t, g) == g \in ToSet(t.active)

\* add_my_group(g, TRUE): appends a group that is in active[] and not yet listed.
my_group_add(t, g) ==
  IF find_group_index(t, g) /\ g \notin ToSet(t.my) THEN [t EXCEPT !.my = Append(@, g)] ELSE t

\* my_group_find(g), counted from 0, or the default where it is not listed.
my_group_find(t, g, default) ==
  IF g \in ToSet(t.my) THEN (CHOOSE i \in DOMAIN t.my : t.my[i] = g) - 1 ELSE default

\* The new groups at the head of the list; the rest of it goes.
skip_newgroups(t) ==
  LET old == {i \in DOMAIN t.my : t.my[i] \notin t.new}
  IN IF old = {} THEN Len(t.my) ELSE (CHOOSE i \in old : \A j \in old : i <= j) - 1

KeepNew(t) == [t EXCEPT !.my = SubSeq(@, 1, skip_newgroups(t))]

\* psGrpAdd() and active_add(): a group that is there keeps its flags.
psGrpAdd(t, g) ==
  IF find_group_index(t, g) THEN t
  ELSE [t EXCEPT !.active = Append(@, g), !.sub = @ \ {g}, !.new = @ \ {g}, !.bogus = @ \ {g}]

process_bogus(t, g) ==
  LET u == psGrpAdd(t, g) IN my_group_add([u EXCEPT !.bogus = @ \cup {g}], g)

Sub(name, sub) == [name |-> name, sub |-> sub]

\* The elements of a list that are in a set, in their order.
Only(list, set) ==
  FoldLeft(LAMBDA kept, x : IF x \in set THEN Append(kept, x) ELSE kept, <<>>, list)

-----------------------------------------------------------------------------
(* .newsrc *)

\* A line of a subscribed group; one that the server does not have is bogus.
ReadLine(t, line) ==
  LET u == my_group_add(t, line.name)
  IN IF ~line.sub THEN t
     ELSE IF ~find_group_index(t, line.name) THEN process_bogus(t, line.name)
     ELSE IF line.name \in t.bogus THEN u
     ELSE [u EXCEPT !.sub = @ \cup {line.name}]

read_newsrc(t) == FoldLeft(ReadLine, KeepNew(t), t.file)

vWriteNewsrc(t) ==
  LET kept == {l \in ToSet(t.file) :
                 StripBogus # "remove" \/ (find_group_index(t, l.name) /\ l.name \notin t.bogus)}
      lines == Only(t.file, kept)
  IN IF lines = <<>> THEN t ELSE [t EXCEPT !.file = lines]

\* subscribe(): its line, or a new one at the end.
subscribe(t, g, state) ==
  LET lines == IF \E i \in DOMAIN t.file : t.file[i].name = g
               THEN [i \in DOMAIN t.file |-> IF t.file[i].name = g THEN Sub(g, state) ELSE t.file[i]]
               ELSE Append(t.file, Sub(g, state))
  IN [t EXCEPT !.file = lines, !.sub = IF state THEN @ \cup {g} ELSE @ \ {g}]

delete_group(t, g) == [t EXCEPT !.file = Only(@, {l \in ToSet(@) : l.name # g})]

\* pos_group_in_newsrc(): the subscribed lines, with g at place pos among
\* them or at their end, and then the others.
pos_group_in_newsrc(t, g, pos) ==
  LET subs == Only(t.file, {l \in ToSet(t.file) : l.sub /\ l.name # g})
      rest == Only(t.file, {l \in ToSet(t.file) : ~l.sub})
      k == IF pos > Len(subs) THEN Len(subs) ELSE pos - 1
  IN [t EXCEPT !.file = SubSeq(subs, 1, k) \o <<Sub(g, TRUE)>>
                        \o SubSeq(subs, k + 1, Len(subs)) \o rest]

-----------------------------------------------------------------------------
(* Rebuilding the list *)

\* The group to come back to: the one under the cursor, or when only unread
\* groups are shown the first from there on that will be in the list.  Past
\* the end of a list that has shrunk stands what my_group[] held before.
OldGroup(t, unread_only, g) ==
  LET idx == IF g # "" THEN my_group_find(t, g, 0) ELSE t.cur
      show == {i \in (idx + 1)..Len(t.my) : t.my[i] \in t.unread \cup t.new}
  IN IF t.my = <<>> THEN ""
     ELSE IF ~unread_only THEN (IF idx < Len(t.my) THEN t.my ELSE s.my)[idx + 1]
     ELSE IF show = {} THEN "" ELSE t.my[CHOOSE i \in show : \A j \in show : i <= j]

\* A line of .newsrc, if its group is to be shown.
ListLine(t, line, unread_only) ==
  LET shown == \/ ~unread_only \/ line.name \in t.unread
               \/ line.name \in t.bogus /\ StripBogus = "ask"
  IN IF line.sub /\ shown THEN my_group_add(t, line.name) ELSE t

ListLines(t, lines, unread_only) ==
  FoldLeft(LAMBDA u, line : ListLine(u, line, unread_only), t, lines)
Listed(t, unread_only) == ListLines(KeepNew(t), t.file, unread_only)

\* Mutant: the cursor keeps its number.
toggle_KeepNumber(t, unread_only, g) == Listed(t, unread_only)

toggle_my_groups(t, unread_only, g) ==
  LET old == OldGroup(t, unread_only, g)
      built == Listed(t, unread_only)
  IN [built EXCEPT !.cur = my_group_find(built, old, 0)]

\* Mutant: the page is drawn around the cursor, wherever that is.
show_selection_page_Anywhere(t) == t

\* show_selection_page() brings the cursor back into the list.
show_selection_page(t) ==
  [t EXCEPT !.cur = IF Len(t.my) = 0 THEN 0 ELSE IF @ >= Len(t.my) THEN Len(t.my) - 1 ELSE @]

move_to_group(t, n) == show_selection_page([t EXCEPT !.cur = n])

\* subscribe_new_group(): the group subscribed on its own leaves the list by
\* cutting off the last entry; read_newsrc() finds it again.
subscribe_new_group(t, g) ==
  IF g \in AutoUnsubscribe \/ ~find_group_index(t, g) THEN t
  ELSE LET u == my_group_add(t, g)
       IN IF g \in AutoSubscribe
          THEN LET v == subscribe(u, g, TRUE) IN [v EXCEPT !.my = Front(@)]
          ELSE [u EXCEPT !.new = @ \cup {g}]

\* The groups created since the server was asked last.
check_for_any_new_groups(t, created) == FoldLeft(subscribe_new_group, t, created)

read_active_file(t, groups) == FoldLeft(psGrpAdd, t, groups)

read_news_active_file(t, groups, created) ==
  check_for_any_new_groups(read_active_file(t, groups \o created), created)

\* The server has created groups, and articles have arrived in some.
resync_active_file(t, created, arrived, unread_only) ==
  LET old == IF t.my = <<>> THEN "" ELSE t.my[t.cur + 1]
      u == read_newsrc(read_news_active_file(vWriteNewsrc(t), server, created))
      v == [u EXCEPT !.unread = @ \cup (arrived \cap u.sub)]
  IN show_selection_page(toggle_my_groups(v, unread_only, old))

-----------------------------------------------------------------------------
(* Keys of the selection page *)

CURR_GROUP == s.my[s.cur + 1]
Unread(t, i) == t.my[i + 1] \in t.unread \ t.bogus

\* pos_next_unread_group(): from the cursor on, then from the head; the
\* cursor where no group has unread articles.
pos_next_unread_group(t) ==
  LET from == {i \in t.cur..(Len(t.my) - 1) : Unread(t, i)}
      head == {i \in 0..(t.cur - 1) : Unread(t, i)}
      first(set) == CHOOSE i \in set : \A j \in set : i <= j
  IN IF t.my = <<>> THEN t.cur
     ELSE IF from # {} THEN first(from) ELSE IF head # {} THEN first(head) ELSE t.cur

\* What the reader may ask for: n counts from 1.
MayMove(n) ==
  /\ s.my # <<>> /\ CURR_GROUP \in s.sub /\ n > 0
  /\ (IF n > Len(s.my) THEN Len(s.my) ELSE n) > skip_newgroups(s)
  /\ \E i \in DOMAIN s.file : s.file[i] = Sub(CURR_GROUP, TRUE)

reposition_group(t, n) ==
  LET pos == IF n > Len(t.my) THEN Len(t.my) ELSE n
      u == read_newsrc(pos_group_in_newsrc(vWriteNewsrc(t), t.my[t.cur + 1], pos - skip_newgroups(t)))
  IN [u EXCEPT !.cur = pos - 1]

Keys(t) == s' = t /\ UNCHANGED <<only, yank, server>>

ListInit ==
  LET t == [active |-> <<>>, sub |-> {}, new |-> {}, bogus |-> {}, unread |-> FirstUnread,
            my |-> <<>>, cur |-> 0, file |-> FirstNewsrc]
      u == read_newsrc(read_news_active_file(t, FirstActive, <<>>))
  IN /\ server = FirstActive /\ yank = TRUE /\ only = TRUE
     /\ s = show_selection_page(toggle_my_groups(u, TRUE, ""))

\* The key that asks for it, or the timer.
Resync(created, arrived) ==
  /\ s' = resync_active_file(s, created, arrived, only)
  /\ server' = server \o created
  /\ UNCHANGED <<only, yank>>

\* Cursor keys, numbers, searches and the mouse.
MoveTo(n) == n \in 0..(Len(s.my) - 1) /\ Keys(move_to_group(s, n))

NextUnread == s.my # <<>> /\ Keys(move_to_group(s, pos_next_unread_group(s)))

\* read_groups(): the group is read, or not, and the group page leaves for
\* the list, the next group or the next unread one.
ReadGroup ==
  /\ s.my # <<>> /\ CURR_GROUP \notin s.bogus
  /\ \E left \in {s.unread, s.unread \ {CURR_GROUP}} :
       LET t == [s EXCEPT !.unread = left]
       IN \/ Keys(show_selection_page(t))
          \/ Keys(show_selection_page([t EXCEPT !.cur = IF @ + 1 < Len(t.my) THEN @ + 1 ELSE @]))
          \/ Keys(show_selection_page([t EXCEPT !.cur = pos_next_unread_group(t)]))

\* catchup_group()
Catchup ==
  /\ s.my # <<>>
  /\ LET t == [s EXCEPT !.unread = @ \ {CURR_GROUP}]
     IN \/ Keys(move_to_group(t, pos_next_unread_group(t)))
        \/ Keys(move_to_group(t, s.cur + 1))

MarkUnread == s.my # <<>> /\ Keys([s EXCEPT !.unread = @ \cup {CURR_GROUP}])

\* choose_new_group()
Goto(g) ==
  LET t == my_group_add(s, g)
  IN find_group_index(s, g) /\ Keys(move_to_group(t, my_group_find(t, g, 0)))

Subscribe ==
  /\ s.my # <<>> /\ CURR_GROUP \notin s.sub \cup s.bogus
  /\ Keys(show_selection_page(subscribe(s, CURR_GROUP, TRUE)))

\* The cursor goes to the next group, and a bogus one goes for good.
Unsubscribe ==
  /\ s.my # <<>>
  /\ \/ CURR_GROUP \in s.sub /\ Keys(move_to_group(subscribe(s, CURR_GROUP, FALSE), s.cur + 1))
     \/ /\ CURR_GROUP \in s.bogus \ s.sub /\ StripBogus = "ask"
        /\ LET t == read_newsrc(delete_group(vWriteNewsrc(s), CURR_GROUP))
           IN Keys(show_selection_page(toggle_my_groups(t, only, "")))

\* subscribe_pattern(): the listed groups, then the others.
SubscribeOne(t, g, state) ==
  LET u == subscribe(t, g, state)
  IN IF state /\ g \notin ToSet(s.my) THEN [my_group_add(u, g) EXCEPT !.unread = @ \cup {g}] ELSE u

SubscribeAll(t, groups, state) == FoldLeft(LAMBDA u, g : SubscribeOne(u, g, state), t, groups)

SubscribePattern(groups, state) ==
  LET all == s.my \o Only(s.active, ToSet(s.active) \ ToSet(s.my))
      hit == Only(all, {g \in groups : (g \in s.sub) # state})
  IN hit # <<>> /\ Keys(show_selection_page(toggle_my_groups(SubscribeAll(s, hit, state), only, "")))

MoveGroup(n) ==
  /\ MayMove(n)
  /\ s' = show_selection_page(reposition_group(s, n))
  /\ only' = FALSE
  /\ UNCHANGED <<yank, server>>

ToggleRead ==
  /\ only' = ~only
  /\ s' = show_selection_page(toggle_my_groups(s, ~only, ""))
  /\ UNCHANGED <<yank, server>>

\* Yanking in all of active[], and out again.
Yank ==
  LET g == IF s.my = <<>> THEN "" ELSE CURR_GROUP
      all == [s EXCEPT !.my = s.active]
      back == toggle_my_groups(s, only, "")
  IN /\ s' = IF yank
             THEN IF Len(s.my) < Len(s.active) /\ g # ""
                  THEN show_selection_page([all EXCEPT !.cur = my_group_find(all, g, 0)]) ELSE all
             ELSE show_selection_page([back EXCEPT !.cur =
                    my_group_find(back, g, IF back.my = <<>> THEN 0 ELSE Len(back.my) - 1)])
     /\ yank' = ~yank
     /\ UNCHANGED <<only, server>>

\* reset_newsrc() leaves every subscribed group unread, and a resync follows.
ResetNewsrc ==
  LET t == resync_active_file([s EXCEPT !.unread = @ \cup s.sub], <<>>, {}, only)
  IN Keys(show_selection_page([t EXCEPT !.cur = 0]))

Names == ToSet(FirstActive) \cup Announced \cup {FirstNewsrc[i].name : i \in DOMAIN FirstNewsrc}

Created == {<<>>} \cup {<<g>> : g \in {h \in Announced \ ToSet(server) : Len(s.active) < MaxGroups}}
Arrived == {{}} \cup {{g} : g \in ToSet(server)}

ListNext ==
  \/ NextUnread \/ ReadGroup \/ Catchup \/ MarkUnread \/ Subscribe \/ Unsubscribe
  \/ ToggleRead \/ Yank \/ ResetNewsrc
  \/ \E n \in 0..Len(s.active) : MoveTo(n) \/ MoveGroup(n)
  \/ \E g \in Names : Goto(g)
  \/ \E groups \in Patterns, state \in BOOLEAN : SubscribePattern(groups, state)
  \/ \E created \in Created, arrived \in Arrived : Resync(created, arrived)

ListSpec == ListInit /\ [][ListNext]_list_vars

-----------------------------------------------------------------------------
\* The page shows what it should (toggle_my_groups, resync_active_file): the
\* cursor is on an entry, no group is listed twice, a subscribed group with
\* unread articles is listed, and every subscribed one unless only unread
\* groups are shown.
GroupsListed ==
  /\ s.cur < Len(s.my) \/ s.cur = 0
  /\ IsInjective(s.my)
  /\ \A i \in DOMAIN s.file :
       LET g == s.file[i].name
       IN s.file[i].sub /\ (~only \/ g \in s.unread) => g \in ToSet(s.my)

\* A page made anew has the cursor on the group it was on, if it is still to be seen.
Follows(t, unread_only) ==
  CURR_GROUP \in ToSet(t.my) /\ (~unread_only \/ CURR_GROUP \in s.unread \cup s.new)
    => t.my[t.cur + 1] = CURR_GROUP

\* A rebuilt list has the cursor on the group it was on, if that group is
\* still to be seen, whatever the server and .newsrc brought in between
\* (toggle_my_groups, resync_active_file).  A group moved to another place
\* takes the cursor along (reposition_group), unless a new group has a line of
\* a subscribed one: that line is counted, and its place at the head is not.
CursorFollows ==
  s.my # <<>> =>
    /\ \A created \in Created, arrived \in Arrived :
         Follows(resync_active_file(s, created, arrived, only), only)
    /\ Follows(toggle_my_groups(s, ~only, ""), ~only)
    /\ (\A i \in DOMAIN s.file : s.file[i].sub => s.file[i].name \notin s.new) =>
         \A n \in 1..Len(s.my) : MayMove(n) =>
           LET t == show_selection_page(reposition_group(s, n)) IN t.my[t.cur + 1] = CURR_GROUP

=============================================================================
