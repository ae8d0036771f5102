-------------------------------- MODULE Pages --------------------------------
(***************************************************************************)
(* Reading one group: the group page, the thread page and the pager        *)
(* (group.c, thread.c, page.c).  They call one another, share the cursors  *)
(* and the list base[] of threads, and tell each other what to do next in  *)
(* return codes that live in the same integers as cursor positions.        *)
(* One action is one key, up to the next point where a key is read.        *)
(***************************************************************************)
EXTENDS ThreadOps

CONSTANTS
  Arts,            \* 0..top-1
  SubjectOf,       \* SubjectOf[i]: the subject of arts[i]
  RefOf,           \* RefOf[i]: its message-id
  Tree,            \* the message-id tree of build_references()
  Method,          \* the threading the group has when it is entered
  PosFirstUnread,  \* tinrc.pos_first_unread
  NOTESLINES,      \* the lines of the screen that show items
  SCROLL,          \* scroll_lines of page_up() and page_down()
  OnlyUnread,      \* attribute.show_only_unread when the program starts
  OtherMethods,    \* the threadings the reader may switch to
  PagerOptions,    \* bound: the option menu is used in the pager as well
  MaxChanges       \* bound: filters and other changes of the threads

GRP_RETURN == -1
GRP_QUIT == -2
GRP_NEXTUNREAD == -3
GRP_NEXT == -4
GRP_ARTFAIL == -5
GRP_KILLED == -6
GRP_GOTOTHREAD == -7
GRP_ENTER == -8

VARIABLES
  pc,          \* where a key is read, or what one page left to another
  via,         \* "group" or "thread": who called show_page()
  ret,         \* what show_page(), thread_page() or group_page() returned
  arts, base, mark,
  linked,      \* the message-ids point to their articles
  method,      \* attribute.thread_arts
  onlyUnread,  \* attribute.show_only_unread
  index_point, \* the cursor of the group page
  thread_basenote, thread_respnum, top_thread, thread_index_point,
  respnum,     \* the article that the pager shows, -1 outside it
  this_resp,   \* the article the pager showed last, -1 for none
  space_mode,
  ignore_unavail,    \* of both callers of show_page()
  filtered_articles,
  pulled,            \* the threads changed while the pager was open
  changes            \* bound

rest == <<base, mark, linked, method, onlyUnread, changes, pulled>>
lists == <<arts, rest>>
thread == <<thread_basenote, thread_respnum, top_thread, thread_index_point>>
vars == <<pc, via, ret, lists, index_point, thread, respnum, this_resp, space_mode,
          ignore_unavail, filtered_articles>>

TopBase == Len(base)
Base(b) == base[b + 1]
Which(n) == which_thread(arts, base, n) - 1
Hidden(n) == Which(n) = -1
NextResponse(n) == next_response(arts, base, n)
NextUnread(n) == next_unread(arts, base, n)
Thread(n) == Range(Chain(arts, n))
Least(a, b) == IF a < b THEN a ELSE b

-----------------------------------------------------------------------------
(* The arithmetic of the cursor (misc.c). *)

page_up(cur, max) ==
  IF cur = 0 THEN max - 1
  ELSE IF cur % SCROLL > 0 THEN cur - (cur % SCROLL)
  ELSE cur - SCROLL

page_down(cur, max) ==
  LET next == ((cur + SCROLL) \div SCROLL) * SCROLL
      last == (max \div SCROLL) * SCROLL
  IN IF cur = max - 1 THEN 0
     ELSE IF next < max THEN next
     ELSE IF last < max - 1 THEN max - 1 ELSE last

\* A mutant: a full last screen starts behind its last item.
set_first_screen_item_Full(cur, max) ==
  LET f == (cur \div NOTESLINES) * NOTESLINES
      f2 == (max \div NOTESLINES) * NOTESLINES
  IN IF max = 0 THEN [first |-> 0, last |-> 0]
     ELSE IF f + NOTESLINES < max THEN [first |-> f, last |-> f + NOTESLINES]
     ELSE [first |-> f2, last |-> max]

set_first_screen_item(cur, max) ==
  LET f == (cur \div NOTESLINES) * NOTESLINES
      f2 == (max \div NOTESLINES) * NOTESLINES
  IN IF max = 0 THEN [first |-> 0, last |-> 0]
     ELSE IF f + NOTESLINES < max THEN [first |-> f, last |-> f + NOTESLINES]
     ELSE [first |-> IF f2 = max THEN max - NOTESLINES ELSE f2, last |-> max]

\* Where the arrows, the page keys and a typed number take a cursor.
Moves(cur, max) ==
  {0, max - 1, page_up(cur, max), page_down(cur, max),
   IF cur + 1 >= max THEN 0 ELSE cur + 1,
   IF cur = 0 THEN max - 1 ELSE cur - 1}
  \cup 0..(max - 1)

-----------------------------------------------------------------------------
(* Marking articles, as far as the pages look at it. *)

Marking(S, status) ==
  [i \in Arts |-> IF i \in S THEN [arts[i] EXCEPT !.status = status] ELSE arts[i]]

MarkRead(S) == arts' = Marking(S, "ART_READ")

\* art_mark_will_return() leaves an unread article as it is.
MarkWillReturn(S) ==
  arts' = Marking({i \in S : arts[i].status = "ART_READ"}, "ART_WILL_RETURN")

Relink(a, m, rethread, hide) ==
  LET s == make_threads(a, Tree, mark, m, rethread)
  IN /\ changes < MaxChanges /\ changes' = changes + 1
     /\ pulled' = (pulled \/ (pc = "page" /\ pc' = "page"))
     /\ arts' = s.arts /\ mark' = s.mark /\ method' = m
     /\ linked' = (rethread \/ m # "THREAD_NONE")
     /\ base' = find_base(s.arts, hide) /\ onlyUnread' = hide

FindBase(hide) ==
  /\ changes < MaxChanges /\ changes' = changes + 1
  /\ onlyUnread' = hide /\ base' = find_base(arts, hide)
  /\ UNCHANGED <<arts, mark, linked, method, pulled>>

\* filter_articles() on a filter that kills K, and the threading after it.
\* It looks at unread articles only.
FilterArticles(a, K) ==
  Relink([i \in Arts |-> [a[i] EXCEPT !.killed = @ \/ i \in K,
                                      !.status = IF i \in K THEN "ART_READ" ELSE @]],
         method, FALSE, onlyUnread)

Killable ==
  SUBSET {i \in Arts : arts[i].status = "ART_UNREAD" /\ ~arts[i].killed} \ {{}}

pos_first_unread_thread(a, b, space) ==
  LET fresh == {k \in DOMAIN b : new_responses(a, b, k) > 0}
  IN IF space /\ fresh # {}
     THEN (CHOOSE k \in fresh : \A l \in fresh : k <= l) - 1
     ELSE Len(b) - 1

(***************************************************************************)
(* Init is the selection page; EnterGroup is the start of group_page() and *)
(* index_group(), which reads the articles again.                          *)
(***************************************************************************)
Fresh == [i \in Arts |->
  [subject |-> SubjectOf[i], ref |-> RefOf[i], status |-> "ART_UNREAD",
   killed |-> FALSE, thread |-> ART_NORMAL, inthread |-> FALSE]]

Init ==
  /\ pc = "select" /\ via = "group" /\ ret = 0
  /\ arts = Fresh /\ base = <<>> /\ linked = FALSE
  /\ mark = [s \in Range(SubjectOf) |-> -1]
  /\ method = Method /\ onlyUnread = OnlyUnread
  /\ index_point = 0 /\ thread_basenote = 0 /\ thread_respnum = 0
  /\ top_thread = 0 /\ thread_index_point = 0 /\ respnum = -1
  /\ this_resp = -1
  /\ space_mode = PosFirstUnread
  /\ ignore_unavail = [group |-> FALSE, thread |-> FALSE]
  /\ filtered_articles = FALSE /\ changes = 0 /\ pulled = FALSE

EnterGroup ==
  /\ pc = "select"
  /\ LET again == [i \in Arts |-> [arts[i] EXCEPT
                     !.status = IF @ = "ART_READ" THEN @ ELSE "ART_UNREAD",
                     !.thread = ART_NORMAL, !.inthread = FALSE]]
         s == make_threads(again, Tree, [x \in DOMAIN mark |-> -1], method, FALSE)
     IN /\ arts' = s.arts /\ mark' = s.mark /\ method' = method
        /\ linked' = (method # "THREAD_NONE")
        /\ base' = find_base(s.arts, onlyUnread) /\ onlyUnread' = onlyUnread
        /\ index_point' = pos_first_unread_thread(s.arts, base', PosFirstUnread)
  /\ this_resp' = -1
  /\ pc' = "group" /\ space_mode' = PosFirstUnread /\ changes' = changes
  /\ pulled' = FALSE
  /\ ignore_unavail' = [ignore_unavail EXCEPT !.group = FALSE]
  /\ UNCHANGED <<via, ret, thread, respnum, filtered_articles>>

-----------------------------------------------------------------------------
(* The group page. *)

AtGroup == pc = "group"
NotEmpty == index_point >= 0

\* show_group_page() pulls the cursor back behind the last thread.
ShowGroup(cursor, b) ==
  /\ pc' = "group"
  /\ index_point' = Least(cursor, Len(b) - 1)

GroupOnly == UNCHANGED <<via, ret, thread, respnum, this_resp, filtered_articles>>

Leave(code) == /\ pc' = "select" /\ ret' = code

\* enter_pager with article n, keeping on if it turns out to be unavailable.
OpenFrom(caller, n, goOn) ==
  /\ pc' = "restart" /\ via' = caller /\ respnum' = n
  /\ ignore_unavail' = [ignore_unavail EXCEPT ![caller] = @ \/ goOn]
  /\ filtered_articles' = FALSE

\* group_down
GroupDown == IF TopBase = 0 THEN index_point
             ELSE IF index_point + 1 >= TopBase THEN 0 ELSE index_point + 1

GroupMove ==
  /\ AtGroup /\ TopBase > 0
  /\ \E n \in Moves(index_point, TopBase) : ShowGroup(n, base)
  /\ UNCHANGED <<lists, space_mode, ignore_unavail>> /\ GroupOnly

\* The articles that search_group() looks at: those that are displayed.
Searched == {n \in UNION {Thread(base[b]) : b \in DOMAIN base} :
               onlyUnread => arts[n].status = "ART_UNREAD"}

\* Searches for an author or subject; what is found may be in a thread.
GroupSearch ==
  /\ AtGroup /\ NotEmpty
  /\ \E n \in Searched :
       /\ index_point' = Which(n)
       /\ IF which_response(arts, base, n) # 0
          THEN pc' = "thread_page" /\ ret' = which_response(arts, base, n) /\ space_mode' = TRUE
          ELSE pc' = "group" /\ UNCHANGED <<ret, space_mode>>
  /\ UNCHANGED <<via, lists, thread, respnum, this_resp, ignore_unavail, filtered_articles>>

\* Articles that keys of any page name directly: the last one that was read,
\* a message-id, one whose body matches.
Reachable ==
  {n \in {this_resp} \ {-1} : ~Hidden(n)}
  \cup {n \in Arts : linked /\ ~Hidden(n)}

\* Enter or an arrow (goOn), or a key that names the article.
GroupRead ==
  /\ AtGroup
  /\ \/ NotEmpty /\ OpenFrom("group", Base(index_point), TRUE)
     \/ \E n \in Reachable \cup (IF NotEmpty THEN Searched ELSE {}) :
          OpenFrom("group", n, FALSE)
  /\ UNCHANGED <<lists, index_point, ret, thread, this_resp, space_mode>>

GroupTab ==
  /\ AtGroup
  /\ pc' = "group_tab_pressed"
  /\ UNCHANGED <<lists, index_point, space_mode, ignore_unavail>> /\ GroupOnly

group_tab_pressed ==
  /\ pc = "group_tab_pressed"
  /\ space_mode' = TRUE
  /\ LET n == IF NotEmpty THEN NextUnread(Base(index_point)) ELSE -1
     IN IF n < 0
        THEN Leave(GRP_NEXTUNREAD) /\ UNCHANGED <<via, respnum, ignore_unavail, filtered_articles>>
        ELSE OpenFrom("group", n, TRUE) /\ UNCHANGED ret
  /\ UNCHANGED <<lists, index_point, thread, this_resp>>

\* The kill and select keys, with their menus or without.
GroupFilter ==
  /\ AtGroup /\ NotEmpty
  /\ \E K \in Killable : FilterArticles(arts, K)
  /\ ShowGroup(index_point, base')
  /\ UNCHANGED <<space_mode, ignore_unavail>> /\ GroupOnly

\* c, C and the left arrow, when the question is answered by yes.
GroupCatchup ==
  /\ AtGroup
  /\ MarkRead(Arts)
  /\ \/ Leave(GRP_NEXT)
     \/ pc' = "group_tab_pressed" /\ UNCHANGED ret
  /\ UNCHANGED <<rest, via, index_point, thread,
                 respnum, this_resp, space_mode, ignore_unavail, filtered_articles>>

GroupMarkThdRead ==
  /\ AtGroup /\ NotEmpty
  /\ MarkRead(Thread(Base(index_point)))
  /\ LET n == next_unread(arts', base, next_response(arts', base, Base(index_point)))
     IN ShowGroup(IF n < 0 \/ Which(n) < 0 THEN index_point ELSE Which(n), base)
  /\ UNCHANGED <<rest, space_mode, ignore_unavail>>
  /\ GroupOnly

GroupMarkUnread ==
  /\ AtGroup /\ NotEmpty
  /\ \/ MarkWillReturn({Base(index_point)})
     \/ MarkWillReturn(Thread(Base(index_point)))
  /\ pc' = pc
  /\ UNCHANGED <<rest, index_point, space_mode,
                 ignore_unavail>>
  /\ GroupOnly

GroupListThd ==
  /\ AtGroup /\ NotEmpty
  /\ pc' = "thread_page" /\ ret' = 0 /\ space_mode' = TRUE
  /\ UNCHANGED <<via, lists, index_point, thread, respnum, this_resp, ignore_unavail,
                 filtered_articles>>

\* The option menu: another threading, or show_only_unread_arts, which moves
\* the cursor but is not the attribute of the group.
GroupOptionMenu ==
  /\ AtGroup
  /\ \/ \E m \in OtherMethods \ {method} :
          Relink(arts, m, TRUE, onlyUnread) /\ ShowGroup(index_point, base')
     \/ /\ Relink(arts, method, TRUE, onlyUnread)
        /\ ShowGroup(pos_first_unread_thread(arts', base', space_mode), base')
  /\ UNCHANGED <<space_mode, ignore_unavail>> /\ GroupOnly

GroupUnreadArt ==
  /\ AtGroup /\ NotEmpty
  /\ LET back == prev_response(arts, base, Base(index_point))
     IN \E n \in {NextUnread(Base(index_point)), prev_unread(arts, base, back)} \ {-1} :
          OpenFrom("group", n, FALSE)
  /\ UNCHANGED <<lists, index_point, ret, thread, this_resp, space_mode>>

\* toggle_read_unread(): to the thread itself or to the closest unread one.
GroupToggleReadUnread ==
  /\ AtGroup
  /\ FindBase(~onlyUnread)
  /\ LET here == Base(index_point)
         near == {prev_unread(arts, base, here), NextUnread(here)} \ {-1}
         i == IF ~NotEmpty THEN -1
              ELSE IF onlyUnread \/ new_responses(arts, base, index_point + 1) > 0 THEN here
              ELSE IF prev_unread(arts, base, here) >= 0 THEN prev_unread(arts, base, here)
              ELSE NextUnread(here)
         k == which_thread(arts, base', i) - 1
     IN ShowGroup(IF i >= 0 /\ k >= 0 THEN k
                  ELSE IF base' # <<>> THEN Len(base') - 1 ELSE index_point, base')
  /\ UNCHANGED <<space_mode, ignore_unavail>> /\ GroupOnly

GroupToggleThreading ==
  /\ AtGroup /\ NotEmpty
  /\ \E m \in OtherMethods \ {method} : Relink(arts, m, TRUE, onlyUnread)
  /\ LET k == which_thread(arts', base', Base(index_point)) - 1
     IN ShowGroup(IF k < 0 THEN 0 ELSE k, base')
  /\ UNCHANGED <<space_mode, ignore_unavail>> /\ GroupOnly

\* q, Q, the keys for another group, and the switch of the article limit.
GroupQuit ==
  /\ AtGroup
  /\ \E code \in {index_point, GRP_QUIT, GRP_ENTER, GRP_NEXTUNREAD} : Leave(code)
  /\ UNCHANGED <<via, lists, index_point, thread, respnum, this_resp, space_mode,
                 ignore_unavail, filtered_articles>>

GroupKey ==
  \/ GroupMove \/ GroupSearch \/ GroupRead \/ GroupTab \/ GroupFilter \/ GroupCatchup
  \/ GroupMarkThdRead \/ GroupMarkUnread \/ GroupListThd \/ GroupOptionMenu
  \/ GroupUnreadArt \/ GroupToggleReadUnread \/ GroupToggleThreading \/ GroupQuit

-----------------------------------------------------------------------------

(***************************************************************************)
(* The thread page.  show_thread_page() asserts that the cursors belong to *)
(* the thread on the screen; a failed assertion ends the program.          *)
(***************************************************************************)
AtThread == pc = "thread"
Current == find_response(arts, base, thread_basenote + 1, thread_index_point)
ThreadTop == thread_basenote < TopBase
ListsOnly == UNCHANGED <<via, lists, respnum, this_resp, ignore_unavail, filtered_articles>>

\* show_thread_page() with these cursors.
ShowThread(basenote, respn, size, cursor) ==
  LET at == Least(cursor, size - 1)
      first == set_first_screen_item(at, size).first
  IN /\ thread_basenote' = basenote /\ thread_respnum' = respn /\ top_thread' = size
     /\ thread_index_point' = at
     /\ pc' = IF basenote >= TopBase THEN "undefined"
              ELSE IF first # 0 \/ Base(basenote) = respn THEN "thread" ELSE "abort"

\* The first unread response of a thread, in the order of the thread.
FirstUnread(b) ==
  LET c == Chain(arts, base[b])
      S == {k \in DOMAIN c : arts[c[k]].status = "ART_UNREAD"}
  IN IF S = {} THEN Len(c) ELSE (CHOOSE k \in S : \A l \in S : k <= l) - 1

thread_page ==
  /\ pc = "thread_page"
  /\ LET n == Base(index_point)
         basenote == Which(n)
         size == num_of_responses(arts, base, basenote + 1) + 1
     IN ShowThread(basenote, n, size,
          IF ret # 0 THEN ret
          ELSE IF space_mode THEN FirstUnread(basenote + 1) ELSE size)
  /\ UNCHANGED <<ret, index_point, space_mode>> /\ ListsOnly

ThreadDone(code) == pc' = "thread_returns" /\ ret' = code

Move(n) == ShowThread(thread_basenote, thread_respnum, top_thread, n)

ThreadMove ==
  /\ AtThread
  /\ \E n \in Moves(thread_index_point, top_thread) : Move(n)
  /\ UNCHANGED <<ret, index_point, space_mode>> /\ ListsOnly

\* fixup_thread(n, TRUE): the cursor goes to article n, maybe in another thread.
ThreadSearch ==
  /\ AtThread
  /\ \E n \in Searched :
       /\ ShowThread(Which(n), Base(Which(n)),
                     num_of_responses(arts, base, Which(n) + 1) + 1,
                     which_response(arts, base, n))
       /\ index_point' = IF Which(n) # thread_basenote THEN Which(n) ELSE index_point
  /\ UNCHANGED <<ret, space_mode>> /\ ListsOnly

ThreadRead ==
  /\ AtThread
  /\ \E n \in {Current} \cup Reachable : OpenFrom("thread", n, FALSE)
  /\ UNCHANGED <<lists, index_point, ret, thread, this_resp, space_mode>>

ThreadTab ==
  /\ AtThread
  /\ pc' = "thread_tab_pressed"
  /\ UNCHANGED <<ret, thread, index_point, space_mode>> /\ ListsOnly

\* The rest of this thread only; the group page looks for the next one.
thread_tab_pressed ==
  /\ pc = "thread_tab_pressed"
  /\ space_mode' = TRUE
  /\ LET tail == SelectSeq(Chain(arts, Current), LAMBDA i : arts[i].status # "ART_READ")
     IN IF tail = <<>>
        THEN ThreadDone(GRP_NEXTUNREAD)
             /\ UNCHANGED <<via, respnum, ignore_unavail, filtered_articles>>
        ELSE OpenFrom("thread", Head(tail), TRUE) /\ UNCHANGED ret
  /\ UNCHANGED <<lists, index_point, thread, this_resp>>

\* c, C and the left arrow; the question may be answered by no.
ThreadCatchup ==
  /\ AtThread
  /\ arts' \in {arts, Marking(Thread(Base(thread_basenote)), "ART_READ")}
  /\ \E code \in {GRP_NEXT, GRP_NEXTUNREAD} : ThreadDone(code)
  /\ UNCHANGED <<via, rest, index_point, thread,
                 respnum, this_resp, space_mode, ignore_unavail, filtered_articles>>

\* The cursor moves by the position of the next unread article in its own
\* thread, even if that is not the thread on the screen.
ThreadMarkArtRead ==
  /\ AtThread
  /\ MarkRead({Current})
  /\ LET n == next_unread(arts', base, Current)
     IN IF n = -1 THEN ThreadDone(0) /\ UNCHANGED thread
        ELSE Move(which_response(arts, base, n)) /\ UNCHANGED ret
  /\ UNCHANGED <<via, rest, index_point, respnum,
                 this_resp, space_mode, ignore_unavail, filtered_articles>>

ThreadMarkUnread ==
  /\ AtThread
  /\ MarkWillReturn({Current}) \/ MarkWillReturn(Thread(Base(thread_basenote)))
  /\ UNCHANGED <<pc, via, ret, rest, index_point, thread,
                 respnum, this_resp, space_mode, ignore_unavail, filtered_articles>>

ThreadQuit ==
  /\ AtThread
  /\ \E code \in {0, GRP_QUIT} : ThreadDone(code)
  /\ UNCHANGED <<thread, index_point, space_mode>> /\ ListsOnly

ThreadKey ==
  \/ ThreadMove \/ ThreadSearch \/ ThreadRead \/ ThreadTab \/ ThreadCatchup
  \/ ThreadMarkArtRead \/ ThreadMarkUnread \/ ThreadQuit

\* group_list_thread: what the group page makes of the return code.
thread_returns ==
  /\ pc = "thread_returns"
  /\ LET n == NextUnread(Base(index_point))
     IN CASE ret \in {GRP_QUIT, GRP_RETURN} ->
               Leave(ret) /\ UNCHANGED index_point
          [] ret = GRP_NEXT ->
               ShowGroup(GroupDown, base) /\ ret' = 0
          [] ret = GRP_NEXTUNREAD /\ n >= 0 ->
               index_point' = Which(n) /\ pc' = "thread_page" /\ ret' = 0
          [] ret = GRP_KILLED \/ (ret = GRP_NEXTUNREAD /\ n < 0) ->
               ShowGroup(0, base) /\ ret' = 0
          [] OTHER -> ShowGroup(index_point, base) /\ ret' = 0
  /\ UNCHANGED <<thread, space_mode>> /\ ListsOnly

-----------------------------------------------------------------------------
(***************************************************************************)
(* The pager.  At restart the article is opened; a key that leaves it      *)
(* either opens another one or returns.  Some keys assume that the article *)
(* has a thread in base[]: without one they fail an assertion ("abort"),   *)
(* read base[-1] ("undefined") or search for ever ("spins").               *)
(***************************************************************************)
PagerOnly == UNCHANGED <<via, thread, space_mode, ignore_unavail>>

restart ==
  /\ pc = "restart"
  /\ this_resp' = respnum
  /\ \/ MarkRead({respnum}) /\ pc' = "page" /\ UNCHANGED ret
     \/ MarkRead({respnum}) /\ pc' = "page_returns" /\ ret' = GRP_ARTFAIL
     \/ UNCHANGED arts /\ pc' = "page_returns" /\ ret' = GRP_ARTFAIL
  /\ UNCHANGED <<rest, index_point, respnum, filtered_articles>>
  /\ PagerOnly

AtPage == pc = "page"
ShowPage(n) == pc' = "restart" /\ respnum' = n /\ UNCHANGED ret
PageReturns(code) == pc' = "page_returns" /\ ret' = code /\ UNCHANGED respnum
Fails(how) == pc' = how /\ UNCHANGED <<ret, respnum>>
PageOnly == /\ PagerOnly
            /\ UNCHANGED <<rest, this_resp, filtered_articles>>

ShowOrReturn(n) ==
  IF n = -1 THEN PageReturns(Which(respnum)) ELSE ShowPage(n)

\* Keys that go on: to the next article, thread or unread article; and those
\* that name one: a number, the last one (of which only is kept that it is in
\* a thread), a message-id, the ends of the thread, the parent.
PageForward ==
  /\ AtPage
  /\ \E n \in {NextResponse(respnum), next_thread(arts, base, respnum),
               NextUnread(NextResponse(respnum))} : ShowOrReturn(n)
  /\ UNCHANGED <<arts, index_point>> /\ PageOnly

Parent(n) ==
  LET p == Tree.parent[arts[n].ref]
  IN IF p = NoMsg \/ ~linked THEN {}
     ELSE {i \in {ArticleOf(arts, p)} \ {ART_UNAVAILABLE} : ~arts[i].killed}

PageJump ==
  /\ AtPage
  /\ \E n \in {i \in Arts : ~Hidden(i)} \cup Parent(respnum) \cup {Last(Chain(arts, respnum))}
             \cup (IF Hidden(respnum) THEN {} ELSE Thread(Base(Which(respnum)))) :
       n # respnum /\ ShowPage(n)
  /\ UNCHANGED <<arts, index_point>> /\ PageOnly

\* Backwards; at the very first article respnum itself is returned.
PageBackward ==
  /\ AtPage
  /\ IF Hidden(respnum) THEN Fails("abort")
     ELSE LET n == prev_response(arts, base, respnum)
          IN \/ IF n = -1 THEN PageReturns(respnum) ELSE ShowPage(n)
             \/ prev_unread(arts, base, n) # -1 /\ ShowPage(prev_unread(arts, base, n))
  /\ UNCHANGED <<arts, index_point>> /\ PageOnly

PageSearch ==
  /\ AtPage
  /\ \/ \E n \in Searched : ShowPage(n)
     \/ Hidden(respnum) /\ TopBase > 0 /\ Fails("spins")
  /\ UNCHANGED <<arts, index_point>> /\ PageOnly

\* c and C
PageCatchup ==
  /\ AtPage
  /\ IF Hidden(respnum) THEN Fails("undefined") /\ UNCHANGED arts
     ELSE /\ MarkRead(Thread(Base(Which(respnum))))
          /\ \E code \in {GRP_NEXT, GRP_NEXTUNREAD} : PageReturns(code)
  /\ UNCHANGED index_point /\ PageOnly

PageMarkUnread ==
  /\ AtPage
  /\ \/ MarkWillReturn({respnum}) /\ Fails("page")
     \/ IF Hidden(respnum) THEN Fails("undefined") /\ UNCHANGED arts
        ELSE MarkWillReturn(Thread(Base(Which(respnum)))) /\ Fails("page")
  /\ UNCHANGED index_point /\ PageOnly

\* A mutant: the position in the thread is returned instead of the thread.
ReturnToIndex_Response ==
  IF Hidden(respnum) THEN Fails("abort") /\ UNCHANGED thread_index_point
  ELSE /\ PageReturns(which_response(arts, base, respnum))
       /\ thread_index_point' = IF via = "thread" THEN Which(respnum)
                                ELSE thread_index_point

\* return_to_index: which_response() is wanted by the thread page only.
ReturnToIndex ==
  IF via = "thread" /\ Hidden(respnum)
  THEN Fails("abort") /\ UNCHANGED thread_index_point
  ELSE /\ PageReturns(Which(respnum))
       /\ thread_index_point' = IF via = "thread" THEN which_response(arts, base, respnum)
                                ELSE thread_index_point

PageQuit ==
  /\ AtPage
  /\ ReturnToIndex
  /\ UNCHANGED <<lists, index_point, via, thread_basenote, thread_respnum, top_thread, this_resp,
                 space_mode, ignore_unavail, filtered_articles>>

\* The kill and select keys: the threads change after the way back was found.
PageFilter ==
  /\ AtPage
  /\ ReturnToIndex
  /\ IF pc' = "abort" THEN UNCHANGED lists
     ELSE \E K \in Killable \cup {{}} : FilterArticles(arts, K)
  /\ filtered_articles' = TRUE
  /\ UNCHANGED <<index_point, via, thread_basenote, thread_respnum, top_thread, this_resp,
                 space_mode, ignore_unavail>>

PageKillThd ==
  /\ AtPage
  /\ MarkRead(Thread(respnum))
  /\ LET n == next_unread(arts', base, next_response(arts', base, respnum))
     IN IF n = -1 THEN ReturnToIndex ELSE ShowPage(n) /\ UNCHANGED thread_index_point
  /\ UNCHANGED <<rest, index_point, via, thread_basenote,
                 thread_respnum, top_thread, this_resp, space_mode, ignore_unavail,
                 filtered_articles>>

\* fixup_thread(respnum, FALSE)
Fixup(n) ==
  IF Which(n) # thread_basenote /\ ~Hidden(n)
  THEN /\ thread_basenote' = Which(n) /\ thread_respnum' = Base(Which(n))
       /\ top_thread' = num_of_responses(arts, base, Which(n) + 1) + 1
       /\ index_point' = Which(n)
  ELSE UNCHANGED <<thread_basenote, thread_respnum, top_thread, index_point>>

PageListThd ==
  /\ AtPage
  /\ Fixup(respnum)
  /\ PageReturns(GRP_GOTOTHREAD)
  /\ UNCHANGED <<lists, via, thread_index_point, this_resp, space_mode, ignore_unavail,
                 filtered_articles>>

PageOptionMenu ==
  /\ AtPage /\ PagerOptions /\ pc' = pc
  /\ \/ \E m \in OtherMethods \ {method} :
          Relink(arts, m, TRUE, onlyUnread) /\ UNCHANGED index_point
     \/ /\ Relink(arts, method, TRUE, onlyUnread)
        /\ index_point' = pos_first_unread_thread(arts', base', space_mode)
  /\ UNCHANGED <<ret, respnum, this_resp, filtered_articles>> /\ PagerOnly

\* Q, and T back to the selection page
PageQuitTin ==
  /\ AtPage
  /\ \E code \in {GRP_QUIT, GRP_RETURN} : PageReturns(code)
  /\ UNCHANGED <<arts, index_point>> /\ PageOnly

PageKey ==
  \/ PageForward \/ PageJump \/ PageBackward \/ PageSearch \/ PageCatchup
  \/ PageMarkUnread \/ PageQuit \/ PageFilter \/ PageKillThd \/ PageListThd
  \/ PageOptionMenu \/ PageQuitTin

-----------------------------------------------------------------------------
(* What the callers of show_page() make of its return code. *)

\* Goes on with the cursors as they are, which are used with base[] there.
Stays(next) ==
  pc' = IF \/ index_point >= TopBase
           \/ via = "thread" /\ thread_basenote >= TopBase
        THEN "undefined" ELSE next

Code(caller) ==
  IF ignore_unavail[caller] /\ ret = GRP_ARTFAIL THEN GRP_NEXTUNREAD ELSE ret

to_group ==
  /\ pc = "page_returns" /\ via = "group"
  /\ IF ret >= 0
     THEN ShowGroup(ret, base) /\ ret' = 0 /\ UNCHANGED <<space_mode, ignore_unavail>>
     ELSE /\ space_mode' = PosFirstUnread
          /\ ignore_unavail' = [ignore_unavail EXCEPT !.group = FALSE]
          /\ CASE Code("group") = GRP_ARTFAIL ->
                    Stays("group") /\ ret' = 0 /\ UNCHANGED index_point
               [] Code("group") = GRP_GOTOTHREAD ->
                    /\ IF Hidden(this_resp) THEN pc' = "abort" /\ UNCHANGED ret
                       ELSE /\ Stays("thread_page")
                            /\ ret' = which_response(arts, base, this_resp)
                    /\ UNCHANGED index_point
               [] Code("group") = GRP_NEXT -> ShowGroup(GroupDown, base) /\ ret' = 0
               [] Code("group") = GRP_NEXTUNREAD ->
                    Stays("group_tab_pressed") /\ ret' = 0 /\ UNCHANGED index_point
               [] OTHER -> Leave(ret) /\ UNCHANGED index_point
  /\ respnum' = -1
  /\ UNCHANGED <<via, lists, thread, this_resp, filtered_articles>>

to_thread ==
  /\ pc = "page_returns" /\ via = "thread"
  /\ ignore_unavail' = [ignore_unavail EXCEPT !.thread = FALSE]
  /\ LET n == Code("thread")
     IN CASE n \in {GRP_ARTFAIL, GRP_GOTOTHREAD} ->
               Move(thread_index_point) /\ ret' = 0 /\ UNCHANGED index_point
          [] n \in {GRP_RETURN, GRP_NEXT, GRP_QUIT} ->
               Stays("thread_returns") /\ ret' = n /\ UNCHANGED <<thread, index_point>>
          [] n = GRP_NEXTUNREAD ->
               Stays("thread_tab_pressed") /\ ret' = 0 /\ UNCHANGED <<thread, index_point>>
          [] OTHER ->
               IF filtered_articles
               THEN Stays("thread_returns") /\ ret' = GRP_KILLED /\ UNCHANGED <<thread, index_point>>
               ELSE LET b == IF Hidden(this_resp) THEN thread_basenote ELSE Which(this_resp)
                        other == b # thread_basenote
                    IN /\ ShowThread(b, IF other THEN Base(b) ELSE thread_respnum,
                                     IF other THEN num_of_responses(arts, base, b + 1) + 1
                                     ELSE top_thread, thread_index_point)
                       /\ index_point' = IF other THEN b ELSE index_point
                       /\ ret' = 0
  /\ via' = "group" /\ respnum' = -1
  /\ UNCHANGED <<lists, this_resp, space_mode, filtered_articles>>

Next ==
  \/ EnterGroup \/ GroupKey \/ group_tab_pressed
  \/ thread_page \/ ThreadKey \/ thread_tab_pressed \/ thread_returns
  \/ restart \/ PageKey \/ to_group \/ to_thread

Spec == Init /\ [][Next]_vars

-----------------------------------------------------------------------------
Unread(i) == arts[i].status # "ART_READ"

\* The articles of the threads on the group page.
Displayed == UNION {Thread(base[b]) : b \in DOMAIN base}

(***************************************************************************)
(* Wherever a key is read the cursor is on an item that exists and is on   *)
(* the screen, and the thread page shows the thread that its cursors are   *)
(* about.                                                                  *)
(***************************************************************************)
OnScreen(cur, max) ==
  LET s == set_first_screen_item(cur, max)
  IN s.first <= cur /\ cur < s.last /\ s.last <= max

CursorValid ==
  /\ pc = "group" /\ ~pulled =>
       IF base = <<>> THEN index_point = -1
                     ELSE index_point \in 0..(TopBase - 1) /\ OnScreen(index_point, TopBase)
  /\ pc = "thread" /\ ~pulled =>
       /\ thread_basenote \in 0..(TopBase - 1)
       /\ Base(thread_basenote) = thread_respnum
       /\ top_thread = num_of_responses(arts, base, thread_basenote + 1) + 1
       /\ thread_index_point \in 0..(top_thread - 1)
       /\ OnScreen(thread_index_point, top_thread)

(***************************************************************************)
(* TAB leaves a group only when no article of its page is left unread,     *)
(* whatever was read in whatever order and wherever the cursor is.         *)
(***************************************************************************)
TabLeavesNothing ==
  [][pc = "group_tab_pressed" /\ pc' = "select" => \A i \in Displayed : ~Unread(i)]_vars

(***************************************************************************)
(* The way back from the pager leads to the thread of the article that was *)
(* read last, unless articles were killed; the keys that go back from the  *)
(* first article of all are excepted.                                      *)
(***************************************************************************)
BackToThread ==
  [][pc = "page_returns" /\ pc' \in {"group", "thread"} /\ ret >= 0
       /\ ~filtered_articles /\ ~pulled /\ this_resp # base[1] =>
     IF pc' = "group" THEN index_point' = Which(this_resp)
     ELSE thread_basenote' = Which(this_resp)]_vars

=============================================================================
