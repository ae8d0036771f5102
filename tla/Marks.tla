-------------------------------- MODULE Marks --------------------------------
(***************************************************************************)
(* The marks a reader puts on the articles of a group before acting on     *)
(* them: tags, hot articles, ranges, read and unread (group.c, thread.c,   *)
(* page.c).  An article is an index of arts[]; Threads are the threads as  *)
(* they were built, base is the list base[] of those that are shown.       *)
(***************************************************************************)
EXTENDS Integers, SequencesExt, FiniteSetsExt

CONSTANTS
  Arts,         \* 0..top-1
  Threads,      \* the threads: a sequence of sequences of articles
  PartOf,       \* PartOf[a]: [of, nr, total] of a subject "name [nr/total]",
                \* total 0 when it has another form
  GroupTop,     \* group_top, the number of groups on the selection page
  Patterns,     \* the sets of threads that a selection pattern matches
  MaxKeys       \* bound: keys pressed

ASSUME MarksAssumption ==
  /\ IsFiniteSet(Arts) /\ Arts = 0..(Cardinality(Arts) - 1)
  /\ Threads \in Seq(Seq(Arts) \ {<<>>})
  /\ \A a \in Arts : PartOf[a].total \in Nat

VARIABLES
  arts,                  \* [status, tagged, selected, zombie, inrange]
  base,                  \* the numbers of the threads shown, upwards
  onlyUnread,            \* attribute.show_only_unread
  num_of_tagged_arts, num_of_selected_arts,
  range_active,
  xflag,                 \* the unselected articles were marked read
  strayed,               \* history: an article was tagged while not in base[]
  keys                   \* bound

marks == <<arts, num_of_tagged_arts, num_of_selected_arts>>
mvars == <<marks, base, onlyUnread, range_active, xflag, strayed, keys>>

Unread(r) == r.status \in {"ART_UNREAD", "ART_WILL_RETURN"}
Top == [i \in 1..Cardinality(Arts) |-> i - 1]
Thread(b) == Threads[base[b]]
InBase == UNION {ToSet(Thread(b)) : b \in DOMAIN base}
First(b) == Head(Thread(b))

NewArt == [status |-> "ART_UNREAD", tagged |-> 0, selected |-> FALSE,
           zombie |-> FALSE, inrange |-> FALSE]

M == [arts |-> arts, tags |-> num_of_tagged_arts, hot |-> num_of_selected_arts]
Set(m) ==
  /\ arts' = m.arts /\ num_of_tagged_arts' = m.tags /\ num_of_selected_arts' = m.hot

Over(Op(_, _), seq, m) == FoldLeft(LAMBDA s, a : Op(s, a), m, seq)

-----------------------------------------------------------------------------
(* newsrc.c: what a change of the status does to the count of hot articles *)

art_mark_read(m, a) ==
  IF ~Unread(m.arts[a]) THEN m
  ELSE [m EXCEPT !.arts[a].status = "ART_READ",
                 !.hot = IF m.arts[a].selected /\ @ # 0 THEN @ - 1 ELSE @]

MarkUnreadAs(m, a, status) ==
  IF Unread(m.arts[a]) THEN m
  ELSE [m EXCEPT !.arts[a].status = status,
                 !.hot = IF m.arts[a].selected THEN @ + 1 ELSE @]

art_mark_unread(m, a) == MarkUnreadAs(m, a, "ART_UNREAD")
art_mark_will_return(m, a) == MarkUnreadAs(m, a, "ART_WILL_RETURN")

-----------------------------------------------------------------------------
(* Tags *)

\* Tags above tag move down by one, on the threads that are shown.
decr_tagged(m, tag) ==
  [m EXCEPT !.arts =
     [a \in Arts |-> IF a \in InBase /\ m.arts[a].tagged > tag
                     THEN [m.arts[a] EXCEPT !.tagged = @ - 1] ELSE m.arts[a]]]

Untag(m, a) ==
  IF m.arts[a].tagged = 0 THEN m
  ELSE [decr_tagged(m, m.arts[a].tagged) EXCEPT !.arts[a].tagged = 0, !.tags = @ - 1]

Tag(m, a) ==
  IF m.arts[a].tagged # 0 THEN m
  ELSE [m EXCEPT !.arts[a].tagged = m.tags + 1, !.tags = @ + 1]

untag_all_articles(m) ==
  [m EXCEPT !.arts = [a \in Arts |-> [m.arts[a] EXCEPT !.tagged = 0]], !.tags = 0]

\* The parts of the posting that thread b starts a part of: for each number
\* the first thread that has it.
get_multiparts(b) ==
  LET p == PartOf[First(b)]
      having(n) == {c \in DOMAIN base : LET q == PartOf[First(c)]
                                        IN q.of = p.of /\ q.nr = n}
  IN IF \E n \in 1..p.total : having(n) = {} THEN <<>>
     ELSE [n \in 1..p.total |-> First(Min(having(n)))]

\* A mutant: parts that have a tag already are not untagged first.
tag_multipart_Again(m, b) ==
  LET parts == get_multiparts(b)
      tag(s, a) == [s EXCEPT !.arts[a].tagged = s.tags + 1, !.tags = @ + 1]
  IN FoldLeft(tag, m, parts)

tag_multipart(m, b) ==
  LET parts == get_multiparts(b)
  IN Over(Tag, parts, Over(Untag, parts, m))

TagThread(m, b) ==
  LET t == Thread(b)
  IN IF \A a \in ToSet(t) : m.arts[a].tagged # 0
     THEN Over(Untag, t, m) ELSE Over(Tag, t, m)

TagArticle(m, a) == IF m.arts[a].tagged # 0 THEN Untag(m, a) ELSE Tag(m, a)

-----------------------------------------------------------------------------
(* Hot articles.  The keys change the marks and not the count. *)

Select(m, seq, flag) ==
  [m EXCEPT !.arts = [a \in Arts |-> IF a \in ToSet(seq)
                                     THEN [m.arts[a] EXCEPT !.selected = flag]
                                     ELSE m.arts[a]]]

New(m, b) == {a \in ToSet(Thread(b)) : m.arts[a].status = "ART_UNREAD"}
HotNew(m, b) == {a \in New(m, b) : m.arts[a].selected}

ToggleThdSel(m, b) == Select(m, Thread(b), HotNew(m, b) # New(m, b))

ReverseSel(m, seq) ==
  [m EXCEPT !.arts = [a \in Arts |-> IF a \in ToSet(seq)
                                     THEN [m.arts[a] EXCEPT !.selected = ~@]
                                     ELSE m.arts[a]]]

UndoSel(m) ==
  [m EXCEPT !.arts = [a \in Arts |-> [m.arts[a] EXCEPT !.selected = FALSE,
                                                       !.zombie = FALSE]]]

SelThdIfUnreadSelected(m) ==
  LET step(s, b) == IF HotNew(s, b) \in {{}, New(s, b)} THEN s
                    ELSE Select(s, Thread(b), TRUE)
  IN FoldLeft(step, m, [b \in DOMAIN base |-> b])

MarkUnselArtRead(m) ==
  LET step(s, a) ==
        IF s.arts[a].status = "ART_UNREAD" /\ ~s.arts[a].selected
        THEN [art_mark_read(s, a) EXCEPT !.arts[a].zombie = TRUE] ELSE s
  IN FoldLeft(step, m, Top)

UndoAutoSelect(m) ==
  LET step(s, a) ==
        IF s.arts[a].status = "ART_READ" /\ s.arts[a].zombie
        THEN [art_mark_unread(s, a) EXCEPT !.arts[a].zombie = FALSE] ELSE s
  IN FoldLeft(step, m, Top)

-----------------------------------------------------------------------------
(* Ranges *)

\* Every thread that is shown but the last one: iNumMax-1 is not reached.
vDelRange == UNION {ToSet(Thread(b)) : b \in 1..(Len(base) - 1)}

InRange(lo, hi) == UNION {ToSet(Thread(b)) : b \in lo..hi}

bSetRange(m, lo, hi) ==
  [m EXCEPT !.arts =
     [a \in Arts |-> [m.arts[a] EXCEPT !.inrange = \/ a \in InRange(lo, hi)
                                                   \/ @ /\ a \notin vDelRange]]]

\* The range of the thread page counts its articles from 0 and sets no
\* range_active; group_top is taken for the number of articles to clear.
ThreadRange(m, b, lo, hi) ==
  LET t == Thread(b)
  IN [m EXCEPT !.arts =
        [a \in Arts |-> [m.arts[a] EXCEPT !.inrange =
           \/ \E k \in DOMAIN t : t[k] = a /\ k - 1 \in lo..hi
           \/ @ /\ a >= GroupTop - 1]]]

MarkRange(m, seq, Op(_, _)) ==
  LET step(s, a) == IF s.arts[a].inrange
                    THEN [Op(s, a) EXCEPT !.arts[a].inrange = FALSE] ELSE s
  IN FoldLeft(step, m, seq)

\* On the base articles only; the others of their threads leave the range.
MarkBaseRange(m) ==
  LET hit == {b \in DOMAIN base : m.arts[First(b)].inrange}
      done == MarkRange(m, [b \in DOMAIN base |-> First(b)], art_mark_will_return)
      out == UNION {ToSet(Thread(b)) : b \in hit}
  IN [done EXCEPT !.arts = [a \in Arts |-> IF a \in out
                                           THEN [done.arts[a] EXCEPT !.inrange = FALSE]
                                           ELSE done.arts[a]]]

-----------------------------------------------------------------------------
find_base(m, only) ==
  LET add(shown, t) ==
        IF only => \E a \in ToSet(Threads[t]) : m.arts[a].status = "ART_UNREAD"
        THEN Append(shown, t) ELSE shown
  IN FoldLeft(add, <<>>, [t \in DOMAIN Threads |-> t])

MInit ==
  /\ arts = [a \in Arts |-> NewArt]
  /\ onlyUnread \in BOOLEAN
  /\ num_of_tagged_arts = 0
  /\ num_of_selected_arts = 0
  /\ base = find_base(M, onlyUnread)
  /\ range_active = FALSE
  /\ xflag = FALSE
  /\ strayed = FALSE
  /\ keys = 0

\* A key that leaves base[] as it is.
Key(m) ==
  /\ keys < MaxKeys
  /\ Set(m)
  /\ keys' = keys + 1
  /\ strayed' = (strayed \/ \E a \in Arts \ InBase : m.arts[a].tagged # 0)
  /\ UNCHANGED <<base, onlyUnread>>

Plain(m) == Key(m) /\ UNCHANGED <<range_active, xflag>>

GroupTag == \E b \in DOMAIN base : Plain(TagThread(M, b))
GroupTagParts == \E b \in DOMAIN base : Plain(tag_multipart(M, b))
ArticleTag == \E a \in InBase : Plain(TagArticle(M, a))  \* thread page and pager
UntagAll == base # <<>> /\ Plain(untag_all_articles(M))

GroupSelThd == \E b \in DOMAIN base : Plain(Select(M, Thread(b), TRUE))
GroupToggleThdSel == \E b \in DOMAIN base : Plain(ToggleThdSel(M, b))
GroupReverseSel == Plain(ReverseSel(M, Top))
GroupSelPattern ==
  \E p \in Patterns : Plain(Select(M, FlattenSeq([b \in DOMAIN base |->
    IF base[b] \in p THEN Thread(b) ELSE <<>>]), TRUE))
GroupSelIfSelected == Plain(SelThdIfUnreadSelected(M))
GroupUndoSel ==
  /\ Key(UndoSel(M))
  /\ xflag' = FALSE
  /\ UNCHANGED range_active
ThreadSel ==
  \E b \in DOMAIN base :
    \/ Plain(ReverseSel(M, Thread(b)))
    \/ Plain(Select(M, Thread(b), FALSE))
    \/ \E a \in ToSet(Thread(b)) : Plain(Select(M, <<a>>, ~arts[a].selected))

ReadArticle == \E a \in InBase : Plain(art_mark_read(M, a))
ReturnArticle == \E a \in InBase : Plain(art_mark_will_return(M, a))

SetRange ==
  \E lo, hi \in DOMAIN base :
    /\ hi > 1
    /\ Key(bSetRange(M, lo, hi))
    /\ range_active' = TRUE
    /\ UNCHANGED xflag

SetThreadRange ==
  \E b \in DOMAIN base : \E hi \in 1..Len(Thread(b)), lo \in 0..Len(Thread(b)) :
    Plain(ThreadRange(M, b, lo, hi))

\* The key returns before it clears range_active when nothing is left unread.
MarkThdRead ==
  /\ base # <<>>
  /\ IF range_active
     THEN LET m == MarkRange(M, Top, art_mark_read)
              left == \E a \in InBase : Unread(m.arts[a])
          IN Key(m) /\ range_active' = ~left
     ELSE /\ \E b \in DOMAIN base : Key(Over(art_mark_read, Thread(b), M))
          /\ UNCHANGED range_active
  /\ UNCHANGED xflag

MarkArtUnread ==
  /\ base # <<>>
  /\ IF range_active THEN Key(MarkBaseRange(M))
     ELSE \E b \in DOMAIN base : Key(art_mark_will_return(M, First(b)))
  /\ range_active' = FALSE
  /\ UNCHANGED xflag

MarkThdUnread ==
  /\ base # <<>>
  /\ IF range_active THEN Key(MarkRange(M, Top, art_mark_will_return))
     ELSE \E b \in DOMAIN base : Key(Over(art_mark_will_return, Thread(b), M))
  /\ range_active' = FALSE
  /\ UNCHANGED xflag

\* A key that builds base[] again.
Rebuild(m, only) ==
  /\ keys < MaxKeys
  /\ Set(m)
  /\ keys' = keys + 1
  /\ onlyUnread' = only
  /\ base' = find_base(m, only)
  /\ strayed' = (strayed \/ \E a \in Arts : m.arts[a].tagged # 0
                                /\ a \notin UNION {ToSet(Threads[t]) : t \in ToSet(base')})
  /\ UNCHANGED range_active

ToggleReadUnread == Rebuild(M, ~onlyUnread) /\ UNCHANGED xflag

GroupMarkUnselArtRead ==
  LET m == IF xflag THEN UndoAutoSelect(M) ELSE MarkUnselArtRead(M)
  IN /\ IF onlyUnread THEN Rebuild(m, onlyUnread)
        ELSE Key(m) /\ UNCHANGED range_active
     /\ xflag' = ~xflag

GroupDoAutoSel ==
  /\ IF onlyUnread THEN Rebuild(UndoAutoSelect(M), onlyUnread)
     ELSE Key(UndoAutoSelect(M)) /\ UNCHANGED range_active
  /\ xflag' = FALSE

MNext ==
  \/ GroupTag \/ GroupTagParts \/ ArticleTag \/ UntagAll
  \/ GroupSelThd \/ GroupToggleThdSel \/ GroupReverseSel \/ GroupSelPattern
  \/ GroupSelIfSelected \/ GroupUndoSel \/ ThreadSel
  \/ ReadArticle \/ ReturnArticle
  \/ SetRange \/ SetThreadRange \/ MarkThdRead \/ MarkArtUnread \/ MarkThdUnread
  \/ ToggleReadUnread \/ GroupMarkUnselArtRead \/ GroupDoAutoSel

-----------------------------------------------------------------------------
Tagged == {a \in Arts : arts[a].tagged # 0}

\* The tags are the numbers from 1 to num_of_tagged_arts, each once, whatever
\* is tagged and untagged in threads, parts and single articles: the loop of
\* feed_articles() over these numbers (feed.c) finds every tagged article.
\* As long as no tagged article left base[], which decr_tagged() walks.
TagsInOrder ==
  ~strayed =>
    /\ Cardinality(Tagged) = num_of_tagged_arts
    /\ {arts[a].tagged : a \in Tagged} = 1..num_of_tagged_arts
=============================================================================
