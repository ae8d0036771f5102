---------------------------- MODULE NewsrcSession ----------------------------
(***************************************************************************)
(* One user's news session: the newsgroups' read/unread state in memory,   *)
(* the .newsrc file it is loaded from and saved to, the group that is      *)
(* being read, and the news server whose articles arrive and expire.       *)
(*                                                                         *)
(* tin is a single thread that runs one command at a time; the server and  *)
(* the loss of the process (Die) interleave with the commands.             *)
(***************************************************************************)
EXTENDS NewsrcBitmap

CONSTANTS
  Groups,        \* the newsgroups of the active file
  MaxArt,        \* bound: the highest article number the server assigns
  NoGroup,       \* value of glob_group outside a group
  Xref,          \* Xref: header, <<g, a>> -> its set of <<group, number>> pairs
  StripNewsrc,   \* tinrc.strip_newsrc: drop unsubscribed groups from the file
  ShowOnlyUnread,  \* tinrc.show_only_unread_groups
  GroupMayFail   \* may a GROUP command be refused?

Arts == 1..MaxArt

ASSUME SessionAssumption ==
  /\ MaxArt \in Nat
  /\ NoGroup \notin Groups
  /\ Xref \in [Groups \X Arts -> SUBSET (Groups \X Arts)]
  \* an article has one number in a group
  /\ \A g \in Groups : \A a, b \in Arts : <<g, b>> \in Xref[<<g, a>>] => b = a
  /\ StripNewsrc \in BOOLEAN
  /\ ShowOnlyUnread \in BOOLEAN
  /\ GroupMayFail \in BOOLEAN

VARIABLES
  spool,    \* spool[g]: the articles the server has in g
  high,     \* high[g]: the highest number the server ever gave out in g
  active,   \* active[g]: count, xmin, xmax and subscribed of struct t_group
  newsrc,   \* newsrc[g]: struct t_newsrc of g
  file,     \* file[g]: g's line in the .newsrc file
  reading,  \* the group whose articles are in arts[], or NoGroup
  arts      \* arts[a].status and .zombie of the loaded articles

vars == <<spool, high, active, newsrc, file, reading, arts>>

ART_READ == 0
ART_UNREAD == 1
ART_WILL_RETURN == 2

Status == {ART_READ, ART_UNREAD, ART_WILL_RETURN}
Lines == [listed : BOOLEAN, sub : BOOLEAN, seq : SUBSET (Arts \X Arts)]

\* The types of the state, the counters of struct t_newsrc included.
TypeOK ==
  /\ spool \in [Groups -> SUBSET Arts]
  /\ high \in [Groups -> 0..MaxArt]
  /\ active \in [Groups -> GroupRecords]
  /\ newsrc \in [Groups -> NewsrcRecords]
  /\ file \in [Groups -> Lines]
  /\ reading \in Groups \cup {NoGroup}
  /\ arts \in [DOMAIN arts -> [status : Status, zombie : BOOLEAN]]
  /\ DOMAIN arts \subseteq Arts

-----------------------------------------------------------------------------
(* What the server says about a group *)

ServerMin(g) == IF spool[g] = {} THEN high[g] + 1 ELSE Lowest(spool[g])

\* "211 count first last".  A server may answer the estimate last-first+1.
GroupReplies(g) ==
  [count : {Cardinality(spool[g]), high[g] - ServerMin(g) + 1},
   xmin : {ServerMin(g)}, xmax : {high[g]}]

\* The values vGrpGetArtInfo() leaves in the group: the answer, or 0 1 0 for
\* "no such group", or what was there when the command was refused.
ArtInfo(g) ==
  GroupReplies(g) \cup
  IF GroupMayFail
  THEN {[count |-> 0, xmin |-> 1, xmax |-> 0],
        [count |-> active[g].count, xmin |-> active[g].xmin, xmax |-> active[g].xmax]}
  ELSE {}

WithInfo(grp, info) ==
  [grp EXCEPT !.count = info.count, !.xmin = info.xmin, !.xmax = info.xmax]

\* vGet1GrpArtInfo() and the loop body of reread_active_after_posting(): the
\* group's newsrc record once the counts are known.
Get1GrpArtInfo(old, grp, n) ==
  LET clamped == IF n.num_unread > grp.count
                 THEN [n EXCEPT !.num_unread = grp.count] ELSE n
  IN  IF grp.xmin # old.xmin \/ grp.xmax # old.xmax
      THEN ExpandBitmap(grp, clamped, 0, 0) ELSE clamped

-----------------------------------------------------------------------------
(* The .newsrc file *)

\* iWriteNewsrcLine() for the line l of group g, whose bitmap is n.
WrittenLine(g, n, l) ==
  CASE ~l.listed -> l
    [] l.listed /\ n.present /\ (active[g].subscribed \/ ~StripNewsrc) ->
         [listed |-> TRUE, sub |-> active[g].subscribed,
          seq |-> PrintBitmapSeq(active[g], n)]
    [] OTHER -> [l EXCEPT !.listed = l.sub \/ ~StripNewsrc]

\* Mutant: the new file is not renamed into place.
NothingWritten(nrc, lines) == lines

\* vWriteNewsrc(): a file of which nothing is left is not renamed into place.
WrittenFile(nrc, lines) ==
  LET new == [g \in Groups |-> WrittenLine(g, nrc[g], lines[g])]
  IN  IF \E g \in Groups : new[g].listed THEN new ELSE lines

\* read_newsrc(): only subscribed lines are looked at.
LoadActive(act, lines) ==
  [g \in Groups |-> IF lines[g].listed /\ lines[g].sub
                    THEN [act[g] EXCEPT !.subscribed = TRUE] ELSE act[g]]
LoadNewsrc(act, nrc, lines) ==
  [g \in Groups |-> IF lines[g].listed /\ lines[g].sub
                    THEN ParseBitmapSeq(act[g], lines[g].seq) ELSE nrc[g]]

\* active_add(): a group as the active file (count unknown) describes it.
FreshActive(g) ==
  [count |-> -1, xmin |-> ServerMin(g), xmax |-> high[g], subscribed |-> FALSE]

\* main(): read the active file, then .newsrc.
StartUp(lines) ==
  LET act == [g \in Groups |-> FreshActive(g)]
      nrc == [g \in Groups |-> VSetDefaultBitmap(act[g])]
  IN  /\ active' = LoadActive(act, lines)
      /\ newsrc' = LoadNewsrc(act, nrc, lines)
      /\ file' = lines
      /\ reading' = NoGroup
      /\ arts' = <<>>
      /\ UNCHANGED <<spool, high>>

-----------------------------------------------------------------------------
(* Marking articles of the group being read *)

Unread(a) == arts[a].status \in {ART_UNREAD, ART_WILL_RETURN}

\* The Xref: entries for group h of the articles in S.
CrossPosts(h, g, S) == {x \in Arts : \E a \in S : <<h, x>> \in Xref[<<g, a>>]}

\* Mutant: the last article of the group is not looked up.
LookedUpBelow(h, n, g, S) ==
  IF n.xbitlen = 0 THEN {}
  ELSE {x \in CrossPosts(h, g, S) : n.xmin <= x /\ x < active[h].xmax}

\* Entries art_mark_xref_read() looks up: it compares with the group's xmax,
\* not with the end of the bitmap.
LookedUp(h, n, g, S) ==
  IF n.xbitlen = 0 THEN {}
  ELSE {x \in CrossPosts(h, g, S) : n.xmin <= x /\ x <= active[h].xmax}

\* Entries it looks up behind the end of the bitmap: whatever is in memory
\* there decides whether the article counts as unread.
BehindBitmap(nrc, g, S) ==
  {p \in Groups \X Arts : /\ p[2] \in LookedUp(p[1], nrc[p[1]], g, S)
                         /\ p[2] > nrc[p[1]].xmax}

\* Mutant: a crosspost is counted down whether or not its bit is set.
MarkReadTwice(nrc, g, marked, unread, stray) ==
  [h \in Groups |->
     LET n   == IF h = g THEN [nrc[g] EXCEPT !.xbitmap = @ \ marked] ELSE nrc[h]
         hit == LookedUp(h, n, g, unread)
     IN  [n EXCEPT !.xbitmap = @ \ hit,
                   !.num_unread = CountDownPositive(@, Cardinality(hit))]]

\* Mutant: an article that is read already is counted down too.
MarkReadAgain(nrc, g, marked, unread, stray) ==
  [nrc EXCEPT ![g].xbitmap = @ \ marked,
              ![g].num_unread = CountDown(@, Cardinality(marked))]

\* art_mark_read() of every article of marked, the ones in unread having
\* status ART_UNREAD or ART_WILL_RETURN; stray is the part of BehindBitmap
\* that happens to look unread.
MarkRead(nrc, g, marked, unread, stray) ==
  [h \in Groups |->
     LET n   == IF h = g THEN [nrc[g] EXCEPT !.xbitmap = @ \ marked] ELSE nrc[h]
         hit == LookedUp(h, n, g, unread) \cap n.xbitmap
         num == CountDownPositive(n.num_unread,
                  Cardinality(hit) + Cardinality({p \in stray : p[1] = h}))
     IN  [n EXCEPT !.xbitmap = @ \ hit,
                   !.num_unread = IF h = g THEN CountDown(num, Cardinality(unread))
                                  ELSE num]]

\* art_mark_read() applied to the articles of S in the group page or pager.
MarkArtsRead(S) ==
  LET unread == {a \in S : Unread(a)}
  IN  \E stray \in SUBSET BehindBitmap(newsrc, reading, unread) :
        newsrc' = MarkRead(newsrc, reading, S, unread, stray)

\* An article key, or the whole thread: art_mark_read(), thd_mark_read().
ReadArts(S) ==
  /\ reading # NoGroup
  /\ S # {} /\ S \subseteq DOMAIN arts
  /\ MarkArtsRead(S)
  /\ arts' = [a \in DOMAIN arts |->
                IF a \in S THEN [arts[a] EXCEPT !.status = ART_READ] ELSE arts[a]]
  /\ UNCHANGED <<spool, high, active, file, reading>>

\* art_mark_will_return(), thd_mark_unread()
UnreadArtsAgain(S) ==
  LET back == {a \in S : arts[a].status = ART_READ}
  IN  /\ reading # NoGroup
      /\ S # {} /\ S \subseteq DOMAIN arts
      /\ newsrc' = [newsrc EXCEPT
                      ![reading].num_unread = @ + Cardinality(back),
                      ![reading].xbitmap = @ \cup S]
      /\ arts' = [a \in DOMAIN arts |->
                    IF a \in back THEN [arts[a] EXCEPT !.status = ART_WILL_RETURN]
                    ELSE arts[a]]
      /\ UNCHANGED <<spool, high, active, file, reading>>

\* 'X' in the group page: read all unread articles that are not selected.
MarkUnselectedRead(S) ==
  /\ reading # NoGroup
  /\ S # {} /\ S \subseteq {a \in DOMAIN arts : arts[a].status = ART_UNREAD}
  /\ \A a \in DOMAIN arts : ~arts[a].zombie
  /\ MarkArtsRead(S)
  /\ arts' = [a \in DOMAIN arts |->
                IF a \in S THEN [status |-> ART_READ, zombie |-> TRUE] ELSE arts[a]]
  /\ UNCHANGED <<spool, high, active, file, reading>>

\* Mutant: the articles are not counted.
ArtMarkUnreadUncounted(grp, old, back) == [old EXCEPT !.xbitmap = @ \cup back]

\* art_mark_unread() of the read articles in back
ArtMarkUnread(grp, old, back) ==
  LET n == [old EXCEPT !.num_unread = old.num_unread + Cardinality(back)]
  IN  IF \A a \in back : a >= n.xmin
      THEN [n EXCEPT !.xbitmap = n.xbitmap \cup back]
      ELSE ExpandBitmap(grp, n, Lowest(back), 0)

\* '+' or a second 'X': art_mark_unread() of the zombies.
UndoAutoSelect ==
  LET back == {a \in DOMAIN arts : arts[a].status = ART_READ /\ arts[a].zombie}
  IN  /\ reading # NoGroup
      /\ back # {}
      /\ newsrc' = [newsrc EXCEPT ![reading] = ArtMarkUnread(active[reading], @, back)]
      /\ arts' = [a \in DOMAIN arts |->
                    IF a \in back THEN [status |-> ART_UNREAD, zombie |-> FALSE]
                    ELSE arts[a]]
      /\ UNCHANGED <<spool, high, active, file, reading>>

-----------------------------------------------------------------------------
(* Entering and leaving a group *)

\* setup_hard_base(): LISTGROUP gives the articles; a server without it only
\* the range of the GROUP answer.
HardBase(g) == IF spool[g] = {} THEN {{}} ELSE {spool[g], ServerMin(g)..high[g]}

Based(g, base) ==
  IF base = {} THEN active[g]
  ELSE [active[g] EXCEPT !.xmax = Larger(@, Highest(base))]

\* Mutant: the bitmap is not expanded to the articles of the group.
NewsrcNotExpanded(g, base, unset) == newsrc[g]

BasedNewsrc(g, base, unset) ==
  IF base = {} THEN newsrc[g]
  ELSE ExpandBitmap(Based(g, base), newsrc[g], Lowest(base), unset)

\* iReadNovFile(): the group ends at the last article of base.
LastBase(g, base) == IF base = {} THEN active[g].xmin - 1 ELSE Highest(base)
Indexed(g, base) ==
  [Based(g, base) EXCEPT !.xmax = IF @ > LastBase(g, base) THEN LastBase(g, base) ELSE @]

\* index_group(): got are the articles whose headers could be read, expired
\* those a cached overview file still lists though the server has them no more.
\* The expired ones are marked read, their crossposts too.
EnterGroup(g) ==
  /\ reading = NoGroup
  /\ \E base \in HardBase(g) : \E got \in SUBSET base :
       LET grp == Indexed(g, base)
           n   == BasedNewsrc(g, base, 0)
       IN  /\ \E expired \in SUBSET ((grp.xmin..grp.xmax) \ base) :
                LET parsed == [newsrc EXCEPT ![g] =
                                 ParseUnreadArts(grp, n, got \cup expired)]
                    gone   == UnreadArts(n, expired)
                IN  \E stray \in SUBSET BehindBitmap(parsed, g, gone) :
                      newsrc' = MarkRead(parsed, g, expired, gone, stray)
           /\ active' = [active EXCEPT ![g] = grp]
           /\ arts' = [a \in got |->
                         [status |-> IF a \in UnreadArts(n, got)
                                     THEN ART_UNREAD ELSE ART_READ,
                          zombie |-> FALSE]]
  /\ reading' = g
  /\ UNCHANGED <<spool, high, file>>

\* The user interrupts index_group() while the overview is read.
AbortEnter(g) ==
  /\ reading = NoGroup
  /\ \E base \in HardBase(g) :
       /\ \E unset \in UnsetBits(Based(g, base), newsrc[g],
                                 IF base = {} THEN 0 ELSE Lowest(base)) :
            newsrc' = [newsrc EXCEPT ![g] = BasedNewsrc(g, base, unset)]
       /\ active' = [active EXCEPT ![g] = Indexed(g, base)]
  /\ UNCHANGED <<spool, high, file, reading, arts>>

LeaveGroup ==
  /\ reading # NoGroup
  /\ reading' = NoGroup
  /\ arts' = <<>>
  /\ UNCHANGED <<spool, high, active, newsrc, file>>

\* Catchup in the group page: grp_mark_read(group, arts), then leave.
CatchupGroup ==
  LET unread == {a \in DOMAIN arts : Unread(a)}
  IN  /\ reading # NoGroup
      /\ \E stray \in SUBSET BehindBitmap(newsrc, reading, unread) :
           LET done == MarkRead(newsrc, reading, DOMAIN arts, unread, stray)
           IN  newsrc' = [done EXCEPT ![reading] = ScrubBitmap(active[reading], @)]
      /\ reading' = NoGroup
      /\ arts' = <<>>
      /\ UNCHANGED <<spool, high, active, file>>

-----------------------------------------------------------------------------
(* Commands of the group selection page *)

\* catchup_group(): grp_mark_read(group, NULL)
CatchupSelected(g) ==
  /\ reading = NoGroup
  /\ newsrc' = [newsrc EXCEPT ![g] = ScrubBitmap(active[g], @)]
  /\ UNCHANGED <<spool, high, active, file, reading, arts>>

\* 'Z': grp_mark_unread()
MarkGroupUnread(g) ==
  /\ reading = NoGroup
  /\ \E info \in ArtInfo(g) :
       /\ active' = [active EXCEPT ![g] = WithInfo(@, info)]
       /\ newsrc' = [newsrc EXCEPT ![g] = GrpMarkUnread(active'[g], @)]
  /\ UNCHANGED <<spool, high, file, reading, arts>>

\* subscribe(): .newsrc is rewritten at once.  A line found in it is loaded;
\* a group without a line gets one.
Subscribed(g) ==
  IF file[g].listed
  THEN {[grp |-> [active[g] EXCEPT !.subscribed = TRUE],
         nrc |-> ParseBitmapSeq(active[g], file[g].seq),
         line |-> [file[g] EXCEPT !.sub = TRUE]]}
  ELSE {LET grp == WithInfo(active[g], info)
            n   == Get1GrpArtInfo(active[g], grp, newsrc[g])
        IN  [grp |-> [grp EXCEPT !.subscribed = TRUE],
             nrc |-> n,
             line |-> [listed |-> TRUE, sub |-> TRUE, seq |-> PrintBitmapSeq(grp, n)]]
        : info \in ArtInfo(g)}

Subscribe(g) ==
  /\ reading = NoGroup
  /\ ~active[g].subscribed
  /\ \E s \in Subscribed(g) :
       /\ active' = [active EXCEPT ![g] = s.grp]
       /\ newsrc' = [newsrc EXCEPT ![g] = s.nrc]
       /\ file' = [file EXCEPT ![g] = s.line]
  /\ UNCHANGED <<spool, high, reading, arts>>

\* subscribe_pattern() for a group that is not displayed: subscribe(), then
\* grp_mark_unread() for its counts.
SubscribePattern(g) ==
  /\ reading = NoGroup
  /\ ~active[g].subscribed
  /\ \E s \in Subscribed(g) : \E info \in ArtInfo(g) :
       /\ active' = [active EXCEPT ![g] = WithInfo(s.grp, info)]
       /\ newsrc' = [newsrc EXCEPT ![g] = GrpMarkUnread(active'[g], s.nrc)]
       /\ file' = [file EXCEPT ![g] = s.line]
  /\ UNCHANGED <<spool, high, reading, arts>>

\* Mutant: .newsrc is not rewritten.
UnsubscribeInMemory(g) ==
  /\ reading = NoGroup
  /\ active[g].subscribed
  /\ active' = [active EXCEPT ![g].subscribed = FALSE]
  /\ UNCHANGED <<spool, high, newsrc, file, reading, arts>>

Unsubscribe(g) ==
  /\ reading = NoGroup
  /\ active[g].subscribed
  /\ active' = [active EXCEPT ![g].subscribed = FALSE]
  /\ file' = [file EXCEPT ![g] = [listed |-> TRUE, sub |-> FALSE,
                                  seq |-> IF @.listed THEN @.seq ELSE {}]]
  /\ UNCHANGED <<spool, high, newsrc, reading, arts>>

\* reread_active_after_posting() for a group that was posted to
RereadAfterPosting(g) ==
  /\ reading = NoGroup
  /\ active[g].subscribed
  /\ \E info \in ArtInfo(g) :
       LET grp == WithInfo(active[g], info)
       IN  /\ active' = [active EXCEPT ![g] = grp]
           /\ newsrc' = [newsrc EXCEPT ![g] = Get1GrpArtInfo(active[g], grp, @)]
  /\ UNCHANGED <<spool, high, file, reading, arts>>

\* Mutant: only the low mark goes up.
RereadLow(g) == [active[g] EXCEPT !.xmin = Larger(@, ServerMin(g))]

\* read_active_file() for a group that is already known: marks only go up.
RereadActive(g) ==
  LET old == active[g]
      new == FreshActive(g)
  IN  [old EXCEPT !.xmax = Larger(@, new.xmax), !.xmin = Larger(@, new.xmin),
                  !.count = IF new.xmax > old.xmax \/ new.xmin > old.xmin
                            THEN new.count ELSE @]

\* resync_active_file(): save, reread the active file, load .newsrc again.
Resync(nrc, lines) ==
  LET act == [g \in Groups |-> RereadActive(g)]
  IN  /\ file' = WrittenFile(nrc, lines)
      /\ active' = LoadActive(act, file')
      /\ newsrc' = LoadNewsrc(act, nrc, file')
      /\ UNCHANGED <<spool, high, reading, arts>>

ResyncActive == reading = NoGroup /\ Resync(newsrc, file)

\* Mutant: the lines of .newsrc keep their marks.
ResetInMemory ==
  /\ reading = NoGroup
  /\ Resync([g \in Groups |-> VSetDefaultBitmap(active[g])], file)

\* 'R': reset_newsrc() empties the lines of .newsrc and the bitmaps of the
\* displayed groups, then the active file is resynced.  toggle_my_groups()
\* displays the subscribed groups, or those of them that have unread articles.
ResetNewsrc ==
  /\ reading = NoGroup
  /\ \E displayed \in SUBSET Groups :
       /\ \A g \in Groups : /\ active[g].subscribed
                            /\ ShowOnlyUnread => newsrc[g].num_unread # 0
                            => g \in displayed
       /\ Resync([g \in Groups |-> IF g \in displayed THEN VSetDefaultBitmap(active[g])
                                   ELSE newsrc[g]],
                 [g \in Groups |-> [file[g] EXCEPT !.seq = {}]])

-----------------------------------------------------------------------------
(* The end of the session, and the server *)

\* tin_done() saves .newsrc; the next session starts from it.
Quit == StartUp(WrittenFile(newsrc, file))

\* The process is lost: nothing is saved.
Die == StartUp(file)

Arrive(g) ==
  /\ high[g] < MaxArt
  /\ high' = [high EXCEPT ![g] = @ + 1]
  /\ spool' = [spool EXCEPT ![g] = @ \cup {high[g] + 1}]
  /\ UNCHANGED <<active, newsrc, file, reading, arts>>

Expire(g, a) ==
  /\ a \in spool[g]
  /\ spool' = [spool EXCEPT ![g] = @ \ {a}]
  /\ UNCHANGED <<high, active, newsrc, file, reading, arts>>

-----------------------------------------------------------------------------

\* The lines that a .newsrc of an earlier session may hold: no line, or any
\* marks on articles the server has given out.
FirstLines(top) ==
  {[listed |-> FALSE, sub |-> FALSE, seq |-> {}]} \cup
  [listed : {TRUE}, sub : BOOLEAN, seq : {Runs(S) : S \in SUBSET (1..top)}]

Init ==
  /\ high \in [Groups -> 0..MaxArt]
  /\ spool = [g \in Groups |-> 1..high[g]]
  /\ file \in [Groups -> UNION {FirstLines(high[g]) : g \in Groups}]
  /\ \A g \in Groups : file[g] \in FirstLines(high[g])
  /\ LET act == [g \in Groups |-> FreshActive(g)]
     IN  /\ active = LoadActive(act, file)
         /\ newsrc = LoadNewsrc(act, [g \in Groups |-> VSetDefaultBitmap(act[g])], file)
  /\ reading = NoGroup
  /\ arts = <<>>

Command ==
  \/ \E S \in SUBSET DOMAIN arts :
       ReadArts(S) \/ UnreadArtsAgain(S) \/ MarkUnselectedRead(S)
  \/ UndoAutoSelect \/ LeaveGroup \/ CatchupGroup
  \/ \E g \in Groups : \/ EnterGroup(g) \/ AbortEnter(g)
                       \/ CatchupSelected(g) \/ MarkGroupUnread(g)
                       \/ Subscribe(g) \/ SubscribePattern(g) \/ Unsubscribe(g)
                       \/ RereadAfterPosting(g)
  \/ ResyncActive \/ ResetNewsrc
  \/ Quit

Next ==
  \/ Command
  \/ Die
  \/ \E g \in Groups : Arrive(g)
  \/ \E g \in Groups : \E a \in Arts : Expire(g, a)

Spec == Init /\ [][Next]_vars

(***************************************************************************)
(* Reading crossposts: a session that starts with nothing read in any      *)
(* group and never touches the subscriptions.                              *)
(***************************************************************************)
ReadingInit ==
  /\ Init
  /\ \A g \in Groups : file[g] = [listed |-> TRUE, sub |-> TRUE, seq |-> {}]

ReadingNext ==
  \/ \E S \in SUBSET DOMAIN arts : ReadArts(S) \/ UnreadArtsAgain(S)
  \/ LeaveGroup \/ CatchupGroup
  \/ \E g \in Groups : EnterGroup(g) \/ Arrive(g)
  \/ \E g \in Groups : \E a \in Arts : Expire(g, a)
  \/ Quit

ReadingSpec == ReadingInit /\ [][ReadingNext]_vars

-----------------------------------------------------------------------------
(* Properties *)

\* The window of a group and its bitmap agree: xbitlen is the window's length
\* ("bitmap length (max-min+1)", tin.h) and no bit is set outside it.  Every
\* NTEST and NSET of newsrc.c, xref.c and page.c relies on it.
BitmapShape ==
  \A g \in Groups :
    LET n == newsrc[g]
    IN  n.xmin >= 1 /\ n.xbitlen = n.xmax - n.xmin + 1 /\ n.xbitmap \subseteq n.xmin..n.xmax

\* Every article of the group being read has its bit in the bitmap: the mark
\* operations of newsrc.c index it without a check of their own.
ArtsInBitmap ==
  reading # NoGroup =>
    DOMAIN arts \subseteq newsrc[reading].xmin..newsrc[reading].xmax

\* What the bitmap's shape and ArtsInBitmap rest on: the server's numbers only
\* grow, the active entry lies between them, and no window ends above MaxArt.
WindowsOK ==
  \A g \in Groups :
    /\ spool[g] \subseteq 1..high[g]
    /\ 1 <= active[g].xmin /\ active[g].xmin <= ServerMin(g)
    /\ active[g].xmin <= active[g].xmax + 1 /\ active[g].xmax <= high[g]
    /\ newsrc[g].xmax <= MaxArt

\* In the group being read, what the screen shows (status), what will be
\* saved (the bitmap) and the counter agree, whatever the order of marking,
\* unmarking, zombies and crossposts.
StatusIsBitmap ==
  reading # NoGroup =>
    /\ newsrc[reading].xbitmap = {a \in DOMAIN arts : Unread(a)}
    /\ newsrc[reading].num_unread = Cardinality({a \in DOMAIN arts : Unread(a)})

\* The bitmaps and the windows they stand for fit, in memory and against the
\* server, and every article that is loaded has its bit.
BitmapsSafe == BitmapShape /\ WindowsOK /\ ArtsInBitmap

\* What .newsrc says about subscription is what the session believes: each
\* command that changes the one has rewritten the other.
SubscriptionSaved ==
  \A g \in Groups : active[g].subscribed <=> file[g].listed /\ file[g].sub

\* vWriteNewsrc() writes the marks of g: not its old line, and not the range
\* 1-xmax that print_bitmap_seq() writes for a group without articles.
MarksWritten(g) ==
  newsrc[g].present /\ active[g].count # 0 /\ active[g].xmin <= active[g].xmax

\* Saving a group and loading it again loses no mark of an article that the
\* server still has.
SaveRoundTrip ==
  \A g \in Groups :
    MarksWritten(g) =>
      LET n == newsrc[g]
          m == ParseBitmapSeq(active[g], PrintBitmapSeq(active[g], n))
      IN  \A a \in active[g].xmin..n.xmax : IsRead(m, a) <=> IsRead(n, a)

\* What is written of a group is what the session knows of it.
SavedAsMarked == SubscriptionSaved /\ SaveRoundTrip

\* The commands with which the user marks articles of g as read.
UserReads(g, a) ==
  \/ reading = g /\ a \in DOMAIN arts
  \/ reading # NoGroup /\ a \in CrossPosts(g, reading, DOMAIN arts)
  \/ CatchupSelected(g)
  \/ Subscribe(g)

\* An article that the server has is never turned from unread to read behind
\* the user's back: only by a mark command on it or on its copy in another
\* group, or because entering its group could not load it, or because the
\* session that made it unread is lost.  Expiry, counts that move, saving,
\* loading and rereading the active file do not.  (Nothing is promised of groups
\* that are not present, and of groups with a stale count of 0.)
NoSilentRead ==
  [][\A g \in Groups : \A a \in spool[g] :
       (MarksWritten(g) /\ ~IsRead(newsrc[g], a) /\ IsRead(newsrc'[g], a)) =>
         \/ UserReads(g, a) \/ Die
         \/ reading' = g /\ a \notin DOMAIN arts'
         \/ reading' # NoGroup /\ a \in CrossPosts(g, reading', Arts)]_vars

\* The commands with which the user makes articles of g unread.
UserUnreads(g, a) ==
  \/ reading = g /\ a \in DOMAIN arts
  \/ MarkGroupUnread(g) \/ Subscribe(g) \/ SubscribePattern(g) \/ ResetNewsrc

\* Article a of g goes from read to unread in this step.
Reappears(g, a) == IsRead(newsrc[g], a) /\ ~IsRead(newsrc'[g], a)

\* print_bitmap_seq() writes "1-xmax" for a group that the last answer called
\* empty, but nothing at all if its only article is number 1.
FirstArticleForgotten(g) == ~MarksWritten(g) /\ newsrc[g].xmax <= 1

\* An article that was read in a subscribed group stays read, across saving,
\* loading, expiry and rereading the active file, until the user asks for it
\* again or the process dies before it is saved.
ReadStaysRead ==
  [][\A g \in Groups : \A a \in spool[g] :
       (/\ active[g].subscribed /\ newsrc[g].present
        /\ ~FirstArticleForgotten(g)
        /\ Reappears(g, a)) =>
         UserUnreads(g, a) \/ Die]_vars

\* An article that the user reads is read in every group it was posted to whose
\* bitmap has been loaded as far as that article.
CrosspostsFollow ==
  [][\A S \in SUBSET DOMAIN arts : ReadArts(S) =>
       \A h \in Groups :
         \A x \in CrossPosts(h, reading, {a \in S : Unread(a)}) :
           newsrc[h].xbitlen > 0 /\ x <= newsrc[h].xmax => IsRead(newsrc'[h], x)]_vars

\* "Reset .newsrc file.  This will destroy all records of which articles have
\* been read" (tin.1): in the groups that the selection page shows, since the
\* bitmap of a hidden one is written again.
ResetDestroysMarks ==
  [][ResetNewsrc =>
       \A g \in Groups :
         active[g].subscribed /\ (ShowOnlyUnread => newsrc[g].num_unread # 0) =>
           \A a \in spool[g] : ~IsRead(newsrc'[g], a)]_vars

\* A group with an article that the user has not read is never taken for read
\* ("show only groups that contain unread articles", tin.1).
UnreadNeverHidden ==
  \A g \in Groups :
    newsrc[g].xbitmap \cap spool[g] # {} => newsrc[g].num_unread # 0

\* num_unread ("unread articles in group", tin.h) counts at least the articles
\* that are marked unread and still there.
NeverUndercounts ==
  \A g \in Groups :
    Cardinality(newsrc[g].xbitmap \cap spool[g]) <= newsrc[g].num_unread

\* The marks change by what the user does, and by nothing else.
MarksFollowUser == NoSilentRead /\ ReadStaysRead /\ ResetDestroysMarks

\* Screen, bitmap and counter agree in the group being read, and no group with
\* an unread article passes for read.
CountsTrue == StatusIsBitmap /\ UnreadNeverHidden

\* The same with crossposts: counts may be too high, never too low.
CountsSuffice == StatusIsBitmap /\ NeverUndercounts

\* Crossposts are marked along, and no other article of another group is.
CrosspostsOnly == CrosspostsFollow /\ NoSilentRead /\ ReadStaysRead

=============================================================================
