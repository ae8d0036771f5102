----------------------------- MODULE GroupIndex -----------------------------
(***************************************************************************)
(* Indexing a group (art.c): index_group() lists the articles of the       *)
(* group, reads the overview that is there (the index file, or XOVER, or   *)
(* the cached file and then XOVER for the rest), reads the headers of the  *)
(* articles that came since, and writes the index file again.  The server  *)
(* or the spool changes meanwhile, and the writing may be cut short.       *)
(*                                                                         *)
(* A record of the overview is the number of its article and whether all   *)
(* its fields are there.  Headers are names; their values are left out.    *)
(***************************************************************************)
EXTENDS Integers, SequencesExt, FiniteSetsExt

CONSTANTS MaxArt,       \* bound: article numbers
          Headers,      \* the header lines of each article, sequences of names
          Modes,        \* how news is read: [nntp, listgroup, xover, cache]
          GetartLimits, \* values of tinrc.getart_limit, 0 for none
          MaxCuts       \* bound: writes of the index cut short

VARIABLES mode, getart_limit,
          spool, high,  \* the articles there are, and the highest number given
          xmin, xmax,   \* the group's low and high mark, as last heard
          nov,          \* the index file: records [n, whole]
          base, arts, last_read_article,
          at,           \* the article the server stands at in the group
          pc,           \* where index_group() is
          cuts,         \* writes cut short so far
          lost          \* history: articles that index_group() passes over

vars == <<mode, getart_limit, spool, high, xmin, xmax, nov, base, arts, last_read_article, at, pc, cuts, lost>>

Rec(n, whole) == [n |-> n, whole |-> whole]
Art(n, thread) == [n |-> n, thread |-> thread]   \* ART_NORMAL or ART_EXPIRED
Numbers(list) == {list[i].n : i \in DOMAIN list}
Sorted(set) == SetToSortSeq(set, <)

-----------------------------------------------------------------------------
(* Headers of an article *)

\* parse_headers(): the lines up to Archive-name:, 26 of them at most, or 51
\* from the first Received: on; From:, Date: and Message-ID: must be there.
parse_headers(lines) ==
  LET read == FoldLeft(
        LAMBDA h, line :
          IF h.lineno > h.max \/ "Archive-name" \in h.got THEN h
          ELSE [lineno |-> h.lineno + 1,
                max |-> IF line = "Received" THEN 50 ELSE h.max,
                got |-> h.got \cup {line}],
        [lineno |-> 0, max |-> 25, got |-> {}], lines)
  IN {"From", "Date", "Message-ID"} \subseteq read.got

-----------------------------------------------------------------------------
(* Overview *)

\* valid_artnum(): the binary chop, counting from 0; -1 where it is not found.
valid_artnum(list, art) ==
  LET top == Len(list)
      power[t \in Nat] == IF t \div 2 = 0 THEN 1 ELSE 2 * power[t \div 2]
      chop[p \in Nat \X Nat] ==
        LET cur == p[1]
            range == p[2]
            next == IF list[cur + 1].n < art THEN cur + range ELSE cur - range
            in == IF next >= top THEN top - 1 ELSE next
        IN IF list[cur + 1].n = art THEN cur
           ELSE IF range = 0 THEN -1 ELSE chop[<<in, range \div 2>>]
  IN IF top = 0 THEN -1 ELSE chop[<<power[top] - 1, power[top] \div 2>>]

\* The records of an overview, one after the other: one of an article that is
\* gone is passed over, one that is not whole counts as read all the same.
ReadRecords(r, recs, max) ==
  FoldLeft(LAMBDA q, rec :
             IF rec.n < xmin \/ rec.n > max \/ rec.n = 0 THEN q
             ELSE [arts |-> IF rec.whole THEN Append(q.arts, Art(rec.n, "expired")) ELSE q.arts,
                   last |-> rec.n],
           r, recs)

Xover(from, to) == [i \in DOMAIN Sorted(spool \cap from..to) |-> Rec(Sorted(spool \cap from..to)[i], TRUE)]

iReadNovFile(min, max) ==
  LET none == [arts |-> <<>>, last |-> 0]
      cached == ReadRecords(none, nov, xmax)
      from == IF cached.last >= min THEN cached.last + 1 ELSE min
  IN IF ~(mode.nntp /\ mode.xover) THEN ReadRecords(none, nov, max)
     ELSE IF ~mode.cache THEN ReadRecords(none, Xover(min, max), max)
     ELSE IF cached.last >= max THEN cached
     ELSE ReadRecords(cached, Xover(from, max), max)

\* open_art_header(): HEAD, and after a failure NEXT, which moves from the
\* article the server stands at.
open_art_header(r, art) ==
  IF ~mode.nntp THEN [r EXCEPT !.ok = art \in spool]
  ELSE IF art < r.head_next THEN [r EXCEPT !.ok = FALSE]
  ELSE IF art \in spool THEN [r EXCEPT !.ok = TRUE, !.at = art]
  ELSE LET later == {n \in spool : n > r.at}
       IN IF later = {} THEN [r EXCEPT !.ok = FALSE]
          ELSE [r EXCEPT !.ok = FALSE, !.at = Min(later), !.head_next = Min(later)]

\* Mutant: an article older than the last one read is not looked up.
ReadArticle_OldFirst(r, art) ==
  LET respnum == valid_artnum(r.arts, art)
      q == open_art_header(r, art)
  IN IF art <= r.last THEN r
     ELSE IF respnum >= 0 THEN [r EXCEPT !.arts[respnum + 1].thread = "normal"]
     ELSE IF ~q.ok THEN q
     ELSE IF ~parse_headers(Headers[art]) THEN [q EXCEPT !.modified = TRUE]
     ELSE [q EXCEPT !.modified = TRUE, !.arts = Append(@, Art(art, "normal")), !.last = art]

ReadArticle(r, art) ==
  LET respnum == valid_artnum(r.arts, art)
      q == open_art_header(r, art)
  IN IF respnum >= 0 THEN [r EXCEPT !.arts[respnum + 1].thread = "normal"]
     ELSE IF art <= r.last THEN r
     ELSE IF ~q.ok THEN q
     ELSE IF ~parse_headers(Headers[art]) THEN [q EXCEPT !.modified = TRUE]
     ELSE [q EXCEPT !.modified = TRUE, !.arts = Append(@, Art(art, "normal")), !.last = art]

read_group ==
  FoldLeft(ReadArticle,
           [arts |-> arts, last |-> last_read_article, head_next |-> 0, ok |-> FALSE,
            at |-> at, modified |-> FALSE],
           base)

\* vWriteNovFile()
Records(list) ==
  LET kept == SelectSeq(list, LAMBDA a : a.thread = "normal" /\ a.n >= xmin)
  IN [i \in DOMAIN kept |-> Rec(kept[i].n, TRUE)]

\* What is left of records whose writing was cut short in the k-th: its number
\* is there or it is not.
Torn(recs, k) == {Append(SubSeq(recs, 1, k - 1), Rec(n, FALSE)) : n \in {0, recs[k].n}}

-----------------------------------------------------------------------------
(* index_group() *)

Init ==
  /\ mode \in Modes /\ getart_limit \in GetartLimits
  /\ spool = 1..2 /\ high = 2 /\ xmin = 1 /\ xmax = 2 /\ nov = <<>> /\ base = <<>> /\ arts = <<>>
  /\ last_read_article = 0 /\ at = 0 /\ pc = "idle" /\ cuts = 0 /\ lost = {}

\* setup_hard_base(): LISTGROUP, the range of GROUP, or the directory.
SetupBase ==
  /\ pc = "idle"
  /\ base' = IF mode.nntp /\ ~mode.listgroup THEN [i \in 1..(high + 1 - xmin) |-> xmin + i - 1]
             ELSE Sorted(spool)
  /\ xmax' = IF base' # <<>> /\ Last(base') > xmax THEN Last(base') ELSE xmax
  /\ pc' = IF base' = <<>> THEN "idle" ELSE "based"
  /\ at' = IF spool = {} THEN 0 ELSE Min(spool)
  /\ UNCHANGED <<mode, getart_limit, spool, high, xmin, nov, arts, last_read_article, cuts, lost>>

\* Where reading starts: with the last getart_limit articles, or so many
\* before find_first_unread(), which is any number here.
Firsts ==
  IF getart_limit > 0 /\ Len(base) > getart_limit THEN {base[Len(base) + 1 - getart_limit]}
  ELSE IF getart_limit < 0
       THEN {IF base[1] - unread < getart_limit THEN unread + getart_limit ELSE base[1] : unread \in xmin..(xmax + 1)}
  ELSE {base[1]}

ReadIndex ==
  /\ pc = "based"
  /\ \E first \in Firsts :
       LET max == Last(base)
           r == iReadNovFile(first, max)
           cut == {nov[i].n : i \in {i \in DOMAIN nov : ~nov[i].whole}}
       IN /\ arts' = r.arts
          /\ last_read_article' = r.last
          /\ xmax' = IF xmax > max THEN max ELSE xmax
          /\ lost' = lost \cup cut \cup {n \in spool : n < first}
  /\ pc' = "read"
  /\ UNCHANGED <<mode, getart_limit, spool, high, xmin, nov, base, at, cuts>>

\* read_group(), and then the articles of the index that are gone are marked
\* read; whether the index has to be written again.
ReadGroup ==
  /\ pc = "read"
  /\ LET r == read_group
     IN /\ arts' = r.arts
        /\ last_read_article' = r.last
        /\ lost' = lost \cup (IF mode.nntp /\ ~mode.listgroup THEN {at} ELSE {})
        /\ at' = r.at
        /\ pc' = IF /\ r.modified \/ mode.cache \/ \E i \in DOMAIN r.arts : r.arts[i].thread = "expired"
                    /\ ~(mode.nntp /\ mode.xover) \/ mode.cache
                 THEN "write" ELSE "shown"
  /\ UNCHANGED <<mode, getart_limit, spool, high, xmin, xmax, nov, base, cuts>>

WriteIndex ==
  /\ pc = "write"
  /\ nov' = Records(arts)
  /\ pc' = "shown"
  /\ UNCHANGED <<mode, getart_limit, spool, high, xmin, xmax, base, arts, last_read_article, at, cuts, lost>>

\* The disk is full, which nobody checks, or tin is killed.
WriteCut ==
  /\ pc = "write" /\ cuts < MaxCuts
  /\ \E k \in DOMAIN Records(arts) : nov' \in Torn(Records(arts), k)
  /\ pc' \in {"shown", "idle"}
  /\ cuts' = cuts + 1
  /\ UNCHANGED <<mode, getart_limit, spool, high, xmin, xmax, base, arts, last_read_article, at, lost>>

Leave ==
  /\ pc = "shown" /\ pc' = "idle"
  /\ UNCHANGED <<mode, getart_limit, spool, high, xmin, xmax, nov, base, arts, last_read_article, at, cuts, lost>>

\* The server: an article arrives, or expires.  The marks are read again
\* between two visits of the group; the low one may lag behind.
Server(articles) ==
  /\ pc \in {"idle", "based", "read"}
  /\ spool' = articles
  /\ UNCHANGED <<mode, getart_limit, xmin, xmax, nov, base, arts, last_read_article, at, pc, cuts, lost>>

Arrive == high < MaxArt /\ high' = high + 1 /\ Server(spool \cup {high + 1})

Expire(n) == n \in spool /\ Server(spool \ {n}) /\ UNCHANGED high

Marks ==
  /\ pc = "idle" /\ xmax' = high
  /\ xmin' = IF spool = {} THEN high + 1 ELSE Min(spool)
  /\ UNCHANGED <<mode, getart_limit, spool, high, nov, base, arts, last_read_article, at, pc, cuts, lost>>

Next == SetupBase \/ ReadIndex \/ ReadGroup \/ WriteIndex \/ WriteCut \/ Leave
        \/ Arrive \/ (\E n \in spool : Expire(n)) \/ Marks

Spec == Init /\ [][Next]_vars

-----------------------------------------------------------------------------
Shown == {arts[i].n : i \in {i \in DOMAIN arts : arts[i].thread = "normal"}}

\* What the reader gets (index_group, "Will read any existing index, create
\* or incrementally update the index"): in the order of their numbers and
\* once each, the articles that were listed and are still there, whatever the
\* index held before, but for those that a cut or a limit kept out of it, and
\* the one the server stood at where it has no LISTGROUP.
IndexIsGroup ==
  pc \in {"write", "shown"} =>
    /\ \A i, j \in DOMAIN arts : i < j => arts[i].n < arts[j].n
    /\ Shown \subseteq ToSet(base)
    /\ \A n \in ToSet(base) \cap spool :
         {"From", "Date", "Message-ID"} \subseteq ToSet(Headers[n])
           => n \in Shown \cup lost \/ "Archive-name" \in ToSet(Headers[n])

=============================================================================
