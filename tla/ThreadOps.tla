------------------------------ MODULE ThreadOps ------------------------------
(***************************************************************************)
(* The threads of a group: arts[] linked by .thread and .inthread, and     *)
(* base[], the index of the first article of each (art.c, refs.c,          *)
(* thread.c).  Pure functions; arts is a function on 0..top-1 to records   *)
(* with the fields subject, ref (the id of the message), status, killed,   *)
(* thread and inthread, base a sequence of such indexes.                   *)
(***************************************************************************)
EXTENDS Integers, Sequences, FiniteSets, SequencesExt

CONSTANTS
  KillLevel,      \* tinrc.kill_level
  NoMsg           \* the NULL pointer to a message-id

ART_NORMAL == -1
ART_EXPIRED == -2
ART_UNAVAILABLE == -1

IGNORE_ART(a) ==
  \/ KillLevel # "KILL_THREAD" /\ a.killed
  \/ a.thread = ART_EXPIRED

Indexes(arts) == [k \in 1..Cardinality(DOMAIN arts) |-> k - 1]

\* The indexes that satisfy P, upwards: what the loops over arts[] collect.
Collect(arts, P(_)) == SelectSeq(Indexes(arts), P)

\* The articles from i on along .thread, which ends below 0.
Chain(arts, i) ==
  LET walk[k \in Nat, n \in DOMAIN arts] ==
        IF k = 0 \/ arts[n].thread < 0 THEN <<n>>
        ELSE <<n>> \o walk[k - 1, arts[n].thread]
  IN walk[Cardinality(DOMAIN arts), i]

find_base(arts, onlyUnread) ==
  Collect(arts, LAMBDA i :
    /\ ~IGNORE_ART(arts[i]) /\ ~arts[i].inthread
    /\ onlyUnread =>
         \E k \in Range(Chain(arts, i)) : arts[k].status = "ART_UNREAD")

-----------------------------------------------------------------------------
(***************************************************************************)
(* The descent of find_next() below a root message: children before        *)
(* siblings.                                                               *)
(***************************************************************************)
Descent(t, root) ==
  LET walk[d \in Nat, m \in (DOMAIN t.parent) \cup {NoMsg}] ==
        IF m = NoMsg \/ d = 0 THEN <<>>
        ELSE <<m>> \o walk[d - 1, t.child[m]] \o walk[d - 1, t.sibling[m]]
  IN <<root>> \o walk[Cardinality(DOMAIN t.parent), t.child[root]]

\* refptr->article after make_threads(): the last article with that id.
ArticleOf(arts, m) ==
  LET S == {i \in DOMAIN arts : arts[i].ref = m}
  IN IF S = {} THEN ART_UNAVAILABLE ELSE CHOOSE i \in S : \A k \in S : k <= i

Link(arts, j, i) ==
  [arts EXCEPT ![j].thread = i, ![i].inthread = TRUE]

\* build_thread(): link the articles of the tree below one root message.
build_thread(arts, t, root) ==
  LET valid(m) == /\ ArticleOf(arts, m) # ART_UNAVAILABLE
                  /\ ~IGNORE_ART(arts[ArticleOf(arts, m)])
      run == SelectSeq(Descent(t, root), valid)
      step(a, k) == Link(a, ArticleOf(arts, run[k]), ArticleOf(arts, run[k + 1]))
  IN FoldLeft(step, arts, [k \in 1..(Len(run) - 1) |-> k])

thread_by_reference(arts, t) ==
  LET step(m, a) == build_thread(a, t, m)
  IN FoldSet(step, arts, {m \in t.known : t.parent[m] = NoMsg})

(***************************************************************************)
(* Threading by subject looks up the last article of the same subject in   *)
(* mark, the aptr fields of the hash table of subjects, which is -1 only   *)
(* for a subject that has not been looked up since the group was entered.  *)
(* stray records that a mark was taken from an earlier threading.          *)
(***************************************************************************)
Marked(s, i) ==
  LET a == s.arts[i]
      j == s.mark[a.subject]
  IN /\ j # -1 /\ j < i
     /\ s.arts[j].subject = a.subject

Stray(s, i) == Marked(s, i) /\ s.mark[s.arts[i].subject] \notin s.seen

SetMark(s, i, arts) ==
  [arts |-> arts, mark |-> [s.mark EXCEPT ![s.arts[i].subject] = i],
   seen |-> s.seen \cup {i}, stray |-> s.stray \/ Stray(s, i)]

SubjectTurn(s, i) ==
  IF s.arts[i].thread # ART_NORMAL \/ IGNORE_ART(s.arts[i]) THEN s
  ELSE SetMark(s, i, IF Marked(s, i) /\ ~s.arts[i].inthread
                     THEN Link(s.arts, s.mark[s.arts[i].subject], i)
                     ELSE s.arts)

\* A mutant: the thread is joined behind the first article of the other one.
CollateTurn_First(s, i) ==
  IF s.arts[i].inthread \/ IGNORE_ART(s.arts[i]) THEN s
  ELSE SetMark(s, i,
         IF Marked(s, i) THEN Link(s.arts, s.mark[s.arts[i].subject], i) ELSE s.arts)

CollateTurn(s, i) ==
  IF s.arts[i].inthread \/ IGNORE_ART(s.arts[i]) THEN s
  ELSE SetMark(s, i,
         IF Marked(s, i)
         THEN Link(s.arts, Last(Chain(s.arts, s.mark[s.arts[i].subject])), i)
         ELSE s.arts)

thread_by_subject(s) == FoldLeft(SubjectTurn, s, Indexes(s.arts))
collate_subjects(s) == FoldLeft(CollateTurn, s, Indexes(s.arts))

Unlinked(arts) ==
  [i \in DOMAIN arts |->
     [arts[i] EXCEPT !.thread = IF @ = ART_EXPIRED THEN @ ELSE ART_NORMAL,
                     !.inthread = FALSE]]

\* A mutant: the threads that a switch of the threading leaves are kept.
make_threads_Stale(arts, t, mark, method, rethread) ==
  LET s == [arts |-> arts, mark |-> mark, seen |-> {}, stray |-> FALSE]
  IN CASE method = "THREAD_NONE" -> s
       [] method = "THREAD_SUBJ" -> thread_by_subject(s)
       [] method = "THREAD_REFS" ->
            [s EXCEPT !.arts = thread_by_reference(arts, t)]
       [] method = "THREAD_BOTH" ->
            collate_subjects([s EXCEPT !.arts = thread_by_reference(arts, t)])

\* make_threads() after the sort: [arts, mark, seen, stray].
make_threads(arts, t, mark, method, rethread) ==
  LET reset == IF rethread \/ method # "THREAD_NONE" THEN Unlinked(arts) ELSE arts
      s == [arts |-> reset, mark |-> mark, seen |-> {}, stray |-> FALSE]
  IN CASE method = "THREAD_NONE" -> s
       [] method = "THREAD_SUBJ" -> thread_by_subject(s)
       [] method = "THREAD_REFS" ->
            [s EXCEPT !.arts = thread_by_reference(reset, t)]
       [] method = "THREAD_BOTH" ->
            collate_subjects([s EXCEPT !.arts = thread_by_reference(reset, t)])

-----------------------------------------------------------------------------
\* Which thread arts[n] is in, an index of base, or 0 (-1 in the code).
which_thread(arts, base, n) ==
  LET S == {b \in DOMAIN base : n \in Range(Chain(arts, base[b]))}
  IN IF S = {} THEN 0 ELSE CHOOSE b \in S : \A c \in S : b <= c

which_response(arts, base, n) ==
  LET c == Chain(arts, base[which_thread(arts, base, n)])
  IN (CHOOSE k \in DOMAIN c : c[k] = n /\ \A l \in DOMAIN c : c[l] = n => k <= l) - 1

num_of_responses(arts, base, b) == Len(Chain(arts, base[b])) - 1

find_response(arts, base, b, n) ==
  LET c == Chain(arts, base[b]) IN c[IF n + 1 > Len(c) THEN Len(c) ELSE n + 1]

new_responses(arts, base, b) ==
  Cardinality({k \in Range(Chain(arts, base[b])) : arts[k].status # "ART_READ"})

next_thread(arts, base, n) ==
  LET b == which_thread(arts, base, n) + 1
  IN IF b > Len(base) THEN -1 ELSE base[b]

next_response(arts, base, n) ==
  IF arts[n].thread >= 0 THEN arts[n].thread ELSE next_thread(arts, base, n)

prev_response(arts, base, n) ==
  LET b == which_thread(arts, base, n)
      r == which_response(arts, base, n)
  IN IF r > 0 THEN find_response(arts, base, b, r - 1)
     ELSE IF b = 1 THEN -1
     ELSE Last(Chain(arts, base[b - 1]))

Unseen(arts, n) ==
  arts[n].status \in {"ART_UNREAD", "ART_WILL_RETURN"} /\ arts[n].thread # ART_EXPIRED

\* A mutant: nothing before the cursor is looked at.
next_unread_NoWrap(arts, base, n) ==
  LET onward[k \in Nat, i \in DOMAIN arts \cup {-1}] ==
        IF i = -1 \/ k = 0 THEN -1
        ELSE IF Unseen(arts, i) THEN i
        ELSE onward[k - 1, next_response(arts, base, i)]
  IN onward[Cardinality(DOMAIN arts) + 1, n]

(***************************************************************************)
(* next_unread(): the rest of the group from n on, then from its start up  *)
(* to n again; -1 when there is nothing left.                              *)
(***************************************************************************)
next_unread(arts, base, n) ==
  LET size == Cardinality(DOMAIN arts)
      onward[k \in Nat, i \in DOMAIN arts \cup {-1}] ==
        IF i = -1 \/ k = 0 THEN -1
        ELSE IF Unseen(arts, i) THEN i
        ELSE onward[k - 1, next_response(arts, base, i)]
      again[k \in Nat, i \in DOMAIN arts \cup {-1}] ==
        IF i = n \/ i = -1 \/ k = 0 THEN -1
        ELSE IF Unseen(arts, i) THEN i
        ELSE again[k - 1, next_response(arts, base, i)]
      found == onward[size + 1, n]
  IN IF found # -1 \/ base = <<>> THEN found ELSE again[size + 1, base[1]]

prev_unread(arts, base, n) ==
  LET back[k \in Nat, i \in DOMAIN arts \cup {-1}] ==
        IF i = -1 \/ k = 0 THEN -1
        ELSE IF arts[i].status = "ART_UNREAD" /\ arts[i].thread # ART_EXPIRED THEN i
        ELSE back[k - 1, prev_response(arts, base, i)]
  IN back[Cardinality(DOMAIN arts) + 1, n]

=============================================================================
