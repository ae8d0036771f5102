------------------------------- MODULE Threads -------------------------------
(***************************************************************************)
(* A group that is open: the articles are threaded when it is entered and  *)
(* again whenever a filter kills some of them, the threading is switched,  *)
(* or an option changes.  Composes RefTree (who answers whom) with the     *)
(* threads that are built on it (ThreadOps).                               *)
(***************************************************************************)
EXTENDS RefTree, ThreadOps

CONSTANTS
  Subjects,     \* the subjects, "Re:" removed
  SubjectOf,    \* SubjectOf[i]: the subject of the article loaded as arts[i]
  SortByScore,  \* attribute.sort_art_type is one of SORT_BY_SCORE
  MaxKilled,    \* bound: articles killed by one filter, or expired
  MaxRethreads  \* bound: threadings after the first one

Methods == {"THREAD_NONE", "THREAD_SUBJ", "THREAD_REFS", "THREAD_BOTH"}
NextMethod ==
  [m \in Methods |->
     CASE m = "THREAD_NONE" -> "THREAD_SUBJ" [] m = "THREAD_SUBJ" -> "THREAD_REFS"
       [] m = "THREAD_REFS" -> "THREAD_BOTH" [] m = "THREAD_BOTH" -> "THREAD_NONE"]

VARIABLES
  arts,      \* arts[], <<>> until the group has been indexed
  base,      \* base[]
  mark,      \* the aptr fields of the hash table of subjects
  method,    \* attribute.thread_arts
  strayed,   \* some threading since then took a mark from an earlier one
  rethreads  \* bound

vars == <<treeVars, arts, base, mark, method, strayed, rethreads>>

ThreadsInit ==
  /\ Init
  /\ arts = <<>> /\ base = <<>>
  /\ mark = [s \in Subjects |-> -1]
  /\ method \in Methods
  /\ strayed = FALSE /\ rethreads = 0

Build == BuildNext /\ UNCHANGED <<arts, base, mark, method, strayed, rethreads>>

\* The orders sort_arts() can give: by score it may be any, otherwise what
\* it sorts by does not change and arts[] is sorted already.
Orders(a) ==
  IF SortByScore
  THEN {f \in [DOMAIN a -> DOMAIN a] : \A i, j \in DOMAIN a : f[i] = f[j] => i = j}
  ELSE {[i \in DOMAIN a |-> i]}

Permute(a, f) == [i \in DOMAIN a |-> a[f[i]]]

\* make_threads() on articles a, sorted by f.
Rethread(a, f, m, reset) ==
  LET s == make_threads(Permute(a, f), tree, mark, m, reset)
  IN /\ arts' = s.arts /\ mark' = s.mark
     /\ base' = find_base(s.arts, FALSE)
     /\ strayed' = (strayed \/ s.stray)
     /\ method' = m
     /\ UNCHANGED treeVars

Few(S) == {K \in SUBSET S : Cardinality(K) <= MaxKilled}

\* filter_articles() kills more of the articles (it reads them as well).
Kill(a, K) ==
  [i \in DOMAIN a |-> [a[i] EXCEPT !.killed = @ \/ i \in K,
                                   !.status = IF i \in K THEN "ART_READ" ELSE @]]

\* The end of index_group(): articles the spool no longer has are expired.
IndexGroup ==
  /\ pass = "built" /\ arts = <<>>
  /\ \E gone, K \in Few(0..(Top - 1)) :
       LET fresh == [i \in 0..(Top - 1) |->
                       [subject |-> SubjectOf[i], ref |-> id[i], killed |-> FALSE,
                        thread |-> IF i \in gone THEN ART_EXPIRED ELSE ART_NORMAL,
                        inthread |-> FALSE,
                        status |-> IF i \in gone THEN "ART_READ" ELSE "ART_UNREAD"]]
       IN /\ gone \cap K = {}
          /\ Rethread(Kill(fresh, K), [i \in DOMAIN fresh |-> i], method, FALSE)
  /\ UNCHANGED rethreads

Open == arts # <<>> /\ rethreads < MaxRethreads /\ rethreads' = rethreads + 1

\* The kill and select keys: only if something was killed it is rethreaded.
FilterArticles ==
  /\ Open
  /\ \E K \in Few(DOMAIN arts) \ {{}} : \E f \in Orders(arts) :
       Rethread(Kill(arts, K), f, method, FALSE)

\* iKeyGroupToggleThreading, and the same choice in the option menu.
ToggleThreading ==
  /\ Open
  /\ \E f \in Orders(arts) : Rethread(arts, f, NextMethod[method], TRUE)

Next == Build \/ IndexGroup \/ FilterArticles \/ ToggleThreading

Spec == ThreadsInit /\ [][Next]_vars

-----------------------------------------------------------------------------
Shown == {i \in DOMAIN arts : ~IGNORE_ART(arts[i])}

\* The articles that are reached from the threads of the group page.
Reached == UNION {Range(Chain(arts, base[b])) : b \in DOMAIN base}

(***************************************************************************)
(* Every article that is neither killed nor expired is in exactly one      *)
(* thread of the group page, and once: the chains of .thread partition     *)
(* the articles, as long as no threading found a mark of an earlier one    *)
(* (collate_subjects() may then hang articles behind a killed one).        *)
(***************************************************************************)
Partitioned ==
  arts # <<>> /\ ~strayed =>
    /\ Reached = Shown
    /\ \A b, c \in DOMAIN base :
         b # c => Range(Chain(arts, base[b])) \cap Range(Chain(arts, base[c])) = {}
    /\ \A b \in DOMAIN base :
         arts[Last(Chain(arts, base[b]))].thread = ART_NORMAL

\* m answers n, directly or not.
Answers(m, n) == m # n /\ InPath(tree, m, n)

(***************************************************************************)
(* Threading by references puts a followup behind what it answers, and     *)
(* articles that do not descend from one message into different threads.   *)
(***************************************************************************)
FollowupsFollow ==
  method = "THREAD_REFS" =>
    \A b \in DOMAIN base : LET c == Chain(arts, base[b]) IN
      \A k, l \in DOMAIN c : k < l =>
        /\ ~Answers(arts[c[k]].ref, arts[c[l]].ref)
        /\ \E m \in MsgIds : InPath(tree, arts[c[k]].ref, m) /\ InPath(tree, arts[c[l]].ref, m)

\* The threads of the group page hold every article once, in the order of answers.
ThreadsSound == Partitioned /\ FollowupsFollow

=============================================================================
