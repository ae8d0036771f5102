-------------------------------- MODULE Match --------------------------------
(***************************************************************************)
(* Matching and searching: the pattern matcher (wildmat.c), lists of       *)
(* newsgroup patterns (active.c), and the searches that go round a list    *)
(* (search.c).  Texts are sequences of character codes, as wildmat()       *)
(* compares them; patterns are well-formed: a class is closed and a        *)
(* backslash is not the last character.  tinrc.wildcard is off.            *)
(***************************************************************************)
EXTENDS Integers, SequencesExt

Star == 42
Query == 63
Backslash == 92
OpenClass == 91
CloseClass == 93
NEGATE_CLASS == 94
Dash == 45
Comma == 44
Bang == 33
ABORT == -1

Ch(s, i) == IF i \in DOMAIN s THEN s[i] ELSE 0
From(s, i) == SubSeq(s, i, Len(s))

\* Mutant: a "]" that comes first closes the class.
Class_NoFirst(p, i) ==
  LET reverse == Ch(p, i + 1) = NEGATE_CLASS
      a == IF reverse THEN i + 1 ELSE i
      end == Min({k \in (a + 1)..(Len(p) + 1) : Ch(p, k) \in {CloseClass, 0}})
  IN [end |-> end, reverse |-> reverse, set |-> ToSet(SubSeq(p, a + 1, end - 1))]

\* The class that begins at p[i]: where it is closed, and what is in it.  A "]"
\* or "-" that comes first stands for itself; last begins a range.
Class(p, i) ==
  LET reverse == Ch(p, i + 1) = NEGATE_CLASS
      a == IF reverse THEN i + 1 ELSE i
      first == Ch(p, a + 1) \in {CloseClass, Dash}
      f[k \in a..(Len(p) + 1)] ==   \* members from p[k] on
        IF k > Len(p) \/ p[k] = CloseClass THEN [end |-> k, set |-> {}]
        ELSE IF p[k] = Dash /\ Ch(p, k + 1) # CloseClass
        THEN [f[k + 2] EXCEPT !.set = @ \cup (Ch(p, k - 1)..Ch(p, k + 1))]
        ELSE [f[k + 1] EXCEPT !.set = @ \cup {p[k]}]
      rest == f[IF first THEN a + 2 ELSE a + 1]
  IN [end |-> rest.end, reverse |-> reverse,
      set |-> rest.set \cup (IF first THEN {p[a + 1]} ELSE {})]

RECURSIVE DoMatch(_, _), StarLoop(_, _)
\* 1, 0, or ABORT when more text would not help either.
DoMatch(text, p) ==
  LET c == Ch(p, 1)
      literal == IF c = Backslash THEN 2 ELSE 1
      stars == IF \E i \in DOMAIN p : p[i] # Star
               THEN CHOOSE i \in DOMAIN p : p[i] # Star /\ \A j \in 1..(i - 1) : p[j] = Star
               ELSE Len(p) + 1
  IN IF p = <<>> THEN IF text = <<>> THEN 1 ELSE 0
     ELSE IF text = <<>> /\ c # Star THEN ABORT
     ELSE IF c = Query THEN DoMatch(Tail(text), Tail(p))
     ELSE IF c = Star THEN IF stars > Len(p) THEN 1 ELSE StarLoop(text, From(p, stars))
     ELSE IF c = OpenClass
     THEN IF (text[1] \in Class(p, 1).set) = Class(p, 1).reverse THEN 0
          ELSE DoMatch(Tail(text), From(p, Class(p, 1).end + 1))
     ELSE IF text[1] # Ch(p, literal) THEN 0 ELSE DoMatch(Tail(text), From(p, literal + 1))
StarLoop(text, p) ==
  IF text = <<>> THEN ABORT
  ELSE IF DoMatch(text, p) # 0 THEN DoMatch(text, p) ELSE StarLoop(Tail(text), p)

str_lwr(s) == [i \in DOMAIN s |-> IF s[i] \in 65..90 THEN s[i] + 32 ELSE s[i]]
wildmat(text, p, icase) ==
  \/ p = <<Star>>
  \/ DoMatch(IF icase THEN str_lwr(text) ELSE text, IF icase THEN str_lwr(p) ELSE p) = 1

\* match_group_list(): "!" inverts an entry, and the last entry that matches counts.
RECURSIVE Entries(_)
Entries(list) ==
  LET e == IF Comma \in ToSet(list)
           THEN CHOOSE i \in DOMAIN list : list[i] = Comma /\ Comma \notin ToSet(SubSeq(list, 1, i - 1))
           ELSE Len(list) + 1
  IN IF list = <<>> THEN <<>> ELSE <<SubSeq(list, 1, e - 1)>> \o Entries(From(list, e + 1))
match_group_list(group, group_list) ==
  FoldLeft(LAMBDA accept, entry :
             LET negate == Ch(entry, 1) = Bang
             IN IF wildmat(group, IF negate THEN Tail(entry) ELSE entry, TRUE) THEN ~negate ELSE accept,
           FALSE, Entries(group_list))

-----------------------------------------------------------------------------
(* Going round a list whose places are 0 .. last: hits is what matches      *)

get_search_pattern(def) == <<Star>> \o def \o <<Star>>

\* search_config() and search_help(): the place where they are is the last one
\* they look at, and where they stay.
RECURSIVE ConfigFrom(_, _, _, _, _, _)
ConfigFrom(n, current, incr, result, last, hits) ==
  LET at == IF n < 0 THEN last ELSE IF n > last THEN 0 ELSE n
  IN IF at \in hits THEN at
     ELSE IF at + incr = current THEN result
     ELSE ConfigFrom(at + incr, current, incr, result, last, hits)
search_config(forward, current, last, hits) ==
  LET incr == IF forward THEN 1 ELSE -1
  IN ConfigFrom(current + incr, current + incr, incr, current, last, hits)

\* search_active() and, over the articles of the page in their order,
\* search_group(): -1 when nothing matches.
RECURSIVE Round(_, _, _, _, _)
Round(i, current, forward, last, hits) ==
  LET next == IF forward THEN (IF i = last THEN 0 ELSE i + 1)
              ELSE (IF i = 0 THEN last ELSE i - 1)
  IN IF next \in hits THEN next
     ELSE IF next = current THEN -1 ELSE Round(next, current, forward, last, hits)
search_active(forward, cur_groupnum, group_top, hits) ==
  IF group_top = 0 THEN -1 ELSE Round(cur_groupnum, cur_groupnum, forward, group_top - 1, hits)

\* With show_only_unread the articles that are read are passed over.
search_group(forward, current_art, shown, unread, hits) ==
  IF shown = 0 THEN 0
  ELSE Round(current_art, current_art, forward, shown - 1,
             unread \cap hits)

-----------------------------------------------------------------------------
(* What is expected.  A pattern is written from items: a character, "?",    *)
(* "*", or a class with the text in its brackets and what it stands for.   *)

Written(item) ==
  CASE item.kind = "char" ->
         IF item.c \in {Star, Query, Backslash, OpenClass} THEN <<Backslash, item.c>> ELSE <<item.c>>
    [] item.kind = "any" -> <<Query>>
    [] item.kind = "star" -> <<Star>>
    [] item.kind = "class" ->
         <<OpenClass>> \o (IF item.not THEN <<NEGATE_CLASS>> ELSE <<>>) \o item.text \o <<CloseClass>>
Accepts(item, c) ==
  CASE item.kind = "char" -> c = item.c
    [] item.kind = "any" -> TRUE
    [] item.kind = "class" -> (c \in item.set) # item.not

RECURSIVE Denotes(_, _)
Denotes(items, text) ==
  IF items = <<>> THEN text = <<>>
  ELSE IF items[1].kind = "star"
  THEN \E n \in 1..(Len(text) + 1) : Denotes(Tail(items), From(text, n))
  ELSE text # <<>> /\ Accepts(items[1], text[1]) /\ Denotes(Tail(items), Tail(text))

\* The pattern matches what its items stand for: giving up early (ABORT) loses
\* no match.
MatchedRight(items, texts) ==
  LET p == FlattenSeq([i \in DOMAIN items |-> Written(items[i])])
  IN \A text \in texts : wildmat(text, p, FALSE) = Denotes(items, text)

\* A search goes to the nearest match in its direction, round the list, and to
\* the place where it began only when there is no other.
Nearest(forward, current, last, hits) ==
  LET Place(d) == (current + (IF forward THEN d ELSE last + 1 - d)) % (last + 1)
      found == {d \in 1..(last + 1) : Place(d) \in hits}
  IN IF found = {} THEN -1 ELSE Place(CHOOSE d \in found : \A e \in found : d <= e)
SearchedRight(forward, current, last, hits, unread) ==
  LET nearest == Nearest(forward, current, last, hits)
  IN /\ search_active(forward, current, last + 1, hits) = nearest
     /\ search_config(forward, current, last, hits) = IF nearest = -1 THEN current ELSE nearest
     /\ search_group(forward, current, last + 1, unread, hits)
          = Nearest(forward, current, last, hits \cap unread)

=============================================================================
