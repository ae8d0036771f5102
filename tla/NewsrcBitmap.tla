---------------------------- MODULE NewsrcBitmap ----------------------------
(***************************************************************************)
(* The read/unread bookkeeping of one newsgroup: the pure part of          *)
(* src/src/newsrc.c.                                                       *)
(*                                                                         *)
(* A group record g holds what the active file or the GROUP command said   *)
(* (struct t_group: count, xmin, xmax).  A newsrc record n is the group's  *)
(* struct t_newsrc.  Its bitmap is the set n.xbitmap of the article        *)
(* numbers whose bit is 1 (unread); bit i of the C array is article        *)
(* n.xmin + i.  The C pointer xbitmap is NULL exactly when xbitlen is 0:   *)
(* every statement that changes one changes the other.                     *)
(*                                                                         *)
(* The sequence part of a .newsrc line ("1-3,7,9-12") is the set of its    *)
(* ranges <<low, high>>.  The ranges of a line ascend and do not touch,    *)
(* which is the only form print_bitmap_seq() writes, so the order of the   *)
(* line is the order of the numbers.  Lines another program or the user    *)
(* wrote out of order are outside the model.                               *)
(***************************************************************************)
EXTENDS Integers, FiniteSets

CONSTANT NBITS    \* bits per byte of the bitmap, 8 in tin.h

ASSUME NBITSAssumption == NBITS \in Nat \ {0}

-----------------------------------------------------------------------------
(* Sets of numbers *)

Highest(S) == CHOOSE x \in S : \A y \in S : y <= x
Lowest(S)  == CHOOSE x \in S : \A y \in S : x <= y
Larger(a, b) == IF a > b THEN a ELSE b

\* The maximal runs of consecutive numbers in S.
Runs(S) == {r \in S \X S : /\ r[1] <= r[2]
                           /\ r[1]..r[2] \subseteq S
                           /\ r[1] - 1 \notin S
                           /\ r[2] + 1 \notin S}

\* The numbers that a set of ranges covers.
Covered(ranges) == UNION {r[1]..r[2] : r \in ranges}

\* The statement "if (num) num--" repeated k times, and "if (num > 0) num--".
CountDown(num, k) == IF num < 0 THEN num - k ELSE Larger(num - k, 0)
CountDownPositive(num, k) == IF num > 0 THEN Larger(num - k, 0) ELSE num

-----------------------------------------------------------------------------
(* The group's bitmap *)

\* struct t_group and struct t_newsrc
GroupRecords == [count : Int, xmin : Nat, xmax : Nat, subscribed : BOOLEAN]
NewsrcRecords == [present : BOOLEAN, num_unread : Int, xmin : Nat, xmax : Nat,
                  xbitlen : Nat, xbitmap : SUBSET Nat]

IsRead(n, a) == a < n.xmin \/ (a <= n.xmax /\ a \notin n.xbitmap)

VSetDefaultBitmap(g) ==
  LET xmin == IF g.xmin > 0 THEN g.xmin ELSE 1
  IN  [present |-> FALSE, num_unread |-> 0, xmin |-> xmin, xmax |-> xmin - 1,
       xbitlen |-> 0, xbitmap |-> {}]

\* Mutant: the bitmap is freed but its length stays.
ScrubKeepsLength(g, n) ==
  LET xmax == Larger(g.xmax, n.xmax)
  IN  [n EXCEPT !.num_unread = 0, !.xmin = xmax + 1, !.xmax = xmax, !.xbitmap = {}]

\* The group as grp_mark_read() leaves it once the single articles are done.
ScrubBitmap(g, n) ==
  LET xmax == Larger(g.xmax, n.xmax)
  IN  [present |-> n.present, num_unread |-> 0, xmin |-> xmax + 1,
       xmax |-> xmax, xbitlen |-> 0, xbitmap |-> {}]

\* Mutant: the articles become unread but are not counted.
GrpMarkUnreadUncounted(g, n) ==
  LET xmax == Larger(g.xmax, n.xmax)
      xmin == IF g.xmin > 0 THEN g.xmin ELSE n.xmin
  IN  [n EXCEPT !.xmin = xmin, !.xmax = xmax, !.xbitmap = xmin..xmax,
                !.xbitlen = Larger(xmax - xmin + 1, 0)]

\* g is the group after vGrpGetArtInfo().
GrpMarkUnread(g, n) ==
  LET xmax == Larger(g.xmax, n.xmax)
      xmin == IF g.xmin > 0 THEN g.xmin ELSE n.xmin
  IN  [present |-> n.present, num_unread |-> g.count, xmin |-> xmin,
       xmax |-> xmax, xbitlen |-> Larger(xmax - xmin + 1, 0),
       xbitmap |-> xmin..xmax]

-----------------------------------------------------------------------------
(* expand_bitmap(): the window grows down in whole bytes, and up to the    *)
(* group's highest article.                                                *)

RoundUp(k) == ((k + NBITS - 1) \div NBITS) * NBITS

ExpandFirst(n, min) ==
  LET below == IF min >= n.xmin THEN n.xmin ELSE n.xmin - RoundUp(n.xmin - min)
      near  == IF below > n.xmax + 1
               THEN below - RoundUp(below - (n.xmax + 1)) ELSE below
  IN  IF near < 1 THEN 1 ELSE near

\* Articles between the old window and min: the copying branches test their
\* bits before anything has been stored there (the memory is malloc'ed), so
\* num_unread drops by any number of them.
Unset(g, n, min) ==
  IF n.xbitlen > 0 /\ (ExpandFirst(n, min) # n.xmin \/ g.xmax > n.xmax)
  THEN 0..Larger(min - 1 - n.xmax, 0) ELSE {0}

\* Mutant: the fresh bits above the old window stay 0.
ExpandAsRead(g, n, min, unset) ==
  LET max    == Larger(n.xmax, g.xmax)
      first  == ExpandFirst(n, min)
  IN  [n EXCEPT !.present = TRUE, !.xmin = first, !.xmax = max,
                !.xbitlen = Larger(max - first + 1, 0)]

ExpandBitmapTo(g, n, min, unset) ==
  LET max    == Larger(n.xmax, g.xmax)
      first  == ExpandFirst(n, min)
      copied == n.xbitlen > 0 /\ (max # n.xmax \/ first # n.xmin)
      early  == IF copied THEN n.xbitmap \cap (n.xmin..(min - 1)) ELSE {}
      above  == (n.xmin + n.xbitlen)..max
  IN  [present |-> TRUE, xmin |-> first, xmax |-> max,
       num_unread |-> CountDown(n.num_unread, Cardinality(early) + unset)
                      + (max - n.xmax),
       xbitlen |-> Larger(max - first + 1, 0),
       xbitmap |-> IF max < first THEN {}
                   ELSE (n.xbitmap \ early) \cup above]

\* min = 0 stands for "keep the window's low end".
ExpandBitmap(g, n, min, unset) ==
  ExpandBitmapTo(g, n, IF min = 0 THEN n.xmin ELSE min, unset)
UnsetBits(g, n, min) == Unset(g, n, IF min = 0 THEN n.xmin ELSE min)

-----------------------------------------------------------------------------
(* The .newsrc line: print_bitmap_seq() and parse_bitmap_seq().            *)

\* Mutant: a group without articles is written as 1-xmax even for xmax 0.
PrintEmptyRange(g, n) ==
  IF g.count = 0 \/ g.xmin > g.xmax
  THEN {<<1, n.xmax>>}
  ELSE Runs((1..(n.xmin - 1)) \cup ((n.xmin..n.xmax) \ n.xbitmap))

\* Mutant: the articles below the window are left out of the line.
PrintWindowOnly(g, n) == Runs((n.xmin..n.xmax) \ n.xbitmap)

PrintBitmapSeq(g, n) ==
  IF g.count = 0 \/ g.xmin > g.xmax
  THEN IF n.xmax > 1 THEN {<<1, n.xmax>>} ELSE {}
  ELSE Runs((1..(n.xmin - 1)) \cup ((n.xmin..n.xmax) \ n.xbitmap))

\* An empty sequence is read as the range 0-0.
FirstRange(ranges) ==
  IF ranges = {} THEN <<0, 0>>
  ELSE CHOOSE r \in ranges : \A s \in ranges : r[1] <= s[1]

\* The high end of the range that pcParseSubSeq() saw before r.
LastHigh(ranges, high, r) ==
  LET before == {s[2] : s \in {s \in ranges \ {FirstRange(ranges)} : s[1] < r[1]}}
  IN  IF before = {} THEN high ELSE Highest(before)

\* Mutant: the first range is taken to begin at the window's low end.
ParseFromMin(g, ranges) ==
  LET first == FirstRange(ranges)
      rest  == ranges \ {first}
      high  == Larger(first[2], g.xmin - 1)
      min   == Larger(IF first[1] <= 1 THEN high + 1 ELSE 1, g.xmin)
      xmax  == Highest({high, g.xmax} \cup {r[2] : r \in rest})
      unread == (min..xmax) \ ((min..high) \cup Covered(rest))
  IN  [present |-> TRUE, xmin |-> min, xmax |-> xmax, xbitlen |-> xmax - min + 1,
       xbitmap |-> unread, num_unread |-> Cardinality(unread)]

ParseBitmapSeq(g, ranges) ==
  LET first == FirstRange(ranges)
      rest  == ranges \ {first}
      high  == Larger(first[2], g.xmin - 1)
      min   == Larger(IF first[1] <= 1 THEN high + 1 ELSE 1, g.xmin)
      \* "We trust .newsrc's max": a range above the window extends it.
      xmax  == Highest({high, g.xmax} \cup {r[2] : r \in rest})
      end   == IF rest = {} THEN high ELSE Highest({r[2] : r \in rest})
      gaps  == UNION {(LastHigh(ranges, high, r) + 1)..(r[1] - 1) : r \in rest}
      start == IF min <= high /\ first[1] > min THEN first[1] - min ELSE 0
  IN  [present |-> TRUE, xmin |-> min, xmax |-> xmax,
       xbitlen |-> xmax - min + 1,
       xbitmap |-> (min..xmax) \ ((Larger(first[1], min)..high) \cup Covered(rest)),
       num_unread |-> start + Cardinality(gaps) + (xmax - end)]

-----------------------------------------------------------------------------
(* parse_unread_arts(): entering a group rebuilds the bitmap from the      *)
(* articles that could be loaded; every other bit of the window becomes    *)
(* read.                                                                   *)

\* Mutant: the bit is not tested, every loaded article counts as unread.
AllArts(n, arts) == {a \in arts : a >= n.xmin}

UnreadArts(n, arts) ==
  {a \in arts : a >= n.xmin /\ (a > n.xmax \/ a \in n.xbitmap)}

ParseUnreadArts(g, n, arts) ==
  LET xmax   == Larger(g.xmax, n.xmax)
      unread == UnreadArts(n, arts)
  IN  [present |-> n.present, num_unread |-> Cardinality(unread), xmin |-> n.xmin,
       xmax |-> xmax, xbitlen |-> xmax - n.xmin + 1, xbitmap |-> unread]

=============================================================================
