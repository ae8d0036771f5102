------------------------ MODULE NewsrcSessionProofs ------------------------
(***************************************************************************)
(* What the operators of NewsrcBitmap return: every operation of newsrc.c  *)
(* leaves a sound group record and a sound newsrc record sound, and the    *)
(* marks that it is meant to leave; what is written is read back.          *)
(*                                                                         *)
(* Then: the bitmaps of a news session are always sound: type correctness  *)
(* and the invariants BitmapShape, WindowsOK and ArtsInBitmap of           *)
(* NewsrcSession for every set of groups, every number of articles, every  *)
(* size of a byte and every server that refuses GROUP commands.            *)
(*                                                                         *)
(* Then, under "What the operations of a session do to the marks", what it *)
(* does with them: they come back from .newsrc as they were, they change   *)
(* by what the user does and by nothing else, and in the group being read  *)
(* screen, bitmap and counter agree.  Last, what it does with the counts:  *)
(* they hide no group with an unread article, and with crossposts they are *)
(* never too low.                                                          *)
(***************************************************************************)
EXTENDS NewsrcSession, FiniteSetTheorems, WellFoundedInduction, TLAPS

\* A group whose numbers lie in 1..M; an empty group has xmin = xmax + 1.
SoundGroup(g, M) ==
  /\ g \in GroupRecords
  /\ 1 <= g.xmin /\ g.xmin <= g.xmax + 1 /\ g.xmax <= M

\* A newsrc record whose bitmap covers its window, which ends at M or below.
SoundNewsrc(n, M) ==
  /\ n \in NewsrcRecords
  /\ 1 <= n.xmin /\ n.xmax <= M
  /\ n.xbitlen = n.xmax - n.xmin + 1
  /\ n.xbitmap \subseteq n.xmin..n.xmax

-----------------------------------------------------------------------------
(* Lowest and highest elements *)

\* A nonempty set of naturals has a lowest element.
LEMMA LowestOf ==
  ASSUME NEW S, S \subseteq Nat, S # {}
  PROVE  Lowest(S) \in S /\ \A y \in S : Lowest(S) <= y
<1> DEFINE R == {ss \in Nat \X Nat : ss[1] < ss[2]}
<1>1. IsWellFoundedOn(R, Nat)
  BY NatLessThanWellFounded DEF OpToRel
<1>2. PICK x \in S : \A y \in S : <<y, x>> \notin R
  BY <1>1, WFMin, Zenon
<1>3. ASSUME NEW y \in S PROVE x <= y
  <2>1. <<y, x>> \in Nat \X Nat /\ <<y, x>> \notin R
    BY <1>2
  <2>2. ~(<<y, x>>[1] < <<y, x>>[2])
    BY <2>1, Zenon
  <2>3. QED
    BY <2>2
<1>4. QED
  BY <1>3 DEF Lowest

\* A nonempty set of integers not above M has a highest element.
LEMMA HighestOf ==
  ASSUME NEW S, NEW M \in Int, S \subseteq Int, S # {}, \A y \in S : y <= M
  PROVE  Highest(S) \in S /\ \A y \in S : y <= Highest(S)
<1> DEFINE T == {k \in Nat : \E y \in S : k = M - y}
<1>1. T \subseteq Nat /\ T # {}
  <2>1. PICK y \in S : TRUE
    OBVIOUS
  <2>2. M - y \in T
    BY <2>1
  <2>3. QED
    BY <2>2
<1>2. PICK k \in T : \A j \in T : k <= j
  BY <1>1, LowestOf
<1>3. PICK x \in S : k = M - x
  OBVIOUS
<1>4. \A y \in S : y <= x
  BY <1>2, <1>3
<1>5. QED
  BY <1>4 DEF Highest

\* Rounding up to whole bytes never rounds down.
LEMMA RoundUpBound ==
  ASSUME NEW k \in Nat
  PROVE  RoundUp(k) \in Nat /\ k <= RoundUp(k)
<1> DEFINE q == (k + NBITS - 1) \div NBITS
           r == (k + NBITS - 1) % NBITS
<1>1. k + NBITS - 1 \in Nat /\ NBITS \in Nat /\ NBITS > 0
  BY NBITSAssumption
<1>2. q \in Nat /\ r \in Nat /\ r <= NBITS - 1 /\ k + NBITS - 1 = NBITS * q + r
  BY <1>1
<1>3. QED
  BY <1>1, <1>2 DEF RoundUp

-----------------------------------------------------------------------------
(* The operations keep a newsrc record sound *)

\* vSetDefaultBitmap()
LEMMA DefaultSound ==
  ASSUME NEW M \in Nat, NEW g, SoundGroup(g, M)
  PROVE  SoundNewsrc(VSetDefaultBitmap(g), M)
BY DEF VSetDefaultBitmap, SoundGroup, SoundNewsrc, GroupRecords, NewsrcRecords

\* grp_mark_read()
LEMMA ScrubSound ==
  ASSUME NEW M \in Nat, NEW g, SoundGroup(g, M), NEW n, SoundNewsrc(n, M)
  PROVE  SoundNewsrc(ScrubBitmap(g, n), M)
BY DEF ScrubBitmap, SoundGroup, SoundNewsrc, GroupRecords, NewsrcRecords, Larger

\* grp_mark_unread()
LEMMA GrpMarkUnreadSound ==
  ASSUME NEW M \in Nat, NEW g, SoundGroup(g, M), NEW n, SoundNewsrc(n, M)
  PROVE  SoundNewsrc(GrpMarkUnread(g, n), M)
BY DEF GrpMarkUnread, SoundGroup, SoundNewsrc, GroupRecords, NewsrcRecords, Larger

\* The window that expand_bitmap() opens begins at an article number, not
\* after the old window or min.
LEMMA ExpandFirstBound ==
  ASSUME NEW M \in Nat, NEW n, SoundNewsrc(n, M), NEW min \in Nat, min >= 1
  PROVE  LET first == ExpandFirst(n, min)
         IN  first \in Nat /\ 1 <= first /\ first <= n.xmin /\ first <= min
<1> DEFINE below == IF min >= n.xmin THEN n.xmin ELSE n.xmin - RoundUp(n.xmin - min)
           near == IF below > n.xmax + 1
                   THEN below - RoundUp(below - (n.xmax + 1)) ELSE below
<1>1. n.xmin \in Nat /\ n.xmax \in Nat /\ 1 <= n.xmin
  BY DEF SoundNewsrc, NewsrcRecords
<1>2. below \in Int /\ below <= n.xmin /\ below <= min
  <2>1. CASE min >= n.xmin
    BY <1>1, <2>1
  <2>2. CASE min < n.xmin
    <3>1. RoundUp(n.xmin - min) \in Nat /\ n.xmin - min <= RoundUp(n.xmin - min)
      BY <1>1, <2>2, RoundUpBound
    <3>2. QED
      BY <1>1, <2>2, <3>1
  <2>3. QED
    BY <1>1, <2>1, <2>2
<1>3. near \in Int /\ near <= below
  <2>1. CASE below > n.xmax + 1
    <3>1. below - (n.xmax + 1) \in Nat
      BY <1>1, <1>2, <2>1
    <3>2. RoundUp(below - (n.xmax + 1)) \in Nat
      BY <3>1, RoundUpBound
    <3>3. QED
      BY <1>2, <2>1, <3>2
  <2>2. CASE ~(below > n.xmax + 1)
    BY <1>2, <2>2
  <2>3. QED
    BY <2>1, <2>2
<1>4. ExpandFirst(n, min) = IF near < 1 THEN 1 ELSE near
  BY DEF ExpandFirst
<1> HIDE DEF below, near
<1>5. QED
  BY <1>1, <1>2, <1>3, <1>4

\* "if (num) num--" leaves a number.
LEMMA CountDownType ==
  ASSUME NEW num \in Int, NEW k \in Nat
  PROVE  CountDown(num, k) \in Int /\ CountDownPositive(num, k) \in Int
BY DEF CountDown, CountDownPositive, Larger

\* expand_bitmap() for the low end min
LEMMA ExpandToSound ==
  ASSUME NEW M \in Nat, NEW g, SoundGroup(g, M), NEW n, SoundNewsrc(n, M),
         NEW min \in Nat, min >= 1, NEW unset \in Nat
  PROVE  LET e == ExpandBitmapTo(g, n, min, unset)
         IN  /\ SoundNewsrc(e, M)
             /\ e.xmin <= n.xmin /\ e.xmin <= min
             /\ n.xmax <= e.xmax /\ g.xmax <= e.xmax
<1> DEFINE max == Larger(n.xmax, g.xmax)
           first == ExpandFirst(n, min)
           copied == n.xbitlen > 0 /\ (max # n.xmax \/ first # n.xmin)
           early == IF copied THEN n.xbitmap \cap (n.xmin..(min - 1)) ELSE {}
           above == (n.xmin + n.xbitlen)..max
           e == ExpandBitmapTo(g, n, min, unset)
<1>1. /\ n.xmin \in Nat /\ n.xmax \in Nat /\ 1 <= n.xmin /\ n.xmax <= M
      /\ n.xbitlen \in Nat /\ n.xbitlen = n.xmax - n.xmin + 1
      /\ n.num_unread \in Int /\ n.xbitmap \subseteq n.xmin..n.xmax
  BY DEF SoundNewsrc, NewsrcRecords
<1>2. max \in Nat /\ max <= M /\ n.xmax <= max /\ g.xmax <= max
  BY <1>1 DEF SoundGroup, GroupRecords, Larger
<1>3. first \in Nat /\ 1 <= first /\ first <= n.xmin /\ first <= min
  BY ExpandFirstBound
<1>4. Cardinality(early) \in Nat
  <2>0. n.xmin \in Int /\ min - 1 \in Int
    BY <1>1
  <2>1. IsFiniteSet(n.xmin..(min - 1))
    BY <2>0, FS_Interval, Zenon
  <2>2. early \in SUBSET (n.xmin..(min - 1))
    OBVIOUS
  <2>3. QED
    BY <2>1, <2>2, FS_Subset, FS_CardinalityType
<1>5. CountDown(n.num_unread, Cardinality(early) + unset) + (max - n.xmax) \in Int
  <2> DEFINE k == Cardinality(early) + unset
  <2>1. k \in Nat
    BY <1>4
  <2> HIDE DEF k
  <2>2. CountDown(n.num_unread, k) \in Int
    BY <1>1, <2>1, CountDownType
  <2>3. max - n.xmax \in Int
    BY <1>1, <1>2
  <2>4. CountDown(n.num_unread, k) + (max - n.xmax) \in Int
    BY <2>2, <2>3
  <2>5. QED
    BY <2>4 DEF k
<1>6. (n.xbitmap \ early) \cup above \subseteq first..max
  BY <1>1, <1>2, <1>3
<1>7. max - first + 1 \in Nat /\ first <= max + 1 /\ (max < first => first..max = {})
  BY <1>1, <1>2, <1>3
<1>8. e = [present |-> TRUE, xmin |-> first, xmax |-> max,
           num_unread |-> CountDown(n.num_unread, Cardinality(early) + unset)
                          + (max - n.xmax),
           xbitlen |-> Larger(max - first + 1, 0),
           xbitmap |-> IF max < first THEN {} ELSE (n.xbitmap \ early) \cup above]
  BY DEF ExpandBitmapTo
<1>9. Larger(max - first + 1, 0) = max - first + 1
  BY <1>7 DEF Larger
<1>10. first..max \subseteq Nat
  BY <1>2, <1>3
<1> HIDE DEF max, first, early, above, e
<1>11. SoundNewsrc(e, M)
  BY <1>2, <1>3, <1>5, <1>6, <1>7, <1>8, <1>9, <1>10 DEF SoundNewsrc, NewsrcRecords
<1>12. e.xmin = first /\ e.xmax = max
  BY <1>8
<1>13. QED
  BY <1>2, <1>3, <1>11, <1>12 DEF e

\* expand_bitmap()
LEMMA ExpandSound ==
  ASSUME NEW M \in Nat, NEW g, SoundGroup(g, M), NEW n, SoundNewsrc(n, M),
         NEW min \in Nat, NEW unset \in Nat
  PROVE  LET e == ExpandBitmap(g, n, min, unset)
         IN  /\ SoundNewsrc(e, M)
             /\ e.xmin <= n.xmin /\ (min > 0 => e.xmin <= min)
             /\ n.xmax <= e.xmax /\ g.xmax <= e.xmax
<1> DEFINE low == IF min = 0 THEN n.xmin ELSE min
<1>1. low \in Nat /\ low >= 1
  BY DEF SoundNewsrc, NewsrcRecords
<1>2. ExpandBitmap(g, n, min, unset) = ExpandBitmapTo(g, n, low, unset)
  BY DEF ExpandBitmap
<1>3. QED
  BY <1>1, <1>2, ExpandToSound

\* The number of uninitialised bits that may look unread is a natural number.
LEMMA UnsetType ==
  ASSUME NEW M \in Nat, NEW g, NEW n, SoundNewsrc(n, M), NEW min \in Nat
  PROVE  UnsetBits(g, n, min) \subseteq Nat
<1> DEFINE low == IF min = 0 THEN n.xmin ELSE min
<1>1. low \in Nat /\ n.xmax \in Nat
  BY DEF SoundNewsrc, NewsrcRecords
<1>2. Larger(low - 1 - n.xmax, 0) \in Nat
  BY <1>1 DEF Larger
<1>3. QED
  BY <1>2 DEF UnsetBits, Unset

\* print_bitmap_seq() writes ranges of article numbers.
LEMMA PrintType ==
  ASSUME NEW M \in Nat, NEW g, NEW n, SoundNewsrc(n, M)
  PROVE  PrintBitmapSeq(g, n) \subseteq (1..M) \X (1..M)
<1>1. n.xmin \in Nat /\ n.xmax \in Nat /\ 1 <= n.xmin /\ n.xmax <= M /\ n.xmin <= n.xmax + 1
  BY DEF SoundNewsrc, NewsrcRecords
<1> DEFINE S == (1..(n.xmin - 1)) \cup ((n.xmin..n.xmax) \ n.xbitmap)
<1>2. S \subseteq 1..M
  BY <1>1
<1>3. Runs(S) \subseteq (1..M) \X (1..M)
  BY <1>2 DEF Runs
<1>4. n.xmax > 1 => <<1, n.xmax>> \in (1..M) \X (1..M)
  BY <1>1
<1>5. QED
  BY <1>3, <1>4 DEF PrintBitmapSeq

-----------------------------------------------------------------------------
(* parse_bitmap_seq() *)

\* The first range of a line, or 0-0 for an empty line
LEMMA FirstRangeType ==
  ASSUME NEW M \in Nat, NEW ranges, ranges \subseteq (1..M) \X (1..M)
  PROVE  /\ FirstRange(ranges) \in Nat \X Nat
         /\ FirstRange(ranges)[1] <= M /\ FirstRange(ranges)[2] <= M
<1>1. CASE ranges = {}
  <2>1. FirstRange(ranges) = <<0, 0>>
    BY <1>1 DEF FirstRange
  <2>2. QED
    BY <2>1
<1>2. CASE ranges # {}
  <2> DEFINE S == {r[1] : r \in ranges}
  <2>1. S \subseteq Nat /\ S # {}
    BY <1>2
  <2>2. PICK x \in S : \A y \in S : x <= y
    BY <2>1, LowestOf
  <2>3. PICK r \in ranges : x = r[1]
    OBVIOUS
  <2>4. \A q \in ranges : r[1] <= q[1]
    BY <2>2, <2>3
  <2>5. FirstRange(ranges) \in ranges
    BY <1>2, <2>4 DEF FirstRange
  <2>6. QED
    BY <2>5
<1>3. QED
  BY <1>1, <1>2

\* The end of the range before r
LEMMA LastHighType ==
  ASSUME NEW M \in Nat, NEW ranges, ranges \subseteq (1..M) \X (1..M),
         NEW peak \in Nat, NEW r
  PROVE  LastHigh(ranges, peak, r) \in Nat
<1> DEFINE before == {s[2] : s \in {s \in ranges \ {FirstRange(ranges)} : s[1] < r[1]}}
<1>1. M \in Int /\ before \subseteq Int /\ before \subseteq Nat /\ \A y \in before : y <= M
  OBVIOUS
<1>2. LastHigh(ranges, peak, r) = IF before = {} THEN peak ELSE Highest(before)
  BY DEF LastHigh
<1>3. CASE before = {}
  BY <1>2, <1>3
<1>4. CASE before # {}
  <2> HIDE DEF before
  <2>1. Highest(before) \in before
    BY <1>1, <1>4, HighestOf, Zenon
  <2>2. QED
    BY <1>1, <1>2, <1>4, <2>1
<1>5. QED
  BY <1>3, <1>4

\* A line of article numbers gives a sound newsrc record.
LEMMA ParseSound ==
  ASSUME NEW M \in Nat, NEW g, SoundGroup(g, M),
         NEW ranges, ranges \subseteq (1..M) \X (1..M)
  PROVE  SoundNewsrc(ParseBitmapSeq(g, ranges), M)
<1> DEFINE first == FirstRange(ranges)
           rest == ranges \ {first}
           peak == Larger(first[2], g.xmin - 1)
           min == Larger(IF first[1] <= 1 THEN peak + 1 ELSE 1, g.xmin)
           tops == {peak, g.xmax} \cup {r[2] : r \in rest}
           xmax == Highest(tops)
           end == IF rest = {} THEN peak ELSE Highest({r[2] : r \in rest})
           gaps == UNION {(LastHigh(ranges, peak, r) + 1)..(r[1] - 1) : r \in rest}
           start == IF min <= peak /\ first[1] > min THEN first[1] - min ELSE 0
           bits == (min..xmax) \ ((Larger(first[1], min)..peak) \cup Covered(rest))
<1>1. /\ g.xmin \in Nat /\ g.xmax \in Nat
      /\ 1 <= g.xmin /\ g.xmin <= g.xmax + 1 /\ g.xmax <= M
  BY DEF SoundGroup, GroupRecords
<1>2. first \in Nat \X Nat /\ first[1] <= M /\ first[2] <= M
  BY FirstRangeType
<1>3. peak \in Nat /\ peak <= M /\ g.xmin - 1 <= peak
  BY <1>1, <1>2 DEF Larger
<1>4. min \in Nat /\ 1 <= min /\ min <= peak + 1
  BY <1>1, <1>2, <1>3 DEF Larger
<1>5. {r[2] : r \in rest} \subseteq Int /\ \A y \in {r[2] : r \in rest} : y <= M
  OBVIOUS
<1>6. M \in Int /\ tops \subseteq Int /\ tops # {} /\ \A y \in tops : y <= M
  BY <1>1, <1>3, <1>5
<1>7. xmax \in tops /\ peak <= xmax
  <2>1. Highest(tops) \in tops /\ \A y \in tops : y <= Highest(tops)
    <3> HIDE DEF tops
    <3>1. QED
      BY <1>6, HighestOf, Zenon
  <2>2. peak \in tops
    OBVIOUS
  <2>3. QED
    BY <2>1, <2>2, Zenon
<1>8. xmax \in Nat /\ xmax <= M
  BY <1>3, <1>6, <1>7
<1>9. end \in Int
  <2> DEFINE ends == {r[2] : r \in rest}
  <2>1. M \in Int /\ ends \subseteq Int /\ \A y \in ends : y <= M
    BY <1>5
  <2>2. rest # {} => ends # {}
    OBVIOUS
  <2>3. end = IF rest = {} THEN peak ELSE Highest(ends)
    OBVIOUS
  <2> HIDE DEF ends, end
  <2>4. rest # {} => Highest(ends) \in ends
    BY <2>1, <2>2, HighestOf, Zenon
  <2>5. peak \in Int
    BY <1>3
  <2>6. QED
    BY <2>1, <2>3, <2>4, <2>5, Zenon
<1>10. Cardinality(gaps) \in Nat
  <2>1. ASSUME NEW r \in rest
        PROVE  (LastHigh(ranges, peak, r) + 1)..(r[1] - 1) \subseteq 0..M
    <3>1. LastHigh(ranges, peak, r) \in Nat
      BY <1>3, LastHighType
    <3>2. r[1] \in 1..M
      OBVIOUS
    <3>3. QED
      BY <3>1, <3>2
  <2>2. gaps \in SUBSET (0..M)
    BY <2>1
  <2>3. 0 \in Int /\ M \in Int
    OBVIOUS
  <2>4. IsFiniteSet(0..M)
    BY <2>3, FS_Interval, Zenon
  <2>5. QED
    BY <2>2, <2>4, FS_Subset, FS_CardinalityType
<1>11. start \in Int
  BY <1>2, <1>4
<1>12. bits \subseteq min..xmax /\ bits \subseteq Nat
  BY <1>4, <1>8
<1>13. ParseBitmapSeq(g, ranges) =
         [present |-> TRUE, xmin |-> min, xmax |-> xmax, xbitlen |-> xmax - min + 1,
          xbitmap |-> bits, num_unread |-> start + Cardinality(gaps) + (xmax - end)]
  BY DEF ParseBitmapSeq
<1> HIDE DEF first, rest, peak, min, tops, xmax, end, gaps, start, bits
<1>14. start + Cardinality(gaps) + (xmax - end) \in Int
  BY <1>8, <1>9, <1>10, <1>11
<1>15. xmax - min + 1 \in Nat
  BY <1>3, <1>4, <1>7, <1>8
<1>16. QED
  BY <1>4, <1>8, <1>12, <1>13, <1>14, <1>15 DEF SoundNewsrc, NewsrcRecords

\* parse_unread_arts() for articles that the enlarged window holds
LEMMA ParseUnreadSound ==
  ASSUME NEW M \in Nat, NEW g, SoundGroup(g, M), NEW n, SoundNewsrc(n, M),
         NEW spooled, spooled \subseteq 1..Larger(g.xmax, n.xmax)
  PROVE  LET p == ParseUnreadArts(g, n, spooled)
         IN  /\ SoundNewsrc(p, M)
             /\ p.xmin = n.xmin /\ n.xmax <= p.xmax /\ g.xmax <= p.xmax
<1> DEFINE xmax == Larger(g.xmax, n.xmax)
           unread == UnreadArts(n, spooled)
<1>1. /\ n.xmin \in Nat /\ n.xmax \in Nat /\ 1 <= n.xmin /\ n.xmax <= M
      /\ n.xmin <= n.xmax + 1 /\ n.present \in BOOLEAN
  BY DEF SoundNewsrc, NewsrcRecords
<1>2. xmax \in Nat /\ xmax <= M /\ n.xmax <= xmax /\ g.xmax <= xmax
  BY <1>1 DEF SoundGroup, GroupRecords, Larger
<1>3. unread \in SUBSET (n.xmin..xmax)
  <2>1. \A a \in unread : a \in 1..xmax /\ n.xmin <= a
    BY DEF UnreadArts
  <2> HIDE DEF xmax, unread
  <2>2. \A a \in unread : a \in n.xmin..xmax
    BY <1>1, <1>2, <2>1
  <2>3. QED
    BY <2>2
<1>4. n.xmin \in Int /\ xmax \in Int
  BY <1>1, <1>2
<1>5. IsFiniteSet(n.xmin..xmax)
  BY <1>4, FS_Interval, Zenon
<1>6. Cardinality(unread) \in Nat
  BY <1>3, <1>5, FS_Subset, FS_CardinalityType
<1>7. ParseUnreadArts(g, n, spooled) =
        [present |-> n.present, num_unread |-> Cardinality(unread), xmin |-> n.xmin,
         xmax |-> xmax, xbitlen |-> xmax - n.xmin + 1, xbitmap |-> unread]
  BY DEF ParseUnreadArts
<1> HIDE DEF xmax, unread
<1>8. unread \subseteq Nat
  BY <1>1, <1>2, <1>3
<1>9. SoundNewsrc(ParseUnreadArts(g, n, spooled), M)
  BY <1>1, <1>2, <1>3, <1>6, <1>7, <1>8 DEF SoundNewsrc, NewsrcRecords
<1>10. QED
  BY <1>2, <1>7, <1>9

-----------------------------------------------------------------------------
(* The runs of a set *)

\* The runs of a set cover it and nothing else.
LEMMA CoveredRuns ==
  ASSUME NEW M \in Nat, NEW S, S \subseteq 1..M
  PROVE  Covered(Runs(S)) = S
<1>1. ASSUME NEW x \in S PROVE \E r \in Runs(S) : x \in r[1]..r[2]
  <2> DEFINE Down == {y \in 1..x : y..x \subseteq S}
             Up == {y \in x..M : x..y \subseteq S}
             lo == Lowest(Down)
             hi == Highest(Up)
  <2>1. x \in Nat /\ 1 <= x /\ x <= M
    OBVIOUS
  <2>2. x \in Down /\ x \in Up
    BY <2>1
  <2>3. lo \in Down /\ \A y \in Down : lo <= y
    <3> HIDE DEF lo
    <3>1. Down \subseteq Nat /\ Down # {}
      BY <2>2
    <3> HIDE DEF Down
    <3>2. QED
      BY <3>1, LowestOf DEF lo
  <2>4. hi \in Up /\ \A y \in Up : y <= hi
    <3> HIDE DEF hi
    <3>1. M \in Int /\ Up \subseteq Int /\ Up # {} /\ \A y \in Up : y <= M
      BY <2>1, <2>2
    <3> HIDE DEF Up
    <3>2. QED
      BY <3>1, HighestOf DEF hi
  <2> HIDE DEF lo, hi
  <2>5. /\ lo \in Nat /\ 1 <= lo /\ lo <= x /\ lo..x \subseteq S
        /\ hi \in Nat /\ x <= hi /\ hi <= M /\ x..hi \subseteq S
    BY <2>1, <2>3, <2>4
  <2>6. lo - 1 \notin S
    <3> SUFFICES ASSUME lo - 1 \in S PROVE FALSE
      OBVIOUS
    <3>1. lo - 1 \in 1..x
      BY <2>5
    <3>2. (lo - 1)..x \subseteq S
      BY <2>1, <2>5
    <3>3. lo - 1 \in Down
      BY <3>1, <3>2
    <3>4. QED
      BY <2>3, <2>5, <3>3
  <2>7. hi + 1 \notin S
    <3> SUFFICES ASSUME hi + 1 \in S PROVE FALSE
      OBVIOUS
    <3>1. hi + 1 \in x..M
      BY <2>1, <2>5
    <3>2. x..(hi + 1) \subseteq S
      BY <2>1, <2>5
    <3>3. hi + 1 \in Up
      BY <3>1, <3>2
    <3>4. QED
      BY <2>4, <2>5, <3>3
  <2>8. lo..hi \subseteq S /\ lo \in S /\ hi \in S /\ lo <= hi
    BY <2>1, <2>5
  <2>9. <<lo, hi>> \in Runs(S)
    BY <2>6, <2>7, <2>8 DEF Runs
  <2>10. x \in lo..hi
    BY <2>1, <2>5
  <2>11. QED
    BY <2>9, <2>10
<1>2. ASSUME NEW r \in Runs(S) PROVE r[1]..r[2] \subseteq S
  BY DEF Runs
<1>3. QED
  BY <1>1, <1>2 DEF Covered

\* The first range of a line that print_bitmap_seq() wrote, and the others
LEMMA FirstOfRuns ==
  ASSUME NEW M \in Nat, NEW S, S \subseteq 1..M, S # {}
  PROVE  LET first == FirstRange(Runs(S))
             rest  == Runs(S) \ {first}
         IN  /\ first \in Runs(S) /\ rest \subseteq (1..M) \X (1..M)
             /\ 1 <= first[1] /\ first[1] <= first[2] /\ first[2] <= M
             /\ first[1] \in Nat /\ first[2] \in Nat
             /\ S = (first[1]..first[2]) \cup Covered(rest)
<1> DEFINE R == Runs(S)
           lows == {r[1] : r \in R}
           first == FirstRange(R)
<1>1. \A r \in R : r \in (1..M) \X (1..M) /\ r[1] <= r[2]
  BY DEF Runs
<1>2. Covered(R) = S
  BY CoveredRuns
<1>3. R # {}
  BY <1>2 DEF Covered
<1> HIDE DEF R
<1>4. lows \subseteq Nat /\ lows # {}
  BY <1>1, <1>3
<1>5. Lowest(lows) \in lows /\ \A y \in lows : Lowest(lows) <= y
  <2> HIDE DEF lows
  <2>1. QED
    BY <1>4, LowestOf
<1>6. \E r \in R : \A s \in R : r[1] <= s[1]
  BY <1>5
<1>7. first \in R
  BY <1>3, <1>6 DEF FirstRange
<1> HIDE DEF first
<1>8. Covered(R) = (first[1]..first[2]) \cup Covered(R \ {first})
  BY <1>7 DEF Covered
<1>9. first \in (1..M) \X (1..M) /\ first[1] <= first[2]
  BY <1>1, <1>7
<1>10. R \ {first} \subseteq (1..M) \X (1..M)
  BY <1>1
<1>11. /\ first \in R /\ R \ {first} \subseteq (1..M) \X (1..M)
       /\ 1 <= first[1] /\ first[1] <= first[2] /\ first[2] <= M
       /\ first[1] \in Nat /\ first[2] \in Nat
       /\ S = (first[1]..first[2]) \cup Covered(R \ {first})
  BY <1>2, <1>7, <1>8, <1>9, <1>10
<1>12. QED
  BY <1>11 DEF first, R

\* What parse_bitmap_seq() makes of a line: its window begins at min, and
\* what is read in it is the end of the first range and the other ranges.
LEMMA ParsedReads ==
  ASSUME NEW M \in Nat, NEW h, SoundGroup(h, M),
         NEW ranges, ranges \ {FirstRange(ranges)} \subseteq (1..M) \X (1..M),
         NEW f1 \in Nat, NEW f2 \in Nat, FirstRange(ranges) = <<f1, f2>>,
         NEW a \in Nat
  PROVE  LET peak == Larger(f2, h.xmin - 1)
             min  == Larger(IF f1 <= 1 THEN peak + 1 ELSE 1, h.xmin)
         IN  IsRead(ParseBitmapSeq(h, ranges), a) <=>
               \/ a < min
               \/ a \in Larger(f1, min)..peak
               \/ a \in Covered(ranges \ {FirstRange(ranges)})
<1> DEFINE rest == ranges \ {FirstRange(ranges)}
           peak == Larger(f2, h.xmin - 1)
           min == Larger(IF f1 <= 1 THEN peak + 1 ELSE 1, h.xmin)
           ends == {peak, h.xmax} \cup {r[2] : r \in rest}
           xmax == Highest(ends)
           m == ParseBitmapSeq(h, ranges)
<1>1. /\ h.xmin \in Nat /\ h.xmax \in Nat /\ 1 <= h.xmin
      /\ peak \in Nat /\ min \in Nat
  BY DEF SoundGroup, GroupRecords, Larger
<1>2. m.xmin = min /\ m.xmax = xmax /\ m.xbitmap = (min..xmax) \ ((Larger(f1, min)..peak) \cup Covered(rest))
  BY DEF ParseBitmapSeq
<1> HIDE DEF m, min, peak
<1>3. xmax \in ends /\ \A y \in ends : y <= xmax
  <2> DEFINE top == Larger(M, Larger(peak, h.xmax))
  <2>1. top \in Int /\ ends \subseteq Int /\ ends # {} /\ \A y \in ends : y <= top
    BY <1>1 DEF Larger
  <2> HIDE DEF top, ends
  <2>2. QED
    BY <2>1, HighestOf
<1>4. xmax \in Int /\ peak <= xmax
  BY <1>1, <1>3
<1>5. a \in Covered(rest) => a <= xmax
  <2> SUFFICES ASSUME a \in Covered(rest) PROVE a <= xmax
    OBVIOUS
  <2>1. PICK r \in rest : a \in r[1]..r[2]
    BY DEF Covered
  <2>2. r[2] \in ends /\ r[1] \in Int /\ r[2] \in Int
    OBVIOUS
  <2>3. r[2] <= xmax
    BY <1>3, <2>2
  <2>4. QED
    BY <1>4, <2>1, <2>2, <2>3
<1> HIDE DEF xmax, ends
<1>6. Larger(f1, min) \in Nat /\ Larger(f1, min) >= min
  BY <1>1 DEF Larger
<1>7. IsRead(m, a) <=> a < min \/ (a <= xmax /\ (a \in Larger(f1, min)..peak \/ a \in Covered(rest)))
  BY <1>1, <1>2, <1>4 DEF IsRead
<1>8. a \in Larger(f1, min)..peak => a <= xmax
  BY <1>1, <1>4, <1>6
<1>9. IsRead(m, a) <=> a < min \/ a \in Larger(f1, min)..peak \/ a \in Covered(rest)
  BY <1>5, <1>7, <1>8
<1>10. QED
  BY <1>9 DEF m, min, peak

\* Loading what print_bitmap_seq() wrote for the read articles S: they are
\* read again, and whatever is below the group's lowest article.
LEMMA ParseRuns ==
  ASSUME NEW M \in Nat, NEW h, SoundGroup(h, M), NEW S, S \subseteq 1..M,
         NEW a \in Nat, 1 <= a
  PROVE  IsRead(ParseBitmapSeq(h, Runs(S)), a) <=> a < h.xmin \/ a \in S
<1>1. h.xmin \in Nat /\ 1 <= h.xmin
  BY DEF SoundGroup, GroupRecords
<1>2. CASE S = {}
  <2>1. Runs(S) = {} /\ FirstRange(Runs(S)) = <<0, 0>>
    BY <1>2 DEF Runs, FirstRange
  <2>2. Covered(Runs(S) \ {FirstRange(Runs(S))}) = {}
    BY <2>1 DEF Covered
  <2>3. Runs(S) \ {FirstRange(Runs(S))} \subseteq (1..M) \X (1..M)
    BY <2>1
  <2>4. LET peak == Larger(0, h.xmin - 1)
            min  == Larger(IF 0 <= 1 THEN peak + 1 ELSE 1, h.xmin)
        IN  IsRead(ParseBitmapSeq(h, Runs(S)), a) <=>
              \/ a < min
              \/ a \in Larger(0, min)..peak
              \/ a \in Covered(Runs(S) \ {FirstRange(Runs(S))})
    BY <2>1, <2>3, ParsedReads
  <2>5. Larger(0, h.xmin - 1) = h.xmin - 1 /\ Larger(h.xmin - 1 + 1, h.xmin) = h.xmin
        /\ Larger(0, h.xmin) = h.xmin
    BY <1>1 DEF Larger
  <2>6. IsRead(ParseBitmapSeq(h, Runs(S)), a) <=>
          a < h.xmin \/ a \in h.xmin..(h.xmin - 1)
    BY <2>2, <2>4, <2>5
  <2>7. QED
    BY <1>1, <1>2, <2>6
<1>3. CASE S # {}
  <2> DEFINE first == FirstRange(Runs(S))
             rest == Runs(S) \ {first}
             f1 == first[1]
             f2 == first[2]
  <2>1. /\ first \in Runs(S) /\ rest \subseteq (1..M) \X (1..M)
        /\ 1 <= f1 /\ f1 <= f2 /\ f2 <= M /\ f1 \in Nat /\ f2 \in Nat
        /\ S = (f1..f2) \cup Covered(rest)
    BY <1>3, FirstOfRuns
  <2>2. first = <<f1, f2>>
    BY <2>1 DEF Runs
  <2> HIDE DEF f1, f2
  <2> DEFINE peak == Larger(f2, h.xmin - 1)
             min == Larger(IF f1 <= 1 THEN peak + 1 ELSE 1, h.xmin)
  <2>3. IsRead(ParseBitmapSeq(h, Runs(S)), a) <=>
          a < min \/ a \in Larger(f1, min)..peak \/ a \in Covered(rest)
    BY <2>1, <2>2, ParsedReads
  <2> HIDE DEF first, rest
  <2>4. CASE f1 <= 1
    <3>1. min = peak + 1 /\ Larger(f1, min) = peak + 1 /\ peak \in Nat
      BY <1>1, <2>1, <2>4 DEF Larger
    <3>2. (a < min \/ a \in Larger(f1, min)..peak) <=> a <= peak
      <4> HIDE DEF peak, min
      <4>1. QED
        BY <3>1
    <3>3. a <= peak <=> a < h.xmin \/ a \in f1..f2
      BY <1>1, <2>1, <2>4 DEF Larger
    <3>4. QED
      BY <2>1, <2>3, <3>2, <3>3
  <2>5. CASE f1 > 1
    <3>1. min = h.xmin
      BY <1>1, <2>1, <2>5 DEF Larger
    <3>2. (a < min \/ a \in Larger(f1, min)..peak) <=> a < h.xmin \/ a \in f1..f2
      BY <1>1, <2>1, <3>1 DEF Larger
    <3>3. QED
      BY <2>1, <2>3, <3>2
  <2>6. QED
    BY <2>1, <2>4, <2>5
<1>4. QED
  BY <1>2, <1>3

\* The single range that is written for a group taken for empty
LEMMA ParseOneRange ==
  ASSUME NEW M \in Nat, NEW h, SoundGroup(h, M), NEW x \in Nat, x <= M,
         NEW a \in Nat, 1 <= a
  PROVE  IsRead(ParseBitmapSeq(h, {<<1, x>>}), a) <=> a < h.xmin \/ a <= x
<1> DEFINE line == {<<1, x>>}
           peak == Larger(x, h.xmin - 1)
<1>1. h.xmin \in Nat /\ 1 <= h.xmin
  BY DEF SoundGroup, GroupRecords
<1>2. FirstRange(line) = <<1, x>>
  <2>1. \E r \in line : \A s \in line : r[1] <= s[1]
    OBVIOUS
  <2>2. FirstRange(line) \in line
    BY <2>1 DEF FirstRange
  <2>3. QED
    BY <2>2
<1>3. line \ {FirstRange(line)} = {} /\ Covered(line \ {FirstRange(line)}) = {}
  BY <1>2 DEF Covered
<1>4. LET min == Larger(IF 1 <= 1 THEN peak + 1 ELSE 1, h.xmin)
      IN  IsRead(ParseBitmapSeq(h, line), a) <=>
            a < min \/ a \in Larger(1, min)..peak \/ a \in Covered(line \ {FirstRange(line)})
  <2>1. line \ {FirstRange(line)} \subseteq (1..M) \X (1..M)
    BY <1>3
  <2> HIDE DEF line
  <2>2. QED
    BY <1>2, <2>1, ParsedReads
<1>5. /\ peak \in Nat /\ Larger(peak + 1, h.xmin) = peak + 1
      /\ Larger(1, peak + 1) = peak + 1
  BY <1>1 DEF Larger
<1>6. IsRead(ParseBitmapSeq(h, line), a) <=> a <= peak
  <2> HIDE DEF line, peak
  <2>1. QED
    BY <1>3, <1>4, <1>5
<1>7. a <= peak <=> a < h.xmin \/ a <= x
  BY <1>1 DEF Larger
<1>8. QED
  BY <1>6, <1>7

-----------------------------------------------------------------------------
(* What the operations on bitmaps do to the marks *)

\* Saving a group and loading it into the entry h: what was read is read, and
\* what lies below the group's lowest article.
LEMMA LoadedAsWritten ==
  ASSUME NEW M \in Nat, NEW h, SoundGroup(h, M), NEW g, NEW n, SoundNewsrc(n, M),
         NEW a \in Nat, 1 <= a
  PROVE  LET read == IsRead(ParseBitmapSeq(h, PrintBitmapSeq(g, n)), a)
             empty == g.count = 0 \/ g.xmin > g.xmax
         IN  /\ ~empty => (read <=> a < h.xmin \/ IsRead(n, a))
             /\ empty /\ n.xmax > 1 => (read <=> a < h.xmin \/ a <= n.xmax)
<1> DEFINE S == (1..(n.xmin - 1)) \cup ((n.xmin..n.xmax) \ n.xbitmap)
           empty == g.count = 0 \/ g.xmin > g.xmax
<1>1. /\ n.xmin \in Nat /\ n.xmax \in Nat /\ 1 <= n.xmin /\ n.xmax <= M
      /\ n.xmin <= n.xmax + 1 /\ n.xbitmap \subseteq n.xmin..n.xmax
  BY DEF SoundNewsrc, NewsrcRecords
<1>2. S \subseteq 1..M
  BY <1>1
<1>3. a \in S <=> IsRead(n, a)
  BY <1>1 DEF IsRead
<1> HIDE DEF S
<1>4. ASSUME ~empty PROVE PrintBitmapSeq(g, n) = Runs(S)
  BY <1>4 DEF PrintBitmapSeq, S
<1>5. ASSUME empty, n.xmax > 1 PROVE PrintBitmapSeq(g, n) = {<<1, n.xmax>>}
  BY <1>5 DEF PrintBitmapSeq
<1>6. IsRead(ParseBitmapSeq(h, Runs(S)), a) <=> a < h.xmin \/ a \in S
  BY <1>2, ParseRuns
<1>7. IsRead(ParseBitmapSeq(h, {<<1, n.xmax>>}), a) <=> a < h.xmin \/ a <= n.xmax
  BY <1>1, ParseOneRange
<1>8. QED
  BY <1>3, <1>4, <1>5, <1>6, <1>7

\* A line without marks
LEMMA LoadedEmpty ==
  ASSUME NEW M \in Nat, NEW h, SoundGroup(h, M), NEW a \in Nat, 1 <= a
  PROVE  IsRead(ParseBitmapSeq(h, {}), a) <=> a < h.xmin
<1>1. Runs({}) = {} /\ {} \subseteq 1..M
  BY DEF Runs
<1>2. IsRead(ParseBitmapSeq(h, Runs({})), a) <=> a < h.xmin \/ a \in {}
  BY <1>1, ParseRuns
<1>3. QED
  BY <1>1, <1>2

\* expand_bitmap() turns nothing into unread, and into read only what lies
\* below the group's first article.
LEMMA ExpandMarks ==
  ASSUME NEW M \in Nat, NEW g, SoundGroup(g, M), NEW n, SoundNewsrc(n, M),
         NEW min \in Nat, NEW unset \in Nat, NEW a \in Nat
  PROVE  LET e == ExpandBitmap(g, n, min, unset)
         IN  /\ IsRead(n, a) => IsRead(e, a)
             /\ (min = 0 \/ a >= min) /\ IsRead(e, a) => IsRead(n, a)
<1> DEFINE low == IF min = 0 THEN n.xmin ELSE min
           e == ExpandBitmapTo(g, n, low, unset)
           max == Larger(n.xmax, g.xmax)
           first == ExpandFirst(n, low)
           copied == n.xbitlen > 0 /\ (max # n.xmax \/ first # n.xmin)
           early == IF copied THEN n.xbitmap \cap (n.xmin..(low - 1)) ELSE {}
           above == (n.xmin + n.xbitlen)..max
<1>1. /\ n.xmin \in Nat /\ n.xmax \in Nat /\ 1 <= n.xmin
      /\ n.xbitlen = n.xmax - n.xmin + 1 /\ n.xbitlen \in Nat
      /\ n.xbitmap \subseteq n.xmin..n.xmax /\ g.xmax \in Nat
  BY DEF SoundNewsrc, NewsrcRecords, SoundGroup, GroupRecords
<1>2. low \in Nat /\ 1 <= low
  BY <1>1
<1>3. /\ e.xmin = first /\ e.xmax = max
      /\ e.xbitmap = IF max < first THEN {} ELSE (n.xbitmap \ early) \cup above
  BY DEF ExpandBitmapTo
<1>4. first \in Nat /\ 1 <= first /\ first <= n.xmin
  BY <1>2, ExpandFirstBound
<1>5. max \in Nat /\ n.xmax <= max /\ above = (n.xmax + 1)..max
  BY <1>1 DEF Larger
<1>6. early \subseteq n.xmin..(low - 1) /\ early \subseteq n.xbitmap
  OBVIOUS
<1>7. ExpandBitmap(g, n, min, unset) = e
  BY DEF ExpandBitmap
<1> HIDE DEF e, first, max, early, above
<1>8. IsRead(n, a) => IsRead(e, a)
  BY <1>1, <1>3, <1>4, <1>5 DEF IsRead
<1>9. (min = 0 \/ a >= min) => a \notin early
  BY <1>1, <1>2, <1>6
<1>10. (min = 0 \/ a >= min) /\ IsRead(e, a) => IsRead(n, a)
  BY <1>1, <1>3, <1>4, <1>5, <1>9 DEF IsRead
<1>11. QED
  BY <1>7, <1>8, <1>10

\* grp_mark_unread() leaves no article of the group read.
LEMMA GrpMarkUnreadMarks ==
  ASSUME NEW M \in Nat, NEW g, SoundGroup(g, M), NEW n, SoundNewsrc(n, M),
         NEW a \in Nat, g.xmin <= a
  PROVE  ~IsRead(GrpMarkUnread(g, n), a)
BY DEF GrpMarkUnread, IsRead, SoundGroup, GroupRecords, SoundNewsrc, NewsrcRecords, Larger

\* grp_mark_read() reads everything that was read, and all of the window.
LEMMA ScrubMarks ==
  ASSUME NEW M \in Nat, NEW g, SoundGroup(g, M), NEW n, SoundNewsrc(n, M), NEW a \in Nat
  PROVE  IsRead(ScrubBitmap(g, n), a) <=> a <= g.xmax \/ a <= n.xmax
BY DEF ScrubBitmap, IsRead, SoundGroup, GroupRecords, SoundNewsrc, NewsrcRecords, Larger


-----------------------------------------------------------------------------
(* The counter *)

\* What parse_bitmap_seq() leaves unread, with f1 the low end of the first range,
\* the gaps between the others, and the peak end of the last one
UnreadBits(ranges, f1, peak, min, xmax) ==
  (min..xmax) \ ((Larger(f1, min)..peak) \cup Covered(ranges \ {FirstRange(ranges)}))
Gaps(ranges, peak) ==
  UNION {(LastHigh(ranges, peak, r) + 1)..(r[1] - 1) : r \in ranges \ {FirstRange(ranges)}}
LastEnd(ranges, peak) ==
  IF ranges \ {FirstRange(ranges)} = {} THEN peak
  ELSE Highest({r[2] : r \in ranges \ {FirstRange(ranges)}})

\* The bits that parse_bitmap_seq() leaves unread lie before the first range,
\* in a gap between two ranges, or behind the last one.
LEMMA ParseGaps ==
  ASSUME NEW M \in Nat, NEW ranges,
         ranges \ {FirstRange(ranges)} \subseteq (1..M) \X (1..M),
         NEW f1 \in Nat, NEW peak \in Nat, NEW min \in Nat, NEW xmax \in Nat,
         NEW a \in UnreadBits(ranges, f1, peak, min, xmax)
  PROVE  \/ a < f1 /\ min <= peak
         \/ a \in Gaps(ranges, peak)
         \/ LastEnd(ranges, peak) < a
<1> DEFINE rest == ranges \ {FirstRange(ranges)}
           end == LastEnd(ranges, peak)
<1>0. end = IF rest = {} THEN peak ELSE Highest({r[2] : r \in rest})
  BY DEF LastEnd
<1> HIDE DEF end
<1>1. /\ a \in Nat /\ min <= a /\ a <= xmax
      /\ ~(Larger(f1, min) <= a /\ a <= peak)
      /\ \A s \in rest : ~(s[1] <= a /\ a <= s[2])
  BY DEF UnreadBits, Covered, Larger
<1>2. CASE a <= peak
  BY <1>1, <1>2 DEF Larger
<1>3. CASE a > peak /\ rest # {} /\ a <= end
  <2> DEFINE ends == {r[2] : r \in rest}
             later == {r[1] : r \in {r \in rest : a < r[1]}}
  <2>1. ends \subseteq Int /\ M \in Int /\ ends # {} /\ \A y \in ends : y <= M
    BY <1>3
  <2>2. end \in ends
    <3>0. end = Highest(ends)
      BY <1>0, <1>3
    <3> HIDE DEF ends
    <3>1. QED
      BY <2>1, <3>0, HighestOf, Zenon
  <2>3. PICK r0 \in rest : r0[2] = end
    BY <2>2
  <2>4. r0[1] \in later
    BY <1>1, <1>3, <2>3
  <2>5. later \subseteq Nat /\ later # {}
    BY <2>4
  <2>6. Lowest(later) \in later /\ \A y \in later : Lowest(later) <= y
    <3> HIDE DEF later
    <3>1. QED
      BY <2>5, LowestOf
  <2>7. PICK r \in rest : a < r[1] /\ r[1] = Lowest(later)
    BY <2>6
  <2> DEFINE before == {s[2] : s \in {s \in ranges \ {FirstRange(ranges)} : s[1] < r[1]}}
  <2>8. \A y \in before : y \in 1..M /\ y < a
    <3> SUFFICES ASSUME NEW s \in rest, s[1] < r[1] PROVE s[2] \in 1..M /\ s[2] < a
      OBVIOUS
    <3>1. ~(a < s[1])
      <4>1. a < s[1] => s[1] \in later
        OBVIOUS
      <4>2. a < s[1] => r[1] <= s[1]
        BY <2>6, <2>7, <4>1
      <4>3. s[1] \in Nat /\ r[1] \in Nat
        OBVIOUS
      <4> HIDE DEF later
      <4>4. QED
        BY <4>2, <4>3
    <3>2. s[1] \in Nat /\ s[2] \in Nat /\ s[2] \in 1..M
      OBVIOUS
    <3>3. QED
      BY <1>1, <3>1, <3>2
  <2>9. LastHigh(ranges, peak, r) = IF before = {} THEN peak ELSE Highest(before)
    BY DEF LastHigh
  <2>10. before # {} => Highest(before) \in before
    <3>1. M \in Int /\ before \subseteq Int /\ \A y \in before : y <= M
      BY <2>8
    <3> HIDE DEF before
    <3>2. QED
      BY <3>1, HighestOf, Zenon
  <2>11. LastHigh(ranges, peak, r) \in Nat /\ LastHigh(ranges, peak, r) < a
    <3> HIDE DEF before
    <3>1. QED
      BY <1>1, <1>3, <2>8, <2>9, <2>10
  <2>12. r[1] \in Nat
    OBVIOUS
  <2>13. a \in (LastHigh(ranges, peak, r) + 1)..(r[1] - 1)
    BY <1>1, <2>7, <2>11, <2>12
  <2>14. QED
    BY <2>13 DEF Gaps
<1>4. CASE rest # {} /\ ~(a <= end)
  <2> DEFINE ends == {r[2] : r \in rest}
  <2>1. ends \subseteq Int /\ M \in Int /\ ends # {} /\ \A y \in ends : y <= M
    BY <1>4
  <2>2. end \in ends
    <3>1. end = Highest(ends)
      BY <1>0, <1>4
    <3> HIDE DEF ends
    <3>2. QED
      BY <2>1, <3>1, HighestOf, Zenon
  <2>3. end \in Int
    <3> HIDE DEF ends
    <3>1. QED
      BY <2>1, <2>2
  <2>4. QED
    BY <1>1, <1>4, <2>3 DEF end
<1>5. CASE a > peak /\ rest = {}
  BY <1>0, <1>5 DEF end
<1>6. QED
  BY <1>1, <1>2, <1>3, <1>4, <1>5

\* Three sets together have no more elements than one by one.
LEMMA UnionCount ==
  ASSUME NEW A, IsFiniteSet(A), NEW B, IsFiniteSet(B), NEW C, IsFiniteSet(C)
  PROVE  /\ IsFiniteSet((A \cup B) \cup C)
         /\ Cardinality((A \cup B) \cup C) <= Cardinality(A) + Cardinality(B) + Cardinality(C)
<1>1. IsFiniteSet(A \cup B)
      /\ Cardinality(A \cup B) = Cardinality(A) + Cardinality(B) - Cardinality(A \cap B)
  BY FS_Union
<1>2. IsFiniteSet((A \cup B) \cup C)
      /\ Cardinality((A \cup B) \cup C)
           = Cardinality(A \cup B) + Cardinality(C) - Cardinality((A \cup B) \cap C)
  BY <1>1, FS_Union
<1>3. A \cap B \in SUBSET A /\ (A \cup B) \cap C \in SUBSET C
  OBVIOUS
<1>4. IsFiniteSet(A \cap B) /\ IsFiniteSet((A \cup B) \cap C)
  BY <1>3, FS_Subset
<1>5. /\ Cardinality(A) \in Nat /\ Cardinality(B) \in Nat /\ Cardinality(C) \in Nat
      /\ Cardinality(A \cap B) \in Nat /\ Cardinality((A \cup B) \cap C) \in Nat
      /\ Cardinality(A \cup B) \in Nat
  BY <1>1, <1>4, FS_CardinalityType
<1>6. QED
  BY <1>1, <1>2, <1>5

\* parse_bitmap_seq() counts every article that it leaves unread.
LEMMA ParseCounts ==
  ASSUME NEW M \in Nat, NEW g, SoundGroup(g, M),
         NEW ranges, ranges \subseteq (1..M) \X (1..M)
  PROVE  LET n == ParseBitmapSeq(g, ranges)
         IN  g.xmax <= n.xmax /\ Cardinality(n.xbitmap) <= n.num_unread
<1> DEFINE n == ParseBitmapSeq(g, ranges)
           first == FirstRange(ranges)
           rest == ranges \ {first}
           peak == Larger(first[2], g.xmin - 1)
           min == Larger(IF first[1] <= 1 THEN peak + 1 ELSE 1, g.xmin)
           ends == {r[2] : r \in rest}
           tops == {peak, g.xmax} \cup ends
           xmax == Highest(tops)
           end == IF rest = {} THEN peak ELSE Highest(ends)
           gaps == UNION {(LastHigh(ranges, peak, r) + 1)..(r[1] - 1) : r \in rest}
           start == IF min <= peak /\ first[1] > min THEN first[1] - min ELSE 0
           bits == (min..xmax) \ ((Larger(first[1], min)..peak) \cup Covered(rest))
           before == IF min <= peak THEN min..(first[1] - 1) ELSE {}
           behind == (end + 1)..xmax
<1>1. /\ g.xmin \in Nat /\ g.xmax \in Nat
      /\ 1 <= g.xmin /\ g.xmin <= g.xmax + 1 /\ g.xmax <= M
  BY DEF SoundGroup, GroupRecords
<1>2. first \in Nat \X Nat /\ first[1] <= M /\ first[2] <= M
  BY FirstRangeType
<1>3. peak \in Nat /\ peak <= M /\ g.xmin - 1 <= peak
  BY <1>1, <1>2 DEF Larger
<1>4. min \in Nat /\ 1 <= min /\ min <= peak + 1
  BY <1>1, <1>2, <1>3 DEF Larger
<1>5. ends \subseteq Int /\ \A y \in ends : y <= M
  OBVIOUS
<1>6. M \in Int /\ tops \subseteq Int /\ tops # {} /\ \A y \in tops : y <= M
  BY <1>1, <1>3, <1>5
<1>7. xmax \in tops /\ \A y \in tops : y <= xmax
  <2> HIDE DEF tops
  <2>1. QED
    BY <1>6, HighestOf, Zenon
<1>8. xmax \in Int /\ g.xmax <= xmax /\ peak <= xmax
  BY <1>6, <1>7
<1>9. end \in tops /\ end \in Int /\ end <= xmax
  <2>1. rest # {} => ends # {}
    OBVIOUS
  <2> HIDE DEF ends
  <2>2. rest # {} => Highest(ends) \in ends
    BY <1>5, <1>6, <2>1, HighestOf, Zenon
  <2>3. end \in tops
    BY <2>2
  <2> HIDE DEF tops, end
  <2>4. QED
    BY <1>6, <1>7, <2>3
<1>10. IsFiniteSet(gaps) /\ Cardinality(gaps) \in Nat
  <2>1. ASSUME NEW r \in rest
        PROVE  (LastHigh(ranges, peak, r) + 1)..(r[1] - 1) \subseteq 0..M
    <3>1. LastHigh(ranges, peak, r) \in Nat
      BY <1>3, LastHighType
    <3>2. r[1] \in 1..M
      OBVIOUS
    <3>3. QED
      BY <3>1, <3>2
  <2>2. gaps \in SUBSET (0..M)
    BY <2>1
  <2>3. 0 \in Int /\ M \in Int
    OBVIOUS
  <2>4. IsFiniteSet(0..M)
    BY <2>3, FS_Interval, Zenon
  <2>5. IsFiniteSet(gaps)
    BY <2>2, <2>4, FS_Subset
  <2>6. QED
    BY <2>5, FS_CardinalityType
<1>11. n = [present |-> TRUE, xmin |-> min, xmax |-> xmax, xbitlen |-> xmax - min + 1,
            xbitmap |-> bits, num_unread |-> start + Cardinality(gaps) + (xmax - end)]
  BY DEF ParseBitmapSeq
<1>12. n.xbitmap = bits /\ n.xmax = xmax
       /\ n.num_unread = start + Cardinality(gaps) + (xmax - end)
  BY <1>11
<1>13. bits \subseteq (before \cup gaps) \cup behind
  <2> SUFFICES ASSUME NEW a \in bits PROVE a \in before \/ a \in gaps \/ a \in behind
    OBVIOUS
  <2>1. a \in Nat /\ min <= a /\ a <= xmax /\ first[1] \in Nat /\ xmax \in Nat
    BY <1>2, <1>3, <1>4, <1>8
  <2>2. /\ ranges \ {FirstRange(ranges)} \subseteq (1..M) \X (1..M)
        /\ a \in UnreadBits(ranges, first[1], peak, min, xmax)
        /\ gaps = Gaps(ranges, peak) /\ end = LastEnd(ranges, peak)
    BY DEF UnreadBits, Gaps, LastEnd
  <2> HIDE DEF first, rest, peak, min, ends, xmax, end, gaps
  <2>3. \/ a < first[1] /\ min <= peak
        \/ a \in Gaps(ranges, peak)
        \/ LastEnd(ranges, peak) < a
    <3>1. peak \in Nat /\ min \in Nat /\ xmax \in Nat /\ M \in Nat
      BY <1>3, <1>4, <2>1
    <3>2. QED
      BY ONLY <2>1, <2>2, <3>1, ParseGaps
  <2>4. QED
    BY <1>4, <1>9, <2>1, <2>2, <2>3
<1>14. IsFiniteSet(before) /\ Cardinality(before) = start
  <2>1. min \in Int /\ first[1] - 1 \in Int /\ first[1] \in Nat
    BY <1>2, <1>4
  <2> HIDE DEF first, peak, min
  <2>2. /\ IsFiniteSet(min..(first[1] - 1))
        /\ Cardinality(min..(first[1] - 1)) =
             IF min > first[1] - 1 THEN 0 ELSE (first[1] - 1) - min + 1
    BY ONLY <2>1, FS_Interval
  <2>3. CASE min <= peak
    <3>1. before = min..(first[1] - 1)
      BY <2>3
    <3>2. start = IF min > first[1] - 1 THEN 0 ELSE (first[1] - 1) - min + 1
      BY <2>1, <2>3
    <3>3. QED
      BY <2>2, <3>1, <3>2
  <2>4. CASE ~(min <= peak)
    BY <2>4, FS_EmptySet
  <2>5. QED
    BY <2>3, <2>4
<1>15. IsFiniteSet(behind) /\ Cardinality(behind) = xmax - end
  <2> HIDE DEF xmax, end
  <2>1. end + 1 \in Int
    BY <1>9
  <2>2. /\ IsFiniteSet((end + 1)..xmax)
        /\ Cardinality((end + 1)..xmax) = IF end + 1 > xmax THEN 0 ELSE xmax - (end + 1) + 1
    BY ONLY <1>8, <2>1, FS_Interval
  <2>3. QED
    BY <1>8, <1>9, <2>2
<1> HIDE DEF n, first, rest, peak, min, tops, xmax, end, gaps, start, bits, before, behind
<1>16. Cardinality(bits) <= Cardinality(before) + Cardinality(gaps) + Cardinality(behind)
  <2>1. IsFiniteSet((before \cup gaps) \cup behind)
        /\ Cardinality((before \cup gaps) \cup behind)
             <= Cardinality(before) + Cardinality(gaps) + Cardinality(behind)
    BY <1>10, <1>14, <1>15, UnionCount
  <2>2. IsFiniteSet(bits) /\ Cardinality(bits) <= Cardinality((before \cup gaps) \cup behind)
    BY <1>13, <2>1, FS_Subset
  <2>3. /\ Cardinality(bits) \in Nat /\ Cardinality((before \cup gaps) \cup behind) \in Nat
        /\ Cardinality(before) \in Nat /\ Cardinality(behind) \in Nat
    BY <1>14, <1>15, <2>1, <2>2, FS_CardinalityType
  <2>4. QED
    BY <1>10, <2>1, <2>2, <2>3
<1>17. QED
  BY <1>8, <1>12, <1>14, <1>15, <1>16 DEF n

\* expand_bitmap() counts every article that it adds above the old window, and
\* changes nothing if it adds none: then it drops no bit, initialised or not.
LEMMA ExpandCounts ==
  ASSUME NEW M \in Nat, NEW g, SoundGroup(g, M), NEW n, SoundNewsrc(n, M),
         n.num_unread \in Nat, NEW min \in Nat, min <= Larger(n.xmax, g.xmax),
         NEW unset \in UnsetBits(g, n, min)
  PROVE  LET e == ExpandBitmap(g, n, min, unset)
         IN  /\ e.num_unread \in Nat
             /\ e.xmax # n.xmax => e.num_unread # 0
             /\ e.xmax = n.xmax => /\ e.xbitmap \subseteq n.xbitmap
                                   /\ e.num_unread = n.num_unread
<1> DEFINE low == IF min = 0 THEN n.xmin ELSE min
           max == Larger(n.xmax, g.xmax)
           first == ExpandFirst(n, low)
           copied == n.xbitlen > 0 /\ (max # n.xmax \/ first # n.xmin)
           early == IF copied THEN n.xbitmap \cap (n.xmin..(low - 1)) ELSE {}
           above == (n.xmin + n.xbitlen)..max
           k == Cardinality(early) + unset
           e == ExpandBitmap(g, n, min, unset)
<1>1. /\ n.xmin \in Nat /\ n.xmax \in Nat /\ 1 <= n.xmin /\ n.xmin <= n.xmax + 1
      /\ n.xbitlen \in Nat /\ n.xbitlen = n.xmax - n.xmin + 1
      /\ n.xbitmap \subseteq n.xmin..n.xmax
  BY DEF SoundNewsrc, NewsrcRecords
<1>2. low \in Nat /\ low >= 1 /\ low <= max + 1
      /\ max \in Nat /\ n.xmax <= max
  BY <1>1 DEF SoundGroup, GroupRecords, Larger
<1>3. first \in Nat /\ first <= n.xmin
  BY <1>2, ExpandFirstBound
<1>4. unset \in Nat
  BY UnsetType
<1>5. Cardinality(early) \in Nat
  <2>0. n.xmin \in Int /\ low - 1 \in Int
    BY <1>1, <1>2
  <2> HIDE DEF low
  <2>1. IsFiniteSet(n.xmin..(low - 1))
    BY <2>0, FS_Interval, Zenon
  <2>2. early \in SUBSET (n.xmin..(low - 1))
    OBVIOUS
  <2>3. QED
    BY <2>1, <2>2, FS_Subset, FS_CardinalityType
<1>6. e = [present |-> TRUE, xmin |-> first, xmax |-> max,
           num_unread |-> CountDown(n.num_unread, k) + (max - n.xmax),
           xbitlen |-> Larger(max - first + 1, 0),
           xbitmap |-> IF max < first THEN {} ELSE (n.xbitmap \ early) \cup above]
  BY DEF ExpandBitmap, ExpandBitmapTo
<1>7. /\ e.xmax = max /\ e.num_unread = CountDown(n.num_unread, k) + (max - n.xmax)
      /\ e.xbitmap \subseteq n.xbitmap \cup above
  BY <1>6
<1>8. ASSUME max = n.xmax PROVE early = {} /\ unset = 0 /\ above = {}
  <2>1. above = {}
    BY <1>1, <1>8
  <2>2. unset = 0
    <3>1. low - 1 - n.xmax <= 0
      BY <1>1, <1>2, <1>8
    <3>2. Larger(low - 1 - n.xmax, 0) = 0
      BY <1>1, <1>2, <3>1 DEF Larger
    <3>3. unset \in 0..Larger(low - 1 - n.xmax, 0) \/ unset = 0
      BY DEF UnsetBits, Unset
    <3>4. QED
      BY <3>2, <3>3
  <2>3. early = {}
    <3>1. CASE low >= n.xmin
      <4>1. first = n.xmin
        BY <1>1, <3>1 DEF ExpandFirst
      <4>2. QED
        BY <1>8, <4>1
    <3>2. CASE ~(low >= n.xmin)
      <4>1. n.xmin..(low - 1) = {}
        BY <1>1, <1>2, <3>2
      <4>2. QED
        BY <4>1
    <3>3. QED
      BY <3>1, <3>2
  <2>4. QED
    BY <2>1, <2>2, <2>3
<1> HIDE DEF low, max, first, copied, early, above, e
<1>9. k \in Nat
  BY <1>4, <1>5
<1>10. CountDown(n.num_unread, k) \in Nat
  <2> HIDE DEF k
  <2>1. QED
    BY <1>9 DEF CountDown, Larger
<1>11. max = n.xmax => k = 0
  BY <1>8, FS_EmptySet
<1>12. max = n.xmax => CountDown(n.num_unread, k) = n.num_unread
  <2> HIDE DEF k
  <2>1. QED
    BY <1>11 DEF CountDown, Larger
<1> HIDE DEF k
<1>13. e.num_unread \in Nat
  BY <1>1, <1>2, <1>7, <1>10
<1>14. e.xmax # n.xmax => e.num_unread # 0
  <2> DEFINE c == CountDown(n.num_unread, k)
  <2>1. c \in Nat /\ e.num_unread = c + (max - n.xmax) /\ e.xmax = max
    BY <1>7, <1>10
  <2>2. n.xmax \in Nat /\ max \in Nat /\ n.xmax <= max
    BY <1>1, <1>2
  <2> HIDE DEF c
  <2>3. max # n.xmax => n.xmax < max
    BY <2>2
  <2>4. max # n.xmax => c + (max - n.xmax) > 0
    BY <2>1, <2>2, <2>3
  <2>5. ASSUME max # n.xmax PROVE e.num_unread # 0
    <3>1. e.num_unread \in Int /\ e.num_unread > 0
      BY <2>1, <2>2, <2>4, <2>5
    <3>2. QED
      BY <3>1
  <2>6. QED
    BY <2>1, <2>5
<1>15. e.xmax = n.xmax => e.xbitmap \subseteq n.xbitmap /\ e.num_unread = n.num_unread
  BY <1>1, <1>2, <1>7, <1>8, <1>12
<1>16. QED
  BY <1>13, <1>14, <1>15 DEF e

-----------------------------------------------------------------------------
(* The session *)

\* The entry grp of group g lies between what the server has and had.
EntryOK(g, grp) ==
  SoundGroup(grp, MaxArt) /\ grp.xmin <= ServerMin(g) /\ grp.xmax <= high[g]

ServerOK == /\ spool \in [Groups -> SUBSET Arts]
            /\ high \in [Groups -> 0..MaxArt]
            /\ \A g \in Groups : spool[g] \subseteq 1..high[g]
ActiveOK == active \in [Groups -> GroupRecords] /\ \A g \in Groups : EntryOK(g, active[g])

\* nrc gives every group a sound record.
BitmapsOK(nrc) == nrc \in [Groups -> NewsrcRecords] /\ \A g \in Groups : SoundNewsrc(nrc[g], MaxArt)

LinesOK(lines) == lines \in [Groups -> Lines]

ArtsOK == /\ reading \in Groups \cup {NoGroup}
          /\ arts \in [DOMAIN arts -> [status : Status, zombie : BOOLEAN]]
          /\ DOMAIN arts \subseteq Arts
          /\ ArtsInBitmap

\* The inductive invariant, arranged by variable
Inv == ServerOK /\ ActiveOK /\ BitmapsOK(newsrc) /\ LinesOK(file) /\ ArtsOK

\* It is the conjunction of the invariants that the runs check.
LEMMA InvIsInvariants == Inv <=> TypeOK /\ BitmapShape /\ WindowsOK /\ ArtsInBitmap
<1>0. MaxArt \in Nat
  BY SessionAssumption
<1>1. Inv => TypeOK /\ BitmapShape /\ WindowsOK /\ ArtsInBitmap
  <2> SUFFICES ASSUME Inv PROVE TypeOK /\ BitmapShape /\ WindowsOK /\ ArtsInBitmap
    OBVIOUS
  <2>1. TypeOK
    BY DEF Inv, ServerOK, ActiveOK, BitmapsOK, LinesOK, ArtsOK, TypeOK
  <2>2. BitmapShape
    BY DEF Inv, BitmapsOK, SoundNewsrc, BitmapShape
  <2>3. WindowsOK
    BY DEF Inv, ServerOK, ActiveOK, EntryOK, SoundGroup, BitmapsOK, SoundNewsrc, WindowsOK
  <2>4. QED
    BY <2>1, <2>2, <2>3 DEF Inv, ArtsOK
<1>2. TypeOK /\ BitmapShape /\ WindowsOK /\ ArtsInBitmap => Inv
  <2> SUFFICES ASSUME TypeOK, BitmapShape, WindowsOK, ArtsInBitmap PROVE Inv
    OBVIOUS
  <2>1. ServerOK /\ LinesOK(file) /\ ArtsOK
    BY DEF TypeOK, WindowsOK, ServerOK, LinesOK, ArtsOK
  <2>2. ASSUME NEW g \in Groups PROVE EntryOK(g, active[g])
    <3>1. active[g] \in GroupRecords /\ high[g] \in Nat /\ high[g] <= MaxArt
      BY <1>0 DEF TypeOK
    <3>2. active[g].xmax \in Nat
      BY <3>1 DEF GroupRecords
    <3>3. QED
      BY <1>0, <3>1, <3>2 DEF WindowsOK, EntryOK, SoundGroup
  <2>3. ASSUME NEW g \in Groups PROVE SoundNewsrc(newsrc[g], MaxArt)
    BY DEF TypeOK, BitmapShape, WindowsOK, SoundNewsrc
  <2>4. QED
    BY <2>1, <2>2, <2>3 DEF TypeOK, Inv, ActiveOK, BitmapsOK
<1>3. QED
  BY <1>1, <1>2

-----------------------------------------------------------------------------
(* The server's answers *)

\* ServerMin is the number of an article, or the next one to arrive.
LEMMA ServerMinType ==
  ASSUME ServerOK, NEW g \in Groups
  PROVE  /\ high[g] \in Nat /\ high[g] <= MaxArt
         /\ ServerMin(g) \in Nat /\ 1 <= ServerMin(g) /\ ServerMin(g) <= high[g] + 1
         /\ spool[g] # {} => ServerMin(g) \in spool[g] /\ ServerMin(g) <= high[g]
         /\ IsFiniteSet(spool[g]) /\ Cardinality(spool[g]) \in Nat
<1>1. MaxArt \in Nat /\ high[g] \in Nat /\ high[g] <= MaxArt /\ spool[g] \subseteq 1..high[g]
  BY SessionAssumption DEF ServerOK
<1>2. spool[g] # {} => Lowest(spool[g]) \in spool[g]
  BY <1>1, LowestOf
<1>3. 1 \in Int /\ high[g] \in Int
  BY <1>1
<1>4. IsFiniteSet(1..high[g])
  BY <1>3, FS_Interval, Zenon
<1>5. spool[g] \in SUBSET (1..high[g])
  BY <1>1
<1>6. IsFiniteSet(spool[g]) /\ Cardinality(spool[g]) \in Nat
  BY <1>4, <1>5, FS_Subset, FS_CardinalityType
<1>7. QED
  BY <1>1, <1>2, <1>6 DEF ServerMin

\* Whatever GROUP answers, the group's entry is sound.
LEMMA ArtInfoOK ==
  ASSUME Inv, NEW g \in Groups, NEW info \in ArtInfo(g), NEW grp \in GroupRecords
  PROVE  EntryOK(g, WithInfo(grp, info)) /\ WithInfo(grp, info) \in GroupRecords
<1>1. /\ high[g] \in Nat /\ high[g] <= MaxArt
      /\ ServerMin(g) \in Nat /\ 1 <= ServerMin(g) /\ ServerMin(g) <= high[g] + 1
      /\ Cardinality(spool[g]) \in Nat
  BY ServerMinType DEF Inv
<1>2. active[g] \in GroupRecords /\ EntryOK(g, active[g])
  BY DEF Inv, ActiveOK
<1>3. /\ info.count \in Int /\ info.xmin \in Nat /\ info.xmax \in Nat
      /\ 1 <= info.xmin /\ info.xmin <= ServerMin(g)
      /\ info.xmin <= info.xmax + 1 /\ info.xmax <= high[g]
  <2>1. CASE info \in GroupReplies(g)
    BY <1>1, <2>1 DEF GroupReplies
  <2>2. CASE info = [count |-> 0, xmin |-> 1, xmax |-> 0]
    BY <1>1, <2>2
  <2>3. CASE info = [count |-> active[g].count, xmin |-> active[g].xmin,
                     xmax |-> active[g].xmax]
    BY <1>1, <1>2, <2>3 DEF EntryOK, SoundGroup, GroupRecords
  <2>4. QED
    BY <2>1, <2>2, <2>3 DEF ArtInfo
<1>4. /\ WithInfo(grp, info) \in GroupRecords
      /\ WithInfo(grp, info).xmin = info.xmin /\ WithInfo(grp, info).xmax = info.xmax
  BY <1>3 DEF WithInfo, GroupRecords
<1>5. info.xmax <= MaxArt /\ MaxArt \in Nat
  BY <1>1, <1>3, SessionAssumption
<1>6. QED
  BY <1>3, <1>4, <1>5 DEF EntryOK, SoundGroup

\* The entry that the active file gives a group
LEMMA FreshOK ==
  ASSUME ServerOK, NEW g \in Groups
  PROVE  FreshActive(g) \in GroupRecords /\ EntryOK(g, FreshActive(g))
BY ServerMinType DEF FreshActive, EntryOK, SoundGroup, GroupRecords

\* read_active_file() on an entry that is already there
LEMMA RereadOK ==
  ASSUME Inv, NEW g \in Groups
  PROVE  RereadActive(g) \in GroupRecords /\ EntryOK(g, RereadActive(g))
<1>1. active[g] \in GroupRecords /\ EntryOK(g, active[g])
  BY DEF Inv, ActiveOK
<1>2. FreshActive(g) \in GroupRecords /\ EntryOK(g, FreshActive(g))
  BY FreshOK DEF Inv
<1>3. high[g] \in Nat /\ ServerMin(g) \in Nat
  BY ServerMinType DEF Inv
<1> DEFINE r == RereadActive(g)
<1>4. /\ r \in GroupRecords
      /\ r.xmax = Larger(active[g].xmax, FreshActive(g).xmax)
      /\ r.xmin = Larger(active[g].xmin, FreshActive(g).xmin)
  BY <1>1, <1>2 DEF RereadActive, GroupRecords, Larger
<1> HIDE DEF r
<1>5. EntryOK(g, r)
  BY <1>1, <1>2, <1>3, <1>4, SessionAssumption DEF EntryOK, SoundGroup, GroupRecords, Larger
<1>6. QED
  BY <1>4, <1>5 DEF r

-----------------------------------------------------------------------------
(* Loading and saving *)

\* vGet1GrpArtInfo() keeps the newsrc record sound.
LEMMA Get1Sound ==
  ASSUME NEW old, NEW grp, SoundGroup(grp, MaxArt), NEW n, SoundNewsrc(n, MaxArt)
  PROVE  SoundNewsrc(Get1GrpArtInfo(old, grp, n), MaxArt)
<1> DEFINE clamped == IF n.num_unread > grp.count
                      THEN [n EXCEPT !.num_unread = grp.count] ELSE n
<1>1. MaxArt \in Nat
  BY SessionAssumption
<1>2. grp.count \in Int /\ n \in NewsrcRecords
  BY DEF SoundGroup, GroupRecords, SoundNewsrc
<1>3. [n EXCEPT !.num_unread = grp.count] \in NewsrcRecords
  BY <1>2 DEF NewsrcRecords
<1>4. SoundNewsrc([n EXCEPT !.num_unread = grp.count], MaxArt)
  BY <1>2, <1>3 DEF SoundNewsrc, NewsrcRecords
<1>5. SoundNewsrc(clamped, MaxArt)
  BY <1>4
<1> HIDE DEF clamped
<1>6. SoundNewsrc(ExpandBitmap(grp, clamped, 0, 0), MaxArt)
  BY <1>1, <1>5, ExpandSound
<1>7. Get1GrpArtInfo(old, grp, n) =
        IF grp.xmin # old.xmin \/ grp.xmax # old.xmax
        THEN ExpandBitmap(grp, clamped, 0, 0) ELSE clamped
  BY DEF Get1GrpArtInfo, clamped
<1>8. QED
  BY <1>5, <1>6, <1>7

\* vWriteNewsrc() writes a well-formed file.
LEMMA WrittenFileType ==
  ASSUME NEW nrc, BitmapsOK(nrc), ActiveOK, NEW lines, LinesOK(lines)
  PROVE  LinesOK(WrittenFile(nrc, lines))
<1>1. ASSUME NEW g \in Groups
      PROVE  WrittenLine(g, nrc[g], lines[g]) \in Lines
  <2>1. MaxArt \in Nat /\ SoundNewsrc(nrc[g], MaxArt) /\ lines[g] \in Lines
    BY SessionAssumption DEF BitmapsOK, LinesOK
  <2>2. PrintBitmapSeq(active[g], nrc[g]) \subseteq Arts \X Arts
    BY <2>1, PrintType DEF Arts
  <2>3. active[g].subscribed \in BOOLEAN
    BY DEF ActiveOK, GroupRecords
  <2>4. [listed |-> TRUE, sub |-> active[g].subscribed,
         seq |-> PrintBitmapSeq(active[g], nrc[g])] \in Lines
    BY <2>2, <2>3 DEF Lines
  <2>5. [lines[g] EXCEPT !.listed = lines[g].sub \/ ~StripNewsrc] \in Lines
    BY <2>1, SessionAssumption DEF Lines
  <2>6. QED
    BY <2>1, <2>4, <2>5 DEF WrittenLine
<1>2. [g \in Groups |-> WrittenLine(g, nrc[g], lines[g])] \in [Groups -> Lines]
  BY <1>1
<1>3. QED
  BY <1>2 DEF WrittenFile, LinesOK

\* read_newsrc() marks the subscribed groups and keeps their numbers.
LEMMA LoadActiveOK ==
  ASSUME NEW act \in [Groups -> GroupRecords], \A g \in Groups : EntryOK(g, act[g]),
         NEW lines
  PROVE  /\ LoadActive(act, lines) \in [Groups -> GroupRecords]
         /\ \A g \in Groups : EntryOK(g, LoadActive(act, lines)[g])
<1>1. ASSUME NEW g \in Groups
      PROVE  /\ LoadActive(act, lines)[g] \in GroupRecords
             /\ EntryOK(g, LoadActive(act, lines)[g])
  <2> DEFINE s == [act[g] EXCEPT !.subscribed = TRUE]
  <2>1. act[g] \in GroupRecords /\ EntryOK(g, act[g])
    OBVIOUS
  <2>2. s \in GroupRecords /\ s.xmin = act[g].xmin /\ s.xmax = act[g].xmax
    BY <2>1 DEF GroupRecords
  <2> HIDE DEF s
  <2>3. EntryOK(g, s)
    BY <2>1, <2>2 DEF EntryOK, SoundGroup
  <2>4. LoadActive(act, lines)[g] = s \/ LoadActive(act, lines)[g] = act[g]
    BY DEF LoadActive, s
  <2>5. QED
    BY <2>1, <2>2, <2>3, <2>4
<1>2. LoadActive(act, lines) = [g \in Groups |-> LoadActive(act, lines)[g]]
  BY DEF LoadActive
<1>3. QED
  BY <1>1, <1>2

\* It loads sound records.
LEMMA LoadNewsrcOK ==
  ASSUME NEW act \in [Groups -> GroupRecords], \A g \in Groups : EntryOK(g, act[g]),
         NEW nrc, BitmapsOK(nrc), NEW lines, LinesOK(lines)
  PROVE  BitmapsOK(LoadNewsrc(act, nrc, lines))
<1>1. ASSUME NEW g \in Groups
      PROVE  SoundNewsrc(LoadNewsrc(act, nrc, lines)[g], MaxArt)
  <2>1. MaxArt \in Nat /\ SoundGroup(act[g], MaxArt)
    BY SessionAssumption DEF EntryOK
  <2>2. lines[g].seq \subseteq (1..MaxArt) \X (1..MaxArt)
    BY DEF LinesOK, Lines, Arts
  <2>3. SoundNewsrc(ParseBitmapSeq(act[g], lines[g].seq), MaxArt)
    BY <2>1, <2>2, ParseSound
  <2>4. SoundNewsrc(nrc[g], MaxArt)
    BY DEF BitmapsOK
  <2>5. QED
    BY <2>3, <2>4 DEF LoadNewsrc
<1>2. LoadNewsrc(act, nrc, lines) = [g \in Groups |-> LoadNewsrc(act, nrc, lines)[g]]
  BY DEF LoadNewsrc
<1>3. QED
  BY <1>1, <1>2 DEF BitmapsOK, SoundNewsrc

\* The state that main() builds from the active file and .newsrc
LEMMA LoadedOK ==
  ASSUME ServerOK, NEW lines, LinesOK(lines)
  PROVE  LET act == [g \in Groups |-> FreshActive(g)]
             nrc == [g \in Groups |-> VSetDefaultBitmap(act[g])]
         IN  /\ LoadActive(act, lines) \in [Groups -> GroupRecords]
             /\ \A g \in Groups : EntryOK(g, LoadActive(act, lines)[g])
             /\ BitmapsOK(LoadNewsrc(act, nrc, lines))
<1> DEFINE act == [g \in Groups |-> FreshActive(g)]
           nrc == [g \in Groups |-> VSetDefaultBitmap(act[g])]
<1>1. act \in [Groups -> GroupRecords] /\ \A g \in Groups : EntryOK(g, act[g])
  BY FreshOK
<1>2. ASSUME NEW g \in Groups PROVE SoundNewsrc(VSetDefaultBitmap(act[g]), MaxArt)
  BY <1>1, DefaultSound, SessionAssumption DEF EntryOK
<1>3. BitmapsOK(nrc)
  <2>1. \A g \in Groups : nrc[g] = VSetDefaultBitmap(act[g])
    OBVIOUS
  <2>2. nrc = [g \in Groups |-> nrc[g]]
    OBVIOUS
  <2> HIDE DEF nrc, act
  <2>3. \A g \in Groups : SoundNewsrc(nrc[g], MaxArt)
    BY <1>2, <2>1
  <2>4. QED
    BY <2>2, <2>3 DEF BitmapsOK, SoundNewsrc
<1> HIDE DEF act, nrc
<1>4. BitmapsOK(LoadNewsrc(act, nrc, lines))
  BY <1>1, <1>3, LoadNewsrcOK
<1>5. QED
  BY <1>1, <1>4, LoadActiveOK DEF act, nrc

-----------------------------------------------------------------------------
(* Marking articles *)

\* A set of article numbers is finite.
LEMMA ArtsFinite ==
  ASSUME NEW S, S \subseteq Arts
  PROVE  IsFiniteSet(S) /\ Cardinality(S) \in Nat
<1>1. 1 \in Int /\ MaxArt \in Int
  BY SessionAssumption
<1>2. IsFiniteSet(Arts)
  BY <1>1, FS_Interval, Zenon DEF Arts
<1>3. QED
  BY <1>2, FS_Subset, FS_CardinalityType

\* art_mark_read() clears bits: it moves no window, and its crossposts do not
\* either.
LEMMA MarkReadOK ==
  ASSUME NEW nrc, BitmapsOK(nrc), NEW g \in Groups, NEW marked,
         NEW unread, unread \subseteq Arts,
         NEW stray, stray \subseteq Groups \X Arts
  PROVE  /\ BitmapsOK(MarkRead(nrc, g, marked, unread, stray))
         /\ \A h \in Groups :
              /\ MarkRead(nrc, g, marked, unread, stray)[h].xmin = nrc[h].xmin
              /\ MarkRead(nrc, g, marked, unread, stray)[h].xmax = nrc[h].xmax
<1> DEFINE done == MarkRead(nrc, g, marked, unread, stray)
<1>1. ASSUME NEW h \in Groups
      PROVE  /\ SoundNewsrc(done[h], MaxArt)
             /\ done[h].xmin = nrc[h].xmin /\ done[h].xmax = nrc[h].xmax
  <2> DEFINE n == IF h = g THEN [nrc[g] EXCEPT !.xbitmap = @ \ marked] ELSE nrc[h]
             hit == LookedUp(h, n, g, unread) \cap n.xbitmap
             strays == {p \in stray : p[1] = h}
             k == Cardinality(hit) + Cardinality(strays)
             num == CountDownPositive(n.num_unread, k)
             total == IF h = g THEN CountDown(num, Cardinality(unread)) ELSE num
  <2>1. nrc[h] \in NewsrcRecords /\ SoundNewsrc(nrc[h], MaxArt)
    BY DEF BitmapsOK, SoundNewsrc
  <2>2. /\ n \in NewsrcRecords /\ n.xmin = nrc[h].xmin /\ n.xmax = nrc[h].xmax
        /\ n.xbitlen = nrc[h].xbitlen /\ n.xbitmap \subseteq nrc[h].xbitmap
    BY <2>1 DEF NewsrcRecords
  <2>3. Cardinality(hit) \in Nat
    <3>1. LookedUp(h, n, g, unread) \subseteq Arts
      BY DEF LookedUp, CrossPosts
    <3>2. QED
      BY <3>1, ArtsFinite
  <2>4. Cardinality(strays) \in Nat
    <3>1. IsFiniteSet({h}) /\ IsFiniteSet(Arts)
      BY ArtsFinite, FS_Singleton
    <3>2. IsFiniteSet({h} \X Arts)
      BY <3>1, FS_Product
    <3>3. strays \in SUBSET ({h} \X Arts)
      OBVIOUS
    <3>4. QED
      BY <3>2, <3>3, FS_Subset, FS_CardinalityType
  <2>5. k \in Nat /\ n.num_unread \in Int /\ Cardinality(unread) \in Nat
    BY <2>2, <2>3, <2>4, ArtsFinite DEF NewsrcRecords
  <2>6. num \in Int
    <3> HIDE DEF k
    <3>1. QED
      BY <2>5, CountDownType
  <2>7. total \in Int
    <3> HIDE DEF num
    <3>1. QED
      BY <2>5, <2>6, CountDownType
  <2>8. done[h] = [n EXCEPT !.xbitmap = @ \ hit, !.num_unread = total]
    BY DEF MarkRead
  <2> HIDE DEF n, hit, strays, k, num, total, done
  <2>9. /\ done[h] \in NewsrcRecords
        /\ done[h].xmin = n.xmin /\ done[h].xmax = n.xmax /\ done[h].xbitlen = n.xbitlen
        /\ done[h].xbitmap \subseteq n.xbitmap
    BY <2>2, <2>7, <2>8 DEF NewsrcRecords
  <2>10. done[h].xbitmap \subseteq nrc[h].xmin..nrc[h].xmax
    BY <2>1, <2>2, <2>9 DEF SoundNewsrc
  <2>11. QED
    BY <2>1, <2>2, <2>9, <2>10 DEF SoundNewsrc
<1>2. done = [h \in Groups |-> done[h]]
  BY DEF MarkRead
<1> HIDE DEF done
<1>3. BitmapsOK(done)
  BY <1>1, <1>2 DEF BitmapsOK, SoundNewsrc
<1>4. QED
  BY <1>1, <1>3 DEF done

\* Entries behind the bitmap are pairs of a group and a number.
LEMMA BehindType ==
  ASSUME NEW nrc, NEW g, NEW S
  PROVE  BehindBitmap(nrc, g, S) \subseteq Groups \X Arts
BY DEF BehindBitmap

-----------------------------------------------------------------------------
(* Entering a group *)

\* The articles that the server lists
LEMMA HardBaseType ==
  ASSUME Inv, NEW g \in Groups, NEW base \in HardBase(g)
  PROVE  /\ base \subseteq 1..high[g] /\ base \subseteq Arts
         /\ base # {} => /\ Highest(base) \in base /\ \A y \in base : y <= Highest(base)
                         /\ Lowest(base) \in base /\ \A y \in base : Lowest(base) <= y
                         /\ ServerMin(g) <= Highest(base)
<1>1. /\ high[g] \in Nat /\ high[g] <= MaxArt /\ ServerMin(g) \in Nat /\ 1 <= ServerMin(g)
      /\ spool[g] # {} => ServerMin(g) \in spool[g] /\ ServerMin(g) <= high[g]
      /\ spool[g] \subseteq 1..high[g] /\ MaxArt \in Nat
  BY ServerMinType, SessionAssumption DEF Inv, ServerOK
<1>2. base \subseteq 1..high[g]
  BY <1>1 DEF HardBase
<1>3. base # {} => ServerMin(g) \in base
  BY <1>1 DEF HardBase
<1>4. base \subseteq Arts
  BY <1>1, <1>2 DEF Arts
<1>5. /\ high[g] \in Int /\ base \subseteq Int /\ base \subseteq Nat
      /\ \A y \in base : y <= high[g]
  BY <1>1, <1>2
<1>6. base # {} => Highest(base) \in base /\ \A y \in base : y <= Highest(base)
  BY <1>5, HighestOf, Zenon
<1>7. base # {} => Lowest(base) \in base /\ \A y \in base : Lowest(base) <= y
  BY <1>5, LowestOf, Zenon
<1>8. QED
  BY <1>2, <1>3, <1>4, <1>6, <1>7

\* setup_hard_base() and iReadNovFile() leave a sound entry that ends with the
\* last article, and a sound record whose window holds them all.
LEMMA BasedOK ==
  ASSUME Inv, NEW g \in Groups, NEW base \in HardBase(g), NEW unset \in Nat
  PROVE  /\ Indexed(g, base) \in GroupRecords /\ EntryOK(g, Indexed(g, base))
         /\ SoundNewsrc(BasedNewsrc(g, base, unset), MaxArt)
         /\ base # {} => /\ Indexed(g, base).xmax = Highest(base)
                         /\ BasedNewsrc(g, base, unset).xmin <= Lowest(base)
<1> DEFINE b == Based(g, base)
           i == Indexed(g, base)
           n == BasedNewsrc(g, base, unset)
<1>1. active[g] \in GroupRecords /\ EntryOK(g, active[g]) /\ SoundGroup(active[g], MaxArt)
  BY DEF Inv, ActiveOK, EntryOK
<1>2. SoundNewsrc(newsrc[g], MaxArt) /\ MaxArt \in Nat
  BY SessionAssumption DEF Inv, BitmapsOK
<1>3. /\ active[g].xmin \in Nat /\ active[g].xmax \in Nat /\ active[g].xmin >= 1
      /\ active[g].xmin <= ServerMin(g) /\ active[g].xmin <= active[g].xmax + 1
      /\ active[g].xmax <= high[g] /\ high[g] \in Nat /\ high[g] <= MaxArt
      /\ ServerMin(g) \in Nat
  BY <1>1, ServerMinType DEF Inv, EntryOK, SoundGroup, GroupRecords
<1>4. CASE base = {}
  <2>1. b = active[g] /\ n = newsrc[g]
    BY <1>4 DEF Based, BasedNewsrc
  <2>2. active[g].xmin - 1 \in Nat
    BY <1>3
  <2>3. /\ i \in GroupRecords /\ i.xmin = active[g].xmin
        /\ i.xmax = IF active[g].xmax > active[g].xmin - 1 THEN active[g].xmin - 1
                    ELSE active[g].xmax
    BY <1>1, <1>4, <2>1, <2>2 DEF Indexed, LastBase, GroupRecords
  <2> HIDE DEF i
  <2>4. EntryOK(g, i)
    BY <1>2, <1>3, <2>3 DEF EntryOK, SoundGroup
  <2>5. QED
    BY <1>2, <1>4, <2>1, <2>3, <2>4 DEF i
<1>5. CASE base # {}
  <2> DEFINE top == Highest(base)
             low == Lowest(base)
  <2>1. /\ top \in Nat /\ top <= high[g] /\ ServerMin(g) <= top
        /\ low \in Nat /\ 1 <= low
    BY <1>3, <1>5, HardBaseType
  <2> HIDE DEF top, low
  <2>2. b \in GroupRecords /\ b.xmin = active[g].xmin /\ b.xmax = Larger(active[g].xmax, top)
    BY <1>1, <1>3, <1>5, <2>1 DEF Based, GroupRecords, Larger, top
  <2>3. SoundGroup(b, MaxArt)
    BY <1>2, <1>3, <2>1, <2>2 DEF SoundGroup, Larger
  <2>4. n = ExpandBitmap(b, newsrc[g], low, unset)
    BY <1>5 DEF BasedNewsrc, low
  <2>5. SoundNewsrc(n, MaxArt) /\ n.xmin <= low
    <3> HIDE DEF b, n
    <3>1. /\ SoundNewsrc(ExpandBitmap(b, newsrc[g], low, unset), MaxArt)
          /\ low > 0 => ExpandBitmap(b, newsrc[g], low, unset).xmin <= low
      BY <1>2, <2>1, <2>3, ExpandSound, Zenon
    <3>2. low > 0
      BY <2>1
    <3>3. QED
      BY <2>4, <3>1, <3>2, Zenon
  <2>6. b.xmax > top \/ b.xmax = top
    BY <1>3, <2>1, <2>2 DEF Larger
  <2>7. i = [b EXCEPT !.xmax = IF b.xmax > top THEN top ELSE b.xmax]
    BY <1>5 DEF Indexed, LastBase, top
  <2> HIDE DEF b
  <2>8. i \in GroupRecords /\ i.xmin = active[g].xmin /\ i.xmax = top
    BY <2>1, <2>2, <2>6, <2>7 DEF GroupRecords
  <2> HIDE DEF i
  <2>9. EntryOK(g, i)
    BY <1>2, <1>3, <2>1, <2>8 DEF EntryOK, SoundGroup
  <2>10. QED
    BY <1>5, <2>5, <2>8, <2>9 DEF i, top, low
<1>6. QED
  BY <1>4, <1>5

-----------------------------------------------------------------------------
(* Each action keeps the invariant *)

\* What is left to show of an action that is not the server's
LEMMA Frame ==
  ASSUME Inv, UNCHANGED <<spool, high>>,
         active' \in [Groups -> GroupRecords], \A g \in Groups : EntryOK(g, active'[g]),
         BitmapsOK(newsrc'), LinesOK(file'), ArtsOK'
  PROVE  Inv'
<1>1. ServerOK'
  BY DEF Inv, ServerOK
<1>2. \A g \in Groups : ServerMin(g)' = ServerMin(g) /\ high'[g] = high[g]
  BY DEF ServerMin
<1>3. ActiveOK'
  BY <1>2 DEF ActiveOK, EntryOK
<1>4. QED
  BY <1>1, <1>3 DEF Inv, BitmapsOK, LinesOK

\* ... and leaves the active entries and the file alone
LEMMA BitmapFrame ==
  ASSUME Inv, UNCHANGED <<spool, high, active, file>>, BitmapsOK(newsrc'), ArtsOK'
  PROVE  Inv'
BY Frame DEF Inv, ActiveOK

\* Outside a group no article is loaded.
LEMMA NoArts ==
  ASSUME Inv, reading' = NoGroup, UNCHANGED arts \/ arts' = <<>>
  PROVE  ArtsOK'
<1>1. reading' \in Groups \cup {NoGroup} /\ ArtsInBitmap'
  BY DEF ArtsInBitmap
<1>2. CASE arts' = arts
  BY <1>1, <1>2 DEF Inv, ArtsOK
<1>3. CASE arts' = <<>>
  <2>1. DOMAIN arts' = {} /\ arts' = [a \in {} |-> 0]
    BY <1>3
  <2>2. QED
    BY <1>1, <2>1 DEF ArtsOK
<1>4. QED
  BY <1>2, <1>3

\* A command that changes statuses and keeps the window of the group keeps the
\* loaded articles in it.
LEMMA SameArts ==
  ASSUME Inv, reading # NoGroup, UNCHANGED reading, DOMAIN arts' = DOMAIN arts,
         arts' \in [DOMAIN arts -> [status : Status, zombie : BOOLEAN]],
         newsrc'[reading].xmin = newsrc[reading].xmin,
         newsrc'[reading].xmax = newsrc[reading].xmax
  PROVE  ArtsOK'
BY DEF Inv, ArtsOK, ArtsInBitmap

\* art_mark_read() and thd_mark_read()
LEMMA MarkArtsReadOK ==
  ASSUME Inv, reading # NoGroup, NEW S, S \subseteq DOMAIN arts, MarkArtsRead(S)
  PROVE  /\ BitmapsOK(newsrc')
         /\ newsrc'[reading].xmin = newsrc[reading].xmin
         /\ newsrc'[reading].xmax = newsrc[reading].xmax
<1> DEFINE unread == {a \in S : Unread(a)}
<1>1. PICK stray \in SUBSET BehindBitmap(newsrc, reading, unread) :
        newsrc' = MarkRead(newsrc, reading, S, unread, stray)
  BY DEF MarkArtsRead
<1>2. stray \subseteq Groups \X Arts
  BY <1>1, BehindType
<1>3. unread \subseteq Arts /\ reading \in Groups /\ BitmapsOK(newsrc)
  BY DEF Inv, ArtsOK
<1> HIDE DEF unread
<1>4. QED
  BY <1>1, <1>2, <1>3, MarkReadOK

\* art_mark_read() clears bits of articles that are in the window.
LEMMA ReadArtsInv ==
  ASSUME Inv, NEW S, ReadArts(S) PROVE Inv'
<1>1. BitmapsOK(newsrc') /\ newsrc'[reading].xmin = newsrc[reading].xmin
      /\ newsrc'[reading].xmax = newsrc[reading].xmax
  BY MarkArtsReadOK DEF ReadArts
<1>2. /\ DOMAIN arts' = DOMAIN arts
      /\ arts' \in [DOMAIN arts -> [status : Status, zombie : BOOLEAN]]
  BY DEF ReadArts, Inv, ArtsOK, Status, ART_READ
<1>3. ArtsOK'
  BY <1>1, <1>2, SameArts DEF ReadArts
<1>4. QED
  BY <1>1, <1>3, BitmapFrame DEF ReadArts

\* 'X' is art_mark_read() with zombies.
LEMMA MarkUnselectedReadInv ==
  ASSUME Inv, NEW S, MarkUnselectedRead(S) PROVE Inv'
<1>1. BitmapsOK(newsrc') /\ newsrc'[reading].xmin = newsrc[reading].xmin
      /\ newsrc'[reading].xmax = newsrc[reading].xmax
  BY MarkArtsReadOK DEF MarkUnselectedRead
<1>2. /\ DOMAIN arts' = DOMAIN arts
      /\ arts' \in [DOMAIN arts -> [status : Status, zombie : BOOLEAN]]
  BY DEF MarkUnselectedRead, Inv, ArtsOK, Status, ART_READ
<1>3. ArtsOK'
  BY <1>1, <1>2, SameArts DEF MarkUnselectedRead
<1>4. QED
  BY <1>1, <1>3, BitmapFrame DEF MarkUnselectedRead

\* Setting the bits of articles of the window and counting them
LEMMA UnreadAgainOK ==
  ASSUME Inv, reading # NoGroup, NEW S, S \subseteq DOMAIN arts, NEW k \in Nat,
         NEW n, n = [newsrc[reading] EXCEPT !.num_unread = @ + k, !.xbitmap = @ \cup S],
         newsrc' = [newsrc EXCEPT ![reading] = n]
  PROVE  /\ BitmapsOK(newsrc')
         /\ newsrc'[reading].xmin = newsrc[reading].xmin
         /\ newsrc'[reading].xmax = newsrc[reading].xmax
<1>1. reading \in Groups /\ S \subseteq Arts /\ Arts \subseteq Nat
      /\ S \subseteq newsrc[reading].xmin..newsrc[reading].xmax
  BY SessionAssumption DEF Inv, ArtsOK, ArtsInBitmap, Arts
<1>2. newsrc[reading] \in NewsrcRecords /\ SoundNewsrc(newsrc[reading], MaxArt)
  BY <1>1 DEF Inv, BitmapsOK
<1>3. /\ n \in NewsrcRecords
      /\ n.xmin = newsrc[reading].xmin /\ n.xmax = newsrc[reading].xmax
      /\ n.xbitlen = newsrc[reading].xbitlen
      /\ n.xbitmap = newsrc[reading].xbitmap \cup S
  <2> DEFINE old == newsrc[reading]
             num == old.num_unread + k
             bits == old.xbitmap \cup S
  <2>1. old \in NewsrcRecords /\ n = [old EXCEPT !.num_unread = num, !.xbitmap = bits]
    BY <1>2
  <2>2. num \in Int /\ bits \in SUBSET Nat
    BY <1>1, <1>2 DEF NewsrcRecords
  <2> HIDE DEF old, num, bits
  <2>3. /\ n \in NewsrcRecords
        /\ n.xmin = old.xmin /\ n.xmax = old.xmax
        /\ n.xbitlen = old.xbitlen /\ n.xbitmap = bits
    BY <2>1, <2>2 DEF NewsrcRecords
  <2>4. QED
    BY <2>3 DEF old, bits
<1>4. n.xbitmap \subseteq n.xmin..n.xmax
  BY <1>1, <1>2, <1>3 DEF SoundNewsrc
<1>5. SoundNewsrc(n, MaxArt)
  BY <1>2, <1>3, <1>4 DEF SoundNewsrc
<1>6. QED
  BY <1>1, <1>3, <1>5 DEF Inv, BitmapsOK

\* art_mark_will_return() sets bits of loaded articles, which ArtsInBitmap
\* keeps inside the window.
LEMMA UnreadArtsAgainInv ==
  ASSUME Inv, NEW S, UnreadArtsAgain(S) PROVE Inv'
<1> DEFINE back == {a \in S : arts[a].status = ART_READ}
           n == [newsrc[reading] EXCEPT !.num_unread = @ + Cardinality(back),
                                        !.xbitmap = @ \cup S]
<1>1. back \subseteq Arts /\ S \subseteq DOMAIN arts
  BY DEF UnreadArtsAgain, Inv, ArtsOK
<1>2. Cardinality(back) \in Nat
  BY <1>1, ArtsFinite
<1>3. newsrc' = [newsrc EXCEPT ![reading] = n]
  BY DEF UnreadArtsAgain
<1>4. BitmapsOK(newsrc') /\ newsrc'[reading].xmin = newsrc[reading].xmin
      /\ newsrc'[reading].xmax = newsrc[reading].xmax
  <2> HIDE DEF back
  <2>1. QED
    BY <1>1, <1>2, <1>3, UnreadAgainOK DEF UnreadArtsAgain
<1>5. /\ DOMAIN arts' = DOMAIN arts
      /\ arts' \in [DOMAIN arts -> [status : Status, zombie : BOOLEAN]]
  BY DEF UnreadArtsAgain, Inv, ArtsOK, Status, ART_WILL_RETURN
<1>6. ArtsOK'
  BY <1>4, <1>5, SameArts DEF UnreadArtsAgain
<1>7. QED
  BY <1>4, <1>6, BitmapFrame DEF UnreadArtsAgain

\* art_mark_unread() sets bits of loaded articles, or expands the bitmap first.
LEMMA UndoAutoSelectInv ==
  ASSUME Inv, UndoAutoSelect PROVE Inv'
<1> DEFINE back == {a \in DOMAIN arts : arts[a].status = ART_READ /\ arts[a].zombie}
           n == [newsrc[reading] EXCEPT !.num_unread = @ + Cardinality(back),
                                        !.xbitmap = @ \cup back]
           m == [newsrc[reading] EXCEPT !.num_unread = @ + Cardinality(back)]
<1>1. back \subseteq Arts /\ back \subseteq DOMAIN arts /\ reading \in Groups
  BY DEF UndoAutoSelect, Inv, ArtsOK
<1>2. Cardinality(back) \in Nat
  BY <1>1, ArtsFinite
<1>3. newsrc[reading] \in NewsrcRecords
  BY <1>1 DEF Inv, BitmapsOK
<1>4. m.xmin = newsrc[reading].xmin
  BY <1>3 DEF NewsrcRecords
<1>5. \A a \in back : a >= m.xmin
  BY <1>1, <1>3, <1>4 DEF Inv, ArtsOK, ArtsInBitmap, UndoAutoSelect, NewsrcRecords
<1>6. [m EXCEPT !.xbitmap = @ \cup back] = n
  BY <1>3 DEF NewsrcRecords
<1>7. newsrc' = [newsrc EXCEPT ![reading] = n]
  <2>1. newsrc' = [newsrc EXCEPT ![reading] =
                     ArtMarkUnread(active[reading], newsrc[reading], back)]
    BY DEF UndoAutoSelect
  <2>2. ArtMarkUnread(active[reading], newsrc[reading], back) = n
    BY <1>5, <1>6 DEF ArtMarkUnread
  <2>3. QED
    BY <2>1, <2>2
<1>8. BitmapsOK(newsrc') /\ newsrc'[reading].xmin = newsrc[reading].xmin
      /\ newsrc'[reading].xmax = newsrc[reading].xmax
  <2> HIDE DEF back
  <2>1. QED
    BY <1>1, <1>2, <1>7, UnreadAgainOK DEF UndoAutoSelect
<1>9. /\ DOMAIN arts' = DOMAIN arts
      /\ arts' \in [DOMAIN arts -> [status : Status, zombie : BOOLEAN]]
  BY DEF UndoAutoSelect, Inv, ArtsOK, Status, ART_UNREAD
<1>10. ArtsOK'
  BY <1>8, <1>9, SameArts DEF UndoAutoSelect
<1>11. QED
  BY <1>8, <1>10, BitmapFrame DEF UndoAutoSelect

\* Leaving a group changes no bitmap.
LEMMA LeaveGroupInv ==
  ASSUME Inv, LeaveGroup PROVE Inv'
<1>1. ArtsOK'
  BY NoArts DEF LeaveGroup
<1>2. QED
  BY <1>1, BitmapFrame DEF LeaveGroup, Inv

\* One group gets a sound record.
LEMMA OneBitmap ==
  ASSUME NEW nrc, BitmapsOK(nrc), NEW g \in Groups, NEW n, SoundNewsrc(n, MaxArt)
  PROVE  BitmapsOK([nrc EXCEPT ![g] = n])
BY DEF BitmapsOK, SoundNewsrc

\* grp_mark_read() of the group being read: the marks, then an empty window.
LEMMA CatchupGroupInv ==
  ASSUME Inv, CatchupGroup PROVE Inv'
<1> DEFINE unread == {a \in DOMAIN arts : Unread(a)}
<1>1. PICK stray \in SUBSET BehindBitmap(newsrc, reading, unread) :
        newsrc' = [MarkRead(newsrc, reading, DOMAIN arts, unread, stray) EXCEPT
                     ![reading] = ScrubBitmap(active[reading], @)]
  BY DEF CatchupGroup
<1> DEFINE done == MarkRead(newsrc, reading, DOMAIN arts, unread, stray)
<1>2. stray \subseteq Groups \X Arts
  BY <1>1, BehindType
<1>3. unread \subseteq Arts /\ reading \in Groups /\ BitmapsOK(newsrc)
  BY DEF Inv, ArtsOK, CatchupGroup
<1>4. BitmapsOK(done)
  <2> HIDE DEF unread
  <2>1. QED
    BY <1>2, <1>3, MarkReadOK
<1> HIDE DEF done
<1>5. SoundNewsrc(done[reading], MaxArt) /\ SoundGroup(active[reading], MaxArt)
  BY <1>3, <1>4 DEF BitmapsOK, Inv, ActiveOK, EntryOK
<1>6. SoundNewsrc(ScrubBitmap(active[reading], done[reading]), MaxArt)
  BY <1>5, ScrubSound, SessionAssumption
<1>7. BitmapsOK(newsrc')
  BY <1>1, <1>3, <1>4, <1>6, OneBitmap DEF done
<1>8. ArtsOK'
  BY NoArts DEF CatchupGroup
<1>9. QED
  BY <1>7, <1>8, BitmapFrame DEF CatchupGroup

\* grp_mark_read() from the selection page empties the window.
LEMMA CatchupSelectedInv ==
  ASSUME Inv, NEW g \in Groups, CatchupSelected(g) PROVE Inv'
<1>1. BitmapsOK(newsrc) /\ SoundNewsrc(newsrc[g], MaxArt) /\ SoundGroup(active[g], MaxArt)
  BY DEF BitmapsOK, Inv, ActiveOK, EntryOK
<1>2. SoundNewsrc(ScrubBitmap(active[g], newsrc[g]), MaxArt)
  BY <1>1, ScrubSound, SessionAssumption
<1>3. BitmapsOK(newsrc')
  BY <1>1, <1>2, OneBitmap DEF CatchupSelected
<1>4. ArtsOK'
  BY NoArts DEF CatchupSelected
<1>5. QED
  BY <1>3, <1>4, BitmapFrame DEF CatchupSelected

\* One group gets a sound entry and a sound record.
LEMMA OneGroup ==
  ASSUME Inv, UNCHANGED <<spool, high>>, NEW g \in Groups,
         NEW grp \in GroupRecords, EntryOK(g, grp), active' = [active EXCEPT ![g] = grp],
         NEW n, SoundNewsrc(n, MaxArt), newsrc' = [newsrc EXCEPT ![g] = n],
         LinesOK(file'), ArtsOK'
  PROVE  Inv'
<1>1. active' \in [Groups -> GroupRecords] /\ \A h \in Groups : EntryOK(h, active'[h])
  BY DEF Inv, ActiveOK
<1>2. BitmapsOK(newsrc')
  BY OneBitmap DEF Inv
<1>3. QED
  BY <1>1, <1>2, Frame

\* grp_mark_unread() rebuilds the window from the counts of the server.
LEMMA MarkGroupUnreadInv ==
  ASSUME Inv, NEW g \in Groups, MarkGroupUnread(g) PROVE Inv'
<1>1. PICK info \in ArtInfo(g) :
        /\ active' = [active EXCEPT ![g] = WithInfo(@, info)]
        /\ newsrc' = [newsrc EXCEPT ![g] = GrpMarkUnread(active'[g], @)]
  BY DEF MarkGroupUnread
<1> DEFINE grp == WithInfo(active[g], info)
<1>2. active \in [Groups -> GroupRecords] /\ SoundNewsrc(newsrc[g], MaxArt)
  BY DEF Inv, ActiveOK, BitmapsOK
<1>3. grp \in GroupRecords /\ EntryOK(g, grp) /\ SoundGroup(grp, MaxArt)
  BY <1>1, <1>2, ArtInfoOK DEF EntryOK
<1> HIDE DEF grp
<1>4. active' = [active EXCEPT ![g] = grp] /\ active'[g] = grp
  BY <1>1, <1>2 DEF grp
<1>5. SoundNewsrc(GrpMarkUnread(grp, newsrc[g]), MaxArt)
  BY <1>2, <1>3, GrpMarkUnreadSound, SessionAssumption
<1>6. newsrc' = [newsrc EXCEPT ![g] = GrpMarkUnread(grp, newsrc[g])]
  BY <1>1, <1>4
<1>7. ArtsOK' /\ LinesOK(file')
  BY NoArts DEF MarkGroupUnread, Inv
<1>8. QED
  BY <1>3, <1>4, <1>5, <1>6, <1>7, OneGroup DEF MarkGroupUnread

\* New counts after posting: expand_bitmap() keeps the shape.
LEMMA RereadAfterPostingInv ==
  ASSUME Inv, NEW g \in Groups, RereadAfterPosting(g) PROVE Inv'
<1>1. PICK info \in ArtInfo(g) :
        /\ active' = [active EXCEPT ![g] = WithInfo(active[g], info)]
        /\ newsrc' = [newsrc EXCEPT
             ![g] = Get1GrpArtInfo(active[g], WithInfo(active[g], info), @)]
  BY DEF RereadAfterPosting
<1> DEFINE grp == WithInfo(active[g], info)
<1>2. active[g] \in GroupRecords /\ SoundNewsrc(newsrc[g], MaxArt)
  BY DEF Inv, ActiveOK, BitmapsOK
<1>3. grp \in GroupRecords /\ EntryOK(g, grp) /\ SoundGroup(grp, MaxArt)
  BY <1>1, <1>2, ArtInfoOK DEF EntryOK
<1>4. SoundNewsrc(Get1GrpArtInfo(active[g], grp, newsrc[g]), MaxArt)
  <2> HIDE DEF grp
  <2>1. QED
    BY <1>2, <1>3, Get1Sound
<1>5. ArtsOK' /\ LinesOK(file')
  BY NoArts DEF RereadAfterPosting, Inv
<1>6. QED
  BY <1>1, <1>3, <1>4, <1>5, OneGroup DEF RereadAfterPosting

\* subscribe() loads or makes a sound record and a well-formed line.
LEMMA SubscribedOK ==
  ASSUME Inv, NEW g \in Groups, NEW s \in Subscribed(g)
  PROVE  /\ s.grp \in GroupRecords /\ EntryOK(g, s.grp)
         /\ SoundNewsrc(s.nrc, MaxArt) /\ s.line \in Lines
<1>1. /\ active[g] \in GroupRecords /\ EntryOK(g, active[g]) /\ file[g] \in Lines
      /\ SoundNewsrc(newsrc[g], MaxArt) /\ MaxArt \in Nat
  BY SessionAssumption DEF Inv, ActiveOK, BitmapsOK, LinesOK
<1>2. ASSUME NEW grp \in GroupRecords, EntryOK(g, grp)
      PROVE  /\ [grp EXCEPT !.subscribed = TRUE] \in GroupRecords
             /\ EntryOK(g, [grp EXCEPT !.subscribed = TRUE])
  <2> DEFINE s2 == [grp EXCEPT !.subscribed = TRUE]
  <2>1. s2 \in GroupRecords /\ s2.xmin = grp.xmin /\ s2.xmax = grp.xmax
    BY DEF GroupRecords
  <2> HIDE DEF s2
  <2>2. EntryOK(g, s2)
    BY <1>2, <2>1 DEF EntryOK, SoundGroup
  <2>3. QED
    BY <2>1, <2>2 DEF s2
<1>3. CASE file[g].listed
  <2>1. s = [grp |-> [active[g] EXCEPT !.subscribed = TRUE],
             nrc |-> ParseBitmapSeq(active[g], file[g].seq),
             line |-> [file[g] EXCEPT !.sub = TRUE]]
    BY <1>3 DEF Subscribed
  <2>2. file[g].seq \subseteq (1..MaxArt) \X (1..MaxArt)
    BY <1>1 DEF Lines, Arts
  <2>3. SoundNewsrc(ParseBitmapSeq(active[g], file[g].seq), MaxArt)
    BY <1>1, <2>2, ParseSound DEF EntryOK
  <2>4. [file[g] EXCEPT !.sub = TRUE] \in Lines
    BY <1>1 DEF Lines
  <2>5. QED
    BY <1>1, <1>2, <2>1, <2>3, <2>4
<1>4. CASE ~file[g].listed
  <2>1. PICK info \in ArtInfo(g) :
          s = LET grp == WithInfo(active[g], info)
                  n   == Get1GrpArtInfo(active[g], grp, newsrc[g])
              IN  [grp |-> [grp EXCEPT !.subscribed = TRUE],
                   nrc |-> n,
                   line |-> [listed |-> TRUE, sub |-> TRUE, seq |-> PrintBitmapSeq(grp, n)]]
    BY <1>4 DEF Subscribed
  <2> DEFINE grp == WithInfo(active[g], info)
             n == Get1GrpArtInfo(active[g], grp, newsrc[g])
  <2>2. /\ s.grp = [grp EXCEPT !.subscribed = TRUE] /\ s.nrc = n
        /\ s.line = [listed |-> TRUE, sub |-> TRUE, seq |-> PrintBitmapSeq(grp, n)]
    BY <2>1
  <2>3. grp \in GroupRecords /\ EntryOK(g, grp) /\ SoundGroup(grp, MaxArt)
    BY <1>1, <2>1, ArtInfoOK DEF EntryOK
  <2> HIDE DEF grp
  <2>4. SoundNewsrc(n, MaxArt)
    BY <1>1, <2>3, Get1Sound
  <2> HIDE DEF n
  <2>5. PrintBitmapSeq(grp, n) \subseteq Arts \X Arts
    BY <1>1, <2>4, PrintType DEF Arts
  <2>6. s.line \in Lines
    BY <2>2, <2>5 DEF Lines
  <2>7. QED
    BY <1>2, <2>2, <2>3, <2>4, <2>6
<1>5. QED
  BY <1>3, <1>4

\* subscribe() loads the group's line or expands its bitmap.
LEMMA SubscribeInv ==
  ASSUME Inv, NEW g \in Groups, Subscribe(g) PROVE Inv'
<1>1. PICK s \in Subscribed(g) :
        /\ active' = [active EXCEPT ![g] = s.grp]
        /\ newsrc' = [newsrc EXCEPT ![g] = s.nrc]
        /\ file' = [file EXCEPT ![g] = s.line]
  BY DEF Subscribe
<1>2. /\ s.grp \in GroupRecords /\ EntryOK(g, s.grp)
      /\ SoundNewsrc(s.nrc, MaxArt) /\ s.line \in Lines
  BY <1>1, SubscribedOK
<1>3. LinesOK(file')
  BY <1>1, <1>2 DEF Inv, LinesOK
<1>4. ArtsOK'
  BY NoArts DEF Subscribe
<1>5. QED
  BY <1>1, <1>2, <1>3, <1>4, OneGroup DEF Subscribe

\* subscribe_pattern(): subscribe(), then grp_mark_unread().
LEMMA SubscribePatternInv ==
  ASSUME Inv, NEW g \in Groups, SubscribePattern(g) PROVE Inv'
<1>1. PICK s \in Subscribed(g), info \in ArtInfo(g) :
        /\ active' = [active EXCEPT ![g] = WithInfo(s.grp, info)]
        /\ newsrc' = [newsrc EXCEPT ![g] = GrpMarkUnread(active'[g], s.nrc)]
        /\ file' = [file EXCEPT ![g] = s.line]
  BY DEF SubscribePattern
<1>2. /\ s.grp \in GroupRecords /\ EntryOK(g, s.grp)
      /\ SoundNewsrc(s.nrc, MaxArt) /\ s.line \in Lines
  BY <1>1, SubscribedOK
<1> DEFINE grp == WithInfo(s.grp, info)
<1>3. grp \in GroupRecords /\ EntryOK(g, grp) /\ SoundGroup(grp, MaxArt)
  BY <1>1, <1>2, ArtInfoOK DEF EntryOK
<1> HIDE DEF grp
<1>4. active' = [active EXCEPT ![g] = grp] /\ active'[g] = grp
  BY <1>1 DEF grp, Inv, ActiveOK
<1>5. SoundNewsrc(GrpMarkUnread(grp, s.nrc), MaxArt)
  BY <1>2, <1>3, GrpMarkUnreadSound, SessionAssumption
<1>6. newsrc' = [newsrc EXCEPT ![g] = GrpMarkUnread(grp, s.nrc)]
  BY <1>1, <1>4
<1>7. LinesOK(file')
  BY <1>1, <1>2 DEF Inv, LinesOK
<1>8. ArtsOK'
  BY NoArts DEF SubscribePattern
<1>9. QED
  BY <1>3, <1>4, <1>5, <1>6, <1>7, <1>8, OneGroup DEF SubscribePattern

\* delete_group() leaves the bitmaps alone and keeps the line well formed.
LEMMA UnsubscribeInv ==
  ASSUME Inv, NEW g \in Groups, Unsubscribe(g) PROVE Inv'
<1> DEFINE grp == [active[g] EXCEPT !.subscribed = FALSE]
           line == [listed |-> TRUE, sub |-> FALSE,
                    seq |-> IF file[g].listed THEN file[g].seq ELSE {}]
<1>1. active[g] \in GroupRecords /\ EntryOK(g, active[g]) /\ file[g] \in Lines
  BY DEF Inv, ActiveOK, LinesOK
<1>2. grp \in GroupRecords /\ grp.xmin = active[g].xmin /\ grp.xmax = active[g].xmax
  BY <1>1 DEF GroupRecords
<1>3. line \in Lines
  BY <1>1 DEF Lines
<1>4. file' = [file EXCEPT ![g] = line] /\ active' = [active EXCEPT ![g] = grp]
  BY DEF Unsubscribe
<1> HIDE DEF grp, line
<1>5. EntryOK(g, grp)
  BY <1>1, <1>2 DEF EntryOK, SoundGroup
<1>6. LinesOK(file') /\ BitmapsOK(newsrc')
  BY <1>3, <1>4 DEF Inv, LinesOK, Unsubscribe
<1>7. ArtsOK'
  BY NoArts DEF Unsubscribe
<1>8. active' \in [Groups -> GroupRecords] /\ \A h \in Groups : EntryOK(h, active'[h])
  BY <1>2, <1>4, <1>5 DEF Inv, ActiveOK
<1>9. QED
  BY <1>6, <1>7, <1>8, Frame DEF Unsubscribe

\* index_group(): the window covers what was loaded and every expired article
\* that is marked; the bitmap is rebuilt inside it.
LEMMA EnterGroupInv ==
  ASSUME Inv, NEW g \in Groups, EnterGroup(g) PROVE Inv'
<1>0. PICK base \in HardBase(g) : \E got \in SUBSET base :
        LET grp == Indexed(g, base)
            n   == BasedNewsrc(g, base, 0)
        IN  /\ \E expired \in SUBSET ((grp.xmin..grp.xmax) \ base) :
                 LET parsed == [newsrc EXCEPT ![g] =
                                  ParseUnreadArts(grp, n, got \cup expired)]
                     gone   == UnreadArts(n, expired)
                 IN  \E stray \in SUBSET BehindBitmap(parsed, g, gone) :
                       newsrc' = MarkRead(parsed, g, expired, gone, stray)
            /\ active' = [active EXCEPT ![g] = grp]
            /\ arts' = [a \in got |->
                          [status |-> IF a \in UnreadArts(n, got)
                                      THEN ART_UNREAD ELSE ART_READ,
                           zombie |-> FALSE]]
  BY DEF EnterGroup
<1>1. PICK got \in SUBSET base :
        LET grp == Indexed(g, base)
            n   == BasedNewsrc(g, base, 0)
        IN  /\ \E expired \in SUBSET ((grp.xmin..grp.xmax) \ base) :
                 LET parsed == [newsrc EXCEPT ![g] =
                                  ParseUnreadArts(grp, n, got \cup expired)]
                     gone   == UnreadArts(n, expired)
                 IN  \E stray \in SUBSET BehindBitmap(parsed, g, gone) :
                       newsrc' = MarkRead(parsed, g, expired, gone, stray)
            /\ active' = [active EXCEPT ![g] = grp]
            /\ arts' = [a \in got |->
                          [status |-> IF a \in UnreadArts(n, got)
                                      THEN ART_UNREAD ELSE ART_READ,
                           zombie |-> FALSE]]
  BY <1>0
<1> DEFINE grp == Indexed(g, base)
           n == BasedNewsrc(g, base, 0)
<1>2. PICK expired \in SUBSET ((grp.xmin..grp.xmax) \ base) :
        LET parsed == [newsrc EXCEPT ![g] = ParseUnreadArts(grp, n, got \cup expired)]
            gone   == UnreadArts(n, expired)
        IN  \E stray \in SUBSET BehindBitmap(parsed, g, gone) :
              newsrc' = MarkRead(parsed, g, expired, gone, stray)
  BY <1>1
<1> DEFINE p == ParseUnreadArts(grp, n, got \cup expired)
           parsed == [newsrc EXCEPT ![g] = p]
           gone == UnreadArts(n, expired)
<1>3. PICK stray \in SUBSET BehindBitmap(parsed, g, gone) :
        newsrc' = MarkRead(parsed, g, expired, gone, stray)
  BY <1>2
<1>4. /\ grp \in GroupRecords /\ EntryOK(g, grp) /\ SoundGroup(grp, MaxArt)
      /\ SoundNewsrc(n, MaxArt)
      /\ base # {} => grp.xmax = Highest(base) /\ n.xmin <= Lowest(base)
  BY BasedOK DEF EntryOK
<1>5. /\ base \subseteq Arts
      /\ base # {} => /\ \A y \in base : y <= Highest(base)
                      /\ \A y \in base : Lowest(base) <= y
                      /\ Lowest(base) \in base
  BY HardBaseType
<1>6. MaxArt \in Nat /\ Arts = 1..MaxArt
  BY SessionAssumption DEF Arts
<1> HIDE DEF grp, n
<1>7. /\ grp.xmin \in Nat /\ grp.xmax \in Nat /\ grp.xmax <= MaxArt /\ 1 <= grp.xmin
      /\ n.xmin \in Nat /\ n.xmax \in Nat
  BY <1>4, <1>6 DEF SoundGroup, GroupRecords, SoundNewsrc, NewsrcRecords
<1>8. \A a \in got : a \in Nat /\ 1 <= a /\ a <= grp.xmax /\ n.xmin <= a
  <2>1. SUFFICES ASSUME NEW a \in got
                 PROVE  a \in Nat /\ 1 <= a /\ a <= grp.xmax /\ n.xmin <= a
    OBVIOUS
  <2>2. a \in base /\ base # {} /\ a \in Nat /\ 1 <= a
    BY <1>1, <1>5, <1>6
  <2>3. a <= grp.xmax
    BY <1>4, <1>5, <2>2
  <2>4. Lowest(base) \in base /\ Lowest(base) <= a /\ n.xmin <= Lowest(base)
    BY <1>4, <1>5, <2>2, Zenon
  <2>5. Lowest(base) \in 1..MaxArt
    BY <1>5, <1>6, <2>4, Zenon
  <2>6. Lowest(base) \in Nat
    BY <1>6, <2>5
  <2>7. QED
    BY <1>7, <2>2, <2>3, <2>4, <2>6
<1>9. \A a \in expired : a \in Nat /\ 1 <= a /\ a <= grp.xmax
  BY <1>7
<1>10. expired \subseteq Arts /\ gone \subseteq Arts
  <2>1. \A a \in expired : a \in Arts
    <3>1. \A a \in expired : a \in 1..MaxArt
      BY <1>6, <1>7, <1>9
    <3>2. QED
      BY <1>6, <3>1, Zenon
  <2>2. gone \subseteq expired
    BY DEF UnreadArts
  <2>3. QED
    BY <2>1, <2>2, Zenon
<1>11. got \cup expired \subseteq 1..Larger(grp.xmax, n.xmax)
  <2> DEFINE top == Larger(grp.xmax, n.xmax)
  <2>1. top \in Nat /\ grp.xmax <= top
    BY <1>7 DEF Larger
  <2> HIDE DEF top
  <2>2. \A a \in got : a \in 1..top
    BY <1>7, <1>8, <2>1
  <2>3. \A a \in expired : a \in 1..top
    BY <1>7, <1>9, <2>1
  <2>4. QED
    BY <2>2, <2>3, Zenon DEF top
<1>12. SoundNewsrc(p, MaxArt) /\ p.xmin = n.xmin /\ grp.xmax <= p.xmax
  <2>1. QED
    BY <1>4, <1>6, <1>11, ParseUnreadSound
<1> HIDE DEF p, gone
<1>13. BitmapsOK(parsed) /\ parsed[g] = p
  BY <1>12, OneBitmap DEF Inv, BitmapsOK
<1> HIDE DEF parsed
<1>14. stray \subseteq Groups \X Arts
  BY <1>3, BehindType
<1>15. BitmapsOK(newsrc') /\ newsrc'[g].xmin = n.xmin /\ newsrc'[g].xmax = p.xmax
  <2>1. BitmapsOK(parsed) /\ gone \subseteq Arts /\ stray \subseteq Groups \X Arts
    BY <1>10, <1>13, <1>14
  <2>2. /\ BitmapsOK(MarkRead(parsed, g, expired, gone, stray))
        /\ \A h \in Groups :
             /\ MarkRead(parsed, g, expired, gone, stray)[h].xmin = parsed[h].xmin
             /\ MarkRead(parsed, g, expired, gone, stray)[h].xmax = parsed[h].xmax
    <3>1. \A x : BitmapsOK(x) => BitmapsOK(MarkRead(x, g, expired, gone, stray))
      BY <2>1, MarkReadOK
    <3>2. \A x : BitmapsOK(x) =>
            \A h \in Groups :
              /\ MarkRead(x, g, expired, gone, stray)[h].xmin = x[h].xmin
              /\ MarkRead(x, g, expired, gone, stray)[h].xmax = x[h].xmax
      BY <2>1, MarkReadOK
    <3>3. QED
      BY <2>1, <3>1, <3>2
  <2>3. QED
    BY <1>3, <1>12, <1>13, <2>2
<1>16. active' = [active EXCEPT ![g] = grp]
  BY <1>1 DEF grp
<1>17. active' \in [Groups -> GroupRecords] /\ \A h \in Groups : EntryOK(h, active'[h])
  BY <1>4, <1>16 DEF Inv, ActiveOK
<1>18. /\ reading' = g /\ DOMAIN arts' = got /\ got \subseteq Arts
       /\ arts' \in [got -> [status : Status, zombie : BOOLEAN]]
  BY <1>1, <1>5 DEF EnterGroup, Status, ART_READ, ART_UNREAD
<1>19. p.xmax \in Nat
  BY <1>12 DEF SoundNewsrc, NewsrcRecords
<1>20. got \subseteq newsrc'[g].xmin..newsrc'[g].xmax
  BY <1>7, <1>8, <1>12, <1>15, <1>19
<1>21. ArtsOK'
  BY <1>18, <1>20 DEF ArtsOK, ArtsInBitmap
<1>22. QED
  BY <1>15, <1>17, <1>21, Frame DEF EnterGroup, Inv

\* An interrupted index_group() has still expanded the bitmap.
LEMMA AbortEnterInv ==
  ASSUME Inv, NEW g \in Groups, AbortEnter(g) PROVE Inv'
<1>1. PICK base \in HardBase(g) :
        /\ \E unset \in UnsetBits(Based(g, base), newsrc[g],
                                  IF base = {} THEN 0 ELSE Lowest(base)) :
             newsrc' = [newsrc EXCEPT ![g] = BasedNewsrc(g, base, unset)]
        /\ active' = [active EXCEPT ![g] = Indexed(g, base)]
  BY DEF AbortEnter
<1>2. PICK unset \in UnsetBits(Based(g, base), newsrc[g],
                               IF base = {} THEN 0 ELSE Lowest(base)) :
        newsrc' = [newsrc EXCEPT ![g] = BasedNewsrc(g, base, unset)]
  BY <1>1
<1>3. unset \in Nat
  <2> DEFINE min == IF base = {} THEN 0 ELSE Lowest(base)
  <2>1. min \in Nat
    BY HardBaseType, SessionAssumption DEF Arts
  <2>2. SoundNewsrc(newsrc[g], MaxArt) /\ MaxArt \in Nat
    BY SessionAssumption DEF Inv, BitmapsOK
  <2> HIDE DEF min
  <2>3. UnsetBits(Based(g, base), newsrc[g], min) \subseteq Nat
    BY <2>1, <2>2, UnsetType
  <2>4. QED
    BY <2>3 DEF min
<1>4. /\ Indexed(g, base) \in GroupRecords /\ EntryOK(g, Indexed(g, base))
      /\ SoundNewsrc(BasedNewsrc(g, base, unset), MaxArt)
  BY <1>3, BasedOK
<1>5. ArtsOK' /\ LinesOK(file')
  BY NoArts DEF AbortEnter, Inv
<1>6. QED
  BY <1>1, <1>2, <1>4, <1>5, OneGroup DEF AbortEnter

\* resync_active_file() from sound records and a well-formed file
LEMMA ResyncInv ==
  ASSUME Inv, reading = NoGroup, NEW nrc, BitmapsOK(nrc), NEW lines, LinesOK(lines),
         Resync(nrc, lines)
  PROVE  Inv'
<1> DEFINE act == [g \in Groups |-> RereadActive(g)]
<1>1. act \in [Groups -> GroupRecords] /\ \A g \in Groups : EntryOK(g, act[g])
  BY RereadOK
<1>2. LinesOK(file')
  BY WrittenFileType DEF Resync, Inv
<1>3. active' = LoadActive(act, file') /\ newsrc' = LoadNewsrc(act, nrc, file')
  BY DEF Resync
<1> HIDE DEF act
<1>4. active' \in [Groups -> GroupRecords] /\ \A g \in Groups : EntryOK(g, active'[g])
  BY <1>1, <1>3, LoadActiveOK
<1>5. BitmapsOK(newsrc')
  BY <1>1, <1>2, <1>3, LoadNewsrcOK
<1>6. ArtsOK'
  BY NoArts DEF Resync
<1>7. QED
  BY <1>2, <1>4, <1>5, <1>6, Frame DEF Resync

\* Saving, rereading the active file and loading again.
LEMMA ResyncActiveInv ==
  ASSUME Inv, ResyncActive PROVE Inv'
BY ResyncInv DEF ResyncActive, Inv

\* The same, with some bitmaps emptied and the lines without marks.
LEMMA ResetNewsrcInv ==
  ASSUME Inv, ResetNewsrc PROVE Inv'
<1>1. PICK displayed \in SUBSET Groups :
        Resync([g \in Groups |-> IF g \in displayed THEN VSetDefaultBitmap(active[g])
                                 ELSE newsrc[g]],
               [g \in Groups |-> [file[g] EXCEPT !.seq = {}]])
  BY DEF ResetNewsrc
<1> DEFINE nrc == [g \in Groups |-> IF g \in displayed THEN VSetDefaultBitmap(active[g])
                                    ELSE newsrc[g]]
           lines == [g \in Groups |-> [file[g] EXCEPT !.seq = {}]]
<1>2. ASSUME NEW g \in Groups PROVE SoundNewsrc(nrc[g], MaxArt)
  BY DefaultSound, SessionAssumption DEF Inv, ActiveOK, EntryOK, BitmapsOK
<1>3. BitmapsOK(nrc)
  BY <1>2 DEF BitmapsOK, SoundNewsrc
<1>4. ASSUME NEW g \in Groups PROVE [file[g] EXCEPT !.seq = {}] \in Lines
  BY DEF Inv, LinesOK, Lines
<1>5. LinesOK(lines)
  BY <1>4 DEF LinesOK
<1> HIDE DEF nrc, lines
<1>6. Resync(nrc, lines)
  BY <1>1 DEF nrc, lines
<1>7. QED
  BY <1>3, <1>5, <1>6, ResyncInv DEF ResetNewsrc

\* main() with any well-formed .newsrc
LEMMA StartUpInv ==
  ASSUME Inv, NEW lines, LinesOK(lines), StartUp(lines) PROVE Inv'
<1> DEFINE act == [g \in Groups |-> FreshActive(g)]
           nrc == [g \in Groups |-> VSetDefaultBitmap(act[g])]
<1>1. active' = LoadActive(act, lines) /\ newsrc' = LoadNewsrc(act, nrc, lines)
  BY DEF StartUp
<1>2. /\ active' \in [Groups -> GroupRecords] /\ \A g \in Groups : EntryOK(g, active'[g])
      /\ BitmapsOK(newsrc')
  BY <1>1, LoadedOK DEF Inv
<1>3. ArtsOK' /\ LinesOK(file')
  BY NoArts DEF StartUp
<1>4. QED
  BY <1>2, <1>3, Frame DEF StartUp

\* A session that ends with a save starts the next one in a good state.
LEMMA QuitInv ==
  ASSUME Inv, Quit PROVE Inv'
BY StartUpInv, WrittenFileType DEF Quit, Inv

\* So does one that is lost.
LEMMA DieInv ==
  ASSUME Inv, Die PROVE Inv'
BY StartUpInv DEF Die, Inv

\* The server's lowest number never falls.
LEMMA ServerMinGrows ==
  ASSUME Inv, NEW g \in Groups, spool'[g] \subseteq 1..high'[g], high'[g] \in Nat,
         high[g] <= high'[g], \A a \in spool'[g] : ServerMin(g) <= a
  PROVE  ServerMin(g) <= ServerMin(g)'
<1>1. ServerMin(g) \in Nat /\ ServerMin(g) <= high[g] + 1 /\ high[g] \in Nat
  BY ServerMinType DEF Inv
<1>2. CASE spool'[g] = {}
  BY <1>1, <1>2 DEF ServerMin
<1>3. CASE spool'[g] # {}
  <2>1. spool'[g] \subseteq Nat
    OBVIOUS
  <2>2. Lowest(spool'[g]) \in spool'[g]
    BY <1>3, <2>1, LowestOf
  <2>3. ServerMin(g)' = Lowest(spool'[g])
    BY <1>3 DEF ServerMin
  <2>4. QED
    BY <2>2, <2>3
<1>4. QED
  BY <1>2, <1>3

\* An action of the server keeps the invariant when its numbers only grow.
LEMMA ServerInv ==
  ASSUME Inv, UNCHANGED <<active, newsrc, file, reading, arts>>, ServerOK',
         \A g \in Groups : high[g] <= high'[g] /\ \A a \in spool'[g] : ServerMin(g) <= a
  PROVE  Inv'
<1>1. ASSUME NEW g \in Groups PROVE EntryOK(g, active[g])'
  <2>1. EntryOK(g, active[g]) /\ active[g] \in GroupRecords
    BY DEF Inv, ActiveOK
  <2>2. /\ ServerMin(g) \in Nat /\ high[g] \in Nat
        /\ ServerMin(g)' \in Nat /\ high'[g] \in Nat /\ spool'[g] \subseteq 1..high'[g]
    <3>1. ServerMin(g) \in Nat /\ high[g] \in Nat
      BY ServerMinType DEF Inv
    <3>2. high'[g] \in Nat /\ spool'[g] \subseteq 1..high'[g] /\ spool'[g] \subseteq Nat
      BY SessionAssumption DEF ServerOK
    <3>3. spool'[g] # {} => Lowest(spool'[g]) \in spool'[g]
      BY <3>2, LowestOf
    <3>4. ServerMin(g)' \in Nat
      BY <3>2, <3>3 DEF ServerMin
    <3>5. QED
      BY <3>1, <3>2, <3>4
  <2>3. ServerMin(g) <= ServerMin(g)'
    BY <2>2, ServerMinGrows
  <2>4. QED
    BY <2>1, <2>2, <2>3 DEF EntryOK, SoundGroup, GroupRecords
<1>2. ActiveOK'
  BY <1>1 DEF Inv, ActiveOK
<1>3. BitmapsOK(newsrc)' /\ LinesOK(file)'
  BY DEF Inv, BitmapsOK, LinesOK
<1>4. ArtsOK'
  BY DEF Inv, ArtsOK, ArtsInBitmap
<1>5. QED
  BY <1>2, <1>3, <1>4 DEF Inv

\* No listed article is below ServerMin.
LEMMA ServerMinLowest ==
  ASSUME Inv, NEW g \in Groups, NEW a \in spool[g]
  PROVE  ServerMin(g) <= a
BY LowestOf, SessionAssumption DEF ServerMin, Inv, ServerOK, Arts

\* A new article raises the marks of the server only.
LEMMA ArriveInv ==
  ASSUME Inv, NEW g \in Groups, Arrive(g) PROVE Inv'
<1>1. /\ high \in [Groups -> 0..MaxArt] /\ spool \in [Groups -> SUBSET Arts]
      /\ \A h \in Groups : spool[h] \subseteq 1..high[h]
      /\ MaxArt \in Nat /\ Arts = 1..MaxArt
  BY SessionAssumption DEF Inv, ServerOK, Arts
<1>2. /\ high' = [high EXCEPT ![g] = high[g] + 1]
      /\ spool' = [spool EXCEPT ![g] = spool[g] \cup {high[g] + 1}]
      /\ high[g] < MaxArt
  BY DEF Arrive
<1>3. high[g] \in Nat /\ high[g] + 1 \in 1..MaxArt
  BY <1>1, <1>2
<1>4. ServerOK'
  <2>1. high' \in [Groups -> 0..MaxArt] /\ spool' \in [Groups -> SUBSET Arts]
    BY <1>1, <1>2, <1>3
  <2>2. ASSUME NEW h \in Groups PROVE spool'[h] \subseteq 1..high'[h]
    BY <1>1, <1>2, <1>3
  <2>3. QED
    BY <2>1, <2>2 DEF ServerOK
<1>5. ASSUME NEW h \in Groups
      PROVE  high[h] <= high'[h] /\ \A a \in spool'[h] : ServerMin(h) <= a
  <2>1. high[h] \in Nat /\ ServerMin(h) <= high[h] + 1
    BY ServerMinType DEF Inv
  <2>2. \A a \in spool[h] : ServerMin(h) <= a
    BY ServerMinLowest
  <2>3. QED
    BY <1>1, <1>2, <2>1, <2>2
<1>6. QED
  BY <1>4, <1>5, ServerInv DEF Arrive

\* An expired article can only raise the low mark of the server.
LEMMA ExpireInv ==
  ASSUME Inv, NEW g \in Groups, NEW a \in Arts, Expire(g, a) PROVE Inv'
<1>1. /\ high' = high /\ spool' = [spool EXCEPT ![g] = spool[g] \ {a}]
  BY DEF Expire
<1>2. ServerOK'
  BY <1>1 DEF Inv, ServerOK
<1>3. ASSUME NEW h \in Groups
      PROVE  high[h] <= high'[h] /\ \A b \in spool'[h] : ServerMin(h) <= b
  <2>1. high[h] \in Nat
    BY ServerMinType DEF Inv
  <2>2. spool'[h] \subseteq spool[h]
    BY <1>1 DEF Inv, ServerOK
  <2>3. QED
    BY <1>1, <2>1, <2>2, ServerMinLowest
<1>4. QED
  BY <1>2, <1>3, ServerInv DEF Expire

-----------------------------------------------------------------------------
(* The theorems *)

\* A session starts in the invariant, from whatever .newsrc an earlier session
\* left.
LEMMA InitInv == Init => Inv
<1> SUFFICES ASSUME Init PROVE Inv
  OBVIOUS
<1>0. MaxArt \in Nat /\ Arts = 1..MaxArt
  BY SessionAssumption DEF Arts
<1>1. ServerOK
  BY <1>0 DEF Init, ServerOK
<1>2. LinesOK(file)
  <2>1. ASSUME NEW g \in Groups PROVE file[g] \in Lines
    <3>1. file[g] \in FirstLines(high[g]) /\ high[g] \in 0..MaxArt
      BY DEF Init
    <3>2. 1..high[g] \subseteq Arts
      BY <1>0, <3>1
    <3>3. ASSUME NEW S \in SUBSET (1..high[g]) PROVE Runs(S) \in SUBSET (Arts \X Arts)
      BY <3>2 DEF Runs
    <3>4. \A l \in [listed : {TRUE}, sub : BOOLEAN,
                    seq : {Runs(S) : S \in SUBSET (1..high[g])}] : l \in Lines
      BY <3>3 DEF Lines
    <3>5. [listed |-> FALSE, sub |-> FALSE, seq |-> {}] \in Lines
      BY DEF Lines
    <3>6. QED
      BY <3>1, <3>4, <3>5 DEF FirstLines
  <2>2. file = [g \in Groups |-> file[g]]
    BY DEF Init
  <2>3. QED
    BY <2>1, <2>2 DEF LinesOK
<1> DEFINE act == [g \in Groups |-> FreshActive(g)]
           nrc == [g \in Groups |-> VSetDefaultBitmap(act[g])]
<1>3. active = LoadActive(act, file) /\ newsrc = LoadNewsrc(act, nrc, file)
  BY DEF Init
<1>4. ActiveOK /\ BitmapsOK(newsrc)
  BY <1>1, <1>2, <1>3, LoadedOK DEF ActiveOK
<1>5. ArtsOK
  <2>1. DOMAIN arts = {} /\ arts = [a \in {} |-> 0]
    BY DEF Init
  <2>2. QED
    BY <2>1 DEF Init, ArtsOK, ArtsInBitmap
<1>6. QED
  BY <1>1, <1>2, <1>4, <1>5 DEF Inv

\* Every step keeps it.
LEMMA NextInv == Inv /\ [Next]_vars => Inv'
<1> SUFFICES ASSUME Inv, [Next]_vars PROVE Inv'
  OBVIOUS
<1>1. ASSUME NEW S \in SUBSET DOMAIN arts,
             ReadArts(S) \/ UnreadArtsAgain(S) \/ MarkUnselectedRead(S)
      PROVE  Inv'
  BY <1>1, ReadArtsInv, UnreadArtsAgainInv, MarkUnselectedReadInv
<1>2. CASE UndoAutoSelect \/ LeaveGroup \/ CatchupGroup
  BY <1>2, UndoAutoSelectInv, LeaveGroupInv, CatchupGroupInv
<1>3. ASSUME NEW g \in Groups,
             \/ EnterGroup(g) \/ AbortEnter(g) \/ CatchupSelected(g) \/ MarkGroupUnread(g)
             \/ Subscribe(g) \/ SubscribePattern(g) \/ Unsubscribe(g)
             \/ RereadAfterPosting(g)
      PROVE  Inv'
  BY <1>3, EnterGroupInv, AbortEnterInv, CatchupSelectedInv, MarkGroupUnreadInv,
     SubscribeInv, SubscribePatternInv, UnsubscribeInv, RereadAfterPostingInv
<1>4. CASE ResyncActive \/ ResetNewsrc \/ Quit \/ Die
  BY <1>4, ResyncActiveInv, ResetNewsrcInv, QuitInv, DieInv
<1>5. ASSUME NEW g \in Groups, Arrive(g) PROVE Inv'
  BY <1>5, ArriveInv
<1>6. ASSUME NEW g \in Groups, NEW a \in Arts, Expire(g, a) PROVE Inv'
  BY <1>6, ExpireInv
<1>7. CASE UNCHANGED vars
  BY <1>7 DEF vars, Inv, ServerOK, ActiveOK, EntryOK, ServerMin, BitmapsOK, LinesOK,
     ArtsOK, ArtsInBitmap
<1>8. QED
  BY <1>1, <1>2, <1>3, <1>4, <1>5, <1>6, <1>7 DEF Next, Command

\* The inductive invariant holds in every session.
THEOREM SessionInv == Spec => []Inv
BY InitInv, NextInv, PTL DEF Spec

\* The state has its types in every session: no counter of struct t_newsrc
\* leaves the integers, no window the natural numbers.
THEOREM TypeCorrect == Spec => []TypeOK
<1>1. Inv => TypeOK
  BY InvIsInvariants
<1>2. QED
  BY <1>1, SessionInv, PTL

\* The bitmap of every group covers exactly its window, whatever the sequence
\* of commands, arrivals, expiry, refused GROUP commands and lost sessions.
THEOREM BitmapsSound == Spec => []BitmapShape
<1>1. Inv => BitmapShape
  BY InvIsInvariants
<1>2. QED
  BY <1>1, SessionInv, PTL

\* The windows stay within the numbers that the server has given out.
THEOREM WindowsSound == Spec => []WindowsOK
<1>1. Inv => WindowsOK
  BY InvIsInvariants
<1>2. QED
  BY <1>1, SessionInv, PTL

\* Every article that is loaded has a bit in the bitmap of its group: marking
\* it never touches other memory.
THEOREM ArtsHaveBits == Spec => []ArtsInBitmap
<1>1. Inv => ArtsInBitmap
  BY InvIsInvariants
<1>2. QED
  BY <1>1, SessionInv, PTL

\* No mark operation of a session works on a bitmap that does not fit its window,
\* its server or its articles.
THEOREM BitmapsAreSafe == Spec => []BitmapsSafe
<1>1. BitmapShape /\ WindowsOK /\ ArtsInBitmap => BitmapsSafe
  BY DEF BitmapsSafe
<1>2. QED
  BY <1>1, BitmapsSound, WindowsSound, ArtsHaveBits, PTL

-----------------------------------------------------------------------------
(* What the operations of a session do to the marks *)

\* vGet1GrpArtInfo() changes counts, not marks.
LEMMA Get1Marks ==
  ASSUME NEW old, NEW grp, SoundGroup(grp, MaxArt), NEW n, SoundNewsrc(n, MaxArt),
         NEW a \in Nat
  PROVE  IsRead(Get1GrpArtInfo(old, grp, n), a) <=> IsRead(n, a)
<1> DEFINE clamped == IF n.num_unread > grp.count
                      THEN [n EXCEPT !.num_unread = grp.count] ELSE n
<1>1. MaxArt \in Nat /\ grp.count \in Int /\ n \in NewsrcRecords
  BY SessionAssumption DEF SoundGroup, GroupRecords, SoundNewsrc
<1>2. /\ clamped.xmin = n.xmin /\ clamped.xmax = n.xmax /\ clamped.xbitmap = n.xbitmap
      /\ clamped.xbitlen = n.xbitlen /\ clamped \in NewsrcRecords
  BY <1>1 DEF NewsrcRecords
<1> HIDE DEF clamped
<1>3. SoundNewsrc(clamped, MaxArt)
  BY <1>2 DEF SoundNewsrc
<1>4. IsRead(clamped, a) <=> IsRead(n, a)
  BY <1>2 DEF IsRead
<1>5. IsRead(ExpandBitmap(grp, clamped, 0, 0), a) <=> IsRead(clamped, a)
  BY <1>1, <1>3, ExpandMarks
<1>6. Get1GrpArtInfo(old, grp, n) =
        IF grp.xmin # old.xmin \/ grp.xmax # old.xmax
        THEN ExpandBitmap(grp, clamped, 0, 0) ELSE clamped
  BY DEF Get1GrpArtInfo, clamped
<1>7. QED
  BY <1>4, <1>5, <1>6

\* art_mark_read() clears the bits of the articles and of their crossposts.
LEMMA MarkReadBits ==
  ASSUME NEW nrc, BitmapsOK(nrc), NEW g \in Groups, NEW marked, NEW unread, NEW stray,
         NEW h \in Groups
  PROVE  LET n == MarkRead(nrc, g, marked, unread, stray)[h]
         IN  /\ n.xbitmap \subseteq nrc[h].xbitmap
             /\ n.xmin = nrc[h].xmin /\ n.xmax = nrc[h].xmax
             /\ n.present = nrc[h].present
             /\ nrc[h].xbitmap \ n.xbitmap
                  \subseteq (IF h = g THEN marked ELSE {}) \cup CrossPosts(h, g, unread)
<1> DEFINE done == MarkRead(nrc, g, marked, unread, stray)
           n == IF h = g THEN [nrc[g] EXCEPT !.xbitmap = @ \ marked] ELSE nrc[h]
           hit == LookedUp(h, n, g, unread) \cap n.xbitmap
           num == CountDownPositive(n.num_unread,
                    Cardinality(hit) + Cardinality({p \in stray : p[1] = h}))
           total == IF h = g THEN CountDown(num, Cardinality(unread)) ELSE num
<1>1. nrc[h] \in NewsrcRecords
  BY DEF BitmapsOK
<1>2. /\ n \in NewsrcRecords /\ n.xmin = nrc[h].xmin /\ n.xmax = nrc[h].xmax
      /\ n.present = nrc[h].present
      /\ n.xbitmap = nrc[h].xbitmap \ (IF h = g THEN marked ELSE {})
  BY <1>1 DEF NewsrcRecords
<1>3. done[h] = [n EXCEPT !.xbitmap = @ \ hit, !.num_unread = total]
  BY DEF MarkRead
<1>4. LookedUp(h, n, g, unread) \subseteq CrossPosts(h, g, unread)
  BY DEF LookedUp
<1> HIDE DEF n, total, done
<1>5. /\ done[h].xmin = n.xmin /\ done[h].xmax = n.xmax /\ done[h].present = n.present
      /\ done[h].xbitmap = n.xbitmap \ hit
  <2> HIDE DEF hit
  <2>1. QED
    BY <1>2, <1>3 DEF NewsrcRecords
<1>6. QED
  BY <1>2, <1>4, <1>5 DEF done

-----------------------------------------------------------------------------
(* Subscription, in memory and in the file *)

\* The lines of a file say who is subscribed.
SubscriptionIn(lines) ==
  \A g \in Groups : active[g].subscribed <=> lines[g].listed /\ lines[g].sub

\* vWriteNewsrc() keeps the subscriptions, and writes the marks of the
\* subscribed groups that have some.
LEMMA WrittenSub ==
  ASSUME ActiveOK, NEW nrc, NEW lines, LinesOK(lines), SubscriptionIn(lines),
         NEW g \in Groups
  PROVE  LET line == WrittenFile(nrc, lines)[g]
         IN  /\ active[g].subscribed <=> line.listed /\ line.sub
             /\ active[g].subscribed =>
                  line.seq = IF nrc[g].present THEN PrintBitmapSeq(active[g], nrc[g])
                             ELSE lines[g].seq
<1> DEFINE new == [h \in Groups |-> WrittenLine(h, nrc[h], lines[h])]
           line == WrittenFile(nrc, lines)[g]
           print == PrintBitmapSeq(active[g], nrc[g])
<1>1. /\ active[g].subscribed \in BOOLEAN /\ lines[g] \in Lines
      /\ active[g].subscribed <=> lines[g].listed /\ lines[g].sub
      /\ StripNewsrc \in BOOLEAN
  BY SessionAssumption DEF ActiveOK, GroupRecords, LinesOK, SubscriptionIn
<1>2. /\ active[g].subscribed <=> new[g].listed /\ new[g].sub
      /\ active[g].subscribed =>
           new[g].seq = IF nrc[g].present THEN print ELSE lines[g].seq
  <2> HIDE DEF print
  <2>1. CASE ~lines[g].listed
    BY <1>1, <2>1 DEF WrittenLine
  <2>2. CASE lines[g].listed /\ nrc[g].present /\ (active[g].subscribed \/ ~StripNewsrc)
    BY <1>1, <2>2 DEF WrittenLine, print
  <2>3. CASE lines[g].listed /\ ~(nrc[g].present /\ (active[g].subscribed \/ ~StripNewsrc))
    <3>1. new[g] = [lines[g] EXCEPT !.listed = lines[g].sub \/ ~StripNewsrc]
      BY <2>3 DEF WrittenLine
    <3>2. /\ new[g].listed = (lines[g].sub \/ ~StripNewsrc)
          /\ new[g].sub = lines[g].sub /\ new[g].seq = lines[g].seq
      BY <1>1, <3>1 DEF Lines
    <3>3. QED
      BY <1>1, <2>3, <3>2 DEF Lines
  <2>4. QED
    BY <2>1, <2>2, <2>3
<1>3. WrittenFile(nrc, lines) = IF \E h \in Groups : new[h].listed THEN new ELSE lines
  BY DEF WrittenFile
<1> HIDE DEF new
<1>4. CASE \E h \in Groups : new[h].listed
  BY <1>2, <1>3, <1>4
<1>5. CASE ~\E h \in Groups : new[h].listed
  BY <1>1, <1>2, <1>3, <1>5
<1>6. QED
  BY <1>4, <1>5

\* Loading such a file keeps them too.
LEMMA LoadSub ==
  ASSUME NEW act \in [Groups -> GroupRecords], NEW lines, NEW g \in Groups,
         act[g].subscribed => lines[g].listed /\ lines[g].sub
  PROVE  LoadActive(act, lines)[g].subscribed <=> lines[g].listed /\ lines[g].sub
<1>1. act[g] \in GroupRecords
  OBVIOUS
<1>2. [act[g] EXCEPT !.subscribed = TRUE].subscribed
  BY <1>1 DEF GroupRecords
<1>3. QED
  BY <1>2 DEF LoadActive

\* resync_active_file()
LEMMA ResyncSub ==
  ASSUME Inv, NEW nrc, NEW lines, LinesOK(lines), SubscriptionIn(lines),
         Resync(nrc, lines)
  PROVE  SubscriptionSaved'
<1> DEFINE act == [g \in Groups |-> RereadActive(g)]
<1>1. act \in [Groups -> GroupRecords]
  BY RereadOK
<1>2. active' = LoadActive(act, file') /\ file' = WrittenFile(nrc, lines)
  BY DEF Resync
<1>3. ASSUME NEW g \in Groups
      PROVE  active'[g].subscribed <=> file'[g].listed /\ file'[g].sub
  <2>1. act[g].subscribed = active[g].subscribed
    BY DEF RereadActive, Inv, ActiveOK, GroupRecords
  <2>2. active[g].subscribed <=> file'[g].listed /\ file'[g].sub
    BY <1>2, WrittenSub DEF Inv
  <2> HIDE DEF act
  <2>3. QED
    BY <1>1, <1>2, <2>1, <2>2, LoadSub
<1>4. QED
  BY <1>3 DEF SubscriptionSaved

\* main() and tin_done()
LEMMA StartUpSub ==
  ASSUME ServerOK, NEW lines, StartUp(lines)
  PROVE  SubscriptionSaved'
<1> DEFINE act == [g \in Groups |-> FreshActive(g)]
<1>1. act \in [Groups -> GroupRecords]
  BY FreshOK
<1>2. active' = LoadActive(act, lines) /\ file' = lines
  BY DEF StartUp
<1>3. ASSUME NEW g \in Groups
      PROVE  active'[g].subscribed <=> lines[g].listed /\ lines[g].sub
  <2>1. ~act[g].subscribed
    BY DEF FreshActive
  <2> HIDE DEF act
  <2>2. QED
    BY <1>1, <1>2, <2>1, LoadSub
<1>4. QED
  BY <1>2, <1>3 DEF SubscriptionSaved

\* A command that changes g's numbers only and leaves the file alone
LEMMA SameSub ==
  ASSUME Inv, SubscriptionSaved, file' = file, NEW g \in Groups, NEW grp,
         active' = [active EXCEPT ![g] = grp], grp.subscribed = active[g].subscribed
  PROVE  SubscriptionSaved'
<1>1. \A h \in Groups : active'[h].subscribed = active[h].subscribed
  BY DEF Inv, ActiveOK
<1>2. QED
  BY <1>1 DEF SubscriptionSaved

\* The commands on the group that is being read leave entries and file alone.
LEMMA ReaderSub ==
  ASSUME Inv, SubscriptionSaved, UNCHANGED <<active, file>>
  PROVE  SubscriptionSaved'
BY DEF SubscriptionSaved

\* The counts of GROUP leave the subscription alone.
LEMMA InfoSub ==
  ASSUME NEW grp \in GroupRecords, NEW info
  PROVE  WithInfo(grp, info).subscribed = grp.subscribed
BY DEF WithInfo, GroupRecords

\* Entering a group leaves every subscription alone.
LEMMA EnteredSub ==
  ASSUME Inv, NEW g \in Groups, NEW base
  PROVE  Indexed(g, base).subscribed = active[g].subscribed
<1>1. active[g] \in GroupRecords
  BY DEF Inv, ActiveOK
<1>2. Based(g, base).subscribed = active[g].subscribed
  BY <1>1 DEF Based, GroupRecords
<1>3. Based(g, base) \in [count : Int, xmin : Nat, xmax : {Based(g, base).xmax}, subscribed : BOOLEAN]
  BY <1>1 DEF Based, GroupRecords
<1>4. QED
  BY <1>2, <1>3 DEF Indexed

\* subscribe(), with the counts that a pattern asks for or without
LEMMA SubscribeSub ==
  ASSUME Inv, SubscriptionSaved, NEW g \in Groups, Subscribe(g) \/ SubscribePattern(g)
  PROVE  SubscriptionSaved'
<1>1. PICK s \in Subscribed(g) :
        /\ file' = [file EXCEPT ![g] = s.line]
        /\ \/ active' = [active EXCEPT ![g] = s.grp]
           \/ \E info \in ArtInfo(g) : active' = [active EXCEPT ![g] = WithInfo(s.grp, info)]
  BY DEF Subscribe, SubscribePattern
<1>2. /\ active[g] \in GroupRecords /\ file[g] \in Lines
      /\ \A info \in ArtInfo(g) : WithInfo(active[g], info) \in GroupRecords
  BY ArtInfoOK DEF Inv, ActiveOK, LinesOK
<1>3. s.grp \in GroupRecords /\ s.grp.subscribed /\ s.line.listed /\ s.line.sub
  <2>1. CASE file[g].listed
    <3>1. s.grp = [active[g] EXCEPT !.subscribed = TRUE]
          /\ s.line = [file[g] EXCEPT !.sub = TRUE]
      BY <2>1 DEF Subscribed
    <3>2. QED
      BY <1>2, <2>1, <3>1 DEF GroupRecords, Lines
  <2>2. CASE ~file[g].listed
    <3>1. PICK info \in ArtInfo(g) :
            s = LET grp == WithInfo(active[g], info)
                    n   == Get1GrpArtInfo(active[g], grp, newsrc[g])
                IN  [grp |-> [grp EXCEPT !.subscribed = TRUE],
                     nrc |-> n,
                     line |-> [listed |-> TRUE, sub |-> TRUE, seq |-> PrintBitmapSeq(grp, n)]]
      BY <2>2 DEF Subscribed
    <3>2. WithInfo(active[g], info) \in GroupRecords
      BY <1>2
    <3>3. QED
      BY <3>1, <3>2 DEF GroupRecords
  <2>3. QED
    BY <2>1, <2>2
<1>4. active'[g].subscribed /\ \A h \in Groups \ {g} : active'[h] = active[h]
  BY <1>1, <1>3, InfoSub DEF Inv, ActiveOK
<1>5. file'[g] = s.line /\ \A h \in Groups \ {g} : file'[h] = file[h]
  BY <1>1 DEF Inv, LinesOK
<1>6. QED
  BY <1>3, <1>4, <1>5 DEF SubscriptionSaved

\* unsubscribe() rewrites the line of its group.
LEMMA UnsubscribeSub ==
  ASSUME Inv, SubscriptionSaved, NEW g \in Groups, Unsubscribe(g)
  PROVE  SubscriptionSaved'
<1>1. /\ active' = [active EXCEPT ![g].subscribed = FALSE]
      /\ file'[g].sub = FALSE /\ \A h \in Groups \ {g} : file'[h] = file[h]
  BY DEF Unsubscribe, Inv, LinesOK
<1>2. ~active'[g].subscribed /\ \A h \in Groups \ {g} : active'[h] = active[h]
  BY <1>1 DEF Inv, ActiveOK, GroupRecords
<1>3. QED
  BY <1>1, <1>2 DEF SubscriptionSaved

\* 'R': the file that is written has the lines without their marks.
LEMMA EmptiedLines ==
  ASSUME Inv, SubscriptionSaved
  PROVE  LET lines == [g \in Groups |-> [file[g] EXCEPT !.seq = {}]]
         IN  LinesOK(lines) /\ SubscriptionIn(lines)
<1>1. \A g \in Groups : /\ [file[g] EXCEPT !.seq = {}] \in Lines
                        /\ [file[g] EXCEPT !.seq = {}].listed = file[g].listed
                        /\ [file[g] EXCEPT !.seq = {}].sub = file[g].sub
  BY DEF Inv, LinesOK, Lines
<1>2. QED
  BY <1>1 DEF LinesOK, SubscriptionIn, SubscriptionSaved

\* Every command that changes a subscription rewrites .newsrc.
LEMMA SubNext ==
  ASSUME Inv, SubscriptionSaved, [Next]_vars PROVE SubscriptionSaved'
<1>0. LinesOK(file) /\ SubscriptionIn(file) /\ ServerOK /\ ActiveOK
  BY DEF Inv, SubscriptionSaved, SubscriptionIn
<1>1. ASSUME NEW S \in SUBSET DOMAIN arts,
             ReadArts(S) \/ UnreadArtsAgain(S) \/ MarkUnselectedRead(S)
      PROVE  SubscriptionSaved'
  BY <1>1, ReaderSub DEF ReadArts, UnreadArtsAgain, MarkUnselectedRead
<1>2. CASE UndoAutoSelect \/ LeaveGroup \/ CatchupGroup
  BY <1>2, ReaderSub DEF UndoAutoSelect, LeaveGroup, CatchupGroup
<1>3. ASSUME NEW g \in Groups, EnterGroup(g) \/ AbortEnter(g) PROVE SubscriptionSaved'
  <2>1. file' = file
    BY <1>3 DEF EnterGroup, AbortEnter
  <2>2. PICK base : active' = [active EXCEPT ![g] = Indexed(g, base)]
    BY <1>3 DEF EnterGroup, AbortEnter
  <2>3. QED
    BY <2>1, <2>2, EnteredSub, SameSub
<1>4. ASSUME NEW g \in Groups,
             CatchupSelected(g) \/ MarkGroupUnread(g) \/ RereadAfterPosting(g)
      PROVE  SubscriptionSaved'
  <2>1. CASE CatchupSelected(g)
    BY <2>1, ReaderSub DEF CatchupSelected
  <2>2. CASE MarkGroupUnread(g) \/ RereadAfterPosting(g)
    <3>1. active[g] \in GroupRecords /\ active \in [Groups -> GroupRecords]
      BY DEF Inv, ActiveOK
    <3>2. file' = file
      BY <2>2 DEF MarkGroupUnread, RereadAfterPosting
    <3>3. PICK info : active' = [active EXCEPT ![g] = WithInfo(active[g], info)]
      BY <2>2, <3>1 DEF MarkGroupUnread, RereadAfterPosting
    <3>4. QED
      BY <3>1, <3>2, <3>3, InfoSub, SameSub
  <2>3. QED
    BY <1>4, <2>1, <2>2
<1>5. ASSUME NEW g \in Groups, Subscribe(g) \/ SubscribePattern(g) \/ Unsubscribe(g)
      PROVE  SubscriptionSaved'
  BY <1>5, SubscribeSub, UnsubscribeSub
<1>6. CASE ResyncActive
  BY <1>0, <1>6, ResyncSub DEF ResyncActive
<1>7. CASE ResetNewsrc
  <2> DEFINE lines == [g \in Groups |-> [file[g] EXCEPT !.seq = {}]]
  <2>1. LinesOK(lines) /\ SubscriptionIn(lines)
    BY EmptiedLines
  <2>2. \E nrc : Resync(nrc, lines)
    BY <1>7 DEF ResetNewsrc
  <2> HIDE DEF lines
  <2>3. QED
    BY <2>1, <2>2, ResyncSub
<1>8. CASE Quit \/ Die
  BY <1>0, <1>8, StartUpSub DEF Quit, Die
<1>9. ASSUME NEW g \in Groups, Arrive(g) \/ \E a \in Arts : Expire(g, a)
      PROVE  SubscriptionSaved'
  BY <1>9, ReaderSub DEF Arrive, Expire
<1>10. CASE UNCHANGED vars
  BY <1>10, ReaderSub DEF vars
<1>11. QED
  BY <1>1, <1>2, <1>3, <1>4, <1>5, <1>6, <1>7, <1>8, <1>9, <1>10 DEF Next, Command

\* read_newsrc() takes the subscriptions from the file.
LEMMA SubInit == Init => SubscriptionSaved
<1> SUFFICES ASSUME Init PROVE SubscriptionSaved
  OBVIOUS
<1> DEFINE act == [g \in Groups |-> FreshActive(g)]
<1>1. ServerOK
  BY InitInv DEF Inv
<1>2. act \in [Groups -> GroupRecords] /\ active = LoadActive(act, file)
  BY <1>1, FreshOK DEF Init
<1>3. ASSUME NEW g \in Groups
      PROVE  active[g].subscribed <=> file[g].listed /\ file[g].sub
  <2>1. ~act[g].subscribed
    BY DEF FreshActive
  <2> HIDE DEF act
  <2>2. QED
    BY <1>2, <2>1, LoadSub
<1>4. QED
  BY <1>3 DEF SubscriptionSaved

\* Saving and loading a group again loses no mark of an article that the
\* server still has, unless nothing of it is written: print_bitmap_seq() and
\* parse_bitmap_seq() are inverse above the group's lowest article.
LEMMA RoundTrip == Inv => SaveRoundTrip
<1> SUFFICES ASSUME Inv, NEW g \in Groups, MarksWritten(g),
                    NEW a \in active[g].xmin..newsrc[g].xmax
             PROVE  IsRead(ParseBitmapSeq(active[g], PrintBitmapSeq(active[g], newsrc[g])), a)
                      <=> IsRead(newsrc[g], a)
  BY DEF SaveRoundTrip
<1>1. /\ MaxArt \in Nat /\ SoundGroup(active[g], MaxArt) /\ SoundNewsrc(newsrc[g], MaxArt)
  BY SessionAssumption DEF Inv, ActiveOK, EntryOK, BitmapsOK
<1>2. active[g].xmin \in Nat /\ 1 <= active[g].xmin /\ active[g].xmax \in Nat
  BY <1>1 DEF SoundGroup, GroupRecords
<1>3. a \in Nat /\ 1 <= a /\ ~(a < active[g].xmin)
  BY <1>1, <1>2 DEF SoundNewsrc, NewsrcRecords
<1>4. ~(active[g].count = 0 \/ active[g].xmin > active[g].xmax)
  BY <1>2 DEF MarksWritten
<1>5. QED
  BY <1>1, <1>3, <1>4, LoadedAsWritten

\* What is written of a group is what the session knows of it: every command
\* that changes a subscription has rewritten .newsrc (subscribe(), unsubscribe(),
\* resync_active_file(), tin_done()), and the marks come back as they were.
THEOREM SavedRight == Spec => []SavedAsMarked
<1>1. Init => Inv /\ SubscriptionSaved
  BY InitInv, SubInit
<1>2. Inv /\ SubscriptionSaved /\ [Next]_vars => (Inv /\ SubscriptionSaved)'
  BY NextInv, SubNext
<1>3. Inv /\ SubscriptionSaved => SavedAsMarked
  BY RoundTrip DEF SavedAsMarked
<1>4. QED
  BY <1>1, <1>2, <1>3, PTL DEF Spec

-----------------------------------------------------------------------------
(* Screen, bitmap and counter of the group being read *)

\* The unread articles on the screen
Shown == {a \in DOMAIN arts : Unread(a)}

\* What StatusIsBitmap rests on: art_mark_read() looks no crosspost up behind
\* the end of the bitmap of the group being read.
Screen == /\ StatusIsBitmap
          /\ reading # NoGroup => active[reading].xmax <= newsrc[reading].xmax

\* An article is not its own crosspost.
LEMMA OwnCrossPosts ==
  ASSUME NEW g \in Groups, NEW S PROVE CrossPosts(g, g, S \cap Arts) \subseteq S
<1> SUFFICES ASSUME NEW x \in Arts, NEW a \in S \cap Arts, <<g, x>> \in Xref[<<g, a>>]
             PROVE  x \in S
  BY DEF CrossPosts
<1>1. x = a
  BY SessionAssumption
<1>2. QED
  BY <1>1

\* The counter of a bitmap that is exact
Counted(n) == n.num_unread = Cardinality(n.xbitmap)

\* In the group itself art_mark_read() clears the bits of the articles and
\* counts the unread ones once.
LEMMA MarkReadOwn ==
  ASSUME NEW nrc, BitmapsOK(nrc), NEW g \in Groups, NEW marked,
         NEW unread, unread \subseteq Arts, unread = nrc[g].xbitmap \cap marked,
         NEW stray, \A p \in stray : p[1] # g, Counted(nrc[g])
  PROVE  /\ MarkRead(nrc, g, marked, unread, stray)[g].xbitmap = nrc[g].xbitmap \ marked
         /\ Counted(MarkRead(nrc, g, marked, unread, stray)[g])
<1> DEFINE done == MarkRead(nrc, g, marked, unread, stray)
           n == [nrc[g] EXCEPT !.xbitmap = @ \ marked]
           hit == LookedUp(g, n, g, unread) \cap n.xbitmap
           strays == {p \in stray : p[1] = g}
           k == Cardinality(hit) + Cardinality(strays)
           num == CountDownPositive(n.num_unread, k)
           total == CountDown(num, Cardinality(unread))
           bits == nrc[g].xbitmap
<1>1. nrc[g] \in NewsrcRecords /\ SoundNewsrc(nrc[g], MaxArt) /\ MaxArt \in Nat
  BY SessionAssumption DEF BitmapsOK
<1>2. /\ n \in NewsrcRecords /\ n.num_unread = nrc[g].num_unread
      /\ n.xbitmap = bits \ marked
  BY <1>1 DEF NewsrcRecords
<1>3. CrossPosts(g, g, unread) \subseteq unread
  <2>1. unread \cap Arts = unread
    OBVIOUS
  <2>2. QED
    BY <2>1, OwnCrossPosts
<1>4. hit = {}
  <2>1. LookedUp(g, n, g, unread) \subseteq unread
    BY <1>3 DEF LookedUp
  <2>2. QED
    BY <1>2, <2>1
<1>5. strays = {}
  OBVIOUS
<1>6. k = 0
  <2> HIDE DEF hit, strays
  <2>1. Cardinality(hit) = 0 /\ Cardinality(strays) = 0
    BY <1>4, <1>5, FS_EmptySet
  <2>2. QED
    BY <2>1
<1>7. /\ IsFiniteSet(bits) /\ Cardinality(bits) \in Nat
      /\ Cardinality(unread) \in Nat /\ Cardinality(bits \ marked) \in Nat
      /\ Cardinality(bits \ marked) = Cardinality(bits) - Cardinality(unread)
  <2>1. bits \subseteq Arts
    BY <1>1 DEF SoundNewsrc, NewsrcRecords, Arts
  <2>2. bits \ marked \subseteq Arts
    BY <2>1
  <2>3. IsFiniteSet(bits) /\ Cardinality(bits) \in Nat /\ Cardinality(unread) \in Nat
        /\ Cardinality(bits \ marked) \in Nat
    BY <2>1, <2>2, ArtsFinite
  <2>4. Cardinality(bits \ marked) = Cardinality(bits) - Cardinality(bits \cap marked)
    BY <2>3, FS_Difference
  <2>5. QED
    BY <2>3, <2>4
<1>8. done[g] = [n EXCEPT !.xbitmap = @ \ hit, !.num_unread = total]
  BY DEF MarkRead
<1>9. done[g].xbitmap = n.xbitmap \ hit /\ done[g].num_unread = total
  <2> HIDE DEF n, hit, total, done
  <2>1. QED
    BY <1>2, <1>8 DEF NewsrcRecords
<1> HIDE DEF k
<1>10. num = Cardinality(bits)
  BY <1>2, <1>6, <1>7 DEF CountDownPositive, Larger, Counted
<1> HIDE DEF num
<1>11. total = Cardinality(bits) - Cardinality(unread)
  BY <1>7, <1>10 DEF CountDown, Larger
<1> HIDE DEF hit, total, n, done
<1>12. done[g].xbitmap = bits \ marked
  BY <1>2, <1>4, <1>9
<1>13. QED
  BY <1>7, <1>9, <1>11, <1>12 DEF done, Counted

\* Reading articles of the group
LEMMA MarkArtsReadScreen ==
  ASSUME Inv, Screen, reading # NoGroup, NEW S, S \subseteq DOMAIN arts,
         MarkArtsRead(S), UNCHANGED <<active, reading>>, DOMAIN arts' = DOMAIN arts,
         \A a \in S : arts'[a].status = ART_READ,
         \A a \in DOMAIN arts \ S : arts'[a] = arts[a]
  PROVE  Screen'
<1> DEFINE unread == {a \in S : Unread(a)}
           g == reading
<1>1. PICK stray \in SUBSET BehindBitmap(newsrc, g, unread) :
        newsrc' = MarkRead(newsrc, g, S, unread, stray)
  BY DEF MarkArtsRead
<1>2. /\ g \in Groups /\ BitmapsOK(newsrc) /\ DOMAIN arts \subseteq Arts
      /\ active[g] \in GroupRecords
  BY DEF Inv, ArtsOK, ActiveOK
<1>3. newsrc[g].xbitmap = Shown /\ newsrc[g].num_unread = Cardinality(Shown)
      /\ active[g].xmax <= newsrc[g].xmax /\ active[g].xmax \in Nat
  BY <1>2 DEF Screen, StatusIsBitmap, Shown, GroupRecords
<1>4. unread \subseteq Arts /\ unread = newsrc[g].xbitmap \cap S
  BY <1>2, <1>3 DEF Shown
<1> HIDE DEF unread
<1>5. /\ newsrc'[g].xbitmap = newsrc[g].xbitmap \ S
      /\ Counted(newsrc'[g])
  <2>1. Counted(newsrc[g])
    BY <1>3 DEF Counted
  <2>2. \A p \in stray : p[1] # g
    <3>1. CrossPosts(g, g, unread \cap Arts) \subseteq unread /\ unread \cap Arts = unread
      BY <1>2, <1>4, OwnCrossPosts
    <3>2. ASSUME NEW p \in stray, p[1] = g PROVE FALSE
      <4>1. p \in Groups \X Arts /\ p[2] \in LookedUp(g, newsrc[g], g, unread)
            /\ p[2] > newsrc[g].xmax
        BY <1>1, <3>2 DEF BehindBitmap
      <4>2. p[2] <= active[g].xmax
        BY <4>1 DEF LookedUp
      <4>3. p[2] \in Nat /\ newsrc[g].xmax \in Nat
        BY <1>2, <4>1 DEF Arts, BitmapsOK, NewsrcRecords
      <4>4. QED
        BY <1>3, <4>1, <4>2, <4>3
    <3>3. QED
      BY <3>2
  <2>3. MarkRead(newsrc, g, S, unread, stray)[g].xbitmap = newsrc[g].xbitmap \ S
    BY ONLY <1>2, <1>4, <2>1, <2>2, MarkReadOwn
  <2>4. Counted(MarkRead(newsrc, g, S, unread, stray)[g])
    BY ONLY <1>2, <1>4, <2>1, <2>2, MarkReadOwn
  <2>5. QED
    BY <1>1, <2>3, <2>4
<1>6. newsrc'[g].xmax = newsrc[g].xmax
  BY MarkArtsReadOK
<1>7. {a \in DOMAIN arts' : Unread(a)'} = Shown \ S
  <2>1. \A a \in S : ~Unread(a)'
    BY DEF Unread, ART_READ, ART_UNREAD, ART_WILL_RETURN
  <2>2. \A a \in DOMAIN arts \ S : Unread(a)' <=> Unread(a)
    BY DEF Unread
  <2>3. QED
    BY <2>1, <2>2 DEF Shown
<1>8. QED
  BY <1>3, <1>5, <1>6, <1>7 DEF Screen, StatusIsBitmap, Counted

\* Making articles of the group unread: each read one counts once more.
LEMMA UnreadScreen ==
  ASSUME Inv, Screen, reading # NoGroup, NEW back, back \subseteq DOMAIN arts,
         \A a \in back : ~Unread(a) /\ Unread(a)',
         DOMAIN arts' = DOMAIN arts, \A a \in DOMAIN arts \ back : arts'[a] = arts[a],
         UNCHANGED <<active, reading>>,
         newsrc'[reading].xbitmap = newsrc[reading].xbitmap \cup back,
         newsrc'[reading].num_unread = newsrc[reading].num_unread + Cardinality(back),
         newsrc'[reading].xmax = newsrc[reading].xmax
  PROVE  Screen'
<1>1. DOMAIN arts \subseteq Arts
  BY DEF Inv, ArtsOK
<1>2. Shown \subseteq Arts /\ back \subseteq Arts /\ Shown \cap back = {}
  BY <1>1 DEF Shown
<1>3. Cardinality(Shown \cup back) = Cardinality(Shown) + Cardinality(back)
  <2>1. /\ IsFiniteSet(Shown) /\ IsFiniteSet(back)
        /\ Cardinality(Shown) \in Nat /\ Cardinality(back) \in Nat
    BY <1>2, ArtsFinite
  <2>2. Cardinality(Shown \cup back) = Cardinality(Shown) + Cardinality(back) - Cardinality({})
    BY <1>2, <2>1, FS_Union
  <2>3. QED
    BY <2>1, <2>2, FS_EmptySet
<1>4. {a \in DOMAIN arts' : Unread(a)'} = Shown \cup back
  <2>1. \A a \in DOMAIN arts \ back : Unread(a)' <=> Unread(a)
    BY DEF Unread
  <2>2. QED
    BY <2>1 DEF Shown
<1>5. newsrc[reading].xbitmap = Shown /\ newsrc[reading].num_unread = Cardinality(Shown)
  BY DEF Screen, StatusIsBitmap, Shown
<1>6. QED
  BY <1>3, <1>4, <1>5 DEF Screen, StatusIsBitmap

\* art_mark_will_return() and thd_mark_unread()
LEMMA UnreadArtsAgainScreen ==
  ASSUME Inv, Screen, NEW S, UnreadArtsAgain(S) PROVE Screen'
<1> DEFINE back == {a \in S : arts[a].status = ART_READ}
<1>1. /\ reading # NoGroup /\ S \subseteq DOMAIN arts /\ UNCHANGED <<active, reading>>
      /\ newsrc' = [newsrc EXCEPT ![reading].num_unread = @ + Cardinality(back),
                                  ![reading].xbitmap = @ \cup S]
      /\ arts' = [a \in DOMAIN arts |->
                    IF a \in back THEN [arts[a] EXCEPT !.status = ART_WILL_RETURN]
                    ELSE arts[a]]
  BY DEF UnreadArtsAgain
<1>2. /\ reading \in Groups /\ newsrc \in [Groups -> NewsrcRecords]
      /\ arts \in [DOMAIN arts -> [status : Status, zombie : BOOLEAN]]
  BY <1>1 DEF Inv, ArtsOK, BitmapsOK
<1>3. newsrc[reading].xbitmap = Shown
  BY <1>1 DEF Screen, StatusIsBitmap, Shown
<1>4. \A a \in DOMAIN arts : Unread(a) <=> arts[a].status # ART_READ
  BY <1>2 DEF Unread, Status, ART_READ, ART_UNREAD, ART_WILL_RETURN
<1>5. newsrc[reading].xbitmap \cup S = newsrc[reading].xbitmap \cup back
  BY <1>1, <1>3, <1>4 DEF Shown
<1>6. \A a \in back : ~Unread(a) /\ Unread(a)'
  BY <1>1, <1>2, <1>4 DEF Unread
<1>7. DOMAIN arts' = DOMAIN arts /\ \A a \in DOMAIN arts \ back : arts'[a] = arts[a]
  BY <1>1
<1>8. back \subseteq DOMAIN arts
  BY <1>1
<1> HIDE DEF back
<1>9. /\ newsrc'[reading].xbitmap = newsrc[reading].xbitmap \cup S
      /\ newsrc'[reading].num_unread = newsrc[reading].num_unread + Cardinality(back)
      /\ newsrc'[reading].xmax = newsrc[reading].xmax
  BY <1>1, <1>2 DEF NewsrcRecords
<1>10. QED
  BY <1>1, <1>5, <1>6, <1>7, <1>8, <1>9, UnreadScreen

\* undo_auto_select_arts() counts the zombies it brings back.
LEMMA UndoAutoSelectScreen ==
  ASSUME Inv, Screen, UndoAutoSelect PROVE Screen'
<1> DEFINE back == {a \in DOMAIN arts : arts[a].status = ART_READ /\ arts[a].zombie}
           old == newsrc[reading]
<1>1. /\ reading # NoGroup /\ UNCHANGED <<active, reading>>
      /\ newsrc' = [newsrc EXCEPT ![reading] = ArtMarkUnread(active[reading], @, back)]
      /\ arts' = [a \in DOMAIN arts |->
                    IF a \in back THEN [status |-> ART_UNREAD, zombie |-> FALSE]
                    ELSE arts[a]]
  BY DEF UndoAutoSelect
<1>2. /\ reading \in Groups /\ newsrc \in [Groups -> NewsrcRecords] /\ old \in NewsrcRecords
      /\ DOMAIN arts \subseteq old.xmin..old.xmax
  BY <1>1 DEF Inv, ArtsOK, ArtsInBitmap, BitmapsOK
<1>3. \A a \in back : ~Unread(a) /\ Unread(a)'
  BY <1>1 DEF Unread, ART_READ, ART_UNREAD, ART_WILL_RETURN
<1>4. DOMAIN arts' = DOMAIN arts /\ \A a \in DOMAIN arts \ back : arts'[a] = arts[a]
  BY <1>1
<1>5. back \subseteq DOMAIN arts
  OBVIOUS
<1> HIDE DEF back
<1>6. \A a \in back : a >= old.xmin
  BY <1>2, <1>5 DEF NewsrcRecords
<1> DEFINE n == [old EXCEPT !.num_unread = old.num_unread + Cardinality(back)]
<1>7. n.xmin = old.xmin /\ n.xbitmap = old.xbitmap /\ n.xmax = old.xmax
      /\ n.num_unread = old.num_unread + Cardinality(back)
      /\ n \in [present : BOOLEAN, num_unread : {n.num_unread}, xmin : Nat, xmax : Nat,
                xbitlen : Nat, xbitmap : SUBSET Nat]
  BY <1>2 DEF NewsrcRecords
<1>8. newsrc'[reading] = [n EXCEPT !.xbitmap = n.xbitmap \cup back]
  BY <1>1, <1>2, <1>6, <1>7 DEF ArtMarkUnread
<1> HIDE DEF n
<1>9. /\ newsrc'[reading].xbitmap = old.xbitmap \cup back
      /\ newsrc'[reading].num_unread = old.num_unread + Cardinality(back)
      /\ newsrc'[reading].xmax = old.xmax
  BY <1>7, <1>8
<1>10. QED
  BY <1>1, <1>3, <1>4, <1>5, <1>9, UnreadScreen

-----------------------------------------------------------------------------
(* Entering a group *)

\* The record that parse_unread_arts() makes of g's, and all of newsrc then
Parsed(g, base, got, expired) ==
  ParseUnreadArts(Indexed(g, base), BasedNewsrc(g, base, 0), got \cup expired)
ParsedAll(g, base, got, expired) == [newsrc EXCEPT ![g] = Parsed(g, base, got, expired)]

\* What the action EnterGroup chooses
Entered(g, base, got, expired, stray) ==
  LET grp  == Indexed(g, base)
      n    == BasedNewsrc(g, base, 0)
      all  == ParsedAll(g, base, got, expired)
      gone == UnreadArts(n, expired)
  IN  /\ base \in HardBase(g)
      /\ got \in SUBSET base
      /\ expired \in SUBSET ((grp.xmin..grp.xmax) \ base)
      /\ stray \in SUBSET BehindBitmap(all, g, gone)
      /\ newsrc' = MarkRead(all, g, expired, gone, stray)
      /\ active' = [active EXCEPT ![g] = grp]
      /\ arts' = [a \in got |->
                    [status |-> IF a \in UnreadArts(n, got) THEN ART_UNREAD ELSE ART_READ,
                     zombie |-> FALSE]]
      /\ reading' = g

\* Entering a group is one choice of its base and of what the server has.
LEMMA EnterChoice ==
  ASSUME NEW g \in Groups, EnterGroup(g)
  PROVE  \E base, got, expired, stray : Entered(g, base, got, expired, stray)
<1>0. PICK base \in HardBase(g) : \E got \in SUBSET base :
        LET grp == Indexed(g, base)
            n   == BasedNewsrc(g, base, 0)
        IN  /\ \E expired \in SUBSET ((grp.xmin..grp.xmax) \ base) :
                 LET parsed == [newsrc EXCEPT ![g] =
                                  ParseUnreadArts(grp, n, got \cup expired)]
                     gone   == UnreadArts(n, expired)
                 IN  \E stray \in SUBSET BehindBitmap(parsed, g, gone) :
                       newsrc' = MarkRead(parsed, g, expired, gone, stray)
            /\ active' = [active EXCEPT ![g] = grp]
            /\ arts' = [a \in got |->
                          [status |-> IF a \in UnreadArts(n, got)
                                      THEN ART_UNREAD ELSE ART_READ,
                           zombie |-> FALSE]]
  BY DEF EnterGroup
<1>1. PICK got \in SUBSET base :
        LET grp == Indexed(g, base)
            n   == BasedNewsrc(g, base, 0)
        IN  /\ \E expired \in SUBSET ((grp.xmin..grp.xmax) \ base) :
                 LET parsed == [newsrc EXCEPT ![g] =
                                  ParseUnreadArts(grp, n, got \cup expired)]
                     gone   == UnreadArts(n, expired)
                 IN  \E stray \in SUBSET BehindBitmap(parsed, g, gone) :
                       newsrc' = MarkRead(parsed, g, expired, gone, stray)
            /\ active' = [active EXCEPT ![g] = grp]
            /\ arts' = [a \in got |->
                          [status |-> IF a \in UnreadArts(n, got)
                                      THEN ART_UNREAD ELSE ART_READ,
                           zombie |-> FALSE]]
  BY <1>0
<1> DEFINE grp == Indexed(g, base)
           n == BasedNewsrc(g, base, 0)
<1>2. PICK expired \in SUBSET ((grp.xmin..grp.xmax) \ base) :
        \E stray \in SUBSET BehindBitmap(ParsedAll(g, base, got, expired), g,
                                         UnreadArts(n, expired)) :
          newsrc' = MarkRead(ParsedAll(g, base, got, expired), g, expired,
                             UnreadArts(n, expired), stray)
  BY <1>1 DEF ParsedAll, Parsed
<1>3. PICK stray \in SUBSET BehindBitmap(ParsedAll(g, base, got, expired), g,
                                         UnreadArts(n, expired)) :
        newsrc' = MarkRead(ParsedAll(g, base, got, expired), g, expired,
                           UnreadArts(n, expired), stray)
  BY <1>2
<1>4. Entered(g, base, got, expired, stray)
  BY <1>1, <1>2, <1>3 DEF Entered, EnterGroup
<1>5. QED
  BY <1>4

\* The articles that EnterGroup chooses, and the record before it marks any
LEMMA EnteredTypes ==
  ASSUME Inv, NEW g \in Groups, NEW base, NEW got, NEW expired, NEW stray,
         Entered(g, base, got, expired, stray)
  PROVE  LET n == BasedNewsrc(g, base, 0)
             p == Parsed(g, base, got, expired)
         IN  /\ got \subseteq Arts /\ expired \subseteq Arts /\ got \cap expired = {}
             /\ SoundNewsrc(n, MaxArt) /\ SoundNewsrc(p, MaxArt)
             /\ p.xmin = n.xmin /\ n.xmax <= p.xmax /\ Indexed(g, base).xmax <= p.xmax
             /\ BitmapsOK(ParsedAll(g, base, got, expired))
             /\ \A a \in got : n.xmin <= a /\ a <= Indexed(g, base).xmax
<1> DEFINE grp == Indexed(g, base)
           n == BasedNewsrc(g, base, 0)
           p == Parsed(g, base, got, expired)
<1>1. /\ base \in HardBase(g) /\ got \in SUBSET base
      /\ expired \in SUBSET ((grp.xmin..grp.xmax) \ base)
  BY DEF Entered
<1>2. /\ grp \in GroupRecords /\ SoundGroup(grp, MaxArt) /\ SoundNewsrc(n, MaxArt)
      /\ base # {} => grp.xmax = Highest(base) /\ n.xmin <= Lowest(base)
  BY <1>1, BasedOK DEF EntryOK
<1>3. /\ base \subseteq Arts
      /\ base # {} => /\ \A y \in base : y <= Highest(base)
                      /\ \A y \in base : Lowest(base) <= y
                      /\ Lowest(base) \in base
  BY <1>1, HardBaseType
<1>4. MaxArt \in Nat /\ Arts = 1..MaxArt
  BY SessionAssumption DEF Arts
<1>5. p = ParseUnreadArts(grp, n, got \cup expired)
  BY DEF Parsed
<1> HIDE DEF grp, n, p
<1>6. /\ grp.xmin \in Nat /\ grp.xmax \in Nat /\ grp.xmax <= MaxArt /\ 1 <= grp.xmin
      /\ n.xmin \in Nat /\ n.xmax \in Nat
  BY <1>2, <1>4 DEF SoundGroup, GroupRecords, SoundNewsrc, NewsrcRecords
<1>7. \A a \in got : a \in Nat /\ 1 <= a /\ a <= grp.xmax /\ n.xmin <= a
  <2> SUFFICES ASSUME NEW a \in got
               PROVE  a \in Nat /\ 1 <= a /\ a <= grp.xmax /\ n.xmin <= a
    OBVIOUS
  <2>1. a \in base /\ base # {}
    BY <1>1
  <2>2. Lowest(base) \in 1..MaxArt /\ a \in 1..MaxArt
    BY <1>3, <1>4, <2>1, Zenon
  <2>3. a <= Highest(base) /\ Lowest(base) <= a
    BY <1>3, <2>1, Zenon
  <2>4. grp.xmax = Highest(base) /\ n.xmin <= Lowest(base)
    BY <1>2, <2>1, Zenon
  <2>5. QED
    BY <1>4, <1>6, <2>2, <2>3, <2>4
<1>8. \A a \in expired : a \in 1..MaxArt /\ a <= grp.xmax
  BY <1>1, <1>4, <1>6 DEF grp
<1>9. got \cup expired \subseteq 1..Larger(grp.xmax, n.xmax)
  <2> DEFINE top == Larger(grp.xmax, n.xmax)
  <2>1. top \in Nat /\ grp.xmax <= top
    BY <1>6 DEF Larger
  <2> HIDE DEF top
  <2>2. \A a \in got : a \in 1..top
    BY <1>6, <1>7, <2>1
  <2>3. \A a \in expired : a \in 1..top
    BY <1>4, <1>6, <1>8, <2>1
  <2>4. QED
    BY <2>2, <2>3, Zenon DEF top
<1>10. SoundNewsrc(p, MaxArt)
  BY <1>2, <1>4, <1>5, <1>9, ParseUnreadSound
<1>11. /\ p.xmin = n.xmin /\ p.xmax = Larger(grp.xmax, n.xmax)
  BY <1>5 DEF ParseUnreadArts
<1>12. n.xmax <= p.xmax /\ grp.xmax <= p.xmax
  BY <1>6, <1>11 DEF Larger
<1>13. BitmapsOK(ParsedAll(g, base, got, expired))
  BY <1>10, OneBitmap DEF Inv, ParsedAll, p
<1>14. got \subseteq Arts /\ expired \subseteq Arts /\ got \cap expired = {}
  BY <1>1, <1>3, <1>4, <1>8
<1>15. QED
  BY <1>2, <1>7, <1>10, <1>11, <1>12, <1>13, <1>14 DEF grp, n, p

\* index_group() shows what the bitmap says of the loaded articles.
LEMMA EnterGroupScreen ==
  ASSUME Inv, NEW g \in Groups, EnterGroup(g) PROVE Screen'
<1>1. PICK base, got, expired, stray : Entered(g, base, got, expired, stray)
  BY EnterChoice
<1> DEFINE n == BasedNewsrc(g, base, 0)
           p == Parsed(g, base, got, expired)
           all == ParsedAll(g, base, got, expired)
           gone == UnreadArts(n, expired)
           grp == Indexed(g, base)
<1>2. /\ got \subseteq Arts /\ expired \subseteq Arts /\ got \cap expired = {}
      /\ p.xbitmap = UnreadArts(n, got \cup expired)
      /\ p.num_unread = Cardinality(p.xbitmap)
      /\ grp.xmax <= p.xmax /\ n.xmax <= p.xmax /\ BitmapsOK(all)
      /\ SoundNewsrc(n, MaxArt) /\ SoundNewsrc(p, MaxArt)
  <2>1. got \subseteq Arts /\ expired \subseteq Arts /\ got \cap expired = {}
    BY <1>1, EnteredTypes, Zenon
  <2>2. p.xbitmap = UnreadArts(n, got \cup expired)
    BY DEF Parsed, ParseUnreadArts
  <2>3. p.num_unread = Cardinality(p.xbitmap)
    BY DEF Parsed, ParseUnreadArts
  <2>4. grp.xmax <= p.xmax /\ n.xmax <= p.xmax /\ BitmapsOK(all)
    BY <1>1, EnteredTypes, Zenon
  <2>5. SoundNewsrc(n, MaxArt) /\ SoundNewsrc(p, MaxArt)
    BY <1>1, EnteredTypes, Zenon
  <2>6. QED
    BY <2>1, <2>2, <2>3, <2>4, <2>5
<1>3. /\ stray \in SUBSET BehindBitmap(all, g, gone) /\ base \in HardBase(g)
      /\ newsrc' = MarkRead(all, g, expired, gone, stray)
      /\ active' = [active EXCEPT ![g] = grp] /\ reading' = g
      /\ arts' = [a \in got |->
                    [status |-> IF a \in UnreadArts(n, got) THEN ART_UNREAD ELSE ART_READ,
                     zombie |-> FALSE]]
      /\ expired \in SUBSET ((grp.xmin..grp.xmax) \ base)
  BY <1>1 DEF Entered
<1>4. all[g] = p
  BY DEF ParsedAll, Inv, BitmapsOK
<1>5. gone \subseteq expired /\ gone = p.xbitmap \cap expired
  <2> HIDE DEF p, n
  <2>1. QED
    BY <1>2 DEF UnreadArts
<1>6. UnreadArts(n, got) = p.xbitmap \ expired
  <2> HIDE DEF p, n
  <2>1. QED
    BY <1>2 DEF UnreadArts
<1>7. /\ active[g].xmax \in Nat /\ active[g].xmin \in Nat /\ 1 <= active[g].xmin
      /\ active[g] \in GroupRecords /\ SoundNewsrc(newsrc[g], MaxArt) /\ p.xmax \in Nat
  BY <1>2 DEF Inv, ActiveOK, EntryOK, SoundGroup, GroupRecords, BitmapsOK,
     SoundNewsrc, NewsrcRecords
<1>8. gone # {} => active[g].xmax <= p.xmax
  <2>1. CASE base = {}
    <3>1. grp.xmin = active[g].xmin /\ grp.xmax <= active[g].xmin - 1
      <4>1. Based(g, base) = active[g] /\ LastBase(g, base) = active[g].xmin - 1
        BY <2>1 DEF Based, LastBase
      <4>2. grp = [active[g] EXCEPT !.xmax = IF active[g].xmax > active[g].xmin - 1
                                             THEN active[g].xmin - 1 ELSE active[g].xmax]
        BY <4>1, <1>7 DEF Indexed, GroupRecords
      <4>3. QED
        BY <1>7, <4>2 DEF GroupRecords
    <3>2. grp.xmax \in Int
      BY <1>1, BasedOK DEF Entered, GroupRecords
    <3> HIDE DEF grp, gone
    <3>3. expired = {}
      BY <1>3, <1>7, <3>1, <3>2
    <3>4. QED
      BY <1>5, <3>3
  <2>2. CASE base # {}
    <3>1. n = ExpandBitmap(Based(g, base), newsrc[g], Lowest(base), 0)
      BY <2>2 DEF BasedNewsrc
    <3>2. n.xmax = Larger(newsrc[g].xmax, Based(g, base).xmax)
      BY <3>1 DEF ExpandBitmap, ExpandBitmapTo
    <3>3. Based(g, base).xmax = Larger(active[g].xmax, Highest(base))
      BY <1>7, <2>2 DEF Based, GroupRecords
    <3>4. Highest(base) \in Nat
      <4>1. base \subseteq Arts
        BY <1>3, HardBaseType
      <4>2. Highest(base) \in base
        BY <1>3, <2>2, HardBaseType
      <4>3. Highest(base) \in Arts
        BY <4>1, <4>2, Zenon
      <4>4. QED
        BY <4>3 DEF Arts
    <3>5. newsrc[g].xmax \in Nat
      BY <1>7 DEF SoundNewsrc, NewsrcRecords
    <3> HIDE DEF n, p
    <3>6. active[g].xmax <= n.xmax /\ n.xmax \in Nat
      BY <1>7, <3>2, <3>3, <3>4, <3>5 DEF Larger
    <3>7. QED
      BY <1>2, <1>7, <3>6
  <2>3. QED
    BY <2>1, <2>2
<1> HIDE DEF n, p, all, gone, grp
<1>9. \A q \in stray : q[1] # g
  <2>1. gone \cap Arts = gone
    BY <1>2, <1>5
  <2>2. CrossPosts(g, g, gone) \subseteq gone
    BY <2>1, OwnCrossPosts
  <2>3. ASSUME NEW q \in stray, q[1] = g PROVE FALSE
    <3>1. q \in Groups \X Arts /\ q[2] \in LookedUp(g, p, g, gone) /\ q[2] > p.xmax
      BY <1>3, <1>4, <2>3 DEF BehindBitmap
    <3>2. q[2] <= active[g].xmax /\ q[2] \in CrossPosts(g, g, gone)
      BY <3>1 DEF LookedUp
    <3>3. q[2] \in Nat /\ gone # {}
      BY <2>2, <3>1, <3>2 DEF Arts
    <3>4. QED
      BY <1>7, <1>8, <3>1, <3>2, <3>3
  <2>4. QED
    BY <2>3
<1>10. newsrc'[g].xbitmap = p.xbitmap \ expired /\ Counted(newsrc'[g])
  <2>1. Counted(all[g]) /\ gone \subseteq Arts /\ gone = all[g].xbitmap \cap expired
    BY <1>2, <1>4, <1>5 DEF Counted
  <2>2. MarkRead(all, g, expired, gone, stray)[g].xbitmap = all[g].xbitmap \ expired
    BY ONLY <1>2, <1>9, <2>1, MarkReadOwn, g \in Groups
  <2>3. Counted(MarkRead(all, g, expired, gone, stray)[g])
    BY ONLY <1>2, <1>9, <2>1, MarkReadOwn, g \in Groups
  <2>4. QED
    BY <1>3, <1>4, <2>2, <2>3
<1>11. newsrc'[g].xmax = p.xmax
  <2>1. /\ BitmapsOK(all) /\ gone \subseteq Arts
        /\ stray \subseteq Groups \X Arts
    BY <1>2, <1>3, <1>5, BehindType
  <2>2. MarkRead(all, g, expired, gone, stray)[g].xmax = all[g].xmax
    BY ONLY <2>1, MarkReadOK, g \in Groups
  <2>3. QED
    BY <1>3, <1>4, <2>2
<1>12. active'[g].xmax = grp.xmax
  BY <1>3 DEF Inv, ActiveOK
<1>13. {a \in DOMAIN arts' : Unread(a)'} = UnreadArts(n, got)
  <2>1. DOMAIN arts' = got
    BY <1>3
  <2>2. \A a \in got : Unread(a)' <=> a \in UnreadArts(n, got)
    BY <1>3 DEF Unread, ART_READ, ART_UNREAD, ART_WILL_RETURN
  <2>3. UnreadArts(n, got) \subseteq got
    BY DEF UnreadArts
  <2>4. QED
    BY <2>1, <2>2, <2>3
<1>14. QED
  BY <1>2, <1>3, <1>6, <1>10, <1>11, <1>12, <1>13 DEF Screen, StatusIsBitmap, Counted

\* No group is read at the start.
LEMMA ScreenInit == Init => Screen
BY DEF Init, Screen, StatusIsBitmap

\* Every step keeps screen, bitmap and counter in agreement.
LEMMA ScreenNext ==
  ASSUME Inv, Screen, [Next]_vars PROVE Screen'
<1>1. ASSUME reading' = NoGroup PROVE Screen'
  BY <1>1 DEF Screen, StatusIsBitmap
<1>2. ASSUME UNCHANGED <<active, newsrc, reading, arts>> PROVE Screen'
  BY <1>2 DEF Screen, StatusIsBitmap, Unread
<1>3. ASSUME NEW S \in SUBSET DOMAIN arts, ReadArts(S) PROVE Screen'
  <2>1. /\ reading # NoGroup /\ S \subseteq DOMAIN arts /\ MarkArtsRead(S)
        /\ UNCHANGED <<active, reading>>
        /\ arts' = [a \in DOMAIN arts |->
                      IF a \in S THEN [arts[a] EXCEPT !.status = ART_READ] ELSE arts[a]]
    BY <1>3 DEF ReadArts
  <2>2. \A a \in S : arts'[a].status = ART_READ
    BY <2>1 DEF Inv, ArtsOK
  <2>3. DOMAIN arts' = DOMAIN arts /\ \A a \in DOMAIN arts \ S : arts'[a] = arts[a]
    BY <2>1
  <2>4. QED
    BY <2>1, <2>2, <2>3, MarkArtsReadScreen
<1>4. ASSUME NEW S \in SUBSET DOMAIN arts, MarkUnselectedRead(S) PROVE Screen'
  <2>1. /\ reading # NoGroup /\ S \subseteq DOMAIN arts /\ MarkArtsRead(S)
        /\ UNCHANGED <<active, reading>>
        /\ arts' = [a \in DOMAIN arts |->
                      IF a \in S THEN [status |-> ART_READ, zombie |-> TRUE] ELSE arts[a]]
    BY <1>4 DEF MarkUnselectedRead
  <2>2. \A a \in S : arts'[a].status = ART_READ
    BY <2>1
  <2>3. DOMAIN arts' = DOMAIN arts /\ \A a \in DOMAIN arts \ S : arts'[a] = arts[a]
    BY <2>1
  <2>4. QED
    BY <2>1, <2>2, <2>3, MarkArtsReadScreen
<1>5. ASSUME NEW S \in SUBSET DOMAIN arts, UnreadArtsAgain(S) PROVE Screen'
  BY <1>5, UnreadArtsAgainScreen
<1>6. CASE UndoAutoSelect
  BY <1>6, UndoAutoSelectScreen
<1>7. CASE LeaveGroup \/ CatchupGroup
  BY <1>1, <1>7 DEF LeaveGroup, CatchupGroup
<1>8. ASSUME NEW g \in Groups, EnterGroup(g) PROVE Screen'
  BY <1>8, EnterGroupScreen
<1>9. ASSUME NEW g \in Groups,
             \/ AbortEnter(g) \/ CatchupSelected(g) \/ MarkGroupUnread(g)
             \/ Subscribe(g) \/ SubscribePattern(g) \/ Unsubscribe(g)
             \/ RereadAfterPosting(g)
      PROVE  Screen'
  BY <1>1, <1>9 DEF AbortEnter, CatchupSelected, MarkGroupUnread, Subscribe,
     SubscribePattern, Unsubscribe, RereadAfterPosting
<1>10. CASE ResyncActive \/ ResetNewsrc \/ Quit \/ Die
  BY <1>1, <1>10 DEF ResyncActive, ResetNewsrc, Resync, Quit, Die, StartUp
<1>11. CASE \/ \E g \in Groups : Arrive(g)
            \/ \E g \in Groups : \E a \in Arts : Expire(g, a)
            \/ UNCHANGED vars
  BY <1>2, <1>11 DEF Arrive, Expire, vars
<1>12. QED
  BY <1>3, <1>4, <1>5, <1>6, <1>7, <1>8, <1>9, <1>10, <1>11 DEF Next, Command

\* In the group being read the screen, the bitmap that will be saved and the
\* counter agree after every order of reading, unreading, zombies, catchup and
\* crossposts (art_mark_read(), art_mark_unread(), art_mark_will_return(),
\* parse_unread_arts()).
THEOREM ScreenTrue == Spec => []StatusIsBitmap
<1>1. Init => Inv /\ Screen
  BY InitInv, ScreenInit
<1>2. Inv /\ Screen /\ [Next]_vars => (Inv /\ Screen)'
  BY NextInv, ScreenNext
<1>3. Inv /\ Screen => StatusIsBitmap
  BY DEF Screen
<1>4. QED
  BY <1>1, <1>2, <1>3, PTL DEF Spec

-----------------------------------------------------------------------------
(* What a step may do to a mark *)

\* The two claims of MarksFollowUser about one article
SilentOK(g, a) ==
  (MarksWritten(g) /\ ~IsRead(newsrc[g], a) /\ IsRead(newsrc'[g], a)) =>
     \/ UserReads(g, a) \/ Die
     \/ reading' = g /\ a \notin DOMAIN arts'
     \/ reading' # NoGroup /\ a \in CrossPosts(g, reading', Arts)
StaysOK(g, a) ==
  (/\ active[g].subscribed /\ newsrc[g].present
   /\ ~FirstArticleForgotten(g)
   /\ Reappears(g, a)) =>
     UserUnreads(g, a) \/ Die
MarksOK == \A g \in Groups : \A a \in spool[g] : SilentOK(g, a) /\ StaysOK(g, a)

\* A mark that does not change raises no question.
LEMMA MarkKept ==
  ASSUME NEW g, NEW a, IsRead(newsrc[g], a) <=> IsRead(newsrc'[g], a)
  PROVE  SilentOK(g, a) /\ StaysOK(g, a)
BY DEF SilentOK, StaysOK, Reappears

\* A step without a new bitmap changes no mark.
LEMMA AllKept ==
  ASSUME UNCHANGED newsrc PROVE MarksOK
BY MarkKept DEF MarksOK

\* A command on the bitmap of g leaves the others alone.
LEMMA OthersKept ==
  ASSUME Inv, NEW g \in Groups, NEW n, newsrc' = [newsrc EXCEPT ![g] = n],
         \A a \in spool[g] : SilentOK(g, a) /\ StaysOK(g, a)
  PROVE  MarksOK
<1>1. ASSUME NEW h \in Groups, NEW a \in spool[h] PROVE SilentOK(h, a) /\ StaysOK(h, a)
  <2>1. CASE h = g
    BY <2>1
  <2>2. CASE h # g
    <3>1. newsrc'[h] = newsrc[h]
      BY <2>2 DEF Inv, BitmapsOK
    <3>2. IsRead(newsrc[h], a) <=> IsRead(newsrc'[h], a)
      BY <3>1
    <3>3. QED
      BY <3>2, MarkKept
  <2>3. QED
    BY <2>1, <2>2
<1>2. QED
  BY <1>1 DEF MarksOK

\* Where the articles of the server lie
LEMMA SpoolArt ==
  ASSUME Inv, NEW g \in Groups, NEW a \in spool[g]
  PROVE  /\ a \in Nat /\ 1 <= a /\ a \in Arts /\ ServerMin(g) <= a
         /\ \A grp : EntryOK(g, grp) => grp.xmin <= a
         /\ \A base \in HardBase(g) : a \in base
<1>1. /\ high[g] \in Nat /\ high[g] <= MaxArt /\ spool[g] \subseteq 1..high[g]
      /\ ServerMin(g) \in Nat /\ MaxArt \in Nat
  BY ServerMinType, SessionAssumption DEF Inv, ServerOK
<1>2. a \in Nat /\ 1 <= a /\ a <= high[g] /\ a \in Arts
  BY <1>1 DEF Arts
<1>3. ServerMin(g) = Lowest(spool[g])
  BY DEF ServerMin
<1>4. spool[g] \subseteq Nat /\ spool[g] # {}
  BY <1>1
<1>5. ServerMin(g) <= a
  BY <1>3, <1>4, LowestOf
<1>6. ASSUME NEW grp, EntryOK(g, grp) PROVE grp.xmin <= a
  <2>1. grp.xmin \in Nat /\ grp.xmin <= ServerMin(g)
    BY <1>6 DEF EntryOK, SoundGroup, GroupRecords
  <2>2. QED
    BY <1>1, <1>2, <1>5, <2>1
<1>7. ASSUME NEW base \in HardBase(g) PROVE a \in base
  <2>1. base = spool[g] \/ base = ServerMin(g)..high[g]
    BY <1>4 DEF HardBase
  <2>2. QED
    BY <1>1, <1>2, <1>5, <2>1
<1>8. QED
  BY <1>2, <1>5, <1>6, <1>7

\* Bits are cleared in a window that stays.
LEMMA SameWindow ==
  ASSUME NEW n, SoundNewsrc(n, MaxArt), NEW m, m.xmin = n.xmin, m.xmax = n.xmax,
         m.xbitmap \subseteq n.xbitmap, NEW a \in Nat
  PROVE  /\ IsRead(n, a) => IsRead(m, a)
         /\ IsRead(m, a) /\ ~IsRead(n, a) => a \in n.xbitmap \ m.xbitmap
BY DEF IsRead, SoundNewsrc, NewsrcRecords

-----------------------------------------------------------------------------
(* Commands on the group that is being read *)

\* More articles have more crossposts.
LEMMA CrossPostsGrow ==
  ASSUME NEW h, NEW g, NEW S, NEW T, S \subseteq T
  PROVE  CrossPosts(h, g, S) \subseteq CrossPosts(h, g, T)
BY DEF CrossPosts

\* art_mark_read() marks the articles of the page and their crossposts.
LEMMA MarkArtsReadMarks ==
  ASSUME Inv, reading # NoGroup, NEW S, S \subseteq DOMAIN arts, MarkArtsRead(S)
  PROVE  MarksOK
<1> DEFINE unread == {a \in S : Unread(a)}
<1>1. PICK stray \in SUBSET BehindBitmap(newsrc, reading, unread) :
        newsrc' = MarkRead(newsrc, reading, S, unread, stray)
  BY DEF MarkArtsRead
<1>2. reading \in Groups /\ BitmapsOK(newsrc) /\ unread \subseteq DOMAIN arts
  BY DEF Inv, ArtsOK
<1> HIDE DEF unread
<1>3. SUFFICES ASSUME NEW g \in Groups, NEW a \in spool[g] PROVE SilentOK(g, a) /\ StaysOK(g, a)
  BY DEF MarksOK
<1> DEFINE n == newsrc[g]
           m == newsrc'[g]
<1>4. m.xmin = n.xmin /\ m.xmax = n.xmax /\ m.xbitmap \subseteq n.xbitmap
  BY <1>1, <1>2, MarkReadBits
<1>5. n.xbitmap \ m.xbitmap
        \subseteq (IF g = reading THEN S ELSE {}) \cup CrossPosts(g, reading, unread)
  BY <1>1, <1>2, MarkReadBits
<1>6. SoundNewsrc(n, MaxArt) /\ a \in Nat
  BY SpoolArt DEF Inv, BitmapsOK
<1> HIDE DEF n, m
<1>7. /\ IsRead(n, a) => IsRead(m, a)
      /\ IsRead(m, a) /\ ~IsRead(n, a) => a \in n.xbitmap \ m.xbitmap
  BY <1>4, <1>6, SameWindow
<1>8. CrossPosts(g, reading, unread) \subseteq CrossPosts(g, reading, DOMAIN arts)
  BY <1>2, CrossPostsGrow
<1>9. IsRead(m, a) /\ ~IsRead(n, a) => UserReads(g, a)
  BY <1>5, <1>7, <1>8 DEF UserReads
<1>10. QED
  BY <1>7, <1>9 DEF SilentOK, StaysOK, Reappears, n, m

\* art_mark_will_return() and art_mark_unread() of articles of the page
LEMMA UnreadMarks ==
  ASSUME Inv, reading # NoGroup, NEW S, S \subseteq DOMAIN arts,
         NEW m, newsrc' = [newsrc EXCEPT ![reading] = m],
         m.xmin = newsrc[reading].xmin, m.xmax = newsrc[reading].xmax,
         m.xbitmap = newsrc[reading].xbitmap \cup S
  PROVE  MarksOK
<1>1. reading \in Groups /\ SoundNewsrc(newsrc[reading], MaxArt)
  BY DEF Inv, ArtsOK, BitmapsOK
<1>2. newsrc'[reading] = m
  BY <1>1 DEF Inv, BitmapsOK
<1>3. ASSUME NEW a \in spool[reading]
      PROVE  SilentOK(reading, a) /\ StaysOK(reading, a)
  <2>1. a \in Nat
    BY <1>1, SpoolArt
  <2>2. IsRead(m, a) => IsRead(newsrc[reading], a)
    BY <1>1, <2>1 DEF IsRead, SoundNewsrc, NewsrcRecords
  <2>3. IsRead(newsrc[reading], a) /\ ~IsRead(m, a) => a \in DOMAIN arts
    BY <1>1, <2>1 DEF IsRead, SoundNewsrc, NewsrcRecords
  <2>4. QED
    BY <1>2, <2>2, <2>3 DEF SilentOK, StaysOK, Reappears, UserUnreads
<1>4. QED
  BY <1>1, <1>3, OthersKept

\* art_mark_will_return() and thd_mark_unread()
LEMMA UnreadArtsAgainMarks ==
  ASSUME Inv, NEW S, UnreadArtsAgain(S) PROVE MarksOK
<1> DEFINE back == {a \in S : arts[a].status = ART_READ}
           num == newsrc[reading].num_unread + Cardinality(back)
           m == [newsrc[reading] EXCEPT !.num_unread = num, !.xbitmap = @ \cup S]
<1>1. reading # NoGroup /\ S \subseteq DOMAIN arts
  BY DEF UnreadArtsAgain
<1>2. reading \in Groups /\ newsrc \in [Groups -> NewsrcRecords]
  BY <1>1 DEF Inv, ArtsOK, BitmapsOK
<1>3. newsrc' = [newsrc EXCEPT ![reading] = m]
  BY <1>2 DEF UnreadArtsAgain
<1> HIDE DEF num
<1>4. /\ m.xmin = newsrc[reading].xmin /\ m.xmax = newsrc[reading].xmax
      /\ m.xbitmap = newsrc[reading].xbitmap \cup S
  BY <1>2 DEF NewsrcRecords
<1> HIDE DEF m
<1>5. QED
  BY <1>1, <1>3, <1>4, UnreadMarks

\* undo_auto_select_arts() makes articles of the page unread.
LEMMA UndoAutoSelectMarks ==
  ASSUME Inv, UndoAutoSelect PROVE MarksOK
<1> DEFINE back == {a \in DOMAIN arts : arts[a].status = ART_READ /\ arts[a].zombie}
           old == newsrc[reading]
           n == [old EXCEPT !.num_unread = old.num_unread + Cardinality(back)]
           m == [n EXCEPT !.xbitmap = n.xbitmap \cup back]
<1>1. reading # NoGroup /\ newsrc' = [newsrc EXCEPT ![reading] = ArtMarkUnread(active[reading], @, back)]
  BY DEF UndoAutoSelect
<1>2. /\ reading \in Groups /\ newsrc \in [Groups -> NewsrcRecords] /\ old \in NewsrcRecords
      /\ DOMAIN arts \subseteq old.xmin..old.xmax
  BY <1>1 DEF Inv, ArtsOK, ArtsInBitmap, BitmapsOK
<1>3. back \subseteq DOMAIN arts
  OBVIOUS
<1> HIDE DEF back
<1>4. \A a \in back : a >= old.xmin
  BY <1>2, <1>3 DEF NewsrcRecords
<1>5. n.xmin = old.xmin /\ n.xbitmap = old.xbitmap /\ n.xmax = old.xmax
      /\ n \in [present : BOOLEAN, num_unread : {n.num_unread}, xmin : Nat, xmax : Nat,
                xbitlen : Nat, xbitmap : SUBSET Nat]
  BY <1>2 DEF NewsrcRecords
<1>6. ArtMarkUnread(active[reading], old, back) = m
  BY <1>4, <1>5 DEF ArtMarkUnread
<1> HIDE DEF n
<1>7. m.xmin = old.xmin /\ m.xmax = old.xmax /\ m.xbitmap = old.xbitmap \cup back
  BY <1>5
<1> HIDE DEF m
<1>8. newsrc' = [newsrc EXCEPT ![reading] = m]
  BY <1>1, <1>6
<1>9. QED
  BY <1>1, <1>3, <1>7, <1>8, UnreadMarks

\* Catchup: grp_mark_read() reads what is on the screen, and nothing that is
\* not, since the bitmap of the group holds nothing else.
LEMMA CatchupGroupMarks ==
  ASSUME Inv, Screen, CatchupGroup PROVE MarksOK
<1> DEFINE unread == {a \in DOMAIN arts : Unread(a)}
           r == reading
<1>1. PICK stray \in SUBSET BehindBitmap(newsrc, r, unread) :
        newsrc' = [MarkRead(newsrc, r, DOMAIN arts, unread, stray) EXCEPT
                     ![r] = ScrubBitmap(active[r], @)]
  BY DEF CatchupGroup
<1> DEFINE done == MarkRead(newsrc, r, DOMAIN arts, unread, stray)
<1>2. /\ r \in Groups /\ BitmapsOK(newsrc) /\ unread \subseteq DOMAIN arts
      /\ unread \subseteq Arts /\ stray \subseteq Groups \X Arts /\ reading # NoGroup
  BY <1>1, BehindType DEF CatchupGroup, Inv, ArtsOK
<1>3. newsrc[r].xbitmap \subseteq DOMAIN arts /\ active[r].xmax <= newsrc[r].xmax
  BY <1>2 DEF Screen, StatusIsBitmap
<1> HIDE DEF unread
<1>4. BitmapsOK(done)
  BY ONLY <1>2, MarkReadOK
<1>5. newsrc'[r] = ScrubBitmap(active[r], done[r]) /\ \A g \in Groups \ {r} : newsrc'[g] = done[g]
  BY <1>1, <1>2, <1>4 DEF BitmapsOK
<1>6. SUFFICES ASSUME NEW g \in Groups, NEW a \in spool[g] PROVE SilentOK(g, a) /\ StaysOK(g, a)
  BY DEF MarksOK
<1> DEFINE n == newsrc[g]
           m == done[g]
<1>7. m.xmin = n.xmin /\ m.xmax = n.xmax /\ m.xbitmap \subseteq n.xbitmap
  BY <1>2, MarkReadBits
<1>8. n.xbitmap \ m.xbitmap
        \subseteq (IF g = r THEN DOMAIN arts ELSE {}) \cup CrossPosts(g, r, unread)
  BY <1>2, MarkReadBits
<1>9. SoundNewsrc(n, MaxArt) /\ SoundNewsrc(m, MaxArt) /\ a \in Nat
  BY <1>2, <1>4, SpoolArt DEF BitmapsOK
<1> HIDE DEF n, m, done
<1>10. CASE g # r
  <2>1. /\ IsRead(n, a) => IsRead(m, a)
        /\ IsRead(m, a) /\ ~IsRead(n, a) => a \in n.xbitmap \ m.xbitmap
    BY <1>7, <1>9, SameWindow
  <2>2. CrossPosts(g, r, unread) \subseteq CrossPosts(g, reading, DOMAIN arts)
    BY <1>2, CrossPostsGrow
  <2>3. IsRead(m, a) /\ ~IsRead(n, a) => UserReads(g, a)
    BY <1>2, <1>8, <1>10, <2>1, <2>2 DEF UserReads
  <2>4. newsrc'[g] = m
    BY <1>5, <1>10 DEF m
  <2>5. QED
    BY <2>1, <2>3, <2>4 DEF SilentOK, StaysOK, Reappears, n
<1>11. CASE g = r
  <2>1. SoundGroup(active[r], MaxArt) /\ MaxArt \in Nat
    BY <1>2, SessionAssumption DEF Inv, ActiveOK, EntryOK
  <2>2. newsrc'[g] = ScrubBitmap(active[r], m)
    BY <1>5, <1>11 DEF m
  <2>3. IsRead(newsrc'[g], a) <=> a <= active[r].xmax \/ a <= m.xmax
    BY <1>9, <2>1, <2>2, ScrubMarks
  <2>4. active[r].xmax \in Nat /\ n \in NewsrcRecords /\ n.xmin <= n.xmax + 1
    BY <1>9, <2>1 DEF SoundGroup, GroupRecords, SoundNewsrc, NewsrcRecords
  <2>5. IsRead(newsrc'[g], a) <=> a <= n.xmax
    BY <1>3, <1>7, <1>9, <1>11, <2>3, <2>4 DEF n, NewsrcRecords
  <2>6. IsRead(n, a) => IsRead(newsrc'[g], a)
    BY <1>9, <2>4, <2>5 DEF IsRead, NewsrcRecords
  <2>7. IsRead(newsrc'[g], a) /\ ~IsRead(n, a) => a \in n.xbitmap
    BY <1>9, <2>4, <2>5 DEF IsRead, NewsrcRecords
  <2>8. IsRead(newsrc'[g], a) /\ ~IsRead(n, a) => UserReads(g, a)
    BY <1>2, <1>3, <1>11, <2>7 DEF UserReads, n
  <2>9. QED
    BY <2>6, <2>8 DEF SilentOK, StaysOK, Reappears, n
<1>12. QED
  BY <1>10, <1>11

-----------------------------------------------------------------------------
(* Entering a group *)

\* The entry to whose end expand_bitmap() extends the bitmap
LEMMA BasedSound ==
  ASSUME Inv, NEW g \in Groups, NEW base \in HardBase(g), base # {}
  PROVE  SoundGroup(Based(g, base), MaxArt)
<1> DEFINE top == Highest(base)
<1>1. active[g] \in GroupRecords /\ EntryOK(g, active[g]) /\ MaxArt \in Nat
  BY SessionAssumption DEF Inv, ActiveOK
<1>2. /\ active[g].xmin \in Nat /\ active[g].xmax \in Nat /\ active[g].xmin >= 1
      /\ active[g].xmin <= active[g].xmax + 1 /\ active[g].xmax <= MaxArt
  BY <1>1 DEF EntryOK, SoundGroup, GroupRecords
<1>3. top \in base /\ base \subseteq Arts
  BY HardBaseType
<1>4. top \in Nat /\ top <= MaxArt
  <2>1. top \in Arts
    BY <1>3, Zenon
  <2> HIDE DEF top
  <2>2. QED
    BY <1>1, <2>1 DEF Arts
<1> HIDE DEF top
<1>5. Based(g, base) = [active[g] EXCEPT !.xmax = Larger(@, top)]
  BY DEF Based, top
<1> DEFINE b == Based(g, base)
<1>6. b \in GroupRecords /\ b.xmin = active[g].xmin /\ b.xmax = Larger(active[g].xmax, top)
  BY <1>1, <1>2, <1>4, <1>5 DEF GroupRecords, Larger
<1> HIDE DEF b
<1>7. SoundGroup(b, MaxArt)
  BY <1>2, <1>4, <1>6 DEF SoundGroup, Larger
<1>8. QED
  BY <1>7 DEF b

\* index_group(): what could be loaded keeps its mark; what could not, and the
\* crossposts of what has expired, are the exceptions of NoSilentRead.
LEMMA EnterGroupMarks ==
  ASSUME Inv, NEW g \in Groups, EnterGroup(g) PROVE MarksOK
<1>1. PICK base, got, expired, stray : Entered(g, base, got, expired, stray)
  BY EnterChoice
<1> DEFINE n == BasedNewsrc(g, base, 0)
           p == Parsed(g, base, got, expired)
           all == ParsedAll(g, base, got, expired)
           gone == UnreadArts(n, expired)
<1>2. got \subseteq Arts /\ expired \subseteq Arts /\ got \cap expired = {}
  BY <1>1, EnteredTypes, Zenon
<1>3. n.xmax <= p.xmax /\ BitmapsOK(all) /\ SoundNewsrc(n, MaxArt) /\ SoundNewsrc(p, MaxArt)
  BY <1>1, EnteredTypes, Zenon
<1>4. p.xbitmap = UnreadArts(n, got \cup expired) /\ p.xmin = n.xmin
  BY DEF Parsed, ParseUnreadArts
<1>5. /\ newsrc' = MarkRead(all, g, expired, gone, stray) /\ reading' = g
      /\ base \in HardBase(g) /\ got \subseteq base /\ DOMAIN arts' = got
  BY <1>1 DEF Entered
<1>6. all[g] = p /\ \A h \in Groups \ {g} : all[h] = newsrc[h]
  BY DEF ParsedAll, Inv, BitmapsOK
<1>7. gone \subseteq expired /\ gone \subseteq Arts
  BY <1>2 DEF UnreadArts
<1> HIDE DEF n, p, all, gone
<1>8. SUFFICES ASSUME NEW h \in Groups, NEW a \in spool[h] PROVE SilentOK(h, a) /\ StaysOK(h, a)
  BY DEF MarksOK
<1> DEFINE m == newsrc'[h]
<1>9. m.xmin = all[h].xmin /\ m.xmax = all[h].xmax /\ m.xbitmap \subseteq all[h].xbitmap
  BY <1>3, <1>5, MarkReadBits
<1>10. all[h].xbitmap \ m.xbitmap
         \subseteq (IF h = g THEN expired ELSE {}) \cup CrossPosts(h, g, gone)
  BY <1>3, <1>5, MarkReadBits
<1>11. SoundNewsrc(newsrc[h], MaxArt) /\ SoundNewsrc(all[h], MaxArt) /\ a \in Nat
  BY <1>3, SpoolArt DEF Inv, BitmapsOK
<1>12. g # NoGroup
  BY SessionAssumption
<1> HIDE DEF m
<1>13. CASE h # g
  <2>1. all[h] = newsrc[h]
    BY <1>6, <1>13
  <2>2. /\ IsRead(newsrc[h], a) => IsRead(m, a)
        /\ IsRead(m, a) /\ ~IsRead(newsrc[h], a) => a \in newsrc[h].xbitmap \ m.xbitmap
    BY <1>9, <1>11, <2>1, SameWindow
  <2>3. CrossPosts(h, g, gone) \subseteq CrossPosts(h, g, Arts)
    BY <1>7, CrossPostsGrow
  <2>4. IsRead(m, a) /\ ~IsRead(newsrc[h], a) => a \in CrossPosts(h, reading', Arts)
    BY <1>5, <1>10, <1>13, <2>1, <2>2, <2>3
  <2>5. QED
    BY <1>5, <1>12, <2>2, <2>4 DEF SilentOK, StaysOK, Reappears, m
<1>14. CASE h = g
  <2>1. /\ IsRead(newsrc[g], a) => IsRead(n, a)
        /\ a \in got => (IsRead(n, a) => IsRead(newsrc[g], a))
    <3>1. CASE base = {}
      <4>1. n = newsrc[g]
        BY <3>1 DEF n, BasedNewsrc
      <4>2. QED
        BY <4>1
    <3>2. CASE base # {}
      <4> DEFINE b == Based(g, base)
                 low == Lowest(base)
      <4>1. n = ExpandBitmap(b, newsrc[g], low, 0)
        BY <3>2 DEF n, BasedNewsrc
      <4>2. \A y \in base : low <= y
        BY <1>5, <3>2, HardBaseType
      <4>3. low \in Nat
        <5>1. low \in base /\ base \subseteq Arts
          BY <1>5, <3>2, HardBaseType
        <5>2. low \in Arts
          BY <5>1, Zenon
        <5>3. QED
          BY <5>2 DEF Arts
      <4>4. SoundGroup(b, MaxArt) /\ MaxArt \in Nat
        BY <1>5, <3>2, BasedSound, SessionAssumption
      <4> HIDE DEF b, low
      <4>5. /\ IsRead(newsrc[g], a) => IsRead(ExpandBitmap(b, newsrc[g], low, 0), a)
            /\ (low = 0 \/ a >= low) /\ IsRead(ExpandBitmap(b, newsrc[g], low, 0), a)
                 => IsRead(newsrc[g], a)
        BY <1>11, <1>14, <4>3, <4>4, ExpandMarks
      <4>6. a \in got => a >= low
        BY <1>5, <1>11, <4>2, <4>3
      <4>7. QED
        BY <4>1, <4>5, <4>6
    <3>3. QED
      BY <3>1, <3>2
  <2>2. CrossPosts(g, g, gone) \subseteq gone
    <3>1. gone \cap Arts = gone
      BY <1>7
    <3>2. QED
      BY <3>1, OwnCrossPosts
  <2>3. a \in got /\ a \in p.xbitmap => a \in m.xbitmap
    BY <1>2, <1>6, <1>7, <1>10, <1>14, <2>2
  <2>4. m.xmin = n.xmin /\ m.xmax = p.xmax /\ m.xbitmap \subseteq p.xbitmap
    BY <1>4, <1>6, <1>9, <1>14
  <2>5. n.xmin \in Nat /\ n.xmax \in Nat /\ p.xmax \in Nat
    BY <1>3 DEF SoundNewsrc, NewsrcRecords
  <2>6. IsRead(n, a) => IsRead(m, a)
    BY <1>3, <1>4, <1>11, <2>4, <2>5 DEF IsRead, UnreadArts
  <2>7. a \in got /\ IsRead(m, a) => IsRead(n, a)
    BY <1>4, <1>11, <2>3, <2>4, <2>5 DEF IsRead, UnreadArts
  <2>8. newsrc'[g] = m
    BY <1>14 DEF m
  <2>9. QED
    BY <1>5, <1>14, <2>1, <2>6, <2>7, <2>8 DEF SilentOK, StaysOK, Reappears
<1>15. QED
  BY <1>13, <1>14

\* An interrupted index_group() has expanded the bitmap and read nothing.
LEMMA AbortEnterMarks ==
  ASSUME Inv, NEW g \in Groups, AbortEnter(g) PROVE MarksOK
<1>1. PICK base \in HardBase(g) :
        \E unset \in UnsetBits(Based(g, base), newsrc[g],
                               IF base = {} THEN 0 ELSE Lowest(base)) :
          newsrc' = [newsrc EXCEPT ![g] = BasedNewsrc(g, base, unset)]
  BY DEF AbortEnter
<1> DEFINE b == Based(g, base)
           low == IF base = {} THEN 0 ELSE Lowest(base)
<1>2. PICK unset \in UnsetBits(b, newsrc[g], low) :
        newsrc' = [newsrc EXCEPT ![g] = BasedNewsrc(g, base, unset)]
  BY <1>1
<1>3. SoundNewsrc(newsrc[g], MaxArt) /\ MaxArt \in Nat
  BY SessionAssumption DEF Inv, BitmapsOK
<1>4. ASSUME NEW a \in spool[g] PROVE SilentOK(g, a) /\ StaysOK(g, a)
  <2>1. a \in base /\ base # {} /\ a \in Nat
    BY SpoolArt
  <2>2. low \in base /\ low <= a
    BY <2>1, HardBaseType
  <2>3. base \subseteq Arts
    BY HardBaseType
  <2>4. low \in Nat /\ low > 0
    BY <1>3, <2>2, <2>3 DEF Arts
  <2>5. SoundGroup(b, MaxArt)
    BY <2>1, BasedSound
  <2> HIDE DEF b, low
  <2>6. unset \in Nat
    <3>1. UnsetBits(b, newsrc[g], low) \subseteq Nat
      BY <1>3, <2>4, UnsetType
    <3>2. QED
      BY <1>2, <3>1 DEF b, low
  <2>7. BasedNewsrc(g, base, unset) = ExpandBitmap(b, newsrc[g], low, unset)
    BY <2>1 DEF BasedNewsrc, b, low
  <2>8. IsRead(newsrc[g], a) <=> IsRead(ExpandBitmap(b, newsrc[g], low, unset), a)
    BY <1>3, <2>1, <2>2, <2>4, <2>5, <2>6, ExpandMarks
  <2>9. newsrc'[g] = BasedNewsrc(g, base, unset)
    BY <1>2 DEF Inv, BitmapsOK
  <2>10. QED
    BY <2>7, <2>8, <2>9, MarkKept
<1>5. QED
  BY <1>2, <1>4, OthersKept

-----------------------------------------------------------------------------
(* Commands of the selection page *)

\* Catchup on the selection page: grp_mark_read(group, NULL)
LEMMA CatchupSelectedMarks ==
  ASSUME Inv, NEW g \in Groups, CatchupSelected(g) PROVE MarksOK
<1>1. newsrc' = [newsrc EXCEPT ![g] = ScrubBitmap(active[g], newsrc[g])]
  BY DEF CatchupSelected
<1>2. /\ SoundNewsrc(newsrc[g], MaxArt) /\ SoundGroup(active[g], MaxArt) /\ MaxArt \in Nat
      /\ newsrc'[g] = ScrubBitmap(active[g], newsrc[g])
  BY <1>1, SessionAssumption DEF Inv, ActiveOK, EntryOK, BitmapsOK
<1>3. ASSUME NEW a \in spool[g] PROVE SilentOK(g, a) /\ StaysOK(g, a)
  <2>1. a \in Nat
    BY SpoolArt
  <2>2. IsRead(newsrc'[g], a) <=> a <= active[g].xmax \/ a <= newsrc[g].xmax
    BY <1>2, <2>1, ScrubMarks
  <2>3. IsRead(newsrc[g], a) => a <= newsrc[g].xmax
    BY <1>2, <2>1 DEF IsRead, SoundNewsrc, NewsrcRecords
  <2>4. QED
    BY <2>2, <2>3 DEF SilentOK, StaysOK, Reappears, UserReads
<1>4. QED
  BY <1>1, <1>3, OthersKept

\* 'Z' leaves nothing of the group read.
LEMMA MarkGroupUnreadMarks ==
  ASSUME Inv, NEW g \in Groups, MarkGroupUnread(g) PROVE MarksOK
<1>1. PICK info \in ArtInfo(g) :
        /\ active' = [active EXCEPT ![g] = WithInfo(@, info)]
        /\ newsrc' = [newsrc EXCEPT ![g] = GrpMarkUnread(active'[g], @)]
  BY DEF MarkGroupUnread
<1>2. /\ SoundNewsrc(newsrc[g], MaxArt) /\ active[g] \in GroupRecords /\ MaxArt \in Nat
  BY SessionAssumption DEF Inv, ActiveOK, BitmapsOK
<1>3. active'[g] = WithInfo(active[g], info) /\ EntryOK(g, active'[g])
  BY <1>1, <1>2, ArtInfoOK DEF Inv, ActiveOK
<1>4. newsrc'[g] = GrpMarkUnread(active'[g], newsrc[g])
      /\ newsrc' = [newsrc EXCEPT ![g] = newsrc'[g]]
  BY <1>1 DEF Inv, BitmapsOK
<1>5. ASSUME NEW a \in spool[g] PROVE SilentOK(g, a) /\ StaysOK(g, a)
  <2>1. a \in Nat /\ active'[g].xmin <= a
    BY <1>3, SpoolArt
  <2>2. ~IsRead(newsrc'[g], a)
    BY <1>2, <1>3, <1>4, <2>1, GrpMarkUnreadMarks DEF EntryOK
  <2>3. QED
    BY <2>2 DEF SilentOK, StaysOK, UserUnreads
<1>6. QED
  BY <1>4, <1>5, OthersKept

\* subscribe(): a command of the user that may make articles unread
LEMMA SubscribeMarks ==
  ASSUME Inv, NEW g \in Groups, Subscribe(g) PROVE MarksOK
<1>1. PICK s \in Subscribed(g) : newsrc' = [newsrc EXCEPT ![g] = s.nrc]
  BY DEF Subscribe
<1>2. ASSUME NEW a \in spool[g] PROVE SilentOK(g, a) /\ StaysOK(g, a)
  BY DEF SilentOK, StaysOK, UserReads, UserUnreads
<1>3. QED
  BY <1>1, <1>2, OthersKept

\* subscribe_pattern(): subscribe(), then grp_mark_unread()
LEMMA SubscribePatternMarks ==
  ASSUME Inv, NEW g \in Groups, SubscribePattern(g) PROVE MarksOK
<1>1. PICK s \in Subscribed(g), info \in ArtInfo(g) :
        /\ active' = [active EXCEPT ![g] = WithInfo(s.grp, info)]
        /\ newsrc' = [newsrc EXCEPT ![g] = GrpMarkUnread(active'[g], s.nrc)]
  BY DEF SubscribePattern
<1>2. /\ s.grp \in GroupRecords /\ SoundNewsrc(s.nrc, MaxArt) /\ MaxArt \in Nat
  BY <1>1, SubscribedOK, SessionAssumption
<1>3. active'[g] = WithInfo(s.grp, info) /\ EntryOK(g, active'[g])
  BY <1>1, <1>2, ArtInfoOK DEF Inv, ActiveOK
<1>4. newsrc'[g] = GrpMarkUnread(active'[g], s.nrc)
      /\ newsrc' = [newsrc EXCEPT ![g] = newsrc'[g]]
  BY <1>1 DEF Inv, BitmapsOK
<1>5. ASSUME NEW a \in spool[g] PROVE SilentOK(g, a) /\ StaysOK(g, a)
  <2>1. a \in Nat /\ active'[g].xmin <= a
    BY <1>3, SpoolArt
  <2>2. ~IsRead(newsrc'[g], a)
    BY <1>2, <1>3, <1>4, <2>1, GrpMarkUnreadMarks DEF EntryOK
  <2>3. QED
    BY <2>2 DEF SilentOK, StaysOK, UserUnreads
<1>6. QED
  BY <1>4, <1>5, OthersKept

\* reread_active_after_posting() moves the window, not the marks.
LEMMA RereadAfterPostingMarks ==
  ASSUME Inv, NEW g \in Groups, RereadAfterPosting(g) PROVE MarksOK
<1>1. PICK info \in ArtInfo(g) :
        newsrc' = [newsrc EXCEPT ![g] =
                     Get1GrpArtInfo(active[g], WithInfo(active[g], info), @)]
  BY DEF RereadAfterPosting
<1> DEFINE grp == WithInfo(active[g], info)
           n == Get1GrpArtInfo(active[g], grp, newsrc[g])
<1>2. SoundNewsrc(newsrc[g], MaxArt) /\ active[g] \in GroupRecords
  BY DEF Inv, ActiveOK, BitmapsOK
<1>3. SoundGroup(grp, MaxArt)
  BY <1>2, ArtInfoOK DEF EntryOK
<1>4. newsrc' = [newsrc EXCEPT ![g] = n] /\ newsrc'[g] = n
  BY <1>1 DEF Inv, BitmapsOK
<1>5. ASSUME NEW a \in spool[g] PROVE SilentOK(g, a) /\ StaysOK(g, a)
  <2> HIDE DEF grp
  <2>1. a \in Nat
    BY SpoolArt
  <2>2. IsRead(n, a) <=> IsRead(newsrc[g], a)
    BY <1>2, <1>3, <2>1, Get1Marks
  <2>3. QED
    BY <1>4, <2>2, MarkKept
<1> HIDE DEF n
<1>6. QED
  BY <1>4, <1>5, OthersKept

-----------------------------------------------------------------------------
(* Saving and loading *)

\* Saving a subscribed group that has marks and loading it into an entry h.
\* Nothing is written of a group that the last answer called empty if its
\* bitmap ends at article 1; of a longer one the range 1-xmax.
LEMMA LoadedSaved ==
  ASSUME Inv, NEW nrc, BitmapsOK(nrc), NEW lines, LinesOK(lines), SubscriptionIn(lines),
         NEW g \in Groups, active[g].subscribed, nrc[g].present,
         NEW h, SoundGroup(h, MaxArt), NEW a \in Nat, 1 <= a, h.xmin <= a
  PROVE  LET read == IsRead(ParseBitmapSeq(h, WrittenFile(nrc, lines)[g].seq), a)
             written == active[g].count # 0 /\ active[g].xmin <= active[g].xmax
         IN  /\ written => (read <=> IsRead(nrc[g], a))
             /\ (written \/ nrc[g].xmax > 1) /\ IsRead(nrc[g], a) => read
<1> DEFINE written == active[g].count # 0 /\ active[g].xmin <= active[g].xmax
           n == nrc[g]
           seq == PrintBitmapSeq(active[g], n)
           read == IsRead(ParseBitmapSeq(h, seq), a)
<1>1. ActiveOK /\ MaxArt \in Nat /\ SoundNewsrc(n, MaxArt)
  BY SessionAssumption DEF Inv, BitmapsOK
<1>2. WrittenFile(nrc, lines)[g].seq = IF nrc[g].present THEN seq ELSE lines[g].seq
  BY <1>1, WrittenSub
<1>3. WrittenFile(nrc, lines)[g].seq = seq
  BY <1>2
<1>4. written <=> ~(active[g].count = 0 \/ active[g].xmin > active[g].xmax)
  BY <1>1 DEF ActiveOK, GroupRecords
<1>5. ~(a < h.xmin)
  BY DEF SoundGroup, GroupRecords
<1>6. /\ ~(active[g].count = 0 \/ active[g].xmin > active[g].xmax) =>
           (read <=> a < h.xmin \/ IsRead(n, a))
      /\ (active[g].count = 0 \/ active[g].xmin > active[g].xmax) /\ n.xmax > 1 =>
           (read <=> a < h.xmin \/ a <= n.xmax)
  BY <1>1, LoadedAsWritten
<1>7. IsRead(n, a) => a <= n.xmax
  BY <1>1 DEF IsRead, SoundNewsrc, NewsrcRecords
<1> HIDE DEF read, written
<1>8. /\ written => (read <=> IsRead(n, a))
      /\ (written \/ n.xmax > 1) /\ IsRead(n, a) => read
  BY <1>4, <1>5, <1>6, <1>7
<1>9. QED
  BY <1>3, <1>8 DEF read, written

\* What the records are after resync_active_file()
LEMMA ResyncNewsrc ==
  ASSUME Inv, NEW nrc, NEW lines, LinesOK(lines), SubscriptionIn(lines),
         Resync(nrc, lines), NEW g \in Groups
  PROVE  newsrc'[g] = IF active[g].subscribed
                      THEN ParseBitmapSeq(RereadActive(g), WrittenFile(nrc, lines)[g].seq)
                      ELSE nrc[g]
<1>1. active[g].subscribed <=> file'[g].listed /\ file'[g].sub
  BY WrittenSub DEF Inv, Resync
<1>2. QED
  BY <1>1 DEF Resync, LoadNewsrc

\* resync_active_file() writes the marks and reads them again.
LEMMA ResyncActiveMarks ==
  ASSUME Inv, SubscriptionSaved, ResyncActive PROVE MarksOK
<1>1. SUFFICES ASSUME NEW g \in Groups, NEW a \in spool[g] PROVE SilentOK(g, a) /\ StaysOK(g, a)
  BY DEF MarksOK
<1>2. LinesOK(file) /\ SubscriptionIn(file) /\ BitmapsOK(newsrc) /\ Resync(newsrc, file)
  BY DEF Inv, SubscriptionSaved, SubscriptionIn, ResyncActive
<1> DEFINE h == RereadActive(g)
           seq == WrittenFile(newsrc, file)[g].seq
<1>3. newsrc'[g] = IF active[g].subscribed THEN ParseBitmapSeq(h, seq) ELSE newsrc[g]
  BY <1>2, ResyncNewsrc
<1>4. /\ SoundGroup(h, MaxArt) /\ a \in Nat /\ 1 <= a /\ h.xmin <= a
  BY RereadOK, SpoolArt DEF EntryOK
<1> HIDE DEF h
<1>5. CASE ~active[g].subscribed
  BY <1>3, <1>5, MarkKept
<1>6. CASE active[g].subscribed /\ newsrc[g].present
  <2>1. /\ MarksWritten(g) => (IsRead(ParseBitmapSeq(h, seq), a) <=> IsRead(newsrc[g], a))
        /\ (MarksWritten(g) \/ newsrc[g].xmax > 1) /\ IsRead(newsrc[g], a)
             => IsRead(ParseBitmapSeq(h, seq), a)
    BY <1>2, <1>4, <1>6, LoadedSaved DEF MarksWritten
  <2>2. newsrc[g].xmax \in Nat
    BY <1>2 DEF BitmapsOK, NewsrcRecords
  <2> HIDE DEF seq
  <2>3. ~FirstArticleForgotten(g) => MarksWritten(g) \/ newsrc[g].xmax > 1
    BY <2>2 DEF FirstArticleForgotten
  <2>4. QED
    BY <1>3, <1>6, <2>1, <2>3 DEF SilentOK, StaysOK, Reappears
<1>7. CASE ~newsrc[g].present
  BY <1>7 DEF SilentOK, StaysOK, MarksWritten
<1>8. QED
  BY <1>5, <1>6, <1>7

\* A group without a bitmap has no article of the server read.
LEMMA DefaultMarks ==
  ASSUME NEW grp, SoundGroup(grp, MaxArt), NEW a \in Nat, grp.xmin <= a
  PROVE  ~IsRead(VSetDefaultBitmap(grp), a) /\ ~VSetDefaultBitmap(grp).present
BY DEF VSetDefaultBitmap, IsRead, SoundGroup, GroupRecords

\* 'R' empties the displayed groups and turns nothing into read.
ResetOK ==
  \A g \in Groups :
    active[g].subscribed /\ (ShowOnlyUnread => newsrc[g].num_unread # 0) =>
      \A a \in spool[g] : ~IsRead(newsrc'[g], a)

\* 'R': reset_newsrc() then resync_active_file()
LEMMA ResetNewsrcMarks ==
  ASSUME Inv, SubscriptionSaved, ResetNewsrc PROVE MarksOK /\ ResetOK
<1>1. PICK displayed \in SUBSET Groups :
        /\ \A g \in Groups : /\ active[g].subscribed
                             /\ ShowOnlyUnread => newsrc[g].num_unread # 0
                             => g \in displayed
        /\ Resync([g \in Groups |-> IF g \in displayed THEN VSetDefaultBitmap(active[g])
                                    ELSE newsrc[g]],
                  [g \in Groups |-> [file[g] EXCEPT !.seq = {}]])
  BY DEF ResetNewsrc
<1> DEFINE nrc == [g \in Groups |-> IF g \in displayed THEN VSetDefaultBitmap(active[g])
                                    ELSE newsrc[g]]
           lines == [g \in Groups |-> [file[g] EXCEPT !.seq = {}]]
<1>2. LinesOK(lines) /\ SubscriptionIn(lines)
  BY EmptiedLines
<1>3. BitmapsOK(newsrc) /\ ActiveOK /\ MaxArt \in Nat /\ LinesOK(file)
  BY SessionAssumption DEF Inv
<1>4. BitmapsOK(nrc)
  <2>1. ASSUME NEW g \in Groups PROVE SoundNewsrc(nrc[g], MaxArt)
    <3>1. SoundNewsrc(VSetDefaultBitmap(active[g]), MaxArt)
      BY <1>3, DefaultSound DEF ActiveOK, EntryOK
    <3>2. QED
      BY <1>3, <3>1 DEF BitmapsOK
  <2>2. nrc = [g \in Groups |-> nrc[g]]
    OBVIOUS
  <2> HIDE DEF nrc
  <2>3. QED
    BY <2>1, <2>2 DEF BitmapsOK, SoundNewsrc
<1>5. ASSUME NEW g \in Groups, NEW a \in spool[g]
      PROVE  /\ g \in displayed => ~IsRead(newsrc'[g], a)
             /\ MarksWritten(g) /\ IsRead(newsrc'[g], a) => IsRead(newsrc[g], a)
  <2> DEFINE h == RereadActive(g)
             seq == WrittenFile(nrc, lines)[g].seq
  <2>1. newsrc'[g] = IF active[g].subscribed THEN ParseBitmapSeq(h, seq) ELSE nrc[g]
    BY <1>1, <1>2, ResyncNewsrc
  <2>2. /\ SoundGroup(h, MaxArt) /\ a \in Nat /\ 1 <= a /\ h.xmin <= a
    BY RereadOK, SpoolArt DEF EntryOK
  <2>3. SoundGroup(active[g], MaxArt) /\ active[g].xmin <= a
    BY SpoolArt DEF Inv, ActiveOK, EntryOK
  <2>4. lines[g].seq = {}
    BY <1>3 DEF LinesOK, Lines
  <2> HIDE DEF h
  <2>5. ASSUME g \in displayed PROVE ~IsRead(newsrc'[g], a)
    <3>1. nrc[g] = VSetDefaultBitmap(active[g])
      BY <2>5
    <3>2. ~IsRead(nrc[g], a) /\ ~nrc[g].present
      BY <2>2, <2>3, <3>1, DefaultMarks
    <3> HIDE DEF nrc, lines
    <3>3. CASE active[g].subscribed
      <4>1. seq = IF nrc[g].present THEN PrintBitmapSeq(active[g], nrc[g]) ELSE lines[g].seq
        BY <1>2, <1>3, <3>3, WrittenSub
      <4>2. seq = {}
        BY <2>4, <3>2, <4>1
      <4>3. IsRead(ParseBitmapSeq(h, {}), a) <=> a < h.xmin
        BY <1>3, <2>2, LoadedEmpty
      <4>4. ~(a < h.xmin)
        BY <2>2 DEF SoundGroup, GroupRecords
      <4>5. QED
        BY <2>1, <3>3, <4>2, <4>3, <4>4
    <3>4. QED
      BY <2>1, <3>2, <3>3
  <2>6. ASSUME g \notin displayed, MarksWritten(g), IsRead(newsrc'[g], a)
        PROVE  IsRead(newsrc[g], a)
    <3>1. nrc[g] = newsrc[g] /\ nrc[g].present
      BY <2>6 DEF MarksWritten
    <3> HIDE DEF nrc, lines
    <3>2. CASE active[g].subscribed
      <4>1. MarksWritten(g) => (IsRead(ParseBitmapSeq(h, seq), a) <=> IsRead(nrc[g], a))
        BY <1>2, <1>4, <2>2, <3>1, <3>2, LoadedSaved DEF MarksWritten
      <4>2. QED
        BY <2>1, <2>6, <3>1, <3>2, <4>1
    <3>3. QED
      BY <2>1, <2>6, <3>1, <3>2
  <2>7. QED
    BY <2>5, <2>6
<1>6. MarksOK
  <2>1. ASSUME NEW g \in Groups, NEW a \in spool[g] PROVE SilentOK(g, a) /\ StaysOK(g, a)
    BY <1>5 DEF SilentOK, StaysOK, UserUnreads
  <2>2. QED
    BY <2>1 DEF MarksOK
<1>7. ResetOK
  BY <1>1, <1>5 DEF ResetOK
<1>8. QED
  BY <1>6, <1>7

\* tin_done(), and the next session
LEMMA QuitMarks ==
  ASSUME Inv, SubscriptionSaved, Quit PROVE MarksOK
<1>1. SUFFICES ASSUME NEW g \in Groups, NEW a \in spool[g] PROVE SilentOK(g, a) /\ StaysOK(g, a)
  BY DEF MarksOK
<1>2. LinesOK(file) /\ SubscriptionIn(file) /\ BitmapsOK(newsrc) /\ ActiveOK /\ ServerOK
  BY DEF Inv, SubscriptionSaved, SubscriptionIn
<1> DEFINE h == FreshActive(g)
           line == WrittenFile(newsrc, file)[g]
<1>3. newsrc'[g] = IF line.listed /\ line.sub THEN ParseBitmapSeq(h, line.seq)
                   ELSE VSetDefaultBitmap(h)
  BY DEF Quit, StartUp, LoadNewsrc
<1>4. active[g].subscribed <=> line.listed /\ line.sub
  BY <1>2, WrittenSub
<1>5. SoundGroup(h, MaxArt) /\ a \in Nat /\ 1 <= a /\ h.xmin <= a
  BY <1>2, FreshOK, SpoolArt DEF EntryOK
<1> HIDE DEF h
<1>6. CASE ~active[g].subscribed
  <2>1. ~IsRead(newsrc'[g], a)
    BY <1>3, <1>4, <1>5, <1>6, DefaultMarks
  <2>2. QED
    BY <1>6, <2>1 DEF SilentOK, StaysOK
<1>7. CASE active[g].subscribed /\ newsrc[g].present
  <2>1. /\ MarksWritten(g) => (IsRead(ParseBitmapSeq(h, line.seq), a) <=> IsRead(newsrc[g], a))
        /\ (MarksWritten(g) \/ newsrc[g].xmax > 1) /\ IsRead(newsrc[g], a)
             => IsRead(ParseBitmapSeq(h, line.seq), a)
    BY <1>2, <1>5, <1>7, LoadedSaved DEF MarksWritten
  <2>2. newsrc[g].xmax \in Nat
    BY <1>2 DEF BitmapsOK, NewsrcRecords
  <2> HIDE DEF line
  <2>3. ~FirstArticleForgotten(g) => MarksWritten(g) \/ newsrc[g].xmax > 1
    BY <2>2 DEF FirstArticleForgotten
  <2>4. QED
    BY <1>3, <1>4, <1>7, <2>1, <2>3 DEF SilentOK, StaysOK, Reappears
<1>8. CASE ~newsrc[g].present
  BY <1>8 DEF SilentOK, StaysOK, MarksWritten
<1>9. QED
  BY <1>6, <1>7, <1>8

-----------------------------------------------------------------------------
(* The marks follow the user *)

\* What every step does to every mark
LEMMA MarksNext ==
  ASSUME Inv, SubscriptionSaved, Screen, Next
  PROVE  MarksOK /\ (ResetNewsrc => ResetOK)
<1> SUFFICES MarksOK
  BY ResetNewsrcMarks
<1>1. ASSUME NEW S \in SUBSET DOMAIN arts, ReadArts(S) \/ MarkUnselectedRead(S) PROVE MarksOK
  <2>1. reading # NoGroup /\ S \subseteq DOMAIN arts /\ MarkArtsRead(S)
    BY <1>1 DEF ReadArts, MarkUnselectedRead
  <2>2. QED
    BY <2>1, MarkArtsReadMarks
<1>2. ASSUME NEW S \in SUBSET DOMAIN arts, UnreadArtsAgain(S) PROVE MarksOK
  BY <1>2, UnreadArtsAgainMarks
<1>3. CASE UndoAutoSelect
  BY <1>3, UndoAutoSelectMarks
<1>4. CASE CatchupGroup
  BY <1>4, CatchupGroupMarks
<1>5. ASSUME NEW g \in Groups, EnterGroup(g) \/ AbortEnter(g) \/ CatchupSelected(g)
      PROVE  MarksOK
  BY <1>5, EnterGroupMarks, AbortEnterMarks, CatchupSelectedMarks
<1>6. ASSUME NEW g \in Groups,
             MarkGroupUnread(g) \/ Subscribe(g) \/ SubscribePattern(g) \/ RereadAfterPosting(g)
      PROVE  MarksOK
  BY <1>6, MarkGroupUnreadMarks, SubscribeMarks, SubscribePatternMarks, RereadAfterPostingMarks
<1>7. CASE ResyncActive \/ ResetNewsrc \/ Quit
  BY <1>7, ResyncActiveMarks, ResetNewsrcMarks, QuitMarks
<1>8. CASE Die
  BY <1>8 DEF MarksOK, SilentOK, StaysOK
<1>9. CASE \/ LeaveGroup
           \/ \E g \in Groups : Unsubscribe(g)
           \/ \E g \in Groups : Arrive(g)
           \/ \E g \in Groups : \E a \in Arts : Expire(g, a)
  BY <1>9, AllKept DEF LeaveGroup, Unsubscribe, Arrive, Expire
<1>10. QED
  BY <1>1, <1>2, <1>3, <1>4, <1>5, <1>6, <1>7, <1>8, <1>9 DEF Next, Command

\* An article is marked read only by the user's reading it, catching up on it,
\* by its crosspost, by entering its group after it is gone, or by the death of
\* the process; a read one stays read through saving, loading, expiry and resync
\* until the user asks for it; 'R' forgets every mark of the groups on the page.
THEOREM MarksFollow == Spec => MarksFollowUser
<1> DEFINE IInv == Inv /\ SubscriptionSaved /\ Screen
<1>1. Init => IInv
  BY InitInv, SubInit, ScreenInit
<1>2. IInv /\ [Next]_vars => IInv'
  BY NextInv, SubNext, ScreenNext
<1>3. IInv /\ [Next]_vars =>
        [\A g \in Groups : \A a \in spool[g] :
           (MarksWritten(g) /\ ~IsRead(newsrc[g], a) /\ IsRead(newsrc'[g], a)) =>
             \/ UserReads(g, a) \/ Die
             \/ reading' = g /\ a \notin DOMAIN arts'
             \/ reading' # NoGroup /\ a \in CrossPosts(g, reading', Arts)]_vars
  BY MarksNext DEF MarksOK, SilentOK
<1>4. IInv /\ [Next]_vars =>
        [\A g \in Groups : \A a \in spool[g] :
           (/\ active[g].subscribed /\ newsrc[g].present
            /\ ~FirstArticleForgotten(g)
            /\ Reappears(g, a)) =>
             UserUnreads(g, a) \/ Die]_vars
  BY MarksNext DEF MarksOK, StaysOK
<1>5. IInv /\ [Next]_vars =>
        [ResetNewsrc =>
           \A g \in Groups :
             active[g].subscribed /\ (ShowOnlyUnread => newsrc[g].num_unread # 0) =>
               \A a \in spool[g] : ~IsRead(newsrc'[g], a)]_vars
  BY MarksNext DEF ResetOK
<1> HIDE DEF IInv
<1>6. Spec => NoSilentRead
  BY <1>1, <1>2, <1>3, PTL DEF Spec, NoSilentRead
<1>7. Spec => ReadStaysRead
  BY <1>1, <1>2, <1>4, PTL DEF Spec, ReadStaysRead
<1>8. Spec => ResetDestroysMarks
  BY <1>1, <1>2, <1>5, PTL DEF Spec, ResetDestroysMarks
<1>9. QED
  BY <1>6, <1>7, <1>8 DEF MarksFollowUser

-----------------------------------------------------------------------------
(* No window and no line ends above what the server has given out *)

LineUpTo(line, top) == line.seq \subseteq (1..top) \X (1..top)
Given == \A g \in Groups : newsrc[g].xmax <= high[g] /\ LineUpTo(file[g], high[g])

\* Then the records are sound for the numbers of the group itself.
LEMMA GivenSound ==
  ASSUME Inv, NEW g \in Groups
  PROVE  /\ high[g] \in Nat
         /\ \A n : SoundNewsrc(n, MaxArt) /\ n.xmax <= high[g] => SoundNewsrc(n, high[g])
         /\ \A grp : EntryOK(g, grp) => SoundGroup(grp, high[g])
BY DEF Inv, ServerOK, SoundNewsrc, EntryOK, SoundGroup

\* print_bitmap_seq()
LEMMA WrittenUpTo ==
  ASSUME Inv, NEW nrc, BitmapsOK(nrc), NEW lines, LinesOK(lines), NEW g \in Groups,
         nrc[g].xmax <= high[g], LineUpTo(lines[g], high[g])
  PROVE  LineUpTo(WrittenFile(nrc, lines)[g], high[g])
<1> DEFINE line == WrittenLine(g, nrc[g], lines[g])
<1>1. PrintBitmapSeq(active[g], nrc[g]) \subseteq (1..high[g]) \X (1..high[g])
  BY GivenSound, PrintType DEF BitmapsOK
<1>2. lines[g] \in Lines
  BY DEF LinesOK
<1>3. LineUpTo(line, high[g])
  BY <1>1, <1>2 DEF WrittenLine, LineUpTo, Lines
<1>4. WrittenFile(nrc, lines)[g] \in {line, lines[g]}
  BY DEF WrittenFile
<1>5. QED
  BY <1>3, <1>4

\* parse_bitmap_seq()
LEMMA ParsedUpTo ==
  ASSUME Inv, NEW g \in Groups, NEW grp, EntryOK(g, grp), NEW line, LineUpTo(line, high[g])
  PROVE  ParseBitmapSeq(grp, line.seq).xmax <= high[g]
<1>1. SoundNewsrc(ParseBitmapSeq(grp, line.seq), high[g])
  BY GivenSound, ParseSound DEF LineUpTo
<1>2. QED
  BY <1>1 DEF SoundNewsrc

\* vSetDefaultBitmap()
LEMMA DefaultUpTo ==
  ASSUME Inv, NEW g \in Groups, NEW grp, EntryOK(g, grp)
  PROVE  VSetDefaultBitmap(grp).xmax <= high[g]
<1>1. SoundGroup(grp, high[g]) /\ high[g] \in Nat
  BY GivenSound
<1>2. QED
  BY <1>1, DefaultSound DEF SoundNewsrc

\* grp_mark_read() and grp_mark_unread()
LEMMA ScrubUpTo ==
  ASSUME Inv, NEW g \in Groups, NEW grp, EntryOK(g, grp), NEW n, SoundNewsrc(n, MaxArt),
         n.xmax <= high[g]
  PROVE  ScrubBitmap(grp, n).xmax <= high[g] /\ GrpMarkUnread(grp, n).xmax <= high[g]
BY DEF ScrubBitmap, GrpMarkUnread, EntryOK, Larger

\* expand_bitmap() for an entry that the server has given
LEMMA ExpandUpTo ==
  ASSUME Inv, NEW g \in Groups, NEW grp, grp.xmax <= high[g], NEW n, n.xmax <= high[g],
         NEW min, NEW unset
  PROVE  ExpandBitmap(grp, n, min, unset).xmax <= high[g]
BY DEF ExpandBitmap, ExpandBitmapTo, Larger

\* vGet1GrpArtInfo()
LEMMA Get1UpTo ==
  ASSUME Inv, NEW g \in Groups, NEW grp, EntryOK(g, grp), NEW n, SoundNewsrc(n, MaxArt),
         n.xmax <= high[g], NEW old
  PROVE  Get1GrpArtInfo(old, grp, n).xmax <= high[g]
<1> DEFINE clamped == IF n.num_unread > grp.count
                      THEN [n EXCEPT !.num_unread = grp.count] ELSE n
<1>1. clamped.xmax = n.xmax
  BY DEF SoundNewsrc, NewsrcRecords
<1> HIDE DEF clamped
<1>2. ExpandBitmap(grp, clamped, 0, 0).xmax <= high[g]
  BY <1>1, ExpandUpTo DEF EntryOK
<1>3. Get1GrpArtInfo(old, grp, n) \in {ExpandBitmap(grp, clamped, 0, 0), clamped}
  BY DEF Get1GrpArtInfo, clamped
<1>4. QED
  BY <1>1, <1>2, <1>3

\* setup_hard_base() and the expansion to its articles
LEMMA BasedUpTo ==
  ASSUME Inv, Given, NEW g \in Groups, NEW base \in HardBase(g), NEW unset
  PROVE  BasedNewsrc(g, base, unset).xmax <= high[g]
<1>1. active[g] \in GroupRecords /\ active[g].xmax <= high[g] /\ high[g] \in Nat
  BY GivenSound DEF Inv, ActiveOK, EntryOK
<1>2. CASE base = {}
  BY <1>2 DEF BasedNewsrc, Given
<1>3. CASE base # {}
  <2>1. Highest(base) \in base /\ base \subseteq 1..high[g]
    BY <1>3, HardBaseType
  <2>2. Highest(base) \in 1..high[g]
    BY <2>1, Zenon
  <2>3. Based(g, base).xmax = Larger(active[g].xmax, Highest(base))
    BY <1>1, <1>3 DEF Based, GroupRecords
  <2>4. Based(g, base).xmax <= high[g]
    BY <1>1, <2>2, <2>3 DEF Larger
  <2>5. BasedNewsrc(g, base, unset) = ExpandBitmap(Based(g, base), newsrc[g], Lowest(base), unset)
    BY <1>3 DEF BasedNewsrc
  <2>6. QED
    BY <2>4, <2>5, ExpandUpTo DEF Given
<1>4. QED
  BY <1>2, <1>3

\* subscribe()
LEMMA SubscribedUpTo ==
  ASSUME Inv, Given, NEW g \in Groups, NEW s \in Subscribed(g)
  PROVE  s.nrc.xmax <= high[g] /\ LineUpTo(s.line, high[g])
<1>1. /\ active[g] \in GroupRecords /\ EntryOK(g, active[g]) /\ file[g] \in Lines
      /\ SoundNewsrc(newsrc[g], MaxArt)
  BY DEF Inv, ActiveOK, BitmapsOK, LinesOK
<1>2. CASE file[g].listed
  <2>1. s = [grp |-> [active[g] EXCEPT !.subscribed = TRUE],
             nrc |-> ParseBitmapSeq(active[g], file[g].seq),
             line |-> [file[g] EXCEPT !.sub = TRUE]]
    BY <1>2 DEF Subscribed
  <2>2. s.line.seq = file[g].seq
    BY <1>1, <2>1 DEF Lines
  <2>3. s.nrc = ParseBitmapSeq(active[g], file[g].seq)
    BY <2>1
  <2>4. ParseBitmapSeq(active[g], file[g].seq).xmax <= high[g]
    BY <1>1, ParsedUpTo DEF Given
  <2>5. QED
    BY <2>2, <2>3, <2>4 DEF Given, LineUpTo
<1>3. CASE ~file[g].listed
  <2>1. PICK info \in ArtInfo(g) :
          s = LET grp == WithInfo(active[g], info)
                  n   == Get1GrpArtInfo(active[g], grp, newsrc[g])
              IN  [grp |-> [grp EXCEPT !.subscribed = TRUE],
                   nrc |-> n,
                   line |-> [listed |-> TRUE, sub |-> TRUE, seq |-> PrintBitmapSeq(grp, n)]]
    BY <1>3 DEF Subscribed
  <2> DEFINE grp == WithInfo(active[g], info)
             n == Get1GrpArtInfo(active[g], grp, newsrc[g])
  <2>2. EntryOK(g, grp)
    BY <1>1, ArtInfoOK
  <2>3. SoundNewsrc(n, MaxArt)
    BY <1>1, <2>2, Get1Sound DEF EntryOK
  <2>4. n.xmax <= high[g]
    <3> HIDE DEF grp
    <3>1. QED
      BY <1>1, <2>2, Get1UpTo DEF Given
  <2>5. s.nrc = n /\ s.line.seq = PrintBitmapSeq(grp, n)
    BY <2>1
  <2> HIDE DEF grp, n
  <2>6. PrintBitmapSeq(grp, n) \subseteq (1..high[g]) \X (1..high[g])
    BY <2>3, <2>4, GivenSound, PrintType
  <2>7. QED
    BY <2>4, <2>5, <2>6 DEF LineUpTo
<1>4. QED
  BY <1>2, <1>3

\* A command on one bitmap that leaves the file alone
LEMMA OneGiven ==
  ASSUME Inv, Given, UNCHANGED <<high, file>>, NEW g \in Groups, NEW n,
         newsrc' = [newsrc EXCEPT ![g] = n], n.xmax <= high[g]
  PROVE  Given'
<1>1. \A h \in Groups : newsrc'[h] = IF h = g THEN n ELSE newsrc[h]
  BY DEF Inv, BitmapsOK
<1>2. QED
  BY <1>1 DEF Given

\* The same with its line
LEMMA OneLineGiven ==
  ASSUME Inv, Given, UNCHANGED high, NEW g \in Groups, NEW n, NEW line,
         newsrc' = [newsrc EXCEPT ![g] = n], n.xmax <= high[g],
         file' = [file EXCEPT ![g] = line], LineUpTo(line, high[g])
  PROVE  Given'
<1>1. \A h \in Groups : /\ newsrc'[h] = IF h = g THEN n ELSE newsrc[h]
                        /\ file'[h] = IF h = g THEN line ELSE file[h]
  BY DEF Inv, BitmapsOK, LinesOK
<1>2. QED
  BY <1>1 DEF Given

\* Commands that leave the windows as they are
LEMMA SameXmaxGiven ==
  ASSUME Given, UNCHANGED <<high, file>>, \A g \in Groups : newsrc'[g].xmax = newsrc[g].xmax
  PROVE  Given'
BY DEF Given

\* Reading, unreading and catchup in a group
LEMMA ReaderGiven ==
  ASSUME Inv, Given,
         \/ \E S \in SUBSET DOMAIN arts :
              ReadArts(S) \/ UnreadArtsAgain(S) \/ MarkUnselectedRead(S)
         \/ UndoAutoSelect \/ LeaveGroup \/ CatchupGroup
  PROVE  Given'
<1>0. BitmapsOK(newsrc) /\ (reading # NoGroup => reading \in Groups)
  BY DEF Inv, ArtsOK
<1>1. ASSUME NEW S \in SUBSET DOMAIN arts, ReadArts(S) \/ MarkUnselectedRead(S) PROVE Given'
  <2>1. /\ reading # NoGroup /\ MarkArtsRead(S) /\ UNCHANGED <<high, file>>
    BY <1>1 DEF ReadArts, MarkUnselectedRead
  <2>2. PICK unread, stray : newsrc' = MarkRead(newsrc, reading, S, unread, stray)
    BY <2>1 DEF MarkArtsRead
  <2>3. \A g \in Groups : newsrc'[g].xmax = newsrc[g].xmax
    BY <1>0, <2>1, <2>2, MarkReadBits
  <2>4. QED
    BY <2>1, <2>3, SameXmaxGiven
<1>2. ASSUME NEW S \in SUBSET DOMAIN arts, UnreadArtsAgain(S) PROVE Given'
  <2>1. /\ reading # NoGroup /\ UNCHANGED <<high, file>>
        /\ newsrc' = [newsrc EXCEPT
                        ![reading].num_unread = @ + Cardinality({a \in S : arts[a].status = ART_READ}),
                        ![reading].xbitmap = @ \cup S]
    BY <1>2 DEF UnreadArtsAgain
  <2>2. \A g \in Groups : newsrc'[g].xmax = newsrc[g].xmax
    BY <1>0, <2>1 DEF BitmapsOK, NewsrcRecords
  <2>3. QED
    BY <2>1, <2>2, SameXmaxGiven
<1>3. CASE UndoAutoSelect
  <2> DEFINE n == ArtMarkUnread(active[reading], newsrc[reading],
                                {a \in DOMAIN arts : arts[a].status = ART_READ /\ arts[a].zombie})
  <2>1. /\ reading \in Groups /\ UNCHANGED <<high, file>>
        /\ newsrc' = [newsrc EXCEPT ![reading] = n]
    BY <1>0, <1>3 DEF UndoAutoSelect
  <2>2. \A back : ArtMarkUnread(active[reading], newsrc[reading], back).xmax <= high[reading]
    <3> SUFFICES ASSUME NEW back
                 PROVE  ArtMarkUnread(active[reading], newsrc[reading], back).xmax <= high[reading]
      OBVIOUS
    <3> DEFINE m == [newsrc[reading] EXCEPT !.num_unread = newsrc[reading].num_unread + Cardinality(back)]
    <3>1. /\ m.xmax = newsrc[reading].xmax
          /\ [m EXCEPT !.xbitmap = m.xbitmap \cup back].xmax = newsrc[reading].xmax
      BY <1>0, <2>1 DEF BitmapsOK, NewsrcRecords
    <3>2. newsrc[reading].xmax <= high[reading] /\ active[reading].xmax <= high[reading]
      BY <2>1 DEF Given, Inv, ActiveOK, EntryOK
    <3> HIDE DEF m
    <3>3. ExpandBitmap(active[reading], m, Lowest(back), 0).xmax <= high[reading]
      BY <2>1, <3>1, <3>2, ExpandUpTo
    <3>4. QED
      BY <3>1, <3>2, <3>3 DEF ArtMarkUnread, m
  <2>3. n.xmax <= high[reading]
    BY <2>2
  <2> HIDE DEF n
  <2>4. QED
    BY <2>1, <2>3, OneGiven
<1>4. CASE LeaveGroup
  BY <1>4, SameXmaxGiven DEF LeaveGroup
<1>5. CASE CatchupGroup
  <2>1. PICK unread, stray :
          newsrc' = [MarkRead(newsrc, reading, DOMAIN arts, unread, stray)
                       EXCEPT ![reading] = ScrubBitmap(active[reading], @)]
    BY <1>5 DEF CatchupGroup
  <2> DEFINE done == MarkRead(newsrc, reading, DOMAIN arts, unread, stray)
  <2>2. reading \in Groups /\ UNCHANGED <<high, file>>
    BY <1>0, <1>5 DEF CatchupGroup
  <2>3. \A g \in Groups : done[g].xmax = newsrc[g].xmax
    BY <1>0, <2>2, MarkReadBits
  <2>4. DOMAIN done = Groups
    BY DEF MarkRead
  <2> HIDE DEF done
  <2>5. ASSUME NEW g \in Groups PROVE newsrc'[g].xmax <= high[g]
    <3>1. newsrc'[g] = IF g = reading THEN ScrubBitmap(active[g], done[g]) ELSE done[g]
      BY <2>1, <2>2, <2>4 DEF done
    <3>2. ScrubBitmap(active[g], done[g]).xmax = Larger(active[g].xmax, done[g].xmax)
      BY DEF ScrubBitmap
    <3>3. active[g].xmax <= high[g] /\ newsrc[g].xmax <= high[g]
      BY DEF Given, Inv, ActiveOK, EntryOK
    <3>4. QED
      BY <2>3, <3>1, <3>2, <3>3 DEF Larger
  <2>6. QED
    BY <2>2, <2>5 DEF Given
<1>6. QED
  BY <1>1, <1>2, <1>3, <1>4, <1>5

\* Entering a group or interrupting it
LEMMA EnterGiven ==
  ASSUME Inv, Given, NEW g \in Groups, EnterGroup(g) \/ AbortEnter(g)
  PROVE  Given'
<1>1. CASE EnterGroup(g)
  <2>1. PICK base, got, expired, stray : Entered(g, base, got, expired, stray)
    BY <1>1, EnterChoice
  <2> DEFINE p == Parsed(g, base, got, expired)
             all == ParsedAll(g, base, got, expired)
  <2>2. BitmapsOK(all)
    BY <2>1, EnteredTypes, Zenon
  <2>3. \A h \in Groups : newsrc'[h].xmax = all[h].xmax
    <3>1. newsrc' = MarkRead(all, g, expired, UnreadArts(BasedNewsrc(g, base, 0), expired), stray)
      BY <2>1 DEF Entered
    <3> HIDE DEF all
    <3>2. QED
      BY <2>2, <3>1, MarkReadBits
  <2>4. \A h \in Groups : all[h] = IF h = g THEN p ELSE newsrc[h]
    BY DEF ParsedAll, Inv, BitmapsOK
  <2>5. p.xmax = Larger(Indexed(g, base).xmax, BasedNewsrc(g, base, 0).xmax)
    BY DEF Parsed, ParseUnreadArts
  <2>6. base \in HardBase(g)
    BY <2>1 DEF Entered
  <2>7. Indexed(g, base).xmax <= high[g] /\ BasedNewsrc(g, base, 0).xmax <= high[g]
    BY <2>6, BasedOK, BasedUpTo DEF EntryOK
  <2> HIDE DEF p, all
  <2>8. p.xmax <= high[g]
    BY <2>5, <2>7 DEF Larger
  <2>9. UNCHANGED <<high, file>>
    BY <1>1 DEF EnterGroup
  <2>10. QED
    BY <2>3, <2>4, <2>8, <2>9 DEF Given
<1>2. CASE AbortEnter(g)
  <2>0. PICK base \in HardBase(g) :
          \E unset : newsrc' = [newsrc EXCEPT ![g] = BasedNewsrc(g, base, unset)]
    BY <1>2 DEF AbortEnter
  <2>1. PICK unset : newsrc' = [newsrc EXCEPT ![g] = BasedNewsrc(g, base, unset)]
    BY <2>0
  <2>2. BasedNewsrc(g, base, unset).xmax <= high[g]
    BY BasedUpTo
  <2>3. QED
    BY <1>2, <2>1, <2>2, OneGiven DEF AbortEnter
<1>3. QED
  BY <1>1, <1>2

\* The commands of the selection page on one group
LEMMA SelectionGiven ==
  ASSUME Inv, Given, NEW g \in Groups,
         \/ CatchupSelected(g) \/ MarkGroupUnread(g) \/ RereadAfterPosting(g)
         \/ Subscribe(g) \/ SubscribePattern(g) \/ Unsubscribe(g)
  PROVE  Given'
<1>0. /\ active[g] \in GroupRecords /\ EntryOK(g, active[g]) /\ file[g] \in Lines
      /\ SoundNewsrc(newsrc[g], MaxArt) /\ newsrc[g].xmax <= high[g]
      /\ LineUpTo(file[g], high[g]) /\ active \in [Groups -> GroupRecords]
      /\ newsrc \in [Groups -> NewsrcRecords]
  BY DEF Inv, ActiveOK, BitmapsOK, LinesOK, Given
<1>1. CASE CatchupSelected(g)
  BY <1>0, <1>1, ScrubUpTo, OneGiven DEF CatchupSelected
<1>2. CASE MarkGroupUnread(g)
  <2>1. PICK info \in ArtInfo(g) :
          /\ active' = [active EXCEPT ![g] = WithInfo(@, info)]
          /\ newsrc' = [newsrc EXCEPT ![g] = GrpMarkUnread(active'[g], @)]
    BY <1>2 DEF MarkGroupUnread
  <2>2. active'[g] = WithInfo(active[g], info) /\ EntryOK(g, active'[g])
    BY <1>0, <2>1, ArtInfoOK
  <2>3. newsrc' = [newsrc EXCEPT ![g] = GrpMarkUnread(active'[g], newsrc[g])]
    BY <2>1
  <2>4. GrpMarkUnread(active'[g], newsrc[g]).xmax <= high[g]
    BY <1>0, <2>2, ScrubUpTo
  <2>5. QED
    BY <1>2, <2>3, <2>4, OneGiven DEF MarkGroupUnread
<1>3. CASE RereadAfterPosting(g)
  <2>1. PICK info \in ArtInfo(g) :
          newsrc' = [newsrc EXCEPT ![g] =
                       Get1GrpArtInfo(active[g], WithInfo(active[g], info), newsrc[g])]
    BY <1>0, <1>3 DEF RereadAfterPosting
  <2>2. EntryOK(g, WithInfo(active[g], info))
    BY <1>0, ArtInfoOK
  <2>3. Get1GrpArtInfo(active[g], WithInfo(active[g], info), newsrc[g]).xmax <= high[g]
    BY <1>0, <2>2, Get1UpTo
  <2>4. QED
    BY <1>3, <2>1, <2>3, OneGiven DEF RereadAfterPosting
<1>4. CASE Subscribe(g)
  <2>1. PICK s \in Subscribed(g) : /\ newsrc' = [newsrc EXCEPT ![g] = s.nrc]
                                   /\ file' = [file EXCEPT ![g] = s.line]
    BY <1>4 DEF Subscribe
  <2>2. QED
    BY <1>4, <2>1, SubscribedUpTo, OneLineGiven DEF Subscribe
<1>5. CASE SubscribePattern(g)
  <2>1. PICK s \in Subscribed(g), info \in ArtInfo(g) :
          /\ active' = [active EXCEPT ![g] = WithInfo(s.grp, info)]
          /\ newsrc' = [newsrc EXCEPT ![g] = GrpMarkUnread(active'[g], s.nrc)]
          /\ file' = [file EXCEPT ![g] = s.line]
    BY <1>5 DEF SubscribePattern
  <2>2. s.grp \in GroupRecords /\ SoundNewsrc(s.nrc, MaxArt)
    BY SubscribedOK
  <2>3. active'[g] = WithInfo(s.grp, info) /\ EntryOK(g, active'[g])
    BY <1>0, <2>1, <2>2, ArtInfoOK
  <2>4. s.nrc.xmax <= high[g] /\ LineUpTo(s.line, high[g])
    BY SubscribedUpTo
  <2>5. GrpMarkUnread(active'[g], s.nrc).xmax <= high[g]
    BY <2>2, <2>3, <2>4, ScrubUpTo
  <2>6. QED
    BY <1>5, <2>1, <2>4, <2>5, OneLineGiven DEF SubscribePattern
<1>6. CASE Unsubscribe(g)
  <2>1. /\ UNCHANGED <<high, newsrc>>
        /\ file' = [file EXCEPT ![g] = [listed |-> TRUE, sub |-> FALSE,
                                        seq |-> IF @.listed THEN @.seq ELSE {}]]
    BY <1>6 DEF Unsubscribe
  <2>2. \A h \in Groups : file'[h].seq \subseteq file[h].seq
    BY <2>1 DEF Inv, LinesOK
  <2>3. QED
    BY <2>1, <2>2 DEF Given, LineUpTo
<1>7. QED
  BY <1>1, <1>2, <1>3, <1>4, <1>5, <1>6

\* read_newsrc()
LEMMA LoadUpTo ==
  ASSUME Inv, NEW act, \A g \in Groups : EntryOK(g, act[g]),
         NEW nrc, \A g \in Groups : nrc[g].xmax <= high[g],
         NEW lines, \A g \in Groups : LineUpTo(lines[g], high[g])
  PROVE  \A g \in Groups : LoadNewsrc(act, nrc, lines)[g].xmax <= high[g]
<1> SUFFICES ASSUME NEW g \in Groups PROVE LoadNewsrc(act, nrc, lines)[g].xmax <= high[g]
  OBVIOUS
<1>1. ParseBitmapSeq(act[g], lines[g].seq).xmax <= high[g]
  BY ParsedUpTo
<1>2. LoadNewsrc(act, nrc, lines)[g] \in {ParseBitmapSeq(act[g], lines[g].seq), nrc[g]}
  BY DEF LoadNewsrc
<1>3. QED
  BY <1>1, <1>2

\* resync_active_file()
LEMMA ResyncUpTo ==
  ASSUME Inv, NEW nrc, BitmapsOK(nrc), NEW lines, LinesOK(lines), Resync(nrc, lines),
         \A g \in Groups : nrc[g].xmax <= high[g] /\ LineUpTo(lines[g], high[g])
  PROVE  Given'
<1> DEFINE act == [g \in Groups |-> RereadActive(g)]
<1>1. \A g \in Groups : EntryOK(g, act[g])
  BY RereadOK
<1>2. file' = WrittenFile(nrc, lines) /\ newsrc' = LoadNewsrc(act, nrc, file') /\ high' = high
  BY DEF Resync
<1>3. \A g \in Groups : LineUpTo(file'[g], high[g])
  BY <1>2, WrittenUpTo
<1> HIDE DEF act
<1>4. \A g \in Groups : newsrc'[g].xmax <= high[g]
  BY <1>1, <1>2, <1>3, LoadUpTo
<1>5. QED
  BY <1>2, <1>3, <1>4 DEF Given

\* resync_active_file() and reset_newsrc()
LEMMA ResyncGiven ==
  ASSUME Inv, Given, ResyncActive \/ ResetNewsrc PROVE Given'
<1>1. CASE ResyncActive
  BY <1>1, ResyncUpTo DEF ResyncActive, Inv, Given
<1>2. CASE ResetNewsrc
  <2>1. PICK displayed \in SUBSET Groups :
          Resync([g \in Groups |-> IF g \in displayed THEN VSetDefaultBitmap(active[g])
                                   ELSE newsrc[g]],
                 [g \in Groups |-> [file[g] EXCEPT !.seq = {}]])
    BY <1>2 DEF ResetNewsrc
  <2> DEFINE nrc == [g \in Groups |-> IF g \in displayed THEN VSetDefaultBitmap(active[g])
                                      ELSE newsrc[g]]
             lines == [g \in Groups |-> [file[g] EXCEPT !.seq = {}]]
  <2>2. LinesOK(lines) /\ \A g \in Groups : LineUpTo(lines[g], high[g])
    <3>1. ASSUME NEW g \in Groups
          PROVE  [file[g] EXCEPT !.seq = {}] \in Lines /\ [file[g] EXCEPT !.seq = {}].seq = {}
      BY DEF Inv, LinesOK, Lines
    <3>2. QED
      BY <3>1 DEF LinesOK, LineUpTo
  <2>3. ASSUME NEW g \in Groups
        PROVE  SoundNewsrc(nrc[g], MaxArt) /\ nrc[g].xmax <= high[g]
    <3>1. /\ EntryOK(g, active[g]) /\ SoundNewsrc(newsrc[g], MaxArt)
          /\ newsrc[g].xmax <= high[g]
      BY DEF Inv, ActiveOK, BitmapsOK, Given
    <3>2. SoundNewsrc(VSetDefaultBitmap(active[g]), MaxArt)
      BY <3>1, DefaultSound, SessionAssumption DEF EntryOK
    <3>3. VSetDefaultBitmap(active[g]).xmax <= high[g]
      BY <3>1, DefaultUpTo
    <3>4. QED
      BY <3>1, <3>2, <3>3
  <2>4. nrc = [g \in Groups |-> nrc[g]]
    OBVIOUS
  <2>5. Resync(nrc, lines)
    BY <2>1
  <2> HIDE DEF nrc, lines
  <2>6. BitmapsOK(nrc)
    BY <2>3, <2>4 DEF BitmapsOK, SoundNewsrc
  <2>7. QED
    BY <2>2, <2>3, <2>5, <2>6, ResyncUpTo
<1>3. QED
  BY <1>1, <1>2

\* The records with which main() starts
LEMMA StartUpTo ==
  ASSUME Inv, NEW lines, \A g \in Groups : LineUpTo(lines[g], high[g])
  PROVE  LET act == [g \in Groups |-> FreshActive(g)]
             nrc == [g \in Groups |-> VSetDefaultBitmap(act[g])]
         IN  \A g \in Groups : LoadNewsrc(act, nrc, lines)[g].xmax <= high[g]
<1> DEFINE act == [g \in Groups |-> FreshActive(g)]
           nrc == [g \in Groups |-> VSetDefaultBitmap(act[g])]
<1>1. \A g \in Groups : EntryOK(g, act[g])
  BY FreshOK DEF Inv
<1>2. ASSUME NEW g \in Groups PROVE nrc[g].xmax <= high[g]
  <2>1. nrc[g] = VSetDefaultBitmap(act[g]) /\ EntryOK(g, act[g])
    BY <1>1
  <2> HIDE DEF nrc, act
  <2>2. QED
    BY <2>1, DefaultUpTo
<1> HIDE DEF nrc, act
<1>3. \A g \in Groups : LoadNewsrc(act, nrc, lines)[g].xmax <= high[g]
  BY <1>1, <1>2, LoadUpTo
<1>4. QED
  BY <1>3 DEF act, nrc

\* tin_done() and main(), with or without a save
LEMMA StartGiven ==
  ASSUME Inv, Given, Quit \/ Die PROVE Given'
<1>1. ASSUME NEW lines, StartUp(lines), \A g \in Groups : LineUpTo(lines[g], high[g])
      PROVE  Given'
  BY <1>1, StartUpTo DEF StartUp, Given
<1>2. \A g \in Groups : LineUpTo(WrittenFile(newsrc, file)[g], high[g])
  BY WrittenUpTo DEF Inv, Given
<1>3. QED
  BY <1>1, <1>2 DEF Quit, Die, Given

\* The server's numbers only grow.
LEMMA ServerGiven ==
  ASSUME Inv, Given, NEW g \in Groups, Arrive(g) \/ \E a \in Arts : Expire(g, a)
  PROVE  Given'
<1>1. newsrc' = newsrc /\ file' = file
  BY DEF Arrive, Expire
<1>2. \A h \in Groups : high[h] \in Nat /\ high'[h] \in Nat /\ high[h] <= high'[h]
  BY SessionAssumption DEF Arrive, Expire, Inv, ServerOK
<1>3. ASSUME NEW h \in Groups PROVE newsrc'[h].xmax <= high'[h] /\ LineUpTo(file'[h], high'[h])
  <2>1. newsrc[h].xmax \in Nat /\ newsrc[h].xmax <= high[h] /\ LineUpTo(file[h], high[h])
    BY DEF Given, Inv, BitmapsOK, NewsrcRecords
  <2>2. 1..high[h] \subseteq 1..high'[h]
    BY <1>2
  <2>3. QED
    BY <1>1, <1>2, <2>1, <2>2 DEF LineUpTo
<1>4. QED
  BY <1>3 DEF Given

\* No step gives a window or a line an article that the server has not given.
LEMMA GivenNext ==
  ASSUME Inv, Given, [Next]_vars PROVE Given'
<1>1. CASE UNCHANGED vars
  BY <1>1 DEF vars, Given
<1>2. QED
  BY <1>1, ReaderGiven, EnterGiven, SelectionGiven, ResyncGiven, StartGiven, ServerGiven
  DEF Next, Command

\* An earlier session has marked what there was.
LEMMA GivenInit == Init => Given
<1> SUFFICES ASSUME Init PROVE Given
  OBVIOUS
<1>1. Inv
  BY InitInv
<1>2. ASSUME NEW g \in Groups PROVE LineUpTo(file[g], high[g])
  <2>1. file[g] \in FirstLines(high[g])
    BY DEF Init
  <2>2. \A S \in SUBSET (1..high[g]) : Runs(S) \subseteq (1..high[g]) \X (1..high[g])
    BY DEF Runs
  <2>3. file[g].seq = {} \/ \E S \in SUBSET (1..high[g]) : file[g].seq = Runs(S)
    <3> DEFINE seqs == {Runs(S) : S \in SUBSET (1..high[g])}
    <3>1. \/ file[g] = [listed |-> FALSE, sub |-> FALSE, seq |-> {}]
          \/ file[g] \in [listed : {TRUE}, sub : BOOLEAN, seq : seqs]
      BY <2>1 DEF FirstLines
    <3> HIDE DEF seqs
    <3>2. \A l \in [listed : {TRUE}, sub : BOOLEAN, seq : seqs] : l.seq \in seqs
      OBVIOUS
    <3>3. [listed |-> FALSE, sub |-> FALSE, seq |-> {}].seq = {}
      OBVIOUS
    <3>4. file[g].seq = {} \/ file[g].seq \in seqs
      BY ONLY <3>1, <3>2, <3>3, Zenon
    <3>5. QED
      BY <3>4 DEF seqs
  <2>4. QED
    BY <2>2, <2>3 DEF LineUpTo
<1>3. \A g \in Groups : newsrc[g].xmax <= high[g]
  BY <1>1, <1>2, StartUpTo DEF Init
<1>4. QED
  BY <1>2, <1>3 DEF Given

-----------------------------------------------------------------------------
(* A group with an unread article never counts none: for articles that are *)
(* in one group only, and a server that answers GROUP.                     *)

OnePlace == \A g, h \in Groups : \A a, b \in Arts : <<h, b>> \in Xref[<<g, a>>] => h = g

\* The count of n, for the articles of S
CountOK(n, S) == n.num_unread \in Nat /\ (n.xbitmap \cap S # {} => n.num_unread # 0)
Counts == \A g \in Groups : CountOK(newsrc[g], spool[g])

\* The bits of a sound record are finite.
LEMMA BitsFinite ==
  ASSUME NEW n, SoundNewsrc(n, MaxArt)
  PROVE  n.xbitmap \subseteq Arts /\ IsFiniteSet(n.xbitmap) /\ Cardinality(n.xbitmap) \in Nat
<1>1. n.xbitmap \subseteq Arts
  BY SessionAssumption DEF SoundNewsrc, NewsrcRecords, Arts
<1>2. QED
  BY <1>1, ArtsFinite

\* A count that is not below the number of bits is good for every set.
LEMMA EnoughCounted ==
  ASSUME NEW n, SoundNewsrc(n, MaxArt), Cardinality(n.xbitmap) <= n.num_unread, NEW S
  PROVE  CountOK(n, S)
<1>1. /\ n.num_unread \in Int /\ IsFiniteSet(n.xbitmap) /\ Cardinality(n.xbitmap) \in Nat
  BY BitsFinite DEF SoundNewsrc, NewsrcRecords
<1>2. n.xbitmap # {} => Cardinality(n.xbitmap) # 0
  BY <1>1, FS_EmptySet
<1>3. QED
  BY <1>1, <1>2 DEF CountOK

\* So is an exact one.
LEMMA ExactlyCounted ==
  ASSUME NEW n, SoundNewsrc(n, MaxArt), Counted(n), NEW S
  PROVE  CountOK(n, S)
<1>1. Cardinality(n.xbitmap) <= n.num_unread
  BY BitsFinite DEF Counted
<1>2. QED
  BY <1>1, EnoughCounted

\* A record without bits
LEMMA NoneCounted ==
  ASSUME NEW n, n.num_unread = 0, n.xbitmap = {}, NEW S
  PROVE  CountOK(n, S)
BY DEF CountOK

\* parse_bitmap_seq()
LEMMA ParsedCount ==
  ASSUME NEW grp, SoundGroup(grp, MaxArt), NEW line \in Lines, NEW S
  PROVE  CountOK(ParseBitmapSeq(grp, line.seq), S)
<1> DEFINE n == ParseBitmapSeq(grp, line.seq)
<1>1. MaxArt \in Nat /\ line.seq \subseteq (1..MaxArt) \X (1..MaxArt)
  BY SessionAssumption DEF Lines, Arts
<1>2. SoundNewsrc(n, MaxArt)
  BY <1>1, ParseSound
<1>3. Cardinality(n.xbitmap) <= n.num_unread
  BY <1>1, ParseCounts
<1> HIDE DEF n
<1>4. CountOK(n, S)
  BY <1>2, <1>3, EnoughCounted
<1>5. QED
  BY <1>4 DEF n

\* expand_bitmap() of a record and an entry that fit
LEMMA ExpandedCount ==
  ASSUME NEW grp, SoundGroup(grp, MaxArt), NEW n, SoundNewsrc(n, MaxArt), NEW S, CountOK(n, S),
         NEW min \in Nat, min <= Larger(n.xmax, grp.xmax), NEW unset \in UnsetBits(grp, n, min)
  PROVE  CountOK(ExpandBitmap(grp, n, min, unset), S)
<1> DEFINE e == ExpandBitmap(grp, n, min, unset)
<1>1. /\ e.num_unread \in Nat
      /\ e.xmax # n.xmax => e.num_unread # 0
      /\ e.xmax = n.xmax => /\ e.xbitmap \subseteq n.xbitmap
                            /\ e.num_unread = n.num_unread
  BY SessionAssumption, ExpandCounts DEF CountOK
<1> HIDE DEF e
<1>2. CountOK(e, S)
  BY <1>1 DEF CountOK
<1>3. QED
  BY <1>2 DEF e

\* vGet1GrpArtInfo(), when the server has at most as many articles as it says
LEMMA Get1Count ==
  ASSUME NEW grp, SoundGroup(grp, MaxArt), NEW n, SoundNewsrc(n, MaxArt),
         NEW S, CountOK(n, S), grp.count \in Nat, S # {} => grp.count # 0, NEW old
  PROVE  CountOK(Get1GrpArtInfo(old, grp, n), S)
<1> DEFINE less == [n EXCEPT !.num_unread = grp.count]
           clamped == IF n.num_unread > grp.count THEN less ELSE n
<1>1. n \in NewsrcRecords
  BY DEF SoundNewsrc
<1>2. /\ less \in NewsrcRecords /\ less.num_unread = grp.count /\ less.xbitmap = n.xbitmap
      /\ less.xmin = n.xmin /\ less.xmax = n.xmax /\ less.xbitlen = n.xbitlen
  BY <1>1 DEF NewsrcRecords
<1> HIDE DEF less
<1>3. SoundNewsrc(less, MaxArt) /\ CountOK(less, S)
  <2>1. SoundNewsrc(less, MaxArt)
    BY <1>2 DEF SoundNewsrc
  <2>2. less.num_unread \in Nat
    BY <1>2
  <2>3. less.xbitmap \cap S # {} => less.num_unread # 0
    BY <1>2
  <2>4. QED
    BY <2>1, <2>2, <2>3 DEF CountOK
<1>4. SoundNewsrc(clamped, MaxArt) /\ CountOK(clamped, S)
  BY <1>3
<1> HIDE DEF clamped
<1>5. 0 <= Larger(clamped.xmax, grp.xmax)
  BY <1>4 DEF SoundNewsrc, NewsrcRecords, SoundGroup, GroupRecords, Larger
<1>6. 0 \in UnsetBits(grp, clamped, 0)
  <2>1. clamped.xmax \in Nat /\ clamped.xmin \in Nat
    BY <1>4 DEF SoundNewsrc, NewsrcRecords
  <2>2. QED
    BY <2>1 DEF UnsetBits, Unset, Larger
<1>7. CountOK(ExpandBitmap(grp, clamped, 0, 0), S)
  BY <1>4, <1>5, <1>6, ExpandedCount
<1>8. Get1GrpArtInfo(old, grp, n) \in {ExpandBitmap(grp, clamped, 0, 0), clamped}
  BY DEF Get1GrpArtInfo, clamped, less
<1>9. QED
  BY <1>4, <1>7, <1>8

\* GROUP never counts fewer articles than the server has.
LEMMA InfoCount ==
  ASSUME Inv, ~GroupMayFail, NEW g \in Groups, NEW info \in ArtInfo(g), NEW grp \in GroupRecords
  PROVE  /\ WithInfo(grp, info).count \in Nat
         /\ spool[g] # {} => WithInfo(grp, info).count # 0
<1>1. /\ high[g] \in Nat /\ ServerMin(g) \in Nat /\ ServerMin(g) <= high[g] + 1
      /\ IsFiniteSet(spool[g]) /\ Cardinality(spool[g]) \in Nat
      /\ spool[g] # {} => ServerMin(g) <= high[g]
  BY ServerMinType DEF Inv
<1>2. info \in GroupReplies(g)
  BY DEF ArtInfo
<1>3. info.count = Cardinality(spool[g]) \/ info.count = high[g] - ServerMin(g) + 1
  BY <1>2 DEF GroupReplies
<1>4. spool[g] # {} => Cardinality(spool[g]) # 0
  BY <1>1, FS_EmptySet
<1>5. WithInfo(grp, info).count = info.count
  BY DEF WithInfo, GroupRecords
<1>6. QED
  BY <1>1, <1>3, <1>4, <1>5

\* subscribe()
LEMMA SubscribedCount ==
  ASSUME Inv, ~GroupMayFail, Counts, NEW g \in Groups, NEW s \in Subscribed(g)
  PROVE  CountOK(s.nrc, spool[g])
<1>1. /\ active[g] \in GroupRecords /\ SoundGroup(active[g], MaxArt) /\ file[g] \in Lines
      /\ SoundNewsrc(newsrc[g], MaxArt) /\ CountOK(newsrc[g], spool[g])
  BY DEF Inv, ActiveOK, EntryOK, BitmapsOK, LinesOK, Counts
<1>2. CASE file[g].listed
  <2>1. s = [grp |-> [active[g] EXCEPT !.subscribed = TRUE],
             nrc |-> ParseBitmapSeq(active[g], file[g].seq),
             line |-> [file[g] EXCEPT !.sub = TRUE]]
    BY <1>2 DEF Subscribed
  <2>2. s.nrc = ParseBitmapSeq(active[g], file[g].seq)
    BY <2>1
  <2>3. QED
    BY <1>1, <2>2, ParsedCount
<1>3. CASE ~file[g].listed
  <2>1. PICK info \in ArtInfo(g) :
          s = LET grp == WithInfo(active[g], info)
                  n   == Get1GrpArtInfo(active[g], grp, newsrc[g])
              IN  [grp |-> [grp EXCEPT !.subscribed = TRUE],
                   nrc |-> n,
                   line |-> [listed |-> TRUE, sub |-> TRUE, seq |-> PrintBitmapSeq(grp, n)]]
    BY <1>3 DEF Subscribed
  <2> DEFINE grp == WithInfo(active[g], info)
  <2>2. s.nrc = Get1GrpArtInfo(active[g], grp, newsrc[g])
    BY <2>1
  <2>3. SoundGroup(grp, MaxArt)
    BY <1>1, ArtInfoOK DEF EntryOK
  <2>4. grp.count \in Nat /\ (spool[g] # {} => grp.count # 0)
    BY <1>1, InfoCount
  <2> HIDE DEF grp
  <2>5. QED
    BY <1>1, <2>2, <2>3, <2>4, Get1Count
<1>4. QED
  BY <1>2, <1>3

\* A command on one bitmap
LEMMA OneCount ==
  ASSUME Inv, Counts, NEW g \in Groups, NEW n, newsrc' = [newsrc EXCEPT ![g] = n],
         CountOK(n, spool[g]), spool' = spool
  PROVE  Counts'
<1>1. \A h \in Groups : newsrc'[h] = IF h = g THEN n ELSE newsrc[h]
  BY DEF Inv, BitmapsOK
<1>2. QED
  BY <1>1 DEF Counts

\* art_mark_read() touches no other group.
LEMMA MarkReadAlone ==
  ASSUME OnePlace, NEW nrc, BitmapsOK(nrc), NEW g \in Groups, NEW marked,
         NEW unread, unread \subseteq Arts, NEW stray,
         stray \subseteq BehindBitmap(nrc, g, unread),
         NEW h \in Groups, h # g
  PROVE  MarkRead(nrc, g, marked, unread, stray)[h] = nrc[h]
<1> DEFINE hit == LookedUp(h, nrc[h], g, unread) \cap nrc[h].xbitmap
           strays == {p \in stray : p[1] = h}
           k == Cardinality(hit) + Cardinality(strays)
<1>1. CrossPosts(h, g, unread) = {}
  BY DEF OnePlace, CrossPosts
<1>2. LookedUp(h, nrc[h], g, unread) = {}
  BY <1>1 DEF LookedUp
<1>3. hit = {}
  BY <1>2
<1>4. strays = {}
  <2>1. ASSUME NEW p \in stray, p[1] = h PROVE FALSE
    BY <1>2, <2>1 DEF BehindBitmap
  <2>2. QED
    BY <2>1
<1>5. k = 0
  <2> HIDE DEF hit, strays
  <2>1. Cardinality(hit) = 0 /\ Cardinality(strays) = 0
    BY <1>3, <1>4, FS_EmptySet
  <2>2. QED
    BY <2>1
<1>6. nrc[h] \in NewsrcRecords
  BY DEF BitmapsOK
<1>7. MarkRead(nrc, g, marked, unread, stray)[h] =
        [nrc[h] EXCEPT !.xbitmap = @ \ hit, !.num_unread = CountDownPositive(@, k)]
  BY DEF MarkRead
<1> HIDE DEF hit, k
<1>8. CountDownPositive(nrc[h].num_unread, k) = nrc[h].num_unread
  BY <1>5, <1>6 DEF CountDownPositive, Larger, NewsrcRecords
<1>9. nrc[h].xbitmap \ hit = nrc[h].xbitmap
  BY <1>3
<1>10. QED
  BY <1>6, <1>7, <1>8, <1>9 DEF NewsrcRecords

\* The group being read is counted exactly.
LEMMA ReadingCount ==
  ASSUME Inv', Screen', reading' # NoGroup, NEW S
  PROVE  CountOK(newsrc'[reading'], S)
<1>1. SoundNewsrc(newsrc'[reading'], MaxArt)
  BY DEF Inv, ArtsOK, BitmapsOK
<1>2. Counted(newsrc'[reading'])
  BY DEF Screen, StatusIsBitmap, Counted
<1>3. QED
  BY <1>1, <1>2, ExactlyCounted

\* Reading, unreading and catchup in a group
LEMMA ReaderCount ==
  ASSUME Inv, Inv', Screen', OnePlace, Counts,
         \/ \E S \in SUBSET DOMAIN arts :
              ReadArts(S) \/ UnreadArtsAgain(S) \/ MarkUnselectedRead(S)
         \/ UndoAutoSelect \/ LeaveGroup \/ CatchupGroup
  PROVE  Counts'
<1>0. /\ BitmapsOK(newsrc) /\ (reading # NoGroup => reading \in Groups) /\ DOMAIN arts \subseteq Arts
  BY DEF Inv, ArtsOK
<1>1. ASSUME spool' = spool, reading' = reading, reading # NoGroup,
             \A h \in Groups \ {reading} : newsrc'[h] = newsrc[h]
      PROVE  Counts'
  <2>1. ASSUME NEW h \in Groups PROVE CountOK(newsrc'[h], spool'[h])
    <3>1. CASE h = reading
      BY <1>1, <3>1, ReadingCount
    <3>2. CASE h # reading
      BY <1>1, <3>2 DEF Counts
    <3>3. QED
      BY <3>1, <3>2
  <2>2. QED
    BY <2>1 DEF Counts
<1>2. ASSUME NEW S \in SUBSET DOMAIN arts, ReadArts(S) \/ MarkUnselectedRead(S) PROVE Counts'
  <2>1. /\ reading # NoGroup /\ MarkArtsRead(S) /\ spool' = spool /\ reading' = reading
    BY <1>2 DEF ReadArts, MarkUnselectedRead
  <2> DEFINE unread == {a \in S : Unread(a)}
  <2>2. PICK stray \in SUBSET BehindBitmap(newsrc, reading, unread) :
          newsrc' = MarkRead(newsrc, reading, S, unread, stray)
    BY <2>1 DEF MarkArtsRead
  <2>3. unread \subseteq Arts /\ reading \in Groups
    BY <1>0, <2>1
  <2> HIDE DEF unread
  <2>4. \A h \in Groups \ {reading} : newsrc'[h] = newsrc[h]
    BY <1>0, <2>2, <2>3, MarkReadAlone
  <2>5. QED
    BY <1>1, <2>1, <2>4
<1>3. ASSUME NEW S \in SUBSET DOMAIN arts, UnreadArtsAgain(S) PROVE Counts'
  <2>1. /\ reading # NoGroup /\ spool' = spool /\ reading' = reading
        /\ newsrc' = [newsrc EXCEPT
                        ![reading].num_unread = @ + Cardinality({a \in S : arts[a].status = ART_READ}),
                        ![reading].xbitmap = @ \cup S]
    BY <1>3 DEF UnreadArtsAgain
  <2>2. \A h \in Groups \ {reading} : newsrc'[h] = newsrc[h]
    BY <1>0, <2>1 DEF BitmapsOK
  <2>3. QED
    BY <1>1, <2>1, <2>2
<1>4. CASE UndoAutoSelect
  <2>1. /\ reading # NoGroup /\ spool' = spool /\ reading' = reading
        /\ \E n : newsrc' = [newsrc EXCEPT ![reading] = n]
    BY <1>4 DEF UndoAutoSelect
  <2>2. \A h \in Groups \ {reading} : newsrc'[h] = newsrc[h]
    BY <1>0, <2>1 DEF BitmapsOK
  <2>3. QED
    BY <1>1, <2>1, <2>2
<1>5. CASE LeaveGroup
  BY <1>5 DEF LeaveGroup, Counts
<1>6. CASE CatchupGroup
  <2> DEFINE unread == {a \in DOMAIN arts : Unread(a)}
  <2>1. PICK stray \in SUBSET BehindBitmap(newsrc, reading, unread) :
          newsrc' = [MarkRead(newsrc, reading, DOMAIN arts, unread, stray)
                       EXCEPT ![reading] = ScrubBitmap(active[reading], @)]
    BY <1>6 DEF CatchupGroup
  <2> DEFINE done == MarkRead(newsrc, reading, DOMAIN arts, unread, stray)
  <2>2. reading \in Groups /\ spool' = spool /\ unread \subseteq Arts
    BY <1>0, <1>6 DEF CatchupGroup
  <2> HIDE DEF unread
  <2>3. \A g \in Groups \ {reading} : done[g] = newsrc[g]
    BY <1>0, <2>2, MarkReadAlone
  <2>4. DOMAIN done = Groups
    BY DEF MarkRead
  <2> HIDE DEF done
  <2>5. newsrc'[reading] = ScrubBitmap(active[reading], done[reading])
        /\ \A g \in Groups \ {reading} : newsrc'[g] = newsrc[g]
    BY <2>1, <2>2, <2>3, <2>4 DEF done
  <2>6. CountOK(newsrc'[reading], spool[reading])
    <3>1. /\ ScrubBitmap(active[reading], done[reading]).num_unread = 0
          /\ ScrubBitmap(active[reading], done[reading]).xbitmap = {}
      BY DEF ScrubBitmap
    <3>2. QED
      BY <2>5, <3>1, NoneCounted
  <2>7. QED
    BY <2>2, <2>5, <2>6 DEF Counts
<1>7. QED
  BY <1>2, <1>3, <1>4, <1>5, <1>6

\* Entering a group
LEMMA EnterCount ==
  ASSUME Inv, Inv', Screen', OnePlace, Counts, NEW g \in Groups, EnterGroup(g)
  PROVE  Counts'
<1>1. PICK base, got, expired, stray : Entered(g, base, got, expired, stray)
  BY EnterChoice
<1> DEFINE all == ParsedAll(g, base, got, expired)
           gone == UnreadArts(BasedNewsrc(g, base, 0), expired)
<1>2. /\ stray \in SUBSET BehindBitmap(all, g, gone)
      /\ newsrc' = MarkRead(all, g, expired, gone, stray) /\ reading' = g
  BY <1>1 DEF Entered
<1>3. BitmapsOK(all) /\ expired \subseteq Arts
  BY <1>1, EnteredTypes, Zenon
<1>4. gone \subseteq Arts
  BY <1>3 DEF UnreadArts
<1>5. \A h \in Groups \ {g} : all[h] = newsrc[h]
  BY DEF ParsedAll, Inv, BitmapsOK
<1>6. spool' = spool /\ g # NoGroup
  BY SessionAssumption DEF EnterGroup
<1> HIDE DEF all, gone
<1>7. \A h \in Groups \ {g} : newsrc'[h] = all[h]
  BY <1>2, <1>3, <1>4, MarkReadAlone
<1>8. ASSUME NEW h \in Groups PROVE CountOK(newsrc'[h], spool'[h])
  <2>1. CASE h = g
    BY <1>2, <1>6, <2>1, ReadingCount
  <2>2. CASE h # g
    BY <1>5, <1>6, <1>7, <2>2 DEF Counts
  <2>3. QED
    BY <2>1, <2>2
<1>9. QED
  BY <1>8 DEF Counts

\* Interrupting it
LEMMA AbortCount ==
  ASSUME Inv, Counts, NEW g \in Groups, AbortEnter(g)
  PROVE  Counts'
<1>0. PICK base \in HardBase(g) :
        \E unset \in UnsetBits(Based(g, base), newsrc[g], IF base = {} THEN 0 ELSE Lowest(base)) :
          newsrc' = [newsrc EXCEPT ![g] = BasedNewsrc(g, base, unset)]
  BY DEF AbortEnter
<1>1. PICK unset \in UnsetBits(Based(g, base), newsrc[g], IF base = {} THEN 0 ELSE Lowest(base)) :
        newsrc' = [newsrc EXCEPT ![g] = BasedNewsrc(g, base, unset)]
  BY <1>0
<1>2. SoundNewsrc(newsrc[g], MaxArt) /\ CountOK(newsrc[g], spool[g]) /\ spool' = spool
  BY DEF Inv, BitmapsOK, Counts, AbortEnter
<1>3. CASE base = {}
  BY <1>1, <1>2, <1>3, OneCount DEF BasedNewsrc
<1>4. CASE base # {}
  <2> DEFINE min == Lowest(base)
             b == Based(g, base)
  <2>1. SoundGroup(b, MaxArt)
    BY <1>4, BasedSound
  <2>2. /\ base \subseteq Arts /\ min \in base /\ Highest(base) \in base
        /\ \A y \in base : y <= Highest(base)
    BY <1>4, HardBaseType
  <2>3. min \in Arts /\ Highest(base) \in Arts /\ min <= Highest(base)
    BY <2>2, Zenon
  <2>4. b.xmax = Larger(active[g].xmax, Highest(base)) /\ active[g].xmax \in Nat
    BY <1>4 DEF Based, GroupRecords, Inv, ActiveOK
  <2>5. BasedNewsrc(g, base, unset) = ExpandBitmap(b, newsrc[g], min, unset)
    BY <1>4 DEF BasedNewsrc
  <2>6. unset \in UnsetBits(b, newsrc[g], min)
    BY <1>1, <1>4
  <2> HIDE DEF min, b
  <2>7. min \in Nat /\ min <= Larger(newsrc[g].xmax, b.xmax)
    BY <1>2, <2>3, <2>4 DEF Arts, Larger, SoundNewsrc, NewsrcRecords
  <2>8. CountOK(ExpandBitmap(b, newsrc[g], min, unset), spool[g])
    BY <1>2, <2>1, <2>6, <2>7, ExpandedCount
  <2>9. QED
    BY <1>1, <1>2, <2>5, <2>8, OneCount
<1>5. QED
  BY <1>3, <1>4

\* grp_mark_unread() takes the count of the server.
LEMMA UnreadCount ==
  ASSUME NEW grp, NEW n, NEW S, grp.count \in Nat, S # {} => grp.count # 0
  PROVE  CountOK(GrpMarkUnread(grp, n), S)
<1>1. GrpMarkUnread(grp, n).num_unread = grp.count
  BY DEF GrpMarkUnread
<1>2. QED
  BY <1>1 DEF CountOK

\* The commands of the selection page on one group
LEMMA SelectionCount ==
  ASSUME Inv, ~GroupMayFail, Counts, NEW g \in Groups,
         \/ CatchupSelected(g) \/ MarkGroupUnread(g) \/ RereadAfterPosting(g)
         \/ Subscribe(g) \/ SubscribePattern(g) \/ Unsubscribe(g)
  PROVE  Counts'
<1>0. /\ active[g] \in GroupRecords /\ active \in [Groups -> GroupRecords]
      /\ SoundNewsrc(newsrc[g], MaxArt) /\ CountOK(newsrc[g], spool[g])
  BY DEF Inv, ActiveOK, BitmapsOK, Counts
<1>1. CASE CatchupSelected(g)
  <2>1. /\ ScrubBitmap(active[g], newsrc[g]).num_unread = 0
        /\ ScrubBitmap(active[g], newsrc[g]).xbitmap = {}
    BY DEF ScrubBitmap
  <2>2. CountOK(ScrubBitmap(active[g], newsrc[g]), spool[g])
    BY <2>1, NoneCounted
  <2>3. QED
    BY <1>1, <2>2, OneCount DEF CatchupSelected
<1>2. CASE MarkGroupUnread(g)
  <2>1. PICK info \in ArtInfo(g) :
          /\ active' = [active EXCEPT ![g] = WithInfo(@, info)]
          /\ newsrc' = [newsrc EXCEPT ![g] = GrpMarkUnread(active'[g], @)]
    BY <1>2 DEF MarkGroupUnread
  <2>2. active'[g] = WithInfo(active[g], info)
    BY <1>0, <2>1
  <2>3. newsrc' = [newsrc EXCEPT ![g] = GrpMarkUnread(active'[g], newsrc[g])]
    BY <2>1
  <2>4. CountOK(GrpMarkUnread(active'[g], newsrc[g]), spool[g])
    BY <1>0, <2>2, InfoCount, UnreadCount
  <2>5. QED
    BY <1>2, <2>3, <2>4, OneCount DEF MarkGroupUnread
<1>3. CASE RereadAfterPosting(g)
  <2>1. PICK info \in ArtInfo(g) :
          newsrc' = [newsrc EXCEPT ![g] =
                       Get1GrpArtInfo(active[g], WithInfo(active[g], info), newsrc[g])]
    BY <1>0, <1>3 DEF RereadAfterPosting
  <2> DEFINE grp == WithInfo(active[g], info)
  <2>2. SoundGroup(grp, MaxArt)
    BY <1>0, ArtInfoOK DEF EntryOK
  <2>3. grp.count \in Nat /\ (spool[g] # {} => grp.count # 0)
    BY <1>0, InfoCount
  <2>4. newsrc' = [newsrc EXCEPT ![g] = Get1GrpArtInfo(active[g], grp, newsrc[g])]
    BY <2>1
  <2> HIDE DEF grp
  <2>5. CountOK(Get1GrpArtInfo(active[g], grp, newsrc[g]), spool[g])
    BY <1>0, <2>2, <2>3, Get1Count
  <2>6. QED
    BY <1>3, <2>4, <2>5, OneCount DEF RereadAfterPosting
<1>4. CASE Subscribe(g)
  <2>1. PICK s \in Subscribed(g) : newsrc' = [newsrc EXCEPT ![g] = s.nrc]
    BY <1>4 DEF Subscribe
  <2>2. QED
    BY <1>4, <2>1, SubscribedCount, OneCount DEF Subscribe
<1>5. CASE SubscribePattern(g)
  <2>1. PICK s \in Subscribed(g), info \in ArtInfo(g) :
          /\ active' = [active EXCEPT ![g] = WithInfo(s.grp, info)]
          /\ newsrc' = [newsrc EXCEPT ![g] = GrpMarkUnread(active'[g], s.nrc)]
    BY <1>5 DEF SubscribePattern
  <2>2. s.grp \in GroupRecords
    BY SubscribedOK
  <2>3. active'[g] = WithInfo(s.grp, info)
    BY <1>0, <2>1
  <2>4. CountOK(GrpMarkUnread(active'[g], s.nrc), spool[g])
    BY <2>2, <2>3, InfoCount, UnreadCount
  <2>5. QED
    BY <1>5, <2>1, <2>4, OneCount DEF SubscribePattern
<1>6. CASE Unsubscribe(g)
  BY <1>6 DEF Unsubscribe, Counts
<1>7. QED
  BY <1>1, <1>2, <1>3, <1>4, <1>5, <1>6

\* read_newsrc()
LEMMA LoadCount ==
  ASSUME NEW act, \A g \in Groups : EntryOK(g, act[g]), NEW lines, LinesOK(lines),
         NEW nrc, \A g \in Groups : CountOK(nrc[g], spool[g])
  PROVE  \A g \in Groups : CountOK(LoadNewsrc(act, nrc, lines)[g], spool[g])
<1> SUFFICES ASSUME NEW g \in Groups
             PROVE  CountOK(LoadNewsrc(act, nrc, lines)[g], spool[g])
  OBVIOUS
<1>1. SoundGroup(act[g], MaxArt) /\ lines[g] \in Lines
  BY DEF EntryOK, LinesOK
<1>2. CountOK(ParseBitmapSeq(act[g], lines[g].seq), spool[g])
  BY <1>1, ParsedCount
<1>3. LoadNewsrc(act, nrc, lines)[g] \in {ParseBitmapSeq(act[g], lines[g].seq), nrc[g]}
  BY DEF LoadNewsrc
<1>4. QED
  BY <1>2, <1>3

\* vSetDefaultBitmap()
LEMMA DefaultCount ==
  ASSUME NEW grp, NEW S PROVE CountOK(VSetDefaultBitmap(grp), S)
BY DEF CountOK, VSetDefaultBitmap

\* resync_active_file()
LEMMA ResyncedCount ==
  ASSUME Inv, NEW nrc, BitmapsOK(nrc), NEW lines, LinesOK(lines), Resync(nrc, lines),
         \A g \in Groups : CountOK(nrc[g], spool[g])
  PROVE  Counts'
<1> DEFINE act == [g \in Groups |-> RereadActive(g)]
<1>1. \A g \in Groups : EntryOK(g, act[g])
  BY RereadOK
<1>2. file' = WrittenFile(nrc, lines) /\ newsrc' = LoadNewsrc(act, nrc, file') /\ spool' = spool
  BY DEF Resync
<1>3. LinesOK(file')
  BY <1>2, WrittenFileType DEF Inv
<1> HIDE DEF act
<1>4. \A g \in Groups : CountOK(newsrc'[g], spool[g])
  BY <1>1, <1>2, <1>3, LoadCount
<1>5. QED
  BY <1>2, <1>4 DEF Counts

\* resync_active_file() and reset_newsrc()
LEMMA ResyncCount ==
  ASSUME Inv, Counts, ResyncActive \/ ResetNewsrc PROVE Counts'
<1>1. CASE ResyncActive
  BY <1>1, ResyncedCount DEF ResyncActive, Inv, Counts
<1>2. CASE ResetNewsrc
  <2>1. PICK displayed \in SUBSET Groups :
          Resync([g \in Groups |-> IF g \in displayed THEN VSetDefaultBitmap(active[g])
                                   ELSE newsrc[g]],
                 [g \in Groups |-> [file[g] EXCEPT !.seq = {}]])
    BY <1>2 DEF ResetNewsrc
  <2> DEFINE nrc == [g \in Groups |-> IF g \in displayed THEN VSetDefaultBitmap(active[g])
                                      ELSE newsrc[g]]
             lines == [g \in Groups |-> [file[g] EXCEPT !.seq = {}]]
  <2>2. LinesOK(lines)
    <3>1. ASSUME NEW g \in Groups PROVE [file[g] EXCEPT !.seq = {}] \in Lines
      BY DEF Inv, LinesOK, Lines
    <3>2. QED
      BY <3>1 DEF LinesOK
  <2>3. ASSUME NEW g \in Groups
        PROVE  SoundNewsrc(nrc[g], MaxArt) /\ CountOK(nrc[g], spool[g])
    <3>1. /\ SoundGroup(active[g], MaxArt) /\ SoundNewsrc(newsrc[g], MaxArt)
          /\ CountOK(newsrc[g], spool[g])
      BY DEF Inv, ActiveOK, EntryOK, BitmapsOK, Counts
    <3>2. SoundNewsrc(VSetDefaultBitmap(active[g]), MaxArt)
      BY <3>1, DefaultSound, SessionAssumption
    <3>3. CountOK(VSetDefaultBitmap(active[g]), spool[g])
      BY DefaultCount
    <3>4. QED
      BY <3>1, <3>2, <3>3
  <2>4. nrc = [g \in Groups |-> nrc[g]]
    OBVIOUS
  <2>5. Resync(nrc, lines)
    BY <2>1
  <2> HIDE DEF nrc, lines
  <2>6. BitmapsOK(nrc)
    BY <2>3, <2>4 DEF BitmapsOK, SoundNewsrc
  <2>7. QED
    BY <2>2, <2>3, <2>5, <2>6, ResyncedCount
<1>3. QED
  BY <1>1, <1>2

\* The records with which main() starts
LEMMA StartUpCount ==
  ASSUME Inv, NEW lines, LinesOK(lines)
  PROVE  LET act == [g \in Groups |-> FreshActive(g)]
             nrc == [g \in Groups |-> VSetDefaultBitmap(act[g])]
         IN  \A g \in Groups : CountOK(LoadNewsrc(act, nrc, lines)[g], spool[g])
<1> DEFINE act == [g \in Groups |-> FreshActive(g)]
           nrc == [g \in Groups |-> VSetDefaultBitmap(act[g])]
<1>1. \A g \in Groups : EntryOK(g, act[g])
  BY FreshOK DEF Inv
<1>2. \A g \in Groups : CountOK(nrc[g], spool[g])
  BY DefaultCount
<1> HIDE DEF nrc, act
<1>3. \A g \in Groups : CountOK(LoadNewsrc(act, nrc, lines)[g], spool[g])
  BY <1>1, <1>2, LoadCount
<1>4. QED
  BY <1>3 DEF act, nrc

\* tin_done() and main(), with or without a save
LEMMA StartCount ==
  ASSUME Inv, Quit \/ Die PROVE Counts'
<1>1. LinesOK(file) /\ LinesOK(WrittenFile(newsrc, file))
  BY WrittenFileType DEF Inv
<1>2. ASSUME NEW lines, LinesOK(lines), StartUp(lines) PROVE Counts'
  BY <1>2, StartUpCount DEF StartUp, Counts
<1>3. QED
  BY <1>1, <1>2 DEF Quit, Die

\* A new article is above every bitmap, an expired one asks for less.
LEMMA ServerCount ==
  ASSUME Inv, Given, Counts, NEW g \in Groups, Arrive(g) \/ \E a \in Arts : Expire(g, a)
  PROVE  Counts'
<1>1. newsrc' = newsrc
  BY DEF Arrive, Expire
<1>2. ASSUME NEW h \in Groups PROVE newsrc[h].xbitmap \cap spool'[h] \subseteq spool[h]
  <2>1. high[h] \in Nat /\ newsrc[h].xmax \in Nat /\ newsrc[h].xmax <= high[h]
        /\ newsrc[h].xbitmap \subseteq 0..newsrc[h].xmax
    BY DEF Given, Inv, ServerOK, BitmapsOK, SoundNewsrc, NewsrcRecords
  <2>2. high[h] + 1 \notin newsrc[h].xbitmap
    BY <2>1
  <2>3. spool'[h] \subseteq spool[h] \cup {high[h] + 1}
    BY DEF Arrive, Expire, Inv, ServerOK
  <2>4. QED
    BY <2>2, <2>3
<1>3. ASSUME NEW h \in Groups PROVE CountOK(newsrc'[h], spool'[h])
  BY <1>1, <1>2 DEF Counts, CountOK
<1>4. QED
  BY <1>3 DEF Counts

\* What UnreadNeverHidden rests on
Hidden == ~GroupMayFail /\ OnePlace /\ Given /\ Screen /\ Counts

\* Every step keeps it.
LEMMA HiddenNext ==
  ASSUME Inv, Hidden, [Next]_vars PROVE Hidden'
<1>1. Inv' /\ Screen' /\ Given'
  BY NextInv, ScreenNext, GivenNext DEF Hidden
<1>2. UNCHANGED vars => Counts'
  BY DEF vars, Hidden, Counts
<1>3. Counts'
  BY <1>1, <1>2, ReaderCount, EnterCount, AbortCount, SelectionCount, ResyncCount,
     StartCount, ServerCount DEF Next, Command, Hidden
<1>4. QED
  BY <1>1, <1>3 DEF Hidden, OnePlace

\* The counts with which the first session starts
LEMMA CountsInit == Init => Counts
<1> SUFFICES ASSUME Init PROVE Counts
  OBVIOUS
<1>1. Inv
  BY InitInv
<1>2. QED
  BY <1>1, StartUpCount DEF Init, Inv, Counts

\* Without crossposts, and from a server that answers GROUP, what the screen
\* shows, what .newsrc will say and what the counter says agree in the group
\* being read, and no group with an unread article has the count 0 that takes
\* it off the selection page (num_unread of parse_bitmap_seq(), expand_bitmap(),
\* vGet1GrpArtInfo(), grp_mark_unread() and art_mark_read()).
THEOREM CountsRight == Spec /\ ~GroupMayFail /\ OnePlace => []CountsTrue
<1>1. Init /\ ~GroupMayFail /\ OnePlace => Inv /\ Hidden
  BY InitInv, ScreenInit, GivenInit, CountsInit DEF Hidden
<1>2. Inv /\ Hidden /\ [Next]_vars => (Inv /\ Hidden)'
  BY NextInv, HiddenNext
<1>3. Inv /\ Hidden => CountsTrue
  BY DEF Hidden, Screen, Counts, CountOK, CountsTrue, UnreadNeverHidden
<1>4. QED
  BY <1>1, <1>2, <1>3, PTL DEF Spec

-----------------------------------------------------------------------------
(* Crossposts, in a session that only reads                                *)

\* art_mark_read() clears in each group the crossposts that it looks up there.
LEMMA MarkReadExact ==
  ASSUME NEW nrc, BitmapsOK(nrc), NEW g \in Groups, NEW marked, NEW unread, NEW stray,
         NEW h \in Groups
  PROVE  LET m == MarkRead(nrc, g, marked, unread, stray)[h]
         IN  /\ m.xbitmap = (nrc[h].xbitmap \ (IF h = g THEN marked ELSE {}))
                              \ LookedUp(h, nrc[h], g, unread)
             /\ m.xmin = nrc[h].xmin /\ m.xmax = nrc[h].xmax
<1> DEFINE m == MarkRead(nrc, g, marked, unread, stray)[h]
           n == IF h = g THEN [nrc[g] EXCEPT !.xbitmap = @ \ marked] ELSE nrc[h]
           hit == LookedUp(h, n, g, unread) \cap n.xbitmap
           num == CountDownPositive(n.num_unread,
                    Cardinality(hit) + Cardinality({p \in stray : p[1] = h}))
           total == IF h = g THEN CountDown(num, Cardinality(unread)) ELSE num
<1>1. nrc[h] \in NewsrcRecords
  BY DEF BitmapsOK
<1>2. /\ n \in NewsrcRecords /\ n.xmin = nrc[h].xmin /\ n.xmax = nrc[h].xmax
      /\ n.xbitlen = nrc[h].xbitlen
      /\ n.xbitmap = nrc[h].xbitmap \ (IF h = g THEN marked ELSE {})
  BY <1>1 DEF NewsrcRecords
<1>3. m = [n EXCEPT !.xbitmap = @ \ hit, !.num_unread = total]
  BY DEF MarkRead
<1> HIDE DEF n, total, m
<1>4. LookedUp(h, n, g, unread) = LookedUp(h, nrc[h], g, unread)
  BY <1>2 DEF LookedUp
<1>5. m.xmin = n.xmin /\ m.xmax = n.xmax /\ m.xbitmap = n.xbitmap \ hit
  <2> HIDE DEF hit
  <2>1. QED
    BY <1>2, <1>3 DEF NewsrcRecords
<1>6. m.xbitmap = n.xbitmap \ LookedUp(h, nrc[h], g, unread)
  BY <1>4, <1>5
<1>7. QED
  BY <1>2, <1>5, <1>6 DEF m

\* In another group whose bitmap reaches the end of the group, each of them is
\* counted once.
LEMMA MarkReadOther ==
  ASSUME NEW nrc, BitmapsOK(nrc), NEW g \in Groups, NEW marked, NEW unread,
         NEW stray, stray \subseteq BehindBitmap(nrc, g, unread),
         NEW h \in Groups, h # g, active[h].xmax \in Nat, active[h].xmax <= nrc[h].xmax,
         Cardinality(nrc[h].xbitmap) <= nrc[h].num_unread
  PROVE  LET m == MarkRead(nrc, g, marked, unread, stray)[h]
         IN  Cardinality(m.xbitmap) <= m.num_unread
<1> DEFINE m == MarkRead(nrc, g, marked, unread, stray)[h]
           bits == nrc[h].xbitmap
           hit == LookedUp(h, nrc[h], g, unread) \cap bits
           strays == {p \in stray : p[1] = h}
           num == nrc[h].num_unread
           k == Cardinality(hit) + Cardinality(strays)
           total == CountDownPositive(num, k)
<1>1. nrc[h] \in NewsrcRecords /\ SoundNewsrc(nrc[h], MaxArt)
  BY DEF BitmapsOK
<1>2. strays = {}
  <2>1. ASSUME NEW p \in stray, p[1] = h PROVE FALSE
    <3>1. p \in Groups \X Arts /\ p[2] \in LookedUp(h, nrc[h], g, unread) /\ p[2] > nrc[h].xmax
      BY <2>1 DEF BehindBitmap
    <3>2. p[2] <= active[h].xmax
      BY <3>1 DEF LookedUp
    <3>3. p[2] \in Nat /\ nrc[h].xmax \in Nat
      BY <1>1, <3>1 DEF Arts, NewsrcRecords
    <3>4. QED
      BY <3>1, <3>2, <3>3
  <2>2. QED
    BY <2>1
<1>3. m = [nrc[h] EXCEPT !.xbitmap = @ \ hit, !.num_unread = total]
  BY DEF MarkRead
<1>4. IsFiniteSet(bits) /\ Cardinality(bits) \in Nat
  BY <1>1, BitsFinite
<1>5. /\ Cardinality(hit) \in Nat /\ Cardinality(hit) <= Cardinality(bits)
      /\ Cardinality(bits \ hit) = Cardinality(bits) - Cardinality(hit)
  <2> DEFINE up == LookedUp(h, nrc[h], g, unread)
  <2>1. hit = bits \cap up
    OBVIOUS
  <2> HIDE DEF bits, up, hit
  <2>2. IsFiniteSet(hit) /\ Cardinality(hit) <= Cardinality(bits)
    BY <1>4, <2>1, FS_Subset
  <2>3. Cardinality(bits \ hit) = Cardinality(bits) - Cardinality(bits \cap hit)
    BY <1>4, FS_Difference
  <2>4. bits \cap hit = hit
    BY <2>1
  <2>5. QED
    BY <2>2, <2>3, <2>4, FS_CardinalityType
<1> HIDE DEF hit, strays, m
<1>6. k = Cardinality(hit)
  BY <1>2, <1>5, FS_EmptySet
<1> HIDE DEF k
<1>7. num \in Int
  BY <1>1 DEF NewsrcRecords
<1>8. total >= Cardinality(bits) - Cardinality(hit)
  <2> HIDE DEF num
  <2>1. num \in Int /\ Cardinality(bits) <= num
    BY <1>7 DEF num
  <2>2. QED
    BY <1>4, <1>5, <1>6, <2>1 DEF CountDownPositive, Larger
<1> HIDE DEF total
<1>9. m.xbitmap = bits \ hit /\ m.num_unread = total
  BY <1>1, <1>3 DEF NewsrcRecords
<1>10. QED
  BY <1>5, <1>8, <1>9 DEF m

\* A group whose line is read at the start: its bitmap reaches the group's end
\* and not beyond, and its counter is not too low.
Loaded(g) ==
  /\ active[g].subscribed
  /\ active[g].xmax <= newsrc[g].xmax
  /\ \A x \in newsrc[g].xbitmap : x <= active[g].xmax
  /\ Cardinality(newsrc[g].xbitmap) <= newsrc[g].num_unread
Reading ==
  /\ \A g \in Groups : Loaded(g)
  /\ reading # NoGroup => \A a \in DOMAIN arts : a <= active[reading].xmax

\* The group being read
LEMMA ReadingLoaded ==
  ASSUME Inv', Screen', reading' # NoGroup, active'[reading'].subscribed,
         \A a \in DOMAIN arts' : a <= active'[reading'].xmax
  PROVE  Loaded(reading)'
<1>1. Counted(newsrc'[reading']) /\ newsrc'[reading'].xbitmap \subseteq DOMAIN arts'
  BY DEF Screen, StatusIsBitmap, Counted
<1>2. SoundNewsrc(newsrc'[reading'], MaxArt)
  BY DEF Inv, ArtsOK, BitmapsOK
<1>3. Cardinality(newsrc'[reading'].xbitmap) <= newsrc'[reading'].num_unread
  BY <1>1, <1>2, BitsFinite DEF Counted
<1>4. QED
  BY <1>1, <1>3 DEF Loaded, Screen

\* A group whose copies of the articles are marked
LEMMA OtherLoaded ==
  ASSUME Inv, NEW nrc, BitmapsOK(nrc), NEW g \in Groups, NEW marked, NEW unread,
         NEW stray, stray \subseteq BehindBitmap(nrc, g, unread),
         NEW h \in Groups, h # g, nrc[h] = newsrc[h], Loaded(h),
         newsrc'[h] = MarkRead(nrc, g, marked, unread, stray)[h], active'[h] = active[h]
  PROVE  Loaded(h)'
<1>1. active[h].xmax \in Nat
  BY DEF Inv, ActiveOK, GroupRecords
<1>2. Cardinality(newsrc'[h].xbitmap) <= newsrc'[h].num_unread
  BY <1>1, MarkReadOther DEF Loaded
<1>3. newsrc'[h].xbitmap \subseteq newsrc[h].xbitmap /\ newsrc'[h].xmax = newsrc[h].xmax
  BY MarkReadExact
<1>4. QED
  BY <1>2, <1>3 DEF Loaded

\* Every reading step is a step of a session.
LEMMA ReadingStep == ReadingNext => Next
BY DEF ReadingNext, Next, Command

\* It starts as one may start.
LEMMA ReadingStart == ReadingInit => Init
BY DEF ReadingInit

\* Commands in the group that is being read, of which it stays the group
LEMMA SameGroupReading ==
  ASSUME Inv, Inv', Screen', Reading, reading # NoGroup, UNCHANGED <<active, reading>>,
         DOMAIN arts' = DOMAIN arts,
         \A h \in Groups \ {reading} : Loaded(h)'
  PROVE  Reading'
<1>1. reading \in Groups /\ \A a \in DOMAIN arts' : a <= active[reading].xmax
  BY DEF Inv, ArtsOK, Reading
<1>2. active[reading].subscribed
  BY <1>1 DEF Reading, Loaded
<1>3. Loaded(reading)'
  BY <1>1, <1>2, ReadingLoaded
<1>4. QED
  BY <1>1, <1>3 DEF Reading

\* art_mark_read(), with the copies in other groups
LEMMA ReadArtsReading ==
  ASSUME Inv, Inv', Screen', Reading, NEW S \in SUBSET DOMAIN arts, ReadArts(S)
  PROVE  Reading'
<1> DEFINE unread == {a \in S : Unread(a)}
<1>1. /\ reading # NoGroup /\ MarkArtsRead(S) /\ UNCHANGED <<active, reading>>
      /\ DOMAIN arts' = DOMAIN arts
  BY DEF ReadArts
<1>2. PICK stray \in SUBSET BehindBitmap(newsrc, reading, unread) :
        newsrc' = MarkRead(newsrc, reading, S, unread, stray)
  BY <1>1 DEF MarkArtsRead
<1>3. reading \in Groups /\ BitmapsOK(newsrc)
  BY <1>1 DEF Inv, ArtsOK
<1> HIDE DEF unread
<1>4. \A h \in Groups \ {reading} : Loaded(h)'
  BY <1>1, <1>2, <1>3, OtherLoaded DEF Reading
<1>5. QED
  BY <1>1, <1>4, SameGroupReading

\* art_mark_will_return() touches one group only.
LEMMA UnreadArtsAgainReading ==
  ASSUME Inv, Inv', Screen', Reading, NEW S \in SUBSET DOMAIN arts, UnreadArtsAgain(S)
  PROVE  Reading'
<1>1. /\ reading # NoGroup /\ UNCHANGED <<active, reading>> /\ DOMAIN arts' = DOMAIN arts
      /\ newsrc' = [newsrc EXCEPT
                      ![reading].num_unread = @ + Cardinality({a \in S : arts[a].status = ART_READ}),
                      ![reading].xbitmap = @ \cup S]
  BY DEF UnreadArtsAgain
<1>2. \A h \in Groups \ {reading} : newsrc'[h] = newsrc[h]
  BY <1>1 DEF Inv, BitmapsOK
<1>3. \A h \in Groups \ {reading} : Loaded(h)'
  BY <1>1, <1>2 DEF Reading, Loaded
<1>4. QED
  BY <1>1, <1>3, SameGroupReading

\* Catchup leaves a group without bits, up to its end.
LEMMA CatchupReading ==
  ASSUME Inv, Reading, CatchupGroup
  PROVE  Reading'
<1> DEFINE unread == {a \in DOMAIN arts : Unread(a)}
<1>0. PICK r \in Groups : r = reading
  BY DEF CatchupGroup, Inv, ArtsOK
<1>1. PICK stray \in SUBSET BehindBitmap(newsrc, r, unread) :
        newsrc' = [MarkRead(newsrc, r, DOMAIN arts, unread, stray) EXCEPT
                     ![r] = ScrubBitmap(active[r], @)]
  BY <1>0 DEF CatchupGroup
<1> DEFINE done == MarkRead(newsrc, r, DOMAIN arts, unread, stray)
<1>2. /\ BitmapsOK(newsrc) /\ active' = active /\ reading' = NoGroup
      /\ active[r] \in GroupRecords
  BY DEF CatchupGroup, Inv, ActiveOK
<1>3. DOMAIN done = Groups
  BY DEF MarkRead
<1> HIDE DEF unread
<1>4. newsrc'[r] = ScrubBitmap(active[r], done[r]) /\ \A h \in Groups \ {r} : newsrc'[h] = done[h]
  BY <1>1, <1>2, <1>3
<1>5. \A h \in Groups \ {r} : Loaded(h)'
  BY <1>1, <1>2, <1>4, OtherLoaded DEF Reading
<1>6. Loaded(r)'
  <2>1. done[r].xmax = newsrc[r].xmax /\ newsrc[r].xmax \in Nat
    BY <1>2, MarkReadExact DEF BitmapsOK, NewsrcRecords
  <2>2. /\ newsrc'[r].xmax = Larger(active[r].xmax, done[r].xmax)
        /\ newsrc'[r].xbitmap = {} /\ newsrc'[r].num_unread = 0
    BY <1>4 DEF ScrubBitmap
  <2> HIDE DEF done
  <2>3. active[r].xmax <= newsrc'[r].xmax
    BY <1>2, <2>1, <2>2 DEF GroupRecords, Larger
  <2>4. Cardinality(newsrc'[r].xbitmap) <= newsrc'[r].num_unread
    BY <2>2, FS_EmptySet
  <2>5. QED
    BY <1>2, <2>2, <2>3, <2>4 DEF Reading, Loaded
<1>7. QED
  BY <1>2, <1>5, <1>6 DEF Reading

\* index_group() reads the whole group; what has expired takes its copies along.
LEMMA EnterReading ==
  ASSUME Inv, Inv', Screen', Reading, NEW g \in Groups, EnterGroup(g)
  PROVE  Reading'
<1>1. PICK base, got, expired, stray : Entered(g, base, got, expired, stray)
  BY EnterChoice
<1> DEFINE all == ParsedAll(g, base, got, expired)
           gone == UnreadArts(BasedNewsrc(g, base, 0), expired)
<1>2. /\ stray \in SUBSET BehindBitmap(all, g, gone)
      /\ newsrc' = MarkRead(all, g, expired, gone, stray) /\ reading' = g
      /\ active' = [active EXCEPT ![g] = Indexed(g, base)] /\ DOMAIN arts' = got
      /\ base \in HardBase(g)
  BY <1>1 DEF Entered
<1>3. BitmapsOK(all) /\ \A a \in got : a <= Indexed(g, base).xmax
  BY <1>1, EnteredTypes, Zenon
<1>4. \A h \in Groups \ {g} : all[h] = newsrc[h]
  BY DEF ParsedAll, Inv, BitmapsOK
<1>5. \A h \in Groups : active'[h] = IF h = g THEN Indexed(g, base) ELSE active[h]
  BY <1>2 DEF Inv, ActiveOK
<1> HIDE DEF all, gone
<1>6. \A h \in Groups \ {g} : Loaded(h)'
  BY <1>2, <1>3, <1>4, <1>5, OtherLoaded DEF Reading
<1>7. active'[g].subscribed
  <2>1. active[g].subscribed /\ active[g] \in GroupRecords
    BY DEF Reading, Loaded, Inv, ActiveOK
  <2>2. Indexed(g, base).subscribed = active[g].subscribed
    BY <2>1 DEF Indexed, Based, GroupRecords
  <2>3. QED
    BY <1>5, <2>1, <2>2
<1>8. g # NoGroup /\ \A a \in DOMAIN arts' : a <= active'[g].xmax
  BY <1>2, <1>3, <1>5, SessionAssumption
<1>9. Loaded(g)'
  BY <1>2, <1>7, <1>8, ReadingLoaded
<1>10. QED
  BY <1>2, <1>6, <1>8, <1>9 DEF Reading

\* The groups as main() loads them from their lines
LEMMA StartLoaded ==
  ASSUME Inv, NEW lines, LinesOK(lines), NEW g \in Groups,
         lines[g].listed /\ lines[g].sub, LineUpTo(lines[g], high[g])
  PROVE  LET act == [h \in Groups |-> FreshActive(h)]
             nrc == [h \in Groups |-> VSetDefaultBitmap(act[h])]
             a == LoadActive(act, lines)[g]
             n == LoadNewsrc(act, nrc, lines)[g]
         IN  /\ a.subscribed /\ a.xmax <= n.xmax /\ (\A x \in n.xbitmap : x <= a.xmax)
             /\ Cardinality(n.xbitmap) <= n.num_unread
<1> DEFINE fresh == FreshActive(g)
           n == ParseBitmapSeq(fresh, lines[g].seq)
<1>1. fresh \in GroupRecords /\ EntryOK(g, fresh) /\ fresh.xmax = high[g]
  BY FreshOK DEF Inv, FreshActive
<1>2. /\ MaxArt \in Nat /\ SoundGroup(fresh, MaxArt)
      /\ lines[g].seq \subseteq (1..MaxArt) \X (1..MaxArt)
  BY <1>1, SessionAssumption DEF EntryOK, LinesOK, Lines, Arts
<1> DEFINE a == [fresh EXCEPT !.subscribed = TRUE]
<1>3. a.subscribed /\ a.xmax = fresh.xmax
  BY <1>1 DEF GroupRecords
<1> HIDE DEF fresh
<1>4. fresh.xmax <= n.xmax /\ Cardinality(n.xbitmap) <= n.num_unread
  BY <1>2, ParseCounts
<1>5. SoundNewsrc(n, MaxArt)
  BY <1>2, ParseSound
<1>6. n.xmax <= high[g]
  BY <1>1, ParsedUpTo
<1> HIDE DEF n
<1>7. \A x \in n.xbitmap : x <= fresh.xmax
  BY <1>1, <1>5, <1>6, GivenSound DEF SoundNewsrc, NewsrcRecords
<1>8. /\ LoadActive([h \in Groups |-> FreshActive(h)], lines)[g] = a
      /\ LoadNewsrc([h \in Groups |-> FreshActive(h)],
                    [h \in Groups |-> VSetDefaultBitmap([i \in Groups |-> FreshActive(i)][h])],
                    lines)[g] = n
  BY DEF LoadActive, LoadNewsrc, fresh, n
<1> HIDE DEF a
<1>9. QED
  BY <1>3, <1>4, <1>7, <1>8

\* tin_done(), and the next session loads every line.
LEMMA QuitReading ==
  ASSUME Inv, SubscriptionSaved, Given, Reading, Quit
  PROVE  Reading'
<1> DEFINE lines == WrittenFile(newsrc, file)
<1>1. LinesOK(lines)
  BY WrittenFileType DEF Inv
<1>2. ASSUME NEW g \in Groups
      PROVE  lines[g].listed /\ lines[g].sub /\ LineUpTo(lines[g], high[g])
  <2>1. active[g].subscribed
    BY DEF Reading, Loaded
  <2>2. active[g].subscribed <=> lines[g].listed /\ lines[g].sub
    BY WrittenSub DEF Inv, SubscriptionSaved, SubscriptionIn
  <2>3. QED
    BY <2>1, <2>2, WrittenUpTo DEF Inv, Given
<1>3. StartUp(lines)
  BY DEF Quit
<1> HIDE DEF lines
<1>4. \A g \in Groups : Loaded(g)'
  BY <1>1, <1>2, <1>3, StartLoaded DEF StartUp, Loaded
<1>5. QED
  BY <1>3, <1>4 DEF Reading, StartUp

\* What the crossposts rest on
ReadingInv == Inv /\ SubscriptionSaved /\ Given /\ Screen /\ Reading

\* Every step of such a session keeps it.
LEMMA ReadingInvNext ==
  ASSUME ReadingInv, [ReadingNext]_vars PROVE ReadingInv'
<1>1. [Next]_vars
  BY ReadingStep
<1>2. Inv' /\ SubscriptionSaved' /\ Given' /\ Screen'
  BY <1>1, NextInv, SubNext, GivenNext, ScreenNext DEF ReadingInv
<1>3. ASSUME UNCHANGED <<active, newsrc, reading, arts>> PROVE Reading'
  BY <1>3 DEF ReadingInv, Reading, Loaded
<1>4. LeaveGroup => Reading'
  BY DEF LeaveGroup, ReadingInv, Reading, Loaded
<1>5. UNCHANGED vars => Reading'
  BY <1>3 DEF vars
<1>6. ASSUME NEW g \in Groups, Arrive(g) \/ \E a \in Arts : Expire(g, a) PROVE Reading'
  BY <1>3, <1>6 DEF Arrive, Expire
<1>7. Reading'
  BY <1>2, <1>4, <1>5, <1>6, ReadArtsReading, UnreadArtsAgainReading, CatchupReading,
     EnterReading, QuitReading DEF ReadingNext, ReadingInv
<1>8. QED
  BY <1>2, <1>7 DEF ReadingInv

\* It holds at the start.
LEMMA ReadingInvInit == ReadingInit => ReadingInv
<1> SUFFICES ASSUME ReadingInit PROVE ReadingInv
  OBVIOUS
<1>1. Init /\ Inv /\ SubscriptionSaved /\ Given /\ Screen
  BY ReadingStart, InitInv, SubInit, GivenInit, ScreenInit
<1>2. \A g \in Groups : Loaded(g)
  <2>1. LinesOK(file) /\ \A g \in Groups : file[g].listed /\ file[g].sub
    BY <1>1 DEF Inv, ReadingInit
  <2>2. QED
    BY <1>1, <2>1, StartLoaded DEF Init, Given, Loaded
<1>3. QED
  BY <1>1, <1>2 DEF ReadingInv, Reading, Init

\* Reading an article marks every copy of it whose bit is there.
LEMMA CrosspostsMarked ==
  ASSUME ReadingInv, NEW S \in SUBSET DOMAIN arts, ReadArts(S), NEW h \in Groups,
         NEW x \in CrossPosts(h, reading, {a \in S : Unread(a)}),
         newsrc[h].xbitlen > 0, x <= newsrc[h].xmax
  PROVE  IsRead(newsrc'[h], x)
<1> DEFINE unread == {a \in S : Unread(a)}
           n == newsrc[h]
           m == newsrc'[h]
<1>1. reading # NoGroup /\ MarkArtsRead(S)
  BY DEF ReadArts
<1>2. PICK stray \in SUBSET BehindBitmap(newsrc, reading, unread) :
        newsrc' = MarkRead(newsrc, reading, S, unread, stray)
  BY <1>1 DEF MarkArtsRead
<1>3. /\ reading \in Groups /\ BitmapsOK(newsrc) /\ n \in NewsrcRecords
      /\ active[h].xmax \in Nat /\ x \in Nat
  BY <1>1, SessionAssumption
  DEF ReadingInv, Inv, ArtsOK, BitmapsOK, ActiveOK, GroupRecords, CrossPosts, Arts
<1>4. x \in CrossPosts(h, reading, unread)
  OBVIOUS
<1> HIDE DEF unread
<1>5. /\ m.xbitmap \subseteq n.xbitmap \ LookedUp(h, n, reading, unread)
      /\ m.xmin = n.xmin /\ m.xmax = n.xmax
  BY <1>2, <1>3, MarkReadExact
<1>6. \A y \in n.xbitmap : y <= active[h].xmax
  BY DEF ReadingInv, Reading, Loaded
<1>7. CASE x < n.xmin
  BY <1>5, <1>7 DEF IsRead
<1>8. CASE n.xmin <= x /\ x <= active[h].xmax
  <2>1. n.xbitlen # 0
    BY <1>3 DEF NewsrcRecords
  <2>2. x \in LookedUp(h, n, reading, unread)
    BY <1>4, <1>8, <2>1 DEF LookedUp
  <2>3. QED
    BY <1>5, <2>2 DEF IsRead
<1>9. CASE active[h].xmax < x
  <2>1. x \notin n.xbitmap
    BY <1>3, <1>6, <1>9
  <2>2. QED
    BY <1>5, <2>1 DEF IsRead
<1>10. QED
  BY <1>3, <1>7, <1>8, <1>9 DEF NewsrcRecords

\* In a session that starts with nothing read and only reads, whatever is read
\* in whatever order in groups with common articles, the counter of the group
\* being read is exact, and the counter of no group falls below its unread
\* articles (art_mark_xref_read(): a copy is counted down only while its bit is
\* set; parse_bitmap_seq() counts every gap).
THEOREM CountsEnough == ReadingSpec => []CountsSuffice
<1>1. ReadingInv => CountsSuffice
  <2> SUFFICES ASSUME ReadingInv, NEW g \in Groups
               PROVE  Cardinality(newsrc[g].xbitmap \cap spool[g]) <= newsrc[g].num_unread
    BY DEF ReadingInv, Screen, CountsSuffice, NeverUndercounts
  <2> DEFINE bits == newsrc[g].xbitmap
             left == bits \cap spool[g]
  <2>1. /\ Cardinality(bits) <= newsrc[g].num_unread /\ newsrc[g].num_unread \in Int
        /\ SoundNewsrc(newsrc[g], MaxArt)
    BY DEF ReadingInv, Reading, Loaded, Inv, BitmapsOK, NewsrcRecords
  <2>2. IsFiniteSet(bits) /\ Cardinality(bits) \in Nat
    BY <2>1, BitsFinite
  <2>3. left \in SUBSET bits
    OBVIOUS
  <2> HIDE DEF bits, left
  <2>4. Cardinality(left) <= Cardinality(bits) /\ Cardinality(left) \in Nat
    BY <2>2, <2>3, FS_Subset, FS_CardinalityType
  <2>5. Cardinality(left) <= newsrc[g].num_unread
    BY <2>1, <2>2, <2>4
  <2>6. QED
    BY <2>5 DEF bits, left
<1>2. ReadingInv /\ [ReadingNext]_vars => ReadingInv'
  BY ReadingInvNext
<1>3. QED
  BY <1>1, <1>2, ReadingInvInit, PTL DEF ReadingSpec

\* In such a session the copies of an article that is read are read too, in
\* every group whose bitmap reaches as far, and nothing else changes its mark
\* (art_mark_xref_read()).
THEOREM CrosspostsRead == ReadingSpec => CrosspostsOnly
<1>1. ReadingInv /\ [ReadingNext]_vars =>
        [\A S \in SUBSET DOMAIN arts : ReadArts(S) =>
           \A h \in Groups :
             \A x \in CrossPosts(h, reading, {a \in S : Unread(a)}) :
               newsrc[h].xbitlen > 0 /\ x <= newsrc[h].xmax => IsRead(newsrc'[h], x)]_vars
  BY CrosspostsMarked
<1>2. ReadingInv /\ [ReadingNext]_vars => ReadingInv'
  BY ReadingInvNext
<1>3. ReadingSpec => CrosspostsFollow
  BY <1>1, <1>2, ReadingInvInit, PTL DEF ReadingSpec, CrosspostsFollow
<1>4. [ReadingNext]_vars => [Next]_vars
  BY ReadingStep
<1>5. ReadingSpec => Spec
  BY <1>4, ReadingStart, PTL DEF ReadingSpec, Spec
<1>6. Spec => NoSilentRead /\ ReadStaysRead
  BY MarksFollow DEF MarksFollowUser
<1>7. QED
  BY <1>3, <1>5, <1>6 DEF CrosspostsOnly

=============================================================================
