------------------------------ MODULE FeedProofs ------------------------------
(***************************************************************************)
(* Marking articles and handing them out, for any articles and threads:    *)
(* the tags stay a numbering, a file that was there is not lost, and what  *)
(* was reported on is marked read only if it went well.                    *)
(***************************************************************************)
EXTENDS Feed, FoldProofs, FiniteSetTheorems

-----------------------------------------------------------------------------
(* The loops of Marks: what every turn keeps, the loop keeps *)

LEMMA OverTag ==
  ASSUME NEW seq, NEW n \in Nat, DOMAIN seq = 1..n, NEW I, NEW m \in I,
         \A s \in I, k \in 1..n : Tag(s, seq[k]) \in I
  PROVE  Over(Tag, seq, m) \in I
<1> DEFINE step == [x \in I \X (1..n) |-> Tag(x[1], seq[x[2]])]
           of(f) == [s \in SUBSET (1..n) |-> IF s = {} THEN m ELSE Tag(f[s \ {Max(s)}], seq[Max(s)])]
           it == CHOOSE f : f = of(f)
<1>1. step \in [I \X (1..n) -> I]
  OBVIOUS
<1> HIDE DEF step, it
<1>2. PICK w \in Folds(n, I, m, step) : TRUE
  BY <1>1, FoldMade
<1>3. ASSUME NEW s \in SUBSET (1..n)
      PROVE w[s] = IF s = {} THEN m ELSE Tag(w[s \ {Max(s)}], seq[Max(s)])
  <2>1. w \in [SUBSET (1..n) -> I] /\ w[s] = Made(w, m, step, s)
    BY <1>2 DEF Folds
  <2>2. s # {} => Max(s) \in 1..n /\ w[s \ {Max(s)}] \in I
    BY <2>1, MaxIn
  <2>3. QED
    BY <2>1, <2>2 DEF Made, step
<1>4. w = of(w)
  BY <1>2, <1>3 DEF Folds
<1>5. it = of(it)
  BY <1>4, Zenon DEF it
<1>6. Over(Tag, seq, m) = it[1..n]
  BY Zenon DEF Over, FoldLeft, MapThenFoldSet, it
<1>7. it[{}] = m
  BY <1>5
<1>8. ASSUME NEW s \in SUBSET (1..n), s # {}, it[s \ {Max(s)}] \in I PROVE it[s] \in I
  <2>1. Max(s) \in 1..n
    BY <1>8, MaxIn
  <2>2. it[s] = Tag(it[s \ {Max(s)}], seq[Max(s)])
    BY <1>5, <1>8
  <2>3. QED
    BY <1>8, <2>1, <2>2
<1>9. it[1..n] \in I
  BY <1>7, <1>8, FoldKeeps
<1>10. QED
  BY <1>6, <1>9

LEMMA OverUntag ==
  ASSUME NEW seq, NEW n \in Nat, DOMAIN seq = 1..n, NEW I, NEW m \in I,
         \A s \in I, k \in 1..n : Untag(s, seq[k]) \in I
  PROVE  Over(Untag, seq, m) \in I
<1> DEFINE step == [x \in I \X (1..n) |-> Untag(x[1], seq[x[2]])]
           of(f) == [s \in SUBSET (1..n) |-> IF s = {} THEN m ELSE Untag(f[s \ {Max(s)}], seq[Max(s)])]
           it == CHOOSE f : f = of(f)
<1>1. step \in [I \X (1..n) -> I]
  OBVIOUS
<1> HIDE DEF step, it
<1>2. PICK w \in Folds(n, I, m, step) : TRUE
  BY <1>1, FoldMade
<1>3. ASSUME NEW s \in SUBSET (1..n)
      PROVE w[s] = IF s = {} THEN m ELSE Untag(w[s \ {Max(s)}], seq[Max(s)])
  <2>1. w \in [SUBSET (1..n) -> I] /\ w[s] = Made(w, m, step, s)
    BY <1>2 DEF Folds
  <2>2. s # {} => Max(s) \in 1..n /\ w[s \ {Max(s)}] \in I
    BY <2>1, MaxIn
  <2>3. QED
    BY <2>1, <2>2 DEF Made, step
<1>4. w = of(w)
  BY <1>2, <1>3 DEF Folds
<1>5. it = of(it)
  BY <1>4, Zenon DEF it
<1>6. Over(Untag, seq, m) = it[1..n]
  BY Zenon DEF Over, FoldLeft, MapThenFoldSet, it
<1>7. it[{}] = m
  BY <1>5
<1>8. ASSUME NEW s \in SUBSET (1..n), s # {}, it[s \ {Max(s)}] \in I PROVE it[s] \in I
  <2>1. Max(s) \in 1..n
    BY <1>8, MaxIn
  <2>2. it[s] = Untag(it[s \ {Max(s)}], seq[Max(s)])
    BY <1>5, <1>8
  <2>3. QED
    BY <1>8, <2>1, <2>2
<1>9. it[1..n] \in I
  BY <1>7, <1>8, FoldKeeps
<1>10. QED
  BY <1>6, <1>9

LEMMA OverRead ==
  ASSUME NEW seq, NEW n \in Nat, DOMAIN seq = 1..n, NEW I, NEW m \in I,
         \A s \in I, k \in 1..n : art_mark_read(s, seq[k]) \in I
  PROVE  Over(art_mark_read, seq, m) \in I
<1> DEFINE step == [x \in I \X (1..n) |-> art_mark_read(x[1], seq[x[2]])]
           of(f) == [s \in SUBSET (1..n) |-> IF s = {} THEN m ELSE art_mark_read(f[s \ {Max(s)}], seq[Max(s)])]
           it == CHOOSE f : f = of(f)
<1>1. step \in [I \X (1..n) -> I]
  OBVIOUS
<1> HIDE DEF step, it
<1>2. PICK w \in Folds(n, I, m, step) : TRUE
  BY <1>1, FoldMade
<1>3. ASSUME NEW s \in SUBSET (1..n)
      PROVE w[s] = IF s = {} THEN m ELSE art_mark_read(w[s \ {Max(s)}], seq[Max(s)])
  <2>1. w \in [SUBSET (1..n) -> I] /\ w[s] = Made(w, m, step, s)
    BY <1>2 DEF Folds
  <2>2. s # {} => Max(s) \in 1..n /\ w[s \ {Max(s)}] \in I
    BY <2>1, MaxIn
  <2>3. QED
    BY <2>1, <2>2 DEF Made, step
<1>4. w = of(w)
  BY <1>2, <1>3 DEF Folds
<1>5. it = of(it)
  BY <1>4, Zenon DEF it
<1>6. Over(art_mark_read, seq, m) = it[1..n]
  BY Zenon DEF Over, FoldLeft, MapThenFoldSet, it
<1>7. it[{}] = m
  BY <1>5
<1>8. ASSUME NEW s \in SUBSET (1..n), s # {}, it[s \ {Max(s)}] \in I PROVE it[s] \in I
  <2>1. Max(s) \in 1..n
    BY <1>8, MaxIn
  <2>2. it[s] = art_mark_read(it[s \ {Max(s)}], seq[Max(s)])
    BY <1>5, <1>8
  <2>3. QED
    BY <1>8, <2>1, <2>2
<1>9. it[1..n] \in I
  BY <1>7, <1>8, FoldKeeps
<1>10. QED
  BY <1>6, <1>9

LEMMA OverReturn ==
  ASSUME NEW seq, NEW n \in Nat, DOMAIN seq = 1..n, NEW I, NEW m \in I,
         \A s \in I, k \in 1..n : art_mark_will_return(s, seq[k]) \in I
  PROVE  Over(art_mark_will_return, seq, m) \in I
<1> DEFINE step == [x \in I \X (1..n) |-> art_mark_will_return(x[1], seq[x[2]])]
           of(f) == [s \in SUBSET (1..n) |-> IF s = {} THEN m ELSE art_mark_will_return(f[s \ {Max(s)}], seq[Max(s)])]
           it == CHOOSE f : f = of(f)
<1>1. step \in [I \X (1..n) -> I]
  OBVIOUS
<1> HIDE DEF step, it
<1>2. PICK w \in Folds(n, I, m, step) : TRUE
  BY <1>1, FoldMade
<1>3. ASSUME NEW s \in SUBSET (1..n)
      PROVE w[s] = IF s = {} THEN m ELSE art_mark_will_return(w[s \ {Max(s)}], seq[Max(s)])
  <2>1. w \in [SUBSET (1..n) -> I] /\ w[s] = Made(w, m, step, s)
    BY <1>2 DEF Folds
  <2>2. s # {} => Max(s) \in 1..n /\ w[s \ {Max(s)}] \in I
    BY <2>1, MaxIn
  <2>3. QED
    BY <2>1, <2>2 DEF Made, step
<1>4. w = of(w)
  BY <1>2, <1>3 DEF Folds
<1>5. it = of(it)
  BY <1>4, Zenon DEF it
<1>6. Over(art_mark_will_return, seq, m) = it[1..n]
  BY Zenon DEF Over, FoldLeft, MapThenFoldSet, it
<1>7. it[{}] = m
  BY <1>5
<1>8. ASSUME NEW s \in SUBSET (1..n), s # {}, it[s \ {Max(s)}] \in I PROVE it[s] \in I
  <2>1. Max(s) \in 1..n
    BY <1>8, MaxIn
  <2>2. it[s] = art_mark_will_return(it[s \ {Max(s)}], seq[Max(s)])
    BY <1>5, <1>8
  <2>3. QED
    BY <1>8, <2>1, <2>2
<1>9. it[1..n] \in I
  BY <1>7, <1>8, FoldKeeps
<1>10. QED
  BY <1>6, <1>9

\* One turn of the loops over ranges, and over the marks of every article.
RangeTurn(s, a, Op(_, _)) ==
  IF s.arts[a].inrange THEN [Op(s, a) EXCEPT !.arts[a].inrange = FALSE] ELSE s
HotTurn(s, b) ==
  IF HotNew(s, b) \in {{}, New(s, b)} THEN s ELSE Select(s, Thread(b), TRUE)
UnselTurn(s, a) ==
  IF s.arts[a].status = "ART_UNREAD" /\ ~s.arts[a].selected
  THEN [art_mark_read(s, a) EXCEPT !.arts[a].zombie = TRUE] ELSE s
UndoTurn(s, a) ==
  IF s.arts[a].status = "ART_READ" /\ s.arts[a].zombie
  THEN [art_mark_unread(s, a) EXCEPT !.arts[a].zombie = FALSE] ELSE s

LEMMA RangeRead ==
  ASSUME NEW seq, NEW n \in Nat, DOMAIN seq = 1..n, NEW I, NEW m \in I,
         \A s \in I, k \in 1..n : RangeTurn(s, seq[k], art_mark_read) \in I
  PROVE  MarkRange(m, seq, art_mark_read) \in I
<1> DEFINE step == [x \in I \X (1..n) |-> RangeTurn(x[1], seq[x[2]], art_mark_read)]
           of(f) == [s \in SUBSET (1..n) |-> IF s = {} THEN m ELSE RangeTurn(f[s \ {Max(s)}], seq[Max(s)], art_mark_read)]
           it == CHOOSE f : f = of(f)
<1>1. step \in [I \X (1..n) -> I]
  OBVIOUS
<1> HIDE DEF step, it
<1>2. PICK w \in Folds(n, I, m, step) : TRUE
  BY <1>1, FoldMade
<1>3. ASSUME NEW s \in SUBSET (1..n)
      PROVE w[s] = IF s = {} THEN m ELSE RangeTurn(w[s \ {Max(s)}], seq[Max(s)], art_mark_read)
  <2>1. w \in [SUBSET (1..n) -> I] /\ w[s] = Made(w, m, step, s)
    BY <1>2 DEF Folds
  <2>2. s # {} => Max(s) \in 1..n /\ w[s \ {Max(s)}] \in I
    BY <2>1, MaxIn
  <2>3. QED
    BY <2>1, <2>2 DEF Made, step
<1>4. w = of(w)
  BY <1>2, <1>3 DEF Folds
<1>5. it = of(it)
  BY <1>4, Zenon DEF it
<1>6. MarkRange(m, seq, art_mark_read) = it[1..n]
  BY Zenon DEF MarkRange, RangeTurn, FoldLeft, MapThenFoldSet, it
<1>7. it[{}] = m
  BY <1>5
<1>8. ASSUME NEW s \in SUBSET (1..n), s # {}, it[s \ {Max(s)}] \in I PROVE it[s] \in I
  <2>1. Max(s) \in 1..n
    BY <1>8, MaxIn
  <2>2. it[s] = RangeTurn(it[s \ {Max(s)}], seq[Max(s)], art_mark_read)
    BY <1>5, <1>8
  <2>3. QED
    BY <1>8, <2>1, <2>2
<1>9. it[1..n] \in I
  BY <1>7, <1>8, FoldKeeps
<1>10. QED
  BY <1>6, <1>9

LEMMA RangeReturn ==
  ASSUME NEW seq, NEW n \in Nat, DOMAIN seq = 1..n, NEW I, NEW m \in I,
         \A s \in I, k \in 1..n : RangeTurn(s, seq[k], art_mark_will_return) \in I
  PROVE  MarkRange(m, seq, art_mark_will_return) \in I
<1> DEFINE step == [x \in I \X (1..n) |-> RangeTurn(x[1], seq[x[2]], art_mark_will_return)]
           of(f) == [s \in SUBSET (1..n) |-> IF s = {} THEN m ELSE RangeTurn(f[s \ {Max(s)}], seq[Max(s)], art_mark_will_return)]
           it == CHOOSE f : f = of(f)
<1>1. step \in [I \X (1..n) -> I]
  OBVIOUS
<1> HIDE DEF step, it
<1>2. PICK w \in Folds(n, I, m, step) : TRUE
  BY <1>1, FoldMade
<1>3. ASSUME NEW s \in SUBSET (1..n)
      PROVE w[s] = IF s = {} THEN m ELSE RangeTurn(w[s \ {Max(s)}], seq[Max(s)], art_mark_will_return)
  <2>1. w \in [SUBSET (1..n) -> I] /\ w[s] = Made(w, m, step, s)
    BY <1>2 DEF Folds
  <2>2. s # {} => Max(s) \in 1..n /\ w[s \ {Max(s)}] \in I
    BY <2>1, MaxIn
  <2>3. QED
    BY <2>1, <2>2 DEF Made, step
<1>4. w = of(w)
  BY <1>2, <1>3 DEF Folds
<1>5. it = of(it)
  BY <1>4, Zenon DEF it
<1>6. MarkRange(m, seq, art_mark_will_return) = it[1..n]
  BY Zenon DEF MarkRange, RangeTurn, FoldLeft, MapThenFoldSet, it
<1>7. it[{}] = m
  BY <1>5
<1>8. ASSUME NEW s \in SUBSET (1..n), s # {}, it[s \ {Max(s)}] \in I PROVE it[s] \in I
  <2>1. Max(s) \in 1..n
    BY <1>8, MaxIn
  <2>2. it[s] = RangeTurn(it[s \ {Max(s)}], seq[Max(s)], art_mark_will_return)
    BY <1>5, <1>8
  <2>3. QED
    BY <1>8, <2>1, <2>2
<1>9. it[1..n] \in I
  BY <1>7, <1>8, FoldKeeps
<1>10. QED
  BY <1>6, <1>9

LEMMA UnselLoop ==
  ASSUME NEW n \in Nat, DOMAIN Top = 1..n, NEW I, NEW m \in I,
         \A s \in I, k \in 1..n : UnselTurn(s, Top[k]) \in I
  PROVE  MarkUnselArtRead(m) \in I
<1> DEFINE step == [x \in I \X (1..n) |-> UnselTurn(x[1], Top[x[2]])]
           of(f) == [s \in SUBSET (1..n) |-> IF s = {} THEN m ELSE UnselTurn(f[s \ {Max(s)}], Top[Max(s)])]
           it == CHOOSE f : f = of(f)
<1>1. step \in [I \X (1..n) -> I]
  OBVIOUS
<1> HIDE DEF step, it
<1>2. PICK w \in Folds(n, I, m, step) : TRUE
  BY <1>1, FoldMade
<1>3. ASSUME NEW s \in SUBSET (1..n)
      PROVE w[s] = IF s = {} THEN m ELSE UnselTurn(w[s \ {Max(s)}], Top[Max(s)])
  <2>1. w \in [SUBSET (1..n) -> I] /\ w[s] = Made(w, m, step, s)
    BY <1>2 DEF Folds
  <2>2. s # {} => Max(s) \in 1..n /\ w[s \ {Max(s)}] \in I
    BY <2>1, MaxIn
  <2>3. QED
    BY <2>1, <2>2 DEF Made, step
<1>4. w = of(w)
  BY <1>2, <1>3 DEF Folds
<1>5. it = of(it)
  BY <1>4, Zenon DEF it
<1>6. MarkUnselArtRead(m) = it[1..n]
  BY Zenon DEF MarkUnselArtRead, UnselTurn, FoldLeft, MapThenFoldSet, it
<1>7. it[{}] = m
  BY <1>5
<1>8. ASSUME NEW s \in SUBSET (1..n), s # {}, it[s \ {Max(s)}] \in I PROVE it[s] \in I
  <2>1. Max(s) \in 1..n
    BY <1>8, MaxIn
  <2>2. it[s] = UnselTurn(it[s \ {Max(s)}], Top[Max(s)])
    BY <1>5, <1>8
  <2>3. QED
    BY <1>8, <2>1, <2>2
<1>9. it[1..n] \in I
  BY <1>7, <1>8, FoldKeeps
<1>10. QED
  BY <1>6, <1>9

LEMMA UndoLoop ==
  ASSUME NEW n \in Nat, DOMAIN Top = 1..n, NEW I, NEW m \in I,
         \A s \in I, k \in 1..n : UndoTurn(s, Top[k]) \in I
  PROVE  UndoAutoSelect(m) \in I
<1> DEFINE step == [x \in I \X (1..n) |-> UndoTurn(x[1], Top[x[2]])]
           of(f) == [s \in SUBSET (1..n) |-> IF s = {} THEN m ELSE UndoTurn(f[s \ {Max(s)}], Top[Max(s)])]
           it == CHOOSE f : f = of(f)
<1>1. step \in [I \X (1..n) -> I]
  OBVIOUS
<1> HIDE DEF step, it
<1>2. PICK w \in Folds(n, I, m, step) : TRUE
  BY <1>1, FoldMade
<1>3. ASSUME NEW s \in SUBSET (1..n)
      PROVE w[s] = IF s = {} THEN m ELSE UndoTurn(w[s \ {Max(s)}], Top[Max(s)])
  <2>1. w \in [SUBSET (1..n) -> I] /\ w[s] = Made(w, m, step, s)
    BY <1>2 DEF Folds
  <2>2. s # {} => Max(s) \in 1..n /\ w[s \ {Max(s)}] \in I
    BY <2>1, MaxIn
  <2>3. QED
    BY <2>1, <2>2 DEF Made, step
<1>4. w = of(w)
  BY <1>2, <1>3 DEF Folds
<1>5. it = of(it)
  BY <1>4, Zenon DEF it
<1>6. UndoAutoSelect(m) = it[1..n]
  BY Zenon DEF UndoAutoSelect, UndoTurn, FoldLeft, MapThenFoldSet, it
<1>7. it[{}] = m
  BY <1>5
<1>8. ASSUME NEW s \in SUBSET (1..n), s # {}, it[s \ {Max(s)}] \in I PROVE it[s] \in I
  <2>1. Max(s) \in 1..n
    BY <1>8, MaxIn
  <2>2. it[s] = UndoTurn(it[s \ {Max(s)}], Top[Max(s)])
    BY <1>5, <1>8
  <2>3. QED
    BY <1>8, <2>1, <2>2
<1>9. it[1..n] \in I
  BY <1>7, <1>8, FoldKeeps
<1>10. QED
  BY <1>6, <1>9

LEMMA HotLoop ==
  ASSUME NEW n \in Nat, DOMAIN [b \in DOMAIN base |-> b] = 1..n, NEW I, NEW m \in I,
         \A s \in I, k \in 1..n : HotTurn(s, [b \in DOMAIN base |-> b][k]) \in I
  PROVE  SelThdIfUnreadSelected(m) \in I
<1> DEFINE step == [x \in I \X (1..n) |-> HotTurn(x[1], [b \in DOMAIN base |-> b][x[2]])]
           of(f) == [s \in SUBSET (1..n) |-> IF s = {} THEN m ELSE HotTurn(f[s \ {Max(s)}], [b \in DOMAIN base |-> b][Max(s)])]
           it == CHOOSE f : f = of(f)
<1>1. step \in [I \X (1..n) -> I]
  OBVIOUS
<1> HIDE DEF step, it
<1>2. PICK w \in Folds(n, I, m, step) : TRUE
  BY <1>1, FoldMade
<1>3. ASSUME NEW s \in SUBSET (1..n)
      PROVE w[s] = IF s = {} THEN m ELSE HotTurn(w[s \ {Max(s)}], [b \in DOMAIN base |-> b][Max(s)])
  <2>1. w \in [SUBSET (1..n) -> I] /\ w[s] = Made(w, m, step, s)
    BY <1>2 DEF Folds
  <2>2. s # {} => Max(s) \in 1..n /\ w[s \ {Max(s)}] \in I
    BY <2>1, MaxIn
  <2>3. QED
    BY <2>1, <2>2 DEF Made, step
<1>4. w = of(w)
  BY <1>2, <1>3 DEF Folds
<1>5. it = of(it)
  BY <1>4, Zenon DEF it
<1>6. SelThdIfUnreadSelected(m) = it[1..n]
  BY Zenon DEF SelThdIfUnreadSelected, HotTurn, FoldLeft, MapThenFoldSet, it
<1>7. it[{}] = m
  BY <1>5
<1>8. ASSUME NEW s \in SUBSET (1..n), s # {}, it[s \ {Max(s)}] \in I PROVE it[s] \in I
  <2>1. Max(s) \in 1..n
    BY <1>8, MaxIn
  <2>2. it[s] = HotTurn(it[s \ {Max(s)}], [b \in DOMAIN base |-> b][Max(s)])
    BY <1>5, <1>8
  <2>3. QED
    BY <1>8, <2>1, <2>2
<1>9. it[1..n] \in I
  BY <1>7, <1>8, FoldKeeps
<1>10. QED
  BY <1>6, <1>9

\* One turn of find_base().
AddTurn(m, only, shown, t) ==
  IF only => \E a \in ToSet(Threads[t]) : m.arts[a].status = "ART_UNREAD"
  THEN Append(shown, t) ELSE shown

LEMMA FindBaseLoop ==
  ASSUME NEW n \in Nat, DOMAIN [t \in DOMAIN Threads |-> t] = 1..n, NEW m, NEW only, NEW I, <<>> \in I,
         \A s \in I, k \in 1..n : AddTurn(m, only, s, [t \in DOMAIN Threads |-> t][k]) \in I
  PROVE  find_base(m, only) \in I
<1> DEFINE step == [x \in I \X (1..n) |-> AddTurn(m, only, x[1], [t \in DOMAIN Threads |-> t][x[2]])]
           of(f) == [s \in SUBSET (1..n) |-> IF s = {} THEN <<>> ELSE AddTurn(m, only, f[s \ {Max(s)}], [t \in DOMAIN Threads |-> t][Max(s)])]
           it == CHOOSE f : f = of(f)
<1>1. step \in [I \X (1..n) -> I]
  OBVIOUS
<1> HIDE DEF step, it
<1>2. PICK w \in Folds(n, I, <<>>, step) : TRUE
  BY <1>1, FoldMade
<1>3. ASSUME NEW s \in SUBSET (1..n)
      PROVE w[s] = IF s = {} THEN <<>> ELSE AddTurn(m, only, w[s \ {Max(s)}], [t \in DOMAIN Threads |-> t][Max(s)])
  <2>1. w \in [SUBSET (1..n) -> I] /\ w[s] = Made(w, <<>>, step, s)
    BY <1>2 DEF Folds
  <2>2. s # {} => Max(s) \in 1..n /\ w[s \ {Max(s)}] \in I
    BY <2>1, MaxIn
  <2>3. QED
    BY <2>1, <2>2 DEF Made, step
<1>4. w = of(w)
  BY <1>2, <1>3 DEF Folds
<1>5. it = of(it)
  BY <1>4, Zenon DEF it
<1>6. find_base(m, only) = it[1..n]
  BY Zenon DEF find_base, AddTurn, FoldLeft, MapThenFoldSet, it
<1>7. it[{}] = <<>>
  BY <1>5
<1>8. ASSUME NEW s \in SUBSET (1..n), s # {}, it[s \ {Max(s)}] \in I PROVE it[s] \in I
  <2>1. Max(s) \in 1..n
    BY <1>8, MaxIn
  <2>2. it[s] = AddTurn(m, only, it[s \ {Max(s)}], [t \in DOMAIN Threads |-> t][Max(s)])
    BY <1>5, <1>8
  <2>3. QED
    BY <1>8, <2>1, <2>2
<1>9. it[1..n] \in I
  BY <1>7, <1>8, FoldKeeps
<1>10. QED
  BY <1>6, <1>9

-----------------------------------------------------------------------------
(* The tags of the articles *)

ArtRecs == [status : {"ART_READ", "ART_UNREAD", "ART_WILL_RETURN"}, tagged : Int,
            selected : BOOLEAN, zombie : BOOLEAN, inrange : BOOLEAN]
Markings == [arts : [Arts -> ArtRecs], tags : Int, hot : Int]

\* The tags of s are the numbers up to s.tags, each once and on the articles shown.
Numbered(s, shown) ==
  /\ s.tags \in Nat
  /\ \A a \in Arts : s.arts[a].tagged # 0 => a \in shown /\ s.arts[a].tagged \in 1..s.tags
  /\ \A n \in 1..s.tags : \E a \in Arts : s.arts[a].tagged = n
  /\ \A a, b \in Arts : s.arts[a].tagged = s.arts[b].tagged /\ s.arts[a].tagged # 0 => a = b

\* The same tags as in m.
Alike(m) == {s \in Markings : s.tags = m.tags /\ \A a \in Arts : s.arts[a].tagged = m.arts[a].tagged}
Numberings(shown) == {s \in Markings : Numbered(s, shown)}

MarksInv ==
  /\ M \in Markings
  /\ base \in Seq(DOMAIN Threads)
  /\ strayed \in BOOLEAN
  /\ ~strayed => Numbered(M, InBase)

\* s is a marking, whose tags are a numbering if those of m are.
Keeps(m, s) == s \in Markings /\ (Numbered(m, InBase) => Numbered(s, InBase))

LEMMA AlikeKeeps ==
  ASSUME NEW m \in Markings, NEW s \in Alike(m)
  PROVE  Keeps(m, s)
BY DEF Alike, Keeps, Numbered, Markings

(* The marks besides the tags *)

\* Markings with other marks on all articles, or on one.
WithAll(s, f) == [s EXCEPT !.arts = f]
WithOne(s, a, rec) == [s EXCEPT !.arts = [s.arts EXCEPT ![a] = rec]]
WithHot(s, a, rec, hot) == [s EXCEPT !.arts = [s.arts EXCEPT ![a] = rec], !.hot = hot]

LEMMA AllAlike ==
  ASSUME NEW m \in Markings, NEW s \in Alike(m), NEW f \in [Arts -> ArtRecs],
         \A a \in Arts : f[a].tagged = s.arts[a].tagged
  PROVE  WithAll(s, f) \in Alike(m)
<1>1. s \in Markings
  BY DEF Alike
<1>2. WithAll(s, f) \in Markings /\ WithAll(s, f).arts = f /\ WithAll(s, f).tags = s.tags
  BY <1>1 DEF Markings, WithAll
<1>3. QED
  BY <1>2 DEF Alike

LEMMA OneAlike ==
  ASSUME NEW m \in Markings, NEW s \in Alike(m), NEW a, NEW rec, NEW hot \in Int,
         a \in Arts => rec \in ArtRecs /\ rec.tagged = s.arts[a].tagged
  PROVE  WithOne(s, a, rec) \in Alike(m) /\ WithHot(s, a, rec, hot) \in Alike(m)
<1> DEFINE f == [s.arts EXCEPT ![a] = rec]
<1>1. s \in Markings /\ s.arts \in [Arts -> ArtRecs]
  BY DEF Alike, Markings
<1>2. f \in [Arts -> ArtRecs] /\ \A b \in Arts : f[b].tagged = s.arts[b].tagged
  <2> HIDE DEF ArtRecs
  <2>1. QED
    BY <1>1
<1> HIDE DEF f
<1>3. ASSUME NEW r, r = [s EXCEPT !.arts = f] \/ r = [s EXCEPT !.arts = f, !.hot = hot]
      PROVE  r \in Alike(m)
  <2>1. r \in Markings /\ r.arts = f /\ r.tags = s.tags
    BY <1>1, <1>2, <1>3 DEF Markings
  <2>2. QED
    BY <1>2, <2>1 DEF Alike
<1>4. QED
  BY <1>3 DEF f, WithOne, WithHot

LEMMA ReadAlike ==
  ASSUME NEW m \in Markings, NEW s \in Alike(m), NEW a
  PROVE  art_mark_read(s, a) \in Alike(m)
<1> DEFINE rec == [s.arts[a] EXCEPT !.status = "ART_READ"]
           hot == IF s.arts[a].selected /\ s.hot # 0 THEN s.hot - 1 ELSE s.hot
<1>1. s \in Markings
  BY DEF Alike
<1>2. a \in Arts => rec \in ArtRecs /\ rec.tagged = s.arts[a].tagged
  BY <1>1 DEF Markings, ArtRecs
<1>3. hot \in Int
  BY <1>1 DEF Markings
<1>4. \/ art_mark_read(s, a) = s
      \/ art_mark_read(s, a) = WithHot(s, a, rec, hot)
  BY DEF art_mark_read, WithHot
<1> HIDE DEF rec, hot
<1>5. QED
  BY <1>2, <1>3, <1>4, OneAlike

LEMMA UnreadAlike ==
  ASSUME NEW m \in Markings, NEW s \in Alike(m), NEW a
  PROVE  art_mark_unread(s, a) \in Alike(m) /\ art_mark_will_return(s, a) \in Alike(m)
<1>1. s \in Markings
  BY DEF Alike
<1>2. ASSUME NEW status \in {"ART_UNREAD", "ART_WILL_RETURN"}
      PROVE  MarkUnreadAs(s, a, status) \in Alike(m)
  <2> DEFINE rec == [s.arts[a] EXCEPT !.status = status]
             hot == IF s.arts[a].selected THEN s.hot + 1 ELSE s.hot
  <2>1. a \in Arts => rec \in ArtRecs /\ rec.tagged = s.arts[a].tagged
    BY <1>1 DEF Markings, ArtRecs
  <2>2. hot \in Int
    BY <1>1 DEF Markings
  <2>3. \/ MarkUnreadAs(s, a, status) = s
        \/ MarkUnreadAs(s, a, status) = WithHot(s, a, rec, hot)
    BY DEF MarkUnreadAs, WithHot
  <2> HIDE DEF rec, hot
  <2>4. QED
    BY <2>1, <2>2, <2>3, OneAlike
<1>3. QED
  BY <1>2 DEF art_mark_unread, art_mark_will_return

LEMMA FlagAlike ==
  ASSUME NEW m \in Markings, NEW s \in Alike(m), NEW a, NEW flag \in BOOLEAN
  PROVE  /\ [s EXCEPT !.arts[a].inrange = flag] \in Alike(m)
         /\ [s EXCEPT !.arts[a].zombie = flag] \in Alike(m)
<1>1. s \in Markings
  BY DEF Alike
<1>2. a \in Arts => /\ [s.arts[a] EXCEPT !.inrange = flag] \in ArtRecs
                    /\ [s.arts[a] EXCEPT !.zombie = flag] \in ArtRecs
                    /\ [s.arts[a] EXCEPT !.inrange = flag].tagged = s.arts[a].tagged
                    /\ [s.arts[a] EXCEPT !.zombie = flag].tagged = s.arts[a].tagged
  BY <1>1 DEF Markings, ArtRecs
<1>3. /\ WithOne(s, a, [s.arts[a] EXCEPT !.inrange = flag]) \in Alike(m)
      /\ WithOne(s, a, [s.arts[a] EXCEPT !.zombie = flag]) \in Alike(m)
  <2> DEFINE r1 == [s.arts[a] EXCEPT !.inrange = flag]
             r2 == [s.arts[a] EXCEPT !.zombie = flag]
  <2>1. s.hot \in Int /\ (a \in Arts => /\ r1 \in ArtRecs /\ r1.tagged = s.arts[a].tagged
                                         /\ r2 \in ArtRecs /\ r2.tagged = s.arts[a].tagged)
    BY <1>1, <1>2 DEF Markings
  <2> HIDE DEF r1, r2
  <2>2. WithOne(s, a, r1) \in Alike(m) /\ WithOne(s, a, r2) \in Alike(m)
    BY <2>1, OneAlike
  <2>3. QED
    BY <2>2 DEF r1, r2
<1>4. QED
  BY <1>3 DEF WithOne

LEMMA SelectAlike ==
  ASSUME NEW m \in Markings, NEW s \in Alike(m), NEW seq, NEW flag \in BOOLEAN
  PROVE  Select(s, seq, flag) \in Alike(m)
<1> DEFINE f == [a \in Arts |-> IF a \in ToSet(seq) THEN [s.arts[a] EXCEPT !.selected = flag]
                                ELSE s.arts[a]]
<1>1. \A a \in Arts : f[a] \in ArtRecs /\ f[a].tagged = s.arts[a].tagged
  BY DEF Alike, Markings, ArtRecs
<1>2. f \in [Arts -> ArtRecs]
  BY <1>1
<1>3. Select(s, seq, flag) = WithAll(s, f)
  BY DEF Select, WithAll
<1> HIDE DEF f
<1>4. QED
  BY <1>1, <1>2, <1>3, AllAlike

\* One turn of a loop, and the loop.
LEMMA RangeAlike ==
  ASSUME NEW m \in Markings, NEW seq, NEW n \in Nat, DOMAIN seq = 1..n
  PROVE  /\ MarkRange(m, seq, art_mark_read) \in Alike(m)
         /\ MarkRange(m, seq, art_mark_will_return) \in Alike(m)
<1>1. m \in Alike(m)
  BY DEF Alike
<1>2. ASSUME NEW s \in Alike(m), NEW a
      PROVE  /\ RangeTurn(s, a, art_mark_read) \in Alike(m)
             /\ RangeTurn(s, a, art_mark_will_return) \in Alike(m)
  <2>1. art_mark_read(s, a) \in Alike(m) /\ art_mark_will_return(s, a) \in Alike(m)
    BY ReadAlike, UnreadAlike
  <2>2. [art_mark_read(s, a) EXCEPT !.arts[a].inrange = FALSE] \in Alike(m)
    BY <2>1, FlagAlike
  <2>3. [art_mark_will_return(s, a) EXCEPT !.arts[a].inrange = FALSE] \in Alike(m)
    BY <2>1, FlagAlike
  <2>4. QED
    BY <2>2, <2>3 DEF RangeTurn
<1>3. MarkRange(m, seq, art_mark_read) \in Alike(m)
  BY <1>1, <1>2, RangeRead
<1>4. MarkRange(m, seq, art_mark_will_return) \in Alike(m)
  BY <1>1, <1>2, RangeReturn
<1>5. QED
  BY <1>3, <1>4

LEMMA OverAlike ==
  ASSUME NEW m \in Markings, NEW seq, NEW n \in Nat, DOMAIN seq = 1..n
  PROVE  Over(art_mark_read, seq, m) \in Alike(m) /\ Over(art_mark_will_return, seq, m) \in Alike(m)
<1>1. m \in Alike(m)
  BY DEF Alike
<1>2. \A s \in Alike(m), k \in 1..n : art_mark_read(s, seq[k]) \in Alike(m)
  BY ReadAlike
<1>3. \A s \in Alike(m), k \in 1..n : art_mark_will_return(s, seq[k]) \in Alike(m)
  BY UnreadAlike
<1>4. Over(art_mark_read, seq, m) \in Alike(m)
  BY <1>1, <1>2, OverRead
<1>5. Over(art_mark_will_return, seq, m) \in Alike(m)
  BY <1>1, <1>3, OverReturn
<1>6. QED
  BY <1>4, <1>5

LEMMA TopType == Cardinality(Arts) \in Nat /\ DOMAIN Top = 1..Cardinality(Arts)
BY MarksAssumption, FS_CardinalityType DEF Top

LEMMA LoopsAlike ==
  ASSUME NEW m \in Markings, base \in Seq(DOMAIN Threads)
  PROVE  /\ MarkUnselArtRead(m) \in Alike(m)
         /\ UndoAutoSelect(m) \in Alike(m)
         /\ SelThdIfUnreadSelected(m) \in Alike(m)
<1>1. m \in Alike(m)
  BY DEF Alike
<1>2. ASSUME NEW s \in Alike(m), NEW a PROVE UnselTurn(s, a) \in Alike(m)
  <2>1. art_mark_read(s, a) \in Alike(m)
    BY ReadAlike
  <2>2. [art_mark_read(s, a) EXCEPT !.arts[a].zombie = TRUE] \in Alike(m)
    BY <2>1, FlagAlike
  <2>3. QED
    BY <2>2 DEF UnselTurn
<1>3. ASSUME NEW s \in Alike(m), NEW a PROVE UndoTurn(s, a) \in Alike(m)
  <2>1. art_mark_unread(s, a) \in Alike(m)
    BY UnreadAlike
  <2>2. [art_mark_unread(s, a) EXCEPT !.arts[a].zombie = FALSE] \in Alike(m)
    BY <2>1, FlagAlike
  <2>3. QED
    BY <2>2 DEF UndoTurn
<1>4. ASSUME NEW s \in Alike(m), NEW b PROVE HotTurn(s, b) \in Alike(m)
  BY SelectAlike DEF HotTurn
<1>5. MarkUnselArtRead(m) \in Alike(m)
  BY <1>1, <1>2, TopType, UnselLoop
<1>6. UndoAutoSelect(m) \in Alike(m)
  BY <1>1, <1>3, TopType, UndoLoop
<1>7. Len(base) \in Nat /\ DOMAIN [b \in DOMAIN base |-> b] = 1..Len(base)
  OBVIOUS
<1>8. \A s \in Alike(m), k \in 1..Len(base) : HotTurn(s, [b \in DOMAIN base |-> b][k]) \in Alike(m)
  BY <1>4
<1>9. SelThdIfUnreadSelected(m) \in Alike(m)
  BY <1>1, <1>7, <1>8, HotLoop
<1>10. QED
  BY <1>5, <1>6, <1>9

LEMMA ArraysAlike ==
  ASSUME NEW m \in Markings, NEW s \in Alike(m), NEW b, NEW lo, NEW hi, NEW seq
  PROVE  /\ ToggleThdSel(s, b) \in Alike(m) /\ ReverseSel(s, seq) \in Alike(m)
         /\ UndoSel(s) \in Alike(m)
         /\ bSetRange(s, lo, hi) \in Alike(m) /\ ThreadRange(s, b, lo, hi) \in Alike(m)
<1>1. s.arts \in [Arts -> ArtRecs]
  BY DEF Alike, Markings
<1>2. ASSUME NEW a \in Arts, NEW flag \in BOOLEAN
      PROVE  /\ [s.arts[a] EXCEPT !.selected = flag] \in ArtRecs
             /\ [s.arts[a] EXCEPT !.selected = flag].tagged = s.arts[a].tagged
             /\ [s.arts[a] EXCEPT !.selected = FALSE, !.zombie = FALSE] \in ArtRecs
             /\ [s.arts[a] EXCEPT !.selected = FALSE, !.zombie = FALSE].tagged = s.arts[a].tagged
             /\ [s.arts[a] EXCEPT !.inrange = flag] \in ArtRecs
             /\ [s.arts[a] EXCEPT !.inrange = flag].tagged = s.arts[a].tagged
             /\ s.arts[a] \in ArtRecs
             /\ s.arts[a].selected \in BOOLEAN /\ s.arts[a].inrange \in BOOLEAN
  BY <1>1 DEF ArtRecs
<1>3. ToggleThdSel(s, b) \in Alike(m)
  BY SelectAlike DEF ToggleThdSel
<1> HIDE DEF ArtRecs
<1>4. ReverseSel(s, seq) \in Alike(m)
  <2> DEFINE f == [a \in Arts |-> IF a \in ToSet(seq)
                                  THEN [s.arts[a] EXCEPT !.selected = ~s.arts[a].selected]
                                  ELSE s.arts[a]]
  <2>1. f \in [Arts -> ArtRecs] /\ \A a \in Arts : f[a].tagged = s.arts[a].tagged
    BY <1>2
  <2>2. ReverseSel(s, seq) = WithAll(s, f)
    BY DEF ReverseSel, WithAll
  <2> HIDE DEF f
  <2>3. QED
    BY <2>1, <2>2, AllAlike
<1>5. UndoSel(s) \in Alike(m)
  <2> DEFINE f == [a \in Arts |-> [s.arts[a] EXCEPT !.selected = FALSE, !.zombie = FALSE]]
  <2>1. f \in [Arts -> ArtRecs] /\ \A a \in Arts : f[a].tagged = s.arts[a].tagged
    BY <1>2
  <2>2. UndoSel(s) = WithAll(s, f)
    BY DEF UndoSel, WithAll
  <2> HIDE DEF f
  <2>3. QED
    BY <2>1, <2>2, AllAlike
<1>6. bSetRange(s, lo, hi) \in Alike(m)
  <2> DEFINE in(a) == a \in InRange(lo, hi) \/ (s.arts[a].inrange /\ a \notin vDelRange)
             f == [a \in Arts |-> [s.arts[a] EXCEPT !.inrange = in(a)]]
  <2>1. \A a \in Arts : in(a) \in BOOLEAN
    OBVIOUS
  <2>2. bSetRange(s, lo, hi) = WithAll(s, f)
    BY DEF bSetRange, WithAll
  <2> HIDE DEF in
  <2>3. f \in [Arts -> ArtRecs] /\ \A a \in Arts : f[a].tagged = s.arts[a].tagged
    BY <1>2, <2>1
  <2> HIDE DEF f
  <2>4. QED
    BY <2>2, <2>3, AllAlike
<1>7. ThreadRange(s, b, lo, hi) \in Alike(m)
  <2> DEFINE in(a) == \/ \E k \in DOMAIN Thread(b) : Thread(b)[k] = a /\ k - 1 \in lo..hi
                      \/ s.arts[a].inrange /\ a >= GroupTop - 1
             f == [a \in Arts |-> [s.arts[a] EXCEPT !.inrange = in(a)]]
  <2>1. \A a \in Arts : in(a) \in BOOLEAN
    OBVIOUS
  <2>2. ThreadRange(s, b, lo, hi) = WithAll(s, f)
    BY DEF ThreadRange, WithAll
  <2> HIDE DEF in
  <2>3. f \in [Arts -> ArtRecs] /\ \A a \in Arts : f[a].tagged = s.arts[a].tagged
    BY <1>2, <2>1
  <2> HIDE DEF f
  <2>4. QED
    BY <2>2, <2>3, AllAlike
<1>8. QED
  BY <1>3, <1>4, <1>5, <1>6, <1>7

LEMMA BaseRangeAlike ==
  ASSUME NEW m \in Markings, base \in Seq(DOMAIN Threads)
  PROVE  MarkBaseRange(m) \in Alike(m)
<1> DEFINE seq == [b \in DOMAIN base |-> First(b)]
           done == MarkRange(m, seq, art_mark_will_return)
           hit == {b \in DOMAIN base : m.arts[First(b)].inrange}
           out == UNION {ToSet(Thread(b)) : b \in hit}
           f == [a \in Arts |-> IF a \in out THEN [done.arts[a] EXCEPT !.inrange = FALSE]
                                ELSE done.arts[a]]
<1>1. Len(base) \in Nat /\ DOMAIN seq = 1..Len(base)
  OBVIOUS
<1>2. MarkBaseRange(m) = WithAll(done, f)
  BY DEF MarkBaseRange, WithAll
<1> HIDE DEF seq, out
<1>3. done \in Alike(m)
  BY <1>1, RangeAlike
<1> HIDE DEF done
<1>4. done.arts \in [Arts -> ArtRecs]
  BY <1>3 DEF Alike, Markings
<1>5. ASSUME NEW a \in Arts
      PROVE  /\ [done.arts[a] EXCEPT !.inrange = FALSE] \in ArtRecs
             /\ [done.arts[a] EXCEPT !.inrange = FALSE].tagged = done.arts[a].tagged
  BY <1>4 DEF ArtRecs
<1>6. f \in [Arts -> ArtRecs] /\ \A a \in Arts : f[a].tagged = done.arts[a].tagged
  BY <1>4, <1>5
<1> HIDE DEF f
<1>7. QED
  BY <1>2, <1>3, <1>6, AllAlike

(* Tagging *)

\* The threads that are shown are sequences of articles.
LEMMA ThreadType ==
  ASSUME base \in Seq(DOMAIN Threads), NEW b \in DOMAIN base
  PROVE  /\ Thread(b) \in Seq(Arts) /\ Thread(b) # <<>>
         /\ \A k \in 1..Len(Thread(b)) : Thread(b)[k] \in Arts /\ Thread(b)[k] \in InBase
         /\ First(b) \in Arts /\ First(b) \in InBase
<1>1. base[b] \in DOMAIN Threads
  OBVIOUS
<1>2. Thread(b) \in Seq(Arts) /\ Thread(b) # <<>>
  BY <1>1, MarksAssumption DEF Thread
<1>3. ToSet(Thread(b)) \subseteq InBase
  BY DEF InBase
<1>4. ASSUME NEW k \in 1..Len(Thread(b)) PROVE Thread(b)[k] \in Arts /\ Thread(b)[k] \in InBase
  BY <1>2, <1>3 DEF ToSet
<1>5. First(b) = Thread(b)[1] /\ 1 \in 1..Len(Thread(b))
  BY <1>2 DEF First
<1>6. QED
  BY <1>2, <1>4, <1>5

LEMMA TagType ==
  ASSUME NEW s \in Markings, NEW a \in Arts
  PROVE  /\ Tag(s, a) \in Markings
         /\ s.arts[a].tagged # 0 => Tag(s, a) = s
         /\ s.arts[a].tagged = 0 =>
              /\ Tag(s, a).tags = s.tags + 1
              /\ \A b \in Arts : Tag(s, a).arts[b].tagged =
                                   IF b = a THEN s.tags + 1 ELSE s.arts[b].tagged
<1> DEFINE rec == [s.arts[a] EXCEPT !.tagged = s.tags + 1]
           f == [s.arts EXCEPT ![a] = rec]
           up == s.tags + 1
           r == [s EXCEPT !.arts = f, !.tags = up]
<1>1. s.arts \in [Arts -> ArtRecs] /\ s.tags \in Int /\ up \in Int
  BY DEF Markings
<1>2. rec \in ArtRecs /\ rec.tagged = s.tags + 1
  BY <1>1 DEF ArtRecs
<1> HIDE DEF rec, ArtRecs
<1>3. /\ f \in [Arts -> ArtRecs] /\ f[a] = rec
      /\ \A b \in Arts : b # a => f[b] = s.arts[b]
  BY <1>1, <1>2
<1>4. Tag(s, a) = IF s.arts[a].tagged # 0 THEN s ELSE r
  BY DEF Tag, rec
<1> HIDE DEF f, up
<1>5. r \in Markings /\ r.arts = f /\ r.tags = up
  BY <1>1, <1>3 DEF Markings
<1> HIDE DEF r
<1>6. QED
  BY <1>2, <1>3, <1>4, <1>5 DEF up

LEMMA TagNumbered ==
  ASSUME NEW s \in Numberings(InBase), NEW a \in Arts, a \in InBase
  PROVE  Tag(s, a) \in Numberings(InBase)
<1>1. s \in Markings /\ Numbered(s, InBase)
  BY DEF Numberings
<1>2. CASE s.arts[a].tagged # 0
  BY <1>1, <1>2, TagType
<1>3. CASE s.arts[a].tagged = 0
  <2> DEFINE r == Tag(s, a)
  <2>1. /\ r \in Markings /\ r.tags = s.tags + 1
        /\ \A b \in Arts : r.arts[b].tagged = IF b = a THEN s.tags + 1 ELSE s.arts[b].tagged
    BY <1>1, <1>3, TagType
  <2> HIDE DEF r
  <2>2. s.tags \in Nat /\ r.tags \in Nat
    BY <1>1, <2>1 DEF Numbered
  <2>3. ASSUME NEW b \in Arts, r.arts[b].tagged # 0 PROVE b \in InBase /\ r.arts[b].tagged \in 1..r.tags
    BY <1>1, <2>1, <2>2, <2>3 DEF Numbered
  <2>4. ASSUME NEW n \in 1..r.tags PROVE \E b \in Arts : r.arts[b].tagged = n
    <3>1. CASE n = s.tags + 1
      BY <2>1, <3>1
    <3>2. CASE n # s.tags + 1
      <4>1. n \in 1..s.tags
        BY <2>1, <2>2, <3>2
      <4>2. PICK b \in Arts : s.arts[b].tagged = n
        BY <1>1, <4>1 DEF Numbered
      <4>3. b # a
        BY <1>3, <4>1, <4>2
      <4>4. QED
        BY <2>1, <4>2, <4>3
    <3>3. QED
      BY <3>1, <3>2
  <2>5. ASSUME NEW b \in Arts, NEW c \in Arts,
               r.arts[b].tagged = r.arts[c].tagged, r.arts[b].tagged # 0
        PROVE  b = c
    <3>1. \A d \in Arts : s.arts[d].tagged # 0 => s.arts[d].tagged \in 1..s.tags
      BY <1>1 DEF Numbered
    <3>2. CASE b = a
      BY <2>1, <2>2, <2>5, <3>1, <3>2
    <3>3. CASE c = a
      BY <2>1, <2>2, <2>5, <3>1, <3>3
    <3>4. CASE b # a /\ c # a
      BY <1>1, <2>1, <2>5, <3>4 DEF Numbered
    <3>5. QED
      BY <3>2, <3>3, <3>4
  <2>6. QED
    BY <2>1, <2>2, <2>3, <2>4, <2>5 DEF Numberings, Numbered, r
<1>4. QED
  BY <1>2, <1>3

LEMMA UntagType ==
  ASSUME NEW s \in Markings, NEW a \in Arts
  PROVE  /\ Untag(s, a) \in Markings
         /\ s.arts[a].tagged = 0 => Untag(s, a) = s
         /\ s.arts[a].tagged # 0 =>
              /\ Untag(s, a).tags = s.tags - 1
              /\ \A b \in Arts : Untag(s, a).arts[b].tagged =
                   IF b = a THEN 0
                   ELSE IF b \in InBase /\ s.arts[b].tagged > s.arts[a].tagged
                   THEN s.arts[b].tagged - 1 ELSE s.arts[b].tagged
<1> DEFINE tag == s.arts[a].tagged
           d == [b \in Arts |-> IF b \in InBase /\ s.arts[b].tagged > tag
                                THEN [s.arts[b] EXCEPT !.tagged = s.arts[b].tagged - 1]
                                ELSE s.arts[b]]
           t == [s EXCEPT !.arts = d]
           rec == [d[a] EXCEPT !.tagged = 0]
           f == [d EXCEPT ![a] = rec]
           down == t.tags - 1
           r == [t EXCEPT !.arts = f, !.tags = down]
<1>1. s.arts \in [Arts -> ArtRecs] /\ s.tags \in Int
  BY DEF Markings
<1>2. ASSUME NEW b \in Arts
      PROVE  /\ s.arts[b] \in ArtRecs /\ s.arts[b].tagged \in Int
             /\ [s.arts[b] EXCEPT !.tagged = s.arts[b].tagged - 1] \in ArtRecs
             /\ [s.arts[b] EXCEPT !.tagged = s.arts[b].tagged - 1].tagged = s.arts[b].tagged - 1
  BY <1>1 DEF ArtRecs
<1>3. Untag(s, a) = IF tag = 0 THEN s ELSE r
  BY DEF Untag, decr_tagged
<1> HIDE DEF ArtRecs
<1>4. /\ d \in [Arts -> ArtRecs]
      /\ \A b \in Arts : d[b].tagged = IF b \in InBase /\ s.arts[b].tagged > tag
                                       THEN s.arts[b].tagged - 1 ELSE s.arts[b].tagged
  BY <1>2
<1> HIDE DEF d
<1>5. rec \in ArtRecs /\ rec.tagged = 0
  BY <1>4 DEF ArtRecs
<1> HIDE DEF rec
<1>6. /\ f \in [Arts -> ArtRecs] /\ f[a] = rec
      /\ \A b \in Arts : b # a => f[b] = d[b]
  BY <1>4, <1>5
<1> HIDE DEF f
<1>7. t \in Markings /\ t.tags = s.tags
  BY <1>1, <1>4 DEF Markings
<1> HIDE DEF t
<1>10. down \in Int /\ down = s.tags - 1
  BY <1>1, <1>7
<1> HIDE DEF down
<1>8. r \in Markings /\ r.arts = f /\ r.tags = down
  BY <1>6, <1>7, <1>10 DEF Markings
<1> HIDE DEF r
<1>9. QED
  BY <1>3, <1>4, <1>5, <1>6, <1>8, <1>10

LEMMA UntagNumbered ==
  ASSUME NEW s \in Numberings(InBase), NEW a \in Arts, a \in InBase
  PROVE  Untag(s, a) \in Numberings(InBase)
<1>1. s \in Markings /\ Numbered(s, InBase)
  BY DEF Numberings
<1>2. CASE s.arts[a].tagged = 0
  BY <1>1, <1>2, UntagType
<1>3. CASE s.arts[a].tagged # 0
  <2> DEFINE r == Untag(s, a)
             tag == s.arts[a].tagged
  <2>1. /\ r \in Markings /\ r.tags = s.tags - 1
        /\ \A b \in Arts : r.arts[b].tagged =
             IF b = a THEN 0 ELSE IF b \in InBase /\ s.arts[b].tagged > tag
                                  THEN s.arts[b].tagged - 1 ELSE s.arts[b].tagged
    BY <1>1, <1>3, UntagType
  <2> HIDE DEF r
  <2>2. /\ s.tags \in Nat /\ tag \in 1..s.tags
        /\ \A b \in Arts : s.arts[b].tagged # 0 => b \in InBase /\ s.arts[b].tagged \in 1..s.tags
        /\ \A b, c \in Arts : s.arts[b].tagged = s.arts[c].tagged /\ s.arts[b].tagged # 0 => b = c
    BY <1>1, <1>3 DEF Numbered
  <2> HIDE DEF tag
  <2>3. \A b \in Arts : b # a /\ s.arts[b].tagged # 0 => s.arts[b].tagged # tag
    BY <1>3, <2>2 DEF tag
  <2>4. \A b \in Arts : \/ s.arts[b].tagged = 0 /\ r.arts[b].tagged = 0
                        \/ b = a /\ r.arts[b].tagged = 0
                        \/ /\ s.arts[b].tagged \in 1..(tag - 1)
                           /\ r.arts[b].tagged = s.arts[b].tagged
                        \/ /\ s.arts[b].tagged \in (tag + 1)..s.tags
                           /\ r.arts[b].tagged = s.arts[b].tagged - 1
    BY <2>1, <2>2, <2>3
  <2>5. r.tags \in Nat
    BY <2>1, <2>2
  <2>6. ASSUME NEW b \in Arts, r.arts[b].tagged # 0 PROVE b \in InBase /\ r.arts[b].tagged \in 1..r.tags
    <3>1. s.arts[b].tagged # 0
      BY <2>2, <2>4, <2>6
    <3>2. QED
      BY <2>1, <2>2, <2>4, <2>6, <3>1
  <2>7. ASSUME NEW n \in 1..r.tags PROVE \E b \in Arts : r.arts[b].tagged = n
    <3> DEFINE k == IF n < tag THEN n ELSE n + 1
    <3>1. k \in 1..s.tags /\ k # tag
      BY <2>1, <2>2
    <3>2. PICK b \in Arts : s.arts[b].tagged = k
      BY <1>1, <3>1 DEF Numbered
    <3>3. b # a
      BY <3>1, <3>2 DEF tag
    <3>4. r.arts[b].tagged = n
      BY <2>1, <2>2, <3>1, <3>2, <3>3
    <3>5. QED
      BY <3>4
  <2>8. ASSUME NEW b \in Arts, NEW c \in Arts,
               r.arts[b].tagged = r.arts[c].tagged, r.arts[b].tagged # 0
        PROVE  b = c
    <3>1. s.arts[b].tagged = s.arts[c].tagged /\ s.arts[b].tagged # 0
      BY <2>2, <2>4, <2>8
    <3>2. QED
      BY <2>2, <3>1
  <2>9. QED
    BY <2>1, <2>5, <2>6, <2>7, <2>8 DEF Numberings, Numbered, r
<1>4. QED
  BY <1>2, <1>3

LEMMA UntagAllKeeps ==
  ASSUME NEW m \in Markings
  PROVE  untag_all_articles(m) \in Markings /\ Numbered(untag_all_articles(m), InBase)
<1> DEFINE f == [a \in Arts |-> [m.arts[a] EXCEPT !.tagged = 0]]
           none == 0
           r == [m EXCEPT !.arts = f, !.tags = none]
<1>1. m.arts \in [Arts -> ArtRecs]
  BY DEF Markings
<1>2. \A a \in Arts : f[a] \in ArtRecs /\ f[a].tagged = 0
  BY <1>1 DEF ArtRecs
<1>3. f \in [Arts -> ArtRecs]
  BY <1>2
<1>4. untag_all_articles(m) = r
  BY DEF untag_all_articles
<1>5. none \in Int
  OBVIOUS
<1> HIDE DEF f, none
<1>6. r \in Markings /\ r.arts = f /\ r.tags = none
  BY <1>3, <1>5 DEF Markings
<1> HIDE DEF r
<1>7. QED
  BY <1>2, <1>4, <1>6 DEF Numbered, none

\* Tagging, or untagging, articles that are shown one after the other.
LEMMA OverTagKeeps ==
  ASSUME NEW m \in Markings, NEW seq, NEW n \in Nat, DOMAIN seq = 1..n,
         \A k \in 1..n : seq[k] \in Arts /\ seq[k] \in InBase
  PROVE  Keeps(m, Over(Tag, seq, m)) /\ Keeps(m, Over(Untag, seq, m))
<1>1. \A s \in Markings, k \in 1..n : Tag(s, seq[k]) \in Markings /\ Untag(s, seq[k]) \in Markings
  BY TagType, UntagType
<1>2. Over(Tag, seq, m) \in Markings
  BY <1>1, OverTag
<1>3. Over(Untag, seq, m) \in Markings
  BY <1>1, OverUntag
<1>4. ASSUME Numbered(m, InBase)
      PROVE  Numbered(Over(Tag, seq, m), InBase) /\ Numbered(Over(Untag, seq, m), InBase)
  <2>1. m \in Numberings(InBase)
    BY <1>4 DEF Numberings
  <2>2. \A s \in Numberings(InBase), k \in 1..n : Tag(s, seq[k]) \in Numberings(InBase)
    BY TagNumbered
  <2>3. \A s \in Numberings(InBase), k \in 1..n : Untag(s, seq[k]) \in Numberings(InBase)
    BY UntagNumbered
  <2>4. Over(Tag, seq, m) \in Numberings(InBase)
    BY <2>1, <2>2, OverTag
  <2>5. Over(Untag, seq, m) \in Numberings(InBase)
    BY <2>1, <2>3, OverUntag
  <2>6. QED
    BY <2>4, <2>5 DEF Numberings
<1>5. QED
  BY <1>2, <1>3, <1>4 DEF Keeps

LEMMA KeepsTwice ==
  ASSUME NEW m, NEW s, NEW t, Keeps(m, s), Keeps(s, t)
  PROVE  Keeps(m, t)
BY DEF Keeps

LEMMA MinIn ==
  ASSUME NEW s \in SUBSET Nat, s # {}
  PROVE  Min(s) \in s
<1> DEFINE R == {x \in Nat \X Nat : x[1] < x[2]}
<1>1. IsWellFoundedOn(R, Nat)
  BY NatLessThanWellFounded DEF OpToRel
<1>2. PICK low \in s : \A y \in s : <<y, low>> \notin R
  BY <1>1, WFMin, Zenon
<1>3. ASSUME NEW y \in s PROVE low <= y
  <2>1. <<y, low>> \in Nat \X Nat /\ <<y, low>> \notin R
    BY <1>2
  <2>2. ~(<<y, low>>[1] < <<y, low>>[2])
    BY <2>1, Zenon
  <2>3. QED
    BY <2>2
<1>4. QED
  BY <1>3 DEF Min

LEMMA PartsShown ==
  ASSUME base \in Seq(DOMAIN Threads), NEW b \in DOMAIN base
  PROVE  \E n \in Nat : /\ DOMAIN get_multiparts(b) = 1..n
                        /\ \A k \in 1..n : /\ get_multiparts(b)[k] \in Arts
                                           /\ get_multiparts(b)[k] \in InBase
<1> DEFINE p == PartOf[First(b)]
           having(n) == {c \in DOMAIN base : LET q == PartOf[First(c)]
                                             IN q.of = p.of /\ q.nr = n}
           parts == [n \in 1..p.total |-> First(Min(having(n)))]
<1>1. p.total \in Nat
  BY ThreadType, MarksAssumption
<1>2. get_multiparts(b) = IF \E n \in 1..p.total : having(n) = {} THEN <<>> ELSE parts
  BY DEF get_multiparts
<1>3. CASE \E n \in 1..p.total : having(n) = {}
  <2>1. DOMAIN get_multiparts(b) = 1..0
    BY <1>2, <1>3
  <2>2. QED
    BY <2>1
<1>4. CASE ~ \E n \in 1..p.total : having(n) = {}
  <2>1. get_multiparts(b) = parts
    BY <1>2, <1>4
  <2>2. ASSUME NEW k \in 1..p.total PROVE parts[k] \in Arts /\ parts[k] \in InBase
    <3>1. having(k) \subseteq DOMAIN base /\ DOMAIN base \subseteq Nat /\ having(k) # {}
      BY <1>4
    <3> HIDE DEF having
    <3>2. Min(having(k)) \in DOMAIN base
      BY <3>1, MinIn
    <3>3. QED
      BY <3>2, ThreadType
  <2>3. DOMAIN parts = 1..p.total
    OBVIOUS
  <2> HIDE DEF p, parts
  <2>4. QED
    BY <1>1, <2>1, <2>2, <2>3
<1>5. QED
  BY <1>3, <1>4

\* The tagging keys of the pages.
LEMMA TagKeysKeep ==
  ASSUME NEW m \in Markings, base \in Seq(DOMAIN Threads), NEW b \in DOMAIN base,
         NEW a \in Arts, a \in InBase
  PROVE  Keeps(m, TagThread(m, b)) /\ Keeps(m, tag_multipart(m, b)) /\ Keeps(m, TagArticle(m, a))
<1>1. Keeps(m, TagThread(m, b))
  <2>1. Len(Thread(b)) \in Nat /\ DOMAIN Thread(b) = 1..Len(Thread(b))
    BY ThreadType
  <2>2. Keeps(m, Over(Tag, Thread(b), m)) /\ Keeps(m, Over(Untag, Thread(b), m))
    BY <2>1, ThreadType, OverTagKeeps
  <2>3. QED
    BY <2>2 DEF TagThread
<1>2. Keeps(m, tag_multipart(m, b))
  <2> DEFINE parts == get_multiparts(b)
  <2>1. PICK n \in Nat : DOMAIN parts = 1..n /\ \A k \in 1..n : parts[k] \in Arts /\ parts[k] \in InBase
    BY PartsShown
  <2> HIDE DEF parts
  <2>2. Keeps(m, Over(Untag, parts, m))
    BY <2>1, OverTagKeeps
  <2>3. Over(Untag, parts, m) \in Markings
    BY <2>2 DEF Keeps
  <2>4. Keeps(Over(Untag, parts, m), Over(Tag, parts, Over(Untag, parts, m)))
    BY <2>1, <2>3, OverTagKeeps
  <2>5. Keeps(m, Over(Tag, parts, Over(Untag, parts, m)))
    BY <2>2, <2>4, KeepsTwice
  <2>6. QED
    BY <2>5 DEF tag_multipart, parts
<1>3. Keeps(m, TagArticle(m, a))
  <2>1. Tag(m, a) \in Markings /\ Untag(m, a) \in Markings
    BY TagType, UntagType
  <2>2. ASSUME Numbered(m, InBase) PROVE Numbered(Tag(m, a), InBase) /\ Numbered(Untag(m, a), InBase)
    <3>1. m \in Numberings(InBase)
      BY <2>2 DEF Numberings
    <3>2. Tag(m, a) \in Numberings(InBase) /\ Untag(m, a) \in Numberings(InBase)
      BY <3>1, TagNumbered, UntagNumbered
    <3>3. QED
      BY <3>2 DEF Numberings
  <2>3. QED
    BY <2>1, <2>2 DEF TagArticle, Keeps
<1>4. QED
  BY <1>1, <1>2, <1>3

-----------------------------------------------------------------------------
(* The invariant of the marks *)

LEMMA ShownType ==
  ASSUME NEW m, NEW only
  PROVE  find_base(m, only) \in Seq(DOMAIN Threads)
<1> DEFINE I == Seq(DOMAIN Threads)
           ts == [t \in DOMAIN Threads |-> t]
<1>1. Len(Threads) \in Nat /\ DOMAIN Threads = 1..Len(Threads)
  BY MarksAssumption
<1>2. DOMAIN ts = 1..Len(Threads) /\ <<>> \in I
  BY <1>1
<1>3. ASSUME NEW s \in I, NEW k \in 1..Len(Threads) PROVE AddTurn(m, only, s, ts[k]) \in I
  <2>1. ts[k] \in DOMAIN Threads
    BY <1>1
  <2>2. Append(s, ts[k]) \in I
    BY <2>1
  <2> HIDE DEF I, ts
  <2>3. QED
    BY <2>2 DEF AddTurn
<1> HIDE DEF I
<1>4. find_base(m, only) \in I
  BY <1>1, <1>2, <1>3, FindBaseLoop
<1>5. QED
  BY <1>4 DEF I

LEMMA AlikeOf ==
  ASSUME NEW m \in Markings
  PROVE  m \in Alike(m) /\ Keeps(m, m) /\ \A s \in Alike(m) : Keeps(m, s)
<1>1. m \in Alike(m)
  BY DEF Alike
<1>2. QED
  BY <1>1, AlikeKeeps

LEMMA SetM ==
  ASSUME NEW m \in Markings, Set(m)
  PROVE  M' = m
BY DEF Set, M, Markings

\* A step that leaves the list of the threads alone.
LEMMA SetKeeps ==
  ASSUME MarksInv, NEW m, Keeps(M, m), Set(m), base' = base,
         strayed' \in BOOLEAN, strayed => strayed'
  PROVE  MarksInv'
<1>1. M' = m /\ m \in Markings
  BY SetM DEF Keeps
<1>2. InBase' = InBase
  BY DEF InBase, Thread
<1>3. ~strayed' => Numbered(m, InBase)
  BY DEF MarksInv, Keeps
<1>4. base' \in Seq(DOMAIN Threads)
  BY DEF MarksInv
<1>5. QED
  BY <1>1, <1>2, <1>3, <1>4 DEF MarksInv

LEMMA KeyKeeps ==
  ASSUME MarksInv, NEW m, Keeps(M, m), Key(m)
  PROVE  MarksInv'
<1>1. Set(m) /\ base' = base /\ strayed' \in BOOLEAN /\ (strayed => strayed')
  BY DEF Key, MarksInv
<1>2. QED
  BY <1>1, SetKeeps

LEMMA RebuildKeeps ==
  ASSUME MarksInv, NEW m \in Alike(M), NEW only, Rebuild(m, only)
  PROVE  MarksInv'
<1>1. M \in Markings /\ strayed \in BOOLEAN
  BY DEF MarksInv
<1>2. Keeps(M, m) /\ m \in Markings
  BY <1>1, AlikeKeeps DEF Keeps
<1>3. M' = m
  BY <1>2, SetM DEF Rebuild
<1>4. base' \in Seq(DOMAIN Threads)
  BY ShownType DEF Rebuild
<1>5. InBase' = UNION {ToSet(Threads[t]) : t \in ToSet(base')}
  BY <1>4 DEF InBase, Thread, ToSet
<1>6. /\ strayed' \in BOOLEAN
      /\ ~strayed' => ~strayed /\ \A a \in Arts : m.arts[a].tagged # 0 => a \in InBase'
  BY <1>1, <1>5 DEF Rebuild
<1>7. ~strayed' => Numbered(m, InBase')
  <2>1. ASSUME ~strayed' PROVE Numbered(m, InBase)
    BY <1>2, <1>6, <2>1 DEF MarksInv, Keeps
  <2>2. QED
    BY <1>6, <2>1 DEF Numbered
<1>8. QED
  BY <1>2, <1>3, <1>4, <1>6, <1>7 DEF MarksInv

LEMMA MarksStart == MInit => MarksInv
<1> SUFFICES ASSUME MInit PROVE MarksInv
  OBVIOUS
<1>1. NewArt \in ArtRecs /\ NewArt.tagged = 0
  BY DEF NewArt, ArtRecs
<1>2. M \in Markings /\ M.tags = 0 /\ \A a \in Arts : M.arts[a].tagged = 0
  BY <1>1 DEF MInit, M, Markings
<1>3. base \in Seq(DOMAIN Threads)
  BY ShownType DEF MInit
<1>4. Numbered(M, InBase)
  BY <1>2 DEF Numbered
<1>5. QED
  BY <1>2, <1>3, <1>4 DEF MarksInv, MInit

\* A key of the group, thread and article pages keeps the invariant.
LEMMA MarksStep ==
  ASSUME MarksInv, MNext
  PROVE  MarksInv'
<1>1. M \in Markings /\ base \in Seq(DOMAIN Threads)
  BY DEF MarksInv
<1>2. M \in Alike(M) /\ Keeps(M, M) /\ \A s \in Alike(M) : Keeps(M, s)
  BY <1>1, AlikeOf
<1>3. \A m : Keeps(M, m) /\ Key(m) => MarksInv'
  BY KeyKeeps
<1>4. \A m, only : m \in Alike(M) /\ Rebuild(m, only) => MarksInv'
  BY RebuildKeeps
<1>5. InBase \subseteq Arts
  <2>1. ASSUME NEW a \in InBase PROVE a \in Arts
    <3>1. PICK b \in DOMAIN base : a \in ToSet(Thread(b))
      BY DEF InBase
    <3>2. Thread(b) \in Seq(Arts)
      BY <1>1, ThreadType
    <3>3. QED
      BY <3>1, <3>2 DEF ToSet
  <2>2. QED
    BY <2>1
<1>6. ASSUME NEW b \in DOMAIN base
      PROVE  /\ Keeps(M, TagThread(M, b)) /\ Keeps(M, tag_multipart(M, b))
             /\ Keeps(M, Over(art_mark_read, Thread(b), M))
             /\ Keeps(M, Over(art_mark_will_return, Thread(b), M))
  <2>1. Len(Thread(b)) \in Nat /\ DOMAIN Thread(b) = 1..Len(Thread(b))
    BY <1>1, ThreadType
  <2>2. /\ Over(art_mark_read, Thread(b), M) \in Alike(M)
        /\ Over(art_mark_will_return, Thread(b), M) \in Alike(M)
    BY <1>1, <2>1, OverAlike
  <2>3. First(b) \in Arts /\ First(b) \in InBase
    BY <1>1, ThreadType
  <2>4. QED
    BY <1>1, <1>2, <2>2, <2>3, TagKeysKeep
<1>7. ASSUME NEW a \in InBase PROVE Keeps(M, TagArticle(M, a))
  <2>1. base # <<>> /\ \E b \in DOMAIN base : TRUE
    BY <1>1 DEF InBase
  <2>2. QED
    BY <1>1, <1>5, <2>1, TagKeysKeep
<1>8. \A a : art_mark_read(M, a) \in Alike(M) /\ art_mark_will_return(M, a) \in Alike(M)
  BY <1>1, <1>2, ReadAlike, UnreadAlike
<1>9. \A seq, flag : flag \in BOOLEAN => Select(M, seq, flag) \in Alike(M)
  BY <1>1, <1>2, SelectAlike
<1>10. /\ \A b : ToggleThdSel(M, b) \in Alike(M)
       /\ \A seq : ReverseSel(M, seq) \in Alike(M)
       /\ UndoSel(M) \in Alike(M)
       /\ \A lo, hi : bSetRange(M, lo, hi) \in Alike(M)
       /\ \A b, lo, hi : ThreadRange(M, b, lo, hi) \in Alike(M)
  BY <1>1, <1>2, ArraysAlike
<1>11. MarkUnselArtRead(M) \in Alike(M) /\ UndoAutoSelect(M) \in Alike(M)
       /\ SelThdIfUnreadSelected(M) \in Alike(M)
  BY <1>1, LoopsAlike
<1>12. /\ MarkRange(M, Top, art_mark_read) \in Alike(M)
       /\ MarkRange(M, Top, art_mark_will_return) \in Alike(M)
  BY <1>1, TopType, RangeAlike
<1>13. MarkBaseRange(M) \in Alike(M)
  BY <1>1, BaseRangeAlike
<1>14. CASE GroupTag \/ GroupTagParts
  BY <1>3, <1>6, <1>14 DEF GroupTag, GroupTagParts, Plain
<1>15. CASE ArticleTag
  BY <1>3, <1>7, <1>15 DEF ArticleTag, Plain
<1>16. CASE UntagAll
  <2>1. Keeps(M, untag_all_articles(M))
    BY <1>1, UntagAllKeeps DEF Keeps
  <2>2. QED
    BY <1>3, <1>16, <2>1 DEF UntagAll, Plain
<1>17. CASE GroupSelThd
  BY <1>2, <1>3, <1>9, <1>17 DEF GroupSelThd, Plain
<1>18. CASE GroupToggleThdSel \/ GroupReverseSel \/ GroupUndoSel
  BY <1>2, <1>3, <1>10, <1>18 DEF GroupToggleThdSel, GroupReverseSel, GroupUndoSel, Plain
<1>19. CASE GroupSelPattern
  BY <1>2, <1>3, <1>9, <1>19 DEF GroupSelPattern, Plain
<1>20. CASE GroupSelIfSelected
  BY <1>2, <1>3, <1>11, <1>20 DEF GroupSelIfSelected, Plain
<1>21. CASE ThreadSel
  <2>1. PICK b \in DOMAIN base :
          \/ Plain(ReverseSel(M, Thread(b)))
          \/ Plain(Select(M, Thread(b), FALSE))
          \/ \E a \in ToSet(Thread(b)) : Plain(Select(M, <<a>>, ~arts[a].selected))
    BY <1>21 DEF ThreadSel
  <2>2. CASE Plain(ReverseSel(M, Thread(b)))
    BY <1>2, <1>3, <1>10, <2>2 DEF Plain
  <2>3. CASE Plain(Select(M, Thread(b), FALSE))
    BY <1>2, <1>3, <1>9, <2>3 DEF Plain
  <2>4. CASE \E a \in ToSet(Thread(b)) : Plain(Select(M, <<a>>, ~arts[a].selected))
    <3>1. PICK a \in ToSet(Thread(b)) : Key(Select(M, <<a>>, ~arts[a].selected))
      BY <2>4 DEF Plain
    <3>2. (~arts[a].selected) \in BOOLEAN
      OBVIOUS
    <3>3. Select(M, <<a>>, ~arts[a].selected) \in Alike(M)
      BY <1>9, <3>2
    <3>4. QED
      BY <1>2, <1>3, <3>1, <3>3
  <2>5. QED
    BY <2>1, <2>2, <2>3, <2>4
<1>22. CASE ReadArticle \/ ReturnArticle
  BY <1>2, <1>3, <1>8, <1>22 DEF ReadArticle, ReturnArticle, Plain
<1>23. CASE SetRange \/ SetThreadRange
  BY <1>2, <1>3, <1>10, <1>23 DEF SetRange, SetThreadRange, Plain
<1>24. CASE MarkThdRead
  BY <1>2, <1>3, <1>6, <1>12, <1>24 DEF MarkThdRead
<1>25. CASE MarkArtUnread
  BY <1>2, <1>3, <1>8, <1>13, <1>25 DEF MarkArtUnread
<1>26. CASE MarkThdUnread
  BY <1>2, <1>3, <1>6, <1>12, <1>26 DEF MarkThdUnread
<1>27. CASE ToggleReadUnread
  BY <1>2, <1>4, <1>27 DEF ToggleReadUnread
<1>28. CASE GroupMarkUnselArtRead
  BY <1>2, <1>3, <1>4, <1>11, <1>28 DEF GroupMarkUnselArtRead
<1>29. CASE GroupDoAutoSel
  BY <1>2, <1>3, <1>4, <1>11, <1>29 DEF GroupDoAutoSel
<1>30. QED
  BY <1>14, <1>15, <1>16, <1>17, <1>18, <1>19, <1>20, <1>21, <1>22, <1>23, <1>24, <1>25,
     <1>26, <1>27, <1>28, <1>29 DEF MNext

\* A numbering has as many tagged articles as its highest number.
LEMMA InOrder ==
  ASSUME MarksInv
  PROVE  TagsInOrder
<1> SUFFICES ASSUME ~strayed PROVE /\ Cardinality(Tagged) = num_of_tagged_arts
                                   /\ {arts[a].tagged : a \in Tagged} = 1..num_of_tagged_arts
  BY DEF TagsInOrder
<1> DEFINE n == num_of_tagged_arts
<1>1. /\ n \in Nat
      /\ \A a \in Tagged : arts[a].tagged \in 1..n
      /\ \A k \in 1..n : \E a \in Tagged : arts[a].tagged = k
      /\ \A a, b \in Tagged : arts[a].tagged = arts[b].tagged => a = b
  BY DEF MarksInv, Numbered, M, Tagged
<1>2. {arts[a].tagged : a \in Tagged} = 1..n
  BY <1>1
<1>3. Cardinality(Tagged) = n
  <2> DEFINE g == [k \in 1..n |-> CHOOSE a \in Tagged : arts[a].tagged = k]
  <2>1. \A k \in 1..n : g[k] \in Tagged /\ arts[g[k]].tagged = k
    BY <1>1
  <2>2. g \in [1..n -> Tagged]
    BY <2>1
  <2>3. \A a \in Tagged : arts[a].tagged \in 1..n /\ g[arts[a].tagged] = a
    BY <1>1, <2>1
  <2> HIDE DEF g
  <2>4. g \in Bijection(1..n, Tagged)
    BY <2>1, <2>2, <2>3 DEF Bijection, Injection, Surjection, IsInjective
  <2>5. ExistsBijection(1..n, Tagged)
    BY <2>4 DEF ExistsBijection
  <2>6. IsFiniteSet(1..n) /\ Cardinality(1..n) = n
    BY <1>1, FS_Interval
  <2>7. QED
    BY <2>5, <2>6, FS_Bijection
<1>4. QED
  BY <1>2, <1>3

-----------------------------------------------------------------------------
(* The files *)

IsFile(s) == s # <<>> /\ \E S : s \in Seq(S)

\* What OldFilesKept says of one file, with the shape of what it holds.
StillThere(f) ==
  \/ f \in agreed
  \/ f \in deleted
  \/ f \in DOMAIN files /\ IsFile(files[f])
       /\ (Head(files[f]) = Old \/ f = BatchName(Head(files[f])))

FilesInv == \A f \in OldFiles : StillThere(f)

LEMMA Appended ==
  ASSUME NEW s, IsFile(s), NEW a
  PROVE  IsFile(Append(s, a)) /\ Head(Append(s, a)) = Head(s)
<1>1. PICK S : s \in Seq(S)
  BY DEF IsFile
<1>2. s \in Seq(S \cup {a}) /\ a \in S \cup {a} /\ s # <<>>
  BY <1>1 DEF IsFile
<1> DEFINE T == S \cup {a}
<1> HIDE DEF T
<1>3. Append(s, a) \in Seq(T) /\ Append(s, a) # <<>> /\ Head(Append(s, a)) = Head(s)
  BY <1>2 DEF T
<1>4. QED
  BY <1>3 DEF IsFile

More(g, a) == [h \in DOMAIN files \cup {g} |->
                IF h # g THEN files[h]
                ELSE IF Exists(g) THEN Append(files[g], a) ELSE <<a>>]
Anew(g, a) == [files EXCEPT ![g] = <<a>>]

LEMMA Written ==
  ASSUME NEW g, NEW a, NEW w \in save_art_to_file(g, a)
  PROVE  \/ w.over = {} /\ (w.files = files \/ w.files = More(g, a))
         \/ w.over = {g} /\ w.files = Anew(g, a)
<1> DEFINE more == [h \in DOMAIN files \cup {g} |->
                      IF h # g THEN files[h]
                      ELSE IF Exists(g) THEN Append(files[g], a) ELSE <<a>>]
           over == [files EXCEPT ![g] = <<a>>]
<1>1. \/ w = [saved |-> FALSE, files |-> files, over |-> {}]
      \/ w = [saved |-> TRUE, over |-> {}, files |-> more]
      \/ w = [saved |-> TRUE, over |-> {g}, files |-> over]
  BY Zenon DEF save_art_to_file
<1>2. more = More(g, a) /\ over = Anew(g, a)
  BY DEF More, Anew
<1> HIDE DEF more, over
<1>3. \/ w.over = {} /\ (w.files = files \/ w.files = more)
      \/ w.over = {g} /\ w.files = over
  BY <1>1
<1>4. QED
  BY <1>2, <1>3

\* An article that is written, or not, whatever the reader answers.
LEMMA WriteKeeps ==
  ASSUME FilesInv, NEW g, NEW a, NEW w \in save_art_to_file(g, a),
         files' = w.files, agreed' = agreed \cup w.over, deleted' = deleted
  PROVE  FilesInv'
<1> SUFFICES ASSUME NEW f \in OldFiles PROVE StillThere(f)'
  BY DEF FilesInv
<1>1. StillThere(f)
  BY DEF FilesInv
<1>2. CASE f \in agreed \/ f \in deleted
  BY <1>2 DEF StillThere
<1>3. CASE /\ f \in DOMAIN files /\ IsFile(files[f])
           /\ Head(files[f]) = Old \/ f = BatchName(Head(files[f]))
  <2>1. CASE w.over = {}
    <3>1. files' = files \/ files' = More(g, a)
      BY <2>1, Written
    <3>2. f \in DOMAIN files' /\ (files'[f] = files[f] \/ files'[f] = Append(files[f], a))
      BY <1>3, <3>1 DEF Exists, More
    <3>3. IsFile(files'[f]) /\ Head(files'[f]) = Head(files[f])
      BY <1>3, <3>2, Appended
    <3>4. QED
      BY <1>3, <3>2, <3>3 DEF StillThere, IsFile, BatchName
  <2>2. CASE w.over # {}
    <3>1. w.over = {g} /\ files' = Anew(g, a)
      BY <2>2, Written
    <3>2. CASE f = g
      BY <3>1, <3>2 DEF StillThere
    <3>3. CASE f # g
      <4>1. f \in DOMAIN files' /\ files'[f] = files[f]
        BY <1>3, <3>1, <3>3 DEF Anew
      <4>2. QED
        BY <1>3, <4>1 DEF StillThere, IsFile, BatchName
    <3>4. QED
      BY <3>2, <3>3
  <2>3. QED
    BY <2>1, <2>2
<1>4. QED
  BY <1>1, <1>2, <1>3 DEF StillThere

LEMMA DeleteKeeps ==
  ASSUME FilesInv, NEW all, NEW delete, delete_processed_files(all, delete), agreed' = agreed
  PROVE  FilesInv'
<1> SUFFICES ASSUME NEW f \in OldFiles PROVE StillThere(f)'
  BY DEF FilesInv
<1>1. StillThere(f)
  BY DEF FilesInv
<1>2. CASE f \in agreed \/ f \in deleted
  BY <1>2 DEF StillThere, delete_processed_files
<1>3. CASE /\ f \in DOMAIN files /\ IsFile(files[f])
           /\ Head(files[f]) = Old \/ f = BatchName(Head(files[f]))
  <2>1. f \in deleted' \/ (f \in DOMAIN files' /\ files'[f] = files[f])
    BY <1>3 DEF delete_processed_files
  <2>2. QED
    BY <1>3, <2>1 DEF StillThere, IsFile, BatchName
<1>4. QED
  BY <1>1, <1>2, <1>3 DEF StillThere

LEMMA BatchKeeps ==
  ASSUME FilesInv, NEW a, agreed' = agreed, deleted' = deleted,
         \/ files' = files
         \/ files' = [g \in DOMAIN files \cup {BatchName(a)} |->
                        IF g = BatchName(a) THEN <<a>> ELSE files[g]]
  PROVE  FilesInv'
<1> SUFFICES ASSUME NEW f \in OldFiles PROVE StillThere(f)'
  BY DEF FilesInv
<1>1. StillThere(f)
  BY DEF FilesInv
<1>2. CASE f \in agreed \/ f \in deleted
  BY <1>2 DEF StillThere
<1>3. CASE /\ f \in DOMAIN files /\ IsFile(files[f])
           /\ Head(files[f]) = Old \/ f = BatchName(Head(files[f]))
  <2>1. /\ f \in DOMAIN files'
        /\ files'[f] = files[f] \/ (f = BatchName(a) /\ files'[f] = <<a>>)
    BY <1>3
  <2>2. <<a>> # <<>> /\ <<a>> \in Seq({a}) /\ Head(<<a>>) = a
    OBVIOUS
  <2>3. IsFile(<<a>>)
    BY <2>2 DEF IsFile
  <2>4. CASE files'[f] = files[f]
    BY <1>3, <2>1, <2>4 DEF StillThere, IsFile, BatchName
  <2>5. CASE f = BatchName(a) /\ files'[f] = <<a>>
    BY <2>1, <2>2, <2>3, <2>5 DEF StillThere, IsFile, BatchName
  <2>6. QED
    BY <2>1, <2>4, <2>5
<1>4. QED
  BY <1>1, <1>2, <1>3 DEF StillThere

-----------------------------------------------------------------------------
(* The jobs *)

\* A job that goes on is a record of the shape that NewJob() gives it.
Shaped(j) ==
  j = [phase |-> j.phase, fn |-> j.fn, ch |-> j.ch, todo |-> j.todo, file |-> j.file,
       mailbox |-> j.mailbox, proc |-> j.proc, ok |-> j.ok, sigpipe |-> j.sigpipe,
       any |-> j.any, at |-> j.at, sent |-> j.sent, read |-> j.read]

\* What the program reports on at once.
Reports(j) ==
  \/ j.fn \in {"FEED_MAIL", "FEED_PRINT", "SAVE_ANY_NEWS"}
  \/ j.fn = "FEED_SAVE" /\ j.ch = "art"

Handled(j) == Reports(j) => j.read \subseteq j.sent

JobInv == \/ job = Idle
          \/ job = Dead
          \/ Shaped(job) /\ Handled(job)

FeedInv == MarksInv /\ FilesInv /\ JobInv

\* A job in a phase of its own is not one that is over.
LEMMA Going ==
  ASSUME JobInv, job.phase \notin {"idle", "crashed"}
  PROVE  Shaped(job) /\ Handled(job)
BY DEF JobInv, Idle, Dead

\* A job whose read and sent articles grew by the same one, or whose sent did.
LEMMA Grown ==
  ASSUME NEW j, Handled(j), NEW k, k.fn = j.fn, k.ch = j.ch, NEW a,
         \/ k.read = j.read /\ j.sent \subseteq k.sent
         \/ k.read = j.read \cup {a} /\ k.sent = j.sent \cup {a}
         \/ ~Reports(j)
  PROVE  Handled(k)
BY DEF Handled, Reports

LEMMA HotAlike ==
  ASSUME NEW m \in Markings, NEW a
  PROVE  [m EXCEPT !.arts[a].selected = FALSE, !.hot = @ - 1] \in Alike(m)
<1> DEFINE rec == [m.arts[a] EXCEPT !.selected = FALSE]
           hot == m.hot - 1
<1>1. a \in Arts => rec \in ArtRecs /\ rec.tagged = m.arts[a].tagged
  BY DEF Markings, ArtRecs
<1>2. hot \in Int /\ m \in Alike(m)
  BY AlikeOf DEF Markings
<1>3. [m EXCEPT !.arts[a].selected = FALSE, !.hot = @ - 1] = WithHot(m, a, rec, hot)
  BY DEF WithHot
<1> HIDE DEF rec, hot
<1>4. QED
  BY <1>1, <1>2, <1>3, OneAlike

\* The end of the turn of an article.
LEMMA TurnMarks ==
  ASSUME MarksInv, NEW j, NEW sent, Turn(j, sent), base' = base, strayed' = strayed
  PROVE  MarksInv'
<1> DEFINE a == Head(j.todo)
           m == art_mark_read(M, a)
           cold == [m EXCEPT !.arts[a].selected = FALSE, !.hot = @ - 1]
<1>1. M \in Markings /\ strayed \in BOOLEAN
  BY DEF MarksInv
<1>2. M \in Alike(M) /\ m \in Alike(M)
  BY <1>1, AlikeOf, ReadAlike
<1>3. m \in Markings
  BY <1>2 DEF Alike
<1>4. cold \in Alike(m)
  BY <1>3, HotAlike
<1>5. Keeps(M, M) /\ Keeps(M, m) /\ Keeps(m, cold)
  BY <1>1, <1>2, <1>3, <1>4, AlikeKeeps
<1>6. Keeps(M, cold)
  BY <1>5, KeepsTwice
<1>7. Set(M) \/ Set(m) \/ Set(cold)
  BY DEF Turn
<1> HIDE DEF cold, m
<1>8. QED
  BY <1>1, <1>5, <1>6, <1>7, SetKeeps

LEMMA TurnJob ==
  ASSUME NEW j, Shaped(j), NEW sent, Turn(j, sent)
  PROVE  /\ Shaped(job') /\ job'.fn = j.fn /\ job'.ch = j.ch
         /\ job'.read = j.read \cup (IF MarkSavedRead /\ j.ok THEN {Head(j.todo)} ELSE {})
         /\ job'.sent = j.sent \cup (IF sent THEN {Head(j.todo)} ELSE {})
<1> DEFINE sentNow == j.sent \cup (IF sent THEN {Head(j.todo)} ELSE {})
           readNow == j.read \cup (IF MarkSavedRead /\ j.ok THEN {Head(j.todo)} ELSE {})
           rest == Tail(j.todo)
<1>1. job' = [j EXCEPT !.todo = rest, !.sent = sentNow, !.read = readNow]
  BY DEF Turn, Next1, Shaped
<1> HIDE DEF sentNow, readNow, rest
<1>2. Shaped(job') /\ job'.fn = j.fn /\ job'.ch = j.ch /\ job'.read = readNow /\ job'.sent = sentNow
  BY <1>1 DEF Shaped
<1>3. QED
  BY <1>2 DEF sentNow, readNow

LEMMA NewJobShaped ==
  ASSUME NEW fn, NEW ch, NEW todo, NEW file, NEW mailbox, NEW proc
  PROVE  /\ Shaped(NewJob(fn, ch, todo, file, mailbox, proc))
         /\ Handled(NewJob(fn, ch, todo, file, mailbox, proc))
BY DEF Shaped, Handled, NewJob

LEMMA SameMarks ==
  ASSUME MarksInv, UNCHANGED mvars
  PROVE  MarksInv'
BY DEF MarksInv, mvars, marks, M, InBase, Thread

LEMMA SameFiles ==
  ASSUME FilesInv, UNCHANGED output
  PROVE  FilesInv'
BY DEF FilesInv, StillThere, output

LEMMA FeedBegins == FInit /\ MInit => FeedInv
<1> SUFFICES ASSUME FInit, MInit PROVE FeedInv
  OBVIOUS
<1>1. <<Old>> # <<>> /\ <<Old>> \in Seq({Old}) /\ Head(<<Old>>) = Old
  OBVIOUS
<1>2. FilesInv
  BY <1>1 DEF FInit, FilesInv, StillThere, IsFile
<1>3. QED
  BY <1>2, MarksStart DEF FInit, FeedInv, JobInv

\* The steps of a job, one action after the other.
LEMMA JobStep ==
  ASSUME FeedInv, Next, ~(job.phase = "idle" /\ MNext /\ UNCHANGED <<job, save, output, jobs>>)
  PROVE  FeedInv'
<1> USE DEF FeedInv
<1>1. ASSUME Looping PROVE Shaped(job) /\ Handled(job)
  BY <1>1, Going DEF Looping
<1>2. ASSUME NEW j, NEW sent, Turn(j, sent), UNCHANGED unmarked PROVE MarksInv'
  BY <1>2, TurnMarks DEF unmarked
<1>3. UNCHANGED output => FilesInv'
  BY SameFiles
<1>4. UNCHANGED mvars => MarksInv'
  BY SameMarks
<1>5. job' = Idle \/ job' = Dead => JobInv'
  BY DEF JobInv
<1>6. Shaped(job') /\ Handled(job') => JobInv'
  BY DEF JobInv, Shaped, Handled, Reports
<1>7. UNCHANGED <<marks, unmarked>> => UNCHANGED mvars
  BY DEF unmarked, mvars
<1>8. CASE FeedStart
  <2>1. JobInv'
    BY <1>6, <1>8, NewJobShaped DEF FeedStart
  <2>2. QED
    BY <1>3, <1>4, <1>8, <2>1 DEF FeedStart
<1>9. CASE BatchStart
  <2>1. JobInv'
    BY <1>6, <1>9, NewJobShaped DEF BatchStart
  <2>2. QED
    BY <1>3, <1>4, <1>9, <2>1 DEF BatchStart
<1>10. CASE Skip
  <2>1. Shaped(job') /\ Handled(job')
    BY <1>1, <1>10 DEF Skip, Next1, Shaped, Handled, Reports
  <2>2. QED
    BY <1>3, <1>4, <1>6, <1>10, <2>1 DEF Skip
<1>11. CASE MailOrPrint
  <2>1. PICK ok \in BOOLEAN : Turn([job EXCEPT !.ok = ok], ok)
    BY <1>11 DEF MailOrPrint
  <2> DEFINE j == [job EXCEPT !.ok = ok]
  <2>2. Shaped(j) /\ j.ok = ok /\ Handled(j)
    BY <1>1, <1>11 DEF MailOrPrint, Shaped, Handled, Reports
  <2>3. Turn(j, ok)
    BY <2>1
  <2> HIDE DEF j
  <2>4. Shaped(job') /\ Handled(job')
    BY <2>2, <2>3, TurnJob DEF Handled, Reports
  <2>5. MarksInv'
    BY <1>2, <1>11, <2>3 DEF MailOrPrint
  <2>6. QED
    BY <1>3, <1>6, <1>11, <2>4, <2>5 DEF MailOrPrint
<1>12. CASE FetchAborted
  BY <1>3, <1>4, <1>5, <1>12 DEF FetchAborted
<1>13. CASE Repost
  <2>1. Shaped(job') /\ Handled(job')
    BY <1>1, <1>13, TurnJob DEF Repost, Handled, Reports
  <2>2. QED
    BY <1>2, <1>3, <1>6, <1>13, <2>1 DEF Repost
<1>14. CASE Pipe
  <2>1. CASE job.sigpipe /\ job' = Idle /\ UNCHANGED marks
    BY <1>3, <1>4, <1>5, <1>7, <1>14, <2>1 DEF Pipe
  <2>2. CASE \E opened, broken \in BOOLEAN :
               Turn([job EXCEPT !.sigpipe = broken], opened /\ ~broken)
    <3>1. PICK opened \in BOOLEAN, broken \in BOOLEAN :
            Turn([job EXCEPT !.sigpipe = broken], opened /\ ~broken)
      BY <2>2
    <3> DEFINE j == [job EXCEPT !.sigpipe = broken]
               sent == opened /\ ~broken
    <3>2. Shaped(j) /\ j.fn = "FEED_PIPE"
      BY <1>1, <1>14 DEF Pipe, Shaped
    <3>3. Turn(j, sent)
      BY <3>1
    <3> HIDE DEF j, sent
    <3>4. Shaped(job') /\ Handled(job')
      BY <3>2, <3>3, TurnJob DEF Handled, Reports
    <3>5. MarksInv'
      BY <1>2, <1>14, <3>3 DEF Pipe
    <3>6. QED
      BY <1>3, <1>6, <1>14, <3>4, <3>5 DEF Pipe
  <2>3. QED
    BY <1>14, <2>1, <2>2 DEF Pipe
<1>15. CASE AddToSaveList
  <2>1. CASE job' = Dead /\ UNCHANGED <<marks, save>>
    BY <1>3, <1>4, <1>5, <1>7, <1>15, <2>1 DEF AddToSaveList
  <2>2. CASE Turn(job, FALSE)
    <3>1. Shaped(job') /\ Handled(job')
      BY <1>1, <1>15, <2>2, TurnJob DEF AddToSaveList, Saving, Handled, Reports
    <3>2. QED
      BY <1>2, <1>3, <1>6, <1>15, <2>2, <3>1 DEF AddToSaveList
  <2>3. QED
    BY <1>15, <2>1, <2>2 DEF AddToSaveList
<1>16. CASE SaveArticle
  <2> DEFINE f == save_filename(<<[art |-> Now, saved |-> FALSE,
                    file |-> IF job.file # NoName THEN job.file ELSE ArchiveOf[Now].name]>>, 1)
  <2>1. PICK w \in save_art_to_file(f, Now) :
          /\ files' = w.files /\ agreed' = agreed \cup w.over
          /\ Turn([job EXCEPT !.ok = w.saved], w.saved)
    BY <1>16 DEF SaveArticle
  <2> HIDE DEF f
  <2>2. FilesInv'
    BY <1>16, <2>1, WriteKeeps DEF SaveArticle
  <2> DEFINE ok == w.saved
             j == [job EXCEPT !.ok = ok]
  <2>3. Turn(j, ok)
    BY <2>1
  <2> HIDE DEF ok
  <2>4. Shaped(j) /\ j.ok = ok /\ Handled(j)
    BY <1>1, <1>16 DEF SaveArticle, Shaped, Handled, Reports
  <2> HIDE DEF j
  <2>5. Shaped(job') /\ Handled(job')
    BY <2>3, <2>4, TurnJob DEF Handled, Reports
  <2>6. MarksInv'
    BY <1>2, <1>16, <2>3 DEF SaveArticle
  <2>7. QED
    BY <1>6, <2>2, <2>5, <2>6
<1>17. CASE LoopDone
  <2>1. Shaped(job) /\ Handled(job)
    BY <1>17, Going DEF LoopDone
  <2>2. job' = Idle \/ (Shaped(job') /\ Handled(job'))
    BY <1>17, <2>1 DEF LoopDone, Shaped, Handled, Reports
  <2>3. Set(M) \/ Set(untag_all_articles(M))
    BY <1>17 DEF LoopDone
  <2>4. MarksInv'
    BY <1>17, <2>3, AlikeOf, UntagAllKeeps, SetKeeps DEF LoopDone, unmarked, MarksInv, Keeps
  <2>5. QED
    BY <1>3, <1>5, <1>6, <1>17, <2>2, <2>4 DEF LoopDone
<1>18. CASE SaveArts
  <2>1. Shaped(job) /\ Handled(job)
    BY <1>18, Going DEF SaveArts
  <2>2. CASE /\ job' = [job EXCEPT !.at = @ + 1] \/ job' = [job EXCEPT !.at = num_save + 1]
             /\ UNCHANGED <<files, agreed, save>>
    <3>1. Shaped(job') /\ Handled(job')
      <4> DEFINE up == job.at + 1
                 end == num_save + 1
      <4>1. job' = [job EXCEPT !.at = up] \/ job' = [job EXCEPT !.at = end]
        BY <2>2
      <4> HIDE DEF up, end
      <4>2. QED
        BY <2>1, <4>1 DEF Shaped, Handled, Reports
    <3>2. QED
      BY <1>3, <1>4, <1>6, <1>18, <2>2, <3>1 DEF SaveArts, output
  <2> DEFINE f == save_filename(save, job.at)
  <2>3. CASE \E w \in save_art_to_file(f, save[job.at].art) :
               /\ files' = w.files /\ agreed' = agreed \cup w.over
               /\ job' = [job EXCEPT !.at = @ + 1, !.any = @ \/ w.saved,
                            !.sent = @ \cup (IF w.saved THEN {save[job.at].art} ELSE {})]
    <3>1. PICK w \in save_art_to_file(f, save[job.at].art) :
               /\ files' = w.files /\ agreed' = agreed \cup w.over
               /\ job' = [job EXCEPT !.at = @ + 1, !.any = @ \/ w.saved,
                            !.sent = @ \cup (IF w.saved THEN {save[job.at].art} ELSE {})]
      BY <2>3
    <3>2. FilesInv'
      BY <1>18, <3>1, WriteKeeps DEF SaveArts
    <3>3. Shaped(job') /\ Handled(job')
      <4> DEFINE up == job.at + 1
                 any == job.any \/ w.saved
                 sent == job.sent \cup (IF w.saved THEN {save[job.at].art} ELSE {})
      <4>1. job' = [job EXCEPT !.at = up, !.any = any, !.sent = sent]
        BY <3>1
      <4>2. job.sent \subseteq sent
        OBVIOUS
      <4> HIDE DEF up, any, sent
      <4>3. QED
        BY <2>1, <4>1, <4>2 DEF Shaped, Handled, Reports
    <3>4. QED
      BY <1>4, <1>6, <1>18, <3>2, <3>3 DEF SaveArts
  <2>4. QED
    BY <1>18, <2>2, <2>3 DEF SaveArts
<1>19. CASE SaveDone
  <2>1. Shaped(job) /\ Handled(job)
    BY <1>19, Going DEF SaveDone
  <2>2. Shaped(job') /\ Handled(job')
    BY <1>19, <2>1 DEF SaveDone, Shaped, Handled, Reports
  <2>3. Set(M) \/ Set(untag_all_articles(M))
    BY <1>19 DEF SaveDone
  <2>4. MarksInv'
    BY <1>19, <2>3, AlikeOf, UntagAllKeeps, SetKeeps DEF SaveDone, unmarked, MarksInv, Keeps
  <2>5. QED
    BY <1>3, <1>6, <1>19, <2>2, <2>4 DEF SaveDone
<1>20. CASE post_process_files
  <2>1. \E all, delete : delete_processed_files(all, delete)
    BY <1>20 DEF post_process_files
  <2>2. FilesInv'
    BY <1>20, <2>1, DeleteKeeps DEF post_process_files
  <2>3. QED
    BY <1>4, <1>5, <1>20, <2>2 DEF post_process_files
<1>21. CASE BatchTurn
  <2>1. Shaped(job) /\ Handled(job)
    BY <1>1, <1>21 DEF BatchTurn
  <2> DEFINE a == Now
             f == BatchName(a)
             kept == [g \in DOMAIN files \cup {f} |-> IF g = f THEN <<a>> ELSE files[g]]
  <2>2. PICK stored \in BOOLEAN :
          /\ Set(IF BatchRead(stored) THEN art_mark_read(M, a) ELSE M)
          /\ files' = IF stored /\ job.fn = "SAVE_ANY_NEWS" THEN kept ELSE files
          /\ \E mailed \in IF job.fn = "MAIL_ANY_NEWS" /\ stored THEN BOOLEAN ELSE {stored} :
               job' = [Next1(job) EXCEPT
                         !.sent = @ \cup (IF mailed THEN {a} ELSE {}),
                         !.read = @ \cup (IF BatchRead(stored) THEN {a} ELSE {})]
    BY <1>21 DEF BatchTurn
  <2>3. FilesInv'
    <3>1. files' = files \/ files' = kept
      BY <2>2
    <3>2. QED
      BY <1>21, <3>1, BatchKeeps DEF BatchTurn
  <2>4. MarksInv'
    <3>1. M \in Markings /\ strayed \in BOOLEAN
      BY DEF MarksInv
    <3>2. M \in Alike(M) /\ art_mark_read(M, a) \in Alike(M)
      BY <3>1, AlikeOf, ReadAlike
    <3>3. Keeps(M, M) /\ Keeps(M, art_mark_read(M, a))
      BY <3>1, <3>2, AlikeKeeps
    <3>4. Set(M) \/ Set(art_mark_read(M, a))
      BY <2>2
    <3>5. QED
      BY <1>21, <3>1, <3>3, <3>4, SetKeeps DEF BatchTurn, unmarked
  <2>5. Shaped(job') /\ Handled(job')
    <3>1. PICK mailed \in IF job.fn = "MAIL_ANY_NEWS" /\ stored THEN BOOLEAN ELSE {stored} :
               job' = [Next1(job) EXCEPT
                         !.sent = @ \cup (IF mailed THEN {a} ELSE {}),
                         !.read = @ \cup (IF BatchRead(stored) THEN {a} ELSE {})]
      BY <2>2
    <3> DEFINE rest == Tail(job.todo)
               sent == job.sent \cup (IF mailed THEN {a} ELSE {})
               read == job.read \cup (IF BatchRead(stored) THEN {a} ELSE {})
    <3>2. job' = [job EXCEPT !.todo = rest, !.sent = sent, !.read = read]
      BY <2>1, <3>1 DEF Next1, Shaped
    <3>3. Reports(job) /\ BatchRead(stored) => mailed
      <4>1. job.fn \in Batch
        BY <1>21 DEF BatchTurn
      <4>2. BatchRead(stored) => stored
        BY DEF BatchRead
      <4>3. Reports(job) => mailed = stored
        BY <3>1, <4>1 DEF Reports, Batch
      <4>4. QED
        BY <4>2, <4>3
    <3>4. Handled(job) => (Reports(job) => read \subseteq sent)
      BY <3>3 DEF Handled
    <3> HIDE DEF rest, sent, read
    <3>5. QED
      BY <2>1, <3>2, <3>4 DEF Shaped, Handled, Reports
  <2>6. QED
    BY <1>6, <2>3, <2>4, <2>5
<1>22. CASE BatchAborted
  BY <1>3, <1>4, <1>5, <1>22 DEF BatchAborted
<1>23. CASE BatchDone
  BY <1>3, <1>4, <1>5, <1>23 DEF BatchDone
<1>24. QED
  BY <1>8, <1>9, <1>10, <1>11, <1>12, <1>13, <1>14, <1>15, <1>16, <1>17, <1>18, <1>19, <1>20,
     <1>21, <1>22, <1>23 DEF Next

\* The invariant holds, at every step of the pages and of the jobs.
THEOREM FeedInvariant == FeedSpec => []FeedInv
<1>1. FInit /\ MInit => FeedInv
  BY FeedBegins
<1>2. ASSUME FeedInv, [Next]_fvars PROVE FeedInv'
  <2>1. CASE job.phase = "idle" /\ MNext /\ UNCHANGED <<job, save, output, jobs>>
    <3>1. JobInv' /\ FilesInv' /\ MarksInv'
      BY <1>2, <2>1, MarksStep, SameFiles DEF FeedInv, JobInv
    <3>2. QED
      BY <3>1 DEF FeedInv
  <2>2. CASE UNCHANGED fvars
    <3>1. JobInv' /\ FilesInv' /\ MarksInv'
      <4>1. job' = job /\ UNCHANGED mvars /\ UNCHANGED output
        BY <2>2 DEF fvars, output
      <4>2. QED
        BY <1>2, <4>1, SameMarks, SameFiles DEF FeedInv, JobInv
    <3>2. QED
      BY <3>1 DEF FeedInv
  <2>3. QED
    BY <1>2, <2>1, <2>2, JobStep
<1>3. QED
  BY <1>1, <1>2, PTL DEF FeedSpec

\* The tags are the numbers from 1 up to their count, each on one article,
\* whatever is tagged, untagged, read and handed out (group.c, thread.c,
\* page.c, feed.c), as long as no tagged article left the page: the loop of
\* feed_articles() over the numbers finds every tagged article.
THEOREM TagsKept == FeedSpec => []TagsInOrder
BY FeedInvariant, InOrder, PTL DEF FeedInv

\* save.c: no sequence of jobs loses a file that was there before, unless the
\* reader agreed to it, it was removed after processing, or -S made a file
\* of that name.
THEOREM OldFilesStay == FeedSpec => []OldFilesKept
<1>1. FilesInv => OldFilesKept
  BY DEF FilesInv, OldFilesKept, StillThere
<1>2. QED
  BY <1>1, FeedInvariant, PTL DEF FeedInv

\* feed.c: what is mailed, printed or saved alone, and what -S saves, is
\* marked read only if that went well, wherever the job is in its loop.
THEOREM HandledBeforeRead == FeedSpec => []ReadWereHandled
<1>1. JobInv => ReadWereHandled
  <2>1. ASSUME JobInv, job.phase \in {"loop", "post"}
        PROVE  Handled(job)
    BY <2>1, Going
  <2>2. QED
    BY <2>1 DEF ReadWereHandled, Handled, Reports
<1>2. QED
  BY <1>1, FeedInvariant, PTL DEF FeedInv

=============================================================================
