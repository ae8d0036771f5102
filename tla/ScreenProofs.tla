---------------------------- MODULE ScreenProofs ----------------------------
(***************************************************************************)
(* What the reader has before him, for every value of the constants: the   *)
(* list of groups, whatever he does and whatever the server and .newsrc    *)
(* bring in between (Groups), the counts of its groups, for any .newsrc,   *)
(* any size of the ring and any number of lost connections                 *)
(* (GroupPipeline), the terminal, however signals, programs and resizes    *)
(* come (Terminal), and what the rules leave him to read, whatever rules   *)
(* and articles there are, with the file they are kept in (Filters).  The  *)
(* four are used side by side here; nothing that is proved of one speaks   *)
(* of the variables of another.                                            *)
(***************************************************************************)
EXTENDS Groups, GroupPipeline, Terminal, Filters, FoldProofs, FiniteSetTheorems

-----------------------------------------------------------------------------
(* Sequences *)

LEMMA Single == ASSUME NEW S, NEW x \in S PROVE <<x>> \in Seq(S)
OBVIOUS

LEMMA Appending ==
  ASSUME NEW S, NEW q \in Seq(S), NEW x \in S
  PROVE  /\ Append(q, x) \in Seq(S) /\ ToSet(Append(q, x)) = ToSet(q) \cup {x}
         /\ IsInjective(q) /\ x \notin ToSet(q) => IsInjective(Append(q, x))
<1> DEFINE r == Append(q, x)
<1>1. /\ r \in Seq(S) /\ Len(r) = Len(q) + 1
      /\ r[Len(q) + 1] = x /\ \A i \in 1..Len(q) : r[i] = q[i]
  OBVIOUS
<1>2. DOMAIN r = 1..(Len(q) + 1) /\ DOMAIN q = 1..Len(q) /\ Len(q) \in Nat
  BY <1>1
<1> HIDE DEF r
<1>3. ToSet(r) = ToSet(q) \cup {x}
  BY <1>1, <1>2 DEF ToSet
<1>4. IsInjective(q) /\ x \notin ToSet(q) => IsInjective(r)
  BY <1>1, <1>2 DEF ToSet, IsInjective
<1>5. QED
  BY <1>1, <1>3, <1>4 DEF r

LEMMA Cutting ==
  ASSUME NEW S, NEW q \in Seq(S), NEW k \in 0..Len(q)
  PROVE  /\ SubSeq(q, 1, k) \in Seq(S) /\ ToSet(SubSeq(q, 1, k)) \subseteq ToSet(q)
         /\ IsInjective(q) => IsInjective(SubSeq(q, 1, k))
<1> DEFINE r == SubSeq(q, 1, k)
<1>1. r \in Seq(S) /\ Len(r) = k /\ \A i \in 1..k : r[i] = q[i]
  OBVIOUS
<1>2. DOMAIN r = 1..k /\ DOMAIN q = 1..Len(q) /\ Len(q) \in Nat /\ 1..k \subseteq 1..Len(q)
  BY <1>1
<1> HIDE DEF r
<1>3. QED
  BY <1>1, <1>2 DEF ToSet, IsInjective, r

LEMMA Concatenating ==
  ASSUME NEW S, NEW q \in Seq(S), NEW r \in Seq(S)
  PROVE  /\ q \o r \in Seq(S) /\ Len(q \o r) = Len(q) + Len(r) /\ Len(q) \in Nat /\ Len(r) \in Nat
         /\ \A i \in 1..Len(q) : (q \o r)[i] = q[i]
         /\ \A i \in (Len(q) + 1)..(Len(q) + Len(r)) : (q \o r)[i] = r[i - Len(q)]
<1> DEFINE w == q \o r
<1>1. /\ w \in Seq(S) /\ Len(w) = Len(q) + Len(r) /\ Len(q) \in Nat /\ Len(r) \in Nat
      /\ \A i \in 1..Len(q) : w[i] = q[i]
      /\ \A i \in 1..Len(r) : w[i + Len(q)] = r[i]
  OBVIOUS
<1> HIDE DEF w
<1>2. ASSUME NEW i \in (Len(q) + 1)..(Len(q) + Len(r)) PROVE w[i] = r[i - Len(q)]
  <2>1. i - Len(q) \in 1..Len(r) /\ (i - Len(q)) + Len(q) = i
    BY <1>1
  <2>2. QED
    BY <1>1, <2>1
<1>3. QED
  BY <1>1, <1>2 DEF w

\* What is in both sequences comes together.
LEMMA Joining ==
  ASSUME NEW S, NEW q \in Seq(S), NEW r \in Seq(S)
  PROVE  q \o r \in Seq(S) /\ ToSet(q \o r) = ToSet(q) \cup ToSet(r)
<1> DEFINE w == q \o r
<1>1. /\ w \in Seq(S) /\ Len(w) = Len(q) + Len(r) /\ Len(q) \in Nat /\ Len(r) \in Nat
      /\ \A i \in 1..Len(q) : w[i] = q[i]
      /\ \A i \in 1..Len(r) : w[i + Len(q)] = r[i]
  OBVIOUS
<1>2. DOMAIN w = 1..(Len(q) + Len(r)) /\ DOMAIN q = 1..Len(q) /\ DOMAIN r = 1..Len(r)
  BY <1>1
<1> HIDE DEF w
<1>3. ASSUME NEW i \in 1..(Len(q) + Len(r)) PROVE w[i] \in ToSet(q) \cup ToSet(r)
  <2>1. CASE i \in 1..Len(q)
    BY <1>1, <1>2, <2>1 DEF ToSet
  <2>2. CASE i \notin 1..Len(q)
    <3>1. PICK j \in 1..Len(r) : i = j + Len(q)
      BY <1>1, <2>2
    <3>2. QED
      BY <1>1, <1>2, <3>1 DEF ToSet
  <2>3. QED
    BY <2>1, <2>2
<1>4. ToSet(q) \subseteq ToSet(w)
  BY <1>1, <1>2 DEF ToSet
<1>5. ASSUME NEW j \in 1..Len(r) PROVE r[j] \in ToSet(w)
  <2>1. j + Len(q) \in DOMAIN w
    BY <1>1, <1>2
  <2>2. QED
    BY <1>1, <2>1 DEF ToSet
<1>6. QED
  BY <1>1, <1>2, <1>3, <1>4, <1>5 DEF ToSet, w

\* The least of a set of numbers.
LEMMA LeastThere ==
  ASSUME NEW n \in Nat, NEW A \in SUBSET (0..n), A # {}
  PROVE  \E i \in A : \A j \in A : i <= j
<1> DEFINE R == {x \in Nat \X Nat : x[1] < x[2]}
<1>1. IsWellFoundedOn(R, Nat)
  BY NatLessThanWellFounded DEF OpToRel
<1>2. A \subseteq Nat
  OBVIOUS
<1>3. PICK d \in A : \A y \in A : <<y, d>> \notin R
  BY <1>1, <1>2, WFMin, Zenon
<1>4. ASSUME NEW y \in A PROVE d <= y
  <2>1. y \in Nat /\ d \in Nat
    OBVIOUS
  <2>2. ~(y < d)
    BY <1>3, <2>1
  <2>3. QED
    BY <2>1, <2>2
<1>5. QED
  BY <1>4

LEMMA Least ==
  ASSUME NEW n \in Nat, NEW A \in SUBSET (0..n), A # {}
  PROVE  (CHOOSE i \in A : \A j \in A : i <= j) \in A
BY LeastThere

LEMMA LeastOf ==
  ASSUME NEW A \in SUBSET Nat, NEW k \in A, \A j \in A : k <= j
  PROVE  (CHOOSE i \in A : \A j \in A : i <= j) = k
<1>1. ASSUME NEW i \in A, \A j \in A : i <= j PROVE i = k
  <2>1. i \in Nat /\ k \in Nat /\ i <= k /\ k <= i
    BY <1>1
  <2>2. QED
    BY <2>1
<1>2. QED
  BY <1>1

\* A sequence without repetitions is no longer than one that has its elements.
LEMMA NoLonger ==
  ASSUME NEW S, NEW q \in Seq(S), NEW r \in Seq(S), IsInjective(q), ToSet(q) \subseteq ToSet(r)
  PROVE  Len(q) <= Len(r)
<1> DEFINE place == [i \in 1..Len(q) |-> CHOOSE j \in 1..Len(r) : r[j] = q[i]]
<1>1. DOMAIN q = 1..Len(q) /\ DOMAIN r = 1..Len(r) /\ Len(q) \in Nat /\ Len(r) \in Nat
  OBVIOUS
<1>2. ASSUME NEW i \in 1..Len(q) PROVE place[i] \in 1..Len(r) /\ r[place[i]] = q[i]
  <2>1. q[i] \in ToSet(r)
    BY <1>1 DEF ToSet
  <2>2. PICK j \in 1..Len(r) : r[j] = q[i]
    BY <1>1, <2>1 DEF ToSet
  <2>3. QED
    BY <2>2
<1>3. place \in [1..Len(q) -> 1..Len(r)]
  BY <1>2
<1> HIDE DEF place
<1>4. \A i, j \in 1..Len(q) : place[i] = place[j] => i = j
  BY <1>1, <1>2 DEF IsInjective
<1>5. place \in Injection(1..Len(q), 1..Len(r))
  BY <1>3, <1>4 DEF Injection, IsInjective
<1>6. ASSUME NEW n \in Nat PROVE IsFiniteSet(1..n) /\ Cardinality(1..n) = n
  <2>1. 1 \in Int /\ n \in Int
    OBVIOUS
  <2>2. IsFiniteSet(1..n) /\ Cardinality(1..n) = IF 1 > n THEN 0 ELSE n - 1 + 1
    BY <2>1, FS_Interval
  <2>3. QED
    BY <2>2
<1>7. Cardinality(1..Len(q)) <= Cardinality(1..Len(r))
  BY <1>1, <1>5, <1>6, FS_Injection
<1>8. QED
  BY <1>1, <1>6, <1>7

\* Only() gives a sequence of what is in both.
LEMMA OnlyThose ==
  ASSUME NEW S, NEW q \in Seq(S), NEW A
  PROVE  Only(q, A) \in Seq(ToSet(q) \cap A)
<1> DEFINE n == Len(q)
           I == Seq(ToSet(q) \cap A)
           Next_(kept, x) == IF x \in A THEN Append(kept, x) ELSE kept
           step == [x \in I \X (1..n) |-> Next_(x[1], q[x[2]])]
           of(f) == [w \in SUBSET (1..n) |-> IF w = {} THEN <<>> ELSE Next_(f[w \ {Max(w)}], q[Max(w)])]
           it == CHOOSE f : f = of(f)
<1>1. n \in Nat /\ DOMAIN q = 1..n /\ <<>> \in I
  OBVIOUS
<1>2. ASSUME NEW kept \in I, NEW k \in 1..n PROVE Next_(kept, q[k]) \in I
  <2>1. q[k] \in ToSet(q)
    BY <1>1 DEF ToSet
  <2>2. QED
    BY <2>1
<1>3. step \in [I \X (1..n) -> I]
  BY <1>2
<1> HIDE DEF n, I, Next_, it
<1>4. PICK w \in Folds(n, I, <<>>, step) : TRUE
  BY <1>1, <1>3, FoldMade
<1>5. ASSUME NEW u \in SUBSET (1..n)
      PROVE w[u] = IF u = {} THEN <<>> ELSE Next_(w[u \ {Max(u)}], q[Max(u)])
  <2>1. w \in [SUBSET (1..n) -> I] /\ w[u] = Made(w, <<>>, step, u)
    BY <1>4 DEF Folds
  <2>2. u # {} => Max(u) \in 1..n /\ w[u \ {Max(u)}] \in I
    BY <1>1, <2>1, MaxIn
  <2>3. QED
    BY <2>1, <2>2 DEF Made
<1>6. w = of(w)
  BY <1>4, <1>5 DEF Folds
<1>7. it = of(it)
  BY <1>6, Zenon DEF it
<1>8. Only(q, A) = it[1..n]
  BY <1>1, Zenon DEF Only, FoldLeft, MapThenFoldSet, it, Next_
<1>9. it[{}] \in I
  BY <1>1, <1>7
<1>10. ASSUME NEW u \in SUBSET (1..n), u # {}, it[u \ {Max(u)}] \in I PROVE it[u] \in I
  <2>1. Max(u) \in 1..n
    BY <1>1, <1>10, MaxIn
  <2>2. it[u] = Next_(it[u \ {Max(u)}], q[Max(u)])
    BY <1>7, <1>10
  <2>3. QED
    BY <1>2, <1>10, <2>1, <2>2
<1>11. it[1..n] \in I
  BY <1>1, <1>9, <1>10, FoldKeeps
<1>12. QED
  BY <1>8, <1>11 DEF I

\* No two of the lines taken are for one group if no two of all are.
LEMMA OnlyOnce ==
  ASSUME NEW S, NEW q \in Seq(S), NEW A, OneLineEach(q)
  PROVE  OneLineEach(Only(q, A))
<1> DEFINE n == Len(q)
           Taken(k) == {r \in Seq(S) : /\ OneLineEach(r)
                                       /\ \A i \in DOMAIN r : \E j \in 1..k : q[j] = r[i]}
           J == [k \in 0..n |-> Taken(k)]
           Next_(kept, x) == IF x \in A THEN Append(kept, x) ELSE kept
           step == [x \in Seq(S) \X (1..n) |-> Next_(x[1], q[x[2]])]
           of(f) == [w \in SUBSET (1..n) |-> IF w = {} THEN <<>> ELSE Next_(f[w \ {Max(w)}], q[Max(w)])]
           it == CHOOSE f : f = of(f)
<1>1. n \in Nat /\ DOMAIN q = 1..n /\ <<>> \in Seq(S) /\ \A k \in 1..n : q[k] \in S
  OBVIOUS
<1>2. <<>> \in J[0]
  <2>1. DOMAIN <<>> = {}
    OBVIOUS
  <2>2. <<>> \in Taken(0)
    BY <1>1, <2>1 DEF OneLineEach
  <2>3. QED
    BY <1>1, <2>2
<1>3. ASSUME NEW k \in 1..n, NEW r \in Taken(k - 1) PROVE Next_(r, q[k]) \in Taken(k)
  <2>1. r \in Taken(k)
    <3>1. 1..(k - 1) \subseteq 1..k
      BY <1>1
    <3>2. QED
      BY <3>1
  <2> DEFINE w == Append(r, q[k])
  <2>2. /\ w \in Seq(S) /\ DOMAIN r = 1..Len(r) /\ Len(r) \in Nat /\ DOMAIN w = 1..(Len(r) + 1)
        /\ w[Len(r) + 1] = q[k] /\ \A i \in 1..Len(r) : w[i] = r[i]
    BY <1>1
  <2> HIDE DEF w
  <2>3. ASSUME NEW i \in DOMAIN r PROVE r[i].name # q[k].name
    <3>1. PICK j \in 1..(k - 1) : q[j] = r[i]
      OBVIOUS
    <3>2. j \in DOMAIN q /\ k \in DOMAIN q /\ j # k
      BY <1>1
    <3>3. QED
      BY <3>1, <3>2 DEF OneLineEach
  <2>4. OneLineEach(r) /\ \A i \in DOMAIN r : \E j \in 1..k : q[j] = r[i]
    BY <2>1
  <2>5. k \in 1..k
    BY <1>1
  <2>6. OneLineEach(w)
    <3>1. ASSUME NEW i \in DOMAIN w PROVE i = Len(r) + 1 \/ (i \in DOMAIN r /\ w[i] = r[i])
      BY <2>2
    <3>2. QED
      BY <2>2, <2>3, <2>4, <3>1 DEF OneLineEach
  <2>7. \A i \in DOMAIN w : \E j \in 1..k : q[j] = w[i]
    BY <2>2, <2>4, <2>5
  <2>8. w \in Taken(k)
    BY <2>2, <2>6, <2>7
  <2>9. QED
    BY <2>1, <2>8 DEF w
<1>4. \A k \in 1..n : \A r \in J[k - 1] : Next_(r, q[k]) \in J[k]
  <2>1. \A k \in 1..n : k - 1 \in 0..n /\ k \in 0..n
    BY <1>1
  <2> HIDE DEF Taken, Next_
  <2>2. QED
    BY <1>3, <2>1
<1>5. step \in [Seq(S) \X (1..n) -> Seq(S)]
  BY <1>1
<1> HIDE DEF n, Next_, J, it
<1>6. PICK w \in Folds(n, Seq(S), <<>>, step) : TRUE
  BY <1>1, <1>5, FoldMade
<1>7. ASSUME NEW u \in SUBSET (1..n)
      PROVE w[u] = IF u = {} THEN <<>> ELSE Next_(w[u \ {Max(u)}], q[Max(u)])
  <2>1. w \in [SUBSET (1..n) -> Seq(S)] /\ w[u] = Made(w, <<>>, step, u)
    BY <1>6 DEF Folds
  <2>2. u # {} => Max(u) \in 1..n /\ w[u \ {Max(u)}] \in Seq(S)
    BY <1>1, <2>1, MaxIn
  <2>3. QED
    BY <2>1, <2>2 DEF Made
<1>8. w = of(w)
  BY <1>6, <1>7 DEF Folds
<1>9. it = of(it)
  BY <1>8, Zenon DEF it
<1>10. Only(q, A) = it[1..n]
  BY <1>1, Zenon DEF Only, FoldLeft, MapThenFoldSet, it, Next_
<1>11. it[{}] \in J[0]
  BY <1>2, <1>9
<1>12. ASSUME NEW k \in 1..n, it[(1..k) \ {Max(1..k)}] \in J[k - 1] PROVE it[1..k] \in J[k]
  <2>1. (1..k) \in SUBSET (1..n) /\ 1 \in 1..k
    BY <1>1
  <2>2. Max(1..k) = k
    BY <1>1, MaxUpTo
  <2>3. it[1..k] = Next_(it[(1..k) \ {Max(1..k)}], q[k])
    BY <1>9, <2>1, <2>2
  <2>4. QED
    BY <1>4, <1>12, <2>3
<1>13. it[1..n] \in J[n]
  BY <1>1, <1>11, <1>12, FoldReaches
<1>14. QED
  BY <1>1, <1>10, <1>13 DEF J

-----------------------------------------------------------------------------
(* The tables *)

SubLines == [name : GroupName, sub : BOOLEAN]
Tables ==
  [active : Seq(GroupName), sub : SUBSET GroupName, new : SUBSET GroupName, bogus : SUBSET GroupName,
   unread : SUBSET GroupName, my : Seq(GroupName), cur : Nat, file : Seq(SubLines)]

\* The lines of .newsrc are for different groups if they were at the start.
Lined(rows) == OneLineEach(FirstNewsrc) => OneLineEach(rows)

\* No group is twice in active[] or in my_group[], which lists only what is in
\* active[]: the tables that my_group[] would be made of by its indices.
Sound == {t \in Tables : /\ IsInjective(t.active) /\ IsInjective(t.my)
                         /\ ToSet(t.my) \subseteq ToSet(t.active) /\ Lined(t.file)}

\* The subscribed groups of .newsrc are in active[], where process_bogus() puts
\* them if the server does not.
Placed(t) == \A i \in DOMAIN t.file : t.file[i].sub => find_group_index(t, t.file[i].name)

\* Tables of one state of active[] and .newsrc.
SameFiles(t, u) == u.active = t.active /\ u.file = t.file
SameFlags(t, u) == u.sub = t.sub /\ u.new = t.new /\ u.bogus = t.bogus /\ u.unread = t.unread

LEMMA Adding ==
  ASSUME NEW t \in Sound, NEW g \in GroupName
  PROVE  LET u == my_group_add(t, g)
         IN /\ u \in Sound /\ SameFiles(t, u) /\ SameFlags(t, u)
            /\ ToSet(t.my) \subseteq ToSet(u.my) /\ ToSet(u.my) \subseteq ToSet(t.my) \cup {g}
            /\ find_group_index(t, g) => g \in ToSet(u.my)
<1> DEFINE u == my_group_add(t, g)
<1>1. CASE find_group_index(t, g) /\ g \notin ToSet(t.my)
  <2> DEFINE r == Append(t.my, g)
  <2>1. r \in Seq(GroupName) /\ ToSet(r) = ToSet(t.my) \cup {g} /\ IsInjective(r)
    BY <1>1, Appending DEF Sound, Tables
  <2> HIDE DEF r
  <2>2. u = [t EXCEPT !.my = r]
    BY <1>1 DEF my_group_add, r
  <2>3. u \in Tables /\ u.my = r /\ SameFiles(t, u) /\ SameFlags(t, u)
    BY <2>1, <2>2 DEF Sound, Tables, SameFiles, SameFlags
  <2> HIDE DEF u
  <2>4. u \in Sound
    BY <1>1, <2>1, <2>3 DEF Sound, SameFiles, find_group_index
  <2>5. QED
    BY <2>1, <2>3, <2>4 DEF u
<1>2. CASE ~(find_group_index(t, g) /\ g \notin ToSet(t.my))
  <2>1. u = t
    BY <1>2 DEF my_group_add
  <2>2. QED
    BY <1>2, <2>1 DEF SameFiles, SameFlags
<1>3. QED
  BY <1>1, <1>2

\* Where my_group_find() finds a group, or what it gives where it does not.
LEMMA Finding ==
  ASSUME NEW t \in Sound, NEW g, NEW d
  PROVE  LET k == my_group_find(t, g, d)
         IN IF g \in ToSet(t.my) THEN k \in 0..(Len(t.my) - 1) /\ t.my[k + 1] = g ELSE k = d
<1>1. t.my \in Seq(GroupName) /\ DOMAIN t.my = 1..Len(t.my) /\ Len(t.my) \in Nat
  BY DEF Sound, Tables
<1>2. CASE g \in ToSet(t.my)
  <2> DEFINE i == CHOOSE i \in DOMAIN t.my : t.my[i] = g
  <2>1. i \in DOMAIN t.my /\ t.my[i] = g
    BY <1>2 DEF ToSet
  <2>2. my_group_find(t, g, d) = i - 1
    BY <1>2 DEF my_group_find
  <2> HIDE DEF i
  <2>3. i - 1 \in 0..(Len(t.my) - 1) /\ i - 1 + 1 = i
    BY <1>1, <2>1
  <2>4. QED
    BY <1>2, <2>1, <2>2, <2>3
<1>3. CASE g \notin ToSet(t.my)
  BY <1>3 DEF my_group_find
<1>4. QED
  BY <1>2, <1>3

LEMMA NewGroupsFirst ==
  ASSUME NEW t \in Sound
  PROVE  skip_newgroups(t) \in 0..Len(t.my)
<1>1. t.my \in Seq(GroupName) /\ DOMAIN t.my = 1..Len(t.my) /\ Len(t.my) \in Nat
  BY DEF Sound, Tables
<1> DEFINE old == {i \in DOMAIN t.my : t.my[i] \notin t.new}
           least == CHOOSE i \in old : \A j \in old : i <= j
<1>2. old # {} => least \in old
  <2>1. old \in SUBSET (0..Len(t.my))
    BY <1>1
  <2> HIDE DEF old
  <2>2. QED
    BY <1>1, <2>1, Least
<1>3. skip_newgroups(t) = IF old = {} THEN Len(t.my) ELSE least - 1
  BY DEF skip_newgroups
<1> HIDE DEF least
<1>4. old # {} => least \in 1..Len(t.my)
  BY <1>1, <1>2
<1> HIDE DEF old
<1>5. QED
  BY <1>1, <1>3, <1>4

LEMMA Keeping ==
  ASSUME NEW t \in Sound
  PROVE  LET u == KeepNew(t)
         IN u \in Sound /\ SameFiles(t, u) /\ SameFlags(t, u) /\ ToSet(u.my) \subseteq ToSet(t.my)
<1> DEFINE u == KeepNew(t)
           r == SubSeq(t.my, 1, skip_newgroups(t))
<1>1. r \in Seq(GroupName) /\ ToSet(r) \subseteq ToSet(t.my) /\ IsInjective(r)
  BY NewGroupsFirst, Cutting DEF Sound, Tables
<1>2. u = [t EXCEPT !.my = r]
  BY DEF KeepNew
<1> HIDE DEF r
<1>3. u \in Tables /\ u.my = r /\ SameFiles(t, u) /\ SameFlags(t, u)
  BY <1>1, <1>2 DEF Sound, Tables, SameFiles, SameFlags
<1> HIDE DEF u
<1>4. u \in Sound
  BY <1>1, <1>3 DEF Sound, SameFiles
<1>5. QED
  BY <1>1, <1>3, <1>4 DEF u

\* active_add() keeps what is there.
LEMMA AddingActive ==
  ASSUME NEW t \in Sound, NEW g \in GroupName
  PROVE  LET u == psGrpAdd(t, g)
         IN /\ u \in Sound /\ u.file = t.file /\ u.my = t.my /\ u.unread = t.unread
            /\ ToSet(t.active) \subseteq ToSet(u.active) /\ g \in ToSet(u.active)
<1> DEFINE u == psGrpAdd(t, g)
<1>1. CASE ~find_group_index(t, g)
  <2> DEFINE r == Append(t.active, g)
  <2>1. r \in Seq(GroupName) /\ ToSet(r) = ToSet(t.active) \cup {g} /\ IsInjective(r)
    BY <1>1, Appending DEF Sound, Tables, find_group_index
  <2>2. u = [t EXCEPT !.active = r, !.sub = @ \ {g}, !.new = @ \ {g}, !.bogus = @ \ {g}]
    BY <1>1 DEF psGrpAdd
  <2> HIDE DEF r
  <2>3. u \in Tables /\ u.active = r /\ u.file = t.file /\ u.my = t.my /\ u.unread = t.unread
    BY <2>1, <2>2 DEF Sound, Tables
  <2> HIDE DEF u
  <2>4. u \in Sound
    BY <2>1, <2>3 DEF Sound
  <2>5. QED
    BY <2>1, <2>3, <2>4 DEF u
<1>2. CASE find_group_index(t, g)
  BY <1>2 DEF psGrpAdd, find_group_index
<1>3. QED
  BY <1>1, <1>2

LEMMA AddingBogus ==
  ASSUME NEW t \in Sound, NEW g \in GroupName
  PROVE  LET u == process_bogus(t, g)
         IN /\ u \in Sound /\ u.file = t.file /\ u.unread = t.unread
            /\ ToSet(t.active) \subseteq ToSet(u.active) /\ find_group_index(u, g)
            /\ ToSet(t.my) \subseteq ToSet(u.my) /\ g \in ToSet(u.my)
            /\ ToSet(u.my) \subseteq ToSet(t.my) \cup {g}
<1> DEFINE v == psGrpAdd(t, g)
           w == [v EXCEPT !.bogus = @ \cup {g}]
           u == process_bogus(t, g)
<1>1. /\ v \in Sound /\ v.file = t.file /\ v.my = t.my /\ v.unread = t.unread
      /\ ToSet(t.active) \subseteq ToSet(v.active) /\ g \in ToSet(v.active)
  BY AddingActive
<1> HIDE DEF v
<1>2. /\ w \in Tables /\ w.file = v.file /\ w.my = v.my /\ w.unread = v.unread
      /\ w.active = v.active
  BY <1>1 DEF Sound, Tables
<1>3. u = my_group_add(w, g)
  BY DEF process_bogus, v
<1> HIDE DEF w, u
<1>4. w \in Sound
  BY <1>1, <1>2 DEF Sound
<1>5. /\ u \in Sound /\ SameFiles(w, u) /\ SameFlags(w, u)
      /\ ToSet(w.my) \subseteq ToSet(u.my) /\ ToSet(u.my) \subseteq ToSet(w.my) \cup {g}
      /\ find_group_index(w, g) => g \in ToSet(u.my)
  BY <1>3, <1>4, Adding
<1>6. QED
  BY <1>1, <1>2, <1>5 DEF SameFiles, SameFlags, find_group_index, u

-----------------------------------------------------------------------------
(* The loops: what each turn takes from one set of tables to the next, takes *)
(* the loop from the first to the last.                                      *)

\* read_newsrc() line after line.
LEMMA OverReadLine ==
  ASSUME NEW q, NEW n \in Nat, DOMAIN q = 1..n, NEW K, NEW J, NEW m \in K, m \in J[0],
         \A u \in K : \A k \in 1..n : ReadLine(u, q[k]) \in K,
         \A k \in 1..n : \A u \in J[k - 1] : ReadLine(u, q[k]) \in J[k]
  PROVE  FoldLeft(ReadLine, m, q) \in J[n]
<1> DEFINE step == [x \in K \X (1..n) |-> ReadLine(x[1], q[x[2]])]
           of(f) == [w \in SUBSET (1..n) |-> IF w = {} THEN m ELSE ReadLine(f[w \ {Max(w)}], q[Max(w)])]
           it == CHOOSE f : f = of(f)
<1>1. step \in [K \X (1..n) -> K]
  OBVIOUS
<1> HIDE DEF step, it
<1>2. PICK w \in Folds(n, K, m, step) : TRUE
  BY <1>1, FoldMade
<1>3. ASSUME NEW u \in SUBSET (1..n)
      PROVE w[u] = IF u = {} THEN m ELSE ReadLine(w[u \ {Max(u)}], q[Max(u)])
  <2>1. w \in [SUBSET (1..n) -> K] /\ w[u] = Made(w, m, step, u)
    BY <1>2 DEF Folds
  <2>2. u # {} => Max(u) \in 1..n /\ w[u \ {Max(u)}] \in K
    BY <2>1, MaxIn
  <2>3. QED
    BY <2>1, <2>2 DEF Made, step
<1>4. w = of(w)
  BY <1>2, <1>3 DEF Folds
<1>5. it = of(it)
  BY <1>4, Zenon DEF it
<1>6. FoldLeft(ReadLine, m, q) = it[1..n]
  BY Zenon DEF FoldLeft, MapThenFoldSet, it
<1>7. it[{}] = m
  BY <1>5
<1>8. ASSUME NEW k \in 1..n, it[(1..k) \ {Max(1..k)}] \in J[k - 1] PROVE it[1..k] \in J[k]
  <2>1. (1..k) \in SUBSET (1..n) /\ 1 \in 1..k
    OBVIOUS
  <2> DEFINE u == it[(1..k) \ {Max(1..k)}]
  <2>2. Max(1..k) = k
    BY MaxUpTo
  <2>3. it[1..k] = ReadLine(u, q[k])
    BY <1>5, <2>1, <2>2
  <2> HIDE DEF u
  <2>4. ReadLine(u, q[k]) \in J[k]
    BY <1>8 DEF u
  <2>5. QED
    BY <2>3, <2>4
<1>9. it[1..n] \in J[n]
  BY <1>7, <1>8, FoldReaches
<1>10. QED
  BY <1>6, <1>9

\* read_active_file() name after name.
LEMMA OverActive ==
  ASSUME NEW q, NEW n \in Nat, DOMAIN q = 1..n, NEW J, NEW m \in J[0],
         \A u \in J[0] : \A k \in 1..n : psGrpAdd(u, q[k]) \in J[0],
         \A k \in 1..n : \A u \in J[k - 1] : psGrpAdd(u, q[k]) \in J[k]
  PROVE  FoldLeft(psGrpAdd, m, q) \in J[n]
<1> DEFINE step == [x \in J[0] \X (1..n) |-> psGrpAdd(x[1], q[x[2]])]
           of(f) == [w \in SUBSET (1..n) |-> IF w = {} THEN m ELSE psGrpAdd(f[w \ {Max(w)}], q[Max(w)])]
           it == CHOOSE f : f = of(f)
<1>1. step \in [J[0] \X (1..n) -> J[0]]
  OBVIOUS
<1> HIDE DEF step, it
<1>2. PICK w \in Folds(n, J[0], m, step) : TRUE
  BY <1>1, FoldMade
<1>3. ASSUME NEW u \in SUBSET (1..n)
      PROVE w[u] = IF u = {} THEN m ELSE psGrpAdd(w[u \ {Max(u)}], q[Max(u)])
  <2>1. w \in [SUBSET (1..n) -> J[0]] /\ w[u] = Made(w, m, step, u)
    BY <1>2 DEF Folds
  <2>2. u # {} => Max(u) \in 1..n /\ w[u \ {Max(u)}] \in J[0]
    BY <2>1, MaxIn
  <2>3. QED
    BY <2>1, <2>2 DEF Made, step
<1>4. w = of(w)
  BY <1>2, <1>3 DEF Folds
<1>5. it = of(it)
  BY <1>4, Zenon DEF it
<1>6. FoldLeft(psGrpAdd, m, q) = it[1..n]
  BY Zenon DEF FoldLeft, MapThenFoldSet, it
<1>7. it[{}] = m
  BY <1>5
<1>8. ASSUME NEW k \in 1..n, it[(1..k) \ {Max(1..k)}] \in J[k - 1] PROVE it[1..k] \in J[k]
  <2>1. (1..k) \in SUBSET (1..n) /\ 1 \in 1..k
    OBVIOUS
  <2> DEFINE u == it[(1..k) \ {Max(1..k)}]
  <2>2. Max(1..k) = k
    BY MaxUpTo
  <2>3. it[1..k] = psGrpAdd(u, q[k])
    BY <1>5, <2>1, <2>2
  <2> HIDE DEF u
  <2>4. psGrpAdd(u, q[k]) \in J[k]
    BY <1>8 DEF u
  <2>5. QED
    BY <2>3, <2>4
<1>9. it[1..n] \in J[n]
  BY <1>7, <1>8, FoldReaches
<1>10. QED
  BY <1>6, <1>9

\* The names of new groups one after the other.
LEMMA OverNewGroups ==
  ASSUME NEW q, NEW n \in Nat, DOMAIN q = 1..n, NEW J, NEW m \in J[0],
         \A u \in J[0] : \A k \in 1..n : subscribe_new_group(u, q[k]) \in J[0],
         \A k \in 1..n : \A u \in J[k - 1] : subscribe_new_group(u, q[k]) \in J[k]
  PROVE  FoldLeft(subscribe_new_group, m, q) \in J[n]
<1> DEFINE step == [x \in J[0] \X (1..n) |-> subscribe_new_group(x[1], q[x[2]])]
           of(f) == [w \in SUBSET (1..n) |-> IF w = {} THEN m ELSE subscribe_new_group(f[w \ {Max(w)}], q[Max(w)])]
           it == CHOOSE f : f = of(f)
<1>1. step \in [J[0] \X (1..n) -> J[0]]
  OBVIOUS
<1> HIDE DEF step, it
<1>2. PICK w \in Folds(n, J[0], m, step) : TRUE
  BY <1>1, FoldMade
<1>3. ASSUME NEW u \in SUBSET (1..n)
      PROVE w[u] = IF u = {} THEN m ELSE subscribe_new_group(w[u \ {Max(u)}], q[Max(u)])
  <2>1. w \in [SUBSET (1..n) -> J[0]] /\ w[u] = Made(w, m, step, u)
    BY <1>2 DEF Folds
  <2>2. u # {} => Max(u) \in 1..n /\ w[u \ {Max(u)}] \in J[0]
    BY <2>1, MaxIn
  <2>3. QED
    BY <2>1, <2>2 DEF Made, step
<1>4. w = of(w)
  BY <1>2, <1>3 DEF Folds
<1>5. it = of(it)
  BY <1>4, Zenon DEF it
<1>6. FoldLeft(subscribe_new_group, m, q) = it[1..n]
  BY Zenon DEF FoldLeft, MapThenFoldSet, it
<1>7. it[{}] = m
  BY <1>5
<1>8. ASSUME NEW k \in 1..n, it[(1..k) \ {Max(1..k)}] \in J[k - 1] PROVE it[1..k] \in J[k]
  <2>1. (1..k) \in SUBSET (1..n) /\ 1 \in 1..k
    OBVIOUS
  <2> DEFINE u == it[(1..k) \ {Max(1..k)}]
  <2>2. Max(1..k) = k
    BY MaxUpTo
  <2>3. it[1..k] = subscribe_new_group(u, q[k])
    BY <1>5, <2>1, <2>2
  <2> HIDE DEF u
  <2>4. subscribe_new_group(u, q[k]) \in J[k]
    BY <1>8 DEF u
  <2>5. QED
    BY <2>3, <2>4
<1>9. it[1..n] \in J[n]
  BY <1>7, <1>8, FoldReaches
<1>10. QED
  BY <1>6, <1>9

\* toggle_my_groups() line after line.
LEMMA OverListLine ==
  ASSUME NEW shown, NEW q, NEW n \in Nat, DOMAIN q = 1..n, NEW J, NEW m \in J[0],
         \A u \in J[0] : \A k \in 1..n : ListLine(u, q[k], shown) \in J[0],
         \A k \in 1..n : \A u \in J[k - 1] : ListLine(u, q[k], shown) \in J[k]
  PROVE  ListLines(m, q, shown) \in J[n]
<1> DEFINE step == [x \in J[0] \X (1..n) |-> ListLine(x[1], q[x[2]], shown)]
           of(f) == [w \in SUBSET (1..n) |-> IF w = {} THEN m ELSE ListLine(f[w \ {Max(w)}], q[Max(w)], shown)]
           it == CHOOSE f : f = of(f)
<1>1. step \in [J[0] \X (1..n) -> J[0]]
  OBVIOUS
<1> HIDE DEF step, it
<1>2. PICK w \in Folds(n, J[0], m, step) : TRUE
  BY <1>1, FoldMade
<1>3. ASSUME NEW u \in SUBSET (1..n)
      PROVE w[u] = IF u = {} THEN m ELSE ListLine(w[u \ {Max(u)}], q[Max(u)], shown)
  <2>1. w \in [SUBSET (1..n) -> J[0]] /\ w[u] = Made(w, m, step, u)
    BY <1>2 DEF Folds
  <2>2. u # {} => Max(u) \in 1..n /\ w[u \ {Max(u)}] \in J[0]
    BY <2>1, MaxIn
  <2>3. QED
    BY <2>1, <2>2 DEF Made, step
<1>4. w = of(w)
  BY <1>2, <1>3 DEF Folds
<1>5. it = of(it)
  BY <1>4, Zenon DEF it
<1>6. ListLines(m, q, shown) = it[1..n]
  BY Zenon DEF ListLines, FoldLeft, MapThenFoldSet, it
<1>7. it[{}] = m
  BY <1>5
<1>8. ASSUME NEW k \in 1..n, it[(1..k) \ {Max(1..k)}] \in J[k - 1] PROVE it[1..k] \in J[k]
  <2>1. (1..k) \in SUBSET (1..n) /\ 1 \in 1..k
    OBVIOUS
  <2> DEFINE u == it[(1..k) \ {Max(1..k)}]
  <2>2. Max(1..k) = k
    BY MaxUpTo
  <2>3. it[1..k] = ListLine(u, q[k], shown)
    BY <1>5, <2>1, <2>2
  <2> HIDE DEF u
  <2>4. ListLine(u, q[k], shown) \in J[k]
    BY <1>8 DEF u
  <2>5. QED
    BY <2>3, <2>4
<1>9. it[1..n] \in J[n]
  BY <1>7, <1>8, FoldReaches
<1>10. QED
  BY <1>6, <1>9

\* subscribe_pattern() group after group.
LEMMA OverSubscribe ==
  ASSUME NEW state, NEW q, NEW n \in Nat, DOMAIN q = 1..n, NEW J, NEW m \in J[0],
         \A u \in J[0] : \A k \in 1..n : SubscribeOne(u, q[k], state) \in J[0],
         \A k \in 1..n : \A u \in J[k - 1] : SubscribeOne(u, q[k], state) \in J[k]
  PROVE  SubscribeAll(m, q, state) \in J[n]
<1> DEFINE step == [x \in J[0] \X (1..n) |-> SubscribeOne(x[1], q[x[2]], state)]
           of(f) == [w \in SUBSET (1..n) |-> IF w = {} THEN m ELSE SubscribeOne(f[w \ {Max(w)}], q[Max(w)], state)]
           it == CHOOSE f : f = of(f)
<1>1. step \in [J[0] \X (1..n) -> J[0]]
  OBVIOUS
<1> HIDE DEF step, it
<1>2. PICK w \in Folds(n, J[0], m, step) : TRUE
  BY <1>1, FoldMade
<1>3. ASSUME NEW u \in SUBSET (1..n)
      PROVE w[u] = IF u = {} THEN m ELSE SubscribeOne(w[u \ {Max(u)}], q[Max(u)], state)
  <2>1. w \in [SUBSET (1..n) -> J[0]] /\ w[u] = Made(w, m, step, u)
    BY <1>2 DEF Folds
  <2>2. u # {} => Max(u) \in 1..n /\ w[u \ {Max(u)}] \in J[0]
    BY <2>1, MaxIn
  <2>3. QED
    BY <2>1, <2>2 DEF Made, step
<1>4. w = of(w)
  BY <1>2, <1>3 DEF Folds
<1>5. it = of(it)
  BY <1>4, Zenon DEF it
<1>6. SubscribeAll(m, q, state) = it[1..n]
  BY Zenon DEF SubscribeAll, FoldLeft, MapThenFoldSet, it
<1>7. it[{}] = m
  BY <1>5
<1>8. ASSUME NEW k \in 1..n, it[(1..k) \ {Max(1..k)}] \in J[k - 1] PROVE it[1..k] \in J[k]
  <2>1. (1..k) \in SUBSET (1..n) /\ 1 \in 1..k
    OBVIOUS
  <2> DEFINE u == it[(1..k) \ {Max(1..k)}]
  <2>2. Max(1..k) = k
    BY MaxUpTo
  <2>3. it[1..k] = SubscribeOne(u, q[k], state)
    BY <1>5, <2>1, <2>2
  <2> HIDE DEF u
  <2>4. SubscribeOne(u, q[k], state) \in J[k]
    BY <1>8 DEF u
  <2>5. QED
    BY <2>3, <2>4
<1>9. it[1..n] \in J[n]
  BY <1>7, <1>8, FoldReaches
<1>10. QED
  BY <1>6, <1>9

-----------------------------------------------------------------------------
(* Reading .newsrc *)

LEMMA ReadingLine ==
  ASSUME NEW t \in Sound, NEW line \in SubLines
  PROVE  LET u == ReadLine(t, line)
         IN /\ u \in Sound /\ u.file = t.file /\ u.unread = t.unread
            /\ ToSet(t.active) \subseteq ToSet(u.active) /\ ToSet(t.my) \subseteq ToSet(u.my)
            /\ line.sub => find_group_index(u, line.name) /\ line.name \in ToSet(u.my)
<1> DEFINE u == ReadLine(t, line)
           g == line.name
           v == my_group_add(t, g)
<1>1. g \in GroupName
  BY DEF SubLines
<1>2. CASE ~line.sub
  BY <1>2 DEF ReadLine
<1>3. CASE line.sub /\ ~find_group_index(t, g)
  <2>1. u = process_bogus(t, g)
    BY <1>3 DEF ReadLine
  <2> HIDE DEF g
  <2>2. /\ u \in Sound /\ u.file = t.file /\ u.unread = t.unread
        /\ ToSet(t.active) \subseteq ToSet(u.active) /\ find_group_index(u, g)
        /\ ToSet(t.my) \subseteq ToSet(u.my) /\ g \in ToSet(u.my)
    BY <1>1, <2>1, AddingBogus
  <2>3. QED
    BY <2>2 DEF g
<1>4. CASE line.sub /\ find_group_index(t, g)
  <2>1. /\ v \in Sound /\ SameFiles(t, v) /\ SameFlags(t, v)
        /\ ToSet(t.my) \subseteq ToSet(v.my) /\ g \in ToSet(v.my)
    BY <1>1, <1>4, Adding
  <2>2. u = v \/ u = [v EXCEPT !.sub = @ \cup {g}]
    BY <1>4 DEF ReadLine
  <2> HIDE DEF u, v, g
  <2>3. u \in Tables /\ u.active = v.active /\ u.file = v.file /\ u.my = v.my /\ u.unread = v.unread
    <3>1. v \in Tables
      BY <2>1 DEF Sound
    <3>2. CASE u = v
      BY <3>1, <3>2
    <3>3. CASE u = [v EXCEPT !.sub = @ \cup {g}]
      BY <1>1, <3>1, <3>3 DEF Tables
    <3>4. QED
      BY <2>2, <3>2, <3>3
  <2>4. u \in Sound
    BY <2>1, <2>3 DEF Sound
  <2>5. /\ u.file = t.file /\ u.unread = t.unread
        /\ ToSet(t.active) \subseteq ToSet(u.active) /\ find_group_index(u, g)
        /\ ToSet(t.my) \subseteq ToSet(u.my) /\ g \in ToSet(u.my)
    <3>1. u.file = t.file /\ u.unread = t.unread /\ u.active = t.active /\ u.my = v.my
      BY <2>1, <2>3 DEF SameFiles, SameFlags
    <3>2. g \in ToSet(t.active)
      BY <1>4 DEF find_group_index, g
    <3>3. QED
      BY <2>1, <3>1, <3>2 DEF find_group_index
  <2>6. QED
    BY <2>4, <2>5 DEF u, g
<1>5. QED
  BY <1>2, <1>3, <1>4

\* Every subscribed group of the first k lines is known and listed.
Read(t, k) ==
  {u \in Sound : /\ u.file = t.file /\ u.unread = t.unread /\ ToSet(t.active) \subseteq ToSet(u.active)
                 /\ \A i \in 1..k : t.file[i].sub =>
                      find_group_index(u, t.file[i].name) /\ t.file[i].name \in ToSet(u.my)}

LEMMA ReadingNewsrc ==
  ASSUME NEW t \in Sound
  PROVE  read_newsrc(t) \in Read(t, Len(t.file))
<1> DEFINE n == Len(t.file)
           J == [k \in 0..n |-> Read(t, k)]
           m == KeepNew(t)
<1>1. n \in Nat /\ DOMAIN t.file = 1..n /\ \A k \in 1..n : t.file[k] \in SubLines
  BY DEF Sound, Tables
<1>2. m \in J[0]
  <2>1. m \in Sound /\ SameFiles(t, m) /\ SameFlags(t, m)
    BY Keeping
  <2> HIDE DEF m
  <2>2. m \in Read(t, 0)
    BY <2>1 DEF Read, SameFiles, SameFlags
  <2>3. QED
    BY <1>1, <2>2
<1> HIDE DEF m
<1>3. ASSUME NEW k \in 1..n, NEW j \in 0..n, NEW u \in Read(t, j), j = 0 \/ j = k - 1
      PROVE /\ ReadLine(u, t.file[k]) \in Read(t, j)
            /\ j = k - 1 => ReadLine(u, t.file[k]) \in Read(t, k)
  <2> DEFINE line == t.file[k]
             v == ReadLine(u, line)
  <2>1. u \in Sound /\ line \in SubLines
    BY <1>1 DEF Read
  <2>2. /\ v \in Sound /\ v.file = u.file /\ v.unread = u.unread
        /\ ToSet(u.active) \subseteq ToSet(v.active) /\ ToSet(u.my) \subseteq ToSet(v.my)
        /\ line.sub => find_group_index(v, line.name) /\ line.name \in ToSet(v.my)
    BY <2>1, ReadingLine
  <2> HIDE DEF v
  <2>3. v \in Read(t, j)
    BY <2>2 DEF Read, find_group_index
  <2>4. ASSUME j = k - 1 PROVE v \in Read(t, k)
    <3>1. ASSUME NEW i \in 1..k PROVE i \in 1..j \/ i = k
      BY <2>4, <1>1
    <3>2. QED
      BY <2>2, <2>3, <3>1 DEF Read
  <2>5. QED
    BY <2>3, <2>4 DEF v
<1>4. \A u \in J[0] : \A k \in 1..n : ReadLine(u, t.file[k]) \in J[0]
  BY <1>1, <1>3
<1>5. \A k \in 1..n : \A u \in J[k - 1] : ReadLine(u, t.file[k]) \in J[k]
  <2> SUFFICES ASSUME NEW k \in 1..n, NEW u \in J[k - 1] PROVE ReadLine(u, t.file[k]) \in J[k]
    OBVIOUS
  <2>1. k - 1 \in 0..n /\ k \in 0..n
    BY <1>1
  <2>2. QED
    BY <1>3, <2>1
<1>6. FoldLeft(ReadLine, m, t.file) \in J[n]
  <2> HIDE DEF J, n
  <2>1. QED
    BY <1>1, <1>2, <1>4, <1>5, OverReadLine
<1>7. QED
  BY <1>1, <1>6 DEF read_newsrc, m

-----------------------------------------------------------------------------
(* Writing .newsrc *)

\* Only the lines are others.
Rewritten(t) ==
  {u \in Sound : /\ u.active = t.active /\ u.my = t.my /\ u.unread = t.unread /\ u.cur = t.cur
                 /\ u.new = t.new}

LEMMA NewLines ==
  ASSUME NEW t \in Sound, NEW rows \in Seq(SubLines), Lined(rows)
  PROVE  [t EXCEPT !.file = rows] \in Rewritten(t)
<1> DEFINE u == [t EXCEPT !.file = rows]
<1>1. /\ u \in Tables /\ u.active = t.active /\ u.my = t.my /\ u.unread = t.unread /\ u.cur = t.cur
      /\ u.new = t.new /\ u.file = rows
  BY DEF Sound, Tables
<1> HIDE DEF u
<1>2. u \in Sound
  BY <1>1 DEF Sound
<1>3. QED
  BY <1>1, <1>2 DEF Rewritten, u

LEMMA FewerLines ==
  ASSUME NEW t \in Sound, NEW A
  PROVE  Only(t.file, A) \in Seq(SubLines) /\ Lined(Only(t.file, A))
<1>1. t.file \in Seq(SubLines) /\ DOMAIN t.file = 1..Len(t.file)
  BY DEF Sound, Tables
<1>2. Only(t.file, A) \in Seq(ToSet(t.file) \cap A)
  BY <1>1, OnlyThose
<1>3. ToSet(t.file) \cap A \subseteq SubLines
  BY <1>1 DEF ToSet
<1>4. Lined(Only(t.file, A))
  BY <1>1, OnlyOnce DEF Sound, Lined
<1>5. QED
  BY <1>2, <1>3, <1>4

LEMMA Writing == ASSUME NEW t \in Sound PROVE vWriteNewsrc(t) \in Rewritten(t)
<1> DEFINE kept == {l \in ToSet(t.file) :
             StripBogus # "remove" \/ (find_group_index(t, l.name) /\ l.name \notin t.bogus)}
           rows == Only(t.file, kept)
<1>1. rows \in Seq(SubLines) /\ Lined(rows)
  BY FewerLines
<1>2. vWriteNewsrc(t) = IF rows = <<>> THEN t ELSE [t EXCEPT !.file = rows]
  BY DEF vWriteNewsrc
<1> HIDE DEF rows
<1>3. QED
  BY <1>1, <1>2, NewLines DEF Rewritten

LEMMA WrittenLines ==
  ASSUME NEW t \in Sound, NEW i \in DOMAIN vWriteNewsrc(t).file
  PROVE  vWriteNewsrc(t).file[i] \in ToSet(t.file)
<1> DEFINE kept == {l \in ToSet(t.file) :
             StripBogus # "remove" \/ (find_group_index(t, l.name) /\ l.name \notin t.bogus)}
           rows == Only(t.file, kept)
           w == vWriteNewsrc(t)
<1>1. w = IF rows = <<>> THEN t ELSE [t EXCEPT !.file = rows]
  BY DEF vWriteNewsrc
<1>2. t \in Tables /\ t.file \in Seq(SubLines)
  BY DEF Sound, Tables
<1>3. rows \in Seq(ToSet(t.file) \cap kept)
  BY <1>2, OnlyThose
<1> HIDE DEF rows, kept, w
<1>4. w.file = t.file \/ w.file = rows
  BY <1>1, <1>2 DEF Tables
<1>5. i \in DOMAIN w.file
  BY DEF w
<1>6. CASE w.file = rows
  BY <1>3, <1>5, <1>6 DEF w
<1>7. CASE w.file = t.file
  BY <1>5, <1>7 DEF w, ToSet
<1>8. QED
  BY <1>4, <1>6, <1>7

LEMMA Deleting == ASSUME NEW t \in Sound, NEW g PROVE delete_group(t, g) \in Rewritten(t)
<1> DEFINE rows == Only(t.file, {l \in ToSet(t.file) : l.name # g})
<1>1. rows \in Seq(SubLines) /\ Lined(rows)
  BY FewerLines
<1>2. delete_group(t, g) = [t EXCEPT !.file = rows]
  BY DEF delete_group
<1> HIDE DEF rows
<1>3. QED
  BY <1>1, <1>2, NewLines

\* A sequence with one more element put into it, and another one behind.
Inserted(a, k, x, b) == SubSeq(a, 1, k) \o <<x>> \o SubSeq(a, k + 1, Len(a)) \o b
PutIn(f, a, k, x, b) ==
  /\ Len(f) = Len(a) + 1 + Len(b) /\ f[k + 1] = x
  /\ \A i \in 1..k : f[i] = a[i]
  /\ \A i \in (k + 2)..(Len(a) + 1) : f[i] = a[i - 1]
  /\ \A i \in (Len(a) + 2)..(Len(a) + 1 + Len(b)) : f[i] = b[i - Len(a) - 1]

LEMMA Inserting ==
  ASSUME NEW S, NEW a \in Seq(S), NEW b \in Seq(S), NEW x \in S, NEW k \in 0..Len(a)
  PROVE  Inserted(a, k, x, b) \in Seq(S) /\ PutIn(Inserted(a, k, x, b), a, k, x, b)
<1> DEFINE head == SubSeq(a, 1, k)
           tail == SubSeq(a, k + 1, Len(a))
           one == <<x>>
           w == head \o one
           v == w \o tail
           f == Inserted(a, k, x, b)
<1>1. Len(a) \in Nat /\ Len(b) \in Nat /\ k \in Nat /\ k <= Len(a)
  OBVIOUS
<1>2. head \in Seq(S) /\ Len(head) = k /\ \A i \in 1..k : head[i] = a[i]
  BY <1>1
<1>3. /\ tail \in Seq(S) /\ Len(tail) = Len(a) - k
      /\ \A i \in 1..(Len(a) - k) : tail[i] = a[k + i]
  BY <1>1
<1>4. one \in Seq(S) /\ Len(one) = 1 /\ one[1] = x
  BY Single
<1> HIDE DEF head, tail, one
<1>5. w \in Seq(S) /\ Len(w) = k + 1 /\ w[k + 1] = x /\ \A i \in 1..k : w[i] = a[i]
  <2>1. /\ w \in Seq(S) /\ Len(w) = Len(head) + Len(one)
        /\ \A i \in 1..Len(head) : w[i] = head[i]
        /\ \A i \in (Len(head) + 1)..(Len(head) + Len(one)) : w[i] = one[i - Len(head)]
    BY <1>2, <1>4, Concatenating
  <2> HIDE DEF w
  <2>2. k + 1 \in (Len(head) + 1)..(Len(head) + Len(one)) /\ k + 1 - k = 1
    BY <1>1, <1>2, <1>4
  <2>3. QED
    BY <1>2, <1>4, <2>1, <2>2
<1> HIDE DEF w
<1>6. /\ v \in Seq(S) /\ Len(v) = Len(a) + 1
      /\ \A i \in 1..(k + 1) : v[i] = w[i]
      /\ \A i \in (k + 2)..(Len(a) + 1) : v[i] = tail[i - k - 1]
  <2>1. /\ v \in Seq(S) /\ Len(v) = Len(w) + Len(tail)
        /\ \A i \in 1..Len(w) : v[i] = w[i]
        /\ \A i \in (Len(w) + 1)..(Len(w) + Len(tail)) : v[i] = tail[i - Len(w)]
    BY <1>3, <1>5, Concatenating
  <2> HIDE DEF v
  <2>2. /\ Len(w) + 1 = k + 2 /\ Len(w) + Len(tail) = Len(a) + 1
        /\ \A i \in (k + 2)..(Len(a) + 1) : i - Len(w) = i - k - 1
    BY <1>1, <1>3, <1>5
  <2>3. QED
    BY <1>5, <2>1, <2>2
<1> HIDE DEF v
<1>7. \A i \in (k + 2)..(Len(a) + 1) : v[i] = a[i - 1]
  <2>1. ASSUME NEW i \in (k + 2)..(Len(a) + 1) PROVE i - k - 1 \in 1..(Len(a) - k) /\ k + (i - k - 1) = i - 1
    BY <1>1
  <2>2. QED
    BY <1>3, <1>6, <2>1
<1>8. f = v \o b
  BY DEF Inserted, v, w, head, one, tail
<1> HIDE DEF f
<1>9. /\ f \in Seq(S) /\ Len(f) = Len(a) + 1 + Len(b)
      /\ \A i \in 1..(Len(a) + 1) : f[i] = v[i]
      /\ \A i \in (Len(a) + 2)..(Len(a) + 1 + Len(b)) : f[i] = b[i - (Len(a) + 1)]
  <2>1. /\ f \in Seq(S) /\ Len(f) = Len(v) + Len(b)
        /\ \A i \in 1..Len(v) : f[i] = v[i]
        /\ \A i \in (Len(v) + 1)..(Len(v) + Len(b)) : f[i] = b[i - Len(v)]
    BY <1>6, <1>8, Concatenating
  <2>2. Len(v) + 1 = Len(a) + 2
    BY <1>1, <1>6
  <2>3. QED
    BY <1>6, <2>1, <2>2
<1>10. k + 1 \in 1..(k + 1) /\ k + 1 \in 1..(Len(a) + 1) /\ 1..k \subseteq 1..(k + 1)
       /\ 1..k \subseteq 1..(Len(a) + 1) /\ (k + 2)..(Len(a) + 1) \subseteq 1..(Len(a) + 1)
  BY <1>1
<1>11. f[k + 1] = x /\ \A i \in 1..k : f[i] = a[i]
  BY <1>5, <1>6, <1>9, <1>10
<1>12. \A i \in (k + 2)..(Len(a) + 1) : f[i] = a[i - 1]
  BY <1>7, <1>9, <1>10
<1>13. \A i \in (Len(a) + 2)..(Len(a) + 1 + Len(b)) : f[i] = b[i - Len(a) - 1]
  <2>1. \A i \in (Len(a) + 2)..(Len(a) + 1 + Len(b)) : i - (Len(a) + 1) = i - Len(a) - 1
    BY <1>1
  <2>2. QED
    BY <1>9, <2>1
<1>14. QED
  <2>1. f \in Seq(S) /\ PutIn(f, a, k, x, b)
    BY <1>9, <1>11, <1>12, <1>13 DEF PutIn
  <2>2. QED
    BY <2>1 DEF f

\* What pos_group_in_newsrc() puts where.
OtherSubs(t, g) == Only(t.file, {l \in ToSet(t.file) : l.sub /\ l.name # g})
Unsubs(t) == Only(t.file, {l \in ToSet(t.file) : ~l.sub})
PlaceOf(t, g, pos) == IF pos > Len(OtherSubs(t, g)) THEN Len(OtherSubs(t, g)) ELSE pos - 1
Moved(t, g, pos) == Inserted(OtherSubs(t, g), PlaceOf(t, g, pos), Sub(g, TRUE), Unsubs(t))

LEMMA MovingLines ==
  ASSUME NEW t \in Sound, NEW g \in GroupName, NEW pos \in Nat \ {0},
         OneLineEach(FirstNewsrc) => \A i \in DOMAIN t.file : t.file[i].name = g => t.file[i].sub
  PROVE  LET subs == OtherSubs(t, g)
             rest == Unsubs(t)
         IN /\ subs \in Seq(SubLines) /\ rest \in Seq(SubLines) /\ PlaceOf(t, g, pos) \in 0..Len(subs)
            /\ \A i \in DOMAIN subs : subs[i].sub /\ subs[i].name # g /\ subs[i] \in ToSet(t.file)
            /\ \A i \in DOMAIN rest : ~rest[i].sub /\ rest[i] \in ToSet(t.file)
            /\ Moved(t, g, pos) \in Seq(SubLines) /\ Lined(Moved(t, g, pos))
            /\ pos_group_in_newsrc(t, g, pos) = [t EXCEPT !.file = Moved(t, g, pos)]
<1> DEFINE subs == OtherSubs(t, g)
           rest == Unsubs(t)
           k == PlaceOf(t, g, pos)
           one == Sub(g, TRUE)
           rows == Moved(t, g, pos)
           A == {l \in ToSet(t.file) : l.sub /\ l.name # g}
           B == {l \in ToSet(t.file) : ~l.sub}
<1>1. t.file \in Seq(SubLines) /\ DOMAIN t.file = 1..Len(t.file)
  BY DEF Sound, Tables
<1>2. subs \in Seq(SubLines) /\ Lined(subs)
  BY FewerLines DEF OtherSubs
<1>3. rest \in Seq(SubLines) /\ Lined(rest)
  BY FewerLines DEF Unsubs
<1>4. subs \in Seq(ToSet(t.file) \cap A)
  BY <1>1, OnlyThose DEF OtherSubs
<1>5. rest \in Seq(ToSet(t.file) \cap B)
  BY <1>1, OnlyThose DEF Unsubs
<1> HIDE DEF subs, rest, A, B
<1>6. \A i \in DOMAIN subs : subs[i] \in A
  BY <1>4
<1>7. \A i \in DOMAIN rest : rest[i] \in B
  BY <1>5
<1>8. \A i \in DOMAIN subs : subs[i].sub /\ subs[i].name # g /\ subs[i] \in ToSet(t.file)
  BY <1>6 DEF A
<1>9. \A i \in DOMAIN rest : ~rest[i].sub /\ rest[i] \in ToSet(t.file)
  BY <1>7 DEF B
<1>10. Len(subs) \in Nat /\ Len(rest) \in Nat /\ DOMAIN subs = 1..Len(subs) /\ DOMAIN rest = 1..Len(rest)
  BY <1>2, <1>3
<1>11. k \in 0..Len(subs)
  BY <1>10 DEF PlaceOf, subs
<1>12. one \in SubLines /\ one.name = g /\ one.sub = TRUE
  BY DEF Sub, SubLines
<1>13. rows = Inserted(subs, k, one, rest)
  BY DEF Moved, subs, rest
<1>14. pos_group_in_newsrc(t, g, pos) = [t EXCEPT !.file = rows]
  BY DEF pos_group_in_newsrc, Moved, Inserted, PlaceOf, OtherSubs, Unsubs
<1> HIDE DEF k, one, rows
<1>15. /\ rows \in Seq(SubLines) /\ Len(rows) = Len(subs) + 1 + Len(rest) /\ rows[k + 1] = one
       /\ \A i \in 1..k : rows[i] = subs[i]
       /\ \A i \in (k + 2)..(Len(subs) + 1) : rows[i] = subs[i - 1]
       /\ \A i \in (Len(subs) + 2)..(Len(subs) + 1 + Len(rest)) : rows[i] = rest[i - Len(subs) - 1]
  <2>1. rows \in Seq(SubLines) /\ PutIn(rows, subs, k, one, rest)
    BY <1>2, <1>3, <1>11, <1>12, <1>13, Inserting
  <2>2. QED
    BY <2>1 DEF PutIn
<1>16. ASSUME OneLineEach(FirstNewsrc) PROVE OneLineEach(rows)
  <2> DEFINE From(i) == IF i <= k THEN i ELSE IF i <= Len(subs) + 1 THEN i - 1 ELSE i - Len(subs) - 1
  <2>1. OneLineEach(subs) /\ OneLineEach(rest) /\ OneLineEach(t.file)
    BY <1>2, <1>3, <1>16 DEF Sound, Lined
  <2>2. DOMAIN rows = 1..(Len(subs) + 1 + Len(rest))
    BY <1>10, <1>15
  <2>3. ASSUME NEW i \in DOMAIN rows
        PROVE \/ i = k + 1 /\ rows[i].name = g
              \/ i # k + 1 /\ i <= Len(subs) + 1 /\ From(i) \in DOMAIN subs /\ rows[i] = subs[From(i)]
              \/ i > Len(subs) + 1 /\ From(i) \in DOMAIN rest /\ rows[i] = rest[From(i)]
    <3>1. CASE i <= k
      BY <1>10, <1>11, <1>15, <2>2, <3>1
    <3>2. CASE i = k + 1
      BY <1>12, <1>15, <3>2
    <3>3. CASE i > k + 1 /\ i <= Len(subs) + 1
      BY <1>10, <1>11, <1>15, <2>2, <3>3
    <3>4. CASE i > Len(subs) + 1
      BY <1>10, <1>11, <1>15, <2>2, <3>4
    <3>5. QED
      BY <1>10, <1>11, <2>2, <3>1, <3>2, <3>3, <3>4
  <2>4. ASSUME NEW i \in DOMAIN subs, NEW j \in DOMAIN rest PROVE subs[i].name # rest[j].name
    <3>1. PICK x, y \in DOMAIN t.file : t.file[x] = subs[i] /\ t.file[y] = rest[j]
      BY <1>8, <1>9 DEF ToSet
    <3>2. subs[i] # rest[j]
      BY <1>8, <1>9
    <3>3. QED
      BY <2>1, <3>1, <3>2 DEF OneLineEach
  <2>5. ASSUME NEW j \in DOMAIN rest PROVE rest[j].name # g
    <3>1. PICK y \in DOMAIN t.file : t.file[y] = rest[j]
      BY <1>9 DEF ToSet
    <3>2. QED
      BY <1>9, <1>16, <3>1
  <2>6. ASSUME NEW i \in DOMAIN rows, NEW j \in DOMAIN rows, i # j PROVE rows[i].name # rows[j].name
    <3>1. i \in Nat /\ j \in Nat
      BY <1>10, <2>2
    <3>2. CASE i = k + 1
      BY <1>8, <1>10, <1>11, <2>3, <2>5, <2>6, <3>1, <3>2
    <3>3. CASE i # k + 1 /\ i <= Len(subs) + 1
      <4>1. From(i) \in DOMAIN subs /\ rows[i] = subs[From(i)]
        BY <1>10, <1>11, <2>3, <3>1, <3>3
      <4>2. CASE j = k + 1
        BY <1>8, <1>10, <1>11, <2>3, <4>1, <4>2
      <4>3. CASE j # k + 1 /\ j <= Len(subs) + 1
        <5>1. From(j) \in DOMAIN subs /\ rows[j] = subs[From(j)]
          BY <1>10, <1>11, <2>3, <3>1, <4>3
        <5>2. From(i) # From(j)
          BY <1>10, <1>11, <2>6, <3>1, <3>3, <4>3
        <5> HIDE DEF From
        <5>3. QED
          BY <2>1, <4>1, <5>1, <5>2 DEF OneLineEach
      <4>4. CASE j > Len(subs) + 1
        <5>1. From(j) \in DOMAIN rest /\ rows[j] = rest[From(j)]
          BY <1>10, <1>11, <2>3, <3>1, <4>4
        <5> HIDE DEF From
        <5>2. QED
          BY <2>4, <4>1, <5>1
      <4>5. QED
        BY <1>10, <3>1, <4>2, <4>3, <4>4
    <3>4. CASE i > Len(subs) + 1
      <4>1. From(i) \in DOMAIN rest /\ rows[i] = rest[From(i)]
        BY <1>10, <1>11, <2>3, <3>1, <3>4
      <4>2. CASE j = k + 1
        BY <1>10, <1>11, <2>3, <2>5, <4>1, <4>2
      <4>3. CASE j # k + 1 /\ j <= Len(subs) + 1
        <5>1. From(j) \in DOMAIN subs /\ rows[j] = subs[From(j)]
          BY <1>10, <1>11, <2>3, <3>1, <4>3
        <5> HIDE DEF From
        <5>2. QED
          BY <2>4, <4>1, <5>1
      <4>4. CASE j > Len(subs) + 1
        <5>1. From(j) \in DOMAIN rest /\ rows[j] = rest[From(j)]
          BY <1>10, <1>11, <2>3, <3>1, <4>4
        <5>2. From(i) # From(j)
          BY <1>10, <1>11, <2>6, <3>1, <3>4, <4>4
        <5> HIDE DEF From
        <5>3. QED
          BY <2>1, <4>1, <5>1, <5>2 DEF OneLineEach
      <4>5. QED
        BY <1>10, <3>1, <4>2, <4>3, <4>4
    <3>5. QED
      BY <1>10, <3>1, <3>2, <3>3, <3>4
  <2>7. QED
    BY <2>6 DEF OneLineEach
<1>17. Lined(rows)
  BY <1>16 DEF Lined
<1>18. QED
  BY <1>2, <1>3, <1>8, <1>9, <1>11, <1>14, <1>15, <1>17 DEF subs, rest, k, rows

LEMMA Positioning ==
  ASSUME NEW t \in Sound, NEW g \in GroupName, NEW pos \in Nat \ {0},
         OneLineEach(FirstNewsrc) => \A i \in DOMAIN t.file : t.file[i].name = g => t.file[i].sub
  PROVE  pos_group_in_newsrc(t, g, pos) \in Rewritten(t)
<1> DEFINE rows == Moved(t, g, pos)
<1>1. rows \in Seq(SubLines) /\ Lined(rows) /\ pos_group_in_newsrc(t, g, pos) = [t EXCEPT !.file = rows]
  BY MovingLines
<1> HIDE DEF rows
<1>2. QED
  BY <1>1, NewLines

\* subscribe() writes one line; a group of active[] stays one.
LEMMA Subscribing ==
  ASSUME NEW t \in Sound, NEW g \in GroupName, NEW state \in BOOLEAN
  PROVE  LET u == subscribe(t, g, state)
         IN /\ u \in Sound /\ u.active = t.active /\ u.my = t.my /\ u.unread = t.unread /\ u.cur = t.cur
            /\ Placed(t) /\ find_group_index(t, g) => Placed(u)
            /\ \A i \in DOMAIN u.file : u.file[i].sub /\ u.file[i].name # g =>
                 \E j \in DOMAIN t.file : t.file[j] = u.file[i]
            /\ ~state => \A i \in DOMAIN u.file : u.file[i].sub => u.file[i].name # g
<1> DEFINE u == subscribe(t, g, state)
           line == Sub(g, state)
           there == \E i \in DOMAIN t.file : t.file[i].name = g
           rows == IF there
                    THEN [i \in DOMAIN t.file |-> IF t.file[i].name = g THEN line ELSE t.file[i]]
                    ELSE Append(t.file, line)
<1>1. t.file \in Seq(SubLines) /\ DOMAIN t.file = 1..Len(t.file) /\ Len(t.file) \in Nat
  BY DEF Sound, Tables
<1>2. line \in SubLines /\ line.name = g /\ line.sub = state
  BY DEF Sub, SubLines
<1> DEFINE subbed == IF state THEN t.sub \cup {g} ELSE t.sub \ {g}
<1>3. u = [t EXCEPT !.file = rows, !.sub = subbed] /\ subbed \in SUBSET GroupName
  <2>1. t \in Tables
    BY DEF Sound
  <2>2. u = [t EXCEPT !.file = rows, !.sub = subbed]
    BY DEF subscribe
  <2>3. subbed \in SUBSET GroupName
    BY <2>1 DEF Tables
  <2>4. QED
    BY <2>2, <2>3
<1> HIDE DEF subbed
<1> HIDE DEF line
<1>4. /\ rows \in Seq(SubLines)
      /\ \A i \in DOMAIN rows : rows[i] = line \/ (rows[i].name # g /\ \E j \in DOMAIN t.file : t.file[j] = rows[i])
  <2>1. CASE there
    BY <1>1, <1>2, <2>1
  <2>2. CASE ~there
    <3>1. /\ rows = Append(t.file, line) /\ rows \in Seq(SubLines) /\ Len(rows) = Len(t.file) + 1
          /\ rows[Len(t.file) + 1] = line /\ \A i \in 1..Len(t.file) : rows[i] = t.file[i]
      BY <1>1, <1>2, <2>2
    <3> HIDE DEF rows
    <3>2. DOMAIN rows = 1..(Len(t.file) + 1)
      BY <1>1, <3>1
    <3>3. QED
      BY <1>1, <2>2, <3>1, <3>2
  <2>3. QED
    BY <2>1, <2>2
<1>50. Lined(rows)
  <2>1. CASE there
    <3>1. DOMAIN rows = DOMAIN t.file /\ \A i \in DOMAIN rows : rows[i].name = t.file[i].name
      BY <1>2, <2>1
    <3> HIDE DEF rows
    <3>2. QED
      BY <3>1 DEF Sound, Lined, OneLineEach
  <2>2. CASE ~there
    <3>1. /\ rows = Append(t.file, line) /\ Len(rows) = Len(t.file) + 1 /\ rows \in Seq(SubLines)
          /\ rows[Len(t.file) + 1] = line /\ \A i \in 1..Len(t.file) : rows[i] = t.file[i]
      BY <1>1, <1>2, <2>2
    <3> HIDE DEF rows
    <3>2. DOMAIN rows = 1..(Len(t.file) + 1)
      BY <1>1, <3>1
    <3>3. ASSUME NEW i \in DOMAIN rows
          PROVE i = Len(t.file) + 1 \/ (i \in DOMAIN t.file /\ rows[i] = t.file[i] /\ rows[i].name # g)
      BY <1>1, <2>2, <3>1, <3>2
    <3>4. QED
      BY <1>2, <3>1, <3>3 DEF Sound, Lined, OneLineEach
  <2>3. QED
    BY <2>1, <2>2
<1> HIDE DEF rows
<1>5. /\ u \in Tables /\ u.active = t.active /\ u.my = t.my /\ u.unread = t.unread /\ u.cur = t.cur
      /\ u.file = rows
  BY <1>3, <1>4 DEF Sound, Tables
<1> HIDE DEF u
<1>6. u \in Sound
  BY <1>50, <1>5 DEF Sound
<1>7. Placed(t) /\ find_group_index(t, g) => Placed(u)
  BY <1>2, <1>4, <1>5 DEF Placed, find_group_index
<1>8. \A i \in DOMAIN u.file : u.file[i].sub /\ u.file[i].name # g =>
                 \E j \in DOMAIN t.file : t.file[j] = u.file[i]
  BY <1>2, <1>4, <1>5
<1>9. ~state => \A i \in DOMAIN u.file : u.file[i].sub => u.file[i].name # g
  BY <1>2, <1>4, <1>5
<1>10. QED
  BY <1>5, <1>6, <1>7, <1>8, <1>9 DEF u

-----------------------------------------------------------------------------
(* Rebuilding the list *)

\* A line of .newsrc whose group belongs on the page.
Belongs(t, line, unread_only) == line.sub /\ (~unread_only \/ line.name \in t.unread)

\* The groups of the first k lines that belong on the page are there.
ListedTo(t, unread_only, k) ==
  {u \in Sound : /\ SameFiles(t, u) /\ SameFlags(t, u)
                 /\ \A i \in 1..k : Belongs(t, t.file[i], unread_only) /\ find_group_index(t, t.file[i].name)
                      => t.file[i].name \in ToSet(u.my)}

Shows(t, unread_only) ==
  \A i \in DOMAIN t.file : Belongs(t, t.file[i], unread_only) => t.file[i].name \in ToSet(t.my)
OnEntry(t) == t.cur < Len(t.my) \/ t.cur = 0

LEMMA ListingLine ==
  ASSUME NEW t \in Sound, NEW line \in SubLines, NEW unread_only \in BOOLEAN
  PROVE  LET u == ListLine(t, line, unread_only)
         IN /\ u \in Sound /\ SameFiles(t, u) /\ SameFlags(t, u) /\ ToSet(t.my) \subseteq ToSet(u.my)
            /\ Belongs(t, line, unread_only) /\ find_group_index(t, line.name) => line.name \in ToSet(u.my)
<1> DEFINE u == ListLine(t, line, unread_only)
           g == line.name
           v == my_group_add(t, g)
<1>1. g \in GroupName
  BY DEF SubLines
<1> HIDE DEF g
<1>2. /\ v \in Sound /\ SameFiles(t, v) /\ SameFlags(t, v) /\ ToSet(t.my) \subseteq ToSet(v.my)
      /\ find_group_index(t, g) => g \in ToSet(v.my)
  BY <1>1, Adding
<1> HIDE DEF v
<1>3. u = v \/ (u = t /\ ~Belongs(t, line, unread_only))
  BY DEF ListLine, Belongs, v, g
<1> HIDE DEF u
<1>4. /\ u \in Sound /\ SameFiles(t, u) /\ SameFlags(t, u) /\ ToSet(t.my) \subseteq ToSet(u.my)
      /\ Belongs(t, line, unread_only) /\ find_group_index(t, g) => g \in ToSet(u.my)
  BY <1>2, <1>3 DEF SameFiles, SameFlags
<1>5. QED
  BY <1>4 DEF u, g

LEMMA Listing ==
  ASSUME NEW t \in Sound, NEW unread_only \in BOOLEAN
  PROVE  Listed(t, unread_only) \in ListedTo(t, unread_only, Len(t.file))
<1> DEFINE n == Len(t.file)
           J == [k \in 0..n |-> ListedTo(t, unread_only, k)]
           m == KeepNew(t)
<1>1. n \in Nat /\ DOMAIN t.file = 1..n /\ \A k \in 1..n : t.file[k] \in SubLines
  BY DEF Sound, Tables
<1>2. m \in J[0]
  <2>1. m \in Sound /\ SameFiles(t, m) /\ SameFlags(t, m)
    BY Keeping
  <2> HIDE DEF m
  <2>2. m \in ListedTo(t, unread_only, 0)
    BY <2>1 DEF ListedTo
  <2>3. QED
    BY <1>1, <2>2
<1> HIDE DEF m
<1>3. ASSUME NEW k \in 1..n, NEW j \in 0..n, NEW u \in ListedTo(t, unread_only, j), j = 0 \/ j = k - 1
      PROVE /\ ListLine(u, t.file[k], unread_only) \in ListedTo(t, unread_only, j)
            /\ j = k - 1 => ListLine(u, t.file[k], unread_only) \in ListedTo(t, unread_only, k)
  <2> DEFINE line == t.file[k]
             v == ListLine(u, line, unread_only)
  <2>1. u \in Sound /\ line \in SubLines /\ SameFiles(t, u) /\ SameFlags(t, u)
    BY <1>1 DEF ListedTo
  <2>2. /\ v \in Sound /\ SameFiles(u, v) /\ SameFlags(u, v) /\ ToSet(u.my) \subseteq ToSet(v.my)
        /\ Belongs(u, line, unread_only) /\ find_group_index(u, line.name) => line.name \in ToSet(v.my)
    BY <2>1, ListingLine
  <2> HIDE DEF v
  <2>3. v \in ListedTo(t, unread_only, j)
    BY <2>1, <2>2 DEF ListedTo, SameFiles, SameFlags
  <2>4. Belongs(t, line, unread_only) /\ find_group_index(t, line.name) => line.name \in ToSet(v.my)
    BY <2>1, <2>2 DEF SameFiles, SameFlags, Belongs, find_group_index
  <2>5. ASSUME j = k - 1 PROVE v \in ListedTo(t, unread_only, k)
    <3>1. ASSUME NEW i \in 1..k PROVE i \in 1..j \/ i = k
      BY <2>5, <1>1
    <3>2. QED
      BY <2>3, <2>4, <3>1 DEF ListedTo
  <2>6. QED
    BY <2>3, <2>5 DEF v
<1>4. \A u \in J[0] : \A k \in 1..n : ListLine(u, t.file[k], unread_only) \in J[0]
  BY <1>1, <1>3
<1>5. \A k \in 1..n : \A u \in J[k - 1] : ListLine(u, t.file[k], unread_only) \in J[k]
  <2> SUFFICES ASSUME NEW k \in 1..n, NEW u \in J[k - 1] PROVE ListLine(u, t.file[k], unread_only) \in J[k]
    OBVIOUS
  <2>1. k - 1 \in 0..n /\ k \in 0..n
    BY <1>1
  <2>2. QED
    BY <1>3, <2>1
<1>6. ListLines(m, t.file, unread_only) \in J[n]
  <2> HIDE DEF J, n
  <2>1. QED
    BY <1>1, <1>2, <1>4, <1>5, OverListLine
<1>7. QED
  BY <1>1, <1>6 DEF Listed, m

LEMMA Toggling ==
  ASSUME NEW t \in Sound, Placed(t), NEW unread_only \in BOOLEAN, NEW g
  PROVE  LET u == toggle_my_groups(t, unread_only, g)
         IN u \in Sound /\ SameFiles(t, u) /\ SameFlags(t, u) /\ Placed(u) /\ Shows(u, unread_only) /\ OnEntry(u)
<1> DEFINE old == OldGroup(t, unread_only, g)
           v == Listed(t, unread_only)
           k == my_group_find(v, old, 0)
           u == toggle_my_groups(t, unread_only, g)
<1>1. v \in ListedTo(t, unread_only, Len(t.file)) /\ v \in Sound
  BY Listing DEF ListedTo
<1> HIDE DEF old
<1>2. IF old \in ToSet(v.my) THEN k \in 0..(Len(v.my) - 1) /\ v.my[k + 1] = old ELSE k = 0
  <2> HIDE DEF v
  <2>1. QED
    BY <1>1, Finding
<1>3. u = [v EXCEPT !.cur = k]
  BY DEF toggle_my_groups, old
<1> HIDE DEF k, v
<1>4. v.my \in Seq(GroupName) /\ Len(v.my) \in Nat
  BY <1>1 DEF Sound, Tables
<1>5. k \in Nat /\ (k < Len(v.my) \/ k = 0)
  BY <1>2, <1>4
<1>6. /\ u \in Tables /\ u.my = v.my /\ SameFiles(v, u) /\ SameFlags(v, u) /\ u.cur = k
  BY <1>1, <1>3, <1>5 DEF Sound, Tables, SameFiles, SameFlags
<1> HIDE DEF u
<1>7. u \in Sound /\ SameFiles(t, u) /\ SameFlags(t, u)
  BY <1>1, <1>6 DEF Sound, SameFiles, SameFlags, ListedTo
<1>8. DOMAIN t.file = 1..Len(t.file)
  BY DEF Sound, Tables
<1>9. Shows(u, unread_only) /\ Placed(u)
  BY <1>1, <1>6, <1>7, <1>8 DEF Shows, Placed, ListedTo, SameFiles, SameFlags, Belongs, find_group_index
<1>10. OnEntry(u)
  BY <1>5, <1>6 DEF OnEntry
<1>11. QED
  BY <1>7, <1>9, <1>10 DEF u

\* show_selection_page() changes the cursor alone.
LEMMA Showing ==
  ASSUME NEW t \in Sound
  PROVE  LET u == show_selection_page(t)
         IN u \in Sound /\ SameFiles(t, u) /\ SameFlags(t, u) /\ u.my = t.my /\ OnEntry(u)
<1> DEFINE k == IF Len(t.my) = 0 THEN 0 ELSE IF t.cur >= Len(t.my) THEN Len(t.my) - 1 ELSE t.cur
           u == show_selection_page(t)
<1>1. t \in Tables /\ t.my \in Seq(GroupName) /\ Len(t.my) \in Nat /\ t.cur \in Nat
  BY DEF Sound, Tables
<1>2. k \in Nat /\ (k < Len(t.my) \/ k = 0)
  BY <1>1
<1>3. u = [t EXCEPT !.cur = k]
  BY DEF show_selection_page
<1> HIDE DEF k
<1>4. u \in Tables /\ u.my = t.my /\ SameFiles(t, u) /\ SameFlags(t, u) /\ u.cur = k
  BY <1>1, <1>2, <1>3 DEF Tables, SameFiles, SameFlags
<1> HIDE DEF u
<1>5. u \in Sound
  BY <1>4 DEF Sound, SameFiles
<1>6. QED
  BY <1>2, <1>4, <1>5 DEF OnEntry, u

-----------------------------------------------------------------------------
(* New groups, and the active file *)

LEMMA Announcing ==
  ASSUME NEW t \in Sound, NEW g \in GroupName
  PROVE  subscribe_new_group(t, g) \in Sound
<1> DEFINE u == my_group_add(t, g)
           v == subscribe(u, g, TRUE)
           w == subscribe_new_group(t, g)
<1>1. CASE g \in AutoUnsubscribe \/ ~find_group_index(t, g)
  BY <1>1 DEF subscribe_new_group
<1>2. CASE g \notin AutoUnsubscribe /\ find_group_index(t, g)
  <2>1. u \in Sound /\ g \in ToSet(u.my)
    BY <1>2, Adding
  <2>2. w = IF g \in AutoSubscribe THEN [v EXCEPT !.my = Front(@)] ELSE [u EXCEPT !.new = @ \cup {g}]
    BY <1>2 DEF subscribe_new_group
  <2> HIDE DEF u
  <2>3. v \in Sound /\ v.my = u.my
    BY <2>1, Subscribing
  <2> HIDE DEF v, w
  <2>4. CASE w = [u EXCEPT !.new = @ \cup {g}]
    <3>1. w \in Tables /\ w.active = u.active /\ w.my = u.my /\ w.file = u.file
      BY <2>1, <2>4 DEF Sound, Tables
    <3>2. QED
      BY <2>1, <3>1 DEF Sound, w
  <2>5. CASE w = [v EXCEPT !.my = Front(@)]
    <3> DEFINE r == Front(v.my)
    <3>1. v.my \in Seq(GroupName) /\ Len(v.my) \in Nat /\ DOMAIN v.my = 1..Len(v.my)
      BY <2>3 DEF Sound, Tables
    <3>2. Len(v.my) - 1 \in 0..Len(v.my)
      BY <2>1, <2>3, <3>1 DEF ToSet
    <3>3. r = SubSeq(v.my, 1, Len(v.my) - 1)
      BY DEF Front
    <3>4. r \in Seq(GroupName) /\ ToSet(r) \subseteq ToSet(v.my) /\ IsInjective(r)
      BY <2>3, <3>1, <3>2, <3>3, Cutting DEF Sound
    <3> HIDE DEF r
    <3>5. w = [v EXCEPT !.my = r]
      BY <2>5 DEF r
    <3>6. w \in Tables /\ w.active = v.active /\ w.my = r /\ w.file = v.file
      BY <2>3, <3>4, <3>5 DEF Sound, Tables
    <3>7. QED
      BY <2>3, <3>4, <3>6 DEF Sound, w
  <2>6. QED
    BY <2>2, <2>4, <2>5
<1>3. QED
  BY <1>1, <1>2

LEMMA ReadingActive ==
  ASSUME NEW t \in Sound, NEW groups \in Seq(GroupName), NEW created \in Seq(GroupName)
  PROVE  read_news_active_file(t, groups, created) \in Sound
<1> DEFINE J == [k \in Nat |-> Sound]
<1>1. \A q \in Seq(GroupName) : /\ DOMAIN q = 1..Len(q) /\ Len(q) \in Nat
                             /\ \A k \in 1..Len(q) : q[k] \in GroupName
  OBVIOUS
<1>2. ASSUME NEW q \in Seq(GroupName), NEW m \in Sound
      PROVE FoldLeft(psGrpAdd, m, q) \in Sound /\ FoldLeft(subscribe_new_group, m, q) \in Sound
  <2> DEFINE n == Len(q)
  <2>1. DOMAIN q = 1..n /\ n \in Nat /\ m \in J[0]
    BY <1>1
  <2>2. ASSUME NEW j \in Nat, NEW i \in Nat, NEW u \in J[j], NEW k \in 1..n
        PROVE psGrpAdd(u, q[k]) \in J[i] /\ subscribe_new_group(u, q[k]) \in J[i]
    <3>1. u \in Sound /\ q[k] \in GroupName
      BY <1>1
    <3>2. psGrpAdd(u, q[k]) \in Sound
      BY <3>1, AddingActive
    <3>3. subscribe_new_group(u, q[k]) \in Sound
      BY <3>1, Announcing
    <3>4. QED
      BY <3>2, <3>3
  <2>3. \A k \in 1..n : k - 1 \in Nat /\ k \in Nat
    BY <2>1
  <2>4. J[n] = Sound
    BY <2>1
  <2> HIDE DEF J, n
  <2>5. /\ \A u \in J[0] : \A k \in 1..n : psGrpAdd(u, q[k]) \in J[0]
        /\ \A k \in 1..n : \A u \in J[k - 1] : psGrpAdd(u, q[k]) \in J[k]
    BY <2>2, <2>3
  <2>6. /\ \A u \in J[0] : \A k \in 1..n : subscribe_new_group(u, q[k]) \in J[0]
        /\ \A k \in 1..n : \A u \in J[k - 1] : subscribe_new_group(u, q[k]) \in J[k]
    BY <2>2, <2>3
  <2>7. FoldLeft(psGrpAdd, m, q) \in J[n]
    BY <2>1, <2>5, OverActive
  <2>8. FoldLeft(subscribe_new_group, m, q) \in J[n]
    BY <2>1, <2>6, OverNewGroups
  <2>9. QED
    BY <2>4, <2>7, <2>8
<1>3. groups \o created \in Seq(GroupName)
  OBVIOUS
<1>4. read_active_file(t, groups \o created) \in Sound
  BY <1>2, <1>3 DEF read_active_file
<1>5. QED
  BY <1>2, <1>4 DEF read_news_active_file, check_for_any_new_groups

\* What a page shows when it has been made anew.
Fresh(t, unread_only) == t \in Sound /\ Placed(t) /\ Shows(t, unread_only) /\ OnEntry(t)

LEMMA PageOf ==
  ASSUME NEW t \in Sound, Placed(t), NEW unread_only \in BOOLEAN, Shows(t, unread_only)
  PROVE  Fresh(show_selection_page(t), unread_only)
<1> DEFINE u == show_selection_page(t)
<1>1. u \in Sound /\ SameFiles(t, u) /\ SameFlags(t, u) /\ u.my = t.my /\ OnEntry(u)
  BY Showing
<1> HIDE DEF u
<1>2. Fresh(u, unread_only)
  BY <1>1 DEF Fresh, Placed, Shows, Belongs, SameFiles, SameFlags, find_group_index
<1>3. QED
  BY <1>2 DEF u

LEMMA Rebuilding ==
  ASSUME NEW t \in Sound, Placed(t), NEW unread_only \in BOOLEAN, NEW g
  PROVE  Fresh(show_selection_page(toggle_my_groups(t, unread_only, g)), unread_only)
<1> DEFINE u == toggle_my_groups(t, unread_only, g)
<1>1. u \in Sound /\ Placed(u) /\ Shows(u, unread_only)
  BY Toggling
<1> HIDE DEF u
<1>2. Fresh(show_selection_page(u), unread_only)
  BY <1>1, PageOf
<1>3. QED
  BY <1>2 DEF u

\* read_newsrc() finds or makes every subscribed group.
LEMMA Rereading ==
  ASSUME NEW t \in Sound
  PROVE  LET u == read_newsrc(t)
         IN u \in Sound /\ Placed(u) /\ Shows(u, FALSE) /\ u.unread = t.unread
<1> DEFINE u == read_newsrc(t)
<1>1. u \in Read(t, Len(t.file))
  BY ReadingNewsrc
<1> HIDE DEF u
<1>2. DOMAIN t.file = 1..Len(t.file)
  BY DEF Sound, Tables
<1>3. u \in Sound /\ Placed(u) /\ Shows(u, FALSE) /\ u.unread = t.unread
  BY <1>1, <1>2 DEF Read, Placed, Shows, Belongs
<1>4. QED
  BY <1>3 DEF u

LEMMA Resyncing ==
  ASSUME NEW t \in Sound, server \in Seq(GroupName), NEW created \in Seq(GroupName), NEW arrived,
         NEW unread_only \in BOOLEAN
  PROVE  Fresh(resync_active_file(t, created, arrived, unread_only), unread_only)
<1> DEFINE old == IF t.my = <<>> THEN "" ELSE t.my[t.cur + 1]
           w == read_news_active_file(vWriteNewsrc(t), server, created)
           u == read_newsrc(w)
           v == [u EXCEPT !.unread = @ \cup (arrived \cap u.sub)]
<1>1. vWriteNewsrc(t) \in Sound
  BY Writing DEF Rewritten
<1>2. w \in Sound
  BY <1>1, ReadingActive
<1> HIDE DEF w
<1>3. u \in Sound /\ Placed(u)
  BY <1>2, Rereading
<1> HIDE DEF u
<1>4. v \in Tables /\ v.active = u.active /\ v.my = u.my /\ v.file = u.file
  BY <1>3 DEF Sound, Tables
<1>5. resync_active_file(t, created, arrived, unread_only)
        = show_selection_page(toggle_my_groups(v, unread_only, old))
  BY DEF resync_active_file, u, w
<1> HIDE DEF v, old
<1>6. v \in Sound /\ Placed(v)
  BY <1>3, <1>4 DEF Sound, Placed, find_group_index
<1>7. QED
  BY <1>5, <1>6, Rebuilding

-----------------------------------------------------------------------------
(* The keys of the selection page *)

ListInv == Fresh(s, only) /\ only \in BOOLEAN /\ server \in Seq(GroupName)

LEMMA Remade ==
  ASSUME NEW t, NEW unread_only \in BOOLEAN, Fresh(t, unread_only), s' = t, only' = unread_only,
         server' \in Seq(GroupName)
  PROVE  ListInv'
BY DEF ListInv, Fresh, Placed, Shows, Belongs, OnEntry, find_group_index

LEMMA KeyPressed ==
  ASSUME ListInv, NEW t, Fresh(t, only), Keys(t)
  PROVE  ListInv'
BY Remade DEF ListInv, Keys

\* The group under the cursor.
LEMMA Current ==
  ASSUME ListInv, s.my # <<>>
  PROVE  CURR_GROUP \in GroupName /\ CURR_GROUP \in ToSet(s.my) /\ find_group_index(s, CURR_GROUP)
<1>1. s.my \in Seq(GroupName) /\ s.cur \in Nat /\ (s.cur < Len(s.my) \/ s.cur = 0)
  BY DEF ListInv, Fresh, Sound, Tables, OnEntry
<1>2. s.my \in Seq(GroupName) /\ s.cur \in Nat /\ Len(s.my) \in Nat /\ Len(s.my) # 0 /\ DOMAIN s.my = 1..Len(s.my)
  BY DEF ListInv, Fresh, Sound, Tables
<1>3. s.cur + 1 \in 1..Len(s.my)
  BY <1>1, <1>2
<1>4. CURR_GROUP \in ToSet(s.my) /\ CURR_GROUP \in GroupName
  BY <1>2, <1>3 DEF CURR_GROUP, ToSet
<1>5. QED
  BY <1>4 DEF ListInv, Fresh, Sound, find_group_index

LEMMA NewCursor ==
  ASSUME NEW t \in Sound, Placed(t), NEW unread_only, Shows(t, unread_only), NEW n \in Nat
  PROVE  LET u == [t EXCEPT !.cur = n]
         IN u \in Sound /\ u.my = t.my /\ Placed(u) /\ Shows(u, unread_only)
<1> DEFINE u == [t EXCEPT !.cur = n]
<1>1. u \in Tables /\ u.my = t.my /\ SameFiles(t, u) /\ SameFlags(t, u)
  BY DEF Sound, Tables, SameFiles, SameFlags
<1> HIDE DEF u
<1>2. u \in Sound
  BY <1>1 DEF Sound, SameFiles
<1>3. Placed(u) /\ Shows(u, unread_only)
  BY <1>1 DEF Placed, Shows, Belongs, SameFiles, SameFlags, find_group_index
<1>4. QED
  BY <1>1, <1>2, <1>3 DEF u

LEMMA Moving ==
  ASSUME NEW t \in Sound, Placed(t), NEW unread_only \in BOOLEAN, Shows(t, unread_only), NEW n \in Nat
  PROVE  Fresh(move_to_group(t, n), unread_only)
<1> DEFINE u == [t EXCEPT !.cur = n]
<1>1. u \in Sound /\ Placed(u) /\ Shows(u, unread_only)
  BY NewCursor
<1>2. move_to_group(t, n) = show_selection_page(u)
  BY DEF move_to_group
<1> HIDE DEF u
<1>3. QED
  BY <1>1, <1>2, PageOf

LEMMA NextPlace == ASSUME NEW t \in Sound PROVE pos_next_unread_group(t) \in Nat
<1> DEFINE from == {i \in t.cur..(Len(t.my) - 1) : Unread(t, i)}
           head == {i \in 0..(t.cur - 1) : Unread(t, i)}
           i1 == CHOOSE i \in from : \A j \in from : i <= j
           i2 == CHOOSE i \in head : \A j \in head : i <= j
<1>1. Len(t.my) \in Nat /\ t.cur \in Nat
  BY DEF Sound, Tables
<1>2. from \in SUBSET (0..Len(t.my)) /\ head \in SUBSET (0..t.cur)
  BY <1>1
<1>3. pos_next_unread_group(t) = IF t.my = <<>> THEN t.cur
        ELSE IF from # {} THEN i1 ELSE IF head # {} THEN i2 ELSE t.cur
  BY DEF pos_next_unread_group
<1> HIDE DEF from, head
<1>4. from # {} => i1 \in from
  BY <1>1, <1>2, Least
<1>5. head # {} => i2 \in head
  BY <1>1, <1>2, Least
<1> HIDE DEF i1, i2
<1>6. from \subseteq Nat /\ head \subseteq Nat
  BY <1>1, <1>2
<1>7. (from # {} => i1 \in Nat) /\ (head # {} => i2 \in Nat)
  BY <1>4, <1>5, <1>6, Zenon
<1>8. QED
  BY <1>1, <1>3, <1>6, <1>7, Zenon

\* Reading articles takes no group from those that belong on the page.
LEMMA LessUnread ==
  ASSUME NEW t \in Sound, Placed(t), NEW unread_only, Shows(t, unread_only), NEW A \in SUBSET t.unread
  PROVE  LET u == [t EXCEPT !.unread = A]
         IN u \in Sound /\ u.my = t.my /\ u.cur = t.cur /\ Placed(u) /\ Shows(u, unread_only)
<1> DEFINE u == [t EXCEPT !.unread = A]
<1>1. u \in Tables /\ u.my = t.my /\ u.cur = t.cur /\ SameFiles(t, u) /\ u.unread = A
  BY DEF Sound, Tables, SameFiles
<1> HIDE DEF u
<1>2. u \in Sound
  BY <1>1 DEF Sound, SameFiles
<1>3. Placed(u) /\ Shows(u, unread_only)
  BY <1>1 DEF Placed, Shows, Belongs, SameFiles, find_group_index
<1>4. QED
  BY <1>1, <1>2, <1>3 DEF u

LEMMA MovesTo == ASSUME ListInv, NEW n \in Nat, MoveTo(n) PROVE ListInv'
<1>1. s \in Sound /\ Placed(s) /\ Shows(s, only) /\ only \in BOOLEAN
  BY DEF ListInv, Fresh
<1>2. Fresh(move_to_group(s, n), only)
  BY <1>1, Moving
<1>3. QED
  BY <1>2, KeyPressed DEF MoveTo

LEMMA GoesToUnread == ASSUME ListInv, NextUnread PROVE ListInv'
<1>1. s \in Sound /\ Placed(s) /\ Shows(s, only) /\ only \in BOOLEAN
  BY DEF ListInv, Fresh
<1>2. pos_next_unread_group(s) \in Nat
  BY <1>1, NextPlace
<1>3. Fresh(move_to_group(s, pos_next_unread_group(s)), only)
  BY <1>1, <1>2, Moving
<1>4. QED
  BY <1>3, KeyPressed DEF NextUnread

LEMMA ReadsGroup == ASSUME ListInv, ReadGroup PROVE ListInv'
<1>1. s \in Sound /\ Placed(s) /\ Shows(s, only) /\ only \in BOOLEAN
  BY DEF ListInv, Fresh
<1>2. PICK left \in {s.unread, s.unread \ {CURR_GROUP}} :
        LET t == [s EXCEPT !.unread = left]
        IN \/ Keys(show_selection_page(t))
           \/ Keys(show_selection_page([t EXCEPT !.cur = IF @ + 1 < Len(t.my) THEN @ + 1 ELSE @]))
           \/ Keys(show_selection_page([t EXCEPT !.cur = pos_next_unread_group(t)]))
  BY DEF ReadGroup
<1> DEFINE t == [s EXCEPT !.unread = left]
           next == IF t.cur + 1 < Len(t.my) THEN t.cur + 1 ELSE t.cur
<1>3. t \in Sound /\ Placed(t) /\ Shows(t, only)
  BY <1>1, <1>2, LessUnread
<1>4. \/ Keys(show_selection_page(t))
      \/ Keys(move_to_group(t, next))
      \/ Keys(move_to_group(t, pos_next_unread_group(t)))
  BY <1>2 DEF move_to_group
<1> HIDE DEF t
<1>5. next \in Nat /\ pos_next_unread_group(t) \in Nat
  BY <1>3, NextPlace DEF Sound, Tables
<1> HIDE DEF next
<1>6. Fresh(show_selection_page(t), only)
  BY <1>1, <1>3, PageOf
<1>7. Fresh(move_to_group(t, next), only)
  BY <1>1, <1>3, <1>5, Moving
<1>8. Fresh(move_to_group(t, pos_next_unread_group(t)), only)
  BY <1>1, <1>3, <1>5, Moving
<1>9. QED
  BY <1>4, <1>6, <1>7, <1>8, KeyPressed

LEMMA CatchesUp == ASSUME ListInv, Catchup PROVE ListInv'
<1> DEFINE t == [s EXCEPT !.unread = @ \ {CURR_GROUP}]
<1>1. s \in Sound /\ Placed(s) /\ Shows(s, only) /\ only \in BOOLEAN
  BY DEF ListInv, Fresh
<1>2. t \in Sound /\ Placed(t) /\ Shows(t, only)
  BY <1>1, LessUnread
<1>3. Keys(move_to_group(t, pos_next_unread_group(t))) \/ Keys(move_to_group(t, s.cur + 1))
  BY DEF Catchup
<1> HIDE DEF t
<1>4. pos_next_unread_group(t) \in Nat
  BY <1>2, NextPlace
<1>5. s.cur + 1 \in Nat
  BY <1>1 DEF Sound, Tables
<1>6. Fresh(move_to_group(t, pos_next_unread_group(t)), only)
  BY <1>1, <1>2, <1>4, Moving
<1>7. Fresh(move_to_group(t, s.cur + 1), only)
  BY <1>1, <1>2, <1>5, Moving
<1>8. QED
  BY <1>3, <1>6, <1>7, KeyPressed

LEMMA MarksUnread == ASSUME ListInv, MarkUnread PROVE ListInv'
<1> DEFINE g == CURR_GROUP
           t == [s EXCEPT !.unread = @ \cup {g}]
<1>1. s \in Sound /\ Placed(s) /\ Shows(s, only) /\ OnEntry(s)
  BY DEF ListInv, Fresh
<1>2. Keys(t) /\ g \in GroupName /\ g \in ToSet(s.my)
  BY Current DEF MarkUnread
<1> HIDE DEF g
<1>3. t \in Tables /\ SameFiles(s, t) /\ t.my = s.my /\ t.cur = s.cur /\ t.unread = s.unread \cup {g}
  BY <1>1, <1>2 DEF Sound, Tables, SameFiles
<1>4. Keys(t)
  BY <1>2
<1> HIDE DEF t
<1>5. t \in Sound
  BY <1>1, <1>3 DEF Sound, SameFiles
<1>6. Placed(t) /\ Shows(t, only) /\ OnEntry(t)
  BY <1>1, <1>2, <1>3 DEF Placed, Shows, Belongs, OnEntry, SameFiles, find_group_index
<1>7. QED
  BY <1>4, <1>5, <1>6, KeyPressed DEF Fresh

LEMMA GoesTo == ASSUME ListInv, NEW g, Goto(g) PROVE ListInv'
<1> DEFINE t == my_group_add(s, g)
           k == my_group_find(t, g, 0)
<1>1. s \in Sound /\ Placed(s) /\ Shows(s, only) /\ only \in BOOLEAN
  BY DEF ListInv, Fresh
<1>2. find_group_index(s, g) /\ Keys(move_to_group(t, k))
  BY DEF Goto
<1>3. g \in GroupName
  <2>1. s.active \in Seq(GroupName) /\ DOMAIN s.active = 1..Len(s.active)
    BY <1>1 DEF Sound, Tables
  <2>2. QED
    BY <1>2, <2>1 DEF find_group_index, ToSet
<1>4. t \in Sound /\ SameFiles(s, t) /\ SameFlags(s, t) /\ ToSet(s.my) \subseteq ToSet(t.my)
      /\ g \in ToSet(t.my)
  BY <1>1, <1>2, <1>3, Adding
<1>5. k \in Nat
  <2>1. t.my \in Seq(GroupName) /\ Len(t.my) \in Nat
    BY <1>4 DEF Sound, Tables
  <2> HIDE DEF t
  <2>2. k \in 0..(Len(t.my) - 1)
    BY <1>4, Finding
  <2>3. QED
    BY <2>1, <2>2
<1>6. Keys(move_to_group(t, k))
  BY <1>2
<1> HIDE DEF t, k
<1>7. Placed(t) /\ Shows(t, only)
  BY <1>1, <1>4 DEF Placed, Shows, Belongs, SameFiles, SameFlags, find_group_index
<1>8. Fresh(move_to_group(t, k), only)
  BY <1>1, <1>4, <1>5, <1>7, Moving
<1>9. QED
  BY <1>6, <1>8, KeyPressed

LEMMA Resubscribed ==
  ASSUME NEW t \in Sound, Placed(t), NEW unread_only \in BOOLEAN, Shows(t, unread_only),
         NEW g \in GroupName, NEW state \in BOOLEAN, find_group_index(t, g), g \in ToSet(t.my)
  PROVE  LET u == subscribe(t, g, state)
         IN u \in Sound /\ Placed(u) /\ Shows(u, unread_only)
<1> DEFINE u == subscribe(t, g, state)
<1>1. /\ u \in Sound /\ u.my = t.my /\ u.unread = t.unread /\ Placed(u)
      /\ \A i \in DOMAIN u.file : u.file[i].sub /\ u.file[i].name # g =>
           \E j \in DOMAIN t.file : t.file[j] = u.file[i]
  BY Subscribing
<1> HIDE DEF u
<1>2. ASSUME NEW i \in DOMAIN u.file, Belongs(u, u.file[i], unread_only)
      PROVE u.file[i].name \in ToSet(u.my)
  <2>1. CASE u.file[i].name = g
    BY <1>1, <2>1
  <2>2. CASE u.file[i].name # g
    <3>1. PICK j \in DOMAIN t.file : t.file[j] = u.file[i]
      BY <1>1, <1>2, <2>2 DEF Belongs
    <3>2. Belongs(t, t.file[j], unread_only)
      BY <1>1, <1>2, <3>1 DEF Belongs
    <3>3. QED
      BY <1>1, <3>1, <3>2 DEF Shows
  <2>3. QED
    BY <2>1, <2>2
<1>3. u \in Sound /\ Placed(u) /\ Shows(u, unread_only)
  BY <1>1, <1>2 DEF Shows
<1>4. QED
  BY <1>3 DEF u

LEMMA Subscribes == ASSUME ListInv, Subscribe PROVE ListInv'
<1> DEFINE g == CURR_GROUP
           t == subscribe(s, g, TRUE)
<1>1. s \in Sound /\ Placed(s) /\ Shows(s, only) /\ only \in BOOLEAN
  BY DEF ListInv, Fresh
<1>2. Keys(show_selection_page(t)) /\ g \in GroupName /\ g \in ToSet(s.my) /\ find_group_index(s, g)
  BY Current DEF Subscribe
<1> HIDE DEF g
<1>3. t \in Sound /\ Placed(t) /\ Shows(t, only)
  BY <1>1, <1>2, Resubscribed
<1>4. Keys(show_selection_page(t))
  BY <1>2
<1> HIDE DEF t
<1>5. Fresh(show_selection_page(t), only)
  BY <1>1, <1>3, PageOf
<1>6. QED
  BY <1>4, <1>5, KeyPressed

LEMMA Unsubscribes == ASSUME ListInv, Unsubscribe PROVE ListInv'
<1> DEFINE g == CURR_GROUP
           t == subscribe(s, g, FALSE)
           w == delete_group(vWriteNewsrc(s), g)
           u == read_newsrc(w)
<1>1. s \in Sound /\ Placed(s) /\ Shows(s, only) /\ only \in BOOLEAN
  BY DEF ListInv, Fresh
<1>2. g \in GroupName /\ g \in ToSet(s.my) /\ find_group_index(s, g)
  BY Current DEF Unsubscribe
<1>3. Keys(move_to_group(t, s.cur + 1)) \/ Keys(show_selection_page(toggle_my_groups(u, only, "")))
  BY DEF Unsubscribe
<1> HIDE DEF g
<1>4. t \in Sound /\ Placed(t) /\ Shows(t, only)
  BY <1>1, <1>2, Resubscribed
<1>5. w \in Sound
  BY <1>1, Writing, Deleting DEF Rewritten
<1> HIDE DEF t, w
<1>6. u \in Sound /\ Placed(u)
  BY <1>5, Rereading
<1> HIDE DEF u
<1>7. s.cur + 1 \in Nat
  BY <1>1 DEF Sound, Tables
<1>8. Fresh(move_to_group(t, s.cur + 1), only)
  BY <1>1, <1>4, <1>7, Moving
<1>9. Fresh(show_selection_page(toggle_my_groups(u, only, "")), only)
  BY <1>1, <1>6, Rebuilding
<1>10. QED
  BY <1>3, <1>8, <1>9, KeyPressed

\* subscribe_pattern() takes only what is in active[], one group at a time.
LEMMA SubscribingOne ==
  ASSUME NEW t \in Sound, Placed(t), NEW g \in GroupName, NEW state \in BOOLEAN, find_group_index(t, g)
  PROVE  LET u == SubscribeOne(t, g, state) IN u \in Sound /\ Placed(u) /\ u.active = t.active
<1> DEFINE u == subscribe(t, g, state)
           v == my_group_add(u, g)
           w == [v EXCEPT !.unread = @ \cup {g}]
           x == SubscribeOne(t, g, state)
<1>1. u \in Sound /\ Placed(u) /\ u.active = t.active
  BY Subscribing
<1>2. x = u \/ x = w
  BY DEF SubscribeOne
<1> HIDE DEF u
<1>3. v \in Sound /\ SameFiles(u, v)
  BY <1>1, Adding
<1> HIDE DEF v
<1>4. w \in Tables /\ w.active = v.active /\ w.my = v.my /\ w.file = v.file
  BY <1>3 DEF Sound, Tables
<1> HIDE DEF w, x
<1>5. w \in Sound /\ Placed(w) /\ w.active = t.active
  BY <1>1, <1>3, <1>4 DEF Sound, Placed, SameFiles, find_group_index
<1>6. QED
  BY <1>1, <1>2, <1>5 DEF x

LEMMA SubscribingAll ==
  ASSUME NEW t \in Sound, Placed(t), NEW q \in Seq(ToSet(t.active)), NEW state \in BOOLEAN
  PROVE  SubscribeAll(t, q, state) \in Sound /\ Placed(SubscribeAll(t, q, state))
<1> DEFINE K == {u \in Sound : Placed(u) /\ u.active = t.active}
           J == [k \in Nat |-> K]
           n == Len(q)
<1>1. n \in Nat /\ DOMAIN q = 1..n /\ \A k \in 1..n : q[k] \in ToSet(t.active)
  OBVIOUS
<1>2. ToSet(t.active) \subseteq GroupName
  <2>1. t.active \in Seq(GroupName) /\ DOMAIN t.active = 1..Len(t.active)
    BY DEF Sound, Tables
  <2>2. QED
    BY <2>1 DEF ToSet
<1>3. ASSUME NEW u \in K, NEW k \in 1..n PROVE SubscribeOne(u, q[k], state) \in K
  <2>1. q[k] \in GroupName /\ find_group_index(u, q[k])
    BY <1>1, <1>2 DEF find_group_index
  <2>2. QED
    BY <2>1, SubscribingOne
<1>4. t \in K
  OBVIOUS
<1> HIDE DEF K, n
<1>5. /\ t \in J[0] /\ J[n] = K
      /\ \A u \in J[0] : \A k \in 1..n : SubscribeOne(u, q[k], state) \in J[0]
  BY <1>1, <1>3, <1>4
<1>6. \A k \in 1..n : \A u \in J[k - 1] : SubscribeOne(u, q[k], state) \in J[k]
  <2>1. \A k \in 1..n : k - 1 \in Nat /\ k \in Nat
    BY <1>1
  <2>2. QED
    BY <1>3, <2>1
<1> HIDE DEF J
<1>7. SubscribeAll(t, q, state) \in J[n]
  BY <1>1, <1>5, <1>6, OverSubscribe
<1>8. QED
  BY <1>5, <1>7 DEF K

LEMMA SubscribesPattern ==
  ASSUME ListInv, NEW groups, NEW state \in BOOLEAN, SubscribePattern(groups, state)
  PROVE  ListInv'
<1> DEFINE others == Only(s.active, ToSet(s.active) \ ToSet(s.my))
           all == s.my \o others
           hit == Only(all, {g \in groups : (g \in s.sub) # state})
           t == SubscribeAll(s, hit, state)
           A == ToSet(s.active)
<1>1. s \in Sound /\ Placed(s) /\ Shows(s, only) /\ only \in BOOLEAN
  BY DEF ListInv, Fresh
<1>2. Keys(show_selection_page(toggle_my_groups(t, only, "")))
  BY DEF SubscribePattern
<1>3. /\ s.my \in Seq(GroupName) /\ s.active \in Seq(GroupName) /\ ToSet(s.my) \subseteq A
      /\ DOMAIN s.my = 1..Len(s.my)
  BY <1>1 DEF Sound, Tables
<1>4. others \in Seq(A \cap (A \ ToSet(s.my)))
  BY <1>3, OnlyThose
<1> HIDE DEF others
<1>5. others \in Seq(A) /\ s.my \in Seq(A)
  <2>1. \A i \in 1..Len(s.my) : s.my[i] \in A
    BY <1>3 DEF ToSet
  <2> HIDE DEF A
  <2>2. QED
    BY <1>3, <1>4, <2>1
<1> HIDE DEF A
<1>6. all \in Seq(A)
  BY <1>5
<1> HIDE DEF all
<1>7. hit \in Seq(ToSet(all) \cap {g \in groups : (g \in s.sub) # state})
  BY <1>6, OnlyThose
<1>8. ToSet(all) \subseteq A
  BY <1>6 DEF ToSet
<1> HIDE DEF hit
<1>9. hit \in Seq(A)
  BY <1>7, <1>8
<1>10. t \in Sound /\ Placed(t)
  BY <1>1, <1>9, SubscribingAll DEF A
<1> HIDE DEF t
<1>11. Fresh(show_selection_page(toggle_my_groups(t, only, "")), only)
  BY <1>1, <1>10, Rebuilding
<1>12. QED
  BY <1>2, <1>11, KeyPressed

\* What reposition_group() writes, and where in the list the group is to be.
PosOf(n) == IF n > Len(s.my) THEN Len(s.my) ELSE n
PlaceFor(n) == PosOf(n) - skip_newgroups(s)
Repositioned(n) == pos_group_in_newsrc(vWriteNewsrc(s), CURR_GROUP, PlaceFor(n))

LEMMA LineMoved ==
  ASSUME ListInv, NEW n \in Nat, MayMove(n)
  PROVE  /\ CURR_GROUP \in GroupName /\ PlaceFor(n) \in Nat \ {0} /\ PosOf(n) \in Nat \ {0}
         /\ vWriteNewsrc(s) \in Rewritten(s) /\ Repositioned(n) \in Rewritten(s)
         /\ OneLineEach(FirstNewsrc) => \A i \in DOMAIN vWriteNewsrc(s).file :
              vWriteNewsrc(s).file[i].name = CURR_GROUP => vWriteNewsrc(s).file[i].sub
<1> DEFINE g == CURR_GROUP
           w == vWriteNewsrc(s)
<1>1. s \in Sound
  BY DEF ListInv, Fresh
<1>2. g \in GroupName
  BY Current DEF MayMove
<1>3. PosOf(n) > skip_newgroups(s) /\ \E i \in DOMAIN s.file : s.file[i] = Sub(g, TRUE)
  BY DEF MayMove, PosOf
<1>4. skip_newgroups(s) \in Nat /\ Len(s.my) \in Nat
  <2>1. Len(s.my) \in Nat
    BY <1>1 DEF Sound, Tables
  <2>2. QED
    BY <1>1, <2>1, NewGroupsFirst
<1>5. PosOf(n) \in Nat
  BY <1>4 DEF PosOf
<1>6. PlaceFor(n) \in Nat \ {0} /\ PosOf(n) \in Nat \ {0}
  BY <1>3, <1>4, <1>5 DEF PlaceFor
<1>7. w \in Rewritten(s) /\ \A i \in DOMAIN w.file : w.file[i] \in ToSet(s.file)
  BY <1>1, Writing, WrittenLines
<1> HIDE DEF g, w
<1>8. ASSUME OneLineEach(FirstNewsrc), NEW i \in DOMAIN w.file, w.file[i].name = g PROVE w.file[i].sub
  <2>1. PICK j \in DOMAIN s.file : s.file[j] = w.file[i]
    BY <1>7 DEF ToSet
  <2>2. PICK m \in DOMAIN s.file : s.file[m] = Sub(g, TRUE)
    BY <1>3
  <2>3. s.file[m].name = s.file[j].name
    BY <1>8, <2>1, <2>2 DEF Sub
  <2>4. s.file[m] = s.file[j]
    BY <1>1, <1>8, <2>3 DEF Sound, Lined, OneLineEach
  <2>5. QED
    BY <2>1, <2>2, <2>4 DEF Sub
<1>9. pos_group_in_newsrc(w, g, PlaceFor(n)) \in Rewritten(w)
  BY <1>2, <1>6, <1>7, <1>8, Positioning DEF Rewritten
<1>10. Repositioned(n) \in Rewritten(s)
  BY <1>7, <1>9 DEF Repositioned, Rewritten, g, w
<1>11. QED
  BY <1>2, <1>6, <1>7, <1>8, <1>10 DEF g, w

LEMMA MovesGroup == ASSUME ListInv, NEW n \in Nat, MoveGroup(n) PROVE ListInv'
<1> DEFINE u == read_newsrc(Repositioned(n))
           v == [u EXCEPT !.cur = PosOf(n) - 1]
<1>1. server \in Seq(GroupName)
  BY DEF ListInv
<1>2. s' = show_selection_page(v) /\ only' = FALSE /\ server' = server
  BY DEF MoveGroup, reposition_group, CURR_GROUP, Repositioned, PosOf, PlaceFor
<1>3. PosOf(n) \in Nat \ {0} /\ Repositioned(n) \in Rewritten(s)
  BY LineMoved DEF MoveGroup
<1>4. Repositioned(n) \in Sound /\ PosOf(n) - 1 \in Nat
  BY <1>3 DEF Rewritten
<1>5. u \in Sound /\ Placed(u) /\ Shows(u, FALSE)
  BY <1>4, Rereading
<1> HIDE DEF u
<1>6. v \in Sound /\ Placed(v) /\ Shows(v, FALSE)
  BY <1>4, <1>5, NewCursor
<1>7. s' = show_selection_page(v)
  BY <1>2
<1> HIDE DEF v
<1>8. Fresh(show_selection_page(v), FALSE)
  BY <1>6, PageOf
<1>9. QED
  BY <1>1, <1>2, <1>7, <1>8, Remade

LEMMA TogglesRead == ASSUME ListInv, ToggleRead PROVE ListInv'
<1> DEFINE t == show_selection_page(toggle_my_groups(s, ~only, ""))
<1>1. s \in Sound /\ Placed(s) /\ (~only) \in BOOLEAN /\ server \in Seq(GroupName)
  BY DEF ListInv, Fresh
<1>2. Fresh(t, ~only)
  BY <1>1, Rebuilding
<1>3. s' = t /\ only' = ~only /\ server' = server
  BY DEF ToggleRead
<1> HIDE DEF t
<1>4. QED
  BY <1>1, <1>2, <1>3, Remade

LEMMA Yanks == ASSUME ListInv, Yank PROVE ListInv'
<1> DEFINE g == IF s.my = <<>> THEN "" ELSE CURR_GROUP
           all == [s EXCEPT !.my = s.active]
           k == my_group_find(all, g, 0)
           back == toggle_my_groups(s, only, "")
           last == IF back.my = <<>> THEN 0 ELSE Len(back.my) - 1
           i == my_group_find(back, g, last)
           found == [all EXCEPT !.cur = k]
           returned == [back EXCEPT !.cur = i]
<1>1. s \in Sound /\ Placed(s) /\ OnEntry(s) /\ only \in BOOLEAN /\ server \in Seq(GroupName)
  BY DEF ListInv, Fresh
<1>2. /\ only' = only /\ server' = server
      /\ s' \in {show_selection_page(found), all, show_selection_page(returned)}
  BY DEF Yank
<1>3. /\ all \in Tables /\ all.my = s.active /\ all.active = s.active /\ all.file = s.file
      /\ all.cur = s.cur
  BY <1>1 DEF Sound, Tables
<1>4. s' \in {show_selection_page(found), all, show_selection_page(returned)}
  BY <1>2
<1> HIDE DEF all, g
<1>5. all \in Sound
  BY <1>1, <1>3 DEF Sound
<1>6. Placed(all) /\ Shows(all, only)
  BY <1>1, <1>3 DEF Placed, Shows, Belongs, find_group_index
<1>7. OnEntry(all)
  <2>1. /\ s.my \in Seq(GroupName) /\ s.active \in Seq(GroupName) /\ IsInjective(s.my)
        /\ ToSet(s.my) \subseteq ToSet(s.active)
    BY <1>1 DEF Sound, Tables
  <2>2. Len(s.my) <= Len(s.active) /\ Len(s.my) \in Nat /\ Len(s.active) \in Nat /\ s.cur \in Nat
    BY <1>1, <2>1, NoLonger DEF Sound, Tables
  <2>3. QED
    BY <1>1, <1>3, <2>2 DEF OnEntry
<1>8. k \in Nat
  <2>1. Len(all.my) \in Nat
    BY <1>5 DEF Sound, Tables
  <2>2. k \in 0..(Len(all.my) - 1) \/ k = 0
    BY <1>5, Finding
  <2>3. QED
    BY <2>1, <2>2
<1> HIDE DEF k
<1>9. found \in Sound /\ Placed(found) /\ Shows(found, only)
  BY <1>5, <1>6, <1>8, NewCursor
<1> HIDE DEF found
<1>10. back \in Sound /\ Placed(back) /\ Shows(back, only)
  BY <1>1, Toggling
<1> HIDE DEF back
<1>11. i \in Nat
  <2>1. back.my \in Seq(GroupName) /\ Len(back.my) \in Nat
    BY <1>10 DEF Sound, Tables
  <2>2. last \in Nat
    BY <2>1
  <2> HIDE DEF last
  <2>3. i \in 0..(Len(back.my) - 1) \/ i = last
    BY <1>10, Finding
  <2>4. QED
    BY <2>1, <2>2, <2>3
<1> HIDE DEF i
<1>12. returned \in Sound /\ Placed(returned) /\ Shows(returned, only)
  BY <1>10, <1>11, NewCursor
<1> HIDE DEF returned
<1>13. Fresh(show_selection_page(found), only) /\ Fresh(show_selection_page(returned), only)
  BY <1>1, <1>9, <1>12, PageOf
<1>14. Fresh(all, only)
  BY <1>5, <1>6, <1>7 DEF Fresh
<1>15. QED
  BY <1>1, <1>2, <1>4, <1>13, <1>14, Remade

LEMMA ResetsNewsrc == ASSUME ListInv, ResetNewsrc PROVE ListInv'
<1> DEFINE t == [s EXCEPT !.unread = @ \cup s.sub]
           u == resync_active_file(t, <<>>, {}, only)
           v == [u EXCEPT !.cur = 0]
<1>1. s \in Sound /\ only \in BOOLEAN /\ server \in Seq(GroupName)
  BY DEF ListInv, Fresh
<1>2. Keys(show_selection_page(v))
  BY DEF ResetNewsrc
<1>3. t \in Tables /\ t.active = s.active /\ t.my = s.my /\ t.file = s.file
  BY <1>1 DEF Sound, Tables
<1> HIDE DEF t
<1>4. t \in Sound /\ <<>> \in Seq(GroupName)
  BY <1>1, <1>3 DEF Sound
<1>5. u \in Sound /\ Placed(u) /\ Shows(u, only)
  BY <1>1, <1>4, Resyncing DEF Fresh
<1> HIDE DEF u
<1>6. v \in Sound /\ Placed(v) /\ Shows(v, only)
  BY <1>5, NewCursor
<1> HIDE DEF v
<1>7. Fresh(show_selection_page(v), only)
  BY <1>1, <1>6, PageOf
<1>8. QED
  BY <1>2, <1>7, KeyPressed

LEMMA CreatedNames == \A created \in Created : created \in Seq(GroupName)
<1> SUFFICES ASSUME NEW created \in Created PROVE created \in Seq(GroupName)
  OBVIOUS
<1>1. created = <<>> \/ \E g \in Announced : created = <<g>>
  BY DEF Created
<1>2. ASSUME NEW g \in Announced PROVE <<g>> \in Seq(GroupName)
  <2>1. g \in GroupName
    BY GroupsAssumption
  <2>2. QED
    BY <2>1, Single
<1>3. <<>> \in Seq(GroupName)
  OBVIOUS
<1>4. QED
  BY <1>1, <1>2, <1>3, Zenon

LEMMA Resyncs ==
  ASSUME ListInv, NEW created \in Created, NEW arrived, Resync(created, arrived)
  PROVE  ListInv'
<1> DEFINE t == resync_active_file(s, created, arrived, only)
<1>1. s \in Sound /\ only \in BOOLEAN /\ server \in Seq(GroupName)
  BY DEF ListInv, Fresh
<1>2. created \in Seq(GroupName)
  BY CreatedNames
<1>3. Fresh(t, only)
  BY <1>1, <1>2, Resyncing
<1>4. s' = t /\ only' = only /\ server' = server \o created
  BY DEF Resync
<1> HIDE DEF t
<1>5. server' \in Seq(GroupName)
  BY <1>1, <1>2, <1>4
<1>6. QED
  BY <1>1, <1>3, <1>4, <1>5, Remade

LEMMA ListStarts == ListInit => ListInv
<1> SUFFICES ASSUME ListInit PROVE ListInv
  OBVIOUS
<1> DEFINE t == [active |-> <<>>, sub |-> {}, new |-> {}, bogus |-> {}, unread |-> FirstUnread,
                 my |-> <<>>, cur |-> 0, file |-> FirstNewsrc]
           u == read_newsrc(read_news_active_file(t, FirstActive, <<>>))
<1>1. t \in Tables /\ t.my = <<>> /\ t.active = <<>> /\ t.file = FirstNewsrc
  BY GroupsAssumption DEF Tables, SubLines
<1>2. s = show_selection_page(toggle_my_groups(u, TRUE, "")) /\ only = TRUE /\ server = FirstActive
  BY DEF ListInit
<1> HIDE DEF t
<1>3. t \in Sound
  BY <1>1 DEF Sound, IsInjective, ToSet, Lined
<1>4. FirstActive \in Seq(GroupName) /\ <<>> \in Seq(GroupName)
  BY GroupsAssumption
<1>5. u \in Sound /\ Placed(u)
  BY <1>3, <1>4, ReadingActive, Rereading
<1> HIDE DEF u
<1>6. Fresh(s, only)
  BY <1>2, <1>5, Rebuilding
<1>7. QED
  BY <1>2, <1>4, <1>6 DEF ListInv

LEMMA ListSteps == ASSUME ListInv, [ListNext]_list_vars PROVE ListInv'
<1>1. ASSUME NEW n \in 0..Len(s.active), MoveTo(n) \/ MoveGroup(n) PROVE ListInv'
  <2>1. n \in Nat
    OBVIOUS
  <2>2. QED
    BY <1>1, <2>1, MovesTo, MovesGroup
<1>2. ASSUME NEW groups \in Patterns, NEW state \in BOOLEAN, SubscribePattern(groups, state) PROVE ListInv'
  BY <1>2, SubscribesPattern
<1>3. ASSUME NEW created \in Created, NEW arrived \in Arrived, Resync(created, arrived) PROVE ListInv'
  BY <1>3, Resyncs
<1>4. ASSUME NEW g \in Names, Goto(g) PROVE ListInv'
  BY <1>4, GoesTo
<1>5. CASE NextUnread \/ ReadGroup \/ Catchup \/ MarkUnread \/ Subscribe \/ Unsubscribe
  BY <1>5, GoesToUnread, ReadsGroup, CatchesUp, MarksUnread, Subscribes, Unsubscribes
<1>6. CASE ToggleRead \/ Yank \/ ResetNewsrc
  BY <1>6, TogglesRead, Yanks, ResetsNewsrc
<1>7. CASE UNCHANGED list_vars
  BY <1>7 DEF list_vars, ListInv, Fresh, Placed, Shows, Belongs, OnEntry, find_group_index
<1>8. QED
  BY <1>1, <1>2, <1>3, <1>4, <1>5, <1>6, <1>7 DEF ListNext

LEMMA ListSound == ListInv => GroupsListed
<1> SUFFICES ASSUME ListInv PROVE GroupsListed
  OBVIOUS
<1>1. s \in Sound /\ Shows(s, only) /\ OnEntry(s)
  BY DEF ListInv, Fresh
<1>2. QED
  BY <1>1 DEF GroupsListed, Sound, Shows, OnEntry, Belongs

\* The list of groups is in order, whatever key is pressed and whatever the
\* server brings in between (toggle_my_groups, resync_active_file,
\* reposition_group, subscribe_pattern): the cursor is on an entry, no group
\* is there twice, and none that belongs there is missing.
THEOREM PageListsGroups == ListSpec => []GroupsListed
<1>1. ListInit => ListInv
  BY ListStarts
<1>2. ListInv /\ [ListNext]_list_vars => ListInv'
  BY ListSteps
<1>3. ListInv => GroupsListed
  BY ListSound
<1>4. QED
  BY <1>1, <1>2, <1>3, PTL DEF ListSpec

-----------------------------------------------------------------------------
(* The cursor stays on its group *)

\* What a resync leaves of the groups that were known: they are, new ones are
\* new, and ones with unread articles have them.
Remembers(t, u) ==
  /\ ToSet(t.active) \subseteq ToSet(u.active) /\ t.unread \subseteq u.unread
  /\ t.new \cap ToSet(t.active) \subseteq u.new

LEMMA RememberingOn ==
  ASSUME NEW t, NEW u, NEW v, Remembers(t, u), Remembers(u, v)
  PROVE  Remembers(t, v)
BY DEF Remembers

LEMMA AddingRemembers ==
  ASSUME NEW t \in Sound, NEW g \in GroupName
  PROVE  Remembers(t, my_group_add(t, g))
<1> DEFINE u == my_group_add(t, g)
<1>1. SameFiles(t, u) /\ SameFlags(t, u)
  BY Adding
<1> HIDE DEF u
<1>2. Remembers(t, u)
  BY <1>1 DEF SameFiles, SameFlags, Remembers
<1>3. QED
  BY <1>2 DEF u

LEMMA ActiveRemembers ==
  ASSUME NEW t \in Sound, NEW g \in GroupName
  PROVE  Remembers(t, psGrpAdd(t, g))
<1> DEFINE u == psGrpAdd(t, g)
<1>1. /\ u.unread = t.unread /\ ToSet(t.active) \subseteq ToSet(u.active)
  BY AddingActive
<1>2. CASE find_group_index(t, g)
  BY <1>2 DEF psGrpAdd, Remembers
<1>3. CASE ~find_group_index(t, g)
  <2>1. u.new = t.new \ {g}
    BY <1>3 DEF psGrpAdd, Sound, Tables
  <2> HIDE DEF u
  <2>2. Remembers(t, u)
    BY <1>1, <1>3, <2>1 DEF Remembers, find_group_index
  <2>3. QED
    BY <2>2 DEF u
<1>4. QED
  BY <1>2, <1>3

LEMMA BogusRemembers ==
  ASSUME NEW t \in Sound, NEW g \in GroupName
  PROVE  Remembers(t, process_bogus(t, g))
<1> DEFINE v == psGrpAdd(t, g)
           w == [v EXCEPT !.bogus = @ \cup {g}]
<1>1. v \in Sound /\ Remembers(t, v)
  BY AddingActive, ActiveRemembers
<1>2. process_bogus(t, g) = my_group_add(w, g)
  BY DEF process_bogus
<1> HIDE DEF v
<1>3. w \in Tables /\ w.active = v.active /\ w.my = v.my /\ w.file = v.file /\ w.new = v.new /\ w.unread = v.unread
  BY <1>1 DEF Sound, Tables
<1> HIDE DEF w
<1>4. w \in Sound /\ Remembers(v, w)
  BY <1>1, <1>3 DEF Sound, Remembers
<1>5. Remembers(w, my_group_add(w, g))
  BY <1>4, AddingRemembers
<1>6. QED
  BY <1>1, <1>2, <1>4, <1>5, RememberingOn

LEMMA LineRemembers ==
  ASSUME NEW t \in Sound, NEW line \in SubLines
  PROVE  Remembers(t, ReadLine(t, line))
<1> DEFINE g == line.name
           u == my_group_add(t, g)
           v == [u EXCEPT !.sub = @ \cup {g}]
           w == ReadLine(t, line)
<1>1. g \in GroupName
  BY DEF SubLines
<1>2. w = t \/ w = process_bogus(t, g) \/ w = u \/ w = v
  BY DEF ReadLine
<1> HIDE DEF w, g
<1>3. Remembers(t, t)
  BY DEF Remembers
<1>4. Remembers(t, process_bogus(t, g))
  BY <1>1, BogusRemembers
<1>5. u \in Sound /\ Remembers(t, u)
  BY <1>1, Adding, AddingRemembers
<1> HIDE DEF u
<1>6. Remembers(t, v)
  <2>1. v.active = u.active /\ v.new = u.new /\ v.unread = u.unread
    BY <1>5 DEF Sound, Tables
  <2>2. QED
    BY <1>5, <2>1 DEF Remembers
<1>7. QED
  BY <1>2, <1>3, <1>4, <1>5, <1>6 DEF w

LEMMA RereadingRemembers ==
  ASSUME NEW t \in Sound
  PROVE  Remembers(t, read_newsrc(t))
<1> DEFINE n == Len(t.file)
           K == {u \in Sound : Remembers(t, u)}
           J == [k \in 0..n |-> K]
           m == KeepNew(t)
<1>1. n \in Nat /\ DOMAIN t.file = 1..n /\ \A k \in 1..n : t.file[k] \in SubLines
  BY DEF Sound, Tables
<1>2. m \in K
  <2>1. m \in Sound /\ SameFiles(t, m) /\ SameFlags(t, m)
    BY Keeping
  <2> HIDE DEF m
  <2>2. QED
    BY <2>1 DEF SameFiles, SameFlags, Remembers
<1> HIDE DEF m
<1>3. ASSUME NEW u \in K, NEW k \in 1..n PROVE ReadLine(u, t.file[k]) \in K
  <2> DEFINE v == ReadLine(u, t.file[k])
  <2>1. u \in Sound /\ Remembers(t, u) /\ t.file[k] \in SubLines
    BY <1>1
  <2>2. v \in Sound
    BY <2>1, ReadingLine
  <2>3. Remembers(u, v)
    BY <2>1, LineRemembers
  <2> HIDE DEF v
  <2>4. v \in K
    BY <2>1, <2>2, <2>3, RememberingOn
  <2>5. QED
    BY <2>4 DEF v
<1> HIDE DEF K, n
<1>4. m \in J[0] /\ J[n] = K
  BY <1>1, <1>2
<1>5. \A k \in 1..n : \A u \in J[k - 1] : ReadLine(u, t.file[k]) \in J[k]
  <2>1. \A k \in 1..n : k - 1 \in 0..n /\ k \in 0..n
    BY <1>1
  <2>2. QED
    BY <1>3, <2>1
<1> HIDE DEF J
<1>6. FoldLeft(ReadLine, m, t.file) \in J[n]
  BY <1>1, <1>2, <1>3, <1>4, <1>5, OverReadLine
<1>7. QED
  BY <1>4, <1>6 DEF read_newsrc, m, K

LEMMA NewRemembers ==
  ASSUME NEW t \in Sound, NEW g \in GroupName
  PROVE  Remembers(t, subscribe_new_group(t, g))
<1> DEFINE u == my_group_add(t, g)
           v == subscribe(u, g, TRUE)
           w == subscribe_new_group(t, g)
<1>1. w = t \/ w = [v EXCEPT !.my = Front(@)] \/ w = [u EXCEPT !.new = @ \cup {g}]
  BY DEF subscribe_new_group
<1> HIDE DEF w
<1>2. Remembers(t, t)
  BY DEF Remembers
<1>3. u \in Sound /\ Remembers(t, u)
  BY Adding, AddingRemembers
<1>4. v \in Sound /\ v.active = u.active /\ v.unread = u.unread
  BY <1>3, Subscribing
<1>5. v.new = u.new
  BY <1>3 DEF subscribe, Sound, Tables
<1> HIDE DEF u, v
<1>6. ASSUME w = [v EXCEPT !.my = Front(@)] PROVE Remembers(t, w)
  <2>1. w.active = v.active /\ w.new = v.new /\ w.unread = v.unread
    BY <1>4, <1>6 DEF Sound, Tables
  <2>2. QED
    BY <1>3, <1>4, <1>5, <2>1 DEF Remembers
<1>7. ASSUME w = [u EXCEPT !.new = @ \cup {g}] PROVE Remembers(t, w)
  <2>1. w.active = u.active /\ w.new = u.new \cup {g} /\ w.unread = u.unread
    BY <1>3, <1>7 DEF Sound, Tables
  <2>2. QED
    BY <1>3, <2>1 DEF Remembers
<1>8. QED
  BY <1>1, <1>2, <1>6, <1>7 DEF w

LEMMA NewsRemembers ==
  ASSUME NEW t \in Sound, NEW groups \in Seq(GroupName), NEW created \in Seq(GroupName)
  PROVE  Remembers(t, read_news_active_file(t, groups, created))
<1> DEFINE K == {u \in Sound : Remembers(t, u)}
           J == [k \in Nat |-> K]
<1>1. \A q \in Seq(GroupName) : /\ DOMAIN q = 1..Len(q) /\ Len(q) \in Nat
                                /\ \A k \in 1..Len(q) : q[k] \in GroupName
  OBVIOUS
<1>2. ASSUME NEW u \in K, NEW g \in GroupName PROVE psGrpAdd(u, g) \in K /\ subscribe_new_group(u, g) \in K
  <2>1. u \in Sound /\ Remembers(t, u)
    OBVIOUS
  <2>2. psGrpAdd(u, g) \in Sound /\ Remembers(u, psGrpAdd(u, g))
    BY <2>1, AddingActive, ActiveRemembers
  <2>3. subscribe_new_group(u, g) \in Sound /\ Remembers(u, subscribe_new_group(u, g))
    BY <2>1, Announcing, NewRemembers
  <2>4. QED
    BY <2>1, <2>2, <2>3, RememberingOn
<1>3. t \in K
  BY DEF Remembers
<1> HIDE DEF K
<1>4. ASSUME NEW q \in Seq(GroupName), NEW m \in K
      PROVE FoldLeft(psGrpAdd, m, q) \in K /\ FoldLeft(subscribe_new_group, m, q) \in K
  <2> DEFINE n == Len(q)
  <2>1. DOMAIN q = 1..n /\ n \in Nat /\ m \in J[0] /\ J[n] = K
    BY <1>1
  <2>2. \A k \in 1..n : k - 1 \in Nat /\ k \in Nat /\ q[k] \in GroupName
    BY <1>1, <2>1
  <2> HIDE DEF n
  <2>3. /\ \A u \in J[0] : \A k \in 1..n : psGrpAdd(u, q[k]) \in J[0]
        /\ \A k \in 1..n : \A u \in J[k - 1] : psGrpAdd(u, q[k]) \in J[k]
    BY <1>2, <2>2
  <2>4. /\ \A u \in J[0] : \A k \in 1..n : subscribe_new_group(u, q[k]) \in J[0]
        /\ \A k \in 1..n : \A u \in J[k - 1] : subscribe_new_group(u, q[k]) \in J[k]
    BY <1>2, <2>2
  <2> HIDE DEF J
  <2>5. FoldLeft(psGrpAdd, m, q) \in J[n]
    BY <2>1, <2>3, OverActive
  <2>6. FoldLeft(subscribe_new_group, m, q) \in J[n]
    BY <2>1, <2>4, OverNewGroups
  <2>7. QED
    BY <2>1, <2>5, <2>6
<1>5. groups \o created \in Seq(GroupName)
  OBVIOUS
<1>6. read_active_file(t, groups \o created) \in K
  BY <1>3, <1>4, <1>5 DEF read_active_file
<1>7. read_news_active_file(t, groups, created) \in K
  BY <1>4, <1>6 DEF read_news_active_file, check_for_any_new_groups
<1>8. QED
  BY <1>7 DEF K

\* Where toggle_my_groups() looks for the group to come back to.
OldPlace(t, g) == IF g # "" THEN my_group_find(t, g, 0) ELSE t.cur

\* The group to come back to is the one the list was left on, where it will be shown.
LEMMA OldIs ==
  ASSUME NEW t \in Sound, NEW unread_only \in BOOLEAN, NEW g, NEW k \in DOMAIN t.my,
         OldPlace(t, g) = k - 1,
         ~unread_only \/ t.my[k] \in t.unread \cup t.new
  PROVE  OldGroup(t, unread_only, g) = t.my[k]
<1> DEFINE idx == OldPlace(t, g)
           show == {i \in (idx + 1)..Len(t.my) : t.my[i] \in t.unread \cup t.new}
           least == CHOOSE i \in show : \A j \in show : i <= j
<1>1. t.my \in Seq(GroupName) /\ DOMAIN t.my = 1..Len(t.my) /\ Len(t.my) \in Nat
  BY DEF Sound, Tables
<1>2. k \in Nat /\ k <= Len(t.my) /\ k >= 1 /\ t.my # <<>>
  BY <1>1
<1>3. idx = k - 1
  OBVIOUS
<1>4. OldGroup(t, unread_only, g) =
        IF ~unread_only THEN (IF idx < Len(t.my) THEN t.my ELSE s.my)[idx + 1]
        ELSE IF show = {} THEN "" ELSE t.my[least]
  BY <1>2 DEF OldGroup, OldPlace
<1>5. CASE ~unread_only
  BY <1>1, <1>2, <1>3, <1>4, <1>5
<1>6. CASE unread_only
  <2>1. k \in show /\ show \subseteq Nat /\ \A j \in show : k <= j
    BY <1>1, <1>2, <1>3, <1>6
  <2> HIDE DEF show, idx
  <2>2. least = k
    BY <2>1, LeastOf
  <2> HIDE DEF least
  <2>3. show # {}
    BY <2>1
  <2>4. QED
    BY <1>4, <1>6, <2>2, <2>3
<1>7. QED
  BY <1>5, <1>6

LEMMA TogglingOn ==
  ASSUME NEW t \in Sound, NEW unread_only \in BOOLEAN, NEW g, NEW c, OldGroup(t, unread_only, g) = c
  PROVE  LET u == toggle_my_groups(t, unread_only, g)
         IN c \in ToSet(u.my) => u.my[u.cur + 1] = c
<1> DEFINE v == Listed(t, unread_only)
           k == my_group_find(v, c, 0)
           u == toggle_my_groups(t, unread_only, g)
<1>1. v \in Sound
  BY Listing DEF ListedTo
<1>2. u = [v EXCEPT !.cur = k]
  BY DEF toggle_my_groups
<1> HIDE DEF v
<1>3. c \in ToSet(v.my) => v.my[k + 1] = c
  BY <1>1, Finding
<1> HIDE DEF k
<1>4. u.my = v.my /\ u.cur = k
  BY <1>1, <1>2 DEF Sound, Tables
<1> HIDE DEF u
<1>5. c \in ToSet(u.my) => u.my[u.cur + 1] = c
  BY <1>3, <1>4
<1>6. QED
  BY <1>5 DEF u

\* The list holds nothing but what it held, and subscribed groups.
LEMMA ListedFrom ==
  ASSUME NEW t \in Sound, NEW unread_only \in BOOLEAN, Shows(t, FALSE)
  PROVE  ToSet(Listed(t, unread_only).my) \subseteq ToSet(t.my)
<1> DEFINE n == Len(t.file)
           K == {u \in Sound : ToSet(u.my) \subseteq ToSet(t.my)}
           J == [k \in 0..n |-> K]
           m == KeepNew(t)
<1>1. n \in Nat /\ DOMAIN t.file = 1..n /\ \A k \in 1..n : t.file[k] \in SubLines
  BY DEF Sound, Tables
<1>2. m \in K
  BY Keeping
<1> HIDE DEF m
<1>3. ASSUME NEW u \in K, NEW k \in 1..n PROVE ListLine(u, t.file[k], unread_only) \in K
  <2> DEFINE line == t.file[k]
             v == my_group_add(u, line.name)
  <2>1. u \in Sound /\ ToSet(u.my) \subseteq ToSet(t.my) /\ line \in SubLines
    BY <1>1
  <2>2. line.name \in GroupName /\ (line.sub => line.name \in ToSet(t.my))
    BY <1>1, <2>1 DEF SubLines, Shows, Belongs
  <2> HIDE DEF line
  <2>3. v \in Sound /\ ToSet(v.my) \subseteq ToSet(u.my) \cup {line.name}
    BY <2>1, <2>2, Adding
  <2>4. ListLine(u, line, unread_only) = u \/ (line.sub /\ ListLine(u, line, unread_only) = v)
    BY DEF ListLine
  <2> HIDE DEF v
  <2>5. ListLine(u, line, unread_only) \in K
    BY <2>1, <2>2, <2>3, <2>4
  <2>6. QED
    BY <2>5 DEF line
<1> HIDE DEF K, n
<1>4. m \in J[0] /\ J[n] = K /\ J[0] = K
  BY <1>1, <1>2
<1>5. /\ \A u \in J[0] : \A k \in 1..n : ListLine(u, t.file[k], unread_only) \in J[0]
      /\ \A k \in 1..n : \A u \in J[k - 1] : ListLine(u, t.file[k], unread_only) \in J[k]
  <2>1. \A k \in 1..n : k - 1 \in 0..n /\ k \in 0..n
    BY <1>1
  <2>2. QED
    BY <1>3, <1>4, <2>1
<1> HIDE DEF J
<1>6. ListLines(m, t.file, unread_only) \in J[n]
  BY <1>1, <1>4, <1>5, OverListLine
<1>7. QED
  BY <1>4, <1>6 DEF Listed, m, K

\* An entry of the list keeps the cursor when the page is drawn.
LEMMA ShowingEntry ==
  ASSUME NEW t \in Sound
  PROVE  LET u == show_selection_page(t)
         IN /\ u.my = t.my
            /\ OnEntry(t) => u.cur = t.cur
            /\ t.cur + 1 >= Len(t.my) /\ Len(t.my) # 0 => u.cur + 1 = Len(t.my)
<1>1. Len(t.my) \in Nat /\ t.cur \in Nat
  BY DEF Sound, Tables
<1>2. show_selection_page(t).cur = IF Len(t.my) = 0 THEN 0 ELSE IF t.cur >= Len(t.my) THEN Len(t.my) - 1 ELSE t.cur
  BY DEF show_selection_page, Sound, Tables
<1>3. show_selection_page(t).my = t.my
  BY DEF show_selection_page, Sound, Tables
<1>4. QED
  BY <1>1, <1>2, <1>3 DEF OnEntry

LEMMA FollowsResync ==
  ASSUME ListInv, s.my # <<>>, NEW created \in Seq(GroupName), NEW arrived
  PROVE  Follows(resync_active_file(s, created, arrived, only), only)
<1> DEFINE g == CURR_GROUP
           w == read_news_active_file(vWriteNewsrc(s), server, created)
           u == read_newsrc(w)
           v == [u EXCEPT !.unread = @ \cup (arrived \cap u.sub)]
           b == toggle_my_groups(v, only, g)
           t == resync_active_file(s, created, arrived, only)
<1>1. s \in Sound /\ only \in BOOLEAN /\ server \in Seq(GroupName)
  BY DEF ListInv, Fresh
<1>2. g \in GroupName /\ g \in ToSet(s.active) /\ g # ""
  BY Current DEF find_group_index, GroupName
<1>3. /\ vWriteNewsrc(s) \in Sound /\ Remembers(s, vWriteNewsrc(s))
  BY <1>1, Writing DEF Rewritten, Remembers
<1>4. w \in Sound /\ Remembers(vWriteNewsrc(s), w)
  BY <1>1, <1>3, ReadingActive, NewsRemembers
<1>5. Remembers(s, w)
  BY <1>3, <1>4, RememberingOn
<1>6. t = show_selection_page(b)
  BY DEF resync_active_file, CURR_GROUP
<1> HIDE DEF w
<1>7. u \in Sound /\ Placed(u) /\ Shows(u, FALSE) /\ Remembers(w, u)
  BY <1>4, Rereading, RereadingRemembers
<1>8. Remembers(s, u)
  BY <1>5, <1>7, RememberingOn
<1> HIDE DEF u, g
<1>9. /\ v \in Tables /\ v.active = u.active /\ v.my = u.my /\ v.file = u.file /\ v.new = u.new
      /\ u.unread \subseteq v.unread
  BY <1>7 DEF Sound, Tables
<1> HIDE DEF v
<1>10. v \in Sound /\ Placed(v) /\ Shows(v, FALSE)
  BY <1>7, <1>9 DEF Sound, Placed, Shows, Belongs, find_group_index
<1>11. b \in Sound /\ OnEntry(b)
  BY <1>1, <1>10, Toggling DEF b
<1> HIDE DEF b, t
<1>12. t.my = b.my /\ t.cur = b.cur
  <2>1. show_selection_page(b).my = b.my /\ show_selection_page(b).cur = b.cur
    BY <1>11, ShowingEntry
  <2>2. QED
    BY <1>6, <2>1
<1>13. ToSet(b.my) \subseteq ToSet(v.my)
  <2> DEFINE old == OldGroup(v, only, g)
             l == Listed(v, only)
  <2>1. l \in Sound /\ ToSet(l.my) \subseteq ToSet(v.my)
    BY <1>1, <1>10, Listing, ListedFrom DEF ListedTo
  <2>2. b = [l EXCEPT !.cur = my_group_find(l, old, 0)]
    BY DEF toggle_my_groups, b
  <2> HIDE DEF l, old
  <2>3. b.my = l.my
    BY <2>1, <2>2 DEF Sound, Tables
  <2>4. QED
    BY <2>1, <2>3
<1>14. ASSUME g \in ToSet(t.my), ~only \/ g \in s.unread \cup s.new PROVE t.my[t.cur + 1] = g
  <2> DEFINE k == my_group_find(v, g, 0) + 1
  <2>1. g \in ToSet(v.my)
    BY <1>12, <1>13, <1>14
  <2>2. v.my \in Seq(GroupName) /\ DOMAIN v.my = 1..Len(v.my) /\ Len(v.my) \in Nat
    BY <1>10 DEF Sound, Tables
  <2>3. my_group_find(v, g, 0) \in 0..(Len(v.my) - 1) /\ v.my[k] = g
    BY <1>10, <2>1, Finding
  <2>4. k \in DOMAIN v.my /\ my_group_find(v, g, 0) = k - 1
    BY <2>2, <2>3
  <2> HIDE DEF k
  <2>5. ~only \/ v.my[k] \in v.unread \cup v.new
    BY <1>2, <1>8, <1>9, <1>14, <2>3 DEF Remembers
  <2>6. OldGroup(v, only, g) = g
    <3>1. OldPlace(v, g) = k - 1
      BY <1>2, <2>4 DEF OldPlace
    <3>2. QED
      BY <1>1, <1>10, <2>3, <2>4, <2>5, <3>1, OldIs
  <2>7. g \in ToSet(b.my) => b.my[b.cur + 1] = g
    BY <1>1, <1>10, <2>6, TogglingOn DEF b
  <2>8. QED
    BY <1>12, <1>14, <2>7
<1>15. QED
  BY <1>14 DEF Follows, g, t

LEMMA FollowsToggle ==
  ASSUME ListInv, s.my # <<>>
  PROVE  Follows(toggle_my_groups(s, ~only, ""), ~only)
<1> DEFINE g == CURR_GROUP
           t == toggle_my_groups(s, ~only, "")
           k == s.cur + 1
<1>1. s \in Sound /\ (~only) \in BOOLEAN /\ OnEntry(s)
  BY DEF ListInv, Fresh
<1>2. s.my \in Seq(GroupName) /\ DOMAIN s.my = 1..Len(s.my) /\ Len(s.my) \in Nat /\ s.cur \in Nat
  BY <1>1 DEF Sound, Tables
<1>3. k \in DOMAIN s.my /\ s.cur = k - 1 /\ s.my[k] = g
  BY <1>1, <1>2 DEF OnEntry, CURR_GROUP
<1> HIDE DEF k, g
<1>4. ASSUME g \in ToSet(t.my), only \/ g \in s.unread \cup s.new PROVE t.my[t.cur + 1] = g
  <2>1. ~(~only) \/ s.my[k] \in s.unread \cup s.new
    BY <1>3, <1>4
  <2>2. OldGroup(s, ~only, "") = g
    <3>1. OldPlace(s, "") = k - 1
      BY <1>3 DEF OldPlace
    <3>2. QED
      BY <1>1, <1>3, <2>1, <3>1, OldIs
  <2>3. QED
    BY <1>1, <1>4, <2>2, TogglingOn
<1>5. QED
  BY <1>4 DEF Follows, g

\* A subscribed group that is not in the list gets behind the others, and one
\* that is not subscribed stays where it is.
LEMMA ReadingAppends ==
  ASSUME NEW t \in Sound, NEW line \in SubLines
  PROVE  LET u == ReadLine(t, line)
         IN /\ ~line.sub => u = t
            /\ line.sub /\ line.name \notin ToSet(t.my) => u.my = Append(t.my, line.name)
<1> DEFINE g == line.name
           u == ReadLine(t, line)
           a == my_group_add(t, g)
           v == psGrpAdd(t, g)
           w == [v EXCEPT !.bogus = @ \cup {g}]
<1>1. ~line.sub => u = t
  BY DEF ReadLine
<1>2. ASSUME line.sub, g \notin ToSet(t.my) PROVE u.my = Append(t.my, g)
  <2>1. g \in GroupName
    BY DEF SubLines
  <2>2. CASE find_group_index(t, g)
    <3>1. a = [t EXCEPT !.my = Append(@, g)] /\ a \in Sound
      BY <1>2, <2>1, <2>2, Adding DEF my_group_add
    <3>2. a.my = Append(t.my, g)
      BY <3>1 DEF Sound, Tables
    <3>3. u = a \/ u = [a EXCEPT !.sub = @ \cup {g}]
      BY <1>2, <2>2 DEF ReadLine
    <3> HIDE DEF a, u
    <3>4. QED
      BY <3>1, <3>2, <3>3 DEF Sound, Tables
  <2>3. CASE ~find_group_index(t, g)
    <3>1. v \in Sound /\ v.my = t.my /\ find_group_index(v, g)
      BY <2>1, AddingActive DEF find_group_index
    <3>2. u = my_group_add(w, g)
      BY <1>2, <2>3 DEF ReadLine, process_bogus
    <3> HIDE DEF v
    <3>3. w.my = t.my /\ w.active = v.active /\ w \in Tables
      BY <2>1, <3>1 DEF Sound, Tables
    <3> HIDE DEF w, u
    <3>4. u = [w EXCEPT !.my = Append(@, g)]
      BY <1>2, <3>1, <3>2, <3>3 DEF my_group_add, find_group_index
    <3>5. QED
      BY <3>3, <3>4 DEF Tables
  <2>4. QED
    BY <2>2, <2>3
<1>3. QED
  BY <1>1, <1>2

\* The new groups at the head, and the first m lines of rows.
Filled(t, u, rows, m) ==
  LET head == skip_newgroups(t)
  IN /\ Len(u.my) = head + m
     /\ \A i \in 1..head : u.my[i] \in t.new
     /\ \A i \in 1..m : u.my[head + i] = rows[i].name

LEMMA Skipped ==
  ASSUME NEW t \in Sound
  PROVE  \A i \in 1..skip_newgroups(t) : t.my[i] \in t.new
<1> DEFINE old == {i \in DOMAIN t.my : t.my[i] \notin t.new}
           least == CHOOSE i \in old : \A j \in old : i <= j
<1>1. t.my \in Seq(GroupName) /\ DOMAIN t.my = 1..Len(t.my) /\ Len(t.my) \in Nat
  BY DEF Sound, Tables
<1>2. skip_newgroups(t) = IF old = {} THEN Len(t.my) ELSE least - 1
  BY DEF skip_newgroups
<1>3. old \in SUBSET (0..Len(t.my))
  BY <1>1
<1>4. CASE old = {}
  BY <1>1, <1>2, <1>4
<1>5. CASE old # {}
  <2>1. PICK k \in old : \A j \in old : k <= j
    <3> HIDE DEF old
    <3>1. QED
      BY <1>1, <1>3, <1>5, LeastThere
  <2>2. least = k
    <3>1. old \in SUBSET Nat
      BY <1>1
    <3> HIDE DEF old
    <3>2. QED
      BY <2>1, <3>1, LeastOf
  <2> HIDE DEF least
  <2>3. k \in 1..Len(t.my) /\ skip_newgroups(t) = k - 1
    BY <1>1, <1>2, <1>5, <2>2
  <2>4. ASSUME NEW i \in 1..(k - 1) PROVE t.my[i] \in t.new
    <3>1. i \in DOMAIN t.my /\ ~(k <= i)
      BY <1>1, <2>3
    <3>2. i \notin old
      BY <2>1, <3>1
    <3>3. QED
      BY <3>1, <3>2
  <2>5. QED
    BY <2>3, <2>4
<1>6. QED
  BY <1>4, <1>5

\* read_newsrc() lists the groups of the first c lines in their order, if they
\* are subscribed, no other is, and none of them is new.
LEMMA ReadingInOrder ==
  ASSUME NEW t \in Sound, OneLineEach(t.file), NEW c \in 0..Len(t.file),
         \A i \in 1..Len(t.file) : IF i <= c THEN t.file[i].sub /\ t.file[i].name \notin t.new
                                    ELSE ~t.file[i].sub
  PROVE  Filled(t, read_newsrc(t), t.file, c)
<1> DEFINE n == Len(t.file)
           rows == t.file
           head == skip_newgroups(t)
           least(k) == IF k <= c THEN k ELSE c
           J == [k \in 0..n |-> {u \in Sound : Filled(t, u, rows, least(k))}]
           m == KeepNew(t)
<1>1. /\ n \in Nat /\ c \in Nat /\ c <= n /\ DOMAIN rows = 1..n /\ \A k \in 1..n : rows[k] \in SubLines
      /\ Len(t.my) \in Nat /\ t.my \in Seq(GroupName)
  BY DEF Sound, Tables
<1>2. head \in 0..Len(t.my)
  BY NewGroupsFirst
<1>3. m \in J[0]
  <2>1. m.my = SubSeq(t.my, 1, head)
    BY DEF KeepNew, Sound, Tables
  <2>2. m \in Sound
    BY Keeping
  <2>3. \A i \in 1..head : t.my[i] \in t.new
    BY Skipped
  <2> HIDE DEF m, head
  <2>4. Len(m.my) = head + 0 /\ \A i \in 1..head : m.my[i] = t.my[i]
    BY <1>1, <1>2, <2>1
  <2>5. Filled(t, m, rows, 0)
    BY <2>3, <2>4 DEF Filled, head
  <2>6. least(0) = 0 /\ 0 \in 0..n
    BY <1>1
  <2>7. QED
    BY <2>2, <2>5, <2>6
<1> HIDE DEF m
<1>4. \A u \in Sound : \A k \in 1..n : ReadLine(u, rows[k]) \in Sound
  BY <1>1, ReadingLine
<1>5. ASSUME NEW k \in 1..n, NEW u \in Sound, Filled(t, u, rows, least(k - 1))
      PROVE Filled(t, ReadLine(u, rows[k]), rows, least(k))
  <2> DEFINE v == ReadLine(u, rows[k])
             line == rows[k]
  <2>1. line \in SubLines /\ IF k <= c THEN line.sub /\ line.name \notin t.new ELSE ~line.sub
    BY <1>1
  <2>2. /\ ~line.sub => v = u
        /\ line.sub /\ line.name \notin ToSet(u.my) => v.my = Append(u.my, line.name)
    BY <2>1, ReadingAppends
  <2>3. CASE ~(k <= c)
    <3>1. least(k - 1) = least(k)
      BY <1>1, <2>3
    <3>2. v = u
      BY <2>1, <2>2, <2>3
    <3>3. QED
      BY <1>5, <3>1, <3>2
  <2>4. CASE k <= c
    <3>1. k \in 1..c /\ least(k - 1) = k - 1 /\ least(k) = k /\ k - 1 \in Nat /\ k \in Nat
      BY <1>1, <2>4
    <3> HIDE DEF v, least
    <3>2. /\ Len(u.my) = head + (k - 1) /\ \A i \in 1..head : u.my[i] \in t.new
          /\ \A i \in 1..(k - 1) : u.my[head + i] = rows[i].name
      BY <1>5, <3>1 DEF Filled
    <3> HIDE DEF head
    <3>3. u.my \in Seq(GroupName) /\ DOMAIN u.my = 1..Len(u.my) /\ Len(u.my) \in Nat /\ line.name \in GroupName
      BY <2>1 DEF Sound, Tables, SubLines
    <3>4. line.name \notin t.new
      BY <2>1, <2>4
    <3> HIDE DEF rows, line
    <3>5. ASSUME NEW i \in DOMAIN u.my PROVE u.my[i] # line.name
      <4>1. CASE i <= head
        BY <1>2, <3>2, <3>3, <3>4, <4>1
      <4>2. CASE i > head
        <5>1. i - head \in 1..(k - 1) /\ head + (i - head) = i
          BY <1>2, <3>2, <3>3, <4>2
        <5>2. u.my[i] = rows[i - head].name
          BY <3>2, <5>1
        <5>3. i - head \in DOMAIN rows /\ k \in DOMAIN rows /\ i - head # k
          BY <1>1, <3>1, <5>1
        <5>4. QED
          BY <5>2, <5>3 DEF OneLineEach, rows, line
      <4>3. QED
        BY <1>2, <3>3, <4>1, <4>2
    <3>6. v.my = Append(u.my, line.name)
      BY <2>1, <2>2, <2>4, <3>5 DEF ToSet
    <3>7. /\ Len(v.my) = Len(u.my) + 1 /\ v.my[Len(u.my) + 1] = line.name
          /\ \A i \in 1..Len(u.my) : v.my[i] = u.my[i]
      BY <3>3, <3>6
    <3>8. Len(v.my) = head + k /\ Len(u.my) + 1 = head + k
      BY <1>2, <3>1, <3>2, <3>7
    <3>9. \A i \in 1..head : v.my[i] \in t.new
      <4>1. \A i \in 1..head : i \in 1..Len(u.my)
        BY <1>2, <3>1, <3>2
      <4>2. QED
        BY <3>2, <3>7, <4>1
    <3>10. ASSUME NEW i \in 1..k PROVE v.my[head + i] = rows[i].name
      <4>1. CASE i = k
        BY <3>7, <3>8, <4>1 DEF line
      <4>2. CASE i # k
        <5>1. i \in 1..(k - 1) /\ head + i \in 1..Len(u.my)
          BY <1>2, <3>1, <3>2, <4>2
        <5>2. v.my[head + i] = u.my[head + i]
          BY <3>7, <5>1
        <5>3. u.my[head + i] = rows[i].name
          BY <3>2, <5>1
        <5>4. QED
          BY <5>2, <5>3, Zenon
      <4>3. QED
        BY <4>1, <4>2
    <3>11. Filled(t, v, rows, k)
      BY <3>8, <3>9, <3>10 DEF Filled, head
    <3>12. QED
      BY <3>1, <3>11 DEF v
  <2>5. QED
    BY <2>3, <2>4
<1>6. \A k \in 1..n : \A u \in J[k - 1] : ReadLine(u, rows[k]) \in J[k]
  <2> SUFFICES ASSUME NEW k \in 1..n, NEW u \in J[k - 1] PROVE ReadLine(u, rows[k]) \in J[k]
    OBVIOUS
  <2>1. k - 1 \in 0..n /\ k \in 0..n
    BY <1>1
  <2> HIDE DEF least
  <2>2. u \in Sound /\ Filled(t, u, rows, least(k - 1))
    BY <2>1
  <2>3. ReadLine(u, rows[k]) \in Sound /\ Filled(t, ReadLine(u, rows[k]), rows, least(k))
    BY <1>4, <1>5, <2>2
  <2>4. QED
    BY <2>1, <2>3
<1>7. m \in Sound
  BY Keeping DEF m
<1>8. FoldLeft(ReadLine, m, rows) \in J[n]
  <2> HIDE DEF J, n, rows
  <2>1. QED
    BY <1>1, <1>3, <1>4, <1>6, <1>7, OverReadLine
<1>9. least(n) = c /\ n \in 0..n
  BY <1>1
<1> HIDE DEF least
<1>10. Filled(t, FoldLeft(ReadLine, m, rows), rows, c)
  BY <1>8, <1>9
<1>11. QED
  BY <1>10 DEF read_newsrc, m

\* reposition_group() takes the cursor along.
LEMMA FollowsMoving ==
  ASSUME ListInv, OneLineEach(FirstNewsrc), NEW n \in Nat, MayMove(n),
         \A i \in DOMAIN s.file : s.file[i].sub => s.file[i].name \notin s.new
  PROVE  LET t == show_selection_page(reposition_group(s, n)) IN t.my[t.cur + 1] = CURR_GROUP
<1> DEFINE g == CURR_GROUP
           b == vWriteNewsrc(s)
           w == Repositioned(n)
           subs == OtherSubs(b, g)
           rest == Unsubs(b)
           k == PlaceOf(b, g, PlaceFor(n))
           c == Len(subs) + 1
           u == read_newsrc(w)
           v == [u EXCEPT !.cur = PosOf(n) - 1]
           t == show_selection_page(reposition_group(s, n))
           head == skip_newgroups(s)
           one == Sub(g, TRUE)
<1>1. s \in Sound
  BY DEF ListInv, Fresh
<1>2. /\ g \in GroupName /\ PlaceFor(n) \in Nat \ {0} /\ PosOf(n) \in Nat \ {0}
      /\ b \in Rewritten(s) /\ w \in Rewritten(s)
      /\ OneLineEach(FirstNewsrc) => \A i \in DOMAIN b.file : b.file[i].name = g => b.file[i].sub
  BY LineMoved
<1>3. b \in Sound /\ b.new = s.new /\ w \in Sound /\ w.new = s.new /\ w.my = s.my
  BY <1>2 DEF Rewritten
<1>4. g \notin s.new
  <2>1. PICK i \in DOMAIN s.file : s.file[i] = Sub(g, TRUE)
    BY DEF MayMove
  <2>2. QED
    BY <2>1 DEF Sub
<1>5. \A i \in DOMAIN b.file : b.file[i] \in ToSet(s.file)
  BY <1>1, WrittenLines
<1>6. t = show_selection_page(v)
  BY DEF reposition_group, CURR_GROUP, Repositioned, PosOf, PlaceFor
<1>7. w = pos_group_in_newsrc(b, g, PlaceFor(n))
  BY DEF Repositioned
<1>8. head \in Nat /\ PosOf(n) = head + PlaceFor(n) /\ skip_newgroups(w) = head
  <2>1. head \in Nat
    <3>1. Len(s.my) \in Nat
      BY <1>1 DEF Sound, Tables
    <3>2. QED
      BY <1>1, <3>1, NewGroupsFirst
  <2>2. PosOf(n) = head + PlaceFor(n)
    BY <1>2, <2>1 DEF PlaceFor
  <2>3. skip_newgroups(w) = head
    BY <1>3 DEF skip_newgroups
  <2>4. QED
    BY <2>1, <2>2, <2>3
<1> HIDE DEF g, b, w, u, head, t
<1>9. /\ subs \in Seq(SubLines) /\ rest \in Seq(SubLines) /\ k \in 0..Len(subs)
      /\ \A i \in DOMAIN subs : subs[i].sub /\ subs[i].name # g /\ subs[i] \in ToSet(b.file)
      /\ \A i \in DOMAIN rest : ~rest[i].sub /\ rest[i] \in ToSet(b.file)
      /\ w = [b EXCEPT !.file = Moved(b, g, PlaceFor(n))]
  BY <1>2, <1>3, <1>7, MovingLines
<1>10. k = IF PlaceFor(n) > Len(subs) THEN Len(subs) ELSE PlaceFor(n) - 1
  BY DEF PlaceOf
<1> HIDE DEF subs, rest, k
<1>11. one \in SubLines /\ one.name = g /\ one.sub
  BY <1>2 DEF Sub, SubLines
<1> HIDE DEF one
<1>12. w.file = Inserted(subs, k, one, rest)
  <2>1. Moved(b, g, PlaceFor(n)) = Inserted(subs, k, one, rest)
    BY DEF Moved, subs, k, rest, one
  <2>2. w.file = Moved(b, g, PlaceFor(n))
    BY <1>3, <1>9 DEF Sound, Tables
  <2>3. QED
    BY <2>1, <2>2
<1>13. PutIn(w.file, subs, k, one, rest)
  BY <1>9, <1>11, <1>12, Inserting
<1>14. /\ Len(subs) \in Nat /\ Len(rest) \in Nat /\ DOMAIN subs = 1..Len(subs) /\ DOMAIN rest = 1..Len(rest)
       /\ k \in Nat /\ k <= Len(subs) /\ Len(w.file) = c + Len(rest)
  BY <1>9, <1>13 DEF PutIn
<1>15. \A i \in DOMAIN subs : subs[i].name \notin s.new
  <2> SUFFICES ASSUME NEW i \in DOMAIN subs PROVE subs[i].name \notin s.new
    OBVIOUS
  <2>1. PICK j \in DOMAIN b.file : b.file[j] = subs[i]
    BY <1>9 DEF ToSet
  <2>2. PICK m \in DOMAIN s.file : s.file[m] = b.file[j]
    BY <1>5 DEF ToSet
  <2>3. QED
    BY <1>9, <2>1, <2>2
<1>16. ASSUME NEW i \in 1..Len(w.file)
       PROVE IF i <= c THEN w.file[i].sub /\ w.file[i].name \notin s.new ELSE ~w.file[i].sub
  <2>1. CASE i <= k
    <3>1. i \in DOMAIN subs /\ w.file[i] = subs[i] /\ i <= c
      BY <1>13, <1>14, <2>1 DEF PutIn
    <3>2. w.file[i].sub /\ w.file[i].name \notin s.new
      BY <1>9, <1>15, <3>1
    <3>3. QED
      BY <3>1, <3>2
  <2>2. CASE i = k + 1
    <3>1. w.file[i] = one /\ i <= c
      BY <1>13, <1>14, <2>2 DEF PutIn
    <3>2. QED
      BY <1>4, <1>11, <3>1
  <2>3. CASE i > k + 1 /\ i <= c
    <3>1. i - 1 \in DOMAIN subs /\ w.file[i] = subs[i - 1]
      <4>1. i \in (k + 2)..(Len(subs) + 1) /\ i - 1 \in DOMAIN subs
        BY <1>14, <2>3
      <4>2. QED
        BY <1>13, <4>1 DEF PutIn
    <3>2. w.file[i].sub /\ w.file[i].name \notin s.new
      BY <1>9, <1>15, <3>1
    <3>3. QED
      BY <2>3, <3>2
  <2>4. CASE i > c
    <3>1. i - Len(subs) - 1 \in DOMAIN rest /\ w.file[i] = rest[i - Len(subs) - 1]
      <4>1. i \in (Len(subs) + 2)..(Len(subs) + 1 + Len(rest)) /\ i - Len(subs) - 1 \in DOMAIN rest
        BY <1>14, <2>4
      <4>2. QED
        BY <1>13, <4>1 DEF PutIn
    <3>2. ~w.file[i].sub
      BY <1>9, <3>1
    <3>3. ~(i <= c)
      BY <1>14, <2>4
    <3>4. QED
      BY <3>2, <3>3
  <2>5. QED
    BY <1>14, <2>1, <2>2, <2>3, <2>4
<1>17. c \in 0..Len(w.file) /\ \A i \in 1..c : i \in 1..Len(w.file) /\ i <= c
  BY <1>14
<1>18. OneLineEach(w.file)
  BY <1>3 DEF Sound, Lined
<1>19. Filled(w, u, w.file, c)
  <2> HIDE DEF c
  <2>1. QED
    BY <1>3, <1>16, <1>17, <1>18, ReadingInOrder DEF u
<1>20. /\ Len(u.my) = head + c /\ u.my[head + (k + 1)] = g
  <2>1. k + 1 \in 1..c /\ w.file[k + 1] = one
    BY <1>13, <1>14 DEF PutIn
  <2>2. Len(u.my) = head + c /\ u.my[head + (k + 1)] = w.file[k + 1].name
    BY <1>8, <1>19, <2>1 DEF Filled
  <2>3. QED
    BY <1>11, <2>1, <2>2
<1>21. u \in Sound
  BY <1>3, Rereading DEF u
<1>22. v \in Sound /\ v.my = u.my /\ v.cur = PosOf(n) - 1
  <2> DEFINE p == PosOf(n) - 1
  <2>3. p \in Nat
    BY <1>2
  <2> HIDE DEF p
  <2>4. v = [u EXCEPT !.cur = p]
    BY DEF p
  <2>5. u \in Tables
    BY <1>21 DEF Sound
  <2> HIDE DEF v
  <2>6. v \in Tables /\ v.my = u.my /\ v.active = u.active /\ v.file = u.file /\ v.cur = p
    BY <2>3, <2>4, <2>5 DEF Tables
  <2>1. v \in Tables /\ v.my = u.my /\ v.active = u.active /\ v.file = u.file /\ v.cur = PosOf(n) - 1
    BY <2>6 DEF p
  <2> HIDE DEF v
  <2>2. QED
    BY <1>21, <2>1 DEF Sound
<1> HIDE DEF v
<1>23. /\ t.my = v.my /\ (OnEntry(v) => t.cur = v.cur)
       /\ v.cur + 1 >= Len(v.my) /\ Len(v.my) # 0 => t.cur + 1 = Len(t.my)
  BY <1>6, <1>22, ShowingEntry
<1>24. t.cur + 1 = head + (k + 1)
  <2>1. CASE PlaceFor(n) > Len(subs)
    BY <1>2, <1>8, <1>10, <1>14, <1>20, <1>22, <1>23, <2>1
  <2>2. CASE ~(PlaceFor(n) > Len(subs))
    <3>1. k + 1 = PlaceFor(n) /\ v.cur < Len(v.my)
      BY <1>2, <1>8, <1>10, <1>14, <1>20, <1>22, <2>2
    <3>2. QED
      BY <1>2, <1>8, <1>14, <1>22, <1>23, <3>1 DEF OnEntry
  <2>3. QED
    BY <2>1, <2>2
<1>25. t.my[t.cur + 1] = g
  BY <1>20, <1>22, <1>23, <1>24
<1>26. QED
  BY <1>25 DEF t, g

\* The cursor stays on its group: a resync, showing all groups or only those
\* with unread articles, and moving the group leave it there, whatever the
\* server has created and process_bogus() has put into active[] in between
\* (toggle_my_groups, resync_active_file, reposition_group).
THEOREM CursorKept == ListSpec => []CursorFollows
<1>1. ListInit => ListInv
  BY ListStarts
<1>2. ListInv /\ [ListNext]_list_vars => ListInv'
  BY ListSteps
<1>3. ListInv => CursorFollows
  <2> SUFFICES ASSUME ListInv, s.my # <<>> PROVE CursorFollows
    BY DEF CursorFollows
  <2>1. ASSUME NEW created \in Created, NEW arrived \in Arrived
        PROVE Follows(resync_active_file(s, created, arrived, only), only)
    BY CreatedNames, FollowsResync
  <2>2. Follows(toggle_my_groups(s, ~only, ""), ~only)
    BY FollowsToggle
  <2>3. ASSUME \A i \in DOMAIN s.file : s.file[i].sub => s.file[i].name \notin s.new,
               NEW n \in 1..Len(s.my), MayMove(n)
        PROVE LET t == show_selection_page(reposition_group(s, n)) IN t.my[t.cur + 1] = CURR_GROUP
    BY <2>3, FollowsMoving, OneLineAssumption
  <2>4. QED
    BY <2>1, <2>2, <2>3 DEF CursorFollows
<1>4. QED
  BY <1>1, <1>2, <1>3, PTL DEF ListSpec

-----------------------------------------------------------------------------
(* The pipelined GROUP commands: the inductive invariant *)

\* The subscribed groups of some lines of .newsrc
Subscribed(ls) == {ls[i].name : i \in {i \in 1..Len(ls) : ls[i].sub}}

\* The names of groups, and what ngnames[] holds before there are any
RingNames == STRING \cup {""}

\* The place in the ring of the k-th command that waits for its answer
Slot(k) == (index_o + k - 1) % Window

RingTypes ==
  /\ lines \in Seq([name : RingNames, sub : BOOLEAN])
  /\ ngnames \in [Slots -> RingNames]
  /\ index_i \in Slots /\ index_o \in Slots /\ window \in 0..Window
  /\ sent \in Seq(RingNames) /\ counted \subseteq RingNames

\* The ring is the commands under way, the one put last being the last of
\* them, since get_server() sends that one again.
RingOK ==
  /\ index_i = (index_o + window) % Window
  /\ Len(sent) = window
  /\ \A k \in 1..window : sent[k] = ngnames[Slot(k)]
  /\ window > 0 => last_put = sent[window]

\* Every subscribed group is still to be read, under way or counted.
CountsOK ==
  Subscribed(Lines) \cap Known
    = ((Subscribed(lines) \cup {sent[k] : k \in 1..window}) \cap Known) \cup counted

RingInv == RingTypes /\ RingOK /\ CountsOK /\ ~wrong

-----------------------------------------------------------------------------
(* The ring *)

LEMMA Mod ==
  ASSUME NEW x \in 0..(Window - 1)
  PROVE  x % Window = x /\ (x + Window) % Window = x
<1> Window \in Nat \ {0}
  BY PipelineAssumption
<1> QED
  OBVIOUS

LEMMA ModWrap ==
  ASSUME NEW x \in Window..(Window + Window - 1)
  PROVE  x % Window = x - Window
<1> Window \in Nat \ {0}
  BY PipelineAssumption
<1> QED
  OBVIOUS

\* o + d for a distance d of at most the ring's size
At(o, d) == IF o + d < Window THEN o + d ELSE o + d - Window

LEMMA AtMod ==
  ASSUME NEW o \in Slots, NEW d \in 0..Window
  PROVE  (o + d) % Window = At(o, d) /\ At(o, d) \in Slots
<1>1. Window \in Nat \ {0} /\ o \in 0..(Window - 1)
  BY PipelineAssumption DEF Slots
<1>2. CASE o + d < Window
  <2>1. o + d \in 0..(Window - 1)
    BY <1>1, <1>2
  <2>2. (o + d) % Window = o + d
    BY <2>1, Mod
  <2>3. QED
    BY <1>2, <2>1, <2>2 DEF At, Slots
<1>3. CASE ~(o + d < Window)
  <2>1. o + d \in Window..(Window + Window - 1)
    BY <1>1, <1>3
  <2>2. \A x \in Window..(Window + Window - 1) : x % Window = x - Window
    BY ModWrap
  <2>3. (o + d) % Window = (o + d) - Window
    BY <2>1, <2>2
  <2>4. QED
    BY <1>1, <1>3, <2>1, <2>3 DEF At, Slots
<1>4. QED
  BY <1>2, <1>3

LEMMA UpDown ==
  ASSUME NEW i \in Slots
  PROVE  /\ Up(i) = At(i, 1) /\ Up(i) \in Slots
         /\ Down(i) = At(i, Window - 1) /\ Down(i) \in Slots
<1>1. Window \in Nat \ {0} /\ i \in 0..(Window - 1)
  BY PipelineAssumption DEF Slots
<1>2. 1 \in 0..Window /\ Window - 1 \in 0..Window /\ i + Window - 1 = i + (Window - 1)
  BY <1>1
<1>3. QED
  BY <1>1, <1>2, AtMod DEF Up, Down

LEMMA SlotAt ==
  ASSUME RingTypes, NEW k \in 1..Window
  PROVE  Slot(k) = At(index_o, k - 1) /\ Slot(k) \in Slots
<1>1. Window \in Nat \ {0} /\ index_o \in 0..(Window - 1) /\ index_o \in Slots
  BY PipelineAssumption DEF Slots, RingTypes
<1>2. k - 1 \in 0..Window /\ index_o + k - 1 = index_o + (k - 1)
  BY <1>1
<1>3. QED
  BY <1>1, <1>2, AtMod DEF Slot

-----------------------------------------------------------------------------
(* One lemma per action *)

LEMMA SubscribedTail ==
  ASSUME NEW ls \in Seq([name : RingNames, sub : BOOLEAN]), ls # <<>>
  PROVE  /\ Tail(ls) \in Seq([name : RingNames, sub : BOOLEAN])
         /\ Head(ls).name \in RingNames /\ Head(ls).sub \in BOOLEAN
         /\ ~Head(ls).sub => Subscribed(ls) = Subscribed(Tail(ls))
         /\ Head(ls).sub => Subscribed(ls) = Subscribed(Tail(ls)) \cup {Head(ls).name}
<1> DEFINE T == [name : RingNames, sub : BOOLEAN]
           t == Tail(ls)
<1>0. ls \in Seq(T) /\ ls # <<>>
  OBVIOUS
<1> HIDE DEF T
<1>1. /\ t \in Seq(T) /\ Len(ls) \in Nat \ {0} /\ Len(t) = Len(ls) - 1
      /\ \A i \in 1..Len(t) : t[i] = ls[i + 1]
      /\ Head(ls) = ls[1] /\ ls[1] \in T
  BY <1>0
<1> HIDE DEF t
<1>2. ASSUME NEW x \in Subscribed(t) PROVE x \in Subscribed(ls)
  <2>1. PICK i \in 1..Len(t) : t[i].sub /\ t[i].name = x
    BY <1>2 DEF Subscribed
  <2>2. i + 1 \in 1..Len(ls) /\ ls[i + 1].sub /\ ls[i + 1].name = x
    BY <1>1, <2>1
  <2>3. QED
    BY <2>2 DEF Subscribed
<1>3. ASSUME NEW x \in Subscribed(ls) PROVE x \in Subscribed(t) \/ (ls[1].sub /\ x = ls[1].name)
  <2>1. PICK i \in 1..Len(ls) : ls[i].sub /\ ls[i].name = x
    BY <1>3 DEF Subscribed
  <2>2. CASE i = 1
    BY <2>1, <2>2
  <2>3. CASE i # 1
    <3>1. i - 1 \in 1..Len(t) /\ t[i - 1] = ls[i]
      BY <1>1, <2>3
    <3>2. QED
      BY <3>1, <2>1 DEF Subscribed
  <2>4. QED
    BY <2>2, <2>3
<1>4. ls[1].sub => ls[1].name \in Subscribed(ls)
  BY <1>1 DEF Subscribed
<1>5. ls[1].name \in RingNames /\ ls[1].sub \in BOOLEAN
  BY <1>1 DEF T
<1>6. ~ls[1].sub => Subscribed(ls) = Subscribed(t)
  BY <1>2, <1>3
<1>7. ls[1].sub => Subscribed(ls) = Subscribed(t) \cup {ls[1].name}
  BY <1>2, <1>3, <1>4
<1>8. QED
  BY <1>1, <1>5, <1>6, <1>7 DEF t, T

LEMMA LinesTyped == Lines \in Seq([name : RingNames, sub : BOOLEAN])
<1>1. [name : STRING, sub : BOOLEAN] \subseteq [name : RingNames, sub : BOOLEAN]
  BY DEF RingNames
<1>2. \A S, T : S \subseteq T => \A r \in Seq(S) : r \in Seq(T)
  OBVIOUS
<1>3. QED
  BY ONLY <1>1, <1>2, PipelineAssumption

LEMMA Constantly ==
  ASSUME NEW S, NEW T, NEW c \in T
  PROVE  [i \in S |-> c] \in [S -> T]
  OBVIOUS

LEMMA InitOK ==
  ASSUME Init
  PROVE  RingInv
<1>1. Window \in Nat \ {0} /\ 0 \in Slots /\ 0 \in 0..(Window - 1) /\ 0 \in 0..Window
  BY PipelineAssumption DEF Slots
<1>2. index_i = 0 /\ index_o = 0 /\ window = 0
  BY DEF Init
<1>3. lines = Lines /\ sent = <<>> /\ counted = {}
  BY DEF Init
<1>4. RingTypes
  <2>1. ngnames \in [Slots -> RingNames]
    <3>1. ngnames = [i \in Slots |-> ""]
      BY DEF Init
    <3>2. "" \in RingNames
      BY DEF RingNames
    <3>3. [i \in Slots |-> ""] \in [Slots -> RingNames]
      BY ONLY <3>2, Constantly
    <3>4. QED
      BY ONLY <3>1, <3>3
  <2>2. sent \in Seq(RingNames)
    BY ONLY <1>3
  <2>3. lines \in Seq([name : RingNames, sub : BOOLEAN])
    BY ONLY <1>3, LinesTyped
  <2>4. QED
    BY ONLY <1>1, <1>2, <1>3, <2>1, <2>2, <2>3 DEF RingTypes
<1>5. 1..window = {}
  BY ONLY <1>2
<1>6. RingOK
  <2>1. 0 % Window = 0
    BY <1>1, Mod
  <2>2. Len(sent) = 0 /\ index_o + window = 0 /\ ~(window > 0)
    BY ONLY <1>2, <1>3
  <2>3. QED
    BY ONLY <1>2, <1>5, <2>1, <2>2 DEF RingOK
<1>7. CountsOK
  <2>1. {sent[k] : k \in 1..window} = {}
    BY ONLY <1>5
  <2>2. QED
    BY ONLY <1>3, <2>1 DEF CountsOK
<1>8. QED
  BY <1>4, <1>6, <1>7 DEF RingInv, Init

LEMMA SkipOK ==
  ASSUME RingInv, Skip
  PROVE  RingInv'
<1>1. Subscribed(lines) = Subscribed(Tail(lines)) /\ Tail(lines) \in Seq([name : RingNames, sub : BOOLEAN])
  BY SubscribedTail DEF RingInv, RingTypes, Skip
<1>2. RingTypes'
  BY <1>1 DEF RingInv, RingTypes, Skip
<1>3. RingOK' /\ CountsOK' /\ ~wrong'
  BY <1>1 DEF RingInv, RingOK, CountsOK, Skip, Slot
<1>4. QED
  BY <1>2, <1>3 DEF RingInv

LEMMA PutGroupOK ==
  ASSUME RingInv, PutGroup
  PROVE  RingInv'
<1> DEFINE g == Head(lines).name
<1>1. /\ lines # <<>> /\ Head(lines).sub /\ window < Window /\ lines' = Tail(lines)
      /\ ngnames' = [ngnames EXCEPT ![index_i] = g] /\ sent' = Append(sent, g) /\ last_put' = g
      /\ index_i' = Up(index_i) /\ window' = window + 1
      /\ UNCHANGED <<index_o, counted, wrong>>
  BY DEF PutGroup
<1>2. /\ lines \in Seq([name : RingNames, sub : BOOLEAN])
      /\ ngnames \in [Slots -> RingNames] /\ index_i \in Slots /\ index_o \in Slots
      /\ Window \in Nat \ {0} /\ window \in Nat /\ index_o \in 0..(Window - 1)
      /\ sent \in Seq(RingNames) /\ Len(sent) = window
  BY PipelineAssumption DEF RingInv, RingTypes, RingOK, Slots
<1>3. /\ Subscribed(lines) = Subscribed(Tail(lines)) \cup {g}
      /\ Tail(lines) \in Seq([name : RingNames, sub : BOOLEAN]) /\ g \in RingNames
  BY <1>1, <1>2, SubscribedTail
<1> HIDE DEF g
<1>4. /\ sent' \in Seq(RingNames) /\ Len(sent') = window + 1 /\ sent'[window + 1] = g
      /\ \A k \in 1..window : sent'[k] = sent[k]
  BY <1>1, <1>2, <1>3
<1>5. RingTypes'
  BY <1>1, <1>2, <1>3, <1>4, UpDown DEF RingInv, RingTypes
<1>6. index_i = At(index_o, window) /\ Slot(window + 1) = index_i
  <2>1. window \in 0..Window /\ window + 1 \in 1..Window /\ window + 1 - 1 = window
    BY <1>1, <1>2
  <2>2. index_i = At(index_o, window)
    BY <1>2, <2>1, AtMod DEF RingInv, RingOK
  <2>3. Slot(window + 1) = At(index_o, window)
    BY <2>1, SlotAt DEF RingInv
  <2>4. QED
    BY <2>2, <2>3
<1>7. RingOK'
  <2>1. index_i' = (index_o + (window + 1)) % Window
    <3>1. index_i' = At(index_i, 1)
      BY <1>1, <1>2, UpDown
    <3>2. window + 1 \in 0..Window
      BY <1>1, <1>2
    <3>3. (index_o + (window + 1)) % Window = At(index_o, window + 1)
      BY <1>2, <3>2, AtMod
    <3>4. At(index_i, 1) = At(index_o, window + 1)
      BY <1>1, <1>2, <1>6 DEF At
    <3>5. QED
      BY <3>1, <3>3, <3>4
  <2>2. ASSUME NEW k \in 1..(window + 1) PROVE sent'[k] = ngnames'[Slot(k)]
    <3>1. k \in 1..Window /\ Slot(k) = At(index_o, k - 1) /\ Slot(k) \in Slots
      <4>1. k \in 1..Window
        BY <1>1, <1>2
      <4>2. QED
        BY <4>1, SlotAt DEF RingInv
    <3>2. CASE k = window + 1
      BY <1>1, <1>2, <1>4, <1>6, <3>2
    <3>3. CASE k # window + 1
      <4>1. k \in 1..window
        BY <1>2, <3>3
      <4>2. Slot(k) # index_i
        BY <1>1, <1>2, <1>6, <3>1, <4>1 DEF At
      <4>3. sent[k] = ngnames[Slot(k)]
        BY <4>1 DEF RingInv, RingOK
      <4>4. QED
        BY <1>1, <1>2, <1>4, <3>1, <4>1, <4>2, <4>3
    <3>4. QED
      BY <3>2, <3>3
  <2>3. \A k : Slot(k)' = (index_o + k' - 1) % Window
    BY <1>1 DEF Slot
  <2>4. QED
    BY <1>1, <1>4, <2>1, <2>2 DEF RingOK, Slot
<1>8. {sent'[k] : k \in 1..window'} = {sent[k] : k \in 1..window} \cup {g}
  <2>1. \A k \in 1..window' : k \in 1..window \/ k = window + 1
    BY <1>1, <1>2
  <2>2. 1..window \subseteq 1..window' /\ window + 1 \in 1..window'
    BY <1>1, <1>2
  <2>3. QED
    BY <1>4, <2>1, <2>2
<1>9. CountsOK'
  BY <1>1, <1>3, <1>8 DEF RingInv, CountsOK
<1>10. QED
  BY <1>1, <1>5, <1>7, <1>9 DEF RingInv


LEMMA GetAnswerOK ==
  ASSUME RingInv, GetAnswer
  PROVE  RingInv'
<1>1. /\ window > 0 /\ sent # <<>>
      /\ counted' = IF Head(sent) \in Known THEN counted \cup {Head(sent)} ELSE counted
      /\ wrong' = (wrong \/ (Head(sent) \in Known /\ Head(sent) # ngnames[index_o]))
      /\ ngnames' = ngnames /\ index_i' = index_i /\ index_o' = Up(index_o)
      /\ window' = window - 1 /\ sent' = Tail(sent) /\ UNCHANGED <<lines, last_put>>
  BY DEF GetAnswer, Answer, Ring, Waiting
<1>2. /\ lines \in Seq([name : RingNames, sub : BOOLEAN])
      /\ ngnames \in [Slots -> RingNames] /\ index_i \in Slots /\ index_o \in Slots
      /\ Window \in Nat \ {0} /\ window \in Nat /\ window <= Window /\ index_o \in 0..(Window - 1)
      /\ sent \in Seq(RingNames) /\ Len(sent) = window
  BY PipelineAssumption DEF RingInv, RingTypes, RingOK, Slots
<1>3. /\ sent' \in Seq(RingNames) /\ Len(sent') = window - 1 /\ Head(sent) = sent[1]
      /\ sent[1] \in RingNames /\ \A k \in 1..(window - 1) : sent'[k] = sent[k + 1]
  BY <1>1, <1>2
<1>4. window' \in 0..Window /\ 1 \in 1..Window /\ 1 \in 1..window
  BY <1>1, <1>2
<1>5. index_o' = At(index_o, 1) /\ index_o' \in Slots
  BY <1>1, <1>2, UpDown
<1>6. RingTypes'
  BY <1>1, <1>2, <1>3, <1>4, <1>5 DEF RingInv, RingTypes
<1>7. ~wrong'
  <2>1. Slot(1) = index_o
    <3>1. Slot(1) = At(index_o, 1 - 1)
      BY <1>4, SlotAt DEF RingInv
    <3>2. QED
      BY <1>2, <3>1 DEF At
  <2>2. sent[1] = ngnames[index_o]
    BY <1>4, <2>1 DEF RingInv, RingOK
  <2>3. QED
    BY <1>1, <1>3, <2>2 DEF RingInv
<1>8. RingOK'
  <2>1. index_i' = (index_o' + window') % Window
    <3>1. index_i = At(index_o, window)
      BY <1>2, AtMod DEF RingInv, RingOK
    <3>2. (index_o' + window') % Window = At(index_o', window - 1)
      BY <1>1, <1>4, <1>5, AtMod
    <3>3. At(index_o', window - 1) = At(index_o, window)
      BY <1>1, <1>2, <1>5 DEF At
    <3>4. QED
      BY <1>1, <3>1, <3>2, <3>3
  <2>2. ASSUME NEW k \in 1..(window - 1) PROVE sent'[k] = ngnames'[(index_o' + k - 1) % Window]
    <3>1. k \in 1..Window /\ k + 1 \in 1..window /\ k + 1 \in 1..Window
      BY <1>1, <1>2
    <3>2. Slot(k + 1) = At(index_o, (k + 1) - 1)
      BY <3>1, SlotAt DEF RingInv
    <3>3. (index_o' + (k - 1)) % Window = At(index_o', k - 1)
      <4>1. k - 1 \in 0..Window
        BY <1>2, <3>1
      <4>2. QED
        BY <1>5, <4>1, AtMod
    <3>4. At(index_o', k - 1) = At(index_o, (k + 1) - 1)
      BY <1>1, <1>2, <1>5 DEF At
    <3>5. index_o' + k - 1 = index_o' + (k - 1)
      BY <1>1, <1>2, <1>5 DEF Slots
    <3>6. sent[k + 1] = ngnames[Slot(k + 1)]
      BY <3>1 DEF RingInv, RingOK
    <3>7. QED
      BY <1>1, <1>3, <3>2, <3>3, <3>4, <3>5, <3>6
  <2>3. window' > 0 => last_put' = sent'[window']
    BY <1>1, <1>2, <1>3 DEF RingInv, RingOK
  <2>4. QED
    BY <1>1, <1>3, <2>1, <2>2, <2>3 DEF RingOK, Slot
<1>9. {sent[k] : k \in 1..window} = {sent'[k] : k \in 1..window'} \cup {sent[1]}
  <2>1. \A k \in 1..window : k = 1 \/ (k - 1 \in 1..window' /\ sent'[k - 1] = sent[k])
    BY <1>1, <1>2, <1>3
  <2>2. \A k \in 1..window' : k + 1 \in 1..window /\ sent'[k] = sent[k + 1]
    BY <1>1, <1>2, <1>3
  <2>3. QED
    BY <1>4, <2>1, <2>2
<1>10. CountsOK'
  BY <1>1, <1>3, <1>9 DEF RingInv, CountsOK
<1>11. QED
  BY <1>6, <1>7, <1>8, <1>10 DEF RingInv

LEMMA GetAfterReconnectOK ==
  ASSUME RingInv, GetAfterReconnect
  PROVE  RingInv'
<1> DEFINE o == Down(index_o)
           i == Down(index_i)
           names == IF i # o THEN [ngnames EXCEPT ![o] = ngnames[i]] ELSE ngnames
<1>1. /\ window > 0
      /\ counted' = IF last_put \in Known THEN counted \cup {last_put} ELSE counted
      /\ wrong' = (wrong \/ (last_put \in Known /\ last_put # names[o]))
      /\ ngnames' = names /\ index_i' = i /\ index_o' = Up(o)
      /\ window' = window - 1 /\ sent' = Resent /\ UNCHANGED lines
      /\ last_put' = IF Resent = <<>> THEN last_put ELSE Last(Resent)
  BY DEF GetAfterReconnect, Answer, Rotate, Ring, Waiting
<1>2. /\ lines \in Seq([name : RingNames, sub : BOOLEAN])
      /\ ngnames \in [Slots -> RingNames] /\ index_i \in Slots /\ index_o \in Slots
      /\ Window \in Nat \ {0} /\ window \in Nat /\ window <= Window
      /\ index_o \in 0..(Window - 1) /\ index_i \in 0..(Window - 1)
      /\ sent \in Seq(RingNames) /\ Len(sent) = window
  BY PipelineAssumption DEF RingInv, RingTypes, RingOK, Slots
<1>3. o = At(index_o, Window - 1) /\ i = At(index_i, Window - 1) /\ o \in Slots /\ i \in Slots
  BY <1>2, UpDown
<1>4. index_o' = index_o
  <2>1. Up(o) = At(o, 1)
    BY <1>3, UpDown
  <2>2. At(o, 1) = index_o
    BY <1>2, <1>3 DEF At
  <2>3. QED
    BY <1>1, <2>1, <2>2
<1>5. i = Slot(window) /\ window \in 1..window /\ window \in 1..Window /\ last_put = sent[window]
  <2>1. window \in 1..Window /\ window \in 1..window
    BY <1>1, <1>2
  <2>2. Slot(window) = At(index_o, window - 1)
    BY <2>1, SlotAt DEF RingInv
  <2>3. index_i = At(index_o, window)
    BY <1>2, AtMod DEF RingInv, RingOK
  <2>4. At(index_i, Window - 1) = At(index_o, window - 1)
    BY <1>1, <1>2, <2>3 DEF At
  <2>5. QED
    BY <1>1, <1>3, <2>1, <2>2, <2>4 DEF RingInv, RingOK
<1> HIDE DEF o, i
<1>6. names \in [Slots -> RingNames] /\ names[o] = ngnames[i] /\ \A r \in Slots \ {o} : names[r] = ngnames[r]
  BY <1>2, <1>3
<1> HIDE DEF names
<1>7. ~wrong'
  BY <1>1, <1>5, <1>6 DEF RingInv, RingOK
<1>8. /\ Len(Resent) = window - 1 /\ Resent \in Seq(RingNames)
      /\ \A k \in 1..(window - 1) : Resent[k] = ngnames[Slot(k)] /\ Slot(k) \in Slots \ {o}
                                    /\ Resent[k] = sent[k]
  <2>1. ASSUME NEW k \in 1..(window - 1)
        PROVE  /\ Slot(k) \in Slots \ {o} /\ ngnames[Slot(k)] \in RingNames
               /\ ngnames[Slot(k)] = sent[k]
    <3>1. k \in 1..Window /\ k \in 1..window
      BY <1>1, <1>2
    <3>2. Slot(k) = At(index_o, k - 1) /\ Slot(k) \in Slots
      BY <3>1, SlotAt DEF RingInv
    <3>3. At(index_o, k - 1) # o
      BY <1>1, <1>2, <1>3 DEF At
    <3>4. sent[k] = ngnames[Slot(k)]
      BY <3>1 DEF RingInv, RingOK
    <3>5. QED
      BY <1>2, <3>2, <3>3, <3>4
  <2>2. Resent = [k \in 1..(window - 1) |-> ngnames[Slot(k)]]
    BY DEF Resent, Slot
  <2>3. window - 1 \in Nat
    BY <1>1, <1>2
  <2>4. QED
    BY <2>1, <2>2, <2>3
<1>9. RingTypes'
  <2>1. window' \in 0..Window
    BY <1>1, <1>2
  <2>2. counted' \subseteq RingNames
    <3>1. sent[window] \in RingNames /\ counted \subseteq RingNames
      BY <1>2, <1>5 DEF RingInv, RingTypes
    <3>2. QED
      BY <1>1, <1>5, <3>1
  <2>3. QED
    BY <1>1, <1>2, <1>3, <1>4, <1>6, <1>8, <2>1, <2>2 DEF RingTypes
<1>10. RingOK'
  <2>1. index_i' = (index_o' + window') % Window
    <3>1. (index_o + (window - 1)) % Window = At(index_o, window - 1)
      <4>1. window - 1 \in 0..Window
        BY <1>1, <1>2
      <4>2. QED
        BY <1>2, <4>1, AtMod
    <3>2. Slot(window) = At(index_o, window - 1)
      BY <1>5, SlotAt DEF RingInv
    <3>3. QED
      BY <1>1, <1>4, <1>5, <3>1, <3>2
  <2>2. ASSUME NEW k \in 1..(window - 1) PROVE sent'[k] = ngnames'[(index_o' + k - 1) % Window]
    BY <1>1, <1>4, <1>6, <1>8 DEF Slot
  <2>3. window' > 0 => last_put' = sent'[window']
    <3>1. CASE window - 1 > 0
      <4>1. Resent # <<>> /\ Last(Resent) = Resent[window - 1]
        BY <1>2, <1>8, <3>1 DEF Last
      <4>2. QED
        BY <1>1, <4>1
    <3>2. CASE ~(window - 1 > 0)
      BY <1>1, <3>2
    <3>3. QED
      BY <3>1, <3>2
  <2>4. QED
    BY <1>1, <1>8, <2>1, <2>2, <2>3 DEF RingOK, Slot
<1>11. {sent[k] : k \in 1..window} = {sent'[k] : k \in 1..window'} \cup {last_put}
  <2>1. \A k \in 1..window : k = window \/ (k \in 1..window' /\ sent'[k] = sent[k])
    BY <1>1, <1>2, <1>8
  <2>2. \A k \in 1..window' : k \in 1..window /\ sent'[k] = sent[k]
    BY <1>1, <1>2, <1>8
  <2>3. QED
    BY <1>5, <2>1, <2>2
<1>12. CountsOK'
  BY <1>1, <1>11 DEF RingInv, CountsOK
<1>13. QED
  BY <1>7, <1>9, <1>10, <1>12 DEF RingInv

LEMMA Inductive ==
  ASSUME RingInv, [Next]_vars
  PROVE  RingInv'
<1>1. CASE UNCHANGED vars
  BY <1>1 DEF vars, RingInv, RingTypes, RingOK, CountsOK, Slot
<1>2. QED
  BY <1>1, SkipOK, PutGroupOK, GetAnswerOK, GetAfterReconnectOK DEF Next

-----------------------------------------------------------------------------
(* The theorems *)

\* The ring is the commands under way, in their order, and each subscribed
\* group is to be read, under way or counted.
THEOREM RingInvariant == Spec => []RingInv
<1>1. Init => RingInv
  BY InitOK
<1>2. RingInv /\ [Next]_vars => RingInv'
  BY Inductive
<1>3. QED
  BY <1>1, <1>2, PTL DEF Spec

\* No answer is taken for another group's, and in the end every subscribed
\* group the server carries is counted and no answer is left unread, for any
\* .newsrc, any size of the ring and any number of lost connections.
THEOREM CountsAreRight == Spec => []AnswersMatched
<1>1. ASSUME RingInv PROVE AnswersMatched
  <2>1. sent \in Seq(RingNames) /\ Len(sent) = window /\ \A k \in 1..window : sent[k] = ngnames[Slot(k)]
    BY <1>1 DEF RingInv, RingTypes, RingOK
  <2>2. sent = [k \in 1..window |-> ngnames[(index_o + k - 1) % Window]]
    BY <2>1 DEF Slot
  <2>3. Subscribed(Lines) = {l.name : l \in {l \in ToSet(Lines) : l.sub}}
    BY PipelineAssumption DEF Subscribed, ToSet
  <2>4. ASSUME lines = <<>>, window = 0 PROVE counted = Subscribed(Lines) \cap Known
    <3>1. Subscribed(lines) = {} /\ {sent[k] : k \in 1..window} = {}
      BY <2>4 DEF Subscribed
    <3>2. QED
      BY <1>1, <3>1 DEF RingInv, CountsOK
  <2>5. QED
    BY <1>1, <2>2, <2>3, <2>4 DEF RingInv, AnswersMatched, Done
<1>2. QED
  BY RingInvariant, <1>1, PTL

-----------------------------------------------------------------------------
(* The terminal *)

\* The steps of the terminal at which tin has given it away, or not yet taken it.
Away == {"starting", "leaving", "child", "left", "returning", "done", "exited"}

\* The terminal is as it was given, or in raw mode and its mode is kept.
Mode ==
  ~woken =>
    /\ _inraw => _original_tty = given
    /\ ~_inraw => tty = given
    /\ stopped \/ at \in Away => ~_inraw /\ ~keypad

\* The signals do what they do by default only while a program runs.
Handlers ==
  /\ tstp \in {"caught", "ignored"} \/ at \in {"child", "left", "done", "killed", "exited"}
  /\ tstp = "default" => do_sigtstp
  /\ stopped => tstp # "ignored"
  /\ winch = "caught" \/ at \in {"child", "left", "done", "killed", "exited"}
  /\ at \in {"killed", "exited"} => ~stopped

\* Nothing is on the screen that was drawn for another size or spoiled by the
\* shell, except where a request says so or the page is still to be drawn.
Screen ==
  /\ at \in {"starting", "child", "left", "returning"} => drawn = Other
  /\ at = "key" \/ (at = "resized" /\ resumes = "key") => signal_context = "cPage"
  /\ ~missed /\ ~stopped /\ at \in {"work", "key", "resized"} =>
       /\ need_resize = "cNo" \/ at = "resized" => cLINES = size
       /\ signal_context = "cPage" /\ (need_resize # "cRedraw" \/ at = "resized")
            => drawn \in {cLINES, Other}

TerminalTypes ==
  /\ at \in Away \cup {"work", "key", "resized", "killed"}
  /\ resumes \in {"work", "key"}
  /\ need_resize \in {"cNo", "cYes", "cRedraw"}
  /\ _inraw \in BOOLEAN /\ stopped \in BOOLEAN
  /\ tstp \in {"caught", "default", "ignored"} /\ winch \in {"caught", "default"}

TerminalInv == TerminalTypes /\ Mode /\ Handlers /\ Screen

LEMMA TerminalStarts == TInit => TerminalInv
<1>1. SUFFICES ASSUME TInit PROVE TerminalInv
  OBVIOUS
<1>2. TerminalTypes /\ Handlers
  BY <1>1 DEF TInit, TerminalTypes, Handlers, Away
<1>3. Mode /\ Screen
  BY <1>1 DEF TInit, Mode, Screen, Away
<1>4. QED
  BY <1>2, <1>3 DEF TerminalInv


\* Each step keeps the invariant.
LEMMA TerminalSteps == TerminalInv /\ [TNext]_tvars => TerminalInv'
<1> SUFFICES ASSUME TerminalInv, [TNext]_tvars PROVE TerminalInv'
  OBVIOUS
<1> USE DEF TerminalInv, TerminalTypes, Mode, Handlers, Screen, Away, Runs, mode, handlers, history, counts
<1>1. CASE setup_screen
  BY <1>1 DEF setup_screen, InitWin, Raw
<1>2. CASE ShowPage
  BY <1>2 DEF ShowPage
<1>3. CASE index_group
  BY <1>3 DEF index_group
<1>4. CASE ReadCh
  BY <1>4 DEF ReadCh
<1>5. CASE KeyRead
  BY <1>5 DEF KeyRead
<1>6. CASE handle_resize
  BY <1>6 DEF handle_resize, tin_done, EndWin, Raw
<1>7. CASE Resized
  BY <1>7 DEF Resized
<1>8. CASE ReadAgain
  BY <1>8 DEF ReadAgain
<1>9. CASE Quit
  BY <1>9 DEF Quit, tin_done, EndWin, Raw
<1>10. CASE LeaveScreen
  BY <1>10 DEF LeaveScreen, EndWin, Raw
<1>11. CASE RunProgram
  BY <1>11 DEF RunProgram
<1>12. CASE ProgramEnds
  BY <1>12 DEF ProgramEnds
<1>13. CASE CatchAgain
  BY <1>13 DEF CatchAgain
<1>14. CASE EnterScreen
  BY <1>14 DEF EnterScreen, InitWin, Raw
<1>15. CASE RawOnceMore
  BY <1>15 DEF RawOnceMore, Raw
<1>16. CASE Exit
  BY <1>16 DEF Exit
<1>17. CASE Resize /\ at \notin {"killed", "exited"}
  <2>1. TerminalTypes' /\ Mode' /\ Handlers'
    BY <1>17 DEF Resize, Request
  <2>2. Screen'
    BY <1>17 DEF Resize, Request
  <2>3. QED
    BY <2>1, <2>2
<1>18. CASE Suspend /\ at \notin {"killed", "exited"}
  BY <1>18 DEF Suspend, Raw, EndWin
<1>19. CASE Continue /\ at \notin {"killed", "exited"}
  BY <1>19 DEF Continue, Raw, InitWin, Request
<1>20. CASE Terminate /\ at \notin {"killed", "exited"}
  BY <1>20 DEF Terminate, tin_done, EndWin, Raw
<1>21. CASE Kill /\ at \notin {"killed", "exited"}
  BY <1>21 DEF Kill
<1>22. CASE UNCHANGED tvars
  BY <1>22 DEF tvars
<1>23. QED
  BY <1>1, <1>2, <1>3, <1>4, <1>5, <1>6, <1>7, <1>8, <1>9, <1>10, <1>11, <1>12, <1>13, <1>14, <1>15, <1>16, <1>17, <1>18, <1>19, <1>20, <1>21, <1>22 DEF TNext, Program, Signals

\* A run of tin from its first screen to its end, and the signals in it.
LEMMA TerminalSound == TSpec => []TerminalInv
<1>1. TInit => TerminalInv
  BY TerminalStarts
<1>2. TerminalInv /\ [TNext]_tvars => TerminalInv'
  BY TerminalSteps
<1>3. QED
  BY <1>1, <1>2, PTL DEF TSpec

\* The shell, while tin is stopped and when it has ended, and the programs that
\* invoke_cmd() runs find the terminal in the mode in which tin was given it,
\* whatever they made of that mode, and the keypad off.
THEOREM TerminalGivenBack == TSpec => []TerminalGiven
<1>1. TerminalInv => TerminalGiven
  BY DEF TerminalInv, Mode, TerminalGiven, Away
<1>2. QED
  BY <1>1, TerminalSound, PTL

\* Where ReadCh() waits for a key without a request to draw, the page has the
\* size of the window, whenever it was changed.
THEOREM PageFitsWindow == TSpec => []SizeSeen
<1>1. TerminalInv => SizeSeen
  BY DEF TerminalInv, Screen, SizeSeen, Runs
<1>2. QED
  BY <1>1, TerminalSound, PTL

-----------------------------------------------------------------------------
(* The score of an article: the rules one after the other *)

\* One turn of filter_articles() for an article.
Judged(sum, rule, art, name) ==
  IF name \in rule.scope THEN Clip(sum + Hits(rule, art, name) * rule.score) ELSE sum

Scores == (-SCORE_MAX)..SCORE_MAX

LEMMA Clipped == ASSUME NEW n \in Int PROVE Clip(n) \in Scores /\ (n >= -SCORE_MAX => Clip(n) <= n)
BY DEF Clip, FilterMax, FilterMin, Scores, SCORE_MAX

LEMMA HitsCounted == ASSUME NEW rule, NEW art, NEW name PROVE Hits(rule, art, name) \in Nat
<1> DEFINE hit(b) == IF b THEN 1 ELSE 0
           h1 == hit(rule.subj # None /\ test_regex(art.subject, rule.subj))
           h2 == hit(rule.from # None /\ test_regex(art.from, rule.from))
           h3 == hit(rule.msgid # None /\ MsgidHit(rule, art))
           h4 == hit(Compare(rule.lines, art.lines))
           h5 == hit(Compare(rule.gnksa, art.gnksa))
           h6 == hit(XrefHit(rule, art, name))
<1>1. h1 \in Nat /\ h2 \in Nat /\ h3 \in Nat /\ h4 \in Nat /\ h5 \in Nat /\ h6 \in Nat
  OBVIOUS
<1>2. Hits(rule, art, name) = h1 + h2 + h3 + h4 + h5 + h6
  BY Zenon DEF Hits
<1> HIDE DEF h1, h2, h3, h4, h5, h6
<1>3. QED
  BY <1>1, <1>2

LEMMA JudgedScore ==
  ASSUME NEW sum \in Scores, NEW rule, rule.score \in Int, NEW art, NEW name
  PROVE  Judged(sum, rule, art, name) \in Scores
<1>1. sum \in Int /\ Hits(rule, art, name) \in Int
  <2>1. Hits(rule, art, name) \in Nat
    BY HitsCounted
  <2>2. QED
    BY <2>1 DEF Scores
<1>2. sum + Hits(rule, art, name) * rule.score \in Int
  BY <1>1
<1>3. QED
  BY <1>2, Clipped DEF Judged

\* The score before each rule, and after the last.
Scored(it, array, art, name) ==
  /\ it[{}] = 0
  /\ \A k \in 1..Len(array) : it[1..k] = Judged(it[1..(k - 1)], array[k], art, name)
  /\ \A k \in 0..Len(array) : it[1..k] \in Scores
  /\ Score(array, art, name) = it[1..Len(array)]

LEMMA OverScores ==
  ASSUME NEW array, NEW n \in Nat, DOMAIN array = 1..n, Len(array) = n,
         \A k \in 1..n : array[k].score \in Int, NEW art, NEW name
  PROVE  \E it : Scored(it, array, art, name)
<1> DEFINE turn(sum, rule) == Judged(sum, rule, art, name)
           step == [x \in Scores \X (1..n) |-> turn(x[1], array[x[2]])]
           of(f) == [part \in SUBSET (1..n) |-> IF part = {} THEN 0 ELSE turn(f[part \ {Max(part)}], array[Max(part)])]
           it == CHOOSE f : f = of(f)
<1>1. step \in [Scores \X (1..n) -> Scores]
  BY JudgedScore
<1>2. 0 \in Scores
  BY DEF Scores, SCORE_MAX
<1> HIDE DEF step, it, turn
<1>3. PICK w \in Folds(n, Scores, 0, step) : TRUE
  BY <1>1, <1>2, FoldMade
<1>4. ASSUME NEW part \in SUBSET (1..n)
      PROVE w[part] = IF part = {} THEN 0 ELSE turn(w[part \ {Max(part)}], array[Max(part)])
  <2>1. w \in [SUBSET (1..n) -> Scores] /\ w[part] = Made(w, 0, step, part)
    BY <1>3 DEF Folds
  <2>2. part # {} => Max(part) \in 1..n /\ w[part \ {Max(part)}] \in Scores
    BY <2>1, MaxIn
  <2>3. QED
    BY <2>1, <2>2 DEF Made, step
<1>5. w = of(w)
  BY <1>3, <1>4 DEF Folds
<1>6. it = of(it)
  BY <1>5, Zenon DEF it
<1>7. Score(array, art, name) = it[1..n]
  BY Zenon DEF Score, FoldLeft, MapThenFoldSet, it, turn, Judged
<1>8. it[{}] = 0
  BY <1>6
<1>9. ASSUME NEW k \in 1..n PROVE it[1..k] = turn(it[1..(k - 1)], array[k])
  <2>1. 1..k \in SUBSET (1..n) /\ 1..k # {}
    <3>1. k \in 1..k /\ 1..k \in SUBSET (1..n)
      OBVIOUS
    <3>2. QED
      BY <3>1
  <2>2. Max(1..k) = k /\ (1..k) \ {k} = 1..(k - 1)
    BY MaxUpTo
  <2>3. QED
    BY <1>6, <2>1, <2>2
<1>10. ASSUME NEW k \in 0..n PROVE it[1..k] \in Scores
  <2> DEFINE P == {j \in 0..n : it[1..j] \in Scores}
  <2>1. 0 \in P
    <3>1. 1..0 = {}
      OBVIOUS
    <3>2. QED
      BY <1>2, <1>8, <3>1
  <2>2. ASSUME NEW j \in 0..(n - 1), j \in P PROVE j + 1 \in P
    <3>1. j + 1 \in 1..n /\ j + 1 - 1 = j /\ j + 1 \in 0..n
      OBVIOUS
    <3>2. it[1..(j + 1)] = turn(it[1..j], array[j + 1])
      BY <1>9, <3>1
    <3>3. turn(it[1..j], array[j + 1]) \in Scores
      BY <2>2, <3>1, JudgedScore DEF turn
    <3>4. QED
      BY <3>1, <3>2, <3>3
  <2>3. k \in P
    <3>1. k \in Nat /\ \A j \in 0..(k - 1) : j \in 0..(n - 1)
      OBVIOUS
    <3> HIDE DEF P
    <3>2. QED
      BY <2>1, <2>2, <3>1, UpTo
  <2>4. QED
    BY <2>3
<1>11. QED
  BY <1>7, <1>8, <1>9, <1>10, Zenon DEF Scored, turn

\* Appending a rule adds what it says.
LEMMA ScoreOfMore ==
  ASSUME NEW S, NEW array \in Seq(S), NEW rule \in S, \A r \in S : r.score \in Int,
         NEW art, NEW name
  PROVE  /\ Score(array, art, name) \in Scores
         /\ Score(Append(array, rule), art, name) = Judged(Score(array, art, name), rule, art, name)
<1> DEFINE n == Len(array)
           more == Append(array, rule)
<1>1. /\ n \in Nat /\ DOMAIN array = 1..n /\ \A k \in 1..n : array[k] \in S
      /\ DOMAIN more = 1..(n + 1) /\ Len(more) = n + 1 /\ n + 1 \in Nat
      /\ more[n + 1] = rule /\ \A k \in 1..n : more[k] = array[k]
  OBVIOUS
<1>2. \A k \in 1..(n + 1) : more[k].score \in Int
  BY <1>1
<1> HIDE DEF more
<1>3. PICK it : Scored(it, array, art, name)
  BY <1>1, OverScores
<1>4. PICK next : Scored(next, more, art, name)
  BY <1>1, <1>2, OverScores
<1> DEFINE J == [k \in 0..n |-> {it[1..k]}]
<1>5. next[{}] \in J[0]
  <2>1. 1..0 = {} /\ 0 \in 0..n
    BY <1>1
  <2>2. QED
    BY <1>3, <1>4, <2>1 DEF Scored
<1>6. ASSUME NEW k \in 1..n, next[(1..k) \ {Max(1..k)}] \in J[k - 1] PROVE next[1..k] \in J[k]
  <2>1. (1..k) \ {Max(1..k)} = 1..(k - 1)
    BY <1>1, MaxUpTo
  <2>2. k \in 0..n /\ k - 1 \in 0..n /\ k \in 1..(n + 1) /\ more[k] = array[k]
    BY <1>1
  <2>3. next[1..(k - 1)] = it[1..(k - 1)]
    BY <1>6, <2>1, <2>2
  <2>4. next[1..k] = it[1..k]
    BY <1>1, <1>3, <1>4, <2>2, <2>3 DEF Scored
  <2>5. QED
    BY <2>2, <2>4
<1>7. next[1..n] = it[1..n]
  <2>1. next[1..n] \in J[n]
    <3> HIDE DEF J
    <3>1. QED
      BY <1>1, <1>5, <1>6, FoldReaches
  <2>2. n \in 0..n
    BY <1>1
  <2>3. QED
    BY <2>1, <2>2
<1>8. next[1..(n + 1)] = Judged(next[1..n], rule, art, name)
  <2>1. n + 1 \in 1..(n + 1) /\ n + 1 - 1 = n
    BY <1>1
  <2>2. QED
    BY <1>1, <1>4, <2>1 DEF Scored
<1>9. n \in 0..n
  BY <1>1
<1>10. QED
  BY <1>1, <1>3, <1>4, <1>7, <1>8, <1>9 DEF Scored, more

-----------------------------------------------------------------------------
(* Filtering the articles of a group *)

\* What holds of the empty set, and of a set if it holds with an element less,
\* holds of a finite set.  (G: the sets of which it holds.)
LEMMA ByElements ==
  ASSUME NEW S, IsFiniteSet(S), NEW G, {} \in G,
         \A part \in SUBSET S : part # {} /\ (\A x \in part : part \ {x} \in G) => part \in G
  PROVE  S \in G
<1> DEFINE n == Cardinality(S)
           P == {k \in 0..n : \A part \in SUBSET S : Cardinality(part) = k => part \in G}
<1>1. n \in Nat /\ \A part \in SUBSET S : IsFiniteSet(part)
  BY FS_CardinalityType, FS_Subset
<1>2. 0 \in P
  <2>1. ASSUME NEW part \in SUBSET S, Cardinality(part) = 0 PROVE part \in G
    <3>1. part = {}
      BY <1>1, <2>1, FS_EmptySet
    <3>2. QED
      BY <3>1
  <2>2. QED
    BY <1>1, <2>1
<1>3. ASSUME NEW k \in 0..(n - 1), k \in P PROVE k + 1 \in P
  <2>1. k + 1 \in 0..n /\ k \in Nat /\ k + 1 - 1 = k
    BY <1>1
  <2>2. ASSUME NEW part \in SUBSET S, Cardinality(part) = k + 1 PROVE part \in G
    <3>1. IsFiniteSet(part)
      BY <1>1
    <3>2. part # {}
      <4>1. part = {} => Cardinality(part) = 0
        BY FS_EmptySet, Zenon
      <4>2. QED
        BY <2>1, <2>2, <4>1
    <3>3. ASSUME NEW x \in part PROVE part \ {x} \in G
      <4>1. Cardinality(part \ {x}) = Cardinality(part) - 1
        BY <3>1, FS_RemoveElement
      <4>2. Cardinality(part \ {x}) = k
        BY <2>1, <2>2, <4>1
      <4>3. QED
        BY <1>3, <4>2
    <3>4. QED
      BY <3>2, <3>3
  <2>3. QED
    BY <2>1, <2>2
<1>4. n \in P
  <2> HIDE DEF P
  <2>1. QED
    BY <1>1, <1>2, <1>3, UpTo
<1>5. QED
  BY <1>4

ArtStates == [status : {"unread", "read"}, killed : BOOLEAN, selected : BOOLEAN, score : Scores]
States(D) == {st \in [arts : [D -> ArtStates], bits : SUBSET D] :
                \A a \in D : st.arts[a].status = "read" => a \notin st.bits}

\* What the loop over the articles makes of those that a rule kills.
KillMarked(st, killed) ==
  [arts |-> [a \in DOMAIN st.arts |-> IF a \in killed THEN [st.arts[a] EXCEPT !.status = "read"] ELSE st.arts[a]],
   bits |-> st.bits \ killed]

LEMMA KilledAreRead ==
  ASSUME NEW D, NEW kill \in SUBSET D, IsFiniteSet(kill), NEW st \in States(D)
  PROVE  FoldSet(LAMBDA a, t : art_mark_read(t, a), st, kill) = KillMarked(st, kill)
<1> DEFINE of(f) == [u \in SUBSET kill |->
                       IF u = {} THEN st
                       ELSE art_mark_read(f[u \ {CHOOSE x \in u : TRUE}], CHOOSE x \in u : TRUE)]
           w == [u \in SUBSET kill |-> KillMarked(st, u)]
           it == CHOOSE f : f = of(f)
<1>1. st.arts \in [D -> ArtStates] /\ st.bits \in SUBSET D /\ st = [arts |-> st.arts, bits |-> st.bits]
  BY DEF States
<1>2. KillMarked(st, {}) = st
  <2>1. [a \in DOMAIN st.arts |-> IF a \in {} THEN [st.arts[a] EXCEPT !.status = "read"] ELSE st.arts[a]] = st.arts
    BY <1>1
  <2>2. st.bits \ {} = st.bits
    OBVIOUS
  <2>3. QED
    BY <1>1, <2>1, <2>2 DEF KillMarked
<1>3. ASSUME NEW u \in SUBSET kill, NEW x \in u
      PROVE art_mark_read(KillMarked(st, u \ {x}), x) = KillMarked(st, u)
  <2> DEFINE before == KillMarked(st, u \ {x})
             f == [before.arts EXCEPT ![x].status = "read"]
             g == KillMarked(st, u).arts
  <2>1. x \in D /\ DOMAIN before.arts = D /\ DOMAIN g = D /\ before.arts[x] = st.arts[x]
    BY <1>1 DEF KillMarked
  <2>2. f = g
    <3>1. DOMAIN f = D
      BY <2>1
    <3>2. ASSUME NEW a \in D PROVE f[a] = g[a]
      BY <1>1, <2>1 DEF KillMarked
    <3>3. f = [a \in D |-> f[a]] /\ g = [a \in D |-> g[a]]
      BY <1>1, <2>1, <3>1 DEF KillMarked
    <3>4. QED
      BY <3>2, <3>3
  <2>3. before.bits \ {x} = st.bits \ u
    BY DEF KillMarked
  <2>4. QED
    BY <2>2, <2>3 DEF art_mark_read, KillMarked
<1>4. ASSUME NEW u \in SUBSET kill
      PROVE w[u] = IF u = {} THEN st
                   ELSE art_mark_read(w[u \ {CHOOSE x \in u : TRUE}], CHOOSE x \in u : TRUE)
  <2>1. CASE u = {}
    BY <1>2, <2>1
  <2>2. CASE u # {}
    <3> DEFINE x == CHOOSE y \in u : TRUE
    <3>1. x \in u
      BY <2>2
    <3>2. u \ {x} \in SUBSET kill
      OBVIOUS
    <3> HIDE DEF x
    <3>3. w[u] = art_mark_read(w[u \ {x}], x)
      BY <1>3, <3>1, <3>2
    <3>4. QED
      BY <2>2, <3>3 DEF x
  <2>3. QED
    BY <2>1, <2>2
<1>5. w = of(w)
  BY <1>4
<1> HIDE DEF w, it
<1>6. it = of(it)
  BY <1>5, Zenon DEF it
<1>7. FoldSet(LAMBDA a, t : art_mark_read(t, a), st, kill) = it[kill]
  BY Zenon DEF FoldSet, MapThenFoldSet, it
<1> DEFINE G == {u \in SUBSET kill : it[u] = KillMarked(st, u)}
<1>8. {} \in G
  BY <1>2, <1>6
<1>9. ASSUME NEW u \in SUBSET kill, u # {}, \A x \in u : u \ {x} \in G
      PROVE u \in G
  <2> DEFINE x == CHOOSE z \in u : TRUE
  <2>1. x \in u
    BY <1>9
  <2>2. it[u] = art_mark_read(it[u \ {x}], x)
    BY <1>6, <1>9
  <2> HIDE DEF x
  <2>3. it[u \ {x}] = KillMarked(st, u \ {x})
    BY <1>9, <2>1
  <2>4. QED
    BY <1>3, <2>1, <2>2, <2>3
<1> HIDE DEF G
<1>10. kill \in G
  BY <1>8, <1>9, ByElements
<1>11. QED
  BY <1>7, <1>10 DEF G

\* Rules have numbers for scores, which is all that filtering asks of them.
ScoresOK(array) ==
  /\ DOMAIN array = 1..Len(array) /\ Len(array) \in Nat
  /\ \A i \in DOMAIN array : array[i].score \in Int

LEMMA Filtering ==
  ASSUME NEW D, IsFiniteSet(D), NEW st \in States(D), NEW array, ScoresOK(array), NEW name
  PROVE  LET t == filter_articles(array, name, st)
         IN t \in States(D) /\ \A a \in D : Score(array, Art[a], name) <= SCORE_LIM_KILL => a \notin t.bits
<1> DEFINE skip(a) == KillRead /\ st.arts[a].status = "read"
           scored == [a \in DOMAIN st.arts |-> IF skip(a) THEN 0 ELSE Score(array, Art[a], name)]
           kill == {a \in DOMAIN st.arts : scored[a] <= SCORE_LIM_KILL}
           sel == {a \in DOMAIN st.arts : scored[a] >= SCORE_LIM_SEL}
           marked == [a \in DOMAIN st.arts |->
                        [st.arts[a] EXCEPT !.score = scored[a], !.killed = @ \/ a \in kill,
                                          !.selected = @ \/ a \in sel]]
           u == [arts |-> marked, bits |-> st.bits]
           t == filter_articles(array, name, st)
<1>1. DOMAIN st.arts = D /\ st.arts \in [D -> ArtStates] /\ st.bits \in SUBSET D
  BY DEF States
<1>2. \A a \in D : Score(array, Art[a], name) \in Scores
  <2>1. SUFFICES ASSUME NEW a \in D PROVE Score(array, Art[a], name) \in Scores
    OBVIOUS
  <2>2. PICK it : Scored(it, array, Art[a], name)
    BY OverScores DEF ScoresOK
  <2>3. Len(array) \in 0..Len(array)
    BY DEF ScoresOK
  <2>4. QED
    BY <2>2, <2>3 DEF Scored
<1>3. scored \in [D -> Scores]
  <2>1. 0 \in Scores
    BY DEF Scores, SCORE_MAX
  <2>2. QED
    BY <1>1, <1>2, <2>1
<1> HIDE DEF scored
<1>4. \A a \in D : marked[a] \in ArtStates /\ marked[a].status = st.arts[a].status
  <2>1. SUFFICES ASSUME NEW a \in D PROVE marked[a] \in ArtStates /\ marked[a].status = st.arts[a].status
    OBVIOUS
  <2> DEFINE art == st.arts[a]
             killed == art.killed \/ a \in kill
             selected == art.selected \/ a \in sel
  <2>2. art \in ArtStates /\ scored[a] \in Scores /\ killed \in BOOLEAN /\ selected \in BOOLEAN
    BY <1>1, <1>3
  <2>3. marked[a] = [art EXCEPT !.score = scored[a], !.killed = killed, !.selected = selected]
    BY <1>1
  <2> HIDE DEF art, killed, selected, marked
  <2>4. marked[a] \in ArtStates /\ marked[a].status = art.status
    BY <2>2, <2>3 DEF ArtStates
  <2>5. QED
    BY <2>4 DEF art
<1>5. u \in States(D) /\ kill \in SUBSET D /\ IsFiniteSet(kill)
  <2>1. marked \in [D -> ArtStates]
    BY <1>1, <1>4
  <2>2. IsFiniteSet(kill)
    BY <1>1, FS_Subset
  <2>3. QED
    BY <1>1, <1>4, <2>1, <2>2 DEF States
<1> HIDE DEF kill, u, sel, marked
<1>6. t = IF array = <<>> THEN st ELSE KillMarked(u, kill)
  <2>1. t = IF array = <<>> THEN st ELSE FoldSet(LAMBDA a, v : art_mark_read(v, a), u, kill)
    BY Zenon DEF filter_articles, scored, kill, u, sel, marked
  <2>2. FoldSet(LAMBDA a, v : art_mark_read(v, a), u, kill) = KillMarked(u, kill)
    BY <1>5, KilledAreRead
  <2>3. QED
    BY <2>1, <2>2
<1>7. CASE array = <<>>
  <2>1. ASSUME NEW a \in D PROVE Score(array, Art[a], name) = 0
    <3>1. PICK it : Scored(it, array, Art[a], name)
      BY OverScores DEF ScoresOK
    <3>2. Len(array) = 0 /\ 1..0 = {}
      BY <1>7
    <3>3. QED
      BY <3>1, <3>2 DEF Scored
  <2>2. QED
    BY <1>6, <1>7, <2>1 DEF SCORE_LIM_KILL
<1>8. CASE array # <<>>
  <2>1. t = KillMarked(u, kill)
    BY <1>6, <1>8
  <2>2. t \in States(D)
    BY <1>5, <2>1 DEF KillMarked, States, ArtStates
  <2>3. ASSUME NEW a \in D, Score(array, Art[a], name) <= SCORE_LIM_KILL PROVE a \notin t.bits
    <3>1. t.bits = st.bits \ kill
      BY <2>1 DEF KillMarked, u
    <3>2. CASE skip(a)
      BY <3>1, <3>2 DEF States
    <3>3. CASE ~skip(a)
      <4>1. a \in kill
        BY <1>1, <2>3, <3>3 DEF kill, scored
      <4>2. QED
        BY <3>1, <4>1
    <3>4. QED
      BY <3>2, <3>3
  <2>4. QED
    BY <2>2, <2>3
<1>9. QED
  BY <1>7, <1>8

-----------------------------------------------------------------------------
(* Reading the lines of a file *)

MsgidKeys == {"msgid", "msgid_last", "msgid_only", "refs_only"}
FilterRules(V) ==
  [type : V, scope : V, icase : V, fullref : MsgidKeys, subj : V, from : V, msgid : V, lines : V,
   gnksa : V, score : Int, xref : V, xref_max : V, xref_scores : Seq(V), time : V]
Reading(V) ==
  {r \in [rules : Seq(FilterRules(V)), open : BOOLEAN, cnt : Nat, expired : BOOLEAN] :
     r.open => r.rules # <<>>}

\* The values that are in rules whatever the file says.
Given == {0, FILTER_SELECT, None, NoTest, Garbage} \cup [word : {None, "kill", "hot"}, num : Int]

ScoreIsNumber(line) == line.key = "score" => line.value.num \in Int

LEMMA ScoreRead ==
  ASSUME NEW type, NEW text, text.num \in Int
  PROVE  ReadScore(type, text) \in Int
<1>1. Clip(text.num) \in Int
  BY Clipped DEF Scores
<1>2. QED
  BY <1>1 DEF ReadScore, SCORE_KILL, SCORE_SELECT, SCORE_DEFAULT

LEMMA FieldSet ==
  ASSUME NEW V, Given \subseteq V, NEW rule \in FilterRules(V), NEW line, line.value \in V,
         ScoreIsNumber(line), NEW cnt \in Nat
  PROVE  SetField(rule, line, cnt) \in FilterRules(V)
<1> DEFINE r == SetField(rule, line, cnt)
           v == line.value
           k == line.key
<1>1. CASE k = "type"
  <2>1. r = [rule EXCEPT !.type = v, !.score = IF v = FILTER_KILL THEN SCORE_KILL ELSE SCORE_SELECT]
    BY <1>1 DEF SetField
  <2> DEFINE n == IF v = FILTER_KILL THEN SCORE_KILL ELSE SCORE_SELECT
  <2>2. n \in Int
    BY DEF SCORE_KILL, SCORE_SELECT
  <2> HIDE DEF n
  <2>3. r = [rule EXCEPT !.type = v, !.score = n]
    BY <2>1 DEF n
  <2>4. QED
    BY <2>2, <2>3 DEF FilterRules
<1>2. CASE k = "score"
  <2>1. r = [rule EXCEPT !.score = ReadScore(rule.type, v)]
    BY <1>2 DEF SetField
  <2>2. ReadScore(rule.type, v) \in Int
    BY <1>2, ScoreRead DEF ScoreIsNumber
  <2>3. QED
    BY <2>1, <2>2 DEF FilterRules
<1>3. CASE k \in MsgidKeys
  <2>1. r = [rule EXCEPT !.msgid = v, !.fullref = k]
    BY <1>3 DEF SetField, MsgidKeys
  <2>2. QED
    BY <1>3, <2>1 DEF FilterRules
<1>4. CASE k = "xref_score"
  <2>1. r = ReadXrefScore(rule, v, cnt)
    BY <1>4 DEF SetField
  <2>2. rule.xref_scores \in Seq(V) /\ Garbage \in V
    BY DEF FilterRules, Given
  <2> DEFINE more == Append(rule.xref_scores, IF cnt = Len(rule.xref_scores) THEN v ELSE Garbage)
  <2>3. more \in Seq(V)
    BY <2>2
  <2>4. r = rule \/ r = [rule EXCEPT !.xref_scores = more]
    BY <2>1 DEF ReadXrefScore
  <2> HIDE DEF more
  <2>5. QED
    BY <2>3, <2>4 DEF FilterRules
<1>5. CASE k = "case"
  <2>1. r = [rule EXCEPT !.icase = v]
    BY <1>5 DEF SetField
  <2>2. QED
    BY <2>1 DEF FilterRules
<1>6. CASE k = "time"
  <2>1. r = [rule EXCEPT !.time = v]
    BY <1>6 DEF SetField
  <2>2. QED
    BY <2>1 DEF FilterRules
<1>7. CASE k \in {"subj", "from", "lines", "gnksa", "xref", "xref_max"}
  <2>1. r = [rule EXCEPT ![k] = v]
    BY <1>7 DEF SetField
  <2>2. \/ r = [rule EXCEPT !.subj = v] \/ r = [rule EXCEPT !.from = v]
        \/ r = [rule EXCEPT !.lines = v] \/ r = [rule EXCEPT !.gnksa = v]
        \/ r = [rule EXCEPT !.xref = v] \/ r = [rule EXCEPT !.xref_max = v]
    BY <1>7, <2>1
  <2>3. QED
    BY <2>2 DEF FilterRules
<1>8. CASE k \notin {"type", "score", "xref_score", "case", "time", "subj", "from", "lines", "gnksa",
                     "xref", "xref_max"} \cup MsgidKeys
  <2>1. r = rule
    BY <1>8 DEF SetField, MsgidKeys
  <2>2. QED
    BY <2>1
<1>9. QED
  BY <1>1, <1>2, <1>3, <1>4, <1>5, <1>6, <1>7, <1>8

LEMMA EmptyRule ==
  ASSUME NEW V, Given \subseteq V, NEW scope \in V PROVE vSetFilter(scope) \in FilterRules(V)
<1>1. <<>> \in Seq(V)
  OBVIOUS
<1>2. QED
  BY <1>1 DEF vSetFilter, FilterRules, MsgidKeys, Given, FILTER_SELECT

LEMMA LineRead ==
  ASSUME NEW V, Given \subseteq V, NEW r \in Reading(V), NEW line, line.value \in V,
         ScoreIsNumber(line), NEW time
  PROVE  ReadFilterLine(r, line, time) \in Reading(V)
<1> DEFINE w == ReadFilterLine(r, line, time)
           S == FilterRules(V)
<1>1. /\ r.rules \in Seq(S) /\ r.open \in BOOLEAN /\ r.cnt \in Nat /\ r.expired \in BOOLEAN
      /\ r = [rules |-> r.rules, open |-> r.open, cnt |-> r.cnt, expired |-> r.expired]
      /\ r.open => r.rules # <<>>
  BY DEF Reading
<1>2. CASE line.key \in {"group", "scope"}
  <2> DEFINE more == Append(r.rules, vSetFilter(line.value))
  <2>1. more \in Seq(S) /\ more # <<>>
    BY <1>1, EmptyRule
  <2>2. w = [r EXCEPT !.rules = more, !.open = TRUE]
    BY <1>2 DEF ReadFilterLine
  <2> HIDE DEF more, S
  <2>3. QED
    BY <1>1, <2>1, <2>2 DEF Reading, S
<1>3. CASE line.key \notin {"group", "scope"} /\ ~r.open
  BY <1>3 DEF ReadFilterLine
<1>4. CASE line.key \notin {"group", "scope"} /\ r.open
  <2> DEFINE rule == SetField(Last(r.rules), line, r.cnt)
             cnt == IF line.key = "xref_score" THEN r.cnt + 1 ELSE r.cnt
             front == Front(r.rules)
  <2>1. Last(r.rules) \in S /\ front \in Seq(S)
    BY <1>1, <1>4 DEF Last, Front
  <2>2. rule \in S /\ cnt \in Nat
    BY <1>1, <2>1, FieldSet
  <2>3. \/ w = [rules |-> front, open |-> FALSE, cnt |-> cnt, expired |-> TRUE]
        \/ w = [r EXCEPT !.rules = Append(front, rule), !.cnt = cnt]
    BY <1>4 DEF ReadFilterLine
  <2> HIDE DEF rule, cnt, front
  <2>4. Append(front, rule) \in Seq(S) /\ Append(front, rule) # <<>>
    BY <2>1, <2>2
  <2> DEFINE more == Append(front, rule)
  <2> HIDE DEF S, w, more
  <2> DEFINE Shapes == [rules : Seq(S), open : BOOLEAN, cnt : Nat, expired : BOOLEAN]
  <2>8. w \in Shapes /\ (w.open => w.rules # <<>>) => w \in Reading(V)
    BY Zenon DEF Reading, S
  <2>5. ASSUME w = [rules |-> front, open |-> FALSE, cnt |-> cnt, expired |-> TRUE]
        PROVE  w \in Reading(V)
    <3>1. w \in Shapes /\ (w.open => w.rules # <<>>)
      BY <2>1, <2>2, <2>5
    <3>2. QED
      BY <2>8, <3>1, Zenon
  <2>6. ASSUME w = [r EXCEPT !.rules = more, !.cnt = cnt] PROVE w \in Reading(V)
    <3>1. w = [rules |-> more, open |-> r.open, cnt |-> cnt, expired |-> r.expired]
      BY <1>1, <2>6
    <3>2. more \in Seq(S) /\ more # <<>>
      BY <2>4 DEF more
    <3>3. w \in Shapes /\ (w.open => w.rules # <<>>)
      BY <1>1, <2>2, <3>1, <3>2
    <3>4. QED
      BY <2>8, <3>3, Zenon
  <2>7. QED
    BY <2>3, <2>5, <2>6 DEF w, more
<1>5. QED
  BY <1>2, <1>3, <1>4

\* What the lines make of what was read before.
Reads(r, entries, time) == FoldLeft(LAMBDA u, line : ReadFilterLine(u, line, time), r, entries)

\* What is read before each line, and after the last.
Read_(it, r, entries, time) ==
  /\ it[{}] = r
  /\ \A k \in 1..Len(entries) : it[1..k] = ReadFilterLine(it[1..(k - 1)], entries[k], time)
  /\ Reads(r, entries, time) = it[1..Len(entries)]

LEMMA ReadingLines ==
  ASSUME NEW V, Given \subseteq V, NEW r \in Reading(V), NEW L, NEW entries \in Seq(L),
         \A line \in L : line.value \in V /\ ScoreIsNumber(line), NEW time
  PROVE  Reads(r, entries, time) \in Reading(V) /\ \E it : Read_(it, r, entries, time)
<1> DEFINE n == Len(entries)
           I == Reading(V)
           turn(u, line) == ReadFilterLine(u, line, time)
           step == [x \in I \X (1..n) |-> turn(x[1], entries[x[2]])]
           of(f) == [part \in SUBSET (1..n) |-> IF part = {} THEN r ELSE turn(f[part \ {Max(part)}], entries[Max(part)])]
           it == CHOOSE f : f = of(f)
<1>1. n \in Nat /\ DOMAIN entries = 1..n /\ \A k \in 1..n : entries[k] \in L
  OBVIOUS
<1>2. ASSUME NEW u \in I, NEW k \in 1..n PROVE turn(u, entries[k]) \in I
  BY <1>1, LineRead
<1> HIDE DEF I, turn
<1>3. step \in [I \X (1..n) -> I]
  BY <1>2
<1> HIDE DEF step, it
<1>4. r \in I
  BY DEF I
<1>5. PICK w \in Folds(n, I, r, step) : TRUE
  BY <1>1, <1>3, <1>4, FoldMade
<1>6. ASSUME NEW part \in SUBSET (1..n)
      PROVE w[part] = IF part = {} THEN r ELSE turn(w[part \ {Max(part)}], entries[Max(part)])
  <2>1. w \in [SUBSET (1..n) -> I] /\ w[part] = Made(w, r, step, part)
    BY <1>5 DEF Folds
  <2>2. part # {} => Max(part) \in 1..n /\ w[part \ {Max(part)}] \in I
    BY <1>1, <2>1, MaxIn
  <2>3. QED
    BY <2>1, <2>2 DEF Made, step
<1>7. w = of(w)
  BY <1>5, <1>6 DEF Folds
<1>8. it = of(it)
  BY <1>7, Zenon DEF it
<1>9. Reads(r, entries, time) = it[1..n]
  BY <1>1, Zenon DEF Reads, FoldLeft, MapThenFoldSet, it, turn
<1>10. it[{}] = r
  BY <1>8
<1>11. ASSUME NEW k \in 1..n PROVE it[1..k] = turn(it[1..(k - 1)], entries[k])
  <2>1. 1..k \in SUBSET (1..n) /\ 1..k # {}
    <3>1. k \in 1..k /\ 1..k \in SUBSET (1..n)
      BY <1>1
    <3>2. QED
      BY <3>1
  <2>2. Max(1..k) = k /\ (1..k) \ {k} = 1..(k - 1)
    BY <1>1, MaxUpTo
  <2>3. QED
    BY <1>8, <2>1, <2>2
<1>12. it[1..n] \in I
  <2>1. \A part \in SUBSET (1..n) : part # {} /\ it[part \ {Max(part)}] \in I => it[part] \in I
    <3> SUFFICES ASSUME NEW part \in SUBSET (1..n), part # {}, it[part \ {Max(part)}] \in I PROVE it[part] \in I
      OBVIOUS
    <3>1. Max(part) \in 1..n
      BY <1>1, MaxIn
    <3>2. it[part] = turn(it[part \ {Max(part)}], entries[Max(part)])
      BY <1>8
    <3>3. QED
      BY <1>2, <3>1, <3>2
  <2>2. QED
    BY <1>1, <1>4, <1>10, <2>1, FoldKeeps
<1>13. QED
  BY <1>9, <1>10, <1>11, <1>12, Zenon DEF Read_, turn, I

\* Lines that a rule or a file is made of, and rules.
LinesOK(f) == f \in Seq(ToSet(f)) /\ \A line \in ToSet(f) : ScoreIsNumber(line)
RulesOK(array) == \E V : Given \subseteq V /\ array \in Seq(FilterRules(V))

LEMMA WiderRules ==
  ASSUME NEW V, NEW W, V \subseteq W PROVE FilterRules(V) \subseteq FilterRules(W)
<1>1. Seq(V) \subseteq Seq(W)
  OBVIOUS
<1>2. QED
  BY <1>1 DEF FilterRules

LEMMA OneRuleMore ==
  ASSUME NEW array, RulesOK(array), NEW rule, RulesOK(<<rule>>)
  PROVE  /\ RulesOK(Append(array, rule))
         /\ \E S : array \in Seq(S) /\ rule \in S /\ \A r \in S : r.score \in Int
<1>1. PICK V : Given \subseteq V /\ array \in Seq(FilterRules(V))
  BY DEF RulesOK
<1>2. PICK W : Given \subseteq W /\ <<rule>> \in Seq(FilterRules(W))
  BY DEF RulesOK
<1> DEFINE S == FilterRules(V \cup W)
<1>3. FilterRules(V) \subseteq S /\ FilterRules(W) \subseteq S
  BY WiderRules
<1>4. \A r \in S : r.score \in Int
  BY DEF FilterRules
<1> HIDE DEF S
<1>5. rule \in S
  <2>1. rule \in FilterRules(W)
    BY <1>2
  <2>2. QED
    BY <1>3, <2>1
<1>6. array \in Seq(S)
  BY <1>1, <1>3
<1>7. Append(array, rule) \in Seq(S)
  BY <1>5, <1>6
<1>8. QED
  BY <1>1, <1>4, <1>5, <1>6, <1>7 DEF RulesOK, S

LEMMA RulesHaveScores == ASSUME NEW array, RulesOK(array) PROVE ScoresOK(array)
<1>1. PICK V : array \in Seq(FilterRules(V))
  BY DEF RulesOK
<1>2. \A r \in FilterRules(V) : r.score \in Int
  BY DEF FilterRules
<1>3. QED
  BY <1>1, <1>2 DEF ScoresOK

LEMMA FileRead ==
  ASSUME NEW entries, LinesOK(entries), NEW time PROVE RulesOK(ReadFilters(entries, time).rules)
<1> DEFINE V == Given \cup {line.value : line \in ToSet(entries)}
           r == [rules |-> <<>>, open |-> FALSE, cnt |-> 0, expired |-> FALSE]
<1>1. Given \subseteq V /\ \A line \in ToSet(entries) : line.value \in V /\ ScoreIsNumber(line)
  BY DEF LinesOK
<1> HIDE DEF V
<1>2. r \in Reading(V)
  <2>1. <<>> \in Seq(FilterRules(V))
    OBVIOUS
  <2>2. QED
    BY <2>1 DEF Reading
<1>3. Reads(r, entries, time) \in Reading(V)
  BY <1>1, <1>2, ReadingLines DEF LinesOK
<1>4. ReadFilters(entries, time) = Reads(r, entries, time)
  BY Zenon DEF ReadFilters, Reads
<1>5. ReadFilters(entries, time).rules \in Seq(FilterRules(V))
  BY <1>3, <1>4 DEF Reading
<1>6. QED
  BY <1>1, <1>5 DEF RulesOK

-----------------------------------------------------------------------------
(* Writing the rules *)

FileKeys ==
  {"group", "type", "case", "score", "subj", "from", "lines", "gnksa", "xref", "xref_max", "xref_score",
   "time"} \cup MsgidKeys
FilterLines(V) == {line \in [key : FileKeys, value : V] : ScoreIsNumber(line)}

LEMMA OneLine ==
  ASSUME NEW V, NEW k \in FileKeys \ {"score"}, NEW v \in V PROVE Line(k, v) \in FilterLines(V)
<1> DEFINE line == Line(k, v)
<1>1. line \in [key : FileKeys, value : V] /\ line.key # "score"
  <2> HIDE DEF FileKeys
  <2>1. QED
    BY DEF Line
<1>2. QED
  BY <1>1 DEF FilterLines, ScoreIsNumber

\* What is written of a score.
ScoreText(n) ==
  CASE n = SCORE_KILL -> Word("kill") [] n = SCORE_SELECT -> Word("hot") [] OTHER -> Number(n)

LEMMA ScoreWritten ==
  ASSUME NEW V, Given \subseteq V, NEW n \in Int PROVE Line("score", ScoreText(n)) \in FilterLines(V)
<1>1. ScoreText(n) \in [word : {None, "kill", "hot"}, num : Int]
  <2>1. Word("kill") \in [word : {None, "kill", "hot"}, num : Int]
    BY DEF Word
  <2>2. Word("hot") \in [word : {None, "kill", "hot"}, num : Int]
    BY DEF Word
  <2>3. Number(n) \in [word : {None, "kill", "hot"}, num : Int]
    BY DEF Number
  <2>4. QED
    BY <2>1, <2>2, <2>3 DEF ScoreText
<1> DEFINE text == ScoreText(n)
<1>2. text \in V /\ text.num \in Int
  BY <1>1 DEF Given
<1> HIDE DEF text
<1>3. "score" \in FileKeys
  BY DEF FileKeys
<1>4. Line("score", text) \in [key : FileKeys, value : V] /\ Line("score", text).value = text
  BY <1>2, <1>3 DEF Line
<1>5. QED
  BY <1>2, <1>4 DEF FilterLines, ScoreIsNumber, text

Heads(rule) ==
  <<Line("group", rule.scope), Line("type", rule.type), Line("case", rule.icase),
    Line("score", ScoreText(rule.score))>>
XrefLines(rule) ==
  IF rule.xref_max > 0
  THEN <<Line("xref_max", rule.xref_max)>>
       \o [i \in DOMAIN rule.xref_scores |-> Line("xref_score", rule.xref_scores[i])]
  ELSE <<>>

LEMMA RuleWritten ==
  ASSUME NEW V, Given \subseteq V, NEW rule \in FilterRules(V)
  PROVE  WriteRule(rule) \in Seq(FilterLines(V))
<1> DEFINE S == FilterLines(V)
           a == LineIf(rule.subj # None, "subj", rule.subj)
           b == LineIf(rule.from # None, "from", rule.from)
           c == LineIf(rule.msgid # None, rule.fullref, rule.msgid)
           d == LineIf(rule.lines # NoTest, "lines", rule.lines)
           e == LineIf(rule.gnksa # NoTest, "gnksa", rule.gnksa)
           f == LineIf(rule.xref # None, "xref", rule.xref)
           g == LineIf(rule.time # 0, "time", rule.time)
<1>1. WriteRule(rule) = Heads(rule) \o a \o b \o c \o d \o e \o f \o XrefLines(rule) \o g
  BY Zenon DEF WriteRule, Heads, XrefLines, ScoreText
<1>2. /\ rule.scope \in V /\ rule.type \in V /\ rule.icase \in V /\ rule.subj \in V /\ rule.from \in V
      /\ rule.msgid \in V /\ rule.lines \in V /\ rule.gnksa \in V /\ rule.xref \in V
      /\ rule.xref_max \in V /\ rule.time \in V /\ rule.score \in Int
      /\ rule.fullref \in MsgidKeys /\ rule.xref_scores \in Seq(V)
  BY DEF FilterRules
<1>3. /\ rule.fullref \in FileKeys \ {"score"}
      /\ \A k \in {"group", "type", "case", "subj", "from", "lines", "gnksa", "xref", "xref_max",
                 "xref_score", "time"} : k \in FileKeys \ {"score"}
  BY <1>2 DEF MsgidKeys, FileKeys
<1>4. /\ Line("group", rule.scope) \in S /\ Line("type", rule.type) \in S
       /\ Line("case", rule.icase) \in S /\ Line("subj", rule.subj) \in S
       /\ Line("from", rule.from) \in S /\ Line(rule.fullref, rule.msgid) \in S
  BY <1>2, <1>3, OneLine
<1>5. /\ Line("lines", rule.lines) \in S /\ Line("gnksa", rule.gnksa) \in S
       /\ Line("xref", rule.xref) \in S /\ Line("time", rule.time) \in S
       /\ Line("xref_max", rule.xref_max) \in S /\ \A v \in V : Line("xref_score", v) \in S
  BY <1>2, <1>3, OneLine
<1>6. Line("score", ScoreText(rule.score)) \in S
  BY <1>2, ScoreWritten
<1> HIDE DEF S
<1>7. a \in Seq(S) /\ b \in Seq(S) /\ c \in Seq(S)
  BY <1>4 DEF LineIf
<1>8. d \in Seq(S) /\ e \in Seq(S) /\ f \in Seq(S) /\ g \in Seq(S)
  BY <1>5 DEF LineIf
<1>9. Heads(rule) \in Seq(S)
  BY <1>4, <1>6 DEF Heads
<1>10. XrefLines(rule) \in Seq(S)
  <2> DEFINE xs == rule.xref_scores
             more == [i \in DOMAIN xs |-> Line("xref_score", xs[i])]
             max == Line("xref_max", rule.xref_max)
  <2>1. max \in S /\ \A v \in V : Line("xref_score", v) \in S
    BY <1>5
  <2>2. Len(xs) \in Nat /\ DOMAIN xs = 1..Len(xs) /\ \A i \in 1..Len(xs) : xs[i] \in V
    BY <1>2
  <2> HIDE DEF xs
  <2>3. more \in [1..Len(xs) -> S]
    BY <2>1, <2>2
  <2>4. more \in Seq(S)
    BY <2>2, <2>3
  <2> HIDE DEF more, max
  <2>5. <<max>> \in Seq(S) /\ <<>> \in Seq(S)
    BY <2>1
  <2>6. <<max>> \o more \in Seq(S)
    BY <2>4, <2>5
  <2>7. XrefLines(rule) = IF rule.xref_max > 0 THEN <<max>> \o more ELSE <<>>
    BY DEF XrefLines, max, more, xs
  <2>8. QED
    BY <2>5, <2>6, <2>7
<1> HIDE DEF a, b, c, d, e, f, g
<1>11. Heads(rule) \o a \o b \o c \in Seq(S)
  BY <1>7, <1>9
<1>12. Heads(rule) \o a \o b \o c \o d \o e \o f \in Seq(S)
  BY <1>7, <1>8, <1>11
<1>13. Heads(rule) \o a \o b \o c \o d \o e \o f \o XrefLines(rule) \o g \in Seq(S)
  BY <1>8, <1>10, <1>12
<1>14. QED
  BY <1>1, <1>13 DEF S

\* The text of the first k parts.
Joined(f, parts, k) == IF k = 1 THEN parts[k] ELSE f[k - 1] \o parts[k]

LEMMA Flattening ==
  ASSUME NEW S, NEW parts, NEW n \in Nat, parts \in [1..n -> Seq(S)]
  PROVE  /\ FlattenSeq(parts) \in Seq(S) /\ (n = 0 => FlattenSeq(parts) = <<>>)
         /\ n # 0 => \E f \in [1..n -> Seq(S)] : /\ \A k \in 1..n : f[k] = Joined(f, parts, k)
                                               /\ FlattenSeq(parts) = f[n]
<1> DEFINE of(f) == [k \in 1..n |-> IF k = 1 THEN parts[k] ELSE f[k - 1] \o parts[k]]
           flat == CHOOSE f : f = of(f)
           step == [x \in Seq(S) \X (1..n) |-> x[1] \o parts[x[2]]]
<1>1. DOMAIN parts = 1..n /\ Len(parts) = n
  OBVIOUS
<1>2. ASSUME n = 0 PROVE FlattenSeq(parts) = <<>>
  <2>1. parts = <<>>
    BY <1>1, <1>2
  <2>2. QED
    BY <1>1, <1>2, <2>1 DEF FlattenSeq
<1>3. ASSUME n # 0
      PROVE  \E f \in [1..n -> Seq(S)] : /\ \A k \in 1..n : f[k] = Joined(f, parts, k)
                                        /\ FlattenSeq(parts) = f[n]
  <2>1. step \in [Seq(S) \X (1..n) -> Seq(S)] /\ <<>> \in Seq(S)
    OBVIOUS
  <2> HIDE DEF step, flat
  <2>2. PICK w \in Folds(n, Seq(S), <<>>, step) : TRUE
    BY <2>1, FoldMade
  <2> DEFINE f == [k \in 1..n |-> w[1..k]]
  <2>3. f \in [1..n -> Seq(S)]
    <3>1. \A k \in 1..n : 1..k \in SUBSET (1..n)
      OBVIOUS
    <3>2. QED
      BY <2>2, <3>1 DEF Folds
  <2>4. ASSUME NEW k \in 1..n PROVE f[k] = IF k = 1 THEN parts[k] ELSE f[k - 1] \o parts[k]
    <3>1. k \in 1..k /\ 1..k \in SUBSET (1..n) /\ 1..(k - 1) \in SUBSET (1..n)
      OBVIOUS
    <3>2. Max(1..k) = k /\ (1..k) \ {k} = 1..(k - 1)
      BY MaxUpTo
    <3>3. w[1..(k - 1)] \in Seq(S)
      BY <2>2, <3>1 DEF Folds
    <3>4. w[1..k] = w[1..(k - 1)] \o parts[k]
      <4>1. w[1..k] = Made(w, <<>>, step, 1..k) /\ 1..k # {}
        BY <2>2, <3>1 DEF Folds
      <4>2. w[1..k] = step[<<w[1..(k - 1)], k>>]
        BY <3>2, <4>1 DEF Made
      <4>3. QED
        BY <3>3, <4>2 DEF step
    <3>5. CASE k = 1
      <4>1. w[1..0] = <<>>
        <5>1. {} \in SUBSET (1..n) /\ 1..0 = {}
          OBVIOUS
        <5>2. w[{}] = Made(w, <<>>, step, {})
          BY <2>2, <5>1 DEF Folds
        <5>3. QED
          BY <5>1, <5>2 DEF Made
      <4>2. <<>> \o parts[1] = parts[1]
        BY <3>5
      <4>3. k - 1 = 0
        BY <3>5
      <4>4. QED
        BY <3>4, <3>5, <4>1, <4>2, <4>3
    <3>6. CASE k # 1
      <4>1. k - 1 \in 1..n
        BY <3>6
      <4>2. QED
        BY <3>4, <3>6, <4>1
    <3>7. QED
      BY <3>5, <3>6
  <2> HIDE DEF f
  <2>5. f = of(f)
    BY <2>3, <2>4
  <2>6. flat = of(flat)
    BY <2>5, Zenon DEF flat
  <2>7. FlattenSeq(parts) = flat[n]
    <3>1. Len(parts) # 0
      BY <1>1, <1>3
    <3> DEFINE long == CHOOSE h : h = [k \in 1..Len(parts) |-> IF k = 1 THEN parts[k] ELSE h[k - 1] \o parts[k]]
    <3>2. FlattenSeq(parts) = IF Len(parts) = 0 THEN parts ELSE long[Len(parts)]
      BY Zenon DEF FlattenSeq
    <3>3. long = flat
      BY <1>1, Zenon DEF flat
    <3> HIDE DEF long
    <3>4. QED
      BY <1>1, <3>1, <3>2, <3>3
  <2>8. \A k \in 1..n : flat[k] = Joined(flat, parts, k)
    BY <2>6 DEF Joined
  <2>9. flat \in [1..n -> Seq(S)]
    <3> DEFINE P == {k \in 0..n : k # 0 => flat[k] \in Seq(S)}
    <3>1. 0 \in P
      OBVIOUS
    <3>2. ASSUME NEW k \in 0..(n - 1), k \in P PROVE k + 1 \in P
      <4>1. k + 1 \in 1..n /\ k + 1 - 1 = k /\ parts[k + 1] \in Seq(S)
        OBVIOUS
      <4>2. flat[k + 1] = IF k + 1 = 1 THEN parts[k + 1] ELSE flat[k] \o parts[k + 1]
        <5>1. \A j \in 1..n : flat[j] = IF j = 1 THEN parts[j] ELSE flat[j - 1] \o parts[j]
          BY <2>6
        <5>2. QED
          BY <4>1, <5>1
      <4>3. CASE k = 0
        BY <4>1, <4>2, <4>3
      <4>4. CASE k # 0
        <5>1. flat[k] \in Seq(S) /\ k + 1 # 1
          BY <3>2, <4>4
        <5>2. flat[k + 1] \in Seq(S)
          BY <4>1, <4>2, <5>1
        <5>3. QED
          BY <4>1, <5>2
      <4>5. QED
        BY <4>3, <4>4
    <3>3. ASSUME NEW k \in 1..n PROVE flat[k] \in Seq(S)
      <4>1. k \in Nat /\ k # 0 /\ \A j \in 0..(k - 1) : j \in 0..(n - 1)
        OBVIOUS
      <4>2. k \in P
        <5> HIDE DEF P
        <5>1. QED
          BY <3>1, <3>2, <4>1, UpTo
      <4>3. QED
        BY <4>1, <4>2
    <3>4. DOMAIN flat = 1..n /\ flat = [k \in 1..n |-> flat[k]]
      BY <2>6
    <3>5. QED
      BY <3>3, <3>4
  <2>10. QED
    BY <2>7, <2>8, <2>9
<1>4. FlattenSeq(parts) \in Seq(S)
  <2>1. CASE n = 0
    <3>1. <<>> \in Seq(S)
      OBVIOUS
    <3>2. QED
      BY <1>2, <2>1, <3>1
  <2>2. CASE n # 0
    <3>1. PICK f \in [1..n -> Seq(S)] : FlattenSeq(parts) = f[n]
      BY <1>3, <2>2
    <3>2. n \in 1..n
      BY <2>2
    <3>3. QED
      BY <3>1, <3>2
  <2>3. QED
    BY <2>1, <2>2
<1>5. QED
  BY <1>2, <1>3, <1>4

LEMMA FileWritten ==
  ASSUME NEW array, RulesOK(array), NEW time PROVE LinesOK(vWriteFilterArray(array, time))
<1> DEFINE parts == [i \in DOMAIN array |-> IF Expired(array[i], time) THEN <<>> ELSE WriteRule(array[i])]
           n == Len(array)
           f == vWriteFilterArray(array, time)
<1>1. PICK V : Given \subseteq V /\ array \in Seq(FilterRules(V))
  BY DEF RulesOK
<1> DEFINE S == FilterLines(V)
<1>2. n \in Nat /\ DOMAIN array = 1..n /\ \A i \in 1..n : array[i] \in FilterRules(V)
  BY <1>1
<1>3. parts \in [1..n -> Seq(S)]
  <2>1. \A i \in 1..n : WriteRule(array[i]) \in Seq(S) /\ <<>> \in Seq(S)
    BY <1>1, <1>2, RuleWritten
  <2> HIDE DEF S
  <2>2. QED
    BY <1>2, <2>1
<1>4. f = FlattenSeq(parts)
  BY Zenon DEF vWriteFilterArray
<1> HIDE DEF S, parts, f, n
<1>5. f \in Seq(S)
  BY <1>2, <1>3, <1>4, Flattening
<1>6. f \in Seq(ToSet(f)) /\ ToSet(f) \subseteq S
  BY <1>5 DEF ToSet
<1>7. QED
  BY <1>6 DEF LinesOK, S, FilterLines, f

-----------------------------------------------------------------------------
(* The session *)

\* A rule that is asked for: a number for its score, and a part of the
\* Message-ID to look for.
Asked(r) == r.score \in Int /\ (r.msgid_ok => r.fullref \in MsgidKeys)

LEMMA RuleMade ==
  ASSUME NEW r, Asked(r), NEW name, NEW art, NEW time
  PROVE  LET rule == NewRule(r, name, art, time) IN RulesOK(<<rule>>) /\ rule.score = r.score
<1> DEFINE c == Criteria(r, art)
           rule == NewRule(r, name, art, time)
           ref == IF c.msgid = None THEN "msgid" ELSE IF r.text # None THEN r.kind ELSE r.fullref
           scope == IF r.scope = {} THEN {name} ELSE r.scope
           V == Given \cup {r.type, r.icase, r.lines, c.subj, c.from, c.msgid, scope, rule.time}
           until == rule.time
           empty == vSetFilter(scope)
<1>1. ref \in MsgidKeys
  <2>1. CASE r.text # None
    BY <2>1 DEF Criteria, MsgidKeys
  <2>2. CASE r.text = None
    BY <2>2 DEF Criteria, MsgidKeys, Asked
  <2>3. QED
    BY <2>1, <2>2
<1>2. Given \subseteq V /\ empty \in FilterRules(V)
  BY EmptyRule
<1>3. rule = [empty EXCEPT !.type = r.type, !.icase = r.icase, !.score = r.score, !.lines = r.lines,
                           !.subj = c.subj, !.from = c.from, !.msgid = c.msgid, !.fullref = ref,
                           !.time = until]
  <2> DEFINE days == CASE r.expire = 1 -> FilterDays [] r.expire = 2 -> 2 * FilterDays
                       [] r.expire = 3 -> 4 * FilterDays [] OTHER -> 0
             end == IF days = 0 THEN 0 ELSE time + days
  <2>1. rule = [empty EXCEPT !.type = r.type, !.icase = r.icase, !.score = r.score, !.lines = r.lines,
                             !.subj = c.subj, !.from = c.from, !.msgid = c.msgid, !.fullref = ref,
                             !.time = end]
    BY Zenon DEF NewRule
  <2> HIDE DEF end, c, ref, rule, empty
  <2>2. rule.time = end
    <3>1. empty \in FilterRules(V)
      BY <1>2
    <3>2. QED
      BY <2>1, <3>1 DEF FilterRules
  <2>3. QED
    BY <2>1, <2>2
<1>4. /\ r.type \in V /\ r.icase \in V /\ r.lines \in V /\ c.subj \in V /\ c.from \in V
      /\ c.msgid \in V /\ until \in V /\ r.score \in Int
  BY DEF Asked
<1> HIDE DEF V, c, ref, rule, empty, until
<1>5. rule \in FilterRules(V) /\ rule.score = r.score
  BY <1>1, <1>2, <1>3, <1>4 DEF FilterRules
<1>6. <<rule>> \in Seq(FilterRules(V))
  BY <1>5
<1>7. QED
  BY <1>2, <1>5, <1>6 DEF RulesOK, rule

LEMMA QuickAsked ==
  /\ \A type : Asked(QuickRule(type))
  /\ \A name : Asked(PostedRule(name)) /\ PostedRule(name).score = SCORE_SELECT
<1>1. ASSUME NEW type PROVE Asked(QuickRule(type))
  <2> DEFINE r == QuickRule(type)
             header == Quick[type].header
  <2>1. /\ r.score = IF type = FILTER_KILL THEN SCORE_KILL ELSE SCORE_SELECT
        /\ (r.msgid_ok => header \in {"msgid", "msgid_last"}) /\ r.fullref = header
    BY DEF QuickRule
  <2> HIDE DEF r, header
  <2>2. r.score \in Int
    BY <2>1 DEF SCORE_KILL, SCORE_SELECT
  <2>3. r.msgid_ok => r.fullref \in MsgidKeys
    BY <2>1 DEF MsgidKeys
  <2>4. QED
    BY <2>2, <2>3 DEF Asked, r
<1>2. ASSUME NEW name PROVE Asked(PostedRule(name)) /\ PostedRule(name).score = SCORE_SELECT
  BY DEF Asked, PostedRule, QuickRule, MsgidKeys, SCORE_KILL, SCORE_SELECT, FILTER_KILL, FILTER_SELECT
<1>3. QED
  BY <1>1, <1>2

LEMMA MenuAsked == ASSUME NEW type, NEW m \in Answers, NEW name PROVE Asked(MenuRule(type, m, name))
<1>1. MenuScore(type, m) \in Int
  <2> DEFINE n == IF m.score <= 0 THEN SCORE_DEFAULT ELSE FilterMin(m.score, SCORE_MAX)
  <2>1. n \in Int
    BY FilterAssumption DEF FilterMin, SCORE_DEFAULT, SCORE_MAX
  <2>2. MenuScore(type, m) = IF type = FILTER_KILL THEN -n ELSE n
    BY Zenon DEF MenuScore
  <2> HIDE DEF n
  <2>3. QED
    BY <2>1, <2>2
<1> DEFINE r == MenuRule(type, m, name)
<1>2. r.score \in Int /\ r.fullref \in MsgidKeys
  BY <1>1 DEF MenuRule, MsgidKeys
<1>3. QED
  BY <1>2 DEF Asked

\* What the reader has before him is what the bitmap of the group says, and
\* the file and the rules can be read and written.
FilterInv ==
  /\ RulesOK(rules) /\ LinesOK(file)
  /\ DOMAIN unread = Groups /\ \A g \in Groups : unread[g] \in SUBSET ArtsOf[g]
  /\ group # None => group \in Groups /\ Open \in States(ArtsOf[group])
  /\ RulesInForce

LEMMA FileRereadOK ==
  ASSUME NEW entries, LinesOK(entries), ReadFile(entries) PROVE RulesOK(rules') /\ LinesOK(file')
<1> DEFINE st == ReadFilters(entries, now)
<1>1. RulesOK(st.rules)
  BY FileRead
<1>2. LinesOK(vWriteFilterArray(st.rules, now))
  BY <1>1, FileWritten
<1>3. rules' = st.rules /\ file' = IF st.expired THEN vWriteFilterArray(st.rules, now) ELSE entries
  BY Zenon DEF ReadFile
<1>4. QED
  BY <1>1, <1>2, <1>3

LEMMA RuleAdded ==
  ASSUME RulesOK(rules), LinesOK(file), NEW r, Asked(r), NEW art, NEW name, AddFilterRule(r, art, name)
  PROVE  RulesOK(rules') /\ LinesOK(file')
<1> DEFINE array == Append(rules, NewRule(r, name, art, now))
<1>1. RulesOK(array)
  BY RuleMade, OneRuleMore
<1>2. LinesOK(vWriteFilterArray(array, now))
  BY <1>1, FileWritten
<1> HIDE DEF array
<1>3. CASE Filtered(r)
  BY <1>1, <1>2, <1>3 DEF AddFilterRule, array
<1>4. CASE ~Filtered(r)
  BY <1>4 DEF AddFilterRule
<1>5. QED
  BY <1>3, <1>4

\* After filtering, what is killed is read.
LEMMA Filtered_ ==
  ASSUME RulesOK(rules'), NEW name \in Groups, group' = name,
         NEW st \in States(ArtsOf[name]),
         DOMAIN unread = Groups, \A g \in Groups : unread[g] \in SUBSET ArtsOf[g],
         arts' = filter_articles(rules', name, st).arts,
         unread' = [unread EXCEPT ![name] = filter_articles(rules', name, st).bits],
         LinesOK(file')
  PROVE  FilterInv'
<1> DEFINE D == ArtsOf[name]
           t == filter_articles(rules', name, st)
<1>1. t \in States(D) /\ \A a \in D : Score(rules', Art[a], name) <= SCORE_LIM_KILL => a \notin t.bits
  BY FilterAssumption, RulesHaveScores, Filtering
<1> HIDE DEF t
<1>2. t = [arts |-> t.arts, bits |-> t.bits] /\ t.bits \in SUBSET D /\ DOMAIN t.arts = D
  BY <1>1 DEF States
<1>3. unread'[name] = t.bits /\ DOMAIN unread' = Groups /\ \A g \in Groups : unread'[g] \in SUBSET ArtsOf[g]
  BY <1>2 DEF t
<1>4. arts' = t.arts
  BY DEF t
<1>5. group' # None => (Open)' = t
  BY <1>2, <1>3, <1>4 DEF Open
<1>6. (RulesInForce)'
  BY <1>1, <1>2, <1>3, <1>4 DEF RulesInForce
<1>7. QED
  BY <1>1, <1>3, <1>5, <1>6 DEF FilterInv

LEMMA FilterStarts == FilterInit => FilterInv
<1> SUFFICES ASSUME FilterInit PROVE FilterInv
  OBVIOUS
<1>1. rules = <<>> /\ file = <<>> /\ group = None /\ unread = [g \in Groups |-> ArtsOf[g]]
  BY DEF FilterInit
<1>2. RulesOK(<<>>)
  <2>1. <<>> \in Seq(FilterRules(Given))
    OBVIOUS
  <2>2. QED
    BY <2>1 DEF RulesOK
<1>3. LinesOK(<<>>)
  BY DEF LinesOK, ToSet
<1>4. QED
  BY <1>1, <1>2, <1>3 DEF FilterInv, RulesInForce

LEMMA StartsAnew == ASSUME FilterInv, Start PROVE FilterInv'
<1>1. RulesOK(rules') /\ LinesOK(file')
  BY FileRereadOK DEF FilterInv, Start
<1>2. group' = None /\ unread' = unread
  BY DEF Start
<1>3. QED
  BY <1>1, <1>2 DEF FilterInv, RulesInForce

LEMMA Enters == ASSUME FilterInv, NEW name \in Groups, Enter(name) PROVE FilterInv'
<1> DEFINE st == Load(name)
<1>1. st \in States(ArtsOf[name])
  <2>1. 0 \in Scores
    BY DEF Scores, SCORE_MAX
  <2>2. QED
    BY <2>1 DEF FilterInv, Load, States, ArtStates
<1>2. /\ rules' = rules /\ file' = file /\ group' = name
      /\ arts' = filter_articles(rules, name, st).arts
      /\ unread' = [unread EXCEPT ![name] = filter_articles(rules, name, st).bits]
  BY Zenon DEF Enter
<1> HIDE DEF st
<1>3. QED
  BY <1>1, <1>2, Filtered_ DEF FilterInv

LEMMA QuickFilters == ASSUME FilterInv, NEW type, NEW a, QuickFilter(type, a) PROVE FilterInv'
<1> DEFINE r == QuickRule(type)
<1>1. group \in Groups /\ Open \in States(ArtsOf[group])
  BY DEF FilterInv, QuickFilter
<1>2. AddFilterRule(r, Art[a], group) /\ group' = group
  BY DEF QuickFilter
<1>3. RulesOK(rules') /\ LinesOK(file')
  BY <1>2, QuickAsked, RuleAdded DEF FilterInv
<1> HIDE DEF r
<1>4. CASE Filtered(r)
  <2>1. Show(filter_articles(rules', group, Open))
    BY <1>4 DEF QuickFilter, r
  <2>2. QED
    BY <1>1, <1>2, <1>3, <2>1, Filtered_ DEF FilterInv, Show
<1>5. CASE ~Filtered(r)
  <2>1. rules' = rules /\ file' = file /\ arts' = arts /\ unread' = unread /\ touched' = touched
    BY <1>2, <1>5 DEF QuickFilter, r, AddFilterRule
  <2>2. QED
    BY <1>2, <2>1 DEF FilterInv, RulesInForce, Open
<1>6. QED
  BY <1>4, <1>5

LEMMA MenuSaves ==
  ASSUME FilterInv, NEW type, NEW a, NEW m \in Answers, MenuSave(type, a, m) PROVE FilterInv'
<1> DEFINE r == MenuRule(type, m, group)
<1>1. group \in Groups /\ Open \in States(ArtsOf[group])
  BY DEF FilterInv, MenuSave
<1>2. AddFilterRule(r, Art[a], group) /\ group' = group /\ Show(filter_articles(rules', group, Open))
  BY Zenon DEF MenuSave
<1>3. RulesOK(rules') /\ LinesOK(file')
  BY <1>2, MenuAsked, RuleAdded DEF FilterInv
<1> HIDE DEF r
<1>4. QED
  BY <1>1, <1>2, <1>3, Filtered_ DEF FilterInv, Show

LEMMA HandFileOK == ASSUME NEW f \in HandFiles PROVE LinesOK(f)
BY FilterAssumption DEF LinesOK, ScoreIsNumber

LEMMA MenuEdits ==
  ASSUME FilterInv, NEW type, NEW a, NEW m \in Answers, NEW f \in HandFiles, MenuEdit(type, a, m, f)
  PROVE  FilterInv'
<1> DEFINE r == MenuRule(type, m, group)
           st == [Open EXCEPT !.arts = unfilter_articles(arts)]
           rule == NewRule(r, group, Art[a], now)
<1>1. group \in Groups /\ Open \in States(ArtsOf[group]) /\ group' = group
  BY Zenon DEF FilterInv, MenuEdit
<1>2. \/ ReadFile(f) /\ Show(filter_articles(rules', group, st))
      \/ /\ rules' = Append(rules, rule) /\ file' = f
         /\ touched' = DOMAIN arts /\ arts' = arts /\ unread' = unread
  BY Zenon DEF MenuEdit
<1>3. CASE ReadFile(f) /\ Show(filter_articles(rules', group, st))
  <2>1. RulesOK(rules') /\ LinesOK(file')
    BY <1>3, HandFileOK, FileRereadOK
  <2>2. st \in States(ArtsOf[group])
    <3>1. Open = [arts |-> arts, bits |-> Open.bits] /\ arts \in [ArtsOf[group] -> ArtStates]
      BY <1>1 DEF States, Open
    <3>2. st = [arts |-> unfilter_articles(arts), bits |-> Open.bits]
      BY <3>1
    <3>3. 0 \in Scores
      BY DEF Scores, SCORE_MAX
    <3>4. unfilter_articles(arts) \in [ArtsOf[group] -> ArtStates]
      BY <3>1, <3>3 DEF unfilter_articles, ArtStates
    <3>5. \A b \in ArtsOf[group] :
            unfilter_articles(arts)[b].status = "read" => arts[b].status = "read"
      BY <3>1 DEF unfilter_articles, ArtStates
    <3>6. /\ Open.bits \in SUBSET ArtsOf[group]
          /\ \A b \in ArtsOf[group] : arts[b].status = "read" => b \notin Open.bits
      BY <1>1, <3>1 DEF States
    <3> HIDE DEF st
    <3>7. QED
      BY <3>2, <3>4, <3>5, <3>6 DEF States
  <2> HIDE DEF st
  <2>3. QED
    BY <1>1, <1>3, <2>1, <2>2, Filtered_ DEF FilterInv, Show
<1>4. CASE /\ rules' = Append(rules, rule) /\ file' = f
           /\ touched' = DOMAIN arts /\ arts' = arts /\ unread' = unread
  <2>1. RulesOK(rules')
    BY <1>4, MenuAsked, RuleMade, OneRuleMore DEF FilterInv
  <2>2. LinesOK(file')
    BY <1>4, HandFileOK
  <2>3. (RulesInForce)'
    BY <1>4 DEF RulesInForce
  <2>4. QED
    BY <1>1, <1>4, <2>1, <2>2, <2>3 DEF FilterInv, Open
<1>5. QED
  BY <1>2, <1>3, <1>4

\* The rule of an article that was posted selects, so it kills no other.
LEMMA Posts == ASSUME FilterInv, NEW subject, Posted(subject) PROVE FilterInv'
<1> DEFINE r == PostedRule(group)
           art == [subject |-> subject]
           rule == NewRule(r, group, art, now)
<1>1. /\ AddFilterRule(r, art, group) /\ group' = group /\ arts' = arts
      /\ unread' = unread /\ touched' = touched
  BY DEF Posted
<1>2. RulesOK(rules') /\ LinesOK(file')
  BY <1>1, QuickAsked, RuleAdded DEF FilterInv
<1>3. CASE rules' = rules
  BY <1>1, <1>2, <1>3 DEF FilterInv, RulesInForce, Open
<1>4. CASE rules' = Append(rules, rule)
  <2>1. RulesOK(<<rule>>) /\ rule.score = SCORE_SELECT
    BY QuickAsked, RuleMade
  <2>2. PICK S : rules \in Seq(S) /\ rule \in S /\ \A x \in S : x.score \in Int
    BY <2>1, OneRuleMore DEF FilterInv
  <2>3. ASSUME NEW b, Score(rules', Art[b], group) <= SCORE_LIM_KILL
        PROVE  Score(rules, Art[b], group) <= SCORE_LIM_KILL
    <3> DEFINE n == Score(rules, Art[b], group)
               hits == Hits(rule, Art[b], group)
    <3>1. n \in Scores /\ Score(rules', Art[b], group) = Judged(n, rule, Art[b], group)
      BY <1>4, <2>2, ScoreOfMore
    <3>2. hits \in Nat
      BY HitsCounted
    <3>3. Judged(n, rule, Art[b], group) = n \/ Judged(n, rule, Art[b], group) = Clip(n + hits * SCORE_SELECT)
      BY <2>1 DEF Judged
    <3> HIDE DEF n, hits
    <3>4. hits * 100 \in Nat
      BY <3>2
    <3>5. n \in -10000..10000
      BY <3>1 DEF Scores, SCORE_MAX
    <3>6. Clip(n + hits * SCORE_SELECT) <= SCORE_LIM_KILL => n <= SCORE_LIM_KILL
      BY <3>4, <3>5 DEF Clip, FilterMin, FilterMax, SCORE_MAX, SCORE_SELECT, SCORE_LIM_KILL
    <3>7. QED
      BY <2>3, <3>1, <3>3, <3>6 DEF n
  <2>4. (RulesInForce)'
    BY <1>1, <2>3 DEF FilterInv, RulesInForce
  <2>5. QED
    BY <1>1, <1>2, <2>4 DEF FilterInv, Open
<1>5. QED
  BY <1>1, <1>3, <1>4 DEF AddFilterRule

LEMMA ReadsArticle == ASSUME FilterInv, NEW a, MarkArticleRead(a) PROVE FilterInv'
<1> DEFINE st == art_mark_read(Open, a)
           D == ArtsOf[group]
<1>1. /\ group \in Groups /\ Open \in States(D) /\ a \in DOMAIN arts /\ Show(st)
      /\ rules' = rules /\ file' = file /\ group' = group /\ touched' = touched
  BY DEF FilterInv, MarkArticleRead
<1>2. /\ Open.arts = arts /\ arts \in [D -> ArtStates] /\ Open.bits = unread[group]
      /\ unread[group] \in SUBSET D /\ \A b \in D : arts[b].status = "read" => b \notin unread[group]
  BY <1>1 DEF States, Open, MarkArticleRead
<1>3. arts' = [arts EXCEPT ![a].status = "read"] /\ unread' = [unread EXCEPT ![group] = unread[group] \ {a}]
  BY <1>1, <1>2 DEF Show, art_mark_read
<1>4. /\ DOMAIN unread' = Groups /\ unread'[group] = unread[group] \ {a}
      /\ \A g \in Groups : unread'[g] \in SUBSET ArtsOf[g]
  BY <1>1, <1>3 DEF FilterInv
<1>5. arts' \in [D -> ArtStates] /\ \A b \in D : arts'[b].status = "read" => b \notin unread'[group]
  <2> DEFINE art == [arts[a] EXCEPT !.status = "read"]
  <2>1. a \in D /\ arts[a] \in ArtStates
    BY <1>1, <1>2
  <2>2. art \in ArtStates /\ art.status = "read"
    BY <2>1 DEF ArtStates
  <2>3. arts' = [arts EXCEPT ![a] = art]
    BY <1>3
  <2> HIDE DEF art
  <2>4. QED
    BY <1>2, <1>4, <2>1, <2>2, <2>3
<1>6. (Open)' \in States(D)
  BY <1>1, <1>4, <1>5 DEF Open, States
<1>7. (RulesInForce)'
  BY <1>1, <1>2, <1>4, <1>5 DEF FilterInv, RulesInForce
<1>8. QED
  BY <1>1, <1>4, <1>6, <1>7 DEF FilterInv

LEMMA UnreadsArticle == ASSUME FilterInv, NEW a, MarkArticleUnread(a) PROVE FilterInv'
<1> DEFINE st == art_mark_unread(Open, a)
           D == ArtsOf[group]
<1>1. /\ group \in Groups /\ Open \in States(D) /\ a \in DOMAIN arts /\ Show(st)
      /\ rules' = rules /\ file' = file /\ group' = group /\ touched' = touched \cup {a}
  BY DEF FilterInv, MarkArticleUnread
<1>2. /\ Open.arts = arts /\ arts \in [D -> ArtStates] /\ Open.bits = unread[group]
      /\ unread[group] \in SUBSET D /\ \A b \in D : arts[b].status = "read" => b \notin unread[group]
  BY <1>1 DEF States, Open, MarkArticleUnread
<1>3. arts' = [arts EXCEPT ![a].status = "unread"] /\ unread' = [unread EXCEPT ![group] = unread[group] \cup {a}]
  BY <1>1, <1>2 DEF Show, art_mark_unread
<1>4. /\ DOMAIN unread' = Groups /\ unread'[group] = unread[group] \cup {a}
      /\ \A g \in Groups : unread'[g] \in SUBSET ArtsOf[g]
  BY <1>1, <1>2, <1>3 DEF FilterInv
<1>5. arts' \in [D -> ArtStates] /\ \A b \in D : arts'[b].status = "read" => b \notin unread'[group]
  <2> DEFINE art == [arts[a] EXCEPT !.status = "unread"]
  <2>1. a \in D /\ arts[a] \in ArtStates
    BY <1>1, <1>2
  <2>2. art \in ArtStates /\ art.status = "unread"
    BY <2>1 DEF ArtStates
  <2>3. arts' = [arts EXCEPT ![a] = art]
    BY <1>3
  <2> HIDE DEF art
  <2>4. QED
    BY <1>2, <1>4, <2>1, <2>2, <2>3
<1>6. (Open)' \in States(D)
  BY <1>1, <1>4, <1>5 DEF Open, States
<1>7. (RulesInForce)'
  BY <1>1, <1>2, <1>4, <1>5 DEF FilterInv, RulesInForce
<1>8. QED
  BY <1>1, <1>4, <1>6, <1>7 DEF FilterInv

LEMMA FilterSteps == ASSUME FilterInv, [FilterNext]_filter_vars PROVE FilterInv'
<1>1. CASE UNCHANGED filter_vars
  BY <1>1 DEF filter_vars, FilterInv, RulesInForce, Open
<1>2. CASE Tick
  BY <1>2 DEF Tick, FilterInv, RulesInForce, Open
<1>3. CASE FilterNext
  BY <1>2, <1>3, StartsAnew, Enters, ReadsArticle, UnreadsArticle, QuickFilters, MenuSaves, MenuEdits,
     Posts DEF FilterNext
<1>4. QED
  BY <1>1, <1>3

\* What the rules in use kill is read, in the bitmap of the group too
\* (filter_articles), whatever the rules, the articles and the answers are,
\* unless the reader marked it unread since or his editor failed.
THEOREM KilledStayRead == FilterSpec => []RulesInForce
<1>1. FilterInit => FilterInv
  BY FilterStarts
<1>2. FilterInv /\ [FilterNext]_filter_vars => FilterInv'
  BY FilterSteps
<1>3. FilterInv => RulesInForce
  BY DEF FilterInv
<1>4. QED
  BY <1>1, <1>2, <1>3, PTL DEF FilterSpec

-----------------------------------------------------------------------------
(* Reading back what was written *)

\* Lines that can be read where V is what rules are made of.
Readable(L, V) == \A line \in L : line.value \in V /\ ScoreIsNumber(line)

LEMMA ReadingOn ==
  ASSUME NEW V, Given \subseteq V, NEW r \in Reading(V), NEW L, Readable(L, V),
         NEW p \in Seq(L), NEW q \in Seq(L), NEW time
  PROVE  Reads(r, p \o q, time) = Reads(Reads(r, p, time), q, time)
<1> DEFINE m == Len(p)
           n == Len(q)
           w == p \o q
           mid == Reads(r, p, time)
<1>1. /\ m \in Nat /\ n \in Nat /\ w \in Seq(L) /\ Len(w) = m + n
      /\ \A k \in 1..m : w[k] = p[k]
      /\ \A k \in 1..n : w[m + k] = q[k]
  BY Concatenating
<1>2. mid \in Reading(V)
  BY ReadingLines DEF Readable
<1> HIDE DEF w, m, n, mid
<1>3. PICK a : Read_(a, r, p, time)
  BY ReadingLines DEF Readable
<1>4. PICK b : Read_(b, mid, q, time)
  BY <1>2, ReadingLines DEF Readable
<1>5. PICK c : Read_(c, r, w, time)
  BY <1>1, ReadingLines DEF Readable
<1>6. c[1..m] = a[1..m]
  <2> DEFINE P == {k \in 0..m : c[1..k] = a[1..k]}
  <2>1. 0 \in P
    <3>1. 1..0 = {}
      OBVIOUS
    <3>2. QED
      BY <1>1, <1>3, <1>5, <3>1 DEF Read_
  <2>2. ASSUME NEW k \in 0..(m - 1), k \in P PROVE k + 1 \in P
    <3>1. k + 1 \in 1..m /\ k + 1 \in 1..(m + n) /\ k + 1 - 1 = k
      BY <1>1
    <3>2. a[1..(k + 1)] = ReadFilterLine(a[1..k], p[k + 1], time)
      BY <1>3, <3>1 DEF Read_, m
    <3>3. c[1..(k + 1)] = ReadFilterLine(c[1..k], w[k + 1], time)
      BY <1>1, <1>5, <3>1 DEF Read_
    <3>4. w[k + 1] = p[k + 1] /\ c[1..k] = a[1..k]
      BY <1>1, <2>2, <3>1
    <3>5. QED
      BY <3>1, <3>2, <3>3, <3>4
  <2>3. m \in P
    <3> HIDE DEF P
    <3>1. QED
      BY <1>1, <2>1, <2>2, UpTo
  <2>4. QED
    BY <2>3
<1>7. c[1..(m + n)] = b[1..n]
  <2> DEFINE P == {k \in 0..n : c[1..(m + k)] = b[1..k]}
  <2>1. 0 \in P
    <3>1. 1..0 = {} /\ m + 0 = m /\ 0 \in 0..n
      BY <1>1
    <3>2. b[{}] = mid /\ mid = a[1..m]
      BY <1>3, <1>4 DEF Read_, mid, m
    <3>3. QED
      BY <1>6, <3>1, <3>2
  <2>2. ASSUME NEW k \in 0..(n - 1), k \in P PROVE k + 1 \in P
    <3>1. k + 1 \in 1..n /\ m + (k + 1) \in 1..(m + n) /\ k + 1 - 1 = k /\ m + (k + 1) - 1 = m + k
      BY <1>1
    <3>2. b[1..(k + 1)] = ReadFilterLine(b[1..k], q[k + 1], time)
      BY <1>4, <3>1 DEF Read_, n
    <3>3. c[1..(m + (k + 1))] = ReadFilterLine(c[1..(m + k)], w[m + (k + 1)], time)
      <4>1. \A j \in 1..(m + n) : c[1..j] = ReadFilterLine(c[1..(j - 1)], w[j], time)
        BY <1>1, <1>5 DEF Read_
      <4>2. PICK j \in 1..(m + n) : j = m + (k + 1) /\ j - 1 = m + k
        BY <1>1, <3>1
      <4>3. c[1..j] = ReadFilterLine(c[1..(j - 1)], w[j], time)
        BY <4>1, <4>2
      <4>4. QED
        BY <4>2, <4>3
    <3>4. w[m + (k + 1)] = q[k + 1] /\ c[1..(m + k)] = b[1..k]
      BY <1>1, <2>2, <3>1
    <3>5. QED
      BY <3>1, <3>2, <3>3, <3>4
  <2>3. n \in P
    <3> HIDE DEF P
    <3>1. QED
      BY <1>1, <2>1, <2>2, UpTo
  <2>4. QED
    BY <2>3
<1>8. Reads(r, w, time) = c[1..(m + n)] /\ Reads(mid, q, time) = b[1..n]
  BY <1>1, <1>4, <1>5 DEF Read_, n
<1>9. QED
  BY <1>7, <1>8 DEF w, mid

LEMMA ReadingFew ==
  ASSUME NEW V, Given \subseteq V, NEW r \in Reading(V), NEW L, Readable(L, V), NEW line \in L, NEW time
  PROVE  /\ Reads(r, <<>>, time) = r
         /\ Reads(r, <<line>>, time) = ReadFilterLine(r, line, time)
<1>1. <<>> \in Seq(L) /\ Len(<<>>) = 0
  OBVIOUS
<1>2. <<line>> \in Seq(L) /\ Len(<<line>>) = 1 /\ <<line>>[1] = line
  OBVIOUS
<1>3. 1..0 = {} /\ 1 \in 1..1 /\ 1 - 1 = 0
  OBVIOUS
<1>4. PICK a : Read_(a, r, <<>>, time)
  BY <1>1, ReadingLines DEF Readable
<1>5. PICK b : Read_(b, r, <<line>>, time)
  BY <1>2, ReadingLines DEF Readable
<1>6. Reads(r, <<>>, time) = r
  BY <1>1, <1>3, <1>4 DEF Read_
<1>7. Reads(r, <<line>>, time) = b[1..1] /\ b[{}] = r
  BY <1>2, <1>5 DEF Read_
<1>8. b[1..1] = ReadFilterLine(b[1..0], line, time)
  <2>1. \A k \in 1..1 : b[1..k] = ReadFilterLine(b[1..(k - 1)], <<line>>[k], time)
    BY <1>2, <1>5 DEF Read_
  <2>2. QED
    BY <1>2, <1>3, <2>1
<1>9. QED
  BY <1>3, <1>6, <1>7, <1>8

\* The rule x is being read.
With(st, x) == [rules |-> Append(st.rules, x), open |-> TRUE, cnt |-> st.cnt, expired |-> st.expired]

LEMMA OpenRule ==
  ASSUME NEW V, NEW st \in Reading(V), NEW x \in FilterRules(V)
  PROVE  /\ With(st, x) \in Reading(V)
         /\ Front(With(st, x).rules) = st.rules /\ Last(With(st, x).rules) = x
<1>1. st.rules \in Seq(FilterRules(V)) /\ st.cnt \in Nat /\ st.expired \in BOOLEAN
  BY DEF Reading
<1> DEFINE w == Append(st.rules, x)
<1>2. /\ w \in Seq(FilterRules(V)) /\ w # <<>> /\ Len(w) = Len(st.rules) + 1 /\ w[Len(w)] = x
      /\ SubSeq(w, 1, Len(w) - 1) = st.rules
  BY <1>1
<1>3. Front(w) = st.rules /\ Last(w) = x
  BY <1>2 DEF Front, Last
<1> HIDE DEF w
<1>4. With(st, x) = [rules |-> w, open |-> TRUE, cnt |-> st.cnt, expired |-> st.expired]
  BY DEF With, w
<1>5. With(st, x) \in Reading(V)
  BY <1>1, <1>2, <1>4 DEF Reading
<1>6. QED
  BY <1>3, <1>4, <1>5

LEMMA GroupLine ==
  ASSUME NEW V, NEW st \in Reading(V), NEW scope, NEW time
  PROVE  ReadFilterLine(st, Line("group", scope), time) = With(st, vSetFilter(scope))
<1>1. st = [rules |-> st.rules, open |-> st.open, cnt |-> st.cnt, expired |-> st.expired]
  BY DEF Reading
<1>2. ReadFilterLine(st, Line("group", scope), time) =
        [st EXCEPT !.rules = Append(@, vSetFilter(scope)), !.open = TRUE]
  BY DEF ReadFilterLine, Line
<1>3. QED
  BY <1>1, <1>2 DEF With

\* A line of the rule that is being read.
LEMMA FieldLine ==
  ASSUME NEW V, NEW st \in Reading(V), NEW x \in FilterRules(V), NEW v, NEW time,
         NEW k \in FileKeys \ {"group", "xref_score"}
  PROVE  LET y == SetField(x, Line(k, v), st.cnt)
         IN ReadFilterLine(With(st, x), Line(k, v), time) =
              IF k = "time" /\ Expired(y, time)
              THEN [rules |-> st.rules, open |-> FALSE, cnt |-> st.cnt, expired |-> TRUE]
              ELSE With(st, y)
<1> DEFINE w == With(st, x)
           line == Line(k, v)
           y == SetField(x, line, st.cnt)
<1>1. Front(w.rules) = st.rules /\ Last(w.rules) = x
  BY OpenRule
<1>2. w.open = TRUE /\ w.cnt = st.cnt /\ w.expired = st.expired
      /\ w = [rules |-> w.rules, open |-> TRUE, cnt |-> st.cnt, expired |-> st.expired]
  BY DEF With
<1>3. line.key = k /\ k \notin {"group", "scope", "xref_score"}
  BY DEF Line, FileKeys, MsgidKeys
<1> HIDE DEF w, line, y
<1>4. ReadFilterLine(w, line, time) =
        IF k = "time" /\ Expired(y, time)
        THEN [rules |-> st.rules, open |-> FALSE, cnt |-> st.cnt, expired |-> TRUE]
        ELSE [w EXCEPT !.rules = Append(Front(@), y), !.cnt = st.cnt]
  BY <1>1, <1>2, <1>3 DEF ReadFilterLine, y
<1>5. [w EXCEPT !.rules = Append(Front(@), y), !.cnt = st.cnt] = With(st, y)
  <2> DEFINE u == Append(st.rules, y)
  <2>1. Append(Front(w.rules), y) = u
    BY <1>1
  <2>2. With(st, y) = [rules |-> u, open |-> TRUE, cnt |-> st.cnt, expired |-> st.expired]
    BY DEF With
  <2> HIDE DEF u
  <2>3. w = [rules |-> w.rules, open |-> w.open, cnt |-> w.cnt, expired |-> w.expired]
    BY DEF w, With
  <2> DEFINE f == [w EXCEPT !.rules = u]
  <2>4. f = [rules |-> u, open |-> w.open, cnt |-> w.cnt, expired |-> w.expired]
    BY <2>3
  <2>5. f = [rules |-> f.rules, open |-> f.open, cnt |-> f.cnt, expired |-> f.expired] /\ f.cnt = st.cnt
    BY <1>2, <2>4
  <2>6. [w EXCEPT !.rules = u, !.cnt = st.cnt] = [f EXCEPT !.cnt = st.cnt]
    BY <2>3
  <2> HIDE DEF f
  <2>7. [f EXCEPT !.cnt = st.cnt] = f
    BY <2>5
  <2>8. QED
    BY <1>2, <2>1, <2>2, <2>4, <2>6, <2>7
<1>6. QED
  BY <1>4, <1>5 DEF w, line, y

\* The lines w are read, and the rule x is being read.
SoFar(V, st, w, time, x) ==
  x \in FilterRules(V) /\ w \in Seq(FilterLines(V)) /\ Reads(st, w, time) = With(st, x)

\* p is written of a field of the rule, or nothing where it is what x has.
Field(V, x, cnt, k, v, p, y) ==
  /\ k \in FileKeys \ {"group", "xref_score", "time"} /\ v \in V /\ ScoreIsNumber(Line(k, v))
  /\ \/ p = <<Line(k, v)>> /\ y = SetField(x, Line(k, v), cnt)
     \/ p = <<>> /\ y = x

LEMMA FieldRead ==
  ASSUME NEW V, Given \subseteq V, NEW st \in Reading(V), NEW time, NEW w, NEW x, SoFar(V, st, w, time, x),
         NEW k, NEW v, NEW p, NEW y, Field(V, x, st.cnt, k, v, p, y)
  PROVE  SoFar(V, st, w \o p, time, y)
<1> DEFINE L == FilterLines(V)
           line == Line(k, v)
<1>1. /\ x \in FilterRules(V) /\ w \in Seq(FilterLines(V)) /\ Reads(st, w, time) = With(st, x)
      /\ k \in FileKeys \ {"group", "xref_score", "time"} /\ v \in V /\ ScoreIsNumber(line)
      /\ \/ p = <<line>> /\ y = SetField(x, line, st.cnt)
         \/ p = <<>> /\ y = x
  BY DEF SoFar, Field
<1>2. Readable(L, V)
  BY DEF Readable, FilterLines
<1>3. line \in L
  <2> HIDE DEF FileKeys
  <2>1. line \in [key : FileKeys, value : V]
    BY <1>1 DEF Line
  <2>2. QED
    BY <1>1, <2>1 DEF FilterLines
<1>4. line.value = v
  BY DEF Line
<1>5. y \in FilterRules(V)
  <2>1. SetField(x, line, st.cnt) \in FilterRules(V)
    <3>1. st.cnt \in Nat
      BY DEF Reading
    <3> HIDE DEF line
    <3>2. QED
      BY <1>1, <1>4, <3>1, FieldSet
  <2>2. QED
    BY <1>1, <2>1
<1>6. With(st, x) \in Reading(V)
  BY <1>1, OpenRule
<1>7. ReadFilterLine(With(st, x), line, time) = With(st, SetField(x, line, st.cnt))
  BY <1>1, FieldLine
<1> HIDE DEF L, line
<1>8. Reads(With(st, x), <<>>, time) = With(st, x)
  BY <1>2, <1>3, <1>6, ReadingFew
<1>9. Reads(With(st, x), <<line>>, time) = ReadFilterLine(With(st, x), line, time)
  BY <1>2, <1>3, <1>6, ReadingFew
<1>10. p \in Seq(L) /\ Reads(With(st, x), p, time) = With(st, y)
  <2>1. CASE p = <<line>> /\ y = SetField(x, line, st.cnt)
    BY <1>3, <1>7, <1>9, <2>1
  <2>2. CASE p = <<>> /\ y = x
    BY <1>8, <2>2
  <2>3. QED
    BY <1>1, <2>1, <2>2
<1>11. w \o p \in Seq(L) /\ Reads(st, w \o p, time) = With(st, y)
  <2>1. w \in Seq(L)
    BY <1>1 DEF L
  <2>2. Reads(st, w \o p, time) = Reads(Reads(st, w, time), p, time)
    BY <1>2, <1>10, <2>1, ReadingOn
  <2>3. QED
    BY <1>1, <1>10, <2>1, <2>2
<1>12. QED
  BY <1>5, <1>11 DEF L, SoFar

\* score= as it is written is read as it was.
LEMMA ScoreReadBack ==
  ASSUME NEW n \in Scores, n # 0, NEW type,
         ~(type = FILTER_KILL /\ n > 0), ~(type = FILTER_SELECT /\ n < 0)
  PROVE  ReadScore(type, ScoreText(n)) = n
<1>1. n \in Int /\ Clip(n) = n
  BY DEF Clip, FilterMax, FilterMin, Scores, SCORE_MAX
<1>2. CASE n = SCORE_KILL
  <2>1. ScoreText(n) = Word("kill")
    BY <1>2 DEF ScoreText, SCORE_KILL, SCORE_SELECT
  <2>2. QED
    BY <1>2, <2>1 DEF ReadScore, Word, SCORE_KILL
<1>3. CASE n = SCORE_SELECT
  <2>1. ScoreText(n) = Word("hot")
    BY <1>3 DEF ScoreText, SCORE_KILL, SCORE_SELECT
  <2>2. QED
    BY <1>3, <2>1 DEF ReadScore, Word, SCORE_SELECT
<1>4. CASE n # SCORE_KILL /\ n # SCORE_SELECT
  <2>1. ScoreText(n) = Number(n)
    BY <1>4 DEF ScoreText
  <2>2. QED
    BY <1>1, <1>4, <2>1 DEF ReadScore, Number
<1>5. QED
  BY <1>2, <1>3, <1>4

\* The rules that the menus and the quick commands make, and what xref= and
\* xref_max= add by hand.  Not xref_score=, whose values a second rule gets in
\* other places than they were written from.
PlainRules(V) ==
  {r \in FilterRules(V) : /\ r.xref_max \in Nat /\ r.xref_scores = <<>> /\ r.time \in Int
                          /\ r.score \in Scores \ {0}
                          /\ ~(r.type = FILTER_KILL /\ r.score > 0)
                          /\ ~(r.type = FILTER_SELECT /\ r.score < 0)
                          /\ r.msgid = None => r.fullref = "msgid"}

LEMMA OneAppended == ASSUME NEW S, NEW q \in Seq(S), NEW v \in S PROVE q \o <<v>> = Append(q, v)
<1> DEFINE w == q \o <<v>>
           u == Append(q, v)
           n == Len(q)
           one == <<v>>
<1>1. one \in Seq(S) /\ Len(one) = 1 /\ one[1] = v
  OBVIOUS
<1> HIDE DEF one
<1>2. w \in Seq(S) /\ n \in Nat /\ Len(w) = n + 1 /\ \A i \in 1..n : w[i] = q[i]
  BY <1>1, Concatenating DEF one
<1>3. w[n + 1] = v
  <2>1. \A i \in 1..Len(one) : (q \o one)[i + Len(q)] = one[i]
    BY <1>1
  <2>2. PICK i \in 1..Len(one) : i = 1
    BY <1>1
  <2>3. (q \o one)[i + Len(q)] = one[i]
    BY <2>1
  <2>4. i + Len(q) = n + 1
    BY <1>2, <2>2
  <2>5. QED
    BY <1>1, <2>2, <2>3, <2>4 DEF one
<1>4. u \in Seq(S) /\ Len(u) = n + 1 /\ (\A i \in 1..n : u[i] = q[i]) /\ u[n + 1] = v
  OBVIOUS
<1> HIDE DEF w, u, n
<1>5. \A i \in 1..(n + 1) : i \in 1..n \/ i = n + 1
  BY <1>2
<1>6. w = u
  BY <1>2, <1>3, <1>4, <1>5
<1>7. QED
  BY <1>6 DEF w, u

LEMMA FourInOrder ==
  ASSUME NEW a, NEW b, NEW c, NEW d
  PROVE  ((<<a>> \o <<b>>) \o <<c>>) \o <<d>> = <<a, b, c, d>>
<1> DEFINE S == {a, b, c, d}
           u == Append(<<a>>, b)
           v == Append(<<a, b>>, c)
           w == Append(<<a, b, c>>, d)
<1>1. a \in S /\ b \in S /\ c \in S /\ d \in S
  OBVIOUS
<1> HIDE DEF S
<1>2. u \in Seq(S) /\ Len(u) = 2 /\ u[1] = a /\ u[2] = b
  BY <1>1
<1>3. v \in Seq(S) /\ Len(v) = 3 /\ v[1] = a /\ v[2] = b /\ v[3] = c
  BY <1>1
<1>4. w \in Seq(S) /\ Len(w) = 4 /\ w[1] = a /\ w[2] = b /\ w[3] = c /\ w[4] = d
  BY <1>1
<1> HIDE DEF u, v, w
<1>5. u = <<a, b>> /\ v = <<a, b, c>> /\ w = <<a, b, c, d>>
  BY <1>2, <1>3, <1>4
<1>6. <<a>> \in Seq(S) /\ <<a, b>> \in Seq(S) /\ <<a, b, c>> \in Seq(S)
  BY <1>1
<1>7. <<a>> \o <<b>> = u /\ <<a, b>> \o <<c>> = v /\ <<a, b, c>> \o <<d>> = w
  BY <1>1, <1>6, OneAppended DEF u, v, w
<1>8. QED
  BY <1>5, <1>7

\* The first lines of a rule: its scope, its type, its case and its score.
LEMMA HeadsRead ==
  ASSUME NEW V, Given \subseteq V, NEW st \in Reading(V), NEW rule \in PlainRules(V), NEW time
  PROVE  SoFar(V, st, Heads(rule), time,
               [vSetFilter(rule.scope) EXCEPT !.type = rule.type, !.icase = rule.icase, !.score = rule.score])
<1> DEFINE L == FilterLines(V)
           e0 == vSetFilter(rule.scope)
           n == IF rule.type = FILTER_KILL THEN SCORE_KILL ELSE SCORE_SELECT
           e1 == [e0 EXCEPT !.type = rule.type, !.score = n]
           e2 == [e1 EXCEPT !.icase = rule.icase]
           e3 == [e2 EXCEPT !.score = rule.score]
           l0 == Line("group", rule.scope)
           l1 == Line("type", rule.type)
           l2 == Line("case", rule.icase)
           l3 == Line("score", ScoreText(rule.score))
<1>1. /\ rule.scope \in V /\ rule.type \in V /\ rule.icase \in V /\ rule.score \in Int
      /\ rule.score \in Scores \ {0}
      /\ ~(rule.type = FILTER_KILL /\ rule.score > 0) /\ ~(rule.type = FILTER_SELECT /\ rule.score < 0)
  BY DEF PlainRules, FilterRules, Scores
<1>2. e0 \in FilterRules(V)
  BY <1>1, EmptyRule
<1>3. \A k \in {"group", "type", "case"} : k \in FileKeys \ {"score"}
  BY DEF FileKeys
<1>4. l0 \in L /\ l1 \in L /\ l2 \in L /\ l3 \in L
  BY <1>1, <1>3, OneLine, ScoreWritten
<1>5. Readable(L, V)
  BY DEF Readable, FilterLines
<1>6. Reads(st, <<l0>>, time) = With(st, e0)
  <2> HIDE DEF L
  <2>1. Reads(st, <<l0>>, time) = ReadFilterLine(st, l0, time)
    BY <1>4, <1>5, ReadingFew
  <2>2. QED
    BY <2>1, GroupLine
<1>7. <<l0>> \in Seq(L)
  BY <1>4
<1>8. e1 = SetField(e0, l1, st.cnt)
  BY DEF SetField, Line
<1>9. e2 = SetField(e1, l2, st.cnt)
  BY DEF SetField, Line
<1>10. e3 = SetField(e2, l3, st.cnt)
  <2> DEFINE text == ScoreText(rule.score)
  <2>1. l3.key = "score" /\ l3.value = text
    BY DEF Line
  <2>2. e2.type = rule.type
    <3>1. e1.type = rule.type /\ e1 = [e1 EXCEPT !.type = rule.type]
      BY <1>2 DEF FilterRules
    <3> HIDE DEF e1
    <3>2. QED
      BY <3>1
  <2> HIDE DEF e2, l3, text
  <2>3. SetField(e2, l3, st.cnt) = [e2 EXCEPT !.score = ReadScore(e2.type, text)]
    BY <2>1 DEF SetField
  <2>4. ReadScore(rule.type, text) = rule.score
    BY <1>1, ScoreReadBack DEF text
  <2>5. QED
    BY <2>2, <2>3, <2>4
<1>11. e3 = [e0 EXCEPT !.type = rule.type, !.icase = rule.icase, !.score = rule.score]
  <2> HIDE DEF e0, n
  <2>1. QED
    BY <1>2 DEF FilterRules
<1>12. ScoreIsNumber(l1) /\ ScoreIsNumber(l2) /\ ScoreIsNumber(l3) /\ ScoreText(rule.score) \in V
  BY <1>4 DEF FilterLines, Line
<1>13. /\ "type" \in FileKeys \ {"group", "xref_score", "time"}
       /\ "case" \in FileKeys \ {"group", "xref_score", "time"}
       /\ "score" \in FileKeys \ {"group", "xref_score", "time"}
  BY DEF FileKeys
<1> HIDE DEF e0, e1, e2, e3, n
<1> DEFINE text == ScoreText(rule.score)
<1>14. /\ SoFar(V, st, <<l0>>, time, e0)
       /\ Field(V, e0, st.cnt, "type", rule.type, <<l1>>, e1)
       /\ Field(V, e1, st.cnt, "case", rule.icase, <<l2>>, e2)
       /\ Field(V, e2, st.cnt, "score", text, <<l3>>, e3)
  BY <1>1, <1>2, <1>6, <1>7, <1>8, <1>9, <1>10, <1>12, <1>13 DEF SoFar, Field
<1> HIDE DEF l0, l1, l2, l3, text
<1>15. SoFar(V, st, <<l0>> \o <<l1>>, time, e1)
  BY <1>14, FieldRead
<1>16. SoFar(V, st, (<<l0>> \o <<l1>>) \o <<l2>>, time, e2)
  BY <1>14, <1>15, FieldRead
<1>17. SoFar(V, st, ((<<l0>> \o <<l1>>) \o <<l2>>) \o <<l3>>, time, e3)
  BY <1>14, <1>16, FieldRead
<1>18. Heads(rule) = ((<<l0>> \o <<l1>>) \o <<l2>>) \o <<l3>>
  BY FourInOrder DEF Heads, l0, l1, l2, l3, text
<1>19. QED
  BY <1>11, <1>18, <1>17 DEF e0

\* The other fields are written where they are not what a new rule has.
LEMMA FieldMade ==
  ASSUME NEW V, NEW x \in FilterRules(V), NEW rule \in PlainRules(V), NEW cnt
  PROVE  /\ x.subj = None => Field(V, x, cnt, "subj", rule.subj, LineIf(rule.subj # None, "subj", rule.subj),
                                  [x EXCEPT !.subj = rule.subj])
         /\ x.from = None => Field(V, x, cnt, "from", rule.from, LineIf(rule.from # None, "from", rule.from),
                                  [x EXCEPT !.from = rule.from])
         /\ x.msgid = None /\ x.fullref = "msgid"
              => Field(V, x, cnt, rule.fullref, rule.msgid, LineIf(rule.msgid # None, rule.fullref, rule.msgid),
                       [x EXCEPT !.msgid = rule.msgid, !.fullref = rule.fullref])
         /\ x.lines = NoTest => Field(V, x, cnt, "lines", rule.lines,
                                     LineIf(rule.lines # NoTest, "lines", rule.lines),
                                     [x EXCEPT !.lines = rule.lines])
         /\ x.gnksa = NoTest => Field(V, x, cnt, "gnksa", rule.gnksa,
                                     LineIf(rule.gnksa # NoTest, "gnksa", rule.gnksa),
                                     [x EXCEPT !.gnksa = rule.gnksa])
         /\ x.xref = None => Field(V, x, cnt, "xref", rule.xref, LineIf(rule.xref # None, "xref", rule.xref),
                                  [x EXCEPT !.xref = rule.xref])
         /\ x.xref_max = 0 => Field(V, x, cnt, "xref_max", rule.xref_max, XrefLines(rule),
                                   [x EXCEPT !.xref_max = rule.xref_max])
<1>1. /\ rule.subj \in V /\ rule.from \in V /\ rule.msgid \in V /\ rule.lines \in V /\ rule.gnksa \in V
      /\ rule.xref \in V /\ rule.fullref \in MsgidKeys /\ (rule.msgid = None => rule.fullref = "msgid")
      /\ rule.xref_max \in V /\ rule.xref_max \in Nat /\ rule.xref_scores = <<>>
  BY DEF PlainRules, FilterRules
<1>2. \A k \in {"subj", "from", "lines", "gnksa", "xref", "xref_max"} \cup MsgidKeys :
        k \in FileKeys \ {"group", "xref_score", "time"} /\ \A v : ScoreIsNumber(Line(k, v))
  BY DEF FileKeys, MsgidKeys, ScoreIsNumber, Line
<1>3. \A k \in {"subj", "from", "lines", "gnksa", "xref", "xref_max"} : \A v :
        SetField(x, Line(k, v), cnt) = [x EXCEPT ![k] = v]
  BY DEF SetField, Line
<1>4. \A k \in MsgidKeys : \A v : SetField(x, Line(k, v), cnt) = [x EXCEPT !.msgid = v, !.fullref = k]
  BY DEF SetField, Line, MsgidKeys
<1>5. x.subj = None => [x EXCEPT !.subj = None] = x
  BY DEF FilterRules
<1>6. x.from = None => [x EXCEPT !.from = None] = x
  BY DEF FilterRules
<1>7. x.msgid = None /\ x.fullref = "msgid" => [x EXCEPT !.msgid = None, !.fullref = "msgid"] = x
  BY DEF FilterRules
<1>8. x.lines = NoTest => [x EXCEPT !.lines = NoTest] = x
  BY DEF FilterRules
<1>9. x.gnksa = NoTest => [x EXCEPT !.gnksa = NoTest] = x
  BY DEF FilterRules
<1>10. x.xref = None => [x EXCEPT !.xref = None] = x
  BY DEF FilterRules
<1>11. x.subj = None => Field(V, x, cnt, "subj", rule.subj, LineIf(rule.subj # None, "subj", rule.subj),
                           [x EXCEPT !.subj = rule.subj])
  <2> DEFINE y == [x EXCEPT !.subj = rule.subj]
             p == LineIf(rule.subj # None, "subj", rule.subj)
  <2>1. SetField(x, Line("subj", rule.subj), cnt) = y
    BY <1>3
  <2>2. rule.subj # None => p = <<Line("subj", rule.subj)>>
    BY DEF LineIf
  <2>3. x.subj = None /\ rule.subj = None => p = <<>> /\ y = x
    BY <1>5 DEF LineIf
  <2> HIDE DEF y, p
  <2>4. QED
    BY <1>1, <1>2, <2>1, <2>2, <2>3 DEF Field, y, p
<1>12. x.from = None => Field(V, x, cnt, "from", rule.from, LineIf(rule.from # None, "from", rule.from),
                           [x EXCEPT !.from = rule.from])
  <2> DEFINE y == [x EXCEPT !.from = rule.from]
             p == LineIf(rule.from # None, "from", rule.from)
  <2>1. SetField(x, Line("from", rule.from), cnt) = y
    BY <1>3
  <2>2. rule.from # None => p = <<Line("from", rule.from)>>
    BY DEF LineIf
  <2>3. x.from = None /\ rule.from = None => p = <<>> /\ y = x
    BY <1>6 DEF LineIf
  <2> HIDE DEF y, p
  <2>4. QED
    BY <1>1, <1>2, <2>1, <2>2, <2>3 DEF Field, y, p
<1>13. x.lines = NoTest => Field(V, x, cnt, "lines", rule.lines, LineIf(rule.lines # NoTest, "lines", rule.lines),
                           [x EXCEPT !.lines = rule.lines])
  <2> DEFINE y == [x EXCEPT !.lines = rule.lines]
             p == LineIf(rule.lines # NoTest, "lines", rule.lines)
  <2>1. SetField(x, Line("lines", rule.lines), cnt) = y
    BY <1>3
  <2>2. rule.lines # NoTest => p = <<Line("lines", rule.lines)>>
    BY DEF LineIf
  <2>3. x.lines = NoTest /\ rule.lines = NoTest => p = <<>> /\ y = x
    BY <1>8 DEF LineIf
  <2> HIDE DEF y, p
  <2>4. QED
    BY <1>1, <1>2, <2>1, <2>2, <2>3 DEF Field, y, p
<1>14. x.gnksa = NoTest => Field(V, x, cnt, "gnksa", rule.gnksa, LineIf(rule.gnksa # NoTest, "gnksa", rule.gnksa),
                           [x EXCEPT !.gnksa = rule.gnksa])
  <2> DEFINE y == [x EXCEPT !.gnksa = rule.gnksa]
             p == LineIf(rule.gnksa # NoTest, "gnksa", rule.gnksa)
  <2>1. SetField(x, Line("gnksa", rule.gnksa), cnt) = y
    BY <1>3
  <2>2. rule.gnksa # NoTest => p = <<Line("gnksa", rule.gnksa)>>
    BY DEF LineIf
  <2>3. x.gnksa = NoTest /\ rule.gnksa = NoTest => p = <<>> /\ y = x
    BY <1>9 DEF LineIf
  <2> HIDE DEF y, p
  <2>4. QED
    BY <1>1, <1>2, <2>1, <2>2, <2>3 DEF Field, y, p
<1>15. x.xref = None => Field(V, x, cnt, "xref", rule.xref, LineIf(rule.xref # None, "xref", rule.xref),
                           [x EXCEPT !.xref = rule.xref])
  <2> DEFINE y == [x EXCEPT !.xref = rule.xref]
             p == LineIf(rule.xref # None, "xref", rule.xref)
  <2>1. SetField(x, Line("xref", rule.xref), cnt) = y
    BY <1>3
  <2>2. rule.xref # None => p = <<Line("xref", rule.xref)>>
    BY DEF LineIf
  <2>3. x.xref = None /\ rule.xref = None => p = <<>> /\ y = x
    BY <1>10 DEF LineIf
  <2> HIDE DEF y, p
  <2>4. QED
    BY <1>1, <1>2, <2>1, <2>2, <2>3 DEF Field, y, p
<1>16. x.msgid = None /\ x.fullref = "msgid"
          => Field(V, x, cnt, rule.fullref, rule.msgid, LineIf(rule.msgid # None, rule.fullref, rule.msgid),
                   [x EXCEPT !.msgid = rule.msgid, !.fullref = rule.fullref])
  <2> DEFINE y == [x EXCEPT !.msgid = rule.msgid, !.fullref = rule.fullref]
             p == LineIf(rule.msgid # None, rule.fullref, rule.msgid)
  <2>1. SetField(x, Line(rule.fullref, rule.msgid), cnt) = y
    BY <1>1, <1>4
  <2>2. rule.msgid # None => p = <<Line(rule.fullref, rule.msgid)>>
    BY DEF LineIf
  <2>3. x.msgid = None /\ x.fullref = "msgid" /\ rule.msgid = None => p = <<>> /\ y = x
    BY <1>1, <1>7 DEF LineIf
  <2> HIDE DEF y, p
  <2>4. QED
    BY <1>1, <1>2, <2>1, <2>2, <2>3 DEF Field, y, p
<1>17. x.xref_max = 0 => Field(V, x, cnt, "xref_max", rule.xref_max, XrefLines(rule),
                               [x EXCEPT !.xref_max = rule.xref_max])
  <2> DEFINE y == [x EXCEPT !.xref_max = rule.xref_max]
             p == XrefLines(rule)
             line == Line("xref_max", rule.xref_max)
             one == <<line>>
             none == [i \in DOMAIN rule.xref_scores |-> Line("xref_score", rule.xref_scores[i])]
  <2>1. SetField(x, line, cnt) = y
    BY <1>3
  <2>2. none = <<>>
    BY <1>1
  <2>3. p = IF rule.xref_max > 0 THEN one \o none ELSE <<>>
    BY DEF XrefLines
  <2>4. one \in Seq({line})
    OBVIOUS
  <2> HIDE DEF y, p, one, none
  <2>5. one \o <<>> = one
    BY <2>4
  <2>6. rule.xref_max # 0 => p = one
    BY <1>1, <2>2, <2>3, <2>5
  <2>7. rule.xref_max = 0 => p = <<>>
    BY <2>3
  <2>8. x.xref_max = 0 /\ rule.xref_max = 0 => y = x
    BY DEF y, FilterRules
  <2>9. QED
    BY <1>1, <1>2, <2>1, <2>6, <2>7, <2>8 DEF Field, y, p, one
<1>18. QED
  BY <1>11, <1>12, <1>13, <1>14, <1>15, <1>16, <1>17

\* Of the fields that are written only where they say something, done are read.
HalfRead(V, x, rule, done) ==
  /\ x \in FilterRules(V)
  /\ x.type = rule.type /\ x.icase = rule.icase /\ x.score = rule.score /\ x.scope = rule.scope
  /\ x.xref_scores = <<>> /\ x.time = 0
  /\ x.xref_max = IF "xref_max" \in done THEN rule.xref_max ELSE 0
  /\ x.subj = IF "subj" \in done THEN rule.subj ELSE None
  /\ x.from = IF "from" \in done THEN rule.from ELSE None
  /\ x.msgid = IF "msgid" \in done THEN rule.msgid ELSE None
  /\ x.fullref = IF "msgid" \in done THEN rule.fullref ELSE "msgid"
  /\ x.lines = IF "lines" \in done THEN rule.lines ELSE NoTest
  /\ x.gnksa = IF "gnksa" \in done THEN rule.gnksa ELSE NoTest
  /\ x.xref = IF "xref" \in done THEN rule.xref ELSE None

\* A rule is read as it was written; the line of its time is the last.
LEMMA RuleReadBack ==
  ASSUME NEW V, Given \subseteq V, NEW st \in Reading(V), NEW rule \in PlainRules(V), NEW time
  PROVE  LET u == Reads(st, WriteRule(rule), time)
         IN u \in Reading(V) /\ u.rules = IF Expired(rule, time) THEN st.rules ELSE Append(st.rules, rule)
<1> DEFINE a == LineIf(rule.subj # None, "subj", rule.subj)
           b == LineIf(rule.from # None, "from", rule.from)
           c == LineIf(rule.msgid # None, rule.fullref, rule.msgid)
           d == LineIf(rule.lines # NoTest, "lines", rule.lines)
           e == LineIf(rule.gnksa # NoTest, "gnksa", rule.gnksa)
           f == LineIf(rule.xref # None, "xref", rule.xref)
           g == LineIf(rule.time # 0, "time", rule.time)
           new == vSetFilter(rule.scope)
           x0 == [new EXCEPT !.type = rule.type, !.icase = rule.icase, !.score = rule.score]
           x1 == [x0 EXCEPT !.subj = rule.subj]
           x2 == [x1 EXCEPT !.from = rule.from]
           x3 == [x2 EXCEPT !.msgid = rule.msgid, !.fullref = rule.fullref]
           x4 == [x3 EXCEPT !.lines = rule.lines]
           x5 == [x4 EXCEPT !.gnksa = rule.gnksa]
           x6 == [x5 EXCEPT !.xref = rule.xref]
           x7 == [x6 EXCEPT !.xref_max = rule.xref_max]
           m == XrefLines(rule)
           h == Heads(rule)
           w == WriteRule(rule)
<1>1. w = h \o a \o b \o c \o d \o e \o f \o m \o g
  BY Zenon DEF WriteRule, Heads, XrefLines, ScoreText
<1>2. rule \in FilterRules(V) /\ rule.xref_max \in Nat /\ rule.xref_scores = <<>> /\ rule.time \in Int
  BY DEF PlainRules
<1>3. new \in FilterRules(V)
  BY <1>2, EmptyRule DEF FilterRules
<1>4. /\ new.fullref = "msgid" /\ new.subj = None /\ new.from = None /\ new.msgid = None
      /\ new.lines = NoTest /\ new.gnksa = NoTest /\ new.xref = None /\ new.xref_max = 0
      /\ new.xref_scores = <<>> /\ new.time = 0 /\ new.scope = rule.scope
  BY DEF vSetFilter
<1>5. SoFar(V, st, h, time, x0)
  BY HeadsRead
<1> HIDE DEF a, b, c, d, e, f, m, h, w, new
<1>6. HalfRead(V, x0, rule, {})
  BY <1>2, <1>3, <1>4 DEF HalfRead, FilterRules
<1> HIDE DEF x0
<1>7. HalfRead(V, x1, rule, {"subj"})
  BY <1>2, <1>6 DEF HalfRead, FilterRules
<1> HIDE DEF x1
<1>8. HalfRead(V, x2, rule, {"subj", "from"})
  BY <1>2, <1>7 DEF HalfRead, FilterRules
<1> HIDE DEF x2
<1>9. HalfRead(V, x3, rule, {"subj", "from", "msgid"})
  BY <1>2, <1>8 DEF HalfRead, FilterRules
<1> HIDE DEF x3
<1>10. HalfRead(V, x4, rule, {"subj", "from", "msgid", "lines"})
  BY <1>2, <1>9 DEF HalfRead, FilterRules
<1> HIDE DEF x4
<1>11. HalfRead(V, x5, rule, {"subj", "from", "msgid", "lines", "gnksa"})
  BY <1>2, <1>10 DEF HalfRead, FilterRules
<1> HIDE DEF x5
<1>12. HalfRead(V, x6, rule, {"subj", "from", "msgid", "lines", "gnksa", "xref"})
  BY <1>2, <1>11 DEF HalfRead, FilterRules
<1> HIDE DEF x6
<1>13. HalfRead(V, x7, rule, {"subj", "from", "msgid", "lines", "gnksa", "xref", "xref_max"})
  BY <1>2, <1>12 DEF HalfRead, FilterRules
<1> HIDE DEF x7
<1>14. x7 \in FilterRules(V) /\ x7.time = 0 /\ [x7 EXCEPT !.time = rule.time] = rule
  BY <1>2, <1>13 DEF HalfRead, FilterRules
<1>15. /\ Field(V, x0, st.cnt, "subj", rule.subj, a, x1)
       /\ Field(V, x1, st.cnt, "from", rule.from, b, x2)
       /\ Field(V, x2, st.cnt, rule.fullref, rule.msgid, c, x3)
       /\ Field(V, x3, st.cnt, "lines", rule.lines, d, x4)
       /\ Field(V, x4, st.cnt, "gnksa", rule.gnksa, e, x5)
       /\ Field(V, x5, st.cnt, "xref", rule.xref, f, x6)
       /\ Field(V, x6, st.cnt, "xref_max", rule.xref_max, m, x7)
  <2>1. x0 \in FilterRules(V) /\ x0.subj = None /\ x1 \in FilterRules(V) /\ x1.from = None
    BY <1>6, <1>7 DEF HalfRead
  <2>2. /\ x2 \in FilterRules(V) /\ x2.msgid = None /\ x2.fullref = "msgid"
        /\ x3 \in FilterRules(V) /\ x3.lines = NoTest
    BY <1>8, <1>9 DEF HalfRead
  <2>3. x4 \in FilterRules(V) /\ x4.gnksa = NoTest /\ x5 \in FilterRules(V) /\ x5.xref = None
    BY <1>10, <1>11 DEF HalfRead
  <2>4. Field(V, x0, st.cnt, "subj", rule.subj, a, x1) /\ Field(V, x1, st.cnt, "from", rule.from, b, x2)
    BY <2>1, FieldMade DEF a, b, x1, x2
  <2>5. Field(V, x2, st.cnt, rule.fullref, rule.msgid, c, x3) /\ Field(V, x3, st.cnt, "lines", rule.lines, d, x4)
    BY <2>2, FieldMade DEF c, d, x3, x4
  <2>6. Field(V, x4, st.cnt, "gnksa", rule.gnksa, e, x5) /\ Field(V, x5, st.cnt, "xref", rule.xref, f, x6)
    BY <2>3, FieldMade DEF e, f, x5, x6
  <2>7. x6 \in FilterRules(V) /\ x6.xref_max = 0
    BY <1>12 DEF HalfRead
  <2>8. Field(V, x6, st.cnt, "xref_max", rule.xref_max, m, x7)
    BY <2>7, FieldMade DEF m, x7
  <2>9. QED
    BY <2>4, <2>5, <2>6, <2>8
<1>16. SoFar(V, st, h \o a, time, x1)
  BY <1>5, <1>15, FieldRead
<1>17. SoFar(V, st, h \o a \o b, time, x2)
  BY <1>15, <1>16, FieldRead
<1>18. SoFar(V, st, h \o a \o b \o c, time, x3)
  BY <1>15, <1>17, FieldRead
<1>19. SoFar(V, st, h \o a \o b \o c \o d, time, x4)
  BY <1>15, <1>18, FieldRead
<1>20. SoFar(V, st, h \o a \o b \o c \o d \o e, time, x5)
  BY <1>15, <1>19, FieldRead
<1>21. SoFar(V, st, h \o a \o b \o c \o d \o e \o f, time, x6)
  BY <1>15, <1>20, FieldRead
<1>22. SoFar(V, st, h \o a \o b \o c \o d \o e \o f \o m, time, x7)
  BY <1>15, <1>21, FieldRead
<1> DEFINE q == h \o a \o b \o c \o d \o e \o f \o m
           line == Line("time", rule.time)
           L == FilterLines(V)
<1>23. w = q \o g
  BY <1>1
<1> HIDE DEF q
<1>24. q \in Seq(L) /\ Reads(st, q, time) = With(st, x7)
  BY <1>22 DEF SoFar, q
<1>25. line \in L /\ Readable(L, V)
  <2>1. rule.time \in V /\ "time" \in FileKeys \ {"score"}
    BY <1>2 DEF FilterRules, FileKeys
  <2>2. QED
    BY <2>1, OneLine DEF Readable, FilterLines
<1>26. With(st, x7) \in Reading(V) /\ With(st, rule) \in Reading(V)
  BY <1>2, <1>14, OpenRule
<1> HIDE DEF L
<1>27. CASE rule.time = 0
  <2>1. g = <<>>
    BY <1>27 DEF LineIf
  <2>2. w = q
    BY <1>23, <1>24, <2>1
  <2>3. x7 = rule
    BY <1>2, <1>14, <1>27 DEF FilterRules
  <2>4. Reads(st, w, time) = With(st, rule)
    BY <1>24, <2>2, <2>3
  <2>5. ~Expired(rule, time)
    BY <1>27 DEF Expired
  <2>6. QED
    BY <1>26, <2>4, <2>5 DEF w, With
<1>28. CASE rule.time # 0
  <2>1. g = <<line>>
    BY <1>28 DEF LineIf
  <2>2. w = q \o <<line>>
    BY <1>23, <1>24, <2>1
  <2>3. <<line>> \in Seq(L)
    BY <1>25
  <2>4. Reads(st, w, time) = Reads(With(st, x7), <<line>>, time)
    <3> HIDE DEF line, g
    <3> DEFINE one == <<line>>
    <3> HIDE DEF one
    <3>3. one \in Seq(L)
      BY <2>3 DEF one
    <3>4. Reads(st, q \o one, time) = Reads(Reads(st, q, time), one, time)
      BY <1>24, <1>25, <3>3, ReadingOn
    <3>1. Reads(st, q \o <<line>>, time) = Reads(Reads(st, q, time), <<line>>, time)
      BY <3>4 DEF one
    <3>2. QED
      BY <1>24, <2>2, <3>1
  <2>5. Reads(With(st, x7), <<line>>, time) = ReadFilterLine(With(st, x7), line, time)
    BY <1>25, <1>26, ReadingFew
  <2>6. SetField(x7, line, st.cnt) = rule
    <3>1. SetField(x7, line, st.cnt) = [x7 EXCEPT !.time = rule.time]
      BY DEF SetField, Line
    <3>2. QED
      BY <1>14, <3>1
  <2>7. ReadFilterLine(With(st, x7), line, time) =
          IF Expired(rule, time)
          THEN [rules |-> st.rules, open |-> FALSE, cnt |-> st.cnt, expired |-> TRUE]
          ELSE With(st, rule)
    <3>1. "time" \in FileKeys \ {"group", "xref_score"}
      BY DEF FileKeys
    <3>2. LET y == SetField(x7, Line("time", rule.time), st.cnt)
          IN ReadFilterLine(With(st, x7), Line("time", rule.time), time) =
               IF "time" = "time" /\ Expired(y, time)
               THEN [rules |-> st.rules, open |-> FALSE, cnt |-> st.cnt, expired |-> TRUE]
               ELSE With(st, y)
      BY <1>14, <3>1, FieldLine
    <3>3. QED
      BY <2>6, <3>2
  <2>8. [rules |-> st.rules, open |-> FALSE, cnt |-> st.cnt, expired |-> TRUE] \in Reading(V)
    BY DEF Reading
  <2> DEFINE shut == [rules |-> st.rules, open |-> FALSE, cnt |-> st.cnt, expired |-> TRUE]
  <2>9. With(st, rule).rules = Append(st.rules, rule) /\ shut.rules = st.rules
    BY DEF With
  <2> HIDE DEF shut
  <2>10. Reads(st, w, time) = IF Expired(rule, time) THEN shut ELSE With(st, rule)
    BY <2>4, <2>5, <2>7 DEF shut
  <2>11. shut \in Reading(V)
    BY <2>8 DEF shut
  <2>12. QED
    BY <1>26, <2>9, <2>10, <2>11 DEF w
<1>29. QED
  BY <1>27, <1>28

-----------------------------------------------------------------------------
(* The rules that have not expired *)

Kept(used, r, time) == IF Expired(r, time) THEN used ELSE Append(used, r)

\* The rules in use before each rule, and after the last.
Used_(it, S, array, time) ==
  /\ it[{}] = <<>>
  /\ \A k \in 1..Len(array) : it[1..k] = Kept(it[1..(k - 1)], array[k], time)
  /\ \A k \in 0..Len(array) : it[1..k] \in Seq(S)
  /\ InUse(array, time) = it[1..Len(array)]

LEMMA RulesInUse ==
  ASSUME NEW S, NEW array \in Seq(S), NEW time
  PROVE  InUse(array, time) \in Seq(S) /\ \E it : Used_(it, S, array, time)
<1> DEFINE n == Len(array)
           I == Seq(S)
           turn(u, r) == Kept(u, r, time)
           step == [x \in I \X (1..n) |-> turn(x[1], array[x[2]])]
           of(f) == [part \in SUBSET (1..n) |-> IF part = {} THEN <<>> ELSE turn(f[part \ {Max(part)}], array[Max(part)])]
           it == CHOOSE f : f = of(f)
<1>1. n \in Nat /\ DOMAIN array = 1..n /\ \A k \in 1..n : array[k] \in S
  OBVIOUS
<1>2. ASSUME NEW u \in I, NEW k \in 1..n PROVE turn(u, array[k]) \in I
  BY <1>1 DEF Kept
<1>3. <<>> \in I
  OBVIOUS
<1> HIDE DEF I, turn
<1>4. step \in [I \X (1..n) -> I]
  BY <1>2
<1> HIDE DEF step, it
<1>5. PICK w \in Folds(n, I, <<>>, step) : TRUE
  BY <1>1, <1>3, <1>4, FoldMade
<1>6. ASSUME NEW part \in SUBSET (1..n)
      PROVE w[part] = IF part = {} THEN <<>> ELSE turn(w[part \ {Max(part)}], array[Max(part)])
  <2>1. w \in [SUBSET (1..n) -> I] /\ w[part] = Made(w, <<>>, step, part)
    BY <1>5 DEF Folds
  <2>2. part # {} => Max(part) \in 1..n /\ w[part \ {Max(part)}] \in I
    BY <1>1, <2>1, MaxIn
  <2>3. QED
    BY <2>1, <2>2 DEF Made, step
<1>7. w = of(w)
  BY <1>5, <1>6 DEF Folds
<1>8. it = of(it)
  BY <1>7, Zenon DEF it
<1>9. InUse(array, time) = it[1..n]
  BY <1>1, Zenon DEF InUse, FoldLeft, MapThenFoldSet, it, turn, Kept
<1>10. it[{}] = <<>>
  BY <1>8
<1>11. ASSUME NEW k \in 1..n PROVE it[1..k] = turn(it[1..(k - 1)], array[k])
  <2>1. 1..k \in SUBSET (1..n) /\ 1..k # {}
    <3>1. k \in 1..k /\ 1..k \in SUBSET (1..n)
      BY <1>1
    <3>2. QED
      BY <3>1
  <2>2. Max(1..k) = k /\ (1..k) \ {k} = 1..(k - 1)
    BY <1>1, MaxUpTo
  <2>3. QED
    BY <1>8, <2>1, <2>2
<1>12. ASSUME NEW k \in 0..n PROVE it[1..k] \in I
  <2> DEFINE P == {j \in 0..n : it[1..j] \in I}
  <2>1. 0 \in P
    <3>1. 1..0 = {} /\ 0 \in 0..n
      BY <1>1
    <3>2. QED
      BY <1>3, <1>10, <3>1
  <2>2. ASSUME NEW j \in 0..(n - 1), j \in P PROVE j + 1 \in P
    <3>1. j + 1 \in 1..n /\ j + 1 - 1 = j /\ j + 1 \in 0..n
      BY <1>1
    <3>2. it[1..(j + 1)] = turn(it[1..j], array[j + 1])
      BY <1>11, <3>1
    <3>3. turn(it[1..j], array[j + 1]) \in I
      BY <1>2, <2>2, <3>1
    <3>4. QED
      BY <3>1, <3>2, <3>3
  <2>3. k \in P
    <3>1. k \in Nat /\ \A j \in 0..(k - 1) : j \in 0..(n - 1)
      BY <1>1
    <3> HIDE DEF P
    <3>2. QED
      BY <2>1, <2>2, <3>1, UpTo
  <2>4. QED
    BY <2>3
<1>13. Used_(it, S, array, time)
  BY <1>9, <1>10, <1>11, <1>12, Zenon DEF Used_, turn, I
<1>14. InUse(array, time) \in Seq(S)
  <2>1. n \in 0..n
    BY <1>1
  <2>2. QED
    BY <1>9, <1>12, <2>1 DEF I
<1>15. QED
  BY <1>13, <1>14

LEMMA OneMoreInUse ==
  ASSUME NEW S, NEW array \in Seq(S), NEW rule \in S, NEW time
  PROVE  /\ InUse(<<>>, time) = <<>>
         /\ InUse(Append(array, rule), time) = Kept(InUse(array, time), rule, time)
<1> DEFINE n == Len(array)
           more == Append(array, rule)
<1>1. /\ n \in Nat /\ DOMAIN array = 1..n /\ more \in Seq(S) /\ Len(more) = n + 1
      /\ more[n + 1] = rule /\ \A k \in 1..n : more[k] = array[k]
  OBVIOUS
<1>2. InUse(<<>>, time) = <<>>
  <2>1. <<>> \in Seq(S) /\ Len(<<>>) = 0 /\ 1..0 = {}
    OBVIOUS
  <2>2. PICK it : Used_(it, S, <<>>, time)
    BY <2>1, RulesInUse
  <2>3. QED
    BY <2>1, <2>2 DEF Used_
<1> HIDE DEF more, n
<1>3. PICK it : Used_(it, S, array, time)
  BY RulesInUse
<1>4. PICK next : Used_(next, S, more, time)
  BY <1>1, RulesInUse
<1>5. /\ \A k \in 1..n : it[1..k] = Kept(it[1..(k - 1)], array[k], time)
      /\ \A k \in 1..(n + 1) : next[1..k] = Kept(next[1..(k - 1)], more[k], time)
      /\ it[{}] = <<>> /\ next[{}] = <<>>
      /\ InUse(array, time) = it[1..n] /\ InUse(more, time) = next[1..(n + 1)]
  BY <1>1, <1>3, <1>4 DEF Used_, n
<1>6. next[1..n] = it[1..n]
  <2> DEFINE P == {k \in 0..n : next[1..k] = it[1..k]}
  <2>1. 0 \in P
    <3>1. 1..0 = {} /\ 0 \in 0..n
      BY <1>1
    <3>2. QED
      BY <1>5, <3>1
  <2>2. ASSUME NEW k \in 0..(n - 1), k \in P PROVE k + 1 \in P
    <3>1. k + 1 \in 1..n /\ k + 1 \in 1..(n + 1) /\ k + 1 - 1 = k /\ k + 1 \in 0..n
      BY <1>1
    <3>2. it[1..(k + 1)] = Kept(it[1..k], array[k + 1], time)
      BY <1>5, <3>1
    <3>3. next[1..(k + 1)] = Kept(next[1..k], more[k + 1], time)
      BY <1>5, <3>1
    <3>4. more[k + 1] = array[k + 1] /\ next[1..k] = it[1..k]
      BY <1>1, <2>2, <3>1
    <3>5. QED
      BY <3>1, <3>2, <3>3, <3>4
  <2>3. n \in P
    <3> HIDE DEF P
    <3>1. QED
      BY <1>1, <2>1, <2>2, UpTo
  <2>4. QED
    BY <2>3
<1>7. next[1..(n + 1)] = Kept(next[1..n], rule, time)
  <2>1. n + 1 \in 1..(n + 1) /\ n + 1 - 1 = n
    BY <1>1
  <2>2. QED
    BY <1>1, <1>5, <2>1
<1>8. QED
  BY <1>2, <1>5, <1>6, <1>7 DEF more

\* What expired earlier is expired later.
LEMMA InUseLater ==
  ASSUME NEW S, \A r \in S : r.time \in Int, NEW array \in Seq(S),
         NEW time \in Int, NEW later \in Int, time <= later
  PROVE  InUse(InUse(array, time), later) = InUse(array, later)
<1> DEFINE n == Len(array)
<1>1. n \in Nat /\ \A k \in 1..n : array[k] \in S
  OBVIOUS
<1>2. PICK a : Used_(a, S, array, time)
  BY RulesInUse
<1>3. PICK b : Used_(b, S, array, later)
  BY RulesInUse
<1>4. /\ \A k \in 1..n : a[1..k] = Kept(a[1..(k - 1)], array[k], time)
      /\ \A k \in 1..n : b[1..k] = Kept(b[1..(k - 1)], array[k], later)
      /\ a[{}] = <<>> /\ b[{}] = <<>> /\ \A k \in 0..n : a[1..k] \in Seq(S)
      /\ InUse(array, time) = a[1..n] /\ InUse(array, later) = b[1..n]
  BY <1>2, <1>3 DEF Used_
<1> HIDE DEF n
<1> DEFINE P == {k \in 0..n : InUse(a[1..k], later) = b[1..k]}
<1>5. 0 \in P
  <2>1. 1..0 = {} /\ 0 \in 0..n
    BY <1>1
  <2>2. InUse(<<>>, later) = <<>>
    <3>1. <<>> \in Seq(S) /\ Len(<<>>) = 0
      OBVIOUS
    <3>2. PICK it : Used_(it, S, <<>>, later)
      BY <3>1, RulesInUse
    <3>3. QED
      BY <2>1, <3>1, <3>2 DEF Used_
  <2>3. QED
    BY <1>4, <2>1, <2>2
<1>6. ASSUME NEW k \in 0..(n - 1), k \in P PROVE k + 1 \in P
  <2> DEFINE r == array[k + 1]
             u == a[1..k]
  <2>1. k + 1 \in 1..n /\ k + 1 - 1 = k /\ k + 1 \in 0..n /\ k \in 0..n
    BY <1>1
  <2>2. r \in S /\ u \in Seq(S) /\ r.time \in Int
    BY <1>1, <1>4, <2>1
  <2>3. a[1..(k + 1)] = Kept(u, r, time)
    BY <1>4, <2>1
  <2>4. b[1..(k + 1)] = Kept(b[1..k], r, later)
    BY <1>4, <2>1
  <2>5. InUse(u, later) = b[1..k]
    BY <1>6
  <2> HIDE DEF u, r
  <2>6. CASE Expired(r, time)
    <3>1. Expired(r, later)
      BY <2>2, <2>6 DEF Expired
    <3>2. QED
      BY <2>1, <2>3, <2>4, <2>5, <2>6, <3>1 DEF Kept
  <2>7. CASE ~Expired(r, time)
    <3>1. a[1..(k + 1)] = Append(u, r)
      BY <2>3, <2>7 DEF Kept
    <3>2. InUse(Append(u, r), later) = Kept(InUse(u, later), r, later)
      BY <2>2, OneMoreInUse
    <3>3. QED
      BY <2>1, <2>4, <2>5, <3>1, <3>2
  <2>8. QED
    BY <2>6, <2>7
<1>7. n \in P
  <2> HIDE DEF P
  <2>1. QED
    BY <1>1, <1>5, <1>6, UpTo
<1>8. QED
  BY <1>4, <1>7

-----------------------------------------------------------------------------
(* A file that was written is read as the rules that were written *)

LEMMA WrittenReadBack ==
  ASSUME NEW V, Given \subseteq V, NEW array \in Seq(PlainRules(V)), NEW time, NEW later
  PROVE  ReadFilters(vWriteFilterArray(array, time), later).rules = InUse(InUse(array, time), later)
<1> DEFINE n == Len(array)
           parts == [i \in DOMAIN array |-> IF Expired(array[i], time) THEN <<>> ELSE WriteRule(array[i])]
           f == vWriteFilterArray(array, time)
           S == FilterLines(V)
           R == PlainRules(V)
           r0 == [rules |-> <<>>, open |-> FALSE, cnt |-> 0, expired |-> FALSE]
           ReadOf(entries) == Reads(r0, entries, later)
<1>1. n \in Nat /\ DOMAIN array = 1..n /\ \A i \in 1..n : array[i] \in R
  OBVIOUS
<1>2. R \subseteq FilterRules(V)
  BY DEF PlainRules
<1>3. parts \in [1..n -> Seq(S)] /\ \A i \in 1..n : Expired(array[i], time) => parts[i] = <<>>
  <2>1. \A i \in 1..n : WriteRule(array[i]) \in Seq(S) /\ <<>> \in Seq(S)
    BY <1>1, <1>2, RuleWritten
  <2> HIDE DEF S, R
  <2>2. QED
    BY <1>1, <2>1
<1>4. \A i \in 1..n : ~Expired(array[i], time) => parts[i] = WriteRule(array[i])
  BY <1>1
<1>5. f = FlattenSeq(parts)
  BY Zenon DEF vWriteFilterArray
<1>6. ReadFilters(f, later) = ReadOf(f)
  BY Zenon DEF ReadFilters, Reads
<1>7. r0 \in Reading(V) /\ r0.rules = <<>>
  <2>1. <<>> \in Seq(FilterRules(V))
    OBVIOUS
  <2>2. QED
    BY <2>1 DEF Reading
<1>8. Readable(S, V)
  BY DEF Readable, FilterLines
<1>9. PICK a : Used_(a, R, array, time)
  BY RulesInUse
<1>10. /\ \A k \in 1..n : a[1..k] = Kept(a[1..(k - 1)], array[k], time)
       /\ a[{}] = <<>> /\ (\A k \in 0..n : a[1..k] \in Seq(R)) /\ InUse(array, time) = a[1..n]
  BY <1>9 DEF Used_
<1> DEFINE Same(entries, k) == ReadOf(entries) \in Reading(V) /\ ReadOf(entries).rules = InUse(a[1..k], later)
<1> HIDE DEF n, parts, f, S, R, r0
<1>11. Same(<<>>, 0)
  <2>1. 1..0 = {}
    OBVIOUS
  <2>2. ReadOf(<<>>) = r0
    <3>1. <<>> \in Seq(S) /\ Len(<<>>) = 0
      OBVIOUS
    <3>2. PICK it : Read_(it, r0, <<>>, later)
      BY <1>7, <1>8, <3>1, ReadingLines DEF Readable
    <3>3. QED
      BY <2>1, <3>1, <3>2 DEF Read_
  <2>3. InUse(<<>>, later) = <<>>
    <3>1. <<>> \in Seq(S) /\ Len(<<>>) = 0
      OBVIOUS
    <3>2. PICK it : Used_(it, S, <<>>, later)
      BY <3>1, RulesInUse
    <3>3. QED
      BY <2>1, <3>1, <3>2 DEF Used_
  <2>4. QED
    BY <1>7, <1>10, <2>1, <2>2, <2>3
\* One rule more.
<1>12. ASSUME NEW entries \in Seq(S), NEW k \in 1..n, Same(entries, k - 1)
       PROVE  Same(entries \o parts[k], k)
  <2> DEFINE r == array[k]
             u == a[1..(k - 1)]
             b == ReadOf(entries)
  <2>1. r \in R /\ u \in Seq(R) /\ a[1..k] = Kept(u, r, time) /\ parts[k] \in Seq(S)
    <3>1. k - 1 \in 0..n
      BY <1>1
    <3>2. QED
      BY <1>1, <1>3, <1>10, <3>1
  <2>2. b \in Reading(V) /\ b.rules = InUse(u, later)
    BY <1>12
  <2>3. ReadOf(entries \o parts[k]) = Reads(b, parts[k], later)
    <3> HIDE DEF b
    <3>1. ReadOf(entries \o parts[k]) = Reads(ReadOf(entries), parts[k], later)
      BY <1>7, <1>8, <2>1, ReadingOn
    <3>2. QED
      BY <3>1 DEF b
  <2>4. Expired(r, time) => parts[k] = <<>>
    BY <1>3
  <2>5. ~Expired(r, time) => parts[k] = WriteRule(r)
    BY <1>4
  <2>6. Reads(b, WriteRule(r), later) \in Reading(V)
        /\ Reads(b, WriteRule(r), later).rules = IF Expired(r, later) THEN b.rules ELSE Append(b.rules, r)
    <3> HIDE DEF b
    <3>1. r \in PlainRules(V)
      BY <2>1 DEF R
    <3> HIDE DEF r
    <3>2. QED
      BY <2>2, <3>1, RuleReadBack
  <2> HIDE DEF r, u, b
  <2>7. CASE Expired(r, time)
    <3>1. entries \o parts[k] = entries
      BY <2>4, <2>7
    <3>2. a[1..k] = u
      BY <2>1, <2>7 DEF Kept
    <3>3. QED
      BY <2>2, <3>1, <3>2 DEF b
  <2>8. CASE ~Expired(r, time)
    <3>1. a[1..k] = Append(u, r)
      BY <2>1, <2>8 DEF Kept
    <3>2. InUse(Append(u, r), later) = Kept(InUse(u, later), r, later)
      BY <2>1, OneMoreInUse
    <3>3. ReadOf(entries \o parts[k]) = Reads(b, WriteRule(r), later)
      BY <2>3, <2>5, <2>8
    <3>4. QED
      BY <2>2, <2>6, <3>1, <3>2, <3>3 DEF Kept
  <2>9. QED
    BY <2>7, <2>8
<1> HIDE DEF Same
<1>13. CASE n = 0
  <2>1. f = <<>>
    BY <1>1, <1>3, <1>5, <1>13, Flattening
  <2>2. QED
    BY <1>6, <1>10, <1>11, <1>13, <2>1 DEF Same, f
<1>14. CASE n # 0
  <2>1. PICK g \in [1..n -> Seq(S)] : /\ \A k \in 1..n : g[k] = Joined(g, parts, k)
                                     /\ f = g[n]
    BY <1>1, <1>3, <1>5, <1>14, Flattening
  <2> DEFINE P == {k \in 0..n : k # 0 => Same(g[k], k)}
  <2>2. 0 \in P
    BY <1>1
  <2>3. ASSUME NEW k \in 0..(n - 1), k \in P PROVE k + 1 \in P
    <3>1. k + 1 \in 1..n /\ k + 1 - 1 = k /\ k + 1 \in 0..n
      BY <1>1
    <3>2. CASE k = 0
      <4>1. g[k + 1] = parts[k + 1] /\ parts[k + 1] \in Seq(S)
        BY <1>3, <2>1, <3>1, <3>2 DEF Joined
      <4>2. <<>> \in Seq(S) /\ <<>> \o parts[k + 1] = parts[k + 1]
        BY <4>1
      <4>3. Same(<<>> \o parts[k + 1], k + 1)
        <5>1. PICK j \in 1..n : j = k + 1 /\ j - 1 = 0
          BY <3>1, <3>2
        <5>2. Same(<<>> \o parts[j], j)
          BY <1>11, <1>12, <4>2, <5>1
        <5>3. QED
          BY <5>1, <5>2
      <4>4. QED
        BY <3>1, <4>1, <4>2, <4>3
    <3>3. CASE k # 0
      <4>1. k \in 1..n /\ g[k + 1] = g[k] \o parts[k + 1] /\ g[k] \in Seq(S)
        <5>1. k \in 1..n /\ k + 1 # 1
          BY <1>1, <3>1, <3>3
        <5>2. g[k + 1] = Joined(g, parts, k + 1)
          BY <2>1, <3>1
        <5>3. Joined(g, parts, k + 1) = g[k] \o parts[k + 1]
          BY <3>1, <5>1 DEF Joined
        <5>4. QED
          BY <2>1, <5>1, <5>2, <5>3
      <4>2. Same(g[k], k)
        BY <2>3, <3>3
      <4>3. Same(g[k] \o parts[k + 1], k + 1)
        BY <1>12, <3>1, <4>1, <4>2
      <4>4. QED
        BY <3>1, <4>1, <4>3
    <3>4. QED
      BY <3>2, <3>3
  <2>4. n \in P
    <3> HIDE DEF P
    <3>1. QED
      BY <1>1, <2>2, <2>3, UpTo
  <2>5. Same(f, n)
    BY <1>14, <2>1, <2>4
  <2>6. QED
    BY <1>6, <1>10, <2>5 DEF Same, f
<1>15. QED
  BY <1>13, <1>14

-----------------------------------------------------------------------------
(* The filter file in a session *)

Plain(array) == \E V : Given \subseteq V /\ array \in Seq(PlainRules(V))
FileOf(f, time, kept) == \E then \in Int : then <= time /\ f = vWriteFilterArray(kept, then)

LEMMA PlainInUse ==
  ASSUME NEW array, Plain(array), NEW time \in Int, NEW later \in Int, time <= later
  PROVE  Plain(InUse(array, time)) /\ InUse(InUse(array, time), later) = InUse(array, later)
<1>1. PICK V : Given \subseteq V /\ array \in Seq(PlainRules(V))
  BY DEF Plain
<1> DEFINE R == PlainRules(V)
<1>2. \A r \in R : r.time \in Int
  BY DEF PlainRules
<1> HIDE DEF R
<1>3. array \in Seq(R)
  BY <1>1 DEF R
<1>4. InUse(array, time) \in Seq(R)
  BY <1>3, RulesInUse
<1>5. InUse(InUse(array, time), later) = InUse(array, later)
  BY <1>2, <1>3, InUseLater
<1>6. QED
  BY <1>1, <1>4, <1>5 DEF Plain, R

LEMMA FileOfRead ==
  ASSUME NEW kept, Plain(kept), NEW time \in Int, NEW f, FileOf(f, time, kept)
  PROVE  ReadFilters(f, time).rules = InUse(kept, time)
<1>1. PICK V : Given \subseteq V /\ kept \in Seq(PlainRules(V))
  BY DEF Plain
<1>2. PICK then \in Int : then <= time /\ f = vWriteFilterArray(kept, then)
  BY DEF FileOf
<1>3. ReadFilters(f, time).rules = InUse(InUse(kept, then), time)
  BY <1>1, <1>2, WrittenReadBack
<1>4. QED
  BY <1>2, <1>3, PlainInUse

LEMMA PlainMore ==
  ASSUME NEW array, Plain(array), NEW rule, Plain(<<rule>>)
  PROVE  Plain(Append(array, rule))
<1>1. PICK V : Given \subseteq V /\ array \in Seq(PlainRules(V))
  BY DEF Plain
<1>2. PICK W : Given \subseteq W /\ <<rule>> \in Seq(PlainRules(W))
  BY DEF Plain
<1> DEFINE S == PlainRules(V \cup W)
<1>3. PlainRules(V) \subseteq S /\ PlainRules(W) \subseteq S
  <2>1. FilterRules(V) \subseteq FilterRules(V \cup W) /\ FilterRules(W) \subseteq FilterRules(V \cup W)
    BY WiderRules
  <2>2. QED
    BY <2>1 DEF PlainRules
<1> HIDE DEF S
<1>4. rule \in S
  <2>1. rule \in PlainRules(W)
    BY <1>2
  <2>2. QED
    BY <1>3, <2>1
<1>5. array \in Seq(S)
  BY <1>1, <1>3
<1>6. Append(array, rule) \in Seq(S)
  BY <1>4, <1>5
<1>7. QED
  BY <1>1, <1>6 DEF Plain, S

\* What makes the rule asked for plain.
PlainAsked(r) ==
  /\ Asked(r) /\ r.score \in Scores \ {0}
  /\ ~(r.type = FILTER_KILL /\ r.score > 0) /\ ~(r.type = FILTER_SELECT /\ r.score < 0)

LEMMA PlainMade ==
  ASSUME NEW r, PlainAsked(r), NEW name, NEW art, NEW time \in Nat
  PROVE  Plain(<<NewRule(r, name, art, time)>>)
<1> DEFINE c == Criteria(r, art)
           rule == NewRule(r, name, art, time)
           ref == IF c.msgid = None THEN "msgid" ELSE IF r.text # None THEN r.kind ELSE r.fullref
           scope == IF r.scope = {} THEN {name} ELSE r.scope
           empty == vSetFilter(scope)
           days == CASE r.expire = 1 -> FilterDays [] r.expire = 2 -> 2 * FilterDays
                     [] r.expire = 3 -> 4 * FilterDays [] OTHER -> 0
           end == IF days = 0 THEN 0 ELSE time + days
<1>1. RulesOK(<<rule>>)
  BY RuleMade DEF PlainAsked
<1>2. PICK V : Given \subseteq V /\ <<rule>> \in Seq(FilterRules(V))
  BY <1>1 DEF RulesOK
<1>3. rule \in FilterRules(V)
  BY <1>2
<1>4. rule = [empty EXCEPT !.type = r.type, !.icase = r.icase, !.score = r.score, !.lines = r.lines,
                           !.subj = c.subj, !.from = c.from, !.msgid = c.msgid, !.fullref = ref,
                           !.time = end]
  BY Zenon DEF NewRule
<1>5. end \in Int
  <2>1. days \in Int
    BY FilterAssumption
  <2> HIDE DEF days
  <2>2. QED
    BY <2>1
<1>6. /\ DOMAIN empty = {"type", "scope", "icase", "fullref", "subj", "from", "msgid", "lines", "gnksa",
                         "score", "xref", "xref_max", "xref_scores", "time"}
      /\ empty.xref_max = 0 /\ empty.xref_scores = <<>>
  BY DEF vSetFilter
<1>7. c.msgid = None => ref = "msgid"
  OBVIOUS
<1> HIDE DEF c, rule, ref, empty, end
<1>8. /\ rule.type = r.type /\ rule.score = r.score /\ rule.msgid = c.msgid /\ rule.fullref = ref
      /\ rule.time = end /\ rule.xref_max = 0 /\ rule.xref_scores = <<>>
  BY <1>4, <1>6
<1>9. rule \in PlainRules(V)
  BY <1>3, <1>5, <1>7, <1>8 DEF PlainRules, PlainAsked
<1>10. <<rule>> \in Seq(PlainRules(V))
  BY <1>9
<1>11. QED
  BY <1>2, <1>10 DEF Plain, rule

LEMMA QuickPlain ==
  /\ \A type : PlainAsked(QuickRule(type))
  /\ \A name : PlainAsked(PostedRule(name))
<1>1. /\ SCORE_KILL \in Scores \ {0} /\ SCORE_SELECT \in Scores \ {0} /\ ~(SCORE_KILL > 0)
      /\ ~(SCORE_SELECT < 0) /\ FILTER_KILL # FILTER_SELECT
  BY DEF Scores, SCORE_MAX, SCORE_KILL, SCORE_SELECT, FILTER_KILL, FILTER_SELECT
<1>2. ASSUME NEW type PROVE PlainAsked(QuickRule(type))
  <2>1. QuickRule(type).type = type
        /\ QuickRule(type).score = IF type = FILTER_KILL THEN SCORE_KILL ELSE SCORE_SELECT
    BY DEF QuickRule
  <2>2. QED
    BY <1>1, <2>1, QuickAsked DEF PlainAsked
<1>3. ASSUME NEW name PROVE PlainAsked(PostedRule(name))
  <2>1. PostedRule(name).type = FILTER_SELECT /\ PostedRule(name).score = SCORE_SELECT
    BY <1>1 DEF PostedRule, QuickRule
  <2>2. QED
    BY <1>1, <2>1, QuickAsked DEF PlainAsked
<1>4. QED
  BY <1>2, <1>3

LEMMA MenuPlain == ASSUME NEW type, NEW m \in Answers, NEW name PROVE PlainAsked(MenuRule(type, m, name))
<1> DEFINE n == IF m.score <= 0 THEN SCORE_DEFAULT ELSE FilterMin(m.score, SCORE_MAX)
<1>1. n \in 1..SCORE_MAX
  <2>1. m.score \in Int
    BY FilterAssumption
  <2>2. CASE m.score <= 0
    <3>1. n = SCORE_DEFAULT
      BY <2>2
    <3> HIDE DEF n
    <3>2. QED
      BY <3>1 DEF SCORE_DEFAULT, SCORE_MAX
  <2>3. CASE ~(m.score <= 0)
    <3> DEFINE k == m.score
    <3>1. n = IF k < SCORE_MAX THEN k ELSE SCORE_MAX
      BY <2>3 DEF FilterMin
    <3>2. k \in Int /\ ~(k <= 0)
      BY <2>1, <2>3
    <3> HIDE DEF n, k
    <3>3. QED
      BY <3>1, <3>2 DEF SCORE_MAX
  <2>4. QED
    BY <2>2, <2>3
<1>2. MenuScore(type, m) = IF type = FILTER_KILL THEN -n ELSE n
  BY Zenon DEF MenuScore
<1>3. MenuRule(type, m, name).type = type /\ MenuRule(type, m, name).score = MenuScore(type, m)
  BY DEF MenuRule
<1> HIDE DEF n
<1>4. n \in Scores \ {0} /\ -n \in Scores \ {0} /\ n > 0 /\ FILTER_KILL # FILTER_SELECT
  <2>1. SCORE_MAX \in Int
    BY DEF SCORE_MAX
  <2>2. n \in Int /\ 1 <= n /\ n <= SCORE_MAX /\ n # 0 /\ -n # 0 /\ n > 0
    BY <1>1, <2>1
  <2>3. n \in Scores /\ -n \in Scores
    BY <2>1, <2>2 DEF Scores
  <2>4. QED
    BY <2>2, <2>3 DEF FILTER_KILL, FILTER_SELECT
<1>5. -n < 0
  BY <1>1 DEF SCORE_MAX
<1>6. QED
  BY <1>1, <1>2, <1>4, <1>3, <1>5, MenuAsked DEF PlainAsked

\* How the editor leaves the file: as the program would write it, with plain
\* rules.  A score of 0, or a limit of crossposts with scores of its own, is
\* not read as it was written, and of such files less holds.
AsWritten(f) == \E kept : Plain(kept) /\ f = vWriteFilterArray(kept, 0)

\* The rules and the file could have been made from each other.
FileInv ==
  /\ now \in Nat /\ Plain(rules)
  /\ \E kept : /\ Plain(kept) /\ FileOf(file, now, kept)
               /\ ~stale => InUse(kept, now) = InUse(rules, now)

LEMMA FileStarts == FilterInit => FileInv
<1> SUFFICES ASSUME FilterInit PROVE FileInv
  OBVIOUS
<1>1. rules = <<>> /\ file = <<>> /\ now \in Nat
  BY FilterAssumption DEF FilterInit
<1>2. Plain(<<>>)
  <2>1. <<>> \in Seq(PlainRules(Given))
    OBVIOUS
  <2>2. QED
    BY <2>1 DEF Plain
<1>3. vWriteFilterArray(<<>>, 0) = <<>>
  <2> DEFINE parts == [i \in DOMAIN <<>> |-> IF Expired(<<>>[i], 0) THEN <<>> ELSE WriteRule(<<>>[i])]
  <2>1. parts \in [1..0 -> Seq({})] /\ 0 \in Nat
    OBVIOUS
  <2>2. vWriteFilterArray(<<>>, 0) = FlattenSeq(parts)
    BY Zenon DEF vWriteFilterArray
  <2> HIDE DEF parts
  <2>3. QED
    BY <2>1, <2>2, Flattening
<1>4. FileOf(<<>>, now, <<>>)
  BY <1>1, <1>3 DEF FileOf
<1>5. QED
  BY <1>1, <1>2, <1>4 DEF FileInv

LEMMA FileReadAnew ==
  ASSUME now \in Nat, now' = now, NEW f, NEW kept, Plain(kept), FileOf(f, now, kept), ReadFile(f)
  PROVE  FileInv'
<1> DEFINE st == ReadFilters(f, now)
           used == InUse(kept, now)
<1>1. st.rules = used
  BY FileOfRead
<1>2. Plain(used) /\ InUse(used, now) = InUse(kept, now)
  BY PlainInUse
<1>3. rules' = used /\ file' = IF st.expired THEN vWriteFilterArray(used, now) ELSE f
  <2>1. rules' = st.rules /\ file' = IF st.expired THEN vWriteFilterArray(st.rules, now) ELSE f
    BY Zenon DEF ReadFile
  <2>2. QED
    BY <1>1, <2>1
<1>4. FileOf(vWriteFilterArray(used, now), now, used)
  BY DEF FileOf
<1> HIDE DEF st, used
<1>5. CASE file' = f
  <2>1. InUse(kept, now) = InUse(rules', now)
    BY <1>2, <1>3
  <2>2. QED
    BY <1>2, <1>3, <1>5, <2>1 DEF FileInv
<1>6. CASE file' = vWriteFilterArray(used, now)
  BY <1>2, <1>3, <1>4, <1>6 DEF FileInv
<1>7. QED
  BY <1>3, <1>5, <1>6

LEMMA FileGrows ==
  ASSUME FileInv, now' = now, NEW r, PlainAsked(r), NEW art, NEW name, AddFilterRule(r, art, name)
  PROVE  FileInv'
<1> DEFINE array == Append(rules, NewRule(r, name, art, now))
<1>1. now \in Nat /\ Plain(array)
  <2>1. now \in Nat /\ Plain(rules)
    BY DEF FileInv
  <2>2. QED
    BY <2>1, PlainMade, PlainMore
<1>2. FileOf(vWriteFilterArray(array, now), now, array)
  BY <1>1 DEF FileOf
<1>3. CASE Filtered(r)
  <2>1. rules' = array /\ file' = vWriteFilterArray(array, now)
    BY <1>3 DEF AddFilterRule
  <2> HIDE DEF array
  <2>2. QED
    BY <1>1, <1>2, <2>1 DEF FileInv
<1>4. CASE ~Filtered(r)
  <2>1. rules' = rules /\ file' = file /\ stale' = stale
    BY <1>4 DEF AddFilterRule
  <2>2. QED
    BY <2>1 DEF FileInv
<1>5. QED
  BY <1>3, <1>4

LEMMA FileEdited ==
  ASSUME FileInv, NEW f, AsWritten(f), NEW type, NEW a, NEW m \in Answers, MenuEdit(type, a, m, f)
  PROVE  FileInv'
<1> DEFINE r == MenuRule(type, m, group)
           array == Append(rules, NewRule(r, group, Art[a], now))
<1>1. now \in Nat /\ now' = now /\ Plain(rules)
  BY DEF FileInv, MenuEdit
<1>2. PICK kept : Plain(kept) /\ f = vWriteFilterArray(kept, 0)
  BY DEF AsWritten
<1>3. FileOf(f, now, kept)
  BY <1>1, <1>2 DEF FileOf
<1>4. CASE ReadFile(f)
  BY <1>1, <1>2, <1>3, <1>4, FileReadAnew
<1>5. CASE rules' = array /\ file' = f /\ stale' = TRUE
  <2>1. Plain(array)
    BY <1>1, MenuPlain, PlainMade, PlainMore
  <2> HIDE DEF array
  <2>2. QED
    BY <1>1, <1>2, <1>3, <1>5, <2>1 DEF FileInv
<1>6. QED
  <2> HIDE DEF array
  <2>1. ReadFile(f) \/ (rules' = array /\ file' = f /\ stale' = TRUE)
    BY DEF MenuEdit, array
  <2>2. QED
    BY <1>4, <1>5, <2>1

LEMMA FileLater == ASSUME FileInv, Tick PROVE FileInv'
<1>1. now \in Nat /\ now' = now + Day /\ rules' = rules /\ file' = file /\ stale' = stale
  BY DEF FileInv, Tick
<1>2. PICK kept : /\ Plain(rules) /\ Plain(kept) /\ FileOf(file, now, kept)
                  /\ ~stale => InUse(kept, now) = InUse(rules, now)
  BY DEF FileInv
<1>3. now' \in Nat /\ now <= now' /\ now \in Int /\ now' \in Int
  BY <1>1, FilterAssumption
<1>4. FileOf(file, now', kept)
  BY <1>2, <1>3 DEF FileOf
<1>5. /\ InUse(InUse(kept, now), now') = InUse(kept, now')
      /\ InUse(InUse(rules, now), now') = InUse(rules, now')
  BY <1>2, <1>3, PlainInUse
<1>6. ~stale => InUse(kept, now') = InUse(rules, now')
  BY <1>2, <1>5
<1>7. QED
  BY <1>1, <1>2, <1>3, <1>4, <1>6 DEF FileInv

LEMMA FileSteps ==
  ASSUME \A f \in HandFiles : AsWritten(f), FileInv, [FilterNext]_filter_vars PROVE FileInv'
<1>1. CASE UNCHANGED <<rules, file, stale, now>>
  BY <1>1 DEF FileInv
<1>2. CASE Start
  <2>1. now \in Nat /\ now' = now /\ ReadFile(file)
    BY <1>2 DEF FileInv, Start
  <2>2. PICK kept : Plain(kept) /\ FileOf(file, now, kept)
    BY DEF FileInv
  <2>3. QED
    BY <2>1, <2>2, FileReadAnew
<1>3. CASE Tick
  BY <1>3, FileLater
<1>4. ASSUME NEW type, NEW a, QuickFilter(type, a) PROVE FileInv'
  BY <1>4, QuickPlain, FileGrows DEF QuickFilter
<1>5. ASSUME NEW type, NEW a, NEW m \in Answers, MenuSave(type, a, m) PROVE FileInv'
  BY <1>5, MenuPlain, FileGrows DEF MenuSave
<1>6. ASSUME NEW type, NEW a, NEW m \in Answers, NEW f \in HandFiles, MenuEdit(type, a, m, f) PROVE FileInv'
  BY <1>6, FileEdited
<1>7. ASSUME NEW subject, Posted(subject) PROVE FileInv'
  BY <1>7, QuickPlain, FileGrows DEF Posted
<1>8. ASSUME NEW a, MarkArticleRead(a) \/ MarkArticleUnread(a) PROVE FileInv'
  BY <1>1, <1>8 DEF MarkArticleRead, MarkArticleUnread
<1>9. ASSUME NEW name, Enter(name) PROVE FileInv'
  BY <1>1, <1>9 DEF Enter
<1>10. QED
  BY <1>1, <1>2, <1>3, <1>4, <1>5, <1>6, <1>7, <1>8, <1>9 DEF FilterNext, filter_vars

\* The filter file holds the rules in use (vWriteFilterArray, read_filter_file):
\* whatever rules are added and whenever, what a later session reads from it
\* is what this one filters with, less what has expired; the editor may take
\* rules out of the file and put others in, as they would be written.
THEOREM FileReadsBack ==
  ASSUME \A f \in HandFiles : AsWritten(f) PROVE FilterSpec => []FileIsRules
<1>1. FilterInit => FileInv
  BY FileStarts
<1>2. FileInv /\ [FilterNext]_filter_vars => FileInv'
  BY FileSteps
<1>3. FileInv => FileIsRules
  <2> SUFFICES ASSUME FileInv, ~stale PROVE ReadFilters(file, now).rules = InUse(rules, now)
    BY DEF FileIsRules
  <2>1. PICK kept : Plain(kept) /\ FileOf(file, now, kept) /\ InUse(kept, now) = InUse(rules, now)
    BY DEF FileInv
  <2>2. now \in Int
    BY DEF FileInv
  <2>3. QED
    BY <2>1, <2>2, FileOfRead
<1>4. QED
  BY <1>1, <1>2, <1>3, PTL DEF FilterSpec
=============================================================================
