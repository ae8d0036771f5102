------------------------------ MODULE FoldProofs ------------------------------
(***************************************************************************)
(* Lemmas about the folds in which the models write the program's loops:   *)
(* FoldLeft of the community modules is what its steps make of the start,  *)
(* and has what they keep.  The step is a function here, so that each loop *)
(* can be proved about by itself.                                          *)
(***************************************************************************)
EXTENDS Integers, SequencesExt, FiniteSetsExt, WellFoundedInduction, TLAPS

-----------------------------------------------------------------------------
(* Counting up, and folding a sequence *)

\* What holds at 0, and at k + 1 if it holds at k, holds at n.
LEMMA UpTo ==
  ASSUME NEW n \in Nat, NEW P, 0 \in P,
         \A k \in 0..(n - 1) : k \in P => k + 1 \in P
  PROVE  n \in P
<1> DEFINE R == {x \in Nat \X Nat : x[1] < x[2]}
           D == {k \in 0..n : k \notin P}
<1> SUFFICES ASSUME n \notin P PROVE FALSE
  OBVIOUS
<1>1. IsWellFoundedOn(R, Nat)
  BY NatLessThanWellFounded DEF OpToRel
<1>2. D \subseteq Nat /\ D # {}
  OBVIOUS
<1>3. PICK d \in D : \A y \in D : <<y, d>> \notin R
  BY <1>1, <1>2, WFMin, Zenon
<1>4. d \in 1..n /\ d - 1 \in 0..(n - 1)
  OBVIOUS
<1>5. <<d - 1, d>> \in R
  BY <1>4
<1>6. d - 1 \in P
  BY <1>3, <1>4, <1>5
<1>7. QED
  BY <1>4, <1>6

\* The element that FoldLeft takes next is the highest index.
LEMMA MaxIn ==
  ASSUME NEW n \in Nat, NEW s \in SUBSET (1..n), s # {}
  PROVE  Max(s) \in s /\ \A y \in s : y <= Max(s)
<1> DEFINE R == {x \in Nat \X Nat : x[1] < x[2]}
           D == {n - i : i \in s}
<1>1. IsWellFoundedOn(R, Nat)
  BY NatLessThanWellFounded DEF OpToRel
<1>2. D \subseteq Nat /\ D # {}
  <2>1. ASSUME NEW i \in s PROVE n - i \in Nat
    BY <2>1
  <2>2. QED
    BY <2>1
<1>3. PICK d \in D : \A y \in D : <<y, d>> \notin R
  BY <1>1, <1>2, WFMin, Zenon
<1>4. PICK top \in s : d = n - top
  OBVIOUS
<1>5. ASSUME NEW i \in s PROVE top >= i
  <2>1. n - i \in D /\ n - i \in Nat /\ d \in Nat
    BY <1>2
  <2>2. ~(n - i < d)
    BY <1>3, <2>1
  <2>3. QED
    BY <1>4, <2>2
<1>6. Max(s) \in s /\ \A y \in s : Max(s) >= y
  BY <1>5 DEF Max
<1>7. QED
  BY <1>6

LEMMA MaxUpTo ==
  ASSUME NEW n \in Nat, NEW k \in 1..n
  PROVE  Max(1..k) = k /\ (1..k) \ {k} = 1..(k - 1)
<1>1. 1..k \in SUBSET (1..n) /\ 1..k # {}
  OBVIOUS
<1>2. Max(1..k) \in 1..k /\ \A y \in 1..k : y <= Max(1..k)
  BY <1>1, MaxIn
<1>3. QED
  BY <1>2

\* What the definition of FoldLeft asks for, of the indices s of a sequence.
Made(it, begun, step, s) == IF s = {} THEN begun ELSE step[<<it[s \ {Max(s)}], Max(s)>>]
Folds(n, I, begun, step) ==
  {it \in [SUBSET (1..n) -> I] : \A s \in SUBSET (1..n) : it[s] = Made(it, begun, step, s)}

\* There is such a function, if the steps stay in a set.
LEMMA FoldMade ==
  ASSUME NEW n \in Nat, NEW I, NEW begun \in I, NEW step \in [I \X (1..n) -> I]
  PROVE  Folds(n, I, begun, step) # {}
<1> DEFINE Good(k) == \E it \in [SUBSET (1..k) -> I] :
                        \A s \in SUBSET (1..k) : it[s] = Made(it, begun, step, s)
           P == {k \in 0..n : Good(k)}
<1>1. 0 \in P
  <2> DEFINE it == [s \in SUBSET (1..0) |-> begun]
  <2>1. \A s \in SUBSET (1..0) : s = {}
    OBVIOUS
  <2>2. \A s \in SUBSET (1..0) : it[s] = Made(it, begun, step, s)
    BY <2>1 DEF Made
  <2>3. it \in [SUBSET (1..0) -> I]
    OBVIOUS
  <2> HIDE DEF it
  <2>4. Good(0)
    BY <2>2, <2>3
  <2> HIDE DEF Good
  <2>5. QED
    BY <2>4
<1>2. ASSUME NEW k \in 0..(n - 1), k \in P PROVE k + 1 \in P
  <2> DEFINE j == k + 1
  <2>1. PICK f \in [SUBSET (1..k) -> I] : \A s \in SUBSET (1..k) : f[s] = Made(f, begun, step, s)
    BY <1>2
  <2> DEFINE it == [s \in SUBSET (1..j) |-> IF j \in s THEN step[<<f[s \ {j}], j>>] ELSE f[s]]
  <2>2. j \in 1..n /\ k \in Nat
    OBVIOUS
  <2>3. ASSUME NEW s \in SUBSET (1..j) PROVE s \ {j} \in SUBSET (1..k) /\ (j \notin s => s \in SUBSET (1..k))
    BY <2>2
  <2>4. it \in [SUBSET (1..j) -> I]
    <3> SUFFICES ASSUME NEW s \in SUBSET (1..j) PROVE it[s] \in I
      OBVIOUS
    <3>1. CASE j \in s
      <4>1. f[s \ {j}] \in I
        BY <2>3
      <4>2. <<f[s \ {j}], j>> \in I \X (1..n)
        BY <2>2, <4>1
      <4>4. step[<<f[s \ {j}], j>>] \in I
        BY <4>2
      <4>5. QED
        BY <3>1, <4>4
    <3>2. CASE j \notin s
      BY <2>3, <3>2
    <3>3. QED
      BY <3>1, <3>2
  <2>5. ASSUME NEW s \in SUBSET (1..j) PROVE it[s] = Made(it, begun, step, s)
    <3>1. s \in SUBSET (1..n)
      BY <2>2
    <3>2. CASE j \in s
      <4>1. Max(s) \in s /\ j <= Max(s)
        BY <3>1, <3>2, MaxIn
      <4>6. Max(s) \in 1..j
        BY <4>1
      <4>2. Max(s) = j
        BY <2>2, <4>1, <4>6
      <4>3. j \notin s \ {j} /\ s \ {j} \in SUBSET (1..j)
        OBVIOUS
      <4>4. it[s \ {j}] = f[s \ {j}]
        BY <4>3
      <4>5. QED
        BY <3>2, <4>2, <4>4 DEF Made
    <3>3. CASE j \notin s
      <4>1. s \in SUBSET (1..k)
        BY <2>3, <3>3
      <4>2. it[s] = f[s] /\ f[s] = Made(f, begun, step, s)
        BY <2>1, <3>3, <4>1
      <4>3. s \ {Max(s)} \in SUBSET (1..j) /\ j \notin s \ {Max(s)}
        BY <3>3
      <4>4. it[s \ {Max(s)}] = f[s \ {Max(s)}]
        BY <4>3
      <4>5. QED
        BY <4>2, <4>4 DEF Made
    <3>4. QED
      BY <3>2, <3>3
  <2> HIDE DEF it
  <2>6. Good(j)
    BY <2>4, <2>5
  <2> HIDE DEF Good
  <2>7. QED
    BY <2>2, <2>6
<1>3. n \in P
  <2> HIDE DEF P
  <2>1. QED
    BY <1>1, <1>2, UpTo
<1>4. QED
  BY <1>3 DEF Folds

\* A fold gets from one set of values to the next with each step.
LEMMA FoldReaches ==
  ASSUME NEW n \in Nat, NEW J, NEW it, it[{}] \in J[0],
         \A k \in 1..n : it[(1..k) \ {Max(1..k)}] \in J[k - 1] => it[1..k] \in J[k]
  PROVE  it[1..n] \in J[n]
<1> DEFINE P == {k \in 0..n : it[1..k] \in J[k]}
<1>1. 0 \in P
  <2>1. 1..0 = {}
    OBVIOUS
  <2>2. QED
    BY <2>1
<1>2. ASSUME NEW k \in 0..(n - 1), k \in P PROVE k + 1 \in P
  <2>1. PICK j \in 1..n : j = k + 1 /\ j - 1 = k
    OBVIOUS
  <2>2. Max(1..j) = j /\ (1..j) \ {j} = 1..(j - 1)
    BY MaxUpTo
  <2>3. it[1..j] \in J[j]
    BY <1>2, <2>1, <2>2
  <2>4. QED
    BY <2>1, <2>3
<1>3. n \in P
  <2> HIDE DEF P
  <2>1. QED
    BY <1>1, <1>2, UpTo
<1>4. QED
  BY <1>3

\* What the steps of a fold keep, its result has.
LEMMA FoldKeeps ==
  ASSUME NEW n \in Nat, NEW I, NEW it, it[{}] \in I,
         \A s \in SUBSET (1..n) : s # {} /\ it[s \ {Max(s)}] \in I => it[s] \in I
  PROVE  it[1..n] \in I
<1> DEFINE P == {k \in 0..n : it[1..k] \in I}
<1>1. 0 \in P
  <2>1. 1..0 = {}
    OBVIOUS
  <2>2. QED
    BY <2>1
<1>2. ASSUME NEW k \in 0..(n - 1), k \in P PROVE k + 1 \in P
  <2> DEFINE s == 1..(k + 1)
  <2>1. k + 1 \in 1..n /\ k \in Nat /\ k + 1 - 1 = k
    OBVIOUS
  <2>4. s \in SUBSET (1..n) /\ 1 \in s
    BY <2>1
  <2>2. s \ {Max(s)} = 1..k
    BY <2>1, MaxUpTo
  <2>3. s # {} /\ it[s \ {Max(s)}] \in I
    BY <1>2, <2>2, <2>4
  <2>5. it[s] \in I
    BY <2>3, <2>4
  <2>6. QED
    BY <2>1, <2>5
<1>3. n \in P
  <2> HIDE DEF P
  <2>1. QED
    BY <1>1, <1>2, UpTo
<1>4. QED
  BY <1>3
=============================================================================
