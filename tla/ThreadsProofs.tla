----------------------------- MODULE ThreadsProofs -----------------------------
(***************************************************************************)
(* The message-ids of a group are a forest, for any number of articles and *)
(* any headers: neither parent nor sibling pointers run in a circle, and   *)
(* the followups of a message are the chain that starts at its child.      *)
(***************************************************************************)
EXTENDS Threads, WellFoundedInduction, TLAPS

USE DEF MSGID_REF, REF_REF

\* What Forest says of a tree, part by part.
Linked(t) ==
  \A p, m \in MsgIds :
    /\ t.parent[m] = p => InChain(t, p, m)
    /\ t.child[p] = m => t.parent[m] = p
    /\ t.sibling[m] = p => t.parent[p] = t.parent[m] /\ t.parent[p] # None
    /\ \A n \in MsgIds : t.sibling[m] = p /\ t.sibling[n] = p => m = n
    /\ t.child[p] = m => \A n \in MsgIds : t.sibling[n] # m

\* A message-id that is not in the cache is nobody's parent and has none.
Closed(t) ==
  \A m \in MsgIds :
    /\ t.parent[m] \in t.known \cup {None}
    /\ m \notin t.known => t.parent[m] = None

Sound(t) ==
  /\ t \in Trees
  /\ Grounded(t.parent) /\ Grounded(t.sibling)
  /\ Linked(t)
  /\ Closed(t)

\* The headers are message-ids, and the node of the last reference is in the
\* cache.
Headers ==
  /\ id \in [0..(Top - 1) -> MsgIds]
  /\ refs \in [0..(Top - 1) -> Seq(MsgIds)]
  /\ at \in Nat
  /\ prev \in tree.known \cup {None}

TreeInv == Sound(tree) /\ Headers

-----------------------------------------------------------------------------
\* A set of numbers up to a bound has a highest one.
LEMMA TopOf ==
  ASSUME NEW N \in Nat, NEW S, S \subseteq 1..N, S # {}
  PROVE  \E n \in S : \A i \in S : i <= n
<1> DEFINE R == {x \in Nat \X Nat : x[1] < x[2]}
           D == {N - i : i \in S}
<1>1. IsWellFoundedOn(R, Nat)
  BY NatLessThanWellFounded DEF OpToRel
<1>2. D \subseteq Nat /\ D # {}
  <2>1. PICK i \in S : TRUE
    OBVIOUS
  <2>2. N - i \in D
    OBVIOUS
  <2>3. ASSUME NEW j \in S PROVE N - j \in Nat
    BY <2>3
  <2>4. QED
    BY <2>2, <2>3
<1>3. PICK d \in D : \A y \in D : <<y, d>> \notin R
  BY <1>1, <1>2, WFMin, Zenon
<1>4. PICK n \in S : d = N - n
  OBVIOUS
<1>5. ASSUME NEW i \in S PROVE i <= n
  <2>1. N - i \in D /\ N - i \in Nat /\ d \in Nat
    BY <1>2
  <2>2. <<N - i, d>> \notin R
    BY <1>3, <2>1
  <2>3. ~(N - i < d)
    BY <2>1, <2>2
  <2>4. QED
    BY <1>4, <2>3
<1>6. QED
  BY <1>5

(* Linking a message below another *)

\* m may become a followup of p: it has no parent, and p is not below it.
MayLink(t, m, p) ==
  /\ m \in t.known /\ p \in t.known
  /\ t.parent[m] = None
  /\ ~InPath(t, p, m)

\* The tree with m below p and nothing said of siblings.
Adopted(t, m, p) == [t EXCEPT !.parent[m] = p]

\* A message without a parent is in nobody's chain of followups.
LEMMA Alone ==
  ASSUME NEW t, Sound(t), NEW m \in MsgIds, t.parent[m] = None
  PROVE  /\ t.sibling[m] = None
         /\ \A n \in MsgIds : t.sibling[n] # m /\ t.child[n] # m
BY RefTreeAssumption DEF Sound, Linked, Trees, Pointers

\* A new parent above a message without one closes no circle, when the path
\* upwards from the new parent does not meet the message.
LEMMA NoCircle ==
  ASSUME NEW t, Sound(t), NEW m \in MsgIds, NEW p \in MsgIds,
         ~InPath(t, p, m)
  PROVE  Grounded([t.parent EXCEPT ![m] = p])
<1> DEFINE f == [t.parent EXCEPT ![m] = p]
<1>1. t.parent \in [MsgIds -> MsgIds \cup {None}] /\ None \notin MsgIds
  BY RefTreeAssumption DEF Sound, Trees, Pointers
<1>2. PICK U \in SUBSET MsgIds :
        /\ p \in U /\ m \notin U
        /\ \A n \in U : t.parent[n] \in U \cup {None}
  BY DEF InPath
<1>3. ASSUME NEW S \in SUBSET MsgIds, S # {} PROVE \E n \in S : f[n] \notin S
  <2>1. CASE S \cap U # {}
    <3>1. PICK n \in S \cap U : t.parent[n] \notin S \cap U
      BY <2>1 DEF Sound, Grounded
    <3>2. t.parent[n] \notin S /\ n # m
      BY <1>1, <1>2, <3>1
    <3>3. QED
      BY <1>1, <3>1, <3>2
  <2>2. CASE S \cap U = {} /\ m \in S
    BY <1>1, <1>2, <2>2
  <2>3. CASE S \cap U = {} /\ m \notin S
    <3>1. PICK n \in S : t.parent[n] \notin S
      BY <1>3 DEF Sound, Grounded
    <3>2. QED
      BY <1>1, <2>3, <3>1
  <2>4. QED
    BY <2>1, <2>2, <2>3
<1>4. QED
  BY <1>3 DEF Grounded

\* The three ways to enter m among the followups of p.
LEMMA FirstSound ==
  ASSUME NEW t, Sound(t), NEW m \in MsgIds, NEW p \in MsgIds,
         MayLink(t, m, p), t.child[p] = None
  PROVE  Sound(LinkFirst(Adopted(t, m, p), m, p))
<1> DEFINE u == LinkFirst(Adopted(t, m, p), m, p)
<1>1. /\ t \in Trees /\ u \in Trees /\ None \notin MsgIds
      /\ u.known = t.known /\ u.sibling = t.sibling
      /\ u.parent = [t.parent EXCEPT ![m] = p]
      /\ u.child = [t.child EXCEPT ![p] = m]
  BY RefTreeAssumption DEF Sound, Trees, Pointers, LinkFirst, Adopted
<1>2. t.parent \in [MsgIds -> MsgIds \cup {None}] /\ t.child \in [MsgIds -> MsgIds \cup {None}]
      /\ t.sibling \in [MsgIds -> MsgIds \cup {None}]
  BY <1>1 DEF Trees, Pointers
<1>3. /\ t.sibling[m] = None
      /\ \A n \in MsgIds : t.sibling[n] # m /\ t.child[n] # m
  BY Alone DEF MayLink
<1>4. Grounded(u.parent) /\ Grounded(u.sibling)
  BY <1>1, NoCircle DEF MayLink, Sound
<1>5. \A k \in MsgIds : t.parent[k] # p
  <2>1. SUFFICES ASSUME NEW k \in MsgIds, t.parent[k] = p PROVE FALSE
    OBVIOUS
  <2>2. InChain(t, p, k)
    BY <2>1 DEF Sound, Linked
  <2>3. ASSUME NEW S \in SUBSET MsgIds, S = {} PROVE k \in S
    BY <2>2, <2>3 DEF InChain
  <2>4. {} \in SUBSET MsgIds /\ k \notin {}
    OBVIOUS
  <2>5. QED
    BY <2>3, <2>4, Zenon
<1>6. ASSUME NEW q \in MsgIds, NEW k \in MsgIds, u.parent[k] = q PROVE InChain(u, q, k)
  <2>1. SUFFICES ASSUME NEW S \in SUBSET MsgIds, u.child[q] \in S \cup {None},
                        \A n \in S : u.sibling[n] \in S \cup {None}
                 PROVE  k \in S
    BY DEF InChain
  <2>2. CASE k = m
    BY <1>1, <1>2, <1>6, <2>1, <2>2
  <2>3. CASE k # m
    <3>1. t.parent[k] = q /\ q # p
      BY <1>1, <1>2, <1>5, <1>6, <2>3
    <3>2. InChain(t, q, k) /\ t.child[q] \in S \cup {None}
      BY <3>1, <1>1, <1>2, <2>1 DEF Sound, Linked
    <3>3. QED
      BY <3>2, <2>1, <1>1 DEF InChain
  <2>4. QED
    BY <2>2, <2>3
<1>7. Linked(u)
  <2>1. SUFFICES ASSUME NEW q \in MsgIds, NEW k \in MsgIds
                 PROVE  /\ u.child[q] = k => u.parent[k] = q
                        /\ u.sibling[k] = q => u.parent[q] = u.parent[k] /\ u.parent[q] # None
                        /\ \A n \in MsgIds : u.sibling[k] = q /\ u.sibling[n] = q => k = n
                        /\ u.child[q] = k => \A n \in MsgIds : u.sibling[n] # k
    BY <1>6 DEF Linked
  <2>2. QED
    BY <1>1, <1>2, <1>3 DEF Sound, Linked
<1>8. Closed(u)
  BY <1>1, <1>2 DEF Sound, Closed, MayLink
<1>9. QED
  BY <1>1, <1>4, <1>7, <1>8 DEF Sound

LEMMA AtStartSound ==
  ASSUME NEW t, Sound(t), NEW m \in MsgIds, NEW p \in MsgIds,
         MayLink(t, m, p), t.child[p] # None
  PROVE  Sound(LinkAtStart(Adopted(t, m, p), m, p))
<1> DEFINE u == LinkAtStart(Adopted(t, m, p), m, p)
           c == t.child[p]
<1>1. /\ t \in Trees /\ u \in Trees /\ None \notin MsgIds
      /\ u.known = t.known /\ u.sibling = [t.sibling EXCEPT ![m] = c]
      /\ u.parent = [t.parent EXCEPT ![m] = p]
      /\ u.child = [t.child EXCEPT ![p] = m]
  BY RefTreeAssumption DEF Sound, Trees, Pointers, LinkAtStart, Adopted
<1>2. /\ t.parent \in [MsgIds -> MsgIds \cup {None}]
      /\ t.child \in [MsgIds -> MsgIds \cup {None}]
      /\ t.sibling \in [MsgIds -> MsgIds \cup {None}]
      /\ c \in MsgIds
  BY <1>1 DEF Trees, Pointers
<1>3. /\ t.sibling[m] = None /\ c # m /\ t.parent[c] = p
      /\ \A n \in MsgIds : t.sibling[n] # m /\ t.child[n] # m
  BY <1>2, Alone DEF MayLink, Sound, Linked
<1>4. Grounded(u.parent)
  BY <1>1, NoCircle DEF MayLink
<1>5. Grounded(u.sibling)
  <2>1. SUFFICES ASSUME NEW S \in SUBSET MsgIds, S # {}
                 PROVE  \E n \in S : u.sibling[n] \notin S
    BY DEF Grounded
  <2>2. CASE S = {m}
    BY <1>1, <1>2, <1>3, <2>2
  <2>3. CASE S # {m}
    <3>1. S \ {m} # {} /\ S \ {m} \in SUBSET MsgIds
      BY <2>1, <2>3
    <3>2. PICK n \in S \ {m} : t.sibling[n] \notin S \ {m}
      BY <3>1 DEF Sound, Grounded
    <3>3. u.sibling[n] = t.sibling[n] /\ t.sibling[n] # m
      BY <1>1, <1>2, <1>3, <3>2
    <3>4. QED
      BY <3>2, <3>3
  <2>4. QED
    BY <2>2, <2>3
<1>6. ASSUME NEW q \in MsgIds, NEW k \in MsgIds, u.parent[k] = q PROVE InChain(u, q, k)
  <2>1. SUFFICES ASSUME NEW S \in SUBSET MsgIds, u.child[q] \in S \cup {None},
                        \A n \in S : u.sibling[n] \in S \cup {None}
                 PROVE  k \in S
    BY DEF InChain
  <2>2. \A n \in S : t.sibling[n] \in S \cup {None}
    BY <1>1, <1>2, <1>3, <2>1
  <2>3. CASE k = m
    BY <1>1, <1>2, <1>6, <2>1, <2>3
  <2>4. CASE k # m
    <3>1. t.parent[k] = q
      BY <1>1, <1>2, <1>6, <2>4
    <3>2. t.child[q] \in S \cup {None}
      BY <1>1, <1>2, <1>3, <2>1
    <3>3. InChain(t, q, k)
      BY <3>1 DEF Sound, Linked
    <3>4. QED
      BY <2>2, <3>2, <3>3 DEF InChain
  <2>5. QED
    BY <2>3, <2>4
<1>7. Linked(u)
  <2>1. SUFFICES ASSUME NEW q \in MsgIds, NEW k \in MsgIds
                 PROVE  /\ u.child[q] = k => u.parent[k] = q
                        /\ u.sibling[k] = q => u.parent[q] = u.parent[k] /\ u.parent[q] # None
                        /\ \A n \in MsgIds : u.sibling[k] = q /\ u.sibling[n] = q => k = n
                        /\ u.child[q] = k => \A n \in MsgIds : u.sibling[n] # k
    BY <1>6 DEF Linked
  <2>2. QED
    BY <1>1, <1>2, <1>3 DEF Sound, Linked, MayLink
<1>8. Closed(u)
  BY <1>1, <1>2 DEF Sound, Closed, MayLink
<1>9. QED
  BY <1>1, <1>4, <1>5, <1>7, <1>8 DEF Sound

LEMMA AtEndSound ==
  ASSUME NEW t, Sound(t), NEW m \in MsgIds, NEW p \in MsgIds,
         MayLink(t, m, p), t.child[p] # None
  PROVE  Sound(LinkAtEnd(Adopted(t, m, p), m, p))
<1> DEFINE s == Adopted(t, m, p)
           last == CHOOSE n \in Kids(s, p) \ {m} : s.sibling[n] = None
           u == LinkAtEnd(s, m, p)
<1>1. /\ t \in Trees /\ s \in Trees /\ None \notin MsgIds
      /\ s.known = t.known /\ s.sibling = t.sibling /\ s.child = t.child
      /\ s.parent = [t.parent EXCEPT ![m] = p]
  BY RefTreeAssumption DEF Sound, Trees, Pointers, Adopted
<1>2. /\ t.parent \in [MsgIds -> MsgIds \cup {None}]
      /\ t.child \in [MsgIds -> MsgIds \cup {None}]
      /\ t.sibling \in [MsgIds -> MsgIds \cup {None}]
  BY <1>1 DEF Trees, Pointers
<1>3. /\ t.sibling[m] = None
      /\ \A n \in MsgIds : t.sibling[n] # m /\ t.child[n] # m
  BY Alone DEF MayLink
<1>4. last \in MsgIds /\ last # m /\ t.parent[last] = p /\ t.sibling[last] = None
  <2> DEFINE K == Kids(s, p) \ {m}
  <2>1. K \in SUBSET MsgIds /\ t.child[p] \in K /\ \A n \in K : t.parent[n] = p
    BY <1>1, <1>2, <1>3 DEF Kids, Sound, Linked
  <2>2. PICK n \in K : t.sibling[n] \notin K
    BY <2>1 DEF Sound, Grounded
  <2>3. t.sibling[n] = None
    <3>1. SUFFICES ASSUME t.sibling[n] \in MsgIds PROVE FALSE
      BY <1>2, <2>1
    <3>2. t.parent[t.sibling[n]] = p /\ t.sibling[n] # m
      BY <1>3, <2>1, <3>1 DEF Sound, Linked
    <3>3. QED
      BY <1>1, <1>2, <2>1, <2>2, <3>1, <3>2 DEF Kids
  <2>4. last \in K /\ s.sibling[last] = None
    BY <1>1, <2>3
  <2>5. QED
    BY <1>1, <2>1, <2>4
<1>5. /\ u \in Trees /\ u.known = t.known /\ u.child = t.child
      /\ u.parent = [t.parent EXCEPT ![m] = p]
      /\ u.sibling = [t.sibling EXCEPT ![last] = m]
  BY <1>1, <1>4 DEF Trees, Pointers, LinkAtEnd
<1> HIDE DEF last, u, s
<1>6. Grounded(u.parent)
  BY <1>5, NoCircle DEF MayLink
<1>7. Grounded(u.sibling)
  <2>1. SUFFICES ASSUME NEW S \in SUBSET MsgIds, S # {}
                 PROVE  \E n \in S : u.sibling[n] \notin S
    BY DEF Grounded
  <2>2. CASE m \in S
    BY <1>1, <1>2, <1>3, <1>4, <1>5, <2>2
  <2>3. CASE m \notin S
    <3>1. PICK n \in S : t.sibling[n] \notin S
      BY <2>1 DEF Sound, Grounded
    <3>2. u.sibling[n] \notin S
      BY <1>2, <1>5, <2>3, <3>1
    <3>3. QED
      BY <3>2
  <2>4. QED
    BY <2>2, <2>3
<1>8. ASSUME NEW q \in MsgIds, NEW k \in MsgIds, u.parent[k] = q PROVE InChain(u, q, k)
  <2>1. SUFFICES ASSUME NEW S \in SUBSET MsgIds, u.child[q] \in S \cup {None},
                        \A n \in S : u.sibling[n] \in S \cup {None}
                 PROVE  k \in S
    BY DEF InChain
  <2>2. \A n \in S : t.sibling[n] \in S \cup {None}
    BY <1>2, <1>4, <1>5, <2>1
  <2>3. t.child[q] \in S \cup {None}
    BY <1>5, <2>1
  <2>4. ASSUME NEW n \in MsgIds, t.parent[n] = q PROVE n \in S
    BY <2>2, <2>3, <2>4 DEF Sound, Linked, InChain
  <2>5. CASE k = m
    <3>1. q = p /\ last \in S
      BY <1>2, <1>4, <1>5, <1>8, <2>4, <2>5
    <3>2. u.sibling[last] = m
      BY <1>2, <1>4, <1>5
    <3>3. QED
      BY <1>1, <2>1, <2>5, <3>1, <3>2
  <2>6. CASE k # m
    BY <1>2, <1>5, <1>8, <2>4, <2>6
  <2>7. QED
    BY <2>5, <2>6
<1>9. Linked(u)
  <2>1. SUFFICES ASSUME NEW q \in MsgIds, NEW k \in MsgIds
                 PROVE  /\ u.child[q] = k => u.parent[k] = q
                        /\ u.sibling[k] = q => u.parent[q] = u.parent[k] /\ u.parent[q] # None
                        /\ \A n \in MsgIds : u.sibling[k] = q /\ u.sibling[n] = q => k = n
                        /\ u.child[q] = k => \A n \in MsgIds : u.sibling[n] # k
    BY <1>8 DEF Linked
  <2>2. QED
    BY <1>1, <1>2, <1>3, <1>4, <1>5 DEF Sound, Linked, MayLink
<1>10. Closed(u)
  BY <1>2, <1>5 DEF Sound, Closed, MayLink
<1>11. QED
  BY <1>5, <1>6, <1>7, <1>9, <1>10 DEF Sound, s, u

\* add_to_parent() keeps the forest.
LEMMA AddToParentSound ==
  ASSUME NEW t, Sound(t), NEW m \in MsgIds, NEW p \in MsgIds, MayLink(t, m, p)
  PROVE  /\ Sound(add_to_parent(t, m, p))
         /\ add_to_parent(t, m, p).known = t.known
<1> DEFINE s == Adopted(t, m, p)
<1>1. s.child = t.child /\ s.known = t.known /\ s.present = t.present
  BY DEF Adopted, Sound, Trees
<1>2. add_to_parent(t, m, p) =
        IF t.child[p] = None THEN LinkFirst(s, m, p)
        ELSE IF SortAscend /\ m \notin t.present THEN LinkAtStart(s, m, p)
        ELSE LinkAtEnd(s, m, p)
  BY <1>1 DEF add_to_parent, Adopted
<1>3. /\ LinkFirst(s, m, p).known = t.known
      /\ LinkAtStart(s, m, p).known = t.known
      /\ LinkAtEnd(s, m, p).known = t.known
  BY DEF Adopted, Sound, Trees, LinkFirst, LinkAtStart, LinkAtEnd
<1> HIDE DEF s
<1>4. QED
  BY <1>2, <1>3, FirstSound, AtStartSound, AtEndSound DEF s

-----------------------------------------------------------------------------
(* add_msgid() *)

LEMMA NewNodeSound ==
  ASSUME NEW t, Sound(t), NEW key, NEW m \in MsgIds, m \notin t.known
  PROVE  /\ Sound(NewNode(t, key, m))
         /\ NewNode(t, key, m).known = t.known \cup {m}
         /\ NewNode(t, key, m).parent = t.parent
<1> DEFINE u == NewNode(t, key, m)
<1>1. /\ u \in Trees /\ u.known = t.known \cup {m} /\ u.parent = t.parent
      /\ u.child = t.child /\ u.sibling = t.sibling
  BY DEF Sound, Trees, NewNode
<1> HIDE DEF u
<1>2. Linked(u)
  BY <1>1 DEF Sound, Linked, InChain
<1>3. Closed(u) /\ Grounded(u.parent) /\ Grounded(u.sibling)
  BY <1>1 DEF Sound, Closed
<1>4. QED
  BY <1>1, <1>2, <1>3 DEF Sound, u

\* Entering an id whose parent is known, or none, keeps the forest.
LEMMA AddMsgidSound ==
  ASSUME NEW t, Sound(t), NEW key, NEW m \in MsgIds, NEW p \in t.known \cup {None}
  PROVE  /\ Sound(add_msgid(t, key, m, p))
         /\ add_msgid(t, key, m, p).known = t.known \cup {m}
<1>1. t.known \subseteq MsgIds /\ None \notin MsgIds
  BY RefTreeAssumption DEF Sound, Trees
<1>2. CASE m \notin t.known
  <2> DEFINE s == NewNode(t, key, m)
  <2>1. Sound(s) /\ s.known = t.known \cup {m} /\ s.parent = t.parent
    BY <1>2, NewNodeSound
  <2>2. CASE p = None
    BY <1>2, <2>1, <2>2 DEF add_msgid
  <2>3. CASE p # None
    <3>1. p \in MsgIds /\ p \in t.known /\ p \in s.known /\ m \in s.known
      BY <1>1, <2>1, <2>3
    <3>2. t.parent[m] = None /\ \A n \in t.known : t.parent[n] \in t.known \cup {None}
      BY <1>1, <1>2 DEF Sound, Closed
    <3>3. ~InPath(s, p, m)
      <4>1. t.known \in SUBSET MsgIds
        BY <1>1
      <4>2. SUFFICES ASSUME InPath(s, p, m) PROVE FALSE
        OBVIOUS
      <4>3. ASSUME NEW S \in SUBSET MsgIds, S = t.known PROVE m \in S
        BY <2>1, <3>1, <3>2, <4>2, <4>3 DEF InPath
      <4>4. QED
        BY <1>2, <4>1, <4>3
    <3>4. MayLink(s, m, p)
      BY <2>1, <3>1, <3>2, <3>3 DEF MayLink
    <3>5. add_msgid(t, key, m, p) = add_to_parent(s, m, p)
      BY <1>2, <2>3 DEF add_msgid
    <3> HIDE DEF s
    <3>6. QED
      BY <2>1, <3>1, <3>4, <3>5, AddToParentSound
  <2>4. QED
    BY <2>2, <2>3
<1>3. CASE m \in t.known /\ (p = None \/ t.parent[m] # None \/ InPath(t, p, m))
  BY <1>3 DEF add_msgid
<1>4. CASE m \in t.known /\ ~(p = None \/ t.parent[m] # None \/ InPath(t, p, m))
  <2>1. MayLink(t, m, p) /\ p \in MsgIds
    BY <1>1, <1>4 DEF MayLink
  <2>2. add_msgid(t, key, m, p) = add_to_parent(t, m, p)
    BY <1>4 DEF add_msgid
  <2>3. QED
    BY <1>4, <2>1, <2>2, AddToParentSound
<1>5. QED
  BY <1>2, <1>3, <1>4

-----------------------------------------------------------------------------
(* The loops of build_references() and parse_references() *)

\* TrimSelf() leaves a sequence of message-ids, empty only where there was none.
LEMMA TrimSelfSeq ==
  ASSUME NEW r \in Seq(MsgIds), NEW m
  PROVE  /\ TrimSelf(r, m) \in Seq(MsgIds)
         /\ TrimSelf(r, m) # <<>> =>
              /\ TrimSelf(r, m)[Len(TrimSelf(r, m))] \in MsgIds
              /\ SubSeq(TrimSelf(r, m), 1, Len(TrimSelf(r, m)) - 1) \in Seq(MsgIds)
<1> DEFINE keep == {n \in 1..Len(r) : n = 1 \/ r[n] # m}
           k == CHOOSE n \in keep : \A i \in keep : i <= n
           x == TrimSelf(r, m)
<1>1. x \in Seq(MsgIds)
  <2>1. CASE r = <<>>
    BY <2>1 DEF TrimSelf
  <2>2. CASE r # <<>>
    <3>1. keep \subseteq 1..Len(r) /\ 1 \in keep /\ Len(r) \in Nat
      BY <2>2
    <3>2. \E n \in keep : \A i \in keep : i <= n
      BY <3>1, TopOf
    <3>3. k \in 1..Len(r)
      BY <3>1, <3>2
    <3>4. x = SubSeq(r, 1, k)
      BY <2>2 DEF TrimSelf
    <3> HIDE DEF k, x
    <3>5. QED
      BY <3>3, <3>4
  <2>3. QED
    BY <2>1, <2>2
<1> HIDE DEF x
<1>2. x # <<>> => x[Len(x)] \in MsgIds /\ SubSeq(x, 1, Len(x) - 1) \in Seq(MsgIds)
  BY <1>1
<1>3. QED
  BY <1>1, <1>2 DEF x

LEMMA InitSound == Init => TreeInv
<1> SUFFICES ASSUME Init PROVE TreeInv
  OBVIOUS
<1>1. tree \in Trees
  BY DEF Init, EmptyTree, Trees, Pointers
<1>2. /\ tree.known = {} /\ tree.parent = [m \in MsgIds |-> None]
      /\ tree.child = [m \in MsgIds |-> None] /\ tree.sibling = [m \in MsgIds |-> None]
  BY DEF Init, EmptyTree
<1>3. None \notin MsgIds
  BY RefTreeAssumption
<1>4. Grounded(tree.parent) /\ Grounded(tree.sibling)
  <2>1. ASSUME NEW S \in SUBSET MsgIds, S # {} PROVE \E m \in S : [k \in MsgIds |-> None][m] \notin S
    BY <1>3, <2>1
  <2>2. QED
    BY <1>2, <2>1 DEF Grounded
<1>5. Linked(tree) /\ Closed(tree)
  BY <1>2, <1>3 DEF Linked, Closed
<1>6. Headers
  BY RefTreeAssumption DEF Init, Headers
<1>7. QED
  BY <1>1, <1>4, <1>5, <1>6 DEF TreeInv, Sound

LEMMA AddMessageSound == TreeInv /\ AddMessage => TreeInv'
<1> SUFFICES ASSUME TreeInv, AddMessage PROVE TreeInv'
  OBVIOUS
<1> DEFINE m == id[at]
           r == TrimSelf(refs[at], m)
           p == r[Len(r)]
           t == add_msgid(tree, REF_REF, p, None)
<1>1. /\ Sound(tree) /\ tree.known \subseteq MsgIds /\ at \in 0..(Top - 1) /\ m \in MsgIds
      /\ refs[at] \in Seq(MsgIds) /\ refs \in [0..(Top - 1) -> Seq(MsgIds)]
      /\ prev \in tree.known \cup {None} /\ at' = at + 1 /\ at \in Nat
      /\ id \in [0..(Top - 1) -> MsgIds] /\ id' = id /\ prev' = prev
  BY RefTreeAssumption DEF TreeInv, Headers, AddMessage, Sound, Trees
<1>2. r \in Seq(MsgIds) /\ (r # <<>> => p \in MsgIds /\ SubSeq(r, 1, Len(r) - 1) \in Seq(MsgIds))
  BY <1>1, TrimSelfSeq
<1>3. \/ /\ r = <<>> /\ refs' = refs
         /\ tree' = add_msgid(tree, MSGID_REF, m, None)
      \/ /\ r # <<>> /\ tree' = add_msgid(t, MSGID_REF, m, p)
         /\ refs' = [refs EXCEPT ![at] = SubSeq(r, 1, Len(r) - 1)]
  BY DEF AddMessage
<1> HIDE DEF m, r, p, t
<1>4. CASE r = <<>>
  <2>1. Sound(tree') /\ tree'.known = tree.known \cup {m}
    BY <1>1, <1>3, <1>4, AddMsgidSound
  <2>2. QED
    BY <1>1, <1>3, <1>4, <2>1 DEF TreeInv, Headers
<1>5. CASE r # <<>>
  <2>1. Sound(t) /\ t.known = tree.known \cup {p} /\ p \in MsgIds
    BY <1>1, <1>2, <1>5, AddMsgidSound DEF t
  <2>2. Sound(tree') /\ tree'.known = tree.known \cup {p, m}
    <3>1. p \in t.known \cup {None} /\ tree' = add_msgid(t, MSGID_REF, m, p)
      BY <1>3, <1>5, <2>1
    <3>2. QED
      BY <1>1, <2>1, <3>1, AddMsgidSound
  <2>3. refs' \in [0..(Top - 1) -> Seq(MsgIds)]
    BY <1>1, <1>2, <1>3, <1>5
  <2>4. QED
    BY <1>1, <2>2, <2>3 DEF TreeInv, Headers
<1>6. QED
  BY <1>4, <1>5

LEMMA AddReferenceSound == TreeInv /\ AddReference => TreeInv'
<1> SUFFICES ASSUME TreeInv, AddReference PROVE TreeInv'
  OBVIOUS
<1> DEFINE m == Head(refs[at])
<1>1. /\ Sound(tree) /\ at \in 0..(Top - 1) /\ at \in Nat /\ refs[at] \in Seq(MsgIds) /\ refs[at] # <<>>
      /\ refs \in [0..(Top - 1) -> Seq(MsgIds)] /\ id \in [0..(Top - 1) -> MsgIds]
      /\ prev \in tree.known \cup {None} /\ prev' = m /\ id' = id /\ at' = at
      /\ tree' = add_msgid(tree, REF_REF, m, prev)
      /\ refs' = [refs EXCEPT ![at] = Tail(@)]
  BY RefTreeAssumption DEF TreeInv, Headers, AddReference
<1>2. m \in MsgIds /\ Tail(refs[at]) \in Seq(MsgIds)
  BY <1>1
<1> HIDE DEF m
<1>3. Sound(tree') /\ tree'.known = tree.known \cup {m}
  BY <1>1, <1>2, AddMsgidSound
<1>4. QED
  BY <1>1, <1>2, <1>3 DEF TreeInv, Headers

LEMMA JoinReferencesSound == TreeInv /\ JoinReferences => TreeInv'
<1> SUFFICES ASSUME TreeInv, JoinReferences PROVE TreeInv'
  OBVIOUS
<1> DEFINE p == tree.parent[id[at]]
<1>1. /\ Sound(tree) /\ at \in 0..(Top - 1) /\ at \in Nat /\ id[at] \in MsgIds
      /\ prev \in tree.known \cup {None} /\ prev' = None /\ at' = at + 1
      /\ refs' = refs /\ id' = id /\ Headers
      /\ tree' = IF prev = None \/ p = None THEN tree ELSE add_msgid(tree, REF_REF, p, prev)
  BY RefTreeAssumption DEF TreeInv, Headers, JoinReferences
<1>2. p \in tree.known \cup {None} /\ tree.known \subseteq MsgIds
  BY <1>1 DEF Sound, Closed, Trees
<1> HIDE DEF p
<1>3. Sound(tree')
  BY <1>1, <1>2, AddMsgidSound
<1>4. QED
  BY <1>1, <1>3 DEF TreeInv, Headers

LEMMA BuildSound == TreeInv /\ [BuildNext]_treeVars => TreeInv'
<1>1. TreeInv /\ MessagesDone => TreeInv'
  BY DEF TreeInv, Headers, MessagesDone
<1>2. TreeInv /\ ReferencesDone => TreeInv'
  BY DEF TreeInv, Headers, ReferencesDone
<1>3. TreeInv /\ UNCHANGED treeVars => TreeInv'
  BY DEF TreeInv, Headers, treeVars
<1>4. QED
  BY <1>1, <1>2, <1>3, AddMessageSound, AddReferenceSound, JoinReferencesSound DEF BuildNext

LEMMA TreeInvForest == TreeInv => Forest
BY DEF TreeInv, Sound, Linked, Forest

-----------------------------------------------------------------------------
\* Forged, broken or truncated headers, seen in any order, never close a
\* circle among the message-ids, and no followup is lost from its parent's
\* chain (build_references, parse_references, add_msgid).
THEOREM ReferencesForest == TreeSpec => []Forest
<1>1. TreeSpec => []TreeInv
  BY InitSound, BuildSound, PTL DEF TreeSpec
<1>2. QED
  BY <1>1, TreeInvForest, PTL

\* It stays so in the group that is read: killing, sorting and switching the
\* threading work on the tree and do not change it (make_threads).
THEOREM ForestKept == Spec => []Forest
<1>1. ThreadsInit => TreeInv
  BY InitSound DEF ThreadsInit
<1>2. [Next]_vars => [BuildNext]_treeVars
  BY DEF Next, vars, Build, IndexGroup, FilterArticles, ToggleThreading, Rethread
<1>3. Spec => []TreeInv
  BY <1>1, <1>2, BuildSound, PTL DEF Spec
<1>4. QED
  BY <1>3, TreeInvForest, PTL

=============================================================================
