------------------------------- MODULE RefTree -------------------------------
(***************************************************************************)
(* The tree of message-ids that build_references() grows from the          *)
(* Message-ID: and References: headers of a group's articles (refs.c).     *)
(*                                                                         *)
(* struct t_msgid has the pointers parent, child (the first followup) and  *)
(* sibling (the next followup to the same parent).  One action per turn of *)
(* the loops of build_references() and parse_references().  Headers are    *)
(* what the net delivers: any article may name any ids in any order,       *)
(* itself included.                                                        *)
(***************************************************************************)
EXTENDS Integers, Sequences, FiniteSets

CONSTANTS
  MsgIds,     \* the message-ids that occur in headers
  None,       \* the NULL pointer
  RefLists,   \* the References: headers that occur, sequences of MsgIds
  Top,        \* number of articles in arts[]
  SortAscend  \* sort_ascend: the articles are sorted upwards

ASSUME RefTreeAssumption ==
  /\ None \notin MsgIds
  /\ IsFiniteSet(MsgIds)
  /\ RefLists \subseteq Seq(MsgIds)
  /\ Top \in Nat
  /\ SortAscend \in BOOLEAN

VARIABLES
  tree,   \* the message-id cache: ids in it, pointers, and .article
  id,     \* id[i]: the Message-ID: of arts[i]
  refs,   \* refs[i]: what is left of the References: of arts[i]
  pass,   \* the loop of build_references() that is running
  at,     \* its counter
  prev    \* parse_references(): the node of the last reference, or None

treeVars == <<tree, id, refs, pass, at, prev>>

MSGID_REF == "MSGID_REF"
REF_REF == "REF_REF"

Pointers == [MsgIds -> MsgIds \cup {None}]

Trees == [known : SUBSET MsgIds,       \* ids that are in msgids[]
          present : SUBSET MsgIds,     \* ids with .article # ART_UNAVAILABLE
          parent : Pointers, child : Pointers, sibling : Pointers]

EmptyTree ==
  LET null == [m \in MsgIds |-> None]
  IN [known |-> {}, present |-> {}, parent |-> null, child |-> null,
      sibling |-> null]

Kids(t, p) == {m \in MsgIds : t.parent[m] = p}

(***************************************************************************)
(* The walk ptr = newparent, ptr->parent, ... meets m: every set that      *)
(* holds p and, with a node, its parent holds m.                           *)
(***************************************************************************)
InPath(t, p, m) ==
  \A S \in SUBSET MsgIds :
    p \in S /\ (\A n \in S : t.parent[n] \in S \cup {None}) => m \in S

\* add_to_parent(): m, whose parent is set, joins the followups of p.
LinkFirst(t, m, p) == [t EXCEPT !.child[p] = m]

LinkAtStart(t, m, p) ==
  [t EXCEPT !.sibling[m] = t.child[p], !.child[p] = m]

LinkAtEnd(t, m, p) ==
  LET last == CHOOSE n \in Kids(t, p) \ {m} : t.sibling[n] = None
  IN [t EXCEPT !.sibling[last] = m]

add_to_parent(t, m, p) ==
  LET s == [t EXCEPT !.parent[m] = p]
  IN IF t.child[p] = None THEN LinkFirst(s, m, p)
     ELSE IF SortAscend /\ m \notin t.present THEN LinkAtStart(s, m, p)
     ELSE LinkAtEnd(s, m, p)

\* A new node: an article is present at once, a reference is not.
NewNode(t, key, m) ==
  [t EXCEPT !.known = @ \cup {m},
            !.present = IF key = MSGID_REF THEN @ \cup {m} ELSE @]

\* A mutant: only a message that is its own parent is noticed.
add_msgid_Loops(t, key, m, p) ==
  IF m \notin t.known
  THEN LET s == NewNode(t, key, m)
       IN IF p = None THEN s ELSE add_to_parent(s, m, p)
  ELSE IF p = None \/ t.parent[m] # None \/ p = m THEN t
  ELSE add_to_parent(t, m, p)

\* add_msgid(): enter m, and take p for its parent if it has none yet and p
\* is not one of its own followups.
add_msgid(t, key, m, p) ==
  IF m \notin t.known
  THEN LET s == NewNode(t, key, m)
       IN IF p = None THEN s ELSE add_to_parent(s, m, p)
  ELSE IF p = None \/ t.parent[m] # None \/ InPath(t, p, m) THEN t
  ELSE add_to_parent(t, m, p)

-----------------------------------------------------------------------------
\* What is left of a References: line after its last reference, and more
\* like it, that name the article itself are cut off.  The first stays.
TrimSelf(r, m) ==
  LET keep == {n \in 1..Len(r) : n = 1 \/ r[n] # m}
  IN IF r = <<>> THEN r
     ELSE SubSeq(r, 1, CHOOSE n \in keep : \A k \in keep : k <= n)

Init ==
  /\ tree = EmptyTree
  /\ id \in [0..(Top - 1) -> MsgIds]
  /\ refs \in [0..(Top - 1) -> RefLists]
  /\ pass = "messages" /\ at = 0 /\ prev = None

\* First loop: the article and the last of its references, its parent.
AddMessage ==
  /\ pass = "messages" /\ at < Top
  /\ LET r == TrimSelf(refs[at], id[at])
     IN IF r = <<>>
        THEN /\ tree' = add_msgid(tree, MSGID_REF, id[at], None)
             /\ UNCHANGED refs
        ELSE LET p == r[Len(r)]
             IN /\ tree' = add_msgid(add_msgid(tree, REF_REF, p, None),
                                     MSGID_REF, id[at], p)
                /\ refs' = [refs EXCEPT ![at] = SubSeq(r, 1, Len(r) - 1)]
  /\ at' = at + 1
  /\ UNCHANGED <<id, pass, prev>>

MessagesDone ==
  /\ pass = "messages" /\ at = Top
  /\ pass' = "references" /\ at' = 0
  /\ UNCHANGED <<tree, id, refs, prev>>

\* Second loop, parse_references(): each reference follows the one before.
AddReference ==
  /\ pass = "references" /\ at < Top /\ refs[at] # <<>>
  /\ tree' = add_msgid(tree, REF_REF, Head(refs[at]), prev)
  /\ prev' = Head(refs[at])
  /\ refs' = [refs EXCEPT ![at] = Tail(@)]
  /\ UNCHANGED <<id, pass, at>>

\* Its result becomes the parent of the article's parent.
JoinReferences ==
  /\ pass = "references" /\ at < Top /\ refs[at] = <<>>
  /\ LET p == tree.parent[id[at]]
     IN tree' = IF prev = None \/ p = None THEN tree
                ELSE add_msgid(tree, REF_REF, p, prev)
  /\ prev' = None /\ at' = at + 1
  /\ UNCHANGED <<id, refs, pass>>

ReferencesDone ==
  /\ pass = "references" /\ at = Top
  /\ pass' = "built" /\ UNCHANGED <<tree, id, refs, at, prev>>

BuildNext ==
  \/ AddMessage \/ MessagesDone
  \/ AddReference \/ JoinReferences \/ ReferencesDone

TreeSpec == Init /\ [][BuildNext]_treeVars

-----------------------------------------------------------------------------
\* No message is its own ancestor: following f from any set leaves the set.
Grounded(f) ==
  \A S \in SUBSET MsgIds : S # {} => \E m \in S : f[m] \notin S

\* The chain of followups of p, which ends with None, holds m.
InChain(t, p, m) ==
  \A S \in SUBSET MsgIds :
    t.child[p] \in S \cup {None} /\ (\A n \in S : t.sibling[n] \in S \cup {None})
      => m \in S

(***************************************************************************)
(* Forged, broken or truncated headers, seen in any order, never make a    *)
(* message its own ancestor, and the chain of followups below a message    *)
(* holds exactly the messages whose parent it is, each once: the walks     *)
(* over the tree (find_next, get_references, make_prefix) end and miss     *)
(* nothing.                                                                *)
(***************************************************************************)
Forest ==
  /\ Grounded(tree.parent)
  /\ Grounded(tree.sibling)
  /\ \A p, m \in MsgIds :
       /\ tree.parent[m] = p => InChain(tree, p, m)
       /\ tree.child[p] = m => tree.parent[m] = p
       /\ tree.sibling[m] = p => tree.parent[p] = tree.parent[m] /\ tree.parent[p] # None
       /\ \A n \in MsgIds : tree.sibling[m] = p /\ tree.sibling[n] = p => m = n
       /\ tree.child[p] = m => \A n \in MsgIds : tree.sibling[n] # m

=============================================================================
