--------------------------- MODULE NewsrcFileProofs ---------------------------
(***************************************************************************)
(* The rewriting of .newsrc (NewsrcFile) keeps its types and its promises, *)
(* and implements NewsrcStore, for any number of groups and marks.         *)
(***************************************************************************)
EXTENDS NewsrcFile, FiniteSetTheorems, TLAPS

-----------------------------------------------------------------------------
(* Texts *)

\* A function from some of the groups to lines is a text.
LEMMA TextIntro ==
  ASSUME NEW D \in SUBSET Groups, NEW t \in [D -> Line]
  PROVE  t \in Texts
BY DEF Texts

\* And a text is nothing else.
LEMMA TextElim ==
  ASSUME NEW t \in Texts
  PROVE  /\ DOMAIN t \in SUBSET Groups
         /\ t = [g \in DOMAIN t |-> t[g]]
         /\ \A g \in DOMAIN t : t[g] \in Line
BY DEF Texts

\* NoFile is not a text.
LEMMA NoFileNoText == NoFile \notin Texts
BY LinesAssumption DEF LinesAssumption

\* A text has a line for each group at most.
LEMMA LinesOfText ==
  ASSUME NEW t \in Texts
  PROVE  Cardinality(DOMAIN t) \in 0..N
<1>1. IsFiniteSet(1..N) /\ Cardinality(1..N) = N
  <2>1. N \in Nat
    BY LinesAssumption DEF LinesAssumption
  <2>2. QED
    BY <2>1, FS_Interval
<1>2. DOMAIN t \subseteq 1..N
  BY TextElim DEF Groups
<1>3. IsFiniteSet(DOMAIN t) /\ Cardinality(DOMAIN t) <= Cardinality(1..N)
  BY <1>1, <1>2, FS_Subset
<1>4. Cardinality(DOMAIN t) \in Nat
  BY <1>3, FS_CardinalityType
<1>5. QED
  BY <1>1, <1>3, <1>4, LinesAssumption DEF LinesAssumption

\* The lines of a new group.
LEMMA NewLineType == NewLine \in Line
BY LinesAssumption DEF LinesAssumption, Line, NewLine

\* The empty file.
LEMMA EmptyText == Empty \in Texts /\ DOMAIN Empty = {}
<1>1. {} \in SUBSET Groups /\ Empty \in [{} -> Line]
  BY NewLineType DEF Empty
<1>2. QED
  BY <1>1, TextIntro

\* Every line of a text replaced by what the session knows
LEMMA StoredText ==
  ASSUME NEW t \in Texts, NEW m \in [Groups -> Line]
  PROVE  Stored(t, m) \in Texts /\ DOMAIN Stored(t, m) = DOMAIN t
<1>1. DOMAIN t \in SUBSET Groups
  BY TextElim
<1>2. Stored(t, m) \in [DOMAIN t -> Line]
  BY <1>1 DEF Stored
<1>3. QED
  BY <1>1, <1>2, TextIntro

\* A text with the subscription of one group changed, or with a line for it
LEMMA ToggledText ==
  ASSUME NEW t \in Texts, NEW m \in [Groups -> Line], NEW g \in Groups
  PROVE  Toggled(t, m, g) \in Texts /\ DOMAIN Toggled(t, m, g) = DOMAIN t \cup {g}
<1>1. DOMAIN t \in SUBSET Groups /\ \A h \in DOMAIN t : t[h] \in Line
  BY TextElim
<1>2. m[g] \in Line /\ m[g].sub \in BOOLEAN
  BY DEF Line
<1>3. ASSUME g \in DOMAIN t PROVE [t[g] EXCEPT !.sub = m[g].sub] \in Line
  BY <1>1, <1>2, <1>3 DEF Line
<1>4. Toggled(t, m, g) \in [DOMAIN t \cup {g} -> Line]
  BY <1>1, <1>2, <1>3 DEF Toggled
<1>5. DOMAIN t \cup {g} \in SUBSET Groups
  BY <1>1
<1>6. QED
  BY <1>4, <1>5, TextIntro

\* A text without the line of a group
LEMMA WithoutText ==
  ASSUME NEW t \in Texts, NEW g
  PROVE  Without(t, g) \in Texts
<1>1. DOMAIN t \ {g} \in SUBSET Groups
  BY TextElim
<1>2. Without(t, g) \in [DOMAIN t \ {g} -> Line]
  BY TextElim DEF Without
<1>3. QED
  BY <1>1, <1>2, TextIntro

\* A text without marks
LEMMA ClearedText ==
  ASSUME NEW t \in Texts
  PROVE  Cleared(t) \in Texts
<1>1. \A g \in DOMAIN t : [t[g] EXCEPT !.marks = 0] \in Line
  BY TextElim, LinesAssumption DEF Line, LinesAssumption
<1>2. Cleared(t) \in [DOMAIN t -> Line]
  BY <1>1 DEF Cleared
<1>3. QED
  BY <1>2, TextElim, TextIntro

\* A text cut in two
LEMMA PrefixText ==
  ASSUME NEW t \in Texts, NEW k
  PROVE  Prefix(t, k) \in Texts /\ After(t, k) \in Texts
<1>1. DOMAIN t \in SUBSET Groups /\ \A g \in DOMAIN t : t[g] \in Line
  BY TextElim
<1>2. Prefix(t, k) \in [{h \in DOMAIN t : h <= k} -> Line]
  BY <1>1 DEF Prefix
<1>3. After(t, k) \in [{h \in DOMAIN t : h > k} -> Line]
  BY <1>1 DEF After
<1>4. {h \in DOMAIN t : h <= k} \in SUBSET Groups /\ {h \in DOMAIN t : h > k} \in SUBSET Groups
  BY <1>1
<1>5. QED
  BY <1>2, <1>3, <1>4, TextIntro

\* Lines of a stream that are flushed over a text
LEMMA OverlayText ==
  ASSUME NEW t \in Texts, NEW u \in Texts
  PROVE  Overlay(t, u) \in Texts
<1>1. /\ DOMAIN t \in SUBSET Groups /\ \A g \in DOMAIN t : t[g] \in Line
      /\ DOMAIN u \in SUBSET Groups /\ \A g \in DOMAIN u : u[g] \in Line
  BY TextElim
<1>2. Overlay(t, u) \in [DOMAIN t \cup DOMAIN u -> Line]
  BY <1>1 DEF Overlay
<1>3. DOMAIN t \cup DOMAIN u \in SUBSET Groups
  BY <1>1
<1>4. QED
  BY <1>2, <1>3, TextIntro

\* What read_newsrc() makes of a text
LEMMA LoadedType ==
  ASSUME NEW t \in Texts
  PROVE  Loaded(t) \in [Groups -> Line]
BY TextElim, NewLineType DEF Loaded

\* What is stored once is stored.
LEMMA StoredTwice ==
  ASSUME NEW t, NEW m
  PROVE  Stored(Stored(t, m), m) = Stored(t, m)
BY DEF Stored

-----------------------------------------------------------------------------
(* The inductive invariant *)

\* The text that a command writes for the old content and what is known: until
\* subscribe() meets its group it is going to change the subscription.
Asked(kind, g, text, upto, old, m) ==
  IF old = NoFile THEN text = Empty
  ELSE \/ kind \in {"save", "move"} /\ text = Stored(old, m)
       \/ kind = "reset" /\ text = Cleared(old)
       \/ kind = "delete" /\ text = Without(old, g)
       \/ /\ kind = "subscribe"
          /\ text = Toggled(old, IF g <= upto THEN m ELSE [m EXCEPT ![g].sub = ~@], g)

\* What holds whatever has happened.
Shape ==
  /\ op = Idle \/ (op.kind # "none" /\ op.step # "idle" /\ phase \in {"up", "writing"})
  /\ op.kind \in {"subscribe", "delete"} => op.group \in Groups
  /\ op.step \in {"write", "unlink", "link"} => newnewsrc # NoFile
  /\ op.step = "clean" => newsrc # NoFile
  /\ stream = "newnewsrc" => newnewsrc # NoFile
  /\ stream = "newsrc" => newsrc # NoFile
  /\ phase \in {"down", "read", "auto"} => stream = "none"
  /\ phase # "bye" => ~saved
  /\ phase = "writing" => op.kind = "save"

\* What holds as long as nothing has harmed the file.
Kept ==
  ~harm =>
    /\ stream = "none"
    /\ linked => newsrc = newnewsrc /\ (phase = "down" \/ op.step = "clean")
    /\ op.step \in {"unlink", "link", "clean"} => newnewsrc = op.text
    /\ op.step = "link" => newsrc = NoFile
    /\ op.step = "clean" => newsrc = op.text
    /\ op.step = "unlink" => \A g \in DOMAIN op.text : g <= op.upto
    /\ op.step \in {"write", "unlink"} =>
         Asked(op.kind, op.group, op.text, op.upto, newsrc, mem)
    /\ phase = "up" /\ read >= 0 => newsrc # NoFile \/ op.step = "link"
    /\ phase = "auto" => newsrc \in Texts /\ Unmarked(newsrc)

\* What tin_done() says of its save.
Said ==
  ~harm =>
    /\ phase = "writing" => op.text = Stored(op.text, mem)
    /\ phase = "judge" /\ ~told /\ wrote >= 0 => Current
    /\ phase = "bye" /\ ~told /\ saved => Current

Inv == TypeOK /\ Shape /\ Kept /\ Said

\* A step of NewsrcStore, as NewsrcFile sees it.
StoreStep == Store!Next \/ UNCHANGED <<content, mem>>

\* The invariant is stronger than the properties.
LEMMA InvSafe == Inv => TypeOK /\ NothingTorn /\ SavedOrTold
BY DEF Inv, Kept, Said, NothingTorn, SavedOrTold

\* Whatever happens when the file is harmed is a Harm step.
LEMMA HarmStep ==
  ASSUME TypeOK', harm'
  PROVE  StoreStep
BY DEF StoreStep, Store!Next, Store!Harm, content, TypeOK, Store!Groups, Groups, Store!Line, Line

\* A step that leaves the content alone.
LEMMA LearnStep ==
  ASSUME TypeOK', content' = content
  PROVE  StoreStep
BY DEF StoreStep, Store!Next, Store!Learn, TypeOK, Store!Groups, Groups, Store!Line, Line

\* The definitions of NewsrcLines as NewsrcStore sees them.
LEMMA StoreIsLines ==
  /\ Store!Groups = Groups /\ Store!Line = Line /\ Store!Texts = Texts
  /\ \A t : Store!Loaded(t) = Loaded(t) /\ Store!Cleared(t) = Cleared(t)
            /\ (Store!Unmarked(t) <=> Unmarked(t))
  /\ \A t, m : Store!Stored(t, m) = Stored(t, m)
  /\ \A t, g : Store!Without(t, g) = Without(t, g)
  /\ \A t, m, g : Store!Toggled(t, m, g) = Toggled(t, m, g)
BY DEF Store!Groups, Groups, Store!Line, Line, Store!Texts, Texts, Store!Loaded, Loaded,
       Store!NewLine, NewLine, Store!Cleared, Cleared, Store!Unmarked, Unmarked,
       Store!Stored, Stored, Store!Without, Without, Store!Toggled, Toggled

-----------------------------------------------------------------------------
(* The beginning of a rewriting *)

Kinds == {"save", "subscribe", "delete", "reset", "move"}

\* The empty file is a text with nothing in it.
LEMMA IdleType ==
  /\ Idle.kind = "none" /\ Idle.step = "idle" /\ Idle.upto = 0 /\ Idle.text = Empty
  /\ Idle \in [kind : {"none", "save", "subscribe", "delete", "reset", "move"},
               step : {"idle", "write", "unlink", "link", "clean"},
               group : 0..N, text : Texts, upto : 0..N]
BY EmptyText, LinesAssumption DEF Idle, LinesAssumption

\* fopen() of .newnewsrc for a command that asks for text.
LEMMA OpenOK ==
  ASSUME Inv, op = Idle,
         NEW kind \in Kinds, NEW g \in 0..N, NEW text \in Texts,
         Open(kind, g, text),
         kind \in {"subscribe", "delete"} => g \in Groups,
         ~harm => Asked(kind, g, text, 0, newsrc, mem),
         \/ phase = "up" /\ phase' = "up"
         \/ /\ phase = "save" /\ phase' = "writing"
            /\ kind = "save"
            /\ ~harm => text = Stored(text, mem),
         UNCHANGED <<mem, exiting, read, harm>>
  PROVE  Inv' /\ StoreStep
<1> USE DEF Inv
<1>1. op' = [kind |-> kind, step |-> "write", group |-> g, text |-> text, upto |-> 0]
  BY DEF Open
<1>2. TypeOK'
  BY <1>1, EmptyText, LinesAssumption DEF Open, TypeOK, Kinds, exiting, LinesAssumption
<1>3. Shape'
  <2>1. newnewsrc' = Empty /\ Empty # NoFile /\ (newsrc # NoFile => newsrc' # NoFile)
    BY EmptyText, NoFileNoText DEF Open
  <2>2. stream' = stream /\ saved' = saved /\ op'.kind = kind /\ op'.step = "write" /\ op'.group = g
    BY <1>1 DEF exiting
  <2>3. QED
    BY <2>1, <2>2 DEF Shape, Kinds
<1>4. Kept' /\ content' = content
  <2>1. CASE harm
    BY <2>1 DEF Kept, content
  <2>2. CASE ~harm
    <3>1. ~linked /\ newsrc' = newsrc /\ linked' = linked /\ stream' = "none"
      BY <2>2, IdleType DEF Kept, Open, exiting
    <3>2. Asked(kind, g, text, 0, newsrc', mem')
      BY <2>2, <3>1
    <3>3. op'.step = "write" /\ op'.kind = kind /\ op'.group = g /\ op'.text = text /\ op'.upto = 0
      BY <1>1
    <3>4. phase' = "up" /\ read' >= 0 => newsrc' # NoFile
      BY <2>2, <3>1, IdleType DEF Kept, exiting
    <3>5. QED
      BY <2>2, <3>1, <3>2, <3>3, <3>4, IdleType DEF Kept, content
  <2>3. QED
    BY <2>1, <2>2
<1>5. Said'
  BY <1>1 DEF Said, exiting
<1>6. StoreStep
  BY <1>2, <1>4, LearnStep
<1>7. QED
  BY <1>2, <1>3, <1>4, <1>5, <1>6

\* vWriteNewsrc() during the session
LEMMA SaveStep == ASSUME Inv, Save PROVE Inv' /\ StoreStep
<1>1. newsrc \in Texts /\ mem \in [Groups -> Line]
  BY DEF Inv, TypeOK, Save
<1>2. ~harm /\ op = Idle /\ ~linked
  BY IdleType DEF Inv, Kept, Save, Rewritable, Ready
<1>3. SaveText = Stored(newsrc, mem) /\ SaveText \in Texts
  BY <1>1, <1>2, StoredText DEF SaveText
<1>4. Asked("save", 0, SaveText, 0, newsrc, mem)
  BY <1>1, <1>3, NoFileNoText DEF Asked
<1>5. QED
  BY <1>2, <1>3, <1>4, OpenOK, LinesAssumption
     DEF Save, Rewritable, Ready, Kinds, LinesAssumption

\* pos_group_in_newsrc()
LEMMA MoveGroupStep == ASSUME Inv, MoveGroup PROVE Inv' /\ StoreStep
<1>1. newsrc \in Texts /\ mem \in [Groups -> Line]
  BY DEF Inv, TypeOK, MoveGroup
<1>2. ~harm /\ op = Idle /\ ~linked
  BY IdleType DEF Inv, Kept, MoveGroup, Rewritable, Ready
<1>3. SaveText = Stored(newsrc, mem) /\ SaveText \in Texts
  BY <1>1, <1>2, StoredText DEF SaveText
<1>4. Asked("move", 0, SaveText, 0, newsrc, mem)
  BY <1>1, <1>3, NoFileNoText DEF Asked
<1>5. QED
  BY <1>2, <1>3, <1>4, OpenOK, LinesAssumption
     DEF MoveGroup, Rewritable, Ready, Kinds, LinesAssumption

\* subscribe()
LEMMA SubscribeStep ==
  ASSUME Inv, NEW g \in Groups, Subscribe(g)
  PROVE  Inv' /\ StoreStep
<1> DEFINE m == [mem EXCEPT ![g].sub = ~@]
           text == IF newsrc = NoFile THEN Empty ELSE Toggled(newsrc, m, g)
<1>1. newsrc \in Texts \cup {NoFile} /\ m \in [Groups -> Line]
  BY DEF Inv, TypeOK, Line
<1>2. ~harm /\ op = Idle
  BY DEF Subscribe, Rewritable, Ready
<1>3. text \in Texts
  BY <1>1, ToggledText, EmptyText
<1>4. g \in 0..N /\ ~(g <= 0)
  BY LinesAssumption DEF Groups, LinesAssumption
<1>5. Asked("subscribe", g, text, 0, newsrc, mem)
  BY <1>4 DEF Asked
<1>6. Open("subscribe", g, text)
  BY DEF Subscribe
<1>7. QED
  BY <1>2, <1>3, <1>4, <1>5, <1>6, OpenOK DEF Subscribe, Rewritable, Ready, Kinds

\* delete_group()
LEMMA DeleteGroupStep ==
  ASSUME Inv, NEW g \in Groups, DeleteGroup(g)
  PROVE  Inv' /\ StoreStep
<1> DEFINE text == IF newsrc = NoFile THEN Empty ELSE Without(newsrc, g)
<1>1. newsrc \in Texts \cup {NoFile}
  BY DEF Inv, TypeOK
<1>2. ~harm /\ op = Idle
  BY DEF DeleteGroup, Rewritable, Ready
<1>3. text \in Texts
  BY <1>1, WithoutText, EmptyText
<1>4. g \in 0..N
  BY LinesAssumption DEF Groups, LinesAssumption
<1>5. Asked("delete", g, text, 0, newsrc, mem)
  BY DEF Asked
<1>6. Open("delete", g, text)
  BY DEF DeleteGroup
<1>7. QED
  BY <1>2, <1>3, <1>4, <1>5, <1>6, OpenOK DEF DeleteGroup, Rewritable, Ready, Kinds

\* reset_newsrc()
LEMMA ResetStep == ASSUME Inv, Reset PROVE Inv' /\ StoreStep
<1> DEFINE text == IF newsrc = NoFile THEN Empty ELSE Cleared(newsrc)
<1>1. newsrc \in Texts \cup {NoFile}
  BY DEF Inv, TypeOK
<1>2. ~harm /\ op = Idle
  BY DEF Reset, Rewritable, Ready
<1>3. text \in Texts
  BY <1>1, ClearedText, EmptyText
<1>4. Asked("reset", 0, text, 0, newsrc, mem)
  BY DEF Asked
<1>5. Open("reset", 0, text)
  BY DEF Reset
<1>6. QED
  BY <1>2, <1>3, <1>4, <1>5, OpenOK, LinesAssumption
     DEF Reset, Rewritable, Ready, Kinds, LinesAssumption

\* tin_done() begins its vWriteNewsrc(), or finds nothing to save.
LEMMA SaveAtExitStep == ASSUME Inv, SaveAtExit PROVE Inv' /\ StoreStep
<1>1. CASE newsrc \in {NoFile, Empty}
  <2>1. /\ phase = "save" /\ phase' = "judge" /\ wrote' = IF newsrc = NoFile THEN -1 ELSE 0
        /\ UNCHANGED <<newsrc, newnewsrc, linked, op, mem, pending, stream, saved, told, read, harm>>
    BY <1>1 DEF SaveAtExit, files
  <2>2. TypeOK' /\ Shape' /\ Kept' /\ content' = content
    BY <2>1, LinesAssumption, IdleType DEF Inv, TypeOK, Shape, Kept, content, LinesAssumption
  <2>3. newsrc = Empty => newsrc \in Texts /\ newsrc = Stored(newsrc, mem)
    BY EmptyText DEF Stored, Empty
  <2>4. Said'
    BY <1>1, <2>1, <2>3, NoFileNoText DEF Said, Inv, Current, Shape
  <2>5. QED
    BY <2>2, <2>4, LearnStep DEF Inv
<1>2. CASE newsrc \notin {NoFile, Empty}
  <2>1. newsrc \in Texts /\ mem \in [Groups -> Line] /\ phase = "save" /\ op = Idle
    BY <1>2 DEF SaveAtExit, Inv, TypeOK, Shape
  <2>2. SaveText \in Texts
    BY <2>1, StoredText, EmptyText DEF SaveText
  <2>3. ~harm => ~linked
    BY <2>1, IdleType DEF Inv, Kept
  <2>4. ~harm => /\ Asked("save", 0, SaveText, 0, newsrc, mem)
                 /\ SaveText = Stored(SaveText, mem)
    BY <1>2, <2>3, StoredTwice DEF Asked, SaveText
  <2>5. Open("save", 0, SaveText) /\ phase' = "writing" /\ UNCHANGED <<mem, exiting, read, harm>>
    BY <1>2 DEF SaveAtExit, exiting
  <2>6. QED
    BY <2>1, <2>2, <2>4, <2>5, OpenOK, LinesAssumption DEF Kinds, LinesAssumption
<1>3. QED
  BY <1>1, <1>2

-----------------------------------------------------------------------------
(* The rest of a rewriting *)

\* What is known after a rewriting.
LEMMA AfterOpType ==
  ASSUME mem \in [Groups -> Line]
  PROVE  \A m \in AfterOp : m \in [Groups -> Line]
<1>1. \A g \in Groups : [mem[g] EXCEPT !.marks = 0] \in Line
  BY LinesAssumption DEF Line, LinesAssumption
<1>2. QED
  BY <1>1 DEF AfterOp

\* One line is copied; subscribe() may change the group's subscription.
LEMMA WriteLineStep == ASSUME Inv, WriteLine PROVE Inv' /\ StoreStep
<1> USE DEF Inv
<1>1. PICK g \in Unwritten :
        /\ \A h \in Unwritten : g <= h
        /\ op' = [op EXCEPT !.upto = g]
        /\ mem' = IF op.kind = "subscribe" /\ g = op.group THEN [mem EXCEPT ![g].sub = ~@] ELSE mem
        /\ newnewsrc' \in {newnewsrc, Prefix(op.text, g)}
        /\ newsrc' = IF linked THEN newnewsrc' ELSE newsrc
  BY DEF WriteLine
<1>2. /\ op.step = "write"
      /\ UNCHANGED <<linked, pending, stream, wrote, saved, told, phase, read, harm>>
  BY DEF WriteLine, exiting
<1>3. op.text \in Texts /\ op.upto \in 0..N /\ newnewsrc \in Texts /\ mem \in [Groups -> Line]
  BY <1>2 DEF TypeOK, Shape
<1>4. g \in Groups /\ g \in DOMAIN op.text /\ g > op.upto
  BY <1>3, TextElim DEF Unwritten, After
<1>5. g \in 1..N
  BY <1>4 DEF Groups
<1>6. mem' \in [Groups -> Line]
  BY <1>1, <1>3, <1>4 DEF Line
<1>7. newnewsrc' \in Texts
  BY <1>1, <1>3, PrefixText
<1>8. newsrc' \in Texts \cup {NoFile} /\ (newsrc # NoFile => newsrc' # NoFile)
  BY <1>1, <1>7, NoFileNoText DEF TypeOK
<1>9. /\ op'.kind = op.kind /\ op'.step = "write" /\ op'.group = op.group
      /\ op'.text = op.text /\ op'.upto = g
  BY <1>1, <1>2 DEF TypeOK
<1>10. TypeOK'
  BY <1>1, <1>2, <1>5, <1>6, <1>7, <1>8 DEF TypeOK
<1>11. Shape'
  BY <1>2, <1>7, <1>8, <1>9, IdleType, NoFileNoText DEF Shape
<1>12. ASSUME ~harm
       PROVE  newsrc' = newsrc /\ Asked(op.kind, op.group, op.text, g, newsrc, mem')
  <2>1. newsrc' = newsrc /\ Asked(op.kind, op.group, op.text, op.upto, newsrc, mem)
    BY <1>1, <1>2, <1>12, IdleType DEF Kept, Shape
  <2>2. CASE op.kind = "subscribe" /\ newsrc # NoFile
    <3>1. /\ op.group \in Groups /\ newsrc \in Texts
          /\ op.text = Toggled(newsrc, IF op.group <= op.upto THEN mem
                                       ELSE [mem EXCEPT ![op.group].sub = ~@], op.group)
      BY <2>1, <2>2 DEF Asked, Shape, TypeOK
    <3>2. op.group \in DOMAIN op.text
      BY <3>1 DEF Toggled
    <3>3. op.group \in Int /\ g \in Int /\ op.upto \in Int
      BY <3>1, <1>3, <1>5 DEF Groups
    <3>4. CASE g = op.group
      <4>1. ~(op.group <= op.upto) /\ op.group <= g
        BY <3>3, <3>4, <1>4
      <4>2. mem' = [mem EXCEPT ![op.group].sub = ~@]
        BY <1>1, <2>2, <3>4
      <4>3. op.text = Toggled(newsrc, mem', op.group)
        BY <3>1, <4>1, <4>2
      <4>4. QED
        BY <2>1, <2>2, <4>1, <4>3 DEF Asked
    <3>5. CASE g # op.group
      <4>1. mem' = mem
        BY <1>1, <3>5
      <4>2. op.group <= g <=> op.group <= op.upto
        <5>1. op.group > op.upto => op.group \in Unwritten
          BY <3>2 DEF Unwritten, After
        <5>2. QED
          BY <5>1, <1>1, <1>4, <3>3, <3>5
      <4>3. QED
        BY <2>1, <4>1, <4>2 DEF Asked
    <3>6. QED
      BY <3>4, <3>5
  <2>3. CASE op.kind # "subscribe" \/ newsrc = NoFile
    <3>1. CASE newsrc = NoFile
      BY <2>1, <3>1 DEF Asked
    <3>2. CASE op.kind # "subscribe"
      <4>1. mem' = mem
        BY <1>1, <3>2
      <4>2. QED
        BY <2>1, <3>2, <4>1 DEF Asked
    <3>3. QED
      BY <2>3, <3>1, <3>2
  <2>4. QED
    BY <2>2, <2>3
<1>13. Kept'
  BY <1>2, <1>9, <1>12, IdleType DEF Kept, Shape
<1>14. Said'
  <2>1. phase = "writing" => mem' = mem
    BY <1>1 DEF Shape
  <2>2. phase \notin {"judge", "bye"}
    BY <1>2, IdleType DEF Shape
  <2>3. QED
    BY <1>2, <1>9, <2>1, <2>2 DEF Said
<1>15. content' = content
  BY <1>2, <1>9, <1>12 DEF content
<1>16. QED
  BY <1>10, <1>11, <1>13, <1>14, <1>15, LearnStep

\* The end of a rewriting that leaves the file alone: an error, or nothing to do.
LEMMA EndOpOK ==
  ASSUME Inv, op # Idle, EndOp, told',
         phase' = IF phase = "writing" THEN "judge" ELSE phase, wrote' \in -1..N,
         newnewsrc' \in Texts \cup {NoFile}, newsrc' = newsrc,
         linked' \in BOOLEAN, linked' => harm',
         UNCHANGED <<saved, read>>, harm' \in BOOLEAN, harm => harm',
         op.step = "link" => harm',
         pending' \in Texts, stream' \in {"none", "newnewsrc", "newsrc"},
         stream' = "newnewsrc" => newnewsrc' # NoFile,
         stream' = "newsrc" => newsrc # NoFile,
         ~harm' => stream' = "none"
  PROVE  Inv' /\ StoreStep
<1> USE DEF Inv
<1>1. mem' \in [Groups -> Line]
  BY AfterOpType DEF EndOp, TypeOK
<1>2. op' = Idle
  BY DEF EndOp
<1>3. phase \in {"up", "writing"}
  BY DEF Shape
<1>4. TypeOK'
  BY <1>1, <1>2, <1>3, IdleType DEF TypeOK
<1>5. Shape'
  BY <1>2, <1>3, IdleType DEF Shape
<1>6. Kept'
  BY <1>2, <1>3, IdleType DEF Kept
<1>7. Said'
  BY <1>3 DEF Said
<1>8. StoreStep
  <2>1. CASE harm'
    BY <1>4, <2>1, HarmStep
  <2>2. CASE ~harm'
    BY <1>2, <1>4, <2>2, IdleType, LearnStep DEF content
  <2>3. QED
    BY <2>1, <2>2
<1>9. QED
  BY <1>4, <1>5, <1>6, <1>7, <1>8

\* fclose() succeeds.
LEMMA CloseStep == ASSUME Inv, Close PROVE Inv' /\ StoreStep
<1>1. /\ op.step = "write" /\ Unwritten = {} /\ newnewsrc' = op.text
      /\ newsrc' = IF linked THEN op.text ELSE newsrc
      /\ UNCHANGED <<linked, pending, stream, saved, read, harm>>
  BY DEF Close
<1>2. op.text \in Texts /\ op.text # NoFile /\ newnewsrc \in Texts
  BY <1>1, NoFileNoText DEF Inv, TypeOK, Shape
<1>3. op # Idle
  BY <1>1, IdleType
<1>4. ~harm => ~linked /\ stream = "none"
  BY <1>1, <1>3, IdleType DEF Inv, Kept, Shape
<1>5. newsrc' \in Texts \cup {NoFile} /\ (newsrc # NoFile => newsrc' # NoFile)
  BY <1>1, <1>2 DEF Inv, TypeOK
<1>6. CASE op.kind = "save" /\ op.text = Empty
  <2>1. EndOp /\ told' = TRUE /\ Return(0)
    BY <1>6 DEF Close
  <2>2. mem' \in [Groups -> Line]
    BY <2>1, AfterOpType DEF EndOp, Inv, TypeOK
  <2>3. /\ op' = Idle /\ phase \in {"up", "writing"}
        /\ phase' = (IF phase = "writing" THEN "judge" ELSE phase)
        /\ wrote' \in -1..N
    BY <1>3, <2>1, LinesAssumption DEF EndOp, Return, Inv, Shape, TypeOK, LinesAssumption
  <2>4. TypeOK'
    BY <1>1, <1>2, <1>5, <2>1, <2>2, <2>3, IdleType DEF Inv, TypeOK
  <2>5. Shape'
    BY <1>1, <1>2, <1>5, <2>3, IdleType DEF Inv, Shape
  <2>6. Kept'
    BY <1>1, <1>4, <2>3, IdleType DEF Inv, Kept
  <2>7. Said'
    BY <2>1, <2>3 DEF Inv, Said
  <2>8. content' = content
    BY <1>1, <1>4, <2>3, IdleType DEF content
  <2>9. QED
    BY <2>4, <2>5, <2>6, <2>7, <2>8, LearnStep DEF Inv
<1>7. CASE ~(op.kind = "save" /\ op.text = Empty)
  <2>1. op' = [op EXCEPT !.step = "unlink"] /\ UNCHANGED <<mem, told, phase, wrote>>
    BY <1>7 DEF Close
  <2>2. /\ op'.kind = op.kind /\ op'.step = "unlink" /\ op'.group = op.group
        /\ op'.text = op.text /\ op'.upto = op.upto
    BY <2>1 DEF Inv, TypeOK
  <2>3. \A g \in DOMAIN op.text : g <= op.upto
    <3>1. \A g \in DOMAIN op.text : g \in Int /\ op.upto \in Int
      BY <1>2, TextElim DEF Groups, Inv, TypeOK
    <3>2. QED
      BY <1>1, <3>1 DEF Unwritten, After
  <2>4. TypeOK'
    BY <1>1, <1>2, <1>5, <2>1 DEF Inv, TypeOK
  <2>5. Shape'
    BY <1>1, <1>2, <1>3, <1>5, <2>1, <2>2, IdleType DEF Inv, Shape
  <2>6. Kept'
    BY <1>1, <1>4, <2>1, <2>2, <2>3 DEF Inv, Kept, Shape
  <2>7. Said'
    BY <1>1, <1>3, <2>1, <2>2 DEF Inv, Said, Shape
  <2>8. content' = content
    BY <1>1, <1>4, <2>2 DEF content
  <2>9. QED
    BY <2>4, <2>5, <2>6, <2>7, <2>8, LearnStep DEF Inv
<1>8. QED
  BY <1>6, <1>7

\* A full disk, .newnewsrc unlinked
LEMMA DiskFullStep == ASSUME Inv, DiskFull PROVE Inv' /\ StoreStep
<1>1. op.step = "write" /\ op # Idle
  BY IdleType DEF DiskFull
<1>2. Cardinality(DOMAIN op.text) \in 0..N
  BY LinesOfText DEF Inv, TypeOK
<1>3. /\ newnewsrc' = NoFile /\ linked' = FALSE /\ EndOp /\ told' = TRUE
      /\ stream' = (IF stream = "newnewsrc" THEN "none" ELSE stream)
      /\ Return(Cardinality(DOMAIN op.text))
      /\ UNCHANGED <<newsrc, pending, saved, read, harm>>
  BY DEF DiskFull
<1>4. ~harm => stream' = "none"
  BY <1>3 DEF Inv, Kept
<1>5. /\ stream' \in {"none", "newnewsrc", "newsrc"} /\ stream' # "newnewsrc"
      /\ stream' = "newsrc" => newsrc # NoFile
      /\ harm' \in BOOLEAN /\ (harm => harm') /\ (~harm' => stream' = "none") /\ pending' \in Texts
  BY <1>3, <1>4 DEF Inv, TypeOK, Shape
<1>6. phase' = (IF phase = "writing" THEN "judge" ELSE phase) /\ wrote' \in -1..N
  BY <1>2, <1>3, LinesAssumption DEF Return, Inv, TypeOK, LinesAssumption
<1>7. /\ linked' \in BOOLEAN /\ ~linked' /\ newnewsrc' \in Texts \cup {NoFile}
      /\ ~(op.step = "link") /\ told' /\ newsrc' = newsrc
  BY <1>1, <1>3
<1>8. QED
  BY <1>1, <1>3, <1>4, <1>5, <1>6, <1>7, EndOpOK

\* A full disk in pos_group_in_newsrc()
LEMMA DiskFullMoveStep == ASSUME Inv, DiskFullMove PROVE Inv' /\ StoreStep
<1>1. op.step = "write" /\ op # Idle
  BY IdleType DEF DiskFullMove
<1>2. PICK k \in 0..N :
        /\ newnewsrc' = Prefix(op.text, k)
        /\ \/ UNCHANGED <<pending, stream, harm>>
           \/ \E l \in k..N : pending' = After(op.text, l) /\ stream' = "newnewsrc" /\ harm' = TRUE
  BY DEF DiskFullMove
<1>3. op.text \in Texts
  BY DEF Inv, TypeOK
<1>4. newnewsrc' \in Texts /\ newnewsrc' # NoFile /\ pending' \in Texts
  BY <1>2, <1>3, PrefixText, NoFileNoText DEF Inv, TypeOK
<1>5. ~harm => ~linked
  BY <1>1, IdleType DEF Inv, Kept, Shape
<1>6. EndOp /\ told' = TRUE /\ UNCHANGED <<newsrc, linked, saved, phase, wrote, read>>
  BY DEF DiskFullMove
<1>7. phase = "up"
  BY <1>1 DEF Inv, Shape, DiskFullMove
<1>8. /\ stream' \in {"none", "newnewsrc", "newsrc"} /\ (stream' = "newsrc" => newsrc # NoFile)
      /\ harm' \in BOOLEAN /\ (harm => harm') /\ (~harm' => stream' = "none")
  BY <1>2 DEF Inv, TypeOK, Shape, Kept
<1>9. linked' \in BOOLEAN /\ (linked' => harm')
  BY <1>5, <1>6, <1>8 DEF Inv, TypeOK
<1>10. phase' = (IF phase = "writing" THEN "judge" ELSE phase) /\ wrote' \in -1..N
  BY <1>6, <1>7 DEF Inv, TypeOK
<1>11. QED
  BY <1>1, <1>4, <1>6, <1>7, <1>8, <1>9, <1>10, EndOpOK

-----------------------------------------------------------------------------
(* rename_file() *)

\* The new content replaces the old one here: NewsrcStore's Replace or Create.
LEMMA UnlinkNewsrcStep == ASSUME Inv, UnlinkNewsrc PROVE Inv' /\ StoreStep
<1>1. /\ op.step = "unlink" /\ op' = [op EXCEPT !.step = "link"]
      /\ newsrc' = NoFile /\ linked' = FALSE
      /\ stream' = (IF stream = "newsrc" THEN "none" ELSE stream)
      /\ UNCHANGED <<newnewsrc, mem, pending, wrote, saved, told, phase, read, harm>>
  BY DEF UnlinkNewsrc
<1>2. /\ op'.kind = op.kind /\ op'.step = "link" /\ op'.group = op.group
      /\ op'.text = op.text /\ op'.upto = op.upto /\ op # Idle
  BY <1>1, IdleType DEF Inv, TypeOK
<1>3. TypeOK'
  BY <1>1 DEF Inv, TypeOK
<1>4. Shape'
  BY <1>1, <1>2 DEF Inv, Shape
<1>5. Kept'
  BY <1>1, <1>2 DEF Inv, Kept, Shape
<1>6. Said'
  BY <1>1, <1>2 DEF Inv, Said, Shape
<1>7. StoreStep
  <2>1. CASE harm
    BY <1>1, <1>3, <2>1, HarmStep
  <2>2. CASE ~harm
    <3>1. content = newsrc /\ content' = op.text /\ mem' = mem
      BY <1>1, <1>2, <2>2 DEF content, Inv, Kept
    <3>2. Asked(op.kind, op.group, op.text, op.upto, newsrc, mem)
      BY <1>1, <2>2 DEF Inv, Kept
    <3>3. CASE newsrc = NoFile
      <4>1. op.text = Empty /\ Empty \in Texts /\ Unmarked(Empty)
        BY <3>2, <3>3, EmptyText DEF Asked, Unmarked
      <4>2. Store!Create
        BY <3>1, <3>3, <4>1, StoreIsLines DEF Store!Create
      <4>3. QED
        BY <4>2 DEF StoreStep, Store!Next
    <3>4. CASE newsrc # NoFile
      <4>1. newsrc \in Texts
        BY <3>4 DEF Inv, TypeOK
      <4>2. CASE op.kind \in {"subscribe", "delete"}
        <5>1. op.group \in Groups
          BY <4>2 DEF Inv, Shape
        <5>2. op.kind = "subscribe" => op.group <= op.upto
          <6>1. op.kind = "subscribe" => op.group \in DOMAIN op.text
            BY <3>2, <3>4 DEF Asked, Toggled
          <6>2. QED
            BY <1>1, <2>2, <6>1 DEF Inv, Kept
        <5>3. op.text = Toggled(newsrc, mem, op.group) \/ op.text = Without(newsrc, op.group)
          BY <3>2, <3>4, <4>2, <5>2 DEF Asked
        <5>4. Store!Replace
          BY <3>1, <4>1, <5>1, <5>3, StoreIsLines DEF Store!Replace
        <5>5. QED
          BY <5>4 DEF StoreStep, Store!Next
      <4>3. CASE op.kind \notin {"subscribe", "delete"}
        <5>1. op.text = Stored(newsrc, mem) \/ op.text = Cleared(newsrc)
          BY <3>2, <3>4, <4>3 DEF Asked
        <5>2. Store!Replace
          BY <3>1, <4>1, <5>1, StoreIsLines DEF Store!Replace
        <5>3. QED
          BY <5>2 DEF StoreStep, Store!Next
      <4>4. QED
        BY <4>2, <4>3
    <3>5. QED
      BY <3>3, <3>4
  <2>3. QED
    BY <2>1, <2>2
<1>8. QED
  BY <1>3, <1>4, <1>5, <1>6, <1>7 DEF Inv

\* link() succeeds.
LEMMA LinkStep == ASSUME Inv, Link PROVE Inv' /\ StoreStep
<1>1. /\ op.step = "link" /\ op' = [op EXCEPT !.step = "clean"]
      /\ newsrc' = newnewsrc /\ linked' = TRUE
      /\ UNCHANGED <<newnewsrc, mem, pending, stream, wrote, saved, told, phase, read, harm>>
  BY DEF Link, exiting
<1>2. /\ op'.kind = op.kind /\ op'.step = "clean" /\ op'.group = op.group
      /\ op'.text = op.text /\ op'.upto = op.upto /\ op # Idle
  BY <1>1, IdleType DEF Inv, TypeOK
<1>3. TypeOK'
  BY <1>1 DEF Inv, TypeOK
<1>4. Shape'
  BY <1>1, <1>2 DEF Inv, Shape
<1>5. Kept'
  BY <1>1, <1>2 DEF Inv, Kept, Shape
<1>6. Said'
  BY <1>1, <1>2 DEF Inv, Said, Shape
<1>7. content' = content
  BY <1>1, <1>2 DEF content, Inv, Kept
<1>8. QED
  BY <1>3, <1>4, <1>5, <1>6, <1>7, LearnStep DEF Inv

\* link() fails: the lines are only in .newnewsrc.
LEMMA LinkFailsStep == ASSUME Inv, LinkFails PROVE Inv' /\ StoreStep
<1>1. op.step = "link" /\ op # Idle
  BY IdleType DEF LinkFails
<1>2. /\ EndOp /\ told' = TRUE /\ harm' = TRUE
      /\ Return(Cardinality(DOMAIN op.text))
      /\ UNCHANGED <<newsrc, newnewsrc, linked, pending, stream, saved, read>>
  BY DEF LinkFails, files
<1>3. Cardinality(DOMAIN op.text) \in 0..N
  BY LinesOfText DEF Inv, TypeOK
<1>4. phase' = (IF phase = "writing" THEN "judge" ELSE phase) /\ wrote' \in -1..N
  BY <1>2, <1>3, LinesAssumption DEF Return, Inv, TypeOK, LinesAssumption
<1>5. /\ newnewsrc' \in Texts \cup {NoFile} /\ linked' \in BOOLEAN /\ pending' \in Texts
      /\ stream' \in {"none", "newnewsrc", "newsrc"}
      /\ (stream' = "newnewsrc" => newnewsrc' # NoFile) /\ (stream' = "newsrc" => newsrc # NoFile)
  BY <1>2 DEF Inv, TypeOK, Shape
<1>6. /\ harm' \in BOOLEAN /\ harm' /\ told' /\ newsrc' = newsrc
      /\ (linked' => harm') /\ (~harm' => stream' = "none")
  BY <1>2
<1>7. QED
  BY <1>1, <1>2, <1>4, <1>5, <1>6, EndOpOK

\* The last unlink() ends the rewriting.
LEMMA UnlinkNewnewsrcStep == ASSUME Inv, UnlinkNewnewsrc PROVE Inv' /\ StoreStep
<1> USE DEF Inv
<1>1. /\ op.step = "clean" /\ newnewsrc' = NoFile /\ linked' = FALSE
      /\ stream' = (IF stream = "newnewsrc" THEN "newsrc" ELSE stream)
      /\ EndOp /\ Return(Cardinality(DOMAIN op.text))
      /\ UNCHANGED <<newsrc, pending, saved, told, read, harm>>
  BY DEF UnlinkNewnewsrc
<1>2. Cardinality(DOMAIN op.text) \in 0..N
  BY LinesOfText DEF TypeOK
<1>3. op # Idle /\ phase \in {"up", "writing"} /\ newsrc # NoFile
  BY <1>1, IdleType DEF Shape
<1>4. op' = Idle /\ mem' \in [Groups -> Line]
  BY <1>1, AfterOpType DEF EndOp, TypeOK
<1>5. phase' = (IF phase = "writing" THEN "judge" ELSE phase) /\ wrote' \in -1..N
  BY <1>1, <1>2, <1>3, LinesAssumption DEF Return, TypeOK, LinesAssumption
<1>6. TypeOK'
  BY <1>1, <1>3, <1>4, <1>5, IdleType DEF TypeOK
<1>7. Shape'
  BY <1>1, <1>3, <1>4, <1>5, IdleType DEF Shape
<1>8. Kept'
  BY <1>1, <1>3, <1>4, <1>5, IdleType DEF Kept
<1>9. Said'
  <2>1. ASSUME ~harm, phase = "writing" PROVE Current'
    <3>1. newsrc = op.text /\ op.text = Stored(op.text, mem) /\ op.kind = "save"
      BY <1>1, <2>1 DEF Kept, Said, Shape
    <3>2. mem' = mem
      BY <1>1, <3>1 DEF EndOp, AfterOp
    <3>3. newsrc' \in Texts /\ newsrc' = Stored(newsrc', mem')
      BY <1>1, <3>1, <3>2 DEF TypeOK
    <3>4. QED
      BY <3>3 DEF Current
  <2>2. QED
    BY <1>1, <1>3, <1>5, <2>1 DEF Said
<1>10. content' = content
  BY <1>1, <1>4, IdleType DEF content
<1>11. QED
  BY <1>6, <1>7, <1>8, <1>9, <1>10, LearnStep

-----------------------------------------------------------------------------
(* The session and tin_done() *)

\* An article is marked.
LEMMA MarkStep == ASSUME Inv, NEW g \in Groups, Mark(g) PROVE Inv' /\ StoreStep
<1>1. /\ phase = "up" /\ op = Idle /\ mem[g].marks < MaxMarks
      /\ mem' = [mem EXCEPT ![g].marks = @ + 1]
      /\ UNCHANGED <<newsrc, newnewsrc, linked, op, pending, stream, wrote, saved, told, phase, read, harm>>
  BY DEF Mark, Ready, files, exiting
<1>2. mem' \in [Groups -> Line]
  BY <1>1, LinesAssumption DEF Inv, TypeOK, Line, LinesAssumption
<1>3. TypeOK' /\ Shape'
  BY <1>1, <1>2 DEF Inv, TypeOK, Shape
<1>4. Kept' /\ Said' /\ content' = content
  BY <1>1, IdleType DEF Inv, Kept, Said, content
<1>5. QED
  BY <1>3, <1>4, LearnStep DEF Inv

\* The user quits.
LEMMA QuitStep == ASSUME Inv, Quit PROVE Inv' /\ StoreStep
<1>1. /\ phase = "up" /\ op = Idle /\ phase' = "save" /\ told' = FALSE
      /\ UNCHANGED <<newsrc, newnewsrc, linked, mem, op, pending, stream, wrote, saved, read, harm>>
  BY DEF Quit, Ready, files
<1>2. TypeOK' /\ Shape' /\ Kept' /\ Said' /\ content' = content
  BY <1>1, IdleType DEF Inv, TypeOK, Shape, Kept, Said, content
<1>3. QED
  BY <1>2, LearnStep DEF Inv

\* A signal in the session
LEMMA SignalStep == ASSUME Inv, Signal PROVE Inv' /\ StoreStep
<1>1. /\ phase \in {"read", "auto", "up"} /\ phase' = IF phase = "up" THEN "save" ELSE "bye"
      /\ pending' = IF op.step = "write" THEN Buffered ELSE Empty
      /\ stream' = IF op.step = "write" THEN "newnewsrc" ELSE "none"
      /\ op' = Idle /\ told' = FALSE /\ harm' = (harm \/ op # Idle)
      /\ UNCHANGED <<newsrc, newnewsrc, linked, mem, wrote, saved, read>>
  BY DEF Signal, files
<1>2. pending' \in Texts
  <2>1. CASE op.step = "write"
    <3>1. op.text \in Texts /\ Written \in Texts
      BY PrefixText DEF Written, Inv, TypeOK
    <3>2. DOMAIN Written \subseteq DOMAIN op.text
      BY DEF Written, Prefix
    <3>3. Buffered \in [DOMAIN Written \ DOMAIN newnewsrc -> Line]
      BY <3>1, <3>2, TextElim DEF Buffered
    <3>4. DOMAIN Written \ DOMAIN newnewsrc \in SUBSET Groups
      BY <3>1, TextElim
    <3>5. Buffered \in Texts
      BY <3>3, <3>4, TextIntro
    <3>6. QED
      BY <1>1, <2>1, <3>5
  <2>2. CASE op.step # "write"
    BY <1>1, <2>2, EmptyText
  <2>3. QED
    BY <2>1, <2>2
<1>3. TypeOK'
  BY <1>1, <1>2, IdleType DEF Inv, TypeOK
<1>4. Shape'
  BY <1>1, IdleType DEF Inv, Shape
<1>5. Kept' /\ Said'
  BY <1>1, IdleType DEF Inv, Kept, Said, Shape
<1>6. CASE harm'
  BY <1>3, <1>4, <1>5, <1>6, HarmStep DEF Inv
<1>7. CASE ~harm'
  <2>1. content' = content
    BY <1>1, <1>7, IdleType DEF content
  <2>2. QED
    BY <1>3, <1>4, <1>5, <2>1, LearnStep DEF Inv
<1>8. QED
  BY <1>6, <1>7

\* .newnewsrc cannot be created.
LEMMA SaveAtExitFailsStep == ASSUME Inv, SaveAtExitFails PROVE Inv' /\ StoreStep
<1>1. /\ phase = "save" /\ phase' = "judge" /\ wrote' = 0 /\ told' = TRUE
      /\ UNCHANGED <<newsrc, newnewsrc, linked, mem, op, pending, stream, saved, read, harm>>
  BY DEF SaveAtExitFails, files
<1>2. TypeOK' /\ Shape' /\ Kept' /\ Said' /\ content' = content
  BY <1>1, IdleType, LinesAssumption
     DEF Inv, TypeOK, Shape, Kept, Said, content, LinesAssumption
<1>3. QED
  BY <1>2, LearnStep DEF Inv

\* What tin_done() makes of the lines written
LEMMA JudgeStep == ASSUME Inv, Judge PROVE Inv' /\ StoreStep
<1>1. /\ phase = "judge"
      /\ UNCHANGED <<newsrc, newnewsrc, linked, mem, op, pending, stream, wrote, read, harm>>
  BY DEF Judge, files
<1>2. \/ wrote >= 0 /\ saved' = TRUE /\ phase' = "bye" /\ told' = told
      \/ told' = TRUE /\ phase' = "bye" /\ saved' = saved
      \/ phase' \in {"save", "bye"} /\ saved' = saved /\ told' = told
  BY DEF Judge
<1>3. ~saved
  BY <1>1 DEF Inv, Shape
<1>4. TypeOK'
  <2>1. saved \in BOOLEAN /\ told \in BOOLEAN
    BY DEF Inv, TypeOK
  <2>2. saved' \in BOOLEAN /\ told' \in BOOLEAN /\ phase' \in {"save", "bye"}
    BY <1>2, <2>1
  <2>3. QED
    BY <1>1, <2>2 DEF Inv, TypeOK
<1>5. Shape'
  BY <1>1, <1>2, <1>3, IdleType DEF Inv, Shape
<1>6. Kept'
  BY <1>1, <1>2 DEF Inv, Kept
<1>7. Said'
  <2>1. Current' <=> Current
    BY <1>1 DEF Current
  <2>2. QED
    BY <1>1, <1>2, <1>3, <2>1 DEF Inv, Said
<1>8. content' = content
  BY <1>1 DEF content
<1>9. QED
  BY <1>4, <1>5, <1>6, <1>7, <1>8, LearnStep DEF Inv

-----------------------------------------------------------------------------
(* The end of the process and the next start *)

\* exit() leaves texts, and an unharmed file as it is.
LEMMA FlushAllOK ==
  ASSUME Inv, FlushAll
  PROVE  /\ newsrc' \in Texts \cup {NoFile} /\ newnewsrc' \in Texts \cup {NoFile}
         /\ ~harm /\ op.step # "link" => newsrc' = newsrc
<1> DEFINE new == IF op.step = "write" THEN Written ELSE newnewsrc
<1>1. /\ newnewsrc' = (IF stream = "newnewsrc" THEN Overlay(pending, new) ELSE new)
      /\ newsrc' = IF linked THEN newnewsrc'
                   ELSE IF stream = "newsrc" THEN Overlay(pending, newsrc) ELSE newsrc
  BY DEF FlushAll
<1>2. Written \in Texts
  BY PrefixText DEF Inv, TypeOK, Written
<1>3. new \in Texts \cup {NoFile} /\ (stream = "newnewsrc" => new \in Texts)
  BY <1>2 DEF Inv, TypeOK, Shape
<1>4. newnewsrc' \in Texts \cup {NoFile}
  <2>1. stream = "newnewsrc" => Overlay(pending, new) \in Texts
    BY <1>3, OverlayText DEF Inv, TypeOK
  <2>2. QED
    BY <1>1, <1>3, <2>1
<1>5. newsrc' \in Texts \cup {NoFile}
  <2>1. stream = "newsrc" => Overlay(pending, newsrc) \in Texts
    BY OverlayText DEF Inv, TypeOK, Shape
  <2>2. QED
    BY <1>1, <1>4, <2>1 DEF Inv, TypeOK
<1>6. ASSUME ~harm, op.step # "link" PROVE newsrc' = newsrc
  <2>1. stream = "none"
    BY <1>6 DEF Inv, Kept
  <2>2. linked => newsrc = newnewsrc /\ op.step # "write"
    BY <1>6, IdleType DEF Inv, Kept, Shape
  <2>3. QED
    BY <1>1, <2>1, <2>2
<1>7. QED
  BY <1>4, <1>5, <1>6

\* A process that is gone has left an unharmed file as it was.
LEMMA GoneOK ==
  ASSUME Inv, Gone, newsrc' \in Texts \cup {NoFile}, newnewsrc' \in Texts \cup {NoFile},
         linked' = linked, harm' \in BOOLEAN, harm => harm', op.step = "link" => harm',
         ~harm' => newsrc' = newsrc /\ (linked => newsrc' = newnewsrc')
  PROVE  Inv' /\ StoreStep
<1>1. /\ phase' = "down" /\ mem' = [g \in Groups |-> NewLine] /\ op' = Idle
      /\ pending' = Empty /\ stream' = "none" /\ read' = 0 /\ wrote' = 0
      /\ saved' = FALSE /\ told' = FALSE
  BY DEF Gone
<1>2. mem' \in [Groups -> Line]
  BY <1>1, NewLineType
<1>3. TypeOK'
  <2>1. saved' \in BOOLEAN /\ told' \in BOOLEAN /\ linked' \in BOOLEAN /\ pending' \in Texts
    BY <1>1, EmptyText DEF Inv, TypeOK
  <2>2. read' \in -1..N /\ wrote' \in -1..N
    BY <1>1, LinesAssumption DEF LinesAssumption
  <2>3. QED
    BY <1>1, <1>2, <2>1, <2>2, IdleType DEF TypeOK
<1>4. Shape' /\ Kept' /\ Said'
  BY <1>1, IdleType DEF Inv, Shape, Kept, Said
<1>5. CASE harm'
  BY <1>3, <1>4, <1>5, HarmStep DEF Inv
<1>6. CASE ~harm'
  <2>1. content' = content
    BY <1>1, <1>6, IdleType DEF content
  <2>2. QED
    BY <1>3, <1>4, <2>1, LearnStep DEF Inv
<1>7. QED
  BY <1>5, <1>6

\* An unharmed file that has two names is not being written.
LEMMA LinkedFlush ==
  ASSUME Inv, FlushAll, ~harm, linked
  PROVE  newsrc' = newnewsrc'
BY DEF FlushAll

\* exit() at the end of tin_done()
LEMMA ExitStep == ASSUME Inv, Exit PROVE Inv' /\ StoreStep
<1>1. Gone /\ FlushAll /\ harm' = harm /\ linked' = linked /\ phase = "bye"
  BY DEF Exit, FlushAll
<1>2. op.step # "link"
  BY <1>1, IdleType DEF Inv, Shape
<1>3. harm' \in BOOLEAN /\ (harm => harm')
  BY <1>1 DEF Inv, TypeOK
<1>4. newsrc' \in Texts \cup {NoFile} /\ newnewsrc' \in Texts \cup {NoFile}
  BY <1>1, FlushAllOK
<1>5. ASSUME ~harm' PROVE newsrc' = newsrc /\ (linked => newsrc' = newnewsrc')
  BY <1>1, <1>2, <1>5, FlushAllOK, LinkedFlush
<1>6. QED
  BY <1>1, <1>2, <1>3, <1>4, <1>5, GoneOK

\* giveup()
LEMMA GiveUpStep == ASSUME Inv, GiveUp PROVE Inv' /\ StoreStep
<1>1. Gone /\ FlushAll /\ harm' = (harm \/ op.step = "link") /\ linked' = linked
  BY DEF GiveUp, FlushAll
<1>2. harm' \in BOOLEAN /\ (harm => harm') /\ (op.step = "link" => harm')
  BY <1>1 DEF Inv, TypeOK
<1>3. newsrc' \in Texts \cup {NoFile} /\ newnewsrc' \in Texts \cup {NoFile}
  BY <1>1, FlushAllOK
<1>4. ASSUME ~harm' PROVE newsrc' = newsrc /\ (linked => newsrc' = newnewsrc')
  BY <1>1, <1>4, FlushAllOK, LinkedFlush
<1>5. QED
  BY <1>1, <1>2, <1>3, <1>4, GoneOK

\* The process is killed.
LEMMA CrashStep == ASSUME Inv, Crash PROVE Inv' /\ StoreStep
<1>1. /\ Gone /\ harm' = (harm \/ op.step = "link")
      /\ UNCHANGED <<newsrc, newnewsrc, linked>>
  BY DEF Crash, files
<1>2. harm' \in BOOLEAN /\ (harm => harm') /\ (op.step = "link" => harm')
  BY <1>1 DEF Inv, TypeOK
<1>3. newsrc' \in Texts \cup {NoFile} /\ newnewsrc' \in Texts \cup {NoFile} /\ linked' = linked
  BY <1>1 DEF Inv, TypeOK
<1>4. ASSUME ~harm' PROVE newsrc' = newsrc /\ (linked => newsrc' = newnewsrc')
  BY <1>1, <1>4 DEF Inv, Kept
<1>5. QED
  BY <1>1, <1>2, <1>3, <1>4, GoneOK

\* The next session begins.
LEMMA StartStep == ASSUME Inv, Start PROVE Inv' /\ StoreStep
<1>1. /\ phase = "down" /\ phase' = "read" /\ newnewsrc' = NoFile /\ linked' = FALSE
      /\ UNCHANGED <<newsrc, mem, op, pending, stream, wrote, saved, told, read, harm>>
  BY DEF Start, exiting
<1>2. op = Idle
  BY <1>1 DEF Inv, Shape
<1>3. TypeOK' /\ Shape' /\ Kept' /\ Said' /\ content' = content
  BY <1>1, <1>2, IdleType DEF Inv, TypeOK, Shape, Kept, Said, content
<1>4. QED
  BY <1>3, LearnStep DEF Inv

\* read_newsrc()
LEMMA ReadNewsrcStep == ASSUME Inv, ReadNewsrc PROVE Inv' /\ StoreStep
<1>1. /\ phase = "read" /\ phase' = "up" /\ newsrc # NoFile
      /\ mem' = Loaded(newsrc) /\ read' = Cardinality(DOMAIN newsrc)
      /\ UNCHANGED <<newsrc, newnewsrc, linked, op, pending, stream, wrote, saved, told, harm>>
  BY DEF ReadNewsrc, files, exiting
<1>2. op = Idle /\ newsrc \in Texts
  BY <1>1 DEF Inv, Shape, TypeOK
<1>3. mem' \in [Groups -> Line] /\ read' \in -1..N
  BY <1>1, <1>2, LoadedType, LinesOfText, LinesAssumption DEF LinesAssumption
<1>4. TypeOK' /\ Shape' /\ Kept' /\ Said' /\ content' = content
  BY <1>1, <1>2, <1>3, IdleType DEF Inv, TypeOK, Shape, Kept, Said, content
<1>5. QED
  BY <1>4, LearnStep DEF Inv

\* The lines of new groups: a text without marks, like every part of it.
LEMMA NewText ==
  ASSUME NEW D \in SUBSET Groups, NEW b \in BOOLEAN,
         NEW t \in Prefixes([g \in D |-> [sub |-> b, marks |-> 0]])
  PROVE  t \in Texts /\ Unmarked(t)
<1>1. [sub |-> b, marks |-> 0] \in Line
  BY LinesAssumption DEF Line, LinesAssumption
<1>2. [g \in D |-> [sub |-> b, marks |-> 0]] \in Texts
  BY <1>1, TextIntro
<1>3. PICK k \in 0..N : t = Prefix([g \in D |-> [sub |-> b, marks |-> 0]], k)
  BY DEF Prefixes
<1>4. QED
  BY <1>2, <1>3, PrefixText DEF Prefix, Unmarked

\* create_newsrc()
LEMMA CreateNewsrcStep == ASSUME Inv, CreateNewsrc PROVE Inv' /\ StoreStep
<1> DEFINE all == [g \in Groups |-> NewLine]
<1>1. /\ phase = "read" /\ newsrc = NoFile
      /\ UNCHANGED <<newnewsrc, linked, mem, op, pending, stream, wrote, saved, told, harm>>
      /\ \/ newsrc' = all /\ phase' = "auto" /\ read' = read
         \/ newsrc' \in Prefixes(all) \cup {NoFile} /\ read' = -1 /\ phase' = "up"
  BY DEF CreateNewsrc, exiting
<1>2. op = Idle /\ stream = "none"
  BY <1>1 DEF Inv, Shape
<1>3. all \in Texts /\ Unmarked(all)
  BY NewLineType, TextIntro DEF Unmarked, NewLine
<1>4. \A t \in Prefixes(all) : t \in Texts /\ Unmarked(t)
  BY NewText DEF NewLine
<1>5. (newsrc' \in Texts /\ Unmarked(newsrc')) \/ newsrc' = NoFile
  BY <1>1, <1>3, <1>4
<1>6. TypeOK'
  BY <1>1, <1>5, LinesAssumption DEF Inv, TypeOK, LinesAssumption
<1>7. ~harm => ~linked
  BY <1>1, <1>2, IdleType DEF Inv, Kept
<1>8. Shape'
  BY <1>1, <1>2, IdleType DEF Inv, Shape
<1>9. Kept' /\ Said'
  BY <1>1, <1>2, <1>3, <1>7, IdleType DEF Inv, Kept, Said
<1>10. StoreStep
  <2>1. CASE harm \/ newsrc' = NoFile
    <3>1. content' = content
      BY <1>1, <1>2, <2>1, IdleType DEF content
    <3>2. QED
      BY <1>6, <3>1, LearnStep
  <2>2. CASE ~harm /\ newsrc' # NoFile
    <3>1. content = NoFile /\ content' = newsrc' /\ mem' = mem
      BY <1>1, <1>2, <2>2, IdleType DEF content
    <3>2. Store!Create
      BY <1>5, <2>2, <3>1, StoreIsLines DEF Store!Create
    <3>3. QED
      BY <3>2 DEF StoreStep, Store!Next
  <2>3. QED
    BY <2>1, <2>2
<1>11. QED
  BY <1>6, <1>8, <1>9, <1>10 DEF Inv

\* auto_subscribe_groups()
LEMMA AutoSubscribeStep == ASSUME Inv, AutoSubscribe PROVE Inv' /\ StoreStep
<1>1. /\ phase = "auto" /\ phase' = "read"
      /\ newsrc' \in {newsrc} \cup
                     Prefixes([g \in DefaultGroups |-> [sub |-> TRUE, marks |-> 0]])
      /\ UNCHANGED <<newnewsrc, linked, mem, op, pending, stream, wrote, saved, told, read, harm>>
  BY DEF AutoSubscribe, exiting
<1>2. op = Idle /\ stream = "none"
  BY <1>1 DEF Inv, Shape
<1>3. newsrc' = newsrc \/ (newsrc' \in Texts /\ Unmarked(newsrc'))
  BY <1>1, NewText, FileAssumption DEF FileAssumption
<1>4. TypeOK'
  BY <1>1, <1>3 DEF Inv, TypeOK
<1>5. ~harm => ~linked
  BY <1>1, <1>2, IdleType DEF Inv, Kept
<1>6. Shape'
  BY <1>1, <1>2, IdleType DEF Inv, Shape
<1>7. Kept' /\ Said'
  BY <1>1, <1>2, <1>5, IdleType DEF Inv, Kept, Said
<1>8. StoreStep
  <2>1. CASE harm \/ newsrc' = newsrc
    <3>1. content' = content
      BY <1>1, <1>2, <2>1, IdleType DEF content
    <3>2. QED
      BY <1>4, <3>1, LearnStep
  <2>2. CASE ~harm /\ newsrc' # newsrc
    <3>1. content = newsrc /\ content' = newsrc' /\ mem' = mem
      BY <1>1, <1>2, <2>2, IdleType DEF content
    <3>2. newsrc \in Texts /\ Unmarked(newsrc)
      BY <1>1, <2>2 DEF Inv, Kept
    <3>3. Store!Create
      BY <1>3, <2>2, <3>1, <3>2, StoreIsLines DEF Store!Create
    <3>4. QED
      BY <3>3 DEF StoreStep, Store!Next
  <2>3. QED
    BY <2>1, <2>2
<1>9. QED
  BY <1>4, <1>6, <1>7, <1>8 DEF Inv

-----------------------------------------------------------------------------
(* The specification *)

\* The initial states satisfy the invariant and are those of NewsrcStore.
LEMMA InitOK == Init => Inv /\ Store!Init
<1> SUFFICES ASSUME Init PROVE Inv /\ Store!Init
  OBVIOUS
<1>1. newsrc \in Texts \cup {NoFile} /\ mem \in [Groups -> Line]
  BY TextIntro, NewLineType DEF Init
<1>2. TypeOK
  <2>1. {saved, told, linked, harm} \subseteq BOOLEAN /\ pending \in Texts
    BY EmptyText DEF Init
  <2>2. read \in -1..N /\ wrote \in -1..N
    BY LinesAssumption DEF Init, LinesAssumption
  <2>3. QED
    BY <1>1, <2>1, <2>2, IdleType DEF Init, TypeOK
<1>3. Shape /\ Kept /\ Said
  BY IdleType DEF Init, Shape, Kept, Said
<1>4. content = newsrc
  BY IdleType DEF Init, content
<1>5. Store!Init
  BY <1>1, <1>4, StoreIsLines DEF Store!Init
<1>6. QED
  BY <1>2, <1>3, <1>5 DEF Inv

\* Every step keeps the invariant and is a step of NewsrcStore, or none.
LEMMA NextOK == Inv /\ [Next]_vars => Inv' /\ StoreStep
<1> SUFFICES ASSUME Inv, [Next]_vars PROVE Inv' /\ StoreStep
  OBVIOUS
<1>1. CASE UNCHANGED vars
  <2>1. UNCHANGED <<newsrc, newnewsrc, linked, mem, op, pending, stream, wrote, saved, told,
                    phase, read, harm>>
    BY <1>1 DEF vars, files, exiting
  <2>2. Inv'
    BY <2>1 DEF Inv, TypeOK, Shape, Kept, Said, Current
  <2>3. UNCHANGED <<content, mem>>
    BY <2>1 DEF content
  <2>4. QED
    BY <2>2, <2>3 DEF StoreStep
<1>2. CASE Step
  BY <1>2, WriteLineStep, CloseStep, DiskFullStep, DiskFullMoveStep, UnlinkNewsrcStep, LinkStep,
     LinkFailsStep, UnlinkNewnewsrcStep, SaveAtExitStep, SaveAtExitFailsStep, JudgeStep, ExitStep,
     ReadNewsrcStep, CreateNewsrcStep, AutoSubscribeStep DEF Step
<1>3. CASE Command
  BY <1>3, SaveStep, MoveGroupStep, ResetStep, QuitStep, SubscribeStep, DeleteGroupStep, MarkStep
     DEF Command
<1>4. CASE Start \/ Signal \/ GiveUp \/ Crash
  BY <1>4, StartStep, SignalStep, GiveUpStep, CrashStep
<1>5. QED
  BY <1>1, <1>2, <1>3, <1>4 DEF Next

\* The invariant holds in every reachable state.
THEOREM FileInv == Spec => []Inv
<1>1. Init => Inv
  BY InitOK
<1>2. Inv /\ [Next]_vars => Inv'
  BY NextOK
<1>3. QED
  BY <1>1, <1>2, PTL DEF Spec

\* The states of a rewriting have their types, for any number of groups.
THEOREM FileTypes == Spec => []TypeOK
<1>1. Inv => TypeOK
  BY DEF Inv
<1>2. QED
  BY <1>1, FileInv, PTL

\* rename_file() is only reached with a complete .newnewsrc.
THEOREM NeverTorn == Spec => []NothingTorn
<1>1. Inv => NothingTorn
  BY InvSafe
<1>2. QED
  BY <1>1, FileInv, PTL

\* A save that was reported without an error is complete.
THEOREM SaveTold == Spec => []SavedOrTold
<1>1. Inv => SavedOrTold
  BY InvSafe
<1>2. QED
  BY <1>1, FileInv, PTL

\* Rewriting the file call by call implements its replacement as a whole.
THEOREM RewritingIsReplacing == Spec => StoreSpec
<1>1. Init => Store!Init
  BY InitOK
<1>2. Inv /\ [Next]_vars => [Store!Next]_(Store!vars)
  BY NextOK DEF StoreStep, Store!vars
<1>3. QED
  BY <1>1, <1>2, FileInv, PTL DEF Spec, StoreSpec, Store!Spec

=============================================================================
