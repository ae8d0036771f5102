----------------------------- MODULE PostingProofs -----------------------------
(***************************************************************************)
(* What becomes of the articles the reader writes (Posting): none is lost  *)
(* on its way between the files and none is sent or offered twice, for any *)
(* texts, newsgroups and settings, any number of articles and of other     *)
(* tins that postpone articles meanwhile, and wherever the program dies.   *)
(***************************************************************************)
EXTENDS Posting, TLAPS

-----------------------------------------------------------------------------
(* The inductive invariant *)

\* The lists of newsgroups that an article can have, and the texts
GroupLists == Targets \cup {<<>>, <<"poster">>}
DraftLists == GroupLists \cup {strip_double_ngs(groups) : groups \in GroupLists}
TextNames == DOMAIN Texts \cup {CHOOSE t \in DOMAIN Texts : TRUE}

Drafts == [id : Nat \ {0}, text : TextNames, groups : DraftLists, as : {"news", "mail"}]
Files == Drafts \cup {NoDraft}
Sent == [id : Nat \ {0}, as : {"news", "mail"}]

Loops == {"loop", "prompt", "repair", "rejected"}
Pickups == {"pickup", "copied", "unlinked", "ask"}
Types == {"POST_QUICK", "POST_NORMAL", "POST_RESPONSE", "POST_REPOST", "POST_POSTPONED"}

DraftTypes ==
  /\ article \in Files /\ backup \in Files /\ dead_article \in Files
  /\ letter \in Files /\ cancel \in Files
  /\ dead_articles \in Seq(Drafts)
  /\ postponed \in Seq(Drafts) /\ postponed_tmp \in Seq(Drafts)

TypesOK ==
  /\ DraftTypes
  /\ pc \in {"idle", "letter", "cancel"} \cup Loops \cup Pickups
  /\ type \in Types \cup {"none"} /\ art_type \in {"news", "mail"}
  /\ count \in Nat /\ written \in Nat
  /\ sent \in Seq(Sent) /\ offered \in Seq(Nat \ {0})
  /\ given_up \subseteq Nat /\ lost \subseteq Nat

\* The sequence has an article of that number.
In(n, s) == \E i \in 1..Len(s) : s[i].id = n
Distinct(s) == \A i, j \in 1..Len(s) : s[i].id = s[j].id => i = j

\* ~/.article holds an article that post_loop() or pickup_postponed_articles()
\* has in its hands, not what an earlier one has left behind.
InHand == pc \in Loops \cup {"unlinked", "ask"}

\* The article is somewhere it can still be sent from.
Live(n) ==
  \/ In(n, postponed)
  \/ InHand /\ article.id = n
  \/ pc = "unlinked" /\ In(n, postponed_tmp)
  \/ pc = "letter" /\ letter.id = n
  \/ pc = "cancel" /\ cancel.id = n

\* It has gone the way of all articles.
Gone(n) ==
  \/ dead_article.id = n \/ In(n, dead_articles) \/ In(n, sent)
  \/ n \in given_up \/ n \in lost

\* Which posting a prompt is of
PlaceOK ==
  /\ pc \in {"idle", "letter", "cancel"} <=> type = "none"
  /\ pc \in Pickups => type = "POST_POSTPONED"
  /\ pc = "rejected" => backup = article
  /\ InHand => article # NoDraft
  /\ pc = "letter" => letter # NoDraft
  /\ pc = "cancel" => cancel # NoDraft

\* Numbers that were not given out are nowhere.
Fresh ==
  /\ \A n \in Nat : Live(n) => n <= written
  /\ \A n \in Nat : In(n, sent) => n <= written
  /\ \A i \in 1..Len(offered) : offered[i] <= written

\* Every article is at one place that it can be sent from, if any.
OnePlace ==
  /\ Distinct(postponed)
  /\ InHand => ~In(article.id, postponed)
  /\ pc = "unlinked" =>
       /\ Distinct(postponed_tmp) /\ ~In(article.id, postponed_tmp)
       /\ \A n \in Nat : In(n, postponed) => ~In(n, postponed_tmp)
  /\ pc = "letter" => ~In(letter.id, postponed)
  /\ pc = "cancel" => ~In(cancel.id, postponed)

\* Between copying and unlinking, the first article and the copy are what the
\* postponed file begins with; what came later is known to be lost, and so is
\* what comes before the copy is renamed.
CopiedOK ==
  /\ pc = "copied" =>
       /\ article # NoDraft /\ Len(postponed_tmp) + 1 <= Len(postponed)
       /\ article.id = postponed[1].id
       /\ \A i \in 1..Len(postponed_tmp) : postponed_tmp[i] = postponed[i + 1]
       /\ \A i \in 1..Len(postponed) : i > Len(postponed_tmp) + 1 => postponed[i].id \in lost
  /\ pc = "unlinked" => \A n \in Nat : In(n, postponed) => n \in lost

\* As many as pickup_postponed_articles() still counts have not been offered,
\* and they are at the front of the file.
OfferedOK ==
  /\ type # "POST_POSTPONED" => offered = <<>> /\ count = 0
  /\ \A i, j \in 1..Len(offered) : offered[i] = offered[j] => i = j
  /\ pc # "unlinked" => count <= Len(postponed)
  /\ pc \in {"copied", "unlinked"} =>
       /\ count > 0 /\ count <= Len(postponed_tmp) + 1
       /\ \A i \in 1..Len(offered) : offered[i] # article.id
  /\ \A i \in 1..count, j \in 1..Len(offered) :
       IF pc = "unlinked"
       THEN i < count => postponed_tmp[i].id # offered[j]
       ELSE postponed[i].id # offered[j]

\* ~/dead.article is the last of ~/dead.articles, if these are kept.
DeadOK == keep_dead_articles => dead_article = NoDraft \/ In(dead_article.id, dead_articles)

IInv ==
  /\ TypesOK /\ PlaceOK /\ Fresh /\ OnePlace /\ CopiedOK /\ OfferedOK /\ DeadOK
  /\ \A n \in 1..written : Live(n) \/ Gone(n)
  /\ \A n \in Nat : Live(n) => ~In(n, sent)
  /\ SentOnce

-----------------------------------------------------------------------------
(* Sequences of drafts *)

LEMMA InEmpty ==
  /\ \A n : ~In(n, <<>>)
  /\ Distinct(<<>>)
  BY DEF In, Distinct

LEMMA InAppend ==
  ASSUME NEW S, NEW s \in Seq(S), NEW d \in S
  PROVE  /\ Append(s, d) \in Seq(S) /\ Len(Append(s, d)) = Len(s) + 1
         /\ \A i \in 1..Len(s) : Append(s, d)[i] = s[i]
         /\ Append(s, d)[Len(s) + 1] = d
         /\ \A n : In(n, Append(s, d)) <=> In(n, s) \/ d.id = n
         /\ Distinct(s) /\ ~In(d.id, s) => Distinct(Append(s, d))
<1> DEFINE t == Append(s, d)
<1>1. /\ t \in Seq(S) /\ Len(t) = Len(s) + 1
      /\ \A i \in 1..Len(s) : t[i] = s[i]
      /\ t[Len(s) + 1] = d /\ Len(s) \in Nat
  OBVIOUS
<1> HIDE DEF t
<1>2. ASSUME NEW n, In(n, t) PROVE In(n, s) \/ d.id = n
  BY <1>1, <1>2 DEF In
<1>3. ASSUME NEW n, In(n, s) \/ d.id = n PROVE In(n, t)
  BY <1>1, <1>3 DEF In
<1>4. ASSUME Distinct(s), ~In(d.id, s) PROVE Distinct(t)
  BY <1>1, <1>4 DEF In, Distinct
<1>5. QED
  BY <1>1, <1>2, <1>3, <1>4 DEF t

LEMMA InTail ==
  ASSUME NEW S, NEW s \in Seq(S), s # <<>>
  PROVE  /\ Tail(s) \in Seq(S) /\ Len(Tail(s)) = Len(s) - 1 /\ Len(s) \in Nat \ {0}
         /\ Head(s) = s[1] /\ s[1] \in S
         /\ \A i \in 1..Len(Tail(s)) : Tail(s)[i] = s[i + 1]
         /\ \A n : In(n, s) <=> In(n, Tail(s)) \/ s[1].id = n
         /\ Distinct(s) => Distinct(Tail(s)) /\ ~In(s[1].id, Tail(s))
<1> DEFINE t == Tail(s)
<1>1. /\ t \in Seq(S) /\ Len(t) = Len(s) - 1 /\ Len(s) \in Nat \ {0}
      /\ \A i \in 1..Len(t) : t[i] = s[i + 1]
      /\ Head(s) = s[1] /\ s[1] \in S
  OBVIOUS
<1> HIDE DEF t
<1>2. ASSUME NEW n, In(n, s) PROVE In(n, t) \/ s[1].id = n
  <2>1. PICK i \in 1..Len(s) : s[i].id = n
    BY <1>2 DEF In
  <2>2. CASE i = 1
    BY <2>1, <2>2
  <2>3. CASE i # 1
    <3>1. i - 1 \in 1..Len(t) /\ t[i - 1] = s[i]
      BY <1>1, <2>3
    <3>2. QED
      BY <3>1, <2>1 DEF In
  <2>4. QED
    BY <2>2, <2>3
<1>3. ASSUME NEW n, In(n, t) \/ s[1].id = n PROVE In(n, s)
  BY <1>1, <1>3 DEF In
<1>4. ASSUME Distinct(s) PROVE Distinct(t)
  BY <1>1, <1>4 DEF Distinct
<1>5. ASSUME Distinct(s), In(s[1].id, t) PROVE FALSE
  <2>1. PICK i \in 1..Len(t) : t[i].id = s[1].id
    BY <1>5 DEF In
  <2>2. i + 1 \in 1..Len(s) /\ 1 \in 1..Len(s) /\ s[i + 1].id = s[1].id /\ i + 1 # 1
    BY <1>1, <2>1
  <2>3. QED
    BY <2>2, <1>5 DEF Distinct
<1>6. QED
  BY <1>1, <1>2, <1>3, <1>4, <1>5 DEF t

-----------------------------------------------------------------------------
(***************************************************************************)
(* What the actions have in common.  An article is begun; it is worked on; *)
(* or it leaves the hands of post_loop() or pickup_postponed_articles(),   *)
(* into the postponed file or another way.                                 *)
(***************************************************************************)
Rest == UNCHANGED <<letter, cancel, postponed_tmp, written>>

EditStep ==
  /\ pc \in Loops \cup {"ask"} /\ pc' \in Loops
  /\ article' \in Drafts /\ article'.id = article.id
  /\ UNCHANGED <<type, count, offered, postponed, dead_article, dead_articles, sent, given_up, lost>>
  /\ Rest

FinishStep ==
  /\ pc \in Loops \cup {"ask"}
  /\ \/ pc' = "pickup" /\ type = "POST_POSTPONED" /\ UNCHANGED <<count, offered>>
     \/ pc' = "idle" /\ count' = 0 /\ offered' = <<>>
  /\ \/ postponed' = postponed /\ \A n \in Nat : n = article.id => Gone(n)'
     \/ \E d \in Drafts : d.id = article.id /\ postponed' = Append(postponed, d)
  /\ \/ sent' = sent
     \/ /\ postponed' = postponed
        /\ \E d \in Sent : d.id = article.id /\ sent' = Append(sent, d)
  /\ \A n \in Nat \ {0} : Gone(n) => Gone(n)'
  /\ Rest

ComposeStep ==
  /\ pc = "idle" /\ pc' = "loop" /\ written' = written + 1
  /\ article' \in Drafts /\ article'.id = written'
  /\ type' \in Types \ {"POST_POSTPONED"}
  /\ UNCHANGED <<count, offered, postponed, postponed_tmp, dead_article, dead_articles,
                 letter, cancel, sent, given_up, lost>>

Parts ==
  /\ TypesOK /\ PlaceOK /\ Fresh /\ OnePlace /\ CopiedOK /\ OfferedOK /\ DeadOK
  /\ \A n \in 1..written : Live(n) \/ Gone(n)
  /\ \A n \in Nat : Live(n) => ~In(n, sent)
  /\ SentOnce

LEMMA EditOK ==
  ASSUME IInv, TypesOK', PlaceOK', EditStep
  PROVE  IInv'
<1>1. Parts
  BY DEF IInv, Parts
<1>2. InHand /\ InHand' /\ pc \notin {"copied", "unlinked", "letter", "cancel"}
      /\ pc' \notin {"copied", "unlinked", "letter", "cancel"}
  BY DEF EditStep, InHand, Loops
<1>3. /\ article'.id = article.id
      /\ UNCHANGED <<type, count, offered, postponed, dead_article, dead_articles, sent, given_up, lost>>
      /\ UNCHANGED <<letter, cancel, postponed_tmp, written>>
  BY DEF EditStep, Rest
<1>4. \A n : Live(n)' <=> Live(n)
  BY <1>2, <1>3 DEF Live
<1>5. Fresh'
  BY <1>1, <1>3, <1>4 DEF Fresh, Parts
<1>6. OnePlace'
  BY <1>1, <1>2, <1>3 DEF OnePlace, Parts
<1>7. CopiedOK' /\ DeadOK'
  BY <1>1, <1>2, <1>3 DEF CopiedOK, DeadOK, Parts
<1>8. OfferedOK'
  BY <1>1, <1>2, <1>3 DEF OfferedOK, Parts
<1>9. /\ \A n \in 1..written' : Live(n)' \/ Gone(n)'
      /\ \A n \in Nat : Live(n)' => ~In(n, sent')
      /\ SentOnce'
  BY <1>1, <1>3, <1>4 DEF Gone, SentOnce, Parts
<1>10. QED
  BY <1>5, <1>6, <1>7, <1>8, <1>9 DEF IInv

LEMMA FinishOK ==
  ASSUME IInv, TypesOK', PlaceOK', DeadOK', FinishStep
  PROVE  IInv'
<1>1. Parts
  BY DEF IInv, Parts
<1>2. InHand /\ ~InHand' /\ pc \notin {"copied", "unlinked", "letter", "cancel"}
      /\ pc' \notin {"copied", "unlinked", "letter", "cancel"}
      /\ article # NoDraft /\ article \in Drafts
  BY <1>1 DEF FinishStep, InHand, Loops, PlaceOK, Parts, TypesOK, DraftTypes, Files
<1>3. UNCHANGED <<letter, cancel, postponed_tmp, written>>
  BY DEF FinishStep, Rest
<1>4. /\ postponed \in Seq(Drafts) /\ sent \in Seq(Sent) /\ written \in Nat
      /\ postponed' \in Seq(Drafts) /\ offered \in Seq(Nat \ {0})
      /\ count \in Nat
  BY <1>1 DEF TypesOK, DraftTypes, Parts
<1>5. ASSUME NEW d \in Drafts, d.id = article.id, postponed' = Append(postponed, d)
      PROVE  /\ Len(postponed') = Len(postponed) + 1
             /\ \A i \in 1..Len(postponed) : postponed'[i] = postponed[i]
             /\ \A n : In(n, postponed') <=> In(n, postponed) \/ article.id = n
             /\ Distinct(postponed')
  <2>1. /\ Len(Append(postponed, d)) = Len(postponed) + 1
        /\ \A i \in 1..Len(postponed) : Append(postponed, d)[i] = postponed[i]
        /\ \A n : In(n, Append(postponed, d)) <=> In(n, postponed) \/ d.id = n
        /\ Distinct(postponed) /\ ~In(d.id, postponed) => Distinct(Append(postponed, d))
    BY ONLY <1>4, d \in Drafts, InAppend
  <2>2. Distinct(postponed) /\ ~In(article.id, postponed)
    BY <1>1, <1>2 DEF OnePlace, Parts
  <2>3. QED
    BY <1>5, <2>1, <2>2
<1>6. /\ \/ postponed' = postponed /\ \A n \in Nat : n = article.id => Gone(n)'
         \/ /\ Len(postponed') = Len(postponed) + 1
            /\ \A i \in 1..Len(postponed) : postponed'[i] = postponed[i]
            /\ \A n : In(n, postponed') <=> In(n, postponed) \/ article.id = n
            /\ sent' = sent
      /\ Distinct(postponed')
      /\ \A i \in 1..Len(postponed) : postponed'[i] = postponed[i]
      /\ Len(postponed') >= Len(postponed)
  <2>1. CASE postponed' = postponed
    BY <1>1, <1>4, <2>1 DEF OnePlace, Parts, FinishStep
  <2>2. CASE postponed' # postponed
    BY <1>4, <1>5, <2>2 DEF FinishStep
  <2>3. QED
    BY <2>1, <2>2
<1>7. \A n : Live(n)' <=> In(n, postponed')
  BY <1>2 DEF Live
<1>8. \A n : Live(n) <=> In(n, postponed) \/ article.id = n
  BY <1>2 DEF Live
<1>9. \A n : Live(n)' => Live(n)
  BY <1>6, <1>7, <1>8
<1>10. SentOnce' /\ \A n : In(n, sent') => In(n, sent) \/ (n = article.id /\ postponed' = postponed)
  <2>1. CASE sent' = sent
    BY <1>1, <2>1 DEF SentOnce, Parts
  <2>2. CASE postponed' = postponed /\ \E d \in Sent : d.id = article.id /\ sent' = Append(sent, d)
    <3>1. PICK d \in Sent : d.id = article.id /\ sent' = Append(sent, d)
      BY <2>2
    <3>2. /\ \A n : In(n, Append(sent, d)) <=> In(n, sent) \/ d.id = n
          /\ Distinct(sent) /\ ~In(d.id, sent) => Distinct(Append(sent, d))
          /\ Append(sent, d) \in Seq(Sent)
      BY ONLY <1>4, d \in Sent, InAppend
    <3>3. DOMAIN sent = 1..Len(sent) /\ DOMAIN sent' = 1..Len(sent')
      BY <1>4, <3>1, <3>2
    <3>4. ~In(article.id, sent) /\ Distinct(sent)
      BY <1>1, <1>2, <1>8, <3>3 DEF Parts, SentOnce, Distinct, Drafts
    <3>5. QED
      BY <3>1, <3>2, <3>3, <3>4, <2>2 DEF SentOnce, Distinct
  <2>3. QED
    BY <2>1, <2>2 DEF FinishStep
<1>11. Fresh'
  <2>1. \A n \in Nat : In(n, sent') => n <= written
    BY <1>1, <1>8, <1>10 DEF Fresh, Parts
  <2>2. \A i \in 1..Len(offered') : offered'[i] <= written
    BY <1>1 DEF Fresh, Parts, FinishStep
  <2>3. \A n \in Nat : Live(n)' => n <= written
    BY <1>1, <1>9 DEF Fresh, Parts
  <2>4. QED
    BY <1>3, <2>1, <2>2, <2>3 DEF Fresh
<1>12. OnePlace' /\ CopiedOK'
  BY <1>2, <1>6 DEF OnePlace, CopiedOK
<1>13. OfferedOK'
  <2>1. CASE pc' = "pickup" /\ type = "POST_POSTPONED" /\ UNCHANGED <<count, offered>>
    <3>1. type' = "POST_POSTPONED"
      BY <2>1 DEF PlaceOK, Pickups
    <3>2. \A i \in 1..count : i \in 1..Len(postponed)
      BY <1>1, <1>2, <1>4 DEF OfferedOK, Parts
    <3>3. /\ \A i, j \in 1..Len(offered) : offered[i] = offered[j] => i = j
          /\ count <= Len(postponed)
          /\ \A i \in 1..count, j \in 1..Len(offered) : postponed[i].id # offered[j]
      BY <1>1, <1>2 DEF OfferedOK, Parts
    <3>4. \A i \in 1..count : postponed'[i] = postponed[i]
      BY <1>6, <3>2
    <3>5. count <= Len(postponed')
      BY <1>4, <1>6, <3>3
    <3>6. QED
      BY <1>2, <2>1, <3>1, <3>3, <3>4, <3>5 DEF OfferedOK
  <2>2. CASE pc' = "idle" /\ count' = 0 /\ offered' = <<>>
    BY <1>4, <1>6, <2>2 DEF OfferedOK
  <2>3. QED
    BY <2>1, <2>2 DEF FinishStep
<1>14. \A n \in 1..written' : Live(n)' \/ Gone(n)'
  <2>1. ASSUME NEW n \in 1..written, Gone(n) PROVE Gone(n)'
    BY <2>1 DEF FinishStep
  <2>2. \A n \in 1..written : Live(n) => Live(n)' \/ Gone(n)'
    BY <1>6, <1>7, <1>8
  <2>3. QED
    BY <1>1, <1>3, <2>1, <2>2 DEF Parts
<1>15. \A n \in Nat : Live(n)' => ~In(n, sent')
  <2>1. ASSUME NEW n \in Nat, Live(n)', In(n, sent') PROVE FALSE
    <3>1. CASE In(n, sent)
      BY <1>1, <1>9, <2>1, <3>1 DEF Parts
    <3>2. CASE n = article.id /\ postponed' = postponed
      BY <1>1, <1>2, <1>7, <2>1, <3>2 DEF Parts, OnePlace
    <3>3. QED
      BY <1>10, <2>1, <3>1, <3>2
  <2>2. QED
    BY <2>1
<1>16. QED
  BY <1>10, <1>11, <1>12, <1>13, <1>14, <1>15 DEF IInv

LEMMA ComposeOK ==
  ASSUME IInv, TypesOK', PlaceOK', ComposeStep
  PROVE  IInv'
<1>1. Parts
  BY DEF IInv, Parts
<1>2. ~InHand /\ InHand' /\ pc \notin {"copied", "unlinked", "letter", "cancel"}
      /\ pc' \notin {"copied", "unlinked", "letter", "cancel"}
  BY DEF ComposeStep, InHand, Loops
<1>3. /\ written' = written + 1 /\ written \in Nat /\ article'.id = written + 1
      /\ UNCHANGED <<count, offered, postponed, dead_article, dead_articles,
                     sent, given_up, lost>>
  BY <1>1 DEF ComposeStep, Parts, TypesOK
<1>4. \A n : Live(n)' <=> Live(n) \/ n = written + 1
  BY <1>2, <1>3 DEF Live
<1>5. ~Live(written + 1) /\ ~In(written + 1, postponed) /\ ~In(written + 1, sent)
  <2>1. written + 1 \in Nat /\ ~(written + 1 <= written)
    BY <1>3
  <2>2. QED
    BY <1>1, <2>1 DEF Fresh, Live, Parts
<1>6. Fresh'
  BY <1>1, <1>3, <1>4 DEF Fresh, Parts, TypesOK
<1>7. OnePlace'
  BY <1>1, <1>2, <1>3, <1>5 DEF OnePlace, Parts
<1>8. CopiedOK' /\ DeadOK'
  BY <1>1, <1>2, <1>3 DEF CopiedOK, DeadOK, Parts
<1>9. OfferedOK'
  BY <1>1, <1>2, <1>3 DEF OfferedOK, Parts, ComposeStep, PlaceOK
<1>10. \A n \in 1..written' : Live(n)' \/ Gone(n)'
  BY <1>1, <1>3, <1>4 DEF Gone, Parts
<1>11. (\A n \in Nat : Live(n)' => ~In(n, sent')) /\ SentOnce'
  BY <1>1, <1>3, <1>4, <1>5 DEF SentOnce, Parts
<1>12. QED
  BY <1>6, <1>7, <1>8, <1>9, <1>10, <1>11 DEF IInv

-----------------------------------------------------------------------------
(* One lemma per action *)

LEMMA NewDraft ==
  ASSUME NEW id \in Nat \ {0}, NEW text \in TextNames, NEW groups \in DraftLists,
         NEW as \in {"news", "mail"}
  PROVE  Draft(id, text, groups, as) \in Drafts /\ Draft(id, text, groups, as).id = id
  BY DEF Draft, Drafts

LEMMA DraftEdited ==
  ASSUME NEW d \in Drafts, NEW t \in DOMAIN Texts
  PROVE  [d EXCEPT !.text = t] \in Drafts /\ [d EXCEPT !.text = t].id = d.id
  BY DEF Drafts, TextNames

LEMMA ComposedOK ==
  ASSUME IInv, Idle, NEW how \in Types \ {"POST_POSTPONED"}, NEW groups \in DraftLists,
         NEW as \in {"news", "mail"}, NEW text \in DOMAIN Texts, NEW key,
         Compose(how, groups, as, text, key)
  PROVE  IInv'
<1>1. TypesOK /\ PlaceOK
  BY DEF IInv
<1>2. written' = written + 1 /\ written \in Nat /\ article' = Draft(written', text, groups, as)
  BY <1>1 DEF Compose, TypesOK
<1>3. article' \in Drafts /\ article'.id = written'
  <2>1. written' \in Nat \ {0} /\ text \in TextNames
    BY <1>2 DEF TextNames
  <2>2. QED
    BY <1>2, <2>1, NewDraft
<1>4. ComposeStep
  BY <1>2, <1>3 DEF ComposeStep, Compose, ghosts, Idle
<1>5. TypesOK' /\ PlaceOK'
  <2>1. DraftTypes'
    BY <1>1, <1>3 DEF TypesOK, DraftTypes, Compose, Files
  <2>2. /\ pc' = "loop" /\ type' = how /\ art_type' = as /\ written' \in Nat
        /\ UNCHANGED <<count, sent, offered, given_up, lost>>
    BY <1>2 DEF Compose, ghosts
  <2>3. TypesOK'
    BY <1>1, <2>1, <2>2 DEF TypesOK, Loops
  <2>4. article' # NoDraft
    BY <1>3 DEF Drafts, NoDraft
  <2>5. PlaceOK'
    BY <1>1, <2>2, <2>4 DEF PlaceOK, Pickups, Types
  <2>6. QED
    BY <2>3, <2>5
<1>6. QED
  BY <1>4, <1>5, ComposeOK

LEMMA ListsOfGroups ==
  /\ \A groups \in Targets \cup {<<>>, <<"poster">>} :
       groups \in DraftLists /\ strip_double_ngs(groups) \in DraftLists
  /\ \A groups, n : TypeAt(groups, n) \in {"news", "mail"}
  BY DEF DraftLists, GroupLists, TypeAt

LEMMA PostArticleOK ==
  ASSUME IInv, PostArticle
  PROVE  IInv'
<1>1. PICK groups \in Targets, t \in DOMAIN Texts, how \in {"POST_QUICK", "POST_NORMAL"} :
        Compose(how, strip_double_ngs(groups), TypeAt(groups, Len(groups)), t, "edit")
  BY DEF PostArticle
<1>2. strip_double_ngs(groups) \in DraftLists /\ TypeAt(groups, Len(groups)) \in {"news", "mail"}
  BY ListsOfGroups
<1>3. how \in Types \ {"POST_POSTPONED"} /\ Idle
  BY DEF Types, PostArticle
<1>4. QED
  BY <1>1, <1>2, <1>3, ComposedOK

LEMMA PostResponseOK ==
  ASSUME IInv, PostResponse
  PROVE  IInv'
<1>1. PICK groups \in GroupLists, as \in {"news", "mail"}, t \in DOMAIN Texts :
        Compose("POST_RESPONSE", strip_double_ngs(groups), as, t, "edit")
  BY DEF PostResponse, GroupLists
<1>2. strip_double_ngs(groups) \in DraftLists
  BY ListsOfGroups DEF GroupLists
<1>3. "POST_RESPONSE" \in Types \ {"POST_POSTPONED"} /\ Idle
  BY DEF Types, PostResponse
<1>4. QED
  BY <1>1, <1>2, <1>3, ComposedOK

LEMMA RepostArticleOK ==
  ASSUME IInv, RepostArticle
  PROVE  IInv'
<1>1. PICK groups \in Targets, t \in DOMAIN Texts, key \in Keys :
        Compose("POST_REPOST", groups, TypeAt(groups, Len(groups)), t, key)
  BY DEF RepostArticle
<1>2. groups \in DraftLists /\ TypeAt(groups, Len(groups)) \in {"news", "mail"}
  BY ListsOfGroups
<1>3. "POST_REPOST" \in Types \ {"POST_POSTPONED"} /\ Idle
  BY DEF Types, RepostArticle
<1>4. QED
  BY <1>1, <1>2, <1>3, ComposedOK

\* Where post_loop() can be: an article is in its hands.
LEMMA Holding ==
  ASSUME IInv, pc \in Loops \cup {"ask"}
  PROVE  /\ TypesOK /\ DraftTypes /\ PlaceOK /\ DeadOK
         /\ article \in Drafts /\ article.id \in Nat \ {0} /\ Ids({article}) = {article.id}
<1>1. TypesOK /\ DraftTypes /\ PlaceOK /\ DeadOK
  BY DEF IInv, TypesOK
<1>2. article \in Drafts
  BY <1>1 DEF PlaceOK, InHand, Loops, DraftTypes, Files
<1>3. article.id \in Nat \ {0}
  BY <1>2 DEF Drafts
<1>4. QED
  BY <1>1, <1>2, <1>3 DEF Ids

\* The end of an article in post_loop()
LEMMA ReturnOK ==
  ASSUME IInv, pc \in Loops, Return, UNCHANGED <<count, offered>>
  PROVE  /\ \/ pc' = "pickup" /\ type = "POST_POSTPONED" /\ UNCHANGED <<count, offered>>
            \/ pc' = "idle" /\ count' = 0 /\ offered' = <<>>
         /\ PlaceOK' /\ pc' \in {"idle"} \cup Pickups /\ type' \in Types \cup {"none"}
<1>1. OfferedOK /\ type \in Types \cup {"none"}
  BY DEF IInv, TypesOK
<1>2. CASE type = "POST_POSTPONED"
  BY <1>1, <1>2 DEF Return, PlaceOK, InHand, Loops, Pickups, Types
<1>3. CASE type # "POST_POSTPONED"
  BY <1>1, <1>3 DEF Return, PlaceOK, InHand, Loops, Pickups, OfferedOK
<1>4. QED
  BY <1>2, <1>3

LEMMA UnlinkOK == \A f \in Files : Unlink(f) \in Files
  BY DEF Unlink, Files

\* An article is given up, or lost, where nothing else happens.
LEMMA DroppedOK ==
  ASSUME IInv, pc \in Loops, Return, article' = Unlink(article),
         \/ given_up' = given_up \cup Ids({article}) /\ lost' = lost
         \/ lost' = lost \cup Ids({article}) /\ given_up' = given_up,
         UNCHANGED <<backup, dead_article, dead_articles, postponed, sent, art_type>>,
         UNCHANGED <<count, letter, cancel, postponed_tmp, written, offered>>
  PROVE  IInv'
<1>1. /\ TypesOK /\ DraftTypes /\ PlaceOK /\ DeadOK
      /\ article \in Drafts /\ article.id \in Nat \ {0} /\ Ids({article}) = {article.id}
  BY ONLY IInv, pc \in Loops, Holding
<1>2. /\ \/ pc' = "pickup" /\ type = "POST_POSTPONED" /\ UNCHANGED <<count, offered>>
         \/ pc' = "idle" /\ count' = 0 /\ offered' = <<>>
      /\ PlaceOK' /\ pc' \in {"idle"} \cup Pickups /\ type' \in Types \cup {"none"}
  BY ReturnOK
<1>3. TypesOK'
  BY <1>1, <1>2, UnlinkOK DEF TypesOK, DraftTypes, Files
<1>4. DeadOK'
  BY <1>1 DEF DeadOK
<1>5. \A n \in Nat : n = article.id => Gone(n)'
  BY <1>1 DEF Gone
<1>6. \A n \in Nat \ {0} : Gone(n) => Gone(n)'
  BY <1>1 DEF Gone
<1>7. FinishStep
  BY <1>1, <1>2, <1>5, <1>6 DEF FinishStep, Rest
<1>8. QED
  BY <1>2, <1>3, <1>4, <1>7, FinishOK

\* The reader goes on with the article, or the program does.
LEMMA WorkedOnOK ==
  ASSUME IInv, pc \in Loops \cup {"ask"}, pc' \in Loops, article' \in Drafts,
         article'.id = article.id, pc' = "rejected" => backup' = article',
         backup' \in Files, art_type' \in {"news", "mail"},
         UNCHANGED <<type, dead_article, dead_articles, postponed, sent, lost, given_up>>,
         UNCHANGED <<count, letter, cancel, postponed_tmp, written, offered>>
  PROVE  IInv'
<1>1. /\ TypesOK /\ DraftTypes /\ PlaceOK
  BY Holding
<1>2. TypesOK'
  BY <1>1 DEF TypesOK, DraftTypes, Files
<1>3. article' # NoDraft
  BY DEF Drafts, NoDraft
<1>4. PlaceOK'
  BY <1>1, <1>3 DEF PlaceOK, Loops, Pickups
<1>5. EditStep
  BY DEF EditStep, Rest
<1>6. QED
  BY <1>2, <1>4, <1>5, EditOK

LEMMA PostEditOK ==
  ASSUME IInv, PostEdit
  PROVE  IInv'
<1>1. /\ pc \in Loops /\ pc \in Loops \cup {"ask"} /\ IInv
      /\ UNCHANGED <<backup, dead_article, dead_articles, postponed, sent, art_type>>
      /\ UNCHANGED <<count, letter, cancel, postponed_tmp, written, offered>>
  BY DEF PostEdit, Loop, Loops, LoopOnly
<1>2. article \in Drafts /\ TypesOK /\ DraftTypes
  BY <1>1, Holding
<1>3. CASE /\ article' = Unlink(article) /\ Return
           /\ \/ given_up' = given_up \cup Ids({article}) /\ lost' = lost
              \/ lost' = lost \cup Ids({article}) /\ given_up' = given_up
  BY ONLY <1>1, <1>3, DroppedOK
<1>4. CASE \E t \in DOMAIN Texts :
          /\ article' = [article EXCEPT !.text = t]
          /\ pc' = IF Checked(t) THEN "prompt" ELSE "repair"
          /\ UNCHANGED <<type, ch, lost, given_up>>
  <2>1. /\ pc' \in Loops /\ pc' # "rejected" /\ article' \in Drafts /\ article'.id = article.id
        /\ UNCHANGED <<type, lost, given_up>>
    BY <1>2, <1>4, DraftEdited DEF Loops
  <2>2. backup' \in Files /\ art_type' \in {"news", "mail"}
    BY <1>1, <1>2 DEF TypesOK, DraftTypes
  <2>3. QED
    BY <1>1, <2>1, <2>2, WorkedOnOK
<1>5. QED
  BY <1>3, <1>4 DEF PostEdit, Quit

LEMMA RepairOK ==
  ASSUME IInv, Repair
  PROVE  IInv'
<1>1. /\ pc \in Loops /\ pc \in Loops \cup {"ask"} /\ IInv
      /\ UNCHANGED <<backup, dead_article, dead_articles, postponed, sent, art_type, lost>>
      /\ UNCHANGED <<count, letter, cancel, postponed_tmp, written, offered>>
  BY DEF Repair, Loops
<1>2. article \in Drafts /\ TypesOK /\ DraftTypes
  BY <1>1, Holding
<1>3. CASE Quit
  <2>1. /\ article' = Unlink(article) /\ Return
        /\ \/ given_up' = given_up \cup Ids({article}) /\ lost' = lost
           \/ lost' = lost \cup Ids({article}) /\ given_up' = given_up
    BY <1>1, <1>3 DEF Quit
  <2>2. QED
    BY ONLY <1>1, <2>1, DroppedOK
<1>4. CASE ~Quit
  <2>1. /\ pc' \in {"prompt", "repair"} /\ UNCHANGED <<type, given_up>>
        /\ \/ \E t \in DOMAIN Texts : article' = [article EXCEPT !.text = t]
           \/ article' = article
    BY <1>4 DEF Repair
  <2>2. /\ pc' \in Loops /\ pc' # "rejected" /\ article' \in Drafts /\ article'.id = article.id
    BY <1>2, <2>1, DraftEdited DEF Loops
  <2>3. backup' \in Files /\ art_type' \in {"news", "mail"}
    BY <1>1, <1>2 DEF TypesOK, DraftTypes
  <2>4. QED
    BY <1>1, <2>1, <2>2, <2>3, WorkedOnOK
<1>5. QED
  BY <1>3, <1>4

LEMMA PromptOK ==
  ASSUME IInv, Prompt
  PROVE  IInv'
<1>1. /\ pc \in Loops \cup {"ask"} /\ pc' \in Loops /\ pc' # "rejected"
      /\ UNCHANGED <<backup, dead_article, dead_articles, postponed, sent, art_type, lost, type, given_up>>
      /\ UNCHANGED <<count, letter, cancel, postponed_tmp, written, offered, article>>
  BY DEF Prompt, Loops, files, ghosts
<1>2. article \in Drafts /\ TypesOK /\ DraftTypes
  BY <1>1, Holding
<1>3. backup' \in Files /\ art_type' \in {"news", "mail"} /\ article' \in Drafts
  BY <1>1, <1>2 DEF TypesOK, DraftTypes
<1>4. QED
  BY <1>1, <1>3, WorkedOnOK

LEMMA PostQuitOK ==
  ASSUME IInv, PostQuit
  PROVE  IInv'
<1>1. /\ pc \in Loops /\ IInv
      /\ UNCHANGED <<backup, dead_article, dead_articles, postponed, sent, art_type>>
      /\ UNCHANGED <<count, letter, cancel, postponed_tmp, written, offered>>
      /\ article' = Unlink(article) /\ Return
      /\ \/ given_up' = given_up \cup Ids({article}) /\ lost' = lost
         \/ lost' = lost \cup Ids({article}) /\ given_up' = given_up
  BY DEF PostQuit, Loop, Loops, LoopOnly, Quit
<1>2. QED
  BY ONLY <1>1, DroppedOK

LEMMA PostIspellOK ==
  ASSUME IInv, PostIspell
  PROVE  IInv'
<1>1. /\ pc \in Loops \cup {"ask"} /\ pc' \in Loops /\ pc' # "rejected"
      /\ UNCHANGED <<backup, dead_article, dead_articles, postponed, sent, art_type, lost, type, given_up>>
      /\ UNCHANGED <<count, letter, cancel, postponed_tmp, written, offered>>
  BY DEF PostIspell, Loop, Loops, LoopOnly
<1>2. article \in Drafts /\ TypesOK /\ DraftTypes
  BY <1>1, Holding
<1>3. backup' \in Files /\ art_type' \in {"news", "mail"} /\ article' \in Drafts
      /\ article'.id = article.id
  BY <1>1, <1>2, DraftEdited DEF TypesOK, DraftTypes, PostIspell
<1>4. QED
  BY <1>1, <1>3, WorkedOnOK

LEMMA PostPostOK ==
  ASSUME IInv, PostPost
  PROVE  IInv'
<1>1. /\ pc \in Loops /\ pc \in Loops \cup {"ask"} /\ IInv
      /\ UNCHANGED <<dead_article, dead_articles, postponed, art_type, lost, given_up>>
      /\ UNCHANGED <<count, letter, cancel, postponed_tmp, written, offered>>
  BY DEF PostPost, Loop, Loops, LoopOnly
<1>2. /\ TypesOK /\ DraftTypes /\ PlaceOK /\ DeadOK
      /\ article \in Drafts /\ article.id \in Nat \ {0} /\ Ids({article}) = {article.id}
  BY <1>1, Holding
<1>3. CASE backup' = article /\ pc' = "rejected" /\ UNCHANGED <<type, article, ch, sent, flags>>
  <2>1. /\ pc' \in Loops /\ article' \in Drafts /\ article'.id = article.id /\ backup' = article'
        /\ backup' \in Files /\ art_type' \in {"news", "mail"} /\ UNCHANGED <<type, sent>>
    BY <1>1, <1>2, <1>3 DEF Loops, Files, TypesOK
  <2>2. QED
    BY <1>1, <2>1, WorkedOnOK
<1>4. CASE /\ sent' = Append(sent, [id |-> article.id, as |-> art_type])
           /\ backup' = NoDraft /\ article' = Unlink(article) /\ Return
  <2>1. /\ \/ pc' = "pickup" /\ type = "POST_POSTPONED" /\ UNCHANGED <<count, offered>>
           \/ pc' = "idle" /\ count' = 0 /\ offered' = <<>>
        /\ PlaceOK' /\ pc' \in {"idle"} \cup Pickups /\ type' \in Types \cup {"none"}
    BY <1>1, <1>4, ReturnOK
  <2> DEFINE d == [id |-> article.id, as |-> art_type]
  <2>2. d \in Sent /\ d.id = article.id /\ sent \in Seq(Sent) /\ sent' = Append(sent, d)
    BY <1>2, <1>4 DEF Sent, TypesOK
  <2> HIDE DEF d
  <2>3. sent' \in Seq(Sent) /\ \A n : In(n, sent') <=> In(n, sent) \/ d.id = n
    <3>1. /\ Append(sent, d) \in Seq(Sent)
          /\ \A n : In(n, Append(sent, d)) <=> In(n, sent) \/ d.id = n
      BY ONLY <2>2, InAppend
    <3>2. QED
      BY <2>2, <3>1
  <2>4. TypesOK'
    BY <1>1, <1>2, <1>4, <2>1, <2>3, UnlinkOK DEF TypesOK, DraftTypes, Files
  <2>5. DeadOK'
    BY <1>1, <1>2 DEF DeadOK
  <2>6. \A n \in Nat : n = article.id => Gone(n)'
    BY <2>2, <2>3 DEF Gone
  <2>7. \A n \in Nat \ {0} : Gone(n) => Gone(n)'
    BY <1>1, <2>3 DEF Gone
  <2>8. FinishStep
    BY <1>1, <2>1, <2>2, <2>6, <2>7 DEF FinishStep, Rest
  <2>9. QED
    BY <2>1, <2>4, <2>5, <2>8, FinishOK
<1>5. QED
  BY <1>3, <1>4 DEF PostPost

\* The article goes (back) to the postponed file.
LEMMA BackOK ==
  ASSUME IInv, pc \in Loops \cup {"ask"}, postponed' = Append(postponed, article),
         article' \in Files, backup' \in Files, PlaceOK', pc' \in {"idle"} \cup Pickups,
         type' \in Types \cup {"none"}, art_type' \in {"news", "mail"},
         \/ pc' = "pickup" /\ type = "POST_POSTPONED" /\ UNCHANGED <<count, offered>>
         \/ pc' = "idle" /\ count' = 0 /\ offered' = <<>>,
         UNCHANGED <<dead_article, dead_articles, sent, lost, given_up>>,
         UNCHANGED <<letter, cancel, postponed_tmp, written>>
  PROVE  IInv'
<1>1. /\ TypesOK /\ DraftTypes /\ PlaceOK /\ DeadOK
      /\ article \in Drafts /\ article.id \in Nat \ {0} /\ Ids({article}) = {article.id}
  BY Holding
<1>2. postponed \in Seq(Drafts)
  BY <1>1 DEF DraftTypes
<1>3. postponed' \in Seq(Drafts)
  BY <1>1, <1>2
<1>4. offered' \in Seq(Nat \ {0}) /\ count' \in Nat
  <2>1. offered \in Seq(Nat \ {0}) /\ count \in Nat /\ <<>> \in Seq(Nat \ {0}) /\ 0 \in Nat
    BY <1>1 DEF TypesOK
  <2>2. QED
    BY <2>1
<1>5. TypesOK'
  BY <1>1, <1>3, <1>4 DEF TypesOK, DraftTypes
<1>6. DeadOK'
  BY <1>1 DEF DeadOK
<1>7. \A n \in Nat \ {0} : Gone(n) => Gone(n)'
  BY DEF Gone
<1>8. FinishStep
  BY <1>1, <1>7 DEF FinishStep, Rest
<1>9. QED
  BY <1>5, <1>6, <1>8, FinishOK

LEMMA PostPostponeOK ==
  ASSUME IInv, PostPostpone
  PROVE  IInv'
<1>1. /\ pc \in Loops /\ pc \in Loops \cup {"ask"} /\ Return
      /\ postponed' = Append(postponed, article)
      /\ article' = Unlink(article) /\ backup' = backup /\ art_type' = art_type
      /\ UNCHANGED <<count, offered>>
      /\ UNCHANGED <<dead_article, dead_articles, sent, lost, given_up>>
      /\ UNCHANGED <<letter, cancel, postponed_tmp, written>>
  BY DEF PostPostpone, Loop, Loops, LoopOnly
<1>2. TypesOK /\ DraftTypes
  BY <1>1, Holding
<1>3. article' \in Files /\ backup' \in Files /\ art_type' \in {"news", "mail"}
  BY <1>1, <1>2, UnlinkOK DEF TypesOK, DraftTypes
<1>4. /\ \/ pc' = "pickup" /\ type = "POST_POSTPONED" /\ UNCHANGED <<count, offered>>
         \/ pc' = "idle" /\ count' = 0 /\ offered' = <<>>
      /\ PlaceOK' /\ pc' \in {"idle"} \cup Pickups /\ type' \in Types \cup {"none"}
  BY <1>1, ReturnOK
<1>5. QED
  BY <1>1, <1>3, <1>4, BackOK

LEMMA RejectedOK ==
  ASSUME IInv, Rejected
  PROVE  IInv'
<1>1. /\ pc \in Loops /\ pc \in Loops \cup {"ask"} /\ art_type' = art_type
      /\ UNCHANGED <<count, offered, sent, given_up>>
      /\ UNCHANGED <<letter, cancel, postponed_tmp, written>>
  BY DEF Rejected, Loops, LoopOnly
<1>2. /\ TypesOK /\ DraftTypes /\ PlaceOK /\ DeadOK
      /\ article \in Drafts /\ article.id \in Nat \ {0} /\ Ids({article}) = {article.id}
  BY <1>1, Holding
<1>3. backup = article /\ art_type' \in {"news", "mail"}
  BY <1>1, <1>2 DEF Rejected, PlaceOK, TypesOK
<1>4. CASE /\ postponed' = Append(postponed, backup) /\ Return
           /\ UNCHANGED <<article, backup, dead_article, dead_articles, lost>>
  <2>1. /\ \/ pc' = "pickup" /\ type = "POST_POSTPONED" /\ UNCHANGED <<count, offered>>
           \/ pc' = "idle" /\ count' = 0 /\ offered' = <<>>
        /\ PlaceOK' /\ pc' \in {"idle"} \cup Pickups /\ type' \in Types \cup {"none"}
    BY <1>1, <1>4, ReturnOK
  <2>2. article' \in Files /\ backup' \in Files /\ postponed' = Append(postponed, article)
    BY <1>2, <1>3, <1>4 DEF DraftTypes
  <2>3. QED
    BY <1>1, <1>3, <1>4, <2>1, <2>2, BackOK
<1>5. CASE /\ article' = backup /\ backup' = NoDraft
           /\ pc' = "loop" /\ ch' = "edit"
           /\ UNCHANGED <<type, postponed, dead_article, dead_articles, lost>>
  <2>1. /\ pc' \in Loops /\ pc' # "rejected" /\ article' \in Drafts /\ article'.id = article.id
        /\ backup' \in Files
    BY <1>2, <1>3, <1>5 DEF Loops, Files
  <2>2. QED
    BY <1>1, <1>3, <1>5, <2>1, WorkedOnOK
<1>6. CASE /\ backup' = NoDraft /\ dead_article' = article /\ article' = NoDraft
           /\ IF keep_dead_articles
              THEN dead_articles' = Append(dead_articles, article) /\ UNCHANGED lost
              ELSE lost' = lost \cup Ids({dead_article}) /\ UNCHANGED dead_articles
           /\ Return
           /\ UNCHANGED postponed
  <2>1. /\ \/ pc' = "pickup" /\ type = "POST_POSTPONED" /\ UNCHANGED <<count, offered>>
           \/ pc' = "idle" /\ count' = 0 /\ offered' = <<>>
        /\ PlaceOK' /\ pc' \in {"idle"} \cup Pickups /\ type' \in Types \cup {"none"}
    BY <1>1, <1>6, ReturnOK
  <2>2. /\ Append(dead_articles, article) \in Seq(Drafts)
        /\ \A n : In(n, Append(dead_articles, article)) <=> In(n, dead_articles) \/ article.id = n
    <3>1. dead_articles \in Seq(Drafts) /\ article \in Drafts
      BY <1>2 DEF DraftTypes
    <3>2. QED
      BY ONLY <3>1, InAppend
  <2>3. /\ dead_articles' \in Seq(Drafts) /\ lost' \subseteq Nat
        /\ \A n : In(n, dead_articles) => In(n, dead_articles')
        /\ keep_dead_articles => In(article.id, dead_articles')
        /\ lost \subseteq lost'
    <3>1. CASE keep_dead_articles
      BY <1>2, <1>6, <2>2, <3>1 DEF TypesOK
    <3>2. CASE ~keep_dead_articles
      <4>1. Ids({dead_article}) \subseteq Nat
        BY <1>2 DEF DraftTypes, Ids, Files, Drafts, NoDraft
      <4>2. QED
        BY <1>2, <1>6, <3>2, <4>1 DEF TypesOK, DraftTypes
    <3>3. QED
      BY <3>1, <3>2
  <2>4. TypesOK'
    BY <1>1, <1>2, <1>6, <2>1, <2>3 DEF TypesOK, DraftTypes, Files
  <2>5. DeadOK'
    BY <1>6, <2>3 DEF DeadOK
  <2>6. \A n \in Nat : n = article.id => Gone(n)'
    BY <1>6 DEF Gone
  <2>7. \A n \in Nat : n # 0 /\ dead_article.id = n => Gone(n)'
    <3>1. CASE keep_dead_articles
      <4>1. dead_article.id # 0 => In(dead_article.id, dead_articles)
        BY <1>2, <3>1 DEF DeadOK, NoDraft
      <4>2. QED
        BY <4>1, <2>3 DEF Gone
    <3>2. CASE ~keep_dead_articles
      BY <1>6, <3>2 DEF Gone, Ids
    <3>3. QED
      BY <3>1, <3>2
  <2>8. \A n \in Nat \ {0} : Gone(n) => Gone(n)'
    BY <1>1, <2>3, <2>7 DEF Gone
  <2>9. FinishStep
    BY <1>1, <1>6, <2>1, <2>6, <2>8 DEF FinishStep, Rest
  <2>10. QED
    BY <2>1, <2>4, <2>5, <2>9, FinishOK
<1>7. QED
  BY <1>4, <1>5, <1>6 DEF Rejected

LEMMA PickupYesOK ==
  ASSUME IInv, PickupYes
  PROVE  IInv'
<1>1. /\ pc = "ask" /\ pc \in Loops \cup {"ask"}
      /\ UNCHANGED <<type, count, article, backup, dead_article, dead_articles, postponed, sent, offered, given_up>>
      /\ UNCHANGED <<letter, cancel, postponed_tmp, written>>
  BY DEF PickupYes, files
<1>2. /\ TypesOK /\ DraftTypes /\ PlaceOK /\ DeadOK
      /\ article \in Drafts /\ article.id \in Nat \ {0} /\ Ids({article}) = {article.id}
  BY <1>1, Holding
<1>3. type = "POST_POSTPONED" /\ backup' \in Files /\ art_type' \in {"news", "mail"}
  BY <1>1, <1>2 DEF PlaceOK, Pickups, PickupYes, TypesOK, DraftTypes
<1>4. CASE can_post
  <2>1. pc' \in Loops /\ pc' # "rejected" /\ lost' = lost /\ article' \in Drafts /\ article'.id = article.id
    BY <1>1, <1>2, <1>4 DEF PickupYes, Loops
  <2>2. QED
    BY <1>1, <1>3, <2>1, WorkedOnOK
<1>5. CASE ~can_post
  <2>1. pc' = "pickup" /\ lost' = lost \cup {article.id}
    BY <1>2, <1>5 DEF PickupYes
  <2>2. TypesOK'
    BY <1>1, <1>2, <1>3, <2>1 DEF TypesOK, DraftTypes, Pickups
  <2>3. DeadOK'
    BY <1>1, <1>2 DEF DeadOK
  <2>4. PlaceOK'
    BY <1>1, <1>3, <2>1 DEF PlaceOK, InHand, Loops
  <2>5. \A n \in Nat : n = article.id => Gone(n)'
    BY <2>1 DEF Gone
  <2>6. \A n \in Nat \ {0} : Gone(n) => Gone(n)'
    BY <1>1, <2>1 DEF Gone
  <2>7. FinishStep
    BY <1>1, <1>3, <2>1, <2>5, <2>6 DEF FinishStep, Rest
  <2>8. QED
    BY <2>2, <2>3, <2>4, <2>7, FinishOK
<1>6. QED
  BY <1>4, <1>5

LEMMA PickupNoOK ==
  ASSUME IInv, PickupNo
  PROVE  IInv'
<1>1. /\ pc = "ask" /\ pc \in Loops \cup {"ask"} /\ postponed' = Append(postponed, article)
      /\ article' = NoDraft
      /\ UNCHANGED <<backup, art_type>>
      /\ UNCHANGED <<dead_article, dead_articles, sent, lost, given_up>>
      /\ UNCHANGED <<letter, cancel, postponed_tmp, written>>
  BY DEF PickupNo, PickupOnly
<1>2. TypesOK /\ DraftTypes /\ PlaceOK
  BY <1>1, Holding
<1>3. type = "POST_POSTPONED" /\ backup' \in Files /\ art_type' \in {"news", "mail"} /\ article' \in Files
  BY <1>1, <1>2 DEF PlaceOK, Pickups, TypesOK, DraftTypes, Files
<1>4. \/ pc' = "pickup" /\ type = "POST_POSTPONED" /\ type' = type /\ UNCHANGED <<count, offered>>
      \/ pc' = "idle" /\ type' = "none" /\ count' = 0 /\ offered' = <<>>
  BY <1>3 DEF PickupNo, Locals
<1>5. PlaceOK' /\ pc' \in {"idle"} \cup Pickups /\ type' \in Types \cup {"none"}
  BY <1>4 DEF PlaceOK, InHand, Loops, Pickups, Types
<1>6. QED
  BY <1>1, <1>3, <1>4, <1>5, BackOK

-----------------------------------------------------------------------------
(* Taking an article out of the postponed file *)

LEMMA PickupPostponedOK ==
  ASSUME IInv, PickupPostponed
  PROVE  IInv'
<1>1. Parts
  BY DEF IInv, Parts
<1>2. /\ pc = "idle" /\ pc' = "pickup" /\ type' = "POST_POSTPONED" /\ offered' = <<>>
      /\ count' = Len(postponed) /\ count' \in Nat
      /\ UNCHANGED <<article, postponed, postponed_tmp, given_up, lost>>
      /\ UNCHANGED <<art_type, backup, dead_article, letter, cancel, dead_articles, written, sent>>
  BY <1>1 DEF PickupPostponed, Idle, PickupOnly, Parts, TypesOK, DraftTypes
<1>3. TypesOK'
  BY <1>1, <1>2 DEF Parts, TypesOK, DraftTypes, Types, Pickups
<1>4. ~InHand /\ ~InHand' /\ PlaceOK'
  BY <1>2 DEF InHand, Loops, PlaceOK, Pickups
<1>5. \A n : Live(n)' <=> Live(n)
  BY <1>2, <1>4 DEF Live
<1>6. Fresh'
  BY <1>1, <1>2, <1>5 DEF Parts, Fresh
<1>7. OnePlace' /\ CopiedOK' /\ DeadOK'
  BY <1>1, <1>2, <1>4 DEF Parts, OnePlace, CopiedOK, DeadOK
<1>8. OfferedOK'
  BY <1>1, <1>2 DEF Parts, OfferedOK, TypesOK, DraftTypes
<1>9. /\ \A n \in 1..written' : Live(n)' \/ Gone(n)'
      /\ \A n \in Nat : Live(n)' => ~In(n, sent')
      /\ SentOnce'
  BY <1>1, <1>2, <1>5 DEF Gone, SentOnce, Parts
<1>10. QED
  BY <1>3, <1>4, <1>6, <1>7, <1>8, <1>9 DEF IInv

LEMMA PickupEndsOK ==
  ASSUME IInv, PickupEnds
  PROVE  IInv'
<1>1. Parts
  BY DEF IInv, Parts
<1>2. /\ pc = "pickup" /\ pc' = "idle" /\ type' = "none" /\ offered' = <<>> /\ count' = 0
      /\ UNCHANGED <<article, postponed, postponed_tmp, given_up, lost>>
      /\ UNCHANGED <<art_type, backup, dead_article, letter, cancel, dead_articles, written, sent>>
  BY DEF PickupEnds, Locals, PickupOnly
<1>3. TypesOK'
  BY <1>1, <1>2 DEF Parts, TypesOK, DraftTypes
<1>4. ~InHand /\ ~InHand' /\ PlaceOK'
  BY <1>2 DEF InHand, Loops, PlaceOK, Pickups
<1>5. \A n : Live(n)' <=> Live(n)
  BY <1>2, <1>4 DEF Live
<1>6. Fresh'
  BY <1>1, <1>2, <1>5 DEF Parts, Fresh
<1>7. OnePlace' /\ CopiedOK' /\ DeadOK'
  BY <1>1, <1>2, <1>4 DEF Parts, OnePlace, CopiedOK, DeadOK
<1>8. OfferedOK'
  BY <1>1, <1>2 DEF Parts, OfferedOK, TypesOK, DraftTypes
<1>9. /\ \A n \in 1..written' : Live(n)' \/ Gone(n)'
      /\ \A n \in Nat : Live(n)' => ~In(n, sent')
      /\ SentOnce'
  BY <1>1, <1>2, <1>5 DEF Gone, SentOnce, Parts
<1>10. QED
  BY <1>3, <1>4, <1>6, <1>7, <1>8, <1>9 DEF IInv

LEMMA FetchCopyOK ==
  ASSUME IInv, FetchCopy
  PROVE  IInv'
<1>1. Parts
  BY DEF IInv, Parts
<1>2. /\ pc = "pickup" /\ pc' = "copied" /\ count > 0 /\ postponed # <<>>
      /\ article' = [Head(postponed) EXCEPT !.as = "news"] /\ postponed_tmp' = Tail(postponed)
      /\ UNCHANGED <<type, count, postponed, given_up, lost, offered>>
      /\ UNCHANGED <<art_type, backup, dead_article, letter, cancel, dead_articles, written, sent>>
  BY DEF FetchCopy, PickupOnly
<1>3. postponed \in Seq(Drafts) /\ offered \in Seq(Nat \ {0}) /\ count \in Nat
  BY <1>1 DEF Parts, TypesOK, DraftTypes
<1>4. /\ Tail(postponed) \in Seq(Drafts) /\ Len(Tail(postponed)) = Len(postponed) - 1
      /\ Len(postponed) \in Nat \ {0}
      /\ Head(postponed) = postponed[1] /\ postponed[1] \in Drafts
      /\ \A i \in 1..Len(Tail(postponed)) : Tail(postponed)[i] = postponed[i + 1]
  BY ONLY <1>2, <1>3, InTail
<1>5. article' \in Drafts /\ article'.id = postponed[1].id /\ article' # NoDraft
  BY <1>2, <1>4 DEF Drafts, NoDraft
<1>6. TypesOK'
  BY <1>1, <1>2, <1>4, <1>5 DEF Parts, TypesOK, DraftTypes, Files, Pickups
<1>7. type = "POST_POSTPONED" /\ ~InHand /\ ~InHand' /\ PlaceOK'
  BY <1>1, <1>2 DEF InHand, Loops, PlaceOK, Pickups, Parts
<1>8. \A n : Live(n)' <=> Live(n)
  BY <1>2, <1>7 DEF Live
<1>9. Fresh'
  BY <1>1, <1>2, <1>8 DEF Parts, Fresh
<1>10. OnePlace' /\ DeadOK'
  BY <1>1, <1>2, <1>7 DEF Parts, OnePlace, DeadOK
<1>11. CopiedOK'
  BY <1>2, <1>3, <1>4, <1>5 DEF CopiedOK
<1>12. OfferedOK'
  <2>1. /\ \A i, j \in 1..Len(offered) : offered[i] = offered[j] => i = j
        /\ count <= Len(postponed)
        /\ \A i \in 1..count, j \in 1..Len(offered) : postponed[i].id # offered[j]
    BY <1>1, <1>2 DEF Parts, OfferedOK
  <2>2. 1 \in 1..count /\ count <= Len(postponed_tmp') + 1
    BY <1>2, <1>3, <1>4, <2>1
  <2>3. \A i \in 1..Len(offered) : offered[i] # article'.id
    BY <1>5, <2>1, <2>2
  <2>4. QED
    BY <1>2, <1>7, <2>1, <2>2, <2>3 DEF OfferedOK
<1>13. /\ \A n \in 1..written' : Live(n)' \/ Gone(n)'
       /\ \A n \in Nat : Live(n)' => ~In(n, sent')
       /\ SentOnce'
  BY <1>1, <1>2, <1>8 DEF Gone, SentOnce, Parts
<1>14. QED
  BY <1>6, <1>7, <1>9, <1>10, <1>11, <1>12, <1>13 DEF IInv

LEMMA FetchUnlinkOK ==
  ASSUME IInv, FetchUnlink
  PROVE  IInv'
<1>1. Parts
  BY DEF IInv, Parts
<1>2. /\ pc = "copied" /\ pc' = "unlinked" /\ postponed' = <<>>
      /\ UNCHANGED <<type, count, article, postponed_tmp, given_up, lost, offered>>
      /\ UNCHANGED <<art_type, backup, dead_article, letter, cancel, dead_articles, written, sent>>
  BY DEF FetchUnlink, PickupOnly
<1>3. /\ postponed \in Seq(Drafts) /\ postponed_tmp \in Seq(Drafts) /\ offered \in Seq(Nat \ {0})
      /\ count \in Nat
  BY <1>1 DEF Parts, TypesOK, DraftTypes
<1>4. /\ article # NoDraft /\ Len(postponed_tmp) + 1 <= Len(postponed)
      /\ article.id = postponed[1].id
      /\ \A i \in 1..Len(postponed_tmp) : postponed_tmp[i] = postponed[i + 1]
      /\ \A i \in 1..Len(postponed) : i > Len(postponed_tmp) + 1 => postponed[i].id \in lost
  BY <1>1, <1>2 DEF Parts, CopiedOK
<1>5. TypesOK'
  BY <1>1, <1>2, <1>3 DEF Parts, TypesOK, DraftTypes, Pickups
<1>6. ~InHand /\ InHand' /\ PlaceOK'
  BY <1>1, <1>2, <1>4 DEF InHand, Loops, PlaceOK, Pickups, Parts
<1>7. \A i \in 1..Len(postponed_tmp) : i + 1 \in 1..Len(postponed) /\ postponed_tmp[i].id = postponed[i + 1].id
  BY <1>3, <1>4
<1>8. 1 \in 1..Len(postponed) /\ postponed[1].id = article.id
  BY <1>3, <1>4
<1>9. \A n : In(n, postponed_tmp) => In(n, postponed)
  BY <1>7 DEF In
<1>10. In(article.id, postponed)
  BY <1>8 DEF In
<1>11. \A n : Live(n)' <=> (n = article.id \/ In(n, postponed_tmp))
  BY <1>2, <1>6, InEmpty DEF Live
<1>12. \A n : Live(n)' => Live(n)
  BY <1>9, <1>10, <1>11 DEF Live
<1>13. ASSUME NEW n, Live(n) PROVE Live(n)' \/ n \in lost
  <2>1. In(n, postponed)
    BY <1>2, <1>6, <1>13 DEF Live
  <2>2. PICK i \in 1..Len(postponed) : postponed[i].id = n
    BY <2>1 DEF In
  <2>3. CASE i = 1
    BY <1>8, <1>11, <2>2, <2>3
  <2>4. CASE i > Len(postponed_tmp) + 1
    BY <1>4, <2>2, <2>4
  <2>5. CASE i # 1 /\ i <= Len(postponed_tmp) + 1
    <3>1. i - 1 \in 1..Len(postponed_tmp) /\ (i - 1) + 1 = i
      BY <1>3, <2>2, <2>5
    <3>2. postponed_tmp[i - 1].id = n
      BY <3>1, <1>7, <2>2
    <3>3. In(n, postponed_tmp)
      BY <3>1, <3>2 DEF In
    <3>4. QED
      BY <1>11, <3>3
  <2>6. QED
    BY <1>3, <2>2, <2>3, <2>4, <2>5
<1>14. Fresh'
  BY <1>1, <1>2, <1>12 DEF Parts, Fresh
<1>15. OnePlace' /\ DeadOK'
  <2>1. Distinct(postponed)
    BY <1>1 DEF Parts, OnePlace
  <2>2. Distinct(postponed_tmp)
    <3>1. SUFFICES ASSUME NEW i \in 1..Len(postponed_tmp), NEW j \in 1..Len(postponed_tmp),
                          postponed_tmp[i].id = postponed_tmp[j].id
                   PROVE  i = j
      BY DEF Distinct
    <3>2. i + 1 = j + 1
      BY <1>7, <2>1, <3>1 DEF Distinct
    <3>3. QED
      BY <3>2
  <2>3. ~In(article.id, postponed_tmp)
    <3>1. SUFFICES ASSUME NEW i \in 1..Len(postponed_tmp), postponed_tmp[i].id = article.id PROVE FALSE
      BY DEF In
    <3>2. i + 1 = 1
      BY <1>7, <1>8, <2>1, <3>1 DEF Distinct
    <3>3. QED
      BY <3>2
  <2>4. QED
    BY <1>1, <1>2, <2>2, <2>3, InEmpty DEF OnePlace, DeadOK, Parts
<1>16. CopiedOK'
  BY <1>2, InEmpty DEF CopiedOK
<1>17. OfferedOK'
  <2>1. /\ \A i, j \in 1..Len(offered) : offered[i] = offered[j] => i = j
        /\ count > 0 /\ count <= Len(postponed_tmp) + 1
        /\ \A i \in 1..Len(offered) : offered[i] # article.id
        /\ \A i \in 1..count, j \in 1..Len(offered) : postponed[i].id # offered[j]
    BY <1>1, <1>2 DEF Parts, OfferedOK
  <2>2. \A i \in 1..count : i < count => i \in 1..Len(postponed_tmp) /\ i + 1 \in 1..count
    BY <1>3, <2>1
  <2>3. \A i \in 1..count, j \in 1..Len(offered) : i < count => postponed_tmp[i].id # offered[j]
    BY <1>7, <2>1, <2>2
  <2>4. type = "POST_POSTPONED"
    BY <1>1, <1>2 DEF Parts, PlaceOK, Pickups
  <2>5. QED
    BY <1>2, <2>1, <2>3, <2>4 DEF OfferedOK
<1>18. \A n \in 1..written' : Live(n)' \/ Gone(n)'
  <2>1. \A n : Gone(n) => Gone(n)'
    BY <1>2 DEF Gone
  <2>2. \A n : n \in lost => Gone(n)'
    BY <1>2 DEF Gone
  <2>3. QED
    BY <1>1, <1>2, <1>13, <2>1, <2>2 DEF Parts
<1>19. (\A n \in Nat : Live(n)' => ~In(n, sent')) /\ SentOnce'
  BY <1>1, <1>2, <1>12 DEF SentOnce, Parts
<1>20. QED
  BY <1>5, <1>6, <1>14, <1>15, <1>16, <1>17, <1>18, <1>19 DEF IInv

LEMMA FetchRenameOK ==
  ASSUME IInv, FetchRename
  PROVE  IInv'
<1>1. Parts
  BY DEF IInv, Parts
<1>2. /\ pc = "unlinked" /\ pc' = "ask" /\ postponed_tmp' = <<>>
      /\ postponed' = IF postponed_tmp # <<>> THEN postponed_tmp ELSE postponed
      /\ count' = count - 1 /\ offered' = Append(offered, article.id)
      /\ UNCHANGED <<type, article, given_up, lost>>
      /\ UNCHANGED <<art_type, backup, dead_article, letter, cancel, dead_articles, written, sent>>
  BY DEF FetchRename, PickupOnly
<1>3. /\ postponed \in Seq(Drafts) /\ postponed_tmp \in Seq(Drafts) /\ offered \in Seq(Nat \ {0})
      /\ count \in Nat /\ postponed' \in Seq(Drafts)
  BY <1>1, <1>2 DEF Parts, TypesOK, DraftTypes
<1>4. InHand /\ InHand' /\ article # NoDraft /\ article \in Drafts /\ article.id \in Nat \ {0}
  BY <1>1, <1>2 DEF InHand, Loops, Parts, PlaceOK, TypesOK, DraftTypes, Files, Drafts
<1>5. type = "POST_POSTPONED" /\ PlaceOK'
  BY <1>1, <1>2, <1>4 DEF PlaceOK, Loops, Pickups, Parts
<1>6. /\ \A i, j \in 1..Len(offered) : offered[i] = offered[j] => i = j
      /\ count > 0 /\ count <= Len(postponed_tmp) + 1
      /\ \A i \in 1..Len(offered) : offered[i] # article.id
      /\ \A i \in 1..count, j \in 1..Len(offered) : i < count => postponed_tmp[i].id # offered[j]
  BY <1>1, <1>2 DEF Parts, OfferedOK
<1>7. /\ offered' \in Seq(Nat \ {0}) /\ Len(offered') = Len(offered) + 1
      /\ \A i \in 1..Len(offered) : offered'[i] = offered[i]
      /\ offered'[Len(offered) + 1] = article.id
      /\ \A i \in 1..Len(offered') : i \in 1..Len(offered) \/ i = Len(offered) + 1
  BY <1>2, <1>3, <1>4
<1>8. count' \in Nat
  BY <1>2, <1>3, <1>6
<1>9. TypesOK'
  <2>1. <<>> \in Seq(Drafts)
    OBVIOUS
  <2>2. QED
    BY <1>1, <1>2, <1>3, <1>7, <1>8, <2>1 DEF Parts, TypesOK, DraftTypes, Pickups
<1>10. /\ Distinct(postponed) /\ Distinct(postponed_tmp)
       /\ ~In(article.id, postponed) /\ ~In(article.id, postponed_tmp)
       /\ \A n \in Nat : In(n, postponed) => n \in lost
  BY <1>1, <1>2, <1>4 DEF Parts, OnePlace, CopiedOK
<1>11. \A n : Live(n)' <=> In(n, postponed') \/ article.id = n
  BY <1>2, <1>4 DEF Live
<1>12. \A n : Live(n) <=> In(n, postponed) \/ article.id = n \/ In(n, postponed_tmp)
  BY <1>2, <1>4 DEF Live
<1>13. /\ \A n : Live(n)' => Live(n)
       /\ \A n \in Nat : Live(n) => Live(n)' \/ n \in lost
  <2>1. CASE postponed_tmp = <<>>
    BY <1>2, <1>11, <1>12, <2>1, InEmpty
  <2>2. CASE postponed_tmp # <<>>
    BY <1>2, <1>10, <1>11, <1>12, <2>2
  <2>3. QED
    BY <2>1, <2>2
<1>14. Fresh'
  <2>1. article.id <= written
    BY <1>1, <1>4, <1>12 DEF Parts, Fresh
  <2>2. \A i \in 1..Len(offered') : offered'[i] <= written
    <3>1. \A i \in 1..Len(offered) : offered[i] <= written
      BY <1>1 DEF Parts, Fresh
    <3>2. QED
      BY <1>7, <2>1, <3>1
  <2>3. QED
    BY <1>1, <1>2, <1>13, <2>2 DEF Parts, Fresh
<1>15. OnePlace' /\ CopiedOK' /\ DeadOK'
  BY <1>1, <1>2, <1>10 DEF OnePlace, CopiedOK, DeadOK, Parts
<1>16. OfferedOK'
  <2>1. ASSUME NEW i \in 1..Len(offered'), NEW j \in 1..Len(offered'), offered'[i] = offered'[j]
        PROVE  i = j
    <3>1. CASE i \in 1..Len(offered) /\ j \in 1..Len(offered)
      BY <1>6, <1>7, <2>1, <3>1
    <3>2. CASE i \in 1..Len(offered) /\ j = Len(offered) + 1
      BY <1>6, <1>7, <2>1, <3>2
    <3>3. CASE i = Len(offered) + 1 /\ j \in 1..Len(offered)
      BY <1>6, <1>7, <2>1, <3>3
    <3>4. QED
      BY <1>7, <3>1, <3>2, <3>3
  <2>2. count' <= Len(postponed')
    <3>1. CASE postponed_tmp = <<>>
      BY <1>2, <1>3, <1>6, <3>1
    <3>2. CASE postponed_tmp # <<>>
      BY <1>2, <1>3, <1>6, <3>2
    <3>3. QED
      BY <3>1, <3>2
  <2>3. ASSUME NEW i \in 1..count', NEW j \in 1..Len(offered') PROVE postponed'[i].id # offered'[j]
    <3>1. i \in 1..Len(postponed_tmp) /\ i \in 1..count /\ i < count
      BY <1>2, <1>3, <1>6
    <3>2. postponed'[i] = postponed_tmp[i]
      BY <1>2, <1>3, <3>1
    <3>3. CASE j \in 1..Len(offered)
      BY <1>6, <1>7, <3>1, <3>2, <3>3
    <3>4. CASE j = Len(offered) + 1
      <4>1. postponed_tmp[i].id # article.id
        BY <1>10, <3>1 DEF In
      <4>2. QED
        BY <1>7, <3>2, <3>4, <4>1
    <3>5. QED
      BY <1>3, <1>7, <3>3, <3>4
  <2>4. QED
    BY <1>2, <1>5, <2>1, <2>2, <2>3 DEF OfferedOK
<1>17. \A n \in 1..written' : Live(n)' \/ Gone(n)'
  <2>1. \A n : Gone(n) => Gone(n)'
    BY <1>2 DEF Gone
  <2>2. \A n : n \in lost => Gone(n)'
    BY <1>2 DEF Gone
  <2>3. QED
    BY <1>1, <1>2, <1>13, <2>1, <2>2 DEF Parts
<1>18. (\A n \in Nat : Live(n)' => ~In(n, sent')) /\ SentOnce'
  BY <1>1, <1>2, <1>13 DEF SentOnce, Parts
<1>19. QED
  BY <1>5, <1>9, <1>14, <1>15, <1>16, <1>17, <1>18 DEF IInv

-----------------------------------------------------------------------------
(* Letters and cancels *)

\* A letter or a cancel is begun: f is its file.
BeginStep(f) ==
  /\ pc = "idle" /\ written' = written + 1
  /\ \/ pc' = "letter" /\ letter' = f /\ cancel' = cancel
     \/ pc' = "cancel" /\ cancel' = f /\ letter' = letter
  /\ f \in Drafts /\ f.id = written'
  /\ UNCHANGED <<type, art_type, count, article, backup, dead_article, dead_articles, postponed,
                 postponed_tmp, offered, sent, given_up, lost>>

LEMMA BegunOK ==
  ASSUME IInv, NEW f, BeginStep(f)
  PROVE  IInv'
<1>1. Parts
  BY DEF IInv, Parts
<1>2. /\ pc = "idle" /\ pc' \in {"letter", "cancel"} /\ written' = written + 1 /\ written \in Nat
      /\ f.id = written + 1 /\ f \in Drafts
      /\ UNCHANGED <<type, art_type, count, article, backup, dead_article, dead_articles, postponed,
                     postponed_tmp, offered, sent, given_up, lost>>
  BY <1>1 DEF BeginStep, Parts, TypesOK
<1>3. f # NoDraft
  BY <1>2 DEF Drafts, NoDraft
<1>4. TypesOK'
  <2>1. letter' \in Files /\ cancel' \in Files
    BY <1>1, <1>2 DEF Parts, TypesOK, DraftTypes, Files, BeginStep
  <2>2. QED
    BY <1>1, <1>2, <2>1 DEF Parts, TypesOK, DraftTypes
<1>5. ~InHand /\ ~InHand' /\ PlaceOK'
  BY <1>1, <1>2, <1>3 DEF InHand, Loops, PlaceOK, Pickups, Parts, BeginStep
<1>6. \A n : Live(n)' <=> Live(n) \/ n = written + 1
  BY <1>2, <1>5 DEF Live, BeginStep
<1>7. ~Live(written + 1) /\ ~In(written + 1, postponed) /\ ~In(written + 1, sent)
  <2>1. written + 1 \in Nat /\ ~(written + 1 <= written)
    BY <1>2
  <2>2. QED
    BY <1>1, <2>1 DEF Fresh, Live, Parts
<1>8. Fresh'
  BY <1>1, <1>2, <1>6 DEF Fresh, Parts, TypesOK
<1>9. OnePlace' /\ CopiedOK' /\ DeadOK'
  BY <1>1, <1>2, <1>5, <1>7 DEF OnePlace, CopiedOK, DeadOK, Parts, BeginStep
<1>10. OfferedOK'
  BY <1>1, <1>2 DEF OfferedOK, Parts
<1>11. \A n \in 1..written' : Live(n)' \/ Gone(n)'
  BY <1>1, <1>2, <1>6 DEF Gone, Parts
<1>12. (\A n \in Nat : Live(n)' => ~In(n, sent')) /\ SentOnce'
  BY <1>1, <1>2, <1>6, <1>7 DEF SentOnce, Parts
<1>13. QED
  BY <1>4, <1>5, <1>8, <1>9, <1>10, <1>11, <1>12 DEF IInv

LEMMA WriteLetterOK ==
  ASSUME IInv, WriteLetter
  PROVE  IInv'
<1>1. PICK t \in DOMAIN Texts : letter' = Draft(written', t, <<>>, "mail")
  BY DEF WriteLetter
<1>2. written' \in Nat \ {0} /\ t \in TextNames /\ <<>> \in DraftLists /\ "mail" \in {"news", "mail"}
  BY DEF IInv, TypesOK, WriteLetter, TextNames, DraftLists, GroupLists
<1>3. letter' \in Drafts /\ letter'.id = written'
  BY <1>1, <1>2, NewDraft
<1>4. BeginStep(letter')
  BY <1>3 DEF BeginStep, WriteLetter, LetterOnly, Idle
<1>5. QED
  BY <1>4, BegunOK

LEMMA CancelArticleOK ==
  ASSUME IInv, CancelArticle
  PROVE  IInv'
<1>1. PICK groups \in Targets, t \in DOMAIN Texts : cancel' = Draft(written', t, strip_double_ngs(groups), "news")
  BY DEF CancelArticle
<1>2. written' \in Nat \ {0} /\ t \in TextNames /\ strip_double_ngs(groups) \in DraftLists
      /\ "news" \in {"news", "mail"}
  BY ListsOfGroups DEF IInv, TypesOK, CancelArticle, TextNames
<1>3. cancel' \in Drafts /\ cancel'.id = written'
  BY <1>1, <1>2, NewDraft
<1>4. BeginStep(cancel')
  BY <1>3 DEF BeginStep, CancelArticle, CancelOnly, Idle
<1>5. QED
  BY <1>4, BegunOK

\* A letter or a cancel is over: f is its file.
EndStep(f) ==
  /\ pc \in {"letter", "cancel"} /\ pc' = "idle"
  /\ f = IF pc = "letter" THEN letter ELSE cancel
  /\ letter' \in Files /\ cancel' \in Files
  /\ \/ given_up' = given_up \cup {f.id} /\ UNCHANGED <<sent, lost>>
     \/ lost' = lost \cup {f.id} /\ UNCHANGED <<sent, given_up>>
     \/ /\ \E as \in {"news", "mail"} : sent' = Append(sent, [id |-> f.id, as |-> as])
        /\ UNCHANGED <<given_up, lost>>
  /\ UNCHANGED <<type, art_type, count, article, backup, dead_article, dead_articles, postponed,
                 postponed_tmp, offered, written>>

LEMMA EndedOK ==
  ASSUME IInv, NEW f, EndStep(f)
  PROVE  IInv'
<1>1. Parts
  BY DEF IInv, Parts
<1>2. /\ pc \in {"letter", "cancel"} /\ pc' = "idle"
      /\ UNCHANGED <<type, art_type, count, article, backup, dead_article, dead_articles, postponed,
                     postponed_tmp, offered, written>>
  BY DEF EndStep
<1>3. f \in Drafts /\ f.id \in Nat \ {0} /\ ~In(f.id, postponed)
  <2>1. f \in Files /\ f # NoDraft /\ ~In(f.id, postponed)
    BY <1>1, <1>2 DEF EndStep, Parts, TypesOK, DraftTypes, PlaceOK, OnePlace
  <2>2. QED
    BY <2>1 DEF Files, Drafts
<1>4. ~InHand /\ ~InHand' /\ PlaceOK'
  BY <1>1, <1>2 DEF InHand, Loops, PlaceOK, Pickups, Parts
<1>5. \A n : Live(n) <=> In(n, postponed) \/ n = f.id
  BY <1>2, <1>4 DEF Live, EndStep
<1>6. \A n : Live(n)' <=> In(n, postponed)
  BY <1>2, <1>4 DEF Live
<1>7. ~In(f.id, sent) /\ f.id <= written
  BY <1>1, <1>3, <1>5 DEF Parts, Fresh
<1>8. /\ sent' \in Seq(Sent) /\ SentOnce' /\ given_up' \subseteq Nat /\ lost' \subseteq Nat
      /\ \A n : In(n, sent') => In(n, sent) \/ n = f.id
      /\ \A n : Gone(n) \/ n = f.id => Gone(n)'
  <2>1. sent \in Seq(Sent) /\ SentOnce /\ given_up \subseteq Nat /\ lost \subseteq Nat
    BY <1>1 DEF Parts, TypesOK
  <2>2. CASE given_up' = given_up \cup {f.id} /\ UNCHANGED <<sent, lost>>
    BY <1>2, <1>3, <2>1, <2>2 DEF SentOnce, Gone
  <2>3. CASE lost' = lost \cup {f.id} /\ UNCHANGED <<sent, given_up>>
    BY <1>2, <1>3, <2>1, <2>3 DEF SentOnce, Gone
  <2>4. CASE /\ \E as \in {"news", "mail"} : sent' = Append(sent, [id |-> f.id, as |-> as])
             /\ UNCHANGED <<given_up, lost>>
    <3>1. PICK as \in {"news", "mail"} : sent' = Append(sent, [id |-> f.id, as |-> as])
      BY <2>4
    <3> DEFINE d == [id |-> f.id, as |-> as]
    <3>2. d \in Sent /\ d.id = f.id /\ sent' = Append(sent, d) /\ sent \in Seq(Sent)
      BY <1>3, <2>1, <3>1 DEF Sent
    <3> HIDE DEF d
    <3>3. /\ Append(sent, d) \in Seq(Sent)
          /\ \A n : In(n, Append(sent, d)) <=> In(n, sent) \/ d.id = n
          /\ Distinct(sent) /\ ~In(d.id, sent) => Distinct(Append(sent, d))
      BY ONLY <3>2, InAppend
    <3>4. DOMAIN sent = 1..Len(sent) /\ DOMAIN sent' = 1..Len(sent')
      BY <2>1, <3>2, <3>3
    <3>5. SentOnce'
      BY <1>7, <2>1, <3>2, <3>3, <3>4 DEF SentOnce, Distinct
    <3>6. \A n : Gone(n) \/ n = f.id => Gone(n)'
      BY <1>2, <2>4, <3>2, <3>3 DEF Gone
    <3>7. QED
      BY <2>1, <2>4, <3>2, <3>3, <3>5, <3>6
  <2>5. QED
    BY <2>2, <2>3, <2>4 DEF EndStep
<1>9. TypesOK'
  BY <1>1, <1>2, <1>8 DEF Parts, TypesOK, DraftTypes, EndStep
<1>10. Fresh'
  BY <1>1, <1>2, <1>5, <1>6, <1>7, <1>8 DEF Parts, Fresh
<1>11. OnePlace' /\ CopiedOK' /\ DeadOK'
  BY <1>1, <1>2, <1>4 DEF OnePlace, CopiedOK, DeadOK, Parts
<1>12. OfferedOK'
  BY <1>1, <1>2 DEF OfferedOK, Parts
<1>13. \A n \in 1..written' : Live(n)' \/ Gone(n)'
  BY <1>1, <1>2, <1>5, <1>6, <1>8 DEF Parts
<1>14. \A n \in Nat : Live(n)' => ~In(n, sent')
  BY <1>1, <1>3, <1>5, <1>6, <1>8 DEF Parts
<1>15. QED
  BY <1>4, <1>8, <1>9, <1>10, <1>11, <1>12, <1>13, <1>14 DEF IInv

\* The letter or the cancel is edited, or stays as it is.
KeepStep ==
  /\ pc \in {"letter", "cancel"} /\ pc' = pc
  /\ letter' \in Files /\ letter'.id = letter.id
  /\ cancel' \in Files /\ cancel'.id = cancel.id
  /\ UNCHANGED <<type, art_type, count, article, backup, dead_article, dead_articles, postponed,
                 postponed_tmp, offered, written, sent, given_up, lost>>

LEMMA KeptOK ==
  ASSUME IInv, KeepStep
  PROVE  IInv'
<1>1. Parts
  BY DEF IInv, Parts
<1>2. /\ pc \in {"letter", "cancel"} /\ pc' = pc /\ letter'.id = letter.id /\ cancel'.id = cancel.id
      /\ UNCHANGED <<type, art_type, count, article, backup, dead_article, dead_articles, postponed,
                     postponed_tmp, offered, written, sent, given_up, lost>>
  BY DEF KeepStep
<1>3. TypesOK'
  BY <1>1, <1>2 DEF Parts, TypesOK, DraftTypes, KeepStep
<1>4. \A d \in Files : d = NoDraft <=> d.id = 0
  BY DEF Files, Drafts, NoDraft
<1>5. ~InHand /\ ~InHand' /\ PlaceOK'
  <2>1. letter' = NoDraft <=> letter = NoDraft
    BY <1>1, <1>2, <1>4 DEF KeepStep, Parts, TypesOK, DraftTypes
  <2>2. cancel' = NoDraft <=> cancel = NoDraft
    BY <1>1, <1>2, <1>4 DEF KeepStep, Parts, TypesOK, DraftTypes
  <2>3. QED
    BY <1>1, <1>2, <2>1, <2>2 DEF InHand, Loops, PlaceOK, Pickups, Parts
<1>6. \A n : Live(n)' <=> Live(n)
  BY <1>2, <1>5 DEF Live
<1>7. Fresh'
  BY <1>1, <1>2, <1>6 DEF Parts, Fresh
<1>8. OnePlace' /\ CopiedOK' /\ DeadOK' /\ OfferedOK'
  BY <1>1, <1>2, <1>5 DEF OnePlace, CopiedOK, DeadOK, OfferedOK, Parts
<1>9. /\ \A n \in 1..written' : Live(n)' \/ Gone(n)'
      /\ \A n \in Nat : Live(n)' => ~In(n, sent')
      /\ SentOnce'
  BY <1>1, <1>2, <1>6 DEF Gone, SentOnce, Parts
<1>10. QED
  BY <1>3, <1>5, <1>7, <1>8, <1>9 DEF IInv

LEMMA LetterKeyOK ==
  ASSUME IInv, LetterKey
  PROVE  IInv'
<1>1. TypesOK /\ DraftTypes /\ PlaceOK
  BY DEF IInv, TypesOK
<1>2. /\ pc = "letter"
      /\ UNCHANGED <<type, art_type, count, article, backup, dead_article, dead_articles, postponed,
                     postponed_tmp, offered, written, cancel>>
  BY DEF LetterKey, LetterOnly
<1>3. letter \in Drafts /\ Ids({letter}) = {letter.id}
  <2>1. letter \in Drafts
    BY <1>1, <1>2 DEF PlaceOK, DraftTypes, Files
  <2>2. QED
    BY <2>1 DEF Drafts, Ids
<1>4. CASE /\ \E t \in DOMAIN Texts : letter' = [letter EXCEPT !.text = t]
           /\ pc' = pc /\ UNCHANGED <<sent, given_up, lost>>
  <2>1. letter' \in Files /\ letter'.id = letter.id /\ cancel' \in Files
    BY <1>1, <1>2, <1>3, <1>4, DraftEdited DEF Files, DraftTypes
  <2>2. KeepStep
    BY <1>2, <1>4, <2>1 DEF KeepStep
  <2>3. QED
    BY <2>2, KeptOK
<1>5. CASE /\ pc' = "idle" /\ letter' \in {NoDraft, Unlink(letter)}
           /\ \/ given_up' = given_up \cup Ids({letter}) /\ UNCHANGED <<sent, lost>>
              \/ lost' = lost \cup Ids({letter}) /\ UNCHANGED <<sent, given_up>>
              \/ /\ sent' = Append(sent, [id |-> letter.id, as |-> "mail"])
                 /\ UNCHANGED <<given_up, lost>>
  <2>1. letter' \in Files /\ cancel' \in Files
    BY <1>1, <1>2, <1>3, <1>5, UnlinkOK DEF Files, DraftTypes
  <2>2. EndStep(letter)
    BY <1>2, <1>3, <1>5, <2>1 DEF EndStep
  <2>3. QED
    BY <2>2, EndedOK
<1>6. QED
  BY <1>4, <1>5 DEF LetterKey

LEMMA CancelKeyOK ==
  ASSUME IInv, CancelKey
  PROVE  IInv'
<1>1. TypesOK /\ DraftTypes /\ PlaceOK
  BY DEF IInv, TypesOK
<1>2. /\ pc = "cancel"
      /\ UNCHANGED <<type, art_type, count, article, backup, dead_article, dead_articles, postponed,
                     postponed_tmp, offered, written, lost, letter>>
  BY DEF CancelKey, CancelOnly
<1>3. cancel \in Drafts /\ Ids({cancel}) = {cancel.id}
  <2>1. cancel \in Drafts
    BY <1>1, <1>2 DEF PlaceOK, DraftTypes, Files
  <2>2. QED
    BY <2>1 DEF Drafts, Ids
<1>4. CASE /\ (\E t \in DOMAIN Texts : cancel' = [cancel EXCEPT !.text = t]) \/ cancel' = cancel
           /\ UNCHANGED <<pc, sent, given_up>>
  <2>1. cancel' \in Files /\ cancel'.id = cancel.id /\ letter' \in Files
    BY <1>1, <1>2, <1>3, <1>4, DraftEdited DEF Files, DraftTypes
  <2>2. KeepStep
    BY <1>2, <1>4, <2>1 DEF KeepStep
  <2>3. QED
    BY <2>2, KeptOK
<1>5. CASE /\ cancel' = NoDraft /\ pc' = "idle"
           /\ \/ given_up' = given_up \cup Ids({cancel}) /\ UNCHANGED sent
              \/ /\ sent' = Append(sent, [id |-> cancel.id, as |-> "news"])
                 /\ UNCHANGED given_up
  <2>1. letter' \in Files /\ cancel' \in Files
    BY <1>1, <1>2, <1>5 DEF Files, DraftTypes
  <2>2. EndStep(cancel)
    BY <1>2, <1>3, <1>5, <2>1 DEF EndStep
  <2>3. QED
    BY <2>2, EndedOK
<1>6. QED
  BY <1>4, <1>5 DEF CancelKey

-----------------------------------------------------------------------------
(* Crashes, other tins, the selection page *)

LEMMA CrashOK ==
  ASSUME IInv, Crash
  PROVE  IInv'
<1>1. Parts
  BY DEF IInv, Parts
<1>2. /\ pc' = "idle" /\ type' = "none" /\ count' = 0 /\ offered' = <<>>
      /\ lost' = lost \cup Ids({article, letter, cancel, backup})
                   \cup (IF pc = "unlinked" THEN Ids(ToSet(postponed_tmp)) ELSE {})
      /\ UNCHANGED <<art_type, written, sent, given_up>>
      /\ UNCHANGED <<article, backup, dead_article, letter, cancel, dead_articles, postponed, postponed_tmp>>
  BY DEF Crash, Locals, files
<1>3. DraftTypes
  BY <1>1 DEF Parts, TypesOK
<1>4. /\ article.id # 0 => article.id \in Ids({article, letter, cancel, backup})
      /\ letter.id # 0 => letter.id \in Ids({article, letter, cancel, backup})
      /\ cancel.id # 0 => cancel.id \in Ids({article, letter, cancel, backup})
      /\ Ids({article, letter, cancel, backup}) \subseteq Nat
  BY <1>3 DEF Ids, DraftTypes, Files, Drafts, NoDraft
<1>5. Ids(ToSet(postponed_tmp)) \subseteq Nat
      /\ \A n \in Nat : n # 0 /\ In(n, postponed_tmp) => n \in Ids(ToSet(postponed_tmp))
  <2>1. postponed_tmp \in Seq(Drafts)
    BY <1>3 DEF DraftTypes
  <2>2. ToSet(postponed_tmp) = {postponed_tmp[i] : i \in 1..Len(postponed_tmp)}
    BY <2>1 DEF ToSet
  <2>3. \A i \in 1..Len(postponed_tmp) : postponed_tmp[i].id \in Nat
    <3>1. \A i \in 1..Len(postponed_tmp) : postponed_tmp[i] \in Drafts
      BY <2>1
    <3>2. \A d \in Drafts : d.id \in Nat
      BY DEF Drafts
    <3>3. QED
      BY <3>1, <3>2
  <2>4. QED
    BY <2>2, <2>3 DEF Ids, In
<1>6. lost' \subseteq Nat /\ lost \subseteq lost'
  BY <1>1, <1>2, <1>4, <1>5 DEF Parts, TypesOK
<1>7. TypesOK'
  <2>1. DraftTypes'
    BY <1>2, <1>3 DEF DraftTypes
  <2>2. offered' \in Seq(Nat \ {0}) /\ count' \in Nat
    BY <1>2
  <2>3. QED
    BY <1>1, <1>2, <1>6, <2>1, <2>2 DEF Parts, TypesOK
<1>8. ~InHand' /\ PlaceOK'
  BY <1>2 DEF InHand, Loops, PlaceOK, Pickups
<1>9. \A n : Live(n)' <=> In(n, postponed)
  BY <1>2, <1>8 DEF Live
<1>10. \A n : Live(n)' => Live(n)
  BY <1>9 DEF Live
<1>11. \A n \in Nat : n # 0 /\ Live(n) => Live(n)' \/ n \in lost'
  BY <1>2, <1>4, <1>5, <1>9 DEF Live
<1>12. \A n : Gone(n) => Gone(n)'
  BY <1>2, <1>6 DEF Gone
<1>13. \A n : n \in lost' => Gone(n)'
  BY DEF Gone
<1>14. Fresh'
  BY <1>1, <1>2, <1>10 DEF Parts, Fresh
<1>15. OnePlace' /\ CopiedOK' /\ DeadOK'
  BY <1>1, <1>2, <1>8 DEF OnePlace, CopiedOK, DeadOK, Parts
<1>16. OfferedOK'
  BY <1>2, <1>3 DEF OfferedOK, DraftTypes
<1>17. \A n \in 1..written' : Live(n)' \/ Gone(n)'
  <2>1. \A n \in 1..written : n \in Nat /\ n # 0 /\ (Live(n) \/ Gone(n))
    BY <1>1 DEF Parts, TypesOK
  <2>2. QED
    BY <1>2, <1>11, <1>12, <1>13, <2>1
<1>18. (\A n \in Nat : Live(n)' => ~In(n, sent')) /\ SentOnce'
  BY <1>1, <1>2, <1>10 DEF SentOnce, Parts
<1>19. QED
  BY <1>7, <1>8, <1>14, <1>15, <1>16, <1>17, <1>18 DEF IInv

LEMMA OtherPostponesOK ==
  ASSUME IInv, OtherPostpones
  PROVE  IInv'
<1>1. Parts
  BY DEF IInv, Parts
<1>2. /\ written' = written + 1 /\ written \in Nat
      /\ lost' = IF pc \in {"copied", "unlinked"} THEN lost \cup {written'} ELSE lost
      /\ UNCHANGED <<pc, type, art_type, count, article, backup, dead_article, letter, cancel,
                     dead_articles, postponed_tmp, sent, offered, given_up>>
  BY <1>1 DEF OtherPostpones, Parts, TypesOK
<1>3. PICK d \in Drafts : d.id = written + 1 /\ postponed' = Append(postponed, d)
  <2>1. PICK groups \in Targets :
          postponed' = Append(postponed, Draft(written', CHOOSE t \in DOMAIN Texts : TRUE, groups, "news"))
    BY DEF OtherPostpones
  <2> DEFINE t == CHOOSE t \in DOMAIN Texts : TRUE
  <2>2. written' \in Nat \ {0} /\ t \in TextNames /\ groups \in DraftLists /\ "news" \in {"news", "mail"}
    BY <1>2, ListsOfGroups DEF TextNames
  <2> HIDE DEF t
  <2>3. Draft(written', t, groups, "news") \in Drafts /\ Draft(written', t, groups, "news").id = written'
    BY <2>2, NewDraft
  <2>4. QED
    BY <1>2, <2>1, <2>3 DEF t
<1>4. /\ postponed \in Seq(Drafts) /\ Len(postponed) \in Nat /\ postponed_tmp \in Seq(Drafts)
      /\ offered \in Seq(Nat \ {0}) /\ count \in Nat
  BY <1>1 DEF Parts, TypesOK, DraftTypes
<1>5. /\ Append(postponed, d) \in Seq(Drafts) /\ Len(Append(postponed, d)) = Len(postponed) + 1
      /\ \A i \in 1..Len(postponed) : Append(postponed, d)[i] = postponed[i]
      /\ Append(postponed, d)[Len(postponed) + 1] = d
      /\ \A n : In(n, Append(postponed, d)) <=> In(n, postponed) \/ d.id = n
      /\ Distinct(postponed) /\ ~In(d.id, postponed) => Distinct(Append(postponed, d))
  BY ONLY <1>3, <1>4, d \in Drafts, InAppend
<1>6. /\ postponed' \in Seq(Drafts) /\ Len(postponed') = Len(postponed) + 1
      /\ \A i \in 1..Len(postponed) : postponed'[i] = postponed[i]
      /\ postponed'[Len(postponed) + 1].id = written + 1
      /\ \A n : In(n, postponed') <=> In(n, postponed) \/ n = written + 1
      /\ Distinct(postponed) /\ ~In(written + 1, postponed) => Distinct(postponed')
  BY <1>3, <1>5
<1>7. lost' \subseteq Nat /\ lost \subseteq lost'
  BY <1>1, <1>2 DEF Parts, TypesOK
<1>8. TypesOK' /\ PlaceOK' /\ InHand' = InHand
  BY <1>1, <1>2, <1>6, <1>7 DEF Parts, TypesOK, DraftTypes, PlaceOK, InHand
<1>9. \A n : Live(n)' <=> Live(n) \/ n = written + 1
  BY <1>2, <1>6, <1>8 DEF Live
<1>10. ~Live(written + 1) /\ ~In(written + 1, sent) /\ \A i \in 1..Len(offered) : offered[i] # written + 1
  <2>1. written + 1 \in Nat /\ ~(written + 1 <= written)
    BY <1>2
  <2>2. QED
    BY <1>1, <2>1 DEF Fresh, Parts
<1>11. ~In(written + 1, postponed) /\ (InHand => article.id # written + 1)
       /\ (pc = "unlinked" => ~In(written + 1, postponed_tmp))
       /\ (pc = "letter" => letter.id # written + 1) /\ (pc = "cancel" => cancel.id # written + 1)
  BY <1>10 DEF Live
<1>12. Fresh'
  <2>1. \A i \in 1..Len(offered) : offered[i] \in Nat
    BY <1>4
  <2>2. QED
    BY <1>1, <1>2, <1>9, <2>1 DEF Parts, Fresh
<1>13. OnePlace'
  BY <1>1, <1>2, <1>6, <1>8, <1>11 DEF OnePlace, Parts
<1>14. CopiedOK'
  <2>1. CASE pc = "copied"
    <3>1. /\ article # NoDraft /\ Len(postponed_tmp) + 1 <= Len(postponed)
          /\ article.id = postponed[1].id
          /\ \A i \in 1..Len(postponed_tmp) : postponed_tmp[i] = postponed[i + 1]
          /\ \A i \in 1..Len(postponed) : i > Len(postponed_tmp) + 1 => postponed[i].id \in lost
      BY <1>1, <2>1 DEF Parts, CopiedOK
    <3>2. Len(postponed_tmp) + 1 <= Len(postponed') /\ 1 \in 1..Len(postponed)
      BY <1>4, <1>6, <3>1
    <3>3. \A i \in 1..Len(postponed_tmp) : i + 1 \in 1..Len(postponed)
      BY <1>4, <3>1
    <3>4. written + 1 \in lost'
      BY <1>2, <2>1
    <3>5. \A i \in 1..Len(postponed') : i \in 1..Len(postponed) \/ i = Len(postponed) + 1
      BY <1>4, <1>6
    <3>6. \A i \in 1..Len(postponed') : i > Len(postponed_tmp) + 1 => postponed'[i].id \in lost'
      BY <1>6, <1>7, <3>1, <3>4, <3>5
    <3>7. QED
      BY <1>2, <1>6, <2>1, <3>1, <3>2, <3>3, <3>6 DEF CopiedOK
  <2>2. CASE pc = "unlinked"
    BY <1>1, <1>2, <1>6, <1>7, <2>2 DEF Parts, CopiedOK
  <2>3. QED
    BY <1>2, <2>1, <2>2 DEF CopiedOK
<1>15. DeadOK'
  BY <1>1, <1>2 DEF DeadOK, Parts
<1>16. OfferedOK'
  <2>1. pc # "unlinked" => count <= Len(postponed')
    BY <1>1, <1>4, <1>6 DEF Parts, OfferedOK
  <2>2. ASSUME pc # "unlinked", NEW i \in 1..count PROVE postponed'[i] = postponed[i]
    <3>1. i \in 1..Len(postponed)
      BY <1>1, <1>4, <2>2 DEF Parts, OfferedOK
    <3>2. QED
      BY <1>6, <3>1
  <2>3. QED
    BY <1>1, <1>2, <2>1, <2>2 DEF Parts, OfferedOK
<1>17. \A n \in 1..written' : Live(n)' \/ Gone(n)'
  <2>1. \A n : Gone(n) => Gone(n)'
    BY <1>2, <1>7 DEF Gone
  <2>2. QED
    BY <1>1, <1>2, <1>9, <2>1 DEF Parts
<1>18. (\A n \in Nat : Live(n)' => ~In(n, sent')) /\ SentOnce'
  BY <1>1, <1>2, <1>9, <1>10 DEF SentOnce, Parts
<1>19. QED
  BY <1>8, <1>12, <1>13, <1>14, <1>15, <1>16, <1>17, <1>18 DEF IInv

-----------------------------------------------------------------------------
LEMMA UnchangedOK ==
  ASSUME IInv,
         UNCHANGED <<pc, type, art_type, count, files, written, ghosts>>
  PROVE  IInv'
<1>1. UNCHANGED <<pc, type, art_type, count, article, backup, dead_article, letter, cancel,
                  dead_articles, postponed, postponed_tmp, written, sent, offered, given_up, lost>>
  BY DEF files, ghosts
<1>2. Parts
  BY DEF IInv, Parts
<1>3. TypesOK' /\ PlaceOK' /\ InHand' = InHand
  BY <1>1, <1>2 DEF Parts, TypesOK, DraftTypes, PlaceOK, InHand
<1>4. \A n : (Live(n)' <=> Live(n)) /\ (Gone(n)' <=> Gone(n))
  BY <1>1, <1>3 DEF Live, Gone
<1>5. Fresh' /\ OnePlace'
  BY <1>1, <1>2, <1>3, <1>4 DEF Parts, Fresh, OnePlace
<1>6. CopiedOK' /\ OfferedOK' /\ DeadOK'
  BY <1>1, <1>2 DEF Parts, CopiedOK, OfferedOK, DeadOK
<1>7. QED
  BY <1>1, <1>2, <1>3, <1>4, <1>5, <1>6 DEF IInv, Parts, SentOnce

LEMMA InitOK ==
  ASSUME Init
  PROVE  IInv
<1>1. TypesOK
  BY DEF Init, TypesOK, DraftTypes, Files
<1>2. PlaceOK /\ ~InHand
  BY DEF Init, PlaceOK, InHand, Loops, Pickups
<1>3. \A n : ~Live(n) /\ ~In(n, sent)
  BY <1>2, InEmpty DEF Init, Live
<1>4. OnePlace /\ CopiedOK /\ DeadOK /\ OfferedOK
  BY <1>2, InEmpty DEF Init, OnePlace, CopiedOK, DeadOK, OfferedOK
<1>5. Fresh
  BY <1>3 DEF Init, Fresh
<1>6. SentOnce /\ 1..written = {}
  BY DEF Init, SentOnce
<1>7. QED
  BY <1>1, <1>2, <1>3, <1>4, <1>5, <1>6 DEF IInv

LEMMA Inductive ==
  ASSUME IInv, [Next]_vars
  PROVE  IInv'
<1>1. CASE PostArticle \/ PostResponse \/ RepostArticle
  BY <1>1, PostArticleOK, PostResponseOK, RepostArticleOK
<1>2. CASE post_loop
  BY <1>2, PostEditOK, RepairOK, PromptOK, PostQuitOK, PostIspellOK, PostPostOK, RejectedOK,
     PostPostponeOK DEF post_loop
<1>3. CASE pickup_postponed_articles
  BY <1>3, PickupPostponedOK, FetchCopyOK, FetchUnlinkOK, FetchRenameOK, PickupEndsOK, PickupYesOK,
     PickupNoOK DEF pickup_postponed_articles
<1>4. CASE WriteLetter \/ LetterKey \/ CancelArticle \/ CancelKey
  BY <1>4, WriteLetterOK, LetterKeyOK, CancelArticleOK, CancelKeyOK
<1>5. CASE reread_active_after_posting
  BY <1>5, UnchangedOK DEF reread_active_after_posting
<1>6. CASE Crash \/ OtherPostpones
  BY <1>6, CrashOK, OtherPostponesOK
<1>7. CASE UNCHANGED vars
  BY <1>7, UnchangedOK DEF vars
<1>8. QED
  BY <1>1, <1>2, <1>3, <1>4, <1>5, <1>6, <1>7 DEF Next

-----------------------------------------------------------------------------
(* The theorems *)

\* Every article is at one place at most that it can be sent from, and if at
\* none, it is sent, thrown away, dead, or lost in a way that is known.
THEOREM Invariant == Spec => []IInv
<1>1. Init => IInv
  BY InitOK
<1>2. IInv /\ [Next]_vars => IInv'
  BY Inductive
<1>3. QED
  BY <1>1, <1>2, PTL DEF Spec

\* No article is lost on its way between the files, in any order of the
\* reader's answers, with failing editors, mailers and servers, crashes and
\* other tins that write the postponed file.
THEOREM NothingIsLost == Spec => []NothingLost
<1>1. ASSUME IInv PROVE NothingLost
  <2>1. Parts
    BY <1>1 DEF IInv, Parts
  <2>2. DraftTypes /\ sent \in Seq(Sent)
    BY <2>1 DEF Parts, TypesOK
  <2>3. ASSUME NEW S, NEW s \in Seq(S)
        PROVE  \A n : In(n, s) => \E d \in ToSet(s) : d.id = n
    BY DEF In, ToSet
  <2>4. ASSUME NEW n \in 1..written
        PROVE  n \in Stored \cup {s.id : s \in ToSet(sent)} \cup given_up \cup lost
    <3>1. n # 0 /\ (Live(n) \/ Gone(n))
      BY <2>1, <2>4 DEF Parts, TypesOK
    <3>2. CASE Live(n) \/ dead_article.id = n \/ In(n, dead_articles)
      <4>1. \A m \in {n} : In(m, postponed) => \E d \in ToSet(postponed) : d.id = m
        BY <2>2, <2>3 DEF DraftTypes
      <4>2. \A m \in {n} : In(m, postponed_tmp) => \E d \in ToSet(postponed_tmp) : d.id = m
        BY <2>2, <2>3 DEF DraftTypes
      <4>3. \A m \in {n} : In(m, dead_articles) => \E d \in ToSet(dead_articles) : d.id = m
        BY <2>2, <2>3 DEF DraftTypes
      <4>4. \E d \in {article, backup, dead_article, letter, cancel} \cup ToSet(dead_articles)
                     \cup ToSet(postponed)
                     \cup (IF pc \in {"copied", "unlinked"} THEN ToSet(postponed_tmp) ELSE {}) : d.id = n
        BY <3>2, <4>1, <4>2, <4>3 DEF Live
      <4>5. n \in Stored
        BY <3>1, <4>4 DEF Stored, Ids
      <4>6. QED
        BY <4>5
    <3>3. CASE In(n, sent)
      <4>1. \E s \in ToSet(sent) : s.id = n
        BY <2>2, <2>3, <3>3
      <4>2. QED
        BY <4>1
    <3>4. QED
      BY <3>1, <3>2, <3>3 DEF Gone
  <2>5. QED
    BY <2>4 DEF NothingLost
<1>2. QED
  BY Invariant, <1>1, PTL

\* One run through the postponed articles asks about each of them once,
\* although those the reader postpones again are in the file that is read,
\* and what the server or the mailer took is not sent a second time.
THEOREM SentAndOfferedOnce == Spec => []OnceOnly
<1>1. ASSUME IInv PROVE OnceOnly
  <2>1. OfferedOnce
    BY <1>1 DEF IInv, TypesOK, OfferedOK, OfferedOnce, IsInjective
  <2>2. SentOnce
    BY <1>1 DEF IInv
  <2>3. QED
    BY <2>1, <2>2 DEF OnceOnly
<1>2. QED
  BY Invariant, <1>1, PTL

=============================================================================
