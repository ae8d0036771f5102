------------------------------ MODULE FiltersMC ------------------------------
(* Two groups of one hierarchy, two articles crossposted between them, one of
   them an answer to the other. *)
EXTENDS Filters

MCGroups == {"g1", "g2"}
MCArticles == {"a1", "a2"}
MCArtsOf == "g1" :> {"a1", "a2"} @@ "g2" :> {"a1"}
MCArt ==
  "a1" :> [subject |-> "s1", from |-> "f1", msgid |-> "m1", refs |-> {}, parent |-> {},
           lines |-> 5, gnksa |-> 0, xref |-> <<"g1", "g2">>]
  @@ "a2" :> [subject |-> "s2", from |-> "f1", msgid |-> "m2", refs |-> {"m1"},
              parent |-> {"m1"}, lines |-> -1, gnksa |-> 300, xref |-> <<>>]
MCScopesOf == [g \in MCGroups |-> <<{g}, MCGroups>>]
MCQuick == 0 :> [header |-> "subj", scope |-> {}, expire |-> 1, icase |-> 1]
           @@ 1 :> [header |-> "msgid_last", scope |-> MCGroups, expire |-> 0, icase |-> 0]

Answer == [text |-> None, kind |-> None, subj |-> FALSE, from |-> FALSE, msgid |-> 0, icase |-> 0,
           lines |-> NoTest, score |-> 0, expire |-> 0, scope |-> 1]
MCAnswers ==
  {[Answer EXCEPT !.text = "f1", !.kind = "from", !.icase = 1, !.expire = 1],
   [Answer EXCEPT !.from = TRUE, !.msgid = 3, !.lines = [cmp |-> ">", num |-> 3],
                  !.score = 20000, !.scope = 2]}

\* A rule of each kind the menus do not make; time= counts in seconds.
Rule(head, more) == <<Line("group", MCGroups), Line("type", 0)>> \o head \o more
MCHandFiles ==
  {Rule(<<Line("score", Number(60)), Line("xref", "g2")>>, <<Line("time", 11)>>)
        \o Rule(<<Line("score", Word("hot")), Line("gnksa", [cmp |-> "=", num |-> 0]),
                  Line("refs_only", "m1"), Line("xref_max", 2),
                  Line("xref_score", <<3, "g2">>)>>, <<>>)}
MCSubjects == {"s1"}
=============================================================================
