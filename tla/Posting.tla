------------------------------- MODULE Posting -------------------------------
(***************************************************************************)
(* Writing articles (post.c): the files an article passes through from the *)
(* editor to the server, the file of postponed articles, rejected and dead *)
(* articles, followups, reposts, cancels and letters.                      *)
(*                                                                         *)
(* One action is one answer of the reader, up to the next prompt, except   *)
(* that taking an article out of the postponed file goes in the steps that *)
(* a crash or a second tin of the same user can come between.              *)
(***************************************************************************)
EXTENDS ArticleCheck, TLC

CONSTANTS
  Texts,        \* Texts[t]: what the reader may write, for ArticleCheck
  active,       \* the newsgroups of active[]
  bogus,        \* those the server does not know any more
  mailing_list, \* groups that are gated to a mailing list
  moderated,    \* moderated[g]: the flag of the group
  subscribed,
  Targets,      \* bound: the lists of newsgroups that are written to
  can_post,     \* the server allows posting
  unlink_article, keep_dead_articles,  \* of tinrc
  MimeSettings, \* bound: the <<mm_charset, encoding>> the options are set to
  MaxDrafts     \* bound: articles written in all

VARIABLES
  pc,           \* the prompt that waits: see Waiting
  ch,           \* the key that post_loop() looks at
  type,         \* POST_QUICK .. POST_REPOST of the posting under way
  art_type,     \* "news" or "mail"
  charset, encoding,
  count, all,   \* of pickup_postponed_articles()
  article, backup, dead_article, letter, cancel, \* files: a draft or NoDraft
  dead_articles,                         \* a file of drafts
  postponed, postponed_tmp,              \* postponed.articles and its copy
  art_was_posted, reread_active_for_posted_arts,
  written,      \* the number of drafts begun
  sent,         \* what the server or the mailer took, in order
  offered,      \* drafts the running pickup has asked about
  given_up,     \* drafts the reader has thrown away
  lost          \* drafts that are known to be lost, see the actions

files == <<article, backup, dead_article, letter, cancel, dead_articles, postponed, postponed_tmp>>
flags == <<art_was_posted, reread_active_for_posted_arts>>
ghosts == <<sent, offered, given_up, lost>>
vars == <<pc, ch, type, art_type, charset, encoding, count, all, files, flags, written, ghosts>>

NoDraft == [id |-> 0]
Draft(id, text, groups, as) == [id |-> id, text |-> text, groups |-> groups, as |-> as]
Ids(S) == {d.id : d \in S} \ {0}

\* What post_loop() does with a draft before it posts it.
Keys == {"edit", "quit", "post", "postpone", "ispell"}

-----------------------------------------------------------------------------
(* May these newsgroups be posted to, and is it mail or news? *)

Refused(g, as) ==
  \/ g \in bogus
  \/ as = "news" /\ ~can_post
  \/ moderated[g] \in {"x", "n"}

\* art_type after the first n groups: one mailing list makes it mail.
TypeAt(groups, n) ==
  IF \E i \in 1..n : groups[i] \in active /\ groups[i] \in mailing_list
  THEN "mail" ELSE "news"

\* Every group of the active file allows it, and there is one; the reader
\* has said yes for each moderated one.
check_moderated(groups, yes) ==
  LET known == {i \in DOMAIN groups : groups[i] \in active}
  IN /\ known # {}
     /\ \A i \in known : /\ ~Refused(groups[i], TypeAt(groups, i))
                         /\ moderated[groups[i]] = "m" => yes

-----------------------------------------------------------------------------
Idle == pc = "idle"

\* The article of a posting under way is over; what is next.
Return ==
  /\ pc' = IF type = "POST_POSTPONED" THEN "pickup" ELSE "idle"
  /\ type' = IF type = "POST_POSTPONED" THEN type ELSE "none"
  /\ ch' = "none"

Unlink(f) == IF unlink_article THEN NoDraft ELSE f

\* Compose(how, groups, as, text): a new file ~/.article and post_loop() on it.
Compose(how, groups, as, text, key) ==
  /\ written < MaxDrafts /\ written' = written + 1
  /\ article' = Draft(written', text, groups, as)
  /\ type' = how /\ art_type' = as
  /\ pc' = "loop" /\ ch' = key
  /\ UNCHANGED <<charset, encoding, count, all, backup, dead_article, letter, cancel, dead_articles,
                 postponed, postponed_tmp, flags, ghosts>>

\* post_article() and quick_post_article(); the postponed articles that the
\* second one offers first are PickupPostponed.
PostArticle ==
  /\ Idle
  /\ \E groups \in Targets, t \in DOMAIN Texts, how \in {"POST_QUICK", "POST_NORMAL"},
        yes \in BOOLEAN :
       /\ check_moderated(groups, yes)
       /\ Compose(how, strip_double_ngs(groups), TypeAt(groups, Len(groups)), t, "edit")

\* post_response(): the followup goes to Followup-To unless the reader wants
\* to ignore it; "poster" means a letter (MailToSomeone) unless he insists.
PostResponse ==
  /\ Idle /\ can_post
  /\ \E newsgroups \in Targets : \E group \in ToSet(newsgroups), followup \in Targets \cup {<<>>, <<"poster">>},
        ignore \in BOOLEAN, t \in DOMAIN Texts :
       LET direct == followup # <<>> /\ followup # <<"poster">> /\ ~ignore
           gated == ~direct /\ group \in active \cap mailing_list
       IN Compose("POST_RESPONSE", strip_double_ngs(IF direct THEN followup ELSE newsgroups),
                  IF gated THEN "mail" ELSE "news", t, "edit")

\* repost_article(); superseding goes to the editor first.
RepostArticle ==
  /\ Idle /\ can_post
  /\ \E groups \in Targets, t \in DOMAIN Texts, key \in Keys, yes \in BOOLEAN :
       /\ check_moderated(groups, yes)
       /\ Compose("POST_REPOST", groups, TypeAt(groups, Len(groups)), t, key)

-----------------------------------------------------------------------------
(* post_loop() *)

Loop(key) == pc = "loop" /\ ch = key

LoopOnly == UNCHANGED <<art_type, charset, encoding, count, all, letter, cancel,
                        postponed_tmp, written, offered>>

\* iKeyQuit and iKeyAbort: the reader does not want the article any more.
Quit ==
  /\ article' = Unlink(article)
  /\ given_up' = given_up \cup Ids({article})
  /\ Return

Checked(text) ==
  check_article_to_be_posted(Texts[text], art_type, charset, encoding)

\* iKeyPostEdit.  If the editor fails the article is gone; leaving it
\* unchanged or empty counts as giving up; a bad one must be repaired.
PostEdit ==
  /\ Loop("edit")
  /\ \/ /\ article' = Unlink(article) /\ lost' = lost \cup Ids({article})
        /\ Return /\ UNCHANGED given_up
     \/ Quit /\ UNCHANGED lost
     \/ \E t \in DOMAIN Texts :
          /\ article' = [article EXCEPT !.text = t]
          /\ pc' = IF Checked(t) THEN "prompt" ELSE "repair"
          /\ UNCHANGED <<type, ch, lost, given_up>>
  /\ UNCHANGED <<backup, dead_article, dead_articles, postponed, flags, sent>> /\ LoopOnly

\* repair_article(): edit it again, change the options, or give up.  After
\* an editor that failed the bad article may be posted as it is.
Repair ==
  /\ pc = "repair"
  /\ \/ \E t \in DOMAIN Texts :
          /\ article' = [article EXCEPT !.text = t]
          /\ pc' = IF Checked(t) THEN "prompt" ELSE "repair"
          /\ UNCHANGED <<type, ch, charset, encoding, given_up>>
     \/ pc' = "prompt" /\ UNCHANGED <<type, article, ch, charset, encoding, given_up>>
     \/ /\ \E m \in MimeSettings : charset' = m[1] /\ encoding' = m[2]
        /\ pc' = IF check_article_to_be_posted(Texts[article.text], art_type, charset', encoding')
                 THEN "prompt" ELSE "repair"
        /\ UNCHANGED <<type, article, ch, given_up>>
     \/ Quit /\ UNCHANGED <<charset, encoding>>
  /\ UNCHANGED <<art_type, count, all, letter, cancel, backup, dead_article, dead_articles,
                 postponed, postponed_tmp, flags, written, sent, offered, lost>>

Prompt ==
  /\ pc = "prompt" /\ pc' = "loop" /\ ch' \in Keys
  /\ UNCHANGED <<files, flags, type, art_type, charset, encoding, count, all, written, ghosts>>

PostQuit ==
  /\ Loop("quit")
  /\ Quit
  /\ UNCHANGED <<backup, dead_article, dead_articles, postponed, flags, sent, lost>> /\ LoopOnly

\* Spelling and signatures: the text may change and is not checked again.
PostIspell ==
  /\ Loop("ispell")
  /\ \E t \in DOMAIN Texts : article' = [article EXCEPT !.text = t]
  /\ pc' = "prompt"
  /\ UNCHANGED <<type, ch, backup, dead_article, dead_articles, postponed, flags, sent, lost, given_up>>
  /\ LoopOnly

\* update_active_after_posting(): a group is flagged when its comma is seen,
\* so the last one of the list never is.
Flagged(groups) == ToSet(Front(groups)) \cap active \cap subscribed

\* Mutant: The article is put into the postponed file by every post that fails too.
PostPost_KeepsPostponed ==
  /\ Loop("post")
  /\ \/ /\ sent' = Append(sent, [id |-> article.id, as |-> art_type])
        /\ postponed' = IF type = "POST_POSTPONED" THEN Append(postponed, article) ELSE postponed
        /\ article' = Unlink(article) /\ Return
        /\ UNCHANGED <<flags, backup>>
     \/ /\ backup' = article /\ pc' = "rejected"
        /\ UNCHANGED <<type, article, ch, sent, flags, postponed>>
  /\ UNCHANGED <<dead_article, dead_articles, lost, given_up>> /\ LoopOnly

\* iKeyPostPost: a copy is kept while submit_news_file() or submit_mail_file()
\* rewrites the article and hands it over.
PostPost ==
  /\ Loop("post")
  /\ \/ /\ sent' = Append(sent, [id |-> article.id, as |-> art_type])
        /\ IF art_type = "news"
           THEN /\ art_was_posted' = art_was_posted \cup Flagged(article.groups)
                /\ reread_active_for_posted_arts' =
                     (reread_active_for_posted_arts \/ Flagged(article.groups) # {})
           ELSE UNCHANGED flags
        /\ backup' = NoDraft
        /\ article' = Unlink(article)
        /\ Return
     \/ backup' = article /\ pc' = "rejected" /\ UNCHANGED <<type, article, ch, sent, flags>>
  /\ UNCHANGED <<dead_article, dead_articles, postponed, lost, given_up>> /\ LoopOnly

\* prompt_rejected().  ~/dead.article is written anew each time; what it held
\* is kept in ~/dead.articles only if the reader has asked for that.
Rejected ==
  /\ pc = "rejected"
  /\ \/ /\ postponed' = Append(postponed, backup)
        /\ Return
        /\ UNCHANGED <<article, backup, dead_article, dead_articles, lost>>
     \/ /\ article' = backup /\ backup' = NoDraft
        /\ pc' = "loop" /\ ch' = "edit"
        /\ UNCHANGED <<type, postponed, dead_article, dead_articles, lost>>
     \/ /\ backup' = NoDraft
        /\ dead_article' = article /\ article' = NoDraft
        /\ IF keep_dead_articles
           THEN dead_articles' = Append(dead_articles, article) /\ UNCHANGED lost
           ELSE lost' = lost \cup Ids({dead_article}) /\ UNCHANGED dead_articles
        /\ Return
        /\ UNCHANGED postponed
  /\ UNCHANGED <<flags, sent, given_up>> /\ LoopOnly

PostPostpone ==
  /\ Loop("postpone")
  /\ postponed' = Append(postponed, article)
  /\ article' = Unlink(article)
  /\ Return
  /\ UNCHANGED <<backup, dead_article, dead_articles, flags, sent, lost, given_up>> /\ LoopOnly

-----------------------------------------------------------------------------
(***************************************************************************)
(* pickup_postponed_articles(): as many articles as the file has at the    *)
(* start are taken from its front one after the other.                     *)
(***************************************************************************)
PickupOnly ==
  UNCHANGED <<art_type, charset, encoding, backup, dead_article, letter, cancel, dead_articles,
              flags, written, sent>>

\* The variables of the function are forgotten when it returns.
Locals == type' = "none" /\ count' = 0 /\ all' = FALSE /\ offered' = <<>>

PickupPostponed ==
  /\ Idle /\ postponed # <<>>
  /\ \E yes \in BOOLEAN : all' = yes
  /\ count' = Len(postponed)
  /\ type' = "POST_POSTPONED" /\ pc' = "pickup" /\ offered' = <<>>
  /\ UNCHANGED <<ch, article, postponed, postponed_tmp, given_up, lost>> /\ PickupOnly

\* fetch_postponed_article(): the first article goes to ~/.article, the
\* others to a second file, which then takes the place of the first.
FetchCopy ==
  /\ pc = "pickup" /\ count > 0 /\ postponed # <<>>
  /\ article' = [Head(postponed) EXCEPT !.as = "news"]
  /\ postponed_tmp' = Tail(postponed)
  /\ pc' = "copied"
  /\ UNCHANGED <<ch, type, count, all, postponed, given_up, lost, offered>> /\ PickupOnly

FetchUnlink ==
  /\ pc = "copied" /\ pc' = "unlinked"
  /\ postponed' = <<>>
  /\ UNCHANGED <<ch, type, count, all, article, postponed_tmp, given_up, lost, offered>>
  /\ PickupOnly

\* Mutant: The loop runs until the file is empty instead of counting.
FetchRename_NoCount ==
  /\ pc = "unlinked" /\ pc' = "ask"
  /\ postponed' = IF postponed_tmp # <<>> THEN postponed_tmp ELSE postponed
  /\ postponed_tmp' = <<>>
  /\ offered' = Append(offered, article.id)
  /\ UNCHANGED <<count, ch, type, all, article, given_up, lost>> /\ PickupOnly

FetchRename ==
  /\ pc = "unlinked" /\ pc' = "ask"
  /\ postponed' = IF postponed_tmp # <<>> THEN postponed_tmp ELSE postponed
  /\ postponed_tmp' = <<>>
  /\ count' = count - 1
  /\ offered' = Append(offered, article.id)
  /\ UNCHANGED <<ch, type, all, article, given_up, lost>> /\ PickupOnly

PickupEnds ==
  /\ pc = "pickup" /\ (count = 0 \/ postponed = <<>>)
  /\ pc' = "idle" /\ ch' = "none" /\ Locals
  /\ UNCHANGED <<article, postponed, postponed_tmp, given_up, lost>>
  /\ PickupOnly

\* y, Y and A; without the right to post the article that was taken is left
\* to the next one that is written over it.
PickupYes ==
  /\ pc = "ask"
  /\ all' \in {all, TRUE}
  /\ IF can_post
     THEN /\ pc' = "loop" /\ ch' \in (IF all' THEN {"post"} ELSE {"edit", "post"})
          /\ art_type' = "news" /\ UNCHANGED lost
     ELSE /\ pc' = "pickup" /\ lost' = lost \cup Ids({article})
          /\ UNCHANGED <<ch, art_type>>
  /\ UNCHANGED <<type, charset, encoding, count, files, flags, written, sent, offered, given_up>>

\* Mutant: The article the reader does not want now is not written back.
PickupNo_NoAppend ==
  /\ pc = "ask" /\ ~all
  /\ article' = NoDraft /\ UNCHANGED postponed
  /\ \/ pc' = "pickup" /\ UNCHANGED <<type, count, all, offered>>
     \/ pc' = "idle" /\ Locals
  /\ UNCHANGED <<ch, postponed_tmp, given_up, lost>> /\ PickupOnly

\* n goes on with the next one, q and ESC do not.
PickupNo ==
  /\ pc = "ask" /\ ~all
  /\ postponed' = Append(postponed, article) /\ article' = NoDraft
  /\ \/ pc' = "pickup" /\ UNCHANGED <<type, count, all, offered>>
     \/ pc' = "idle" /\ Locals
  /\ UNCHANGED <<ch, postponed_tmp, given_up, lost>> /\ PickupOnly

-----------------------------------------------------------------------------
(***************************************************************************)
(* Letters: mail_to_someone(), mail_to_author() and mail_bug_report() on   *)
(* ~/.letter.  Only the first one may keep the file.                       *)
(***************************************************************************)
LetterOnly ==
  UNCHANGED <<type, art_type, charset, encoding, count, all, article, backup, dead_article,
              cancel, dead_articles, postponed, postponed_tmp, flags, offered>>

WriteLetter ==
  /\ Idle /\ written < MaxDrafts /\ written' = written + 1
  /\ \E t \in DOMAIN Texts : letter' = Draft(written', t, <<>>, "mail")
  /\ pc' = "letter" /\ ch' \in {"edit", "quit", "send"}
  /\ UNCHANGED <<sent, given_up, lost>> /\ LetterOnly

LetterKey ==
  /\ pc = "letter"
  /\ \/ /\ ch = "edit"
        /\ \E t \in DOMAIN Texts : letter' = [letter EXCEPT !.text = t]
        /\ ch' \in {"edit", "quit", "send"} /\ pc' = pc
        /\ UNCHANGED <<sent, given_up, lost>>
     \/ /\ ch = "quit"
        /\ pc' = "idle" /\ ch' = "none" /\ letter' \in {NoDraft, Unlink(letter)}
        /\ given_up' = given_up \cup Ids({letter}) /\ UNCHANGED <<sent, lost>>
     \/ /\ ch \in {"send", "edit"} \* the mailer or the editor fails
        /\ pc' = "idle" /\ ch' = "none" /\ letter' \in {NoDraft, Unlink(letter)}
        /\ lost' = lost \cup Ids({letter}) /\ UNCHANGED <<sent, given_up>>
     \/ /\ ch = "send"
        /\ sent' = Append(sent, [id |-> letter.id, as |-> "mail"])
        /\ pc' = "idle" /\ ch' = "none" /\ letter' \in {NoDraft, Unlink(letter)}
        /\ UNCHANGED <<given_up, lost>>
  /\ UNCHANGED written /\ LetterOnly

(***************************************************************************)
(* cancel_article(): a control message in ~/.cancel, edited and sent until *)
(* the server takes it or the reader gives up.  Choosing to supersede the  *)
(* article instead is RepostArticle.                                       *)
(***************************************************************************)
CancelOnly ==
  UNCHANGED <<type, art_type, charset, encoding, count, all, article, backup, letter,
              dead_article, dead_articles, postponed, postponed_tmp, flags, offered>>

CancelArticle ==
  /\ Idle /\ can_post /\ written < MaxDrafts /\ written' = written + 1
  /\ \E groups \in Targets, t \in DOMAIN Texts :
       cancel' = Draft(written', t, strip_double_ngs(groups), "news")
  /\ pc' = "cancel"
  /\ UNCHANGED <<ch, sent, given_up, lost>> /\ CancelOnly

CancelKey ==
  /\ pc = "cancel"
  /\ \/ /\ \E t \in DOMAIN Texts : cancel' = [cancel EXCEPT !.text = t]
        /\ UNCHANGED <<pc, sent, given_up>>
     \/ /\ sent' = Append(sent, [id |-> cancel.id, as |-> "news"])
        /\ cancel' = NoDraft /\ pc' = "idle" /\ UNCHANGED given_up
     \/ UNCHANGED <<pc, cancel, sent, given_up>> \* submit_news_file() fails
     \/ /\ given_up' = given_up \cup Ids({cancel})
        /\ cancel' = NoDraft /\ pc' = "idle" /\ UNCHANGED sent
  /\ UNCHANGED <<ch, written, lost>> /\ CancelOnly

-----------------------------------------------------------------------------
(* The selection page looks at the groups that were posted to. *)

reread_active_after_posting ==
  /\ Idle /\ reread_active_for_posted_arts
  /\ reread_active_for_posted_arts' = FALSE
  /\ art_was_posted' = art_was_posted \ subscribed
  /\ UNCHANGED <<pc, ch, type, art_type, charset, encoding, count, all, files, written, ghosts>>

\* The program is killed.  The drafts in ~/.article and ~/.letter will be
\* overwritten, and so will the second file if it was not renamed yet.
Crash ==
  /\ ~Idle /\ pc' = "idle" /\ ch' = "none" /\ Locals /\ art_was_posted' = {}
  /\ reread_active_for_posted_arts' = FALSE
  /\ lost' = lost \cup Ids({article, letter, cancel, backup})
               \cup (IF pc = "unlinked" THEN Ids(ToSet(postponed_tmp)) ELSE {})
  /\ UNCHANGED <<art_type, charset, encoding, files, written, sent, given_up>>

\* Another tin of the same user postpones an article; while this one is
\* fetching, it is written to a file that is about to be replaced.
OtherPostpones ==
  /\ written < MaxDrafts /\ written' = written + 1
  /\ \E groups \in Targets :
       postponed' = Append(postponed, Draft(written', CHOOSE t \in DOMAIN Texts : TRUE,
                                            groups, "news"))
  /\ lost' = IF pc \in {"copied", "unlinked"} THEN lost \cup {written'} ELSE lost
  /\ UNCHANGED <<pc, ch, type, art_type, charset, encoding, count, all, article, backup,
                 dead_article, letter, cancel, dead_articles, postponed_tmp, flags, sent, offered,
                 given_up>>

Init ==
  /\ pc = "idle" /\ ch = "none" /\ type = "none" /\ art_type = "news"
  /\ charset = "US-ASCII" /\ encoding = "other"
  /\ count = 0 /\ all = FALSE
  /\ article = NoDraft /\ backup = NoDraft /\ dead_article = NoDraft
  /\ letter = NoDraft /\ cancel = NoDraft
  /\ dead_articles = <<>> /\ postponed = <<>> /\ postponed_tmp = <<>>
  /\ art_was_posted = {} /\ reread_active_for_posted_arts = FALSE
  /\ written = 0 /\ sent = <<>> /\ offered = <<>> /\ given_up = {} /\ lost = {}

post_loop == PostEdit \/ Repair \/ Prompt \/ PostQuit \/ PostIspell \/ PostPost \/ Rejected
             \/ PostPostpone

pickup_postponed_articles ==
  PickupPostponed \/ FetchCopy \/ FetchUnlink \/ FetchRename \/ PickupEnds \/ PickupYes \/ PickupNo

Next ==
  \/ PostArticle \/ PostResponse \/ RepostArticle \/ post_loop
  \/ pickup_postponed_articles \/ WriteLetter \/ LetterKey
  \/ CancelArticle \/ CancelKey
  \/ reread_active_after_posting \/ Crash \/ OtherPostpones

Spec == Init /\ [][Next]_vars

-----------------------------------------------------------------------------
Stored ==
  Ids({article, backup, dead_article, letter, cancel} \cup ToSet(dead_articles) \cup ToSet(postponed)
      \cup (IF pc \in {"copied", "unlinked"} THEN ToSet(postponed_tmp) ELSE {}))

(***************************************************************************)
(* No article is lost on its way between the files: each one that was      *)
(* begun is in a file that tin looks at or keeps for the reader, was sent, *)
(* was thrown away by him, or fell victim to one of the failures that the  *)
(* actions above name.                                                     *)
(***************************************************************************)
NothingLost ==
  1..written \subseteq Stored \cup {s.id : s \in ToSet(sent)} \cup given_up \cup lost

(***************************************************************************)
(* One run through the postponed articles offers each of them once, even   *)
(* if some are postponed again or rejected on the way.                     *)
(***************************************************************************)
OfferedOnce == pc # "idle" => IsInjective(offered)

(***************************************************************************)
(* What was sent is not sent again: it is neither left in the postponed    *)
(* file nor in an article that a prompt would post.                        *)
(***************************************************************************)
SentOnce == \A i, j \in DOMAIN sent : sent[i].id = sent[j].id => i = j

\* An article is asked about once and sent once.
OnceOnly == OfferedOnce /\ SentOnce

=============================================================================
