------------------------------- MODULE Compose -------------------------------
(***************************************************************************)
(* The headers tin puts into what it writes (post.c), and what it does to  *)
(* them again before the text leaves (post.c, inews.c): pure functions of  *)
(* the article that is answered, of the attributes of the group and of the *)
(* options.  Texts are abstract: a list of newsgroups is a sequence, an    *)
(* address is whether it is valid, and other texts are "" or "text".       *)
(*                                                                         *)
(*   g  attributes of a group: mailing_list, organization, x_comment_to    *)
(*      (BOOLEAN), followup_to (a list of groups), x_headers (headers)     *)
(*   o  options: prompt_followupto, reply_to, distribution, organization,  *)
(*      mail_address, auto_cc, auto_bcc, advertising, use_mailreader_i     *)
(*      (BOOLEAN) and msg_headers_file (headers)                           *)
(*   n  note_h of the article read: newsgroups, followup (lists), refs and *)
(*      messageid, distrib, authorids (BOOLEAN), persist (headers)         *)
(* The build has neither FORGERY nor EVIL_INSIDE nor USE_CANLOCK.          *)
(***************************************************************************)
EXTENDS ArticleCheck

CONSTANTS MAX_MSG_HEADERS, \* places of msg_headers[]
          MAXREFSIZE       \* bound: what a References line may hold

Text == "text"
H(name, text) == [name |-> name, text |-> text]

\* msg_add_header(): a header that is there gets the new text.  With a full
\* table the program reads behind it; here the header is dropped.
msg_add_header(table, name, text) ==
  IF \E i \in DOMAIN table : table[i].name = name
  THEN [i \in DOMAIN table |-> IF table[i].name = name THEN H(name, text) ELSE table[i]]
  ELSE IF Len(table) < MAX_MSG_HEADERS THEN Append(table, H(name, text)) ELSE table

AddIf(condition, table, name, text) ==
  IF condition THEN msg_add_header(table, name, text) ELSE table

AddAll(table, headers) ==
  FoldLeft(LAMBDA t, h : msg_add_header(t, h.name, h.text), table, headers)

\* msg_add_x_headers(): a header by itself, or a file of them.
msg_add_x_headers(table, headers) == AddAll(table, headers)

\* What the reader's editor is given.
msg_write_headers(table) ==
  [blank |-> table = <<>>, separated |-> TRUE, eightbit |-> FALSE,
   head |-> [i \in DOMAIN table |-> [form |-> "ok", name |-> table[i].name,
                                     value |-> table[i].text, spaced |-> FALSE]]]

-----------------------------------------------------------------------------
(***************************************************************************)
(* join_references().  A Message-ID is a record: id, len, its size;        *)
(* marked, its local part ends in "_-_"; damaged; and spaces, the blanks   *)
(* before it.                                                              *)
(***************************************************************************)

\* Damaged ones go and leave a gap of three blanks.
CleanRefs(refs) ==
  FoldLeft(LAMBDA s, r :
             LET space == s.space + r.spaces
             IN IF r.damaged THEN [s EXCEPT !.space = IF space < 3 THEN 3 ELSE space]
                ELSE [out |-> Append(s.out, [r EXCEPT !.spaces = IF space = 0 THEN 1 ELSE space]),
                      space |-> 0],
           [out |-> <<>>, space |-> 0], refs).out

RefSize(refs) == FoldLeft(LAMBDA n, r : n + r.len + r.spaces, 0, refs)

\* Mutant: the id after the one to keep is not looked at.
Ditch_Last(refs) ==
  LET may == {i \in 2..Len(refs) : ~refs[i].marked}
  IN IF may = {} THEN 0 ELSE CHOOSE i \in may : \A j \in may : i >= j

\* The one to ditch: not the first and not a marked one.
Ditch(refs) ==
  LET may == {i \in 2..Len(refs) : ~refs[i].marked}
  IN IF may = {} THEN 0 ELSE CHOOSE i \in may : \A j \in may : i <= j

DitchOne(refs) ==
  LET i == Ditch(refs)
  IN [j \in 1..(Len(refs) - 1) |->
        IF j < i THEN refs[j]
        ELSE IF j = i THEN [refs[j + 1] EXCEPT !.spaces = 3] ELSE refs[j + 1]]

\* Where none is left to ditch the loop runs on into what lies behind the
\* text; that is <<>> here.
join_references(oldrefs, newrefs) ==
  LET joined == CleanRefs(oldrefs) \o [i \in DOMAIN newrefs |-> [newrefs[i] EXCEPT !.spaces = 1]]
      shorter[k \in 0..Len(joined)] ==
        LET refs == shorter[k - 1]
        IN IF k = 0 THEN joined
           ELSE IF RefSize(refs) <= MAXREFSIZE THEN refs
           ELSE IF Ditch(refs) = 0 THEN <<>> ELSE DitchOne(refs)
  IN shorter[Len(joined)]

-----------------------------------------------------------------------------
(* Articles *)

create_normal_article_headers(groups, g, o, art_type) ==
  LET news == art_type = "news"
      t1 == <<H("From", TRUE), H("Subject", Text)>>
      t2 == IF news THEN msg_add_header(t1, "Newsgroups", groups)
            ELSE msg_add_header(t1, "To", Text)
      t3 == IF g.followup_to # <<>> /\ news THEN msg_add_header(t2, "Followup-To", g.followup_to)
            ELSE AddIf(o.prompt_followupto, t2, "Followup-To", <<>>)
      t4 == AddIf(o.reply_to, t3, "Reply-To", TRUE)
      t5 == AddIf(g.organization, t4, "Organization", Text)
      t6 == AddIf(o.distribution /\ news, t5, "Distribution", Text)
      t7 == AddAll(t6, <<H("Summary", ""), H("Keywords", "")>>)
  IN msg_add_x_headers(msg_add_x_headers(t7, o.msg_headers_file), g.x_headers)

\* Several groups are proposed as Followup-To.
Several(groups) == IF Len(groups) > 1 THEN groups ELSE <<>>

\* post_response() where the reader insists on an article.
ResponseIsMail(n, g, ignore) ==
  (n.followup = <<>> \/ ignore \/ n.followup = <<"poster">>) /\ g.mailing_list

post_response(n0, g, o, ignore) ==
  LET n == [n0 EXCEPT !.newsgroups = strip_double_ngs(@),
                      !.followup = IF ignore THEN <<>> ELSE strip_double_ngs(@)]
      news == ~ResponseIsMail(n, g, FALSE)
      t1 == AddIf(g.x_comment_to, <<H("From", TRUE), H("Subject", Text)>>, "X-Comment-To", Text)
      t2 == IF n.followup # <<>> /\ n.followup # <<"poster">>
            THEN AddIf(o.prompt_followupto, msg_add_header(t1, "Newsgroups", n.followup),
                       "Followup-To", Several(n.followup))
            ELSE IF ~news THEN msg_add_header(t1, "To", Text)
            ELSE LET t == AddIf(o.prompt_followupto, msg_add_header(t1, "Newsgroups", n.newsgroups),
                                "Followup-To", Several(n.newsgroups))
                 IN IF g.followup_to # <<>> THEN msg_add_header(t, "Followup-To", g.followup_to)
                    ELSE AddIf(Len(n.newsgroups) > 1, t, "Followup-To", n.newsgroups)
      t3 == msg_add_header(t2, "References",
                           IF n.refs = <<>> THEN <<n.messageid>>
                           ELSE join_references(n.refs, <<n.messageid>>))
      t4 == AddIf(g.organization, t3, "Organization", Text)
      t5 == AddIf(o.reply_to, t4, "Reply-To", TRUE)
      t6 == AddIf(news /\ (n.distrib \/ o.distribution), t5, "Distribution", Text)
      t7 == AddIf(n.authorids, t6, "Author-IDs", Text)
  IN AddAll(msg_add_x_headers(msg_add_x_headers(t7, o.msg_headers_file), g.x_headers), n.persist)

\* repost_article(); superseding the article replaces it.
repost_article(groups, n, g, o, supersede) ==
  LET t1 == AddIf(o.reply_to, <<H("From", TRUE)>>, "Reply-To", TRUE)
      t2 == IF ~supersede THEN t1
            ELSE AddIf(n.distrib, AddIf(n.followup # <<>>, msg_add_header(t1, "Supersedes", n.messageid),
                                        "Followup-To", n.followup),
                       "Distribution", Text)
      t3 == AddAll(t2, <<H("Subject", Text), H("Newsgroups", groups)>>)
      t4 == AddIf(n.refs # <<>>, t3, "References",
                  join_references(n.refs, IF supersede THEN <<>> ELSE <<n.messageid>>))
      t5 == IF supersede THEN t4
            ELSE AddIf(o.distribution,
                       AddIf(g.organization \/ o.organization, t4, "Organization", Text),
                       "Distribution", Text)
  IN msg_add_x_headers(msg_add_x_headers(t5, o.msg_headers_file), g.x_headers)

cancel_article(n, g, o, is_moderated) ==
  LET t1 == AddAll(<<H("From", TRUE)>>, <<H("Subject", Text), H("Newsgroups", strip_double_ngs(n.newsgroups))>>)
      t2 == AddIf(o.prompt_followupto, t1, "Followup-To", <<>>)
      t3 == AddIf(is_moderated, msg_add_header(t2, "Control", n.messageid), "Approved", TRUE)
      t4 == AddIf(g.organization, t3, "Organization", Text)
      t5 == AddIf(n.distrib \/ o.distribution, t4, "Distribution", Text)
  IN msg_add_x_headers(msg_add_x_headers(t5, o.msg_headers_file), g.x_headers)

-----------------------------------------------------------------------------
(* Letters *)

create_mail_headers(o) ==
  IF o.use_mailreader_i THEN <<>> ELSE
  LET t1 == AddAll(AddIf(o.mail_address, <<>>, "From", TRUE), <<H("To", Text), H("Subject", Text)>>)
      t2 == AddIf(o.auto_bcc, AddIf(o.auto_cc, t1, "Cc", Text), "Bcc", Text)
      t3 == AddIf(o.reply_to, AddIf(o.organization, t2, "Organization", Text), "Reply-To", TRUE)
  IN msg_add_x_headers(t3, o.msg_headers_file)

\* mail_to_author(): Newsgroups is renamed, it has no meaning in a letter.
mail_to_author(n, o) ==
  IF o.use_mailreader_i THEN <<>> ELSE
  LET t1 == AddAll(AddIf(o.mail_address, <<>>, "From", TRUE), <<H("To", Text), H("Subject", Text)>>)
      t2 == AddIf(o.auto_bcc, AddIf(o.auto_cc, t1, "Cc", Text), "Bcc", Text)
      t3 == AddAll(t2, <<H("X-Newsgroups", strip_double_ngs(n.newsgroups)), H("In-Reply-To", n.messageid)>>)
      t4 == AddIf(o.reply_to, AddIf(o.organization, t3, "Organization", Text), "Reply-To", TRUE)
  IN msg_add_x_headers(t4, o.msg_headers_file)

\* find_reply_to_addr(): the last of its kind; "none" where the article has
\* neither and the program uses what happens to be there.
find_reply_to_addr(head) ==
  LET last(name) == CHOOSE i \in DOMAIN head :
                      head[i].name = name /\ \A j \in (i + 1)..Len(head) : head[j].name # name
      has(name) == \E i \in DOMAIN head : head[i].name = name
  IN IF has("Reply-To") THEN head[last("Reply-To")].text
     ELSE IF has("From") THEN head[last("From")].text ELSE "none"

\* check_for_spamtrap(): an empty part that is not the last one matches all.
\* $SPAMTRAP is cut in place: the next letter sees only its first part.
check_for_spamtrap(parts, SPAMTRAP, warning_addresses) ==
  LET hit(list) == \E i \in DOMAIN list : list[i] \in parts \/ (list[i] = "" /\ i < Len(list))
  IN [found |-> hit(SPAMTRAP) \/ hit(warning_addresses),
      SPAMTRAP |-> IF SPAMTRAP = <<>> THEN <<>> ELSE <<Head(SPAMTRAP)>>]

\* pcCopyArtHeader() for HEADER_TO: everybody a letter goes to.
pcCopyArtHeader(head, names) ==
  SelectSeq(head, LAMBDA h : h.name \in names)

-----------------------------------------------------------------------------
(* Before it leaves *)

\* modify_headers(): each list without doubles, and no Followup-To that says
\* what Newsgroups has said before it.
modify_headers(head, i) ==
  LET seen == {j \in 1..(i - 1) : head[j].name = "Newsgroups"}
      found == IF seen = {} THEN <<>>
               ELSE strip_double_ngs(head[CHOOSE j \in seen : \A k \in seen : k <= j].text)
      list == strip_double_ngs(head[i].text)
  IN CASE head[i].name = "Newsgroups" -> <<H("Newsgroups", list)>>
       [] head[i].name = "Followup-To" ->
            IF found = <<>> \/ found # list THEN <<H("Followup-To", list)>> ELSE <<>>
       [] OTHER -> <<head[i]>>

checknadd_headers(head, o) ==
  FlattenSeq([i \in DOMAIN head |-> modify_headers(head, i)])
  \o (IF o.advertising THEN <<H("User-Agent", Text)>> ELSE <<>>)

\* insert_from_header(): <<>> when the reader's own address is not valid.
insert_from_header(head, valid) ==
  IF ~valid THEN <<>>
  ELSE (IF \E i \in DOMAIN head : head[i].name = "From" THEN <<>> ELSE <<H("From", TRUE)>>) \o head

\* submit_mail_file(): what the mailer is given, <<>> if it is not called.
submit_mail_file(head, valid) ==
  LET letter == insert_from_header(head, valid)
  IN IF pcCopyArtHeader(letter, {"To", "Cc", "Bcc"}) # <<>>
        /\ pcCopyArtHeader(letter, {"Subject"}) # <<>>
     THEN letter ELSE <<>>

\* sender_needed(): -1 and -2 for a From and a Sender that are not valid.
sender_needed(from, sender) ==
  IF ~from.valid THEN -1
  ELSE IF ~sender.valid THEN -2
  ELSE IF from.login # sender.login \/ from.domain \notin {sender.domain, sender.subdomain} THEN 1
  ELSE 0

\* submit_inews(): the lines sent to the server, <<>> if there are none.  id
\* is the Message-ID that the server proposes with its answer to POST, or "".
submit_inews(head, from, sender, disable_sender, id) ==
  LET own == \E i \in DOMAIN head : head[i].name = "Message-ID"
      needed == IF disable_sender THEN 0 ELSE sender_needed(from, sender)
  IN IF ~(\E i \in DOMAIN head : head[i].name = "From") \/ ~from.valid \/ needed < 0 THEN <<>>
     ELSE <<H("Path", Text)>>
          \o (IF needed = 1 THEN <<H("Sender", TRUE)>> ELSE <<>>)
          \o (IF ~own /\ id # "" THEN <<H("Message-ID", id)>> ELSE <<>>)
          \o head

-----------------------------------------------------------------------------
(* What is expected of these functions. *)

\* The References of a followup end with the article it answers.  None is
\* out of order, the first one, those that mark a change of subject and, where
\* four fit with the gaps between them, the last three are kept (the rules of
\* son-of-1036 that the comment in join_references() quotes).
ReferencesKept(refs, new) ==
  LET ids(s) == [i \in DOMAIN s |-> s[i].id]
      good == SelectSeq(refs, LAMBDA r : ~r.damaged)
      all == Append(ids(good), new.id)
      kept == ids(join_references(refs, <<new>>))
      marked == {good[i].id : i \in {j \in DOMAIN good : good[j].marked}}
      three == {all[i] : i \in {j \in DOMAIN all : j > Len(all) - 3}}
      joined == CleanRefs(refs) \o <<new>>
      four == FoldLeft(LAMBDA s, i : IF i = 1 \/ i > Len(joined) - 3
                                     THEN Append(s, [joined[i] EXCEPT !.spaces = IF @ < 3 THEN 3 ELSE @])
                                     ELSE s,
                       <<>>, [i \in DOMAIN joined |-> i])
  IN /\ kept # <<>> /\ kept[1] = all[1]
     /\ kept = SelectSeq(all, LAMBDA x : x \in ToSet(kept))
     /\ marked \subseteq ToSet(kept)
     /\ marked = {} /\ RefSize(four) <= MAXREFSIZE => three \subseteq ToSet(kept)

\* The article tin proposes has no errors before the reader touches it, and
\* goes out without a Followup-To that repeats the Newsgroups before it (where
\* an article is superseded Followup-To stands first, and stays).
Postable(table, art_type, o) ==
  LET left == checknadd_headers(table, o)
  IN /\ check_article_to_be_posted(msg_write_headers(table), art_type, "US-ASCII", "7bit")
     /\ \A i, j \in DOMAIN left :
          i < j /\ left[i].name = "Newsgroups" /\ left[j].name = "Followup-To" => left[i].text # left[j].text

\* A letter reaches everybody its headers name.
Mailable(table) == submit_mail_file(table, TRUE) # <<>>

=============================================================================
