----------------------------- MODULE ArticleCheck -----------------------------
(***************************************************************************)
(* What check_article_to_be_posted() (post.c) makes of an article that the *)
(* reader has edited, and the clean-up of its lists of newsgroups.         *)
(*                                                                         *)
(* An article is a record:                                                 *)
(*   blank      the first line is empty: there is no header                *)
(*   head       the header lines, records with                             *)
(*                form   "ok", "nospace" (none after the colon), "nocolon" *)
(*                       or "more" (a continuation of the line before)     *)
(*                name   the name of the header                            *)
(*                value  a sequence of newsgroups; for Subject "", "blank" *)
(*                       or "text"; for an address whether it is valid     *)
(*                spaced the value has a space in it                       *)
(*   separated  an empty line ends the header                              *)
(*   eightbit   there are bytes outside ASCII                              *)
(* The build has neither FORGERY nor HAVE_FASCIST_NEWSADMIN; warnings are   *)
(* left out.                                                               *)
(***************************************************************************)
EXTENDS Integers, FiniteSets, SequencesExt

\* The characters tinrc.mm_charset and the transfer encoding can carry.
Charsets == {"US-ASCII", "other"}
Encodings == {"7bit", "other"}

\* strip_double_ngs(): each newsgroup once, at its first place.
strip_double_ngs(groups) ==
  FoldLeft(LAMBDA done, g : IF g \in ToSet(done) THEN done ELSE Append(done, g),
           <<>>, groups)

Of(art, name) == {i \in DOMAIN art.head : /\ art.head[i].form # "more"
                                          /\ art.head[i].form # "nocolon"
                                          /\ art.head[i].name = name}

Continued(art, i) == i < Len(art.head) /\ art.head[i + 1].form = "more"

\* Newsgroups: may not be spaced, continued or the first to name no group.
NewsgroupsErrors(art) ==
  Cardinality({i \in Of(art, "Newsgroups") :
    \/ art.head[i].spaced \/ Continued(art, i)
    \/ \A j \in Of(art, "Newsgroups") : j <= i => art.head[j].value = <<>>})

FollowupToErrors(art) ==
  Cardinality({i \in Of(art, "Followup-To") : art.head[i].spaced \/ Continued(art, i)})

Addresses == {"From", "Reply-To", "Approved", "Message-ID"}

\* What a header line is blamed for by itself.
LineErrors(art) ==
  Cardinality({i \in DOMAIN art.head : art.head[i].form \in {"nocolon", "nospace"}})
  + Cardinality(Of(art, "Sender"))
  + Cardinality(UNION {{i \in Of(art, n) : ~art.head[i].value} : n \in Addresses})

\* The headers that must be there, and those that may be there only once.
CountErrors(art, art_type) ==
  LET twice == {n \in {"Newsgroups", "Subject"} : Cardinality(Of(art, n)) > 1}
      followups == {i \in Of(art, "Followup-To") : art.head[i].value # <<>>}
      subjects == Of(art, "Subject")
      last == CHOOSE i \in subjects : \A j \in subjects : j <= i
  IN Cardinality(twice) + (IF Cardinality(followups) > 1 THEN 1 ELSE 0)
     + (IF subjects = {} \/ (subjects # {} /\ art.head[last].value = "") THEN 1 ELSE 0)
     + (IF Of(art, "Newsgroups") = {} /\ art_type = "news" THEN 1 ELSE 0)

\* Bytes that neither the charset nor the transfer encoding can carry.
MimeErrors(art, charset, encoding) ==
  (IF art.eightbit /\ charset = "US-ASCII" THEN 1 ELSE 0)
  + (IF art.eightbit /\ encoding = "7bit" THEN 1 ELSE 0)

errors(art, art_type, charset, encoding) ==
  IF art.blank
  THEN 1 + CountErrors([art EXCEPT !.head = <<>>], art_type) + MimeErrors(art, charset, encoding)
  ELSE LineErrors(art) + NewsgroupsErrors(art) + FollowupToErrors(art)
       + CountErrors(art, art_type) + (IF art.separated THEN 0 ELSE 1)
       + MimeErrors(art, charset, encoding)

check_article_to_be_posted(art, art_type, charset, encoding) ==
  errors(art, art_type, charset, encoding) = 0

=============================================================================
