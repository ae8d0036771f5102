------------------------------- MODULE Address -------------------------------
(***************************************************************************)
(* The check of mail addresses (misc.c, the gnksa functions): an address is *)
(* a sequence of characters, strings of length one; in lower case, and      *)
(* without the bytes above 127, which the program looks up before its      *)
(* tables.  A result is the code, with the address and the real name that  *)
(* were found.  The build has neither ENFORCE_RFC1034 nor                  *)
(* REQUIRE_BRACKETS_IN_DOMAIN_LITERAL.                                     *)
(***************************************************************************)
EXTENDS Integers, SequencesExt

CONSTANTS LABEL_MAX,          \* 63: what a label may be long
          TopDomains,         \* gnksa_country_codes and gnksa_domain_list
          OctetMax,           \* 255
          disable_gnksa_domain_check

Digits == {"0", "1", "2", "3", "4", "5", "6", "7", "8", "9"}
Letters == {"a", "b", "c", "d", "e", "x"}
\* The characters of the tables gnksa_legal_*_chars.
Fqdn == Digits \cup Letters \cup {".", "-"}
Localpart == Fqdn \cup {"=", "?", "!", "/"}

At(s, i) == IF i \in DOMAIN s THEN s[i] ELSE ""
End(s) == At(s, Len(s))
Is(s, c) == {i \in DOMAIN s : s[i] = c}
Blank(c) == c \in {" ", "\t"}
Upto(s, i) == SubSeq(s, 1, i - 1)
After(s, i) == SubSeq(s, i + 1, Len(s))
LastOf(S) == CHOOSE i \in S : \A j \in S : j <= i

RECURSIVE Trim(_)
Trim(s) == IF s = <<>> THEN s ELSE IF Blank(End(s)) THEN Trim(Front(s))
           ELSE IF Blank(s[1]) THEN Trim(Tail(s)) ELSE s
RECURSIVE Split(_)
Split(s) == IF Is(s, ".") = {} THEN <<s>>
            ELSE Append(Split(Upto(s, LastOf(Is(s, ".")))), After(s, LastOf(Is(s, "."))))

-----------------------------------------------------------------------------
(* The two parts of the address                                             *)

Value(numeral) ==
  FoldLeft(LAMBDA n, d : 10 * n + (CHOOSE v \in 0..9 : ToString(v) = d), 0, numeral)

\* Four numbers, that are no private or local network.
gnksa_check_domain_literal(domain) ==
  LET bracketed == At(domain, 1) = "["
      parts == Split(IF bracketed /\ End(domain) = "]" THEN Front(Tail(domain))
                     ELSE IF bracketed THEN <<>> ELSE domain)
      x == [i \in DOMAIN parts |-> Value(parts[i])]
  IN IF \/ Len(parts) # 4
        \/ \E i \in DOMAIN parts : parts[i] = <<>> \/ ~(ToSet(parts[i]) \subseteq Digits)
     THEN "BAD_DOMAIN_LITERAL"
     ELSE IF \E i \in DOMAIN x : x[i] > OctetMax THEN "BAD_DOMAIN_LITERAL"
     ELSE IF /\ ~disable_gnksa_domain_check
             /\ \/ x[1] \in {0, 10, 127}
                \/ x[1] = 172 /\ x[2] \div 16 = 1
                \/ x[1] = 192 /\ x[2] = 168
     THEN "LOCAL_DOMAIN_LITERAL" ELSE "OK"

\* What the labels before and behind a dot are blamed for.  The first label is
\* measured from its first character on, the others from the dot before them.
Labels(domain) ==
  LET dots == Is(domain, ".")
      Before(i) == IF \E j \in dots : j < i THEN LastOf({j \in dots : j < i}) ELSE 1
      Error(i) == IF i - Before(i) - 1 > LABEL_MAX THEN "ILLEGAL_LABEL_LENGTH"
                  ELSE IF At(domain, i + 1) = "." THEN "ZERO_LENGTH_LABEL"
                  ELSE IF "-" \in {At(domain, i + 1), At(domain, i - 1)}
                  THEN "ILLEGAL_LABEL_HYPHEN" ELSE "OK"
      bad == {i \in dots : Error(i) # "OK"}
  IN IF bad = {} THEN "OK" ELSE Error(CHOOSE i \in bad : \A j \in bad : i <= j)

gnksa_check_domain(domain) ==
  LET top == Last(Split(domain))
      numeric == Len(top) \in 1..3 /\ ToSet(top) \subseteq Digits
      wellformed == Len(top) # 2 \/ ToSet(top) \subseteq Letters
      known == \/ top \in TopDomains
               \/ disable_gnksa_domain_check /\ Len(top) > 2
  IN IF At(domain, 1) = "[" THEN gnksa_check_domain_literal(domain)
     ELSE IF At(domain, 1) = "." \/ End(domain) = "." THEN "ZERO_LENGTH_LABEL"
     ELSE IF Is(domain, ".") = {} THEN "SINGLE_DOMAIN"
     ELSE IF numeric THEN gnksa_check_domain_literal(domain)
     ELSE IF Len(top) = 1 \/ ~wellformed THEN "ILLEGAL_DOMAIN"
     ELSE IF ~known THEN IF Len(top) = 2 THEN "UNKNOWN_DOMAIN" ELSE "INVALID_DOMAIN"
     ELSE IF Labels(domain) # "OK" THEN Labels(domain)
     ELSE IF ~(ToSet(domain) \subseteq Fqdn) THEN "INVALID_FQDN_CHAR" ELSE "OK"

gnksa_check_localpart(localpart) ==
  IF localpart = <<>> THEN "LOCALPART_MISSING"
  ELSE IF <<>> \in ToSet(Split(localpart)) THEN "ZERO_LENGTH_LOCAL_WORD"
  ELSE IF ~(ToSet(localpart) \subseteq Localpart) THEN "INVALID_LOCALPART" ELSE "OK"

-----------------------------------------------------------------------------
(* The real name: a machine over its characters                             *)

\* What a word may not have, by the state: unquoted, quoted, in the parts of an
\* encoded word, in parentheses.
Tag == {"!", "(", ")", "<", ">", "@", ",", ";", ":", "\\", "\"", "[", "]", "/", "="}
Forbidden ==
  [unquoted |-> {"!", "(", ")", "<", ">", "@", ",", ";", ":", "\\", ".", "[", "]"},
   quoted |-> {"(", ")", "<", ">", "\\"},
   charset |-> Tag, encoding |-> Tag, codes |-> {},
   paren |-> {"(", ")", "<", ">", "\\"}]
Complaint ==
  [unquoted |-> "ILLEGAL_UNQUOTED_CHAR", quoted |-> "ILLEGAL_QUOTED_CHAR",
   charset |-> "ILLEGAL_ENCODED_CHAR", encoding |-> "ILLEGAL_ENCODED_CHAR",
   codes |-> "", paren |-> "ILLEGAL_PAREN_CHAR"]

\* One character: <<how many are read, the next state, what is written>>.
Step(state, s, i, initial) ==
  LET c == s[i]
      n == At(s, i + 1)
  IN CASE c = "\"" /\ state = "unquoted" -> <<1, "quoted", <<>>>>
       [] c = "\"" /\ state = "quoted" -> <<1, "unquoted", <<>>>>
       [] c = "=" /\ n = "?" /\ state \in {"unquoted", "paren"} -> <<2, "charset", <<c, n>>>>
       [] c = "?" /\ state = "charset" -> <<1, "encoding", <<c>>>>
       [] c = "?" /\ state = "encoding" -> <<1, "codes", <<c>>>>
       [] c = "?" /\ n = "=" /\ state = "codes" -> <<2, initial, <<c, n>>>>
       [] OTHER -> <<1, state, <<c>>>>

RECURSIVE Dequote(_, _, _, _, _)
Dequote(s, i, state, initial, decoded) ==
  IF i > Len(s) THEN [code |-> "OK", decoded |-> decoded]
  ELSE IF s[i] = "\t" THEN [code |-> "INVALID_REALNAME", decoded |-> <<>>]
  ELSE IF s[i] \in Forbidden[state] THEN [code |-> Complaint[state], decoded |-> <<>>]
  ELSE IF state = "codes" /\ s[i] = "?" /\ At(s, i + 1) # "="
  THEN [code |-> "BAD_ENCODE_SYNTAX", decoded |-> <<>>]
  ELSE LET step == Step(state, s, i, initial)
       IN Dequote(s, i + step[1], step[2], initial, decoded \o step[3])

gnksa_dequote_plainphrase(realname, addrtype) ==
  LET initial == IF addrtype = "ROUTE" THEN "unquoted" ELSE "paren"
  IN Dequote(realname, 1, initial, initial, <<>>)

-----------------------------------------------------------------------------
(* The whole address                                                        *)

Found(code, type, address, realname) ==
  [code |-> IF code = "OK" /\ Is(address, "@") = {} THEN "ATSIGN_MISSING" ELSE code,
   type |-> type, address |-> address, realname |-> realname]

gnksa_split_from(from) ==
  LET work == Trim(from)
      open == Is(work, "<")
      blanks == {i \in DOMAIN work : Blank(work[i])}
      gap == CHOOSE i \in blanks : \A j \in blanks : i <= j
      comment == Trim(After(work, gap))
  IN IF work = <<>> THEN Found("LPAREN_MISSING", "OLDSTYLE", <<>>, <<>>)
     ELSE IF End(work) = ">"
     THEN IF open = {} THEN Found("LANGLE_MISSING", "ROUTE", <<>>, <<>>)
          ELSE Found("OK", "ROUTE", Front(After(work, LastOf(open))),
                     Trim(Upto(work, LastOf(open))))
     ELSE IF blanks = {} THEN Found("OK", "OLDSTYLE", work, <<>>)
     ELSE IF comment[1] # "(" THEN Found("LPAREN_MISSING", "OLDSTYLE", Upto(work, gap), <<>>)
     ELSE IF End(comment) # ")" THEN Found("RPAREN_MISSING", "OLDSTYLE", Upto(work, gap), <<>>)
     ELSE Found("OK", "OLDSTYLE", Upto(work, gap), Front(Tail(comment)))

\* The first error counts; the real name is decoded in any case.
gnksa_do_check_from(from) ==
  LET f == gnksa_split_from(from)
      at == LastOf(Is(f.address, "@"))
      name == gnksa_dequote_plainphrase(f.realname, f.type)
      errors == <<f.code>>
                \o (IF Is(f.address, "@") = {} THEN <<>>
                    ELSE <<gnksa_check_domain(After(f.address, at)),
                           gnksa_check_localpart(Upto(f.address, at))>>)
                \o <<name.code>>
  IN IF f.address = <<>> THEN f
     ELSE [f EXCEPT !.code = FoldLeft(LAMBDA c, e : IF c = "OK" THEN e ELSE c, "OK", errors),
                    !.realname = IF name.code = "OK" THEN name.decoded ELSE @]

-----------------------------------------------------------------------------
(* What is expected.  An address is put together from its parts: words of   *)
(* the real name, the local part, and the labels or octets of the domain.  *)

Joined(parts, by) ==
  FlattenSeq([i \in DOMAIN parts |-> IF i = 1 THEN parts[i] ELSE by \o parts[i]])
Word(w) ==
  CASE w.kind = "atom" -> w.text
    [] w.kind = "quoted" -> <<"\"">> \o w.text \o <<"\"">>
    [] w.kind = "encoded" -> <<"=", "?", "a", "?", "x", "?">> \o w.text \o <<"?", "=">>
Phrase(words) == Joined([i \in DOMAIN words |-> Word(words[i])], <<" ">>)
Compose(style, words, address) ==
  CASE style = "ROUTE" -> Phrase(words) \o <<" ", "<">> \o address \o <<">">>
    [] style = "OLDSTYLE" -> address \o <<" ", "(">> \o Phrase(words) \o <<")">>

\* son-of-1036: what a word may hold, and what is shown of it.
Unsafe == {"(", ")", "<", ">", "\\"}
WordLegal(style, w) ==
  w.kind # "encoded" =>
    ToSet(w.text) \cap (IF style = "ROUTE" /\ w.kind = "atom"
                        THEN Unsafe \cup {"!", "@", ",", ";", ":", ".", "[", "]"} ELSE Unsafe) = {}
Shown(style, words) ==
  Joined([i \in DOMAIN words |-> IF style = "ROUTE" /\ words[i].kind = "quoted"
                                 THEN words[i].text ELSE Word(words[i])], <<" ">>)

\* A name of two labels or more, the last one registered.  The first label is
\* let off: it may begin with "-" and be longer by one character.
NameLegal(labels) ==
  /\ Len(labels) >= 2
  /\ labels[Len(labels)] \in TopDomains
  /\ \A i \in DOMAIN labels :
       /\ Len(labels[i]) \in 1..(IF i = 1 THEN LABEL_MAX + 1 ELSE LABEL_MAX)
       /\ ToSet(labels[i]) \subseteq Letters \cup Digits \cup {"-"}
       /\ End(labels[i]) # "-" /\ (i > 1 => labels[i][1] # "-")
\* Four octets of the public network.
NumbersLegal(octets) ==
  LET x == [i \in DOMAIN octets |-> Value(octets[i])]
  IN /\ Len(octets) = 4
     /\ \A i \in 1..4 : octets[i] # <<>> /\ x[i] <= OctetMax
     /\ x[1] \notin {0, 10, 127}
     /\ ~(x[1] = 172 /\ x[2] \in 16..31) /\ ~(x[1] = 192 /\ x[2] = 168)
DomainLegal(labels) ==
  IF \A i \in DOMAIN labels : ToSet(labels[i]) \subseteq Digits
  THEN NumbersLegal(labels) ELSE NameLegal(labels)
LocalLegal(words) ==
  /\ words # <<>>
  /\ \A i \in DOMAIN words : words[i] # <<>> /\ ToSet(words[i]) \subseteq Localpart \ {"."}

\* An address is accepted exactly when its parts are legal, and taken apart
\* into the address and the name it was made from.
CheckedRight(style, words, local, labels, bracketed) ==
  LET domain == IF bracketed THEN <<"[">> \o Joined(labels, <<".">>) \o <<"]">>
                ELSE Joined(labels, <<".">>)
      address == Joined(local, <<".">>) \o <<"@">> \o domain
      r == gnksa_do_check_from(Compose(style, words, address))
      legal == /\ \A i \in DOMAIN words : WordLegal(style, words[i])
               /\ LocalLegal(local)
               /\ IF bracketed THEN NumbersLegal(labels) ELSE DomainLegal(labels)
  IN /\ r.code = "OK" <=> legal
     /\ r.code = "OK" => r.address = address /\ r.realname = Shown(style, words)

=============================================================================
