-------------------------------- MODULE Mime --------------------------------
(***************************************************************************)
(* The encodings of bodies (rfc1521.c) and of headers (rfc1522.c), both     *)
(* ways: what tin sends and what it shows of it.  A text is a sequence of  *)
(* bytes, a body a sequence of lines that end with LF.  The build has none *)
(* of LOCAL_CHARSET, MIME_BREAK_LONG_LINES and MIME_STRICT_CHARSET, and    *)
(* buffers are large enough.  The conversion of Korean mail (7bit) is left *)
(* out, and the character set of an encoded word is not told apart.  In an *)
(* article a line is a record: its text, and what header it would be.      *)
(***************************************************************************)
EXTENDS Integers, SequencesExt

CONSTANTS
  mm_charset,   \* tinrc.mm_charset, as bytes
  \* lengths that the code has as numbers, made small for TLC
  Groups,       \* 19: groups of four digits on a line of base64 (xpos reaches 73)
  QpMax,        \* 73: where a line of quoted-printable is broken
  EwMax         \* 75: the length of an encoded word

LF == 10
CR == 13
SP == 32

isspace(c) == c \in 9..13 \cup {SP}
isalnum(c) == c \in 48..57 \cup 65..90 \cup 97..122
EightBit(c) == c >= 128
isbetween(c, structured) == isspace(c) \/ (structured /\ c \in {40, 41, 34})

\* FoldLeft(), which takes more of TLC's stack than long texts leave.
Fold(Op(_, _), base, s) ==
  LET f[i \in 0..Len(s)] == IF i = 0 THEN base ELSE Op(f[i - 1], s[i]) IN f[Len(s)]
At(s, i) == IF i \in DOMAIN s THEN s[i] ELSE 0
Rest(s, i) == SubSeq(s, i, Len(s))
\* The first place from i on where Stop holds, or the end.
First(s, i, Stop(_)) ==
  LET places == {j \in i..Len(s) : Stop(s[j])}
  IN IF places = {} THEN Len(s) + 1 ELSE Min(places)

-----------------------------------------------------------------------------
(* base64: digits are their ranks, 64 stands for "="                       *)

Pad == 64

Bits(bytes) == LET B(i) == At(bytes, i) IN B(1) * 65536 + B(2) * 256 + B(3)
Group(bytes) ==
  [k \in 1..4 |-> IF k > Len(bytes) + 1 THEN Pad
                  ELSE (Bits(bytes) \div (64 ^ (4 - k))) % 64]
str2b64(bytes) ==
  FlattenSeq([g \in 1..((Len(bytes) + 2) \div 3) |->
                Group(SubSeq(bytes, 3 * g - 2, IF 3 * g > Len(bytes) THEN Len(bytes) ELSE 3 * g))])

\* Lines of text are sent with CRLF.
Crlf(line) ==
  IF At(line, Len(line)) = LF /\ At(line, Len(line) - 1) # CR
  THEN SubSeq(line, 1, Len(line) - 1) \o <<CR, LF>> ELSE line
EncodeBase64(body) ==
  LET digits == str2b64(FlattenSeq([i \in DOMAIN body |-> Crlf(body[i])]))
      lines == (Len(digits) + 4 * Groups - 1) \div (4 * Groups)
  IN [l \in 1..lines |-> SubSeq(digits, 4 * Groups * (l - 1) + 1,
                                IF l = lines THEN Len(digits) ELSE 4 * Groups * l)]

\* mmdecode(): the bits that do not fill a byte wait for the next call.
NoBits == [pattern |-> 0, bits |-> 0, out |-> <<>>]
AddDigit(s, d) ==
  IF d = Pad THEN s
  ELSE LET p == (s.pattern * 64 + d) % 65536 IN
       IF s.bits + 6 < 8 THEN [s EXCEPT !.pattern = p, !.bits = @ + 6]
       ELSE [pattern |-> p, bits |-> s.bits - 2,
             out |-> Append(s.out, (p \div (2 ^ (s.bits - 2))) % 256)]
DecodeDigits(s, digits) == Fold(AddDigit, [s EXCEPT !.out = <<>>], digits)

\* rfc1521_decode() takes the CR of a CRLF away, and keeps other CRs; one at
\* the end of a piece waits for the next piece in last_char_was_cr.
StripCr(piece) ==
  FlattenSeq([i \in DOMAIN piece |->
                IF piece[i] = CR /\ (i = Len(piece) \/ piece[i + 1] = LF)
                THEN <<>> ELSE <<piece[i]>>])
\* Mutant: a CR that ended the last piece is dropped when no LF follows.
Piece_Drops(s, digits) ==
  LET d == DecodeDigits(s.b, digits)
  IN [b |-> d, cr |-> At(d.out, Len(d.out)) = CR, out |-> s.out \o StripCr(d.out)]
Piece(s, digits) ==
  LET d == DecodeDigits(s.b, digits)
      keep == s.cr /\ At(d.out, 1) # LF
  IN [b |-> d,
      cr |-> (s.cr /\ ~keep) \/ At(d.out, Len(d.out)) = CR,
      out |-> s.out \o (IF keep THEN <<CR>> ELSE <<>>) \o StripCr(d.out)]
DecodeBase64(lines) ==
  LET end == Fold(Piece, [b |-> NoBits, cr |-> FALSE, out |-> <<>>], lines)
  IN IF end.cr THEN Append(end.out, CR) ELSE end.out

-----------------------------------------------------------------------------
(* quoted-printable                                                         *)

Hex(n) == IF n < 10 THEN n + 48 ELSE n + 55
Quoted(c) == <<61, Hex(c \div 16), Hex(c % 16)>>
hex2bin(x) == IF x \in 48..57 THEN x - 48 ELSE IF x \in 65..70 THEN x - 55
              ELSE IF x \in 97..102 THEN x - 87 ELSE 255

\* One byte of a line: blanks at its end are quoted, and a line longer than
\* QpMax is broken unless its end follows.
QpUnit(line, i) ==
  IF isspace(line[i]) /\ line[i] # LF
  THEN IF \E j \in i..Len(line) : ~isspace(line[j]) THEN <<line[i]>> ELSE Quoted(line[i])
  ELSE IF ~EightBit(line[i]) /\ line[i] # 61 THEN <<line[i]>> ELSE Quoted(line[i])
QpByte(s, line, i) ==
  LET unit == QpUnit(line, i)
      x == s.xpos + Len(unit)
      break == x > QpMax /\ line[i] # LF /\ At(line, i + 1) # LF
  IN [out |-> s.out \o unit \o (IF break THEN <<61, LF>> ELSE <<>>),
      xpos |-> IF break \/ line[i] = LF THEN 0 ELSE x]
QpLine(s, line) == Fold(LAMBDA t, i : QpByte(t, line, i), s, [i \in DOMAIN line |-> i])
EncodeQp(body) == Fold(QpLine, [out |-> <<>>, xpos |-> 0], body).out

\* mmdecode(): one line, or the text of an encoded word.  Failing gives no text.
DecodeQp(text, word) ==
  LET f[i \in 1..(Len(text) + 1)] ==
        IF i > Len(text) THEN [ok |-> TRUE, out |-> <<>>]
        ELSE IF text[i] # 61
        THEN [f[i + 1] EXCEPT !.out = <<IF word /\ text[i] = 95 THEN SP ELSE text[i]>> \o @]
        ELSE IF At(text, i + 1) = LF THEN f[i + 2]
        ELSE IF \/ i + 2 > Len(text)
                \/ hex2bin(text[i + 1]) = 255 \/ hex2bin(text[i + 2]) = 255
        THEN [ok |-> FALSE, out |-> <<>>]
        ELSE [f[i + 3] EXCEPT
                !.out = <<16 * hex2bin(text[i + 1]) + hex2bin(text[i + 2])>> \o @]
  IN f[1]

\* What fgets() reads of a text, line by line.
Lines(text) ==
  LET f[i \in 1..(Len(text) + 1)] ==
        IF i > Len(text) THEN <<>>
        ELSE LET e == First(text, i, LAMBDA c : c = LF)
                 n == IF e > Len(text) THEN Len(text) ELSE e
             IN <<SubSeq(text, i, n)>> \o f[n + 1]
  IN f[1]
DecodeQpBody(text) ==
  FlattenSeq([i \in DOMAIN Lines(text) |->
                LET d == DecodeQp(Lines(text)[i], FALSE)
                IN IF d.ok THEN d.out ELSE Lines(text)[i]])
-----------------------------------------------------------------------------
(* Headers: rfc1522_encode() goes through s from i on                       *)

Q == 81
B == 66
ewStart(e) == <<61, 63>> \o mm_charset \o <<63, e, 63>>
ewEnd == <<63, 61>>
ewLimit == EwMax - 5 - Len(mm_charset)

\* contains_nonprintables(): the next word needs to be encoded.
contains_nonprintables(s, i, structured) ==
  LET w == First(s, i, LAMBDA c : ~isspace(c))
      e == First(s, w, LAMBDA c : isbetween(c, structured))
  IN \E k \in w..(e - 1) : EightBit(s[k]) \/ (s[k] = 61 /\ At(s, k + 1) = 63)

\* One encoding for the whole header, the shorter one.
which_encoding(s) ==
  LET text == Rest(s, First(s, 1, LAMBDA c : ~isspace(c)))
      eight == Cardinality({i \in DOMAIN text : EightBit(text[i])})
      nonprint == IF \E i \in DOMAIN text : /\ text[i] = 61 /\ At(text, i + 1) = 63
                                            /\ \A j \in 1..i : ~EightBit(text[j])
                  THEN eight + 1 ELSE eight
      schars == Cardinality({i \in DOMAIN text : text[i] \in {61, 63, 95}})
  IN IF Len(text) + 2 * (nonprint + schars) > (Len(text) * 4 + 3) \div 3 THEN B ELSE Q

Emit(t, bytes) == [t EXCEPT !.out = @ \o bytes, !.ew = @ + Len(bytes)]
Open(t) ==
  LET u == [t EXCEPT !.out = @ \o ewStart(Q), !.ew = Len(ewStart(Q)), !.quoting = TRUE]
  IN IF t.mail /\ t.words = 2 THEN [u EXCEPT !.ew = Len(u.out)] ELSE u

\* The bytes of a word, until the encoded word is full.
QByte(t, c) ==
  LET u == [Emit(t, IF isalnum(c) THEN <<c>> ELSE Quoted(c)) EXCEPT !.i = @ + 1]
  IN [u EXCEPT !.broken = u.ew >= EwMax - 4]
QWord(t, s, structured) ==
  Fold(LAMBDA u, c : IF u.broken THEN u ELSE QByte(u, c), [t EXCEPT !.broken = FALSE],
       SubSeq(s, t.i, First(s, t.i, LAMBDA c : isbetween(c, structured)) - 1))
QBlank(t, c) == [Emit(t, IF c = SP THEN <<95>> ELSE Quoted(c)) EXCEPT !.i = @ + 1]
QBlanks(t, s) == Fold(QBlank, t, SubSeq(s, t.i, First(s, t.i, LAMBDA c : ~isspace(c)) - 1))

\* A space after the encoded word when what follows goes on with another.
QClose(t, more) ==
  LET closed == [Emit(t, ewEnd) EXCEPT !.quoting = FALSE]
  IN IF closed.ew >= ewLimit /\ (more \/ t.broken) THEN Emit(closed, <<SP>>) ELSE closed
QStep(t, s, structured) ==
  LET w == QWord(IF t.quoting THEN t ELSE Open(t), s, structured)
      more == contains_nonprintables(s, w.i, structured)
  IN IF more /\ w.ew < ewLimit THEN QBlanks(w, s) ELSE QClose(w, more)

\* do_b_encode(): how many bytes one encoded word takes; a wide character is
\* not split.
do_b_encode(s, i, structured) ==
  LET count == ((EwMax - (Len(mm_charset) + 7)) \div 4) * 3
      w == First(s, i, LAMBDA c : ~isbetween(c, structured))
      e == First(s, w, LAMBDA c : isbetween(c, structured))
      n == IF e - i < count THEN e ELSE i + count
      last7 == {k \in i..(n - 1) : ~EightBit(s[k])}
      len8 == IF last7 = {} THEN n - i ELSE n - 1 - Max(last7)
  IN IF len8 % 2 = 1 /\ n <= Len(s) /\ ~isbetween(At(s, n), structured) THEN n - 1 - i ELSE n - i

Alphabet(d) == IF d < 26 THEN d + 65 ELSE IF d < 52 THEN d + 71 ELSE IF d < 62 THEN d - 4
               ELSE CASE d = 62 -> 43 [] d = 63 -> 47 [] d = Pad -> 61
Rank == [c \in 0..255 |-> IF \E d \in 0..63 : Alphabet(d) = c THEN CHOOSE d \in 0..63 : Alphabet(d) = c ELSE Pad]
\* Lines of base64; the last one has no LF.
Base64Text(body) ==
  LET lines == EncodeBase64(body)
      Line64(l) == [k \in DOMAIN lines[l] |-> Alphabet(lines[l][k])]
  IN [l \in DOMAIN lines |-> IF l < Len(lines) THEN Append(Line64(l), LF) ELSE Line64(l)]

EncodedWord(digits) == ewStart(B) \o [k \in DOMAIN digits |-> Alphabet(digits[k])] \o ewEnd \o <<SP>>
BWord(t, s, n) ==
  [t EXCEPT !.out = @ \o EncodedWord(str2b64(SubSeq(s, t.i, t.i + n - 1))), !.i = @ + n, !.right = FALSE]
BWords(t, s, structured) ==
  [Fold(LAMBDA u, c : IF u.i > Len(s) \/ (isbetween(At(s, u.i), structured) /\ ~u.right) THEN u
                      ELSE BWord(u, s, do_b_encode(s, u.i, structured)), t, s)
     EXCEPT !.right = TRUE]
BStep(t, s, structured) ==
  LET u == BWords(t, s, structured)
  IN IF contains_nonprintables(s, u.i, structured) THEN u ELSE [u EXCEPT !.out = Front(@)]

Clean(t, s, structured) ==
  LET w == First(s, t.i, LAMBDA c : isbetween(c, structured))
      e == First(s, w, LAMBDA c : ~isbetween(c, structured))
  IN [t EXCEPT !.out = @ \o SubSeq(s, t.i, e - 1), !.i = e, !.right = FALSE]

\* One turn of the first pass.  A turn that opens an encoded word in front of a
\* blank takes nothing, but the next one does: twice the text is enough.
WordStep(t, s, structured) ==
  LET u == [t EXCEPT !.words = @ + 1]
  IN IF t.i > Len(s) THEN t
     ELSE IF ~(contains_nonprintables(s, t.i, structured) \/ t.broken) THEN Clean(u, s, structured)
     ELSE [IF which_encoding(s) = Q THEN QStep(u, s, structured)
           ELSE BStep(u, s, structured) EXCEPT !.any = TRUE]
Pass1(t, s, structured) == Fold(LAMBDA u, c : WordStep(u, s, structured), t, s \o s)

\* The second pass breaks the lines of mail in front of a word that is too long.
FoldByte(t, s, i) ==
  LET next == First(s, First(s, i, LAMBDA c : ~isspace(c)), isspace)
      break == isspace(s[i]) /\ (next - i) + t.column > EwMax + 1 /\ t.words # 1
  IN [out |-> t.out \o (IF break THEN <<LF, s[i]>> ELSE <<s[i]>>),
      column |-> (IF break THEN 0 ELSE t.column) + 1,
      words |-> IF isspace(s[i]) /\ i > 1 /\ ~isspace(At(s, i - 1)) THEN t.words + 1 ELSE t.words]
FoldLines(s) ==
  Fold(LAMBDA t, i : FoldByte(t, s, i), [out |-> <<>>, column |-> 0, words |-> 1],
           [i \in DOMAIN s |-> i]).out

rfc1522_encode(s, ismail, structured) ==
  LET t == Pass1([i |-> 1, out |-> <<>>, ew |-> 0, quoting |-> FALSE, broken |-> FALSE,
                  right |-> FALSE, any |-> FALSE, words |-> 0, mail |-> ismail], s, structured)
  IN IF ismail /\ t.any THEN FoldLines(t.out) ELSE t.out

\* The text of an encoded word; <<>> when it cannot be decoded.
WordText(e, text) ==
  IF e \in {Q, 113}
  THEN IF DecodeQp(text, TRUE).ok THEN DecodeQp(text, TRUE).out ELSE <<>>
  ELSE IF e \in {B, 98} THEN DecodeDigits(NoBits, [i \in DOMAIN text |-> Rank[text[i]]]).out
  ELSE <<>>

RECURSIVE DecodeFrom(_, _, _)
\* rfc1522_decode() from i on; adjacent: an encoded word has just ended.
DecodeFrom(s, i, adjacent) ==
  LET copied(n, a) == SubSeq(s, i, n - 1) \o DecodeFrom(s, n, a)
      c == First(s, i + 2, LAMBDA b : b = 63)
      q == First(s, c + 3, LAMBDA b : b = 63)
      text == WordText(At(s, c + 1), SubSeq(s, c + 3, q - 1))
  IN IF i > Len(s) THEN <<>>
     ELSE IF s[i] # 61
     THEN IF adjacent /\ isspace(s[i]) /\ At(s, First(s, i + 1, LAMBDA b : ~isspace(b))) = 61
          THEN DecodeFrom(s, i + 1, adjacent)
          ELSE copied(First(s, i + 1, LAMBDA b : b = 61), FALSE)
     ELSE IF At(s, i + 1) # 63 THEN copied(i + 1, adjacent)
     ELSE IF c > Len(s) THEN copied(c, adjacent)
     ELSE IF At(s, c + 2) # 63 THEN copied(c + 2, adjacent)
     ELSE IF q > Len(s) \/ text = <<>> THEN copied(c + 3, adjacent)
     ELSE text \o DecodeFrom(s, IF At(s, q + 1) = 61 THEN q + 2 ELSE q + 1, TRUE)
rfc1522_decode(s) == DecodeFrom(s, 1, FALSE)

-----------------------------------------------------------------------------
(* Articles: rfc15211522_encode() before they are sent, rfc1521_decode()   *)
(* when they are opened                                                    *)

Line(text) == [head |-> "none", value |-> "", text |-> text]
isreturn(c) == c \in {CR, LF}

\* A header and its continuation lines are one text.
Unfold(head) ==
  Fold(LAMBDA all, line : IF isspace(line[1]) /\ all # <<>>
                              THEN Append(Front(all), Last(all) \o line) ELSE Append(all, line),
           <<>>, head)
umlauts(body) ==
  \E n \in DOMAIN body : \E i \in DOMAIN body[n] :
     EightBit(body[n][i]) /\ \A j \in 1..i : ~isreturn(body[n][j])
rfc15211522_encode(file, mime_encoding, allow_8bit_header, ismail, structured) ==
  LET encode == umlauts(file.body)
      text == IF encode /\ mime_encoding = "base64"
              THEN Base64Text(file.body)
              ELSE IF encode /\ mime_encoding = "quoted-printable" THEN Lines(EncodeQp(file.body))
              ELSE file.body
  IN [head |-> [h \in DOMAIN Unfold(file.head) |->
                  IF allow_8bit_header THEN Unfold(file.head)[h]
                  ELSE rfc1522_encode(Unfold(file.head)[h], ismail, structured)],
      type |-> IF encode THEN "text/plain" ELSE "none",
      cte |-> IF encode THEN mime_encoding ELSE "none",
      boundary |-> <<>>,
      body |-> [l \in DOMAIN text |-> Line(text[l])]]

\* 1: a part begins, 2: the last one has ended.
boundary_cmp(text, boundary) ==
  LET line == IF text # <<>> /\ Last(text) = LF THEN Front(text) ELSE text
      mark == <<45, 45>> \o boundary
  IN IF line = mark THEN 1 ELSE IF line = mark \o <<45, 45>> THEN 2 ELSE 0

Size(lines) == Fold(LAMBDA n, line : n + Len(line.text), 0, lines)
FirstLine(lines, Stop(_)) ==
  LET places == {i \in DOMAIN lines : Stop(lines[i])}
  IN IF places = {} THEN Len(lines) + 1 ELSE Min(places)

RECURSIVE Alternative(_, _, _)
\* The first part that is not of another type.  What is copied of the headers of
\* the parts before it, written bytes, is overwritten, but never cut off: junk.
Alternative(lines, boundary, written) ==
  LET part == Tail(lines)
      empty == Min({Len(part), FirstLine(part, LAMBDA l : l.text = <<LF>>)})
      other == FirstLine(SubSeq(part, 1, empty), LAMBDA l : l.head = "type" /\ l.value # "text/plain")
      body == SubSeq(part, empty + 1, Len(part))
      end == FirstLine(body, LAMBDA l : boundary_cmp(l.text, boundary) # 0)
      headsize == Size(SubSeq(part, 1, other - 1))
  IN IF lines = <<>> THEN [found |-> FALSE]
     ELSE IF boundary_cmp(lines[1].text, boundary) # 1 THEN Alternative(part, boundary, written)
     ELSE IF other <= empty /\ other <= Len(part)
     THEN Alternative(SubSeq(part, other + 1, Len(part)), boundary,
                      IF headsize > written THEN headsize ELSE written)
     ELSE [found |-> TRUE, head |-> SubSeq(part, 1, empty), body |-> SubSeq(body, 1, end - 1),
           junk |-> written > Size(SubSeq(part, 1, empty)) + Size(SubSeq(body, 1, end - 1))]

\* The value of a header in the head of a part: the last one counts.
ValueOf(head, name) ==
  Fold(LAMBDA v, line : IF line.head = name THEN line.value ELSE v, "none", head)
Decoded(type, cte, lines) ==
  LET text == [l \in DOMAIN lines |-> lines[l].text]
  IN IF type \notin {"none", "text/plain"} THEN FlattenSeq(text)
     ELSE IF cte = "base64" THEN DecodeBase64([l \in DOMAIN text |-> [k \in DOMAIN text[l] |-> Rank[text[l][k]]]])
     ELSE IF cte = "quoted-printable"
     THEN FlattenSeq([l \in DOMAIN text |-> LET d == DecodeQp(text[l], FALSE)
                                            IN IF d.ok THEN d.out ELSE text[l]])
     ELSE FlattenSeq(text)
\* The text that is shown, with tinrc.alternative_handling, and whether junk follows.
rfc1521_decode(article) ==
  LET part == Alternative(article.body, article.boundary, 0)
  IN IF article.type = "multipart/alternative" /\ article.cte \in {"none", "7bit"} /\ part.found
     THEN [text |-> Decoded(ValueOf(part.head, "type"), ValueOf(part.head, "cte"), part.body),
           junk |-> part.junk]
     ELSE [text |-> Decoded(article.type, article.cte, article.body), junk |-> FALSE]

-----------------------------------------------------------------------------
(* What is expected: who gets the text sees what was written.               *)

\* A body in base64 comes back, CRs that stand in it too (rfc1521.c: "Strip off
\* all CRs if followed by LF but keep it if not followed by LF").
Base64Kept(body) == DecodeBase64(EncodeBase64(body)) = FlattenSeq(body)
QpKept(body) ==
  /\ DecodeQpBody(EncodeQp(body)) = FlattenSeq(body)
  /\ \A line \in ToSet(Lines(EncodeQp(body))) :
       Len(line) <= QpMax + 5 /\ \A i \in DOMAIN line : ~EightBit(line[i])

\* A line of base64 ends between the CR and the LF of a line.
CrlfSplit(body) ==
  LET sent == FlattenSeq([i \in DOMAIN body |-> Crlf(body[i])])
  IN \E k \in 1..(Len(sent) \div (3 * Groups)) :
       At(sent, 3 * Groups * k) = CR /\ At(sent, 3 * Groups * k + 1) = LF

\* A header comes back as it was, and goes out without bytes above 127, unless a
\* word ends where its encoded word is full: that leaves an empty encoded word or
\* a blank.  The folds of a letter are blanks again.
FullAtEnd(encoded, s) ==
  \/ \E i \in 1..(Len(encoded) - 3) : SubSeq(encoded, i, i + 3) = <<Q, 63, 63, 61>>
  \/ encoded # <<>> /\ Last(encoded) = SP /\ Last(s) # SP
Unfolded(s) == SelectSeq(s, LAMBDA c : c # LF)
HeaderKept(s, encoded) ==
  /\ \A i \in DOMAIN encoded : ~EightBit(encoded[i])
  /\ rfc1522_decode(Unfolded(encoded)) = s \/ FullAtEnd(encoded, s)

\* Who opens an article sees the headers and the text that were written; only
\* with an encoding that leaves the text alone, or headers that may, are bytes
\* above 127 on their way.
LetterKept(file, sent, allow_8bit_header) ==
  LET head == Unfold(file.head)
      Seven(text) == \A i \in DOMAIN text : ~EightBit(text[i])
  IN /\ rfc1521_decode(sent).text = FlattenSeq(file.body) \/ CrlfSplit(file.body)
     /\ \/ FlattenSeq([h \in DOMAIN sent.head |-> rfc1522_decode(Unfolded(sent.head[h]))]) = FlattenSeq(file.head)
        \/ \E h \in DOMAIN head : FullAtEnd(sent.head[h], head[h])
     /\ allow_8bit_header \/ \A h \in DOMAIN sent.head : Seven(sent.head[h])
     /\ sent.cte \in {"base64", "quoted-printable"} \/ ~umlauts(file.body) =>
          \A l \in DOMAIN sent.body : Seven(sent.body[l].text)

\* Of alternatives the first one in plain text is shown, as it was written; junk
\* may stand behind it (the file is not cut after a part that was passed over).
AlternativeShown(preamble, parts, boundary, closed) ==
  LET Part(p) == <<Line(<<45, 45>> \o boundary \o <<LF>>)>> \o p.head \o <<Line(<<LF>>)>> \o p.body
      lines == preamble \o FlattenSeq([n \in DOMAIN parts |-> Part(parts[n])])
               \o (IF closed THEN <<Line(<<45, 45>> \o boundary \o <<45, 45, LF>>)>> ELSE <<>>)
      plain == {n \in DOMAIN parts : ValueOf(parts[n].head, "type") \in {"none", "text/plain"}}
      shown == rfc1521_decode([type |-> "multipart/alternative", cte |-> "none",
                               boundary |-> boundary, body |-> lines])
  IN plain # {} => shown.text = parts[Min(plain)].shown
===============================================================================
