-------------------------------- MODULE Pager --------------------------------
(***************************************************************************)
(* The text of one article on the screen (page.c), page by page, and the   *)
(* search in it (search.c).  An article is a sequence of kinds of lines:   *)
(*   "hidden"  a header line that is not displayed                         *)
(*   "line"    takes one row of the screen                                 *)
(*   "full"    exactly fills the row, which show_last_page() and           *)
(*             search_article() count as two                               *)
(*   "quote"   included text, which ":" passes over                        *)
(*   "ff"      ends with a form feed                                       *)
(* Places in the file (ftell, note_mark[]) are the number of lines before. *)
(* Signatures are shown, and the headings of pages take 4 and 2 rows.      *)
(***************************************************************************)
EXTENDS Integers, SequencesExt

CONSTANTS Articles,        \* articles
          cLINES,          \* rows of the screen
          MINI_HELP_LINES,
          MaxPage          \* bound: pages from which a search goes on

VARIABLES
  article,
  show_last_line,   \* tinrc.show_last_line_prev_page
  beginner_level,   \* tinrc.beginner_level: the help takes room
  file,             \* ftell (note_fp)
  note_page,
  note_mark,
  note_end,
  skip_include,     \* passing over included text
  screen,           \* the page shown: its first line and the line after its last
  jumped            \* "$", ":", a search or the help moved note_page, since the first page

pageVars == <<article, show_last_line, beginner_level, file, note_page, note_mark,
              note_end, skip_include, screen, jumped>>

Eof == Len(article)
Marks == 0..(MaxPage + Len(article) + 3)
Coarse(kind) == IF kind = "full" THEN 2 ELSE 1
Min2(a, b) == IF a < b THEN a ELSE b

-----------------------------------------------------------------------------
(* show_note_page()                                                         *)

Lines(help) == IF help THEN cLINES - (MINI_HELP_LINES - 1) ELSE cLINES

RECURSIVE Fill(_, _)
\* d: at, row (note_line), page, mark, skip, end.
Fill(d, lines) ==
  LET kind == article[d.at + 1]
      d1 == IF show_last_line THEN [d EXCEPT !.mark[d.page + 1] = d.at] ELSE d
      passed == d.skip /\ kind = "quote"
      seen == [d1 EXCEPT !.at = @ + 1, !.row = @ + 1, !.skip = FALSE,
                         !.page = IF d.skip THEN @ + 1 ELSE @]
  IN IF d.row >= lines THEN d
     ELSE IF d.at = Eof THEN [d1 EXCEPT !.end = TRUE, !.skip = FALSE]
     ELSE IF kind = "hidden" \/ passed THEN Fill([d1 EXCEPT !.at = @ + 1], lines)
     ELSE IF kind = "ff" THEN seen
     ELSE Fill(seen, lines)

\* The page from place at on; paged: page down shows the last line again.
show_note_page(at, page, mark, end, skip, paged) ==
  LET again == show_last_line /\ paged /\ page > 0 /\ ~skip
      head == IF page = 0 THEN 5 ELSE 3
      d == Fill([at |-> at, row |-> IF again THEN head + 1 ELSE head,
                 page |-> IF skip THEN page - 1 ELSE page, mark |-> mark,
                 skip |-> skip, end |-> end], Lines(beginner_level'))
  IN /\ file' = d.at
     /\ note_page' = d.page + 1
     /\ LET all == IF show_last_line THEN d.mark ELSE [d.mark EXCEPT ![d.page + 1] = d.at]
        IN note_mark' = [k \in Marks |-> IF k <= note_page' THEN all[k] ELSE 0]
           \* the marks of later pages are set again before they are read
     /\ note_end' = (d.end \/ d.at = Eof)
     /\ skip_include' = d.skip
     /\ screen' = [first |-> at, next |-> d.at]

Keep == note_page > 0 /\ UNCHANGED <<article, show_last_line, beginner_level, jumped>>

-----------------------------------------------------------------------------
(* The keys of show_page() that stay in the article                         *)

\* art_open() and the first page.
Init ==
  /\ article \in Articles
  /\ show_last_line \in BOOLEAN
  /\ show_last_line => "ff" \notin ToSet(article) \* bound: such a page is never left
  /\ beginner_level \in BOOLEAN
  /\ file = 0
  /\ note_page = 0
  /\ note_mark = [k \in Marks |-> 0]
  /\ note_end = FALSE
  /\ skip_include = FALSE
  /\ screen = [first |-> 0, next |-> 0]
  /\ jumped = FALSE

FirstPage ==
  /\ UNCHANGED <<article, show_last_line, beginner_level>>
  /\ show_note_page(0, 0, note_mark, FALSE, skip_include, FALSE)
  /\ jumped' = FALSE

\* Page down inside the article; at its end the next article is read.
PageDown ==
  /\ Keep
  /\ ~note_end
  /\ show_note_page(file, note_page, note_mark, note_end, skip_include, TRUE)

\* ":" passes over included text.
SkipIncluded ==
  /\ note_page > 0
  /\ jumped' = TRUE
  /\ UNCHANGED <<article, show_last_line, beginner_level>>
  /\ ~note_end /\ screen.next > 0 /\ article[screen.next] = "quote"
  /\ show_note_page(file, note_page, note_mark, note_end, TRUE, TRUE)

\* Mutant: note_end stays.
PageUp_KeepsEnd ==
  /\ Keep
  /\ note_page > 1
  /\ show_note_page(note_mark[note_page - 2], note_page - 2, note_mark, note_end, skip_include, FALSE)
PageUp ==
  /\ Keep
  /\ note_page > 1
  /\ show_note_page(note_mark[note_page - 2], note_page - 2, note_mark, FALSE, skip_include, FALSE)

redraw_page ==
  show_note_page(note_mark[note_page - 1], note_page - 1, note_mark, note_end, skip_include, FALSE)
Redraw ==
  /\ Keep
  /\ redraw_page

\* H: the page is drawn again with more or with less room; note_end stays.
ToggleHelp ==
  /\ note_page > 0
  /\ beginner_level' = ~beginner_level
  /\ redraw_page
  /\ jumped' = TRUE
  /\ UNCHANGED <<article, show_last_line>>

\* How far one page reaches as show_last_page() and search_article() count.
RECURSIVE CoarsePage(_, _)
CoarsePage(at, row) ==
  IF row >= cLINES \/ at = Eof THEN at
  ELSE IF article[at + 1] = "ff" THEN at + 1
  ELSE CoarsePage(at + 1, row + Coarse(article[at + 1]))
RowsFit(at, row) == LET n == CoarsePage(at, row) IN
  n = Eof /\ FoldLeft(LAMBDA r, k : r + Coarse(k), row, SubSeq(article, at + 1, n)) < cLINES
  /\ (n = at \/ article[n] # "ff")

RECURSIVE LastPage(_, _, _)
\* show_last_page(): pages are counted on to the end.
LastPage(at, page, mark) ==
  LET row == IF page = 0 THEN 5 ELSE 3
      n == CoarsePage(at, row)
      end == RowsFit(at, row)   \* fgets() met the end
  IN IF mark[page] = Eof /\ page > 0 THEN [page |-> page - 1, mark |-> mark]
     ELSE IF end THEN [page |-> page, mark |-> mark]
     ELSE LastPage(n, page + 1, [mark EXCEPT ![page + 1] = n])
GotoLastPage ==
  /\ note_page > 0
  /\ UNCHANGED <<article, show_last_line, beginner_level>>
  /\ jumped' = TRUE
  /\ ~note_end
  /\ LET l == LastPage(file, note_page, note_mark)
     IN show_note_page(l.mark[l.page], l.page, l.mark, TRUE, skip_include, FALSE)

RECURSIVE SearchPage(_, _, _, _)
\* search_article(): the page on which line hit is, and the marks on the way.
SearchPage(at, page, mark, hit) ==
  LET row == IF page < 1 THEN 5 ELSE 3
      n == CoarsePage(at, row)
  IN IF hit > at /\ hit <= n THEN [at |-> mark[page], mark |-> mark]
     ELSE SearchPage(n, page + 1, [mark EXCEPT ![page + 1] = n], hit)
\* A line is found, and shown as the page that came next anyway.
SearchFound ==
  /\ note_page \in 1..MaxPage \* bound: the same line found again and again
  /\ UNCHANGED <<article, show_last_line, beginner_level>>
  /\ ~note_end
  /\ \E hit \in (file + 1)..Eof :
       LET s == SearchPage(file, note_page, note_mark, hit)
       IN /\ show_note_page(s.at, note_page, s.mark, note_end, skip_include, FALSE)
          /\ jumped' = (jumped \/ s.at # note_mark[note_page])
\* Nothing is found, or articles are saved: the file stands at the next page.
SearchFails ==
  /\ note_page > 0
  /\ file' = note_mark[note_page]
  /\ UNCHANGED <<article, show_last_line, beginner_level, note_page, note_mark, note_end,
                 skip_include, screen, jumped>>

PagerNext ==
  \/ FirstPage \/ PageDown \/ SkipIncluded \/ PageUp \/ Redraw \/ ToggleHelp
  \/ GotoLastPage \/ SearchFound \/ SearchFails
PagerSpec == Init /\ [][PagerNext]_pageVars

-----------------------------------------------------------------------------
(* Properties                                                               *)

\* When the space bar leaves the article (note_end) the last line of it is on the
\* screen, in whichever order pages were turned, searched and drawn again.  Not so
\* after "$", which counts pages without the room the help takes, and after a
\* search that finds a line pages ahead, text passed over, or the help put on at
\* the end: the page drawn again is another one then, and note_end stays.
EndIsShown == note_end /\ ~jumped => screen.next = Eof

\* Turning a page never leaves lines out: down, the page begins where the old one
\* ended or before; up, it reaches as far as the old one began; and the article
\* is not left before its end was shown.
PagesJoin ==
  [][/\ EndIsShown'
     /\ note_page' = note_page - 1 /\ ~jumped => screen'.next >= screen.first
     /\ note_page' = note_page + 1 /\ ~jumped' => screen'.first <= screen.next]_pageVars

=============================================================================
