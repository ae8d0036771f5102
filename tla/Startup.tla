------------------------------- MODULE Startup -------------------------------
(***************************************************************************)
(* tin from its start to its end, as the options of the command line ask:  *)
(* main() and read_cmd_line_options() (main.c), init_selfinfo() (init.c),  *)
(* tin_done() and the lock of the index files (misc.c).  A file of the     *)
(* user is "missing", "kept" as it was, "created" or "changed".  With -U a *)
(* child updates the index files while the user reads.                     *)
(***************************************************************************)
EXTENDS SequencesExt

CONSTANTS Groups,
          Given      \* the options of TINRC and of the command line, in this order

VARIABLES
  at,                \* the step of main() that is next, or "over"
  given, o,          \* the options, and the variables that they set
  tmp_no_write,
  server,            \* "spool", "nntp" or "xover"
  files,
  lock_file,         \* "free", "other" (another tin updates) or "mine"
  child,             \* the updating child: "none", "started", "updating", "ended"
  remembered,        \* has the input history been read?
  unread,            \* the groups with unread articles, as tin knows it
  at_fork,           \* and as the child knows it
  kept,              \* and as .newsrc says
  handled,           \* the groups whose articles have been mailed or saved
  updated,           \* the groups whose index files have been updated
  status             \* "running", or what tin exits with

startVars == <<at, given, o, tmp_no_write, server, files, lock_file, child, remembered,
               unread, at_fork, kept, handled, updated, status>>

Files == {"newsrc", "oldnewsrc", "tinrc", "attributes", "active.save", "active.mail",
          "inputhistory", "posted", "headers", "log"}

\* What an option says, TRUE or FALSE, of the variables.
Says ==
  [c |-> [catchup |-> TRUE, batch_mode |-> TRUE], d |-> [show_description |-> FALSE],
   l |-> [list_active |-> TRUE], M |-> [mail_news |-> TRUE, batch_mode |-> TRUE],
   n |-> [newsrc_active |-> TRUE], N |-> [mail_news |-> TRUE, batch_mode |-> TRUE],
   o |-> [post_postponed_and_exit |-> TRUE], q |-> [check_for_new_newsgroups |-> FALSE],
   Q |-> [newsrc_active |-> TRUE, check_for_new_newsgroups |-> FALSE, show_description |-> FALSE],
   r |-> [read_news_via_nntp |-> TRUE],
   R |-> [read_saved_news |-> TRUE, list_active |-> TRUE, newsrc_active |-> FALSE,
          check_for_new_newsgroups |-> FALSE],
   S |-> [save_news |-> TRUE, batch_mode |-> TRUE],
   u |-> [batch_mode |-> TRUE, show_description |-> FALSE],
   U |-> [update_fork |-> TRUE, batch_mode |-> TRUE], v |-> [verbose |-> TRUE],
   w |-> [post_article_and_exit |-> TRUE, no_write |-> TRUE, newsrc_active |-> TRUE,
          check_for_new_newsgroups |-> FALSE],
   X |-> [no_write |-> TRUE], z |-> [start_any_unread |-> TRUE],
   Z |-> [check_any_unread |-> TRUE, batch_mode |-> TRUE]]
Variables == UNION {DOMAIN Says[ch] : ch \in DOMAIN Says} \cup {"read_local_newsgroups_file"}
Unset == [x \in Variables |-> x \in {"show_description", "check_for_new_newsgroups"}]

Said(opt, ch) ==
  IF ch \in DOMAIN Says
  THEN [x \in Variables |-> IF x \in DOMAIN Says[ch] THEN Says[ch][x] ELSE opt[x]] ELSE opt

\* The conflicts that read_cmd_line_options() sorts out, in its order.
Sorted(opt) ==
  LET r == [opt EXCEPT !.verbose = @ /\ opt.batch_mode,
                       !.read_saved_news = @ /\ ~opt.batch_mode]
      l == IF r.read_news_via_nntp
           THEN [r EXCEPT !.read_local_newsgroups_file = ~r.check_for_new_newsgroups] ELSE r
  IN IF l.list_active \/ l.newsrc_active THEN l
     ELSE [l EXCEPT !.list_active = TRUE, !.newsrc_active = TRUE]
read_cmd_line_options(args) == Sorted(FoldLeft(Said, Unset, args))

-----------------------------------------------------------------------------
(* Files                                                                    *)

Overwritten(f) == IF files[f] = "missing" THEN "created"
                  ELSE IF files[f] = "kept" THEN "changed" ELSE files[f]
Overwrite(fs) == [f \in Files |-> IF f \in fs THEN Overwritten(f) ELSE files[f]]
\* Those functions write a file that does not exist whatever no_write is.
Write(fs, no_write) ==
  [f \in Files |-> IF f \in fs /\ (~no_write \/ files[f] = "missing")
                   THEN Overwritten(f) ELSE files[f]]
Create(fs) == Write(fs, TRUE)

-----------------------------------------------------------------------------
(* The end                                                                  *)

\* giveup(), and exit().
Leaves(with) == at' = "over" /\ status' = with

\* cleanup_tmp_files()
Unlocked == IF o.batch_mode \/ o.update_fork THEN "free" ELSE lock_file

\* tin_done(): what the files, .newsrc first, become.
Ending(known) ==
  IF o.no_write THEN UNCHANGED <<files, kept>>
  ELSE files' = Overwrite({"newsrc", "inputhistory", "active.mail"}) /\ kept' = known
tin_done(with) ==
  /\ Leaves(with) /\ Ending(unread)
  /\ lock_file' = Unlocked
  /\ UNCHANGED <<given, o, tmp_no_write, server, child, remembered, unread, at_fork, handled, updated>>

-----------------------------------------------------------------------------
(* main(), one action per step                                              *)

StartInit ==
  /\ at = "init_selfinfo" /\ given \in Given /\ o = Unset /\ tmp_no_write = FALSE
  /\ server \in {"spool", "nntp", "xover"}
  /\ files \in {[f \in Files |-> IF f = "posted" \/ first THEN "missing" ELSE "kept"] : first \in BOOLEAN}
  /\ lock_file \in {"free", "other"} /\ child = "none" /\ remembered = FALSE
  /\ unread \in SUBSET Groups /\ at_fork = {} /\ kept = unread
  /\ handled = {} /\ updated = {} /\ status = "running"

init_selfinfo ==
  /\ at = "init_selfinfo" /\ at' = "options"
  /\ files' = Create({"posted", "headers", "attributes"})
  /\ UNCHANGED <<given, o, tmp_no_write, server, lock_file, child, remembered, unread, at_fork, kept,
                 handled, updated, status>>

\* -h, -H and -V exit at once, whatever else is given.
Options ==
  /\ at = "options"
  /\ IF \E i \in DOMAIN given : given[i] \in {"h", "H", "V"}
     THEN Leaves("success") /\ UNCHANGED <<o, tmp_no_write>>
     ELSE /\ tmp_no_write' = read_cmd_line_options(given).no_write
          /\ o' = [read_cmd_line_options(given) EXCEPT !.no_write = TRUE]
          /\ at' = "nntp_open" /\ UNCHANGED status
  /\ UNCHANGED <<given, server, files, lock_file, child, remembered, unread, at_fork, kept, handled, updated>>

\* The screen may fail, and the server.  The history is not read in batch mode.
Open ==
  /\ at = "nntp_open"
  /\ \/ Leaves("failure") /\ UNCHANGED remembered
     \/ /\ at' = "active" /\ UNCHANGED status
        /\ remembered' = ~o.batch_mode
  /\ UNCHANGED <<given, o, tmp_no_write, server, files, lock_file, child, unread, at_fork, kept,
                 handled, updated>>

\* create_save_active_file() is let write; then the active files are read.
ReadActive ==
  /\ at = "active" /\ at' = "quick_post_article"
  /\ files' = [f \in Files |-> IF f = "active.save" /\ ~o.read_saved_news THEN files[f]
                               ELSE IF f = "active.save" THEN Write({f}, tmp_no_write)[f]
                               ELSE Create({"active.mail"})[f]]
  /\ UNCHANGED <<given, o, tmp_no_write, server, lock_file, child, remembered, unread, at_fork, kept,
                 handled, updated, status>>

\* Posting with -w or -o; no_write still keeps the article out of the list of those posted.
QuickPost ==
  /\ at = "quick_post_article" /\ (o.post_article_and_exit \/ o.post_postponed_and_exit)
  /\ tin_done("success")

\* create_mail_save_dirs() makes directories or finds them.  A backup of .newsrc
\* is made whatever no_write is, and a .newsrc where there is none.
ReadNewsrc ==
  /\ at = "quick_post_article" /\ ~(o.post_article_and_exit \/ o.post_postponed_and_exit)
  /\ at' = "news"
  /\ \E made \in BOOLEAN :
       files' = [f \in Files |-> IF f = "oldnewsrc" /\ files["newsrc"] # "missing" THEN Overwritten(f)
                                 ELSE Create({"newsrc"} \cup (IF made THEN {"tinrc"} ELSE {}))[f]]
  /\ o' = [o EXCEPT !.no_write = tmp_no_write]
  /\ UNCHANGED <<given, tmp_no_write, server, lock_file, child, remembered, unread, at_fork, kept,
                 handled, updated, status>>

\* check_for_any_new_news(); -z takes tin out of batch mode.
CheckNews ==
  /\ at = "news"
  /\ IF o.check_any_unread THEN Leaves(IF unread = {} THEN "no news" ELSE "news") /\ UNCHANGED o
     ELSE IF o.start_any_unread /\ unread = {}
     THEN Leaves("failure") /\ o' = [o EXCEPT !.batch_mode = TRUE]
     ELSE /\ at' = "mail" /\ UNCHANGED status
          /\ o' = [o EXCEPT !.batch_mode = @ /\ ~o.start_any_unread]
  /\ UNCHANGED <<given, tmp_no_write, server, files, lock_file, child, remembered, unread, at_fork, kept,
                 handled, updated>>

\* save_or_mail_new_news() and check_start_save_any_news(): what cannot be had of
\* the server, or saved, stays unread; the log is written unless -X was given.
MailNews ==
  /\ at = "mail" /\ (o.mail_news \/ o.save_news)
  /\ \E done \in SUBSET unread :
       /\ handled' = done
       /\ unread' = IF o.catchup THEN unread \ done ELSE unread
       /\ IF o.no_write THEN UNCHANGED <<files, kept>>
          ELSE /\ files' = Overwrite({"log", "newsrc", "inputhistory", "active.mail"})
               /\ kept' = unread'
  /\ updated' = Groups
  /\ Leaves("success") /\ lock_file' = Unlocked
  /\ UNCHANGED <<given, o, tmp_no_write, server, child, remembered, at_fork>>

\* catchup_newsrc_file()
Catchup ==
  /\ at = "mail" /\ ~(o.mail_news \/ o.save_news) /\ o.catchup
  /\ unread' = {} /\ Ending({})
  /\ Leaves("success") /\ lock_file' = Unlocked
  /\ UNCHANGED <<given, o, tmp_no_write, server, child, remembered, at_fork, handled, updated>>

NoBatch == at = "mail" /\ ~(o.mail_news \/ o.save_news \/ o.catchup)
Updates == o.batch_mode \/ o.update_fork

\* update_index_files()
UpdateUnavailable ==
  /\ NoBatch /\ Updates /\ o.read_news_via_nntp /\ server = "xover"
  /\ tin_done("failure")
Available == ~(o.read_news_via_nntp /\ server = "xover")

UpdateFork ==
  /\ NoBatch /\ Updates /\ Available /\ o.update_fork
  /\ \/ child' = "started" /\ at_fork' = unread
     \/ UNCHANGED <<child, at_fork>>
  /\ o' = [o EXCEPT !.batch_mode = FALSE, !.verbose = FALSE, !.catchup = FALSE]
  /\ at' = "selection_page"
  /\ UNCHANGED <<given, tmp_no_write, server, files, lock_file, remembered, unread, kept, handled, updated,
                 status>>

\* create_index_lock_file() gives up, and leaves the lock, if it is another's.
UpdateNow ==
  /\ NoBatch /\ Updates /\ Available /\ ~o.update_fork
  /\ IF lock_file # "free" THEN Leaves("failure") /\ UNCHANGED <<files, kept, lock_file, updated>>
     ELSE Leaves("success") /\ Ending(unread) /\ updated' = Groups /\ lock_file' = Unlocked
  /\ UNCHANGED <<given, o, tmp_no_write, server, child, remembered, unread, at_fork, handled>>

Select == NoBatch /\ ~Updates /\ at' = "selection_page"
          /\ UNCHANGED <<given, o, tmp_no_write, server, files, lock_file, child, remembered, unread, at_fork,
                         kept, handled, updated, status>>

\* The user reads a group; the user quits.
Read ==
  /\ at = "selection_page" /\ \E g \in unread : unread' = unread \ {g}
  /\ UNCHANGED <<at, given, o, tmp_no_write, server, files, lock_file, child, remembered, at_fork, kept,
                 handled, updated, status>>
Quit == at = "selection_page" /\ tin_done("success")

-----------------------------------------------------------------------------
(* The child of -U                                                          *)

ChildStarts ==
  /\ child = "started"
  /\ IF lock_file # "free" THEN child' = "ended" /\ UNCHANGED lock_file
     ELSE child' = "updating" /\ lock_file' = "mine"
  /\ UNCHANGED <<at, given, o, tmp_no_write, server, files, remembered, unread, at_fork, kept, handled,
                 updated, status>>

\* It ends with tin_done(), too: .newsrc becomes what the child knows.
ChildEnds ==
  /\ child = "updating" /\ child' = "ended"
  /\ updated' \in IF o.read_news_via_nntp THEN {updated, Groups} ELSE {Groups}
  /\ Ending(at_fork) /\ lock_file' = "free"
  /\ UNCHANGED <<at, given, o, tmp_no_write, server, remembered, unread, at_fork, handled, status>>

StartNext ==
  \/ init_selfinfo \/ Options \/ Open \/ ReadActive \/ QuickPost \/ ReadNewsrc \/ CheckNews
  \/ MailNews \/ Catchup \/ UpdateUnavailable \/ UpdateFork \/ UpdateNow \/ Select
  \/ Read \/ Quit \/ ChildStarts \/ ChildEnds

-----------------------------------------------------------------------------

Has(letters) == \E i \in DOMAIN given : given[i] \in letters

\* -X and -w: files that exist stay as they are, the backup of .newsrc excepted
\* (doc/tin.1:230).  Without them no file is overwritten before .newsrc has been
\* read, but for the list of saved articles that -R makes.
NotOverwritten ==
  \A f \in Files \ {"oldnewsrc"} :
    files[f] = "changed" =>
      /\ ~Has({"X", "w"})
      /\ at \in {"news", "mail", "selection_page", "over"} \/ (f = "active.save" /\ Has({"R"}))

\* A batch job is done without the user, one only, and is done: what tin exits with
\* says whether there is news, -M and -S handle what was unread, -c leaves nothing
\* unread but what could not be mailed, no index is updated while another tin
\* updates, and .newsrc is as tin knew it at its end unless a child has been at work.
JobsDone ==
  /\ at = "selection_page" => ~Has({"c", "M", "N", "S", "w", "o", "Z", "h", "H", "V"})
  /\ status \in {"news", "no news"} => Has({"Z"}) /\ (status = "news" <=> unread # {})
  /\ Has({"Z"}) => handled = {} /\ updated = {} /\ kept = unread
  /\ handled # {} => Has({"M", "N", "S"}) /\ (Has({"c"}) <=> handled \cap unread = {})
  /\ (at = "over" /\ status = "success" /\ Has({"c"}) /\ ~Has({"M", "N", "S", "w", "o", "h", "H", "V"}))
       => unread = {}
  /\ lock_file = "other" => updated = {} \/ Has({"M", "N", "S"})
  /\ (at = "over" /\ child = "none" /\ ~Has({"X", "w", "o"})) => kept = unread
=============================================================================
