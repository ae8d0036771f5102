--------------------------------- MODULE Feed ---------------------------------
(***************************************************************************)
(* Handing articles out: mailing, piping, printing, reposting and saving   *)
(* the article, its thread, the hot, matching or tagged articles (feed.c), *)
(* the list of files that are saved, their decoding and removal (save.c),  *)
(* and the batch modes -M and -S.  One action is one article.  The server, *)
(* the file system, the mailer and the reader decide how it goes.          *)
(*                                                                         *)
(* A file is named by a pair: a name, and the number the program adds to   *)
(* it, 0 for none.  What a file holds is the sequence of what was appended *)
(* to it, Old for what was there before.                                   *)
(***************************************************************************)
EXTENDS Marks

CONSTANTS
  ArchiveOf,      \* ArchiveOf[a]: [name, part], name NoName without Archive-name:
  NoName,
  Before,         \* Before[a]: the place of a in the order of subjects
  FileNames,      \* the names the reader types for a file
  Mailbox,        \* the name of the mailbox
  OldFiles,       \* the files that are there at the start
  AutoSave,       \* tinrc.auto_save
  MarkSavedRead, ProcessOnlyUnread,  \* of tinrc
  DeleteTmp,      \* attribute.delete_tmp_files
  Catchup,        \* -c
  Functions,      \* bound: what the reader does with articles
  MaxJobs         \* bound

VARIABLES
  job,      \* one call of feed_articles(), or of the batch modes
  save,     \* save[0 .. num_save-1]: [art, file, saved]
  files,
  agreed,   \* history: files the reader agreed to overwrite
  deleted,  \* history: files removed after processing
  jobs      \* bound

fvars == <<mvars, job, save, files, agreed, deleted, jobs>>
output == <<files, agreed, deleted>>

Old == -1
Saving == {"FEED_SAVE", "FEED_AUTOSAVE_TAGGED"}
Batch == {"MAIL_ANY_NEWS", "SAVE_ANY_NEWS"}
Idle == [phase |-> "idle"]
Dead == [phase |-> "crashed"]  \* a NULL pointer was used

-----------------------------------------------------------------------------
(* What feed_articles() goes through *)

ch_default(cur) ==
  IF num_of_tagged_arts # 0 THEN "tag"
  ELSE IF num_of_selected_arts # 0 THEN "hot"
  ELSE IF \E b \in DOMAIN base : Len(Thread(b)) > 1 /\ cur \in ToSet(Thread(b))
       THEN "thread" ELSE "art"

InThreads(P(_)) ==
  FlattenSeq([b \in DOMAIN base |-> SelectSeq(Thread(b), P)])

ByTag == FlattenSeq([i \in 1..num_of_tagged_arts |->
                       SelectSeq(Top, LAMBDA a : arts[a].tagged = i)])

\* The articles to look at, for each of the reader's answers.
Todo(cur, ch) ==
  CASE ch = "art" -> {<<cur>>}
    [] ch = "thread" -> {Thread(b) : b \in {c \in DOMAIN base : cur \in ToSet(Thread(c))}}
    [] ch = "tag" -> {ByTag}
    [] ch = "hot" -> {InThreads(LAMBDA a : arts[a].selected)}
    [] ch = "pattern" ->
         {FlattenSeq([b \in DOMAIN base |-> IF base[b] \in p THEN Thread(b) ELSE <<>>]) :
            p \in Patterns}

NewJob(fn, ch, todo, file, mailbox, proc) ==
  [phase |-> "loop", fn |-> fn, ch |-> ch, todo |-> todo,
   file |-> file, mailbox |-> mailbox, proc |-> proc,
   ok |-> TRUE,        \* processed_ok
   sigpipe |-> FALSE,  \* got_sig_pipe
   any |-> FALSE,      \* ret_code of save_arts()
   at |-> 1,           \* the index of save_arts()
   sent |-> {},        \* history: the articles handed out
   read |-> {}]        \* history: the articles marked read

\* Without a prompt: by its archive name, to be processed.
Automatic(cur) == AutoSave /\ ArchiveOf[cur].name # NoName

FeedStart ==
  /\ job.phase = "idle" /\ jobs < MaxJobs
  /\ \E fn \in Functions \ Batch, cur \in InBase :
       \E ch \in {"art", "thread", "tag", "hot", "pattern"}, file \in FileNames,
          mailbox \in BOOLEAN, proc \in BOOLEAN :
         /\ fn = "FEED_AUTOSAVE_TAGGED" =>
              num_of_tagged_arts # 0 /\ ch = "tag" /\ ~mailbox /\ proc
         /\ fn = "FEED_SAVE" /\ Automatic(cur) /\ ch_default(cur) # "tag" =>
              ch = ch_default(cur)
         /\ fn \in Saving /\ Automatic(cur) => ~mailbox /\ proc
         /\ fn \notin Saving => ~mailbox /\ ~proc
         /\ mailbox => ~proc
         /\ LET name == IF fn \notin Saving \/ Automatic(cur) THEN NoName
                        ELSE IF mailbox THEN Mailbox ELSE file
            IN \E todo \in Todo(cur, ch) :
                 job' = NewJob(fn, ch, todo, name, mailbox, proc)
  /\ save' = <<>>
  /\ jobs' = jobs + 1
  /\ UNCHANGED <<mvars, output>>

\* tin -M and tin -S: every unread article.
BatchStart ==
  /\ job.phase = "idle" /\ jobs < MaxJobs
  /\ \E fn \in Functions \cap Batch :
       job' = NewJob(fn, "batch", SelectSeq(Top, LAMBDA a : arts[a].status = "ART_UNREAD"),
                     NoName, FALSE, FALSE)
  /\ save' = <<>>
  /\ jobs' = jobs + 1
  /\ UNCHANGED <<mvars, output>>

-----------------------------------------------------------------------------
(* One article of the loop *)

Now == Head(job.todo)
Next1(j) == [j EXCEPT !.todo = Tail(@)]

Looping == job.phase = "loop" /\ job.todo # <<>>

\* It is skipped: not there, or read already.
Skip ==
  /\ Looping /\ job.fn \notin Batch
  /\ job' = Next1(job)
  /\ UNCHANGED <<mvars, save, output, jobs>>

Passed == ProcessOnlyUnread /\ job.ch \in {"thread", "hot", "pattern"}
            /\ arts[Now].status = "ART_READ"

\* A mutant: whether it worked is not looked at.
Turn_Blind(j, sent) ==
  LET a == Head(j.todo)
      reads == MarkSavedRead
      m == art_mark_read(M, a)
  IN /\ Set(IF ~reads THEN M
            ELSE IF j.ch # "hot" THEN m
            ELSE [m EXCEPT !.arts[a].selected = FALSE, !.hot = @ - 1])
     /\ job' = [Next1(j) EXCEPT !.sent = @ \cup (IF sent THEN {a} ELSE {}),
                                !.read = @ \cup (IF reads THEN {a} ELSE {})]

\* The end of the turn of an article: it is marked read if ok.
Turn(j, sent) ==
  LET a == Head(j.todo)
      reads == MarkSavedRead /\ j.ok
      m == art_mark_read(M, a)
  IN /\ Set(IF ~reads THEN M
            ELSE IF j.ch # "hot" THEN m
            ELSE [m EXCEPT !.arts[a].selected = FALSE, !.hot = @ - 1])
     /\ job' = [Next1(j) EXCEPT !.sent = @ \cup (IF sent THEN {a} ELSE {}),
                                !.read = @ \cup (IF reads THEN {a} ELSE {})]

unmarked == <<base, onlyUnread, range_active, xflag, strayed, keys>>

\* mail_to_someone() and print_file() say how it went.
MailOrPrint ==
  /\ Looping /\ job.fn \in {"FEED_MAIL", "FEED_PRINT"} /\ ~Passed
  /\ \E ok \in BOOLEAN : Turn([job EXCEPT !.ok = ok], ok)
  /\ UNCHANGED <<unmarked, save, output, jobs>>

\* The reader stops the transfer: does_article_exist() says yes, and the
\* file of the article is NULL.
FetchAborted ==
  /\ Looping /\ job.fn \in {"FEED_MAIL", "FEED_PRINT", "FEED_REPOST"} /\ ~Passed
  /\ job' = Dead
  /\ UNCHANGED <<mvars, save, output, jobs>>

Repost ==
  /\ Looping /\ job.fn = "FEED_REPOST" /\ ~Passed
  /\ Turn(job, FALSE)
  /\ UNCHANGED <<unmarked, save, output, jobs>>

\* An article that cannot be fetched counts as piped.  A command that ended
\* is seen at the next article, which stops everything.
Pipe ==
  /\ Looping /\ job.fn = "FEED_PIPE" /\ ~Passed
  /\ \/ ~job.sigpipe
        /\ \E opened, broken \in BOOLEAN :
             /\ broken => opened
             /\ Turn([job EXCEPT !.sigpipe = broken], opened /\ ~broken)
     \/ job.sigpipe /\ job' = Idle /\ UNCHANGED marks
  /\ UNCHANGED <<unmarked, save, output, jobs>>

\* A name is made for each article; without one, and without an
\* Archive-name:, my_strdup() gets NULL.
AddToSaveList ==
  /\ Looping /\ job.fn \in Saving /\ ~Passed /\ job.ch # "art"
  /\ LET name == IF job.file # NoName THEN job.file ELSE ArchiveOf[Now].name
     IN IF name = NoName
        THEN job' = Dead /\ UNCHANGED <<marks, save>>
        ELSE /\ save' = Append(save, [art |-> Now, file |-> name, saved |-> FALSE])
             /\ Turn(job, FALSE)
  /\ UNCHANGED <<unmarked, output, jobs>>

-----------------------------------------------------------------------------
(* save.c: writing the files *)

num_save == Len(save)

save_filename(list, i) ==
  LET s == list[i]  arc == ArchiveOf[s.art]
  IN IF job.mailbox THEN <<s.file, 0>>
     ELSE IF AutoSave /\ arc.name # NoName /\ arc.part # 0 THEN <<arc.name, arc.part>>
     ELSE <<s.file, IF Len(list) = 1 THEN 0 ELSE i>>

save_comp(s, t) ==
  IF ArchiveOf[s.art].name # NoName THEN ArchiveOf[s.art].part < ArchiveOf[t.art].part
  ELSE Before[s.art] < Before[t.art]

Exists(f) == f \in DOMAIN files

\* The reader is asked whether to append, to overwrite or to leave it.
Asked(f) == ~job.mailbox /\ Exists(f)

\* A mutant: a file that is there is written over without a question.
save_art_to_file_Blind(f, a) ==
  {[saved |-> FALSE, files |-> files, over |-> {}],
   [saved |-> TRUE, over |-> {},
    files |-> [g \in DOMAIN files \cup {f} |->
                 IF g # f THEN files[g]
                 ELSE IF Exists(f) /\ job.mailbox THEN Append(files[f], a) ELSE <<a>>]]}

\* What may become of article a and file f: what is stored after it, and the
\* file that is replaced because the reader agreed.
save_art_to_file(f, a) ==
  {[saved |-> FALSE, files |-> files, over |-> {}],
   [saved |-> TRUE, over |-> {},
    files |-> [g \in DOMAIN files \cup {f} |->
                 IF g # f THEN files[g]
                 ELSE IF Exists(f) THEN Append(files[f], a) ELSE <<a>>]]}
  \cup (IF Asked(f)
        THEN {[saved |-> TRUE, over |-> {f},
               files |-> [files EXCEPT ![f] = <<a>>]]}
        ELSE {})

\* One article: it is saved at once, and marked read if that went well.
SaveArticle ==
  /\ Looping /\ job.fn = "FEED_SAVE" /\ job.ch = "art"
  /\ LET name == IF job.file # NoName THEN job.file ELSE ArchiveOf[Now].name
         list == <<[art |-> Now, file |-> name, saved |-> FALSE]>>
         f == save_filename(list, 1)
     IN \E w \in save_art_to_file(f, Now) :
          /\ files' = w.files
          /\ agreed' = agreed \cup w.over
          /\ save' = [list EXCEPT ![1].saved = w.saved]
          /\ Turn([job EXCEPT !.ok = w.saved], w.saved)
  /\ UNCHANGED <<unmarked, deleted, jobs>>

\* The loop is over.
LoopDone ==
  /\ job.phase = "loop" /\ job.todo = <<>> /\ job.fn \notin Batch
  /\ save' = IF job.fn \in Saving /\ job.ch = "thread" THEN SortSeq(save, save_comp)
             ELSE save
  /\ Set(IF job.ch = "tag" /\ job.fn \notin Saving THEN untag_all_articles(M) ELSE M)
  /\ job' = IF job.fn \notin Saving THEN Idle
            ELSE IF job.ch = "art" THEN [job EXCEPT !.phase = "post"]
            ELSE [job EXCEPT !.phase = "save"]
  /\ UNCHANGED <<unmarked, output, jobs>>

\* One turn of save_arts(): the article may be gone; the reader may stop it.
SaveArts ==
  /\ job.phase = "save" /\ job.at <= num_save
  /\ LET i == job.at
         f == save_filename(save, i)
         mark == IF job.mailbox THEN 1 ELSE i
     IN \/ /\ job' = [job EXCEPT !.at = @ + 1]  \* ART_UNAVAILABLE
           /\ UNCHANGED <<files, agreed, save>>
        \/ /\ job' = [job EXCEPT !.at = num_save + 1]  \* ART_ABORT
           /\ UNCHANGED <<files, agreed, save>>
        \/ \E w \in save_art_to_file(f, save[i].art) :
             /\ files' = w.files
             /\ agreed' = agreed \cup w.over
             /\ save' = [save EXCEPT ![mark].saved = w.saved]
             /\ job' = [job EXCEPT !.at = @ + 1, !.any = @ \/ w.saved,
                          !.sent = @ \cup (IF w.saved THEN {save[i].art} ELSE {})]
  /\ UNCHANGED <<mvars, deleted, jobs>>

SaveDone ==
  /\ job.phase = "save" /\ job.at > num_save
  /\ Set(IF job.ch = "tag" THEN untag_all_articles(M) ELSE M)
  /\ job' = [job EXCEPT !.phase = "post", !.ok = job.any]
  /\ UNCHANGED <<unmarked, save, output, jobs>>

\* The files of the whole list are removed, if the reader wants it.
delete_processed_files(all, delete) ==
  /\ files' = IF delete THEN [f \in DOMAIN files \ all |-> files[f]] ELSE files
  /\ deleted' = deleted \cup (IF delete THEN all \cap DOMAIN files ELSE {})

any_saved_files == \E i \in DOMAIN save : save[i].saved

\* The saved files are decoded, and removed.
post_process_files ==
  /\ job.phase = "post"
  /\ LET runs == job.proc /\ ~job.mailbox /\ job.ok /\ any_saved_files
     IN \E delete \in IF ~runs THEN {FALSE}
                      ELSE IF DeleteTmp \/ job.fn = "FEED_AUTOSAVE_TAGGED" THEN {TRUE}
                      ELSE BOOLEAN :
          delete_processed_files({save_filename(save, i) : i \in DOMAIN save}, delete)
  /\ job' = Idle
  /\ save' = <<>>
  /\ UNCHANGED <<mvars, agreed, jobs>>

-----------------------------------------------------------------------------
(* check_start_save_any_news() for one group *)

BatchName(a) == <<"news", a>>

BatchRead(ok) == Catchup /\ ok

\* The article is gone; or its file cannot be made; or it is written, and
\* for -M handed to the mailer, which may fail.
BatchTurn ==
  /\ Looping /\ job.fn \in Batch
  /\ \E stored \in BOOLEAN :
       LET a == Now
           reads == BatchRead(stored)
           keeps == stored /\ job.fn = "SAVE_ANY_NEWS"
           f == BatchName(a)
       IN /\ Set(IF reads THEN art_mark_read(M, a) ELSE M)
          /\ files' = IF keeps THEN [g \in DOMAIN files \cup {f} |->
                                       IF g = f THEN <<a>> ELSE files[g]]
                      ELSE files
          /\ \E mailed \in IF job.fn = "MAIL_ANY_NEWS" /\ stored THEN BOOLEAN ELSE {stored} :
               job' = [Next1(job) EXCEPT
                         !.sent = @ \cup (IF mailed THEN {a} ELSE {}),
                         !.read = @ \cup (IF reads THEN {a} ELSE {})]
  /\ UNCHANGED <<unmarked, save, agreed, deleted, jobs>>

\* The reader stops the transfer of an article: its file is NULL.
BatchAborted ==
  /\ Looping /\ job.fn \in Batch
  /\ job' = Dead
  /\ UNCHANGED <<mvars, save, output, jobs>>

BatchDone ==
  /\ job.phase = "loop" /\ job.todo = <<>> /\ job.fn \in Batch
  /\ job' = Idle
  /\ UNCHANGED <<mvars, save, output, jobs>>

FInit ==
  /\ job = Idle /\ save = <<>>
  /\ files = [f \in OldFiles |-> <<Old>>]
  /\ agreed = {} /\ deleted = {} /\ jobs \in 0..MaxJobs

\* A key of the page, or what goes on with the articles.
Next ==
  \/ job.phase = "idle" /\ MNext /\ UNCHANGED <<job, save, output, jobs>>
  \/ FeedStart \/ BatchStart
  \/ Skip \/ MailOrPrint \/ FetchAborted \/ Repost \/ Pipe \/ AddToSaveList
  \/ SaveArticle \/ LoopDone \/ SaveArts \/ SaveDone \/ post_process_files
  \/ BatchTurn \/ BatchAborted \/ BatchDone

\* A group is entered, whose articles have no marks yet.
FeedSpec == FInit /\ MInit /\ [][Next]_fvars

-----------------------------------------------------------------------------
\* A file that was there before is lost only when the reader agreed to write
\* over it, when it was removed with the files that were processed, or when it
\* has the name of the file that -S makes for an article, by an earlier -S say.
OldFilesKept ==
  \A f \in OldFiles :
    \/ f \in agreed
    \/ f \in deleted
    \/ /\ f \in DOMAIN files
       /\ Head(files[f]) = Old \/ f = BatchName(Head(files[f]))

\* What the program reports on at once is marked read only if it worked: a
\* letter, a print-out, a single article that is saved, and the files of -S.
ReadWereHandled ==
  job.phase \in {"loop", "post"}
    /\ \/ job.fn \in {"FEED_MAIL", "FEED_PRINT", "SAVE_ANY_NEWS"}
       \/ job.fn = "FEED_SAVE" /\ job.ch = "art"
  => job.read \subseteq job.sent

=============================================================================
