------------------------------ MODULE NewsrcFile ------------------------------
(***************************************************************************)
(* How tin rewrites .newsrc: each rewriting copies the file line by line   *)
(* to .newnewsrc<pid>, closes it, and puts it in the place of .newsrc      *)
(* (rename_file(): unlink, link, unlink).  Each system call is a step;     *)
(* between two of them the process can be killed or caught by a signal     *)
(* whose handler saves the file too (signal_handler(), tin_done()).        *)
(* Calls fail: a file that cannot be created, a full disk, a failing link. *)
(*                                                                         *)
(* A file is a function from the groups that have a line to their lines.   *)
(* A line that is written stays in the buffer of its stream until the      *)
(* stream is flushed (print_bitmap_seq() does so, a full buffer, fclose()  *)
(* and exit() do).                                                         *)
(***************************************************************************)
EXTENDS NewsrcLines, FiniteSets

CONSTANTS
  Harmed,         \* stands for the content once a stop has lost lines
  DefaultGroups,  \* the groups of the server's subscription list
  Signals,        \* do SIGHUP, SIGTERM or SIGUSR1 arrive?
  Crashes,        \* is the process lost without its handlers running?
  LinkMayFail     \* may link() fail?

ASSUME FileAssumption ==
  DefaultGroups \subseteq Groups /\ {Signals, Crashes, LinkMayFail} \subseteq BOOLEAN

VARIABLES
  newsrc, newnewsrc,   \* the files' contents, or NoFile
  linked,    \* .newsrc and .newnewsrc are two names of one file
  mem,       \* what the session knows of the groups
  op,        \* the rewriting that is going on
  pending,   \* lines in the newest stream that was not closed
  stream,    \* the name that stream's file has now
  phase,     \* where the process is
  read,      \* read_newsrc_lines
  wrote,     \* what the vWriteNewsrc() of tin_done() returned
  saved,     \* tin_done() has said "newsrc file saved successfully."
  told,      \* an error was shown since tin_done() began
  harm       \* the process was stopped in a place that loses lines

files == <<newsrc, newnewsrc, linked>>
exiting == <<pending, stream, wrote, saved, told>>
vars == <<files, mem, op, exiting, phase, read, harm>>

Empty == [g \in {} |-> NewLine]
Idle == [kind |-> "none", step |-> "idle", group |-> 0, text |-> Empty, upto |-> 0]

TypeOK ==
  /\ {newsrc, newnewsrc} \subseteq Texts \cup {NoFile}
  /\ linked \in BOOLEAN /\ saved \in BOOLEAN /\ told \in BOOLEAN /\ harm \in BOOLEAN
  /\ mem \in [Groups -> Line]
  /\ op \in [kind : {"none", "save", "subscribe", "delete", "reset", "move"},
             step : {"idle", "write", "unlink", "link", "clean"},
             group : 0..N, text : Texts, upto : 0..N]
  /\ pending \in Texts
  /\ stream \in {"none", "newnewsrc", "newsrc"}
  /\ phase \in {"down", "read", "auto", "up", "save", "writing",
                "judge", "bye"}
  /\ read \in -1..N /\ wrote \in -1..N

Prefix(text, k) == [g \in {h \in DOMAIN text : h <= k} |-> text[g]]
Prefixes(text) == {Prefix(text, k) : k \in 0..N}
After(text, k) == [g \in {h \in DOMAIN text : h > k} |-> text[g]]
Overlay(top, text) ==
  [g \in DOMAIN top \cup DOMAIN text |-> IF g \in DOMAIN top THEN top[g] ELSE text[g]]
Unwritten == DOMAIN After(op.text, op.upto)
Written == Prefix(op.text, op.upto)
Buffered == [g \in DOMAIN Written \ DOMAIN newnewsrc |-> op.text[g]]

-----------------------------------------------------------------------------
(* A rewriting *)

\* fopen (newnewsrc, "w") succeeds.  It truncates the file that is there, which
\* is .newsrc itself when a signal has come between link() and unlink().
Open(kind, g, text) ==
  /\ op' = [kind |-> kind, step |-> "write", group |-> g, text |-> text, upto |-> 0]
  /\ newnewsrc' = Empty
  /\ newsrc' = IF linked THEN Empty ELSE newsrc
  /\ UNCHANGED linked

\* Mutant: the lines of unsubscribed groups are not copied (strip_newsrc).
SaveSubscribedText ==
  IF linked THEN Empty ELSE [g \in {h \in DOMAIN newsrc : mem[h].sub} |-> mem[g]]

SaveText == IF linked THEN Empty ELSE Stored(newsrc, mem)

Ready == phase = "up" /\ op = Idle
\* Bound: once the file is harmed it is only rewritten by tin_done().
Rewritable == Ready /\ ~harm

\* vWriteNewsrc() during the session.  A missing or empty file is not saved.
Save ==
  /\ Rewritable /\ newsrc \notin {NoFile, Empty}
  /\ Open("save", 0, SaveText)
  /\ UNCHANGED <<mem, exiting, phase, read, harm>>

\* pos_group_in_newsrc() writes the same lines in another order.
MoveGroup ==
  /\ Rewritable /\ newsrc # NoFile
  /\ \E g \in DOMAIN newsrc : newsrc[g].sub
  /\ Open("move", 0, SaveText)
  /\ UNCHANGED <<mem, exiting, phase, read, harm>>

\* subscribe(): without a .newsrc an empty file is written.
Subscribe(g) ==
  /\ Rewritable
  /\ Open("subscribe", g,
          IF newsrc = NoFile THEN Empty
          ELSE Toggled(newsrc, [mem EXCEPT ![g].sub = ~@], g))
  /\ UNCHANGED <<mem, exiting, phase, read, harm>>

\* delete_group() of a bogus group
DeleteGroup(g) ==
  /\ Rewritable /\ ~mem[g].sub
  /\ Open("delete", g, IF newsrc = NoFile THEN Empty ELSE Without(newsrc, g))
  /\ UNCHANGED <<mem, exiting, phase, read, harm>>

\* reset_newsrc()
Reset ==
  /\ Rewritable
  /\ Open("reset", 0, IF newsrc = NoFile THEN Empty ELSE Cleared(newsrc))
  /\ UNCHANGED <<mem, exiting, phase, read, harm>>

\* What the session may know once the rewriting has ended, however it ended:
\* reset_newsrc() clears the bitmaps of the displayed groups.
AfterOp ==
  IF op.kind = "reset"
  THEN {[g \in Groups |-> IF g \in shown THEN [mem[g] EXCEPT !.marks = 0] ELSE mem[g]] :
          shown \in SUBSET Groups}
  ELSE {mem}

\* Mutant: the line is counted that ends the loop.
ReturnOneMore(n) ==
  IF phase = "writing" THEN phase' = "judge" /\ wrote' = n + 1 ELSE UNCHANGED <<phase, wrote>>

\* What tin_done() does when its vWriteNewsrc() returns n.
Return(n) ==
  IF phase = "writing" THEN phase' = "judge" /\ wrote' = n ELSE UNCHANGED <<phase, wrote>>

EndOp == op' = Idle /\ mem' \in AfterOp

\* One line is copied, and may be flushed with those before it; subscribe()
\* changes the group when it meets its line.
WriteLine ==
  /\ op.step = "write"
  /\ \E g \in Unwritten :
       /\ \A h \in Unwritten : g <= h
       /\ op' = [op EXCEPT !.upto = g]
       /\ mem' = IF op.kind = "subscribe" /\ g = op.group THEN [mem EXCEPT ![g].sub = ~@] ELSE mem
       /\ newnewsrc' \in {newnewsrc, Prefix(op.text, g)}
       /\ newsrc' = IF linked THEN newnewsrc' ELSE newsrc
  /\ UNCHANGED <<linked, exiting, phase, read, harm>>

\* fclose() flushes the lines.  vWriteNewsrc() does not rename an empty file.
Close ==
  /\ op.step = "write" /\ Unwritten = {}
  /\ newnewsrc' = op.text
  /\ newsrc' = IF linked THEN op.text ELSE newsrc
  /\ IF op.kind = "save" /\ op.text = Empty
     THEN /\ EndOp
          /\ told' = TRUE
          /\ Return(0)
     ELSE /\ op' = [op EXCEPT !.step = "unlink"]
          /\ UNCHANGED <<mem, told, phase, wrote>>
  /\ UNCHANGED <<linked, pending, stream, saved, read, harm>>

\* Mutant: only ferror() is looked at, so what fclose() cannot write is lost and
\* .newnewsrc is renamed.
DiskFullRenamed ==
  /\ op.step = "write" /\ Unwritten = {} /\ op.kind # "move"
  /\ newnewsrc' \in Prefixes(op.text)
  /\ op' = [op EXCEPT !.step = "unlink"]
  /\ UNCHANGED <<newsrc, linked, mem, exiting, phase, read, harm>>

\* Mutant: no error is shown.
DiskFullSilent ==
  /\ op.step = "write" /\ Unwritten = {} /\ op.kind # "move"
  /\ newnewsrc' = NoFile
  /\ linked' = FALSE
  /\ stream' = IF stream = "newnewsrc" THEN "none" ELSE stream
  /\ EndOp
  /\ Return(Cardinality(DOMAIN op.text))
  /\ UNCHANGED <<newsrc, pending, told, saved, read, harm>>

\* The disk is full: ferror() or fclose() says so, and .newnewsrc is unlinked.
\* vWriteNewsrc() still returns the number of lines it tried to write.
DiskFull ==
  /\ op.step = "write" /\ Unwritten = {} /\ op.kind # "move"
  /\ newnewsrc' = NoFile
  /\ linked' = FALSE
  /\ stream' = IF stream = "newnewsrc" THEN "none" ELSE stream
  /\ EndOp
  /\ told' = TRUE
  /\ Return(Cardinality(DOMAIN op.text))
  /\ UNCHANGED <<newsrc, pending, saved, read, harm>>

\* pos_group_in_newsrc() does not unlink .newnewsrc.  After ferror() it does not
\* close it either: the lines written since the failure are still in the stream.
DiskFullMove ==
  /\ op.step = "write" /\ Unwritten = {} /\ op.kind = "move"
  /\ \E k \in 0..N :
       /\ newnewsrc' = Prefix(op.text, k)
       /\ \/ UNCHANGED <<pending, stream, harm>>
          \/ \E l \in k..N : pending' = After(op.text, l) /\ pending' # Empty
             /\ stream' = "newnewsrc" /\ harm' = TRUE
  /\ EndOp
  /\ told' = TRUE
  /\ UNCHANGED <<newsrc, linked, saved, phase, wrote, read>>

-----------------------------------------------------------------------------
(* rename_file() *)

UnlinkNewsrc ==
  /\ op.step = "unlink"
  /\ newsrc' = NoFile
  /\ linked' = FALSE
  /\ stream' = IF stream = "newsrc" THEN "none" ELSE stream
  /\ op' = [op EXCEPT !.step = "link"]
  /\ UNCHANGED <<newnewsrc, mem, pending, wrote, saved, told, phase, read, harm>>

Link ==
  /\ op.step = "link"
  /\ newsrc' = newnewsrc
  /\ linked' = TRUE
  /\ op' = [op EXCEPT !.step = "clean"]
  /\ UNCHANGED <<newnewsrc, mem, exiting, phase, read, harm>>

LinkFails ==
  /\ LinkMayFail
  /\ op.step = "link"
  /\ EndOp
  /\ told' = TRUE /\ harm' = TRUE
  /\ Return(Cardinality(DOMAIN op.text))
  /\ UNCHANGED <<files, pending, stream, saved, read>>

UnlinkNewnewsrc ==
  /\ op.step = "clean"
  /\ newnewsrc' = NoFile
  /\ linked' = FALSE
  /\ stream' = IF stream = "newnewsrc" THEN "newsrc" ELSE stream
  /\ EndOp
  /\ Return(Cardinality(DOMAIN op.text))
  /\ UNCHANGED <<newsrc, pending, saved, told, read, harm>>

-----------------------------------------------------------------------------
(* The end of the session: tin_done() *)

\* Reading changes the marks of a group whose line was loaded.  Bound: MaxMarks.
Mark(g) ==
  /\ Ready /\ mem[g].sub /\ mem[g].marks < MaxMarks
  /\ mem' = [mem EXCEPT ![g].marks = @ + 1]
  /\ UNCHANGED <<files, op, exiting, phase, read, harm>>

Quit ==
  /\ Ready
  /\ phase' = "save"
  /\ told' = FALSE
  /\ UNCHANGED <<files, mem, op, pending, stream, wrote, saved, read, harm>>

\* A signal interrupts whatever the process does; nothing is saved before the
\* session has begun (no_write).
Signal ==
  /\ Signals
  /\ phase \in {"read", "auto", "up"}
  /\ phase' = IF phase = "up" THEN "save" ELSE "bye"
  /\ pending' = IF op.step = "write" THEN Buffered ELSE Empty
  /\ stream' = IF op.step = "write" THEN "newnewsrc" ELSE "none"
  /\ op' = Idle
  /\ told' = FALSE
  /\ harm' = (harm \/ op # Idle)
  /\ UNCHANGED <<files, mem, wrote, saved, read>>

\* tin_done() calls vWriteNewsrc().
SaveAtExit ==
  /\ phase = "save"
  /\ IF newsrc \in {NoFile, Empty}
     THEN /\ phase' = "judge"
          /\ wrote' = IF newsrc = NoFile THEN -1 ELSE 0
          /\ UNCHANGED <<files, op>>
     ELSE /\ phase' = "writing"
          /\ Open("save", 0, SaveText)
          /\ UNCHANGED wrote
  /\ UNCHANGED <<mem, pending, stream, saved, told, read, harm>>

\* .newnewsrc cannot be created.
SaveAtExitFails ==
  /\ phase = "save" /\ newsrc \notin {NoFile, Empty}
  /\ phase' = "judge" /\ wrote' = 0 /\ told' = TRUE
  /\ UNCHANGED <<files, mem, op, pending, stream, saved, read, harm>>

\* Mutant: the prompt that the FIXME asks for, always answered with yes.
JudgeAndRetry ==
  /\ phase = "judge"
  /\ IF wrote >= 0 /\ wrote >= read THEN saved' = TRUE /\ phase' = "bye"
     ELSE phase' = "save" /\ UNCHANGED saved
  /\ UNCHANGED <<files, mem, op, pending, stream, wrote, told, read, harm>>

\* "saved successfully", a warning about missing lines, or the question
\* whether to try again.
Judge ==
  /\ phase = "judge"
  /\ \/ wrote >= 0 /\ wrote >= read /\ saved' = TRUE /\ phase' = "bye" /\ UNCHANGED told
     \/ wrote < read /\ told' = TRUE /\ phase' = "bye" /\ UNCHANGED saved
     \/ wrote < 0 /\ wrote >= read /\ phase' \in {"save", "bye"} /\ UNCHANGED <<saved, told>>
  /\ UNCHANGED <<files, mem, op, pending, stream, wrote, read, harm>>

\* The process is gone with what it had in memory.
Gone ==
  /\ phase' = "down"
  /\ mem' = [g \in Groups |-> NewLine]
  /\ op' = Idle
  /\ pending' = Empty /\ stream' = "none"
  /\ read' = 0 /\ wrote' = 0 /\ saved' = FALSE /\ told' = FALSE

\* exit() flushes every stream, the one that a signal has left open last.
FlushAll ==
  /\ LET new == IF op.step = "write" THEN Written ELSE newnewsrc
     IN newnewsrc' = IF stream = "newnewsrc" THEN Overlay(pending, new) ELSE new
  /\ newsrc' = IF linked THEN newnewsrc'
               ELSE IF stream = "newsrc" THEN Overlay(pending, newsrc) ELSE newsrc
  /\ UNCHANGED linked

Exit ==
  /\ phase = "bye"
  /\ Gone
  /\ FlushAll
  /\ UNCHANGED harm

\* A signal during tin_done(): giveup() exits at once.
GiveUp ==
  /\ Signals
  /\ phase \in {"save", "writing", "judge", "bye"}
  /\ Gone
  /\ FlushAll
  /\ harm' = (harm \/ op.step = "link")

\* The process is killed: what is in its streams is lost.
Crash ==
  /\ Crashes
  /\ phase # "down"
  /\ Gone
  /\ harm' = (harm \/ op.step = "link")
  /\ UNCHANGED files

-----------------------------------------------------------------------------
(* The start of the next session *)

\* A new process has a .newnewsrc of its own.  Bound: no session is followed
\* after one that harmed the file.
Start ==
  /\ phase = "down" /\ ~harm
  /\ phase' = "read"
  /\ newnewsrc' = NoFile /\ linked' = FALSE
  /\ UNCHANGED <<newsrc, mem, op, exiting, read, harm>>

\* read_newsrc()
ReadNewsrc ==
  /\ phase = "read" /\ newsrc # NoFile
  /\ mem' = Loaded(newsrc)
  /\ read' = Cardinality(DOMAIN newsrc)
  /\ phase' = "up"
  /\ UNCHANGED <<files, op, exiting, harm>>

\* create_newsrc(): every group, unsubscribed.
CreateNewsrc ==
  /\ phase = "read" /\ newsrc = NoFile
  /\ \/ /\ newsrc' = [g \in Groups |-> NewLine]
        /\ phase' = "auto"
        /\ UNCHANGED read
     \/ /\ newsrc' \in Prefixes([g \in Groups |-> NewLine]) \cup {NoFile}
        /\ read' = -1
        /\ phase' = "up"
  /\ UNCHANGED <<newnewsrc, linked, mem, op, exiting, harm>>

\* auto_subscribe_groups(): the server's list, if it has one, replaces it.
AutoSubscribe ==
  /\ phase = "auto"
  /\ newsrc' \in {newsrc} \cup
                 Prefixes([g \in DefaultGroups |-> [sub |-> TRUE, marks |-> 0]])
  /\ phase' = "read"
  /\ UNCHANGED <<newnewsrc, linked, mem, op, exiting, read, harm>>

-----------------------------------------------------------------------------

Init ==
  /\ newsrc \in {NoFile} \cup [Groups -> Line]
  /\ newnewsrc = NoFile /\ linked = FALSE
  /\ mem = [g \in Groups |-> NewLine]
  /\ op = Idle
  /\ pending = Empty /\ stream = "none"
  /\ phase = "down" /\ read = 0 /\ wrote = 0
  /\ saved = FALSE /\ told = FALSE /\ harm = FALSE

\* A step of a rewriting, of tin_done() or of the start: the program's own.
Step ==
  \/ WriteLine \/ Close \/ DiskFull \/ DiskFullMove
  \/ UnlinkNewsrc \/ Link \/ LinkFails \/ UnlinkNewnewsrc
  \/ SaveAtExit \/ SaveAtExitFails \/ Judge \/ Exit
  \/ ReadNewsrc \/ CreateNewsrc \/ AutoSubscribe

Command ==
  \/ Save \/ MoveGroup \/ Reset \/ Quit
  \/ \E g \in Groups : Subscribe(g) \/ DeleteGroup(g) \/ Mark(g)

Next == Step \/ Command \/ Start \/ Signal \/ GiveUp \/ Crash

Spec == Init /\ [][Next]_vars /\ WF_vars(Step)

-----------------------------------------------------------------------------
(* Properties *)

\* The content of the file as the user will find it: between unlink() and
\* link() it is in .newnewsrc.
content ==
  IF harm THEN Harmed
  ELSE IF newsrc = NoFile /\ op.step = "link" THEN newnewsrc ELSE newsrc

\* Rewriting is an atomic replacement of the content: in spite of full disks,
\* crashes and restarts, no line is lost, and none is anything but the line
\* that was there or the one the session knows.  Only a process that a signal
\* stops in a rewriting, that dies between unlink() and link(), or whose link()
\* fails is not covered.
Store == INSTANCE NewsrcStore WITH durable <- content
StoreSpec == Store!Spec

\* rename_file() is only reached with a complete .newnewsrc, whatever failed
\* before, and while a session runs .newsrc is missing only between its unlink()
\* and its link() (vWriteNewsrc(), subscribe() and the others, rename_file()).
NothingTorn ==
  ~harm =>
    /\ op.step \in {"unlink", "link", "clean"} => newnewsrc = op.text
    /\ phase = "up" /\ read >= 0 => newsrc # NoFile \/ op.step = "link"

\* The lines of .newsrc say what the session knows.
Current == newsrc \in Texts /\ newsrc = Stored(newsrc, mem)

\* When tin_done() says "newsrc file saved successfully." and no error was shown,
\* every line of the file is what the session knows.
SavedOrTold ==
  saved /\ ~told /\ ~harm /\ phase = "bye" => Current

\* "If this works, replace the original newsrc file" (vWriteNewsrc): when tin
\* has ended, there is a .newsrc with a line.
NewsrcSurvives ==
  [][phase # "down" /\ phase' = "down" /\ read > 0 => newsrc' \notin {NoFile, Empty}]_vars

\* Leaving tin comes to an end, by the command or by a signal, unless the user
\* keeps asking to try again.
ExitEnds ==
  phase \in {"save", "writing", "judge", "bye"} ~>
    phase = "down" \/ (wrote = -1 /\ read = -1)

=============================================================================
