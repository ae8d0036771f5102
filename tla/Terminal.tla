------------------------------- MODULE Terminal -------------------------------
(***************************************************************************)
(* The terminal and the signals: raw mode and keypad (curses.c), waiting   *)
(* for a key, programs run by invoke_cmd() (misc.c), suspending, resizing  *)
(* and ending (signal.c, misc.c).  A signal handler may run between any    *)
(* two steps of the program, which is the hard part here.  tin is used     *)
(* with a screen (no batch mode), from a build with termcap, POSIX job     *)
(* control and SA_RESTART.  At the end, the keys that terminals send.      *)
(***************************************************************************)
EXTENDS Naturals, SequencesExt

CONSTANTS
  Sizes,        \* of the window
  MIN_LINES_ON_TERMINAL,
  MaxResizes,   \* bound: how often the window changes
  MaxCommands,  \* bound: how often a program is run
  MaxStops      \* bound: how often tin is stopped

VARIABLES
  at,              \* what the program does; "resized" is inside handle_resize()
  resumes,         \* where handle_resize() goes on
  tty,             \* the mode of the terminal
  given,           \* history: the mode it had when tin last left or got it
  _inraw, _original_tty,
  keypad,          \* set_keypad_on(), set_xclick_on()
  do_sigtstp,      \* TRUE if SIGTSTP was not ignored when tin was started
  tstp, winch,     \* what the signals do: "caught", "default" or "ignored"
  stopped,
  interrupted,     \* a signal has ended the read() of a key
  need_resize, signal_context,
  size,            \* the window's size
  cLINES,          \* the size tin knows
  drawn,           \* the size the page was drawn for, or what spoiled it
  woken,           \* history: suspending made the terminal raw where it was not
  missed,          \* history: a request to redraw was replaced or cleared unseen
  resizes, commands, stops  \* bounds

mode == <<tty, _inraw, _original_tty>>
handlers == <<do_sigtstp, tstp, winch>>
counts == <<resizes, commands, stops>>
tvars == <<at, resumes, mode, given, keypad, handlers, stopped, interrupted, need_resize,
           signal_context, size, cLINES, drawn, woken, missed, counts>>

Spoiled == 0   \* by the shell that had the terminal
Other == 100   \* a program's output, which the caller clears

-----------------------------------------------------------------------------

\* Mutant: the mode is saved even if it is raw already.
Raw_Again(state) ==
  IF state THEN _original_tty' = tty /\ tty' = "raw" /\ _inraw' = TRUE
  ELSE IF _inraw THEN tty' = _original_tty /\ _inraw' = FALSE /\ UNCHANGED _original_tty
       ELSE UNCHANGED mode
Raw(state) ==
  IF state = _inraw THEN UNCHANGED mode
  ELSE IF state THEN _original_tty' = tty /\ tty' = "raw" /\ _inraw' = TRUE
  ELSE tty' = _original_tty /\ _inraw' = FALSE /\ UNCHANGED _original_tty

InitWin == keypad' = TRUE
EndWin == keypad' = FALSE

TInit ==
  /\ at = "starting" /\ resumes = "work" /\ signal_context = "cMain"
  /\ tty = "user" /\ given = "user" /\ _original_tty = "user" /\ _inraw = FALSE /\ keypad = FALSE
  /\ do_sigtstp \in BOOLEAN
  /\ tstp = (IF do_sigtstp THEN "caught" ELSE "ignored") /\ winch = "caught"  \* set_signal_handlers()
  /\ stopped = FALSE /\ interrupted = FALSE /\ need_resize = "cNo"
  /\ size \in {s \in Sizes : s >= MIN_LINES_ON_TERMINAL} /\ cLINES = 0 /\ drawn = Other
  /\ woken = FALSE /\ missed = FALSE
  /\ resizes = 0 /\ commands = 0 /\ stops = 0

Runs(place) == at = place /\ ~stopped
history == <<given, woken, missed>>

setup_screen ==
  /\ Runs("starting") /\ at' = "work"
  /\ InitWin /\ Raw(TRUE) /\ cLINES' = size
  /\ UNCHANGED <<resumes, handlers, stopped, interrupted, need_resize, signal_context, size, drawn,
                 history, counts>>

\* A page is drawn (show_group_page() and the others).
ShowPage ==
  /\ Runs("work") /\ signal_context' = "cPage" /\ drawn' = cLINES
  /\ UNCHANGED <<at, resumes, mode, keypad, handlers, stopped, interrupted, need_resize, size, cLINES,
                 history, counts>>

\* index_group() shows its progress only; a page follows.
index_group ==
  /\ Runs("work") /\ signal_context = "cPage" /\ signal_context' = "cArt"
  /\ UNCHANGED <<at, resumes, mode, keypad, handlers, stopped, interrupted, need_resize, size, cLINES,
                 drawn, history, counts>>

\* ReadCh(): allow_resize(TRUE) lets signals end the read(), and catches SIGTSTP
\* whatever it did before.
ReadCh ==
  /\ Runs("work") /\ signal_context = "cPage" /\ at' = "key" /\ interrupted' = FALSE
  /\ tstp' = "caught" /\ winch' = "caught"
  /\ UNCHANGED <<resumes, mode, keypad, do_sigtstp, stopped, need_resize, signal_context, size, cLINES,
                 drawn, history, counts>>
KeyRead ==
  /\ Runs("key") /\ ~interrupted /\ at' = "work"
  /\ UNCHANGED <<resumes, mode, keypad, handlers, stopped, interrupted, need_resize, signal_context,
                 size, cLINES, drawn, history, counts>>

tin_done ==
  /\ at' = "done" /\ signal_context' = "cMain" /\ EndWin /\ Raw(FALSE)
  /\ UNCHANGED <<resumes, handlers, stopped, interrupted, need_resize, size, drawn, history, counts>>

\* handle_resize(), from the read of a key or of an overview file: the page is
\* drawn again if the size is another one or the request says so.
handle_resize ==
  /\ \/ Runs("key") /\ interrupted
     \/ Runs("work") /\ signal_context = "cArt"
  /\ need_resize # "cNo"
  /\ cLINES' = size
  /\ IF size < MIN_LINES_ON_TERMINAL THEN tin_done
     ELSE /\ drawn' = IF (need_resize = "cRedraw" \/ size # cLINES) /\ signal_context = "cPage"
                      THEN size ELSE drawn
          /\ at' = "resized" /\ resumes' = at
          /\ UNCHANGED <<mode, keypad, handlers, stopped, interrupted, need_resize, signal_context,
                         size, history, counts>>
Resized ==
  /\ Runs("resized") /\ at' = resumes /\ need_resize' = "cNo"
  /\ interrupted' = FALSE
  /\ UNCHANGED <<resumes, mode, keypad, handlers, stopped, signal_context, size, cLINES, drawn,
                 history, counts>>
\* read() was ended by a signal that asks for nothing: it is called again.
ReadAgain ==
  /\ Runs("key") /\ interrupted /\ need_resize = "cNo" /\ interrupted' = FALSE
  /\ UNCHANGED <<at, resumes, mode, keypad, handlers, stopped, need_resize, signal_context, size,
                 cLINES, drawn, history, counts>>

Quit == Runs("work") /\ tin_done /\ UNCHANGED cLINES

-----------------------------------------------------------------------------
(* invoke_cmd(), and post_process_sh(), which asks for raw mode once more   *)

LeaveScreen ==
  /\ Runs("work") /\ commands < MaxCommands /\ commands' = commands + 1
  /\ at' = "leaving" /\ EndWin /\ Raw(FALSE)
  /\ UNCHANGED <<resumes, handlers, stopped, interrupted, need_resize, signal_context, size, cLINES,
                 drawn, history, resizes, stops>>
\* set_signal_catcher(FALSE), system()
RunProgram ==
  /\ Runs("leaving") /\ at' = "child" /\ drawn' = Other
  /\ tstp' = IF do_sigtstp THEN "default" ELSE tstp
  /\ winch' = "default"
  /\ UNCHANGED <<resumes, mode, keypad, do_sigtstp, stopped, interrupted, need_resize, signal_context,
                 size, cLINES, history, counts>>
\* The program ends, and may leave the terminal in a mode of its own.
ProgramEnds ==
  /\ Runs("child") /\ at' = "left"
  /\ given' \in {tty, "odd"} /\ tty' = given'
  /\ UNCHANGED <<resumes, _inraw, _original_tty, keypad, handlers, stopped, interrupted, need_resize,
                 signal_context, size, cLINES, drawn, woken, missed, counts>>
\* set_signal_catcher(TRUE)
CatchAgain ==
  /\ Runs("left") /\ at' = "returning"
  /\ tstp' = IF do_sigtstp THEN "caught" ELSE tstp
  /\ winch' = "caught"
  /\ UNCHANGED <<resumes, mode, keypad, do_sigtstp, stopped, interrupted, need_resize, signal_context,
                 size, cLINES, drawn, history, counts>>
EnterScreen ==
  /\ Runs("returning") /\ at' = "work"
  /\ Raw(TRUE) /\ InitWin
  /\ need_resize' = "cYes" /\ missed' = (missed \/ need_resize = "cRedraw")
  /\ UNCHANGED <<resumes, handlers, stopped, interrupted, signal_context, size, cLINES, drawn, given,
                 woken, counts>>
RawOnceMore ==
  /\ Runs("work") /\ commands > 0 /\ Raw(TRUE)
  /\ UNCHANGED <<at, resumes, keypad, handlers, stopped, interrupted, need_resize, signal_context, size,
                 cLINES, drawn, history, counts>>

-----------------------------------------------------------------------------
(* Signals: they are handled at once, wherever the program is.             *)

\* A handler ends the read() of a key, if it has been called yet.
Interrupt == IF at = "key" THEN interrupted' \in {TRUE, interrupted} ELSE UNCHANGED interrupted
\* A request that is still to be served, or is being served, is lost.
Request(what) ==
  /\ need_resize' = what
  /\ missed' = (missed \/ at = "resized" \/ (what = "cYes" /\ need_resize = "cRedraw"))

\* The window changes; the signal goes to who has the terminal.
Resize ==
  /\ resizes < MaxResizes /\ resizes' = resizes + 1
  /\ size' \in Sizes \ {size}
  /\ IF ~stopped /\ winch = "caught" THEN Request("cYes") /\ Interrupt
     ELSE UNCHANGED <<need_resize, missed, interrupted>>
  /\ UNCHANGED <<at, resumes, mode, given, keypad, handlers, stopped, signal_context, cLINES, drawn,
                 woken, commands, stops>>

\* SIGTSTP: handle_suspend() up to the stop, or just the stop.  The shell, or the
\* program that is run, keeps the mode it finds.
Suspend ==
  /\ at # "exited" /\ ~stopped /\ stops < MaxStops /\ stops' = stops + 1
  /\ tstp # "ignored"
  /\ stopped' = TRUE
  /\ IF tstp = "caught" THEN Raw(FALSE) /\ EndWin ELSE UNCHANGED <<mode, keypad>>
  /\ drawn' = IF drawn = Other THEN Other ELSE Spoiled
  /\ UNCHANGED <<at, resumes, handlers, interrupted, need_resize, signal_context, size, cLINES, history,
                 resizes, commands>>
Continue ==
  /\ stopped /\ stopped' = FALSE
  /\ IF tstp # "caught" THEN UNCHANGED <<mode, keypad, need_resize, missed, interrupted, woken>>
     ELSE /\ Raw(TRUE) /\ InitWin /\ Request("cRedraw") /\ Interrupt
          /\ woken' = (woken \/ at \in {"starting", "leaving", "child", "left", "returning", "done"})
  /\ UNCHANGED <<at, resumes, given, handlers, signal_context, size, cLINES, drawn, resizes, commands, stops>>

\* SIGHUP or SIGTERM: tin_done(); SIGUSR1, or a fault: tin ends as it stands.
Terminate ==
  /\ at \notin {"done", "killed", "exited"} /\ ~stopped /\ tin_done /\ UNCHANGED cLINES
Kill ==
  /\ at \notin {"killed", "exited"} /\ ~stopped /\ at' = "killed"
  /\ UNCHANGED <<resumes, mode, keypad, handlers, stopped, interrupted, need_resize, signal_context, size,
                 cLINES, drawn, history, counts>>
Exit ==
  /\ Runs("done") /\ at' = "exited"
  /\ UNCHANGED <<resumes, mode, keypad, handlers, stopped, interrupted, need_resize, signal_context, size,
                 cLINES, drawn, history, counts>>

Program ==
  \/ setup_screen \/ ShowPage \/ index_group \/ ReadCh \/ KeyRead \/ handle_resize \/ Resized
  \/ ReadAgain \/ Quit \/ LeaveScreen \/ RunProgram \/ ProgramEnds \/ CatchAgain \/ EnterScreen
  \/ RawOnceMore \/ Exit
Signals == at \notin {"killed", "exited"} /\ (Resize \/ Suspend \/ Continue \/ Terminate \/ Kill)
TNext == Program \/ Signals
TSpec == TInit /\ [][TNext]_tvars

-----------------------------------------------------------------------------

\* Whoever has the terminal besides tin - the shell while tin is stopped and when
\* it has ended, a program it runs - finds it as it was given to tin, with the
\* keypad of old; unless tin was stopped where it had no raw mode, since that is
\* what handle_suspend() makes when it goes on.
TerminalGiven ==
  ~woken /\ (stopped \/ at \in {"child", "done", "exited"}) => tty = given /\ ~keypad

\* Who is asked for a key sees a page of the window's size, or the request to draw
\* it is still pending; unless one request came upon another.
SizeSeen ==
  Runs("key") /\ need_resize = "cNo" /\ ~missed => cLINES = size /\ drawn \in {size, Other}

-----------------------------------------------------------------------------
(* Keys: what get_arrow_key() (curses.c) makes of the bytes that terminals  *)
(* send for them.  The input is a sequence of bytes, in which Pause stands  *)
(* where nothing comes for longer than input_pending() is asked for.        *)

ESC == "ESC"
Pause == "pause"

\* What terminals send for a key, in all the ways tin knows; others are typed as
\* they are.  After a button of the mouse follow its number and its place.
Sends ==
  [KEYMAP_UP |-> {<<"[", "A">>, <<"O", "A">>, <<"[", "i">>}, KEYMAP_DOWN |-> {<<"[", "B">>, <<"O", "B">>},
   KEYMAP_LEFT |-> {<<"[", "D">>, <<"O", "D">>}, KEYMAP_RIGHT |-> {<<"[", "C">>, <<"O", "C">>},
   KEYMAP_PAGE_UP |-> {<<"[", "I">>, <<"[", "V">>, <<"[", "5", "~">>, <<"[", "1", "5", "0", "q">>, <<"v">>},
   KEYMAP_PAGE_DOWN |-> {<<"[", "G">>, <<"[", "U">>, <<"[", "6", "~">>, <<"[", "1", "5", "4", "q">>},
   KEYMAP_HOME |-> {<<"[", "H">>, <<"[", "1", "~">>}, KEYMAP_END |-> {<<"[", "F">>, <<"[", "Y">>, <<"[", "4", "~">>},
   KEYMAP_INS |-> {<<"[", "2", "~">>}, KEYMAP_DEL |-> {<<"[", "3", "~">>},
   KEYMAP_MOUSE |-> {<<"[", "M", " ", "!", "!">>}]

-----------------------------------------------------------------------------

input_pending(input) == input # <<>> /\ Head(input) # Pause
\* ReadCh() waits through pauses.
Awaited(input) == IF input # <<>> /\ Head(input) = Pause THEN Tail(input) ELSE input
Byte(input) == IF Awaited(input) = <<>> THEN "EOF" ELSE Head(Awaited(input))
After(input) == IF Awaited(input) = <<>> THEN <<>> ELSE Tail(Awaited(input))
Past(input, n) == FoldLeft(LAMBDA rest, i : After(rest), input, [i \in 1..n |-> i])

\* The byte that says which key it is.
Final ==
  [KEYMAP_UP |-> {"A", "i"}, KEYMAP_DOWN |-> {"B"}, KEYMAP_LEFT |-> {"D"}, KEYMAP_RIGHT |-> {"C"},
   KEYMAP_PAGE_UP |-> {"I", "V", "S", "v", "5"}, KEYMAP_PAGE_DOWN |-> {"G", "U", "T", "6"},
   KEYMAP_HOME |-> {"H", "1"}, KEYMAP_END |-> {"F", "Y", "4"}, KEYMAP_INS |-> {"2"}, KEYMAP_DEL |-> {"3"},
   KEYMAP_MOUSE |-> {"M"}]

\* After ESC: the key, and the input that is left.
get_arrow_key(input) ==
  LET csi == Byte(input) \in {"[", "O"}
      ch == IF csi THEN Byte(After(input)) ELSE Byte(input)
      rest == IF csi THEN Past(input, 2) ELSE After(input)
      keys == {k \in DOMAIN Final : ch \in Final[k]}
      rs6000 == ch = "1" /\ Byte(rest) = "5"
  IN IF ~input_pending(input) THEN [key |-> ESC, rest |-> input]
     ELSE IF rs6000
     THEN [key |-> CASE Byte(After(rest)) = "0" -> "KEYMAP_PAGE_UP"
                     [] Byte(After(rest)) = "4" -> "KEYMAP_PAGE_DOWN"
                     [] OTHER -> "KEYMAP_HOME",
           rest |-> Past(rest, 3)]
     ELSE [key |-> IF keys = {} THEN "KEYMAP_UNKNOWN" ELSE CHOOSE k \in keys : TRUE,
           rest |-> IF ch \in {"1", "2", "3", "4", "5", "6"} THEN After(rest)
                    ELSE IF ch = "M" THEN Past(rest, 3) ELSE rest]

\* A page, or the line editor, reads one key after the other, till the end of input.
ReadKeys(input) ==
  LET rests == {SubSeq(input, i, Len(input)) : i \in 1..(Len(input) + 1)}
      keys[rest \in rests] ==
        LET k == get_arrow_key(After(rest))
        IN IF Awaited(rest) = <<>> THEN <<>>
           ELSE IF Byte(rest) # ESC THEN <<Byte(rest)>> \o keys[After(rest)]
           ELSE <<k.key>> \o keys[k.rest]
  IN keys[input]

-----------------------------------------------------------------------------

\* Keys come one after the other, each with all its bytes: none of them is left
\* over to be read as a command of its own.  ESC alone is known by the pause after
\* it, so a pause must not come between ESC and the rest of a key.
KeysInStep(typed) ==
  LET Bytes(k) == IF k.key \in DOMAIN Sends THEN <<ESC>> \o k.sent
                  ELSE IF k.key = ESC THEN <<ESC, Pause>> ELSE <<k.key>>
  IN ReadKeys(FlattenSeq([i \in DOMAIN typed |-> Bytes(typed[i])])) = [i \in DOMAIN typed |-> typed[i].key]
===============================================================================
