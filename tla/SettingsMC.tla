----------------------------- MODULE SettingsMC -----------------------------
(***************************************************************************)
(* What is the user's: the settings of tinrc (Config), the attributes of   *)
(* groups (Attributes), the terminal and its keys (Terminal), and          *)
(* what the options of the command line ask for (Startup), each explored   *)
(* while the others stand at a start.  Three groups, of which the second   *)
(* file of attributes names all; three sizes of the window, one of them    *)
(* too small; up to two options, and -X.                                   *)
(***************************************************************************)
EXTENDS Config

CONSTANTS
  Groups, LocalFiles, GlobalFile, MaxToggles,
  Sizes, MIN_LINES_ON_TERMINAL, MaxResizes, MaxCommands, MaxStops
VARIABLES
  part,   \* what is explored: "tinrc", "attributes", "terminal", "keys" or "startup"
  typed,  \* keys, for part "keys"
  setting, glob, own, file, toggles, reread,
  at, resumes, tty, given, _inraw, _original_tty, keypad, do_sigtstp, tstp, winch, stopped,
  interrupted, need_resize, signal_context, size, cLINES, drawn, woken, missed,
  resizes, commands, stops,
  step, given_options, o, tmp_no_write, server, files, lock_file, child, remembered, unread, at_fork, known,
  handled, updated, status

Letters == {"c", "h", "M", "N", "o", "Q", "r", "R", "S", "u", "U", "w", "X", "z", "Z"}
GivenOptions ==
  {<<>>} \cup {<<a>> : a \in Letters} \cup {<<a, b>> : a, b \in Letters}
  \cup {<<a, "X", b>> : a, b \in Letters}

A == INSTANCE Attributes
T == INSTANCE Terminal
S == INSTANCE Startup WITH Groups <- {"a", "b"}, Given <- GivenOptions, at <- step, given <- given_options,
                           kept <- known
startup == <<step, given_options, o, tmp_no_write, server, files, lock_file, child, remembered,
             unread, at_fork, known, handled, updated, status>>
attributes == <<setting, glob, own, file, toggles, reread>>
terminal == <<at, resumes, tty, given, _inraw, _original_tty, keypad, do_sigtstp, tstp, winch, stopped,
              interrupted, need_resize, signal_context, size, cLINES, drawn, woken, missed,
              resizes, commands, stops>>

MCCoupled == {"draw_arrow", "inverse_okay", "post_mime_encoding", "mail_mime_encoding",
              "post_8bit_header", "mail_8bit_header", "default_savedir"}

Says(scope, attr, value) == [scope |-> scope, attr |-> attr, value |-> value]
MCGlobalFile == <<Says({"a", "b"}, "show_author", 2), Says({"a"}, "thread_arts", 9)>>
MCLocalFiles ==
  {<<>>,
   <<Says({"a"}, "savefile", "file"), Says({"a"}, "quote_chars", "_")>>,
   <<Says({"a", "b", "c"}, "thread_arts", 2), Says({"c"}, "savedir", "own"),
     Says({"c"}, "show_only_unread", 1), Says({"b"}, "thread_arts", 3)>>}

\* A key, and the bytes that the terminal sends for it.
TypedKeys ==
  UNION {{[key |-> k, sent |-> sent] : sent \in T!Sends[k]} : k \in DOMAIN T!Sends}
  \cup {[key |-> k, sent |-> <<>>] : k \in {"x", "~", "A", "[", "ESC"}}

MCInit ==
  /\ part \in {"tinrc", "attributes", "terminal", "keys", "startup"} /\ typed = <<>>
  /\ Init
  /\ part # "tinrc" => disk = <<>> /\ kept = Compiled /\ no_write
  /\ A!Init /\ (part # "attributes" => file = <<>>)
  /\ T!TInit /\ (part # "terminal" => size = MIN_LINES_ON_TERMINAL /\ do_sigtstp)
  /\ given_options \in IF part = "startup" THEN GivenOptions ELSE {<<>>}
  /\ lock_file \in IF part = "startup" THEN {"free", "other"} ELSE {"free"}
  /\ S!StartInit
  /\ part # "startup" => server = "spool" /\ unread = {} /\ files["newsrc"] = "kept"
MCNext ==
  /\ UNCHANGED part /\ (part # "keys" => UNCHANGED typed)
  /\ \/ part = "tinrc" /\ Next /\ UNCHANGED <<attributes, terminal, startup>>
     \/ part = "attributes" /\ A!Next /\ UNCHANGED <<vars, terminal, startup>>
     \/ part = "terminal" /\ T!TNext /\ UNCHANGED <<vars, attributes, startup>>
     \/ /\ part = "keys" /\ Len(typed) < 3
        /\ \E k \in TypedKeys : typed' = Append(typed, k)
        /\ UNCHANGED <<vars, attributes, terminal, startup>>
     \/ part = "startup" /\ S!StartNext /\ UNCHANGED <<vars, attributes, terminal>>
MCSpec == MCInit /\ [][MCNext]_<<part, typed, vars, attributes, terminal, startup>>

\* A setting has the value the user gave it, in tin and in the file, a group has
\* the attributes that the files and the user gave it, and a run of tin does what
\* its options say and overwrites nothing that they keep.
AsTheUserSays ==
  /\ part = "startup" => S!NotOverwritten /\ S!JobsDone
  /\ part = "tinrc" => SettingsKept
  /\ part = "attributes" => A!AttributesAsFiled

\* Others find the terminal as they gave it, the reader a page that fits it, and
\* a program that is typed to its keys one by one.
TerminalRight ==
  /\ part = "terminal" => T!TerminalGiven /\ T!SizeSeen
  /\ part = "keys" => T!KeysInStep(typed)
=============================================================================
