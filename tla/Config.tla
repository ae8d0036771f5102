------------------------------- MODULE Config -------------------------------
(* The user's settings: tinrc in memory, ~/.tin/tinrc on disk, the option menu
   that changes them (change_config_file() and the prompts of prompt.c), and the
   reading and writing of the file (read_config_file(), write_config_file()).
   The tables name every option of the file, with the kind of value it is read
   as, in the order it is written in.  Values are small stand-ins: what a text
   says does not matter beyond the few texts the code treats specially.  The
   file is one image: the options in the order of the file and what is written
   for each. *)
EXTENDS Integers, Sequences, FiniteSets, TLC

CONSTANTS
  Coupled,      \* the options explored in combination
  MaxChanges,   \* options changed in all sessions
  MaxStarts     \* sessions started

VARIABLES
  tinrc,        \* the settings of the running program
  disk,         \* the file: <<>> or <<image>>
  saving,       \* "no", or how far write_config_file() has come: "open"
  running,      \* the program runs
  no_write,     \* -X: nothing is to be written back
  kept,         \* the settings of the last write that was completed
  changed,      \* the options changed so far
  written,      \* the file has been written; options change before that only
  starts

vars == <<tinrc, disk, saving, running, no_write, kept, changed, written, starts>>

Kind(kind, options) == [o \in options |-> [kind |-> kind, max |-> 0]]
Number(max, options) == [o \in options |-> [kind |-> "number", max |-> max]]

\* read_config_file(), letter by letter: how the value of each option is read.
ReadAtoC ==
  Kind("boolean", {"add_posted_to_filter", "advertising", "auto_save", "ask_for_metamail", "auto_cc",
             "auto_bcc", "auto_list_thread", "auto_reconnect", "alternative_handling", "batch_save",
             "beginner_level", "cache_overview_files", "catchup_read_groups", "confirm_action",
             "confirm_to_quit"})
  @@ Kind("char", {"art_marked_deleted", "art_marked_inrange", "art_marked_return", "art_marked_selected",
             "art_marked_unread"})
  @@ Kind("color", {"col_back", "col_invers_bg", "col_invers_fg", "col_text", "col_minihelp", "col_help",
             "col_message", "col_quote", "col_quote2", "col_quote3", "col_head", "col_newsheaders",
             "col_subject", "col_response", "col_from", "col_normal", "col_title", "col_signature",
             "col_markstar", "col_markdash"})

ReadD ==
  Kind("text", {"default_editor_format", "default_mailer_format", "default_savedir", "default_maildir",
             "default_printer", "default_sigfile", "default_author_search", "default_goto_group",
             "default_config_search", "default_group_search", "default_subject_search",
             "default_art_search", "default_repost_group", "default_mail_address",
             "default_pipe_command", "default_post_newsgroups", "default_post_subject",
             "default_regex_pattern", "default_range_group", "default_range_select",
             "default_range_thread", "default_save_file", "default_select_pattern",
             "default_shell_command"})
  @@ Number(0, {"default_filter_days", "default_move_group"})
  @@ Number(8, {"default_filter_kill_header", "default_filter_select_header"})
  @@ Kind("boolean", {"default_filter_kill_global", "default_filter_kill_expire",
             "default_filter_select_global", "default_filter_select_expire",
             "display_mime_header_asis", "display_mime_allheader_asis", "draw_arrow"})
  @@ Kind("inverted", {"default_filter_kill_case", "default_filter_select_case"})
  @@ Kind("char", {"default_save_mode"})

ReadFtoP ==
  Kind("boolean", {"full_page_scroll", "force_screen_redraw", "group_catchup_on_exit",
             "info_in_last_line", "inverse_okay", "keep_dead_articles", "keep_posted_articles",
             "local_charset", "mail_8bit_header", "mark_saved_read", "post_8bit_header",
             "print_header", "pos_first_unread", "process_only_unread", "prompt_followupto",
             "pgdn_goto_next"})
  @@ Number(0, {"getart_limit"})
  @@ Number(132, {"groupname_max_length"})
  @@ Number(2, {"kill_level"})
  @@ Kind("list", {"mail_mime_encoding", "post_mime_encoding"})
  @@ Kind("text", {"mm_charset", "mail_address", "mail_quote_format", "newnews",
             "news_headers_to_display", "news_headers_to_not_display", "news_quote_format",
             "post_process_command"})
  @@ Number(6, {"post_process_type"})

ReadQtoS ==
  Kind("text", {"quote_chars", "quote_regex", "quote_regex2", "quote_regex3",
             "spamtrap_warning_addresses", "strip_re_regex", "strip_was_regex"})
  @@ Kind("boolean", {"quote_empty_lines", "quote_signatures", "show_description", "show_only_unread",
             "show_only_unread_groups", "sigdashes", "signature_repost", "start_editor_offset",
             "show_last_line_prev_page", "show_lines", "show_score", "show_signatures",
             "save_to_mmdf_mailbox", "strip_blanks", "strip_newsrc", "show_xcommentto",
             "space_goto_next_unread"})
  @@ Number(10000, {"reread_active_file_secs"})
  @@ Number(3, {"show_author"})
  @@ Number(8, {"sort_article_type"})
  @@ Number(2, {"strip_bogus"})

ReadTtoX ==
  Number(3, {"thread_articles", "word_h_display_marks"})
  @@ Kind("boolean", {"tab_goto_next_unread", "thread_catchup_on_exit", "unlink_article",
             "use_builtin_inews", "use_getart_limit", "use_mailreader_i", "use_mouse", "use_keypad",
             "use_metamail", "use_color", "word_highlight"})
  @@ Number(2, {"wildcard"})
  @@ Kind("text", {"xpost_quote_format"})

Option == ReadAtoC @@ ReadD @@ ReadFtoP @@ ReadQtoS @@ ReadTtoX
Options == DOMAIN Option

\* write_config_file(): the options in the order they are written.
WriteFirst ==
  <<"default_savedir", "auto_save", "mark_saved_read", "post_process_type", "post_process_command",
    "process_only_unread", "prompt_followupto", "confirm_action", "confirm_to_quit",
    "auto_reconnect", "draw_arrow", "inverse_okay", "pos_first_unread", "show_only_unread",
    "show_only_unread_groups", "kill_level", "tab_goto_next_unread", "space_goto_next_unread",
    "pgdn_goto_next", "full_page_scroll", "show_last_line_prev_page", "catchup_read_groups",
    "group_catchup_on_exit", "thread_catchup_on_exit", "thread_articles", "show_description",
    "show_author", "news_headers_to_display", "news_headers_to_not_display", "info_in_last_line",
    "sort_article_type", "default_maildir", "save_to_mmdf_mailbox", "show_xcommentto",
    "print_header", "default_printer", "batch_save", "start_editor_offset", "default_editor_format",
    "default_mailer_format", "use_mailreader_i", "show_lines", "show_score", "unlink_article",
    "keep_dead_articles">>

WriteNext ==
  <<"keep_posted_articles", "add_posted_to_filter", "default_sigfile", "sigdashes",
    "signature_repost", "spamtrap_warning_addresses", "advertising", "reread_active_file_secs",
    "quote_chars", "quote_empty_lines", "quote_regex", "quote_regex2", "quote_regex3",
    "strip_re_regex", "strip_was_regex", "quote_signatures", "show_signatures", "news_quote_format",
    "mail_quote_format", "xpost_quote_format", "auto_cc", "auto_bcc", "art_marked_deleted",
    "art_marked_inrange", "art_marked_return", "art_marked_selected", "art_marked_unread",
    "force_screen_redraw", "use_builtin_inews", "auto_list_thread", "use_mouse", "strip_blanks",
    "groupname_max_length", "beginner_level", "default_filter_days", "cache_overview_files",
    "use_getart_limit", "getart_limit", "use_color", "col_normal", "col_back", "col_invers_bg",
    "col_invers_fg", "col_text", "col_minihelp", "col_help", "col_message">>

WriteThen ==
  <<"col_quote", "col_quote2", "col_quote3", "col_head", "col_newsheaders", "col_subject",
    "col_response", "col_from", "col_title", "col_signature", "word_highlight",
    "word_h_display_marks", "col_markstar", "col_markdash", "mail_address", "mm_charset",
    "local_charset", "post_mime_encoding", "mail_mime_encoding", "post_8bit_header",
    "mail_8bit_header", "display_mime_header_asis", "display_mime_allheader_asis", "use_metamail",
    "ask_for_metamail", "use_keypad", "alternative_handling", "strip_newsrc", "strip_bogus",
    "wildcard", "default_filter_kill_header", "default_filter_kill_global",
    "default_filter_kill_case", "default_filter_kill_expire", "default_filter_select_header",
    "default_filter_select_global", "default_filter_select_case", "default_filter_select_expire",
    "default_save_mode", "default_author_search", "default_goto_group", "default_config_search",
    "default_group_search", "default_subject_search", "default_art_search", "default_repost_group",
    "default_mail_address", "default_move_group", "default_pipe_command", "default_post_newsgroups",
    "default_post_subject", "default_range_group", "default_range_select", "default_range_thread",
    "default_regex_pattern", "default_save_file", "default_select_pattern", "default_shell_command",
    "newnews">>

\* Mutant: the header options stand before the encodings they depend on.
WriteOrder_HeadersFirst == <<"post_8bit_header", "mail_8bit_header">> \o WriteFirst \o WriteNext \o
  SelectSeq(WriteThen, LAMBDA o : o \notin {"post_8bit_header", "mail_8bit_header"})

WriteOrder == WriteFirst \o WriteNext \o WriteThen

\* Options the menu does not show; they change elsewhere in the program.
NotInMenu ==
  {"default_filter_kill_header", "default_filter_kill_global", "default_filter_kill_case",
   "default_filter_kill_expire", "default_filter_select_header", "default_filter_select_global",
   "default_filter_select_case", "default_filter_select_expire", "default_save_mode",
   "default_author_search", "default_goto_group", "default_config_search", "default_group_search",
   "default_subject_search", "default_art_search", "default_repost_group", "default_mail_address",
   "default_move_group", "default_pipe_command", "default_post_newsgroups", "default_post_subject",
   "default_regex_pattern", "default_range_group", "default_range_select", "default_range_thread",
   "default_save_file", "default_select_pattern", "default_shell_command", "info_in_last_line",
   "local_charset", "newnews", "post_process_command"}
option_table == Options \ NotInMenu
Typed == {"reread_active_file_secs", "getart_limit", "groupname_max_length", "default_filter_days"}

txt_mime_encodings == <<"8bit", "base64", "quoted-printable", "7bit">>
Is8bit(encoding) == encoding = 0
Regexps == {"quote_regex", "quote_regex2", "quote_regex3", "strip_re_regex", "strip_was_regex"}
Paths == {"default_printer", "default_maildir", "default_savedir", "default_sigfile"}
Encoding == "post_8bit_header" :> "post_mime_encoding" @@ "mail_8bit_header" :> "mail_mime_encoding"

\* What an option of each kind can be set to.
Values(o) ==
  LET k == Option[o].kind  max == Option[o].max IN
  CASE k \in {"boolean", "inverted"} -> BOOLEAN
    [] k = "number" /\ o \in Typed -> {0, 40, 20000}
    [] k = "number" -> IF max = 0 THEN {0, 1} ELSE {0, max}
    [] k = "color" -> {-1, 15}
    [] k = "list" -> {0, 1}
    [] k = "char" -> {" ", "+"}
    [] OTHER -> {"", "text"} \cup (IF o = "quote_chars" THEN {"_"} ELSE {})
                \cup (IF o = "default_savedir" THEN {"."} ELSE {})
                \cup (IF o \in Paths THEN {"~"} ELSE {})

-----------------------------------------------------------------------------
(* Writing and reading one value. *)

Printed(o, v) ==
  CASE Option[o].kind = "boolean" -> IF v THEN "ON" ELSE "OFF"
    [] Option[o].kind = "inverted" -> IF ~v THEN "ON" ELSE "OFF"
    [] Option[o].kind = "list" -> txt_mime_encodings[v + 1]
    [] o = "quote_chars" /\ v = " " -> "_"
    [] OTHER -> v

match_boolean(text) == text = "ON"

match_integer(text, max) == IF max # 0 /\ (text < 0 \/ text > max) THEN 0 ELSE text

match_color(text) == IF text < -1 \/ text > 15 THEN 0 ELSE text

match_list(text) ==
  IF \E n \in DOMAIN txt_mime_encodings : txt_mime_encodings[n] = text
  THEN (CHOOSE n \in DOMAIN txt_mime_encodings : txt_mime_encodings[n] = text) - 1
  ELSE 0

match_string(o, text) ==
  CASE o = "default_savedir" /\ text = "." -> "cwd"
    [] o = "quote_chars" /\ text = "_" -> " "
    [] OTHER -> text

Matched(o, text) ==
  LET k == Option[o].kind IN
  CASE k = "boolean" -> match_boolean(text)
    [] k = "inverted" -> ~match_boolean(text)
    [] k = "number" -> match_integer(text, Option[o].max)
    [] k = "color" -> match_color(text)
    [] k = "list" -> match_list(text)
    [] OTHER -> match_string(o, text)

\* The image write_config_file() makes of the settings s.
Image(s) == [current |-> TRUE, order |-> WriteOrder,
             text |-> [o \in Options |-> Printed(o, s[o])]]

\* check_upgrade(): a file that does not begin with this version's tag.
check_upgrade(image) == IF image.current THEN "IGNORE" ELSE "UPGRADE"

\* A header option believes the encoding read so far: the file's if its line
\* comes first, else the one in force before.
EncodingSoFar(s, image, o) ==
  LET e == Encoding[o]
      Place(x) == CHOOSE i \in DOMAIN image.order : image.order[i] = x
  IN  IF Place(e) < Place(o) THEN Matched(e, image.text[e]) ELSE s[e]

read_config_file(s, image) ==
  LET r == [o \in Options |->
              CASE o \in DOMAIN Encoding ->
                     Matched(o, image.text[o]) /\ Is8bit(EncodingSoFar(s, image, o))
                [] o = "thread_articles" /\ check_upgrade(image) = "UPGRADE" -> Option[o].max
                [] OTHER -> Matched(o, image.text[o])]
  IN  [r EXCEPT !["draw_arrow"] = @ \/ ~r["inverse_okay"]]

postinit_regexp(s) ==
  [o \in Options |-> IF o \in Regexps /\ s[o] = "" THEN "builtin" ELSE s[o]]

\* The compiled-in settings; where the code does not look at a value, any will do.
Compiled ==
  [o \in Options |->
     LET k == Option[o].kind IN
     CASE k \in {"boolean", "inverted"} -> o = "inverse_okay"
       [] k \in {"number", "color"} -> 0
       [] k = "list" -> 3
       [] k = "char" -> "."
       [] OTHER -> ""]

\* The settings of a program that has just read the file.
Started(d) ==
  postinit_regexp(IF d = <<>> THEN Compiled ELSE read_config_file(Compiled, d[1]))

-----------------------------------------------------------------------------
(* Earlier sessions left no file, one of an older version, or one of this
   version in which 8-bit headers are allowed. *)
Old == [Compiled EXCEPT !["thread_articles"] = 1]
EightBit == [Compiled EXCEPT !["post_mime_encoding"] = 0, !["post_8bit_header"] = TRUE,
                             !["mail_mime_encoding"] = 0, !["mail_8bit_header"] = TRUE]

Init ==
  /\ \/ disk = <<>> /\ kept = Compiled
     \/ disk = <<[Image(Old) EXCEPT !.current = FALSE]>>
        /\ kept = [Old EXCEPT !["thread_articles"] = 3]
     \/ disk = <<Image(EightBit)>> /\ kept = EightBit
  /\ tinrc = Compiled
  /\ saving = "no"
  /\ running = FALSE
  /\ no_write \in BOOLEAN
  /\ changed = {}
  /\ written = FALSE
  /\ starts = 0

Start ==
  /\ ~running
  /\ starts < MaxStarts
  /\ tinrc' = Started(disk)
  /\ running' = TRUE
  /\ saving' = "no"
  /\ starts' = starts + 1
  /\ UNCHANGED <<disk, no_write, kept, changed, written>>

Changing(o) ==
  /\ running /\ saving = "no"
  /\ ~written
  /\ Cardinality(changed \cup {o}) <= MaxChanges
  /\ changed \subseteq {o} \/ changed \cup {o} \subseteq Coupled
  /\ changed' = changed \cup {o}
  /\ UNCHANGED <<disk, saving, running, no_write, kept, written, starts>>

\* prompt_on_off() and what the menu does after it.
ChangeOnOff(o, v) ==
  /\ Changing(o)
  /\ o \in option_table /\ Option[o].kind = "boolean"
  /\ LET s == [tinrc EXCEPT ![o] = v] IN
     tinrc' = CASE o = "draw_arrow" -> [s EXCEPT !["inverse_okay"] = @ \/ ~v]
                [] o = "inverse_okay" -> [s EXCEPT !["draw_arrow"] = @ \/ ~v]
                [] o \in DOMAIN Encoding -> [s EXCEPT ![o] = v /\ Is8bit(s[Encoding[o]])]
                [] OTHER -> s

\* prompt_list().  The encodings are listed in tincfg.tbl with their texts, so
\* they are OPT_LIST options too, and nothing more is done for them.
ChangeList(o, v) ==
  /\ Changing(o)
  /\ o \in option_table \ Typed
  /\ Option[o].kind \in {"number", "color", "list"}
  /\ tinrc' = [tinrc EXCEPT ![o] = v]

\* prompt_option_num(): any number, no bound is checked.
ChangeNumber(o, v) ==
  /\ Changing(o)
  /\ o \in Typed
  /\ tinrc' = [tinrc EXCEPT ![o] = v]

\* prompt_option_string(), prompt_option_char() and what the menu makes of the text.
ChangeText(o, v) ==
  /\ Changing(o)
  /\ o \in option_table
  /\ Option[o].kind \in {"text", "char"}
  /\ tinrc' = [tinrc EXCEPT ![o] = CASE o \in Regexps /\ v = "" -> "builtin"
                                     [] o \in Paths /\ v = "~" -> "homedir"
                                     [] OTHER -> v]

\* Options the menu does not show: defaults of prompts, of the filter menu ...
ChangeElsewhere(o, v) ==
  /\ Changing(o)
  /\ o \in NotInMenu
  /\ tinrc' = [tinrc EXCEPT ![o] = v]

\* write_config_file(), at 'q' in the menu, at the end of the session and when
\* the directories for saved articles have been made.
OpenFile ==
  /\ running /\ saving = "no"
  /\ ~(no_write /\ disk # <<>>)
  /\ saving' = "open"
  /\ tinrc' = [tinrc EXCEPT !["default_editor_format"] = IF @ = "" THEN "%E +%N %F" ELSE @]
  /\ UNCHANGED <<disk, running, no_write, kept, changed, written, starts>>

\* All of it is in the temporary file, which takes the place of the old one.
CloseFile ==
  /\ saving = "open" /\ running
  /\ disk' = <<Image(tinrc)>>
  /\ kept' = tinrc
  /\ saving' = "no"
  /\ UNCHANGED <<tinrc, running, no_write, changed, starts>>
  /\ written' = TRUE

\* Mutant: a file of which only the head was written takes the old one's place.
DiskFull_Rename ==
  /\ saving = "open" /\ running
  /\ disk' = <<Image(Compiled)>>
  /\ saving' = "no"
  /\ UNCHANGED <<tinrc, running, no_write, kept, changed, written, starts>>

\* The disk is full: the message says so, the old file stays.
DiskFull ==
  /\ saving = "open" /\ running
  /\ saving' = "no"
  /\ UNCHANGED <<tinrc, disk, running, no_write, kept, changed, written, starts>>

\* The session ends, or is killed wherever it is.
Stop ==
  /\ running
  /\ running' = FALSE
  /\ saving' = "no"
  /\ tinrc' = Compiled
  /\ UNCHANGED <<disk, no_write, kept, changed, written, starts>>

Next ==
  \/ Start
  \/ \E o \in Options : \E v \in Values(o) :
       \/ ChangeOnOff(o, v)
       \/ ChangeList(o, v)
       \/ ChangeNumber(o, v)
       \/ ChangeText(o, v)
       \/ ChangeElsewhere(o, v)
  \/ OpenFile
  \/ CloseFile
  \/ DiskFull
  \/ Stop

Spec == Init /\ [][Next]_vars

-----------------------------------------------------------------------------
(* What the file is allowed to change: a number the reader finds out of range
   becomes 0, "." the current directory, an underscore among the quote
   characters a blank, and 8-bit headers need the 8-bit encoding. *)
Normal(s) ==
  [o \in Options |->
     CASE Option[o].kind = "number" /\ Option[o].max # 0 /\ s[o] > Option[o].max -> 0
       [] o = "default_savedir" /\ s[o] = "." -> "cwd"
       [] o = "quote_chars" /\ s[o] = "_" -> " "
       [] o \in DOMAIN Encoding -> s[o] /\ Is8bit(s[Encoding[o]])
       [] OTHER -> s[o]]

(* Whatever the user has set, and in whatever combination the menu lets him:
   the file write_config_file() would write now reads back, in a program that
   begins with the compiled-in settings, as those settings.  The two functions
   list their 151 options independently. *)
SettingsKept == running => Started(<<Image(tinrc)>>) = postinit_regexp(Normal(tinrc))

(* A program that has just started has the settings of the last file that was
   completely written: one cut short by a crash or a full disk changes nothing. *)
StartsAsKept ==
  [][~running /\ running' => tinrc' = postinit_regexp(Normal(kept))]_vars

=============================================================================
