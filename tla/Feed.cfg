SPECIFICATION Spec
CONSTANTS
  Arts <- MCArts
  Threads <- MCThreads
  PartOf <- MCPartOf
  GroupTop = 3
  Patterns <- MCPatterns
  MaxKeys = 4
  ArchiveOf <- MCArchiveOf
  NoName = ""
  Before <- MCBefore
  FileNames = {"file"}
  Mailbox = "mbox"
  OldFiles <- MCOldFiles
  AutoSave = TRUE
  MarkSavedRead = TRUE
  ProcessOnlyUnread = TRUE
  DeleteTmp = FALSE
  Catchup = TRUE
  Functions = {"FEED_MAIL", "FEED_PIPE", "FEED_PRINT", "FEED_SAVE", "FEED_AUTOSAVE_TAGGED", "FEED_REPOST", "MAIL_ANY_NEWS", "SAVE_ANY_NEWS"}
  MaxJobs = 1
  Articles <- MCArticles
  post_process_command = TRUE
  cLINES = 8
  MINI_HELP_LINES = 3
  MaxPage = 3
INVARIANTS TagsInOrder OldFilesKept  SearchesAndParts
PROPERTY PagesJoin
CHECK_DEADLOCK FALSE
