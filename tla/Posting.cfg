SPECIFICATION MCSpec
CONSTANTS
  Texts <- MCTexts
  active <- MCGroups
  bogus = {}
  mailing_list = {"list"}
  moderated <- MCModerated
  subscribed = {"g1", "g2"}
  Targets <- MCTargets
  can_post = TRUE
  unlink_article = TRUE
  keep_dead_articles = TRUE
  MimeSettings <- MCMime
  MaxDrafts = 2
  gl_width = 6
  SCROLL = 3
  TABSIZE = 2
  HIST_SIZE = 3
  PromptLen = 3
  Chars = {"a", "/"}
  Limits = {1, 9}
  LineMax = 7
  MaxTyped = 4
  mm_charset <- MCCharset
  Groups = 3
  QpMax = 9
  EwMax = 35
  LABEL_MAX = 3
  TopDomains <- MCTop
  OctetMax = 255
  disable_gnksa_domain_check = FALSE
  MAX_MSG_HEADERS = 20
  MAXREFSIZE = 24
INVARIANTS   LineAsTyped EncodingsKept HeadersRight
CHECK_DEADLOCK FALSE
