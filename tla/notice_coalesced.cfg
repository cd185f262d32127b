CONSTANTS
  Methods <- MCMethods
  Answers <- MCAnswersPlain
  Notices <- MCNoticesApart
  RespCap = 2
  BufCap = 3
  Prompt = TRUE
  Framed = FALSE
  CallbackFirst = TRUE
  MaxCalls = 2
  MaxNotices = 2
  MaxDrops = 0
SPECIFICATION Spec
INVARIANT NoticeKept
