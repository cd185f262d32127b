CONSTANTS
  Methods <- MCMethodsBroken
  Answers <- MCAnswersBroken
  Notices <- MCNoticesApart
  RespCap = 2
  BufCap = 3
  Prompt = TRUE
  Framed = FALSE
  CallbackFirst = TRUE
  MaxCalls = 2
  MaxNotices = 0
  MaxDrops = 0
SPECIFICATION Spec
INVARIANT YesIsOk
CHECK_DEADLOCK FALSE
