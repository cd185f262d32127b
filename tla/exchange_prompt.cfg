CONSTANTS
  Methods <- MCMethods
  Answers <- MCAnswers
  Notices <- MCNotices
  RespCap = 2
  BufCap = 3
  Prompt = TRUE
  Framed = FALSE
  CallbackFirst = TRUE
  MaxCalls = 3
  MaxNotices = 1
  MaxDrops = 1
SPECIFICATION CSpec
INVARIANTS TypeOK HandoffIntact HandoffInv CopyFits AnswerIsOurs
PROPERTY KeepsPromise
