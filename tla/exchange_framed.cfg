CONSTANTS
  Methods <- MCMethodsAll
  Answers <- MCAnswersAll
  Notices <- MCNoticesMixed
  RespCap = 2
  BufCap = 3
  Prompt = TRUE
  Framed = TRUE
  CallbackFirst = TRUE
  MaxCalls = 2
  MaxNotices = 1
  MaxDrops = 0
SPECIFICATION FairSpec
INVARIANTS YesIsOk NoticeKept AckedIsReported
PROPERTY NoticeReported
