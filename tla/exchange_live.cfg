CONSTANTS
  Methods <- MCMethods
  Answers <- MCAnswersPlain
  Notices <- MCNotices
  RespCap = 2
  BufCap = 3
  Prompt = FALSE
  Framed = FALSE
  CallbackFirst = FALSE
  MaxCalls = 2
  MaxNotices = 1
  MaxDrops = 1
SPECIFICATION FairSpec
PROPERTIES CallReturns ReceptionResumes NoticeLostOnly
