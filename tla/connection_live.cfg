CONSTANTS
  Fd <- MCFdSpare
  Senders <- MCSender
  NumbersReused = FALSE
  MaxSends = 1
  MaxEvents = 1
  MaxDrops = 1
SPECIFICATION FairSpec
PROPERTIES SendReturns Reconnects
