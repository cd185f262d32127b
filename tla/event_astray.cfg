CONSTANTS
  Fd <- MCFd
  Senders <- MCSenders
  NumbersReused = TRUE
  MaxSends = 2
  MaxEvents = 2
  MaxDrops = 2
SPECIFICATION Spec
INVARIANT ReaderEventKept
