SPECIFICATION EventsFairSpec
CONSTANTS
  NumComps = 2
  KindOrder <- TreeOnly
  NumSlots = 1
  Reorders = FALSE
  MaxChanges = 1
  MaxRequests = 2
  MaxSessions = 2
  MaxNet = 2
INVARIANT StaleIsPending
PROPERTIES ViewSettles RequestAnswered
\* The client may be done, with nothing left to send.
CHECK_DEADLOCK FALSE
