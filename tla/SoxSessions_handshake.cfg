SPECIFICATION FairSpec
CONSTANTS
  Clients = {c1, c2}
  NumWatches = 2
  NumRands = 2
  MaxTries = 2
  Incompatible = {c2}
  Repeats = TRUE
  Extras = {"keepAlive", "discover"}
  MaxNonces = 2
  MaxInFlight = 1
  MaxInbox = 1
  Nobody = nobody
INVARIANTS TypeOK TableMatches UserAnswered OpenClientHasUser
PROPERTIES AbandonedSlotFreed ConnectSettles
\* All connects may have ended.
CHECK_DEADLOCK FALSE
