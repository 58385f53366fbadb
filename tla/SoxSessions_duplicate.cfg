SPECIFICATION Spec
CONSTANTS
  Clients = {c1, c2}
  NumWatches = 3
  NumRands = 2
  MaxTries = 3
  Incompatible = {}
  Repeats = FALSE
  Extras = {}
  MaxNonces = 4
  MaxInFlight = 1
  MaxInbox = 1
  Nobody = nobody
INVARIANT OneSessionPerClient
\* All connects may have ended.
CHECK_DEADLOCK FALSE
