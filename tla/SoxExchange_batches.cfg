\* Two threads of one SoxClient send batches larger than the send window
\* over two sessions.
SPECIFICATION FairSpec
CONSTANTS
  Threads = {t1, t2}
  Clients = {c}
  ClientOf <- OneClient
  BatchSize = 2
  SendMax = 1
  QueueMax = 2
  MaxBatches = 3
  MaxEvents = 1
  MaxSessions = 2
  LateReceivers = FALSE
  Null = Null
INVARIANTS
  ResponsesMatch
  OneBatchOutstanding
PROPERTY
  RequestSettles
\* The sessions and batches of the bounds may be used up.
CHECK_DEADLOCK FALSE
