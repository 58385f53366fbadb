SPECIFICATION FairSpec
CONSTANTS
  o1 = o1
  o2 = o2
  c1 = c1
  c2 = c2
  p1 = p1
  Objects = {o1, o2}
  Writable <- FirstIsWritten
  Clients = {c1, c2}
  Processes = {p1}
  NumSubs = 2
  NumAddrs = 1
  NumIds = 2
  NumTransactions = 2
  ApduTimeout = 1
  ApduRetries = 1
  MaxElapsed = 1
  Asked <- ThreeSubscriptions
  Durations = {1}
  None = None
  Shared = Shared
INVARIANTS TransactionsHeld NotifiesSubscriber ChangeIsPending
PROPERTY ChangesAreSent
