SPECIFICATION LiveSpec
CONSTANTS
  GetSizes = {0, 2}
  PutSizes = {1, 3}
  NumSlots = 2
  ChunkMod = 16
  Aborts = {"get"}
  MaxTransfers = 3
  MaxEvents = 1
INVARIANTS DoneIsComplete NextIsAccepted
PROPERTY TransferEnds
\* The client may be done with its transfers.
CHECK_DEADLOCK FALSE
