SPECIFICATION FairSpec
CONSTANTS
  SeqMod = 9
  RecvMax = 2
  MaskBits = 3
  AckBits = 3
  Horizon = 4
  WideShift = "wraps"
  NumSlots = 2
  FirstSeq = 7
  RetryTicks = 1
  AgeMod = 4
  MaxTicks = 2
  Lifetime = 4
  MaxMsgs = 4
INVARIANTS WindowMatches SpanBounded UnackedCountsSlots
PROPERTIES ImplementsExactlyOnce EventuallyForgotten
