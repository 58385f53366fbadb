SPECIFICATION UplinkSpec
CONSTANTS
  SeqMod = 14
  RecvMax = 6
  MaskBits = 6
  AckBits = 3
  Horizon = 8
  WideShift = "drops"
  Threads = {t1, t2}
  SendSize = 2
  FirstSeq = 12
  Lifetime = 5
  MaxMsgs = 4
SYMMETRY ThreadSymmetry
INVARIANT ServerWindowMatches
PROPERTY UplinkExactlyOnce
