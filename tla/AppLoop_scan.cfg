\* Three services, of which up to three are there; a pass over them fits
\* into the guard time.
SPECIFICATION Spec
CONSTANTS
  Services = {s1, s2, s3}
  ScanPeriod = 5
  GuardTime = 3
  MaxScan = 2
  MaxWork = 1
  MaxLag = 2
  Platforms = {TRUE, FALSE}
  Requests = {"hibernate", "quit", "restart"}
  Null = Null
INVARIANTS
  EveryServiceWorks
  AwakeWhileRunning
  ScanOnTime
PROPERTY
  ScansRecur
