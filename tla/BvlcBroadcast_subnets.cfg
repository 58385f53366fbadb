\* A BBMD alone on its subnet, one with another device, and two foreign
\* devices that share the one entry of its table.
SPECIFICATION FairSpec
CONSTANTS
  bbmdA = A
  Devices = {A, B, dev, far1, far2}
  Bbmds = {A, B}
  Foreign = {far1, far2}
  Home <- HomeOf
  UnicastSets = {{}, {A}, {A, B}}
  Tables = {{A, B}}
  Ids = {1}
  MaxFds = 1
  Ttl = 2
  Grace = 2
  MaxDelay = 1
  None = None
INVARIANTS DeliveredOnce CrossesFourLinks ReachesAllDue StaysRegistered
PROPERTY RegisteredAgain
