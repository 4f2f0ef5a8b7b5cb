SPECIFICATION FairSpec
CONSTANTS
  Workers = {w1, w2, w3}
  Grandchildren = {g1, g2}
  NoParent = NoParent
  MaxSlots = 1
  MaxQueue = 2
  MaxEmbedded = 1
  MaxNested = 2
INVARIANTS
  TypeOK
  PoolsSound
PROPERTIES
  NoOvertaking
  AbortedNeverAdmitted
  PoolSpec
  WaiterServed
  DelegateReturns
