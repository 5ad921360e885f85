SPECIFICATION FairSpec
CONSTANTS
  Requests = {r1}
  PollInterval = 1
  Second = 2
  Settings = {0, 1, 3}
  DefaultTimeout = 4
  MaxAge = 4
  MaxLate = 1
  LastRequest = 1
  MaxTime = 8
  MaxCrashes = 2
INVARIANTS
  TypeOK
  GrantedAsAnswered
  OnlyLastSleepIsLost
  NoLeakedFile
PROPERTIES
  NoEarlyTimeout
  ImplementsContract
  EveryCallEnds
  NoRowPendingForever
