SPECIFICATION FairSpec
CONSTANTS
  MaxCalls = 2
  Foreign = {2}
  MaxSubs = 2
  Second = 1
  Overlap = 1
  Ahead = 1
  MaxPublish = 1
  Timeout = 1
  MaxDelay = 0
  MaxAge = 2
  LastCall = 1
  MaxTime = 3
  MaxFaults = 2
INVARIANTS
  TypeOK
  ExecutedOnce
  AnswersAreOwn
  NeverDeaf
  QuickCallsHearTheirAnswer
PROPERTY
  ListensAgain
