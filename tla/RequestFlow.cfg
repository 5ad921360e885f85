SPECIFICATION FairSpec
CONSTANTS
  Requests = {read, write}
  Reads = {read}
INVARIANTS
  FlowTypeOK
  OncePerEvent
  AuditIsTrue
  RepliesAreTrue
PROPERTIES
  RevokedRunsNothingNew
  EveryRequestAnswered
