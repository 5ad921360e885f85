SPECIFICATION Spec
CONSTANTS
  Requests = {r1}
  PollInterval = 1
  Second = 2
  Settings = {0}
  DefaultTimeout = 2
  MaxAge = 20
  MaxLate = 0
  LastRequest = 0
  MaxTime = 3
  MaxCrashes = 0
INVARIANT AcknowledgedApprovalIsKept
