SPECIFICATION Spec
CONSTANTS
  Requests = {read, write}
  Reads = {read}
INVARIANT EveryRunAudited
