SPECIFICATION Spec
CONSTANTS
  r1 = r1
  h1 = h1
  h2 = h2
  Requests = {}
  Checks = {h1}
  Rotating = TRUE
  Refreshable <- FirstOnly
  Revocable = TRUE
  NoCreds = NoCreds
  NoReply = NoReply
  Refused = Refused
  NoCall = NoCall
  MaxGrants = 2
INVARIANT NetworkErrorsAreTransient
