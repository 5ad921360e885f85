SPECIFICATION Spec
CONSTANTS
  c1 = c1
  c2 = c2
  n1 = n1
  n2 = n2
  k1 = k1
  k2 = k2
  u1 = u1
  u2 = u2
  a1 = a1
  Codes = {c1, c2}
  Names = {n1, n2}
  Keys = {k1, k2}
  Clients = {u1, u2}
  Accounts = {a1}
  NoCode = NoCode
  NoName = NoName
  NoKey = NoKey
  Lifetime = 1
  MaxTime = 2
SYMMETRY Symmetry
INVARIANTS
  TypeOK
  SubscriptionIsCurrent
  AnswersAgree
  ClientsAreKnown
  DefaultsComplete
  
