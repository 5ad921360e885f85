SPECIFICATION Spec
CONSTANTS
  list = list
  send = send
  trash = trash
  search = search
  work = work
  Agents = {a1, a2}
  Accounts = {work}
  Methods <- MCMethods
  OperationType <- MCOperationType
  MethodGroup <- MCMethodGroup
  Docs <- MCDocs
  NoDoc = NoDoc
  NoPolicy = NoPolicy
  NoDecision = NoDecision
  Second = 2
  MaxTime = 3
INVARIANT MigrationKeepsMeaning
