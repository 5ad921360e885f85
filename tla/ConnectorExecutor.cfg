SPECIFICATION ExecutorSpec
CONSTANTS
    Calls = {p1, p2}
    Accounts = {a1, a2}
    Tools = {t1}
    None = None
    MaxSessions = 2
    Policies <- MCPolicies
    Nothing = Nothing
    McpService = mcp
INVARIANTS
    ExecutorTypeOK
    SentAsDecided
    OnlyPermittedChanges
    OneErrorLanguage
PROPERTY
    ImplementsToolContract
CHECK_DEADLOCK FALSE
