----------------------------- MODULE McpConnector -----------------------------
(***************************************************************************)
(* The connector of an MCP service (packages/connectors/src/               *)
(* mcp-connector.ts) with its session (packages/mcp-client/src/session.ts).*)
(* One object serves every account and every call of the service at the    *)
(* same time: it holds one access token, one list of methods and one       *)
(* session, and each call overwrites the token with its own before it uses *)
(* the session.                                                            *)
(*                                                                         *)
(* A step runs from one wait for the MCP server (or for the user's         *)
(* decision) to the next.  Names, parameters and results of the tools are  *)
(* left out: a tool is a member of Tools.  The server is external; it runs *)
(* a tool only for a request with a token and a session id, and may refuse *)
(* any request, forget a session or lose an answer.                        *)
(***************************************************************************)
EXTENDS Integers

CONSTANTS
    Calls,       \* the uses of the connector in a behaviour: calls, help requests, start-up
    Accounts,    \* the accounts of the service that are or were connected
    Tools,       \* the tools an agent may ask for
    None,        \* no token, no account, no tool
    MaxSessions  \* bound of the model: session objects, one more per reset()

ASSUME NoneAssumption == None \notin Accounts \cup Tools
ASSUME MaxSessionsAssumption == MaxSessions \in Nat \ {0}

VARIABLES
    token,    \* McpConnector.currentAccessToken, as the account it belongs to
    methods,  \* McpConnector.methods
    current,  \* which session object McpConnector.session is
    session,  \* session[s]: the fields of session object s
    call,     \* call[p]: where use p stands and the locals that outlive its waits
    met,      \* history: the uses that were open at some time since p began to run
    as        \* history: the account under which the server ran the tool of p

vars == <<token, methods, current, session, call, met, as>>

Sessions == 1..MaxSessions

Tokens == Accounts \cup {None}

Session == [id : BOOLEAN,         \* sessionId is set
            fresh : BOOLEAN,      \* initializedAt is less than SESSION_TTL_MS ago
            tools : SUBSET Tools] \* the cached tools

NewSession == [id |-> FALSE, fresh |-> FALSE, tools |-> {}]

InitializePcs == {"initialize", "notify", "list"}

Call == [kind : {"call", "help", "boot"},
         pc : InitializePcs \cup {"new", "look", "asked", "sent", "served", "done", "failed"},
         then : {"ensure", "execute", "boot", "send", "resend"},  \* what waits for initialize()
         account : Tokens,
         tool : Tools \cup {None},
         object : Sessions,       \* the session object the use works with
         carried : Tokens,        \* the token of the request under way
         withId : BOOLEAN]        \* the request under way has a session id

NewCall == [kind |-> "call", pc |-> "new", then |-> "ensure", account |-> None, tool |-> None,
            object |-> 1, carried |-> None, withId |-> FALSE]

TypeOK ==
    /\ token \in Tokens
    /\ methods \in SUBSET Tools
    /\ current \in Sessions
    /\ session \in [Sessions -> Session]
    /\ call \in [Calls -> Call]
    /\ met \in [Calls -> SUBSET Calls]
    /\ as \in [Calls -> Tokens]

Init ==
    /\ token = None
    /\ methods = {}
    /\ current = 1
    /\ session = [s \in Sessions |-> NewSession]
    /\ call = [p \in Calls |-> NewCall]
    /\ met = [p \in Calls |-> {}]
    /\ as = [p \in Calls |-> None]

-------------------------------------------------------------------------------
(* The phase of a use, as ToolContract sees it.                            *)

Running(p) ==
    \/ call[p].pc \in InitializePcs /\ call[p].then \in {"send", "resend"}
    \/ call[p].pc \in {"sent", "served"}

IsOpen(p) == call[p].pc \notin {"new", "look", "done", "failed"}

\* p arrives at the connector, and is met by the calls that run.
Arrives(p) ==
    met' = [q \in Calls |-> IF Running(q) THEN met[q] \cup {p} ELSE met[q]]

\* p begins to run its tool.
StartsRunning(p) == met' = [met EXCEPT ![p] = {q \in Calls : IsOpen(q)}]

-------------------------------------------------------------------------------
(* What the methods below are built from: c is the record of the use, o a  *)
(* session object, tk the token.                                           *)

\* McpSession.initialize() up to its first wait: the token is read, the id
\* of the object is cleared, and the request goes out.
Initializing(c, o, tk, next) ==
    [c EXCEPT !.pc = "initialize", !.then = next, !.object = o, !.carried = tk]

IdCleared(ss, o) == [ss EXCEPT ![o].id = FALSE]

\* The tools/call request of callTool(): token and id are read when it is sent.
Sending(c, o, tk, ss) ==
    [c EXCEPT !.pc = "sent", !.object = o, !.carried = tk, !.withId = ss[o].id]

Ended(c, how) == [c EXCEPT !.pc = how]

\* ConnectorExecutor.execute() after ensureReady(), and McpConnector.execute():
\* the method is looked up again, the token set again, and callTool() asks
\* for a new session when the old one is too old.
Execute(p, ms, ss) ==
    LET c == call[p]
        a == c.account
    IN  /\ methods' = ms
        /\ \/ /\ c.tool \notin ms
              /\ call' = [call EXCEPT ![p] = Ended(c, "failed")]
              /\ session' = ss
              /\ UNCHANGED <<token, met>>
           \/ /\ c.tool \in ms
              /\ token' = a
              /\ StartsRunning(p)
              /\ IF ss[current].fresh
                   THEN /\ call' = [call EXCEPT ![p] = Sending(c, current, a, ss)]
                        /\ session' = ss
                   ELSE /\ call' = [call EXCEPT ![p] = Initializing(c, current, a, "send")]
                        /\ session' = IdCleared(ss, current)

-------------------------------------------------------------------------------
(* The callers.                                                            *)

\* executeServiceMethod(): the credentials are there; ensureReady() sets the
\* token and loads the tools if there are none, and extractPermMetadata()
\* refuses a method that is not listed.
CallArrives(p, a, t) ==
    /\ call[p].pc = "new"
    /\ LET c == [call[p] EXCEPT !.kind = "call", !.account = a, !.tool = t]
       IN  IF methods = {}
             THEN /\ call' = [call EXCEPT ![p] = Initializing(c, current, a, "ensure")]
                  /\ session' = IdCleared(session, current)
             ELSE /\ call' = [call EXCEPT ![p] =
                                 Ended(c, IF t \in methods THEN "asked" ELSE "failed")]
                  /\ UNCHANGED session
    /\ token' = a
    /\ Arrives(p)
    /\ UNCHANGED <<methods, current, as>>

\* help for the service: only a connector without methods is looked after.
HelpAsked(p) ==
    /\ call[p].pc = "new"
    /\ methods = {}
    /\ call' = [call EXCEPT ![p].kind = "help", ![p].pc = "look"]
    /\ UNCHANGED <<token, methods, current, session, met, as>>

\* ... and the first connected account it finds is used for ensureReady().
HelpArrives(p, a) ==
    /\ call[p].pc = "look"
    /\ LET c == [call[p] EXCEPT !.account = a]
       IN  IF methods = {}
             THEN /\ call' = [call EXCEPT ![p] = Initializing(c, current, a, "ensure")]
                  /\ session' = IdCleared(session, current)
             ELSE /\ call' = [call EXCEPT ![p] = Ended(c, "asked")]
                  /\ UNCHANGED session
    /\ token' = a
    /\ Arrives(p)
    /\ UNCHANGED <<methods, current, as>>

\* main() seeds the connector in the background with a stored token.
BootArrives(p, a) ==
    /\ call[p].pc = "new"
    /\ \A q \in Calls : call[q].kind # "boot"
    /\ call' = [call EXCEPT ![p] =
                  Initializing([call[p] EXCEPT !.kind = "boot", !.account = a], current, a, "boot")]
    /\ session' = IdCleared(session, current)
    /\ token' = a
    /\ Arrives(p)
    /\ UNCHANGED <<methods, current, as>>

\* The policy or the user denies the call, or the help text is sent.
Dismissed(p) ==
    /\ call[p].pc = "asked"
    /\ call' = [call EXCEPT ![p] = Ended(call[p], IF call[p].kind = "help" THEN "done" ELSE "failed")]
    /\ UNCHANGED <<token, methods, current, session, met, as>>

\* The call is permitted: ConnectorExecutor.execute() calls ensureReady() again.
Permitted(p) ==
    /\ call[p].pc = "asked"
    /\ call[p].kind = "call"
    /\ IF methods = {}
         THEN /\ call' = [call EXCEPT ![p] =
                             Initializing(call[p], current, call[p].account, "execute")]
              /\ session' = IdCleared(session, current)
              /\ token' = call[p].account
              /\ UNCHANGED <<methods, met>>
         ELSE Execute(p, methods, session)
    /\ UNCHANGED <<current, as>>

\* The last account of the service is disconnected: reset().  Calls that are
\* under way keep the session object they have.
Reset ==
    /\ current < MaxSessions
    /\ token' = None
    /\ methods' = {}
    /\ current' = current + 1
    /\ UNCHANGED <<session, call, met, as>>

-------------------------------------------------------------------------------
(* McpSession.initialize().                                                *)

\* The answer to the initialize request brings a session id.
InitializeAnswered(p) ==
    /\ call[p].pc = "initialize"
    /\ session' = [session EXCEPT ![call[p].object].id = TRUE]
    /\ call' = [call EXCEPT ![p].pc = "notify"]
    /\ UNCHANGED <<token, methods, current, met, as>>

Notified(p) ==
    /\ call[p].pc = "notify"
    /\ call' = [call EXCEPT ![p].pc = "list"]
    /\ UNCHANGED <<token, methods, current, session, met, as>>

\* The tools are there.  Whoever waited for initialize() goes on: only
\* ensureReady() and the start-up build the methods anew, and they take the
\* tools of what is the current session by now.
ToolsListed(p, ts) ==
    LET c  == call[p]
        o  == c.object
        ss == [session EXCEPT ![o].tools = ts, ![o].fresh = TRUE]
        ms == ss[current].tools
    IN  /\ c.pc = "list"
        /\ \/ /\ c.then = "ensure"
              /\ methods' = ms
              /\ session' = ss
              /\ call' = [call EXCEPT ![p] =
                            Ended(c, IF c.kind = "help" \/ c.tool \in ms THEN "asked" ELSE "failed")]
              /\ UNCHANGED <<token, met>>
           \/ /\ c.then = "boot"
              /\ methods' = ms
              /\ session' = ss
              /\ call' = [call EXCEPT ![p] = Ended(c, "done")]
              /\ UNCHANGED <<token, met>>
           \/ /\ c.then = "execute"
              /\ Execute(p, ms, ss)
           \/ /\ c.then \in {"send", "resend"}
              /\ session' = ss
              /\ call' = [call EXCEPT ![p] = Sending(c, o, token, ss)]
              /\ UNCHANGED <<token, methods, met>>
        /\ UNCHANGED <<current, as>>

\* A request of initialize() fails.  The start-up is left with no methods,
\* help goes on without them, a call fails.
InitializeFailed(p) ==
    /\ call[p].pc \in InitializePcs
    /\ methods' = IF call[p].then = "boot" THEN {} ELSE methods
    /\ call' = [call EXCEPT ![p] = Ended(call[p], IF call[p].kind = "call" THEN "failed" ELSE "done")]
    /\ UNCHANGED <<token, current, session, met, as>>

\* SESSION_TTL_MS after initialize().
Expire(s) ==
    /\ session[s].fresh
    /\ session' = [session EXCEPT ![s].fresh = FALSE]
    /\ UNCHANGED <<token, methods, current, call, met, as>>

-------------------------------------------------------------------------------
(* The request of McpSession.callTool().                                   *)

\* The server runs the tool, under the account of the token it was sent.
Serve(p) ==
    /\ call[p].pc = "sent"
    /\ call[p].carried # None
    /\ call[p].withId
    /\ as' = [as EXCEPT ![p] = call[p].carried]
    /\ call' = [call EXCEPT ![p].pc = "served"]
    /\ UNCHANGED <<token, methods, current, session, met>>

Answered(p) ==
    /\ call[p].pc = "served"
    /\ call' = [call EXCEPT ![p] = Ended(call[p], "done")]
    /\ UNCHANGED <<token, methods, current, session, met, as>>

\* A retry on any error, also when the tool has run.
RetriesOnAnyError(c) == c.pc \in {"sent", "served"} /\ c.then # "resend"

\* "Session not found": callTool() makes a new session and sends once more;
\* the token of the second request is the connector's by then.
RetriesOn(c) == c.pc = "sent" /\ c.then # "resend"

SessionLost(p) ==
    /\ RetriesOn(call[p])
    /\ call' = [call EXCEPT ![p] = Initializing(call[p], call[p].object, token, "resend")]
    /\ session' = IdCleared(session, call[p].object)
    /\ UNCHANGED <<token, methods, current, met, as>>

\* Any other error, before or after the tool ran, is thrown.
CallFailed(p) ==
    /\ call[p].pc \in {"sent", "served"}
    /\ call' = [call EXCEPT ![p] = Ended(call[p], "failed")]
    /\ UNCHANGED <<token, methods, current, session, met, as>>

-------------------------------------------------------------------------------

Next ==
    \/ Reset
    \/ \E s \in Sessions : Expire(s)
    \/ \E p \in Calls :
         \/ \E a \in Accounts, t \in Tools : CallArrives(p, a, t)
         \/ \E a \in Accounts : HelpArrives(p, a) \/ BootArrives(p, a)
         \/ HelpAsked(p) \/ Dismissed(p) \/ Permitted(p)
         \/ InitializeAnswered(p) \/ Notified(p) \/ InitializeFailed(p)
         \/ \E ts \in SUBSET Tools : ToolsListed(p, ts)
         \/ Serve(p) \/ Answered(p) \/ SessionLost(p) \/ CallFailed(p)

Spec == Init /\ [][Next]_vars

-------------------------------------------------------------------------------

\* How far a use has come, in the words of ToolContract.
Phase(p) ==
    IF Running(p) THEN "running"
    ELSE IF IsOpen(p) THEN "open"
    ELSE IF call[p].pc = "look" THEN "new"
    ELSE call[p].pc

Contract == INSTANCE ToolContract
    WITH phase   <- [p \in Calls |-> Phase(p)],
         account <- [p \in Calls |-> call[p].account]

\* A tool runs only for a call that was permitted, at most once however often
\* the request is sent again, under the account of a call that overlapped
\* it; and a result is reported only for a tool that ran
\* (mcp-connector.ts:170-194, session.ts:117-158).
ImplementsToolContract == Contract!Spec
===============================================================================
