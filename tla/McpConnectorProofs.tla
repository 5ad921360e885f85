--------------------------- MODULE McpConnectorProofs ---------------------------
(***************************************************************************)
(* Theorems about McpConnector, for any number of calls, accounts, tools   *)
(* and session objects: its types, and that it implements ToolContract.    *)
(***************************************************************************)
EXTENDS McpConnector, TLAPS

\* Only a call runs a tool, and a use that has not arrived waits for nothing.
OnlyCallsRun ==
    \A p \in Calls :
       /\ call[p].then \in {"execute", "send", "resend"} => call[p].kind = "call"
       /\ call[p].pc \in {"sent", "served"} => call[p].kind = "call"
       /\ call[p].pc \in {"new", "look"} => call[p].then = "ensure"

\* A call that runs has met every open use, and each use it met has arrived.
MeetsAll ==
    \A p, q \in Calls :
       /\ Running(p) /\ IsOpen(q) => q \in met[p]
       /\ q \in met[p] => call[q].pc \notin {"new", "look"}

\* MetAccount(p, a): a is no account, or that of a use which p met.
MetAccount(p, a) == a = None \/ \E q \in met[p] : a = call[q].account

\* The token that a running call has sent, or will read, belongs to a use
\* that it met.
TokenIsMet ==
    \A p \in Calls :
       /\ Running(p) => MetAccount(p, token)
       /\ call[p].pc = "sent" => MetAccount(p, call[p].carried)

\* The tool ran neither before nor after the one request that was served.
RunsOnce ==
    \A p \in Calls :
       /\ call[p].pc \notin {"served", "done", "failed"} => as[p] = None
       /\ call[p].pc = "served" => as[p] # None

IInv == TypeOK /\ OnlyCallsRun /\ MeetsAll /\ TokenIsMet /\ RunsOnce

-------------------------------------------------------------------------------
(* Types: first those of the records and functions the actions are built   *)
(* from.                                                                   *)

Nexts == {"ensure", "execute", "boot", "send", "resend"}

LEMMA InitializingType ==
  ASSUME NEW c \in Call, NEW o \in Sessions, NEW tk \in Tokens, NEW t \in Nexts
  PROVE  Initializing(c, o, tk, t) \in Call
BY DEF Initializing, Call, InitializePcs, Nexts

LEMMA SendingType ==
  ASSUME NEW c \in Call, NEW o \in Sessions, NEW tk \in Tokens, NEW ss \in [Sessions -> Session]
  PROVE  Sending(c, o, tk, ss) \in Call
<1>1. ss[o].id \in BOOLEAN
  BY DEF Session
<1> QED
  BY <1>1 DEF Sending, Call, InitializePcs

LEMMA PcType ==
  ASSUME NEW c \in Call, NEW x \in {"look", "asked", "done", "failed", "notify", "list", "served"}
  PROVE  /\ [c EXCEPT !.pc = x] \in Call
         /\ Ended(c, x) \in Call
BY DEF Call, InitializePcs, Ended

LEMMA ArrivalType ==
  ASSUME NEW c \in Call, NEW k \in {"call", "help", "boot"}, NEW a \in Tokens, NEW t \in Tools
  PROVE  /\ [c EXCEPT !.kind = k, !.account = a, !.tool = t] \in Call
         /\ [c EXCEPT !.kind = k, !.account = a] \in Call
         /\ [c EXCEPT !.account = a] \in Call
BY DEF Call

LEMMA FieldTypes ==
  ASSUME NEW c \in Call
  PROVE  /\ c.account \in Tokens /\ c.carried \in Tokens /\ c.object \in Sessions
         /\ c.tool \in Tools \cup {None} /\ c.then \in Nexts
BY DEF Call, Nexts

LEMMA SessionType ==
  ASSUME NEW ss \in [Sessions -> Session], NEW o \in Sessions, NEW b \in BOOLEAN,
         NEW ts \in SUBSET Tools
  PROVE  /\ [ss EXCEPT ![o].id = b] \in [Sessions -> Session]
         /\ IdCleared(ss, o) \in [Sessions -> Session]
         /\ [ss EXCEPT ![o].fresh = b] \in [Sessions -> Session]
         /\ [ss EXCEPT ![o].tools = ts, ![o].fresh = TRUE] \in [Sessions -> Session]
         /\ ss[o].tools \in SUBSET Tools
BY DEF IdCleared, Session

LEMMA TypeInit == Init => TypeOK
<1>1. NewCall \in Call
  BY MaxSessionsAssumption DEF NewCall, Call, Sessions, Tokens, InitializePcs
<1> QED
  BY <1>1, MaxSessionsAssumption DEF Init, TypeOK, Sessions, Session, NewSession, Tokens

\* The second half of a permitted call keeps the types, whatever methods and
\* session objects it is given.
LEMMA ExecuteType ==
  ASSUME TypeOK, NEW p \in Calls, UNCHANGED <<current, as>>,
         NEW ms \in SUBSET Tools, NEW ss \in [Sessions -> Session], Execute(p, ms, ss)
  PROVE  TypeOK'
<1> USE DEF TypeOK
<1>1. call[p] \in Call /\ call[p].account \in Tokens
  BY FieldTypes
<1>2. CASE call[p].tool \notin ms
  BY <1>1, <1>2, PcType DEF Execute
<1>3. CASE call[p].tool \in ms
  <2>1. /\ Sending(call[p], current, call[p].account, ss) \in Call
        /\ Initializing(call[p], current, call[p].account, "send") \in Call
        /\ IdCleared(ss, current) \in [Sessions -> Session]
    BY <1>1, SendingType, InitializingType, SessionType DEF Nexts
  <2>2. met' \in [Calls -> SUBSET Calls]
    BY <1>3 DEF Execute, StartsRunning
  <2> QED
    BY <1>1, <1>3, <2>1, <2>2 DEF Execute
<1> QED
  BY <1>2, <1>3

\* Every step preserves the types.
LEMMA TypeInductive ==
  ASSUME TypeOK, [Next]_vars
  PROVE  TypeOK'
<1> USE DEF TypeOK
<1>a. Accounts \subseteq Tokens /\ None \in Tokens
  BY DEF Tokens
<1>f. \A p \in Calls : /\ call[p] \in Call /\ call[p].account \in Tokens
                       /\ call[p].object \in Sessions /\ call[p].then \in Nexts
  BY FieldTypes
<1>i. \A p \in Calls, o \in Sessions, tk \in Tokens, t \in Nexts :
        Initializing(call[p], o, tk, t) \in Call
  BY InitializingType
<1>s. \A o \in Sessions : IdCleared(session, o) \in [Sessions -> Session]
  BY SessionType
<1>1. ASSUME NEW p \in Calls, NEW a \in Accounts, NEW t \in Tools, CallArrives(p, a, t)
      PROVE  TypeOK'
  <2> DEFINE c == [call[p] EXCEPT !.kind = "call", !.account = a, !.tool = t]
  <2>1. c \in Call
    BY <1>a, ArrivalType
  <2> HIDE DEF c
  <2>2. /\ Initializing(c, current, a, "ensure") \in Call
        /\ Ended(c, "asked") \in Call /\ Ended(c, "failed") \in Call
    BY <1>a, <2>1, InitializingType, PcType DEF Nexts
  <2>3. met' \in [Calls -> SUBSET Calls]
    BY <1>1 DEF CallArrives, Arrives
  <2> QED
    BY <1>1, <1>a, <1>s, <2>2, <2>3 DEF CallArrives, c
<1>2. ASSUME NEW p \in Calls, NEW a \in Accounts, HelpArrives(p, a)
      PROVE  TypeOK'
  <2> DEFINE c == [call[p] EXCEPT !.account = a]
  <2>1. c \in Call
    BY <1>a DEF Call
  <2> HIDE DEF c
  <2>2. Initializing(c, current, a, "ensure") \in Call /\ Ended(c, "asked") \in Call
    BY <1>a, <2>1, InitializingType, PcType DEF Nexts
  <2>3. met' \in [Calls -> SUBSET Calls]
    BY <1>2 DEF HelpArrives, Arrives
  <2> QED
    BY <1>2, <1>a, <1>s, <2>2, <2>3 DEF HelpArrives, c
<1>3. ASSUME NEW p \in Calls, NEW a \in Accounts, BootArrives(p, a)
      PROVE  TypeOK'
  <2> DEFINE c == [call[p] EXCEPT !.kind = "boot", !.account = a]
  <2>1. c \in Call
    BY <1>a DEF Call
  <2> HIDE DEF c
  <2>2. Initializing(c, current, a, "boot") \in Call
    BY <1>a, <2>1, InitializingType DEF Nexts
  <2>3. met' \in [Calls -> SUBSET Calls]
    BY <1>3 DEF BootArrives, Arrives
  <2> QED
    BY <1>3, <1>a, <1>s, <2>2, <2>3 DEF BootArrives, c
<1>4. ASSUME NEW p \in Calls, HelpAsked(p) \/ Dismissed(p)
      PROVE  TypeOK'
  <2>1. [call[p] EXCEPT !.kind = "help", !.pc = "look"] \in Call
    BY DEF Call
  <2>2. Ended(call[p], "done") \in Call /\ Ended(call[p], "failed") \in Call
    BY <1>f, PcType
  <2> QED
    BY <1>4, <2>1, <2>2 DEF HelpAsked, Dismissed
<1>5. ASSUME NEW p \in Calls, Permitted(p)
      PROVE  TypeOK'
  <2>1. CASE methods = {}
    <3>1. /\ Initializing(call[p], current, call[p].account, "execute") \in Call
          /\ IdCleared(session, current) \in [Sessions -> Session]
      BY <1>i, <1>s, <1>f DEF Nexts
    <3> QED
      BY <1>5, <1>f, <2>1, <3>1 DEF Permitted
  <2>2. CASE methods # {}
    BY <1>5, <2>2, ExecuteType DEF Permitted
  <2> QED
    BY <2>1, <2>2
<1>6. ASSUME Reset
      PROVE  TypeOK'
  <2>1. current' \in Sessions
    BY <1>6, MaxSessionsAssumption DEF Reset, Sessions
  <2> QED
    BY <1>6, <1>a, <2>1 DEF Reset
<1>7. ASSUME NEW s \in Sessions, Expire(s)
      PROVE  TypeOK'
  BY <1>7, SessionType DEF Expire
<1>8. ASSUME NEW p \in Calls, InitializeAnswered(p) \/ Notified(p) \/ InitializeFailed(p)
      PROVE  TypeOK'
  <2>1. /\ [call[p] EXCEPT !.pc = "notify"] \in Call
        /\ [call[p] EXCEPT !.pc = "list"] \in Call
        /\ Ended(call[p], "done") \in Call /\ Ended(call[p], "failed") \in Call
    BY <1>f, PcType
  <2>2. [session EXCEPT ![call[p].object].id = TRUE] \in [Sessions -> Session]
    BY <1>f, SessionType
  <2> QED
    BY <1>8, <2>1, <2>2 DEF InitializeAnswered, Notified, InitializeFailed
<1>9. ASSUME NEW p \in Calls, NEW ts \in SUBSET Tools, ToolsListed(p, ts)
      PROVE  TypeOK'
  <2> DEFINE ss == [session EXCEPT ![call[p].object].tools = ts, ![call[p].object].fresh = TRUE]
             ms == ss[current].tools
  <2>1. ss \in [Sessions -> Session]
    BY <1>f, SessionType
  <2> HIDE DEF ss
  <2>2. ms \in SUBSET Tools
    BY <2>1, SessionType
  <2> HIDE DEF ms
  <2>3. /\ Ended(call[p], "asked") \in Call
        /\ Ended(call[p], "done") \in Call /\ Ended(call[p], "failed") \in Call
        /\ Sending(call[p], call[p].object, token, ss) \in Call
    BY <1>f, <2>1, PcType, SendingType
  <2>4. CASE call[p].then \in {"ensure", "boot"}
    BY <1>9, <2>1, <2>2, <2>3, <2>4 DEF ToolsListed, ss, ms
  <2>5. CASE call[p].then = "execute"
    <3>1. Execute(p, ms, ss) /\ UNCHANGED <<current, as>>
      BY <1>9, <2>5 DEF ToolsListed, ss, ms
    <3> QED
      BY <2>1, <2>2, <3>1, ExecuteType
  <2>6. CASE call[p].then \in {"send", "resend"}
    BY <1>9, <2>1, <2>3, <2>6 DEF ToolsListed, ss
  <2> QED
    BY <1>f, <2>4, <2>5, <2>6 DEF Nexts
<1>10. ASSUME NEW p \in Calls, Serve(p) \/ Answered(p) \/ SessionLost(p) \/ CallFailed(p)
       PROVE  TypeOK'
  <2>1. /\ [call[p] EXCEPT !.pc = "served"] \in Call
        /\ Ended(call[p], "done") \in Call /\ Ended(call[p], "failed") \in Call
    BY <1>f, PcType
  <2>2. CASE Serve(p)
    <3>1. call[p].carried \in Tokens
      BY <1>f, FieldTypes
    <3> QED
      BY <2>1, <2>2, <3>1 DEF Serve
  <2>3. CASE Answered(p) \/ CallFailed(p)
    BY <2>1, <2>3 DEF Answered, CallFailed
  <2>4. CASE SessionLost(p)
    <3>1. /\ Initializing(call[p], call[p].object, token, "resend") \in Call
          /\ IdCleared(session, call[p].object) \in [Sessions -> Session]
      BY <1>i, <1>s, <1>f DEF Nexts
    <3> QED
      BY <2>4, <3>1 DEF SessionLost
  <2> QED
    BY <1>10, <2>2, <2>3, <2>4
<1>11. ASSUME UNCHANGED vars
       PROVE  TypeOK'
  BY <1>11 DEF vars
<1> QED
  BY <1>1, <1>2, <1>3, <1>4, <1>5, <1>6, <1>7, <1>8, <1>9, <1>10, <1>11 DEF Next

\* Whatever steps are taken, the variables keep their types: the token, the
\* list of methods, the session objects and the calls of the connector
\* (mcp-connector.ts:32-54, session.ts:15-29).
THEOREM McpTypeCorrect == Spec => []TypeOK
BY TypeInit, TypeInductive, PTL DEF Spec

-------------------------------------------------------------------------------
(* The inductive invariant.  A use that changes without arriving, and      *)
(* without beginning to run, is one case; each of the other two is one.    *)

LEMMA InvInit == Init => IInv
<1> SUFFICES ASSUME Init PROVE IInv
  OBVIOUS
<1>1. TypeOK
  BY TypeInit
<1>2. OnlyCallsRun /\ RunsOnce
  BY DEF Init, OnlyCallsRun, RunsOnce, NewCall
<1>3. MeetsAll /\ TokenIsMet
  BY DEF Init, MeetsAll, TokenIsMet, MetAccount, Running, NewCall, InitializePcs
<1> QED
  BY <1>1, <1>2, <1>3 DEF IInv

\* A step of p alone, in the words of the invariant: p does not arrive and
\* begins no run; the token stays, is taken away or becomes that of an open
\* use; the account under which the tool ran is written when it is served.
LEMMA StepInv ==
  ASSUME IInv, TypeOK', NEW p \in Calls, NEW c,
         call' = [call EXCEPT ![p] = c],
         met' = met, \A q \in Calls \ {p} : as'[q] = as[q],
         c.pc \in {"new", "look"} => call[p].pc \in {"new", "look"} /\ c.then = "ensure",
         c.account = call[p].account,
         Running(p)' => Running(p),
         IsOpen(p)' => IsOpen(p),
         token' \in {token, None} \/ \E q \in Calls : IsOpen(q) /\ token' = call[q].account,
         c.then \in {"execute", "send", "resend"} => c.kind = "call",
         c.pc \in {"sent", "served"} => c.kind = "call",
         c.pc = "sent" => c.carried = token,
         \/ /\ as' = as
            /\ \/ c.pc \in {"served", "done", "failed"}
               \/ call[p].pc \notin {"served", "done", "failed"}
            /\ c.pc # "served"
         \/ c.pc = "served" /\ as'[p] # None
  PROVE  IInv'
<1> USE DEF IInv
<1>1. /\ call'[p] = c
      /\ \A q \in Calls \ {p} : call'[q] = call[q]
      /\ \A q \in Calls : call'[q].account = call[q].account
  BY DEF TypeOK
<1>2. \A q \in Calls : /\ Running(q)' => Running(q)
                       /\ IsOpen(q)' => IsOpen(q)
  BY <1>1 DEF Running, IsOpen
<1>3. OnlyCallsRun'
  BY <1>1 DEF OnlyCallsRun
<1>4. MeetsAll'
  BY <1>1, <1>2 DEF MeetsAll
<1>5. RunsOnce'
  BY <1>1 DEF RunsOnce
<1>6. \A q \in Calls : \A a : MetAccount(q, a) => MetAccount(q, a)'
  BY <1>1 DEF MetAccount, TypeOK
<1>7. \A q \in Calls : Running(q) => MetAccount(q, token')
  BY DEF MeetsAll, TokenIsMet, MetAccount
<1>8. TokenIsMet'
  BY <1>1, <1>2, <1>6, <1>7 DEF TokenIsMet, Running
<1> QED
  BY <1>3, <1>4, <1>5, <1>8

\* p arrives with a token of its own; every running call meets it.
LEMMA ArriveInv ==
  ASSUME IInv, TypeOK', NEW p \in Calls, NEW c,
         call' = [call EXCEPT ![p] = c], Arrives(p), as' = as, token' = c.account,
         call[p].pc \in {"new", "look"}, c.pc \in {"initialize", "asked", "failed"},
         c.then \in {"ensure", "boot"}
  PROVE  IInv'
<1> USE DEF IInv
<1>1. /\ call'[p] = c
      /\ \A q \in Calls \ {p} : call'[q] = call[q]
      /\ \A q \in Calls : met'[q] = IF Running(q) THEN met[q] \cup {p} ELSE met[q]
      /\ \A q \in Calls : p \notin met[q] /\ met[q] \subseteq Calls
      /\ ~Running(p) /\ ~Running(p)'
  BY DEF TypeOK, Arrives, MeetsAll, Running, InitializePcs
<1>2. \A q \in Calls : Running(q)' => Running(q)
  BY <1>1 DEF Running
<1>3. OnlyCallsRun' /\ RunsOnce'
  BY <1>1 DEF OnlyCallsRun, RunsOnce
<1>4. MeetsAll'
  <2>1. ASSUME NEW q \in Calls, NEW o \in Calls, Running(q)', IsOpen(o)'
        PROVE  o \in met'[q]
    BY <1>1, <1>2, <2>1 DEF MeetsAll, IsOpen
  <2>2. ASSUME NEW q \in Calls, NEW o \in Calls, o \in met'[q]
        PROVE  call'[o].pc \notin {"new", "look"}
    <3>1. met'[q] \subseteq met[q] \cup {p}
      BY <1>1
    <3>2. CASE o = p
      BY <1>1, <3>2
    <3>3. CASE o # p
      BY <1>1, <2>2, <3>1, <3>3 DEF MeetsAll
    <3> QED
      BY <3>2, <3>3
  <2> QED
    BY <2>1, <2>2 DEF MeetsAll
<1>5. \A q \in Calls : \A a : MetAccount(q, a) => MetAccount(q, a)'
  BY <1>1 DEF MetAccount
<1>6. \A q \in Calls : Running(q)' => MetAccount(q, token)'
  BY <1>1, <1>2 DEF MetAccount
<1>7. \A q \in Calls : call'[q].pc = "sent" => MetAccount(q, call[q].carried)'
  BY <1>1, <1>5 DEF TokenIsMet
<1>8. TokenIsMet'
  BY <1>1, <1>6, <1>7 DEF TokenIsMet, MetAccount
<1> QED
  BY <1>3, <1>4, <1>8

\* p begins to run, with its own token; it meets every open use, and all the
\* calls that run have met p before.
LEMMA StartInv ==
  ASSUME IInv, TypeOK', NEW p \in Calls, NEW c,
         call' = [call EXCEPT ![p] = c], StartsRunning(p), as' = as,
         token' = call[p].account,
         IsOpen(p), ~Running(p), call[p].kind = "call", c.kind = "call",
         c.account = call[p].account, c.pc \in {"initialize", "sent"},
         call[p].pc # "served",
         c.pc = "sent" => c.carried = call[p].account
  PROVE  IInv'
<1> USE DEF IInv
<1>1. /\ call'[p] = c
      /\ \A q \in Calls \ {p} : call'[q] = call[q] /\ met'[q] = met[q]
      /\ met'[p] = {q \in Calls : IsOpen(q)}
      /\ \A q \in Calls : call'[q].account = call[q].account
  BY DEF TypeOK, StartsRunning
<1>2. \A q \in Calls \ {p} : (Running(q)' <=> Running(q)) /\ (IsOpen(q)' <=> IsOpen(q))
  BY <1>1 DEF Running, IsOpen
<1>3. OnlyCallsRun' /\ RunsOnce'
  BY <1>1 DEF OnlyCallsRun, RunsOnce, IsOpen
<1>4. MeetsAll'
  <2>1. ASSUME NEW q \in Calls, NEW o \in Calls, Running(q)', IsOpen(o)'
        PROVE  o \in met'[q]
    BY <1>1, <1>2, <2>1 DEF MeetsAll
  <2>2. ASSUME NEW q \in Calls, NEW o \in Calls, o \in met'[q]
        PROVE  call'[o].pc \notin {"new", "look"}
    BY <1>1, <2>2 DEF MeetsAll, IsOpen
  <2> QED
    BY <2>1, <2>2 DEF MeetsAll
<1>5. \A q \in Calls : Running(q)' => MetAccount(q, token)'
  BY <1>1, <1>2 DEF MetAccount, MeetsAll
<1>6. \A q \in Calls : call'[q].pc = "sent" => MetAccount(q, call[q].carried)'
  BY <1>1 DEF TokenIsMet, MetAccount
<1>7. TokenIsMet'
  BY <1>5, <1>6 DEF TokenIsMet, MetAccount
<1> QED
  BY <1>3, <1>4, <1>7

\* The second half of a permitted call.
LEMMA ExecuteInv ==
  ASSUME IInv, TypeOK', NEW p \in Calls, NEW ms, NEW ss, Execute(p, ms, ss),
         UNCHANGED <<current, as>>,
         call[p].kind = "call", ~Running(p), IsOpen(p)
  PROVE  IInv'
<1>1. CASE call[p].tool \notin ms
  <2> DEFINE c == Ended(call[p], "failed")
  <2>1. /\ c.pc = "failed" /\ c.account = call[p].account /\ c.kind = call[p].kind
        /\ call' = [call EXCEPT ![p] = c] /\ UNCHANGED <<token, met, as>>
    BY <1>1, FieldTypes DEF Execute, Ended, IInv, TypeOK, Call
  <2>2. ~IsOpen(p)' /\ ~Running(p)'
    BY <2>1 DEF IsOpen, Running, IInv, TypeOK, InitializePcs
  <2> HIDE DEF c
  <2> QED
    BY <2>1, <2>2, StepInv DEF IsOpen
<1>2. CASE call[p].tool \in ms
  <2> DEFINE c == IF ss[current].fresh THEN Sending(call[p], current, call[p].account, ss)
                  ELSE Initializing(call[p], current, call[p].account, "send")
  <2>1. /\ call' = [call EXCEPT ![p] = c] /\ StartsRunning(p) /\ token' = call[p].account
        /\ as' = as
    BY <1>2 DEF Execute
  <2>2. /\ c.kind = "call" /\ c.account = call[p].account /\ c.pc \in {"initialize", "sent"}
        /\ c.carried = call[p].account
    BY DEF Sending, Initializing, IInv, TypeOK, Call
  <2> HIDE DEF c
  <2>3. call[p].pc # "served"
    BY DEF Running
  <2> QED
    BY <2>1, <2>2, <2>3, StartInv
<1> QED
  BY <1>1, <1>2

\* Every step preserves the inductive invariant.
LEMMA InvInductive ==
  ASSUME IInv, [Next]_vars
  PROVE  IInv'
<1>t. TypeOK'
  BY TypeInductive DEF IInv
<1>f. \A p \in Calls : call[p] \in Call
  BY DEF IInv, TypeOK
<1>1. ASSUME NEW p \in Calls, NEW a \in Accounts, NEW t \in Tools, CallArrives(p, a, t)
      PROVE  IInv'
  <2> DEFINE d == [call[p] EXCEPT !.kind = "call", !.account = a, !.tool = t]
             c == IF methods = {} THEN Initializing(d, current, a, "ensure")
                  ELSE Ended(d, IF t \in methods THEN "asked" ELSE "failed")
  <2>1. call' = [call EXCEPT ![p] = c] /\ Arrives(p) /\ as' = as /\ token' = a /\ call[p].pc = "new"
    BY <1>1 DEF CallArrives
  <2>2. call[p].then = "ensure"
    BY <2>1 DEF IInv, OnlyCallsRun
  <2>3. /\ c.pc \in {"initialize", "asked", "failed"}
        /\ c.then = "ensure" /\ c.account = a
    BY <1>f, <2>2 DEF Initializing, Ended, Call
  <2> HIDE DEF c
  <2> QED
    BY <1>t, <2>1, <2>3, ArriveInv
<1>2. ASSUME NEW p \in Calls, NEW a \in Accounts, HelpArrives(p, a)
      PROVE  IInv'
  <2> DEFINE d == [call[p] EXCEPT !.account = a]
             c == IF methods = {} THEN Initializing(d, current, a, "ensure") ELSE Ended(d, "asked")
  <2>1. /\ call' = [call EXCEPT ![p] = c] /\ Arrives(p) /\ as' = as
        /\ token' = a /\ call[p].pc = "look"
    BY <1>2 DEF HelpArrives
  <2>2. call[p].then = "ensure"
    BY <2>1 DEF IInv, OnlyCallsRun
  <2>3. /\ c.pc \in {"initialize", "asked", "failed"}
        /\ c.then = "ensure" /\ c.account = a
    BY <1>f, <2>2 DEF Initializing, Ended, Call
  <2> HIDE DEF c
  <2> QED
    BY <1>t, <2>1, <2>3, ArriveInv
<1>3. ASSUME NEW p \in Calls, NEW a \in Accounts, BootArrives(p, a)
      PROVE  IInv'
  <2> DEFINE c == Initializing([call[p] EXCEPT !.kind = "boot", !.account = a], current, a, "boot")
  <2>1. call' = [call EXCEPT ![p] = c] /\ Arrives(p) /\ as' = as /\ token' = a /\ call[p].pc = "new"
    BY <1>3 DEF BootArrives
  <2>2. c.pc = "initialize" /\ c.then = "boot" /\ c.account = a
    BY <1>f DEF Initializing, Call
  <2> HIDE DEF c
  <2> QED
    BY <1>t, <2>1, <2>2, ArriveInv
<1>4. ASSUME NEW p \in Calls, HelpAsked(p)
      PROVE  IInv'
  <2> DEFINE c == [call[p] EXCEPT !.kind = "help", !.pc = "look"]
  <2>1. /\ call' = [call EXCEPT ![p] = c]
        /\ UNCHANGED <<token, met, as>> /\ call[p].pc = "new" /\ call[p].then = "ensure"
    BY <1>4 DEF HelpAsked, IInv, OnlyCallsRun
  <2>2. c.pc = "look" /\ c.then = call[p].then /\ c.account = call[p].account
    BY <1>f DEF Call
  <2> HIDE DEF c
  <2>3. call'[p] = c
    BY <2>1 DEF IInv, TypeOK
  <2>4. ~Running(p)' /\ ~IsOpen(p)'
    BY <2>2, <2>3 DEF Running, IsOpen, InitializePcs
  <2> QED
    BY <1>t, <2>1, <2>2, <2>4, StepInv
<1>5. ASSUME NEW p \in Calls, Permitted(p)
      PROVE  IInv'
  <2>1. ~Running(p) /\ IsOpen(p)
    BY <1>5 DEF Permitted, Running, IsOpen, InitializePcs
  <2>2. CASE methods = {}
    <3> DEFINE c == Initializing(call[p], current, call[p].account, "execute")
    <3>1. /\ call' = [call EXCEPT ![p] = c] /\ met' = met /\ as' = as
          /\ token' = call[p].account /\ call[p].kind = "call" /\ call[p].pc = "asked"
      BY <1>5, <2>2 DEF Permitted
    <3>2. /\ c.pc = "initialize" /\ c.then = "execute"
          /\ c.account = call[p].account /\ c.kind = call[p].kind
      BY <1>f DEF Initializing, Call
    <3>3. ~Running(p)'
      BY <3>1, <3>2 DEF Running, IInv, TypeOK
    <3> HIDE DEF c
    <3> QED
      BY <1>t, <2>1, <3>1, <3>2, <3>3, StepInv
  <2>3. CASE methods # {}
    BY <1>5, <1>t, <2>1, <2>3, ExecuteInv DEF Permitted
  <2> QED
    BY <2>2, <2>3
<1>6. ASSUME UNCHANGED <<call, met, as>>, token' \in {token, None}
      PROVE  IInv'
  BY <1>t, <1>6 DEF IInv, OnlyCallsRun, MeetsAll, RunsOnce, TokenIsMet, MetAccount, Running, IsOpen
<1>7. ASSUME NEW p \in Calls,
             \/ Dismissed(p) \/ InitializeAnswered(p) \/ Notified(p) \/ InitializeFailed(p)
             \/ Answered(p) \/ CallFailed(p)
      PROVE  IInv'
  <2>1. PICK x \in {"notify", "list", "done", "failed"} :
          /\ call' = [call EXCEPT ![p] = [call[p] EXCEPT !.pc = x]]
          /\ x \in {"notify", "list"} => call[p].pc \in InitializePcs
    BY <1>7 DEF Dismissed, InitializeAnswered, Notified, InitializeFailed, Answered,
       CallFailed, Ended, InitializePcs
  <2>2. /\ UNCHANGED <<token, met, as>>
        /\ call[p].pc \notin {"new", "look"}
    BY <1>7 DEF Dismissed, InitializeAnswered, Notified, InitializeFailed, Answered,
       CallFailed, InitializePcs
  <2> DEFINE c == [call[p] EXCEPT !.pc = x]
  <2>3. c.pc = x /\ c.then = call[p].then /\ c.account = call[p].account /\ c.kind = call[p].kind
    BY <1>f DEF Call
  <2>4. call' = [call EXCEPT ![p] = c] /\ call'[p] = c
    BY <2>1 DEF IInv, TypeOK
  <2> HIDE DEF c
  <2>5. (Running(p)' => Running(p)) /\ (IsOpen(p)' => IsOpen(p))
    BY <2>1, <2>3, <2>4 DEF Running, IsOpen, InitializePcs
  <2>6. c.then \in {"execute", "send", "resend"} => c.kind = "call"
    BY <2>3 DEF IInv, OnlyCallsRun
  <2> QED
    BY <1>t, <2>1, <2>2, <2>3, <2>4, <2>5, <2>6, StepInv DEF InitializePcs
<1>8. ASSUME NEW p \in Calls, SessionLost(p)
       PROVE  IInv'
  <2> DEFINE c == Initializing(call[p], call[p].object, token, "resend")
  <2>1. call' = [call EXCEPT ![p] = c] /\ UNCHANGED <<token, met, as>> /\ call[p].pc = "sent"
    BY <1>8 DEF SessionLost, RetriesOn
  <2>2. /\ c.pc = "initialize" /\ c.then = "resend"
        /\ c.account = call[p].account /\ c.kind = call[p].kind
    BY <1>f DEF Initializing, Call
  <2>3. Running(p) /\ IsOpen(p) /\ call[p].kind = "call"
    BY <2>1 DEF Running, IsOpen, IInv, OnlyCallsRun
  <2> HIDE DEF c
  <2> QED
    BY <1>t, <2>1, <2>2, <2>3, StepInv
<1>9. ASSUME NEW p \in Calls, NEW ts \in SUBSET Tools, ToolsListed(p, ts)
      PROVE  IInv'
  <2>1. call[p].pc = "list" /\ UNCHANGED <<current, as>> /\ IsOpen(p)
    BY <1>9 DEF ToolsListed, IsOpen
  <2>2. CASE call[p].then = "execute"
    <3>1. ~Running(p) /\ call[p].kind = "call"
      BY <2>1, <2>2 DEF Running, IInv, OnlyCallsRun
    <3> QED
      BY <1>9, <1>t, <2>1, <2>2, <3>1, ExecuteInv DEF ToolsListed
  <2>3. CASE call[p].then \in {"ensure", "boot"}
    <3> DEFINE c == call'[p]
    <3>1. /\ call' = [call EXCEPT ![p] = c] /\ UNCHANGED <<token, met, as>>
          /\ c.account = call[p].account /\ c.kind = call[p].kind /\ c.then = call[p].then
          /\ c.pc \in {"asked", "done", "failed"}
      BY <1>9, <1>f, <2>3 DEF ToolsListed, Ended, IInv, TypeOK, Call
    <3>2. ~Running(p)'
      BY <3>1 DEF Running, InitializePcs
    <3> HIDE DEF c
    <3> QED
      BY <1>t, <2>1, <2>3, <3>1, <3>2, StepInv
  <2>4. CASE call[p].then \in {"send", "resend"}
    <3> DEFINE ss == [session EXCEPT ![call[p].object].tools = ts, ![call[p].object].fresh = TRUE]
               c == Sending(call[p], call[p].object, token, ss)
    <3>1. call' = [call EXCEPT ![p] = c] /\ UNCHANGED <<token, met, as>>
      BY <1>9, <2>4 DEF ToolsListed
    <3>4. /\ c.account = call[p].account /\ c.kind = call[p].kind /\ c.then = call[p].then
          /\ c.pc = "sent" /\ c.carried = token
      BY <1>f DEF Sending, Call
    <3>2. Running(p) /\ call[p].kind = "call"
      BY <2>1, <2>4 DEF Running, InitializePcs, IInv, OnlyCallsRun
    <3> HIDE DEF c
    <3> QED
      BY <1>t, <2>1, <3>1, <3>2, <3>4, StepInv
  <2> QED
    BY <1>f, <2>2, <2>3, <2>4 DEF Call
<1>10. ASSUME NEW p \in Calls, Serve(p)
      PROVE  IInv'
  <2> DEFINE c == [call[p] EXCEPT !.pc = "served"]
  <2>1. /\ call' = [call EXCEPT ![p] = c]
        /\ UNCHANGED <<token, met>> /\ call[p].pc = "sent"
        /\ as'[p] # None /\ \A q \in Calls \ {p} : as'[q] = as[q]
    BY <1>10 DEF Serve, IInv, TypeOK
  <2>2. /\ c.pc = "served" /\ c.then = call[p].then
        /\ c.account = call[p].account /\ c.kind = call[p].kind
    BY <1>f DEF Call
  <2>3. Running(p) /\ IsOpen(p) /\ call[p].kind = "call"
    BY <2>1 DEF Running, IsOpen, IInv, OnlyCallsRun
  <2> HIDE DEF c
  <2> QED
    BY <1>t, <2>1, <2>2, <2>3, StepInv
<1>11. (Reset \/ \E s \in Sessions : Expire(s))
         => UNCHANGED <<call, met, as>> /\ token' \in {token, None}
  BY DEF Reset, Expire
<1>12. UNCHANGED vars => UNCHANGED <<call, met, as>> /\ token' \in {token, None}
  BY DEF vars
<1> QED
  BY <1>1, <1>2, <1>3, <1>4, <1>5, <1>6, <1>7, <1>8, <1>9, <1>10, <1>11, <1>12
     DEF Next

LEMMA McpInvariant == Spec => []IInv
BY InvInit, InvInductive, PTL DEF Spec

-------------------------------------------------------------------------------
(* The refinement of ToolContract.                                         *)

AbstractPhase == [p \in Calls |-> Phase(p)]

AbstractAccount == [p \in Calls |-> call[p].account]

\* What a phase of the contract means here.
LEMMA PhaseMeaning ==
  ASSUME NEW p \in Calls
  PROVE  /\ AbstractPhase[p] = "running" <=> Running(p)
         /\ IsOpen(p) /\ ~Running(p) => AbstractPhase[p] = "open"
         /\ call[p].pc \in {"new", "look"} => AbstractPhase[p] = "new"
         /\ call[p].pc = "done" => AbstractPhase[p] = "done"
         /\ call[p].pc = "failed" => AbstractPhase[p] = "failed"
         /\ AbstractPhase[p] \in {"open", "running"} <=> IsOpen(p)
BY DEF AbstractPhase, Phase, Running, IsOpen, InitializePcs

LEMMA ContractInit == Init => Contract!Init
<1> SUFFICES ASSUME Init PROVE Contract!Init
  OBVIOUS
<1>1. \A p \in Calls : Phase(p) = "new" /\ call[p].account = None
  BY DEF Init, NewCall, Phase, Running, IsOpen, InitializePcs
<1> QED
  BY <1>1 DEF Contract!Init, Init

\* A step that leaves every phase and every account is a stutter.
LEMMA Unseen ==
  ASSUME NEW p \in Calls, call \in [Calls -> Call], NEW c, call' = [call EXCEPT ![p] = c],
         UNCHANGED <<met, as>>, c.account = call[p].account,
         Running(p)' <=> Running(p), IsOpen(p)' <=> IsOpen(p),
         c.pc = call[p].pc \/ IsOpen(p) \/ (call[p].pc = "new" /\ c.pc = "look")
  PROVE  UNCHANGED Contract!vars
<1>1. \A q \in Calls : Phase(q)' = Phase(q) /\ call'[q].account = call[q].account
  <2>1. ASSUME NEW q \in Calls, q # p
        PROVE  Phase(q)' = Phase(q) /\ call'[q].account = call[q].account
    BY <2>1 DEF Phase, Running, IsOpen
  <2>2. call'[p] = c
    OBVIOUS
  <2>3. Phase(p)' = Phase(p)
    BY <2>2 DEF Phase, IsOpen
  <2> QED
    BY <2>1, <2>2, <2>3
<1> QED
  BY <1>1 DEF Contract!vars

\* A step of p from one phase to another.
LEMMA Seen ==
  ASSUME NEW p \in Calls, call \in [Calls -> Call], NEW c, call' = [call EXCEPT ![p] = c]
  PROVE  /\ AbstractPhase' = [AbstractPhase EXCEPT ![p] = Phase(p)']
         /\ AbstractAccount' = [AbstractAccount EXCEPT ![p] = c.account]
         /\ c.account = call[p].account => AbstractAccount' = AbstractAccount
<1>1. ASSUME NEW q \in Calls, q # p
      PROVE  Phase(q)' = Phase(q) /\ call'[q] = call[q]
  BY <1>1 DEF Phase, Running, IsOpen
<1>2. call'[p] = c
  OBVIOUS
<1> QED
  BY <1>1, <1>2 DEF AbstractPhase, AbstractAccount

CNext == [Contract!Next]_(Contract!vars)

\* The second half of a permitted call starts the run or ends the call.
LEMMA ExecuteStep ==
  ASSUME IInv, NEW p \in Calls, NEW ms, NEW ss, Execute(p, ms, ss), UNCHANGED <<current, as>>,
         ~Running(p), IsOpen(p)
  PROVE  CNext
<1>t. call \in [Calls -> Call] /\ call[p] \in Call
  BY DEF IInv, TypeOK
<1>o. AbstractPhase[p] = "open"
  BY PhaseMeaning
<1>1. CASE call[p].tool \notin ms
  <2> DEFINE c == Ended(call[p], "failed")
  <2>1. call' = [call EXCEPT ![p] = c] /\ UNCHANGED <<met, as>>
    BY <1>1 DEF Execute
  <2>2. c.pc = "failed" /\ c.account = call[p].account
    BY <1>t DEF Ended, Call
  <2> HIDE DEF c
  <2>3. Phase(p)' = "failed"
    BY <1>t, <2>1, <2>2 DEF Phase, Running, IsOpen, InitializePcs
  <2>4. /\ AbstractPhase' = [AbstractPhase EXCEPT ![p] = "failed"]
        /\ AbstractAccount' = AbstractAccount
    BY <1>t, <2>1, <2>2, <2>3, Seen
  <2>5. Contract!Close(p)
    BY <1>o, <2>1, <2>4 DEF Contract!Close, AbstractPhase, AbstractAccount
  <2> QED
    BY <2>5 DEF CNext, Contract!Next
<1>2. CASE call[p].tool \in ms
  <2> DEFINE c == IF ss[current].fresh THEN Sending(call[p], current, call[p].account, ss)
                  ELSE Initializing(call[p], current, call[p].account, "send")
  <2>1. call' = [call EXCEPT ![p] = c] /\ StartsRunning(p) /\ as' = as
    BY <1>2 DEF Execute
  <2>2. /\ c.account = call[p].account
        /\ c.pc = "sent" \/ (c.pc = "initialize" /\ c.then = "send")
    <3>1. /\ Sending(call[p], current, call[p].account, ss).account = call[p].account
          /\ Sending(call[p], current, call[p].account, ss).pc = "sent"
      BY <1>t DEF Sending, Call
    <3>2. /\ Initializing(call[p], current, call[p].account, "send").account = call[p].account
          /\ Initializing(call[p], current, call[p].account, "send").pc = "initialize"
          /\ Initializing(call[p], current, call[p].account, "send").then = "send"
      BY <1>t DEF Initializing, Call
    <3>3. CASE ss[current].fresh
      BY <3>1, <3>3
    <3>4. CASE ~ss[current].fresh
      BY <3>2, <3>4
    <3> QED
      BY <3>3, <3>4
  <2> HIDE DEF c
  <2>3. Phase(p)' = "running"
    BY <1>t, <2>1, <2>2 DEF Phase, Running, InitializePcs
  <2>4. /\ AbstractPhase' = [AbstractPhase EXCEPT ![p] = "running"]
        /\ AbstractAccount' = AbstractAccount
    BY <1>t, <2>1, <2>2, <2>3, Seen
  <2>5. {q \in Calls : IsOpen(q)} = {q \in Calls : AbstractPhase[q] \in {"open", "running"}}
    BY PhaseMeaning
  <2>6. met' = [met EXCEPT ![p] = {q \in Calls : AbstractPhase[q] \in {"open", "running"}}]
    BY <2>1, <2>5 DEF StartsRunning
  <2>7. Contract!Start(p)
    BY <1>o, <2>1, <2>4, <2>6 DEF Contract!Start, Contract!Open, AbstractPhase, AbstractAccount
  <2> QED
    BY <2>7 DEF CNext, Contract!Next
<1> QED
  BY <1>1, <1>2

\* Every arrival is an announcement.
LEMMA ArriveStep ==
  ASSUME IInv, NEW p \in Calls, NEW a \in Accounts, NEW c,
         call' = [call EXCEPT ![p] = c], Arrives(p), as' = as,
         call[p].pc \in {"new", "look"}, c.pc \in {"initialize", "asked", "failed"},
         c.then \in {"ensure", "boot"}, c.account = a
  PROVE  CNext
<1>t. call \in [Calls -> Call]
  BY DEF IInv, TypeOK
<1>1. AbstractPhase[p] = "new"
  BY PhaseMeaning
<1>2. Phase(p)' \in {"open", "failed"}
  BY <1>t DEF Phase, Running, IsOpen, InitializePcs
<1>3. /\ AbstractPhase' = [AbstractPhase EXCEPT ![p] = Phase(p)']
      /\ AbstractAccount' = [AbstractAccount EXCEPT ![p] = a]
  BY <1>t, Seen
<1>4. \E e \in {"open", "failed"} : AbstractPhase' = [AbstractPhase EXCEPT ![p] = e]
  BY <1>2, <1>3
<1>5. met' = [q \in Calls |-> IF AbstractPhase[q] = "running" THEN met[q] \cup {p} ELSE met[q]]
  BY PhaseMeaning DEF Arrives
<1>6. Contract!Announce(p, a)
  BY <1>1, <1>3, <1>4, <1>5 DEF Contract!Announce, AbstractPhase, AbstractAccount
<1> QED
  BY <1>6 DEF CNext, Contract!Next

\* An open use that does not run ends.
LEMMA CloseStep ==
  ASSUME IInv, NEW p \in Calls, NEW c, call' = [call EXCEPT ![p] = c], UNCHANGED <<met, as>>,
         IsOpen(p), ~Running(p), c.pc \in {"done", "failed"}, c.account = call[p].account
  PROVE  CNext
<1>t. call \in [Calls -> Call]
  BY DEF IInv, TypeOK
<1>1. AbstractPhase[p] = "open"
  BY PhaseMeaning
<1>2. Phase(p)' \in {"done", "failed"}
  BY <1>t DEF Phase, Running, IsOpen, InitializePcs
<1>3. /\ AbstractPhase' = [AbstractPhase EXCEPT ![p] = Phase(p)']
      /\ AbstractAccount' = AbstractAccount
  BY <1>t, Seen
<1>4. \E e \in {"done", "failed"} : AbstractPhase' = [AbstractPhase EXCEPT ![p] = e]
  BY <1>2, <1>3
<1>5. Contract!Close(p)
  BY <1>1, <1>3, <1>4 DEF Contract!Close, AbstractPhase, AbstractAccount
<1> QED
  BY <1>5 DEF CNext, Contract!Next

\* A running call fails, or returns when its tool has run.
LEMMA EndStep ==
  ASSUME IInv, NEW p \in Calls, NEW c, call' = [call EXCEPT ![p] = c], UNCHANGED <<met, as>>,
         Running(p), c.account = call[p].account,
         c.pc = "failed" \/ (c.pc = "done" /\ as[p] # None)
  PROVE  CNext
<1>t. call \in [Calls -> Call]
  BY DEF IInv, TypeOK
<1>1. AbstractPhase[p] = "running"
  BY PhaseMeaning
<1>2. Phase(p)' = c.pc
  BY <1>t DEF Phase, Running, IsOpen, InitializePcs
<1>3. /\ AbstractPhase' = [AbstractPhase EXCEPT ![p] = c.pc]
      /\ AbstractAccount' = AbstractAccount
  BY <1>t, <1>2, Seen
<1>4. CASE c.pc = "failed"
  <2>1. Contract!Fail(p)
    BY <1>1, <1>3, <1>4 DEF Contract!Fail, AbstractPhase, AbstractAccount
  <2> QED
    BY <2>1 DEF CNext, Contract!Next
<1>5. CASE c.pc = "done" /\ as[p] # None
  <2>1. Contract!Return(p)
    BY <1>1, <1>3, <1>5 DEF Contract!Return, AbstractPhase, AbstractAccount
  <2> QED
    BY <2>1 DEF CNext, Contract!Next
<1> QED
  BY <1>4, <1>5

LEMMA ContractStep ==
  ASSUME IInv, [Next]_vars
  PROVE  [Contract!Next]_(Contract!vars)
<1> USE DEF CNext
<1>t. call \in [Calls -> Call] /\ \A p \in Calls : call[p] \in Call
  BY DEF IInv, TypeOK
<1>1. ASSUME NEW p \in Calls, NEW a \in Accounts, NEW t \in Tools, CallArrives(p, a, t)
      PROVE  CNext
  <2> DEFINE d == [call[p] EXCEPT !.kind = "call", !.account = a, !.tool = t]
             c == IF methods = {} THEN Initializing(d, current, a, "ensure")
                  ELSE Ended(d, IF t \in methods THEN "asked" ELSE "failed")
  <2>1. call' = [call EXCEPT ![p] = c] /\ Arrives(p) /\ as' = as /\ call[p].pc = "new"
    BY <1>1 DEF CallArrives
  <2>2. call[p].then = "ensure"
    BY <2>1 DEF IInv, OnlyCallsRun
  <2>3. /\ c.pc \in {"initialize", "asked", "failed"}
        /\ c.then = "ensure" /\ c.account = a
    BY <1>t, <2>2 DEF Initializing, Ended, Call
  <2> HIDE DEF c, CNext
  <2> QED
    BY <2>1, <2>3, ArriveStep
<1>2. ASSUME NEW p \in Calls, NEW a \in Accounts, HelpArrives(p, a)
      PROVE  CNext
  <2> DEFINE d == [call[p] EXCEPT !.account = a]
             c == IF methods = {} THEN Initializing(d, current, a, "ensure") ELSE Ended(d, "asked")
  <2>1. call' = [call EXCEPT ![p] = c] /\ Arrives(p) /\ as' = as /\ call[p].pc = "look"
    BY <1>2 DEF HelpArrives
  <2>2. call[p].then = "ensure"
    BY <2>1 DEF IInv, OnlyCallsRun
  <2>3. /\ c.pc \in {"initialize", "asked", "failed"}
        /\ c.then = "ensure" /\ c.account = a
    BY <1>t, <2>2 DEF Initializing, Ended, Call
  <2> HIDE DEF c, CNext
  <2> QED
    BY <2>1, <2>3, ArriveStep
<1>3. ASSUME NEW p \in Calls, NEW a \in Accounts, BootArrives(p, a)
      PROVE  CNext
  <2> DEFINE c == Initializing([call[p] EXCEPT !.kind = "boot", !.account = a], current, a, "boot")
  <2>1. call' = [call EXCEPT ![p] = c] /\ Arrives(p) /\ as' = as /\ call[p].pc = "new"
    BY <1>3 DEF BootArrives
  <2>2. c.pc = "initialize" /\ c.then = "boot" /\ c.account = a
    BY <1>t DEF Initializing, Call
  <2> HIDE DEF c, CNext
  <2> QED
    BY <2>1, <2>2, ArriveStep
<1>4. ASSUME NEW p \in Calls, HelpAsked(p)
      PROVE  CNext
  <2> DEFINE c == [call[p] EXCEPT !.kind = "help", !.pc = "look"]
  <2>1. call' = [call EXCEPT ![p] = c] /\ UNCHANGED <<met, as>> /\ call[p].pc = "new"
    BY <1>4 DEF HelpAsked
  <2>2. c.pc = "look" /\ c.account = call[p].account
    BY <1>t DEF Call
  <2> HIDE DEF c
  <2>3. call'[p] = c
    BY <1>t, <2>1
  <2>4. ~Running(p) /\ ~IsOpen(p) /\ ~Running(p)' /\ ~IsOpen(p)'
    BY <2>1, <2>2, <2>3 DEF Running, IsOpen, InitializePcs
  <2>5. UNCHANGED Contract!vars
    BY <1>t, <2>1, <2>2, <2>4, Unseen
  <2> QED
    BY <2>5
<1>5. ASSUME NEW p \in Calls, Dismissed(p)
      PROVE  CNext
  <2> DEFINE c == Ended(call[p], IF call[p].kind = "help" THEN "done" ELSE "failed")
  <2>1. call' = [call EXCEPT ![p] = c] /\ UNCHANGED <<met, as>> /\ call[p].pc = "asked"
    BY <1>5 DEF Dismissed
  <2>2. c.pc \in {"done", "failed"} /\ c.account = call[p].account
    BY <1>t DEF Call, Ended
  <2>3. ~Running(p) /\ IsOpen(p)
    BY <2>1 DEF Running, IsOpen, InitializePcs
  <2> HIDE DEF c, CNext
  <2> QED
    BY <2>1, <2>2, <2>3, CloseStep
<1>6. ASSUME NEW p \in Calls, Permitted(p)
      PROVE  CNext
  <2>1. ~Running(p) /\ IsOpen(p)
    BY <1>6 DEF Permitted, Running, IsOpen, InitializePcs
  <2>2. CASE methods = {}
    <3> DEFINE c == Initializing(call[p], current, call[p].account, "execute")
    <3>1. call' = [call EXCEPT ![p] = c] /\ UNCHANGED <<met, as>>
      BY <1>6, <2>2 DEF Permitted
    <3>2. c.pc = "initialize" /\ c.then = "execute" /\ c.account = call[p].account
      BY <1>t DEF Initializing, Call
    <3> HIDE DEF c
    <3>3. call'[p] = c
      BY <1>t, <3>1
    <3>4. ~Running(p)' /\ IsOpen(p)'
      BY <3>2, <3>3 DEF Running, IsOpen
    <3>5. UNCHANGED Contract!vars
      BY <1>t, <2>1, <3>1, <3>2, <3>4, Unseen
    <3> QED
      BY <3>5
  <2>3. CASE methods # {}
    <3> HIDE DEF CNext
    <3> QED
      BY <1>6, <2>1, <2>3, ExecuteStep DEF Permitted
  <2> QED
    BY <2>2, <2>3
<1>7. ASSUME NEW p \in Calls, InitializeAnswered(p) \/ Notified(p)
      PROVE  CNext
  <2>1. PICK x \in {"notify", "list"} : call' = [call EXCEPT ![p] = [call[p] EXCEPT !.pc = x]]
    BY <1>7 DEF InitializeAnswered, Notified
  <2> DEFINE c == [call[p] EXCEPT !.pc = x]
  <2>2. UNCHANGED <<met, as>> /\ call[p].pc \in InitializePcs
    BY <1>7 DEF InitializeAnswered, Notified, InitializePcs
  <2>3. c.pc = x /\ c.then = call[p].then /\ c.account = call[p].account
    BY <1>t DEF Call
  <2>4. call' = [call EXCEPT ![p] = c] /\ call'[p] = c
    BY <1>t, <2>1
  <2> HIDE DEF c
  <2>5. (Running(p)' <=> Running(p)) /\ IsOpen(p)' /\ IsOpen(p)
    BY <2>2, <2>3, <2>4 DEF Running, IsOpen, InitializePcs
  <2>6. UNCHANGED Contract!vars
    BY <1>t, <2>2, <2>3, <2>4, <2>5, Unseen
  <2> QED
    BY <2>6
<1>8. ASSUME NEW p \in Calls, InitializeFailed(p)
      PROVE  CNext
  <2> DEFINE c == Ended(call[p], IF call[p].kind = "call" THEN "failed" ELSE "done")
  <2>1. call' = [call EXCEPT ![p] = c] /\ UNCHANGED <<met, as>> /\ IsOpen(p)
    BY <1>8 DEF InitializeFailed, IsOpen, InitializePcs
  <2>2. /\ c.account = call[p].account /\ c.pc \in {"done", "failed"}
        /\ call[p].kind = "call" => c.pc = "failed"
    BY <1>t DEF Ended, Call
  <2>3. Running(p) => call[p].kind = "call"
    BY DEF Running, IInv, OnlyCallsRun
  <2> HIDE DEF c, CNext
  <2>4. CASE Running(p)
    BY <2>1, <2>2, <2>3, <2>4, EndStep
  <2>5. CASE ~Running(p)
    BY <2>1, <2>2, <2>5, CloseStep
  <2> QED
    BY <2>4, <2>5
<1>9. ASSUME NEW p \in Calls, NEW ts \in SUBSET Tools, ToolsListed(p, ts)
      PROVE  CNext
  <2>1. call[p].pc = "list" /\ UNCHANGED <<current, as>> /\ IsOpen(p)
    BY <1>9 DEF ToolsListed, IsOpen
  <2>2. CASE call[p].then = "execute"
    <3>1. ~Running(p)
      BY <2>1, <2>2 DEF Running
    <3>2. PICK ms, ss : Execute(p, ms, ss)
      BY <1>9, <2>2 DEF ToolsListed
    <3> HIDE DEF CNext
    <3> QED
      BY <2>1, <3>1, <3>2, ExecuteStep
  <2>3. CASE call[p].then \in {"ensure", "boot"}
    <3>1. PICK x \in {"asked", "done", "failed"} : call' = [call EXCEPT ![p] = Ended(call[p], x)]
      BY <1>9, <2>3 DEF ToolsListed
    <3> DEFINE c == Ended(call[p], x)
    <3>2. call' = [call EXCEPT ![p] = c] /\ call'[p] = c /\ UNCHANGED <<met, as>> /\ ~Running(p)
      BY <1>9, <1>t, <2>1, <2>3, <3>1 DEF ToolsListed, Running
    <3>3. c.pc = x /\ c.account = call[p].account
      BY <1>t DEF Ended, Call
    <3> HIDE DEF c, CNext
    <3>4. CASE x = "asked"
      <4>1. ~Running(p)' /\ IsOpen(p)'
        BY <3>2, <3>3, <3>4 DEF Running, IsOpen, InitializePcs
      <4>2. UNCHANGED Contract!vars
        BY <1>t, <2>1, <3>2, <3>3, <4>1, Unseen
      <4> QED
        BY <4>2 DEF CNext
    <3>5. CASE x \in {"done", "failed"}
      BY <2>1, <3>2, <3>3, <3>5, CloseStep
    <3> QED
      BY <3>4, <3>5
  <2>4. CASE call[p].then \in {"send", "resend"}
    <3> DEFINE ss == [session EXCEPT ![call[p].object].tools = ts, ![call[p].object].fresh = TRUE]
               c == Sending(call[p], call[p].object, token, ss)
    <3>1. call' = [call EXCEPT ![p] = c] /\ UNCHANGED <<met, as>>
      BY <1>9, <2>4 DEF ToolsListed
    <3>2. c.pc = "sent" /\ c.account = call[p].account
      BY <1>t DEF Sending, Call
    <3> HIDE DEF c
    <3>3. call'[p] = c
      BY <1>t, <3>1
    <3>4. Running(p) /\ Running(p)' /\ IsOpen(p)'
      BY <2>1, <2>4, <3>2, <3>3 DEF Running, IsOpen, InitializePcs
    <3>5. UNCHANGED Contract!vars
      BY <1>t, <2>1, <3>1, <3>2, <3>4, Unseen
    <3> QED
      BY <3>5
  <2> QED
    BY <1>t, <2>2, <2>3, <2>4 DEF Call
<1>10. ASSUME NEW p \in Calls, Serve(p)
       PROVE  CNext
  <2> DEFINE c == [call[p] EXCEPT !.pc = "served"]
  <2>1. /\ call' = [call EXCEPT ![p] = c] /\ met' = met
        /\ as' = [as EXCEPT ![p] = call[p].carried]
        /\ call[p].pc = "sent" /\ call[p].carried # None
    BY <1>10 DEF Serve
  <2>2. c.pc = "served" /\ c.account = call[p].account
    BY <1>t DEF Call
  <2> HIDE DEF c
  <2>3. call'[p] = c
    BY <1>t, <2>1
  <2>4. Running(p) /\ Phase(p)' = "running" /\ as[p] = None
    BY <2>1, <2>2, <2>3 DEF Running, Phase, IInv, RunsOnce
  <2>5. /\ AbstractPhase[p] = "running"
        /\ AbstractPhase' = [AbstractPhase EXCEPT ![p] = "running"]
        /\ AbstractAccount' = AbstractAccount
    BY <1>t, <2>1, <2>2, <2>4, Seen, PhaseMeaning
  <2>6. AbstractPhase' = AbstractPhase
    BY <2>5 DEF AbstractPhase
  <2>7. PICK q \in met[p] : call[p].carried = call[q].account
    BY <2>1 DEF IInv, TokenIsMet, MetAccount
  <2>8. q \in Calls
    BY <2>7 DEF IInv, TypeOK
  <2>9. as' = [as EXCEPT ![p] = AbstractAccount[q]]
    BY <2>1, <2>7, <2>8 DEF AbstractAccount
  <2>10. Contract!Run(p)
    BY <2>1, <2>4, <2>5, <2>6, <2>7, <2>9 DEF Contract!Run, AbstractPhase, AbstractAccount
  <2> QED
    BY <2>10 DEF Contract!Next
<1>11. ASSUME NEW p \in Calls, Answered(p) \/ CallFailed(p)
       PROVE  CNext
  <2>1. PICK x \in {"done", "failed"} :
          /\ call' = [call EXCEPT ![p] = Ended(call[p], x)]
          /\ x = "done" => call[p].pc = "served"
    BY <1>11 DEF Answered, CallFailed
  <2> DEFINE c == Ended(call[p], x)
  <2>2. UNCHANGED <<met, as>> /\ Running(p)
    BY <1>11 DEF Answered, CallFailed, Running
  <2>3. c.pc = x /\ c.account = call[p].account
    BY <1>t DEF Ended, Call
  <2>4. x = "done" => as[p] # None
    BY <2>1 DEF IInv, RunsOnce
  <2>5. call' = [call EXCEPT ![p] = c]
    BY <2>1
  <2> HIDE DEF c, CNext
  <2> QED
    BY <2>2, <2>3, <2>4, <2>5, EndStep
<1>12. ASSUME NEW p \in Calls, SessionLost(p)
       PROVE  CNext
  <2> DEFINE c == Initializing(call[p], call[p].object, token, "resend")
  <2>1. call' = [call EXCEPT ![p] = c] /\ UNCHANGED <<met, as>> /\ call[p].pc = "sent"
    BY <1>12 DEF SessionLost, RetriesOn
  <2>2. c.pc = "initialize" /\ c.then = "resend" /\ c.account = call[p].account
    BY <1>t DEF Initializing, Call
  <2> HIDE DEF c
  <2>3. call'[p] = c
    BY <1>t, <2>1
  <2>4. Running(p) /\ IsOpen(p) /\ Running(p)' /\ IsOpen(p)'
    BY <2>1, <2>2, <2>3 DEF Running, IsOpen, InitializePcs
  <2>5. UNCHANGED Contract!vars
    BY <1>t, <2>1, <2>2, <2>4, Unseen
  <2> QED
    BY <2>5
<1>13. ASSUME Reset \/ (\E s \in Sessions : Expire(s)) \/ UNCHANGED vars
       PROVE  CNext
  <2>1. UNCHANGED <<call, met, as>>
    BY <1>13 DEF Reset, Expire, vars
  <2>2. UNCHANGED Contract!vars
    BY <2>1 DEF Contract!vars, Phase, Running, IsOpen
  <2> QED
    BY <2>2
<1> HIDE DEF CNext
<1>14. CNext
  BY <1>1, <1>2, <1>3, <1>4, <1>5, <1>6, <1>7, <1>8, <1>9, <1>10, <1>11, <1>12, <1>13
     DEF Next
<1> QED
  BY <1>14 DEF CNext

\* However calls, sessions and repetitions interleave, a tool of an MCP
\* service runs only for a call that was permitted, at most once, and under
\* the account of a call that overlapped it, and a result is reported only
\* for a tool that ran (mcp-connector.ts:170-194, session.ts:117-158).
THEOREM McpImplementsContract == Spec => ImplementsToolContract
BY ContractInit, ContractStep, McpInvariant, PTL
   DEF Spec, ImplementsToolContract, Contract!Spec
===============================================================================
