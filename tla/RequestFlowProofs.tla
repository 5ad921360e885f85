--------------------------- MODULE RequestFlowProofs ---------------------------
(***************************************************************************)
(* Theorems about RequestFlow, for every set of requests, of which any may *)
(* be reads.                                                               *)
(***************************************************************************)
EXTENDS RequestFlow, TLAPS

\* The inductive invariant: how far a handler has come determines what it has
\* done, and so what a crash at that point leaves behind.

\* The handler's stage against the deduplication row and the approval.
Progress(h) ==
  /\ stage[h] = "idle" <=> h \notin rows
  /\ stage[h] \in {"idle", "credentials"} => outcome[h] = "new" /\ runs[h] = 0
  /\ stage[h] = "approval" => /\ outcome[h] = "open"
                              /\ decision[h] = "ask"
                              /\ runs[h] = 0
  /\ outcome[h] = "open" => stage[h] = "approval"
  /\ stage[h] = "executing" => /\ runs[h] = 1
                               /\ effect[h] = "started"
                               /\ outcome[h] # "expired"
                               /\ decision[h] \in {"allow", "ask"}
                               /\ decision[h] = "ask" => answer[h] = "approved"
  /\ outcome[h] = "refused" => answer[h] # "approved" \/ altered[h]
  /\ stage[h] \notin {"answering", "done", "lost"} => /\ reply[h] = "none"
                                                   /\ audit[h] = {}
                                                   /\ logged[h] = 0
  /\ stage[h] = "answering" /\ effect[h] = "ok" => reply[h] = "result"

Execution(h) ==
  /\ runs[h] <= 1
  /\ runs[h] = 0 <=> effect[h] = "none"

AuditTrue(h) ==
  /\ logged[h] <= 1
  /\ effect[h] = "ok" => audit[h] # {}
  /\ \A e \in audit[h] :
       /\ e.policy = decision[h]
       /\ e.approved <=> runs[h] # 0
       /\ e.ok <=> effect[h] = "ok"
       /\ e.by = "policy" <=> decision[h] # "ask"
       /\ e.by = "timeout" <=> outcome[h] = "expired"
       /\ e.by = "user" => IF e.approved THEN answer[h] = "approved"
                          ELSE /\ outcome[h] = "refused"
                               /\ answer[h] # "approved" \/ altered[h]

ReplyTrue(h) ==
  /\ reply[h] = "result" => effect[h] = "ok"
  /\ reply[h] = "service_error" => effect[h] = "failed"
  /\ reply[h] \in Refusals => runs[h] = 0
  /\ effect[h] = "ok" => reply[h] \in {"result", "internal_error"}

FlowInv ==
  /\ FlowTypeOK
  /\ \A h \in Requests : /\ Progress(h)
                         /\ Execution(h)
                         /\ AuditTrue(h)
                         /\ ReplyTrue(h)

-----------------------------------------------------------------------------
\* An audit entry that is written has the type of the audit_log columns.
LEMMA LogTypes ==
  ASSUME FlowTypeOK, NEW h \in Requests, NEW p \in Decisions,
         NEW approved \in BOOLEAN, NEW by \in {"policy", "user", "timeout"},
         NEW ok \in BOOLEAN, Log(h, p, approved, by, ok)
  PROVE  /\ audit' \in [Requests -> SUBSET Entry]
         /\ logged' \in [Requests -> Nat]
<1> DEFINE e == [policy |-> p, approved |-> approved, by |-> by, ok |-> ok]
<1>1. e \in Entry
  BY DEF Entry
<1>2. audit[h] \cup {e} \in SUBSET Entry
  BY <1>1 DEF FlowTypeOK
<1> QED
  BY <1>1, <1>2 DEF FlowTypeOK, Log

\* The default policy and every row yield one of the three decisions.
LEMMA EvaluateTypes ==
  ASSUME FlowTypeOK, NEW h \in Requests
  PROVE  Evaluate(h) \in Decisions
BY DEF FlowTypeOK, Evaluate, Decisions

\* A daemon that has seen no request satisfies the invariant.
LEMMA FlowInvInit == Init => FlowInv
BY DEF Init, Queue!Init, FlowInv, FlowTypeOK, Queue!ContractTypeOK, Decisions,
       Progress, Execution, AuditTrue, ReplyTrue

\* Every step keeps the types.
LEMMA FlowTypeStep ==
  ASSUME FlowInv, [Next]_vars
  PROVE  FlowTypeOK'
<1>a. FlowTypeOK /\ \A h \in Requests : Progress(h)
  BY DEF FlowInv
<1> USE DEF FlowTypeOK, Refusals, Queue!ContractTypeOK
<1>1. ASSUME NEW h \in Requests, Receive(h)
      PROVE  FlowTypeOK'
  BY <1>a, <1>1 DEF Receive, ReplyWith, GoTo, userVars, runVars, auditVars, queueVars
<1>2. ASSUME NEW h \in Requests, CredentialsFail(h)
      PROVE  FlowTypeOK'
  BY <1>a, <1>2 DEF CredentialsFail, ReplyWith, GoTo, runVars, auditVars, queueVars
<1>3. ASSUME NEW h \in Requests, Decide(h)
      PROVE  FlowTypeOK'
  <2>1. decision' \in [Requests -> Decisions \cup {"none"}]
    BY <1>a, <1>3, EvaluateTypes DEF Decide
  <2>2. CASE Evaluate(h) = "deny"
    <3>1. audit' \in [Requests -> SUBSET Entry] /\ logged' \in [Requests -> Nat]
      BY <1>a, <1>3, <2>2, LogTypes DEF Decide, Decisions
    <3> QED
      BY <1>a, <1>3, <2>1, <2>2, <3>1
         DEF Decide, ReplyWith, GoTo, userVars, runVars, auditVars, queueVars
  <2>3. CASE Evaluate(h) = "ask"
    BY <1>a, <1>3, <2>1, <2>3 DEF Decide, Queue!Ask, GoTo, userVars, runVars, auditVars
  <2>4. CASE Evaluate(h) = "allow"
    BY <1>a, <1>3, <2>1, <2>4 DEF Decide, StartRun, GoTo, userVars, queueVars, auditVars
  <2> QED
    BY <1>a, <2>2, <2>3, <2>4, EvaluateTypes DEF Decisions
<1>4. ASSUME NEW h \in Requests, Granted(h)
      PROVE  FlowTypeOK'
  BY <1>a, <1>4 DEF Granted, Queue!Grant, Queue!Ends, StartRun, GoTo, userVars, auditVars
<1>5. ASSUME NEW h \in Requests, Refused(h)
      PROVE  FlowTypeOK'
  <2>1. audit' \in [Requests -> SUBSET Entry] /\ logged' \in [Requests -> Nat]
    BY <1>a, <1>5, LogTypes DEF Refused, Decisions
  <2> QED
    BY <1>a, <1>5, <2>1
       DEF Refused, Queue!Refuse, Queue!Ends, ReplyWith, GoTo, userVars, runVars, auditVars
<1>6. ASSUME NEW h \in Requests, TimedOut(h)
      PROVE  FlowTypeOK'
  <2>1. audit' \in [Requests -> SUBSET Entry] /\ logged' \in [Requests -> Nat]
    BY <1>a, <1>6, LogTypes DEF TimedOut, Decisions
  <2> QED
    BY <1>a, <1>6, <2>1
       DEF TimedOut, Queue!Expire, Queue!Ends, ReplyWith, GoTo, userVars, runVars, auditVars
<1>7. ASSUME NEW h \in Requests, RunSucceeds(h) \/ RunFails(h)
      PROVE  FlowTypeOK'
  <2>1. decision[h] \in Decisions /\ ApprovedBy(h) \in {"policy", "user", "timeout"}
    BY <1>a, <1>7 DEF RunSucceeds, RunFails, Progress, Decisions, ApprovedBy
  <2>2. audit' \in [Requests -> SUBSET Entry]
    <3>1. \A ok \in BOOLEAN : [policy |-> decision[h], approved |-> TRUE,
                               by |-> ApprovedBy(h), ok |-> ok] \in Entry
      BY <2>1 DEF Entry
    <3>2. CASE RunSucceeds(h)
      BY <1>a, <3>1, <3>2 DEF RunSucceeds, Log
    <3>3. CASE RunFails(h)
      BY <1>a, <3>1, <3>3 DEF RunFails, Log
    <3> QED
      BY <1>7, <3>2, <3>3
  <2>3. logged' \in [Requests -> Nat]
    BY <1>a, <1>7 DEF RunSucceeds, RunFails, Log
  <2> QED
    BY <1>a, <1>7, <2>2, <2>3
       DEF RunSucceeds, RunFails, ReplyWith, GoTo, userVars, queueVars
<1>8. ASSUME NEW h \in Requests, RunFailsAuth(h) \/ Respond(h)
      PROVE  FlowTypeOK'
  BY <1>a, <1>8
     DEF RunFailsAuth, Respond, ReplyWith, GoTo, userVars, runVars, auditVars, queueVars
<1>9. ASSUME NEW h \in Requests, NEW a \in {"approved", "denied"}, Answer(h, a)
      PROVE  FlowTypeOK'
  BY <1>a, <1>9 DEF Answer, Queue!Answer, userVars, handlerVars, runVars, auditVars
<1>10. ASSUME NEW h \in Requests, Tamper(h)
       PROVE  FlowTypeOK'
  BY <1>a, <1>10 DEF Tamper, Queue!Tamper, userVars, handlerVars, runVars, auditVars
<1>11. ASSUME NEW p \in Decisions, SetPolicy(p)
       PROVE  FlowTypeOK'
  BY <1>a, <1>11 DEF SetPolicy, handlerVars, runVars, auditVars, queueVars
<1>12. CASE \/ PauseAgent \/ UnpauseAgent \/ RevokeAgent
            \/ DisconnectPolicies \/ ConnectionChanges \/ Restart
  BY <1>a, <1>12
     DEF PauseAgent, UnpauseAgent, RevokeAgent, DisconnectPolicies,
         ConnectionChanges, Restart, handlerVars, userVars, runVars, auditVars, queueVars
<1>13. CASE Crash
  <2>1. outcome' \in [Requests -> {"new", "open", "granted", "refused", "expired", "lost"}]
    BY <1>a, <1>13 DEF Crash, Queue!Lose, queueVars
  <2>2. UNCHANGED <<answer, altered>>
    BY <1>13 DEF Crash, Queue!Lose, queueVars
  <2> QED
    BY <1>a, <1>13, <2>1, <2>2 DEF Crash, userVars, runVars, auditVars
<1>14. CASE UNCHANGED vars
  BY <1>a, <1>14 DEF vars, userVars, runVars, auditVars, queueVars
<1> QED
  BY <1>1, <1>2, <1>3, <1>4, <1>5, <1>6, <1>7, <1>8, <1>9, <1>10, <1>11, <1>12,
     <1>13, <1>14 DEF Next, Handler

\* A handler whose row, progress and results a step leaves alone keeps its parts
\* of the invariant.
LEMMA HandlerKept ==
  ASSUME FlowInv, NEW h \in Requests,
         h \in rows' <=> h \in rows,
         stage'[h] = stage[h], decision'[h] = decision[h], runs'[h] = runs[h],
         effect'[h] = effect[h], reply'[h] = reply[h], audit'[h] = audit[h],
         logged'[h] = logged[h],
         outcome'[h] = outcome[h], answer'[h] = answer[h], altered[h] => altered'[h]
  PROVE  Progress(h)' /\ Execution(h)' /\ AuditTrue(h)' /\ ReplyTrue(h)'
BY DEF FlowInv, Progress, Execution, AuditTrue, ReplyTrue

\* Every step preserves each part of the invariant.
LEMMA FlowInvStep ==
  ASSUME FlowInv, [Next]_vars
  PROVE  FlowInv'
<1>a. FlowTypeOK /\ FlowTypeOK'
  BY FlowTypeStep DEF FlowInv
<1> SUFFICES ASSUME NEW q \in Requests
             PROVE  Progress(q)' /\ Execution(q)' /\ AuditTrue(q)' /\ ReplyTrue(q)'
  BY <1>a DEF FlowInv
<1>b. Progress(q) /\ Execution(q) /\ AuditTrue(q) /\ ReplyTrue(q)
  BY DEF FlowInv
<1> DEFINE Parts == Progress(q)' /\ Execution(q)' /\ AuditTrue(q)' /\ ReplyTrue(q)'
<1> USE DEF FlowTypeOK, Refusals, Queue!ContractTypeOK
<1>1. ASSUME NEW h \in Requests, Handler(h) \/ Receive(h), q # h
      PROVE  Parts
  <2>1. /\ q \in rows' <=> q \in rows
        /\ stage'[q] = stage[q]
        /\ decision'[q] = decision[q]
        /\ runs'[q] = runs[q]
        /\ effect'[q] = effect[q]
        /\ reply'[q] = reply[q]
        /\ audit'[q] = audit[q]
        /\ logged'[q] = logged[q]
        /\ outcome'[q] = outcome[q]
        /\ answer'[q] = answer[q]
        /\ altered' = altered
    BY <1>a, <1>1
       DEF Handler, Receive, CredentialsFail, Decide, Granted, Refused, TimedOut,
           RunSucceeds, RunFails, RunFailsAuth, Respond, ReplyWith, GoTo, Log, StartRun,
           Queue!Ask, Queue!Grant, Queue!Refuse, Queue!Expire, Queue!Ends,
           userVars, runVars, auditVars, queueVars
  <2> QED
    BY <2>1, HandlerKept
<1>2. CASE Receive(q)
  BY <1>a, <1>b, <1>2
     DEF Receive, Fresh, ReplyWith, GoTo, userVars, runVars, auditVars, queueVars,
         Progress, Execution, AuditTrue, ReplyTrue
<1>3. CASE CredentialsFail(q)
  BY <1>a, <1>b, <1>3
     DEF CredentialsFail, ReplyWith, GoTo, runVars, auditVars, queueVars,
         Progress, Execution, AuditTrue, ReplyTrue
<1>4. CASE Decide(q)
  <2>1. CASE Evaluate(q) = "deny"
    <3>1. /\ audit'[q] = {[policy |-> "deny", approved |-> FALSE, by |-> "policy",
                        ok |-> FALSE]}
        /\ logged'[q] = 1
      BY <1>a, <1>b, <1>4, <2>1 DEF Decide, Progress, Log
    <3> QED
      BY <1>a, <1>b, <1>4, <2>1, <3>1
         DEF Decide, ReplyWith, GoTo, userVars, runVars, auditVars, queueVars,
             Progress, Execution, AuditTrue, ReplyTrue
  <2>2. CASE Evaluate(q) = "ask"
    BY <1>a, <1>b, <1>4, <2>2
       DEF Decide, Queue!Ask, GoTo, userVars, runVars, auditVars,
           Progress, Execution, AuditTrue, ReplyTrue
  <2>3. CASE Evaluate(q) = "allow"
    BY <1>a, <1>b, <1>4, <2>3
       DEF Decide, StartRun, GoTo, userVars, queueVars, auditVars,
           Progress, Execution, AuditTrue, ReplyTrue
  <2> QED
    BY <1>a, <2>1, <2>2, <2>3, EvaluateTypes DEF Decisions
<1>5. CASE Granted(q)
  BY <1>a, <1>b, <1>5
     DEF Granted, Queue!Grant, Queue!Ends, StartRun, GoTo, userVars, auditVars,
         Progress, Execution, AuditTrue, ReplyTrue
<1>6. CASE Refused(q)
  <2>1. /\ audit'[q] = {[policy |-> "ask", approved |-> FALSE, by |-> "user", ok |-> FALSE]}
        /\ logged'[q] = 1
    BY <1>a, <1>b, <1>6 DEF Refused, Progress, Log
  <2> QED
    BY <1>a, <1>b, <1>6, <2>1
       DEF Refused, Queue!Refuse, Queue!Ends, ReplyWith, GoTo, userVars, runVars, auditVars,
           Progress, Execution, AuditTrue, ReplyTrue
<1>7. CASE TimedOut(q)
  <2>1. /\ audit'[q] = {[policy |-> "ask", approved |-> FALSE, by |-> "timeout",
                       ok |-> FALSE]}
        /\ logged'[q] = 1
    BY <1>a, <1>b, <1>7 DEF TimedOut, Progress, Log
  <2> QED
    BY <1>a, <1>b, <1>7, <2>1
       DEF TimedOut, Queue!Expire, Queue!Ends, ReplyWith, GoTo, userVars, runVars,
           Progress, Execution, AuditTrue, ReplyTrue
<1>8. CASE RunSucceeds(q)
  <2>1. /\ audit'[q] = {[policy |-> decision[q], approved |-> TRUE, by |-> ApprovedBy(q),
                      ok |-> TRUE]}
        /\ logged'[q] = 1
    BY <1>a, <1>b, <1>8 DEF RunSucceeds, Progress, Log
  <2> QED
    BY <1>a, <1>b, <1>8, <2>1
       DEF RunSucceeds, ApprovedBy, ReplyWith, GoTo, userVars, queueVars,
           Progress, Execution, AuditTrue, ReplyTrue
<1>9. CASE RunFails(q)
  <2>1. /\ audit'[q] = {[policy |-> decision[q], approved |-> TRUE, by |-> ApprovedBy(q),
                      ok |-> FALSE]}
        /\ logged'[q] = 1
    BY <1>a, <1>b, <1>9 DEF RunFails, Progress, Log
  <2> QED
    BY <1>a, <1>b, <1>9, <2>1
       DEF RunFails, ApprovedBy, ReplyWith, GoTo, userVars, queueVars,
           Progress, Execution, AuditTrue, ReplyTrue
<1>10. CASE RunFailsAuth(q) \/ Respond(q)
  <2>1. CASE RunFailsAuth(q)
    BY <1>a, <1>b, <2>1
       DEF RunFailsAuth, ReplyWith, GoTo, userVars, runVars, auditVars, queueVars,
           Progress, Execution, AuditTrue, ReplyTrue
  <2>2. CASE Respond(q)
    <3>1. AuditTrue(q)' /\ Execution(q)' /\ Progress(q)'
      BY <1>a, <1>b, <2>2
         DEF Respond, GoTo, userVars, runVars, auditVars, queueVars,
             Progress, Execution, AuditTrue
    <3>2. ReplyTrue(q)'
      <4>1. effect' = effect /\ runs' = runs
        BY <2>2 DEF Respond, runVars
      <4>2. reply'[q] = reply[q] \/ reply'[q] \in {"internal_error", "unsent"}
        BY <1>a, <2>2 DEF Respond
      <4>3. effect[q] = "ok" => reply'[q] \in {"result", "internal_error"}
        BY <1>a, <1>b, <2>2 DEF Respond, Progress
      <4> QED
        BY <1>b, <4>1, <4>2, <4>3 DEF ReplyTrue
    <3> QED
      BY <3>1, <3>2
  <2> QED
    BY <1>10, <2>1, <2>2
<1>11. ASSUME NEW h \in Requests, NEW a \in {"approved", "denied"}, Answer(h, a)
       PROVE  Parts
  BY <1>a, <1>b, <1>11
     DEF Answer, Queue!Answer, handlerVars, runVars, auditVars,
         Progress, Execution, AuditTrue, ReplyTrue
<1>12. ASSUME UNCHANGED <<handlerVars, outcome, answer>>,
              altered[q] => altered'[q]
       PROVE  Parts
  BY <1>12, HandlerKept DEF handlerVars, runVars, auditVars
<1>13. CASE \/ \E h \in Requests : Tamper(h)
            \/ \E p \in Decisions : SetPolicy(p)
            \/ PauseAgent \/ UnpauseAgent \/ RevokeAgent
            \/ DisconnectPolicies \/ ConnectionChanges \/ Restart
  BY <1>a, <1>12, <1>13
     DEF Tamper, Queue!Tamper, SetPolicy, PauseAgent, UnpauseAgent, RevokeAgent,
         DisconnectPolicies, ConnectionChanges, Restart, queueVars
<1>14. CASE Crash
  <2>1. stage'[q] = IF q \in InFlight THEN "lost" ELSE stage[q]
    BY <1>a, <1>14 DEF Crash
  <2>2. /\ outcome'[q] # "open"
        /\ outcome[q] = "new" /\ outcome'[q] # "new" => stage[q] = "credentials"
        /\ answer' = answer /\ altered' = altered
        /\ \/ outcome'[q] = outcome[q]
           \/ outcome'[q] = "lost" /\ outcome[q] \in {"new", "open"}
    BY <1>a, <1>14 DEF Crash, Queue!Lose, queueVars
  <2> QED
    BY <1>a, <1>b, <1>14, <2>1, <2>2
       DEF Crash, InFlight, userVars, runVars, auditVars,
           Progress, Execution, AuditTrue, ReplyTrue
<1>15. CASE UNCHANGED vars
  BY <1>12, <1>15 DEF vars, handlerVars, runVars, auditVars, queueVars
<1> QED
  BY <1>1, <1>2, <1>3, <1>4, <1>5, <1>6, <1>7, <1>8, <1>9, <1>10, <1>11, <1>13,
     <1>14, <1>15 DEF Next, Handler

\* The flow never leaves its inductive invariant.
THEOREM FlowInvariant == Spec => []FlowInv
BY FlowInvInit, FlowInvStep, PTL DEF Spec

\* Every variable keeps its type, in every behaviour of the flow.
THEOREM FlowTypeCorrect == Spec => []FlowTypeOK
<1>1. FlowInv => FlowTypeOK
  BY DEF FlowInv
<1> QED
  BY <1>1, FlowInvariant, PTL

\* An event is executed at most once, whatever crashes and redeliveries happen.
THEOREM RunsOnce == Spec => []OncePerEvent
<1>1. FlowInv => OncePerEvent
  BY DEF FlowInv, Execution, OncePerEvent
<1> QED
  BY <1>1, FlowInvariant, PTL

\* There is at most one audit entry per request, and it is true.
THEOREM AuditEntriesTrue == Spec => []AuditIsTrue
<1>1. FlowInv => AuditIsTrue
  BY DEF FlowInv, AuditTrue, AuditIsTrue
<1> QED
  BY <1>1, FlowInvariant, PTL

\* The agent is told what happened.
THEOREM RepliesTrue == Spec => []RepliesAreTrue
<1>1. FlowInv => RepliesAreTrue
  BY DEF FlowInv, ReplyTrue, RepliesAreTrue
<1> QED
  BY <1>1, FlowInvariant, PTL

\* An execution starts on a policy in force or on the user's approval.
LEMMA PermittedStep ==
  ASSUME FlowInv, [Next]_vars, NEW h \in Requests, runs'[h] > runs[h]
  PROVE  Evaluate(h) = "allow" \/ (answer[h] = "approved" /\ ~altered[h])
<1>a. FlowTypeOK
  BY DEF FlowInv
<1>b. runs \in [Requests -> Nat] /\ runs'[h] > runs[h]
  BY <1>a DEF FlowTypeOK
<1>1. ASSUME NEW g \in Requests, Decide(g)
      PROVE  Evaluate(h) = "allow"
  <2>1. runs' # runs
    BY <1>b
  <2>2. Evaluate(g) = "allow" /\ StartRun(g)
    BY <1>1, <2>1 DEF Decide, runVars, auditVars
  <2>3. h = g
    BY <1>b, <2>2 DEF StartRun
  <2> QED
    BY <2>2, <2>3
<1>2. ASSUME NEW g \in Requests, Granted(g)
      PROVE  answer[h] = "approved" /\ ~altered[h]
  <2>1. h = g
    BY <1>b, <1>2 DEF Granted, StartRun
  <2> QED
    BY <1>2, <2>1 DEF Granted, Queue!Grant
<1>3. ASSUME \A g \in Requests : ~Decide(g) /\ ~Granted(g)
      PROVE  runs' = runs
  BY <1>3
     DEF Next, Handler, Receive, CredentialsFail, Refused, TimedOut, RunSucceeds,
         RunFails, RunFailsAuth, Respond, Answer, Tamper, SetPolicy, PauseAgent,
         UnpauseAgent, RevokeAgent, DisconnectPolicies, ConnectionChanges, Crash,
         Restart, handlerVars, runVars, vars
<1> QED
  BY <1>b, <1>1, <1>2, <1>3

\* A request is executed only on a policy that allows it at that very moment,
\* never on one that was changed or deleted during a wait, or on the user's
\* approval of this request, given while its stored copy was untouched.  That the
\* agent may be revoked and the account disconnected by then is not excluded.
RunsOnlyIfPermitted ==
  [][\A h \in Requests :
       runs'[h] > runs[h] =>
         \/ Evaluate(h) = "allow"
         \/ answer[h] = "approved" /\ ~altered[h]]_vars

\* Nothing is executed on a policy that no longer allows it, unless the user
\* approved it (rpc-router.ts:520-603).
THEOREM RunsArePermitted == Spec => RunsOnlyIfPermitted
<1>1. FlowInv /\ [Next]_vars
        => [\A h \in Requests :
              runs'[h] > runs[h] =>
                \/ Evaluate(h) = "allow"
                \/ answer[h] = "approved" /\ ~altered[h]]_vars
  BY PermittedStep
<1> QED
  BY <1>1, FlowInvariant, PTL DEF Spec, RunsOnlyIfPermitted

-----------------------------------------------------------------------------
\* Revocation.

\* The agent is revoked and this request is not under way.
Barred(h) ==
  agent = "revoked" /\ stage[h] \notin {"credentials", "approval", "executing"}

\* No step, a restart and a redelivery included, gets a barred request going.
LEMMA BarredStep ==
  ASSUME FlowInv, [Next]_vars, NEW q \in Requests, Barred(q)
  PROVE  Barred(q)'
<1>a. FlowTypeOK
  BY DEF FlowInv
<1> USE DEF FlowTypeOK, Barred
<1>1. ASSUME NEW h \in Requests, Handler(h)
      PROVE  Barred(q)'
  <2>1. agent' = agent
    BY <1>1
       DEF Handler, CredentialsFail, Decide, Granted, Refused, TimedOut, RunSucceeds,
           RunFails, RunFailsAuth, Respond, userVars
  <2>2. CASE h = q
    BY <1>a, <1>1, <2>1, <2>2
       DEF Handler, CredentialsFail, Decide, Granted, Refused, TimedOut, RunSucceeds,
           RunFails, RunFailsAuth, Respond, GoTo
  <2>3. CASE h # q
    BY <1>a, <1>1, <2>1, <2>3
       DEF Handler, CredentialsFail, Decide, Granted, Refused, TimedOut, RunSucceeds,
           RunFails, RunFailsAuth, Respond, ReplyWith, StartRun, GoTo
  <2> QED
    BY <2>2, <2>3
<1>2. ASSUME NEW h \in Requests, Receive(h)
      PROVE  Barred(q)'
  BY <1>2 DEF Receive
<1>3. CASE Crash
  BY <1>a, <1>3 DEF Crash, userVars
<1>4. CASE RevokeAgent
  BY <1>a, <1>4 DEF RevokeAgent, handlerVars
<1>5. CASE \/ \E h \in Requests :
               Tamper(h) \/ \E a \in {"approved", "denied"} : Answer(h, a)
           \/ \E p \in Decisions : SetPolicy(p)
           \/ PauseAgent \/ UnpauseAgent \/ DisconnectPolicies
           \/ ConnectionChanges \/ Restart \/ UNCHANGED vars
  BY <1>5
     DEF Tamper, Answer, SetPolicy, PauseAgent, UnpauseAgent, DisconnectPolicies,
         ConnectionChanges, Restart, vars, handlerVars, userVars
<1> QED
  BY <1>1, <1>2, <1>3, <1>4, <1>5 DEF Next

\* After a revocation nothing is executed that was not under way by then.
THEOREM RevocationHolds == Spec => RevokedRunsNothingNew
<1> SUFFICES ASSUME NEW h \in Requests
             PROVE  Spec => [](Barred(h) => [](stage[h] # "executing"))
  BY DEF RevokedRunsNothingNew, Barred
<1>1. FlowInv /\ [Next]_vars /\ Barred(h) => Barred(h)'
  BY BarredStep
<1>2. Barred(h) => stage[h] # "executing"
  BY DEF Barred
<1> QED
  BY <1>1, <1>2, FlowInvariant, PTL DEF Spec

-----------------------------------------------------------------------------
\* What the finding about EveryRunAudited leaves of the audit log.

\* A request that was decided and answered has an audit entry, whatever became
\* of it, unless its execution ended in the ReferenceError of an AuthError.
AuditedUnlessAuth ==
  \A h \in Requests :
    stage[h] \in {"answering", "done"} /\ decision[h] # "none"
      => \/ audit[h] # {}
         \/ reply[h] \in {"internal_error", "unsent"} /\ effect[h] = "failed"

\* The policy is evaluated once per event, so an answer without a decision came
\* before it.
DecidedOnce ==
  \A h \in Requests : stage[h] \in {"idle", "credentials"} => decision[h] = "none"

\* Every step that answers a decided request writes its entry, but for that one.
LEMMA AuditedStep ==
  ASSUME FlowInv, AuditedUnlessAuth, DecidedOnce, [Next]_vars
  PROVE  AuditedUnlessAuth' /\ DecidedOnce'
<1>a. FlowTypeOK /\ \A h \in Requests : Progress(h)
  BY DEF FlowInv
<1> USE DEF FlowTypeOK, AuditedUnlessAuth, DecidedOnce
<1> DEFINE Kept == AuditedUnlessAuth' /\ DecidedOnce'
<1>1. ASSUME NEW h \in Requests, Receive(h) \/ CredentialsFail(h)
      PROVE  Kept
  <2>1. decision[h] = "none" /\ decision' = decision
    BY <1>1, <1>a DEF Receive, CredentialsFail, Fresh, Progress
  <2>2. UNCHANGED <<audit, effect>>
    BY <1>1 DEF Receive, CredentialsFail, runVars, auditVars
  <2>3. \A g \in Requests \ {h} : stage'[g] = stage[g] /\ reply'[g] = reply[g]
    BY <1>1, <1>a DEF Receive, CredentialsFail, ReplyWith, GoTo
  <2> QED
    BY <1>a, <2>1, <2>2, <2>3
<1>2. ASSUME NEW h \in Requests, Decide(h)
      PROVE  Kept
  <2>1. CASE Evaluate(h) = "deny"
    <3>1. audit'[h] # {}
      BY <1>a, <1>2, <2>1 DEF Decide, Log
    <3>2. \A g \in Requests \ {h} : audit'[g] = audit[g]
      BY <1>a, <1>2, <2>1 DEF Decide, Log
    <3>3. /\ stage'[h] = "answering"
          /\ \A g \in Requests \ {h} : /\ stage'[g] = stage[g]
                                      /\ decision'[g] = decision[g]
                                      /\ reply'[g] = reply[g]
                                      /\ effect'[g] = effect[g]
      BY <1>a, <1>2, <2>1 DEF Decide, ReplyWith, GoTo, runVars
    <3> QED
      BY <1>a, <3>1, <3>2, <3>3
  <2>2. CASE Evaluate(h) = "ask"
    BY <1>a, <1>2, <2>2 DEF Decide, GoTo, runVars, auditVars
  <2>3. CASE Evaluate(h) = "allow"
    BY <1>a, <1>2, <2>3 DEF Decide, StartRun, GoTo, auditVars
  <2> QED
    BY <1>a, <2>1, <2>2, <2>3, EvaluateTypes DEF Decisions
<1>3. ASSUME NEW h \in Requests, Granted(h)
      PROVE  Kept
  BY <1>a, <1>3 DEF Granted, StartRun, GoTo, auditVars
<1>4. ASSUME NEW h \in Requests,
             Refused(h) \/ TimedOut(h) \/ RunSucceeds(h) \/ RunFails(h)
      PROVE  Kept
  <2>1. audit'[h] # {} /\ stage'[h] = "answering" /\ UNCHANGED decision
    <3>1. ASSUME NEW p, NEW approved, NEW by, NEW ok, NEW r,
                 Log(h, p, approved, by, ok), ReplyWith(h, r), UNCHANGED decision
          PROVE  audit'[h] # {} /\ stage'[h] = "answering" /\ UNCHANGED decision
      BY <1>a, <3>1 DEF Log, ReplyWith, GoTo
    <3> QED
      BY <1>4, <3>1 DEF Refused, TimedOut, RunSucceeds, RunFails
  <2>2. \A g \in Requests \ {h} : /\ stage'[g] = stage[g]
                                  /\ audit'[g] = audit[g]
                                  /\ reply'[g] = reply[g]
                                  /\ effect'[g] = effect[g]
    BY <1>a, <1>4
       DEF Refused, TimedOut, RunSucceeds, RunFails, Log, ReplyWith, GoTo, runVars
  <2> QED
    BY <1>a, <2>1, <2>2
<1>5. ASSUME NEW h \in Requests, RunFailsAuth(h)
      PROVE  Kept
  BY <1>a, <1>5 DEF RunFailsAuth, ReplyWith, GoTo, auditVars
<1>6. ASSUME NEW h \in Requests, Respond(h)
      PROVE  Kept
  BY <1>a, <1>6 DEF Respond, GoTo, runVars, auditVars
<1>7. CASE Crash
  BY <1>a, <1>7 DEF Crash, runVars, auditVars
<1>8. ASSUME UNCHANGED handlerVars
      PROVE  Kept
  BY <1>8 DEF handlerVars, runVars, auditVars
<1>9. ASSUME NEW h \in Requests,
             Tamper(h) \/ \E a \in {"approved", "denied"} : Answer(h, a)
      PROVE  Kept
  BY <1>9, <1>8 DEF Tamper, Answer
<1>10. CASE \/ \E p \in Decisions : SetPolicy(p)
            \/ PauseAgent \/ UnpauseAgent \/ RevokeAgent
            \/ DisconnectPolicies \/ ConnectionChanges \/ Restart \/ UNCHANGED vars
  BY <1>10, <1>8
     DEF SetPolicy, PauseAgent, UnpauseAgent, RevokeAgent, DisconnectPolicies,
         ConnectionChanges, Restart, vars, handlerVars
<1> QED
  BY <1>1, <1>2, <1>3, <1>4, <1>5, <1>6, <1>7, <1>9, <1>10 DEF Next, Handler

\* Every refusal, timeout, success and failure that an agent is told of is in the
\* audit log, but for the authentication errors that EveryRunAudited finds
\* (rpc-router.ts:527-650).
THEOREM DecisionsAreAudited == Spec => []AuditedUnlessAuth
<1>1. Init => AuditedUnlessAuth /\ DecidedOnce
  BY DEF Init, AuditedUnlessAuth, DecidedOnce
<1> QED
  BY <1>1, AuditedStep, FlowInvariant, PTL DEF Spec

-----------------------------------------------------------------------------
\* The approval queue in the flow.

\* Every step of the flow is a step of the queue's contract or leaves it alone.
LEMMA ContractStep ==
  ASSUME [Next]_vars
  PROVE  [Queue!Next]_(Queue!cvars)
<1>1. ASSUME NEW h \in Requests, Decide(h)
      PROVE  Queue!Ask(h) \/ UNCHANGED queueVars
  BY <1>1 DEF Decide
<1>2. ASSUME NEW h \in Requests, Handler(h)
      PROVE  \/ Queue!Ask(h) \/ Queue!Grant(h) \/ Queue!Refuse(h) \/ Queue!Expire(h)
             \/ UNCHANGED queueVars
  BY <1>1, <1>2
     DEF Handler, CredentialsFail, Granted, Refused, TimedOut, RunSucceeds, RunFails,
         RunFailsAuth, Respond
<1>3. ASSUME NEW h \in Requests, NEW a \in {"approved", "denied"}, Answer(h, a)
      PROVE  Queue!Answer(h, a)
  BY <1>3 DEF Answer
<1>4. ASSUME NEW h \in Requests, Tamper(h)
      PROVE  Queue!Tamper(h)
  BY <1>4 DEF Tamper
<1>5. CASE Crash
  BY <1>5 DEF Crash, queueVars, Queue!Next, Queue!cvars
<1>6. CASE \/ \E h \in Requests : Receive(h)
           \/ \E p \in Decisions : SetPolicy(p)
           \/ PauseAgent \/ UnpauseAgent \/ RevokeAgent
           \/ DisconnectPolicies \/ ConnectionChanges \/ Restart \/ UNCHANGED vars
  BY <1>6
     DEF Receive, SetPolicy, PauseAgent, UnpauseAgent, RevokeAgent, DisconnectPolicies,
         ConnectionChanges, Restart, vars, queueVars, Queue!cvars
<1> QED
  BY <1>2, <1>3, <1>4, <1>5, <1>6 DEF Next, queueVars, Queue!Next, Queue!cvars

\* The flow, its crashes included, uses the queue as ApprovalContract has it: in
\* every behaviour what it sees of the queue is a behaviour that the contract
\* allows, the one that ApprovalQueue implements (rpc-router.ts:548-586).
THEOREM FlowKeepsContract == Spec => Queue!Spec
<1>1. Init => Queue!Init
  BY DEF Init
<1> QED
  BY <1>1, ContractStep, PTL DEF Spec, Queue!Spec
=============================================================================
