------------------------------ MODULE RequestFlow ------------------------------
(***************************************************************************)
(* A service request on its way through keepd: the handler of an event in  *)
(* packages/nostr-rpc/src/rpc-handler.ts, RpcRouter.handleRequest() and    *)
(* executeServiceMethod() in apps/keepd/src/rpc-router.ts, next to what    *)
(* the user does meanwhile (routes/agents.ts, policies.ts, connections.ts, *)
(* queue.ts) and to crashes of the daemon.                                 *)
(*                                                                         *)
(* One agent, one account of one service, and a set of request events.  A  *)
(* handler runs without interruption between two real waits, so it has one *)
(* stage per wait: for the credentials (a token refresh or the tool list   *)
(* of an MCP server), for the approval, for the service, for the relays.   *)
(* What it checked before a wait may be stale after it.                    *)
(*                                                                         *)
(* The approval queue is used through its contract, ApprovalContract, that *)
(* module ApprovalQueue implements.                                        *)
(***************************************************************************)
EXTENDS Naturals

CONSTANTS
  Requests,   \* request events of the agent, each with its own event id
  Reads       \* those whose method has operationType 'read'

ASSUME ReadsAssumption == Reads \subseteq Requests

VARIABLES
  up,         \* the daemon process runs
  agent,      \* agents.status
  conn,       \* connections.status of the account
  policy,     \* policies row of agent and account: "default" is no row (or the
              \* default row), any other value a row with that one action
  rows,       \* rpc_requests: the events that were seen
  stage,      \* the handler of an event, by what it waits for
  decision,   \* its local `decision`
  runs,       \* history: how often connectorExecutor.execute() was started
  effect,     \* how the last one ended
  reply,      \* what the handler answers
  audit,      \* the audit_log entries of a request
  logged,     \* how many they are, equal ones counted
  outcome, answer, altered   \* the approval queue, see ApprovalContract

Queue == INSTANCE ApprovalContract

queueVars == <<outcome, answer, altered>>
userVars  == <<agent, conn, policy>>
runVars   == <<runs, effect>>
auditVars == <<audit, logged>>
vars == <<up, userVars, rows, stage, decision, runVars, reply, auditVars, queueVars>>

Decisions == {"allow", "ask", "deny"}
Entry == [policy : Decisions, approved : BOOLEAN,
          by : {"policy", "user", "timeout"}, ok : BOOLEAN]

\* Error codes of a request that was not executed.  "rejected" stands for
\* not_found and invalid_request: unknown service or method, malformed or missing
\* parameters, an account that is unknown or has to be named.
Refusals == {"permission_denied", "approval_timeout", "not_connected", "rejected"}

FlowTypeOK ==
  /\ up \in BOOLEAN
  /\ agent \in {"paired", "paused", "revoked"}
  /\ conn \in {"connected", "paused", "error", "disconnected"}
  /\ policy \in Decisions \cup {"default"}
  /\ rows \in SUBSET Requests
  /\ stage \in [Requests -> {"idle", "credentials", "approval", "executing",
                             "answering", "done", "lost"}]
  /\ decision \in [Requests -> Decisions \cup {"none"}]
  /\ runs \in [Requests -> Nat]
  /\ effect \in [Requests -> {"none", "started", "ok", "failed"}]
  /\ reply \in [Requests -> Refusals \cup
                  {"none", "result", "service_error", "internal_error", "unsent"}]
  /\ audit \in [Requests -> SUBSET Entry]
  /\ logged \in [Requests -> Nat]
  /\ Queue!ContractTypeOK

Init ==
  /\ up = TRUE
  /\ agent = "paired"
  /\ conn = "connected"
  /\ policy = "default"
  /\ rows = {}
  /\ stage = [h \in Requests |-> "idle"]
  /\ decision = [h \in Requests |-> "none"]
  /\ runs = [h \in Requests |-> 0]
  /\ effect = [h \in Requests |-> "none"]
  /\ reply = [h \in Requests |-> "none"]
  /\ audit = [h \in Requests |-> {}]
  /\ logged = [h \in Requests |-> 0]
  /\ Queue!Init

-----------------------------------------------------------------------------
\* Helpers

InFlight == {h \in Requests :
               stage[h] \in {"credentials", "approval", "executing", "answering"}}

\* Deduplication by what is in memory.
FreshIfNotRunning(h) == h \notin InFlight

\* tryInsertRequest(): the event id is not in rpc_requests yet.  Abstraction: the
\* clean-up job that deletes rows after an hour is left out, so rows stay.
Fresh(h) == h \notin rows

\* PolicyEngine.evaluate(); without a row DEFAULT_POLICY_V2 decides.  Documents
\* with different actions for different methods are in PolicyRules.
Evaluate(h) ==
  IF policy # "default" THEN policy
  ELSE IF h \in Reads THEN "allow" ELSE "ask"

\* Every execution booked on the user.
ApprovedByUser(h) == "user"

\* The decision in the place of who made it.
ApprovedByDecision(h) == decision[h]

\* approvedBy of a request that was executed.
ApprovedBy(h) == IF decision[h] = "allow" THEN "policy" ELSE "user"

GoTo(h, s) == stage' = [stage EXCEPT ![h] = s]

\* The handler returns: sendResponse() starts to publish.
ReplyWith(h, r) ==
  /\ GoTo(h, "answering")
  /\ reply' = [reply EXCEPT ![h] = r]

Log(h, p, approved, by, ok) ==
  /\ audit' = [audit EXCEPT ![h] =
                 @ \cup {[policy |-> p, approved |-> approved, by |-> by, ok |-> ok]}]
  /\ logged' = [logged EXCEPT ![h] = @ + 1]

StartRun(h) ==
  /\ GoTo(h, "executing")
  /\ runs' = [runs EXCEPT ![h] = @ + 1]
  /\ effect' = [effect EXCEPT ![h] = "started"]

-----------------------------------------------------------------------------
\* The handler

\* The checks of handleRequest() without the agent's status.
ReceiveFromAnyone(h) ==
  /\ up
  /\ Fresh(h)
  /\ rows' = rows \cup {h}
  /\ GoTo(h, "credentials")
  /\ UNCHANGED <<up, userVars, decision, runVars, reply, auditVars, queueVars>>

\* handleEvent() up to the first wait: keys of the agent (those of a revoked one
\* are not found, its events are ignored), deduplication, and the checks of
\* handleRequest() on the agent, the request and the connection.
Receive(h) ==
  /\ up
  /\ agent # "revoked"
  /\ Fresh(h)
  /\ rows' = rows \cup {h}
  /\ \/ /\ agent = "paused" \/ conn = "paused"
        /\ ReplyWith(h, "permission_denied")
     \/ /\ agent = "paired"
        /\ ReplyWith(h, "rejected")
     \/ /\ agent = "paired"
        /\ conn \in {"error", "disconnected"}
        /\ ReplyWith(h, "not_connected")
     \/ /\ agent = "paired"
        /\ conn = "connected"
        /\ GoTo(h, "credentials")
        /\ UNCHANGED reply
  /\ UNCHANGED <<up, userVars, decision, runVars, auditVars, queueVars>>

\* getCredentials(), ensureReady() or extractPermMetadata() throws, outside of
\* every try of the router: no audit entry.  A failed refresh marks the
\* connection, whatever its status is by then.
CredentialsFail(h) ==
  /\ stage[h] = "credentials"
  /\ ReplyWith(h, "internal_error")
  /\ conn' \in {conn, "error"}
  /\ UNCHANGED <<up, agent, policy, rows, decision, runVars, auditVars, queueVars>>

\* The credentials are there: the policy is evaluated and acted on.
Decide(h) ==
  /\ stage[h] = "credentials"
  /\ decision' = [decision EXCEPT ![h] = Evaluate(h)]
  /\ \/ /\ Evaluate(h) = "deny"
        /\ Log(h, "deny", FALSE, "policy", FALSE)
        /\ ReplyWith(h, "permission_denied")
        /\ UNCHANGED <<runVars, queueVars>>
     \/ /\ Evaluate(h) = "ask"
        /\ Queue!Ask(h)
        /\ GoTo(h, "approval")
        /\ UNCHANGED <<runVars, reply, auditVars>>
     \/ /\ Evaluate(h) = "allow"
        /\ StartRun(h)
        /\ UNCHANGED <<reply, auditVars, queueVars>>
  /\ UNCHANGED <<up, userVars, rows>>

\* requestApproval() returned 'approved': execute at once.
Granted(h) ==
  /\ stage[h] = "approval"
  /\ Queue!Grant(h)
  /\ StartRun(h)
  /\ UNCHANGED <<up, userVars, rows, decision, reply, auditVars>>

\* It returned 'denied', which the audit log takes for the user's answer.
Refused(h) ==
  /\ stage[h] = "approval"
  /\ Queue!Refuse(h)
  /\ Log(h, "ask", FALSE, "user", FALSE)
  /\ ReplyWith(h, "permission_denied")
  /\ UNCHANGED <<up, userVars, rows, decision, runVars>>

\* The branch of 'expired' without its return.
TimedOutRuns(h) ==
  /\ stage[h] = "approval"
  /\ Queue!Expire(h)
  /\ StartRun(h)
  /\ UNCHANGED <<up, userVars, rows, decision, reply, auditVars>>

\* It returned 'expired'.
TimedOut(h) ==
  /\ stage[h] = "approval"
  /\ Queue!Expire(h)
  /\ Log(h, "ask", FALSE, "timeout", FALSE)
  /\ ReplyWith(h, "approval_timeout")
  /\ UNCHANGED <<up, userVars, rows, decision, runVars>>

RunSucceeds(h) ==
  /\ stage[h] = "executing"
  /\ effect' = [effect EXCEPT ![h] = "ok"]
  /\ Log(h, decision[h], TRUE, ApprovedBy(h), TRUE)
  /\ ReplyWith(h, "result")
  /\ UNCHANGED <<up, userVars, rows, decision, runs, queueVars>>

\* A catch that logs the error and falls out of the try.
RunFailsUnnoticed(h) ==
  /\ stage[h] = "executing"
  /\ effect' = [effect EXCEPT ![h] = "failed"]
  /\ Log(h, decision[h], TRUE, ApprovedBy(h), FALSE)
  /\ ReplyWith(h, "result")
  /\ UNCHANGED <<up, userVars, rows, decision, runs, queueVars>>

\* The catch block, for every error but an AuthError.
RunFails(h) ==
  /\ stage[h] = "executing"
  /\ effect' = [effect EXCEPT ![h] = "failed"]
  /\ Log(h, decision[h], TRUE, ApprovedBy(h), FALSE)
  /\ ReplyWith(h, "service_error")
  /\ UNCHANGED <<up, userVars, rows, decision, runs, queueVars>>

\* The catch block on an AuthError names the variable effectiveAccountId, which
\* does not exist in executeServiceMethod(): a ReferenceError leaves the block
\* before the connection is marked and before the audit entry is written.
RunFailsAuth(h) ==
  /\ stage[h] = "executing"
  /\ effect' = [effect EXCEPT ![h] = "failed"]
  /\ ReplyWith(h, "internal_error")
  /\ UNCHANGED <<up, userVars, rows, decision, runs, auditVars, queueVars>>

\* A handler that answers only agents that are still paired.
RespondIfPaired(h) ==
  /\ stage[h] = "answering"
  /\ agent = "paired"
  /\ GoTo(h, "done")
  /\ UNCHANGED <<up, userVars, rows, decision, runVars, reply, auditVars, queueVars>>

\* sendResponse() ends.  That no relay took the event is only logged.  Too long
\* an answer cannot be encrypted (nip44-v3.ts writeU32BE throws): sendResponse()
\* throws, and as it is inside of the try, the catch block answers with
\* internal_error, whatever was executed.  When the text of an internal_error is
\* too long itself, the second sendResponse() throws and nothing is sent.
Respond(h) ==
  /\ stage[h] = "answering"
  /\ GoTo(h, "done")
  /\ \/ UNCHANGED reply
     \/ /\ reply[h] \notin {"internal_error", "approval_timeout"}
        /\ reply' = [reply EXCEPT ![h] = "internal_error"]
     \/ /\ reply[h] = "internal_error"
        /\ reply' = [reply EXCEPT ![h] = "unsent"]
  /\ UNCHANGED <<up, userVars, rows, decision, runVars, auditVars, queueVars>>

-----------------------------------------------------------------------------
\* The user

handlerVars == <<rows, stage, decision, runVars, reply, auditVars>>

Answer(h, a) ==
  /\ up
  /\ Queue!Answer(h, a)
  /\ UNCHANGED <<up, userVars, handlerVars>>

SetPolicy(p) ==
  /\ up
  /\ policy' = p
  /\ UNCHANGED <<up, agent, conn, handlerVars, queueVars>>

PauseAgent ==
  /\ up
  /\ agent = "paired"
  /\ agent' = "paused"
  /\ UNCHANGED <<up, conn, policy, handlerVars, queueVars>>

UnpauseAgent ==
  /\ up
  /\ agent = "paused"
  /\ agent' = "paired"
  /\ UNCHANGED <<up, conn, policy, handlerVars, queueVars>>

\* The status and the agent's policies, but neither its handlers nor its
\* pending approvals.
RevokeAgent ==
  /\ up
  /\ agent' = "revoked"
  /\ policy' = "default"
  /\ UNCHANGED <<up, conn, handlerVars, queueVars>>

\* DELETE /api/connections/:id up to its first wait; the status follows when
\* the token is revoked, or never if the daemon dies meanwhile.
DisconnectPolicies ==
  /\ up
  /\ policy' = "default"
  /\ UNCHANGED <<up, agent, conn, handlerVars, queueVars>>

\* Connect, reconnect, pause, unpause, disconnect, health checks and failed
\* refreshes write the status; here it may change at any time.
ConnectionChanges ==
  /\ up
  /\ conn' \in {"connected", "paused", "error", "disconnected"}
  /\ UNCHANGED <<up, agent, policy, handlerVars, queueVars>>

-----------------------------------------------------------------------------
\* Crashes and the environment

\* Every handler is gone; a call of requestApproval that was being made or was
\* open is lost with it.
Crash ==
  /\ up
  /\ up' = FALSE
  /\ stage' = [h \in Requests |-> IF h \in InFlight THEN "lost" ELSE stage[h]]
  /\ \/ /\ Queue!Lose
        /\ \A h \in Requests :
             outcome'[h] = "lost" /\ outcome[h] = "new" => stage[h] = "credentials"
     \/ /\ \A h \in Requests : outcome[h] # "open"
        /\ UNCHANGED queueVars
  /\ UNCHANGED <<userVars, rows, decision, runVars, reply, auditVars>>

Restart ==
  /\ ~up
  /\ up' = TRUE
  /\ UNCHANGED <<userVars, handlerVars, queueVars>>

\* The temp file of a pending approval changes behind the daemon's back.
Tamper(h) ==
  /\ stage[h] = "approval"
  /\ Queue!Tamper(h)
  /\ UNCHANGED <<up, userVars, handlerVars>>

Handler(h) ==
  \/ CredentialsFail(h)
  \/ Decide(h)
  \/ Granted(h)
  \/ Refused(h)
  \/ TimedOut(h)
  \/ RunSucceeds(h)
  \/ RunFails(h)
  \/ RunFailsAuth(h)
  \/ Respond(h)

Next ==
  \/ \E h \in Requests :
       \/ Receive(h)
       \/ Handler(h)
       \/ \E a \in {"approved", "denied"} : Answer(h, a)
       \/ Tamper(h)
  \/ \E p \in Decisions : SetPolicy(p)
  \/ PauseAgent
  \/ UnpauseAgent
  \/ RevokeAgent
  \/ DisconnectPolicies
  \/ ConnectionChanges
  \/ Crash
  \/ Restart

Spec == Init /\ [][Next]_vars

\* Every wait ends: fetch and the relays settle, and requestApproval() returns
\* (EveryCallEnds of ApprovalQueue).  A crash loses the handlers instead.
Fairness == \A h \in Requests : WF_vars(Handler(h))

FairSpec == Spec /\ Fairness
-----------------------------------------------------------------------------
\* Properties

\* The user "can revoke access anytime" (README.md:34).  What that comes to: once
\* the agent is revoked, no request is ever executed that was not already past the
\* checks of handleRequest(), whatever is redelivered, answered, reconnected,
\* changed in the policies or restarted later.  Those that were, the read or the
\* approval that is still waiting among them, are not stopped.
RevokedRunsNothingNew ==
  \A h \in Requests :
    [](agent = "revoked" /\ stage[h] \notin {"credentials", "approval", "executing"}
         => [](stage[h] # "executing"))

\* "Without deduplication, a single agent request could be executed twice"
\* (docs/dev/02-nostr-rpc.md:366): an event is executed at most once, also when
\* the relays deliver it again after a crash that lost its handler.
OncePerEvent == \A h \in Requests : runs[h] <= 1

\* The audit log tells what happened.  A request is never logged twice, and not
\* without its decision; its entry is approved if and only if the request was
\* executed, and ok if and only if that succeeded; no success goes unlogged.  It
\* names the policy for what was not asked, the timeout for a call that expired,
\* the user for what the user approved - and for every other call that came back
\* unapproved: for a row that the user denied, but also for one that the sweep
\* expired or whose hash did not match, with no answer of the user at all
\* (rpc-router.ts:555-565), although docs/dev/03-keepd.md:377 calls the field "Who
\* resolved it".  Only that much holds: no request that the user approved is booked
\* as refused, unless its stored copy was changed.
AuditIsTrue ==
  \A h \in Requests :
    /\ logged[h] <= 1
    /\ effect[h] = "ok" => audit[h] # {}
    /\ \A e \in audit[h] :
         /\ e.policy = decision[h]
         /\ e.approved <=> runs[h] # 0
         /\ e.ok <=> effect[h] = "ok"
         /\ e.by = "policy" <=> decision[h] # "ask"
         /\ e.by = "timeout" <=> outcome[h] = "expired"
         /\ e.by = "user" => IF e.approved THEN answer[h] = "approved"
                            ELSE /\ outcome[h] = "refused"
                                 /\ answer[h] # "approved" \/ altered[h]

\* What the agent is told is true as far as it goes: a result comes only from an
\* execution that succeeded, a service error only from one that failed, and a
\* refusal hides no execution.  After an execution that succeeded it gets the
\* result or internal_error (or nothing), which therefore tell it nothing about
\* whether the request was executed, so that a retry may run it a second time.
RepliesAreTrue ==
  \A h \in Requests :
    /\ reply[h] = "result" => effect[h] = "ok"
    /\ reply[h] = "service_error" => effect[h] = "failed"
    /\ reply[h] \in Refusals => runs[h] = 0
    /\ effect[h] = "ok" => reply[h] \in {"result", "internal_error"}

\* The handler of every accepted request ends with an answer for its agent (or
\* with an internal_error too long to be sent), unless a crash takes it.
EveryRequestAnswered ==
  \A h \in Requests :
    h \in InFlight ~> \/ stage[h] = "done" /\ reply[h] # "none"
                     \/ stage[h] = "lost"

\* "Every request is logged regardless of outcome (approved, denied, timed out,
\* errored)" (apps/keepd/src/managers/audit-logger.ts:4): an execution whose
\* handler lives to send its answer has an audit entry.
EveryRunAudited ==
  \A h \in Requests : stage[h] = "done" /\ runs[h] > 0 => audit[h] # {}
=============================================================================
