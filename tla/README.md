# A TLA+ specification of KeepAI

KeepAI lets AI agents use a user's accounts (Gmail, GitHub, Notion, MCP
servers) without holding their credentials. A daemon on the user's machine,
*keepd*, receives requests of paired agents as encrypted Nostr events, checks
them against the user's policies, asks the user where a policy says so, calls
the service with credentials that only it has, and answers.

These modules specify the part of keepd that decides *whether, when and how
often something is done in the user's name*. Small instances are model-checked
with TLC; the safety properties are proved with TLAPS for every value of the
constants. Paths below are relative to `src/`.

1. The system and its hard parts
2. How the code maps to the models
3. The modules
4. The runs: bounds and what they show
5. Fairness
6. Proofs
7. Where the code disagrees with its documentation
8. Observations
9. What is not modelled
10. Plan

## 1. The system and its hard parts

| component | state | operations | who it meets |
|---|---|---|---|
| **approval queue** `apps/keepd/src/managers/approval-queue.ts`, `packages/db/src/stores/approval-store.ts`, `routes/queue.ts` | rows of `approval_queue`, a temp file per request, one poll loop per open call | `requestApproval`, poll, `approve`, `deny`, `expireStale`, `expireOld`, `cleanupResolved` | the router waits in it; the user answers over HTTP; the clean-up interval and start-up sweep it |
| **request flow** `apps/keepd/src/rpc-router.ts`, `managers/audit-logger.ts` | one handler per event, `audit_log` | check agent and connection, wait for credentials, evaluate, ask, execute, log, answer | everything below |
| **nostr RPC** `packages/nostr-rpc/src/*` | `rpc_requests`, relay subscriptions, pending calls of the caller | `listen`, `updateSubscription`, reconnect, `handleEvent`, deduplication, publish; the agent's `call` with its timeout | relays that lose, repeat and delay |
| **policy engine** `managers/policy-engine.ts`, `packages/db/src/stores/policy-store.ts`, `packages/proto/src/constants.ts` | rows of `policies`, a cache of migrated documents | `evaluate`, `savePolicy`, defaults for an agent or an account, deletion, migration | router, pairing, routes of agents, policies and connections |
| **connection manager** `packages/connectors/src/manager.ts`, `packages/db/src/stores/connection-store.ts`, `routes/connections.ts` | the row of `connections` with status and credentials, the promise of a refresh under way | `getCredentials`, refresh, health check, pause, disconnect, authorize | router, health timer, user, provider, billing clean-up |
| **agents and pairing** `managers/agent-manager.ts`, `routes/agents.ts`, `apps/keepai/src/sdk.ts` | `agents`, `pending_pairings`, the subscribed keys; on the agent's machine identity and configuration | create and cancel a code, pair, rename, pause, unpause, revoke; `init` and `disconnect` of the SDK | router, policies, nostr RPC |
| **connectors** `packages/connectors/src/executor.ts`, `connectors/*` | none: tables of methods and requests, error classifiers | `extractPermMetadata`, `execute`, resolution of ids | policy engine, router, services |
| **MCP connector** `packages/connectors/src/mcp-connector.ts`, `packages/mcp-client/src/session.ts` | one tool list, token and session for all accounts of a service | `ensureReady`, `reset`, tool calls | router, connection manager |
| **billing** `managers/billing-manager.ts` | tokens of the billing account | sign-in, refresh, registration, `fullSync` | connections it cleans up |
| **server** `apps/keepd/src/server.ts` | intervals and start-up order | clean-up, health checks, migration of files | all of them |

What makes it hard is not parallelism: Node runs one callback at a time. It is
that a request *waits* up to four times - for a token refresh, for the user, for
the service, for the relays - and that in each wait the user may revoke the
agent, change the policy, pause or disconnect the account, or authorize it
anew; timers sweep the same rows; and the process may die. What was
read before a wait is used after it. The hazards this leads to, each at its
line and with the property that watches over it, are listed in `PROJECT.json`.

What makes each component correct:

* approval queue - what is granted is what the user approved, on the untouched
  request; nobody times out early; every call and every row comes to an end.
* request flow - nothing is executed that policy or user does not permit at
  that moment, nothing new once the agent is revoked, nothing twice; the audit log
  and the reply tell the truth, as far as they go.
* policy engine - a decision follows the document stored now: the cache cannot
  be seen; old documents should keep their meaning, and do not (section 7).
* connection - one refresh at a time, so that no rotating token is spent twice;
  the stored token is the current one; only the user connects or disconnects.
* nostr RPC - an event is executed once however often it arrives, a call returns
  the answer to its own event, and the daemon is never deaf.
* agents - a pairing code makes one agent of one machine, and both sides know it;
  every live key is subscribed; policy rows come and go with agents and accounts.
* connectors - nothing is sent that the decision does not cover, the operation type
  the policy goes by is that of the request (four methods are known exceptions), and
  a failure is called the same whichever connector it comes from.
* MCP connector - a tool runs only for a call that was let through, at most
  once, in spite of a session and a token that all calls share.

## 2. How the code maps to the models

**Steps.** `better-sqlite3` and the `fs` calls used here are synchronous, and a
promise that needs no I/O resolves before any other callback runs. So an action
is all the code between two real waits (a timer, a request to the network), with
every statement it executes. A guard of an action is the code's condition, at
the place where the code evaluates it: what the code checks before a wait is not
a guard of what it does after it.

**Crashes.** A crash may come between any two actions. Where one callback makes
several durable changes (file and row in `requestApproval()`, row and file in
`deny()` and the timeout branches, upsert and credentials in the end of an
authorization, agent and pairing in `completePairing()`) there are crash actions
for the states in between (`CrashInRequest`, `CrashBeforeUnlink`,
`CrashInAuthorize`, `CrashInPairing`). A crash loses
everything in memory - poll loops, handlers, promises, the cache - and keeps
rows and files.

**Time.** Only what is compared with a clock has one. A tick is one poll interval; SQLite's
`unixepoch()` counts whole seconds, so `created_at` and `updated_at` are
truncated as in the code (`FloorSecond`).

**Data.** A request, an account, a policy document or a token is a value that
can be compared, not text. The stored copy of a request is `intact` or not,
which is what its SHA-256 tells apart. Credentials are the authorization they
came from and the number of their refresh token.

**History variables** (marked `history:`) record what users did and what was
observed; no guard of a code action reads them.

Definitions that appear in pairs - `HashMatchesAnything` before
`HashMatches`, say - are the code and, before it, a variant with a plausible
mistake. Nothing uses the variants; each property was seen to fail with one of
them in place of the code's definition, so no property holds by accident.

## 3. The modules

### ApprovalContract, ApprovalQueue

`ApprovalContract` is what `requestApproval()` promises the router and what the
two routes promise the user: a call is open until it is granted, refused,
expired or lost; it is granted only if the user approved an untouched request.
`ApprovalQueue` is the code: rows, files, poll loops with `deadline` and `wake`,
the user's answers, a timeout setting that may change while calls wait, the
sweeps, start-up between `createServer()` and `listen()`, tampering, crashes.

| TLA+ | code |
|---|---|
| `RequestApproval` | `requestApproval()` up to the first `sleep` |
| `PollReturns`, `PollAgain`, `PollTimeout` | the body of the loop; the code after it |
| `Approve`, `Deny` | `approve()`, `deny()` behind `POST /api/queue/:id/...` |
| `Resolve` | `ApprovalStore.resolve()`, which has no guard on the status |
| `Cleanup`, `StartupExpire` | the interval job; step 16 of `createServer()` |
| `HashMatches` | `verifyHash()` |

`ApprovalQueue` implements `ApprovalContract` under the mapping
`Outcome(r)`, computed from poller and verdict.

### RequestFlow

A handler per event, by what it waits for: `credentials`, `approval`,
`executing`, `answering`. It uses the approval queue through
`Queue == INSTANCE ApprovalContract`, which is sound because the queue
implements it. The user changes policies, pauses, unpauses and revokes the
agent and changes the connection at any time; `DisconnectPolicies` is the part
of a disconnect before its wait. `conn` may take any value at any time
(`ConnectionChanges`): module `Connections` says which it really takes, and the
flow must be right for all.

| TLA+ | code |
|---|---|
| `Receive` | `handleEvent()` with `tryInsertRequest()`, the checks of `handleRequest()` and their replies (`rejected` stands for `not_found` and `invalid_request`) |
| `CredentialsFail`, `Decide` | `executeServiceMethod()` from `getCredentials()` to the decision |
| `Granted`, `Refused`, `TimedOut` | the three returns of `requestApproval()` |
| `RunSucceeds`, `RunFails`, `RunFailsAuth` | the end of the `try`, its `catch`, its branch for an `AuthError` |
| `Respond` | `sendResponse()`; an answer too long to be encrypted becomes `internal_error`, and that one, if too long itself, is not sent |

Rows of `rpc_requests` are kept for ever here; `Delivery` is about the code that
deletes them after an hour, and shows that no event gets past them. A second,
equal entry in the audit log would not show in a set of entries, so `logged` counts
them.

### PolicyRules, PolicyStore, PolicyEngine

`PolicyRules` holds the documents of both versions and the two functions on
them, `migratePolicy` and `match`. `PolicyStore` is a table of documents and
decisions that follow it. `PolicyEngine` adds what the code has: `updated_at` in
whole seconds, a cache validated by it, and all writers - saving, defaults for a
new agent or account, deletion by agent or account, a start that saves the
policy files of an older version. Each operation is synchronous; the hazard is
a *sequence* of them within one second. `PolicyEngine` implements `PolicyStore`.
`FirstMatch` is what the documentation says a document of version 1 means, for
comparison with `migratePolicy`.

### Connections

One account's row under concurrent calls of `getCredentials()`: by requests,
and by health checks, which probe the provider afterwards and then write the
status. The first caller that finds an expiring token refreshes it (`leader` is
the entry of `refreshPromises`), others join. The provider rotates refresh
tokens, may answer, refuse or not be heard, and may revoke. The user
authorizes, pauses, unpauses and disconnects; the billing clean-up
deletes rows it had listed as disconnected.

| TLA+ | code |
|---|---|
| `FindsNothing`, `FindsFresh`, `FindsExpired`, `JoinRefresh`, `StartRefresh` | the branches of `getCredentials()` |
| `RefreshSucceeds`, `RefreshIsRefused`, `RefreshIsLost` | `refreshToken()` and the `catch` and `finally` of its caller |
| `ProbeSucceeds`, `ProbeIsRefused`, `ProbeIsLost` | `checkConnectionHealth()` and what `server.ts` and `routes/connections.ts` do with its result |
| `Disconnect`, `FinishDisconnect`, `DisconnectAtOnce` | `disconnect()` before and after the revocation |
| `PurgeLists`, `PurgeEnds` | the loop over disconnected rows in `fullSync()` |
| `SoftDelete`, `HardDelete`, `Save`, `UpdateStatus` | the statements of the connection store |
| `ProviderAnswers`, `ProviderRevokes`, `TokenExpires` | the provider, as the code sees it (external) |

### Delivery

The way of a call to the daemon and back. The caller signs an event and
publishes it, and only then subscribes to the answer; the handler keeps one
subscription for its keys and replaces it when the keys change or the relay
closes it. A relay is external: it delivers an event to the subscriptions whose
`since` lets it pass, within `MaxDelay` or never, and as often as it likes. What the
handler runs is `RequestFlow`'s subject; here it ends with a result or an error,
or the process dies first. The clock of the agent may be ahead, and times in
events are whole seconds.

| TLA+ | code |
|---|---|
| `Publish`, `Subscribe`, `Receive`, `TimeOut` | `RPCCaller.call()` between its waits |
| `Start`, `Reconnect`, `UpdateSubscription`, `OnClose` | the methods of the same names of `RPCHandler`; `scheduleReconnect()` |
| `HandleEvent`, `Respond` | `handleEvent()` before and after `onRequest()` |
| `TryInsert`, `Cleanup` | the statements of the request store; the interval job |
| `RelayAccepts`, `RelayCloses`, `CloseReturns` | the relay pool (external) |

### Agents

The tables `pending_pairings` and `agents` with their keys and uniqueness, the
routes, `handlePair()` with its two waits (the icon; the list of connections),
the default policies that pairing and connecting write, and on the other side
`init()` and `disconnect()` of the SDK with the two files they keep. Requests
and answers of `pair` may be lost. A code, its id, its keys and the id of the
agent that comes of it are drawn together and are one value. `handlePair()` takes the
agent's key from the parameters of the request; `sdk.ts` sends the key it signs
with, and so does every request here. An account has the statuses of its row,
since `handlePair()` writes defaults for connected accounts only.

| TLA+ | code |
|---|---|
| `CreatePairing`, `CancelPairing`, `Rename`, `Pause`, `Unpause`, `Revoke` | the routes of `routes/agents.ts` |
| `IgnorePair`, `SecretIsUsed`, `PairingHasExpired`, `CreateFails`, `CompletePairing` | the ways out of `completePairing()` up to its wait |
| `Welcome` with `CreateDefaults` | `handlePair()` after it: default policies, answer |
| `CrashInPairing` | a kill between `agents.create()` and `pairings.delete()` |
| `Connect`, `Disconnect`, `FinishDisconnect` | what `routes/connections.ts` does to the policies of all agents |
| `PauseAccount`, `UnpauseAccount`, `Recheck` | the routes of pausing; `markConnected()` and `markError()` at the end of a check or a refresh, whatever the status is by then |
| `SavePolicy` | `PUT /api/agents/:agentId/policies/:connectionId`, which looks at no status |
| `InitClient`, `ClientIsPaired`, `ClientGivesUp`, `ClientDisconnects` | `init()` and `disconnect()` in `sdk.ts`, `storage.ts` |

### ToolContract, McpConnector

`ToolContract` is what calls that share an MCP connector may rely on: the tool
of a call runs only when the call was let through, at most once, and under the
account of a call that overlapped it; a result is returned only for a tool that ran. It
says *a call that overlapped it* and not *its own*, because that is what the code
does (section 8). `McpConnector` is the code: one token, one list of methods
and one session that each call overwrites and renews; a step runs
from one request to the MCP server to the next. It serves calls, help requests and
the start-up, and `Reset` comes with the disconnect of the last account.
`Phase(p)` maps it to the contract.

### ConnectorMethods, RestConnectors, SdkConnectors, CloudflareMethods, StripeMethods

The catalogue: the 1,351 methods that the nine compiled-in connectors declare,
each with its operation type, and the HTTP verb that the execute functions of
the five connectors that call `fetch()` (and X, where it can be seen) send for it. A name is a sequence of its parts; parameters, results
and descriptions are left out. `crudMethods` is the function of the Stripe
connector that makes methods of options. What a function of an SDK sends (Notion,
Cloudflare, Stripe) is not in the repository: its verb is `call`, and nothing is
concluded from it.

### ServiceCalls, ConnectorExecutor

`ServiceCalls` takes a call from the decision to the class of its answer:
`Decide` evaluates a saved document with `PolicyRules` on the *declared* operation
type, `Dispatch` sends the *actual* request, `AnswerCall` and `LoseCall`
classify. `EffectOf` is what a request is seen to do: a `DELETE`, or a `POST` whose path
names a deletion, deletes, any other request but a `GET` writes. While the user looks at a request, `ResolveId` may read from the service (`routes/resolve.ts`).
`Says(operation)` asks the same document about the same method as if it were
declared otherwise, and ties the two together. `ConnectorExecutor` is the
registry: a behaviour is about one connector, as connectors share no state,
either one of these or an MCP connector.

The state machine is in the module; `MC<module>` gives constants for TLC, and
`<module>Proofs` holds theorems.

## 4. The runs: bounds and what they show

| run | instance | shows |
|---|---|---|
| `queue` | 1 request that may start in the first two ticks of half a second, timers up to 1 tick late, timeouts of 1, 2 and 3 s, rows too old after 4 ticks, 2 crashes, 8 ticks | grants are the user's; an answer is lost only in the last sleep; nothing times out early; no file leaks; every call ends and no row stays pending, also without its poller; the queue implements the contract |
| `flow` | a read and a write of one agent | `OncePerEvent`, `AuditIsTrue`, `RepliesAreTrue`; after a revocation nothing runs that was not under way; every accepted request is answered |
| `policy` | 2 agents, 1 account, 4 methods in 2 groups, 4 documents of both versions, 2 ticks per second, 4 ticks | the cache cannot be seen; every document leads to a decision |
| `connections` | 1 request and 2 health checks, 2 authorizations (the second without refresh token), rotating refresh tokens | no token is spent twice; the stored one is current; calls return what is stored; nobody but the user connects or disconnects a quiet connection; every call ends |
| `delivery` | 2 calls one after the other, the second of a client with another protocol version, 2 subscriptions, a clock of 3 s, 2 faults (closed by a relay, changed keys, crash) | every event is executed once although its row is cleaned up; answers are a call's own; the handler is never deaf and listens again |
| `agents` | 2 codes, 2 names, 2 keys, 2 machines, 1 account, codes that live 1 tick of 2 (symmetric) | subscription, answers, saved configurations and policy rows agree with the tables in every order of pairing, revoking, connecting, pausing, failing, being revived, editing policies and crashing |
| `connectors` | all 1,351 methods under 7 documents, every status; 2 uses of an MCP connector by 2 accounts, 1 tool, 1 reset | nothing is sent that the decision does not cover (`SentAsDecided`); a request that is seen to write or delete is sent only if the user permits that operation, but for four named methods (`OnlyPermittedChanges`); errors mean the same everywhere; the MCP connector implements its contract |
| `approval_overtaken`, `run_not_audited`, `migration_changes_meaning`, `disconnect_undone`, `network_marks_error` | smaller ones | the five disagreements of section 7 |

Why the bounds are enough for what they ask:

* *queue*: a poller meets the user and the sweeps only through its own row, and
  a sweep treats every row alike, so one request has every meeting there is; the
  proofs hold for any set of them. The shortest timeout spans two polls, so an
  answer may come before, in and after the last sleep; the setting may shrink or
  grow in between; the clock runs past the deadline of the latest request plus a
  poll. `MaxAge` (7 days in the code) is within the clock, so `expireOld()` and
  `cleanupResolved()` act, too.
* *flow*: handlers share the user's state, never each other's; two requests on
  which the default policy decides differently cover both ways in. Its state
  needs no bound besides the requests.
* *policy*: a key's entry depends on its own row only; a delete or a default
  touches a row of keys. Two keys and two seconds show writes within one second
  and across the boundary. The documents use each level of the tree, gaps
  included.
* *connections*: two calls that meet in one refresh and a third that comes when
  it has ended; an old and a new authorization. `MaxGrants` is
  the only bound on the user; at most one disconnect is under way, and each
  call is made once. More
  calls bring more refreshes of the same kind, and the proofs hold for any
  number of them.

* *delivery*: deduplication compares an event with its row and a subscription
  with its `since`, so one event, its repetitions and two overlapping
  subscriptions are the whole conflict; the second call is the later attempt
  whose answer the first must not be taken for. The constants keep the order of the code's
  (`MaxAge`, an hour, above `Overlap`, ten seconds, plus drift, delay and
  truncation), at their smallest: `RetentionAssumption` is tight, so a row kept
  one tick less, or not at all, is caught. Three seconds let a row
  be cleaned up while a subscription with an older `since` is open.
* *agents*: two codes and two machines show a code used twice, two codes used
  by one machine after another, and names or keys that meet; one account is
  enough because rows are written per pair, and what one agent's rows can do to
  another's needs two agents. Codes expire before, during and after their use.
  Users and checks change the account's status without bound.
* *connectors*: the methods are all there are. The documents are the default, the two
  plain ones with and without writes, one that permits only deletes, one that
  asks for them, one with groups and methods, and one of version 1. A call is
  independent of others, so one is enough. For the MCP connector two uses and one reset give
  two session objects of which the old is still in use; with one tool, a tool
  that vanishes between the decision and the execution comes from a reset or a
  failed start-up in between.

Deadlock is checked in every run but `connectors`, where a behaviour ends with
its calls, and none is found: the user, or a crash and a restart, can always act.

## 5. Fairness

Fairness is given to the machine, never to a user, an agent or a provider's
good will.

* `ApprovalQueue!FairSpec`: due timers fire (the poll loop), the clean-up
  interval keeps firing, a daemon that is down is started again, time goes on.
  Without the restart, an orphaned row stays pending - in the code too.
* `RequestFlow!FairSpec`: each wait of a handler ends. For the service and the
  relays that is `fetch()` and `publish()` settling; for the approval it is what
  `EveryCallEnds` of the queue says. A crash ends handlers as `lost`.
* `Connections!FairSpec`: a request to the provider is answered, refused or given
  up. That the provider answers is not assumed: `RefreshIsLost` is enabled as
  long as a call waits.
* `Delivery!FairSpec`: the daemon is started again, the reconnect timer fires,
  a closed subscription says so, and a relay that is asked again and again
  accepts in the end. That last is strong fairness: the late close of one
  attempt sets the timer that replaces the next attempt three seconds later
  (`rpc-handler.ts:79`, `:102`), so each attempt may be cut short, and if connecting
  always took longer than that the handler would go on for ever. No relay has to
  deliver anything, and nothing is assumed of callers.

Weak fairness is enough everywhere else: none of these steps is disabled by
another party except by being made unnecessary (a poller by the crash that takes it, a
joined call by its leader). `McpConnector` has no liveness property: `mcpFetch()`
has no timeout, so a request that the server never answers holds its call for ever.

## 6. Proofs

All theorems hold for every value of the constants that satisfies the named
assumptions of the modules, and for unbounded time and any number of requests
or calls. The assumptions say: intervals and seconds are positive, 0 ("unset")
is a setting, resolved rows live longer than a poll (`AgeAssumption`: the code
has 7 days against half a second), null values are not data, calls of requests
and of checks are different calls, documents are well-formed and the default
is one of them.

| module | theorems | inductive invariant |
|---|---|---|
| `ApprovalQueueProofs` | `TypeCorrect`, `GrantsAreApproved`, `OnlyLastSleepLost`, `FilesAreUnlinked`, `TimeoutsAreNotEarly`, `CallsEndInTime`, `QueueImplementsContract` | `QueueInv`, `WakesInTime` |
| `RequestFlowProofs` | `FlowTypeCorrect`, `RunsOnce`, `AuditEntriesTrue`, `RepliesTrue`, `RunsArePermitted`, `RevocationHolds`, `DecisionsAreAudited`, `FlowKeepsContract` | `FlowInv`, `DecidedOnce` |
| `PolicyEngineProofs` | `EngineTypeCorrect`, `EngineImplementsStore`, `MigrationMeaning` | `EngineInv` |
| `ConnectionsProofs` | `ConnectionTypeCorrect`, `RefusalsDeserved`, `StoredTokenCurrent`, `ConnectionStays`, `DisconnectionStays`, `StoredIsReturned`, `RefreshIsShared` | `ConnInv`, `Accompanied` |
| `DeliveryProofs` | `DeliveryTypeCorrect`, `DaemonIsNeverDeaf`, `EventsAreExecutedOnce`, `CallsReturnTheirAnswer`, `QuickCallersHear` | `ListenInv`, `RowsOutliveEvents`, `AnswerInv`, `AnswersComeLater` |
| `AgentsProofs` | `AgentsTypeCorrect`, `DaemonHearsWhoItKnows`, `PairingAnswersAreTrue`, `PairedMachinesAreAgents`, `DefaultsAreComplete`, `RowsAreRemoved` | `IInv` |
| `McpConnectorProofs` | `McpTypeCorrect`, `McpImplementsContract` | `IInv` |
| `ConnectorExecutorProofs` | `ErrorsMeanTheSame`, `DeclaredAsSent`, `ChangesArePermitted`, `CallsSendAsDecided`, `ExecutorTypeCorrect`, `ExecutorImplementsContract` | `ClassFitsStatus`, `PermitInv` |

* **Queue.** None of the properties is inductive: that a granted call was
  approved depends on which rows can say `approved` (only after
  the user's answer), and on a file that is intact never having been altered. `QueueInv`
  is a conjunction per request: `Lifecycle` (which row and file go with which
  state of the poller), `Answers` (row and verdict follow the answer), `Files`
  (an intact file is the hashed one, and a sleeping call's file is there unless
  somebody took it), `Timers` (a call that sleeps has seen its row pending less
  than a poll interval ago) and `Deadlines` (a deadline is no earlier than the
  creation time plus a timeout the user can have set).
  The refinement proof maps each action to a step of the contract or to a
  stutter; the crash maps to `Lose`, also when it comes in the middle of a call.
  `CallsEndInTime` is what is left of "every call ends" without fairness: a call
  begins its last sleep before its deadline (`WakesInTime`), so it never waits
  longer than the deadline, a poll and the lag, nor longer than a poll and the lag after
  the user's answer.
* **Flow.** The stage of a handler determines what may have happened: `Progress`
  (what is set at which stage, and that a row exists from the first step on,
  which is why a second delivery finds it), `Execution` (at most one run, with
  an effect exactly if there was one), `AuditTrue` (which entry goes with which
  decision, outcome and effect, and that there is at most one) and `ReplyTrue`
  (which reply leaves open what was executed: `internal_error` only). The decision
  and the start of a run under policy `allow` are one step, and so are grant and
  run; that is what `RunsArePermitted` rests on: policy and approval are those of
  the moment, agent and connection those of some earlier one. How much earlier is
  what `RevocationHolds` bounds: a request is past the checks before the revocation
  or never runs. `DecisionsAreAudited` says how
  much of the comment that `run_not_audited` refutes is true: everything that was
  decided and answered is in the audit log, but for the `AuthError`.
  `FlowKeepsContract` closes the composition: the flow takes only steps of
  `ApprovalContract`, which `QueueImplementsContract` says the queue implements.
* **Policy engine.** `Coherent`: an entry of the cache belongs to a row that
  exists, was read with the row's `updated_at`, and is its migrated document.
  That there is no entry without a row is what lets `CreateDefaults` write
  without telling the cache. The comparison of `updated_at` is then never
  decisive, which is as well, since it cannot tell writes of one second apart.
  `MigrationMeaning` has no precondition on the document: it says what becomes of
  every one of version 1, and when that is what the documentation says.
* **Connections.** `SingleFlight`: the leader is the only call that refreshes,
  and calls join only under a leader. `SentToken`: the token in flight is the
  one the provider accepts, unless its answer is on the way or lost.
  `StoredToken`: so is the one in the row when none is in flight. `Obeyed`: what the user did on a quiet row
  still shows. `ConnInv` was checked with TLC with and without rotation first.
  `RefreshIsShared` is the safety half of `EveryCallEnds`: whoever has joined a
  refresh (`Accompanied`) waits for the one that is under way.

* **Delivery.** Four invariants, one per question, each on top of the types.
  `ListenInv`: the current subscription is never one that `listen()` has closed,
  so the late close of a predecessor is the only spurious one. `RowsOutliveEvents`: an
  event that was executed has a row, or its horizon - the last moment at which a
  subscription that lets it pass can deliver it - is over; two truncations to
  seconds are where an hour could lose two. `AnswersAreTrue` ties answers
  to what was done with their event, `AnswersComeLater` their times.
* **Agents.** `IInv`: `KeysAgree` (an agent has the key of the one client that was
  answered with success, and who is still handled cannot be another's),
  `ClientsFit` (what each machine has saved came with its own code), and the
  properties themselves. The rows of policies are written by five actions that
  look at different statuses, or at none, so the two properties about them name
  their exceptions by history variables: `skipped` are the pairs that a pause of
  either, a failed check, a crash or a revived account has left without a row,
  `late` the rows written when their agent or account was already removed.
* **MCP connector.** `MeetsAll`: a call that runs has met every open use.
  `TokenIsMet`: so the shared token, and the one a request carries, belongs to a use
  that the call has met, whoever overwrote it last. `RunsOnce`: nothing has run
  before the one request that is served. From these every step of the connector
  is a step of the contract or a stutter; new sessions and repeated requests are stutters.
* **Connectors.** The tables of methods and of requests need not be compared
  entry by entry: in each of them the *name* of an action bounds what may be
  declared with it and what may be sent for it (`ByName`, by `ReadingNames` and
  `DeletingNames`), which the provers check on the tables as they stand. From this
  `DeclaredAsSent`, an equivalence: a method whose request is seen to write or delete
  is declared as what it does, *unless* it is one of four methods of Hetzner's
  (`DeclaredOtherwise`), and those are declared otherwise. Then `AsFarAsPermitted`: how far a
  call has come is what its document says of the declared type, and the user's
  approval. It is what makes `OnlyPermittedChanges` inductive, and with it
  `CallsSendAsDecided`, that a denied or unknown call sends nothing and one that waits for
  the user only look-ups. About the verb `call` of X and of the SDKs,
  `OnlyPermittedChanges` says nothing and `CallsSendAsDecided` all there is. The executor
  with an MCP connector takes the steps of `McpConnector` and no others, so that the
  refinement carries over (`ExecutorImplementsContract`).

Three assumptions carry weight: `RetentionAssumption` of `Delivery` (an hour is
more than window, drift, delay and two truncations); in `McpConnector`, that the server
answers "session not found" only when it has not run the tool, which is what
`SessionLost` says of it; and `PoliciesAssumption` of `ServiceCalls`, that a
saved document migrates to one of version 2, which lemma `MigrationIsV2` of
`PolicyEngineProofs` shows for the well-formed documents of both versions.

Only model-checked: the liveness properties (`EveryCallEnds` of queue and
connections, `NoRowPendingForever`, `EveryRequestAnswered`, `ListensAgain`), which need
fairness and `ENABLED`; and the violated properties of section 7, which are refuted by
their counterexamples. Every other property of a run is a theorem.

## 7. Where the code disagrees with its documentation

Each is a run whose property TLC violates; the quotes are in `PROJECT.json`.

* `approval_overtaken` - the user approves during the poller's last sleep and is
  told "success"; the timeout branch overwrites the row without reading it.
  `OnlyLastSleepIsLost` proves that this is the only window.
* `run_not_audited` - an `AuthError` of the service is answered with an internal
  error and never audited, as its `catch` branch refers to a variable of another
  function.
* `migration_changes_meaning` - the rules of a document of version 1 are "first match
  wins", with a default and restrictions to methods and accounts
  (`docs/dev/07-permissions.md:55-60`); `migratePolicy()` lets the last rule win, for
  every method and account, and forgets the default. The read-only agent of that page
  (`:92`) is asked about writes instead of refused; a rule that allows one
  method allows every method of its operations. `MigrationMeaning` says what holds.
* `disconnect_undone` - a health check under way during a disconnect makes the
  row `connected` again.
* `network_marks_error` - a refresh that fails for want of a network marks the
  connection as broken for good, against the comment that such errors are transient.

## 8. Observations

Found while the models were written; none is a run of its own.

*Requests and agents.*
* A request that waits - for a token refresh, the user or the service - when its
  agent is revoked is not stopped (README.md:34: "can revoke access anytime").
  Revocation deletes the policy row, so a read that the user had denied is decided by
  the default, and executed, if its credentials come after that
  (`rpc-router.ts:506`). `RevokedRunsNothingNew` and theorem `RunsArePermitted` say
  what holds instead.
* An entry of the audit log is booked on `user` also when the clean-up expired its
  row or its hash did not match, with no answer of anybody
  (`rpc-router.ts:555-565`; `docs/dev/03-keepd.md:377`: "Who resolved it").
* An execution that succeeded is answered `internal_error` when its result is too
  long to be encrypted (`nip44-v3.ts:18`, `:46`; the `catch` of
  `rpc-handler.ts:179-194`), so an agent that retries runs it twice.
* A request that fails at its credentials leaves no audit entry.
* A row may expire up to a second early, as `created_at` is truncated.
* "Revoke agent (delete identity + policies)" (`docs/dev/03-keepd.md:91`): rows come
  back. A pairing or an authorization under way writes its defaults afterwards, and
  the route that saves a policy serves revoked agents and disconnected accounts
  (`routes/policies.ts:108-149`). Nothing deletes such rows: `late` in `NothingOutlives`.
* Agents that are paused when an account is connected get no default policies for it
  (`routes/connections.ts:136`, `:227`), nor does an agent for an account that is
  paused or failed while it pairs and comes back later (`rpc-router.ts:353-361`,
  `connections.ts:313-330`, `:350-351`), nor anybody for an account that a check
  revives after its disconnect: `skipped` in `DefaultsComplete`. The default
  policy decides then, as if there were a row.
* A disconnect whose revocation takes long deletes a connection that the user has
  authorized anew meanwhile (`manager.ts:496`), and so does the billing clean-up
  (`billing-manager.ts:385`).
* A machine whose answer to `pair` is lost stays unpaired with its code used up.
  A second `init()` on a paired machine overwrites the identity before it knows
  whether it will succeed (`sdk.ts:140`); if not, the old pairing is lost.

*MCP connectors.*
* The token is a field of the connector, set before each request of a session but
  read by the session when it sends. Between the two other calls may set it: a tool
  can run under the account of another call that overlaps (`mcp-connector.ts:60`,
  `session.ts:127`). `ToolContract` states what remains.
* The retry after a 401 in `specs/12` ("refresh token, create new session, retry once") does not
  exist. The methods are built when there are none, not after each new session
  as the five minutes of its text suggest.
* Two initializations at a time clear each other's session id; a failed start-up
  clears the methods that a call has loaded. Both only fail calls.
* `ensureReady()` runs outside the executor's `try`, so its errors are not
  classified; `STATUS_IN_MESSAGE` (`executor.ts:111`) classifies an error of a
  tool by its text.

*Catalogue.*
* `crudMethods()` adds `retrieve` and `update` only where the options name them,
  which two resources do (`methods-core.ts:145`, `:151`); `customers.retrieve` and about
  85 other methods of the specification are not declared. Stripe's deletions are
  called `delete` where the SDK says `del`.
* Hetzner's `pricing.get` is declared and has a case of its own, but not before
  the lookup that refuses its resource (`specs/hetzner-methods-infrastructure.md:51`).
  It ends as `DispatchFails`.
* Four methods are declared as something else than what they send
  (`DeclaredOtherwise`): Hetzner's `requestConsole` is a read and a `POST`
  (`hetzner.ts:165`), its `deleteSubnet`, `deleteRoute` and `deleteService` are writes
  and delete (`:275`, `:283`, `:426`). Under the default policy the first is not
  asked about, and a user who permits writes but not deletions permits the others.
* Declared operation types that a reader may not expect: of Stripe's `cancel`
  methods two are deletes and ten writes; X has `unlike` and `unfollow` as writes and `removeBookmark` as a
  delete; two methods of Cloudflare are reads in its specification and writes
  in the code.
* What `fetch()` throws without an answer has its code in `cause`, not at the top,
  so that it is not called a network error; 408 is an error of the call for
  Cloudflare and Stripe and a network error for the others. Both are why
  `OneErrorLanguage` says no more. Stripe's refused grant, a 400, is an authentication
  error, and an answer that its SDK cannot read an error of the call
  (`stripe/index.ts:243-264`).

## 9. What is not modelled

* In *Connections*: the in-memory health tracker (it changes no row), labels,
  `last_used_at`, the migration of credential files, the pending states of
  the OAuth flow before the provider's answer.
* In *RequestFlow*: `ping`, `help` and listing services (no state).
  Connectors are one step that succeeds or fails; `ServiceCalls` is about that step.
* In *PolicyRules*: documents without `default`, which the routes accept and the
  user interface never sends. The migration of policy files at start-up is a save.
* In *Delivery*: several relays (the pool behaves like one that repeats more),
  and agents besides one; `RequestFlow` has the meeting of requests.
* In *Agents*: icons, types of agents, `last_seen`.
* In *McpConnector*: how tools become methods and names, parsing of event streams,
  discovery and registration at OAuth servers.
* In the catalogue: parameters, results, descriptions, and what an SDK sends.
* The billing account (sign-in, token refresh, registration): a handful of
  settings written by answers of a server that is not in the repository, which
  says what a late one means. Its only effect on the rest, the clean-up of
  disconnected rows, is in *Connections*.
* Encryption and pairing codes (pure data), the database's schema migrations
  (run once before anything else), HTTP and SSE wiring, user interface, desktop
  shell, command line, help texts: pure rendering or I/O.

## 10. Plan

Done, in order of weight for the system: the approval queue, the request flow,
the policy engine, connections, delivery, agents and pairing, the MCP connector,
the catalogue and execution of the other connectors; each with an instance for
TLC, an inductive invariant and proofs.

Left, should the code grow there: the pending states of the OAuth flow with cap,
eviction and age; the billing account's token with a sign-out during its refresh;
and a composition of `RequestFlow` with `Connections` that replaces
`ConnectionChanges` by the connection's own steps (the flow is right for all of them
already, as it lets the connection change at any time).
