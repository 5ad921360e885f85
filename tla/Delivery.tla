-------------------------------- MODULE Delivery --------------------------------
(***************************************************************************)
(* How a call of an agent reaches the daemon and its answer comes back:    *)
(* packages/nostr-rpc/src/rpc-caller.ts, rpc-handler.ts and transport.ts   *)
(* over relays that lose, delay and repeat events, with the rows of        *)
(* rpc_requests (packages/db/src/stores/rpc-request-store.ts) that keep a  *)
(* repeated event from being executed again.                               *)
(*                                                                         *)
(* A relay hands an event to the subscriptions whose `since` it passes, late *)
(* or never, and as often as it likes (the pool drops some of the          *)
(* repetitions).  The only promise asked of it is MaxDelay.  What the      *)
(* handler runs is RequestFlow's subject; here it returns a result or an   *)
(* error, or the process dies first.                                       *)
(***************************************************************************)
EXTENDS Naturals

CONSTANTS
  MaxCalls,   \* bound: calls of RPCCaller.call(), one after the other; a retry
              \* is a call of its own
  Foreign,    \* those of a client with another protocolVersion
  MaxSubs,    \* bound: subscriptions of the handler at a time
  Second,     \* ticks per second: created_at and since are whole seconds
  Overlap,    \* since: now - 10s
  Ahead,      \* how far the agent's clock is ahead of the daemon's, at most
  MaxPublish, \* the pool's timeout for publishing an event
  Timeout,    \* timeout of a call
  MaxDelay,   \* the relay delivers an event within this of the event or the
              \* subscription, whichever is later, or not at all
  MaxAge,     \* CLEANUP.RPC_REQUESTS_MAX_AGE
  LastCall,   \* bound: no call starts later
  MaxTime,    \* bound on the clock
  MaxFaults   \* bound: subscriptions the relay closes, changes of the keys and
              \* crashes of the daemon, together

Calls == 1 .. MaxCalls
Subs  == 1 .. MaxSubs
NoSub == 0   \* this.sub is null
Ended == {"result", "error", "reject", "timeout"}

ASSUME CallAssumption ==
  MaxCalls \in Nat /\ MaxSubs \in Nat /\ Foreign \subseteq Calls

ASSUME TimeAssumption ==
  /\ Second \in Nat \ {0}
  /\ {Overlap, Ahead, MaxPublish, Timeout, MaxDelay, MaxAge, LastCall, MaxTime, MaxFaults} \subseteq Nat
  /\ Overlap % Second = 0

\* An hour is longer than the window of a subscription, the drift of the
\* agent's clock, the delay of a relay and what two truncations lose together.
ASSUME RetentionAssumption ==
  MaxAge >= Overlap + Ahead + MaxDelay + 2 * (Second - 1)

VARIABLES
  now,        \* the daemon's clock
  call,       \* the caller's promise
  drift,      \* how far its clock is ahead
  sentAt,     \* when its event was signed
  heardAt,    \* when it subscribed to the answer
  answer,     \* the event that answers it
  answeredAt, \* and when that was signed
  up,         \* the daemon runs
  keyed,      \* currentPubkeys is not empty
  cur,        \* this.sub
  sub,        \* the state of each subscription
  opened,     \* when it was made: since is Overlap before
  timer,      \* reconnectTimer is set
  rows,       \* rpc_requests: event ids,
  rowAt,      \* and created_at
  handling,   \* handleEvent() awaits onRequest()
  runs,       \* history: how often onRequest() was called for it
  faults      \* what the bound counts

callerVars == <<call, drift, sentAt, heardAt>>
answerVars == <<answer, answeredAt>>
listenVars == <<keyed, cur, sub, opened, timer>>
workVars   == <<rows, rowAt, handling, runs>>
vars == <<now, callerVars, answerVars, up, listenVars, workVars, faults>>

\* The types of the variables.
TypeOK ==
  /\ now \in Nat
  /\ call \in [Calls -> {"idle", "publishing", "waiting"} \cup Ended]
  /\ drift \in [Calls -> 0 .. Ahead]
  /\ sentAt \in [Calls -> Nat] /\ heardAt \in [Calls -> Nat]
  /\ answer \in [Calls -> {"none", "result", "error", "reject"}]
  /\ answeredAt \in [Calls -> Nat]
  /\ up \in BOOLEAN /\ keyed \in BOOLEAN /\ timer \in BOOLEAN
  /\ cur \in Subs \cup {NoSub}
  /\ sub \in [Subs -> {"closed", "connecting", "open", "closing"}]
  /\ opened \in [Subs -> Nat]
  /\ rows \in SUBSET Calls
  /\ rowAt \in [Calls -> Nat]
  /\ handling \in SUBSET Calls
  /\ runs \in [Calls -> Nat]
  /\ faults \in Nat

FloorSecondBefore(t) == t - Second
FloorSecond(t) == t - (t % Second)

\* `since: Math.floor(Date.now() / 1000) - 10` lets an event through that was
\* signed at `created` (in whole seconds) by its author's clock.
SinceNow(created, t) == FloorSecond(t) <= created
Since(created, t) == FloorSecond(t) <= created + Overlap

\* A relay has not given up on an event of time t1 for a subscription of time t2.
InTime(t1, t2) == now <= t1 + MaxDelay \/ now <= t2 + MaxDelay
-----------------------------------------------------------------------------
\* The handler's subscription

\* The callback of a subscription that has closed, whichever closed.
OnCloseIgnoresTimer(c, k, t) == t
OnClose(c, k, t) == t \/ (c # NoSub /\ k)

\* listen(keys): the old subscription is closed, which its relays confirm
\* later, and a new one takes its place, if there is anything to listen to.
Listen(old, subs, keys) ==
  LET closing == [s \in Subs |-> IF s = old /\ subs[s] # "closed" THEN "closing" ELSE subs[s]] IN
  IF keys
  THEN \E s \in Subs :
         /\ closing[s] = "closed"
         /\ \A t \in 1 .. s - 1 : closing[t] # "closed"
         /\ cur' = s
         /\ sub' = [closing EXCEPT ![s] = "connecting"]
         /\ opened' = [opened EXCEPT ![s] = now]
  ELSE /\ cur' = NoSub
       /\ sub' = closing
       /\ UNCHANGED opened

\* updateSubscription(), when agents are paired, revoked or expire, or by the
\* cleanup interval with the same keys as before.
UpdateSubscription(keys) ==
  /\ up
  /\ faults < MaxFaults
  /\ Listen(cur, sub, keys)
  /\ keyed' = keys
  /\ faults' = faults + 1
  /\ UNCHANGED <<now, callerVars, answerVars, up, timer, workVars>>

RelayAccepts(s) ==
  /\ sub[s] = "connecting"
  /\ sub' = [sub EXCEPT ![s] = "open"]
  /\ UNCHANGED <<now, callerVars, answerVars, up, keyed, cur, opened, timer,
                 workVars, faults>>

\* Nothing is left of a closed subscription.
Closed(S) ==
  /\ sub' = [s \in Subs |-> IF s \in S THEN "closed" ELSE sub[s]]
  /\ opened' = [s \in Subs |-> IF s \in S THEN 0 ELSE opened[s]]

\* The relay refuses or drops a subscription.
RelayCloses(s) ==
  /\ sub[s] \in {"connecting", "open"}
  /\ faults < MaxFaults
  /\ Closed({s})
  /\ timer' = OnClose(cur, keyed, timer)
  /\ faults' = faults + 1
  /\ UNCHANGED <<now, callerVars, answerVars, up, keyed, cur, workVars>>

\* The close() of listen() awaits the connection, so that its callback finds the
\* successor in this.sub and takes the close for a lost connection.
CloseReturns(s) ==
  /\ sub[s] = "closing"
  /\ Closed({s})
  /\ timer' = OnClose(cur, keyed, timer)
  /\ UNCHANGED <<now, callerVars, answerVars, up, keyed, cur, workVars, faults>>

\* The timer of scheduleReconnect().  Closing the transport runs the callbacks
\* of open subscriptions at once, while this.sub is null, and those of the
\* others at once or later.
Reconnect ==
  /\ up
  /\ timer
  /\ timer' = FALSE
  /\ \E late \in SUBSET {s \in Subs : sub[s] \in {"connecting", "closing"}} :
       Listen(NoSub, [s \in Subs |-> IF s \in late THEN "closing" ELSE "closed"], keyed)
  /\ UNCHANGED <<now, callerVars, answerVars, up, keyed, workVars, faults>>
-----------------------------------------------------------------------------
\* The agent

\* call() up to `await publishEvent()`: the relays may have the event from now on.
Publish(c) ==
  /\ call[c] = "idle"
  /\ \A b \in 1 .. c - 1 : call[b] \in Ended
  /\ now <= LastCall
  /\ call' = [call EXCEPT ![c] = "publishing"]
  /\ \E d \in 0 .. Ahead : drift' = [drift EXCEPT ![c] = d]
  /\ sentAt' = [sentAt EXCEPT ![c] = now]
  /\ UNCHANGED <<now, heardAt, answerVars, up, listenVars, workVars, faults>>

\* Every relay has accepted or refused the event; only then the caller
\* subscribes to the answer and starts its timer.
Subscribe(c) ==
  /\ call[c] = "publishing"
  /\ call' = [call EXCEPT ![c] = "waiting"]
  /\ heardAt' = [heardAt EXCEPT ![c] = now]
  /\ UNCHANGED <<now, drift, sentAt, answerVars, up, listenVars, workVars, faults>>

\* The answer of call d is for call c: the filter by '#e' and the request id.
IsForAnyone(d, c) == TRUE
IsFor(d, c) == d = c

\* The filter of the caller, by the agent's clock, lets the answer through.
Audible(c, d) == Since(FloorSecond(answeredAt[d]), heardAt[c] + drift[c])

\* RPC_REJECT rejects, RPC_RESPONSE resolves or rejects; both close the
\* subscription, so that later events find no caller.
Receive(c) ==
  /\ call[c] = "waiting"
  /\ \E d \in Calls :
       /\ IsFor(d, c)
       /\ answer[d] # "none"
       /\ Audible(c, d)
       /\ InTime(answeredAt[d], heardAt[c])
       /\ call' = [call EXCEPT ![c] = answer[d]]
       /\ heardAt' = [heardAt EXCEPT ![c] = 0]
  /\ UNCHANGED <<now, drift, sentAt, answerVars, up, listenVars, workVars,
                 faults>>

TimeOut(c) ==
  /\ call[c] = "waiting"
  /\ now >= heardAt[c] + Timeout
  /\ call' = [call EXCEPT ![c] = "timeout"]
  /\ heardAt' = [heardAt EXCEPT ![c] = 0]
  /\ UNCHANGED <<now, drift, sentAt, answerVars, up, listenVars, workVars,
                 faults>>
-----------------------------------------------------------------------------
\* The daemon

Reply(c, kind) ==
  /\ answer' = [answer EXCEPT ![c] = kind]
  /\ answeredAt' = [answeredAt EXCEPT ![c] = now]

\* tryInsert() adds the row, or finds its event_id there.
TryInsertNothing(c) ==
  /\ UNCHANGED <<rows, rowAt>>
  /\ handling' = handling \cup {c}
  /\ runs' = [runs EXCEPT ![c] = @ + 1]

TryInsert(c) ==
  \/ /\ c \in rows
     /\ UNCHANGED workVars
  \/ /\ c \notin rows
     /\ rows' = rows \cup {c}
     /\ rowAt' = [rowAt EXCEPT ![c] = FloorSecond(now)]
     /\ handling' = handling \cup {c}
     /\ runs' = [runs EXCEPT ![c] = @ + 1]

\* handleEvent() up to `await onRequest()`: an event for a key that is no
\* longer known is ignored, one of another protocol version rejected each time.
HandleEvent(s, c) ==
  /\ up
  /\ sub[s] \in {"open", "closing"}
  /\ call[c] # "idle"
  /\ Since(FloorSecond(sentAt[c] + drift[c]), opened[s])
  /\ InTime(sentAt[c], opened[s])
  /\ \/ ~keyed /\ UNCHANGED <<answerVars, workVars>>
     \/ keyed /\ c \in Foreign /\ Reply(c, "reject") /\ UNCHANGED workVars
     \/ keyed /\ c \notin Foreign /\ TryInsert(c) /\ UNCHANGED answerVars
  /\ UNCHANGED <<now, callerVars, up, listenVars, faults>>

\* onRequest() returns and the answer is published.  A result that cannot be
\* encrypted is answered with internal_error by the same handler.
Respond(c) ==
  /\ c \in handling
  /\ handling' = handling \ {c}
  /\ \E kind \in {"result", "error"} : Reply(c, kind)
  /\ UNCHANGED <<now, callerVars, up, listenVars, rows, rowAt, runs, faults>>

\* cleanupOld()
Cleanup ==
  LET old == {c \in rows : rowAt[c] + MaxAge < now} IN
  /\ up
  /\ rows' = rows \ old
  /\ UNCHANGED <<now, callerVars, answerVars, up, listenVars, rowAt, handling, runs,
                 faults>>

\* The process dies, or close() ends it: the rows stay.
Crash ==
  /\ up
  /\ faults < MaxFaults
  /\ up' = FALSE
  /\ cur' = NoSub
  /\ Closed(Subs)
  /\ timer' = FALSE
  /\ handling' = {}
  /\ faults' = faults + 1
  /\ UNCHANGED <<now, callerVars, answerVars, keyed, rows, rowAt, runs>>

\* createServer() listens for the keys it finds.
StartDeaf ==
  /\ ~up
  /\ up' = TRUE
  /\ UNCHANGED <<now, callerVars, answerVars, listenVars, workVars, faults>>

Start ==
  /\ ~up
  /\ up' = TRUE
  /\ Listen(NoSub, sub, keyed)
  /\ UNCHANGED <<now, callerVars, answerVars, keyed, timer, workVars, faults>>

Tick ==
  /\ now < MaxTime
  /\ \A c \in Calls : call[c] = "publishing" => now < sentAt[c] + MaxPublish
  /\ now' = now + 1
  /\ UNCHANGED <<callerVars, answerVars, up, listenVars, workVars, faults>>
-----------------------------------------------------------------------------
Init ==
  /\ now = 0
  /\ call = [c \in Calls |-> "idle"]
  /\ drift = [c \in Calls |-> 0]
  /\ sentAt = [c \in Calls |-> 0] /\ heardAt = [c \in Calls |-> 0]
  /\ answer = [c \in Calls |-> "none"]
  /\ answeredAt = [c \in Calls |-> 0]
  /\ up = FALSE
  /\ keyed = TRUE
  /\ cur = NoSub
  /\ sub = [s \in Subs |-> "closed"]
  /\ opened = [s \in Subs |-> 0]
  /\ timer = FALSE
  /\ rows = {}
  /\ rowAt = [c \in Calls |-> 0]
  /\ handling = {}
  /\ runs = [c \in Calls |-> 0]
  /\ faults = 0

CallNext(c) == Publish(c) \/ Subscribe(c) \/ Receive(c) \/ TimeOut(c) \/ Respond(c)

SubNext(s) ==
  \/ RelayAccepts(s)
  \/ RelayCloses(s)
  \/ CloseReturns(s)
  \/ \E c \in Calls : HandleEvent(s, c)

Next ==
  \/ \E c \in Calls : CallNext(c)
  \/ \E s \in Subs : SubNext(s)
  \/ \E keys \in BOOLEAN : UpdateSubscription(keys)
  \/ Reconnect
  \/ Cleanup
  \/ Crash
  \/ Start
  \/ Tick

Spec == Init /\ [][Next]_vars

\* The reconnect timer fires and the daemon is started again.  A relay that
\* is asked again and again accepts in the end before the next reconnect (strong
\* fairness: the late close of one attempt may cost the next one its three
\* seconds, for ever if connecting always takes longer).  No relay has to
\* deliver anything.
Fairness ==
  /\ WF_vars(Start)
  /\ WF_vars(Reconnect)
  /\ \A s \in Subs : SF_vars(RelayAccepts(s)) /\ WF_vars(CloseReturns(s))

FairSpec == Spec /\ Fairness
-----------------------------------------------------------------------------
\* Properties

\* "A single agent request" is executed once, however often relays deliver its
\* event to overlapping and later subscriptions, before and after a restart
\* and after its row has been cleaned up (rpc-handler.ts:167, server.ts:303).
ExecutedOnce == \A c \in Calls : runs[c] <= 1

\* What a call returns is the answer to its own event: a result or an error
\* after it was executed, a reject only when nothing was, and never the late
\* answer to an earlier attempt (rpc-caller.ts:90-130).
AnswersAreOwn ==
  \A c \in Calls :
    /\ call[c] \in {"result", "error"} => runs[c] > 0 /\ c \notin Foreign
    /\ call[c] = "reject" => runs[c] = 0 /\ c \in Foreign

\* While there are keys to listen to, the handler has a subscription that the
\* relay serves or is about to, or a reconnect scheduled: closing, replacing
\* and reconnecting never leave it deaf (rpc-handler.ts:52-106).
NeverDeaf ==
  up /\ keyed => timer \/ (cur # NoSub /\ sub[cur] \in {"connecting", "open"})

\* The caller subscribes only after it has published, with a filter of its own
\* clock: as long as the publishing took, plus the drift, no longer than the
\* ten seconds of the filter, it lets the answer through (rpc-caller.ts:80-95).
QuickCallsHearTheirAnswer ==
  \A c \in Calls :
    (call[c] = "waiting" /\ answer[c] # "none"
       /\ heardAt[c] + drift[c] <= sentAt[c] + Overlap) => Audible(c, c)

\* After a crash, a closed subscription or a change of keys the handler is
\* listening again in the end.
ListensAgain == keyed ~> ~keyed \/ (up /\ cur # NoSub /\ sub[cur] = "open")
=============================================================================
