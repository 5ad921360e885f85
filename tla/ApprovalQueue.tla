----------------------------- MODULE ApprovalQueue -----------------------------
(***************************************************************************)
(* The approval queue of keepd: apps/keepd/src/managers/approval-queue.ts  *)
(* over the approval_queue table (packages/db/src/stores/                  *)
(* approval-store.ts), the routes of routes/queue.ts, the cleanup job and  *)
(* the start-up of server.ts.                                              *)
(*                                                                         *)
(* Every call of requestApproval() is a request: it writes a temp file and *)
(* a pending row, then polls the row until somebody resolved it or its own *)
(* deadline passed.  The user answers through HTTP, the cleanup job        *)
(* expires old rows, and a crash of the process takes the pollers with it  *)
(* and leaves the rows and the files.  The row is the only channel between *)
(* the parties, so each of them acts on what it read there last.           *)
(*                                                                         *)
(* Node runs one callback at a time and better-sqlite3 and the fs calls    *)
(* used here are synchronous, so one callback is one action; only the      *)
(* sleep of the poll loop (and a crash) separates two of them.             *)
(***************************************************************************)
EXTENDS Integers, FiniteSets

CONSTANTS
  Requests,        \* the calls of requestApproval, one fresh row id each
  PollInterval,    \* the sleep of the poll loop, in ticks
  Second,          \* ticks per second: SQLite's unixepoch() truncates to it
  Settings,        \* values (in seconds) the user gives approvalTimeout; 0: unset
  DefaultTimeout,  \* TIMEOUTS.REQUEST, in ticks
  MaxAge,          \* CLEANUP.APPROVALS_MAX_AGE, in ticks
  MaxLate,         \* how late (ticks) a due timer may still run: event-loop lag
  LastRequest,     \* bound: no request after this tick
  MaxTime,         \* bound: the clock stops here
  MaxCrashes       \* bound: crashes of the daemon

ASSUME IntervalAssumption ==
  /\ PollInterval \in Nat \ {0}
  /\ Second \in Nat \ {0}
  /\ MaxLate \in Nat

ASSUME TimeoutAssumption ==
  /\ Settings \subseteq Nat
  /\ 0 \in Settings
  /\ DefaultTimeout \in Nat \ {0}

\* An answered row outlives the next poll, and a pending one the default timeout,
\* by far (7 days against 500 ms and 5 minutes).
ASSUME AgeAssumption ==
  /\ MaxAge \in Nat
  /\ MaxAge >= PollInterval + MaxLate + Second
  /\ MaxAge >= DefaultTimeout

ASSUME BoundAssumption ==
  /\ LastRequest \in Nat
  /\ MaxTime \in Nat
  /\ MaxCrashes \in Nat

VARIABLES
  now,         \* the clock, in ticks
  proc,        \* the daemon process
  crashes,     \* how often it crashed so far
  setting,     \* the approvalTimeout setting
  status,      \* approval_queue.status of a request's row, "none": no row
  resolvedBy,  \* approval_queue.resolved_by
  createdAt,   \* approval_queue.created_at
  resolvedAt,  \* approval_queue.resolved_at
  file,        \* the temp file of a request
  waiter,      \* the requestApproval call itself
  deadline,    \* its local `deadline`
  wake,        \* when the sleep it is in ends
  verdict,     \* what it returned
  answer,      \* history: the approve/deny call that was answered with success
  answeredAt,  \* history: when
  altered      \* history: somebody changed or removed the temp file

rowVars  == <<status, resolvedBy, createdAt, resolvedAt>>
waitVars == <<waiter, deadline, wake, verdict>>
userVars == <<answer, answeredAt>>
procVars == <<proc, crashes>>
vars == <<now, procVars, setting, rowVars, file, waitVars, userVars, altered>>

Status  == {"none", "pending", "approved", "denied", "expired"}
Verdict == {"none", "approved", "denied", "expired"}

TypeOK ==
  /\ now \in Nat
  /\ proc \in {"down", "starting", "up"}
  /\ crashes \in Nat
  /\ setting \in Settings
  /\ status \in [Requests -> Status]
  /\ resolvedBy \in [Requests -> {"none", "user", "timeout", "system"}]
  /\ createdAt \in [Requests -> Nat]
  /\ resolvedAt \in [Requests -> Nat]
  /\ file \in [Requests -> {"none", "intact", "altered"}]
  /\ waiter \in [Requests -> {"idle", "waiting", "returned", "lost"}]
  /\ deadline \in [Requests -> Nat]
  /\ wake \in [Requests -> Nat]
  /\ verdict \in [Requests -> Verdict]
  /\ answer \in [Requests -> {"none", "approved", "denied"}]
  /\ answeredAt \in [Requests -> Nat]
  /\ altered \in [Requests -> BOOLEAN]

-----------------------------------------------------------------------------
\* Helpers

FloorSecond(t) == t - (t % Second)

\* The unit forgotten: the setting taken for milliseconds.
TimeoutUnitForgotten == IF setting > 0 THEN setting ELSE DefaultTimeout

\* getTimeoutMs(): the setting if it parses to a positive number of seconds.
Timeout == IF setting > 0 THEN setting * Second ELSE DefaultTimeout

\* A poller that backs off.
NextPollBackoff == now + 2 * PollInterval

\* When the sleep that starts now ends.
NextPoll == now + PollInterval

Pending == {r \in Requests : status[r] = "pending"}
Waiting == {r \in Requests : waiter[r] = "waiting"}

\* A sweep that only start-up makes.
OlderThanAtStartup(age) ==
  {r \in Pending : proc = "starting" /\ createdAt[r] < now - age}

\* expireByTimeout() and expireOld() compare created_at with now - age.
OlderThan(age) == {r \in Pending : createdAt[r] < now - age}

\* A check that is not made, or made on the row instead of the file.
HashMatchesAnything(r) == status[r] # "none"

\* verifyHash(): the bytes of the temp file are those that were hashed.
HashMatches(r) == file[r] = "intact"

\* ApprovalStore.resolve(): no guard on the status the row has.
Resolve(R, st, by) ==
  /\ status' = [r \in Requests |->
                  IF r \in R /\ status[r] # "none" THEN st ELSE status[r]]
  /\ resolvedBy' = [r \in Requests |->
                  IF r \in R /\ status[r] # "none" THEN by ELSE resolvedBy[r]]
  /\ resolvedAt' = [r \in Requests |->
                  IF r \in R /\ status[r] # "none" THEN FloorSecond(now)
                                                   ELSE resolvedAt[r]]
  /\ UNCHANGED createdAt

\* A poller that leaves the file to the handlers.
UnlinkUnlessWaiting(R) ==
  file' = [r \in Requests |-> IF r \in R \ Waiting THEN "none" ELSE file[r]]

\* cleanupTempFile()
Unlink(R) == file' = [r \in Requests |-> IF r \in R THEN "none" ELSE file[r]]

Return(r, v) ==
  /\ waiter'  = [waiter EXCEPT ![r] = "returned"]
  /\ verdict' = [verdict EXCEPT ![r] = v]
  /\ UNCHANGED <<deadline, wake>>

Init ==
  /\ now = 0
  /\ proc = "up"
  /\ crashes = 0
  /\ setting = 0
  /\ status = [r \in Requests |-> "none"]
  /\ resolvedBy = [r \in Requests |-> "none"]
  /\ createdAt = [r \in Requests |-> 0]
  /\ resolvedAt = [r \in Requests |-> 0]
  /\ file = [r \in Requests |-> "none"]
  /\ waiter = [r \in Requests |-> "idle"]
  /\ deadline = [r \in Requests |-> 0]
  /\ wake = [r \in Requests |-> 0]
  /\ verdict = [r \in Requests |-> "none"]
  /\ answer = [r \in Requests |-> "none"]
  /\ answeredAt = [r \in Requests |-> 0]
  /\ altered = [r \in Requests |-> FALSE]

-----------------------------------------------------------------------------
\* The requester: requestApproval() and its poll loop

\* requestApproval() up to its first sleep: temp file, row, deadline, and a
\* first look at the row that can only find it pending.
RequestApproval(r) ==
  /\ proc # "down"
  /\ waiter[r] = "idle"
  /\ now <= LastRequest
  /\ file' = [file EXCEPT ![r] = "intact"]
  /\ status' = [status EXCEPT ![r] = "pending"]
  /\ createdAt' = [createdAt EXCEPT ![r] = FloorSecond(now)]
  /\ waiter' = [waiter EXCEPT ![r] = "waiting"]
  /\ deadline' = [deadline EXCEPT ![r] = now + Timeout]
  /\ wake' = [wake EXCEPT ![r] = NextPoll]
  /\ UNCHANGED <<now, procVars, setting, resolvedBy, resolvedAt, verdict,
                 userVars, altered>>

\* The sleep of the poll loop is over.
Due(r) == waiter[r] = "waiting" /\ now >= wake[r]

\* The wait restarts with every poll instead of running from the request.
TimedOutSinceLastPoll(r) == now >= wake[r] + Timeout

\* The condition of the loop, negated.
TimedOut(r) == now >= deadline[r]

\* The column next to the status.
PollVerdictOfResolver(r) == IF HashMatches(r) THEN resolvedBy[r] ELSE "denied"

\* What the body of the loop returns for the row it read.
PollVerdict(r) ==
  CASE status[r] = "approved" -> IF HashMatches(r) THEN "approved" ELSE "denied"
    [] status[r] = "expired"  -> "expired"
    [] OTHER                  -> "denied"    \* denied, or the row is gone

\* The loop body finds the row resolved: unlink the file and return.
PollReturns(r) ==
  /\ Due(r)
  /\ ~TimedOut(r)
  /\ status[r] # "pending"
  /\ Unlink({r})
  /\ Return(r, PollVerdict(r))
  /\ UNCHANGED <<now, procVars, setting, rowVars, userVars, altered>>

\* The loop body finds the row still pending and sleeps again.
PollAgain(r) ==
  /\ Due(r)
  /\ ~TimedOut(r)
  /\ status[r] = "pending"
  /\ wake' = [wake EXCEPT ![r] = NextPoll]
  /\ UNCHANGED <<now, procVars, setting, rowVars, file, waiter, deadline,
                 verdict, userVars, altered>>

\* The loop ends by its condition.  The code below it resolves the row
\* without reading it again.
PollTimeout(r) ==
  /\ Due(r)
  /\ TimedOut(r)
  /\ Resolve({r}, "denied", "timeout")
  /\ Unlink({r})
  /\ Return(r, "expired")
  /\ UNCHANGED <<now, procVars, setting, userVars, altered>>

-----------------------------------------------------------------------------
\* The user: POST /api/queue/:id/approve and /deny, PUT /api/config

\* A handler that trusts the list the user interface showed.
AnswerableIfListed(r) == proc = "up" /\ status[r] # "none"

\* approve() and deny(): false, and no change, unless the row is pending.
Answerable(r) == proc = "up" /\ status[r] = "pending"

Approve(r) ==
  /\ Answerable(r)
  /\ IF HashMatches(r)
       THEN /\ Resolve({r}, "approved", "user")
            /\ answer' = [answer EXCEPT ![r] = "approved"]
            /\ answeredAt' = [answeredAt EXCEPT ![r] = now]
       ELSE /\ Resolve({r}, "denied", "system")
            /\ UNCHANGED userVars
  /\ UNCHANGED <<now, procVars, setting, file, waitVars, altered>>

Deny(r) ==
  /\ Answerable(r)
  /\ Resolve({r}, "denied", "user")
  /\ Unlink({r})
  /\ answer' = [answer EXCEPT ![r] = "denied"]
  /\ answeredAt' = [answeredAt EXCEPT ![r] = now]
  /\ UNCHANGED <<now, procVars, setting, waitVars, altered>>

SetTimeout(s) ==
  /\ proc = "up"
  /\ setting' = s
  /\ UNCHANGED <<now, procVars, rowVars, file, waitVars, userVars, altered>>

-----------------------------------------------------------------------------
\* The daemon: cleanup job, start-up, crash

\* expireStale()
ExpireStale ==
  /\ Resolve(OlderThan(Timeout), "denied", "timeout")
  /\ Unlink(OlderThan(Timeout))

\* The interval job of server.ts: expireStale(), then expireOld() on the rows
\* that are still pending, then cleanupResolved() on the resolved ones.
Cleanup ==
  LET stale   == OlderThan(Timeout)
      tooOld  == OlderThan(MaxAge) \ stale
      deleted == {r \in Requests : /\ status[r] \notin {"none", "pending"}
                                   /\ resolvedAt[r] < now - MaxAge}
  IN
  /\ proc = "up"
  /\ status' = [r \in Requests |->
                  CASE r \in stale   -> "denied"
                    [] r \in tooOld  -> "expired"
                    [] r \in deleted -> "none"
                    [] OTHER         -> status[r]]
  /\ resolvedBy' = [r \in Requests |->
                  CASE r \in stale \cup tooOld -> "timeout"
                    [] r \in deleted           -> "none"
                    [] OTHER                   -> resolvedBy[r]]
  /\ resolvedAt' = [r \in Requests |->
                  IF r \in stale \cup tooOld THEN FloorSecond(now)
                                             ELSE resolvedAt[r]]
  /\ Unlink(stale)
  /\ UNCHANGED <<now, procVars, setting, createdAt, waitVars, userVars, altered>>

\* createServer() of a new process: the relay subscription is open, HTTP is not.
Start ==
  /\ proc = "down"
  /\ proc' = "starting"
  /\ UNCHANGED <<now, crashes, setting, rowVars, file, waitVars, userVars,
                 altered>>

\* Step 16 of createServer(), after which listen() opens HTTP.
StartupExpire ==
  /\ proc = "starting"
  /\ proc' = "up"
  /\ ExpireStale
  /\ UNCHANGED <<now, crashes, setting, waitVars, userVars, altered>>

\* A stop of the process: every waiting call is gone, rows and files stay.
StopProcess ==
  /\ proc # "down"
  /\ crashes < MaxCrashes
  /\ proc' = "down"
  /\ crashes' = crashes + 1
  /\ verdict' = verdict
  /\ UNCHANGED <<now, setting, createdAt, deadline, wake, userVars, altered>>

LoseWaiters(R) ==
  waiter' = [r \in Requests |-> IF r \in R THEN "lost" ELSE waiter[r]]

Crash ==
  /\ StopProcess
  /\ LoseWaiters(Waiting)
  /\ UNCHANGED <<status, resolvedBy, resolvedAt, file>>

\* The process is killed after writeFileSync() and before the row exists.
CrashInRequest(r) ==
  /\ StopProcess
  /\ waiter[r] = "idle"
  /\ now <= LastRequest
  /\ file' = [file EXCEPT ![r] = "intact"]
  /\ LoseWaiters(Waiting \cup {r})
  /\ UNCHANGED <<status, resolvedBy, resolvedAt>>

\* The process is killed after an UPDATE committed and before the unlink that
\* follows it: in deny(), in the timeout branch of a poller, in expireStale().
CrashBeforeUnlink ==
  /\ StopProcess
  /\ LoseWaiters(Waiting)
  /\ \/ \E r \in Pending : /\ Answerable(r)
                           /\ Resolve({r}, "denied", "user")
                           /\ UNCHANGED file
     \/ \E r \in Waiting : /\ Due(r)
                           /\ TimedOut(r)
                           /\ Resolve({r}, "denied", "timeout")
                           /\ UNCHANGED file
     \/ /\ Resolve(OlderThan(Timeout), "denied", "timeout")
        /\ \E R \in SUBSET OlderThan(Timeout) : Unlink(R)

-----------------------------------------------------------------------------
\* The environment

\* Time passes; a due timer is at most MaxLate ticks late.
Tick ==
  /\ now < MaxTime
  /\ \A r \in Waiting : now < wake[r] + MaxLate
  /\ now' = now + 1
  /\ UNCHANGED <<procVars, setting, rowVars, file, waitVars, userVars, altered>>

\* The temp file is edited or removed behind the daemon's back.
FileChanges(r) ==
  /\ file[r] = "intact"
  /\ \E f \in {"none", "altered"} : file' = [file EXCEPT ![r] = f]
  /\ altered' = [altered EXCEPT ![r] = TRUE]
  /\ UNCHANGED <<now, procVars, setting, rowVars, waitVars, userVars>>

Next ==
  \/ \E r \in Requests :
       \/ RequestApproval(r)
       \/ PollReturns(r)
       \/ PollAgain(r)
       \/ PollTimeout(r)
       \/ Approve(r)
       \/ Deny(r)
       \/ CrashInRequest(r)
       \/ FileChanges(r)
  \/ \E s \in Settings : SetTimeout(s)
  \/ Cleanup
  \/ Start
  \/ StartupExpire
  \/ Crash
  \/ CrashBeforeUnlink
  \/ Tick

Spec == Init /\ [][Next]_vars

\* The event loop runs due timers, the cleanup interval keeps firing, a daemon
\* that is down is started again, and time goes on.  Nothing is assumed of
\* the user or of the agents.
Fairness ==
  /\ WF_vars(Tick)
  /\ WF_vars(Cleanup)
  /\ WF_vars(Start)
  /\ WF_vars(StartupExpire)
  /\ \A r \in Requests : WF_vars(PollReturns(r) \/ PollAgain(r) \/ PollTimeout(r))

FairSpec == Spec /\ Fairness
-----------------------------------------------------------------------------
\* Properties

\* A call that returns 'approved' was approved by the user, and the file was
\* still the one that was hashed, from the request to the return: approve()
\* and the poller both verify it, and it may change between the two.
GrantedAsAnswered ==
  \A r \in Requests :
    verdict[r] = "approved" => answer[r] = "approved" /\ ~altered[r]

\* An acknowledged approval loses to the timeout only when it came during the
\* last sleep of the poller: one that comes a poll interval (and the lag of the
\* event loop) before the deadline is honoured.
OnlyLastSleepIsLost ==
  \A r \in Requests :
    verdict[r] = "expired" /\ answer[r] # "none"
      => answeredAt[r] + PollInterval + MaxLate >= deadline[r]

\* Neither a poller nor a sweep times a row out before the shortest timeout the
\* user can set has passed, counted from the truncated created_at.
NoEarlyTimeout ==
  [][\A r \in Requests :
       (resolvedBy[r] # "timeout" /\ resolvedBy'[r] = "timeout")
         => \E T \in {DefaultTimeout} \cup {s * Second : s \in Settings \ {0}} :
              now >= createdAt[r] + T]_vars

\* A temp file exists only while its call polls, or because a crash took the call:
\* one that returned has left no file behind, whoever resolved its row, before or
\* after any number of crashes.
NoLeakedFile ==
  \A r \in Requests :
    file[r] # "none" => waiter[r] = "waiting" \/ (waiter[r] = "lost" /\ crashes > 0)

\* Every call of requestApproval() returns, or is lost with its process.
EveryCallEnds ==
  \A r \in Requests : waiter[r] = "waiting" ~> waiter[r] # "waiting"

\* No row stays pending for ever, also when its poller died in a crash.
NoRowPendingForever ==
  \A r \in Requests : status[r] = "pending" ~> status[r] # "pending"

\* The queue implements the contract of ApprovalContract.
Outcome(r) ==
  CASE waiter[r] = "idle"       -> "new"
    [] waiter[r] = "waiting"    -> "open"
    [] waiter[r] = "lost"       -> "lost"
    [] waiter[r] = "returned"   ->
         IF verdict[r] = "approved" THEN "granted"
         ELSE IF verdict[r] = "expired" THEN "expired" ELSE "refused"

Contract ==
  INSTANCE ApprovalContract WITH outcome <- [r \in Requests |-> Outcome(r)]

ImplementsContract == Contract!Spec

\* "RPC handler's next poll sees status = 'approved'" (docs/dev/03-keepd.md:345):
\* an approval that was acknowledged is what the requester gets.
AcknowledgedApprovalIsKept ==
  \A r \in Requests : ~(verdict[r] = "expired" /\ answer[r] = "approved")
=============================================================================
