-------------------------- MODULE ApprovalQueueProofs --------------------------
(***************************************************************************)
(* Theorems about ApprovalQueue, for every set of requests, every poll     *)
(* interval, timeout, age and lag that satisfy the assumptions of that     *)
(* module, and any number of crashes.                                      *)
(***************************************************************************)
EXTENDS ApprovalQueue, TLAPS

\* SQLite's truncation to seconds moves a time back, by less than a second.
LEMMA FloorSecondBounds ==
  ASSUME NEW t \in Nat
  PROVE  /\ FloorSecond(t) \in Nat
         /\ FloorSecond(t) <= t
         /\ t < FloorSecond(t) + Second
<1>1. t % Second \in Nat /\ t % Second < Second
  BY IntervalAssumption
<1>2. t = Second * (t \div Second) + (t % Second) /\ t \div Second \in Nat
  BY IntervalAssumption
<1>3. Second * (t \div Second) \in Nat
  BY IntervalAssumption, <1>2
<1>4. t % Second <= t
  BY <1>1, <1>2, <1>3
<1> QED
  BY <1>1, <1>4, IntervalAssumption DEF FloorSecond

\* Whatever the user set, getTimeoutMs() is a positive time.
LEMMA TimeoutIsPositive ==
  ASSUME setting \in Settings
  PROVE  Timeout \in Nat \ {0}
<1>1. CASE setting > 0
  <2>1. setting \in Nat \ {0} /\ Second \in Nat \ {0}
    BY <1>1, TimeoutAssumption, IntervalAssumption
  <2>2. setting * Second \in Nat \ {0}
    BY <2>1
  <2> QED
    BY <1>1, <2>2 DEF Timeout
<1>2. CASE ~(setting > 0)
  BY <1>2, TimeoutAssumption DEF Timeout
<1> QED
  BY <1>1, <1>2

\* A row changes to the given status and resolver, or not at all.
LEMMA ResolveTypes ==
  ASSUME TypeOK,
         NEW R, NEW st \in Status, NEW by \in {"none", "user", "timeout", "system"},
         Resolve(R, st, by)
  PROVE  /\ status' \in [Requests -> Status]
         /\ resolvedBy' \in [Requests -> {"none", "user", "timeout", "system"}]
         /\ resolvedAt' \in [Requests -> Nat]
         /\ createdAt' \in [Requests -> Nat]
BY FloorSecondBounds DEF TypeOK, Resolve

\* unlink leaves a temp file absent or as it was.
LEMMA UnlinkTypes ==
  ASSUME TypeOK, NEW R, Unlink(R)
  PROVE  file' \in [Requests -> {"none", "intact", "altered"}]
BY DEF TypeOK, Unlink

\* Every step of the queue preserves the types.
LEMMA TypeInductive ==
  ASSUME TypeOK, [Next]_vars
  PROVE  TypeOK'
<1> USE DEF TypeOK
<1>1. ASSUME NEW r \in Requests, RequestApproval(r)
      PROVE  TypeOK'
  <2>1. FloorSecond(now) \in Nat
    BY FloorSecondBounds
  <2>2. now + Timeout \in Nat /\ NextPoll \in Nat
    BY TimeoutIsPositive, IntervalAssumption DEF NextPoll
  <2> QED
    BY <1>1, <2>1, <2>2 DEF RequestApproval, procVars, userVars, Status
<1>2. ASSUME NEW r \in Requests, PollReturns(r)
      PROVE  TypeOK'
  <2>1. PollVerdict(r) \in Verdict
    BY DEF PollVerdict, Verdict
  <2>2. file' \in [Requests -> {"none", "intact", "altered"}]
    BY <1>2, UnlinkTypes DEF PollReturns
  <2> QED
    BY <1>2, <2>1, <2>2 DEF PollReturns, Return, procVars, rowVars, userVars
<1>3. ASSUME NEW r \in Requests, PollAgain(r)
      PROVE  TypeOK'
  <2>1. NextPoll \in Nat
    BY IntervalAssumption DEF NextPoll
  <2> QED
    BY <1>3, <2>1 DEF PollAgain, procVars, rowVars, userVars
<1>4. ASSUME NEW r \in Requests, PollTimeout(r)
      PROVE  TypeOK'
  <2>1. file' \in [Requests -> {"none", "intact", "altered"}]
    BY <1>4, UnlinkTypes DEF PollTimeout
  <2>2. /\ status' \in [Requests -> Status]
        /\ resolvedBy' \in [Requests -> {"none", "user", "timeout", "system"}]
        /\ resolvedAt' \in [Requests -> Nat]
        /\ createdAt' \in [Requests -> Nat]
    BY <1>4, ResolveTypes DEF PollTimeout, Status
  <2> QED
    BY <1>4, <2>1, <2>2 DEF PollTimeout, Return, procVars, userVars, Verdict
<1>5. ASSUME NEW r \in Requests, Approve(r)
      PROVE  TypeOK'
  <2>1. /\ status' \in [Requests -> Status]
        /\ resolvedBy' \in [Requests -> {"none", "user", "timeout", "system"}]
        /\ resolvedAt' \in [Requests -> Nat]
        /\ createdAt' \in [Requests -> Nat]
    <3>1. CASE HashMatches(r)
      BY <1>5, <3>1, ResolveTypes DEF Approve, Status
    <3>2. CASE ~HashMatches(r)
      BY <1>5, <3>2, ResolveTypes DEF Approve, Status
    <3> QED
      BY <3>1, <3>2
  <2> QED
    BY <1>5, <2>1 DEF Approve, procVars, waitVars, userVars
<1>6. ASSUME NEW r \in Requests, Deny(r)
      PROVE  TypeOK'
  <2>1. file' \in [Requests -> {"none", "intact", "altered"}]
    BY <1>6, UnlinkTypes DEF Deny
  <2>2. /\ status' \in [Requests -> Status]
        /\ resolvedBy' \in [Requests -> {"none", "user", "timeout", "system"}]
        /\ resolvedAt' \in [Requests -> Nat]
        /\ createdAt' \in [Requests -> Nat]
    BY <1>6, ResolveTypes DEF Deny, Status
  <2> QED
    BY <1>6, <2>1, <2>2 DEF Deny, procVars, waitVars
<1>7. ASSUME NEW r \in Requests, CrashInRequest(r)
      PROVE  TypeOK'
  BY <1>7, BoundAssumption
     DEF CrashInRequest, StopProcess, LoseWaiters, userVars
<1>8. ASSUME NEW r \in Requests, FileChanges(r)
      PROVE  TypeOK'
  BY <1>8 DEF FileChanges, procVars, rowVars, waitVars, userVars
<1>9. ASSUME NEW s \in Settings, SetTimeout(s)
      PROVE  TypeOK'
  BY <1>9 DEF SetTimeout, procVars, rowVars, waitVars, userVars
<1>10. CASE Cleanup
  <2>1. FloorSecond(now) \in Nat
    BY FloorSecondBounds
  <2>2. file' \in [Requests -> {"none", "intact", "altered"}]
    BY <1>10, UnlinkTypes DEF Cleanup
  <2>3. /\ status' \in [Requests -> Status]
        /\ resolvedBy' \in [Requests -> {"none", "user", "timeout", "system"}]
    BY <1>10 DEF Cleanup, Status
  <2>4. resolvedAt' \in [Requests -> Nat]
    BY <1>10, <2>1 DEF Cleanup
  <2> QED
    BY <1>10, <2>2, <2>3, <2>4 DEF Cleanup, procVars, waitVars, userVars
<1>11. CASE Start
  BY <1>11 DEF Start, rowVars, waitVars, userVars
<1>12. CASE StartupExpire
  <2>1. file' \in [Requests -> {"none", "intact", "altered"}]
    BY <1>12, UnlinkTypes DEF StartupExpire, ExpireStale
  <2>2. /\ status' \in [Requests -> Status]
        /\ resolvedBy' \in [Requests -> {"none", "user", "timeout", "system"}]
        /\ resolvedAt' \in [Requests -> Nat]
        /\ createdAt' \in [Requests -> Nat]
    BY <1>12, ResolveTypes DEF StartupExpire, ExpireStale, Status
  <2> QED
    BY <1>12, <2>1, <2>2 DEF StartupExpire, waitVars, userVars
<1>13. CASE Crash
  BY <1>13 DEF Crash, StopProcess, LoseWaiters, userVars
<1>14. CASE CrashBeforeUnlink
  <2>1. file' \in [Requests -> {"none", "intact", "altered"}]
    BY <1>14, UnlinkTypes DEF CrashBeforeUnlink
  <2>2. /\ status' \in [Requests -> Status]
        /\ resolvedBy' \in [Requests -> {"none", "user", "timeout", "system"}]
        /\ resolvedAt' \in [Requests -> Nat]
    BY <1>14, ResolveTypes DEF CrashBeforeUnlink, Status
  <2> QED
    BY <1>14, <2>1, <2>2 DEF CrashBeforeUnlink, StopProcess, LoseWaiters, userVars
<1>15. CASE Tick
  BY <1>15 DEF Tick, procVars, rowVars, waitVars, userVars
<1>16. CASE UNCHANGED vars
  BY <1>16 DEF vars, procVars, rowVars, waitVars, userVars
<1> QED
  BY <1>1, <1>2, <1>3, <1>4, <1>5, <1>6, <1>7, <1>8, <1>9, <1>10, <1>11,
     <1>12, <1>13, <1>14, <1>15, <1>16 DEF Next

\* Every variable keeps its type, in every behaviour of the queue.
THEOREM TypeCorrect == Spec => []TypeOK
<1>1. Init => TypeOK
  BY TimeoutAssumption DEF Init, TypeOK, Status, Verdict
<1> QED
  BY <1>1, TypeInductive, PTL DEF Spec

-----------------------------------------------------------------------------
\* The inductive invariant.  The properties speak of verdicts and answers only;
\* that they hold rests on how far a call has come, on its row and file, and on
\* how long its row can have been resolved without the call having seen it.

Lifecycle(r) ==
  /\ waiter[r] = "idle" => /\ status[r] = "none"
                           /\ file[r] = "none"
                           /\ answer[r] = "none"
                           /\ ~altered[r]
  /\ waiter[r] = "waiting" => status[r] # "none"
  /\ waiter[r] = "returned" => status[r] # "pending" /\ file[r] = "none"
  /\ waiter[r] = "lost" => crashes > 0
  /\ waiter[r] # "returned" => verdict[r] = "none"

\* What the row says of the user's answer, as long as it can be read.
Answers(r) ==
  /\ status[r] \in {"pending", "expired"} => answer[r] = "none"
  /\ status[r] = "approved" => answer[r] = "approved"
  /\ waiter[r] = "waiting" /\ status[r] = "denied" => answer[r] # "approved"
  /\ verdict[r] = "approved" => answer[r] = "approved" /\ ~altered[r]

Files(r) ==
  /\ file[r] = "intact" => ~altered[r]
  /\ /\ waiter[r] = "waiting"
     /\ status[r] \in {"pending", "approved"}
     /\ ~altered[r]
     => file[r] = "intact"

\* A call that sleeps has seen its row pending less than a poll interval ago.
Timers(r) ==
  /\ waiter[r] = "waiting" =>
       /\ wake[r] <= now + PollInterval
       /\ now <= wake[r] + MaxLate
       /\ answer[r] # "none" => wake[r] <= answeredAt[r] + PollInterval
       /\ status[r] # "pending" => wake[r] < resolvedAt[r] + Second + PollInterval
  /\ verdict[r] = "expired" /\ answer[r] # "none"
       => answeredAt[r] + PollInterval + MaxLate >= deadline[r]

\* The timeouts that can be in force.
Timeouts == {DefaultTimeout} \cup {s * Second : s \in Settings \ {0}}

Deadlines(r) ==
  waiter[r] = "waiting" => \E T \in Timeouts : deadline[r] >= createdAt[r] + T

QueueInv ==
  /\ TypeOK
  /\ \A r \in Requests : /\ Lifecycle(r)
                         /\ Answers(r)
                         /\ Files(r)
                         /\ Timers(r)
                         /\ Deadlines(r)

\* A daemon without requests satisfies the invariant.
LEMMA QueueInvInit == Init => QueueInv
<1> SUFFICES ASSUME Init PROVE QueueInv
  OBVIOUS
<1>1. TypeOK
  BY TimeoutAssumption DEF Init, TypeOK, Status, Verdict
<1> QED
  BY <1>1 DEF Init, QueueInv, Lifecycle, Answers, Files, Timers, Deadlines

\* Every step of the queue preserves each part of the invariant.
LEMMA QueueInvStep ==
  ASSUME QueueInv, [Next]_vars
  PROVE  QueueInv'
<1>a. TypeOK /\ TypeOK'
  BY TypeInductive DEF QueueInv
<1> SUFFICES ASSUME NEW q \in Requests
             PROVE  /\ Lifecycle(q)'
                    /\ Answers(q)'
                    /\ Files(q)'
                    /\ Timers(q)'
                    /\ Deadlines(q)'
  BY <1>a DEF QueueInv
<1>b. Lifecycle(q) /\ Answers(q) /\ Files(q) /\ Timers(q) /\ Deadlines(q)
  BY DEF QueueInv
<1> USE IntervalAssumption DEF TypeOK
<1> DEFINE Parts == /\ Lifecycle(q)'
                    /\ Answers(q)'
                    /\ Files(q)'
                    /\ Timers(q)'
                    /\ Deadlines(q)'
<1>1. ASSUME NEW r \in Requests, RequestApproval(r)
      PROVE  Parts
  <2>1. Lifecycle(q)' /\ Answers(q)' /\ Files(q)'
    BY <1>a, <1>b, <1>1 DEF RequestApproval, Lifecycle, Answers, Files, userVars, procVars
  <2>2. Timers(q)'
    BY <1>a, <1>b, <1>1 DEF RequestApproval, Lifecycle, Timers, NextPoll, userVars
  <2>3. Deadlines(q)'
    <3>1. FloorSecond(now) <= now /\ FloorSecond(now) \in Nat
      BY <1>a, FloorSecondBounds
    <3>2. Timeout \in Timeouts /\ Timeout \in Nat
      BY <1>a, TimeoutAssumption, TimeoutIsPositive DEF Timeout, Timeouts
    <3> QED
      BY <1>a, <1>b, <1>1, <3>1, <3>2 DEF RequestApproval, Deadlines
  <2> QED
    BY <2>1, <2>2, <2>3
<1>2. ASSUME NEW r \in Requests, PollReturns(r)
      PROVE  Parts
  BY <1>a, <1>b, <1>2
     DEF PollReturns, Due, Return, Unlink, PollVerdict, HashMatches, procVars, rowVars,
         userVars, Lifecycle, Answers, Files, Timers, Deadlines
<1>3. ASSUME NEW r \in Requests, PollAgain(r)
      PROVE  Parts
  BY <1>a, <1>b, <1>3
     DEF PollAgain, Due, NextPoll, procVars, rowVars, userVars,
         Lifecycle, Answers, Files, Timers, Deadlines
<1>4. ASSUME NEW r \in Requests, PollTimeout(r)
      PROVE  Parts
  BY <1>a, <1>b, <1>4
     DEF PollTimeout, Due, TimedOut, Resolve, Return, Unlink, procVars, userVars,
         Lifecycle, Answers, Files, Timers, Deadlines
<1>5. ASSUME NEW r \in Requests, Approve(r)
      PROVE  Parts
  BY <1>a, <1>b, <1>5, FloorSecondBounds
     DEF Approve, Answerable, HashMatches, Resolve, procVars, waitVars, userVars,
         Lifecycle, Answers, Files, Timers, Deadlines
<1>6. ASSUME NEW r \in Requests, Deny(r)
      PROVE  Parts
  BY <1>a, <1>b, <1>6, FloorSecondBounds
     DEF Deny, Answerable, Resolve, Unlink, procVars, waitVars,
         Lifecycle, Answers, Files, Timers, Deadlines
<1>7. ASSUME NEW r \in Requests, CrashInRequest(r)
      PROVE  Parts
  BY <1>a, <1>b, <1>7
     DEF CrashInRequest, StopProcess, LoseWaiters, Waiting, userVars,
         Lifecycle, Answers, Files, Timers, Deadlines
<1>8. ASSUME NEW r \in Requests, FileChanges(r)
      PROVE  Parts
  BY <1>a, <1>b, <1>8
     DEF FileChanges, procVars, rowVars, waitVars, userVars,
         Lifecycle, Answers, Files, Timers, Deadlines
<1>9. ASSUME NEW s \in Settings, SetTimeout(s)
      PROVE  Parts
  BY <1>a, <1>b, <1>9
     DEF SetTimeout, procVars, rowVars, waitVars, userVars,
         Lifecycle, Answers, Files, Timers, Deadlines
<1>10. CASE Cleanup
  BY <1>a, <1>b, <1>10, FloorSecondBounds, AgeAssumption
     DEF Cleanup, OlderThan, Pending, Unlink, procVars, waitVars, userVars,
         Lifecycle, Answers, Files, Timers, Deadlines
<1>11. CASE Start
  BY <1>a, <1>b, <1>11
     DEF Start, rowVars, waitVars, userVars,
         Lifecycle, Answers, Files, Timers, Deadlines
<1>12. CASE StartupExpire
  BY <1>a, <1>b, <1>12, FloorSecondBounds
     DEF StartupExpire, ExpireStale, OlderThan, Pending, Resolve, Unlink, waitVars, userVars,
         Lifecycle, Answers, Files, Timers, Deadlines
<1>13. CASE Crash
  BY <1>a, <1>b, <1>13
     DEF Crash, StopProcess, LoseWaiters, Waiting, userVars,
         Lifecycle, Answers, Files, Timers, Deadlines
<1>14. CASE CrashBeforeUnlink
  BY <1>a, <1>b, <1>14
     DEF CrashBeforeUnlink, StopProcess, LoseWaiters, Waiting, Answerable, Due, TimedOut,
         Resolve, Unlink, OlderThan, Pending, userVars,
         Lifecycle, Answers, Files, Timers, Deadlines
<1>15. CASE Tick
  BY <1>a, <1>b, <1>15
     DEF Tick, Waiting, procVars, rowVars, waitVars, userVars,
         Lifecycle, Answers, Files, Timers, Deadlines
<1>16. CASE UNCHANGED vars
  BY <1>a, <1>b, <1>16
     DEF vars, procVars, rowVars, waitVars, userVars,
         Lifecycle, Answers, Files, Timers, Deadlines
<1> QED
  BY <1>1, <1>2, <1>3, <1>4, <1>5, <1>6, <1>7, <1>8, <1>9, <1>10, <1>11,
     <1>12, <1>13, <1>14, <1>15, <1>16 DEF Next

\* The queue never leaves its inductive invariant.
THEOREM QueueInvariant == Spec => []QueueInv
BY QueueInvInit, QueueInvStep, PTL DEF Spec

-----------------------------------------------------------------------------
\* What requestApproval() grants, the user approved, on the untouched file.
THEOREM GrantsAreApproved == Spec => []GrantedAsAnswered
<1>1. QueueInv => GrantedAsAnswered
  BY DEF QueueInv, Answers, GrantedAsAnswered
<1> QED
  BY <1>1, QueueInvariant, PTL

\* An acknowledged answer loses to the timeout only in the last sleep.
THEOREM OnlyLastSleepLost == Spec => []OnlyLastSleepIsLost
<1>1. QueueInv => OnlyLastSleepIsLost
  BY DEF QueueInv, Timers, OnlyLastSleepIsLost
<1> QED
  BY <1>1, QueueInvariant, PTL

\* No temp file outlives its call, but for those of the calls a crash took.
THEOREM FilesAreUnlinked == Spec => []NoLeakedFile
<1>1. QueueInv => NoLeakedFile
  BY DEF QueueInv, TypeOK, Lifecycle, NoLeakedFile
<1> QED
  BY <1>1, QueueInvariant, PTL

\* The timeout in force is one of those the user can have set.
LEMMA TimeoutInForce ==
  ASSUME TypeOK
  PROVE  Timeout \in Timeouts
BY TimeoutAssumption DEF TypeOK, Timeout, Timeouts

\* No poller and no sweep times a row out before its time.
LEMMA NoEarlyTimeoutStep ==
  ASSUME QueueInv, [Next]_vars, NEW q \in Requests,
         resolvedBy[q] # "timeout", resolvedBy'[q] = "timeout"
  PROVE  \E T \in Timeouts : now >= createdAt[q] + T
<1>a. TypeOK /\ Lifecycle(q) /\ Deadlines(q)
  BY DEF QueueInv
<1>b. Timeout \in Timeouts /\ Timeout \in Nat /\ DefaultTimeout \in Timeouts
  BY <1>a, TimeoutInForce, TimeoutIsPositive DEF TypeOK, Timeouts
<1>c. createdAt[q] \in Nat /\ now \in Nat
  BY <1>a DEF TypeOK
<1>1. ASSUME NEW r \in Requests, PollTimeout(r)
      PROVE  \E T \in Timeouts : now >= createdAt[q] + T
  <2>1. q = r
    BY <1>1, <1>a DEF TypeOK, PollTimeout, Resolve
  <2>2. PICK T \in Timeouts : deadline[q] >= createdAt[q] + T
    BY <2>1, <1>1, <1>a DEF PollTimeout, Due, Deadlines
  <2>3. now >= deadline[q] /\ deadline[q] \in Nat
    BY <2>1, <1>1, <1>a DEF PollTimeout, TimedOut, TypeOK
  <2>4. T \in Nat
    BY TimeoutAssumption, IntervalAssumption DEF Timeouts
  <2> QED
    BY <2>2, <2>3, <2>4, <1>c
<1>2. ASSUME q \in OlderThan(Timeout)
      PROVE  \E T \in Timeouts : now >= createdAt[q] + T
  BY <1>2, <1>b, <1>c DEF OlderThan
<1>3. ASSUME q \in OlderThan(MaxAge)
      PROVE  \E T \in Timeouts : now >= createdAt[q] + T
  BY <1>3, <1>b, <1>c, AgeAssumption, TimeoutAssumption DEF OlderThan
<1>4. CASE Cleanup
  BY <1>4, <1>2, <1>3, <1>a DEF Cleanup, TypeOK
<1>5. CASE StartupExpire
  BY <1>5, <1>2, <1>a DEF StartupExpire, ExpireStale, Resolve, TypeOK
<1>6. CASE CrashBeforeUnlink
  <2>1. CASE q \in OlderThan(Timeout)
    BY <2>1, <1>2
  <2>2. CASE q \notin OlderThan(Timeout)
    <3>1. PICK r \in Waiting : /\ Due(r)
                              /\ TimedOut(r)
                              /\ Resolve({r}, "denied", "timeout")
      BY <1>6, <2>2, <1>a DEF CrashBeforeUnlink, Resolve, TypeOK
    <3>2. q = r /\ waiter[q] = "waiting"
      BY <3>1, <1>a DEF Resolve, TypeOK, Waiting
    <3>3. PICK T \in Timeouts : deadline[q] >= createdAt[q] + T
      BY <3>2, <1>a DEF Deadlines
    <3>4. now >= deadline[q] /\ deadline[q] \in Nat
      BY <3>1, <3>2, <1>a DEF TimedOut, TypeOK
    <3>5. T \in Nat
      BY TimeoutAssumption, IntervalAssumption DEF Timeouts
    <3> QED
      BY <3>3, <3>4, <3>5, <1>c
  <2> QED
    BY <2>1, <2>2
<1>7. ASSUME NEW r \in Requests, \/ RequestApproval(r) \/ PollReturns(r)
                                 \/ PollAgain(r) \/ Approve(r) \/ Deny(r)
                                 \/ CrashInRequest(r) \/ FileChanges(r)
      PROVE  FALSE
  BY <1>7, <1>a
     DEF RequestApproval, PollReturns, PollAgain, Approve, Deny, CrashInRequest,
         FileChanges, Resolve, rowVars, TypeOK
<1>8. ASSUME \/ \E s \in Settings : SetTimeout(s)
             \/ Start \/ Crash \/ Tick \/ UNCHANGED vars
      PROVE  FALSE
  BY <1>8, <1>a DEF SetTimeout, Start, Crash, StopProcess, Tick, vars, rowVars, TypeOK
<1> QED
  BY <1>1, <1>4, <1>5, <1>6, <1>7, <1>8 DEF Next

\* A row is timed out only when a timeout the user can have set has passed.
THEOREM TimeoutsAreNotEarly == Spec => NoEarlyTimeout
<1>1. QueueInv /\ [Next]_vars
        => [\A r \in Requests :
              (resolvedBy[r] # "timeout" /\ resolvedBy'[r] = "timeout")
                => \E T \in {DefaultTimeout} \cup {s * Second : s \in Settings \ {0}} :
                     now >= createdAt[r] + T]_vars
  BY NoEarlyTimeoutStep DEF Timeouts
<1> QED
  BY <1>1, QueueInvariant, PTL DEF Spec, NoEarlyTimeout

-----------------------------------------------------------------------------
\* How long a call can last.  That every call ends is a liveness property and
\* stays with TLC; that it cannot last longer than the following is not.

\* A call begins its last sleep before its deadline.
WakesInTime ==
  \A r \in Requests :
    waiter[r] = "waiting" => wake[r] < deadline[r] + PollInterval

\* A call that still waits is at most one sleep, and the lag of the event loop,
\* past its deadline; once the user has answered, it waits no longer than that.
EndsInTime ==
  \A r \in Requests :
    waiter[r] = "waiting" =>
      /\ now < deadline[r] + PollInterval + MaxLate
      /\ answer[r] # "none" => now <= answeredAt[r] + PollInterval + MaxLate

\* Only a new call and a poll before the deadline begin a sleep.
LEMMA WakesInTimeStep ==
  ASSUME TypeOK, WakesInTime, [Next]_vars
  PROVE  WakesInTime'
<1> USE IntervalAssumption DEF TypeOK, WakesInTime
<1>1. ASSUME NEW r \in Requests, RequestApproval(r)
      PROVE  WakesInTime'
  <2>1. Timeout \in Nat \ {0}
    BY TimeoutIsPositive
  <2> QED
    BY <1>1, <2>1 DEF RequestApproval, NextPoll
<1>2. ASSUME NEW r \in Requests, PollAgain(r)
      PROVE  WakesInTime'
  BY <1>2 DEF PollAgain, TimedOut, NextPoll
<1>3. ASSUME NEW r \in Requests, PollReturns(r) \/ PollTimeout(r)
      PROVE  WakesInTime'
  BY <1>3 DEF PollReturns, PollTimeout, Return
<1>4. ASSUME UNCHANGED waitVars
      PROVE  WakesInTime'
  BY <1>4 DEF waitVars
<1>5. ASSUME NEW R, LoseWaiters(R), UNCHANGED <<deadline, wake>>
      PROVE  WakesInTime'
  BY <1>5 DEF LoseWaiters
<1>6. ASSUME NEW r \in Requests, CrashInRequest(r)
      PROVE  WakesInTime'
  BY <1>6, <1>5 DEF CrashInRequest, StopProcess
<1>7. CASE Crash \/ CrashBeforeUnlink
  BY <1>7, <1>5 DEF Crash, CrashBeforeUnlink, StopProcess
<1>8. ASSUME NEW r \in Requests, Approve(r) \/ Deny(r) \/ FileChanges(r)
      PROVE  WakesInTime'
  BY <1>8, <1>4 DEF Approve, Deny, FileChanges
<1>9. CASE \/ \E s \in Settings : SetTimeout(s)
           \/ Cleanup \/ Start \/ StartupExpire \/ Tick \/ UNCHANGED vars
  BY <1>9, <1>4 DEF SetTimeout, Cleanup, Start, StartupExpire, Tick, vars
<1> QED
  BY <1>1, <1>2, <1>3, <1>6, <1>7, <1>8, <1>9 DEF Next

\* requestApproval() holds its caller no longer than its deadline and one poll,
\* and no longer than one poll after the user's answer (approval-queue.ts:124).
THEOREM CallsEndInTime == Spec => []EndsInTime
<1>1. Init => WakesInTime
  BY DEF Init, WakesInTime
<1>2. QueueInv => TypeOK
  BY DEF QueueInv
<1>3. QueueInv /\ WakesInTime => EndsInTime
  BY IntervalAssumption DEF QueueInv, TypeOK, Timers, WakesInTime, EndsInTime
<1> QED
  BY <1>1, <1>2, <1>3, WakesInTimeStep, QueueInvariant, PTL DEF Spec

-----------------------------------------------------------------------------
\* The refinement of ApprovalContract.

\* A call that is new, open, lost or returned with a verdict, as the contract
\* sees it.
AbstractOutcome == [r \in Requests |-> Outcome(r)]

\* A queue without requests is one of the contract's initial states.
LEMMA ContractInit == Init => Contract!Init
BY DEF Init, Contract!Init, Outcome

\* A step of one call that the contract sees changes the outcome of that call.
LEMMA OutcomeOf ==
  ASSUME NEW r \in Requests, NEW o,
         Outcome(r)' = o,
         \A q \in Requests \ {r} : Outcome(q)' = Outcome(q)
  PROVE  AbstractOutcome' = [AbstractOutcome EXCEPT ![r] = o]
BY DEF AbstractOutcome

\* A step that changes no outcome is invisible in the abstract outcome.
LEMMA OutcomesKept ==
  ASSUME \A q \in Requests : Outcome(q)' = Outcome(q)
  PROVE  AbstractOutcome' = AbstractOutcome
BY DEF AbstractOutcome

\* Every step of the queue is a step of the contract or is invisible to it.
LEMMA ContractStep ==
  ASSUME QueueInv, [Next]_vars
  PROVE  [Contract!Next]_(Contract!cvars)
<1> DEFINE CNext == [Contract!Next]_(Contract!cvars)
<1>a. TypeOK /\ \A r \in Requests : /\ Lifecycle(r)
                                   /\ Answers(r)
                                   /\ Files(r)
  BY DEF QueueInv
<1> USE DEF TypeOK
<1>1. ASSUME NEW r \in Requests, RequestApproval(r)
      PROVE  CNext
  <2>1. Outcome(r) = "new" /\ Outcome(r)' = "open"
    BY <1>1, <1>a DEF RequestApproval, Outcome
  <2>2. \A q \in Requests \ {r} : Outcome(q)' = Outcome(q)
    BY <1>1, <1>a DEF RequestApproval, Outcome
  <2>3. AbstractOutcome' = [AbstractOutcome EXCEPT ![r] = "open"] /\ AbstractOutcome[r] = "new"
    BY <2>1, <2>2, OutcomeOf DEF AbstractOutcome
  <2>4. Contract!Ask(r)
    BY <2>3, <1>1 DEF Contract!Ask, AbstractOutcome, RequestApproval, userVars
  <2> QED
    BY <2>4 DEF Contract!Next
<1>2. ASSUME NEW r \in Requests, PollReturns(r)
      PROVE  CNext
  <2>1. /\ Outcome(r) = "open"
        /\ Outcome(r)' = IF PollVerdict(r) = "approved" THEN "granted"
                         ELSE IF PollVerdict(r) = "expired" THEN "expired"
                         ELSE "refused"
    BY <1>2, <1>a DEF PollReturns, Due, Return, Outcome
  <2>2. \A q \in Requests \ {r} : Outcome(q)' = Outcome(q)
    BY <1>2, <1>a DEF PollReturns, Return, Outcome
  <2>3. AbstractOutcome[r] = "open" /\ AbstractOutcome' = [AbstractOutcome EXCEPT ![r] = Outcome(r)']
    BY <2>1, <2>2, OutcomeOf DEF AbstractOutcome
  <2>4. UNCHANGED <<answer, altered>>
    BY <1>2 DEF PollReturns, userVars
  <2>5. waiter[r] = "waiting" /\ status[r] # "pending" /\ status[r] # "none"
    BY <1>2, <1>a DEF PollReturns, Due, Lifecycle
  <2>6. CASE PollVerdict(r) = "approved"
    <3>1. answer[r] = "approved" /\ ~altered[r]
      BY <2>6, <1>a DEF PollVerdict, HashMatches, Answers, Files
    <3>2. Contract!Grant(r)
      BY <3>1, <2>1, <2>3, <2>4, <2>6 DEF Contract!Grant, Contract!Ends, AbstractOutcome
    <3> QED
      BY <3>2 DEF Contract!Next
  <2>7. CASE PollVerdict(r) = "expired"
    <3>1. Contract!Expire(r)
      BY <2>1, <2>3, <2>4, <2>7 DEF Contract!Expire, Contract!Ends, AbstractOutcome
    <3> QED
      BY <3>1 DEF Contract!Next
  <2>8. CASE PollVerdict(r) = "denied"
    <3>1. answer[r] # "approved" \/ altered[r]
      BY <2>5, <2>8, <1>a DEF PollVerdict, HashMatches, Answers, Files, Status
    <3>2. Contract!Refuse(r)
      BY <3>1, <2>1, <2>3, <2>4, <2>8 DEF Contract!Refuse, Contract!Ends, AbstractOutcome
    <3> QED
      BY <3>2 DEF Contract!Next
  <2> QED
    BY <2>6, <2>7, <2>8 DEF PollVerdict
<1>3. ASSUME NEW r \in Requests, PollTimeout(r)
      PROVE  CNext
  <2>1. Outcome(r) = "open" /\ Outcome(r)' = "expired"
    BY <1>3, <1>a DEF PollTimeout, Due, Return, Outcome
  <2>2. \A q \in Requests \ {r} : Outcome(q)' = Outcome(q)
    BY <1>3, <1>a DEF PollTimeout, Return, Outcome
  <2>3. AbstractOutcome' = [AbstractOutcome EXCEPT ![r] = "expired"] /\ AbstractOutcome[r] = "open"
    BY <2>1, <2>2, OutcomeOf DEF AbstractOutcome
  <2>4. Contract!Expire(r)
    BY <2>3, <1>3 DEF Contract!Expire, Contract!Ends, AbstractOutcome, PollTimeout, userVars
  <2> QED
    BY <2>4 DEF Contract!Next
<1>4. ASSUME NEW r \in Requests, NEW a \in {"approved", "denied"},
             status[r] = "pending",
             answer' = [answer EXCEPT ![r] = a],
             UNCHANGED <<waitVars, altered>>
      PROVE  CNext
  <2>1. Outcome(r) \in {"open", "lost"} /\ answer[r] = "none"
    BY <1>4, <1>a DEF Outcome, Lifecycle, Answers
  <2>2. AbstractOutcome' = AbstractOutcome
    BY <1>4, OutcomesKept DEF Outcome, waitVars
  <2>3. Contract!Answer(r, a)
    BY <2>1, <2>2, <1>4 DEF Contract!Answer, AbstractOutcome
  <2> QED
    BY <2>3 DEF Contract!Next
<1>5. ASSUME UNCHANGED <<waitVars, answer, altered>>
      PROVE  CNext
  <2>1. AbstractOutcome' = AbstractOutcome
    BY <1>5, OutcomesKept DEF Outcome, waitVars
  <2> QED
    BY <2>1, <1>5 DEF Contract!cvars, AbstractOutcome
<1>6. ASSUME NEW r \in Requests, Approve(r)
      PROVE  CNext
  <2>1. CASE HashMatches(r)
    BY <2>1, <1>6, <1>4 DEF Approve, Answerable
  <2>2. CASE ~HashMatches(r)
    BY <2>2, <1>6, <1>5 DEF Approve, userVars
  <2> QED
    BY <2>1, <2>2
<1>7. ASSUME NEW r \in Requests, Deny(r)
      PROVE  CNext
  BY <1>7, <1>4 DEF Deny, Answerable
<1>8. ASSUME NEW R \in SUBSET Requests, LoseWaiters(R), Waiting \subseteq R,
             \A r \in R : waiter[r] \in {"idle", "waiting"},
             UNCHANGED <<verdict, answer, altered>>
      PROVE  CNext
  <2>1. \A r \in Requests : Outcome(r)' = IF r \in R THEN "lost" ELSE Outcome(r)
    BY <1>8, <1>a DEF LoseWaiters, Outcome
  <2>2. AbstractOutcome' = [r \in Requests |-> IF r \in R THEN "lost" ELSE AbstractOutcome[r]]
    BY <2>1 DEF AbstractOutcome
  <2>3. \A r \in Requests : AbstractOutcome[r] = "open" => r \in R
    BY <1>8, <1>a DEF AbstractOutcome, Outcome, Waiting
  <2>4. \A r \in R : AbstractOutcome[r] \in {"new", "open"}
    BY <1>8, <1>a DEF AbstractOutcome, Outcome
  <2>5. Contract!Lose
    BY <2>2, <2>3, <2>4, <1>8 DEF Contract!Lose, AbstractOutcome
  <2> QED
    BY <2>5 DEF Contract!Next
<1>9. CASE Crash \/ CrashBeforeUnlink
  BY <1>9, <1>8 DEF Crash, CrashBeforeUnlink, StopProcess, Waiting, userVars
<1>10. ASSUME NEW r \in Requests, CrashInRequest(r)
       PROVE  CNext
  BY <1>10, <1>8 DEF CrashInRequest, StopProcess, Waiting, userVars
<1>11. ASSUME NEW r \in Requests, FileChanges(r)
       PROVE  CNext
  <2>1. AbstractOutcome' = AbstractOutcome
    BY <1>11, OutcomesKept DEF FileChanges, Outcome, waitVars
  <2>2. Contract!Tamper(r)
    BY <2>1, <1>11 DEF Contract!Tamper, AbstractOutcome, FileChanges, userVars
  <2> QED
    BY <2>2 DEF Contract!Next
<1>12. ASSUME NEW r \in Requests, PollAgain(r)
       PROVE  CNext
  <2>1. AbstractOutcome' = AbstractOutcome
    BY <1>12, OutcomesKept DEF PollAgain, Outcome
  <2> QED
    BY <2>1, <1>12 DEF Contract!cvars, AbstractOutcome, PollAgain, userVars
<1>13. CASE \/ \E s \in Settings : SetTimeout(s)
            \/ Cleanup \/ Start \/ StartupExpire \/ Tick \/ UNCHANGED vars
  BY <1>13, <1>5
     DEF SetTimeout, Cleanup, Start, StartupExpire, Tick, vars, userVars
<1> QED
  BY <1>1, <1>2, <1>3, <1>6, <1>7, <1>9, <1>10, <1>11, <1>12, <1>13 DEF Next

\* The queue implements the contract that its callers rely on.
THEOREM QueueImplementsContract == Spec => ImplementsContract
BY ContractInit, ContractStep, QueueInvariant, PTL
   DEF Spec, ImplementsContract, Contract!Spec
=============================================================================
