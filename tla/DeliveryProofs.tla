----------------------------- MODULE DeliveryProofs -----------------------------
(***************************************************************************)
(* Theorems about Delivery, for any number of calls, subscriptions, crashes *)
(* and lost connections, and every window, drift, delay and retention that *)
(* satisfy the assumptions of that module.                                 *)
(***************************************************************************)
EXTENDS Delivery, Integers, TLAPS

\* The times are natural numbers.
LEMMA TimesAreNat ==
  /\ Second \in Nat /\ Second > 0 /\ Overlap \in Nat /\ Ahead \in Nat
  /\ MaxDelay \in Nat /\ MaxAge \in Nat
BY TimeAssumption

\* Truncation to seconds moves a time back, by less than a second.
LEMMA FloorSecondBounds ==
  ASSUME NEW t \in Nat
  PROVE  /\ FloorSecond(t) \in Nat
         /\ FloorSecond(t) <= t
         /\ t < FloorSecond(t) + Second
         /\ \E q \in Nat : FloorSecond(t) = Second * q
<1>1. t % Second \in Nat /\ t % Second < Second
  BY TimeAssumption
<1>2. t = Second * (t \div Second) + (t % Second) /\ t \div Second \in Nat
  BY TimeAssumption
<1>3. Second * (t \div Second) \in Nat
  BY TimeAssumption, <1>2
<1>4. FloorSecond(t) = Second * (t \div Second)
  BY <1>1, <1>2, <1>3 DEF FloorSecond
<1> QED
  BY <1>1, <1>2, <1>3, <1>4, TimeAssumption

\* A time at most Overlap later is at most Overlap later in whole seconds.
LEMMA FloorSecondWindow ==
  ASSUME NEW t \in Nat, NEW u \in Nat, u <= t + Overlap
  PROVE  FloorSecond(u) <= FloorSecond(t) + Overlap
<1>1. PICK p \in Nat : FloorSecond(t) = Second * p
  BY FloorSecondBounds
<1>2. PICK q \in Nat : FloorSecond(u) = Second * q
  BY FloorSecondBounds
<1>3. PICK k \in Nat : Overlap = Second * k
  <2>1. Overlap = Second * (Overlap \div Second) + (Overlap % Second) /\ Overlap \div Second \in Nat
    BY TimeAssumption
  <2>2. Overlap = Second * (Overlap \div Second)
    BY <2>1, TimeAssumption
  <2> QED
    BY <2>1, <2>2
<1>4. FloorSecond(u) <= t + Overlap /\ t < FloorSecond(t) + Second
  BY FloorSecondBounds, TimesAreNat
<1>5. Second * q < Second * p + Second + Second * k
  <2>1. FloorSecond(t) \in Nat /\ FloorSecond(u) \in Nat
    BY FloorSecondBounds
  <2>2. FloorSecond(u) < FloorSecond(t) + Second + Overlap
    BY <1>4, <2>1, TimesAreNat
  <2> QED
    BY <1>1, <1>2, <1>3, <2>2
<1>6. Second * q < Second * (p + 1 + k)
  BY <1>5, TimeAssumption
<1>7. q < p + 1 + k
  <2> SUFFICES ASSUME q >= p + 1 + k PROVE FALSE
    OBVIOUS
  <2>1. PICK d \in Nat : q = p + 1 + k + d
    <3>1. q - (p + 1 + k) \in Nat /\ q = p + 1 + k + (q - (p + 1 + k))
      OBVIOUS
    <3> QED
      BY <3>1
  <2>2. Second * q = Second * (p + 1 + k) + Second * d
    BY <2>1, TimeAssumption
  <2>3. Second * d \in Nat /\ Second * (p + 1 + k) \in Nat
    BY TimeAssumption
  <2> QED
    BY <1>6, <2>2, <2>3
<1>8. PICK e \in Nat : p + k = q + e
  <2>1. p + k - q \in Nat /\ p + k = q + (p + k - q)
    BY <1>7
  <2> QED
    BY <2>1
<1>9. Second * p + Second * k = Second * q + Second * e /\ Second * e \in Nat
  <2>1. Second * (p + k) = Second * (q + e)
    BY <1>8
  <2> QED
    BY <2>1, TimeAssumption
<1> QED
  BY <1>1, <1>2, <1>3, <1>9, TimeAssumption, FloorSecondBounds
-----------------------------------------------------------------------------
\* Listening again fills a slot, or none.
LEMMA ListenTypes ==
  ASSUME TypeOK, NEW old, NEW keys \in BOOLEAN,
         NEW subs \in [Subs -> {"closed", "connecting", "open", "closing"}],
         Listen(old, subs, keys)
  PROVE  /\ cur' \in Subs \cup {NoSub}
         /\ sub' \in [Subs -> {"closed", "connecting", "open", "closing"}]
         /\ opened' \in [Subs -> Nat]
BY DEF TypeOK, Listen

LEMMA TypeInit == Init => TypeOK
<1> SUFFICES ASSUME Init PROVE TypeOK
  OBVIOUS
<1>1. /\ drift \in [Calls -> 0 .. Ahead]
      /\ sentAt \in [Calls -> Nat] /\ heardAt \in [Calls -> Nat]
      /\ answeredAt \in [Calls -> Nat] /\ opened \in [Subs -> Nat]
      /\ rowAt \in [Calls -> Nat] /\ runs \in [Calls -> Nat]
      /\ now \in Nat /\ faults \in Nat
  BY TimesAreNat DEF Init
<1>2. /\ call \in [Calls -> {"idle", "publishing", "waiting"} \cup Ended]
      /\ answer \in [Calls -> {"none", "result", "error", "reject"}]
      /\ up \in BOOLEAN /\ keyed \in BOOLEAN /\ timer \in BOOLEAN
      /\ cur \in Subs \cup {NoSub}
      /\ sub \in [Subs -> {"closed", "connecting", "open", "closing"}]
      /\ rows \in SUBSET Calls /\ handling \in SUBSET Calls
  BY DEF Init
<1> QED
  BY <1>1, <1>2 DEF TypeOK

\* Every step of the caller, the handler and the relays preserves the types.
LEMMA TypeInductive ==
  ASSUME TypeOK, [Next]_vars
  PROVE  TypeOK'
<1> USE DEF TypeOK, callerVars, answerVars, listenVars, workVars
<1>1. ASSUME NEW c \in Calls, CallNext(c)
      PROVE  TypeOK'
  <2>1. CASE Publish(c)
    BY <2>1 DEF Publish
  <2>2. CASE Subscribe(c)
    BY <2>2 DEF Subscribe
  <2>3. CASE Receive(c)
    BY <2>3 DEF Receive, Ended
  <2>4. CASE TimeOut(c)
    BY <2>4 DEF TimeOut, Ended
  <2>5. CASE Respond(c)
    BY <2>5 DEF Respond, Reply
  <2> QED
    BY <1>1, <2>1, <2>2, <2>3, <2>4, <2>5 DEF CallNext
<1>2. ASSUME NEW s \in Subs, SubNext(s)
      PROVE  TypeOK'
  <2>1. CASE RelayAccepts(s)
    BY <2>1 DEF RelayAccepts
  <2>2. CASE RelayCloses(s)
    BY <2>2 DEF RelayCloses, Closed, OnClose
  <2>3. CASE CloseReturns(s)
    BY <2>3 DEF CloseReturns, Closed, OnClose
  <2>4. ASSUME NEW c \in Calls, HandleEvent(s, c)
        PROVE  TypeOK'
    <3>1. FloorSecond(now) \in Nat
      BY FloorSecondBounds
    <3>2. CASE keyed /\ c \in Foreign /\ Reply(c, "reject") /\ UNCHANGED workVars
      BY <2>4, <3>2 DEF HandleEvent, Reply
    <3>3. CASE TryInsert(c) /\ UNCHANGED answerVars
      BY <2>4, <3>1, <3>3 DEF HandleEvent, TryInsert
    <3>4. CASE UNCHANGED <<answerVars, workVars>>
      BY <2>4, <3>4 DEF HandleEvent
    <3> QED
      BY <2>4, <3>2, <3>3, <3>4 DEF HandleEvent
  <2> QED
    BY <1>2, <2>1, <2>2, <2>3, <2>4 DEF SubNext
<1>3. ASSUME NEW keys \in BOOLEAN, UpdateSubscription(keys)
      PROVE  TypeOK'
  <2>1. /\ cur' \in Subs \cup {NoSub}
        /\ sub' \in [Subs -> {"closed", "connecting", "open", "closing"}]
        /\ opened' \in [Subs -> Nat]
    BY <1>3, ListenTypes DEF UpdateSubscription
  <2>2. keyed' \in BOOLEAN /\ faults' \in Nat
    BY <1>3 DEF UpdateSubscription
  <2> QED
    BY <1>3, <2>1, <2>2 DEF UpdateSubscription
<1>4. CASE Reconnect
  <2>1. PICK late \in SUBSET {s \in Subs : sub[s] \in {"connecting", "closing"}} :
          Listen(NoSub, [s \in Subs |-> IF s \in late THEN "closing" ELSE "closed"], keyed)
    BY <1>4 DEF Reconnect
  <2>2. [s \in Subs |-> IF s \in late THEN "closing" ELSE "closed"]
          \in [Subs -> {"closed", "connecting", "open", "closing"}]
    OBVIOUS
  <2>3. /\ cur' \in Subs \cup {NoSub}
        /\ sub' \in [Subs -> {"closed", "connecting", "open", "closing"}]
        /\ opened' \in [Subs -> Nat]
    BY <2>1, <2>2, ListenTypes
  <2> QED
    BY <1>4, <2>3 DEF Reconnect
<1>5. CASE Cleanup
  BY <1>5 DEF Cleanup
<1>6. CASE Crash
  <2>1. /\ sub' \in [Subs -> {"closed", "connecting", "open", "closing"}]
        /\ opened' \in [Subs -> Nat]
    BY <1>6 DEF Crash, Closed
  <2>2. cur' \in Subs \cup {NoSub} /\ up' \in BOOLEAN /\ timer' \in BOOLEAN
    BY <1>6 DEF Crash
  <2>3. faults' \in Nat
    BY <1>6 DEF Crash
  <2> QED
    BY <1>6, <2>1, <2>2, <2>3 DEF Crash
<1>7. CASE Start
  BY <1>7, ListenTypes DEF Start
<1>8. CASE Tick
  BY <1>8 DEF Tick
<1>9. CASE UNCHANGED vars
  BY <1>9 DEF vars
<1> QED
  BY <1>1, <1>2, <1>3, <1>4, <1>5, <1>6, <1>7, <1>8, <1>9 DEF Next

\* The variables of the delivery keep their types.
THEOREM DeliveryTypeCorrect == Spec => []TypeOK
BY TypeInit, TypeInductive, PTL DEF Spec
-----------------------------------------------------------------------------
\* The current subscription is never one that listen() has closed, so that the
\* late close of a predecessor is the only spurious one.
CurrentIsNotClosing == cur # NoSub => sub[cur] # "closing"

ListenInv == CurrentIsNotClosing /\ NeverDeaf

\* After listen() the handler is about to be served, if it has keys.
LEMMA ListenServes ==
  ASSUME TypeOK, NEW old \in Subs \cup {NoSub}, NEW keys \in BOOLEAN,
         NEW subs \in [Subs -> {"closed", "connecting", "open", "closing"}],
         Listen(old, subs, keys)
  PROVE  /\ CurrentIsNotClosing'
         /\ keys => cur' # NoSub /\ sub'[cur'] = "connecting"
<1> DEFINE cl == [s \in Subs |-> IF s = old /\ subs[s] # "closed" THEN "closing" ELSE subs[s]]
<1>1. cl \in [Subs -> {"closed", "connecting", "open", "closing"}]
  OBVIOUS
<1>2. CASE keys
  <2>1. PICK s \in Subs : cur' = s /\ sub' = [cl EXCEPT ![s] = "connecting"]
    BY <1>2 DEF Listen
  <2>2. sub'[s] = "connecting"
    BY <1>1, <2>1
  <2>3. s # NoSub
    BY CallAssumption DEF Subs, NoSub
  <2> QED
    BY <2>1, <2>2, <2>3 DEF CurrentIsNotClosing
<1>3. CASE ~keys
  BY <1>3 DEF Listen, CurrentIsNotClosing
<1> QED
  BY <1>2, <1>3

LEMMA ListenInductive ==
  ASSUME TypeOK, ListenInv, [Next]_vars
  PROVE  ListenInv'
<1> USE DEF ListenInv, listenVars
<1>1. ASSUME UNCHANGED <<up, listenVars>>
      PROVE  ListenInv'
  BY <1>1 DEF CurrentIsNotClosing, NeverDeaf
<1>2. ASSUME NEW c \in Calls, CallNext(c)
      PROVE  ListenInv'
  BY <1>1, <1>2 DEF CallNext, Publish, Subscribe, Receive, TimeOut, Respond
<1>3. ASSUME NEW s \in Subs, SubNext(s)
      PROVE  ListenInv'
  <2>1. CASE RelayAccepts(s)
    BY <2>1 DEF RelayAccepts, CurrentIsNotClosing, NeverDeaf, TypeOK
  <2>2. CASE RelayCloses(s)
    BY <2>2 DEF RelayCloses, Closed, OnClose, CurrentIsNotClosing, NeverDeaf, TypeOK
  <2>3. CASE CloseReturns(s)
    BY <2>3 DEF CloseReturns, Closed, OnClose, CurrentIsNotClosing, NeverDeaf, TypeOK
  <2>4. ASSUME NEW c \in Calls, HandleEvent(s, c)
        PROVE  ListenInv'
    BY <2>4, <1>1 DEF HandleEvent
  <2> QED
    BY <1>3, <2>1, <2>2, <2>3, <2>4 DEF SubNext
<1>4. ASSUME NEW keys \in BOOLEAN, UpdateSubscription(keys)
      PROVE  ListenInv'
  BY <1>4, ListenServes DEF UpdateSubscription, NeverDeaf, TypeOK
<1>5. CASE Reconnect
  <2>1. PICK late \in SUBSET {s \in Subs : sub[s] \in {"connecting", "closing"}} :
          Listen(NoSub, [s \in Subs |-> IF s \in late THEN "closing" ELSE "closed"], keyed)
    BY <1>5 DEF Reconnect
  <2>2. [s \in Subs |-> IF s \in late THEN "closing" ELSE "closed"]
          \in [Subs -> {"closed", "connecting", "open", "closing"}]
    OBVIOUS
  <2>3. /\ CurrentIsNotClosing'
        /\ keyed => cur' # NoSub /\ sub'[cur'] = "connecting"
    BY <2>1, <2>2, ListenServes DEF TypeOK
  <2> QED
    BY <1>5, <2>3 DEF Reconnect, NeverDeaf
<1>6. CASE Start
  BY <1>6, ListenServes DEF Start, NeverDeaf, TypeOK
<1>7. CASE Crash
  BY <1>7 DEF Crash, Closed, CurrentIsNotClosing, NeverDeaf
<1>8. CASE Cleanup \/ Tick \/ UNCHANGED vars
  BY <1>8, <1>1 DEF Cleanup, Tick, vars
<1> QED
  BY <1>2, <1>3, <1>4, <1>5, <1>6, <1>7, <1>8 DEF Next

\* As long as there are keys, a running daemon listens, connects or has a
\* reconnect scheduled, whatever closes when.
THEOREM DaemonIsNeverDeaf == Spec => []NeverDeaf
<1>1. Init => ListenInv
  BY DEF Init, ListenInv, CurrentIsNotClosing, NeverDeaf, NoSub
<1>2. TypeOK /\ ListenInv /\ [Next]_vars => ListenInv'
  BY ListenInductive
<1>3. ListenInv => NeverDeaf
  BY DEF ListenInv
<1> QED
  BY <1>1, <1>2, <1>3, DeliveryTypeCorrect, PTL DEF Spec
-----------------------------------------------------------------------------
\* After this time no relay delivers the event any more: the last subscription
\* that accepts it is opened Overlap and a truncation after the agent's clock.
Horizon(c) == sentAt[c] + Ahead + Overlap + MaxDelay + Second - 1

\* An event that was executed has its row, or is too old to come again.
RowsOutliveEvents ==
  \A c \in Calls :
    /\ call[c] = "idle" => runs[c] = 0 /\ c \notin rows
    /\ sentAt[c] <= now
    /\ c \in rows => sentAt[c] < rowAt[c] + Second
    /\ runs[c] \in {0, 1}
    /\ runs[c] = 1 => c \in rows \/ Horizon(c) < now

\* An event that can be delivered is within its horizon.
LEMMA DeliveredInTime ==
  ASSUME TypeOK, NEW s \in Subs, NEW c \in Calls, HandleEvent(s, c)
  PROVE  now <= Horizon(c) /\ call[c] # "idle"
<1>1. /\ FloorSecond(opened[s]) <= FloorSecond(sentAt[c] + drift[c]) + Overlap
      /\ now <= sentAt[c] + MaxDelay \/ now <= opened[s] + MaxDelay
      /\ call[c] # "idle"
  BY DEF HandleEvent, Since, InTime
<1>2. /\ now \in Nat /\ opened[s] \in Nat /\ sentAt[c] \in Nat
      /\ drift[c] \in Nat /\ drift[c] <= Ahead
  BY TimesAreNat DEF TypeOK
<1>3. /\ FloorSecond(opened[s]) \in Nat
      /\ opened[s] < FloorSecond(opened[s]) + Second
  BY <1>2, FloorSecondBounds
<1>4. /\ FloorSecond(sentAt[c] + drift[c]) \in Nat
      /\ FloorSecond(sentAt[c] + drift[c]) <= sentAt[c] + drift[c]
  <2>1. sentAt[c] + drift[c] \in Nat
    BY <1>2
  <2> QED
    BY <2>1, FloorSecondBounds
<1>5. opened[s] <= sentAt[c] + Ahead + Overlap + Second - 1
  BY <1>1, <1>2, <1>3, <1>4, TimesAreNat
<1> QED
  BY <1>1, <1>2, <1>5, TimesAreNat DEF Horizon

LEMMA RowsInductive ==
  ASSUME TypeOK, RowsOutliveEvents, [Next]_vars
  PROVE  RowsOutliveEvents'
<1>1. ASSUME UNCHANGED <<call, sentAt, now, rows, rowAt, runs>>
      PROVE  RowsOutliveEvents'
  BY <1>1 DEF RowsOutliveEvents, Horizon
<1>2. ASSUME NEW c \in Calls, CallNext(c)
      PROVE  RowsOutliveEvents'
  <2>1. CASE Publish(c)
    BY <2>1 DEF Publish, RowsOutliveEvents, Horizon, TypeOK, workVars
  <2>2. CASE Subscribe(c) \/ Receive(c) \/ TimeOut(c)
    <3>1. /\ \A d \in Calls : call'[d] = "idle" => call[d] = "idle"
          /\ UNCHANGED <<sentAt, now, rows, rowAt, runs>>
      <4>1. CASE Subscribe(c)
        BY <4>1 DEF Subscribe, TypeOK, workVars
      <4>2. CASE TimeOut(c)
        BY <4>2 DEF TimeOut, TypeOK, workVars
      <4>3. CASE Receive(c)
        BY <4>3 DEF Receive, TypeOK, workVars, Ended
      <4> QED
        BY <2>2, <4>1, <4>2, <4>3
    <3> QED
      BY <3>1 DEF RowsOutliveEvents, Horizon
  <2>3. CASE Respond(c)
    BY <2>3, <1>1 DEF Respond, callerVars
  <2> QED
    BY <1>2, <2>1, <2>2, <2>3 DEF CallNext
<1>3. ASSUME NEW s \in Subs, SubNext(s)
      PROVE  RowsOutliveEvents'
  <2>1. CASE RelayAccepts(s) \/ RelayCloses(s) \/ CloseReturns(s)
    BY <2>1, <1>1 DEF RelayAccepts, RelayCloses, CloseReturns, callerVars, workVars
  <2>2. ASSUME NEW c \in Calls, HandleEvent(s, c)
        PROVE  RowsOutliveEvents'
    <3>1. now <= Horizon(c) /\ call[c] # "idle"
      BY <2>2, DeliveredInTime
    <3>2. CASE UNCHANGED workVars
      BY <2>2, <3>2, <1>1 DEF HandleEvent, callerVars, workVars
    <3>3. CASE /\ c \notin rows
               /\ rows' = rows \cup {c}
               /\ rowAt' = [rowAt EXCEPT ![c] = FloorSecond(now)]
               /\ runs' = [runs EXCEPT ![c] = @ + 1]
      <4>1. now < FloorSecond(now) + Second /\ FloorSecond(now) \in Nat
        BY FloorSecondBounds DEF TypeOK
      <4>2. Horizon(c) \in Int /\ now \in Nat /\ sentAt[c] \in Nat
        BY TimesAreNat DEF TypeOK, Horizon
      <4>3. runs[c] = 0
        BY <3>1, <3>3, <4>2 DEF RowsOutliveEvents
      <4>4. sentAt[c] < rowAt'[c] + Second /\ runs'[c] = 1
        BY <3>3, <4>1, <4>2, <4>3, TimesAreNat DEF RowsOutliveEvents, TypeOK
      <4>5. UNCHANGED <<call, sentAt, now>>
        BY <2>2 DEF HandleEvent, callerVars
      <4>6. ASSUME NEW d \in Calls, d # c
            PROVE  rowAt'[d] = rowAt[d] /\ runs'[d] = runs[d] /\ (d \in rows' <=> d \in rows)
        BY <3>3, <4>6 DEF TypeOK
      <4> QED
        BY <3>1, <3>3, <4>4, <4>5, <4>6 DEF RowsOutliveEvents, Horizon
    <3> QED
      BY <2>2, <3>2, <3>3 DEF HandleEvent, TryInsert
  <2> QED
    BY <1>3, <2>1, <2>2 DEF SubNext
<1>4. CASE Cleanup
  <2> DEFINE old == {c \in rows : rowAt[c] + MaxAge < now}
  <2>1. rows' = rows \ old /\ UNCHANGED <<call, sentAt, now, rowAt, runs>>
    BY <1>4 DEF Cleanup, callerVars
  <2>2. ASSUME NEW c \in Calls, c \in old
        PROVE  Horizon(c) < now
    <3>1. rowAt[c] + MaxAge < now /\ sentAt[c] < rowAt[c] + Second
      BY <2>2 DEF RowsOutliveEvents
    <3>2. now \in Nat /\ rowAt[c] \in Nat /\ sentAt[c] \in Nat
      BY DEF TypeOK
    <3> QED
      BY <3>1, <3>2, RetentionAssumption, TimesAreNat DEF Horizon
  <2> QED
    BY <2>1, <2>2 DEF RowsOutliveEvents, Horizon
<1>5. CASE Tick
  <2>1. now' = now + 1 /\ UNCHANGED <<call, sentAt, rows, rowAt, runs>>
    BY <1>5 DEF Tick, callerVars, workVars
  <2>2. \A c \in Calls : Horizon(c) \in Int /\ now \in Nat /\ sentAt[c] \in Nat
    BY TimesAreNat DEF TypeOK, Horizon
  <2>3. \A c \in Calls : Horizon(c)' = Horizon(c)
    BY <2>1 DEF Horizon
  <2> QED
    BY <2>1, <2>2, <2>3 DEF RowsOutliveEvents
<1>6. CASE \/ \E keys \in BOOLEAN : UpdateSubscription(keys)
           \/ Reconnect \/ Crash \/ Start \/ UNCHANGED vars
  BY <1>6, <1>1 DEF UpdateSubscription, Reconnect, Crash, Start, vars, callerVars, workVars
<1> QED
  BY <1>2, <1>3, <1>4, <1>5, <1>6 DEF Next

\* No event is executed twice: the rows of rpc_requests outlive every event
\* that a relay may still deliver.
THEOREM EventsAreExecutedOnce == Spec => []ExecutedOnce
<1>1. Init => RowsOutliveEvents
  BY DEF Init, RowsOutliveEvents
<1>2. TypeOK /\ RowsOutliveEvents /\ [Next]_vars => RowsOutliveEvents'
  BY RowsInductive
<1>3. RowsOutliveEvents => ExecutedOnce
  BY DEF RowsOutliveEvents, ExecutedOnce
<1> QED
  BY <1>1, <1>2, <1>3, DeliveryTypeCorrect, PTL DEF Spec
-----------------------------------------------------------------------------
\* The answers there are tell what happened to the event.
AnswersAreTrue ==
  \A c \in Calls :
    /\ answer[c] \in {"result", "error"} => runs[c] > 0 /\ c \notin Foreign
    /\ answer[c] = "reject" => c \in Foreign
    /\ c \in handling => runs[c] > 0 /\ c \notin Foreign
    /\ c \in Foreign => runs[c] = 0

AnswerInv == AnswersAreTrue /\ AnswersAreOwn

LEMMA AnswersInductive ==
  ASSUME TypeOK, AnswerInv, [Next]_vars
  PROVE  AnswerInv'
<1> USE DEF AnswerInv
<1>1. ASSUME UNCHANGED <<call, answer, handling, runs>>
      PROVE  AnswerInv'
  BY <1>1 DEF AnswersAreTrue, AnswersAreOwn
<1>2. ASSUME NEW c \in Calls, CallNext(c)
      PROVE  AnswerInv'
  <2>1. CASE Publish(c)
    BY <2>1 DEF Publish, AnswersAreTrue, AnswersAreOwn, TypeOK, answerVars, workVars
  <2>2. CASE Subscribe(c)
    BY <2>2 DEF Subscribe, AnswersAreTrue, AnswersAreOwn, TypeOK, answerVars, workVars
  <2>3. CASE TimeOut(c)
    BY <2>3 DEF TimeOut, AnswersAreTrue, AnswersAreOwn, TypeOK, answerVars, workVars
  <2>4. CASE Receive(c)
    <3>1. answer[c] # "none" /\ call' = [call EXCEPT ![c] = answer[c]]
      BY <2>4 DEF Receive, IsFor
    <3>2. UNCHANGED <<answer, handling, runs>>
      BY <2>4 DEF Receive, answerVars, workVars
    <3>3. \A d \in Calls : call'[d] = IF d = c THEN answer[c] ELSE call[d]
      BY <3>1 DEF TypeOK
    <3> QED
      BY <3>2, <3>3 DEF AnswersAreTrue, AnswersAreOwn
  <2>5. CASE Respond(c)
    <3>1. PICK kind \in {"result", "error"} : answer' = [answer EXCEPT ![c] = kind]
      BY <2>5 DEF Respond, Reply
    <3>2. /\ c \in handling /\ handling' = handling \ {c}
          /\ UNCHANGED <<call, runs>>
      BY <2>5 DEF Respond, callerVars
    <3>3. \A d \in Calls : answer'[d] = IF d = c THEN kind ELSE answer[d]
      BY <3>1 DEF TypeOK
    <3> QED
      BY <3>2, <3>3 DEF AnswersAreTrue, AnswersAreOwn
  <2> QED
    BY <1>2, <2>1, <2>2, <2>3, <2>4, <2>5 DEF CallNext
<1>3. ASSUME NEW s \in Subs, SubNext(s)
      PROVE  AnswerInv'
  <2>1. CASE RelayAccepts(s) \/ RelayCloses(s) \/ CloseReturns(s)
    BY <2>1, <1>1
       DEF RelayAccepts, RelayCloses, CloseReturns, callerVars, answerVars, workVars
  <2>2. ASSUME NEW c \in Calls, HandleEvent(s, c)
        PROVE  AnswerInv'
    <3>1. UNCHANGED call
      BY <2>2 DEF HandleEvent, callerVars
    <3>2. CASE UNCHANGED <<answerVars, workVars>>
      BY <3>1, <3>2, <1>1 DEF answerVars, workVars
    <3>3. CASE c \in Foreign /\ Reply(c, "reject") /\ UNCHANGED workVars
      <4>1. \A d \in Calls : answer'[d] = IF d = c THEN "reject" ELSE answer[d]
        BY <3>3 DEF Reply, TypeOK
      <4> QED
        BY <3>1, <3>3, <4>1 DEF AnswersAreTrue, AnswersAreOwn, workVars
    <3>4. CASE c \notin Foreign /\ TryInsert(c) /\ UNCHANGED answerVars
      <4>1. CASE UNCHANGED workVars
        BY <3>4, <4>1, <3>2
      <4>2. CASE /\ handling' = handling \cup {c}
                 /\ runs' = [runs EXCEPT ![c] = @ + 1]
        <5>1. /\ runs[c] \in Nat
              /\ \A d \in Calls : runs'[d] = IF d = c THEN runs[c] + 1 ELSE runs[d]
          BY <4>2 DEF TypeOK
        <5>2. runs'[c] > 0 /\ \A d \in Calls : runs[d] > 0 => runs'[d] > 0
          BY <5>1
        <5>3. UNCHANGED answer
          BY <3>4 DEF answerVars
        <5>4. \A d \in Calls : call[d] = "reject" => d # c
          BY <3>4 DEF AnswersAreOwn
        <5> QED
          BY <3>1, <3>4, <4>2, <5>1, <5>2, <5>3, <5>4 DEF AnswersAreTrue, AnswersAreOwn
      <4> QED
        BY <3>4, <4>1, <4>2 DEF TryInsert
    <3> QED
      BY <2>2, <3>2, <3>3, <3>4 DEF HandleEvent
  <2> QED
    BY <1>3, <2>1, <2>2 DEF SubNext
<1>4. CASE Crash
  BY <1>4 DEF Crash, AnswersAreTrue, AnswersAreOwn, callerVars, answerVars
<1>5. CASE \/ \E keys \in BOOLEAN : UpdateSubscription(keys)
           \/ Reconnect \/ Cleanup \/ Start \/ Tick \/ UNCHANGED vars
  BY <1>5, <1>1
     DEF UpdateSubscription, Reconnect, Cleanup, Start, Tick, vars,
         callerVars, answerVars, workVars
<1> QED
  BY <1>2, <1>3, <1>4, <1>5 DEF Next

\* A call returns what its own event led to.
THEOREM CallsReturnTheirAnswer == Spec => []AnswersAreOwn
<1>1. Init => AnswerInv
  BY DEF Init, AnswerInv, AnswersAreTrue, AnswersAreOwn
<1>2. TypeOK /\ AnswerInv /\ [Next]_vars => AnswerInv'
  BY AnswersInductive
<1>3. AnswerInv => AnswersAreOwn
  BY DEF AnswerInv
<1> QED
  BY <1>1, <1>2, <1>3, DeliveryTypeCorrect, PTL DEF Spec
-----------------------------------------------------------------------------
\* An answer is signed after the event it answers.
AnswersComeLater ==
  \A c \in Calls :
    /\ c \in handling \/ answer[c] # "none" => call[c] # "idle"
    /\ sentAt[c] <= now
    /\ answer[c] # "none" => sentAt[c] <= answeredAt[c]

LEMMA LaterInductive ==
  ASSUME TypeOK, AnswersComeLater, [Next]_vars
  PROVE  AnswersComeLater'
<1>1. ASSUME UNCHANGED <<call, sentAt, now, answer, answeredAt>>, handling' \subseteq handling
      PROVE  AnswersComeLater'
  BY <1>1 DEF AnswersComeLater
<1>2. ASSUME NEW c \in Calls, call[c] # "idle", Reply(c, answer'[c]),
             handling' \subseteq handling, UNCHANGED <<call, sentAt, now>>
      PROVE  AnswersComeLater'
  BY <1>2 DEF Reply, AnswersComeLater, TypeOK
<1>3. ASSUME NEW c \in Calls, CallNext(c)
      PROVE  AnswersComeLater'
  <2>1. CASE Publish(c)
    BY <2>1 DEF Publish, AnswersComeLater, TypeOK, answerVars, workVars
  <2>2. CASE Subscribe(c)
    BY <2>2 DEF Subscribe, AnswersComeLater, TypeOK, answerVars, workVars
  <2>3. CASE TimeOut(c)
    BY <2>3 DEF TimeOut, AnswersComeLater, TypeOK, answerVars, workVars
  <2>4. CASE Receive(c)
    BY <2>4 DEF Receive, IsFor, AnswersComeLater, TypeOK, answerVars, workVars
  <2>5. CASE Respond(c)
    BY <2>5, <1>2 DEF Respond, Reply, AnswersComeLater, TypeOK, callerVars
  <2> QED
    BY <1>3, <2>1, <2>2, <2>3, <2>4, <2>5 DEF CallNext
<1>4. ASSUME NEW s \in Subs, SubNext(s)
      PROVE  AnswersComeLater'
  <2>1. CASE RelayAccepts(s) \/ RelayCloses(s) \/ CloseReturns(s)
    BY <2>1, <1>1
       DEF RelayAccepts, RelayCloses, CloseReturns, callerVars, answerVars, workVars
  <2>2. ASSUME NEW c \in Calls, HandleEvent(s, c)
        PROVE  AnswersComeLater'
    <3>1. call[c] # "idle" /\ UNCHANGED <<call, sentAt, now>>
      BY <2>2 DEF HandleEvent, callerVars
    <3>2. CASE UNCHANGED answerVars
      <4>1. handling' \subseteq handling \cup {c}
        BY <2>2 DEF HandleEvent, TryInsert, workVars
      <4> QED
        BY <3>1, <3>2, <4>1 DEF AnswersComeLater, answerVars
    <3>3. CASE Reply(c, "reject") /\ UNCHANGED workVars
      BY <3>1, <3>3, <1>2 DEF Reply, TypeOK, workVars
    <3> QED
      BY <2>2, <3>2, <3>3 DEF HandleEvent
  <2> QED
    BY <1>4, <2>1, <2>2 DEF SubNext
<1>5. CASE Tick
  BY <1>5 DEF Tick, AnswersComeLater, TypeOK, callerVars, answerVars, workVars
<1>6. CASE \/ \E keys \in BOOLEAN : UpdateSubscription(keys)
           \/ Reconnect \/ Cleanup \/ Crash \/ Start \/ UNCHANGED vars
  BY <1>6, <1>1
     DEF UpdateSubscription, Reconnect, Cleanup, Crash, Start, vars,
         callerVars, answerVars, workVars
<1> QED
  BY <1>3, <1>4, <1>5, <1>6 DEF Next

\* A caller whose publishing and drift stay within the window of its filter
\* does not filter its own answer out.
THEOREM QuickCallersHear == Spec => []QuickCallsHearTheirAnswer
<1>1. Init => AnswersComeLater
  BY DEF Init, AnswersComeLater
<1>2. TypeOK /\ AnswersComeLater /\ [Next]_vars => AnswersComeLater'
  BY LaterInductive
<1>3. TypeOK /\ AnswersComeLater => QuickCallsHearTheirAnswer
  <2> SUFFICES ASSUME TypeOK, AnswersComeLater, NEW c \in Calls, answer[c] # "none",
                      heardAt[c] + drift[c] <= sentAt[c] + Overlap
               PROVE  Audible(c, c)
    BY DEF QuickCallsHearTheirAnswer
  <2>1. /\ heardAt[c] + drift[c] \in Nat /\ answeredAt[c] \in Nat
        /\ heardAt[c] + drift[c] <= answeredAt[c] + Overlap
    BY TimesAreNat DEF TypeOK, AnswersComeLater
  <2>2. FloorSecond(heardAt[c] + drift[c]) <= FloorSecond(answeredAt[c]) + Overlap
    BY <2>1, FloorSecondWindow
  <2> QED
    BY <2>2 DEF Audible, Since
<1> QED
  BY <1>1, <1>2, <1>3, DeliveryTypeCorrect, PTL DEF Spec
=============================================================================
