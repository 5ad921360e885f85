--------------------------- MODULE ConnectionsProofs ---------------------------
(***************************************************************************)
(* Theorems about Connections, for any number of calls and authorizations, *)
(* with rotating refresh tokens and without, with and without a revocation *)
(* by the service.                                                         *)
(***************************************************************************)
EXTENDS Connections, TLAPS

\* The inductive invariant has three parts.

\* A call that waits for a refresh holds credentials, and refreshPromises has an
\* entry exactly while the call that made it is refreshing.
Flight(c) ==
  /\ call[c] \in {"refreshing", "joined"} => using[c] \in Creds
  /\ call[c] = "refreshing" <=> leader = c
  /\ reply[c] # NoReply => call[c] = "refreshing"

SingleFlight == \A c \in Calls : Flight(c)

\* The refresh token that a call sent, and the one that the row holds, are those
\* that the provider accepts, as long as no answer was lost on the way.
SentToken(c) ==
  /\ using[c] \in Creds => using[c].grant <= grants
  /\ reply[c] \in Creds => /\ reply[c].grant = using[c].grant
                           /\ reply[c].serial = serial[using[c].grant]
  /\ reply[c] = Refused => using[c].grant \in revoked \cup lost
  /\ /\ call[c] = "refreshing"
     /\ reply[c] = NoReply
     /\ using[c].grant \notin lost
     => using[c].serial = serial[using[c].grant]

StoredToken ==
  creds \in Creds =>
    /\ creds.grant <= grants
    /\ /\ creds.grant \notin lost
       /\ \A c \in Calls : reply[c] \in Creds => using[c].grant # creds.grant
       => creds.serial = serial[creds.grant]

\* What the user did last, if nothing was under way: no clean-up has listed a
\* connection that is in use, and no call can bring back one that is deleted.
Obeyed ==
  /\ wanted = "connected" /\ clean =>
       /\ status \in {"connected", "paused", "error"}
       /\ creds \in Creds
       /\ purging = 0
  /\ wanted = "disconnected" /\ clean =>
       /\ status \in {"none", "disconnected", "error"}
       /\ creds = NoCreds
       /\ \A c \in Calls : call[c] \notin {"refreshing", "joined", "probing"}

ConnInv ==
  /\ TypeOK
  /\ SingleFlight
  /\ \A c \in Calls : SentToken(c)
  /\ StoredToken
  /\ Obeyed

-----------------------------------------------------------------------------
\* Credentials are a record, and none of the markers.
LEMMA CredsFields ==
  /\ \A x \in Creds : x.grant \in Grants /\ x.serial \in Nat
  /\ \A g \in Grants, n \in Nat : [grant |-> g, serial |-> n] \in Creds
  /\ NoCreds \notin Creds /\ NoReply \notin Creds /\ Refused \notin Creds
  /\ NoReply # Refused
  /\ NoCall \notin Calls
BY CallAssumption, NullAssumption DEF Creds

\* A daemon without the connection satisfies the invariant.
LEMMA ConnInvInit == Init => ConnInv
<1> SUFFICES ASSUME Init
             PROVE  ConnInv
  OBVIOUS
<1>1. TypeOK
  <2>1. grants \in 0 .. MaxGrants
    BY ProviderAssumption DEF Init
  <2>2. /\ call \in [Calls -> {"idle", "refreshing", "joined", "probing", "done", "lost"}]
        /\ using \in [Calls -> Creds \cup {NoCreds}]
        /\ got \in [Calls -> Creds \cup {NoCreds}]
        /\ reply \in [Calls -> Creds \cup {NoReply, Refused}]
        /\ serial \in [Grants -> Nat]
    BY DEF Init
  <2> QED
    BY <2>1, <2>2 DEF Init, TypeOK
<1>2. SingleFlight
  BY CredsFields DEF Init, SingleFlight, Flight
<1>3. \A c \in Calls : SentToken(c)
  BY CredsFields DEF Init, SentToken
<1>4. StoredToken /\ Obeyed
  BY CredsFields DEF Init, StoredToken, Obeyed
<1> QED
  BY <1>1, <1>2, <1>3, <1>4 DEF ConnInv

\* What is left when the process dies: no call, and among the lost authorizations
\* those for which a refresh was sent.
CallsEnded ==
  /\ call' \in [Calls -> {"idle", "done", "lost"}]
  /\ using' = [c \in Calls |-> NoCreds]
  /\ got' = [c \in Calls |-> NoCreds]
  /\ reply' = [c \in Calls |-> NoReply]
  /\ leader' = NoCall
  /\ purging' = 0 /\ removing' = 0 /\ up' = FALSE
  /\ lost \subseteq lost' /\ lost' \in SUBSET Grants
  /\ \A c \in Calls : call[c] = "refreshing" => using[c].grant \in lost'
  /\ serial' \in [Grants -> Nat]
  /\ \A g \in Grants \ lost' : serial'[g] = serial[g]

LEMMA DeathEndsCalls ==
  ASSUME TypeOK, SingleFlight, ProcessDies
  PROVE  CallsEnded
<1> DEFINE sent == {c \in Calls : call[c] = "refreshing"}
           unanswered == {using[c].grant : c \in {d \in sent : reply[d] = NoReply}}
<1>1. /\ using' = [c \in Calls |-> NoCreds]
      /\ got' = [c \in Calls |-> NoCreds]
      /\ reply' = [c \in Calls |-> NoReply]
      /\ leader' = NoCall
      /\ purging' = 0 /\ removing' = 0 /\ up' = FALSE
      /\ call' = [c \in Calls |-> IF call[c] \in {"idle", "done"} THEN call[c] ELSE "lost"]
      /\ lost' = lost \cup {using[c].grant : c \in sent}
      /\ \/ UNCHANGED serial
         \/ serial' = [g \in Grants |-> IF g \in unanswered THEN serial[g] + 1
                                                            ELSE serial[g]]
  BY DEF ProcessDies
<1>2. {using[c].grant : c \in sent} \subseteq Grants
  BY CredsFields DEF SingleFlight, Flight
<1>3. unanswered \subseteq {using[c].grant : c \in sent}
  OBVIOUS
<1> HIDE DEF unanswered
<1>4. lost \subseteq lost' /\ lost' \in SUBSET Grants /\ unanswered \subseteq lost'
  BY <1>1, <1>2, <1>3 DEF TypeOK
<1>5. /\ serial' \in [Grants -> Nat]
      /\ \A g \in Grants \ lost' : serial'[g] = serial[g]
  BY <1>1, <1>4 DEF TypeOK
<1>6. call' \in [Calls -> {"idle", "done", "lost"}]
  BY <1>1 DEF TypeOK
<1>7. \A c \in Calls : call[c] = "refreshing" => using[c].grant \in lost'
  BY <1>1
<1> QED
  BY <1>1, <1>4, <1>5, <1>6, <1>7 DEF CallsEnded

\* Every step keeps the types.
LEMMA TypeStep ==
  ASSUME ConnInv, [Next]_vars
  PROVE  TypeOK'
<1>a. TypeOK /\ SingleFlight
  BY DEF ConnInv
<1> USE CredsFields DEF TypeOK, rowVars, callVars, workVars, provVars, userVars
<1>1. ASSUME NEW c \in Calls, FindsNothing(c) \/ FindsExpired(c)
      PROVE  TypeOK'
  BY <1>a, <1>1 DEF FindsNothing, FindsExpired, Finish, UpdateStatus
<1>2. ASSUME NEW c \in Calls, FindsFresh(c)
      PROVE  TypeOK'
  BY <1>a, <1>2 DEF FindsFresh, After
<1>3. ASSUME NEW c \in Calls, JoinRefresh(c) \/ StartRefresh(c)
      PROVE  TypeOK'
  BY <1>a, <1>3 DEF JoinRefresh, StartRefresh
<1>4. ASSUME NEW c \in Calls, RefreshSucceeds(c)
      PROVE  TypeOK'
  BY <1>a, <1>4 DEF RefreshSucceeds, Save, Returns, EndRefresh, After
<1>5. ASSUME NEW c \in Calls, RefreshIsRefused(c)
      PROVE  TypeOK'
  BY <1>a, <1>5 DEF RefreshIsRefused, RefreshFails, EndRefresh, UpdateStatus
<1>6. ASSUME NEW c \in Calls, RefreshIsLost(c)
      PROVE  TypeOK'
  <2>1. using[c].grant \in Grants
    BY <1>a, <1>6 DEF RefreshIsLost, RefreshFails, SingleFlight, Flight
  <2>2. serial' \in [Grants -> Nat] /\ lost' \in SUBSET Grants
    BY <1>a, <1>6, <2>1 DEF RefreshIsLost
  <2> QED
    BY <1>a, <1>6, <2>2 DEF RefreshIsLost, RefreshFails, EndRefresh, UpdateStatus
<1>7. ASSUME NEW c \in Calls, ProbeSucceeds(c) \/ ProbeIsRefused(c) \/ ProbeIsLost(c)
      PROVE  TypeOK'
  BY <1>a, <1>7 DEF ProbeSucceeds, ProbeIsRefused, ProbeIsLost, Finish, UpdateStatus
<1>8. ASSUME NEW c \in Calls, ProviderAnswers(c)
      PROVE  TypeOK'
  <2>1. using[c].grant \in Grants
    BY <1>a, <1>8 DEF ProviderAnswers, SingleFlight, Flight
  <2>2. serial' \in [Grants -> Nat]
    BY <1>a, <1>8, <2>1 DEF ProviderAnswers
  <2>3. reply' \in [Calls -> Creds \cup {NoReply, Refused}]
    BY <1>a, <1>8, <2>1, <2>2 DEF ProviderAnswers
  <2> QED
    BY <1>a, <1>8, <2>2, <2>3 DEF ProviderAnswers
<1>9. CASE Authorize
  <2>1. grants' \in 0 .. MaxGrants /\ grants + 1 \in Grants
    BY <1>a, <1>9, ProviderAssumption DEF Authorize, Grants
  <2>2. creds' \in Creds /\ serial' \in [Grants -> Nat] /\ clean' \in BOOLEAN
    BY <1>a, <1>9, <2>1 DEF Authorize, NothingUnderWay
  <2>3. id' \in Nat
    BY <1>a, <1>9 DEF Authorize
  <2> QED
    BY <1>a, <1>9, <2>1, <2>2, <2>3 DEF Authorize
<1>10. CASE CrashInAuthorize
  <2>1. ProcessDies /\ grants' \in 0 .. MaxGrants
    BY <1>a, <1>10, ProviderAssumption DEF CrashInAuthorize
  <2>2. creds' \in Creds \cup {NoCreds} /\ due' \in BOOLEAN /\ (creds' = NoCreds => ~due')
    BY <1>a, <1>10 DEF CrashInAuthorize
  <2>3. id' \in Nat
    BY <1>a, <1>10 DEF CrashInAuthorize
  <2>4. CallsEnded
    BY <1>a, <2>1, DeathEndsCalls
  <2> QED
    BY <1>a, <1>10, <2>1, <2>2, <2>3, <2>4 DEF CrashInAuthorize, CallsEnded
<1>11. CASE Pause \/ Unpause \/ Disconnect
  BY <1>a, <1>11 DEF Pause, Unpause, Disconnect
<1>12. CASE FinishDisconnect
  BY <1>a, <1>12 DEF FinishDisconnect, SoftDelete, Disconnected
<1>13. CASE DisconnectAtOnce
  BY <1>a, <1>13 DEF DisconnectAtOnce, SoftDelete, Disconnected
<1>14. CASE PurgeLists
  BY <1>a, <1>14 DEF PurgeLists
<1>15. CASE PurgeEnds
  <2>1. CASE HardDelete(purging)
    BY <1>a, <1>15, <2>1 DEF PurgeEnds, HardDelete
  <2>2. CASE UNCHANGED rowVars
    BY <1>a, <1>15, <2>2 DEF PurgeEnds
  <2> QED
    BY <1>15, <2>1, <2>2 DEF PurgeEnds
<1>16. CASE TokenExpires \/ Restart
  <2>1. CASE TokenExpires
    BY <1>a, <2>1 DEF TokenExpires
  <2>2. CASE Restart
    BY <1>a, <2>2 DEF Restart
  <2> QED
    BY <1>16, <2>1, <2>2
<1>17. CASE ProviderRevokes
  BY <1>a, <1>17, ProviderAssumption DEF ProviderRevokes, Grants
<1>18. CASE Crash
  <2>1. ProcessDies
    BY <1>18 DEF Crash
  <2>2. CallsEnded
    BY <1>a, <2>1, DeathEndsCalls
  <2> QED
    BY <1>a, <1>18, <2>2 DEF Crash, CallsEnded
<1>19. CASE UNCHANGED vars
  BY <1>a, <1>19 DEF vars
<1> QED
  BY <1>1, <1>2, <1>3, <1>4, <1>5, <1>6, <1>7, <1>8, <1>9, <1>10, <1>11, <1>12,
     <1>13, <1>14, <1>15, <1>16, <1>17, <1>18, <1>19 DEF Next, Waits

\* Every step keeps at most one refresh under way.
LEMMA SingleFlightStep ==
  ASSUME ConnInv, TypeOK', [Next]_vars
  PROVE  SingleFlight'
<1>a. TypeOK /\ TypeOK' /\ SingleFlight
  BY DEF ConnInv
<1> SUFFICES ASSUME NEW q \in Calls
             PROVE  Flight(q)'
  BY DEF SingleFlight
<1>b. Flight(q) /\ \A c \in Calls : Flight(c)
  BY <1>a DEF SingleFlight
<1> USE CredsFields DEF TypeOK, Flight, callVars
<1>1. ASSUME NEW c \in Calls,
             FindsNothing(c) \/ FindsExpired(c) \/ FindsFresh(c)
      PROVE  Flight(q)'
  BY <1>a, <1>b, <1>1 DEF FindsNothing, FindsExpired, FindsFresh, Called, Finish, After
<1>2. ASSUME NEW c \in Calls, JoinRefresh(c)
      PROVE  Flight(q)'
  BY <1>a, <1>b, <1>2 DEF JoinRefresh, NeedsRefresh, Called
<1>3. ASSUME NEW c \in Calls, StartRefresh(c)
      PROVE  Flight(q)'
  BY <1>a, <1>b, <1>3 DEF StartRefresh, NeedsRefresh, Called, InFlight
<1>4. ASSUME NEW c \in Calls, RefreshSucceeds(c)
      PROVE  Flight(q)'
  BY <1>a, <1>b, <1>4 DEF RefreshSucceeds, EndRefresh, Waiters, Joined, After
<1>5. ASSUME NEW c \in Calls, RefreshIsRefused(c) \/ RefreshIsLost(c)
      PROVE  Flight(q)'
  BY <1>a, <1>b, <1>5
     DEF RefreshIsRefused, RefreshIsLost, RefreshFails, EndRefresh, Waiters, Joined
<1>6. ASSUME NEW c \in Calls, ProbeSucceeds(c) \/ ProbeIsRefused(c) \/ ProbeIsLost(c)
      PROVE  Flight(q)'
  BY <1>a, <1>b, <1>6 DEF ProbeSucceeds, ProbeIsRefused, ProbeIsLost, Finish
<1>7. ASSUME NEW c \in Calls, ProviderAnswers(c)
      PROVE  Flight(q)'
  BY <1>a, <1>b, <1>7 DEF ProviderAnswers
<1>8. CASE CrashInAuthorize \/ Crash
  <2>1. CallsEnded
    BY <1>a, <1>8, DeathEndsCalls DEF CrashInAuthorize, Crash
  <2> QED
    BY <2>1 DEF CallsEnded
<1>9. CASE UNCHANGED callVars
  BY <1>b, <1>9
<1>10. CASE \/ Authorize \/ Pause \/ Unpause \/ Disconnect \/ FinishDisconnect
            \/ DisconnectAtOnce \/ PurgeLists \/ PurgeEnds \/ TokenExpires
            \/ ProviderRevokes \/ Restart \/ UNCHANGED vars
  BY <1>9, <1>10
     DEF Authorize, Pause, Unpause, Disconnect, FinishDisconnect, DisconnectAtOnce,
         PurgeLists, PurgeEnds, TokenExpires, ProviderRevokes, Restart, vars
<1> QED
  BY <1>1, <1>2, <1>3, <1>4, <1>5, <1>6, <1>7, <1>8, <1>10 DEF Next, Waits

\* A call whose refresh a step leaves alone keeps its part of the invariant.
LEMMA SentTokenKept ==
  ASSUME ConnInv, NEW q \in Calls, SentToken(q),
         using'[q] = using[q], reply'[q] = reply[q],
         call'[q] = "refreshing" => call[q] = "refreshing",
         grants' \in Nat, grants <= grants', revoked \subseteq revoked', lost \subseteq lost',
         \A g \in Grants : g <= grants => serial'[g] = serial[g]
  PROVE  SentToken(q)'
<1>1. using[q] \in Creds \cup {NoCreds} /\ reply[q] \in Creds \cup {NoReply, Refused}
  BY DEF ConnInv, TypeOK
<1>2. grants \in Nat
  BY ProviderAssumption DEF ConnInv, TypeOK
<1>3. reply[q] # NoReply => using[q] \in Creds
  BY DEF ConnInv, SingleFlight, Flight
<1>4. call[q] = "refreshing" => using[q] \in Creds
  BY DEF ConnInv, SingleFlight, Flight
<1>5. using[q] \in Creds => /\ using[q].grant \in Nat
                           /\ using[q].grant <= grants
                           /\ serial'[using[q].grant] = serial[using[q].grant]
  BY CredsFields DEF Grants, SentToken
<1> QED
  BY <1>1, <1>2, <1>3, <1>4, <1>5, CredsFields DEF SentToken

\* A call that is not refreshing has nothing to say about tokens.
LEMMA SentTokenIdle ==
  ASSUME NEW q \in Calls, call'[q] # "refreshing", reply'[q] = NoReply,
         using'[q] \in Creds => using'[q].grant <= grants'
  PROVE  SentToken(q)'
BY CredsFields DEF SentToken

\* Every step keeps the refresh tokens that are on their way current.
LEMMA SentTokenStep ==
  ASSUME ConnInv, TypeOK', [Next]_vars, NEW q \in Calls
  PROVE  SentToken(q)'
<1>a. TypeOK /\ TypeOK' /\ StoredToken /\ SentToken(q) /\ \A c \in Calls : Flight(c)
  BY DEF ConnInv, SingleFlight
<1>b. grants \in Nat /\ grants' \in Nat
  BY <1>a, ProviderAssumption DEF TypeOK
<1>c. using[q] \in Creds => using[q].grant <= grants
  BY <1>a DEF SentToken
<1>d. call[q] # "refreshing" => reply[q] = NoReply
  BY <1>a DEF Flight
<1>e. ASSUME NEW c \in Calls, call[c] = "refreshing", c # q
      PROVE  call[q] # "refreshing"
  BY <1>a, <1>e DEF Flight
<1> USE DEF TypeOK, provVars
<1>1. ASSUME NEW c \in Calls,
             FindsNothing(c) \/ FindsExpired(c) \/ FindsFresh(c)
      PROVE  SentToken(q)'
  BY <1>a, <1>b, <1>1, SentTokenKept DEF FindsNothing, FindsExpired, FindsFresh, Finish, After
<1>2. ASSUME NEW c \in Calls, JoinRefresh(c) \/ StartRefresh(c)
      PROVE  SentToken(q)'
  <2>1. CASE q # c
    BY <1>a, <1>b, <1>2, <2>1, SentTokenKept DEF JoinRefresh, StartRefresh
  <2>2. CASE q = c
    <3>1. /\ reply[c] = NoReply /\ reply'[c] = NoReply
          /\ creds \in Creds /\ using'[c] = creds
          /\ UNCHANGED provVars
      BY <1>a, <1>d, <1>2, <2>2
         DEF JoinRefresh, StartRefresh, NeedsRefresh, Called
    <3>2. CASE JoinRefresh(c)
      BY <1>a, <2>2, <3>1, <3>2, SentTokenIdle DEF JoinRefresh, StoredToken
    <3>3. CASE StartRefresh(c)
      <4>1. \A d \in Calls : reply[d] \notin Creds
        BY <1>a, <3>3, CredsFields DEF StartRefresh, InFlight, Flight
      <4>2. /\ creds.grant <= grants
            /\ creds.grant \notin lost => creds.serial = serial[creds.grant]
        BY <1>a, <3>1, <4>1 DEF StoredToken
      <4> QED
        BY <2>2, <3>1, <4>2, CredsFields DEF SentToken
    <3> QED
      BY <1>2, <3>2, <3>3
  <2> QED
    BY <2>1, <2>2
<1>3. ASSUME NEW c \in Calls,
             RefreshSucceeds(c) \/ RefreshIsRefused(c) \/ RefreshIsLost(c)
      PROVE  SentToken(q)'
  <2>1. /\ call[c] = "refreshing"
        /\ call'[q] # "refreshing" \/ (q \notin Waiters(c) /\ call'[q] = call[q])
        /\ reply' = [reply EXCEPT ![c] = NoReply]
        /\ using' = [d \in Calls |-> IF d \in Waiters(c) THEN NoCreds ELSE using[d]]
        /\ grants' = grants
    BY <1>a, <1>3
       DEF RefreshSucceeds, RefreshIsRefused, RefreshIsLost, RefreshFails, EndRefresh, After
  <2>2. call'[q] # "refreshing" /\ reply'[q] = NoReply
    BY <1>a, <1>d, <1>e, <2>1 DEF Waiters
  <2> QED
    BY <1>c, <2>1, <2>2, SentTokenIdle, CredsFields
<1>4. ASSUME NEW c \in Calls, ProbeSucceeds(c) \/ ProbeIsRefused(c) \/ ProbeIsLost(c)
      PROVE  SentToken(q)'
  BY <1>a, <1>b, <1>4, SentTokenKept DEF ProbeSucceeds, ProbeIsRefused, ProbeIsLost, Finish
<1>5. ASSUME NEW c \in Calls, ProviderAnswers(c)
      PROVE  SentToken(q)'
  <2>1. CASE q # c
    <3>1. call'[q] # "refreshing" /\ reply'[q] = NoReply
      BY <1>a, <1>d, <1>e, <1>5, <2>1 DEF ProviderAnswers
    <3> QED
      BY <1>c, <1>5, <3>1, SentTokenIdle DEF ProviderAnswers
  <2>2. CASE q = c
    <3>1. /\ call[c] = "refreshing" /\ reply[c] = NoReply
          /\ using[c] \in Creds /\ using' = using
          /\ grants' = grants /\ revoked' = revoked /\ lost' = lost
      BY <1>a, <1>5 DEF ProviderAnswers, Flight
    <3>2. CASE using[c].grant \in revoked \/ using[c].serial # serial[using[c].grant]
      <4>1. reply'[c] = Refused
        BY <1>a, <1>5, <3>2 DEF ProviderAnswers
      <4>2. using[c].grant \in revoked \cup lost
        BY <1>a, <2>2, <3>1, <3>2 DEF SentToken
      <4> QED
        BY <1>c, <2>2, <3>1, <4>1, <4>2, CredsFields DEF SentToken
    <3>3. CASE ~(using[c].grant \in revoked \/ using[c].serial # serial[using[c].grant])
      <4>1. reply'[c] = [grant |-> using[c].grant, serial |-> serial'[using[c].grant]]
        BY <1>a, <1>5, <3>3 DEF ProviderAnswers
      <4>2. reply'[c] # NoReply /\ reply'[c] # Refused
        <5>1. using[c].grant \in Grants /\ serial'[using[c].grant] \in Nat
          BY <1>a, <3>1, CredsFields
        <5> QED
          BY <4>1, <5>1, CredsFields
      <4> QED
        BY <1>c, <2>2, <3>1, <4>1, <4>2 DEF SentToken
    <3> QED
      BY <3>2, <3>3
  <2> QED
    BY <2>1, <2>2
<1>6. CASE Authorize
  <2>1. /\ UNCHANGED <<call, using, reply, revoked, lost>>
        /\ grants' = grants + 1
        /\ \A g \in Grants : g <= grants => serial'[g] = serial[g]
    BY <1>a, <1>b, <1>6 DEF Authorize, callVars, Grants
  <2> QED
    BY <1>a, <1>b, <2>1, SentTokenKept
<1>7. CASE CrashInAuthorize \/ Crash
  <2>1. CallsEnded
    BY <1>7, DeathEndsCalls DEF CrashInAuthorize, Crash, ConnInv
  <2> QED
    BY <2>1, SentTokenIdle, CredsFields DEF CallsEnded
<1>8. CASE ProviderRevokes
  BY <1>a, <1>b, <1>8, SentTokenKept DEF ProviderRevokes, callVars
<1>9. CASE UNCHANGED <<callVars, provVars>>
  BY <1>a, <1>b, <1>9, SentTokenKept DEF callVars
<1>10. CASE \/ Pause \/ Unpause \/ Disconnect \/ FinishDisconnect \/ DisconnectAtOnce
            \/ PurgeLists \/ PurgeEnds \/ TokenExpires \/ Restart \/ UNCHANGED vars
  BY <1>9, <1>10
     DEF Pause, Unpause, Disconnect, FinishDisconnect, DisconnectAtOnce,
         PurgeLists, PurgeEnds, TokenExpires, Restart, vars
<1> QED
  BY <1>1, <1>2, <1>3, <1>4, <1>5, <1>6, <1>7, <1>8, <1>10 DEF Next, Waits

\* A step keeps the row's token current if it changes neither the row's
\* credentials nor the provider's tokens, and drops no answer.
LEMMA StoredTokenKept ==
  ASSUME ConnInv, creds' \in {creds, NoCreds}, UNCHANGED <<grants, serial>>,
         lost \subseteq lost',
         \A c \in Calls : reply[c] \in Creds =>
           reply'[c] = reply[c] /\ using'[c] = using[c]
  PROVE  StoredToken'
BY CredsFields DEF ConnInv, StoredToken

\* Every step keeps the refresh token of the row current.
LEMMA StoredTokenStep ==
  ASSUME ConnInv, TypeOK', [Next]_vars
  PROVE  StoredToken'
<1>a. /\ TypeOK /\ TypeOK' /\ StoredToken
      /\ \A c \in Calls : Flight(c) /\ SentToken(c)
  BY DEF ConnInv, SingleFlight
<1>b. grants \in Nat /\ grants' \in Nat
  BY <1>a, ProviderAssumption DEF TypeOK
<1>c. \A c, d \in Calls : reply[c] # NoReply /\ reply[d] # NoReply => c = d
  BY <1>a DEF Flight
<1>d. \A c \in Calls : reply[c] \in Creds => reply[c] # NoReply
  BY CredsFields
<1> USE DEF TypeOK, provVars
<1>1. ASSUME NEW c \in Calls,
             FindsNothing(c) \/ FindsExpired(c) \/ FindsFresh(c)
      PROVE  StoredToken'
  BY <1>a, <1>1, StoredTokenKept
     DEF FindsNothing, FindsExpired, FindsFresh, UpdateStatus, rowVars
<1>2. ASSUME NEW c \in Calls, JoinRefresh(c) \/ StartRefresh(c)
      PROVE  StoredToken'
  <2>1. reply[c] = NoReply
    BY <1>a, <1>2 DEF JoinRefresh, StartRefresh, NeedsRefresh, Called, Flight
  <2>2. /\ reply' = reply /\ creds' = creds /\ UNCHANGED provVars
        /\ using' = [using EXCEPT ![c] = creds]
    BY <1>2 DEF JoinRefresh, StartRefresh, rowVars
  <2> QED
    BY <1>a, <1>d, <2>1, <2>2, StoredTokenKept
<1>3. ASSUME NEW c \in Calls, RefreshSucceeds(c)
      PROVE  StoredToken'
  <2>1. /\ reply[c] \in Creds /\ using[c] \in Creds
        /\ reply[c].grant = using[c].grant
        /\ using[c].grant <= grants
        /\ reply[c].serial = serial[reply[c].grant]
        /\ UNCHANGED provVars
    BY <1>a, <1>3 DEF RefreshSucceeds, Flight, SentToken
  <2>2. CASE status # "none"
    <3>1. creds' = reply[c]
      BY <1>3, <2>2 DEF RefreshSucceeds, Save
    <3> QED
      BY <2>1, <3>1 DEF StoredToken
  <2>3. CASE status = "none"
    <3>1. creds' = NoCreds
      BY <1>a, <1>3, <2>3 DEF RefreshSucceeds, Save
    <3> QED
      BY <3>1, CredsFields DEF StoredToken
  <2> QED
    BY <2>2, <2>3
<1>4. ASSUME NEW c \in Calls, RefreshIsRefused(c)
      PROVE  StoredToken'
  <2>1. /\ reply[c] = Refused
        /\ creds' = creds /\ UNCHANGED provVars
    BY <1>4 DEF RefreshIsRefused, RefreshFails, UpdateStatus
  <2>2. \A d \in Calls : reply[d] \notin Creds
    BY <1>c, <1>d, <2>1, CredsFields
  <2> QED
    BY <2>1, <2>2, StoredTokenKept
<1>5. ASSUME NEW c \in Calls, RefreshIsLost(c)
      PROVE  StoredToken'
  <2>1. /\ call[c] = "refreshing" /\ using[c] \in Creds
        /\ creds' = creds /\ grants' = grants
        /\ lost' = lost \cup {using[c].grant}
        /\ \/ serial' = serial
           \/ serial' = [serial EXCEPT ![using[c].grant] = @ + 1]
    BY <1>a, <1>5 DEF RefreshIsLost, RefreshFails, UpdateStatus, Flight
  <2>2. SUFFICES ASSUME creds \in Creds, creds.grant \notin lost'
                 PROVE  creds.serial = serial'[creds.grant]
    BY <1>a, <2>1 DEF StoredToken
  <2>3. creds.grant \notin lost /\ creds.grant # using[c].grant
    BY <2>1, <2>2
  <2>4. \A d \in Calls : reply[d] \in Creds => d = c
    BY <1>a, <1>d, <2>1 DEF Flight
  <2>5. creds.serial = serial[creds.grant]
    BY <1>a, <2>2, <2>3, <2>4 DEF StoredToken
  <2> QED
    BY <1>a, <2>1, <2>2, <2>3, <2>5, CredsFields
<1>6. ASSUME NEW c \in Calls, ProbeSucceeds(c) \/ ProbeIsRefused(c) \/ ProbeIsLost(c)
      PROVE  StoredToken'
  BY <1>a, <1>6, StoredTokenKept
     DEF ProbeSucceeds, ProbeIsRefused, ProbeIsLost, UpdateStatus, rowVars
<1>7. ASSUME NEW c \in Calls, ProviderAnswers(c)
      PROVE  StoredToken'
  <2>1. /\ call[c] = "refreshing" /\ reply[c] = NoReply /\ using[c] \in Creds
        /\ UNCHANGED <<creds, using, grants, revoked, lost>>
    BY <1>a, <1>7 DEF ProviderAnswers, Flight, rowVars
  <2>2. CASE using[c].grant \in revoked \/ using[c].serial # serial[using[c].grant]
    <3>1. serial' = serial
      BY <1>7, <2>2 DEF ProviderAnswers
    <3>2. \A d \in Calls : reply[d] \notin Creds
      BY <1>a, <1>d, <2>1 DEF Flight
    <3> QED
      BY <2>1, <3>1, <3>2, StoredTokenKept
  <2>3. CASE ~(using[c].grant \in revoked \/ using[c].serial # serial[using[c].grant])
    <3>1. using[c].grant \in Grants /\ serial'[using[c].grant] \in Nat
      BY <1>a, <2>1, CredsFields
    <3>2. /\ reply'[c] \in Creds
          /\ \A g \in Grants : g # using[c].grant => serial'[g] = serial[g]
      BY <1>a, <1>7, <2>3, <3>1, CredsFields DEF ProviderAnswers
    <3>3. \A d \in Calls : reply[d] \notin Creds
      BY <1>a, <1>d, <2>1 DEF Flight
    <3> QED
      BY <1>a, <2>1, <3>2, <3>3, CredsFields DEF StoredToken
  <2> QED
    BY <2>2, <2>3
<1>8. CASE Authorize
  <2>1. /\ grants' = grants + 1
        /\ creds' = [grant |-> grants + 1, serial |-> 1]
        /\ serial' = [serial EXCEPT ![grants + 1] = 1]
        /\ grants + 1 \in Grants
    BY <1>b, <1>8, ProviderAssumption DEF Authorize, Grants
  <2> QED
    BY <1>a, <1>b, <2>1 DEF StoredToken
<1>9. CASE CrashInAuthorize \/ Crash
  <2>1. CallsEnded
    BY <1>9, DeathEndsCalls DEF CrashInAuthorize, Crash, ConnInv
  <2>2. creds' \in {creds, NoCreds} /\ grants <= grants'
    <3>1. CASE CrashInAuthorize
      BY <1>b, <3>1 DEF CrashInAuthorize
    <3>2. CASE Crash
      BY <1>b, <3>2 DEF Crash, rowVars
    <3> QED
      BY <1>9, <3>1, <3>2
  <2>3. SUFFICES ASSUME creds \in Creds, creds' = creds, creds.grant \notin lost'
                 PROVE  creds.serial = serial'[creds.grant]
    BY <1>a, <1>b, <2>2, CredsFields DEF StoredToken, Grants
  <2>4. \A c \in Calls : reply[c] \in Creds => using[c].grant # creds.grant
    BY <1>a, <1>d, <2>1, <2>3 DEF CallsEnded, Flight
  <2>5. creds.serial = serial[creds.grant]
    BY <1>a, <2>1, <2>3, <2>4 DEF CallsEnded, StoredToken
  <2> QED
    BY <2>1, <2>3, <2>5, CredsFields DEF CallsEnded
<1>10. CASE ProviderRevokes
  BY <1>a, <1>10, StoredTokenKept DEF ProviderRevokes, callVars, rowVars
<1>11. CASE creds' \in {creds, NoCreds} /\ UNCHANGED <<callVars, provVars>>
  BY <1>11, StoredTokenKept DEF callVars
<1>12. CASE FinishDisconnect \/ DisconnectAtOnce \/ PurgeEnds
  BY <1>11, <1>12 DEF FinishDisconnect, DisconnectAtOnce, PurgeEnds, SoftDelete, HardDelete, rowVars
<1>13. CASE \/ Pause \/ Unpause \/ Disconnect \/ PurgeLists \/ TokenExpires
            \/ Restart \/ UNCHANGED vars
  BY <1>11, <1>13
     DEF Pause, Unpause, Disconnect, PurgeLists, TokenExpires, Restart, vars, rowVars
<1> QED
  BY <1>1, <1>2, <1>3, <1>4, <1>5, <1>6, <1>7, <1>8, <1>9, <1>10, <1>12, <1>13
     DEF Next, Waits

\* Every step leaves the connection as the user wanted it.
LEMMA ObeyedStep ==
  ASSUME ConnInv, [Next]_vars
  PROVE  Obeyed'
<1>a. TypeOK /\ Obeyed /\ \A c \in Calls : Flight(c)
  BY DEF ConnInv, SingleFlight
<1> USE CredsFields DEF TypeOK, Obeyed, rowVars, userVars, workVars
<1>1. ASSUME NEW c \in Calls, FindsNothing(c)
      PROVE  Obeyed'
  BY <1>a, <1>1 DEF FindsNothing, Finish, UpdateStatus
<1>2. ASSUME NEW c \in Calls, FindsExpired(c)
      PROVE  Obeyed'
  BY <1>a, <1>2 DEF FindsExpired, Finish, UpdateStatus
<1>3. ASSUME NEW c \in Calls, FindsFresh(c)
      PROVE  Obeyed'
  BY <1>a, <1>3 DEF FindsFresh
<1>4. ASSUME NEW c \in Calls, JoinRefresh(c) \/ StartRefresh(c)
      PROVE  Obeyed'
  BY <1>a, <1>4 DEF JoinRefresh, StartRefresh, NeedsRefresh
<1>5. ASSUME NEW c \in Calls, RefreshSucceeds(c)
      PROVE  Obeyed'
  BY <1>a, <1>5 DEF RefreshSucceeds, Save
<1>6. ASSUME NEW c \in Calls, RefreshIsRefused(c) \/ RefreshIsLost(c)
      PROVE  Obeyed'
  BY <1>a, <1>6 DEF RefreshIsRefused, RefreshIsLost, RefreshFails, UpdateStatus
<1>7. ASSUME NEW c \in Calls, ProbeSucceeds(c) \/ ProbeIsRefused(c) \/ ProbeIsLost(c)
      PROVE  Obeyed'
  BY <1>a, <1>7 DEF ProbeSucceeds, ProbeIsRefused, ProbeIsLost, UpdateStatus
<1>8. ASSUME NEW c \in Calls, ProviderAnswers(c)
      PROVE  Obeyed'
  BY <1>a, <1>8 DEF ProviderAnswers
<1>9. CASE Authorize
  <2>1. /\ wanted' = "connected" /\ status' = "connected" /\ purging' = purging
        /\ clean' => purging = 0
        /\ grants + 1 \in Grants
        /\ creds' = [grant |-> grants + 1, serial |-> 1]
    BY <1>a, <1>9, ProviderAssumption DEF Authorize, NothingUnderWay, Grants
  <2> QED
    BY <2>1
<1>10. CASE CrashInAuthorize
  BY <1>a, <1>10 DEF CrashInAuthorize
<1>11. CASE Crash
  <2>1. CallsEnded
    BY <1>11, DeathEndsCalls DEF Crash, ConnInv
  <2> QED
    BY <1>a, <1>11, <2>1 DEF Crash, CallsEnded
<1>12. CASE Pause \/ Unpause
  BY <1>a, <1>12 DEF Pause, Unpause, callVars
<1>13. CASE Disconnect
  BY <1>a, <1>13 DEF Disconnect, callVars
<1>14. CASE FinishDisconnect
  BY <1>a, <1>14 DEF FinishDisconnect, SoftDelete, Disconnected, callVars
<1>15. CASE DisconnectAtOnce
  BY <1>a, <1>15 DEF DisconnectAtOnce, SoftDelete, Disconnected, callVars
<1>16. CASE PurgeLists
  BY <1>a, <1>16 DEF PurgeLists, Purgeable, callVars
<1>17. CASE PurgeEnds
  BY <1>a, <1>17 DEF PurgeEnds, HardDelete, callVars
<1>18. CASE TokenExpires \/ ProviderRevokes \/ Restart
  BY <1>a, <1>18 DEF TokenExpires, ProviderRevokes, Restart, callVars
<1>19. CASE UNCHANGED vars
  BY <1>a, <1>19 DEF vars, callVars
<1> QED
  BY <1>1, <1>2, <1>3, <1>4, <1>5, <1>6, <1>7, <1>8, <1>9, <1>10, <1>11, <1>12,
     <1>13, <1>14, <1>15, <1>16, <1>17, <1>18, <1>19 DEF Next, Waits

-----------------------------------------------------------------------------
\* Theorems about every behaviour of the connection

\* The inductive invariant: one refresh at a time, current tokens, and a row that
\* follows the user.
THEOREM ConnectionInvariant == Spec => []ConnInv
<1>1. ConnInv /\ [Next]_vars => ConnInv'
  <2> SUFFICES ASSUME ConnInv, [Next]_vars
               PROVE  ConnInv'
    OBVIOUS
  <2>1. TypeOK'
    BY TypeStep
  <2>2. SingleFlight'
    BY <2>1, SingleFlightStep
  <2>3. \A c \in Calls : SentToken(c)'
    BY <2>1, SentTokenStep
  <2>4. StoredToken'
    BY <2>1, StoredTokenStep
  <2> QED
    BY <2>1, <2>2, <2>3, <2>4, ObeyedStep DEF ConnInv
<1> QED
  BY ConnInvInit, <1>1, PTL DEF Spec

\* The types of row, calls and provider hold for any number of calls.
THEOREM ConnectionTypeCorrect == Spec => []TypeOK
<1>1. ConnInv => TypeOK
  BY DEF ConnInv
<1> QED
  BY <1>1, ConnectionInvariant, PTL

\* Rotation: with one promise per account no refresh token is spent twice; the
\* provider refuses only after a revocation or a lost answer.
THEOREM RefusalsDeserved == Spec => []RefusalsAreDeserved
<1>1. ConnInv => RefusalsAreDeserved
  BY DEF ConnInv, SentToken, RefusalsAreDeserved
<1> QED
  BY <1>1, ConnectionInvariant, PTL

\* Rotation: the refresh token in the row is the one the provider accepts.
THEOREM StoredTokenCurrent == Spec => []StoredTokenIsCurrent
<1>1. ASSUME ConnInv
      PROVE  StoredTokenIsCurrent
  <2>1. \A c \in Calls : reply[c] \in Creds => call[c] = "refreshing"
    BY <1>1, CredsFields DEF ConnInv, SingleFlight, Flight
  <2>2. creds \in Creds \cup {NoCreds}
    BY <1>1 DEF ConnInv, TypeOK
  <2> QED
    BY <1>1, <2>1, <2>2 DEF ConnInv, StoredToken, StoredTokenIsCurrent
<1> QED
  BY <1>1, ConnectionInvariant, PTL

\* Neither checks nor refreshes nor the billing clean-up take a connection away.
THEOREM ConnectionStays == Spec => []StaysConnected
<1>1. ConnInv => StaysConnected
  BY CredsFields DEF ConnInv, Obeyed, StaysConnected
<1> QED
  BY <1>1, ConnectionInvariant, PTL

\* A connection deleted while no call was under way does not come back.
THEOREM DisconnectionStays == Spec => []StaysDisconnected
<1>1. ConnInv => StaysDisconnected
  BY DEF ConnInv, Obeyed, StaysDisconnected
<1> QED
  BY <1>1, ConnectionInvariant, PTL

\* Everybody who waited for a refresh gets what was stored.
THEOREM StoredIsReturned == Spec => ReturnsStored
<1> DEFINE Act == \A c \in Calls :
                    got'[c] \notin {got[c], NoCreds} /\ status' # "none"
                      => got'[c] = creds' /\ ~due'
<1>1. ConnInv /\ [Next]_vars => [Act]_vars
  <2> SUFFICES ASSUME ConnInv, Next
               PROVE  Act
    BY DEF ConnInv
  <2> USE DEF ConnInv, TypeOK, callVars
  <2>1. ASSUME NEW c \in Calls, RefreshSucceeds(c)
        PROVE  Act
    BY <2>1 DEF RefreshSucceeds, Save, Returns
  <2>2. ASSUME NEW c \in Calls, FindsFresh(c)
        PROVE  Act
    BY <2>2 DEF FindsFresh, rowVars
  <2>3. ASSUME NEW c \in Calls,
               ProbeSucceeds(c) \/ ProbeIsRefused(c) \/ ProbeIsLost(c)
        PROVE  Act
    BY <2>3 DEF ProbeSucceeds, ProbeIsRefused, ProbeIsLost
  <2>4. CASE CrashInAuthorize \/ Crash
    <3>1. CallsEnded
      BY <2>4, DeathEndsCalls DEF CrashInAuthorize, Crash
    <3> QED
      BY <3>1 DEF CallsEnded
  <2>5. ASSUME got' = got
        PROVE  Act
    BY <2>5
  <2>6. ASSUME NEW c \in Calls,
               \/ FindsNothing(c) \/ FindsExpired(c) \/ JoinRefresh(c) \/ StartRefresh(c)
               \/ RefreshIsRefused(c) \/ RefreshIsLost(c) \/ ProviderAnswers(c)
        PROVE  Act
    BY <2>5, <2>6
       DEF FindsNothing, FindsExpired, JoinRefresh, StartRefresh, RefreshIsRefused,
           RefreshIsLost, RefreshFails, ProviderAnswers
  <2>7. CASE \/ Authorize \/ Pause \/ Unpause \/ Disconnect \/ FinishDisconnect
             \/ DisconnectAtOnce \/ PurgeLists \/ PurgeEnds \/ TokenExpires
             \/ ProviderRevokes \/ Restart
    BY <2>5, <2>7
       DEF Authorize, Pause, Unpause, Disconnect, FinishDisconnect, DisconnectAtOnce,
           PurgeLists, PurgeEnds, TokenExpires, ProviderRevokes, Restart
  <2> QED
    BY <2>1, <2>2, <2>3, <2>4, <2>6, <2>7 DEF Next, Waits
<1> QED
  BY <1>1, ConnectionInvariant, PTL DEF Spec, ReturnsStored

-----------------------------------------------------------------------------
\* What is under EveryCallEnds: that a refresh ends is left to TLC, that nobody
\* waits for one that is not under way is not.

Accompanied == \A c \in Calls : call[c] = "joined" => leader # NoCall

\* There is one refresh at a time, and whoever waits for a refresh waits for it.
OneRefresh ==
  /\ \A c, d \in Calls : call[c] = "refreshing" /\ call[d] = "refreshing" => c = d
  /\ \A c \in Calls : call[c] = "joined" => \E d \in Calls : call[d] = "refreshing"

\* The leader takes all that have joined it along when its promise settles, and
\* the process all of them.
LEMMA AccompaniedStep ==
  ASSUME ConnInv, Accompanied, [Next]_vars
  PROVE  Accompanied'
<1>a. TypeOK /\ SingleFlight /\ NoCall \notin Calls
  BY CredsFields DEF ConnInv
<1> USE DEF Accompanied
<1>1. ASSUME NEW c \in Calls,
             RefreshSucceeds(c) \/ RefreshIsRefused(c) \/ RefreshIsLost(c)
      PROVE  Accompanied'
  <2>1. \A d \in Calls : call'[d] = "joined" => call[d] = "joined" /\ d \notin Waiters(c)
    BY <1>a, <1>1
       DEF RefreshSucceeds, RefreshIsRefused, RefreshIsLost, RefreshFails, After, TypeOK
  <2> QED
    BY <2>1 DEF Waiters, Joined
<1>2. ASSUME NEW c \in Calls, JoinRefresh(c)
      PROVE  Accompanied'
  BY <1>2 DEF JoinRefresh, InFlight
<1>3. ASSUME NEW c \in Calls, StartRefresh(c)
      PROVE  Accompanied'
  BY <1>a, <1>3 DEF StartRefresh
<1>4. ASSUME UNCHANGED leader,
             \A d \in Calls : call'[d] = "joined" => call[d] = "joined"
      PROVE  Accompanied'
  BY <1>4
<1>5. ASSUME NEW c \in Calls,
             \/ FindsNothing(c) \/ FindsFresh(c) \/ FindsExpired(c) \/ ProviderAnswers(c)
             \/ ProbeSucceeds(c) \/ ProbeIsRefused(c) \/ ProbeIsLost(c)
      PROVE  Accompanied'
  BY <1>a, <1>4, <1>5
     DEF FindsNothing, FindsFresh, FindsExpired, ProviderAnswers, ProbeSucceeds,
         ProbeIsRefused, ProbeIsLost, Finish, After, TypeOK
<1>6. CASE Crash \/ CrashInAuthorize
  <2>1. CallsEnded
    BY <1>a, <1>6, DeathEndsCalls DEF CrashInAuthorize, Crash
  <2> QED
    BY <2>1 DEF CallsEnded
<1>7. ASSUME UNCHANGED callVars
      PROVE  Accompanied'
  BY <1>4, <1>7 DEF callVars
<1>8. CASE \/ Authorize \/ Pause \/ Unpause \/ Disconnect \/ FinishDisconnect
           \/ DisconnectAtOnce \/ PurgeLists \/ PurgeEnds \/ TokenExpires
           \/ ProviderRevokes \/ Restart \/ UNCHANGED vars
  BY <1>7, <1>8
     DEF Authorize, Pause, Unpause, Disconnect, FinishDisconnect, DisconnectAtOnce,
         PurgeLists, PurgeEnds, TokenExpires, ProviderRevokes, Restart, vars
<1> QED
  BY <1>1, <1>2, <1>3, <1>5, <1>6, <1>8 DEF Next, Waits

\* The promise in refreshPromises is that of the one refresh that is under way,
\* so that no caller of getCredentials() starts a second one or is forgotten
\* (manager.ts:547-566).
THEOREM RefreshIsShared == Spec => []OneRefresh
<1>1. Init => Accompanied
  BY DEF Init, Accompanied
<1>2. ConnInv /\ Accompanied => OneRefresh
  BY DEF ConnInv, TypeOK, SingleFlight, Flight, Accompanied, OneRefresh
<1> QED
  BY <1>1, <1>2, AccompaniedStep, ConnectionInvariant, PTL DEF Spec
=============================================================================
