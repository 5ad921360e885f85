------------------------------ MODULE Connections ------------------------------
(***************************************************************************)
(* The connection of one account: packages/connectors/src/manager.ts over  *)
(* the connections table (packages/db/src/stores/connection-store.ts), its *)
(* routes (apps/keepd/src/routes/connections.ts), the health checks of     *)
(* server.ts and the clean-up of billing-manager.ts.                       *)
(*                                                                         *)
(* getCredentials() is called for every request and every health check.    *)
(* When the stored token is about to expire, the first caller refreshes it *)
(* and the others wait for the same promise.  Meanwhile the user pauses,   *)
(* disconnects or reconnects the account: nobody who waits for the         *)
(* provider looks at the row again before writing to it.                   *)
(*                                                                         *)
(* The row's statements are synchronous and the promises around them       *)
(* resolve without leaving the turn, so only the requests to the provider  *)
(* (refresh, probe, revocation) and to the billing server separate steps.  *)
(***************************************************************************)
EXTENDS Naturals

CONSTANTS
  Requests,    \* calls of getCredentials() for requests of agents
  Checks,      \* calls of checkConnectionHealth(), by timer or by the user
  Rotating,    \* the provider replaces the refresh token with every refresh
  Refreshable, \* authorizations that came with a refresh token
  Revocable,   \* the service has a revokeUrl
  NoCreds,     \* connections.credentials is NULL
  NoReply,     \* the provider has not answered the refresh
  Refused,     \* it refused
  NoCall,      \* refreshPromises has no entry
  MaxGrants    \* bound: how often the user authorizes the account

Calls  == Requests \cup Checks
Grants == 1 .. MaxGrants
Creds  == [grant : Grants, serial : Nat]

ASSUME CallAssumption == Requests \cap Checks = {} /\ NoCall \notin Calls

ASSUME ProviderAssumption ==
  /\ Rotating \in BOOLEAN
  /\ Revocable \in BOOLEAN
  /\ Refreshable \subseteq Grants
  /\ MaxGrants \in Nat

ASSUME NullAssumption ==
  NoCreds \notin Creds /\ NoReply \notin Creds /\ Refused \notin Creds /\ NoReply # Refused

VARIABLES
  up,       \* the daemon process runs
  id,       \* connections.id, a new one for a new row
  status,   \* connections.status, "none": no row
  error,    \* what connections.error is about
  creds,    \* connections.credentials: the authorization it came from, and which
            \* of its refresh tokens
  due,      \* they expire within REFRESH_BUFFER_MS
  call,     \* a call of getCredentials(), and the probe after it
  using,    \* its local `creds`
  got,      \* what it returned
  leader,   \* the call whose promise is in refreshPromises
  reply,    \* the provider's answer to a refresh, on its way
  removing, \* the id that a disconnect deletes when the revocation has returned
  purging,  \* the id that the billing clean-up deletes, 0: none
  grants,   \* the provider: authorizations so far,
  serial,   \* the refresh token it accepts for each,
  revoked,  \* and those it accepts no more
  lost,     \* history: authorizations of which an answer did not arrive
  wanted,   \* history: what the user did last
  clean     \* history: nothing was under way when it was done

rowVars  == <<id, status, error, creds, due>>
callVars == <<call, using, got, leader, reply>>
workVars == <<removing, purging>>
provVars == <<grants, serial, revoked, lost>>
userVars == <<wanted, clean>>
vars == <<up, rowVars, callVars, workVars, provVars, userVars>>

\* The types of the variables; without a row there are no columns.
TypeOK ==
  /\ up \in BOOLEAN
  /\ id \in Nat
  /\ status \in {"none", "connected", "paused", "error", "disconnected"}
  /\ error \in {"none", "auth", "network"}
  /\ creds \in Creds \cup {NoCreds}
  /\ due \in BOOLEAN
  /\ status = "none" => creds = NoCreds /\ error = "none"
  /\ creds = NoCreds => ~due
  /\ call \in [Calls -> {"idle", "refreshing", "joined", "probing", "done", "lost"}]
  /\ using \in [Calls -> Creds \cup {NoCreds}]
  /\ got \in [Calls -> Creds \cup {NoCreds}]
  /\ leader \in Calls \cup {NoCall}
  /\ reply \in [Calls -> Creds \cup {NoReply, Refused}]
  /\ removing \in Nat
  /\ purging \in Nat
  /\ grants \in 0 .. MaxGrants
  /\ serial \in [Grants -> Nat]
  /\ revoked \in SUBSET Grants
  /\ lost \in SUBSET Grants
  /\ wanted \in {"nothing", "connected", "disconnected"}
  /\ clean \in BOOLEAN

Init ==
  /\ up = TRUE
  /\ id = 0
  /\ status = "none"
  /\ error = "none"
  /\ creds = NoCreds
  /\ due = FALSE
  /\ call = [c \in Calls |-> "idle"]
  /\ using = [c \in Calls |-> NoCreds]
  /\ got = [c \in Calls |-> NoCreds]
  /\ leader = NoCall
  /\ reply = [c \in Calls |-> NoReply]
  /\ removing = 0
  /\ purging = 0
  /\ grants = 0
  /\ serial = [g \in Grants |-> 0]
  /\ revoked = {}
  /\ lost = {}
  /\ wanted = "nothing"
  /\ clean = TRUE

-----------------------------------------------------------------------------
\* Helpers

\* A check that leaves the refresh to itself.
InFlightForRequests == IF leader \in Requests THEN leader ELSE NoCall

\* refreshPromises.get()
InFlight == leader

Joined == {c \in Calls : call[c] = "joined"}

\* The caller alone, as if the promise were not shared.
WaitersAlone(c) == {c}

\* Everybody who waits for the refresh that c started.
Waiters(c) == {c} \cup Joined

\* getCredentials() has returned: a request goes on elsewhere, a check probes.
After(c) == IF c \in Checks THEN "probing" ELSE "done"

\* updateStatus(): the row as it is now, whatever it has become.
UpdateStatus(s, e) ==
  /\ status' = IF status = "none" THEN "none" ELSE s
  /\ error' = IF status = "none" THEN "none" ELSE e
  /\ UNCHANGED <<id, creds, due>>

\* A save that does not look for the row.
SaveAnyway(new) == creds' = new /\ due' = FALSE

\* A save that minds the status.
SaveIfConnected(new) ==
  IF status = "connected" THEN creds' = new /\ due' = FALSE
                          ELSE UNCHANGED <<creds, due>>

\* saveCredentials(): any row of the account.
Save(new) ==
  IF status # "none" THEN creds' = new /\ due' = FALSE
                     ELSE UNCHANGED <<creds, due>>

\* delete() without the credentials.
SoftDeleteStatus(i) ==
  /\ status' = IF i = id /\ status # "none" THEN "disconnected" ELSE status
  /\ UNCHANGED <<id, error, creds, due>>

\* ConnectionStore.delete(): only marks the row, but takes its credentials.
SoftDelete(i) ==
  /\ status' = IF i = id /\ status # "none" THEN "disconnected" ELSE status
  /\ creds' = IF i = id THEN NoCreds ELSE creds
  /\ due' = IF i = id THEN FALSE ELSE due
  /\ UNCHANGED <<id, error>>

\* ConnectionStore.hardDelete()
HardDelete(i) ==
  /\ status' = IF i = id THEN "none" ELSE status
  /\ error' = IF i = id THEN "none" ELSE error
  /\ creds' = IF i = id THEN NoCreds ELSE creds
  /\ due' = IF i = id THEN FALSE ELSE due
  /\ UNCHANGED id

\* The process is killed: the calls are gone, and the provider may still act on
\* a refresh that was sent.
ProcessDies ==
  LET sent == {c \in Calls : call[c] = "refreshing"}
      unanswered == {using[c].grant : c \in {d \in sent : reply[d] = NoReply}}
  IN
  /\ up
  /\ up' = FALSE
  /\ call' = [c \in Calls |-> IF call[c] \in {"idle", "done"} THEN call[c] ELSE "lost"]
  /\ using' = [c \in Calls |-> NoCreds]
  /\ got' = [c \in Calls |-> NoCreds]
  /\ reply' = [c \in Calls |-> NoReply]
  /\ leader' = NoCall
  /\ removing' = 0
  /\ purging' = 0
  /\ lost' = lost \cup {using[c].grant : c \in sent}
  /\ \/ UNCHANGED serial
     \/ /\ Rotating
        /\ serial' = [g \in Grants |-> IF g \in unanswered THEN serial[g] + 1
                                                          ELSE serial[g]]

NothingUnderWay ==
  /\ removing = 0 /\ purging = 0
  /\ \A c \in Calls : call[c] \notin {"refreshing", "joined", "probing"}

-----------------------------------------------------------------------------
\* getCredentials()

\* The router lets a request through for a connected account; a check runs for
\* any row whose id the user interface knows, and for the rows of a list that
\* the timer read before its first probe.
Called(c) ==
  /\ up
  /\ call[c] = "idle"
  /\ IF c \in Requests THEN status = "connected" ELSE id # 0

Finish(c) == call' = [call EXCEPT ![c] = "done"]

\* No credentials: an AuthError, on which a check marks the row.
FindsNothing(c) ==
  /\ Called(c)
  /\ creds = NoCreds
  /\ Finish(c)
  /\ IF c \in Checks THEN UpdateStatus("error", "auth") ELSE UNCHANGED rowVars
  /\ UNCHANGED <<up, using, got, leader, reply, workVars, provVars, userVars>>

FindsFresh(c) ==
  /\ Called(c)
  /\ creds # NoCreds /\ ~due
  /\ call' = [call EXCEPT ![c] = After(c)]
  /\ got' = [got EXCEPT ![c] = creds]
  /\ UNCHANGED <<up, rowVars, using, leader, reply, workVars, provVars, userVars>>

\* "Token expired, no refresh token"
FindsExpired(c) ==
  /\ Called(c)
  /\ creds # NoCreds /\ due
  /\ creds.grant \notin Refreshable
  /\ Finish(c)
  /\ UpdateStatus("error", "auth")
  /\ UNCHANGED <<up, using, got, leader, reply, workVars, provVars, userVars>>

NeedsRefresh(c) ==
  /\ Called(c)
  /\ creds # NoCreds /\ due
  /\ creds.grant \in Refreshable

JoinRefresh(c) ==
  /\ NeedsRefresh(c)
  /\ InFlight # NoCall
  /\ call' = [call EXCEPT ![c] = "joined"]
  /\ using' = [using EXCEPT ![c] = creds]
  /\ UNCHANGED <<up, rowVars, got, leader, reply, workVars, provVars, userVars>>

StartRefresh(c) ==
  /\ NeedsRefresh(c)
  /\ InFlight = NoCall
  /\ call' = [call EXCEPT ![c] = "refreshing"]
  /\ using' = [using EXCEPT ![c] = creds]
  /\ leader' = c
  /\ UNCHANGED <<up, rowVars, got, reply, workVars, provVars, userVars>>

\* Every waiter with the credentials that it loaded itself.
ReturnsLoaded(c, new) ==
  got' = [d \in Calls |-> IF d \in Joined THEN using[d]
                          ELSE IF d = c THEN new ELSE got[d]]

\* All of them share the promise of the leader.
Returns(c, new) ==
  got' = [d \in Calls |-> IF d \in Waiters(c) THEN new ELSE got[d]]

\* The refresh that c started is over, and with it the locals of its waiters.
EndRefresh(c) ==
  /\ leader' = NoCall
  /\ reply' = [reply EXCEPT ![c] = NoReply]
  /\ using' = [d \in Calls |-> IF d \in Waiters(c) THEN NoCreds ELSE using[d]]

\* The answer arrives: it is stored, the promise is forgotten, and everybody who
\* waits for it goes on.
RefreshSucceeds(c) ==
  /\ call[c] = "refreshing"
  /\ reply[c] \in Creds
  /\ Save(reply[c])
  /\ Returns(c, reply[c])
  /\ call' = [d \in Calls |-> IF d \in Waiters(c) THEN After(d) ELSE call[d]]
  /\ EndRefresh(c)
  /\ UNCHANGED <<up, id, status, error, workVars, provVars, userVars>>

\* The leader marks the row for whatever went wrong, also for a fetch() that did
\* not get through; the waiters throw.
RefreshFails(c, e) ==
  /\ call[c] = "refreshing"
  /\ UpdateStatus("error", e)
  /\ call' = [d \in Calls |-> IF d \in Waiters(c) THEN "done" ELSE call[d]]
  /\ EndRefresh(c)
  /\ UNCHANGED <<up, got, workVars, userVars>>

RefreshIsRefused(c) ==
  /\ reply[c] = Refused
  /\ RefreshFails(c, "auth")
  /\ UNCHANGED provVars

\* The provider may have acted on the request all the same.
RefreshIsLost(c) ==
  /\ reply[c] # Refused
  /\ RefreshFails(c, "network")
  /\ lost' = lost \cup {using[c].grant}
  /\ \/ UNCHANGED serial
     \/ /\ Rotating
        /\ reply[c] = NoReply
        /\ serial' = [serial EXCEPT ![using[c].grant] = @ + 1]
  /\ UNCHANGED <<grants, revoked>>

-----------------------------------------------------------------------------
\* Health checks: the caller of checkConnectionHealth() marks the row

ProbeSucceeds(c) ==
  /\ call[c] = "probing"
  /\ got[c].grant \notin revoked
  /\ Finish(c)
  /\ got' = [got EXCEPT ![c] = NoCreds]
  /\ UpdateStatus("connected", "none")
  /\ UNCHANGED <<up, using, leader, reply, workVars, provVars, userVars>>

ProbeIsRefused(c) ==
  /\ call[c] = "probing"
  /\ got[c].grant \in revoked
  /\ Finish(c)
  /\ got' = [got EXCEPT ![c] = NoCreds]
  /\ UpdateStatus("error", "auth")
  /\ UNCHANGED <<up, using, leader, reply, workVars, provVars, userVars>>

\* "Network errors: don't change DB status (transient)"
ProbeIsLost(c) ==
  /\ call[c] = "probing"
  /\ Finish(c)
  /\ got' = [got EXCEPT ![c] = NoCreds]
  /\ UNCHANGED <<up, rowVars, using, leader, reply, workVars, provVars, userVars>>

-----------------------------------------------------------------------------
\* The user

\* completeOAuthFlow() and connectManualToken() after the provider has answered:
\* a row that exists keeps its id, also a disconnected one.
Authorize ==
  /\ up
  /\ grants < MaxGrants
  /\ grants' = grants + 1
  /\ serial' = [serial EXCEPT ![grants + 1] = 1]
  /\ id' = IF status = "none" THEN id + 1 ELSE id
  /\ status' = "connected"
  /\ error' = "none"
  /\ creds' = [grant |-> grants + 1, serial |-> 1]
  /\ due' = FALSE
  /\ wanted' = "connected"
  /\ clean' = NothingUnderWay
  /\ UNCHANGED <<up, callVars, workVars, revoked, lost>>

\* The process is killed between upsertConnection() and saveCredentials(); the
\* upsert deletes a disconnected row and inserts it anew.
CrashInAuthorize ==
  /\ ProcessDies
  /\ grants < MaxGrants
  /\ grants' = grants + 1
  /\ id' = IF status = "none" THEN id + 1 ELSE id
  /\ status' = "connected"
  /\ error' = "none"
  /\ creds' = IF status = "disconnected" THEN NoCreds ELSE creds
  /\ due' = IF status = "disconnected" THEN FALSE ELSE due
  /\ wanted' = "nothing"
  /\ UNCHANGED <<revoked, clean>>

Pause ==
  /\ up
  /\ status = "connected"
  /\ status' = "paused"
  /\ error' = "none"
  /\ UNCHANGED <<up, id, creds, due, callVars, workVars, provVars, userVars>>

Unpause ==
  /\ up
  /\ status = "paused"
  /\ status' = "connected"
  /\ error' = "none"
  /\ UNCHANGED <<up, id, creds, due, callVars, workVars, provVars, userVars>>

\* disconnect() up to the revocation.  Bound: one disconnect at a time.
Disconnect ==
  /\ up
  /\ removing = 0
  /\ status # "none"
  /\ Revocable /\ creds # NoCreds
  /\ removing' = id
  /\ UNCHANGED <<up, rowVars, callVars, purging, provVars, userVars>>

Disconnected ==
  /\ wanted' = "disconnected"
  /\ clean' = (\A c \in Calls : call[c] \notin {"refreshing", "joined", "probing"})

\* The revocation has returned or failed, and the row of that id is deleted, if
\* it is still there.
FinishDisconnect ==
  /\ removing # 0
  /\ SoftDelete(removing)
  /\ IF removing = id /\ status # "none" THEN Disconnected ELSE UNCHANGED userVars
  /\ removing' = 0
  /\ UNCHANGED <<up, callVars, purging, provVars>>

\* disconnect() when there is nothing to revoke.
DisconnectAtOnce ==
  /\ up
  /\ removing = 0
  /\ status # "none"
  /\ ~Revocable \/ creds = NoCreds
  /\ SoftDelete(id)
  /\ Disconnected
  /\ UNCHANGED <<up, callVars, workVars, provVars>>

-----------------------------------------------------------------------------
\* The billing clean-up of fullSync()

\* A clean-up of everything that does not work.
Unused(s) == s \in {"disconnected", "error"}

\* listDisconnected()
Purgeable(s) == s = "disconnected"

\* The row is listed, and its app is deleted on the billing server.
PurgeLists ==
  /\ up
  /\ purging = 0
  /\ Purgeable(status)
  /\ purging' = id
  /\ UNCHANGED <<up, rowVars, callVars, removing, provVars, userVars>>

\* The billing server has answered: without an error the row goes.
PurgeEnds ==
  /\ purging # 0
  /\ HardDelete(purging) \/ UNCHANGED rowVars
  /\ purging' = 0
  /\ UNCHANGED <<up, callVars, removing, provVars, userVars>>

-----------------------------------------------------------------------------
\* The provider and the daemon's process

TokenExpires ==
  /\ creds # NoCreds
  /\ ~due
  /\ due' = TRUE
  /\ UNCHANGED <<up, id, status, error, creds, callVars, workVars, provVars, userVars>>

\* A refresh is answered; a rotating provider accepts a refresh token once.
ProviderAnswers(c) ==
  LET g == using[c].grant IN
  /\ call[c] = "refreshing"
  /\ reply[c] = NoReply
  /\ IF g \in revoked \/ using[c].serial # serial[g]
       THEN /\ reply' = [reply EXCEPT ![c] = Refused]
            /\ UNCHANGED serial
       ELSE /\ serial' = IF Rotating THEN [serial EXCEPT ![g] = @ + 1] ELSE serial
            /\ reply' = [reply EXCEPT ![c] = [grant |-> g, serial |-> serial'[g]]]
  /\ UNCHANGED <<up, rowVars, call, using, got, leader, workVars, grants, revoked,
                 lost, userVars>>

\* By a disconnect, or by the user at the provider.
ProviderRevokes ==
  /\ \E g \in 1 .. grants : revoked' = revoked \cup {g}
  /\ UNCHANGED <<up, rowVars, callVars, workVars, grants, serial, lost, userVars>>

Crash ==
  /\ ProcessDies
  /\ UNCHANGED <<rowVars, grants, revoked, userVars>>

Restart ==
  /\ ~up
  /\ up' = TRUE
  /\ UNCHANGED <<rowVars, callVars, workVars, provVars, userVars>>

Waits(c) ==
  \/ RefreshSucceeds(c)
  \/ RefreshIsRefused(c)
  \/ RefreshIsLost(c)
  \/ ProbeSucceeds(c)
  \/ ProbeIsRefused(c)
  \/ ProbeIsLost(c)

Next ==
  \/ \E c \in Calls :
       \/ FindsNothing(c)
       \/ FindsFresh(c)
       \/ FindsExpired(c)
       \/ JoinRefresh(c)
       \/ StartRefresh(c)
       \/ Waits(c)
       \/ ProviderAnswers(c)
  \/ Authorize
  \/ CrashInAuthorize
  \/ Pause
  \/ Unpause
  \/ Disconnect
  \/ FinishDisconnect
  \/ DisconnectAtOnce
  \/ PurgeLists
  \/ PurgeEnds
  \/ TokenExpires
  \/ ProviderRevokes
  \/ Crash
  \/ Restart

Spec == Init /\ [][Next]_vars

\* A request to the provider is answered, refused or given up by fetch().
Fairness == \A c \in Calls : WF_vars(Waits(c))

FairSpec == Spec /\ Fairness
-----------------------------------------------------------------------------
\* Properties

\* The provider refuses a refresh only when the authorization was revoked or an
\* earlier answer was lost: nobody spends a refresh token that another call has
\* spent already.
RefusalsAreDeserved ==
  \A c \in Calls : reply[c] = Refused => using[c].grant \in revoked \cup lost

\* Unless an answer is under way or was lost, the row holds the refresh token
\* that the provider accepts, whatever the user did with the row meanwhile.
StoredTokenIsCurrent ==
  /\ creds # NoCreds
  /\ creds.grant \notin lost
  /\ \A c \in Calls : call[c] = "refreshing" => using[c].grant # creds.grant
  => creds.serial = serial[creds.grant]

\* What getCredentials() returns is at that moment what the row holds, and not
\* about to expire, unless the row has gone.
ReturnsStored ==
  [][\A c \in Calls :
       got'[c] \notin {got[c], NoCreds} /\ status' # "none" => got'[c] = creds' /\ ~due']_vars

\* A connection that the user made while nothing was under way keeps its row and
\* its credentials until the user disconnects it; neither checks nor refreshes
\* nor the clean-up take it away.
StaysConnected ==
  wanted = "connected" /\ clean =>
    status \notin {"none", "disconnected"} /\ creds # NoCreds

\* A connection that the user has deleted while no call was waiting for the
\* provider gets neither its credentials nor the status "connected" back.
StaysDisconnected ==
  wanted = "disconnected" /\ clean => status # "connected" /\ creds = NoCreds

\* Every call of getCredentials() and every probe ends, also those that wait for
\* the refresh of another.
EveryCallEnds ==
  \A c \in Calls :
    call[c] \in {"refreshing", "joined", "probing"} ~> call[c] \in {"done", "lost"}

\* "Disconnect (revoke + delete)" (docs/dev/03-keepd.md:82): no connection comes
\* back from it without a new authorization.
DisconnectIsFinal == wanted = "disconnected" => status # "connected"

\* "Network errors: don't change DB status (transient)"
\* (apps/keepd/src/routes/connections.ts:360).
NetworkErrorsAreTransient == error # "network"
=============================================================================
