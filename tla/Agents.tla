-------------------------------- MODULE Agents --------------------------------
(***************************************************************************)
(* Pairing and the life of an agent: apps/keepd/src/managers/              *)
(* agent-manager.ts over the tables agents and pending_pairings, its       *)
(* routes (routes/agents.ts), handlePair() of rpc-router.ts, the default   *)
(* policies that pairing and connecting create, and on the agent's machine *)
(* init() and disconnect() of apps/keepai/src/sdk.ts.                      *)
(*                                                                         *)
(* The statements of a route or of completePairing() run in one turn.      *)
(* What separates steps are the wait for the icon of a new agent, the      *)
(* revocation that a disconnect waits for, the network between the agent   *)
(* and the daemon, and the clock.  Icon files are not modelled, only the   *)
(* wait for them: nothing but the user interface reads them.  handlePair() *)
(* takes the agent's key from the parameters of the request; the sdk sends *)
(* the one it signs with, and so does every request here.                  *)
(***************************************************************************)
EXTENDS Naturals

CONSTANTS
  Codes,    \* pairing codes.  id, secret and keepd keypair are drawn together,
            \* so that one value stands for the three, and for the agent's id
  Names,    \* agent names
  Keys,     \* keypairs of the agents' machines, each of them for one init()
  Clients,  \* configuration directories, with one keepai process at a time
  Accounts, \* accounts of services
  NoCode,
  NoName,
  NoKey,
  Lifetime, \* TIMEOUTS.PAIRING
  MaxTime   \* bound on the clock

ASSUME NullAssumption ==
  /\ NoCode \notin Codes /\ NoName \notin Names /\ NoKey \notin Keys
  /\ Codes \cap Accounts = {}
ASSUME TimeAssumption == Lifetime \in Nat \ {0} /\ MaxTime \in Nat

VARIABLES
  up,         \* the daemon runs
  now,        \* its clock
  pending,    \* pending_pairings,
  expires,    \* with expires_at
  status,     \* agents: status, "none": no row
  name,       \* agents or pending_pairings: name
  key,        \* agents: agent_pubkey
  account,    \* connections: status, "none": no row
  leaving,    \* a disconnect waits for the revocation
  policies,   \* rows of policies
  subscribed, \* currentPubkeys of the handler
  request,    \* the pair request signed with a key: on its way, being handled,
              \* answered
  code,       \* and the code it is for
  identity,   \* identity.json
  config,     \* config.json
  waiting,    \* the key of the init() under way
  saved,      \* history: the keys whose init() has saved the configuration
  skipped,    \* history: agents and accounts that pairing or connecting left
              \* without a default policy
  late        \* history: the rows that were written when their agent or their
              \* account was already removed

rowVars    == <<pending, expires, status, name, key>>
policyVars == <<account, leaving, policies>>
clientVars == <<identity, config, waiting, saved>>
wireVars   == <<request, code>>
histVars   == <<skipped, late>>
vars == <<up, now, rowVars, policyVars, subscribed, wireVars, clientVars, histVars>>

\* The types of the variables.
TypeOK ==
  /\ up \in BOOLEAN /\ now \in Nat
  /\ pending \in SUBSET Codes
  /\ expires \in [Codes -> Nat]
  /\ status \in [Codes -> {"none", "paired", "paused", "revoked"}]
  /\ name \in [Codes -> Names \cup {NoName}]
  /\ key \in [Codes -> Keys \cup {NoKey}]
  /\ account \in [Accounts -> {"none", "connected", "paused", "error", "disconnected"}]
  /\ leaving \in SUBSET Accounts
  /\ policies \in SUBSET (Codes \X Accounts)
  /\ subscribed \in SUBSET Codes
  /\ request \in [Keys -> {"none", "sent", "welcome", "accepted", "refused", "lost"}]
  /\ code \in [Keys -> Codes \cup {NoCode}]
  /\ identity \in [Clients -> Keys \cup {NoKey}]
  /\ config \in [Clients -> Codes \cup {NoCode}]
  /\ waiting \in [Clients -> Keys \cup {NoKey}]
  /\ saved \in [Clients -> SUBSET Keys]
  /\ skipped \in SUBSET (Codes \X Accounts)
  /\ late \in SUBSET (Codes \X Accounts)

\* Statuses with which an agent is heard.
Heard == {"paired", "paused"}

HeardCodes == {c \in Codes : status[c] \in Heard}

\* Accounts that pairing creates default policies for, those that it passes over,
\* and those whose rows have been deleted.
Connected == {a \in Accounts : account[a] = "connected"}
Idle == {a \in Accounts : account[a] \in {"paused", "error"}}
Removed == {a \in Accounts : account[a] = "disconnected"} \cup leaving

\* The pairs of S get no default policy in this step.  Those with a row have one.
Skip(S) == skipped' = (skipped \cup S) \ policies'

\* Rows of R whose agent is revoked or whose account is removed.
Orphans(R) == {p \in R : status[p[1]] \notin Heard \/ p[2] \in Removed}

\* Names of agents, the revoked ones included: agents.name is UNIQUE.
TakenNames == {name[c] : c \in {d \in Codes : status[d] # "none"}}

\* Pair requests that wait for the agent's icon in completePairing(), and their
\* agents.
Welcomed  == {k \in Keys : request[k] = "welcome"}
Welcoming == {code[k] : k \in Welcomed}

\* getActiveKeepdPubkeys(): agents and pairings that have not expired.
ActivePubkeys ==
  HeardCodes \cup {c \in pending : expires[c] > now}
-----------------------------------------------------------------------------
\* Pairings

\* POST /api/agents/new.  The id, the secret and the keys are new.
CreatePairing(c, n) ==
  /\ up
  /\ name[c] = NoName
  /\ n \notin TakenNames
  /\ pending' = pending \cup {c}
  /\ expires' = [expires EXCEPT ![c] = now + Lifetime]
  /\ name' = [name EXCEPT ![c] = n]
  /\ UNCHANGED <<up, now, status, key, policyVars, wireVars, clientVars, histVars>>
  /\ subscribed' = ActivePubkeys'

\* DELETE /api/agents/pairings/:pairingId
CancelPairingOnly(c) ==
  /\ up
  /\ c \in pending
  /\ pending' = pending \ {c}
  /\ UNCHANGED <<up, now, expires, status, name, key, policyVars, subscribed, wireVars,
                 clientVars, histVars>>

CancelPairing(c) ==
  /\ up
  /\ c \in pending
  /\ pending' = pending \ {c}
  /\ UNCHANGED <<up, now, expires, status, name, key, policyVars, wireVars, clientVars,
                 histVars>>
  /\ subscribed' = ActivePubkeys'

\* The cleanup interval: expireOld(), then the subscription.
Cleanup ==
  /\ up
  /\ pending' = {c \in pending : expires[c] >= now}
  /\ UNCHANGED <<up, now, expires, status, name, key, policyVars, wireVars, clientVars,
                 histVars>>
  /\ subscribed' = ActivePubkeys'
-----------------------------------------------------------------------------
\* The pair request

\* It is heard, and getAgentKeys() finds keys to decrypt it with.
Arrives(k) == up /\ request[k] = "sent" /\ code[k] \in subscribed

\* No agent and no live pairing has the keys: the event is ignored.
IgnorePair(k) ==
  /\ Arrives(k)
  /\ code[k] \notin ActivePubkeys
  /\ request' = [request EXCEPT ![k] = "lost"]
  /\ UNCHANGED <<up, now, rowVars, policyVars, subscribed, code, clientVars, histVars>>

\* The secret is unknown: it has been used, or cancelled.
SecretIsUsedReturns(k) ==
  /\ Arrives(k)
  /\ code[k] \in ActivePubkeys \ pending
  /\ request' = [request EXCEPT ![k] = "accepted"]
  /\ UNCHANGED <<up, now, rowVars, policyVars, subscribed, code, clientVars, histVars>>

SecretIsUsed(k) ==
  /\ Arrives(k)
  /\ code[k] \in ActivePubkeys \ pending
  /\ request' = [request EXCEPT ![k] = "refused"]
  /\ UNCHANGED <<up, now, rowVars, policyVars, subscribed, code, clientVars, histVars>>

\* The row has expired, and is deleted.  The keys are found all the same when a
\* crash has left the row beside its agent.
PairingHasExpired(k) ==
  /\ Arrives(k)
  /\ code[k] \in ActivePubkeys \cap pending
  /\ expires[code[k]] < now
  /\ pending' = pending \ {code[k]}
  /\ request' = [request EXCEPT ![k] = "refused"]
  /\ UNCHANGED <<up, now, expires, status, name, key, policyVars, subscribed, code,
                 clientVars, histVars>>

\* agents.create() fails on a UNIQUE column.
Clashes(k) == status[code[k]] # "none" \/ name[code[k]] \in TakenNames

CreateFails(k) ==
  /\ Arrives(k)
  /\ code[k] \in ActivePubkeys \cap pending
  /\ expires[code[k]] >= now
  /\ Clashes(k)
  /\ request' = [request EXCEPT ![k] = "refused"]
  /\ UNCHANGED <<up, now, rowVars, policyVars, subscribed, code, clientVars, histVars>>

\* The agent's row, the first half of completePairing().
CreateAgent(k) ==
  /\ Arrives(k)
  /\ code[k] \in ActivePubkeys \cap pending
  /\ expires[code[k]] >= now
  /\ ~Clashes(k)
  /\ status' = [status EXCEPT ![code[k]] = "paired"]
  /\ key' = [key EXCEPT ![code[k]] = k]
  /\ UNCHANGED <<expires, name>>

\* Then the pairing is deleted, and the wait for the icon begins.
CompletePairing(k) ==
  /\ CreateAgent(k)
  /\ pending' = pending \ {code[k]}
  /\ request' = [request EXCEPT ![k] = "welcome"]
  /\ UNCHANGED <<up, now, policyVars, subscribed, code, clientVars, histVars>>

\* The icon has come or not; the rest of handlePair(): default policies for the
\* accounts that are connected, not for those that are paused or failed, and the
\* answer.
CreateDefaults(c) ==
  /\ policies' = policies \cup ({c} \X Connected)
  /\ late' = late \cup Orphans({c} \X Connected)
  /\ Skip({c} \X Idle)

WelcomeNeedsIcon(k) ==
  /\ up
  /\ request[k] = "welcome"
  /\ CreateDefaults(code[k])
  /\ \E a \in {"accepted", "refused"} : request' = [request EXCEPT ![k] = a]
  /\ UNCHANGED <<up, now, rowVars, account, leaving, subscribed, code, clientVars>>

Welcome(k) ==
  /\ up
  /\ request[k] = "welcome"
  /\ CreateDefaults(code[k])
  /\ request' = [request EXCEPT ![k] = "accepted"]
  /\ UNCHANGED <<up, now, rowVars, account, leaving, subscribed, code, clientVars>>
-----------------------------------------------------------------------------
\* The agents

\* PUT /api/agents/:agentId/name
Rename(c, n) ==
  /\ up
  /\ status[c] # "none"
  /\ \A d \in Codes : status[d] # "none" /\ name[d] = n => d = c
  /\ name' = [name EXCEPT ![c] = n]
  /\ UNCHANGED <<up, now, pending, expires, status, key, policyVars, subscribed,
                 wireVars, clientVars, histVars>>

SetStatus(c, from, to) ==
  /\ up
  /\ status[c] = from
  /\ status' = [status EXCEPT ![c] = to]
  /\ UNCHANGED <<up, now, pending, expires, name, key, policyVars, subscribed,
                 wireVars, clientVars, histVars>>

Pause(c) == SetStatus(c, "paired", "paused")
Unpause(c) == SetStatus(c, "paused", "paired")

\* The rows that deleteByAgent() leaves.
AllRows(c) == policies
RowsOfOthers(c) == {p \in policies : p[1] # c}

\* DELETE /api/agents/:agentId, of an agent in any status.
Revoke(c) ==
  /\ up
  /\ status[c] # "none"
  /\ status' = [status EXCEPT ![c] = "revoked"]
  /\ policies' = RowsOfOthers(c)
  /\ late' = late \cap RowsOfOthers(c)
  /\ skipped' = {p \in skipped : p[1] # c}
  /\ UNCHANGED <<up, now, pending, expires, name, key, account, leaving, wireVars,
                 clientVars>>
  /\ subscribed' = ActivePubkeys'
-----------------------------------------------------------------------------
\* The accounts

\* The agents that createDefaultsForConnection() is called for.
FirstPaired ==
  {c \in Codes : status[c] = "paired" /\ c = CHOOSE d \in Codes : status[d] = "paired"}
AllPaired == {c \in Codes : status[c] = "paired"}
AllPaused == {c \in Codes : status[c] = "paused"}

\* An account is connected, for the first time or again: default policies for
\* the agents that are paired at that moment.
ConnectSwapsKeys(a) ==
  /\ up
  /\ account' = [account EXCEPT ![a] = "connected"]
  /\ policies' = policies \cup ({a} \X AllPaired)
  /\ late' = IF a \in leaving THEN late \cup (AllPaired \X {a}) ELSE late
  /\ Skip(AllPaused \X {a})
  /\ UNCHANGED <<up, now, rowVars, leaving, subscribed, wireVars, clientVars>>

Connect(a) ==
  /\ up
  /\ account' = [account EXCEPT ![a] = "connected"]
  /\ policies' = policies \cup (AllPaired \X {a})
  /\ late' = IF a \in leaving THEN late \cup (AllPaired \X {a}) ELSE late
  /\ Skip(AllPaused \X {a})
  /\ UNCHANGED <<up, now, rowVars, leaving, subscribed, wireVars, clientVars>>

\* POST /api/connections/:connectionId/pause and /unpause, no defaults.
PauseAccount(a) ==
  /\ up
  /\ account[a] = "connected"
  /\ account' = [account EXCEPT ![a] = "paused"]
  /\ UNCHANGED <<up, now, rowVars, leaving, policies, subscribed, wireVars, clientVars,
                 histVars>>

UnpauseAccount(a) ==
  /\ up
  /\ account[a] = "paused"
  /\ account' = [account EXCEPT ![a] = "connected"]
  /\ UNCHANGED <<up, now, rowVars, leaving, policies, subscribed, wireVars, clientVars,
                 histVars>>

\* A check or a refresh ends and writes what it found, whatever the status has
\* become meanwhile (see Connections): markConnected() or markError().  A
\* disconnected account comes back without the policies it had.
Recheck(a, found) ==
  /\ up
  /\ account[a] # "none"
  /\ account' = [account EXCEPT ![a] = found]
  /\ UNCHANGED policies
  /\ IF account[a] = "disconnected" THEN Skip(HeardCodes \X {a}) ELSE UNCHANGED skipped
  /\ UNCHANGED <<up, now, rowVars, leaving, subscribed, wireVars, clientVars,
                 late>>

\* DELETE /api/connections/:connectionId deletes the policies first and then
\* waits for the revocation.
Disconnect(a) ==
  /\ up
  /\ account[a] # "none"
  /\ a \notin leaving
  /\ policies' = {p \in policies : p[2] # a}
  /\ late' = {p \in late : p[2] # a}
  /\ leaving' = leaving \cup {a}
  /\ skipped' = {p \in skipped : p[2] # a}
  /\ UNCHANGED <<up, now, rowVars, account, subscribed, wireVars, clientVars>>

FinishDisconnect(a) ==
  /\ up
  /\ a \in leaving
  /\ leaving' = leaving \ {a}
  /\ account' = [account EXCEPT ![a] = "disconnected"]
  /\ UNCHANGED <<up, now, rowVars, policies, subscribed, wireVars, clientVars, histVars>>

\* PUT /api/agents/:agentId/policies/:connectionId.  It wants the rows of agent
\* and account to exist and does not look at the status of either, so it serves
\* a revoked agent and a disconnected account too.
SavePolicy(c, a) ==
  /\ up
  /\ status[c] # "none"
  /\ account[a] # "none"
  /\ policies' = policies \cup {<<c, a>>}
  /\ late' = late \cup Orphans({<<c, a>>})
  /\ Skip({})
  /\ UNCHANGED <<up, now, rowVars, account, leaving, subscribed, wireVars, clientVars>>
-----------------------------------------------------------------------------
\* The agent's machine

\* `keepai init <code>`: the new identity replaces the old one, then the pair
\* request is published.
InitSavesConfig(u, k, c) ==
  /\ waiting[u] = NoKey
  /\ request[k] = "none"
  /\ name[c] # NoName
  /\ identity' = [identity EXCEPT ![u] = k]
  /\ config' = [config EXCEPT ![u] = c]
  /\ waiting' = [waiting EXCEPT ![u] = k]
  /\ request' = [request EXCEPT ![k] = "sent"]
  /\ code' = [code EXCEPT ![k] = c]
  /\ UNCHANGED <<up, now, rowVars, policyVars, subscribed, saved, histVars>>

InitClient(u, k, c) ==
  /\ waiting[u] = NoKey
  /\ request[k] = "none"
  /\ name[c] # NoName
  /\ identity' = [identity EXCEPT ![u] = k]
  /\ waiting' = [waiting EXCEPT ![u] = k]
  /\ request' = [request EXCEPT ![k] = "sent"]
  /\ code' = [code EXCEPT ![k] = c]
  /\ UNCHANGED <<up, now, rowVars, policyVars, subscribed, config, saved, histVars>>

\* The answer arrives: the configuration is saved.
ClientIsPaired(u) ==
  /\ waiting[u] # NoKey
  /\ request[waiting[u]] = "accepted"
  /\ config' = [config EXCEPT ![u] = code[waiting[u]]]
  /\ saved' = [saved EXCEPT ![u] = @ \cup {waiting[u]}]
  /\ waiting' = [waiting EXCEPT ![u] = NoKey]
  /\ UNCHANGED <<up, now, rowVars, policyVars, subscribed, wireVars, identity, histVars>>

\* An error, the timeout of 30 seconds, or the process is killed.
ClientGivesUp(u) ==
  /\ waiting[u] # NoKey
  /\ waiting' = [waiting EXCEPT ![u] = NoKey]
  /\ UNCHANGED <<up, now, rowVars, policyVars, subscribed, wireVars, identity, config,
                 saved, histVars>>

\* disconnect() deletes the directory; the daemon is not told.
ClientDisconnects(u) ==
  /\ waiting[u] = NoKey
  /\ identity[u] # NoKey
  /\ identity' = [identity EXCEPT ![u] = NoKey]
  /\ config' = [config EXCEPT ![u] = NoCode]
  /\ UNCHANGED <<up, now, rowVars, policyVars, subscribed, wireVars, waiting, saved,
                 histVars>>
-----------------------------------------------------------------------------
\* The process

Tick ==
  /\ now < MaxTime
  /\ now' = now + 1
  /\ UNCHANGED <<up, rowVars, policyVars, subscribed, wireVars, clientVars, histVars>>

\* The process is killed: `ended` are the pair requests it does not continue, and
\* their events stay known as duplicates.
Dies(ended) ==
  /\ up' = FALSE
  /\ subscribed' = {}
  /\ request' = [k \in Keys |-> IF k \in ended THEN "lost" ELSE request[k]]
  /\ UNCHANGED policies
  /\ Skip(({code[k] : k \in ended} \X (Connected \cup Idle)) \cup (HeardCodes \X leaving))
  /\ leaving' = {}
  /\ UNCHANGED <<now, account, code, clientVars, late>>

Crash ==
  /\ up
  /\ Dies(Welcomed)
  /\ UNCHANGED rowVars

\* Between agents.create() and pairings.delete(), which are no transaction.
CrashInPairing(k) ==
  /\ CreateAgent(k)
  /\ Dies(Welcomed \cup {k})
  /\ UNCHANGED pending

Start ==
  /\ ~up
  /\ up' = TRUE
  /\ subscribed' = ActivePubkeys
  /\ UNCHANGED <<now, rowVars, policyVars, wireVars, clientVars, histVars>>

Init ==
  /\ up = TRUE
  /\ now = 0
  /\ pending = {}
  /\ expires = [c \in Codes |-> 0]
  /\ status = [c \in Codes |-> "none"]
  /\ name = [c \in Codes |-> NoName]
  /\ key = [c \in Codes |-> NoKey]
  /\ account = [a \in Accounts |-> "none"]
  /\ leaving = {} /\ policies = {}
  /\ subscribed = {}
  /\ request = [k \in Keys |-> "none"]
  /\ code = [k \in Keys |-> NoCode]
  /\ identity = [u \in Clients |-> NoKey]
  /\ config = [u \in Clients |-> NoCode]
  /\ waiting = [u \in Clients |-> NoKey]
  /\ saved = [u \in Clients |-> {}]
  /\ skipped = {} /\ late = {}

Pair(k) ==
  \/ IgnorePair(k)
  \/ SecretIsUsed(k)
  \/ PairingHasExpired(k)
  \/ CreateFails(k)
  \/ CompletePairing(k)
  \/ CrashInPairing(k)
  \/ Welcome(k)

Next ==
  \/ \E c \in Codes, n \in Names : CreatePairing(c, n) \/ Rename(c, n)
  \/ \E c \in Codes :
       \/ CancelPairing(c)
       \/ Pause(c)
       \/ Unpause(c)
       \/ Revoke(c)
  \/ \E k \in Keys : Pair(k)
  \/ \E a \in Accounts :
       \/ Connect(a)
       \/ PauseAccount(a)
       \/ UnpauseAccount(a)
       \/ \E found \in {"connected", "error"} : Recheck(a, found)
       \/ Disconnect(a)
       \/ FinishDisconnect(a)
       \/ \E c \in Codes : SavePolicy(c, a)
  \/ \E u \in Clients :
       \/ \E k \in Keys, c \in Codes : InitClient(u, k, c)
       \/ ClientIsPaired(u)
       \/ ClientGivesUp(u)
       \/ ClientDisconnects(u)
  \/ Cleanup
  \/ Tick
  \/ Crash
  \/ Start

Spec == Init /\ [][Next]_vars
-----------------------------------------------------------------------------
\* Properties

\* A running daemon is subscribed to every agent and every pairing it would
\* answer, and otherwise at most to pairings that the cleanup has not yet
\* dropped, although each route and the cleanup replace the set on their own.
SubscriptionIsCurrent ==
  up =>
    /\ ActivePubkeys \subseteq subscribed
    /\ subscribed \ ActivePubkeys \subseteq {c \in pending : expires[c] <= now}

\* What handlePair() answers is what the agents table says: after a success the
\* code belongs to the sender, after an error no agent has the sender's key.
AnswersAgree ==
  \A k \in Keys :
    /\ request[k] = "accepted" => key[code[k]] = k
    /\ request[k] = "refused" => \A c \in Codes : key[c] # k

\* A client that takes itself for paired is an agent of the daemon, alone with
\* its code, and unless a later init() failed, with the identity it has stored.
ClientsAreKnown ==
  \A u \in Clients : config[u] # NoCode =>
    /\ status[config[u]] # "none"
    /\ identity[u] \in saved[u] => key[config[u]] = identity[u]
    /\ \A v \in Clients : config[v] = config[u] => v = u

\* Every agent has a policy row for every account that is in use, whichever of the
\* two came first and whatever pauses and checks came between.  Without one is
\* only who was skipped: an agent that was paused when the account was connected,
\* one that paired while the account was paused or failed, and both when the
\* daemon died before it wrote the row or when a check has brought back a
\* disconnected account.
DefaultsComplete ==
  \A c \in Codes, a \in Accounts :
    status[c] \in Heard /\ account[a] # "none" /\ a \notin Removed
      => <<c, a>> \in policies \cup skipped \/ c \in Welcoming

\* "Revoke agent (delete identity + policies)" (docs/dev/03-keepd.md:91): no policy
\* row survives the revocation of its agent or the deletion of its account.  A
\* row of a revoked agent or a removed account was written afterwards: by the
\* user (routes/policies.ts:107-149 checks no status), or by a pairing or an
\* authorization that was under way.
NothingOutlives == Orphans(policies) \subseteq late
=============================================================================
