------------------------------ MODULE AgentsProofs ------------------------------
(***************************************************************************)
(* Theorems about Agents, for any number of codes, names, machines and     *)
(* accounts, any lifetime of a code and any number of crashes.             *)
(***************************************************************************)
EXTENDS Agents, TLAPS

\* A request that was sent names its code.
CodesKnown == \A k \in Keys : request[k] # "none" => code[k] \in Codes

LEMMA TypeInit == Init => TypeOK /\ CodesKnown
BY DEF Init, TypeOK, CodesKnown

\* Every step preserves the types.
LEMMA TypeInductive ==
  ASSUME TypeOK, CodesKnown, [Next]_vars
  PROVE  TypeOK'
<1> USE TimeAssumption, NullAssumption
    DEF TypeOK, rowVars, policyVars, clientVars, wireVars, histVars
<1>a. \A C \in SUBSET Codes, A \in SUBSET Accounts : C \X A \in SUBSET (Codes \X Accounts)
  OBVIOUS
<1>b. /\ \A R \in SUBSET (Codes \X Accounts) : Orphans(R) \in SUBSET (Codes \X Accounts)
      /\ Connected \in SUBSET Accounts /\ Idle \in SUBSET Accounts
      /\ HeardCodes \in SUBSET Codes
  BY DEF Orphans, Connected, Idle, HeardCodes
<1>c. \A c \in Codes, a \in Accounts : {<<c, a>>} \in SUBSET (Codes \X Accounts)
  OBVIOUS
<1>1. ASSUME NEW c \in Codes, NEW n \in Names, CreatePairing(c, n) \/ Rename(c, n)
      PROVE  TypeOK'
  <2>1. CASE CreatePairing(c, n)
    BY <2>1 DEF CreatePairing, ActivePubkeys, HeardCodes
  <2>2. CASE Rename(c, n)
    BY <2>2 DEF Rename
  <2> QED
    BY <1>1, <2>1, <2>2
<1>2. ASSUME NEW c \in Codes,
           CancelPairing(c) \/ Pause(c) \/ Unpause(c) \/ Revoke(c)
      PROVE  TypeOK'
  <2>1. CASE CancelPairing(c)
    BY <2>1 DEF CancelPairing, ActivePubkeys, HeardCodes
  <2>2. CASE Pause(c)
    BY <2>2 DEF Pause, SetStatus
  <2>3. CASE Unpause(c)
    BY <2>3 DEF Unpause, SetStatus
  <2>4. CASE Revoke(c)
    BY <2>4 DEF Revoke, RowsOfOthers, ActivePubkeys, HeardCodes
  <2> QED
    BY <1>2, <2>1, <2>2, <2>3, <2>4
<1>3. ASSUME NEW k \in Keys, Pair(k)
      PROVE  TypeOK'
  <2>1. CASE IgnorePair(k)
    BY <2>1 DEF IgnorePair
  <2>2. CASE SecretIsUsed(k)
    BY <2>2 DEF SecretIsUsed
  <2>3. CASE PairingHasExpired(k)
    BY <2>3 DEF PairingHasExpired
  <2>4. CASE CreateFails(k)
    BY <2>4 DEF CreateFails
  <2>5. CASE CompletePairing(k)
    BY <2>5 DEF CompletePairing, CreateAgent
  <2>6. CASE CrashInPairing(k)
    <3>1. /\ code[k] \in Codes
          /\ {code[l] : l \in Welcomed \cup {k}} \in SUBSET Codes
      BY <2>6 DEF CrashInPairing, CreateAgent, Arrives, CodesKnown, Welcomed
    <3>2. skipped' \in SUBSET (Codes \X Accounts)
      BY <2>6, <1>a, <1>b, <3>1 DEF CrashInPairing, Dies, Skip
    <3> QED
      BY <2>6, <3>1, <3>2 DEF CrashInPairing, CreateAgent, Dies
  <2>7. CASE Welcome(k)
    <3>1. code[k] \in Codes
      BY <2>7 DEF Welcome, CodesKnown
    <3>2. {code[k]} \X Connected \in SUBSET (Codes \X Accounts)
      BY <3>1, <1>a, <1>b
    <3>3. {code[k]} \X Idle \in SUBSET (Codes \X Accounts)
      BY <3>1, <1>a, <1>b
    <3>4. /\ policies' \in SUBSET (Codes \X Accounts)
          /\ late' \in SUBSET (Codes \X Accounts)
          /\ skipped' \in SUBSET (Codes \X Accounts)
      BY <2>7, <1>b, <3>2, <3>3 DEF Welcome, CreateDefaults, Skip
    <3> QED
      BY <2>7, <3>4 DEF Welcome
  <2> QED
    BY <1>3, <2>1, <2>2, <2>3, <2>4, <2>5, <2>6, <2>7 DEF Pair
<1>4. ASSUME NEW a \in Accounts,
           \/ Connect(a) \/ PauseAccount(a) \/ UnpauseAccount(a)
           \/ \E found \in {"connected", "error"} : Recheck(a, found)
           \/ Disconnect(a) \/ FinishDisconnect(a)
           \/ \E c \in Codes : SavePolicy(c, a)
      PROVE  TypeOK'
  <2>1. CASE Connect(a)
    BY <2>1, <1>a DEF Connect, AllPaired, AllPaused, Skip
  <2>2. CASE PauseAccount(a)
    BY <2>2 DEF PauseAccount
  <2>3. CASE UnpauseAccount(a)
    BY <2>3 DEF UnpauseAccount
  <2>4. ASSUME NEW found \in {"connected", "error"}, Recheck(a, found)
        PROVE  TypeOK'
    <3>1. HeardCodes \X {a} \in SUBSET (Codes \X Accounts)
      BY <1>a, <1>b
    <3>2. skipped' \in SUBSET (Codes \X Accounts)
      BY <2>4, <3>1 DEF Recheck, Skip
    <3>3. account' \in [Accounts -> {"none", "connected", "paused", "error", "disconnected"}]
      BY <2>4 DEF Recheck
    <3> QED
      BY <2>4, <3>2, <3>3 DEF Recheck
  <2>5. CASE Disconnect(a)
    BY <2>5 DEF Disconnect
  <2>6. CASE FinishDisconnect(a)
    BY <2>6 DEF FinishDisconnect
  <2>7. ASSUME NEW c \in Codes, SavePolicy(c, a)
        PROVE  TypeOK'
    <3>1. /\ policies' \in SUBSET (Codes \X Accounts)
          /\ skipped' \in SUBSET (Codes \X Accounts)
      BY <2>7, <1>c DEF SavePolicy, Skip
    <3>2. late' \in SUBSET (Codes \X Accounts)
      BY <2>7, <1>b, <1>c DEF SavePolicy
    <3> QED
      BY <2>7, <3>1, <3>2 DEF SavePolicy
  <2> QED
    BY <1>4, <2>1, <2>2, <2>3, <2>4, <2>5, <2>6, <2>7
<1>5. ASSUME NEW u \in Clients,
           \/ \E k \in Keys, c \in Codes : InitClient(u, k, c)
           \/ ClientIsPaired(u) \/ ClientGivesUp(u) \/ ClientDisconnects(u)
      PROVE  TypeOK'
  <2>1. ASSUME NEW k \in Keys, NEW c \in Codes, InitClient(u, k, c)
        PROVE  TypeOK'
    BY <2>1 DEF InitClient
  <2>2. CASE ClientIsPaired(u)
    BY <2>2 DEF ClientIsPaired
  <2>3. CASE ClientGivesUp(u)
    BY <2>3 DEF ClientGivesUp
  <2>4. CASE ClientDisconnects(u)
    BY <2>4 DEF ClientDisconnects
  <2> QED
    BY <1>5, <2>1, <2>2, <2>3, <2>4
<1>6. CASE Cleanup
  BY <1>6 DEF Cleanup, ActivePubkeys, HeardCodes
<1>7. CASE Tick
  BY <1>7 DEF Tick
<1>8. CASE Crash
  <2>1. {code[l] : l \in Welcomed} \in SUBSET Codes
    BY DEF CodesKnown, Welcomed
  <2>2. skipped' \in SUBSET (Codes \X Accounts)
    BY <1>8, <1>a, <1>b, <2>1 DEF Crash, Dies, Skip
  <2> QED
    BY <1>8, <2>2 DEF Crash, Dies
<1>9. CASE Start
  BY <1>9 DEF Start, ActivePubkeys, HeardCodes
<1>10. CASE UNCHANGED vars
  BY <1>10 DEF vars
<1> QED
  BY <1>1, <1>2, <1>3, <1>4, <1>5, <1>6, <1>7, <1>8, <1>9, <1>10 DEF Next
-----------------------------------------------------------------------------
\* A key is in the agents table for the code its request names, from the moment
\* that the row is created and never before.
KeysAgree ==
  /\ CodesKnown
  /\ \A k \in Keys : request[k] \in {"none", "sent", "refused"} => \A c \in Codes : key[c] # k
  /\ \A k \in Keys : request[k] \in {"welcome", "accepted"} => key[code[k]] = k
  /\ \A c \in Codes : key[c] # NoKey => status[c] # "none"

LEMMA KeysInit == Init => KeysAgree
BY NullAssumption DEF Init, KeysAgree, CodesKnown

LEMMA KeysInductive ==
  ASSUME TypeOK, KeysAgree, [Next]_vars
  PROVE  KeysAgree'
<1> USE NullAssumption
    DEF TypeOK, KeysAgree, CodesKnown, rowVars, policyVars, clientVars, wireVars, histVars
<1>1. ASSUME NEW c \in Codes, NEW n \in Names, CreatePairing(c, n) \/ Rename(c, n)
      PROVE  KeysAgree'
  <2>1. CASE CreatePairing(c, n)
    BY <2>1 DEF CreatePairing
  <2>2. CASE Rename(c, n)
    BY <2>2 DEF Rename
  <2> QED
    BY <1>1, <2>1, <2>2
<1>2. ASSUME NEW c \in Codes,
           CancelPairing(c) \/ Pause(c) \/ Unpause(c) \/ Revoke(c)
      PROVE  KeysAgree'
  <2>1. CASE CancelPairing(c)
    BY <2>1 DEF CancelPairing
  <2>2. CASE Pause(c)
    BY <2>2 DEF Pause, SetStatus
  <2>3. CASE Unpause(c)
    BY <2>3 DEF Unpause, SetStatus
  <2>4. CASE Revoke(c)
    BY <2>4 DEF Revoke
  <2> QED
    BY <1>2, <2>1, <2>2, <2>3, <2>4
<1>3. ASSUME NEW k \in Keys, Pair(k)
      PROVE  KeysAgree'
  <2>1. CASE IgnorePair(k)
    BY <2>1 DEF IgnorePair, Arrives
  <2>2. CASE SecretIsUsed(k)
    BY <2>2 DEF SecretIsUsed, Arrives
  <2>3. CASE PairingHasExpired(k)
    BY <2>3 DEF PairingHasExpired, Arrives
  <2>4. CASE CreateFails(k)
    BY <2>4 DEF CreateFails, Arrives
  <2>5. CASE CompletePairing(k)
    BY <2>5 DEF CompletePairing, CreateAgent, Arrives, Clashes
  <2>6. CASE CrashInPairing(k)
    BY <2>6 DEF CrashInPairing, CreateAgent, Arrives, Clashes, Dies, Welcomed
  <2>7. CASE Welcome(k)
    BY <2>7 DEF Welcome
  <2> QED
    BY <1>3, <2>1, <2>2, <2>3, <2>4, <2>5, <2>6, <2>7 DEF Pair
<1>4. ASSUME NEW a \in Accounts,
           \/ Connect(a) \/ PauseAccount(a) \/ UnpauseAccount(a)
           \/ \E found \in {"connected", "error"} : Recheck(a, found)
           \/ Disconnect(a) \/ FinishDisconnect(a)
           \/ \E c \in Codes : SavePolicy(c, a)
      PROVE  KeysAgree'
  <2>1. CASE Connect(a)
    BY <2>1 DEF Connect
  <2>2. CASE PauseAccount(a)
    BY <2>2 DEF PauseAccount
  <2>3. CASE UnpauseAccount(a)
    BY <2>3 DEF UnpauseAccount
  <2>4. ASSUME NEW found \in {"connected", "error"}, Recheck(a, found)
        PROVE  KeysAgree'
    BY <2>4 DEF Recheck
  <2>5. CASE Disconnect(a)
    BY <2>5 DEF Disconnect
  <2>6. CASE FinishDisconnect(a)
    BY <2>6 DEF FinishDisconnect
  <2>7. ASSUME NEW c \in Codes, SavePolicy(c, a)
        PROVE  KeysAgree'
    BY <2>7 DEF SavePolicy
  <2> QED
    BY <1>4, <2>1, <2>2, <2>3, <2>4, <2>5, <2>6, <2>7
<1>5. ASSUME NEW u \in Clients,
           \/ \E k \in Keys, c \in Codes : InitClient(u, k, c)
           \/ ClientIsPaired(u) \/ ClientGivesUp(u) \/ ClientDisconnects(u)
      PROVE  KeysAgree'
  <2>1. ASSUME NEW k \in Keys, NEW c \in Codes, InitClient(u, k, c)
        PROVE  KeysAgree'
    BY <2>1 DEF InitClient
  <2>2. CASE ClientIsPaired(u)
    BY <2>2 DEF ClientIsPaired
  <2>3. CASE ClientGivesUp(u)
    BY <2>3 DEF ClientGivesUp
  <2>4. CASE ClientDisconnects(u)
    BY <2>4 DEF ClientDisconnects
  <2> QED
    BY <1>5, <2>1, <2>2, <2>3, <2>4
<1>6. CASE Cleanup
  BY <1>6 DEF Cleanup
<1>7. CASE Tick
  BY <1>7 DEF Tick
<1>8. CASE Crash
  BY <1>8 DEF Crash, Dies, Welcomed
<1>9. CASE Start
  BY <1>9 DEF Start
<1>10. CASE UNCHANGED vars
  BY <1>10 DEF vars
<1> QED
  BY <1>1, <1>2, <1>3, <1>4, <1>5, <1>6, <1>7, <1>8, <1>9, <1>10 DEF Next
-----------------------------------------------------------------------------
\* What the machines have stored: each init() has a key of its own, a saved
\* configuration belongs to a key that was accepted.
ClientsFit ==
  /\ \A u \in Clients : waiting[u] # NoKey =>
       /\ request[waiting[u]] # "none"
       /\ identity[u] = waiting[u]
       /\ \A v \in Clients : waiting[u] \notin saved[v] /\ (waiting[v] = waiting[u] => v = u)
  /\ \A u \in Clients : \A k \in saved[u] :
       /\ request[k] = "accepted"
       /\ \A v \in Clients : k \in saved[v] => v = u
  /\ \A u \in Clients : config[u] # NoCode => \E k \in saved[u] : code[k] = config[u]
  /\ \A u \in Clients : identity[u] \in saved[u] /\ config[u] # NoCode => code[identity[u]] = config[u]

LEMMA ClientsInit == Init => ClientsFit
BY NullAssumption DEF Init, ClientsFit

LEMMA ClientsInductive ==
  ASSUME TypeOK, KeysAgree, ClientsFit, [Next]_vars
  PROVE  ClientsFit'
<1> USE NullAssumption
    DEF TypeOK, ClientsFit, rowVars, policyVars, clientVars, wireVars, histVars
<1>1. ASSUME NEW c \in Codes, NEW n \in Names, CreatePairing(c, n) \/ Rename(c, n)
      PROVE  ClientsFit'
  <2>1. CASE CreatePairing(c, n)
    BY <2>1 DEF CreatePairing
  <2>2. CASE Rename(c, n)
    BY <2>2 DEF Rename
  <2> QED
    BY <1>1, <2>1, <2>2
<1>2. ASSUME NEW c \in Codes,
           CancelPairing(c) \/ Pause(c) \/ Unpause(c) \/ Revoke(c)
      PROVE  ClientsFit'
  <2>1. CASE CancelPairing(c)
    BY <2>1 DEF CancelPairing
  <2>2. CASE Pause(c)
    BY <2>2 DEF Pause, SetStatus
  <2>3. CASE Unpause(c)
    BY <2>3 DEF Unpause, SetStatus
  <2>4. CASE Revoke(c)
    BY <2>4 DEF Revoke
  <2> QED
    BY <1>2, <2>1, <2>2, <2>3, <2>4
<1>3. ASSUME NEW k \in Keys, Pair(k)
      PROVE  ClientsFit'
  <2>1. CASE IgnorePair(k)
    BY <2>1 DEF IgnorePair, Arrives
  <2>2. CASE SecretIsUsed(k)
    BY <2>2 DEF SecretIsUsed, Arrives
  <2>3. CASE PairingHasExpired(k)
    BY <2>3 DEF PairingHasExpired, Arrives
  <2>4. CASE CreateFails(k)
    BY <2>4 DEF CreateFails, Arrives
  <2>5. CASE CompletePairing(k)
    BY <2>5 DEF CompletePairing, CreateAgent, Arrives
  <2>6. CASE CrashInPairing(k)
    BY <2>6 DEF CrashInPairing, CreateAgent, Arrives, Dies, Welcomed
  <2>7. CASE Welcome(k)
    BY <2>7 DEF Welcome
  <2> QED
    BY <1>3, <2>1, <2>2, <2>3, <2>4, <2>5, <2>6, <2>7 DEF Pair
<1>4. ASSUME NEW a \in Accounts,
           \/ Connect(a) \/ PauseAccount(a) \/ UnpauseAccount(a)
           \/ \E found \in {"connected", "error"} : Recheck(a, found)
           \/ Disconnect(a) \/ FinishDisconnect(a)
           \/ \E c \in Codes : SavePolicy(c, a)
      PROVE  ClientsFit'
  <2>1. CASE Connect(a)
    BY <2>1 DEF Connect
  <2>2. CASE PauseAccount(a)
    BY <2>2 DEF PauseAccount
  <2>3. CASE UnpauseAccount(a)
    BY <2>3 DEF UnpauseAccount
  <2>4. ASSUME NEW found \in {"connected", "error"}, Recheck(a, found)
        PROVE  ClientsFit'
    BY <2>4 DEF Recheck
  <2>5. CASE Disconnect(a)
    BY <2>5 DEF Disconnect
  <2>6. CASE FinishDisconnect(a)
    BY <2>6 DEF FinishDisconnect
  <2>7. ASSUME NEW c \in Codes, SavePolicy(c, a)
        PROVE  ClientsFit'
    BY <2>7 DEF SavePolicy
  <2> QED
    BY <1>4, <2>1, <2>2, <2>3, <2>4, <2>5, <2>6, <2>7
<1>5. ASSUME NEW u \in Clients,
           \/ \E k \in Keys, c \in Codes : InitClient(u, k, c)
           \/ ClientIsPaired(u) \/ ClientGivesUp(u) \/ ClientDisconnects(u)
      PROVE  ClientsFit'
  <2>1. ASSUME NEW k \in Keys, NEW c \in Codes, InitClient(u, k, c)
        PROVE  ClientsFit'
    BY <2>1 DEF InitClient
  <2>2. CASE ClientIsPaired(u)
    BY <2>2 DEF ClientIsPaired
  <2>3. CASE ClientGivesUp(u)
    BY <2>3 DEF ClientGivesUp
  <2>4. CASE ClientDisconnects(u)
    BY <2>4 DEF ClientDisconnects
  <2> QED
    BY <1>5, <2>1, <2>2, <2>3, <2>4
<1>6. CASE Cleanup
  BY <1>6 DEF Cleanup
<1>7. CASE Tick
  BY <1>7 DEF Tick
<1>8. CASE Crash
  BY <1>8 DEF Crash, Dies, Welcomed
<1>9. CASE Start
  BY <1>9 DEF Start
<1>10. CASE UNCHANGED vars
  BY <1>10 DEF vars
<1> QED
  BY <1>1, <1>2, <1>3, <1>4, <1>5, <1>6, <1>7, <1>8, <1>9, <1>10 DEF Next
-----------------------------------------------------------------------------
LEMMA SubscriptionInit == Init => SubscriptionIsCurrent
BY DEF Init, SubscriptionIsCurrent, ActivePubkeys, HeardCodes, Heard

LEMMA SubscriptionInductive ==
  ASSUME TypeOK, SubscriptionIsCurrent, [Next]_vars
  PROVE  SubscriptionIsCurrent'
<1> USE TimeAssumption
    DEF TypeOK, SubscriptionIsCurrent, ActivePubkeys, HeardCodes, Heard, rowVars, policyVars, clientVars,
        wireVars, histVars
<1>1. ASSUME NEW c \in Codes, NEW n \in Names, CreatePairing(c, n) \/ Rename(c, n)
      PROVE  SubscriptionIsCurrent'
  <2>1. CASE CreatePairing(c, n)
    BY <2>1 DEF CreatePairing
  <2>2. CASE Rename(c, n)
    BY <2>2 DEF Rename
  <2> QED
    BY <1>1, <2>1, <2>2
<1>2. ASSUME NEW c \in Codes,
           CancelPairing(c) \/ Pause(c) \/ Unpause(c) \/ Revoke(c)
      PROVE  SubscriptionIsCurrent'
  <2>1. CASE CancelPairing(c)
    BY <2>1 DEF CancelPairing
  <2>2. CASE Pause(c)
    BY <2>2 DEF Pause, SetStatus
  <2>3. CASE Unpause(c)
    BY <2>3 DEF Unpause, SetStatus
  <2>4. CASE Revoke(c)
    BY <2>4 DEF Revoke
  <2> QED
    BY <1>2, <2>1, <2>2, <2>3, <2>4
<1>3. ASSUME NEW k \in Keys, Pair(k)
      PROVE  SubscriptionIsCurrent'
  <2>1. CASE IgnorePair(k)
    BY <2>1 DEF IgnorePair, Arrives
  <2>2. CASE SecretIsUsed(k)
    BY <2>2 DEF SecretIsUsed, Arrives
  <2>3. CASE PairingHasExpired(k)
    BY <2>3 DEF PairingHasExpired, Arrives
  <2>4. CASE CreateFails(k)
    BY <2>4 DEF CreateFails, Arrives
  <2>5. CASE CompletePairing(k)
    BY <2>5 DEF CompletePairing, CreateAgent, Arrives
  <2>6. CASE CrashInPairing(k)
    BY <2>6 DEF CrashInPairing, Dies
  <2>7. CASE Welcome(k)
    BY <2>7 DEF Welcome
  <2> QED
    BY <1>3, <2>1, <2>2, <2>3, <2>4, <2>5, <2>6, <2>7 DEF Pair
<1>4. ASSUME NEW a \in Accounts,
           \/ Connect(a) \/ PauseAccount(a) \/ UnpauseAccount(a)
           \/ \E found \in {"connected", "error"} : Recheck(a, found)
           \/ Disconnect(a) \/ FinishDisconnect(a)
           \/ \E c \in Codes : SavePolicy(c, a)
      PROVE  SubscriptionIsCurrent'
  <2>1. CASE Connect(a)
    BY <2>1 DEF Connect
  <2>2. CASE PauseAccount(a)
    BY <2>2 DEF PauseAccount
  <2>3. CASE UnpauseAccount(a)
    BY <2>3 DEF UnpauseAccount
  <2>4. ASSUME NEW found \in {"connected", "error"}, Recheck(a, found)
        PROVE  SubscriptionIsCurrent'
    BY <2>4 DEF Recheck
  <2>5. CASE Disconnect(a)
    BY <2>5 DEF Disconnect
  <2>6. CASE FinishDisconnect(a)
    BY <2>6 DEF FinishDisconnect
  <2>7. ASSUME NEW c \in Codes, SavePolicy(c, a)
        PROVE  SubscriptionIsCurrent'
    BY <2>7 DEF SavePolicy
  <2> QED
    BY <1>4, <2>1, <2>2, <2>3, <2>4, <2>5, <2>6, <2>7
<1>5. ASSUME NEW u \in Clients,
           \/ \E k \in Keys, c \in Codes : InitClient(u, k, c)
           \/ ClientIsPaired(u) \/ ClientGivesUp(u) \/ ClientDisconnects(u)
      PROVE  SubscriptionIsCurrent'
  <2>1. ASSUME NEW k \in Keys, NEW c \in Codes, InitClient(u, k, c)
        PROVE  SubscriptionIsCurrent'
    BY <2>1 DEF InitClient
  <2>2. CASE ClientIsPaired(u)
    BY <2>2 DEF ClientIsPaired
  <2>3. CASE ClientGivesUp(u)
    BY <2>3 DEF ClientGivesUp
  <2>4. CASE ClientDisconnects(u)
    BY <2>4 DEF ClientDisconnects
  <2> QED
    BY <1>5, <2>1, <2>2, <2>3, <2>4
<1>6. CASE Cleanup
  BY <1>6 DEF Cleanup
<1>7. CASE Tick
  BY <1>7 DEF Tick
<1>8. CASE Crash
  BY <1>8 DEF Crash, Dies
<1>9. CASE Start
  BY <1>9 DEF Start
<1>10. CASE UNCHANGED vars
  BY <1>10 DEF vars
<1> QED
  BY <1>1, <1>2, <1>3, <1>4, <1>5, <1>6, <1>7, <1>8, <1>9, <1>10 DEF Next
-----------------------------------------------------------------------------
LEMMA DefaultsInit == Init => DefaultsComplete
BY DEF Init, DefaultsComplete, Heard

LEMMA DefaultsInductive ==
  ASSUME TypeOK, KeysAgree, DefaultsComplete, [Next]_vars
  PROVE  DefaultsComplete'
<1> USE DEF TypeOK, DefaultsComplete, Heard, Removed, Welcoming, Welcomed, rowVars, policyVars, clientVars,
            wireVars, histVars
<1>1. ASSUME NEW c \in Codes, NEW n \in Names, CreatePairing(c, n) \/ Rename(c, n)
      PROVE  DefaultsComplete'
  <2>1. CASE CreatePairing(c, n)
    BY <2>1 DEF CreatePairing
  <2>2. CASE Rename(c, n)
    BY <2>2 DEF Rename
  <2> QED
    BY <1>1, <2>1, <2>2
<1>2. ASSUME NEW c \in Codes,
           CancelPairing(c) \/ Pause(c) \/ Unpause(c) \/ Revoke(c)
      PROVE  DefaultsComplete'
  <2>1. CASE CancelPairing(c)
    BY <2>1 DEF CancelPairing
  <2>2. CASE Pause(c)
    BY <2>2 DEF Pause, SetStatus
  <2>3. CASE Unpause(c)
    BY <2>3 DEF Unpause, SetStatus
  <2>4. CASE Revoke(c)
    BY <2>4 DEF Revoke, RowsOfOthers
  <2> QED
    BY <1>2, <2>1, <2>2, <2>3, <2>4
<1>3. ASSUME NEW k \in Keys, Pair(k)
      PROVE  DefaultsComplete'
  <2>1. CASE IgnorePair(k)
    BY <2>1 DEF IgnorePair, Arrives
  <2>2. CASE SecretIsUsed(k)
    BY <2>2 DEF SecretIsUsed, Arrives
  <2>3. CASE PairingHasExpired(k)
    BY <2>3 DEF PairingHasExpired, Arrives
  <2>4. CASE CreateFails(k)
    BY <2>4 DEF CreateFails, Arrives
  <2>5. CASE CompletePairing(k)
    BY <2>5 DEF CompletePairing, CreateAgent, Arrives, KeysAgree, CodesKnown
  <2>6. CASE CrashInPairing(k)
    BY <2>6 DEF CrashInPairing, CreateAgent, Arrives, KeysAgree, CodesKnown, Dies, Skip, Connected, Idle, HeardCodes
  <2>7. CASE Welcome(k)
    BY <2>7 DEF Welcome, CreateDefaults, Connected, Idle, Skip, KeysAgree, CodesKnown
  <2> QED
    BY <1>3, <2>1, <2>2, <2>3, <2>4, <2>5, <2>6, <2>7 DEF Pair
<1>4. ASSUME NEW a \in Accounts,
           \/ Connect(a) \/ PauseAccount(a) \/ UnpauseAccount(a)
           \/ \E found \in {"connected", "error"} : Recheck(a, found)
           \/ Disconnect(a) \/ FinishDisconnect(a)
           \/ \E c \in Codes : SavePolicy(c, a)
      PROVE  DefaultsComplete'
  <2>1. CASE Connect(a)
    BY <2>1 DEF Connect, AllPaired, AllPaused, Skip
  <2>2. CASE PauseAccount(a)
    BY <2>2 DEF PauseAccount
  <2>3. CASE UnpauseAccount(a)
    BY <2>3 DEF UnpauseAccount
  <2>4. ASSUME NEW found \in {"connected", "error"}, Recheck(a, found)
        PROVE  DefaultsComplete'
    BY <2>4 DEF Recheck, Skip, HeardCodes
  <2>5. CASE Disconnect(a)
    BY <2>5 DEF Disconnect
  <2>6. CASE FinishDisconnect(a)
    BY <2>6 DEF FinishDisconnect
  <2>7. ASSUME NEW c \in Codes, SavePolicy(c, a)
        PROVE  DefaultsComplete'
    BY <2>7 DEF SavePolicy, Skip
  <2> QED
    BY <1>4, <2>1, <2>2, <2>3, <2>4, <2>5, <2>6, <2>7
<1>5. ASSUME NEW u \in Clients,
           \/ \E k \in Keys, c \in Codes : InitClient(u, k, c)
           \/ ClientIsPaired(u) \/ ClientGivesUp(u) \/ ClientDisconnects(u)
      PROVE  DefaultsComplete'
  <2>1. ASSUME NEW k \in Keys, NEW c \in Codes, InitClient(u, k, c)
        PROVE  DefaultsComplete'
    BY <2>1, NullAssumption DEF InitClient
  <2>2. CASE ClientIsPaired(u)
    BY <2>2 DEF ClientIsPaired
  <2>3. CASE ClientGivesUp(u)
    BY <2>3 DEF ClientGivesUp
  <2>4. CASE ClientDisconnects(u)
    BY <2>4 DEF ClientDisconnects
  <2> QED
    BY <1>5, <2>1, <2>2, <2>3, <2>4
<1>6. CASE Cleanup
  BY <1>6 DEF Cleanup
<1>7. CASE Tick
  BY <1>7 DEF Tick
<1>8. CASE Crash
  BY <1>8 DEF Crash, Dies, Skip, Connected, Idle, HeardCodes
<1>9. CASE Start
  BY <1>9 DEF Start
<1>10. CASE UNCHANGED vars
  BY <1>10 DEF vars
<1> QED
  BY <1>1, <1>2, <1>3, <1>4, <1>5, <1>6, <1>7, <1>8, <1>9, <1>10 DEF Next
-----------------------------------------------------------------------------
LEMMA OutlivesInit == Init => NothingOutlives
BY DEF Init, NothingOutlives, Orphans

LEMMA OutlivesInductive ==
  ASSUME TypeOK, KeysAgree, NothingOutlives, [Next]_vars
  PROVE  NothingOutlives'
<1> USE NullAssumption
    DEF TypeOK, NothingOutlives, Orphans, Removed, Heard, rowVars, policyVars, clientVars,
        wireVars, histVars
<1>1. ASSUME NEW c \in Codes, NEW n \in Names, CreatePairing(c, n) \/ Rename(c, n)
      PROVE  NothingOutlives'
  <2>1. CASE CreatePairing(c, n)
    BY <2>1 DEF CreatePairing
  <2>2. CASE Rename(c, n)
    BY <2>2 DEF Rename
  <2> QED
    BY <1>1, <2>1, <2>2
<1>2. ASSUME NEW c \in Codes,
           CancelPairing(c) \/ Pause(c) \/ Unpause(c) \/ Revoke(c)
      PROVE  NothingOutlives'
  <2>1. CASE CancelPairing(c)
    BY <2>1 DEF CancelPairing
  <2>2. CASE Pause(c)
    BY <2>2 DEF Pause, SetStatus
  <2>3. CASE Unpause(c)
    BY <2>3 DEF Unpause, SetStatus
  <2>4. CASE Revoke(c)
    BY <2>4 DEF Revoke, RowsOfOthers
  <2> QED
    BY <1>2, <2>1, <2>2, <2>3, <2>4
<1>3. ASSUME NEW k \in Keys, Pair(k)
      PROVE  NothingOutlives'
  <2>1. CASE IgnorePair(k)
    BY <2>1 DEF IgnorePair, Arrives
  <2>2. CASE SecretIsUsed(k)
    BY <2>2 DEF SecretIsUsed, Arrives
  <2>3. CASE PairingHasExpired(k)
    BY <2>3 DEF PairingHasExpired, Arrives
  <2>4. CASE CreateFails(k)
    BY <2>4 DEF CreateFails, Arrives
  <2>5. CASE CompletePairing(k)
    BY <2>5 DEF CompletePairing, CreateAgent, Arrives, KeysAgree, CodesKnown, Clashes, Orphans, Removed
  <2>6. CASE CrashInPairing(k)
    BY <2>6 DEF CrashInPairing, CreateAgent, Arrives, KeysAgree, CodesKnown, Dies, Clashes
  <2>7. CASE Welcome(k)
    BY <2>7 DEF Welcome, CreateDefaults, KeysAgree, CodesKnown
  <2> QED
    BY <1>3, <2>1, <2>2, <2>3, <2>4, <2>5, <2>6, <2>7 DEF Pair
<1>4. ASSUME NEW a \in Accounts,
           \/ Connect(a) \/ PauseAccount(a) \/ UnpauseAccount(a)
           \/ \E found \in {"connected", "error"} : Recheck(a, found)
           \/ Disconnect(a) \/ FinishDisconnect(a)
           \/ \E c \in Codes : SavePolicy(c, a)
      PROVE  NothingOutlives'
  <2>1. CASE Connect(a)
    BY <2>1 DEF Connect, AllPaired
  <2>2. CASE PauseAccount(a)
    BY <2>2 DEF PauseAccount
  <2>3. CASE UnpauseAccount(a)
    BY <2>3 DEF UnpauseAccount
  <2>4. ASSUME NEW found \in {"connected", "error"}, Recheck(a, found)
        PROVE  NothingOutlives'
    BY <2>4 DEF Recheck
  <2>5. CASE Disconnect(a)
    BY <2>5 DEF Disconnect
  <2>6. CASE FinishDisconnect(a)
    BY <2>6 DEF FinishDisconnect
  <2>7. ASSUME NEW c \in Codes, SavePolicy(c, a)
        PROVE  NothingOutlives'
    BY <2>7 DEF SavePolicy
  <2> QED
    BY <1>4, <2>1, <2>2, <2>3, <2>4, <2>5, <2>6, <2>7
<1>5. ASSUME NEW u \in Clients,
           \/ \E k \in Keys, c \in Codes : InitClient(u, k, c)
           \/ ClientIsPaired(u) \/ ClientGivesUp(u) \/ ClientDisconnects(u)
      PROVE  NothingOutlives'
  <2>1. ASSUME NEW k \in Keys, NEW c \in Codes, InitClient(u, k, c)
        PROVE  NothingOutlives'
    BY <2>1 DEF InitClient
  <2>2. CASE ClientIsPaired(u)
    BY <2>2 DEF ClientIsPaired
  <2>3. CASE ClientGivesUp(u)
    BY <2>3 DEF ClientGivesUp
  <2>4. CASE ClientDisconnects(u)
    BY <2>4 DEF ClientDisconnects
  <2> QED
    BY <1>5, <2>1, <2>2, <2>3, <2>4
<1>6. CASE Cleanup
  BY <1>6 DEF Cleanup
<1>7. CASE Tick
  BY <1>7 DEF Tick
<1>8. CASE Crash
  BY <1>8 DEF Crash, Dies
<1>9. CASE Start
  BY <1>9 DEF Start
<1>10. CASE UNCHANGED vars
  BY <1>10 DEF vars
<1> QED
  BY <1>1, <1>2, <1>3, <1>4, <1>5, <1>6, <1>7, <1>8, <1>9, <1>10 DEF Next
-----------------------------------------------------------------------------
\* The inductive invariant.
IInv ==
  /\ TypeOK
  /\ KeysAgree
  /\ ClientsFit
  /\ SubscriptionIsCurrent
  /\ DefaultsComplete
  /\ NothingOutlives

LEMMA InvInit == Init => IInv
BY TypeInit, KeysInit, ClientsInit, SubscriptionInit, DefaultsInit, OutlivesInit DEF IInv

LEMMA InvInductive == IInv /\ [Next]_vars => IInv'
<1> SUFFICES ASSUME IInv, [Next]_vars PROVE IInv'
  OBVIOUS
<1>1. TypeOK /\ KeysAgree /\ CodesKnown
  BY DEF IInv, KeysAgree
<1>2. TypeOK'
  BY <1>1, TypeInductive
<1>3. KeysAgree'
  BY <1>1, KeysInductive
<1>4. ClientsFit'
  BY <1>1, ClientsInductive DEF IInv
<1>5. SubscriptionIsCurrent'
  BY <1>1, SubscriptionInductive DEF IInv
<1>6. DefaultsComplete'
  BY <1>1, DefaultsInductive DEF IInv
<1>7. NothingOutlives'
  BY <1>1, OutlivesInductive DEF IInv
<1> QED
  BY <1>2, <1>3, <1>4, <1>5, <1>6, <1>7 DEF IInv

LEMMA Invariance == Spec => []IInv
BY InvInit, InvInductive, PTL DEF Spec

\* The types hold for every number of codes, keys, machines and accounts.
THEOREM AgentsTypeCorrect == Spec => []TypeOK
<1>1. IInv => TypeOK
  BY DEF IInv
<1> QED
  BY <1>1, Invariance, PTL

\* createPairing(), completePairing(), cancelPairing(), revokeAgent(), the
\* clean-up and the start leave the handler with the keys that getAgentKeys()
\* would find, whatever expires or crashes between them.
THEOREM DaemonHearsWhoItKnows == Spec => []SubscriptionIsCurrent
<1>1. IInv => SubscriptionIsCurrent
  BY DEF IInv
<1> QED
  BY <1>1, Invariance, PTL

\* What a machine is told about its pairing is what the tables say.
THEOREM PairingAnswersAreTrue == Spec => []AnswersAgree
<1>1. IInv => AnswersAgree
  BY DEF IInv, KeysAgree, AnswersAgree
<1> QED
  BY <1>1, Invariance, PTL

\* A machine with a saved configuration is an agent, and the only one with its
\* code: the key that its init() sent is in the row of the code, and two
\* machines would need the same key.
THEOREM PairedMachinesAreAgents == Spec => []ClientsAreKnown
<1>1. IInv => ClientsAreKnown
  <2> SUFFICES ASSUME IInv, NEW u \in Clients, config[u] # NoCode
               PROVE  /\ status[config[u]] # "none"
                      /\ identity[u] \in saved[u] => key[config[u]] = identity[u]
                      /\ \A v \in Clients : config[v] = config[u] => v = u
    BY DEF ClientsAreKnown
  <2>1. PICK k \in saved[u] : code[k] = config[u]
    BY DEF IInv, ClientsFit
  <2>2. k \in Keys /\ config[u] \in Codes
    BY <2>1 DEF IInv, TypeOK
  <2>3. key[config[u]] = k
    BY <2>1, <2>2 DEF IInv, ClientsFit, KeysAgree
  <2>4. status[config[u]] # "none"
    BY <2>2, <2>3, NullAssumption DEF IInv, KeysAgree
  <2>5. identity[u] \in saved[u] => key[config[u]] = identity[u]
    BY DEF IInv, ClientsFit, KeysAgree, TypeOK
  <2>6. ASSUME NEW v \in Clients, config[v] = config[u]
        PROVE  v = u
    <3>1. PICK l \in saved[v] : code[l] = config[u]
      BY <2>6 DEF IInv, ClientsFit
    <3>2. l \in Keys /\ key[config[u]] = l
      BY <3>1 DEF IInv, ClientsFit, KeysAgree, TypeOK
    <3> QED
      BY <2>1, <2>3, <3>1, <3>2 DEF IInv, ClientsFit
  <2> QED
    BY <2>4, <2>5, <2>6
<1> QED
  BY <1>1, Invariance, PTL

\* Pairing and connecting together leave no agent without a row for an account in
\* use, but for the pairs that `skipped` names: pauses, failed accounts, accounts
\* that a check has revived, and crashes.
THEOREM DefaultsAreComplete == Spec => []DefaultsComplete
<1>1. IInv => DefaultsComplete
  BY DEF IInv
<1> QED
  BY <1>1, Invariance, PTL

\* Revoking an agent and deleting an account leave no row; the rows that a revoked
\* agent or a removed account has were all written after the removal.
THEOREM RowsAreRemoved == Spec => []NothingOutlives
<1>1. IInv => NothingOutlives
  BY DEF IInv
<1> QED
  BY <1>1, Invariance, PTL
=============================================================================
