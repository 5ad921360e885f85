------------------------------ MODULE PolicyEngine -----------------------------
(***************************************************************************)
(* The policy engine of keepd: apps/keepd/src/managers/policy-engine.ts    *)
(* over the policies table (packages/db/src/stores/policy-store.ts), with  *)
(* the callers that write it: routes/policies.ts, routes/agents.ts,        *)
(* routes/connections.ts, pairing in rpc-router.ts and the start-up of     *)
(* server.ts.                                                              *)
(*                                                                         *)
(* evaluate() keeps the migrated document in a cache and uses it as long   *)
(* as the row's updated_at is the one it was read with.  updated_at counts *)
(* whole seconds, so it cannot tell two writes of one second apart: that   *)
(* the cache is right rests on every writer that changes a row dropping    *)
(* the entry too.                                                          *)
(*                                                                         *)
(* All of it is synchronous, so an operation is one action.                *)
(***************************************************************************)
EXTENDS PolicyRules

CONSTANTS
  Agents,      \* agents.id
  Docs,        \* documents the routes have validated
  NoDoc,       \* no row
  NoPolicy,    \* no entry in the cache
  NoDecision,  \* nothing was evaluated yet
  Second,      \* ticks per second of unixepoch()
  MaxTime      \* bound: the clock stops here

ASSUME DocAssumption ==
  /\ \A d \in Docs : IsPolicyV1(d) \/ IsPolicyV2(d)
  /\ DEFAULT_POLICY_V2 \in Docs
  /\ NoDoc \notin Docs

ASSUME CacheAssumption == NoPolicy \notin {migratePolicy(d) : d \in Docs}

ASSUME ClockAssumption == Second \in Nat \ {0} /\ MaxTime \in Nat

VARIABLES
  now,         \* the clock, in ticks
  stored,      \* policies.policy
  updatedAt,   \* policies.updated_at
  cached,      \* the engine's cache: the migrated document ...
  cachedAt,    \* ... and the updated_at it was read with
  last         \* history: what evaluate() returned last

rows  == <<stored, updatedAt>>
cache == <<cached, cachedAt>>
vars  == <<now, rows, cache, last>>

Keys == Agents \X Accounts

TypeOK ==
  /\ now \in Nat
  /\ stored \in [Keys -> Docs \cup {NoDoc}]
  /\ updatedAt \in [Keys -> Nat]
  /\ cached \in [Keys -> {migratePolicy(d) : d \in Docs} \cup {NoPolicy}]
  /\ cachedAt \in [Keys -> Nat]
  /\ last \in [key : Keys, method : Methods, action : Decisions] \cup {NoDecision}

Init ==
  /\ now = 0
  /\ stored = [k \in Keys |-> NoDoc]
  /\ updatedAt = [k \in Keys |-> 0]
  /\ cached = [k \in Keys |-> NoPolicy]
  /\ cachedAt = [k \in Keys |-> 0]
  /\ last = NoDecision

-----------------------------------------------------------------------------
\* Helpers

FloorSecond(t) == t - (t % Second)

\* PolicyStore.upsert() of the document D[k] for each key of D
Upsert(D) ==
  /\ stored' = [k \in Keys |-> IF k \in DOMAIN D THEN D[k] ELSE stored[k]]
  /\ updatedAt' = [k \in Keys |-> IF k \in DOMAIN D THEN FloorSecond(now)
                                                   ELSE updatedAt[k]]

\* A writer that relies on updated_at alone.
ForgetOlder(K) ==
  /\ cached' = [k \in Keys |-> IF k \in K /\ cachedAt[k] # FloorSecond(now)
                               THEN NoPolicy ELSE cached[k]]
  /\ UNCHANGED cachedAt

\* cache.delete() for each key of K
Forget(K) ==
  /\ cached' = [k \in Keys |-> IF k \in K THEN NoPolicy ELSE cached[k]]
  /\ UNCHANGED cachedAt

Hit(k) == cached[k] # NoPolicy /\ cachedAt[k] = updatedAt[k]

-----------------------------------------------------------------------------
\* Operations

\* evaluate(): the default policy without a row, the cache, or the row.
Evaluate(k, m) ==
  LET policy == IF stored[k] = NoDoc THEN DEFAULT_POLICY_V2
                ELSE IF Hit(k) THEN cached[k] ELSE migratePolicy(stored[k])
  IN
  /\ last' = [key |-> k, method |-> m, action |-> match(policy, m)]
  /\ IF stored[k] = NoDoc \/ Hit(k)
       THEN UNCHANGED cache
       ELSE /\ cached' = [cached EXCEPT ![k] = policy]
            /\ cachedAt' = [cachedAt EXCEPT ![k] = updatedAt[k]]
  /\ UNCHANGED <<now, rows>>

\* savePolicy()
SavePolicy(k, d) ==
  /\ Upsert([key \in {k} |-> d])
  /\ Forget({k})
  /\ UNCHANGED <<now, last>>

\* createDefaultsForAgent() and createDefaultsForConnection(): rows only where
\* there are none, and no word to the cache.
CreateDefaults(K) ==
  /\ Upsert([k \in {j \in K : stored[j] = NoDoc} |-> DEFAULT_POLICY_V2])
  /\ UNCHANGED <<now, cache, last>>

\* A delete that leaves the cache to updated_at.
RemoveRowsOnly(K) ==
  /\ stored' = [k \in Keys |-> IF k \in K THEN NoDoc ELSE stored[k]]
  /\ UNCHANGED <<now, updatedAt, cache, last>>

\* deleteByAgent() and deleteByConnection()
RemoveRows(K) ==
  /\ stored' = [k \in Keys |-> IF k \in K THEN NoDoc ELSE stored[k]]
  /\ Forget(K)
  /\ UNCHANGED <<now, updatedAt, last>>

\* A new process: the cache is empty, and the policy files of an older version
\* are saved for their agents and the accounts that are connected.
Restart ==
  /\ \E K \in SUBSET Keys : \E D \in [K -> Docs] : Upsert(D)
  /\ Forget(Keys)
  /\ UNCHANGED <<now, last>>

Tick ==
  /\ now < MaxTime
  /\ now' = now + 1
  /\ UNCHANGED <<rows, cache, last>>

Next ==
  \/ \E k \in Keys, m \in Methods : Evaluate(k, m)
  \/ \E k \in Keys, d \in Docs : SavePolicy(k, d)
  \/ \E a \in Agents, C \in SUBSET Accounts : CreateDefaults({a} \X C)
  \/ \E A \in SUBSET Agents, c \in Accounts : CreateDefaults(A \X {c})
  \/ \E a \in Agents : RemoveRows({a} \X Accounts)
  \/ \E c \in Accounts : RemoveRows(Agents \X {c})
  \/ Restart
  \/ Tick

Spec == Init /\ [][Next]_vars
-----------------------------------------------------------------------------
\* Properties

\* The cache cannot be seen: every decision follows the document stored for
\* agent and account at that moment, also when it was written, deleted or
\* created anew within the second of the write before.
Store == INSTANCE PolicyStore

DecidesByStoredDocument == Store!Spec

\* A V1 document that is in force means what the documentation says: the first
\* rule that matches operation, method and account, else the default
\* (docs/dev/07-permissions.md:55-60).  It does not: migratePolicy()
\* (packages/proto/src/constants.ts:81-94) lets the last rule that names the
\* operation win for all methods and accounts, and never consults the default.
MigrationKeepsMeaning ==
  \A k \in Keys :
    stored[k] # NoDoc /\ stored[k].version = 1 =>
      \A m \in Methods : match(migratePolicy(stored[k]), m) = FirstMatch(stored[k], k[2], m)
=============================================================================
