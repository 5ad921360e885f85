--------------------------- MODULE PolicyEngineProofs ---------------------------
(***************************************************************************)
(* Proofs about PolicyEngine, for any agents, accounts, methods and        *)
(* documents and for a clock of any resolution.                            *)
(*                                                                         *)
(* Everything rests on the coherence of the cache (Coherent below): an     *)
(* entry exists only for a row that exists, and it is that row's document. *)
(* Two facts keep it: whoever changes a row that may have an entry drops   *)
(* the entry, and whoever does not drop it writes only missing rows.       *)
(***************************************************************************)
EXTENDS PolicyEngine, WellFoundedInduction, TLAPS

\* The inductive invariant: an entry of the cache is the migrated document of
\* its row.
Coherent ==
  \A k \in Keys :
    cached[k] # NoPolicy =>
      /\ stored[k] # NoDoc
      /\ cachedAt[k] = updatedAt[k]
      /\ cached[k] = migratePolicy(stored[k])

EngineInv == TypeOK /\ Coherent

\* The document in force for a key.
Document(k) == IF stored[k] = NoDoc THEN DEFAULT_POLICY_V2 ELSE stored[k]

-----------------------------------------------------------------------------
\* Documents

\* The natural numbers are well-ordered.
LEMMA LeastNatural ==
  ASSUME NEW D, D \subseteq Nat, D # {}
  PROVE  \E d \in D : \A e \in D : d <= e
<1> DEFINE Less == {p \in Nat \X Nat : p[1] < p[2]}
<1>1. IsWellFoundedOn(Less, Nat)
  BY NatLessThanWellFounded, Zenon DEF OpToRel
<1> HIDE DEF Less
<1>2. PICK d \in D : \A e \in D : <<e, d>> \notin Less
  BY <1>1, WFMin, Zenon
<1>3. ASSUME NEW e \in D
      PROVE  d <= e
  <2>1. <<e, d>> \notin Less
    BY <1>2
  <2>2. ~(e < d)
    BY <2>1 DEF Less
  <2> QED
    BY <2>2
<1> QED
  BY <1>3

\* A non-empty set of positions in a list has a last one.
LEMMA LastPosition ==
  ASSUME NEW n \in Nat, NEW N, N \subseteq 1 .. n, N # {}
  PROVE  \E i \in N : \A j \in N : j <= i
<1> DEFINE D == {n - i : i \in N}
<1>1. D \subseteq Nat
  OBVIOUS
<1>2. D # {}
  OBVIOUS
<1>3. PICK d \in D : \A e \in D : d <= e
  BY <1>1, <1>2, LeastNatural
<1>4. PICK i \in N : d = n - i
  OBVIOUS
<1>5. ASSUME NEW j \in N
      PROVE  j <= i
  <2>1. n - j \in D
    OBVIOUS
  <2>2. d <= n - j
    BY <1>3, <2>1
  <2> QED
    BY <1>4, <2>2
<1> QED
  BY <1>5

\* The action that the migration finds for an operation is a decision.
LEMMA MigratedActionDecides ==
  ASSUME NEW doc, IsPolicyV1(doc), NEW op \in Operations
  PROVE  MigratedAction(doc.rules, op) \in Decisions
<1> DEFINE N == Naming(doc.rules, op)
<1>1. /\ doc.rules \in Seq(Rule)
      /\ \A i \in 1 .. Len(doc.rules) : doc.rules[i] \in Rule
  BY DEF IsPolicyV1
<1>2. CASE N = {}
  BY <1>2 DEF MigratedAction, DefaultAction, Decisions
<1>3. CASE N # {}
  <2>1. N \subseteq 1 .. Len(doc.rules)
    BY <1>1 DEF Naming
  <2>2. \E i \in N : \A j \in N : j <= i
    BY <1>1, <1>3, <2>1, LastPosition
  <2> DEFINE newest == CHOOSE i \in N : \A j \in N : j <= i
  <2>3. newest \in N
    BY <2>2
  <2>4. newest \in 1 .. Len(doc.rules)
    BY <2>1, <2>3
  <2>5. doc.rules[newest].action \in Decisions
    <3> HIDE DEF newest
    <3> QED
      BY <1>1, <2>4 DEF Rule
  <2> QED
    BY <1>3, <2>5 DEF MigratedAction
<1> QED
  BY <1>2, <1>3

\* What the migration returns is a V2 document.
LEMMA MigrationIsV2 ==
  ASSUME NEW doc, IsPolicyV1(doc) \/ IsPolicyV2(doc)
  PROVE  IsPolicyV2(migratePolicy(doc))
<1>1. CASE IsPolicyV2(doc)
  BY <1>1 DEF IsPolicyV2, migratePolicy
<1>2. CASE IsPolicyV1(doc)
  <2>1. doc.version = 1 /\ doc.default \in Decisions
    BY <1>2 DEF IsPolicyV1
  <2>2. \A op \in Operations : IsCategoryPolicy(Plainly(MigratedAction(doc.rules, op)))
    BY <1>2, MigratedActionDecides DEF Plainly, IsCategoryPolicy
  <2> QED
    BY <2>1, <2>2 DEF IsPolicyV2, migratePolicy
<1> QED
  BY <1>1, <1>2

\* A group's answer is a decision.
LEMMA MatchGroupDecides ==
  ASSUME NEW group, IsGroupPolicy(group), NEW m \in Methods, NEW default \in Decisions
  PROVE  MatchGroup(group, m, default) \in Decisions
BY DEF IsGroupPolicy, MatchGroup

\* match() always finds one of the three decisions.
LEMMA MatchDecides ==
  ASSUME NEW policy, IsPolicyV2(policy), NEW m \in Methods
  PROVE  match(policy, m) \in Decisions
<1> DEFINE category == policy.categories[OperationType[m]]
<1>1. IsCategoryPolicy(category) /\ policy.default \in Decisions
  BY MethodAssumption DEF IsPolicyV2
<1>2. CASE category.action # "custom"
  BY <1>1, <1>2 DEF match, MatchAs, IsCategoryPolicy
<1>3. CASE category.action = "custom" /\ MethodGroup[m] \in DOMAIN category.groups
  <2>1. IsGroupPolicy(category.groups[MethodGroup[m]])
    BY <1>1, <1>3 DEF IsCategoryPolicy
  <2> QED
    BY <1>1, <1>3, <2>1, MatchGroupDecides DEF match, MatchAs
<1>4. CASE category.action = "custom" /\ MethodGroup[m] \notin DOMAIN category.groups
  BY <1>1, <1>4 DEF match, MatchAs
<1> QED
  BY <1>2, <1>3, <1>4

\* The default document needs no migration.
LEMMA DefaultIsV2 == migratePolicy(DEFAULT_POLICY_V2) = DEFAULT_POLICY_V2
  BY DEF migratePolicy, DEFAULT_POLICY_V2

\* A document that is stored, migrated, is one that the cache may hold.
LEMMA StoredIsCacheable ==
  ASSUME NEW d \in Docs
  PROVE  /\ migratePolicy(d) \in {migratePolicy(e) : e \in Docs}
         /\ migratePolicy(d) # NoPolicy
         /\ IsPolicyV2(migratePolicy(d))
  BY DocAssumption, CacheAssumption, MigrationIsV2

-----------------------------------------------------------------------------
\* The invariant

\* Types are kept by the writers: Upsert and Forget produce table columns and
\* cache entries.
LEMMA UpsertTypes ==
  ASSUME TypeOK, NEW K \in SUBSET Keys, NEW D \in [K -> Docs], Upsert(D)
  PROVE  /\ stored' \in [Keys -> Docs \cup {NoDoc}]
         /\ updatedAt' \in [Keys -> Nat]
<1>1. FloorSecond(now) \in Nat
  BY ClockAssumption DEF TypeOK, FloorSecond
<1> QED
  BY <1>1 DEF TypeOK, Upsert

\* A cache that forgets is still a cache.
LEMMA ForgetTypes ==
  ASSUME TypeOK, NEW K \in SUBSET Keys, Forget(K)
  PROVE  /\ cached' \in [Keys -> {migratePolicy(d) : d \in Docs} \cup {NoPolicy}]
         /\ cachedAt' \in [Keys -> Nat]
  BY DEF TypeOK, Forget

\* A document that is written over keys whose entries are dropped leaves the
\* cache coherent; this is savePolicy() and the start-up.
LEMMA WriteAndForget ==
  ASSUME EngineInv, NEW K \in SUBSET Keys, NEW L \in SUBSET Keys, NEW D \in [K -> Docs],
         K \subseteq L, Upsert(D), Forget(L)
  PROVE  Coherent'
<1> SUFFICES ASSUME NEW k \in Keys, cached'[k] # NoPolicy
             PROVE  /\ stored'[k] # NoDoc
                    /\ cachedAt'[k] = updatedAt'[k]
                    /\ cached'[k] = migratePolicy(stored'[k])
  BY DEF Coherent
<1>1. k \notin L /\ cached'[k] = cached[k] /\ cachedAt'[k] = cachedAt[k]
  BY DEF EngineInv, TypeOK, Forget
<1>2. stored'[k] = stored[k] /\ updatedAt'[k] = updatedAt[k]
  BY <1>1 DEF Upsert
<1> QED
  BY <1>1, <1>2 DEF EngineInv, Coherent

\* What evaluate() works with, from the cache or from the row, is the migrated
\* document of the row.
LEMMA EvaluateReadsTheRow ==
  ASSUME EngineInv, NEW k \in Keys, NEW m \in Methods, Evaluate(k, m)
  PROVE  last' = [key |-> k, method |-> m,
                  action |-> match(migratePolicy(Document(k)), m)]
<1>1. CASE stored[k] = NoDoc
  BY <1>1, DefaultIsV2 DEF Evaluate, Document
<1>2. CASE stored[k] # NoDoc /\ Hit(k)
  BY <1>2 DEF Evaluate, Document, EngineInv, Coherent, Hit
<1>3. CASE stored[k] # NoDoc /\ ~Hit(k)
  BY <1>3 DEF Evaluate, Document
<1> QED
  BY <1>1, <1>2, <1>3

\* evaluate() keeps the invariant: what it enters is the row it has just read.
LEMMA EvaluateKeepsInv ==
  ASSUME EngineInv, NEW k \in Keys, NEW m \in Methods, Evaluate(k, m)
  PROVE  EngineInv'
<1> DEFINE document == Document(k)
<1>1. document \in Docs /\ IsPolicyV2(migratePolicy(document))
  BY StoredIsCacheable, DocAssumption DEF EngineInv, TypeOK, Document
<1>2. last' \in [key : Keys, method : Methods, action : Decisions]
  <2>1. match(migratePolicy(document), m) \in Decisions
    BY <1>1, MatchDecides
  <2> HIDE DEF document
  <2>2. last' = [key |-> k, method |-> m, action |-> match(migratePolicy(document), m)]
    BY EvaluateReadsTheRow DEF document
  <2> QED
    BY <2>1, <2>2
<1>3. CASE stored[k] = NoDoc \/ Hit(k)
  BY <1>2, <1>3 DEF Evaluate, EngineInv, TypeOK, Coherent, rows, cache
<1>4. CASE ~(stored[k] = NoDoc \/ Hit(k))
  <2>1. /\ cached' = [cached EXCEPT ![k] = migratePolicy(stored[k])]
        /\ cachedAt' = [cachedAt EXCEPT ![k] = updatedAt[k]]
        /\ UNCHANGED <<now, stored, updatedAt>>
    BY <1>4 DEF Evaluate, rows
  <2>2. stored[k] \in Docs
    BY <1>4 DEF EngineInv, TypeOK
  <2>3. TypeOK'
    BY <1>2, <2>1, <2>2, StoredIsCacheable DEF EngineInv, TypeOK
  <2>4. Coherent'
    BY <1>4, <2>1 DEF EngineInv, TypeOK, Coherent
  <2> QED
    BY <2>3, <2>4 DEF EngineInv
<1> QED
  BY <1>3, <1>4

\* Every step keeps the invariant.
LEMMA StepKeepsInv ==
  ASSUME EngineInv, [Next]_vars
  PROVE  EngineInv'
<1> USE DEF rows, cache
<1>1. ASSUME NEW k \in Keys, NEW m \in Methods, Evaluate(k, m)
      PROVE  EngineInv'
  BY <1>1, EvaluateKeepsInv
<1>2. ASSUME NEW k \in Keys, NEW d \in Docs, SavePolicy(k, d)
      PROVE  EngineInv'
  <2> DEFINE D == [key \in {k} |-> d]
  <2> D \in [{k} -> Docs] /\ Upsert(D) /\ Forget({k}) /\ UNCHANGED <<now, last>>
    BY <1>2 DEF SavePolicy
  <2> HIDE DEF D
  <2>1. TypeOK'
    BY UpsertTypes, ForgetTypes DEF EngineInv, TypeOK
  <2>2. Coherent'
    BY WriteAndForget
  <2> QED
    BY <2>1, <2>2 DEF EngineInv
<1>3. ASSUME NEW K \in SUBSET Keys, CreateDefaults(K)
      PROVE  EngineInv'
  <2> DEFINE M == {j \in K : stored[j] = NoDoc}
             D == [k \in M |-> DEFAULT_POLICY_V2]
  <2>1. TypeOK'
    <3>1. M \in SUBSET Keys /\ D \in [M -> Docs]
      BY DocAssumption
    <3>2. Upsert(D)
      BY <1>3 DEF CreateDefaults
    <3> HIDE DEF M, D
    <3> QED
      BY <1>3, <3>1, <3>2, UpsertTypes DEF CreateDefaults, EngineInv, TypeOK
  <2>2. Coherent'
    BY <1>3 DEF CreateDefaults, Upsert, EngineInv, TypeOK, Coherent
  <2> QED
    BY <2>1, <2>2 DEF EngineInv
<1>4. ASSUME NEW K \in SUBSET Keys, RemoveRows(K)
      PROVE  EngineInv'
  <2>1. TypeOK'
    BY <1>4, ForgetTypes DEF RemoveRows, EngineInv, TypeOK
  <2>2. Coherent'
    BY <1>4 DEF RemoveRows, Forget, EngineInv, TypeOK, Coherent
  <2> QED
    BY <2>1, <2>2 DEF EngineInv
<1>5. CASE Restart
  <2>1. PICK K \in SUBSET Keys : \E D \in [K -> Docs] : Upsert(D)
    BY <1>5 DEF Restart
  <2>2. PICK D \in [K -> Docs] : Upsert(D)
    BY <2>1
  <2>3. TypeOK'
    BY <1>5, <2>2, UpsertTypes, ForgetTypes DEF Restart, EngineInv, TypeOK
  <2>4. Coherent'
    BY <1>5, <2>2, WriteAndForget DEF Restart
  <2> QED
    BY <2>3, <2>4 DEF EngineInv
<1>6. CASE Tick
  BY <1>6 DEF Tick, EngineInv, TypeOK, Coherent
<1>7. CASE UNCHANGED vars
  BY <1>7 DEF vars, EngineInv, TypeOK, Coherent
<1>8. /\ \A a \in Agents, C \in SUBSET Accounts : {a} \X C \in SUBSET Keys
      /\ \A A \in SUBSET Agents, c \in Accounts : A \X {c} \in SUBSET Keys
      /\ \A a \in Agents : {a} \X Accounts \in SUBSET Keys
      /\ \A c \in Accounts : Agents \X {c} \in SUBSET Keys
  BY DEF Keys
<1> QED
  BY <1>1, <1>2, <1>3, <1>4, <1>5, <1>6, <1>7, <1>8 DEF Next

\* Type correctness and coherence of the cache hold of every reachable state.
THEOREM CacheInvariant == Spec => []EngineInv
<1>1. Init => EngineInv
  BY DEF Init, EngineInv, TypeOK, Coherent
<1>2. EngineInv /\ [Next]_vars => EngineInv'
  BY StepKeepsInv
<1> QED
  BY <1>1, <1>2, PTL DEF Spec

\* Type correctness of the engine; in it, that a decision is always one of
\* "allow", "ask" and "deny", whatever tree was stored.
THEOREM EngineTypeCorrect == Spec => []TypeOK
<1>1. EngineInv => TypeOK
  BY DEF EngineInv
<1> QED
  BY <1>1, CacheInvariant, PTL

-----------------------------------------------------------------------------
\* Refinement of PolicyStore

\* The instance has the same rules.
LEMMA SameRules ==
  /\ Store!Keys = Keys
  /\ Store!DEFAULT_POLICY_V2 = DEFAULT_POLICY_V2
  /\ \A d, m : Store!match(Store!migratePolicy(d), m) = match(migratePolicy(d), m)
<1>1. Store!Keys = Keys
  BY DEF Keys, Store!Keys
<1>2. Store!DEFAULT_POLICY_V2 = DEFAULT_POLICY_V2
  BY DEF Store!DEFAULT_POLICY_V2, DEFAULT_POLICY_V2, Store!Plainly, Plainly,
         Store!DefaultAction, DefaultAction, Store!Operations, Operations
<1>3. \A r, op : Store!MigratedAction(r, op) = MigratedAction(r, op)
  BY DEF Store!MigratedAction, MigratedAction, Store!Naming, Naming,
         Store!DefaultAction, DefaultAction
<1>4. \A d : Store!migratePolicy(d) = migratePolicy(d)
  BY <1>3 DEF Store!migratePolicy, migratePolicy, Store!Plainly, Plainly,
              Store!Operations, Operations
<1>5. \A p, m : Store!match(p, m) = match(p, m)
  BY DEF Store!match, match, Store!MatchAs, MatchAs, Store!MatchGroup, MatchGroup
<1> QED
  BY <1>1, <1>2, <1>4, <1>5

\* Every step of the engine is a step of the store without cache and clock.
LEMMA StepIsStoreStep ==
  ASSUME EngineInv, [Next]_vars
  PROVE  [Store!Next]_(Store!svars)
<1> USE DEF rows, cache
<1>1. ASSUME NEW k \in Keys, NEW m \in Methods, Evaluate(k, m)
      PROVE  Store!Decide
  <2>1. last' = [key |-> k, method |-> m,
                 action |-> Store!match(Store!migratePolicy(Store!Document(k)), m)]
    BY <1>1, EvaluateReadsTheRow, SameRules DEF Document, Store!Document
  <2>2. UNCHANGED stored
    BY <1>1 DEF Evaluate
  <2> QED
    BY <2>1, <2>2, SameRules DEF Store!Decide
<1>2. ASSUME NEW K \in SUBSET Keys, NEW D \in [K -> Docs], Upsert(D), UNCHANGED last
      PROVE  Store!Put
  BY <1>2, SameRules DEF Upsert, Store!Put
<1>3. ASSUME NEW k \in Keys, NEW d \in Docs, SavePolicy(k, d)
      PROVE  Store!Put
  <2> DEFINE D == [key \in {k} |-> d]
  <2>1. {k} \in SUBSET Keys /\ D \in [{k} -> Docs]
    OBVIOUS
  <2>2. Upsert(D) /\ UNCHANGED last
    BY <1>3 DEF SavePolicy
  <2> HIDE DEF D
  <2> QED
    BY <1>2, <2>1, <2>2
<1>4. ASSUME NEW K \in SUBSET Keys, CreateDefaults(K)
      PROVE  Store!Put
  <2> DEFINE M == {j \in K : stored[j] = NoDoc}
             D == [k \in M |-> DEFAULT_POLICY_V2]
  <2>1. M \in SUBSET Keys /\ D \in [M -> Docs]
    BY DocAssumption
  <2>2. Upsert(D) /\ UNCHANGED last
    BY <1>4 DEF CreateDefaults
  <2> HIDE DEF M, D
  <2> QED
    BY <1>2, <2>1, <2>2
<1>5. ASSUME NEW K \in SUBSET Keys, RemoveRows(K)
      PROVE  Store!Remove
  BY <1>5, SameRules DEF RemoveRows, Store!Remove
<1>6. CASE Restart
  <2>1. PICK K \in SUBSET Keys : \E D \in [K -> Docs] : Upsert(D)
    BY <1>6 DEF Restart
  <2>2. PICK D \in [K -> Docs] : Upsert(D)
    BY <2>1
  <2> QED
    BY <1>2, <1>6, <2>2 DEF Restart, Store!Next
<1>7. CASE Tick
  BY <1>7 DEF Tick, Store!svars
<1>8. CASE UNCHANGED vars
  BY <1>8 DEF vars, Store!svars
<1>9. /\ \A a \in Agents, C \in SUBSET Accounts : {a} \X C \in SUBSET Keys
      /\ \A A \in SUBSET Agents, c \in Accounts : A \X {c} \in SUBSET Keys
      /\ \A a \in Agents : {a} \X Accounts \in SUBSET Keys
      /\ \A c \in Accounts : Agents \X {c} \in SUBSET Keys
  BY DEF Keys
<1> QED
  BY <1>1, <1>3, <1>4, <1>5, <1>6, <1>7, <1>8, <1>9 DEF Next, Store!Next

\* The cache of policy-engine.ts is invisible: the engine implements PolicyStore,
\* in which every decision follows the document stored at that moment.
THEOREM EngineImplementsStore == Spec => DecidesByStoredDocument
<1>1. Init => Store!Init
  BY SameRules DEF Init, Store!Init
<1>2. EngineInv /\ [Next]_vars => [Store!Next]_(Store!svars)
  BY StepIsStoreStep
<1> QED
  BY <1>1, <1>2, CacheInvariant, PTL DEF Spec, DecidesByStoredDocument, Store!Spec

-----------------------------------------------------------------------------
\* Migration

\* The migrated document answers with the action found for the operation.
LEMMA MigratedAnswer ==
  ASSUME NEW doc, IsPolicyV1(doc), NEW m \in Methods
  PROVE  match(migratePolicy(doc), m) = MigratedAction(doc.rules, OperationType[m])
<1> DEFINE op == OperationType[m]
<1>1. op \in Operations
  BY MethodAssumption
<1>2. migratePolicy(doc).categories[op].action = MigratedAction(doc.rules, op)
  BY <1>1 DEF migratePolicy, Plainly, IsPolicyV1
<1>3. MigratedAction(doc.rules, op) # "custom"
  BY <1>1, MigratedActionDecides DEF Decisions
<1> QED
  BY <1>2, <1>3 DEF match, MatchAs

\* What becomes of every V1 document, where the finding about
\* MigrationKeepsMeaning has its reasons (constants.ts:81-94).  Without a rule for
\* the operation it is answered by DEFAULT_CATEGORY_ACTIONS, whatever default the
\* document has, which the documentation wants.  Otherwise it is answered by the
\* last rule for the operation, even if that rule is for other methods or other
\* accounts.  The documented answer is kept when every rule for the operation is
\* for this method and account and they all agree.
THEOREM MigrationMeaning ==
  ASSUME NEW doc, IsPolicyV1(doc), NEW c \in Accounts, NEW m \in Methods,
         NEW named, named = Naming(doc.rules, OperationType[m]),
         NEW answer, answer = match(migratePolicy(doc), m)
  PROVE  /\ named = {} => /\ answer = DefaultAction(OperationType[m])
                         /\ FirstMatch(doc, c, m) = doc.default
         /\ \A i \in named :
              (\A j \in named : j <= i) => answer = doc.rules[i].action
         /\ /\ named # {}
            /\ named = Matching(doc.rules, c, m)
            /\ \A i, j \in named : doc.rules[i].action = doc.rules[j].action
            => answer = FirstMatch(doc, c, m)
<1>1. answer = MigratedAction(doc.rules, OperationType[m])
  BY MigratedAnswer
<1>2. /\ doc.rules \in Seq(Rule)
      /\ named \subseteq 1 .. Len(doc.rules)
  BY DEF IsPolicyV1, Naming
<1>3. ASSUME named = {}
      PROVE  answer = DefaultAction(OperationType[m]) /\ FirstMatch(doc, c, m) = doc.default
  BY <1>1, <1>3 DEF MigratedAction, FirstMatch, Matching
<1>4. ASSUME NEW i \in named, \A j \in named : j <= i
      PROVE  answer = doc.rules[i].action
  <2> DEFINE latest == CHOOSE k \in named : \A j \in named : j <= k
  <2>1. latest \in named /\ \A j \in named : j <= latest
    BY <1>4
  <2>2. latest = i
    <3> HIDE DEF latest
    <3> QED
      BY <1>2, <1>4, <2>1
  <2>3. answer = doc.rules[latest].action
    BY <1>1, <1>4 DEF MigratedAction
  <2> QED
    BY <2>2, <2>3
<1>5. ASSUME named # {},
             named = Matching(doc.rules, c, m),
             \A i, j \in named : doc.rules[i].action = doc.rules[j].action
      PROVE  answer = FirstMatch(doc, c, m)
  <2>1. PICK i \in named : \A j \in named : j <= i
    BY <1>2, <1>5, LastPosition
  <2>2. answer = doc.rules[i].action
    BY <1>4, <2>1
  <2>3. \E k \in named : \A j \in named : k <= j
    BY <1>2, <1>5, LeastNatural
  <2> DEFINE earliest == CHOOSE k \in named : \A j \in named : k <= j
  <2>4. earliest \in named
    BY <2>3
  <2>5. FirstMatch(doc, c, m) = doc.rules[earliest].action
    BY <1>5 DEF FirstMatch
  <2> HIDE DEF earliest
  <2> QED
    BY <1>5, <2>2, <2>4, <2>5
<1> QED
  BY <1>3, <1>4, <1>5
=============================================================================
