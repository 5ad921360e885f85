------------------------------ MODULE PolicyRules ------------------------------
(***************************************************************************)
(* What a policy document says about a method: migratePolicy() of          *)
(* packages/proto/src/constants.ts and match() of apps/keepd/src/managers/ *)
(* policy-engine.ts.                                                       *)
(*                                                                         *)
(* A V1 document is a list of rules, a V2 document a tree of categories,   *)
(* groups and methods.  The routes accept and store both; the engine       *)
(* migrates a V1 document whenever it reads one.                           *)
(***************************************************************************)
EXTENDS Naturals, Sequences

CONSTANTS
  Accounts,        \* connected accounts, with their service
  Methods,         \* methods of the connectors
  OperationType,   \* ConnectorMethod.operationType
  MethodGroup      \* getMethodGroup(): the part of a method's name up to its dot

Operations == {"read", "write", "delete"}
Decisions  == {"allow", "ask", "deny"}

ASSUME MethodAssumption == OperationType \in [Methods -> Operations]

\* A rule without `methods` or `accounts` is one for all of them.
Rule == [operations : SUBSET Operations, methods : SUBSET Methods,
         accounts : SUBSET Accounts, action : Decisions]

IsPolicyV1(doc) == doc \in [version : {1}, default : Decisions, rules : Seq(Rule)]

\* `groups` and `methods` name only what the user has set.  Documents come with
\* the `default` that the user interface always sends.
Groups == {MethodGroup[m] : m \in Methods}

IsGroupPolicy(group) ==
  /\ DOMAIN group = {"action", "methods"}
  /\ group.action \in Decisions \cup {"custom"}
  /\ DOMAIN group.methods \subseteq Methods
  /\ \A m \in DOMAIN group.methods : group.methods[m] \in Decisions

IsCategoryPolicy(category) ==
  /\ DOMAIN category = {"action", "groups"}
  /\ category.action \in Decisions \cup {"custom"}
  /\ DOMAIN category.groups \subseteq Groups
  /\ \A g \in DOMAIN category.groups : IsGroupPolicy(category.groups[g])

IsPolicyV2(doc) ==
  /\ DOMAIN doc = {"version", "default", "categories"}
  /\ doc.version = 2
  /\ doc.default \in Decisions
  /\ DOMAIN doc.categories = Operations
  /\ \A op \in Operations : IsCategoryPolicy(doc.categories[op])

Plainly(action) == [action |-> action, groups |-> [g \in {} |-> {}]]

\* What no rule mentions stays as in the default policy.
DefaultAction(op) == IF op = "read" THEN "allow" ELSE "ask"

DEFAULT_POLICY_V2 ==
  [version |-> 2, default |-> "ask",
   categories |-> [op \in Operations |-> Plainly(DefaultAction(op))]]

Naming(rules, op) == {i \in DOMAIN rules : op \in rules[i].operations}

\* The loop of migratePolicy() assigns, so the last rule that names op wins;
\* the rule's `methods` and `accounts` are not looked at.
MigratedAction(rules, op) ==
  IF Naming(rules, op) = {} THEN DefaultAction(op)
  ELSE LET last == CHOOSE i \in Naming(rules, op) :
                     \A j \in Naming(rules, op) : j <= i
       IN  rules[last].action

migratePolicy(doc) ==
  IF doc.version = 2 THEN doc
  ELSE [version |-> 2, default |-> doc.default,
        categories |-> [op \in Operations |-> Plainly(MigratedAction(doc.rules, op))]]

\* match() below a group that the category has.
MatchGroup(group, m, default) ==
  IF group.action # "custom" THEN group.action
  ELSE IF m \in DOMAIN group.methods THEN group.methods[m] ELSE default

\* An engine that knows no groups yet.
MatchCategory(policy, m) == policy.categories[OperationType[m]].action

\* match() for the metadata of a method and an operation type: category, then
\* group, then method, then the default.
MatchAs(policy, operation, m) ==
  LET category == policy.categories[operation] IN
  IF category.action # "custom" THEN category.action
  ELSE IF MethodGroup[m] \in DOMAIN category.groups
         THEN MatchGroup(category.groups[MethodGroup[m]], m, policy.default)
         ELSE policy.default

\* The operation type is the one that the connector declares.
match(policy, m) == MatchAs(policy, OperationType[m], m)

-----------------------------------------------------------------------------
\* The meaning the documentation gives to a V1 document

Matching(rules, c, m) ==
  {i \in Naming(rules, OperationType[m]) :
     m \in rules[i].methods /\ c \in rules[i].accounts}

\* "Ordered list of rules (first match wins)" and "Fallback if no rule matches"
\* (docs/dev/07-permissions.md:55-56).
FirstMatch(doc, c, m) ==
  IF Matching(doc.rules, c, m) = {} THEN doc.default
  ELSE LET first == CHOOSE i \in Matching(doc.rules, c, m) :
                      \A j \in Matching(doc.rules, c, m) : i <= j
       IN  doc.rules[first].action
=============================================================================
