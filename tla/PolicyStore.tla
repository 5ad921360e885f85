------------------------------ MODULE PolicyStore ------------------------------
(***************************************************************************)
(* What the policy engine promises: a decision follows the document that   *)
(* is stored for agent and account when it is made.  There is no cache     *)
(* and no clock.  PolicyEngine implements it.                              *)
(***************************************************************************)
EXTENDS PolicyRules

CONSTANTS Agents, Docs, NoDoc, NoDecision

VARIABLES
  stored,   \* the document of an agent and an account, or NoDoc
  last      \* the last decision

svars == <<stored, last>>

Keys == Agents \X Accounts

Document(k) == IF stored[k] = NoDoc THEN DEFAULT_POLICY_V2 ELSE stored[k]

Init ==
  /\ stored = [k \in Keys |-> NoDoc]
  /\ last = NoDecision

Put ==
  /\ \E K \in SUBSET Keys : \E D \in [K -> Docs] :
       stored' = [k \in Keys |-> IF k \in K THEN D[k] ELSE stored[k]]
  /\ UNCHANGED last

Remove ==
  /\ \E K \in SUBSET Keys :
       stored' = [k \in Keys |-> IF k \in K THEN NoDoc ELSE stored[k]]
  /\ UNCHANGED last

Decide ==
  /\ \E k \in Keys, m \in Methods :
       last' = [key |-> k, method |-> m,
                action |-> match(migratePolicy(Document(k)), m)]
  /\ UNCHANGED stored

Next == Put \/ Remove \/ Decide

Spec == Init /\ [][Next]_svars
=============================================================================
