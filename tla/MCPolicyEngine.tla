---------------------------- MODULE MCPolicyEngine ----------------------------
(***************************************************************************)
(* A small instance of PolicyEngine: two agents, one account, four methods *)
(* in two groups, and documents that use every level of the tree.          *)
(***************************************************************************)
EXTENDS PolicyEngine, TLC

CONSTANTS list, send, trash, search, work

MCMethods == {list, send, trash, search}
MCOperationType ==
  list :> "read" @@ search :> "read" @@ send :> "write" @@ trash :> "delete"
MCMethodGroup ==
  list :> "messages" @@ send :> "messages" @@ trash :> "messages" @@ search :> "search"

\* Rules for all methods and accounts.
RuleFor(ops, action) ==
  [operations |-> ops, methods |-> MCMethods, accounts |-> {work}, action |-> action]

V1(default, rules) == [version |-> 1, default |-> default, rules |-> rules]

\* DEFAULT_POLICY as it was saved before V2.
OldDefault ==
  V1("ask", << RuleFor({"read"}, "allow"), RuleFor({"write", "delete"}, "ask") >>)

\* "Read-only agent (deny all writes)" of docs/dev/07-permissions.md:92-103.
ReadOnly == V1("deny", << RuleFor({"read"}, "allow") >>)

\* A rule for one method, overruled for reads by a later one.
OneMethod ==
  V1("ask", << [RuleFor({"read", "write", "delete"}, "allow") EXCEPT !.methods = {send}],
               RuleFor({"read"}, "deny") >>)

\* A V2 document with a group, a method and a gap at each level.
Custom ==
  [version |-> 2, default |-> "deny",
   categories |->
     [op \in Operations |->
        CASE op = "read" ->
               [action |-> "custom",
                groups |-> "messages" :> [action |-> "custom", methods |-> list :> "ask"]]
          [] op = "write" ->
               [action |-> "custom",
                groups |-> "messages" :> [action |-> "custom", methods |-> list :> "allow"]]
          [] op = "delete" ->
               [action |-> "custom",
                groups |-> "messages" :> [action |-> "allow", methods |-> [m \in {} |-> {}]]]]]

MCDocs == {DEFAULT_POLICY_V2, OldDefault, ReadOnly, OneMethod, Custom}
=============================================================================
