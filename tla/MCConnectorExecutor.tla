-------------------------- MODULE MCConnectorExecutor --------------------------
(***************************************************************************)
(* Every declared method of the nine connectors that are compiled in, with *)
(* documents for each decision on each operation, and a small instance of  *)
(* an MCP connector.                                                       *)
(***************************************************************************)
EXTENDS ConnectorExecutor, TLC

Plain(reads, writes, deletes) ==
    [version |-> 2, default |-> "ask",
     categories |-> [read |-> Policy!Plainly(reads), write |-> Policy!Plainly(writes),
                     delete |-> Policy!Plainly(deletes)]]

\* Everything in one group, and one method of another, is an exception.
WithGroups ==
    [Plain("allow", "deny", "deny") EXCEPT
       !.categories["write"] =
          [action |-> "custom", groups |-> "messages" :> [action |-> "allow", methods |-> <<>>]],
       !.categories["delete"] =
          [action |-> "custom",
           groups |-> "cards" :>
             [action |-> "custom",
              methods |-> [m \in {x \in Methods : x.service = "trello" /\ x.action = "removeLabel"} |-> "allow"]]]]

\* A document from before V2.
Old ==
    [version |-> 1, default |-> "deny",
     rules |-> << [operations |-> {"write"}, methods |-> Methods, accounts |-> {"account"},
                   action |-> "allow"],
                  [operations |-> {"delete"}, methods |-> Methods, accounts |-> {"account"},
                   action |-> "deny"] >>]

MCPolicies ==
    {Policy!DEFAULT_POLICY_V2, Plain("allow", "deny", "deny"), Plain("allow", "allow", "deny"),
     Plain("deny", "deny", "allow"), Plain("allow", "allow", "ask"), WithGroups, Old}
===============================================================================
