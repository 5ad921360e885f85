--------------------------- MODULE ConnectorMethods ---------------------------
(***************************************************************************)
(* How the tables of the connectors are written down: a connector declares *)
(* its methods, each with a name and the operation type that the policy    *)
(* goes by, and sends one HTTP request for each method.  A name is kept as *)
(* the sequence of its resource and its action; parameters and             *)
(* descriptions are left out.                                              *)
(***************************************************************************)

\* ConnectorMethod.
Declared(resource, actions, operation) ==
    {[resource |-> resource, action |-> a, operationType |-> operation] : a \in actions}

\* The methods of a resource: those that read, that write, that delete.
Ops(resource, reads, writes, deletes) ==
    Declared(resource, reads, "read") \cup Declared(resource, writes, "write")
      \cup Declared(resource, deletes, "delete")

\* The HTTP request that execute() sends for each of these methods.
Requests(verb, resource, actions) ==
    {[resource |-> resource, action |-> a, verb |-> verb] : a \in actions}

\* The method is declared under another name than the SDK has for it.
crudAction(opt) == IF opt = "del" THEN "delete" ELSE opt

\* crudMethods() of the Stripe connector: a method for each option that is given.
crudMethods(resource, opts) ==
    LET actions == {crudAction(opt) : opt \in opts}
    IN  Ops(resource, actions \cap {"retrieve", "list", "search"},
            actions \cap {"create", "update"}, actions \cap {"delete"})

\* Names are unique in a table of methods, or of requests.
UniqueNames(table) ==
    \A x, y \in table : x.resource = y.resource /\ x.action = y.action => x = y
===============================================================================
