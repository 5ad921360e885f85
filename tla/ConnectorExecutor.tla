--------------------------- MODULE ConnectorExecutor ---------------------------
(***************************************************************************)
(* The registry of the connectors (packages/connectors/src/executor.ts).   *)
(* The connectors share nothing, so a behaviour is about the calls of one  *)
(* service: either an MCP connector, which has ensureReady() and serves    *)
(* several calls with one session, or one that is compiled in.             *)
(***************************************************************************)
EXTENDS McpConnector, ServiceCalls

CONSTANT McpService  \* a service with an MCP connector

VARIABLE connector   \* the service whose connector is looked at

executorVars == <<connector, vars, callVars>>

ExecutorTypeOK ==
    /\ connector \in Services \cup {McpService}
    /\ TypeOK
    /\ CallTypeOK

ExecutorInit ==
    /\ connector \in Services \cup {McpService}
    /\ Init
    /\ CallInit

ExecutorNext ==
    \/ connector = McpService /\ Next /\ UNCHANGED <<connector, callVars>>
    \/ connector # McpService /\ CallNext(connector) /\ UNCHANGED <<connector, vars>>

ExecutorSpec == ExecutorInit /\ [][ExecutorNext]_executorVars
===============================================================================
