----------------------------- MODULE ToolContract -----------------------------
(***************************************************************************)
(* What the connector of an MCP service promises to the calls that share   *)
(* it, whatever sessions, tokens and repetitions it needs for that: a tool *)
(* runs only for a call that was let through, at most once, and under the  *)
(* account of a call that overlapped it.  McpConnector implements this     *)
(* contract.                                                               *)
(***************************************************************************)
CONSTANTS
    Calls,      \* the uses of the connector: tool calls, help requests, the start-up
    Accounts,   \* the connected accounts of the service
    None        \* "no account"

VARIABLES
    phase,      \* phase[p]: how far use p has come
    account,    \* account[p]: the account p was made for
    met,        \* met[p]: the uses that were open at some time since p began to run
    as          \* as[p]: the account under which the tool of p ran, None before that

vars == <<phase, account, met, as>>

Phases == {"new", "open", "running", "done", "failed"}

Open == {q \in Calls : phase[q] \in {"open", "running"}}

TypeOK ==
    /\ phase \in [Calls -> Phases]
    /\ account \in [Calls -> Accounts \cup {None}]
    /\ met \in [Calls -> SUBSET Calls]
    /\ as \in [Calls -> Accounts \cup {None}]

Init ==
    /\ phase = [p \in Calls |-> "new"]
    /\ account = [p \in Calls |-> None]
    /\ met = [p \in Calls |-> {}]
    /\ as = [p \in Calls |-> None]

\* A use of the connector arrives, and may be refused at once; the calls that
\* are running meet it.
Announce(p, a) ==
    /\ phase[p] = "new"
    /\ \E e \in {"open", "failed"} : phase' = [phase EXCEPT ![p] = e]
    /\ account' = [account EXCEPT ![p] = a]
    /\ met' = [q \in Calls |-> IF phase[q] = "running" THEN met[q] \cup {p} ELSE met[q]]
    /\ UNCHANGED as

\* The use ends before any tool was asked for.
Close(p) ==
    /\ phase[p] = "open"
    /\ \E e \in {"done", "failed"} : phase' = [phase EXCEPT ![p] = e]
    /\ UNCHANGED <<account, met, as>>

\* The call is let through: its tool may run from now on.
Start(p) ==
    /\ phase[p] = "open"
    /\ phase' = [phase EXCEPT ![p] = "running"]
    /\ met' = [met EXCEPT ![p] = Open]
    /\ UNCHANGED <<account, as>>

\* The tool runs: once, under the account of a call that p met.
Run(p) ==
    /\ phase[p] = "running"
    /\ as[p] = None
    /\ \E q \in met[p] : as' = [as EXCEPT ![p] = account[q]]
    /\ UNCHANGED <<phase, account, met>>

\* A result is reported only for a tool that ran.
Return(p) ==
    /\ phase[p] = "running"
    /\ as[p] # None
    /\ phase' = [phase EXCEPT ![p] = "done"]
    /\ UNCHANGED <<account, met, as>>

\* A failure may be reported in either case: the answer can get lost.
Fail(p) ==
    /\ phase[p] = "running"
    /\ phase' = [phase EXCEPT ![p] = "failed"]
    /\ UNCHANGED <<account, met, as>>

Next == \E p \in Calls :
    \/ \E a \in Accounts : Announce(p, a)
    \/ Close(p) \/ Start(p) \/ Run(p) \/ Return(p) \/ Fail(p)

Spec == Init /\ [][Next]_vars
===============================================================================
