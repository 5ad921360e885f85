------------------------------ MODULE ServiceCalls ------------------------------
(***************************************************************************)
(* One call of a connector that is compiled in, from the decision on it to *)
(* the class of its answer: the operation type that the method is declared *)
(* with decides what the policy says (match() of policy-engine.ts), the    *)
(* execute function of the connector decides what is sent, and the         *)
(* classifiers of the connectors and of executor.ts what the failure is    *)
(* called.  The three are written down in different places of the code.    *)
(*                                                                         *)
(* The services are external: they answer a request with any status, or    *)
(* not at all.                                                             *)
(***************************************************************************)
EXTENDS Sequences, Integers, RestConnectors, SdkConnectors, CloudflareMethods, StripeMethods

CONSTANTS
    Policies,  \* the policy documents the user may have saved
    Nothing    \* no method, no document

VARIABLES
    policy,    \* the document of the agent and the account, as the decision read it
    stage,     \* how far the call has come
    method,    \* its method
    approved,  \* the user has approved it
    sent,      \* the verbs of the requests sent with the account's credentials
    status,    \* the HTTP status that the classifier sees, 0 if there is none
    class      \* what the answer is called

callVars == <<policy, stage, method, approved, sent, status, class>>

Services == {"gmail", "trello", "airtable", "agentmail", "hetzner", "x", "notion",
             "cloudflare", "stripe"}

Statuses == {200, 400, 401, 403, 404, 408, 429, 500}

Classes == {"none", "ok", "auth", "permission", "network", "logic", "unclassified"}

Verbs == {"GET", "POST", "PUT", "PATCH", "DELETE", "call"}

-------------------------------------------------------------------------------
(* Methods and requests.                                                   *)

\* The methods of the registered connectors.
MethodsOf(service) ==
    CASE service = "gmail" -> GmailMethods
      [] service = "trello" -> TrelloMethods
      [] service = "airtable" -> AirtableMethods
      [] service = "agentmail" -> AgentMailMethods
      [] service = "hetzner" -> HetznerMethods
      [] service = "x" -> XMethods
      [] service = "notion" -> NotionMethods
      [] service = "cloudflare" -> AllCloudflareMethods
      [] service = "stripe" -> AllStripeMethods

Methods ==
    UNION {{[service |-> s, resource |-> d.resource, action |-> d.action,
             operationType |-> d.operationType] : d \in MethodsOf(s)} : s \in Services}

\* getMethodGroup(): the name up to its first dot, or all of it.
getMethodGroup(m) == IF m.resource = <<>> THEN m.action ELSE Head(m.resource)

OperationTypes == [m \in Methods |-> m.operationType]

MethodGroups == [m \in Methods |-> getMethodGroup(m)]

\* The request in the table of a connector, if its switch has the method.
InTable(table, m) ==
    {r.verb : r \in {x \in table : x.resource = m.resource /\ x.action = m.action}}

\* What the function of an SDK sends is not in this repository ("call").
VerbsOf(m) ==
    CASE m.service = "gmail" -> InTable(GmailRequests, m)
      [] m.service = "trello" -> InTable(TrelloRequests, m)
      [] m.service = "airtable" -> InTable(AirtableRequests, m)
      [] m.service = "agentmail" -> InTable(AgentMailRequests, m)
      [] m.service = "hetzner" -> InTable(HetznerRequests, m)
      [] m.service = "x" -> InTable(XRequests, m)
      [] OTHER -> {"call"}

RequestsOf == [m \in Methods |-> VerbsOf(m)]

\* Only an SDK can lack the function; the tables are the connectors' own.
MayLack(m) == m.service \in {"notion", "cloudflare", "stripe"} \/ RequestsOf[m] = {}

-------------------------------------------------------------------------------
(* What a failure is called.                                               *)

\* Without the statuses from 500 on.
ServerErrorsAreLogic(s) ==
    CASE s = 401 -> "auth"
      [] s = 403 -> "permission"
      [] s \in {408, 429} -> "network"
      [] OTHER -> "logic"

\* For Gmail, Trello, Airtable, AgentMail and Hetzner.
classifyFetchError(s) ==
    CASE s = 401 -> "auth"
      [] s = 403 -> "permission"
      [] s \in {408, 429} \/ s >= 500 -> "network"
      [] OTHER -> "logic"

classifyXError(s) ==
    CASE s = 401 -> "auth"
      [] s = 403 -> "permission"
      [] s = 429 \/ s = 408 \/ s >= 500 -> "network"
      [] OTHER -> "logic"

\* Without the last return.
classifyNotionErrorNoDefault(s) ==
    CASE s = 401 -> "auth"
      [] s = 403 -> "permission"
      [] s = 429 \/ s = 408 \/ s >= 500 -> "network"
      [] OTHER -> "undefined"

classifyNotionError(s) ==
    CASE s = 401 -> "auth"
      [] s = 403 -> "permission"
      [] s = 429 \/ s = 408 \/ s >= 500 -> "network"
      [] OTHER -> "logic"

\* By the error classes of the SDK, which has none for 408.
classifyCloudflareError(s) ==
    CASE s = 401 -> "auth"
      [] s = 403 -> "permission"
      [] s = 429 \/ s >= 500 -> "network"
      [] OTHER -> "logic"

\* By the error classes of the SDK: a 400 may be a refused grant, which is called
\* what a refused key is.
classifyStripeError(s) ==
    CASE s = 401 -> {"auth"}
      [] s = 403 -> {"permission"}
      [] s = 429 \/ s >= 500 -> {"network"}
      [] s = 400 -> {"logic", "auth"}
      [] OTHER -> {"logic"}

ClassesOf(service, s) ==
    CASE service = "x" -> {classifyXError(s)}
      [] service = "notion" -> {classifyNotionError(s)}
      [] service = "cloudflare" -> {classifyCloudflareError(s)}
      [] service = "stripe" -> classifyStripeError(s)
      [] OTHER -> {classifyFetchError(s)}

\* No status: two SDKs have a class for a lost connection, the one of Notion
\* only for a timeout, and the one of Stripe has an error without a status for
\* an answer it cannot read; what fetch() throws has no code at its top, so
\* that classifyConnectorError() leaves it as it is.
UnansweredClasses(service) ==
    CASE service = "cloudflare" -> {"network"}
      [] service = "stripe" -> {"network", "logic"}
      [] service = "notion" -> {"network", "unclassified"}
      [] OTHER -> {"unclassified"}

-------------------------------------------------------------------------------

\* What the documents mean for the declared methods.
Policy == INSTANCE PolicyRules WITH
    Accounts <- {"account"}, Methods <- Methods,
    OperationType <- OperationTypes, MethodGroup <- MethodGroups

\* What the user saves is, migrated, a V2 document (PolicyEngineProofs shows it
\* for the V1 and the V2 documents there are).
ASSUME PoliciesAssumption ==
    \A document \in Policies : Policy!IsPolicyV2(Policy!migratePolicy(document))

CallTypeOK ==
    /\ policy \in Policies \cup {Nothing}
    /\ stage \in {"new", "asked", "permitted", "waiting", "ended"}
    /\ method \in Methods \cup {Nothing}
    /\ approved \in BOOLEAN
    /\ sent \in SUBSET Verbs
    /\ status \in Statuses \cup {0}
    /\ class \in Classes

CallInit ==
    /\ policy = Nothing
    /\ stage = "new"
    /\ method = Nothing
    /\ approved = FALSE
    /\ sent = {}
    /\ status = 0
    /\ class = "none"

\* An agent calls a method of the service, and the policy decides.
Decide(service, m, document) ==
    /\ stage = "new"
    /\ m.service = service
    /\ method' = m
    /\ policy' = document
    /\ LET decision == Policy!match(Policy!migratePolicy(document), m)
       IN  stage' = CASE decision = "deny" -> "ended"
                      [] decision = "ask" -> "asked"
                      [] OTHER -> "permitted"
    /\ UNCHANGED <<approved, sent, status, class>>

\* extractPermMetadata(): the connector declares no such method.
DecideUnknown ==
    /\ stage = "new"
    /\ stage' = "ended"
    /\ class' = "unclassified"
    /\ UNCHANGED <<policy, method, approved, sent, status>>

\* While the user looks at the request the interface asks the service for what
\* the ids in it stand for (routes/resolve.ts); failures are swallowed.
ResolveId ==
    /\ stage = "asked"
    /\ sent' = sent \cup {"GET"}
    /\ UNCHANGED <<policy, stage, method, approved, status, class>>

Approve ==
    /\ stage = "asked"
    /\ stage' = "permitted"
    /\ approved' = TRUE
    /\ UNCHANGED <<policy, method, sent, status, class>>

Deny ==
    /\ stage = "asked"
    /\ stage' = "ended"
    /\ UNCHANGED <<policy, method, approved, sent, status, class>>

\* ConnectorExecutor.execute() of a connector without ensureReady(): the
\* execute function of the connector sends its request.
DispatchUnasked ==
    /\ stage \in {"asked", "permitted"}
    /\ \E verb \in RequestsOf[method] : sent' = sent \cup {verb}
    /\ stage' = "waiting"
    /\ UNCHANGED <<policy, method, approved, status, class>>

Dispatch ==
    /\ stage = "permitted"
    /\ \E verb \in RequestsOf[method] : sent' = sent \cup {verb}
    /\ stage' = "waiting"
    /\ UNCHANGED <<policy, method, approved, status, class>>

\* ... or finds that it has none for the method.
DispatchFails ==
    /\ stage = "permitted"
    /\ MayLack(method)
    /\ stage' = "ended"
    /\ class' = "unclassified"
    /\ UNCHANGED <<policy, method, approved, sent, status>>

\* The service answers.
AnswerCall(s) ==
    /\ stage = "waiting"
    /\ stage' = "ended"
    /\ status' = s
    /\ class' \in IF s = 200 THEN {"ok"} ELSE ClassesOf(method.service, s)
    /\ UNCHANGED <<policy, method, approved, sent>>

\* The service cannot be reached, does not answer, or the answer has no status.
LoseCall ==
    /\ stage = "waiting"
    /\ stage' = "ended"
    /\ class' \in UnansweredClasses(method.service)
    /\ UNCHANGED <<policy, method, approved, sent, status>>

CallNext(service) ==
    \/ \E m \in Methods, document \in Policies : Decide(service, m, document)
    \/ DecideUnknown \/ ResolveId \/ Approve \/ Deny
    \/ Dispatch \/ DispatchFails
    \/ \E s \in Statuses : AnswerCall(s)
    \/ LoseCall

-------------------------------------------------------------------------------

\* What the document says of the method for an operation, whatever the method
\* is declared as.
Says(operation) == Policy!MatchAs(Policy!migratePolicy(policy), operation, method)

\* What the document says of the method, as it is declared, bounds everything
\* that is sent for the call with the credentials of the account: all of it if
\* the document allows the method, all of it after the user's approval if it
\* asks and only look-ups before, and nothing if it denies the method or the
\* method is not declared (rpc-router.ts:527-590, executor.ts:43-62,
\* routes/resolve.ts:33).
SentAsDecided ==
    sent # {} =>
      /\ method \in Methods
      /\ \/ Says(method.operationType) = "allow"
         \/ /\ Says(method.operationType) = "ask"
            /\ approved \/ sent = {"GET"}

\* The requests of which the verb tells that they change or delete something.
ChangingVerbs == {"POST", "PUT", "PATCH", "DELETE"}

\* The POSTs of Gmail and Hetzner whose path names a deletion
\* (gmail.ts:705, 739, 861, hetzner.ts:727-732).
DeletingPosts == {"trash", "batchDelete", "deleteSubnet", "deleteRoute", "deleteService"}

EffectOf(m, verb) ==
    IF verb = "DELETE" \/ m.action \in DeletingPosts THEN "delete" ELSE "write"

\* The methods that are declared as something else than what they send:
\* hetzner.ts:165 declares a POST as a read, hetzner.ts:275, 283 and 426 declare
\* deletions as writes.
DeclaredOtherwise(m) ==
    /\ m.service = "hetzner"
    /\ m.action \in {"requestConsole", "deleteSubnet", "deleteRoute", "deleteService"}

\* But for the four methods named above, a request that is seen to write is sent
\* only if the document of the user lets writes of this method pass or asks and
\* the user has approved the call, and one that is seen to delete only if it
\* lets deletions pass or asks.  Nothing in the code compares the operation
\* types that the policy goes by (policy-engine.ts:150) with the requests of the
\* execute functions.  Seen are the requests of the five connectors that call
\* fetch() and the deletions of X; for the methods of the SDKs SentAsDecided is
\* all there is.
OnlyPermittedChanges ==
    \A verb \in sent \cap ChangingVerbs : ~DeclaredOtherwise(method) =>
        \/ Says(EffectOf(method, verb)) = "allow"
        \/ Says(EffectOf(method, verb)) = "ask" /\ approved

\* The nine connectors, with five classifiers and the one of the executor,
\* agree on what an error tells the agent and the connection manager: only a
\* refused token, key or grant is an authentication error (it takes the
\* connection out of use), what is called a network error may pass by itself,
\* and what is called an error of the call never does (executor.ts:70,
\* routes/connections.ts:42).  Two exceptions are in the code: the
\* two SDKs without a class for 408, and an answer of Stripe that its SDK cannot
\* read, which is an error of the call (stripe/index.ts:264).
OneErrorLanguage ==
    /\ status = 401 => class = "auth"
    /\ class = "auth" => status = 401 \/ (method.service = "stripe" /\ status = 400)
    /\ class = "permission" <=> status = 403
    /\ class = "network" => status \in {0, 408, 429, 500}
    /\ class = "logic" =>
         status \in {400, 404, 408} \/ (method.service = "stripe" /\ status = 0)
    /\ class = "ok" <=> status = 200
===============================================================================
