------------------------ MODULE ConnectorExecutorProofs ------------------------
(***************************************************************************)
(* Proofs about the registry of the connectors, for any documents, answers *)
(* of the services, calls, accounts and tools: that errors mean the same   *)
(* whichever connector they come from, that the decision on a method is a  *)
(* bound on what is sent for it, and that, but for four methods, the       *)
(* tables declare as a write or a deletion what is seen to be sent as one. *)
(***************************************************************************)
EXTENDS ConnectorExecutor, McpConnectorProofs

-------------------------------------------------------------------------------
(* What a failure is called.                                               *)

\* Before the answer there is neither a status nor a class; a call that ends
\* without a status is a network error or stays unclassified, or an error of the
\* call if it was Stripe's; and every other answer is classified by its status.
ClassFitsStatus ==
    /\ stage # "ended" => status = 0 /\ class = "none"
    /\ status = 0 => \/ class \in {"none", "network", "unclassified"}
                     \/ class = "logic" /\ method.service = "stripe"
    /\ status # 0 =>
         /\ status \in Statuses
         /\ class = "ok" <=> status = 200
         /\ status = 401 => class = "auth"
         /\ class = "auth" => status = 401 \/ (method.service = "stripe" /\ status = 400)
         /\ class = "permission" <=> status = 403
         /\ class = "network" => status \in {408, 429, 500}
         /\ class = "logic" => status \in {400, 404, 408}
         /\ class \in {"ok", "auth", "permission", "network", "logic"}

\* What every classifier says of every status that is an error.
LEMMA ClassifiersAgree ==
  ASSUME NEW service, NEW s \in Statuses, s # 200, NEW c \in ClassesOf(service, s)
  PROVE  /\ s = 401 => c = "auth"
         /\ c = "auth" => s = 401 \/ (service = "stripe" /\ s = 400)
         /\ c = "permission" <=> s = 403
         /\ c = "network" => s \in {408, 429, 500}
         /\ c = "logic" => s \in {400, 404, 408}
         /\ c \in {"auth", "permission", "network", "logic"}
<1> DEFINE Agrees(d) == /\ d = "auth" <=> s = 401
                        /\ d = "permission" <=> s = 403
                        /\ d = "network" => s \in {408, 429, 500}
                        /\ d = "logic" => s \in {400, 404, 408}
                        /\ d \in {"auth", "permission", "network", "logic"}
<1>1. Agrees(classifyXError(s))
  BY DEF classifyXError, Statuses
<1>2. Agrees(classifyNotionError(s))
  BY DEF classifyNotionError, Statuses
<1>3. Agrees(classifyCloudflareError(s))
  BY DEF classifyCloudflareError, Statuses
<1>4. Agrees(classifyFetchError(s))
  BY DEF classifyFetchError, Statuses
<1>5. CASE service = "stripe"
  BY <1>5 DEF ClassesOf, classifyStripeError, Statuses
<1>6. CASE service # "stripe"
  <2>1. c \in {classifyXError(s), classifyNotionError(s), classifyCloudflareError(s),
               classifyFetchError(s)}
    BY <1>6 DEF ClassesOf
  <2> QED
    BY <1>1, <1>2, <1>3, <1>4, <2>1
<1> QED
  BY <1>5, <1>6

LEMMA ClassInit == ExecutorInit => ClassFitsStatus
BY DEF ExecutorInit, CallInit, ClassFitsStatus

LEMMA ClassInductive ==
  ASSUME ClassFitsStatus, [ExecutorNext]_executorVars
  PROVE  ClassFitsStatus'
<1> USE DEF ClassFitsStatus
<1>1. ASSUME NEW service, NEW m \in Methods, NEW document \in Policies, Decide(service, m, document)
      PROVE  ClassFitsStatus'
  BY <1>1 DEF Decide
<1>2. CASE DecideUnknown
  BY <1>2 DEF DecideUnknown
<1>3. CASE ResolveId \/ Approve \/ Deny
  BY <1>3 DEF ResolveId, Approve, Deny
<1>4. CASE Dispatch \/ DispatchFails
  BY <1>4 DEF Dispatch, DispatchFails
<1>5. ASSUME NEW s \in Statuses, AnswerCall(s)
      PROVE  ClassFitsStatus'
  <2>1. stage' = "ended" /\ status' = s /\ s # 0
    BY <1>5 DEF AnswerCall, Statuses
  <2>2. CASE s = 200
    BY <1>5, <2>1, <2>2 DEF AnswerCall
  <2>3. CASE s # 200
    <3>1. class' \in ClassesOf(method.service, s) /\ method' = method
      BY <1>5, <2>3 DEF AnswerCall
    <3> QED
      BY <2>1, <2>3, <3>1, ClassifiersAgree
  <2> QED
    BY <2>2, <2>3
<1>6. CASE LoseCall
  <2>1. \/ class' \in {"network", "unclassified"}
        \/ class' = "logic" /\ method'.service = "stripe"
    BY <1>6 DEF LoseCall, UnansweredClasses
  <2> QED
    BY <1>6, <2>1 DEF LoseCall
<1>7. CASE UNCHANGED callVars
  BY <1>7 DEF callVars
<1>8. CASE UNCHANGED executorVars
  BY <1>8 DEF executorVars, callVars
<1> QED
  BY <1>1, <1>2, <1>3, <1>4, <1>5, <1>6, <1>7, <1>8 DEF ExecutorNext, CallNext

\* Whichever connector a call goes to, a failure is called an authentication
\* error exactly if the service answered 401, or Stripe refused a grant, and a
\* permission error exactly if it answered 403; what is called a network error
\* may pass by itself, and what is called an error of the call does not, but for
\* Stripe's answers without a status (executor.ts:70-84,
\* classify-fetch-error.ts:9, the classifiers of the connectors).
THEOREM ErrorsMeanTheSame == ExecutorSpec => []OneErrorLanguage
<1>1. ClassFitsStatus => OneErrorLanguage
  BY DEF ClassFitsStatus, OneErrorLanguage, Statuses
<1> QED
  BY <1>1, ClassInit, ClassInductive, PTL DEF ExecutorSpec

-------------------------------------------------------------------------------
(* The tables of the connectors.  In those of the REST connectors the name *)
(* of an action alone tells what may be declared with it and what may be   *)
(* sent for it, but for four of Hetzner's, so that a table of methods and  *)
(* a table of requests need not be compared entry by entry.                *)

\* The actions that REST connectors declare as reads.
ReadingNames ==
    {"list", "get", "me", "members", "search", "listByList", "tables", "payloads", "whoami",
     "getRaw", "getAttachment", "getZoneFile", "getOrg", "getInbox", "getMetrics"}

\* The actions that delete.
DeletingNames == {"delete", "removeMember", "removeLabel", "removeBookmark"} \cup DeletingPosts

OperationOf(d) == d.operationType \in {"read", "write", "delete"}

\* What the name of an action says it does.
ByName(action) ==
    IF action \in ReadingNames THEN "read"
    ELSE IF action \in DeletingNames THEN "delete" ELSE "write"

\* A request that is seen to change something does what its name says.
SentByName(r) ==
    /\ r.verb \in Verbs
    /\ r.verb \in ChangingVerbs => EffectOf(r, r.verb) = ByName(r.action)

\* The declarations of four REST connectors.
LEMMA RestMethodsDeclared ==
  ASSUME NEW d \in GmailMethods \cup TrelloMethods \cup AirtableMethods \cup AgentMailMethods
  PROVE  d.operationType = ByName(d.action)
<1> USE DEF ByName, ReadingNames, DeletingNames, DeletingPosts, Ops, Declared
<1>1. CASE d \in GmailMethods
  BY <1>1 DEF GmailMethods, MessageMethods, MessageAndDraftMethods, LabelMethods, ThreadMethods
<1>2. CASE d \in TrelloMethods
  BY <1>2 DEF TrelloMethods, BoardMethods, ListMethods, CardMethods, CardContentMethods,
              ChecklistMethods, HookMethods
<1>3. CASE d \in AirtableMethods
  BY <1>3 DEF AirtableMethods, BaseMethods, RecordMethods, SchemaMethods, AirtableHookMethods
<1>4. CASE d \in AgentMailMethods
  BY <1>4 DEF AgentMailMethods, InboxMessageMethods, ThreadAndInboxMethods, MailDraftMethods,
              DomainMethods, ListAndKeyMethods, MetricsMethods
<1> QED
  BY <1>1, <1>2, <1>3, <1>4

\* The requests of the execute functions with a switch over the methods.
LEMMA RequestsSentByName ==
  ASSUME NEW r \in UNION {GmailRequests, TrelloRequests, AirtableRequests, AgentMailRequests,
                          XRequests}
  PROVE  SentByName(r)
<1> USE DEF SentByName, EffectOf, ChangingVerbs, ByName, ReadingNames, DeletingNames,
            DeletingPosts, Verbs, Requests
<1>1. CASE r \in GmailRequests
  BY <1>1 DEF GmailRequests, MailRequests, LabelAndThreadRequests
<1>2. CASE r \in TrelloRequests
  BY <1>2 DEF TrelloRequests, BoardRequests, CardRequests
<1>3. CASE r \in AirtableRequests
  BY <1>3 DEF AirtableRequests, BaseRequests, RecordRequests
<1>4. CASE r \in AgentMailRequests
  BY <1>4 DEF AgentMailRequests, InboxRequests, AdminRequests
<1>5. CASE r \in XRequests
  BY <1>5 DEF XRequests, PostRequests, MessageRequests
<1> QED
  BY <1>1, <1>2, <1>3, <1>4, <1>5

\* Of the X connector only the deletions are seen, and it declares them.
LEMMA XMethodsDeclared ==
  ASSUME NEW d \in XMethods
  PROVE  /\ OperationOf(d)
         /\ d.action \in DeletingNames => d.operationType = "delete"
BY DEF OperationOf, DeletingNames, DeletingPosts, XMethods, PostMethods, PostMetrics,
       UserMethods, UserAndMessageMethods, ListAndSpaceMethods, CommunityMethods, UsageMethods,
       Ops, Declared

LEMMA XRequestsSent ==
  ASSUME NEW r \in XRequests
  PROVE  /\ r.verb \in {"GET", "call", "DELETE"}
         /\ r.verb = "DELETE" => r.action \in DeletingNames
BY DEF XRequests, PostRequests, MessageRequests, Requests, DeletingNames

\* Hetzner's declarations and the four that do not fit.
LEMMA HetznerMethodsDeclared ==
  ASSUME NEW d \in HetznerMethods
  PROVE  /\ OperationOf(d)
         /\ d.action \in {"requestConsole", "deleteSubnet", "deleteRoute", "deleteService"}
              <=> d.operationType # ByName(d.action)
BY DEF HetznerMethods, ServerMethods, AddressMethods, BalancerMethods, StorageMethods,
       OperationOf, ByName, ReadingNames, DeletingNames, DeletingPosts, Ops, Declared

LEMMA HetznerRequestsSent ==
  ASSUME NEW d \in HetznerMethods, HetznerVerb(d.action) \in ChangingVerbs
  PROVE  EffectOf(d, HetznerVerb(d.action)) = ByName(d.action)
BY DEF HetznerMethods, ServerMethods, AddressMethods, BalancerMethods, StorageMethods,
       HetznerVerb, EffectOf, ChangingVerbs, ByName, ReadingNames, DeletingNames,
       DeletingPosts, Ops, Declared

-------------------------------------------------------------------------------
(* The methods of the three SDKs that have a function for each.            *)

LEMMA OpsDeclared ==
  ASSUME NEW resource, NEW reads, NEW writes, NEW deletes
  PROVE  \A d \in Ops(resource, reads, writes, deletes) : OperationOf(d)
BY DEF Ops, Declared, OperationOf

\* crudMethods() declares by the name, whatever options it is given.
LEMMA CrudMethodsDeclared ==
  ASSUME NEW resource, NEW opts
  PROVE  \A d \in crudMethods(resource, opts) : OperationOf(d)
BY OpsDeclared DEF crudMethods

LEMMA NotionMethodsDeclared ==
  ASSUME NEW d \in NotionMethods
  PROVE  OperationOf(d)
BY OpsDeclared
   DEF NotionMethods, blocksMethods, commentsMethods, databasesMethods,
       dataSourcesMethods, fileUploadsMethods, pagesMethods, searchMethods, usersMethods,
       viewsMethods

LEMMA StripeMethodsDeclared ==
  ASSUME NEW d \in AllStripeMethods
  PROVE  OperationOf(d)
<1> USE OpsDeclared, CrudMethodsDeclared
<1>1. CASE d \in coreMethods
  BY <1>1 DEF coreMethods
<1>2. CASE d \in customersMethods
  BY <1>2 DEF customersMethods
<1>3. CASE d \in customersMore
  BY <1>3 DEF customersMore
<1>4. CASE d \in billingMethods
  BY <1>4 DEF billingMethods
<1>5. CASE d \in billingMore
  BY <1>5 DEF billingMore
<1>6. CASE d \in connectMethods
  BY <1>6 DEF connectMethods
<1>7. CASE d \in checkoutMethods
  BY <1>7 DEF checkoutMethods
<1>8. CASE d \in issuingMethods
  BY <1>8 DEF issuingMethods
<1>9. CASE d \in treasuryMethods
  BY <1>9 DEF treasuryMethods
<1>10. CASE d \in otherMethods
  BY <1>10 DEF otherMethods
<1>11. CASE d \in otherMore
  BY <1>11 DEF otherMore
<1> QED
  BY <1>1, <1>2, <1>3, <1>4, <1>5, <1>6, <1>7, <1>8, <1>9, <1>10, <1>11
     DEF AllStripeMethods

LEMMA CloudflareMethodsDeclared ==
  ASSUME NEW d \in AllCloudflareMethods
  PROVE  OperationOf(d)
<1> USE OpsDeclared
<1>1. CASE d \in UNION {Zones, DnsSettings, WorkerScripts, WorkerRoutes, KeyValueStores,
                       DatabasesAndQueues, ConsumersAndWorkflows, ConfigsAndPipelines}
  BY <1>1
     DEF Zones, DnsSettings, WorkerScripts, WorkerRoutes, KeyValueStores, DatabasesAndQueues,
         ConsumersAndWorkflows, ConfigsAndPipelines
<1>2. CASE d \in UNION {Buckets, BucketLocksAndStreams, StreamParts, Images, Pages,
                       HostnamesAndRooms, RoomRulesAndSnippets, Rulesets}
  BY <1>2
     DEF Buckets, BucketLocksAndStreams, StreamParts, Images, Pages, HostnamesAndRooms,
         RoomRulesAndSnippets, Rulesets
<1>3. CASE d \in UNION {Firewalls, Certificates, ClientsAndShields, PageRules,
                       AccessApplications, AccessTokens, AccessUsers, Organizations}
  BY <1>3
     DEF Firewalls, Certificates, ClientsAndShields, PageRules, AccessApplications,
         AccessTokens, AccessUsers, Organizations
<1>4. CASE d \in UNION {LoadBalancers, Tunnels, Transit, RoutingAndAddresses, Models,
                       GatewaysAndIndexes, Rendering, AccountsAndMembers}
  BY <1>4
     DEF LoadBalancers, Tunnels, Transit, RoutingAndAddresses, Models, GatewaysAndIndexes,
         Rendering, AccountsAndMembers
<1>5. CASE d \in UNION {TokensAndUsers, MembershipsAndMail, LogsAndAlerts, CachesAndHealth,
                       CustomPages}
  BY <1>5
     DEF TokensAndUsers, MembershipsAndMail, LogsAndAlerts, CachesAndHealth, CustomPages
<1> QED
  BY <1>1, <1>2, <1>3, <1>4, <1>5 DEF AllCloudflareMethods

-------------------------------------------------------------------------------
(* A call of a service.                                                    *)

\* The requests of the method that a table has.
LEMMA TableRequests ==
  ASSUME NEW table, NEW m, NEW verb \in InTable(table, m)
  PROVE  \E r \in table : r.action = m.action /\ r.verb = verb
BY DEF InTable

\* A method whose request is seen to change something is declared as what the
\* request does, except four methods of Hetzner's connector, and each of these
\* is declared as something else (hetzner.ts:165, 275, 283, 426): the list of
\* exceptions is exact.  Seen are the requests of Gmail, Trello, Airtable,
\* AgentMail and Hetzner and the deletions of X, not those of the SDKs.
THEOREM DeclaredAsSent ==
  ASSUME NEW m \in Methods, NEW verb \in RequestsOf[m], verb \in ChangingVerbs
  PROVE  m.operationType = EffectOf(m, verb) <=> ~DeclaredOtherwise(m)
<1>0. PICK s \in Services : \E d \in MethodsOf(s) :
        m = [service |-> s, resource |-> d.resource, action |-> d.action,
             operationType |-> d.operationType]
  BY DEF Methods
<1>1. PICK d \in MethodsOf(s) :
        m = [service |-> s, resource |-> d.resource, action |-> d.action,
             operationType |-> d.operationType]
  BY <1>0
<1>2. m.service = s /\ m.action = d.action /\ m.operationType = d.operationType
  BY <1>1
<1>3. verb \in VerbsOf(m)
  BY DEF RequestsOf
<1>4. CASE s \in {"gmail", "trello", "airtable", "agentmail"}
  <2>1. PICK r \in UNION {GmailRequests, TrelloRequests, AirtableRequests, AgentMailRequests} :
          r.action = d.action /\ r.verb = verb
    BY <1>2, <1>3, <1>4, TableRequests DEF VerbsOf
  <2>2. d.operationType = ByName(d.action)
    BY <1>4, RestMethodsDeclared DEF MethodsOf
  <2>3. SentByName(r)
    BY RequestsSentByName
  <2> QED
    BY <1>2, <1>4, <2>1, <2>2, <2>3 DEF SentByName, EffectOf, DeclaredOtherwise
<1>5. CASE s = "x"
  <2>1. PICK r \in XRequests : r.action = d.action /\ r.verb = verb
    BY <1>2, <1>3, <1>5, TableRequests DEF VerbsOf
  <2>2. verb = "DELETE" /\ d.action \in DeletingNames
    BY <2>1, XRequestsSent DEF ChangingVerbs
  <2>3. d.operationType = "delete"
    BY <1>5, <2>2, XMethodsDeclared DEF MethodsOf
  <2> QED
    BY <1>2, <1>5, <2>2, <2>3 DEF EffectOf, DeclaredOtherwise
<1>6. CASE s = "hetzner"
  <2>1. verb = HetznerVerb(d.action) /\ d \in HetznerMethods
    BY <1>2, <1>3, <1>6 DEF VerbsOf, InTable, HetznerRequests, MethodsOf
  <2>2. EffectOf(d, verb) = ByName(d.action)
    BY <2>1, HetznerRequestsSent
  <2>3. d.action \in {"requestConsole", "deleteSubnet", "deleteRoute", "deleteService"}
          <=> d.operationType # ByName(d.action)
    BY <2>1, HetznerMethodsDeclared
  <2> QED
    BY <1>2, <1>6, <2>2, <2>3 DEF EffectOf, DeclaredOtherwise
<1>7. CASE s \in {"notion", "cloudflare", "stripe"}
  BY <1>2, <1>3, <1>7 DEF VerbsOf, ChangingVerbs
<1> QED
  BY <1>4, <1>5, <1>6, <1>7 DEF Services

\* Of the declared methods each has an operation type.
LEMMA MethodOperation ==
  ASSUME NEW m \in Methods
  PROVE  m.operationType \in {"read", "write", "delete"}
<1>0. PICK s \in Services : \E d \in MethodsOf(s) : m.operationType = d.operationType
  BY DEF Methods
<1>1. PICK d \in MethodsOf(s) : m.operationType = d.operationType
  BY <1>0
<1>2. OperationOf(d)
  BY RestMethodsDeclared, XMethodsDeclared, HetznerMethodsDeclared, NotionMethodsDeclared,
     CloudflareMethodsDeclared, StripeMethodsDeclared
     DEF Services, MethodsOf, OperationOf, ByName
<1> QED
  BY <1>1, <1>2 DEF OperationOf

\* A V2 document has one of the three decisions for every method.
LEMMA DocumentDecides ==
  ASSUME NEW doc, Policy!IsPolicyV2(doc), NEW m \in Methods
  PROVE  Policy!match(doc, m) \in {"allow", "ask", "deny"}
<1> DEFINE category == doc.categories[m.operationType]
<1>1. Policy!match(doc, m) = Policy!MatchAs(doc, m.operationType, m)
  BY DEF Policy!match, OperationTypes
<1>2. doc.default \in {"allow", "ask", "deny"} /\ Policy!IsCategoryPolicy(category)
  BY MethodOperation DEF Policy!IsPolicyV2, Policy!Operations, Policy!Decisions
<1>3. CASE category.action # "custom"
  BY <1>1, <1>2, <1>3 DEF Policy!MatchAs, Policy!IsCategoryPolicy, Policy!Decisions
<1>4. CASE category.action = "custom" /\ MethodGroups[m] \in DOMAIN category.groups
  <2>1. Policy!IsGroupPolicy(category.groups[MethodGroups[m]])
    BY <1>2, <1>4 DEF Policy!IsCategoryPolicy
  <2>2. Policy!MatchGroup(category.groups[MethodGroups[m]], m, doc.default)
          \in {"allow", "ask", "deny"}
    BY <1>2, <2>1 DEF Policy!IsGroupPolicy, Policy!MatchGroup, Policy!Decisions
  <2> QED
    BY <1>1, <1>4, <2>2 DEF Policy!MatchAs
<1>5. CASE category.action = "custom" /\ MethodGroups[m] \notin DOMAIN category.groups
  BY <1>1, <1>2, <1>5 DEF Policy!MatchAs
<1> QED
  BY <1>3, <1>4, <1>5

\* The call is as far as the document and the user have let it come: this is
\* what keeps a later request within their permission.
AsFarAsPermitted ==
    /\ stage = "new" => sent = {}
    /\ stage \in {"asked", "permitted", "waiting"} => method \in Methods
    /\ stage = "asked" => Says(method.operationType) = "ask"
    /\ stage \in {"permitted", "waiting"} =>
         \/ Says(method.operationType) = "allow"
         \/ Says(method.operationType) = "ask" /\ approved

PermitInv == AsFarAsPermitted /\ OnlyPermittedChanges

LEMMA PermitInit == ExecutorInit => PermitInv
BY DEF ExecutorInit, CallInit, PermitInv, AsFarAsPermitted, OnlyPermittedChanges

\* A request that may be sent now, because the document or the user permits
\* the method, is added to those that were sent before.
LEMMA SendPermitted ==
  ASSUME PermitInv, method \in Methods, NEW verb, sent' = sent \cup {verb},
         UNCHANGED <<policy, method, approved>>,
         verb \in ChangingVerbs /\ ~DeclaredOtherwise(method) =>
           \/ Says(EffectOf(method, verb)) = "allow"
           \/ Says(EffectOf(method, verb)) = "ask" /\ approved
  PROVE  OnlyPermittedChanges'
<1>1. /\ DeclaredOtherwise(method)' <=> DeclaredOtherwise(method)
      /\ \A v : EffectOf(method, v)' = EffectOf(method, v)
  BY DEF DeclaredOtherwise, EffectOf
<1>2. \A operation : Says(operation)' = Says(operation)
  BY DEF Says
<1> QED
  BY <1>1, <1>2 DEF PermitInv, OnlyPermittedChanges

\* A step that sends nothing, and takes back neither the decision nor the
\* approval.
LEMMA NothingSent ==
  ASSUME PermitInv, UNCHANGED <<policy, method, sent>>, approved => approved'
  PROVE  OnlyPermittedChanges'
<1>1. /\ DeclaredOtherwise(method)' <=> DeclaredOtherwise(method)
      /\ \A v : EffectOf(method, v)' = EffectOf(method, v)
  BY DEF DeclaredOtherwise, EffectOf
<1>2. \A operation : Says(operation)' = Says(operation)
  BY DEF Says
<1> QED
  BY <1>1, <1>2 DEF PermitInv, OnlyPermittedChanges

LEMMA PermitInductive ==
  ASSUME PermitInv, [ExecutorNext]_executorVars
  PROVE  PermitInv'
<1>1. ASSUME NEW service, NEW m \in Methods, NEW document \in Policies, Decide(service, m, document)
      PROVE  PermitInv'
  <2>1. sent' = {} /\ method' = m /\ policy' = document
    BY <1>1 DEF Decide, PermitInv, AsFarAsPermitted
  <2>2. Says(m.operationType)' = Policy!match(Policy!migratePolicy(document), m)
    BY <2>1 DEF Says, Policy!match, OperationTypes
  <2>3. Says(m.operationType)' \in {"allow", "ask", "deny"}
    BY <2>2, PoliciesAssumption, DocumentDecides
  <2>4. stage' = CASE Says(m.operationType)' = "deny" -> "ended"
                   [] Says(m.operationType)' = "ask" -> "asked"
                   [] OTHER -> "permitted"
    BY <1>1, <2>2 DEF Decide
  <2>5. AsFarAsPermitted'
    BY <2>1, <2>3, <2>4 DEF AsFarAsPermitted
  <2> QED
    BY <2>1, <2>5 DEF PermitInv, OnlyPermittedChanges
<1>2. CASE ResolveId
  <2>1. method \in Methods /\ Says(method.operationType) = "ask"
    BY <1>2 DEF ResolveId, PermitInv, AsFarAsPermitted
  <2>2. "GET" \notin ChangingVerbs
    BY DEF ChangingVerbs
  <2>3. OnlyPermittedChanges'
    BY <1>2, <2>1, <2>2, SendPermitted DEF ResolveId
  <2> QED
    BY <1>2, <2>3 DEF ResolveId, PermitInv, AsFarAsPermitted, Says
<1>3. CASE Dispatch
  <2>1. /\ method \in Methods
        /\ \/ Says(method.operationType) = "allow"
           \/ Says(method.operationType) = "ask" /\ approved
    BY <1>3 DEF Dispatch, PermitInv, AsFarAsPermitted
  <2>2. PICK verb \in RequestsOf[method] : sent' = sent \cup {verb}
    BY <1>3 DEF Dispatch
  <2>3. verb \in ChangingVerbs /\ ~DeclaredOtherwise(method)
          => method.operationType = EffectOf(method, verb)
    BY <2>1, <2>2, DeclaredAsSent
  <2>4. OnlyPermittedChanges'
    BY <1>3, <2>1, <2>2, <2>3, SendPermitted DEF Dispatch
  <2> QED
    BY <1>3, <2>4 DEF Dispatch, PermitInv, AsFarAsPermitted, Says
<1>4. CASE Approve
  <2>1. OnlyPermittedChanges'
    BY <1>4, NothingSent DEF Approve
  <2> QED
    BY <1>4, <2>1 DEF Approve, PermitInv, AsFarAsPermitted, Says
<1>5. ASSUME DecideUnknown \/ Deny \/ DispatchFails \/ LoseCall \/ \E s \in Statuses : AnswerCall(s)
      PROVE  PermitInv'
  <2>1. stage' = "ended" /\ UNCHANGED <<policy, method, approved, sent>>
    BY <1>5 DEF DecideUnknown, Deny, DispatchFails, LoseCall, AnswerCall
  <2>2. OnlyPermittedChanges'
    BY <2>1, NothingSent
  <2> QED
    BY <2>1, <2>2 DEF PermitInv, AsFarAsPermitted
<1>6. ASSUME UNCHANGED callVars
      PROVE  PermitInv'
  BY <1>6
     DEF callVars, PermitInv, AsFarAsPermitted, OnlyPermittedChanges, Says, EffectOf,
         DeclaredOtherwise
<1> QED
  BY <1>1, <1>2, <1>3, <1>4, <1>5, <1>6 DEF ExecutorNext, CallNext, executorVars

LEMMA AlwaysPermitInv == ExecutorSpec => []PermitInv
BY PermitInit, PermitInductive, PTL DEF ExecutorSpec

\* Whatever documents the user saves, a request that is seen to write or to delete
\* is sent for a call only if the document allows that operation for the method,
\* or asks and the user has approved the call; the four methods that
\* DeclaredAsSent names are excepted (policy-engine.ts:150, connectors/*.ts).
THEOREM ChangesArePermitted == ExecutorSpec => []OnlyPermittedChanges
<1>1. PermitInv => OnlyPermittedChanges
  BY DEF PermitInv
<1> QED
  BY <1>1, AlwaysPermitInv, PTL

LEMMA SentAsDecidedStep ==
  ASSUME PermitInv, SentAsDecided, [ExecutorNext]_executorVars
  PROVE  SentAsDecided'
<1>1. ASSUME NEW service, NEW m \in Methods, NEW document \in Policies, Decide(service, m, document)
      PROVE  SentAsDecided'
  BY <1>1 DEF Decide, PermitInv, AsFarAsPermitted, SentAsDecided
<1>2. CASE ResolveId
  <2>1. method \in Methods /\ Says(method.operationType) = "ask"
    BY <1>2 DEF ResolveId, PermitInv, AsFarAsPermitted
  <2>2. approved' \/ sent' = {"GET"}
    BY <1>2, <2>1 DEF ResolveId, SentAsDecided
  <2> QED
    BY <1>2, <2>1, <2>2 DEF ResolveId, SentAsDecided, Says
<1>3. CASE Dispatch
  BY <1>3 DEF Dispatch, PermitInv, AsFarAsPermitted, SentAsDecided, Says
<1>4. CASE Approve
  BY <1>4 DEF Approve, SentAsDecided, Says
<1>5. ASSUME \/ DecideUnknown \/ Deny \/ DispatchFails \/ LoseCall
             \/ \E s \in Statuses : AnswerCall(s)
             \/ UNCHANGED callVars
      PROVE  SentAsDecided'
  <2>1. UNCHANGED <<policy, method, approved, sent>>
    BY <1>5 DEF DecideUnknown, Deny, DispatchFails, LoseCall, AnswerCall, callVars
  <2> QED
    BY <2>1 DEF SentAsDecided, Says
<1> QED
  BY <1>1, <1>2, <1>3, <1>4, <1>5 DEF ExecutorNext, CallNext, executorVars

\* No request leaves with the account's credentials for a call that the policy
\* denies, and none but the look-ups for one that waits for the user
\* (rpc-router.ts:527-590, executor.ts:56).
THEOREM CallsSendAsDecided == ExecutorSpec => []SentAsDecided
<1>1. ExecutorInit => SentAsDecided
  BY DEF ExecutorInit, CallInit, SentAsDecided
<1> QED
  BY <1>1, SentAsDecidedStep, AlwaysPermitInv, PTL DEF ExecutorSpec

-------------------------------------------------------------------------------
(* Types, and the connector of an MCP service.                             *)

\* What is sent for a method is one of the verbs.
LEMMA RequestVerbs ==
  ASSUME NEW m \in Methods, NEW verb \in RequestsOf[m]
  PROVE  verb \in Verbs
<1>1. m.service \in Services
  BY DEF Methods
<1>2. verb \in VerbsOf(m)
  BY DEF RequestsOf
<1>3. CASE m.service \in {"gmail", "trello", "airtable", "agentmail", "x"}
  <2>1. PICK r \in UNION {GmailRequests, TrelloRequests, AirtableRequests, AgentMailRequests,
                          XRequests} : r.verb = verb
    BY <1>2, <1>3, TableRequests DEF VerbsOf
  <2> QED
    BY <2>1, RequestsSentByName DEF SentByName
<1>4. CASE m.service = "hetzner"
  BY <1>2, <1>4 DEF VerbsOf, InTable, HetznerRequests, HetznerVerb, Verbs
<1>5. CASE m.service \in {"notion", "cloudflare", "stripe"}
  BY <1>2, <1>5 DEF VerbsOf, Verbs
<1> QED
  BY <1>1, <1>3, <1>4, <1>5 DEF Services

LEMMA CallTypeInductive ==
  ASSUME CallTypeOK, PermitInv, [ExecutorNext]_executorVars
  PROVE  CallTypeOK'
<1> USE DEF CallTypeOK
<1>1. ASSUME NEW service, NEW m \in Methods, NEW document \in Policies, Decide(service, m, document)
      PROVE  CallTypeOK'
  BY <1>1 DEF Decide
<1>2. CASE DecideUnknown \/ DispatchFails
  BY <1>2 DEF DecideUnknown, DispatchFails, Classes
<1>3. CASE ResolveId \/ Approve \/ Deny
  BY <1>3 DEF ResolveId, Approve, Deny, Verbs
<1>4. CASE Dispatch
  <2>1. method \in Methods
    BY <1>4 DEF Dispatch, PermitInv, AsFarAsPermitted
  <2> QED
    BY <1>4, <2>1, RequestVerbs DEF Dispatch
<1>5. ASSUME NEW s \in Statuses, AnswerCall(s)
      PROVE  CallTypeOK'
  <2>1. class' \in Classes
    BY <1>5, ClassifiersAgree DEF AnswerCall, Classes
  <2> QED
    BY <1>5, <2>1 DEF AnswerCall
<1>6. CASE LoseCall
  BY <1>6 DEF LoseCall, UnansweredClasses, Classes
<1>7. CASE UNCHANGED callVars
  BY <1>7 DEF callVars
<1> QED
  BY <1>1, <1>2, <1>3, <1>4, <1>5, <1>6, <1>7 DEF ExecutorNext, CallNext, executorVars

\* One of the two sides of the executor moves.
LEMMA ExecutorStep ==
  ASSUME [ExecutorNext]_executorVars
  PROVE  [Next]_vars /\ UNCHANGED connector
BY DEF ExecutorNext, executorVars

\* The call, the session objects and the uses of an MCP connector keep their
\* types; a class is always one of those that the executor knows
\* (executor.ts:56-84, the classifiers of the connectors).
THEOREM ExecutorTypeCorrect == ExecutorSpec => []ExecutorTypeOK
<1>1. ExecutorInit => ExecutorTypeOK
  <2>1. ExecutorInit => TypeOK
    BY TypeInit DEF ExecutorInit
  <2> QED
    BY <2>1 DEF ExecutorInit, ExecutorTypeOK, CallInit, CallTypeOK, Classes
<1>2. ExecutorTypeOK /\ PermitInv /\ [ExecutorNext]_executorVars => ExecutorTypeOK'
  BY ExecutorStep, CallTypeInductive, TypeInductive DEF ExecutorTypeOK
<1> QED
  BY <1>1, <1>2, AlwaysPermitInv, PTL DEF ExecutorSpec

\* Among the other connectors, too, the MCP connector implements ToolContract
\* (executor.ts:56, mcp-connector.ts:170-194).
THEOREM ExecutorImplementsContract == ExecutorSpec => ImplementsToolContract
<1>1. ExecutorInit => Init
  BY DEF ExecutorInit
<1>2. [ExecutorNext]_executorVars => [Next]_vars
  BY ExecutorStep
<1>3. ExecutorSpec => Spec
  BY <1>1, <1>2, PTL DEF ExecutorSpec, Spec
<1> QED
  BY <1>3, McpImplementsContract, PTL
===============================================================================
